---------------------------- MODULE PlannerProofs ----------------------------
(***************************************************************************)
(* Theorems about CyclePlanner, for every set of operations: its types,    *)
(* what a cycle requests and how often, what its checkpoints cover, and    *)
(* what follows when the paths of producers sort before their consumers'.  *)
(***************************************************************************)
EXTENDS CyclePlanner, FiniteSetTheorems, TLAPS

USE ConstantsAssumption

\* A cycle is being planned, or its plan executed.
Busy == {"pass", "combo", "ready", "saved"}

\* Where the loop stands: an operation is fetched once in a cycle, and the
\* locals of GenerateCyclePlan are empty outside a cycle.
FlowInv ==
    /\ pc = "combo" =>
          /\ pos \in Ops
          /\ pos \notin fetched
          /\ pos \notin OneShots \cap completed
          /\ todo \subseteq Combinations(pos)
    /\ pc \in {"idle", "dead"} => pos = 1 /\ fetched = {} /\ asked = {} /\ plan = NoPlan
    /\ plan.oneShots \subseteq OneShots

-----------------------------------------------------------------------------
(* Operators of the planner.                                                *)

LEMMA OpFacts ==
    /\ OneShots \subseteq Ops /\ FullReloads \subseteq Ops /\ Incrementals \subseteq Ops
    /\ \A op \in Ops : op \in OneShots \/ op \in FullReloads \/ op \in Incrementals
    /\ OneShots \cap FullReloads = {} /\ OneShots \cap Incrementals = {}
    /\ FullReloads \cap Incrementals = {}
    /\ \A op \in Ops : Params[op] \subseteq Ids
  BY DEF OneShots, FullReloads, Incrementals, Modes

LEMMA CombosType ==
    ASSUME NEW op \in Ops, NEW values
    PROVE  Combos(op, values) \subseteq Combinations(op)
  BY DEF Combos

LEMMA PublishType ==
    ASSUME NEW op, NEW rows \in SUBSET Keys, NEW values \in Values
    PROVE  /\ Publish(op, rows, values) \in Values
           /\ \A id \in Ids : values[id] \subseteq Publish(op, rows, values)[id]
  BY DEF Publish, Values

LEMMA EmptyTypes == NoValues \in Values /\ NoPlan \in Plans
  BY DEF NoValues, Values, NoPlan, Plans, PlannedRows

\* A checkpoint exists for each combination of an incremental operation.
LEMMA KeyType ==
    ASSUME NEW op \in Incrementals, NEW c \in Combinations(op)
    PROVE  <<op, c>> \in CheckpointKeys
  BY DEF CheckpointKeys

LEMMA AnswerType ==
    ASSUME TypeOK, NEW op \in Ops, NEW c
    PROVE  Answer(op, c) \in SUBSET Keys
<1>1. served[op] \in SUBSET Keys
  BY DEF TypeOK
<1> QED
  BY <1>1 DEF Answer, Rows

\* What one combination adds to the plan.
RowsOf(c) == {<<pos, k>> : k \in Answer(pos, c)}

CheckpointOf(c) ==
    [key |-> <<pos, c>>, covers |-> checkpoints[<<pos, c>>] \cup Answer(pos, c)]

LEMMA AddRowsFields ==
    ASSUME NEW p \in Plans, pos \in Ops, NEW c
    PROVE  /\ AddRows(p, c).creates = p.creates
           /\ AddRows(p, c).oneShots = p.oneShots
           /\ AddRows(p, c).upsert =
                 IF pos \in FullReloads THEN p.upsert ELSE p.upsert \cup RowsOf(c)
           /\ AddRows(p, c).full =
                 IF pos \in FullReloads THEN p.full \cup RowsOf(c) ELSE p.full
           /\ AddRows(p, c).pending =
                 IF pos \in Incrementals THEN p.pending \cup {CheckpointOf(c)} ELSE p.pending
           /\ AddRows(p, c) = [creates |-> AddRows(p, c).creates,
                               upsert |-> AddRows(p, c).upsert,
                               full |-> AddRows(p, c).full,
                               pending |-> AddRows(p, c).pending,
                               oneShots |-> AddRows(p, c).oneShots]
<1>1. p = [creates |-> p.creates, upsert |-> p.upsert, full |-> p.full,
           pending |-> p.pending, oneShots |-> p.oneShots]
  BY DEF Plans
<1> DEFINE rows == RowsOf(c)
           checkpoint == CheckpointOf(c)
<1>2. AddRows(p, c) =
         CASE pos \in OneShots     -> [p EXCEPT !.upsert = @ \cup rows]
           [] pos \in FullReloads  -> [p EXCEPT !.full = @ \cup rows]
           [] pos \in Incrementals -> [p EXCEPT !.upsert = @ \cup rows,
                                                !.pending = @ \cup {checkpoint}]
  BY DEF AddRows, RowsOf, CheckpointOf
<1> HIDE DEF rows, checkpoint
<1>3. CASE pos \in OneShots
  <2>1. AddRows(p, c) = [p EXCEPT !.upsert = @ \cup rows]
    BY <1>2, <1>3, OpFacts
  <2> QED
    BY <1>1, <1>3, <2>1, OpFacts DEF rows
<1>4. CASE pos \in FullReloads
  <2>1. AddRows(p, c) = [p EXCEPT !.full = @ \cup rows]
    BY <1>2, <1>4, OpFacts
  <2> QED
    BY <1>1, <1>4, <2>1, OpFacts DEF rows
<1>5. CASE pos \in Incrementals
  <2>1. AddRows(p, c) = [p EXCEPT !.upsert = @ \cup rows, !.pending = @ \cup {checkpoint}]
    BY <1>2, <1>5, OpFacts
  <2> QED
    BY <1>1, <1>5, <2>1, OpFacts DEF rows, checkpoint
<1> QED
  BY <1>3, <1>4, <1>5, OpFacts

\* Adding the rows of a combination keeps the type of the plan.
LEMMA AddRowsType ==
    ASSUME TypeOK, pos \in Ops, NEW c \in Combinations(pos)
    PROVE  AddRows(plan, c) \in Plans
<1>1. plan \in Plans /\ checkpoints \in [CheckpointKeys -> SUBSET Keys]
  BY DEF TypeOK
<1>2. Answer(pos, c) \in SUBSET Keys
  BY AnswerType
<1>3. RowsOf(c) \in PlannedRows
  BY <1>2 DEF PlannedRows, RowsOf
<1>4. pos \in Incrementals => CheckpointOf(c) \in CheckpointRecords
  BY <1>1, <1>2, KeyType DEF CheckpointRecords, CheckpointOf
<1>5. /\ plan.creates \in SUBSET Ops /\ plan.upsert \in PlannedRows
      /\ plan.full \in PlannedRows /\ plan.pending \in SUBSET CheckpointRecords
      /\ plan.oneShots \in SUBSET Ops
  BY <1>1 DEF Plans
<1>6. /\ plan.upsert \cup RowsOf(c) \in PlannedRows
      /\ plan.full \cup RowsOf(c) \in PlannedRows
  BY <1>3, <1>5 DEF PlannedRows
<1> DEFINE q == AddRows(plan, c)
<1>7. q = [creates |-> q.creates, upsert |-> q.upsert, full |-> q.full,
           pending |-> q.pending, oneShots |-> q.oneShots]
  BY <1>1, AddRowsFields
<1>8. /\ q.creates = plan.creates
      /\ q.oneShots = plan.oneShots
      /\ q.upsert = IF pos \in FullReloads THEN plan.upsert ELSE plan.upsert \cup RowsOf(c)
      /\ q.full = IF pos \in FullReloads THEN plan.full \cup RowsOf(c) ELSE plan.full
      /\ q.pending = IF pos \in Incrementals THEN plan.pending \cup {CheckpointOf(c)}
                     ELSE plan.pending
  BY <1>1, AddRowsFields
<1> HIDE DEF q
<1>9. q.creates \in SUBSET Ops /\ q.oneShots \in SUBSET Ops
  BY <1>5, <1>8
<1>10. q.upsert \in PlannedRows
  BY <1>5, <1>6, <1>8
<1>11. q.full \in PlannedRows
  BY <1>5, <1>6, <1>8
<1>12. q.pending \in SUBSET CheckpointRecords
  BY <1>4, <1>5, <1>8
<1>13. q \in Plans
  BY <1>7, <1>9, <1>10, <1>11, <1>12 DEF Plans
<1> QED
  BY <1>13 DEF q

-----------------------------------------------------------------------------
(* The types.                                                               *)

AnyCombinations == UNION {Combinations(op) : op \in Ops}
AnyRequests  == UNION {{op} \X Combinations(op) : op \in Ops}
Environments    == [changes : 0..MaxChanges, failures : 0..MaxFailures, restarts : 0..MaxRestarts]
Collections == [Ops -> SUBSET Keys]

LEMMA EnvType ==
    ASSUME env \in Environments
    PROVE  /\ env.changes < MaxChanges => [env EXCEPT !.changes = @ + 1] \in Environments
           /\ env.failures < MaxFailures => [env EXCEPT !.failures = @ + 1] \in Environments
           /\ env.restarts < MaxRestarts => [env EXCEPT !.restarts = @ + 1] \in Environments
  BY DEF Environments

LEMMA EndCycleTypes ==
    ASSUME NEW next \in {"idle", "dead"}, EndCycle(next)
    PROVE  /\ pc' \in {"idle", "dead"} /\ pos' \in 1..(N + 1) /\ shouldContinue' \in BOOLEAN
           /\ todo' \in SUBSET AnyCombinations /\ work' \in Values /\ fetched' \in SUBSET Ops
           /\ plan' \in Plans /\ asked' \in SUBSET AnyRequests /\ requests' \in Nat
<1>1. todo' \in SUBSET AnyCombinations /\ fetched' \in SUBSET Ops /\ asked' \in SUBSET AnyRequests
  BY DEF EndCycle
<1>2. work' \in Values /\ plan' \in Plans
  BY EmptyTypes DEF EndCycle
<1>3. shouldContinue' \in BOOLEAN
  BY DEF EndCycle
<1>4. pc' \in {"idle", "dead"} /\ pos' \in 1..(N + 1) /\ requests' \in Nat
  BY DEF EndCycle
<1> QED
  BY <1>1, <1>2, <1>3, <1>4

LEMMA TypeInit == Init => TypeOK
<1> SUFFICES ASSUME Init PROVE TypeOK
  OBVIOUS
<1>1. env \in Environments
  BY DEF Init, Environments
<1>2. shouldContinue \in BOOLEAN
  BY DEF Init
<1>3. /\ checkpoints \in [CheckpointKeys -> SUBSET Keys]
      /\ served \in Collections /\ stable \in Collections
  BY DEF Init, Collections
<1>4. responseValues \in Values /\ work \in Values /\ plan \in Plans
  BY EmptyTypes DEF Init
<1>5. /\ completed \in SUBSET OneShots /\ todo \in SUBSET AnyCombinations
      /\ asked \in SUBSET AnyRequests /\ fetched \in SUBSET Ops
  BY DEF Init
<1>6. pc = "idle" /\ pos \in 1..(N + 1) /\ requests \in Nat
  BY DEF Init
<1> QED
  BY <1>1, <1>2, <1>3, <1>4, <1>5, <1>6
     DEF TypeOK, Environments, Collections, AnyCombinations, AnyRequests

LEMMA TypeStep == TypeOK /\ FlowInv /\ [Next]_vars => TypeOK'
<1> SUFFICES ASSUME TypeOK, FlowInv, [Next]_vars PROVE TypeOK'
  OBVIOUS
<1> USE DEF service, cycleVars
<1> DEFINE Types ==
             /\ served \in Collections
             /\ responseValues \in Values
             /\ completed \in SUBSET OneShots
             /\ checkpoints \in [CheckpointKeys -> SUBSET Keys]
             /\ pc \in {"idle", "pass", "combo", "ready", "saved", "dead"}
             /\ pos \in 1..(N + 1)
             /\ shouldContinue \in BOOLEAN
             /\ todo \in SUBSET AnyCombinations
             /\ work \in Values
             /\ fetched \in SUBSET Ops
             /\ plan \in Plans
             /\ asked \in SUBSET AnyRequests
             /\ requests \in Nat
             /\ stable \in Collections
             /\ env \in Environments
<1>t. Types
  BY DEF TypeOK, Collections, AnyCombinations, AnyRequests, Environments
<1>u. Types' => TypeOK'
  BY DEF TypeOK, Collections, AnyCombinations, AnyRequests, Environments
<1>1. CASE StartCycle
  BY <1>1, <1>t, <1>u DEF StartCycle
<1>2. CASE SkipOperation
  <2>1. pos \in Ops /\ pos' \in 1..(N + 1)
    BY <1>2, <1>t DEF SkipOperation, Ops
  <2>2. fetched' \in SUBSET Ops
    BY <1>2, <1>t, <2>1 DEF SkipOperation, SkipFetched, SkipCompleted, SkipNotReady
  <2> QED
    BY <1>2, <1>t, <1>u, <2>1, <2>2 DEF SkipOperation
<1>3. CASE BeginOperation
  <2>1. pos \in Ops
    BY <1>3, <1>t DEF BeginOperation, Ops
  <2>2. todo' \in SUBSET AnyCombinations
    BY <1>3, <2>1, CombosType DEF BeginOperation, AnyCombinations
  <2>3. plan' \in Plans
    BY <1>3, <1>t, <2>1 DEF BeginOperation, Plans
  <2> QED
    BY <1>3, <1>t, <1>u, <2>2, <2>3 DEF BeginOperation
<1>c. ASSUME NEW c \in todo, pc = "combo" PROVE pos \in Ops /\ c \in Combinations(pos)
  BY <1>c DEF FlowInv
<1>r. ASSUME NEW c \in todo, Request(c)
      PROVE  /\ asked' \in SUBSET AnyRequests /\ todo' \in SUBSET AnyCombinations
             /\ requests' \in Nat
             /\ pos \in Ops /\ c \in Combinations(pos)
  <2>1. pos \in Ops /\ c \in Combinations(pos)
    BY <1>r, <1>c DEF Request
  <2>2. <<pos, c>> \in AnyRequests
    BY <2>1 DEF AnyRequests
  <2> QED
    BY <1>r, <1>t, <2>1, <2>2 DEF Request
<1>4. ASSUME NEW c \in todo, SkipCombination(c) PROVE TypeOK'
  BY <1>4, <1>t, <1>u DEF SkipCombination
<1>5. ASSUME NEW c \in todo, FetchSucceeds(c) PROVE TypeOK'
  <2>1. Request(c)
    BY <1>5 DEF FetchSucceeds
  <2>2. plan' \in Plans
    BY <1>5, <1>r, <2>1, AddRowsType DEF FetchSucceeds
  <2>3. work' \in Values
    BY <1>5, <1>r, <1>t, <2>1, AnswerType, PublishType DEF FetchSucceeds
  <2> QED
    BY <1>5, <1>r, <1>t, <1>u, <2>1, <2>2, <2>3 DEF FetchSucceeds
<1>6. ASSUME NEW c \in todo, FetchFails(c) PROVE TypeOK'
  <2>1. Request(c)
    BY <1>6 DEF FetchFails
  <2>2. Answer(pos, c) \in SUBSET Keys
    BY <1>r, <2>1, AnswerType
  <2>3. PICK seen \in SUBSET Keys : work' = Publish(pos, seen, work)
    BY <1>6, <2>2 DEF FetchFails
  <2>4. work' \in Values
    BY <1>t, <2>3, PublishType
  <2>5. env' \in Environments
    BY <1>6, <1>t, EnvType DEF FetchFails
  <2> QED
    BY <1>6, <1>r, <1>t, <1>u, <2>1, <2>4, <2>5 DEF FetchFails
<1>7. CASE FinishOperation
  <2>1. pos \in Ops
    BY <1>7 DEF FinishOperation, FlowInv
  <2>2. pos' \in 1..(N + 1) /\ fetched' \in SUBSET Ops
    BY <1>7, <1>t, <2>1 DEF FinishOperation, Ops
  <2>3. shouldContinue' \in BOOLEAN
    BY <1>7 DEF FinishOperation
  <2>4. /\ pc' = "pass"
        /\ UNCHANGED <<served, service, checkpoints, todo, work, plan, asked, requests,
                       stable, env>>
    BY <1>7 DEF FinishOperation
  <2> QED
    BY <1>t, <1>u, <2>2, <2>3, <2>4
<1>8. CASE NextPass
  <2>1. shouldContinue' \in BOOLEAN
    BY <1>8 DEF NextPass
  <2>2. pos' \in 1..(N + 1)
    BY <1>8 DEF NextPass
  <2>3. UNCHANGED <<served, service, checkpoints, pc, todo, work, fetched, plan, asked,
                    requests, stable, env>>
    BY <1>8 DEF NextPass
  <2> QED
    BY <1>t, <1>u, <2>1, <2>2, <2>3
<1>9. CASE FinishPlan
  <2>1. plan' \in Plans
    BY <1>9, <1>t, OpFacts DEF FinishPlan, Plans
  <2> QED
    BY <1>9, <1>t, <1>u, <2>1 DEF FinishPlan
<1>10. CASE PlanError
  <2>1. env' \in Environments
    BY <1>10, <1>t, EnvType DEF PlanError
  <2> QED
    BY <1>10, <1>t, <1>u, <2>1, EndCycleTypes DEF PlanError
<1>11. CASE SaveCheckpoints
  <2>1. ASSUME NEW key \in CheckpointKeys
        PROVE  (IF \E p \in plan.pending : p.key = key
                THEN (CHOOSE p \in plan.pending : p.key = key).covers
                ELSE checkpoints[key]) \in SUBSET Keys
    BY <1>t DEF Plans, CheckpointRecords
  <2>2. checkpoints' \in [CheckpointKeys -> SUBSET Keys]
    BY <1>11, <2>1 DEF SaveCheckpoints
  <2> QED
    BY <1>11, <1>t, <1>u, <2>2 DEF SaveCheckpoints
<1>12. CASE CommitCycle
  <2>1. responseValues' \in Values
    BY <1>12, <1>t DEF CommitCycle
  <2>2. completed' \in SUBSET OneShots
    BY <1>12, <1>t DEF CommitCycle, FlowInv
  <2> QED
    BY <1>12, <1>t, <1>u, <2>1, <2>2, EndCycleTypes DEF CommitCycle
<1>13. CASE DropPlan
  <2>1. env' \in Environments
    BY <1>13, <1>t, EnvType DEF DropPlan
  <2> QED
    BY <1>13, <1>t, <1>u, <2>1, EndCycleTypes DEF DropPlan
<1>14. CASE Restart
  <2>1. env' \in Environments
    BY <1>14, <1>t, EnvType DEF Restart
  <2> QED
    BY <1>14, <1>t, <1>u, <2>1, EndCycleTypes, EmptyTypes DEF Restart
<1>15. ASSUME NEW op \in Ops, NEW k \in Keys, RowAppears(op, k) PROVE TypeOK'
  <2>1. env' \in Environments /\ served' \in Collections
    BY <1>15, <1>t, EnvType DEF RowAppears, Collections
  <2> QED
    BY <1>15, <1>t, <1>u, <2>1 DEF RowAppears
<1>16. ASSUME NEW op \in Ops, NEW k \in Keys, RowDisappears(op, k) PROVE TypeOK'
  <2>1. env' \in Environments /\ served' \in Collections /\ stable' \in Collections
    BY <1>16, <1>t, EnvType DEF RowDisappears, Collections
  <2> QED
    BY <1>16, <1>t, <1>u, <2>1 DEF RowDisappears
<1>17. CASE UNCHANGED vars
  BY <1>17, <1>t, <1>u DEF vars
<1> QED
  BY <1>1, <1>2, <1>3, <1>4, <1>5, <1>6, <1>7, <1>8, <1>9, <1>10, <1>11, <1>12, <1>13, <1>14,
     <1>15, <1>16, <1>17 DEF Next, GenerateCyclePlan, FetchCombination, Api

LEMMA FlowInit == Init => FlowInv
  BY DEF Init, FlowInv, NoPlan

LEMMA FlowStep == TypeOK /\ FlowInv /\ [Next]_vars => FlowInv'
<1> SUFFICES ASSUME TypeOK, FlowInv, [Next]_vars PROVE FlowInv'
  OBVIOUS
<1> USE DEF service, cycleVars, FlowInv
<1>1. CASE StartCycle
  BY <1>1 DEF StartCycle
<1>2. CASE SkipOperation
  BY <1>2 DEF SkipOperation
<1>3. CASE BeginOperation
  <2>1. pos \in Ops
    BY <1>3 DEF BeginOperation, TypeOK, Ops
  <2>2. plan'.oneShots = plan.oneShots
    BY <1>3 DEF BeginOperation, TypeOK, Plans
  <2> QED
    BY <1>3, <2>1, <2>2, CombosType DEF BeginOperation
<1>4. ASSUME NEW c \in todo, SkipCombination(c) PROVE FlowInv'
  BY <1>4 DEF SkipCombination
<1>5. ASSUME NEW c \in todo, FetchSucceeds(c) PROVE FlowInv'
  <2>1. pos \in Ops /\ plan \in Plans
    BY <1>5 DEF FetchSucceeds, Request, TypeOK
  <2>2. plan'.oneShots = plan.oneShots
    BY <1>5, <2>1, AddRowsFields DEF FetchSucceeds
  <2> QED
    BY <1>5, <2>2 DEF FetchSucceeds, Request
<1>6. ASSUME NEW c \in todo, FetchFails(c) PROVE FlowInv'
  BY <1>6 DEF FetchFails, Request
<1>7. CASE FinishOperation
  BY <1>7 DEF FinishOperation
<1>8. CASE NextPass
  BY <1>8 DEF NextPass
<1>9. CASE FinishPlan
  <2>1. plan'.oneShots \subseteq OneShots
    BY <1>9 DEF FinishPlan, TypeOK, Plans
  <2> QED
    BY <1>9, <2>1 DEF FinishPlan
<1>10. CASE PlanError
  BY <1>10 DEF PlanError, EndCycle, NoPlan
<1>11. CASE SaveCheckpoints
  BY <1>11 DEF SaveCheckpoints
<1>12. CASE CommitCycle
  BY <1>12 DEF CommitCycle, EndCycle, NoPlan
<1>13. CASE DropPlan
  BY <1>13 DEF DropPlan, EndCycle, NoPlan
<1>14. CASE Restart
  BY <1>14 DEF Restart, EndCycle, NoPlan
<1>15. ASSUME NEW op \in Ops, NEW k \in Keys, RowAppears(op, k) PROVE FlowInv'
  BY <1>15 DEF RowAppears
<1>16. ASSUME NEW op \in Ops, NEW k \in Keys, RowDisappears(op, k) PROVE FlowInv'
  BY <1>16 DEF RowDisappears
<1>17. CASE UNCHANGED vars
  BY <1>17 DEF vars
<1> QED
  BY <1>1, <1>2, <1>3, <1>4, <1>5, <1>6, <1>7, <1>8, <1>9, <1>10, <1>11, <1>12, <1>13, <1>14,
     <1>15, <1>16, <1>17 DEF Next, GenerateCyclePlan, FetchCombination, Api

-----------------------------------------------------------------------------
(* What a cycle requests.                                                   *)

\* Each request counted is a combination of an operation that has not been
\* completed and was begun once.
RequestInv ==
    /\ IsFiniteSet(asked)
    /\ requests = Cardinality(asked)
    /\ \A r \in asked :
          /\ r[1] \notin completed
          /\ r[1] \in fetched \/ (pc = "combo" /\ r[1] = pos)
    /\ pc = "combo" => \A c \in todo : <<pos, c>> \notin asked

LEMMA RequestInit == Init => RequestInv
  BY FS_EmptySet DEF Init, RequestInv

LEMMA RequestStep == TypeOK /\ FlowInv /\ RequestInv /\ [Next]_vars => RequestInv'
<1> SUFFICES ASSUME TypeOK, FlowInv, RequestInv, [Next]_vars PROVE RequestInv'
  OBVIOUS
<1> USE DEF service, cycleVars, RequestInv
<1>1. CASE StartCycle
  BY <1>1 DEF StartCycle
<1>2. CASE SkipOperation
  BY <1>2 DEF SkipOperation, SkipFetched, SkipCompleted, SkipNotReady
<1>3. CASE BeginOperation
  BY <1>3 DEF BeginOperation
<1>4. ASSUME NEW c \in todo, SkipCombination(c) PROVE RequestInv'
  BY <1>4 DEF SkipCombination
<1>5. ASSUME NEW c \in todo, Request(c), UNCHANGED <<pc, pos, fetched, completed>>
      PROVE  RequestInv'
  <2>1. /\ pc = "combo" /\ <<pos, c>> \notin asked /\ pos \notin completed
        /\ asked' = asked \cup {<<pos, c>>} /\ requests' = requests + 1
        /\ todo' = todo \ {c}
    BY <1>5 DEF Request, FlowInv, TypeOK, Ops
  <2>2. IsFiniteSet(asked') /\ requests' = Cardinality(asked')
    BY <2>1, FS_AddElement
  <2> QED
    BY <1>5, <2>1, <2>2
<1>6. ASSUME NEW c \in todo, FetchSucceeds(c) \/ FetchFails(c) PROVE RequestInv'
  BY <1>5, <1>6 DEF FetchSucceeds, FetchFails
<1>7. CASE FinishOperation
  BY <1>7 DEF FinishOperation
<1>8. CASE NextPass
  BY <1>8 DEF NextPass
<1>9. CASE FinishPlan
  BY <1>9 DEF FinishPlan
<1>e. ASSUME NEW next, EndCycle(next) PROVE RequestInv'
  BY <1>e, FS_EmptySet DEF EndCycle
<1>10. CASE PlanError \/ CommitCycle \/ DropPlan \/ Restart
  BY <1>10, <1>e DEF PlanError, CommitCycle, DropPlan, Restart
<1>11. CASE SaveCheckpoints
  BY <1>11 DEF SaveCheckpoints
<1>12. CASE Api
  BY <1>12 DEF Api, RowAppears, RowDisappears
<1>13. CASE UNCHANGED vars
  BY <1>13 DEF vars
<1> QED
  BY <1>1, <1>2, <1>3, <1>4, <1>6, <1>7, <1>8, <1>9, <1>10, <1>11, <1>12, <1>13
     DEF Next, GenerateCyclePlan, FetchCombination

-----------------------------------------------------------------------------
(* Which operations are left when the passes end.                           *)

\* The passes have nothing left to do for the operation.
Closed(op) == op \in fetched \/ ~Ready(op, work)

\* A pass that has fetched nothing so far leaves closed operations behind,
\* and the last pass is one of them.
PassInv ==
    /\ pc = "pass" /\ ~shouldContinue => \A op \in Ops : op < pos => Closed(op)
    /\ Planned => \A op \in Ops : Closed(op)

LEMMA PassInit == Init => PassInv
  BY DEF Init, PassInv, Planned, Ops

LEMMA PassStep == TypeOK /\ FlowInv /\ PassInv /\ [Next]_vars => PassInv'
<1> SUFFICES ASSUME TypeOK, FlowInv, PassInv, [Next]_vars PROVE PassInv'
  OBVIOUS
<1> USE DEF service, cycleVars, PassInv, Planned, Closed
<1>1. CASE StartCycle
  <2>1. pos' = 1 /\ pc' = "pass"
    BY <1>1 DEF StartCycle, FlowInv
  <2> QED
    BY <1>1, <2>1 DEF StartCycle, Ops
<1>2. CASE SkipOperation
  <2>1. pc = "pass" /\ pc' = "pass" /\ pos \in Ops /\ pos' = pos + 1 /\ fetched \subseteq fetched'
        /\ UNCHANGED <<work, shouldContinue>>
    BY <1>2 DEF SkipOperation, SkipFetched, SkipCompleted, SkipNotReady, TypeOK, Ops
  <2>2. pos \in fetched' \/ ~Ready(pos, work)
    BY <1>2 DEF SkipOperation, SkipFetched, SkipCompleted, SkipNotReady
  <2>3. \A op \in Ops : op < pos' => op < pos \/ op = pos
    BY <2>1 DEF Ops
  <2>4. \A op \in Ops : Ready(op, work)' = Ready(op, work)
    BY <2>1 DEF Ready, EffectiveValues
  <2> QED
    BY <2>1, <2>2, <2>3, <2>4
<1>3. CASE BeginOperation
  BY <1>3 DEF BeginOperation
<1>4. ASSUME NEW c \in todo, SkipCombination(c) \/ FetchSucceeds(c) \/ FetchFails(c)
      PROVE  PassInv'
  BY <1>4 DEF SkipCombination, FetchSucceeds, FetchFails, Request
<1>5. CASE FinishOperation
  BY <1>5 DEF FinishOperation
<1>6. CASE NextPass
  BY <1>6 DEF NextPass, Ops
<1>7. CASE FinishPlan
  <2>1. \A op \in Ops : op < pos
    BY <1>7 DEF FinishPlan, Ops
  <2>2. \A op \in Ops : Ready(op, work)' = Ready(op, work)
    BY <1>7 DEF FinishPlan, Ready, EffectiveValues
  <2> QED
    BY <1>7, <2>1, <2>2 DEF FinishPlan
<1>e. ASSUME NEW next \in {"idle", "dead"}, EndCycle(next) PROVE PassInv'
  BY <1>e DEF EndCycle
<1>8. CASE PlanError \/ CommitCycle \/ DropPlan \/ Restart
  BY <1>8, <1>e DEF PlanError, CommitCycle, DropPlan, Restart
<1>9. ASSUME UNCHANGED <<pos, work, fetched, shouldContinue>>, Planned' => Planned,
             pc' = "pass" => pc = "pass"
      PROVE  PassInv'
  <2>1. \A op \in Ops : Ready(op, work)' = Ready(op, work)
    BY <1>9 DEF Ready, EffectiveValues
  <2> QED
    BY <1>9, <2>1
<1>10. CASE SaveCheckpoints
  BY <1>9, <1>10 DEF SaveCheckpoints
<1>11. CASE Api
  BY <1>9, <1>11 DEF Api, RowAppears, RowDisappears
<1>12. CASE UNCHANGED vars
  BY <1>9, <1>12 DEF vars
<1> QED
  BY <1>1, <1>2, <1>3, <1>4, <1>5, <1>6, <1>7, <1>8, <1>10, <1>11, <1>12
     DEF Next, GenerateCyclePlan, FetchCombination

-----------------------------------------------------------------------------
(* The values that earlier cycles published.                                *)

LEMMA MoreValues ==
    ASSUME NEW op \in Ops, NEW values \in Values, NEW more \in Values,
           \A id \in Ids : values[id] \subseteq more[id]
    PROVE  /\ Ready(op, values) => Ready(op, more)
           /\ Combos(op, values) \subseteq Combos(op, more)
<1>1. \A id \in Params[op] : EffectiveValues(op, id, values) \subseteq EffectiveValues(op, id, more)
  BY OpFacts DEF EffectiveValues
<1>2. Ready(op, values) => Ready(op, more)
  BY <1>1 DEF Ready
<1>3. Combos(op, values) \subseteq Combos(op, more)
  BY <1>1 DEF Combos
<1> QED
  BY <1>2, <1>3

\* The operations that request what they are given.
Requested == Ops \ (WithoutAuth \cup (OneShots \cap completed))

\* The working values hold the committed ones, and what an operation has
\* requested or has still to request covers their combinations.
KnownInv ==
    /\ pc \in Busy => \A id \in Ids : responseValues[id] \subseteq work[id]
    /\ \A op \in fetched \cap Requested :
          \A c \in Combos(op, responseValues) : <<op, c>> \in asked
    /\ pc = "combo" /\ pos \in Requested =>
          \A c \in Combos(pos, responseValues) : c \in todo \/ <<pos, c>> \in asked

LEMMA KnownInit == Init => KnownInv
  BY DEF Init, KnownInv, Busy

LEMMA KnownStep == TypeOK /\ FlowInv /\ KnownInv /\ [Next]_vars => KnownInv'
<1> SUFFICES ASSUME TypeOK, FlowInv, KnownInv, [Next]_vars PROVE KnownInv'
  OBVIOUS
<1> USE DEF service, cycleVars, KnownInv, Busy
<1>s. ASSUME UNCHANGED service
      PROVE  /\ Requested' = Requested
             /\ \A op \in Ops : Combos(op, responseValues)' = Combos(op, responseValues)
  BY <1>s DEF Requested, Combos, EffectiveValues
<1>r. Requested \subseteq Ops
  BY DEF Requested
<1>1. CASE StartCycle
  BY <1>1, <1>s DEF StartCycle, FlowInv
<1>2. CASE SkipOperation
  <2>1. /\ fetched' \cap Requested \subseteq fetched
        /\ pc = "pass" /\ UNCHANGED <<service, pc, work, asked>>
    BY <1>2 DEF SkipOperation, SkipFetched, SkipCompleted, SkipNotReady, Requested
  <2> QED
    BY <1>s, <1>r, <2>1
<1>3. CASE BeginOperation
  <2>1. /\ pc = "pass" /\ pc' = "combo" /\ todo' = Combos(pos, work) /\ pos \in Ops
        /\ UNCHANGED <<service, pos, work, fetched, asked>>
    BY <1>3 DEF BeginOperation, TypeOK, Ops
  <2>2. Combos(pos, responseValues) \subseteq Combos(pos, work)
    BY <2>1, MoreValues DEF TypeOK
  <2> QED
    BY <1>s, <1>r, <2>1, <2>2
<1>4. ASSUME NEW c \in todo, SkipCombination(c) PROVE KnownInv'
  <2>1. pos \notin Requested
    BY <1>4 DEF SkipCombination, Requested
  <2> QED
    BY <1>4, <1>s, <1>r, <2>1 DEF SkipCombination
<1>5. ASSUME NEW c \in todo, Request(c), UNCHANGED <<pc, pos, fetched, service>>,
             \A id \in Ids : work[id] \subseteq work'[id]
      PROVE  KnownInv'
  <2>1. pos \in Ops
    BY <1>5 DEF Request, FlowInv
  <2> QED
    BY <1>5, <1>s, <1>r, <2>1 DEF Request
<1>a. ASSUME NEW c \in todo, Request(c) PROVE Answer(pos, c) \in SUBSET Keys
  BY <1>a, AnswerType DEF Request, FlowInv
<1>6. ASSUME NEW c \in todo, FetchSucceeds(c) PROVE KnownInv'
  <2>1. Request(c) /\ work' = Publish(pos, Answer(pos, c), work)
        /\ UNCHANGED <<pc, pos, fetched, service>>
    BY <1>6 DEF FetchSucceeds
  <2>2. \A id \in Ids : work[id] \subseteq work'[id]
    BY <1>a, <2>1, PublishType DEF TypeOK
  <2> QED
    BY <1>5, <2>1, <2>2
<1>7. ASSUME NEW c \in todo, FetchFails(c) PROVE KnownInv'
  <2>1. Request(c) /\ UNCHANGED <<pc, pos, fetched, service>>
    BY <1>7 DEF FetchFails
  <2>2. PICK seen \in SUBSET Keys : work' = Publish(pos, seen, work)
    BY <1>7, <1>a, <2>1 DEF FetchFails
  <2>3. \A id \in Ids : work[id] \subseteq work'[id]
    BY <2>2, PublishType DEF TypeOK
  <2> QED
    BY <1>5, <2>1, <2>3
<1>8. CASE FinishOperation
  <2>1. /\ pc = "combo" /\ todo = {} /\ pc' = "pass" /\ fetched' = fetched \cup {pos}
        /\ UNCHANGED <<service, work, asked>> /\ pos \in Ops
    BY <1>8 DEF FinishOperation, FlowInv
  <2> QED
    BY <1>s, <1>r, <2>1
<1>e. ASSUME NEW next \in {"idle", "dead"}, EndCycle(next) PROVE KnownInv'
  BY <1>e DEF EndCycle
<1>9. CASE PlanError \/ CommitCycle \/ DropPlan \/ Restart
  BY <1>9, <1>e DEF PlanError, CommitCycle, DropPlan, Restart
<1>10. ASSUME UNCHANGED <<service, work, fetched, asked>>, pc' # "combo",
              pc' \in Busy => pc \in Busy
       PROVE  KnownInv'
  BY <1>10, <1>s, <1>r
<1>11. CASE NextPass
  BY <1>10, <1>11 DEF NextPass
<1>12. CASE FinishPlan
  BY <1>10, <1>12 DEF FinishPlan
<1>13. CASE SaveCheckpoints
  BY <1>10, <1>13 DEF SaveCheckpoints
<1>14. ASSUME UNCHANGED <<service, pc, pos, todo, work, fetched, asked>> PROVE KnownInv'
  BY <1>14, <1>s, <1>r
<1>15. CASE Api
  BY <1>14, <1>15 DEF Api, RowAppears, RowDisappears
<1>16. CASE UNCHANGED vars
  BY <1>14, <1>16 DEF vars
<1> QED
  BY <1>1, <1>2, <1>3, <1>4, <1>6, <1>7, <1>8, <1>9, <1>11, <1>12, <1>13, <1>15, <1>16
     DEF Next, GenerateCyclePlan, FetchCombination

-----------------------------------------------------------------------------
(* What pending checkpoints cover.                                          *)

\* A pending checkpoint covers nothing that is neither planned nor covered
\* already, and until it is saved it covers all that its predecessor does.
BackedInv ==
    \A p \in plan.pending :
        /\ \A k \in p.covers : k \in checkpoints[p.key] \/ <<p.key[1], k>> \in plan.upsert
        /\ pc # "saved" => checkpoints[p.key] \subseteq p.covers

LEMMA BackedInit == Init => BackedInv
  BY DEF Init, BackedInv, NoPlan

LEMMA BackedStep == TypeOK /\ FlowInv /\ BackedInv /\ [Next]_vars => BackedInv'
<1> SUFFICES ASSUME TypeOK, FlowInv, BackedInv, [Next]_vars PROVE BackedInv'
  OBVIOUS
<1> USE DEF service, cycleVars, BackedInv
<1>s. ASSUME plan'.pending = plan.pending, plan'.upsert = plan.upsert, UNCHANGED checkpoints,
             pc # "saved"
      PROVE  BackedInv'
  BY <1>s
<1>1. CASE StartCycle \/ SkipOperation \/ FinishOperation \/ NextPass
  BY <1>1, <1>s DEF StartCycle, SkipOperation, FinishOperation, NextPass
<1>2. CASE BeginOperation
  <2>1. plan'.pending = plan.pending /\ plan'.upsert = plan.upsert
    BY <1>2 DEF BeginOperation, TypeOK, Plans
  <2> QED
    BY <1>2, <1>s, <2>1 DEF BeginOperation
<1>3. ASSUME NEW c \in todo, SkipCombination(c) \/ FetchFails(c) PROVE BackedInv'
  BY <1>3, <1>s DEF SkipCombination, FetchFails, Request
<1>4. ASSUME NEW c \in todo, FetchSucceeds(c) PROVE BackedInv'
  <2>1. /\ pos \in Ops /\ plan \in Plans /\ pc = "combo" /\ pc' = "combo"
        /\ plan' = AddRows(plan, c) /\ checkpoints' = checkpoints
    BY <1>4 DEF FetchSucceeds, Request, FlowInv, TypeOK
  <2>f. /\ plan'.upsert = IF pos \in FullReloads THEN plan.upsert ELSE plan.upsert \cup RowsOf(c)
        /\ plan'.pending = IF pos \in Incrementals THEN plan.pending \cup {CheckpointOf(c)}
                          ELSE plan.pending
    BY <2>1, AddRowsFields
  <2>2. plan.upsert \subseteq plan'.upsert
    BY <2>f
  <2>3. ASSUME NEW p \in plan'.pending, p \notin plan.pending
        PROVE  /\ \A k \in p.covers : k \in checkpoints[p.key] \/ <<p.key[1], k>> \in plan'.upsert
               /\ checkpoints[p.key] \subseteq p.covers
    <3>1. pos \in Incrementals /\ p = CheckpointOf(c)
      BY <2>3, <2>f
    <3>2. p.key = <<pos, c>> /\ p.covers = checkpoints[p.key] \cup Answer(pos, c)
      BY <3>1 DEF CheckpointOf
    <3>3. RowsOf(c) \subseteq plan'.upsert
      BY <3>1, <2>f, OpFacts
    <3> QED
      BY <3>2, <3>3 DEF RowsOf
  <2> QED
    BY <2>1, <2>2, <2>3
<1>5. CASE FinishPlan
  <2>1. plan'.pending = plan.pending /\ plan'.upsert = plan.upsert
    BY <1>5 DEF FinishPlan, TypeOK, Plans
  <2> QED
    BY <1>5, <1>s, <2>1 DEF FinishPlan
<1>e. ASSUME NEW next, EndCycle(next) PROVE BackedInv'
  BY <1>e DEF EndCycle, NoPlan
<1>6. CASE PlanError \/ CommitCycle \/ DropPlan \/ Restart
  BY <1>6, <1>e DEF PlanError, CommitCycle, DropPlan, Restart
<1>7. CASE SaveCheckpoints
  <2>1. ASSUME NEW p \in plan.pending
        PROVE  checkpoints[p.key] \subseteq checkpoints'[p.key]
    <3>1. p.key \in CheckpointKeys
      BY DEF TypeOK, Plans, CheckpointRecords
    <3>2. PICK q \in plan.pending : q.key = p.key /\ checkpoints'[p.key] = q.covers
      BY <1>7, <3>1 DEF SaveCheckpoints
    <3> QED
      BY <1>7, <3>2 DEF SaveCheckpoints
  <2> QED
    BY <1>7, <2>1 DEF SaveCheckpoints
<1>8. CASE Api
  BY <1>8 DEF Api, RowAppears, RowDisappears
<1>9. CASE UNCHANGED vars
  BY <1>9 DEF vars
<1> QED
  BY <1>1, <1>2, <1>3, <1>4, <1>5, <1>6, <1>7, <1>8, <1>9
     DEF Next, GenerateCyclePlan, FetchCombination

-----------------------------------------------------------------------------
(* What follows when producers sort before their consumers.                 *)

\* The path of an operation that publishes a value sorts before the path of
\* every operation with a parameter that takes it.
ProducersFirst ==
    \A producer, consumer \in Ops :
        Publishes[producer] \cap Params[consumer] # {} => producer < consumer

\* What an operation publishes does not reach those it does not sort before.
LEMMA NotFedLater ==
    ASSUME ProducersFirst, NEW op \in Ops, NEW producer \in Ops, op <= producer,
           NEW rows, NEW values
    PROVE  /\ Ready(op, Publish(producer, rows, values)) <=> Ready(op, values)
           /\ Combos(op, Publish(producer, rows, values)) = Combos(op, values)
<1>1. Publishes[producer] \cap Params[op] = {}
  BY DEF ProducersFirst, Ops
<1>2. \A id \in Params[op] : Publish(producer, rows, values)[id] = values[id]
  BY <1>1, OpFacts DEF Publish
<1> QED
  BY <1>2 DEF Ready, Combos, EffectiveValues

\* Each operation is fetched only when all those before it are closed, and
\* stays so: what it requested are its combinations until the cycle ends.
OrderInv ==
    /\ \A op \in fetched : \A before \in Ops : before < op => Closed(before)
    /\ pc \in {"pass", "combo"} => \A before \in Ops : before < pos => Closed(before)
    /\ pc = "combo" => \A op \in fetched : op < pos
    /\ \A op \in fetched \cap Requested : \A c \in Combos(op, work) : <<op, c>> \in asked
    /\ pc = "combo" /\ pos \in Requested =>
          \A c \in Combos(pos, work) : c \in todo \/ <<pos, c>> \in asked

LEMMA OrderInit == Init => OrderInv
  BY DEF Init, OrderInv

LEMMA OrderStep ==
    ProducersFirst /\ TypeOK /\ FlowInv /\ OrderInv /\ [Next]_vars => OrderInv'
<1> SUFFICES ASSUME ProducersFirst, TypeOK, FlowInv, OrderInv, [Next]_vars PROVE OrderInv'
  OBVIOUS
<1> USE DEF service, cycleVars
<1>w. ASSUME UNCHANGED work
      PROVE  \A op : Ready(op, work)' = Ready(op, work) /\ Combos(op, work)' = Combos(op, work)
  BY <1>w DEF Ready, Combos, EffectiveValues
<1>s. ASSUME UNCHANGED service PROVE Requested' = Requested
  BY <1>s DEF Requested
<1>1. CASE StartCycle
  BY <1>1 DEF StartCycle, FlowInv, OrderInv, Ops
<1>2. CASE SkipOperation
  <2>1. /\ pc = "pass" /\ pc' = "pass" /\ pos \in Ops /\ pos' = pos + 1
        /\ fetched' \in {fetched, fetched \cup {pos}}
        /\ fetched' \cap Requested \subseteq fetched
        /\ UNCHANGED <<service, work, asked>>
    BY <1>2 DEF SkipOperation, SkipFetched, SkipCompleted, SkipNotReady, TypeOK, Ops, Requested
  <2>2. pos \in fetched' \/ ~Ready(pos, work)
    BY <1>2 DEF SkipOperation, SkipFetched, SkipCompleted, SkipNotReady
  <2>3. \A before \in Ops : before < pos' => before < pos \/ before = pos
    BY <2>1 DEF Ops
  <2> QED
    BY <1>w, <1>s, <2>1, <2>2, <2>3 DEF OrderInv, Closed
<1>3. CASE BeginOperation
  <2>1. /\ pc = "pass" /\ pc' = "combo" /\ pos \in Ops /\ todo' = Combos(pos, work)
        /\ pos \notin fetched /\ Ready(pos, work)
        /\ UNCHANGED <<service, pos, work, fetched, asked>>
    BY <1>3 DEF BeginOperation, TypeOK, Ops
  <2>2. \A op \in fetched : op < pos
    BY <2>1 DEF OrderInv, Closed, TypeOK, Ops
  <2> QED
    BY <1>w, <1>s, <2>1, <2>2 DEF OrderInv, Closed
<1>4. ASSUME NEW c \in todo, SkipCombination(c) PROVE OrderInv'
  <2>1. /\ pos \notin Requested /\ pc = "combo" /\ pc' = pc
        /\ UNCHANGED <<service, pos, work, fetched, asked>>
    BY <1>4 DEF SkipCombination, Requested
  <2> QED
    BY <1>w, <1>s, <2>1 DEF OrderInv, Closed
<1>5. ASSUME NEW c \in todo, Request(c), UNCHANGED <<pc, pos, fetched, service>>,
             NEW rows, work' = Publish(pos, rows, work)
      PROVE  OrderInv'
  <2>1. /\ pos \in Ops /\ pc = "combo" /\ todo' = todo \ {c}
        /\ asked' = asked \cup {<<pos, c>>}
    BY <1>5 DEF Request, FlowInv
  <2>2. \A op \in Ops : op <= pos =>
           Ready(op, work)' = Ready(op, work) /\ Combos(op, work)' = Combos(op, work)
    BY <1>5, <2>1, NotFedLater DEF Ready, Combos, EffectiveValues
  <2>3. \A op \in fetched : op \in Ops /\ op <= pos
    BY <2>1 DEF OrderInv, TypeOK, Ops
  <2>4. \A op \in Ops : op < pos => Closed(op)'
    BY <1>5, <2>1, <2>2 DEF OrderInv, Closed, Ops
  <2>5. \A op \in fetched, before \in Ops : before < op => before < pos
    BY <2>1, <2>3 DEF OrderInv, Ops
  <2>6. \A op \in fetched \cap Requested : \A d \in Combos(op, work)' : <<op, d>> \in asked'
    BY <2>1, <2>2, <2>3 DEF OrderInv
  <2>7. pos \in Requested =>
           \A d \in Combos(pos, work)' : d \in todo' \/ <<pos, d>> \in asked'
    <3>1. Combos(pos, work)' = Combos(pos, work)
      BY <1>5, <2>1, <2>2 DEF Ops
    <3> QED
      BY <2>1, <3>1 DEF OrderInv
  <2> QED
    BY <1>5, <1>s, <2>1, <2>4, <2>5, <2>6, <2>7 DEF OrderInv
<1>6. ASSUME NEW c \in todo, FetchSucceeds(c) PROVE OrderInv'
  BY <1>5, <1>6 DEF FetchSucceeds
<1>7. ASSUME NEW c \in todo, FetchFails(c) PROVE OrderInv'
  <2>1. PICK seen : work' = Publish(pos, seen, work)
    BY <1>7 DEF FetchFails
  <2> QED
    BY <1>5, <1>7, <2>1 DEF FetchFails
<1>8. CASE FinishOperation
  <2>1. /\ pc = "combo" /\ pc' = "pass" /\ todo = {} /\ pos \in Ops /\ pos' = pos + 1
        /\ fetched' = fetched \cup {pos}
        /\ UNCHANGED <<service, work, asked>>
    BY <1>8 DEF FinishOperation, FlowInv
  <2>2. \A before \in Ops : before < pos' => before < pos \/ before = pos
    BY <2>1 DEF Ops
  <2> QED
    BY <1>w, <1>s, <2>1, <2>2 DEF OrderInv, Closed
<1>9. CASE NextPass
  <2>1. /\ pc = "pass" /\ pc' = "pass" /\ pos' = 1
        /\ UNCHANGED <<service, work, fetched, asked>>
    BY <1>9 DEF NextPass
  <2> QED
    BY <1>w, <1>s, <2>1 DEF OrderInv, Closed, Ops
<1>10. ASSUME UNCHANGED <<service, work, fetched, asked>>, pc' \notin {"pass", "combo"}
       PROVE  OrderInv'
  BY <1>w, <1>s, <1>10 DEF OrderInv, Closed
<1>11. CASE FinishPlan \/ SaveCheckpoints
  BY <1>10, <1>11 DEF FinishPlan, SaveCheckpoints
<1>e. ASSUME NEW next \in {"idle", "dead"}, EndCycle(next) PROVE OrderInv'
  BY <1>e DEF EndCycle, OrderInv
<1>12. CASE PlanError \/ CommitCycle \/ DropPlan \/ Restart
  BY <1>12, <1>e DEF PlanError, CommitCycle, DropPlan, Restart
<1>13. ASSUME UNCHANGED <<service, pc, pos, todo, work, fetched, asked>> PROVE OrderInv'
  BY <1>w, <1>s, <1>13 DEF OrderInv, Closed
<1>14. CASE Api
  BY <1>13, <1>14 DEF Api, RowAppears, RowDisappears
<1>15. CASE UNCHANGED vars
  BY <1>13, <1>15 DEF vars
<1> QED
  BY <1>1, <1>2, <1>3, <1>4, <1>6, <1>7, <1>8, <1>9, <1>11, <1>12, <1>14, <1>15
     DEF Next, GenerateCyclePlan, FetchCombination

\* Full-reload operations whose requests are all sent and all answered.
ReloadsAreReliable == FullReloads \cap (Unreliable \cup WithoutAuth) = {}

\* Every row that the API has served since the cycle began is planned once
\* its combination has been requested.
SnapshotInv ==
    /\ \A op \in Ops : stable[op] \subseteq served[op]
    /\ \A op \in plan.creates : op \in fetched \/ (pc = "combo" /\ op = pos)
    /\ \A r \in asked : r[1] \in FullReloads =>
          \A k \in stable[r[1]] :
             (\A id \in Params[r[1]] : r[2][id] = k) => <<r[1], k>> \in plan.full

LEMMA SnapshotInit == Init => SnapshotInv
  BY DEF Init, SnapshotInv, NoPlan

LEMMA SnapshotStep ==
    ReloadsAreReliable /\ TypeOK /\ FlowInv /\ SnapshotInv /\ [Next]_vars => SnapshotInv'
<1> SUFFICES ASSUME ReloadsAreReliable, TypeOK, FlowInv, SnapshotInv, [Next]_vars
             PROVE  SnapshotInv'
  OBVIOUS
<1> USE DEF service, cycleVars, SnapshotInv
<1>1. CASE StartCycle
  BY <1>1 DEF StartCycle, FlowInv, NoPlan
<1>s. ASSUME UNCHANGED <<served, stable, asked>>, plan'.creates = plan.creates,
             plan'.full = plan.full, pc # "combo", fetched \subseteq fetched'
      PROVE  SnapshotInv'
  BY <1>s
<1>2. CASE SkipOperation \/ NextPass \/ SaveCheckpoints
  BY <1>2, <1>s DEF SkipOperation, SkipFetched, SkipCompleted, SkipNotReady, NextPass,
                    SaveCheckpoints
<1>3. CASE FinishPlan
  <2>1. plan'.creates = plan.creates /\ plan'.full = plan.full
    BY <1>3 DEF FinishPlan, TypeOK, Plans
  <2> QED
    BY <1>3, <1>s, <2>1 DEF FinishPlan
<1>4. CASE BeginOperation
  <2>1. plan'.creates = plan.creates \cup {pos} /\ plan'.full = plan.full
    BY <1>4 DEF BeginOperation, TypeOK, Plans
  <2> QED
    BY <1>4, <2>1 DEF BeginOperation
<1>5. ASSUME NEW c \in todo, SkipCombination(c) PROVE SnapshotInv'
  BY <1>5 DEF SkipCombination
<1>6. ASSUME NEW c \in todo, FetchSucceeds(c) PROVE SnapshotInv'
  <2>1. /\ pos \in Ops /\ plan \in Plans /\ plan' = AddRows(plan, c)
        /\ asked' = asked \cup {<<pos, c>>}
        /\ UNCHANGED <<served, stable, pc, pos, fetched>>
    BY <1>6 DEF FetchSucceeds, Request, FlowInv, TypeOK
  <2>2. /\ plan'.creates = plan.creates
        /\ plan'.full = IF pos \in FullReloads THEN plan.full \cup RowsOf(c) ELSE plan.full
    BY <2>1, AddRowsFields
  <2>3. ASSUME pos \in FullReloads, NEW k \in stable[pos], \A id \in Params[pos] : c[id] = k
        PROVE  <<pos, k>> \in plan'.full
    <3>1. k \in Answer(pos, c)
      BY <2>1, <2>3, OpFacts DEF Answer, Rows
    <3> QED
      BY <2>2, <2>3, <3>1 DEF RowsOf
  <2> QED
    BY <2>1, <2>2, <2>3
<1>7. ASSUME NEW c \in todo, FetchFails(c) PROVE SnapshotInv'
  <2>1. /\ pos \notin FullReloads
        /\ asked' = asked \cup {<<pos, c>>}
        /\ UNCHANGED <<served, stable, pc, pos, fetched, plan>>
    BY <1>7 DEF FetchFails, Request, ReloadsAreReliable
  <2> QED
    BY <2>1
<1>8. CASE FinishOperation
  BY <1>8 DEF FinishOperation
<1>e. ASSUME NEW next, EndCycle(next), UNCHANGED <<served, stable>> PROVE SnapshotInv'
  BY <1>e DEF EndCycle, NoPlan
<1>9. CASE PlanError \/ CommitCycle \/ DropPlan \/ Restart
  BY <1>9, <1>e DEF PlanError, CommitCycle, DropPlan, Restart
<1>10. ASSUME NEW op \in Ops, NEW k \in Keys, RowAppears(op, k) PROVE SnapshotInv'
  BY <1>10 DEF RowAppears, TypeOK
<1>11. ASSUME NEW op \in Ops, NEW k \in Keys, RowDisappears(op, k) PROVE SnapshotInv'
  <2>1. \A o \in Ops : stable'[o] \subseteq stable[o] /\ stable'[o] \subseteq served'[o]
    BY <1>11 DEF RowDisappears, TypeOK
  <2>2. \A r \in asked : r[1] \in Ops
    BY DEF TypeOK
  <2> QED
    BY <1>11, <2>1, <2>2 DEF RowDisappears
<1>12. CASE UNCHANGED vars
  BY <1>12 DEF vars
<1> QED
  BY <1>1, <1>2, <1>3, <1>4, <1>5, <1>6, <1>7, <1>8, <1>9, <1>10, <1>11, <1>12
     DEF Next, GenerateCyclePlan, FetchCombination, Api

-----------------------------------------------------------------------------
LEMMA FlowInvariant == Spec => [](TypeOK /\ FlowInv)
<1>1. Init => TypeOK /\ FlowInv
  BY TypeInit, FlowInit
<1>2. TypeOK /\ FlowInv /\ [Next]_vars => TypeOK' /\ FlowInv'
  BY TypeStep, FlowStep
<1> QED
  BY <1>1, <1>2, PTL DEF Spec

(* TypeOK: the response values, the plan and the checkpoints keep their     *)
(* types, and the position of the loop stays in the list of operations.     *)
THEOREM TypeCorrect == Spec => []TypeOK
  BY FlowInvariant, PTL

-----------------------------------------------------------------------------
(* The loop of GenerateCyclePlan.                                           *)

\* One step of the loop: only its last action touches what an earlier one
\* settled, and that action ends a pass that has fetched something.
LEMMA MovesStep ==
    TypeOK /\ FlowInv /\ Planning /\ Planning' /\ [Next]_vars => Closer \/ UNCHANGED cycleVars
<1> SUFFICES ASSUME TypeOK, FlowInv, Planning, Planning', [Next]_vars
             PROVE  Closer \/ UNCHANGED cycleVars
  OBVIOUS
<1>p. pos \in Nat /\ pos + 1 > pos
  BY DEF TypeOK
<1>1. CASE StartCycle
  BY <1>1 DEF StartCycle, Planning
<1>2. CASE SkipOperation
  <2>1. pos' > pos /\ shouldContinue' = shouldContinue
    BY <1>2, <1>p DEF SkipOperation
  <2>2. fetched' = fetched \/ (pos \notin fetched /\ fetched' = fetched \cup {pos})
    BY <1>2 DEF SkipOperation, SkipFetched, SkipCompleted, SkipNotReady
  <2> QED
    BY <2>1, <2>2 DEF Closer
<1>3. CASE BeginOperation
  BY <1>3 DEF BeginOperation, Closer
<1>4. ASSUME NEW c \in todo, todo' = todo \ {c},
             UNCHANGED <<pc, pos, shouldContinue, fetched>>
      PROVE  Closer
  BY <1>4 DEF Closer
<1>5. CASE FetchCombination
  BY <1>4, <1>5 DEF FetchCombination, SkipCombination, FetchSucceeds, FetchFails, Request
<1>6. CASE FinishOperation
  <2>1. pos \notin fetched /\ fetched' = fetched \cup {pos}
    BY <1>6 DEF FinishOperation, FlowInv
  <2> QED
    BY <2>1 DEF Closer
<1>7. CASE NextPass
  BY <1>7 DEF NextPass, Closer
<1>8. CASE FinishPlan \/ SaveCheckpoints
  BY <1>8 DEF FinishPlan, SaveCheckpoints, Planning
<1>9. CASE PlanError \/ CommitCycle \/ DropPlan \/ Restart
  BY <1>9 DEF PlanError, CommitCycle, DropPlan, Restart, EndCycle, Planning
<1>10. CASE Api
  BY <1>10 DEF Api, RowAppears, RowDisappears
<1>11. CASE UNCHANGED vars
  BY <1>11 DEF vars, cycleVars
<1> QED
  BY <1>1, <1>2, <1>3, <1>5, <1>6, <1>7, <1>8, <1>9, <1>10, <1>11 DEF Next, GenerateCyclePlan

(* GenerateCyclePlan: no set of operations that feed each other, and no     *)
(* failing request, makes the loop go round in a circle: each step fetches  *)
(* an operation for good, or ends a pass that did, or moves on in the pass. *)
THEOREM PlanningMovesOn == Spec => PlanMovesOn
<1>1. TypeOK /\ FlowInv /\ [Next]_vars =>
        [Planning /\ Planning' => Closer \/ UNCHANGED cycleVars]_vars
  BY MovesStep
<1> QED
  BY FlowInvariant, <1>1, PTL DEF Spec, PlanMovesOn

(* GenerateCyclePlan: however the operations depend on each other and       *)
(* however many passes that takes, no combination is requested twice.       *)
THEOREM NothingRequestedTwice == Spec => []RequestedOnce
<1>1. RequestInv => RequestedOnce
  BY DEF RequestInv, RequestedOnce
<1> QED
  BY FlowInvariant, RequestInit, RequestStep, <1>1, PTL DEF Spec

(* One-shot operations: none is requested after a committed cycle has       *)
(* completed it, and every other one that is ready is planned.              *)
THEOREM OneShotsRunOnce == Spec => []OneShotOnce
<1>1. RequestInv /\ PassInv => OneShotOnce
  BY DEF RequestInv, PassInv, OneShotOnce, Closed, OneShots
<1> QED
  BY FlowInvariant, RequestInit, RequestStep, PassInit, PassStep, <1>1, PTL DEF Spec

(* Response values: whatever earlier cycles published is requested by every *)
(* operation that it makes ready, in any order of their paths.              *)
THEOREM KnownValuesAreRequested == Spec => []KnownValuesRequested
<1>1. TypeOK /\ PassInv /\ KnownInv => KnownValuesRequested
  <2> SUFFICES ASSUME TypeOK, PassInv, KnownInv, Planned,
                      NEW op \in Requested, Ready(op, responseValues),
                      NEW c \in Combos(op, responseValues)
               PROVE  <<op, c>> \in asked
    BY DEF KnownValuesRequested, Requested
  <2>1. op \in Ops
    BY DEF Requested
  <2>2. Ready(op, work)
    BY <2>1, MoreValues DEF KnownInv, Busy, Planned, TypeOK
  <2> QED
    BY <2>1, <2>2 DEF PassInv, Closed, KnownInv
<1> QED
  BY FlowInvariant, PassInit, PassStep, KnownInit, KnownStep, <1>1, PTL DEF Spec

(* Checkpoints: each covers only rows that are in the plan it is saved with *)
(* or were covered before, whatever requests fail.                          *)
THEOREM CheckpointsAreBacked == Spec => []CheckpointsBackedByRows
<1>1. BackedInv => CheckpointsBackedByRows
  BY DEF BackedInv, CheckpointsBackedByRows
<1> QED
  BY FlowInvariant, BackedInit, BackedStep, <1>1, PTL DEF Spec

(* Response values: when producers sort before consumers, what a cycle      *)
(* publishes is requested in the same cycle.                                *)
THEOREM ProducersFeedDownstream ==
    ASSUME ProducersFirst
    PROVE  Spec => []FeedsDownstream
<1>1. PassInv /\ OrderInv => FeedsDownstream
  BY DEF PassInv, OrderInv, Closed, FeedsDownstream, Planned, Requested
<1>2. OrderInv /\ (TypeOK /\ FlowInv) /\ [Next]_vars => OrderInv'
  BY OrderStep
<1> QED
  BY FlowInvariant, PassInit, PassStep, OrderInit, <1>1, <1>2, PTL DEF Spec

(* Full reload: when producers sort before consumers and no request of a    *)
(* full-reload operation fails, the rows it plans are a full snapshot: no   *)
(* row that the API serves all the while is deleted.                        *)
THEOREM ReloadsAreComplete ==
    ASSUME ProducersFirst, ReloadsAreReliable
    PROVE  Spec => []SnapshotComplete
<1>1. OrderInv /\ SnapshotInv => SnapshotComplete
  <2> SUFFICES ASSUME OrderInv, SnapshotInv, Planned,
                      NEW op \in FullReloads \cap plan.creates,
                      NEW k \in stable[op], NEW c \in Combos(op, work),
                      \A id \in Params[op] : c[id] = k
               PROVE  <<op, k>> \in plan.full
    BY DEF SnapshotComplete
  <2>1. op \in fetched \cap Requested
    BY OpFacts DEF SnapshotInv, Planned, Requested, ReloadsAreReliable
  <2>2. <<op, c>> \in asked
    BY <2>1 DEF OrderInv
  <2> QED
    BY <2>2 DEF SnapshotInv
<1>2. OrderInv /\ (TypeOK /\ FlowInv) /\ [Next]_vars => OrderInv'
  BY OrderStep
<1>3. SnapshotInv /\ (TypeOK /\ FlowInv) /\ [Next]_vars => SnapshotInv'
  BY SnapshotStep
<1> QED
  BY FlowInvariant, OrderInit, SnapshotInit, <1>1, <1>2, <1>3, PTL DEF Spec
=============================================================================
