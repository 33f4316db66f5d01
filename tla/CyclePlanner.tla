---------------------------- MODULE CyclePlanner ----------------------------
(***************************************************************************)
(* The planner of one sync cycle (internal/core/service.go):               *)
(* GenerateCyclePlan and CommitCycle, between an API whose contents change *)
(* at any time and a runner that executes the plan or drops it.            *)
(*                                                                         *)
(* GenerateCyclePlan passes over the operations in the order of their      *)
(* paths, fetches each one whose parameters have values, publishes what    *)
(* the answers contain to the operations further on, and repeats until a   *)
(* pass fetches nothing.  It works on a copy of the response values of     *)
(* earlier cycles, which CommitCycle installs.                             *)
(*                                                                         *)
(* Data: a row is its key, and a key is also the value the row publishes.  *)
(* A row with parameters is found under the combination of its own key:    *)
(* row k of "/orders/{user}" belongs to user k.  One answer stands for all *)
(* the pages of a combination.                                             *)
(***************************************************************************)
EXTENDS Integers, FiniteSets

CONSTANTS
    N,           \* number of operations with x-res-type; 1..N is their order by path
    Mode,        \* operation -> its x-res-type
    Params,      \* operation -> the response ids its x-param-data parameters name
    Filter,      \* operation -> the values its parameter filters accept
    Publishes,   \* operation -> the response ids of its x-response-data properties
    WithoutAuth, \* operations whose x-auth environment variable is not set
    Paged,       \* operations with a pagination parameter
    Unreliable,  \* operations whose requests may fail
    Ids,         \* response ids
    Keys,        \* row keys
    MaxChanges,  \* bound: changes of the API's contents
    MaxFailures, \* bound: requests, plans and applies that fail
    MaxRestarts  \* bound: restarts of the process

Ops == 1..N
Modes == {"one_shot", "full_reload", "incremental"}
OneShots     == {op \in Ops : Mode[op] = "one_shot"}
FullReloads  == {op \in Ops : Mode[op] = "full_reload"}
Incrementals == {op \in Ops : Mode[op] = "incremental"}

ASSUME ConstantsAssumption ==
    /\ N \in Nat
    /\ Mode \in [Ops -> Modes]
    /\ Params \in [Ops -> SUBSET Ids]
    /\ Filter \in [Ops -> SUBSET Keys]
    /\ Publishes \in [Ops -> SUBSET Ids]
    /\ WithoutAuth \subseteq Ops /\ Unreliable \subseteq Ops
    /\ Incrementals \subseteq Paged   \* prepareSpec refuses an incremental operation without paging
    /\ Paged \subseteq Ops
    /\ MaxChanges \in Nat /\ MaxFailures \in Nat /\ MaxRestarts \in Nat

VARIABLES
    served,         \* the API: per operation, the rows it serves
    responseValues, \* Service.responseValues
    completed,      \* Service.completedOneShotOps
    checkpoints,    \* the checkpoint table of the DB target: what each one covers
    pc,             \* progress of the cycle
    pos,            \* the loop's position in s.operations
    shouldContinue, \* whether the current pass has fetched something
    todo,           \* combinations of operation pos still to request
    work,           \* workingResponseValues
    fetched,        \* fetchedThisCycle
    plan,           \* upsertPlan, fullReloadPlan and pendingCheckpoints
    asked,          \* history variable: combinations requested in this cycle
    requests,       \* history variable: number of those requests
    stable,         \* history variable: rows served since the cycle began
    env             \* history variable: changes, failures and restarts so far

service == <<responseValues, completed>>
cycleVars == <<pc, pos, shouldContinue, todo, work, fetched, plan, asked, requests>>
vars == <<served, responseValues, completed, checkpoints, pc, pos, shouldContinue, todo,
          work, fetched, plan, asked, requests, stable, env>>

-----------------------------------------------------------------------------
Combinations(op) == [Params[op] -> Keys]

\* A checkpoint key: an operation and its parameters other than the pagination one.
CheckpointKeys == UNION {{op} \X Combinations(op) : op \in Incrementals}

NoValues == [id \in Ids |-> {}]
NoPlan   == [creates |-> {}, upsert |-> {}, full |-> {}, pending |-> {}, oneShots |-> {}]

\* buildEffectiveParamValues: a parameter with no value left is not ready.
EffectiveValues(op, id, values) == values[id] \cap Filter[op]

Ready(op, values) == \A id \in Params[op] : EffectiveValues(op, id, values) # {}

\* generateCombinations: the product; one empty combination without parameters.
Combos(op, values) ==
    {c \in Combinations(op) : \A id \in Params[op] : c[id] \in EffectiveValues(op, id, values)}

\* What the API answers to one combination: for an incremental operation, the
\* rows after the checkpoint.
Rows(op, c) == {k \in served[op] : \A id \in Params[op] : c[id] = k}

Answer(op, c) ==
    IF op \in Incrementals THEN Rows(op, c) \ checkpoints[<<op, c>>] ELSE Rows(op, c)

\* extractResponseDataFrom...: the answered rows' values, each listed once.
Publish(op, rows, values) ==
    [id \in Ids |-> IF id \in Publishes[op] THEN values[id] \cup rows ELSE values[id]]

-----------------------------------------------------------------------------
Init ==
    /\ served \in [Ops -> SUBSET Keys]
    /\ responseValues = NoValues
    /\ completed = {}
    /\ checkpoints = [key \in CheckpointKeys |-> {}]
    /\ pc = "idle"
    /\ pos = 1
    /\ shouldContinue = FALSE
    /\ todo = {}
    /\ work = NoValues
    /\ fetched = {}
    /\ plan = NoPlan
    /\ asked = {}
    /\ requests = 0
    /\ stable = served
    /\ env = [changes |-> 0, failures |-> 0, restarts |-> 0]

\* The local variables of GenerateCyclePlan die with it.
EndCycle(next) ==
    /\ pc' = next
    /\ pos' = 1
    /\ shouldContinue' = FALSE
    /\ todo' = {}
    /\ work' = NoValues
    /\ fetched' = {}
    /\ plan' = NoPlan
    /\ asked' = {}
    /\ requests' = 0

-----------------------------------------------------------------------------
(* GenerateCyclePlan *)

StartCycleEmpty ==   \* mutant: the working values start empty
    /\ pc = "idle"
    /\ pc' = "pass"
    /\ stable' = served
    /\ UNCHANGED <<served, service, checkpoints, pos, shouldContinue, todo, work, fetched,
                   plan, asked, requests, env>>

StartCycle ==
    /\ pc = "idle"
    /\ pc' = "pass"
    /\ work' = responseValues
    /\ stable' = served
    /\ UNCHANGED <<served, service, checkpoints, pos, shouldContinue, todo, fetched, plan,
                   asked, requests, env>>

\* The three ways the loop passes over an operation.
SkipFetched == pos \in fetched /\ UNCHANGED fetched

SkipCompleted ==
    /\ pos \in (OneShots \cap completed) \ fetched
    /\ fetched' = fetched \cup {pos}

SkipNotReady ==
    /\ pos \notin fetched
    /\ ~(pos \in OneShots \cap completed)
    /\ ~Ready(pos, work)
    /\ UNCHANGED fetched

SkipOperation ==
    /\ pc = "pass" /\ pos <= N
    /\ SkipFetched \/ SkipCompleted \/ SkipNotReady
    /\ pos' = pos + 1
    /\ UNCHANGED <<served, service, checkpoints, pc, shouldContinue, todo, work, plan, asked,
                   requests, stable, env>>

BeginOperationAgain ==   \* mutant: a completed one-shot operation is not recognised
    /\ pc = "pass" /\ pos <= N
    /\ pos \notin fetched
    /\ Ready(pos, work)
    /\ plan' = [plan EXCEPT !.creates = @ \cup {pos}]
    /\ todo' = Combos(pos, work)
    /\ pc' = "combo"
    /\ UNCHANGED <<served, service, checkpoints, pos, shouldContinue, work, fetched, asked,
                   requests, stable, env>>

BeginOperationCommitted ==   \* mutant: combinations of the committed values only
    /\ pc = "pass" /\ pos <= N
    /\ pos \notin fetched
    /\ ~(pos \in OneShots \cap completed)
    /\ Ready(pos, work)
    /\ plan' = [plan EXCEPT !.creates = @ \cup {pos}]
    /\ todo' = Combos(pos, responseValues)
    /\ pc' = "combo"
    /\ UNCHANGED <<served, service, checkpoints, pos, shouldContinue, work, fetched, asked,
                   requests, stable, env>>

\* The tables of the operation enter its plan; its combinations are fixed here.
BeginOperation ==
    /\ pc = "pass" /\ pos <= N
    /\ pos \notin fetched
    /\ ~(pos \in OneShots \cap completed)
    /\ Ready(pos, work)
    /\ plan' = [plan EXCEPT !.creates = @ \cup {pos}]
    /\ todo' = Combos(pos, work)
    /\ pc' = "combo"
    /\ UNCHANGED <<served, service, checkpoints, pos, shouldContinue, work, fetched, asked,
                   requests, stable, env>>

SkipCombination(c) ==
    /\ pc = "combo" /\ c \in todo
    /\ pos \in WithoutAuth
    /\ todo' = todo \ {c}
    /\ UNCHANGED <<served, service, checkpoints, pc, pos, shouldContinue, work, fetched, plan,
                   asked, requests, stable, env>>

Request(c) ==
    /\ pc = "combo" /\ c \in todo
    /\ pos \notin WithoutAuth
    /\ todo' = todo \ {c}
    /\ asked' = asked \cup {<<pos, c>>}
    /\ requests' = requests + 1

AddRowsLastOnly(p, c) ==   \* mutant: the rows of a combination replace those before
    LET new == {<<pos, k>> : k \in Answer(pos, c)}
    IN  IF pos \in FullReloads THEN [p EXCEPT !.full = new] ELSE [p EXCEPT !.upsert = @ \cup new]

\* The rows go to the plan of the operation's mode; a resumable combination
\* gets a checkpoint that covers them.
AddRows(p, c) ==
    LET rows == Answer(pos, c)
        new  == {<<pos, k>> : k \in rows}
    IN  CASE pos \in OneShots     -> [p EXCEPT !.upsert = @ \cup new]
          [] pos \in FullReloads  -> [p EXCEPT !.full = @ \cup new]
          [] pos \in Incrementals ->
                [p EXCEPT !.upsert = @ \cup new,
                          !.pending = @ \cup {[key |-> <<pos, c>>,
                                               covers |-> checkpoints[<<pos, c>>] \cup rows]}]

FetchSucceeds(c) ==
    /\ Request(c)
    /\ work' = Publish(pos, Answer(pos, c), work)
    /\ plan' = AddRows(plan, c)
    /\ UNCHANGED <<served, service, checkpoints, pc, pos, shouldContinue, fetched, stable, env>>

FetchFailsCheckpointed(c) ==   \* mutant: the checkpoint is built before the error is seen
    /\ Request(c)
    /\ pos \in Unreliable
    /\ env.failures < MaxFailures
    /\ env' = [env EXCEPT !.failures = @ + 1]
    /\ plan' = [plan EXCEPT !.pending = AddRows(plan, c).pending]
    /\ UNCHANGED <<served, service, checkpoints, pc, pos, shouldContinue, work, fetched,
                   stable>>

\* A page fails for good: the combination adds no rows and no checkpoint, but
\* the values of the pages before it have been published.
FetchFails(c) ==
    /\ Request(c)
    /\ pos \in Unreliable
    /\ env.failures < MaxFailures
    /\ env' = [env EXCEPT !.failures = @ + 1]
    /\ \E seen \in IF pos \in Paged THEN SUBSET Answer(pos, c) ELSE {{}} :
          work' = Publish(pos, seen, work)
    /\ UNCHANGED <<served, service, checkpoints, pc, pos, shouldContinue, fetched, plan,
                   stable>>

FinishOperationUnmarked ==   \* mutant: fetchedThisCycle is not set
    /\ pc = "combo" /\ todo = {}
    /\ shouldContinue' = TRUE
    /\ pos' = pos + 1
    /\ pc' = "pass"
    /\ UNCHANGED <<served, service, checkpoints, todo, work, fetched, plan, asked, requests,
                   stable, env>>

FinishOperation ==
    /\ pc = "combo" /\ todo = {}
    /\ shouldContinue' = TRUE
    /\ fetched' = fetched \cup {pos}
    /\ pos' = pos + 1
    /\ pc' = "pass"
    /\ UNCHANGED <<served, service, checkpoints, todo, work, plan, asked, requests, stable, env>>

NextPassKeepsFlag ==   \* mutant: shouldContinue is declared outside the loop
    /\ pc = "pass" /\ pos = N + 1
    /\ shouldContinue
    /\ pos' = 1
    /\ UNCHANGED <<served, service, checkpoints, pc, shouldContinue, todo, work, fetched,
                   plan, asked, requests, stable, env>>

NextPass ==
    /\ pc = "pass" /\ pos = N + 1
    /\ shouldContinue
    /\ pos' = 1
    /\ shouldContinue' = FALSE
    /\ UNCHANGED <<served, service, checkpoints, pc, todo, work, fetched, plan, asked,
                   requests, stable, env>>

\* No operation was fetched in the last pass.  Every one-shot operation not
\* completed before is to be completed by CommitCycle.
FinishPlan ==
    /\ pc = "pass" /\ pos = N + 1
    /\ ~shouldContinue
    /\ plan' = [plan EXCEPT !.oneShots = OneShots \ completed]
    /\ pc' = "ready"
    /\ UNCHANGED <<served, service, checkpoints, pos, shouldContinue, todo, work, fetched,
                   asked, requests, stable, env>>

\* Loading a checkpoint fails, or a row of the full-reload plan has no key:
\* GenerateCyclePlan returns an error and the runner ends the process.
PlanError ==
    /\ \/ pc = "combo" /\ todo # {} /\ pos \in Incrementals \ WithoutAuth
       \/ pc = "pass" /\ pos = N + 1 /\ ~shouldContinue /\ plan.full # {}
    /\ env.failures < MaxFailures
    /\ env' = [env EXCEPT !.failures = @ + 1]
    /\ EndCycle("dead")
    /\ UNCHANGED <<served, service, checkpoints, stable>>

-----------------------------------------------------------------------------
(* What the runner does with the plan: apply it, save the checkpoints and   *)
(* commit; a failing apply or save drops it.                                *)

SaveCheckpoints ==
    /\ pc = "ready"
    /\ checkpoints' = [key \in CheckpointKeys |->
          IF \E p \in plan.pending : p.key = key
          THEN (CHOOSE p \in plan.pending : p.key = key).covers
          ELSE checkpoints[key]]
    /\ pc' = "saved"
    /\ UNCHANGED <<served, service, pos, shouldContinue, todo, work, fetched, plan, asked,
                   requests, stable, env>>

CommitCycle ==
    /\ pc = "saved"
    /\ responseValues' = work
    /\ completed' = completed \cup plan.oneShots
    /\ EndCycle("idle")
    /\ UNCHANGED <<served, checkpoints, stable, env>>

DropPlan ==
    /\ pc = "ready"
    /\ env.failures < MaxFailures
    /\ env' = [env EXCEPT !.failures = @ + 1]
    /\ EndCycle("idle")
    /\ UNCHANGED <<served, service, checkpoints, stable>>

\* A crash or an exit at any point, and a new process: NewService.
Restart ==
    /\ env.restarts < MaxRestarts
    /\ env' = [env EXCEPT !.restarts = @ + 1]
    /\ responseValues' = NoValues
    /\ completed' = {}
    /\ EndCycle("idle")
    /\ UNCHANGED <<served, checkpoints, stable>>

-----------------------------------------------------------------------------
(* The API: rows come and go; an incremental collection only grows. *)

RowAppears(op, k) ==
    /\ env.changes < MaxChanges
    /\ k \notin served[op]
    /\ served' = [served EXCEPT ![op] = @ \cup {k}]
    /\ env' = [env EXCEPT !.changes = @ + 1]
    /\ UNCHANGED <<service, checkpoints, cycleVars, stable>>

RowDisappears(op, k) ==
    /\ env.changes < MaxChanges
    /\ op \notin Incrementals
    /\ k \in served[op]
    /\ served' = [served EXCEPT ![op] = @ \ {k}]
    /\ stable' = [stable EXCEPT ![op] = @ \ {k}]
    /\ env' = [env EXCEPT !.changes = @ + 1]
    /\ UNCHANGED <<service, checkpoints, cycleVars>>

-----------------------------------------------------------------------------
FetchCombination == \E c \in todo : SkipCombination(c) \/ FetchSucceeds(c) \/ FetchFails(c)

GenerateCyclePlan ==
    \/ SkipOperation \/ BeginOperation \/ FetchCombination \/ FinishOperation
    \/ NextPass \/ FinishPlan

Api == \E op \in Ops, k \in Keys : RowAppears(op, k) \/ RowDisappears(op, k)

Next ==
    \/ StartCycle \/ GenerateCyclePlan \/ PlanError
    \/ SaveCheckpoints \/ CommitCycle \/ DropPlan
    \/ Restart \/ Api

Spec == Init /\ [][Next]_vars

\* The planning goroutine runs on; requests return.
FairSpec == Spec /\ WF_vars(GenerateCyclePlan)
-----------------------------------------------------------------------------
(* Properties *)

Planned == pc \in {"ready", "saved"}

Values == [Ids -> SUBSET Keys]
PlannedRows == SUBSET (Ops \X Keys)
CheckpointRecords == [key : CheckpointKeys, covers : SUBSET Keys]
Plans == [creates : SUBSET Ops, upsert : PlannedRows, full : PlannedRows,
          pending : SUBSET CheckpointRecords, oneShots : SUBSET Ops]

\* Every variable has its type (Service, CyclePlan, the locals of
\* GenerateCyclePlan).
TypeOK ==
    /\ served \in [Ops -> SUBSET Keys]
    /\ responseValues \in Values
    /\ completed \in SUBSET OneShots
    /\ checkpoints \in [CheckpointKeys -> SUBSET Keys]
    /\ pc \in {"idle", "pass", "combo", "ready", "saved", "dead"}
    /\ pos \in 1..(N + 1)
    /\ shouldContinue \in BOOLEAN
    /\ todo \in SUBSET UNION {Combinations(op) : op \in Ops}
    /\ work \in Values
    /\ fetched \in SUBSET Ops
    /\ plan \in Plans
    /\ asked \in SUBSET UNION {{op} \X Combinations(op) : op \in Ops}
    /\ requests \in Nat
    /\ stable \in [Ops -> SUBSET Keys]
    /\ env \in [changes : 0..MaxChanges, failures : 0..MaxFailures, restarts : 0..MaxRestarts]

\* No combination of an operation is requested twice in a cycle, however many
\* passes it takes.
RequestedOnce == requests = Cardinality(asked)

\* Every operation that needs them has requested all the values known from
\* earlier cycles: a value published too late for its consumer in one cycle
\* is requested in the next one.
KnownValuesRequested ==
    Planned =>
        \A op \in Ops \ (WithoutAuth \cup (OneShots \cap completed)) :
            Ready(op, responseValues) =>
                \A c \in Combos(op, responseValues) : <<op, c>> \in asked

\* A one-shot operation is never requested again once a committed cycle has
\* completed it, and is planned again as long as no cycle commits.
OneShotOnce ==
    /\ \A r \in asked : r[1] \notin completed
    /\ Planned => \A op \in OneShots \ completed : Ready(op, work) => op \in fetched

\* A pending checkpoint covers only rows that the plan writes or that the
\* checkpoint it replaces covered: a request that failed advances nothing.
CheckpointsBackedByRows ==
    \A p \in plan.pending :
        \A k \in p.covers : k \in checkpoints[p.key] \/ <<p.key[1], k>> \in plan.upsert

\* A full-reload operation that is to be reconciled was planned with every
\* row that the API served during the whole cycle under a known combination:
\* no such row is deleted from its table.  It needs requests that do not fail:
\* README, "fetch a full snapshot every cycle and reconcile only their owned
\* tables", makes no such condition.
SnapshotComplete ==
    Planned =>
        \A op \in FullReloads \cap plan.creates :
            \A k \in stable[op], c \in Combos(op, work) :
                (\A id \in Params[op] : c[id] = k) => <<op, k>> \in plan.full

\* Everything published in a cycle is requested by the operations it feeds in
\* the same cycle, when the paths of producers sort before those of their
\* consumers.
FeedsDownstream ==
    Planned =>
        \A op \in Ops \ (WithoutAuth \cup (OneShots \cap completed)) :
            Ready(op, work) => \A c \in Combos(op, work) : <<op, c>> \in asked

Planning == pc \in {"pass", "combo"}

\* Planning a cycle ends: no set of operations keeps the passes going.
PlanEnds == pc = "pass" ~> ~Planning

\* What comes closer to the end with each step of a plan, most significant
\* first: an operation is marked as fetched and stays so; a pass that fetched
\* begins over; the loop moves to the next operation; an operation begins; one
\* of its combinations is dealt with.
Closer ==
    \/ fetched \subseteq fetched' /\ fetched' # fetched
    \/ /\ fetched' = fetched
       /\ shouldContinue /\ ~shouldContinue'
    \/ /\ fetched' = fetched /\ shouldContinue' = shouldContinue
       /\ \/ pos' > pos
          \/ pos' = pos /\ pc = "pass" /\ pc' = "combo"
          \/ pos' = pos /\ pc' = pc /\ todo' \subseteq todo /\ todo' # todo

\* No step inside GenerateCyclePlan goes round in a circle: whatever values the
\* answers publish and whichever requests fail, it comes closer to the end of
\* the loop, which is reached since operations and combinations are finite.
PlanMovesOn == [][Planning /\ Planning' => Closer \/ UNCHANGED cycleVars]_vars
=============================================================================
