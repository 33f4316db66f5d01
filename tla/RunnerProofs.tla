---------------------------- MODULE RunnerProofs ----------------------------
(***************************************************************************)
(* Theorems about Runner, for every value of its constants: its types, the *)
(* conservation of trigger messages, and what the run history and the      *)
(* status tell about the cycles.                                           *)
(***************************************************************************)
EXTENDS Runner, TLAPS

USE ConstantsAssumption

\* While a cycle is open the tracker has counted what the cycle issued.
CountInv ==
    /\ issued.failed <= issued.requests
    /\ pc = "tracker" => issued = Zero
    /\ pc \notin {"drain", "tracker"} =>
          /\ tracker.requests = issued.requests
          /\ tracker.failed = issued.failed
    /\ pc \in {"publish", "fetch"} => tracker.active

-----------------------------------------------------------------------------
(* Recorded puts a run at the head of the history and keeps its length      *)
(* within the limit.                                                        *)
LEMMA RecordedSequence ==
    ASSUME NEW S, history \in Seq(S), NEW run \in S
    PROVE  /\ Recorded(run) \in Seq(S)
           /\ Len(Recorded(run)) = IF Len(history) < HistoryLimit THEN Len(history) + 1
                                   ELSE HistoryLimit
           /\ Len(Recorded(run)) >= 1
           /\ Recorded(run)[1] = run
           /\ \A i \in 2..Len(Recorded(run)) :
                 i - 1 \in 1..Len(history) /\ Recorded(run)[i] = history[i - 1]
<1> DEFINE all == <<run>> \o history
           n == IF Len(all) > HistoryLimit THEN HistoryLimit ELSE Len(all)
<1>1. /\ all \in Seq(S) /\ Len(all) = Len(history) + 1 /\ all[1] = run
      /\ \A i \in 2..Len(all) : all[i] = history[i - 1]
  OBVIOUS
<1>2. n \in 1..Len(all)
  BY <1>1
<1>3. Recorded(run) = SubSeq(all, 1, n)
  BY DEF Recorded
<1> HIDE DEF all, n
<1>4. /\ SubSeq(all, 1, n) \in Seq(S)
      /\ Len(SubSeq(all, 1, n)) = n
      /\ \A i \in 1..n : SubSeq(all, 1, n)[i] = all[i]
  BY <1>1, <1>2
<1>5. n = IF Len(history) < HistoryLimit THEN Len(history) + 1 ELSE HistoryLimit
  BY <1>1 DEF n
<1> QED
  BY <1>1, <1>2, <1>3, <1>4, <1>5

(* One step of the runner keeps the types, and the counters exact.          *)
LEMMA TypeStep == TypeOK /\ CountInv /\ [Next]_vars => TypeOK' /\ CountInv'
<1> SUFFICES ASSUME TypeOK, CountInv, [Next]_vars PROVE TypeOK' /\ CountInv'
  OBVIOUS
<1> USE DEF shared, runnerVars, effects
<1>t. /\ cycle \in Cycles /\ status \in Statuses /\ tracker \in Trackers /\ issued \in Counts
      /\ sends \in Ledgers /\ target \in Effects /\ history \in Seq(RunSummaries)
      /\ calls \in [Callers -> CallStates] /\ reads \in [Readers -> ReadStates]
      /\ triggerNext \in {0, 1}
  BY DEF TypeOK
<1>c. /\ cycle \in 0..MaxCycles /\ 0 \in Requests
      /\ tracker.requests \in Requests /\ tracker.failed \in Requests
      /\ tracker.owner \in 0..MaxCycles
  BY <1>t DEF Cycles, Requests, Trackers
<1>1. CASE DrainTriggerSignal
  <2>1. sends' \in Ledgers
    BY <1>1, <1>t, <1>c DEF DrainTriggerSignal, Ledgers
  <2>2. issued' \in Counts
    BY <1>1, <1>t, <1>c DEF DrainTriggerSignal, Counts, Zero
  <2>3. CountInv'
    BY <1>1, <1>t, <1>c DEF DrainTriggerSignal, CountInv, Zero
  <2> QED
    BY <1>1, <2>1, <2>2, <2>3 DEF DrainTriggerSignal, TypeOK, Points
<1>2. CASE TrackerStart
  <2>1. tracker' \in Trackers
    BY <1>2, <1>t, <1>c DEF TrackerStart, Trackers
  <2>2. CountInv'
    BY <1>2, <1>t, <1>c DEF TrackerStart, CountInv, Zero
  <2> QED
    BY <1>2, <2>1, <2>2 DEF TrackerStart, TypeOK, Points
<1>3. CASE PublishRunning
  <2>1. status' \in Statuses
    BY <1>3, <1>t, <1>c DEF PublishRunning, Statuses, Phases
  <2>2. CountInv'
    BY <1>3, <1>t, <1>c DEF PublishRunning, CountInv
  <2> QED
    BY <1>3, <2>1, <2>2 DEF PublishRunning, TypeOK, Points
<1>4. CASE FetchRequest
  <2>1. PICK f \in {0, 1} :
             /\ LogRequest(f)
             /\ issued' = [issued EXCEPT !.requests = @ + 1, !.failed = @ + f]
    BY <1>4 DEF FetchRequest
  <2>2. /\ issued.requests + 1 \in Requests /\ issued.failed + f \in Requests
        /\ tracker.requests = issued.requests /\ tracker.failed = issued.failed
    BY <1>4, <1>t DEF FetchRequest, Counts, Requests, CountInv
  <2>3. issued' \in Counts
    BY <1>t, <2>1, <2>2 DEF Counts
  <2>4. tracker' \in Trackers
    BY <1>t, <2>1, <2>2 DEF LogRequest, Trackers
  <2>5. tracker.active /\ tracker' = [tracker EXCEPT !.requests = @ + 1, !.failed = @ + f]
    BY <1>4, <2>1 DEF LogRequest, CountInv, FetchRequest
  <2>6. /\ tracker'.requests = issued.requests + 1 /\ tracker'.failed = issued.failed + f
        /\ issued'.requests = issued.requests + 1 /\ issued'.failed = issued.failed + f
        /\ tracker'.active
    BY <1>t, <2>1, <2>2, <2>5 DEF Counts, Trackers
  <2>7. issued'.failed <= issued'.requests
    BY <1>t, <2>6 DEF CountInv, Counts, Requests
  <2>8. CountInv'
    BY <1>4, <2>6, <2>7 DEF FetchRequest, CountInv
  <2> QED
    BY <1>4, <2>3, <2>4, <2>8 DEF FetchRequest, TypeOK
<1>5. CASE PlanReady
  <2>1. plan' \in SUBSET Steps
    BY <1>5, <1>t, <1>c DEF PlanReady, NoPlan
  <2>2. CountInv'
    BY <1>5, <1>t, <1>c DEF PlanReady, CountInv
  <2> QED
    BY <1>5, <2>1, <2>2 DEF PlanReady, TypeOK, Points
<1>6. CASE PlanFails
  <2>1. CountInv'
    BY <1>6, <1>t, <1>c DEF PlanFails, CountInv
  <2> QED
    BY <1>6, <2>1 DEF PlanFails, TypeOK, Points, Wrapped, NoPlan
<1>7. CASE ExportSQL
  <2>1. status' \in Statuses
    BY <1>7, <1>t, <1>c DEF ExportSQL, Statuses, Phases
  <2>2. CountInv'
    BY <1>7, <1>t, <1>c DEF ExportSQL, CountInv
  <2> QED
    BY <1>7, <2>1, <2>2 DEF ExportSQL, TypeOK, Points
<1>8. CASE ApplyUpsert
  <2>1. target' \in Effects
    BY <1>8, <1>t, <1>c DEF ApplyUpsert, ApplyStep, Effects
  <2>2. CountInv'
    BY <1>8, <1>t, <1>c DEF ApplyUpsert, ApplyStep, CountInv
  <2> QED
    BY <1>8, <2>1, <2>2 DEF ApplyUpsert, TypeOK, ApplyStep, Points
<1>9. CASE ApplyFullSync
  <2>1. target' \in Effects
    BY <1>9, <1>t, <1>c DEF ApplyFullSync, ApplyStep, Effects
  <2>2. CountInv'
    BY <1>9, <1>t, <1>c DEF ApplyFullSync, ApplyStep, CountInv
  <2> QED
    BY <1>9, <2>1, <2>2 DEF ApplyFullSync, TypeOK, ApplyStep, Points
<1>10. CASE SaveCheckpoints
  <2>1. target' \in Effects
    BY <1>10, <1>t, <1>c DEF SaveCheckpoints, ApplyStep, Effects
  <2>2. CountInv'
    BY <1>10, <1>t, <1>c DEF SaveCheckpoints, ApplyStep, CountInv
  <2> QED
    BY <1>10, <2>1, <2>2 DEF SaveCheckpoints, TypeOK, ApplyStep, Points
<1>11. CASE SaveSQL
  <2>1. CountInv'
    BY <1>11, <1>t, <1>c DEF SaveSQL, CountInv
  <2> QED
    BY <1>11, <1>c, <2>1 DEF SaveSQL, TypeOK, Points, Wrapped
<1>12. CASE CommitCycle
  <2>1. CountInv'
    BY <1>12, <1>t, <1>c DEF CommitCycle, CountInv
  <2> QED
    BY <1>12, <2>1 DEF CommitCycle, TypeOK, Points
<1>13. CASE FinishSucceeded
  <2>1. Summary("succeeded") \in RunSummaries
    BY <1>t, <1>c DEF Summary, RunSummaries, Outcomes
  <2>2. history' \in Seq(RunSummaries)
    BY <1>13, <1>t, <2>1, RecordedSequence DEF FinishSucceeded, FinishRun, EndRun
  <2>p. FinishedPhase("succeeded") \in Phases
    BY <1>t DEF FinishedPhase, Phases, Statuses
  <2>3. status' \in Statuses
    BY <1>13, <1>t, <1>c, <2>p DEF FinishSucceeded, FinishRun, Statuses
  <2>4. tracker' \in Trackers
    BY <1>13, <1>t DEF FinishSucceeded, FinishRun, EndRun, Trackers
  <2>5. CountInv'
    BY <1>13, <1>t DEF FinishSucceeded, FinishRun, EndRun, Trackers, CountInv
  <2> QED
    BY <1>13, <2>2, <2>3, <2>4, <2>5 DEF FinishSucceeded, FinishRun, EndRun, Points, NoPlan, TypeOK
<1>14. CASE FinishFailed
  <2>1. Summary("failed") \in RunSummaries
    BY <1>t, <1>c DEF Summary, RunSummaries, Outcomes
  <2>2. history' \in Seq(RunSummaries)
    BY <1>14, <1>t, <2>1, RecordedSequence DEF FinishFailed, FinishRun, EndRun
  <2>p. FinishedPhase("failed") \in Phases
    BY <1>t DEF FinishedPhase, Phases, Statuses
  <2>3. status' \in Statuses
    BY <1>14, <1>t, <1>c, <2>p DEF FinishFailed, FinishRun, Statuses
  <2>4. tracker' \in Trackers
    BY <1>14, <1>t DEF FinishFailed, FinishRun, EndRun, Trackers
  <2>5. CountInv'
    BY <1>14, <1>t DEF FinishFailed, FinishRun, EndRun, Trackers, CountInv
  <2> QED
    BY <1>14, <2>2, <2>3, <2>4, <2>5 DEF FinishFailed, FinishRun, EndRun, Points, NoPlan, TypeOK
<1>15. CASE FailRun
  <2>1. Summary("failed") \in RunSummaries
    BY <1>t, <1>c DEF Summary, RunSummaries, Outcomes
  <2>2. history' \in Seq(RunSummaries)
    BY <1>15, <1>t, <2>1, RecordedSequence DEF FailRun, EndRun
  <2>3. status' \in Statuses
    BY <1>15, <1>t, <1>c DEF FailRun, Statuses, Phases
  <2>4. tracker' \in Trackers
    BY <1>15, <1>t DEF FailRun, EndRun, Trackers
  <2>5. CountInv'
    BY <1>15, <1>t DEF FailRun, EndRun, Trackers, CountInv
  <2> QED
    BY <1>15, <2>2, <2>3, <2>4, <2>5 DEF FailRun, EndRun, Points, NoPlan, TypeOK
<1>16. CASE ReturnError
  <2>1. status' \in Statuses
    BY <1>16, <1>t, <1>c DEF ReturnError, Statuses, Phases
  <2>2. CountInv'
    BY <1>16, <1>t, <1>c DEF ReturnError, CountInv
  <2> QED
    BY <1>16, <2>1, <2>2 DEF ReturnError, TypeOK, Points
<1>17. CASE EnterSleep
  <2>1. status' \in Statuses
    BY <1>17, <1>t, <1>c DEF EnterSleep, Statuses, Phases
  <2>2. CountInv'
    BY <1>17, <1>t, <1>c DEF EnterSleep, CountInv
  <2> QED
    BY <1>17, <2>1, <2>2 DEF EnterSleep, TypeOK, Points
<1>18. CASE WakeBySleep
  <2>1. cycle' \in Cycles
    BY <1>18, <1>t, <1>c DEF WakeBySleep, Cycles
  <2>2. CountInv'
    BY <1>18, <1>t, <1>c DEF WakeBySleep, CountInv
  <2> QED
    BY <1>18, <2>1, <2>2 DEF WakeBySleep, TypeOK, Points
<1>19. CASE WakeByTrigger
  <2>1. cycle' \in Cycles
    BY <1>19, <1>t, <1>c DEF WakeByTrigger, Cycles
  <2>2. sends' \in Ledgers
    BY <1>19, <1>t, <1>c DEF WakeByTrigger, Ledgers
  <2>3. CountInv'
    BY <1>19, <1>t, <1>c DEF WakeByTrigger, CountInv
  <2> QED
    BY <1>19, <2>1, <2>2, <2>3 DEF WakeByTrigger, TypeOK, Points
<1>20. CASE TimerFires
  <2>1. CountInv'
    BY <1>20, <1>t, <1>c DEF TimerFires, SleepEnds, CountInv
  <2> QED
    BY <1>20, <2>1 DEF TimerFires, TypeOK, SleepEnds
<1>21. CASE SleepCanceled
  <2>1. CountInv'
    BY <1>21, <1>t, <1>c DEF SleepCanceled, SleepEnds, CountInv
  <2> QED
    BY <1>21, <2>1 DEF SleepCanceled, TypeOK, SleepEnds
<1>22. CASE Cancel
  <2>1. CountInv'
    BY <1>22, <1>t, <1>c DEF Cancel, CountInv
  <2> QED
    BY <1>22, <2>1 DEF Cancel, TypeOK
<1>23. ASSUME NEW c \in Callers, TriggerCheck(c) PROVE TypeOK' /\ CountInv'
  <2>1. PICK s \in CallStates : calls' = [calls EXCEPT ![c] = s]
    <3> \A w \in {"unsupported", "unavailable"} : [calls[c] EXCEPT !.reply = w] \in CallStates
      BY <1>t DEF CallStates
    <3> [calls[c] EXCEPT !.pc = "send", !.reply = "none"] \in CallStates
      BY <1>t DEF CallStates
    <3> QED
      BY <1>23 DEF TriggerCheck
  <2>2. calls' \in [Callers -> CallStates]
    BY <1>t, <2>1
  <2>3. CountInv'
    BY <1>23 DEF TriggerCheck, CountInv
  <2> QED
    BY <1>23, <2>2, <2>3 DEF TriggerCheck, TypeOK
<1>24. ASSUME NEW c \in Callers, TriggerSend(c) PROVE TypeOK' /\ CountInv'
  <2>1. calls' \in [Callers -> CallStates]
    BY <1>24, <1>t, <1>c DEF TriggerSend, CallStates, Begun, Cycles
  <2>2. sends' \in Ledgers
    BY <1>24, <1>t, <1>c DEF TriggerSend, Ledgers
  <2>3. CountInv'
    BY <1>24, <1>t, <1>c DEF TriggerSend, CountInv
  <2> QED
    BY <1>24, <2>1, <2>2, <2>3 DEF TriggerSend, TypeOK
<1>25. ASSUME NEW c \in Callers, TriggerClear(c) PROVE TypeOK' /\ CountInv'
  <2>1. calls' \in [Callers -> CallStates]
    BY <1>25, <1>t, <1>c DEF TriggerClear, CallStates
  <2>2. status' \in Statuses
    BY <1>25, <1>t, <1>c DEF TriggerClear, Statuses
  <2>3. CountInv'
    BY <1>25, <1>t, <1>c DEF TriggerClear, CountInv
  <2> QED
    BY <1>25, <2>1, <2>2, <2>3 DEF TriggerClear, TypeOK
<1>26. ASSUME NEW r \in Readers, ReadStatus(r) PROVE TypeOK' /\ CountInv'
  <2>1. reads' \in [Readers -> ReadStates]
    BY <1>26, <1>t, <1>c DEF ReadStatus, ReadStates, Statuses
  <2>2. CountInv'
    BY <1>26, <1>t, <1>c DEF ReadStatus, CountInv
  <2> QED
    BY <1>26, <2>1, <2>2 DEF ReadStatus, TypeOK
<1>27. ASSUME NEW r \in Readers, ReadTracker(r) PROVE TypeOK' /\ CountInv'
  <2>1. reads' \in [Readers -> ReadStates]
    BY <1>27, <1>t, <1>c DEF ReadTracker, ReadStates
  <2>2. CountInv'
    BY <1>27, <1>t, <1>c DEF ReadTracker, CountInv
  <2> QED
    BY <1>27, <2>1, <2>2 DEF ReadTracker, TypeOK
<1>28. CASE UNCHANGED vars
  BY <1>28 DEF vars, TypeOK, CountInv
<1> QED
  BY <1>1, <1>2, <1>3, <1>4, <1>5, <1>6, <1>7, <1>8, <1>9, <1>10, <1>11, <1>12, <1>13, <1>14,
     <1>15, <1>16, <1>17, <1>18, <1>19, <1>20, <1>21, <1>22, <1>23, <1>24, <1>25, <1>26, <1>27, <1>28
     DEF Next, RunStep, StartRun, MakePlan, ApplyCycle, FinishCycle, Sleep,
         TriggerCycle, StatusSnapshot

(* Every variable of the runner keeps its type (TypeOK): in particular no   *)
(* counter exceeds the requests issued and no cycle number the loop's.      *)
THEOREM TypeCorrect == Spec => [](TypeOK /\ CountInv)
<1>1. Init => TypeOK /\ CountInv
  <2> SUFFICES ASSUME Init PROVE TypeOK /\ CountInv
    OBVIOUS
  <2> USE DEF Init
  <2>1. 0 \in Requests /\ 0 \in 0..MaxCycles /\ 1 \in Cycles
    BY DEF Requests, Cycles
  <2>2. status \in Statuses
    BY <2>1 DEF Statuses, Phases
  <2>3. tracker \in Trackers /\ issued \in Counts
    BY <2>1 DEF Trackers, Counts, Zero
  <2>4. calls \in [Callers -> CallStates] /\ reads \in [Readers -> ReadStates]
    BY <2>1 DEF CallStates, ReadStates, Phases
  <2>5. target \in Effects /\ sends \in Ledgers
    BY DEF Effects, Ledgers
  <2>6. CountInv
    BY DEF CountInv, Zero
  <2>7. history \in Seq(RunSummaries)
    OBVIOUS
  <2> QED
    BY <2>1, <2>2, <2>3, <2>4, <2>5, <2>6, <2>7 DEF TypeOK, JobModes, Points, NoPlan
<1> QED
  BY <1>1, TypeStep, PTL DEF Spec


-----------------------------------------------------------------------------
(* Trigger messages. *)

(* Each trigger message is in the channel, woke the runner, or was drained. *)
THEOREM TriggersAreConserved == Spec => []TriggersConserved
<1>1. Init => TriggersConserved
  BY DEF Init, TriggersConserved
<1>2. TypeOK /\ TriggersConserved /\ [Next]_vars => TriggersConserved'
  <2> SUFFICES ASSUME TypeOK, TriggersConserved, [Next]_vars PROVE TriggersConserved'
    OBVIOUS
  <2> USE DEF TriggersConserved
  <2>t. sends \in Ledgers /\ triggerNext \in {0, 1}
    BY DEF TypeOK
  <2>1. CASE DrainTriggerSignal
    BY <2>1, <2>t DEF DrainTriggerSignal, Ledgers
  <2>2. CASE WakeByTrigger
    BY <2>2, <2>t DEF WakeByTrigger, Ledgers
  <2>3. ASSUME NEW c \in Callers, TriggerSend(c) PROVE TriggersConserved'
    BY <2>3, <2>t DEF TriggerSend, Ledgers
  <2>4. CASE UNCHANGED <<sends, triggerNext>>
    BY <2>4
  <2>5. \/ DrainTriggerSignal \/ WakeByTrigger \/ \E c \in Callers : TriggerSend(c)
        \/ UNCHANGED <<sends, triggerNext>>
    <3>1. CASE RunStep
      BY <3>1 DEF RunStep, StartRun, MakePlan, ApplyCycle, FinishCycle, Sleep, TrackerStart,
                  PublishRunning, FetchRequest, PlanReady, PlanFails, ExportSQL, ApplyUpsert,
                  ApplyFullSync, SaveCheckpoints, ApplyStep, SaveSQL, CommitCycle,
                  FinishSucceeded, FinishFailed, FinishRun, FailRun, ReturnError, EnterSleep,
                  WakeBySleep
    <3>2. CASE TimerFires \/ SleepCanceled \/ Cancel
      BY <3>2 DEF TimerFires, SleepCanceled, SleepEnds, Cancel
    <3>3. ASSUME NEW c \in Callers, TriggerCheck(c) \/ TriggerClear(c)
          PROVE  UNCHANGED <<sends, triggerNext>>
      BY <3>3 DEF TriggerCheck, TriggerClear
    <3>4. ASSUME NEW r \in Readers, StatusSnapshot(r) PROVE UNCHANGED <<sends, triggerNext>>
      BY <3>4 DEF StatusSnapshot, ReadStatus, ReadTracker
    <3>5. CASE UNCHANGED vars
      BY <3>5 DEF vars
    <3> QED
      BY <3>1, <3>2, <3>3, <3>4, <3>5 DEF Next, TriggerCycle
  <2> QED
    BY <2>1, <2>2, <2>3, <2>4, <2>5
<1> QED
  BY <1>1, <1>2, TypeCorrect, PTL DEF Spec

-----------------------------------------------------------------------------
(* The history and the effects of the cycles. *)

\* The points of a cycle before finishRun or failRun, and what the cycle has
\* done when the runner is at each of them.
Closed == {"sleep", "wait", "return", "done"}

Progress ==
    /\ committed \subseteq 1..cycle
    /\ pc \notin Closed \cup {"finishOK"} => cycle \notin committed
    /\ pc = "finishOK" => cycle \in committed
    /\ pc \in {"fullSync", "checkpoints", "commit", "finishOK"} => cycle \in target.upsert
    /\ pc \in {"checkpoints", "commit", "finishOK"} => cycle \in target.fullSync
    /\ pc \in {"commit", "finishOK"} => cycle \in target.checkpoints

CycleInv ==
    /\ Progress
    /\ CheckpointsFollowApply
    /\ HistoryIsRecentRuns
    /\ OutcomeMatchesEffects
    /\ RunCountsItsRequests

(* A step that neither ends a cycle nor touches its effects keeps CycleInv. *)
LEMMA QuietStep ==
    ASSUME TypeOK, CycleInv, UNCHANGED <<history, target, committed>>, Ended' = Ended,
           Progress', Ended = cycle /\ Ended' = cycle' => UNCHANGED issued,
           cycle' # cycle => Ended # cycle'
    PROVE  CycleInv'
<1>1. CheckpointsFollowApply' /\ OutcomeMatchesEffects'
  BY DEF CycleInv, CheckpointsFollowApply, OutcomeMatchesEffects
<1>2. HistoryIsRecentRuns'
  BY DEF CycleInv, HistoryIsRecentRuns
<1>3. RunCountsItsRequests'
  BY DEF CycleInv, RunCountsItsRequests
<1> QED
  BY <1>1, <1>2, <1>3 DEF CycleInv

(* Ending a cycle, as finishRun or failRun, keeps CycleInv.                  *)
LEMMA EndStep ==
    ASSUME TypeOK, CountInv, CycleInv, NEW oc \in Outcomes, EndRun(oc),
           pc \notin Closed \cup {"drain", "tracker"}, pc' \in Closed,
           UNCHANGED <<target, committed, cycle, issued>>,
           oc = "succeeded" => pc = "finishOK", oc = "failed" => pc # "finishOK"
    PROVE  CycleInv'
<1>t. /\ history \in Seq(RunSummaries) /\ tracker \in Trackers /\ cycle \in Cycles
      /\ cycle \in Nat /\ issued \in Counts
  BY DEF TypeOK, Cycles
<1>1. Summary(oc) \in RunSummaries
  BY <1>t DEF Summary, RunSummaries, Trackers
<1>2. /\ history' = Recorded(Summary(oc))
      /\ Len(history') = IF Len(history) < HistoryLimit THEN Len(history) + 1 ELSE HistoryLimit
      /\ Len(history') >= 1
      /\ history'[1] = Summary(oc)
      /\ \A i \in 2..Len(history') : i - 1 \in 1..Len(history) /\ history'[i] = history[i - 1]
  BY <1>1, <1>t, RecordedSequence DEF EndRun
<1>3. Ended = cycle - 1 /\ Ended' = cycle
  BY DEF Ended, Closed
<1>4. Progress'
  BY DEF CycleInv, Progress, Closed
<1>5. HistoryIsRecentRuns'
  <2>1. Len(history') = IF Ended' < HistoryLimit THEN Ended' ELSE HistoryLimit
    BY <1>t, <1>2, <1>3 DEF CycleInv, HistoryIsRecentRuns
  <2>2. ASSUME NEW i \in 1..Len(history') PROVE history'[i].cycle = Ended' - i + 1
    <3>1. CASE i = 1
      BY <3>1, <1>2, <1>3, <1>t DEF Summary
    <3>2. CASE i # 1
      <4>1. i \in 2..Len(history') /\ i - 1 \in 1..Len(history)
        BY <3>2, <1>2
      <4>2. history[i - 1].cycle = Ended - (i - 1) + 1
        BY <4>1 DEF CycleInv, HistoryIsRecentRuns
      <4>3. history'[i].cycle = Ended - (i - 1) + 1
        BY <4>1, <4>2, <1>2
      <4>4. i \in Int
        BY <1>2
      <4> QED
        BY <4>3, <4>4, <1>3, <1>t
    <3> QED
      BY <3>1, <3>2
  <2> QED
    BY <2>1, <2>2 DEF HistoryIsRecentRuns
<1>6. OutcomeMatchesEffects'
  <2> SUFFICES ASSUME NEW i \in 1..Len(history')
               PROVE  LET c == history'[i].cycle IN
                      IF history'[i].outcome = "succeeded"
                      THEN /\ c \in committed
                           /\ c \in target.upsert \cap target.fullSync \cap target.checkpoints
                      ELSE c \notin committed
    BY DEF OutcomeMatchesEffects
  <2>1. CASE i = 1
    <3>1. history'[i].cycle = cycle /\ history'[i].outcome = oc
      BY <2>1, <1>2 DEF Summary
    <3>2. CASE oc = "succeeded"
      BY <3>1, <3>2 DEF CycleInv, Progress
    <3>3. CASE oc = "failed"
      BY <3>1, <3>3 DEF CycleInv, Progress
    <3> QED
      BY <3>2, <3>3 DEF Outcomes
  <2>2. CASE i # 1
    <3>1. i - 1 \in 1..Len(history) /\ history'[i] = history[i - 1]
      BY <2>2, <1>2
    <3> QED
      BY <3>1 DEF CycleInv, OutcomeMatchesEffects
  <2> QED
    BY <2>1, <2>2
<1>7. RunCountsItsRequests'
  <2>1. tracker.requests = issued.requests /\ tracker.failed = issued.failed
    BY DEF CountInv
  <2>2. issued = [requests |-> issued.requests, failed |-> issued.failed]
    BY <1>t DEF Counts
  <2> QED
    BY <2>1, <2>2, <1>2 DEF RunCountsItsRequests, Summary
<1>8. CheckpointsFollowApply'
  BY DEF CycleInv, CheckpointsFollowApply
<1> QED
  BY <1>4, <1>5, <1>6, <1>7, <1>8 DEF CycleInv

(* Each step of the runner keeps CycleInv.                                   *)
LEMMA CycleStep == TypeOK /\ CountInv /\ CycleInv /\ [Next]_vars => CycleInv'
<1> SUFFICES ASSUME TypeOK, CountInv, CycleInv, [Next]_vars PROVE CycleInv'
  OBVIOUS
<1> USE DEF shared, runnerVars, effects
<1>t. cycle \in Nat /\ cycle >= 1 /\ target \in Effects /\ committed \subseteq 1..cycle
  BY DEF TypeOK, Cycles, CycleInv, Progress
<1>1. CASE StartRun
  <2>1. Progress'
    BY <1>1, <1>t DEF StartRun, DrainTriggerSignal, TrackerStart, PublishRunning, CycleInv, Progress, Closed
  <2>2. /\ UNCHANGED <<history, target, committed>> /\ Ended' = Ended
        /\ Ended = cycle /\ Ended' = cycle' => UNCHANGED issued
        /\ cycle' # cycle => Ended # cycle'
    BY <1>1, <1>t DEF StartRun, DrainTriggerSignal, TrackerStart, PublishRunning, Ended
  <2> QED
    BY <2>1, <2>2, QuietStep
<1>2. CASE MakePlan
  <2>1. Progress'
    BY <1>2, <1>t DEF MakePlan, FetchRequest, PlanReady, PlanFails, CycleInv, Progress, Closed
  <2>2. /\ UNCHANGED <<history, target, committed>> /\ Ended' = Ended
        /\ Ended = cycle /\ Ended' = cycle' => UNCHANGED issued
        /\ cycle' # cycle => Ended # cycle'
    BY <1>2, <1>t DEF MakePlan, FetchRequest, PlanReady, PlanFails, Ended
  <2> QED
    BY <2>1, <2>2, QuietStep
<1>3. CASE ExportSQL \/ SaveSQL
  <2>1. Progress'
    BY <1>3, <1>t DEF ExportSQL, SaveSQL, CycleInv, Progress, Closed
  <2>2. /\ UNCHANGED <<history, target, committed>> /\ Ended' = Ended
        /\ Ended = cycle /\ Ended' = cycle' => UNCHANGED issued
        /\ cycle' # cycle => Ended # cycle'
    BY <1>3, <1>t DEF ExportSQL, SaveSQL, Ended
  <2> QED
    BY <2>1, <2>2, QuietStep
<1>4. CASE ApplyUpsert
  <2>1. Progress'
    BY <1>4, <1>t DEF ApplyUpsert, ApplyStep, CycleInv, Progress, Closed, Effects
  <2>2. UNCHANGED <<history, issued, cycle>> /\ Ended = cycle - 1 /\ Ended' = cycle - 1
    BY <1>4 DEF ApplyUpsert, ApplyStep, Ended
  <2>3. CheckpointsFollowApply'
    BY <1>4, <1>t DEF ApplyUpsert, ApplyStep, CycleInv, Progress, CheckpointsFollowApply, Effects
  <2>4. HistoryIsRecentRuns' /\ RunCountsItsRequests'
    BY <2>2, <1>t DEF CycleInv, HistoryIsRecentRuns, RunCountsItsRequests
  <2>5. \A i \in 1..Len(history) : history[i].cycle # cycle
    <3> SUFFICES ASSUME NEW i \in 1..Len(history) PROVE history[i].cycle # cycle
      OBVIOUS
    <3>1. history[i].cycle = Ended - i + 1
      BY DEF CycleInv, HistoryIsRecentRuns
    <3>2. i \in Int /\ i >= 1
      BY DEF TypeOK
    <3> QED
      BY <3>1, <3>2, <2>2, <1>t
  <2>6. OutcomeMatchesEffects'
    BY <1>4, <2>2, <2>5, <1>t DEF ApplyUpsert, ApplyStep, CycleInv, OutcomeMatchesEffects, Effects
  <2> QED
    BY <2>1, <2>3, <2>4, <2>6 DEF CycleInv
<1>5. CASE ApplyFullSync
  <2>1. Progress'
    BY <1>5, <1>t DEF ApplyFullSync, ApplyStep, CycleInv, Progress, Closed, Effects
  <2>2. UNCHANGED <<history, issued, cycle>> /\ Ended = cycle - 1 /\ Ended' = cycle - 1
    BY <1>5 DEF ApplyFullSync, ApplyStep, Ended
  <2>3. CheckpointsFollowApply'
    BY <1>5, <1>t DEF ApplyFullSync, ApplyStep, CycleInv, Progress, CheckpointsFollowApply, Effects
  <2>4. HistoryIsRecentRuns' /\ RunCountsItsRequests'
    BY <2>2, <1>t DEF CycleInv, HistoryIsRecentRuns, RunCountsItsRequests
  <2>5. \A i \in 1..Len(history) : history[i].cycle # cycle
    <3> SUFFICES ASSUME NEW i \in 1..Len(history) PROVE history[i].cycle # cycle
      OBVIOUS
    <3>1. history[i].cycle = Ended - i + 1
      BY DEF CycleInv, HistoryIsRecentRuns
    <3>2. i \in Int /\ i >= 1
      BY DEF TypeOK
    <3> QED
      BY <3>1, <3>2, <2>2, <1>t
  <2>6. OutcomeMatchesEffects'
    BY <1>5, <2>2, <2>5, <1>t DEF ApplyFullSync, ApplyStep, CycleInv, OutcomeMatchesEffects, Effects
  <2> QED
    BY <2>1, <2>3, <2>4, <2>6 DEF CycleInv
<1>6. CASE SaveCheckpoints
  <2>1. Progress'
    BY <1>6, <1>t DEF SaveCheckpoints, ApplyStep, CycleInv, Progress, Closed, Effects
  <2>2. UNCHANGED <<history, issued, cycle>> /\ Ended = cycle - 1 /\ Ended' = cycle - 1
    BY <1>6 DEF SaveCheckpoints, ApplyStep, Ended
  <2>3. CheckpointsFollowApply'
    BY <1>6, <1>t DEF SaveCheckpoints, ApplyStep, CycleInv, Progress, CheckpointsFollowApply, Effects
  <2>4. HistoryIsRecentRuns' /\ RunCountsItsRequests'
    BY <2>2, <1>t DEF CycleInv, HistoryIsRecentRuns, RunCountsItsRequests
  <2>5. \A i \in 1..Len(history) : history[i].cycle # cycle
    <3> SUFFICES ASSUME NEW i \in 1..Len(history) PROVE history[i].cycle # cycle
      OBVIOUS
    <3>1. history[i].cycle = Ended - i + 1
      BY DEF CycleInv, HistoryIsRecentRuns
    <3>2. i \in Int /\ i >= 1
      BY DEF TypeOK
    <3> QED
      BY <3>1, <3>2, <2>2, <1>t
  <2>6. OutcomeMatchesEffects'
    BY <1>6, <2>2, <2>5, <1>t DEF SaveCheckpoints, ApplyStep, CycleInv, OutcomeMatchesEffects, Effects
  <2> QED
    BY <2>1, <2>3, <2>4, <2>6 DEF CycleInv
<1>7. CASE CommitCycle
  <2>1. Progress'
    BY <1>7, <1>t DEF CommitCycle, CycleInv, Progress, Closed, Effects
  <2>2. UNCHANGED <<history, issued, cycle>> /\ Ended = cycle - 1 /\ Ended' = cycle - 1
    BY <1>7 DEF CommitCycle, Ended
  <2>3. CheckpointsFollowApply'
    BY <1>7, <1>t DEF CommitCycle, CycleInv, Progress, CheckpointsFollowApply, Effects
  <2>4. HistoryIsRecentRuns' /\ RunCountsItsRequests'
    BY <2>2, <1>t DEF CycleInv, HistoryIsRecentRuns, RunCountsItsRequests
  <2>5. \A i \in 1..Len(history) : history[i].cycle # cycle
    <3> SUFFICES ASSUME NEW i \in 1..Len(history) PROVE history[i].cycle # cycle
      OBVIOUS
    <3>1. history[i].cycle = Ended - i + 1
      BY DEF CycleInv, HistoryIsRecentRuns
    <3>2. i \in Int /\ i >= 1
      BY DEF TypeOK
    <3> QED
      BY <3>1, <3>2, <2>2, <1>t
  <2>6. OutcomeMatchesEffects'
    BY <1>7, <2>2, <2>5, <1>t DEF CommitCycle, CycleInv, OutcomeMatchesEffects, Effects
  <2> QED
    BY <2>1, <2>3, <2>4, <2>6 DEF CycleInv
<1>8. CASE FinishSucceeded
  <2>1. /\ EndRun("succeeded") /\ pc \notin Closed \cup {"drain", "tracker"} /\ pc' \in Closed
        /\ UNCHANGED <<target, committed, cycle, issued>>
        /\ pc = "finishOK" /\ "succeeded" \in Outcomes
    BY <1>8 DEF FinishSucceeded, FinishRun, Closed, Outcomes
  <2> QED
    BY <2>1, EndStep
<1>9. CASE FinishFailed
  <2>1. /\ EndRun("failed") /\ pc \notin Closed \cup {"drain", "tracker"} /\ pc' \in Closed
        /\ UNCHANGED <<target, committed, cycle, issued>>
        /\ pc # "finishOK" /\ "failed" \in Outcomes
    BY <1>9 DEF FinishFailed, FinishRun, Closed, Outcomes
  <2> QED
    BY <2>1, EndStep
<1>10. CASE FailRun
  <2>1. /\ EndRun("failed") /\ pc \notin Closed \cup {"drain", "tracker"} /\ pc' \in Closed
        /\ UNCHANGED <<target, committed, cycle, issued>>
        /\ pc # "finishOK" /\ "failed" \in Outcomes
    BY <1>10 DEF FailRun, Closed, Outcomes
  <2> QED
    BY <2>1, EndStep
<1>11. CASE ReturnError \/ EnterSleep \/ WakeBySleep \/ WakeByTrigger
  <2>1. Progress'
    BY <1>11, <1>t DEF ReturnError, EnterSleep, WakeBySleep, WakeByTrigger, CycleInv, Progress, Closed
  <2>2. /\ UNCHANGED <<history, target, committed>> /\ Ended' = Ended
        /\ Ended = cycle /\ Ended' = cycle' => UNCHANGED issued
        /\ cycle' # cycle => Ended # cycle'
    BY <1>11, <1>t DEF ReturnError, EnterSleep, WakeBySleep, WakeByTrigger, Ended
  <2> QED
    BY <2>1, <2>2, QuietStep
<1>12. CASE TimerFires \/ SleepCanceled \/ Cancel
  <2>1. Progress'
    BY <1>12, <1>t DEF TimerFires, SleepCanceled, SleepEnds, Cancel, CycleInv, Progress, Closed
  <2>2. /\ UNCHANGED <<history, target, committed>> /\ Ended' = Ended
        /\ Ended = cycle /\ Ended' = cycle' => UNCHANGED issued
        /\ cycle' # cycle => Ended # cycle'
    BY <1>12, <1>t DEF TimerFires, SleepCanceled, SleepEnds, Cancel, Ended
  <2> QED
    BY <2>1, <2>2, QuietStep
<1>13. ASSUME NEW c \in Callers, TriggerCycle(c) PROVE CycleInv'
  <2>1. Progress'
    BY <1>13, <1>t DEF TriggerCycle, TriggerCheck, TriggerSend, TriggerClear, CycleInv, Progress, Closed
  <2>2. /\ UNCHANGED <<history, target, committed>> /\ Ended' = Ended
        /\ Ended = cycle /\ Ended' = cycle' => UNCHANGED issued
        /\ cycle' # cycle => Ended # cycle'
    BY <1>13, <1>t DEF TriggerCycle, TriggerCheck, TriggerSend, TriggerClear, Ended
  <2> QED
    BY <2>1, <2>2, QuietStep
<1>14. ASSUME NEW r \in Readers, StatusSnapshot(r) PROVE CycleInv'
  <2>1. Progress'
    BY <1>14, <1>t DEF StatusSnapshot, ReadStatus, ReadTracker, CycleInv, Progress, Closed
  <2>2. /\ UNCHANGED <<history, target, committed>> /\ Ended' = Ended
        /\ Ended = cycle /\ Ended' = cycle' => UNCHANGED issued
        /\ cycle' # cycle => Ended # cycle'
    BY <1>14, <1>t DEF StatusSnapshot, ReadStatus, ReadTracker, Ended
  <2> QED
    BY <2>1, <2>2, QuietStep
<1>15. CASE UNCHANGED vars
  <2>1. Progress'
    BY <1>15, <1>t DEF vars, CycleInv, Progress, Closed
  <2>2. /\ UNCHANGED <<history, target, committed>> /\ Ended' = Ended
        /\ Ended = cycle /\ Ended' = cycle' => UNCHANGED issued
        /\ cycle' # cycle => Ended # cycle'
    BY <1>15, <1>t DEF vars, Ended
  <2> QED
    BY <2>1, <2>2, QuietStep
<1> QED
  BY <1>1, <1>2, <1>3, <1>4, <1>5, <1>6, <1>7, <1>8, <1>9, <1>10, <1>11, <1>12, <1>13, <1>14, <1>15
     DEF Next, RunStep, ApplyCycle, FinishCycle, Sleep

LEMMA CycleCorrect == Spec => []CycleInv
<1>1. Init => CycleInv
  BY DEF Init, CycleInv, Progress, Closed, CheckpointsFollowApply, HistoryIsRecentRuns,
         OutcomeMatchesEffects, RunCountsItsRequests, Ended
<1> QED
  BY <1>1, CycleStep, TypeCorrect, PTL DEF Spec

(* GET /v1/runs lists the most recent cycles, newest first, each once.       *)
THEOREM HistoryCorrect == Spec => []HistoryIsRecentRuns
<1>1. CycleInv => HistoryIsRecentRuns
  BY DEF CycleInv
<1> QED
  BY <1>1, CycleCorrect, PTL

(* Succeeded runs applied and committed everything, failed runs committed    *)
(* nothing.                                                                  *)
THEOREM OutcomesCorrect == Spec => []OutcomeMatchesEffects
<1>1. CycleInv => OutcomeMatchesEffects
  BY DEF CycleInv
<1> QED
  BY <1>1, CycleCorrect, PTL

(* Checkpoints never get ahead of the apply, nor the planner of either.      *)
THEOREM CheckpointsCorrect == Spec => []CheckpointsFollowApply
<1>1. CycleInv => CheckpointsFollowApply
  BY DEF CycleInv
<1> QED
  BY <1>1, CycleCorrect, PTL

(* The counters recorded with a run are exactly those of its requests.       *)
THEOREM RunCountsCorrect == Spec => []RunCountsItsRequests
<1>1. CycleInv => RunCountsItsRequests
  BY DEF CycleInv
<1> QED
  BY <1>1, CycleCorrect, PTL

-----------------------------------------------------------------------------
(* Status snapshots. *)

\* The tracker belongs to the cycle the status shows, or, between tracker.Start
\* and the publication of the phase, to the next.
OwnerInv ==
    /\ status.cycle = IF pc \in {"drain", "tracker", "publish"} THEN cycle - 1 ELSE cycle
    /\ tracker.owner = IF pc \in {"drain", "tracker"} THEN cycle - 1 ELSE cycle
    /\ \A r \in Readers : /\ reads[r].cycle <= status.cycle
                          /\ reads[r].pc = "idle" => reads[r].owner >= reads[r].cycle

LEMMA OwnerStep == TypeOK /\ OwnerInv /\ [Next]_vars => OwnerInv'
<1> SUFFICES ASSUME TypeOK, OwnerInv, [Next]_vars PROVE OwnerInv'
  OBVIOUS
<1> USE DEF shared, runnerVars, effects
<1>t. /\ cycle \in Nat /\ status \in Statuses /\ tracker \in Trackers
      /\ reads \in [Readers -> ReadStates]
  BY DEF TypeOK, Cycles
<1>n. /\ status.cycle \in Nat /\ tracker.owner \in Nat
      /\ \A r \in Readers : reads[r].cycle \in Nat /\ reads[r].owner \in Nat
  BY <1>t DEF Statuses, Trackers, ReadStates
<1>1. CASE UNCHANGED <<reads, cycle>> /\ status'.cycle = status.cycle
           /\ tracker'.owner = tracker.owner
           /\ (pc' = pc \/ (pc \notin {"drain", "tracker", "publish"} /\
                            pc' \notin {"drain", "tracker", "publish"}))
  BY <1>1 DEF OwnerInv
<1>2. CASE DrainTriggerSignal
  BY <1>2, <1>t DEF DrainTriggerSignal, OwnerInv
<1>3. CASE TrackerStart
  BY <1>3, <1>t DEF TrackerStart, OwnerInv
<1>4. CASE PublishRunning
  <2>1. status'.cycle = cycle
    BY <1>4, <1>t DEF PublishRunning, Statuses
  <2>2. \A r \in Readers : reads[r].cycle <= cycle
    BY <1>4, <1>n, <1>t DEF PublishRunning, OwnerInv
  <2> QED
    BY <1>4, <2>1, <2>2, <1>t DEF PublishRunning, OwnerInv
<1>5. CASE WakeBySleep \/ WakeByTrigger
  BY <1>5, <1>t DEF WakeBySleep, WakeByTrigger, OwnerInv
<1>6. ASSUME NEW r \in Readers, ReadStatus(r) PROVE OwnerInv'
  BY <1>6, <1>t, <1>n DEF ReadStatus, OwnerInv, ReadStates
<1>7. ASSUME NEW r \in Readers, ReadTracker(r) PROVE OwnerInv'
  <2>1. tracker.owner >= status.cycle
    BY <1>t, <1>n DEF OwnerInv
  <2>2. \A s \in Readers : /\ reads'[s].cycle = reads[s].cycle
                           /\ s # r => reads'[s] = reads[s]
    BY <1>7, <1>t DEF ReadTracker, ReadStates
  <2>3. reads'[r].owner = tracker.owner
    BY <1>7, <1>t DEF ReadTracker, ReadStates
  <2>4. UNCHANGED <<pc, cycle, status, tracker>>
    BY <1>7 DEF ReadTracker
  <2>5. \A s \in Readers : /\ reads'[s].cycle <= status.cycle
                           /\ reads'[s].pc = "idle" => reads'[s].owner >= reads'[s].cycle
    <3> TAKE s \in Readers
    <3>1. CASE s = r
      BY <3>1, <2>1, <2>2, <2>3, <1>n, <1>t DEF OwnerInv
    <3>2. CASE s # r
      BY <3>2, <2>2, <1>n, <1>t DEF OwnerInv
    <3> QED
      BY <3>1, <3>2
  <2> QED
    BY <2>4, <2>5, <1>t DEF OwnerInv
<1>8. ASSUME MakePlan \/ ApplyCycle \/ FinishCycle \/ EnterSleep PROVE OwnerInv'
  <2>1. status.cycle = cycle
    BY <1>8 DEF MakePlan, ApplyCycle, FinishCycle, EnterSleep, FetchRequest, PlanReady,
                PlanFails, ExportSQL, ApplyUpsert, ApplyFullSync, SaveCheckpoints, ApplyStep,
                SaveSQL, CommitCycle, FinishSucceeded, FinishFailed, FailRun, ReturnError, OwnerInv
  <2>2. status'.cycle = status.cycle
    BY <1>8, <2>1, <1>t DEF MakePlan, ApplyCycle, FinishCycle, EnterSleep, FetchRequest,
                PlanReady, PlanFails, ExportSQL, ApplyUpsert, ApplyFullSync, SaveCheckpoints,
                ApplyStep, SaveSQL, CommitCycle, FinishSucceeded, FinishFailed, FinishRun,
                FailRun, ReturnError, Statuses
  <2>3. tracker'.owner = tracker.owner
    BY <1>8, <1>t DEF MakePlan, ApplyCycle, FinishCycle, EnterSleep, FetchRequest, LogRequest,
                PlanReady, PlanFails, ExportSQL, ApplyUpsert, ApplyFullSync, SaveCheckpoints,
                ApplyStep, SaveSQL, CommitCycle, FinishSucceeded, FinishFailed, FinishRun,
                FailRun, EndRun, ReturnError, Trackers
  <2>4. /\ UNCHANGED <<reads, cycle>>
        /\ pc \notin {"drain", "tracker", "publish"} /\ pc' \notin {"drain", "tracker", "publish"}
    BY <1>8 DEF MakePlan, ApplyCycle, FinishCycle, EnterSleep, FetchRequest, PlanReady,
                PlanFails, ExportSQL, ApplyUpsert, ApplyFullSync, SaveCheckpoints, ApplyStep,
                SaveSQL, CommitCycle, FinishSucceeded, FinishFailed, FinishRun, FailRun, ReturnError
  <2> QED
    BY <1>1, <2>2, <2>3, <2>4
<1>9. CASE TimerFires \/ SleepCanceled \/ Cancel \/ UNCHANGED vars
  BY <1>9, <1>1 DEF TimerFires, SleepCanceled, SleepEnds, Cancel, vars
<1>10. ASSUME NEW c \in Callers, TriggerCycle(c) PROVE OwnerInv'
  BY <1>10, <1>1, <1>t DEF TriggerCycle, TriggerCheck, TriggerSend, TriggerClear, Statuses
<1> QED
  BY <1>2, <1>3, <1>4, <1>5, <1>6, <1>7, <1>8, <1>9, <1>10
     DEF Next, RunStep, StartRun, Sleep, StatusSnapshot

(* A snapshot of a running cycle never carries an earlier cycle's counters.  *)
THEOREM SnapshotsCorrect == Spec => []NoStaleCounters
<1>1. Init => OwnerInv
  BY DEF Init, OwnerInv
<1>2. OwnerInv => NoStaleCounters
  BY DEF OwnerInv, NoStaleCounters
<1> QED
  BY <1>1, <1>2, OwnerStep, TypeCorrect, PTL DEF Spec
=============================================================================
