------------------------------- MODULE Runner -------------------------------
(***************************************************************************)
(* The cycle runner (internal/runner/runner.go, request_tracker.go).       *)
(*                                                                         *)
(* One goroutine executes Run: it plans a cycle, applies it, records it in *)
(* the run history and, in periodic mode, sleeps until a timer, a manual   *)
(* trigger or a cancellation wakes it.  Control-API goroutines run         *)
(* concurrently: Callers execute TriggerCycle, Readers StatusSnapshot.     *)
(* The shared state is status and history (one mutex), the request tracker *)
(* (another mutex) and the channel triggerNext (capacity 1).  Each action  *)
(* is one critical section or one channel operation of one goroutine, with *)
(* the local work that leads up to it.                                     *)
(***************************************************************************)
EXTENDS Integers, Sequences

CONSTANTS
    Callers,        \* control-API requests that may call TriggerCycle at once
    Readers,        \* control-API requests that may call StatusSnapshot at once
    HistoryLimit,   \* control.history_limit
    CanFullSync,    \* what the DB target's Capabilities() answers
    MaxCycles,      \* bound: the runner is not followed past this cycle
    MaxRequests,    \* bound: API requests issued while planning one cycle
    MaxTriggers     \* bound: no trigger call begins once this many succeeded

ASSUME ConstantsAssumption ==
    /\ HistoryLimit \in Nat \ {0}     \* config.go applyDefaults: never below 1
    /\ CanFullSync \in BOOLEAN
    /\ MaxCycles \in Nat \ {0}
    /\ MaxRequests \in Nat
    /\ MaxTriggers \in Nat

VARIABLES
    jobMode,     \* cfg.Runtime.CycleEnabled, fixed by New
    pc,          \* where the Run goroutine is
    cycle,       \* its loop variable
    plan,        \* the cycle plan it holds
    runErr,      \* the error it is about to return to Run
    status,      \* syncState.status
    history,     \* syncState.runHistory, newest first
    tracker,     \* RequestTracker; its field owner is the cycle of the last Start
    triggerNext, \* messages in the channel triggerNext, 0 or 1
    sleepDone,   \* what the sleep goroutine has sent to the channel sleepDone
    canceled,    \* whether the process context is canceled
    calls,       \* per caller: progress of its TriggerCycle
    reads,       \* per reader: progress of its StatusSnapshot
    target,      \* per step of applyCyclePlan: the cycles whose step succeeded
    committed,   \* the cycles handed to Planner.CommitCycle
    sqlFile,     \* cycle whose SQL runtime.sql_output_path holds, 0: no file
    issued,      \* history variable: requests of the current cycle
    sends        \* history variable: what became of the trigger messages

runnerVars == <<pc, cycle, plan, runErr>>
shared     == <<status, history, tracker>>
effects    == <<target, committed, sqlFile>>
vars == <<jobMode, pc, cycle, plan, runErr, status, history, tracker, triggerNext,
          sleepDone, canceled, calls, reads, target, committed, sqlFile, issued, sends>>

-----------------------------------------------------------------------------
JobModes == {"one_shot", "periodic"}
Phases   == {"starting", "running_fetch", "running_apply", "sleeping",
             "completed", "failed", "stopping"}
Running  == {"running_fetch", "running_apply"}
Outcomes == {"succeeded", "failed"}   \* no statement of the code uses RunOutcomeCanceled

Points == {"drain", "tracker", "publish", "fetch", "export", "upsert", "fullSync",
           "checkpoints", "saveSQL", "commit", "finishOK", "finishFailed",
           "failRun", "sleep", "wait", "return", "done"}

\* What planning decides about a cycle: which of the three steps of
\* applyCyclePlan have something to do (statements, tables, checkpoints).
Steps  == {"upsert", "fullSync", "checkpoints"}
NoPlan == {}

\* exportCycleSQL returned bytes.
HasSQL(p) == "upsert" \in p \/ "fullSync" \in p

\* Run compares errors with ==, which does not see through the %w of
\* "generate cycle plan: %w" or "failed to write migrations to file: %w".
Wrapped(e) == "other"

Zero == [requests |-> 0, failed |-> 0]

-----------------------------------------------------------------------------
Init ==
    /\ jobMode \in JobModes
    /\ pc = "drain"
    /\ cycle = 1
    /\ plan = NoPlan
    /\ runErr = "nil"
    /\ status = [phase |-> "starting", cycle |-> 0, nextRun |-> "nil", requests |-> 0,
                 failed |-> 0, lastError |-> "none", lastSuccess |-> 0]
    /\ history = <<>>
    /\ tracker = [active |-> FALSE, requests |-> 0, failed |-> 0, owner |-> 0]
    /\ triggerNext = 0
    /\ sleepDone = "empty"
    /\ canceled = FALSE
    /\ calls = [c \in Callers |-> [pc |-> "idle", since |-> 0, reply |-> "none"]]
    /\ reads = [r \in Readers |-> [pc |-> "idle", phase |-> "starting", cycle |-> 0, owner |-> 0]]
    /\ target = [upsert |-> {}, fullSync |-> {}, checkpoints |-> {}]
    /\ committed = {}
    /\ sqlFile = 0
    /\ issued = Zero
    /\ sends = [accepted |-> 0, woke |-> 0, drained |-> 0]

-----------------------------------------------------------------------------
(* startRun: three separate steps, in this order. *)

DrainWithoutTrackerStart ==   \* mutant: startRun forgets tracker.Start
    /\ pc = "drain"
    /\ triggerNext' = 0
    /\ sends' = [sends EXCEPT !.drained = @ + triggerNext]
    /\ issued' = Zero
    /\ pc' = "publish"
    /\ UNCHANGED <<jobMode, cycle, plan, runErr, shared, sleepDone, canceled, calls,
                   reads, effects>>

DrainTriggerSignal ==
    /\ pc = "drain"
    /\ triggerNext' = 0
    /\ sends' = [sends EXCEPT !.drained = @ + triggerNext]
    /\ issued' = Zero
    /\ pc' = "tracker"
    /\ UNCHANGED <<jobMode, cycle, plan, runErr, shared, sleepDone, canceled, calls,
                   reads, effects>>

TrackerStartKeepsCounts ==   \* mutant: no reset of the counters
    /\ pc = "tracker"
    /\ tracker' = [tracker EXCEPT !.active = TRUE, !.owner = cycle]
    /\ pc' = "publish"
    /\ UNCHANGED <<jobMode, cycle, plan, runErr, status, history, triggerNext, sleepDone,
                   canceled, calls, reads, effects, issued, sends>>

TrackerStart ==
    /\ pc = "tracker"
    /\ tracker' = [active |-> TRUE, requests |-> 0, failed |-> 0, owner |-> cycle]
    /\ pc' = "publish"
    /\ UNCHANGED <<jobMode, cycle, plan, runErr, status, history, triggerNext, sleepDone,
                   canceled, calls, reads, effects, issued, sends>>

PublishRunning ==
    /\ pc = "publish"
    /\ status' = [status EXCEPT !.phase = "running_fetch", !.cycle = cycle,
                                !.nextRun = "nil", !.requests = 0, !.failed = 0,
                                !.lastError = "none"]
    /\ pc' = "fetch"
    /\ UNCHANGED <<jobMode, cycle, plan, runErr, history, tracker, triggerNext, sleepDone,
                   canceled, calls, reads, effects, issued, sends>>

(* GenerateCyclePlan: the connector reports every request to the tracker,   *)
(* which counts it while a run is active; planning ends with a plan or an   *)
(* error.  An interrupted database call makes it return context.Canceled.   *)

LogRequestTwice(failed) ==   \* mutant: the tracker is registered twice
    tracker' = [tracker EXCEPT !.requests = @ + 2]

LogRequest(failed) ==
    tracker' = IF tracker.active
               THEN [tracker EXCEPT !.requests = @ + 1, !.failed = @ + failed]
               ELSE tracker

\* failed is 1 for an error or a status outside 200..399, else 0.
FetchRequest ==
    /\ pc = "fetch"
    /\ issued.requests < MaxRequests
    /\ \E failed \in {0, 1} :
          /\ LogRequest(failed)
          /\ issued' = [issued EXCEPT !.requests = @ + 1, !.failed = @ + failed]
    /\ UNCHANGED <<jobMode, runnerVars, status, history, triggerNext, sleepDone, canceled,
                   calls, reads, effects, sends>>

PlanReady ==
    /\ pc = "fetch"
    /\ \E p \in SUBSET Steps :
          IF "fullSync" \in p /\ ~CanFullSync
          THEN plan' = NoPlan /\ pc' = "failRun" /\ runErr' = "other"
          ELSE plan' = p /\ pc' = "export" /\ UNCHANGED runErr
    /\ UNCHANGED <<jobMode, cycle, shared, triggerNext, sleepDone, canceled, calls, reads,
                   effects, issued, sends>>

PlanFailsUnrecorded ==   \* mutant: a planning error returned without failRun
    /\ pc = "fetch"
    /\ runErr' = Wrapped("other")
    /\ plan' = NoPlan
    /\ pc' = "return"
    /\ UNCHANGED <<jobMode, cycle, shared, triggerNext, sleepDone, canceled, calls, reads,
                   effects, issued, sends>>

PlanFails ==
    /\ pc = "fetch"
    /\ \E e \in {"other"} \cup (IF canceled THEN {"canceled"} ELSE {}) :
          runErr' = Wrapped(e)
    /\ plan' = NoPlan
    /\ pc' = "failRun"
    /\ UNCHANGED <<jobMode, cycle, shared, triggerNext, sleepDone, canceled, calls, reads,
                   effects, issued, sends>>

-----------------------------------------------------------------------------
(* exportCycleSQL, then updateApplyMetrics. *)

ExportSQL ==
    /\ pc = "export"
    /\ \/ /\ status' = IF status.cycle = cycle
                       THEN [status EXCEPT !.phase = "running_apply"] ELSE status
          /\ pc' = "upsert"
          /\ UNCHANGED runErr
       \/ /\ runErr' = "other"
          /\ pc' = "failRun"
          /\ UNCHANGED status
    /\ UNCHANGED <<jobMode, cycle, plan, history, tracker, triggerNext, sleepDone, canceled,
                   calls, reads, effects, issued, sends>>

(* applyCyclePlan: Apply, ApplyFullSync, SaveCheckpoints.  A step with      *)
(* nothing to do succeeds without reaching the database; the first that     *)
(* fails ends the apply.                                                    *)

ApplyStepIgnoresError(step, next) ==   \* mutant: the error of a step is dropped
    /\ pc = step
    /\ pc' = next
    /\ \/ target' = [target EXCEPT ![step] = @ \cup {cycle}]
       \/ step \in plan /\ UNCHANGED target
    /\ UNCHANGED <<jobMode, cycle, plan, runErr, shared, triggerNext, sleepDone, canceled,
                   calls, reads, committed, sqlFile, issued, sends>>

ApplyStep(step, next) ==
    /\ pc = step
    /\ \/ /\ target' = [target EXCEPT ![step] = @ \cup {cycle}]
          /\ pc' = next
       \/ /\ step \in plan
          /\ pc' = "saveSQL"
          /\ UNCHANGED target
    /\ UNCHANGED <<jobMode, cycle, plan, runErr, shared, triggerNext, sleepDone, canceled,
                   calls, reads, committed, sqlFile, issued, sends>>

CheckpointsBeforeFullSync == ApplyStep("upsert", "checkpoints")   \* mutant: order swapped

ApplyUpsert     == ApplyStep("upsert", "fullSync")
ApplyFullSync   == ApplyStep("fullSync", "checkpoints")
SaveCheckpoints == ApplyStep("checkpoints", "commit")

\* The apply failed: keep the cycle's SQL, if there is any, in a file.
SaveSQL ==
    /\ pc = "saveSQL"
    /\ \/ /\ sqlFile' = IF HasSQL(plan) THEN cycle ELSE sqlFile
          /\ pc' = "finishFailed"
          /\ UNCHANGED runErr
       \/ /\ HasSQL(plan)
          /\ runErr' = Wrapped("other")
          /\ pc' = "failRun"
          /\ UNCHANGED sqlFile
    /\ UNCHANGED <<jobMode, cycle, plan, shared, triggerNext, sleepDone, canceled, calls,
                   reads, target, committed, issued, sends>>

CommitCycle ==
    /\ pc = "commit"
    /\ committed' = committed \cup {cycle}
    /\ pc' = "finishOK"
    /\ UNCHANGED <<jobMode, cycle, plan, runErr, shared, triggerNext, sleepDone, canceled,
                   calls, reads, target, sqlFile, issued, sends>>

-----------------------------------------------------------------------------
(* finishRun and failRun: stop the tracker and record the run. *)

\* append([]RunSummary{run}, runHistory...), cut to the limit
RecordedOldestFirst(run) ==   \* mutant: appended at the wrong end
    SubSeq(Append(history, run), 1, IF Len(history) < HistoryLimit THEN Len(history) + 1
                                    ELSE HistoryLimit)

Recorded(run) ==
    LET all == <<run>> \o history
    IN  SubSeq(all, 1, IF Len(all) > HistoryLimit THEN HistoryLimit ELSE Len(all))

Summary(outcome) == [cycle |-> cycle, outcome |-> outcome,
                     requests |-> tracker.requests, failed |-> tracker.failed]

\* The part of the state update that both functions make.
EndRun(outcome) ==
    /\ tracker' = [tracker EXCEPT !.active = FALSE]
    /\ history' = Recorded(Summary(outcome))

FinishedPhase(outcome) ==
    CASE jobMode = "periodic"    -> status.phase
      [] outcome = "succeeded"   -> "completed"
      [] OTHER                   -> "failed"

FinishRun(outcome) ==
    /\ EndRun(outcome)
    /\ status' = [status EXCEPT !.phase = FinishedPhase(outcome), !.cycle = cycle,
                                !.requests = tracker.requests, !.failed = tracker.failed,
                                !.lastError = IF outcome = "failed" THEN "set" ELSE "none",
                                !.lastSuccess = IF outcome = "succeeded" THEN cycle ELSE @]
    /\ pc' = IF jobMode = "periodic" THEN "sleep" ELSE "done"
    /\ plan' = NoPlan
    /\ UNCHANGED <<jobMode, cycle, runErr, triggerNext, sleepDone, canceled, calls,
                   reads, effects, issued, sends>>

FinishSucceeded == pc = "finishOK" /\ FinishRun("succeeded")
FinishFailed    == pc = "finishFailed" /\ FinishRun("failed")

FailRun ==
    /\ pc = "failRun"
    /\ EndRun("failed")
    /\ status' = [status EXCEPT !.phase = "failed", !.cycle = cycle,
                                !.requests = tracker.requests, !.failed = tracker.failed,
                                !.lastError = "set"]
    /\ pc' = "return"
    /\ plan' = NoPlan
    /\ UNCHANGED <<jobMode, cycle, runErr, triggerNext, sleepDone, canceled, calls,
                   reads, effects, issued, sends>>

\* Run receives an error: setStopping or markFailure, then it returns.
ReturnError ==
    /\ pc = "return"
    /\ status' = IF jobMode = "periodic" /\ runErr = "canceled"
                 THEN [status EXCEPT !.phase = "stopping", !.nextRun = "nil"]
                 ELSE [status EXCEPT !.phase = "failed", !.lastError = "set"]
    /\ pc' = "done"
    /\ UNCHANGED <<jobMode, cycle, plan, runErr, history, tracker, triggerNext, sleepDone,
                   canceled, calls, reads, effects, issued, sends>>

-----------------------------------------------------------------------------
(* Sleeping between periodic cycles. *)

EnterSleepDrains ==   \* mutant: pending triggers dropped when the sleep begins
    /\ pc = "sleep"
    /\ status' = [status EXCEPT !.phase = "sleeping", !.nextRun = "set"]
    /\ sleepDone' = "empty"
    /\ triggerNext' = 0
    /\ pc' = "wait"
    /\ UNCHANGED <<jobMode, cycle, plan, runErr, history, tracker, canceled,
                   calls, reads, effects, issued, sends>>

EnterSleep ==
    /\ pc = "sleep"
    /\ status' = [status EXCEPT !.phase = "sleeping", !.nextRun = "set"]
    /\ sleepDone' = "empty"
    /\ pc' = "wait"
    /\ UNCHANGED <<jobMode, cycle, plan, runErr, history, tracker, triggerNext, canceled,
                   calls, reads, effects, issued, sends>>

\* The sleep goroutine: the timer fires, or the context ends.
SleepEnds(result) ==
    /\ pc = "wait"
    /\ sleepDone = "empty"
    /\ sleepDone' = result
    /\ UNCHANGED <<jobMode, runnerVars, shared, triggerNext, canceled, calls, reads,
                   effects, issued, sends>>

TimerFires    == SleepEnds("nil")
SleepCanceled == canceled /\ SleepEnds("canceled")

\* waitForNextCycle: a select over two channels takes either that is ready.
WakeIgnoresCancel ==   \* mutant: the error of the sleep is ignored
    /\ pc = "wait"
    /\ sleepDone # "empty"
    /\ cycle < MaxCycles
    /\ cycle' = cycle + 1
    /\ pc' = "drain"
    /\ UNCHANGED <<jobMode, plan, runErr, shared, triggerNext, sleepDone, canceled, calls, reads,
                   effects, issued, sends>>

WakeBySleep ==
    /\ pc = "wait"
    /\ \/ /\ sleepDone = "nil"
          /\ cycle < MaxCycles
          /\ cycle' = cycle + 1
          /\ pc' = "drain"
          /\ UNCHANGED runErr
       \/ /\ sleepDone = "canceled"
          /\ runErr' = "canceled"
          /\ pc' = "return"
          /\ UNCHANGED cycle
    /\ UNCHANGED <<jobMode, plan, shared, triggerNext, sleepDone, canceled, calls, reads,
                   effects, issued, sends>>

WakeByTrigger ==
    /\ pc = "wait"
    /\ triggerNext = 1
    /\ cycle < MaxCycles
    /\ triggerNext' = 0
    /\ sends' = [sends EXCEPT !.woke = @ + 1]
    /\ cycle' = cycle + 1
    /\ pc' = "drain"
    /\ UNCHANGED <<jobMode, plan, runErr, shared, sleepDone, canceled, calls, reads,
                   effects, issued>>

-----------------------------------------------------------------------------
(* TriggerCycle: check the mode and a snapshot of the phase; a send that    *)
(* does not block; clear NextRunAt.                                         *)

\* The last cycle whose startRun has begun (history only: field since of a call).
Begun == IF pc = "drain" THEN cycle - 1 ELSE cycle

TriggerCheck(c) ==
    /\ calls[c].pc = "idle"
    /\ sends.accepted < MaxTriggers
    /\ calls' = [calls EXCEPT ![c] =
          CASE jobMode # "periodic"        -> [@ EXCEPT !.reply = "unsupported"]
            [] status.phase # "sleeping"   -> [@ EXCEPT !.reply = "unavailable"]
            [] OTHER                        -> [@ EXCEPT !.pc = "send", !.reply = "none"]]
    /\ UNCHANGED <<jobMode, runnerVars, shared, triggerNext, sleepDone, canceled, reads,
                   effects, issued, sends>>

TriggerSendFlag(c) ==   \* mutant: a flag that is set, whether or not it was set before
    /\ calls[c].pc = "send"
    /\ triggerNext' = 1
    /\ sends' = [sends EXCEPT !.accepted = @ + 1]
    /\ calls' = [calls EXCEPT ![c].pc = "clear", ![c].since = Begun]
    /\ UNCHANGED <<jobMode, runnerVars, shared, sleepDone, canceled, reads, effects, issued>>

TriggerSend(c) ==
    /\ calls[c].pc = "send"
    /\ IF triggerNext = 0
       THEN /\ triggerNext' = 1
            /\ sends' = [sends EXCEPT !.accepted = @ + 1]
            /\ calls' = [calls EXCEPT ![c].pc = "clear", ![c].since = Begun]
       ELSE /\ calls' = [calls EXCEPT ![c].pc = "idle", ![c].reply = "pending"]
            /\ UNCHANGED <<triggerNext, sends>>
    /\ UNCHANGED <<jobMode, runnerVars, shared, sleepDone, canceled, reads, effects, issued>>

TriggerClear(c) ==
    /\ calls[c].pc = "clear"
    /\ status' = [status EXCEPT !.nextRun = "nil"]
    /\ calls' = [calls EXCEPT ![c].pc = "idle", ![c].reply = "accepted"]
    /\ UNCHANGED <<jobMode, runnerVars, history, tracker, triggerNext, sleepDone, canceled,
                   reads, effects, issued, sends>>

(* StatusSnapshot: copy the status; if it shows a running cycle, replace    *)
(* its counters by the tracker's, read under the tracker's own lock.        *)

ReadStatus(r) ==
    /\ reads[r].pc = "idle"
    /\ reads' = [reads EXCEPT ![r] =
          [pc |-> IF status.phase \in Running THEN "tracker" ELSE "idle",
           phase |-> status.phase, cycle |-> status.cycle, owner |-> status.cycle]]
    /\ UNCHANGED <<jobMode, runnerVars, shared, triggerNext, sleepDone, canceled, calls,
                   effects, issued, sends>>

ReadTracker(r) ==
    /\ reads[r].pc = "tracker"
    /\ reads' = [reads EXCEPT ![r].pc = "idle", ![r].owner = tracker.owner]
    /\ UNCHANGED <<jobMode, runnerVars, shared, triggerNext, sleepDone, canceled, calls,
                   effects, issued, sends>>

\* SIGINT or SIGTERM.
Cancel ==
    /\ ~canceled
    /\ canceled' = TRUE
    /\ UNCHANGED <<jobMode, runnerVars, shared, triggerNext, sleepDone, calls, reads,
                   effects, issued, sends>>

-----------------------------------------------------------------------------
StartRun   == DrainTriggerSignal \/ TrackerStart \/ PublishRunning
MakePlan   == FetchRequest \/ PlanReady \/ PlanFails
ApplyCycle == ExportSQL \/ ApplyUpsert \/ ApplyFullSync \/ SaveCheckpoints \/ SaveSQL \/ CommitCycle
FinishCycle == FinishSucceeded \/ FinishFailed \/ FailRun \/ ReturnError
Sleep      == EnterSleep \/ WakeBySleep \/ WakeByTrigger
RunStep    == StartRun \/ MakePlan \/ ApplyCycle \/ FinishCycle \/ Sleep

TriggerCycle(c)   == TriggerCheck(c) \/ TriggerSend(c) \/ TriggerClear(c)
StatusSnapshot(r) == ReadStatus(r) \/ ReadTracker(r)

Next ==
    \/ RunStep
    \/ TimerFires
    \/ SleepCanceled
    \/ \E c \in Callers : TriggerCycle(c)
    \/ \E r \in Readers : StatusSnapshot(r)
    \/ Cancel

Spec == Init /\ [][Next]_vars

\* The Run goroutine is scheduled again and every call it makes returns, the
\* sleep goroutine sees the end of its context, and a trigger call that began
\* goes on.  Nothing obliges a client to call or a signal to arrive, and the
\* timer may be set for any length of time: it is not assumed to fire.
Fairness ==
    /\ WF_vars(RunStep)
    /\ WF_vars(SleepCanceled)
    /\ \A c \in Callers : WF_vars(TriggerSend(c) \/ TriggerClear(c))

FairSpec == Spec /\ Fairness

-----------------------------------------------------------------------------
(* Properties *)

Cycles   == 1..MaxCycles
Requests == 0..MaxRequests
Statuses == [phase : Phases, cycle : 0..MaxCycles, nextRun : {"nil", "set"}, requests : Requests,
             failed : Requests, lastError : {"none", "set"}, lastSuccess : 0..MaxCycles]
RunSummaries == [cycle : Cycles, outcome : Outcomes, requests : Requests, failed : Requests]
Trackers  == [active : BOOLEAN, requests : Requests, failed : Requests, owner : 0..MaxCycles]
CallStates == [pc : {"idle", "send", "clear"}, since : 0..MaxCycles,
               reply : {"none", "unsupported", "unavailable", "pending", "accepted"}]
ReadStates == [pc : {"idle", "tracker"}, phase : Phases, cycle : 0..MaxCycles,
               owner : 0..MaxCycles]
Effects == [upsert : SUBSET Cycles, fullSync : SUBSET Cycles, checkpoints : SUBSET Cycles]
Counts  == [requests : Requests, failed : Requests]
Ledgers == [accepted : Nat, woke : Nat, drained : Nat]

\* Every variable has its type (Status, RunSummary, RequestTracker, the two
\* channels, the local variables of Run, TriggerCycle and StatusSnapshot).
TypeOK ==
    /\ jobMode \in JobModes
    /\ pc \in Points
    /\ cycle \in Cycles
    /\ plan \in SUBSET Steps
    /\ runErr \in {"nil", "canceled", "other"}
    /\ status \in Statuses
    /\ history \in Seq(RunSummaries)
    /\ tracker \in Trackers
    /\ triggerNext \in {0, 1}
    /\ sleepDone \in {"empty", "nil", "canceled"}
    /\ canceled \in BOOLEAN
    /\ calls \in [Callers -> CallStates]
    /\ reads \in [Readers -> ReadStates]
    /\ target \in Effects
    /\ committed \in SUBSET Cycles
    /\ sqlFile \in 0..MaxCycles
    /\ issued \in Counts
    /\ sends \in Ledgers

\* The cycles that have ended: all before the current one, and the current
\* one once finishRun or failRun has run.
Ended == IF pc \in {"sleep", "wait", "return", "done"} THEN cycle ELSE cycle - 1

\* The run history (GET /v1/runs) lists the most recent cycles, newest first,
\* each exactly once and none left out, and never more than history_limit:
\* on no path through a cycle are finishRun and failRun both called, or
\* neither.
HistoryIsRecentRuns ==
    /\ Len(history) = IF Ended < HistoryLimit THEN Ended ELSE HistoryLimit
    /\ \A i \in 1..Len(history) : history[i].cycle = Ended - i + 1

\* A run listed as succeeded had its rows upserted, its tables reconciled, its
\* checkpoints saved and its planner state committed; a run listed as failed
\* left the planner state alone, so that the next cycle plans from the state
\* before it.
OutcomeMatchesEffects ==
    \A i \in 1..Len(history) :
        LET c == history[i].cycle IN
        IF history[i].outcome = "succeeded"
        THEN c \in committed /\ c \in target.upsert \cap target.fullSync \cap target.checkpoints
        ELSE c \notin committed

\* Incremental checkpoints advance only after the DB apply succeeded, and the
\* planner state only after the checkpoints (applyCyclePlan, then CommitCycle).
CheckpointsFollowApply ==
    /\ target.checkpoints \subseteq target.upsert \cap target.fullSync
    /\ committed \subseteq target.checkpoints

\* The counters recorded with a run are those of the requests its own cycle
\* issued: none of an earlier cycle, none lost.
RunCountsItsRequests ==
    Ended = cycle =>
        [requests |-> history[1].requests, failed |-> history[1].failed] = issued

\* A status that shows a running cycle never carries the request counters of
\* an earlier cycle, although StatusSnapshot reads phase and counters under
\* two locks: startRun resets the tracker before it publishes the phase.
NoStaleCounters ==
    \A r \in Readers : reads[r].pc = "idle" => reads[r].owner >= reads[r].cycle

\* Every message sent to triggerNext is still there, or woke the runner once,
\* or was drained at the start of a cycle: none starts two cycles and no
\* cycle starts early without one.
TriggersConserved == sends.accepted = sends.woke + sends.drained + triggerNext

\* A cycle the runner begins is recorded in the history, however it ends.
CycleEnds ==
    \A n \in 1..MaxCycles : cycle = n ~> history # <<>> /\ history[1].cycle >= n

\* A trigger that TriggerCycle accepted makes a cycle begin after it, without
\* the help of the timer, unless Run returns first: whether the message finds
\* the runner asleep, waking up or already in the next cycle, it is drained
\* only by a cycle that has yet to fetch.
TriggerStartsCycle ==
    \A c \in Callers, n \in 1..(MaxCycles - 1) :
        calls[c].pc = "clear" /\ calls[c].since = n ~> Begun > n \/ pc = "done"

\* Once the context is canceled Run returns: at the latest the next sleep
\* ends it (unless the timer fires first, where the bound stops the model).
CancelStopsRun ==
    canceled ~> pc = "done" \/ (cycle = MaxCycles /\ sleepDone = "nil")

-----------------------------------------------------------------------------
(* What the documentation says and the code does not do. *)

\* README: "If a cycle fails, the cycle SQL snapshot is written ... and the
\* process keeps polling".  So a periodic runner nobody stops never fails.
FailedCycleKeepsPolling ==
    jobMode = "periodic" /\ ~canceled => status.phase # "failed"
=============================================================================
