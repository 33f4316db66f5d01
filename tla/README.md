# Verification of YetAnotherApiParser

TLA+ models of the parser, the TLC runs that check them and theorems about them
that TLAPS checks. The reference is the Go code; every definition that stands
for code names its lines in `PROJECT.json` under `map`.

Run everything in this directory:

    tlc -workers 2 -config RunnerCycles.cfg Runner
    tlc -workers 2 -config SyncFaults.cfg MCSync
    tlapm PlannerProofs.tla

and likewise for the other runs (table in section 2) and for `RunnerProofs`,
`ResumeProofs`, `HeadProofs`, `SyncProofs`, `ConnectorProofs`, `CycleProofs` and
`Counting`.

## 1. The system

The program reads a REST API described by an OpenAPI document with `x-` hints
and keeps the tables of a database in step with it, once or in periodic cycles.

| Component | State | Operations | Talks to |
|---|---|---|---|
| Cycle runner, `internal/runner` | status, run history (one mutex), `triggerNext` (channel of one), request tracker (its own mutex) | `Run`, `TriggerCycle`, `StatusSnapshot`, `RunHistory` | calls planner and DB target; called by the control API and by the connector (as request logger) |
| Cycle planner, `internal/core/service.go` | `responseValues`, `completedOneShotOps`; per cycle the working values, the fetched set, the plan | `GenerateCyclePlan`, `CommitCycle` | calls the connector and `LoadCheckpoint` |
| Resume pagination (`fetchAndBuildInsertOps`) | position in the pages; the saved checkpoint | fetch pages, build checkpoint | connector |
| Head-watermark increments (`fetchAndBuildHeadWatermarkInsertOps`) | maximal watermark and boundary keys of the cycle; the saved checkpoint | fetch and filter pages, build checkpoint | connector |
| Full-sync plan, nullability (`buildFullSyncPlan`, `relaxPlanNullability`) | none (pure) | rows by key, columns relaxed | planner |
| Row extraction (classic and marked) | none (pure) | rows, references and link rows of a JSON document | planner |
| Spec validation (`prepareSpec`) | the compiled operations | accept or refuse a spec | planner |
| PostgreSQL target | tables, checkpoint table | `Apply` (no transaction), `ApplyFullSync`, `SaveCheckpoints` (transactions), `LoadCheckpoint` | database |
| ClickHouse target | the same | the same, none in a transaction | database |
| HTTP connector, rate limiter | token bucket | `Fetch` with retries, `Wait` | API, request loggers |
| Control API server | none | five handlers | runner |
| `apictl` | none | status, runs, logs, trigger, docker commands | control API |
| Configuration, registries, OpenAPI loader, logs | none that others read | load, look up, append | - |

Interaction: `Run` is one goroutine; the planner, the connector and the target
run inside it. HTTP handlers of the control API are further goroutines; the
sleep between cycles is one more, and the signal handler cancels the context.

Hard behaviours, and what makes each component right:

* Runner: a trigger races with the timer, with the drain at the start of a cycle
  and with other triggers; a status is read under two locks; any step of a cycle
  may fail after others have taken effect; a cancellation may come anywhere. It
  is right when the history tells what happened to the database, when an accepted
  trigger leads to a cycle, and when `Run` ends.
* Planner: operations feed each other, in an order given by their paths only;
  requests fail one by one; a plan may be dropped; the memory is lost by a
  restart while checkpoints are not. It is right when planning reaches a
  fixpoint, when nothing known is left out, when a full-reload plan is a whole
  snapshot and when no checkpoint covers a row that is not written.
* Pagination: what is fetched next depends on a checkpoint of an API that has
  changed since. It is right when every row at or before the checkpoint is stored.
* Targets: statements fail half way, without or with a transaction. They are
  right when the next cycle repairs what the failed one left.
* Connector: retries, back-off and the limiter must respect their bounds.

The full list of hazards, with lines, is in `PROJECT.json`.

## 2. The modules

| Module | What it is | Composed of |
|---|---|---|
| `Runner`, `RunnerProofs` | a periodic or one-shot process and its concurrent callers | - |
| `CyclePlanner`, `MCPlanner`, `PlannerProofs` | the fixpoint over dependent operations, one-shot state, the two plans, the commit | - |
| `ResumePagination`, `MCResume`, `ResumeProofs` | one resuming operation page by page, and its checkpoint | - |
| `HeadWatermark`, `MCHead`, `HeadProofs` | one head-watermark operation page by page, and its checkpoint | - |
| `SyncSystem`, `MCSync`, `SyncProofs` | planner, runner and database target composed: a cycle statement by statement | implements `SyncLedger` |
| `SyncLedger` | abstract specification: what a reader of the database may rely on | - |
| `Connector`, `ConnectorProofs` | `Fetch` with retries and the token bucket, in time | - |
| `PlanOperations` | JSON values, and the operations that create tables and insert rows | - |
| `Extraction` | answers to rows, references, links and published values | extends `PlanOperations` |
| `FullSyncPlan` | rows to the tables of a full sync | extends `PlanOperations` |
| `CycleData`, `CycleProofs` | the data of one cycle, from answers to the full-sync plan; what an answer is turned into is a parameter | extends `FullSyncPlan` |
| `CycleRecords`, `MCData` | the same with the operators of `Extraction`: which records the plan holds | extends `CycleData` and `Extraction` |
| `Counting` | lemmas on sets of natural numbers that the proofs share | - |

`CyclePlanner` has the control of `GenerateCyclePlan` and takes an answer as a
set of keys; the pagination modules open up what one combination goes through,
`CycleData` and `CycleRecords` what one answer goes through, and `SyncSystem` what the finished plan
goes through in the database, with a small planner in front of it. The `MC`
modules hold the instances that TLC checks.

| Run | Module | Expected |
|---|---|---|
| `runner_cycles`, `runner_triggers` | `Runner` | pass |
| `planner_tangled`, `planner_sorted` | `MCPlanner` | pass |
| `resume_pages` | `MCResume` | pass |
| `head_pages` | `MCHead` | pass |
| `sync_faults` | `MCSync` | pass |
| `connector_fetch` | `Connector` | pass |
| `cycle_data` | `MCData` | pass |
| `runner_keeps_polling` | `Runner` | violation (finding 1) |
| `planner_failed_reload` | `MCPlanner` | violation (finding 2) |
| `resume_null_cursor` | `MCResume` | violation (finding 3) |

Each configuration has the run's name in camel case (`RunnerCycles.cfg`). What the
project could still grow by: a second process on one database.

## 3. `Runner`

One action is one critical section or one channel operation of one goroutine,
with the local work that leads up to it.

| Code | Model |
|---|---|
| `Run`, `runOneShot`, `runPeriodicCycle`, `runPeriodic` loop | `pc`, `cycle`, `plan`, `runErr` |
| `startRun` (drain, `tracker.Start`, publish) | `DrainTriggerSignal`, `TrackerStart`, `PublishRunning` |
| `buildCyclePlan` | `FetchRequest` (connector logging to the tracker), `PlanReady`, `PlanFails` |
| `exportCycleSQL`, `updateApplyMetrics` | `ExportSQL` |
| `applyCyclePlan` | `ApplyUpsert`, `ApplyFullSync`, `SaveCheckpoints`; the first that fails leads to `SaveSQL` |
| `Planner.CommitCycle` | `CommitCycle` |
| `finishRun`, `failRun`, `markFailure`, `setStopping` | `FinishSucceeded`, `FinishFailed`, `FailRun`, `ReturnError` |
| the sleep goroutine, `waitForNextCycle` | `EnterSleep`, `TimerFires`, `SleepCanceled`, `WakeBySleep`, `WakeByTrigger` |
| `TriggerCycle` | `TriggerCheck`, `TriggerSend`, `TriggerClear` per caller |
| `StatusSnapshot` | `ReadStatus`, `ReadTracker` per reader |
| SIGINT, SIGTERM | `Cancel` |

Abstractions: a plan is the set of steps of `applyCyclePlan` that have something
to do; `target` and `committed` record which cycles' steps took effect; an error
is `canceled`, `other` or none. `Wrapped` says what `%w` does to the comparisons
`err == context.Canceled` in `Run`: it defeats them, so that a cancellation while
planning ends in the phase `failed`. History variables: `issued` (requests of the
cycle), `sends` (what became of trigger messages), the `owner` of the tracker.

| Run | Question | Bounds |
|---|---|---|
| `runner_cycles` | do history, effects and status agree on every path of both job modes, and can a reader see counters of another cycle | 3 cycles, history of 2, 1 request, 1 reader, a target with full sync |
| `runner_triggers` | where do trigger messages go, do cycles end, do triggers start one, does a cancellation end `Run` | 1 caller, 2 triggers, 3 cycles, a target without full sync |
| `runner_keeps_polling` (violation) | README:122: a failed cycle leaves the process polling | |

Three cycles let a history of two overflow and let a late trigger of one sleep
meet the cycle after it and the next sleep; two triggers of one caller let the
second meet the message of the first, or its sleep. Callers in any number are the
subject of the theorem `TriggersAreConserved`. A trigger that has passed its check
may send its message after the timer has woken the runner (runner.go:178): a
trigger can be queued while the runner is busy, although README:414 and
tests.md:43 speak of a refusal. The properties allow it, and ask that the message
starts a cycle or is followed by one. Fairness: `Run`, the sleep
goroutine at the end of its context and a trigger call that has begun are
scheduled; the timer is not assumed to fire, no client has to call and no signal
has to come. At the bound on cycles the model stops, which `CancelStopsRun` and
`TriggerStartsCycle` name.

### Proofs (`RunnerProofs`)

For all values of the constants that satisfy `ConstantsAssumption`:

* `TypeCorrect` - the type invariant;
* `TriggersAreConserved` - each message sent woke the runner, was drained or waits;
* `HistoryCorrect`, `OutcomesCorrect`, `CheckpointsCorrect` - the history is the
  list of the recent cycles, its outcomes match the effects, and checkpoints
  follow the rows and planner state follows the checkpoints;
* `RunCountsCorrect` - the counters of a run are those of its own requests;
* `SnapshotsCorrect` - no status shows counters of an earlier cycle.

The middle four are not inductive: what a finished cycle did depends on where
the current one is. The strengthening `CycleInv` says, for each value of `pc`,
which effects cycle `cycle` has had so far and that later cycles have had none,
that the tracker counts the requests issued while it is active, and that each
history entry matches the effects of its cycle; `EndStep` treats the two
actions that record a run, `CycleStep` all others, and `QuietStep` those that
leave the runner's variables alone. `SnapshotsCorrect` needs that the tracker's
owner never lags behind the published cycle (`OwnerStep`).

## 4. `CyclePlanner`

| Code | Model |
|---|---|
| `s.operations`, sorted by path | `1..N` with `Mode`, `Params`, `Filter`, `Publishes` |
| `responseValues`, `completedOneShotOps` | the same; `work`, `fetched`, `shouldContinue`, `todo` are the locals |
| loop head: fetched, completed, not ready | `SkipFetched`, `SkipCompleted`, `SkipNotReady` |
| create operations and combinations | `BeginOperation`, `Combos`, `EffectiveValues` |
| one combination | `SkipCombination` (no auth), `FetchSucceeds`, `FetchFails`, `PlanError` |
| end of an operation, a pass, the loop | `FinishOperation`, `NextPass`, `FinishPlan` |
| the runner's use of the plan | `SaveCheckpoints`, `CommitCycle`, `DropPlan` |
| process death | `Restart` |
| the API (external) | `served`, `RowAppears`, `RowDisappears` |

A row is its key, which is also the value it publishes; the row of an operation
with parameters is found under the combination of its own key. A checkpoint is the
set of rows it covers and one answer stands for all pages; what pages and resume
values do is the subject of `ResumePagination` and `HeadWatermark`. Parameters
with literal values are left out: they only multiply combinations.

| Run | Question | Bounds |
|---|---|---|
| `planner_tangled` | does planning end (`PlanEnds`) without going round in a circle (`PlanMovesOn`), with no repetition, no known value lost, one-shot once, checkpoints backed by rows | 3 operations (one of each mode, a consumer before its producer, a cycle of dependencies), 2 keys, 1 change of the API, 2 failures, 1 restart |
| `planner_sorted` | is a full-reload plan a whole snapshot, does a cycle feed its consumers | 4 operations, producers first, one without auth, no failing request, 2 changes, a dropped plan, a restart |
| `planner_failed_reload` (violation) | README:127 | 1 operation |

Three operations are the least that have a consumer between two producers, or a
chain through every mode; two keys distinguish a value known before from one
that is new. A restart during any step loses the memory and keeps checkpoints.
`SnapshotComplete` and `FeedsDownstream` hold under the conditions of
`planner_sorted`. Without them the first fails as `planner_failed_reload` shows,
and the second because an operation is fetched as soon as each parameter has one
value (service.go:268-278): what a later producer publishes waits for the next
cycle (`KnownValuesRequested`), and a one-shot consumer, which the commit
completes, never requests it. A one-shot operation whose request failed is
completed as well (service.go:408-415). Fairness:
`GenerateCyclePlan` is one goroutine whose requests return (the HTTP client has a
timeout). Deadlock is not checked where the process may have ended for good.

### Proofs (`PlannerProofs`)

For every set of operations, in every order and with any failures:

* `TypeCorrect` (`TypeOK`, which no run checks separately);
  `PlanningMovesOn` (`PlanMovesOn`), `NothingRequestedTwice` (`RequestedOnce`),
  `OneShotsRunOnce` (`OneShotOnce`), `KnownValuesAreRequested` (`KnownValuesRequested`),
  `CheckpointsAreBacked` (`CheckpointsBackedByRows`), without further assumptions;
* `ProducersFeedDownstream` (`FeedsDownstream`) from `ProducersFirst` - the path
  of a producer sorts before those of its consumers;
* `ReloadsAreComplete` (`SnapshotComplete`) from `ProducersFirst` and
  `ReloadsAreReliable` - the requests of full-reload operations are all sent and
  answered, the condition whose absence `planner_failed_reload` shows.

The properties speak of the finished plan; the invariants say how far it has got.
`FlowInv`: where the loop stands, and that the locals are empty outside a cycle.
`RequestInv`: every request counted belongs to an operation begun once. `PassInv`:
a pass that has fetched nothing so far leaves behind operations that are fetched
or not ready, so that the last pass proves the fixpoint. `KnownInv`: the working
values contain the committed ones, and each combination of those is requested or
still to come. `BackedInv`: a pending checkpoint covers what is planned or was
covered before. `OrderInv` needs the order: nothing published now reaches an
operation already fetched (`NotFedLater`). `SnapshotInv`: a row served since the
cycle began is planned once its combination has been requested.

`PlanMovesOn` is what the prover can say of `PlanEnds`, which needs fairness. It
orders the states of the loop by, from the most to the least significant, the
operations fetched, whether the pass has fetched one, the position in the pass,
whether its operation has begun, and the combinations left. Each step inside
`GenerateCyclePlan` goes forward in this order (`Closer`): a pass begins over only
when one has fetched something, and `FlowInv` says that an operation which begins
has not been fetched. Operations are finitely many by definition, and so are the
combinations of finitely many values: the loop ends, whatever the answers publish.

## 5. `ResumePagination`

One combination of an incremental operation without `x-incremental`, cycle after
cycle. Other combinations have checkpoints and rows of their own.

| Code | Model |
|---|---|
| `initialPaginationValue`, `LoadCheckpoint`, `parseResumeCheckpointValue` | `Start`, `StartValue` |
| one turn of the loop of `fetchAndBuildInsertOps` | `FetchPage` with `NextCursor` or `NextOffset`, `FetchUnreadable`, `FetchFails` |
| `paginationValue`, `lastRequestedValue`, `allInsertOps` | `value`, `last`, `rows` |
| `buildCheckpoint`, `SaveCheckpoints` | `Checkpoint`, `SaveCheckpoints` |
| `Apply`, an error of it, an error of the save, the death of the process | `Apply`, `ApplyFails`, `Crash` |
| the API (external) | rows `1..length`, `Page`, `Refused`, `Grow` |

A pagination value is absent, Go's `nil` (sent as the text `<nil>`) or a number of
rows before the page; a cursor of the API is such a number too. The variable
`operation`, fixed by the initial state, is one of the operations of the constant
`Operations`: its pagination type, what its API makes of `<nil>` (`nilCursor`) and
by how many rows its collection may grow at once. A page whose payload cannot be
turned into rows is an object or value that holds no cursor either, so it ends the
loop.

| Run | Question | Bounds |
|---|---|---|
| `resume_pages` | is every row before the checkpoint stored, does the checkpoint ever move back, and is every row stored in the end | a cursor operation that grows by 1 or 2 rows and an offset operation that grows by whole pages; pages of 2, 8 rows, 2 failures |
| `resume_null_cursor` (violation) | README:130, with an API that refuses `<nil>` | 2 rows |

Eight rows in pages of two let a cycle end, fail and resume at a full and at a
partial page several times; two failures let a cycle fail after another has left
half of its rows. `resume_pages` takes an API that answers `<nil>` with its first
page, and for offsets a collection that grows by whole pages. Without the first,
`resume_null_cursor` applies; without the second, rows that fill up a partial last
page are never requested, since the checkpoint is the offset after it
(service.go:818). Fairness: the process keeps polling and
each step of a cycle is taken; failures are bounded, so that a cycle succeeds at
some time.

### Proofs (`ResumeProofs`)

For all values of the constants: `TypeCorrect`; `CheckpointMonotone`
(`CheckpointNeverBack`), from `Forward` - a cycle starts at the checkpoint and
only goes on; and `CheckpointIsComplete` (`CheckpointComplete`) under
`WholePages` - operations with offsets grow by multiples of the page size.
`CheckpointComplete` says nothing of a cycle under way; `Covered` adds that the
rows before `value` and `last` are stored or among those of the cycle, and
`Boundaries` that offsets and length are multiples of the page size, from which
`FullPage` gets that the loop leaves full pages only. The lemmas `Boundary*`
hold the arithmetic.

## 6. `HeadWatermark`

One combination of an operation with `x-incremental`, while items are created,
updated and deleted between any two steps. The watermark of an item stands for
its contents: an item changes at most once per value of the watermark.

| Code | Model |
|---|---|
| `checkpointState`: watermark, boundary keys | `checkpoint` |
| `headWatermarkCycleState`, `updateHeadWatermarkCycleState` | `cycleState`, `Observe` |
| `filterHeadWatermarkPage` | `Excluded`, `AllOlder` |
| one turn of the loop of `fetchAndBuildHeadWatermarkInsertOps` | `FetchPage`, `LastPage`, `NextPlace`, `FetchFails` |
| the label `buildCheckpoint` | `Pending` |
| `Apply` with `seenInsertKeys`: the first insert of a key in a plan is kept | `rows`, `Written`, `Apply`, `ApplyFails` |
| the API (external) | `mark`, `clock`, `Page`, `Touch`, `Delete`, `Tick` |

The API meets the assumptions of README:262-267: descending order, equal
watermarks together, unique keys. Its cursor names the last item served.

| Run | Question | Bounds |
|---|---|---|
| `head_pages` | is all that the checkpoint excludes stored (with a cursor: as it is now), does the watermark move back, is every version stored in the end or replaced | 2 items, 3 watermarks, 5 changes, pages of 1, 1 failure; a cursor operation with deletions and an offset operation without |

Items on pages of one are read in a step each, with changes between them; three
watermarks make an item older than, at and newer than the boundary; five changes
fill the collection and move each item once, with one to spare. A deletion
between two offset pages moves an unread item onto a page already read; the saved
watermark then excludes it for good, so `ExcludedIsStored` needs offset
collections that lose no item, which the assumptions of README:262-267 do not say.
With offsets it asks only that some version of the item is stored: an item that
is shifted to the next page and updated on the way is recorded as seen in the new
version, while the plan writes the old one, the first insert of its key
(service.go:994, postgres/adapter.go:316).
Fairness is that of `ResumePagination`; changes and failures are bounded.

### Proofs (`HeadProofs`)

For any number of items, any page size and any number of changes and failures:
`TypeCorrect`; `WatermarkAdvances` (`WatermarkNeverBack`); and
`ExcludedItemsAreStored` (`ExcludedIsStored`) from `OffsetsLoseNothing` - an
operation with an offset deletes nothing, the condition of the run.
`ExcludedIsStored` says nothing of the pages in between. For a cursor
`HeadInv` adds, besides that no watermark is from the future (`ClockInv`), that
items of the saved boundary are stored even when they are deleted and come back
(`TableInv`), that a row kept was listed before the place of the next page, so
that no page lists its item again (`RowsInv`), and that what the checkpoint of
this cycle would exclude is excluded already, kept, or still to be listed
(`SeenInv`). The last needs the first and the last item of a page
(`FirstAndLast`).

For an offset the place is a number of items, and `OffsetInv` asks for some row of
an item instead of its current version. Its core is that an item still to be
listed stays so. The offset of an item is its `Rank`, the number of items before
it: the ranks follow the order of the list (`RankGrows`), and creating or updating
another item makes no rank smaller (`RankKept`), because an item that changes goes
to the head of the list. Only an item that is itself updated can come before the
offset. Its new watermark is at least as high as any the cycle has seen, so that
the checkpoint of this cycle excludes it only as one of its boundary keys, and for
those there is a row (`OffsetTouch`). A deletion is what makes ranks smaller.

## 7. `SyncSystem` and `SyncLedger`

A cycle from plan to database, for two combinations of an incremental operation
and a full-reload operation that requests each value the first publishes.

| Code | Model |
|---|---|
| `GenerateCyclePlan` | `StartCycle`, `FetchProducer`, `FetchProducerFails`, `FetchConsumer`, `FetchConsumerFails` |
| `ExportSQL`, `renderInsertRows`, `seenInsertKeys` of both adapters | `ExportOperation`, `RenderInsertRows`, `PostgresInsertRows`, `ClickHouseInsertRows` |
| `ExportFullSyncSQL` of both | `PostgresFullSync` (upserts, then a delete of the rest), `ClickHouseFullSync` (truncate, then inserts) |
| `Apply` | `ExecuteUpsertPlan`, a statement at a time; `RemoveDoomed` for the deletions of clickhouse (external) |
| `ApplyFullSync` | `ExecuteInTransaction` and `FinishFullSync` (postgres), `ExecuteAtOnce` (clickhouse) |
| `SaveCheckpoints` | `SaveCheckpoints` (postgres, one transaction), `SaveCheckpoint` (clickhouse, one by one) |
| `CommitCycle`, an error anywhere, a dead process | `CommitCycle`, `DropPlan`, `Restart` |
| the API (external) | `Grow`, `Offer` |

`users` and `orders` count the rows of a key, so that a duplicate shows; `view` is
the full-reload table inside the open transaction. On clickhouse `ALTER TABLE ...
DELETE` (clickhouse/adapter.go:283) is a mutation: the statement returns when it
is registered, and the adapter inserts without waiting for it. The rows it selects
move from `users` to `doomed`, where they stay visible (`Shown`) until
`RemoveDoomed`, which the server may take between any two steps, in a later cycle
or after a restart, or never; rows inserted later are not selected. `doomed` tells
only whether a key has such rows, so that their number needs no bound. A page has
one key, and a cursor is the number of keys before it. `inserts` are the keys of
the insert operations of the plan, one row each, as marked answers make them
(service.go:3310). The code renders the whole plan before it executes the first
statement; since rendering depends on the plan only, `ExportOperation` renders an
operation when the statements of the one before it are done.

`SyncLedger` is what a reader of the database may rely on: an incremental table
shows rows that the API has listed, and never loses a *settled* row, one that no
cycle will request again; a full-reload table goes from plan to plan, in one step
where the target has transactions and in parts of the plan otherwise. The
refinement maps `settled` to the keys that lie before a checkpoint and on no page
from any checkpoint on, and `stored` to what is `Shown`. Keys of the page a cycle
starts with are requested again, and on clickhouse deleted first, so that they may
be missing for a while and are not settled; the same holds for a key that another
combination has still to list.

| Run | Question | Bounds |
|---|---|---|
| `sync_faults` | rows that are superseded (`OneRowRemains`), settled rows and whole plans (`ImplementsLedger`), values behind a checkpoint (`CheckpointedAreKnown`), recovery (`UsersConverge`, `OrdersConverge`), on both targets | 3 keys, one of them listed by both combinations; 1 change of what is offered, 1 failure, 1 restart |

Two keys per combination give a page that is read again and one that is new; the
shared key meets both combinations in one plan and in two. The row of the
full-reload operation may come or go for two of the keys (`Changing`), one of them
shared. One failure can fall between any two statements, and a restart before or
after it. Fairness: the process keeps polling and statements return
(`WF_vars(Cycle)`); no deletion has to be carried out; growth, changes and
failures are bounded, and nothing forces the API to grow.

What the properties do not claim, because the code does not give it:
`CheckpointedAreKnown` is about postgres without a restart. On clickhouse one
checkpoint of a cycle may be saved before the next one fails
(clickhouse/adapter.go:139); the cycle's values are dropped with it, and no later
cycle fetches the page that publishes them. After a restart the same holds on both
targets, which the repository's README states ("not restored from DB after
restart"): `OrdersConverge` therefore asks for the rows offered *for the known
values*. A reader of clickhouse may find two rows with one key, the old and the
new, until the deletion of the old one has been carried out: `OneRowRemains` asks
only that every superseded row has been selected by one, and `UsersConverge`
counts the rows that no deletion is to remove. The newest `updated_at` wins when
clickhouse checkpoints are read back (clickhouse/adapter.go:88); a clock that is
set back is not modelled.

### Proofs (`SyncProofs`)

For any finite set of keys, any producers and listings, both targets and any
number of changes, failures and restarts: `TypeCorrect` (`TypeOK`);
`SupersededRowsGo` (`OneRowRemains`); `PlannerKnowsCheckpointed`
(`CheckpointedAreKnown`); and `LedgerImplemented` (`ImplementsLedger`). Assumed is
`ConstantsAssumption`: no producer comes twice, and none lists a key twice.

One invariant serves all four. Of a plan (`PlanInv`): no row of it is settled, and
a pending checkpoint covers, beyond the saved one, rows of the plan only, whose
values have been published. Of its execution (`ApplyInv`): a row whose operation
has been rendered is in the table or has its statement yet to come, and on
clickhouse the row is inserted when all earlier ones have been selected by a
deletion, of which postgres has none (`DoomedInv`). Of the table (`StoredInv`):
settled rows are there, and the whole plan is when checkpoints may be saved. Of a
full sync (`ReloadInv`): what still separates the table from the plan is among the
statements left, and on clickhouse no row in the table is inserted again.
`CursorInv` keeps checkpoints on listed pages, `OnceInv` counts rows also inside
the transaction, and `KnownInv` says which values a saved checkpoint leaves known
(postgres, until a restart). The three properties say nothing of the plan under
way, so that none of them is inductive alone; the refinement uses all but
`OnceInv` and `KnownInv`.

The refinement, step by step (`MappedStep`): `Grow` is `List` and `Offer` is
`Offer`; a statement of `ExecuteUpsertPlan` is `Write`, or stutters for
clickhouse's delete, which takes nothing from the reader yet; `RemoveDoomed` is
`Rewrite` when no newer row is there, which `StoredInv` excludes for settled keys,
and stutters otherwise; the end of the fetch is `Plan`, and so is the end of a
cycle, which drops the plan; `FinishFullSync` is `Reload` on postgres, a statement
of `ExecuteAtOnce` is `ReloadPart`; saving checkpoints is `Settle`; everything
else stutters.

## 8. `Connector`

| Code | Model |
|---|---|
| `RateLimiter.Wait` | `TakeToken`, `SleepForToken`, `WakeWithToken`; `credit`, `elapsed` |
| the loop of `Fetch` | `StartFetch`, `Send`, `Return`, `BackOff`, `Retry`, `GiveUp`, `TakeResult` |
| `shouldRetry`, `retryDelay`, `sleepWithContext` | `Retried`, `Delay`, `Retry` and `GiveUp` |
| time, a signal | `Tick`, `Cancel` |

A token takes `TokenTime` ticks; times are kept as what has passed since, so that
no clock grows. Answers are classes of status codes; `none` is a transport error,
the only outcome once the context is canceled, and `unread` a body that breaks off.

| Run | Question | Bounds |
|---|---|---|
| `connector_fetch` | do waits and the request rate keep their bounds, do retries follow README's policy, does every `Fetch` return | a bucket of 2, 2 ticks per token, 2 retries, a basic delay of 1; Fetch after Fetch without end |

Two retries have a doubled delay; two tokens let the bucket be full, partly empty,
empty and in debt. The bound that holds for the rate is `2 * max_rpm + 1` requests
in a minute, not `max_rpm`: a full bucket goes out at the start, and what refills
goes out as well. A caller that waits for every token gets half the rate, since
`Wait` charges it for the token twice. `Wait` does not look at the context: a
canceled planner goes through its remaining combinations and waits for each, which
`FetchEnds` bounds per request. Fairness: time passes, and a `Fetch` goes on when
it can, since the HTTP client has a timeout.

### Proofs (`ConnectorProofs`)

For every bucket, token time, delay and number of retries: `TypeCorrect`
(`TypeOK`), `WaitBounded` (`WaitIsBounded`), `RateBounded` (`RateIsBounded`),
`RetriesFollowPolicy` (`RetryPolicy`) and `RequestsAreDue` (`SendsOnlyWhenDue`).

* `SleepInv`: the bucket never owes more than one token, so that no sleep is
  longer than two.
* `RateInv` gives the rate. `recent[a]` counts the requests of the last `a` ticks.
  Those, and the request that already has its token, times the ticks of a token,
  are at most `Minute + TokenTime + a`, less what the bucket holds now: the bucket
  was at most full `a` ticks ago, has since gained a tick per tick, and may be one
  token in debt. For `a = Minute` this is less than `2 * max_rpm + 2` tokens.
* `AttemptInv` says for each place in the loop how many answers there are and of
  what kind.
* `QuietInv`: in a back-off the time since the last answer and the time left make
  up the delay this answer asks for, and after it the time alone does.

`PowerOfTwo` (the code's `1<<attempt`) is a recursive function. The prover has no
induction over data: that the function exists, and that its values grow, is shown
by `CountUp` of `Counting`, that a set of naturals with 0 and with the successor of
each member is all of them.

## 9. `Extraction`, `FullSyncPlan`, `CycleData`, `CycleRecords`

The data path of a full-reload cycle as operators, applied by the actions of
`CycleData` (`ReceiveAnswer`, `NextOperation`, `FinishPlan`). What an operation
makes of its schema and of an answer are the constant operators `Creates`,
`Inserts` and `Publishes` of `CycleData`: the plan is correct whatever they are, as
long as tables have primary keys, operations that share a table create it alike,
and one answer's inserts hold what they refer to (`Relations`, the columns that
store keys of rows of other tables). In the run they are `CreateOps`, `InsertOps` and `Published` of
`Extraction`; the properties of `CycleRecords` are about these.

| Code | Model |
|---|---|
| `buildOperationExtractionPlan` | `ExtractionPlan`, `Walk`, `WalkProps`, `Node`, `Children`, `IsLink` |
| `buildOperationCreateOps` | `CreateOps` |
| `buildInsertOpsFromMarkedPlan` with `processNode`, `processRecord` | `MarkedInsertOps`, `processNode`, `processRecord`, `ProcessChild`, `InsertRow`, `InsertLink` |
| `parseJSONRecords`, rows of an unmarked answer | `parseJSONRecords`, `ClassicInsertOps` |
| `extractResponseDataFromData`, `...FromMarkedData` | `Published` |
| `relaxPlanNullability` | `relaxPlanNullability` |
| `buildFullSyncPlan` and its helpers | `buildFullSyncPlan`, `AddOperation`, `addFullSyncRows`, `AddRow`, `NormalizeRow` |

The reference definition is `Records`: the records that a document has at the
marked places of its schema, read off without the extraction plan.

| Run | Question | Bounds |
|---|---|---|
| `cycle_data` | is every record kept (`EveryRecordKept`), does the last page win (`LastPageWins`) and the last row listed stay (`LastListedStays`), do references find their rows (`ReferencesResolve`), do rows fit the tables created (`RowsFitTables`) | 3 operations (users with groups and orders below an unmarked object, a store that shares their tables, an unmarked list), up to two answers for the first and one for each of the others, out of 17, 4 and 4 |

The answers have each oddity once: a missing and a null key, a missing and a null
field, an object in place of an array, a scalar in place of an object, equal keys
in one answer and in two, a record below a record that is left out. Two answers
are enough for one page to overwrite another; the second operation shows that
operations do.

Named assumptions on the operations: `OwnedTablesHavePrimaryKeys` and
`MarkedSchemas` (what `prepareSpec` enforces), `TablesAgree` (operations which
share a table agree on its columns, which the code checks only within an
operation), `AnswersAreClosed` (`processRecord` inserts the children of a record
before it refers to them; TLC evaluates this for the operators of `Extraction` and
the answers of the run), and `MarkedDirectly`, which the code does not ask
for: an unmarked array above the first marked schema is not entered (README:330),
and a marked schema below an unmarked object of a marked one is looked up by the
outermost property only. Further behaviour that the properties state as it is: a
record without its key fails the whole plan where nothing is marked, and is
skipped where something is; a row with a null key is inserted and never referred
to. `relaxPlanNullability` changes the compiled columns in place, so that a
column stays nullable for later cycles while a table created earlier keeps its
`NOT NULL`; here each plan starts from the specification.

### Proofs (`CycleProofs`)

For any list of operations, whatever they make of their answers and however many
answers they get: `RowsFit` (`RowsFitTables`), `LastListed` (`LastListedStays`) and
`ReferencesHold` (`ReferencesResolve`). A plan that is built holds exactly the
tables that its operations create or insert into; of these one row for each key
that some answer of the cycle lists, the last one of the newest such answer; with
all columns of its table, nulls only where the table takes them, and no reference
to a row that the plan lacks.

The invariant of the cycle has two parts. `Inv`: while it fetches, the operations
are creates and inserts with the columns agreed on (`WellFormed`) and closed under
references (`Closed`), and the finished plan is what they make it (`Fits`,
`KeepsLast`, `Resolved`). `OrderInv`: the inserts of each answer stand together
among the operations, behind those of the answers before it (`Placed`), and these
and the creates are all there are. From the places follows that what the plan's
operations list last is what the newest answer lists last (`NewestStays`).

The work is in the operators. `buildFullSyncPlan` and
`addFullSyncRows` are recursive functions; `BuiltOneByOne` and `AddedOneByOne`
unroll them into the sequence of states they go through, which exists for every
length by `CountUp`, and `Built` and `AddedRows` are invariants along it: after `n`
operations, the tables named by them, with the last of the rows listed so far per
key. A row fits because a column it lacks, or has as null, is among the nullable
columns of all create operations of its table (`BuiltFits`); this is where
`TablesAgree` is needed, since a table that is created again with other columns
keeps the rows it has, filled up for the columns before. A reference resolves
because the row it comes from was listed, so that its target was listed in the
same answer, and merging keeps a row for every key listed (`BuiltResolves`); a
column that a row lacks is filled up with null, which refers to nothing.

## 10. Only model-checked

* Liveness: `CycleEnds`, `TriggerStartsCycle`, `CancelStopsRun`, `PlanEnds`,
  `EventuallyStored`, `FetchEnds`, `UsersConverge`, `OrdersConverge`; the prover
  has no rules for fairness.
* `EveryRecordKept`, `LastPageWins`: the operators of `Extraction` are RECURSIVE,
  following the tree of the schema, and the prover cannot reason about these.
  `LastListedStays` is the part of both that lies after extraction: no row that an
  answer lists is lost or invented, and the newest answer wins. That an answer's
  inserts hold what they refer to (`AnswersAreClosed`) is evaluated for the
  operators of `Extraction` on the answers of the run.
* `FeedsDownstream`, `SnapshotComplete`, `CheckpointComplete` and
  `ExcludedIsStored` are theorems under the named conditions of sections 4 to 6.

Where a proof needs induction over the natural numbers it goes over the set of the
numbers a statement holds of (`CountUp`), since the induction theorems of the
library take an operator that no installed prover can instantiate.

## 11. Not modelled

* Text: SQL and its quoting, YAML, JSON, log lines. A number prints with an
  exponent from seven digits on (`%v` of a float64, service.go:1373), and a
  table with two key columns gets `PRIMARY KEY` on each (postgres/adapter.go:258):
  both are hazards listed without a property.
* Parsing of the `x-` extensions (`prepareSpec`): what it guarantees enters as
  assumptions on constants. The type of a parameter and the filter on its values
  are a set of accepted keys.
* `apictl`, configuration, provider registries, OpenAPI loader, log files: no
  state that another component reads. The handlers of the control API only
  translate calls that `Runner` has.
* Timestamps and derived counts of the status.

Two behaviours are in the models as the code has them, and no document says
otherwise: a cancellation while planning arrives wrapped by `%w` and leads to the
phase `failed` (runner.go:148); a one-shot operation whose request failed is
completed (service.go:408).

## 12. Findings

Each is a run that TLC ends with a counterexample, and an entry in `PROJECT.json`.

1. A failure while planning ends a periodic process; README:122 says it keeps
   polling (`runner_keeps_polling`, runner.go:302).
2. A failed request of a full-reload operation empties its table; README:127
   promises a full snapshot (`planner_failed_reload`, service.go:383).
3. A collection of one page makes the next cycle send the cursor `<nil>`;
   README:130 says it resumes from the saved cursor (`resume_null_cursor`,
   service.go:1864).

The conditions that sections 3 to 9 name are further places where the code gives
less than one might expect.
