------------------------------ MODULE SyncSystem -----------------------------
(***************************************************************************)
(* A cycle from plan to database, statement by statement, with failures    *)
(* and restarts between any two steps: GenerateCyclePlan and CommitCycle   *)
(* (internal/core/service.go), applyCyclePlan (internal/runner/runner.go)  *)
(* and the DB targets (internal/db/postgres, internal/db/clickhouse).      *)
(*                                                                         *)
(* An incremental operation with resume-pagination has one combination per *)
(* producer; its API lists the keys Listing[p] one by one, a key per page, *)
(* and its cursor counts the keys before a page.  Each key that a page     *)
(* publishes is requested by a full-reload operation, whose answer for it  *)
(* is one row or none.  Each row of the incremental table is an operation  *)
(* of the plan, as a marked answer makes them.                             *)
(***************************************************************************)
EXTENDS Integers, Sequences, FiniteSets, SequencesExt

CONSTANTS
    Keys,         \* primary keys of the rows, and the values they publish
    Producers,    \* the combinations of the incremental operation, in order
    Listing,      \* producer -> the keys its API lists, oldest first
    Targets,      \* the DB targets to consider
    Changing,     \* bound: keys with a row for the full-reload operation that may come and go
    MaxChanges,   \* bound: changes of what the full-reload operation is served
    MaxFailures,  \* bound: requests and statements that fail
    MaxRestarts   \* bound: restarts of the process

ProducerSet == Range(Producers)

ASSUME ConstantsAssumption ==
    /\ IsFiniteSet(Keys)
    /\ Producers \in Seq(ProducerSet) /\ IsInjective(Producers)
    /\ Listing \in [ProducerSet -> Seq(Keys)]
    /\ \A p \in ProducerSet : IsInjective(Listing[p])
    /\ Changing \subseteq Keys
    /\ Targets \subseteq {"postgres", "clickhouse"}
    /\ MaxChanges \in Nat /\ MaxFailures \in Nat /\ MaxRestarts \in Nat

VARIABLES
    target,      \* the DB target, fixed by the configuration
    length,      \* the API: producer -> number of keys listed so far
    offered,     \* the API: keys with a row for the full-reload operation
    users,       \* DB: rows of the incremental table, by key, that no deletion is to remove
    doomed,      \* DB: keys with a row in it that a deletion is still to remove
    orders,      \* DB: rows of the full-reload table, by key
    checkpoints, \* DB: producer -> saved cursor
    known,       \* Service.responseValues
    pc,          \* progress of the cycle
    turn,        \* position in the combinations, and then in the upsert plan
    work,        \* workingResponseValues
    inserts,     \* upsertPlan: the rows of its InsertRowsOps
    full,        \* fullReloadPlan: the rows, and whether its table is in it
    pending,     \* pendingCheckpoints
    statements,  \* SQL statements still to execute, of an operation or a full sync
    view,        \* the full-reload table as the open transaction sees it
    env          \* history variable: changes, failures and restarts so far

api == <<length, offered>>
tables == <<users, doomed, orders>>
plan == <<work, inserts, full, pending>>
vars == <<target, length, offered, users, doomed, orders, checkpoints, known, pc, turn, work,
          inserts, full, pending, statements, view, env>>

-----------------------------------------------------------------------------
Empty  == [k \in Keys |-> 0]
NoSync == [present |-> FALSE, rows |-> {}]
Present(table) == {k \in Keys : table[k] > 0}

\* What a reader finds in the incremental table.
Shown == Present(users) \cup doomed

\* The keys on some of the pages of a producer.
OnPages(p, pages) == {Listing[p][i] : i \in pages}

LastPageUnguarded(p) == length[p] - 1   \* mutant: an empty first page

\* The last page that is requested: the one with the last key.
LastPage(p) == IF length[p] = 0 THEN 0 ELSE length[p] - 1

AllListed == UNION {OnPages(p, 1..length[p]) : p \in ProducerSet}

Covered == UNION {OnPages(p, 1..checkpoints[p]) : p \in ProducerSet}

\* Rows that no cycle requests again.
Settled ==
    {k \in Covered : \A p \in ProducerSet :
        k \notin OnPages(p, (checkpoints[p] + 1)..Len(Listing[p]))}

-----------------------------------------------------------------------------
(* SQL: statements, what they do to a table, and what the adapters render. *)

Upsert(k) == [sql |-> "upsert", keys |-> {k}]   \* INSERT ... ON CONFLICT ... DO UPDATE
Insert(k) == [sql |-> "insert", keys |-> {k}]   \* INSERT into a MergeTree table
Delete(K) == [sql |-> "delete", keys |-> K]     \* ALTER TABLE ... DELETE WHERE
Keep(K)   == [sql |-> "keep", keys |-> K]       \* DELETE ... WHERE NOT, or TRUNCATE

\* A deletion on clickhouse is a mutation: the statement returns when it is
\* registered, and the rows it selects, none that is inserted later, go at some
\* time after.  The table that Execute yields is what remains in the end.
Execute(table, s) ==
    [k \in Keys |->
        CASE s.sql = "upsert" /\ k \in s.keys -> 1
          [] s.sql = "insert" /\ k \in s.keys -> table[k] + 1
          [] s.sql = "delete" /\ k \in s.keys -> 0
          [] s.sql = "keep" /\ k \notin s.keys -> 0
          [] OTHER -> table[k]]

\* The keys that a deletion leaves with rows to be removed.
Dooms(s) == IF s.sql = "delete" THEN s.keys \cap Present(users) ELSE {}

PostgresInsertRows(k) == <<Upsert(k)>>

ClickHouseInsertsOnly(k) == <<Insert(k)>>   \* mutant: no delete

ClickHouseInsertRows(k) == <<Delete({k}), Insert(k)>>

\* seenInsertKeys: of the rows with one key the plan writes the first.
Seen == {inserts[i] : i \in 1..(turn - 1)}

RenderInsertRows(k) ==
    IF k \in Seen THEN <<>>
    ELSE IF target = "postgres" THEN PostgresInsertRows(k) ELSE ClickHouseInsertRows(k)

UpsertsOnly(rows) ==   \* mutant: rows that are gone stay
    [i \in DOMAIN rows |-> Upsert(rows[i])]

\* ExportFullSyncSQL of the two adapters; the rows come in the order of their keys.
PostgresFullSync(rows) == [i \in DOMAIN rows |-> Upsert(rows[i])] \o <<Keep(Range(rows))>>

ClickHouseFullSync(rows) == <<Keep({})>> \o [i \in DOMAIN rows |-> Insert(rows[i])]

ExportFullSyncSQL(rows) ==
    IF target = "postgres"
    THEN PostgresFullSync(SetToSeq(rows)) ELSE ClickHouseFullSync(SetToSeq(rows))

-----------------------------------------------------------------------------
Init ==
    /\ target \in Targets
    /\ length = [p \in ProducerSet |-> 0]
    /\ offered = Keys
    /\ users = Empty
    /\ doomed = {}
    /\ orders = Empty
    /\ checkpoints = [p \in ProducerSet |-> 0]
    /\ known = {}
    /\ pc = "idle"
    /\ turn = 1
    /\ work = {}
    /\ inserts = <<>>
    /\ full = NoSync
    /\ pending = <<>>
    /\ statements = <<>>
    /\ view = Empty
    /\ env = [changes |-> 0, failures |-> 0, restarts |-> 0]

\* What is local to a cycle dies with it.
EndCycle ==
    /\ pc' = "idle"
    /\ turn' = 1
    /\ work' = {}
    /\ inserts' = <<>>
    /\ full' = NoSync
    /\ pending' = <<>>
    /\ statements' = <<>>
    /\ view' = Empty

Fail ==
    /\ env.failures < MaxFailures
    /\ env' = [env EXCEPT !.failures = @ + 1]

-----------------------------------------------------------------------------
(* GenerateCyclePlan *)

StartCycle ==
    /\ pc = "idle"
    /\ pc' = "fetch"
    /\ work' = known
    /\ UNCHANGED <<target, api, tables, checkpoints, known, turn, inserts, full, pending,
                   statements, view, env>>

FetchingProducer == pc = "fetch" /\ turn <= Len(Producers)
FetchingConsumer == pc = "fetch" /\ turn = Len(Producers) + 1

FetchFromTheEnd ==   \* mutant: resumes after the page of the checkpoint
    /\ FetchingProducer
    /\ LET p == Producers[turn]
       IN  /\ inserts' = inserts \o SubSeq(Listing[p], checkpoints[p] + 2, length[p])
           /\ work' = work \cup OnPages(p, (checkpoints[p] + 2)..length[p])
           /\ pending' = Append(pending, [producer |-> p, cursor |-> LastPage(p)])
    /\ turn' = turn + 1
    /\ UNCHANGED <<target, api, tables, checkpoints, known, pc, full, statements, view, env>>

\* fetchAndBuildInsertOps from the checkpoint on, to the last page.
FetchProducer ==
    /\ FetchingProducer
    /\ LET p == Producers[turn]
       IN  /\ inserts' = inserts \o SubSeq(Listing[p], checkpoints[p] + 1, length[p])
           /\ work' = work \cup OnPages(p, (checkpoints[p] + 1)..length[p])
           /\ pending' = Append(pending, [producer |-> p, cursor |-> LastPage(p)])
    /\ turn' = turn + 1
    /\ UNCHANGED <<target, api, tables, checkpoints, known, pc, full, statements, view, env>>

\* A page fails: the values of the pages before it stay published.
FetchProducerFails ==
    /\ FetchingProducer
    /\ Fail
    /\ LET p == Producers[turn]
       IN  \E n \in checkpoints[p]..length[p] :
              work' = work \cup OnPages(p, (checkpoints[p] + 1)..n)
    /\ turn' = turn + 1
    /\ UNCHANGED <<target, api, tables, checkpoints, known, pc, inserts, full, pending,
                   statements, view>>

\* The end of the plan.
FinishPlan(newFull) ==
    /\ full' = newFull
    /\ pc' = "apply"
    /\ turn' = 1
    /\ UNCHANGED <<target, api, tables, checkpoints, known, work, inserts, pending, statements,
                   view>>

\* The full-reload operation, one request per value; without values it is not ready.
FetchConsumer ==
    /\ FetchingConsumer
    /\ FinishPlan(IF work = {} THEN NoSync ELSE [present |-> TRUE, rows |-> offered \cap work])
    /\ UNCHANGED env

FetchConsumerFails ==
    /\ FetchingConsumer
    /\ Fail
    /\ \E failed \in SUBSET work \ {{}} :
          FinishPlan([present |-> TRUE, rows |-> (offered \cap work) \ failed])

-----------------------------------------------------------------------------
(* applyCyclePlan and CommitCycle *)

\* ExportSQL renders a plan before Apply executes the first statement; it
\* depends on nothing else, so that here each operation is rendered when the
\* statements of the one before it are done.
ExportOperation ==
    /\ pc = "apply" /\ statements = <<>>
    /\ turn <= Len(inserts)
    /\ statements' = RenderInsertRows(inserts[turn])
    /\ turn' = turn + 1
    /\ UNCHANGED <<target, api, tables, checkpoints, known, pc, plan, view, env>>

\* Apply: no transaction; the next statement does not wait for a deletion.
ExecuteUpsertPlan ==
    /\ pc = "apply" /\ statements # <<>>
    /\ users' = Execute(users, Head(statements))
    /\ doomed' = doomed \cup Dooms(Head(statements))
    /\ statements' = Tail(statements)
    /\ UNCHANGED <<target, api, orders, checkpoints, known, pc, turn, plan, view, env>>

FinishApply ==
    /\ pc = "apply" /\ statements = <<>>
    /\ turn > Len(inserts)
    /\ IF full.present
       THEN pc' = "fullsync" /\ statements' = ExportFullSyncSQL(full.rows) /\ view' = orders
       ELSE pc' = "save" /\ UNCHANGED <<statements, view>>
    /\ UNCHANGED <<target, api, tables, checkpoints, known, turn, plan, env>>

ExecuteWithoutTransaction ==   \* mutant: postgres executes outside its transaction
    /\ pc = "fullsync" /\ statements # <<>>
    /\ orders' = Execute(orders, Head(statements))
    /\ view' = orders'
    /\ statements' = Tail(statements)
    /\ UNCHANGED <<target, api, users, doomed, checkpoints, known, pc, turn, plan, env>>

\* ApplyFullSync on postgres: the rest of the world sees the table at the commit.
ExecuteInTransaction ==
    /\ pc = "fullsync" /\ statements # <<>>
    /\ target = "postgres"
    /\ view' = Execute(view, Head(statements))
    /\ statements' = Tail(statements)
    /\ UNCHANGED <<target, api, tables, checkpoints, known, pc, turn, plan, env>>

\* applySQL: each statement takes effect at once.
ExecuteAtOnce ==
    /\ pc = "fullsync" /\ statements # <<>>
    /\ target = "clickhouse"
    /\ orders' = Execute(orders, Head(statements))
    /\ view' = orders'
    /\ statements' = Tail(statements)
    /\ UNCHANGED <<target, api, users, doomed, checkpoints, known, pc, turn, plan, env>>

FinishFullSync ==
    /\ pc = "fullsync" /\ statements = <<>>
    /\ orders' = view
    /\ pc' = "save"
    /\ UNCHANGED <<target, api, users, doomed, checkpoints, known, turn, plan, statements, view,
                   env>>

Cursor(p) == (CHOOSE c \in Range(pending) : c.producer = p).cursor
Pending(p) == \E c \in Range(pending) : c.producer = p

\* SaveCheckpoints: in one transaction on postgres, one after the other on clickhouse.
SaveCheckpoints ==
    /\ pc = "save" /\ pending # <<>>
    /\ target = "postgres"
    /\ checkpoints' =
          [p \in ProducerSet |-> IF Pending(p) THEN Cursor(p) ELSE checkpoints[p]]
    /\ pending' = <<>>
    /\ UNCHANGED <<target, api, tables, known, pc, turn, work, inserts, full, statements, view,
                   env>>

SaveCheckpoint ==
    /\ pc = "save" /\ pending # <<>>
    /\ target = "clickhouse"
    /\ checkpoints' = [checkpoints EXCEPT ![Head(pending).producer] = Head(pending).cursor]
    /\ pending' = Tail(pending)
    /\ UNCHANGED <<target, api, tables, known, pc, turn, work, inserts, full, statements, view,
                   env>>

CommitCycle ==
    /\ pc = "save" /\ pending = <<>>
    /\ known' = work
    /\ EndCycle
    /\ UNCHANGED <<target, api, tables, checkpoints, env>>

DropPlanSaves ==   \* mutant: the checkpoints of a failed cycle are saved
    /\ \/ pc \in {"apply", "fullsync"}
       \/ pc = "save" /\ pending # <<>>
    /\ Fail
    /\ checkpoints' = [p \in ProducerSet |-> IF Pending(p) THEN Cursor(p) ELSE checkpoints[p]]
    /\ EndCycle
    /\ UNCHANGED <<target, api, tables, known>>

\* A statement fails: the transaction is rolled back, the rest is not executed.
DropPlan ==
    /\ \/ pc \in {"apply", "fullsync"}
       \/ pc = "save" /\ pending # <<>>
    /\ Fail
    /\ EndCycle
    /\ UNCHANGED <<target, api, tables, checkpoints, known>>

\* The process dies, or ends with an error of GenerateCyclePlan; a new one starts.
Restart ==
    /\ env.restarts < MaxRestarts
    /\ env' = [env EXCEPT !.restarts = @ + 1]
    /\ known' = {}
    /\ EndCycle
    /\ UNCHANGED <<target, api, tables, checkpoints>>

-----------------------------------------------------------------------------
(* The API *)

Grow(p) ==
    /\ length[p] < Len(Listing[p])
    /\ length' = [length EXCEPT ![p] = @ + 1]
    /\ UNCHANGED <<target, offered, tables, checkpoints, known, pc, turn, plan, statements,
                   view, env>>

Offer(k) ==
    /\ k \in Changing /\ env.changes < MaxChanges
    /\ env' = [env EXCEPT !.changes = @ + 1]
    /\ offered' = IF k \in offered THEN offered \ {k} ELSE offered \cup {k}
    /\ UNCHANGED <<target, length, tables, checkpoints, known, pc, turn, plan, statements, view>>

-----------------------------------------------------------------------------
(* The server *)

\* The last of the rows of a key that a deletion selects is gone; what the
\* process does meanwhile does not matter.
RemoveDoomed(k) ==
    /\ k \in doomed
    /\ doomed' = doomed \ {k}
    /\ UNCHANGED <<target, api, users, orders, checkpoints, known, pc, turn, plan, statements,
                   view, env>>

-----------------------------------------------------------------------------
Cycle ==
    \/ StartCycle \/ FetchProducer \/ FetchConsumer
    \/ ExportOperation \/ ExecuteUpsertPlan \/ FinishApply
    \/ ExecuteInTransaction \/ ExecuteAtOnce \/ FinishFullSync
    \/ SaveCheckpoints \/ SaveCheckpoint \/ CommitCycle

Api == (\E p \in ProducerSet : Grow(p)) \/ (\E k \in Keys : Offer(k))

Next ==
    \/ Cycle
    \/ FetchProducerFails \/ FetchConsumerFails \/ DropPlan \/ Restart
    \/ Api
    \/ \E k \in Keys : RemoveDoomed(k)

Spec == Init /\ [][Next]_vars

\* The process keeps polling; requests and statements return.  A deletion need
\* never be carried out: nothing in the code waits for it.
FairSpec == Spec /\ WF_vars(Cycle)

-----------------------------------------------------------------------------
(* Properties *)

Statements == [sql : {"upsert", "insert", "delete", "keep"}, keys : SUBSET Keys]
Cursors    == [producer : ProducerSet, cursor : Nat]
FullSyncs  == [present : BOOLEAN, rows : SUBSET Keys]
Counts     ==
    [changes : 0..MaxChanges, failures : 0..MaxFailures, restarts : 0..MaxRestarts]

\* Every variable has its type (Service, CyclePlan, the tables of the target).
TypeOK ==
    /\ target \in Targets
    /\ length \in [ProducerSet -> Nat]
    /\ \A p \in ProducerSet : length[p] <= Len(Listing[p])
    /\ offered \in SUBSET Keys
    /\ users \in [Keys -> Nat]
    /\ doomed \in SUBSET Keys
    /\ orders \in [Keys -> Nat]
    /\ checkpoints \in [ProducerSet -> Nat]
    /\ known \in SUBSET Keys
    /\ pc \in {"idle", "fetch", "apply", "fullsync", "save"}
    /\ turn \in Nat \ {0}
    /\ work \in SUBSET Keys
    /\ inserts \in Seq(Keys)
    /\ full \in FullSyncs
    /\ pending \in Seq(Cursors)
    /\ statements \in Seq(Statements)
    /\ view \in [Keys -> Nat]
    /\ env \in Counts

\* At any time, were the deletions asked for so far carried out, no table would
\* hold two rows with one key: each row that a later statement supersedes has
\* been selected by a deletion.  Clickhouse has no unique keys, and a cycle
\* writes rows again that an earlier one wrote, or wrote in part.
OneRowRemains == \A k \in Keys : users[k] <= 1 /\ orders[k] <= 1

\* The values of all rows before a checkpoint are known to the planner, so
\* that the full-reload operation requests them: they are published only when
\* their page is fetched, and no cycle fetches a page before the checkpoint.
\* It needs that the process has not restarted (README: the values are "not
\* restored from DB after restart") and that checkpoints are saved together.
CheckpointedAreKnown ==
    pc = "idle" /\ target = "postgres" /\ env.restarts = 0 => Covered \subseteq known

\* Everything a cycle writes, it writes as the ledger allows: a row that no
\* cycle requests again is written and never goes, and the full-reload table
\* changes from plan to plan, in one step on postgres.
Ledger == INSTANCE SyncLedger WITH
    transactional <- target = "postgres",
    listed        <- AllListed,
    stored        <- Shown,
    settled       <- Settled,
    planned       <- full.rows,
    reloaded      <- Present(orders)

ImplementsLedger == Ledger!Spec

\* When failures end, every row listed is in the table again and again, once
\* when the deletions asked for are carried out; on postgres it stays so.
UsersComplete == \A k \in Keys : users[k] = IF k \in AllListed THEN 1 ELSE 0
UsersConverge ==
    /\ []<>UsersComplete
    /\ <>[](target = "postgres" => UsersComplete)

\* Whatever a failed cycle has left of the full-reload table, later cycles
\* bring it to the rows offered for the known values; on postgres it stays so,
\* and all values are known in the end unless the process restarts.
OrdersComplete == \A k \in Keys : orders[k] = IF k \in offered \cap known THEN 1 ELSE 0
OrdersConverge ==
    /\ []<>OrdersComplete
    /\ <>[](target = "postgres" => OrdersComplete)
    /\ <>[](target = "postgres" /\ env.restarts = 0 => AllListed \subseteq known)
=============================================================================
