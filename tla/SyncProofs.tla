----------------------------- MODULE SyncProofs ------------------------------
(***************************************************************************)
(* Theorems about SyncSystem, for any keys, producers and listings, both   *)
(* targets and any number of changes, failures and restarts: its types,    *)
(* that superseded rows are to go, that the planner knows the values       *)
(* behind its checkpoints, and that the ledger is implemented.             *)
(***************************************************************************)
EXTENDS SyncSystem, FiniteSetTheorems, TLAPS

(* Sequences.                                                                *)

\* A sequence is a function on an interval, and its range holds its elements.
LEMMA SeqFacts ==
    ASSUME NEW T, NEW s \in Seq(T)
    PROVE  /\ Len(s) \in Nat
           /\ DOMAIN s = 1..Len(s)
           /\ \A i \in DOMAIN s : s[i] \in T
           /\ Range(s) \subseteq T
<1>1. Len(s) \in Nat /\ DOMAIN s = 1..Len(s) /\ \A i \in DOMAIN s : s[i] \in T
  OBVIOUS
<1> QED
  BY <1>1 DEF Range

\* The sequences that an operation is rendered to.
LEMMA ShortSeqs ==
    ASSUME NEW T, NEW x \in T, NEW y \in T
    PROVE  /\ <<>> \in Seq(T)
           /\ <<x>> \in Seq(T) /\ Range(<<x>>) = {x} /\ <<x>> # <<>>
           /\ <<x, y>> \in Seq(T) /\ <<x, y>> # <<>>
           /\ Head(<<x>>) = x /\ Tail(<<x>>) = <<>>
           /\ Head(<<x, y>>) = x /\ Tail(<<x, y>>) = <<y>>
<1>1. <<>> \in Seq(T) /\ <<x>> \in Seq(T) /\ <<x, y>> \in Seq(T)
  OBVIOUS
<1>2. DOMAIN <<x>> = {1}
  OBVIOUS
<1>3. <<x>>[1] = x
  OBVIOUS
<1>4. Range(<<x>>) = {x}
  BY <1>2, <1>3 DEF Range
<1>5. Head(<<x>>) = x /\ Tail(<<x>>) = <<>>
  OBVIOUS
<1>6. Head(<<x, y>>) = x /\ Tail(<<x, y>>) = <<y>>
  OBVIOUS
<1> QED
  BY <1>1, <1>4, <1>5, <1>6

\* The elements of a pair.
LEMMA PairRange == \A x, y : Range(<<x, y>>) = {x, y}
<1> SUFFICES ASSUME NEW x, NEW y PROVE Range(<<x, y>>) = {x, y}
  OBVIOUS
<1>1. DOMAIN <<x, y>> = {1, 2} /\ <<x, y>>[1] = x /\ <<x, y>>[2] = y
  OBVIOUS
<1> QED
  BY <1>1 DEF Range

\* A concatenation holds the elements of both sequences.
LEMMA ConcatFacts ==
    ASSUME NEW T, NEW s \in Seq(T), NEW t \in Seq(T)
    PROVE  /\ s \o t \in Seq(T)
           /\ Len(s \o t) = Len(s) + Len(t)
           /\ \A i \in 1..Len(s) : (s \o t)[i] = s[i]
           /\ \A i \in 1..Len(t) : (s \o t)[Len(s) + i] = t[i]
           /\ Range(s \o t) = Range(s) \cup Range(t)
<1>1. s \o t \in Seq(T) /\ Len(s \o t) = Len(s) + Len(t) /\ Len(s) \in Nat /\ Len(t) \in Nat
  OBVIOUS
<1>2. \A i \in 1..Len(s) : (s \o t)[i] = s[i]
  OBVIOUS
<1>3. \A i \in 1..Len(t) : (s \o t)[Len(s) + i] = t[i]
  OBVIOUS
<1>4. \A i \in 1..(Len(s) + Len(t)) : i \in 1..Len(s) \/ i - Len(s) \in 1..Len(t)
  BY <1>1
<1>5. \A i \in 1..(Len(s) + Len(t)) : (s \o t)[i] \in Range(s) \cup Range(t)
  <2> SUFFICES ASSUME NEW i \in 1..(Len(s) + Len(t)) PROVE (s \o t)[i] \in Range(s) \cup Range(t)
    OBVIOUS
  <2>1. CASE i \in 1..Len(s)
    BY <2>1, <1>2 DEF Range
  <2>2. CASE i - Len(s) \in 1..Len(t)
    <3>1. (s \o t)[Len(s) + (i - Len(s))] = t[i - Len(s)]
      BY <2>2, <1>3
    <3>2. Len(s) + (i - Len(s)) = i
      BY <1>1
    <3> QED
      BY <2>2, <3>1, <3>2 DEF Range
  <2> QED
    BY <2>1, <2>2, <1>4
<1>6. Range(s \o t) \subseteq Range(s) \cup Range(t)
  BY <1>1, <1>5 DEF Range
<1>7. \A i \in 1..Len(s) : i \in DOMAIN (s \o t)
  BY <1>1
<1>8. \A i \in 1..Len(t) : Len(s) + i \in DOMAIN (s \o t)
  BY <1>1
<1>9. Range(s) \subseteq Range(s \o t)
  <2>1. \A i \in 1..Len(s) : s[i] \in Range(s \o t)
    BY <1>2, <1>7 DEF Range
  <2> QED
    BY <2>1 DEF Range
<1>10. Range(t) \subseteq Range(s \o t)
  <2>1. \A i \in 1..Len(t) : t[i] \in Range(s \o t)
    BY <1>3, <1>8 DEF Range
  <2> QED
    BY <2>1 DEF Range
<1> QED
  BY <1>1, <1>2, <1>3, <1>6, <1>9, <1>10

\* An element that is appended comes last.
LEMMA AppendFacts ==
    ASSUME NEW T, NEW s \in Seq(T), NEW x \in T
    PROVE  /\ Append(s, x) \in Seq(T)
           /\ Len(Append(s, x)) = Len(s) + 1
           /\ Len(s) \in Nat
           /\ DOMAIN Append(s, x) = 1..(Len(s) + 1)
           /\ DOMAIN s = 1..Len(s)
           /\ \A i \in 1..Len(s) : Append(s, x)[i] = s[i]
           /\ Append(s, x)[Len(s) + 1] = x
  OBVIOUS

\* A sequence consists of its head and its tail.
LEMMA HeadTailFacts ==
    ASSUME NEW T, NEW s \in Seq(T), s # <<>>
    PROVE  /\ Len(s) \in Nat \ {0}
           /\ Head(s) \in T /\ Head(s) = s[1]
           /\ Tail(s) \in Seq(T)
           /\ Len(Tail(s)) = Len(s) - 1
           /\ DOMAIN Tail(s) = 1..(Len(s) - 1)
           /\ DOMAIN s = 1..Len(s)
           /\ \A i \in 1..(Len(s) - 1) : Tail(s)[i] = s[i + 1]
           /\ Range(s) = {Head(s)} \cup Range(Tail(s))
<1>1. Len(s) \in Nat \ {0}
  OBVIOUS
<1>2. Head(s) \in T /\ Head(s) = s[1] /\ DOMAIN s = 1..Len(s)
  BY <1>1
<1>3. Tail(s) \in Seq(T) /\ Len(Tail(s)) = Len(s) - 1 /\ DOMAIN Tail(s) = 1..(Len(s) - 1)
  BY <1>1
<1>4. \A i \in 1..(Len(s) - 1) : Tail(s)[i] = s[i + 1]
  BY <1>1
<1>5. \A i \in 1..Len(s) : i = 1 \/ (i - 1 \in 1..(Len(s) - 1) /\ s[i] = Tail(s)[i - 1])
  BY <1>1, <1>4
<1>6. \A i \in 1..(Len(s) - 1) : i + 1 \in 1..Len(s)
  BY <1>1
<1>7. 1 \in 1..Len(s)
  BY <1>1
<1>8. Range(s) \subseteq {Head(s)} \cup Range(Tail(s))
  <2>1. \A i \in 1..Len(s) : s[i] = Head(s) \/ s[i] \in Range(Tail(s))
    BY <1>2, <1>3, <1>5 DEF Range
  <2> QED
    BY <1>2, <2>1 DEF Range
<1>9. {Head(s)} \cup Range(Tail(s)) \subseteq Range(s)
  <2>1. Head(s) \in Range(s)
    BY <1>2, <1>7 DEF Range
  <2>2. \A i \in DOMAIN Tail(s) : Tail(s)[i] \in Range(s)
    BY <1>2, <1>3, <1>4, <1>6 DEF Range
  <2> QED
    BY <2>1, <2>2 DEF Range
<1> QED
  BY <1>1, <1>2, <1>3, <1>4, <1>8, <1>9

\* SetToSeq lists the members of a finite set, each once.
LEMMA SetToSeqFacts ==
    ASSUME NEW S \in SUBSET Keys
    PROVE  /\ SetToSeq(S) \in Seq(S)
           /\ SetToSeq(S) \in Seq(Keys)
           /\ Range(SetToSeq(S)) = S
           /\ IsInjective(SetToSeq(S))
<1> DEFINE n == Cardinality(S)
           q == SetToSeq(S)
<1>1. IsFiniteSet(S)
  BY ConstantsAssumption, FS_Subset DEF ConstantsAssumption
<1>2. n \in Nat /\ ExistsBijection(1..n, S)
  BY <1>1, FS_CardinalityType
<1>3. PICK f : f \in Bijection(1..n, S)
  BY <1>2 DEF ExistsBijection
<1>4. f \in [1..n -> S] /\ IsInjective(f)
  BY <1>3 DEF Bijection, Injection
<1>5. q \in [1..n -> S] /\ IsInjective(q)
  BY <1>4 DEF SetToSeq
<1>6. q \in Injection(1..n, S)
  BY <1>5 DEF Injection
<1>7. IsFiniteSet(1..n) /\ Cardinality(1..n) = n
  BY <1>2, FS_Interval
<1>8. q \in Surjection(1..n, S)
  BY <1>1, <1>6, <1>7, FS_Injection
<1>9. Range(q) = S
  BY <1>5, <1>8 DEF Range, Surjection
<1>10. q \in Seq(S) /\ q \in Seq(Keys)
  BY <1>2, <1>5
<1> QED
  BY <1>5, <1>9, <1>10

-----------------------------------------------------------------------------
\* What the assumption says of the listings and the producers.
LEMMA ConstantFacts ==
    /\ Targets \subseteq {"postgres", "clickhouse"}
    /\ Len(Producers) \in Nat
    /\ \A i \in 1..Len(Producers) : Producers[i] \in ProducerSet
    /\ \A i, j \in 1..Len(Producers) : Producers[i] = Producers[j] => i = j
    /\ \A p \in ProducerSet :
          /\ Listing[p] \in Seq(Keys)
          /\ Len(Listing[p]) \in Nat
          /\ \A i \in 1..Len(Listing[p]) : Listing[p][i] \in Keys
<1>1. Producers \in Seq(ProducerSet) /\ IsInjective(Producers)
  BY ConstantsAssumption DEF ConstantsAssumption
<1>2. Len(Producers) \in Nat /\ DOMAIN Producers = 1..Len(Producers)
  BY <1>1
<1>3. \A i \in 1..Len(Producers) : Producers[i] \in ProducerSet
  BY <1>1, <1>2
<1>4. \A i, j \in 1..Len(Producers) : Producers[i] = Producers[j] => i = j
  BY <1>1, <1>2 DEF IsInjective
<1>5. \A p \in ProducerSet : Listing[p] \in Seq(Keys)
  BY ConstantsAssumption DEF ConstantsAssumption
<1>6. \A q \in Seq(Keys) : Len(q) \in Nat /\ \A i \in 1..Len(q) : q[i] \in Keys
  OBVIOUS
<1> QED
  BY <1>2, <1>3, <1>4, <1>5, <1>6, ConstantsAssumption DEF ConstantsAssumption

\* Pages hold keys.
LEMMA PagesType ==
    ASSUME NEW p \in ProducerSet, NEW a \in Nat, NEW b \in Nat, b <= Len(Listing[p])
    PROVE  OnPages(p, (a + 1)..b) \subseteq Keys
  BY ConstantFacts DEF OnPages

\* The part of a listing that a combination fetches.
LEMMA FetchedFacts ==
    ASSUME NEW p \in ProducerSet, NEW a \in Nat, NEW b \in Nat, b <= Len(Listing[p])
    PROVE  /\ SubSeq(Listing[p], a + 1, b) \in Seq(Keys)
           /\ Range(SubSeq(Listing[p], a + 1, b)) = OnPages(p, (a + 1)..b)
<1> DEFINE s == Listing[p]
           q == SubSeq(s, a + 1, b)
<1>1. s \in Seq(Keys) /\ b <= Len(s)
  BY ConstantFacts
<1> HIDE DEF s
<1>2. q \in Seq(Keys) /\ Len(q) = IF a <= b THEN b - a ELSE 0
  BY <1>1
<1>3. \A i \in 1..Len(q) : q[i] = s[a + i]
  BY <1>1, <1>2
<1>4. \A i \in (a + 1)..b : i - a \in 1..Len(q) /\ q[i - a] = s[i]
  BY <1>1, <1>2, <1>3
<1>5. \A i \in 1..Len(q) : a + i \in (a + 1)..b
  BY <1>1, <1>2
<1>6. DOMAIN q = 1..Len(q)
  BY <1>2
<1>7. \A i \in DOMAIN q : \E n \in (a + 1)..b : q[i] = s[n]
  BY <1>3, <1>5, <1>6
<1>8. \A n \in (a + 1)..b : \E i \in DOMAIN q : q[i] = s[n]
  BY <1>4, <1>6
<1> HIDE DEF q
<1>9. Range(q) = {s[i] : i \in (a + 1)..b}
  BY <1>7, <1>8 DEF Range
<1> QED
  BY <1>2, <1>9 DEF OnPages, q, s

-----------------------------------------------------------------------------
(* The types.                                                                *)
\* A statement leaves a table.
LEMMA ExecuteType ==
    ASSUME NEW table \in [Keys -> Nat], NEW s
    PROVE  Execute(table, s) \in [Keys -> Nat]
<1>1. \A k \in Keys : table[k] \in Nat /\ table[k] + 1 \in Nat
  OBVIOUS
<1> QED
  BY <1>1 DEF Execute

\* The statements of the adapters are statements.
LEMMA StatementTypes ==
    /\ \A k \in Keys : /\ Upsert(k) \in Statements
                       /\ Insert(k) \in Statements
                       /\ Delete({k}) \in Statements
    /\ \A K \in SUBSET Keys : Keep(K) \in Statements
  BY DEF Upsert, Insert, Delete, Keep, Statements

\* An operation is rendered to statements.
LEMMA RenderType ==
    ASSUME TypeOK, NEW k \in Keys
    PROVE  RenderInsertRows(k) \in Seq(Statements)
<1>1. target \in {"postgres", "clickhouse"}
  BY ConstantFacts DEF TypeOK
<1>2. PostgresInsertRows(k) \in Seq(Statements)
  BY StatementTypes, ShortSeqs DEF PostgresInsertRows
<1>3. ClickHouseInsertRows(k) \in Seq(Statements)
  BY StatementTypes, ShortSeqs DEF ClickHouseInsertRows
<1>4. <<>> \in Seq(Statements)
  OBVIOUS
<1> QED
  BY <1>1, <1>2, <1>3, <1>4 DEF RenderInsertRows

\* So is a full sync.
LEMMA FullSyncType ==
    ASSUME NEW rows \in SUBSET Keys
    PROVE  ExportFullSyncSQL(rows) \in Seq(Statements)
<1> DEFINE q == SetToSeq(rows)
<1>1. q \in Seq(Keys) /\ Range(q) \in SUBSET Keys
  BY SetToSeqFacts
<1>2. Len(q) \in Nat /\ DOMAIN q = 1..Len(q) /\ \A i \in 1..Len(q) : q[i] \in Keys
  BY <1>1
<1>3. [i \in DOMAIN q |-> Upsert(q[i])] \in Seq(Statements)
  <2>1. [i \in 1..Len(q) |-> Upsert(q[i])] \in [1..Len(q) -> Statements]
    BY <1>2, StatementTypes
  <2> QED
    BY <1>2, <2>1
<1>4. [i \in DOMAIN q |-> Insert(q[i])] \in Seq(Statements)
  <2>1. [i \in 1..Len(q) |-> Insert(q[i])] \in [1..Len(q) -> Statements]
    BY <1>2, StatementTypes
  <2> QED
    BY <1>2, <2>1
<1>5. <<Keep(Range(q))>> \in Seq(Statements) /\ <<Keep({})>> \in Seq(Statements)
  BY <1>1, StatementTypes, ShortSeqs
<1>6. PostgresFullSync(q) \in Seq(Statements)
  BY <1>3, <1>5, ConcatFacts DEF PostgresFullSync
<1>7. ClickHouseFullSync(q) \in Seq(Statements)
  BY <1>4, <1>5, ConcatFacts DEF ClickHouseFullSync
<1> QED
  BY <1>6, <1>7 DEF ExportFullSyncSQL

\* The checkpoint pending for a producer is one of the list.
LEMMA CursorType ==
    ASSUME TypeOK, NEW p \in ProducerSet, Pending(p)
    PROVE  /\ Cursor(p) \in Nat
           /\ \E i \in DOMAIN pending :
                 pending[i].producer = p /\ pending[i].cursor = Cursor(p)
<1> DEFINE c == CHOOSE d \in Range(pending) : d.producer = p
<1>1. c \in Range(pending) /\ c.producer = p
  BY DEF Pending
<1>2. PICK i \in DOMAIN pending : pending[i] = c
  BY <1>1 DEF Range
<1>3. pending[i] \in Cursors
  BY <1>2, SeqFacts DEF TypeOK
<1> QED
  BY <1>1, <1>2, <1>3 DEF Cursor, Cursors

\* The initial state has the types.
LEMMA TypeInit == Init => TypeOK
<1> SUFFICES ASSUME Init PROVE TypeOK
  OBVIOUS
<1>1. env \in Counts
  BY ConstantsAssumption DEF Init, Counts, ConstantsAssumption
<1>2. \A p \in ProducerSet : 0 <= Len(Listing[p])
  BY ConstantFacts
<1> QED
  BY <1>1, <1>2 DEF Init, TypeOK, Empty, NoSync, FullSyncs

\* Every step keeps the types.
LEMMA TypeStep == TypeOK /\ [Next]_vars => TypeOK'
<1> SUFFICES ASSUME TypeOK, [Next]_vars PROVE TypeOK'
  OBVIOUS
<1> USE DEF api, tables, plan
<1>a. /\ Fail => env' \in Counts
      /\ Restart => env' \in Counts
      /\ \A k \in Keys : Offer(k) => env' \in Counts
  <2>1. env \in Counts
    BY DEF TypeOK
  <2>2. /\ env.changes \in Nat /\ env.changes <= MaxChanges
        /\ env.failures \in Nat /\ env.failures <= MaxFailures
        /\ env.restarts \in Nat /\ env.restarts <= MaxRestarts
        /\ env = [changes |-> env.changes, failures |-> env.failures, restarts |-> env.restarts]
        /\ MaxChanges \in Nat /\ MaxFailures \in Nat /\ MaxRestarts \in Nat
    BY <2>1, ConstantsAssumption DEF Counts, ConstantsAssumption
  <2>3. \A c \in 0..MaxChanges, f \in 0..MaxFailures, r \in 0..MaxRestarts :
           [changes |-> c, failures |-> f, restarts |-> r] \in Counts
    BY DEF Counts
  <2>4. env.failures < MaxFailures => [env EXCEPT !.failures = @ + 1] \in Counts
    <3>1. [env EXCEPT !.failures = @ + 1] =
             [changes |-> env.changes, failures |-> env.failures + 1, restarts |-> env.restarts]
      BY <2>2
    <3>2. env.failures < MaxFailures => env.failures + 1 \in 0..MaxFailures
      BY <2>2
    <3>3. /\ env.changes \in 0..MaxChanges
          /\ env.failures \in 0..MaxFailures
          /\ env.restarts \in 0..MaxRestarts
      BY <2>2
    <3> QED
      BY <2>3, <3>1, <3>2, <3>3
  <2>5. env.restarts < MaxRestarts => [env EXCEPT !.restarts = @ + 1] \in Counts
    <3>1. [env EXCEPT !.restarts = @ + 1] =
             [changes |-> env.changes, failures |-> env.failures, restarts |-> env.restarts + 1]
      BY <2>2
    <3>2. env.restarts < MaxRestarts => env.restarts + 1 \in 0..MaxRestarts
      BY <2>2
    <3>3. /\ env.changes \in 0..MaxChanges
          /\ env.failures \in 0..MaxFailures
          /\ env.restarts \in 0..MaxRestarts
      BY <2>2
    <3> QED
      BY <2>3, <3>1, <3>2, <3>3
  <2>6. env.changes < MaxChanges => [env EXCEPT !.changes = @ + 1] \in Counts
    <3>1. [env EXCEPT !.changes = @ + 1] =
             [changes |-> env.changes + 1, failures |-> env.failures, restarts |-> env.restarts]
      BY <2>2
    <3>2. env.changes < MaxChanges => env.changes + 1 \in 0..MaxChanges
      BY <2>2
    <3>3. /\ env.changes \in 0..MaxChanges
          /\ env.failures \in 0..MaxFailures
          /\ env.restarts \in 0..MaxRestarts
      BY <2>2
    <3> QED
      BY <2>3, <3>1, <3>2, <3>3
  <2> QED
    BY <2>4, <2>5, <2>6 DEF Fail, Restart, Offer
<1>b. ASSUME EndCycle, UNCHANGED <<target, api, tables>>,
             known' \in SUBSET Keys, checkpoints' \in [ProducerSet -> Nat],
             env' \in Counts
      PROVE  TypeOK'
  BY <1>b DEF TypeOK, EndCycle, Empty, NoSync, FullSyncs
<1>1. CASE StartCycle
  BY <1>1 DEF TypeOK, StartCycle
<1>2. ASSUME FetchingProducer
      PROVE  /\ Producers[turn] \in ProducerSet
             /\ checkpoints[Producers[turn]] \in Nat
             /\ length[Producers[turn]] \in Nat
             /\ length[Producers[turn]] <= Len(Listing[Producers[turn]])
             /\ turn + 1 \in Nat \ {0}
  <2>1. turn \in 1..Len(Producers) /\ turn + 1 \in Nat \ {0}
    BY <1>2, ConstantFacts DEF FetchingProducer, TypeOK
  <2>2. Producers[turn] \in ProducerSet
    BY <2>1, ConstantFacts
  <2> QED
    BY <2>1, <2>2 DEF TypeOK
<1>3. CASE FetchProducer
  <2> DEFINE p == Producers[turn]
  <2>1. FetchingProducer
    BY <1>3 DEF FetchProducer
  <2>2. SubSeq(Listing[p], checkpoints[p] + 1, length[p]) \in Seq(Keys)
    BY <2>1, <1>2, FetchedFacts
  <2>3. inserts' \in Seq(Keys)
    BY <1>3, <2>2, ConcatFacts DEF FetchProducer, TypeOK
  <2>4. work' \in SUBSET Keys
    BY <1>3, <2>1, <1>2, PagesType DEF FetchProducer, TypeOK
  <2>5. [producer |-> p, cursor |-> LastPage(p)] \in Cursors
    BY <2>1, <1>2 DEF Cursors, LastPage
  <2>6. pending' \in Seq(Cursors)
    BY <1>3, <2>5, AppendFacts DEF FetchProducer, TypeOK
  <2> QED
    BY <1>3, <2>1, <1>2, <2>3, <2>4, <2>6 DEF FetchProducer, TypeOK
<1>4. CASE FetchProducerFails
  <2>1. FetchingProducer
    BY <1>4 DEF FetchProducerFails
  <2>2. work' \in SUBSET Keys
    <3> DEFINE p == Producers[turn]
    <3>1. PICK n \in checkpoints[p]..length[p] :
             work' = work \cup OnPages(p, (checkpoints[p] + 1)..n)
      BY <1>4 DEF FetchProducerFails
    <3>2. n \in Nat /\ n <= Len(Listing[p])
      BY <2>1, <1>2, ConstantFacts
    <3> QED
      BY <2>1, <1>2, <3>1, <3>2, PagesType DEF TypeOK
  <2> QED
    BY <1>4, <1>a, <2>1, <1>2, <2>2 DEF FetchProducerFails, TypeOK
<1>5. CASE FetchConsumer
  <2>1. full' \in FullSyncs
    BY <1>5 DEF FetchConsumer, FinishPlan, NoSync, TypeOK, FullSyncs
  <2> QED
    BY <1>5, <2>1 DEF FetchConsumer, FinishPlan, TypeOK
<1>6. CASE FetchConsumerFails
  <2>1. PICK failed \in SUBSET work :
           FinishPlan([present |-> TRUE, rows |-> (offered \cap work) \ failed])
    BY <1>6 DEF FetchConsumerFails
  <2>2. full' \in FullSyncs
    BY <2>1 DEF FinishPlan, TypeOK, FullSyncs
  <2> QED
    BY <1>6, <1>a, <2>1, <2>2 DEF FetchConsumerFails, FinishPlan, TypeOK
<1>7. CASE ExportOperation
  <2>1. inserts[turn] \in Keys
    BY <1>7, SeqFacts DEF ExportOperation, TypeOK
  <2>2. statements' \in Seq(Statements)
    BY <1>7, <2>1, RenderType DEF ExportOperation
  <2>3. turn' \in Nat \ {0}
    BY <1>7 DEF ExportOperation, TypeOK
  <2> QED
    BY <1>7, <2>2, <2>3 DEF ExportOperation, TypeOK
<1>8. CASE ExecuteUpsertPlan
  <2>1. users' \in [Keys -> Nat] /\ statements' \in Seq(Statements)
    BY <1>8, ExecuteType, HeadTailFacts DEF ExecuteUpsertPlan, TypeOK
  <2>2. doomed' \in SUBSET Keys
    BY <1>8 DEF ExecuteUpsertPlan, Dooms, Present, TypeOK
  <2> QED
    BY <1>8, <2>1, <2>2 DEF ExecuteUpsertPlan, TypeOK
<1>9. CASE FinishApply
  <2>1. full.rows \in SUBSET Keys
    BY DEF TypeOK, FullSyncs
  <2> QED
    BY <1>9, <2>1, FullSyncType DEF FinishApply, TypeOK
<1>10. CASE ExecuteInTransaction
  <2>1. view' \in [Keys -> Nat] /\ statements' \in Seq(Statements)
    BY <1>10, ExecuteType, HeadTailFacts DEF ExecuteInTransaction, TypeOK
  <2> QED
    BY <1>10, <2>1 DEF ExecuteInTransaction, TypeOK
<1>11. CASE ExecuteAtOnce
  <2>1. orders' \in [Keys -> Nat] /\ statements' \in Seq(Statements)
    BY <1>11, ExecuteType, HeadTailFacts DEF ExecuteAtOnce, TypeOK
  <2> QED
    BY <1>11, <2>1 DEF ExecuteAtOnce, TypeOK
<1>12. CASE FinishFullSync
  BY <1>12 DEF FinishFullSync, TypeOK
<1>13. CASE SaveCheckpoints
  <2>1. checkpoints' \in [ProducerSet -> Nat]
    BY <1>13, CursorType DEF SaveCheckpoints, TypeOK
  <2> QED
    BY <1>13, <2>1 DEF SaveCheckpoints, TypeOK
<1>14. CASE SaveCheckpoint
  <2>1. Head(pending) \in Cursors /\ pending' \in Seq(Cursors)
    BY <1>14, HeadTailFacts DEF SaveCheckpoint, TypeOK
  <2>2. checkpoints' \in [ProducerSet -> Nat]
    BY <1>14, <2>1 DEF SaveCheckpoint, TypeOK, Cursors
  <2> QED
    BY <1>14, <2>1, <2>2 DEF SaveCheckpoint, TypeOK
<1>15. CASE CommitCycle
  BY <1>15, <1>b DEF CommitCycle, TypeOK
<1>16. CASE DropPlan
  BY <1>16, <1>a, <1>b DEF DropPlan, TypeOK
<1>17. CASE Restart
  BY <1>17, <1>a, <1>b DEF Restart, TypeOK
<1>18. ASSUME NEW p \in ProducerSet, Grow(p) PROVE TypeOK'
  <2>1. length[p] + 1 \in Nat /\ length[p] + 1 <= Len(Listing[p])
    BY <1>18, ConstantFacts DEF Grow, TypeOK
  <2>2. length' \in [ProducerSet -> Nat] /\ \A q \in ProducerSet : length'[q] <= Len(Listing[q])
    BY <1>18, <2>1 DEF Grow, TypeOK
  <2> QED
    BY <1>18, <2>2 DEF Grow, TypeOK
<1>19. ASSUME NEW k \in Keys, Offer(k) PROVE TypeOK'
  BY <1>19, <1>a DEF Offer, TypeOK
<1>20. ASSUME NEW k \in Keys, RemoveDoomed(k) PROVE TypeOK'
  BY <1>20, <1>a DEF RemoveDoomed, TypeOK
<1>21. CASE UNCHANGED vars
  BY <1>21 DEF vars, TypeOK
<1> QED
  BY <1>1, <1>3, <1>4, <1>5, <1>6, <1>7, <1>8, <1>9, <1>10, <1>11, <1>12, <1>13, <1>14,
     <1>15, <1>16, <1>17, <1>18, <1>19, <1>20, <1>21
     DEF Next, Cycle, Api

-----------------------------------------------------------------------------
(* The inductive invariant.                                                  *)

\* A checkpoint is on a page that the API has, or on the first.  Outside of a
\* cycle nothing is left of one, and a cycle that fetches has no statements.
CursorInv ==
    /\ \A p \in ProducerSet : checkpoints[p] = 0 \/ checkpoints[p] < length[p]
    /\ pc = "idle" => inserts = <<>> /\ pending = <<>> /\ statements = <<>> /\ full = NoSync
    /\ pc = "fetch" => statements = <<>> /\ full = NoSync

\* The rows that a pending checkpoint, once it is saved, excludes from later
\* cycles of its producer.
Advanced(i) ==
    OnPages(pending[i].producer,
            (checkpoints[pending[i].producer] + 1)..pending[i].cursor)

\* The rows of a plan are on pages behind a checkpoint, so that none is
\* settled, and its checkpoints, one per producer, do not move back and exclude
\* nothing but rows of the plan, whose values have been published.
PlanInv ==
    /\ Range(inserts) \subseteq AllListed
    /\ pc \in {"fetch", "apply"} => Range(inserts) \cap Settled = {}
    /\ pc = "fetch" =>
          \A i \in DOMAIN pending : \E j \in 1..(turn - 1) : pending[i].producer = Producers[j]
    /\ \A i, j \in DOMAIN pending : pending[i].producer = pending[j].producer => i = j
    /\ \A i \in DOMAIN pending :
          /\ checkpoints[pending[i].producer] <= pending[i].cursor
          /\ pending[i].cursor = 0 \/ pending[i].cursor < length[pending[i].producer]
          /\ Advanced(i) \subseteq Range(inserts) \cap work

\* The statement that leaves the row of a key in the table.
Writes(k) == IF target = "postgres" THEN Upsert(k) ELSE Insert(k)

\* A row whose operation has been rendered is in the table or about to be
\* written, and what is left of an operation writes a row of the plan; on
\* clickhouse the insert comes when the row has been deleted.
ApplyInv ==
    pc = "apply" =>
        /\ turn <= Len(inserts) + 1
        /\ \A k \in Seen : users[k] > 0 \/ Writes(k) \in Range(statements)
        /\ \/ statements = <<>>
           \/ \E k \in Range(inserts) :
                 \/ target = "postgres" /\ statements = <<Upsert(k)>>
                 \/ target = "clickhouse" /\ statements = <<Delete({k}), Insert(k)>>
                 \/ target = "clickhouse" /\ statements = <<Insert(k)>> /\ users[k] = 0

\* Once its checkpoints may be saved, the rows of a plan are in the table.
StoredInv ==
    /\ Settled \subseteq Present(users)
    /\ pc \in {"fullsync", "save"} => Range(inserts) \subseteq Present(users)

\* Only clickhouse has deletions that are still to be carried out.
DoomedInv == target = "postgres" => doomed = {}

\* Of a full sync on postgres: a row that is in the plan and not yet in the
\* table, or in the table and not in the plan, has its statement yet to come.
\* On clickhouse the table has been cleared, or will be, and it holds only rows
\* of the plan that are not inserted again.
ReloadInv ==
    pc = "fullsync" =>
        IF target = "postgres"
        THEN /\ Range(statements) \subseteq {Upsert(k) : k \in full.rows} \cup {Keep(full.rows)}
             /\ \A k \in full.rows : view[k] > 0 \/ Upsert(k) \in Range(statements)
             /\ \A k \in Keys \ full.rows : view[k] = 0 \/ Keep(full.rows) \in Range(statements)
        ELSE /\ view = orders
             /\ \/ statements = ClickHouseFullSync(SetToSeq(full.rows))
                \/ /\ Range(statements) \subseteq {Insert(k) : k \in full.rows}
                   /\ IsInjective(statements)
                   /\ \A k \in Present(orders) :
                         k \in full.rows /\ Insert(k) \notin Range(statements)

\* The values known are among those of the cycle under way, and on postgres,
\* until a restart, the values before a checkpoint are known, or will be when the
\* cycle that has saved its checkpoints is committed.
KnownInv ==
    /\ pc # "idle" => known \subseteq work
    /\ target = "postgres" /\ env.restarts = 0 =>
          Covered \subseteq IF pc = "save" /\ pending = <<>> THEN work ELSE known

\* The transaction's own view of the table, too, holds no row twice.
OnceInv ==
    /\ OneRowRemains
    /\ pc = "fullsync" => \A k \in Keys : view[k] <= 1

-----------------------------------------------------------------------------
(* Plans and checkpoints.                                                    *)
\* The empty sequence has no elements.
LEMMA NoElements ==
    ASSUME NEW T, NEW s \in Seq(T), s = <<>>
    PROVE  /\ DOMAIN s = {}
           /\ Range(s) = {}
<1>1. DOMAIN s = {}
  OBVIOUS
<1>2. Range(s) = {}
  BY <1>1 DEF Range
<1> QED
  BY <1>1, <1>2

\* The entries of a list of checkpoints.
LEMMA PendingFacts ==
    ASSUME TypeOK
    PROVE  /\ Len(pending) \in Nat
           /\ DOMAIN pending = 1..Len(pending)
           /\ \A i \in DOMAIN pending : /\ pending[i].producer \in ProducerSet
                                        /\ pending[i].cursor \in Nat
<1>1. pending \in Seq(Cursors)
  BY DEF TypeOK
<1>2. Len(pending) \in Nat /\ DOMAIN pending = 1..Len(pending)
  BY <1>1
<1>3. \A i \in DOMAIN pending : pending[i] \in Cursors
  BY <1>1
<1> QED
  BY <1>2, <1>3 DEF Cursors

\* More pages hold more keys.
LEMMA PagesMonotonic ==
    ASSUME NEW p, NEW a \in Nat, NEW b \in Nat, NEW c \in Nat, NEW d \in Nat,
           a <= c, d <= b
    PROVE  OnPages(p, (c + 1)..d) \subseteq OnPages(p, (a + 1)..b)
<1>1. \A i \in (c + 1)..d : i \in (a + 1)..b
  OBVIOUS
<1> QED
  BY <1>1 DEF OnPages

\* A listing only grows.
LEMMA GrowFacts ==
    ASSUME TypeOK, NEW p \in ProducerSet, Grow(p)
    PROVE  \A q \in ProducerSet : /\ length[q] \in Nat /\ length'[q] \in Nat
                                  /\ length[q] <= length'[q]
<1>1. length \in [ProducerSet -> Nat] /\ length' = [length EXCEPT ![p] = length[p] + 1]
  BY DEF TypeOK, Grow
<1>2. \A q \in ProducerSet : length[q] \in Nat
  BY <1>1
<1>3. \A q \in ProducerSet : length'[q] = IF q = p THEN length[p] + 1 ELSE length[q]
  BY <1>1
<1> QED
  BY <1>2, <1>3

\* A key that is listed stays listed.
LEMMA ListedMonotonic ==
    ASSUME TypeOK, NEW p \in ProducerSet, Grow(p)
    PROVE  AllListed \subseteq AllListed'
<1>1. \A q \in ProducerSet : 1..length[q] \subseteq 1..length'[q]
  BY GrowFacts
<1>2. \A q \in ProducerSet : OnPages(q, 1..length[q]) \subseteq OnPages(q, 1..length'[q])
  BY <1>1 DEF OnPages
<1> QED
  BY <1>2 DEF AllListed

\* Every step keeps checkpoints on pages that the API has.
LEMMA CursorStep == TypeOK /\ CursorInv /\ PlanInv /\ [Next]_vars => CursorInv'
<1> SUFFICES ASSUME TypeOK, CursorInv, PlanInv, [Next]_vars PROVE CursorInv'
  OBVIOUS
<1> USE DEF api, tables, plan
<1>a. ASSUME EndCycle, UNCHANGED <<length, checkpoints>> PROVE CursorInv'
  BY <1>a DEF CursorInv, EndCycle
<1>1. CASE StartCycle
  BY <1>1 DEF CursorInv, StartCycle
<1>2. CASE FetchProducer
  BY <1>2 DEF CursorInv, FetchProducer, FetchingProducer
<1>3. CASE FetchProducerFails
  BY <1>3 DEF CursorInv, FetchProducerFails, FetchingProducer
<1>4. CASE FetchConsumer
  BY <1>4 DEF CursorInv, FetchConsumer, FinishPlan
<1>5. CASE FetchConsumerFails
  BY <1>5 DEF CursorInv, FetchConsumerFails, FinishPlan
<1>6. CASE ExportOperation
  BY <1>6 DEF CursorInv, ExportOperation
<1>7. CASE ExecuteUpsertPlan
  BY <1>7 DEF CursorInv, ExecuteUpsertPlan
<1>8. CASE FinishApply
  BY <1>8 DEF CursorInv, FinishApply
<1>9. CASE ExecuteInTransaction
  BY <1>9 DEF CursorInv, ExecuteInTransaction
<1>10. CASE ExecuteAtOnce
  BY <1>10 DEF CursorInv, ExecuteAtOnce
<1>11. CASE FinishFullSync
  BY <1>11 DEF CursorInv, FinishFullSync
<1>12. CASE SaveCheckpoints
  <2>1. ASSUME NEW p \in ProducerSet
        PROVE  checkpoints'[p] = 0 \/ checkpoints'[p] < length'[p]
    <3>1. CASE Pending(p)
      <4>1. PICK i \in DOMAIN pending : pending[i].producer = p /\ pending[i].cursor = Cursor(p)
        BY <3>1, CursorType
      <4>2. checkpoints'[p] = Cursor(p)
        BY <1>12, <3>1 DEF SaveCheckpoints
      <4> QED
        BY <1>12, <4>1, <4>2 DEF PlanInv, SaveCheckpoints
    <3>2. CASE ~Pending(p)
      BY <1>12, <3>2 DEF SaveCheckpoints, CursorInv
    <3> QED
      BY <3>1, <3>2
  <2> QED
    BY <1>12, <2>1 DEF CursorInv, SaveCheckpoints
<1>13. CASE SaveCheckpoint
  <2>1. 1 \in DOMAIN pending /\ Head(pending) = pending[1]
    BY <1>13, HeadTailFacts DEF SaveCheckpoint, TypeOK
  <2>2. pending[1].cursor = 0 \/ pending[1].cursor < length[pending[1].producer]
    BY <2>1 DEF PlanInv
  <2>3. pending[1].producer \in ProducerSet
    BY <2>1, PendingFacts
  <2>4. \A p \in ProducerSet : checkpoints'[p] =
           IF p = pending[1].producer THEN pending[1].cursor ELSE checkpoints[p]
    BY <1>13, <2>1, <2>3 DEF SaveCheckpoint, TypeOK
  <2>5. \A p \in ProducerSet : checkpoints'[p] = 0 \/ checkpoints'[p] < length'[p]
    BY <1>13, <2>2, <2>4 DEF SaveCheckpoint, CursorInv
  <2> QED
    BY <1>13, <2>5 DEF CursorInv, SaveCheckpoint
<1>14. CASE CommitCycle
  BY <1>14, <1>a DEF CommitCycle
<1>15. CASE DropPlan
  BY <1>15, <1>a DEF DropPlan
<1>16. CASE Restart
  BY <1>16, <1>a DEF Restart
<1>17. ASSUME NEW p \in ProducerSet, Grow(p) PROVE CursorInv'
  <2>1. \A q \in ProducerSet : length[q] \in Nat /\ length'[q] \in Nat /\ length[q] <= length'[q]
    BY <1>17, GrowFacts
  <2>2. \A q \in ProducerSet : checkpoints[q] \in Nat
    BY DEF TypeOK
  <2>3. \A q \in ProducerSet : checkpoints'[q] = 0 \/ checkpoints'[q] < length'[q]
    BY <1>17, <2>1, <2>2 DEF Grow, CursorInv
  <2> QED
    BY <1>17, <2>3 DEF Grow, CursorInv
<1>18. ASSUME NEW k \in Keys, Offer(k) PROVE CursorInv'
  BY <1>18 DEF Offer, CursorInv
<1>19. ASSUME NEW k \in Keys, RemoveDoomed(k) PROVE CursorInv'
  BY <1>19 DEF RemoveDoomed, CursorInv
<1>20. CASE UNCHANGED vars
  BY <1>20 DEF vars, CursorInv
<1> QED
  BY <1>1, <1>2, <1>3, <1>4, <1>5, <1>6, <1>7, <1>8, <1>9, <1>10, <1>11, <1>12, <1>13, <1>14,
     <1>15, <1>16, <1>17, <1>18, <1>19, <1>20
     DEF Next, Cycle, Api

\* Every step keeps the plan about rows that are not settled.
LEMMA PlanStep == TypeOK /\ CursorInv /\ PlanInv /\ [Next]_vars => PlanInv'
<1> SUFFICES ASSUME TypeOK, CursorInv, PlanInv, [Next]_vars PROVE PlanInv'
  OBVIOUS
<1> USE DEF api, tables, plan
<1>a. ASSUME UNCHANGED <<length, checkpoints, inserts, pending>>, work \subseteq work',
             pc' \in {"fetch", "apply"} => pc \in {"fetch", "apply"},
             pc' = "fetch" => pc = "fetch" /\ turn \in Nat /\ turn' \in Nat /\ turn <= turn'
      PROVE  PlanInv'
  <2>1. AllListed' = AllListed /\ Covered' = Covered
    BY <1>a DEF AllListed, Covered
  <2>2. Settled' = Settled
    BY <1>a, <2>1 DEF Settled
  <2>3. \A i : Advanced(i)' = Advanced(i)
    BY <1>a DEF Advanced
  <2>4. pc' = "fetch" =>
           \A i \in DOMAIN pending : \E j \in 1..(turn' - 1) : pending[i].producer = Producers[j]
    BY <1>a DEF PlanInv
  <2> QED
    BY <1>a, <2>1, <2>2, <2>3, <2>4 DEF PlanInv
<1>b. ASSUME inserts' = <<>>, pending' = <<>> PROVE PlanInv'
  <2>1. inserts' \in Seq(Keys) /\ pending' \in Seq(Cursors)
    BY <1>b
  <2>2. DOMAIN pending' = {} /\ Range(inserts') = {}
    BY <1>b, <2>1, NoElements
  <2> QED
    BY <2>2 DEF PlanInv
<1>c. EndCycle => PlanInv'
  BY <1>b DEF EndCycle
<1>1. CASE StartCycle
  BY <1>1, <1>b DEF CursorInv, StartCycle
<1>2. CASE FetchProducer
  <2> DEFINE p == Producers[turn]
             q == SubSeq(Listing[p], checkpoints[p] + 1, length[p])
             new == [producer |-> p, cursor |-> LastPage(p)]
  <2>1. /\ pc = "fetch" /\ turn \in 1..Len(Producers) /\ p \in ProducerSet
        /\ checkpoints[p] \in Nat /\ length[p] \in Nat /\ length[p] <= Len(Listing[p])
        /\ Len(Listing[p]) \in Nat
        /\ p = Producers[turn]
    <3>1. pc = "fetch" /\ turn \in 1..Len(Producers)
      BY <1>2, ConstantFacts DEF FetchProducer, FetchingProducer, TypeOK
    <3>2. p \in ProducerSet
      BY <3>1, ConstantFacts
    <3> QED
      BY <3>1, <3>2, ConstantFacts DEF TypeOK
  <2>2. q \in Seq(Keys) /\ Range(q) = OnPages(p, (checkpoints[p] + 1)..length[p])
    BY <2>1, FetchedFacts
  <2>3. /\ inserts' = inserts \o q
        /\ pending' = Append(pending, new)
    BY <1>2 DEF FetchProducer
  <2>4. /\ new \in Cursors /\ new.producer = p /\ new.cursor = LastPage(p)
    BY <2>1 DEF Cursors, LastPage
  <2>5. /\ UNCHANGED <<length, checkpoints, pc>> /\ turn' = turn + 1
        /\ work' = work \cup OnPages(p, (checkpoints[p] + 1)..length[p])
    BY <1>2 DEF FetchProducer
  <2> HIDE DEF p, q, new
  <2>6. Range(inserts') = Range(inserts) \cup Range(q)
    BY <2>2, <2>3, ConcatFacts DEF TypeOK
  <2>7. AllListed' = AllListed /\ Settled' = Settled
    BY <2>5 DEF AllListed, Covered, Settled
  <2>8. Range(inserts') \subseteq AllListed'
    <3>1. \A i \in (checkpoints[p] + 1)..length[p] : i \in 1..length[p]
      BY <2>1
    <3>2. OnPages(p, (checkpoints[p] + 1)..length[p]) \subseteq OnPages(p, 1..length[p])
      BY <3>1 DEF OnPages
    <3>3. OnPages(p, 1..length[p]) \subseteq AllListed
      BY <2>1 DEF AllListed
    <3> QED
      BY <2>2, <2>6, <2>7, <3>2, <3>3 DEF PlanInv
  <2>9. Range(inserts') \cap Settled' = {}
    <3>1. OnPages(p, (checkpoints[p] + 1)..length[p])
             \subseteq OnPages(p, (checkpoints[p] + 1)..Len(Listing[p]))
      BY <2>1, PagesMonotonic
    <3>2. OnPages(p, (checkpoints[p] + 1)..Len(Listing[p])) \cap Settled = {}
      BY <2>1 DEF Settled
    <3> QED
      BY <2>1, <2>2, <2>6, <2>7, <3>1, <3>2 DEF PlanInv
  <2>10. /\ Len(pending) \in Nat
         /\ DOMAIN pending = 1..Len(pending)
         /\ DOMAIN pending' = 1..(Len(pending) + 1)
         /\ \A i \in DOMAIN pending : pending'[i] = pending[i]
         /\ pending'[Len(pending) + 1] = new
    BY <2>3, <2>4, AppendFacts DEF TypeOK
  <2>11. \A i \in DOMAIN pending' : i \in DOMAIN pending \/ i = Len(pending) + 1
    BY <2>10
  <2>12. \A i \in DOMAIN pending : \E j \in 1..(turn - 1) : pending[i].producer = Producers[j]
    BY <2>1 DEF PlanInv
  <2>13. \A i \in DOMAIN pending' : \E j \in 1..(turn' - 1) : pending'[i].producer = Producers[j]
    <3>1. turn' - 1 = turn /\ 1..(turn - 1) \subseteq 1..turn /\ turn \in 1..turn
      BY <2>1, <2>5
    <3>2. \A i \in DOMAIN pending : \E j \in 1..turn : pending'[i].producer = Producers[j]
      BY <2>12, <2>10, <3>1
    <3>3. pending'[Len(pending) + 1].producer = Producers[turn]
      BY <2>1, <2>4, <2>10
    <3> QED
      BY <2>11, <3>1, <3>2, <3>3
  <2>14. \A i \in DOMAIN pending : pending[i].producer # p
    <3>1. \A j \in 1..(turn - 1) : j \in 1..Len(Producers) /\ j # turn
      BY <2>1, ConstantFacts
    <3>2. \A j \in 1..(turn - 1) : Producers[j] # p
      BY <2>1, <3>1, ConstantFacts
    <3> QED
      BY <2>12, <3>2
  <2>15. \A i, j \in DOMAIN pending' : pending'[i].producer = pending'[j].producer => i = j
    <3>1. \A i, j \in DOMAIN pending : pending[i].producer = pending[j].producer => i = j
      BY DEF PlanInv
    <3> QED
      BY <2>4, <2>10, <2>11, <2>14, <3>1
  <2>16. ASSUME NEW i \in DOMAIN pending'
         PROVE  /\ checkpoints'[pending'[i].producer] <= pending'[i].cursor
                /\ pending'[i].cursor = 0 \/ pending'[i].cursor < length'[pending'[i].producer]
                /\ Advanced(i)' \subseteq Range(inserts') \cap work'
    <3>1. CASE i \in DOMAIN pending
      <4>1. pending'[i] = pending[i]
        BY <2>10, <3>1
      <4>2. Advanced(i)' = Advanced(i)
        BY <2>5, <4>1 DEF Advanced
      <4> QED
        BY <2>6, <2>5, <3>1, <4>1, <4>2 DEF PlanInv
    <3>2. CASE i = Len(pending) + 1
      <4>1. pending'[i].producer = p /\ pending'[i].cursor = LastPage(p)
        BY <2>4, <2>10, <3>2
      <4>2. checkpoints[p] = 0 \/ checkpoints[p] < length[p]
        BY <2>1 DEF CursorInv
      <4>3. /\ LastPage(p) \in Nat /\ LastPage(p) <= length[p]
            /\ checkpoints[p] <= LastPage(p)
            /\ LastPage(p) = 0 \/ LastPage(p) < length[p]
        BY <2>1, <4>2 DEF LastPage
      <4>4. OnPages(p, (checkpoints[p] + 1)..LastPage(p))
               \subseteq OnPages(p, (checkpoints[p] + 1)..length[p])
        BY <2>1, <4>3, PagesMonotonic
      <4>5. Advanced(i)' = OnPages(p, (checkpoints[p] + 1)..LastPage(p))
        BY <2>5, <4>1 DEF Advanced
      <4> QED
        BY <2>2, <2>6, <2>5, <4>1, <4>3, <4>4, <4>5
    <3> QED
      BY <2>11, <3>1, <3>2
  <2> QED
    BY <2>8, <2>9, <2>13, <2>15, <2>16 DEF PlanInv
<1>3. CASE FetchProducerFails
  BY <1>3, <1>a DEF FetchProducerFails, FetchingProducer, TypeOK
<1>4. CASE FetchConsumer
  BY <1>4, <1>a DEF FetchConsumer, FetchingConsumer, FinishPlan
<1>5. CASE FetchConsumerFails
  BY <1>5, <1>a DEF FetchConsumerFails, FetchingConsumer, FinishPlan
<1>6. CASE ExportOperation
  BY <1>6, <1>a DEF ExportOperation
<1>7. CASE ExecuteUpsertPlan
  BY <1>7, <1>a DEF ExecuteUpsertPlan
<1>8. CASE FinishApply
  BY <1>8, <1>a DEF FinishApply
<1>9. CASE ExecuteInTransaction
  BY <1>9, <1>a DEF ExecuteInTransaction
<1>10. CASE ExecuteAtOnce
  BY <1>10, <1>a DEF ExecuteAtOnce
<1>11. CASE FinishFullSync
  BY <1>11, <1>a DEF FinishFullSync
<1>12. CASE SaveCheckpoints
  <2>1. pc' = "save" /\ inserts' = inserts /\ length' = length /\ pending' = <<>>
    BY <1>12 DEF SaveCheckpoints
  <2>2. AllListed' = AllListed
    BY <2>1 DEF AllListed
  <2>3. pending' \in Seq(Cursors)
    BY <2>1
  <2>4. DOMAIN pending' = {}
    BY <2>1, <2>3, NoElements
  <2> QED
    BY <2>1, <2>2, <2>4 DEF PlanInv
<1>13. CASE SaveCheckpoint
  <2>1. /\ pending' = Tail(pending)
        /\ Len(pending) \in Nat \ {0}
        /\ DOMAIN pending = 1..Len(pending)
        /\ DOMAIN pending' = 1..(Len(pending) - 1)
        /\ \A i \in 1..(Len(pending) - 1) : pending'[i] = pending[i + 1]
        /\ Head(pending) = pending[1]
    BY <1>13, HeadTailFacts DEF SaveCheckpoint, TypeOK
  <2>2. pc' = "save" /\ inserts' = inserts /\ length' = length /\ work' = work
    BY <1>13 DEF SaveCheckpoint
  <2>3. AllListed' = AllListed
    BY <2>2 DEF AllListed
  <2>4. \A i \in DOMAIN pending' : i + 1 \in DOMAIN pending /\ i + 1 # 1 /\ 1 \in DOMAIN pending
    BY <2>1
  <2>5. \A i, j \in DOMAIN pending : pending[i].producer = pending[j].producer => i = j
    BY DEF PlanInv
  <2>6. \A i, j \in DOMAIN pending' : pending'[i].producer = pending'[j].producer => i = j
    BY <2>1, <2>4, <2>5
  <2>7. ASSUME NEW i \in DOMAIN pending'
        PROVE  /\ checkpoints'[pending'[i].producer] <= pending'[i].cursor
               /\ pending'[i].cursor = 0 \/ pending'[i].cursor < length'[pending'[i].producer]
               /\ Advanced(i)' \subseteq Range(inserts') \cap work'
    <3>1. pending'[i] = pending[i + 1] /\ i + 1 \in DOMAIN pending
      BY <2>1, <2>4
    <3>2. pending[i + 1].producer # pending[1].producer
      BY <2>4, <2>5
    <3>3. pending[i + 1].producer \in ProducerSet
      BY <3>1, PendingFacts
    <3>4. checkpoints'[pending[i + 1].producer] = checkpoints[pending[i + 1].producer]
      BY <1>13, <2>1, <3>2, <3>3 DEF SaveCheckpoint, TypeOK
    <3>5. Advanced(i)' = Advanced(i + 1)
      BY <3>1, <3>4 DEF Advanced
    <3> QED
      BY <2>2, <3>1, <3>4, <3>5 DEF PlanInv
  <2> QED
    BY <2>2, <2>3, <2>6, <2>7 DEF PlanInv
<1>14. CASE CommitCycle
  BY <1>14, <1>c DEF CommitCycle
<1>15. CASE DropPlan
  BY <1>15, <1>c DEF DropPlan
<1>16. CASE Restart
  BY <1>16, <1>c DEF Restart
<1>17. ASSUME NEW p \in ProducerSet, Grow(p) PROVE PlanInv'
  <2>1. UNCHANGED <<checkpoints, inserts, pending, pc, turn, work>>
    BY <1>17 DEF Grow
  <2>2. Settled' = Settled
    BY <2>1 DEF Settled, Covered
  <2>3. \A i : Advanced(i)' = Advanced(i)
    BY <2>1 DEF Advanced
  <2>4. AllListed \subseteq AllListed'
    BY <1>17, ListedMonotonic
  <2>5. \A i \in DOMAIN pending :
           pending[i].cursor = 0 \/ pending[i].cursor < length'[pending[i].producer]
    <3>1. \A i \in DOMAIN pending :
             pending[i].cursor = 0 \/ pending[i].cursor < length[pending[i].producer]
      BY DEF PlanInv
    <3>2. \A i \in DOMAIN pending :
             /\ pending[i].cursor \in Nat
             /\ length[pending[i].producer] \in Nat /\ length'[pending[i].producer] \in Nat
             /\ length[pending[i].producer] <= length'[pending[i].producer]
      BY <1>17, PendingFacts, GrowFacts
    <3> QED
      BY <3>1, <3>2
  <2> QED
    BY <2>1, <2>2, <2>3, <2>4, <2>5 DEF PlanInv
<1>18. ASSUME NEW k \in Keys, Offer(k) PROVE PlanInv'
  BY <1>18, <1>a DEF Offer, TypeOK
<1>19. ASSUME NEW k \in Keys, RemoveDoomed(k) PROVE PlanInv'
  BY <1>19, <1>a DEF RemoveDoomed, TypeOK
<1>20. CASE UNCHANGED vars
  BY <1>20, <1>a DEF vars, TypeOK
<1> QED
  BY <1>1, <1>2, <1>3, <1>4, <1>5, <1>6, <1>7, <1>8, <1>9, <1>10, <1>11, <1>12, <1>13, <1>14,
     <1>15, <1>16, <1>17, <1>18, <1>19, <1>20
     DEF Next, Cycle, Api

-----------------------------------------------------------------------------
(* What the statements do, and how they differ.                              *)
\* What a statement makes of the number of rows with a key.
LEMMA StatementEffects ==
    ASSUME NEW table \in [Keys -> Nat], NEW j \in Keys
    PROVE  /\ \A k \in Keys : /\ Execute(table, Upsert(k))[j] = (IF j = k THEN 1 ELSE table[j])
                              /\ Execute(table, Insert(k))[j] =
                                    (IF j = k THEN table[j] + 1 ELSE table[j])
           /\ \A K : /\ Execute(table, Delete(K))[j] = (IF j \in K THEN 0 ELSE table[j])
                     /\ Execute(table, Keep(K))[j] = (IF j \in K THEN table[j] ELSE 0)
<1>1. \A s : Execute(table, s)[j] =
         CASE s.sql = "upsert" /\ j \in s.keys -> 1
           [] s.sql = "insert" /\ j \in s.keys -> table[j] + 1
           [] s.sql = "delete" /\ j \in s.keys -> 0
           [] s.sql = "keep" /\ j \notin s.keys -> 0
           [] OTHER -> table[j]
  BY DEF Execute
<1>2. \A k \in Keys : Upsert(k).sql = "upsert" /\ Upsert(k).keys = {k}
  BY DEF Upsert
<1>3. \A k \in Keys : Insert(k).sql = "insert" /\ Insert(k).keys = {k}
  BY DEF Insert
<1>4. \A K : Delete(K).sql = "delete" /\ Delete(K).keys = K
  BY DEF Delete
<1>5. \A K : Keep(K).sql = "keep" /\ Keep(K).keys = K
  BY DEF Keep
<1>6. \A k \in Keys : Execute(table, Upsert(k))[j] = (IF j = k THEN 1 ELSE table[j])
  BY <1>1, <1>2
<1>7. \A k \in Keys : Execute(table, Insert(k))[j] = (IF j = k THEN table[j] + 1 ELSE table[j])
  BY <1>1, <1>3
<1>8. \A K : Execute(table, Delete(K))[j] = (IF j \in K THEN 0 ELSE table[j])
  BY <1>1, <1>4
<1>9. \A K : Execute(table, Keep(K))[j] = (IF j \in K THEN table[j] ELSE 0)
  BY <1>1, <1>5
<1> QED
  BY <1>6, <1>7, <1>8, <1>9

\* Statements of different kinds, or about different keys, are different.
LEMMA StatementsDiffer ==
    /\ \A j, k \in Keys : /\ Upsert(j) = Upsert(k) => j = k
                          /\ Insert(j) = Insert(k) => j = k
                          /\ Insert(j) # Delete({k})
    /\ \A k \in Keys : \A K : Upsert(k) # Keep(K) /\ Insert(k) # Keep(K)
<1>1. \A j, k \in Keys : {j} = {k} => j = k
  OBVIOUS
<1>2. \A k \in Keys : /\ Upsert(k).sql = "upsert" /\ Upsert(k).keys = {k}
                      /\ Insert(k).sql = "insert" /\ Insert(k).keys = {k}
  BY DEF Upsert, Insert
<1>3. \A K : Delete(K).sql = "delete" /\ Keep(K).sql = "keep"
  BY DEF Delete, Keep
<1>4. "upsert" # "keep" /\ "insert" # "keep" /\ "insert" # "delete"
  OBVIOUS
<1>5. \A j, k \in Keys : Upsert(j) = Upsert(k) => j = k
  BY <1>1, <1>2
<1>6. \A j, k \in Keys : Insert(j) = Insert(k) => j = k
  BY <1>1, <1>2
<1>7. \A j, k \in Keys : Insert(j) # Delete({k})
  BY <1>2, <1>3, <1>4
<1>8. \A k \in Keys : \A K : Upsert(k) # Keep(K) /\ Insert(k) # Keep(K)
  BY <1>2, <1>3, <1>4
<1> QED
  BY <1>5, <1>6, <1>7, <1>8

-----------------------------------------------------------------------------
(* The upsert plan.                                                          *)
\* The keys that have been rendered, in the end all of the plan's.
LEMMA SeenFacts ==
    ASSUME TypeOK
    PROVE  /\ turn <= Len(inserts) + 1 => Seen \subseteq Keys
           /\ turn = 1 => Seen = {}
           /\ turn > Len(inserts) => Range(inserts) \subseteq Seen
           /\ ExportOperation => Seen' = Seen \cup {inserts[turn]}
<1>1. /\ turn \in Nat \ {0} /\ Len(inserts) \in Nat /\ DOMAIN inserts = 1..Len(inserts)
      /\ \A i \in 1..Len(inserts) : inserts[i] \in Keys
  BY SeqFacts DEF TypeOK
<1>2. turn <= Len(inserts) + 1 => \A i \in 1..(turn - 1) : i \in 1..Len(inserts)
  BY <1>1
<1>3. turn = 1 => 1..(turn - 1) = {}
  BY <1>1
<1>4. turn > Len(inserts) => \A i \in 1..Len(inserts) : i \in 1..(turn - 1)
  BY <1>1
<1>5. ASSUME ExportOperation PROVE Seen' = Seen \cup {inserts[turn]}
  <2>1. inserts' = inserts /\ turn' = turn + 1
    BY <1>5 DEF ExportOperation, plan
  <2>2. 1..(turn' - 1) = (1..(turn - 1)) \cup {turn}
    BY <1>1, <2>1
  <2> QED
    BY <2>1, <2>2 DEF Seen
<1>6. turn > Len(inserts) => Range(inserts) \subseteq Seen
  BY <1>1, <1>4 DEF Seen, Range
<1>7. turn = 1 => Seen = {}
  BY <1>3 DEF Seen
<1>8. turn <= Len(inserts) + 1 => Seen \subseteq Keys
  BY <1>1, <1>2 DEF Seen
<1> QED
  BY <1>5, <1>6, <1>7, <1>8

\* Every step keeps track of the rows that have been rendered.
LEMMA ApplyStep == TypeOK /\ CursorInv /\ ApplyInv /\ [Next]_vars => ApplyInv'
<1> SUFFICES ASSUME TypeOK, CursorInv, ApplyInv, [Next]_vars PROVE ApplyInv'
  OBVIOUS
<1> USE DEF api, tables, plan
<1>1. /\ users \in [Keys -> Nat] /\ Range(inserts) \subseteq Keys /\ Len(inserts) \in Nat
      /\ target \in {"postgres", "clickhouse"}
      /\ turn' = 1 => 1..(turn' - 1) = {}
  BY SeqFacts, ConstantFacts DEF TypeOK
<1>a. ASSUME pc' # "apply" PROVE ApplyInv'
  BY <1>a DEF ApplyInv
<1>b. ASSUME UNCHANGED <<target, users, pc, turn, inserts, statements>> PROVE ApplyInv'
  BY <1>b DEF ApplyInv, Seen, Writes
<1>c. ASSUME turn' = 1, statements' = <<>>, inserts' = inserts PROVE ApplyInv'
  <2>1. Seen' = {}
    BY <1>1, <1>c DEF Seen
  <2>2. turn' <= Len(inserts') + 1
    BY <1>1, <1>c
  <2> QED
    BY <1>c, <2>1, <2>2 DEF ApplyInv
<1>2. CASE StartCycle
  BY <1>2, <1>a DEF StartCycle
<1>3. CASE FetchProducer
  BY <1>3, <1>a DEF FetchProducer, FetchingProducer
<1>4. CASE FetchProducerFails
  BY <1>4, <1>a DEF FetchProducerFails, FetchingProducer
<1>5. CASE FetchConsumer
  BY <1>5, <1>c DEF FetchConsumer, FetchingConsumer, FinishPlan, CursorInv
<1>6. CASE FetchConsumerFails
  BY <1>6, <1>c DEF FetchConsumerFails, FetchingConsumer, FinishPlan, CursorInv
<1>7. CASE ExportOperation
  <2> DEFINE k == inserts[turn]
  <2>1. /\ pc = "apply" /\ UNCHANGED <<target, users, inserts>>
        /\ statements = <<>> /\ statements' = RenderInsertRows(k)
        /\ turn' = turn + 1 /\ turn <= Len(inserts)
    BY <1>7 DEF ExportOperation
  <2>2. turn \in DOMAIN inserts /\ turn' <= Len(inserts') + 1
    BY <2>1, SeqFacts DEF TypeOK
  <2>3. k \in Range(inserts) /\ k \in Keys
    BY <1>1, <2>2 DEF Range
  <2>4. Range(statements) = {}
    <3>1. statements \in Seq(Statements)
      BY DEF TypeOK
    <3> QED
      BY <2>1, <3>1, NoElements
  <2>5. Seen' = Seen \cup {k}
    BY <1>7, SeenFacts
  <2> HIDE DEF k
  <2>6. \A j \in Seen : users'[j] > 0
    BY <2>1, <2>4 DEF ApplyInv
  <2>7. CASE k \in Seen
    <3>1. statements' = <<>>
      BY <2>1, <2>7 DEF RenderInsertRows
    <3>2. Seen' = Seen
      BY <2>5, <2>7
    <3> QED
      BY <2>2, <2>6, <3>1, <3>2 DEF ApplyInv
  <2>8. CASE k \notin Seen /\ target = "postgres"
    <3>1. statements' = <<Upsert(k)>>
      BY <2>1, <2>8 DEF RenderInsertRows, PostgresInsertRows
    <3>2. \A j : Writes(j)' = Upsert(j)
      BY <2>1, <2>8 DEF Writes
    <3>3. Range(statements') = {Upsert(k)}
      BY <2>3, <3>1, StatementTypes, ShortSeqs
    <3> QED
      BY <2>1, <2>2, <2>3, <2>5, <2>6, <2>8, <3>1, <3>2, <3>3 DEF ApplyInv
  <2>9. CASE k \notin Seen /\ target = "clickhouse"
    <3>1. statements' = <<Delete({k}), Insert(k)>>
      BY <2>1, <2>9 DEF RenderInsertRows, ClickHouseInsertRows
    <3>2. \A j : Writes(j)' = Insert(j)
      BY <2>1, <2>9 DEF Writes
    <3>3. Range(statements') = {Delete({k}), Insert(k)}
      BY <3>1, PairRange
    <3> QED
      BY <2>1, <2>2, <2>3, <2>5, <2>6, <2>9, <3>1, <3>2, <3>3 DEF ApplyInv
  <2> QED
    BY <1>1, <2>7, <2>8, <2>9
<1>8. CASE ExecuteUpsertPlan
  <2>1. /\ pc = "apply" /\ UNCHANGED <<target, pc, turn, inserts>>
        /\ statements # <<>>
        /\ users' = Execute(users, Head(statements))
        /\ statements' = Tail(statements)
    BY <1>8 DEF ExecuteUpsertPlan
  <2>2. Seen' = Seen /\ \A j : Writes(j)' = Writes(j)
    BY <2>1 DEF Seen, Writes
  <2>3. /\ turn <= Len(inserts) + 1
        /\ \A j \in Seen : users[j] > 0 \/ Writes(j) \in Range(statements)
    BY <2>1 DEF ApplyInv
  <2>4. Seen \subseteq Keys
    BY <2>3, SeenFacts
  <2>5. PICK k \in Range(inserts) :
           \/ target = "postgres" /\ statements = <<Upsert(k)>>
           \/ target = "clickhouse" /\ statements = <<Delete({k}), Insert(k)>>
           \/ target = "clickhouse" /\ statements = <<Insert(k)>> /\ users[k] = 0
    BY <2>1 DEF ApplyInv
  <2>6. k \in Keys /\ k \in Range(inserts')
    BY <1>1, <2>1, <2>5
  <2>7. \A j \in Keys : users[j] \in Nat
    BY <1>1
  <2>8. CASE target = "postgres" /\ statements = <<Upsert(k)>>
    <3>1. Head(statements) = Upsert(k) /\ Tail(statements) = <<>> /\ Range(statements) = {Upsert(k)}
      BY <2>6, <2>8, StatementTypes, ShortSeqs
    <3>2. \A j \in Keys : users'[j] = IF j = k THEN 1 ELSE users[j]
      BY <1>1, <2>1, <2>6, <3>1, StatementEffects
    <3>3. \A j \in Seen : users[j] > 0 \/ j = k
      BY <2>3, <2>4, <2>6, <2>8, <3>1, StatementsDiffer DEF Writes
    <3>4. \A j \in Seen : users'[j] > 0
      BY <2>4, <3>2, <3>3
    <3> QED
      BY <2>1, <2>2, <2>3, <3>1, <3>4 DEF ApplyInv
  <2>9. CASE target = "clickhouse" /\ statements = <<Delete({k}), Insert(k)>>
    <3>1. /\ Head(statements) = Delete({k}) /\ Tail(statements) = <<Insert(k)>>
          /\ Range(statements) = {Delete({k}), Insert(k)}
          /\ Range(<<Insert(k)>>) = {Insert(k)}
      <4>1. Delete({k}) \in Statements /\ Insert(k) \in Statements
        BY <2>6, StatementTypes
      <4>2. Range(<<Insert(k)>>) = {Insert(k)}
        BY <4>1, ShortSeqs
      <4>3. Range(<<Delete({k}), Insert(k)>>) = {Delete({k}), Insert(k)}
        BY PairRange
      <4> QED
        BY <2>9, <4>2, <4>3
    <3>2. \A j \in Keys : users'[j] = IF j = k THEN 0 ELSE users[j]
      BY <1>1, <2>1, <2>6, <3>1, StatementEffects
    <3>3. \A j \in Seen : users[j] > 0 \/ j = k
      BY <2>3, <2>4, <2>6, <2>9, <3>1, StatementsDiffer DEF Writes
    <3>4. \A j \in Seen : users'[j] > 0 \/ Writes(j)' \in Range(statements')
      BY <2>1, <2>2, <2>4, <2>9, <3>1, <3>2, <3>3 DEF Writes
    <3> QED
      BY <2>1, <2>2, <2>3, <2>6, <2>9, <3>1, <3>2, <3>4 DEF ApplyInv
  <2>10. CASE target = "clickhouse" /\ statements = <<Insert(k)>> /\ users[k] = 0
    <3>1. Head(statements) = Insert(k) /\ Tail(statements) = <<>> /\ Range(statements) = {Insert(k)}
      BY <2>6, <2>10, StatementTypes, ShortSeqs
    <3>2. \A j \in Keys : users'[j] = IF j = k THEN users[j] + 1 ELSE users[j]
      BY <1>1, <2>1, <2>6, <3>1, StatementEffects
    <3>3. \A j \in Seen : users[j] > 0 \/ j = k
      BY <2>3, <2>4, <2>6, <2>10, <3>1, StatementsDiffer DEF Writes
    <3>4. \A j \in Seen : users'[j] > 0
      BY <2>4, <2>7, <3>2, <3>3
    <3> QED
      BY <2>1, <2>2, <2>3, <3>1, <3>4 DEF ApplyInv
  <2> QED
    BY <2>5, <2>8, <2>9, <2>10
<1>9. CASE FinishApply
  BY <1>9, <1>a DEF FinishApply
<1>10. CASE ExecuteInTransaction
  BY <1>10, <1>a DEF ExecuteInTransaction
<1>11. CASE ExecuteAtOnce
  BY <1>11, <1>a DEF ExecuteAtOnce
<1>12. CASE FinishFullSync
  BY <1>12, <1>a DEF FinishFullSync
<1>13. CASE SaveCheckpoints
  BY <1>13, <1>a DEF SaveCheckpoints
<1>14. CASE SaveCheckpoint
  BY <1>14, <1>a DEF SaveCheckpoint
<1>15. CASE CommitCycle
  BY <1>15, <1>a DEF CommitCycle, EndCycle
<1>16. CASE DropPlan
  BY <1>16, <1>a DEF DropPlan, EndCycle
<1>17. CASE Restart
  BY <1>17, <1>a DEF Restart, EndCycle
<1>18. ASSUME NEW p \in ProducerSet, Grow(p) PROVE ApplyInv'
  BY <1>18, <1>b DEF Grow
<1>19. ASSUME NEW k \in Keys, Offer(k) PROVE ApplyInv'
  BY <1>19, <1>b DEF Offer
<1>20. ASSUME NEW k \in Keys, RemoveDoomed(k) PROVE ApplyInv'
  BY <1>20, <1>b DEF RemoveDoomed
<1>21. CASE UNCHANGED vars
  BY <1>21, <1>b DEF vars
<1> QED
  BY <1>2, <1>3, <1>4, <1>5, <1>6, <1>7, <1>8, <1>9, <1>10, <1>11, <1>12, <1>13, <1>14, <1>15,
     <1>16, <1>17, <1>18, <1>19, <1>20, <1>21
     DEF Next, Cycle, Api

\* Checkpoints that do not move back settle no row but those they pass.
LEMMA SettleLemma ==
    ASSUME NEW R, UNCHANGED length,
           \A p \in ProducerSet : /\ checkpoints[p] \in Nat /\ checkpoints'[p] \in Nat
                                  /\ checkpoints[p] <= checkpoints'[p]
                                  /\ OnPages(p, (checkpoints[p] + 1)..checkpoints'[p]) \subseteq R
    PROVE  /\ Covered \subseteq Covered'
           /\ Covered' \subseteq Covered \cup R
           /\ Settled \subseteq Settled'
           /\ Settled' \subseteq Settled \cup R
<1> DEFINE last(p) == Len(Listing[p])
<1>1. \A p \in ProducerSet : last(p) \in Nat
  BY ConstantFacts
<1> HIDE DEF last
<1>2. ASSUME NEW p \in ProducerSet
      PROVE  /\ \A i \in 1..checkpoints[p] : i \in 1..checkpoints'[p]
             /\ \A i \in 1..checkpoints'[p] :
                   i \in 1..checkpoints[p] \/ i \in (checkpoints[p] + 1)..checkpoints'[p]
             /\ \A i \in (checkpoints'[p] + 1)..last(p) : i \in (checkpoints[p] + 1)..last(p)
             /\ \A i \in (checkpoints[p] + 1)..last(p) :
                   \/ i \in (checkpoints'[p] + 1)..last(p)
                   \/ i \in (checkpoints[p] + 1)..checkpoints'[p]
  BY <1>1
<1>3. ASSUME NEW p \in ProducerSet
      PROVE  /\ OnPages(p, 1..checkpoints[p]) \subseteq OnPages(p, 1..checkpoints'[p])
             /\ OnPages(p, 1..checkpoints'[p]) \subseteq OnPages(p, 1..checkpoints[p]) \cup R
             /\ OnPages(p, (checkpoints'[p] + 1)..last(p))
                   \subseteq OnPages(p, (checkpoints[p] + 1)..last(p))
             /\ OnPages(p, (checkpoints[p] + 1)..last(p))
                   \subseteq OnPages(p, (checkpoints'[p] + 1)..last(p)) \cup R
  BY <1>2 DEF OnPages
<1>4. Covered \subseteq Covered' /\ Covered' \subseteq Covered \cup R
  BY <1>3 DEF Covered
<1>5. Settled = {k \in Covered : \A p \in ProducerSet :
                    k \notin OnPages(p, (checkpoints[p] + 1)..last(p))}
  BY DEF Settled, last
<1>6. Settled' = {k \in Covered' : \A p \in ProducerSet :
                     k \notin OnPages(p, (checkpoints'[p] + 1)..last(p))}
  BY DEF Settled, last
<1>7. Settled \subseteq Settled'
  BY <1>3, <1>4, <1>5, <1>6
<1>8. Settled' \subseteq Settled \cup R
  BY <1>3, <1>4, <1>5, <1>6
<1> QED
  BY <1>4, <1>7, <1>8

\* Both ways to save checkpoints settle no row but those of the plan.
LEMMA SaveLemma ==
    ASSUME TypeOK, PlanInv, SaveCheckpoints \/ SaveCheckpoint
    PROVE  /\ Covered' \subseteq Covered \cup (Range(inserts) \cap work)
           /\ Settled \subseteq Settled'
           /\ Settled' \subseteq Settled \cup (Range(inserts) \cap work)
<1>1. UNCHANGED length
  BY DEF SaveCheckpoints, SaveCheckpoint, api
<1>2. ASSUME NEW p \in ProducerSet
      PROVE  \/ checkpoints'[p] = checkpoints[p]
             \/ \E i \in DOMAIN pending :
                   pending[i].producer = p /\ checkpoints'[p] = pending[i].cursor
  <2>1. CASE SaveCheckpoints
    <3>1. CASE Pending(p)
      BY <2>1, <3>1, CursorType DEF SaveCheckpoints
    <3>2. CASE ~Pending(p)
      BY <2>1, <3>2 DEF SaveCheckpoints
    <3> QED
      BY <3>1, <3>2
  <2>2. CASE SaveCheckpoint
    <3>1. Head(pending) = pending[1] /\ 1 \in DOMAIN pending
      BY <2>2, HeadTailFacts DEF SaveCheckpoint, TypeOK
    <3>2. checkpoints'[p] = IF p = pending[1].producer THEN pending[1].cursor ELSE checkpoints[p]
      BY <2>2, <3>1 DEF SaveCheckpoint, TypeOK
    <3> QED
      BY <3>1, <3>2
  <2> QED
    BY <2>1, <2>2
<1>3. ASSUME NEW p \in ProducerSet
      PROVE  /\ checkpoints[p] \in Nat /\ checkpoints'[p] \in Nat
             /\ checkpoints[p] <= checkpoints'[p]
             /\ OnPages(p, (checkpoints[p] + 1)..checkpoints'[p]) \subseteq Range(inserts) \cap work
  <2>1. checkpoints[p] \in Nat
    BY DEF TypeOK
  <2>2. CASE checkpoints'[p] = checkpoints[p]
    <3>1. (checkpoints[p] + 1)..checkpoints'[p] = {}
      BY <2>1, <2>2
    <3>2. OnPages(p, (checkpoints[p] + 1)..checkpoints'[p]) = {}
      BY <3>1 DEF OnPages
    <3> QED
      BY <2>1, <2>2, <3>2
  <2>3. ASSUME NEW i \in DOMAIN pending,
               pending[i].producer = p, checkpoints'[p] = pending[i].cursor
        PROVE  /\ checkpoints'[p] \in Nat
               /\ checkpoints[p] <= checkpoints'[p]
               /\ OnPages(p, (checkpoints[p] + 1)..checkpoints'[p])
                     \subseteq Range(inserts) \cap work
    BY <2>3, PendingFacts DEF PlanInv, Advanced
  <2> QED
    BY <1>2, <2>1, <2>2, <2>3
<1> QED
  BY <1>1, <1>3, SettleLemma

\* A row that is settled is not deleted: the statements of a plan are about its
\* rows, of which none is settled.  A deletion takes nothing from the reader yet.
LEMMA UpsertPlanKeeps ==
    ASSUME TypeOK, PlanInv, ApplyInv, ExecuteUpsertPlan
    PROVE  \E k \in Range(inserts) :
              /\ k \in Keys \ Settled
              /\ \A j \in Keys \ {k} : users'[j] = users[j]
              /\ \/ users'[k] = 1 /\ doomed' = doomed
                 \/ /\ users'[k] = 0 /\ target = "clickhouse"
                    /\ doomed' = doomed \cup ({k} \cap Present(users))
<1>1. /\ pc = "apply" /\ statements # <<>> /\ users' = Execute(users, Head(statements))
      /\ doomed' = doomed \cup Dooms(Head(statements))
      /\ users \in [Keys -> Nat]
      /\ Range(inserts) \subseteq Keys
  BY SeqFacts DEF ExecuteUpsertPlan, TypeOK
<1>2. PICK k \in Range(inserts) :
         \/ target = "postgres" /\ statements = <<Upsert(k)>>
         \/ target = "clickhouse" /\ statements = <<Delete({k}), Insert(k)>>
         \/ target = "clickhouse" /\ statements = <<Insert(k)>> /\ users[k] = 0
  BY <1>1 DEF ApplyInv
<1>3. k \in Keys \ Settled
  BY <1>1, <1>2 DEF PlanInv
<1>4. /\ Upsert(k) \in Statements /\ Insert(k) \in Statements /\ Delete({k}) \in Statements
  BY <1>3, StatementTypes
<1>5. CASE target = "postgres" /\ statements = <<Upsert(k)>>
  <2>1. Head(statements) = Upsert(k)
    BY <1>4, <1>5, ShortSeqs
  <2>2. \A j \in Keys : users'[j] = IF j = k THEN 1 ELSE users[j]
    BY <1>1, <1>3, <2>1, StatementEffects
  <2>3. Dooms(Head(statements)) = {}
    BY <2>1 DEF Dooms, Upsert
  <2> QED
    BY <1>2, <1>3, <1>1, <2>2, <2>3
<1>6. CASE target = "clickhouse" /\ statements = <<Delete({k}), Insert(k)>>
  <2>1. Head(statements) = Delete({k})
    BY <1>4, <1>6, ShortSeqs
  <2>2. \A j \in Keys : users'[j] = IF j = k THEN 0 ELSE users[j]
    BY <1>1, <1>3, <2>1, StatementEffects
  <2>3. Dooms(Head(statements)) = {k} \cap Present(users)
    BY <2>1 DEF Dooms, Delete
  <2> QED
    BY <1>2, <1>3, <1>6, <1>1, <2>2, <2>3
<1>7. CASE target = "clickhouse" /\ statements = <<Insert(k)>> /\ users[k] = 0
  <2>1. Head(statements) = Insert(k)
    BY <1>4, <1>7, ShortSeqs
  <2>2. \A j \in Keys : users'[j] = IF j = k THEN users[j] + 1 ELSE users[j]
    BY <1>1, <1>3, <2>1, StatementEffects
  <2>3. Dooms(Head(statements)) = {}
    BY <2>1 DEF Dooms, Insert
  <2> QED
    BY <1>2, <1>3, <1>7, <1>1, <2>2, <2>3
<1> QED
  BY <1>2, <1>5, <1>6, <1>7

\* No step on postgres has deletions carried out later.
LEMMA DoomedStep ==
    TypeOK /\ PlanInv /\ ApplyInv /\ DoomedInv /\ [Next]_vars => DoomedInv'
<1> SUFFICES ASSUME TypeOK, PlanInv, ApplyInv, DoomedInv, [Next]_vars PROVE DoomedInv'
  OBVIOUS
<1> USE DEF api, tables, plan
<1>a. ASSUME UNCHANGED <<target, doomed>> PROVE DoomedInv'
  BY <1>a DEF DoomedInv
<1>1. CASE StartCycle \/ FetchProducer \/ FetchProducerFails
  BY <1>1, <1>a DEF StartCycle, FetchProducer, FetchProducerFails
<1>2. CASE FetchConsumer \/ FetchConsumerFails
  BY <1>2, <1>a DEF FetchConsumer, FetchConsumerFails, FinishPlan
<1>3. CASE ExportOperation \/ FinishApply
  BY <1>3, <1>a DEF ExportOperation, FinishApply
<1>4. CASE ExecuteUpsertPlan
  <2>1. doomed' = doomed \/ target = "clickhouse"
    BY <1>4, UpsertPlanKeeps
  <2> QED
    BY <1>4, <2>1 DEF ExecuteUpsertPlan, DoomedInv
<1>5. CASE ExecuteInTransaction \/ ExecuteAtOnce \/ FinishFullSync
  BY <1>5, <1>a DEF ExecuteInTransaction, ExecuteAtOnce, FinishFullSync
<1>6. CASE SaveCheckpoints \/ SaveCheckpoint
  BY <1>6, <1>a DEF SaveCheckpoints, SaveCheckpoint
<1>7. CASE CommitCycle \/ DropPlan \/ Restart
  BY <1>7, <1>a DEF CommitCycle, DropPlan, Restart
<1>8. ASSUME NEW p \in ProducerSet, Grow(p) PROVE DoomedInv'
  BY <1>8, <1>a DEF Grow
<1>9. ASSUME NEW k \in Keys, Offer(k) PROVE DoomedInv'
  BY <1>9, <1>a DEF Offer
<1>10. ASSUME NEW k \in Keys, RemoveDoomed(k) PROVE DoomedInv'
  BY <1>10 DEF RemoveDoomed, DoomedInv
<1>11. CASE UNCHANGED vars
  BY <1>11, <1>a DEF vars
<1> QED
  BY <1>1, <1>2, <1>3, <1>4, <1>5, <1>6, <1>7, <1>8, <1>9, <1>10, <1>11 DEF Next, Cycle, Api

\* Every step keeps the settled rows in the table.
LEMMA StoredStep ==
    TypeOK /\ CursorInv /\ PlanInv /\ ApplyInv /\ StoredInv /\ [Next]_vars => StoredInv'
<1> SUFFICES ASSUME TypeOK, CursorInv, PlanInv, ApplyInv, StoredInv, [Next]_vars
             PROVE  StoredInv'
  OBVIOUS
<1> USE DEF api, tables, plan
<1>a. ASSUME UNCHANGED <<users, checkpoints>>,
             pc' \in {"fullsync", "save"} => pc \in {"fullsync", "save"} /\ inserts' = inserts
      PROVE  StoredInv'
  <2>1. Settled' = Settled
    BY <1>a DEF Settled, Covered
  <2> QED
    BY <1>a, <2>1 DEF StoredInv, Present
<1>b. ASSUME UNCHANGED <<users, checkpoints>>, EndCycle PROVE StoredInv'
  BY <1>a, <1>b DEF EndCycle
<1>1. CASE StartCycle
  BY <1>1, <1>a DEF StartCycle
<1>2. CASE FetchProducer
  BY <1>2, <1>a DEF FetchProducer, FetchingProducer
<1>3. CASE FetchProducerFails
  BY <1>3, <1>a DEF FetchProducerFails, FetchingProducer
<1>4. CASE FetchConsumer
  BY <1>4, <1>a DEF FetchConsumer, FinishPlan
<1>5. CASE FetchConsumerFails
  BY <1>5, <1>a DEF FetchConsumerFails, FinishPlan
<1>6. CASE ExportOperation
  BY <1>6, <1>a DEF ExportOperation
<1>7. CASE ExecuteUpsertPlan
  <2>1. PICK k \in Range(inserts) :
           k \in Keys \ Settled /\ \A j \in Keys \ {k} : users'[j] = users[j]
    BY <1>7, UpsertPlanKeeps
  <2>2. Settled' = Settled
    BY <1>7 DEF ExecuteUpsertPlan, Settled, Covered
  <2>3. Settled' \subseteq Present(users)'
    BY <2>1, <2>2 DEF StoredInv, Present
  <2> QED
    BY <1>7, <2>3 DEF StoredInv, ExecuteUpsertPlan
<1>8. CASE FinishApply
  <2>1. pc = "apply" /\ statements = <<>> /\ turn > Len(inserts)
        /\ UNCHANGED <<users, checkpoints, inserts>>
    BY <1>8 DEF FinishApply
  <2>2. Range(statements) = {}
    BY <2>1, NoElements DEF TypeOK
  <2>3. Range(inserts) \subseteq Seen /\ Range(inserts) \subseteq Keys
    BY <2>1, SeenFacts, SeqFacts DEF TypeOK
  <2>4. Range(inserts) \subseteq Present(users)
    BY <2>1, <2>2, <2>3 DEF ApplyInv, Present
  <2>5. Settled' = Settled
    BY <2>1 DEF Settled, Covered
  <2> QED
    BY <2>1, <2>4, <2>5 DEF StoredInv, Present
<1>9. CASE ExecuteInTransaction
  BY <1>9, <1>a DEF ExecuteInTransaction
<1>10. CASE ExecuteAtOnce
  BY <1>10, <1>a DEF ExecuteAtOnce
<1>11. CASE FinishFullSync
  BY <1>11, <1>a DEF FinishFullSync
<1>12. CASE SaveCheckpoints \/ SaveCheckpoint
  <2>1. pc = "save" /\ pc' = pc /\ UNCHANGED <<users, inserts>>
    BY <1>12 DEF SaveCheckpoints, SaveCheckpoint
  <2>2. Settled' \subseteq Settled \cup Range(inserts)
    BY <1>12, SaveLemma
  <2> QED
    BY <2>1, <2>2 DEF StoredInv, Present
<1>13. CASE CommitCycle
  BY <1>13, <1>b DEF CommitCycle
<1>14. CASE DropPlan
  BY <1>14, <1>b DEF DropPlan
<1>15. CASE Restart
  BY <1>15, <1>b DEF Restart
<1>16. ASSUME NEW p \in ProducerSet, Grow(p) PROVE StoredInv'
  BY <1>16, <1>a DEF Grow
<1>17. ASSUME NEW k \in Keys, Offer(k) PROVE StoredInv'
  BY <1>17, <1>a DEF Offer
<1>18. ASSUME NEW k \in Keys, RemoveDoomed(k) PROVE StoredInv'
  BY <1>18, <1>a DEF RemoveDoomed
<1>19. CASE UNCHANGED vars
  BY <1>19, <1>a DEF vars
<1> QED
  BY <1>1, <1>2, <1>3, <1>4, <1>5, <1>6, <1>7, <1>8, <1>9, <1>10, <1>11, <1>12, <1>13,
     <1>14, <1>15, <1>16, <1>17, <1>18, <1>19
     DEF Next, Cycle, Api

-----------------------------------------------------------------------------
(* The full sync.                                                            *)
\* In a sequence without repetitions the head is not met again.
LEMMA InjectiveTail ==
    ASSUME NEW T, NEW s \in Seq(T), s # <<>>, IsInjective(s)
    PROVE  IsInjective(Tail(s)) /\ Head(s) \notin Range(Tail(s))
<1>1. /\ Len(s) \in Nat \ {0}
      /\ Head(s) = s[1]
      /\ DOMAIN Tail(s) = 1..(Len(s) - 1)
      /\ DOMAIN s = 1..Len(s)
      /\ \A i \in 1..(Len(s) - 1) : Tail(s)[i] = s[i + 1]
  BY HeadTailFacts
<1>2. \A i \in 1..(Len(s) - 1) : i + 1 \in 1..Len(s) /\ i + 1 # 1 /\ 1 \in 1..Len(s)
  BY <1>1
<1>3. \A i, j \in 1..Len(s) : s[i] = s[j] => i = j
  BY <1>1 DEF IsInjective
<1>4. \A i \in 1..(Len(s) - 1) : Tail(s)[i] # Head(s)
  BY <1>1, <1>2, <1>3
<1>5. \A i, j \in 1..(Len(s) - 1) : Tail(s)[i] = Tail(s)[j] => i + 1 = j + 1
  BY <1>1, <1>2, <1>3
<1>6. \A i, j \in 1..(Len(s) - 1) : Tail(s)[i] = Tail(s)[j] => i = j
  BY <1>5
<1>7. IsInjective(Tail(s))
  BY <1>1, <1>6 DEF IsInjective
<1>8. Head(s) \notin Range(Tail(s))
  BY <1>1, <1>4 DEF Range
<1> QED
  BY <1>7, <1>8

\* What the adapters render: on postgres every row and the delete of the rest,
\* on clickhouse a truncation and every row once.
LEMMA FullSyncFacts ==
    ASSUME NEW rows \in SUBSET Keys
    PROVE  /\ Range(PostgresFullSync(SetToSeq(rows))) =
                 {Upsert(k) : k \in rows} \cup {Keep(rows)}
           /\ ClickHouseFullSync(SetToSeq(rows)) # <<>>
           /\ Head(ClickHouseFullSync(SetToSeq(rows))) = Keep({})
           /\ Range(Tail(ClickHouseFullSync(SetToSeq(rows)))) = {Insert(k) : k \in rows}
           /\ IsInjective(Tail(ClickHouseFullSync(SetToSeq(rows))))
<1> DEFINE q == SetToSeq(rows)
           upserts == [i \in DOMAIN q |-> Upsert(q[i])]
           insertions == [i \in DOMAIN q |-> Insert(q[i])]
           all == ClickHouseFullSync(q)
<1>1. q \in Seq(Keys) /\ Range(q) = rows /\ IsInjective(q)
  BY SetToSeqFacts
<1> HIDE DEF q
<1>2. /\ Len(q) \in Nat /\ DOMAIN q = 1..Len(q)
      /\ \A i \in DOMAIN q : q[i] \in Keys
  BY <1>1
<1>3. /\ upserts \in Seq(Statements) /\ DOMAIN upserts = DOMAIN q
      /\ \A i \in DOMAIN q : upserts[i] = Upsert(q[i])
  <2>1. upserts \in [1..Len(q) -> Statements]
    BY <1>2, StatementTypes
  <2> QED
    BY <1>2, <2>1
<1>4. /\ insertions \in Seq(Statements) /\ DOMAIN insertions = DOMAIN q /\ Len(insertions) = Len(q)
      /\ \A i \in DOMAIN q : insertions[i] = Insert(q[i])
  <2>1. insertions \in [1..Len(q) -> Statements]
    BY <1>2, StatementTypes
  <2> QED
    BY <1>2, <2>1
<1>5. Keep(rows) \in Statements /\ Keep({}) \in Statements
  BY StatementTypes
<1>6. all = <<Keep({})>> \o insertions /\ PostgresFullSync(q) = upserts \o <<Keep(rows)>>
  BY <1>1 DEF ClickHouseFullSync, PostgresFullSync
<1> HIDE DEF upserts, insertions, all
<1>7. Range(PostgresFullSync(q)) = {Upsert(k) : k \in rows} \cup {Keep(rows)}
  <2> DEFINE last == <<Keep(rows)>>
  <2>1. last \in Seq(Statements) /\ Range(last) = {Keep(rows)}
    BY <1>5, ShortSeqs
  <2>2. PostgresFullSync(q) = upserts \o last
    BY <1>6
  <2> HIDE DEF last
  <2>3. Range(PostgresFullSync(q)) = Range(upserts) \cup {Keep(rows)}
    BY <1>3, <2>1, <2>2, ConcatFacts
  <2>4. Range(upserts) = {Upsert(k) : k \in Range(q)}
    BY <1>3 DEF Range
  <2> QED
    BY <1>1, <2>3, <2>4
<1>8. Range(insertions) = {Insert(k) : k \in rows}
  <2>1. Range(insertions) = {Insert(k) : k \in Range(q)}
    BY <1>4 DEF Range
  <2> QED
    BY <1>1, <2>1
<1>9. IsInjective(insertions)
  BY <1>1, <1>2, <1>4, StatementsDiffer DEF IsInjective
<1>10. /\ <<Keep({})>> \in Seq(Statements) /\ Len(<<Keep({})>>) = 1 /\ <<Keep({})>>[1] = Keep({})
  BY <1>5
<1>11. /\ all \in Seq(Statements) /\ Len(all) = 1 + Len(q) /\ all[1] = Keep({})
       /\ \A i \in 1..Len(q) : all[1 + i] = insertions[i]
  <2>1. 1 \in 1..Len(<<Keep({})>>)
    BY <1>10
  <2> QED
    BY <1>4, <1>6, <1>10, <2>1, ConcatFacts
<1>12. all # <<>>
  BY <1>2, <1>11
<1>13. /\ Head(all) = Keep({})
       /\ DOMAIN Tail(all) = 1..Len(q)
       /\ \A i \in 1..Len(q) : Tail(all)[i] = insertions[i]
  <2>1. /\ Head(all) = all[1]
        /\ DOMAIN Tail(all) = 1..(Len(all) - 1)
        /\ \A i \in 1..(Len(all) - 1) : Tail(all)[i] = all[i + 1]
    BY <1>11, <1>12, HeadTailFacts
  <2>2. Len(all) - 1 = Len(q) /\ \A i \in 1..Len(q) : i + 1 = 1 + i
    BY <1>2, <1>11
  <2> QED
    BY <1>11, <2>1, <2>2
<1>14. Range(Tail(all)) = Range(insertions) /\ IsInjective(Tail(all))
  BY <1>2, <1>4, <1>9, <1>13 DEF Range, IsInjective
<1> QED
  BY <1>7, <1>8, <1>12, <1>13, <1>14 DEF q, all

\* On clickhouse every statement leaves rows of the plan only, none of which is
\* inserted again.
LEMMA AtOnceLemma ==
    ASSUME TypeOK, ReloadInv, ExecuteAtOnce
    PROVE  /\ Range(statements') \subseteq {Insert(k) : k \in full.rows}
           /\ IsInjective(statements')
           /\ \A k \in Present(orders)' : k \in full.rows /\ Insert(k) \notin Range(statements')
<1> DEFINE rows == full.rows
<1>1. /\ rows \in SUBSET Keys /\ orders \in [Keys -> Nat] /\ statements \in Seq(Statements)
      /\ pc = "fullsync" /\ target = "clickhouse" /\ statements # <<>>
      /\ orders' = Execute(orders, Head(statements))
      /\ statements' = Tail(statements)
  BY DEF TypeOK, FullSyncs, ExecuteAtOnce
<1>2. CASE statements = ClickHouseFullSync(SetToSeq(rows))
  <2>1. /\ Head(statements) = Keep({})
        /\ Range(statements') = {Insert(k) : k \in rows} /\ IsInjective(statements')
    BY <1>1, <1>2, FullSyncFacts
  <2>2. \A k \in Keys : orders'[k] = 0
    BY <1>1, <2>1, StatementEffects
  <2>3. Present(orders)' = {}
    BY <2>2 DEF Present
  <2> QED
    BY <2>1, <2>3
<1>3. ASSUME Range(statements) \subseteq {Insert(k) : k \in rows}, IsInjective(statements),
             \A k \in Present(orders) : k \in rows /\ Insert(k) \notin Range(statements)
      PROVE  /\ Range(statements') \subseteq {Insert(k) : k \in rows}
             /\ IsInjective(statements')
             /\ \A k \in Present(orders)' : k \in rows /\ Insert(k) \notin Range(statements')
  <2>1. Range(statements) = {Head(statements)} \cup Range(statements')
    BY <1>1, HeadTailFacts
  <2>2. IsInjective(statements') /\ Head(statements) \notin Range(statements')
    BY <1>1, <1>3, InjectiveTail
  <2>3. PICK j \in rows : Head(statements) = Insert(j)
    BY <1>3, <2>1
  <2>4. j \in Keys
    BY <1>1
  <2>5. \A k \in Keys : orders'[k] = IF k = j THEN orders[k] + 1 ELSE orders[k]
    <3>1. \A k \in Keys : Execute(orders, Insert(j))[k] =
                            IF k = j THEN orders[k] + 1 ELSE orders[k]
      BY <1>1, <2>4, StatementEffects
    <3> QED
      BY <1>1, <2>3, <3>1
  <2>6. \A k \in Present(orders)' : k \in Present(orders) \/ k = j
    BY <2>5 DEF Present
  <2> QED
    BY <1>3, <2>1, <2>2, <2>3, <2>6
<1> QED
  BY <1>1, <1>2, <1>3 DEF ReloadInv

\* Every step of a full sync keeps track of what it has yet to do.
LEMMA ReloadStep == TypeOK /\ ReloadInv /\ [Next]_vars => ReloadInv'
<1> SUFFICES ASSUME TypeOK, ReloadInv, [Next]_vars PROVE ReloadInv'
  OBVIOUS
<1> USE DEF api, tables, plan
<1> DEFINE rows == full.rows
<1>1. /\ rows \in SUBSET Keys /\ target \in {"postgres", "clickhouse"}
      /\ view \in [Keys -> Nat] /\ orders \in [Keys -> Nat] /\ statements \in Seq(Statements)
  BY ConstantFacts DEF TypeOK, FullSyncs
<1>a. ASSUME pc' # "fullsync" PROVE ReloadInv'
  BY <1>a DEF ReloadInv
<1>b. ASSUME UNCHANGED <<target, orders, pc, full, statements, view>> PROVE ReloadInv'
  BY <1>b DEF ReloadInv, Present
<1>2. CASE StartCycle
  BY <1>2, <1>a DEF StartCycle
<1>3. CASE FetchProducer
  BY <1>3, <1>a DEF FetchProducer, FetchingProducer
<1>4. CASE FetchProducerFails
  BY <1>4, <1>a DEF FetchProducerFails, FetchingProducer
<1>5. CASE FetchConsumer
  BY <1>5, <1>a DEF FetchConsumer, FinishPlan
<1>6. CASE FetchConsumerFails
  BY <1>6, <1>a DEF FetchConsumerFails, FinishPlan
<1>7. CASE ExportOperation
  BY <1>7, <1>a DEF ExportOperation
<1>8. CASE ExecuteUpsertPlan
  BY <1>8, <1>a DEF ExecuteUpsertPlan
<1>9. CASE FinishApply
  <2>1. CASE ~full.present
    BY <1>9, <1>a, <2>1 DEF FinishApply
  <2>2. CASE full.present /\ target = "postgres"
    <3>1. /\ target' = target /\ full' = full
          /\ statements' = PostgresFullSync(SetToSeq(rows))
      BY <1>9, <2>2 DEF FinishApply, ExportFullSyncSQL
    <3>2. Range(statements') = {Upsert(k) : k \in rows} \cup {Keep(rows)}
      BY <1>1, <3>1, FullSyncFacts
    <3> HIDE DEF rows
    <3> QED
      BY <2>2, <3>1, <3>2 DEF ReloadInv, rows
  <2>3. CASE full.present /\ target = "clickhouse"
    <3>1. /\ target' = target /\ full' = full /\ view' = orders /\ orders' = orders
          /\ statements' = ClickHouseFullSync(SetToSeq(rows))
      BY <1>9, <2>3 DEF FinishApply, ExportFullSyncSQL
    <3> QED
      BY <2>3, <3>1 DEF ReloadInv
  <2> QED
    BY <1>1, <2>1, <2>2, <2>3
<1>10. CASE ExecuteInTransaction
  <2>1. /\ pc = "fullsync" /\ target = "postgres" /\ statements # <<>>
        /\ pc' = pc /\ target' = target /\ full' = full
        /\ view' = Execute(view, Head(statements)) /\ statements' = Tail(statements)
    BY <1>10 DEF ExecuteInTransaction
  <2>2. Range(statements) = {Head(statements)} \cup Range(statements')
    BY <1>1, <2>1, HeadTailFacts
  <2>3. /\ Range(statements) \subseteq {Upsert(k) : k \in rows} \cup {Keep(rows)}
        /\ \A k \in rows : view[k] > 0 \/ Upsert(k) \in Range(statements)
        /\ \A k \in Keys \ rows : view[k] = 0 \/ Keep(rows) \in Range(statements)
    BY <2>1 DEF ReloadInv
  <2>4. /\ \A k \in rows : view'[k] > 0 \/ Upsert(k) \in Range(statements')
        /\ \A k \in Keys \ rows : view'[k] = 0 \/ Keep(rows) \in Range(statements')
    <3>1. ASSUME NEW j \in rows, Head(statements) = Upsert(j)
          PROVE  /\ \A k \in rows : view'[k] > 0 \/ Upsert(k) \in Range(statements')
                 /\ \A k \in Keys \ rows : view'[k] = 0 \/ Keep(rows) \in Range(statements')
      <4>1. j \in Keys
        BY <1>1
      <4>2. \A k \in Keys : view'[k] = IF k = j THEN 1 ELSE view[k]
        BY <1>1, <2>1, <3>1, <4>1, StatementEffects
      <4>3. \A k \in rows : view'[k] > 0 \/ Upsert(k) \in Range(statements')
        <5>1. ASSUME NEW k \in rows, k # j PROVE view'[k] > 0 \/ Upsert(k) \in Range(statements')
          <6>1. k \in Keys /\ Upsert(k) # Head(statements)
            BY <1>1, <3>1, <4>1, <5>1, StatementsDiffer
          <6>2. view'[k] = view[k]
            BY <4>2, <5>1, <6>1
          <6> QED
            BY <2>2, <2>3, <6>1, <6>2
        <5>2. view'[j] > 0
          BY <4>1, <4>2
        <5> QED
          BY <5>1, <5>2
      <4>4. Keep(rows) # Head(statements)
        BY <1>1, <3>1, StatementsDiffer
      <4>5. \A k \in Keys \ rows : view'[k] = 0 \/ Keep(rows) \in Range(statements')
        BY <2>2, <2>3, <4>2, <4>4
      <4> QED
        BY <4>3, <4>5
    <3>2. ASSUME Head(statements) = Keep(rows)
          PROVE  /\ \A k \in rows : view'[k] > 0 \/ Upsert(k) \in Range(statements')
                 /\ \A k \in Keys \ rows : view'[k] = 0 \/ Keep(rows) \in Range(statements')
      <4>1. \A k \in Keys : view'[k] = IF k \in rows THEN view[k] ELSE 0
        BY <1>1, <2>1, <3>2, StatementEffects
      <4>2. \A k \in rows : Upsert(k) # Head(statements)
        BY <1>1, <3>2, StatementsDiffer
      <4> QED
        BY <1>1, <2>2, <2>3, <4>1, <4>2
    <3> QED
      BY <2>2, <2>3, <3>1, <3>2
  <2> HIDE DEF rows
  <2> QED
    BY <2>1, <2>2, <2>3, <2>4 DEF ReloadInv, rows
<1>11. CASE ExecuteAtOnce
  <2>1. /\ target = "clickhouse" /\ target' = target /\ full' = full /\ view' = orders'
    BY <1>11 DEF ExecuteAtOnce
  <2>2. /\ Range(statements') \subseteq {Insert(k) : k \in rows}
        /\ IsInjective(statements')
        /\ \A k \in Present(orders)' : k \in rows /\ Insert(k) \notin Range(statements')
    BY <1>11, AtOnceLemma
  <2> HIDE DEF rows
  <2> QED
    BY <2>1, <2>2 DEF ReloadInv, rows
<1>12. CASE FinishFullSync
  BY <1>12, <1>a DEF FinishFullSync
<1>13. CASE SaveCheckpoints
  BY <1>13, <1>a DEF SaveCheckpoints
<1>14. CASE SaveCheckpoint
  BY <1>14, <1>a DEF SaveCheckpoint
<1>15. CASE CommitCycle
  BY <1>15, <1>a DEF CommitCycle, EndCycle
<1>16. CASE DropPlan
  BY <1>16, <1>a DEF DropPlan, EndCycle
<1>17. CASE Restart
  BY <1>17, <1>a DEF Restart, EndCycle
<1>18. ASSUME NEW p \in ProducerSet, Grow(p) PROVE ReloadInv'
  BY <1>18, <1>b DEF Grow
<1>19. ASSUME NEW k \in Keys, Offer(k) PROVE ReloadInv'
  BY <1>19, <1>b DEF Offer
<1>20. ASSUME NEW k \in Keys, RemoveDoomed(k) PROVE ReloadInv'
  BY <1>20, <1>b DEF RemoveDoomed
<1>21. CASE UNCHANGED vars
  BY <1>21, <1>b DEF vars
<1> QED
  BY <1>2, <1>3, <1>4, <1>5, <1>6, <1>7, <1>8, <1>9, <1>10, <1>11, <1>12, <1>13, <1>14, <1>15,
     <1>16, <1>17, <1>18, <1>19, <1>20, <1>21
     DEF Next, Cycle, Api

\* No step writes a row a second time.
LEMMA OnceStep ==
    TypeOK /\ PlanInv /\ ApplyInv /\ ReloadInv /\ OnceInv /\ [Next]_vars => OnceInv'
<1> SUFFICES ASSUME TypeOK, PlanInv, ApplyInv, ReloadInv, OnceInv, [Next]_vars
             PROVE  OnceInv'
  OBVIOUS
<1> USE DEF api, tables, plan
<1> DEFINE rows == full.rows
<1>1. /\ rows \in SUBSET Keys /\ target \in {"postgres", "clickhouse"}
      /\ view \in [Keys -> Nat] /\ orders \in [Keys -> Nat] /\ statements \in Seq(Statements)
  BY ConstantFacts DEF TypeOK, FullSyncs
<1>a. ASSUME UNCHANGED <<users, orders>>, pc' = "fullsync" => pc = "fullsync" /\ view' = view
      PROVE  OnceInv'
  BY <1>a DEF OnceInv, OneRowRemains
<1>2. CASE StartCycle
  BY <1>2, <1>a DEF StartCycle
<1>3. CASE FetchProducer
  BY <1>3, <1>a DEF FetchProducer, FetchingProducer
<1>4. CASE FetchProducerFails
  BY <1>4, <1>a DEF FetchProducerFails, FetchingProducer
<1>5. CASE FetchConsumer
  BY <1>5, <1>a DEF FetchConsumer, FinishPlan
<1>6. CASE FetchConsumerFails
  BY <1>6, <1>a DEF FetchConsumerFails, FinishPlan
<1>7. CASE ExportOperation
  BY <1>7, <1>a DEF ExportOperation
<1>8. CASE ExecuteUpsertPlan
  <2>1. PICK k \in Range(inserts) :
           /\ \A j \in Keys \ {k} : users'[j] = users[j]
           /\ users'[k] = 1 \/ users'[k] = 0
    BY <1>8, UpsertPlanKeeps
  <2>2. \A j \in Keys : users'[j] <= 1
    BY <2>1 DEF OnceInv, OneRowRemains
  <2> QED
    BY <1>8, <2>2 DEF ExecuteUpsertPlan, OnceInv, OneRowRemains
<1>9. CASE FinishApply
  BY <1>9 DEF FinishApply, OnceInv, OneRowRemains
<1>10. CASE ExecuteInTransaction
  <2>1. /\ pc = "fullsync" /\ target = "postgres" /\ statements # <<>>
        /\ view' = Execute(view, Head(statements))
    BY <1>10 DEF ExecuteInTransaction
  <2>2. Head(statements) \in Range(statements)
    BY <1>1, <2>1, HeadTailFacts
  <2>3. \A j \in Keys : view[j] <= 1
    BY <2>1 DEF OnceInv
  <2>4. ASSUME NEW k \in rows, Head(statements) = Upsert(k), NEW j \in Keys
        PROVE  view'[j] <= 1
    <3>1. k \in Keys
      BY <1>1
    <3>2. view'[j] = IF j = k THEN 1 ELSE view[j]
      BY <1>1, <2>1, <2>4, <3>1, StatementEffects
    <3> QED
      BY <2>3, <3>2
  <2>5. ASSUME Head(statements) = Keep(rows), NEW j \in Keys
        PROVE  view'[j] <= 1
    <3>1. view'[j] = IF j \in rows THEN view[j] ELSE 0
      BY <1>1, <2>1, <2>5, StatementEffects
    <3> QED
      BY <2>3, <3>1
  <2>6. \A j \in Keys : view'[j] <= 1
    BY <2>1, <2>2, <2>4, <2>5 DEF ReloadInv
  <2> QED
    BY <1>10, <2>6 DEF ExecuteInTransaction, OnceInv, OneRowRemains
<1>11. CASE ExecuteAtOnce
  <2>1. /\ pc = "fullsync" /\ target = "clickhouse" /\ statements # <<>>
        /\ orders' = Execute(orders, Head(statements)) /\ view' = orders' /\ users' = users
    BY <1>11 DEF ExecuteAtOnce
  <2>2. Head(statements) \in Range(statements)
    BY <1>1, <2>1, HeadTailFacts
  <2>3. \A j \in Keys : orders[j] <= 1 /\ users[j] <= 1
    BY DEF OnceInv, OneRowRemains
  <2>4. CASE statements = ClickHouseFullSync(SetToSeq(rows))
    <3>1. Head(statements) = Keep({})
      BY <1>1, <2>4, FullSyncFacts
    <3>2. \A j \in Keys : orders'[j] = 0
      BY <1>1, <2>1, <3>1, StatementEffects
    <3> QED
      BY <2>1, <2>3, <3>2 DEF OnceInv, OneRowRemains
  <2>5. ASSUME Range(statements) \subseteq {Insert(k) : k \in rows},
               \A k \in Present(orders) : Insert(k) \notin Range(statements)
        PROVE  OnceInv'
    <3>1. PICK k \in rows : Head(statements) = Insert(k)
      BY <2>2, <2>5
    <3>2. k \in Keys /\ k \notin Present(orders)
      BY <1>1, <2>2, <2>5, <3>1
    <3>3. orders[k] = 0
      BY <1>1, <3>2 DEF Present
    <3>4. \A j \in Keys : Execute(orders, Insert(k))[j] = IF j = k THEN orders[j] + 1 ELSE orders[j]
      BY <1>1, <3>2, StatementEffects
    <3>5. \A j \in Keys : orders'[j] <= 1
      BY <2>1, <2>3, <3>1, <3>3, <3>4
    <3> QED
      BY <2>1, <2>3, <3>5 DEF OnceInv, OneRowRemains
  <2> QED
    BY <2>1, <2>4, <2>5 DEF ReloadInv
<1>12. CASE FinishFullSync
  BY <1>12 DEF FinishFullSync, OnceInv, OneRowRemains
<1>13. CASE SaveCheckpoints
  BY <1>13, <1>a DEF SaveCheckpoints
<1>14. CASE SaveCheckpoint
  BY <1>14, <1>a DEF SaveCheckpoint
<1>15. CASE CommitCycle
  BY <1>15, <1>a DEF CommitCycle, EndCycle
<1>16. CASE DropPlan
  BY <1>16, <1>a DEF DropPlan, EndCycle
<1>17. CASE Restart
  BY <1>17, <1>a DEF Restart, EndCycle
<1>18. ASSUME NEW p \in ProducerSet, Grow(p) PROVE OnceInv'
  BY <1>18, <1>a DEF Grow
<1>19. ASSUME NEW k \in Keys, Offer(k) PROVE OnceInv'
  BY <1>19, <1>a DEF Offer
<1>20. ASSUME NEW k \in Keys, RemoveDoomed(k) PROVE OnceInv'
  BY <1>20, <1>a DEF RemoveDoomed
<1>21. CASE UNCHANGED vars
  BY <1>21, <1>a DEF vars
<1> QED
  BY <1>2, <1>3, <1>4, <1>5, <1>6, <1>7, <1>8, <1>9, <1>10, <1>11, <1>12, <1>13, <1>14, <1>15,
     <1>16, <1>17, <1>18, <1>19, <1>20, <1>21
     DEF Next, Cycle, Api

-----------------------------------------------------------------------------
(* The values that the planner knows.                                        *)
\* Every step keeps the values before the checkpoints known.
LEMMA KnownStep ==
    TypeOK /\ PlanInv /\ KnownInv /\ [Next]_vars => KnownInv'
<1> SUFFICES ASSUME TypeOK, PlanInv, KnownInv, [Next]_vars PROVE KnownInv'
  OBVIOUS
<1> USE DEF api, tables, plan
<1>1. /\ env \in Counts
      /\ \A e \in Counts : e.restarts \in Nat
      /\ Fail => env'.restarts = env.restarts
      /\ \A k \in Keys : Offer(k) => env'.restarts = env.restarts
  <2>1. env \in Counts
    BY DEF TypeOK
  <2>2. [env EXCEPT !.failures = @ + 1].restarts = env.restarts
    BY <2>1 DEF Counts
  <2>3. [env EXCEPT !.changes = @ + 1].restarts = env.restarts
    BY <2>1 DEF Counts
  <2> QED
    BY <2>1, <2>2, <2>3 DEF Counts, Fail, Offer
<1>a. ASSUME UNCHANGED <<target, checkpoints, known>>, env'.restarts = env.restarts,
             pc # "idle", work \subseteq work',
             pc' = "save" /\ pending' = <<>> => known' \subseteq work',
             ~(pc = "save" /\ pending = <<>>)
      PROVE  KnownInv'
  <2>1. Covered' = Covered
    BY <1>a DEF Covered
  <2> QED
    BY <1>a, <2>1 DEF KnownInv
<1>b. ASSUME UNCHANGED <<target, checkpoints, known, pc, work, pending>>,
             env'.restarts = env.restarts
      PROVE  KnownInv'
  <2>1. Covered' = Covered
    BY <1>b DEF Covered
  <2> QED
    BY <1>b, <2>1 DEF KnownInv
<1>c. pc # "idle" => known \subseteq work
  BY DEF KnownInv
<1>2. CASE StartCycle
  <2>1. Covered' = Covered
    BY <1>2 DEF StartCycle, Covered
  <2> QED
    BY <1>2, <2>1 DEF StartCycle, KnownInv
<1>3. CASE FetchProducer
  BY <1>3, <1>a DEF FetchProducer, FetchingProducer
<1>4. CASE FetchProducerFails
  BY <1>4, <1>1, <1>a DEF FetchProducerFails, FetchingProducer
<1>5. CASE FetchConsumer
  BY <1>5, <1>a DEF FetchConsumer, FetchingConsumer, FinishPlan
<1>6. CASE FetchConsumerFails
  BY <1>6, <1>1, <1>a DEF FetchConsumerFails, FetchingConsumer, FinishPlan
<1>7. CASE ExportOperation
  BY <1>7, <1>b DEF ExportOperation
<1>8. CASE ExecuteUpsertPlan
  BY <1>8, <1>b DEF ExecuteUpsertPlan
<1>9. CASE FinishApply
  BY <1>9, <1>a, <1>c DEF FinishApply
<1>10. CASE ExecuteInTransaction
  BY <1>10, <1>b DEF ExecuteInTransaction
<1>11. CASE ExecuteAtOnce
  BY <1>11, <1>b DEF ExecuteAtOnce
<1>12. CASE FinishFullSync
  BY <1>12, <1>a, <1>c DEF FinishFullSync
<1>13. CASE SaveCheckpoints
  <2>1. Covered' \subseteq Covered \cup (Range(inserts) \cap work)
    BY <1>13, SaveLemma
  <2>2. /\ pc = "save" /\ pending # <<>> /\ pc' = "save" /\ pending' = <<>>
        /\ UNCHANGED <<target, known, work, env>>
    BY <1>13 DEF SaveCheckpoints
  <2> QED
    BY <2>1, <2>2 DEF KnownInv
<1>14. CASE SaveCheckpoint
  <2>1. target = "clickhouse" /\ UNCHANGED <<target, known, work, pc>>
    BY <1>14 DEF SaveCheckpoint
  <2> QED
    BY <2>1 DEF KnownInv
<1>15. CASE CommitCycle
  <2>1. Covered' = Covered
    BY <1>15 DEF CommitCycle, Covered
  <2> QED
    BY <1>15, <2>1 DEF CommitCycle, EndCycle, KnownInv
<1>16. CASE DropPlan
  <2>1. Covered' = Covered
    BY <1>16 DEF DropPlan, Covered
  <2> QED
    BY <1>16, <1>1, <2>1 DEF DropPlan, EndCycle, KnownInv
<1>17. CASE Restart
  <2>1. env'.restarts # 0
    BY <1>17, <1>1 DEF Restart, Counts
  <2> QED
    BY <1>17, <2>1 DEF Restart, EndCycle, KnownInv
<1>18. ASSUME NEW p \in ProducerSet, Grow(p) PROVE KnownInv'
  BY <1>18, <1>b DEF Grow
<1>19. ASSUME NEW k \in Keys, Offer(k) PROVE KnownInv'
  BY <1>19, <1>1, <1>b DEF Offer
<1>20. ASSUME NEW k \in Keys, RemoveDoomed(k) PROVE KnownInv'
  BY <1>20, <1>1, <1>b DEF RemoveDoomed
<1>21. CASE UNCHANGED vars
  BY <1>21, <1>b DEF vars
<1> QED
  BY <1>2, <1>3, <1>4, <1>5, <1>6, <1>7, <1>8, <1>9, <1>10, <1>11, <1>12, <1>13, <1>14, <1>15,
     <1>16, <1>17, <1>18, <1>19, <1>20, <1>21
     DEF Next, Cycle, Api

-----------------------------------------------------------------------------
(* Theorems.                                                                 *)
Inv ==
    /\ TypeOK /\ CursorInv /\ PlanInv /\ ApplyInv
    /\ DoomedInv /\ StoredInv /\ ReloadInv /\ OnceInv /\ KnownInv

\* An API that has listed nothing has nothing settled.
LEMMA NothingCovered ==
    ASSUME \A p \in ProducerSet : length[p] = 0 /\ checkpoints[p] = 0
    PROVE  AllListed = {} /\ Covered = {} /\ Settled = {}
<1>1. 1..0 = {}
  OBVIOUS
<1>2. \A p \in ProducerSet : OnPages(p, 1..0) = {}
  BY <1>1 DEF OnPages
<1>3. AllListed = {} /\ Covered = {}
  BY <1>2 DEF AllListed, Covered
<1> QED
  BY <1>3 DEF Settled

\* The initial state satisfies the invariant.
LEMMA InvInit == Init => Inv
<1> SUFFICES ASSUME Init PROVE Inv
  OBVIOUS
<1>1. TypeOK
  BY TypeInit
<1>2. CursorInv
  BY DEF Init, CursorInv
<1>3. \A p \in ProducerSet : length[p] = 0 /\ checkpoints[p] = 0
  BY DEF Init
<1>4. AllListed = {} /\ Covered = {} /\ Settled = {}
  BY <1>3, NothingCovered
<1>5. pc = "idle" /\ inserts = <<>> /\ pending = <<>>
  BY DEF Init
<1>6. DOMAIN pending = {} /\ Range(inserts) = {}
  BY <1>1, <1>5, NoElements DEF TypeOK
<1>7. PlanInv
  BY <1>4, <1>5, <1>6 DEF PlanInv
<1>8. ApplyInv /\ ReloadInv /\ DoomedInv
  BY <1>5 DEF Init, ApplyInv, ReloadInv, DoomedInv
<1>9. StoredInv /\ KnownInv
  BY <1>4, <1>5 DEF StoredInv, KnownInv
<1>10. OnceInv
  BY <1>5 DEF Init, OnceInv, OneRowRemains, Empty
<1> QED
  BY <1>1, <1>2, <1>7, <1>8, <1>9, <1>10 DEF Inv

\* The inductive invariant.
THEOREM Invariance == Spec => []Inv
<1>1. Init => Inv
  BY InvInit
<1>2. Inv /\ [Next]_vars => Inv'
  BY TypeStep, CursorStep, PlanStep, ApplyStep, DoomedStep, StoredStep, ReloadStep, OnceStep,
     KnownStep
     DEF Inv
<1> QED
  BY <1>1, <1>2, PTL DEF Spec

\* Every variable keeps its type.
THEOREM TypeCorrect == Spec => []TypeOK
<1>1. Inv => TypeOK
  BY DEF Inv
<1> QED
  BY <1>1, Invariance, PTL

\* Whatever fails between the statements, and whenever the deletions of clickhouse
\* are carried out: of the rows with one key at most one is not to be removed.
THEOREM SupersededRowsGo == Spec => []OneRowRemains
<1>1. Inv => OneRowRemains
  BY DEF Inv, OnceInv
<1> QED
  BY <1>1, Invariance, PTL

\* On postgres, until the process restarts, the values of all rows before a
\* checkpoint are known to the planner between two cycles.
THEOREM PlannerKnowsCheckpointed == Spec => []CheckpointedAreKnown
<1>1. Inv => CheckpointedAreKnown
  BY DEF Inv, KnownInv, CheckpointedAreKnown
<1> QED
  BY <1>1, Invariance, PTL

-----------------------------------------------------------------------------
(* The ledger.                                                               *)
\* The initial state is one of the ledger's.
LEMMA MappedInit == Init => Ledger!Init
<1> SUFFICES ASSUME Init PROVE Ledger!Init
  OBVIOUS
<1>1. \A p \in ProducerSet : length[p] = 0 /\ checkpoints[p] = 0
  BY DEF Init
<1>2. AllListed = {} /\ Settled = {}
  BY <1>1, NothingCovered
<1>3. Shown = {} /\ Present(orders) = {}
  BY DEF Init, Shown, Present, Empty
<1>4. full.rows = {} /\ offered \in SUBSET Keys
  BY DEF Init, NoSync
<1>5. (target = "postgres") \in BOOLEAN
  OBVIOUS
<1> QED
  BY <1>2, <1>3, <1>4, <1>5 DEF Ledger!Init

\* Every step is one of the ledger's, or changes nothing that it shows.
LEMMA MappedStep == Inv /\ Inv' /\ [Next]_vars => [Ledger!Next]_(Ledger!vars)
<1> SUFFICES ASSUME Inv, Inv', [Next]_vars PROVE Ledger!Next \/ UNCHANGED Ledger!vars
  OBVIOUS
<1> USE DEF api, tables, plan
<1>1. /\ TypeOK /\ TypeOK' /\ PlanInv /\ ApplyInv /\ DoomedInv /\ StoredInv /\ ReloadInv
  BY DEF Inv
<1>2. /\ UNCHANGED target => (target = "postgres")' = (target = "postgres")
      /\ UNCHANGED length => AllListed' = AllListed
      /\ UNCHANGED <<users, doomed>> => Shown' = Shown
      /\ UNCHANGED checkpoints => Settled' = Settled
      /\ UNCHANGED full => (full.rows)' = full.rows
      /\ UNCHANGED orders => Present(orders)' = Present(orders)
  BY DEF AllListed, Shown, Present, Settled, Covered
<1>a. ASSUME UNCHANGED <<target, length, offered, users, doomed, checkpoints, full, orders>>
      PROVE  UNCHANGED Ledger!vars
  BY <1>2, <1>a DEF Ledger!vars
<1>b. ASSUME UNCHANGED <<target, length, offered, users, doomed, checkpoints, orders>>,
             full'.rows \subseteq offered
      PROVE  Ledger!Next
  BY <1>2, <1>b DEF Ledger!Next, Ledger!Plan
<1>c. ASSUME UNCHANGED <<target, length, offered, users, doomed, checkpoints, orders>>, EndCycle
      PROVE  Ledger!Next
  BY <1>b, <1>c DEF EndCycle, NoSync
<1>3. CASE StartCycle
  BY <1>3, <1>a DEF StartCycle
<1>4. CASE FetchProducer
  BY <1>4, <1>a DEF FetchProducer
<1>5. CASE FetchProducerFails
  BY <1>5, <1>a DEF FetchProducerFails
<1>6. CASE FetchConsumer
  BY <1>6, <1>b DEF FetchConsumer, FinishPlan, NoSync
<1>7. CASE FetchConsumerFails
  BY <1>7, <1>b DEF FetchConsumerFails, FinishPlan
<1>8. CASE ExportOperation
  BY <1>8, <1>a DEF ExportOperation
<1>9. CASE ExecuteUpsertPlan
  <2>1. PICK k \in Range(inserts) :
           /\ k \in Keys \ Settled
           /\ \A j \in Keys \ {k} : users'[j] = users[j]
           /\ \/ users'[k] = 1 /\ doomed' = doomed
              \/ users'[k] = 0 /\ doomed' = doomed \cup ({k} \cap Present(users))
    BY <1>1, <1>9, UpsertPlanKeeps
  <2>2. UNCHANGED <<target, length, offered, checkpoints, full, orders>>
    BY <1>9 DEF ExecuteUpsertPlan
  <2>3. CASE users'[k] = 1 /\ doomed' = doomed
    <3>1. Shown' = Shown \cup {k}
      BY <2>1, <2>3 DEF Shown, Present
    <3>2. {k} \in SUBSET AllListed
      BY <1>1, <2>1 DEF PlanInv
    <3>3. Ledger!Write
      BY <1>2, <2>2, <3>1, <3>2 DEF Ledger!Write
    <3> QED
      BY <3>3 DEF Ledger!Next
  <2>4. CASE users'[k] = 0 /\ doomed' = doomed \cup ({k} \cap Present(users))
    <3>1. Shown' = Shown
      BY <2>1, <2>4 DEF Shown, Present
    <3> QED
      BY <1>2, <2>2, <3>1 DEF Ledger!vars
  <2> QED
    BY <2>1, <2>3, <2>4
<1>10. CASE FinishApply
  BY <1>10, <1>a DEF FinishApply
<1>11. CASE ExecuteInTransaction
  BY <1>11, <1>a DEF ExecuteInTransaction
<1>12. CASE ExecuteAtOnce
  <2>1. /\ target # "postgres"
        /\ UNCHANGED <<target, length, offered, users, doomed, checkpoints, full>>
    BY <1>12 DEF ExecuteAtOnce
  <2>2. Present(orders)' \in SUBSET full.rows
    BY <1>1, <1>12, AtOnceLemma
  <2>3. Ledger!ReloadPart
    BY <1>2, <2>1, <2>2 DEF Ledger!ReloadPart
  <2> QED
    BY <2>3 DEF Ledger!Next
<1>13. CASE FinishFullSync
  <2>1. /\ pc = "fullsync" /\ statements = <<>> /\ orders' = view
        /\ UNCHANGED <<target, length, offered, users, doomed, checkpoints, full>>
    BY <1>13 DEF FinishFullSync
  <2>2. CASE target = "postgres"
    <3>1. Range(statements) = {}
      BY <1>1, <2>1, NoElements DEF TypeOK
    <3>2. /\ \A k \in full.rows : view[k] > 0
          /\ \A k \in Keys \ full.rows : view[k] = 0
          /\ full.rows \subseteq Keys
      BY <1>1, <2>1, <2>2, <3>1 DEF ReloadInv, TypeOK, FullSyncs
    <3>3. Present(orders)' = full.rows
      BY <2>1, <3>2 DEF Present
    <3>4. Ledger!Reload
      BY <1>2, <2>1, <3>3 DEF Ledger!Reload
    <3> QED
      BY <3>4 DEF Ledger!Next
  <2>3. CASE target # "postgres"
    <3>1. orders' = orders
      BY <1>1, <2>1, <2>3 DEF ReloadInv
    <3> QED
      BY <1>a, <2>1, <3>1
  <2> QED
    BY <2>2, <2>3
<1>14. CASE SaveCheckpoints \/ SaveCheckpoint
  <2>1. pc = "save" /\ UNCHANGED <<target, length, offered, users, doomed, full, orders>>
    BY <1>14 DEF SaveCheckpoints, SaveCheckpoint
  <2>2. /\ Settled \subseteq Settled'
        /\ Settled' \subseteq Settled \cup Range(inserts)
    BY <1>1, <1>14, SaveLemma
  <2>3. Range(inserts) \subseteq Shown
    BY <1>1, <2>1 DEF StoredInv, Shown
  <2>4. /\ Settled' \ Settled \in SUBSET Shown
        /\ Settled' = Settled \cup (Settled' \ Settled)
    BY <2>2, <2>3
  <2>5. Ledger!Settle
    BY <1>2, <2>1, <2>4 DEF Ledger!Settle
  <2> QED
    BY <2>5 DEF Ledger!Next
<1>15. CASE CommitCycle
  BY <1>15, <1>c DEF CommitCycle
<1>16. CASE DropPlan
  BY <1>16, <1>c DEF DropPlan
<1>17. CASE Restart
  BY <1>17, <1>c DEF Restart
<1>18. ASSUME NEW p \in ProducerSet, Grow(p) PROVE Ledger!Next
  <2>1. UNCHANGED <<target, offered, users, doomed, checkpoints, full, orders>>
    BY <1>18 DEF Grow
  <2>2. AllListed \subseteq AllListed'
    BY <1>1, <1>18, ListedMonotonic
  <2>3. \A q \in ProducerSet : length'[q] \in Nat /\ length'[q] <= Len(Listing[q])
    BY <1>1 DEF TypeOK
  <2>4. \A q \in ProducerSet : \A i \in 1..length'[q] : Listing[q][i] \in Keys
    BY <2>3, ConstantFacts
  <2>5. AllListed' \in SUBSET Keys /\ AllListed' = AllListed \cup AllListed'
    BY <2>2, <2>4 DEF AllListed, OnPages
  <2>6. Ledger!List
    BY <1>2, <2>1, <2>5 DEF Ledger!List
  <2> QED
    BY <2>6 DEF Ledger!Next
<1>19. ASSUME NEW k \in Keys, Offer(k) PROVE Ledger!Next
  <2>1. /\ UNCHANGED <<target, length, users, doomed, checkpoints, full, orders>>
        /\ offered' \in SUBSET Keys
    BY <1>1, <1>19 DEF Offer, TypeOK
  <2>2. Ledger!Offer
    BY <1>2, <2>1 DEF Ledger!Offer
  <2> QED
    BY <2>2 DEF Ledger!Next
<1>20. ASSUME NEW k \in Keys, RemoveDoomed(k)
       PROVE  Ledger!Next \/ UNCHANGED Ledger!vars
  <2>1. /\ k \in doomed /\ doomed' = doomed \ {k}
        /\ UNCHANGED <<target, length, offered, users, checkpoints, full, orders>>
    BY <1>20 DEF RemoveDoomed
  <2>2. CASE k \in Present(users)
    <3>1. Shown' = Shown
      BY <2>1, <2>2 DEF Shown, Present
    <3> QED
      BY <1>2, <2>1, <3>1 DEF Ledger!vars
  <2>3. CASE k \notin Present(users)
    <3>1. Shown' = Shown \ {k}
      BY <2>1, <2>3 DEF Shown, Present
    <3>2. {k} \in SUBSET (Keys \ Settled) /\ target # "postgres"
      BY <1>1, <2>1, <2>3 DEF StoredInv, DoomedInv
    <3>3. Ledger!Rewrite
      BY <1>2, <2>1, <3>1, <3>2 DEF Ledger!Rewrite
    <3> QED
      BY <3>3 DEF Ledger!Next
  <2> QED
    BY <2>2, <2>3
<1>21. CASE UNCHANGED vars
  BY <1>21, <1>a DEF vars
<1> QED
  BY <1>3, <1>4, <1>5, <1>6, <1>7, <1>8, <1>9, <1>10, <1>11, <1>12, <1>13, <1>14,
     <1>15, <1>16, <1>17, <1>18, <1>19, <1>20, <1>21
     DEF Next, Cycle, Api

\* Everything a cycle writes it writes as the ledger allows: no settled row ever
\* goes, no row that was not listed appears, and on postgres the full-reload
\* table goes from plan to plan in one step.
THEOREM LedgerImplemented == Spec => ImplementsLedger
<1>1. Init => Ledger!Init
  BY MappedInit
<1>2. Inv /\ Inv' /\ [Next]_vars => [Ledger!Next]_(Ledger!vars)
  BY MappedStep
<1> QED
  BY <1>1, <1>2, Invariance, PTL DEF Spec, ImplementsLedger, Ledger!Spec
=============================================================================
