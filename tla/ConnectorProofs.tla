--------------------------- MODULE ConnectorProofs ---------------------------
(***************************************************************************)
(* Theorems about Connector, for every value of its constants: how long a  *)
(* call may wait for its token, how many requests go out in a minute, when *)
(* a Fetch retries and gives up, and how long a retry waits.               *)
(***************************************************************************)
EXTENDS Connector, Counting, TLAPS

USE ConstantsAssumption

\* The sleep for a token is at most two tokens long.
SleepInv == pc = "sleep" => left <= 2 * TokenTime

Requesting == {"limiter", "sleep", "send", "answer"}

\* How many answers the attempts so far have brought, and of what kind.
AttemptInv ==
    /\ logged = Len(answers)
    /\ \A i \in 1..Len(answers) : i < Len(answers) => Retryable(answers[i])
    /\ pc \in Requesting =>
          /\ Len(answers) = attempt
          /\ \A i \in 1..Len(answers) : Retryable(answers[i])
    /\ pc = "backoff" =>
          /\ Len(answers) = attempt + 1
          /\ attempt < MaxRetries
          /\ \A i \in 1..Len(answers) : Retryable(answers[i])
    /\ pc = "done" =>
          /\ Len(answers) = attempt + 1
          /\ ~canceled /\ Retryable(answers[Len(answers)]) => attempt = MaxRetries

-----------------------------------------------------------------------------
(* Powers of two.  Induction is over the set of the numbers for which a      *)
(* statement holds.                                                          *)

(* The first powers, up to the nth, in a table; every n has one.            *)
Table(n, t) ==
    /\ t \in [0..n -> Nat]
    /\ t[0] = 1
    /\ \A i \in 0..n : i # 0 => t[i] = 2 * t[i - 1]

LEMMA TableExists == \A n \in Nat : \E t : Table(n, t)
<1> DEFINE S == {n \in Nat : \E t : Table(n, t)}
<1>1. 0 \in S
  <2>1. Table(0, [i \in 0..0 |-> 1])
    BY DEF Table
  <2> QED
    BY <2>1
<1>2. ASSUME NEW n \in S PROVE n + 1 \in S
  <2>1. PICK t : Table(n, t)
    OBVIOUS
  <2> DEFINE u == [i \in 0..(n + 1) |-> IF i = n + 1 THEN 2 * t[n] ELSE t[i]]
  <2>2. u \in [0..(n + 1) -> Nat] /\ u[0] = 1
    BY <2>1 DEF Table
  <2>3. ASSUME NEW i \in 0..(n + 1), i # 0 PROVE u[i] = 2 * u[i - 1]
    <3>1. CASE i = n + 1
      <4>1. u[i] = 2 * t[n] /\ u[i - 1] = t[n]
        BY <3>1
      <4> QED
        BY <4>1
    <3>2. CASE i # n + 1
      <4>1. i \in 0..n /\ i - 1 \in 0..n /\ u[i] = t[i] /\ u[i - 1] = t[i - 1]
        BY <2>3, <3>2
      <4> QED
        BY <2>1, <2>3, <4>1 DEF Table
    <3> QED
      BY <3>1, <3>2
  <2>4. Table(n + 1, u)
    <3> HIDE DEF u
    <3> QED
      BY <2>2, <2>3 DEF Table
  <2> QED
    BY <2>4
<1>3. S = Nat
  <2> HIDE DEF S
  <2>1. S \in SUBSET Nat
    BY DEF S
  <2> QED
    BY <1>1, <1>2, <2>1, CountUp
<1> QED
  BY <1>3

LEMMA TablesAgree ==
    ASSUME NEW n \in Nat, NEW m \in Nat, NEW t, NEW u, Table(n, t), Table(m, u)
    PROVE  \A i \in Nat : i <= n /\ i <= m => t[i] = u[i]
<1> DEFINE S == {i \in Nat : i <= n /\ i <= m => t[i] = u[i]}
<1>1. 0 \in S
  BY DEF Table
<1>2. ASSUME NEW i \in S PROVE i + 1 \in S
  <2> SUFFICES ASSUME i + 1 <= n, i + 1 <= m PROVE t[i + 1] = u[i + 1]
    OBVIOUS
  <2>1. t[i] = u[i]
    OBVIOUS
  <2>2. i + 1 \in 0..n /\ i + 1 \in 0..m /\ i + 1 # 0 /\ (i + 1) - 1 = i
    OBVIOUS
  <2> QED
    BY <2>1, <2>2 DEF Table
<1>3. S = Nat
  <2> HIDE DEF S
  <2>1. S \in SUBSET Nat
    BY DEF S
  <2> QED
    BY <1>1, <1>2, <2>1, CountUp
<1> QED
  BY <1>3

(* The recursive definition of the powers defines a function.               *)
LEMMA PowerDefined ==
    PowerOfTwo = [n \in Nat |-> IF n = 0 THEN 1 ELSE 2 * PowerOfTwo[n - 1]]
<1> DEFINE T(n) == CHOOSE t : Table(n, t)
           F == [n \in Nat |-> T(n)[n]]
<1>1. \A n \in Nat : Table(n, T(n))
  BY TableExists
<1>2. ASSUME NEW n \in Nat PROVE F[n] = IF n = 0 THEN 1 ELSE 2 * F[n - 1]
  <2>1. CASE n = 0
    BY <1>1, <2>1 DEF Table
  <2>2. CASE n # 0
    <3>1. n - 1 \in Nat /\ n \in 0..n
      BY <2>2
    <3>2. F[n] = T(n)[n] /\ F[n - 1] = T(n - 1)[n - 1]
      BY <3>1
    <3> HIDE DEF T, F
    <3>3. T(n)[n] = 2 * T(n)[n - 1]
      BY <1>1, <2>2, <3>1 DEF Table
    <3>4. T(n)[n - 1] = T(n - 1)[n - 1]
      <4>1. Table(n, T(n)) /\ Table(n - 1, T(n - 1))
        BY <1>1, <3>1
      <4>2. n - 1 <= n /\ n - 1 <= n - 1
        BY <3>1
      <4> QED
        BY <3>1, <4>1, <4>2, TablesAgree
    <3> QED
      BY <2>2, <3>2, <3>3, <3>4
  <2> QED
    BY <2>1, <2>2
<1>3. F = [n \in Nat |-> IF n = 0 THEN 1 ELSE 2 * F[n - 1]]
  <2> HIDE DEF F
  <2>1. F = [n \in Nat |-> F[n]]
    BY DEF F
  <2> QED
    BY <1>2, <2>1
<1> HIDE DEF F
<1> QED
  BY <1>3 DEF PowerOfTwo

(* A power of two is a positive number, and the larger the exponent the     *)
(* larger the power.                                                        *)
LEMMA PowerPositive == \A n \in Nat : PowerOfTwo[n] \in Nat \ {0}
<1> DEFINE S == {n \in Nat : PowerOfTwo[n] \in Nat \ {0}}
<1>0. \A n \in Nat : PowerOfTwo[n] = IF n = 0 THEN 1 ELSE 2 * PowerOfTwo[n - 1]
  BY PowerDefined
<1>1. 0 \in S
  BY <1>0
<1>2. ASSUME NEW n \in S PROVE n + 1 \in S
  <2>1. n + 1 # 0 /\ (n + 1) - 1 = n /\ n + 1 \in Nat
    OBVIOUS
  <2>2. PowerOfTwo[n + 1] = 2 * PowerOfTwo[n]
    BY <1>0, <2>1
  <2> QED
    BY <2>1, <2>2
<1>3. S = Nat
  <2> HIDE DEF S
  <2>1. S \in SUBSET Nat
    BY DEF S
  <2> QED
    BY <1>1, <1>2, <2>1, CountUp
<1> QED
  BY <1>3

LEMMA PowerGrows ==
    ASSUME NEW m \in Nat
    PROVE  \A n \in Nat : n <= m => PowerOfTwo[n] <= PowerOfTwo[m]
<1> DEFINE S == {k \in Nat : \A n \in Nat : n <= k => PowerOfTwo[n] <= PowerOfTwo[k]}
<1>1. 0 \in S
  BY PowerPositive
<1>2. ASSUME NEW k \in S PROVE k + 1 \in S
  <2>1. k + 1 # 0 /\ (k + 1) - 1 = k /\ k + 1 \in Nat
    OBVIOUS
  <2>2. PowerOfTwo[k + 1] = 2 * PowerOfTwo[k]
    BY <2>1, PowerDefined
  <2>3. ASSUME NEW n \in Nat, n <= k + 1 PROVE PowerOfTwo[n] <= PowerOfTwo[k + 1]
    <3>1. CASE n = k + 1
      BY <2>1, <3>1, PowerPositive
    <3>2. CASE n <= k
      <4>1. PowerOfTwo[n] <= PowerOfTwo[k] /\ PowerOfTwo[n] \in Nat /\ PowerOfTwo[k] \in Nat
        BY <3>2, PowerPositive
      <4> QED
        BY <2>2, <4>1
    <3> QED
      BY <2>3, <3>1, <3>2
  <2> QED
    BY <2>1, <2>3
<1>3. S = Nat
  <2> HIDE DEF S
  <2>1. S \in SUBSET Nat
    BY DEF S
  <2> QED
    BY <1>1, <1>2, <2>1, CountUp
<1> QED
  BY <1>3

-----------------------------------------------------------------------------
(* The types.                                                               *)

(* The capacity of the bucket is a natural number, one token at least.      *)
LEMMA MinuteSize == Minute \in Nat /\ TokenTime <= Minute
<1>1. \A a, b \in Nat \ {0} : a * b \in Nat /\ b <= a * b
  BY SMT
<1> QED
  BY <1>1 DEF Minute

(* What the bucket holds when Wait looks at it.                             *)
LEMMA RefilledRange ==
    ASSUME TypeOK
    PROVE  /\ Refilled \in Int
           /\ 0 - TokenTime <= Refilled
           /\ Refilled <= Minute
  BY MinuteSize DEF TypeOK, Refilled, Least

LEMMA Multiples == \A a, b, c \in Nat : a * b \in Nat /\ (b <= c => a * b <= a * c)
<1> SUFFICES ASSUME NEW a \in Nat, NEW b \in Nat, NEW c \in Nat
             PROVE  a * b \in Nat /\ (b <= c => a * b <= a * c)
  OBVIOUS
<1>1. a * b \in Nat
  OBVIOUS
<1>2. ASSUME b <= c PROVE a * b <= a * c
  <2> DEFINE d == c - b
  <2>1. d \in Nat /\ c = b + d
    BY <1>2
  <2>2. \A e \in Nat : a * (b + e) = a * b + a * e /\ a * e \in Nat
    BY SMT
  <2>3. a * c = a * b + a * d /\ a * d \in Nat
    BY <2>1, <2>2
  <2> QED
    BY <1>1, <2>3
<1> QED
  BY <1>1, <1>2

(* The sleep before a retry, after whatever answer: no longer than the       *)
(* longest.                                                                  *)
LEMMA DelayRange ==
    ASSUME NEW answer, NEW n \in Nat, n <= MaxRetries
    PROVE  /\ Delay(answer, n) \in Nat
           /\ LongestDelay \in Nat
           /\ Delay(answer, n) <= LongestDelay
<1>1. PowerOfTwo[n] \in Nat /\ PowerOfTwo[MaxRetries] \in Nat
      /\ 1 <= PowerOfTwo[MaxRetries] /\ PowerOfTwo[n] <= PowerOfTwo[MaxRetries]
  BY PowerPositive, PowerGrows
<1>2. /\ BasicDelay * PowerOfTwo[n] \in Nat
      /\ BasicDelay * PowerOfTwo[MaxRetries] \in Nat
      /\ BasicDelay * PowerOfTwo[n] <= BasicDelay * PowerOfTwo[MaxRetries]
  BY <1>1, Multiples
<1>3. BasicDelay * 1 = BasicDelay /\ BasicDelay * 1 <= BasicDelay * PowerOfTwo[MaxRetries]
  BY <1>1, Multiples
<1> QED
  BY <1>2, <1>3 DEF Delay, LongestDelay

LEMMA LongestIsNat == LongestDelay \in Nat
  BY DelayRange

LEMMA TypeInit == Init => TypeOK
  BY MinuteSize, LongestIsNat DEF Init, TypeOK, RefillTime

LEMMA TypeStep ==
    ASSUME TypeOK, AttemptInv, [Next]_vars
    PROVE  TypeOK'
<1> USE DEF TypeOK, limiter, history
<1>1. CASE StartFetch
  BY <1>1 DEF StartFetch
<1>2. CASE TakeToken
  <2>1. credit' \in (0 - TokenTime)..Minute
    <3>1. Refilled \in Int /\ Refilled <= Minute /\ Minute \in Nat
      BY RefilledRange, MinuteSize
    <3>2. Minute' = Minute
      BY DEF Minute
    <3> QED
      BY <1>2, <3>1, <3>2 DEF TakeToken
  <2> QED
    BY <1>2, <2>1, MinuteSize DEF TakeToken, RefillTime
<1>3. CASE SleepForToken
  <2>1. left' \in Nat
    BY <1>3, RefilledRange DEF SleepForToken
  <2> QED
    BY <1>3, <2>1, MinuteSize DEF SleepForToken, RefillTime
<1>4. CASE WakeWithToken
  BY <1>4, MinuteSize DEF WakeWithToken, RefillTime
<1>5. CASE Send
  BY <1>5, MinuteSize DEF Send
<1>6. ASSUME NEW answer \in Answers, Return(answer) PROVE TypeOK'
  BY <1>6, LongestIsNat DEF Return, Answered
<1>7. ASSUME NEW answer \in Answers, BackOff(answer) PROVE TypeOK'
  BY <1>7, LongestIsNat, DelayRange DEF BackOff, Answered
<1>8. CASE Retry
  BY <1>8 DEF Retry, AttemptInv
<1>9. CASE GiveUp
  BY <1>9 DEF GiveUp
<1>10. CASE TakeResult
  BY <1>10 DEF TakeResult
<1>11. CASE Cancel
  BY <1>11 DEF Cancel
<1>12. CASE Tick
  <2>1. RefillTime \in Nat
    BY MinuteSize DEF RefillTime
  <2>2. recent' \in [0..Minute -> Nat]
    BY <1>12, MinuteSize DEF Tick
  <2> QED
    BY <1>12, <2>1, <2>2, LongestIsNat DEF Tick, Least
<1>13. CASE UNCHANGED vars
  BY <1>13 DEF vars
<1> QED
  BY <1>1, <1>2, <1>3, <1>4, <1>5, <1>6, <1>7, <1>8, <1>9, <1>10, <1>11, <1>12, <1>13
     DEF Next, Fetch

LEMMA SleepInit == Init => SleepInv
  BY DEF Init, SleepInv

LEMMA SleepStep ==
    ASSUME TypeOK, SleepInv, [Next]_vars
    PROVE  SleepInv'
<1> USE DEF SleepInv, TypeOK, limiter, history
<1>1. CASE StartFetch
  BY <1>1 DEF StartFetch
<1>2. CASE TakeToken
  BY <1>2 DEF TakeToken
<1>3. CASE SleepForToken
  BY <1>3, RefilledRange DEF SleepForToken
<1>4. CASE WakeWithToken
  BY <1>4 DEF WakeWithToken
<1>5. CASE Send
  BY <1>5 DEF Send
<1>6. ASSUME NEW answer \in Answers, Return(answer) PROVE SleepInv'
  BY <1>6 DEF Return
<1>7. ASSUME NEW answer \in Answers, BackOff(answer) PROVE SleepInv'
  BY <1>7 DEF BackOff
<1>8. CASE Retry
  BY <1>8 DEF Retry
<1>9. CASE GiveUp
  BY <1>9 DEF GiveUp
<1>10. CASE TakeResult
  BY <1>10 DEF TakeResult
<1>11. CASE Cancel
  BY <1>11 DEF Cancel
<1>12. CASE Tick
  BY <1>12 DEF Tick
<1>13. CASE UNCHANGED vars
  BY <1>13 DEF vars
<1> QED
  BY <1>1, <1>2, <1>3, <1>4, <1>5, <1>6, <1>7, <1>8, <1>9, <1>10, <1>11, <1>12, <1>13
     DEF Next, Fetch

LEMMA AttemptInit == Init => AttemptInv
<1> SUFFICES ASSUME Init PROVE AttemptInv
  OBVIOUS
<1>1. pc = "idle" /\ attempt = 0 /\ answers = <<>> /\ logged = 0
  BY DEF Init
<1>2. answers \in Seq(Answers) /\ Len(answers) = 0
  BY <1>1
<1>3. canceled \in BOOLEAN
  BY DEF Init
<1> QED
  BY <1>1, <1>2, <1>3 DEF AttemptInv, Requesting

LEMMA AttemptStep ==
    ASSUME TypeOK, AttemptInv, [Next]_vars
    PROVE  AttemptInv'
<1> USE DEF TypeOK, AttemptInv, Requesting, limiter, history
<1>1. CASE StartFetch
  BY <1>1 DEF StartFetch
<1>2. CASE TakeToken
  BY <1>2 DEF TakeToken
<1>3. CASE SleepForToken
  BY <1>3 DEF SleepForToken
<1>4. CASE WakeWithToken
  BY <1>4 DEF WakeWithToken
<1>5. CASE Send
  BY <1>5 DEF Send
<1>6. ASSUME NEW answer \in Answers, Return(answer) PROVE AttemptInv'
  <2>1. /\ answers' \in Seq(Answers)
        /\ Len(answers') = attempt + 1
        /\ \A i \in 1..Len(answers) : answers'[i] = answers[i]
        /\ answers'[Len(answers')] = answer
    BY <1>6 DEF Return, Answered
  <2>2. Retryable(answer) => attempt = MaxRetries
    BY <1>6 DEF Return, Retried, Retryable
  <2>3. \A i \in 1..Len(answers') : i < Len(answers') => Retryable(answers'[i])
    BY <1>6, <2>1 DEF Return
  <2> QED
    BY <1>6, <2>1, <2>2, <2>3 DEF Return, Answered
<1>7. ASSUME NEW answer \in Answers, BackOff(answer) PROVE AttemptInv'
  <2>1. /\ answers' \in Seq(Answers)
        /\ Len(answers') = attempt + 1
        /\ \A i \in 1..Len(answers) : answers'[i] = answers[i]
        /\ answers'[Len(answers')] = answer
    BY <1>7 DEF BackOff, Answered
  <2>2. Retryable(answer) /\ attempt < MaxRetries
    BY <1>7 DEF BackOff, Retried, Retryable
  <2>3. \A i \in 1..Len(answers') : Retryable(answers'[i])
    BY <1>7, <2>1, <2>2 DEF BackOff
  <2> QED
    BY <1>7, <2>1, <2>2, <2>3 DEF BackOff, Answered
<1>8. CASE Retry
  BY <1>8 DEF Retry
<1>9. CASE GiveUp
  BY <1>9 DEF GiveUp
<1>10. CASE TakeResult
  BY <1>10 DEF TakeResult
<1>11. CASE Cancel
  BY <1>11 DEF Cancel
<1>12. CASE Tick
  BY <1>12 DEF Tick
<1>13. CASE UNCHANGED vars
  BY <1>13 DEF vars
<1> QED
  BY <1>1, <1>2, <1>3, <1>4, <1>5, <1>6, <1>7, <1>8, <1>9, <1>10, <1>11, <1>12, <1>13
     DEF Next, Fetch

-----------------------------------------------------------------------------
(* The request rate.  What a token stands for is the time it takes to        *)
(* refill: the requests of the last a ticks, and the one that has its token  *)
(* and is not sent yet, took no more of it than the bucket held, the debt of *)
(* one token, and the a ticks, less what the bucket holds now.               *)

\* A request that has its token goes out with the next step of the Fetch.
Pending == IF pc = "send" THEN 1 ELSE 0

\* What the bucket would hold if Wait looked at it now; the sleep for a token
\* fills it to one.
Held == IF pc = "sleep" THEN TokenTime - left ELSE Refilled

Above(x) == IF x > 0 THEN x ELSE 0

RateInv ==
    \A a \in 0..Minute :
        (recent[a] + Pending) * TokenTime <= Minute + TokenTime + a - Above(Held)

LEMMA OneMore == \A n \in Nat, t \in Nat : n * t \in Nat /\ (n + 1) * t = n * t + t
  BY SMT

(* No more than k things of t ticks each fit into less than k + 1 times t.   *)
LEMMA Fewer ==
    ASSUME NEW n \in Nat, NEW k \in Nat, NEW t \in Nat \ {0}, n * t <= k * t
    PROVE  n <= k
<1> SUFFICES ASSUME n > k PROVE FALSE
  OBVIOUS
<1> DEFINE d == n - (k + 1)
<1>1. d \in Nat /\ n = d + (k + 1)
  OBVIOUS
<1>2. d * t \in Nat /\ n * t = d * t + (k * t + t)
  <2>1. \A e \in Nat : (e + (k + 1)) * t = e * t + (k * t + t) /\ e * t \in Nat
    BY SMT
  <2> QED
    BY <1>1, <2>1
<1>3. k * t \in Nat
  BY OneMore
<1> QED
  BY <1>2, <1>3

LEMMA HeldRange ==
    ASSUME TypeOK, SleepInv
    PROVE  Held \in Int /\ Held <= Minute
  BY RefilledRange, MinuteSize DEF Held, TypeOK

LEMMA RateInit == Init => RateInv
<1> SUFFICES ASSUME Init PROVE RateInv
  OBVIOUS
<1>1. recent = [a \in 0..Minute |-> 0] /\ Pending = 0 /\ Held = Minute
  BY MinuteSize DEF Init, Pending, Held, Refilled, Least
<1>2. (0 + 0) * TokenTime = 0
  OBVIOUS
<1> QED
  BY <1>1, <1>2, MinuteSize DEF RateInv, Above

(* A step that sends nothing and does not add to what the bucket holds.      *)
LEMMA RateKept ==
    ASSUME TypeOK, SleepInv, RateInv, recent' = recent, Pending' = Pending,
           Held' \in Int, Held' <= Held
    PROVE  RateInv'
<1>1. Held \in Int
  BY HeldRange
<1>2. Above(Held') <= Above(Held) /\ Above(Held') \in Nat /\ Above(Held) \in Nat
  BY <1>1 DEF Above
<1>3. ASSUME NEW a \in 0..Minute
      PROVE  (recent'[a] + Pending') * TokenTime
                <= Minute + TokenTime + a - Above(Held')
  <2>1. (recent'[a] + Pending') * TokenTime <= Minute + TokenTime + a - Above(Held)
    BY DEF RateInv
  <2>2. (recent[a] + Pending) \in Nat
    BY DEF TypeOK, Pending
  <2>3. (recent[a] + Pending) * TokenTime \in Nat
    BY <2>2, OneMore
  <2> QED
    BY <1>2, <2>1, <2>3, MinuteSize
<1>4. Minute' = Minute
  BY DEF Minute
<1> QED
  BY <1>3, <1>4 DEF RateInv, Above

(* A request gets its token: one more is pending, and one token less is held. *)
LEMMA RateTaken ==
    ASSUME TypeOK, SleepInv, RateInv, recent' = recent, pc # "send", pc' = "send",
           Held' \in Int, Above(Held) = Above(Held') + TokenTime
    PROVE  RateInv'
<1>1. Pending = 0 /\ Pending' = 1 /\ Minute' = Minute
  BY DEF Pending, Minute
<1>2. Above(Held') \in Int
  BY DEF Above
<1>3. ASSUME NEW a \in 0..Minute
      PROVE  (recent'[a] + Pending') * TokenTime
                <= Minute + TokenTime + a - Above(Held')
  <2>1. recent[a] \in Nat /\ (recent[a] + 0) * TokenTime <= Minute + TokenTime + a - Above(Held)
    BY <1>1 DEF TypeOK, RateInv
  <2>2. recent[a] * TokenTime \in Nat
        /\ (recent[a] + 1) * TokenTime = recent[a] * TokenTime + TokenTime
    BY <2>1, OneMore
  <2>3. recent[a] + 0 = recent[a]
    BY <2>1
  <2> QED
    BY <1>1, <1>2, <2>1, <2>2, <2>3, MinuteSize
<1> QED
  BY <1>1, <1>3 DEF RateInv, Above

(* The pending request goes out, or is dropped when the context is canceled. *)
LEMMA RateSent ==
    ASSUME TypeOK, SleepInv, RateInv, Send
    PROVE  RateInv'
<1>1. Pending = 1 /\ Pending' = 0 /\ Minute' = Minute /\ Held' = Held
  BY DEF Send, limiter, Pending, Minute, Held, Refilled, Least
<1>2. recent' \in [0..Minute -> Nat]
      /\ \A a \in 0..Minute : recent'[a] = recent[a] \/ recent'[a] = recent[a] + 1
  BY DEF Send, TypeOK, RateInv
<1>3. Above(Held) \in Int
  BY HeldRange DEF Above
<1>4. ASSUME NEW a \in 0..Minute
      PROVE  (recent'[a] + 0) * TokenTime <= Minute + TokenTime + a - Above(Held)
  <2>1. recent[a] \in Nat /\ (recent[a] + 1) * TokenTime <= Minute + TokenTime + a - Above(Held)
    BY <1>1 DEF TypeOK, RateInv
  <2>2. recent[a] * TokenTime \in Nat
        /\ (recent[a] + 1) * TokenTime = recent[a] * TokenTime + TokenTime
    BY <2>1, OneMore
  <2>3. CASE recent'[a] = recent[a]
    <3>1. recent'[a] + 0 = recent[a]
      BY <2>1, <2>3
    <3> QED
      BY <1>3, <2>1, <2>2, <3>1, MinuteSize
  <2>4. CASE recent'[a] = recent[a] + 1
    <3>1. recent'[a] + 0 = recent[a] + 1
      BY <2>1, <2>4
    <3> QED
      BY <2>1, <3>1
  <2> QED
    BY <1>2, <2>3, <2>4
<1> QED
  BY <1>1, <1>2, <1>4 DEF RateInv, Above

(* The clock: everything is a tick older, and the bucket fills by at most one. *)
LEMMA RateAges ==
    ASSUME TypeOK, SleepInv, RateInv, Tick
    PROVE  RateInv'
<1>1. Pending' = Pending /\ Minute' = Minute /\ RefillTime \in Nat
  BY MinuteSize DEF Tick, Pending, Minute, RefillTime
<1>2. Held \in Int /\ Held <= Minute
  BY HeldRange
<1>3. Held' \in Int /\ Held' <= Held + 1 /\ Held' <= Minute
  <2>1. CASE pc = "sleep"
    BY <2>1, MinuteSize DEF Held, Tick, TypeOK
  <2>2. CASE pc # "sleep"
    <3>1. Refilled' \in Int /\ Refilled' <= Refilled + 1 /\ Refilled' <= Minute
      BY <1>1, MinuteSize DEF Tick, Refilled, Least, TypeOK
    <3> QED
      BY <2>2, <3>1 DEF Held, Tick
  <2> QED
    BY <2>1, <2>2
<1>4. /\ Above(Held) \in Nat /\ Above(Held') \in Nat
      /\ Above(Held') <= Above(Held) + 1 /\ Above(Held') <= Minute
  BY <1>2, <1>3, MinuteSize DEF Above
<1>5. recent' \in [0..Minute -> Nat]
  BY MinuteSize DEF Tick, TypeOK
<1>6. ASSUME NEW a \in 0..Minute
      PROVE  (recent'[a] + Pending) * TokenTime
                <= Minute + TokenTime + a - Above(Held')
  <2>1. CASE a = 0
    <3>1. recent'[a] + Pending = 0 \/ recent'[a] + Pending = 1
      BY <2>1 DEF Tick, Pending
    <3>2. 0 * TokenTime = 0 /\ 1 * TokenTime = TokenTime
      OBVIOUS
    <3> QED
      BY <1>4, <2>1, <3>1, <3>2, MinuteSize
  <2>2. CASE a # 0
    <3>1. a - 1 \in 0..Minute /\ recent'[a] = recent[a - 1]
      BY <2>2, MinuteSize DEF Tick
    <3>2. (recent[a - 1] + Pending) * TokenTime
             <= Minute + TokenTime + (a - 1) - Above(Held)
      BY <3>1 DEF RateInv
    <3>3. (recent[a - 1] + Pending) * TokenTime \in Nat
      <4>1. recent[a - 1] + Pending \in Nat
        BY <3>1 DEF TypeOK, Pending
      <4> QED
        BY <4>1, OneMore
    <3> QED
      BY <1>4, <3>1, <3>2, <3>3, MinuteSize
  <2> QED
    BY <2>1, <2>2
<1> QED
  BY <1>1, <1>5, <1>6 DEF RateInv, Above

LEMMA RateStep == TypeOK /\ SleepInv /\ RateInv /\ [Next]_vars => RateInv'
<1> SUFFICES ASSUME TypeOK, SleepInv, RateInv, [Next]_vars PROVE RateInv'
  OBVIOUS
<1> USE DEF limiter, history
<1>a. ASSUME recent' = recent, pc # "send", pc' # "send", Held' = Held PROVE RateInv'
  BY <1>a, HeldRange, RateKept DEF Pending
<1>1. CASE StartFetch
  BY <1>1, <1>a DEF StartFetch, Held, Refilled, Least
<1>2. CASE TakeToken
  <2>1. Held = Refilled /\ Held' = Refilled - TokenTime
    BY <1>2, RefilledRange, MinuteSize DEF TakeToken, Held, Refilled, Least
  <2>2. Held' \in Int /\ Above(Held) = Above(Held') + TokenTime
    BY <1>2, <2>1, RefilledRange DEF TakeToken, Above
  <2> QED
    BY <1>2, <2>2, RateTaken DEF TakeToken
<1>3. CASE SleepForToken
  <2>1. Held' = Held
    BY <1>3, RefilledRange DEF SleepForToken, Held
  <2> QED
    BY <1>3, <1>a, <2>1 DEF SleepForToken
<1>4. CASE WakeWithToken
  <2>1. Held = TokenTime /\ Held' = 0 - TokenTime
    BY <1>4, MinuteSize DEF WakeWithToken, Held, Refilled, Least
  <2>2. Held' \in Int /\ Above(Held) = Above(Held') + TokenTime
    BY <2>1 DEF Above
  <2> QED
    BY <1>4, <2>2, RateTaken DEF WakeWithToken
<1>5. CASE Send
  BY <1>5, RateSent
<1>6. ASSUME NEW answer \in Answers, Return(answer) PROVE RateInv'
  BY <1>6, <1>a DEF Return, Held, Refilled, Least
<1>7. ASSUME NEW answer \in Answers, BackOff(answer) PROVE RateInv'
  BY <1>7, <1>a DEF BackOff, Held, Refilled, Least
<1>8. CASE Retry
  BY <1>8, <1>a DEF Retry, Held, Refilled, Least
<1>9. CASE GiveUp
  BY <1>9, <1>a DEF GiveUp, Held, Refilled, Least
<1>10. CASE TakeResult
  BY <1>10, <1>a DEF TakeResult, Held, Refilled, Least
<1>11. CASE Cancel
  <2>1. Held' = Held /\ Pending' = Pending
    BY <1>11 DEF Cancel, Held, Pending, Refilled, Least
  <2> QED
    BY <1>11, <2>1, HeldRange, RateKept DEF Cancel
<1>12. CASE Tick
  BY <1>12, RateAges
<1>13. CASE UNCHANGED vars
  <2>1. Held' = Held /\ Pending' = Pending
    BY <1>13 DEF vars, Held, Pending, Refilled, Least
  <2> QED
    BY <1>13, <2>1, HeldRange, RateKept DEF vars
<1> QED
  BY <1>1, <1>2, <1>3, <1>4, <1>5, <1>6, <1>7, <1>8, <1>9, <1>10, <1>11, <1>12, <1>13
     DEF Next, Fetch

-----------------------------------------------------------------------------
(* When a retry is due.  The time since the last answer and the sleep that   *)
(* is left make up the delay this answer asked for; after the sleep the time *)
(* alone does, until the next answer.                                        *)

\* The delay before the attempt that follows the nth answer.
Due(n) == Delay(answers[n], n - 1)

QuietInv ==
    /\ pc = "backoff" => quiet + left >= Due(attempt + 1)
    /\ pc \in Requesting \ {"answer"} /\ attempt > 0 => quiet >= Due(attempt)

LEMMA QuietInit == Init => QuietInv
  BY DEF Init, QuietInv, Requesting

\* A delay that has run out has done so although quiet is counted to the
\* longest delay only.
LEMMA QuietAges ==
    ASSUME TypeOK, AttemptInv, QuietInv, Tick
    PROVE  QuietInv'
<1> USE DEF TypeOK
<1>1. \A answer : \A n \in Nat : n <= MaxRetries =>
         Delay(answer, n) \in Nat /\ Delay(answer, n) <= LongestDelay /\ LongestDelay \in Nat
  BY DelayRange
<1>2. \A n : Due(n)' = Due(n)
  BY DEF Due, Tick, Delay
<1>3. ASSUME pc = "backoff" PROVE quiet' + left' >= Due(attempt + 1)
  <2>1. Due(attempt + 1) \in Nat /\ Due(attempt + 1) <= LongestDelay /\ LongestDelay \in Nat
    <3>1. (attempt + 1) - 1 = attempt /\ attempt \in Nat /\ attempt <= MaxRetries
      OBVIOUS
    <3> QED
      BY <1>1, <3>1 DEF Due
  <2>2. quiet + left >= Due(attempt + 1)
    BY <1>3 DEF QuietInv
  <2> QED
    BY <2>1, <2>2 DEF Tick, Least
<1>4. ASSUME attempt > 0, quiet >= Due(attempt) PROVE quiet' >= Due(attempt)
  <2>1. Due(attempt) \in Nat /\ Due(attempt) <= LongestDelay /\ LongestDelay \in Nat
    <3>1. attempt - 1 \in Nat /\ attempt - 1 <= MaxRetries
      BY <1>4
    <3> QED
      BY <1>1, <3>1 DEF Due
  <2> QED
    BY <1>4, <2>1 DEF Tick, Least
<1>5. pc' = pc /\ attempt' = attempt
  BY DEF Tick
<1> QED
  BY <1>2, <1>3, <1>4, <1>5 DEF QuietInv

LEMMA QuietStep ==
    ASSUME TypeOK, AttemptInv, QuietInv, [Next]_vars
    PROVE  QuietInv'
<1> USE DEF QuietInv, Requesting, limiter, history
<1>a. ASSUME answers' = answers PROVE \A n : Due(n)' = Due(n)
  BY <1>a DEF Due, Delay
<1>1. CASE StartFetch
  BY <1>1 DEF StartFetch
<1>2. CASE TakeToken
  BY <1>2, <1>a DEF TakeToken
<1>3. CASE SleepForToken
  BY <1>3, <1>a DEF SleepForToken
<1>4. CASE WakeWithToken
  BY <1>4, <1>a DEF WakeWithToken
<1>5. CASE Send
  BY <1>5 DEF Send
<1>6. ASSUME NEW answer \in Answers, Return(answer) PROVE QuietInv'
  BY <1>6 DEF Return
<1>7. ASSUME NEW answer \in Answers, BackOff(answer) PROVE QuietInv'
  <2>1. Len(answers) = attempt /\ attempt \in Nat /\ answers \in Seq(Answers)
    BY <1>7 DEF BackOff, AttemptInv, TypeOK
  <2>2. answers'[attempt + 1] = answer
    BY <1>7, <2>1 DEF BackOff, Answered
  <2>3. Delay(answer, attempt) \in Nat
    BY DelayRange DEF TypeOK
  <2>4. (attempt + 1) - 1 = attempt
    BY <2>1
  <2>5. Due(attempt + 1)' = Delay(answer, attempt)
    BY <1>7, <2>2, <2>4 DEF BackOff, Due, Delay
  <2> QED
    BY <1>7, <2>3, <2>5 DEF BackOff, Answered
<1>8. CASE Retry
  <2>1. attempt \in Nat /\ quiet + 0 = quiet
    BY DEF TypeOK
  <2>2. quiet >= Due(attempt + 1)
    BY <1>8, <2>1 DEF Retry
  <2>3. Due(attempt)' = Due(attempt + 1)
    BY <1>8 DEF Retry, Due, Delay
  <2> QED
    BY <1>8, <2>2, <2>3 DEF Retry
<1>9. CASE GiveUp
  BY <1>9 DEF GiveUp
<1>10. CASE TakeResult
  BY <1>10 DEF TakeResult
<1>11. CASE Cancel
  BY <1>11, <1>a DEF Cancel
<1>12. CASE Tick
  BY <1>12, QuietAges
<1>13. CASE UNCHANGED vars
  BY <1>13, <1>a DEF vars
<1> QED
  BY <1>1, <1>2, <1>3, <1>4, <1>5, <1>6, <1>7, <1>8, <1>9, <1>10, <1>11, <1>12, <1>13
     DEF Next, Fetch

-----------------------------------------------------------------------------
Inv == TypeOK /\ SleepInv /\ AttemptInv /\ RateInv /\ QuietInv

THEOREM Invariance == Spec => []Inv
<1>1. Init => Inv
  BY TypeInit, SleepInit, AttemptInit, RateInit, QuietInit DEF Inv
<1>2. Inv /\ [Next]_vars => Inv'
  BY TypeStep, SleepStep, AttemptStep, RateStep, QuietStep DEF Inv
<1> QED
  BY <1>1, <1>2, PTL DEF Spec

(* The limiter, the locals of Fetch and the history keep their types.        *)
THEOREM TypeCorrect == Spec => []TypeOK
<1>1. Inv => TypeOK
  BY DEF Inv
<1> QED
  BY Invariance, <1>1, PTL

(* RateLimiter.Wait: whatever the bucket's capacity and the pace at which it *)
(* refills, a call sleeps for two tokens at most, because the debt that a    *)
(* wait leaves behind is never more than one token.                          *)
THEOREM WaitBounded == Spec => []WaitIsBounded
<1>1. Inv => WaitIsBounded
  BY DEF Inv, SleepInv, WaitIsBounded
<1> QED
  BY Invariance, <1>1, PTL

(* Fetch: whatever the API answers and whenever the context is canceled,     *)
(* only 429 and 5xx are retried, a Fetch that is not canceled gives up on    *)
(* them after the last retry and not before, and each attempt is logged      *)
(* once.                                                                     *)
THEOREM RetriesFollowPolicy == Spec => []RetryPolicy
<1>1. Inv => RetryPolicy
  BY DEF Inv, TypeOK, AttemptInv, Requesting, RetryPolicy
<1> QED
  BY Invariance, <1>1, PTL

(* Fetch: no request goes out after the cancellation, and none before the    *)
(* delay has passed that the answer before it asked for, however often the   *)
(* delay has doubled and however long the request waits for its token.       *)
THEOREM RequestsAreDue == Spec => SendsOnlyWhenDue
<1> DEFINE Request ==
      recent'[0] > recent[0] =>
          /\ ~canceled
          /\ attempt > 0 =>
                quiet >= BasicDelay * (IF answers[attempt] = "429"
                                       THEN PowerOfTwo[attempt - 1] ELSE 1)
<1>1. Inv /\ [Next]_vars => [Request]_recent
  <2> SUFFICES ASSUME Inv, [Next]_vars, recent' # recent PROVE Request
    OBVIOUS
  <2>1. Send \/ Tick
    BY DEF Next, vars, Fetch, StartFetch, TakeToken, SleepForToken, WakeWithToken, Return,
           BackOff, Retry, GiveUp, TakeResult, Cancel, history
  <2>2. CASE Tick
    <3>1. recent[0] \in Nat /\ recent'[0] = 0
      BY <2>2, MinuteSize DEF Inv, TypeOK, Tick
    <3> QED
      BY <3>1
  <2>3. CASE Send
    <3>1. ~canceled
      BY <2>3 DEF Send
    <3>2. attempt > 0 => quiet >= Due(attempt)
      BY <2>3 DEF Send, Inv, QuietInv, Requesting
    <3>3. BasicDelay * 1 = BasicDelay
      OBVIOUS
    <3> QED
      BY <3>1, <3>2, <3>3 DEF Due, Delay
  <2> QED
    BY <2>1, <2>2, <2>3
<1>2. SendsOnlyWhenDue <=> [][Request]_recent
  BY DEF SendsOnlyWhenDue
<1> QED
  BY Invariance, <1>1, <1>2, PTL DEF Spec

(* RateLimiter.Wait: whatever the bucket's capacity and the pace at which it *)
(* refills, at most two buckets of requests and one more go out in a minute. *)
THEOREM RateBounded == Spec => []RateIsBounded
<1>1. Inv => RateIsBounded
  <2> SUFFICES ASSUME TypeOK, SleepInv, RateInv PROVE RateIsBounded
    BY DEF Inv
  <2>1. /\ recent[Minute] \in Nat
        /\ (recent[Minute] + Pending) * TokenTime <= Minute + TokenTime + Minute - Above(Held)
    BY MinuteSize DEF TypeOK, RateInv
  <2>2. Above(Held) \in Nat
    BY HeldRange DEF Above
  <2>3. /\ recent[Minute] * TokenTime \in Nat
        /\ (recent[Minute] + 1) * TokenTime = recent[Minute] * TokenTime + TokenTime
        /\ recent[Minute] + 0 = recent[Minute]
    BY <2>1, OneMore
  <2>4. recent[Minute] * TokenTime <= (recent[Minute] + Pending) * TokenTime
    BY <2>3 DEF Pending
  <2>5. (2 * MaxRPM + 1) * TokenTime = Minute + Minute + TokenTime
    <3>1. \A n, t \in Nat : (2 * n + 1) * t = n * t + n * t + t
      BY SMT
    <3> QED
      BY <3>1 DEF Minute
  <2>6. recent[Minute] * TokenTime <= (2 * MaxRPM + 1) * TokenTime
    <3>1. (recent[Minute] + Pending) * TokenTime \in Nat
      BY <2>3 DEF Pending
    <3> QED
      BY <2>1, <2>2, <2>3, <2>4, <2>5, <3>1, MinuteSize
  <2> QED
    BY <2>1, <2>6, Fewer DEF RateIsBounded
<1> QED
  BY Invariance, <1>1, PTL

=============================================================================
