------------------------------ MODULE Connector ------------------------------
(***************************************************************************)
(* The HTTP connector (internal/api/http/connector.go): Fetch with its     *)
(* retries, and the token bucket it waits for before every request.  The   *)
(* planner fetches from one goroutine, so one Fetch runs at a time.        *)
(*                                                                         *)
(* Time passes in ticks.  A token takes TokenTime ticks to refill; credit  *)
(* counts the bucket's contents in ticks, a whole token is TokenTime.      *)
(* Times are kept as what has passed since, so that no clock is needed.    *)
(***************************************************************************)
EXTENDS Integers, Sequences

CONSTANTS
    MaxRPM,      \* api.max_rpm, the capacity of the bucket
    TokenTime,   \* ticks in which a token refills; a minute is MaxRPM of them
    MaxRetries,  \* api.retries.errors_max_retries
    BasicDelay   \* api.retries.basic_retry_timeout, in ticks

ASSUME ConstantsAssumption ==
    /\ MaxRPM \in Nat \ {0}
    /\ TokenTime \in Nat \ {0}
    /\ MaxRetries \in Nat
    /\ BasicDelay \in Nat \ {0}

VARIABLES
    credit,    \* RateLimiter.tokens
    elapsed,   \* ticks since RateLimiter.lastRefill, as far as they matter
    pc,        \* progress of the Fetch
    attempt,   \* its loop variable
    left,      \* ticks the sleep under way still takes
    canceled,  \* whether the context is canceled
    answers,   \* history variable: what became of the attempts of this Fetch
    logged,    \* history variable: calls of LogRequest in this Fetch
    quiet,     \* history variable: ticks since the last answer, as far as they matter
    recent     \* history variable: requests sent in the last a ticks, for each a

limiter == <<credit, elapsed>>
history == <<answers, logged, quiet, recent>>
vars == <<credit, elapsed, pc, attempt, left, canceled, answers, logged, quiet, recent>>

-----------------------------------------------------------------------------
Minute == MaxRPM * TokenTime

Least(a, b) == IF a < b THEN a ELSE b

\* An emptied bucket with a token of debt is full again after this time.
RefillTime == Minute + TokenTime

Answers == {"2xx", "429", "5xx", "other", "unread", "none"}

DelayFixed(answer, n) == BasicDelay   \* mutant: 429 is treated like 5xx

\* 1 << n
PowerOfTwo[n \in Nat] == IF n = 0 THEN 1 ELSE 2 * PowerOfTwo[n - 1]

\* retryDelay
Delay(answer, n) == IF answer = "429" THEN BasicDelay * PowerOfTwo[n] ELSE BasicDelay

LongestDelay == BasicDelay * PowerOfTwo[MaxRetries]

RetriedUntilLimit(answer) ==   \* mutant: off by one
    answer \in {"429", "5xx"} /\ attempt + 1 < MaxRetries

\* shouldRetry
Retried(answer) == answer \in {"429", "5xx"} /\ attempt < MaxRetries

-----------------------------------------------------------------------------
\* NewRateLimiter
Init ==
    /\ credit = Minute
    /\ elapsed = 0
    /\ pc = "idle"
    /\ attempt = 0
    /\ left = 0
    /\ canceled = FALSE
    /\ answers = <<>>
    /\ logged = 0
    /\ quiet = 0
    /\ recent = [a \in 0..Minute |-> 0]

StartFetch ==
    /\ pc = "idle"
    /\ pc' = "limiter"
    /\ attempt' = 0
    /\ answers' = <<>>
    /\ logged' = 0
    /\ UNCHANGED <<limiter, left, canceled, quiet, recent>>

-----------------------------------------------------------------------------
(* RateLimiter.Wait *)

RefilledWithoutCap == credit + elapsed   \* mutant: an idle bucket overflows

Refilled == Least(credit + elapsed, Minute)

TakeToken ==
    /\ pc = "limiter"
    /\ Refilled >= TokenTime
    /\ credit' = Refilled - TokenTime
    /\ elapsed' = 0
    /\ pc' = "send"
    /\ UNCHANGED <<attempt, left, canceled, history>>

\* tokens is set to zero before the lock is released.
SleepForToken ==
    /\ pc = "limiter"
    /\ Refilled < TokenTime
    /\ left' = TokenTime - Refilled
    /\ credit' = 0
    /\ elapsed' = 0
    /\ pc' = "sleep"
    /\ UNCHANGED <<attempt, canceled, history>>

WakeKeepsDebt ==   \* mutant: the token is taken before the sleep and after it
    /\ pc = "sleep" /\ left = 0
    /\ credit' = credit - 2 * TokenTime
    /\ elapsed' = 0
    /\ pc' = "send"
    /\ UNCHANGED <<attempt, left, canceled, history>>

WakeAndLookAgain ==   \* mutant: Wait starts over with the bucket it has just emptied
    /\ pc = "sleep" /\ left = 0
    /\ credit' = 0
    /\ elapsed' = 0
    /\ pc' = "limiter"
    /\ UNCHANGED <<attempt, left, canceled, history>>

\* After the sleep tokens is zero again, and then decremented.
WakeWithToken ==
    /\ pc = "sleep" /\ left = 0
    /\ credit' = 0 - TokenTime
    /\ elapsed' = 0
    /\ pc' = "send"
    /\ UNCHANGED <<attempt, left, canceled, history>>

-----------------------------------------------------------------------------
(* Fetch *)

\* client.Do sends nothing when the context is canceled already.
Send ==
    /\ pc = "send"
    /\ recent' = IF canceled THEN recent ELSE [a \in 0..Minute |-> recent[a] + 1]
    /\ pc' = "answer"
    /\ UNCHANGED <<limiter, attempt, left, canceled, answers, logged, quiet>>

Answered(answer) ==
    /\ answers' = Append(answers, answer)
    /\ logged' = logged + 1
    /\ quiet' = 0

\* Fetch returns a result for 2xx; for a body that cannot be read, a transport
\* error and the other answers that are not retried it returns an error.
Return(answer) ==
    /\ pc = "answer"
    /\ canceled => answer = "none"
    /\ ~Retried(answer)
    /\ Answered(answer)
    /\ pc' = "done"
    /\ UNCHANGED <<limiter, attempt, left, canceled, recent>>

BackOff(answer) ==
    /\ pc = "answer"
    /\ ~canceled
    /\ Retried(answer)
    /\ Answered(answer)
    /\ left' = Delay(answer, attempt)
    /\ pc' = "backoff"
    /\ UNCHANGED <<limiter, attempt, canceled, recent>>

\* sleepWithContext returns nil: the next turn of the loop.
Retry ==
    /\ pc = "backoff" /\ left = 0
    /\ attempt' = attempt + 1
    /\ pc' = "limiter"
    /\ UNCHANGED <<limiter, left, canceled, history>>

\* sleepWithContext returns the context's error.
GiveUp ==
    /\ pc = "backoff" /\ canceled
    /\ left' = 0
    /\ pc' = "done"
    /\ UNCHANGED <<limiter, attempt, canceled, history>>

\* The planner takes the result and may fetch again.
TakeResult ==
    /\ pc = "done"
    /\ pc' = "idle"
    /\ UNCHANGED <<limiter, attempt, left, canceled, history>>

-----------------------------------------------------------------------------
Cancel ==
    /\ ~canceled
    /\ canceled' = TRUE
    /\ UNCHANGED <<limiter, pc, attempt, left, history>>

Tick ==
    /\ elapsed' = Least(elapsed + 1, RefillTime)
    /\ left' = IF left = 0 THEN 0 ELSE left - 1
    /\ quiet' = Least(quiet + 1, LongestDelay)
    /\ recent' = [a \in 0..Minute |-> IF a = 0 THEN 0 ELSE recent[a - 1]]
    /\ UNCHANGED <<credit, pc, attempt, canceled, answers, logged>>

Fetch ==
    \/ TakeToken \/ SleepForToken \/ WakeWithToken
    \/ Send
    \/ \E answer \in Answers : Return(answer) \/ BackOff(answer)
    \/ Retry \/ GiveUp \/ TakeResult

Next == StartFetch \/ Fetch \/ Cancel \/ Tick

Spec == Init /\ [][Next]_vars

\* Time passes, and the HTTP client has a timeout.
FairSpec == Spec /\ WF_vars(Fetch) /\ WF_vars(Tick)

-----------------------------------------------------------------------------
(* Properties *)

\* Every variable has its type (the limiter, the locals of Fetch, the history).
TypeOK ==
    /\ credit \in (0 - TokenTime)..Minute
    /\ elapsed \in 0..RefillTime
    /\ pc \in {"idle", "limiter", "sleep", "send", "answer", "backoff", "done"}
    /\ attempt \in 0..MaxRetries
    /\ left \in Nat
    /\ canceled \in BOOLEAN
    /\ answers \in Seq(Answers)
    /\ logged \in Nat
    /\ quiet \in 0..LongestDelay
    /\ recent \in [0..Minute -> Nat]

\* A call never waits for more than two tokens: the debt that a wait leaves
\* does not pile up from one wait to the next.
WaitIsBounded == pc = "sleep" => left <= 2 * TokenTime

\* In no minute more than two buckets of requests go out and one more: the
\* bucket that was full when the minute began, what refilled, and a request
\* that had its token before.  (That is more than max_rpm.)
RateIsBounded == recent[Minute] <= 2 * MaxRPM + 1

\* README, Retry Policy: answers 429 and 5xx are retried, and no others; a
\* Fetch that is not canceled gives up only after MaxRetries retries.  Each
\* attempt is logged once, which is what the request counters count.
Retryable(answer) == answer \in {"429", "5xx"}

RetryPolicy ==
    /\ \A i \in DOMAIN answers : i < Len(answers) => Retryable(answers[i])
    /\ pc = "done" /\ ~canceled /\ Retryable(answers[Len(answers)]) =>
          Len(answers) = MaxRetries + 1
    /\ pc \in {"backoff", "done"} => Len(answers) = attempt + 1
    /\ logged = Len(answers)

\* README, Retry Policy: a request goes out only when it is due.  None does
\* after the context is canceled, whatever sleep the cancellation falls into;
\* a retry waits for the basic delay, which doubles with every attempt after
\* a 429.
SendsOnlyWhenDue ==
    [][recent'[0] > recent[0] =>
          /\ ~canceled
          /\ attempt > 0 =>
                quiet >= BasicDelay * (IF answers[attempt] = "429"
                                       THEN PowerOfTwo[attempt - 1] ELSE 1)]_recent

\* Every Fetch returns, whatever the bucket holds and the API answers.
FetchEnds == pc = "limiter" ~> pc = "idle"
=============================================================================
