----------------------------- MODULE HttpClient -----------------------------
(***************************************************************************)
(* The outbound HTTP client: calls of Client.Do retry with a backoff, and   *)
(* all calls of one client share one circuit breaker.                       *)
(*                                                                         *)
(* The mutex of the breaker makes allow and record atomic, each on its own; *)
(* between the two a request is on the wire for up to 30 s while other      *)
(* calls move the breaker on.  Time is abstracted to one bit: cooled is     *)
(* TRUE when time.Since(openedAt) has reached openTimeout.                  *)
(* Durations are int64 numbers of nanoseconds; here a word of the same      *)
(* make, from -(MaxInt + 1) to MaxInt, that a few attempts can overflow.    *)
(***************************************************************************)
EXTENDS Integers

CONSTANTS
    Callers,        \* goroutines that call Do
    Configured,     \* values of cfg.MaxRetries a client is made with
    DefaultRetries, \* what New puts in the place of 0
    MaxFailures,    \* consecutive failures that open the breaker
    ProbeLimit,     \* successes that close it again
    Base, Cap,      \* of the backoff
    MaxInt          \* largest value of a duration

ASSUME ClientAssumption ==
    /\ Configured \subseteq Int
    /\ DefaultRetries \in Nat \ {0}
    /\ MaxFailures \in Nat \ {0}
    /\ ProbeLimit \in Nat \ {0}
    /\ MaxInt \in Nat /\ Base \in 1..MaxInt /\ Cap \in 1..MaxInt

VARIABLES
    state,          \* of the breaker
    failures,       \* cb.failures
    probeSuccess,   \* cb.probeSuccess
    cooled,         \* the open timeout has elapsed
    maxRetries,     \* c.cfg.MaxRetries
    at,             \* where each caller is in Do
    attempt,        \* the loop counter of each caller
    outcome,        \* what doOnce returned to each caller
    healthy,        \* environment: from now on the remote answers and does not
                    \* fail, and callers wait for their answers
    badRun,         \* history: failures recorded since the last success
    goodRun         \* history: successes recorded since the last failure

breakerVars == <<state, failures, probeSuccess, cooled>>
callVars == <<at, attempt, outcome>>
historyVars == <<badRun, goodRun>>
vars == <<breakerVars, maxRetries, callVars, healthy, historyVars>>

States == {"closed", "open", "half-open"}
Places == {"idle", "backoff", "admit", "wire", "record", "panicked"}

(* What an attempt ends with: an answer that is final, an answer worth a     *)
(* retry (429 and 5xx), or an error of the transport or of the context.      *)
Outcomes == {"ok", "retryable", "error"}

TypeOK ==
    /\ state \in States
    /\ failures \in Nat /\ probeSuccess \in Nat
    /\ cooled \in BOOLEAN /\ healthy \in BOOLEAN
    /\ at \in [Callers -> Places]
    /\ maxRetries \in Int \ {0}
    /\ attempt \in [Callers -> Nat]
    /\ \A c \in Callers : attempt[c] > 0 => attempt[c] <= maxRetries
    /\ outcome \in [Callers -> Outcomes \cup {"none"}]
    /\ badRun \in 0..MaxFailures /\ goodRun \in 0..ProbeLimit

(* New *)
RetriesOf(configured) == IF configured = 0 THEN DefaultRetries ELSE configured

Init ==
    /\ maxRetries \in {RetriesOf(n) : n \in Configured}
    /\ state = "closed" /\ failures = 0 /\ probeSuccess = 0
    /\ cooled = FALSE /\ healthy = FALSE
    /\ at = [c \in Callers |-> "idle"]
    /\ attempt = [c \in Callers |-> 0]
    /\ outcome = [c \in Callers |-> "none"]
    /\ badRun = 0 /\ goodRun = 0

-----------------------------------------------------------------------------
(* The circuit breaker. *)

Open ==
    /\ state' = "open"
    /\ cooled' = FALSE

(* Faulty variants: the probes of an earlier half-open phase are kept, and  *)
(* the timeout is not looked at.                                            *)
AllowKeepingProbes ==
    \/ /\ state # "open"
       /\ UNCHANGED breakerVars
    \/ /\ state = "open" /\ cooled
       /\ state' = "half-open"
       /\ UNCHANGED <<failures, probeSuccess, cooled>>

AllowAtOnce ==
    \/ /\ state # "open"
       /\ UNCHANGED breakerVars
    \/ /\ state = "open"
       /\ state' = "half-open"
       /\ probeSuccess' = 0
       /\ UNCHANGED <<failures, cooled>>

(* allow() returning TRUE *)
Allow ==
    \/ /\ state # "open"
       /\ UNCHANGED breakerVars
    \/ /\ state = "open" /\ cooled
       /\ state' = "half-open"
       /\ probeSuccess' = 0
       /\ UNCHANGED <<failures, cooled>>

(* allow() returning FALSE *)
Refuse == state = "open" /\ ~cooled /\ UNCHANGED breakerVars

(* Faulty variants: a success in between does not end a run of failures,    *)
(* and every successful probe is counted as the first.                      *)
RecordSuccessNoReset ==
    \/ /\ state = "half-open"
       /\ probeSuccess' = probeSuccess + 1
       /\ IF probeSuccess' >= ProbeLimit
          THEN state' = "closed" /\ failures' = 0
          ELSE UNCHANGED <<state, failures>>
       /\ UNCHANGED cooled
    \/ state # "half-open" /\ UNCHANGED breakerVars

RecordSuccessFirstProbe ==
    \/ /\ state = "closed"
       /\ failures' = 0
       /\ UNCHANGED <<state, probeSuccess, cooled>>
    \/ /\ state = "half-open"
       /\ probeSuccess' = 1
       /\ IF probeSuccess' >= ProbeLimit
          THEN state' = "closed" /\ failures' = 0
          ELSE UNCHANGED <<state, failures>>
       /\ UNCHANGED cooled
    \/ state = "open" /\ UNCHANGED breakerVars

RecordSuccess ==
    \/ /\ state = "closed"
       /\ failures' = 0
       /\ UNCHANGED <<state, probeSuccess, cooled>>
    \/ /\ state = "half-open"
       /\ probeSuccess' = probeSuccess + 1
       /\ IF probeSuccess' >= ProbeLimit
          THEN state' = "closed" /\ failures' = 0
          ELSE UNCHANGED <<state, failures>>
       /\ UNCHANGED cooled
    \/ state = "open" /\ UNCHANGED breakerVars

RecordFailure ==
    \/ /\ state = "closed"
       /\ failures' = failures + 1
       /\ IF failures' >= MaxFailures THEN Open ELSE UNCHANGED <<state, cooled>>
       /\ UNCHANGED probeSuccess
    \/ /\ state = "half-open"
       /\ Open
       /\ UNCHANGED <<failures, probeSuccess>>
    \/ state = "open" /\ UNCHANGED breakerVars

CapAt(n, limit) == IF n > limit THEN limit ELSE n

(* record(), with the history of what was recorded, in whatever state. *)
Record(success) ==
    IF success
    THEN /\ RecordSuccess
         /\ goodRun' = CapAt(goodRun + 1, ProbeLimit) /\ badRun' = 0
    ELSE /\ RecordFailure
         /\ badRun' = CapAt(badRun + 1, MaxFailures) /\ goodRun' = 0

-----------------------------------------------------------------------------
(* Client.Do. *)

Return(c) ==
    /\ at' = [at EXCEPT ![c] = "idle"]
    /\ attempt' = [attempt EXCEPT ![c] = 0]
    /\ outcome' = [outcome EXCEPT ![c] = "none"]

(* A caller enters Do.  When maxRetries is negative the loop has no turn    *)
(* and Do returns its error at once, which changes nothing.                 *)
Call(c) ==
    /\ at[c] = "idle"
    /\ \/ /\ maxRetries >= 0
          /\ at' = [at EXCEPT ![c] = "admit"]
          /\ UNCHANGED <<attempt, outcome>>
       \/ maxRetries < 0 /\ Return(c)
    /\ UNCHANGED <<maxRetries, breakerVars, healthy, historyVars>>

(* The loop asks the breaker; when it refuses, Do returns an error. *)
Admit(c) ==
    /\ at[c] = "admit"
    /\ \/ /\ Allow
          /\ at' = [at EXCEPT ![c] = "wire"]
          /\ UNCHANGED <<attempt, outcome>>
       \/ Refuse /\ Return(c)
    /\ UNCHANGED <<maxRetries, healthy, historyVars>>

(* doOnce returns.  A context the caller cancels ends it with an error; the *)
(* 30 s timeout of http.Client ends it when the remote never answers.       *)
DoOnce(c) ==
    /\ at[c] = "wire"
    /\ at' = [at EXCEPT ![c] = "record"]
    /\ \E o \in Outcomes :
          /\ healthy => o = "ok"
          /\ outcome' = [outcome EXCEPT ![c] = o]
    /\ UNCHANGED <<attempt, maxRetries, breakerVars, healthy, historyVars>>

(* Faulty variants: one attempt too many, and a loop that does not count.   *)
FinishOneMore(c) ==
    /\ at[c] = "record"
    /\ Record(outcome[c] = "ok")
    /\ IF outcome[c] # "ok" /\ attempt[c] <= maxRetries
       THEN /\ at' = [at EXCEPT ![c] = "backoff"]
            /\ attempt' = [attempt EXCEPT ![c] = @ + 1]
            /\ outcome' = [outcome EXCEPT ![c] = "none"]
       ELSE Return(c)
    /\ UNCHANGED <<maxRetries, healthy>>

FinishUncounted(c) ==
    /\ at[c] = "record"
    /\ Record(outcome[c] = "ok")
    /\ IF outcome[c] # "ok"
       THEN /\ at' = [at EXCEPT ![c] = "backoff"]
            /\ outcome' = [outcome EXCEPT ![c] = "none"]
            /\ UNCHANGED attempt
       ELSE Return(c)
    /\ UNCHANGED <<maxRetries, healthy>>

(* The result is recorded.  An error, or a retryable status before the last *)
(* attempt, goes on to the next turn of the loop; the loop ends after       *)
(* maxRetries + 1 attempts, with the last answer or with an error.          *)
Finish(c) ==
    /\ at[c] = "record"
    /\ Record(outcome[c] = "ok")
    /\ IF outcome[c] # "ok" /\ attempt[c] < maxRetries
       THEN /\ at' = [at EXCEPT ![c] = "backoff"]
            /\ attempt' = [attempt EXCEPT ![c] = @ + 1]
            /\ outcome' = [outcome EXCEPT ![c] = "none"]
       ELSE Return(c)
    /\ UNCHANGED <<maxRetries, healthy>>

(* Two's complement. *)
Wrapped(n) ==
    LET m == n % (2 * (MaxInt + 1)) IN IF m > MaxInt THEN m - 2 * (MaxInt + 1) ELSE m

(* Faulty variant: the product is computed in half the word.                *)
BoundNarrow(n) ==
    LET m == (2^n * Base) % (MaxInt + 1)
        exp == IF m > MaxInt \div 2 THEN m - (MaxInt + 1) ELSE m
    IN  IF exp > Cap THEN Cap ELSE exp

(* exp of jitterBackoff, the bound of the random delay before attempt n. *)
Bound(n) ==
    LET exp == Wrapped(2^n * Base) IN IF exp > Cap THEN Cap ELSE exp

(* jitterBackoff and the select after it: the timer fires, or the context   *)
(* ends.  rand.Int64N panics when its bound is not positive.                *)
Backoff(c) ==
    /\ at[c] = "backoff"
    /\ IF Bound(attempt[c]) > 0
       THEN \/ at' = [at EXCEPT ![c] = "admit"] /\ UNCHANGED <<attempt, outcome>>
            \/ ~healthy /\ Return(c)
       ELSE at' = [at EXCEPT ![c] = "panicked"] /\ UNCHANGED <<attempt, outcome>>
    /\ UNCHANGED <<maxRetries, breakerVars, healthy, historyVars>>

(* The server that runs the caller, net/http, ends only its request. *)
Recover(c) ==
    /\ at[c] = "panicked"
    /\ Return(c)
    /\ UNCHANGED <<maxRetries, breakerVars, healthy, historyVars>>

Step(c) == Admit(c) \/ DoOnce(c) \/ Finish(c) \/ Backoff(c) \/ Recover(c)

-----------------------------------------------------------------------------
(* openTimeout elapses. *)
CoolDown ==
    /\ state = "open" /\ ~cooled
    /\ cooled' = TRUE
    /\ UNCHANGED <<state, failures, probeSuccess, maxRetries, callVars, healthy,
                   historyVars>>

(* Environment: the remote recovers, and stays up. *)
Heal ==
    /\ ~healthy
    /\ healthy' = TRUE
    /\ UNCHANGED <<breakerVars, maxRetries, callVars, historyVars>>

Next ==
    \/ \E c \in Callers : Call(c) \/ Step(c)
    \/ CoolDown
    \/ Heal

Spec == Init /\ [][Next]_vars

(* Goroutines run, time passes, and every caller calls again. *)
FairSpec ==
    /\ Spec
    /\ \A c \in Callers : WF_vars(Call(c)) /\ WF_vars(Step(c))
    /\ WF_vars(CoolDown)

-----------------------------------------------------------------------------
(* Safety. *)

(* The counters agree with the state: a closed breaker is below its limit,  *)
(* one that is not has reached it, and a half-open one still lacks probes.  *)
BreakerConsistent ==
    /\ state = "closed" => failures < MaxFailures
    /\ state # "closed" => failures = MaxFailures
    /\ state = "half-open" => probeSuccess < ProbeLimit

(* The breaker opens out of closed only on MaxFailures failures in a row,   *)
(* whoever recorded them, and closes only on ProbeLimit successes in a row, *)
(* late results of requests sent in an earlier state included.              *)
(* circuitBreaker.record.                                                   *)
MovesOnRuns ==
    [][/\ state = "closed" /\ state' = "open" => badRun' = MaxFailures
       /\ state # "closed" /\ state' = "closed" => goodRun' = ProbeLimit]_vars

(* While the breaker is open and its timeout has not elapsed, the number of *)
(* requests on the wire can only fall: retries already in their loop are    *)
(* held back like new calls.                                                *)
OpenHoldsBack ==
    [][state = "open" /\ ~cooled =>
        \A c \in Callers : at'[c] = "wire" => at[c] = "wire"]_vars

(* No call panics as long as the doubling of the backoff stays within the   *)
(* word for every attempt that is configured, although the cap is applied   *)
(* to the product and not before it; with a base of 100 ms that is up to 36 *)
(* retries.  jitterBackoff, New.                                            *)
PanicsOnOverflowOnly ==
    (\A n \in 1..maxRetries : 2^n * Base \in 1..MaxInt)
    => \A c \in Callers : at[c] # "panicked"

-----------------------------------------------------------------------------
(* Liveness, under FairSpec. *)

(* Every call of Do returns, or panics and is recovered by its server,      *)
(* however others move the breaker while it retries.                        *)
CallsReturn == \A c \in Callers : at[c] # "idle" ~> at[c] = "idle"

(* Once the remote is up for good and nobody cancels, the breaker closes    *)
(* and stays closed, whatever failures were still to be recorded, and every *)
(* caller is served again and again, unless New was given a negative number *)
(* of retries.                                                              *)
BreakerRecovers ==
    <>healthy => /\ <>[](state = "closed")
                 /\ maxRetries > 0 => \A c \in Callers : []<>(outcome[c] = "ok")

=============================================================================
