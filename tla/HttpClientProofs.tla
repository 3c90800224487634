-------------------------- MODULE HttpClientProofs --------------------------
(***************************************************************************)
(* The circuit breaker for every number of callers and every limit.  The    *)
(* inductive invariant ties its counters to its state and to the runs of    *)
(* results that were recorded: what the breaker counted in the present      *)
(* state is part of the present run.                                        *)
(***************************************************************************)
EXTENDS HttpClient, TLAPS

RunsCovered ==
    /\ state = "closed" => failures <= badRun
    /\ state = "half-open" => probeSuccess <= goodRun

BreakerTypeOK ==
    /\ state \in States
    /\ failures \in Nat /\ probeSuccess \in Nat
    /\ badRun \in 0..MaxFailures /\ goodRun \in 0..ProbeLimit

BreakerInv == BreakerTypeOK /\ BreakerConsistent /\ RunsCovered

(* A recorded success keeps the breaker consistent, and closes it only on a  *)
(* full run of successes.                                                    *)
LEMMA SuccessKeeps ==
    ASSUME BreakerInv, Record(TRUE)
    PROVE  /\ BreakerInv'
           /\ ~(state = "closed" /\ state' = "open")
           /\ state # "closed" /\ state' = "closed" => goodRun' = ProbeLimit
<1> USE ClientAssumption DEF BreakerInv, BreakerTypeOK, BreakerConsistent, RunsCovered, States
<1>1. /\ RecordSuccess
      /\ goodRun' = CapAt(goodRun + 1, ProbeLimit) /\ badRun' = 0
  BY DEF Record
<1>2. /\ goodRun' \in 0..ProbeLimit
      /\ goodRun + 1 <= ProbeLimit => goodRun' = goodRun + 1
      /\ goodRun + 1 >= ProbeLimit => goodRun' = ProbeLimit
  BY <1>1 DEF CapAt
<1>3. CASE state = "closed"
  BY <1>1, <1>2, <1>3 DEF RecordSuccess
<1>4. CASE state = "half-open"
  BY <1>1, <1>2, <1>4 DEF RecordSuccess
<1>5. CASE state = "open"
  BY <1>1, <1>2, <1>5 DEF RecordSuccess, breakerVars
<1> QED
  BY <1>3, <1>4, <1>5

(* A recorded failure keeps it consistent, and opens a closed breaker only   *)
(* on a full run of failures.                                                *)
LEMMA FailureKeeps ==
    ASSUME BreakerInv, Record(FALSE)
    PROVE  /\ BreakerInv'
           /\ ~(state # "closed" /\ state' = "closed")
           /\ state = "closed" /\ state' = "open" => badRun' = MaxFailures
<1> USE ClientAssumption DEF BreakerInv, BreakerTypeOK, BreakerConsistent, RunsCovered, States
<1>1. /\ RecordFailure
      /\ badRun' = CapAt(badRun + 1, MaxFailures) /\ goodRun' = 0
  BY DEF Record
<1>2. /\ badRun' \in 0..MaxFailures
      /\ badRun + 1 <= MaxFailures => badRun' = badRun + 1
      /\ badRun + 1 >= MaxFailures => badRun' = MaxFailures
  BY <1>1 DEF CapAt
<1>3. CASE state = "closed"
  BY <1>1, <1>2, <1>3 DEF RecordFailure, Open
<1>4. CASE state = "half-open"
  BY <1>1, <1>2, <1>4 DEF RecordFailure, Open
<1>5. CASE state = "open"
  BY <1>1, <1>2, <1>5 DEF RecordFailure, breakerVars
<1> QED
  BY <1>3, <1>4, <1>5

(* Asking the breaker keeps it consistent and never opens or closes it. *)
LEMMA AllowKeeps ==
    ASSUME BreakerInv, Allow, UNCHANGED historyVars
    PROVE  /\ BreakerInv'
           /\ ~(state = "closed" /\ state' = "open")
           /\ ~(state # "closed" /\ state' = "closed")
BY ClientAssumption
   DEF BreakerInv, BreakerTypeOK, BreakerConsistent, RunsCovered, States, Allow,
       breakerVars, historyVars

(* Every step keeps the invariant and moves the breaker only on full runs. *)
LEMMA BreakerStep ==
    ASSUME BreakerInv, [Next]_vars
    PROVE  /\ BreakerInv'
           /\ state = "closed" /\ state' = "open" => badRun' = MaxFailures
           /\ state # "closed" /\ state' = "closed" => goodRun' = ProbeLimit
<1>1. ASSUME UNCHANGED <<breakerVars, historyVars>>
      PROVE  BreakerInv' /\ state' = state
  BY <1>1 DEF breakerVars, historyVars, BreakerInv, BreakerTypeOK, BreakerConsistent,
              RunsCovered
<1>2. ASSUME NEW c \in Callers, Admit(c)
      PROVE  /\ BreakerInv'
             /\ ~(state = "closed" /\ state' = "open")
             /\ ~(state # "closed" /\ state' = "closed")
  BY <1>1, <1>2, AllowKeeps DEF Admit, Refuse
<1>3. ASSUME NEW c \in Callers, Finish(c)
      PROVE  /\ BreakerInv'
             /\ state = "closed" /\ state' = "open" => badRun' = MaxFailures
             /\ state # "closed" /\ state' = "closed" => goodRun' = ProbeLimit
  <2>1. CASE outcome[c] = "ok"
    <3>1. Record(TRUE)
      BY <1>3, <2>1 DEF Finish, Record
    <3> QED
      BY <3>1, SuccessKeeps
  <2>2. CASE outcome[c] # "ok"
    <3>1. Record(FALSE)
      BY <1>3, <2>2 DEF Finish, Record
    <3> QED
      BY <3>1, FailureKeeps
  <2> QED
    BY <2>1, <2>2
<1>4. CASE CoolDown
  BY <1>4 DEF CoolDown, historyVars, BreakerInv, BreakerTypeOK, BreakerConsistent,
              RunsCovered
<1> QED
  BY <1>1, <1>2, <1>3, <1>4 DEF Next, Call, Step, DoOnce, Backoff, Recover, Heal, vars

LEMMA BreakerInvariant == Spec => []BreakerInv
<1>1. Init => BreakerInv
  BY ClientAssumption
     DEF Init, BreakerInv, BreakerTypeOK, BreakerConsistent, RunsCovered, States
<1>2. BreakerInv /\ [Next]_vars => BreakerInv'
  BY BreakerStep
<1> QED
  BY <1>1, <1>2, PTL DEF Spec

(* The counters of the breaker always agree with its state. *)
THEOREM BreakerStaysConsistent == Spec => []BreakerConsistent
<1>1. BreakerInv => BreakerConsistent
  BY DEF BreakerInv
<1> QED
  BY <1>1, BreakerInvariant, PTL

(* The breaker opens on MaxFailures failures in a row and closes on          *)
(* ProbeLimit successes in a row, never on fewer.                            *)
THEOREM BreakerMovesOnRuns == Spec => MovesOnRuns
<1>1. BreakerInv /\ [Next]_vars =>
        [/\ state = "closed" /\ state' = "open" => badRun' = MaxFailures
         /\ state # "closed" /\ state' = "closed" => goodRun' = ProbeLimit]_vars
  BY BreakerStep
<1> QED
  BY <1>1, BreakerInvariant, PTL DEF Spec, MovesOnRuns

-----------------------------------------------------------------------------
CallTypeOK ==
    /\ cooled \in BOOLEAN /\ healthy \in BOOLEAN
    /\ maxRetries \in Int \ {0}
    /\ at \in [Callers -> Places]
    /\ attempt \in [Callers -> Nat]
    /\ \A c \in Callers : attempt[c] > 0 => attempt[c] <= maxRetries
    /\ outcome \in [Callers -> Outcomes \cup {"none"}]

(* Whoever waits in the backoff is past its first attempt. *)
CallInv ==
    /\ CallTypeOK
    /\ \A c \in Callers : at[c] = "backoff" => attempt[c] > 0
    /\ PanicsOnOverflowOnly

LEMMA ReturnKeeps ==
    ASSUME CallTypeOK, NEW c \in Callers, Return(c)
    PROVE  /\ at' = [at EXCEPT ![c] = "idle"]
           /\ attempt' \in [Callers -> Nat] /\ attempt'[c] = 0
           /\ \A d \in Callers \ {c} : attempt'[d] = attempt[d]
           /\ outcome' \in [Callers -> Outcomes \cup {"none"}]
BY DEF CallTypeOK, Return, Outcomes

(* A bound that fits the word is not wrapped, and the cap leaves it positive. *)
LEMMA FittingBound ==
    ASSUME NEW n \in Nat, 2^n * Base \in 1..MaxInt
    PROVE  Bound(n) > 0
<1> DEFINE x == 2^n * Base
           w == 2 * (MaxInt + 1)
<1>1. x \in Nat /\ x <= MaxInt /\ w \in Nat /\ x < w /\ w > 0
  BY ClientAssumption
<1>2. x % w = x
  <2> HIDE DEF x, w
  <2> QED
    BY <1>1
<1>3. Wrapped(x) = x
  <2>1. Wrapped(x) = IF x % w > MaxInt THEN (x % w) - w ELSE x % w
    BY DEF Wrapped
  <2> HIDE DEF x, w
  <2> QED
    BY <1>1, <1>2, <2>1, ClientAssumption
<1>4. x > 0 /\ Cap > 0
  BY ClientAssumption
<1> HIDE DEF x, w
<1> QED
  BY <1>1, <1>3, <1>4, ClientAssumption DEF Bound, x

(* Every step of every call stays in the loop of Do and within its bound. *)
LEMMA CallStep == CallInv /\ [Next]_vars => CallInv'
<1> SUFFICES ASSUME CallInv, [Next]_vars PROVE CallInv'
  OBVIOUS
<1> USE DEF CallInv, CallTypeOK, Places, Outcomes, PanicsOnOverflowOnly
<1>1. ASSUME UNCHANGED <<at, attempt, outcome, maxRetries>>, healthy' \in BOOLEAN,
             cooled' \in BOOLEAN
      PROVE  CallInv'
  BY <1>1
<1>2. ASSUME NEW c \in Callers, Return(c), UNCHANGED <<maxRetries, healthy>>,
             cooled' \in BOOLEAN
      PROVE  CallInv'
  BY <1>2, ReturnKeeps
<1>3. ASSUME NEW c \in Callers, Call(c) PROVE CallInv'
  BY <1>2, <1>3 DEF Call, breakerVars
<1>4. ASSUME NEW c \in Callers, Admit(c) PROVE CallInv'
  <2>1. cooled' = cooled /\ UNCHANGED <<maxRetries, healthy>>
    BY <1>4 DEF Admit, Allow, Refuse, breakerVars
  <2> QED
    BY <1>2, <1>4, <2>1 DEF Admit
<1>5. ASSUME NEW c \in Callers, DoOnce(c) PROVE CallInv'
  BY <1>5 DEF DoOnce, breakerVars
<1>6. ASSUME NEW c \in Callers, Finish(c) PROVE CallInv'
  <2>1. cooled' \in BOOLEAN /\ UNCHANGED <<maxRetries, healthy>>
    BY <1>6 DEF Finish, Record, RecordSuccess, RecordFailure, Open, breakerVars
  <2>2. CASE Return(c)
    BY <1>2, <2>1, <2>2
  <2>3. CASE /\ attempt[c] < maxRetries
             /\ at' = [at EXCEPT ![c] = "backoff"]
             /\ attempt' = [attempt EXCEPT ![c] = @ + 1]
             /\ outcome' = [outcome EXCEPT ![c] = "none"]
    <3>1. attempt[c] + 1 \in Nat /\ attempt[c] + 1 > 0 /\ attempt[c] + 1 <= maxRetries
      BY <2>3
    <3> QED
      BY <2>1, <2>3, <3>1
  <2> QED
    BY <1>6, <2>2, <2>3 DEF Finish
<1>7. ASSUME NEW c \in Callers, Backoff(c) PROVE CallInv'
  <2>1. UNCHANGED <<cooled, maxRetries, healthy>>
    BY <1>7 DEF Backoff, breakerVars
  <2>2. CASE Return(c)
    BY <1>2, <2>1, <2>2
  <2>3. CASE at' = [at EXCEPT ![c] = "admit"] /\ UNCHANGED <<attempt, outcome>>
    BY <2>1, <2>3
  <2>4. CASE /\ ~(Bound(attempt[c]) > 0)
             /\ at' = [at EXCEPT ![c] = "panicked"] /\ UNCHANGED <<attempt, outcome>>
    <3>1. attempt[c] \in 1..maxRetries
      BY <1>7 DEF Backoff
    <3>2. ~(2^attempt[c] * Base \in 1..MaxInt)
      BY <2>4, <3>1, FittingBound
    <3>3. PanicsOnOverflowOnly'
      BY <2>1, <3>1, <3>2
    <3> QED
      BY <2>1, <2>4, <3>3
  <2> QED
    BY <1>7, <2>2, <2>3, <2>4 DEF Backoff
<1>8. ASSUME NEW c \in Callers, Recover(c) PROVE CallInv'
  BY <1>2, <1>8 DEF Recover, breakerVars
<1>9. CASE CoolDown \/ Heal \/ UNCHANGED vars
  BY <1>1, <1>9 DEF CoolDown, Heal, vars, breakerVars, callVars
<1> QED
  BY <1>3, <1>4, <1>5, <1>6, <1>7, <1>8, <1>9 DEF Next, Step

LEMMA CallInit == Init => CallInv
<1> SUFFICES ASSUME Init PROVE CallInv
  OBVIOUS
<1>1. maxRetries \in Int \ {0}
  BY ClientAssumption DEF Init, RetriesOf
<1>2. cooled \in BOOLEAN /\ healthy \in BOOLEAN
  BY Zenon DEF Init
<1> QED
  BY <1>1, <1>2 DEF Init, CallInv, CallTypeOK, Places, Outcomes, PanicsOnOverflowOnly

LEMMA CallInvariant == Spec => []CallInv
<1>1. Init => CallInv
  BY CallInit
<1>2. CallInv /\ [Next]_vars => CallInv'
  BY CallStep
<1> QED
  BY <1>1, <1>2, PTL DEF Spec

(* The client is well typed, and no call gets past its configured retries. *)
THEOREM ClientTypeCorrect == Spec => []TypeOK
<1>1. CallInv /\ BreakerInv => TypeOK
  BY DEF CallInv, CallTypeOK, BreakerInv, BreakerTypeOK, TypeOK
<1> QED
  BY <1>1, CallInvariant, BreakerInvariant, PTL

(* For every base, cap and word: a call panics in its backoff only when the *)
(* doubling overflows the word for some attempt the client is configured    *)
(* for.  jitterBackoff.                                                     *)
THEOREM BackoffPanicsOnOverflowOnly == Spec => []PanicsOnOverflowOnly
<1>1. CallInv => PanicsOnOverflowOnly
  BY DEF CallInv
<1> QED
  BY <1>1, CallInvariant, PTL

(* An open breaker lets no request through before its timeout. *)
THEOREM OpenBreakerHolds == Spec => OpenHoldsBack
<1>1. TypeOK /\ [Next]_vars =>
        [state = "open" /\ ~cooled =>
            \A c \in Callers : at'[c] = "wire" => at[c] = "wire"]_vars
  <2> SUFFICES ASSUME TypeOK, [Next]_vars, state = "open", ~cooled,
                      NEW c \in Callers, at'[c] = "wire"
               PROVE  at[c] = "wire"
    BY DEF vars
  <2>1. at \in [Callers -> Places]
    BY DEF TypeOK
  <2>2. CASE UNCHANGED at
    BY <2>2
  <2>3. ASSUME NEW d \in Callers, Call(d) \/ Step(d)
        PROVE  at[c] = "wire"
    BY <2>1, <2>3
       DEF Call, Step, Admit, Allow, DoOnce, Finish, Backoff, Recover, Return
  <2> QED
    BY <2>2, <2>3 DEF Next, CoolDown, Heal, vars, callVars
<1> QED
  BY <1>1, ClientTypeCorrect, PTL DEF Spec, OpenHoldsBack

-----------------------------------------------------------------------------
(* What CallsReturn rests on besides fairness.  A turn of the loop has five *)
(* places at most; StepsLeft counts the places a call can still pass.       *)
PlaceRank == [panicked |-> 1, record |-> 2, wire |-> 3, admit |-> 4, backoff |-> 5]

StepsLeft(c) ==
    IF at[c] = "idle" THEN 0 ELSE 5 * (maxRetries - attempt[c]) + PlaceRank[at[c]]

(* A client that was given a negative number of retries has no call under   *)
(* way.                                                                     *)
LoopInv == CallInv /\ \A c \in Callers : at[c] # "idle" => maxRetries > 0

LEMMA StepsLeftIsNat ==
    ASSUME LoopInv, NEW c \in Callers
    PROVE  StepsLeft(c) \in Nat
<1>1. CASE at[c] = "idle"
  BY <1>1 DEF StepsLeft
<1>2. CASE at[c] # "idle"
  <2>1. /\ at[c] \in Places /\ attempt[c] \in Nat /\ maxRetries \in Int
        /\ maxRetries > 0 /\ attempt[c] <= maxRetries
    BY <1>2 DEF LoopInv, CallInv, CallTypeOK
  <2>2. PlaceRank[at[c]] \in Nat
    BY <1>2, <2>1 DEF Places, PlaceRank
  <2> QED
    BY <1>2, <2>1, <2>2 DEF StepsLeft
<1> QED
  BY <1>1, <1>2

(* What a caller's own steps do to its place and its loop counter, and that *)
(* nobody else touches them.                                                *)
LEMMA StepMoves ==
    ASSUME LoopInv, NEW c \in Callers, Step(c)
    PROVE  /\ maxRetries' = maxRetries
           /\ at[c] # "idle"
           /\ \/ at'[c] = "idle"
              \/ at[c] = "admit" /\ at'[c] = "wire" /\ attempt'[c] = attempt[c]
              \/ at[c] = "wire" /\ at'[c] = "record" /\ attempt'[c] = attempt[c]
              \/ /\ at[c] = "record" /\ at'[c] = "backoff"
                 /\ attempt'[c] = attempt[c] + 1
              \/ at[c] = "backoff" /\ at'[c] = "admit" /\ attempt'[c] = attempt[c]
              \/ at[c] = "backoff" /\ at'[c] = "panicked" /\ attempt'[c] = attempt[c]
           /\ \A d \in Callers \ {c} : at'[d] = at[d] /\ attempt'[d] = attempt[d]
<1> USE DEF LoopInv, CallInv, CallTypeOK
<1>1. CASE Admit(c)
  BY <1>1 DEF Admit, Return
<1>2. CASE DoOnce(c)
  BY <1>2 DEF DoOnce
<1>3. CASE Finish(c)
  BY <1>3 DEF Finish, Return
<1>4. CASE Backoff(c)
  BY <1>4 DEF Backoff, Return
<1>5. CASE Recover(c)
  BY <1>5 DEF Recover, Return
<1> QED
  BY <1>1, <1>2, <1>3, <1>4, <1>5 DEF Step

LEMMA CallMoves ==
    ASSUME LoopInv, NEW c \in Callers, Call(c)
    PROVE  /\ maxRetries' = maxRetries /\ at[c] = "idle"
           /\ at'[c] # "idle" => maxRetries > 0
           /\ \A d \in Callers \ {c} : at'[d] = at[d] /\ attempt'[d] = attempt[d]
BY DEF LoopInv, CallInv, CallTypeOK, Call, Return

LEMMA LoopInvariant == Spec => []LoopInv
<1>1. Init => LoopInv
  <2>1. Init => \A c \in Callers : at[c] = "idle"
    BY DEF Init
  <2> QED
    BY <2>1, CallInit DEF LoopInv
<1>2. LoopInv /\ [Next]_vars => LoopInv'
  <2> SUFFICES ASSUME LoopInv, [Next]_vars PROVE LoopInv'
    OBVIOUS
  <2>1. CallInv'
    BY CallStep DEF LoopInv
  <2>2. ASSUME NEW c \in Callers, at'[c] # "idle" PROVE maxRetries' > 0
    <3>1. ASSUME NEW d \in Callers, Call(d) PROVE maxRetries' > 0
      BY <2>2, <3>1, CallMoves DEF LoopInv
    <3>2. ASSUME NEW d \in Callers, Step(d) PROVE maxRetries' > 0
      BY <2>2, <3>2, StepMoves DEF LoopInv
    <3>3. CASE CoolDown \/ Heal \/ UNCHANGED vars
      BY <2>2, <3>3 DEF CoolDown, Heal, vars, callVars, LoopInv
    <3> QED
      BY <3>1, <3>2, <3>3 DEF Next
  <2> QED
    BY <2>1, <2>2 DEF LoopInv
<1> QED
  BY <1>1, <1>2, PTL DEF Spec

(* Each step of a call brings it nearer to its end; in between, nothing     *)
(* that others do, to the breaker or to anything else, moves it or gives it *)
(* a turn of the loop more.                                                 *)
RunsDown ==
    \A c \in Callers :
        /\ StepsLeft(c) \in Nat
        /\ Step(c) => StepsLeft(c)' < StepsLeft(c)
        /\ at[c] # "idle" /\ ~Step(c) => at'[c] = at[c] /\ attempt'[c] = attempt[c]

(* For any number of callers and retries, a call of Do is over after at     *)
(* most 5 * maxRetries + 4 steps of its own.  Client.Do.                    *)
THEOREM CallsRunDown == Spec => [][RunsDown]_vars
<1>1. LoopInv /\ LoopInv' /\ [Next]_vars => [RunsDown]_vars
  <2> SUFFICES ASSUME LoopInv, LoopInv', [Next]_vars, NEW c \in Callers,
                      ~UNCHANGED vars
               PROVE  /\ StepsLeft(c) \in Nat
                      /\ Step(c) => StepsLeft(c)' < StepsLeft(c)
                      /\ at[c] # "idle" /\ ~Step(c)
                            => at'[c] = at[c] /\ attempt'[c] = attempt[c]
    BY DEF RunsDown
  <2>1. StepsLeft(c) \in Nat
    BY StepsLeftIsNat
  <2>2. ASSUME Step(c) PROVE StepsLeft(c)' < StepsLeft(c)
    <3>1. /\ at[c] \in Places /\ attempt[c] \in Nat /\ maxRetries \in Int
          /\ attempt[c] <= maxRetries
      <4>1. maxRetries > 0
        BY <2>2, StepMoves DEF LoopInv
      <4> QED
        BY <4>1 DEF LoopInv, CallInv, CallTypeOK
    <3>2. StepsLeft(c) > 0
      BY <2>2, <3>1, StepMoves DEF StepsLeft, PlaceRank, Places
    <3>3. CASE at'[c] = "idle"
      BY <3>2, <3>3 DEF StepsLeft
    <3>4. CASE at'[c] # "idle"
      BY <2>2, <3>1, <3>4, StepMoves DEF StepsLeft, PlaceRank
    <3> QED
      BY <3>3, <3>4
  <2>3. ASSUME at[c] # "idle", ~Step(c)
        PROVE  at'[c] = at[c] /\ attempt'[c] = attempt[c]
    <3>1. ASSUME NEW d \in Callers, Call(d)
          PROVE  at'[c] = at[c] /\ attempt'[c] = attempt[c]
      BY <2>3, <3>1, CallMoves
    <3>2. ASSUME NEW d \in Callers, Step(d)
          PROVE  at'[c] = at[c] /\ attempt'[c] = attempt[c]
      BY <2>3, <3>2, StepMoves
    <3> QED
      BY <3>1, <3>2 DEF Next, CoolDown, Heal, callVars
  <2> QED
    BY <2>1, <2>2, <2>3
<1> QED
  BY <1>1, LoopInvariant, PTL DEF Spec

-----------------------------------------------------------------------------
(* What BreakerRecovers rests on besides fairness: once the remote is up    *)
(* for good and the failures from before have been recorded, the breaker    *)
(* only moves towards closed.                                               *)
Settled == healthy /\ \A c \in Callers : at[c] = "record" => outcome[c] = "ok"

ToClosed ==
    CASE state = "closed" -> 0
      [] state = "half-open" -> ProbeLimit - probeSuccess
      [] state = "open" -> ProbeLimit + 1

ClosesOnly ==
    Settled =>
        /\ Settled'
        /\ ToClosed' <= ToClosed
        /\ \A c \in Callers : state = "half-open" /\ Finish(c) => ToClosed' < ToClosed

LEMMA SettledStays ==
    ASSUME CallInv, BreakerInv, Settled, [Next]_vars
    PROVE  /\ Settled'
           /\ \A c \in Callers : Finish(c) => Record(TRUE)
<1> USE DEF CallInv, CallTypeOK, Settled
<1>1. ASSUME NEW c \in Callers, Finish(c)
      PROVE  Record(TRUE) /\ Return(c)
  <2>1. (outcome[c] = "ok") = TRUE
    BY <1>1 DEF Finish
  <2> QED
    BY <1>1, <2>1 DEF Finish
<1>2. ASSUME NEW c \in Callers, Return(c), healthy' = healthy PROVE Settled'
  BY <1>2 DEF Return
<1>3. ASSUME NEW c \in Callers, Call(c) PROVE Settled'
  BY <1>2, <1>3 DEF Call
<1>4. ASSUME NEW c \in Callers, Admit(c) PROVE Settled'
  BY <1>2, <1>4 DEF Admit
<1>5. ASSUME NEW c \in Callers, DoOnce(c) PROVE Settled'
  BY <1>5 DEF DoOnce
<1>6. ASSUME NEW c \in Callers, Finish(c) PROVE Settled'
  BY <1>1, <1>2, <1>6 DEF Finish
<1>7. ASSUME NEW c \in Callers, Backoff(c) PROVE Settled'
  BY <1>2, <1>7 DEF Backoff
<1>8. ASSUME NEW c \in Callers, Recover(c) PROVE Settled'
  BY <1>2, <1>8 DEF Recover
<1>9. ASSUME CoolDown \/ Heal \/ UNCHANGED vars PROVE Settled'
  <2>1. UNCHANGED <<at, outcome>>
    BY <1>9 DEF CoolDown, Heal, vars, callVars
  <2>2. healthy'
    BY <1>9, Zenon DEF CoolDown, Heal, vars
  <2>3. \A c \in Callers : at'[c] = "record" => outcome'[c] = "ok"
    BY <2>1
  <2> QED
    BY <2>2, <2>3, Zenon
<1> QED
  BY <1>1, <1>3, <1>4, <1>5, <1>6, <1>7, <1>8, <1>9 DEF Next, Step

(* From then on the breaker never opens, every success a half-open one      *)
(* records brings it nearer to closed, and whatever else happens does not   *)
(* take it back.  circuitBreaker.allow, circuitBreaker.record.              *)
THEOREM HealedBreakerCloses == Spec => [][ClosesOnly]_vars
<1>1. CallInv /\ BreakerInv /\ [Next]_vars => [ClosesOnly]_vars
  <2> SUFFICES ASSUME CallInv, BreakerInv, [Next]_vars, Settled
               PROVE  /\ Settled'
                      /\ ToClosed' <= ToClosed
                      /\ \A c \in Callers :
                            state = "half-open" /\ Finish(c) => ToClosed' < ToClosed
    BY DEF ClosesOnly
  <2>1. Settled' /\ \A c \in Callers : Finish(c) => Record(TRUE)
    BY SettledStays
  <2> USE ClientAssumption DEF BreakerInv, BreakerTypeOK, BreakerConsistent, States
  <2>2. ASSUME Record(TRUE)
        PROVE  ToClosed' <= ToClosed /\ (state = "half-open" => ToClosed' < ToClosed)
    <3>1. RecordSuccess
      BY <2>2 DEF Record
    <3>2. CASE state = "closed"
      BY <3>1, <3>2 DEF RecordSuccess, ToClosed
    <3>3. CASE state = "half-open"
      BY <3>1, <3>3 DEF RecordSuccess, ToClosed
    <3>4. CASE state = "open"
      BY <3>1, <3>4 DEF RecordSuccess, ToClosed, breakerVars
    <3> QED
      BY <3>2, <3>3, <3>4
  <2>3. ASSUME Allow PROVE ToClosed' <= ToClosed
    BY <2>3 DEF Allow, ToClosed, breakerVars
  <2>4. ASSUME UNCHANGED <<state, probeSuccess>> PROVE ToClosed' <= ToClosed
    BY <2>4 DEF ToClosed
  <2>5. ToClosed' <= ToClosed
    <3>1. ASSUME NEW c \in Callers, Admit(c) PROVE ToClosed' <= ToClosed
      BY <2>3, <2>4, <3>1 DEF Admit, Refuse, breakerVars
    <3>2. ASSUME NEW c \in Callers, Finish(c) PROVE ToClosed' <= ToClosed
      BY <2>1, <2>2, <3>2
    <3> QED
      BY <2>4, <3>1, <3>2
         DEF Next, Step, Call, DoOnce, Backoff, Recover, CoolDown, Heal, vars, breakerVars
  <2> QED
    BY <2>1, <2>2, <2>5
<1> QED
  BY <1>1, CallInvariant, BreakerInvariant, PTL DEF Spec

(* So a breaker that is closed by then stays closed for good. *)
THEOREM HealedStaysClosed ==
    Spec => [](Settled /\ state = "closed" => [](state = "closed"))
<1>1. CallInv /\ BreakerInv /\ [Next]_vars /\ (Settled /\ state = "closed")
        => (Settled /\ state = "closed")'
  <2> SUFFICES ASSUME CallInv, BreakerInv, [Next]_vars, Settled, state = "closed"
               PROVE  Settled' /\ state' = "closed"
    OBVIOUS
  <2>1. Settled' /\ \A c \in Callers : Finish(c) => Record(TRUE)
    BY SettledStays
  <2>2. ASSUME Record(TRUE) PROVE state' = "closed"
    BY <2>2 DEF Record, RecordSuccess
  <2>3. ASSUME NEW c \in Callers, Admit(c) PROVE state' = "closed"
    BY <2>3 DEF Admit, Allow, Refuse, breakerVars
  <2> QED
    BY <2>1, <2>2, <2>3
       DEF Next, Step, Call, DoOnce, Backoff, Recover, CoolDown, Heal, vars, breakerVars
<1> QED
  BY <1>1, CallInvariant, BreakerInvariant, PTL DEF Spec

=============================================================================
