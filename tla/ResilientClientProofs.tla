------------------------- MODULE ResilientClientProofs -------------------------
(***************************************************************************)
(* Proofs about the circuit breaker and about the callers that share it,   *)
(* for every threshold, cooldown, number of retries and set of callers.    *)
(* BreakerInv is inductive for the breaker alone, under callers that do    *)
(* anything; the client inherits it because each of its steps is a step    *)
(* of the breaker or leaves it alone.  OpenBudget counts the attempts that *)
(* may still be sent while the breaker is open.                            *)
(***************************************************************************)
EXTENDS ResilientClient, FiniteSetTheorems, TLAPS

BreakerInv == BreakerTypeOK /\ StateMatchesFailures

\* Every operation of the breaker and every tick preserves BreakerInv.
LEMMA BreakerStep ==
  ASSUME BreakerInv, [BreakerNext]_breakerVars
  PROVE  BreakerInv'
<1>. USE BreakerAssumption
     DEF BreakerAssumption, BreakerInv, BreakerTypeOK, StateMatchesFailures
<1>1. CASE Admit
  BY <1>1 DEF Admit, breakerVars
<1>2. CASE Refuse
  BY <1>2 DEF Refuse, breakerVars
<1>3. CASE RecordSuccess
  BY <1>3 DEF RecordSuccess
<1>4. CASE RecordFailure
  BY <1>4 DEF RecordFailure, Trips
<1>5. CASE Tick
  BY <1>5 DEF Tick, CooledDown
<1>6. CASE UNCHANGED breakerVars
  BY <1>6 DEF breakerVars
<1>. QED
  BY <1>1, <1>2, <1>3, <1>4, <1>5, <1>6 DEF BreakerNext

LEMMA BreakerStart == BreakerInit => BreakerInv
BY BreakerAssumption
DEF BreakerAssumption, BreakerInit, BreakerInv, BreakerTypeOK, StateMatchesFailures

\* The breaker is closed exactly while failures < threshold, whatever its callers
\* do (CircuitBreaker.Allow, RecordSuccess, RecordFailure).
THEOREM BreakerNeverHalfWay == BreakerSpec => []StateMatchesFailures
<1>1. BreakerInv => StateMatchesFailures
  BY DEF BreakerInv
<1>. QED
  BY <1>1, BreakerStart, BreakerStep, PTL DEF BreakerSpec

-------------------------------------------------------------------------------
\* A step of a caller uses the breaker through its operations only.
LEMMA CallerUsesBreaker ==
  ASSUME NEW c \in Callers, Call(c) \/ Proceed(c)
  PROVE  [BreakerNext]_breakerVars
<1>1. CASE Call(c)
  BY <1>1 DEF Call, Begin, Blocked, BreakerNext
<1>2. CASE Send(c) \/ Retry(c)
  BY <1>2 DEF Send, Retry
<1>3. CASE Succeed(c) \/ GiveUp(c)
  BY <1>3 DEF Succeed, GiveUp, BreakerNext
<1>4. CASE ServerFault(c) \/ Unreachable(c) \/ Aborted(c) \/ ReuseError(c) \/ NeverSent(c)
  <2>1. RecordFailure
    BY <1>4 DEF ServerFault, Unreachable, Aborted, ReuseError, NeverSent, Fail
  <2>. QED
    BY <2>1 DEF BreakerNext
<1>. QED
  BY <1>1, <1>2, <1>3, <1>4 DEF Proceed, Respond

\* Every step of the client is a step of its breaker or leaves it alone.
LEMMA ClientStepIsBreakerStep == [Next]_vars => [BreakerNext]_breakerVars
<1>. SUFFICES ASSUME [Next]_vars PROVE [BreakerNext]_breakerVars
  OBVIOUS
<1>1. CASE Outage \/ Cancel
  BY <1>1 DEF Outage, Cancel
<1>2. CASE TimePasses
  BY <1>2 DEF TimePasses, BreakerNext
<1>3. ASSUME NEW c \in Callers, Call(c) \/ Proceed(c)
      PROVE  [BreakerNext]_breakerVars
  BY <1>3, CallerUsesBreaker
<1>4. CASE UNCHANGED vars
  BY <1>4 DEF vars
<1>. QED
  BY <1>1, <1>2, <1>3, <1>4 DEF Next

\* Do implements the protocol of the breaker: Allow, then outcomes, in any order the
\* callers are interleaved.
THEOREM ClientUsesBreaker == Spec => BreakerSpec
<1>1. Init => BreakerInit
  BY DEF Init
<1>. QED
  BY <1>1, ClientStepIsBreakerStep, PTL DEF Spec, BreakerSpec

\* The breaker of a ResilientClient is closed exactly while failures < threshold,
\* for any number of calls that record late outcomes.
THEOREM ClientBreakerNeverHalfWay == Spec => []StateMatchesFailures
BY ClientUsesBreaker, BreakerNeverHalfWay, PTL

-------------------------------------------------------------------------------
\* A call that saw no success since it began has one failure counted for each of
\* its attempts that ended: nothing but a success takes failures off the counter.
AttemptsCounted ==
  \A c \in Callers : clean[c] => failures >= attempt[c] \/ failures = Threshold

ClientInv == TypeOK /\ StateMatchesFailures /\ AttemptsCounted

LEMMA MaxSentType == MaxSent \in Nat
BY ClientAssumption, FS_CardinalityType DEF ClientAssumption, MaxSent

\* What a failed attempt does to the counters and the loop variable.
LEMMA FailStep ==
  ASSUME ClientInv, NEW c \in Callers, NEW read \in BOOLEAN, NEW real \in BOOLEAN,
         Fail(c, read, real)
  PROVE  TypeOK' /\ AttemptsCounted'
<1>. USE BreakerAssumption, ClientAssumption DEF BreakerAssumption, ClientAssumption
<1>1. BreakerTypeOK' /\ sentOpen' \in 0..MaxSent /\ told' \in 0..Threshold
  BY MaxSentType
  DEF ClientInv, TypeOK, BreakerTypeOK, Fail, RecordFailure, RestartWhenOpened, CountTold
<1>2. /\ pc' \in [Callers -> {"idle", "admitted", "sending", "backoff"}]
      /\ attempt' \in [Callers -> 0..MaxRetries]
      /\ spent' \in [Callers -> BOOLEAN]
      /\ clean' \in [Callers -> BOOLEAN]
  <2>1. CASE IsLast(c) /\ Return(c) /\ clean' = [clean EXCEPT ![c] = FALSE]
    BY <2>1 DEF ClientInv, TypeOK, Return
  <2>2. CASE /\ ~IsLast(c)
             /\ pc' = [pc EXCEPT ![c] = "backoff"]
             /\ attempt' = [attempt EXCEPT ![c] = @ + 1]
             /\ spent' = [spent EXCEPT ![c] = @ \/ read]
             /\ UNCHANGED clean
    BY <2>2 DEF ClientInv, TypeOK, IsLast
  <2>. QED
    BY <2>1, <2>2 DEF Fail
<1>3. AttemptsCounted'
  <2>. SUFFICES ASSUME NEW d \in Callers, clean'[d]
                PROVE  failures' >= attempt'[d] \/ failures' = Threshold
    BY DEF AttemptsCounted
  <2>1. clean[d] /\ attempt'[d] <= attempt[d] + 1
    BY DEF Fail, Return, ClientInv, TypeOK
  <2>2. attempt'[d] # attempt[d] => d = c
    BY DEF Fail, Return, ClientInv, TypeOK
  <2>. QED
    BY <1>2, <2>1, <2>2
    DEF Fail, RecordFailure, ClientInv, TypeOK, BreakerTypeOK, AttemptsCounted
<1>. QED
  BY <1>1, <1>2, <1>3 DEF Fail, TypeOK, ClientInv

\* ClientInv is preserved by every step.
LEMMA ClientStep == ASSUME ClientInv, [Next]_vars PROVE ClientInv'
<1>. USE BreakerAssumption, ClientAssumption, MaxSentType
     DEF BreakerAssumption, ClientAssumption, ClientInv, TypeOK, BreakerTypeOK
<1>1. StateMatchesFailures'
  BY BreakerStep, ClientStepIsBreakerStep DEF BreakerInv
<1>2. CASE Outage \/ Cancel
  BY <1>1, <1>2 DEF Outage, Cancel, breakerVars, AttemptsCounted
<1>3. CASE TimePasses
  BY <1>1, <1>3 DEF TimePasses, Tick, CooledDown, clientVars, AttemptsCounted
<1>4. ASSUME NEW c \in Callers, Call(c) \/ Proceed(c)
      PROVE  TypeOK' /\ AttemptsCounted'
  <2>1. CASE Begin(c)
    BY <2>1 DEF Begin, Admit, breakerVars, AttemptsCounted
  <2>2. CASE Blocked(c)
    BY <2>2 DEF Blocked, Refuse, breakerVars, clientVars, AttemptsCounted
  <2>3. CASE Send(c) \/ Retry(c)
    BY <2>3 DEF Send, Retry, CountSent, breakerVars, AttemptsCounted
  <2>4. CASE Succeed(c)
    BY <2>4 DEF Succeed, RecordSuccess, Return, AttemptsCounted
  <2>5. CASE GiveUp(c)
    <3>1. TypeOK'
      BY <2>5 DEF GiveUp, RecordFailure, Return, CountTold, RestartWhenOpened
    <3>2. AttemptsCounted'
      BY <2>5 DEF GiveUp, RecordFailure, Return, AttemptsCounted
    <3>. QED
      BY <3>1, <3>2
  <2>6. CASE ServerFault(c) \/ Unreachable(c) \/ Aborted(c) \/ ReuseError(c) \/ NeverSent(c)
    <3>1. PICK read \in BOOLEAN, real \in BOOLEAN : Fail(c, read, real)
      BY <2>6 DEF ServerFault, Unreachable, Aborted, ReuseError, NeverSent
    <3>. QED
      BY <3>1, FailStep
  <2>. QED
    BY <1>4, <2>1, <2>2, <2>3, <2>4, <2>5, <2>6 DEF Call, Proceed, Respond
<1>5. CASE UNCHANGED vars
  BY <1>1, <1>5 DEF vars, clientVars, breakerVars, AttemptsCounted
<1>. QED
  BY <1>1, <1>2, <1>3, <1>4, <1>5 DEF Next

LEMMA ClientStart == Init => ClientInv
<1>. SUFFICES ASSUME Init PROVE ClientInv
  OBVIOUS
<1>1. BreakerTypeOK /\ StateMatchesFailures
  BY BreakerStart DEF Init, BreakerInv
<1>2. attempt \in [Callers -> 0..MaxRetries]
  BY ClientAssumption DEF ClientAssumption, Init
<1>3. sentOpen \in 0..MaxSent /\ told \in 0..Threshold
  BY BreakerAssumption, MaxSentType DEF BreakerAssumption, Init
<1>4. TypeOK
  BY <1>1, <1>2, <1>3 DEF Init, TypeOK
<1>. QED
  BY <1>1, <1>4 DEF Init, ClientInv, AttemptsCounted

\* Type correctness of the client: the loop variable stays within maxRetries.
THEOREM ClientTyping == Spec => []TypeOK
<1>1. ClientInv => TypeOK
  BY DEF ClientInv
<1>. QED
  BY <1>1, ClientStart, ClientStep, PTL DEF Spec

\* A call that fails at its last attempt, without any success since it began, leaves the
\* breaker open, for any number of callers and whatever ended it (ResilientClient.Do).
THEOREM ExhaustedCallTrips == Spec => ExhaustedLeavesOpen
<1>1. ClientInv /\ [Next]_vars =>
        [\A c \in Callers :
           /\ MaxRetries + 1 >= Threshold
           /\ clean[c]
           /\ attempt[c] = MaxRetries
           /\ pc[c] # "idle"
           /\ pc'[c] = "idle"
           /\ failures' # 0
           => state' = "OPEN"]_vars
  <2>. SUFFICES ASSUME ClientInv, [Next]_vars, vars' # vars,
                       NEW c \in Callers,
                       MaxRetries + 1 >= Threshold,
                       clean[c],
                       attempt[c] = MaxRetries,
                       pc[c] # "idle",
                       pc'[c] = "idle",
                       failures' # 0
                PROVE  state' = "OPEN"
    OBVIOUS
  <2>1. PICK d \in Callers : Call(d) \/ Proceed(d)
    BY DEF Next, Outage, TimePasses, Cancel, clientVars
  <2>2. d = c
    BY <2>1
    DEF Call, Begin, Blocked, Proceed, Send, Respond, Succeed, ServerFault, Unreachable,
        Aborted, ReuseError, NeverSent, Fail, Return, Retry, GiveUp, clientVars,
        ClientInv, TypeOK
  <2>3. GiveUp(c) \/ \E read \in BOOLEAN, real \in BOOLEAN : Fail(c, read, real)
    BY <2>1, <2>2
    DEF Call, Begin, Blocked, Proceed, Send, Respond, Succeed, ServerFault, Unreachable,
        Aborted, ReuseError, NeverSent, Retry, clientVars, RecordSuccess, ClientInv, TypeOK
  <2>4. RecordFailure
    BY <2>3 DEF Fail, GiveUp
  <2>5. failures >= MaxRetries \/ failures = Threshold
    BY DEF ClientInv, AttemptsCounted
  <2>. QED
    BY <2>4, <2>5, BreakerAssumption, ClientAssumption
    DEF RecordFailure, Trips, BreakerAssumption, ClientAssumption, ClientInv, TypeOK,
        BreakerTypeOK
<1>. QED
  BY <1>1, ClientStart, ClientStep, PTL DEF Spec, ExhaustedLeavesOpen

-------------------------------------------------------------------------------
(* An open breaker sheds load. *)

\* The attempts the calls under way may still send, each named by its call and number.
Attempts == Callers \X (0..MaxRetries)
Left ==
  {x \in Attempts :
     \/ pc[x[1]] = "sending" /\ x[2] > attempt[x[1]]
     \/ pc[x[1]] \in {"admitted", "backoff"} /\ x[2] >= attempt[x[1]]}

\* What was sent since the breaker opened, and what may still be, leaves out the first
\* attempt of the call that opened it.
OpenBudget == state = "OPEN" => sentOpen + Cardinality(Left) < MaxSent

ShedInv == ClientInv /\ ShedsLoad /\ OpenBudget

LEMMA LeftFinite ==
  /\ IsFiniteSet(Attempts) /\ Cardinality(Attempts) = MaxSent
  /\ \A S \in SUBSET Attempts : IsFiniteSet(S) /\ Cardinality(S) \in Nat /\ Cardinality(S) <= MaxSent
<1>1. IsFiniteSet(0..MaxRetries) /\ Cardinality(0..MaxRetries) = MaxRetries + 1
  BY FS_Interval, ClientAssumption DEF ClientAssumption
<1>2. IsFiniteSet(Attempts) /\ Cardinality(Attempts) = MaxSent
  BY <1>1, FS_Product, ClientAssumption DEF ClientAssumption, Attempts, MaxSent
<1>. QED
  BY <1>2, FS_Subset, FS_CardinalityType

\* Sending takes one attempt out of what is left.
LEMMA SendLeft ==
  ASSUME ClientInv, NEW c \in Callers, Send(c) \/ Retry(c)
  PROVE  Cardinality(Left') = Cardinality(Left) - 1
<1>. DEFINE x == <<c, attempt[c]>>
<1>1. /\ pc[c] \in {"admitted", "backoff"} /\ pc' = [pc EXCEPT ![c] = "sending"]
      /\ attempt' = attempt /\ attempt[c] \in 0..MaxRetries
  BY DEF Send, Retry, ClientInv, TypeOK
<1>2. x \in Left
  BY <1>1 DEF Left, Attempts
<1>3. ASSUME NEW y \in Attempts PROVE y \in Left' <=> y \in Left \ {x}
  <2>1. y = <<y[1], y[2]>> /\ y[1] \in Callers /\ y[2] \in 0..MaxRetries /\ attempt[y[1]] \in 0..MaxRetries
    BY DEF Attempts, ClientInv, TypeOK
  <2>2. CASE y[1] = c
    <3>1. pc'[y[1]] = "sending"
      BY <1>1, <2>2 DEF ClientInv, TypeOK
    <3>2. y \in Left' <=> y[2] > attempt[c]
      BY <1>1, <2>2, <3>1 DEF Left
    <3>3. y \in Left <=> y[2] >= attempt[c]
      BY <1>1, <2>2 DEF Left
    <3>4. y = x <=> y[2] = attempt[c]
      BY <2>1, <2>2
    <3>. QED
      BY <1>1, <2>1, <3>2, <3>3, <3>4, ClientAssumption DEF ClientAssumption
  <2>3. CASE y[1] # c
    <3>1. pc'[y[1]] = pc[y[1]] /\ attempt'[y[1]] = attempt[y[1]]
      BY <1>1, <2>3 DEF ClientInv, TypeOK
    <3>. QED
      BY <2>3, <3>1 DEF Left
  <2>. QED
    BY <2>2, <2>3
<1>4. Left' = Left \ {x}
  BY <1>3 DEF Left
<1>5. IsFiniteSet(Left)
  BY LeftFinite DEF Left
<1>. QED
  BY <1>2, <1>4, <1>5, FS_RemoveElement

\* A failure takes nothing into it, and leaves out the first attempt of its call.
LEMMA FailLeft ==
  ASSUME ClientInv, NEW c \in Callers,
         GiveUp(c) \/ (pc[c] # "idle" /\ \E read \in BOOLEAN, real \in BOOLEAN : Fail(c, read, real))
  PROVE  Left' \subseteq Left /\ Cardinality(Left') < MaxSent
<1>1. /\ attempt[c] \in 0..MaxRetries
      /\ \/ pc' = [pc EXCEPT ![c] = "idle"] /\ attempt' = [attempt EXCEPT ![c] = 0]
         \/ /\ pc[c] \in {"admitted", "sending", "backoff"}
            /\ pc' = [pc EXCEPT ![c] = "backoff"] /\ attempt' = [attempt EXCEPT ![c] = @ + 1]
  BY DEF GiveUp, Fail, Return, ClientInv, TypeOK
<1>2. ASSUME NEW y \in Attempts, y \in Left' PROVE y \in Left /\ y # <<c, 0>>
  <2>1. y = <<y[1], y[2]>> /\ y[1] \in Callers /\ y[2] \in 0..MaxRetries /\ attempt[y[1]] \in 0..MaxRetries
    BY DEF Attempts, ClientInv, TypeOK
  <2>2. CASE y[1] = c
    <3>1. /\ pc[c] \in {"admitted", "sending", "backoff"}
          /\ pc'[c] = "backoff" /\ attempt'[c] = attempt[c] + 1
      BY <1>1, <1>2, <2>2 DEF Left, ClientInv, TypeOK
    <3>2. y[2] >= attempt[c] + 1
      BY <1>2, <2>2, <3>1 DEF Left
    <3>. QED
      BY <1>1, <2>1, <2>2, <3>1, <3>2, ClientAssumption DEF Left, ClientAssumption
  <2>3. CASE y[1] # c
    <3>1. pc'[y[1]] = pc[y[1]] /\ attempt'[y[1]] = attempt[y[1]]
      BY <1>1, <2>1, <2>3 DEF ClientInv, TypeOK
    <3>. QED
      BY <1>2, <2>3, <3>1 DEF Left
  <2>. QED
    BY <2>2, <2>3
<1>3. Left' \subseteq Left /\ Left' \subseteq Attempts \ {<<c, 0>>}
  BY <1>2 DEF Left
<1>4. <<c, 0>> \in Attempts
  BY ClientAssumption DEF Attempts, ClientAssumption
<1>5. IsFiniteSet(Attempts \ {<<c, 0>>}) /\ Cardinality(Attempts \ {<<c, 0>>}) = MaxSent - 1
  BY <1>4, LeftFinite, FS_RemoveElement
<1>6. Cardinality(Left') <= MaxSent - 1 /\ Cardinality(Left') \in Nat
  BY <1>3, <1>5, FS_Subset, FS_CardinalityType
<1>. QED
  BY <1>3, <1>6, MaxSentType

LEMMA ShedStart == Init => ShedInv
<1>. SUFFICES ASSUME Init PROVE ShedInv
  OBVIOUS
<1>1. Cardinality(Callers) \in Nat \ {0}
  BY ClientAssumption, FS_EmptySet, FS_CardinalityType DEF ClientAssumption
<1>2. MaxSent > 0
  BY <1>1, ClientAssumption DEF ClientAssumption, MaxSent
<1>. QED
  BY <1>2, ClientStart DEF Init, BreakerInit, ShedInv, ShedsLoad, OpenBudget

LEMMA ShedStep == ASSUME ShedInv, [Next]_vars PROVE ShedInv'
<1>1. ClientInv'
  BY ClientStep DEF ShedInv
<1>2. IsFiniteSet(Left) /\ Cardinality(Left) \in Nat /\ Left' \subseteq Attempts
  BY LeftFinite DEF Left
<1>3. sentOpen \in Nat /\ MaxSent \in Nat
  BY MaxSentType DEF ShedInv, ClientInv, TypeOK
<1>4. CASE UNCHANGED <<sentOpen, pc, attempt>> /\ (state' = "OPEN" => state = "OPEN")
  BY <1>1, <1>4 DEF ShedInv, ShedsLoad, OpenBudget, Left
<1>5. CASE state' # "OPEN" /\ sentOpen' = sentOpen
  BY <1>1, <1>5 DEF ShedInv, ShedsLoad, OpenBudget
<1>6. ASSUME NEW c \in Callers, Send(c) \/ Retry(c) PROVE ShedsLoad' /\ OpenBudget'
  <2>1. Cardinality(Left') = Cardinality(Left) - 1
    BY <1>6, SendLeft DEF ShedInv
  <2>2. state' = state /\ (state = "OPEN" => sentOpen' = sentOpen + 1) /\ (state # "OPEN" => sentOpen' = sentOpen)
    BY <1>6 DEF Send, Retry, CountSent, breakerVars, ShedInv, ShedsLoad
  <2>3. Cardinality(Left') \in Nat
    BY <1>2, LeftFinite
  <2>. QED
    BY <1>2, <1>3, <2>1, <2>2, <2>3 DEF ShedInv, ShedsLoad, OpenBudget
<1>7. ASSUME NEW c \in Callers,
             GiveUp(c) \/ (pc[c] # "idle" /\ \E read \in BOOLEAN, real \in BOOLEAN : Fail(c, read, real))
      PROVE  ShedsLoad' /\ OpenBudget'
  <2>1. Left' \subseteq Left /\ Cardinality(Left') < MaxSent
    BY <1>7, FailLeft DEF ShedInv
  <2>2. RestartWhenOpened
    BY <1>7 DEF GiveUp, Fail
  <2>3. Cardinality(Left') <= Cardinality(Left) /\ Cardinality(Left') \in Nat
    BY <1>2, <2>1, FS_Subset, LeftFinite
  <2>. QED
    BY <1>2, <1>3, <2>1, <2>2, <2>3 DEF RestartWhenOpened, ShedInv, ShedsLoad, OpenBudget
<1>8. CASE \E c \in Callers : Call(c) \/ Proceed(c)
  <2>1. PICK c \in Callers : Call(c) \/ Proceed(c)
    BY <1>8
  <2>2. CASE Begin(c)
    BY <1>5, <2>2 DEF Begin, Admit, breakerVars, ShedInv, ClientInv, TypeOK, BreakerTypeOK
  <2>3. CASE Blocked(c)
    BY <1>4, <2>3 DEF Blocked, Refuse, breakerVars, clientVars
  <2>4. CASE Succeed(c)
    BY <1>5, <2>4 DEF Succeed, RecordSuccess
  <2>5. CASE ServerFault(c) \/ Unreachable(c) \/ Aborted(c) \/ ReuseError(c) \/ NeverSent(c)
    <3>1. pc[c] # "idle" /\ \E read \in BOOLEAN, real \in BOOLEAN : Fail(c, read, real)
      BY <2>5 DEF ServerFault, Unreachable, Aborted, ReuseError, NeverSent
    <3>. QED
      BY <1>1, <1>7, <3>1 DEF ShedInv
  <2>. QED
    BY <1>1, <1>6, <1>7, <2>1, <2>2, <2>3, <2>4, <2>5 DEF Call, Proceed, Respond, ShedInv
<1>9. CASE Outage \/ TimePasses \/ Cancel \/ UNCHANGED vars
  BY <1>4, <1>9 DEF Outage, TimePasses, Cancel, Tick, vars, clientVars, breakerVars
<1>. QED
  BY <1>8, <1>9 DEF Next

\* An open breaker sheds load: whatever the threshold, the cooldown and the number of
\* callers, fewer attempts reach the remote while it is open than the calls already
\* admitted could make (Allow is asked once per Do, not per attempt).
THEOREM OpenBreakerShedsLoad == Spec => []ShedsLoad
<1>1. ShedInv => ShedsLoad
  BY DEF ShedInv
<1>. QED
  BY <1>1, ShedStart, ShedStep, PTL DEF Spec
===============================================================================
