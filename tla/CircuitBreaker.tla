---------------------------- MODULE CircuitBreaker ----------------------------
(***************************************************************************)
(* CircuitBreaker of pkg/resilience/circuit_breaker.go.  Its methods run    *)
(* under one mutex, so each is one step.  Time is the age of the last       *)
(* failure in ticks, which stops growing once the cooldown is over;         *)
(* failures stops growing at Threshold, which is all the code compares      *)
(* it with.                                                                 *)
(***************************************************************************)
EXTENDS Integers

CONSTANTS
  Threshold,  \* failures that trip the breaker
  Cooldown    \* ticks an open breaker blocks calls after the last failure

\* NewCircuitBreaker takes any int; the program passes 3 and 5 seconds.
ASSUME BreakerAssumption == Threshold \in Nat \ {0} /\ Cooldown \in Nat

VARIABLES
  state,     \* "CLOSED", "HALF-OPEN" or "OPEN"
  failures,  \* failures since the last success
  age        \* ticks since lastFailure

breakerVars == <<state, failures, age>>

BreakerTypeOK ==
  /\ state \in {"CLOSED", "HALF-OPEN", "OPEN"}
  /\ failures \in 0..Threshold
  /\ age \in 0..(Cooldown + 1)

\* lastFailure is the zero time: as old as can be.
BreakerInit ==
  /\ state = "CLOSED"
  /\ failures = 0
  /\ age = Cooldown + 1

CooledDown == age > Cooldown

\* Allow returns true.  Variant: an open breaker lets calls through.
Admit_IgnoresOpen == UNCHANGED breakerVars
Admit ==
  \/ state # "OPEN" /\ UNCHANGED breakerVars
  \/ /\ state = "OPEN"
     /\ CooledDown
     /\ state' = "HALF-OPEN"
     /\ UNCHANGED <<failures, age>>

\* Allow returns false.
Refuse == state = "OPEN" /\ ~CooledDown /\ UNCHANGED breakerVars

\* Variants: the counter survives; the success of a probe does not close.
RecordSuccess_KeepsFailures == state' = "CLOSED" /\ UNCHANGED <<failures, age>>
RecordSuccess_NeverCloses == failures' = 0 /\ UNCHANGED <<state, age>>
RecordSuccess == state' = "CLOSED" /\ failures' = 0 /\ UNCHANGED age

\* failures >= threshold after the increment.  Variant: failures > threshold.
Trips_Above == failures = Threshold
Trips == failures + 1 >= Threshold

RecordFailure ==
  /\ failures' = IF failures < Threshold THEN failures + 1 ELSE failures
  /\ age' = 0
  /\ state' = IF state = "HALF-OPEN" \/ Trips THEN "OPEN" ELSE state

Tick == ~CooledDown /\ age' = age + 1 /\ UNCHANGED <<state, failures>>

BreakerNext == Admit \/ Refuse \/ RecordSuccess \/ RecordFailure \/ Tick

\* The breaker under callers that do anything.
BreakerSpec == BreakerInit /\ [][BreakerNext]_breakerVars

\* The state and the counter of failures never disagree: the breaker is closed
\* exactly while fewer than Threshold failures followed the last success, so no
\* late RecordFailure or RecordSuccess leaves it half way.
StateMatchesFailures == state = "CLOSED" <=> failures < Threshold
===============================================================================
