---------------------------- MODULE ResilientClient ----------------------------
(***************************************************************************)
(* ResilientClient.Do of pkg/resilience/resilient_client.go, called by      *)
(* several goroutines that share one circuit breaker.  A call asks Allow    *)
(* once, then sends up to MaxRetries + 1 attempts with a backoff between    *)
(* them; each outcome is recorded in the breaker when it arrives, whatever  *)
(* state other calls have put the breaker in meanwhile.                     *)
(*                                                                          *)
(* The request is the POST built by HTTPCRMAdapter.SyncContact: its body    *)
(* is a buffer that an attempt which reaches the server has read, and       *)
(* req.Clone copies the reference, not the contents.  net/http then fails   *)
(* the retry before anything is sent, unless the connection was reused and  *)
(* the transport rewinds the body itself.                                   *)
(*                                                                          *)
(* All requests carry the context of the marketing consumer, which main     *)
(* cancels once, at shutdown.  From then on client.Do returns the context's *)
(* error before it sends anything.  Main starts one consumer; the client is *)
(* written for any number of goroutines.                                    *)
(***************************************************************************)
EXTENDS CircuitBreaker, FiniteSets

CONSTANTS
  Callers,     \* goroutines that call Do, all of the consumer
  MaxRetries

ASSUME ClientAssumption == MaxRetries \in Nat /\ IsFiniteSet(Callers) /\ Callers # {}

VARIABLES
  up,         \* the remote answers with a status below 500
  pc,         \* caller -> "idle", "admitted", "sending" or "backoff"
  attempt,    \* caller -> the loop variable of Do
  spent,      \* caller -> the request body has been read
  done,       \* the consumer's context is done
  clean,      \* caller -> nobody recorded a success since its call began
  sentOpen,   \* attempts sent since the breaker opened
  told        \* failures since the last success that had a cause outside Do

clientVars == <<up, pc, attempt, spent, done, clean, sentOpen, told>>
vars == <<breakerVars, clientVars>>

MaxSent == Cardinality(Callers) * (MaxRetries + 1)

TypeOK ==
  /\ BreakerTypeOK
  /\ up \in BOOLEAN
  /\ pc \in [Callers -> {"idle", "admitted", "sending", "backoff"}]
  /\ attempt \in [Callers -> 0..MaxRetries]
  /\ spent \in [Callers -> BOOLEAN]
  /\ done \in BOOLEAN
  /\ clean \in [Callers -> BOOLEAN]
  /\ sentOpen \in 0..MaxSent
  /\ told \in 0..Threshold

Init ==
  /\ BreakerInit
  /\ up = TRUE
  /\ pc = [c \in Callers |-> "idle"]
  /\ attempt = [c \in Callers |-> 0]
  /\ spent = [c \in Callers |-> FALSE]
  /\ done = FALSE
  /\ clean = [c \in Callers |-> FALSE]
  /\ sentOpen = 0
  /\ told = 0

-------------------------------------------------------------------------------
(* The ghosts that follow the breaker. *)

CountTold(real) == told' = IF real /\ told < Threshold THEN told + 1 ELSE told
RestartWhenOpened ==
  sentOpen' = IF state # "OPEN" /\ state' = "OPEN" THEN 0 ELSE sentOpen
CountSent ==
  sentOpen' = IF state = "OPEN" /\ sentOpen < MaxSent THEN sentOpen + 1 ELSE sentOpen

-------------------------------------------------------------------------------
(* A call of Do. *)

\* Allow lets the call in.
Begin(c) ==
  /\ pc[c] = "idle"
  /\ Admit
  /\ pc' = [pc EXCEPT ![c] = "admitted"]
  /\ attempt' = [attempt EXCEPT ![c] = 0]
  /\ clean' = [clean EXCEPT ![c] = TRUE]
  /\ UNCHANGED <<up, spent, done, sentOpen, told>>

\* Allow blocks the call, which returns an error at once.
Blocked(c) ==
  /\ pc[c] = "idle"
  /\ Refuse
  /\ UNCHANGED clientVars

\* The first attempt leaves.
Send(c) ==
  /\ pc[c] = "admitted"
  /\ ~done
  /\ pc' = [pc EXCEPT ![c] = "sending"]
  /\ CountSent
  /\ UNCHANGED <<breakerVars, up, attempt, spent, done, clean, told>>

\* The call returns; its locals are gone.
Return(c) ==
  /\ pc' = [pc EXCEPT ![c] = "idle"]
  /\ attempt' = [attempt EXCEPT ![c] = 0]
  /\ spent' = [spent EXCEPT ![c] = FALSE]

\* A status below 500, also when the transport rewound a spent body.
Succeed(c) ==
  /\ pc[c] = "sending"
  /\ up
  /\ RecordSuccess
  /\ Return(c)
  /\ clean' = [d \in Callers |-> FALSE]
  /\ told' = 0
  /\ UNCHANGED <<up, done, sentOpen>>

\* The loop condition.  Variant: one attempt too many.
IsLast_OneMore(c) == attempt[c] = MaxRetries + 1
IsLast(c) == attempt[c] = MaxRetries

\* RecordFailure, then the next iteration or the end of the loop.
Fail(c, read, real) ==
  /\ RecordFailure
  /\ CountTold(real)
  /\ RestartWhenOpened
  /\ \/ /\ IsLast(c)
        /\ Return(c)
        /\ clean' = [clean EXCEPT ![c] = FALSE]
     \/ /\ ~IsLast(c)
        /\ pc' = [pc EXCEPT ![c] = "backoff"]
        /\ attempt' = [attempt EXCEPT ![c] = @ + 1]
        /\ spent' = [spent EXCEPT ![c] = @ \/ read]
        /\ UNCHANGED clean
  /\ UNCHANGED <<up, done>>

\* A 5xx status or the client's timeout: the remote has read the body.
ServerFault(c) == pc[c] = "sending" /\ ~up /\ Fail(c, TRUE, TRUE)

\* No connection: the body was not touched.
Unreachable(c) == pc[c] = "sending" /\ ~up /\ Fail(c, FALSE, TRUE)

\* The context ends an attempt under way, before or after the body was read.
Aborted(c) == pc[c] = "sending" /\ done /\ \E read \in BOOLEAN : Fail(c, read, TRUE)

\* net/http refuses to send a spent body: ContentLength > 0 with no bytes left.
ReuseError(c) == pc[c] = "sending" /\ spent[c] /\ Fail(c, FALSE, FALSE)

\* The context was done before the attempt: net/http touches neither body nor remote.
NeverSent(c) == pc[c] \in {"admitted", "backoff"} /\ done /\ Fail(c, FALSE, TRUE)

\* time.After fires.  When ctx is done too, select picks either: NeverSent or GiveUp.
Retry(c) ==
  /\ pc[c] = "backoff"
  /\ ~done
  /\ pc' = [pc EXCEPT ![c] = "sending"]
  /\ CountSent
  /\ UNCHANGED <<breakerVars, up, attempt, spent, done, clean, told>>

\* ctx.Done() during the backoff: one more failure, and the call returns.
GiveUp(c) ==
  /\ pc[c] = "backoff"
  /\ done
  /\ RecordFailure
  /\ CountTold(TRUE)
  /\ RestartWhenOpened
  /\ Return(c)
  /\ clean' = [clean EXCEPT ![c] = FALSE]
  /\ UNCHANGED <<up, done>>

-------------------------------------------------------------------------------
(* The remote, the clock and the shutdown. *)

Outage == up' = ~up /\ UNCHANGED <<breakerVars, pc, attempt, spent, done, clean, sentOpen, told>>
TimePasses == Tick /\ UNCHANGED clientVars

\* main cancels the consumer's context; the consumer may still pick an event after it.
Cancel ==
  /\ ~done
  /\ done' = TRUE
  /\ UNCHANGED <<breakerVars, up, pc, attempt, spent, clean, sentOpen, told>>

Call(c) == Begin(c) \/ Blocked(c)
Respond(c) ==
  \/ Succeed(c)
  \/ ServerFault(c)
  \/ Unreachable(c)
  \/ Aborted(c)
  \/ ReuseError(c)
Proceed(c) == Send(c) \/ Respond(c) \/ Retry(c) \/ NeverSent(c) \/ GiveUp(c)

Next ==
  \/ Outage
  \/ TimePasses
  \/ Cancel
  \/ \E c \in Callers : Call(c) \/ Proceed(c)

Spec == Init /\ [][Next]_vars

\* The program until it shuts down.
RunningSpec == Init /\ [][Next /\ ~done']_vars

\* Calls move on: the client's timeout bounds an attempt and a timer the backoff.
\* The clock runs, and the consumer keeps finding contacts to sync (Recovers asks
\* nothing of a consumer that was told to stop).
Fairness ==
  /\ WF_vars(TimePasses)
  /\ \A c \in Callers : WF_vars(Proceed(c)) /\ WF_vars(Call(c))
FairSpec == Spec /\ Fairness

-------------------------------------------------------------------------------
(* Properties. *)

\* An open breaker sheds load: no attempt reaches the remote from a call that
\* begins while it is open, so at most the attempts left to the calls already
\* admitted are sent, and the call that tripped it has used one of its own.
ShedsLoad == sentOpen < MaxSent

\* A call that fails at its last attempt, with no success of any call since it began,
\* leaves the breaker open when its attempts alone reach the threshold: whether the
\* attempt was answered, aborted, never sent or given up in the backoff, and also when
\* the breaker was half-open or a cooldown ended in between.
ExhaustedLeavesOpen ==
  [][\A c \in Callers :
       /\ MaxRetries + 1 >= Threshold
       /\ clean[c]
       /\ attempt[c] = MaxRetries
       /\ pc[c] # "idle"
       /\ pc'[c] = "idle"
       /\ failures' # 0
       => state' = "OPEN"]_vars

\* Once the remote stays up and the consumer is not stopped, the breaker closes for
\* good, although failures of calls still under way keep renewing the cooldown.
Recovers == <>[](up /\ ~done) => <>[](state = "CLOSED")

\* The state diagram of .project-context.md: an open breaker only ever becomes
\* half-open, by Allow after the cooldown.
DiagramEdges ==
  {<<"CLOSED", "OPEN">>, <<"OPEN", "HALF-OPEN">>,
   <<"HALF-OPEN", "CLOSED">>, <<"HALF-OPEN", "OPEN">>}
FollowsDiagram == [][state' = state \/ <<state, state'>> \in DiagramEdges]_state

\* The request copy made for a retry prevents reuse errors: the breaker trips
\* only on failures that have a cause outside Do (the remote, the network or the
\* caller's context), Threshold of them since the last success.
TripsForACause == state # "CLOSED" => told >= Threshold
===============================================================================
