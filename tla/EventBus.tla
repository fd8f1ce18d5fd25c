------------------------------- MODULE EventBus -------------------------------
(***************************************************************************)
(* What the Broker interface (pkg/broker/broker.go) promises a consumer,   *)
(* without locks, channels or fan-out loops.  Every subscription owns one  *)
(* stream: the events ever put in it, in order, and how many of them the   *)
(* consumer has taken.  The bus may lose an event for one subscription and *)
(* deliver it to another, but a stream never repeats an event, never       *)
(* reorders two events of one publisher, gains nothing once the bus is     *)
(* stopped, and ends only after everything in it was taken.                *)
(***************************************************************************)
EXTENDS Integers, Sequences

CONSTANTS
  Consumers,
  Event       \* pairs <<p, n>>: the n-th event publisher p hands to the bus

VARIABLES
  open,     \* the bus still accepts subscriptions and events
  member,   \* the consumers that hold a subscription
  stream,   \* consumer -> all events ever put in its stream
  got,      \* consumer -> how many of them it has taken
  ended     \* the consumers that were told the stream is over

busVars == <<open, member, stream, got, ended>>

Init ==
  /\ open = TRUE
  /\ member = {}
  /\ stream = [c \in Consumers |-> <<>>]
  /\ got = [c \in Consumers |-> 0]
  /\ ended = {}

Join(c) ==
  /\ open
  /\ c \notin member
  /\ member' = member \cup {c}
  /\ UNCHANGED <<open, stream, got, ended>>

\* e is later than every event of the same publisher already in c's stream.
Fresh(e, c) ==
  \A i \in 1..Len(stream[c]) : stream[c][i][1] = e[1] => stream[c][i][2] < e[2]

Offer(e, c) ==
  /\ open
  /\ c \in member
  /\ Fresh(e, c)
  /\ stream' = [stream EXCEPT ![c] = Append(stream[c], e)]
  /\ UNCHANGED <<open, member, got, ended>>

Take(c) ==
  /\ got[c] < Len(stream[c])
  /\ got' = [got EXCEPT ![c] = got[c] + 1]
  /\ UNCHANGED <<open, member, stream, ended>>

Stop ==
  /\ open
  /\ open' = FALSE
  /\ UNCHANGED <<member, stream, got, ended>>

End(c) ==
  /\ ~open
  /\ c \in member
  /\ got[c] = Len(stream[c])
  /\ ended' = ended \cup {c}
  /\ UNCHANGED <<open, member, stream, got>>

Next ==
  \/ Stop
  \/ \E c \in Consumers :
       \/ Join(c)
       \/ Take(c)
       \/ End(c)
       \/ \E e \in Event : Offer(e, c)

Spec == Init /\ [][Next]_busVars
===============================================================================
