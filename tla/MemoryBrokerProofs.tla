-------------------------- MODULE MemoryBrokerProofs --------------------------
(***************************************************************************)
(* Proofs about MemoryBroker for every number of publishers, consumers,    *)
(* closers and topics, every buffer size and every bound on the calls.     *)
(*                                                                         *)
(* The lock does the work: a publisher that is sending found the broker    *)
(* open, and no Close can run until it returned (OpenWhileSending), while  *)
(* channels are only closed by the Close that closes the broker            *)
(* (ShutWhenClosed).  On top of that, StreamInv says who put every event   *)
(* where it is: a call that returned, or the one under way, which has      *)
(* served that consumer already; with subscriptions that never repeat,     *)
(* this gives the outcomes of the calls and the refinement of EventBus.    *)
(***************************************************************************)
EXTENDS MemoryBroker, TLAPS

OpenWhileSending == \A p \in Publishers : Sending(p) => ~closed
ShutWhenClosed == shut # {} => closed
CallsBounded == \A p \in Publishers : Sending(p) => Len(result[p]) < MaxPublish

BrokerInv == TypeOK /\ OpenWhileSending /\ ShutWhenClosed /\ CallsBounded /\ NoPanic

\* The subscribers a call addresses, and the one it is about to serve.
LEMMA TargetType ==
  ASSUME BrokerInv, NEW p \in Publishers, Pending(p)
  PROVE  Target(p) \in Consumers /\ Current(p) \in Event
<1>1. subs[topic[p]] \in Seq(Consumers)
  BY DEF BrokerInv, TypeOK
<1>2. next[p] \in 1..Len(subs[topic[p]])
  BY <1>1 DEF BrokerInv, TypeOK, Pending
<1>3. Target(p) \in Consumers
  BY <1>1, <1>2 DEF Target
<1>4. Len(result[p]) \in Nat /\ Len(result[p]) + 1 <= MaxPublish
  BY BrokerAssumption DEF BrokerInv, TypeOK, CallsBounded, Pending, BrokerAssumption
<1>5. Current(p) \in Event
  BY <1>4, BrokerAssumption DEF Current, Event, BrokerAssumption
<1>. QED
  BY <1>3, <1>5

LEMMA AudienceType ==
  ASSUME BrokerInv, NEW t \in Topics
  PROVE  Range(subs[t]) \subseteq Consumers
BY DEF BrokerInv, TypeOK, Range

\* A call that returns adds one well-formed outcome.
LEMMA ReturnType ==
  ASSUME BrokerInv, NEW p \in Publishers, NEW err \in {"nil", "closed", "ctx"},
         Return(p, err)
  PROVE  /\ pc' \in [Publishers -> {"idle", "sending"}]
         /\ topic' \in [Publishers -> Topics]
         /\ next' \in [Publishers -> Nat \ {0}]
         /\ cancelled' \in [Publishers -> BOOLEAN]
         /\ result' \in [Publishers -> Seq(Outcome)]
         /\ \A q \in Publishers : Sending(q)' => Sending(q) /\ result'[q] = result[q]
<1>1. topic[p] \in Topics
  BY DEF BrokerInv, TypeOK
<1>2. [err |-> err, to |-> Audience(p)] \in Outcome
  BY <1>1, AudienceType DEF Outcome, Audience
<1>3. result' \in [Publishers -> Seq(Outcome)]
  BY <1>2 DEF BrokerInv, TypeOK, Return
<1>. QED
  BY <1>3 DEF BrokerInv, TypeOK, Return, Sending

LEMMA PublisherStepInv ==
  ASSUME BrokerInv, NEW p \in Publishers,
         \/ \E t \in Topics : Publish(p, t) \/ PublishClosed(p, t)
         \/ PublisherStep(p)
         \/ Cancel(p)
  PROVE  BrokerInv'
<1>. USE DEF BrokerInv
<1>1. ASSUME NEW t \in Topics, Publish(p, t) PROVE BrokerInv'
  BY <1>1
  DEF Publish, lockVars, chanVars, TypeOK, OpenWhileSending, ShutWhenClosed, CallsBounded,
      NoPanic, Sending
<1>2. ASSUME NEW t \in Topics, PublishClosed(p, t) PROVE BrokerInv'
  <2>1. [err |-> "closed", to |-> Range(subs[t])] \in Outcome
    BY AudienceType DEF Outcome
  <2>2. result' \in [Publishers -> Seq(Outcome)]
    BY <1>2, <2>1 DEF PublishClosed, TypeOK
  <2>3. TypeOK'
    BY <1>2, <2>2 DEF PublishClosed, lockVars, chanVars, TypeOK
  <2>4. \A q \in Publishers : Sending(q)' => result'[q] = result[q]
    BY <1>2 DEF PublishClosed, Sending, TypeOK
  <2>. QED
    BY <1>2, <2>3, <2>4
    DEF PublishClosed, OpenWhileSending, ShutWhenClosed, CallsBounded, NoPanic, Sending
<1>3. CASE Deliver(p)
  <2>1. Target(p) \in Consumers /\ Current(p) \in Event
    BY <1>3, TargetType DEF Deliver
  <2>2. buf' \in [Consumers -> Seq(Event)] /\ \A c \in Consumers : Len(buf'[c]) <= BufferSize
    BY <1>3, <2>1, BrokerAssumption DEF Deliver, HasRoom, TypeOK, BrokerAssumption
  <2>3. ~closed /\ shut = {}
    BY <1>3 DEF Deliver, Pending, OpenWhileSending, ShutWhenClosed
  <2>4. crashed' = FALSE
    BY <1>3, <2>3 DEF Deliver, NoPanic
  <2>5. next' \in [Publishers -> Nat \ {0}]
    BY <1>3 DEF Deliver, Advance, TypeOK
  <2>6. TypeOK'
    BY <1>3, <2>2, <2>4, <2>5 DEF Deliver, lockVars, TypeOK
  <2>. QED
    BY <1>3, <2>4, <2>6
    DEF Deliver, OpenWhileSending, ShutWhenClosed, CallsBounded, NoPanic, Sending
<1>4. CASE Drop(p)
  <2>1. Target(p) \in Consumers
    BY <1>4, TargetType DEF Drop
  <2>2. TypeOK'
    BY <1>4, <2>1 DEF Drop, Advance, lockVars, TypeOK
  <2>. QED
    BY <1>4, <2>2
    DEF Drop, OpenWhileSending, ShutWhenClosed, CallsBounded, NoPanic, Sending
<1>5. CASE Abandon(p) \/ Finish(p)
  <2>1. PICK err \in {"nil", "closed", "ctx"} : Return(p, err)
    BY <1>5 DEF Abandon, Finish
  <2>2. UNCHANGED <<closed, subs, shut, consumer, crashed, lockVars, chanVars>>
    BY <1>5 DEF Abandon, Finish
  <2>3. TypeOK'
    BY <2>1, <2>2, ReturnType DEF lockVars, chanVars, TypeOK
  <2>. QED
    BY <2>1, <2>2, <2>3, ReturnType
    DEF OpenWhileSending, ShutWhenClosed, CallsBounded, NoPanic
<1>6. CASE Cancel(p)
  BY <1>6
  DEF Cancel, lockVars, chanVars, TypeOK, OpenWhileSending, ShutWhenClosed, CallsBounded,
      NoPanic, Sending
<1>. QED
  BY <1>1, <1>2, <1>3, <1>4, <1>5, <1>6 DEF PublisherStep

LEMMA ConsumerStepInv ==
  ASSUME BrokerInv, NEW c \in Consumers,
         \/ Lock(c)
         \/ \E t \in Topics : Subscribe(c, t)
         \/ SubscribeClosed(c)
         \/ Receive(c)
         \/ EndOfStream(c)
         \/ Quit(c)
  PROVE  BrokerInv'
<1>. USE DEF BrokerInv
<1>1. CASE Lock(c)
  BY <1>1
  DEF Lock, Goroutines, callVars, chanVars, TypeOK, OpenWhileSending, ShutWhenClosed,
      CallsBounded, NoPanic, Sending
<1>2. ASSUME NEW t \in Topics, Subscribe(c, t) PROVE BrokerInv'
  BY <1>2
  DEF Subscribe, callVars, chanVars, TypeOK, OpenWhileSending, ShutWhenClosed,
      CallsBounded, NoPanic, Sending
<1>3. CASE SubscribeClosed(c)
  BY <1>3
  DEF SubscribeClosed, callVars, chanVars, TypeOK, OpenWhileSending, ShutWhenClosed,
      CallsBounded, NoPanic, Sending
<1>4. CASE Receive(c)
  <2>1. buf[c] \in Seq(Event) /\ buf[c] # <<>>
    BY <1>4 DEF Receive, TypeOK
  <2>2. /\ Tail(buf[c]) \in Seq(Event)
        /\ Len(Tail(buf[c])) <= Len(buf[c])
        /\ Head(buf[c]) \in Event
    BY <2>1
  <2>3. TypeOK'
    BY <1>4, <2>2, BrokerAssumption
    DEF Receive, lockVars, callVars, TypeOK, BrokerAssumption
  <2>. QED
    BY <1>4, <2>3
    DEF Receive, callVars, OpenWhileSending, ShutWhenClosed, CallsBounded, NoPanic, Sending
<1>5. CASE EndOfStream(c) \/ Quit(c)
  <2>1. UNCHANGED <<closed, subs, shut, crashed, lockVars, callVars, chanVars>>
    BY <1>5 DEF EndOfStream, Quit
  <2>2. consumer' \in [Consumers -> {"new", "reading", "refused", "ended", "quit"}]
    BY <1>5 DEF EndOfStream, Quit, TypeOK
  <2>3. TypeOK'
    BY <2>1, <2>2 DEF lockVars, callVars, chanVars, TypeOK
  <2>. QED
    BY <2>1, <2>3
    DEF callVars, OpenWhileSending, ShutWhenClosed, CallsBounded, NoPanic, Sending
<1>. QED
  BY <1>1, <1>2, <1>3, <1>4, <1>5

LEMMA CloserStepInv ==
  ASSUME BrokerInv, NEW k \in Closers, Lock(k) \/ Close(k) \/ CloseAgain(k)
  PROVE  BrokerInv'
<1>. USE DEF BrokerInv
<1>1. CASE Lock(k)
  BY <1>1
  DEF Lock, Goroutines, callVars, chanVars, TypeOK, OpenWhileSending, ShutWhenClosed,
      CallsBounded, NoPanic, Sending
<1>2. CASE Close(k)
  <2>1. shut = {} /\ \A p \in Publishers : ~Sending(p)
    BY <1>2 DEF Close, HoldsWriteLock, ShutWhenClosed
  <2>2. ToClose \subseteq Consumers
    BY AudienceType DEF ToClose, Channels
  <2>3. crashed' = FALSE
    BY <1>2, <2>1 DEF Close, NoPanic
  <2>4. TypeOK'
    BY <1>2, <2>2, <2>3 DEF Close, callVars, chanVars, TypeOK
  <2>. QED
    BY <1>2, <2>1, <2>3, <2>4
    DEF Close, callVars, OpenWhileSending, ShutWhenClosed, CallsBounded, NoPanic, Sending
<1>3. CASE CloseAgain(k)
  BY <1>3
  DEF CloseAgain, callVars, chanVars, TypeOK, OpenWhileSending, ShutWhenClosed,
      CallsBounded, NoPanic, Sending
<1>. QED
  BY <1>1, <1>2, <1>3

LEMMA BrokerStart == Init => BrokerInv
<1>. SUFFICES ASSUME Init PROVE BrokerInv
  OBVIOUS
<1>1. (CHOOSE t \in Topics : TRUE) \in Topics
  BY BrokerAssumption DEF BrokerAssumption
<1>2. /\ subs \in [Topics -> Seq(Consumers)]
      /\ buf \in [Consumers -> Seq(Event)]
      /\ \A c \in Consumers : Len(buf[c]) <= BufferSize
      /\ taken \in [Consumers -> Seq(Event)]
      /\ result \in [Publishers -> Seq(Outcome)]
  BY BrokerAssumption DEF Init, BrokerAssumption
<1>3. /\ topic \in [Publishers -> Topics]
      /\ writer \in Goroutines \cup {None}
  BY <1>1 DEF Init
<1>4. /\ pc \in [Publishers -> {"idle", "sending"}]
      /\ next \in [Publishers -> Nat \ {0}]
      /\ cancelled \in [Publishers -> BOOLEAN]
      /\ consumer \in [Consumers -> {"new", "reading", "refused", "ended", "quit"}]
      /\ closing \in [Closers -> {"idle", "done"}]
  BY DEF Init
<1>5. TypeOK
  BY <1>2, <1>3, <1>4 DEF Init, TypeOK
<1>. QED
  BY <1>5
  DEF Init, BrokerInv, OpenWhileSending, ShutWhenClosed, CallsBounded, NoPanic, Sending

LEMMA BrokerStep == ASSUME BrokerInv, [Next]_vars PROVE BrokerInv'
<1>1. CASE UNCHANGED vars
  BY <1>1
  DEF vars, lockVars, callVars, chanVars, BrokerInv, TypeOK, OpenWhileSending,
      ShutWhenClosed, CallsBounded, NoPanic, Sending
<1>. QED
  BY <1>1, PublisherStepInv, ConsumerStepInv, CloserStepInv DEF Next, PublisherStep

LEMMA BrokerAlways == Spec => []BrokerInv
BY BrokerStart, BrokerStep, PTL DEF Spec

\* Type correctness, and no channel ever holds more than its capacity.
THEOREM BrokerTyping == Spec => []TypeOK
<1>1. BrokerInv => TypeOK
  BY DEF BrokerInv
<1>. QED
  BY <1>1, BrokerAlways, PTL

\* No send on a closed channel and no second close of a channel, under every
\* interleaving of PublishRaw, PublishScreened, Subscribe and Close.
THEOREM BrokerNeverPanics == Spec => []NoPanic
<1>1. BrokerInv => NoPanic
  BY DEF BrokerInv
<1>. QED
  BY <1>1, BrokerAlways, PTL

-------------------------------------------------------------------------------
\* Taking the head of a channel leaves the stream as it is.
LEMMA ReceiveKeepsStream ==
  ASSUME NEW S, NEW t \in Seq(S), NEW b \in Seq(S), b # <<>>
  PROVE  Append(t, Head(b)) \o Tail(b) = t \o b
<1>. DEFINE lhs == Append(t, Head(b)) \o Tail(b)
            rhs == t \o b
<1>1. lhs \in Seq(S) /\ rhs \in Seq(S) /\ Len(lhs) = Len(rhs)
  OBVIOUS
<1>2. ASSUME NEW i \in 1..Len(rhs) PROVE lhs[i] = rhs[i]
  <2>1. CASE i <= Len(t)
    BY <2>1
  <2>2. CASE i = Len(t) + 1
    BY <2>2
  <2>3. CASE i > Len(t) + 1
    BY <2>3
  <2>. QED
    BY <2>1, <2>2, <2>3
<1>. QED
  BY <1>1, <1>2

-------------------------------------------------------------------------------
(* What is in the streams, and which call put it there.                      *)

Delivered(c) == Range(Stream(c))
Served(p) == {subs[topic[p]][i] : i \in 1..(next[p] - 1) \cap DOMAIN subs[topic[p]]}

\* A consumer subscribes at most once, under the write lock.
SubscribedOnce ==
  /\ \A t \in Topics : \A i, j \in DOMAIN subs[t] : subs[t][i] = subs[t][j] => i = j
  /\ \A c \in Consumers : c \in Channels <=> consumer[c] \in {"reading", "ended", "quit"}
  /\ writer \in Consumers => consumer[writer] = "new"

\* What the n-th outcome of p says of the streams.
OutcomeHolds(p, n) ==
  LET r == result[p][n]
  IN  /\ r.err = "nil" => \A c \in r.to \ overflow : <<p, n>> \in Delivered(c)
      /\ r.err = "closed" => \A c \in Consumers : <<p, n>> \notin Delivered(c)
      /\ r.err = "ctx" =>
           /\ \A c \in Consumers : <<p, n>> \in Delivered(c) => c \in r.to
           /\ \E c \in r.to : <<p, n>> \notin Delivered(c)

\* An event of p in a stream is of a call that returned, or of the one under way,
\* which has served that stream's consumer.
Attributed(p) ==
  \A c \in Consumers, n \in Nat : <<p, n>> \in Delivered(c) =>
    \/ n <= Len(result[p])
    \/ n = Len(result[p]) + 1 /\ Sending(p) /\ c \in Served(p)

\* The call under way reached everybody it served, except where a channel was full.
Reached(p) == Sending(p) => \A c \in Served(p) \ overflow : Current(p) \in Delivered(c)

CallsOf(p) ==
  /\ ~Sending(p) => next[p] = 1
  /\ Attributed(p)
  /\ Reached(p)
  /\ \A n \in DOMAIN result[p] : OutcomeHolds(p, n)

StreamInv == BrokerInv /\ SubscribedOnce /\ \A p \in Publishers : CallsOf(p)


\* Every event in a stream is one of the bounded calls.
LEMMA StreamType ==
  ASSUME BrokerInv, NEW c \in Consumers
  PROVE  Stream(c) \in Seq(Event) /\ Delivered(c) \subseteq Event
<1>1. taken[c] \in Seq(Event) /\ buf[c] \in Seq(Event)
  BY DEF BrokerInv, TypeOK
<1>2. Stream(c) \in Seq(Event)
  BY <1>1 DEF Stream
<1>. QED
  BY <1>2 DEF Delivered, Range

\* What an append does to the elements of a sequence.
LEMMA AppendRange ==
  ASSUME NEW S, NEW s \in Seq(S), NEW e \in S
  PROVE  Range(Append(s, e)) = Range(s) \cup {e}
<1>1. DOMAIN s = 1..Len(s) /\ DOMAIN Append(s, e) = 1..(Len(s) + 1) /\ Len(s) \in Nat
  OBVIOUS
<1>2. (\A i \in 1..Len(s) : Append(s, e)[i] = s[i]) /\ Append(s, e)[Len(s) + 1] = e
  OBVIOUS
<1>3. Range(Append(s, e)) \subseteq Range(s) \cup {e}
  BY <1>1, <1>2 DEF Range
<1>4. Range(s) \subseteq Range(Append(s, e))
  BY <1>1, <1>2 DEF Range
<1>5. e \in Range(Append(s, e))
  BY <1>1, <1>2 DEF Range
<1>. QED
  BY <1>3, <1>4, <1>5

LEMMA AppendAfter ==
  ASSUME NEW S, NEW t \in Seq(S), NEW b \in Seq(S), NEW e \in S
  PROVE  t \o Append(b, e) = Append(t \o b, e)
<1>. DEFINE lhs == t \o Append(b, e)
            rhs == Append(t \o b, e)
<1>1. lhs \in Seq(S) /\ rhs \in Seq(S) /\ Len(lhs) = Len(rhs)
  OBVIOUS
<1>2. ASSUME NEW i \in 1..Len(rhs) PROVE lhs[i] = rhs[i]
  <2>1. CASE i <= Len(t)
    BY <2>1
  <2>2. CASE i > Len(t) /\ i <= Len(t) + Len(b)
    BY <2>2
  <2>3. CASE i = Len(t) + Len(b) + 1
    BY <2>3
  <2>. QED
    BY <2>1, <2>2, <2>3
<1>. QED
  BY <1>1, <1>2

\* A delivery appends the event to the target's stream and to no other.
LEMMA DeliverStreams ==
  ASSUME BrokerInv, NEW p \in Publishers, Deliver(p), NEW c \in Consumers
  PROVE  /\ Stream(c)' = IF c = Target(p) THEN Append(Stream(c), Current(p)) ELSE Stream(c)
         /\ Delivered(c)' = IF c = Target(p) THEN Delivered(c) \cup {Current(p)} ELSE Delivered(c)
<1>1. taken[c] \in Seq(Event) /\ buf[c] \in Seq(Event) /\ buf \in [Consumers -> Seq(Event)]
  BY DEF BrokerInv, TypeOK
<1>2. Target(p) \in Consumers /\ Current(p) \in Event
  BY TargetType DEF Deliver
<1>3. taken' = taken /\ buf' = [buf EXCEPT ![Target(p)] = Append(@, Current(p))]
  BY DEF Deliver
<1>4. CASE c = Target(p)
  <2>1. buf'[c] = Append(buf[c], Current(p))
    BY <1>1, <1>3, <1>4
  <2>2. Stream(c)' = Append(Stream(c), Current(p))
    <3>1. Stream(c)' = taken[c] \o Append(buf[c], Current(p))
      BY <1>3, <2>1 DEF Stream
    <3>2. \A t \in Seq(Event), b \in Seq(Event), e \in Event :
            t \o Append(b, e) = Append(t \o b, e)
      BY AppendAfter
    <3>3. taken[c] \o Append(buf[c], Current(p)) = Append(taken[c] \o buf[c], Current(p))
      BY <1>1, <1>2, <3>2
    <3>. QED
      BY <3>1, <3>3 DEF Stream
  <2>3. Stream(c) \in Seq(Event)
    BY StreamType
  <2>. QED
    BY <1>2, <1>4, <2>2, <2>3, AppendRange DEF Delivered
<1>5. CASE c # Target(p)
  BY <1>1, <1>3, <1>5 DEF Stream, Delivered
<1>. QED
  BY <1>4, <1>5

\* A receive moves one event from the channel to its consumer.
LEMMA ReceiveStreams ==
  ASSUME BrokerInv, NEW d \in Consumers, Receive(d), NEW c \in Consumers
  PROVE  Stream(c)' = Stream(c)
<1>1. taken[d] \in Seq(Event) /\ buf[d] \in Seq(Event) /\ buf[d] # <<>>
  BY DEF Receive, BrokerInv, TypeOK
<1>2. CASE c = d
  <2>1. buf'[c] = Tail(buf[c]) /\ taken'[c] = Append(taken[c], Head(buf[c]))
    BY <1>2 DEF Receive, BrokerInv, TypeOK
  <2>2. Append(taken[c], Head(buf[c])) \o Tail(buf[c]) = taken[c] \o buf[c]
    BY <1>1, <1>2, ReceiveKeepsStream
  <2>. QED
    BY <2>1, <2>2 DEF Stream
<1>3. CASE c # d
  BY <1>3 DEF Receive, Stream, BrokerInv, TypeOK
<1>. QED
  BY <1>2, <1>3

\* Only a delivery changes a stream.
LEMMA QuietStreams ==
  ASSUME BrokerInv, [Next]_vars, ~ \E p \in Publishers : Deliver(p), NEW c \in Consumers
  PROVE  Stream(c)' = Stream(c) /\ Delivered(c)' = Delivered(c)
<1>1. CASE UNCHANGED <<buf, taken>>
  BY <1>1 DEF Stream, Delivered
<1>2. CASE \E d \in Consumers : Receive(d)
  BY <1>2, ReceiveStreams DEF Delivered
<1>. QED
  BY <1>1, <1>2
  DEF Next, Publish, PublishClosed, Drop, Abandon, Finish, Cancel, Lock, Subscribe,
      SubscribeClosed, EndOfStream, Quit, Close, CloseAgain, chanVars, vars

\* After Close no channel gains or loses an event but by its consumer taking it.
THEOREM BrokerSealed == Spec => Sealed
<1>1. BrokerInv /\ [Next]_vars =>
        [closed => \A c \in Consumers : Stream(c)' = Stream(c)]_vars
  <2>. SUFFICES ASSUME BrokerInv, Next, closed, NEW c \in Consumers
                PROVE  Stream(c)' = Stream(c)
    OBVIOUS
  <2>1. ~ \E p \in Publishers : Deliver(p)
    BY DEF BrokerInv, OpenWhileSending, Deliver, Pending
  <2>. QED
    BY <2>1, QuietStreams
<1>. QED
  BY <1>1, BrokerAlways, PTL DEF Spec, Sealed

-------------------------------------------------------------------------------
(* The invariant on streams, step by step. *)

\* A publisher step leaves the subscriptions alone; so does all that holds no lock.
LEMMA SubscribedOnceStep ==
  ASSUME BrokerInv, SubscribedOnce, [Next]_vars
  PROVE  SubscribedOnce'
<1>1. CASE UNCHANGED <<subs, consumer, writer>>
  BY <1>1 DEF SubscribedOnce, Channels
<1>2. ASSUME NEW c \in Consumers, Lock(c) PROVE SubscribedOnce'
  <2>1. UNCHANGED <<subs, consumer>> /\ writer' = c
    BY <1>2 DEF Lock
  <2>2. consumer[c] = "new"
    BY <1>2, BrokerAssumption DEF Lock, BrokerAssumption
  <2>. QED
    BY <2>1, <2>2 DEF SubscribedOnce, Channels
<1>3. ASSUME NEW c \in Consumers, NEW t \in Topics, Subscribe(c, t) PROVE SubscribedOnce'
  <2>1. /\ subs' = [subs EXCEPT ![t] = Append(@, c)]
        /\ consumer' = [consumer EXCEPT ![c] = "reading"]
        /\ writer' = None
        /\ consumer[c] = "new" /\ c \notin Channels
    BY <1>3 DEF Subscribe, HoldsWriteLock, SubscribedOnce
  <2>2. subs[t] \in Seq(Consumers) /\ subs \in [Topics -> Seq(Consumers)]
    BY DEF BrokerInv, TypeOK
  <2>3. c \notin Range(subs[t])
    BY <2>1 DEF Channels
  <2>4. \A s \in Topics : \A i, j \in DOMAIN subs'[s] : subs'[s][i] = subs'[s][j] => i = j
    <3>. SUFFICES ASSUME NEW s \in Topics, NEW i \in DOMAIN subs'[s], NEW j \in DOMAIN subs'[s],
                         subs'[s][i] = subs'[s][j]
                  PROVE  i = j
      OBVIOUS
    <3>1. CASE s = t
      <4>1. subs'[s] = Append(subs[t], c)
        BY <2>1, <2>2, <3>1
      <4>2. /\ DOMAIN subs[t] = 1..Len(subs[t]) /\ Len(subs[t]) \in Nat
            /\ DOMAIN subs'[s] = 1..(Len(subs[t]) + 1)
            /\ \A k \in 1..Len(subs[t]) : subs'[s][k] = subs[t][k] /\ subs[t][k] # c
            /\ subs'[s][Len(subs[t]) + 1] = c
        BY <2>2, <2>3, <4>1 DEF Range
      <4>. QED
        BY <4>2 DEF SubscribedOnce
    <3>2. CASE s # t
      BY <2>1, <2>2, <3>2 DEF SubscribedOnce
    <3>. QED
      BY <3>1, <3>2
  <2>5. Channels' = Channels \cup {c}
    <3>1. Range(subs'[t]) = Range(subs[t]) \cup {c}
      BY <2>1, <2>2, AppendRange
    <3>2. \A s \in Topics \ {t} : subs'[s] = subs[s]
      BY <2>1, <2>2
    <3>. QED
      BY <3>1, <3>2 DEF Channels
  <2>6. \A d \in Consumers : d \in Channels' <=> consumer'[d] \in {"reading", "ended", "quit"}
    BY <2>1, <2>5 DEF SubscribedOnce, BrokerInv, TypeOK
  <2>. QED
    BY <2>1, <2>4, <2>6, BrokerAssumption DEF SubscribedOnce, BrokerAssumption
<1>4. ASSUME NEW c \in Consumers, SubscribeClosed(c) PROVE SubscribedOnce'
  BY <1>4, BrokerAssumption
  DEF SubscribeClosed, HoldsWriteLock, SubscribedOnce, Channels, BrokerInv, TypeOK, BrokerAssumption
<1>5. ASSUME NEW c \in Consumers, EndOfStream(c) \/ Quit(c) PROVE SubscribedOnce'
  <2>1. /\ UNCHANGED <<subs, writer>> /\ consumer[c] = "reading"
        /\ \E s \in {"ended", "quit"} : consumer' = [consumer EXCEPT ![c] = s]
    BY <1>5 DEF EndOfStream, Quit, lockVars
  <2>. QED
    BY <2>1 DEF SubscribedOnce, Channels, BrokerInv, TypeOK
<1>6. ASSUME NEW k \in Closers, Lock(k) \/ Close(k) \/ CloseAgain(k) PROVE SubscribedOnce'
  <2>1. UNCHANGED <<subs, consumer>> /\ writer' \in Closers \cup {None}
    BY <1>6 DEF Lock, Close, CloseAgain
  <2>. QED
    BY <2>1, BrokerAssumption DEF SubscribedOnce, Channels, BrokerAssumption
<1>. QED
  BY <1>1, <1>2, <1>3, <1>4, <1>5, <1>6
  DEF Next, Publish, PublishClosed, Deliver, Drop, Abandon, Finish, Cancel, Receive, vars, lockVars


-------------------------------------------------------------------------------
(* The invariant on calls, step by step. *)

\* The step neither touches the calls of q nor adds or takes away an event of q.
Undisturbed(q) ==
  /\ pc'[q] = pc[q] /\ topic'[q] = topic[q] /\ next'[q] = next[q] /\ result'[q] = result[q]
  /\ subs'[topic[q]] = subs[topic[q]]
  /\ overflow \subseteq overflow'
  /\ \A c \in Consumers, n \in Nat : <<q, n>> \in Delivered(c)' <=> <<q, n>> \in Delivered(c)

LEMMA OutcomeKept ==
  ASSUME BrokerInv, NEW q \in Publishers, NEW n \in DOMAIN result[q], OutcomeHolds(q, n),
         result'[q][n] = result[q][n], overflow \subseteq overflow',
         \A c \in Consumers : <<q, n>> \in Delivered(c)' <=> <<q, n>> \in Delivered(c)
  PROVE  OutcomeHolds(q, n)'
<1>1. result[q][n].to \subseteq Consumers
  <2>1. result[q] \in Seq(Outcome)
    BY DEF BrokerInv, TypeOK
  <2>2. result[q][n] \in Outcome
    BY <2>1
  <2>. QED
    BY <2>2 DEF Outcome
<1>. QED
  BY <1>1 DEF OutcomeHolds

LEMMA UndisturbedCalls ==
  ASSUME BrokerInv, NEW q \in Publishers, CallsOf(q), Undisturbed(q)
  PROVE  CallsOf(q)'
<1>1. (Sending(q)' <=> Sending(q)) /\ Served(q)' = Served(q) /\ Current(q)' = Current(q)
  BY DEF Undisturbed, Sending, Served, Current
<1>2. Len(result[q]) + 1 \in Nat /\ Served(q) \subseteq Consumers /\ DOMAIN result[q] \subseteq Nat
  BY DEF BrokerInv, TypeOK, Served
<1>3. \A n \in DOMAIN result'[q] : OutcomeHolds(q, n)'
  BY <1>2, OutcomeKept DEF CallsOf, Undisturbed
<1>4. Sending(q)' => \A c \in Served(q)' \ overflow' : Current(q)' \in Delivered(c)'
  BY <1>1, <1>2 DEF CallsOf, Reached, Undisturbed, Current
<1>5. ASSUME NEW c \in Consumers, NEW n \in Nat, <<q, n>> \in Delivered(c)'
      PROVE  n <= Len(result'[q]) \/ (n = Len(result'[q]) + 1 /\ Sending(q)' /\ c \in Served(q)')
  <2>1. <<q, n>> \in Delivered(c) /\ result'[q] = result[q]
    BY <1>5 DEF Undisturbed
  <2>2. n <= Len(result[q]) \/ (n = Len(result[q]) + 1 /\ Sending(q) /\ c \in Served(q))
    BY <2>1 DEF CallsOf, Attributed
  <2>. QED
    BY <1>1, <2>1, <2>2
<1>6. ~Sending(q)' => next'[q] = 1
  BY <1>1 DEF CallsOf, Undisturbed
<1>. QED
  BY <1>3, <1>4, <1>5, <1>6 DEF CallsOf, Attributed, Reached

\* A step that delivers nothing, for the publishers whose calls it does not touch.
LEMMA OtherCalls ==
  ASSUME StreamInv, [Next]_vars, NEW q \in Publishers,
         ~ \E r \in Publishers : Deliver(r),
         pc'[q] = pc[q], topic'[q] = topic[q], next'[q] = next[q], result'[q] = result[q],
         subs' = subs, overflow \subseteq overflow'
  PROVE  CallsOf(q)'
<1>1. \A c \in Consumers : Delivered(c)' = Delivered(c)
  BY QuietStreams DEF StreamInv
<1>. QED
  BY <1>1, UndisturbedCalls DEF StreamInv, Undisturbed

\* Publish: the call has served nobody yet.
LEMMA PublishCalls ==
  ASSUME StreamInv, NEW p \in Publishers, NEW t \in Topics, Publish(p, t)
  PROVE  CallsOf(p)'
<1>1. /\ ~Sending(p) /\ Sending(p)' /\ next'[p] = 1 /\ UNCHANGED <<subs, overflow, result>>
      /\ UNCHANGED <<buf, taken>>
  BY DEF Publish, Sending, StreamInv, CallsOf, BrokerInv, TypeOK, chanVars
<1>2. Served(p)' = {}
  BY <1>1 DEF Served
<1>3. \A c \in Consumers : Delivered(c)' = Delivered(c)
  BY <1>1 DEF Delivered, Stream
<1>4. \A n \in DOMAIN result'[p] : OutcomeHolds(p, n)'
  BY <1>1, <1>3, OutcomeKept DEF StreamInv, CallsOf
<1>5. \A c \in Consumers, n \in Nat : <<p, n>> \in Delivered(c)' => n <= Len(result'[p])
  BY <1>1, <1>3 DEF StreamInv, CallsOf, Attributed
<1>. QED
  BY <1>1, <1>2, <1>4, <1>5 DEF CallsOf, Attributed, Reached

\* A call that returns: its outcome holds if it holds of the event it carried.
LEMMA ReturnCalls ==
  ASSUME StreamInv, NEW p \in Publishers, NEW err \in {"nil", "closed", "ctx"}, NEW to \in SUBSET Consumers,
         result' = [result EXCEPT ![p] = Append(@, [err |-> err, to |-> to])],
         ~Sending(p)', next'[p] = 1,
         UNCHANGED <<subs, overflow, buf, taken>>,
         err = "nil" => \A c \in to \ overflow : Current(p) \in Delivered(c),
         err = "closed" => \A c \in Consumers : Current(p) \notin Delivered(c),
         err = "ctx" => /\ \A c \in Consumers : Current(p) \in Delivered(c) => c \in to
                        /\ \E c \in to : Current(p) \notin Delivered(c)
  PROVE  CallsOf(p)'
<1>. DEFINE k == Len(result[p]) + 1
<1>1. result[p] \in Seq(Outcome) /\ [err |-> err, to |-> to] \in Outcome
  BY DEF StreamInv, BrokerInv, TypeOK, Outcome
<1>2. result'[p] = Append(result[p], [err |-> err, to |-> to])
  BY DEF StreamInv, BrokerInv, TypeOK
<1>3. /\ DOMAIN result'[p] = 1..k /\ Len(result'[p]) = k /\ k \in Nat
      /\ DOMAIN result[p] = 1..(k - 1) /\ Len(result[p]) = k - 1
      /\ \A n \in 1..(k - 1) : result'[p][n] = result[p][n]
      /\ result'[p][k] = [err |-> err, to |-> to]
  BY <1>1, <1>2
<1>4. \A c \in Consumers : Delivered(c)' = Delivered(c)
  BY DEF Delivered, Stream
<1>5. \A c \in Consumers, n \in Nat : <<p, n>> \in Delivered(c)' => n <= Len(result'[p])
  BY <1>3, <1>4 DEF StreamInv, CallsOf, Attributed
<1>6. ASSUME NEW n \in DOMAIN result'[p] PROVE OutcomeHolds(p, n)'
  <2>1. CASE n \in 1..(k - 1)
    BY <1>3, <1>4, <2>1, OutcomeKept DEF StreamInv, CallsOf
  <2>2. CASE n = k
    <3>1. result'[p][n].err = err /\ result'[p][n].to = to /\ <<p, n>> = Current(p)
      BY <1>3, <2>2 DEF Current
    <3>2. err = "nil" => \A c \in to \ overflow' : <<p, n>> \in Delivered(c)'
      BY <1>4, <3>1
    <3>3. /\ err = "closed" => \A c \in Consumers : <<p, n>> \notin Delivered(c)'
          /\ err = "ctx" => /\ \A c \in Consumers : <<p, n>> \in Delivered(c)' => c \in to
                            /\ \E c \in to : <<p, n>> \notin Delivered(c)'
      BY <1>4, <3>1
    <3>. QED
      BY <3>1, <3>2, <3>3 DEF OutcomeHolds
  <2>. QED
    BY <1>3, <2>1, <2>2
<1>. QED
  BY <1>5, <1>6 DEF CallsOf, Attributed, Reached

\* The subscribers behind the loop's index: none at the start, all at the end.
LEMMA ServedBySending ==
  ASSUME StreamInv, NEW p \in Publishers, Sending(p)
  PROVE  /\ Served(p) \subseteq Audience(p) /\ Audience(p) \subseteq Consumers
         /\ Pending(p) => Target(p) \in Audience(p) \ Served(p)
         /\ ~Pending(p) => Served(p) = Audience(p)
<1>. DEFINE s == subs[topic[p]]
<1>1. /\ s \in Seq(Consumers) /\ Len(s) \in Nat /\ DOMAIN s = 1..Len(s)
      /\ \A i \in DOMAIN s : s[i] \in Consumers
      /\ \A i, j \in DOMAIN s : s[i] = s[j] => i = j
  BY DEF StreamInv, BrokerInv, TypeOK, SubscribedOnce
<1>2. next[p] \in Nat \ {0}
  BY DEF StreamInv, BrokerInv, TypeOK
<1>3. /\ Served(p) = {s[i] : i \in 1..(next[p] - 1) \cap DOMAIN s}
      /\ Audience(p) = {s[i] : i \in DOMAIN s}
      /\ Pending(p) <=> next[p] <= Len(s)
      /\ Target(p) = s[next[p]]
  BY DEF Served, Audience, Range, Pending, Target
<1>. HIDE DEF s
<1>4. Served(p) \subseteq Audience(p) /\ Audience(p) \subseteq Consumers
  BY <1>1, <1>3
<1>5. ASSUME Pending(p) PROVE Target(p) \in Audience(p) \ Served(p)
  <2>1. next[p] \in DOMAIN s
    BY <1>1, <1>2, <1>3, <1>5
  <2>2. \A i \in 1..(next[p] - 1) \cap DOMAIN s : s[i] # s[next[p]]
    BY <1>1, <1>2, <2>1
  <2>. QED
    BY <1>3, <2>1, <2>2
<1>6. ASSUME ~Pending(p) PROVE Served(p) = Audience(p)
  <2>1. 1..(next[p] - 1) \cap DOMAIN s = DOMAIN s
    BY <1>1, <1>2, <1>3, <1>6
  <2>. QED
    BY <1>3, <2>1
<1>. QED
  BY <1>4, <1>5, <1>6

\* The loop moves on: the target has been served.
LEMMA ServedGrows ==
  ASSUME StreamInv, NEW p \in Publishers, Pending(p), Advance(p), UNCHANGED <<subs, topic>>
  PROVE  Served(p)' = Served(p) \cup {Target(p)}
<1>. DEFINE s == subs[topic[p]]
            k == next[p]
<1>1. Len(s) \in Nat /\ DOMAIN s = 1..Len(s) /\ k \in Nat \ {0} /\ k <= Len(s)
  BY DEF StreamInv, BrokerInv, TypeOK, Pending
<1>2. next'[p] = k + 1
  BY DEF StreamInv, BrokerInv, TypeOK, Advance
<1>3. 1..((k + 1) - 1) \cap DOMAIN s = (1..(k - 1) \cap DOMAIN s) \cup {k}
  BY <1>1
<1>4. /\ Served(p) = {s[i] : i \in 1..(k - 1) \cap DOMAIN s}
      /\ Served(p)' = {s[i] : i \in 1..((k + 1) - 1) \cap DOMAIN s}
      /\ Target(p) = s[k]
  BY <1>2 DEF Served, Target
<1>. HIDE DEF s, k
<1>. QED
  BY <1>3, <1>4

\* A delivery or a drop serves the target, and leaves every other call as it is.
LEMMA ServeCalls ==
  ASSUME StreamInv, NEW p \in Publishers, Deliver(p) \/ Drop(p)
  PROVE  \A q \in Publishers : CallsOf(q)'
<1>1. /\ Pending(p) /\ Sending(p) /\ Advance(p) /\ UNCHANGED <<subs, topic, pc, result>>
      /\ overflow \subseteq overflow'
      /\ Deliver(p) \/ (Drop(p) /\ Target(p) \in overflow')
  BY DEF Deliver, Drop, Pending
<1>2. Served(p)' = Served(p) \cup {Target(p)} /\ Target(p) \in Consumers
  BY <1>1, ServedGrows, TargetType DEF StreamInv
<1>3. \A c \in Consumers :
        \/ Delivered(c)' = Delivered(c)
        \/ Delivered(c)' = Delivered(c) \cup {Current(p)} /\ c = Target(p)
  <2>1. CASE Deliver(p)
    BY <2>1, DeliverStreams DEF StreamInv
  <2>2. CASE Drop(p)
    BY <2>2 DEF Drop, Delivered, Stream
  <2>. QED
    BY <2>1, <2>2
<1>4. ASSUME Deliver(p), NEW c \in Consumers, c = Target(p) PROVE Current(p) \in Delivered(c)'
  BY <1>4, DeliverStreams DEF StreamInv
<1>5. Current(p) = <<p, Len(result[p]) + 1>> /\ Len(result[p]) \in Nat /\ DOMAIN result[p] = 1..Len(result[p])
  BY DEF Current, StreamInv, BrokerInv, TypeOK
<1>6. ASSUME NEW q \in Publishers \ {p} PROVE CallsOf(q)'
  <2>1. next'[q] = next[q]
    BY <1>1 DEF Advance, StreamInv, BrokerInv, TypeOK
  <2>2. \A c \in Consumers, n \in Nat : <<q, n>> \in Delivered(c)' <=> <<q, n>> \in Delivered(c)
    BY <1>3, <1>5
  <2>. QED
    BY <1>1, <2>1, <2>2, UndisturbedCalls DEF Undisturbed, StreamInv
<1>7. Attributed(p)'
  <2>. SUFFICES ASSUME NEW c \in Consumers, NEW n \in Nat, <<p, n>> \in Delivered(c)'
                PROVE  n <= Len(result[p]) \/ (n = Len(result[p]) + 1 /\ c \in Served(p)')
    BY <1>1 DEF Attributed, Sending
  <2>1. CASE <<p, n>> \in Delivered(c)
    BY <1>2, <2>1 DEF StreamInv, CallsOf, Attributed
  <2>2. CASE <<p, n>> = Current(p) /\ c = Target(p)
    BY <1>2, <1>5, <2>2
  <2>. QED
    BY <1>3, <2>1, <2>2
<1>8. Reached(p)'
  <2>. SUFFICES ASSUME NEW c \in Served(p)', c \notin overflow'
                PROVE  Current(p) \in Delivered(c)'
    BY <1>1 DEF Reached, Current
  <2>1. Served(p) \subseteq Consumers
    BY <1>1, ServedBySending
  <2>2. CASE c \in Served(p)
    <3>1. Current(p) \in Delivered(c)
      BY <1>1, <2>2 DEF StreamInv, CallsOf, Reached
    <3>. QED
      BY <1>3, <2>1, <2>2, <3>1
  <2>3. CASE c = Target(p)
    BY <1>1, <1>2, <1>4, <2>3
  <2>. QED
    BY <1>2, <2>2, <2>3
<1>9. \A n \in DOMAIN result'[p] : OutcomeHolds(p, n)'
  <2>. SUFFICES ASSUME NEW n \in DOMAIN result[p] PROVE OutcomeHolds(p, n)'
    BY <1>1
  <2>1. <<p, n>> # Current(p)
    BY <1>5
  <2>2. \A c \in Consumers : <<p, n>> \in Delivered(c)' <=> <<p, n>> \in Delivered(c)
    BY <1>3, <2>1
  <2>. QED
    BY <1>1, <2>2, OutcomeKept DEF StreamInv, CallsOf
<1>10. CallsOf(p)'
  BY <1>1, <1>7, <1>8, <1>9 DEF CallsOf, Sending
<1>. QED
  BY <1>6, <1>10

\* The call that returns nil served everybody; one whose context ended, not its target.
LEMMA ReturningCalls ==
  ASSUME StreamInv, NEW p \in Publishers, Abandon(p) \/ Finish(p)
  PROVE  CallsOf(p)'
<1>1. Sending(p) /\ UNCHANGED <<subs, overflow, buf, taken>>
  BY DEF Abandon, Finish, Pending, chanVars
<1>2. ASSUME NEW err, Return(p, err)
      PROVE  /\ result' = [result EXCEPT ![p] = Append(@, [err |-> err, to |-> Audience(p)])]
             /\ ~Sending(p)' /\ next'[p] = 1
  BY <1>2 DEF Return, Sending, StreamInv, BrokerInv, TypeOK
<1>3. Audience(p) \in SUBSET Consumers
  BY <1>1, ServedBySending
<1>4. CASE Finish(p)
  <2>1. Served(p) = Audience(p)
    BY <1>1, <1>4, ServedBySending DEF Finish
  <2>2. \A c \in Audience(p) \ overflow : Current(p) \in Delivered(c)
    BY <1>1, <2>1 DEF StreamInv, CallsOf, Reached
  <2>. QED
    BY <1>1, <1>2, <1>3, <1>4, <2>2, ReturnCalls DEF Finish
<1>5. CASE Abandon(p)
  <2>1. Pending(p) /\ Return(p, "ctx")
    BY <1>5 DEF Abandon
  <2>2. Current(p) = <<p, Len(result[p]) + 1>> /\ Len(result[p]) \in Nat
    BY DEF Current, StreamInv, BrokerInv, TypeOK
  <2>3. \A c \in Consumers : Current(p) \in Delivered(c) => c \in Served(p)
    BY <2>2 DEF StreamInv, CallsOf, Attributed
  <2>4. \A c \in Consumers : Current(p) \in Delivered(c) => c \in Audience(p)
    BY <1>1, <2>3, ServedBySending
  <2>5. \E c \in Audience(p) : Current(p) \notin Delivered(c)
    BY <1>1, <1>3, <2>1, <2>3, ServedBySending
  <2>. QED
    BY <1>1, <1>2, <1>3, <2>1, <2>4, <2>5, ReturnCalls
<1>. QED
  BY <1>4, <1>5

\* The refused call leaves no event anywhere.
LEMMA RefusedCalls ==
  ASSUME StreamInv, NEW p \in Publishers, NEW t \in Topics, PublishClosed(p, t)
  PROVE  CallsOf(p)'
<1>1. ~Sending(p) /\ ~Sending(p)' /\ next'[p] = 1 /\ UNCHANGED <<subs, overflow, buf, taken>>
  BY DEF PublishClosed, Sending, StreamInv, CallsOf, chanVars
<1>2. Range(subs[t]) \in SUBSET Consumers
  BY AudienceType DEF StreamInv
<1>3. Current(p) = <<p, Len(result[p]) + 1>> /\ Len(result[p]) \in Nat
  BY DEF Current, StreamInv, BrokerInv, TypeOK
<1>4. \A c \in Consumers : Current(p) \notin Delivered(c)
  BY <1>1, <1>3 DEF StreamInv, CallsOf, Attributed
<1>. QED
  BY <1>1, <1>2, <1>4, ReturnCalls DEF PublishClosed

\* Nobody is publishing while a consumer subscribes.
LEMMA SubscribeCalls ==
  ASSUME StreamInv, NEW c \in Consumers, NEW t \in Topics, Subscribe(c, t), NEW q \in Publishers
  PROVE  CallsOf(q)'
<1>1. ~Sending(q) /\ ~Sending(q)' /\ next'[q] = next[q] /\ UNCHANGED <<overflow, result, buf, taken>>
  BY DEF Subscribe, HoldsWriteLock, Sending, callVars, chanVars
<1>2. \A d \in Consumers : Delivered(d)' = Delivered(d)
  BY <1>1 DEF Delivered, Stream
<1>3. \A n \in DOMAIN result'[q] : OutcomeHolds(q, n)'
  BY <1>1, <1>2, OutcomeKept DEF StreamInv, CallsOf
<1>4. Attributed(q)' /\ Reached(q)'
  BY <1>1, <1>2 DEF StreamInv, CallsOf, Attributed, Reached
<1>. QED
  BY <1>1, <1>3, <1>4 DEF StreamInv, CallsOf

LEMMA StreamStart == Init => StreamInv
<1>. SUFFICES ASSUME Init PROVE StreamInv
  OBVIOUS
<1>1. BrokerInv
  BY BrokerStart
<1>2. SubscribedOnce
  BY BrokerAssumption DEF Init, SubscribedOnce, Channels, Range, BrokerAssumption
<1>3. \A c \in Consumers : Delivered(c) = {}
  BY DEF Init, Delivered, Stream, Range
<1>4. \A p \in Publishers : CallsOf(p)
  BY <1>3 DEF Init, CallsOf, Attributed, Reached, Sending
<1>. QED
  BY <1>1, <1>2, <1>4 DEF StreamInv

LEMMA StreamStep == ASSUME StreamInv, [Next]_vars PROVE StreamInv'
<1>. USE DEF StreamInv
<1>1. BrokerInv' /\ SubscribedOnce'
  BY BrokerStep, SubscribedOnceStep
<1>. SUFFICES ASSUME NEW q \in Publishers PROVE CallsOf(q)'
  BY <1>1
<1>2. CASE \E p \in Publishers : Deliver(p) \/ Drop(p)
  BY <1>2, ServeCalls
<1>3. CASE \E c \in Consumers, t \in Topics : Subscribe(c, t)
  BY <1>3, SubscribeCalls
<1>4. CASE UNCHANGED <<pc, topic, next, result, subs, overflow>> /\ ~ \E p \in Publishers : Deliver(p)
  BY <1>4, OtherCalls
<1>5. ASSUME NEW p \in Publishers, ~ \E r \in Publishers : Deliver(r),
             (\E t \in Topics : Publish(p, t) \/ PublishClosed(p, t)) \/ Abandon(p) \/ Finish(p)
      PROVE  CallsOf(q)'
  <2>1. CASE q = p
    BY <1>5, <2>1, PublishCalls, RefusedCalls, ReturningCalls
  <2>2. CASE q # p
    <3>1. /\ pc'[q] = pc[q] /\ topic'[q] = topic[q] /\ next'[q] = next[q] /\ result'[q] = result[q]
          /\ UNCHANGED <<subs, overflow>>
      BY <1>5, <2>2
      DEF Publish, PublishClosed, Abandon, Finish, Return, chanVars, BrokerInv, TypeOK
    <3>. QED
      BY <1>5, <3>1, OtherCalls
  <2>. QED
    BY <2>1, <2>2
<1>6. CASE (\E p \in Publishers : Deliver(p) \/ Drop(p)) \/ (\E c \in Consumers, t \in Topics : Subscribe(c, t))
           \/ UNCHANGED <<pc, topic, next, result, subs, overflow>>
           \/ \E p \in Publishers :
                (\E t \in Topics : Publish(p, t) \/ PublishClosed(p, t)) \/ Abandon(p) \/ Finish(p)
  BY <1>2, <1>3, <1>4, <1>5, <1>6
<1>. QED
  BY <1>6
  DEF Next, Cancel, Lock, SubscribeClosed, Receive, EndOfStream, Quit, Close, CloseAgain, vars,
      callVars, chanVars

LEMMA StreamAlways == Spec => []StreamInv
BY StreamStart, StreamStep, PTL DEF Spec

\* PublishRaw and PublishScreened that return nil reached every subscriber whose buffer
\* never was full, whatever the other publishers, consumers and closers did meanwhile.
THEOREM BrokerLossless == Spec => []LosslessUntilOverflow
<1>1. StreamInv => LosslessUntilOverflow
  BY DEF StreamInv, CallsOf, OutcomeHolds, LosslessUntilOverflow, Delivered
<1>. QED
  BY <1>1, StreamAlways, PTL

\* A publish refused by a closed broker left its event in no channel, and one whose
\* context ended left it out of at least one that it was meant for.
THEOREM BrokerFailedUndelivered == Spec => []FailedMeansUndelivered
<1>1. StreamInv => FailedMeansUndelivered
  BY DEF StreamInv, CallsOf, OutcomeHolds, FailedMeansUndelivered, Delivered
<1>. QED
  BY <1>1, StreamAlways, PTL

-------------------------------------------------------------------------------
(* The broker implements EventBus. *)


LEMMA BusStart == Init => Bus!Init
<1>. SUFFICES ASSUME Init PROVE Bus!Init
  OBVIOUS
<1>1. closed = FALSE /\ subs = [t \in Topics |-> <<>>] /\ consumer = [c \in Consumers |-> "new"]
      /\ buf = [c \in Consumers |-> <<>>] /\ taken = [c \in Consumers |-> <<>>]
  BY DEF Init
<1>2. Channels = {}
  BY <1>1 DEF Channels, Range
<1>3. [c \in Consumers |-> Stream(c)] = [c \in Consumers |-> <<>>]
  BY <1>1 DEF Stream
<1>4. [c \in Consumers |-> Len(taken[c])] = [c \in Consumers |-> 0]
  BY <1>1
<1>5. {c \in Consumers : consumer[c] = "ended"} = {}
  BY <1>1
<1>. QED
  BY <1>1, <1>2, <1>3, <1>4, <1>5 DEF Bus!Init

\* An event is later than all of the same publisher that its target's stream holds.
LEMMA DeliverIsFresh ==
  ASSUME StreamInv, NEW p \in Publishers, Pending(p), NEW c \in Consumers, c = Target(p),
         NEW i \in 1..Len(Stream(c)), Stream(c)[i][1] = Current(p)[1]
  PROVE  Stream(c)[i][2] < Current(p)[2]
<1>. DEFINE e == Stream(c)[i]
<1>1. Stream(c) \in Seq(Event)
  BY StreamType DEF StreamInv
<1>2. e \in Event /\ e \in Delivered(c)
  BY <1>1 DEF Delivered, Range
<1>3. Current(p)[1] = p /\ Current(p)[2] = Len(result[p]) + 1 /\ Len(result[p]) \in Nat
  BY DEF Current, StreamInv, BrokerInv, TypeOK
<1>4. e[2] \in Nat /\ e = <<p, e[2]>>
  BY <1>2, <1>3, BrokerAssumption DEF Event, BrokerAssumption
<1>5. c \notin Served(p)
  BY ServedBySending DEF Pending
<1>6. e[2] <= Len(result[p])
  BY <1>2, <1>4, <1>5 DEF StreamInv, CallsOf, Attributed
<1>. QED
  BY <1>3, <1>4, <1>6

LEMMA DeliverOffers ==
  ASSUME StreamInv, NEW p \in Publishers, Deliver(p)
  PROVE  \E c \in Consumers : \E e \in Event : Bus!Offer(e, c)
<1>1. PICK c \in Consumers : c = Target(p)
  BY TargetType DEF Deliver, StreamInv
<1>2. Current(p) \in Event /\ ~closed /\ UNCHANGED <<closed, subs, consumer, taken>> /\ Pending(p)
  BY TargetType DEF Deliver, StreamInv, BrokerInv, OpenWhileSending, Pending
<1>3. c \in Channels
  <2>1. c \in Range(subs[topic[p]]) /\ topic[p] \in Topics
    BY <1>1, <1>2, ServedBySending DEF Audience, Pending, StreamInv, BrokerInv, TypeOK
  <2>. QED
    BY <2>1 DEF Channels
<1>4. Bus!Fresh(Current(p), c)
  BY <1>1, <1>2, DeliverIsFresh DEF Bus!Fresh
<1>5. \A d \in Consumers : Stream(d)' = IF d = c THEN Append(Stream(d), Current(p)) ELSE Stream(d)
  BY <1>1, DeliverStreams DEF StreamInv
<1>6. [d \in Consumers |-> Stream(d)]'
        = [[d \in Consumers |-> Stream(d)] EXCEPT ![c] = Append([d \in Consumers |-> Stream(d)][c], Current(p))]
  BY <1>5
<1>7. /\ Channels' = Channels
      /\ [d \in Consumers |-> Len(taken[d])]' = [d \in Consumers |-> Len(taken[d])]
      /\ {d \in Consumers : consumer[d] = "ended"}' = {d \in Consumers : consumer[d] = "ended"}
  BY <1>2 DEF Channels
<1>8. Bus!Offer(Current(p), c)
  BY <1>2, <1>3, <1>4, <1>6, <1>7 DEF Bus!Offer
<1>. QED
  BY <1>2, <1>8

LEMMA ReceiveTakes ==
  ASSUME StreamInv, NEW c \in Consumers, Receive(c)
  PROVE  Bus!Take(c)
<1>1. /\ taken[c] \in Seq(Event) /\ buf[c] \in Seq(Event) /\ buf[c] # <<>>
      /\ taken \in [Consumers -> Seq(Event)]
      /\ taken' = [taken EXCEPT ![c] = Append(@, Head(buf[c]))]
      /\ UNCHANGED <<closed, subs, consumer>>
  BY DEF Receive, StreamInv, BrokerInv, TypeOK
<1>2. Len(taken[c]) < Len(Stream(c))
  BY <1>1 DEF Stream
<1>3. \A d \in Consumers : Len(taken'[d]) = IF d = c THEN Len(taken[d]) + 1 ELSE Len(taken[d])
  <2>1. Head(buf[c]) \in Event
    BY <1>1
  <2>2. Len(Append(taken[c], Head(buf[c]))) = Len(taken[c]) + 1
    BY <1>1, <2>1
  <2>. QED
    BY <1>1, <2>2
<1>4. [d \in Consumers |-> Len(taken[d])]'
        = [[d \in Consumers |-> Len(taken[d])] EXCEPT ![c] = [d \in Consumers |-> Len(taken[d])][c] + 1]
  BY <1>3
<1>6. /\ Channels' = Channels
      /\ {d \in Consumers : consumer[d] = "ended"}' = {d \in Consumers : consumer[d] = "ended"}
  BY <1>1 DEF Channels
<1>7. [d \in Consumers |-> Stream(d)]' = [d \in Consumers |-> Stream(d)]
  <2>1. \A d \in Consumers : Stream(d)' = Stream(d)
    BY ReceiveStreams DEF StreamInv
  <2>. QED
    BY <2>1
<1>. QED
  BY <1>1, <1>2, <1>4, <1>6, <1>7 DEF Bus!Take

LEMMA EndOfStreamEnds ==
  ASSUME StreamInv, NEW c \in Consumers, EndOfStream(c)
  PROVE  Bus!End(c)
<1>1. /\ consumer[c] = "reading" /\ buf[c] = <<>> /\ c \in shut
      /\ UNCHANGED <<closed, subs, buf, taken>>
      /\ consumer' = [consumer EXCEPT ![c] = "ended"]
  BY DEF EndOfStream, chanVars
<1>2. closed /\ c \in Channels
  BY <1>1 DEF StreamInv, BrokerInv, ShutWhenClosed, SubscribedOnce
<1>3. Len(taken[c]) = Len(Stream(c))
  BY <1>1 DEF Stream, StreamInv, BrokerInv, TypeOK
<1>4. {d \in Consumers : consumer[d] = "ended"}' = {d \in Consumers : consumer[d] = "ended"} \cup {c}
  BY <1>1 DEF StreamInv, BrokerInv, TypeOK
<1>5. /\ Channels' = Channels
      /\ [d \in Consumers |-> Stream(d)]' = [d \in Consumers |-> Stream(d)]
      /\ [d \in Consumers |-> Len(taken[d])]' = [d \in Consumers |-> Len(taken[d])]
  BY <1>1 DEF Channels, Stream
<1>. QED
  BY <1>1, <1>2, <1>3, <1>4, <1>5 DEF Bus!End

LEMMA SubscribeJoins ==
  ASSUME StreamInv, NEW c \in Consumers, NEW t \in Topics, Subscribe(c, t)
  PROVE  Bus!Join(c)
<1>1. /\ ~closed /\ consumer[c] = "new" /\ c \notin Channels
      /\ UNCHANGED <<closed, buf, taken>>
      /\ subs' = [subs EXCEPT ![t] = Append(@, c)]
      /\ consumer' = [consumer EXCEPT ![c] = "reading"]
  BY DEF Subscribe, HoldsWriteLock, StreamInv, SubscribedOnce, chanVars
<1>2. Channels' = Channels \cup {c}
  <2>1. Range(subs'[t]) = Range(subs[t]) \cup {c}
    BY <1>1, AppendRange DEF StreamInv, BrokerInv, TypeOK
  <2>2. \A s \in Topics \ {t} : subs'[s] = subs[s]
    BY <1>1 DEF StreamInv, BrokerInv, TypeOK
  <2>. QED
    BY <2>1, <2>2 DEF Channels
<1>3. /\ [d \in Consumers |-> Stream(d)]' = [d \in Consumers |-> Stream(d)]
      /\ [d \in Consumers |-> Len(taken[d])]' = [d \in Consumers |-> Len(taken[d])]
      /\ {d \in Consumers : consumer[d] = "ended"}' = {d \in Consumers : consumer[d] = "ended"}
  BY <1>1 DEF Stream, StreamInv, BrokerInv, TypeOK
<1>. QED
  BY <1>1, <1>2, <1>3 DEF Bus!Join

LEMMA CloseStops ==
  ASSUME StreamInv, NEW k \in Closers, Close(k)
  PROVE  Bus!Stop
<1>1. ~closed /\ closed' = TRUE /\ UNCHANGED <<subs, consumer, buf, taken>>
  BY DEF Close, chanVars
<1>2. /\ Channels' = Channels
      /\ [d \in Consumers |-> Stream(d)]' = [d \in Consumers |-> Stream(d)]
      /\ [d \in Consumers |-> Len(taken[d])]' = [d \in Consumers |-> Len(taken[d])]
      /\ {d \in Consumers : consumer[d] = "ended"}' = {d \in Consumers : consumer[d] = "ended"}
  BY <1>1 DEF Channels, Stream
<1>. QED
  BY <1>1, <1>2 DEF Bus!Stop

\* All other steps are invisible: no stream, no subscription and no end of a stream.
LEMMA InvisibleSteps ==
  ASSUME StreamInv, UNCHANGED <<closed, subs, buf, taken>>,
         \A c \in Consumers : consumer'[c] = "ended" <=> consumer[c] = "ended"
  PROVE  UNCHANGED Bus!busVars
<1>1. /\ Channels' = Channels
      /\ [d \in Consumers |-> Stream(d)]' = [d \in Consumers |-> Stream(d)]
      /\ [d \in Consumers |-> Len(taken[d])]' = [d \in Consumers |-> Len(taken[d])]
  BY DEF Channels, Stream
<1>2. {d \in Consumers : consumer[d] = "ended"}' = {d \in Consumers : consumer[d] = "ended"}
  OBVIOUS
<1>. QED
  BY <1>1, <1>2 DEF Bus!busVars

LEMMA BusStep == ASSUME StreamInv, [Next]_vars PROVE [Bus!Next]_(Bus!busVars)
<1>1. CASE \E p \in Publishers : Deliver(p)
  BY <1>1, DeliverOffers DEF Bus!Next
<1>2. CASE \E c \in Consumers : \/ Receive(c)
                                \/ EndOfStream(c)
                                \/ \E t \in Topics : Subscribe(c, t)
  BY <1>2, ReceiveTakes, EndOfStreamEnds, SubscribeJoins DEF Bus!Next
<1>3. CASE \E k \in Closers : Close(k)
  BY <1>3, CloseStops DEF Bus!Next
<1>4. CASE UNCHANGED <<closed, subs, buf, taken, consumer>>
  BY <1>4, InvisibleSteps
<1>5. ASSUME NEW c \in Consumers, SubscribeClosed(c) \/ Quit(c) PROVE UNCHANGED Bus!busVars
  <2>1. /\ UNCHANGED <<closed, subs, buf, taken>>
        /\ consumer[c] \in {"new", "reading"}
        /\ \E s \in {"refused", "quit"} : consumer' = [consumer EXCEPT ![c] = s]
    BY <1>5 DEF SubscribeClosed, Quit, HoldsWriteLock, chanVars, StreamInv, SubscribedOnce
  <2>2. \A d \in Consumers : consumer'[d] = "ended" <=> consumer[d] = "ended"
    BY <2>1 DEF StreamInv, BrokerInv, TypeOK
  <2>. QED
    BY <2>1, <2>2, InvisibleSteps
<1>. QED
  BY <1>1, <1>2, <1>3, <1>4, <1>5
  DEF Next, Publish, PublishClosed, Drop, Abandon, Finish, Cancel, Lock, CloseAgain, vars, chanVars

\* The locks, the fan-out loops and the buffers implement the bus the Broker interface
\* promises: no stream repeats an event or reorders those of one publisher, Close seals
\* all of them, and a consumer is told of the end only after it took everything.
THEOREM BrokerImplementsBus == Spec => ImplementsBus
<1>1. Init => Bus!Init
  BY BusStart
<1>2. StreamInv /\ [Next]_vars => [Bus!Next]_(Bus!busVars)
  BY BusStep
<1>. QED
  BY <1>1, <1>2, StreamAlways, PTL DEF Spec, ImplementsBus, Bus!Spec
===============================================================================
