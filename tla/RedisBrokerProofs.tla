--------------------------- MODULE RedisBrokerProofs ---------------------------
(***************************************************************************)
(* Proofs about RedisBroker for every number of publishers and consumers,    *)
(* every capacity of the channels and every bound on retries and calls.     *)
(***************************************************************************)
EXTENDS RedisBroker, SequenceTheorems, TLAPS

CallsBounded == \A p \in Publishers : pub[p] # "idle" => Len(result[p]) < MaxPublish
TypeInv == TypeOK /\ CallsBounded

-------------------------------------------------------------------------------
(* Types. *)

LEMMA CurrentType ==
  ASSUME TypeInv, NEW p \in Publishers, pub[p] # "idle"
  PROVE  Current(p) \in Event
<1>1. result[p] \in Seq(Outcome) /\ Len(result[p]) < MaxPublish
  BY DEF TypeInv, TypeOK, CallsBounded
<1>2. Len(result[p]) + 1 \in 1..MaxPublish
  BY <1>1, RedisAssumption DEF RedisAssumption
<1>. QED
  BY <1>2 DEF Current, Event

LEMMA FanOutType ==
  ASSUME TypeInv, NEW e \in Event, FanOut(e)
  PROVE  wire' \in [Consumers -> Seq(Event)]
BY DEF TypeInv, TypeOK, FanOut

LEMMA CutType ==
  ASSUME TypeInv, NEW c \in Consumers, NEW to \in {"down", "shut"}, Cut(c, to)
  PROVE  /\ sub' \in [Consumers -> {"none", "pending", "active", "down", "shut"}]
         /\ wire' \in [Consumers -> Seq(Event)]
         /\ lossy' \subseteq Consumers
<1>1. wire \in [Consumers -> Seq(Event)]
  BY DEF TypeInv, TypeOK
<1>2. CASE wire' = [wire EXCEPT ![c] = <<>>]
  BY <1>1, <1>2 DEF TypeInv, TypeOK, Cut
<1>3. CASE wire[c] # <<>> /\ wire' = [wire EXCEPT ![c] = <<Head(@)>>]
  <2>1. Head(wire[c]) \in Event
    BY <1>1, <1>3, HeadTailProperties
  <2>. QED
    BY <1>1, <1>3, <2>1 DEF TypeInv, TypeOK, Cut
<1>. QED
  BY <1>2, <1>3 DEF Cut

LEMMA ReturnType ==
  ASSUME TypeInv, NEW p \in Publishers, NEW err \in {"nil", "closed", "failed"},
         Return(p, err)
  PROVE  /\ pub' \in [Publishers -> {"idle", "sending", "executed"}]
         /\ tries' \in [Publishers -> 0..MaxRetries]
         /\ heard' \in [Publishers -> SUBSET Consumers]
         /\ result' \in [Publishers -> Seq(Outcome)]
         /\ CallsBounded'
<1>1. [err |-> err, to |-> heard[p]] \in Outcome
  BY DEF TypeInv, TypeOK, Outcome
<1>2. result' \in [Publishers -> Seq(Outcome)]
  BY <1>1 DEF TypeInv, TypeOK, Return
<1>. QED
  BY <1>2, RedisAssumption DEF RedisAssumption, TypeInv, TypeOK, CallsBounded, Return

LEMMA GiveUpType ==
  ASSUME TypeInv, NEW p \in Publishers, pub[p] # "idle", GiveUp(p)
  PROVE  late' \subseteq Event
BY CurrentType DEF TypeInv, TypeOK, GiveUp

LEMMA PublisherTypes ==
  ASSUME TypeInv, NEW p \in Publishers,
         Publish(p) \/ PublishClosed(p) \/ PublisherStep(p)
  PROVE  TypeInv'
<1>. USE DEF TypeInv
<1>1. CASE Publish(p)
  BY <1>1 DEF Publish, MayPublish, Active, TypeOK, CallsBounded, connVars, fwdVars, consumerVars
<1>2. CASE PublishClosed(p)
  BY <1>2, ReturnType DEF PublishClosed, TypeOK, connVars, fwdVars, consumerVars
<1>3. CASE Execute(p)
  BY <1>3, CurrentType, FanOutType
  DEF Execute, TypeOK, CallsBounded, fwdVars, consumerVars
<1>4. CASE Reply(p)
  BY <1>4, ReturnType DEF Reply, TypeOK, connVars, fwdVars, consumerVars
<1>5. CASE Retry(p)
  <2>1. tries' \in [Publishers -> 0..MaxRetries]
    BY <1>5, RedisAssumption DEF RedisAssumption, Retry, TypeOK
  <2>. QED
    BY <1>5, <2>1, GiveUpType
    DEF Retry, TypeOK, CallsBounded, connVars, fwdVars, consumerVars
<1>6. CASE Fail(p)
  BY <1>6, GiveUpType, ReturnType DEF Fail, TypeOK, connVars, fwdVars, consumerVars
<1>. QED
  BY <1>1, <1>2, <1>3, <1>4, <1>5, <1>6 DEF PublisherStep

LEMMA SubscriptionTypes ==
  ASSUME TypeInv, NEW c \in Consumers,
         \/ Subscribe(c) \/ SubscribeClosed(c) \/ Confirm(c) \/ Break(c) \/ Reconnect(c)
         \/ Arrive(c) \/ Overflow(c) \/ ClosePubSub(c)
  PROVE  TypeInv'
<1>. USE DEF TypeInv
<1>1. CASE Subscribe(c)
  BY <1>1 DEF Subscribe, TypeOK, CallsBounded, pubVars
<1>2. CASE SubscribeClosed(c)
  BY <1>2 DEF SubscribeClosed, TypeOK, CallsBounded, connVars, fwdVars, pubVars
<1>3. CASE Confirm(c)
  BY <1>3 DEF Confirm, TypeOK, CallsBounded, fwdVars, consumerVars, pubVars
<1>4. CASE Break(c)
  BY <1>4, CutType DEF Break, TypeOK, CallsBounded, fwdVars, consumerVars, pubVars
<1>5. CASE Reconnect(c)
  BY <1>5 DEF Reconnect, TypeOK, CallsBounded, fwdVars, consumerVars, pubVars
<1>6. CASE Arrive(c)
  <2>1. Head(wire[c]) \in Event /\ Tail(wire[c]) \in Seq(Event)
    BY <1>6, HeadTailProperties DEF Arrive, TypeOK
  <2>2. /\ Append(redisCh[c], Head(wire[c])) \in Seq(Event)
        /\ Len(Append(redisCh[c], Head(wire[c]))) <= ChanSize
        /\ Append(arrived[c], Head(wire[c])) \in Seq(Event)
    BY <1>6, <2>1, AppendProperties, RedisAssumption DEF RedisAssumption, Arrive, TypeOK
  <2>. QED
    BY <1>6, <2>1, <2>2 DEF Arrive, TypeOK, CallsBounded, consumerVars, pubVars
<1>7. CASE Overflow(c)
  <2>1. Tail(wire[c]) \in Seq(Event)
    BY <1>7, HeadTailProperties DEF Overflow, TypeOK
  <2>. QED
    BY <1>7, <2>1 DEF Overflow, TypeOK, CallsBounded, fwdVars, consumerVars, pubVars
<1>8. CASE ClosePubSub(c)
  BY <1>8, CutType DEF ClosePubSub, TypeOK, CallsBounded, fwdVars, consumerVars, pubVars
<1>. QED
  BY <1>1, <1>2, <1>3, <1>4, <1>5, <1>6, <1>7, <1>8

LEMMA ForwarderTypes ==
  ASSUME TypeInv, NEW c \in Consumers,
         ForwarderStep(c) \/ ForwardCtx(c) \/ ConsumerStep(c) \/ Cancel(c)
  PROVE  TypeInv'
<1>. USE DEF TypeInv
<1>1. CASE ForwardTake(c)
  <2>1. /\ Head(redisCh[c]) \in Event
        /\ Tail(redisCh[c]) \in Seq(Event)
        /\ Len(Tail(redisCh[c])) <= ChanSize
    BY <1>1, HeadTailProperties, LenProperties, RedisAssumption
    DEF RedisAssumption, ForwardTake, TypeOK
  <2>. QED
    BY <1>1, <2>1 DEF ForwardTake, TypeOK, CallsBounded, connVars, consumerVars, pubVars
<1>2. CASE ForwardGive(c)
  <2>1. /\ Append(ch[c], hand[c]) \in Seq(Event)
        /\ Len(Append(ch[c], hand[c])) <= BufferSize
    BY <1>2, AppendProperties, RedisAssumption
    DEF RedisAssumption, ForwardGive, ChHasRoom, TypeOK
  <2>. QED
    BY <1>2, <2>1 DEF ForwardGive, TypeOK, CallsBounded, connVars, consumerVars, pubVars
<1>3. CASE ForwardEnd(c)
  BY <1>3 DEF ForwardEnd, TypeOK, CallsBounded, connVars, consumerVars, pubVars
<1>4. CASE ForwardCtx(c)
  BY <1>4, CutType DEF ForwardCtx, TypeOK, CallsBounded, consumerVars, pubVars
<1>5. CASE Receive(c)
  <2>1. /\ Head(ch[c]) \in Event
        /\ Tail(ch[c]) \in Seq(Event)
        /\ Len(Tail(ch[c])) <= BufferSize
        /\ Append(taken[c], Head(ch[c])) \in Seq(Event)
    BY <1>5, HeadTailProperties, LenProperties, AppendProperties, RedisAssumption
    DEF RedisAssumption, Receive, TypeOK
  <2>. QED
    BY <1>5, <2>1 DEF Receive, TypeOK, CallsBounded, connVars, pubVars
<1>6. CASE EndOfStream(c)
  BY <1>6 DEF EndOfStream, TypeOK, CallsBounded, connVars, fwdVars, pubVars
<1>7. CASE Quit(c)
  BY <1>7 DEF Quit, TypeOK, CallsBounded, connVars, fwdVars, pubVars
<1>8. CASE Cancel(c)
  BY <1>8 DEF Cancel, TypeOK, CallsBounded, connVars, fwdVars, pubVars
<1>. QED
  BY <1>1, <1>2, <1>3, <1>4, <1>5, <1>6, <1>7, <1>8 DEF ForwarderStep, ConsumerStep

LEMMA TypeStep == TypeInv /\ [Next]_vars => TypeInv'
<1>. SUFFICES ASSUME TypeInv, [Next]_vars PROVE TypeInv'
  OBVIOUS
<1>1. CASE BeginClose \/ CloseClient
  BY <1>1 DEF BeginClose, CloseClient, TypeInv, TypeOK, CallsBounded, connVars, fwdVars,
              consumerVars, pubVars
<1>2. ASSUME NEW p \in Publishers, Publish(p) \/ PublishClosed(p) \/ PublisherStep(p)
      PROVE  TypeInv'
  BY <1>2, PublisherTypes
<1>3. ASSUME NEW e \in Event, ExecuteLate(e) PROVE TypeInv'
  BY <1>3, FanOutType DEF ExecuteLate, TypeInv, TypeOK, CallsBounded, fwdVars, consumerVars
<1>4. ASSUME NEW c \in Consumers,
             \/ Subscribe(c) \/ SubscribeClosed(c) \/ Confirm(c) \/ Break(c) \/ Reconnect(c)
             \/ Arrive(c) \/ Overflow(c) \/ ClosePubSub(c)
      PROVE  TypeInv'
  BY <1>4, SubscriptionTypes
<1>5. ASSUME NEW c \in Consumers,
             ForwarderStep(c) \/ ForwardCtx(c) \/ ConsumerStep(c) \/ Cancel(c)
      PROVE  TypeInv'
  BY <1>5, ForwarderTypes
<1>6. CASE UNCHANGED vars
  BY <1>6 DEF vars, TypeInv, TypeOK, CallsBounded, connVars, fwdVars, consumerVars, pubVars
<1>. QED
  BY <1>1, <1>2, <1>3, <1>4, <1>5, <1>6 DEF Next

LEMMA TypeInit == Init => TypeInv
BY RedisAssumption DEF RedisAssumption, Init, TypeInv, TypeOK, CallsBounded

\* Every variable keeps its type; in particular neither go-redis' channel nor the
\* Go channel of a subscription holds more than its capacity.
THEOREM RedisTyping == Spec => []TypeOK
<1>1. TypeInv => TypeOK
  BY DEF TypeInv
<1>. QED
  BY <1>1, TypeInit, TypeStep, PTL DEF Spec

-------------------------------------------------------------------------------
(* Sequences: an event that moves from the head of one buffer to the tail of the *)
(* next leaves their concatenation as it was.                                *)

LEMMA HeadAndTail ==
  ASSUME NEW S, NEW s \in Seq(S), s # <<>>
  PROVE  /\ Head(s) \in S
         /\ Tail(s) \in Seq(S)
         /\ <<Head(s)>> \o Tail(s) = s
<1>1. Head(s) \in S /\ Tail(s) \in Seq(S)
  BY HeadTailProperties
<1>2. Len(s) \in Nat /\ Len(s) # 0
  BY EmptySeq, LenProperties
<1>. DEFINE u == <<Head(s)>> \o Tail(s)
<1>3. <<Head(s)>> \in Seq(S) /\ Len(<<Head(s)>>) = 1
  BY <1>1
<1>4. u \in Seq(S) /\ Len(u) = Len(s)
  BY <1>1, <1>2, <1>3, ConcatProperties, HeadTailProperties
<1>5. \A i \in 1..Len(s) : u[i] = s[i]
  <2>. SUFFICES ASSUME NEW i \in 1..Len(s) PROVE u[i] = s[i]
    OBVIOUS
  <2>1. u[i] = IF i <= 1 THEN <<Head(s)>>[i] ELSE Tail(s)[i - 1]
    BY <1>1, <1>2, <1>3, <1>4, ConcatProperties
  <2>. QED
    BY <1>2, <2>1, HeadTailProperties
<1>. QED
  BY <1>1, <1>4, <1>5, SeqEqual

LEMMA MoveHead ==
  ASSUME NEW S, NEW s \in Seq(S), NEW t \in Seq(S), t # <<>>
  PROVE  /\ Append(s, Head(t)) \in Seq(S)
         /\ Append(s, Head(t)) \o Tail(t) = s \o t
<1>1. Head(t) \in S /\ Tail(t) \in Seq(S) /\ <<Head(t)>> \o Tail(t) = t
  BY HeadAndTail
<1>2. <<Head(t)>> \in Seq(S)
  BY <1>1
<1>3. Append(s, Head(t)) = s \o <<Head(t)>>
  BY <1>1, AppendIsConcat
<1>. QED
  BY <1>1, <1>2, <1>3, ConcatAssociative, ConcatProperties

LEMMA AppendToBoth ==
  ASSUME NEW S, NEW s \in Seq(S), NEW t \in Seq(S), NEW e \in S
  PROVE  s \o Append(t, e) = Append(s \o t, e)
<1>1. <<e>> \in Seq(S) /\ s \o t \in Seq(S)
  BY ConcatProperties
<1>2. Append(t, e) = t \o <<e>> /\ Append(s \o t, e) = (s \o t) \o <<e>>
  BY <1>1, AppendIsConcat
<1>3. s \o (t \o <<e>>) = (s \o t) \o <<e>>
  BY <1>1, ConcatAssociative
<1>. QED
  BY <1>2, <1>3

LEMMA TakeHead ==
  ASSUME NEW S, NEW s \in Seq(S), NEW t \in Seq(S), t # <<>>
  PROVE  (s \o <<Head(t)>>) \o Tail(t) = s \o t
<1>1. Head(t) \in S /\ Tail(t) \in Seq(S) /\ <<Head(t)>> \o Tail(t) = t
  BY HeadAndTail
<1>2. <<Head(t)>> \in Seq(S)
  BY <1>1
<1>. QED
  BY <1>1, <1>2, ConcatAssociative

-------------------------------------------------------------------------------
(* Forwarding. *)

ForwardInv == TypeInv /\ ForwardsEverything
streamVars == <<taken, ch, hand, redisCh, arrived>>

LEMMA StreamTypes ==
  ASSUME TypeInv, NEW c \in Consumers
  PROVE  /\ taken[c] \in Seq(Event)
         /\ ch[c] \in Seq(Event)
         /\ Held(c) \in Seq(Event)
         /\ redisCh[c] \in Seq(Event)
         /\ wire[c] \in Seq(Event)
         /\ arrived[c] \in Seq(Event)
         /\ taken[c] \o ch[c] \in Seq(Event)
         /\ (taken[c] \o ch[c]) \o Held(c) \in Seq(Event)
<1>1. /\ taken[c] \in Seq(Event)
      /\ ch[c] \in Seq(Event)
      /\ redisCh[c] \in Seq(Event)
      /\ wire[c] \in Seq(Event)
      /\ arrived[c] \in Seq(Event)
  BY DEF TypeInv, TypeOK
<1>2. Held(c) \in Seq(Event)
  BY DEF TypeInv, TypeOK, Held
<1>. QED
  BY <1>1, <1>2, ConcatProperties

\* The steps that move an event along, one buffer further each.
LEMMA ArriveForwards ==
  ASSUME ForwardInv, NEW c \in Consumers, Arrive(c)
  PROVE  Forwarded(c)' = arrived'[c]
<1>. DEFINE e == Head(wire[c])
<1>. DEFINE x == (taken[c] \o ch[c]) \o Held(c)
<1>1. e \in Event
  BY StreamTypes, HeadTailProperties DEF Arrive, ForwardInv
<1>2. /\ taken'[c] = taken[c] /\ ch'[c] = ch[c] /\ Held(c)' = Held(c)
      /\ redisCh'[c] = Append(redisCh[c], e)
      /\ arrived'[c] = Append(arrived[c], e)
  BY DEF Arrive, consumerVars, Held, ForwardInv, TypeInv, TypeOK
<1>3. Forwarded(c) = arrived[c]
  BY DEF ForwardInv, ForwardsEverything
<1>4. x \in Seq(Event) /\ redisCh[c] \in Seq(Event)
  BY StreamTypes DEF ForwardInv
<1>5. x \o Append(redisCh[c], e) = Append(x \o redisCh[c], e)
  <2>. HIDE DEF x, e
  <2>. QED
    BY <1>1, <1>4, AppendToBoth, SMTT(30)
<1>. QED
  BY <1>2, <1>3, <1>5 DEF Forwarded

LEMMA TakeForwards ==
  ASSUME ForwardInv, NEW c \in Consumers, ForwardTake(c)
  PROVE  Forwarded(c)' = arrived'[c]
<1>. DEFINE x == taken[c] \o ch[c]
            e == Head(redisCh[c])
<1>1. e \in Event /\ redisCh[c] \in Seq(Event) /\ redisCh[c] # <<>>
  BY StreamTypes, HeadAndTail DEF ForwardTake, ForwardInv
<1>2. Held(c) = <<>> /\ Held(c)' = <<e>>
  BY <1>1, RedisAssumption DEF RedisAssumption, ForwardTake, Held, ForwardInv, TypeInv, TypeOK
<1>3. /\ taken'[c] = taken[c] /\ ch'[c] = ch[c] /\ arrived'[c] = arrived[c]
      /\ redisCh'[c] = Tail(redisCh[c])
  BY DEF ForwardTake, consumerVars, ForwardInv, TypeInv, TypeOK
<1>4. x \in Seq(Event)
  BY StreamTypes DEF ForwardInv
<1>5. (x \o <<e>>) \o Tail(redisCh[c]) = x \o redisCh[c]
  <2>. HIDE DEF x
  <2>. QED
    BY <1>1, <1>4, TakeHead
<1>6. x \o Held(c) = x
  <2>. HIDE DEF x
  <2>. QED
    BY <1>2, <1>4, ConcatEmptySeq
<1>. QED
  BY <1>2, <1>3, <1>5, <1>6 DEF Forwarded, ForwardInv, ForwardsEverything

LEMMA GiveForwards ==
  ASSUME ForwardInv, NEW c \in Consumers, ForwardGive(c)
  PROVE  Forwarded(c)' = arrived'[c]
<1>. DEFINE e == hand[c]
<1>1. e \in Event /\ Held(c) = <<e>>
  BY DEF ForwardGive, Held, ForwardInv, TypeInv, TypeOK
<1>2. /\ taken'[c] = taken[c] /\ ch'[c] = Append(ch[c], e) /\ arrived'[c] = arrived[c]
      /\ redisCh'[c] = redisCh[c] /\ Held(c)' = <<>>
  BY DEF ForwardGive, consumerVars, Held, ForwardInv, TypeInv, TypeOK
<1>. DEFINE x == taken[c] \o ch[c]
<1>3. taken[c] \in Seq(Event) /\ ch[c] \in Seq(Event) /\ x \in Seq(Event)
  BY StreamTypes DEF ForwardInv
<1>4. taken[c] \o Append(ch[c], e) = Append(x, e)
  <2>1. \A s, u \in Seq(Event) : s \o Append(u, e) = Append(s \o u, e)
    <3>. HIDE DEF e
    <3>. QED
      BY <1>1, AppendToBoth
  <2>. QED
    BY <1>3, <2>1
<1>5. Append(x, e) = x \o <<e>> /\ Append(x, e) \in Seq(Event)
  <2>. HIDE DEF e, x
  <2>. QED
    BY <1>1, <1>3, AppendIsConcat, AppendProperties
<1>6. Append(x, e) \o <<>> = Append(x, e)
  <2>. HIDE DEF e, x
  <2>. QED
    BY <1>5, ConcatEmptySeq
<1>. QED
  BY <1>1, <1>2, <1>4, <1>5, <1>6 DEF Forwarded, ForwardInv, ForwardsEverything

LEMMA ReceiveForwards ==
  ASSUME ForwardInv, NEW c \in Consumers, Receive(c)
  PROVE  Forwarded(c)' = arrived'[c]
<1>1. Append(taken[c], Head(ch[c])) \o Tail(ch[c]) = taken[c] \o ch[c]
  BY StreamTypes, MoveHead DEF Receive, ForwardInv
<1>2. /\ taken'[c] = Append(taken[c], Head(ch[c])) /\ ch'[c] = Tail(ch[c])
      /\ Held(c)' = Held(c) /\ redisCh'[c] = redisCh[c] /\ arrived'[c] = arrived[c]
  BY DEF Receive, Held, ForwardInv, TypeInv, TypeOK
<1>. QED
  BY <1>1, <1>2 DEF Forwarded, ForwardInv, ForwardsEverything

\* A step moves an event of one subscription along, or leaves all buffers alone.
LEMMA StreamSteps ==
  ASSUME TypeInv, [Next]_vars
  PROVE  \/ UNCHANGED streamVars
         \/ \E c \in Consumers :
              /\ Arrive(c) \/ ForwardTake(c) \/ ForwardGive(c) \/ Receive(c)
              /\ \A d \in Consumers \ {c} :
                   /\ taken'[d] = taken[d] /\ ch'[d] = ch[d] /\ hand'[d] = hand[d]
                   /\ redisCh'[d] = redisCh[d] /\ arrived'[d] = arrived[d]
<1>1. CASE BeginClose \/ CloseClient \/ UNCHANGED vars
  BY <1>1 DEF BeginClose, CloseClient, vars, fwdVars, consumerVars, streamVars
<1>2. ASSUME NEW p \in Publishers, Publish(p) \/ PublishClosed(p) \/ PublisherStep(p)
      PROVE  UNCHANGED streamVars
  BY <1>2 DEF Publish, PublishClosed, PublisherStep, Execute, Reply, Retry, Fail,
              fwdVars, consumerVars, streamVars
<1>3. ASSUME NEW e \in Event, ExecuteLate(e) PROVE UNCHANGED streamVars
  BY <1>3 DEF ExecuteLate, fwdVars, consumerVars, streamVars
<1>4. ASSUME NEW c \in Consumers,
             \/ Subscribe(c) \/ SubscribeClosed(c) \/ Confirm(c) \/ Break(c) \/ Reconnect(c)
             \/ Overflow(c) \/ ForwardCtx(c) \/ ForwardEnd(c) \/ EndOfStream(c) \/ Quit(c)
             \/ Cancel(c) \/ ClosePubSub(c)
      PROVE  UNCHANGED streamVars
  BY <1>4 DEF Subscribe, SubscribeClosed, Confirm, Break, Reconnect, Overflow, ForwardCtx,
              ForwardEnd, EndOfStream, Quit, Cancel, ClosePubSub, fwdVars, consumerVars,
              streamVars
<1>5. ASSUME NEW c \in Consumers,
             Arrive(c) \/ ForwardTake(c) \/ ForwardGive(c) \/ Receive(c)
      PROVE  \A d \in Consumers \ {c} :
               /\ taken'[d] = taken[d] /\ ch'[d] = ch[d] /\ hand'[d] = hand[d]
               /\ redisCh'[d] = redisCh[d] /\ arrived'[d] = arrived[d]
  <2>1. CASE Arrive(c)
    BY <1>5, <2>1 DEF Arrive, consumerVars, TypeInv, TypeOK
  <2>2. CASE ForwardTake(c)
    BY <1>5, <2>2 DEF ForwardTake, consumerVars, TypeInv, TypeOK
  <2>3. CASE ForwardGive(c)
    BY <1>5, <2>3 DEF ForwardGive, consumerVars, TypeInv, TypeOK
  <2>4. CASE Receive(c)
    BY <1>5, <2>4 DEF Receive, TypeInv, TypeOK
  <2>. QED
    BY <1>5, <2>1, <2>2, <2>3, <2>4
<1>. QED
  BY <1>1, <1>2, <1>3, <1>4, <1>5 DEF Next, ForwarderStep, ConsumerStep

LEMMA ForwardStep == ForwardInv /\ [Next]_vars => ForwardInv'
<1>. SUFFICES ASSUME ForwardInv, [Next]_vars PROVE ForwardInv'
  OBVIOUS
<1>1. TypeInv /\ TypeInv'
  BY TypeStep DEF ForwardInv
<1>2. CASE UNCHANGED streamVars
  BY <1>1, <1>2 DEF ForwardInv, ForwardsEverything, Forwarded, Held, streamVars
<1>3. ASSUME NEW c \in Consumers,
             Arrive(c) \/ ForwardTake(c) \/ ForwardGive(c) \/ Receive(c),
             \A d \in Consumers \ {c} :
               /\ taken'[d] = taken[d] /\ ch'[d] = ch[d] /\ hand'[d] = hand[d]
               /\ redisCh'[d] = redisCh[d] /\ arrived'[d] = arrived[d]
      PROVE  ForwardInv'
  <2>1. Forwarded(c)' = arrived'[c]
    BY <1>3, ArriveForwards, TakeForwards, GiveForwards, ReceiveForwards
  <2>2. ASSUME NEW d \in Consumers \ {c} PROVE Forwarded(d)' = arrived'[d]
    BY <1>3 DEF ForwardInv, ForwardsEverything, Forwarded, Held
  <2>. QED
    BY <1>1, <2>1, <2>2 DEF ForwardInv, ForwardsEverything
<1>. QED
  BY <1>1, <1>2, <1>3, StreamSteps

LEMMA ForwardInit == Init => ForwardInv
<1>. SUFFICES ASSUME Init PROVE ForwardInv
  OBVIOUS
<1>1. TypeInv
  BY TypeInit
<1>2. ASSUME NEW c \in Consumers PROVE Forwarded(c) = arrived[c]
  <2>1. Held(c) = <<>> /\ taken[c] = <<>> /\ ch[c] = <<>> /\ redisCh[c] = <<>> /\ arrived[c] = <<>>
    BY DEF Init, Held
  <2>2. <<>> \o <<>> = <<>>
    BY ConcatEmptySeq, EmptySeq
  <2>. QED
    BY <2>1, <2>2 DEF Forwarded
<1>. QED
  BY <1>1, <1>2 DEF ForwardInv, ForwardsEverything

\* The forwarder, go-redis' channel and the Go channel lose, repeat and reorder
\* nothing that came off the connection, however slow the consumer is.
THEOREM RedisForwards == Spec => []ForwardsEverything
<1>1. ForwardInv => ForwardsEverything
  BY DEF ForwardInv
<1>. QED
  BY <1>1, ForwardInit, ForwardStep, PTL DEF Spec

-------------------------------------------------------------------------------
(* The end of a stream.  A forwarder whose context lives ended because its PubSub  *)
(* was shut and nothing was left, and only Close shuts one for it.             *)

EndedDry ==
  \A c \in Consumers : ~ctxDone[c] /\ fwd[c] = "ended" =>
    sub[c] = "shut" /\ wire[c] = <<>> /\ redisCh[c] = <<>> /\ hand[c] = None
ShutByClose == \A c \in Consumers : ~ctxDone[c] /\ sub[c] = "shut" => mode # "open"
StreamRead == \A c \in Consumers : consumer[c] = "ended" => fwd[c] = "ended" /\ ch[c] = <<>>

EndInv == ForwardInv /\ EndedDry /\ ShutByClose /\ StreamRead

LEMMA EndStep == EndInv /\ [Next]_vars => EndInv'
<1>. SUFFICES ASSUME EndInv, [Next]_vars PROVE EndInv'
  OBVIOUS
<1>1. ForwardInv' /\ TypeOK
  BY ForwardStep DEF EndInv, ForwardInv, TypeInv
<1>. USE <1>1 DEF EndInv, EndedDry, ShutByClose, StreamRead
<1>2. CASE BeginClose \/ CloseClient \/ UNCHANGED vars
  BY <1>2 DEF BeginClose, CloseClient, vars, connVars, fwdVars, consumerVars
<1>3. ASSUME NEW p \in Publishers,
             Publish(p) \/ PublishClosed(p) \/ Reply(p) \/ Retry(p) \/ Fail(p)
      PROVE  EndInv'
  BY <1>3 DEF Publish, PublishClosed, Reply, Retry, Fail, connVars, fwdVars, consumerVars
<1>4. ASSUME NEW e \in Event, FanOut(e), UNCHANGED <<mode, sub, lossy, fwdVars, consumerVars>>
      PROVE  EndInv'
  <2>1. \A c \in Consumers : sub[c] = "shut" => wire'[c] = wire[c]
    BY <1>4 DEF FanOut, Active
  <2>. QED
    BY <1>4, <2>1 DEF fwdVars, consumerVars
<1>5. ASSUME NEW p \in Publishers, Execute(p) PROVE EndInv'
  <2>1. Current(p) \in Event
    BY <1>5, CurrentType DEF Execute, ForwardInv
  <2>. QED
    BY <1>4, <1>5, <2>1 DEF Execute
<1>6. ASSUME NEW e \in Event, ExecuteLate(e) PROVE EndInv'
  BY <1>4, <1>6 DEF ExecuteLate
<1>7. ASSUME NEW c \in Consumers,
             Subscribe(c) \/ SubscribeClosed(c) \/ Confirm(c) \/ Reconnect(c)
      PROVE  EndInv'
  <2>1. CASE Subscribe(c)
    BY <1>7, <2>1 DEF Subscribe, TypeOK
  <2>2. CASE SubscribeClosed(c)
    BY <1>7, <2>2 DEF SubscribeClosed, TypeOK, connVars, fwdVars
  <2>3. CASE Confirm(c)
    BY <1>7, <2>3 DEF Confirm, TypeOK, fwdVars, consumerVars
  <2>4. CASE Reconnect(c)
    BY <1>7, <2>4 DEF Reconnect, TypeOK, fwdVars, consumerVars
  <2>. QED
    BY <1>7, <2>1, <2>2, <2>3, <2>4
<1>8. ASSUME NEW c \in Consumers, Break(c) \/ ClosePubSub(c) \/ ForwardCtx(c) PROVE EndInv'
  <2>1. CASE Break(c)
    <3>1. /\ UNCHANGED <<mode, fwdVars, consumerVars>>
          /\ sub[c] # "shut" /\ sub'[c] # "shut"
          /\ \A d \in Consumers \ {c} : sub'[d] = sub[d] /\ wire'[d] = wire[d]
      BY <1>8, <2>1 DEF Break, Cut, TypeOK
    <3>. QED
      BY <3>1 DEF fwdVars, consumerVars
  <2>2. CASE ClosePubSub(c)
    <3>1. /\ UNCHANGED <<mode, fwdVars, consumerVars>>
          /\ mode = "closing" /\ sub[c] # "shut"
          /\ \A d \in Consumers \ {c} : sub'[d] = sub[d] /\ wire'[d] = wire[d]
      BY <1>8, <2>2 DEF ClosePubSub, Cut, TypeOK
    <3>. QED
      BY <3>1 DEF fwdVars, consumerVars
  <2>3. CASE ForwardCtx(c)
    <3>1. /\ ctxDone[c] /\ UNCHANGED <<mode, consumerVars, redisCh, ch>>
          /\ \A d \in Consumers \ {c} :
               fwd'[d] = fwd[d] /\ sub'[d] = sub[d] /\ wire'[d] = wire[d] /\ hand'[d] = hand[d]
          /\ fwd'[c] = "ended"
      BY <1>8, <2>3 DEF ForwardCtx, StopsForCtx, Cut, TypeOK, consumerVars
    <3>. QED
      BY <3>1 DEF consumerVars
  <2>. QED
    BY <1>8, <2>1, <2>2, <2>3
<1>9. ASSUME NEW c \in Consumers, Arrive(c) \/ Overflow(c) PROVE EndInv'
  <2>1. CASE Arrive(c)
    BY <1>9, <2>1 DEF Arrive, TypeOK, consumerVars
  <2>2. CASE Overflow(c)
    BY <1>9, <2>2 DEF Overflow, TypeOK, fwdVars, consumerVars
  <2>. QED
    BY <1>9, <2>1, <2>2
<1>10. ASSUME NEW c \in Consumers, ForwardTake(c) \/ ForwardGive(c) \/ ForwardEnd(c) PROVE EndInv'
  <2>1. CASE ForwardTake(c)
    BY <1>10, <2>1 DEF ForwardTake, TypeOK, connVars, consumerVars
  <2>2. CASE ForwardGive(c)
    BY <1>10, <2>2 DEF ForwardGive, TypeOK, connVars, consumerVars
  <2>3. CASE ForwardEnd(c)
    BY <1>10, <2>3 DEF ForwardEnd, SeesEnd, TypeOK, connVars, consumerVars
  <2>. QED
    BY <1>10, <2>1, <2>2, <2>3
<1>11. ASSUME NEW c \in Consumers, ConsumerStep(c) \/ Cancel(c) PROVE EndInv'
  <2>1. CASE Receive(c)
    BY <1>11, <2>1 DEF Receive, TypeOK, connVars
  <2>2. CASE EndOfStream(c)
    BY <1>11, <2>2 DEF EndOfStream, TypeOK, connVars, fwdVars
  <2>3. CASE Quit(c)
    BY <1>11, <2>3 DEF Quit, TypeOK, connVars, fwdVars
  <2>4. CASE Cancel(c)
    BY <1>11, <2>4 DEF Cancel, TypeOK, connVars, fwdVars
  <2>. QED
    BY <1>11, <2>1, <2>2, <2>3, <2>4 DEF ConsumerStep
<1>. QED
  BY <1>2, <1>3, <1>5, <1>6, <1>7, <1>8, <1>9, <1>10, <1>11
  DEF Next, PublisherStep, ForwarderStep

LEMMA EndInit == Init => EndInv
BY ForwardInit DEF Init, EndInv, EndedDry, ShutByClose, StreamRead

LEMMA EndInvImplies == EndInv => EndMeansAll
<1>. SUFFICES ASSUME EndInv, NEW c \in Consumers, consumer[c] = "ended", ~ctxDone[c]
              PROVE  mode # "open" /\ taken[c] = arrived[c]
  BY DEF EndMeansAll
<1>1. /\ mode # "open"
      /\ ch[c] = <<>> /\ redisCh[c] = <<>> /\ Held(c) = <<>>
  BY DEF EndInv, EndedDry, ShutByClose, StreamRead, Held
<1>2. taken[c] \in Seq(Event)
  BY StreamTypes DEF EndInv, ForwardInv
<1>3. taken[c] \o <<>> = taken[c]
  BY <1>2, ConcatEmptySeq
<1>4. Forwarded(c) = arrived[c]
  BY DEF EndInv, ForwardInv, ForwardsEverything
<1>. QED
  BY <1>1, <1>3, <1>4 DEF Forwarded

\* A consumer whose context lives reads to the end of its stream only after a Close
\* has begun, and then it has read all that came off the connection.
THEOREM RedisEndMeansAll == Spec => []EndMeansAll
BY EndInit, EndStep, EndInvImplies, PTL DEF Spec

-------------------------------------------------------------------------------
(* After Close. *)

ClosedInv == TypeInv /\ (mode = "closed" => AllShut)

LEMMA ClosedStep == ClosedInv /\ [Next]_vars => ClosedInv'
<1>. SUFFICES ASSUME ClosedInv, [Next]_vars PROVE ClosedInv'
  OBVIOUS
<1>1. TypeInv' /\ TypeOK
  BY TypeStep DEF ClosedInv, TypeInv
<1>. USE <1>1 DEF ClosedInv, AllShut
<1>2. CASE BeginClose \/ CloseClient \/ UNCHANGED vars
  BY <1>2 DEF BeginClose, CloseClient, vars, connVars
<1>3. ASSUME NEW p \in Publishers, Publish(p) \/ PublishClosed(p) \/ PublisherStep(p)
      PROVE  ClosedInv'
  BY <1>3 DEF Publish, PublishClosed, PublisherStep, Execute, Reply, Retry, Fail, connVars
<1>4. ASSUME NEW e \in Event, ExecuteLate(e) PROVE ClosedInv'
  BY <1>4 DEF ExecuteLate
<1>5. ASSUME NEW c \in Consumers,
             \/ Subscribe(c) \/ SubscribeClosed(c) \/ Confirm(c) \/ Break(c) \/ Reconnect(c)
             \/ ClosePubSub(c) \/ ForwardCtx(c)
      PROVE  ClosedInv'
  <2>1. CASE Subscribe(c)
    BY <1>5, <2>1 DEF Subscribe, TypeOK
  <2>2. CASE SubscribeClosed(c)
    BY <1>5, <2>2 DEF SubscribeClosed, connVars
  <2>3. CASE Confirm(c)
    BY <1>5, <2>3 DEF Confirm, TypeOK
  <2>4. CASE Break(c)
    BY <1>5, <2>4 DEF Break, Cut, TypeOK
  <2>5. CASE Reconnect(c)
    BY <1>5, <2>5 DEF Reconnect, TypeOK
  <2>6. CASE ClosePubSub(c)
    BY <1>5, <2>6 DEF ClosePubSub, Cut, TypeOK
  <2>7. CASE ForwardCtx(c)
    BY <1>5, <2>7 DEF ForwardCtx, Cut, TypeOK
  <2>. QED
    BY <1>5, <2>1, <2>2, <2>3, <2>4, <2>5, <2>6, <2>7
<1>6. ASSUME NEW c \in Consumers,
             Arrive(c) \/ Overflow(c) \/ ForwarderStep(c) \/ ConsumerStep(c) \/ Cancel(c)
      PROVE  ClosedInv'
  BY <1>6 DEF Arrive, Overflow, ForwarderStep, ForwardTake, ForwardGive, ForwardEnd,
              ConsumerStep, Receive, EndOfStream, Quit, Cancel, connVars
<1>. QED
  BY <1>2, <1>3, <1>4, <1>5, <1>6 DEF Next

LEMMA NothingReceived ==
  ASSUME ClosedInv, mode = "closed", [Next]_vars, NEW c \in Consumers
  PROVE  Received(c)' <= Received(c)
<1>1. /\ arrived[c] \in Seq(Event) /\ wire[c] \in Seq(Event)
      /\ Len(arrived[c]) \in Nat /\ Len(wire[c]) \in Nat
  BY LenProperties DEF ClosedInv, TypeInv, TypeOK
<1>2. arrived \in [Consumers -> Seq(Event)] /\ wire \in [Consumers -> Seq(Event)]
  BY DEF ClosedInv, TypeInv, TypeOK
<1>3. CASE arrived' = arrived /\ wire' = wire
  BY <1>1, <1>3 DEF Received
<1>4. ASSUME NEW e, FanOut(e), arrived' = arrived PROVE Received(c)' <= Received(c)
  <2>1. Active = {}
    BY DEF Active, ClosedInv, AllShut
  <2>2. wire'[c] = wire[c]
    BY <1>4, <2>1 DEF FanOut
  <2>. QED
    BY <1>1, <1>4, <2>2 DEF Received
<1>5. ASSUME NEW d \in Consumers, NEW to, Cut(d, to), arrived' = arrived
      PROVE  Received(c)' <= Received(c)
  <2>1. CASE wire'[c] = wire[c] \/ wire'[c] = <<>>
    <3>1. Len(wire'[c]) <= Len(wire[c]) /\ Len(wire'[c]) \in Nat
      BY <1>1, <2>1, EmptySeq
    <3>. QED
      BY <1>1, <1>5, <3>1 DEF Received
  <2>2. CASE c = d /\ wire[c] # <<>> /\ wire'[c] = <<Head(wire[c])>>
    <3>1. Len(wire[c]) # 0 /\ Len(wire'[c]) = 1
      BY <1>1, <2>2, EmptySeq
    <3>. QED
      BY <1>1, <1>5, <3>1 DEF Received
  <2>. QED
    BY <1>2, <1>5, <2>1, <2>2 DEF Cut
<1>6. ASSUME NEW d \in Consumers, wire[d] # <<>>, wire' = [wire EXCEPT ![d] = Tail(@)],
             \/ arrived' = arrived
             \/ arrived' = [arrived EXCEPT ![d] = Append(@, Head(wire[d]))]
      PROVE  Received(c)' <= Received(c)
  <2>1. CASE c # d
    BY <1>1, <1>2, <1>6, <2>1 DEF Received
  <2>2. CASE c = d
    <3>1. Len(wire'[c]) = Len(wire[c]) - 1 /\ Head(wire[c]) \in Event
      BY <1>1, <1>2, <1>6, <2>2, HeadTailProperties
    <3>2. Len(arrived'[c]) <= Len(arrived[c]) + 1 /\ Len(arrived'[c]) \in Nat
      BY <1>1, <1>2, <1>6, <2>2, <3>1, AppendProperties
    <3>3. Len(arrived'[c]) + Len(wire'[c]) <= Len(arrived[c]) + Len(wire[c])
      <4>. DEFINE a == Len(arrived[c])
                  w == Len(wire[c])
                  b == Len(arrived'[c])
                  v == Len(wire'[c])
      <4>1. a \in Nat /\ w \in Nat /\ b \in Nat /\ b <= a + 1 /\ v = w - 1
        BY <1>1, <3>1, <3>2
      <4>. HIDE DEF a, w, b, v
      <4>2. b + v <= a + w
        BY <4>1
      <4>. QED
        BY <4>2 DEF a, w, b, v
    <3>. QED
      BY <3>3 DEF Received
  <2>. QED
    BY <2>1, <2>2
<1>7. CASE BeginClose \/ CloseClient \/ UNCHANGED vars
  BY <1>3, <1>7 DEF BeginClose, CloseClient, vars, connVars, fwdVars
<1>8. ASSUME NEW p \in Publishers, Publish(p) \/ PublishClosed(p) \/ PublisherStep(p)
      PROVE  Received(c)' <= Received(c)
  BY <1>3, <1>4, <1>8 DEF Publish, PublishClosed, PublisherStep, Execute, Reply, Retry, Fail,
                          connVars, fwdVars
<1>9. ASSUME NEW e \in Event, ExecuteLate(e) PROVE Received(c)' <= Received(c)
  BY <1>4, <1>9 DEF ExecuteLate, fwdVars
<1>10. ASSUME NEW d \in Consumers, Break(d) \/ ClosePubSub(d) \/ ForwardCtx(d)
       PROVE  Received(c)' <= Received(c)
  BY <1>5, <1>10 DEF Break, ClosePubSub, ForwardCtx, fwdVars
<1>11. ASSUME NEW d \in Consumers, Arrive(d) \/ Overflow(d) PROVE Received(c)' <= Received(c)
  BY <1>6, <1>11 DEF Arrive, Overflow, fwdVars
<1>12. ASSUME NEW d \in Consumers,
              \/ Subscribe(d) \/ SubscribeClosed(d) \/ Confirm(d) \/ Reconnect(d)
              \/ ForwarderStep(d) \/ ConsumerStep(d) \/ Cancel(d)
       PROVE  Received(c)' <= Received(c)
  BY <1>3, <1>12 DEF Subscribe, SubscribeClosed, Confirm, Reconnect, ForwarderStep, ForwardTake,
                     ForwardGive, ForwardEnd, ConsumerStep, Receive, EndOfStream, Quit, Cancel,
                     connVars, fwdVars
<1>. QED
  BY <1>7, <1>8, <1>9, <1>10, <1>11, <1>12 DEF Next

\* Once Close has returned no event is received any more, not from a publish that
\* read closed before, not from a retry, not from a command the server runs late.
THEOREM RedisClosedIsSilent == Spec => ClosedIsSilent
<1>1. Init => ClosedInv
  BY TypeInit DEF ClosedInv, Init
<1>2. ClosedInv /\ [Next]_vars =>
        [mode = "closed" => \A c \in Consumers : Received(c)' <= Received(c)]_vars
  BY NothingReceived
<1>. QED
  BY <1>1, <1>2, ClosedStep, PTL DEF Spec, ClosedIsSilent

-------------------------------------------------------------------------------
(* What a nil result promises.  A subscription that heard the call begin stays     *)
(* active until it becomes lossy; when the server has run the command its event  *)
(* is on the subscription's connection or has come off it.                    *)

InStream(c, e) == Has(arrived[c], e) \/ Has(wire[c], e)
HeardStayActive == \A p \in Publishers : \A c \in heard[p] \ lossy : sub[c] = "active"
ExecutedIsSent ==
  \A p \in Publishers : pub[p] = "executed" =>
    \A c \in heard[p] \ lossy : InStream(c, Current(p))
Unsubscribed == \A c \in Consumers : consumer[c] = "new" => sub[c] = "none" /\ fwd[c] = "none"
NilInv == TypeInv /\ Unsubscribed /\ HeardStayActive /\ ExecutedIsSent /\ NilMeansSent

LEMMA HasAppended ==
  ASSUME NEW s \in Seq(Event), NEW x \in Event, NEW e
  PROVE  /\ Has(s, e) => Has(Append(s, x), e)
         /\ Has(Append(s, x), x)
<1>1. /\ \A i \in 1..Len(s) : Append(s, x)[i] = s[i]
      /\ Append(s, x)[Len(s) + 1] = x
      /\ Append(s, x) \in Seq(Event) /\ Len(Append(s, x)) = Len(s) + 1
  BY AppendProperties
<1>2. Len(s) \in Nat /\ DOMAIN s = 1..Len(s) /\ DOMAIN Append(s, x) = 1..(Len(s) + 1)
  BY <1>1, LenProperties
<1>. QED
  BY <1>1, <1>2 DEF Has

LEMMA HasHeadOrTail ==
  ASSUME NEW s \in Seq(Event), s # <<>>, NEW e, Has(s, e)
  PROVE  e = Head(s) \/ Has(Tail(s), e)
<1>1. /\ Len(s) \in Nat \ {0} /\ DOMAIN s = 1..Len(s)
      /\ Tail(s) \in Seq(Event) /\ Len(Tail(s)) = Len(s) - 1
      /\ \A i \in 1..Len(Tail(s)) : Tail(s)[i] = s[i + 1]
  BY HeadTailProperties, LenProperties, EmptySeq
<1>2. DOMAIN Tail(s) = 1..(Len(s) - 1)
  BY <1>1, LenProperties
<1>3. PICK i \in 1..Len(s) : s[i] = e
  BY <1>1 DEF Has
<1>4. CASE i = 1
  BY <1>3, <1>4
<1>5. CASE i # 1
  <2>1. i - 1 \in 1..(Len(s) - 1)
    BY <1>1, <1>3, <1>5
  <2>2. Tail(s)[i - 1] = s[(i - 1) + 1]
    BY <1>1, <2>1
  <2>3. Tail(s)[i - 1] = e
    BY <1>1, <1>3, <2>1, <2>2
  <2>. QED
    BY <1>2, <2>1, <2>3 DEF Has
<1>. QED
  BY <1>4, <1>5

\* A subscription that is not lossy after a step keeps what it had, and stays active.
Kept ==
  /\ lossy \subseteq lossy'
  /\ \A c \in Consumers \ lossy' :
       /\ sub[c] = "active" => sub'[c] = "active"
       /\ \A e : InStream(c, e) => InStream(c, e)'

LEMMA StreamKept ==
  ASSUME TypeInv, Unsubscribed, [Next]_vars
  PROVE  Kept
<1>. USE DEF TypeInv, Kept
<1>1. CASE UNCHANGED <<sub, wire, lossy, arrived>>
  BY <1>1 DEF InStream
<1>2. ASSUME NEW x \in Event, FanOut(x), UNCHANGED <<sub, lossy, arrived>>
      PROVE  Kept
  <2>1. ASSUME NEW c \in Consumers, NEW e, Has(wire[c], e) PROVE Has(wire'[c], e)
    <3>1. wire[c] \in Seq(Event)
      BY DEF TypeOK
    <3>. QED
      BY <1>2, <2>1, <3>1, HasAppended DEF FanOut
  <2>. QED
    BY <1>2, <2>1 DEF InStream
<1>3. ASSUME NEW d \in Consumers, NEW to, Cut(d, to), UNCHANGED arrived
      PROVE  Kept
  BY <1>3 DEF Cut, TypeOK, InStream
<1>4. ASSUME NEW d \in Consumers, Overflow(d)
      PROVE  Kept
  BY <1>4 DEF Overflow, fwdVars, TypeOK, InStream
<1>5. ASSUME NEW d \in Consumers, Arrive(d)
      PROVE  Kept
  <2>1. /\ wire[d] \in Seq(Event) /\ wire[d] # <<>> /\ arrived[d] \in Seq(Event)
        /\ Head(wire[d]) \in Event
    BY <1>5, HeadTailProperties DEF Arrive, TypeOK
  <2>2. /\ wire'[d] = Tail(wire[d]) /\ arrived'[d] = Append(arrived[d], Head(wire[d]))
        /\ \A c \in Consumers \ {d} : wire'[c] = wire[c] /\ arrived'[c] = arrived[c]
        /\ sub' = sub /\ lossy' = lossy
    BY <1>5 DEF Arrive, TypeOK
  <2>3. ASSUME NEW e, InStream(d, e) PROVE InStream(d, e)'
    <3>1. CASE Has(arrived[d], e)
      BY <2>1, <2>2, <3>1, HasAppended DEF InStream
    <3>2. CASE Has(wire[d], e)
      BY <2>1, <2>2, <3>2, HasAppended, HasHeadOrTail DEF InStream
    <3>. QED
      BY <2>3, <3>1, <3>2 DEF InStream
  <2>. QED
    BY <2>2, <2>3 DEF InStream
<1>6. CASE BeginClose \/ CloseClient \/ UNCHANGED vars
  BY <1>1, <1>6 DEF BeginClose, CloseClient, vars, connVars, fwdVars
<1>7. ASSUME NEW p \in Publishers,
             Publish(p) \/ PublishClosed(p) \/ Reply(p) \/ Retry(p) \/ Fail(p)
      PROVE  UNCHANGED <<sub, wire, lossy, arrived>>
  BY <1>7 DEF Publish, PublishClosed, Reply, Retry, Fail, connVars, fwdVars
<1>8. ASSUME NEW p \in Publishers, Execute(p)
      PROVE  Current(p) \in Event /\ FanOut(Current(p)) /\ UNCHANGED <<sub, lossy, arrived>>
  BY <1>8, CurrentType DEF Execute, fwdVars
<1>9. ASSUME NEW x \in Event, ExecuteLate(x)
      PROVE  FanOut(x) /\ UNCHANGED <<sub, lossy, arrived>>
  BY <1>9 DEF ExecuteLate, fwdVars
<1>10. ASSUME NEW d \in Consumers, Break(d) \/ ClosePubSub(d) \/ ForwardCtx(d)
       PROVE  /\ Cut(d, "down") \/ Cut(d, "shut")
              /\ UNCHANGED arrived
  BY <1>10 DEF Break, ClosePubSub, ForwardCtx, fwdVars
<1>11. ASSUME NEW d \in Consumers,
              \/ SubscribeClosed(d) \/ ForwarderStep(d) \/ ConsumerStep(d) \/ Cancel(d)
       PROVE  UNCHANGED <<sub, wire, lossy, arrived>>
  BY <1>11 DEF SubscribeClosed, ForwarderStep, ForwardTake, ForwardGive, ForwardEnd, ConsumerStep,
               Receive, EndOfStream, Quit, Cancel, connVars, fwdVars
<1>12. ASSUME NEW d \in Consumers, Subscribe(d) \/ Confirm(d) \/ Reconnect(d)
       PROVE  Kept
  BY <1>12 DEF Unsubscribed, Subscribe, Confirm, Reconnect, fwdVars, TypeOK, InStream
<1>. HIDE DEF Kept
<1>. QED
  BY <1>1, <1>2, <1>3, <1>4, <1>5, <1>6, <1>7, <1>8, <1>9, <1>10, <1>11, <1>12 DEF Next, PublisherStep

LEMMA UnsubscribedStep == TypeInv /\ Unsubscribed /\ [Next]_vars => Unsubscribed'
<1>. SUFFICES ASSUME TypeInv, Unsubscribed, [Next]_vars PROVE Unsubscribed'
  OBVIOUS
<1>. USE DEF TypeInv, TypeOK, Unsubscribed
<1>1. CASE BeginClose \/ CloseClient \/ UNCHANGED vars
  BY <1>1 DEF BeginClose, CloseClient, vars, connVars, fwdVars, consumerVars
<1>2. ASSUME NEW p \in Publishers, Publish(p) \/ PublishClosed(p) \/ PublisherStep(p)
      PROVE  Unsubscribed'
  BY <1>2 DEF Publish, PublishClosed, PublisherStep, Execute, Reply, Retry, Fail, connVars,
              fwdVars, consumerVars
<1>3. ASSUME NEW e \in Event, ExecuteLate(e) PROVE Unsubscribed'
  BY <1>3 DEF ExecuteLate, fwdVars, consumerVars
<1>4. ASSUME NEW c \in Consumers,
             \/ Subscribe(c) \/ SubscribeClosed(c) \/ Confirm(c) \/ Break(c) \/ Reconnect(c)
             \/ ClosePubSub(c) \/ ForwardCtx(c)
      PROVE  Unsubscribed'
  <2>1. CASE Subscribe(c)
    BY <1>4, <2>1 DEF Subscribe
  <2>2. CASE SubscribeClosed(c)
    BY <1>4, <2>2 DEF SubscribeClosed, connVars, fwdVars
  <2>3. CASE Confirm(c)
    BY <1>4, <2>3 DEF Confirm, fwdVars, consumerVars
  <2>4. CASE Break(c)
    BY <1>4, <2>4 DEF Break, Cut, fwdVars, consumerVars
  <2>5. CASE Reconnect(c)
    BY <1>4, <2>5 DEF Reconnect, fwdVars, consumerVars
  <2>6. CASE ClosePubSub(c)
    BY <1>4, <2>6 DEF ClosePubSub, Cut, fwdVars, consumerVars
  <2>7. CASE ForwardCtx(c)
    BY <1>4, <2>7 DEF ForwardCtx, Cut, consumerVars
  <2>. QED
    BY <1>4, <2>1, <2>2, <2>3, <2>4, <2>5, <2>6, <2>7
<1>5. ASSUME NEW c \in Consumers,
             Arrive(c) \/ Overflow(c) \/ ForwarderStep(c) \/ ConsumerStep(c) \/ Cancel(c)
      PROVE  Unsubscribed'
  <2>1. CASE Arrive(c)
    BY <1>5, <2>1 DEF Arrive, consumerVars
  <2>2. CASE Overflow(c)
    BY <1>5, <2>2 DEF Overflow, fwdVars, consumerVars
  <2>3. CASE ForwarderStep(c)
    BY <1>5, <2>3 DEF ForwarderStep, ForwardTake, ForwardGive, ForwardEnd, connVars, consumerVars
  <2>4. CASE ConsumerStep(c)
    BY <1>5, <2>4 DEF ConsumerStep, Receive, EndOfStream, Quit, connVars, fwdVars
  <2>5. CASE Cancel(c)
    BY <1>5, <2>5 DEF Cancel, connVars, fwdVars
  <2>. QED
    BY <1>5, <2>1, <2>2, <2>3, <2>4, <2>5
<1>. QED
  BY <1>1, <1>2, <1>3, <1>4, <1>5 DEF Next

LEMMA OutcomeTo ==
  ASSUME TypeInv, NEW p \in Publishers, NEW n \in DOMAIN result[p]
  PROVE  result[p][n].to \subseteq Consumers
<1>1. result[p] \in Seq(Outcome)
  BY DEF TypeInv, TypeOK
<1>2. result[p][n] \in Outcome
  BY <1>1, ElementOfSeq, LenProperties
<1>. QED
  BY <1>2 DEF Outcome

\* A step that leaves the calls alone keeps every promise.
LEMMA PromisesKept ==
  ASSUME NilInv, Kept, UNCHANGED <<pub, heard, result>>
  PROVE  HeardStayActive' /\ ExecutedIsSent' /\ NilMeansSent'
<1>1. HeardStayActive'
  BY DEF NilInv, TypeInv, TypeOK, HeardStayActive, Kept
<1>2. ExecutedIsSent'
  <2>1. \A p \in Publishers : Current(p)' = Current(p)
    BY DEF Current
  <2>. QED
    BY <2>1 DEF NilInv, TypeInv, TypeOK, ExecutedIsSent, Kept, InStream
<1>3. NilMeansSent'
  <2>. SUFFICES ASSUME NEW p \in Publishers, NEW n \in DOMAIN result[p],
                       result[p][n].err = "nil", NEW c \in result[p][n].to \ lossy'
                PROVE  InStream(c, <<p, n>>)'
    BY DEF NilMeansSent, InStream
  <2>1. c \in Consumers
    BY OutcomeTo DEF NilInv
  <2>2. InStream(c, <<p, n>>)
    BY DEF Kept, NilInv, NilMeansSent, InStream
  <2>. QED
    BY <2>1, <2>2 DEF Kept
<1>. QED
  BY <1>1, <1>2, <1>3

\* A call that returns keeps them if its own is kept.
LEMMA ReturnKeeps ==
  ASSUME NilInv, NEW p \in Publishers, NEW err \in {"nil", "closed", "failed"}, Return(p, err),
         UNCHANGED <<connVars, arrived>>,
         err = "nil" => pub[p] = "executed"
  PROVE  HeardStayActive' /\ ExecutedIsSent' /\ NilMeansSent'
<1>. DEFINE new == [err |-> err, to |-> heard[p]]
<1>1. /\ new \in Outcome
      /\ result[p] \in Seq(Outcome) /\ Len(result[p]) \in Nat
  BY LenProperties DEF NilInv, TypeInv, TypeOK, Outcome
<1>2. /\ result'[p] = Append(result[p], new) /\ heard'[p] = {} /\ pub'[p] = "idle"
      /\ \A q \in Publishers \ {p} :
           result'[q] = result[q] /\ heard'[q] = heard[q] /\ pub'[q] = pub[q]
  BY DEF Return, NilInv, TypeInv, TypeOK
<1>3. UNCHANGED <<sub, wire, lossy, arrived>>
  BY DEF connVars
<1>4. HeardStayActive'
  BY <1>2, <1>3 DEF NilInv, HeardStayActive
<1>5. ExecutedIsSent'
  <2>1. \A q \in Publishers \ {p} : Current(q)' = Current(q)
    BY <1>2 DEF Current
  <2>. QED
    BY <1>2, <1>3, <2>1 DEF NilInv, ExecutedIsSent, InStream
<1>6. NilMeansSent'
  <2>. SUFFICES ASSUME NEW q \in Publishers, NEW n \in DOMAIN result'[q],
                       result'[q][n].err = "nil", NEW c \in result'[q][n].to \ lossy
                PROVE  InStream(c, <<q, n>>)
    BY <1>3 DEF NilMeansSent, InStream
  <2>1. CASE q # p
    BY <1>2, <2>1 DEF NilInv, NilMeansSent, InStream
  <2>2. CASE q = p
    <3>. HIDE DEF new
    <3>1. /\ DOMAIN result'[p] = 1..(Len(result[p]) + 1)
          /\ DOMAIN result[p] = 1..Len(result[p])
          /\ \A i \in 1..Len(result[p]) : result'[p][i] = result[p][i]
          /\ result'[p][Len(result[p]) + 1] = new
      BY <1>1, <1>2, AppendProperties, LenProperties
    <3>2. CASE n \in 1..Len(result[p])
      BY <2>2, <3>1, <3>2 DEF NilInv, NilMeansSent, InStream
    <3>3. CASE n = Len(result[p]) + 1
      <4>1. err = "nil" /\ c \in heard[p] \ lossy
        BY <2>2, <3>1, <3>3 DEF new
      <4>2. InStream(c, Current(p))
        BY <4>1 DEF NilInv, ExecutedIsSent
      <4>. QED
        BY <2>2, <3>3, <4>2 DEF Current
    <3>4. n \in 1..Len(result[p]) \/ n = Len(result[p]) + 1
      BY <1>1, <2>2, <3>1
    <3>. QED
      BY <3>2, <3>3, <3>4
  <2>. QED
    BY <2>1, <2>2
<1>. QED
  BY <1>4, <1>5, <1>6

LEMMA ExecuteKeeps ==
  ASSUME NilInv, NEW p \in Publishers, Execute(p), Kept
  PROVE  HeardStayActive' /\ ExecutedIsSent' /\ NilMeansSent'
<1>1. Current(p) \in Event
  BY CurrentType DEF Execute, NilInv
<1>2. ASSUME NEW c \in heard[p] \ lossy PROVE InStream(c, Current(p))'
  <2>1. c \in Consumers /\ wire[c] \in Seq(Event)
    BY DEF NilInv, TypeInv, TypeOK
  <2>2. wire'[c] = Append(wire[c], Current(p))
    BY <2>1 DEF Execute, FanOut, Active, NilInv, HeardStayActive
  <2>3. Current(p)' = Current(p)
    BY DEF Execute, Current
  <2>. QED
    BY <1>1, <2>1, <2>2, <2>3, HasAppended DEF InStream
<1>3. UNCHANGED <<sub, lossy, heard, result>> /\ pub' = [pub EXCEPT ![p] = "executed"]
  BY DEF Execute
<1>4. ExecutedIsSent'
  <2>. SUFFICES ASSUME NEW q \in Publishers, pub'[q] = "executed", NEW c \in heard[q] \ lossy
                PROVE  InStream(c, Current(q))'
    BY <1>3 DEF ExecutedIsSent
  <2>1. CASE q = p
    BY <1>2, <2>1
  <2>2. CASE q # p
    <3>1. pub[q] = "executed" /\ c \in Consumers /\ Current(q)' = Current(q)
      BY <1>3, <2>2 DEF NilInv, TypeInv, TypeOK, Current
    <3>2. InStream(c, Current(q))
      BY <3>1 DEF NilInv, ExecutedIsSent
    <3>. QED
      BY <1>3, <3>1, <3>2 DEF Kept, InStream
  <2>. QED
    BY <2>1, <2>2
<1>5. HeardStayActive'
  BY <1>3 DEF NilInv, HeardStayActive
<1>6. NilMeansSent'
  <2>. SUFFICES ASSUME NEW q \in Publishers, NEW n \in DOMAIN result[q],
                       result[q][n].err = "nil", NEW c \in result[q][n].to \ lossy
                PROVE  InStream(c, <<q, n>>)'
    BY <1>3 DEF NilMeansSent, InStream
  <2>1. c \in Consumers
    BY OutcomeTo DEF NilInv
  <2>2. InStream(c, <<q, n>>)
    BY DEF NilInv, NilMeansSent, InStream
  <2>. QED
    BY <1>3, <2>1, <2>2 DEF Kept
<1>. QED
  BY <1>4, <1>5, <1>6

LEMMA NilStep == NilInv /\ [Next]_vars => NilInv'
<1>. SUFFICES ASSUME NilInv, [Next]_vars PROVE NilInv'
  OBVIOUS
<1>1. TypeInv' /\ Unsubscribed' /\ Kept
  BY TypeStep, UnsubscribedStep, StreamKept DEF NilInv
<1>2. SUFFICES HeardStayActive' /\ ExecutedIsSent' /\ NilMeansSent'
  BY <1>1 DEF NilInv
<1>3. ASSUME NEW p \in Publishers, Publish(p)
      PROVE  HeardStayActive' /\ ExecutedIsSent' /\ NilMeansSent'
  <2>1. /\ UNCHANGED <<sub, wire, lossy, arrived, result>>
        /\ pub' = [pub EXCEPT ![p] = "sending"]
        /\ heard' = [heard EXCEPT ![p] = Active]
    BY <1>3 DEF Publish, connVars, fwdVars
  <2>2. \A q \in Publishers : Current(q)' = Current(q)
    BY <2>1 DEF Current
  <2>. QED
    BY <2>1, <2>2
    DEF NilInv, TypeInv, TypeOK, Active, HeardStayActive, ExecutedIsSent, NilMeansSent, InStream
<1>4. ASSUME NEW p \in Publishers, PublishClosed(p) \/ Reply(p) \/ Fail(p)
      PROVE  HeardStayActive' /\ ExecutedIsSent' /\ NilMeansSent'
  <2>1. /\ UNCHANGED <<connVars, arrived>>
        /\ \/ Return(p, "closed")
           \/ Return(p, "failed")
           \/ Return(p, "nil") /\ pub[p] = "executed"
    BY <1>4 DEF PublishClosed, Reply, Fail, fwdVars
  <2>. QED
    BY <2>1, ReturnKeeps
<1>5. ASSUME NEW p \in Publishers, Execute(p)
      PROVE  HeardStayActive' /\ ExecutedIsSent' /\ NilMeansSent'
  BY <1>1, <1>5, ExecuteKeeps
<1>6. ASSUME NEW p \in Publishers, Retry(p)
      PROVE  HeardStayActive' /\ ExecutedIsSent' /\ NilMeansSent'
  <2>1. /\ UNCHANGED <<sub, wire, lossy, arrived, heard, result>>
        /\ pub' = [pub EXCEPT ![p] = "sending"]
    BY <1>6 DEF Retry, connVars, fwdVars
  <2>2. \A q \in Publishers : Current(q)' = Current(q)
    BY <2>1 DEF Current
  <2>. QED
    BY <2>1, <2>2
    DEF NilInv, TypeInv, TypeOK, HeardStayActive, ExecutedIsSent, NilMeansSent, InStream
<1>7. ASSUME \/ BeginClose \/ CloseClient \/ UNCHANGED vars
             \/ \E e \in Event : ExecuteLate(e)
             \/ \E c \in Consumers :
                  \/ Subscribe(c) \/ SubscribeClosed(c) \/ Confirm(c) \/ Break(c) \/ Reconnect(c)
                  \/ Arrive(c) \/ Overflow(c) \/ ForwardCtx(c) \/ ForwarderStep(c)
                  \/ ConsumerStep(c) \/ Cancel(c) \/ ClosePubSub(c)
      PROVE  UNCHANGED <<pub, heard, result>>
  BY <1>7 DEF BeginClose, CloseClient, vars, ExecuteLate, Subscribe, SubscribeClosed, Confirm,
              Break, Reconnect, Arrive, Overflow, ForwardCtx, ForwarderStep, ForwardTake,
              ForwardGive, ForwardEnd, ConsumerStep, Receive, EndOfStream, Quit, Cancel,
              ClosePubSub, pubVars
<1>. QED
  BY <1>1, <1>3, <1>4, <1>5, <1>6, <1>7, PromisesKept DEF Next, PublisherStep

\* A publish that returned nil reached every subscription that was confirmed when it
\* began and has since lost nothing to its connection, a full channel or its end.
THEOREM RedisNilMeansSent == Spec => []NilMeansSent
<1>1. Init => NilInv
  BY TypeInit, RedisAssumption
  DEF Init, NilInv, Unsubscribed, HeardStayActive, ExecutedIsSent, NilMeansSent
<1>2. NilInv => NilMeansSent
  BY DEF NilInv
<1>. QED
  BY <1>1, <1>2, NilStep, PTL DEF Spec
===============================================================================
