------------------------------ MODULE RedisBroker ------------------------------
(***************************************************************************)
(* RedisBroker of pkg/broker/redis.go: events travel over Redis Pub/Sub,     *)
(* and one forwarding goroutine per subscription moves them from go-redis'   *)
(* channel to the Go channel the consumer reads.  The raw and the screened   *)
(* half have the same body on two Redis channels; this is one of them.      *)
(*                                                                          *)
(* An event passes wire (sent by the server, unread), redisCh (go-redis,     *)
(* which drops a message when it is full for a minute), the hand of the      *)
(* forwarder, ch, and the consumer.  Connections break and are re-made by     *)
(* go-redis, which also sends a PUBLISH again when its attempt failed, so    *)
(* the server may run a command twice, or after the client gave it up.      *)
(***************************************************************************)
EXTENDS Integers, Sequences

CONSTANTS
  Publishers,
  Consumers,   \* each subscribes once, with the context its loop selects on
  None,        \* the forwarder holds no event
  ChanSize,    \* capacity of redisCh: 100
  BufferSize,  \* capacity of ch
  MaxRetries,  \* attempts go-redis adds to the first
  MaxPublish   \* bound on the calls of one publisher

Event == Publishers \X (1..MaxPublish)

ASSUME RedisAssumption ==
  /\ ChanSize \in Nat \ {0}
  /\ BufferSize \in Nat \ {0}
  /\ MaxRetries \in Nat
  /\ MaxPublish \in Nat
  /\ None \notin Event

VARIABLES
  mode,      \* "open"; "closing" while Close holds the mutex with closed set; "closed"
  sub,       \* consumer -> its PubSub: "none", "pending", "active", "down" or "shut"
  wire,      \* consumer -> messages on its connection
  redisCh,   \* consumer -> pubsub.Channel()
  hand,      \* consumer -> event its forwarder is about to send
  ch,        \* consumer -> the channel SubscribeRaw returned
  fwd,       \* consumer -> its forwarder: "none", "running" or "ended" (ch is closed)
  ctxDone,   \* consumer -> its context is done
  consumer,  \* consumer -> "new", "reading", "refused", "ended" or "quit"
  taken,     \* consumer -> the events it received
  arrived,   \* consumer -> the messages that came off its connection
  lossy,     \* the subscriptions that lost a connection, overflowed or were shut
  pub,       \* publisher -> "idle", "sending" or "executed"
  tries,     \* publisher -> retries of the call
  heard,     \* publisher -> the subscriptions that were active when its call began
  late,      \* commands the client gave up and the server has not seen
  result     \* publisher -> what each call returned, and who listened when it began

connVars == <<sub, wire, lossy>>
fwdVars == <<redisCh, hand, ch, fwd, arrived>>
consumerVars == <<ctxDone, consumer, taken>>
pubVars == <<pub, tries, heard, late, result>>
vars == <<mode, connVars, fwdVars, consumerVars, pubVars>>

Outcome == [err : {"nil", "closed", "failed"}, to : SUBSET Consumers]

TypeOK ==
  /\ mode \in {"open", "closing", "closed"}
  /\ sub \in [Consumers -> {"none", "pending", "active", "down", "shut"}]
  /\ wire \in [Consumers -> Seq(Event)]
  /\ redisCh \in [Consumers -> Seq(Event)]
  /\ hand \in [Consumers -> Event \cup {None}]
  /\ ch \in [Consumers -> Seq(Event)]
  /\ \A c \in Consumers : Len(redisCh[c]) <= ChanSize /\ Len(ch[c]) <= BufferSize
  /\ fwd \in [Consumers -> {"none", "running", "ended"}]
  /\ ctxDone \in [Consumers -> BOOLEAN]
  /\ consumer \in [Consumers -> {"new", "reading", "refused", "ended", "quit"}]
  /\ taken \in [Consumers -> Seq(Event)]
  /\ arrived \in [Consumers -> Seq(Event)]
  /\ lossy \subseteq Consumers
  /\ pub \in [Publishers -> {"idle", "sending", "executed"}]
  /\ tries \in [Publishers -> 0..MaxRetries]
  /\ heard \in [Publishers -> SUBSET Consumers]
  /\ late \subseteq Event
  /\ result \in [Publishers -> Seq(Outcome)]

Init ==
  /\ mode = "open"
  /\ sub = [c \in Consumers |-> "none"]
  /\ wire = [c \in Consumers |-> <<>>]
  /\ redisCh = [c \in Consumers |-> <<>>]
  /\ hand = [c \in Consumers |-> None]
  /\ ch = [c \in Consumers |-> <<>>]
  /\ fwd = [c \in Consumers |-> "none"]
  /\ ctxDone = [c \in Consumers |-> FALSE]
  /\ consumer = [c \in Consumers |-> "new"]
  /\ taken = [c \in Consumers |-> <<>>]
  /\ arrived = [c \in Consumers |-> <<>>]
  /\ lossy = {}
  /\ pub = [p \in Publishers |-> "idle"]
  /\ tries = [p \in Publishers |-> 0]
  /\ heard = [p \in Publishers |-> {}]
  /\ late = {}
  /\ result = [p \in Publishers |-> <<>>]

-------------------------------------------------------------------------------
(* PublishRaw and PublishScreened: closed is read under the mutex, the rest   *)
(* runs without it.                                                          *)

Current(p) == <<p, Len(result[p]) + 1>>
Active == {c \in Consumers : sub[c] = "active"}
MayPublish(p) == pub[p] = "idle" /\ Len(result[p]) < MaxPublish

Publish(p) ==
  /\ MayPublish(p)
  /\ mode = "open"
  /\ pub' = [pub EXCEPT ![p] = "sending"]
  /\ heard' = [heard EXCEPT ![p] = Active]
  /\ UNCHANGED <<mode, connVars, fwdVars, consumerVars, tries, late, result>>

Return(p, err) ==
  /\ pub' = [pub EXCEPT ![p] = "idle"]
  /\ tries' = [tries EXCEPT ![p] = 0]
  /\ result' = [result EXCEPT ![p] = Append(@, [err |-> err, to |-> heard[p]])]
  /\ heard' = [heard EXCEPT ![p] = {}]

PublishClosed(p) ==
  /\ MayPublish(p)
  /\ mode = "closed"
  /\ Return(p, "closed")
  /\ UNCHANGED <<mode, connVars, fwdVars, consumerVars, late>>

\* The server runs PUBLISH: one copy to every active subscription.
FanOut(e) ==
  wire' = [c \in Consumers |-> IF c \in Active THEN Append(wire[c], e) ELSE wire[c]]

Execute(p) ==
  /\ pub[p] = "sending"
  /\ mode # "closed"
  /\ FanOut(Current(p))
  /\ pub' = [pub EXCEPT ![p] = "executed"]
  /\ UNCHANGED <<mode, sub, lossy, fwdVars, consumerVars, tries, heard, late, result>>

Reply(p) ==
  /\ pub[p] = "executed"
  /\ mode # "closed"
  /\ Return(p, "nil")
  /\ UNCHANGED <<mode, connVars, fwdVars, consumerVars, late>>

\* The client gives an attempt up; a command that was sent may still reach the server.
GiveUp(p) ==
  \/ UNCHANGED late
  \/ pub[p] = "sending" /\ late' = late \cup {Current(p)}

\* The attempt lost its connection, or timed out, and go-redis sends it again.
Retry(p) ==
  /\ pub[p] # "idle"
  /\ mode # "closed"
  /\ tries[p] < MaxRetries
  /\ GiveUp(p)
  /\ pub' = [pub EXCEPT ![p] = "sending"]
  /\ tries' = [tries EXCEPT ![p] = @ + 1]
  /\ UNCHANGED <<mode, connVars, fwdVars, consumerVars, heard, result>>

\* Variant: the error of Publish is not returned.
Fail_Ignored(p) ==
  /\ pub[p] # "idle"
  /\ GiveUp(p)
  /\ Return(p, "nil")
  /\ UNCHANGED <<mode, connVars, fwdVars, consumerVars>>

\* The retries are used up, the caller's context ended, or the client is closed.
Fail(p) ==
  /\ pub[p] # "idle"
  /\ GiveUp(p)
  /\ Return(p, "failed")
  /\ UNCHANGED <<mode, connVars, fwdVars, consumerVars>>

ExecuteLate(e) ==
  /\ e \in late
  /\ late' = late \ {e}
  /\ FanOut(e)
  /\ UNCHANGED <<mode, sub, lossy, fwdVars, consumerVars, pub, tries, heard, result>>

-------------------------------------------------------------------------------
(* SubscribeRaw and SubscribeScreened, and the connection go-redis keeps.     *)

\* SUBSCRIBE is on its way; the call does not wait for it.
Subscribe(c) ==
  /\ consumer[c] = "new"
  /\ mode = "open"
  /\ sub' = [sub EXCEPT ![c] = "pending"]
  /\ fwd' = [fwd EXCEPT ![c] = "running"]
  /\ consumer' = [consumer EXCEPT ![c] = "reading"]
  /\ UNCHANGED <<mode, wire, lossy, redisCh, hand, ch, arrived, ctxDone, taken, pubVars>>

SubscribeClosed(c) ==
  /\ consumer[c] = "new"
  /\ mode = "closed"
  /\ consumer' = [consumer EXCEPT ![c] = "refused"]
  /\ UNCHANGED <<mode, connVars, fwdVars, ctxDone, taken, pubVars>>

Confirm(c) ==
  /\ sub[c] = "pending"
  /\ sub' = [sub EXCEPT ![c] = "active"]
  /\ UNCHANGED <<mode, wire, lossy, fwdVars, consumerVars, pubVars>>

\* The subscription ends or breaks, with whatever was on the wire, but for a message
\* that go-redis has read and is about to put in redisCh.
Cut(c, to) ==
  /\ sub' = [sub EXCEPT ![c] = to]
  /\ \/ wire' = [wire EXCEPT ![c] = <<>>]
     \/ wire[c] # <<>> /\ wire' = [wire EXCEPT ![c] = <<Head(@)>>]
  /\ lossy' = lossy \cup {c}

Break(c) ==
  /\ sub[c] \in {"pending", "active"}
  /\ Cut(c, "down")
  /\ UNCHANGED <<mode, fwdVars, consumerVars, pubVars>>

Reconnect(c) ==
  /\ sub[c] = "down"
  /\ sub' = [sub EXCEPT ![c] = "pending"]
  /\ UNCHANGED <<mode, wire, lossy, fwdVars, consumerVars, pubVars>>

Arrive(c) ==
  /\ wire[c] # <<>>
  /\ Len(redisCh[c]) < ChanSize
  /\ wire' = [wire EXCEPT ![c] = Tail(@)]
  /\ redisCh' = [redisCh EXCEPT ![c] = Append(@, Head(wire[c]))]
  /\ arrived' = [arrived EXCEPT ![c] = Append(@, Head(wire[c]))]
  /\ UNCHANGED <<mode, sub, lossy, hand, ch, fwd, consumerVars, pubVars>>

\* redisCh stayed full for a minute.
Overflow(c) ==
  /\ wire[c] # <<>>
  /\ Len(redisCh[c]) = ChanSize
  /\ wire' = [wire EXCEPT ![c] = Tail(@)]
  /\ lossy' = lossy \cup {c}
  /\ UNCHANGED <<mode, sub, fwdVars, consumerVars, pubVars>>

-------------------------------------------------------------------------------
(* The forwarding goroutine. *)

\* case msg := <-redisCh, and unmarshalling.
ForwardTake(c) ==
  /\ fwd[c] = "running"
  /\ hand[c] = None
  /\ redisCh[c] # <<>>
  /\ hand' = [hand EXCEPT ![c] = Head(redisCh[c])]
  /\ redisCh' = [redisCh EXCEPT ![c] = Tail(@)]
  /\ UNCHANGED <<mode, connVars, ch, fwd, arrived, consumerVars, pubVars>>

\* Variant: off by one at the capacity.
ChHasRoom_OneMore(c) == Len(ch[c]) <= BufferSize
ChHasRoom(c) == Len(ch[c]) < BufferSize

\* case ch <- &ev.  Variant: an event that finds ch full is dropped.
ForwardGive_OrDrop(c) ==
  /\ fwd[c] = "running"
  /\ hand[c] # None
  /\ ch' = [ch EXCEPT ![c] = IF ChHasRoom(c) THEN Append(@, hand[c]) ELSE @]
  /\ hand' = [hand EXCEPT ![c] = None]
  /\ UNCHANGED <<mode, connVars, redisCh, fwd, arrived, consumerVars, pubVars>>
ForwardGive(c) ==
  /\ fwd[c] = "running"
  /\ hand[c] # None
  /\ ChHasRoom(c)
  /\ ch' = [ch EXCEPT ![c] = Append(@, hand[c])]
  /\ hand' = [hand EXCEPT ![c] = None]
  /\ UNCHANGED <<mode, connVars, redisCh, fwd, arrived, consumerVars, pubVars>>

\* case <-ctx.Done() of either select; the deferred calls close ch and the PubSub.
\* Variant: the inner select, around the send, has no such case.
StopsForCtx_OuterOnly(c) == ctxDone[c] /\ hand[c] = None
StopsForCtx(c) == ctxDone[c]

ForwardCtx(c) ==
  /\ fwd[c] = "running"
  /\ StopsForCtx(c)
  /\ fwd' = [fwd EXCEPT ![c] = "ended"]
  /\ Cut(c, "shut")
  /\ UNCHANGED <<mode, redisCh, hand, ch, arrived, consumerVars, pubVars>>

\* redisCh is empty and closed, which go-redis does when it reads from the shut PubSub.
\* Variants: the PubSub is shut, redisCh not yet empty; nobody looks at ok.
SeesEnd_TooEarly(c) == sub[c] = "shut"
SeesEnd_Never(c) == FALSE
SeesEnd(c) == sub[c] = "shut" /\ wire[c] = <<>> /\ redisCh[c] = <<>>

ForwardEnd(c) ==
  /\ fwd[c] = "running"
  /\ hand[c] = None
  /\ SeesEnd(c)
  /\ fwd' = [fwd EXCEPT ![c] = "ended"]
  /\ UNCHANGED <<mode, connVars, redisCh, hand, ch, arrived, consumerVars, pubVars>>

-------------------------------------------------------------------------------
(* The consumer loop: FraudService.Start, MarketingService.StartConsumer. *)

Receive(c) ==
  /\ consumer[c] = "reading"
  /\ ch[c] # <<>>
  /\ ch' = [ch EXCEPT ![c] = Tail(@)]
  /\ taken' = [taken EXCEPT ![c] = Append(@, Head(ch[c]))]
  /\ UNCHANGED <<mode, connVars, redisCh, hand, fwd, arrived, ctxDone, consumer, pubVars>>

EndOfStream(c) ==
  /\ consumer[c] = "reading"
  /\ ch[c] = <<>>
  /\ fwd[c] = "ended"
  /\ consumer' = [consumer EXCEPT ![c] = "ended"]
  /\ UNCHANGED <<mode, connVars, fwdVars, ctxDone, taken, pubVars>>

Quit(c) ==
  /\ consumer[c] = "reading"
  /\ ctxDone[c]
  /\ consumer' = [consumer EXCEPT ![c] = "quit"]
  /\ UNCHANGED <<mode, connVars, fwdVars, ctxDone, taken, pubVars>>

Cancel(c) ==
  /\ consumer[c] # "new"
  /\ ~ctxDone[c]
  /\ ctxDone' = [ctxDone EXCEPT ![c] = TRUE]
  /\ UNCHANGED <<mode, connVars, fwdVars, consumer, taken, pubVars>>

-------------------------------------------------------------------------------
(* Close holds the mutex: no call reads closed and nobody subscribes meanwhile.  *)
(* A second Close returns at once and changes nothing.                          *)

BeginClose ==
  /\ mode = "open"
  /\ mode' = "closing"
  /\ UNCHANGED <<connVars, fwdVars, consumerVars, pubVars>>

ClosePubSub(c) ==
  /\ mode = "closing"
  /\ sub[c] \in {"pending", "active", "down"}
  /\ Cut(c, "shut")
  /\ UNCHANGED <<mode, fwdVars, consumerVars, pubVars>>

\* The loop over r.pubsubs is done.  Variant: there is no loop.
AllShut_Unchecked == TRUE
AllShut == \A c \in Consumers : sub[c] \in {"none", "shut"}

CloseClient ==
  /\ mode = "closing"
  /\ AllShut
  /\ mode' = "closed"
  /\ UNCHANGED <<connVars, fwdVars, consumerVars, pubVars>>

-------------------------------------------------------------------------------
ForwarderStep(c) == ForwardTake(c) \/ ForwardGive(c) \/ ForwardEnd(c)
ConsumerStep(c) == Receive(c) \/ EndOfStream(c) \/ Quit(c)
PublisherStep(p) == Execute(p) \/ Reply(p) \/ Retry(p) \/ Fail(p)

Next ==
  \/ BeginClose
  \/ CloseClient
  \/ \E p \in Publishers : Publish(p) \/ PublishClosed(p) \/ PublisherStep(p)
  \/ \E e \in Event : ExecuteLate(e)
  \/ \E c \in Consumers :
       \/ Subscribe(c)
       \/ SubscribeClosed(c)
       \/ Confirm(c)
       \/ Break(c)
       \/ Reconnect(c)
       \/ Arrive(c)
       \/ Overflow(c)
       \/ ForwardCtx(c)
       \/ ForwarderStep(c)
       \/ ConsumerStep(c)
       \/ Cancel(c)
       \/ ClosePubSub(c)

Spec == Init /\ [][Next]_vars

\* The forwarders, go-redis' readers and a Close that has begun go on; a select in
\* which ctx.Done stays ready chooses it some time.  Nothing is assumed of the server,
\* the network or the consumers.
Fairness ==
  /\ \A c \in Consumers :
       /\ WF_vars(Arrive(c))
       /\ WF_vars(ForwarderStep(c))
       /\ WF_vars(ForwardCtx(c))
       /\ WF_vars(ClosePubSub(c))
  /\ WF_vars(CloseClient)
FairSpec == Spec /\ Fairness

ConsumerFairness == \A c \in Consumers : WF_vars(ConsumerStep(c))

-------------------------------------------------------------------------------
(* Properties. *)

\* All that is between the connection and the consumer, in order.
Held(c) == IF hand[c] = None THEN <<>> ELSE <<hand[c]>>
Forwarded(c) == taken[c] \o ch[c] \o Held(c) \o redisCh[c]

\* What came off the connection reaches the consumer once and in order, through
\* three buffers and however slow it is: the forwarder waits where the in-memory
\* broker drops.
ForwardsEverything == \A c \in Consumers : Forwarded(c) = arrived[c]

\* A consumer whose context lives sees the end of its stream only after a Close, and
\* after all that had come off the connection by then: broken connections and
\* retries never end a stream.
EndMeansAll ==
  \A c \in Consumers :
    consumer[c] = "ended" /\ ~ctxDone[c] => mode # "open" /\ taken[c] = arrived[c]

Has(s, e) == \E i \in DOMAIN s : s[i] = e

\* A call that returned nil reached every subscription that was confirmed when it
\* began and has lost nothing to Redis, a full redisCh or an end since.
NilMeansSent ==
  \A p \in Publishers : \A n \in DOMAIN result[p] :
    result[p][n].err = "nil" =>
      \A c \in result[p][n].to \ lossy :
        Has(arrived[c], <<p, n>>) \/ Has(wire[c], <<p, n>>)

\* Once Close has returned no event comes in any more, also from calls that read
\* closed before it and from commands the server runs late.
Received(c) == Len(arrived[c]) + Len(wire[c])
ClosedIsSilent == [][mode = "closed" => \A c \in Consumers : Received(c)' <= Received(c)]_vars

\* A forwarder whose context ends stops, although its consumer has gone and left
\* it a full channel.
NoForwarderLeak ==
  \A c \in Consumers : ctxDone[c] /\ fwd[c] = "running" ~> fwd[c] = "ended"

\* After Close has begun, every consumer that goes on reading gets to the end of its stream.
Drained ==
  ConsumerFairness =>
    \A c \in Consumers :
      mode # "open" /\ consumer[c] = "reading" ~> consumer[c] \in {"ended", "quit"}
===============================================================================
