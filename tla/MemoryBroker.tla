----------------------------- MODULE MemoryBroker -----------------------------
(***************************************************************************)
(* InMemoryBroker of pkg/broker/broker.go: fan-out over buffered Go        *)
(* channels, guarded by one sync.RWMutex.                                  *)
(*                                                                         *)
(* A publisher is a goroutine inside PublishRaw or PublishScreened, which  *)
(* have the same body over rawSubs and screenedSubs; a topic selects the   *)
(* list.  It holds the read lock for the whole loop and makes one step for *)
(* each subscriber, so publishers interleave with each other and with the  *)
(* consumers, which receive without any lock.  Subscribe and Close hold    *)
(* the write lock; nothing but a receive can happen while they do, and a   *)
(* receive commutes with their loops, so each is one step under the lock.  *)
(*                                                                         *)
(* The n-th call of publisher p carries event <<p, n>>: the broker hands   *)
(* out the pointer it was given, so two calls never carry the same event.  *)
(***************************************************************************)
EXTENDS Integers, Sequences, Functions

CONSTANTS
  Topics,      \* the subscriber lists: rawSubs and screenedSubs
  Publishers,  \* goroutines that publish
  Consumers,   \* goroutines that subscribe once and receive
  Closers,     \* goroutines that call Close
  None,        \* no goroutine
  BufferSize,  \* capacity of every channel
  MaxPublish   \* bound on the calls of one publisher

ASSUME BrokerAssumption ==
  /\ Topics # {}
  /\ BufferSize \in Nat \ {0}
  /\ MaxPublish \in Nat
  /\ None \notin Consumers \cup Closers
  /\ Consumers \cap Closers = {}

VARIABLES
  closed,     \* b.closed
  subs,       \* topic -> b.rawSubs or b.screenedSubs, channels named by their consumer
  shut,       \* the channels that have been closed
  buf,        \* consumer -> contents of its channel
  writer,     \* the goroutine that announced a write lock, or None
  pc,         \* publisher -> "idle", or "sending" while it holds the read lock
  topic,      \* publisher -> topic of the call in progress
  next,       \* publisher -> index in subs[topic] of the next subscriber
  cancelled,  \* publisher -> its ctx is done
  result,     \* publisher -> what each call returned, and whom it addressed
  consumer,   \* consumer -> "new", "reading", "refused", "ended" or "quit"
  taken,      \* consumer -> the events it received, in order
  overflow,   \* the channels that were full when an event arrived
  closing,    \* closer -> "idle" or "done"
  crashed     \* the process panicked

lockVars == <<writer, closing>>
callVars == <<pc, topic, next, cancelled, result>>
chanVars == <<buf, taken, overflow>>
vars == <<closed, subs, shut, consumer, crashed, lockVars, callVars, chanVars>>

Event == Publishers \X (1..MaxPublish)
Goroutines == Consumers \cup Closers

\* What one call returned, and the subscribers it was meant for.
Outcome == [err : {"nil", "closed", "ctx"}, to : SUBSET Consumers]

TypeOK ==
  /\ closed \in BOOLEAN
  /\ subs \in [Topics -> Seq(Consumers)]
  /\ shut \subseteq Consumers
  /\ buf \in [Consumers -> Seq(Event)]
  /\ \A c \in Consumers : Len(buf[c]) <= BufferSize
  /\ writer \in Goroutines \cup {None}
  /\ pc \in [Publishers -> {"idle", "sending"}]
  /\ topic \in [Publishers -> Topics]
  /\ next \in [Publishers -> Nat \ {0}]
  /\ cancelled \in [Publishers -> BOOLEAN]
  /\ result \in [Publishers -> Seq(Outcome)]
  /\ consumer \in [Consumers -> {"new", "reading", "refused", "ended", "quit"}]
  /\ taken \in [Consumers -> Seq(Event)]
  /\ overflow \subseteq Consumers
  /\ closing \in [Closers -> {"idle", "done"}]
  /\ crashed \in BOOLEAN

Init ==
  /\ closed = FALSE
  /\ subs = [t \in Topics |-> <<>>]
  /\ shut = {}
  /\ buf = [c \in Consumers |-> <<>>]
  /\ writer = None
  /\ pc = [p \in Publishers |-> "idle"]
  /\ topic = [p \in Publishers |-> CHOOSE t \in Topics : TRUE]
  /\ next = [p \in Publishers |-> 1]
  /\ cancelled = [p \in Publishers |-> FALSE]
  /\ result = [p \in Publishers |-> <<>>]
  /\ consumer = [c \in Consumers |-> "new"]
  /\ taken = [c \in Consumers |-> <<>>]
  /\ overflow = {}
  /\ closing = [k \in Closers |-> "idle"]
  /\ crashed = FALSE

-------------------------------------------------------------------------------
(* The sync.RWMutex.  A publisher that is sending holds the read lock.  An   *)
(* announced writer keeps new readers out and enters when the last one left. *)

Sending(p) == pc[p] = "sending"

MayReadLock == writer = None

HoldsWriteLock(g) == writer = g /\ \A p \in Publishers : ~Sending(p)

Lock(g) ==
  /\ writer = None
  /\ \/ g \in Consumers /\ consumer[g] = "new"
     \/ g \in Closers /\ closing[g] = "idle"
  /\ writer' = g
  /\ UNCHANGED <<closed, subs, shut, consumer, crashed, closing, callVars, chanVars>>

-------------------------------------------------------------------------------
(* PublishRaw and PublishScreened. *)

Current(p) == <<p, Len(result[p]) + 1>>
Audience(p) == Range(subs[topic[p]])
Pending(p) == Sending(p) /\ next[p] <= Len(subs[topic[p]])
Target(p) == subs[topic[p]][next[p]]

\* The call returns, and the deferred RUnlock runs.
Return(p, err) ==
  /\ pc' = [pc EXCEPT ![p] = "idle"]
  /\ result' = [result EXCEPT ![p] = Append(@, [err |-> err, to |-> Audience(p)])]
  /\ next' = [next EXCEPT ![p] = 1]
  /\ cancelled' = [cancelled EXCEPT ![p] = FALSE]
  /\ UNCHANGED topic

\* Variant: the closed check is missing.
Publish_NoClosedCheck(p, t) ==
  /\ pc[p] = "idle"
  /\ Len(result[p]) < MaxPublish
  /\ MayReadLock
  /\ pc' = [pc EXCEPT ![p] = "sending"]
  /\ topic' = [topic EXCEPT ![p] = t]
  /\ UNCHANGED <<closed, subs, shut, consumer, crashed, lockVars, next, cancelled, result, chanVars>>

\* The read lock is taken on an open broker.  (A ctx that is done before the
\* call is a Cancel that follows at once.)
Publish(p, t) ==
  /\ pc[p] = "idle"
  /\ Len(result[p]) < MaxPublish
  /\ MayReadLock
  /\ ~closed
  /\ pc' = [pc EXCEPT ![p] = "sending"]
  /\ topic' = [topic EXCEPT ![p] = t]
  /\ UNCHANGED <<closed, subs, shut, consumer, crashed, lockVars, next, cancelled, result, chanVars>>

\* The closed broker refuses the event before the loop.
PublishClosed(p, t) ==
  /\ pc[p] = "idle"
  /\ Len(result[p]) < MaxPublish
  /\ MayReadLock
  /\ closed
  /\ topic' = [topic EXCEPT ![p] = t]
  /\ result' = [result EXCEPT ![p] = Append(@, [err |-> "closed", to |-> Range(subs[t])])]
  /\ UNCHANGED <<closed, subs, shut, consumer, crashed, lockVars, pc, next, cancelled, chanVars>>

\* case sub <- event.  A send on a closed channel panics (in Go also on a full one, which
\* makes no difference to whether a sender can ever meet a closed channel).
\* Variant: off by one at the capacity.
HasRoom_OneMore(c) == Len(buf[c]) <= BufferSize
HasRoom(c) == Len(buf[c]) < BufferSize

\* The loop moves to the next subscriber.  Variant: the same one again.
Advance_Stays(p) == UNCHANGED next
Advance(p) == next' = [next EXCEPT ![p] = @ + 1]

Deliver(p) ==
  /\ Pending(p)
  /\ HasRoom(Target(p))
  /\ buf' = [buf EXCEPT ![Target(p)] = Append(@, Current(p))]
  /\ crashed' = (crashed \/ Target(p) \in shut)
  /\ Advance(p)
  /\ UNCHANGED <<closed, subs, shut, consumer, lockVars, pc, topic, cancelled, result, taken, overflow>>

\* Variants: no default case, so the send waits; a drop that ends the call.
Drop_Blocks(p) == FALSE /\ UNCHANGED vars
Drop_Returns(p) ==
  /\ Pending(p)
  /\ ~HasRoom(Target(p))
  /\ ~cancelled[p]
  /\ overflow' = overflow \cup {Target(p)}
  /\ Return(p, "nil")
  /\ UNCHANGED <<closed, subs, shut, consumer, crashed, lockVars, buf, taken>>

\* default: the buffer is full and ctx is alive, the event is dropped for this subscriber.
Drop(p) ==
  /\ Pending(p)
  /\ ~HasRoom(Target(p))
  /\ ~cancelled[p]
  /\ overflow' = overflow \cup {Target(p)}
  /\ Advance(p)
  /\ UNCHANGED <<closed, subs, shut, consumer, crashed, lockVars, pc, topic, cancelled, result, buf, taken>>

\* case <-ctx.Done().  select picks it at random even when the channel has room.
Abandon(p) ==
  /\ Pending(p)
  /\ cancelled[p]
  /\ Return(p, "ctx")
  /\ UNCHANGED <<closed, subs, shut, consumer, crashed, lockVars, chanVars>>

\* Variant: ctx is looked at once more after the loop.
Finish_ChecksCtx(p) ==
  /\ Sending(p)
  /\ ~Pending(p)
  /\ Return(p, IF cancelled[p] THEN "ctx" ELSE "nil")
  /\ UNCHANGED <<closed, subs, shut, consumer, crashed, lockVars, chanVars>>

Finish(p) ==
  /\ Sending(p)
  /\ ~Pending(p)
  /\ Return(p, "nil")
  /\ UNCHANGED <<closed, subs, shut, consumer, crashed, lockVars, chanVars>>

\* The caller's context ends while the call runs.
Cancel(p) ==
  /\ Sending(p)
  /\ ~cancelled[p]
  /\ cancelled' = [cancelled EXCEPT ![p] = TRUE]
  /\ UNCHANGED <<closed, subs, shut, consumer, crashed, lockVars, pc, topic, next, result, chanVars>>

PublisherStep(p) == Deliver(p) \/ Drop(p) \/ Abandon(p) \/ Finish(p)

-------------------------------------------------------------------------------
(* SubscribeRaw and SubscribeScreened. *)

Subscribe(c, t) ==
  /\ HoldsWriteLock(c)
  /\ ~closed
  /\ subs' = [subs EXCEPT ![t] = Append(@, c)]
  /\ consumer' = [consumer EXCEPT ![c] = "reading"]
  /\ writer' = None
  /\ UNCHANGED <<closed, shut, crashed, closing, callVars, chanVars>>

SubscribeClosed(c) ==
  /\ HoldsWriteLock(c)
  /\ closed
  /\ consumer' = [consumer EXCEPT ![c] = "refused"]
  /\ writer' = None
  /\ UNCHANGED <<closed, subs, shut, crashed, closing, callVars, chanVars>>

-------------------------------------------------------------------------------
(* Close. *)

Channels == UNION {Range(subs[t]) : t \in Topics}

\* The channels close(ch) is called on.  Variant: one of the two loops is missing.
ToClose_OneTopic == Range(subs[CHOOSE t \in Topics : TRUE])
ToClose == Channels

\* Variant: Close does not take the lock.
Close_Unlocked(k) ==
  /\ closing[k] = "idle"
  /\ ~closed
  /\ closed' = TRUE
  /\ shut' = shut \cup ToClose
  /\ crashed' = (crashed \/ ToClose \cap shut # {})
  /\ closing' = [closing EXCEPT ![k] = "done"]
  /\ UNCHANGED <<writer, subs, consumer, callVars, chanVars>>

Close(k) ==
  /\ HoldsWriteLock(k)
  /\ ~closed
  /\ closed' = TRUE
  /\ shut' = shut \cup ToClose
  /\ crashed' = (crashed \/ ToClose \cap shut # {})
  /\ closing' = [closing EXCEPT ![k] = "done"]
  /\ writer' = None
  /\ UNCHANGED <<subs, consumer, callVars, chanVars>>

\* A second Close finds the broker closed and returns nil.
CloseAgain(k) ==
  /\ HoldsWriteLock(k)
  /\ closed
  /\ closing' = [closing EXCEPT ![k] = "done"]
  /\ writer' = None
  /\ UNCHANGED <<closed, subs, shut, consumer, crashed, callVars, chanVars>>

-------------------------------------------------------------------------------
(* A consumer loop: select over ctx.Done() and the channel, as in           *)
(* FraudService.Start and MarketingService.StartConsumer.                   *)

Receive(c) ==
  /\ consumer[c] = "reading"
  /\ buf[c] # <<>>
  /\ buf' = [buf EXCEPT ![c] = Tail(@)]
  /\ taken' = [taken EXCEPT ![c] = Append(@, Head(buf[c]))]
  /\ UNCHANGED <<closed, subs, shut, consumer, crashed, overflow, lockVars, callVars>>

\* event, ok := <-ch with ok = FALSE: the channel is closed and empty.
EndOfStream(c) ==
  /\ consumer[c] = "reading"
  /\ buf[c] = <<>>
  /\ c \in shut
  /\ consumer' = [consumer EXCEPT ![c] = "ended"]
  /\ UNCHANGED <<closed, subs, shut, crashed, lockVars, callVars, chanVars>>

\* ctx.Done(): the loop returns; its channel stays in the subscriber list.
Quit(c) ==
  /\ consumer[c] = "reading"
  /\ consumer' = [consumer EXCEPT ![c] = "quit"]
  /\ UNCHANGED <<closed, subs, shut, crashed, lockVars, callVars, chanVars>>

-------------------------------------------------------------------------------
ConsumerStep(c) == Receive(c) \/ EndOfStream(c)
WriterStep(g) ==
  \/ g \in Consumers /\ ((\E t \in Topics : Subscribe(g, t)) \/ SubscribeClosed(g))
  \/ g \in Closers /\ (Close(g) \/ CloseAgain(g))

Next ==
  \/ \E p \in Publishers :
       \/ \E t \in Topics : Publish(p, t) \/ PublishClosed(p, t)
       \/ Deliver(p)
       \/ Drop(p)
       \/ Abandon(p)
       \/ Finish(p)
       \/ Cancel(p)
  \/ \E c \in Consumers :
       \/ Lock(c)
       \/ \E t \in Topics : Subscribe(c, t)
       \/ SubscribeClosed(c)
       \/ Receive(c)
       \/ EndOfStream(c)
       \/ Quit(c)
  \/ \E k \in Closers : Lock(k) \/ Close(k) \/ CloseAgain(k)

Spec == Init /\ [][Next]_vars

\* The Go scheduler runs every goroutine that can run.  Nobody is obliged to
\* publish, to subscribe, to call Close or to cancel a context.
Fairness ==
  /\ \A p \in Publishers : WF_vars(PublisherStep(p))
  /\ \A g \in Goroutines : WF_vars(WriterStep(g))

FairSpec == Spec /\ Fairness

\* The consumers do not stall in their event handler.
ConsumerFairness == \A c \in Consumers : WF_vars(ConsumerStep(c))

-------------------------------------------------------------------------------
(* Properties. *)

\* Every event ever put in c's channel, in order.
Stream(c) == taken[c] \o buf[c]

\* Nothing is sent on a closed channel and no channel is closed twice, so no
\* interleaving of publishers, subscribers and closers panics (Close against
\* the send loops of PublishRaw and PublishScreened).
NoPanic == ~crashed

\* Close seals the broker: after it no channel gains an event, also when
\* publishers were waiting for the lock or arrive later.
Sealed == [][closed => \A c \in Consumers : Stream(c)' = Stream(c)]_vars

\* A call that returned nil reached every subscriber it addressed whose channel
\* was never full: a slow consumer loses its own events and nobody else's.
LosslessUntilOverflow ==
  \A p \in Publishers : \A n \in DOMAIN result[p] :
    result[p][n].err = "nil" =>
      \A c \in result[p][n].to \ overflow : <<p, n>> \in Range(Stream(c))

\* A call that failed was not delivered: on a closed broker to nobody, on a context that
\* ended between two subscribers to some of those it addressed but never to all of them.
\* With a single subscriber, as main has on each topic, the caller may publish again.
FailedMeansUndelivered ==
  \A p \in Publishers : \A n \in DOMAIN result[p] :
    LET r == result[p][n]
        got == {c \in Consumers : <<p, n>> \in Range(Stream(c))}
    IN  /\ r.err = "closed" => got = {}
        /\ r.err = "ctx" => got \subseteq r.to /\ got # r.to

\* The broker implements EventBus: no stream repeats or reorders the events of a
\* publisher, and a consumer sees the end of its stream only after all of it.
Bus == INSTANCE EventBus WITH
  open <- ~closed,
  member <- Channels,
  stream <- [c \in Consumers |-> Stream(c)],
  got <- [c \in Consumers |-> Len(taken[c])],
  ended <- {c \in Consumers : consumer[c] = "ended"}
ImplementsBus == Bus!Spec

\* A publish call returns even if no consumer ever receives again.
PublishReturns == \A p \in Publishers : Sending(p) ~> ~Sending(p)

\* A subscriber or closer that asked for the lock gets it and leaves, even if
\* no consumer ever receives again.
WriterGetsIn == writer # None ~> writer = None

\* After Close, every consumer still reading empties its channel and stops, if the
\* consumers do not stall in their event handler.
Drained ==
  ConsumerFairness =>
    \A c \in Consumers :
      closed /\ consumer[c] = "reading" ~> consumer[c] \in {"ended", "quit"}
===============================================================================
