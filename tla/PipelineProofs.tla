---------------------------- MODULE PipelineProofs ----------------------------
(***************************************************************************)
(* Proofs about Pipeline for every set of requests, purges, users and inputs *)
(* and every channel size.                                                  *)
(*                                                                          *)
(* TypeInv is the type invariant with the workers' hands.  FlowInv follows  *)
(* an event from place to place; the lemmas ...Moves say what a step does to *)
(* the places, and the lemmas ...Flow that it keeps FlowInv.  On top of it   *)
(* come, each by an invariant of its own, the theorems on contacts and on    *)
(* purges.                                                                  *)
(***************************************************************************)
EXTENDS Pipeline, TLAPS

\* A worker has an event in its hands exactly while it is not idle.
HandsFull ==
  /\ fraud.at = "idle" <=> fraud.r = None
  /\ mkt.at = "idle" <=> mkt.r = None

TypeInv == TypeOK /\ HandsFull

-------------------------------------------------------------------------------
(* Queues. *)

Distinct(q) == \A i, j \in DOMAIN q : q[i] = q[j] => i = j

LEMMA RangeOfAppend ==
  ASSUME NEW S, NEW q \in Seq(S), NEW e \in S
  PROVE  /\ Append(q, e) \in Seq(S)
         /\ Len(Append(q, e)) = Len(q) + 1
         /\ Range(Append(q, e)) = Range(q) \cup {e}
         /\ Distinct(q) /\ e \notin Range(q) => Distinct(Append(q, e))
<1>1. /\ Append(q, e) \in Seq(S)
      /\ Len(q) \in Nat
      /\ Len(Append(q, e)) = Len(q) + 1
      /\ DOMAIN Append(q, e) = 1..(Len(q) + 1)
      /\ DOMAIN q = 1..Len(q)
      /\ \A i \in 1..Len(q) : Append(q, e)[i] = q[i]
      /\ Append(q, e)[Len(q) + 1] = e
  OBVIOUS
<1>2. Range(Append(q, e)) = Range(q) \cup {e}
  <2>1. ASSUME NEW x \in Range(Append(q, e)) PROVE x \in Range(q) \cup {e}
    <3>1. PICK i \in 1..(Len(q) + 1) : x = Append(q, e)[i]
      BY <1>1, <2>1 DEF Range
    <3>2. CASE i = Len(q) + 1
      BY <1>1, <3>1, <3>2
    <3>3. CASE i \in 1..Len(q)
      BY <1>1, <3>1, <3>3 DEF Range
    <3>. QED
      BY <1>1, <3>2, <3>3
  <2>2. ASSUME NEW x \in Range(q) \cup {e} PROVE x \in Range(Append(q, e))
    <3>1. CASE x = e
      BY <1>1, <3>1 DEF Range
    <3>2. CASE x \in Range(q)
      <4>1. PICK i \in 1..Len(q) : x = q[i]
        BY <1>1, <3>2 DEF Range
      <4>2. i \in 1..(Len(q) + 1) /\ Append(q, e)[i] = x
        BY <1>1, <4>1
      <4>. QED
        BY <1>1, <4>2 DEF Range
    <3>. QED
      BY <2>2, <3>1, <3>2
  <2>. QED
    BY <2>1, <2>2
<1>3. ASSUME Distinct(q), e \notin Range(q) PROVE Distinct(Append(q, e))
  <2>1. \A i \in 1..Len(q) : q[i] # e
    BY <1>1, <1>3 DEF Range
  <2>. QED
    BY <1>1, <1>3, <2>1 DEF Distinct
<1>. QED
  BY <1>1, <1>2, <1>3

LEMMA RangeOfTail ==
  ASSUME NEW S, NEW q \in Seq(S), q # <<>>
  PROVE  /\ Head(q) \in S
         /\ Tail(q) \in Seq(S)
         /\ Len(Tail(q)) = Len(q) - 1
         /\ Range(q) = {Head(q)} \cup Range(Tail(q))
         /\ Distinct(q) => Distinct(Tail(q)) /\ Head(q) \notin Range(Tail(q))
<1>1. /\ Len(q) \in Nat /\ Len(q) > 0
      /\ Tail(q) \in Seq(S)
      /\ Len(Tail(q)) = Len(q) - 1
      /\ DOMAIN q = 1..Len(q)
      /\ DOMAIN Tail(q) = 1..(Len(q) - 1)
      /\ \A i \in 1..(Len(q) - 1) : Tail(q)[i] = q[i + 1]
      /\ Head(q) = q[1]
  OBVIOUS
<1>2. Head(q) \in S
  BY <1>1
<1>3. Range(q) = {Head(q)} \cup Range(Tail(q))
  <2>1. ASSUME NEW x \in Range(q) PROVE x \in {Head(q)} \cup Range(Tail(q))
    <3>1. PICK i \in 1..Len(q) : x = q[i]
      BY <1>1, <2>1 DEF Range
    <3>2. CASE i = 1
      BY <1>1, <3>1, <3>2
    <3>3. CASE i # 1
      <4>1. i - 1 \in 1..(Len(q) - 1) /\ Tail(q)[i - 1] = x
        BY <1>1, <3>1, <3>3
      <4>. QED
        BY <1>1, <4>1 DEF Range
    <3>. QED
      BY <3>2, <3>3
  <2>2. ASSUME NEW x \in Range(Tail(q)) PROVE x \in Range(q)
    <3>1. PICK i \in 1..(Len(q) - 1) : x = Tail(q)[i]
      BY <1>1, <2>2 DEF Range
    <3>2. i + 1 \in 1..Len(q) /\ q[i + 1] = x
      BY <1>1, <3>1
    <3>. QED
      BY <1>1, <3>2 DEF Range
  <2>3. Head(q) \in Range(q)
    BY <1>1 DEF Range
  <2>. QED
    BY <2>1, <2>2, <2>3
<1>4. ASSUME Distinct(q) PROVE Distinct(Tail(q)) /\ Head(q) \notin Range(Tail(q))
  <2>1. Distinct(Tail(q))
    <3>1. SUFFICES ASSUME NEW i \in 1..(Len(q) - 1), NEW j \in 1..(Len(q) - 1),
                          Tail(q)[i] = Tail(q)[j]
                   PROVE  i = j
      BY <1>1 DEF Distinct
    <3>2. i + 1 \in 1..Len(q) /\ j + 1 \in 1..Len(q) /\ q[i + 1] = q[j + 1]
      BY <1>1, <3>1
    <3>3. i + 1 = j + 1
      BY <1>1, <1>4, <3>2 DEF Distinct
    <3>. QED
      BY <3>3
  <2>2. ASSUME Head(q) \in Range(Tail(q)) PROVE FALSE
    <3>1. PICK i \in 1..(Len(q) - 1) : q[1] = Tail(q)[i]
      BY <1>1, <2>2 DEF Range
    <3>2. i + 1 \in 1..Len(q) /\ 1 \in 1..Len(q) /\ q[i + 1] = q[1]
      BY <1>1, <3>1
    <3>3. i + 1 = 1
      BY <1>1, <1>4, <3>2 DEF Distinct
    <3>. QED
      BY <3>3
  <2>. QED
    BY <2>1, <2>2
<1>. QED
  BY <1>1, <1>2, <1>3, <1>4
-------------------------------------------------------------------------------
(* Types. *)

LEMMA NoneIsNoRequest == None \notin Requests
BY PipelineAssumption DEF PipelineAssumption

LEMMA UsersOfPosts == ASSUME TypeInv, NEW r \in Requests PROVE post[r].user \in Users
<1>1. post[r] \in Posted
  BY PipelineAssumption DEF PipelineAssumption, TypeInv, TypeOK
<1>. QED
  BY <1>1 DEF Posted

LEMMA RecordsTyped ==
  ASSUME TypeInv, NEW u \in Users
  PROVE  RecordsOf(u) \in SUBSET ({"event", "contact"} \X Requests)
BY DEF TypeInv, TypeOK, RecordsOf

\* What a goroutine has in its hands when it is not idle.
LEMMA HandsTyped ==
  ASSUME TypeInv
  PROVE  /\ fraud.at # "idle" => fraud.r \in Requests
         /\ mkt.at # "idle" => mkt.r \in Requests
BY DEF TypeInv, TypeOK, HandsFull

LEMMA IncrementTyped ==
  ASSUME TypeInv, NEW m \in Counters, Increment(m)
  PROVE  metrics' \in [Counters -> Nat]
<1>1. metrics \in [Counters -> Nat] /\ metrics[m] + 1 \in Nat
  BY DEF TypeInv, TypeOK
<1>2. CASE metrics' = [metrics EXCEPT ![m] = @ + 1]
  BY <1>1, <1>2
<1>3. CASE UNCHANGED metrics
  BY <1>1, <1>3
<1>. QED
  BY <1>2, <1>3 DEF Increment

\* A channel stays within its capacity.
LEMMA EnqueueTyped ==
  ASSUME NEW q \in Seq(Requests), NEW t, Fits(t, q), NEW r \in Requests
  PROVE  Append(q, r) \in Seq(Requests) /\ Len(Append(q, r)) <= QueueSize
<1>1. QueueSize \in Nat /\ Len(q) \in Nat /\ Len(q) < QueueSize
  BY PipelineAssumption DEF PipelineAssumption, Fits
<1>2. Append(q, r) \in Seq(Requests) /\ Len(Append(q, r)) = Len(q) + 1
  OBVIOUS
<1>. QED
  BY <1>1, <1>2

LEMMA DequeueTyped ==
  ASSUME NEW q \in Seq(Requests), Len(q) <= QueueSize, q # <<>>
  PROVE  /\ Head(q) \in Requests
         /\ Tail(q) \in Seq(Requests)
         /\ Len(Tail(q)) <= QueueSize
<1>1. QueueSize \in Nat /\ Len(q) \in Nat
  BY PipelineAssumption DEF PipelineAssumption
<1>2. Head(q) \in Requests /\ Tail(q) \in Seq(Requests) /\ Len(Tail(q)) = Len(q) - 1
  BY RangeOfTail
<1>. QED
  BY <1>1, <1>2

LEMMA LoseTyped ==
  ASSUME TypeInv, NEW t \in Topics, NEW r \in Requests, Lose(t, r)
  PROVE  lost' \in [Topics -> SUBSET Requests]
BY DEF TypeInv, TypeOK, Lose

LEMMA TypeInit == Init => TypeInv
<1>. SUFFICES ASSUME Init PROVE TypeInv
  OBVIOUS
<1>1. <<>> \in Seq(Requests) /\ Len(<<>>) <= QueueSize
  BY PipelineAssumption DEF PipelineAssumption
<1>2. /\ store \in Stores /\ post \in [Requests -> Inputs]
      /\ req \in [Requests -> {"new", "published", "accepted", "rejected", "failed"}]
      /\ lost \in [Topics -> SUBSET Requests]
      /\ verdict \in [Requests -> {"none", "fraud", "legit"}]
      /\ contact \in [Users -> Requests \cup {None}]
      /\ metrics \in [Counters -> Nat]
      /\ gone \in [Purges -> SUBSET ({"event", "contact"} \X Requests)]
      /\ before \in [Purges -> SUBSET Requests]
  BY DEF Init
<1>3. purge \in [Purges -> [at : {"new", "events", "cascade", "contact", "log", "ok", "error"},
                           user : Users]]
  BY DEF Init
<1>. QED
  BY <1>1, <1>2, <1>3 DEF Init, TypeInv, TypeOK, HandsFull

LEMMA IngestTypes ==
  ASSUME TypeInv, NEW r \in Requests, IngestStep(r)
  PROVE  TypeInv'
<1>1. CASE Reject(r) \/ Accept(r)
  <2>1. metrics' \in [Counters -> Nat]
    BY <1>1, IncrementTyped DEF Reject, Accept, Counters
  <2>. QED
    BY <1>1, <2>1 DEF Reject, Accept, TypeInv, TypeOK, HandsFull,
       fraudVars, mktVars, queueVars, purgeVars
<1>2. CASE PublishRaw(r)
  <2>1. rawQ' \in Seq(Requests) /\ Len(rawQ') <= QueueSize
    <3>1. CASE Fits("raw", rawQ)
      <4>1. rawQ \in Seq(Requests) /\ rawQ' = Append(rawQ, r)
        BY <1>2, <3>1 DEF PublishRaw, TypeInv, TypeOK
      <4>. QED
        BY <3>1, <4>1, EnqueueTyped
    <3>2. CASE ~Fits("raw", rawQ)
      BY <1>2, <3>2 DEF PublishRaw, TypeInv, TypeOK
    <3>. QED
      BY <3>1, <3>2
  <2>2. lost' \in [Topics -> SUBSET Requests]
    BY <1>2, LoseTyped DEF PublishRaw, Topics, TypeInv, TypeOK
  <2>. QED
    BY <1>2, <2>1, <2>2 DEF PublishRaw, TypeInv, TypeOK, HandsFull,
       fraudVars, mktVars, purgeVars
<1>3. CASE PublishFails(r)
  BY <1>3 DEF PublishFails, TypeInv, TypeOK, HandsFull, fraudVars, mktVars, queueVars, purgeVars
<1>. QED
  BY <1>1, <1>2, <1>3 DEF IngestStep

LEMMA FraudTypes ==
  ASSUME TypeInv, FraudStep
  PROVE  TypeInv'
<1>1. CASE Screen
  <2>1. Head(rawQ) \in Requests /\ rawQ' \in Seq(Requests) /\ Len(rawQ') <= QueueSize
    BY <1>1, DequeueTyped DEF Screen, TypeInv, TypeOK
  <2>2. verdict' \in [Requests -> {"none", "fraud", "legit"}]
    BY <1>1, <2>1 DEF Screen, TypeInv, TypeOK
  <2>3. /\ fraud' \in [at : {"idle", "save", "count", "publish"}, r : Requests \cup {None}]
        /\ fraud'.at # "idle" /\ fraud'.r # None
    BY <1>1, <2>1, NoneIsNoRequest DEF Screen
  <2>. QED
    BY <1>1, <2>1, <2>2, <2>3 DEF Screen, TypeInv, TypeOK, HandsFull, ingestVars, mktVars, purgeVars
<1>2. CASE SaveEvent
  <2>1. events' \subseteq Requests
    BY <1>2, HandsTyped DEF SaveEvent, TypeInv, TypeOK
  <2>. QED
    BY <1>2, <2>1 DEF SaveEvent, TypeInv, TypeOK, HandsFull, ingestVars, mktVars, queueVars, purgeVars
<1>3. CASE CountVerdict
  <2>1. metrics' \in [Counters -> Nat]
    BY <1>3, IncrementTyped DEF CountVerdict, Counters
  <2>. QED
    BY <1>3, <2>1 DEF CountVerdict, TypeInv, TypeOK, HandsFull,
       ingestVars, mktVars, queueVars, purgeVars
<1>4. CASE PublishScreened
  <2>1. fraud.r \in Requests
    BY <1>4, HandsTyped DEF PublishScreened
  <2>2. screenedQ' \in Seq(Requests) /\ Len(screenedQ') <= QueueSize
    <3>1. CASE Fits("screened", screenedQ)
      <4>1. screenedQ \in Seq(Requests) /\ screenedQ' = Append(screenedQ, fraud.r)
        BY <1>4, <3>1 DEF PublishScreened, TypeInv, TypeOK
      <4>. QED
        BY <2>1, <3>1, <4>1, EnqueueTyped
    <3>2. CASE ~Fits("screened", screenedQ)
      BY <1>4, <3>2 DEF PublishScreened, TypeInv, TypeOK
    <3>. QED
      BY <3>1, <3>2
  <2>3. lost' \in [Topics -> SUBSET Requests]
    BY <1>4, <2>1, LoseTyped DEF PublishScreened, Topics, TypeInv, TypeOK
  <2>. QED
    BY <1>4, <2>2, <2>3 DEF PublishScreened, TypeInv, TypeOK, HandsFull,
       ingestVars, mktVars, purgeVars
<1>. QED
  BY <1>1, <1>2, <1>3, <1>4 DEF FraudStep

LEMMA MarketingTypes ==
  ASSUME TypeInv, MarketingStep
  PROVE  TypeInv'
<1>1. CASE Skip \/ Pick
  <2>1. /\ Head(screenedQ) \in Requests
        /\ screenedQ' \in Seq(Requests) /\ Len(screenedQ') <= QueueSize
    BY <1>1, DequeueTyped DEF Skip, Pick, TypeInv, TypeOK
  <2>2. CASE Skip
    BY <2>1, <2>2 DEF Skip, TypeInv, TypeOK, HandsFull, ingestVars, fraudVars, purgeVars
  <2>3. CASE Pick
    <3>1. /\ mkt' \in [at : {"idle", "attempt", "sync", "count", "save"},
                       r : Requests \cup {None}, ok : BOOLEAN]
          /\ mkt'.at # "idle" /\ mkt'.r # None
      BY <2>1, <2>3, NoneIsNoRequest DEF Pick
    <3>. QED
      BY <2>1, <2>3, <3>1 DEF Pick, TypeInv, TypeOK, HandsFull, ingestVars, fraudVars, purgeVars
  <2>. QED
    BY <1>1, <2>2, <2>3
<1>2. CASE CountAttempt \/ CountResult
  <2>1. metrics' \in [Counters -> Nat]
    BY <1>2, IncrementTyped DEF CountAttempt, CountResult, Counters
  <2>. QED
    BY <1>2, <2>1 DEF CountAttempt, CountResult, TypeInv, TypeOK, HandsFull,
       ingestVars, fraudVars, queueVars, purgeVars
<1>3. CASE Sync
  BY <1>3 DEF Sync, TypeInv, TypeOK, HandsFull, ingestVars, fraudVars, queueVars, purgeVars
<1>4. CASE SaveContact
  <2>1. mkt.r \in Requests /\ post[mkt.r].user \in Users
    BY <1>4, HandsTyped, UsersOfPosts DEF SaveContact
  <2>2. contact' \in [Users -> Requests \cup {None}]
    BY <1>4, <2>1 DEF SaveContact, UpsertContact, TypeInv, TypeOK
  <2>. QED
    BY <1>4, <2>1, <2>2 DEF SaveContact, TypeInv, TypeOK, HandsFull,
       ingestVars, fraudVars, queueVars, purgeVars
<1>. QED
  BY <1>1, <1>2, <1>3, <1>4 DEF MarketingStep

LEMMA PurgeTypes ==
  ASSUME TypeInv, NEW g \in Purges, BeginPurge(g) \/ PurgeStep(g)
  PROVE  TypeInv'
<1>. DEFINE PurgeType == [Purges ->
       [at : {"new", "events", "cascade", "contact", "log", "ok", "error"}, user : Users]]
<1>1. purge[g].user \in Users
  BY DEF TypeInv, TypeOK
<1>2. /\ EventsOf(purge[g].user) \subseteq Requests
      /\ DeleteContact(purge[g].user) => contact' \in [Users -> Requests \cup {None}]
  BY DEF EventsOf, DeleteContact, TypeInv, TypeOK
<1>3. \A at \in {"events", "cascade", "contact", "log", "ok", "error"} :
        PurgeGoesTo(g, at) => purge' \in PurgeType
  BY DEF PurgeGoesTo, TypeInv, TypeOK
<1>4. CASE BeginPurge(g)
  <2>1. gone' \in [Purges -> SUBSET ({"event", "contact"} \X Requests)]
    BY <1>1, <1>4, RecordsTyped DEF BeginPurge, TypeInv, TypeOK
  <2>2. before' \in [Purges -> SUBSET Requests]
    BY <1>4 DEF BeginPurge, TypeInv, TypeOK
  <2>3. purge' \in PurgeType
    BY <1>3, <1>4 DEF BeginPurge
  <2>. QED
    BY <1>4, <2>1, <2>2, <2>3 DEF BeginPurge, TypeInv, TypeOK, HandsFull,
       ingestVars, fraudVars, mktVars, queueVars
<1>5. CASE MemoryDeleteEvents(g)
  <2>1. purge' \in PurgeType /\ events' \subseteq Requests /\ erased' \subseteq Requests
    BY <1>2, <1>3, <1>5 DEF MemoryDeleteEvents, DeleteEvents, TypeInv, TypeOK
  <2>. QED
    BY <1>5, <2>1 DEF MemoryDeleteEvents, TypeInv, TypeOK, HandsFull,
       ingestVars, fraudVars, mktVars, queueVars
<1>6. CASE MemoryCascade(g)
  <2>1. purge' \in PurgeType /\ contact' \in [Users -> Requests \cup {None}]
    BY <1>2, <1>3, <1>6 DEF MemoryCascade
  <2>. QED
    BY <1>6, <2>1 DEF MemoryCascade, TypeInv, TypeOK, HandsFull,
       ingestVars, fraudVars, mktVars, queueVars
<1>7. CASE PostgresDelete(g)
  <2>1. /\ purge' \in PurgeType /\ contact' \in [Users -> Requests \cup {None}]
        /\ events' \subseteq Requests /\ erased' \subseteq Requests
    BY <1>2, <1>3, <1>7 DEF PostgresDelete, DeleteEvents, TypeInv, TypeOK
  <2>. QED
    BY <1>7, <2>1 DEF PostgresDelete, TypeInv, TypeOK, HandsFull,
       ingestVars, fraudVars, mktVars, queueVars
<1>8. CASE PostgresDeleteFails(g)
  <2>1. purge' \in PurgeType
    BY <1>3, <1>8 DEF PostgresDeleteFails
  <2>. QED
    BY <1>8, <2>1 DEF PostgresDeleteFails, TypeInv, TypeOK, HandsFull,
       ingestVars, fraudVars, mktVars, queueVars
<1>9. CASE PurgeContact(g)
  <2>1. purge' \in PurgeType /\ contact' \in [Users -> Requests \cup {None}]
    BY <1>2, <1>3, <1>9 DEF PurgeContact, TypeInv, TypeOK
  <2>. QED
    BY <1>9, <2>1 DEF PurgeContact, TypeInv, TypeOK, HandsFull,
       ingestVars, fraudVars, mktVars, queueVars
<1>10. CASE PurgeLog(g)
  <2>1. purge' \in PurgeType /\ audit' \subseteq Purges
    BY <1>3, <1>10 DEF PurgeLog, TypeInv, TypeOK
  <2>. QED
    BY <1>10, <2>1 DEF PurgeLog, TypeInv, TypeOK, HandsFull,
       ingestVars, fraudVars, mktVars, queueVars
<1>. QED
  BY <1>4, <1>5, <1>6, <1>7, <1>8, <1>9, <1>10 DEF PurgeStep

LEMMA ListenTypes ==
  ASSUME TypeInv, NEW t \in Topics, Listen(t)
  PROVE  TypeInv'
BY DEF Listen, TypeInv, TypeOK, HandsFull, ingestVars, fraudVars, mktVars, purgeVars

LEMMA TypeStep == TypeInv /\ [Next]_vars => TypeInv'
<1>. SUFFICES ASSUME TypeInv, [Next]_vars PROVE TypeInv'
  OBVIOUS
<1>1. CASE UNCHANGED vars
  BY <1>1 DEF vars, ingestVars, fraudVars, mktVars, queueVars, purgeVars, TypeInv, TypeOK, HandsFull
<1>2. CASE Next
  BY <1>2, IngestTypes, ListenTypes, FraudTypes, MarketingTypes, PurgeTypes DEF Next
<1>. QED
  BY <1>1, <1>2

\* Every variable keeps its type; no channel holds more than its capacity.
THEOREM PipelineTyping == Spec => []TypeOK
<1>1. TypeInv => TypeOK
  BY DEF TypeInv
<1>. QED
  BY TypeInit, TypeStep, <1>1, PTL DEF Spec
-------------------------------------------------------------------------------
(* The way of an event: from one place to the next, and never back. *)

OnlyPublished ==
  \A r \in Requests : req[r] \notin {"published", "accepted"} =>
    verdict[r] = "none" /\ r \notin Range(rawQ)
QueuedOnce ==
  /\ Distinct(rawQ) /\ Distinct(screenedQ)
  /\ \A r \in Range(rawQ) : verdict[r] = "none"
HaveVerdict ==
  \A r \in InHand(fraud) \cup Range(screenedQ) \cup InHand(mkt) \cup handled \cup events \cup erased :
    verdict[r] # "none"
OnePlace ==
  /\ InHand(fraud) \cap (Range(screenedQ) \cup InHand(mkt) \cup handled) = {}
  /\ Range(screenedQ) \cap (InHand(mkt) \cup handled) = {}
  /\ InHand(mkt) \cap handled = {}
ContactsHandled == Range(contact) \subseteq handled \cup {None}
SavedOnce == fraud.at = "save" => fraud.r \notin events \cup erased

FlowInv ==
  OnlyPublished /\ QueuedOnce /\ HaveVerdict /\ OnePlace /\ ContactsHandled /\ SavedOnce

LEMMA FlowInit == Init => FlowInv
<1>. SUFFICES ASSUME Init PROVE FlowInv
  OBVIOUS
<1>1. Range(rawQ) = {} /\ Range(screenedQ) = {} /\ Distinct(rawQ) /\ Distinct(screenedQ)
  BY DEF Init, Range, Distinct
<1>2. InHand(fraud) = {} /\ InHand(mkt) = {}
  BY DEF Init, InHand
<1>3. Range(contact) \subseteq {None}
  BY DEF Init, Range
<1>. QED
  BY <1>1, <1>2, <1>3 DEF Init, FlowInv, OnlyPublished, QueuedOnce, HaveVerdict, OnePlace,
     ContactsHandled, SavedOnce

\* What is in a channel or in hands is a request.
LEMMA PlacesTyped ==
  ASSUME TypeInv
  PROVE  /\ Range(rawQ) \subseteq Requests
         /\ Range(screenedQ) \subseteq Requests
         /\ InHand(fraud) \subseteq Requests
         /\ InHand(mkt) \subseteq Requests
<1>1. Range(rawQ) \subseteq Requests /\ Range(screenedQ) \subseteq Requests
  BY DEF TypeInv, TypeOK, Range
<1>2. InHand(fraud) \subseteq Requests /\ InHand(mkt) \subseteq Requests
  BY HandsTyped DEF TypeInv, HandsFull, InHand
<1>. QED
  BY <1>1, <1>2

LEMMA IngestFlow ==
  ASSUME TypeInv, FlowInv, NEW r \in Requests, IngestStep(r)
  PROVE  FlowInv'
<1>1. /\ UNCHANGED <<store, post, fraudVars, mktVars, screenedQ, events, contact, erased>>
      /\ \/ UNCHANGED rawQ
         \/ req[r] = "new" /\ rawQ' = Append(rawQ, r)
      /\ \/ req[r] = "new" /\ req' = [req EXCEPT ![r] = "rejected"] /\ UNCHANGED rawQ
         \/ req[r] = "new" /\ req' = [req EXCEPT ![r] = "published"]
         \/ req[r] = "new" /\ req' = [req EXCEPT ![r] = "failed"] /\ UNCHANGED rawQ
         \/ req[r] = "published" /\ req' = [req EXCEPT ![r] = "accepted"] /\ UNCHANGED rawQ
  BY DEF IngestStep, Reject, PublishRaw, PublishFails, Accept, fraudVars, mktVars, queueVars
<1>2. req \in [Requests -> {"new", "published", "accepted", "rejected", "failed"}]
  BY DEF TypeInv, TypeOK
<1>3. UNCHANGED <<fraud, verdict, mkt, handled>>
  BY <1>1 DEF fraudVars, mktVars
<1>4. CASE UNCHANGED rawQ
  <2>1. OnlyPublished'
    BY <1>1, <1>2, <1>3, <1>4 DEF FlowInv, OnlyPublished
  <2>. QED
    BY <1>1, <1>3, <1>4, <2>1 DEF FlowInv, QueuedOnce, HaveVerdict, OnePlace, ContactsHandled, SavedOnce
<1>5. CASE req[r] = "new" /\ rawQ' = Append(rawQ, r)
  <2>1. verdict[r] = "none" /\ r \notin Range(rawQ)
    BY <1>5 DEF FlowInv, OnlyPublished
  <2>2. Range(rawQ') = Range(rawQ) \cup {r} /\ Distinct(rawQ')
    BY <1>5, <2>1, RangeOfAppend DEF TypeInv, TypeOK, FlowInv, QueuedOnce
  <2>3. CASE req' = [req EXCEPT ![r] = "published"]
    <3>1. OnlyPublished'
      BY <1>2, <1>3, <2>2, <2>3 DEF FlowInv, OnlyPublished
    <3>2. QueuedOnce'
      BY <1>1, <1>3, <2>1, <2>2 DEF FlowInv, QueuedOnce
    <3>. QED
      BY <1>1, <1>3, <3>1, <3>2 DEF FlowInv, HaveVerdict, OnePlace, ContactsHandled, SavedOnce
  <2>. QED
    BY <1>1, <1>4, <2>3
<1>. QED
  BY <1>1, <1>4, <1>5

LEMMA ScreenFlow ==
  ASSUME TypeInv, FlowInv, Screen
  PROVE  FlowInv'
<1>. DEFINE h == Head(rawQ)
<1>1. /\ h \in Requests
      /\ Range(rawQ) = {h} \cup Range(rawQ')
      /\ Distinct(rawQ') /\ h \notin Range(rawQ')
  BY RangeOfTail DEF Screen, TypeInv, TypeOK, FlowInv, QueuedOnce
<1>2. InHand(fraud) = {} /\ InHand(fraud') = {h}
  BY <1>1, NoneIsNoRequest DEF Screen, TypeInv, HandsFull, InHand
<1>3. /\ UNCHANGED <<req, screenedQ, mkt, handled, events, contact, erased>>
      /\ fraud'.r = h
      /\ verdict[h] = "none" /\ verdict'[h] # "none"
      /\ \A r \in Requests : r # h => verdict'[r] = verdict[r]
  BY <1>1 DEF Screen, ingestVars, mktVars, TypeInv, TypeOK, FlowInv, QueuedOnce
<1>4. /\ handled \subseteq Requests /\ events \subseteq Requests /\ erased \subseteq Requests
      /\ Range(rawQ) \subseteq Requests /\ Range(screenedQ) \subseteq Requests
      /\ InHand(mkt) \subseteq Requests
  BY PlacesTyped DEF TypeInv, TypeOK
<1>5. h \notin Range(screenedQ) \cup InHand(mkt) \cup handled \cup events \cup erased
  BY <1>3 DEF FlowInv, HaveVerdict
<1>. HIDE DEF h
<1>6. OnlyPublished'
  BY <1>1, <1>3 DEF FlowInv, OnlyPublished
<1>7. QueuedOnce'
  BY <1>1, <1>3, <1>4 DEF FlowInv, QueuedOnce
<1>8. HaveVerdict'
  BY <1>2, <1>3, <1>4 DEF FlowInv, HaveVerdict
<1>9. OnePlace'
  BY <1>2, <1>3, <1>5 DEF FlowInv, OnePlace
<1>10. ContactsHandled' /\ SavedOnce'
  BY <1>3, <1>5 DEF FlowInv, ContactsHandled, SavedOnce
<1>. QED
  BY <1>6, <1>7, <1>8, <1>9, <1>10 DEF FlowInv

LEMMA SaveEventFlow ==
  ASSUME TypeInv, FlowInv, SaveEvent
  PROVE  FlowInv'
<1>1. /\ UNCHANGED <<req, rawQ, screenedQ, verdict, mkt, handled, contact, erased>>
      /\ events' \subseteq events \cup {fraud.r}
  BY DEF SaveEvent, ingestVars, queueVars, mktVars
<1>2. fraud'.at = "count" /\ fraud'.r = fraud.r
  BY DEF SaveEvent, TypeInv, TypeOK
<1>3. InHand(fraud) = {fraud.r} /\ InHand(fraud') = InHand(fraud)
  BY <1>2 DEF SaveEvent, TypeInv, HandsFull, InHand
<1>4. OnlyPublished' /\ QueuedOnce' /\ ContactsHandled' /\ SavedOnce'
  BY <1>1, <1>2 DEF FlowInv, OnlyPublished, QueuedOnce, ContactsHandled, SavedOnce
<1>5. HaveVerdict'
  BY <1>1, <1>3 DEF FlowInv, HaveVerdict
<1>6. OnePlace'
  BY <1>1, <1>3 DEF FlowInv, OnePlace
<1>. QED
  BY <1>4, <1>5, <1>6 DEF FlowInv

LEMMA PublishScreenedMoves ==
  ASSUME TypeInv, FlowInv, PublishScreened
  PROVE  /\ UNCHANGED <<ingestVars, rawQ, verdict, mkt, handled, purgeVars, events, contact, erased>>
         /\ fraud.r \in Requests /\ fraud.r \notin Range(screenedQ) \cup InHand(mkt) \cup handled
         /\ InHand(fraud) = {fraud.r} /\ InHand(fraud') = {}
         /\ fraud.at # "save" /\ fraud'.at = "idle"
         /\ Range(screenedQ') \subseteq Range(screenedQ) \cup {fraud.r} /\ Distinct(screenedQ')
<1>1. UNCHANGED <<ingestVars, rawQ, verdict, mkt, handled, purgeVars, events, contact, erased>>
  BY DEF PublishScreened, mktVars
<1>2. /\ fraud.r \in Requests
      /\ InHand(fraud) = {fraud.r} /\ InHand(fraud') = {}
      /\ fraud.at # "save" /\ fraud'.at = "idle"
  BY HandsTyped DEF PublishScreened, TypeInv, HandsFull, InHand
<1>3. fraud.r \notin Range(screenedQ) \cup InHand(mkt) \cup handled
  BY <1>2 DEF FlowInv, OnePlace
<1>4. Range(screenedQ') \subseteq Range(screenedQ) \cup {fraud.r} /\ Distinct(screenedQ')
  <2>1. CASE Fits("screened", screenedQ)
    <3>1. screenedQ \in Seq(Requests) /\ Distinct(screenedQ)
      BY DEF TypeInv, TypeOK, FlowInv, QueuedOnce
    <3>2. screenedQ' = Append(screenedQ, fraud.r)
      BY <2>1 DEF PublishScreened
    <3>. QED
      BY <1>2, <1>3, <3>1, <3>2, RangeOfAppend
  <2>2. CASE ~Fits("screened", screenedQ)
    BY <2>2 DEF PublishScreened, FlowInv, QueuedOnce
  <2>. QED
    BY <2>1, <2>2
<1>. QED
  BY <1>1, <1>2, <1>3, <1>4

LEMMA PublishScreenedFlow ==
  ASSUME TypeInv, FlowInv, PublishScreened
  PROVE  FlowInv'
<1>1. UNCHANGED <<req, rawQ, verdict, mkt, handled, events, contact, erased>>
  BY PublishScreenedMoves DEF ingestVars
<1>2. /\ fraud.r \notin Range(screenedQ) \cup InHand(mkt) \cup handled
      /\ InHand(fraud) = {fraud.r} /\ InHand(fraud') = {} /\ fraud'.at = "idle"
      /\ Range(screenedQ') \subseteq Range(screenedQ) \cup {fraud.r} /\ Distinct(screenedQ')
  BY PublishScreenedMoves
<1>3. OnlyPublished' /\ QueuedOnce' /\ ContactsHandled' /\ SavedOnce'
  BY <1>1, <1>2 DEF FlowInv, OnlyPublished, QueuedOnce, ContactsHandled, SavedOnce
<1>4. HaveVerdict'
  BY <1>1, <1>2 DEF FlowInv, HaveVerdict
<1>5. OnePlace'
  BY <1>1, <1>2 DEF FlowInv, OnePlace
<1>. QED
  BY <1>3, <1>4, <1>5 DEF FlowInv

\* The marketing worker takes the head of its channel: into its hands, or behind it.
LEMMA DequeueMoves ==
  ASSUME TypeInv, FlowInv, Skip \/ Pick
  PROVE  \E h \in Requests :
           /\ UNCHANGED <<ingestVars, rawQ, fraudVars, purgeVars, events, contact, erased>>
           /\ Range(screenedQ) = {h} \cup Range(screenedQ')
           /\ Distinct(screenedQ') /\ h \notin Range(screenedQ')
           /\ verdict[h] # "none" /\ h \notin InHand(fraud) /\ h \notin handled
           /\ InHand(mkt) = {}
           /\ \/ InHand(mkt') = {} /\ handled' = handled \cup {h}
              \/ InHand(mkt') = {h} /\ handled' = handled /\ IsMarketed(h)
<1>. DEFINE h == Head(screenedQ)
<1>1. /\ h \in Requests
      /\ Range(screenedQ) = {h} \cup Range(screenedQ')
      /\ Distinct(screenedQ') /\ h \notin Range(screenedQ')
  <2>1. screenedQ \in Seq(Requests) /\ screenedQ # <<>> /\ Distinct(screenedQ)
    BY DEF Skip, Pick, TypeInv, TypeOK, FlowInv, QueuedOnce
  <2>2. screenedQ' = Tail(screenedQ)
    BY DEF Skip, Pick
  <2>. QED
    BY <2>1, <2>2, RangeOfTail
<1>2. UNCHANGED <<ingestVars, rawQ, fraudVars, purgeVars, events, contact, erased>>
  BY DEF Skip, Pick
<1>3. InHand(mkt) = {}
  BY DEF Skip, Pick, TypeInv, HandsFull, InHand
<1>4. \/ InHand(mkt') = {} /\ handled' = handled \cup {h}
      \/ InHand(mkt') = {h} /\ handled' = handled /\ IsMarketed(h)
  <2>1. CASE Skip
    BY <1>3, <2>1 DEF Skip
  <2>2. CASE Pick
    BY <1>1, <2>2, NoneIsNoRequest DEF Pick, InHand
  <2>. QED
    BY <2>1, <2>2
<1>5. verdict[h] # "none" /\ h \notin InHand(fraud) /\ h \notin handled
  BY <1>1 DEF FlowInv, HaveVerdict, OnePlace
<1>. HIDE DEF h
<1>. QED
  BY <1>1, <1>2, <1>3, <1>4, <1>5

LEMMA DequeueFlow ==
  ASSUME TypeInv, FlowInv, Skip \/ Pick
  PROVE  FlowInv'
<1>1. PICK h \in Requests :
        /\ UNCHANGED <<ingestVars, rawQ, fraudVars, purgeVars, events, contact, erased>>
        /\ Range(screenedQ) = {h} \cup Range(screenedQ')
        /\ Distinct(screenedQ') /\ h \notin Range(screenedQ')
        /\ verdict[h] # "none" /\ h \notin InHand(fraud) /\ h \notin handled
        /\ InHand(mkt) = {}
        /\ \/ InHand(mkt') = {} /\ handled' = handled \cup {h}
           \/ InHand(mkt') = {h} /\ handled' = handled
  BY DequeueMoves
<1>2. UNCHANGED <<req, rawQ, fraud, verdict, events, contact, erased>>
  BY <1>1 DEF ingestVars, fraudVars
<1>3. OnlyPublished' /\ QueuedOnce' /\ ContactsHandled' /\ SavedOnce'
  BY <1>1, <1>2 DEF FlowInv, OnlyPublished, QueuedOnce, ContactsHandled, SavedOnce
<1>4. HaveVerdict'
  BY <1>1, <1>2 DEF FlowInv, HaveVerdict
<1>5. OnePlace'
  BY <1>1, <1>2 DEF FlowInv, OnePlace
<1>. QED
  BY <1>3, <1>4, <1>5 DEF FlowInv

LEMMA SaveContactMoves ==
  ASSUME TypeInv, SaveContact
  PROVE  /\ UNCHANGED <<ingestVars, rawQ, screenedQ, fraudVars, purgeVars, events, erased>>
         /\ mkt.r \in Requests
         /\ InHand(mkt) = {mkt.r} /\ InHand(mkt') = {} /\ handled' = handled \cup {mkt.r}
         /\ UpsertContact(mkt.r) \/ UNCHANGED contact
         /\ Range(contact') \subseteq Range(contact) \cup {mkt.r}
<1>1. UNCHANGED <<ingestVars, rawQ, screenedQ, fraudVars, purgeVars, events, erased>>
  BY DEF SaveContact, queueVars
<1>2. /\ mkt.r \in Requests
      /\ InHand(mkt) = {mkt.r} /\ InHand(mkt') = {} /\ handled' = handled \cup {mkt.r}
  BY HandsTyped DEF SaveContact, TypeInv, HandsFull, InHand
<1>3. UpsertContact(mkt.r) \/ UNCHANGED contact
  BY DEF SaveContact
<1>4. Range(contact') \subseteq Range(contact) \cup {mkt.r}
  BY <1>3 DEF UpsertContact, TypeInv, TypeOK, Range
<1>. QED
  BY <1>1, <1>2, <1>3, <1>4

LEMMA SaveContactFlow ==
  ASSUME TypeInv, FlowInv, SaveContact
  PROVE  FlowInv'
<1>1. UNCHANGED <<req, rawQ, screenedQ, fraud, verdict, events, erased>>
  BY SaveContactMoves DEF ingestVars, fraudVars
<1>2. /\ InHand(mkt) = {mkt.r} /\ InHand(mkt') = {} /\ handled' = handled \cup {mkt.r}
      /\ Range(contact') \subseteq Range(contact) \cup {mkt.r}
  BY SaveContactMoves
<1>3. OnlyPublished' /\ QueuedOnce' /\ SavedOnce' /\ ContactsHandled'
  BY <1>1, <1>2 DEF FlowInv, OnlyPublished, QueuedOnce, SavedOnce, ContactsHandled
<1>4. HaveVerdict'
  BY <1>1, <1>2 DEF FlowInv, HaveVerdict
<1>5. OnePlace'
  BY <1>1, <1>2 DEF FlowInv, OnePlace
<1>. QED
  BY <1>3, <1>4, <1>5 DEF FlowInv

\* Deletions move events to erased and empty contacts.
LEMMA PurgeMoves ==
  ASSUME TypeInv, NEW g \in Purges, BeginPurge(g) \/ PurgeStep(g)
  PROVE  /\ UNCHANGED <<ingestVars, fraudVars, mktVars, queueVars>>
         /\ events' \subseteq events /\ events' \cup erased' = events \cup erased
         /\ \A u \in Users : contact'[u] \in {contact[u], None}
         /\ Range(contact') \subseteq Range(contact) \cup {None}
<1>1. UNCHANGED <<ingestVars, fraudVars, mktVars, queueVars>>
  BY DEF BeginPurge, PurgeStep, MemoryDeleteEvents, MemoryCascade, PostgresDelete,
     PostgresDeleteFails, PurgeContact, PurgeLog
<1>2. \/ UNCHANGED <<events, erased>>
      \/ DeleteEvents(purge[g].user)
  BY DEF BeginPurge, PurgeStep, MemoryDeleteEvents, MemoryCascade, PostgresDelete,
     PostgresDeleteFails, PurgeContact, PurgeLog
<1>3. \/ UNCHANGED contact
      \/ DeleteContact(purge[g].user)
  BY DEF BeginPurge, PurgeStep, MemoryDeleteEvents, MemoryCascade, PostgresDelete,
     PostgresDeleteFails, PurgeContact, PurgeLog
<1>4. EventsOf(purge[g].user) \subseteq events
  BY DEF EventsOf
<1>5. events' \subseteq events /\ events' \cup erased' = events \cup erased
  BY <1>2, <1>4 DEF DeleteEvents
<1>6. contact \in [Users -> Requests \cup {None}]
  BY DEF TypeInv, TypeOK
<1>7. \A u \in Users : contact'[u] \in {contact[u], None}
  BY <1>3, <1>6 DEF DeleteContact
<1>8. Range(contact') \subseteq Range(contact) \cup {None}
  BY <1>3, <1>6 DEF DeleteContact, Range
<1>. QED
  BY <1>1, <1>5, <1>7, <1>8

LEMMA PurgeFlow ==
  ASSUME TypeInv, FlowInv, NEW g \in Purges, BeginPurge(g) \/ PurgeStep(g)
  PROVE  FlowInv'
<1>1. UNCHANGED <<req, rawQ, screenedQ, fraud, verdict, mkt, handled>>
  BY PurgeMoves DEF ingestVars, fraudVars, mktVars, queueVars
<1>2. events' \cup erased' = events \cup erased
  BY PurgeMoves
<1>3. Range(contact') \subseteq Range(contact) \cup {None}
  BY PurgeMoves
<1>. QED
  BY <1>1, <1>2, <1>3 DEF FlowInv, OnlyPublished, QueuedOnce, HaveVerdict, OnePlace,
     ContactsHandled, SavedOnce

\* The other steps move no event.
OtherStep ==
  \/ \E t \in Topics : Listen(t)
  \/ CountVerdict \/ CountAttempt \/ Sync \/ CountResult
LEMMA OtherMoves ==
  ASSUME TypeInv, OtherStep
  PROVE  /\ UNCHANGED <<ingestVars, rawQ, screenedQ, verdict, handled, purgeVars,
                        events, contact, erased>>
         /\ InHand(fraud') = InHand(fraud) /\ InHand(mkt') = InHand(mkt)
         /\ fraud'.at = "save" => UNCHANGED fraud
         /\ fraud'.at = "save" <=> fraud.at = "save"
<1>1. CASE \E t \in Topics : Listen(t)
  BY <1>1 DEF Listen, fraudVars, mktVars
<1>2. CASE CountVerdict
  BY <1>2 DEF CountVerdict, queueVars, mktVars, TypeInv, TypeOK, InHand
<1>3. CASE CountAttempt \/ Sync \/ CountResult
  BY <1>3 DEF CountAttempt, Sync, CountResult, queueVars, fraudVars, TypeInv, TypeOK, InHand
<1>. QED
  BY <1>1, <1>2, <1>3 DEF OtherStep

LEMMA OtherFlow ==
  ASSUME TypeInv, FlowInv, OtherStep
  PROVE  FlowInv'
<1>1. UNCHANGED <<req, rawQ, screenedQ, verdict, handled, events, contact, erased>>
  BY OtherMoves DEF ingestVars
<1>2. InHand(fraud') = InHand(fraud) /\ InHand(mkt') = InHand(mkt)
  BY OtherMoves
<1>3. SavedOnce'
  BY OtherMoves DEF FlowInv, SavedOnce
<1>. QED
  BY <1>1, <1>2, <1>3 DEF FlowInv, OnlyPublished, QueuedOnce, HaveVerdict, OnePlace, ContactsHandled

\* The steps of Next, by what they do to events.
LEMMA StepCases ==
  ASSUME Next
  PROVE  \/ \E r \in Requests : IngestStep(r)
         \/ Screen \/ SaveEvent \/ PublishScreened
         \/ Skip \/ Pick \/ SaveContact
         \/ \E g \in Purges : BeginPurge(g) \/ PurgeStep(g)
         \/ OtherStep
BY DEF Next, FraudStep, MarketingStep, OtherStep

LEMMA FlowStep == TypeInv /\ FlowInv /\ [Next]_vars => FlowInv'
<1>. SUFFICES ASSUME TypeInv, FlowInv, [Next]_vars PROVE FlowInv'
  OBVIOUS
<1>1. CASE UNCHANGED vars
  BY <1>1 DEF vars, ingestVars, fraudVars, mktVars, queueVars, FlowInv, OnlyPublished,
     QueuedOnce, HaveVerdict, OnePlace, ContactsHandled, SavedOnce
<1>2. CASE Next
  BY <1>2, StepCases, IngestFlow, ScreenFlow, SaveEventFlow, PublishScreenedFlow, DequeueFlow,
     SaveContactFlow, PurgeFlow, OtherFlow
<1>. QED
  BY <1>1, <1>2

LEMMA FlowSpec == Spec => [](TypeInv /\ FlowInv)
BY TypeInit, TypeStep, FlowInit, FlowStep, PTL DEF Spec

LEMMA RefusedUntouched ==
  ASSUME TypeInv, FlowInv
  PROVE  RefusedLeavesNoTrace
<1>. SUFFICES ASSUME NEW r \in Requests, req[r] \in {"rejected", "failed"}
              PROVE  /\ r \notin Range(rawQ) \cup Range(screenedQ) \cup InHand(fraud) \cup InHand(mkt)
                     /\ r \notin events \cup Range(contact)
  BY DEF RefusedLeavesNoTrace
<1>1. verdict[r] = "none" /\ r \notin Range(rawQ)
  BY DEF FlowInv, OnlyPublished
<1>2. r \notin Range(screenedQ) \cup InHand(fraud) \cup InHand(mkt) \cup events \cup handled
  BY <1>1 DEF FlowInv, HaveVerdict
<1>3. r \notin Range(contact)
  BY <1>2, NoneIsNoRequest DEF FlowInv, ContactsHandled
<1>. QED
  BY <1>1, <1>2, <1>3

\* An event whose request was refused is nowhere: what is in a worker's hands or behind
\* it has a verdict, and only what was published gets one.
THEOREM RefusedNowhere == Spec => []RefusedLeavesNoTrace
BY RefusedUntouched, FlowSpec, PTL

-------------------------------------------------------------------------------
(* Contacts of legitimate events. *)

LEMMA LegitInit == Init => FraudNeverMarketed
<1>. SUFFICES ASSUME Init PROVE FraudNeverMarketed
  OBVIOUS
<1>1. InHand(mkt) = {} /\ Range(contact) \subseteq {None}
  BY DEF Init, InHand, Range
<1>. QED
  BY <1>1 DEF FraudNeverMarketed

LEMMA LegitStep ==
  TypeInv /\ FlowInv /\ FraudNeverMarketed /\ [Next]_vars => FraudNeverMarketed'
<1>. SUFFICES ASSUME TypeInv, FlowInv, FraudNeverMarketed, [Next]_vars
              PROVE  FraudNeverMarketed'
  OBVIOUS
<1>1. CASE UNCHANGED <<verdict, mkt, contact>>
  BY <1>1 DEF FraudNeverMarketed, InHand
<1>2. CASE Screen
  <2>1. UNCHANGED <<mkt, contact>>
    BY <1>2 DEF Screen, mktVars
  <2>2. \A r \in Requests : verdict[r] # "none" => verdict'[r] = verdict[r]
    <3>1. Head(rawQ) \in Range(rawQ)
      BY <1>2, RangeOfTail DEF Screen, TypeInv, TypeOK
    <3>2. verdict[Head(rawQ)] = "none"
      BY <3>1 DEF FlowInv, QueuedOnce
    <3>. QED
      BY <1>2, <3>2 DEF Screen, TypeInv, TypeOK
  <2>3. Range(contact) \cup InHand(mkt) \subseteq Requests \cup {None}
    BY PlacesTyped DEF TypeInv, TypeOK, Range
  <2>. QED
    BY <2>1, <2>2, <2>3 DEF FraudNeverMarketed, InHand
<1>3. CASE Skip \/ Pick
  <2>1. PICK h \in Requests :
          /\ UNCHANGED <<fraudVars, contact>>
          /\ verdict[h] # "none"
          /\ \/ InHand(mkt') = {}
             \/ InHand(mkt') = {h} /\ verdict[h] # "fraud"
    BY <1>3, DequeueMoves DEF IsMarketed
  <2>2. verdict[h] # "fraud" => verdict[h] = "legit"
    BY <2>1 DEF TypeInv, TypeOK
  <2>. QED
    BY <2>1, <2>2 DEF FraudNeverMarketed, fraudVars
<1>4. CASE SaveContact
  <2>1. /\ UNCHANGED verdict
        /\ InHand(mkt) = {mkt.r} /\ InHand(mkt') = {}
        /\ Range(contact') \subseteq Range(contact) \cup {mkt.r}
    BY <1>4, SaveContactMoves DEF fraudVars
  <2>. QED
    BY <2>1 DEF FraudNeverMarketed
<1>5. CASE \E g \in Purges : BeginPurge(g) \/ PurgeStep(g)
  <2>1. UNCHANGED <<verdict, mkt>> /\ Range(contact') \subseteq Range(contact) \cup {None}
    BY <1>5, PurgeMoves DEF fraudVars, mktVars
  <2>. QED
    BY <2>1 DEF FraudNeverMarketed, InHand
<1>6. CASE OtherStep
  <2>1. UNCHANGED <<verdict, contact>> /\ InHand(mkt') = InHand(mkt)
    BY <1>6, OtherMoves
  <2>. QED
    BY <2>1 DEF FraudNeverMarketed
<1>7. CASE (\E r \in Requests : IngestStep(r)) \/ SaveEvent \/ PublishScreened \/ UNCHANGED vars
  <2>1. UNCHANGED <<verdict, mkt, contact>>
    BY <1>7 DEF IngestStep, Reject, PublishRaw, PublishFails, Accept, SaveEvent, PublishScreened,
       fraudVars, mktVars, vars
  <2>. QED
    BY <1>1, <2>1
<1>. QED
  BY <1>2, <1>3, <1>4, <1>5, <1>6, <1>7, StepCases

\* No contact, and nothing in the marketing worker's hands, stems from a fraudulent event:
\* a verdict is given once, and IsMarketed reads it after it was given.
THEOREM FraudStaysOut == Spec => []FraudNeverMarketed
<1>1. Init => TypeInv /\ FlowInv /\ FraudNeverMarketed
  BY TypeInit, FlowInit, LegitInit
<1>2. TypeInv /\ FlowInv /\ FraudNeverMarketed /\ [Next]_vars
        => (TypeInv /\ FlowInv /\ FraudNeverMarketed)'
  BY TypeStep, FlowStep, LegitStep
<1>. QED
  BY <1>1, <1>2, PTL DEF Spec

-------------------------------------------------------------------------------
(* What is behind SaveEvent is stored, or was. *)

Saved == events \cup erased
SavedInv ==
  store = "memory" =>
    /\ Range(screenedQ) \cup InHand(mkt) \cup handled \subseteq Saved
    /\ fraud.at # "save" => InHand(fraud) \subseteq Saved

LEMMA SavedInit == Init => SavedInv
<1>. SUFFICES ASSUME Init PROVE SavedInv
  OBVIOUS
<1>1. Range(screenedQ) = {} /\ InHand(mkt) = {} /\ InHand(fraud) = {} /\ handled = {}
  BY DEF Init, InHand, Range
<1>. QED
  BY <1>1 DEF SavedInv

LEMMA SavedStep == TypeInv /\ FlowInv /\ SavedInv /\ [Next]_vars => SavedInv'
<1>. SUFFICES ASSUME TypeInv, FlowInv, SavedInv, [Next]_vars, store' = "memory"
              PROVE  SavedInv'
  BY DEF SavedInv
<1>1. CASE UNCHANGED <<store, screenedQ, mkt, handled, fraud, events, erased>>
  BY <1>1 DEF SavedInv, Saved, InHand
<1>2. CASE Screen
  <2>1. UNCHANGED <<store, screenedQ, mkt, handled, events, erased>> /\ fraud'.at = "save"
    BY <1>2 DEF Screen, ingestVars, mktVars
  <2>. QED
    BY <2>1 DEF SavedInv, Saved, InHand
<1>3. CASE SaveEvent
  <2>1. UNCHANGED <<store, screenedQ, mkt, handled, erased>>
    BY <1>3 DEF SaveEvent, ingestVars, queueVars, mktVars
  <2>2. InHand(fraud') \subseteq {fraud.r}
    BY <1>3 DEF SaveEvent, TypeInv, TypeOK, InHand
  <2>3. events' = events \cup {fraud.r}
    BY <1>3, <2>1 DEF SaveEvent, MayFail, IsDuplicate
  <2>. QED
    BY <2>1, <2>2, <2>3 DEF SavedInv, Saved, InHand
<1>4. CASE PublishScreened
  <2>1. UNCHANGED <<store, mkt, handled, events, erased>>
    BY <1>4, PublishScreenedMoves DEF ingestVars
  <2>2. /\ InHand(fraud) = {fraud.r} /\ InHand(fraud') = {} /\ fraud.at # "save"
        /\ Range(screenedQ') \subseteq Range(screenedQ) \cup {fraud.r}
    BY <1>4, PublishScreenedMoves
  <2>. QED
    BY <2>1, <2>2 DEF SavedInv, Saved, InHand
<1>5. CASE Skip \/ Pick
  <2>1. PICK h \in Requests :
          /\ UNCHANGED <<ingestVars, fraudVars, events, erased>>
          /\ Range(screenedQ) = {h} \cup Range(screenedQ')
          /\ \/ InHand(mkt') = {} /\ handled' = handled \cup {h}
             \/ InHand(mkt') = {h} /\ handled' = handled
    BY <1>5, DequeueMoves
  <2>2. UNCHANGED <<store, fraud>>
    BY <2>1 DEF ingestVars, fraudVars
  <2>. QED
    BY <2>1, <2>2 DEF SavedInv, Saved
<1>6. CASE SaveContact
  <2>1. /\ UNCHANGED <<store, screenedQ, fraud, events, erased>>
        /\ InHand(mkt) = {mkt.r} /\ InHand(mkt') = {} /\ handled' = handled \cup {mkt.r}
    BY <1>6, SaveContactMoves DEF ingestVars, fraudVars
  <2>. QED
    BY <2>1 DEF SavedInv, Saved
<1>7. CASE \E g \in Purges : BeginPurge(g) \/ PurgeStep(g)
  <2>1. UNCHANGED <<store, screenedQ, fraud, mkt, handled>> /\ Saved' = Saved
    BY <1>7, PurgeMoves DEF ingestVars, queueVars, fraudVars, mktVars, Saved
  <2>. QED
    BY <2>1 DEF SavedInv, InHand
<1>8. CASE OtherStep
  <2>1. UNCHANGED <<store, screenedQ, handled, events, erased>>
    BY <1>8, OtherMoves DEF ingestVars
  <2>2. /\ InHand(fraud') = InHand(fraud) /\ InHand(mkt') = InHand(mkt)
        /\ fraud'.at = "save" <=> fraud.at = "save"
    BY <1>8, OtherMoves
  <2>. QED
    BY <2>1, <2>2 DEF SavedInv, Saved
<1>9. CASE (\E r \in Requests : IngestStep(r)) \/ UNCHANGED vars
  <2>1. UNCHANGED <<store, screenedQ, mkt, handled, fraud, events, erased>>
    BY <1>9 DEF IngestStep, Reject, PublishRaw, PublishFails, Accept, ingestVars, queueVars,
       fraudVars, mktVars, vars
  <2>. QED
    BY <1>1, <2>1
<1>. QED
  BY <1>2, <1>3, <1>4, <1>5, <1>6, <1>7, <1>8, <1>9, StepCases

\* In the memory repositories a contact's event was stored before it: the marketing worker
\* gets an event from the fraud worker, which saved it.
THEOREM ContactsStored == Spec => []ContactsHaveEvents
<1>1. FlowInv /\ SavedInv => ContactsHaveEvents
  BY DEF FlowInv, ContactsHandled, SavedInv, Saved, ContactsHaveEvents
<1>2. Init => TypeInv /\ FlowInv /\ SavedInv
  BY TypeInit, FlowInit, SavedInit
<1>3. TypeInv /\ FlowInv /\ SavedInv /\ [Next]_vars => (TypeInv /\ FlowInv /\ SavedInv)'
  BY TypeStep, FlowStep, SavedStep
<1>. QED
  BY <1>1, <1>2, <1>3, PTL DEF Spec

-------------------------------------------------------------------------------
(* Purges. *)

\* What a purge found when it began.
GoneEvents(g) == {r \in Requests : <<"event", r>> \in gone[g]}
GoneContacts(g) == {r \in Requests : <<"contact", r>> \in gone[g]}

ContactOwner == \A u \in Users : contact[u] # None => post[contact[u]].user = u
GoneOwned ==
  \A g \in Purges :
    /\ GoneEvents(g) \subseteq events \cup erased
    /\ GoneContacts(g) \subseteq handled
    /\ \A r \in GoneEvents(g) \cup GoneContacts(g) : post[r].user = purge[g].user
PurgeProgress ==
  \A g \in Purges :
    /\ purge[g].at \in {"cascade", "contact", "log", "ok"} => GoneEvents(g) \cap events = {}
    /\ purge[g].at \in {"contact", "log", "ok"} => \A u \in Users : contact[u] \notin GoneContacts(g)
    /\ g \in audit => purge[g].at = "ok"
ErasureInv == ContactOwner /\ GoneOwned /\ PurgeProgress

LEMMA ErasureInit == Init => ErasureInv
<1>. SUFFICES ASSUME Init PROVE ErasureInv
  OBVIOUS
<1>1. \A g \in Purges : GoneEvents(g) = {} /\ GoneContacts(g) = {} /\ purge[g].at = "new"
  BY DEF Init, GoneEvents, GoneContacts
<1>. QED
  BY <1>1 DEF Init, ErasureInv, ContactOwner, GoneOwned, PurgeProgress

\* Workers store only events that no purge can have found, and contacts whose event no
\* purge can have found a contact of.
WorkersAdd ==
  /\ UNCHANGED <<post, purge, audit, gone, erased>>
  /\ events \subseteq events' /\ handled \subseteq handled'
  /\ \A r \in events' : r \in events \/ r \notin erased
  /\ \A u \in Users : \/ contact'[u] = contact[u]
                      \/ /\ contact'[u] \in Requests \ handled
                         /\ post[contact'[u]].user = u

LEMMA WorkersErasure ==
  ASSUME TypeInv, ErasureInv, WorkersAdd
  PROVE  ErasureInv'
<1>1. \A g \in Purges : GoneEvents(g)' = GoneEvents(g) /\ GoneContacts(g)' = GoneContacts(g)
  BY DEF WorkersAdd, GoneEvents, GoneContacts
<1>2. ContactOwner'
  BY DEF ErasureInv, ContactOwner, WorkersAdd
<1>3. GoneOwned'
  BY <1>1 DEF ErasureInv, GoneOwned, WorkersAdd
<1>4. PurgeProgress'
  <2>. SUFFICES ASSUME NEW g \in Purges
                PROVE  /\ purge[g].at \in {"cascade", "contact", "log", "ok"}
                            => GoneEvents(g) \cap events' = {}
                       /\ purge[g].at \in {"contact", "log", "ok"}
                            => \A u \in Users : contact'[u] \notin GoneContacts(g)
                       /\ g \in audit => purge[g].at = "ok"
    BY <1>1 DEF PurgeProgress, WorkersAdd
  <2>1. GoneEvents(g) \subseteq events \cup erased /\ GoneContacts(g) \subseteq handled
    BY DEF ErasureInv, GoneOwned
  <2>2. GoneEvents(g) \cap events' \subseteq GoneEvents(g) \cap events
    BY <2>1 DEF WorkersAdd
  <2>3. \A u \in Users : contact'[u] \in GoneContacts(g) => contact[u] \in GoneContacts(g)
    BY <2>1 DEF WorkersAdd
  <2>. QED
    BY <2>2, <2>3 DEF ErasureInv, PurgeProgress
<1>. QED
  BY <1>2, <1>3, <1>4 DEF ErasureInv

LEMMA WorkersStep ==
  ASSUME TypeInv, FlowInv,
         \/ \E r \in Requests : IngestStep(r)
         \/ Screen \/ SaveEvent \/ PublishScreened
         \/ Skip \/ Pick \/ SaveContact \/ OtherStep
         \/ UNCHANGED vars
  PROVE  WorkersAdd
<1>1. CASE SaveEvent
  <2>1. UNCHANGED <<post, purge, audit, gone, erased, handled, contact>>
    BY <1>1 DEF SaveEvent, ingestVars, purgeVars, mktVars
  <2>2. events' = events \/ events' = events \cup {fraud.r}
    BY <1>1 DEF SaveEvent
  <2>3. fraud.r \notin erased
    BY <1>1 DEF SaveEvent, FlowInv, SavedOnce
  <2>. QED
    BY <2>1, <2>2, <2>3 DEF WorkersAdd
<1>2. CASE SaveContact
  <2>1. /\ UNCHANGED <<post, purge, audit, gone, erased, events>>
        /\ handled' = handled \cup {mkt.r}
    BY <1>2, SaveContactMoves DEF ingestVars, purgeVars
  <2>2. mkt.r \in Requests \ handled
    BY <1>2, SaveContactMoves DEF FlowInv, OnePlace
  <2>3. \A u \in Users : \/ contact'[u] = contact[u]
                         \/ contact'[u] = mkt.r /\ post[mkt.r].user = u
    BY <1>2, SaveContactMoves DEF UpsertContact, TypeInv, TypeOK
  <2>. QED
    BY <2>1, <2>2, <2>3 DEF WorkersAdd
<1>3. CASE \/ \E r \in Requests : IngestStep(r)
           \/ Screen \/ PublishScreened \/ Skip \/ Pick \/ OtherStep \/ UNCHANGED vars
  <2>1. UNCHANGED <<post, purgeVars, erased, events, contact>>
    BY <1>3, OtherMoves DEF IngestStep, Reject, PublishRaw, PublishFails, Accept, Screen,
       PublishScreened, Skip, Pick, vars, ingestVars
  <2>2. handled \subseteq handled'
    BY <1>3, OtherMoves DEF IngestStep, Reject, PublishRaw, PublishFails, Accept, Screen,
       PublishScreened, Skip, Pick, vars, mktVars
  <2>. QED
    BY <2>1, <2>2 DEF WorkersAdd, purgeVars
<1>. QED
  BY <1>1, <1>2, <1>3

\* What a step of a purge does to the invariant's parts.
LEMMA DeletionKeeps ==
  ASSUME TypeInv, ErasureInv, NEW g \in Purges, PurgeStep(g)
  PROVE  /\ UNCHANGED <<post, handled, gone>>
         /\ events' \subseteq events /\ events' \cup erased' = events \cup erased
         /\ \A u \in Users : contact'[u] \in {contact[u], None}
         /\ \A k \in Purges : purge'[k].user = purge[k].user
         /\ \A k \in Purges \ {g} : purge'[k] = purge[k] /\ (k \in audit' <=> k \in audit)
<1>1. /\ UNCHANGED <<post, handled>>
      /\ events' \subseteq events /\ events' \cup erased' = events \cup erased
      /\ \A u \in Users : contact'[u] \in {contact[u], None}
  BY PurgeMoves DEF ingestVars, mktVars
<1>2. UNCHANGED gone
  BY DEF PurgeStep, MemoryDeleteEvents, MemoryCascade, PostgresDelete,
     PostgresDeleteFails, PurgeContact, PurgeLog
<1>3. \E at \in {"events", "cascade", "contact", "log", "ok", "error"} : PurgeGoesTo(g, at)
  BY DEF PurgeStep, MemoryDeleteEvents, MemoryCascade, PostgresDelete,
     PostgresDeleteFails, PurgeContact, PurgeLog
<1>4. /\ \A k \in Purges : purge'[k].user = purge[k].user
      /\ \A k \in Purges \ {g} : purge'[k] = purge[k]
  BY <1>3 DEF PurgeGoesTo, TypeInv, TypeOK
<1>5. audit' = audit \/ audit' = audit \cup {g}
  BY DEF PurgeStep, MemoryDeleteEvents, MemoryCascade, PostgresDelete,
     PostgresDeleteFails, PurgeContact, PurgeLog
<1>. QED
  BY <1>1, <1>2, <1>4, <1>5

\* Where the purge is after its step, and what is deleted by then.
LEMMA DeletionReaches ==
  ASSUME TypeInv, ErasureInv, NEW g \in Purges, PurgeStep(g)
  PROVE  /\ purge'[g].at \in {"cascade", "contact", "log", "ok"}
              => GoneEvents(g) \cap events' = {}
         /\ purge'[g].at \in {"contact", "log", "ok"}
              => \A u \in Users : contact'[u] \notin GoneContacts(g)
         /\ g \in audit' => purge'[g].at = "ok"
<1>1. /\ \A at \in {"events", "cascade", "contact", "log", "ok", "error"} :
           PurgeGoesTo(g, at) => purge'[g].at = at
      /\ contact \in [Users -> Requests \cup {None}]
      /\ GoneContacts(g) \subseteq Requests
  BY DEF PurgeGoesTo, TypeInv, TypeOK, GoneContacts
<1>2. \A r \in GoneEvents(g) \cup GoneContacts(g) : post[r].user = purge[g].user
  BY DEF ErasureInv, GoneOwned
<1>3. DeleteEvents(purge[g].user) => GoneEvents(g) \cap events' = {}
  BY <1>2 DEF DeleteEvents, EventsOf
<1>4. DeleteContact(purge[g].user) => \A u \in Users : contact'[u] \notin GoneContacts(g)
  <2>. SUFFICES ASSUME DeleteContact(purge[g].user), NEW u \in Users
                PROVE  contact'[u] \notin GoneContacts(g)
    OBVIOUS
  <2>1. CASE u = purge[g].user
    BY <1>1, <2>1, NoneIsNoRequest DEF DeleteContact
  <2>2. CASE u # purge[g].user
    <3>1. contact'[u] = contact[u]
      BY <1>1, <2>2 DEF DeleteContact
    <3>2. contact[u] \in Requests => post[contact[u]].user = u
      BY NoneIsNoRequest DEF ErasureInv, ContactOwner
    <3>. QED
      BY <1>1, <1>2, <2>2, <3>1, <3>2
  <2>. QED
    BY <2>1, <2>2
<1>5. /\ purge[g].at \in {"cascade", "contact", "log", "ok"} => GoneEvents(g) \cap events = {}
      /\ purge[g].at \in {"contact", "log", "ok"} =>
           \A u \in Users : contact[u] \notin GoneContacts(g)
      /\ g \in audit => purge[g].at = "ok"
  BY DEF ErasureInv, PurgeProgress
<1>6. CASE MemoryDeleteEvents(g)
  BY <1>1, <1>3, <1>5, <1>6 DEF MemoryDeleteEvents
<1>7. CASE MemoryCascade(g)
  BY <1>1, <1>4, <1>5, <1>7 DEF MemoryCascade
<1>8. CASE PostgresDelete(g)
  BY <1>1, <1>3, <1>4, <1>5, <1>8 DEF PostgresDelete
<1>9. CASE PostgresDeleteFails(g)
  BY <1>1, <1>5, <1>9 DEF PostgresDeleteFails
<1>10. CASE PurgeContact(g)
  BY <1>1, <1>4, <1>5, <1>10 DEF PurgeContact
<1>11. CASE PurgeLog(g)
  BY <1>1, <1>5, <1>11 DEF PurgeLog
<1>. QED
  BY <1>6, <1>7, <1>8, <1>9, <1>10, <1>11 DEF PurgeStep

LEMMA DeletionErasure ==
  ASSUME TypeInv, ErasureInv, NEW g \in Purges, PurgeStep(g)
  PROVE  ErasureInv'
<1>1. \A k \in Purges : GoneEvents(k)' = GoneEvents(k) /\ GoneContacts(k)' = GoneContacts(k)
  BY DeletionKeeps DEF GoneEvents, GoneContacts
<1>2. ContactOwner'
  BY DeletionKeeps DEF ErasureInv, ContactOwner
<1>3. GoneOwned'
  BY <1>1, DeletionKeeps DEF ErasureInv, GoneOwned
<1>4. PurgeProgress'
  <2>. SUFFICES ASSUME NEW k \in Purges
                PROVE  /\ purge'[k].at \in {"cascade", "contact", "log", "ok"}
                            => GoneEvents(k) \cap events' = {}
                       /\ purge'[k].at \in {"contact", "log", "ok"}
                            => \A u \in Users : contact'[u] \notin GoneContacts(k)
                       /\ k \in audit' => purge'[k].at = "ok"
    BY <1>1 DEF PurgeProgress
  <2>1. CASE k = g
    BY <2>1, DeletionReaches
  <2>2. CASE k # g
    <3>1. purge'[k] = purge[k] /\ (k \in audit' <=> k \in audit) /\ events' \subseteq events
      BY <2>2, DeletionKeeps
    <3>2. \A u \in Users : contact'[u] \in GoneContacts(k) => contact[u] \in GoneContacts(k)
      BY DeletionKeeps, NoneIsNoRequest DEF GoneContacts
    <3>. QED
      BY <3>1, <3>2 DEF ErasureInv, PurgeProgress
  <2>. QED
    BY <2>1, <2>2
<1>. QED
  BY <1>2, <1>3, <1>4 DEF ErasureInv

LEMMA BeginErasure ==
  ASSUME TypeInv, FlowInv, ErasureInv, NEW g \in Purges, BeginPurge(g)
  PROVE  ErasureInv'
<1>. DEFINE u == purge[g].user
<1>1. u \in Users
  BY DEF TypeInv, TypeOK
<1>2. /\ UNCHANGED <<post, handled, audit, events, contact, erased>>
      /\ gone'[g] = RecordsOf(u)
      /\ \A k \in Purges \ {g} : gone'[k] = gone[k] /\ purge'[k] = purge[k]
      /\ purge'[g].user = u /\ purge'[g].at = "events"
      /\ purge[g].at = "new"
  BY DEF BeginPurge, PurgeGoesTo, ingestVars, mktVars, TypeInv, TypeOK
<1>3. \A k \in Purges \ {g} :
        GoneEvents(k)' = GoneEvents(k) /\ GoneContacts(k)' = GoneContacts(k)
  BY <1>2 DEF GoneEvents, GoneContacts
<1>4. /\ GoneEvents(g)' \subseteq EventsOf(u)
      /\ GoneContacts(g)' \subseteq {contact[u]} \ {None}
  BY <1>2 DEF GoneEvents, GoneContacts, RecordsOf, EventsOf
<1>5. contact[u] \in handled \cup {None}
  BY <1>1 DEF FlowInv, ContactsHandled, TypeInv, TypeOK, Range
<1>6. contact[u] # None => post[contact[u]].user = u
  BY <1>1 DEF ErasureInv, ContactOwner
<1>7. GoneEvents(g)' \subseteq events /\ \A r \in GoneEvents(g)' : post[r].user = u
  BY <1>4 DEF EventsOf
<1>8. GoneContacts(g)' \subseteq handled /\ \A r \in GoneContacts(g)' : post[r].user = u
  BY <1>4, <1>5, <1>6
<1>. HIDE DEF u
<1>9. ContactOwner'
  BY <1>2 DEF ErasureInv, ContactOwner
<1>10. GoneOwned'
  <2>. SUFFICES ASSUME NEW k \in Purges
                PROVE  /\ GoneEvents(k)' \subseteq events \cup erased
                       /\ GoneContacts(k)' \subseteq handled
                       /\ \A r \in GoneEvents(k)' \cup GoneContacts(k)' :
                            post[r].user = purge'[k].user
    BY <1>2 DEF GoneOwned
  <2>1. CASE k = g
    BY <1>2, <1>7, <1>8, <2>1
  <2>2. CASE k # g
    BY <1>2, <1>3, <2>2 DEF ErasureInv, GoneOwned
  <2>. QED
    BY <2>1, <2>2
<1>11. PurgeProgress'
  <2>1. g \notin audit
    BY <1>2 DEF ErasureInv, PurgeProgress
  <2>. QED
    BY <1>2, <1>3, <2>1 DEF ErasureInv, PurgeProgress
<1>. QED
  BY <1>9, <1>10, <1>11 DEF ErasureInv

LEMMA ErasureStep == TypeInv /\ FlowInv /\ ErasureInv /\ [Next]_vars => ErasureInv'
<1>. SUFFICES ASSUME TypeInv, FlowInv, ErasureInv, [Next]_vars PROVE ErasureInv'
  OBVIOUS
<1>1. CASE \E g \in Purges : BeginPurge(g) \/ PurgeStep(g)
  BY <1>1, BeginErasure, DeletionErasure
<1>2. CASE ~\E g \in Purges : BeginPurge(g) \/ PurgeStep(g)
  <2>1. WorkersAdd
    BY <1>2, StepCases, WorkersStep
  <2>. QED
    BY <2>1, WorkersErasure
<1>. QED
  BY <1>1, <1>2

LEMMA FoundIsErased ==
  ASSUME TypeInv, ErasureInv
  PROVE  PurgeErasesRecords
<1>. SUFFICES ASSUME NEW g \in Purges, purge[g].at = "ok" \/ g \in audit,
                     NEW u \in Users, NEW x \in gone[g], x \in RecordsOf(u)
              PROVE  FALSE
  BY DEF PurgeErasesRecords
<1>1. /\ GoneEvents(g) \cap events = {}
      /\ \A v \in Users : contact[v] \notin GoneContacts(g)
  BY DEF ErasureInv, PurgeProgress
<1>2. CASE \E r \in events : x = <<"event", r>>
  BY <1>1, <1>2 DEF GoneEvents, TypeInv, TypeOK
<1>3. CASE contact[u] # None /\ x = <<"contact", contact[u]>>
  BY <1>1, <1>3 DEF GoneContacts, TypeInv, TypeOK
<1>. QED
  BY <1>2, <1>3 DEF RecordsOf

LEMMA ErasureSpec == Spec => [](TypeInv /\ FlowInv /\ ErasureInv)
<1>1. Init => TypeInv /\ FlowInv /\ ErasureInv
  BY TypeInit, FlowInit, ErasureInit
<1>2. TypeInv /\ FlowInv /\ ErasureInv /\ [Next]_vars => (TypeInv /\ FlowInv /\ ErasureInv)'
  BY TypeStep, FlowStep, ErasureStep
<1>. QED
  BY <1>1, <1>2, PTL DEF Spec

\* A purge that answered 200 or is in the audit log left no record it found, and no worker
\* brings one back: a request's event is saved once and its contact is saved once.
THEOREM PurgesErase == Spec => []PurgeErasesRecords
BY FoundIsErased, ErasureSpec, PTL
===============================================================================
