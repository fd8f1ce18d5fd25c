---------------------------- MODULE LifecycleProofs ----------------------------
(***************************************************************************)
(* Proofs about Lifecycle.  A step of the process is one of the pipeline,  *)
(* an event the broker refuses, or a step of main that the pipeline does   *)
(* not see, so the invariants of PipelineProofs carry over; on top of them *)
(* come the servers that were drained and the place of every event.        *)
(***************************************************************************)
EXTENDS Lifecycle, PipelineProofs, FiniteSetTheorems

-------------------------------------------------------------------------------
(* Steps. *)

\* Steps of main, of its deadline and of a worker that returns.
Outside ==
  \/ Signal \/ Expire \/ MainStep
  \/ \E w \in Workers : Quit(w)

LEMMA OutsideMoves ==
  ASSUME Outside \/ UNCHANGED lifecycleVars
  PROVE  UNCHANGED <<vars, cut>>
BY DEF Outside, Signal, Expire, MainStep, Drain, GiveUp, CloseDatabase, CloseBroker, Exit, Quit,
   lifecycleVars, lifeVars

LEMMA PipelineMoves ==
  ASSUME PipelineStep
  PROVE  Next /\ UNCHANGED lifeVars
<1>1. ASSUME NEW r \in Requests, HandleIngest(r) PROVE Next
  BY <1>1 DEF HandleIngest, Next, IngestStep
<1>2. ASSUME NEW g \in Purges, HandlePurge(g) PROVE Next
  BY <1>2 DEF HandlePurge, Next
<1>3. FraudWorks \/ MarketingWorks \/ (\E t \in Topics : Listen(t)) => Next
  BY DEF FraudWorks, MarketingWorks, FraudStep, Next
<1>. QED
  BY <1>1, <1>2, <1>3 DEF PipelineStep

LEMMA LifeCases ==
  ASSUME [LifecycleNext]_lifecycleVars
  PROVE  \/ Outside \/ UNCHANGED lifecycleVars
         \/ Refuse
         \/ \E r \in Requests : RefuseRaw(r)
         \/ PipelineStep
BY DEF LifecycleNext, Outside

-------------------------------------------------------------------------------
(* Types. *)

LifeTypeInv == LifecycleTypeOK /\ HandsFull

LEMMA LifeTypeInit == LifecycleInit => LifeTypeInv
<1>. SUFFICES ASSUME LifecycleInit PROVE LifeTypeInv
  OBVIOUS
<1>1. TypeInv
  BY TypeInit DEF LifecycleInit
<1>. QED
  BY <1>1 DEF TypeInv, LifeTypeInv, LifecycleTypeOK, LifecycleInit, Stages

LEMMA PipelineTypes == LifeTypeInv => TypeInv
BY DEF LifeTypeInv, LifecycleTypeOK, TypeInv

LEMMA LifeTypeStep == LifeTypeInv /\ [LifecycleNext]_lifecycleVars => LifeTypeInv'
<1>. SUFFICES ASSUME LifeTypeInv, [LifecycleNext]_lifecycleVars PROVE LifeTypeInv'
  OBVIOUS
<1>1. TypeInv
  BY PipelineTypes
<1>2. main \in Stages /\ expired \in BOOLEAN /\ drained \subseteq Servers
      /\ stopped \subseteq Workers /\ cut \subseteq Requests
  BY DEF LifeTypeInv, LifecycleTypeOK
<1>3. CASE Outside \/ UNCHANGED lifecycleVars
  <2>1. TypeInv'
    BY <1>1, <1>3, OutsideMoves, TypeStep
  <2>2. main' \in Stages /\ expired' \in BOOLEAN /\ drained' \subseteq Servers
        /\ stopped' \subseteq Workers /\ cut' \subseteq Requests
    <3>1. CASE Signal \/ Expire \/ UNCHANGED lifecycleVars \/ (\E w \in Workers : Quit(w))
      BY <1>2, <3>1 DEF Signal, Expire, Quit, Stages, Servers, lifecycleVars, lifeVars
    <3>2. CASE CloseDatabase \/ CloseBroker \/ Exit
      BY <1>2, <3>2 DEF CloseDatabase, CloseBroker, Exit, Stages
    <3>3. ASSUME NEW s \in Servers, Drain(s) \/ GiveUp(s)
          PROVE  main' \in Stages /\ expired' \in BOOLEAN /\ drained' \subseteq Servers
                 /\ stopped' \subseteq Workers /\ cut' \subseteq Requests
      <4>1. After(s) \in Stages
        BY DEF After, Servers, Stages
      <4>. QED
        BY <1>2, <3>3, <4>1 DEF Drain, GiveUp
    <3>. QED
      BY <1>3, <3>1, <3>2, <3>3 DEF Outside, MainStep
  <2>. QED
    BY <2>1, <2>2 DEF TypeInv, LifeTypeInv, LifecycleTypeOK
<1>4. CASE Refuse
  <2>1. fraud.r \in Requests
    BY <1>1, <1>4, HandsTyped DEF Refuse
  <2>. QED
    BY <1>1, <1>2, <1>4, <2>1 DEF Refuse, TypeInv, TypeOK, HandsFull, LifeTypeInv, LifecycleTypeOK,
       ingestVars, mktVars, queueVars, purgeVars
<1>5. CASE \E r \in Requests : RefuseRaw(r)
  BY <1>1, <1>2, <1>5 DEF RefuseRaw, TypeInv, TypeOK, HandsFull, LifeTypeInv, LifecycleTypeOK,
     fraudVars, mktVars, queueVars, purgeVars, lifeVars
<1>6. CASE PipelineStep
  <2>1. TypeInv' /\ UNCHANGED lifeVars
    BY <1>1, <1>6, PipelineMoves, TypeStep
  <2>. QED
    BY <1>2, <2>1 DEF TypeInv, LifeTypeInv, LifecycleTypeOK, lifeVars
<1>. QED
  BY <1>3, <1>4, <1>5, <1>6, LifeCases

LEMMA LifeTypes == LifecycleSpec => []LifeTypeInv
BY LifeTypeInit, LifeTypeStep, PTL DEF LifecycleSpec

\* The pipeline and main keep their types while the process goes down: the step that
\* takes an event from the fraud worker when the broker refuses it leaves idle hands.
THEOREM LifecycleTyping == LifecycleSpec => []LifecycleTypeOK
<1>1. LifeTypeInv => LifecycleTypeOK
  BY DEF LifeTypeInv
<1>. QED
  BY <1>1, LifeTypes, PTL

-------------------------------------------------------------------------------
(* Servers. *)

\* The servers main has been at before it gets to m.
Before(m) ==
  CASE m = "running" -> {}
    [] m = "crm" -> {}
    [] m = "ingest" -> {"crm"}
    [] m = "mkt" -> {"crm", "ingest"}
    [] m = "analytics" -> {"crm", "ingest", "mkt"}
    [] OTHER -> Servers

DrainInv ==
  /\ ~expired => Before(main) \subseteq drained
  /\ \A s \in drained : ~Busy(s)

LEMMA DrainInit == LifecycleInit => DrainInv
BY DEF LifecycleInit, DrainInv, Before

\* On a drained server nothing begins: a handler of the ingest server or of the purge
\* server that is not under way stays so.
LEMMA DrainedStaysIdle ==
  ASSUME LifeTypeInv, DrainInv, PipelineStep, NEW s \in drained
  PROVE  ~Busy(s)'
<1>1. ~Busy(s) /\ s \in Servers
  BY DEF DrainInv, LifeTypeInv, LifecycleTypeOK
<1>2. CASE s = "ingest"
  <2>1. \A r \in Requests : req[r] # "published"
    BY <1>1, <1>2 DEF Busy
  <2>2. ASSUME NEW r \in Requests, HandleIngest(r)
        PROVE  req' = [req EXCEPT ![r] = "rejected"]
    BY <1>2, <2>1, <2>2 DEF HandleIngest, Reject, Accept
  <2>3. req' = req \/ \E r \in Requests : req' = [req EXCEPT ![r] = "rejected"]
    BY <2>2 DEF PipelineStep, FraudWorks, Screen, SaveEvent, CountVerdict, PublishScreened,
       MarketingWorks, MarketingStep, Skip, Pick, CountAttempt, Sync, CountResult, SaveContact,
       Listen, HandlePurge, BeginPurge, PurgeStep, MemoryDeleteEvents, MemoryCascade,
       PostgresDelete, PostgresDeleteFails, PurgeContact, PurgeLog, ingestVars
  <2>4. \A r \in Requests : req'[r] # "published"
    BY <2>1, <2>3 DEF LifeTypeInv, LifecycleTypeOK, TypeOK
  <2>. QED
    BY <1>2, <2>4 DEF Busy
<1>3. CASE s = "mkt"
  <2>1. \A g \in Purges : ~PurgeUnderWay(g)
    BY <1>1, <1>3 DEF Busy
  <2>2. \A g \in Purges : ~HandlePurge(g)
    BY <1>3, <2>1 DEF HandlePurge, PurgeUnderWay, PurgeStep, MemoryDeleteEvents, MemoryCascade,
       PostgresDelete, PostgresDeleteFails, PurgeContact, PurgeLog
  <2>3. UNCHANGED purge
    BY <2>2 DEF PipelineStep, HandleIngest, Reject, PublishRaw, PublishFails, Accept,
       FraudWorks, Screen, SaveEvent, CountVerdict, PublishScreened,
       MarketingWorks, MarketingStep, Skip, Pick, CountAttempt, Sync, CountResult, SaveContact,
       Listen, purgeVars
  <2>4. \A g \in Purges : ~PurgeUnderWay(g)'
    BY <2>1, <2>3 DEF PurgeUnderWay
  <2>. QED
    BY <1>3, <2>4 DEF Busy
<1>. QED
  BY <1>1, <1>2, <1>3 DEF Busy

LEMMA DrainStep == LifeTypeInv /\ DrainInv /\ [LifecycleNext]_lifecycleVars => DrainInv'
<1>. SUFFICES ASSUME LifeTypeInv, DrainInv, [LifecycleNext]_lifecycleVars PROVE DrainInv'
  OBVIOUS
<1>1. drained \subseteq Servers /\ main \in Stages
  BY DEF LifeTypeInv, LifecycleTypeOK
<1>2. ASSUME UNCHANGED <<req, purge>> PROVE \A s : Busy(s)' <=> Busy(s)
  BY <1>2 DEF Busy, PurgeUnderWay
<1>3. CASE Outside \/ UNCHANGED lifecycleVars
  <2>1. \A s : Busy(s)' <=> Busy(s)
    BY <1>2, <1>3, OutsideMoves DEF vars, ingestVars, purgeVars
  <2>2. CASE Signal
    BY <2>1, <2>2 DEF Signal, DrainInv, Before
  <2>3. CASE Expire \/ (\E w \in Workers : Quit(w)) \/ UNCHANGED lifecycleVars
    BY <2>1, <2>3 DEF Expire, Quit, lifecycleVars, lifeVars, DrainInv
  <2>4. CASE CloseDatabase \/ CloseBroker \/ Exit
    BY <2>1, <2>4 DEF CloseDatabase, CloseBroker, Exit, DrainInv, Before
  <2>5. ASSUME NEW s \in Servers, Drain(s) PROVE DrainInv'
    <3>1. Before(After(s)) \subseteq Before(s) \cup {s}
      BY DEF Before, After, Servers
    <3>2. /\ main = s /\ main' = After(s) /\ expired' = expired
          /\ drained' = drained \cup {s} /\ ~Busy(s)
      BY <2>5 DEF Drain
    <3>3. Before(main)' = Before(After(s))
      BY <3>2 DEF Before
    <3>. QED
      BY <2>1, <3>1, <3>2, <3>3 DEF DrainInv
  <2>6. ASSUME NEW s \in Servers, GiveUp(s) PROVE DrainInv'
    BY <2>1, <2>6 DEF GiveUp, DrainInv
  <2>. QED
    BY <1>3, <2>2, <2>3, <2>4, <2>5, <2>6 DEF Outside, MainStep
<1>4. CASE Refuse
  <2>1. UNCHANGED <<req, purge, main, expired, drained>>
    BY <1>4 DEF Refuse, ingestVars, purgeVars
  <2>. QED
    BY <1>2, <2>1 DEF DrainInv, Before
<1>5. CASE \E r \in Requests : RefuseRaw(r)
  <2>1. PICK r \in Requests : RefuseRaw(r)
    BY <1>5
  <2>2. /\ UNCHANGED <<purge, main, expired, drained>>
        /\ "ingest" \notin drained
    BY <2>1 DEF RefuseRaw, purgeVars, lifeVars
  <2>3. \A s \in drained : Busy(s)' <=> Busy(s)
    BY <2>2 DEF Busy, PurgeUnderWay
  <2>. QED
    BY <2>2, <2>3 DEF DrainInv, Before
<1>6. CASE PipelineStep
  <2>1. UNCHANGED <<main, expired, drained>>
    BY <1>6, PipelineMoves DEF lifeVars
  <2>. QED
    BY <1>6, <2>1, DrainedStaysIdle DEF DrainInv, Before
<1>. QED
  BY <1>3, <1>4, <1>5, <1>6, LifeCases

\* Before the deadline main goes on from a server only when it is drained, and no handler
\* begins on a drained one, so nothing is closed under a handler.
THEOREM ServedUntilDeadline == LifecycleSpec => []ServedUnlessLate
<1>1. DrainInv => ServedUnlessLate
  BY DEF DrainInv, ServedUnlessLate, Before
<1>. QED
  BY LifeTypeInit, LifeTypeStep, DrainInit, DrainStep, <1>1, PTL DEF LifecycleSpec

-------------------------------------------------------------------------------
(* Events. *)

LostRaw == lost["raw"]
LostScreened == lost["screened"]
Unscreened == LostRaw \cup Range(rawQ)
Screened ==
  InHand(fraud) \cup cut \cup LostScreened \cup Range(screenedQ) \cup InHand(mkt) \cup handled

\* No two places have an event in common.  With OnePlace of FlowInv: what has no verdict
\* is lost or queued for the fraud worker, what has one is somewhere behind Screen.
PlacesApart ==
  /\ LostRaw \cap Range(rawQ) = {}
  /\ \A r \in Unscreened : verdict[r] = "none"
  /\ \A r \in Screened : verdict[r] # "none"
  /\ (cut \cup LostScreened)
       \cap (InHand(fraud) \cup Range(screenedQ) \cup InHand(mkt) \cup handled) = {}
  /\ cut \cap LostScreened = {}
PlacesFull == Unscreened \cup Screened = {r \in Requests : req[r] \in {"published", "accepted"}}
PlacesInv == PlacesApart /\ PlacesFull

LEMMA PlacesInit == LifecycleInit => PlacesInv
<1>. SUFFICES ASSUME LifecycleInit PROVE PlacesInv
  OBVIOUS
<1>1. LostRaw = {} /\ LostScreened = {} /\ Range(rawQ) = {} /\ Range(screenedQ) = {}
  BY DEF LifecycleInit, Init, LostRaw, LostScreened, Topics, Range
<1>2. InHand(fraud) = {} /\ InHand(mkt) = {} /\ cut = {} /\ handled = {}
  BY DEF LifecycleInit, Init, InHand
<1>3. {r \in Requests : req[r] \in {"published", "accepted"}} = {}
  BY DEF LifecycleInit, Init
<1>. QED
  BY <1>1, <1>2, <1>3 DEF PlacesInv, PlacesApart, PlacesFull, Unscreened, Screened

\* A request that is not published is in no place, and what is in one is published.
LEMMA NotPublishedNowhere ==
  ASSUME PlacesInv, NEW r \in Requests, req[r] \notin {"published", "accepted"}
  PROVE  r \notin Unscreened \cup Screened
BY DEF PlacesInv, PlacesFull

LEMMA PlacesKept ==
  ASSUME PlacesInv,
         UNCHANGED <<lost, rawQ, screenedQ, verdict, cut, handled>>,
         InHand(fraud)' = InHand(fraud), InHand(mkt)' = InHand(mkt),
         {r \in Requests : req'[r] \in {"published", "accepted"}}
           = {r \in Requests : req[r] \in {"published", "accepted"}}
  PROVE  PlacesInv'
BY DEF PlacesInv, PlacesApart, PlacesFull, Unscreened, Screened, LostRaw, LostScreened, Range

LEMMA IngestPlaces ==
  ASSUME TypeInv, FlowInv, PlacesInv, UNCHANGED cut, NEW r \in Requests, IngestStep(r)
  PROVE  PlacesInv'
<1>1. /\ UNCHANGED <<screenedQ, verdict, handled>>
      /\ InHand(fraud)' = InHand(fraud) /\ InHand(mkt)' = InHand(mkt)
  BY DEF IngestStep, Reject, PublishRaw, PublishFails, Accept, queueVars, fraudVars, mktVars, InHand
<1>2. req \in [Requests -> {"new", "published", "accepted", "rejected", "failed"}]
  BY DEF TypeInv, TypeOK
<1>3. CASE Reject(r) \/ PublishFails(r) \/ Accept(r)
  <2>1. UNCHANGED <<lost, rawQ>>
    BY <1>3 DEF Reject, PublishFails, Accept, queueVars
  <2>2. {q \in Requests : req'[q] \in {"published", "accepted"}}
          = {q \in Requests : req[q] \in {"published", "accepted"}}
    BY <1>2, <1>3 DEF Reject, PublishFails, Accept
  <2>. QED
    BY <1>1, <2>1, <2>2, PlacesKept
<1>4. CASE PublishRaw(r)
  <2>1. req[r] = "new" /\ verdict[r] = "none" /\ r \notin Unscreened /\ r \notin Screened
    BY <1>4, NotPublishedNowhere DEF PublishRaw, FlowInv, OnlyPublished
  <2>2. \/ Range(rawQ') = Range(rawQ) \cup {r} /\ LostRaw' = LostRaw
        \/ Range(rawQ') = Range(rawQ) /\ LostRaw' = LostRaw \cup {r}
    <3>1. CASE Fits("raw", rawQ)
      <4>1. rawQ' = Append(rawQ, r) /\ rawQ \in Seq(Requests) /\ LostRaw' = LostRaw
        BY <1>4, <3>1 DEF PublishRaw, TypeInv, TypeOK, LostRaw
      <4>. QED
        BY <4>1, RangeOfAppend
    <3>2. CASE ~Fits("raw", rawQ)
      BY <1>4, <3>2 DEF PublishRaw, Lose, TypeInv, TypeOK, Topics, LostRaw
    <3>. QED
      BY <3>1, <3>2
  <2>3. LostScreened' = LostScreened
    BY <1>4 DEF PublishRaw, Lose, TypeInv, TypeOK, Topics, LostScreened
  <2>4. Unscreened' = Unscreened \cup {r} /\ Range(rawQ)' = Range(rawQ')
    BY <2>2 DEF Unscreened
  <2>5. Screened' = Screened
    BY <1>1, <2>3 DEF Screened
  <2>6. PlacesApart'
    <3>1. LostRaw' \cap Range(rawQ') = {}
      BY <2>1, <2>2 DEF PlacesInv, PlacesApart, Unscreened
    <3>2. \A q \in Unscreened' : verdict'[q] = "none"
      BY <1>1, <2>1, <2>4 DEF PlacesInv, PlacesApart
    <3>3. \A q \in Screened' : verdict'[q] # "none"
      BY <1>1, <2>5 DEF PlacesInv, PlacesApart
    <3>. QED
      BY <1>1, <2>3, <3>1, <3>2, <3>3 DEF PlacesInv, PlacesApart
  <2>7. PlacesFull'
    <3>1. {q \in Requests : req'[q] \in {"published", "accepted"}}
            = {q \in Requests : req[q] \in {"published", "accepted"}} \cup {r}
      BY <1>2, <1>4 DEF PublishRaw
    <3>. QED
      BY <2>4, <2>5, <3>1 DEF PlacesInv, PlacesFull
  <2>. QED
    BY <2>6, <2>7 DEF PlacesInv
<1>. QED
  BY <1>3, <1>4 DEF IngestStep

LEMMA ScreenPlaces ==
  ASSUME TypeInv, FlowInv, PlacesInv, UNCHANGED cut, Screen
  PROVE  PlacesInv'
<1>. DEFINE h == Head(rawQ)
<1>1. /\ h \in Requests
      /\ Range(rawQ) = {h} \cup Range(rawQ') /\ h \notin Range(rawQ')
  BY RangeOfTail DEF Screen, TypeInv, TypeOK, FlowInv, QueuedOnce
<1>2. InHand(fraud) = {} /\ InHand(fraud)' = {h}
  BY <1>1, NoneIsNoRequest DEF Screen, TypeInv, HandsFull, InHand
<1>3. /\ UNCHANGED <<req, screenedQ, handled, lost>> /\ InHand(mkt)' = InHand(mkt)
      /\ verdict'[h] # "none"
      /\ \A r \in Requests : r # h => verdict'[r] = verdict[r]
  BY <1>1 DEF Screen, ingestVars, mktVars, TypeInv, TypeOK, InHand
<1>. HIDE DEF h
<1>4. Range(screenedQ)' = Range(screenedQ) /\ Range(rawQ)' = Range(rawQ')
      /\ LostRaw' = LostRaw /\ LostScreened' = LostScreened
  BY <1>3 DEF Range, LostRaw, LostScreened
<1>5. h \in Unscreened /\ h \notin Screened /\ h \notin LostRaw
  BY <1>1 DEF PlacesInv, PlacesApart, Unscreened
<1>6. Unscreened \cup Screened \subseteq Requests
  BY DEF PlacesInv, PlacesFull
<1>7. Unscreened' = Unscreened \ {h} /\ Screened' = Screened \cup {h}
  BY <1>1, <1>2, <1>3, <1>4, <1>5 DEF Unscreened, Screened
<1>8. PlacesApart'
  <2>1. \A r \in Unscreened' : verdict'[r] = "none"
    BY <1>3, <1>6, <1>7 DEF PlacesInv, PlacesApart
  <2>2. \A r \in Screened' : verdict'[r] # "none"
    BY <1>3, <1>6, <1>7 DEF PlacesInv, PlacesApart
  <2>3. /\ LostRaw' \cap Range(rawQ)' = {}
        /\ cut' \cap LostScreened' = {}
    BY <1>1, <1>4 DEF PlacesInv, PlacesApart
  <2>4. (cut' \cup LostScreened')
          \cap (InHand(fraud)' \cup Range(screenedQ)' \cup InHand(mkt)' \cup handled') = {}
    BY <1>2, <1>3, <1>4, <1>5 DEF PlacesInv, PlacesApart, Screened
  <2>. QED
    BY <2>1, <2>2, <2>3, <2>4 DEF PlacesApart
<1>. QED
  BY <1>3, <1>5, <1>7, <1>8 DEF PlacesInv, PlacesFull

\* What leaves the fraud worker's hands is in the next channel, lost or refused.
LEMMA HandedOn ==
  ASSUME TypeInv, FlowInv, PlacesInv,
         fraud.at # "idle", InHand(fraud)' = {}, InHand(mkt)' = InHand(mkt),
         UNCHANGED <<req, verdict, handled, rawQ, LostRaw>>,
         \/ /\ Range(screenedQ)' = Range(screenedQ) \cup {fraud.r}
            /\ UNCHANGED <<LostScreened, cut>>
         \/ /\ LostScreened' = LostScreened \cup {fraud.r}
            /\ Range(screenedQ)' = Range(screenedQ) /\ UNCHANGED cut
         \/ /\ cut' = cut \cup {fraud.r}
            /\ Range(screenedQ)' = Range(screenedQ) /\ UNCHANGED LostScreened
  PROVE  PlacesInv'
<1>1. InHand(fraud) = {fraud.r}
  BY DEF TypeInv, HandsFull, InHand
<1>2. fraud.r \notin cut \cup LostScreened \cup Range(screenedQ) \cup InHand(mkt) \cup handled
  BY <1>1 DEF PlacesInv, PlacesApart, FlowInv, OnePlace
<1>3. Unscreened' = Unscreened /\ Range(rawQ)' = Range(rawQ)
  BY DEF Unscreened, Range
<1>4. Screened' = Screened
  BY <1>1 DEF Screened
<1>5. PlacesApart'
  <2>1. LostRaw' \cap Range(rawQ)' = {}
    BY <1>3 DEF PlacesInv, PlacesApart
  <2>2. (\A r \in Unscreened' : verdict'[r] = "none") /\ (\A r \in Screened' : verdict'[r] # "none")
    BY <1>3, <1>4 DEF PlacesInv, PlacesApart
  <2>3. /\ cut' \cap LostScreened' = {}
        /\ (cut' \cup LostScreened')
             \cap (InHand(fraud)' \cup Range(screenedQ)' \cup InHand(mkt)' \cup handled') = {}
    BY <1>1, <1>2 DEF PlacesInv, PlacesApart
  <2>. QED
    BY <2>1, <2>2, <2>3 DEF PlacesApart
<1>. QED
  BY <1>3, <1>4, <1>5 DEF PlacesInv, PlacesFull

LEMMA PublishScreenedPlaces ==
  ASSUME TypeInv, FlowInv, PlacesInv, UNCHANGED cut, PublishScreened
  PROVE  PlacesInv'
<1>1. /\ fraud.at # "idle" /\ UNCHANGED <<req, verdict, handled, rawQ>>
      /\ InHand(fraud)' = {} /\ InHand(mkt)' = InHand(mkt)
      /\ fraud.r \in Requests
  BY HandsTyped DEF PublishScreened, ingestVars, mktVars, InHand
<1>2. CASE Fits("screened", screenedQ)
  <2>1. screenedQ' = Append(screenedQ, fraud.r) /\ screenedQ \in Seq(Requests) /\ UNCHANGED lost
    BY <1>2 DEF PublishScreened, TypeInv, TypeOK
  <2>2. Range(screenedQ)' = Range(screenedQ) \cup {fraud.r}
    BY <1>1, <2>1, RangeOfAppend
  <2>. QED
    BY <1>1, <2>1, <2>2, HandedOn DEF LostRaw, LostScreened
<1>3. CASE ~Fits("screened", screenedQ)
  <2>1. /\ UNCHANGED screenedQ /\ LostRaw' = LostRaw
        /\ LostScreened' = LostScreened \cup {fraud.r}
    BY <1>3 DEF PublishScreened, Lose, TypeInv, TypeOK, Topics, LostRaw, LostScreened
  <2>2. Range(screenedQ)' = Range(screenedQ)
    BY <2>1 DEF Range
  <2>. QED
    BY <1>1, <2>1, <2>2, HandedOn
<1>. QED
  BY <1>2, <1>3

LEMMA RefusePlaces ==
  ASSUME TypeInv, FlowInv, PlacesInv, Refuse
  PROVE  PlacesInv'
<1>1. /\ fraud.at # "idle" /\ UNCHANGED <<req, verdict, handled, rawQ, screenedQ, lost>>
      /\ InHand(fraud)' = {} /\ InHand(mkt)' = InHand(mkt)
      /\ cut' = cut \cup {fraud.r}
  BY DEF Refuse, ingestVars, mktVars, queueVars, InHand
<1>2. /\ Range(screenedQ)' = Range(screenedQ)
      /\ LostRaw' = LostRaw /\ LostScreened' = LostScreened
  BY <1>1 DEF Range, LostRaw, LostScreened
<1>. QED
  BY <1>1, <1>2, HandedOn

\* The marketing worker's events move among its channel, its hands and handled.
LEMMA MarketingPlaces ==
  ASSUME TypeInv, FlowInv, PlacesInv, UNCHANGED cut, Skip \/ Pick \/ SaveContact
  PROVE  PlacesInv'
<1>. DEFINE Mine == Range(screenedQ) \cup InHand(mkt) \cup handled
<1>1. /\ UNCHANGED <<req, verdict, rawQ, fraud, lost>>
      /\ Mine' = Mine
  <2>1. CASE Skip \/ Pick
    <3>1. PICK h \in Requests :
            /\ UNCHANGED <<ingestVars, rawQ, fraudVars>>
            /\ Range(screenedQ) = {h} \cup Range(screenedQ')
            /\ InHand(mkt) = {}
            /\ \/ InHand(mkt') = {} /\ handled' = handled \cup {h}
               \/ InHand(mkt') = {h} /\ handled' = handled
      BY <2>1, DequeueMoves
    <3>2. UNCHANGED lost
      BY <2>1 DEF Skip, Pick
    <3>. QED
      BY <3>1, <3>2 DEF ingestVars, fraudVars
  <2>2. CASE SaveContact
    <3>1. /\ UNCHANGED <<ingestVars, rawQ, screenedQ, fraudVars>>
          /\ InHand(mkt) = {mkt.r} /\ InHand(mkt') = {} /\ handled' = handled \cup {mkt.r}
      BY <2>2, SaveContactMoves
    <3>2. UNCHANGED lost
      BY <2>2 DEF SaveContact, queueVars
    <3>. QED
      BY <3>1, <3>2 DEF ingestVars, fraudVars
  <2>. QED
    BY <2>1, <2>2
<1>2. /\ Range(rawQ)' = Range(rawQ) /\ InHand(fraud)' = InHand(fraud)
      /\ LostRaw' = LostRaw /\ LostScreened' = LostScreened
  BY <1>1 DEF Range, InHand, LostRaw, LostScreened
<1>3. Screened' = Screened /\ Unscreened' = Unscreened
  <2>1. Screened = InHand(fraud) \cup cut \cup LostScreened \cup Mine
    BY DEF Screened
  <2>2. Screened' = InHand(fraud)' \cup cut' \cup LostScreened' \cup Mine'
    BY DEF Screened
  <2>. QED
    BY <1>1, <1>2, <2>1, <2>2 DEF Unscreened
<1>4. (cut' \cup LostScreened') \cap (InHand(fraud)' \cup Mine') = {}
  BY <1>1, <1>2 DEF PlacesInv, PlacesApart
<1>5. PlacesApart'
  BY <1>1, <1>2, <1>3, <1>4 DEF PlacesInv, PlacesApart
<1>. QED
  BY <1>1, <1>3, <1>5 DEF PlacesInv, PlacesFull

LEMMA PipelinePlaces ==
  ASSUME TypeInv, FlowInv, PlacesInv, UNCHANGED cut, Next
  PROVE  PlacesInv'
<1>1. CASE SaveEvent \/ OtherStep
  <2>1. /\ UNCHANGED <<req, lost, rawQ, screenedQ, verdict, handled>>
    BY <1>1 DEF SaveEvent, OtherStep, Listen, CountVerdict, CountAttempt, Sync, CountResult,
       ingestVars, queueVars, fraudVars, mktVars
  <2>2. InHand(fraud)' = InHand(fraud) /\ InHand(mkt)' = InHand(mkt)
    <3>1. CASE SaveEvent
      BY <3>1 DEF SaveEvent, mktVars, InHand, TypeInv, TypeOK
    <3>2. CASE OtherStep
      BY <3>2, OtherMoves
    <3>. QED
      BY <1>1, <3>1, <3>2
  <2>. QED
    BY <2>1, <2>2, PlacesKept
<1>2. CASE \E g \in Purges : BeginPurge(g) \/ PurgeStep(g)
  <2>1. UNCHANGED <<ingestVars, fraudVars, mktVars, queueVars>>
    BY <1>2, PurgeMoves
  <2>. QED
    BY <2>1, PlacesKept DEF ingestVars, fraudVars, mktVars, queueVars, InHand
<1>. QED
  BY <1>1, <1>2, StepCases, IngestPlaces, ScreenPlaces, PublishScreenedPlaces, MarketingPlaces

LEMMA LifeFlowInit == LifecycleInit => FlowInv
BY FlowInit DEF LifecycleInit

LEMMA LifeFlowStep == LifeTypeInv /\ FlowInv /\ [LifecycleNext]_lifecycleVars => FlowInv'
<1>. SUFFICES ASSUME LifeTypeInv, FlowInv, [LifecycleNext]_lifecycleVars PROVE FlowInv'
  OBVIOUS
<1>1. TypeInv
  BY PipelineTypes
<1>2. CASE Outside \/ UNCHANGED lifecycleVars
  BY <1>1, <1>2, OutsideMoves, FlowStep
<1>3. CASE Refuse
  <2>1. UNCHANGED <<req, rawQ, screenedQ, verdict, mkt, handled, events, contact, erased>>
    BY <1>3 DEF Refuse, ingestVars, mktVars, queueVars
  <2>2. InHand(fraud') = {} /\ fraud'.at = "idle"
    BY <1>3 DEF Refuse, InHand
  <2>3. OnlyPublished' /\ QueuedOnce' /\ ContactsHandled' /\ SavedOnce'
    BY <2>1, <2>2 DEF FlowInv, OnlyPublished, QueuedOnce, ContactsHandled, SavedOnce
  <2>4. HaveVerdict' /\ OnePlace'
    BY <2>1, <2>2 DEF FlowInv, HaveVerdict, OnePlace
  <2>. QED
    BY <2>3, <2>4 DEF FlowInv
<1>4. CASE \E r \in Requests : RefuseRaw(r)
  <2>1. PICK r \in Requests : RefuseRaw(r)
    BY <1>4
  <2>2. /\ UNCHANGED <<rawQ, screenedQ, fraud, verdict, mkt, handled, events, contact, erased>>
        /\ req[r] = "new" /\ req' = [req EXCEPT ![r] = "failed"]
    BY <2>1 DEF RefuseRaw, fraudVars, mktVars, queueVars
  <2>3. OnlyPublished'
    BY <1>1, <2>2 DEF FlowInv, OnlyPublished, TypeInv, TypeOK
  <2>. QED
    BY <2>2, <2>3 DEF FlowInv, QueuedOnce, HaveVerdict, OnePlace, ContactsHandled, SavedOnce
<1>5. CASE PipelineStep
  BY <1>1, <1>5, PipelineMoves, FlowStep
<1>. QED
  BY <1>2, <1>3, <1>4, <1>5, LifeCases

LEMMA PlacesStep ==
  LifeTypeInv /\ FlowInv /\ PlacesInv /\ [LifecycleNext]_lifecycleVars => PlacesInv'
<1>. SUFFICES ASSUME LifeTypeInv, FlowInv, PlacesInv, [LifecycleNext]_lifecycleVars
              PROVE  PlacesInv'
  OBVIOUS
<1>1. TypeInv
  BY PipelineTypes
<1>2. CASE Outside \/ UNCHANGED lifecycleVars
  BY <1>2, OutsideMoves, PlacesKept
     DEF vars, ingestVars, fraudVars, mktVars, queueVars, InHand
<1>3. CASE Refuse
  BY <1>1, <1>3, RefusePlaces
<1>4. CASE \E r \in Requests : RefuseRaw(r)
  <2>1. PICK r \in Requests : RefuseRaw(r)
    BY <1>4
  <2>2. /\ UNCHANGED <<rawQ, screenedQ, lost, fraud, verdict, mkt, handled, cut>>
        /\ req[r] = "new" /\ req' = [req EXCEPT ![r] = "failed"]
    BY <2>1 DEF RefuseRaw, fraudVars, mktVars, queueVars, lifeVars
  <2>3. {q \in Requests : req'[q] \in {"published", "accepted"}}
          = {q \in Requests : req[q] \in {"published", "accepted"}}
    BY <1>1, <2>2 DEF TypeInv, TypeOK
  <2>. QED
    BY <2>2, <2>3, PlacesKept DEF InHand
<1>5. CASE PipelineStep
  BY <1>1, <1>5, PipelineMoves, PipelinePlaces DEF lifeVars
<1>. QED
  BY <1>2, <1>3, <1>4, <1>5, LifeCases

\* What is in one place is counted once.
LEMMA CountedOnce ==
  ASSUME FlowInv, PlacesInv, NEW r \in Requests
  PROVE  Cardinality({i \in DOMAIN Places : r \in Places[i]})
           = IF req[r] \in {"published", "accepted"} THEN 1 ELSE 0
<1>. DEFINE P == {i \in DOMAIN Places : r \in Places[i]}
<1>1. /\ DOMAIN Places = 1..8
      /\ Places[1] = LostRaw /\ Places[2] = Range(rawQ) /\ Places[3] = InHand(fraud)
      /\ Places[4] = cut /\ Places[5] = LostScreened /\ Places[6] = Range(screenedQ)
      /\ Places[7] = InHand(mkt) /\ Places[8] = handled
  BY DEF Places, LostRaw, LostScreened
<1>2. 1..8 = {1, 2, 3, 4, 5, 6, 7, 8}
  OBVIOUS
<1>3. CASE req[r] \notin {"published", "accepted"}
  <2>1. P = {}
    BY <1>1, <1>2, <1>3, NotPublishedNowhere DEF Unscreened, Screened
  <2>. QED
    BY <1>3, <2>1, FS_EmptySet
<1>4. CASE req[r] \in {"published", "accepted"}
  <2>1. r \in Unscreened \cup Screened
    BY <1>4 DEF PlacesInv, PlacesFull
  <2>2. ~(r \in Unscreened /\ r \in Screened)
    BY DEF PlacesInv, PlacesApart
  <2>3. \E k \in 1..8 : P = {k}
    <3>1. CASE r \in LostRaw
      <4>1. P = {1}
        BY <1>1, <1>2, <2>2, <3>1 DEF PlacesInv, PlacesApart, Unscreened, Screened
      <4>. QED
        BY <4>1
    <3>2. CASE r \in Range(rawQ)
      <4>1. P = {2}
        BY <1>1, <1>2, <2>2, <3>2 DEF PlacesInv, PlacesApart, Unscreened, Screened
      <4>. QED
        BY <4>1
    <3>3. CASE r \in InHand(fraud)
      <4>1. P = {3}
        BY <1>1, <1>2, <2>2, <3>3 DEF PlacesInv, PlacesApart, Unscreened, Screened,
           FlowInv, OnePlace
      <4>. QED
        BY <4>1
    <3>4. CASE r \in cut
      <4>1. P = {4}
        BY <1>1, <1>2, <2>2, <3>4 DEF PlacesInv, PlacesApart, Unscreened, Screened
      <4>. QED
        BY <4>1
    <3>5. CASE r \in LostScreened
      <4>1. P = {5}
        BY <1>1, <1>2, <2>2, <3>5 DEF PlacesInv, PlacesApart, Unscreened, Screened
      <4>. QED
        BY <4>1
    <3>6. CASE r \in Range(screenedQ)
      <4>1. P = {6}
        BY <1>1, <1>2, <2>2, <3>6 DEF PlacesInv, PlacesApart, Unscreened, Screened,
           FlowInv, OnePlace
      <4>. QED
        BY <4>1
    <3>7. CASE r \in InHand(mkt)
      <4>1. P = {7}
        BY <1>1, <1>2, <2>2, <3>7 DEF PlacesInv, PlacesApart, Unscreened, Screened,
           FlowInv, OnePlace
      <4>. QED
        BY <4>1
    <3>8. CASE r \in handled
      <4>1. P = {8}
        BY <1>1, <1>2, <2>2, <3>8 DEF PlacesInv, PlacesApart, Unscreened, Screened,
           FlowInv, OnePlace
      <4>. QED
        BY <4>1
    <3>. QED
      BY <2>1, <3>1, <3>2, <3>3, <3>4, <3>5, <3>6, <3>7, <3>8 DEF Unscreened, Screened
  <2>. QED
    BY <1>4, <2>3, FS_Singleton
<1>. QED
  BY <1>3, <1>4

\* Every published event is in exactly one of the eight places, also when the process has
\* ended: each step takes it out of one and puts it into another, and the broker that
\* refuses it puts it into cut.
THEOREM EveryEventOnce == LifecycleSpec => []EachEventOnce
<1>1. FlowInv /\ PlacesInv => EachEventOnce
  BY CountedOnce DEF EachEventOnce
<1>. QED
  BY LifeTypeInit, LifeTypeStep, LifeFlowInit, LifeFlowStep, PlacesInit, PlacesStep, <1>1, PTL
     DEF LifecycleSpec

-------------------------------------------------------------------------------
(* What the pipeline promises, while the process goes down and after. *)

Promises ==
  RefusedLeavesNoTrace /\ FraudNeverMarketed /\ ContactsHaveEvents /\ PurgeErasesRecords
PromisesInv == FraudNeverMarketed /\ SavedInv /\ ErasureInv

LEMMA PromisesInit == LifecycleInit => PromisesInv
BY LegitInit, SavedInit, ErasureInit DEF LifecycleInit, PromisesInv

\* Refusing an event, or a request, takes nothing from a repository and adds nothing.
LEMMA RefusalKeeps ==
  ASSUME TypeInv, PromisesInv, Refuse \/ \E r \in Requests : RefuseRaw(r)
  PROVE  PromisesInv'
<1>1. /\ UNCHANGED <<store, post, screenedQ, verdict, mkt, handled, purge, audit, gone,
                     events, contact, erased>>
      /\ UNCHANGED fraud \/ InHand(fraud)' = {}
  BY DEF Refuse, RefuseRaw, ingestVars, fraudVars, mktVars, queueVars, purgeVars, InHand
<1>2. FraudNeverMarketed'
  BY <1>1 DEF PromisesInv, FraudNeverMarketed, InHand
<1>3. SavedInv'
  <2>1. /\ Range(screenedQ)' = Range(screenedQ) /\ InHand(mkt)' = InHand(mkt)
        /\ Saved' = Saved
    BY <1>1 DEF Range, InHand, Saved
  <2>2. CASE UNCHANGED fraud
    BY <1>1, <2>1, <2>2 DEF PromisesInv, SavedInv, InHand
  <2>3. CASE InHand(fraud)' = {}
    BY <1>1, <2>1, <2>3 DEF PromisesInv, SavedInv
  <2>. QED
    BY <1>1, <2>2, <2>3
<1>4. ErasureInv'
  <2>1. WorkersAdd
    BY <1>1 DEF WorkersAdd
  <2>. QED
    BY <2>1, WorkersErasure DEF PromisesInv
<1>. QED
  BY <1>2, <1>3, <1>4 DEF PromisesInv

LEMMA PromisesStep ==
  LifeTypeInv /\ FlowInv /\ PromisesInv /\ [LifecycleNext]_lifecycleVars => PromisesInv'
<1>. SUFFICES ASSUME LifeTypeInv, FlowInv, PromisesInv, [LifecycleNext]_lifecycleVars
              PROVE  PromisesInv'
  OBVIOUS
<1>1. TypeInv
  BY PipelineTypes
<1>2. [Next]_vars \/ Refuse \/ \E r \in Requests : RefuseRaw(r)
  BY LifeCases, OutsideMoves, PipelineMoves
<1>3. CASE [Next]_vars
  BY <1>1, <1>3, LegitStep, SavedStep, ErasureStep DEF PromisesInv
<1>. QED
  BY <1>1, <1>2, <1>3, RefusalKeeps

\* No order in which main stops the servers, the database and the broker breaks what the
\* pipeline promises: no trace of a refused event, no contact of a fraudulent one or of one
\* that was not stored, no record left that a purge answered for.
THEOREM ShutdownKeepsPromises == LifecycleSpec => []Promises
<1>1. LifeTypeInv /\ FlowInv /\ PromisesInv => Promises
  <2>. SUFFICES ASSUME LifeTypeInv, FlowInv, PromisesInv PROVE Promises
    OBVIOUS
  <2>1. TypeInv
    BY PipelineTypes
  <2>2. RefusedLeavesNoTrace /\ PurgeErasesRecords
    BY <2>1, RefusedUntouched, FoundIsErased DEF PromisesInv
  <2>3. ContactsHaveEvents
    BY DEF FlowInv, ContactsHandled, PromisesInv, SavedInv, Saved, ContactsHaveEvents
  <2>. QED
    BY <2>2, <2>3 DEF Promises, PromisesInv
<1>. QED
  BY LifeTypeInit, LifeTypeStep, LifeFlowInit, LifeFlowStep, PromisesInit, PromisesStep, <1>1, PTL
     DEF LifecycleSpec

===============================================================================
