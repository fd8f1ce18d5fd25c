---------------------------- MODULE PipelineCounts ----------------------------
(***************************************************************************)
(* Proofs about the counters of Pipeline: what they count is conserved     *)
(* while the ingest handlers and the two workers count on their own.  Each *)
(* counter is the cardinality of a set of requests, or moves with one; the *)
(* sets are finite because a step adds at most one request to them.        *)
(***************************************************************************)
EXTENDS PipelineProofs, FiniteSetTheorems

LEMMA Counting ==
  ASSUME NEW S, IsFiniteSet(S), NEW x
  PROVE  /\ Cardinality(S) \in Nat
         /\ IsFiniteSet(S \cup {x}) /\ IsFiniteSet(S \ {x})
         /\ x \notin S => Cardinality(S \cup {x}) = Cardinality(S) + 1
         /\ x \in S => Cardinality(S \ {x}) = Cardinality(S) - 1
<1>1. Cardinality(S) \in Nat
  BY FS_CardinalityType
<1>2. IsFiniteSet(S \cup {x}) /\ (x \notin S => Cardinality(S \cup {x}) = Cardinality(S) + 1)
  BY FS_AddElement
<1>3. IsFiniteSet(S \ {x}) /\ (x \in S => Cardinality(S \ {x}) = Cardinality(S) - 1)
  BY FS_RemoveElement
<1>. QED
  BY <1>1, <1>2, <1>3

\* The memory tracker loses no count.
LEMMA ExactIncrement ==
  ASSUME TypeInv, store = "memory", NEW m \in Counters, Increment(m)
  PROVE  \A k \in Counters : metrics'[k] = IF k = m THEN metrics[k] + 1 ELSE metrics[k]
BY DEF Increment, MayFail, TypeInv, TypeOK

\* The counters are numbers, and so is the length of the fraud worker's channel.
Numbers ==
  /\ Len(rawQ) \in Nat
  /\ metrics["total_received"] \in Nat /\ metrics["legitimate"] \in Nat
  /\ metrics["fraudulent"] \in Nat
  /\ metrics["crm_attempts"] \in Nat /\ metrics["crm_successes"] \in Nat
  /\ metrics["crm_failures"] \in Nat
LEMMA CountsTyped == TypeInv => Numbers
BY DEF TypeInv, TypeOK, Numbers, Counters

-------------------------------------------------------------------------------
(* What was received. *)

InState(s) == {r \in Requests : req[r] = s}
Published == InState("published")
Rejected == InState("rejected")
LostRaw == lost["raw"]

Entered == metrics["total_received"] + Cardinality(Published)
Aside == Cardinality(Rejected) + Cardinality(LostRaw)
Underway == Len(rawQ) + Holding(fraud, {"save", "count"})
Judged == metrics["legitimate"] + metrics["fraudulent"]

\* A drop is a publication, so no request enters a set twice.
ReceivedInv ==
  /\ IsFiniteSet(Published) /\ IsFiniteSet(Rejected) /\ IsFiniteSet(LostRaw)
  /\ LostRaw \subseteq {r \in Requests : req[r] \in {"published", "accepted"}}
  /\ store = "memory" => Entered = Aside + Underway + Judged

LEMMA SumsTyped ==
  ASSUME TypeInv, ReceivedInv
  PROVE  /\ Cardinality(Published) \in Nat /\ Cardinality(Rejected) \in Nat
         /\ Cardinality(LostRaw) \in Nat /\ Holding(fraud, {"save", "count"}) \in Nat
         /\ Entered \in Nat /\ Aside \in Nat /\ Underway \in Nat /\ Judged \in Nat
<1>1. /\ Cardinality(Published) \in Nat /\ Cardinality(Rejected) \in Nat
      /\ Cardinality(LostRaw) \in Nat
  BY Counting DEF ReceivedInv
<1>2. Holding(fraud, {"save", "count"}) \in Nat
  BY DEF Holding
<1>3. Numbers
  BY CountsTyped
<1>4. Entered \in Nat /\ Aside \in Nat
  BY <1>1, <1>3 DEF Numbers, Entered, Aside
<1>5. Underway \in Nat /\ Judged \in Nat
  BY <1>2, <1>3 DEF Numbers, Underway, Judged
<1>. QED
  BY <1>1, <1>2, <1>4, <1>5

LEMMA ReceivedInit == Init => ReceivedInv
<1>. SUFFICES ASSUME Init PROVE ReceivedInv
  OBVIOUS
<1>1. Published = {} /\ Rejected = {} /\ LostRaw = {}
  BY DEF Init, Published, Rejected, InState, LostRaw, Topics
<1>2. IsFiniteSet({}) /\ Cardinality({}) = 0
  BY FS_EmptySet
<1>3. /\ metrics["total_received"] = 0 /\ metrics["legitimate"] = 0 /\ metrics["fraudulent"] = 0
      /\ Len(rawQ) = 0 /\ Holding(fraud, {"save", "count"}) = 0
  BY DEF Init, Counters, Holding
<1>4. Entered = 0 /\ Aside = 0 /\ Underway = 0 /\ Judged = 0
  BY <1>1, <1>2, <1>3 DEF Entered, Aside, Underway, Judged
<1>. QED
  BY <1>1, <1>2, <1>4 DEF ReceivedInv

LEMMA IngestReceived ==
  ASSUME TypeInv, ReceivedInv, NEW r \in Requests, IngestStep(r)
  PROVE  ReceivedInv'
<1>1. /\ UNCHANGED <<store, fraud>>
      /\ req \in [Requests -> {"new", "published", "accepted", "rejected", "failed"}]
      /\ LostRaw \subseteq Requests
  BY DEF IngestStep, Reject, PublishRaw, PublishFails, Accept, fraudVars, TypeInv, TypeOK,
     LostRaw, Topics
<1>2. /\ Cardinality(Published) \in Nat /\ Cardinality(Rejected) \in Nat
      /\ Cardinality(LostRaw) \in Nat /\ Holding(fraud, {"save", "count"}) \in Nat
      /\ Entered \in Nat /\ Aside \in Nat /\ Underway \in Nat /\ Judged \in Nat
      /\ IsFiniteSet(Published) /\ IsFiniteSet(Rejected) /\ IsFiniteSet(LostRaw)
  BY SumsTyped DEF ReceivedInv
<1>3. Numbers
  BY CountsTyped
<1>4. Holding(fraud, {"save", "count"})' = Holding(fraud, {"save", "count"})
  BY <1>1 DEF Holding
<1>5. ASSUME store = "memory", Increment("total_received")
      PROVE  metrics'["total_received"] = metrics["total_received"] + 1 /\ Judged' = Judged
  <2>1. /\ metrics'["total_received"] = metrics["total_received"] + 1
        /\ metrics'["legitimate"] = metrics["legitimate"]
        /\ metrics'["fraudulent"] = metrics["fraudulent"]
    BY <1>5, ExactIncrement DEF Counters
  <2>. QED
    BY <2>1 DEF Judged
<1>6. CASE Reject(r)
  <2>1. UNCHANGED <<lost, rawQ>> /\ Increment("total_received") /\ r \notin Rejected
    BY <1>6 DEF Reject, queueVars, Rejected, InState
  <2>2. Published' = Published /\ Rejected' = Rejected \cup {r} /\ LostRaw' = LostRaw
    BY <1>1, <1>6, <2>1 DEF Reject, Published, Rejected, InState, LostRaw
  <2>3. IsFiniteSet(Rejected') /\ Cardinality(Rejected') = Cardinality(Rejected) + 1
    BY <1>2, <2>1, <2>2, Counting
  <2>4. LostRaw' \subseteq {q \in Requests : req'[q] \in {"published", "accepted"}}
    BY <1>1, <1>6, <2>2 DEF Reject, ReceivedInv
  <2>5. Aside' = Aside + 1 /\ Underway' = Underway
    BY <1>2, <1>4, <2>1, <2>2, <2>3 DEF Aside, Underway
  <2>6. store = "memory" => Entered' = Entered + 1 /\ Judged' = Judged
    BY <1>2, <1>3, <1>5, <2>1, <2>2 DEF Entered, Numbers
  <2>. QED
    BY <1>1, <1>2, <2>2, <2>3, <2>4, <2>5, <2>6 DEF ReceivedInv
<1>7. CASE PublishRaw(r)
  <2>1. UNCHANGED metrics /\ r \notin Published /\ r \notin LostRaw
    BY <1>7 DEF PublishRaw, Published, InState, ReceivedInv
  <2>2. Published' = Published \cup {r} /\ Rejected' = Rejected
    BY <1>1, <1>7 DEF PublishRaw, Published, Rejected, InState
  <2>3. IsFiniteSet(Published') /\ Cardinality(Published') = Cardinality(Published) + 1
    BY <1>2, <2>1, <2>2, Counting
  <2>4. Entered' = Entered + 1 /\ Judged' = Judged
    <3>1. Entered' = metrics["total_received"] + (Cardinality(Published) + 1)
      BY <2>1, <2>3 DEF Entered
    <3>2. metrics["total_received"] \in Nat
      BY <1>3 DEF Numbers
    <3>. QED
      BY <1>2, <2>1, <3>1, <3>2 DEF Entered, Judged
  <2>5. CASE Fits("raw", rawQ)
    <3>1. rawQ' = Append(rawQ, r) /\ rawQ \in Seq(Requests) /\ UNCHANGED lost
      BY <1>7, <2>5 DEF PublishRaw, TypeInv, TypeOK
    <3>2. Len(rawQ') = Len(rawQ) + 1 /\ LostRaw' = LostRaw
      BY <3>1 DEF LostRaw
    <3>3. Underway' = Underway + 1 /\ Aside' = Aside
      BY <1>2, <1>3, <1>4, <2>2, <3>2 DEF Underway, Aside, Numbers
    <3>4. LostRaw' \subseteq {q \in Requests : req'[q] \in {"published", "accepted"}}
      BY <1>1, <1>7, <3>2 DEF PublishRaw, ReceivedInv
    <3>. QED
      BY <1>1, <1>2, <2>2, <2>3, <2>4, <3>2, <3>3, <3>4 DEF ReceivedInv
  <2>6. CASE ~Fits("raw", rawQ)
    <3>1. LostRaw' = LostRaw \cup {r} /\ rawQ' = rawQ
      BY <1>7, <2>6 DEF PublishRaw, Lose, TypeInv, TypeOK, Topics, LostRaw
    <3>2. IsFiniteSet(LostRaw') /\ Cardinality(LostRaw') = Cardinality(LostRaw) + 1
      BY <1>2, <2>1, <3>1, Counting
    <3>3. Underway' = Underway /\ Aside' = Aside + 1
      BY <1>2, <1>4, <2>2, <3>1, <3>2 DEF Underway, Aside
    <3>4. LostRaw' \subseteq {q \in Requests : req'[q] \in {"published", "accepted"}}
      BY <1>1, <1>7, <3>1 DEF PublishRaw, ReceivedInv
    <3>. QED
      BY <1>1, <1>2, <2>2, <2>3, <2>4, <3>2, <3>3, <3>4 DEF ReceivedInv
  <2>. QED
    BY <2>5, <2>6
<1>8. CASE PublishFails(r)
  <2>1. UNCHANGED <<metrics, lost, rawQ>>
    BY <1>8 DEF PublishFails, queueVars
  <2>2. Published' = Published /\ Rejected' = Rejected /\ LostRaw' = LostRaw
    BY <1>1, <1>8, <2>1 DEF PublishFails, Published, Rejected, InState, LostRaw
  <2>3. LostRaw' \subseteq {q \in Requests : req'[q] \in {"published", "accepted"}}
    BY <1>1, <1>8, <2>2 DEF PublishFails, ReceivedInv
  <2>4. Entered' = Entered /\ Aside' = Aside /\ Underway' = Underway /\ Judged' = Judged
    BY <1>4, <2>1, <2>2 DEF Entered, Aside, Underway, Judged
  <2>. QED
    BY <1>1, <1>2, <2>2, <2>3, <2>4 DEF ReceivedInv
<1>9. CASE Accept(r)
  <2>1. UNCHANGED <<lost, rawQ>> /\ Increment("total_received") /\ r \in Published
    BY <1>9 DEF Accept, queueVars, Published, InState
  <2>2. Published' = Published \ {r} /\ Rejected' = Rejected /\ LostRaw' = LostRaw
    BY <1>1, <1>9, <2>1 DEF Accept, Published, Rejected, InState, LostRaw
  <2>3. IsFiniteSet(Published') /\ Cardinality(Published') = Cardinality(Published) - 1
    BY <1>2, <2>1, <2>2, Counting
  <2>4. LostRaw' \subseteq {q \in Requests : req'[q] \in {"published", "accepted"}}
    BY <1>1, <1>9, <2>2 DEF Accept, ReceivedInv
  <2>5. Aside' = Aside /\ Underway' = Underway
    BY <1>4, <2>1, <2>2 DEF Aside, Underway
  <2>6. store = "memory" => Entered' = Entered /\ Judged' = Judged
    <3>. SUFFICES ASSUME store = "memory" PROVE Entered' = Entered /\ Judged' = Judged
      OBVIOUS
    <3>1. Judged' = Judged
      BY <1>5, <2>1
    <3>2. Entered' = (metrics["total_received"] + 1) + (Cardinality(Published) - 1)
      BY <1>5, <2>1, <2>3 DEF Entered
    <3>3. metrics["total_received"] \in Nat
      BY <1>3 DEF Numbers
    <3>. QED
      BY <1>2, <3>1, <3>2, <3>3 DEF Entered
  <2>. QED
    BY <1>1, <1>2, <2>2, <2>3, <2>4, <2>5, <2>6 DEF ReceivedInv
<1>. QED
  BY <1>6, <1>7, <1>8, <1>9 DEF IngestStep

\* What the other goroutines do leaves the sets as they are.
LEMMA BalanceKept ==
  ASSUME ReceivedInv, UNCHANGED <<store, req, LostRaw>>,
         store = "memory" =>
           metrics'["total_received"] = metrics["total_received"]
             /\ Underway' + Judged' = Underway + Judged,
         TypeInv, TypeInv'
  PROVE  ReceivedInv'
<1>1. Published' = Published /\ Rejected' = Rejected /\ LostRaw' = LostRaw
  BY DEF Published, Rejected, InState
<1>2. Aside' = Aside /\ (store = "memory" => Entered' = Entered)
  BY <1>1 DEF Aside, Entered
<1>3. Aside \in Nat /\ Underway \in Nat /\ Judged \in Nat
  BY SumsTyped
<1>4. Underway' \in Nat /\ Judged' \in Nat
  <2>1. Numbers'
    BY DEF TypeInv, TypeOK, Numbers, Counters
  <2>2. Holding(fraud, {"save", "count"})' \in Nat
    BY DEF Holding
  <2>. QED
    BY <2>1, <2>2 DEF Numbers, Underway, Judged
<1>5. ASSUME store = "memory" PROVE Entered' = Aside' + Underway' + Judged'
  <2>1. Entered = Aside + Underway + Judged
    BY <1>5 DEF ReceivedInv
  <2>2. Underway' + Judged' = Underway + Judged
    BY <1>5
  <2>3. Entered' = Entered /\ Aside' = Aside
    BY <1>2, <1>5
  <2>. QED
    <3>1. Entered' = Aside + (Underway + Judged)
      BY <1>3, <2>1, <2>3
    <3>2. Entered' = Aside' + (Underway' + Judged')
      BY <2>2, <2>3, <3>1
    <3>. QED
      BY <1>3, <1>4, <2>3, <3>2
<1>. QED
  BY <1>1, <1>5 DEF ReceivedInv

LEMMA ReceivedStep == TypeInv /\ ReceivedInv /\ [Next]_vars => ReceivedInv'
<1>. SUFFICES ASSUME TypeInv, ReceivedInv, [Next]_vars, TypeInv' PROVE ReceivedInv'
  BY TypeStep
<1>1. Numbers /\ Underway \in Nat /\ Judged \in Nat
  BY CountsTyped, SumsTyped
<1>2. CASE /\ UNCHANGED <<store, req, lost, rawQ, fraud>>
           /\ store = "memory" => \A k \in {"total_received", "legitimate", "fraudulent"} :
                                     metrics'[k] = metrics[k]
  <2>1. UNCHANGED LostRaw /\ Underway' = Underway
    BY <1>2 DEF LostRaw, Underway, Holding
  <2>2. store = "memory" =>
          metrics'["total_received"] = metrics["total_received"] /\ Judged' = Judged
    BY <1>2 DEF Judged
  <2>. QED
    BY <1>2, <2>1, <2>2, BalanceKept
<1>3. CASE Screen
  <2>1. /\ UNCHANGED <<store, req, lost, metrics>>
        /\ Len(rawQ') = Len(rawQ) - 1
        /\ Holding(fraud, {"save", "count"}) = 0 /\ Holding(fraud, {"save", "count"})' = 1
    BY <1>3, RangeOfTail DEF Screen, ingestVars, Holding, TypeInv, TypeOK
  <2>2. Underway' = Underway /\ Judged' = Judged
    BY <1>1, <2>1 DEF Underway, Judged, Numbers
  <2>. QED
    BY <2>1, <2>2, BalanceKept DEF LostRaw
<1>4. CASE SaveEvent
  <2>1. /\ UNCHANGED <<store, req, lost, metrics, rawQ>>
        /\ Holding(fraud, {"save", "count"}) = 1 /\ Holding(fraud, {"save", "count"})' = 1
    BY <1>4 DEF SaveEvent, ingestVars, queueVars, Holding, TypeInv, TypeOK
  <2>2. Underway' = Underway /\ Judged' = Judged
    BY <2>1 DEF Underway, Judged
  <2>. QED
    BY <2>1, <2>2, BalanceKept DEF LostRaw
<1>5. CASE CountVerdict
  <2>1. /\ UNCHANGED <<store, req, lost, rawQ>>
        /\ Holding(fraud, {"save", "count"}) = 1 /\ Holding(fraud, {"save", "count"})' = 0
    BY <1>5 DEF CountVerdict, ingestVars, queueVars, Holding, TypeInv, TypeOK
  <2>2. Underway' = Underway - 1
    BY <1>1, <2>1 DEF Underway, Numbers
  <2>3. ASSUME store = "memory"
        PROVE  metrics'["total_received"] = metrics["total_received"] /\ Judged' = Judged + 1
    <3>1. CASE Increment("fraudulent")
      <4>1. /\ metrics'["total_received"] = metrics["total_received"]
            /\ metrics'["fraudulent"] = metrics["fraudulent"] + 1
            /\ metrics'["legitimate"] = metrics["legitimate"]
        BY <2>3, <3>1, ExactIncrement DEF Counters
      <4>. QED
        BY <1>1, <4>1 DEF Judged, Numbers
    <3>2. CASE Increment("legitimate")
      <4>1. /\ metrics'["total_received"] = metrics["total_received"]
            /\ metrics'["fraudulent"] = metrics["fraudulent"]
            /\ metrics'["legitimate"] = metrics["legitimate"] + 1
        BY <2>3, <3>2, ExactIncrement DEF Counters
      <4>. QED
        BY <1>1, <4>1 DEF Judged, Numbers
    <3>. QED
      BY <1>5, <3>1, <3>2 DEF CountVerdict
  <2>. QED
    BY <1>1, <2>1, <2>2, <2>3, BalanceKept DEF LostRaw
<1>6. CASE PublishScreened
  <2>1. /\ UNCHANGED <<store, req, metrics, rawQ>>
        /\ Holding(fraud, {"save", "count"}) = 0 /\ Holding(fraud, {"save", "count"})' = 0
    BY <1>6 DEF PublishScreened, ingestVars, Holding
  <2>2. LostRaw' = LostRaw
    BY <1>6 DEF PublishScreened, Lose, LostRaw, TypeInv, TypeOK, Topics
  <2>3. Underway' = Underway /\ Judged' = Judged
    BY <2>1 DEF Underway, Judged
  <2>. QED
    BY <2>1, <2>2, <2>3, BalanceKept
<1>7. CASE CountAttempt \/ CountResult
  <2>1. UNCHANGED <<store, req, lost, rawQ, fraud>>
    BY <1>7 DEF CountAttempt, CountResult, ingestVars, queueVars, fraudVars
  <2>2. Increment("crm_attempts") \/ Increment("crm_successes") \/ Increment("crm_failures")
    BY <1>7 DEF CountAttempt, CountResult
  <2>3. store = "memory" =>
          \A k \in {"total_received", "legitimate", "fraudulent"} : metrics'[k] = metrics[k]
    BY <2>2, ExactIncrement DEF Counters
  <2>. QED
    BY <1>2, <2>1, <2>3
<1>8. CASE \/ Skip \/ Pick \/ Sync \/ SaveContact \/ UNCHANGED vars
           \/ \E t \in Topics : Listen(t)
           \/ \E g \in Purges : BeginPurge(g) \/ PurgeStep(g)
  <2>1. UNCHANGED <<store, req, lost, rawQ, fraud, metrics>>
    BY <1>8, PurgeMoves DEF Skip, Pick, Sync, SaveContact, Listen, vars, ingestVars, queueVars,
       fraudVars, BeginPurge, PurgeStep, MemoryDeleteEvents, MemoryCascade, PostgresDelete,
       PostgresDeleteFails, PurgeContact, PurgeLog
  <2>. QED
    BY <1>2, <2>1
<1>. QED
  BY <1>3, <1>4, <1>5, <1>6, <1>7, <1>8, IngestReceived DEF Next, FraudStep, MarketingStep

\* What the tracker counted as received is rejected, lost, queued, in the fraud worker's
\* hands or counted with a verdict: no order of the ingest handlers' counts and the fraud
\* worker's, and no drop, loses an event from the sum (memory tracker).
THEOREM ReceivedIsConserved == Spec => []ReceivedConserved
<1>1. TypeInv /\ ReceivedInv => ReceivedConserved
  <2>. SUFFICES ASSUME TypeInv, ReceivedInv, store = "memory"
                PROVE  Entered = Cardinality(Rejected) + Cardinality(LostRaw) + Len(rawQ)
                                   + Holding(fraud, {"save", "count"})
                                   + metrics["legitimate"] + metrics["fraudulent"]
    BY DEF ReceivedConserved, Entered, Published, Rejected, InState, LostRaw
  <2>1. Entered = Aside + Underway + Judged
    BY DEF ReceivedInv
  <2>2. Aside \in Nat /\ Len(rawQ) \in Nat /\ Holding(fraud, {"save", "count"}) \in Nat
    BY SumsTyped, CountsTyped DEF Numbers
  <2>3. Aside + Underway = Aside + Len(rawQ) + Holding(fraud, {"save", "count"})
    BY <2>2 DEF Underway
  <2>4. metrics["legitimate"] \in Nat /\ metrics["fraudulent"] \in Nat
    BY CountsTyped DEF Numbers
  <2>5. Aside + Underway \in Nat
    BY SumsTyped
  <2>6. Entered = (Aside + Underway) + metrics["legitimate"] + metrics["fraudulent"]
    BY <2>1, <2>4, <2>5 DEF Judged
  <2>. QED
    BY <2>3, <2>6 DEF Aside
<1>. QED
  BY TypeInit, TypeStep, ReceivedInit, ReceivedStep, <1>1, PTL DEF Spec

-------------------------------------------------------------------------------
(* CRM attempts. *)

\* The legitimate events the tracker has counted: all but the one in the fraud worker's
\* hands before CountVerdict.
Uncounted == IF fraud.at \in {"save", "count"} THEN {fraud.r} ELSE {}
LegitCounted == {r \in Requests : verdict[r] = "legit"} \ Uncounted

\* The events an attempt was counted for.
InAttempt == IF mkt.at \in {"sync", "count", "save"} THEN {mkt.r} ELSE {}
Attempted == {r \in handled \cup InAttempt : IsMarketed(r)}

Results == metrics["crm_successes"] + metrics["crm_failures"]

CRMInv ==
  /\ IsFiniteSet(LegitCounted)
  /\ \A r \in InHand(mkt) : IsMarketed(r)
  /\ store = "memory" =>
       /\ metrics["crm_attempts"] = Results + Holding(mkt, {"sync", "count"})
       /\ metrics["crm_attempts"] = Cardinality(Attempted)
       /\ metrics["legitimate"] = Cardinality(LegitCounted)

\* An attempt is made for an event that was counted as legitimate before.
LEMMA AttemptedWereCounted ==
  ASSUME TypeInv, FlowInv
  PROVE  Attempted \subseteq LegitCounted
<1>. SUFFICES ASSUME NEW r \in Attempted PROVE r \in LegitCounted
  OBVIOUS
<1>1. InAttempt \subseteq InHand(mkt) /\ Uncounted \subseteq InHand(fraud)
  BY HandsTyped, NoneIsNoRequest DEF InAttempt, Uncounted, InHand
<1>2. handled \cup InHand(mkt) \subseteq Requests
  BY PlacesTyped DEF TypeInv, TypeOK
<1>3. r \in handled \cup InHand(mkt) /\ verdict[r] # "fraud"
  BY <1>1 DEF Attempted, IsMarketed
<1>4. verdict[r] = "legit"
  BY <1>2, <1>3 DEF FlowInv, HaveVerdict, TypeInv, TypeOK
<1>5. r \notin Uncounted
  BY <1>1, <1>3 DEF FlowInv, OnePlace
<1>. QED
  BY <1>2, <1>3, <1>4, <1>5 DEF LegitCounted

LEMMA CRMInit == Init => CRMInv
<1>. SUFFICES ASSUME Init PROVE CRMInv
  OBVIOUS
<1>1. LegitCounted = {} /\ Attempted = {} /\ InHand(mkt) = {}
  BY DEF Init, LegitCounted, Attempted, InAttempt, InHand
<1>2. IsFiniteSet({}) /\ Cardinality({}) = 0
  BY FS_EmptySet
<1>3. /\ metrics["crm_attempts"] = 0 /\ metrics["crm_successes"] = 0
      /\ metrics["crm_failures"] = 0 /\ metrics["legitimate"] = 0
      /\ Holding(mkt, {"sync", "count"}) = 0
  BY DEF Init, Counters, Holding
<1>. QED
  BY <1>1, <1>2, <1>3 DEF CRMInv, Results

\* Steps that count nothing of this.
LEMMA CRMKept ==
  ASSUME CRMInv, UNCHANGED <<store, LegitCounted, Attempted>>,
         \A r \in InHand(mkt)' : IsMarketed(r)',
         Holding(mkt, {"sync", "count"})' = Holding(mkt, {"sync", "count"}),
         store = "memory" =>
           \A k \in {"crm_attempts", "crm_successes", "crm_failures", "legitimate"} :
             metrics'[k] = metrics[k]
  PROVE  CRMInv'
<1>1. store = "memory" =>
        /\ metrics'["crm_attempts"] = metrics["crm_attempts"]
        /\ metrics'["legitimate"] = metrics["legitimate"]
        /\ Results' = Results
  BY DEF Results
<1>. QED
  BY <1>1 DEF CRMInv

LEMMA FraudCRM ==
  ASSUME TypeInv, FlowInv, CRMInv, FraudStep
  PROVE  CRMInv'
<1>1. /\ UNCHANGED <<store, post, mkt, handled>>
      /\ InHand(mkt)' = InHand(mkt) /\ InAttempt' = InAttempt
      /\ Holding(mkt, {"sync", "count"})' = Holding(mkt, {"sync", "count"})
  BY DEF FraudStep, Screen, SaveEvent, CountVerdict, PublishScreened, ingestVars, mktVars,
     InHand, InAttempt, Holding
<1>2. ASSUME UNCHANGED verdict
      PROVE  UNCHANGED Attempted /\ \A r \in InHand(mkt)' : IsMarketed(r)'
  BY <1>1, <1>2 DEF Attempted, IsMarketed, CRMInv
<1>3. CASE Screen
  <2>. DEFINE h == Head(rawQ)
  <2>1. /\ h \in Requests /\ fraud'.r = h /\ fraud.at = "idle" /\ fraud'.at = "save"
        /\ UNCHANGED metrics
        /\ \A r \in Requests : r # h => verdict'[r] = verdict[r]
    BY <1>3, RangeOfTail DEF Screen, TypeInv, TypeOK
  <2>2. verdict[h] = "none"
    <3>1. h \in Range(rawQ)
      BY <1>3, RangeOfTail DEF Screen, TypeInv, TypeOK
    <3>. QED
      BY <3>1 DEF FlowInv, QueuedOnce
  <2>. HIDE DEF h
  <2>3. LegitCounted' = LegitCounted
    BY <2>1, <2>2 DEF LegitCounted, Uncounted
  <2>4. h \notin handled \cup InHand(mkt)
    BY <2>2 DEF FlowInv, HaveVerdict
  <2>5. InAttempt \subseteq InHand(mkt) /\ handled \cup InHand(mkt) \subseteq Requests
    BY PlacesTyped, HandsTyped, NoneIsNoRequest DEF InAttempt, InHand, TypeInv, TypeOK
  <2>6. \A r \in handled \cup InHand(mkt) : IsMarketed(r)' <=> IsMarketed(r)
    BY <1>1, <2>1, <2>4, <2>5 DEF IsMarketed
  <2>7. \A r \in handled \cup InAttempt : IsMarketed(r)' <=> IsMarketed(r)
    BY <2>5, <2>6
  <2>8. Attempted' = Attempted
    BY <1>1, <2>7 DEF Attempted
  <2>9. \A r \in InHand(mkt)' : IsMarketed(r)'
    BY <1>1, <2>6 DEF CRMInv
  <2>. QED
    BY <1>1, <2>1, <2>3, <2>8, <2>9, CRMKept
<1>4. CASE SaveEvent
  <2>1. UNCHANGED <<verdict, metrics, fraud.r>> /\ fraud.at = "save" /\ fraud'.at = "count"
    BY <1>4 DEF SaveEvent, TypeInv, TypeOK
  <2>2. LegitCounted' = LegitCounted
    BY <2>1 DEF LegitCounted, Uncounted
  <2>. QED
    BY <1>1, <1>2, <2>1, <2>2, CRMKept
<1>5. CASE CountVerdict
  <2>1. /\ UNCHANGED verdict /\ fraud.r \in Requests
        /\ fraud.at = "count" /\ fraud'.at = "publish"
    BY <1>5, HandsTyped DEF CountVerdict, TypeInv, TypeOK
  <2>2. CASE verdict[fraud.r] = "fraud"
    <3>1. LegitCounted' = LegitCounted
      BY <2>1, <2>2 DEF LegitCounted, Uncounted
    <3>2. Increment("fraudulent")
      BY <1>5, <2>2 DEF CountVerdict
    <3>. QED
      BY <1>1, <1>2, <2>1, <3>1, <3>2, CRMKept, ExactIncrement DEF Counters
  <2>3. CASE verdict[fraud.r] # "fraud"
    <3>1. verdict[fraud.r] = "legit"
      <4>1. fraud.r \in InHand(fraud)
        BY <2>1, NoneIsNoRequest DEF InHand
      <4>. QED
        BY <2>1, <2>3, <4>1 DEF FlowInv, HaveVerdict, TypeInv, TypeOK
    <3>2. LegitCounted' = LegitCounted \cup {fraud.r} /\ fraud.r \notin LegitCounted
      BY <2>1, <3>1 DEF LegitCounted, Uncounted
    <3>3. /\ IsFiniteSet(LegitCounted')
          /\ Cardinality(LegitCounted') = Cardinality(LegitCounted) + 1
      BY <3>2, Counting DEF CRMInv
    <3>4. Increment("legitimate")
      BY <1>5, <2>3 DEF CountVerdict
    <3>5. store = "memory" =>
            /\ metrics'["legitimate"] = metrics["legitimate"] + 1
            /\ metrics'["crm_attempts"] = metrics["crm_attempts"]
            /\ metrics'["crm_successes"] = metrics["crm_successes"]
            /\ metrics'["crm_failures"] = metrics["crm_failures"]
      BY <3>4, ExactIncrement DEF Counters
    <3>6. store = "memory" => Results' = Results
      BY <3>5 DEF Results
    <3>. QED
      BY <1>1, <1>2, <2>1, <3>3, <3>5, <3>6 DEF CRMInv
  <2>. QED
    BY <2>2, <2>3
<1>6. CASE PublishScreened
  <2>1. UNCHANGED <<verdict, metrics>> /\ fraud.at = "publish" /\ fraud'.at = "idle"
    BY <1>6 DEF PublishScreened
  <2>2. LegitCounted' = LegitCounted
    BY <2>1 DEF LegitCounted, Uncounted
  <2>. QED
    BY <1>1, <1>2, <2>1, <2>2, CRMKept
<1>. QED
  BY <1>3, <1>4, <1>5, <1>6 DEF FraudStep

LEMMA MarketingCRM ==
  ASSUME TypeInv, FlowInv, CRMInv, MarketingStep
  PROVE  CRMInv'
<1>1. UNCHANGED <<store, post, fraud, verdict>>
  BY DEF MarketingStep, Skip, Pick, CountAttempt, Sync, CountResult, SaveContact, ingestVars,
     fraudVars
<1>2. LegitCounted' = LegitCounted /\ \A r : IsMarketed(r)' <=> IsMarketed(r)
  BY <1>1 DEF LegitCounted, Uncounted, IsMarketed
<1>3. CASE Skip
  <2>1. UNCHANGED <<mkt, metrics>> /\ mkt.at = "idle"
        /\ \E h : handled' = handled \cup {h} /\ ~IsMarketed(h)
    BY <1>3 DEF Skip
  <2>2. Attempted' = Attempted
    BY <1>1, <2>1 DEF Attempted, InAttempt, IsMarketed
  <2>3. InHand(mkt)' = {} /\ Holding(mkt, {"sync", "count"})' = Holding(mkt, {"sync", "count"})
    BY <2>1 DEF InHand, Holding, TypeInv, HandsFull
  <2>. QED
    BY <1>1, <1>2, <2>1, <2>2, <2>3, CRMKept
<1>4. CASE Pick
  <2>1. /\ UNCHANGED <<handled, metrics>> /\ mkt.at = "idle"
        /\ mkt' = [at |-> "attempt", r |-> Head(screenedQ), ok |-> FALSE]
        /\ IsMarketed(Head(screenedQ))
    BY <1>4 DEF Pick
  <2>2. Attempted' = Attempted
    BY <1>1, <2>1 DEF Attempted, InAttempt, IsMarketed
  <2>3. InHand(mkt)' \subseteq {Head(screenedQ)}
        /\ Holding(mkt, {"sync", "count"})' = Holding(mkt, {"sync", "count"})
    BY <2>1 DEF InHand, Holding
  <2>4. \A r \in InHand(mkt)' : IsMarketed(r)'
    <3>1. \A r \in InHand(mkt)' : r = Head(screenedQ)
      BY <2>3
    <3>2. IsMarketed(Head(screenedQ))
      BY <2>1
    <3>. QED
      BY <1>2, <3>1, <3>2
  <2>. QED
    BY <1>1, <1>2, <2>1, <2>2, <2>3, <2>4, CRMKept
<1>5. ASSUME mkt.at # "idle", mkt'.at # "idle", mkt'.r = mkt.r
      PROVE  InHand(mkt)' = InHand(mkt) /\ \A r \in InHand(mkt)' : IsMarketed(r)'
  BY <1>2, <1>5 DEF InHand, CRMInv
<1>6. CASE CountAttempt
  <2>1. /\ UNCHANGED handled /\ mkt.at = "attempt" /\ mkt'.at = "sync" /\ mkt'.r = mkt.r
        /\ mkt.r \in Requests
    BY <1>6, HandsTyped DEF CountAttempt, TypeInv, TypeOK
  <2>2. mkt.r \in InHand(mkt)
    BY <2>1, NoneIsNoRequest DEF InHand
  <2>3. mkt.r \notin handled /\ IsMarketed(mkt.r)
    BY <2>2 DEF FlowInv, OnePlace, CRMInv
  <2>4. Attempted' = Attempted \cup {mkt.r} /\ mkt.r \notin Attempted
    BY <1>1, <2>1, <2>3 DEF Attempted, InAttempt, IsMarketed
  <2>5. Cardinality(Attempted') = Cardinality(Attempted) + 1
    <3>1. IsFiniteSet(Attempted)
      BY AttemptedWereCounted, FS_Subset DEF CRMInv
    <3>. QED
      BY <2>4, <3>1, Counting
  <2>6. Holding(mkt, {"sync", "count"}) = 0 /\ Holding(mkt, {"sync", "count"})' = 1
    BY <2>1 DEF Holding
  <2>7. store = "memory" =>
          /\ metrics'["crm_attempts"] = metrics["crm_attempts"] + 1
          /\ metrics'["legitimate"] = metrics["legitimate"]
          /\ metrics'["crm_successes"] = metrics["crm_successes"]
          /\ metrics'["crm_failures"] = metrics["crm_failures"]
    BY <1>6, ExactIncrement DEF CountAttempt, Counters
  <2>8. Results \in Nat /\ (store = "memory" => Results' = Results)
    BY <2>7, CountsTyped DEF Results, Numbers
  <2>9. \A r \in InHand(mkt)' : IsMarketed(r)'
    BY <1>5, <2>1
  <2>. QED
    BY <1>1, <1>2, <2>5, <2>6, <2>7, <2>8, <2>9 DEF CRMInv
<1>7. CASE Sync
  <2>1. /\ UNCHANGED <<handled, metrics>> /\ mkt.at = "sync" /\ mkt'.at = "count"
        /\ mkt'.r = mkt.r
    BY <1>7 DEF Sync, TypeInv, TypeOK
  <2>2. Attempted' = Attempted
    BY <1>1, <2>1 DEF Attempted, InAttempt, IsMarketed
  <2>3. Holding(mkt, {"sync", "count"})' = Holding(mkt, {"sync", "count"})
    BY <2>1 DEF Holding
  <2>. QED
    BY <1>1, <1>2, <1>5, <2>1, <2>2, <2>3, CRMKept
<1>8. CASE CountResult
  <2>1. UNCHANGED handled /\ mkt.at = "count" /\ mkt'.at = "save" /\ mkt'.r = mkt.r
    BY <1>8 DEF CountResult, TypeInv, TypeOK
  <2>2. Attempted' = Attempted
    BY <1>1, <2>1 DEF Attempted, InAttempt, IsMarketed
  <2>3. Holding(mkt, {"sync", "count"}) = 1 /\ Holding(mkt, {"sync", "count"})' = 0
    BY <2>1 DEF Holding
  <2>4. Numbers
    BY CountsTyped
  <2>5. ASSUME store = "memory"
        PROVE  /\ metrics'["crm_attempts"] = metrics["crm_attempts"]
               /\ metrics'["legitimate"] = metrics["legitimate"]
               /\ Results' = Results + 1
    <3>1. CASE Increment("crm_successes")
      <4>1. /\ metrics'["crm_attempts"] = metrics["crm_attempts"]
            /\ metrics'["legitimate"] = metrics["legitimate"]
            /\ metrics'["crm_successes"] = metrics["crm_successes"] + 1
            /\ metrics'["crm_failures"] = metrics["crm_failures"]
        BY <2>5, <3>1, ExactIncrement DEF Counters
      <4>. QED
        BY <2>4, <4>1 DEF Results, Numbers
    <3>2. CASE Increment("crm_failures")
      <4>1. /\ metrics'["crm_attempts"] = metrics["crm_attempts"]
            /\ metrics'["legitimate"] = metrics["legitimate"]
            /\ metrics'["crm_successes"] = metrics["crm_successes"]
            /\ metrics'["crm_failures"] = metrics["crm_failures"] + 1
        BY <2>5, <3>2, ExactIncrement DEF Counters
      <4>. QED
        BY <2>4, <4>1 DEF Results, Numbers
    <3>. QED
      BY <1>8, <3>1, <3>2 DEF CountResult
  <2>6. Results \in Nat
    BY <2>4 DEF Results, Numbers
  <2>7. \A r \in InHand(mkt)' : IsMarketed(r)'
    BY <1>5, <2>1
  <2>. QED
    BY <1>1, <1>2, <2>2, <2>3, <2>5, <2>6, <2>7 DEF CRMInv
<1>9. CASE SaveContact
  <2>1. /\ UNCHANGED metrics /\ mkt.at = "save" /\ handled' = handled \cup {mkt.r}
        /\ mkt' = [at |-> "idle", r |-> None, ok |-> FALSE]
    BY <1>9 DEF SaveContact
  <2>2. Attempted' = Attempted
    BY <1>1, <2>1 DEF Attempted, InAttempt, IsMarketed
  <2>3. InHand(mkt)' = {} /\ Holding(mkt, {"sync", "count"})' = Holding(mkt, {"sync", "count"})
    BY <2>1 DEF InHand, Holding
  <2>. QED
    BY <1>1, <1>2, <2>1, <2>2, <2>3, CRMKept
<1>. QED
  BY <1>3, <1>4, <1>6, <1>7, <1>8, <1>9 DEF MarketingStep

LEMMA CRMStep == TypeInv /\ FlowInv /\ CRMInv /\ [Next]_vars => CRMInv'
<1>. SUFFICES ASSUME TypeInv, FlowInv, CRMInv, [Next]_vars PROVE CRMInv'
  OBVIOUS
<1>1. CASE /\ UNCHANGED <<store, post, fraud, verdict, mkt, handled>>
           /\ UNCHANGED metrics \/ Increment("total_received")
  <2>1. LegitCounted' = LegitCounted /\ Attempted' = Attempted
    BY <1>1 DEF LegitCounted, Uncounted, Attempted, InAttempt, IsMarketed
  <2>2. /\ \A r \in InHand(mkt)' : IsMarketed(r)'
        /\ Holding(mkt, {"sync", "count"})' = Holding(mkt, {"sync", "count"})
    BY <1>1 DEF InHand, IsMarketed, Holding, CRMInv
  <2>3. store = "memory" =>
          \A k \in {"crm_attempts", "crm_successes", "crm_failures", "legitimate"} :
            metrics'[k] = metrics[k]
    BY <1>1, ExactIncrement DEF Counters
  <2>. QED
    BY <1>1, <2>1, <2>2, <2>3, CRMKept
<1>2. CASE \/ \E r \in Requests : IngestStep(r)
           \/ \E t \in Topics : Listen(t)
           \/ \E g \in Purges : BeginPurge(g) \/ PurgeStep(g)
           \/ UNCHANGED vars
  <2>1. /\ UNCHANGED <<store, post, fraud, verdict, mkt, handled>>
        /\ UNCHANGED metrics \/ Increment("total_received")
    BY <1>2 DEF IngestStep, Reject, PublishRaw, PublishFails, Accept, Listen, BeginPurge, PurgeStep,
       MemoryDeleteEvents, MemoryCascade, PostgresDelete, PostgresDeleteFails, PurgeContact,
       PurgeLog, vars, ingestVars, fraudVars, mktVars
  <2>. QED
    BY <1>1, <2>1
<1>. QED
  BY <1>2, FraudCRM, MarketingCRM DEF Next

\* No CRM attempt is lost from the counters, and none is made for an event the tracker has
\* not counted as legitimate: CountVerdict precedes the publication the marketing worker
\* answers with an attempt (memory tracker).
THEOREM AttemptsAreConserved == Spec => []CRMConserved
<1>1. TypeInv /\ FlowInv /\ CRMInv => CRMConserved
  <2>. SUFFICES ASSUME TypeInv, FlowInv, CRMInv, store = "memory"
                PROVE  /\ metrics["crm_attempts"] = Results + Holding(mkt, {"sync", "count"})
                       /\ metrics["crm_attempts"] <= metrics["legitimate"]
    BY DEF CRMConserved, Results
  <2>1. Cardinality(Attempted) <= Cardinality(LegitCounted)
    BY AttemptedWereCounted, FS_Subset DEF CRMInv
  <2>. QED
    BY <2>1 DEF CRMInv
<1>. QED
  BY TypeInit, TypeStep, FlowInit, FlowStep, CRMInit, CRMStep, <1>1, PTL DEF Spec

===============================================================================
