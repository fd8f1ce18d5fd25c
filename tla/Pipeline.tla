------------------------------- MODULE Pipeline -------------------------------
(***************************************************************************)
(* The event pipeline of cmd/monolith: HTTP requests enter through          *)
(* IngestServer.HandleIngest, the fraud worker screens them, the marketing  *)
(* worker syncs the legitimate ones with the CRM, and GDPR purges delete a   *)
(* user's records while all of that goes on.  Every access to state shared   *)
(* by two goroutines (a channel, a repository, a counter) is one step.      *)
(*                                                                          *)
(* The broker is the one of MemoryBroker with at most one subscriber per     *)
(* topic: a bounded channel that drops what does not fit, and everything     *)
(* before the subscription.  The score of the rules (FraudRules) and the     *)
(* outcome of a CRM call (ResilientClient) are free choices here.           *)
(***************************************************************************)
EXTENDS Integers, Sequences, FiniteSets, Functions

CONSTANTS
  Requests,    \* POST /v1/events requests; each carries one event
  Purges,      \* POST /v1/privacy/gdpr-delete requests
  Users,
  Kinds,       \* event types
  Tracking,    \* the kinds CheckGDPRConsent asks consent for
  Workflows,   \* the kinds that start a marketing workflow
  Ids,         \* values of event_id; a client may send one twice
  Inputs,      \* the events that may be posted
  QueueSize,   \* capacity of a subscriber's channel
  Stores,      \* the databases a boot may choose: "memory", "postgres"
  None         \* no request

Posted == [id : Ids, user : Users, kind : Kinds, consent : BOOLEAN]

ASSUME PipelineAssumption ==
  /\ Tracking \subseteq Kinds
  /\ Workflows \subseteq Kinds
  /\ Inputs \subseteq Posted
  /\ QueueSize \in Nat \ {0}
  /\ Stores \subseteq {"memory", "postgres"}
  /\ None \notin Requests

VARIABLES
  store,      \* the database initDatabase chose
  post,       \* request -> the event it carries
  req,        \* request -> "new", "published", "accepted", "rejected" or "failed"
  listening,  \* the topics a worker has subscribed to
  rawQ,       \* channel of the fraud worker
  lost,       \* topic -> requests whose event no channel took
  fraud,      \* fraud worker: where it is and the event in its hands
  verdict,    \* request -> "none", "fraud" or "legit"
  screenedQ,  \* channel of the marketing worker
  mkt,        \* marketing worker: where it is, its event and the outcome of the sync
  handled,    \* requests the marketing worker is done with
  events,     \* fraud repository: requests whose event is stored
  contact,    \* marketing repository: user -> request of the stored contact, or None
  metrics,    \* the counters of the telemetry tracker
  purge,      \* purge -> where its handler is and for whom
  audit,      \* purges with an entry in the privacy log
  gone,       \* purge -> the user's records when it began
  before,     \* purge -> the user's requests answered 202 when it began
  erased      \* requests whose stored event a purge deleted

ingestVars == <<store, post, req>>
fraudVars == <<fraud, verdict>>
mktVars == <<mkt, handled>>
queueVars == <<listening, rawQ, lost, screenedQ>>
purgeVars == <<purge, audit, gone, before>>
vars == <<ingestVars, fraudVars, mktVars, queueVars, purgeVars,
          events, contact, metrics, erased>>

Topics == {"raw", "screened"}
Counters == {"total_received", "legitimate", "fraudulent",
             "crm_attempts", "crm_successes", "crm_failures"}
RecordsOf(u) ==
  {<<"event", r>> : r \in {q \in events : post[q].user = u}}
    \cup {<<"contact", r>> : r \in {contact[u]} \ {None}}

TypeOK ==
  /\ store \in Stores
  /\ post \in [Requests -> Inputs]
  /\ req \in [Requests -> {"new", "published", "accepted", "rejected", "failed"}]
  /\ listening \subseteq Topics
  /\ rawQ \in Seq(Requests) /\ Len(rawQ) <= QueueSize
  /\ lost \in [Topics -> SUBSET Requests]
  /\ fraud \in [at : {"idle", "save", "count", "publish"}, r : Requests \cup {None}]
  /\ verdict \in [Requests -> {"none", "fraud", "legit"}]
  /\ screenedQ \in Seq(Requests) /\ Len(screenedQ) <= QueueSize
  /\ mkt \in [at : {"idle", "attempt", "sync", "count", "save"},
              r : Requests \cup {None}, ok : BOOLEAN]
  /\ handled \subseteq Requests
  /\ events \subseteq Requests
  /\ contact \in [Users -> Requests \cup {None}]
  /\ metrics \in [Counters -> Nat]
  /\ purge \in [Purges -> [at : {"new", "events", "cascade", "contact", "log", "ok", "error"},
                           user : Users]]
  /\ audit \subseteq Purges
  /\ gone \in [Purges -> SUBSET ({"event", "contact"} \X Requests)]
  /\ before \in [Purges -> SUBSET Requests]
  /\ erased \subseteq Requests

Init ==
  /\ store \in Stores
  /\ post \in [Requests -> Inputs]
  /\ req = [r \in Requests |-> "new"]
  /\ listening = {}
  /\ rawQ = <<>>
  /\ lost = [t \in Topics |-> {}]
  /\ fraud = [at |-> "idle", r |-> None]
  /\ verdict = [r \in Requests |-> "none"]
  /\ screenedQ = <<>>
  /\ mkt = [at |-> "idle", r |-> None, ok |-> FALSE]
  /\ handled = {}
  /\ events = {}
  /\ contact = [u \in Users |-> None]
  /\ metrics = [m \in Counters |-> 0]
  /\ purge \in [Purges -> [at : {"new"}, user : Users]]
  /\ audit = {}
  /\ gone = [g \in Purges |-> {}]
  /\ before = [g \in Purges |-> {}]
  /\ erased = {}

-------------------------------------------------------------------------------
(* Services the handlers call. *)

\* A statement fails in PostgreSQL only: the memory repositories return nil.
MayFail == store = "postgres"

\* IncrementMetric: a failed UPDATE is logged and the count is lost.
Increment(m) ==
  \/ metrics' = [metrics EXCEPT ![m] = @ + 1]
  \/ MayFail /\ UNCHANGED metrics

\* A channel takes the event, or the publisher's default case drops it.
\* Variant: off by one at the capacity.
Fits_OneMore(t, q) == t \in listening /\ Len(q) <= QueueSize
Fits(t, q) == t \in listening /\ Len(q) < QueueSize
Lose(t, r) == lost' = [lost EXCEPT ![t] = @ \cup {r}]

-------------------------------------------------------------------------------
(* HandleIngest. *)

\* CheckGDPRConsent.
Consented(r) == post[r].kind \in Tracking => post[r].consent

\* 400: counted as received, never published.  Variant: not counted.
Reject_Uncounted(r) ==
  /\ req[r] = "new"
  /\ ~Consented(r)
  /\ req' = [req EXCEPT ![r] = "rejected"]
  /\ UNCHANGED <<store, post, fraudVars, mktVars, queueVars, purgeVars, events, contact, metrics, erased>>

Reject(r) ==
  /\ req[r] = "new"
  /\ ~Consented(r)
  /\ Increment("total_received")
  /\ req' = [req EXCEPT ![r] = "rejected"]
  /\ UNCHANGED <<store, post, fraudVars, mktVars, queueVars, purgeVars, events, contact, erased>>

\* PublishRaw returns nil.
PublishRaw(r) ==
  /\ req[r] = "new"
  /\ Consented(r)
  /\ req' = [req EXCEPT ![r] = "published"]
  /\ IF Fits("raw", rawQ)
       THEN rawQ' = Append(rawQ, r) /\ UNCHANGED lost
       ELSE Lose("raw", r) /\ UNCHANGED rawQ
  /\ UNCHANGED <<store, post, fraudVars, mktVars, purgeVars, listening, screenedQ,
                 events, contact, metrics, erased>>

\* Variant of the next: the context is looked at after the send.
PublishFails_TooLate(r) ==
  /\ req[r] = "new"
  /\ Consented(r)
  /\ Fits("raw", rawQ)
  /\ rawQ' = Append(rawQ, r)
  /\ req' = [req EXCEPT ![r] = "failed"]
  /\ UNCHANGED <<store, post, fraudVars, mktVars, purgeVars, listening, screenedQ, lost,
                 events, contact, metrics, erased>>

\* 500: the client's context ended before the only channel took the event.
PublishFails(r) ==
  /\ req[r] = "new"
  /\ Consented(r)
  /\ "raw" \in listening
  /\ req' = [req EXCEPT ![r] = "failed"]
  /\ UNCHANGED <<store, post, fraudVars, mktVars, queueVars, purgeVars, events, contact, metrics, erased>>

\* 202, after the count: the fraud worker may be done with the event by then.
Accept(r) ==
  /\ req[r] = "published"
  /\ Increment("total_received")
  /\ req' = [req EXCEPT ![r] = "accepted"]
  /\ UNCHANGED <<store, post, fraudVars, mktVars, queueVars, purgeVars, events, contact, erased>>

-------------------------------------------------------------------------------
(* The fraud worker: FraudService.Start and ScreenEvent. *)

\* A worker goroutine subscribes some time after the ingest server is up.
Listen(t) ==
  /\ t \notin listening
  /\ listening' = listening \cup {t}
  /\ UNCHANGED <<ingestVars, fraudVars, mktVars, purgeVars, rawQ, lost, screenedQ,
                 events, contact, metrics, erased>>

Screen ==
  /\ fraud.at = "idle"
  /\ rawQ # <<>>
  /\ rawQ' = Tail(rawQ)
  /\ fraud' = [at |-> "save", r |-> Head(rawQ)]
  /\ \E v \in {"fraud", "legit"} : verdict' = [verdict EXCEPT ![Head(rawQ)] = v]
  /\ UNCHANGED <<ingestVars, mktVars, purgeVars, listening, lost, screenedQ,
                 events, contact, metrics, erased>>

\* ON CONFLICT (event_id) DO NOTHING; the memory repository appends.
IsDuplicate(r) == store = "postgres" /\ \E q \in events : post[q].id = post[r].id

\* SaveEvent; its error is logged and the event goes on.
\* Variants: an error ends the event; nothing is saved.
SaveEvent_StopsOnError ==
  /\ fraud.at = "save"
  /\ \/ /\ events' = IF IsDuplicate(fraud.r) THEN events ELSE events \cup {fraud.r}
        /\ fraud' = [fraud EXCEPT !.at = "count"]
     \/ /\ MayFail
        /\ fraud' = [at |-> "idle", r |-> None]
        /\ UNCHANGED events
  /\ UNCHANGED <<ingestVars, verdict, mktVars, queueVars, purgeVars, contact, metrics, erased>>
SaveEvent_Skipped ==
  /\ fraud.at = "save"
  /\ fraud' = [fraud EXCEPT !.at = "count"]
  /\ UNCHANGED <<ingestVars, verdict, mktVars, queueVars, purgeVars, events, contact, metrics, erased>>

SaveEvent ==
  /\ fraud.at = "save"
  /\ \/ events' = IF IsDuplicate(fraud.r) THEN events ELSE events \cup {fraud.r}
     \/ MayFail /\ UNCHANGED events
  /\ fraud' = [fraud EXCEPT !.at = "count"]
  /\ UNCHANGED <<ingestVars, verdict, mktVars, queueVars, purgeVars, contact, metrics, erased>>

CountVerdict ==
  /\ fraud.at = "count"
  /\ Increment(IF verdict[fraud.r] = "fraud" THEN "fraudulent" ELSE "legitimate")
  /\ fraud' = [fraud EXCEPT !.at = "publish"]
  /\ UNCHANGED <<ingestVars, verdict, mktVars, queueVars, purgeVars, events, contact, erased>>

PublishScreened ==
  /\ fraud.at = "publish"
  /\ IF Fits("screened", screenedQ)
       THEN screenedQ' = Append(screenedQ, fraud.r) /\ UNCHANGED lost
       ELSE Lose("screened", fraud.r) /\ UNCHANGED screenedQ
  /\ fraud' = [at |-> "idle", r |-> None]
  /\ UNCHANGED <<ingestVars, verdict, mktVars, purgeVars, listening, rawQ,
                 events, contact, metrics, erased>>

-------------------------------------------------------------------------------
(* The marketing worker: StartConsumer and ProcessMarketingWorkflow. *)

\* Variant: fraudulent events are processed too.
IsMarketed_Any(r) == post[r].kind \in Workflows
IsMarketed(r) == verdict[r] # "fraud" /\ post[r].kind \in Workflows

\* The event is fraudulent or starts no workflow.
Skip ==
  /\ mkt.at = "idle"
  /\ screenedQ # <<>>
  /\ ~IsMarketed(Head(screenedQ))
  /\ screenedQ' = Tail(screenedQ)
  /\ handled' = handled \cup {Head(screenedQ)}
  /\ UNCHANGED <<ingestVars, fraudVars, purgeVars, mkt, listening, rawQ, lost,
                 events, contact, metrics, erased>>

Pick ==
  /\ mkt.at = "idle"
  /\ screenedQ # <<>>
  /\ IsMarketed(Head(screenedQ))
  /\ screenedQ' = Tail(screenedQ)
  /\ mkt' = [at |-> "attempt", r |-> Head(screenedQ), ok |-> FALSE]
  /\ UNCHANGED <<ingestVars, fraudVars, purgeVars, handled, listening, rawQ, lost,
                 events, contact, metrics, erased>>

CountAttempt ==
  /\ mkt.at = "attempt"
  /\ Increment("crm_attempts")
  /\ mkt' = [mkt EXCEPT !.at = "sync"]
  /\ UNCHANGED <<ingestVars, fraudVars, queueVars, purgeVars, handled, events, contact, erased>>

\* SyncContact returns: synced, or failed after the client's retries.
Sync ==
  /\ mkt.at = "sync"
  /\ \E ok \in BOOLEAN : mkt' = [mkt EXCEPT !.at = "count", !.ok = ok]
  /\ UNCHANGED <<ingestVars, fraudVars, queueVars, purgeVars, handled,
                 events, contact, metrics, erased>>

\* Variant: a failed sync counts as a success too.
CountResult_Twice ==
  /\ mkt.at = "count"
  /\ metrics' = [metrics EXCEPT !["crm_successes"] = @ + 1,
                                !["crm_failures"] = IF mkt.ok THEN @ ELSE @ + 1]
  /\ mkt' = [mkt EXCEPT !.at = "save"]
  /\ UNCHANGED <<ingestVars, fraudVars, queueVars, purgeVars, handled, events, contact, erased>>

CountResult ==
  /\ mkt.at = "count"
  /\ Increment(IF mkt.ok THEN "crm_successes" ELSE "crm_failures")
  /\ mkt' = [mkt EXCEPT !.at = "save"]
  /\ UNCHANGED <<ingestVars, fraudVars, queueVars, purgeVars, handled, events, contact, erased>>

\* SaveCRMContact replaces the user's contact: ON CONFLICT (user_id) DO UPDATE.
UpsertContact(r) == contact' = [contact EXCEPT ![post[r].user] = r]

\* Its error is logged.
SaveContact ==
  /\ mkt.at = "save"
  /\ \/ UpsertContact(mkt.r)
     \/ MayFail /\ UNCHANGED contact
  /\ mkt' = [at |-> "idle", r |-> None, ok |-> FALSE]
  /\ handled' = handled \cup {mkt.r}
  /\ UNCHANGED <<ingestVars, fraudVars, queueVars, purgeVars, events, metrics, erased>>

-------------------------------------------------------------------------------
(* HandleGDPRDelete. *)

EventsOf(u) == {r \in events : post[r].user = u}
DeleteEvents(u) ==
  /\ events' = events \ EventsOf(u)
  /\ erased' = erased \cup EventsOf(u)
DeleteContact(u) == contact' = [contact EXCEPT ![u] = None]
PurgeGoesTo(g, at) == purge' = [purge EXCEPT ![g].at = at]

BeginPurge(g) ==
  /\ purge[g].at = "new"
  /\ PurgeGoesTo(g, "events")
  /\ gone' = [gone EXCEPT ![g] = RecordsOf(purge[g].user)]
  /\ before' = [before EXCEPT ![g] =
       {r \in Requests : req[r] = "accepted" /\ post[r].user = purge[g].user}]
  /\ UNCHANGED <<ingestVars, fraudVars, mktVars, queueVars, audit,
                 events, contact, metrics, erased>>

\* MemoryFraudRepository.DeleteUserEvents: the lock is released before crmDeleter.
MemoryDeleteEvents(g) ==
  /\ store = "memory"
  /\ purge[g].at = "events"
  /\ DeleteEvents(purge[g].user)
  /\ PurgeGoesTo(g, "cascade")
  /\ UNCHANGED <<ingestVars, fraudVars, mktVars, queueVars, audit, gone, before,
                 contact, metrics>>

MemoryCascade(g) ==
  /\ purge[g].at = "cascade"
  /\ DeleteContact(purge[g].user)
  /\ PurgeGoesTo(g, "contact")
  /\ UNCHANGED <<ingestVars, fraudVars, mktVars, queueVars, audit, gone, before,
                 events, metrics, erased>>

\* Variant: the transaction of PostgreSQL leaves crm_contacts to DeleteCRMContact.
PostgresDelete_EventsOnly(g) ==
  /\ store = "postgres"
  /\ purge[g].at = "events"
  /\ DeleteEvents(purge[g].user)
  /\ PurgeGoesTo(g, "contact")
  /\ UNCHANGED <<ingestVars, fraudVars, mktVars, queueVars, audit, gone, before,
                 contact, metrics>>

\* PostgresFraudRepository.DeleteUserEvents: one transaction, or an error and a 500.
PostgresDelete(g) ==
  /\ store = "postgres"
  /\ purge[g].at = "events"
  /\ DeleteEvents(purge[g].user)
  /\ DeleteContact(purge[g].user)
  /\ PurgeGoesTo(g, "contact")
  /\ UNCHANGED <<ingestVars, fraudVars, mktVars, queueVars, audit, gone, before, metrics>>

PostgresDeleteFails(g) ==
  /\ store = "postgres"
  /\ purge[g].at = "events"
  /\ PurgeGoesTo(g, "error")
  /\ UNCHANGED <<ingestVars, fraudVars, mktVars, queueVars, audit, gone, before,
                 events, contact, metrics, erased>>

\* DeleteCRMContact; its error is logged and the handler goes on.
PurgeContact(g) ==
  /\ purge[g].at = "contact"
  /\ \/ DeleteContact(purge[g].user)
     \/ MayFail /\ UNCHANGED contact
  /\ PurgeGoesTo(g, "log")
  /\ UNCHANGED <<ingestVars, fraudVars, mktVars, queueVars, audit, gone, before,
                 events, metrics, erased>>

\* SavePrivacyLog; its error is logged.  The handler answers 200.
PurgeLog(g) ==
  /\ purge[g].at = "log"
  /\ \/ audit' = audit \cup {g}
     \/ MayFail /\ UNCHANGED audit
  /\ PurgeGoesTo(g, "ok")
  /\ UNCHANGED <<ingestVars, fraudVars, mktVars, queueVars, gone, before,
                 events, contact, metrics, erased>>

-------------------------------------------------------------------------------
IngestStep(r) == Reject(r) \/ PublishRaw(r) \/ PublishFails(r) \/ Accept(r)
FraudStep == Screen \/ SaveEvent \/ CountVerdict \/ PublishScreened
MarketingStep == Skip \/ Pick \/ CountAttempt \/ Sync \/ CountResult \/ SaveContact
PurgeStep(g) ==
  \/ MemoryDeleteEvents(g)
  \/ MemoryCascade(g)
  \/ PostgresDelete(g)
  \/ PostgresDeleteFails(g)
  \/ PurgeContact(g)
  \/ PurgeLog(g)

Next ==
  \/ \E r \in Requests : IngestStep(r)
  \/ \E t \in Topics : Listen(t)
  \/ FraudStep
  \/ MarketingStep
  \/ \E g \in Purges : BeginPurge(g) \/ PurgeStep(g)

Spec == Init /\ [][Next]_vars

-------------------------------------------------------------------------------
(* Properties. *)

InHand(w) == IF w.r = None THEN {} ELSE {w.r}
Holding(w, ats) == IF w.at \in ats THEN 1 ELSE 0

\* Every event that was published is in exactly one place: each one the tracker
\* counted as received is rejected, lost, queued, in the fraud worker's hands or
\* counted with a verdict, whatever the order in which the ingest handler and the
\* fraud worker count it (memory tracker: counts are never lost).
ReceivedConserved ==
  store = "memory" =>
    metrics["total_received"] + Cardinality({r \in Requests : req[r] = "published"})
      = Cardinality({r \in Requests : req[r] = "rejected"})
        + Cardinality(lost["raw"]) + Len(rawQ) + Holding(fraud, {"save", "count"})
        + metrics["legitimate"] + metrics["fraudulent"]

\* Every CRM attempt is a success, a failure or under way, and no more attempts
\* were made than there are legitimate events (memory tracker).
CRMConserved ==
  store = "memory" =>
    /\ metrics["crm_attempts"]
         = metrics["crm_successes"] + metrics["crm_failures"] + Holding(mkt, {"sync", "count"})
    /\ metrics["crm_attempts"] <= metrics["legitimate"]

\* An event whose request was answered 400 or 500 leaves no trace: it is in no
\* channel, no worker's hands and no repository, so the client may send it again.
RefusedLeavesNoTrace ==
  \A r \in Requests : req[r] \in {"rejected", "failed"} =>
    /\ r \notin Range(rawQ) \cup Range(screenedQ) \cup InHand(fraud) \cup InHand(mkt)
    /\ r \notin events \cup Range(contact)

\* A stored CRM contact stems from an event that was stored before it: its event is
\* in the fraud repository or a purge deleted it from there (memory repositories).
ContactsHaveEvents ==
  store = "memory" => Range(contact) \ {None} \subseteq events \cup erased

\* A contact in the CRM or its table never stems from an event with a fraud verdict.
FraudNeverMarketed ==
  \A r \in Range(contact) \cup InHand(mkt) : r # None => verdict[r] = "legit"

\* A purge that answered 200 or wrote its audit entry erased for good every record
\* the user had when it began: no statement that failed, and no worker that was
\* slow, leaves or restores one.
PurgeErasesRecords ==
  \A g \in Purges :
    (purge[g].at = "ok" \/ g \in audit) =>
      gone[g] \cap UNION {RecordsOf(u) : u \in Users} = {}

\* README: "Once a user triggers a GDPR purge, their records are recursively scrubbed
\* from all database tables": no event accepted before the purge began is stored
\* after the purge answered.
PurgeErasesAccepted ==
  \A g \in Purges : purge[g].at = "ok" =>
    before[g] \cap (events \cup Range(contact)) = {}
===============================================================================
