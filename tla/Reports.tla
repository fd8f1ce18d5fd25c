-------------------------------- MODULE Reports --------------------------------
(***************************************************************************)
(* The GET handlers beside the pipeline: HandleCCPAExport, which reads a     *)
(* user's events and then the contact, and HandleMetrics / HandleDashboard,   *)
(* which read the six counters.  They change nothing, but each of them reads *)
(* several times while the workers and the purges go on.                    *)
(***************************************************************************)
EXTENDS Pipeline

CONSTANTS Readers   \* clients of the two APIs, one request after the other

VARIABLES
  reader,   \* reader -> [at, user]: where its handler is ("idle", "events", "contact",
            \* "exported", "failed", "metrics" or "answered") and whose export it is
  shown,    \* reader -> records the export has collected
  seen,     \* reader -> counter -> value, for the counters GetMetrics has read
  kept,     \* reader -> records of the user stored ever since the export began
  purged    \* reader -> records that purges answered before the export had found

readVars == <<reader, shown, seen>>
ghostVars == <<kept, purged>>
reportsVars == <<vars, readVars, ghostVars>>

Idle == [at |-> "idle", user |-> CHOOSE u \in Users : TRUE]

ReportsInit ==
  /\ Init
  /\ reader = [x \in Readers |-> Idle]
  /\ shown = [x \in Readers |-> {}]
  /\ seen = [x \in Readers |-> <<>>]
  /\ kept = [x \in Readers |-> {}]
  /\ purged = [x \in Readers |-> {}]

GoesTo(x, at) == reader' = [reader EXCEPT ![x].at = at]

-------------------------------------------------------------------------------
(* HandleCCPAExport. *)

BeginExport(x) ==
  /\ reader[x].at = "idle"
  /\ \E u \in Users :
       /\ reader' = [reader EXCEPT ![x] = [at |-> "events", user |-> u]]
       /\ kept' = [kept EXCEPT ![x] = RecordsOf(u)]
       /\ purged' = [purged EXCEPT ![x] = UNION {gone[g] : g \in {h \in Purges : purge[h].at = "ok"}}]
  /\ UNCHANGED <<vars, shown, seen>>

\* GetEventsByUserID copies the list, or selects the rows.
EventsRead(x) == {<<"event", r>> : r \in EventsOf(reader[x].user)}

\* Variant: an error of the query exports no events.
ExportEvents_IgnoresError(x) ==
  /\ reader[x].at = "events"
  /\ \/ shown' = [shown EXCEPT ![x] = EventsRead(x)]
     \/ MayFail /\ UNCHANGED shown
  /\ GoesTo(x, "contact")
  /\ UNCHANGED <<vars, seen, ghostVars>>

\* 500 on an error of the query.
ExportEvents(x) ==
  /\ reader[x].at = "events"
  /\ \/ shown' = [shown EXCEPT ![x] = EventsRead(x)] /\ GoesTo(x, "contact")
     \/ MayFail /\ GoesTo(x, "failed") /\ UNCHANGED shown
  /\ UNCHANGED <<vars, seen, ghostVars>>

\* GetCRMContact; no contact is an error like any other.
ContactRead(x) == {<<"contact", r>> : r \in {contact[reader[x].user]} \ {None}}

\* Any error of GetCRMContact reads as "no crm contact synced".
ExportContact(x) ==
  /\ reader[x].at = "contact"
  /\ \/ shown' = [shown EXCEPT ![x] = @ \cup ContactRead(x)]
     \/ MayFail /\ UNCHANGED shown
  /\ GoesTo(x, "exported")
  /\ UNCHANGED <<vars, seen, ghostVars>>

-------------------------------------------------------------------------------
(* GetMetrics, for HandleMetrics and HandleDashboard. *)

BeginMetrics(x) ==
  /\ reader[x].at = "idle"
  /\ GoesTo(x, "metrics")
  /\ UNCHANGED <<vars, shown, seen, ghostVars>>

\* The order in which MemoryTelemetryTracker loads the counters.
\* Variant: the attempts come last.
LoadOrder_AttemptsLast ==
  <<"total_received", "legitimate", "fraudulent", "crm_successes", "crm_failures", "crm_attempts">>
LoadOrder ==
  <<"total_received", "legitimate", "fraudulent", "crm_attempts", "crm_successes", "crm_failures">>

LoadCounter(x) ==
  LET n == Cardinality(DOMAIN seen[x]) + 1
  IN  /\ store = "memory"
      /\ reader[x].at = "metrics"
      /\ seen' = [seen EXCEPT ![x] =
           [m \in DOMAIN @ \cup {LoadOrder[n]} |-> IF m \in DOMAIN @ THEN @[m] ELSE metrics[m]]]
      /\ IF n < Len(LoadOrder) THEN UNCHANGED reader ELSE GoesTo(x, "answered")
      /\ UNCHANGED <<vars, shown, ghostVars>>

\* One SELECT is one moment, and the counts may have been lost anyway: what it reads is
\* not kept.
SelectCounters(x) ==
  /\ store = "postgres"
  /\ reader[x].at = "metrics"
  /\ GoesTo(x, "answered")
  /\ UNCHANGED <<vars, shown, seen, ghostVars>>

\* The client has its answer and may ask again.
Leave(x) ==
  /\ reader[x].at \in {"exported", "failed", "answered"}
  /\ reader' = [reader EXCEPT ![x] = Idle]
  /\ shown' = [shown EXCEPT ![x] = {}]
  /\ seen' = [seen EXCEPT ![x] = <<>>]
  /\ kept' = [kept EXCEPT ![x] = {}]
  /\ purged' = [purged EXCEPT ![x] = {}]
  /\ UNCHANGED vars

-------------------------------------------------------------------------------
ReaderStep(x) == ExportEvents(x) \/ ExportContact(x) \/ LoadCounter(x) \/ SelectCounters(x)

PipelineStep ==
  /\ Next
  /\ UNCHANGED <<readVars, purged>>
  /\ kept' = [x \in Readers |-> kept[x] \cap RecordsOf(reader[x].user)']

ReportsNext ==
  \/ PipelineStep
  \/ \E x \in Readers : BeginExport(x) \/ BeginMetrics(x) \/ ReaderStep(x) \/ Leave(x)

ReportsSpec == ReportsInit /\ [][ReportsNext]_reportsVars

-------------------------------------------------------------------------------
(* Properties. *)

\* README: "Encapsulates and exports full user transaction history on request": an
\* export that was answered shows every record that was stored while it ran, however
\* the workers and purges interleave with its two reads.  The contact is excepted on
\* PostgreSQL, where a failed query reads as "no crm contact synced".
ExportComplete ==
  \A x \in Readers : reader[x].at = "exported" =>
    \A k \in kept[x] : k \in shown[x] \/ (MayFail /\ k[1] = "contact")

\* An export asked for after a purge was answered shows nothing that the purge found,
\* also if a statement of the purge failed or a worker was in the middle of an event.
PurgedNotExported == \A x \in Readers : shown[x] \cap purged[x] = {}

\* The one marketing worker has at most one sync under way, and a dashboard never shows
\* more of them, although its counters are loaded one by one while they move: the
\* attempts are loaded before the results (memory tracker).
BacklogIsReal ==
  \A x \in Readers : reader[x].at = "answered" /\ store = "memory" =>
    seen[x]["crm_attempts"] <= seen[x]["crm_successes"] + seen[x]["crm_failures"] + 1
===============================================================================
