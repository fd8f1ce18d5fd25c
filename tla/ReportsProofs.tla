----------------------------- MODULE ReportsProofs -----------------------------
(***************************************************************************)
(* Proofs about Reports.  A reader changes nothing of the pipeline, whose  *)
(* invariants carry over.  An export is proved about with what was stored  *)
(* while it ran (kept) and with what purges had found before (purged); a   *)
(* dashboard with the counters it has loaded so far.                       *)
(***************************************************************************)
EXTENDS Reports, PipelineCounts

-------------------------------------------------------------------------------
(* Steps. *)

\* The steps of a reader leave the pipeline alone.
ReaderMoves(x) == BeginExport(x) \/ BeginMetrics(x) \/ ReaderStep(x) \/ Leave(x)

LEMMA ReportCases ==
  ASSUME [ReportsNext]_reportsVars
  PROVE  \/ PipelineStep
         \/ \E x \in Readers : ReaderMoves(x)
         \/ UNCHANGED reportsVars
BY DEF ReportsNext, ReaderMoves

LEMMA ReaderLeavesPipeline ==
  ASSUME NEW x \in Readers, ReaderMoves(x)
  PROVE  UNCHANGED vars
BY DEF ReaderMoves, BeginExport, BeginMetrics, ReaderStep, ExportEvents, ExportContact, LoadCounter,
   SelectCounters, Leave

\* A step of the pipeline, or of no one, is one of Pipeline, so its invariants hold.
LEMMA PipelineNext ==
  ASSUME [ReportsNext]_reportsVars
  PROVE  [Next]_vars
<1>1. PipelineStep => Next
  BY DEF PipelineStep
<1>2. UNCHANGED reportsVars => UNCHANGED vars
  BY DEF reportsVars
<1>. QED
  BY <1>1, <1>2, ReportCases, ReaderLeavesPipeline

\* The database is chosen once, what a purge has found stays found, and results only grow.
LEMMA StoreStays ==
  ASSUME Next
  PROVE  UNCHANGED store
BY DEF Next, IngestStep, Reject, PublishRaw, PublishFails, Accept, Listen, FraudStep, Screen,
   SaveEvent, CountVerdict, PublishScreened, MarketingStep, Skip, Pick, CountAttempt, Sync,
   CountResult, SaveContact, BeginPurge, PurgeStep, MemoryDeleteEvents, MemoryCascade,
   PostgresDelete,
   PostgresDeleteFails, PurgeContact, PurgeLog, ingestVars

LEMMA AnsweredStays ==
  ASSUME TypeInv, Next, NEW g \in Purges, purge[g].at = "ok"
  PROVE  purge'[g].at = "ok" /\ gone'[g] = gone[g]
<1>1. CASE UNCHANGED <<purge, gone>>
  BY <1>1
<1>2. ASSUME NEW h \in Purges, BeginPurge(h) \/ PurgeStep(h)
      PROVE  purge'[g].at = "ok" /\ gone'[g] = gone[g]
  <2>1. h # g
    BY <1>2 DEF BeginPurge, PurgeStep, MemoryDeleteEvents, MemoryCascade, PostgresDelete,
       PostgresDeleteFails, PurgeContact, PurgeLog
  <2>. QED
    BY <1>2, <2>1 DEF BeginPurge, PurgeStep, MemoryDeleteEvents, MemoryCascade, PostgresDelete,
       PostgresDeleteFails, PurgeContact, PurgeLog, PurgeGoesTo, TypeInv, TypeOK
<1>3. UNCHANGED <<purge, gone>> \/ \E h \in Purges : BeginPurge(h) \/ PurgeStep(h)
  BY DEF Next, IngestStep, Reject, PublishRaw, PublishFails, Accept, Listen, FraudStep, Screen,
     SaveEvent, CountVerdict, PublishScreened, MarketingStep, Skip, Pick, CountAttempt, Sync,
     CountResult, SaveContact, purgeVars
<1>. QED
  BY <1>1, <1>2, <1>3

PipelineInv == TypeInv /\ FlowInv /\ ErasureInv /\ CRMInv

LEMMA PipelineInvInit == ReportsInit => PipelineInv
BY TypeInit, FlowInit, ErasureInit, CRMInit DEF ReportsInit, PipelineInv

LEMMA PipelineInvStep == PipelineInv /\ [ReportsNext]_reportsVars => PipelineInv'
BY PipelineNext, TypeStep, FlowStep, ErasureStep, CRMStep DEF PipelineInv

-------------------------------------------------------------------------------
(* Types. *)

Records == {"event", "contact"} \X Requests
Exporting == {"events", "contact", "exported", "failed"}
ReaderType ==
  /\ reader \in [Readers -> [at : {"idle", "metrics", "answered"} \cup Exporting,
                             user : Users \cup {Idle.user}]]
  /\ \A x \in Readers : reader[x].at \in Exporting => reader[x].user \in Users
  /\ shown \in [Readers -> SUBSET Records]
  /\ kept \in [Readers -> SUBSET Records]
  /\ purged \in [Readers -> SUBSET Records]
  /\ DOMAIN seen = Readers


LEMMA ReaderTypeInit == ReportsInit => ReaderType
<1>. SUFFICES ASSUME ReportsInit PROVE ReaderType
  OBVIOUS
<1>1. Idle = [at |-> "idle", user |-> Idle.user]
  BY DEF Idle
<1>. HIDE DEF Idle
<1>2. Idle \in [at : {"idle", "metrics", "answered"} \cup Exporting, user : Users \cup {Idle.user}]
  BY <1>1
<1>3. reader = [x \in Readers |-> Idle]
  BY DEF ReportsInit
<1>4. \A x \in Readers : reader[x].at \notin Exporting
  BY <1>1, <1>3 DEF Exporting
<1>5. /\ shown = [x \in Readers |-> {}] /\ kept = [x \in Readers |-> {}]
      /\ purged = [x \in Readers |-> {}] /\ DOMAIN seen = Readers
  BY DEF ReportsInit
<1>. QED
  BY <1>2, <1>3, <1>4, <1>5 DEF ReaderType

\* What a reader finds is records.
LEMMA ReadsTyped ==
  ASSUME TypeInv, ReaderType, NEW x \in Readers, reader[x].at \in Exporting
  PROVE  /\ EventsRead(x) \subseteq RecordsOf(reader[x].user)
         /\ ContactRead(x) \subseteq RecordsOf(reader[x].user)
         /\ RecordsOf(reader[x].user) \subseteq Records
<1>1. reader[x].user \in Users
  BY DEF ReaderType
<1>2. RecordsOf(reader[x].user) \subseteq Records
  BY <1>1, RecordsTyped DEF Records
<1>. QED
  BY <1>2 DEF EventsRead, EventsOf, ContactRead, RecordsOf

\* The step of one reader.
LEMMA ReaderTypes ==
  ASSUME TypeInv, ReaderType, NEW x \in Readers, ReaderMoves(x)
  PROVE  ReaderType'
<1>. DEFINE At == [at : {"idle", "metrics", "answered"} \cup Exporting,
                   user : Users \cup {Idle.user}]
<1>1. /\ reader \in [Readers -> At]
      /\ \A y \in Readers : reader[y].at \in Exporting => reader[y].user \in Users
      /\ shown \in [Readers -> SUBSET Records] /\ kept \in [Readers -> SUBSET Records]
      /\ purged \in [Readers -> SUBSET Records] /\ DOMAIN seen = Readers
  BY DEF ReaderType
<1>2. CASE BeginExport(x)
  <2>1. PICK u \in Users :
          /\ reader' = [reader EXCEPT ![x] = [at |-> "events", user |-> u]]
          /\ kept' = [kept EXCEPT ![x] = RecordsOf(u)]
    BY <1>2 DEF BeginExport
  <2>2. /\ purged' = [purged EXCEPT ![x] =
               UNION {gone[g] : g \in {h \in Purges : purge[h].at = "ok"}}]
        /\ UNCHANGED <<shown, seen>>
    BY <1>2 DEF BeginExport
  <2>3. RecordsOf(u) \subseteq Records
    BY RecordsTyped DEF Records
  <2>4. UNION {gone[g] : g \in {h \in Purges : purge[h].at = "ok"}} \subseteq Records
    BY DEF TypeInv, TypeOK, Records
  <2>5. /\ reader' \in [Readers -> At]
        /\ \A y \in Readers : reader'[y].at \in Exporting => reader'[y].user \in Users
    BY <1>1, <2>1 DEF Exporting
  <2>6. kept' \in [Readers -> SUBSET Records] /\ purged' \in [Readers -> SUBSET Records]
    BY <1>1, <2>1, <2>2, <2>3, <2>4
  <2>. QED
    BY <1>1, <2>2, <2>5, <2>6 DEF ReaderType
<1>3. ASSUME NEW at \in {"idle", "metrics", "answered"} \cup Exporting, GoesTo(x, at),
             at \in Exporting => reader[x].at \in Exporting
      PROVE  /\ reader' \in [Readers -> At]
             /\ \A y \in Readers : reader'[y].at \in Exporting => reader'[y].user \in Users
  BY <1>1, <1>3 DEF GoesTo
<1>4. CASE BeginMetrics(x) \/ SelectCounters(x)
  <2>1. (GoesTo(x, "metrics") \/ GoesTo(x, "answered")) /\ UNCHANGED <<shown, seen, kept, purged>>
    BY <1>4 DEF BeginMetrics, SelectCounters, ghostVars
  <2>. QED
    BY <1>1, <1>3, <2>1 DEF ReaderType, Exporting
<1>5. CASE ExportEvents(x) \/ ExportContact(x)
  <2>1. /\ UNCHANGED <<seen, kept, purged>> /\ reader[x].at \in Exporting
        /\ GoesTo(x, "contact") \/ GoesTo(x, "failed") \/ GoesTo(x, "exported")
        /\ \/ shown' = shown
           \/ shown' = [shown EXCEPT ![x] = EventsRead(x)]
           \/ shown' = [shown EXCEPT ![x] = @ \cup ContactRead(x)]
    BY <1>5 DEF ExportEvents, ExportContact, ghostVars, Exporting
  <2>2. EventsRead(x) \subseteq Records /\ ContactRead(x) \subseteq Records
    BY <2>1, ReadsTyped
  <2>3. shown' \in [Readers -> SUBSET Records]
    BY <1>1, <2>1, <2>2
  <2>. QED
    BY <1>1, <1>3, <2>1, <2>3 DEF ReaderType, Exporting
<1>6. CASE LoadCounter(x)
  <2>1. /\ UNCHANGED <<shown, kept, purged>> /\ DOMAIN seen' = Readers
        /\ UNCHANGED reader \/ GoesTo(x, "answered")
    BY <1>1, <1>6 DEF LoadCounter, ghostVars
  <2>. QED
    BY <1>1, <1>3, <2>1 DEF ReaderType, Exporting
<1>7. CASE Leave(x)
  <2>1. Idle \in At /\ Idle.at = "idle"
    BY DEF Idle
  <2>2. /\ reader' = [reader EXCEPT ![x] = Idle] /\ shown' = [shown EXCEPT ![x] = {}]
        /\ kept' = [kept EXCEPT ![x] = {}] /\ purged' = [purged EXCEPT ![x] = {}]
        /\ DOMAIN seen' = Readers
    BY <1>1, <1>7 DEF Leave
  <2>3. /\ reader' \in [Readers -> At]
        /\ \A y \in Readers : reader'[y].at \in Exporting => reader'[y].user \in Users
    BY <1>1, <2>1, <2>2 DEF Exporting
  <2>. QED
    BY <1>1, <2>2, <2>3 DEF ReaderType
<1>. QED
  BY <1>2, <1>4, <1>5, <1>6, <1>7 DEF ReaderMoves, ReaderStep

LEMMA ReaderTypeStep == PipelineInv /\ ReaderType /\ [ReportsNext]_reportsVars => ReaderType'
<1>. SUFFICES ASSUME TypeInv, ReaderType, [ReportsNext]_reportsVars PROVE ReaderType'
  BY DEF PipelineInv
<1>1. CASE PipelineStep
  <2>1. /\ UNCHANGED <<reader, shown, seen, purged>>
        /\ kept' = [x \in Readers |-> kept[x] \cap RecordsOf(reader[x].user)']
    BY <1>1 DEF PipelineStep, readVars
  <2>2. kept' \in [Readers -> SUBSET Records]
    BY <2>1 DEF ReaderType
  <2>. QED
    BY <2>1, <2>2 DEF ReaderType
<1>2. CASE UNCHANGED reportsVars
  BY <1>2 DEF reportsVars, readVars, ghostVars, ReaderType
<1>. QED
  BY <1>1, <1>2, ReportCases, ReaderTypes

-------------------------------------------------------------------------------
(* Exports. *)

\* What was stored all along is stored now, and once a table was read, read.
KeptInv ==
  \A x \in Readers :
    /\ reader[x].at \notin Exporting => kept[x] = {}
    /\ reader[x].at \in Exporting => kept[x] \subseteq RecordsOf(reader[x].user)
    /\ reader[x].at \in {"contact", "exported"} =>
         \A k \in kept[x] : k[1] = "event" => k \in shown[x]
    /\ reader[x].at = "exported" =>
         \A k \in kept[x] : k[1] = "contact" => k \in shown[x] \/ MayFail

\* What is in purged was found by a purge that has answered, so it is not stored.
PurgedInv ==
  \A x \in Readers :
    /\ \A k \in purged[x] : \E g \in Purges : purge[g].at = "ok" /\ k \in gone[g]
    /\ shown[x] \cap purged[x] = {}
    /\ reader[x].at = "idle" => shown[x] = {}

LEMMA ExportsInit == ReportsInit => KeptInv /\ PurgedInv
<1>. SUFFICES ASSUME ReportsInit PROVE KeptInv /\ PurgedInv
  OBVIOUS
<1>1. \A x \in Readers : reader[x].at = "idle" /\ kept[x] = {} /\ purged[x] = {} /\ shown[x] = {}
  BY DEF ReportsInit, Idle
<1>. QED
  BY <1>1 DEF KeptInv, PurgedInv, Exporting

\* A record is an event's or a contact's.
LEMMA RecordKinds ==
  ASSUME NEW u, NEW k \in RecordsOf(u)
  PROVE  /\ k[1] = "event" => \E r \in EventsOf(u) : k = <<"event", r>>
         /\ k[1] = "contact" => k = <<"contact", contact[u]>> /\ contact[u] # None
BY DEF RecordsOf, EventsOf

LEMMA KeptReaders ==
  ASSUME TypeInv, ReaderType, KeptInv, NEW x \in Readers, ReaderMoves(x)
  PROVE  KeptInv'
<1>1. /\ UNCHANGED <<store, events, contact, post>>
      /\ \A u : RecordsOf(u)' = RecordsOf(u)
  BY ReaderLeavesPipeline DEF vars, ingestVars, RecordsOf
<1>. DEFINE Part(y) ==
        /\ reader[y].at \notin Exporting => kept[y] = {}
        /\ reader[y].at \in Exporting => kept[y] \subseteq RecordsOf(reader[y].user)
        /\ reader[y].at \in {"contact", "exported"} =>
             \A k \in kept[y] : k[1] = "event" => k \in shown[y]
        /\ reader[y].at = "exported" =>
             \A k \in kept[y] : k[1] = "contact" => k \in shown[y] \/ MayFail
<1>2. \A y \in Readers : Part(y)
  BY DEF KeptInv
<1>3. ASSUME NEW y \in Readers, y # x PROVE Part(y)'
  <2>1. reader'[y] = reader[y] /\ shown'[y] = shown[y] /\ kept'[y] = kept[y]
    BY <1>3 DEF ReaderMoves, BeginExport, BeginMetrics, ReaderStep, ExportEvents, ExportContact,
       LoadCounter, SelectCounters, Leave, GoesTo, ghostVars, ReaderType
  <2>2. /\ reader'[y].at \notin Exporting => kept'[y] = {}
        /\ reader'[y].at \in {"contact", "exported"} =>
             \A k \in kept'[y] : k[1] = "event" => k \in shown'[y]
        /\ reader'[y].at = "exported" =>
             \A k \in kept'[y] : k[1] = "contact" => k \in shown'[y] \/ MayFail'
    BY <1>1, <1>2, <2>1 DEF MayFail
  <2>3. reader'[y].at \in Exporting => kept'[y] \subseteq RecordsOf(reader[y].user)'
    <3>1. kept[y] \subseteq RecordsOf(reader[y].user) \/ reader[y].at \notin Exporting
      BY <1>2
    <3>. QED
      BY <1>1, <2>1, <3>1 DEF RecordsOf
  <2>. QED
    BY <2>2, <2>3
<1>4. Part(x)'
  <2>1. CASE BeginExport(x)
    <3>1. PICK u \in Users :
            /\ reader' = [reader EXCEPT ![x] = [at |-> "events", user |-> u]]
            /\ kept' = [kept EXCEPT ![x] = RecordsOf(u)]
      BY <2>1 DEF BeginExport
    <3>2. reader'[x].at = "events" /\ reader'[x].user = u /\ kept'[x] = RecordsOf(u)
      BY <3>1 DEF ReaderType
    <3>. QED
      BY <1>1, <3>2 DEF Exporting, RecordsOf
  <2>2. CASE BeginMetrics(x) \/ LoadCounter(x) \/ SelectCounters(x)
    <3>1. /\ reader[x].at \notin Exporting /\ reader'[x].at \notin Exporting /\ kept'[x] = kept[x]
      BY <2>2 DEF BeginMetrics, LoadCounter, SelectCounters, GoesTo, ghostVars, ReaderType,
         Exporting
    <3>. QED
      BY <1>2, <3>1 DEF Exporting
  <2>3. CASE ExportEvents(x)
    <3>1. /\ reader[x].at = "events" /\ kept' = kept
          /\ reader'[x].user = reader[x].user
          /\ \/ shown'[x] = EventsRead(x) /\ reader'[x].at = "contact"
             \/ reader'[x].at = "failed"
      BY <2>3 DEF ExportEvents, GoesTo, ghostVars, ReaderType
    <3>2. kept[x] \subseteq RecordsOf(reader[x].user)
      BY <1>2, <3>1 DEF Exporting
    <3>3. \A k \in kept[x] : k[1] = "event" => k \in EventsRead(x)
      BY <3>2, RecordKinds DEF EventsRead
    <3>4. kept'[x] \subseteq RecordsOf(reader[x].user)'
      BY <1>1, <3>1, <3>2 DEF RecordsOf
    <3>. QED
      BY <3>1, <3>3, <3>4 DEF Exporting
  <2>4. CASE ExportContact(x)
    <3>1. /\ reader[x].at = "contact" /\ reader'[x].at = "exported" /\ kept' = kept
          /\ reader'[x].user = reader[x].user
          /\ \/ shown'[x] = shown[x] \cup ContactRead(x)
             \/ shown'[x] = shown[x] /\ MayFail
      BY <2>4 DEF ExportContact, GoesTo, ghostVars, ReaderType
    <3>2. kept[x] \subseteq RecordsOf(reader[x].user)
      BY <1>2, <3>1 DEF Exporting
    <3>3. \A k \in kept[x] : k[1] = "contact" => k \in ContactRead(x)
      BY <3>2, RecordKinds DEF ContactRead
    <3>4. \A k \in kept[x] : k[1] = "event" => k \in shown[x]
      BY <1>2, <3>1
    <3>5. kept'[x] \subseteq RecordsOf(reader[x].user)'
      BY <1>1, <3>1, <3>2 DEF RecordsOf
    <3>. QED
      BY <1>1, <3>1, <3>3, <3>4, <3>5 DEF Exporting, MayFail
  <2>5. CASE Leave(x)
    <3>1. reader'[x].at = "idle" /\ kept'[x] = {}
      BY <2>5 DEF Leave, Idle, ReaderType
    <3>. QED
      BY <3>1 DEF Exporting
  <2>. QED
    BY <2>1, <2>2, <2>3, <2>4, <2>5 DEF ReaderMoves, ReaderStep
<1>5. \A y \in Readers : Part(y)'
  BY <1>3, <1>4
<1>. QED
  BY <1>5 DEF KeptInv

LEMMA KeptStep ==
  PipelineInv /\ ReaderType /\ KeptInv /\ [ReportsNext]_reportsVars => KeptInv'
<1>. SUFFICES ASSUME TypeInv, ReaderType, KeptInv, [ReportsNext]_reportsVars PROVE KeptInv'
  BY DEF PipelineInv
<1>1. CASE PipelineStep
  <2>1. /\ UNCHANGED <<reader, shown>>
        /\ kept' = [x \in Readers |-> kept[x] \cap RecordsOf(reader[x].user)']
    BY <1>1 DEF PipelineStep, readVars
  <2>2. UNCHANGED store
    BY <1>1, StoreStays DEF PipelineStep
  <2>. QED
    BY <2>1, <2>2 DEF KeptInv, MayFail
<1>2. CASE UNCHANGED reportsVars
  BY <1>2 DEF reportsVars, readVars, ghostVars, vars, ingestVars, KeptInv, MayFail, RecordsOf
<1>. QED
  BY <1>1, <1>2, ReportCases, KeptReaders

\* An export that was answered shows every record that was stored while it ran: what is
\* stored all along is there when its table is read, whatever is stored and purged between
\* the two reads.
THEOREM ExportsAreComplete == ReportsSpec => []ExportComplete
<1>1. ReaderType /\ KeptInv => ExportComplete
  <2>. SUFFICES ASSUME ReaderType, KeptInv, NEW x \in Readers, reader[x].at = "exported",
                       NEW k \in kept[x]
                PROVE  k \in shown[x] \/ (MayFail /\ k[1] = "contact")
    BY DEF ExportComplete
  <2>1. k[1] = "event" \/ k[1] = "contact"
    BY DEF ReaderType, Records
  <2>. QED
    BY <2>1 DEF KeptInv
<1>. QED
  BY PipelineInvInit, PipelineInvStep, ReaderTypeInit, ReaderTypeStep, ExportsInit, KeptStep,
     <1>1, PTL
     DEF ReportsSpec

LEMMA PurgedStep ==
  PipelineInv /\ ReaderType /\ PurgedInv /\ [ReportsNext]_reportsVars => PurgedInv'
<1>. SUFFICES ASSUME PipelineInv, ReaderType, PurgedInv, [ReportsNext]_reportsVars PROVE PurgedInv'
  OBVIOUS
<1>1. TypeInv /\ PurgeErasesRecords
  BY FoundIsErased DEF PipelineInv
<1>2. CASE PipelineStep
  <2>1. UNCHANGED <<reader, shown, purged>> /\ Next
    BY <1>2 DEF PipelineStep, readVars
  <2>. QED
    BY <1>1, <2>1, AnsweredStays DEF PurgedInv
<1>3. CASE UNCHANGED reportsVars
  BY <1>3 DEF reportsVars, readVars, ghostVars, vars, purgeVars, PurgedInv
<1>4. ASSUME NEW x \in Readers, ReaderMoves(x) PROVE PurgedInv'
  <2>1. UNCHANGED <<purge, gone>>
    BY <1>4, ReaderLeavesPipeline DEF vars, purgeVars
  <2>2. ASSUME NEW y \in Readers, y # x
        PROVE  reader'[y] = reader[y] /\ shown'[y] = shown[y] /\ purged'[y] = purged[y]
    BY <1>4, <2>2 DEF ReaderMoves, BeginExport, BeginMetrics, ReaderStep, ExportEvents,
       ExportContact,
       LoadCounter, SelectCounters, Leave, GoesTo, ghostVars, ReaderType
  <2>3. /\ \A k \in purged'[x] : \E g \in Purges : purge[g].at = "ok" /\ k \in gone[g]
        /\ shown'[x] \cap purged'[x] = {}
        /\ reader'[x].at = "idle" => shown'[x] = {}
    <3>1. CASE BeginExport(x)
      <4>1. reader[x].at = "idle" /\ shown'[x] = shown[x] /\ reader'[x].at = "events"
        BY <3>1 DEF BeginExport, ReaderType
      <4>2. purged'[x] = UNION {gone[g] : g \in {h \in Purges : purge[h].at = "ok"}}
        BY <3>1 DEF BeginExport, ReaderType
      <4>. QED
        BY <4>1, <4>2 DEF PurgedInv
    <3>2. CASE ExportEvents(x) \/ ExportContact(x)
      <4>1. /\ reader[x].at \in Exporting /\ purged'[x] = purged[x] /\ reader'[x].at # "idle"
            /\ shown'[x] \subseteq shown[x] \cup EventsRead(x) \cup ContactRead(x)
        BY <3>2 DEF ExportEvents, ExportContact, GoesTo, ghostVars, ReaderType, Exporting
      <4>2. reader[x].user \in Users
        BY <4>1 DEF ReaderType
      <4>3. EventsRead(x) \cup ContactRead(x) \subseteq RecordsOf(reader[x].user)
        BY <1>1, <4>1, ReadsTyped
      <4>4. purged[x] \cap RecordsOf(reader[x].user) = {}
        BY <1>1, <4>2 DEF PurgedInv, PurgeErasesRecords
      <4>. QED
        BY <4>1, <4>3, <4>4 DEF PurgedInv
    <3>3. CASE BeginMetrics(x) \/ LoadCounter(x) \/ SelectCounters(x)
      <4>1. shown'[x] = shown[x] /\ purged'[x] = purged[x] /\ reader'[x].at # "idle"
        BY <3>3 DEF BeginMetrics, LoadCounter, SelectCounters, GoesTo, ghostVars, ReaderType
      <4>. QED
        BY <4>1 DEF PurgedInv
    <3>4. CASE Leave(x)
      BY <3>4 DEF Leave, ReaderType
    <3>. QED
      BY <1>4, <3>1, <3>2, <3>3, <3>4 DEF ReaderMoves, ReaderStep
  <2>. QED
    BY <2>1, <2>2, <2>3 DEF PurgedInv
<1>. QED
  BY <1>2, <1>3, <1>4, ReportCases

\* An export shows nothing that a purge answered before it had found: what such a purge
\* found is erased for good, and an export shows what is stored.
THEOREM ExportsForget == ReportsSpec => []PurgedNotExported
<1>1. PurgedInv => PurgedNotExported
  BY DEF PurgedInv, PurgedNotExported
<1>. QED
  BY PipelineInvInit, PipelineInvStep, ReaderTypeInit, ReaderTypeStep, ExportsInit, PurgedStep,
     <1>1,
     PTL DEF ReportsSpec

-------------------------------------------------------------------------------
(* Dashboards. *)

Loaded(k) == {LoadOrder[i] : i \in 1..k}

\* The counters are loaded in the order of LoadOrder, all of them by the answer.
LoadedInv ==
  \A x \in Readers : \E k \in 0..6 :
    /\ DOMAIN seen[x] = Loaded(k)
    /\ reader[x].at = "metrics" => k < 6
    /\ reader[x].at = "answered" /\ store = "memory" => k = 6
    /\ reader[x].at \notin {"metrics", "answered"} => k = 0

\* A counter as it was loaded, or as it would be loaded now.
Reads(x, m) == IF m \in DOMAIN seen[x] THEN seen[x][m] ELSE metrics[m]

\* Results only grow, so the attempts loaded before them are at most one ahead.
AheadInv ==
  store = "memory" =>
    \A x \in Readers :
      /\ \A m \in DOMAIN seen[x] : seen[x][m] \in Nat
      /\ "crm_attempts" \in DOMAIN seen[x] =>
           seen[x]["crm_attempts"] <= Reads(x, "crm_successes") + Reads(x, "crm_failures") + 1

LEMMA OrderOfLoads ==
  /\ LoadOrder[4] = "crm_attempts" /\ LoadOrder[5] = "crm_successes"
  /\ LoadOrder[6] = "crm_failures" /\ Len(LoadOrder) = 6
  /\ \A i \in 1..6 : LoadOrder[i] \in Counters
  /\ \A i, j \in 1..6 : LoadOrder[i] = LoadOrder[j] => i = j
<1>1. 1..6 = {1, 2, 3, 4, 5, 6}
  OBVIOUS
<1>. QED
  BY <1>1 DEF LoadOrder, Counters

LEMMA LoadedCount ==
  ASSUME NEW k \in 0..6
  PROVE  IsFiniteSet(Loaded(k)) /\ Cardinality(Loaded(k)) = k
<1>. DEFINE f == [i \in 1..k |-> LoadOrder[i]]
<1>1. f \in Bijection(1..k, Loaded(k))
  <2>1. f \in [1..k -> Loaded(k)]
    BY DEF Loaded
  <2>2. \A i, j \in 1..k : f[i] = f[j] => i = j
    BY OrderOfLoads
  <2>3. \A m \in Loaded(k) : \E i \in 1..k : f[i] = m
    BY DEF Loaded
  <2>. QED
    BY <2>1, <2>2, <2>3 DEF Bijection, Injection, IsInjective, Surjection
<1>2. ExistsBijection(1..k, Loaded(k))
  BY <1>1 DEF ExistsBijection
<1>3. IsFiniteSet(1..k)
  BY FS_Interval
<1>4. IsFiniteSet(Loaded(k))
  BY <1>2, <1>3, FS_Bijection
<1>5. Cardinality(Loaded(k)) = k
  BY <1>2, FS_CountingElements
<1>. QED
  BY <1>4, <1>5

LEMMA LoadedNext ==
  ASSUME NEW k \in 0..5
  PROVE  /\ Loaded(k + 1) = Loaded(k) \cup {LoadOrder[k + 1]}
         /\ LoadOrder[k + 1] \notin Loaded(k)
BY OrderOfLoads DEF Loaded

LEMMA LoadsInit == ReportsInit => LoadedInv /\ AheadInv
<1>. SUFFICES ASSUME ReportsInit PROVE LoadedInv /\ AheadInv
  OBVIOUS
<1>1. \A x \in Readers : reader[x].at = "idle" /\ DOMAIN seen[x] = {}
  BY DEF ReportsInit, Idle
<1>2. Loaded(0) = {}
  BY DEF Loaded
<1>3. LoadedInv
  BY <1>1, <1>2 DEF LoadedInv
<1>4. AheadInv
  BY <1>1 DEF AheadInv
<1>. QED
  BY <1>3, <1>4

\* The other readers, and the steps that load nothing.
LEMMA SeenMoves ==
  ASSUME ReaderType, NEW x \in Readers, ReaderMoves(x)
  PROVE  /\ \A y \in Readers : y # x => seen'[y] = seen[y] /\ reader'[y] = reader[y]
         /\ Leave(x) => seen'[x] = <<>> /\ reader'[x].at = "idle"
         /\ BeginExport(x) \/ ExportEvents(x) \/ ExportContact(x) =>
              /\ seen'[x] = seen[x] /\ reader[x].at \notin {"metrics", "answered"}
              /\ reader'[x].at \notin {"metrics", "answered"}
         /\ BeginMetrics(x) \/ SelectCounters(x) =>
              /\ seen'[x] = seen[x]
              /\ \/ reader[x].at = "idle" /\ reader'[x].at = "metrics"
                 \/ reader[x].at = "metrics" /\ reader'[x].at = "answered" /\ store = "postgres"
<1>1. \A y \in Readers : y # x => seen'[y] = seen[y] /\ reader'[y] = reader[y]
  BY DEF ReaderMoves, BeginExport, BeginMetrics, ReaderStep, ExportEvents, ExportContact,
     LoadCounter,
     SelectCounters, Leave, GoesTo, ghostVars, ReaderType
<1>2. CASE Leave(x)
  <2>1. /\ seen'[x] = <<>> /\ reader'[x].at = "idle"
        /\ reader[x].at \in {"exported", "failed", "answered"}
    BY <1>2 DEF Leave, Idle, ReaderType
  <2>. QED
    BY <1>1, <2>1 DEF BeginExport, ExportEvents, ExportContact, BeginMetrics, SelectCounters
<1>3. CASE BeginExport(x) \/ ExportEvents(x) \/ ExportContact(x)
  <2>1. /\ seen'[x] = seen[x] /\ reader[x].at \in {"idle", "events", "contact"}
        /\ reader'[x].at \in Exporting
    BY <1>3 DEF BeginExport, ExportEvents, ExportContact, GoesTo, ghostVars, ReaderType, Exporting
  <2>. QED
    BY <1>1, <2>1 DEF Exporting, BeginMetrics, SelectCounters, Leave, GoesTo, ReaderType
<1>4. CASE BeginMetrics(x) \/ SelectCounters(x)
  BY <1>1, <1>4 DEF BeginMetrics, SelectCounters, GoesTo, ReaderType, Exporting, BeginExport,
     ExportEvents, ExportContact, Leave
<1>5. CASE LoadCounter(x)
  <2>1. reader[x].at = "metrics" /\ store = "memory" /\ reader'[x].at \in {"metrics", "answered"}
    BY <1>5 DEF LoadCounter, GoesTo, ReaderType
  <2>. QED
    BY <1>1, <2>1 DEF BeginExport, ExportEvents, ExportContact, BeginMetrics, SelectCounters, Leave
<1>. QED
  BY <1>2, <1>3, <1>4, <1>5 DEF ReaderMoves, ReaderStep

\* A load takes the next counter, and the value it has now.
LEMMA LoadMoves ==
  ASSUME ReaderType, LoadedInv, NEW x \in Readers, LoadCounter(x)
  PROVE  \E k \in 0..5 :
           /\ DOMAIN seen[x] = Loaded(k) /\ DOMAIN seen'[x] = Loaded(k + 1)
           /\ reader[x].at = "metrics" /\ store = "memory"
           /\ reader'[x].at = IF k < 5 THEN "metrics" ELSE "answered"
           /\ \A m \in Loaded(k) : seen'[x][m] = seen[x][m]
           /\ seen'[x][LoadOrder[k + 1]] = metrics[LoadOrder[k + 1]]
<1>1. PICK k \in 0..6 : DOMAIN seen[x] = Loaded(k) /\ k < 6
  BY DEF LoadCounter, LoadedInv
<1>2. k \in 0..5 /\ Cardinality(DOMAIN seen[x]) = k
  BY <1>1, LoadedCount
<1>. DEFINE m == LoadOrder[k + 1]
<1>3. /\ seen'[x] = [c \in Loaded(k) \cup {m} |->
                       IF c \in Loaded(k) THEN seen[x][c] ELSE metrics[c]]
      /\ IF k + 1 < 6 THEN UNCHANGED reader ELSE GoesTo(x, "answered")
  BY <1>1, <1>2, OrderOfLoads DEF LoadCounter, ReaderType
<1>4. Loaded(k + 1) = Loaded(k) \cup {m} /\ m \notin Loaded(k)
  BY <1>2, LoadedNext
<1>. HIDE DEF m
<1>5. reader'[x].at = IF k < 5 THEN "metrics" ELSE "answered"
  BY <1>2, <1>3 DEF LoadCounter, GoesTo, ReaderType
<1>6. /\ DOMAIN seen'[x] = Loaded(k + 1)
      /\ \A c \in Loaded(k) : seen'[x][c] = seen[x][c]
      /\ seen'[x][m] = metrics[m]
  BY <1>3, <1>4
<1>. QED
  BY <1>1, <1>2, <1>5, <1>6 DEF LoadCounter, m

LEMMA LoadedStep ==
  PipelineInv /\ ReaderType /\ LoadedInv /\ [ReportsNext]_reportsVars => LoadedInv'
<1>. SUFFICES ASSUME ReaderType, LoadedInv, [ReportsNext]_reportsVars PROVE LoadedInv'
  OBVIOUS
<1>1. CASE PipelineStep \/ UNCHANGED reportsVars
  <2>1. UNCHANGED <<store, reader, seen>>
    BY <1>1, StoreStays DEF PipelineStep, readVars, reportsVars, vars, ingestVars
  <2>. QED
    BY <2>1 DEF LoadedInv
<1>2. ASSUME NEW x \in Readers, ReaderMoves(x) PROVE LoadedInv'
  <2>. SUFFICES ASSUME NEW y \in Readers
                PROVE  \E k \in 0..6 :
                         /\ DOMAIN seen'[y] = Loaded(k)
                         /\ reader'[y].at = "metrics" => k < 6
                         /\ reader'[y].at = "answered" /\ store' = "memory" => k = 6
                         /\ reader'[y].at \notin {"metrics", "answered"} => k = 0
    BY DEF LoadedInv
  <2>1. store' = store
    BY <1>2, ReaderLeavesPipeline DEF vars, ingestVars
  <2>2. PICK k \in 0..6 :
          /\ DOMAIN seen[y] = Loaded(k)
          /\ reader[y].at = "metrics" => k < 6
          /\ reader[y].at = "answered" /\ store = "memory" => k = 6
          /\ reader[y].at \notin {"metrics", "answered"} => k = 0
    BY DEF LoadedInv
  <2>3. CASE y # x
    BY <1>2, <2>1, <2>2, <2>3, SeenMoves
  <2>4. CASE y = x /\ LoadCounter(x)
    <3>1. PICK j \in 0..5 :
            /\ DOMAIN seen'[x] = Loaded(j + 1)
            /\ reader'[x].at = IF j < 5 THEN "metrics" ELSE "answered"
      BY <2>4, LoadMoves
    <3>2. j + 1 \in 0..6 /\ (j < 5 => j + 1 < 6) /\ (~(j < 5) => j + 1 = 6)
      OBVIOUS
    <3>. QED
      BY <2>4, <3>1, <3>2
  <2>5. CASE y = x /\ Leave(x)
    <3>1. DOMAIN seen'[x] = Loaded(0) /\ reader'[x].at = "idle"
      BY <1>2, <2>5, SeenMoves DEF Loaded
    <3>. QED
      BY <2>5, <3>1
  <2>6. CASE y = x /\ (BeginExport(x) \/ ExportEvents(x) \/ ExportContact(x))
    BY <1>2, <2>1, <2>2, <2>6, SeenMoves
  <2>7. CASE y = x /\ (BeginMetrics(x) \/ SelectCounters(x))
    BY <1>2, <2>1, <2>2, <2>7, SeenMoves
  <2>. QED
    BY <1>2, <2>3, <2>4, <2>5, <2>6, <2>7 DEF ReaderMoves, ReaderStep
<1>. QED
  BY <1>1, <1>2, ReportCases

\* No step of the pipeline takes a count back.
LEMMA CountsGrow ==
  ASSUME TypeInv, Next, NEW m \in Counters
  PROVE  metrics[m] \in Nat /\ metrics'[m] \in Nat /\ metrics[m] <= metrics'[m]
<1>1. metrics[m] \in Nat
  BY DEF TypeInv, TypeOK
<1>2. UNCHANGED metrics \/ \E c \in Counters : Increment(c)
  <2>1. CASE UNCHANGED metrics
    BY <2>1
  <2>2. CASE CountVerdict
    BY <2>2 DEF CountVerdict, Counters
  <2>3. CASE CountResult
    BY <2>3 DEF CountResult, Counters
  <2>4. CASE CountAttempt \/ \E r \in Requests : Reject(r) \/ Accept(r)
    BY <2>4 DEF CountAttempt, Reject, Accept, Counters
  <2>. QED
    BY <2>1, <2>2, <2>3, <2>4 DEF Next, IngestStep, PublishRaw, PublishFails, Listen, FraudStep,
       Screen,
       SaveEvent, PublishScreened, MarketingStep, Skip, Pick, Sync, SaveContact, BeginPurge,
       PurgeStep,
       MemoryDeleteEvents, MemoryCascade, PostgresDelete, PostgresDeleteFails, PurgeContact,
       PurgeLog
<1>3. ASSUME NEW c \in Counters, Increment(c)
      PROVE  metrics'[m] = metrics[m] \/ metrics'[m] = metrics[m] + 1
  BY <1>3 DEF Increment, TypeInv, TypeOK
<1>. QED
  BY <1>1, <1>2, <1>3

LEMMA AheadStep ==
  PipelineInv /\ ReaderType /\ LoadedInv /\ AheadInv /\ [ReportsNext]_reportsVars => AheadInv'
<1>. SUFFICES ASSUME PipelineInv, ReaderType, LoadedInv, AheadInv, [ReportsNext]_reportsVars,
                     store' = "memory", NEW y \in Readers
              PROVE  /\ \A m \in DOMAIN seen'[y] : seen'[y][m] \in Nat
                     /\ "crm_attempts" \in DOMAIN seen'[y] =>
                          seen'[y]["crm_attempts"]
                            <= Reads(y, "crm_successes")' + Reads(y, "crm_failures")' + 1
  BY DEF AheadInv
<1>1. TypeInv /\ store = "memory"
  <2>1. UNCHANGED store
    BY PipelineNext, StoreStays DEF vars, ingestVars
  <2>. QED
    BY <2>1 DEF PipelineInv
<1>2. /\ \A m \in DOMAIN seen[y] : seen[y][m] \in Nat
      /\ "crm_attempts" \in DOMAIN seen[y] =>
           seen[y]["crm_attempts"] <= Reads(y, "crm_successes") + Reads(y, "crm_failures") + 1
  BY <1>1 DEF AheadInv
<1>3. \A c \in Counters : Reads(y, c) \in Nat
  BY <1>1, <1>2 DEF Reads, TypeInv, TypeOK
<1>4. CASE seen'[y] = seen[y] /\ (Next \/ UNCHANGED metrics)
  <2>1. \A c \in Counters : Reads(y, c)' \in Nat /\ Reads(y, c) <= Reads(y, c)'
    <3>. SUFFICES ASSUME NEW c \in Counters
                  PROVE  Reads(y, c)' \in Nat /\ Reads(y, c) <= Reads(y, c)'
      OBVIOUS
    <3>1. CASE c \in DOMAIN seen[y]
      BY <1>2, <1>4, <3>1 DEF Reads
    <3>2. CASE c \notin DOMAIN seen[y]
      <4>1. Reads(y, c) = metrics[c] /\ Reads(y, c)' = metrics'[c]
        BY <1>4, <3>2 DEF Reads
      <4>2. metrics[c] \in Nat /\ metrics'[c] \in Nat /\ metrics[c] <= metrics'[c]
        BY <1>1, <1>4, CountsGrow DEF TypeInv, TypeOK
      <4>. QED
        BY <4>1, <4>2
    <3>. QED
      BY <3>1, <3>2
  <2>2. /\ Reads(y, "crm_successes") \in Nat /\ Reads(y, "crm_failures") \in Nat
        /\ Reads(y, "crm_successes")' \in Nat /\ Reads(y, "crm_failures")' \in Nat
        /\ Reads(y, "crm_successes") <= Reads(y, "crm_successes")'
        /\ Reads(y, "crm_failures") <= Reads(y, "crm_failures")'
    BY <1>3, <2>1 DEF Counters
  <2>3. "crm_attempts" \in DOMAIN seen[y] => seen[y]["crm_attempts"] \in Nat
    BY <1>2
  <2>. QED
    BY <1>2, <1>4, <2>2, <2>3
<1>5. CASE LoadCounter(y)
  <2>1. PICK k \in 0..5 :
          /\ DOMAIN seen[y] = Loaded(k) /\ DOMAIN seen'[y] = Loaded(k + 1)
          /\ \A m \in Loaded(k) : seen'[y][m] = seen[y][m]
          /\ seen'[y][LoadOrder[k + 1]] = metrics[LoadOrder[k + 1]]
    BY <1>5, LoadMoves
  <2>2. Loaded(k + 1) = Loaded(k) \cup {LoadOrder[k + 1]} /\ LoadOrder[k + 1] \in Counters
    BY LoadedNext, OrderOfLoads
  <2>3. UNCHANGED metrics /\ metrics \in [Counters -> Nat]
    BY <1>1, <1>5 DEF LoadCounter, vars, TypeInv, TypeOK
  <2>4. \A m \in DOMAIN seen'[y] : seen'[y][m] \in Nat
    BY <1>2, <2>1, <2>2, <2>3
  <2>5. \A c \in Counters : Reads(y, c)' = Reads(y, c)
    BY <2>1, <2>2, <2>3 DEF Reads
  <2>6. CASE "crm_attempts" \in DOMAIN seen[y]
    <3>1. seen'[y]["crm_attempts"] = seen[y]["crm_attempts"]
      BY <2>1, <2>6
    <3>2. /\ Reads(y, "crm_successes")' = Reads(y, "crm_successes")
          /\ Reads(y, "crm_failures")' = Reads(y, "crm_failures")
      BY <2>5 DEF Counters
    <3>. QED
      BY <1>2, <2>4, <2>6, <3>1, <3>2
  <2>7. CASE "crm_attempts" \in DOMAIN seen'[y] /\ "crm_attempts" \notin DOMAIN seen[y]
    <3>1. LoadOrder[k + 1] = "crm_attempts"
      BY <2>1, <2>2, <2>7
    <3>2. k = 3
      BY <3>1, OrderOfLoads
    <3>3. "crm_successes" \notin Loaded(k) /\ "crm_failures" \notin Loaded(k)
      BY <3>2, OrderOfLoads DEF Loaded
    <3>4. /\ Reads(y, "crm_successes") = metrics["crm_successes"]
          /\ Reads(y, "crm_failures") = metrics["crm_failures"]
      BY <2>1, <3>3 DEF Reads
    <3>5. metrics["crm_attempts"] <= Results + 1
      <4>1. metrics["crm_attempts"] = Results + Holding(mkt, {"sync", "count"})
        BY <1>1 DEF PipelineInv, CRMInv
      <4>2. Results \in Nat
        BY <1>1, CountsTyped DEF Results, Numbers
      <4>. QED
        BY <4>1, <4>2 DEF Holding
    <3>6. seen'[y]["crm_attempts"] <= Reads(y, "crm_successes") + Reads(y, "crm_failures") + 1
      BY <2>1, <3>1, <3>4, <3>5 DEF Results
    <3>. QED
      BY <2>4, <2>5, <3>6 DEF Counters
  <2>. QED
    BY <2>4, <2>6, <2>7
<1>6. CASE Leave(y)
  <2>1. DOMAIN seen'[y] = {}
    BY <1>6, SeenMoves DEF ReaderMoves
  <2>. QED
    BY <2>1
<1>7. ASSUME NEW x \in Readers, ReaderMoves(x), ~(x = y /\ (LoadCounter(y) \/ Leave(y)))
      PROVE  seen'[y] = seen[y] /\ UNCHANGED metrics
  <2>1. UNCHANGED metrics
    BY <1>7, ReaderLeavesPipeline DEF vars
  <2>. QED
    BY <1>7, <2>1, SeenMoves DEF ReaderMoves, ReaderStep
<1>8. PipelineStep \/ UNCHANGED reportsVars => seen'[y] = seen[y] /\ (Next \/ UNCHANGED metrics)
  BY DEF PipelineStep, readVars, reportsVars, vars
<1>. QED
  BY <1>4, <1>5, <1>6, <1>7, <1>8, ReportCases

\* A dashboard shows at most one sync under way: when it loaded the attempts there was at
\* most one, and the results it loads later have only grown (memory tracker).
THEOREM BacklogsAreReal == ReportsSpec => []BacklogIsReal
<1>1. ReaderType /\ LoadedInv /\ AheadInv => BacklogIsReal
  <2>. SUFFICES ASSUME ReaderType, LoadedInv, AheadInv,
                       NEW x \in Readers, reader[x].at = "answered", store = "memory"
                PROVE  seen[x]["crm_attempts"]
                         <= seen[x]["crm_successes"] + seen[x]["crm_failures"] + 1
    BY DEF BacklogIsReal
  <2>1. DOMAIN seen[x] = Loaded(6)
    BY DEF LoadedInv
  <2>2. {"crm_attempts", "crm_successes", "crm_failures"} \subseteq DOMAIN seen[x]
    <3>1. 4 \in 1..6 /\ 5 \in 1..6 /\ 6 \in 1..6
      OBVIOUS
    <3>. QED
      BY <2>1, <3>1, OrderOfLoads DEF Loaded
  <2>. QED
    BY <2>2 DEF AheadInv, Reads
<1>. QED
  BY PipelineInvInit, PipelineInvStep, ReaderTypeInit, ReaderTypeStep, LoadsInit, LoadedStep,
     AheadStep,
     <1>1, PTL DEF ReportsSpec
===============================================================================
