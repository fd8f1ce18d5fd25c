------------------------------- MODULE MCReports -------------------------------
(* A small instance of Pipeline with the readers of Reports beside it. *)
EXTENDS MCPipeline, Reports

\* The users are alike: u1 posts at least one event, and the purge is u1's.  On
\* PostgreSQL, where every statement may fail, nobody posts both a signup and a click
\* the gateway lets in: what the marketing worker skips writes nothing.
Clicks(u) == {r \in Requests : post[r].user = u /\ post[r].kind = "click" /\ post[r].consent}
Signups(u) == {r \in Requests : post[r].user = u /\ post[r].kind = "signup"}
PostsBounded ==
  /\ \E r \in Requests : post[r].user = u1
  /\ \A g \in Purges : purge[g].user = u1
  /\ store = "postgres" => \A u \in Users : Clicks(u) = {} \/ Signups(u) = {}

\* The readers come where only consented signups of u1 are posted (one of them on
\* PostgreSQL), and the metrics are read where no purge has begun: reports tell apart
\* the records of one user and the steps of the counters, not the kinds of events, and
\* no purge counts anything.
SignupsOnly ==
  /\ \A r \in Requests : post[r].kind = "signup" /\ post[r].user = u1
  /\ store = "postgres" => \E r \in Requests : req[r] = "new"
ReadersBounded ==
  \A x \in Readers :
    /\ reader[x] # Idle => SignupsOnly
    /\ reader[x].at \in {"metrics", "answered"} => \A g \in Purges : purge[g].at = "new"

MCInit == ReportsInit /\ PostsBounded
MCSpec == MCInit /\ [][ReportsNext /\ ReadersBounded']_reportsVars
===============================================================================
