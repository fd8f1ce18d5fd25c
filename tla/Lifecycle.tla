------------------------------- MODULE Lifecycle -------------------------------
(***************************************************************************)
(* The process around the pipeline, as cmd/monolith/main.go stops it: main   *)
(* cancels the context of the two workers, shuts its four HTTP servers down  *)
(* one after the other under one deadline, closes the database and, by a     *)
(* deferred call, the broker, and returns.  It waits for no worker, and for  *)
(* a handler only until the deadline.  cmd/orchestrator does the same on the *)
(* memory store.                                                            *)
(***************************************************************************)
EXTENDS Pipeline

VARIABLES
  main,      \* "running", the server main shuts down, "db", "broker", "return" or "exit"
  expired,   \* the two seconds of shutCtx are over
  drained,   \* servers whose Shutdown returned nil: no connection is left
  stopped,   \* workers whose loop has returned
  cut        \* requests whose screened event the broker refused

lifeVars == <<main, expired, drained, stopped, cut>>
lifecycleVars == <<vars, lifeVars>>

Servers == {"crm", "ingest", "mkt", "analytics"}
Workers == {"raw", "screened"}   \* named for the topics they read
Stages == {"running", "db", "broker", "return", "exit"} \cup Servers

LifecycleTypeOK ==
  /\ TypeOK
  /\ main \in Stages
  /\ expired \in BOOLEAN
  /\ drained \subseteq Servers
  /\ stopped \subseteq Workers
  /\ cut \subseteq Requests

LifecycleInit ==
  /\ Init
  /\ main = "running"
  /\ expired = FALSE
  /\ drained = {}
  /\ stopped = {}
  /\ cut = {}

Signalled == main # "running"
DatabaseClosed == store = "postgres" /\ main \in {"broker", "return", "exit"}
BrokerClosed == main \in {"return", "exit"}

-------------------------------------------------------------------------------
(* main after the signal. *)

\* SIGINT or SIGTERM: the workers' context ends and the deadline starts.
Signal ==
  /\ main = "running"
  /\ main' = "crm"
  /\ UNCHANGED <<vars, expired, drained, stopped, cut>>

Expire ==
  /\ main \in Servers
  /\ ~expired
  /\ expired' = TRUE
  /\ UNCHANGED <<vars, main, drained, stopped, cut>>

\* A handler of the server is under way.  The pipeline says nothing of the requests
\* the mock CRM and the analytics API serve.
PurgeUnderWay(g) == purge[g].at \notin {"new", "ok", "error"}
Busy(s) ==
  \/ s = "ingest" /\ \E r \in Requests : req[r] = "published"
  \/ s = "mkt" /\ \E g \in Purges : PurgeUnderWay(g)

After(s) ==
  CASE s = "crm" -> "ingest"
    [] s = "ingest" -> "mkt"
    [] s = "mkt" -> "analytics"
    [] s = "analytics" -> IF store = "postgres" THEN "db" ELSE "broker"

\* Shutdown returns nil once no connection is in use.
\* Variant: it looks at the idle connections only.
Drain_Busy(s) ==
  /\ main = s
  /\ drained' = drained \cup {s}
  /\ main' = After(s)
  /\ UNCHANGED <<vars, expired, stopped, cut>>
Drain(s) ==
  /\ main = s
  /\ ~Busy(s)
  /\ drained' = drained \cup {s}
  /\ main' = After(s)
  /\ UNCHANGED <<vars, expired, stopped, cut>>

\* Shutdown returns the error of its context; main ignores it.  The connections stay
\* open, and one on which no request had come may still bring one.
\* Variant: Shutdown has no deadline.
GiveUp_Never(s) == FALSE /\ UNCHANGED lifecycleVars
GiveUp(s) ==
  /\ main = s
  /\ expired
  /\ main' = After(s)
  /\ UNCHANGED <<vars, expired, drained, stopped, cut>>

CloseDatabase ==
  /\ main = "db"
  /\ main' = "broker"
  /\ UNCHANGED <<vars, expired, drained, stopped, cut>>

\* The deferred eventBroker.Close.
CloseBroker ==
  /\ main = "broker"
  /\ main' = "return"
  /\ UNCHANGED <<vars, expired, drained, stopped, cut>>

\* main returns, and every other goroutine ends where it is.
Exit ==
  /\ main = "return"
  /\ main' = "exit"
  /\ UNCHANGED <<vars, expired, drained, stopped, cut>>

-------------------------------------------------------------------------------
(* The workers and handlers meanwhile. *)

At(w) == IF w = "raw" THEN fraud ELSE mkt

\* A loop that finds ctx.Done, or a subscription that is refused.  An event in the
\* queue may still win the select.  Variant: the worker drops the event it screens.
Quit_MidEvent(w) ==
  /\ Signalled /\ main # "exit"
  /\ w \notin stopped
  /\ w \in listening \/ BrokerClosed
  /\ w = "screened" => mkt.at = "idle"
  /\ stopped' = stopped \cup {w}
  /\ fraud' = IF w = "raw" THEN [at |-> "idle", r |-> None] ELSE fraud
  /\ UNCHANGED <<ingestVars, verdict, mktVars, queueVars, purgeVars, events, contact,
                 metrics, erased, main, expired, drained, cut>>
Quit(w) ==
  /\ Signalled /\ main # "exit"
  /\ w \notin stopped
  /\ w \in listening \/ BrokerClosed
  /\ At(w).at = "idle"
  /\ stopped' = stopped \cup {w}
  /\ UNCHANGED <<vars, main, expired, drained, cut>>

\* PublishScreened with the cancelled context, or on the closed broker.
Refuse ==
  /\ Signalled /\ main # "exit"
  /\ fraud.at = "publish"
  /\ "screened" \in listening \/ BrokerClosed
  /\ cut' = cut \cup {fraud.r}
  /\ fraud' = [at |-> "idle", r |-> None]
  /\ UNCHANGED <<ingestVars, verdict, mktVars, queueVars, purgeVars, events, contact,
                 metrics, erased, main, expired, drained, stopped>>

\* 500: PublishRaw on the closed broker.
RefuseRaw(r) ==
  /\ BrokerClosed /\ main # "exit"
  /\ "ingest" \notin drained
  /\ req[r] = "new"
  /\ Consented(r)
  /\ req' = [req EXCEPT ![r] = "failed"]
  /\ UNCHANGED <<store, post, fraudVars, mktVars, queueVars, purgeVars, events, contact,
                 metrics, erased, lifeVars>>

HandleIngest(r) ==
  \/ /\ "ingest" \notin drained
     /\ Reject(r) \/ (~BrokerClosed /\ (PublishRaw(r) \/ PublishFails(r)))
  \/ Accept(r)

\* With the context cancelled a full channel is no reason to drop: select finds
\* ctx.Done ready.
FraudWorks ==
  /\ "raw" \notin stopped
  /\ \/ Screen \/ SaveEvent \/ CountVerdict
     \/ /\ ~BrokerClosed
        /\ Signalled /\ "screened" \in listening => Fits("screened", screenedQ)
        /\ PublishScreened
MarketingWorks == "screened" \notin stopped /\ MarketingStep

\* Every statement after the pool is closed fails; one under way then has come before.
HandlePurge(g) ==
  \/ "mkt" \notin drained /\ BeginPurge(g)
  \/ /\ PurgeStep(g)
     /\ DatabaseClosed /\ purge[g].at = "events" => purge'[g].at = "error"

PipelineStep ==
  /\ main # "exit"
  /\ \/ \E r \in Requests : HandleIngest(r)
     \/ \E t \in Topics : ~BrokerClosed /\ Listen(t)
     \/ FraudWorks
     \/ MarketingWorks
     \/ \E g \in Purges : HandlePurge(g)
  /\ DatabaseClosed => UNCHANGED <<events, contact, metrics, audit>>
  /\ UNCHANGED lifeVars

-------------------------------------------------------------------------------
MainStep ==
  \/ \E s \in Servers : Drain(s) \/ GiveUp(s)
  \/ CloseDatabase \/ CloseBroker \/ Exit

LifecycleNext ==
  \/ Signal \/ Expire \/ MainStep
  \/ \E w \in Workers : Quit(w)
  \/ Refuse
  \/ \E r \in Requests : RefuseRaw(r)
  \/ PipelineStep

\* The timer of shutCtx fires and main goes on.  Nothing is assumed of the handlers
\* main waits for, nor of the connections: no fairness of Drain.
\* Until the signal, the scheduler runs the workers and the handlers of requests that
\* have arrived; SyncContact returns because its attempts and backoffs do.  No client is
\* obliged to post anything, and nobody to stop the process.
WhileRunning(step) == main = "running" /\ step /\ UNCHANGED lifeVars
LifecycleFairness ==
  /\ WF_lifecycleVars(Expire)
  /\ WF_lifecycleVars(\E s \in Servers : GiveUp(s))
  /\ WF_lifecycleVars(CloseDatabase \/ CloseBroker \/ Exit)
  /\ WF_lifecycleVars(WhileRunning(FraudStep))
  /\ WF_lifecycleVars(WhileRunning(MarketingStep))

LifecycleSpec == LifecycleInit /\ [][LifecycleNext]_lifecycleVars /\ LifecycleFairness

-------------------------------------------------------------------------------
(* Properties. *)

\* main.go: "Shutting down modular monolith services gracefully": unless the deadline
\* has passed, the database and the broker are closed under no handler, and the process
\* ends with none under way, whatever was posted while the servers went down one by one.
ServedUnlessLate ==
  main \in {"db", "broker", "return", "exit"} /\ ~expired => \A s \in Servers : ~Busy(s)

\* The process told to stop does stop, although handlers may hang, workers may be in the
\* middle of an event and clients may go on posting.
ShutdownEnds == Signalled ~> main = "exit"

\* Every event that was published is in exactly one place, at any time and also when
\* the process has ended: dropped by a full channel, queued, in a worker's hands, refused
\* after the signal, or handled.  No shutdown loses one that is not accounted for or has
\* one handled twice.
Places == <<lost["raw"], Range(rawQ), InHand(fraud), cut, lost["screened"],
            Range(screenedQ), InHand(mkt), handled>>
EachEventOnce ==
  \A r \in Requests :
    Cardinality({i \in DOMAIN Places : r \in Places[i]})
      = IF req[r] \in {"published", "accepted"} THEN 1 ELSE 0

\* Until the process is told to stop, every event the fraud worker's channel took is
\* screened and, unless the marketing worker's channel drops it, handled there, although
\* saving it, counting it or syncing it may fail.
EveryEventHandled ==
  \A r \in Requests :
    r \in Range(rawQ) ~> (r \in handled \cup lost["screened"] \/ Signalled)
===============================================================================
