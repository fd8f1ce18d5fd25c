------------------------------ MODULE MCLifecycle ------------------------------
(* A small instance of Lifecycle for TLC. *)
EXTENDS Lifecycle

CONSTANTS u1, e1

MCUsers == {u1}
MCIds == {e1}
MCKinds == {"signup"}
MCWorkflows == {"signup"}
MCInputs == {[id |-> e1, user |-> u1, kind |-> "signup", consent |-> TRUE]}

\* What the clients do: two requests, or one and a purge; one of either on PostgreSQL,
\* where every statement may fail.  The requests carry equal events and come in order.
Posts ==
  /\ Cardinality({r \in Requests : req[r] # "new"})
       + Cardinality({g \in Purges : purge[g].at # "new"})
       <= (IF store = "postgres" THEN 1 ELSE 2)
  /\ \A r, q \in Requests : r < q /\ req[q] # "new" => req[r] # "new"

MCSpec ==
  LifecycleInit /\ [][LifecycleNext /\ Posts']_lifecycleVars /\ LifecycleFairness
===============================================================================
