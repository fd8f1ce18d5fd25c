------------------------------ MODULE MCPipeline ------------------------------
(* A small instance of Pipeline for TLC. *)
EXTENDS Pipeline, TLC

CONSTANTS u1, u2, e1, e2, e3

MCUsers == {u1, u2}
MCIds == {e1, e2, e3}
MCKinds == {"click", "signup", "page_view"}
MCTracking == {"click"}
MCWorkflows == {"signup"}

\* A workflow event, a tracked one with and without consent, and another user's
\* event that reuses an id.
MCInputs == {
  [id |-> e1, user |-> u1, kind |-> "signup", consent |-> TRUE],
  [id |-> e2, user |-> u1, kind |-> "click", consent |-> TRUE],
  [id |-> e3, user |-> u1, kind |-> "click", consent |-> FALSE],
  [id |-> e1, user |-> u2, kind |-> "signup", consent |-> FALSE]}

Symmetry == Permutations(Requests) \cup Permutations(Purges)
===============================================================================
