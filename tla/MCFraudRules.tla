----------------------------- MODULE MCFraudRules -----------------------------
(* A small instance of FraudRules for TLC. *)
EXTENDS FraudRules, TLC

CONSTANTS u1, u2, n1, h1, h2, A, B

MCUsers == {u1, u2}
MCNets == {n1, ZeroNet}
MCHosts == {h1, h2}
MCCountries == {A, B}
MCAgents == {"browser", "bot", ""}

Input(user, client, country, agent) ==
  [user |-> user, client |-> client, country |-> country, agent |-> agent]

\* A traveller from two hosts of a network, the same without a country, another
\* user beside him, an address that cannot be parsed, and the other agents.
MCInputs == {
  Input(u1, <<n1, h1>>, A, "browser"),
  Input(u1, <<n1, h2>>, B, "browser"),
  Input(u1, <<n1, h1>>, NoCountry, ""),
  Input(u2, <<n1, h2>>, A, "bot"),
  Input(u1, Unparsable, B, ""),
  Input(u2, <<ZeroNet, h1>>, B, "browser")}

\* Two users with addresses of their own in one network.
MCNeighbours == {
  Input(u1, <<n1, h1>>, A, "browser"),
  Input(u2, <<n1, h2>>, A, "browser")}
===============================================================================
