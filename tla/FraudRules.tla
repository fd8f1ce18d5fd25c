------------------------------ MODULE FraudRules ------------------------------
(***************************************************************************)
(* The rules engine of pkg/domain/fraud: BotRule, RateLimitRule and        *)
(* GeoVelocityRule over one RuleState, applied by ScreenEvent.  One worker *)
(* goroutine screens the events one after the other, so a screening is one *)
(* step.  Both history rules read the clock of the screening, never the    *)
(* event's own timestamp.                                                  *)
(*                                                                         *)
(* A client address is a host in a network, or text net.ParseIP refuses;   *)
(* AnonymizeIP has masked it to the network before the event got here.     *)
(* Scores are in tenths.                                                   *)
(*                                                                         *)
(* The code keeps a network's stamps in a slice, whose order nothing reads;*)
(* here they are a set, and the serial number of its screening tells a     *)
(* stamp from the others of the same time.                                 *)
(***************************************************************************)
EXTENDS Integers, Sequences, FiniteSets

CONSTANTS
  Users,
  Nets,        \* networks: what is left of an address after masking
  Hosts,       \* hosts of a network
  Unparsable,  \* an address net.ParseIP refuses
  ZeroNet,     \* 0.0.0.0
  Countries,
  NoCountry,   \* the payload has no country, or not a string
  Agents,      \* user agents: "browser", "bot" or "" (empty)
  Inputs,      \* the events that may arrive
  RateLimit,   \* events allowed in a window: 10
  RateWindow,  \* 5 seconds
  GeoWindow,   \* 10 seconds
  MaxEvents,   \* bound on the events screened
  MaxTime      \* bound on the clock

Clients == (Nets \X Hosts) \cup {Unparsable}
Arriving == [user : Users, client : Clients, country : Countries \cup {NoCountry},
             agent : Agents]

ASSUME FraudAssumption ==
  /\ Inputs \subseteq Arriving
  /\ Agents \subseteq {"browser", "bot", ""}
  /\ NoCountry \notin Countries
  /\ ZeroNet \in Nets
  /\ Unparsable \notin Nets \X Hosts
  /\ RateLimit \in Nat
  /\ RateWindow \in Nat \ {0}
  /\ GeoWindow \in Nat \ {0}
  /\ MaxEvents \in Nat
  /\ MaxTime \in Nat

VARIABLES
  now,          \* the clock
  ipHistory,    \* network -> RuleState.IPHistory, the stamps of the window's events
  userHistory,  \* user -> RuleState.UserHistory: last country and time
  log           \* the screened events in order, with the flags of the rules

vars == <<now, ipHistory, userHistory, log>>

Score == 0..10
Stamp == (0..MaxTime) \X (1..MaxEvents)
Screened ==
  [ev : Inputs, at : 0..MaxTime, bot : BOOLEAN, rate : BOOLEAN, geo : BOOLEAN,
   score : Score, fraud : BOOLEAN]
NoHistory == [country |-> NoCountry, at |-> 0]

TypeOK ==
  /\ now \in 0..MaxTime
  /\ ipHistory \in [Nets -> SUBSET Stamp]
  /\ userHistory \in [Users -> [country : Countries \cup {NoCountry}, at : 0..MaxTime]]
  /\ log \in Seq(Screened)

Init ==
  /\ now = 0
  /\ ipHistory = [n \in Nets |-> {}]
  /\ userHistory = [u \in Users |-> NoHistory]
  /\ log = <<>>

-------------------------------------------------------------------------------
\* AnonymizeIP.
Mask(client) == IF client = Unparsable THEN ZeroNet ELSE client[1]

\* BotRule: an agent signature, or less for an empty one.
IsBot(e) == e.agent = "bot"
BotScore(e) == IF IsBot(e) THEN 8 ELSE IF e.agent = "" THEN 4 ELSE 0

\* RateLimitRule: the stamps younger than the window, and this event's.
\* Variant: a stamp as old as the window still counts.
ThisStamp == <<now, Len(log) + 1>>
ActiveStamps_Inclusive(n) == {s \in ipHistory[n] : now - s[1] <= RateWindow} \cup {ThisStamp}
ActiveStamps(n) == {s \in ipHistory[n] : now - s[1] < RateWindow} \cup {ThisStamp}

ExceedsRate(n) == Cardinality(ActiveStamps(n)) > RateLimit

\* GeoVelocityRule: the user moved to another country within the window.
MovedTooFast(e) ==
  /\ e.country # NoCountry
  /\ userHistory[e.user].country # NoCountry
  /\ userHistory[e.user].country # e.country
  /\ now - userHistory[e.user].at < GeoWindow

\* A flagged event returns before the history is written.
\* Variant: only an event that changes the country writes it.
RememberCountry_OnChange(e) ==
  userHistory' =
    IF e.country = NoCountry \/ MovedTooFast(e) \/ userHistory[e.user].country = e.country
      THEN userHistory
      ELSE [userHistory EXCEPT ![e.user] = [country |-> e.country, at |-> now]]
RememberCountry(e) ==
  userHistory' =
    IF e.country = NoCountry \/ MovedTooFast(e)
      THEN userHistory
      ELSE [userHistory EXCEPT ![e.user] = [country |-> e.country, at |-> now]]

\* The sum ScreenEvent compares with 0.5.
Sum(e) ==
  BotScore(e) + (IF ExceedsRate(Mask(e.client)) THEN 7 ELSE 0)
    + (IF MovedTooFast(e) THEN 9 ELSE 0)

\* The verdict, and the score capped at 1.0.
\* Variants: no rule alone suffices; the cap is missing.
IsFraud_Strict(e) == Sum(e) > 8
IsFraud(e) == Sum(e) >= 5
Capped_Not(s) == s
Capped(s) == IF s > 10 THEN 10 ELSE s

ScreenEvent(e) ==
  /\ Len(log) < MaxEvents
  /\ ipHistory' = [ipHistory EXCEPT ![Mask(e.client)] = ActiveStamps(Mask(e.client))]
  /\ RememberCountry(e)
  /\ log' = Append(log, [ev |-> e, at |-> now, bot |-> IsBot(e),
                         rate |-> ExceedsRate(Mask(e.client)), geo |-> MovedTooFast(e),
                         score |-> Capped(Sum(e)), fraud |-> IsFraud(e)])
  /\ UNCHANGED now

Tick ==
  /\ now < MaxTime
  /\ now' = now + 1
  /\ UNCHANGED <<ipHistory, userHistory, log>>

Next == Tick \/ \E e \in Inputs : ScreenEvent(e)

Spec == Init /\ [][Next]_vars

-------------------------------------------------------------------------------
(* Properties. *)

\* The events of log up to the i-th, and those of one network in the window that
\* ends with it: the reference definition of a sliding window.
NetOf(i) == Mask(log[i].ev.client)
WindowOf(i) == {j \in 1..i : NetOf(j) = NetOf(i) /\ log[i].at - log[j].at < RateWindow}

\* The pruned history decides as the whole log would: an event is over the rate
\* exactly when its masked network had more than RateLimit events, itself included,
\* in the window that ends with it, flagged ones counted too.  Ingest masked the
\* address before, so the window is a network's: RateCountsOneAddress is not implied.
RateIsSlidingWindow ==
  \A i \in DOMAIN log : log[i].rate <=> Cardinality(WindowOf(i)) > RateLimit

\* Of the events of a user that the geo rule let pass, no two with different
\* countries are closer than GeoWindow, also when flagged ones, which leave no
\* trace in the history, came between them.
Located(i) == log[i].ev.country # NoCountry /\ ~log[i].geo
NoFastTravel ==
  \A i, j \in DOMAIN log :
    (/\ i < j
     /\ log[i].ev.user = log[j].ev.user
     /\ Located(i)
     /\ Located(j)
     /\ log[i].ev.country # log[j].ev.country)
    => log[j].at - log[i].at >= GeoWindow

\* The verdict taken before the cap agrees with the stored score, and each of the
\* rules suffices for it alone while an empty user agent does not.
VerdictJustified ==
  \A i \in DOMAIN log :
    /\ log[i].fraud <=> log[i].score >= 5
    /\ log[i].fraud <=> (log[i].bot \/ log[i].rate \/ log[i].geo)

\* .project-context.md: "Same IP has >10 events within a 5-second sliding window": an
\* event is over the rate only when the address it came from had that many itself.
SameAddress(i) ==
  {j \in WindowOf(i) : log[j].ev.client = log[i].ev.client}
RateCountsOneAddress ==
  \A i \in DOMAIN log : log[i].rate => Cardinality(SameAddress(i)) > RateLimit

\* .project-context.md: "User's country changes within 10 seconds of last event":
\* an event whose predecessor of the same user is in another country and closer
\* than GeoWindow is flagged.
IsLastBefore(i, j) ==
  /\ i < j
  /\ log[i].ev.user = log[j].ev.user
  /\ \A k \in (i + 1)..(j - 1) : log[k].ev.user # log[j].ev.user
GeoComparesLastEvent ==
  \A i, j \in DOMAIN log :
    (/\ IsLastBefore(i, j)
     /\ NoCountry \notin {log[i].ev.country, log[j].ev.country}
     /\ log[i].ev.country # log[j].ev.country
     /\ log[j].at - log[i].at < GeoWindow)
    => log[j].geo
===============================================================================
