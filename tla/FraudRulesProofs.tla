--------------------------- MODULE FraudRulesProofs ---------------------------
(***************************************************************************)
(* Proofs about the rules of FraudRules, for every set of users, networks, *)
(* countries and inputs, every limit, window and bound.                    *)
(*                                                                         *)
(* The rate rule decides from a history it has pruned many times, its      *)
(* definition speaks of the whole log: RateInv says which stamps of the    *)
(* log the history still holds.                                            *)
(*                                                                         *)
(* NoFastTravel speaks of all pairs of located events, the rule compares   *)
(* with one remembered event only.  HistoryCoversLog carries the argument: *)
(* whatever was located before is either in the remembered country or at   *)
(* least GeoWindow older than the remembered time.                         *)
(***************************************************************************)
EXTENDS FraudRules, FiniteSetTheorems, TLAPS

-------------------------------------------------------------------------------
(* Types. *)

\* The entry that a screening of e appends to the log.
Entry(e) ==
  [ev |-> e, at |-> now, bot |-> IsBot(e), rate |-> ExceedsRate(Mask(e.client)),
   geo |-> MovedTooFast(e), score |-> Capped(Sum(e)), fraud |-> IsFraud(e)]

LEMMA Bounds ==
  /\ RateWindow \in Nat \ {0} /\ GeoWindow \in Nat \ {0}
  /\ MaxTime \in Nat /\ MaxEvents \in Nat
BY FraudAssumption DEF FraudAssumption

LEMMA InputType ==
  ASSUME NEW e \in Inputs
  PROVE  /\ e.user \in Users /\ e.country \in Countries \cup {NoCountry}
         /\ e.agent \in {"browser", "bot", ""} /\ Mask(e.client) \in Nets
<1>1. e \in Arriving /\ Agents \subseteq {"browser", "bot", ""} /\ ZeroNet \in Nets
  BY FraudAssumption DEF FraudAssumption
<1>2. e.client \in Clients
  BY <1>1 DEF Arriving
<1>3. Mask(e.client) \in Nets
  BY <1>1, <1>2 DEF Mask, Clients
<1>. QED
  BY <1>1, <1>3 DEF Arriving

\* The sum a screening compares, by the rules that fired.
LEMMA SumOfRules ==
  ASSUME NEW e
  PROVE  /\ Sum(e) \in Nat /\ Capped(Sum(e)) \in Score
         /\ Sum(e) >= 5 <=> IsBot(e) \/ ExceedsRate(Mask(e.client)) \/ MovedTooFast(e)
         /\ Capped(Sum(e)) >= 5 <=> Sum(e) >= 5
<1>. DEFINE rate == IF ExceedsRate(Mask(e.client)) THEN 7 ELSE 0
            geo == IF MovedTooFast(e) THEN 9 ELSE 0
<1>1. BotScore(e) \in {0, 4, 8} /\ (BotScore(e) = 8 <=> IsBot(e))
  BY DEF BotScore
<1>2. /\ rate \in {0, 7} /\ (rate = 7 <=> ExceedsRate(Mask(e.client)))
      /\ geo \in {0, 9} /\ (geo = 9 <=> MovedTooFast(e))
  OBVIOUS
<1>3. Sum(e) = BotScore(e) + rate + geo
  BY DEF Sum
<1>. HIDE DEF rate, geo
<1>4. Sum(e) \in Nat /\ (Sum(e) >= 5 <=> BotScore(e) = 8 \/ rate = 7 \/ geo = 9)
  BY <1>1, <1>2, <1>3
<1>5. Capped(Sum(e)) \in Score /\ (Capped(Sum(e)) >= 5 <=> Sum(e) >= 5)
  BY <1>4 DEF Capped, Score
<1>. QED
  BY <1>1, <1>2, <1>4, <1>5

\* The entries of the log are screened inputs.
LEMMA LogEntries ==
  ASSUME TypeOK, NEW i \in DOMAIN log
  PROVE  log[i].ev \in Inputs /\ log[i].at \in Nat /\ log[i].ev.user \in Users
<1>1. log[i] \in Screened
  BY DEF TypeOK
<1>2. log[i].ev \in Inputs /\ log[i].at \in 0..MaxTime
  BY <1>1 DEF Screened
<1>3. log[i].at \in Nat
  BY <1>2, Bounds
<1>. QED
  BY <1>2, <1>3, InputType

LEMMA Clocks ==
  ASSUME TypeOK
  PROVE  /\ now \in Nat /\ \A u \in Users : userHistory[u].at \in Nat
         /\ DOMAIN log = 1..Len(log) /\ Len(log) \in Nat
<1>1. now \in 0..MaxTime
  BY DEF TypeOK
<1>2. \A u \in Users : userHistory[u].at \in 0..MaxTime
  BY DEF TypeOK
<1>3. DOMAIN log = 1..Len(log) /\ Len(log) \in Nat
  BY DEF TypeOK
<1>. QED
  BY <1>1, <1>2, <1>3, Bounds

\* What one screening appends.
LEMMA Appended ==
  ASSUME NEW e \in Inputs, TypeOK, ScreenEvent(e)
  PROVE  /\ Len(log') = Len(log) + 1
         /\ \A i \in DOMAIN log : i \in DOMAIN log' /\ log'[i] = log[i]
         /\ DOMAIN log' = DOMAIN log \cup {Len(log) + 1}
         /\ log'[Len(log) + 1] = Entry(e)
         /\ log'[Len(log) + 1].ev = e
         /\ log'[Len(log) + 1].at = now
         /\ log'[Len(log) + 1].geo = MovedTooFast(e)
<1>1. log' = Append(log, Entry(e)) /\ log \in Seq(Screened)
  BY DEF TypeOK, ScreenEvent, Entry
<1>2. log'[Len(log) + 1] = Entry(e)
  BY <1>1
<1>. QED
  BY <1>1, <1>2 DEF Entry

LEMMA Typing == ASSUME TypeOK, [Next]_vars PROVE TypeOK'
<1>1. CASE Tick
  <2>1. now' \in 0..MaxTime
    BY <1>1, Bounds, Clocks DEF Tick, TypeOK
  <2>. QED
    BY <1>1, <2>1 DEF TypeOK, Tick
<1>2. ASSUME NEW e \in Inputs, ScreenEvent(e) PROVE TypeOK'
  <2>1. e.user \in Users /\ e.country \in Countries \cup {NoCountry} /\ Mask(e.client) \in Nets
    BY InputType
  <2>2. Entry(e) \in Screened
    BY SumOfRules DEF Entry, Screened, TypeOK, IsBot, ExceedsRate, MovedTooFast, IsFraud
  <2>3. log' \in Seq(Screened)
    BY <1>2, <2>2 DEF ScreenEvent, TypeOK, Entry
  <2>4. userHistory' \in [Users -> [country : Countries \cup {NoCountry}, at : 0..MaxTime]]
    BY <1>2, <2>1 DEF ScreenEvent, RememberCountry, TypeOK
  <2>5. ThisStamp \in Stamp
    BY <1>2, Bounds, Clocks DEF ThisStamp, Stamp, ScreenEvent, TypeOK
  <2>6. ActiveStamps(Mask(e.client)) \subseteq Stamp
    BY <2>1, <2>5 DEF ActiveStamps, TypeOK
  <2>7. ipHistory' \in [Nets -> SUBSET Stamp]
    BY <1>2, <2>6 DEF ScreenEvent, TypeOK
  <2>. QED
    BY <1>2, <2>3, <2>4, <2>7 DEF ScreenEvent, TypeOK
<1>3. CASE UNCHANGED vars
  BY <1>3 DEF TypeOK, vars
<1>. QED
  BY <1>1, <1>2, <1>3 DEF Next

LEMMA FraudStart == Init => TypeOK /\ log = <<>>
<1>. SUFFICES ASSUME Init PROVE TypeOK /\ log = <<>>
  OBVIOUS
<1>1. now \in 0..MaxTime /\ log = <<>> /\ log \in Seq(Screened)
  BY Bounds DEF Init
<1>2. ipHistory \in [Nets -> SUBSET Stamp]
  BY DEF Init
<1>3. NoHistory \in [country : Countries \cup {NoCountry}, at : 0..MaxTime]
  BY Bounds DEF NoHistory
<1>4. userHistory \in [Users -> [country : Countries \cup {NoCountry}, at : 0..MaxTime]]
  BY <1>3 DEF Init
<1>. QED
  BY <1>1, <1>2, <1>4 DEF TypeOK

LEMMA TypedAlways == Spec => []TypeOK
BY FraudStart, Typing, PTL DEF Spec

\* Type correctness of the rule state and of the log of verdicts.
THEOREM FraudTyping == Spec => []TypeOK
BY TypedAlways, PTL

-------------------------------------------------------------------------------
(* The verdict. *)

\* Whatever the rules add up to, the verdict agrees with the stored score, and one rule
\* suffices for it while an empty user agent does not (FraudService.ScreenEvent).
THEOREM VerdictsJustified == Spec => []VerdictJustified
<1>1. Init => VerdictJustified
  BY FraudStart DEF VerdictJustified
<1>2. TypeOK /\ VerdictJustified /\ [Next]_vars => VerdictJustified'
  <2>. SUFFICES ASSUME TypeOK, VerdictJustified, [Next]_vars PROVE VerdictJustified'
    OBVIOUS
  <2>1. CASE UNCHANGED log
    BY <2>1 DEF VerdictJustified
  <2>2. ASSUME NEW e \in Inputs, ScreenEvent(e) PROVE VerdictJustified'
    <3>. SUFFICES ASSUME NEW i \in DOMAIN log'
                  PROVE  /\ log'[i].fraud <=> log'[i].score >= 5
                         /\ log'[i].fraud <=> (log'[i].bot \/ log'[i].rate \/ log'[i].geo)
      BY DEF VerdictJustified
    <3>1. CASE i \in DOMAIN log
      BY <2>2, <3>1, Appended DEF VerdictJustified
    <3>2. CASE i = Len(log) + 1
      <4>1. log'[i] = Entry(e)
        BY <2>2, <3>2, Appended
      <4>2. /\ log'[i].fraud = IsFraud(e) /\ log'[i].score = Capped(Sum(e))
            /\ log'[i].bot = IsBot(e) /\ log'[i].rate = ExceedsRate(Mask(e.client))
            /\ log'[i].geo = MovedTooFast(e)
        BY <4>1 DEF Entry
      <4>3. /\ IsFraud(e) <=> Capped(Sum(e)) >= 5
            /\ IsFraud(e) <=> IsBot(e) \/ ExceedsRate(Mask(e.client)) \/ MovedTooFast(e)
        BY SumOfRules DEF IsFraud
      <4>. QED
        BY <4>2, <4>3
    <3>. QED
      BY <2>2, <3>1, <3>2, Appended
  <2>. QED
    BY <2>1, <2>2 DEF Next, Tick, vars
<1>. QED
  BY <1>1, <1>2, TypedAlways, PTL DEF Spec

-------------------------------------------------------------------------------
(* The rate rule. *)

\* A history holds stamps of its own network's events only.
StampsOfLog ==
  \A n \in Nets : \A s \in ipHistory[n] :
    s[2] \in DOMAIN log /\ s = <<log[s[2]].at, s[2]>> /\ NetOf(s[2]) = n

\* It holds every one that is still in the window.
RecentKept ==
  \A j \in DOMAIN log :
    now - log[j].at < RateWindow => <<log[j].at, j>> \in ipHistory[NetOf(j)]

RateInv == TypeOK /\ StampsOfLog /\ RecentKept /\ RateIsSlidingWindow

\* The history and the log count the same events of the window.
LEMMA WindowCount ==
  ASSUME RateInv, NEW e \in Inputs, ScreenEvent(e), NEW i, i = Len(log) + 1
  PROVE  Cardinality(ActiveStamps(Mask(e.client))) = Cardinality(WindowOf(i)')
<1>. DEFINE net == Mask(e.client)
            window == WindowOf(i)'
            f == [j \in window |-> <<log'[j].at, j>>]
<1>1. /\ DOMAIN log = 1..(i - 1) /\ i \in Nat \ {0} /\ now \in Nat /\ RateWindow \in Nat \ {0}
      /\ log'[i].ev = e /\ log'[i].at = now
      /\ \A j \in 1..(i - 1) : log'[j] = log[j] /\ log[j].at \in Nat
  BY Bounds, Clocks, Appended, LogEntries DEF RateInv
<1>2. net \in Nets
  BY InputType
<1>3. window = {j \in 1..i : Mask(log'[j].ev.client) = net /\ now - log'[j].at < RateWindow}
  BY <1>1 DEF WindowOf, NetOf
<1>4. ASSUME NEW j \in window PROVE f[j] \in ActiveStamps(net)
  <2>1. j \in 1..i /\ Mask(log'[j].ev.client) = net /\ now - log'[j].at < RateWindow
    BY <1>3
  <2>2. CASE j = i
    BY <1>1, <2>2 DEF ActiveStamps, ThisStamp
  <2>3. CASE j \in 1..(i - 1)
    <3>1. j \in DOMAIN log /\ log'[j] = log[j] /\ NetOf(j) = net
      BY <1>1, <2>1, <2>3 DEF NetOf
    <3>2. <<log[j].at, j>> \in ipHistory[net]
      BY <2>1, <3>1 DEF RateInv, RecentKept
    <3>. QED
      BY <2>1, <3>1, <3>2 DEF ActiveStamps
  <2>. QED
    BY <1>1, <2>1, <2>2, <2>3
<1>5. ASSUME NEW s \in ActiveStamps(net) PROVE \E j \in window : f[j] = s
  <2>1. CASE s = ThisStamp
    <3>1. i \in window
      BY <1>1, <1>3
    <3>2. f[i] = s
      BY <1>1, <2>1, <3>1 DEF ThisStamp
    <3>. QED
      BY <3>1, <3>2
  <2>2. CASE s \in ipHistory[net] /\ now - s[1] < RateWindow
    <3>1. s[2] \in DOMAIN log /\ s = <<log[s[2]].at, s[2]>> /\ NetOf(s[2]) = net
      BY <1>2, <2>2 DEF RateInv, StampsOfLog
    <3>2. s[2] \in 1..i /\ log'[s[2]] = log[s[2]]
      BY <1>1, <3>1
    <3>3. s[2] \in window
      BY <1>3, <2>2, <3>1, <3>2 DEF NetOf
    <3>. QED
      BY <3>1, <3>2, <3>3
  <2>. QED
    BY <2>1, <2>2 DEF ActiveStamps
<1>6. \A j, k \in window : f[j] = f[k] => j = k
  OBVIOUS
<1>7. f \in Bijection(window, ActiveStamps(net))
  <2>1. f \in [window -> ActiveStamps(net)]
    BY <1>4
  <2>. HIDE DEF f, window
  <2>2. f \in Injection(window, ActiveStamps(net))
    BY <1>6, <2>1 DEF Injection, IsInjective
  <2>3. f \in Surjection(window, ActiveStamps(net))
    BY <1>5, <2>1 DEF Surjection
  <2>. QED
    BY <2>2, <2>3 DEF Bijection
<1>8. IsFiniteSet(window)
  <2>1. window \subseteq 1..i
    BY <1>3
  <2>2. IsFiniteSet(1..i)
    BY <1>1, FS_Interval
  <2>. HIDE DEF window
  <2>. QED
    BY <2>1, <2>2, FS_Subset
<1>. HIDE DEF f, window
<1>9. Cardinality(ActiveStamps(net)) = Cardinality(window)
  BY <1>7, <1>8, FS_Bijection DEF ExistsBijection
<1>. QED
  BY <1>9 DEF window

\* Later entries do not change the window of an earlier one.
LEMMA WindowStays ==
  ASSUME TypeOK, NEW e \in Inputs, ScreenEvent(e), NEW i \in DOMAIN log
  PROVE  WindowOf(i)' = WindowOf(i)
<1>1. \A j \in 1..i : log'[j] = log[j]
  BY Appended, Bounds, Clocks
<1>2. i \in 1..i
  BY Bounds, Clocks
<1>. QED
  BY <1>1, <1>2 DEF WindowOf, NetOf

LEMMA RateStep == ASSUME RateInv, [Next]_vars PROVE RateInv'
<1>1. TypeOK'
  BY Typing DEF RateInv
<1>2. CASE Tick
  <2>1. now' = now + 1 /\ now \in Nat /\ RateWindow \in Nat /\ UNCHANGED <<log, ipHistory>>
    BY <1>2, Bounds, Clocks DEF Tick, RateInv
  <2>2. \A j \in DOMAIN log : log[j].at \in Nat
    BY LogEntries DEF RateInv
  <2>3. RecentKept'
    BY <2>1, <2>2 DEF RateInv, RecentKept, NetOf
  <2>. QED
    BY <1>1, <2>1, <2>3 DEF RateInv, StampsOfLog, RateIsSlidingWindow, WindowOf, NetOf
<1>3. ASSUME NEW e \in Inputs, ScreenEvent(e) PROVE RateInv'
  <2>. DEFINE net == Mask(e.client)
              i == Len(log) + 1
  <2>1. /\ ipHistory' = [ipHistory EXCEPT ![net] = ActiveStamps(net)] /\ now' = now
        /\ net \in Nets /\ ipHistory \in [Nets -> SUBSET Stamp]
    BY <1>3, InputType DEF ScreenEvent, RateInv, TypeOK
  <2>2. /\ \A j \in DOMAIN log : j \in DOMAIN log' /\ log'[j] = log[j]
        /\ DOMAIN log' = DOMAIN log \cup {i}
        /\ log'[i].ev = e /\ log'[i].at = now /\ log'[i] = Entry(e)
    BY <1>3, Appended DEF RateInv
  <2>. Entry(e).rate = ExceedsRate(net)
    BY DEF Entry
  <2>3. StampsOfLog'
    <3>. SUFFICES ASSUME NEW n \in Nets, NEW s \in ipHistory'[n]
                  PROVE  /\ s[2] \in DOMAIN log' /\ s = <<log'[s[2]].at, s[2]>>
                         /\ Mask(log'[s[2]].ev.client) = n
      BY DEF StampsOfLog, NetOf
    <3>1. CASE s \in ipHistory[n]
      <4>1. s[2] \in DOMAIN log /\ s = <<log[s[2]].at, s[2]>> /\ NetOf(s[2]) = n
        BY <3>1 DEF RateInv, StampsOfLog
      <4>. QED
        BY <2>2, <4>1 DEF NetOf
    <3>2. CASE n = net /\ s = ThisStamp
      BY <2>2, <3>2 DEF ThisStamp
    <3>. QED
      BY <2>1, <3>1, <3>2 DEF ActiveStamps
  <2>4. RecentKept'
    <3>. SUFFICES ASSUME NEW j \in DOMAIN log', now - log'[j].at < RateWindow
                  PROVE  <<log'[j].at, j>> \in ipHistory'[Mask(log'[j].ev.client)]
      BY <2>1 DEF RecentKept, NetOf
    <3>1. CASE j \in DOMAIN log
      <4>1. log'[j] = log[j] /\ <<log[j].at, j>> \in ipHistory[NetOf(j)]
        BY <2>2, <3>1 DEF RateInv, RecentKept
      <4>2. NetOf(j) \in Nets
        BY <3>1, LogEntries, InputType DEF RateInv, NetOf
      <4>. QED
        BY <2>1, <4>1, <4>2 DEF ActiveStamps, NetOf
    <3>2. CASE j = i
      BY <2>1, <2>2, <3>2 DEF ActiveStamps, ThisStamp
    <3>. QED
      BY <2>2, <3>1, <3>2
  <2>5. RateIsSlidingWindow'
    <3>. SUFFICES ASSUME NEW j \in DOMAIN log'
                  PROVE  log'[j].rate <=> Cardinality(WindowOf(j)') > RateLimit
      BY DEF RateIsSlidingWindow
    <3>1. CASE j \in DOMAIN log
      <4>1. WindowOf(j)' = WindowOf(j)
        BY <1>3, <3>1, WindowStays DEF RateInv
      <4>. QED
        BY <2>2, <3>1, <4>1 DEF RateInv, RateIsSlidingWindow
    <3>2. CASE j = i
      BY <1>3, <2>2, <3>2, WindowCount DEF ExceedsRate
    <3>. QED
      BY <2>2, <3>1, <3>2
  <2>. QED
    BY <1>1, <2>3, <2>4, <2>5 DEF RateInv
<1>4. CASE UNCHANGED vars
  BY <1>1, <1>4
  DEF vars, RateInv, StampsOfLog, RecentKept, RateIsSlidingWindow, WindowOf, NetOf
<1>. QED
  BY <1>2, <1>3, <1>4 DEF Next

\* The pruned history of a masked address flags an event exactly when the window that
\* ends with it holds more than RateLimit events (RateLimitRule.Evaluate), for every
\* limit, window and sequence of events.
THEOREM RateIsExact == Spec => []RateIsSlidingWindow
<1>1. Init => RateInv
  <2>. SUFFICES ASSUME Init PROVE RateInv
    OBVIOUS
  <2>1. TypeOK /\ DOMAIN log = {} /\ \A n \in Nets : ipHistory[n] = {}
    BY FraudStart DEF Init
  <2>. QED
    BY <2>1 DEF RateInv, StampsOfLog, RecentKept, RateIsSlidingWindow
<1>2. RateInv => RateIsSlidingWindow
  BY DEF RateInv
<1>. QED
  BY <1>1, <1>2, RateStep, PTL DEF Spec

-------------------------------------------------------------------------------
(* The geo-velocity rule. *)

\* The remembered location of a user stands for all located events before it.
HistoryCoversLog ==
  \A i \in DOMAIN log :
    LET h == userHistory[log[i].ev.user]
    IN  Located(i) =>
          /\ h.country # NoCountry
          /\ log[i].at <= h.at
          /\ h.at <= now
          /\ log[i].ev.country # h.country => h.at - log[i].at >= GeoWindow

GeoInv == TypeOK /\ HistoryCoversLog /\ NoFastTravel

\* A located event is far from the remembered one or in the same country.
LEMMA NewEventIsFar ==
  ASSUME GeoInv, NEW e \in Inputs, e.country # NoCountry, ~MovedTooFast(e),
         NEW i \in DOMAIN log, Located(i), log[i].ev.user = e.user,
         log[i].ev.country # e.country
  PROVE  now - log[i].at >= GeoWindow
<1>. DEFINE h == userHistory[e.user]
<1>1. e.user \in Users
  BY InputType
<1>2. h.at \in Nat /\ now \in Nat /\ log[i].at \in Nat /\ GeoWindow \in Nat
  BY <1>1, Bounds, Clocks, LogEntries DEF GeoInv
<1>3. /\ h.country # NoCountry
      /\ log[i].at <= h.at
      /\ h.at <= now
      /\ log[i].ev.country # h.country => h.at - log[i].at >= GeoWindow
  BY DEF GeoInv, HistoryCoversLog
<1>4. h.country = e.country \/ now - h.at >= GeoWindow
  BY <1>2, <1>3 DEF MovedTooFast
<1>. QED
  BY <1>2, <1>3, <1>4

\* The remembered location still covers the log after a screening.
LEMMA CoverStep ==
  ASSUME GeoInv, NEW e \in Inputs, ScreenEvent(e)
  PROVE  HistoryCoversLog'
<1>. SUFFICES ASSUME NEW i \in DOMAIN log', Located(i)'
     PROVE  LET h == userHistory'[log'[i].ev.user]
            IN  /\ h.country # NoCountry
                /\ log'[i].at <= h.at
                /\ h.at <= now'
                /\ log'[i].ev.country # h.country => h.at - log'[i].at >= GeoWindow
  BY DEF HistoryCoversLog
<1>. DEFINE n == Len(log) + 1
            remembered == e.country # NoCountry /\ ~MovedTooFast(e)
<1>1. TypeOK /\ now' = now
  BY DEF GeoInv, ScreenEvent
<1>2. e.user \in Users /\ now \in Nat /\ GeoWindow \in Nat
  BY <1>1, Bounds, Clocks, InputType
<1>3. CASE i = n
  <2>1. log'[i].ev = e /\ log'[i].at = now /\ remembered
    BY <1>1, <1>3, Appended DEF Located
  <2>2. userHistory'[e.user] = [country |-> e.country, at |-> now]
    BY <1>1, <1>2, <2>1 DEF ScreenEvent, RememberCountry, TypeOK
  <2>. QED
    BY <1>1, <1>2, <2>1, <2>2
<1>4. CASE i # n
  <2>1. i \in DOMAIN log /\ log'[i] = log[i] /\ Located(i)
    BY <1>1, <1>4, Appended DEF Located
  <2>2. log[i].ev.user \in Users /\ log[i].at \in Nat
    BY <1>1, <2>1, LogEntries
  <2>3. CASE remembered /\ log[i].ev.user = e.user
    <3>1. userHistory'[e.user] = [country |-> e.country, at |-> now]
      BY <1>1, <1>2, <2>3 DEF ScreenEvent, RememberCountry, TypeOK
    <3>2. log[i].at <= now
      BY <1>1, <1>2, <2>1, <2>2, <2>3 DEF GeoInv, HistoryCoversLog, TypeOK
    <3>3. log[i].ev.country # e.country => now - log[i].at >= GeoWindow
      BY <2>1, <2>3, NewEventIsFar
    <3>. QED
      BY <1>1, <1>2, <2>1, <2>3, <3>1, <3>2, <3>3
  <2>4. CASE ~(remembered /\ log[i].ev.user = e.user)
    <3>1. userHistory'[log[i].ev.user] = userHistory[log[i].ev.user]
      BY <1>1, <1>2, <2>2, <2>4 DEF ScreenEvent, RememberCountry, TypeOK
    <3>. QED
      BY <1>1, <2>1, <3>1 DEF GeoInv, HistoryCoversLog
  <2>. QED
    BY <2>3, <2>4
<1>. QED
  BY <1>3, <1>4

\* A screening adds no pair of located events that are too close.
LEMMA TravelStep ==
  ASSUME GeoInv, NEW e \in Inputs, ScreenEvent(e)
  PROVE  NoFastTravel'
<1>. SUFFICES ASSUME NEW i \in DOMAIN log', NEW j \in DOMAIN log',
                     i < j,
                     log'[i].ev.user = log'[j].ev.user,
                     Located(i)', Located(j)',
                     log'[i].ev.country # log'[j].ev.country
              PROVE  log'[j].at - log'[i].at >= GeoWindow
  BY DEF NoFastTravel
<1>1. TypeOK
  BY DEF GeoInv
<1>2. DOMAIN log = 1..Len(log) /\ Len(log) \in Nat
  BY <1>1 DEF TypeOK
<1>3. i \in DOMAIN log /\ log'[i] = log[i] /\ Located(i)
  BY <1>1, <1>2, Appended DEF Located
<1>4. CASE j = Len(log) + 1
  <2>1. log'[j].ev = e /\ log'[j].at = now /\ e.country # NoCountry /\ ~MovedTooFast(e)
    BY <1>1, <1>4, Appended DEF Located
  <2>. QED
    BY <1>3, <2>1, NewEventIsFar
<1>5. CASE j # Len(log) + 1
  <2>1. j \in DOMAIN log /\ log'[j] = log[j] /\ Located(j)
    BY <1>1, <1>5, Appended DEF Located
  <2>. QED
    BY <1>3, <2>1 DEF GeoInv, NoFastTravel
<1>. QED
  BY <1>4, <1>5

\* The inductive invariant is preserved by every step.
LEMMA GeoStep == ASSUME GeoInv, [Next]_vars PROVE GeoInv'
<1>1. TypeOK'
  BY Typing DEF GeoInv
<1>2. CASE Tick
  <2>1. UNCHANGED <<log, userHistory>> /\ now \in Nat /\ now' = now + 1
    BY <1>2, Bounds, Clocks DEF Tick, GeoInv
  <2>2. \A i \in DOMAIN log : log[i].ev.user \in Users
    BY LogEntries DEF GeoInv
  <2>3. HistoryCoversLog'
    BY <2>1, <2>2 DEF GeoInv, TypeOK, HistoryCoversLog, Located
  <2>4. NoFastTravel'
    BY <2>1 DEF GeoInv, NoFastTravel, Located
  <2>. QED
    BY <1>1, <2>3, <2>4 DEF GeoInv
<1>3. ASSUME NEW e \in Inputs, ScreenEvent(e) PROVE GeoInv'
  BY <1>1, <1>3, CoverStep, TravelStep DEF GeoInv
<1>4. CASE UNCHANGED vars
  BY <1>1, <1>4 DEF GeoInv, HistoryCoversLog, NoFastTravel, Located, vars
<1>. QED
  BY <1>2, <1>3, <1>4 DEF Next

\* No two events the geo rule let pass show a user in two countries within
\* GeoWindow, for every history of events and flags (GeoVelocityRule.Evaluate).
THEOREM FastTravelNeverPasses == Spec => []NoFastTravel
<1>1. Init => GeoInv
  <2>. SUFFICES ASSUME Init PROVE GeoInv
    OBVIOUS
  <2>1. TypeOK /\ DOMAIN log = {}
    BY FraudStart
  <2>. QED
    BY <2>1 DEF GeoInv, HistoryCoversLog, NoFastTravel
<1>2. GeoInv /\ [Next]_vars => GeoInv'
  BY GeoStep
<1>3. GeoInv => NoFastTravel
  BY DEF GeoInv
<1>. QED
  BY <1>1, <1>2, <1>3, PTL DEF Spec
===============================================================================
