----------------------------- MODULE CandleFold -----------------------------
(***************************************************************************)
(* The candle chain of one pair.  Frames of ohlc(5m) become closed 5m      *)
(* candles (CandleCloseDetector), these hours (OhlcAggregator.fold) and    *)
(* hours days (fold_hour); LiveSweepDriver steps the indicators on each    *)
(* close and heals a gap from REST, whose answer comes at a later step.    *)
(*                                                                         *)
(* Time is counted in 5m slots, hours in SlotsPerHour of them, days in     *)
(* HoursPerDay hours.  A candle is its begin and whether it is whole: the  *)
(* prices only matter as far as the last trade of the slot is in it.  An   *)
(* indicator is the hours (or days) it has counted.                        *)
(***************************************************************************)
EXTENDS Integers, Sequences, FiniteSets

CONSTANTS
    SlotsPerHour,  \* _CANDLES_PER_HOUR
    HoursPerDay,   \* _HOURS_PER_DAY
    Warmed,        \* the slots whose candle may be the last of the warm-up
    StartupSlots,  \* how long the start may take, which reads pair after pair
    MaxSlot,       \* bound on time
    MaxMissed      \* bound on the slots whose last frame is not handled

\* A REST answer takes less than a slot (its timeout is seconds), which is a
\* fraction of the hour it is about.
ASSUME CandleAssumption ==
    /\ SlotsPerHour \in Nat /\ SlotsPerHour > 2
    /\ HoursPerDay \in Nat /\ HoursPerDay > 1 /\ StartupSlots \in Nat \ {0}
    /\ Warmed \subseteq Nat /\ MaxSlot \in Nat /\ MaxMissed \in Nat
    /\ \A w \in Warmed : w >= SlotsPerHour * HoursPerDay

VARIABLES
    clock,      \* Kraken's slot in progress
    published,  \* of that slot: "nothing", a "part", or the "whole" candle
    down,       \* frames are lost, or discarded while a shard reconnects
    missed,     \* how many slots ended without their whole candle handled
    detector,   \* CandleCloseDetector._complete: the candle in progress
    stepped5,   \* LiveSweepDriver._stepped5
    corpus,     \* the candles that stepped the indicators and were persisted
    hour,       \* OhlcAggregator._buckets
    day,        \* OhlcAggregator._day_buckets
    htf,        \* PairWarmup.htf: the hours its EMAs count
    stepped60,  \* LiveSweepDriver._stepped60
    decision,   \* DailyDecisionStore: the days its EMAs count
    heals,      \* REST calls under way
    trend,      \* EMA(fast) > EMA(slow) once a day is counted
    log,        \* what fold and fold_hour returned
    entries,    \* the days whose close ran the entry gates
    warmed      \* history: the last candle of the warm-up

chain == <<detector, stepped5, corpus, hour, day, htf, stepped60, decision, entries, log>>
vars == <<clock, published, down, missed, heals, trend, warmed, chain>>

-----------------------------------------------------------------------------
(* Indicators: seeded over everything up to base, then stepped in order. *)

NoCache == [base |-> -1, steps |-> <<>>]
Latest(x) == IF x.steps = <<>> THEN x.base ELSE x.steps[Len(x.steps)]
Stepped(x, n) == [x EXCEPT !.steps = Append(@, n)]
Counts(x, n) == n <= x.base \/ \E i \in DOMAIN x.steps : x.steps[i] = n

\* The last complete hour and day at slot t: parse_ohlc splits off the forming
\* candle.
CompleteHours(t) == t \div SlotsPerHour - 1

\* Mutant: the forming day is left in.
FormingDays(t) == t \div (SlotsPerHour * HoursPerDay)

CompleteDays(t) == t \div (SlotsPerHour * HoursPerDay) - 1

-----------------------------------------------------------------------------
(* Buckets, of n slots each: the hour and the day fold alike.              *)

\* No bucket yet: like one that has been emitted and rolls over.
NoBucket == [at |-> -1, candles |-> <<>>, emitted |-> TRUE]

Begins(b) == {b.candles[i].begin : i \in DOMAIN b.candles}

\* Mutant: the last slot is not asked for.
IsCompleteEarly(b, n) ==
    /\ Cardinality(Begins(b)) = n - 1
    /\ b.at * n \in Begins(b)

\* is_complete: n distinct begins, from the first slot to the last.  All lie in
\* the bucket, so the first slot is the least of them if it is there at all.
IsComplete(b, n) ==
    /\ Cardinality(Begins(b)) = n
    /\ {b.at * n, b.at * n + n - 1} \subseteq Begins(b)

\* fold_1h, fold_24h: whole only if each candle of it is.
Folded(b) == [begin |-> b.at, whole |-> \A i \in DOMAIN b.candles : b.candles[i].whole]

Closed(b) == [kind |-> "closed", candle |-> Folded(b)]
Gap(b) == [kind |-> "gap", candle |-> [begin |-> b.at, whole |-> FALSE]]
Nothing == [kind |-> "none", candle |-> [begin |-> -1, whole |-> FALSE]]

\* Mutant: an emitted bucket is reported as a gap, too.
GapAlways(b, n) == IF b.at * n \in Begins(b) THEN Gap(b) ELSE Nothing

\* A rollover: gap_or_none, unless the bucket has been emitted.
GapOrNone(b, n) ==
    IF ~b.emitted /\ b.at * n \in Begins(b) THEN Gap(b) ELSE Nothing

\* fold, fold_hour: the bucket and the result.
Fold(b, c, n) ==
    LET at == c.begin \div n
        grown == IF at > b.at
                   THEN [at |-> at, candles |-> <<c>>, emitted |-> FALSE]
                   ELSE [b EXCEPT !.candles = Append(@, c)]
    IN  IF at < b.at THEN [bucket |-> b, out |-> Nothing]
        ELSE IF ~grown.emitted /\ IsComplete(grown, n)
        THEN [bucket |-> [grown EXCEPT !.emitted = TRUE], out |-> Closed(grown)]
        ELSE [bucket |-> grown, out |-> IF at > b.at THEN GapOrNone(b, n) ELSE Nothing]

-----------------------------------------------------------------------------
(* The start: warm-up, then the daily compute, then the subscriptions.     *)

Init ==
    /\ warmed \in Warmed
    /\ clock \in (warmed + 1) .. (warmed + StartupSlots)
    /\ \E t \in (warmed + 1) .. clock : htf = [base |-> CompleteHours(t), steps |-> <<>>]
    /\ \/ \E t \in (warmed + 1) .. clock : decision = [base |-> CompleteDays(t), steps |-> <<>>]
       \/ decision = NoCache    \* too few daily bars
    /\ detector = [begin |-> warmed, whole |-> TRUE]
    /\ stepped5 = warmed /\ stepped60 = htf.base
    /\ published = "nothing" /\ down = FALSE /\ missed = 0
    /\ corpus = <<>> /\ heals = {} /\ entries = {} /\ log = {}
    /\ hour = NoBucket /\ day = NoBucket
    /\ trend \in [0 .. CompleteDays(MaxSlot) -> BOOLEAN]

-----------------------------------------------------------------------------
(* LiveSweepDriver.on_ohlc_5m *)

\* Mutant: the candle the warm-up counted is stepped again.
IsNewOrSeed(c) == c.begin >= stepped5

IsNew(c) == c.begin > stepped5

\* The indicators step, and the corpus grows.
StepIndicators(c) ==
    IF IsNew(c) THEN corpus' = Append(corpus, c) /\ stepped5' = c.begin
                ELSE UNCHANGED <<corpus, stepped5>>

\* _step_htf (the 1H reversal drive is retired).
StepHtf(h) ==
    IF h > stepped60 THEN htf' = Stepped(htf, h) /\ stepped60' = h
                     ELSE UNCHANGED <<htf, stepped60>>

\* Mutant: the cache is read after it is advanced.
CrossesAfter(pre, post) == trend[Latest(post)] /\ ~trend[Latest(post)]

\* The bullish cross: pre not bullish, post bullish.
Crosses(pre, post) == trend[Latest(post)] /\ ~trend[Latest(pre)]

\* The Closed24H branch of _advance_decision; what the gates say of the entry
\* is not followed here.
Decide(d) ==
    IF decision = NoCache THEN UNCHANGED <<decision, entries>>
    ELSE LET post == Stepped(decision, d)
         IN  /\ decision' = post
             /\ entries' = IF Crosses(decision, post) THEN entries \cup {d} ELSE entries

Ask(what) == heals' = heals \cup {[what |-> what, asked |-> clock]}

Event(level, out) ==
    IF out.kind = "none" THEN {}
    ELSE {[level |-> level, kind |-> out.kind, candle |-> out.candle]}

\* _advance_decision.
AdvanceDecision(h) ==
    LET folded == Fold(day, h, HoursPerDay)
        out == folded.out
    IN  /\ day' = folded.bucket
        /\ log' = log \cup Event("hour", [kind |-> "closed", candle |-> h])
                      \cup Event("day", out)
        /\ IF out.kind = "closed" THEN Decide(out.candle.begin)
           ELSE UNCHANGED <<decision, entries>>
        /\ IF out.kind = "gap" THEN Ask("day") ELSE UNCHANGED heals

\* What follows a 5m close.
OnClose(c) ==
    LET folded == Fold(hour, c, SlotsPerHour)
        out == folded.out
    IN  /\ StepIndicators(c)
        /\ hour' = folded.bucket
        /\ \/ /\ out.kind = "closed"
              /\ StepHtf(out.candle.begin)
              /\ AdvanceDecision(out.candle)
           \/ /\ out.kind = "gap"
              /\ log' = log \cup Event("hour", out)
              /\ Ask("hour")
              /\ UNCHANGED <<htf, stepped60, day, decision, entries>>
           \/ /\ out.kind = "none"
              /\ UNCHANGED <<htf, stepped60, day, decision, entries, log, heals>>

\* CandleCloseDetector.observe.
Observe(c) ==
    /\ detector' = c
    /\ IF c.begin = detector.begin
         THEN UNCHANGED <<stepped5, corpus, hour, day, htf, stepped60, decision, entries, log, heals>>
         ELSE OnClose(detector)

\* A trade publishes the candle in progress; with the slot's last trade it is
\* whole.  The frame is handled, or lost.
Frame(whole) ==
    /\ published # "whole"
    /\ published' = IF whole THEN "whole" ELSE "part"
    /\ IF down THEN UNCHANGED <<chain, heals>> ELSE Observe([begin |-> clock, whole |-> whole])
    /\ UNCHANGED <<clock, down, missed, trend, warmed>>

-----------------------------------------------------------------------------
(* The heals. *)

\* The call answers with the series at some slot since it was made; failing,
\* it leaves the cache as it is.
Answer(heal) ==
    /\ heal \in heals
    /\ heals' = heals \ {heal}
    /\ UNCHANGED <<clock, published, down, missed, trend, warmed,
                   detector, stepped5, corpus, hour, day, entries, log>>

\* _heal_htf.  The hour does not reach fold_hour.
HealHtf(heal) ==
    /\ Answer(heal) /\ heal.what = "hour"
    /\ \/ \E t \in heal.asked .. clock :
            /\ htf' = [base |-> CompleteHours(t), steps |-> <<>>]
            /\ stepped60' = CompleteHours(t)
       \/ UNCHANGED <<htf, stepped60>>
    /\ UNCHANGED decision

\* _heal_decision: seed_from_bars, which leaves a pair with too few bars unseeded.
HealDecision(heal) ==
    /\ Answer(heal) /\ heal.what = "day"
    /\ \/ \E t \in heal.asked .. clock : decision' = [base |-> CompleteDays(t), steps |-> <<>>]
       \/ UNCHANGED decision
    /\ UNCHANGED <<htf, stepped60>>

-----------------------------------------------------------------------------
(* Time and the connection. *)

\* The slot in progress has been handled up to its last trade.
Handled == detector = [begin |-> clock, whole |-> TRUE]

\* A slot ends after its last trade, or without one.
Tick ==
    /\ clock < MaxSlot
    /\ published # "part"
    /\ Handled \/ missed < MaxMissed
    /\ \A heal \in heals : heal.asked = clock
    /\ clock' = clock + 1
    /\ published' = "nothing"
    /\ missed' = IF Handled THEN missed ELSE missed + 1
    /\ UNCHANGED <<down, heals, trend, warmed, chain>>

Drop ==
    /\ ~down /\ down' = TRUE
    /\ UNCHANGED <<clock, published, missed, heals, trend, warmed, chain>>

Restore ==
    /\ down /\ down' = FALSE
    /\ UNCHANGED <<clock, published, missed, heals, trend, warmed, chain>>

Next ==
    \/ \E whole \in BOOLEAN : Frame(whole)
    \/ \E heal \in heals : HealHtf(heal) \/ HealDecision(heal)
    \/ Tick \/ Drop \/ Restore

Spec == Init /\ [][Next]_vars

-----------------------------------------------------------------------------
(* Properties. *)

Candles == [begin : Nat, whole : BOOLEAN]
Caches == [base : Int, steps : Seq(Nat)]

Buckets == [at : Int, candles : Seq(Candles), emitted : BOOLEAN]

Was(level, kind) == {e.candle.begin : e \in {e \in log : e.level = level /\ e.kind = kind}}

\* The state of the driver of one pair; no indicator counts an hour or a day
\* that has not ended (ar:AR-017).
TypeOK ==
    /\ clock \in Nat /\ published \in {"nothing", "part", "whole"}
    /\ down \in BOOLEAN /\ missed \in Nat
    /\ detector \in Candles /\ detector.begin <= clock
    /\ stepped5 \in Nat /\ corpus \in Seq(Candles)
    /\ hour \in Buckets /\ day \in Buckets
    /\ htf \in Caches /\ Latest(htf) < clock \div SlotsPerHour
    /\ stepped60 \in Int
    /\ decision \in Caches /\ Latest(decision) < clock \div (SlotsPerHour * HoursPerDay)
    /\ heals \subseteq [what : {"hour", "day"}, asked : Nat]
    /\ entries \subseteq Nat /\ warmed \in Nat
    /\ log \subseteq [level : {"hour", "day"}, kind : {"closed", "gap"}, candle : Candles]

\* LiveSweepDriver._stepped5: the corpus gets every candle once, in order, and
\* none that the warm-up has counted, whatever was lost in between.
CorpusIsTheStream ==
    \A i \in DOMAIN corpus :
        /\ corpus[i].begin > warmed
        /\ \A j \in DOMAIN corpus : i < j => corpus[i].begin < corpus[j].begin

Ascending(x) ==
    \A i \in DOMAIN x.steps :
        /\ x.steps[i] > x.base
        /\ \A j \in DOMAIN x.steps : i < j => x.steps[i] < x.steps[j]

\* HtfCache and DailyDecisionCache: no hour and no day steps the EMAs twice,
\* neither after a warm-up nor after a heal that already counts it.
CountedOnce == Ascending(htf) /\ Ascending(decision)

\* Fed to fold: the candle of the warm-up is, at the first close.
Fed == {corpus[i].begin : i \in DOMAIN corpus}
         \cup (IF detector.begin # warmed THEN {warmed} ELSE {})

\* OhlcAggregator: an hour or a day that began at its boundary is, once it has
\* rolled over, either closed or surfaced as a gap, and no other one is either.
ResolvedOnce ==
    /\ \A h \in 0 .. hour.at - 1 :
        IF h * SlotsPerHour \in Fed
          THEN (h \in Was("hour", "closed")) # (h \in Was("hour", "gap"))
          ELSE h \notin Was("hour", "closed") \cup Was("hour", "gap")
    /\ \A d \in 0 .. day.at - 1 :
        IF d * HoursPerDay \in Was("hour", "closed")
          THEN (d \in Was("day", "closed")) # (d \in Was("day", "gap"))
          ELSE d \notin Was("day", "closed") \cup Was("day", "gap")

\* The fold and the heals: an hour of which every candle was handled is counted
\* by the 1H EMAs and a day of such hours by the decision, for good: no heal,
\* however late, takes it back.
SeenIsCounted ==
    /\ \A h \in 0 .. clock \div SlotsPerHour :
        (h * SlotsPerHour) .. (h * SlotsPerHour + SlotsPerHour - 1) \subseteq Fed => Counts(htf, h)
    /\ decision # NoCache =>
        \A d \in 0 .. clock \div (SlotsPerHour * HoursPerDay) :
            (d * HoursPerDay) .. (d * HoursPerDay + HoursPerDay - 1) \subseteq Was("hour", "closed")
                => Counts(decision, d)

\* Every bar that was seen whole is counted exactly once.
EachBarOnce == CountedOnce /\ SeenIsCounted

\* LiveSweepDriver._advance_decision: of two days in a row that the decision
\* counts, the second having closed live, the entry gates run on a bullish
\* cross and on nothing else.
EntersOnTheCross ==
    \A i \in DOMAIN decision.steps :
        LET d == decision.steps[i]
        IN  Counts(decision, d - 1) => (d \in entries <=> trend[d] /\ ~trend[d - 1])
=============================================================================
