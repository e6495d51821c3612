------------------------------ MODULE Learning ------------------------------
(***************************************************************************)
(* What CIATS learns from a closed trade (src/tothbot/ciats): the pool and *)
(* the regime buckets it adds up, the EWMA it steps, and what              *)
(* conductor.on_close then reports: a Half-Kelly size, a drift, and the    *)
(* two candidates a drift leads to, each re-simulated over the corpus and  *)
(* put through CHECK.  What happens to a candidate that passes is the      *)
(* module CiatsConductor.                                                  *)
(*                                                                         *)
(* A trade is [net, heat, regime] and a field per signal level, Absent     *)
(* where the record has none.                                              *)
(***************************************************************************)
EXTENDS Statistics

CONSTANTS
    Trades,                      \* what a closed trade may be
    Side,                        \* the conductor's module
    CiatsTradeFloor, KellyEvery, \* CIATS_TRADE_FLOOR, KELLY_RECOMPUTE_INTERVAL
    Activation, BucketMin,       \* REGIME_ACTIVATION_TRADES, REGIME_BUCKET_MIN
    KSigma, HSigma,              \* CUSUM_K_SIGMA, CUSUM_H_SIGMA, in tenths
    Lambda, Baseline, Threshold, \* of the EwmaMonitor: in tenths, in hundredths
    SustainedN,
    Nudge,                       \* mae_mult_nudge_pct, in hundredths
    MinPairs,
    MaxCloses,                   \* bound
    Absent

\* The levels a record may hold next to its net result, and what the registry gives.
LevelKeys == {"heat", "rsi_14", "ema_9", "ema_21", "volume_ratio"}

ASSUME LearningAssumption ==
    /\ \A r \in Trades : r.net \in Int /\ \A key \in LevelKeys : r[key] \in Int \cup {Absent}
    /\ Absent \notin Int \cup {"cusum_lower", "PASSED", "FAILED", "RAISES"}
    /\ {CiatsTradeFloor, Activation, BucketMin, HSigma, SustainedN, Nudge, MaxCloses} \subseteq Nat
    /\ {KellyEvery, MinPairs} \subseteq Nat \ {0}
    /\ {KSigma, Lambda, Baseline, Threshold} \subseteq Int

VARIABLES
    records,      \* _records: the corpus
    pool,         \* CiatsPool
    buckets,      \* RegimeLibrary: a pool of each regime
    classified,   \* and its _total
    monitor,      \* EwmaMonitor: [ewma, consecutive]
    outcome       \* what the last on_close reported

learningVars == <<records, pool, buckets, classified, monitor, outcome>>

TradeRegimes == {r.regime : r \in Trades} \ {Absent}
NetOf(rs) == [i \in DOMAIN rs |-> rs[i].net]

-----------------------------------------------------------------------------
(* pool.py and regime_library.py *)

NoTrades == [n |-> 0, wins |-> 0, gain |-> 0, loss |-> 0]

\* Mutant: a trade that broke even is a win.
EvenIsAWin(p, r) ==
    IF r.net >= 0
    THEN [p EXCEPT !.n = @ + 1, !.wins = @ + 1, !.gain = @ + r.net]
    ELSE [p EXCEPT !.n = @ + 1, !.loss = @ - r.net]

\* Mutant: a loss is added up with its sign.
LossSigned(p, r) ==
    IF r.net > 0
    THEN [p EXCEPT !.n = @ + 1, !.wins = @ + 1, !.gain = @ + r.net]
    ELSE [p EXCEPT !.n = @ + 1, !.loss = @ + r.net]

Ingest(p, r) ==
    IF r.net > 0
    THEN [p EXCEPT !.n = @ + 1, !.wins = @ + 1, !.gain = @ + r.net]
    ELSE [p EXCEPT !.n = @ + 1, !.loss = @ - r.net]

\* net_reward_risk: None until there are both gains and losses of money.
RiskKnown(p) == p.wins > 0 /\ p.wins < p.n /\ p.loss > 0

\* Mutant: the reward-risk weighs the losses instead of dividing them.
EdgeWeighed(p) ==
    [num |-> p.wins * p.wins * p.loss - (p.n - p.wins) * (p.n - p.wins) * p.gain,
     den |-> p.n * p.wins * p.loss]

\* w - (1 - w) / r as a quotient, r the mean gain by the mean loss.
Edge(p) ==
    LET lost == p.n - p.wins
        r == [num |-> p.gain * lost, den |-> p.wins * p.loss]
    IN  [num |-> p.wins * r.num - lost * r.den, den |-> p.n * r.num]

\* half_kelly_fraction, per mille.
HalfKelly(p) == Max({0, Min({1000, (500 * Edge(p).num) \div Edge(p).den})})

RegimeActive(g) == classified >= Activation /\ buckets[g].n >= BucketMin

\* Mutant: a regime that only broke even is kept.
KeepsBreakEven ==
    {g \in TradeRegimes : RegimeActive(g) /\ RiskKnown(buckets[g]) /\ Edge(buckets[g]).num < 0}

DisallowedRegimes ==
    {g \in TradeRegimes : RegimeActive(g) /\ RiskKnown(buckets[g]) /\ Edge(buckets[g]).num <= 0}

-----------------------------------------------------------------------------
(* proposal_engine.py: the Half-Kelly size *)

\* recompute_kelly on a pool of p.n trades.
Kelly(p) ==
    IF p.n < CiatsTradeFloor \/ (p.n - CiatsTradeFloor) % KellyEvery # 0 THEN [kind |-> "NOT_DUE"]
    ELSE IF ~RiskKnown(p) THEN [kind |-> "UNKNOWN"]
    ELSE IF Edge(p).num <= 0 THEN [kind |-> "NEGATIVE"]
    ELSE [kind |-> "SIZED", half |-> Min({1000, (500 * Edge(p).num) \div Edge(p).den})]

-----------------------------------------------------------------------------
(* ewma_monitor.py and cusum_lower: the drift *)

Diverges(ewma) ==
    IF ewma > Baseline THEN ewma - Baseline > Threshold ELSE Baseline - ewma > Threshold

EwmaStepOf(ewma, x) ==
    IF ewma = Absent THEN 100 * x ELSE (Lambda * 100 * x + (10 - Lambda) * ewma) \div 10

\* Mutant: a value in range does not end the run of divergences.
RunGoesOn(mon, x) ==
    LET ewma == EwmaStepOf(mon.ewma, x)
    IN  [ewma |-> ewma, consecutive |-> mon.consecutive + (IF Diverges(ewma) THEN 1 ELSE 0)]

MonitorUpdate(mon, x) ==
    LET ewma == EwmaStepOf(mon.ewma, x)
    IN  [ewma |-> ewma, consecutive |-> IF Diverges(ewma) THEN mon.consecutive + 1 ELSE 0]

RootOf(n) == CHOOSE r \in 0..n : r * r <= n /\ (r + 1) * (r + 1) > n

\* The mean and the deviation of a series, 10 n times their size.
Mu(xs) == 10 * Total(xs)
Sigma(xs) ==
    LET n == Len(xs)
    IN  RootOf((100 * n * (n * Total(Times(xs, xs)) - Total(xs) * Total(xs))) \div (n - 1))

Limit(xs) == (HSigma * Sigma(xs)) \div 10

\* How far each value falls short of the mean, the slack k taken off.
Shortfalls(xs) ==
    LET n == Len(xs)  k == (KSigma * Sigma(xs)) \div 10
    IN  [i \in DOMAIN xs |-> (Mu(xs) - k) - 10 * n * xs[i]]

\* Mutant: the arm is never reset, so that good trades make up for a slump.
ArmUnreset(xs) ==
    LET short == Shortfalls(xs)
        h == Limit(xs)
        arm[i \in 0..Len(xs)] == IF i = 0 THEN 0 ELSE short[i] + arm[i - 1]
    IN  \E i \in DOMAIN xs : arm[i] > h

\* cusum_lower: the arm falls back to 0, and never below it.
CusumBreached(xs) ==
    LET short == Shortfalls(xs)
        h == Limit(xs)
        arm[i \in 0..Len(xs)] == IF i = 0 THEN 0 ELSE Max({0, short[i] + arm[i - 1]})
    IN  \E i \in DOMAIN xs : arm[i] > h

DriftOf(rs, mon) ==
    IF Len(rs) >= 2 /\ CusumBreached(NetOf(rs)) THEN "cusum_lower"
    ELSE IF mon.consecutive >= SustainedN THEN "ewma_sustained"
    ELSE Absent

-----------------------------------------------------------------------------
(* proposal_engine.py: the candidates.  shadow_replay.py: their outcomes. *)

Having(rs, key) == Kept(rs, {r \in Trades : r[key] # Absent})
Levels(rs, key) == [i \in DOMAIN rs |-> rs[i][key]]

\* The correlation of a level with the result, over the trades that have it.
Evidence(rs, key) ==
    LET have == Having(rs, key) IN Spearman(Levels(have, key), NetOf(have))
Qualifies(rs, key) ==
    LET have == Having(rs, key)
    IN  Len(have) >= MinPairs /\ Significant(Levels(have, key), NetOf(have))

SpearmanLevels == <<"rsi_14", "ema_9", "ema_21", "volume_ratio">>

\* The strongest evidence, the first of equals.
Strongest(evidence) ==
    {i \in DOMAIN evidence : \A j \in (DOMAIN evidence) \ {i} :
        IF j < i THEN Stronger(evidence[i], evidence[j])
        ELSE ~Stronger(evidence[j], evidence[i])}

\* identify_spearman_candidate, as its place: no place or one.
CandidateLevels(rs) ==
    Strongest([i \in {j \in DOMAIN SpearmanLevels : Qualifies(rs, SpearmanLevels[j])} |->
                  Evidence(rs, SpearmanLevels[i])])

\* The outcomes in hundredths.
BaselineCohort(rs) == [i \in DOMAIN rs |-> 100 * rs[i].net]

\* Mutant: a wider stop is credited with the losses of a tighter one.
AlwaysTighter(rs, tighten) ==
    [i \in DOMAIN rs |-> IF rs[i].net < 0 THEN (100 - Nudge) * rs[i].net ELSE 100 * rs[i].net]

\* exit_stop: the losses scale with the width of the stop.
StopCohort(rs, tighten) ==
    LET factor == IF tighten THEN 100 - Nudge ELSE 100 + Nudge
    IN  [i \in DOMAIN rs |-> IF rs[i].net < 0 THEN factor * rs[i].net ELSE 100 * rs[i].net]

\* ENTRY_FILTER_GATES: the parameter a level maps to, by the sign of its
\* correlation, and whether its gate keeps what is above.  The averages map to
\* none, the volume only to a floor.
FilterOf(key, positive) ==
    CASE key = "rsi_14" /\ positive ->
             [param |-> IF Side = "short" THEN "rsi_short_high" ELSE "rsi_long_low", above |-> TRUE]
      [] key = "rsi_14" /\ ~positive ->
             [param |-> IF Side = "short" THEN "rsi_short_low" ELSE "rsi_long_high", above |-> FALSE]
      [] key = "volume_ratio" /\ positive -> [param |-> "volume_sss_threshold", above |-> TRUE]
      [] OTHER -> Absent

Losers(rs, key) == Kept(rs, {r \in Trades : r[key] # Absent /\ r.net < 0})

\* Mutant: the cut is put where half of all the trades fail.
MedianOfAll(rs, key) == Median(Levels(Having(rs, key), key))

LoserMedian(rs, key) == Median(Levels(Losers(rs, key), key))

\* A trade without the level keeps its result.
Passes(r, key, above, cut) ==
    \/ r[key] = Absent
    \/ IF above THEN r[key] > cut ELSE r[key] < cut

FilterCohort(rs, key, above, cut) ==
    LET kept == Kept(rs, {r \in Trades : Passes(r, key, above, cut)})
    IN  [i \in DOMAIN kept |-> 100 * kept[i].net]

\* open_pdca: the cohorts, the trade floor of initiate_plan, the CHECK.
CheckOf(candidate, baseline) ==
    CASE candidate = <<>> \/ Len(baseline) < CiatsTradeFloor -> "BLOCKED"
      [] OTHER -> Check(candidate, baseline)

NoStop == [check |-> Absent]

StopPlan(rs, tighten) ==
    LET cohort == StopCohort(rs, tighten)
    IN  [check |-> CheckOf(cohort, BaselineCohort(rs)), cohort |-> cohort, tighten |-> tighten]

\* plan_stop_width_proposal: heat that goes with losses asks for a tighter stop.
StopWidthPlan(rs) ==
    IF Qualifies(rs, "heat") THEN StopPlan(rs, Evidence(rs, "heat").cov < 0) ELSE NoStop

\* A candidate without a mapping, or with too few losers, is deferred.
FilterPlan(rs, key, filter, cut) ==
    LET cohort == FilterCohort(rs, key, filter.above, cut)
    IN  IF filter = Absent \/ Len(Losers(rs, key)) < MinPairs
        THEN [check |-> "DEFERRED"]
        ELSE [check |-> CheckOf(cohort, BaselineCohort(rs)), cohort |-> cohort,
              key |-> key, above |-> filter.above, cut |-> cut]

FilterBy(rs, key) ==
    FilterPlan(rs, key, FilterOf(key, Evidence(rs, key).cov > 0), LoserMedian(rs, key))

\* plan_entry_filter_proposal.
EntryFilterPlan(rs) ==
    LET candidates == CandidateLevels(rs)
    IN  IF candidates = {} THEN NoStop
        ELSE FilterBy(rs, SpearmanLevels[CHOOSE i \in candidates : TRUE])

\* The second plan is not reached when the first raises.
StopThenFilter(rs, stop) ==
    [stop |-> stop, filter |-> IF stop.check = "RAISES" THEN NoStop ELSE EntryFilterPlan(rs)]

\* plan_from_drift.
Plans(rs, drift) ==
    IF drift = Absent THEN [stop |-> NoStop, filter |-> NoStop]
    ELSE StopThenFilter(rs, StopWidthPlan(rs))

-----------------------------------------------------------------------------
Reported(kelly, drift, plans) ==
    [kelly |-> kelly, drift |-> drift, stop |-> plans.stop, filter |-> plans.filter]

Quiet == Reported([kind |-> "NOT_DUE"], Absent, [stop |-> NoStop, filter |-> NoStop])

LearningInit ==
    /\ records = <<>> /\ pool = NoTrades
    /\ buckets = [g \in TradeRegimes |-> NoTrades] /\ classified = 0
    /\ monitor = [ewma |-> Absent, consecutive |-> 0]
    /\ outcome = Quiet

\* on_close: ingest_close, then what the grown corpus says.
OnClose(r) ==
    /\ Len(records) < MaxCloses
    /\ records' = Append(records, r)
    /\ pool' = Ingest(pool, r)
    /\ IF r.regime = Absent
       THEN UNCHANGED <<buckets, classified>>
       ELSE /\ buckets' = [buckets EXCEPT ![r.regime] = Ingest(@, r)]
            /\ classified' = classified + 1
    /\ monitor' = MonitorUpdate(monitor, r.net)
    /\ LET drift == DriftOf(records', monitor')
       IN  outcome' = Reported(Kelly(pool'), drift, Plans(records', drift))

LearningNext == \E r \in Trades : OnClose(r)

LearningSpec == LearningInit /\ [][LearningNext]_learningVars

-----------------------------------------------------------------------------
(* Properties. *)

\* The values have the types the code gives them.
LearnTypeOK ==
    /\ records \in Seq(Trades) /\ Len(records) <= MaxCloses
    /\ pool.wins \in 0..pool.n /\ pool.gain >= 0 /\ pool.loss >= 0
    /\ DOMAIN buckets = TradeRegimes /\ classified \in 0..Len(records)
    /\ monitor.consecutive \in 0..Len(records)
    /\ outcome.kelly.kind \in {"NOT_DUE", "UNKNOWN", "NEGATIVE", "SIZED"}
    /\ outcome.drift \in {Absent, "cusum_lower", "ewma_sustained"}

\* The trades of a regime, and the results of a corpus without those of others.
OfRegime(g) == {r \in Trades : r.regime = g}
NetWithin(rs, seen) == [i \in DOMAIN rs |-> IF rs[i] \in seen THEN rs[i].net ELSE 0]

\* The totals of a pool that has seen these of the corpus and no others.
Recount(p, seen) ==
    /\ p.n = Cardinality({i \in DOMAIN records : records[i] \in seen})
    /\ p.wins = Cardinality({i \in DOMAIN records : records[i] \in seen /\ records[i].net > 0})
    /\ p.gain - p.loss = Total(NetWithin(records, seen))

\* The running totals of the pool and of the regimes are those of the corpus
\* the replay reads: no trade is in one and not in the other, a trade without a
\* regime is in no bucket.
PoolIsTheCorpus ==
    /\ Recount(pool, Trades)
    /\ \A g \in TradeRegimes : Recount(buckets[g], OfRegime(g))
    /\ classified = Cardinality({i \in DOMAIN records : records[i].regime # Absent})

\* "edge <= 0": a regime entries are barred from has reached both floors and has
\* made no money, however the wins and losses are spread; one that has, and that
\* both won and lost, is barred.
DisallowedLostMoney ==
    \A g \in TradeRegimes :
        LET its == {i \in DOMAIN records : records[i].regime = g}
            known == /\ \E i \in its : records[i].net > 0
                     /\ \E i \in its : records[i].net < 0
        IN  g \in DisallowedRegimes <=>
                RegimeActive(g) /\ known /\ Total(NetWithin(records, OfRegime(g))) <= 0

\* A size is proposed when the trades have made money and never else, and is
\* the share the pool itself reports; a negative edge is told as such when it
\* is due.
SizedByTheEdge ==
    LET net == Total(NetOf(records))
    IN  /\ outcome.kelly.kind = "SIZED" =>
               net > 0 /\ outcome.kelly.half = HalfKelly(pool) /\ outcome.kelly.half \in 0..500
        /\ outcome.kelly.kind = "NEGATIVE" => net <= 0 /\ HalfKelly(pool) = 0

\* The arm breaches exactly when some stretch of trades in a row fell short of
\* the mean by more than the slack and the limit allow: earlier wins do not hide
\* a slump, and no slump is told that is in no stretch.
BreachIsASlump ==
    Len(records) >= 2 =>
        LET xs == NetOf(records)
            short == Shortfalls(xs)
            h == Limit(xs)
            stretch == \E i, j \in DOMAIN xs :
                           j <= i /\ Total(SubSeq(short, j, i)) > h
        IN  stretch <=> outcome.drift = "cusum_lower"

\* The EWMA is sustained when it diverged after each of the last closes in a row.
SustainedMeansInARow ==
    LET ewma[k \in 0..Len(records)] ==
            IF k = 0 THEN Absent ELSE EwmaStepOf(ewma[k - 1], records[k].net)
    IN  monitor.consecutive >= SustainedN <=>
            /\ Len(records) >= SustainedN
            /\ \A k \in (Len(records) - SustainedN + 1)..Len(records) : Diverges(ewma[k])

\* The rank sum CHECK decides with counts, of all pairs of a candidate's and a
\* baseline's result, those the candidate wins, ties as halves.
RanksCountPairs ==
    \A plan \in {outcome.stop, outcome.filter} :
        plan.check \in {"PASSED", "FAILED"} =>
            LET a == plan.cohort  b == BaselineCohort(records)
                pairs == (DOMAIN a) \X (DOMAIN b)
            IN  U1(a, b) = 2 * Cardinality({p \in pairs : a[p[1]] > b[p[2]]})
                           + Cardinality({p \in pairs : a[p[1]] = b[p[2]]})

\* The replay can credit a stop only with smaller losses, so a wider one never
\* passes CHECK; and a filter passes only if the trades it keeps beat those it
\* drops more often than not.
OnlyBetterAdvances ==
    /\ outcome.stop.check = "PASSED" => outcome.stop.tighten
    /\ outcome.filter.check = "PASSED" =>
           LET f == outcome.filter
               keeps == {i \in DOMAIN records : Passes(records[i], f.key, f.above, f.cut)}
               pairs == keeps \X ((DOMAIN records) \ keeps)
           IN  Cardinality({p \in pairs : records[p[1]].net > records[p[2]].net}) >
               Cardinality({p \in pairs : records[p[1]].net < records[p[2]].net})

\* The filter is cut in the middle of the losing trades that have the level:
\* at least half of them would not have been entered, and no more than half lie
\* strictly beyond the cut, so the filter is not tighter than the losses ask for.
FilterSplitsLosers ==
    outcome.filter.check \in {"PASSED", "FAILED", "RAISES"} =>
        LET f == outcome.filter
            losers == {i \in DOMAIN records : records[i][f.key] # Absent /\ records[i].net < 0}
            barred == {i \in losers : ~Passes(records[i], f.key, f.above, f.cut)}
            beyond == {i \in barred : records[i][f.key] # f.cut}
        IN  2 * Cardinality(barred) >= Cardinality(losers)
            /\ 2 * Cardinality(beyond) <= Cardinality(losers)

\* What CIATS concludes of the trades is what the trades say: its running totals,
\* the regimes it bars, the size, the drift and the plans.
LearnsFromTheTrades ==
    /\ LearnTypeOK
    /\ PoolIsTheCorpus /\ DisallowedLostMoney /\ SizedByTheEdge
    /\ BreachIsASlump /\ SustainedMeansInARow
    /\ RanksCountPairs /\ OnlyBetterAdvances /\ FilterSplitsLosers
=============================================================================
