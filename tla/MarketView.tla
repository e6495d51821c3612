----------------------------- MODULE MarketView -----------------------------
(***************************************************************************)
(* What the bot knows of a market (src/tothbot/regime, seeded by           *)
(* exchange/warmup.py and pipeline/operational.py): LiveIndicators, seeded *)
(* once from a REST series and stepped by every committed candle; the      *)
(* slippage caps seeded from the same series; the 24h decision cache,      *)
(* seeded and stepped in the same way; the RegimeCache and the expected    *)
(* rewards, filled by DailyRegimeCompute, pair after pair, from a REST     *)
(* that may refuse or answer with too few candles.                         *)
(*                                                                         *)
(* One series stands for the 5m bars of the live indicators and for the    *)
(* daily bars of the decision: each only sees its own.                     *)
(***************************************************************************)
EXTENDS RewardReplay

CONSTANTS
    Pairs, Anchor,        \* the universe, MARKET_ANCHOR
    ClosedCandles,        \* what a committed candle may be
    SeedSeries,           \* what REST answers for the 5m seed
    DailySeries,          \* and for the daily bars
    QNum, QDen,           \* MPP_QUANTILE
    MaxBars, MaxComputes  \* bounds

\* A candle, in whole numbers: prices are positive, the high is no less than the low.
Candle == {b \in [open : Nat, high : Nat, low : Nat, close : Nat \ {0}, volume : Nat] :
               b.low <= b.high}

ASSUME CandlesAssumption ==
    /\ ClosedCandles \subseteq Candle
    /\ \A series \in SeedSeries \cup DailySeries : series \in Seq(Candle)
    /\ QNum \in Nat /\ QDen \in Nat \ {0} /\ QNum <= QDen

ASSUME RoundsAssumption == IsFiniteSet(Pairs) /\ MaxComputes \in Nat

VARIABLES
    bars,      \* the candles since the start, seed included
    live,      \* LiveIndicators, or None before its seed
    daily,     \* DailyDecisionCache, or None
    caps,      \* MppCapStore of the pair, or None
    cache,     \* RegimeCache
    reward,    \* ExpectedRewardStore
    served,    \* of each symbol: the series REST answered with, and was good
    pending,   \* the targets compute_all still has to ask for
    asked,     \* the symbols the round asked for
    computes

marketVars == <<bars, live, daily, caps, cache, reward, served, pending, asked, computes>>

Symbols == Pairs \cup {Anchor}

-----------------------------------------------------------------------------
(* LiveIndicators. *)

Seeded(series) ==
    [atr |-> Last(Atr(series)), rsi |-> RsiState(Closes(series)),
     short |-> Ema(Closes(series), EmaShort), long |-> Ema(Closes(series), EmaLong),
     volumeMa |-> VolumeMa([i \in DOMAIN series |-> series[i].volume]),
     volume |-> Last(series).volume, close |-> Last(series).close]

\* Mutant: the losses are stepped by the gains.
LossesForgotten(st, x, y) ==
    [gain |-> WilderStep(st.gain, Gain(x, y), Period),
     loss |-> WilderStep(st.loss, Gain(x, y), Period)]

RsiStep(st, x, y) ==
    [gain |-> WilderStep(st.gain, Gain(x, y), Period),
     loss |-> WilderStep(st.loss, Loss(x, y), Period)]

\* LiveIndicators.update: from the state alone, the series is not kept.
Updated(st, b) ==
    [atr |-> WilderStep(st.atr, TrueRange([close |-> st.close], b), Period),
     rsi |-> RsiStep(st.rsi, st.close, b.close),
     short |-> EmaStep(st.short, b.close, EmaShort),
     long |-> EmaStep(st.long, b.close, EmaLong),
     volumeMa |-> WilderStep(st.volumeMa, b.volume, VolumePeriod),
     volume |-> b.volume, close |-> b.close]

SssVerdict(side) ==
    ThreeFactorPass(side, [rsi |-> RsiFromState(live.rsi), short |-> live.short,
                           long |-> live.long, volume |-> live.volume,
                           volumeMa |-> live.volumeMa])

\* DailyDecisionCache.seed and advance.
DecisionSeeded(series) ==
    IF Len(series) < DecisionSlow THEN None
    ELSE [close |-> Last(series).close, fast |-> Ema(Closes(series), DecisionFast),
          slow |-> Ema(Closes(series), DecisionSlow), atr |-> Last(Atr(series))]

DecisionAdvanced(d, b) ==
    IF d = None THEN None
    ELSE [close |-> b.close, fast |-> EmaStep(d.fast, b.close, DecisionFast),
          slow |-> EmaStep(d.slow, b.close, DecisionSlow),
          atr |-> WilderStep(d.atr, TrueRange([close |-> d.close], b), Period)]

-----------------------------------------------------------------------------
(* seed_estimators.py, in basis points. *)

\* adverse_gap_fractions: what the next open moved against the side.
AdverseGaps(series, side) ==
    LET gap(x, y) == ((y.open - x.close) * 10000) \div x.close
        adverse(x, y) == Max({0, IF side = "long" THEN gap(x, y) ELSE -gap(x, y)})
    IN  Neighbours(series, adverse)

MppCaps(series) == [sd \in Sides |-> Quantile(AdverseGaps(series, sd), QNum, QDen)]

-----------------------------------------------------------------------------
MarketInit ==
    /\ bars = <<>> /\ live = None /\ daily = None /\ caps = None
    /\ cache = [s \in Symbols |-> None] /\ served = [s \in Symbols |-> <<>>]
    /\ reward = [s \in Symbols |-> [g \in Regimes |-> None]]
    /\ pending = <<>> /\ asked = {} /\ computes = 0

regimeVars == <<cache, reward, served, pending, asked, computes>>

\* warm_pair.  A series that is too short raises, and the pair is not warmed.
Warm(series) ==
    /\ live = None /\ Len(series) >= MinSignalBars
    /\ bars' = series
    /\ live' = Seeded(series)
    /\ daily' = DecisionSeeded(series)
    /\ caps' = MppCaps(series)
    /\ UNCHANGED regimeVars

\* on_ohlc_5m of a candle that closed.
Commit(b) ==
    /\ live # None /\ Len(bars) < MaxBars
    /\ bars' = Append(bars, b)
    /\ live' = Updated(live, b)
    /\ daily' = DecisionAdvanced(daily, b)
    /\ UNCHANGED <<caps, regimeVars>>

\* compute_all: each pair once, and the anchor if it is none of them.
Targets == SetToSeq(Pairs) \o (IF Anchor \in Pairs THEN <<>> ELSE <<Anchor>>)

StartCompute ==
    /\ pending = <<>> /\ computes < MaxComputes
    /\ pending' = Targets /\ asked' = {}
    /\ computes' = computes + 1
    /\ UNCHANGED <<bars, live, daily, caps, cache, reward, served>>

\* Mutant: the first failure ends the round.
RoundEnds == <<>>

\* A failure is the symbol's own: the round goes on.
AfterFailure == Tail(pending)

KeepsLast(s) == UNCHANGED cache

\* _compute_one: a refusal, or a series compute_regime cannot use.
ComputeFails ==
    /\ pending # <<>>
    /\ pending' = AfterFailure /\ asked' = asked \cup {Head(pending)}
    /\ KeepsLast(Head(pending))
    /\ UNCHANGED <<bars, live, daily, caps, reward, served, computes>>

\* Mutant: a regime the series has no hold in loses its reward.
RewardsReplaced(old, new) == [g \in Regimes |-> IF g \in DOMAIN new THEN new[g] ELSE None]

\* ExpectedRewardStore.seed_from_bars: what the series says nothing of is kept.
Rewarded(old, new) == [g \in Regimes |-> IF g \in DOMAIN new THEN new[g] ELSE old[g]]

ComputeOne(series) ==
    /\ pending # <<>> /\ Len(series) >= MinRegimeBars
    /\ cache' = [cache EXCEPT ![Head(pending)] = ComputeRegime(series)]
    /\ reward' = [reward EXCEPT ![Head(pending)] = Rewarded(@, ExpectedReward(series))]
    /\ served' = [served EXCEPT ![Head(pending)] = Append(@, series)]
    /\ pending' = Tail(pending) /\ asked' = asked \cup {Head(pending)}
    /\ UNCHANGED <<bars, live, daily, caps, computes>>

\* The two parts of the view are fed apart.
CandlesNext ==
    \/ \E series \in SeedSeries : Warm(series)
    \/ \E b \in ClosedCandles : Commit(b)

RegimesNext ==
    \/ StartCompute
    \/ ComputeFails
    \/ \E series \in DailySeries : ComputeOne(series)

-----------------------------------------------------------------------------
(* Properties. *)

MarketTypeOK ==
    /\ live # None => /\ DOMAIN live = {"atr", "rsi", "short", "long", "volumeMa", "volume", "close"}
                      /\ live.atr >= 0 /\ live.rsi.gain >= 0 /\ live.rsi.loss >= 0
    /\ cache \in [Symbols -> Regimes \cup {None}]
    /\ computes \in 0..MaxComputes /\ Range(pending) \subseteq Symbols

\* LiveIndicators promises that stepping its few numbers candle by candle gives
\* to the digit what a fresh computation over the whole series gives, however
\* the series is split into seed and candles; so does the 24h decision cache, and
\* so does the rolling average of the reward replay.
IncrementalIsBatch ==
    /\ live # None => live = Seeded(bars)
    /\ daily # None => daily = DecisionSeeded(bars)
    /\ Len(bars) >= HtfLong => Last(RollingEma(Closes(bars), HtfLong)) = Ema(Closes(bars), HtfLong)

\* The gate reads from the running numbers the verdict that the batch
\* computation of the signal gives.
VerdictIsBatch ==
    live # None => \A sd \in Sides : SssVerdict(sd) = EvaluateSss(sd, bars)

\* A market that stands still shows momentum to neither side.
FlatIsNeutral ==
    (live # None /\ \A i \in DOMAIN bars : bars[i].close = bars[1].close)
        => RsiFromState(live.rsi) = 50

\* The averages never leave the range of what they average, whatever rounding
\* does at each step.
AveragesStayInRange ==
    live # None =>
        LET closes == Range(Closes(bars))
        IN  /\ live.short \in Min(closes)..Max(closes) /\ live.long \in Min(closes)..Max(closes)
            /\ live.atr <= Max(Range(Neighbours(bars, TrueRange)))
            /\ RsiFromState(live.rsi) \in 0..100

\* The slippage cap of a side is exceeded by at most the share of the seed's
\* adverse gaps that its quantile leaves out, and by the worst gap at most met.
Covers(cap, gaps) ==
    /\ cap <= Max(Range(gaps))
    /\ QDen * Cardinality({i \in DOMAIN gaps : gaps[i] > cap})
          <= (QDen - QNum) * (Len(gaps) - 1) + QDen - 1

CapCoversTheGaps ==
    caps # None => \A sd \in Sides :
        \E n \in 1..Len(bars) :
            LET seed == SubSeq(bars, 1, n)
                gaps == AdverseGaps(seed, sd)
            IN  seed \in SeedSeries /\ gaps # <<>> /\ Covers(caps[sd], gaps)

\* The numbers an entry is decided on are those of the candles there were.
IndicatorsAreExact ==
    /\ MarketTypeOK
    /\ IncrementalIsBatch /\ VerdictIsBatch /\ FlatIsNeutral /\ AveragesStayInRange
    /\ CapCoversTheGaps

\* Every symbol has the regime of its newest good answer, and a round asks for
\* every symbol, the anchor too: a pair whose request fails keeps what it had
\* and costs no other pair its own.
CacheIsNewestGood ==
    /\ \A s \in Symbols :
           cache[s] = IF served[s] = <<>> THEN None ELSE ComputeRegime(Last(served[s]))
    /\ computes > 0 /\ pending = <<>> => asked = Symbols

\* The reward the R:R gate expects of a regime is that of the newest history in
\* which the regime was held in, even when a newer one has no such hold.
RewardIsNewestKnown ==
    \A s \in Symbols :
        LET of == [i \in DOMAIN served[s] |-> ExpectedReward(served[s][i])]
            known(g) == {i \in DOMAIN of : g \in DOMAIN of[i]}
        IN  \A g \in Regimes :
                reward[s][g] = IF known(g) = {} THEN None ELSE of[Max(known(g))][g]

\* The replay does not look ahead: the holds that a shorter history ends are
\* those the longer one ends within it, with the same rewards.
ReplayLooksBackOnly ==
    Len(bars) > 1 =>
        Replay(Front(bars)) = {h \in Replay(bars) : h.exit < Len(bars)}

\* The gate that admits a side and the exit that ends a hold read the regimes
\* alike: no position is entered in a regime that would close it at once.
EntersWhereItMayStay ==
    \A s \in Symbols : cache[s] # None =>
        \A sd \in PermittedSides(cache[s]) : ~Downgraded(sd, cache[s])

\* Every choice is viable, nothing left out is better than a choice, and none is
\* left out while there is capacity.
SelectsTheBest(v) ==
    LET viable == {s \in Symbols : v[s] # None /\ v[s] > 0}
    IN  \A capacity \in 0..2 :
            LET chosen == SelectViable(v, Targets, capacity, {})
            IN  /\ chosen \subseteq viable
                /\ \A s \in chosen, t \in viable \ chosen : v[s] >= v[t]
                /\ Cardinality(chosen) =
                       IF capacity = 0 THEN Cardinality(viable)
                       ELSE Min({capacity, Cardinality(viable)})

\* The universe is the best there is by the newest history of each symbol.
SelectionIsBest ==
    SelectsTheBest([s \in Symbols |-> IF served[s] = <<>> THEN None ELSE Viability(Last(served[s]))])

\* What is known of a symbol and chosen by it is of its own newest history, and of
\* nothing later.
RegimesAreKnown ==
    /\ CacheIsNewestGood /\ RewardIsNewestKnown /\ ReplayLooksBackOnly
    /\ EntersWhereItMayStay /\ SelectionIsBest
=============================================================================
