----------------------------- MODULE Indicators -----------------------------
(***************************************************************************)
(* The indicators of src/tothbot/regime over a series of committed candles *)
(* (sequences of [open, high, low, close, volume]), the regime they        *)
(* classify, and the three-factor signal.                                  *)
(*                                                                         *)
(* Numbers are integers: a quotient is rounded down at every step, as the  *)
(* code's Decimal rounds it at its 28th digit.  Shares are per cent.       *)
(***************************************************************************)
EXTENDS Series, SequencesExt

CONSTANTS
    Period,                       \* of the Wilder averages: ATR, ADX, RSI
    EmaShort, EmaLong,            \* sss_ema_short, sss_ema_long
    HtfShort, HtfLong,            \* htf_ema_periods
    VolumePeriod,
    AtrWindow,                    \* atr_rolling_window
    AdxThreshold, AtrPercentileThresh,
    RsiBounds,                    \* of each side, in either order
    VolumeThreshold,              \* volume_sss_threshold, in tenths
    None

ASSUME PeriodsArePositive ==
    /\ {Period, EmaShort, EmaLong, HtfShort, HtfLong, VolumePeriod, AtrWindow} \subseteq Nat \ {0}
    /\ EmaShort <= EmaLong

Abs(x) == IF x < 0 THEN -x ELSE x
Closes(bars) == [i \in DOMAIN bars |-> bars[i].close]

\* The pairs of neighbours of a series, through an operator of both.
Neighbours(bars, Op(_, _)) == [t \in 1..(Len(bars) - 1) |-> Op(bars[t], bars[t + 1])]

-----------------------------------------------------------------------------
(* Recurrences: each starts from the mean of its first period. *)

\* Mutant: the new value does not take the place of a period's share.
NothingLeaves(prev, x, p) == (prev * p + x) \div p

\* _wilder_smma, step_rsi_state and the volume mean take the same step.
WilderStep(prev, x, p) == (prev * (p - 1) + x) \div p

EmaStep(prev, x, p) == prev + ((x - prev) * 2) \div (p + 1)

\* The values after each element from the p-th on, with a step of the value before
\* and the element.
Running(s, p, step) ==
    LET upTo[i \in p..Len(s)] ==
            IF i = p THEN <<Total(SubSeq(s, 1, p)) \div p>>
            ELSE LET before == upTo[i - 1] IN Append(before, step[Last(before)][s[i]])
    IN  upTo[Len(s)]

Wilder(p) == [prev \in Int |-> [x \in Int |-> WilderStep(prev, x, p)]]
Exponential(p) == [prev \in Int |-> [x \in Int |-> EmaStep(prev, x, p)]]

Smma(s, p) == Running(s, p, Wilder(p))
Ema(s, p) == Last(Running(s, p, Exponential(p)))

\* rolling_ema of expected_reward: None up to the p-th close, then a step each.
RollingEma(s, p) ==
    LET upTo[i \in 0..Len(s)] ==
            IF i = 0 THEN <<>>
            ELSE LET before == upTo[i - 1]
                 IN  Append(before, IF i < p THEN None
                                    ELSE IF i = p THEN Ema(SubSeq(s, 1, p), p)
                                    ELSE EmaStep(Last(before), s[i], p))
    IN  upTo[Len(s)]

-----------------------------------------------------------------------------
(* indicators.py *)

TrueRange(prev, b) == Max({b.high - b.low, Abs(b.high - prev.close), Abs(b.low - prev.close)})

Atr(bars) == Smma(Neighbours(bars, TrueRange), Period)

\* directional_movement.
PlusDM(prev, b) ==
    LET up == b.high - prev.high  down == prev.low - b.low
    IN  IF up > down /\ up > 0 THEN up ELSE 0
MinusDM(prev, b) ==
    LET up == b.high - prev.high  down == prev.low - b.low
    IN  IF down > up /\ down > 0 THEN down ELSE 0

\* The directional index of three smoothed values: 0 when nothing moved.
Dx(tr, plus, minus) ==
    LET diPlus == (100 * plus) \div tr  diMinus == (100 * minus) \div tr
    IN  IF tr = 0 \/ diPlus + diMinus = 0 THEN 0
        ELSE (100 * Abs(diPlus - diMinus)) \div (diPlus + diMinus)

Adx(bars) ==
    LET tr == Atr(bars)
        plus == Smma(Neighbours(bars, PlusDM), Period)
        minus == Smma(Neighbours(bars, MinusDM), Period)
    IN  Last(Smma([i \in DOMAIN tr |-> Dx(tr[i], plus[i], minus[i])], Period))

\* atr_percentile_rank, over the newest window.
AtrPercentileRank(series) ==
    LET buffer == SubSeq(series, Max({1, Len(series) - AtrWindow + 1}), Len(series))
        below == {i \in DOMAIN buffer : buffer[i] < Last(series)}
    IN  (100 * Cardinality(below)) \div Len(buffer)

-----------------------------------------------------------------------------
(* engine.py and taxonomy.py *)

ClassifyDirectional(adx, short, long) ==
    IF adx <= AdxThreshold THEN "none" ELSE IF short > long THEN "positive" ELSE "negative"

ClassifyVolatility(percentile) ==
    IF percentile > AtrPercentileThresh THEN "elevated" ELSE "normal"

MinRegimeBars == Max({2 * Period, HtfLong})

\* compute_regime, of a series that is long enough.
ComputeRegime(bars) ==
    [direction |-> ClassifyDirectional(Adx(bars), Ema(Closes(bars), HtfShort),
                                       Ema(Closes(bars), HtfLong)),
     volatility |-> ClassifyVolatility(AtrPercentileRank(Atr(bars)))]

-----------------------------------------------------------------------------
(* sss.py *)

\* Mutant: a rise is a negative loss.
SignedLoss(x, y) == x - y

Gain(x, y) == Max({0, y - x})
Loss(x, y) == Max({0, x - y})

RsiState(closes) ==
    [gain |-> Last(Smma(Neighbours(closes, Gain), Period)),
     loss |-> Last(Smma(Neighbours(closes, Loss), Period))]

\* Mutant: no loss is the strongest reading, even when nothing rose.
RsiFlatIsStrong(st) == IF st.loss = 0 THEN 100 ELSE 100 - (100 * st.loss) \div (st.gain + st.loss)

RsiFromState(st) ==
    CASE st.loss = 0 /\ st.gain = 0 -> 50
      [] st.loss = 0 /\ st.gain > 0 -> 100
      [] OTHER -> 100 - (100 * st.loss) \div (st.gain + st.loss)

\* volume_ma_20: a mean to start from, then smoothed.
VolumeMa(volumes) == Last(Smma(volumes, VolumePeriod))

\* The verdict of a side on [rsi, short, long, volume, volumeMa]: the momentum
\* zone (its bounds in either order), the averages, the volume.
InZone(rsi, bounds) == Min(bounds) < rsi /\ rsi < Max(bounds)

ThreeFactorPass(side, v) ==
    /\ InZone(v.rsi, RsiBounds[side])
    /\ IF side = "long" THEN v.short > v.long ELSE v.short < v.long
    /\ 10 * v.volume > VolumeThreshold * v.volumeMa

MinSignalBars == Max({EmaLong, Period + 1, VolumePeriod})

\* evaluate_sss, from the whole series.
View(bars) ==
    LET closes == Closes(bars)
        volumes == [i \in DOMAIN bars |-> bars[i].volume]
    IN  [rsi |-> RsiFromState(RsiState(closes)), short |-> Ema(closes, EmaShort),
         long |-> Ema(closes, EmaLong), volume |-> Last(volumes), volumeMa |-> VolumeMa(volumes)]

EvaluateSss(side, bars) == ThreeFactorPass(side, View(bars))

=============================================================================
