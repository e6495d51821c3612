---------------------------- MODULE RewardReplay ----------------------------
(***************************************************************************)
(* The reward a pair's own history lets expect (src/tothbot/ciats:         *)
(* expected_reward.py, viability.py, and the quantile of                   *)
(* seed_estimators.py).  Every daily bar is entered on each side its       *)
(* regime permits and left at the first later bar that would end the hold; *)
(* what each hold made is collected by the regime it was entered in.       *)
(* Rewards are in basis points of the entry.                               *)
(***************************************************************************)
EXTENDS Indicators

CONSTANTS
    DecisionFast, DecisionSlow    \* DECISION_EMA_FAST, DECISION_EMA_SLOW

ASSUME DecisionPeriods ==
    /\ {DecisionFast, DecisionSlow} \subseteq Nat \ {0} /\ DecisionFast <= DecisionSlow
    /\ Period < DecisionSlow

Sides == {"long", "short"}
Regimes == [direction : {"positive", "none", "negative"}, volatility : {"normal", "elevated"}]

\* PROFILES: the sides a regime admits.
PermittedSides(g) ==
    CASE g.direction = "positive" -> {"long"}
      [] g.direction = "negative" -> {"short"}
      [] g.direction = "none" /\ g.volatility = "normal" -> Sides
      [] OTHER                    -> {}

\* Mutant: any regime but the side's own trend ends the hold.
AnyOtherTrend(side, g) == g.direction # (IF side = "long" THEN "positive" ELSE "negative")

\* detect_daily_regime_downgrade.
Downgraded(side, g) ==
    \/ g.direction = (IF side = "long" THEN "negative" ELSE "positive")
    \/ g = [direction |-> "none", volatility |-> "elevated"]

\* detect_htf_regime_reversal, on averages that may not be there yet.
Reversed(side, short, long) ==
    /\ short # None /\ long # None
    /\ IF side = "long" THEN short < long ELSE short > long

\* Mutant: every bar is classified by the whole history.
InHindsight(bars, j) == IF Len(bars) < MinRegimeBars THEN None ELSE ComputeRegime(bars)

\* The regime of a bar, from the bars up to it.
ClassAt(bars, j) == IF j < MinRegimeBars THEN None ELSE ComputeRegime(SubSeq(bars, 1, j))

\* rolling_classifications.
Classes(bars) ==
    LET upTo[j \in 0..Len(bars)] ==
            IF j = 0 THEN <<>> ELSE Append(upTo[j - 1], ClassAt(bars, j))
    IN  upTo[Len(bars)]

Excursion(side, entry, exit) ==
    (10000 * (IF side = "long" THEN exit - entry ELSE entry - exit)) \div entry

\* The holds of a history, given each bar's regime and averages: one that
\* nothing ended yet is left out.
Holds(bars, classes, fast, slow) ==
    LET ends(i, side) ==
            {j \in (i + 1)..Len(bars) :
                /\ classes[j] # None
                /\ Downgraded(side, classes[j]) \/ Reversed(side, fast[j], slow[j])}
        holds == {h \in (DOMAIN bars) \X Sides :
                      /\ classes[h[1]] # None /\ h[2] \in PermittedSides(classes[h[1]])
                      /\ ends(h[1], h[2]) # {}}
    IN  {LET exit == Min(ends(h[1], h[2]))
         IN  [entry |-> h[1], side |-> h[2], exit |-> exit, regime |-> classes[h[1]],
              reward |-> Excursion(h[2], bars[h[1]].close, bars[exit].close)] : h \in holds}

\* replay_excursions.
Replay(bars) ==
    Holds(bars, Classes(bars), RollingEma(Closes(bars), DecisionFast),
          RollingEma(Closes(bars), DecisionSlow))

-----------------------------------------------------------------------------
\* Mutant: the rank is counted from the largest.
FromTheTop(values, num, den) ==
    LET xs == Reverse(OrderStatistics(values))
        rank == num * (Len(xs) - 1)
        lo == rank \div den
    IN  IF lo >= Len(xs) - 1 THEN Last(xs)
        ELSE xs[lo + 1] + ((rank % den) * (xs[lo + 2] - xs[lo + 1])) \div den

\* quantile: linear between the two ranks around num / den.
Quantile(values, num, den) ==
    LET xs == OrderStatistics(values)
        rank == num * (Len(xs) - 1)
        lo == rank \div den
    IN  IF lo >= Len(xs) - 1 THEN Last(xs)
        ELSE xs[lo + 1] + ((rank % den) * (xs[lo + 2] - xs[lo + 1])) \div den

\* The rewards of the holds entered in a regime, and their median.
RewardsOf(holds, g) ==
    LET its == SetToSeq({h \in holds : h.regime = g}) IN [i \in DOMAIN its |-> its[i].reward]
MedianReward(holds, g) == Quantile(RewardsOf(holds, g), 1, 2)

Medians(holds) == [g \in {h.regime : h \in holds} |-> MedianReward(holds, g)]

\* compute_expected_reward: nothing of a regime without a hold.
ExpectedReward(bars) == Medians(Replay(bars))

\* The medians, each with the share of its holds.
WeightedMedian(holds) ==
    LET seen == SetToSeq({h.regime : h \in holds})
    IN  IF holds = {} THEN None
        ELSE Total([i \in DOMAIN seen |-> Len(RewardsOf(holds, seen[i])) * MedianReward(holds, seen[i])])
                 \div Cardinality(holds)

\* weighted_viability.
Viability(bars) == WeightedMedian(Replay(bars))

\* Mutant: the ranking is ascending.
WorstFirst(v, s, t) == v[s] < v[t]

\* The ranking of two symbols; equals go by name, the later name first.
Outranks(v, s, t) == v[s] > v[t]

\* select_viable_universe: the best, as many as there is capacity for (0: all),
\* and whatever is always kept.
SelectViable(v, names, capacity, always) ==
    LET viable == {i \in DOMAIN names : v[names[i]] # None /\ v[names[i]] > 0}
        above(i) == {j \in viable : \/ Outranks(v, names[j], names[i])
                                    \/ v[names[j]] = v[names[i]] /\ j > i}
    IN  {names[i] : i \in {k \in viable : capacity <= 0 \/ Cardinality(above(k)) < capacity}}
            \cup always
=============================================================================
