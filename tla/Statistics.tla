----------------------------- MODULE Statistics -----------------------------
(***************************************************************************)
(* The tests CIATS decides with (src/tothbot/ciats/statistical_engine.py   *)
(* and the CHECK of pdca_engine.py), over sequences of integers.  What the *)
(* code divides is compared here in whole numbers, so a threshold is met   *)
(* or missed exactly.                                                      *)
(***************************************************************************)
EXTENDS Series, SequencesExt

CONSTANTS
    ZSquared,    \* the one-sided critical value, squared, in hundredths
    RhoSquared,  \* SPEARMAN_RHO_MIN, squared, in hundredths
    TSquared     \* SPEARMAN_T_CRIT, squared, in hundredths

Times(x, y) == [i \in DOMAIN x |-> x[i] * y[i]]

\* Mutant: tied values are ranked by their place in the series.
RanksByPlace(s) ==
    [i \in DOMAIN s |-> 2 * Cardinality({j \in DOMAIN s : s[j] < s[i] \/ (s[j] = s[i] /\ j <= i)})]

\* _average_ranks, doubled: the ranks of a tied group are its first and its
\* last place, averaged.
AverageRanks(s) ==
    [i \in DOMAIN s |->
        LET first == Cardinality({j \in DOMAIN s : s[j] < s[i]}) + 1
            last  == Cardinality({j \in DOMAIN s : s[j] <= s[i]})
        IN  first + last]

\* _tie_correction: t^3 - t of each tied group, that is t^2 - 1 of each member.
TieCorrection(s) ==
    Total([i \in DOMAIN s |-> LET t == Cardinality({j \in DOMAIN s : s[j] = s[i]}) IN t * t - 1])

\* mann_whitney_u: twice U1, from the ranks of the pooled samples.
U1(a, b) ==
    LET ranks == AverageRanks(a \o b)
    IN  Total(SubSeq(ranks, 1, Len(a))) - Len(a) * (Len(a) + 1)

\* Twice the distance of U1 from its mean, drawn in by the continuity correction.
Deviation(a, b) ==
    LET diff == U1(a, b) - Len(a) * Len(b)
    IN  IF diff > 0 THEN Max({0, diff - 1}) ELSE Min({0, diff + 1})

\* 12 n (n - 1) times the variance of U1.
Variance(a, b) ==
    LET n == Len(a) + Len(b)
    IN  Len(a) * Len(b) * ((n + 1) * n * (n - 1) - TieCorrection(a \o b))

\* check_phase: the candidate outcomes are greater, one-sided.
ZPasses(a, b) ==
    LET n == Len(a) + Len(b)
        d == Deviation(a, b)
    IN  Variance(a, b) > 0 /\ d > 0 /\ 300 * n * (n - 1) * d * d > ZSquared * Variance(a, b)

\* sharpe_ratio raises for one return, and for returns that do not vary.
SharpeDefined(s) == Len(s) >= 2 /\ Cardinality(Range(s)) > 1

Check(candidate, baseline) ==
    CASE ~SharpeDefined(candidate) \/ ~SharpeDefined(baseline) -> "RAISES"
      [] ZPasses(candidate, baseline) -> "PASSED"
      [] OTHER -> "FAILED"

\* spearman_rho, as its sign and its size: the covariance and the variances of
\* the ranks.
Covariance(x, y) == Len(x) * Total(Times(x, y)) - Total(x) * Total(y)

Spearman(x, y) ==
    LET rx == AverageRanks(x)  ry == AverageRanks(y)
    IN  [cov |-> Covariance(rx, ry), var |-> Covariance(rx, rx) * Covariance(ry, ry)]

\* spearman_significant: large enough, and by Student's t.
Significant(x, y) ==
    LET r == Spearman(x, y)
        rho2 == r.cov * r.cov
    IN  /\ Cardinality(Range(x)) > 1 /\ Cardinality(Range(y)) > 1
        /\ Len(x) > 2 /\ 100 * rho2 > RhoSquared * r.var
        /\ rho2 >= r.var \/ 100 * rho2 * (Len(x) - 2) > TSquared * (r.var - rho2)

\* The greater correlation of two, of the squares to three places.
Stronger(r, s) == (1000 * r.cov * r.cov) \div r.var > (1000 * s.cov * s.cov) \div s.var

Median(s) ==
    LET xs == OrderStatistics(s)
        mid == Len(xs) \div 2
    IN  IF Len(xs) % 2 = 1 THEN xs[mid + 1] ELSE (xs[mid] + xs[mid + 1]) \div 2
=============================================================================
