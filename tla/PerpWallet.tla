----------------------------- MODULE PerpWallet -----------------------------
(***************************************************************************)
(* The two perp pools of src/tothbot/perp, driven as the replays of        *)
(* src/scripts drive them: each candidate first realizes the exits that    *)
(* are due, is refused while the other pool holds its base, and passes the *)
(* two tiers of the hedge breaker, which are two calls of the gate:G7      *)
(* arithmetic.  A position is isolated: it can lose its posted margin, and *)
(* what the market takes beyond that is the exchange's.                    *)
(*                                                                         *)
(* Amounts in cents, rates in 1/10000, time in bars.  A realization the    *)
(* code keeps and never reads again is forgotten: one older than the       *)
(* window, one a later and higher one hides, and all of a frozen pool.     *)
(***************************************************************************)
EXTENDS Integers, FiniteSets

CONSTANTS
    Bases,
    Deposit, Clip,      \* a pool's deposit, the notional of a position
    Leverage, Maint,    \* maint_margin_ratio of the notional
    Cost,               \* two taker fees and two slippages
    HaltBp, PauseBp,    \* of each pool
    Baseline,           \* of each pool: "rolling" or "frozen"
    Window,
    Trades,             \* what a candidate turns out to be
    MaxEquity,          \* bound: no winning trade beyond it
    Absent

Pools == {"long_perp", "short_perp"}
Opposite(p) == IF p = "long_perp" THEN "short_perp" ELSE "long_perp"

-----------------------------------------------------------------------------
(* Isolated margin. *)

Margin == Clip \div Leverage
LiqLevel == Margin - Maint

\* Mutant: the whole adverse move is the pool's.
CapNothing(adverse) ==
    [liquidated |-> adverse >= LiqLevel, realized |-> adverse, absorbed |-> 0]

\* evaluate_loss_cap, of an adverse move in cents of the notional.
LossCap(adverse) ==
    IF adverse >= LiqLevel
    THEN [liquidated |-> TRUE, realized |-> Margin,
          absorbed |-> IF adverse > Margin THEN adverse - Margin ELSE 0]
    ELSE [liquidated |-> FALSE, realized |-> IF adverse < 0 THEN 0 ELSE adverse, absorbed |-> 0]

-----------------------------------------------------------------------------
(* Funding: the premium and the interest clamped around it.  A long pays a *)
(* positive rate, a short is paid it.                                      *)

InterestRate == 1
FundingClamp == 5

FundingRate(premium) ==
    LET delta == InterestRate - premium
    IN  premium + CASE delta > FundingClamp -> FundingClamp
                    [] delta < -FundingClamp -> -FundingClamp
                    [] OTHER -> delta

FundingCost(p, t) ==
    LET cumulative == (t.hold * FundingRate(t.premium) * Clip) \div 10000
    IN  IF p = "long_perp" THEN cumulative ELSE -cumulative

-----------------------------------------------------------------------------
(* What a trade realizes: resolve_perp_trade.  Its gross result, the worst *)
(* adverse move while it is held, its native stop (Absent: a trailing      *)
(* exit) and an injected gap, all in cents of the notional.                *)

Unprotected(t) == t.stop = Absent \/ t.stop >= LiqLevel

Faced(t) == IF t.gap > t.adverse THEN t.gap ELSE t.adverse

Liquidated(t) ==
    LossCap(Faced(t)).liquidated /\ (t.gap > 0 \/ Unprotected(t))

GappedThrough(t) ==
    ~Liquidated(t) /\ t.gap > 0 /\ t.stop # Absent /\ t.gap > t.stop

\* What the move of the price makes of the position.
PriceResult(t) ==
    CASE Liquidated(t) -> -LossCap(Faced(t)).realized
      [] GappedThrough(t) -> -t.gap
      [] OTHER -> t.gross

\* What comes on top: nothing after a liquidation, and nothing caps it.
Charged(p, t) ==
    CASE Liquidated(t) -> 0
      [] GappedThrough(t) -> Cost
      [] OTHER -> Cost + FundingCost(p, t)

Realized(p, t) == PriceResult(t) - Charged(p, t)

TradesAssumption ==
    \A t \in Trades :
        /\ t.base \in Bases /\ t.hold \in Nat \ {0}
        /\ \A x \in {t.gross, t.adverse, t.gap, t.premium} : x \in Int
        /\ t.stop \in Nat \cup {Absent}
        \* The exit is no worse than the worst move, and a stop that is not
        \* gapped through fills.
        /\ t.adverse >= 0 /\ t.gap >= 0 /\ t.gross >= -t.adverse
        /\ t.stop # Absent => t.gross >= -t.stop

ASSUME TradesAreResolved == TradesAssumption

ASSUME PoolsAreFunded ==
    /\ Absent \notin Int
    /\ IsFiniteSet(Bases)
    /\ {Deposit, Clip, Leverage, Margin} \subseteq Nat \ {0}
    /\ Margin * Leverage = Clip
    /\ {Maint, Cost, Window} \subseteq Nat
    /\ Maint < Margin

-----------------------------------------------------------------------------
VARIABLES
    equity,     \* PerpPool._equity
    opens,      \* of each pool and base: the position, or Absent
    seen,       \* the realizations RollingPeakTracker holds, by age
    halted,     \* the pool trades no more
    charged     \* history: costs and funding realized since the pool's last admission

poolVars == <<equity, opens, seen, halted, charged>>

Held(p) == {b \in Bases : opens[p][b] # Absent}
Due(p) == {b \in Held(p) : opens[p][b].left = 0}

\* A long commits its notional, a short its margin.
CommittedUnit(p) == IF p = "long_perp" THEN Clip ELSE Margin

\* Mutant: as the replay of tb00809, the open positions are left out.
CommittedAlone(p) == CommittedUnit(p)

TotalCommitted(p) == CommittedUnit(p) * (Cardinality(Held(p)) + 1)

-----------------------------------------------------------------------------
(* The breaker. *)

G7 == INSTANCE EntryGates WITH
        Registry <- [concentration_limit_per_module |-> 10000, exposure_limit_pct |-> 10000],
        TakerBp <- 0, MarginOpenBp <- 0, RolloverBp <- 0, LeverageShort <- Leverage,
        SizeFloor <- 0, SizeMult <- 0, None <- Absent

Disabled == 1000000000

Guard(p, baseline, halt, pause) ==
    G7!RiskGuard([baseline |-> baseline, portfolio |-> equity[p], wallet |-> equity[p],
                  committed |-> CommittedUnit(p), exposure |-> TotalCommitted(p),
                  locked |-> FALSE],
                 G7!Parameters([full_halt_drawdown_pct |-> halt,
                                session_pause_drawdown_pct |-> pause], {}))

\* RollingPeakTracker.peak.
Peak(p) ==
    LET levels == {s.equity : s \in seen[p]} \cup {equity[p]}
    IN  CHOOSE e \in levels : \A f \in levels : f <= e

\* Mutant: the deposit is the baseline of both tiers.
FrozenBaseline(p) == Deposit

PauseBaseline(p) == IF Baseline[p] = "rolling" THEN Peak(p) ELSE Deposit

\* evaluate_hedge_breaker.
Breaker(p) ==
    IF Guard(p, Deposit, HaltBp[p], Disabled) = "HALT" THEN "HALT"
    ELSE Guard(p, PauseBaseline(p), Disabled, PauseBp[p])

-----------------------------------------------------------------------------
PoolsInit ==
    /\ equity = [p \in Pools |-> Deposit]
    /\ opens = [p \in Pools |-> [b \in Bases |-> Absent]]
    /\ seen = [p \in Pools |-> {}]
    /\ halted = [p \in Pools |-> FALSE]
    /\ charged = [p \in Pools |-> 0]

\* Mutant: the pool looks for the base among its own positions.
CollidesWithItself(p, t) == opens[p][t.base] # Absent

\* collides: both intervals start at or before now and end after it.
Collides(p, t) == opens[Opposite(p)][t.base] # Absent

Candidate(p, t) ==
    /\ Due(p) = {} /\ Due(Opposite(p)) = {}
    /\ ~halted[p]
    /\ opens[p][t.base] = Absent
    /\ ~Collides(p, t)
    /\ Realized(p, t) > 0 => equity[p] <= MaxEquity
    /\ \/ /\ Breaker(p) = "HALT"
          /\ halted' = [halted EXCEPT ![p] = TRUE]
          /\ UNCHANGED <<opens, charged>>
       \/ /\ Breaker(p) = "PASS"
          /\ opens' = [opens EXCEPT ![p][t.base] =
                        [left |-> t.hold, pnl |-> Realized(p, t), charged |-> Charged(p, t)]]
          /\ charged' = [charged EXCEPT ![p] = 0]
          /\ UNCHANGED halted
    /\ UNCHANGED <<equity, seen>>

\* RollingPeakTracker.observe.
Observed(p, level) ==
    IF Baseline[p] = "frozen" THEN {}
    ELSE {s \in seen[p] : s.equity > level} \cup {[age |-> 0, equity |-> level]}

\* realize_until, one position: at one time the worst result comes first.
Realize(p, b) ==
    /\ b \in Due(p)
    /\ \A c \in Due(p) : opens[p][b].pnl <= opens[p][c].pnl
    /\ equity' = [equity EXCEPT ![p] = @ + opens[p][b].pnl]
    /\ opens' = [opens EXCEPT ![p][b] = Absent]
    /\ seen' = [seen EXCEPT ![p] = Observed(p, equity'[p])]
    /\ charged' = [charged EXCEPT ![p] = @ + opens[p][b].charged]
    /\ UNCHANGED halted

Aged(p) == {[s EXCEPT !.age = @ + 1] : s \in {r \in seen[p] : r.age < Window}}

Bar ==
    /\ \A p \in Pools : Due(p) = {}
    /\ opens' = [p \in Pools |-> [b \in Bases |->
                   IF opens[p][b] = Absent THEN Absent
                   ELSE [opens[p][b] EXCEPT !.left = @ - 1]]]
    /\ seen' = [p \in Pools |-> Aged(p)]
    /\ UNCHANGED <<equity, halted, charged>>

Clock == Bar \/ \E p \in Pools, b \in Bases : Realize(p, b)

PoolsNext == Clock \/ \E p \in Pools, t \in Trades : Candidate(p, t)

PoolsSpec == PoolsInit /\ [][PoolsNext]_poolVars

FairPoolsSpec == PoolsSpec /\ WF_poolVars(Clock)

-----------------------------------------------------------------------------
(* Properties. *)

Holdings == [left : Nat, pnl : Int, charged : Int]

\* Pools hold whole amounts and one position of a base at most, and a
\* position's result is decided when it is taken.
PoolsTypeOK ==
    /\ equity \in [Pools -> Int]
    /\ opens \in [Pools -> [Bases -> Holdings \cup {Absent}]]
    /\ seen \in [Pools -> SUBSET [age : 0..Window, equity : Int]]
    /\ halted \in [Pools -> BOOLEAN]
    /\ charged \in [Pools -> Int]

\* The price costs no position more than the margin it posted, a long's as a
\* short's and whatever gap the market makes
\* (rule:Perp_Isolated_Margin_Loss_Cap).  The two fees, the slippage and the
\* funding of a position that is not liquidated come on top, uncapped.
LossIsCapped ==
    \A p \in Pools : \A b \in Held(p) :
        opens[p][b].pnl >= -Margin - opens[p][b].charged

\* If the price took the whole commitment of every open position at once (a
\* long's notional, a short's margin), the pool would still pay it, but for
\* the costs and funding charged since it last admitted a position: the
\* exposure check counts the positions already open, and not what they are
\* going to be charged.
Solvent ==
    \A p \in Pools : equity[p] + charged[p] >= CommittedUnit(p) * Cardinality(Held(p))

\* The account is never long and short of one base
\* (rule:No_Same_Instrument_Collision).
NeverAgainstItself == Held("long_perp") \cap Held("short_perp") = {}

\* The price cannot ruin the pools: not in one market, not in all of them at
\* once, not in one base from both sides.
PoolsAreSafe == LossIsCapped /\ Solvent /\ NeverAgainstItself

\* A pool whose pause looks back over the window is released by time alone,
\* without a winning trade (the deadlock law of breaker.py): it is never
\* paused for good.
PauseRearms ==
    \A p \in Pools :
        Baseline[p] = "rolling" => []<>(halted[p] \/ Breaker(p) # "PAUSE")
=============================================================================
