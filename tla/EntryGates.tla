----------------------------- MODULE EntryGates -----------------------------
(***************************************************************************)
(* The gates an entry candidate passes (src/tothbot/pipeline), from the    *)
(* pair's status to gate:G8, and the order that comes out of them, as      *)
(* operators over the inputs assemble_candidate collects.                  *)
(*                                                                         *)
(* Units: wallets and sizes in dollars, prices and ATRs in cents, a        *)
(* quantity in 1/10000 of a coin, a fraction in basis points (rounded      *)
(* down, where the code has exact decimals), a multiple in tenths.         *)
(***************************************************************************)
EXTENDS Integers, Sequences

CONSTANTS
    Registry,      \* the CIATS-owned seeds, as a record
    TakerBp,       \* FEE_TAKER_PCT
    MarginOpenBp,  \* margin_open_fee_pct
    RolloverBp,    \* margin_rollover_fee_pct, per 4 hours
    LeverageShort, \* leverage_cap_short
    SizeFloor, SizeMult, \* per_trade_size_floor_usd, per_trade_size_margin_mult
    None

Sides == {"long", "short"}
Bp == 10000

Larger(x, y) == IF x > y THEN x ELSE y
Smaller(x, y) == IF x < y THEN x ELSE y

-----------------------------------------------------------------------------
(* The regime taxonomy. *)

Directions == {"positive", "none", "negative"}
Volatilities == {"normal", "elevated"}
Regimes == [direction : Directions, volatility : Volatilities]

\* profile(r).long_entry_permitted and short_entry_permitted.
EntryPermitted(sd, r) ==
    CASE r.direction = "positive" -> sd = "long"
      [] r.direction = "negative" -> sd = "short"
      [] OTHER -> r.volatility = "normal"

\* profile(r).size_multiplier, in tenths.
SizeMultiplier(r) ==
    IF r = [direction |-> "none", volatility |-> "normal"] THEN 5 ELSE 10

PermittedSides(r) == {sd \in Sides : EntryPermitted(sd, r)}

-----------------------------------------------------------------------------
(* CycleParameters: the CIATS-owned values over the registry seeds, and the *)
(* regimes CIATS disallows; frozen for one candidate.                      *)

Parameters(owned, disallowed) == [owned |-> owned, disallowed |-> disallowed]

ParameterOf(params, name) ==
    IF name \in DOMAIN params.owned THEN params.owned[name] ELSE Registry[name]

Override(params, name, value) ==
    [params EXCEPT !.owned = [n \in DOMAIN @ \cup {name} |->
                                  IF n = name THEN value ELSE @[n]]]

-----------------------------------------------------------------------------
(* The gates, each over the side, the inputs and the parameters. *)

PairStatusPasses(sd, in) == in.status = "online" /\ (sd = "short" => in.marginable)

StateMachinePasses(in) == in.wsState = "Subscribed"

LiquidityPasses(in, params) == in.volume >= ParameterOf(params, "min_volume_usd_daily")

RegimePasses(sd, in, params) ==
    in.regime \notin params.disallowed /\ EntryPermitted(sd, in.regime)

\* gate:G4, bypassed in a normal non-directional regime.
HtfPasses(sd, in) ==
    \/ in.regime = [direction |-> "none", volatility |-> "normal"]
    \/ IF sd = "long" THEN in.dailyUp > 0 /\ in.hourlyUp > 0
                      ELSE in.dailyUp < 0 /\ in.hourlyUp < 0

\* gate:G5: body, cooldown, losing streak, no position of the side.
SelectionPasses(in, params) ==
    /\ in.bodyBp >= ParameterOf(params, "sc_body_threshold")
    /\ in.sinceExit = None \/ in.sinceExit >= ParameterOf(params, "sc_cooldown_seconds")
    /\ in.losses < ParameterOf(params, "sc_consecutive_limit")
    /\ ~in.sameSide

\* gate:G6.
RegimeSize(r, base) == (base * SizeMultiplier(r)) \div 10

\* Mutant: the fixed wallet is compared, not what it is worth now.
DrawdownOfBaseline(in) == 0

\* gate:G7 CHECK 1 in basis points of the frozen baseline.
Drawdown(in) == ((in.baseline - in.portfolio) * Bp) \div in.baseline

\* gate:G7: the first of its four checks that fails.  A wallet of nothing
\* divides by zero, after the drawdown check.
RiskGuard(in, params) ==
    CASE Drawdown(in) >= ParameterOf(params, "full_halt_drawdown_pct") -> "HALT"
      [] Drawdown(in) >= ParameterOf(params, "session_pause_drawdown_pct") -> "PAUSE"
      [] in.wallet = 0 -> "RAISES"
      [] in.committed * Bp > ParameterOf(params, "concentration_limit_per_module") * in.wallet -> "BLOCK"
      [] in.exposure * Bp > ParameterOf(params, "exposure_limit_pct") * in.wallet -> "BLOCK"
      [] in.locked -> "SKIP"
      [] OTHER -> "PASS"

\* gate:G8.  The loss at the stop, with both taker fees and a short's borrow.
StopFraction(atr, mult, price) == (atr * mult * 1000) \div price

NetLoss(sd, in, params) ==
    StopFraction(in.atr, ParameterOf(params, "mae_mult"), in.close) + 2 * TakerBp
        + IF sd = "short" THEN MarginOpenBp ELSE 0

\* rule:Sacred_R_R_1_to_1_5.
FloorHolds(reward, netLoss) == 2 * reward >= 3 * netLoss

SizePasses(sd, in, params) == FloorHolds(in.reward, NetLoss(sd, in, params))

Sized(sd, in, params) ==
    [close |-> in.close, reward |-> in.reward, netLoss |-> NetLoss(sd, in, params),
     slDistance |-> StopFraction(in.atr, ParameterOf(params, "emergency_sl_mult"), in.close)]

-----------------------------------------------------------------------------
(* run_pipeline: the stages in order; the first that fails is the verdict. *)

Stages == <<"PRE_GATE_1", "G1", "G2", "G3", "G4", "SSS", "G5", "G7", "G8">>

Passes(stage, sd, in, params) ==
    CASE stage = "PRE_GATE_1" -> PairStatusPasses(sd, in)
      [] stage = "G1"  -> StateMachinePasses(in)
      [] stage = "G2"  -> LiquidityPasses(in, params)
      [] stage = "G3"  -> RegimePasses(sd, in, params)
      [] stage = "G4"  -> HtfPasses(sd, in)
      [] stage = "SSS" -> in.signal = TRUE
      [] stage = "G5"  -> SelectionPasses(in, params)
      [] stage = "G7"  -> RiskGuard(in, params) = "PASS"
      [] stage = "G8"  -> SizePasses(sd, in, params)

RunPipeline(sd, in, params) ==
    LET failed == {i \in DOMAIN Stages : ~Passes(Stages[i], sd, in, params)}
    IN  IF failed = {} THEN [accepted |-> TRUE, stage |-> "G8", reason |-> "PASS"]
        ELSE LET first == Stages[CHOOSE i \in failed : \A j \in failed : i <= j]
             IN  [accepted |-> FALSE, stage |-> first,
                  reason |-> IF first = "G7" THEN RiskGuard(in, params) ELSE "REJECTED"]

-----------------------------------------------------------------------------
(* The order. *)

\* Mutant: only the absolute cap bounds the slippage.
CapAbsolute(sized, mpp) == mpp

\* compute_entry_order: what the reward can spare above the floor, at most the
\* pair's cap, never negative.
SlippageCap(sized, mpp) ==
    Larger(0, Smaller(mpp, sized.reward - (3 * sized.netLoss + 1) \div 2))

EntryLimit(sd, sized, mpp, bid, ask) ==
    IF sd = "long" THEN (ask * (Bp + SlippageCap(sized, mpp))) \div Bp
                   ELSE (bid * (Bp - SlippageCap(sized, mpp))) \div Bp

OrderQty(usd, limit) == (usd * 1000000) \div limit
ValueOf(qty, price) == (qty * price) \div 1000000

\* Mutant: the stop gate:G8 priced off the candle, not off the fill.
StopOffClose(sd, sized, limit) ==
    LET distance == (sized.slDistance * sized.close) \div Bp
    IN  IF sd = "long" THEN sized.close - distance ELSE sized.close + distance

\* execute_entry: the distance gate:G8 found, off the fill.
EmergencyStop(sd, sized, limit) ==
    LET distance == (sized.slDistance * sized.close) \div Bp
    IN  IF sd = "long" THEN limit - distance ELSE limit + distance

-----------------------------------------------------------------------------
(* What the candidate is sized and measured with. *)

\* per_trade_size_usd: from the pair's minimums at the candle's close.
BaseSize(costMin, qtyMin, close) ==
    Larger(SizeFloor, SizeMult * Larger(costMin, ValueOf(qtyMin, close)))

Taker(usd) == (usd * TakerBp) \div Bp

CandidateCommitted(sd, usd) ==
    IF sd = "long" THEN usd + Taker(usd) ELSE (usd + Taker(usd)) \div LeverageShort

Notional(p) == ValueOf(p.qty, p.entry)

PositionCommitted(p) ==
    IF p.side = "long" THEN Notional(p) ELSE Notional(p) \div LeverageShort

\* current_portfolio_usd of one position at the quote it can be realized at.
RolloverAccrued(usd, blocks) == (usd * RolloverBp * blocks) \div Bp

PositionWorth(p, bid, ask, blocks) ==
    IF p.side = "long" THEN ValueOf(p.qty, bid)
    ELSE ValueOf(p.qty, p.entry) - ValueOf(p.qty, ask) - RolloverAccrued(Notional(p), blocks)
=============================================================================
