--------------------------- MODULE EntryDecision ---------------------------
(***************************************************************************)
(* Entry decisions of the two paper wallets: what a candle makes of a pair *)
(* (src/tothbot/pipeline/sweep.py and live_driver.py), through the gates   *)
(* to the position, and what the close feeds back to the next decision.    *)
(*                                                                         *)
(* What the caches, the regime engine and the folds serve at a decision is *)
(* an input, a feed; a field that is not there yet is None.  A candidate   *)
(* is one step: in paper mode nothing suspends between the inputs and the  *)
(* fill.  Detection of exits is PaperPath's: a close here may come at any  *)
(* quote.  Two routes exist: the 24h decision, long only, which the bot    *)
(* assembles, and the 5m sweep of the permitted sides.                     *)
(***************************************************************************)
EXTENDS EntryGates

CONSTANTS
    Symbols,
    Routes,        \* subset of {"decision", "sweep"}
    Enters,        \* <<side, symbol>>: no symbol is entered from both sides
    Feeds,         \* what may be served at a decision
    Quotes,        \* [bid, ask] of a symbol while its position is open
    Blocks,        \* 4h blocks a short may have been held
    Tunings,       \* <<side, name, value>>: writes of the CIATS parameter stores
    Disallowances, \* <<side, regimes>> the regime libraries may disallow
    DecisionStopMult, \* decision_atr_stop_mult
    Start,         \* paper_starting_balance
    MaxEntries     \* bound on the entries of a behaviour

\* What the mirror keeps of a position.  `why` is what gate:G8 and the order
\* sizing found; the code logs it.
Positions ==
    [sym : Symbols, side : Sides, entry : Nat, atr : Nat, qty : Nat, stop : Int,
     why : [close : Nat, reward : Int, netLoss : Int, cap : Nat]]

\* What the proofs use.
ASSUME DecisionAssumption ==
    /\ Routes \subseteq {"decision", "sweep"}
    /\ Enters \subseteq Sides \X Symbols
    /\ \A d, e \in Enters : d[2] = e[2] => d = e
    /\ Start \in Nat \ {0} /\ MaxEntries \in Nat
    /\ Registry["mae_mult"] \in Nat /\ DecisionStopMult \in Nat
    /\ Registry["emergency_sl_mult"] \in Nat
    /\ Registry["sc_cooldown_seconds"] \in Nat /\ Registry["sc_consecutive_limit"] \in Nat
    /\ Registry["session_pause_drawdown_pct"] \in Nat
    /\ TakerBp \in Nat /\ MarginOpenBp \in Nat
    /\ SizeFloor \in Nat /\ SizeFloor >= 2 /\ SizeMult \in Nat
    /\ Quotes \subseteq [bid : Nat, ask : Nat]
    /\ Tunings \subseteq Sides \X STRING \X Nat
    /\ None \notin Positions

\* The providers raise ProviderNotReady for what has not arrived, and the
\* candidate is skipped.
Ready(f) == \A field \in {"pair", "volume", "quote", "reward", "mpp"} : f[field] # None

\* What is served at a decision is typed once it is there; a limit within the
\* pair's cap is a price, and the smallest size buys a grain of quantity at it.
ASSUME FeedAssumption ==
    \A f \in Feeds :
        /\ f.close \in Nat \ {0} /\ f.atr \in Nat /\ f.regime \in Regimes
        /\ Ready(f) =>
               /\ f.pair.costMin \in Nat /\ f.pair.qtyMin \in Nat
               /\ f.reward \in Int /\ f.mpp \in 0 .. Bp - 1
               /\ f.quote.bid \in Nat /\ f.quote.ask \in Nat \ {0}
               /\ f.quote.bid * (Bp - f.mpp) >= Bp
               /\ {f.quote.bid, 2 * f.quote.ask} \subseteq 0 .. 1000000 * (SizeFloor \div 2)

VARIABLES
    route,      \* how the driver is wired
    stopMult,   \* WSManager._decision_stop_mult, the L2 multiple
    cash,       \* the wallets
    pos,        \* the mirror: a symbol's position or None
    sem,        \* _dispatch_sem
    losses,     \* _selection_consecutive_loss
    sinceExit,  \* age of _selection_cooldown, None without a losing exit
    owned,      \* the CIATS parameter stores
    disallowed, \* the regimes each CIATS module disallows
    entered     \* number of entries (bounds the behaviour)

vars == <<route, stopMult, cash, pos, sem, losses, sinceExit, owned, disallowed,
          entered>>

\* The bootstrap rebinds the L2 multiple for the decision route only.
Init ==
    /\ route \in Routes
    /\ stopMult = IF route = "decision" THEN DecisionStopMult ELSE Registry["mae_mult"]
    /\ cash = [sd \in Sides |-> Start]
    /\ pos = [s \in Symbols |-> None]
    /\ sem = [sd \in Sides |-> FALSE]
    /\ losses = [sd \in Sides |-> [s \in Symbols |-> 0]]
    /\ sinceExit = [sd \in Sides |-> [s \in Symbols |-> None]]
    /\ owned = [sd \in Sides |-> <<>>]
    /\ disallowed = [sd \in Sides |-> {}]
    /\ entered = 0

Held(sd) == {pos[s] : s \in {x \in Symbols : pos[x] # None /\ pos[x].side = sd}}

-----------------------------------------------------------------------------
(* The inputs of a candidate. *)

\* The quote a held position is marked at; its own symbol's is the feed's.
MarkOf(p, s, f, q) == IF p.sym = s THEN f.quote ELSE q

\* With nothing held there is nothing to mark.
Marks(sd) == IF Held(sd) = {} THEN {None} ELSE Quotes \cup {None}
HeldFor(sd) == IF Held(sd) = {} THEN {0} ELSE Blocks

Marked(sd, s, f, q) == \A p \in Held(sd) : MarkOf(p, s, f, q) # None

\* current_portfolio_usd.  At most one position per side is held.
Portfolio(sd, s, f, q, blocks) ==
    cash[sd] + IF Held(sd) = {} THEN 0
               ELSE LET p == CHOOSE x \in Held(sd) : TRUE
                        m == MarkOf(p, s, f, q)
                    IN  PositionWorth(p, m.bid, m.ask, blocks)

TotalCommitted(sd) ==
    IF Held(sd) = {} THEN 0 ELSE PositionCommitted(CHOOSE x \in Held(sd) : TRUE)

BaseOf(f) == BaseSize(f.pair.costMin, f.pair.qtyMin, f.close)
UsdOf(f) == RegimeSize(f.regime, BaseOf(f))

\* assemble_candidate.
Inputs(sd, s, f, q, blocks) ==
    [status |-> f.pair.status, marginable |-> f.pair.marginable, volume |-> f.volume,
     wsState |-> f.wsState, regime |-> f.regime, dailyUp |-> f.dailyUp,
     hourlyUp |-> f.hourlyUp, bodyBp |-> f.bodyBp, close |-> f.close, atr |-> f.atr,
     reward |-> f.reward,
     \* the decision route's signal is the cross that caused it
     signal |-> route = "decision" \/ f.signal,
     sinceExit |-> sinceExit[sd][s], losses |-> losses[sd][s],
     sameSide |-> pos[s] # None /\ pos[s].side = sd,
     wallet |-> cash[sd], baseline |-> Start,
     portfolio |-> Portfolio(sd, s, f, q, blocks),
     committed |-> CandidateCommitted(sd, UsdOf(f)), exposure |-> TotalCommitted(sd),
     locked |-> sem[sd]]

\* Mutant: the stop multiple CIATS tuned reaches the decision route's gate.
ParametersTuned(sd) == Parameters(owned[sd], disallowed[sd])

\* make_cycle_parameters_provider, and _decision_cycle_parameters over it.
CycleParameters(sd) ==
    IF route = "decision"
    THEN Override(Parameters(owned[sd], disallowed[sd]), "mae_mult", DecisionStopMult)
    ELSE Parameters(owned[sd], disallowed[sd])

-----------------------------------------------------------------------------
(* The wallet. *)

Fee(sd, usd) == Taker(usd) + IF sd = "short" THEN (usd * MarginOpenBp) \div Bp ELSE 0
EntryCash(sd, usd) == IF sd = "long" THEN -(usd + Fee(sd, usd)) ELSE usd - Fee(sd, usd)
ExitCash(sd, usd) == IF sd = "long" THEN usd - Taker(usd) ELSE -(usd + Taker(usd))

NetPL(p, x) == EntryCash(p.side, Notional(p)) + ExitCash(p.side, ValueOf(p.qty, x))

-----------------------------------------------------------------------------
(* Actions. *)

\* The sides a candle makes a candidate of.
SidesOf(f) == IF route = "decision" THEN {"long"} ELSE PermittedSides(f.regime)

Candidate(sd, s, f, q) ==
    /\ <<sd, s>> \in Enters /\ sd \in SidesOf(f)
    /\ Ready(f) /\ Marked(sd, s, f, q)

\* The position the paper simulator opens, filled at the limit.
Opened(sd, s, f, sized) ==
    LET limit == EntryLimit(sd, sized, f.mpp, f.quote.bid, f.quote.ask)
    IN  [sym |-> s, side |-> sd, entry |-> limit, atr |-> f.atr,
         qty |-> OrderQty(UsdOf(f), limit),
         stop |-> EmergencyStop(sd, sized, limit),
         why |-> [close |-> f.close, reward |-> f.reward, netLoss |-> sized.netLoss,
                  cap |-> SlippageCap(sized, f.mpp)]]

\* process_candidate.  A rejected candidate changes nothing but the log.
Decide(sd, s, f, q, blocks) ==
    /\ entered < MaxEntries /\ Candidate(sd, s, f, q)
    /\ LET in == Inputs(sd, s, f, q, blocks)
           p == Opened(sd, s, f, Sized(sd, in, CycleParameters(sd)))
       IN  /\ RunPipeline(sd, in, CycleParameters(sd)).accepted
           /\ pos' = [pos EXCEPT ![s] = p]
           /\ cash' = [cash EXCEPT ![sd] = @ + EntryCash(sd, Notional(p))]
    /\ sem' = [sem EXCEPT ![sd] = TRUE]
    /\ entered' = entered + 1
    /\ UNCHANGED <<route, stopMult, losses, sinceExit, owned, disallowed>>

\* Mutant: a loss lowers the streak.
LossLowers(sd, s, isWin) == losses' = [losses EXCEPT ![sd][s] = IF isWin THEN 0 ELSE @ - 1]

\* update_selection_state_on_close: a loss counts and starts the cooldown.
CountLoss(sd, s, isWin) == losses' = [losses EXCEPT ![sd][s] = IF isWin THEN 0 ELSE @ + 1]

Close(s, x) ==
    /\ pos[s] # None
    /\ LET p == pos[s]
           isWin == NetPL(p, x) > 0
       IN  /\ cash' = [cash EXCEPT ![p.side] = @ + ExitCash(p.side, ValueOf(p.qty, x))]
           /\ CountLoss(p.side, s, isWin)
           /\ sinceExit' = IF isWin THEN sinceExit ELSE [sinceExit EXCEPT ![p.side][s] = 0]
           /\ sem' = [sem EXCEPT ![p.side] = FALSE]
    /\ pos' = [pos EXCEPT ![s] = None]
    /\ UNCHANGED <<route, stopMult, owned, disallowed, entered>>

\* The monotonic clock, up to the cooldown it is compared with.
Wait ==
    /\ sinceExit' = [sd \in Sides |-> [s \in Symbols |->
           IF sinceExit[sd][s] = None THEN None
           ELSE Smaller(Registry["sc_cooldown_seconds"], sinceExit[sd][s] + 1)]]
    /\ UNCHANGED <<route, stopMult, cash, pos, sem, losses, owned, disallowed, entered>>

\* CIATS writes an approved change; the next candidate reads it.
Tune(sd, name, value) ==
    /\ owned' = [owned EXCEPT ![sd] = [n \in DOMAIN @ \cup {name} |->
                                           IF n = name THEN value ELSE @[n]]]
    /\ UNCHANGED <<route, stopMult, cash, pos, sem, losses, sinceExit, disallowed, entered>>

Disallow(sd, regimes) ==
    /\ disallowed' = [disallowed EXCEPT ![sd] = regimes]
    /\ UNCHANGED <<route, stopMult, cash, pos, sem, losses, sinceExit, owned, entered>>

Next ==
    \/ \E e \in Enters, f \in Feeds : \E q \in Marks(e[1]), blocks \in HeldFor(e[1]) :
           Decide(e[1], e[2], f, q, blocks)
    \/ \E s \in Symbols, q \in Quotes : \E x \in {q.bid, q.ask} : Close(s, x)
    \/ Wait
    \/ \E t \in Tunings : Tune(t[1], t[2], t[3])
    \/ \E d \in Disallowances : Disallow(d[1], d[2])

Spec == Init /\ [][Next]_vars

-----------------------------------------------------------------------------
(* Properties. *)

Open == {pos[s] : s \in {x \in Symbols : pos[x] # None}}

\* A side's semaphore is its position, and a position is filed under its own
\* symbol and worth something.
TypeOK ==
    /\ route \in Routes
    /\ cash \in [Sides -> Int]
    /\ pos \in [Symbols -> Positions \cup {None}]
    /\ \A s \in Symbols : pos[s] # None => pos[s].sym = s /\ pos[s].qty > 0
    /\ \A sd \in Sides : sem[sd] <=> Held(sd) # {}
    /\ losses \in [Sides -> [Symbols -> Nat]]
    /\ \A sd \in Sides, s \in Symbols :
           losses[sd][s] > 0 => sinceExit[sd][s] \in Nat
    /\ \A sd \in Sides : ParameterOf(CycleParameters(sd), "mae_mult") \in Nat
    /\ entered \in 0 .. MaxEntries

\* rule:Sacred_R_R_1_to_1_5 at the worst fill the order allows: slippage up to
\* the IOC limit leaves the reward at least 1.5 times the loss.
FloorSurvivesSlippage ==
    \A p \in Open : FloorHolds(p.why.reward - p.why.cap, p.why.netLoss)

\* One 1R basis (TB00790): filled at or above the close it was decided on, a
\* position of the decision route loses at its layer:L2 stop no more than the
\* net loss gate:G8 accepted it for, whatever CIATS writes in between.
OneRBasis ==
    route = "decision" =>
        \A p \in Open : p.entry >= p.why.close =>
            StopFraction(p.atr, stopMult, p.entry) + 2 * TakerBp <= p.why.netLoss

\* layer:L3 stays outermost: the resting stop of a position lies beyond the
\* price at which layer:L2 closes it, wherever the fill was.
StopBeyondL2 ==
    \A p \in Open :
        LET l2 == (p.atr * stopMult) \div 10
        IN  IF p.side = "long" THEN p.stop <= p.entry - l2 ELSE p.stop >= p.entry + l2

\* The gates, the order and the two stops of a position agree with each other,
\* although they take their parameters from different places at different times.
OrderKeepsTheGates == TypeOK /\ FloorSurvivesSlippage /\ OneRBasis /\ StopBeyondL2

\* What the wallet of an open position held when it was decided.
WalletBefore(p) == cash[p.side] - EntryCash(p.side, Notional(p))

\* Losses stop what keeps losing (the PAUSE of gate:G7, the streak of gate:G5): a
\* wallet opens nothing from its pause drawdown on, and a side never loses more
\* often in a row on a symbol than the limit says.  That a paused session
\* "resumes next" (risk_guard.py) is not in the code and not stated here.
LossesStopTheSide ==
    /\ \A p \in Open :
           (Start - WalletBefore(p)) * Bp < Registry["session_pause_drawdown_pct"] * Start
    /\ \A sd \in Sides, s \in Symbols :
           losses[sd][s] <= Registry["sc_consecutive_limit"]
=============================================================================
