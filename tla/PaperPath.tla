----------------------------- MODULE PaperPath -----------------------------
(***************************************************************************)
(* mod:WS_Manager in paper mode: entries filled by the simulator, exits    *)
(* detected on the ticker or driven by the regime, and the synthetic       *)
(* wallets they move.  An entry is one step, and so is a close: the        *)
(* simulator and the close sequence never suspend.  The frames that cause  *)
(* them (candles, tickers, regimes) come in any order.                     *)
(*                                                                         *)
(* A quantity is one unit, so proceeds are prices; a quote is the side's   *)
(* realizable price (bid for a long, ask for a short).  The process keeps  *)
(* nothing it reads back after a restart, which is Init again.             *)
(***************************************************************************)
EXTENDS PositionMirror, Series

CONSTANTS
    Enters,          \* <<side, symbol>> pairs the decision path may enter
    Prices,          \* the quotes that occur
    TakerPct,        \* FEE_TAKER_PCT
    OpenPct,         \* margin_open_fee_pct, of a short
    Start,           \* paper_starting_balance of each wallet
    MaeDistances,    \* atr_14_entry * mae_mult, or None without an ATR
    StopDistance,    \* how far off the emergSL is
    LossLimit,       \* sc_consecutive_limit
    PausePct,        \* session_pause_drawdown_pct
    ConcentrationPct,\* concentration_limit
    ShortLeverage,   \* leverage_cap_short
    MaxEntries       \* bound on the entries of a behaviour

\* The assembled bot enters long only, so no symbol is entered from both sides.
ASSUME PaperAssumption ==
    /\ Enters \subseteq Sides \X Symbols
    /\ \A e, f \in Enters : e[2] = f[2] => e = f
    /\ Prices \subseteq Nat /\ TakerPct \in 0 .. 100 /\ OpenPct \in Nat
    /\ Start \in Nat \ {0} /\ MaeDistances \subseteq Nat \cup {None}
    /\ StopDistance \in Nat /\ LossLimit \in Nat
    /\ PausePct \in Nat /\ ConcentrationPct \in 0 .. 100
    /\ ShortLeverage \in Nat \ {0} /\ MaxEntries \in Nat
    /\ None \notin Nat

\* A position and its entry-time snapshot; nth is which entry opened it, a
\* field the code does not have.
Positions == [sym : Symbols, side : Sides, entry : Prices, mae : MaeDistances,
              stop : Int, nth : Nat \ {0}]

ASSUME NoneAssumption == None \notin Positions

VARIABLES
    pos,       \* the Position Mirror, with each position's entry-time snapshot
    sem,       \* _dispatch_sem, per side
    balance,   \* SyntheticCapitalLedger._balance, per side
    fee,       \* SyntheticCapitalLedger._fees_entry, per side
    heat,      \* MaeHighWaterTracker._high
    losses,    \* _selection_consecutive_loss, per side
    trigger,   \* _ticker_event_trigger
    closes,    \* closes[n]: the TRADE_CLOSE records of the n-th entry
    worst      \* history: the most adverse price seen since each entry

vars == <<pos, sem, balance, fee, heat, losses, trigger, closes, worst>>

Reasons == {"MAE_THRESHOLD_BREACH", "EMERGENCY_SL_FIRED", "REGIME_REVERSAL"}

Init ==
    /\ pos = EmptyStore
    /\ sem = [sd \in Sides |-> FALSE]
    /\ balance = [sd \in Sides |-> Start]
    /\ fee = [sd \in Sides |-> [s \in Symbols |-> None]]
    /\ heat = [s \in Symbols |-> None]
    /\ losses = [sd \in Sides |-> [s \in Symbols |-> 0]]
    /\ trigger = [s \in Symbols |-> "trades"]
    /\ closes = <<>>
    /\ worst = [s \in Symbols |-> 0]

-----------------------------------------------------------------------------
(* The synthetic ledger. *)

\* The taker fee on proceeds at x (the cents are exact in the code).
Fee(x) == (x * TakerPct) \div 100

\* entry_fill_debit: a long pays proceeds and fee, a short receives the
\* proceeds less its fees.
EntryFee(sd, p) == IF sd = "long" THEN Fee(p) ELSE Fee(p) + (p * OpenPct) \div 100
EntryCash(sd, p) == IF sd = "long" THEN -(p + EntryFee(sd, p)) ELSE p - EntryFee(sd, p)

\* Mutant: the buy-to-cover credited as a sale.
ExitCashUnsigned(sd, x) == x - Fee(x)

\* exit_fill_credit: the mirror image.
ExitCash(sd, x) == IF sd = "long" THEN x - Fee(x) ELSE -(x + Fee(x))

\* How far a price is against a position (negative: in its favour).
Loss(p, x) == IF p.side = "long" THEN p.entry - x ELSE x - p.entry
Adverse(p, x) == IF Loss(p, x) > 0 THEN Loss(p, x) ELSE 0

-----------------------------------------------------------------------------
(* Entry. *)

\* The capital an entry commits: a short's is margin.
Committed(sd, p) ==
    IF sd = "long" THEN p + Fee(p) ELSE (p + Fee(p)) \div ShortLeverage

\* Mutant: without CHECK 2.
RiskGuardUnbounded(sd, p) ==
    /\ (Start - balance[sd]) * 100 < PausePct * Start
    /\ ~sem[sd]

\* gate:G7 over the wallet.  CHECK 4 (the semaphore) means a wallet without a
\* position, whose mark-to-market value is its cash and whose exposure is 0.
RiskGuard(sd, p) ==
    /\ (Start - balance[sd]) * 100 < PausePct * Start
    /\ Committed(sd, p) * 100 <= ConcentrationPct * balance[sd]
    /\ ~sem[sd]

\* gate:G5: no position of the side on the symbol, losses below the limit.
Selectable(sd, s) == ~IsOpen(pos, s) /\ losses[sd][s] < LossLimit

StopPrice(sd, p) == IF sd = "long" THEN p - StopDistance ELSE p + StopDistance

\* dispatch_entry: the simulator's fill opens the position with the stashed
\* snapshot, takes the semaphore and moves the wallet.
Enter(sd, s, p, mae) ==
    /\ <<sd, s>> \in Enters /\ Len(closes) < MaxEntries
    /\ Selectable(sd, s) /\ RiskGuard(sd, p)
    /\ pos' = [pos EXCEPT ![s] = [sym |-> s, side |-> sd, entry |-> p, mae |-> mae,
                                  stop |-> StopPrice(sd, p), nth |-> Len(closes) + 1]]
    /\ trigger' = [trigger EXCEPT ![s] = "bbo"]
    /\ sem' = [sem EXCEPT ![sd] = TRUE]
    /\ balance' = [balance EXCEPT ![sd] = @ + EntryCash(sd, p)]
    /\ fee' = [fee EXCEPT ![sd][s] = EntryFee(sd, p)]
    /\ closes' = Append(closes, <<>>)
    /\ worst' = [worst EXCEPT ![s] = 0]
    /\ UNCHANGED <<heat, losses>>

-----------------------------------------------------------------------------
(* The close, sec 12.5 steps 2 to 10. *)

\* close_position: mirror, retained fees and MAE high-water are dropped.
ClearFees(s) == fee' = [sd \in Sides |-> [fee[sd] EXCEPT ![s] = None]]
ClearHeat(s) == heat' = [heat EXCEPT ![s] = None]

\* The net P/L of TRADE_CLOSE, from the fee retained at the entry (0 if none).
RetainedFee(s) ==
    IF \E sd \in Sides : fee[sd][s] # None
    THEN fee[CHOOSE sd \in Sides : fee[sd][s] # None][s] ELSE 0

NetPL(p, x) == -Loss(p, x) - RetainedFee(p.sym) - Fee(x)

\* Its heat: the high-water mark, lifted by the exit itself.
HeatAt(p, x, high) ==
    IF high = None \/ Adverse(p, x) > high THEN Adverse(p, x) ELSE high

\* Mutant: the semaphore is not released.
SemaphoreKept(sd) == UNCHANGED sem
ReleaseSemaphore(sd) == sem' = [sem EXCEPT ![sd] = FALSE]

\* update_selection_state_on_close: a loss counts, a win clears the count.
UpdateSelection(sd, s, isWin) ==
    losses' = [losses EXCEPT ![sd][s] = IF isWin THEN 0 ELSE @ + 1]

\* One close of the position p at x, the tracked high-water mark being `high`.
Close(p, x, reason, high) ==
    /\ balance' = [balance EXCEPT ![p.side] = @ + ExitCash(p.side, x)]
    /\ closes' = [closes EXCEPT ![p.nth] = Append(@,
           [reason |-> reason, net |-> NetPL(p, x), side |-> p.side,
            heat |-> HeatAt(p, x, high), worst |-> worst'[p.sym]])]
    /\ pos' = [pos EXCEPT ![p.sym] = None]
    /\ ClearFees(p.sym)
    /\ ClearHeat(p.sym)
    /\ UpdateSelection(p.side, p.sym, NetPL(p, x) > 0)
    /\ ReleaseSemaphore(p.side)
    /\ trigger' = [trigger EXCEPT ![p.sym] = "trades"]

-----------------------------------------------------------------------------
(* Exits. *)

\* detect_paper_exit: L2 first, at the quote; else a touched emergSL, at the
\* stop.
Breaches(p, q) == p.mae # None /\ Loss(p, q) >= p.mae
Touches(p, q) == IF p.side = "long" THEN q <= p.stop ELSE q >= p.stop

See(p, x) ==
    worst' = [worst EXCEPT ![p.sym] = IF Adverse(p, x) > @ THEN Adverse(p, x) ELSE @]

\* Mutant: only the tick itself is looked at.
MarkLast(p, q) == Adverse(p, q)

\* MaeHighWaterTracker.mark, on every tick and before the detection.
Mark(p, q) == HeatAt(p, q, heat[p.sym])

TickHolds(s, q) ==
    /\ IsOpen(pos, s) /\ ~Breaches(pos[s], q) /\ ~Touches(pos[s], q)
    /\ heat' = [heat EXCEPT ![s] = Mark(pos[s], q)]
    /\ See(pos[s], q)
    /\ UNCHANGED <<pos, sem, balance, fee, losses, trigger, closes>>

TickBreaches(s, q) ==
    /\ IsOpen(pos, s) /\ Breaches(pos[s], q)
    /\ See(pos[s], q)
    /\ Close(pos[s], q, "MAE_THRESHOLD_BREACH", Mark(pos[s], q))

TickStops(s, q) ==
    /\ IsOpen(pos, s) /\ ~Breaches(pos[s], q) /\ Touches(pos[s], q)
    /\ See(pos[s], q)
    /\ Close(pos[s], pos[s].stop, "EMERGENCY_SL_FIRED", Mark(pos[s], q))

\* _drive_regime_exit: a held pair or a missing quote changes nothing, and is
\* left out; otherwise the same close, at the cached quote.
RegimeExit(s, q) ==
    /\ IsOpen(pos, s)
    /\ See(pos[s], q)
    /\ Close(pos[s], q, "REGIME_REVERSAL", heat[s])

Next ==
    \E s \in Symbols, q \in Prices :
        \/ \E sd \in Sides, mae \in MaeDistances : Enter(sd, s, q, mae)
        \/ TickHolds(s, q) \/ TickBreaches(s, q) \/ TickStops(s, q)
        \/ RegimeExit(s, q)

Spec == Init /\ [][Next]_vars

-----------------------------------------------------------------------------
(* Properties. *)

Open == {pos[s] : s \in {x \in Symbols : IsOpen(pos, x)}}

Records == [reason : Reasons, net : Int, side : Sides, heat : Nat, worst : Nat]

\* The trigger of a symbol follows its position (WS-TKR-003), which no type
\* alone says.
TypeOK ==
    /\ pos \in [Symbols -> Positions \cup {None}]
    /\ \A s \in Symbols : IsOpen(pos, s) => pos[s].sym = s
    /\ sem \in [Sides -> BOOLEAN]
    /\ balance \in [Sides -> Int]
    /\ fee \in [Sides -> [Symbols -> Nat \cup {None}]]
    /\ heat \in [Symbols -> Nat \cup {None}]
    /\ losses \in [Sides -> [Symbols -> Nat]]
    /\ trigger = [s \in Symbols |-> IF IsOpen(pos, s) THEN "bbo" ELSE "trades"]
    /\ \A n \in DOMAIN closes : \A i \in DOMAIN closes[n] : closes[n][i] \in Records
    /\ worst \in [Symbols -> Nat]

\* What each entry has booked to a wallet: the net P/L of its record, if it closed.
Bookings(sd) ==
    [n \in DOMAIN closes |->
        IF closes[n] # <<>> /\ closes[n][1].side = sd THEN closes[n][1].net ELSE 0]

\* What a wallet has in its open position: the cash of the entry.
Invested(sd) ==
    IF \E p \in Open : p.side = sd
    THEN LET p == CHOOSE x \in Open : x.side = sd IN EntryCash(sd, p.entry)
    ELSE 0

\* HR-WM-032 and sec 12.4: the wallet and the trade records tell one story. A
\* balance is the starting balance, the net P/L of every TRADE_CLOSE and the
\* cash in the open position, over any order of entries, ticks and regimes.
WalletMatchesRecords ==
    \A sd \in Sides : balance[sd] = Start + Total(Bookings(sd)) + Invested(sd)

\* One commitment per module (AR-043): a side's semaphore, its one open position
\* and the entry fee its wallet retains come and go together.
CommitmentIsThePosition ==
    /\ \A p, q \in Open : p.side = q.side => p = q
    /\ \A sd \in Sides :
           /\ sem[sd] <=> \E p \in Open : p.side = sd
           /\ \A s \in Symbols :
                  fee[sd][s] # None <=> IsOpen(pos, s) /\ pos[s].side = sd

\* G7 CHECK 2: a long entry is paid from cash the wallet has, whatever the
\* losses before it.
LongNeverOverdrawn == balance["long"] >= 0

\* The heat a record reports (field 11) is the worst quote the position itself was
\* marked or exited at: no tick of the hold is missed, none of an earlier
\* position of the symbol is inherited.
HeatIsOfTheHold ==
    \A n \in DOMAIN closes : \A i \in DOMAIN closes[n] :
        closes[n][i].heat = closes[n][i].worst

\* The paper close keeps the promise the live close keeps (PA-005): one record
\* per position, and the semaphore with it.
Lifecycle == INSTANCE PositionLifecycle
    WITH owed <- {[nth |-> p.nth, sym |-> p.sym, side |-> p.side] : p \in Open},
         records <- [n \in DOMAIN closes |-> [i \in DOMAIN closes[n] |-> closes[n][i].reason]],
         locked <- sem

ImplementsLifecycle == Lifecycle!Spec
=============================================================================
