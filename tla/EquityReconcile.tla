-------------------------- MODULE EquityReconcile --------------------------
(***************************************************************************)
(* What the live bot takes the short wallet to be worth: the cash of the   *)
(* last balances frame, the mirror's open short at the ask less the        *)
(* rollover it estimates, and the offset PeriodicTradeBalanceReconcile     *)
(* sets hourly from Kraken's own equity (pipeline/equity_reconcile.py,     *)
(* pipeline/portfolio.py).  The equity is measured before the await, the   *)
(* reconstruction is computed after it; a trade's execution and its        *)
(* balance are two frames on two channels.  Kraken charges a block of four *)
(* hours from its own fill; the bot counts blocks from the candle its      *)
(* entry was taken on, or none when that stamp is missing.                 *)
(***************************************************************************)
EXTENDS Integers, Sequences

CONSTANTS
    Asks,              \* the best ask
    Deposit,           \* what the margin account holds at the start
    Fee, Estimate,     \* the rollover of a block of four hours, charged and estimated
    MaxBlocks, MaxTrades, MaxPolls

ASSUME EquityAssumption ==
    /\ Asks \subseteq Nat \ {0} /\ Deposit \in Nat
    /\ Fee \in Nat /\ Estimate \in Nat
    /\ MaxBlocks \in Nat /\ MaxTrades \in Nat /\ MaxPolls \in Nat

VARIABLES
    account,  \* Kraken: the cash, the entry of the short or 0, the blocks it is held
    ask,
    frames,   \* the private frames under way
    wallet,   \* the cash of BalancesCache, or -1 before the first frame
    short,    \* the mirror's position: its entry, the blocks since its stamp, if it has one
    offset,   \* short_equity_reconcile_offset
    poll,     \* the equity under way, or -1
    fresh,    \* history: nothing has happened since the poll was measured
    clean,    \* history: nor had it at the last reconcile
    carried,  \* history: the rollover misjudged at the last reconcile
    trades, polls

equityVars == <<account, ask, frames, wallet, short, offset, poll, fresh,
                clean, carried, trades, polls>>

\* What a short is worth beside the cash.
Unrealised(p, rate) == IF p.entry = 0 THEN 0 ELSE p.entry - ask - rate * p.blocks

\* TradeBalance e.
Equity == account.cash + Unrealised(account, Fee)

\* current_portfolio_usd of the short side, but for the offset.
Reconstructed == wallet + Unrealised(short, Estimate)

ShortPortfolio == Reconstructed + offset

\* Mutant: the reconstruction that is compared already holds the last offset.
Compounded == ShortPortfolio

\* reconcile_once passes reconcile_offset=0.
RawReconstruction == Reconstructed

\* By how much the rollover estimated exceeds the one charged.
Misjudged == Estimate * short.blocks - Fee * account.blocks

-----------------------------------------------------------------------------
NoShort == [entry |-> 0, blocks |-> 0, stamped |-> FALSE]

EquityInit ==
    /\ account = [cash |-> Deposit, entry |-> 0, blocks |-> 0]
    /\ ask \in Asks
    /\ frames = << [kind |-> "balance", cash |-> Deposit] >>
    /\ wallet = -1 /\ short = NoShort /\ offset = 0
    /\ poll = -1 /\ fresh = FALSE /\ clean = TRUE /\ carried = 0
    /\ trades = 0 /\ polls = 0

AskMoves(a) ==
    /\ a # ask /\ ask' = a /\ fresh' = FALSE
    /\ UNCHANGED <<account, frames, wallet, short, offset, poll, clean, carried, trades, polls>>

\* Kraken charges a block of four hours.
BlockCharged ==
    /\ account.entry # 0 /\ account.blocks < MaxBlocks
    /\ account' = [account EXCEPT !.blocks = @ + 1] /\ fresh' = FALSE
    /\ UNCHANGED <<ask, frames, wallet, short, offset, poll, clean, carried, trades, polls>>

\* held_4h_blocks comes to one more; without a stamp it stays at none.
BlockCounted ==
    /\ short.entry # 0 /\ short.stamped /\ short.blocks < MaxBlocks
    /\ short' = [short EXCEPT !.blocks = @ + 1] /\ fresh' = FALSE
    /\ UNCHANGED <<account, ask, frames, wallet, offset, poll, clean, carried, trades, polls>>

\* Kraken fills an entry or a close; the frames of a close come in either order.
ShortOpens ==
    /\ trades < MaxTrades /\ account.entry = 0 /\ frames = <<>> /\ wallet # -1
    /\ account' = [account EXCEPT !.entry = ask]
    /\ frames' = << [kind |-> "fill", entry |-> ask] >>
    /\ trades' = trades + 1 /\ fresh' = FALSE
    /\ UNCHANGED <<ask, wallet, short, offset, poll, clean, carried, polls>>

ShortCloses ==
    LET cash == account.cash + Unrealised(account, Fee)
        fill == [kind |-> "fill", entry |-> 0]
        balance == [kind |-> "balance", cash |-> cash]
    IN  /\ account.entry # 0 /\ frames = <<>>
        /\ account' = [cash |-> cash, entry |-> 0, blocks |-> 0]
        /\ frames' \in {<<fill, balance>>, <<balance, fill>>}
        /\ fresh' = FALSE
        /\ UNCHANGED <<ask, wallet, short, offset, poll, clean, carried, trades, polls>>

\* record_execution or ingest_balances of the next frame.
Deliver ==
    LET f == Head(frames) IN
    /\ frames # <<>> /\ frames' = Tail(frames)
    /\ IF f.kind = "fill"
       THEN /\ IF f.entry = 0
               THEN short' = NoShort
               ELSE \E stamped \in BOOLEAN :
                        short' = [entry |-> f.entry, blocks |-> 0, stamped |-> stamped]
            /\ UNCHANGED wallet
       ELSE wallet' = f.cash /\ UNCHANGED short
    /\ fresh' = FALSE
    /\ UNCHANGED <<account, ask, offset, poll, clean, carried, trades, polls>>

\* reconcile_once, up to its await.
PollStarts ==
    /\ poll = -1 /\ polls < MaxPolls
    /\ poll' = Equity
    /\ fresh' = (frames = <<>>) /\ polls' = polls + 1
    /\ UNCHANGED <<account, ask, frames, wallet, short, offset, clean, carried, trades>>

\* From its await on.  No answer, no wallet or no quote: the last offset stands.
PollSkipped ==
    /\ poll # -1 /\ poll' = -1
    /\ UNCHANGED <<account, ask, frames, wallet, short, offset, fresh, clean, carried, trades, polls>>

PollAnswered ==
    /\ poll # -1 /\ wallet # -1
    /\ offset' = poll - RawReconstruction
    /\ clean' = fresh /\ carried' = Misjudged /\ poll' = -1
    /\ UNCHANGED <<account, ask, frames, wallet, short, fresh, trades, polls>>

EquityNext ==
    \/ \E a \in Asks : AskMoves(a)
    \/ BlockCharged \/ BlockCounted \/ ShortOpens \/ ShortCloses \/ Deliver
    \/ PollStarts \/ PollSkipped \/ PollAnswered

-----------------------------------------------------------------------------
(* Properties. *)

\* A poll that nothing came between lands the short portfolio exactly on
\* Kraken's equity, however many polls went before it.
LandsOnTheEquity ==
    [][PollAnswered /\ fresh => wallet' + Unrealised(short, Estimate) + offset' = Equity]_equityVars

\* With no frame of a trade under way and no race at the last poll, what the bot
\* takes the short wallet for is off by exactly the rollover it has misjudged since
\* that poll: nothing of an earlier offset, poll or trade is left in it.
WrongOnlyByTheRollover ==
    wallet # -1 /\ frames = <<>> /\ clean => ShortPortfolio - Equity = carried - Misjudged

\* The hourly poll makes the equity right, and only a race or the rollover makes it wrong.
EquityIsReconciled == LandsOnTheEquity /\ [][WrongOnlyByTheRollover']_equityVars
=============================================================================
