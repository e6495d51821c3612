--------------------------- MODULE PositionMirror ---------------------------
(***************************************************************************)
(* mod:Position_Mirror (src/tothbot/exchange/position_mirror.py): the      *)
(* symbol-keyed store of open positions.  The store is pure; WS_Manager is *)
(* its only writer, so the module holds operators over a store value and   *)
(* WSManagerLive holds the variable.                                       *)
(*                                                                         *)
(* A store maps each symbol to a position record or to None.  Of a         *)
(* position's fields the properties tell apart:                            *)
(*   side  the side it opened on ("long": a buy, "short": a sell)          *)
(*   id    the cl_ord_id of the fill that opened it                        *)
(*   qty   the authoritative cum_qty                                       *)
(*   snap  the entry order whose entry-time snapshot (emergsl_price,       *)
(*         atr_14_entry, regime) the writer attached, or None              *)
(*   nth   which opening of the run this is; the code has no such field, it *)
(*         only gives the properties a name for the position               *)
(* Prices and timestamps are abstracted away.                              *)
(***************************************************************************)
EXTENDS Naturals

CONSTANTS Symbols,   \* the traded pairs
          None       \* "no value" (Python's None)

ASSUME NoneNotSymbol == None \notin Symbols

Sides == {"long", "short"}

Flip(side) == IF side = "long" THEN "short" ELSE "long"

EmptyStore == [s \in Symbols |-> None]

IsOpen(store, s) == store[s] # None

\* Mutant: the side test negated.
ClosesOnSameSide(openSide, fillSide) == openSide = fillSide

\* A fill closes a position when it is on the opposite side.
ClosesPosition(openSide, fillSide) == openSide # fillSide

\* What a trade/filled frame does to the store.
FillAction(store, fill) ==
    IF ~IsOpen(store, fill.sym) THEN "OPENED"
    ELSE IF ClosesPosition(store[fill.sym].side, fill.side) THEN "CLOSED"
    ELSE "UPDATED"

OpenedBy(fill, snap, nth) ==
    [sym |-> fill.sym, side |-> fill.side, id |-> fill.id,
     qty |-> fill.qty, snap |-> snap, nth |-> nth]

\* _handle_fill: open, close, or refresh from the cumulative quantity.  Neither
\* the opening nor the closing branch looks at which order the fill belongs to.
ApplyFill(store, fill, snap, nth) ==
    [store EXCEPT ![fill.sym] =
        CASE FillAction(store, fill) = "OPENED"  -> OpenedBy(fill, snap, nth)
          [] FillAction(store, fill) = "CLOSED"  -> None
          [] FillAction(store, fill) = "UPDATED" -> [@ EXCEPT !.qty = fill.qty]]

\* Mutants: a restore that drops the position and reports nothing; one that
\* reports it and keeps it.
GapUnreported(store, snapSymbols) == {}
RestoreKeeps(store, snapSymbols) == store

\* restore_from_snapshot: a symbol with no open order in the snapshot is
\* taken to have closed during the gap; the others are kept verbatim.
GapClosed(store, snapSymbols) ==
    {store[s] : s \in {x \in Symbols : IsOpen(store, x) /\ x \notin snapSymbols}}

Restore(store, snapSymbols) ==
    [s \in Symbols |-> IF s \in snapSymbols THEN store[s] ELSE None]
=============================================================================
