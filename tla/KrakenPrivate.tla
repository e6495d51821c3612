--------------------------- MODULE KrakenPrivate ----------------------------
(***************************************************************************)
(* The other end of the private WebSocket: Kraken's matching engine and    *)
(* the one private connection.  None of it is in src/; it is modelled from *)
(* how src/ uses it (the orders execution/entry_dispatch.py and            *)
(* execution/exit_dispatch.py build, the frames exchange/private_ws.py     *)
(* reads).  Orders arrive, rest, fill, are refused or cancelled in any     *)
(* order; execution reports reach the client in order, over a connection   *)
(* that may drop and lose what was under way in both directions.           *)
(***************************************************************************)
EXTENDS PositionMirror, Integers, Sequences, FiniteSets

CONSTANTS
    MaxDrops,      \* bound: connection drops
    EntryFills,    \* how an entry may be reported: sequences of cum_qty
    CloseReports,  \* how many fill frames one closing order produces
    Faults         \* subset of FaultKinds that Kraken may exhibit

FaultKinds ==
    {"kill",       \* an IOC limit expires without filling
     "mpp",        \* a market close is refused (Max Price Protection)
     "stopreject", \* the stop placement is refused
     "cancel",     \* a resting stop is cancelled by Kraken or by hand
     "rest"}       \* a REST call of the restore fails

ASSUME BoundsAssumption ==
    /\ MaxDrops \in Nat
    /\ CloseReports \subseteq Nat \ {0}
    /\ EntryFills \subseteq Seq(Nat \ {0}) \ {<<>>}
    /\ Faults \subseteq FaultKinds

VARIABLES
    book,     \* orders Kraken has or is about to receive
    cancels,  \* cl_ord_ids with a cancel request under way
    account,  \* what the account really holds per symbol (negative: short)
    frames,   \* frames on their way to the client, oldest first
    conn,     \* "up" or "down": whether the bound private socket works
    drops     \* how often it has dropped

exchangeVars == <<book, cancels, account, frames, conn, drops>>

-----------------------------------------------------------------------------
(* A cl_ord_id is <<kind, n, d>>: the n-th entry or exit order with d "-sl" *)
(* suffixes.  The stop of the position opened by order id is StopId(id).    *)
ClOrdIds == {"entry", "exit"} \X Nat \X Nat
StopId(id) == <<id[1], id[2], id[3] + 1>>

\* pos is the cl_ord_id of the position the order opens, protects or closes.
Order(kind, id, pos, sym, side, qty) ==
    [kind |-> kind, id |-> id, pos |-> pos, sym |-> sym, side |-> side, qty |-> qty,
     st |-> "sent"]
ClosingKinds == {"market", "ioc"}
Orders == [kind : {"entry", "stop"} \cup ClosingKinds, id : ClOrdIds, pos : ClOrdIds,
           sym : Symbols, side : Sides, qty : Nat, st : {"sent", "resting"}]

FillFrame(o, cumQty) ==
    [t |-> "fill", sym |-> o.sym, side |-> o.side, qty |-> cumQty, id |-> o.id]
CanceledFrame(o) == [t |-> "canceled", sym |-> o.sym, id |-> o.id]
ResponseFrame(o, rejected) == [t |-> "response", sym |-> o.sym, id |-> o.id,
                               rejected |-> rejected]
SnapshotFrame(syms) == [t |-> "snapshot", syms |-> syms]
Frames == [t : {"fill"}, sym : Symbols, side : Sides, qty : Nat, id : ClOrdIds]
          \cup [t : {"canceled"}, sym : Symbols, id : ClOrdIds]
          \cup [t : {"response"}, sym : Symbols, id : ClOrdIds, rejected : BOOLEAN]
          \cup [t : {"snapshot"}, syms : SUBSET Symbols]

\* Symbols with an open order: what snap_orders and GetOpenOrders list.
OpenOrderSymbols == {o.sym : o \in {x \in book : x.st = "resting"}}

ExchangeTypeOK ==
    /\ book \subseteq Orders
    /\ cancels \subseteq ClOrdIds
    /\ account \in [Symbols -> Int]
    /\ frames \in Seq(Frames)
    /\ conn \in {"up", "down"}
    /\ drops \in 0 .. MaxDrops

ExchangeInit ==
    /\ book = {}
    /\ cancels = {}
    /\ account = [s \in Symbols |-> 0]
    /\ frames = <<SnapshotFrame({})>>
    /\ conn = "up"
    /\ drops = 0

\* Execution reports reach the client only over a working connection.
Report(fs) == frames' = IF conn = "up" THEN frames \o fs ELSE frames

Signed(side, qty) == IF side = "long" THEN qty ELSE -qty

\* A spot sell needs the asset, a reduce_only buy an open short.
CanReduce(o) ==
    IF o.side = "short" THEN account[o.sym] >= o.qty ELSE account[o.sym] <= -o.qty

Repeat(f, n) == [i \in 1 .. n |-> f]
-----------------------------------------------------------------------------
\* The marketable IOC entry fills, in one report or several.
FillEntry ==
    \E o \in book, plan \in EntryFills :
        /\ o.kind = "entry"
        /\ book' = book \ {o}
        /\ account' = [account EXCEPT ![o.sym] = @ + Signed(o.side, plan[Len(plan)])]
        /\ Report([i \in DOMAIN plan |-> FillFrame(o, plan[i])])
        /\ UNCHANGED <<cancels, conn, drops>>

\* An IOC limit order finds no counterparty: zero fill, "canceled".
KillIoc ==
    /\ "kill" \in Faults
    /\ \E o \in book :
        /\ book' = book \ {o}
        /\ \/ o.kind = "entry" /\ Report(<<CanceledFrame(o)>>)
           \/ o.kind = "ioc" /\ Report(<<ResponseFrame(o, FALSE), CanceledFrame(o)>>)
    /\ UNCHANGED <<cancels, account, conn, drops>>

AcceptStop ==
    \E o \in book :
        /\ o.kind = "stop" /\ o.st = "sent"
        /\ book' = (book \ {o}) \cup {[o EXCEPT !.st = "resting"]}
        /\ UNCHANGED <<cancels, account, frames, conn, drops>>

RejectStop ==
    /\ "stopreject" \in Faults
    /\ \E o \in book :
        /\ o.kind = "stop" /\ o.st = "sent"
        /\ book' = book \ {o}
    /\ UNCHANGED <<cancels, account, frames, conn, drops>>

\* The price crosses the stop: it sells (or covers) and reports the fill.
TriggerStop ==
    \E o \in book, n \in CloseReports :
        /\ o.kind = "stop" /\ o.st = "resting" /\ CanReduce(o)
        /\ book' = book \ {o}
        /\ account' = [account EXCEPT ![o.sym] = @ + Signed(o.side, o.qty)]
        /\ Report(Repeat(FillFrame(o, o.qty), n))
        /\ UNCHANGED <<cancels, conn, drops>>

\* A cancel request arrives; it has an effect, and is confirmed on the
\* executions channel, only if the order is still resting.
ProcessCancel ==
    \E c \in cancels :
        LET hit == {o \in book : o.id = c /\ o.st = "resting"}
        IN  /\ cancels' = cancels \ {c}
            /\ book' = book \ hit
            /\ \/ hit = {} /\ UNCHANGED frames
               \/ \E o \in hit : Report(<<CanceledFrame(o)>>)
            /\ UNCHANGED <<account, conn, drops>>

\* A resting stop disappears without the client asking for it.
KrakenCancelsStop ==
    /\ "cancel" \in Faults
    /\ \E o \in book :
        /\ o.st = "resting"
        /\ book' = book \ {o}
        /\ Report(<<CanceledFrame(o)>>)
    /\ UNCHANGED <<cancels, account, conn, drops>>

\* A closing order executes: the response first, then the fill report(s).
FillClose ==
    \E o \in book, n \in CloseReports :
        /\ o.kind \in ClosingKinds /\ CanReduce(o)
        /\ book' = book \ {o}
        /\ account' = [account EXCEPT ![o.sym] = @ + Signed(o.side, o.qty)]
        /\ Report(<<ResponseFrame(o, FALSE)>> \o Repeat(FillFrame(o, o.qty), n))
        /\ UNCHANGED <<cancels, conn, drops>>

\* A closing order is refused: Max Price Protection, or nothing to close.
RejectClose ==
    \E o \in book :
        /\ o.kind \in ClosingKinds
        /\ "mpp" \in Faults \/ ~CanReduce(o)
        /\ book' = book \ {o}
        /\ Report(<<ResponseFrame(o, TRUE)>>)
        /\ UNCHANGED <<cancels, account, conn, drops>>

\* The connection drops.  Any request under way may be lost, and so may any
\* suffix of the frames; what the socket had buffered can still be read.
Drop ==
    /\ conn = "up" /\ drops < MaxDrops
    /\ conn' = "down"
    /\ drops' = drops + 1
    /\ \E lost \in SUBSET {o \in book : o.st = "sent"} : book' = book \ lost
    /\ \E lost \in SUBSET cancels : cancels' = cancels \ lost
    /\ \E n \in 0 .. Len(frames) : frames' = SubSeq(frames, 1, n)
    /\ UNCHANGED account

ExchangeNext ==
    \/ FillEntry \/ KillIoc \/ AcceptStop \/ RejectStop \/ TriggerStop
    \/ ProcessCancel \/ KrakenCancelsStop \/ FillClose \/ RejectClose \/ Drop
=============================================================================
