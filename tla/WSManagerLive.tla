--------------------------- MODULE WSManagerLive ----------------------------
(***************************************************************************)
(* The live order path of mod:WS_Manager (exchange/ws_manager.py) with the *)
(* private connection that feeds and pumps it (exchange/private_ws.py,     *)
(* receive_loop.py, reconnect_driver.py) and the Exit Controller's live    *)
(* close (execution/exit_controller.py).  Everything runs in one asyncio   *)
(* event loop: an action is the code between two awaits.                   *)
(*                                                                         *)
(* Three kinds of task interleave at the awaits: the pipeline (entries),   *)
(* the public read loops (tickers, regime closes, instrument status) and   *)
(* the private loop, whose position is pc:                                 *)
(*   recv     waiting for a frame                                          *)
(*   pump     frame handled; the after-batch pump starts                   *)
(*   exits    drive_live_exits, between two intents (no await is there:    *)
(*            nothing else of the program runs)                            *)
(*   ack1/2   waiting for the cancel ACK, first and second attempt         *)
(*   probe    waiting to learn whether the close was refused               *)
(*   reopen, restore, gap   the reconnect and its mirror reconciliation    *)
(*   dead     an exception ended the private loop, and with it the process *)
(*            (the gather in pipeline/operational.py re-raises it)         *)
(***************************************************************************)
EXTENDS KrakenPrivate

CONSTANTS
    MaxEntries,    \* bound: entry orders dispatched
    MaxClears,     \* bound: HELD markers the operator clears
    EntrySides,    \* sides the pipeline enters: {"long"} in the assembled bot
    LossLimit,     \* sc_consecutive_limit
    MppRetryCount, \* mpp_retry_count
    Outcomes,      \* which closes are wins: subset of BOOLEAN
    Quotes,        \* whether a regime exit carries a bbo: subset of BOOLEAN
    Blocked,       \* whether its pair status is a blocking one: subset of BOOLEAN
    FetchSnap,     \* is the REST GetOpenOrders edge wired?
    OwnReader      \* TRUE: the injected I-6 / C-1 edges, which see the private
                   \* frames while the driver waits; FALSE: the default ones,
                   \* which the same loop must feed

Reasons == {"MAE_THRESHOLD_BREACH", "REGIME", "PAIR_LIMIT_ONLY_EXIT"}
Emergency == "EMERGENCY_SL_FIRED"

MaybeId == ClOrdIds \cup {None}
Positions == [sym : Symbols, side : Sides, id : ClOrdIds, qty : Nat,
              snap : MaybeId, nth : Nat \ {0}]
CloseTypes == {"market", "limit_only"}
Intents == [sym : Symbols, reason : Reasons, kind : CloseTypes,
            quote : BOOLEAN, blocked : BOOLEAN]
Jobs == [pos : Positions, kind : CloseTypes, quote : BOOLEAN, n : Nat]

ASSUME LiveAssumption ==
    /\ MaxEntries \in Nat /\ MaxClears \in Nat
    /\ EntrySides \subseteq Sides
    /\ LossLimit \in Nat /\ MppRetryCount \in Nat
    /\ Outcomes \subseteq BOOLEAN /\ Outcomes # {}
    /\ Quotes \subseteq BOOLEAN /\ Blocked \subseteq BOOLEAN
    /\ FetchSnap \in BOOLEAN /\ OwnReader \in BOOLEAN

ASSUME NoneAssumption ==
    None \notin Positions /\ None \notin ClOrdIds /\ None \notin Reasons

VARIABLES
    mirror,       \* the Position Mirror
    sem,          \* per side: is the dispatch semaphore held?
    sc,           \* per side and symbol: consecutive losses, cooldown stamped?
    pendingEntry, \* Pending Order Registry: the order whose snapshot is stashed
    fee, mae,     \* per symbol: the position whose entry fee / MAE high is kept
    trigger,      \* per symbol: ticker event_trigger mode
    pendingStops, \* on-fill emergSLs to place
    intents,      \* detected exits to dispatch (drain order left open)
    stamp,        \* per symbol: exit_reason of the exit in flight
    held,         \* symbols HELD for the operator
    acks,         \* cl_ord_ids whose cancel was confirmed
    responses,    \* answers to closing orders not yet read
    lastSnap,     \* symbols of the last executions snapshot, or None
    pc, job,      \* where the private loop is, and the exit it is driving
    gaps,         \* gap-closed positions whose record is still to be emitted
    entrySeq, exitSeq, clears, \* entries, closing orders, operator clears so far
    closes        \* the Trade Outcome Bus: closes[n] lists the exit_reasons of the
                  \* TRADE_CLOSE records emitted for the n-th position opened

stateVars == <<mirror, sem, sc, pendingEntry, fee, mae, trigger>>
exitVars == <<pendingStops, intents, stamp, held, acks, responses>>
loopVars == <<lastSnap, pc, job, gaps>>
seqVars == <<entrySeq, exitSeq, clears, closes>>
vars == <<exchangeVars, stateVars, exitVars, loopVars, seqVars>>

Init ==
    /\ ExchangeInit
    /\ mirror = EmptyStore
    /\ sem = [sd \in Sides |-> FALSE]
    /\ sc = [sd \in Sides |-> [s \in Symbols |-> [losses |-> 0, cooled |-> FALSE]]]
    /\ pendingEntry = EmptyStore /\ fee = EmptyStore /\ mae = EmptyStore
    /\ trigger = [s \in Symbols |-> "trades"]
    /\ pendingStops = {} /\ intents = {}
    /\ stamp = EmptyStore
    /\ held = {} /\ acks = {} /\ responses = {}
    /\ lastSnap = None
    /\ pc = "recv" /\ job = None
    /\ gaps = {}
    /\ entrySeq = 0 /\ exitSeq = 0 /\ clears = 0
    /\ closes = <<>>

-----------------------------------------------------------------------------
\* The event loop can run another task.
Yielded == pc \notin {"exits", "dead"}

(* The pipeline: an accepted candidate is dispatched.                      *)

\* A candidate is a daily event and an IOC order lives five seconds: the
\* symbol's previous entry has been answered, or its answer was lost.
EntryInFlight(s) ==
    \/ \E o \in book : o.kind = "entry" /\ o.sym = s
    \/ \E i \in DOMAIN frames : frames[i].t # "snapshot" /\ frames[i].sym = s

\* Mutant: an earlier stash that never resolved is kept.
StashIfAbsent(s, id) ==
    pendingEntry' = [pendingEntry EXCEPT ![s] = IF @ = None THEN id ELSE @]

\* The Pending Order Registry keeps one entry-time snapshot per symbol.
Stash(s, id) == pendingEntry' = [pendingEntry EXCEPT ![s] = id]

\* gate:G5 (no same-side position, loss limit) and gate:G7 CHECK 4; the other
\* gates are data the model leaves open.  A send over a dead socket raises out
\* of the pipeline task, after the snapshot has been stashed.
DispatchEntry ==
    \E s \in Symbols, sd \in EntrySides :
        LET id == <<"entry", entrySeq + 1, 0>>
        IN  /\ Yielded
            /\ entrySeq < MaxEntries
            /\ ~EntryInFlight(s)
            /\ ~(IsOpen(mirror, s) /\ mirror[s].side = sd)
            /\ sc[sd][s].losses < LossLimit
            /\ ~sem[sd]
            /\ entrySeq' = entrySeq + 1
            /\ Stash(s, id)
            /\ book' = IF conn = "up"
                       THEN book \cup {Order("entry", id, id, s, sd, 0)}
                       ELSE book
            /\ UNCHANGED <<cancels, account, frames, conn, drops, mirror, sem, sc,
                           fee, mae, trigger, exitVars, loopVars, exitSeq, clears, closes>>

-----------------------------------------------------------------------------
(* The public read loops: synchronous detectors that queue an intent.      *)

Intent(s, reason, kind, quote, blocked) ==
    [sym |-> s, reason |-> reason, kind |-> kind, quote |-> quote, blocked |-> blocked]

\* _enqueue_live_exit: one exit per position; an L2 MAE breach overrides the
\* reason of an exit in flight or queued.
Enqueue(i) ==
    LET queued == {q \in intents : q.sym = i.sym}
        isMae  == i.reason = "MAE_THRESHOLD_BREACH"
    IN  IF stamp[i.sym] # None
        THEN /\ stamp' = IF isMae THEN [stamp EXCEPT ![i.sym] = i.reason] ELSE stamp
             /\ UNCHANGED intents
        ELSE /\ UNCHANGED stamp
             /\ intents' =
                  IF i.sym \in held THEN intents
                  ELSE IF queued = {} THEN intents \cup {i}
                  ELSE IF isMae /\ \A q \in queued : q.reason # i.reason
                  THEN (intents \ queued) \cup {i}
                  ELSE intents

\* handle_ticker: mark the MAE high-water of an open position; with the entry
\* ATR known, a tick that breaches the L2 stop queues an exit.
HandleTicker ==
    \E s \in Symbols :
        /\ Yielded /\ IsOpen(mirror, s)
        /\ mae' = [mae EXCEPT ![s] = IF @ = None THEN mirror[s].id ELSE @]
        /\ \/ UNCHANGED <<stamp, intents>>
           \/ /\ mirror[s].snap # None
              /\ Enqueue(Intent(s, "MAE_THRESHOLD_BREACH", "market", TRUE, FALSE))
        /\ UNCHANGED <<exchangeVars, mirror, sem, sc, pendingEntry, fee, trigger,
                       pendingStops, held, acks, responses, loopVars, seqVars>>

\* on_regime_classified / on_htf_ohlc_close: an L1a exit.
RegimeExit ==
    \E s \in Symbols, q \in Quotes, b \in Blocked :
        /\ Yielded /\ IsOpen(mirror, s)
        /\ Enqueue(Intent(s, "REGIME", "market", q, b))
        /\ UNCHANGED <<exchangeVars, stateVars, pendingStops, held, acks, responses,
                       loopVars, seqVars>>

\* on_instrument_status: the pair turned limit_only.
LimitOnlyExit ==
    \E s \in Symbols, q \in Quotes :
        /\ Yielded /\ IsOpen(mirror, s)
        /\ Enqueue(Intent(s, "PAIR_LIMIT_ONLY_EXIT", "limit_only", q, FALSE))
        /\ UNCHANGED <<exchangeVars, stateVars, pendingStops, held, acks, responses,
                       loopVars, seqVars>>

\* clear_live_exit_held: the operator's surface.
ClearHeld ==
    \E s \in held :
        /\ Yielded /\ clears < MaxClears
        /\ clears' = clears + 1
        /\ held' = held \ {s}
        /\ UNCHANGED <<exchangeVars, stateVars, pendingStops, intents, stamp, acks,
                       responses, loopVars, entrySeq, exitSeq, closes>>

\* Mutant: the stamp of the exit is not taken back.
StampKept(s) == UNCHANGED stamp

\* _pending_exit_reason.pop(symbol)
PopStamp(s) == stamp' = [stamp EXCEPT ![s] = None]

-----------------------------------------------------------------------------
(* The private loop: frames.                                               *)

\* A frame is read in recv, or, with the injected edges, while the driver waits.
CanRead ==
    /\ frames # <<>>
    /\ pc = "recv" \/ (OwnReader /\ pc \in {"pump", "ack1", "ack2", "probe"})

\* A wire message may carry several executions; the pump runs after the last.
SameMessage == /\ Len(frames) > 1
               /\ Head(frames).t \in {"fill", "canceled"}
               /\ frames[2].t \in {"fill", "canceled"}

TakeFrame ==
    /\ CanRead
    /\ frames' = Tail(frames)
    /\ \/ pc' = IF pc = "recv" THEN "pump" ELSE pc
       \/ pc = "recv" /\ SameMessage /\ UNCHANGED pc
    /\ UNCHANGED <<book, cancels, account, conn, drops, job, gaps, entrySeq,
                   exitSeq, clears>>

\* The close of the positions P, at most one per symbol.  Exit Controller step 6:
EmitTradeClose(P, reason) ==
    closes' = [n \in DOMAIN closes |->
        IF n \in {p.nth : p \in P} THEN Append(closes[n], reason) ELSE closes[n]]

\* Mutant: a loss counts down.
LossCountsDown(r, won) == IF won THEN [r EXCEPT !.losses = 0]
                          ELSE [losses |-> r.losses - 1, cooled |-> TRUE]

\* ... step 8, update_selection_state_on_close:
LossUpdate(r, won) == IF won THEN [r EXCEPT !.losses = 0]
                      ELSE [losses |-> r.losses + 1, cooled |-> TRUE]

UpdateSelection(P) ==
    \E wins \in {w \in SUBSET P : \A p \in P : (p \in w) \in Outcomes} :
        sc' = [sd \in Sides |-> [s \in Symbols |->
            IF \E p \in P : p.sym = s /\ p.side = sd
            THEN LossUpdate(sc[sd][s], \E p \in wins : p.sym = s)
            ELSE sc[sd][s]]]

\* Mutant: the semaphore is not released.
SemaphoreKept(P) == UNCHANGED sem

\* ... step 9, release_exit_semaphore (an over-release is swallowed):
ReleaseSemaphore(P) == sem' = [sd \in Sides |-> sem[sd] /\ ~\E p \in P : p.side = sd]

\* Mutants: the close leaves the MAE high-water, or the HELD marker, behind.
MaeKept(syms) ==
    /\ fee' = [s \in Symbols |-> IF s \in syms THEN None ELSE fee[s]]
    /\ intents' = {i \in intents : i.sym \notin syms}
    /\ held' = held \ syms
    /\ UNCHANGED mae
HeldKept(syms) ==
    /\ fee' = [s \in Symbols |-> IF s \in syms THEN None ELSE fee[s]]
    /\ mae' = [s \in Symbols |-> IF s \in syms THEN None ELSE mae[s]]
    /\ intents' = {i \in intents : i.sym \notin syms}
    /\ UNCHANGED held

\* ... and the per-symbol state the close drops.
DropLiveState(syms) ==
    /\ fee' = [s \in Symbols |-> IF s \in syms THEN None ELSE fee[s]]
    /\ mae' = [s \in Symbols |-> IF s \in syms THEN None ELSE mae[s]]
    /\ intents' = {i \in intents : i.sym \notin syms}
    /\ held' = held \ syms

RecordCloses(P, reason) ==
    /\ EmitTradeClose(P, reason)
    /\ UpdateSelection(P)
    /\ ReleaseSemaphore(P)
    /\ DropLiveState({p.sym : p \in P})

\* record_execution, OPENED: attach the stashed snapshot, take the semaphore,
\* keep the entry fee, queue the on-fill emergSL if the snapshot is known.
FillOpens ==
    LET f == Head(frames)
        snap == pendingEntry[f.sym]
    IN  /\ CanRead /\ f.t = "fill" /\ FillAction(mirror, f) = "OPENED"
        /\ TakeFrame
        /\ mirror' = ApplyFill(mirror, f, snap, Len(closes) + 1)
        /\ trigger' = [trigger EXCEPT ![f.sym] = "bbo"]
        /\ sem' = [sem EXCEPT ![f.side] = TRUE]
        /\ fee' = [fee EXCEPT ![f.sym] = f.id]
        /\ pendingStops' =
             IF snap = None THEN pendingStops
             ELSE pendingStops \cup
                  {Order("stop", StopId(f.id), f.id, f.sym, Flip(f.side), f.qty)}
        /\ pendingEntry' = [pendingEntry EXCEPT ![f.sym] = None]
        /\ closes' = Append(closes, <<>>)
        /\ UNCHANGED <<sc, mae, intents, stamp, held, acks, responses, lastSnap>>

FillUpdates ==
    LET f == Head(frames)
    IN  /\ CanRead /\ f.t = "fill" /\ FillAction(mirror, f) = "UPDATED"
        /\ TakeFrame
        /\ mirror' = ApplyFill(mirror, f, None, 0)
        /\ UNCHANGED <<sem, sc, pendingEntry, fee, mae, trigger, exitVars, lastSnap, closes>>

\* record_execution, CLOSED, and _drive_live_close: the reason is the stamp of
\* the exit in flight, else the off-book stop fired.
FillCloses ==
    LET f == Head(frames)
        p == mirror[f.sym]
        reason == IF stamp[f.sym] # None THEN stamp[f.sym] ELSE Emergency
    IN  /\ CanRead /\ f.t = "fill" /\ FillAction(mirror, f) = "CLOSED"
        /\ TakeFrame
        /\ mirror' = ApplyFill(mirror, f, None, 0)
        /\ trigger' = [trigger EXCEPT ![f.sym] = "trades"]
        /\ PopStamp(f.sym)
        /\ RecordCloses({p}, reason)
        /\ acks' = acks \ {StopId(p.id)}
        /\ UNCHANGED <<pendingEntry, pendingStops, responses, lastSnap>>

\* A canceled report: the mirror ignores it, the I-6 registry records it.
ReadCanceled ==
    LET f == Head(frames)
    IN  /\ CanRead /\ f.t = "canceled"
        /\ TakeFrame
        /\ acks' = acks \cup {f.id}
        /\ UNCHANGED <<stateVars, pendingStops, intents, stamp, held, responses,
                       lastSnap, closes>>

\* OrderAckHandler: the C-1 registry.
ReadResponse ==
    LET f == Head(frames)
    IN  /\ CanRead /\ f.t = "response"
        /\ TakeFrame
        /\ responses' = {r \in responses : r.id # f.id}
                            \cup {[id |-> f.id, rejected |-> f.rejected]}
        /\ UNCHANGED <<stateVars, pendingStops, intents, stamp, held, acks,
                       lastSnap, closes>>

\* ExecutionsIngest, snapshot: reconcile the mirror and emit the gap closes.
ReadSnapshot ==
    LET f == Head(frames)
    IN  /\ CanRead /\ f.t = "snapshot"
        /\ TakeFrame
        /\ lastSnap' = f.syms
        /\ mirror' = Restore(mirror, f.syms)
        /\ RecordCloses(GapClosed(mirror, f.syms), Emergency)
        /\ UNCHANGED <<pendingEntry, trigger, pendingStops, stamp, acks, responses>>

\* Mutant: the pump follows frames only.
NoIdleTick == FALSE

\* recv timed out: the pump runs on an idle tick too.
IdleTick ==
    /\ pc = "recv"
    /\ pendingStops # {} \/ intents # {}
    /\ pc' = "pump"
    /\ UNCHANGED <<exchangeVars, stateVars, exitVars, lastSnap, job, gaps, seqVars>>

-----------------------------------------------------------------------------
(* The private loop: the pump.  A send over a socket known to be dead       *)
(* raises TransportClosed through the pump and out of the loop; over one     *)
(* that only stopped answering it vanishes.                                 *)

Raise == pc' = "dead" /\ job' = None

\* drive_pending_emergsls: the intent is popped before the send.
PlaceEmergSl ==
    /\ pc = "pump"
    /\ \E o \in pendingStops :
        /\ pendingStops' = pendingStops \ {o}
        /\ \/ conn = "up" /\ book' = book \cup {o} /\ UNCHANGED <<pc, job>>
           \/ conn = "down" /\ UNCHANGED <<book, pc, job>>
           \/ conn = "down" /\ Raise /\ UNCHANGED book
    /\ UNCHANGED <<cancels, account, frames, conn, drops, stateVars, intents, stamp,
                   held, acks, responses, lastSnap, gaps, seqVars>>

\* Mutant: the pump drives the exits before the stops.
ExitsFirst == pc \in {"pump", "exits"}

\* drive_live_exits starts when the last stop has been sent.
AtExits == pc = "exits" \/ (pc = "pump" /\ pendingStops = {})

\* dispatch_live_exit returns at once: the pair-status precondition, the
\* double-dispatch guard, the position check.
Refused(i) ==
    \/ i.blocked
    \/ stamp[i.sym] # None \/ i.sym \in held
    \/ ~IsOpen(mirror, i.sym)

ExitsDrained ==
    /\ AtExits
    /\ \A i \in intents : Refused(i)
    /\ intents' = {}
    /\ pc' = "recv"
    /\ UNCHANGED <<exchangeVars, stateVars, pendingStops, stamp, held, acks, responses,
                   lastSnap, job, gaps, seqVars>>

SendCancel(id, next) ==
    /\ pc' \in IF conn = "up" THEN {next} ELSE {next, "dead"}
    /\ cancels' = IF conn = "up" THEN cancels \cup {id} ELSE cancels

\* The refused intents ahead of i in the queue go with it.
StartExit ==
    /\ AtExits
    /\ \E i \in intents, ahead \in SUBSET {q \in intents : Refused(q)} :
        LET p == mirror[i.sym]
        IN  /\ ~Refused(i)
            /\ intents' = intents \ ({i} \cup ahead)
            /\ stamp' = [stamp EXCEPT ![i.sym] = i.reason]
            /\ job' = [pos |-> p, kind |-> i.kind, quote |-> i.quote, n |-> 0]
            /\ SendCancel(StopId(p.id), "ack1")
    /\ UNCHANGED <<book, account, frames, conn, drops, stateVars, pendingStops, held,
                   acks, responses, lastSnap, gaps, seqVars>>

Acking == pc \in {"ack1", "ack2"}
\* Mutant: the second timeout is taken for a confirmation.
CancelAssumed == pc = "ack2"

CancelConfirmed == StopId(job.pos.id) \in acks

AckTimeoutRetry ==
    /\ pc = "ack1" /\ ~CancelConfirmed
    /\ SendCancel(StopId(job.pos.id), "ack2")
    /\ UNCHANGED <<book, account, frames, conn, drops, stateVars, exitVars, lastSnap,
                   job, gaps, seqVars>>

\* Mutant: the exit is given up and nobody is told.
HoldUnmarked(s) == PopStamp(s) /\ pc' = "exits" /\ job' = None /\ UNCHANGED held

Hold(s) ==
    /\ PopStamp(s)
    /\ held' = held \cup {s}
    /\ pc' = "exits" /\ job' = None

\* Mutant: the second wait has no timeout.
WaitForever == FALSE

\* The second timeout: HELD_AMBIGUOUS, no market sell.
HoldAmbiguous ==
    /\ pc = "ack2" /\ ~CancelConfirmed
    /\ Hold(job.pos.sym)
    /\ UNCHANGED <<exchangeVars, stateVars, pendingStops, intents, acks, responses,
                   lastSnap, gaps, seqVars>>

CloseOrder(kind, n) ==
    Order(kind, <<"exit", n, 0>>, job.pos.id, job.pos.sym, Flip(job.pos.side), job.pos.qty)

SendClose(kind, next, retries) ==
    /\ exitSeq' = exitSeq + 1
    /\ book' = IF conn = "up" THEN book \cup {CloseOrder(kind, exitSeq + 1)} ELSE book
    /\ \/ /\ pc' = next
          /\ job' = IF next = "exits" THEN None ELSE [job EXCEPT !.n = retries]
       \/ conn = "down" /\ Raise
    /\ UNCHANGED <<cancels, account, frames, conn, drops>>

SendMarketClose ==
    /\ Acking /\ CancelConfirmed /\ job.kind = "market"
    /\ SendClose("market", "probe", 0)
    /\ UNCHANGED <<stateVars, exitVars, lastSnap, gaps, entrySeq, clears, closes>>

SendLimitOnlyClose ==
    /\ Acking /\ CancelConfirmed /\ job.kind = "limit_only" /\ job.quote
    /\ SendClose("ioc", "exits", 0)
    /\ UNCHANGED <<stateVars, exitVars, lastSnap, gaps, entrySeq, clears, closes>>

\* limit_only without a bbo: deferred, the stamp released.
DeferNoQuote ==
    /\ Acking /\ CancelConfirmed /\ job.kind = "limit_only" /\ ~job.quote
    /\ PopStamp(job.pos.sym)
    /\ pc' = "exits" /\ job' = None
    /\ UNCHANGED <<exchangeVars, stateVars, pendingStops, intents, held, acks, responses,
                   lastSnap, gaps, seqVars>>

Answer == {r \in responses : r.id = <<"exit", exitSeq, 0>>}
Rejected == \E r \in Answer : r.rejected

\* Mutant: an accepted close is taken for a finished exit.
AcceptEndsExit ==
    /\ pc = "probe" /\ ~Rejected
    /\ responses' = responses \ Answer
    /\ PopStamp(job.pos.sym)
    /\ pc' = "exits" /\ job' = None
    /\ UNCHANGED <<exchangeVars, stateVars, pendingStops, intents, held, acks,
                   lastSnap, gaps, seqVars>>

\* The probe saw an accept, or its window closed without an answer.
ProbeAccepted ==
    /\ pc = "probe" /\ ~Rejected
    /\ responses' = responses \ Answer
    /\ pc' = "exits" /\ job' = None
    /\ UNCHANGED <<exchangeVars, stateVars, pendingStops, intents, stamp, held, acks,
                   lastSnap, gaps, seqVars>>

ProbeRejectedRetry ==
    /\ pc = "probe" /\ Rejected
    /\ job.quote /\ job.n < MppRetryCount
    /\ responses' = responses \ Answer
    /\ SendClose("ioc", "probe", job.n + 1)
    /\ UNCHANGED <<stateVars, pendingStops, intents, stamp, held, acks, lastSnap, gaps,
                   entrySeq, clears, closes>>

HoldMppExhausted ==
    /\ pc = "probe" /\ Rejected
    /\ ~job.quote \/ job.n >= MppRetryCount
    /\ responses' = responses \ Answer
    /\ Hold(job.pos.sym)
    /\ UNCHANGED <<exchangeVars, stateVars, pendingStops, intents, acks, lastSnap, gaps,
                   seqVars>>

-----------------------------------------------------------------------------
(* The private loop: reconnect.  recv raises once the buffer is empty; a    *)
(* zombie or missing pong is noticed after a frame, before the pump.        *)

\* Mutant: TransportClosed out of recv is not taken for a drop.
ReconnectAfterFrame ==
    /\ conn = "down" /\ pc = "pump"
    /\ pc' = "reopen"
    /\ UNCHANGED <<exchangeVars, stateVars, exitVars, lastSnap, job, gaps, seqVars>>

BeginReconnect ==
    /\ conn = "down"
    /\ (pc = "recv" /\ frames = <<>>) \/ pc = "pump"
    /\ pc' = "reopen"
    /\ UNCHANGED <<exchangeVars, stateVars, exitVars, lastSnap, job, gaps, seqVars>>

\* Fresh token and socket, transmitter bound, channels resubscribed: Kraken
\* queues the snapshot of the orders open now.
Reopen ==
    /\ pc = "reopen"
    /\ conn' = "up"
    /\ frames' = <<SnapshotFrame(OpenOrderSymbols)>>
    /\ pc' = "restore"
    /\ UNCHANGED <<book, cancels, account, drops, stateVars, exitVars, lastSnap, job,
                   gaps, seqVars>>

\* RESTORE_POSITION_MIRROR: against GetOpenOrders if wired, else against the
\* last snapshot the ingest saw, which is from before the drop.
RestoreMirror ==
    /\ pc = "restore"
    /\ LET snap == IF FetchSnap THEN OpenOrderSymbols ELSE lastSnap
       IN  IF snap = None
           THEN pc' = "recv" /\ UNCHANGED <<mirror, gaps>>
           ELSE /\ mirror' = Restore(mirror, snap)
                /\ gaps' = GapClosed(mirror, snap)
                /\ pc' = "gap"
    /\ UNCHANGED <<exchangeVars, sem, sc, pendingEntry, fee, mae, trigger, exitVars,
                   lastSnap, job, seqVars>>

\* _emit_gap_close: after the QueryOrders await, on_reconnect_gap_close.
EmitGapClose ==
    /\ pc = "gap"
    /\ \E p \in gaps :
        /\ gaps' = gaps \ {p}
        /\ RecordCloses({p}, Emergency)
    /\ UNCHANGED <<exchangeVars, mirror, pendingEntry, trigger, pendingStops, stamp,
                   acks, responses, lastSnap, pc, job, entrySeq, exitSeq, clears>>

\* GetOpenOrders or QueryOrders raises: nothing catches it.
RestFails ==
    /\ "rest" \in Faults
    /\ (pc = "restore" /\ FetchSnap) \/ (pc = "gap" /\ gaps # {})
    /\ pc' = "dead"
    /\ UNCHANGED <<exchangeVars, stateVars, exitVars, lastSnap, job, gaps, seqVars>>

RestoreDone ==
    /\ pc = "gap" /\ gaps = {}
    /\ pc' = "recv"
    /\ UNCHANGED <<exchangeVars, stateVars, exitVars, lastSnap, job, gaps, seqVars>>

-----------------------------------------------------------------------------
Pipeline == DispatchEntry
PublicLoops == HandleTicker \/ RegimeExit \/ LimitOnlyExit
Operator == ClearHeld
ReadFrame ==
    \/ FillOpens \/ FillUpdates \/ FillCloses
    \/ ReadCanceled \/ ReadResponse \/ ReadSnapshot
Pump ==
    \/ IdleTick \/ PlaceEmergSl \/ ExitsDrained \/ StartExit \/ AckTimeoutRetry \/ HoldAmbiguous
    \/ SendMarketClose \/ SendLimitOnlyClose \/ DeferNoQuote
    \/ ProbeAccepted \/ ProbeRejectedRetry \/ HoldMppExhausted
Reconnect ==
    \/ BeginReconnect \/ Reopen \/ RestoreMirror \/ EmitGapClose \/ RestFails \/ RestoreDone
Kraken ==
    /\ ExchangeNext
    /\ UNCHANGED <<stateVars, exitVars, loopVars, seqVars>>

Next ==
    \/ Pipeline \/ PublicLoops \/ Operator \/ ReadFrame \/ Pump \/ Reconnect \/ Kraken

Spec == Init /\ [][Next]_vars

\* The private loop is a coroutine of a running event loop, and every wait in it
\* has a timeout: it never stops while one of its steps is possible.  Every
\* iteration checks the pong and zombie deadlines, so a loop that keeps coming
\* back to a dead connection reconnects.
Loop == ReadFrame \/ Pump \/ Reconnect
FairSpec == Spec /\ WF_vars(Loop) /\ SF_vars(BeginReconnect)

-----------------------------------------------------------------------------
(* Properties.                                                             *)

StateTypeOK ==
    /\ mirror \in [Symbols -> Positions \cup {None}]
    /\ sem \in [Sides -> BOOLEAN]
    /\ sc \in [Sides -> [Symbols -> [losses : Nat, cooled : BOOLEAN]]]
    /\ pendingEntry \in [Symbols -> MaybeId]
    /\ fee \in [Symbols -> MaybeId] /\ mae \in [Symbols -> MaybeId]
    /\ trigger \in [Symbols -> {"trades", "bbo"}]
ExitTypeOK ==
    /\ pendingStops \subseteq Orders
    /\ intents \subseteq Intents
    /\ stamp \in [Symbols -> Reasons \cup {None}]
    /\ held \subseteq Symbols
    /\ acks \subseteq ClOrdIds
    /\ responses \subseteq [id : ClOrdIds, rejected : BOOLEAN]
LoopTypeOK ==
    /\ lastSnap \in (SUBSET Symbols) \cup {None}
    /\ pc \in {"recv", "pump", "exits", "ack1", "ack2", "probe",
              "reopen", "restore", "gap", "dead"}
    /\ job \in Jobs \cup {None}
    /\ pc \in {"ack1", "ack2", "probe"} => job \in Jobs
    /\ gaps \subseteq Positions
SeqTypeOK ==
    /\ entrySeq \in 0 .. MaxEntries /\ exitSeq \in Nat /\ clears \in 0 .. MaxClears
    /\ closes \in Seq(Seq(Reasons \cup {Emergency}))

\* The types of the variables: no sequence of reports, refusals, restores and
\* retries takes the state of the manager out of them.
TypeOK == ExchangeTypeOK /\ StateTypeOK /\ ExitTypeOK /\ LoopTypeOK /\ SeqTypeOK

\* The positions whose TRADE_CLOSE is still owed: open in the mirror, or taken
\* out of it by a restore that has not emitted their record yet.
Owed == {mirror[s] : s \in {x \in Symbols : IsOpen(mirror, x)}} \cup gaps

\* The manager as the lifecycle sees it: a position is its name, symbol and side.
Lifecycle == INSTANCE PositionLifecycle
    WITH Reasons <- Reasons \cup {Emergency},
         owed <- {[nth |-> p.nth, sym |-> p.sym, side |-> p.side] : p \in Owed},
         records <- closes, locked <- sem

\* Every step opens one position, settles some with one record each, or changes
\* nothing of the lifecycle: restores, updates, retries and lost messages included.
ImplementsLifecycle == Lifecycle!Spec

\* Every position ever opened has exactly one TRADE_CLOSE, or none while it is
\* owed: whichever of the close fill, the snapshot frame and the restore step
\* reconciles it first wins (ar:AR-056, "never a double TRADE_CLOSE").
EveryPositionClosesOnce ==
    \A n \in DOMAIN closes :
        Len(closes[n]) = IF \E p \in Owed : p.nth = n THEN 0 ELSE 1

\* A module's dispatch semaphore is held only on behalf of a position of its
\* side that is still owed a close: no close path, a gap close between two
\* awaits included, leaks it and locks the module out (gate G7 CHECK 4).
SemaphoreHeldForPosition ==
    \A sd \in Sides : sem[sd] => \E p \in Owed : p.side = sd

\* Sequence rule I-6: a closing order never coexists with a stop that rests, or
\* is still to be placed, for the position it closes: the two would sell it twice.
CloseNeverRacesStop ==
    \A o \in book, x \in book \cup pendingStops :
        o.kind \in ClosingKinds /\ x.kind = "stop" => o.pos # x.pos

\* The in-flight stamp, the HELD marker and the MPP retry together never have
\* two closing orders alive for one position (the double-dispatch guard).
OneClosingOrderPerPosition ==
    \A o, x \in {y \in book : y.kind \in ClosingKinds} : o.pos = x.pos => o = x

\* A HELD marker never outlives its position: it would silently block the exits
\* of the next one (_drive_live_close: "reset for a clean reopen").
HeldNeedsPosition == \A s \in held : \E p \in Owed : p.sym = s

\* The exit reason stamped on a symbol is that of a position still owed a close,
\* never one left for the next position to inherit.
StampNeedsPosition == \A s \in Symbols : stamp[s] # None => \E p \in Owed : p.sym = s

\* The entry fee, the MAE high-water and the queued exits of a symbol belong to
\* the position open there now: a reopened symbol starts fresh.
LiveStateIsOfThePosition ==
    \A s \in Symbols :
        LET mine == {p \in Owed : p.sym = s}
        IN  /\ fee[s] # None => \E p \in mine : p.id = fee[s]
            /\ mae[s] # None => \E p \in mine : p.id = mae[s]
            /\ (\E i \in intents : i.sym = s) => mine # {}

\* A position carries the entry-time snapshot (stop price, ATR) of its own order,
\* never one left in the registry by an entry that did not fill.
SnapshotIsItsOwn == \A p \in Owed : p.snap \in {None, p.id}

\* Whatever ws_manager keeps by symbol next to the mirror, the HELD set, the exit
\* stamps and the registry of entries, is of the position of that symbol.
NothingIsInherited == HeldNeedsPosition /\ StampNeedsPosition /\ SnapshotIsItsOwn

\* With every report read, the mirror holds what the account holds, whatever
\* stops, exits, retries and refusals came before.
MirrorMatchesAccount ==
    frames = <<>> =>
        \A s \in Symbols :
            account[s] = IF IsOpen(mirror, s)
                         THEN Signed(mirror[s].side, mirror[s].qty) ELSE 0

\* A TRADE_CLOSE names an exit the bot dispatched only if that exit's order made
\* the fill; any other close is the off-book stop (note_live_exit_dispatch).
ReasonNamesTheOrder ==
    [][\A n \in DOMAIN closes :
        \A k \in DOMAIN closes'[n] \ DOMAIN closes[n] :
            closes'[n][k] # Emergency => Head(frames).id[1] = "exit"]_vars

\* Somebody answers for the position open on s: a stop or a closing order of its own,
\* placed or about to be; the driver of its exit, until it leaves; the operator, told
\* that the exit failed; or the fill that ends it, on its way.
Guarded(s) ==
    \/ \E x \in book \cup pendingStops : x.kind # "entry" /\ x.pos = mirror[s].id
    \/ (Acking \/ pc = "probe") /\ job.pos.id = mirror[s].id
    \/ s \in held
    \/ \E i \in DOMAIN frames : /\ frames[i].t = "fill" /\ frames[i].sym = s
                                /\ frames[i].side # mirror[s].side
Bared(s) == IsOpen(mirror, s) /\ mirror[s].snap # None /\ ~Guarded(s)

\* The steps that can leave a position bare.  Nothing in the program places a stop
\* again, sends an expired close again, or resumes an exit it deferred.
Lapse ==
    \/ RejectStop \/ KrakenCancelsStop  \* the stop is refused, or taken away
    \/ KillIoc \/ RejectClose           \* the close ends unfilled, the driver gone
    \/ ProbeAccepted                    \* ... or the driver leaves, its answer unread
    \/ DeferNoQuote                     \* limit_only with no bbo: the stop is cancelled
    \/ ClearHeld                        \* the operator takes the position over ...
    \/ ProcessCancel /\ clears > 0      \* ... and the cancel lands only then
    \/ Drop \/ conn = "down"            \* the line is lost, and what was sent over it

\* "Never an open live position with no resting emergSL" (drive_after_batch), as far
\* as the code keeps it: an open position that carries its stop price goes bare only
\* by one of the lapses.  No order of acks, timeouts, retries, refusals, HELD exits and
\* fills takes its stop away before somebody else answers for it; a leftover exit
\* stamp answers for nothing.
StaysGuarded == [][\A s \in Symbols : Bared(s)' => Bared(s) \/ Lapse]_vars

\* A queued exit is always taken: dispatched, refused, or overtaken by the close.
QueuedExitIsTaken ==
    \A s \in Symbols :
        (\E i \in intents : i.sym = s) ~> (pc = "dead" \/ ~\E i \in intents : i.sym = s)

\* The on-fill stops are always sent: waiting for cancel ACKs never starves them.
StopIsSent == (pendingStops # {}) ~> (pendingStops = {} \/ pc = "dead")

\* An exit attempt always ends, in a closing order or a HELD marker: no answer of
\* Kraken's, or lack of one, keeps the driver waiting.
ExitAttemptEnds == (job # None) ~> (job = None \/ pc = "dead")

\* Work that drive_after_batch is given is always finished, although it waits
\* inside the only loop that reads Kraken's answers.
WorkEnds == QueuedExitIsTaken /\ StopIsSent /\ ExitAttemptEnds

\* A dropped connection is always replaced: the reconnect never abandons.
ReconnectEnds == (conn = "down") ~> (conn = "up" \/ pc = "dead")
=============================================================================
