--------------------------- MODULE CiatsConductor ---------------------------
(***************************************************************************)
(* One wallet's CIATS learning loop: the conductor, its PDCA engine, its   *)
(* parameter store and the operator's approval inbox.  on_close runs at    *)
(* every closed trade: ingest the outcome, recompute the Half-Kelly size,  *)
(* scan for drift and plan candidates from it, then poll the inbox and     *)
(* apply what Bill approved.  It never suspends, so nothing but its own    *)
(* steps happens between "ingest" and the end of the boundary loop.        *)
(*                                                                         *)
(* Statistics are choices: whether Kelly is positive, drift is seen, a     *)
(* candidate forms and its CHECK passes.  The value a candidate proposes   *)
(* is derived from the corpus, so it is named by the trade count.          *)
(***************************************************************************)
EXTENDS Integers, Sequences, SequencesExt

CONSTANTS
    TradeFloor,      \* CIATS_TRADE_FLOOR: 200 closed trades (HR-CI-004)
    KellyInterval,   \* KELLY_RECOMPUTE_INTERVAL: 50
    MinInterval,     \* MIN_TRADES_BETWEEN_CHANGES: 50 (HR-CI-005)
    FilterParams,    \* the owned SSS thresholds an entry-filter plan may move
    None,
    MaxTrades,       \* bound on the closes of a behaviour
    MaxRequests      \* bound on the approvals asked for

ASSUME ConductorAssumption ==
    /\ TradeFloor \in Nat /\ KellyInterval \in Nat \ {0} /\ MinInterval \in Nat
    /\ MaxTrades \in Nat /\ MaxRequests \in Nat
    /\ None \notin Nat

VARIABLES
    trades,       \* CiatsPool._trades: the closed-trade clock
    pending,      \* _pending: request id -> the staged change, in id order
    reqId,        \* _req_id: the requests asked for so far
    phase,        \* PdcaEngine._phase
    proposal,     \* PdcaEngine._proposal: the one candidate in the engine
    lastChange,   \* ParameterStore._last_change_trade_count
    evolution,    \* ParameterStore._evolution
    inbox,        \* ApprovalInbox._decisions
    step,         \* where on_close is
    todo          \* the requests its boundary loop has still to visit

store == <<lastChange, evolution>>
engine == <<phase, proposal>>
vars == <<trades, pending, reqId, engine, store, inbox, step, todo>>

Params == {"mae_mult", "per_trade_size_usd"} \cup FilterParams
Proposals == [param : Params, value : Nat]
Steps == {"idle", "kelly", "scan", "stopwidth", "filter", "boundary", "raised"}

Init ==
    /\ trades = 0 /\ pending = <<>> /\ reqId = 0
    /\ phase = "idle" /\ proposal = None
    /\ lastChange = None /\ evolution = <<>>
    /\ inbox = <<>> /\ step = "idle" /\ todo = <<>>

-----------------------------------------------------------------------------
(* The staged requests, the inbox and the store. *)

\* A dict, less one key.
Without(f, id) == [i \in DOMAIN f \ {id} |-> f[i]]

\* A dict, with one key set.
With(f, id, x) == [i \in DOMAIN f \cup {id} |-> IF i = id THEN x ELSE f[i]]

Candidate(param) == [param |-> param, value |-> trades]

\* _stage_approval: the change waits for Bill under the next request id.
StageApproval(p, kind) ==
    /\ reqId < MaxRequests
    /\ reqId' = reqId + 1
    /\ pending' = With(pending, reqId + 1, [proposal |-> p, kind |-> kind])

\* ParameterStore.trades_since_last_change: without a change yet, all of them.
TradesSinceLastChange == IF lastChange = None THEN trades ELSE trades - lastChange

\* Mutant: one close too early.
WritableEarly == lastChange = None \/ trades - lastChange >= MinInterval - 1

\* The HR-CI-005 gate of ParameterStore.apply.  No plan names the sacred R:R,
\* so its immutability gate never fires.
Writable == lastChange = None \/ trades - lastChange >= MinInterval

\* ParameterStore.apply of a proposal, resolving request id.  `request` is
\* history: the request whose approval led to the write.
Apply(p, id) ==
    IF Writable
    THEN /\ lastChange' = trades
         /\ evolution' = Append(evolution, [change |-> p, at |-> trades, request |-> id])
    ELSE UNCHANGED store

-----------------------------------------------------------------------------
(* on_close, up to the boundary. *)

\* Bill answers a request (the operator edge; between closes).  An answer to
\* a request that is no longer pending is never read.
Submit(id, approved) ==
    /\ step = "idle" /\ id \in DOMAIN pending
    /\ inbox' = With(inbox, id, approved)
    /\ UNCHANGED <<trades, pending, reqId, engine, store, step, todo>>

\* ingest_close: the outcome joins the pool and the drift series.
IngestClose ==
    /\ step = "idle" /\ trades < MaxTrades
    /\ trades' = trades + 1
    /\ step' = "kelly"
    /\ UNCHANGED <<pending, reqId, engine, store, inbox, todo>>

KellyDue == trades >= TradeFloor /\ (trades - TradeFloor) % KellyInterval = 0

\* recompute_kelly with a positive edge: a new size is staged.
StageKelly ==
    /\ step = "kelly" /\ KellyDue
    /\ StageApproval(Candidate("per_trade_size_usd"), "kelly")
    /\ step' = "scan"
    /\ UNCHANGED <<trades, engine, store, inbox, todo>>

\* Not due, no wallet, W or R undefined, or a negative edge (HR-CI-008).
SkipKelly ==
    /\ step = "kelly" /\ step' = "scan"
    /\ UNCHANGED <<trades, pending, reqId, engine, store, inbox, todo>>

\* list(self._pending): ids, in the order they were staged.
InIdOrder(staged) == SetToSortSeq(DOMAIN staged, <)

\* The boundary visits what is staged by then.
EnterBoundary(staged) == step' = "boundary" /\ todo' = InIdOrder(staged)

\* scan_drift: CUSUM over at least two trades; a breach starts a plan.
ScanDrift ==
    /\ step = "scan"
    /\ \/ trades >= 2 /\ step' = "stopwidth" /\ UNCHANGED todo
       \/ EnterBoundary(pending)
    /\ UNCHANGED <<trades, pending, reqId, engine, store, inbox>>

\* initiate_plan, run_do and run_check, which always run together: the
\* engine forgets any candidate it held.
RunPdca(p, passed) ==
    /\ trades >= TradeFloor
    /\ proposal' = p
    /\ phase' = IF passed THEN "awaiting_approval" ELSE "rejected"

\* open_pdca: a passed CHECK is staged for Bill.
OpenPdca(p) ==
    \/ RunPdca(p, TRUE) /\ StageApproval(p, "pdca")
    \/ RunPdca(p, FALSE) /\ UNCHANGED <<pending, reqId>>

\* No candidate, an empty cohort, or a PLAN below the trade floor.
NoPlan == UNCHANGED <<pending, reqId, engine>>

\* plan_from_drift, track 1: the stop-width dial.
PlanStopWidth ==
    /\ step = "stopwidth"
    /\ OpenPdca(Candidate("mae_mult")) \/ NoPlan
    /\ step' = "filter"
    /\ UNCHANGED <<trades, store, inbox, todo>>

\* plan_from_drift, track 2: the entry filter, in the same close.
PlanEntryFilter ==
    /\ step = "filter"
    /\ (\E f \in FilterParams : OpenPdca(Candidate(f))) \/ NoPlan
    /\ EnterBoundary(pending')
    /\ UNCHANGED <<trades, store, inbox>>

-----------------------------------------------------------------------------
(* on_inter_trade_boundary: one request after the other. *)

AtRequest(id) == step = "boundary" /\ todo # <<>> /\ id = Head(todo)
NextRequest == todo' = Tail(todo) /\ UNCHANGED step

Undecided(id) ==
    /\ AtRequest(id) /\ id \notin DOMAIN inbox
    /\ NextRequest
    /\ UNCHANGED <<trades, pending, reqId, engine, store, inbox>>

\* A rejection is consumed, and the request stays.
ConsumeRejection(id) ==
    /\ AtRequest(id) /\ id \in DOMAIN inbox /\ ~inbox[id]
    /\ pending[id].kind = "pdca" => phase = "awaiting_approval"
    /\ inbox' = Without(inbox, id)
    /\ NextRequest
    /\ UNCHANGED <<trades, pending, reqId, engine, store>>

\* Mutant: a resolved Kelly request stays staged.
SubmitKellyKept(id) ==
    /\ AtRequest(id) /\ id \in DOMAIN inbox /\ inbox[id]
    /\ pending[id].kind = "kelly"
    /\ Apply(pending[id].proposal, id)
    /\ NextRequest
    /\ UNCHANGED <<trades, pending, reqId, engine, inbox>>

\* Mutant: any answer is taken for an approval.
SubmitKellyAnswered(id) ==
    /\ AtRequest(id) /\ id \in DOMAIN inbox
    /\ pending[id].kind = "kelly"
    /\ Apply(pending[id].proposal, id)
    /\ pending' = Without(pending, id)
    /\ inbox' = Without(inbox, id)
    /\ NextRequest
    /\ UNCHANGED <<trades, reqId, engine>>

\* An approved Kelly size goes to the store; the request is gone even when
\* the store's interval gate refuses the write.
SubmitKelly(id) ==
    /\ AtRequest(id) /\ id \in DOMAIN inbox /\ inbox[id]
    /\ pending[id].kind = "kelly"
    /\ Apply(pending[id].proposal, id)
    /\ pending' = Without(pending, id)
    /\ inbox' = Without(inbox, id)
    /\ NextRequest
    /\ UNCHANGED <<trades, reqId, engine>>

\* Mutant: act leaves the engine waiting.
ActWaiting ==
    /\ phase = "awaiting_approval" /\ TradesSinceLastChange >= MinInterval
    /\ UNCHANGED engine

\* PdcaEngine.act, its gates open: the engine hands over its own candidate.
Act ==
    /\ phase = "awaiting_approval" /\ TradesSinceLastChange >= MinInterval
    /\ phase' = "advanced" /\ UNCHANGED proposal

SubmitPdca(id) ==
    /\ AtRequest(id) /\ id \in DOMAIN inbox /\ inbox[id]
    /\ pending[id].kind = "pdca"
    /\ Act
    /\ Apply(proposal, id)
    /\ pending' = Without(pending, id)
    /\ inbox' = Without(inbox, id)
    /\ NextRequest
    /\ UNCHANGED <<trades, reqId>>

\* Mutant: a blocked answer is thrown away.
KeepGatedForgotten(id) ==
    /\ AtRequest(id) /\ id \in DOMAIN inbox /\ inbox[id]
    /\ pending[id].kind = "pdca"
    /\ phase = "awaiting_approval" /\ TradesSinceLastChange < MinInterval
    /\ inbox' = Without(inbox, id)
    /\ NextRequest
    /\ UNCHANGED <<trades, pending, reqId, engine, store>>

\* act blocks on the interval: the request and its approval wait.
KeepGated(id) ==
    /\ AtRequest(id) /\ id \in DOMAIN inbox /\ inbox[id]
    /\ pending[id].kind = "pdca"
    /\ phase = "awaiting_approval" /\ TradesSinceLastChange < MinInterval
    /\ NextRequest
    /\ UNCHANGED <<trades, pending, reqId, engine, store, inbox>>

\* act on a request the engine no longer waits on raises ValueError, which
\* nothing up to the receive loop catches.
ActRaises(id) ==
    /\ AtRequest(id) /\ id \in DOMAIN inbox
    /\ pending[id].kind = "pdca" /\ phase # "awaiting_approval"
    /\ step' = "raised"
    /\ UNCHANGED <<trades, pending, reqId, engine, store, inbox, todo>>

EndClose ==
    /\ step = "boundary" /\ todo = <<>>
    /\ step' = "idle"
    /\ UNCHANGED <<trades, pending, reqId, engine, store, inbox, todo>>

Resolve(id) ==
    \/ Undecided(id) \/ ConsumeRejection(id) \/ SubmitKelly(id)
    \/ SubmitPdca(id) \/ KeepGated(id) \/ ActRaises(id)

Next ==
    \/ \E id \in DOMAIN pending, approved \in BOOLEAN : Submit(id, approved)
    \/ IngestClose \/ StageKelly \/ SkipKelly
    \/ ScanDrift \/ PlanStopWidth \/ PlanEntryFilter
    \/ \E id \in DOMAIN pending : Resolve(id)
    \/ EndClose

Spec == Init /\ [][Next]_vars

-----------------------------------------------------------------------------
(* Properties. *)

\* pending, inbox and todo are only over requests asked for; every count is of closes
\* made so far.
StateTypeOK ==
    /\ trades \in Nat /\ reqId \in Nat
    /\ DOMAIN pending \subseteq 1 .. reqId
    /\ \A id \in DOMAIN pending :
           pending[id] \in [proposal : Proposals, kind : {"kelly", "pdca"}]
    /\ phase \in {"idle", "awaiting_approval", "rejected", "advanced"}
    /\ proposal \in Proposals \cup {None}
    /\ lastChange \in Nat \cup {None}
    /\ evolution \in Seq([change : Proposals, at : Nat, request : Nat])
    /\ DOMAIN inbox \subseteq 1 .. reqId
    /\ \A id \in DOMAIN inbox : inbox[id] \in BOOLEAN
    /\ step \in Steps


\* HR-CI-005: whichever way two changes reached the store (Kelly, PDCA), and
\* however many requests one boundary resolves, MinInterval closes lie between.
WritesAreSpaced ==
    \A i \in 1 .. Len(evolution) - 1 : evolution[i + 1].at - evolution[i].at >= MinInterval

\* While the engine waits for Bill, the newest staged PDCA request is still
\* pending and is for the engine's candidate: an approval of it has a target.
AwaitingIsStaged ==
    phase = "awaiting_approval" =>
        \E id \in DOMAIN pending :
            /\ pending[id] = [proposal |-> proposal, kind |-> "pdca"]
            /\ \A j \in DOMAIN pending : pending[j].kind = "pdca" => j <= id

\* One approval is one write: no request is resolved twice, and none that was
\* written is pending still, over all closes, boundaries and retries.
WrittenOnce ==
    /\ IsInjective([i \in DOMAIN evolution |-> evolution[i].request])
    /\ \A i \in DOMAIN evolution : evolution[i].request \notin DOMAIN pending

\* The last entry of the log.
Newest == Last(evolution)

\* HR-CI-011, as far as the code keeps it.  The store only changes at a boundary, for a
\* staged request that Bill had approved and not since rejected, and his answer is used
\* up by it.  A Kelly write is the proposal of that request.  A PDCA write is the
\* engine's candidate: the proposal of that request or of one staged after it, which
\* passed CHECK and which Bill need not have approved.
OnlyOnApproval ==
    [][evolution' # evolution =>
          /\ step = "boundary"
          /\ Newest'.request \in DOMAIN pending \cap DOMAIN inbox
          /\ inbox[Newest'.request] /\ Newest'.request \notin DOMAIN inbox'
          /\ IF pending[Newest'.request].kind = "kelly"
             THEN Newest'.change = pending[Newest'.request].proposal
             ELSE \E id \in DOMAIN pending :
                     /\ id >= Newest'.request
                     /\ pending[id] = [proposal |-> Newest'.change, kind |-> "pdca"]]_vars

\* An approval outlives closes and boundaries until it is written.  The approval of a
\* Kelly size is lost in one case, a write the interval refuses; that of a PDCA request
\* in none.
AnswersAreKept ==
    [][\A id \in DOMAIN inbox : id \notin DOMAIN inbox' =>
          \/ ~inbox[id]
          \/ evolution' # evolution /\ Newest'.request = id
          \/ id \in DOMAIN pending /\ pending[id].kind = "kelly" /\ ~Writable]_vars

\* Nothing is written without Bill's answer, and nothing he approved is lost but a Kelly
\* size within the interval.
AnswersDecide == OnlyOnApproval /\ AnswersAreKept

\* What submit_approval says of itself: on Bill's approval the staged change is applied,
\* so that what is written is what was approved.
OnlyTheApproved ==
    [][evolution' # evolution =>
          Newest'.change = pending[Newest'.request].proposal]_vars
=============================================================================
