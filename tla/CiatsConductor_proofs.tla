----------------------- MODULE CiatsConductor_proofs -----------------------
(***************************************************************************)
(* What the learning loop writes, for every floor, cadence, interval and   *)
(* set of entry-filter parameters; and, of the module Learning, that what  *)
(* CIATS concludes of the trades is what the trades say.                   *)
(***************************************************************************)
EXTENDS CiatsConductor, Learning, Series_proofs

\* The interval gate measures from lastChange; the writes themselves are in
\* the log.  The two agree, and no write is from the future.
LastChangeIsLogged ==
    /\ \A i \in 1 .. Len(evolution) : evolution[i].at <= trades
    /\ IF lastChange = None
       THEN evolution = <<>>
       ELSE /\ evolution # <<>>
            /\ lastChange = evolution[Len(evolution)].at

\* A log entry is for a request asked for and since resolved.
WritesAreResolved ==
    \A i \in 1 .. Len(evolution) :
        evolution[i].request \in 1 .. reqId /\ evolution[i].request \notin DOMAIN pending

IInv ==
    /\ StateTypeOK
    /\ LastChangeIsLogged
    /\ WritesAreSpaced
    /\ WritesAreResolved
    /\ WrittenOnce
    /\ AwaitingIsStaged

Entries == [change : Proposals, at : Nat, request : Nat]

\* The evolution log is a sequence of entries.
LEMMA LogTypes ==
    ASSUME StateTypeOK
    PROVE  /\ Len(evolution) \in Nat
           /\ DOMAIN evolution = 1 .. Len(evolution)
           /\ \A i \in 1 .. Len(evolution) :
                  evolution[i] \in Entries /\ evolution[i].at \in Nat
                    /\ evolution[i].request \in Nat
<1>1. evolution \in Seq(Entries)
  BY DEF StateTypeOK, Entries
<1>2. \A i \in 1 .. Len(evolution) : evolution[i] \in Entries
  BY <1>1
<1>3. \A e \in Entries : e.at \in Nat /\ e.request \in Nat
  BY DEF Entries
<1> QED BY <1>1, <1>2, <1>3

-----------------------------------------------------------------------------
(* A step waits, stages a change or resolves one. *)

\* Nothing is staged, written or planned.
Waits == UNCHANGED <<pending, reqId, engine, store>>

\* A change is staged, perhaps by the engine.
Stages ==
    /\ UNCHANGED store
    /\ \/ \E p \in Proposals : StageApproval(p, "kelly") /\ UNCHANGED engine
       \/ \E p \in Proposals : OpenPdca(p)

\* A staged change is resolved, and may be written.
Resolves ==
    \E id \in DOMAIN pending, p \in Proposals :
        /\ pending' = Without(pending, id)
        /\ UNCHANGED <<trades, reqId>>
        /\ Apply(p, id)
        /\ \/ pending[id].kind = "kelly" /\ UNCHANGED engine
           \/ phase' = "advanced" /\ UNCHANGED proposal

\* The inbox, the step and the clock keep their types at every step.
LEMMA SideTypes ==
    ASSUME IInv, [Next]_vars
    PROVE  /\ trades' \in Nat /\ trades' >= trades
           /\ DOMAIN inbox' \subseteq 1 .. reqId'
           /\ \A id \in DOMAIN inbox' : inbox'[id] \in BOOLEAN
           /\ step' \in Steps
<1> USE DEF IInv, StateTypeOK, Steps
<1>1. CASE UNCHANGED vars
  BY <1>1 DEF vars
<1>2. ASSUME NEW id \in DOMAIN pending, NEW approved \in BOOLEAN, Submit(id, approved)
      PROVE  /\ UNCHANGED <<trades, step, reqId>>
             /\ DOMAIN inbox' \subseteq 1 .. reqId
             /\ \A i \in DOMAIN inbox' : inbox'[i] \in BOOLEAN
  BY <1>2 DEF Submit, With
<1>3. ASSUME \/ IngestClose \/ StageKelly \/ SkipKelly \/ ScanDrift
             \/ PlanStopWidth \/ PlanEntryFilter \/ EndClose
      PROVE  /\ trades' \in Nat /\ trades' >= trades
             /\ inbox' = inbox /\ step' \in Steps /\ reqId' \in {reqId, reqId + 1}
  <2>1. CASE IngestClose \/ SkipKelly \/ EndClose
    BY <2>1 DEF IngestClose, SkipKelly, EndClose
  <2>2. CASE StageKelly
    BY <2>2 DEF StageKelly, StageApproval
  <2>3. CASE ScanDrift
    BY <2>3 DEF ScanDrift, EnterBoundary
  <2>4. CASE PlanStopWidth
    <3>1. UNCHANGED <<trades, inbox>> /\ step' = "filter"
      BY <2>4 DEF PlanStopWidth
    <3>2. reqId' \in {reqId, reqId + 1}
      BY <2>4 DEF PlanStopWidth, OpenPdca, NoPlan, StageApproval
    <3> QED BY <3>1, <3>2
  <2>5. CASE PlanEntryFilter
    <3>1. UNCHANGED <<trades, inbox>> /\ step' = "boundary"
      BY <2>5 DEF PlanEntryFilter, EnterBoundary
    <3>2. reqId' \in {reqId, reqId + 1}
      BY <2>5 DEF PlanEntryFilter, OpenPdca, NoPlan, StageApproval
    <3> QED BY <3>1, <3>2
  <2> QED BY <1>3, <2>1, <2>2, <2>3, <2>4, <2>5
<1>4. ASSUME NEW id \in DOMAIN pending, Resolve(id)
      PROVE  /\ UNCHANGED <<trades, reqId>> /\ step' \in Steps
             /\ DOMAIN inbox' \subseteq 1 .. reqId
             /\ \A i \in DOMAIN inbox' : inbox'[i] \in BOOLEAN
  BY <1>4 DEF Resolve, Undecided, ConsumeRejection, SubmitKelly, SubmitPdca, KeepGated,
              ActRaises, Without, NextRequest, AtRequest
<1> QED BY <1>1, <1>2, <1>3, <1>4 DEF Next

\* Every step waits (store, requests and candidate stay), stages a request, or resolves one.
LEMMA StepShapes ==
    ASSUME IInv, [Next]_vars
    PROVE  Waits \/ Stages \/ Resolves
<1> USE DEF IInv, StateTypeOK
<1>1. CASE UNCHANGED vars
  BY <1>1 DEF vars, Waits
<1>2. ASSUME NEW id \in DOMAIN pending, NEW approved \in BOOLEAN, Submit(id, approved)
      PROVE  Waits
  BY <1>2 DEF Submit, Waits
<1>3. CASE IngestClose \/ SkipKelly \/ ScanDrift \/ EndClose
  BY <1>3 DEF IngestClose, SkipKelly, ScanDrift, EndClose, Waits
<1>4. CASE StageKelly
  <2>1. Candidate("per_trade_size_usd") \in Proposals
    BY DEF Candidate, Proposals, Params
  <2> QED BY <1>4, <2>1 DEF StageKelly, Stages
<1>5. CASE PlanStopWidth
  <2>1. Candidate("mae_mult") \in Proposals
    BY DEF Candidate, Proposals, Params
  <2> QED BY <1>5, <2>1 DEF PlanStopWidth, NoPlan, Stages, Waits
<1>6. CASE PlanEntryFilter
  <2>1. \A f \in FilterParams : Candidate(f) \in Proposals
    BY DEF Candidate, Proposals, Params
  <2> QED BY <1>6, <2>1 DEF PlanEntryFilter, NoPlan, Stages, Waits
<1>7. ASSUME NEW id \in DOMAIN pending, Resolve(id)
      PROVE  Waits \/ Resolves
  <2>1. CASE Undecided(id) \/ ConsumeRejection(id) \/ KeepGated(id) \/ ActRaises(id)
    BY <2>1 DEF Undecided, ConsumeRejection, KeepGated, ActRaises, Waits
  <2>2. CASE SubmitKelly(id)
    <3>1. pending[id].proposal \in Proposals
      OBVIOUS
    <3> QED BY <2>2, <3>1 DEF SubmitKelly, Resolves
  <2>3. CASE SubmitPdca(id)
    <3>1. phase = "awaiting_approval" /\ proposal \in Proposals
      <4>1. phase = "awaiting_approval"
        BY <2>3 DEF SubmitPdca, Act
      <4>2. PICK j \in DOMAIN pending : pending[j] = [proposal |-> proposal, kind |-> "pdca"]
        BY <4>1 DEF AwaitingIsStaged
      <4>3. pending[j].proposal \in Proposals
        OBVIOUS
      <4> QED BY <4>1, <4>2, <4>3
    <3>2. Act /\ Apply(proposal, id) /\ pending' = Without(pending, id)
          /\ UNCHANGED <<trades, reqId>>
      BY <2>3 DEF SubmitPdca
    <3> QED BY <3>1, <3>2 DEF Act, Resolves
  <2> QED BY <1>7, <2>1, <2>2, <2>3 DEF Resolve
<1> QED BY <1>1, <1>2, <1>3, <1>4, <1>5, <1>6, <1>7 DEF Next

-----------------------------------------------------------------------------
(* Each shape preserves the invariant. *)

\* A step that leaves store, requests and candidate alone keeps the invariant.
LEMMA WaitsInv ==
    ASSUME IInv, [Next]_vars, Waits
    PROVE  IInv'
<1>1. StateTypeOK'
  BY SideTypes DEF IInv, StateTypeOK, Waits, store, engine
<1>2. LastChangeIsLogged'
  <2>1. \A i \in 1 .. Len(evolution) : evolution[i].at \in Nat
    BY LogTypes DEF IInv
  <2>2. trades \in Nat /\ trades' \in Nat /\ trades' >= trades
    BY SideTypes DEF IInv, StateTypeOK
  <2> QED BY <2>1, <2>2 DEF IInv, LastChangeIsLogged, Waits, store
<1>3. WritesAreSpaced' /\ WritesAreResolved' /\ WrittenOnce' /\ AwaitingIsStaged'
  BY DEF IInv, Waits, store, engine, WritesAreSpaced, WritesAreResolved, WrittenOnce,
         AwaitingIsStaged
<1> QED BY <1>1, <1>2, <1>3 DEF IInv

\* Staging appends a fresh, highest request id.
LEMMA Staged ==
    ASSUME StateTypeOK, NEW p \in Proposals, NEW kind \in {"kelly", "pdca"},
           StageApproval(p, kind)
    PROVE  /\ reqId' \in Nat /\ reqId' = reqId + 1
           /\ DOMAIN pending' = DOMAIN pending \cup {reqId'}
           /\ reqId' \notin DOMAIN pending
           /\ pending'[reqId'] = [proposal |-> p, kind |-> kind]
           /\ \A id \in DOMAIN pending : pending'[id] = pending[id] /\ id < reqId'
BY DEF StateTypeOK, StageApproval, With

\* A new request, with or without a new candidate, keeps the invariant.
LEMMA StagesInv ==
    ASSUME IInv, [Next]_vars, Stages
    PROVE  IInv'
<1> USE DEF IInv
<1> DEFINE Grown ==
      /\ reqId' \in Nat /\ reqId' >= reqId
      /\ DOMAIN pending' \subseteq 1 .. reqId'
      /\ \A id \in DOMAIN pending' : id \in DOMAIN pending \/ id > reqId
      /\ \A id \in DOMAIN pending' :
             pending'[id] \in [proposal : Proposals, kind : {"kelly", "pdca"}]
      /\ phase' \in {"idle", "awaiting_approval", "rejected", "advanced"}
      /\ proposal' \in Proposals \cup {None}
      /\ AwaitingIsStaged'
<1>1. Grown
  <2> USE DEF StateTypeOK
  <2>1. ASSUME NEW p \in Proposals, StageApproval(p, "kelly"), UNCHANGED engine
        PROVE  Grown
    <3>1. /\ reqId' = reqId + 1
          /\ DOMAIN pending' = DOMAIN pending \cup {reqId'}
          /\ pending'[reqId'] = [proposal |-> p, kind |-> "kelly"]
          /\ \A id \in DOMAIN pending : pending'[id] = pending[id] /\ id < reqId'
      BY <2>1, Staged
    <3>2. AwaitingIsStaged'
      <4>1. phase' = phase /\ proposal' = proposal
        BY <2>1 DEF engine
      <4>2. pending'[reqId'].kind = "kelly"
        BY <3>1
      <4> SUFFICES ASSUME phase = "awaiting_approval"
                   PROVE  AwaitingIsStaged'
        BY <4>1 DEF AwaitingIsStaged
      <4>3. PICK id \in DOMAIN pending :
                /\ pending[id] = [proposal |-> proposal, kind |-> "pdca"]
                /\ \A j \in DOMAIN pending : pending[j].kind = "pdca" => j <= id
        BY DEF AwaitingIsStaged
      <4> QED BY <3>1, <4>1, <4>2, <4>3 DEF AwaitingIsStaged
    <3> QED BY <2>1, <3>1, <3>2 DEF engine
  <2>2. ASSUME NEW p \in Proposals, RunPdca(p, TRUE), StageApproval(p, "pdca")
        PROVE  Grown
    <3>1. /\ reqId' = reqId + 1
          /\ DOMAIN pending' = DOMAIN pending \cup {reqId'}
          /\ pending'[reqId'] = [proposal |-> p, kind |-> "pdca"]
          /\ \A id \in DOMAIN pending : pending'[id] = pending[id] /\ id < reqId'
      BY <2>2, Staged
    <3>2. AwaitingIsStaged'
      BY <2>2, <3>1 DEF AwaitingIsStaged, RunPdca
    <3> QED BY <2>2, <3>1, <3>2 DEF RunPdca
  <2>3. ASSUME NEW p \in Proposals, RunPdca(p, FALSE), UNCHANGED <<pending, reqId>>
        PROVE  Grown
    BY <2>3 DEF RunPdca, AwaitingIsStaged
  <2> QED BY <2>1, <2>2, <2>3 DEF Stages, OpenPdca
<1>2. StateTypeOK'
  BY <1>1, SideTypes DEF StateTypeOK, Stages, store
<1>3. LastChangeIsLogged'
  <2>1. \A i \in 1 .. Len(evolution) : evolution[i].at \in Nat
    BY LogTypes
  <2>2. trades \in Nat /\ trades' \in Nat /\ trades' >= trades
    BY SideTypes DEF StateTypeOK
  <2> QED BY <2>1, <2>2 DEF LastChangeIsLogged, Stages, store
<1>4. WritesAreSpaced'
  BY DEF WritesAreSpaced, Stages, store
<1>5. WritesAreResolved' /\ WrittenOnce'
  <2>1. \A i \in 1 .. Len(evolution) :
            evolution[i].request \in 1 .. reqId' /\ evolution[i].request \notin DOMAIN pending'
    BY <1>1, LogTypes DEF StateTypeOK, WritesAreResolved
  <2> QED BY <2>1, LogTypes DEF Stages, store, WritesAreResolved, WrittenOnce
<1> QED BY <1>1, <1>2, <1>3, <1>4, <1>5

\* An approval that is written, or refused by the interval gate, keeps the invariant.
LEMMA ResolvesInv ==
    ASSUME IInv, [Next]_vars, Resolves
    PROVE  IInv'
<1> USE DEF IInv
<1>1. PICK id \in DOMAIN pending, p \in Proposals :
        /\ pending' = Without(pending, id)
        /\ UNCHANGED <<trades, reqId>>
        /\ Apply(p, id)
        /\ \/ pending[id].kind = "kelly" /\ UNCHANGED engine
           \/ phase' = "advanced" /\ UNCHANGED proposal
  BY DEF Resolves
<1>2. /\ DOMAIN pending' = DOMAIN pending \ {id}
      /\ \A j \in DOMAIN pending' : pending'[j] = pending[j]
  BY <1>1 DEF Without
<1>3. id \in 1 .. reqId /\ trades \in Nat
  BY DEF StateTypeOK
<1>4. AwaitingIsStaged'
  BY <1>1, <1>2 DEF AwaitingIsStaged, engine
<1>5. CASE UNCHANGED store
  <2>1. StateTypeOK'
    BY <1>1, <1>2, <1>5, SideTypes DEF StateTypeOK, store, engine
  <2>2. LastChangeIsLogged' /\ WritesAreSpaced' /\ WritesAreResolved' /\ WrittenOnce'
    BY <1>1, <1>2, <1>5 DEF store, LastChangeIsLogged, WritesAreSpaced, WritesAreResolved,
                            WrittenOnce
  <2> QED BY <1>4, <2>1, <2>2
<1>6. CASE /\ Writable
           /\ lastChange' = trades
           /\ evolution' = Append(evolution, [change |-> p, at |-> trades, request |-> id])
  <2> DEFINE e == [change |-> p, at |-> trades, request |-> id]
             n == Len(evolution)
  <2>1. e \in Entries /\ e.at = trades /\ e.request = id
    BY <1>3 DEF Entries
  <2>2. /\ evolution \in Seq(Entries) /\ n \in Nat
        /\ evolution' \in Seq(Entries)
        /\ Len(evolution') = n + 1
        /\ evolution'[n + 1] = e
        /\ \A i \in 1 .. n : evolution'[i] = evolution[i]
    <3>1. evolution \in Seq(Entries)
      BY DEF StateTypeOK, Entries
    <3> QED BY <1>6, <2>1, <3>1
  <2>3. StateTypeOK'
    <3>1. evolution' \in Seq([change : Proposals, at : Nat, request : Nat])
      BY <2>2 DEF Entries
    <3> QED BY <1>1, <1>2, <1>3, <1>6, <3>1, SideTypes DEF StateTypeOK, engine
  <2>4. LastChangeIsLogged'
    <3>1. \A i \in 1 .. n : evolution'[i].at <= trades
      BY <2>2 DEF LastChangeIsLogged
    <3>2. evolution'[n + 1].at = trades /\ evolution' # <<>>
      BY <2>1, <2>2
    <3>3. \A i \in 1 .. n + 1 : evolution'[i].at <= trades'
      <4> SUFFICES ASSUME NEW i \in 1 .. n + 1 PROVE evolution'[i].at <= trades'
        OBVIOUS
      <4>1. CASE i \in 1 .. n
        BY <1>1, <3>1, <4>1
      <4>2. CASE i = n + 1
        BY <1>1, <1>3, <3>2, <4>2
      <4> QED BY <2>2, <4>1, <4>2
    <3>4. lastChange' = evolution'[Len(evolution')].at
      BY <1>6, <2>2, <3>2
    <3>5. trades # None
      BY <1>3, ConductorAssumption
    <3> QED BY <1>6, <2>2, <3>2, <3>3, <3>4, <3>5 DEF LastChangeIsLogged
  <2>5. WritesAreSpaced'
    <3>1. n > 0 => evolution'[n + 1].at - evolution'[n].at >= MinInterval
      <4> SUFFICES ASSUME n > 0
                   PROVE  evolution'[n + 1].at - evolution'[n].at >= MinInterval
        OBVIOUS
      <4>1. evolution # <<>>
        BY <2>2
      <4>2. lastChange = evolution[n].at /\ lastChange # None
        BY <4>1 DEF LastChangeIsLogged
      <4>3. evolution'[n] = evolution[n]
        BY <2>2
      <4> QED BY <1>6, <2>1, <2>2, <4>2, <4>3 DEF Writable
    <3>2. ASSUME NEW i \in 1 .. n - 1
          PROVE  evolution'[i + 1].at - evolution'[i].at >= MinInterval
      <4>1. i \in 1 .. n /\ i + 1 \in 1 .. n
        BY <2>2
      <4> QED BY <2>2, <4>1 DEF WritesAreSpaced
    <3>3. ASSUME NEW i \in 1 .. Len(evolution') - 1
          PROVE  evolution'[i + 1].at - evolution'[i].at >= MinInterval
      <4>1. i \in 1 .. n - 1 \/ (i = n /\ n > 0)
        BY <2>2
      <4> QED BY <3>1, <3>2, <4>1
    <3> QED BY <3>3 DEF WritesAreSpaced
  <2>6. WritesAreResolved'
    <3>1. ASSUME NEW i \in 1 .. Len(evolution')
          PROVE  evolution'[i].request \in 1 .. reqId'
                   /\ evolution'[i].request \notin DOMAIN pending'
      <4>1. CASE i \in 1 .. n
        BY <1>1, <1>2, <2>2, <4>1 DEF WritesAreResolved
      <4>2. CASE i = n + 1
        BY <1>1, <1>2, <1>3, <2>1, <2>2, <4>2
      <4> QED BY <2>2, <4>1, <4>2
    <3> QED BY <3>1 DEF WritesAreResolved
  <2>7. WrittenOnce'
    <3>1. \A i \in 1 .. n : evolution[i].request # id
      BY DEF WritesAreResolved
    <3>2. DOMAIN evolution' = 1 .. n + 1 /\ DOMAIN evolution = 1 .. n
      BY <2>2
    <3>3. \A i, j \in 1 .. n : evolution[i].request = evolution[j].request => i = j
      BY <3>2 DEF WrittenOnce, IsInjective
    <3>4. ASSUME NEW i \in 1 .. n + 1, NEW j \in 1 .. n + 1,
                 evolution'[i].request = evolution'[j].request
          PROVE  i = j
      <4>1. (i \in 1 .. n \/ i = n + 1) /\ (j \in 1 .. n \/ j = n + 1)
        BY <2>2
      <4>2. evolution'[n + 1].request = id
        BY <2>1, <2>2
      <4> QED BY <2>2, <3>1, <3>3, <3>4, <4>1, <4>2
    <3>5. IsInjective([i \in DOMAIN evolution' |-> evolution'[i].request])
      BY <3>2, <3>4 DEF IsInjective
    <3> QED BY <2>6, <3>2, <2>2, <3>5 DEF WritesAreResolved, WrittenOnce
  <2> QED BY <1>4, <2>3, <2>4, <2>5, <2>6, <2>7
<1> QED BY <1>1, <1>5, <1>6 DEF Apply

-----------------------------------------------------------------------------

\* Nothing is staged or written at the start.
LEMMA InitInv == ASSUME Init PROVE IInv
BY ConductorAssumption
   DEF Init, IInv, StateTypeOK, Steps, LastChangeIsLogged, WritesAreSpaced, WritesAreResolved,
       WrittenOnce, IsInjective, AwaitingIsStaged

\* The inductive invariant of the learning loop: the log, the interval clock, the staged
\* requests and the engine agree at every step of every close.
THEOREM ConductorInv == Spec => []IInv
<1>1. ASSUME IInv, [Next]_vars PROVE IInv'
  BY <1>1, StepShapes, WaitsInv, StagesInv, ResolvesInv
<1> QED BY InitInv, <1>1, PTL DEF Spec

\* HR-CI-005 holds of the parameter-evolution log, across Kelly and PDCA writes.
THEOREM SpacedWrites == Spec => []WritesAreSpaced
<1>1. IInv => WritesAreSpaced
  BY DEF IInv
<1> QED BY ConductorInv, <1>1, PTL

\* An engine waiting for Bill always has its own request staged, and newest.
THEOREM AwaitsItsRequest == Spec => []AwaitingIsStaged
<1>1. IInv => AwaitingIsStaged
  BY DEF IInv
<1> QED BY ConductorInv, <1>1, PTL

\* No request is written twice, nor stays staged after its write.
THEOREM OneWritePerRequest == Spec => []WrittenOnce
<1>1. IInv => WrittenOnce
  BY DEF IInv
<1> QED BY ConductorInv, <1>1, PTL

\* The staged requests, the inbox, the engine and the store keep their types.
THEOREM StateIsTyped == Spec => []StateTypeOK
<1>1. IInv => StateTypeOK
  BY DEF IInv
<1> QED BY ConductorInv, <1>1, PTL

-----------------------------------------------------------------------------
(* Bill's answers. *)

\* What one step may write, and which answers it may drop.
WritesApproved ==
    evolution' # evolution =>
          /\ step = "boundary"
          /\ Newest'.request \in DOMAIN pending \cap DOMAIN inbox
          /\ inbox[Newest'.request] /\ Newest'.request \notin DOMAIN inbox'
          /\ IF pending[Newest'.request].kind = "kelly"
             THEN Newest'.change = pending[Newest'.request].proposal
             ELSE \E id \in DOMAIN pending :
                     /\ id >= Newest'.request
                     /\ pending[id] = [proposal |-> Newest'.change, kind |-> "pdca"]

KeepsAnswers ==
    \A id \in DOMAIN inbox : id \notin DOMAIN inbox' =>
          \/ ~inbox[id]
          \/ evolution' # evolution /\ Newest'.request = id
          \/ id \in DOMAIN pending /\ pending[id].kind = "kelly" /\ ~Writable

ObeysAnswers == WritesApproved /\ KeepsAnswers

\* A write is the last entry of the log, and says what was written for which request.
LEMMA Applied ==
    ASSUME StateTypeOK, NEW p \in Proposals, NEW id \in Nat, Apply(p, id)
    PROVE  /\ evolution' # evolution => Newest'.request = id /\ Newest'.change = p
           /\ Writable => evolution' # evolution
<1> DEFINE e == [change |-> p, at |-> trades, request |-> id]
<1>1. evolution \in Seq(Entries) /\ e \in Entries
  BY DEF StateTypeOK, Entries
<1>2. CASE ~Writable
  BY <1>2 DEF Apply, store
<1>3. CASE Writable
  <2>1. evolution' = Append(evolution, e)
    BY <1>3 DEF Apply
  <2>2. evolution'[Len(evolution')] = e /\ Len(evolution') = Len(evolution) + 1
        /\ Len(evolution) \in Nat
    <3> HIDE DEF e
    <3> QED BY <1>1, <2>1
  <2>3. evolution' # evolution
    BY <2>2
  <2>4. Newest' = e
    BY <2>2 DEF Newest, Last
  <2> QED BY <2>3, <2>4
<1> QED BY <1>2, <1>3

\* Using up an approval with its request obeys it: a Kelly size is its own proposal, and
\* is lost only to the interval; a PDCA change is a candidate staged no earlier, and is
\* always written.
LEMMA ResolvingObeys ==
    ASSUME StateTypeOK, NEW id \in DOMAIN pending, NEW p \in Proposals,
           AtRequest(id), id \in DOMAIN inbox, inbox[id], Apply(p, id),
           inbox' = Without(inbox, id),
           IF pending[id].kind = "kelly"
           THEN p = pending[id].proposal
           ELSE /\ Writable
                /\ \E j \in DOMAIN pending :
                       j >= id /\ pending[j] = [proposal |-> p, kind |-> "pdca"]
    PROVE  ObeysAnswers
<1>1. DOMAIN inbox' = DOMAIN inbox \ {id}
  BY DEF Without
<1>2. id \in Nat
  BY DEF StateTypeOK
<1>3. /\ evolution' # evolution => Newest'.request = id /\ Newest'.change = p
      /\ Writable => evolution' # evolution
  BY <1>2, Applied
<1>4. WritesApproved
  BY <1>1, <1>3 DEF WritesApproved, AtRequest
<1>5. KeepsAnswers
  BY <1>1, <1>3 DEF KeepsAnswers
<1> QED BY <1>4, <1>5 DEF ObeysAnswers

\* A step that leaves the log alone, and answers only added to, obeys.
LEMMA KeepingObeys ==
    ASSUME evolution' = evolution, DOMAIN inbox \subseteq DOMAIN inbox'
    PROVE  ObeysAnswers
BY DEF ObeysAnswers, WritesApproved, KeepsAnswers

\* Every step does, wherever the boundary loop is.
LEMMA StepObeys ==
    ASSUME IInv, [Next]_vars
    PROVE  ObeysAnswers
<1>1. StateTypeOK /\ AwaitingIsStaged
  BY DEF IInv
<1>2. CASE UNCHANGED vars
  BY <1>2, KeepingObeys DEF vars, store
<1>3. ASSUME NEW id \in DOMAIN pending, NEW approved \in BOOLEAN, Submit(id, approved)
      PROVE  ObeysAnswers
  BY <1>3, KeepingObeys DEF Submit, With, store
<1>4. CASE IngestClose \/ StageKelly \/ SkipKelly \/ ScanDrift \/ EndClose
  BY <1>4, KeepingObeys DEF IngestClose, StageKelly, SkipKelly, ScanDrift, EndClose, store
<1>5. CASE PlanStopWidth \/ PlanEntryFilter
  BY <1>5, KeepingObeys DEF PlanStopWidth, PlanEntryFilter, store
<1>6. ASSUME NEW id \in DOMAIN pending, Resolve(id)
      PROVE  ObeysAnswers
  <2>1. CASE Undecided(id) \/ KeepGated(id) \/ ActRaises(id)
    BY <2>1, KeepingObeys DEF Undecided, KeepGated, ActRaises, store
  <2>2. CASE ConsumeRejection(id)
    <3>1. DOMAIN inbox' = DOMAIN inbox \ {id} /\ ~inbox[id] /\ evolution' = evolution
      BY <2>2 DEF ConsumeRejection, Without, store
    <3> QED BY <3>1 DEF ObeysAnswers, WritesApproved, KeepsAnswers
  <2>3. CASE SubmitKelly(id)
    <3>1. pending[id].proposal \in Proposals
      BY <1>1 DEF StateTypeOK
    <3> QED BY <1>1, <2>3, <3>1, ResolvingObeys DEF SubmitKelly
  <2>4. CASE SubmitPdca(id)
    <3>1. PICK j \in DOMAIN pending : /\ pending[j] = [proposal |-> proposal, kind |-> "pdca"]
                                      /\ j >= id
      BY <1>1, <2>4 DEF SubmitPdca, Act, AwaitingIsStaged
    <3>2. pending[j].proposal \in Proposals
      BY <1>1 DEF StateTypeOK
    <3>3. proposal \in Proposals
      BY <3>1, <3>2
    <3>4. Writable
      BY <2>4 DEF SubmitPdca, Act, TradesSinceLastChange, Writable
    <3>5. pending[id].kind # "kelly"
      BY <2>4 DEF SubmitPdca
    <3>6. Apply(proposal, id) /\ inbox' = Without(inbox, id)
          /\ AtRequest(id) /\ id \in DOMAIN inbox /\ inbox[id]
      BY <2>4 DEF SubmitPdca
    <3> QED BY <1>1, <3>1, <3>3, <3>4, <3>5, <3>6, ResolvingObeys
  <2> QED BY <1>6, <2>1, <2>2, <2>3, <2>4 DEF Resolve
<1> QED BY <1>2, <1>3, <1>4, <1>5, <1>6 DEF Next

\* HR-CI-011 for every cadence and interval, as far as the code keeps it: no write without
\* an approval that it uses up, of that request's proposal or, for PDCA, of a candidate
\* staged no earlier; and no approval lost but a Kelly size the interval refuses.
THEOREM BillDecides == Spec => AnswersDecide
<1>1. ASSUME IInv, [Next]_vars
      PROVE  [WritesApproved]_vars /\ [KeepsAnswers]_vars
  BY <1>1, StepObeys DEF ObeysAnswers
<1> QED BY ConductorInv, <1>1, PTL
        DEF Spec, AnswersDecide, OnlyOnApproval, AnswersAreKept, WritesApproved, KeepsAnswers

-----------------------------------------------------------------------------
(* The tests CIATS decides with: pairs and rank sums, for every two samples. *)

\* The pairs of a place of v and a place of w with the greater value in v; with one as great.
More(v, A, w, B) == {p \in A \X B : v[p[1]] > w[p[2]]}
AsGreat(v, A, w, B) == {p \in A \X B : v[p[1]] >= w[p[2]]}

\* The values of v at the finitely many places A are integers.
Numbers(v, A) == IsFiniteSet(A) /\ \A i \in A : v[i] \in Int

\* The sets of pairs are finite, and the greater one has as many or more.
LEMMA FinitePairs ==
    ASSUME NEW A, NEW B, IsFiniteSet(A), IsFiniteSet(B)
    PROVE  /\ \A P \in SUBSET (A \X B) : IsFiniteSet(P) /\ Cardinality(P) \in Nat
           /\ \A P, Q \in SUBSET (A \X B) : P \subseteq Q => Cardinality(P) <= Cardinality(Q)
<1>1. IsFiniteSet(A \X B)
  BY FS_Product
<1>2. ASSUME NEW P \in SUBSET (A \X B) PROVE IsFiniteSet(P) /\ Cardinality(P) \in Nat
  BY <1>1, FS_Subset, FS_CardinalityType
<1>3. ASSUME NEW P \in SUBSET (A \X B), NEW Q \in SUBSET (A \X B), P \subseteq Q
      PROVE  Cardinality(P) <= Cardinality(Q)
  BY <1>2, <1>3, FS_Subset
<1> QED BY <1>2, <1>3

\* So are those of a greater value, and of one as great.
LEMMA PairsAreFinite ==
    ASSUME NEW A, NEW B, IsFiniteSet(A), IsFiniteSet(B), NEW v, NEW w
    PROVE  /\ More(v, A, w, B) \in SUBSET (A \X B) /\ AsGreat(v, A, w, B) \in SUBSET (A \X B)
           /\ IsFiniteSet(More(v, A, w, B)) /\ Cardinality(More(v, A, w, B)) \in Nat
           /\ IsFiniteSet(AsGreat(v, A, w, B)) /\ Cardinality(AsGreat(v, A, w, B)) \in Nat
<1>1. More(v, A, w, B) \in SUBSET (A \X B) /\ AsGreat(v, A, w, B) \in SUBSET (A \X B)
  BY DEF More, AsGreat
<1> QED BY <1>1, FinitePairs

\* The pairs with a value as great and those with a smaller one are all the pairs.
LEMMA PairsSplit ==
    ASSUME NEW A, NEW B, NEW v, NEW w, Numbers(v, A), Numbers(w, B)
    PROVE  Cardinality(AsGreat(v, A, w, B)) + Cardinality(More(w, B, v, A))
             = Cardinality(A) * Cardinality(B)
<1>1. /\ IsFiniteSet(A) /\ \A i \in A : v[i] \in Int
      /\ IsFiniteSet(B) /\ \A j \in B : w[j] \in Int
  BY DEF Numbers
<1>2. Cardinality(A \X B) = Cardinality(A) * Cardinality(B)
  BY <1>1, FS_Product
<1> DEFINE M == More(w, B, v, A)
           G == AsGreat(v, A, w, B)
           L == {p \in A \X B : v[p[1]] < w[p[2]]}
<1>3. M \in SUBSET (B \X A) /\ G \in SUBSET (A \X B) /\ IsFiniteSet(M) /\ IsFiniteSet(G)
  BY <1>1, PairsAreFinite
<1>4. ASSUME NEW x \in B, NEW y \in A PROVE <<x, y>> \in M <=> <<y, x>> \in L
  <2>1. <<x, y>> \in B \X A /\ <<y, x>> \in A \X B /\ v[y] \in Int /\ w[x] \in Int
    BY <1>1
  <2>2. <<x, y>> \in M <=> w[x] > v[y]
    BY <2>1 DEF More
  <2>3. <<y, x>> \in L <=> v[y] < w[x]
    BY <2>1
  <2> QED BY <2>1, <2>2, <2>3
<1>5. L \in SUBSET (A \X B)
  OBVIOUS
<1>6. A \X B = G \cup L /\ G \cap L = {}
  <2>1. \A p \in A \X B : v[p[1]] \in Int /\ w[p[2]] \in Int
    BY <1>1
  <2>2. \A p \in A \X B : v[p[1]] >= w[p[2]] <=> ~(v[p[1]] < w[p[2]])
    BY <2>1
  <2> QED BY <2>2 DEF AsGreat
<1> HIDE DEF M, G, L
<1>7. IsFiniteSet(L) /\ Cardinality(L) = Cardinality(M)
  <2>1. Turned(M, L, B, A)
    BY <1>3, <1>4, <1>5 DEF Turned
  <2> QED BY <1>3, <2>1, CountTurned
<1>8. Cardinality(A \X B) = Cardinality(G) + Cardinality(L)
  BY <1>3, <1>6, <1>7, CountParts
<1> QED BY <1>2, <1>7, <1>8 DEF M, G

\* s and t count row by row the pairs of a and b.
Rows(s, t, a, n, b, m) ==
    /\ s \in Ints(n) /\ \A i \in 1..n : s[i] = Cardinality(Below(b, a[i]))
    /\ t \in Ints(n) /\ \A i \in 1..n : t[i] = Cardinality(UpTo(b, a[i]))
    /\ Total(s) = Cardinality(More(a, 1..n, b, 1..m))
    /\ Total(t) = Cardinality(AsGreat(a, 1..n, b, 1..m))

\* The pairs of two lists are counted row by row.
LEMMA PairsByRows ==
    ASSUME NEW n \in Nat, NEW m \in Nat, NEW a \in Ints(n), NEW b \in Ints(m)
    PROVE  \E s, t : Rows(s, t, a, n, b, m)
<1> DEFINE M == More(a, 1..n, b, 1..m)
           G == AsGreat(a, 1..n, b, 1..m)
<1>1. IsFiniteSet(1..m) /\ M \in SUBSET ((1..n) \X (1..m)) /\ G \in SUBSET ((1..n) \X (1..m))
  BY FS_Interval DEF More, AsGreat
<1>2. ASSUME NEW i \in 1..n
      PROVE  Row(M, 1..m, i) = Below(b, a[i]) /\ Row(G, 1..m, i) = UpTo(b, a[i])
  <2>1. \A j \in 1..m : <<i, j>> \in (1..n) \X (1..m)
    OBVIOUS
  <2>2. a[i] \in Int /\ \A j \in 1..m : b[j] \in Int
    BY DEF Ints
  <2>3. \A j \in 1..m : /\ <<i, j>> \in M <=> b[j] < a[i]
                        /\ <<i, j>> \in G <=> b[j] <= a[i]
    BY <2>1, <2>2 DEF More, AsGreat
  <2>4. DOMAIN b = 1..m
    BY DEF Ints
  <2> QED BY <2>3, <2>4 DEF Row, Below, UpTo
<1> HIDE DEF M, G
<1>3. \A i \in 1..n : Cardinality(Below(b, a[i])) \in Int /\ Cardinality(UpTo(b, a[i])) \in Int
  <2>1. b \in Seq(Int)
    BY ListOfFunction DEF Ints
  <2> QED BY <2>1, Places, CountsAre
<1> DEFINE s == [i \in 1..n |-> Cardinality(Below(b, a[i]))]
           t == [i \in 1..n |-> Cardinality(UpTo(b, a[i]))]
<1>4. /\ s \in Ints(n) /\ \A i \in 1..n : s[i] = Cardinality(Below(b, a[i]))
      /\ t \in Ints(n) /\ \A i \in 1..n : t[i] = Cardinality(UpTo(b, a[i]))
  BY <1>3 DEF Ints
<1> HIDE DEF s, t
<1>5. Cardinality(M) = Total(s) /\ Cardinality(G) = Total(t)
  <2>1. /\ \A i \in 1..n : s[i] = Cardinality(Row(M, 1..m, i))
        /\ \A i \in 1..n : t[i] = Cardinality(Row(G, 1..m, i))
    BY <1>2, <1>4
  <2> QED BY <1>1, <1>4, <2>1, CountByRows
<1>6. Rows(s, t, a, n, b, m)
  BY <1>4, <1>5 DEF M, G, Rows
<1> QED BY <1>6

\* The values of two lists in a row below a value, and up to it, are those of each.
LEMMA ConcatCounts ==
    ASSUME NEW a \in Seq(Int), NEW b \in Seq(Int), NEW v \in Int
    PROVE  /\ Cardinality(Below(a \o b, v)) = Cardinality(Below(a, v)) + Cardinality(Below(b, v))
           /\ Cardinality(UpTo(a \o b, v)) = Cardinality(UpTo(a, v)) + Cardinality(UpTo(b, v))
<1>1. PICK n \in Nat, m \in Nat : n = Len(a) /\ m = Len(b) /\ DOMAIN a = 1..n /\ DOMAIN b = 1..m
  OBVIOUS
<1>2. PICK c \in Seq(Int) : c = a \o b
  BY ConcatProperties
<1>3. /\ DOMAIN c = 1..(n + m)
      /\ \A i \in 1..n : c[i] = a[i]
      /\ \A j \in 1..m : c[n + j] = b[j]
  <2>1. Len(c) = n + m /\ DOMAIN c = 1..Len(c)
    BY <1>1, <1>2
  <2>2. \A i \in 1..n : c[i] = a[i]
    BY <1>1, <1>2
  <2>3. \A j \in 1..m : c[n + j] = b[j]
    BY <1>1, <1>2
  <2> QED BY <2>1, <2>2, <2>3
<1>4. ASSUME NEW A \in SUBSET (1..n), NEW B \in SUBSET (1..m), NEW C \in SUBSET (1..(n + m)),
             \A i \in 1..n : i \in C <=> i \in A, \A j \in 1..m : n + j \in C <=> j \in B
      PROVE  Cardinality(C) = Cardinality(A) + Cardinality(B)
  <2> DEFINE H == {i \in C : i > n}
             f == [j \in B |-> n + j]
  <2>1. IsFiniteSet(A) /\ IsFiniteSet(B)
    <3>1. IsFiniteSet(1..n) /\ IsFiniteSet(1..m)
      BY FS_Interval
    <3> QED BY <3>1, FS_Subset
  <2>2. \A i \in 1..(n + m) : i \in 1..n \/ i > n
    OBVIOUS
  <2>3. f \in [B -> H] /\ \A j \in B : f[j] = n + j
    <3>1. \A j \in B : n + j \in C /\ n + j > n
      BY <1>4
    <3> QED BY <3>1
  <2>4. \A x, y \in B : f[x] = f[y] => x = y
    BY <2>3
  <2>5. \A z \in H : \E j \in B : f[j] = z
    <3> SUFFICES ASSUME NEW z \in H PROVE \E j \in B : f[j] = z
      OBVIOUS
    <3>1. z - n \in 1..m /\ n + (z - n) = z
      OBVIOUS
    <3>2. z - n \in B
      BY <1>4, <3>1
    <3> QED BY <2>3, <3>1, <3>2
  <2>6. C = A \cup H /\ A \cap H = {}
    <3>1. \A i \in C : i \in 1..n \/ i \in H
      BY <2>2
    <3>2. \A i \in A : i \in C /\ i \notin H
      BY <1>4
    <3> QED BY <1>4, <3>1, <3>2
  <2> HIDE DEF H, f
  <2>7. IsFiniteSet(H) /\ Cardinality(H) = Cardinality(B)
    BY <2>1, <2>3, <2>4, <2>5, SameCount
  <2> QED BY <2>1, <2>6, <2>7, CountParts
<1>5. \A j \in 1..m : n + j \in 1..(n + m)
  OBVIOUS
<1>6. \A i \in 1..n : i \in 1..(n + m)
  OBVIOUS
<1>7. Cardinality(Below(c, v)) = Cardinality(Below(a, v)) + Cardinality(Below(b, v))
  <2>1. /\ Below(a, v) \in SUBSET (1..n) /\ Below(b, v) \in SUBSET (1..m)
        /\ Below(c, v) \in SUBSET (1..(n + m))
    BY <1>1, <1>3 DEF Below
  <2>2. \A i \in 1..n : i \in Below(c, v) <=> i \in Below(a, v)
    BY <1>1, <1>3, <1>6 DEF Below
  <2>3. \A j \in 1..m : n + j \in Below(c, v) <=> j \in Below(b, v)
    BY <1>1, <1>3, <1>5 DEF Below
  <2> QED BY <1>4, <2>1, <2>2, <2>3
<1>8. Cardinality(UpTo(c, v)) = Cardinality(UpTo(a, v)) + Cardinality(UpTo(b, v))
  <2>1. /\ UpTo(a, v) \in SUBSET (1..n) /\ UpTo(b, v) \in SUBSET (1..m)
        /\ UpTo(c, v) \in SUBSET (1..(n + m))
    BY <1>1, <1>3 DEF UpTo
  <2>2. \A i \in 1..n : i \in UpTo(c, v) <=> i \in UpTo(a, v)
    BY <1>1, <1>3, <1>6 DEF UpTo
  <2>3. \A j \in 1..m : n + j \in UpTo(c, v) <=> j \in UpTo(b, v)
    BY <1>1, <1>3, <1>5 DEF UpTo
  <2> QED BY <1>4, <2>1, <2>2, <2>3
<1> QED BY <1>2, <1>7, <1>8

\* U1, doubled, counts the pairs the first sample wins, those it ties once.
LEMMA U1CountsPairs ==
    ASSUME NEW a \in Seq(Int), NEW b \in Seq(Int)
    PROVE  U1(a, b) = Cardinality(More(a, DOMAIN a, b, DOMAIN b))
                      + Cardinality(AsGreat(a, DOMAIN a, b, DOMAIN b))
<1>1. PICK n \in Nat, m \in Nat : /\ n = Len(a) /\ m = Len(b)
                                   /\ DOMAIN a = 1..n /\ DOMAIN b = 1..m
                                   /\ a \in Ints(n) /\ b \in Ints(m)
  <2>1. a \in Ints(Len(a)) /\ b \in Ints(Len(b)) /\ Len(a) \in Nat /\ Len(b) \in Nat
    BY DEF Ints
  <2> QED BY <2>1
<1>2. PICK ba, ua : Rows(ba, ua, a, n, a, n)
  BY <1>1, PairsByRows
<1>3. PICK bb, ub : Rows(bb, ub, a, n, b, m)
  BY <1>1, PairsByRows
<1>4. /\ ba \in Ints(n) /\ ua \in Ints(n)
      /\ \A i \in 1..n : ba[i] = Cardinality(Below(a, a[i]))
      /\ \A i \in 1..n : ua[i] = Cardinality(UpTo(a, a[i]))
      /\ Total(ba) = Cardinality(More(a, 1..n, a, 1..n))
      /\ Total(ua) = Cardinality(AsGreat(a, 1..n, a, 1..n))
  BY <1>2 DEF Rows
<1>5. /\ bb \in Ints(n) /\ ub \in Ints(n)
      /\ \A i \in 1..n : bb[i] = Cardinality(Below(b, a[i]))
      /\ \A i \in 1..n : ub[i] = Cardinality(UpTo(b, a[i]))
      /\ Total(bb) = Cardinality(More(a, 1..n, b, 1..m))
      /\ Total(ub) = Cardinality(AsGreat(a, 1..n, b, 1..m))
  BY <1>3 DEF Rows
<1> DEFINE xs == [i \in 1..n |-> ba[i] + ua[i]]
           ys == [i \in 1..n |-> bb[i] + ub[i]]
           rs == SubSeq(AverageRanks(a \o b), 1, n)
<1>6. /\ xs \in Ints(n) /\ \A i \in 1..n : xs[i] = ba[i] + ua[i] + 0
      /\ ys \in Ints(n) /\ \A i \in 1..n : ys[i] = bb[i] + ub[i] + 0
  <2>1. \A i \in 1..n : /\ ba[i] \in Int /\ ua[i] \in Int /\ ba[i] + ua[i] \in Int
                        /\ bb[i] \in Int /\ ub[i] \in Int /\ bb[i] + ub[i] \in Int
    BY <1>4, <1>5 DEF Ints
  <2> QED BY <2>1 DEF Ints
<1> HIDE DEF xs, ys
<1>7. Total(xs) = Total(ba) + Total(ua) + n * 0 /\ Total(ys) = Total(bb) + Total(ub) + n * 0
  BY <1>4, <1>5, <1>6, TotalOfSum
<1>8. rs \in Ints(n) /\ \A i \in 1..n : rs[i] = xs[i] + ys[i] + 1
  <2>1. PICK c \in Seq(Int) : c = a \o b
    BY ConcatProperties
  <2>2. DOMAIN c = 1..(n + m) /\ \A i \in 1..n : c[i] = a[i] /\ i \in 1..(n + m)
    BY <1>1, <2>1
  <2>3. \A i \in 1..(n + m) : c[i] \in Int
    BY <2>2
  <2> DEFINE r == AverageRanks(c)
  <2>4. \A i \in 1..(n + m) : r[i] = (Cardinality(Below(c, c[i])) + 1) + Cardinality(UpTo(c, c[i]))
    BY <2>2 DEF AverageRanks, Below, UpTo
  <2>5. \A i \in 1..(n + m) : Cardinality(Below(c, c[i])) \in Nat /\ Cardinality(UpTo(c, c[i])) \in Nat
    BY Places, CountsAre
  <2>6. r = [i \in 1..(n + m) |-> r[i]]
    BY <2>2 DEF AverageRanks
  <2> HIDE DEF r
  <2>7. r \in [1..(n + m) -> Int]
    BY <2>4, <2>5, <2>6
  <2>8. r \in Seq(Int) /\ Len(r) = n + m
    BY <2>7, ListOfFunction
  <2>9. rs = SubSeq(r, 1, n)
    BY <2>1 DEF r
  <2> HIDE DEF rs
  <2>10. rs \in Seq(Int) /\ Len(rs) = n /\ \A i \in 1..n : rs[i] = r[i]
    BY <2>8, <2>9
  <2>11. rs \in Ints(n)
    BY <2>10 DEF Ints
  <2>12. ASSUME NEW i \in 1..n PROVE rs[i] = xs[i] + ys[i] + 1
    <3>1. rs[i] = (Cardinality(Below(c, a[i])) + 1) + Cardinality(UpTo(c, a[i])) /\ a[i] \in Int
      BY <2>2, <2>3, <2>4, <2>10
    <3>2. /\ Cardinality(Below(c, a[i])) = ba[i] + bb[i]
          /\ Cardinality(UpTo(c, a[i])) = ua[i] + ub[i]
      BY <1>4, <1>5, <2>1, <3>1, ConcatCounts
    <3>3. xs[i] = ba[i] + ua[i] + 0 /\ ys[i] = bb[i] + ub[i] + 0
      BY <1>6
    <3>4. PICK p \in Int, q \in Int, g \in Int, h \in Int :
              p = ba[i] /\ q = ua[i] /\ g = bb[i] /\ h = ub[i]
      BY <1>4, <1>5 DEF Ints
    <3>5. Cardinality(Below(c, a[i])) = p + g /\ Cardinality(UpTo(c, a[i])) = q + h
      BY <3>2, <3>4
    <3>6. rs[i] = ((p + g) + 1) + (q + h)
      BY <3>1, <3>5
    <3>7. xs[i] = p + q /\ ys[i] = g + h
      BY <3>3, <3>4
    <3> QED BY <3>6, <3>7
  <2> QED BY <2>11, <2>12
<1>9. U1(a, b) = Total(rs) - n * (n + 1)
  BY <1>1 DEF U1
<1> HIDE DEF rs
<1>10. Total(rs) = Total(xs) + Total(ys) + n * 1
  BY <1>6, <1>8, TotalOfSum
<1>11. Total(ba) + Total(ua) = n * n
  <2>1. IsFiniteSet(1..n) /\ Cardinality(1..n) = n
    BY FS_Interval
  <2>2. \A i \in 1..n : a[i] \in Int
    BY <1>1 DEF Ints
  <2>3. Cardinality(AsGreat(a, 1..n, a, 1..n)) + Cardinality(More(a, 1..n, a, 1..n)) = n * n
    <3>1. Numbers(a, 1..n)
      BY <2>1, <2>2 DEF Numbers
    <3> QED BY <2>1, <3>1, PairsSplit
  <2>4. Total(ba) \in Int /\ Total(ua) \in Int
    BY <1>4, ListOfFunction, TotalIsInt DEF Ints
  <2> QED BY <1>4, <2>3, <2>4
<1>12. PICK p \in Int, q \in Int, g \in Int, h \in Int :
           p = Total(ba) /\ q = Total(ua) /\ g = Total(bb) /\ h = Total(ub)
  BY <1>4, <1>5, ListOfFunction, TotalIsInt DEF Ints
<1>13. U1(a, b) = g + h
  <2>1. Total(xs) = p + q /\ Total(ys) = g + h
    BY <1>7, <1>12
  <2>2. Total(rs) = p + q + (g + h) + n
    BY <1>10, <2>1
  <2>3. p + q = n * n
    BY <1>11, <1>12
  <2>4. n * (n + 1) = n * n + n /\ n * n \in Int
    OBVIOUS
  <2> QED BY <1>9, <2>2, <2>3, <2>4
<1> QED BY <1>1, <1>5, <1>12, <1>13

\* The greater of two integers, and the smaller.
LEMMA GreaterOfTwo ==
    ASSUME NEW x \in Int, NEW y \in Int
    PROVE  Max({x, y}) = IF x >= y THEN x ELSE y
<1>1. PICK m : m \in {x, y} /\ \A z \in {x, y} : m >= z
  <2>1. CASE x >= y
    BY <2>1
  <2>2. CASE ~(x >= y)
    BY <2>2
  <2> QED BY <2>1, <2>2
<1>2. Max({x, y}) \in {x, y} /\ \A z \in {x, y} : Max({x, y}) >= z
  BY <1>1 DEF Max
<1> QED BY <1>2

\* And the smaller.
LEMMA SmallerOfTwo ==
    ASSUME NEW x \in Int, NEW y \in Int
    PROVE  Min({x, y}) = IF x <= y THEN x ELSE y
<1>1. PICK m : m \in {x, y} /\ \A z \in {x, y} : m <= z
  <2>1. CASE x <= y
    BY <2>1
  <2>2. CASE ~(x <= y)
    BY <2>2
  <2> QED BY <2>1, <2>2
<1>2. Min({x, y}) \in {x, y} /\ \A z \in {x, y} : Min({x, y}) <= z
  BY <1>1 DEF Min
<1> QED BY <1>2

\* The pairs of two lists are finitely many.
LEMMA ListPairs ==
    ASSUME NEW a \in Seq(Int), NEW b \in Seq(Int)
    PROVE  /\ IsFiniteSet(DOMAIN a) /\ Cardinality(DOMAIN a) = Len(a) /\ Len(a) \in Nat
           /\ IsFiniteSet(DOMAIN b) /\ Cardinality(DOMAIN b) = Len(b) /\ Len(b) \in Nat
           /\ (\A i \in DOMAIN a : a[i] \in Int) /\ (\A i \in DOMAIN b : b[i] \in Int)
           /\ Numbers(a, DOMAIN a) /\ Numbers(b, DOMAIN b)
<1>1. Cardinality(DOMAIN a) = Len(a) /\ Cardinality(DOMAIN b) = Len(b)
  BY Places
<1>2. IsFiniteSet(DOMAIN a) /\ IsFiniteSet(DOMAIN b)
  BY Places
<1> QED BY <1>1, <1>2 DEF Numbers

\* U1 counts twice the pairs the first sample wins and once those it ties.
LEMMA U1WinsAndTies ==
    ASSUME NEW a \in Seq(Int), NEW b \in Seq(Int), NEW pairs, pairs = (DOMAIN a) \X (DOMAIN b)
    PROVE  U1(a, b) = 2 * Cardinality({p \in pairs : a[p[1]] > b[p[2]]})
                      + Cardinality({p \in pairs : a[p[1]] = b[p[2]]})
<1> DEFINE W == {p \in pairs : a[p[1]] > b[p[2]]}
           T == {p \in pairs : a[p[1]] = b[p[2]]}
           G == AsGreat(a, DOMAIN a, b, DOMAIN b)
<1>1. W = More(a, DOMAIN a, b, DOMAIN b)
  BY DEF More
<1>2. /\ \A p \in pairs : p[1] \in DOMAIN a /\ p[2] \in DOMAIN b
      /\ \A p \in pairs : a[p[1]] \in Int /\ b[p[2]] \in Int
  <2>1. \A p \in pairs : p[1] \in DOMAIN a /\ p[2] \in DOMAIN b
    OBVIOUS
  <2> QED BY <2>1, ListPairs
<1>3. G = W \cup T /\ W \cap T = {}
  <2>1. \A p \in pairs : a[p[1]] >= b[p[2]] <=> a[p[1]] > b[p[2]] \/ a[p[1]] = b[p[2]]
    BY <1>2
  <2>2. \A p \in pairs : ~(a[p[1]] > b[p[2]] /\ a[p[1]] = b[p[2]])
    BY <1>2
  <2> QED BY <2>1, <2>2 DEF AsGreat
<1>4. U1(a, b) = Cardinality(W) + Cardinality(G)
  BY <1>1, U1CountsPairs
<1>5. \A P \in SUBSET pairs : IsFiniteSet(P) /\ Cardinality(P) \in Nat
  BY ListPairs, FinitePairs
<1>6. W \in SUBSET pairs /\ T \in SUBSET pairs
  OBVIOUS
<1> HIDE DEF W, T, G
<1>7. Cardinality(G) = Cardinality(W) + Cardinality(T)
  BY <1>3, <1>5, <1>6, CountParts
<1>8. Cardinality(W) \in Nat /\ Cardinality(T) \in Nat
  BY <1>5, <1>6
<1>9. U1(a, b) = 2 * Cardinality(W) + Cardinality(T)
  BY <1>4, <1>7, <1>8
<1> QED BY <1>9 DEF W, T

\* The candidate passes only if it wins more than half of the pairs, ties as halves.
LEMMA PassingWinsMore ==
    ASSUME NEW a \in Seq(Int), NEW b \in Seq(Int), ZPasses(a, b)
    PROVE  U1(a, b) > Len(a) * Len(b)
<1>1. Deviation(a, b) > 0
  BY DEF ZPasses
<1>2. PICK u \in Int : u = U1(a, b)
  <2>1. /\ Cardinality(More(a, DOMAIN a, b, DOMAIN b)) \in Nat
        /\ Cardinality(AsGreat(a, DOMAIN a, b, DOMAIN b)) \in Nat
    BY ListPairs, PairsAreFinite
  <2> QED BY <2>1, U1CountsPairs
<1>3. PICK n \in Nat, m \in Nat : n = Len(a) /\ m = Len(b)
  OBVIOUS
<1>4. PICK d \in Int : d = u - n * m
  OBVIOUS
<1>5. Deviation(a, b) = IF d > 0 THEN Max({0, d - 1}) ELSE Min({0, d + 1})
  BY <1>2, <1>3, <1>4 DEF Deviation
<1>6. CASE d > 0
  BY <1>2, <1>3, <1>4, <1>6
<1>7. CASE ~(d > 0)
  <2>1. Deviation(a, b) = Min({0, d + 1})
    BY <1>5, <1>7
  <2>2. PICK e \in Int : e = d + 1
    OBVIOUS
  <2>3. Min({0, e}) = IF 0 <= e THEN 0 ELSE e
    <3>1. PICK z \in Int : z = 0
      OBVIOUS
    <3>2. Min({z, e}) = IF z <= e THEN z ELSE e
      BY SmallerOfTwo
    <3> QED BY <3>1, <3>2
  <2>4. Deviation(a, b) <= 0
    BY <1>7, <2>1, <2>2, <2>3
  <2> QED BY <1>1, <1>7, <2>1, <2>2, <2>3
<1> QED BY <1>6, <1>7

\* A sample that is nowhere above the other never passes.
LEMMA NotAboveFails ==
    ASSUME NEW a \in Seq(Int), NEW b \in Seq(Int), Len(a) = Len(b),
           \A i \in DOMAIN a : a[i] <= b[i]
    PROVE  ~ZPasses(a, b)
<1>1. PICK D : D = DOMAIN a /\ D = DOMAIN b
  OBVIOUS
<1>2. /\ IsFiniteSet(D) /\ Cardinality(D) = Len(b) /\ Len(a) = Len(b) /\ Len(b) \in Nat
      /\ \A i \in D : a[i] \in Int /\ b[i] \in Int /\ a[i] <= b[i]
  BY <1>1, ListPairs
<1>3. \A p \in D \X D : p[1] \in D /\ p[2] \in D
  OBVIOUS
<1>4. \A p \in D \X D : /\ a[p[1]] \in Int /\ b[p[1]] \in Int /\ b[p[2]] \in Int
                        /\ a[p[1]] <= b[p[1]]
  BY <1>2, <1>3
<1>5. /\ More(a, D, b, D) \subseteq More(b, D, b, D)
      /\ AsGreat(a, D, b, D) \subseteq AsGreat(b, D, b, D)
  <2>1. ASSUME NEW p \in D \X D
        PROVE  /\ a[p[1]] > b[p[2]] => b[p[1]] > b[p[2]]
               /\ a[p[1]] >= b[p[2]] => b[p[1]] >= b[p[2]]
    <3>1. PICK x \in Int, y \in Int, z \in Int :
              x = a[p[1]] /\ y = b[p[1]] /\ z = b[p[2]] /\ x <= y
      BY <1>4
    <3>2. x > z => y > z
      BY <3>1
    <3>3. x >= z => y >= z
      BY <3>1
    <3> QED BY <3>1, <3>2, <3>3
  <2> QED BY <2>1 DEF More, AsGreat
<1>6. /\ \A P, Q \in SUBSET (D \X D) : P \subseteq Q => Cardinality(P) <= Cardinality(Q)
  BY <1>2, FinitePairs
<1>7. /\ More(a, D, b, D) \in SUBSET (D \X D) /\ AsGreat(a, D, b, D) \in SUBSET (D \X D)
      /\ More(b, D, b, D) \in SUBSET (D \X D) /\ AsGreat(b, D, b, D) \in SUBSET (D \X D)
  BY <1>2, PairsAreFinite
<1>8. Cardinality(AsGreat(b, D, b, D)) + Cardinality(More(b, D, b, D))
        = Cardinality(D) * Cardinality(D)
  <2>1. Numbers(b, D)
    BY <1>1, ListPairs
  <2> QED BY <2>1, PairsSplit
<1>9. PICK p \in Nat, q \in Nat, g \in Nat, h \in Nat :
          /\ p = Cardinality(More(a, D, b, D)) /\ q = Cardinality(AsGreat(a, D, b, D))
          /\ g = Cardinality(More(b, D, b, D)) /\ h = Cardinality(AsGreat(b, D, b, D))
  BY <1>2, PairsAreFinite
<1>10. p <= g /\ q <= h
  BY <1>5, <1>6, <1>7, <1>9
<1>11. U1(a, b) = p + q
  BY <1>1, <1>9, U1CountsPairs
<1>12. h + g = Len(a) * Len(b)
  BY <1>2, <1>8, <1>9
<1>13. ~(U1(a, b) > Len(a) * Len(b))
  BY <1>10, <1>11, <1>12
<1> QED BY <1>13, PassingWinsMore

\* Q has the pairs of P, with the place f finds in K for the first of each.
FoundPairs(P, Q, f, A, K, B) ==
    /\ P \in SUBSET (A \X B) /\ Q \in SUBSET (K \X B)
    /\ \A i \in A, j \in B : <<i, j>> \in P <=> <<f[i], j>> \in Q

\* They are as many.
LEMMA CountFound ==
    ASSUME NEW a, NEW b, NEW K, NEW f, Finds(f, a, b, K), NEW A, A = 1..Len(a), NEW B,
           NEW P, NEW Q, IsFiniteSet(P), FoundPairs(P, Q, f, A, K, B)
    PROVE  IsFiniteSet(Q) /\ Cardinality(Q) = Cardinality(P)
<1> USE DEF FoundPairs
<1>1. /\ f \in [A -> K] /\ \A i, j \in A : f[i] = f[j] => i = j
      /\ \A z \in K : \E i \in A : f[i] = z
  BY DEF Finds
<1> DEFINE g == [p \in P |-> <<f[p[1]], p[2]>>]
<1>2. /\ \A p \in P : /\ p[1] \in A /\ p[2] \in B /\ p = <<p[1], p[2]>>
                      /\ <<f[p[1]], p[2]>> \in Q /\ g[p] = <<f[p[1]], p[2]>>
  <2>1. \A p \in P : p[1] \in A /\ p[2] \in B /\ p = <<p[1], p[2]>>
    OBVIOUS
  <2> QED BY <2>1
<1>3. g \in [P -> Q]
  BY <1>2
<1> HIDE DEF g
<1>4. \A x, y \in P : g[x] = g[y] => x = y
  <2> SUFFICES ASSUME NEW x \in P, NEW y \in P, g[x] = g[y] PROVE x = y
    OBVIOUS
  <2>1. f[x[1]] = f[y[1]] /\ x[2] = y[2] /\ x[1] \in A /\ y[1] \in A
    <3>1. PICK u, v, w, z : u = f[x[1]] /\ v = x[2] /\ w = f[y[1]] /\ z = y[2]
      OBVIOUS
    <3>2. g[x] = <<u, v>> /\ g[y] = <<w, z>> /\ x[1] \in A /\ y[1] \in A
      BY <1>2, <3>1
    <3>3. <<u, v>> = <<w, z>>
      BY <3>2
    <3> QED BY <3>1, <3>2, <3>3
  <2>2. x[1] = y[1] /\ x = <<x[1], x[2]>> /\ y = <<y[1], y[2]>>
    BY <1>1, <1>2, <2>1
  <2> QED BY <2>1, <2>2
<1>5. \A z \in Q : \E x \in P : g[x] = z
  <2> SUFFICES ASSUME NEW z \in Q PROVE \E x \in P : g[x] = z
    OBVIOUS
  <2>1. z[1] \in K /\ z[2] \in B /\ z = <<z[1], z[2]>>
    OBVIOUS
  <2>2. PICK i \in A : f[i] = z[1]
    BY <1>1, <2>1
  <2>3. <<i, z[2]>> \in P
    BY <2>1, <2>2
  <2>4. g[<<i, z[2]>>] = <<f[i], z[2]>>
    BY <1>2, <2>3
  <2> QED BY <2>1, <2>2, <2>3, <2>4
<1> QED BY <1>3, <1>4, <1>5, SameCount

\* A part of a list passes against the whole only if it wins more of the pairs with the
\* rest than it loses.
LEMMA PartBeatsTheRest ==
    ASSUME NEW b \in Seq(Int), NEW K \in SUBSET (DOMAIN b), NEW a \in Seq(Int),
           NEW f, Finds(f, a, b, K), ZPasses(a, b), NEW D, D = DOMAIN b \ K
    PROVE  Cardinality({p \in K \X D : b[p[1]] > b[p[2]]})
             > Cardinality({p \in K \X D : b[p[1]] < b[p[2]]})
<1>1. PICK N, A : N = DOMAIN b /\ A = DOMAIN a /\ A = 1..Len(a) /\ N = K \cup D /\ K \cap D = {}
  OBVIOUS
<1>2. /\ IsFiniteSet(N) /\ IsFiniteSet(A) /\ IsFiniteSet(K) /\ IsFiniteSet(D)
      /\ \A i \in N : b[i] \in Int
      /\ \A i \in A : a[i] \in Int
      /\ Cardinality(A) = Len(a) /\ Cardinality(N) = Len(b)
  BY <1>1, ListPairs, FS_Subset
<1>3. K \subseteq N /\ D \subseteq N
  BY <1>1
<1>4. \A i \in A : f[i] \in K /\ a[i] = b[f[i]]
  BY <1>1 DEF Finds
<1>5. PICK m \in Nat, n \in Nat, d \in Nat :
          m = Cardinality(K) /\ n = Cardinality(N) /\ d = Cardinality(D)
  BY <1>2, FS_CardinalityType
<1>6. m = Len(a) /\ n = Len(b) /\ n = m + d
  <2>1. n = Cardinality(K) + Cardinality(D)
    BY <1>1, <1>2, <1>5, CountParts
  <2>2. Cardinality(K) = Cardinality(A)
    <3>1. /\ f \in [A -> K] /\ \A i, j \in A : f[i] = f[j] => i = j
          /\ \A z \in K : \E i \in A : f[i] = z
      BY <1>1 DEF Finds
    <3> QED BY <1>2, <3>1, SameCount
  <2> QED BY <1>2, <1>5, <2>1, <2>2
<1>7. /\ Cardinality(More(a, A, b, N)) = Cardinality(More(b, K, b, N))
      /\ Cardinality(AsGreat(a, A, b, N)) = Cardinality(AsGreat(b, K, b, N))
  <2>1. /\ More(a, A, b, N) \in SUBSET (A \X N) /\ AsGreat(a, A, b, N) \in SUBSET (A \X N)
        /\ IsFiniteSet(More(a, A, b, N)) /\ IsFiniteSet(AsGreat(a, A, b, N))
    BY <1>2, PairsAreFinite
  <2>2. More(b, K, b, N) \in SUBSET (K \X N) /\ AsGreat(b, K, b, N) \in SUBSET (K \X N)
    BY DEF More, AsGreat
  <2>3. ASSUME NEW i \in A, NEW j \in N
        PROVE  /\ <<i, j>> \in More(a, A, b, N) <=> <<f[i], j>> \in More(b, K, b, N)
               /\ <<i, j>> \in AsGreat(a, A, b, N) <=> <<f[i], j>> \in AsGreat(b, K, b, N)
    <3>1. <<i, j>> \in A \X N /\ <<f[i], j>> \in K \X N /\ a[i] = b[f[i]]
      BY <1>4
    <3> QED BY <3>1 DEF More, AsGreat
  <2>4. /\ FoundPairs(More(a, A, b, N), More(b, K, b, N), f, A, K, N)
        /\ FoundPairs(AsGreat(a, A, b, N), AsGreat(b, K, b, N), f, A, K, N)
    BY <2>1, <2>2, <2>3 DEF FoundPairs
  <2>5. Cardinality(More(b, K, b, N)) = Cardinality(More(a, A, b, N))
    <3>1. PICK P, Q : P = More(a, A, b, N) /\ Q = More(b, K, b, N)
      OBVIOUS
    <3>2. IsFiniteSet(P) /\ FoundPairs(P, Q, f, A, K, N)
      BY <2>1, <2>4, <3>1
    <3>3. Cardinality(Q) = Cardinality(P)
      BY <1>1, <3>2, CountFound
    <3> QED BY <3>1, <3>3
  <2>6. Cardinality(AsGreat(b, K, b, N)) = Cardinality(AsGreat(a, A, b, N))
    <3>1. PICK P, Q : P = AsGreat(a, A, b, N) /\ Q = AsGreat(b, K, b, N)
      OBVIOUS
    <3>2. IsFiniteSet(P) /\ FoundPairs(P, Q, f, A, K, N)
      BY <2>1, <2>4, <3>1
    <3>3. Cardinality(Q) = Cardinality(P)
      BY <1>1, <3>2, CountFound
    <3> QED BY <3>1, <3>3
  <2> QED BY <2>5, <2>6
<1>8. /\ Cardinality(More(b, K, b, N)) = Cardinality(More(b, K, b, K)) + Cardinality(More(b, K, b, D))
      /\ Cardinality(AsGreat(b, K, b, N))
           = Cardinality(AsGreat(b, K, b, K)) + Cardinality(AsGreat(b, K, b, D))
  <2>1. /\ IsFiniteSet(More(b, K, b, K)) /\ IsFiniteSet(More(b, K, b, D))
        /\ IsFiniteSet(AsGreat(b, K, b, K)) /\ IsFiniteSet(AsGreat(b, K, b, D))
    BY <1>2, PairsAreFinite
  <2>2. K \X N = (K \X K) \cup (K \X D) /\ \A p \in K \X K : p \notin K \X D
    BY <1>1
  <2>3. /\ More(b, K, b, N) = More(b, K, b, K) \cup More(b, K, b, D)
        /\ More(b, K, b, K) \cap More(b, K, b, D) = {}
    BY <2>2 DEF More
  <2>4. /\ AsGreat(b, K, b, N) = AsGreat(b, K, b, K) \cup AsGreat(b, K, b, D)
        /\ AsGreat(b, K, b, K) \cap AsGreat(b, K, b, D) = {}
    BY <2>2 DEF AsGreat
  <2> QED BY <2>1, <2>3, <2>4, CountParts
<1>9. Numbers(b, K) /\ Numbers(b, D)
  BY <1>2, <1>3 DEF Numbers
<1>10. /\ Cardinality(AsGreat(b, K, b, K)) + Cardinality(More(b, K, b, K)) = m * m
       /\ Cardinality(AsGreat(b, K, b, D)) + Cardinality(More(b, D, b, K)) = m * d
  BY <1>5, <1>9, PairsSplit
<1>11. /\ More(b, D, b, K) \in SUBSET (D \X K) /\ IsFiniteSet(More(b, D, b, K))
       /\ Cardinality(More(b, D, b, K)) \in Nat
  BY <1>2, PairsAreFinite
<1>12. Cardinality({p \in K \X D : b[p[1]] < b[p[2]]}) = Cardinality(More(b, D, b, K))
  <2>1. PICK T : T = {p \in K \X D : b[p[1]] < b[p[2]]}
    OBVIOUS
  <2>2. ASSUME NEW x \in D, NEW y \in K
        PROVE  <<x, y>> \in More(b, D, b, K) <=> <<y, x>> \in T
    <3>1. <<x, y>> \in D \X K /\ <<y, x>> \in K \X D /\ b[x] \in Int /\ b[y] \in Int
      BY <1>2, <1>3
    <3>2. <<x, y>> \in More(b, D, b, K) <=> b[x] > b[y]
      BY <3>1 DEF More
    <3>3. <<y, x>> \in T <=> b[y] < b[x]
      BY <2>1, <3>1
    <3> QED BY <3>1, <3>2, <3>3
  <2>3. T \in SUBSET (K \X D)
    BY <2>1
  <2>4. Cardinality(T) = Cardinality(More(b, D, b, K))
    <3>1. Turned(More(b, D, b, K), T, D, K)
      BY <1>11, <2>2, <2>3 DEF Turned
    <3> QED BY <1>11, <3>1, CountTurned
  <2> QED BY <2>1, <2>4
<1>13. {p \in K \X D : b[p[1]] > b[p[2]]} = More(b, K, b, D)
  BY DEF More
<1>14. Cardinality(More(b, K, b, D)) > Cardinality(More(b, D, b, K))
  <2>1. U1(a, b) = Cardinality(More(b, K, b, N)) + Cardinality(AsGreat(b, K, b, N))
    BY <1>1, <1>7, U1CountsPairs
  <2>2. U1(a, b) > m * n
    BY <1>6, PassingWinsMore
  <2>3. PICK w \in Nat, g \in Nat, l \in Nat : /\ w = Cardinality(More(b, K, b, D))
                                               /\ g = Cardinality(AsGreat(b, K, b, D))
                                               /\ l = Cardinality(More(b, D, b, K))
    BY <1>2, PairsAreFinite
  <2>4. PICK x \in Nat, y \in Nat : /\ x = Cardinality(More(b, K, b, K))
                                    /\ y = Cardinality(AsGreat(b, K, b, K))
    BY <1>2, PairsAreFinite
  <2>5. PICK s \in Int, t \in Int : s = m * m /\ t = m * d
    OBVIOUS
  <2>6. m * n = s + t
    BY <1>6, <2>5
  <2>7. U1(a, b) = (x + w) + (y + g)
    BY <1>8, <2>1, <2>3, <2>4
  <2>8. y + x = s /\ g + l = t
    BY <1>10, <2>3, <2>4, <2>5
  <2>9. (x + w) + (y + g) > s + t
    BY <2>2, <2>6, <2>7
  <2>10. w > l
    BY <2>8, <2>9
  <2> QED BY <2>3, <2>10
<1> QED BY <1>12, <1>13, <1>14

\* Half of the values or more are up to the median, and half or more are not below it.
LEMMA MedianSplits ==
    ASSUME NEW s \in Seq(Int), Len(s) >= 1
    PROVE  /\ Median(s) \in Int
           /\ 2 * Cardinality(UpTo(s, Median(s))) >= Len(s)
           /\ 2 * Cardinality(Below(s, Median(s))) <= Len(s)
<1>1. PICK xs : xs = OrderStatistics(s)
  OBVIOUS
<1>2. PICK n \in Nat : n = Len(s) /\ n >= 1
  OBVIOUS
<1>3. /\ Len(xs) = n /\ xs \in Seq(Int)
      /\ \A k \in 1..n : k <= Cardinality(UpTo(s, xs[k])) /\ Cardinality(Below(s, xs[k])) < k
      /\ \A j, k \in 1..n : j <= k => xs[j] <= xs[k]
  BY <1>1, <1>2, OrderFacts
<1>4. \A k \in 1..n : xs[k] \in Int
  BY <1>3
<1>5. \A v : /\ Cardinality(UpTo(s, v)) \in Nat /\ Cardinality(Below(s, v)) \in Nat
             /\ UpTo(s, v) \in SUBSET (DOMAIN s) /\ Below(s, v) \in SUBSET (DOMAIN s)
  BY Places, CountsAre
<1>6. PICK h \in Nat : h = n \div 2 /\ (n = 2 * h \/ n = 2 * h + 1)
  OBVIOUS
<1>7. Median(s) = IF n % 2 = 1 THEN xs[h + 1] ELSE (xs[h] + xs[h + 1]) \div 2
  BY <1>1, <1>3, <1>6 DEF Median
<1>8. CASE n = 2 * h + 1
  <2>1. n % 2 = 1 /\ h + 1 \in 1..n
    BY <1>8
  <2>2. PICK v \in Int : v = xs[h + 1]
    BY <1>4, <2>1
  <2>3. h + 1 <= Cardinality(UpTo(s, v)) /\ Cardinality(Below(s, v)) < h + 1
    BY <1>3, <2>1, <2>2
  <2>4. Median(s) = v
    BY <1>7, <2>1, <2>2
  <2>5. PICK p \in Nat, q \in Nat : p = Cardinality(UpTo(s, v)) /\ q = Cardinality(Below(s, v))
    BY <1>5
  <2>6. 2 * p >= n /\ 2 * q <= n
    BY <1>8, <2>3, <2>5
  <2>7. UpTo(s, Median(s)) = UpTo(s, v) /\ Below(s, Median(s)) = Below(s, v)
    BY <2>4
  <2> QED BY <1>2, <2>2, <2>4, <2>5, <2>6, <2>7
<1>9. CASE n = 2 * h
  <2>1. n % 2 # 1 /\ h \in 1..n /\ h + 1 \in 1..n
    BY <1>2, <1>9
  <2>2. PICK v \in Int, w \in Int : v = xs[h] /\ w = xs[h + 1] /\ v <= w
    BY <1>3, <1>4, <2>1
  <2>3. PICK c \in Int : c = (v + w) \div 2 /\ v <= c /\ c <= w
    <3>1. PICK u \in Int : u = v + w /\ 2 * v <= u /\ u <= 2 * w
      BY <2>2
    <3>2. /\ u \div 2 \in Int
          /\ 2 * (u \div 2) <= u
          /\ u < 2 * (u \div 2) + 2
      OBVIOUS
    <3>3. PICK c \in Int : c = u \div 2 /\ 2 * c <= u /\ u < 2 * c + 2
      BY <3>2
    <3>4. v <= c
      BY <3>1, <3>3
    <3>5. c <= w
      BY <3>1, <3>3
    <3> QED BY <3>1, <3>3, <3>4, <3>5
  <2>4. Median(s) = c
    BY <1>7, <2>1, <2>2, <2>3
  <2>5. \A i \in DOMAIN s : s[i] \in Int
    OBVIOUS
  <2>6. UpTo(s, v) \subseteq UpTo(s, c)
    <3>1. \A i \in DOMAIN s : s[i] <= v => s[i] <= c
      BY <2>3, <2>5
    <3> QED BY <3>1 DEF UpTo
  <2>7. Below(s, c) \subseteq Below(s, w)
    <3>1. \A i \in DOMAIN s : s[i] < c => s[i] < w
      BY <2>3, <2>5
    <3> QED BY <3>1 DEF Below
  <2>8. /\ Cardinality(UpTo(s, v)) <= Cardinality(UpTo(s, c))
        /\ Cardinality(Below(s, c)) <= Cardinality(Below(s, w))
    BY <1>5, <2>6, <2>7, Places
  <2>9. h <= Cardinality(UpTo(s, v)) /\ Cardinality(Below(s, w)) < h + 1
    BY <1>3, <2>1, <2>2
  <2>10. PICK p \in Nat, q \in Nat, g \in Nat, l \in Nat :
            /\ p = Cardinality(UpTo(s, v)) /\ q = Cardinality(UpTo(s, c))
            /\ g = Cardinality(Below(s, c)) /\ l = Cardinality(Below(s, w))
    BY <1>5
  <2>11. h <= p /\ p <= q /\ g <= l /\ l <= h
    BY <2>8, <2>9, <2>10
  <2>12. 2 * q >= n /\ 2 * g <= n
    BY <1>9, <2>11
  <2> QED BY <1>2, <2>3, <2>4, <2>10, <2>12
<1> QED BY <1>6, <1>8, <1>9

-----------------------------------------------------------------------------

\* The total of a stretch that ends one further is more by what is there.
LEMMA LongerStretch ==
    ASSUME NEW s \in Seq(Int), NEW i \in Nat, i + 1 <= Len(s), NEW j \in 1..(i + 1)
    PROVE  /\ Total(SubSeq(s, j, i)) \in Int
           /\ Total(SubSeq(s, j, i + 1)) = Total(SubSeq(s, j, i)) + s[i + 1]
<1>1. PICK t : t = SubSeq(s, j, i)
  OBVIOUS
<1>2. PICK u : u = SubSeq(s, j, i + 1)
  OBVIOUS
<1>3. \A k \in 1..Len(s) : s[k] \in Int
  OBVIOUS
<1>4. /\ t \in Seq(Int) /\ Len(t) = i - j + 1
      /\ \A k \in 1..(i - j + 1) : t[k] = s[j + k - 1]
  <2>1. \A k \in j..i : s[k] \in Int
    BY <1>3
  <2>2. SubSeq(s, j, i) \in Seq(Int)
    BY <2>1, SubSeqProperties
  <2>3. Len(SubSeq(s, j, i)) = IF j <= i THEN i - j + 1 ELSE 0
    BY <2>1, SubSeqProperties
  <2>4. \A k \in 1..(i - j + 1) : SubSeq(s, j, i)[k] = s[j + k - 1]
    BY <2>1, SubSeqProperties
  <2> QED BY <1>1, <2>2, <2>3, <2>4
<1>5. /\ u \in Seq(Int) /\ Len(u) = (i - j + 1) + 1
      /\ \A k \in 1..((i - j + 1) + 1) : u[k] = s[j + k - 1]
  <2>1. \A k \in j..(i + 1) : s[k] \in Int
    BY <1>3
  <2>2. /\ SubSeq(s, j, i + 1) \in Seq(Int)
        /\ Len(SubSeq(s, j, i + 1)) = IF j <= i + 1 THEN (i + 1) - j + 1 ELSE 0
        /\ \A k \in 1..((i + 1) - j + 1) : SubSeq(s, j, i + 1)[k] = s[j + k - 1]
    BY <2>1, SubSeqProperties
  <2> QED BY <1>2, <2>2
<1>6. u = Append(t, s[i + 1])
  <2>1. PICK x \in Int : x = s[i + 1]
    BY <1>3
  <2>2. PICK w : w = Append(t, x)
    OBVIOUS
  <2>3. /\ w \in Seq(Int) /\ Len(w) = Len(t) + 1 /\ w[Len(t) + 1] = x
        /\ \A k \in 1..Len(t) : w[k] = t[k]
    BY <1>4, <2>2
  <2>4. Len(u) = Len(w)
    BY <1>4, <1>5, <2>3
  <2>5. ASSUME NEW k \in 1..Len(u) PROVE u[k] = w[k]
    <3>1. u[k] = s[j + k - 1]
      BY <1>5
    <3>2. CASE k \in 1..Len(t)
      BY <1>4, <2>3, <3>1, <3>2
    <3>3. CASE k = Len(t) + 1
      <4>1. j + k - 1 = i + 1
        BY <1>4, <3>3
      <4> QED BY <2>1, <2>3, <3>1, <3>3, <4>1
    <3> QED BY <1>4, <1>5, <3>2, <3>3
  <2> QED BY <1>5, <2>1, <2>2, <2>3, <2>4, <2>5, SeqEqual
<1>7. s[i + 1] \in Int
  BY <1>3
<1>8. Total(t) \in Int /\ Total(u) = Total(t) + s[i + 1]
  BY <1>4, <1>6, <1>7, TotalIsInt, TotalAppend
<1> QED BY <1>1, <1>2, <1>8

\* arm adds up s over 0 .. n and falls back to 0.
ArmOf(arm, s, n) == arm = [i \in 0..n |-> IF i = 0 THEN 0 ELSE Max({0, s[i] + arm[i - 1]})]

\* Every list has an arm, as far as one looks.
LEMMA ArmExists == ASSUME NEW s PROVE \A n \in Nat : \E arm : ArmOf(arm, s, n)
<1> DEFINE S == {n \in Nat : \E arm : ArmOf(arm, s, n)}
<1>1. 0 \in S
  <2>1. ArmOf([i \in 0..0 |-> 0], s, 0)
    BY DEF ArmOf
  <2> QED BY <2>1
<1>2. ASSUME NEW n \in Nat, n \in S PROVE n + 1 \in S
  <2>1. PICK f : ArmOf(f, s, n)
    BY <1>2
  <2> DEFINE y == Max({0, s[n + 1] + f[n]})
             h == [i \in 0..(n + 1) |-> IF i = n + 1 THEN y ELSE f[i]]
  <2>2. \A i \in 0..n : f[i] = IF i = 0 THEN 0 ELSE Max({0, s[i] + f[i - 1]})
    BY <2>1 DEF ArmOf
  <2> HIDE DEF y
  <2>3. h[n + 1] = y /\ \A i \in 0..n : h[i] = f[i]
    OBVIOUS
  <2>4. h = [i \in 0..(n + 1) |-> h[i]]
    OBVIOUS
  <2> HIDE DEF h
  <2>5. ASSUME NEW i \in 0..(n + 1)
        PROVE  h[i] = IF i = 0 THEN 0 ELSE Max({0, s[i] + h[i - 1]})
    <3>1. CASE i = n + 1
      <4>1. i # 0 /\ i - 1 = n /\ h[n] = f[n]
        BY <2>3, <3>1
      <4> QED BY <2>3, <3>1, <4>1 DEF y
    <3>2. CASE i \in 0..n
      <4>1. i # 0 => i - 1 \in 0..n
        BY <3>2
      <4> QED BY <2>2, <2>3, <3>2, <4>1
    <3> QED BY <3>1, <3>2
  <2>6. ArmOf(h, s, n + 1)
    BY <2>4, <2>5 DEF ArmOf
  <2> QED BY <2>6
<1> HIDE DEF S
<1>3. \A n \in Nat : n \in S
  BY <1>1, <1>2, Induction
<1> QED BY <1>3 DEF S

\* Where the arm stands is the most any stretch that ends there adds up to, or 0.
LEMMA ArmIsTheWorstStretch ==
    ASSUME NEW s \in Seq(Int), NEW arm, ArmOf(arm, s, Len(s)), NEW i \in 1..Len(s)
    PROVE  /\ arm[i] \in Nat
           /\ \A j \in 1..i : Total(SubSeq(s, j, i)) \in Int /\ Total(SubSeq(s, j, i)) <= arm[i]
           /\ arm[i] = 0 \/ \E j \in 1..i : arm[i] = Total(SubSeq(s, j, i))
<1> DEFINE T(j, k) == Total(SubSeq(s, j, k))
           Good(k) == /\ arm[k] \in Nat
                      /\ \A j \in 1..k : T(j, k) \in Int /\ T(j, k) <= arm[k]
                      /\ arm[k] = 0 \/ \E j \in 1..k : arm[k] = T(j, k)
           All == {k \in Nat : k <= Len(s) => Good(k)}
<1>1. PICK n \in Nat : n = Len(s)
  OBVIOUS
<1>2. arm[0] = 0 /\ \A k \in Nat : k + 1 <= n => arm[k + 1] = Max({0, s[k + 1] + arm[k]})
  <2>1. \A k \in 0..n : arm[k] = IF k = 0 THEN 0 ELSE Max({0, s[k] + arm[k - 1]})
    BY <1>1 DEF ArmOf
  <2>2. ASSUME NEW k \in Nat, k + 1 <= n PROVE arm[k + 1] = Max({0, s[k + 1] + arm[k]})
    <3>1. k + 1 \in 0..n /\ k + 1 # 0 /\ (k + 1) - 1 = k
      BY <2>2
    <3> QED BY <2>1, <3>1
  <2>3. 0 \in 0..n
    OBVIOUS
  <2> QED BY <2>1, <2>2, <2>3
<1>3. 0 \in All
  BY <1>2
<1>4. ASSUME NEW k \in Nat, k \in All PROVE k + 1 \in All
  <2> SUFFICES ASSUME k + 1 <= Len(s) PROVE Good(k + 1)
    OBVIOUS
  <2>1. Good(k)
    BY <1>4
  <2>2. PICK x \in Int : x = s[k + 1]
    OBVIOUS
  <2>3. \A j \in 1..(k + 1) : T(j, k) \in Int /\ T(j, k + 1) = T(j, k) + x
    BY <2>2, LongerStretch
  <2>4. T(k + 1, k) = 0
    <3>1. SubSeq(s, k + 1, k) = <<>>
      BY SubSeqEmpty
    <3> QED BY <3>1, TotalOfNone
  <2> HIDE DEF T
  <2>5. PICK a \in Nat : a = arm[k]
    BY <2>1
  <2>6. arm[k + 1] = IF 0 >= x + a THEN 0 ELSE x + a
    <3>1. PICK y \in Int, z \in Int : y = x + a /\ z = 0
      OBVIOUS
    <3>2. Max({z, y}) = IF z >= y THEN z ELSE y
      BY GreaterOfTwo
    <3> QED BY <1>1, <1>2, <2>2, <2>5, <3>1, <3>2
  <2>7. arm[k + 1] \in Nat /\ arm[k + 1] >= x + a /\ arm[k + 1] >= x
    BY <2>6
  <2>8. ASSUME NEW j \in 1..(k + 1) PROVE T(j, k + 1) \in Int /\ T(j, k + 1) <= arm[k + 1]
    <3>1. PICK y \in Int : y = T(j, k) /\ T(j, k + 1) = y + x
      BY <2>3
    <3>2. CASE j = k + 1
      BY <2>4, <2>7, <3>1, <3>2
    <3>3. CASE j \in 1..k
      <4>1. y <= a
        BY <2>1, <2>5, <3>1, <3>3
      <4> QED BY <2>7, <3>1, <4>1
    <3> QED BY <3>2, <3>3
  <2>9. arm[k + 1] = 0 \/ \E j \in 1..(k + 1) : arm[k + 1] = T(j, k + 1)
    <3>1. CASE 0 >= x + a
      BY <2>6, <3>1
    <3>2. CASE ~(0 >= x + a) /\ a = 0
      <4>1. arm[k + 1] = x
        BY <2>6, <3>2
      <4>2. T(k + 1, k + 1) = x /\ k + 1 \in 1..(k + 1)
        BY <2>3, <2>4
      <4> QED BY <4>1, <4>2
    <3>3. CASE ~(0 >= x + a) /\ a # 0
      <4>1. PICK j \in 1..k : a = T(j, k)
        BY <2>1, <2>5, <3>3
      <4>2. j \in 1..(k + 1) /\ T(j, k + 1) = a + x
        BY <2>3, <4>1
      <4>3. arm[k + 1] = a + x
        BY <2>6, <3>3
      <4> QED BY <4>2, <4>3
    <3> QED BY <3>1, <3>2, <3>3
  <2> QED BY <2>7, <2>8, <2>9
<1> HIDE DEF All
<1>5. \A k \in Nat : k \in All
  BY <1>3, <1>4, Induction
<1> QED BY <1>5 DEF All

-----------------------------------------------------------------------------
(* The deviation of a series is a natural number. *)

\* n times the squares is no less than the square of the sum.
LEMMA SquaresOutweigh ==
    ASSUME NEW s \in Seq(Int)
    PROVE  /\ Times(s, s) \in Seq(Int) /\ Total(s) \in Int /\ Total(Times(s, s)) \in Int
           /\ Len(s) * Total(Times(s, s)) - Total(s) * Total(s) \in Nat
<1>1. PICK n \in Nat : n = Len(s) /\ DOMAIN s = 1..n
  OBVIOUS
<1>2. PICK q : q = Times(s, s)
  OBVIOUS
<1>3. q \in Ints(n) /\ s \in Ints(n) /\ \A i \in 1..n : q[i] = s[i] * s[i] /\ s[i] \in Int
  <2>1. \A i \in 1..n : s[i] \in Int
    BY <1>1
  <2>2. \A i \in 1..n : s[i] * s[i] \in Int
    BY <2>1
  <2>3. q = [i \in 1..n |-> s[i] * s[i]]
    BY <1>1, <1>2 DEF Times
  <2>4. s \in [1..n -> Int]
    BY <1>1
  <2> QED BY <2>1, <2>2, <2>3, <2>4 DEF Ints
<1>4. PICK f : /\ Total(s) = f[n] /\ f[0] = 0
               /\ \A k \in Nat : k + 1 <= n => f[k + 1] = f[k] + s[k + 1]
  BY <1>3, TotalRun
<1>5. PICK g : /\ Total(q) = g[n] /\ g[0] = 0
               /\ \A k \in Nat : k + 1 <= n => g[k + 1] = g[k] + q[k + 1]
  BY <1>3, TotalRun
<1> DEFINE Good(k) == /\ f[k] \in Int /\ g[k] \in Int
                      /\ k * g[k] - f[k] * f[k] >= 0
                      /\ \A x \in Int : k * (x * x) - 2 * (x * f[k]) + g[k] >= 0
           All == {k \in Nat : k <= n => Good(k)}
<1>6. 0 \in All
  <2>1. \A x \in Int : 0 * (x * x) - 2 * (x * 0) + 0 >= 0
    OBVIOUS
  <2> QED BY <1>4, <1>5, <2>1
<1> HIDE DEF Good
<1>7. ASSUME NEW k \in Nat, k \in All PROVE k + 1 \in All
  <2> SUFFICES ASSUME k + 1 <= n PROVE Good(k + 1)
    OBVIOUS
  <2>1. Good(k)
    BY <1>7
  <2>2. PICK a \in Int, b \in Int, y \in Int : a = f[k] /\ b = g[k] /\ y = s[k + 1]
    BY <1>3, <2>1, k + 1 \in 1..n DEF Good
  <2>3. f[k + 1] = a + y /\ g[k + 1] = b + y * y
    BY <1>3, <1>4, <1>5, <2>2, k + 1 \in 1..n
  <2>4. PICK yy \in Int : yy = y * y
    OBVIOUS
  <2>5. ASSUME NEW x \in Int
        PROVE  (k + 1) * (x * x) - 2 * (x * (a + y)) + (b + yy) >= 0
    <3>1. PICK xx \in Int, xa \in Int, xy \in Int : xx = x * x /\ xa = x * a /\ xy = x * y
      OBVIOUS
    <3>2. PICK kxx \in Int : kxx = k * xx
      OBVIOUS
    <3>3. kxx - 2 * xa + b >= 0
      BY <2>1, <2>2, <3>1, <3>2 DEF Good
    <3>4. xx - 2 * xy + yy >= 0
      <4>1. (x - y) * (x - y) >= 0
        OBVIOUS
      <4>2. (x - y) * (x - y) = xx - 2 * xy + yy
        BY <2>4, <3>1
      <4> QED BY <4>1, <4>2
    <3>5. (k + 1) * xx = kxx + xx /\ x * (a + y) = xa + xy
      BY <3>1, <3>2
    <3> QED BY <3>1, <3>3, <3>4, <3>5
  <2>6. (k + 1) * (b + yy) - (a + y) * (a + y) >= 0
    <3>1. PICK kb \in Int, aa \in Int, ya \in Int, kyy \in Int :
              kb = k * b /\ aa = a * a /\ ya = y * a /\ kyy = k * yy
      OBVIOUS
    <3>2. kb - aa >= 0
      BY <2>1, <2>2, <3>1 DEF Good
    <3>3. kyy - 2 * ya + b >= 0
      BY <2>1, <2>2, <2>4, <3>1 DEF Good
    <3>4. (k + 1) * (b + yy) = kb + kyy + b + yy
      BY <3>1
    <3>5. (a + y) * (a + y) = aa + 2 * ya + yy
      BY <2>4, <3>1
    <3> QED BY <3>2, <3>3, <3>4, <3>5
  <2>7. f[k + 1] \in Int /\ g[k + 1] \in Int /\ g[k + 1] = b + yy
    BY <2>3, <2>4
  <2> QED BY <2>3, <2>5, <2>6, <2>7 DEF Good
<1>8. n \in All
  <2> HIDE DEF All
  <2> QED BY <1>6, <1>7, Induction
<1>9. q \in Seq(Int)
  BY <1>3, ListOfFunction DEF Ints
<1>10. Total(s) \in Int /\ Total(q) \in Int
  BY <1>9, TotalIsInt
<1>11. n * Total(q) - Total(s) * Total(s) >= 0
  BY <1>4, <1>5, <1>8 DEF Good
<1> QED BY <1>1, <1>2, <1>9, <1>10, <1>11

-----------------------------------------------------------------------------
(* The values of the module Learning, for every corpus. *)

\* What the assumption says of the numbers.
LEMMA GivenNumbers ==
    /\ \A r \in Trades : r.net \in Int
    /\ HSigma \in Nat /\ SustainedN \in Nat /\ Nudge \in Nat /\ MaxCloses \in Nat
    /\ MinPairs \in Nat \ {0} /\ KSigma \in Int /\ Lambda \in Int
BY LearningAssumption

\* Every natural number has a root, rounded down.
LEMMA RootIsNat == ASSUME NEW n \in Nat PROVE RootOf(n) \in Nat
<1> DEFINE T == {r \in Nat : (r + 1) * (r + 1) > n}
<1>1. n \in T
  <2>1. PICK k \in Nat : k = n * n
    OBVIOUS
  <2>2. (n + 1) * (n + 1) = k + 2 * n + 1
    BY <2>1
  <2> QED BY <2>1, <2>2
<1>2. PICK x \in T : \A y \in T : x <= y
  <2>1. T \in SUBSET Nat
    OBVIOUS
  <2> HIDE DEF T
  <2> QED BY <1>1, <2>1, LeastMember
<1>3. x * x <= n
  <2>1. CASE x = 0
    BY <2>1
  <2>2. CASE x # 0
    <3>1. x - 1 \in Nat /\ x - 1 \notin T
      BY <1>2, <2>2
    <3>2. ((x - 1) + 1) * ((x - 1) + 1) = x * x
      OBVIOUS
    <3>3. x * x \in Nat
      OBVIOUS
    <3> QED BY <3>1, <3>2, <3>3
  <2> QED BY <2>1, <2>2
<1>4. x \in 0..n
  <2>1. x <= x * x
    <3>1. CASE x = 0
      BY <3>1
    <3>2. CASE x # 0
      <4>1. x >= 1 /\ x \in Nat
        BY <3>2
      <4> QED BY <4>1
    <3> QED BY <3>1, <3>2
  <2>2. PICK k \in Nat : k = x * x
    OBVIOUS
  <2> QED BY <1>2, <1>3, <2>1, <2>2
<1>5. \E r \in 0..n : r * r <= n /\ (r + 1) * (r + 1) > n
  BY <1>2, <1>3, <1>4
<1>6. RootOf(n) \in 0..n
  BY <1>5 DEF RootOf
<1> QED BY <1>6

\* The deviation and the limit of two results or more are natural numbers, and what each
\* falls short by an integer.
LEMMA DriftTypes ==
    ASSUME NEW xs \in Seq(Int), Len(xs) >= 2
    PROVE  /\ Sigma(xs) \in Nat /\ Limit(xs) \in Nat
           /\ Shortfalls(xs) \in Seq(Int) /\ Len(Shortfalls(xs)) = Len(xs)
           /\ DOMAIN Shortfalls(xs) = DOMAIN xs
<1>1. PICK n \in Nat : n = Len(xs) /\ n >= 2 /\ DOMAIN xs = 1..n
  OBVIOUS
<1>2. PICK d \in Nat : d = n * Total(Times(xs, xs)) - Total(xs) * Total(xs)
  BY <1>1, SquaresOutweigh
<1>3. PICK q \in Nat : q = 100 * n * d
  OBVIOUS
<1>4. PICK e \in Nat : e = q \div (n - 1)
  BY <1>1
<1>5. Sigma(xs) = RootOf(e)
  BY <1>1, <1>2, <1>3, <1>4 DEF Sigma
<1>6. PICK sigma \in Nat : sigma = Sigma(xs)
  BY <1>5, RootIsNat
<1>7. Limit(xs) \in Nat
  <2>1. PICK h \in Nat : h = HSigma * sigma
    BY GivenNumbers
  <2>2. Limit(xs) = h \div 10
    BY <1>6, <2>1 DEF Limit
  <2> QED BY <2>2
<1>8. PICK k \in Int : k = (KSigma * sigma) \div 10
  <2>1. PICK h \in Int : h = KSigma * sigma
    BY GivenNumbers
  <2> QED BY <2>1
<1>9. PICK mu \in Int : mu = Mu(xs)
  BY TotalIsInt DEF Mu
<1>10. \A i \in 1..n : (mu - k) - 10 * n * xs[i] \in Int
  BY <1>1
<1>11. Shortfalls(xs) = [i \in 1..n |-> (mu - k) - 10 * n * xs[i]]
  BY <1>1, <1>6, <1>8, <1>9 DEF Shortfalls
<1>12. Shortfalls(xs) \in [1..n -> Int]
  BY <1>10, <1>11
<1> QED BY <1>1, <1>6, <1>7, <1>12, ListOfFunction

\* The arm breaches when some stretch adds up to more than the limit.
LEMMA BreachIsAStretch ==
    ASSUME NEW xs \in Seq(Int), Len(xs) >= 2
    PROVE  CusumBreached(xs) <=>
               \E i, j \in DOMAIN xs : j <= i /\ Total(SubSeq(Shortfalls(xs), j, i)) > Limit(xs)
<1> DEFINE s == Shortfalls(xs)
           h == Limit(xs)
           arm == CHOOSE u : u = [i \in 0..Len(xs) |-> IF i = 0 THEN 0 ELSE Max({0, s[i] + u[i - 1]})]
<1>1. CusumBreached(xs) <=> \E i \in DOMAIN xs : arm[i] > h
  BY DEF CusumBreached
<1>2. h \in Nat
  BY DriftTypes
<1>3. s \in Seq(Int) /\ Len(s) = Len(xs) /\ DOMAIN xs = 1..Len(s) /\ Len(s) \in Nat
  BY DriftTypes
<1>4. ArmOf(arm, s, Len(xs))
  <2> HIDE DEF s
  <2>1. PICK u : ArmOf(u, s, Len(xs))
    BY <1>3, ArmExists
  <2> QED BY <2>1 DEF ArmOf
<1> HIDE DEF arm, s, h
<1>5. \A i \in 1..Len(s) :
          /\ arm[i] \in Nat
          /\ \A j \in 1..i : Total(SubSeq(s, j, i)) \in Int /\ Total(SubSeq(s, j, i)) <= arm[i]
          /\ arm[i] = 0 \/ \E j \in 1..i : arm[i] = Total(SubSeq(s, j, i))
  BY <1>3, <1>4, ArmIsTheWorstStretch
<1>6. ASSUME NEW i \in DOMAIN xs, arm[i] > h
      PROVE  \E k, j \in DOMAIN xs : j <= k /\ Total(SubSeq(s, j, k)) > h
  <2>1. arm[i] # 0
    BY <1>2, <1>6
  <2>2. PICK j \in 1..i : arm[i] = Total(SubSeq(s, j, i))
    BY <1>3, <1>5, <2>1
  <2>3. j \in DOMAIN xs /\ j <= i
    BY <1>3
  <2> QED BY <1>6, <2>2, <2>3
<1>7. ASSUME NEW i \in DOMAIN xs, NEW j \in DOMAIN xs, j <= i, Total(SubSeq(s, j, i)) > h
      PROVE  arm[i] > h
  <2>1. i \in 1..Len(s) /\ j \in 1..i
    BY <1>3, <1>7
  <2>2. PICK t \in Int, a \in Int : t = Total(SubSeq(s, j, i)) /\ a = arm[i]
    BY <1>5, <2>1
  <2>3. t <= a
    BY <1>5, <2>1, <2>2
  <2> QED BY <1>2, <1>7, <2>2, <2>3
<1> QED BY <1>1, <1>6, <1>7 DEF s, h

-----------------------------------------------------------------------------
(* The EWMA along the corpus. *)

\* e is the EWMA of the first k results, for every k up to n.
EwmaOf(e, rs, n) ==
    e = [k \in 0..n |-> IF k = 0 THEN Absent ELSE EwmaStepOf(e[k - 1], rs[k].net)]

\* Every corpus has an EWMA, as far as one looks.
LEMMA EwmaExists == ASSUME NEW rs PROVE \A n \in Nat : \E e : EwmaOf(e, rs, n)
<1> DEFINE S == {n \in Nat : \E e : EwmaOf(e, rs, n)}
<1>1. 0 \in S
  <2>1. EwmaOf([k \in 0..0 |-> Absent], rs, 0)
    BY DEF EwmaOf
  <2> QED BY <2>1
<1>2. ASSUME NEW n \in Nat, n \in S PROVE n + 1 \in S
  <2>1. PICK f : EwmaOf(f, rs, n)
    BY <1>2
  <2> DEFINE y == EwmaStepOf(f[n], rs[n + 1].net)
             h == [i \in 0..(n + 1) |-> IF i = n + 1 THEN y ELSE f[i]]
  <2>2. \A i \in 0..n : f[i] = IF i = 0 THEN Absent ELSE EwmaStepOf(f[i - 1], rs[i].net)
    BY <2>1 DEF EwmaOf
  <2> HIDE DEF y
  <2>3. h[n + 1] = y /\ \A i \in 0..n : h[i] = f[i]
    OBVIOUS
  <2>4. h = [i \in 0..(n + 1) |-> h[i]]
    OBVIOUS
  <2> HIDE DEF h
  <2>5. ASSUME NEW i \in 0..(n + 1)
        PROVE  h[i] = IF i = 0 THEN Absent ELSE EwmaStepOf(h[i - 1], rs[i].net)
    <3>1. CASE i = n + 1
      <4>1. i # 0 /\ i - 1 = n /\ h[n] = f[n]
        BY <2>3, <3>1
      <4> QED BY <2>3, <3>1, <4>1 DEF y
    <3>2. CASE i \in 0..n
      <4>1. i # 0 => i - 1 \in 0..n
        BY <3>2
      <4> QED BY <2>2, <2>3, <3>2, <4>1
    <3> QED BY <3>1, <3>2
  <2>6. EwmaOf(h, rs, n + 1)
    BY <2>4, <2>5 DEF EwmaOf
  <2> QED BY <2>6
<1> HIDE DEF S
<1>3. \A n \in Nat : n \in S
  BY <1>1, <1>2, Induction
<1> QED BY <1>3 DEF S

\* The EWMA of a corpus that another begins with goes on in the other's.
LEMMA EwmaGoesOn ==
    ASSUME NEW rs, NEW qs, NEW n \in Nat, NEW m \in Nat, n <= m, NEW e, NEW f,
           EwmaOf(e, rs, n), EwmaOf(f, qs, m), \A k \in 1..n : rs[k] = qs[k]
    PROVE  \A k \in 0..n : e[k] = f[k]
<1> DEFINE All == {k \in Nat : k <= n => e[k] = f[k]}
<1>1. \A i \in 0..n : e[i] = IF i = 0 THEN Absent ELSE EwmaStepOf(e[i - 1], rs[i].net)
  BY DEF EwmaOf
<1>2. \A i \in 0..m : f[i] = IF i = 0 THEN Absent ELSE EwmaStepOf(f[i - 1], qs[i].net)
  BY DEF EwmaOf
<1>3. 0 \in All
  BY <1>1, <1>2
<1>4. ASSUME NEW k \in Nat, k \in All PROVE k + 1 \in All
  <2> SUFFICES ASSUME k + 1 <= n PROVE e[k + 1] = f[k + 1]
    OBVIOUS
  <2>1. /\ k + 1 \in 0..n /\ k + 1 \in 0..m /\ k + 1 \in 1..n /\ k + 1 # 0
        /\ (k + 1) - 1 = k /\ e[k] = f[k]
    BY <1>4
  <2> QED BY <1>1, <1>2, <2>1
<1>5. \A k \in Nat : k \in All
  <2> HIDE DEF All
  <2> QED BY <1>3, <1>4, Induction
<1> QED BY <1>5

\* A step of the EWMA by an integer is an integer.
LEMMA EwmaStepIsInt ==
    ASSUME NEW e \in Int \cup {Absent}, NEW x \in Int
    PROVE  EwmaStepOf(e, x) \in Int
<1>1. CASE e = Absent
  BY <1>1 DEF EwmaStepOf
<1>2. CASE e # Absent
  <2>1. PICK y \in Int, z \in Int : y = Lambda * 100 * x /\ z = (10 - Lambda) * e
    BY <1>2, GivenNumbers
  <2>2. (y + z) \div 10 \in Int
    OBVIOUS
  <2> QED BY <1>2, <2>1, <2>2 DEF EwmaStepOf
<1> QED BY <1>1, <1>2

-----------------------------------------------------------------------------
(* The inductive invariant: the running totals are those of the corpus, *)
(* and the report is what they and the corpus lead to.                  *)

Winning(seen) == {r \in seen : r.net > 0}
Losing(seen) == {r \in seen : r.net < 0}
Classed == {r \in Trades : r.regime # Absent}

\* The totals of a pool that has seen these trades of rs: what Recount says of them, and
\* what it takes to tell the wins and the losses apart.
Counted(p, rs, seen) ==
    /\ p \in [n : Nat, wins : Nat, gain : Nat, loss : Nat]
    /\ p.n = Cardinality(Where(rs, seen)) /\ p.wins = Cardinality(Where(rs, Winning(seen)))
    /\ p.gain - p.loss = Total(NetWithin(rs, seen))
    /\ p.wins <= p.gain /\ p.wins <= p.n
    /\ p.wins > 0 <=> Where(rs, Winning(seen)) # {}
    /\ p.loss > 0 <=> Where(rs, Losing(seen)) # {}
    /\ p.loss > 0 => p.wins < p.n

\* One trade more is in one place more, if it is of the set.
LEMMA WhereAppend ==
    ASSUME NEW rs \in Seq(Trades), NEW r \in Trades, NEW S
    PROVE  /\ IsFiniteSet(Where(rs, S)) /\ Cardinality(Where(rs, S)) \in 0..Len(rs)
           /\ r \in S => /\ Cardinality(Where(Append(rs, r), S)) = Cardinality(Where(rs, S)) + 1
                         /\ Where(Append(rs, r), S) # {}
           /\ r \notin S => Where(Append(rs, r), S) = Where(rs, S)
           /\ Where(rs, S) # {} => Where(Append(rs, r), S) # {}
<1>1. PICK n \in Nat : n = Len(rs) /\ DOMAIN rs = 1..n
  OBVIOUS
<1>2. PICK q : q = Append(rs, r)
  OBVIOUS
<1>3. DOMAIN q = 1..(n + 1) /\ q[n + 1] = r /\ \A i \in 1..n : q[i] = rs[i]
  BY <1>1, <1>2
<1>4. IsFiniteSet(Where(rs, S)) /\ Cardinality(Where(rs, S)) \in 0..n
  <2>1. IsFiniteSet(1..n) /\ Cardinality(1..n) = n
    BY FS_Interval
  <2>2. Where(rs, S) \in SUBSET (1..n)
    BY <1>1 DEF Where
  <2>3. IsFiniteSet(Where(rs, S)) /\ Cardinality(Where(rs, S)) <= n
    BY <2>1, <2>2, FS_Subset
  <2> QED BY <2>3, FS_CardinalityType
<1>5. \A i \in 1..(n + 1) : i \in 1..n \/ i = n + 1
  OBVIOUS
<1>6. n + 1 \in 1..(n + 1) /\ n + 1 \notin 1..n /\ \A i \in 1..n : i \in 1..(n + 1)
  OBVIOUS
<1>7. r \in S => Where(q, S) = Where(rs, S) \cup {n + 1} /\ n + 1 \notin Where(rs, S)
  BY <1>1, <1>3, <1>5, <1>6 DEF Where
<1>8. r \notin S => Where(q, S) = Where(rs, S)
  BY <1>1, <1>3, <1>5, <1>6 DEF Where
<1>9. r \in S => Cardinality(Where(q, S)) = Cardinality(Where(rs, S)) + 1 /\ Where(q, S) # {}
  BY <1>4, <1>7, FS_AddElement
<1> QED BY <1>1, <1>2, <1>4, <1>7, <1>8, <1>9

\* Its result is at the end of those of the corpus.
LEMMA NetAppend ==
    ASSUME NEW rs \in Seq(Trades), NEW r \in Trades, NEW seen
    PROVE  /\ Total(NetWithin(rs, seen)) \in Int
           /\ Total(NetWithin(Append(rs, r), seen))
                = Total(NetWithin(rs, seen)) + IF r \in seen THEN r.net ELSE 0
<1>1. PICK n \in Nat : n = Len(rs) /\ DOMAIN rs = 1..n
  OBVIOUS
<1>2. PICK q : q = Append(rs, r)
  OBVIOUS
<1>3. DOMAIN q = 1..(n + 1) /\ q[n + 1] = r /\ \A i \in 1..n : q[i] = rs[i] /\ rs[i] \in Trades
  BY <1>1, <1>2
<1>4. PICK x \in Int : x = IF r \in seen THEN r.net ELSE 0
  BY GivenNumbers
<1>5. PICK s : s = NetWithin(rs, seen)
  OBVIOUS
<1>6. PICK t : t = NetWithin(q, seen)
  OBVIOUS
<1>7. s \in Seq(Int) /\ Len(s) = n /\ \A i \in 1..n : s[i] = IF rs[i] \in seen THEN rs[i].net ELSE 0
  <2>1. \A i \in 1..n : (IF rs[i] \in seen THEN rs[i].net ELSE 0) \in Int
    BY <1>3, GivenNumbers
  <2>2. s = [i \in 1..n |-> IF rs[i] \in seen THEN rs[i].net ELSE 0]
    BY <1>1, <1>5 DEF NetWithin
  <2>3. s \in [1..n -> Int]
    BY <2>1, <2>2
  <2> QED BY <2>2, <2>3, ListOfFunction
<1>8. /\ t \in Seq(Int) /\ Len(t) = n + 1 /\ t[n + 1] = x
      /\ \A i \in 1..n : t[i] = IF rs[i] \in seen THEN rs[i].net ELSE 0
  <2>1. t = [i \in 1..(n + 1) |-> IF q[i] \in seen THEN q[i].net ELSE 0]
    BY <1>3, <1>6 DEF NetWithin
  <2>2. \A i \in 1..(n + 1) : q[i] \in Trades
    <3>1. \A i \in 1..(n + 1) : i \in 1..n \/ i = n + 1
      OBVIOUS
    <3> QED BY <1>3, <3>1
  <2>3. \A i \in 1..(n + 1) : (IF q[i] \in seen THEN q[i].net ELSE 0) \in Int
    BY <2>2, GivenNumbers
  <2>4. t \in [1..(n + 1) -> Int]
    BY <2>1, <2>3
  <2>5. n + 1 \in 1..(n + 1) /\ \A i \in 1..n : i \in 1..(n + 1)
    OBVIOUS
  <2>6. t[n + 1] = x
    BY <1>3, <1>4, <2>1, <2>5
  <2>7. \A i \in 1..n : t[i] = IF rs[i] \in seen THEN rs[i].net ELSE 0
    BY <1>3, <2>1, <2>5
  <2> QED BY <2>4, <2>6, <2>7, ListOfFunction
<1>9. t = Append(s, x)
  <2>1. PICK w : w = Append(s, x)
    OBVIOUS
  <2>2. w \in Seq(Int) /\ Len(w) = n + 1 /\ w[n + 1] = x /\ \A i \in 1..n : w[i] = s[i]
    BY <1>7, <2>1
  <2>3. \A i \in 1..Len(t) : t[i] = w[i]
    <3>1. \A i \in 1..(n + 1) : i \in 1..n \/ i = n + 1
      OBVIOUS
    <3> QED BY <1>7, <1>8, <2>2, <3>1
  <2> QED BY <1>8, <2>1, <2>2, <2>3, SeqEqual
<1>10. Total(s) \in Int /\ Total(t) = Total(s) + x
  BY <1>7, <1>9, TotalIsInt, TotalAppend
<1> QED BY <1>2, <1>4, <1>5, <1>6, <1>10

\* Nothing is counted before the first trade.
LEMMA NoTradesCounted == \A seen : Counted(NoTrades, <<>>, seen)
<1> SUFFICES ASSUME NEW seen PROVE Counted(NoTrades, <<>>, seen)
  OBVIOUS
<1>1. \A S : Where(<<>>, S) = {}
  BY DEF Where
<1>2. Cardinality({}) = 0
  BY FS_EmptySet
<1>3. Total(NetWithin(<<>>, seen)) = 0
  <2>1. NetWithin(<<>>, seen) = <<>>
    BY DEF NetWithin
  <2> QED BY <2>1, TotalOfNone
<1>4. PICK none, won, lost : /\ none = Where(<<>>, seen)
                             /\ won = Where(<<>>, Winning(seen))
                             /\ lost = Where(<<>>, Losing(seen))
  OBVIOUS
<1>5. none = {} /\ won = {} /\ lost = {} /\ Cardinality(none) = 0 /\ Cardinality(won) = 0
  BY <1>1, <1>2, <1>4
<1>6. Counted([n |-> 0, wins |-> 0, gain |-> 0, loss |-> 0], <<>>, seen)
  BY <1>3, <1>4, <1>5 DEF Counted
<1> QED BY <1>6 DEF NoTrades

\* A pool that takes in a trade of its own still is a recount.
LEMMA IngestCounts ==
    ASSUME NEW rs \in Seq(Trades), NEW r \in Trades, NEW seen, r \in seen,
           NEW p, Counted(p, rs, seen)
    PROVE  Counted(Ingest(p, r), Append(rs, r), seen)
<1>1. PICK n \in Nat, wins \in Nat, gain \in Nat, loss \in Nat :
          p = [n |-> n, wins |-> wins, gain |-> gain, loss |-> loss]
  BY DEF Counted
<1>2. PICK x \in Int : x = r.net
  BY GivenNumbers
<1>3. PICK q : q = Append(rs, r)
  OBVIOUS
<1>4. PICK W, L : W = Winning(seen) /\ L = Losing(seen)
  OBVIOUS
<1>5. (r \in W <=> x > 0) /\ (r \in L <=> x < 0)
  BY <1>2, <1>4 DEF Winning, Losing
<1>6. /\ n = Cardinality(Where(rs, seen)) /\ wins = Cardinality(Where(rs, W))
      /\ gain - loss = Total(NetWithin(rs, seen))
      /\ wins <= gain /\ wins <= n
      /\ wins > 0 <=> Where(rs, W) # {}
      /\ loss > 0 <=> Where(rs, L) # {}
      /\ loss > 0 => wins < n
  BY <1>1, <1>4 DEF Counted
<1>7. n + 1 = Cardinality(Where(q, seen))
  BY <1>3, <1>6, WhereAppend
<1>8. Total(NetWithin(q, seen)) = (gain - loss) + x
  BY <1>2, <1>3, <1>6, NetAppend
<1>9. CASE x > 0
  <2>1. Ingest(p, r) = [n |-> n + 1, wins |-> wins + 1, gain |-> gain + x, loss |-> loss]
    BY <1>1, <1>2, <1>9 DEF Ingest
  <2>2. wins + 1 = Cardinality(Where(q, W)) /\ Where(q, W) # {} /\ Where(q, L) = Where(rs, L)
    BY <1>3, <1>5, <1>6, <1>9, WhereAppend
  <2>3. (gain + x) - loss = Total(NetWithin(q, seen))
    BY <1>8
  <2>4. wins + 1 <= gain + x /\ wins + 1 <= n + 1 /\ wins + 1 > 0 /\ gain + x \in Nat
    BY <1>6, <1>9
  <2>5. loss > 0 => wins + 1 < n + 1
    BY <1>6
  <2>6. Counted([n |-> n + 1, wins |-> wins + 1, gain |-> gain + x, loss |-> loss], q, seen)
    <3>1. PICK k : k = [n |-> n + 1, wins |-> wins + 1, gain |-> gain + x, loss |-> loss]
      OBVIOUS
    <3>2. /\ k \in [n : Nat, wins : Nat, gain : Nat, loss : Nat]
          /\ k.n = n + 1 /\ k.wins = wins + 1 /\ k.gain = gain + x /\ k.loss = loss
      BY <2>4, <3>1
    <3>3. loss > 0 <=> Where(q, L) # {}
      BY <1>6, <2>2
    <3> QED BY <1>4, <1>7, <2>2, <2>3, <2>4, <2>5, <3>1, <3>2, <3>3 DEF Counted
  <2> QED BY <1>3, <2>1, <2>6
<1>10. CASE ~(x > 0)
  <2>1. Ingest(p, r) = [n |-> n + 1, wins |-> wins, gain |-> gain, loss |-> loss - x]
    BY <1>1, <1>2, <1>10 DEF Ingest
  <2>2. Where(q, W) = Where(rs, W)
    BY <1>3, <1>5, <1>10, WhereAppend
  <2>3. gain - (loss - x) = Total(NetWithin(q, seen))
    BY <1>8
  <2>4. loss - x > 0 <=> Where(q, L) # {}
    <3>1. CASE x < 0
      <4>1. Where(q, L) # {}
        BY <1>3, <1>5, <3>1, WhereAppend
      <4> QED BY <3>1, <4>1
    <3>2. CASE x = 0
      <4>1. Where(q, L) = Where(rs, L)
        BY <1>3, <1>5, <3>2, WhereAppend
      <4> QED BY <1>6, <3>2, <4>1
    <3> QED BY <1>10, <3>1, <3>2
  <2>5. loss - x \in Nat
    BY <1>10
  <2>6. Counted([n |-> n + 1, wins |-> wins, gain |-> gain, loss |-> loss - x], q, seen)
    BY <1>4, <1>6, <1>7, <2>2, <2>3, <2>4, <2>5 DEF Counted
  <2> QED BY <1>3, <2>1, <2>6
<1> QED BY <1>9, <1>10

\* A pool is a recount of its own whatever trade of another is closed.
LEMMA OthersDoNotCount ==
    ASSUME NEW rs \in Seq(Trades), NEW r \in Trades, NEW seen, r \notin seen,
           NEW p, Counted(p, rs, seen)
    PROVE  Counted(p, Append(rs, r), seen)
<1>1. r \notin Winning(seen) /\ r \notin Losing(seen)
  BY DEF Winning, Losing
<1>2. /\ Where(Append(rs, r), seen) = Where(rs, seen)
      /\ Where(Append(rs, r), Winning(seen)) = Where(rs, Winning(seen))
      /\ Where(Append(rs, r), Losing(seen)) = Where(rs, Losing(seen))
  BY <1>1, WhereAppend
<1>3. Total(NetWithin(Append(rs, r), seen)) = Total(NetWithin(rs, seen))
  BY NetAppend
<1> QED BY <1>2, <1>3 DEF Counted

-----------------------------------------------------------------------------
\* The monitor has the EWMA of the corpus, and its run of divergences is as long as the
\* run that ends the corpus.
EwmaRuns(rs, mon) ==
    /\ mon \in [ewma : Int \cup {Absent}, consecutive : Nat]
    /\ mon.consecutive <= Len(rs)
    /\ \E e : /\ EwmaOf(e, rs, Len(rs)) /\ mon.ewma = e[Len(rs)]
              /\ \A k \in (Len(rs) - mon.consecutive + 1)..Len(rs) : Diverges(e[k])
              /\ mon.consecutive < Len(rs) => ~Diverges(e[Len(rs) - mon.consecutive])

\* Before the first trade nothing has diverged.
LEMMA EwmaStarts == EwmaRuns(<<>>, [ewma |-> Absent, consecutive |-> 0])
<1>1. EwmaOf([k \in 0..0 |-> Absent], <<>>, 0)
  BY DEF EwmaOf
<1>2. PICK e : EwmaOf(e, <<>>, 0) /\ e[0] = Absent
  BY <1>1
<1>3. Len(<<>>) = 0
  OBVIOUS
<1> QED BY <1>2, <1>3 DEF EwmaRuns

\* A divergence makes the run longer by one, and anything else ends it.
LEMMA EwmaSteps ==
    ASSUME NEW rs \in Seq(Trades), NEW r \in Trades, NEW mon, EwmaRuns(rs, mon)
    PROVE  EwmaRuns(Append(rs, r), MonitorUpdate(mon, r.net))
<1>1. PICK n \in Nat : n = Len(rs)
  OBVIOUS
<1>2. PICK q : q = Append(rs, r)
  OBVIOUS
<1>3. Len(q) = n + 1 /\ q[n + 1] = r /\ \A i \in 1..n : q[i] = rs[i]
  BY <1>1, <1>2
<1>4. PICK a \in Int \cup {Absent}, c \in Nat : mon = [ewma |-> a, consecutive |-> c]
  BY DEF EwmaRuns
<1>5. PICK e : /\ EwmaOf(e, rs, n) /\ a = e[n] /\ c <= n
               /\ \A k \in (n - c + 1)..n : Diverges(e[k])
               /\ c < n => ~Diverges(e[n - c])
  BY <1>1, <1>4 DEF EwmaRuns
<1>6. PICK f : EwmaOf(f, q, n + 1)
  BY EwmaExists
<1>7. \A k \in 0..n : e[k] = f[k]
  BY <1>3, <1>5, <1>6, EwmaGoesOn
<1>8. PICK b \in Int : b = EwmaStepOf(a, r.net)
  BY EwmaStepIsInt, GivenNumbers
<1>9. f[n + 1] = b
  <2>1. n + 1 \in 0..(n + 1) /\ n + 1 # 0 /\ (n + 1) - 1 = n /\ n \in 0..n
    OBVIOUS
  <2>2. \A i \in 0..(n + 1) : f[i] = IF i = 0 THEN Absent ELSE EwmaStepOf(f[i - 1], q[i].net)
    BY <1>6 DEF EwmaOf
  <2> QED BY <1>3, <1>5, <1>7, <1>8, <2>1, <2>2
<1>10. CASE Diverges(b)
  <2>1. MonitorUpdate(mon, r.net) = [ewma |-> b, consecutive |-> c + 1]
    BY <1>4, <1>8, <1>10 DEF MonitorUpdate
  <2>2. \A k \in ((n + 1) - (c + 1) + 1)..(n + 1) : Diverges(f[k])
    <3> SUFFICES ASSUME NEW k \in ((n + 1) - (c + 1) + 1)..(n + 1) PROVE Diverges(f[k])
      OBVIOUS
    <3>1. CASE k = n + 1
      BY <1>9, <1>10, <3>1
    <3>2. CASE k # n + 1
      <4>1. k \in (n - c + 1)..n /\ k \in 0..n
        BY <1>5, <3>2
      <4> QED BY <1>5, <1>7, <4>1
    <3> QED BY <3>1, <3>2
  <2>3. c + 1 < n + 1 => ~Diverges(f[(n + 1) - (c + 1)])
    <3> SUFFICES ASSUME c + 1 < n + 1 PROVE ~Diverges(f[(n + 1) - (c + 1)])
      OBVIOUS
    <3>1. (n + 1) - (c + 1) = n - c /\ n - c \in 0..n /\ c < n
      OBVIOUS
    <3> QED BY <1>5, <1>7, <3>1
  <2>4. EwmaRuns(q, [ewma |-> b, consecutive |-> c + 1])
    BY <1>3, <1>5, <1>6, <1>9, <2>2, <2>3 DEF EwmaRuns
  <2> QED BY <1>2, <2>1, <2>4
<1>11. CASE ~Diverges(b)
  <2>1. MonitorUpdate(mon, r.net) = [ewma |-> b, consecutive |-> 0]
    BY <1>4, <1>8, <1>11 DEF MonitorUpdate
  <2>2. \A k \in ((n + 1) - 0 + 1)..(n + 1) : Diverges(f[k])
    OBVIOUS
  <2>3. ~Diverges(f[(n + 1) - 0])
    BY <1>9, <1>11, (n + 1) - 0 = n + 1
  <2>4. EwmaRuns(q, [ewma |-> b, consecutive |-> 0])
    BY <1>3, <1>6, <1>9, <2>2, <2>3 DEF EwmaRuns
  <2> QED BY <1>2, <2>1, <2>4
<1> QED BY <1>10, <1>11

-----------------------------------------------------------------------------
\* What is reported is what the corpus says; nothing before the first close.
Concluded ==
    \/ records = <<>> /\ outcome = Quiet
    \/ /\ records # <<>>
       /\ outcome = Reported(Kelly(pool), DriftOf(records, monitor),
                             Plans(records, DriftOf(records, monitor)))

LearnInv ==
    /\ records \in Seq(Trades) /\ Len(records) <= MaxCloses
    /\ Counted(pool, records, Trades)
    /\ DOMAIN buckets = TradeRegimes
    /\ \A g \in TradeRegimes : Counted(buckets[g], records, OfRegime(g))
    /\ classified = Cardinality(Where(records, Classed))
    /\ EwmaRuns(records, monitor)
    /\ Concluded

\* The conductor starts with nothing counted.
LEMMA LearnInvInit == ASSUME LearningInit PROVE LearnInv
<1>1. records = <<>> /\ records \in Seq(Trades) /\ Len(records) <= MaxCloses
  BY GivenNumbers DEF LearningInit
<1>2. Counted(pool, records, Trades)
  BY NoTradesCounted DEF LearningInit
<1>3. /\ DOMAIN buckets = TradeRegimes
      /\ \A g \in TradeRegimes : Counted(buckets[g], records, OfRegime(g))
  BY NoTradesCounted DEF LearningInit
<1>4. classified = Cardinality(Where(records, Classed))
  <2>1. Where(records, Classed) = {}
    BY <1>1 DEF Where
  <2> QED BY <2>1, FS_EmptySet DEF LearningInit
<1>5. EwmaRuns(records, monitor)
  BY EwmaStarts DEF LearningInit
<1>6. Concluded
  BY DEF LearningInit, Concluded
<1> QED BY <1>1, <1>2, <1>3, <1>4, <1>5, <1>6 DEF LearnInv

\* on_close counts the trade wherever it belongs, and reports of the grown corpus.
LEMMA LearnInvStep == ASSUME LearnInv, [LearningNext]_learningVars PROVE LearnInv'
<1>1. CASE UNCHANGED learningVars
  BY <1>1 DEF LearnInv, learningVars, Concluded
<1>2. ASSUME NEW r \in Trades, OnClose(r) PROVE LearnInv'
  <2>1. records \in Seq(Trades) /\ records' = Append(records, r)
    BY <1>2 DEF LearnInv, OnClose
  <2>2. records' \in Seq(Trades) /\ Len(records') <= MaxCloses /\ records' # <<>>
    <3>1. PICK n \in Nat, q \in Seq(Trades) : n = Len(records) /\ q = Append(records, r)
      BY <2>1
    <3>2. Len(q) = n + 1 /\ n < MaxCloses
      BY <1>2, <2>1, <3>1 DEF OnClose
    <3>3. Len(q) <= MaxCloses /\ q # <<>>
      BY <3>2, GivenNumbers
    <3> QED BY <2>1, <3>1, <3>3
  <2>3. Counted(pool', records', Trades)
    <3>1. Counted(pool, records, Trades) /\ pool' = Ingest(pool, r)
      BY <1>2 DEF LearnInv, OnClose
    <3> QED BY <2>1, <3>1, IngestCounts
  <2>4. /\ DOMAIN buckets' = TradeRegimes
        /\ \A g \in TradeRegimes : Counted(buckets'[g], records', OfRegime(g))
    <3>1. /\ DOMAIN buckets = TradeRegimes
          /\ \A g \in TradeRegimes : Counted(buckets[g], records, OfRegime(g))
      BY DEF LearnInv
    <3>2. \A g : r \in OfRegime(g) <=> r.regime = g
      BY DEF OfRegime
    <3>3. CASE r.regime = Absent
      <4>1. buckets' = buckets
        BY <1>2, <3>3 DEF OnClose
      <4>2. Absent \notin TradeRegimes
        BY DEF TradeRegimes
      <4>3. \A g \in TradeRegimes : r \notin OfRegime(g)
        BY <3>2, <3>3, <4>2
      <4> QED BY <2>1, <3>1, <4>1, <4>3, OthersDoNotCount
    <3>4. CASE r.regime # Absent
      <4>1. buckets' = [buckets EXCEPT ![r.regime] = Ingest(@, r)]
        BY <1>2, <3>4 DEF OnClose
      <4>2. r.regime \in TradeRegimes
        BY <3>4 DEF TradeRegimes
      <4>3. DOMAIN buckets' = TradeRegimes
        BY <3>1, <4>1
      <4>4. ASSUME NEW g \in TradeRegimes PROVE Counted(buckets'[g], records', OfRegime(g))
        <5>1. CASE g = r.regime
          <6>1. buckets'[g] = Ingest(buckets[g], r) /\ r \in OfRegime(g)
            BY <3>1, <3>2, <4>1, <4>2, <5>1
          <6> QED BY <2>1, <3>1, <6>1, IngestCounts
        <5>2. CASE g # r.regime
          <6>1. buckets'[g] = buckets[g] /\ r \notin OfRegime(g)
            BY <3>1, <3>2, <4>1, <5>2
          <6> QED BY <2>1, <3>1, <6>1, OthersDoNotCount
        <5> QED BY <5>1, <5>2
      <4> QED BY <4>3, <4>4
    <3> QED BY <3>3, <3>4
  <2>5. classified' = Cardinality(Where(records', Classed))
    <3>1. classified = Cardinality(Where(records, Classed)) /\ (r \in Classed <=> r.regime # Absent)
      BY DEF LearnInv, Classed
    <3>2. CASE r.regime = Absent
      <4>1. Where(records', Classed) = Where(records, Classed) /\ classified' = classified
        BY <1>2, <2>1, <3>1, <3>2, WhereAppend DEF OnClose
      <4> QED BY <3>1, <4>1
    <3>3. CASE r.regime # Absent
      <4>1. /\ Cardinality(Where(records', Classed)) = Cardinality(Where(records, Classed)) + 1
            /\ classified' = classified + 1
        BY <1>2, <2>1, <3>1, <3>3, WhereAppend DEF OnClose
      <4> QED BY <3>1, <4>1
    <3> QED BY <3>2, <3>3
  <2>6. EwmaRuns(records', monitor')
    <3>1. EwmaRuns(records, monitor) /\ monitor' = MonitorUpdate(monitor, r.net)
      BY <1>2 DEF LearnInv, OnClose
    <3> QED BY <2>1, <3>1, EwmaSteps
  <2>7. Concluded'
    BY <1>2, <2>2 DEF OnClose, Concluded
  <2> QED BY <2>2, <2>3, <2>4, <2>5, <2>6, <2>7 DEF LearnInv
<1> QED BY <1>1, <1>2 DEF LearningNext

-----------------------------------------------------------------------------
(* What follows of what is reported. *)

\* What a trade's own fields are.
LEMMA TradeFields ==
    ASSUME NEW rs \in Seq(Trades)
    PROVE  \A i \in DOMAIN rs : rs[i] \in Trades /\ rs[i].net \in Int
<1>1. \A i \in DOMAIN rs : rs[i] \in Trades
  OBVIOUS
<1> QED BY <1>1, GivenNumbers

\* There is a winning trade of a set exactly when there is one of its places it is at, and
\* so for a losing one.
LEMMA WonAndLost ==
    ASSUME NEW rs, NEW seen
    PROVE  /\ Where(rs, Winning(seen)) # {} <=> \E i \in Where(rs, seen) : rs[i].net > 0
           /\ Where(rs, Losing(seen)) # {} <=> \E i \in Where(rs, seen) : rs[i].net < 0
<1>1. \A S, i : i \in Where(rs, S) <=> i \in DOMAIN rs /\ rs[i] \in S
  BY DEF Where
<1>2. /\ \A r : r \in Winning(seen) <=> r \in seen /\ r.net > 0
      /\ \A r : r \in Losing(seen) <=> r \in seen /\ r.net < 0
  BY DEF Winning, Losing
<1>3. Where(rs, Winning(seen)) # {} <=> \E i \in Where(rs, seen) : rs[i].net > 0
  BY <1>1, <1>2
<1>4. Where(rs, Losing(seen)) # {} <=> \E i \in Where(rs, seen) : rs[i].net < 0
  BY <1>1, <1>2
<1> QED BY <1>3, <1>4

\* The totals kept are those of the corpus.
LEMMA PoolRecounts == ASSUME LearnInv PROVE PoolIsTheCorpus
<1>1. records \in Seq(Trades)
  BY DEF LearnInv
<1>2. ASSUME NEW p, NEW seen, Counted(p, records, seen)
      PROVE  Recount(p, seen)
  <2>1. /\ {i \in DOMAIN records : records[i] \in seen} = Where(records, seen)
        /\ {i \in DOMAIN records : records[i] \in seen /\ records[i].net > 0}
             = Where(records, Winning(seen))
    BY DEF Where, Winning
  <2>2. /\ p.n = Cardinality(Where(records, seen))
        /\ p.wins = Cardinality(Where(records, Winning(seen)))
        /\ p.gain - p.loss = Total(NetWithin(records, seen))
    BY <1>2 DEF Counted
  <2> QED BY <2>1, <2>2 DEF Recount
<1>3. Recount(pool, Trades)
  BY <1>2 DEF LearnInv
<1>4. \A g \in TradeRegimes : Recount(buckets[g], OfRegime(g))
  BY <1>2 DEF LearnInv
<1>5. {i \in DOMAIN records : records[i].regime # Absent} = Where(records, Classed)
  BY <1>1 DEF Where, Classed
<1> QED BY <1>3, <1>4, <1>5 DEF LearnInv, PoolIsTheCorpus

\* The values reported are of the code's types.
LEMMA LearnTypes == ASSUME LearnInv PROVE LearnTypeOK
<1>1. records \in Seq(Trades) /\ Len(records) <= MaxCloses
  BY DEF LearnInv
<1>2. pool.wins \in 0..pool.n /\ pool.gain >= 0 /\ pool.loss >= 0
  <2>1. /\ pool \in [n : Nat, wins : Nat, gain : Nat, loss : Nat] /\ pool.wins <= pool.n
    BY DEF LearnInv, Counted
  <2> QED BY <2>1
<1>3. classified \in 0..Len(records)
  <2>1. \A S : Cardinality(Where(records, S)) \in 0..Len(records)
    <3>1. CASE records = <<>>
      <4>1. \A S : Where(records, S) = {}
        BY <3>1 DEF Where
      <4> QED BY <3>1, <4>1, FS_EmptySet
    <3>2. CASE records # <<>>
      <4>1. PICK r : r \in Trades
        BY <1>1, <3>2
      <4> QED BY <1>1, <4>1, WhereAppend
    <3> QED BY <3>1, <3>2
  <2> QED BY <2>1 DEF LearnInv
<1>4. monitor.consecutive \in 0..Len(records)
  <2>1. /\ monitor \in [ewma : Int \cup {Absent}, consecutive : Nat]
        /\ monitor.consecutive <= Len(records)
    BY DEF LearnInv, EwmaRuns
  <2>2. Len(records) \in Nat
    BY <1>1
  <2> QED BY <2>1, <2>2
<1>5. \/ outcome.kelly = [kind |-> "NOT_DUE"] /\ outcome.drift = Absent
      \/ outcome.kelly = Kelly(pool) /\ outcome.drift = DriftOf(records, monitor)
  BY DEF LearnInv, Concluded, Quiet, Reported
<1>6. Kelly(pool).kind \in {"NOT_DUE", "UNKNOWN", "NEGATIVE", "SIZED"}
  BY DEF Kelly
<1>7. DriftOf(records, monitor) \in {Absent, "cusum_lower", "ewma_sustained"}
  BY DEF DriftOf
<1>8. DOMAIN buckets = TradeRegimes
  BY DEF LearnInv
<1> QED BY <1>1, <1>2, <1>3, <1>4, <1>5, <1>6, <1>7, <1>8 DEF LearnTypeOK

-----------------------------------------------------------------------------
\* An edge is at most the whole, and has the sign of what the trades made.
LEMMA EdgeSign ==
    ASSUME NEW p \in [n : Nat, wins : Nat, gain : Nat, loss : Nat], RiskKnown(p), p.wins <= p.gain
    PROVE  \E num \in Int, den \in Nat \ {0} :
               /\ Edge(p) = [num |-> num, den |-> den] /\ num <= den
               /\ num > 0 <=> p.gain > p.loss
<1>1. PICK n \in Nat, wins \in Nat, gain \in Nat, loss \in Nat :
          p.n = n /\ p.wins = wins /\ p.gain = gain /\ p.loss = loss
  OBVIOUS
<1>2. wins > 0 /\ wins < n /\ loss > 0 /\ gain > 0
  BY <1>1 DEF RiskKnown
<1>3. PICK lost \in Nat : lost = n - wins /\ lost > 0
  BY <1>2
<1>4. PICK made \in Nat, cost \in Nat : made = gain * lost /\ cost = wins * loss
  OBVIOUS
<1>5. PICK num \in Int, den \in Nat : num = wins * made - lost * cost /\ den = n * made
  OBVIOUS
<1>6. Edge(p) = [num |-> num, den |-> den]
  BY <1>1, <1>3, <1>4, <1>5 DEF Edge
<1>7. made > 0
  BY <1>2, <1>3, <1>4
<1>8. den > 0
  BY <1>2, <1>5, <1>7
<1>9. num <= den
  <2>1. wins * made <= n * made
    BY <1>2
  <2>2. lost * cost \in Nat
    OBVIOUS
  <2>3. PICK a \in Nat, b \in Nat : a = wins * made /\ b = lost * cost
    BY <2>2
  <2> QED BY <1>5, <2>1, <2>3
<1>10. num > 0 <=> gain > loss
  <2>1. PICK both \in Nat : both = wins * lost
    OBVIOUS
  <2>2. both > 0
    BY <1>2, <1>3, <2>1
  <2>3. wins * made = both * gain /\ lost * cost = both * loss
    BY <1>4, <2>1
  <2>4. num = both * gain - both * loss
    BY <1>5, <2>3
  <2>5. num = both * (gain - loss)
    BY <2>4
  <2>6. CASE gain > loss
    BY <2>2, <2>5, <2>6
  <2>7. CASE gain <= loss
    <3>1. both * gain <= both * loss
      BY <2>7
    <3>2. PICK x \in Nat, y \in Nat : x = both * gain /\ y = both * loss
      OBVIOUS
    <3>3. num <= 0
      BY <2>4, <3>1, <3>2
    <3> QED BY <2>7, <3>3
  <2> QED BY <2>6, <2>7
<1> QED BY <1>1, <1>6, <1>8, <1>9, <1>10

\* Half of a share is between none and half, per mille, and none of what is negative.
LEMMA HalfOfAShare ==
    ASSUME NEW num \in Int, NEW den \in Nat \ {0}, num <= den
    PROVE  /\ (500 * num) \div den \in Int
           /\ num >= 0 => (500 * num) \div den \in 0..500
           /\ num <= 0 => (500 * num) \div den <= 0
<1>1. PICK x \in Int, q \in Int : x = 500 * num /\ q = x \div den
  OBVIOUS
<1>2. den * q <= x /\ x < den * q + den
  BY <1>1
<1>3. x <= 500 * den
  BY <1>1
<1>4. q <= 500
  <2> SUFFICES ASSUME q >= 501 PROVE FALSE
    OBVIOUS
  <2>1. den * q >= den * 501
    OBVIOUS
  <2>2. PICK y \in Int : y = den * q
    OBVIOUS
  <2> QED BY <1>2, <1>3, <2>1, <2>2
<1>5. x >= 0 => q >= 0
  <2> SUFFICES ASSUME x >= 0, q <= -1 PROVE FALSE
    OBVIOUS
  <2>1. den * q <= den * (-1)
    OBVIOUS
  <2>2. PICK y \in Int : y = den * q
    OBVIOUS
  <2> QED BY <1>2, <2>1, <2>2
<1>6. x <= 0 => q <= 0
  <2> SUFFICES ASSUME x <= 0, q >= 1 PROVE FALSE
    OBVIOUS
  <2>1. den * q >= den * 1
    OBVIOUS
  <2>2. PICK y \in Int : y = den * q
    OBVIOUS
  <2> QED BY <1>2, <2>1, <2>2
<1> QED BY <1>1, <1>4, <1>5, <1>6

\* A regime is barred when it has both won and lost and made no money.
LEMMA BarredLostMoney == ASSUME LearnInv PROVE DisallowedLostMoney
<1> SUFFICES ASSUME NEW g \in TradeRegimes
             PROVE  LET its == {i \in DOMAIN records : records[i].regime = g}
                        known == /\ \E i \in its : records[i].net > 0
                                 /\ \E i \in its : records[i].net < 0
                    IN  g \in DisallowedRegimes <=>
                            RegimeActive(g) /\ known /\ Total(NetWithin(records, OfRegime(g))) <= 0
  BY DEF DisallowedLostMoney
<1> DEFINE its == {i \in DOMAIN records : records[i].regime = g}
           known == (\E i \in its : records[i].net > 0) /\ (\E i \in its : records[i].net < 0)
<1>1. records \in Seq(Trades) /\ Counted(buckets[g], records, OfRegime(g))
  BY DEF LearnInv
<1>2. its = Where(records, OfRegime(g))
  BY <1>1 DEF Where, OfRegime
<1>3. PICK b : b = buckets[g]
  OBVIOUS
<1>4. /\ b \in [n : Nat, wins : Nat, gain : Nat, loss : Nat]
      /\ b.wins <= b.gain
      /\ b.gain - b.loss = Total(NetWithin(records, OfRegime(g)))
  BY <1>1, <1>3 DEF Counted
<1>5. RiskKnown(b) <=> known
  <2> HIDE DEF its
  <2>1. b.wins > 0 <=> \E i \in its : records[i].net > 0
    <3>1. b.wins > 0 <=> Where(records, Winning(OfRegime(g))) # {}
      BY <1>1, <1>3 DEF Counted
    <3> QED BY <1>2, <3>1, WonAndLost
  <2>2. b.loss > 0 <=> \E i \in its : records[i].net < 0
    <3>1. b.loss > 0 <=> Where(records, Losing(OfRegime(g))) # {}
      BY <1>1, <1>3 DEF Counted
    <3> QED BY <1>2, <3>1, WonAndLost
  <2>3. b.loss > 0 => b.wins < b.n
    BY <1>1, <1>3 DEF Counted
  <2> QED BY <2>1, <2>2, <2>3 DEF RiskKnown
<1>6. g \in DisallowedRegimes <=> RegimeActive(g) /\ RiskKnown(b) /\ Edge(b).num <= 0
  BY <1>3 DEF DisallowedRegimes
<1>7. RiskKnown(b) => (Edge(b).num <= 0 <=> Total(NetWithin(records, OfRegime(g))) <= 0)
  <2> SUFFICES ASSUME RiskKnown(b)
               PROVE  Edge(b).num <= 0 <=> Total(NetWithin(records, OfRegime(g))) <= 0
    OBVIOUS
  <2>1. PICK num \in Int, den \in Nat \ {0} :
            Edge(b) = [num |-> num, den |-> den] /\ (num > 0 <=> b.gain > b.loss)
    BY <1>4, EdgeSign
  <2>2. PICK t \in Int : t = b.gain - b.loss
    BY <1>4
  <2>3. t > 0 <=> b.gain > b.loss
    BY <1>4, <2>2
  <2> QED BY <1>4, <2>1, <2>2, <2>3
<1>8. g \in DisallowedRegimes <=>
          RegimeActive(g) /\ known /\ Total(NetWithin(records, OfRegime(g))) <= 0
  BY <1>5, <1>6, <1>7
<1> QED BY <1>8

\* What the trades made is what the pool gained less what it lost.
LEMMA PoolNet ==
    ASSUME LearnInv
    PROVE  /\ pool \in [n : Nat, wins : Nat, gain : Nat, loss : Nat] /\ pool.wins <= pool.gain
           /\ Total(NetOf(records)) = pool.gain - pool.loss
<1>1. records \in Seq(Trades)
  BY DEF LearnInv
<1>2. NetOf(records) = NetWithin(records, Trades)
  BY <1>1 DEF NetOf, NetWithin
<1> QED BY <1>2 DEF LearnInv, Counted

\* A size is proposed of trades that made money, and is the pool's own half-Kelly.
LEMMA SizesByTheEdge == ASSUME LearnInv PROVE SizedByTheEdge
<1>1. PICK net \in Int : net = Total(NetOf(records)) /\ net = pool.gain - pool.loss
  BY PoolNet
<1>2. outcome.kelly = [kind |-> "NOT_DUE"] \/ outcome.kelly = Kelly(pool)
  BY DEF LearnInv, Concluded, Quiet, Reported
<1>3. CASE ~RiskKnown(pool) \/ outcome.kelly = [kind |-> "NOT_DUE"]
  <2>1. outcome.kelly.kind \notin {"SIZED", "NEGATIVE"}
    BY <1>2, <1>3 DEF Kelly
  <2> QED BY <2>1 DEF SizedByTheEdge
<1>4. CASE RiskKnown(pool) /\ outcome.kelly = Kelly(pool)
  <2>1. PICK num \in Int, den \in Nat \ {0} :
            /\ Edge(pool) = [num |-> num, den |-> den] /\ num <= den
            /\ num > 0 <=> pool.gain > pool.loss
    BY <1>4, EdgeSign, PoolNet
  <2>2. num > 0 <=> net > 0
    BY <1>1, <2>1, PoolNet
  <2>3. PICK q \in Int : /\ q = (500 * num) \div den
                         /\ num >= 0 => q \in 0..500
                         /\ num <= 0 => q <= 0
    BY <2>1, HalfOfAShare
  <2>4. /\ Min({1000, q}) \in Int /\ Min({1000, q}) = IF 1000 <= q THEN 1000 ELSE q
    BY SmallerOfTwo
  <2>5. HalfKelly(pool) = Max({0, Min({1000, q})})
    BY <2>1, <2>3 DEF HalfKelly
  <2>6. CASE num > 0
    <3>1. Min({1000, q}) = q /\ q \in 0..500
      BY <2>3, <2>4, <2>6
    <3>2. HalfKelly(pool) = q
      <4>1. Max({0, q}) = IF 0 >= q THEN 0 ELSE q
        BY GreaterOfTwo
      <4> QED BY <2>5, <3>1, <4>1
    <3>3. Kelly(pool).kind # "NEGATIVE" /\ (Kelly(pool).kind = "SIZED" => Kelly(pool).half = q)
      BY <1>4, <2>1, <2>3, <2>6, <3>1 DEF Kelly
    <3> QED BY <1>1, <1>4, <2>2, <2>6, <3>1, <3>2, <3>3 DEF SizedByTheEdge
  <2>7. CASE num <= 0
    <3>1. Min({1000, q}) = q /\ q <= 0
      BY <2>3, <2>4, <2>7
    <3>2. HalfKelly(pool) = 0
      <4>1. Max({0, q}) = IF 0 >= q THEN 0 ELSE q
        BY GreaterOfTwo
      <4> QED BY <2>5, <3>1, <4>1
    <3>3. Kelly(pool).kind # "SIZED"
      BY <1>4, <2>1, <2>7 DEF Kelly
    <3> QED BY <1>1, <1>4, <2>2, <2>7, <3>2, <3>3 DEF SizedByTheEdge
  <2> QED BY <2>6, <2>7
<1> QED BY <1>2, <1>3, <1>4

\* What is reported of a corpus that is not empty is told of that corpus; before it nothing is.
LEMMA Outcomes ==
    ASSUME LearnInv
    PROVE  \/ records = <<>> /\ outcome = Quiet
           \/ /\ records # <<>> /\ outcome.drift = DriftOf(records, monitor)
              /\ outcome.stop = Plans(records, outcome.drift).stop
              /\ outcome.filter = Plans(records, outcome.drift).filter
BY DEF LearnInv, Concluded, Reported

\* The results of a corpus are a list of integers.
LEMMA NetTypes ==
    ASSUME NEW rs \in Seq(Trades)
    PROVE  NetOf(rs) \in Seq(Int) /\ Len(NetOf(rs)) = Len(rs) /\ DOMAIN NetOf(rs) = DOMAIN rs
<1>1. PICK n \in Nat : n = Len(rs) /\ DOMAIN rs = 1..n
  OBVIOUS
<1>2. PICK t : t = NetOf(rs)
  OBVIOUS
<1>3. t = [i \in 1..n |-> rs[i].net]
  BY <1>1, <1>2 DEF NetOf
<1>4. t \in [1..n -> Int]
  BY <1>1, <1>3, TradeFields
<1> QED BY <1>1, <1>2, <1>3, <1>4, ListOfFunction

\* The drift of the arm is told exactly when a stretch of the results breaches.
LEMMA BreachesAreSlumps == ASSUME LearnInv PROVE BreachIsASlump
<1> SUFFICES ASSUME Len(records) >= 2
             PROVE  LET xs == NetOf(records)
                        short == Shortfalls(xs)
                        h == Limit(xs)
                        stretch == \E i, j \in DOMAIN xs :
                                       j <= i /\ Total(SubSeq(short, j, i)) > h
                    IN  stretch <=> outcome.drift = "cusum_lower"
  BY DEF BreachIsASlump
<1>1. records \in Seq(Trades)
  BY DEF LearnInv
<1>2. PICK xs : xs = NetOf(records)
  OBVIOUS
<1>3. xs \in Seq(Int) /\ Len(xs) >= 2
  BY <1>1, <1>2, NetTypes
<1>4. outcome.drift = DriftOf(records, monitor)
  <2>1. records # <<>>
    BY <1>1
  <2> QED BY <2>1, Outcomes
<1>5. outcome.drift = "cusum_lower" <=> CusumBreached(xs)
  <2>1. Absent # "cusum_lower"
    BY LearningAssumption
  <2>2. CASE CusumBreached(xs)
    BY <1>2, <1>4, <2>2 DEF DriftOf
  <2>3. CASE ~CusumBreached(xs)
    <3>1. ~CusumBreached(NetOf(records))
      BY <1>2, <2>3
    <3> QED BY <1>4, <2>1, <2>3, <3>1 DEF DriftOf
  <2> QED BY <2>2, <2>3
<1> QED BY <1>2, <1>3, <1>5, BreachIsAStretch

\* The run of divergences is as long as SUSTAINED_N exactly when the last ones diverged.
LEMMA SustainedIsInARow == ASSUME LearnInv PROVE SustainedMeansInARow
<1> DEFINE ewma == CHOOSE u : u = [k \in 0..Len(records) |->
                      IF k = 0 THEN Absent ELSE EwmaStepOf(u[k - 1], records[k].net)]
<1>1. SustainedMeansInARow <=>
          (monitor.consecutive >= SustainedN <=>
              /\ Len(records) >= SustainedN
              /\ \A k \in (Len(records) - SustainedN + 1)..Len(records) : Diverges(ewma[k]))
  BY DEF SustainedMeansInARow
<1>2. EwmaOf(ewma, records, Len(records))
  <2>1. Len(records) \in Nat
    BY DEF LearnInv
  <2>2. PICK e : EwmaOf(e, records, Len(records))
    BY <2>1, EwmaExists
  <2> QED BY <2>2 DEF EwmaOf
<1> HIDE DEF ewma
<1>3. PICK n \in Nat, c \in Nat, s \in Nat :
          n = Len(records) /\ c = monitor.consecutive /\ s = SustainedN
  BY GivenNumbers DEF LearnInv, EwmaRuns
<1>4. PICK e : /\ EwmaOf(e, records, n) /\ c <= n
               /\ \A k \in (n - c + 1)..n : Diverges(e[k])
               /\ c < n => ~Diverges(e[n - c])
  BY <1>3 DEF LearnInv, EwmaRuns
<1>5. \A k \in 0..n : e[k] = ewma[k]
  <2>1. n <= n /\ \A k \in 1..n : records[k] = records[k]
    OBVIOUS
  <2> QED BY <1>2, <1>3, <1>4, <2>1, EwmaGoesOn
<1>6. ASSUME c >= s, NEW k \in (n - s + 1)..n PROVE Diverges(ewma[k])
  <2>1. k \in (n - c + 1)..n /\ k \in 0..n
    BY <1>4, <1>6
  <2> QED BY <1>4, <1>5, <2>1
<1>7. ASSUME c < s, n >= s, \A k \in (n - s + 1)..n : Diverges(ewma[k]) PROVE FALSE
  <2>1. n - c \in (n - s + 1)..n /\ n - c \in 0..n /\ c < n
    BY <1>7
  <2> QED BY <1>4, <1>5, <1>7, <2>1
<1>8. c >= s => n >= s
  BY <1>4
<1> QED BY <1>1, <1>3, <1>6, <1>7, <1>8

-----------------------------------------------------------------------------
(* The candidates. *)

\* The corpus as it is, in hundredths.
LEMMA BaselineTypes ==
    ASSUME NEW rs \in Seq(Trades)
    PROVE  /\ BaselineCohort(rs) \in Seq(Int) /\ Len(BaselineCohort(rs)) = Len(rs)
           /\ DOMAIN BaselineCohort(rs) = DOMAIN rs
           /\ \A i \in DOMAIN rs : BaselineCohort(rs)[i] = 100 * rs[i].net
<1>1. PICK n \in Nat : n = Len(rs) /\ DOMAIN rs = 1..n
  OBVIOUS
<1>2. PICK t : t = BaselineCohort(rs)
  OBVIOUS
<1>3. t = [i \in 1..n |-> 100 * rs[i].net]
  BY <1>1, <1>2 DEF BaselineCohort
<1>4. \A i \in 1..n : 100 * rs[i].net \in Int
  BY <1>1, TradeFields
<1>5. t \in [1..n -> Int]
  BY <1>3, <1>4
<1> QED BY <1>1, <1>2, <1>3, <1>5, ListOfFunction

\* What a stop is credited with: integers, and with a wider one no less lost.
LEMMA StopTypes ==
    ASSUME NEW rs \in Seq(Trades), NEW tighten \in BOOLEAN
    PROVE  /\ StopCohort(rs, tighten) \in Seq(Int) /\ Len(StopCohort(rs, tighten)) = Len(rs)
           /\ ~tighten => \A i \in DOMAIN StopCohort(rs, tighten) :
                              StopCohort(rs, tighten)[i] <= BaselineCohort(rs)[i]
<1>1. PICK n \in Nat : n = Len(rs) /\ DOMAIN rs = 1..n
  OBVIOUS
<1>2. PICK f \in Int : f = (IF tighten THEN 100 - Nudge ELSE 100 + Nudge) /\ (~tighten => f >= 100)
  <2>1. PICK z \in Nat : z = Nudge
    BY GivenNumbers
  <2>2. CASE tighten
    BY <2>1, <2>2
  <2>3. CASE ~tighten
    BY <2>1, <2>3
  <2> QED BY <2>2, <2>3
<1>3. PICK t : t = StopCohort(rs, tighten)
  OBVIOUS
<1>4. t = [i \in 1..n |-> IF rs[i].net < 0 THEN f * rs[i].net ELSE 100 * rs[i].net]
  BY <1>1, <1>2, <1>3 DEF StopCohort
<1>5. \A x \in Int : (IF x < 0 THEN f * x ELSE 100 * x) \in Int
  OBVIOUS
<1>6. \A i \in 1..n : rs[i].net \in Int
  BY <1>1, TradeFields
<1>7. t \in [1..n -> Int]
  BY <1>4, <1>5, <1>6
<1>8. t \in Seq(Int) /\ Len(t) = n /\ DOMAIN t = 1..n
  BY <1>7, ListOfFunction
<1>9. ASSUME ~tighten, NEW i \in 1..n PROVE t[i] <= BaselineCohort(rs)[i]
  <2>1. PICK x \in Int : x = rs[i].net
    BY <1>6
  <2>2. f >= 100
    BY <1>2, <1>9
  <2>3. x < 0 => f * x <= 100 * x
    BY <2>2
  <2>4. t[i] = IF x < 0 THEN f * x ELSE 100 * x
    BY <1>4, <2>1
  <2>5. BaselineCohort(rs)[i] = 100 * x
    BY <1>1, <2>1, BaselineTypes
  <2> QED BY <2>3, <2>4, <2>5
<1> QED BY <1>1, <1>3, <1>8, <1>9

\* What a filter keeps: the results of the trades that pass, each once.
LEMMA FilterTypes ==
    ASSUME NEW rs \in Seq(Trades), NEW key, NEW above, NEW cut
    PROVE  /\ FilterCohort(rs, key, above, cut) \in Seq(Int)
           /\ \E f : Finds(f, FilterCohort(rs, key, above, cut), BaselineCohort(rs),
                           {i \in DOMAIN rs : Passes(rs[i], key, above, cut)})
<1> DEFINE S == {r \in Trades : Passes(r, key, above, cut)}
           k == Kept(rs, S)
           a == FilterCohort(rs, key, above, cut)
           K == {i \in DOMAIN rs : Passes(rs[i], key, above, cut)}
<1>1. k \in Seq(Trades)
  <2> HIDE DEF S
  <2> QED BY KeptCount
<1>2. K = {i \in DOMAIN rs : rs[i] \in S}
  BY TradeFields
<1>3. PICK f : Finds(f, k, rs, K)
  <2> HIDE DEF S, k
  <2>1. k = Kept(rs, S) /\ K = Where(rs, S)
    BY <1>2 DEF k, Where
  <2> QED BY <2>1, KeptPlaces
<1>4. a = [i \in DOMAIN k |-> 100 * k[i].net]
  BY DEF FilterCohort
<1> HIDE DEF S, k, a, K
<1>5. PICK n \in Nat : n = Len(k) /\ DOMAIN k = 1..n
  BY <1>1
<1>6. \A i \in 1..n : k[i].net \in Int /\ 100 * k[i].net \in Int
  BY <1>1, <1>5, TradeFields
<1>7. a \in [1..n -> Int]
  BY <1>4, <1>5, <1>6
<1>8. a \in Seq(Int) /\ Len(a) = n
  BY <1>7, ListOfFunction
<1>9. Finds(f, a, BaselineCohort(rs), K)
  <2>1. /\ f \in [1..n -> K] /\ \A i \in 1..n : k[i] = rs[f[i]]
        /\ \A i, j \in 1..n : f[i] = f[j] => i = j
        /\ \A z \in K : \E i \in 1..n : f[i] = z
    BY <1>3, <1>5 DEF Finds
  <2>2. ASSUME NEW i \in 1..n PROVE a[i] = BaselineCohort(rs)[f[i]]
    <3>1. f[i] \in DOMAIN rs
      BY <2>1 DEF K
    <3>2. BaselineCohort(rs)[f[i]] = 100 * rs[f[i]].net
      BY <3>1, BaselineTypes
    <3> QED BY <1>4, <1>5, <2>1, <3>2
  <2> QED BY <1>8, <2>1, <2>2 DEF Finds
<1> QED BY <1>8, <1>9 DEF a, K

\* The plan of a stop that is checked is that of the corpus.
LEMMA StopPlans ==
    ASSUME LearnInv, outcome.stop.check # Absent
    PROVE  records # <<>> /\ \E tighten \in BOOLEAN : outcome.stop = StopPlan(records, tighten)
<1>1. outcome # Quiet
  BY DEF Quiet, Reported, NoStop
<1>2. records # <<>> /\ outcome.stop = Plans(records, outcome.drift).stop
  BY <1>1, Outcomes
<1>3. outcome.stop = NoStop \/ outcome.stop = StopWidthPlan(records)
  BY <1>2 DEF Plans, StopThenFilter
<1>4. NoStop.check = Absent
  BY DEF NoStop
<1>5. outcome.stop = StopPlan(records, Evidence(records, "heat").cov < 0)
  BY <1>3, <1>4 DEF StopWidthPlan
<1>6. (Evidence(records, "heat").cov < 0) \in BOOLEAN
  OBVIOUS
<1> QED BY <1>2, <1>5, <1>6

\* So is that of a filter, by a level of the trades, cut at its losers' median.
LEMMA FilterPlans ==
    ASSUME LearnInv, outcome.filter.check \notin {Absent, "DEFERRED"}
    PROVE  /\ records # <<>>
           /\ \E key, above, cut, cohort :
                  /\ key \in LevelKeys /\ above \in BOOLEAN
                  /\ cut = LoserMedian(records, key)
                  /\ cohort = FilterCohort(records, key, above, cut)
                  /\ Len(Losers(records, key)) >= MinPairs
                  /\ outcome.filter = [check |-> CheckOf(cohort, BaselineCohort(records)),
                                       cohort |-> cohort, key |-> key, above |-> above, cut |-> cut]
<1>1. outcome # Quiet
  BY DEF Quiet, Reported, NoStop
<1>2. records # <<>> /\ outcome.filter = Plans(records, outcome.drift).filter
  BY <1>1, Outcomes
<1>3. NoStop.check = Absent
  BY DEF NoStop
<1>4. outcome.filter = EntryFilterPlan(records)
  BY <1>2, <1>3 DEF Plans, StopThenFilter
<1> DEFINE candidates == CandidateLevels(records)
<1>5. /\ candidates # {}
      /\ outcome.filter = FilterBy(records, SpearmanLevels[CHOOSE i \in candidates : TRUE])
  BY <1>3, <1>4 DEF EntryFilterPlan
<1>6. candidates \in SUBSET (DOMAIN SpearmanLevels)
  BY DEF CandidateLevels, Strongest
<1>7. PICK key \in LevelKeys : outcome.filter = FilterBy(records, key)
  <2>1. PICK i \in DOMAIN SpearmanLevels : i = CHOOSE j \in candidates : TRUE
    <3> HIDE DEF candidates
    <3> QED BY <1>5, <1>6
  <2>2. SpearmanLevels[i] \in LevelKeys
    BY <2>1 DEF SpearmanLevels, LevelKeys
  <2> QED BY <1>5, <2>1, <2>2
<1>8. PICK filter, cut : /\ filter = FilterOf(key, Evidence(records, key).cov > 0)
                         /\ cut = LoserMedian(records, key)
  OBVIOUS
<1>9. outcome.filter = FilterPlan(records, key, filter, cut)
  BY <1>7, <1>8 DEF FilterBy
<1>10. filter # Absent /\ ~(Len(Losers(records, key)) < MinPairs)
  BY <1>9 DEF FilterPlan
<1>11. filter.above \in BOOLEAN
  <2> DEFINE positive == Evidence(records, key).cov > 0
  <2>1. positive \in BOOLEAN
    OBVIOUS
  <2> HIDE DEF positive
  <2>2. filter = FilterOf(key, positive)
    BY <1>8 DEF positive
  <2> QED BY <1>10, <2>2 DEF FilterOf
<1>12. Len(Losers(records, key)) >= MinPairs
  <2>1. records \in Seq(Trades)
    BY DEF LearnInv
  <2>2. Losers(records, key) \in Seq(Trades)
    BY <2>1, KeptCount DEF Losers
  <2>3. Len(Losers(records, key)) \in Nat /\ MinPairs \in Nat
    BY <2>2, GivenNumbers
  <2> QED BY <1>10, <2>3
<1>13. PICK above, cohort :
           /\ above \in BOOLEAN /\ above = filter.above
           /\ cohort = FilterCohort(records, key, filter.above, cut)
  BY <1>11
<1>14. outcome.filter = [check |-> CheckOf(cohort, BaselineCohort(records)),
                         cohort |-> cohort, key |-> key, above |-> above, cut |-> cut]
  BY <1>9, <1>10, <1>13 DEF FilterPlan
<1> QED BY <1>2, <1>8, <1>12, <1>13, <1>14

\* A plan that is checked passes when the cohorts do, and is not blocked.
LEMMA ChecksPass ==
    ASSUME NEW a, NEW b, CheckOf(a, b) = "PASSED" PROVE ZPasses(a, b)
BY DEF CheckOf, Check

\* The rank sum of each plan checked counts its pairs.
LEMMA RanksCount == ASSUME LearnInv PROVE RanksCountPairs
<1>1. records \in Seq(Trades)
  BY DEF LearnInv
<1>2. ASSUME NEW plan \in {outcome.stop, outcome.filter}, plan.check \in {"PASSED", "FAILED"}
      PROVE  plan.cohort \in Seq(Int)
  <2>1. plan.check \notin {Absent, "DEFERRED"}
    BY <1>2, LearningAssumption
  <2>2. CASE plan = outcome.stop
    <3>1. PICK tighten \in BOOLEAN : plan = StopPlan(records, tighten)
      BY <2>1, <2>2, StopPlans
    <3>2. plan.cohort = StopCohort(records, tighten)
      BY <3>1 DEF StopPlan
    <3> QED BY <1>1, <3>2, StopTypes
  <2>3. CASE plan = outcome.filter
    <3>1. PICK key, above, cut, cohort :
              /\ cohort = FilterCohort(records, key, above, cut)
              /\ outcome.filter = [check |-> CheckOf(cohort, BaselineCohort(records)),
                                   cohort |-> cohort, key |-> key, above |-> above, cut |-> cut]
      BY <2>1, <2>3, FilterPlans
    <3>2. plan.cohort = cohort
      BY <2>3, <3>1
    <3> QED BY <1>1, <3>1, <3>2, FilterTypes
  <2> QED BY <2>2, <2>3
<1>3. ASSUME NEW plan \in {outcome.stop, outcome.filter}, plan.check \in {"PASSED", "FAILED"}
      PROVE  LET a == plan.cohort  b == BaselineCohort(records)
                 pairs == (DOMAIN a) \X (DOMAIN b)
             IN  U1(a, b) = 2 * Cardinality({p \in pairs : a[p[1]] > b[p[2]]})
                            + Cardinality({p \in pairs : a[p[1]] = b[p[2]]})
  <2>1. PICK a, b : a = plan.cohort /\ b = BaselineCohort(records)
    OBVIOUS
  <2>2. a \in Seq(Int) /\ b \in Seq(Int)
    BY <1>1, <1>2, <1>3, <2>1, BaselineTypes
  <2> DEFINE pairs == (DOMAIN a) \X (DOMAIN b)
  <2>3. U1(a, b) = 2 * Cardinality({p \in pairs : a[p[1]] > b[p[2]]})
                   + Cardinality({p \in pairs : a[p[1]] = b[p[2]]})
    BY <2>2, U1WinsAndTies
  <2> QED BY <2>1, <2>3
<1> QED BY <1>3 DEF RanksCountPairs

\* A stop that passes is a tighter one, and a filter that passes keeps the better trades.
LEMMA OnlyTheBetterPass == ASSUME LearnInv PROVE OnlyBetterAdvances
<1>1. records \in Seq(Trades)
  BY DEF LearnInv
<1>2. PICK b : /\ b = BaselineCohort(records) /\ b \in Seq(Int) /\ Len(b) = Len(records)
               /\ DOMAIN b = DOMAIN records
               /\ \A i \in DOMAIN records : b[i] = 100 * records[i].net
  BY <1>1, BaselineTypes
<1>3. ASSUME outcome.stop.check = "PASSED" PROVE outcome.stop.tighten
  <2>1. PICK tighten \in BOOLEAN : outcome.stop = StopPlan(records, tighten)
    BY <1>3, StopPlans, LearningAssumption
  <2>2. PICK a : a = StopCohort(records, tighten)
    OBVIOUS
  <2>3. outcome.stop.check = CheckOf(a, b) /\ outcome.stop.tighten = tighten
    BY <1>2, <2>1, <2>2 DEF StopPlan
  <2>4. ZPasses(a, b)
    BY <1>3, <2>3, ChecksPass
  <2>5. tighten
    <3> SUFFICES ASSUME ~tighten PROVE FALSE
      OBVIOUS
    <3>1. a \in Seq(Int) /\ Len(a) = Len(b) /\ \A i \in DOMAIN a : a[i] <= b[i]
      BY <1>1, <1>2, <2>2, StopTypes
    <3> QED BY <1>2, <2>4, <3>1, NotAboveFails
  <2> QED BY <2>3, <2>5
<1>4. ASSUME outcome.filter.check = "PASSED", NEW f, f = outcome.filter, NEW keeps,
             keeps = {i \in DOMAIN records : Passes(records[i], f.key, f.above, f.cut)},
             NEW pairs, pairs = keeps \X ((DOMAIN records) \ keeps)
      PROVE  Cardinality({p \in pairs : records[p[1]].net > records[p[2]].net}) >
             Cardinality({p \in pairs : records[p[1]].net < records[p[2]].net})
  <2>1. PICK key, above, cut, cohort :
            /\ cohort = FilterCohort(records, key, above, cut)
            /\ f = [check |-> CheckOf(cohort, b), cohort |-> cohort,
                    key |-> key, above |-> above, cut |-> cut]
    <3>1. outcome.filter.check \notin {Absent, "DEFERRED"}
      BY <1>4, LearningAssumption
    <3>2. PICK key, above, cut, cohort :
              /\ cohort = FilterCohort(records, key, above, cut)
              /\ outcome.filter = [check |-> CheckOf(cohort, BaselineCohort(records)),
                                   cohort |-> cohort, key |-> key, above |-> above, cut |-> cut]
      BY <3>1, FilterPlans
    <3> QED BY <1>2, <1>4, <3>2
  <2>2. keeps = {i \in DOMAIN records : Passes(records[i], key, above, cut)}
    BY <1>4, <2>1
  <2>3. cohort \in Seq(Int) /\ \E g : Finds(g, cohort, b, keeps)
    <3>1. FilterCohort(records, key, above, cut) \in Seq(Int)
      BY <1>1, FilterTypes
    <3>2. \E g : Finds(g, FilterCohort(records, key, above, cut), BaselineCohort(records),
                       {i \in DOMAIN records : Passes(records[i], key, above, cut)})
      BY <1>1, FilterTypes
    <3>3. FilterCohort(records, key, above, cut) = cohort /\ BaselineCohort(records) = b
      BY <1>2, <2>1
    <3> QED BY <2>2, <3>1, <3>2, <3>3
  <2>4. ZPasses(cohort, b)
    BY <1>4, <2>1, ChecksPass
  <2>5. PICK rest : rest = DOMAIN b \ keeps
    OBVIOUS
  <2>6. keeps \in SUBSET (DOMAIN b)
    BY <1>2, <2>2
  <2>7. Cardinality({p \in keeps \X rest : b[p[1]] > b[p[2]]})
          > Cardinality({p \in keeps \X rest : b[p[1]] < b[p[2]]})
    BY <1>2, <2>3, <2>4, <2>5, <2>6, PartBeatsTheRest
  <2>8. pairs = keeps \X rest
    BY <1>2, <1>4, <2>5
  <2>9. ASSUME NEW p \in pairs
        PROVE  /\ b[p[1]] > b[p[2]] <=> records[p[1]].net > records[p[2]].net
               /\ b[p[1]] < b[p[2]] <=> records[p[1]].net < records[p[2]].net
    <3>1. p[1] \in DOMAIN records /\ p[2] \in DOMAIN records
      BY <1>2, <2>5, <2>6, <2>8
    <3>2. PICK x \in Int, y \in Int : x = records[p[1]].net /\ y = records[p[2]].net
      BY <1>1, <3>1, TradeFields
    <3>3. b[p[1]] = 100 * x /\ b[p[2]] = 100 * y
      BY <1>2, <3>1, <3>2
    <3> QED BY <3>2, <3>3
  <2>10. /\ {p \in pairs : b[p[1]] > b[p[2]]} = {p \in pairs : records[p[1]].net > records[p[2]].net}
         /\ {p \in pairs : b[p[1]] < b[p[2]]} = {p \in pairs : records[p[1]].net < records[p[2]].net}
    BY <2>9
  <2> QED BY <2>7, <2>8, <2>10
<1>5. outcome.filter.check = "PASSED" =>
         LET f == outcome.filter
             keeps == {i \in DOMAIN records : Passes(records[i], f.key, f.above, f.cut)}
             pairs == keeps \X ((DOMAIN records) \ keeps)
         IN  Cardinality({p \in pairs : records[p[1]].net > records[p[2]].net}) >
             Cardinality({p \in pairs : records[p[1]].net < records[p[2]].net})
  BY <1>4
<1> QED BY <1>3, <1>5 DEF OnlyBetterAdvances

-----------------------------------------------------------------------------
\* The losing trades that have a level.
LostWith(key) == {r \in Trades : r[key] # Absent /\ r.net < 0}

\* As many losers have a level of T as places of the list of them, and each of that list
\* has one.
LEMMA LosersCount ==
    ASSUME NEW rs \in Seq(Trades), NEW key, NEW k, k = Losers(rs, key),
           NEW S, S = LostWith(key)
    PROVE  /\ k \in Seq(Trades) /\ \A i \in DOMAIN k : k[i] \in S
           /\ \A T : Cardinality(Where(k, T)) = Cardinality(Where(rs, S \cap T))
<1>1. k = Kept(rs, S)
  BY DEF Losers, LostWith
<1>2. k \in Seq(Trades)
  BY <1>1, KeptCount
<1>3. ASSUME NEW T PROVE Cardinality(Where(k, T)) = Cardinality(Where(rs, S \cap T))
  BY <1>1, KeptCount
<1>4. PICK f : Finds(f, k, rs, Where(rs, S))
  BY <1>1, KeptPlaces
<1>5. ASSUME NEW i \in DOMAIN k PROVE k[i] \in S
  <2>1. i \in 1..Len(k)
    BY <1>2
  <2>2. k[i] = rs[f[i]] /\ f[i] \in Where(rs, S)
    BY <1>4, <2>1 DEF Finds
  <2> QED BY <2>2 DEF Where
<1> QED BY <1>2, <1>5, <1>3

\* Of a list, the places that are not those of T are the rest.
LEMMA PlacesSplit ==
    ASSUME NEW k, Len(k) \in Nat, DOMAIN k = 1..Len(k), NEW T, NEW U,
           \A i \in DOMAIN k : k[i] \in T <=> k[i] \notin U
    PROVE  Cardinality(Where(k, T)) + Cardinality(Where(k, U)) = Len(k)
<1>1. IsFiniteSet(DOMAIN k) /\ Cardinality(DOMAIN k) = Len(k)
  <2>1. PICK n \in Nat : n = Len(k)
    OBVIOUS
  <2>2. IsFiniteSet(1..n) /\ Cardinality(1..n) = IF 1 > n THEN 0 ELSE n - 1 + 1
    BY FS_Interval
  <2> QED BY <2>1, <2>2
<1>2. PICK A, B : A = Where(k, T) /\ B = Where(k, U)
  OBVIOUS
<1>3. A \cup B = DOMAIN k /\ A \cap B = {}
  BY <1>2 DEF Where
<1>4. IsFiniteSet(A) /\ IsFiniteSet(B)
  BY <1>1, <1>3, FS_Subset
<1>5. Cardinality(A \cup B) = Cardinality(A) + Cardinality(B)
  BY <1>3, <1>4, CountParts
<1> QED BY <1>1, <1>2, <1>3, <1>5

\* The filter bars at least half of the losers that have the level, and no more than half
\* lie beyond its cut.
LEMMA FiltersSplit == ASSUME LearnInv PROVE FilterSplitsLosers
<1> SUFFICES ASSUME outcome.filter.check \in {"PASSED", "FAILED", "RAISES"},
                    NEW f, f = outcome.filter, NEW losers, NEW barred, NEW beyond,
                    losers = {i \in DOMAIN records : records[i][f.key] # Absent /\ records[i].net < 0},
                    barred = {i \in losers : ~Passes(records[i], f.key, f.above, f.cut)},
                    beyond = {i \in barred : records[i][f.key] # f.cut}
             PROVE  /\ 2 * Cardinality(barred) >= Cardinality(losers)
                    /\ 2 * Cardinality(beyond) <= Cardinality(losers)
  BY DEF FilterSplitsLosers
<1>1. records \in Seq(Trades)
  BY DEF LearnInv
<1>2. PICK key, above, cut :
          /\ key \in LevelKeys /\ above \in BOOLEAN
          /\ f.key = key /\ f.above = above /\ f.cut = cut /\ cut = LoserMedian(records, key)
          /\ Len(Losers(records, key)) >= MinPairs
  <2>1. outcome.filter.check \notin {Absent, "DEFERRED"}
    BY LearningAssumption
  <2>2. PICK key, above, cut, cohort :
            /\ key \in LevelKeys /\ above \in BOOLEAN /\ cut = LoserMedian(records, key)
            /\ Len(Losers(records, key)) >= MinPairs
            /\ outcome.filter = [check |-> CheckOf(cohort, BaselineCohort(records)),
                                 cohort |-> cohort, key |-> key, above |-> above, cut |-> cut]
    BY <2>1, FilterPlans
  <2>3. f.key = key /\ f.above = above /\ f.cut = cut
    BY <2>2
  <2> QED BY <2>2, <2>3
<1>3. PICK S : S = LostWith(key)
  OBVIOUS
<1>4. PICK k : k = Losers(records, key)
  OBVIOUS
<1>5. /\ k \in Seq(Trades) /\ \A i \in DOMAIN k : k[i] \in S
      /\ \A T : Cardinality(Where(k, T)) = Cardinality(Where(records, S \cap T))
  BY <1>1, <1>3, <1>4, LosersCount
<1>6. PICK n \in Nat : n = Len(k) /\ DOMAIN k = 1..n /\ n >= 1
  BY <1>2, <1>4, <1>5, GivenNumbers
<1>7. \A r \in S : r[key] \in Int
  <2> SUFFICES ASSUME NEW r \in S PROVE r[key] \in Int
    OBVIOUS
  <2>1. r \in Trades /\ r[key] # Absent
    BY <1>3 DEF LostWith
  <2> QED BY <1>2, <2>1, LearningAssumption
<1>8. PICK lv : lv = Levels(k, key)
  OBVIOUS
<1>9. lv \in Seq(Int) /\ Len(lv) = n /\ DOMAIN lv = 1..n /\ \A i \in 1..n : lv[i] = k[i][key]
  <2>1. lv = [i \in 1..n |-> k[i][key]]
    BY <1>6, <1>8 DEF Levels
  <2>2. lv \in [1..n -> Int]
    BY <1>5, <1>6, <1>7, <2>1
  <2> QED BY <2>1, <2>2, ListOfFunction
<1>10. /\ cut \in Int
       /\ 2 * Cardinality(UpTo(lv, cut)) >= n /\ 2 * Cardinality(Below(lv, cut)) <= n
  <2>1. cut = Median(lv)
    BY <1>2, <1>4, <1>8 DEF LoserMedian
  <2> QED BY <1>6, <1>9, <2>1, MedianSplits
<1> DEFINE Low == {r \in S : r[key] < cut}
           LowOrAt == {r \in S : r[key] <= cut}
           High == {r \in S : r[key] > cut}
           HighOrAt == {r \in S : r[key] >= cut}
<1>11. UpTo(lv, cut) = Where(k, LowOrAt) /\ Below(lv, cut) = Where(k, Low)
  <2>1. \A i \in 1..n : /\ lv[i] <= cut <=> k[i] \in LowOrAt
                        /\ lv[i] < cut <=> k[i] \in Low
    BY <1>5, <1>6, <1>9
  <2> HIDE DEF LowOrAt, Low
  <2> QED BY <1>6, <1>9, <2>1 DEF UpTo, Below, Where
<1>12. /\ Cardinality(Where(k, HighOrAt)) + Cardinality(Where(k, Low)) = n
       /\ Cardinality(Where(k, High)) + Cardinality(Where(k, LowOrAt)) = n
  <2>1. \A i \in 1..n : /\ k[i] \in HighOrAt <=> k[i] \notin Low
                        /\ k[i] \in High <=> k[i] \notin LowOrAt
    BY <1>5, <1>6, <1>7, <1>10
  <2> HIDE DEF LowOrAt, Low, High, HighOrAt
  <2> QED BY <1>6, <2>1, PlacesSplit
<1>13. \A T \in SUBSET S : Cardinality(Where(k, T)) = Cardinality(Where(records, T))
  <2>1. \A T \in SUBSET S : S \cap T = T
    OBVIOUS
  <2> QED BY <1>5, <2>1
<1>14. losers = Where(records, S) /\ Cardinality(losers) = n
  <2>1. losers = Where(records, S)
    BY <1>1, <1>2, <1>3, TradeFields DEF Where, LostWith
  <2>2. Where(k, S) = 1..n
    BY <1>5, <1>6 DEF Where
  <2>3. Cardinality(1..n) = n
    BY FS_Interval
  <2> QED BY <1>13, <2>1, <2>2, <2>3
<1>15. \A T : /\ T \in SUBSET S => IsFiniteSet(Where(k, T)) /\ Cardinality(Where(k, T)) \in Nat
  <2>1. IsFiniteSet(1..n)
    BY FS_Interval
  <2>2. \A T : Where(k, T) \in SUBSET (1..n)
    BY <1>6 DEF Where
  <2> QED BY <2>1, <2>2, FS_Subset, FS_CardinalityType
<1>16. Low \in SUBSET S /\ LowOrAt \in SUBSET S /\ High \in SUBSET S /\ HighOrAt \in SUBSET S
  OBVIOUS
<1>17. PICK lo \in Nat, la \in Nat, hi \in Nat, ha \in Nat :
           /\ lo = Cardinality(Where(records, Low)) /\ la = Cardinality(Where(records, LowOrAt))
           /\ hi = Cardinality(Where(records, High)) /\ ha = Cardinality(Where(records, HighOrAt))
           /\ 2 * la >= n /\ 2 * lo <= n /\ ha + lo = n /\ hi + la = n
  <2> HIDE DEF LowOrAt, Low, High, HighOrAt
  <2> QED BY <1>10, <1>11, <1>12, <1>13, <1>15, <1>16
<1>18. \A r \in S : Passes(r, key, above, cut) <=> IF above THEN r[key] > cut ELSE r[key] < cut
  BY <1>3 DEF Passes, LostWith
<1>19. CASE above
  <2>1. \A r \in S : /\ ~Passes(r, key, above, cut) <=> r \in LowOrAt
                     /\ r \in LowOrAt /\ r[key] # cut <=> r \in Low
    <3>1. ASSUME NEW r \in S
          PROVE  /\ ~Passes(r, key, above, cut) <=> r \in LowOrAt
                 /\ r \in LowOrAt /\ r[key] # cut <=> r \in Low
      <4>1. PICK x \in Int : x = r[key]
        BY <1>7
      <4>2. Passes(r, key, above, cut) <=> r[key] > cut
        BY <1>18, <1>19
      <4> QED BY <1>10, <4>1, <4>2
    <3> QED BY <3>1
  <2> HIDE DEF LowOrAt, Low, High, HighOrAt
  <2>2. barred = Where(records, LowOrAt)
    <3>1. barred = {i \in Where(records, S) : ~Passes(records[i], key, above, cut)}
      BY <1>2, <1>14
    <3> QED BY <1>16, <2>1, <3>1 DEF Where
  <2>3. beyond = Where(records, Low)
    BY <1>2, <1>16, <2>1, <2>2 DEF Where
  <2>4. Cardinality(barred) = la /\ Cardinality(beyond) = lo
    BY <1>17, <2>2, <2>3
  <2> QED BY <1>14, <1>17, <2>4
<1>20. CASE ~above
  <2>1. \A r \in S : /\ ~Passes(r, key, above, cut) <=> r \in HighOrAt
                     /\ r \in HighOrAt /\ r[key] # cut <=> r \in High
    <3>1. ASSUME NEW r \in S
          PROVE  /\ ~Passes(r, key, above, cut) <=> r \in HighOrAt
                 /\ r \in HighOrAt /\ r[key] # cut <=> r \in High
      <4>1. PICK x \in Int : x = r[key]
        BY <1>7
      <4>2. Passes(r, key, above, cut) <=> r[key] < cut
        BY <1>18, <1>20
      <4> QED BY <1>10, <4>1, <4>2
    <3> QED BY <3>1
  <2> HIDE DEF LowOrAt, Low, High, HighOrAt
  <2>2. barred = Where(records, HighOrAt)
    <3>1. barred = {i \in Where(records, S) : ~Passes(records[i], key, above, cut)}
      BY <1>2, <1>14
    <3> QED BY <1>16, <2>1, <3>1 DEF Where
  <2>3. beyond = Where(records, High)
    BY <1>2, <1>16, <2>1, <2>2 DEF Where
  <2>4. Cardinality(barred) = ha /\ Cardinality(beyond) = hi
    BY <1>17, <2>2, <2>3
  <2> QED BY <1>14, <1>17, <2>4
<1> QED BY <1>19, <1>20

-----------------------------------------------------------------------------
\* After every close the totals kept are those of the corpus, the monitor is the EWMA of
\* it, and what was reported is what they lead to.
THEOREM TotalsAreOfTheCorpus == LearningSpec => []LearnInv
<1>1. LearningInit => LearnInv
  BY LearnInvInit
<1>2. LearnInv /\ [LearningNext]_learningVars => LearnInv'
  BY LearnInvStep
<1> QED BY <1>1, <1>2, PTL DEF LearningSpec

\* What on_close concludes of the trades is what they say, for every trade, threshold and
\* floor: the totals, the regimes barred, the size, the drift, the rank sums and the
\* candidates that pass.
THEOREM LearningIsRight == LearningSpec => []LearnsFromTheTrades
<1>1. LearnInv => LearnsFromTheTrades
  BY LearnTypes, PoolRecounts, BarredLostMoney, SizesByTheEdge, BreachesAreSlumps,
     SustainedIsInARow, RanksCount, OnlyTheBetterPass, FiltersSplit DEF LearnsFromTheTrades
<1> QED BY <1>1, TotalsAreOfTheCorpus, PTL
=============================================================================
