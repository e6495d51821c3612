------------------------ MODULE WSManagerLive_proofs ------------------------
(***************************************************************************)
(* The types of WSManagerLive, what it guarantees of its positions, for    *)
(* every set of symbols, every bound and every fault the constants allow,  *)
(* and what it guarantees of its orders while the private line holds.      *)
(***************************************************************************)
EXTENDS WSManagerLive, SequenceTheorems, TLAPS

-----------------------------------------------------------------------------
(* Type correctness: lemmas about the records and identifiers.             *)

\* A fresh entry or exit identifier, and the stop of any order, is a cl_ord_id.
LEMMA IdTypes ==
    /\ \A n \in Nat : <<"entry", n, 0>> \in ClOrdIds /\ <<"exit", n, 0>> \in ClOrdIds
    /\ \A id \in ClOrdIds : StopId(id) \in ClOrdIds
BY DEF ClOrdIds, StopId

\* Order builds an order.
LEMMA OrderType ==
    ASSUME NEW kind \in {"entry", "stop"} \cup ClosingKinds, NEW id \in ClOrdIds,
           NEW pos \in ClOrdIds, NEW s \in Symbols, NEW sd \in Sides, NEW q \in Nat
    PROVE  Order(kind, id, pos, s, sd, q) \in Orders
BY DEF Order, Orders

\* The other side is a side.
LEMMA FlipType == ASSUME NEW sd \in Sides PROVE Flip(sd) \in Sides
BY DEF Flip, Sides

\* The frames an order gives rise to are frames.
LEMMA FrameTypes ==
    \A o \in Orders :
        /\ \A q \in Nat : FillFrame(o, q) \in Frames
        /\ CanceledFrame(o) \in Frames
        /\ ResponseFrame(o, TRUE) \in Frames
        /\ ResponseFrame(o, FALSE) \in Frames
BY DEF Orders, Frames, FillFrame, CanceledFrame, ResponseFrame

\* One frame, and two, make a sequence.
LEMMA ShortSeqs ==
    \A f, g \in Frames : <<f>> \in Seq(Frames) /\ <<f, g>> \in Seq(Frames)
OBVIOUS

\* Repeating a frame gives a sequence of frames.
LEMMA RepeatType ==
    ASSUME NEW f \in Frames, NEW n \in Nat
    PROVE  Repeat(f, n) \in Seq(Frames)
BY SeqDef DEF Repeat

\* What Report leaves in flight is a sequence of frames.
LEMMA ReportType ==
    ASSUME frames \in Seq(Frames), NEW fs \in Seq(Frames), Report(fs)
    PROVE  frames' \in Seq(Frames)
BY ConcatProperties DEF Report

\* The kinds of frames are told apart by their tag.
LEMMA FrameKinds ==
    ASSUME NEW f \in Frames
    PROVE  /\ f.t = "fill" => /\ f.sym \in Symbols /\ f.side \in Sides
                              /\ f.qty \in Nat /\ f.id \in ClOrdIds
           /\ f.t = "canceled" => f.id \in ClOrdIds
           /\ f.t = "response" => f.id \in ClOrdIds /\ f.rejected \in BOOLEAN
           /\ f.t = "snapshot" => f.syms \in SUBSET Symbols
BY DEF Frames

-----------------------------------------------------------------------------
(* Type correctness: the exchange.                                         *)

\* No step of Kraken or of the connection leaves the exchange's types.
LEMMA ExchangeType ==
    ASSUME ExchangeTypeOK, ExchangeNext
    PROVE  ExchangeTypeOK'
<1> USE BoundsAssumption
<1>1. /\ book \subseteq Orders /\ cancels \subseteq ClOrdIds
      /\ account \in [Symbols -> Int] /\ frames \in Seq(Frames)
      /\ conn \in {"up", "down"} /\ drops \in 0 .. MaxDrops
  BY DEF ExchangeTypeOK
<1>2. \A sd \in Sides, q \in Nat : Signed(sd, q) \in Int
  BY DEF Signed
<1>3. CASE FillEntry
  <2>1. PICK o \in book, plan \in EntryFills :
            /\ book' = book \ {o}
            /\ account' = [account EXCEPT ![o.sym] = @ + Signed(o.side, plan[Len(plan)])]
            /\ Report([i \in DOMAIN plan |-> FillFrame(o, plan[i])])
            /\ UNCHANGED <<cancels, conn, drops>>
    BY <1>3 DEF FillEntry
  <2>2. /\ o \in Orders /\ o.sym \in Symbols /\ o.side \in Sides
        /\ plan \in Seq(Nat) /\ Len(plan) \in Nat \ {0}
    <3>1. plan \in Seq(Nat \ {0}) /\ plan # <<>>
      OBVIOUS
    <3>2. plan \in Seq(Nat)
      BY <3>1, SeqMonotonic
    <3>. QED BY <1>1, <3>1, <3>2, EmptySeq DEF Orders
  <2>3. plan[Len(plan)] \in Nat
    BY <2>2, ElementOfSeq
  <2>4. [i \in DOMAIN plan |-> FillFrame(o, plan[i])] \in Seq(Frames)
    <3>1. \A i \in 1 .. Len(plan) : FillFrame(o, plan[i]) \in Frames
      BY <2>2, ElementOfSeq, FrameTypes
    <3>2. [i \in 1 .. Len(plan) |-> FillFrame(o, plan[i])] \in [1 .. Len(plan) -> Frames]
      BY <3>1
    <3>. QED BY <3>2, <2>2, LenProperties, SeqDef
  <2>5. frames' \in Seq(Frames)
    BY <1>1, <2>1, <2>4, ReportType
  <2>6. account' \in [Symbols -> Int]
    <3>1. account' = [account EXCEPT ![o.sym] = account[o.sym] + Signed(o.side, plan[Len(plan)])]
      BY <2>1
    <3>2. Signed(o.side, plan[Len(plan)]) \in Int
      BY <1>2, <2>2, <2>3
    <3>. QED BY <1>1, <2>2, <3>1, <3>2
  <2>. QED BY <1>1, <2>1, <2>5, <2>6 DEF ExchangeTypeOK
<1>4. CASE KillIoc
  <2>1. PICK o \in book :
            /\ book' = book \ {o}
            /\ \/ Report(<<CanceledFrame(o)>>)
               \/ Report(<<ResponseFrame(o, FALSE), CanceledFrame(o)>>)
    BY <1>4 DEF KillIoc
  <2>2. /\ <<CanceledFrame(o)>> \in Seq(Frames)
        /\ <<ResponseFrame(o, FALSE), CanceledFrame(o)>> \in Seq(Frames)
    BY <1>1, FrameTypes, ShortSeqs
  <2>3. frames' \in Seq(Frames)
    BY <1>1, <2>1, <2>2, ReportType
  <2>. QED BY <1>1, <1>4, <2>1, <2>3 DEF ExchangeTypeOK, KillIoc
<1>5. CASE AcceptStop
  <2>1. \A o \in Orders : [o EXCEPT !.st = "resting"] \in Orders
    BY DEF Orders
  <2>. QED BY <1>1, <1>5, <2>1 DEF AcceptStop, ExchangeTypeOK
<1>6. CASE RejectStop
  BY <1>1, <1>6 DEF RejectStop, ExchangeTypeOK
<1>7. CASE TriggerStop
  <2>1. PICK o \in book, n \in CloseReports :
            /\ book' = book \ {o}
            /\ account' = [account EXCEPT ![o.sym] = @ + Signed(o.side, o.qty)]
            /\ Report(Repeat(FillFrame(o, o.qty), n))
            /\ UNCHANGED <<cancels, conn, drops>>
    BY <1>7 DEF TriggerStop
  <2>2. o \in Orders /\ o.sym \in Symbols /\ o.side \in Sides /\ o.qty \in Nat /\ n \in Nat
    BY <1>1 DEF Orders
  <2>3. frames' \in Seq(Frames)
    BY <1>1, <2>1, <2>2, FrameTypes, RepeatType, ReportType
  <2>4. account' \in [Symbols -> Int]
    BY <1>1, <1>2, <2>1, <2>2
  <2>. QED BY <1>1, <2>1, <2>3, <2>4 DEF ExchangeTypeOK
<1>8. CASE ProcessCancel
  <2>1. PICK c \in cancels :
            LET hit == {o \in book : o.id = c /\ o.st = "resting"}
            IN  /\ cancels' = cancels \ {c}
                /\ book' = book \ hit
                /\ \/ hit = {} /\ UNCHANGED frames
                   \/ \E o \in hit : Report(<<CanceledFrame(o)>>)
                /\ UNCHANGED <<account, conn, drops>>
    BY <1>8 DEF ProcessCancel
  <2>2. frames' \in Seq(Frames)
    <3>1. CASE UNCHANGED frames
      BY <1>1, <3>1
    <3>2. CASE \E o \in book : Report(<<CanceledFrame(o)>>)
      <4>1. PICK o \in book : Report(<<CanceledFrame(o)>>)
        BY <3>2
      <4>2. <<CanceledFrame(o)>> \in Seq(Frames)
        BY <1>1, FrameTypes, ShortSeqs
      <4>. QED BY <1>1, <4>1, <4>2, ReportType
    <3>. QED BY <2>1, <3>1, <3>2
  <2>. QED BY <1>1, <2>1, <2>2 DEF ExchangeTypeOK
<1>9. CASE KrakenCancelsStop
  <2>1. PICK o \in book : book' = book \ {o} /\ Report(<<CanceledFrame(o)>>)
    BY <1>9 DEF KrakenCancelsStop
  <2>2. <<CanceledFrame(o)>> \in Seq(Frames)
    BY <1>1, FrameTypes, ShortSeqs
  <2>3. frames' \in Seq(Frames)
    BY <1>1, <2>1, <2>2, ReportType
  <2>. QED BY <1>1, <1>9, <2>1, <2>3 DEF KrakenCancelsStop, ExchangeTypeOK
<1>10. CASE FillClose
  <2>1. PICK o \in book, n \in CloseReports :
            /\ book' = book \ {o}
            /\ account' = [account EXCEPT ![o.sym] = @ + Signed(o.side, o.qty)]
            /\ Report(<<ResponseFrame(o, FALSE)>> \o Repeat(FillFrame(o, o.qty), n))
            /\ UNCHANGED <<cancels, conn, drops>>
    BY <1>10 DEF FillClose
  <2>2. o \in Orders /\ o.sym \in Symbols /\ o.side \in Sides /\ o.qty \in Nat /\ n \in Nat
    BY <1>1 DEF Orders
  <2>3. <<ResponseFrame(o, FALSE)>> \in Seq(Frames)
    BY <2>2, FrameTypes, ShortSeqs
  <2>4. Repeat(FillFrame(o, o.qty), n) \in Seq(Frames)
    BY <2>2, FrameTypes, RepeatType
  <2>5. frames' \in Seq(Frames)
    BY <1>1, <2>1, <2>3, <2>4, ConcatProperties, ReportType
  <2>6. account' \in [Symbols -> Int]
    BY <1>1, <1>2, <2>1, <2>2
  <2>. QED BY <1>1, <2>1, <2>5, <2>6 DEF ExchangeTypeOK
<1>11. CASE RejectClose
  <2>1. PICK o \in book : book' = book \ {o} /\ Report(<<ResponseFrame(o, TRUE)>>)
    BY <1>11 DEF RejectClose
  <2>2. <<ResponseFrame(o, TRUE)>> \in Seq(Frames)
    BY <1>1, FrameTypes, ShortSeqs
  <2>3. frames' \in Seq(Frames)
    BY <1>1, <2>1, <2>2, ReportType
  <2>. QED BY <1>1, <1>11, <2>1, <2>3 DEF RejectClose, ExchangeTypeOK
<1>12. CASE Drop
  <2>1. PICK n \in 0 .. Len(frames) : frames' = SubSeq(frames, 1, n)
    BY <1>12 DEF Drop
  <2>2. frames' \in Seq(Frames)
    BY <1>1, <2>1, ElementOfSeq, LenProperties, SubSeqProperties
  <2>3. drops' \in 0 .. MaxDrops
    BY <1>1, <1>12 DEF Drop
  <2>. QED BY <1>1, <1>12, <2>2, <2>3 DEF Drop, ExchangeTypeOK
<1>. QED BY <1>3, <1>4, <1>5, <1>6, <1>7, <1>8, <1>9, <1>10, <1>11, <1>12 DEF ExchangeNext

-----------------------------------------------------------------------------
(* Type correctness: the steps the actions share.                          *)

\* The frame at the head is a frame, and taking it leaves frames behind.
LEMMA TakeFrameType ==
    ASSUME TypeOK, TakeFrame
    PROVE  /\ Head(frames) \in Frames
           /\ ExchangeTypeOK'
           /\ pc' \in {"recv", "pump", "ack1", "ack2", "probe"}
           /\ job' = job /\ gaps' = gaps
           /\ pc' \in {"ack1", "ack2", "probe"} => pc' = pc
           /\ UNCHANGED <<entrySeq, exitSeq, clears>>
<1>1. frames \in Seq(Frames) /\ frames # <<>>
  BY DEF TypeOK, ExchangeTypeOK, TakeFrame, CanRead
<1>2. Head(frames) \in Frames /\ Tail(frames) \in Seq(Frames)
  BY <1>1, HeadTailProperties
<1>3. ExchangeTypeOK'
  BY <1>2 DEF TypeOK, ExchangeTypeOK, TakeFrame
<1>. QED BY <1>2, <1>3 DEF TakeFrame, CanRead

\* The records of closes stay a sequence of sequences of reasons.
LEMMA EmitType ==
    ASSUME TypeOK, NEW P \in SUBSET Positions, NEW reason \in Reasons \cup {Emergency},
           EmitTradeClose(P, reason)
    PROVE  /\ closes' \in Seq(Seq(Reasons \cup {Emergency}))
           /\ Len(closes') = Len(closes) /\ DOMAIN closes' = DOMAIN closes
           /\ \A n \in DOMAIN closes :
                Len(closes'[n]) = IF n \in {p.nth : p \in P}
                                  THEN Len(closes[n]) + 1 ELSE Len(closes[n])
<1> DEFINE R == Reasons \cup {Emergency}
<1> HIDE DEF R
<1>1. closes \in Seq(Seq(R))
  BY DEF TypeOK, SeqTypeOK, R
<1>2. /\ Len(closes) \in Nat /\ DOMAIN closes = 1 .. Len(closes)
      /\ \A n \in DOMAIN closes : closes[n] \in Seq(R)
  BY <1>1, LenProperties, ElementOfSeq
<1>3. reason \in R
  BY DEF R
<1>4. \A s \in Seq(R) : Append(s, reason) \in Seq(R) /\ Len(Append(s, reason)) = Len(s) + 1
  BY <1>3
<1>5. closes' \in [1 .. Len(closes) -> Seq(R)]
  BY <1>2, <1>4 DEF EmitTradeClose
<1>6. closes' \in Seq(Seq(R))
  BY <1>2, <1>5, SeqDef
<1>7. DOMAIN closes' = 1 .. Len(closes)
  BY <1>5
<1>8. Len(closes') = Len(closes)
  BY <1>2, <1>6, <1>7, LenProperties
<1>9. \A n \in DOMAIN closes :
        Len(closes'[n]) = IF n \in {p.nth : p \in P}
                          THEN Len(closes[n]) + 1 ELSE Len(closes[n])
  BY <1>2, <1>4 DEF EmitTradeClose
<1>. QED BY <1>2, <1>6, <1>7, <1>8, <1>9 DEF R

\* Recording closes keeps the types of everything it resets.
LEMMA RecordClosesType ==
    ASSUME TypeOK, NEW P \in SUBSET Positions, NEW reason \in Reasons \cup {Emergency},
           RecordCloses(P, reason)
    PROVE  /\ closes' \in Seq(Seq(Reasons \cup {Emergency}))
           /\ sc' \in [Sides -> [Symbols -> [losses : Nat, cooled : BOOLEAN]]]
           /\ sem' \in [Sides -> BOOLEAN]
           /\ fee' \in [Symbols -> MaybeId] /\ mae' \in [Symbols -> MaybeId]
           /\ intents' \subseteq Intents /\ held' \subseteq Symbols
<1>1. closes' \in Seq(Seq(Reasons \cup {Emergency}))
  BY EmitType DEF RecordCloses
<1>2. sc' \in [Sides -> [Symbols -> [losses : Nat, cooled : BOOLEAN]]]
  <2>1. PICK wins \in SUBSET P :
            sc' = [sd \in Sides |-> [s \in Symbols |->
                IF \E p \in P : p.sym = s /\ p.side = sd
                THEN LossUpdate(sc[sd][s], \E p \in wins : p.sym = s)
                ELSE sc[sd][s]]]
    BY DEF RecordCloses, UpdateSelection
  <2>2. \A r \in [losses : Nat, cooled : BOOLEAN] : \A w \in BOOLEAN :
            LossUpdate(r, w) \in [losses : Nat, cooled : BOOLEAN]
    BY DEF LossUpdate
  <2>3. \A sd \in Sides, s \in Symbols : sc[sd][s] \in [losses : Nat, cooled : BOOLEAN]
    BY DEF TypeOK, StateTypeOK
  <2>4. \A s : (\E p \in wins : p.sym = s) \in BOOLEAN
    OBVIOUS
  <2>. QED BY <2>1, <2>2, <2>3, <2>4
<1>3. sem' \in [Sides -> BOOLEAN]
  BY DEF RecordCloses, ReleaseSemaphore, TypeOK, StateTypeOK
<1>4. /\ fee' \in [Symbols -> MaybeId] /\ mae' \in [Symbols -> MaybeId]
      /\ intents' \subseteq Intents /\ held' \subseteq Symbols
  BY DEF RecordCloses, DropLiveState, TypeOK, StateTypeOK, ExitTypeOK, MaybeId
<1>. QED BY <1>1, <1>2, <1>3, <1>4

\* The detectors' queue holds intents and the stamps are reasons.
LEMMA EnqueueType ==
    ASSUME TypeOK, NEW i \in Intents, Enqueue(i)
    PROVE  intents' \subseteq Intents /\ stamp' \in [Symbols -> Reasons \cup {None}]
<1>1. i.sym \in Symbols /\ i.reason \in Reasons
  BY DEF Intents
<1>. QED BY <1>1 DEF Enqueue, TypeOK, ExitTypeOK

-----------------------------------------------------------------------------
(* Type correctness: the theorem.                                          *)

\* The initial states are well typed.
LEMMA InitType == Init => TypeOK
<1> SUFFICES ASSUME Init PROVE TypeOK
  OBVIOUS
<1> USE BoundsAssumption, LiveAssumption DEF Init, EmptyStore
<1>1. ExchangeTypeOK
  <2>1. SnapshotFrame({}) \in Frames
    BY DEF SnapshotFrame, Frames
  <2>2. frames \in Seq(Frames)
    BY <2>1, ShortSeqs DEF ExchangeInit
  <2>. QED BY <2>2 DEF ExchangeInit, ExchangeTypeOK
<1>2. StateTypeOK
  BY DEF StateTypeOK, MaybeId
<1>3. ExitTypeOK
  BY DEF ExitTypeOK
<1>4. LoopTypeOK
  <2>1. lastSnap \in (SUBSET Symbols) \cup {None} /\ job \in Jobs \cup {None} /\ gaps \subseteq Positions
    OBVIOUS
  <2>2. pc = "recv"
    OBVIOUS
  <2>. QED BY <2>1, <2>2 DEF LoopTypeOK
<1>5. SeqTypeOK
  BY EmptySeq DEF SeqTypeOK
<1>. QED BY <1>1, <1>2, <1>3, <1>4, <1>5 DEF TypeOK

\* The pipeline, the public loops and the operator keep the types.
LEMMA OutsideType ==
    ASSUME TypeOK, Pipeline \/ PublicLoops \/ Operator
    PROVE  TypeOK'
<1> USE LiveAssumption
<1>1. CASE DispatchEntry
  <2>1. PICK s \in Symbols, sd \in EntrySides :
            /\ entrySeq < MaxEntries
            /\ entrySeq' = entrySeq + 1
            /\ Stash(s, <<"entry", entrySeq + 1, 0>>)
            /\ book' = IF conn = "up"
                       THEN book \cup {Order("entry", <<"entry", entrySeq + 1, 0>>,
                                            <<"entry", entrySeq + 1, 0>>, s, sd, 0)}
                       ELSE book
    BY <1>1 DEF DispatchEntry
  <2>2. sd \in Sides /\ <<"entry", entrySeq + 1, 0>> \in ClOrdIds
    <3>1. entrySeq + 1 \in Nat
      BY DEF TypeOK, SeqTypeOK
    <3>2. sd \in Sides
      OBVIOUS
    <3>. QED BY <3>1, <3>2, IdTypes
  <2>3. book' \subseteq Orders
    BY <2>1, <2>2, OrderType DEF TypeOK, ExchangeTypeOK
  <2>4. ExchangeTypeOK'
    BY <1>1, <2>3 DEF TypeOK, ExchangeTypeOK, DispatchEntry
  <2>5. StateTypeOK'
    BY <1>1, <2>1, <2>2 DEF TypeOK, StateTypeOK, DispatchEntry, Stash, MaybeId
  <2>6. ExitTypeOK' /\ LoopTypeOK'
    BY <1>1 DEF TypeOK, ExitTypeOK, LoopTypeOK, DispatchEntry, exitVars, loopVars
  <2>7. SeqTypeOK'
    BY <1>1, <2>1 DEF TypeOK, SeqTypeOK, DispatchEntry
  <2>. QED BY <2>4, <2>5, <2>6, <2>7 DEF TypeOK
<1>2. ASSUME NEW s \in Symbols, NEW reason \in Reasons, NEW kind \in CloseTypes,
             NEW quote \in BOOLEAN, NEW blocked \in BOOLEAN
      PROVE  Intent(s, reason, kind, quote, blocked) \in Intents
  BY DEF Intent, Intents
<1>3. CASE HandleTicker
  <2>1. PICK s \in Symbols :
            /\ IsOpen(mirror, s)
            /\ mae' = [mae EXCEPT ![s] = IF @ = None THEN mirror[s].id ELSE @]
            /\ \/ UNCHANGED <<stamp, intents>>
               \/ Enqueue(Intent(s, "MAE_THRESHOLD_BREACH", "market", TRUE, FALSE))
    BY <1>3 DEF HandleTicker
  <2>2. mae' \in [Symbols -> MaybeId]
    BY <2>1 DEF TypeOK, StateTypeOK, IsOpen, Positions, MaybeId
  <2>3. Intent(s, "MAE_THRESHOLD_BREACH", "market", TRUE, FALSE) \in Intents
    BY <1>2 DEF Reasons, CloseTypes
  <2>4. intents' \subseteq Intents /\ stamp' \in [Symbols -> Reasons \cup {None}]
    BY <2>1, <2>3, EnqueueType DEF TypeOK, ExitTypeOK
  <2>. QED BY <1>3, <2>2, <2>4
       DEF HandleTicker, TypeOK, ExchangeTypeOK, StateTypeOK, ExitTypeOK, LoopTypeOK,
           SeqTypeOK, exchangeVars, loopVars, seqVars
<1>4. CASE RegimeExit
  <2>1. PICK s \in Symbols, q \in Quotes, b \in Blocked :
            Enqueue(Intent(s, "REGIME", "market", q, b))
    BY <1>4 DEF RegimeExit
  <2>2. Intent(s, "REGIME", "market", q, b) \in Intents
    BY <1>2 DEF Reasons, CloseTypes
  <2>3. intents' \subseteq Intents /\ stamp' \in [Symbols -> Reasons \cup {None}]
    BY <2>1, <2>2, EnqueueType
  <2>. QED BY <1>4, <2>3
       DEF RegimeExit, TypeOK, ExchangeTypeOK, StateTypeOK, ExitTypeOK, LoopTypeOK,
           SeqTypeOK, exchangeVars, stateVars, loopVars, seqVars
<1>5. CASE LimitOnlyExit
  <2>1. PICK s \in Symbols, q \in Quotes :
            Enqueue(Intent(s, "PAIR_LIMIT_ONLY_EXIT", "limit_only", q, FALSE))
    BY <1>5 DEF LimitOnlyExit
  <2>2. Intent(s, "PAIR_LIMIT_ONLY_EXIT", "limit_only", q, FALSE) \in Intents
    BY <1>2 DEF Reasons, CloseTypes
  <2>3. intents' \subseteq Intents /\ stamp' \in [Symbols -> Reasons \cup {None}]
    BY <2>1, <2>2, EnqueueType
  <2>. QED BY <1>5, <2>3
       DEF LimitOnlyExit, TypeOK, ExchangeTypeOK, StateTypeOK, ExitTypeOK, LoopTypeOK,
           SeqTypeOK, exchangeVars, stateVars, loopVars, seqVars
<1>6. CASE ClearHeld
  <2>1. clears' \in 0 .. MaxClears /\ held' \subseteq Symbols
    BY <1>6 DEF ClearHeld, TypeOK, SeqTypeOK, ExitTypeOK
  <2>. QED BY <1>6, <2>1
       DEF ClearHeld, TypeOK, ExchangeTypeOK, StateTypeOK, ExitTypeOK, LoopTypeOK,
           SeqTypeOK, exchangeVars, stateVars, loopVars
<1>. QED BY <1>1, <1>3, <1>4, <1>5, <1>6 DEF Pipeline, PublicLoops, Operator

\* Reading a frame keeps the types.
LEMMA ReadFrameType ==
    ASSUME TypeOK, ReadFrame
    PROVE  TypeOK'
<1> DEFINE f == Head(frames)
<1>1. TakeFrame
  BY DEF ReadFrame, FillOpens, FillUpdates, FillCloses, ReadCanceled, ReadResponse, ReadSnapshot
<1>2. /\ f \in Frames /\ ExchangeTypeOK' /\ UNCHANGED <<job, gaps, entrySeq, exitSeq, clears>>
      /\ pc' \in {"recv", "pump", "ack1", "ack2", "probe"}
      /\ pc' \in {"ack1", "ack2", "probe"} => pc' = pc
  BY <1>1, TakeFrameType
<1>3. lastSnap' \in (SUBSET Symbols) \cup {None} => LoopTypeOK'
  BY <1>2 DEF TypeOK, LoopTypeOK
<1>4. closes' \in Seq(Seq(Reasons \cup {Emergency})) => SeqTypeOK'
  BY <1>2 DEF TypeOK, SeqTypeOK
<1>5. ASSUME NEW s \in Symbols, IsOpen(mirror, s)
      PROVE  mirror[s] \in Positions
  BY <1>5 DEF IsOpen, TypeOK, StateTypeOK
<1> HIDE DEF f
<1>6. CASE FillOpens
  <2>1. f.t = "fill" /\ FillAction(mirror, f) = "OPENED"
    BY <1>6 DEF FillOpens, f
  <2>2. f.sym \in Symbols /\ f.side \in Sides /\ f.qty \in Nat /\ f.id \in ClOrdIds
    BY <1>2, <2>1, FrameKinds
  <2>3. /\ mirror' = ApplyFill(mirror, f, pendingEntry[f.sym], Len(closes) + 1)
        /\ trigger' = [trigger EXCEPT ![f.sym] = "bbo"]
        /\ sem' = [sem EXCEPT ![f.side] = TRUE]
        /\ fee' = [fee EXCEPT ![f.sym] = f.id]
        /\ pendingStops' =
             IF pendingEntry[f.sym] = None THEN pendingStops
             ELSE pendingStops \cup
                  {Order("stop", StopId(f.id), f.id, f.sym, Flip(f.side), f.qty)}
        /\ pendingEntry' = [pendingEntry EXCEPT ![f.sym] = None]
        /\ closes' = Append(closes, <<>>)
        /\ UNCHANGED <<sc, mae, intents, stamp, held, acks, responses, lastSnap>>
    BY <1>6 DEF FillOpens, f
  <2>4. Len(closes) + 1 \in Nat \ {0} /\ closes' \in Seq(Seq(Reasons \cup {Emergency}))
    BY <2>3, EmptySeq, LenProperties DEF TypeOK, SeqTypeOK
  <2>5. OpenedBy(f, pendingEntry[f.sym], Len(closes) + 1) \in Positions
    BY <2>2, <2>4 DEF OpenedBy, Positions, TypeOK, StateTypeOK
  <2>6. mirror' \in [Symbols -> Positions \cup {None}]
    BY <2>1, <2>3, <2>5 DEF ApplyFill, TypeOK, StateTypeOK
  <2>7. StateTypeOK'
    BY <2>2, <2>3, <2>6 DEF TypeOK, StateTypeOK, MaybeId
  <2>8. Order("stop", StopId(f.id), f.id, f.sym, Flip(f.side), f.qty) \in Orders
    BY <2>2, IdTypes, FlipType, OrderType
  <2>9. ExitTypeOK'
    BY <2>3, <2>8 DEF TypeOK, ExitTypeOK
  <2>. QED BY <1>2, <1>3, <1>4, <2>3, <2>4, <2>7, <2>9 DEF TypeOK, LoopTypeOK
<1>7. CASE FillUpdates
  <2>1. f.t = "fill" /\ FillAction(mirror, f) = "UPDATED"
    BY <1>7 DEF FillUpdates, f
  <2>2. f.sym \in Symbols /\ f.qty \in Nat
    BY <1>2, <2>1, FrameKinds
  <2>3. /\ mirror' = ApplyFill(mirror, f, None, 0)
        /\ UNCHANGED <<sem, sc, pendingEntry, fee, mae, trigger, exitVars, lastSnap, closes>>
    BY <1>7 DEF FillUpdates, f
  <2>4. IsOpen(mirror, f.sym)
    BY <2>1 DEF FillAction
  <2>5. [mirror[f.sym] EXCEPT !.qty = f.qty] \in Positions
    BY <1>5, <2>2, <2>4 DEF Positions
  <2>6. mirror' \in [Symbols -> Positions \cup {None}]
    BY <2>1, <2>3, <2>5 DEF ApplyFill, TypeOK, StateTypeOK
  <2>. QED BY <1>2, <1>3, <1>4, <2>3, <2>6
       DEF TypeOK, StateTypeOK, ExitTypeOK, LoopTypeOK, SeqTypeOK, exitVars
<1>8. CASE FillCloses
  <2>1. f.t = "fill" /\ FillAction(mirror, f) = "CLOSED"
    BY <1>8 DEF FillCloses, f
  <2>2. f.sym \in Symbols
    BY <1>2, <2>1, FrameKinds
  <2>3. /\ mirror' = ApplyFill(mirror, f, None, 0)
        /\ trigger' = [trigger EXCEPT ![f.sym] = "trades"]
        /\ PopStamp(f.sym)
        /\ RecordCloses({mirror[f.sym]},
                        IF stamp[f.sym] # None THEN stamp[f.sym] ELSE Emergency)
        /\ acks' = acks \ {StopId(mirror[f.sym].id)}
        /\ UNCHANGED <<pendingEntry, pendingStops, responses, lastSnap>>
    BY <1>8 DEF FillCloses, f
  <2>4. mirror[f.sym] \in Positions
    BY <1>5, <2>1, <2>2 DEF FillAction
  <2>5. (IF stamp[f.sym] # None THEN stamp[f.sym] ELSE Emergency) \in Reasons \cup {Emergency}
    BY <2>2 DEF TypeOK, ExitTypeOK
  <2>6. /\ closes' \in Seq(Seq(Reasons \cup {Emergency}))
        /\ sc' \in [Sides -> [Symbols -> [losses : Nat, cooled : BOOLEAN]]]
        /\ sem' \in [Sides -> BOOLEAN]
        /\ fee' \in [Symbols -> MaybeId] /\ mae' \in [Symbols -> MaybeId]
        /\ intents' \subseteq Intents /\ held' \subseteq Symbols
    BY <2>3, <2>4, <2>5, RecordClosesType
  <2>7. mirror' \in [Symbols -> Positions \cup {None}]
    BY <2>1, <2>3 DEF ApplyFill, TypeOK, StateTypeOK
  <2>8. StateTypeOK'
    BY <2>2, <2>3, <2>6, <2>7 DEF TypeOK, StateTypeOK
  <2>9. ExitTypeOK'
    BY <2>2, <2>3, <2>6 DEF TypeOK, ExitTypeOK, PopStamp
  <2>. QED BY <1>2, <1>3, <1>4, <2>3, <2>6, <2>8, <2>9 DEF TypeOK, LoopTypeOK
<1>9. CASE ReadCanceled
  <2>1. f.id \in ClOrdIds
    BY <1>2, <1>9, FrameKinds DEF ReadCanceled, f
  <2>2. ExitTypeOK'
    BY <1>9, <2>1 DEF ReadCanceled, TypeOK, ExitTypeOK, f
  <2>. QED BY <1>2, <1>3, <1>4, <1>9, <2>2
       DEF ReadCanceled, TypeOK, StateTypeOK, LoopTypeOK, SeqTypeOK, stateVars
<1>10. CASE ReadResponse
  <2>1. f.id \in ClOrdIds /\ f.rejected \in BOOLEAN
    BY <1>2, <1>10, FrameKinds DEF ReadResponse, f
  <2>2. ExitTypeOK'
    BY <1>10, <2>1 DEF ReadResponse, TypeOK, ExitTypeOK, f
  <2>. QED BY <1>2, <1>3, <1>4, <1>10, <2>2
       DEF ReadResponse, TypeOK, StateTypeOK, LoopTypeOK, SeqTypeOK, stateVars
<1>11. CASE ReadSnapshot
  <2>1. /\ f.t = "snapshot"
        /\ lastSnap' = f.syms
        /\ mirror' = Restore(mirror, f.syms)
        /\ RecordCloses(GapClosed(mirror, f.syms), Emergency)
        /\ UNCHANGED <<pendingEntry, trigger, pendingStops, stamp, acks, responses>>
    BY <1>11 DEF ReadSnapshot, f
  <2>2. lastSnap' \in SUBSET Symbols
    BY <1>2, <2>1, FrameKinds
  <2>3. GapClosed(mirror, f.syms) \in SUBSET Positions
    BY <1>5 DEF GapClosed
  <2>4. /\ closes' \in Seq(Seq(Reasons \cup {Emergency}))
        /\ sc' \in [Sides -> [Symbols -> [losses : Nat, cooled : BOOLEAN]]]
        /\ sem' \in [Sides -> BOOLEAN]
        /\ fee' \in [Symbols -> MaybeId] /\ mae' \in [Symbols -> MaybeId]
        /\ intents' \subseteq Intents /\ held' \subseteq Symbols
    BY <2>1, <2>3, RecordClosesType
  <2>5. mirror' \in [Symbols -> Positions \cup {None}]
    BY <2>1 DEF Restore, TypeOK, StateTypeOK
  <2>6. StateTypeOK'
    BY <2>1, <2>4, <2>5 DEF TypeOK, StateTypeOK
  <2>7. ExitTypeOK'
    BY <2>1, <2>4 DEF TypeOK, ExitTypeOK
  <2>. QED BY <1>2, <1>3, <1>4, <2>2, <2>4, <2>6, <2>7 DEF TypeOK
<1>. QED BY <1>6, <1>7, <1>8, <1>9, <1>10, <1>11 DEF ReadFrame

\* Driving the stops and the exits keeps the types.
LEMMA PumpType ==
    ASSUME TypeOK, Pump
    PROVE  TypeOK'
<1>1. ASSUME job \in Jobs
      PROVE  /\ job.pos \in Positions /\ job.pos.sym \in Symbols /\ job.pos.side \in Sides
             /\ job.pos.id \in ClOrdIds /\ job.pos.qty \in Nat
             /\ \A n \in Nat : [job EXCEPT !.n = n] \in Jobs
  BY <1>1 DEF Jobs, Positions
<1>2. CASE IdleTick
  BY <1>2 DEF IdleTick, TypeOK, ExchangeTypeOK, StateTypeOK, ExitTypeOK, LoopTypeOK,
              SeqTypeOK, exchangeVars, stateVars, exitVars, seqVars
<1>3. CASE PlaceEmergSl
  <2>1. /\ pendingStops' \subseteq Orders /\ book' \subseteq Orders
        /\ pc' \in {"pump", "dead"} /\ job' \in Jobs \cup {None}
    BY <1>3 DEF PlaceEmergSl, Raise, TypeOK, ExchangeTypeOK, ExitTypeOK, LoopTypeOK
  <2>. QED BY <1>3, <2>1
       DEF PlaceEmergSl, TypeOK, ExchangeTypeOK, StateTypeOK, ExitTypeOK, LoopTypeOK,
           SeqTypeOK, stateVars, seqVars
<1>4. CASE ExitsDrained
  <2>1. intents' = {} /\ pc' = "recv"
    BY <1>4 DEF ExitsDrained
  <2>. QED BY <1>4, <2>1
       DEF ExitsDrained, TypeOK, ExchangeTypeOK, StateTypeOK, ExitTypeOK, LoopTypeOK,
           SeqTypeOK, exchangeVars, stateVars, seqVars
<1>5. CASE StartExit
  <2>1. PICK i \in intents :
            /\ ~Refused(i)
            /\ intents' \subseteq intents
            /\ stamp' = [stamp EXCEPT ![i.sym] = i.reason]
            /\ job' = [pos |-> mirror[i.sym], kind |-> i.kind, quote |-> i.quote, n |-> 0]
            /\ SendCancel(StopId(mirror[i.sym].id), "ack1")
    BY <1>5 DEF StartExit
  <2>2. /\ i.sym \in Symbols /\ i.reason \in Reasons /\ i.kind \in CloseTypes
        /\ i.quote \in BOOLEAN
    BY DEF TypeOK, ExitTypeOK, Intents
  <2>3. mirror[i.sym] \in Positions
    BY <2>1, <2>2 DEF Refused, IsOpen, TypeOK, StateTypeOK
  <2>4. job' \in Jobs
    BY <2>1, <2>2, <2>3 DEF Jobs
  <2>5. StopId(mirror[i.sym].id) \in ClOrdIds
    BY <2>3, IdTypes DEF Positions
  <2>6. pc' \in {"ack1", "dead"} /\ cancels' \subseteq ClOrdIds
    BY <2>1, <2>5 DEF SendCancel, TypeOK, ExchangeTypeOK
  <2>7. stamp' \in [Symbols -> Reasons \cup {None}] /\ intents' \subseteq Intents
    BY <2>1, <2>2 DEF TypeOK, ExitTypeOK
  <2>. QED BY <1>5, <2>4, <2>6, <2>7
       DEF StartExit, TypeOK, ExchangeTypeOK, StateTypeOK, ExitTypeOK, LoopTypeOK,
           SeqTypeOK, stateVars, seqVars
<1>6. CASE AckTimeoutRetry
  <2>1. job \in Jobs
    BY <1>6 DEF AckTimeoutRetry, TypeOK, LoopTypeOK
  <2>2. pc' \in {"ack2", "dead"} /\ cancels' \subseteq ClOrdIds
    BY <1>6, <1>1, <2>1, IdTypes DEF AckTimeoutRetry, SendCancel, TypeOK, ExchangeTypeOK
  <2>. QED BY <1>6, <2>1, <2>2
       DEF AckTimeoutRetry, TypeOK, ExchangeTypeOK, StateTypeOK, ExitTypeOK, LoopTypeOK,
           SeqTypeOK, stateVars, exitVars, seqVars
<1>7. ASSUME NEW s \in Symbols, Hold(s)
      PROVE  /\ stamp' \in [Symbols -> Reasons \cup {None}] /\ held' \subseteq Symbols
             /\ pc' = "exits" /\ job' = None
  BY <1>7 DEF Hold, PopStamp, TypeOK, ExitTypeOK
<1>8. CASE HoldAmbiguous
  <2>1. job.pos.sym \in Symbols
    BY <1>8, <1>1 DEF HoldAmbiguous, TypeOK, LoopTypeOK
  <2>2. /\ stamp' \in [Symbols -> Reasons \cup {None}] /\ held' \subseteq Symbols
        /\ pc' = "exits" /\ job' = None
    BY <1>8, <1>7, <2>1 DEF HoldAmbiguous
  <2>. QED BY <1>8, <2>2
       DEF HoldAmbiguous, TypeOK, ExchangeTypeOK, StateTypeOK, ExitTypeOK, LoopTypeOK,
           SeqTypeOK, exchangeVars, stateVars, seqVars
<1>9. ASSUME job \in Jobs, NEW kind \in ClosingKinds, NEW next \in {"probe", "exits"},
             NEW retries \in Nat, SendClose(kind, next, retries)
      PROVE  /\ ExchangeTypeOK' /\ exitSeq' \in Nat
             /\ pc' \in {"probe", "exits", "dead"} /\ job' \in Jobs \cup {None}
             /\ pc' = "probe" => job' \in Jobs
  <2>1. Flip(job.pos.side) \in Sides
    BY <1>1, <1>9, FlipType
  <2>2. exitSeq + 1 \in Nat
    BY DEF TypeOK, SeqTypeOK
  <2>3. CloseOrder(kind, exitSeq + 1) \in Orders
    BY <1>1, <1>9, <2>1, <2>2, IdTypes, OrderType DEF CloseOrder
  <2>4. ExchangeTypeOK'
    BY <1>9, <2>3 DEF SendClose, TypeOK, ExchangeTypeOK
  <2>5. /\ pc' \in {"probe", "exits", "dead"} /\ job' \in Jobs \cup {None}
        /\ pc' = "probe" => job' \in Jobs
    BY <1>1, <1>9 DEF SendClose, Raise
  <2>. QED BY <1>9, <2>2, <2>4, <2>5 DEF SendClose
<1>10. "market" \in ClosingKinds /\ "ioc" \in ClosingKinds
  BY DEF ClosingKinds
<1>11. CASE SendMarketClose
  <2>1. job \in Jobs
    BY <1>11 DEF SendMarketClose, Acking, TypeOK, LoopTypeOK
  <2>2. SendClose("market", "probe", 0)
    BY <1>11 DEF SendMarketClose
  <2>. QED BY <1>11, <1>10, <1>9, <2>1, <2>2
       DEF SendMarketClose, TypeOK, StateTypeOK, ExitTypeOK, LoopTypeOK, SeqTypeOK,
           stateVars, exitVars
<1>12. CASE SendLimitOnlyClose
  <2>1. job \in Jobs
    BY <1>12 DEF SendLimitOnlyClose, Acking, TypeOK, LoopTypeOK
  <2>2. SendClose("ioc", "exits", 0)
    BY <1>12 DEF SendLimitOnlyClose
  <2>. QED BY <1>12, <1>10, <1>9, <2>1, <2>2
       DEF SendLimitOnlyClose, TypeOK, StateTypeOK, ExitTypeOK, LoopTypeOK, SeqTypeOK,
           stateVars, exitVars
<1>13. CASE DeferNoQuote
  <2>1. /\ stamp' \in [Symbols -> Reasons \cup {None}]
        /\ pc' = "exits" /\ job' = None
    BY <1>13 DEF DeferNoQuote, PopStamp, TypeOK, ExitTypeOK
  <2>. QED BY <1>13, <2>1
       DEF DeferNoQuote, TypeOK, ExchangeTypeOK, StateTypeOK, ExitTypeOK, LoopTypeOK,
           SeqTypeOK, exchangeVars, stateVars, seqVars
<1>14. CASE ProbeAccepted
  <2>1. /\ responses' \subseteq [id : ClOrdIds, rejected : BOOLEAN]
        /\ pc' = "exits" /\ job' = None
    BY <1>14 DEF ProbeAccepted, TypeOK, ExitTypeOK
  <2>. QED BY <1>14, <2>1
       DEF ProbeAccepted, TypeOK, ExchangeTypeOK, StateTypeOK, ExitTypeOK, LoopTypeOK,
           SeqTypeOK, exchangeVars, stateVars, seqVars
<1>15. CASE ProbeRejectedRetry
  <2>1. job \in Jobs /\ job.n + 1 \in Nat
    BY <1>15 DEF ProbeRejectedRetry, TypeOK, LoopTypeOK, Jobs
  <2>2. SendClose("ioc", "probe", job.n + 1)
    BY <1>15 DEF ProbeRejectedRetry
  <2>3. responses' \subseteq [id : ClOrdIds, rejected : BOOLEAN]
    BY <1>15 DEF ProbeRejectedRetry, TypeOK, ExitTypeOK
  <2>. QED BY <1>15, <1>10, <1>9, <2>1, <2>2, <2>3
       DEF ProbeRejectedRetry, TypeOK, StateTypeOK, ExitTypeOK, LoopTypeOK, SeqTypeOK,
           stateVars
<1>16. CASE HoldMppExhausted
  <2>1. job.pos.sym \in Symbols
    BY <1>16, <1>1 DEF HoldMppExhausted, TypeOK, LoopTypeOK
  <2>2. /\ stamp' \in [Symbols -> Reasons \cup {None}] /\ held' \subseteq Symbols
        /\ pc' = "exits" /\ job' = None
    BY <1>16, <1>7, <2>1 DEF HoldMppExhausted
  <2>3. responses' \subseteq [id : ClOrdIds, rejected : BOOLEAN]
    BY <1>16 DEF HoldMppExhausted, TypeOK, ExitTypeOK
  <2>. QED BY <1>16, <2>2, <2>3
       DEF HoldMppExhausted, TypeOK, ExchangeTypeOK, StateTypeOK, ExitTypeOK, LoopTypeOK,
           SeqTypeOK, exchangeVars, stateVars, seqVars
<1>. QED BY <1>2, <1>3, <1>4, <1>5, <1>6, <1>8, <1>11, <1>12, <1>13, <1>14, <1>15, <1>16 DEF Pump

\* The reconnect and its reconciliation keep the types.
LEMMA ReconnectType ==
    ASSUME TypeOK, Reconnect
    PROVE  TypeOK'
<1>1. CASE BeginReconnect
  BY <1>1 DEF BeginReconnect, TypeOK, ExchangeTypeOK, StateTypeOK, ExitTypeOK, LoopTypeOK,
              SeqTypeOK, exchangeVars, stateVars, exitVars, seqVars
<1>2. CASE Reopen
  <2>1. SnapshotFrame(OpenOrderSymbols) \in Frames
    BY DEF SnapshotFrame, OpenOrderSymbols, Frames, TypeOK, ExchangeTypeOK, Orders
  <2>2. frames' \in Seq(Frames) /\ conn' = "up" /\ pc' = "restore"
    BY <1>2, <2>1, ShortSeqs DEF Reopen
  <2>. QED BY <1>2, <2>2
       DEF Reopen, TypeOK, ExchangeTypeOK, StateTypeOK, ExitTypeOK, LoopTypeOK, SeqTypeOK,
           stateVars, exitVars, seqVars
<1>3. CASE RestoreMirror
  <2>1. \A snap : GapClosed(mirror, snap) \subseteq Positions
    BY DEF GapClosed, IsOpen, TypeOK, StateTypeOK
  <2>2. \A snap : Restore(mirror, snap) \in [Symbols -> Positions \cup {None}]
    BY DEF Restore, TypeOK, StateTypeOK
  <2>3. /\ pc' \in {"recv", "gap"} /\ gaps' \subseteq Positions
        /\ mirror' \in [Symbols -> Positions \cup {None}]
    BY <1>3, <2>1, <2>2 DEF RestoreMirror, TypeOK, StateTypeOK, LoopTypeOK
  <2>. QED BY <1>3, <2>3
       DEF RestoreMirror, TypeOK, ExchangeTypeOK, StateTypeOK, ExitTypeOK, LoopTypeOK,
           SeqTypeOK, exchangeVars, exitVars, seqVars
<1>4. CASE EmitGapClose
  <2>1. PICK p \in gaps : gaps' = gaps \ {p} /\ RecordCloses({p}, Emergency)
    BY <1>4 DEF EmitGapClose
  <2>2. {p} \in SUBSET Positions
    BY DEF TypeOK, LoopTypeOK
  <2>3. /\ closes' \in Seq(Seq(Reasons \cup {Emergency}))
        /\ sc' \in [Sides -> [Symbols -> [losses : Nat, cooled : BOOLEAN]]]
        /\ sem' \in [Sides -> BOOLEAN]
        /\ fee' \in [Symbols -> MaybeId] /\ mae' \in [Symbols -> MaybeId]
        /\ intents' \subseteq Intents /\ held' \subseteq Symbols
    BY <2>1, <2>2, RecordClosesType
  <2>4. StateTypeOK'
    BY <1>4, <2>3 DEF EmitGapClose, TypeOK, StateTypeOK
  <2>5. ExitTypeOK'
    BY <1>4, <2>3 DEF EmitGapClose, TypeOK, ExitTypeOK
  <2>. QED BY <1>4, <2>1, <2>3, <2>4, <2>5
       DEF EmitGapClose, TypeOK, ExchangeTypeOK, LoopTypeOK, SeqTypeOK, exchangeVars
<1>5. CASE RestFails
  BY <1>5 DEF RestFails, TypeOK, ExchangeTypeOK, StateTypeOK, ExitTypeOK, LoopTypeOK,
              SeqTypeOK, exchangeVars, stateVars, exitVars, seqVars
<1>6. CASE RestoreDone
  BY <1>6 DEF RestoreDone, TypeOK, ExchangeTypeOK, StateTypeOK, ExitTypeOK, LoopTypeOK,
              SeqTypeOK, exchangeVars, stateVars, exitVars, seqVars
<1>. QED BY <1>1, <1>2, <1>3, <1>4, <1>5, <1>6 DEF Reconnect

\* The types hold in every reachable state, for every choice of the constants.
THEOREM TypeCorrect == Spec => []TypeOK
<1>1. TypeOK /\ [Next]_vars => TypeOK'
  <2> SUFFICES ASSUME TypeOK, [Next]_vars PROVE TypeOK'
    OBVIOUS
  <2>1. CASE Kraken
    BY <2>1, ExchangeType
       DEF Kraken, TypeOK, StateTypeOK, ExitTypeOK, LoopTypeOK, SeqTypeOK,
           stateVars, exitVars, loopVars, seqVars
  <2>2. CASE UNCHANGED vars
    BY <2>2
       DEF TypeOK, ExchangeTypeOK, StateTypeOK, ExitTypeOK, LoopTypeOK, SeqTypeOK,
           vars, exchangeVars, stateVars, exitVars, loopVars, seqVars
  <2>. QED BY <2>1, <2>2, OutsideType, ReadFrameType, PumpType, ReconnectType DEF Next
<1>. QED BY <1>1, InitType, PTL DEF Spec


-----------------------------------------------------------------------------
(* What a step does to the positions owed a close.  Every step opens one     *)
(* position, refreshes one, settles some, or leaves them alone; that is all   *)
(* the theorems below need to know about it.  It holds because the positions  *)
(* a restore sets aside are settled before the mirror can be written again.   *)

\* Each position sits under its symbol; a symbol whose position was set aside is
\* closed; positions are set aside only while the loop reconciles them.
Reconciling ==
    /\ \A s \in Symbols : IsOpen(mirror, s) => mirror[s].sym = s
    /\ \A g \in gaps : ~IsOpen(mirror, g.sym)
    /\ gaps # {} => pc \in {"gap", "dead"}

Opens ==
    \E p \in Positions :
        /\ p.nth = Len(closes) + 1
        /\ \A q \in Owed : q.sym # p.sym
        /\ Owed' = Owed \cup {p}
        /\ closes' = Append(closes, <<>>)
        /\ sem' = [sem EXCEPT ![p.side] = TRUE]
        /\ fee' = [fee EXCEPT ![p.sym] = p.id]
        /\ UNCHANGED <<mae, intents>>

Refreshes ==
    \E p \in Owed, q \in Positions :
        /\ q.nth = p.nth /\ q.sym = p.sym /\ q.side = p.side /\ q.id = p.id
        /\ Owed' = (Owed \ {p}) \cup {q}
        /\ UNCHANGED <<closes, sem, fee, mae, intents>>

Settles ==
    \E P \in SUBSET Owed, reason \in Reasons \cup {Emergency} :
        /\ Owed' = Owed \ P
        /\ EmitTradeClose(P, reason)
        /\ ReleaseSemaphore(P)
        /\ DropLiveState({p.sym : p \in P})

\* The per-symbol state may change only on behalf of an owed position.
MarksOwed ==
    /\ fee' = fee
    /\ \A s \in Symbols : mae'[s] = mae[s] \/ \E p \in Owed : p.sym = s /\ p.id = mae'[s]
    /\ \A i \in intents' : i \in intents \/ \E p \in Owed : p.sym = i.sym

Keeps == Owed' = Owed /\ UNCHANGED <<closes, sem>> /\ MarksOwed

\* Owed positions are positions.
LEMMA OwedPositions == ASSUME TypeOK PROVE Owed \subseteq Positions
BY DEF TypeOK, StateTypeOK, LoopTypeOK, Owed, IsOpen

\* What is owed after one symbol of the store is written, with no gaps pending.
LEMMA StoreOwed ==
    ASSUME TypeOK, Reconciling, gaps = {}, gaps' = {}, NEW s \in Symbols, NEW v,
           mirror' = [mirror EXCEPT ![s] = v]
    PROVE  Owed' = (IF IsOpen(mirror, s) THEN Owed \ {mirror[s]} ELSE Owed)
                       \cup (IF v # None THEN {v} ELSE {})
<1>1. mirror' = [x \in Symbols |-> IF x = s THEN v ELSE mirror[x]]
  BY DEF TypeOK, StateTypeOK
<1>2. \A x \in Symbols : x # s /\ IsOpen(mirror, x) /\ IsOpen(mirror, s) => mirror[x] # mirror[s]
  BY DEF Reconciling
<1>. QED BY <1>1, <1>2 DEF Owed, IsOpen

\* Reading a frame.
LEMMA ReadFrameOwed ==
    ASSUME TypeOK, Reconciling, ReadFrame
    PROVE  /\ Opens \/ Refreshes \/ Settles \/ Keeps
           /\ Reconciling'
<1> DEFINE f == Head(frames)
<1>1. TakeFrame
  BY DEF ReadFrame, FillOpens, FillUpdates, FillCloses, ReadCanceled, ReadResponse, ReadSnapshot
<1>2. gaps = {} /\ gaps' = {}
  BY <1>1 DEF Reconciling, TakeFrame, CanRead
<1>3. f \in Frames
  BY <1>1, TakeFrameType
<1>4. ASSUME NEW s \in Symbols, NEW v, v # None => v.sym = s, mirror' = [mirror EXCEPT ![s] = v]
      PROVE  Reconciling'
  BY <1>2, <1>4 DEF Reconciling, IsOpen, TypeOK, StateTypeOK
<1> HIDE DEF f
<1>5. CASE FillOpens
  <2> DEFINE p == OpenedBy(f, pendingEntry[f.sym], Len(closes) + 1)
  <2>1. /\ f.t = "fill" /\ FillAction(mirror, f) = "OPENED"
        /\ mirror' = ApplyFill(mirror, f, pendingEntry[f.sym], Len(closes) + 1)
        /\ closes' = Append(closes, <<>>)
        /\ sem' = [sem EXCEPT ![f.side] = TRUE]
        /\ fee' = [fee EXCEPT ![f.sym] = f.id]
        /\ UNCHANGED <<mae, intents>>
    BY <1>5 DEF FillOpens, f
  <2>2. f.sym \in Symbols /\ f.side \in Sides /\ f.qty \in Nat /\ f.id \in ClOrdIds
    BY <1>3, <2>1, FrameKinds
  <2>3. ~IsOpen(mirror, f.sym)
    BY <2>1 DEF FillAction
  <2>4. mirror' = [mirror EXCEPT ![f.sym] = p]
    BY <2>1 DEF ApplyFill
  <2>5. p.sym = f.sym /\ p.side = f.side /\ p.nth = Len(closes) + 1 /\ p.id = f.id
    BY DEF OpenedBy
  <2>6. p \in Positions /\ p # None
    <3>1. Len(closes) + 1 \in Nat \ {0}
      BY LenProperties DEF TypeOK, SeqTypeOK
    <3>2. p \in Positions
      BY <2>2, <3>1 DEF OpenedBy, Positions, TypeOK, StateTypeOK
    <3>. QED BY <3>2, NoneAssumption
  <2> HIDE DEF p
  <2>7. Owed' = Owed \cup {p}
    BY <1>2, <2>2, <2>3, <2>4, <2>6, StoreOwed
  <2>8. \A q \in Owed : q.sym # p.sym
    BY <1>2, <2>3, <2>5 DEF Owed, Reconciling
  <2>9. Opens
    BY <2>1, <2>5, <2>6, <2>7, <2>8 DEF Opens
  <2>. QED BY <1>4, <2>2, <2>4, <2>5, <2>9
<1>6. CASE FillUpdates
  <2> DEFINE p == mirror[f.sym]
             q == [p EXCEPT !.qty = f.qty]
  <2>1. /\ f.t = "fill" /\ FillAction(mirror, f) = "UPDATED"
        /\ mirror' = ApplyFill(mirror, f, None, 0)
        /\ UNCHANGED <<closes, sem, fee, mae, intents>>
    BY <1>6 DEF FillUpdates, exitVars, f
  <2>2. f.sym \in Symbols /\ f.qty \in Nat
    BY <1>3, <2>1, FrameKinds
  <2>3. IsOpen(mirror, f.sym)
    BY <2>1 DEF FillAction
  <2>4. p \in Positions
    BY <2>2, <2>3 DEF IsOpen, TypeOK, StateTypeOK
  <2>5. mirror' = [mirror EXCEPT ![f.sym] = q]
    BY <2>1, <2>2 DEF ApplyFill, TypeOK, StateTypeOK
  <2>6. q \in Positions /\ q.sym = p.sym /\ q.nth = p.nth /\ q.side = p.side /\ q.id = p.id
    BY <2>2, <2>4 DEF Positions
  <2>7. p \in Owed /\ p.sym = f.sym /\ q # None
    BY <2>2, <2>3, <2>6, NoneAssumption DEF Owed, Reconciling
  <2> HIDE DEF q
  <2>8. Owed' = (Owed \ {p}) \cup {q}
    BY <1>2, <2>2, <2>3, <2>5, <2>7, StoreOwed
  <2>9. Refreshes
    BY <2>1, <2>6, <2>7, <2>8 DEF Refreshes
  <2>. QED BY <1>4, <2>2, <2>5, <2>6, <2>7, <2>9
<1>7. CASE FillCloses
  <2> DEFINE p == mirror[f.sym]
             reason == IF stamp[f.sym] # None THEN stamp[f.sym] ELSE Emergency
  <2>1. /\ f.t = "fill" /\ FillAction(mirror, f) = "CLOSED"
        /\ mirror' = ApplyFill(mirror, f, None, 0)
        /\ EmitTradeClose({p}, reason) /\ ReleaseSemaphore({p})
        /\ DropLiveState({x.sym : x \in {p}})
    BY <1>7 DEF FillCloses, RecordCloses, f
  <2>2. f.sym \in Symbols
    BY <1>3, <2>1, FrameKinds
  <2>3. reason \in Reasons \cup {Emergency}
    BY <2>2 DEF TypeOK, ExitTypeOK
  <2>4. IsOpen(mirror, f.sym)
    BY <2>1 DEF FillAction
  <2>5. mirror' = [mirror EXCEPT ![f.sym] = None]
    BY <2>1 DEF ApplyFill
  <2> HIDE DEF reason
  <2>6. p \in Owed /\ Owed' = Owed \ {p}
    BY <1>2, <2>2, <2>4, <2>5, StoreOwed DEF Owed
  <2>7. Settles
    BY <2>1, <2>3, <2>6 DEF Settles
  <2>. QED BY <1>4, <2>2, <2>5, <2>7
<1>8. CASE ReadCanceled \/ ReadResponse
  <2>1. UNCHANGED <<mirror, closes, sem, fee, mae, intents>>
    BY <1>8 DEF ReadCanceled, ReadResponse, stateVars
  <2>2. Owed' = Owed
    BY <1>2, <2>1 DEF Owed, IsOpen
  <2>3. Reconciling'
    BY <1>2, <2>1 DEF Reconciling, IsOpen
  <2>. QED BY <2>1, <2>2, <2>3 DEF Keeps, MarksOwed
<1>9. CASE ReadSnapshot
  <2> DEFINE P == GapClosed(mirror, f.syms)
  <2>1. /\ mirror' = Restore(mirror, f.syms)
        /\ EmitTradeClose(P, Emergency) /\ ReleaseSemaphore(P)
        /\ DropLiveState({p.sym : p \in P})
    BY <1>9 DEF ReadSnapshot, RecordCloses, f
  <2>2. P \in SUBSET Owed
    BY DEF GapClosed, Owed
  <2>3. Owed' = Owed \ P
    BY <1>2, <2>1 DEF Owed, GapClosed, Restore, IsOpen, Reconciling
  <2>4. Reconciling'
    BY <1>2, <2>1 DEF Reconciling, Restore, IsOpen
  <2> HIDE DEF P
  <2>5. Settles
    BY <2>1, <2>2, <2>3 DEF Settles
  <2>. QED BY <2>4, <2>5
<1>. QED BY <1>5, <1>6, <1>7, <1>8, <1>9 DEF ReadFrame

\* The restore sets positions aside and the gap closes settle them.
LEMMA ReconnectOwed ==
    ASSUME TypeOK, Reconciling, Reconnect
    PROVE  /\ Settles \/ Keeps
           /\ Reconciling'
<1>1. CASE RestoreMirror
  <2>1. gaps = {} /\ UNCHANGED <<closes, sem, fee, mae, intents>>
    BY <1>1 DEF RestoreMirror, Reconciling, exitVars, seqVars
  <2>2. CASE UNCHANGED <<mirror, gaps>>
    <3>1. Owed' = Owed
      BY <2>2 DEF Owed, IsOpen
    <3>2. Reconciling'
      BY <2>1, <2>2 DEF Reconciling, IsOpen
    <3>. QED BY <2>1, <3>1, <3>2 DEF Keeps, MarksOwed
  <2>3. CASE \E snap : /\ mirror' = Restore(mirror, snap)
                        /\ gaps' = GapClosed(mirror, snap)
                        /\ pc' = "gap"
    <3>1. PICK snap : /\ mirror' = Restore(mirror, snap)
                      /\ gaps' = GapClosed(mirror, snap)
                      /\ pc' = "gap"
      BY <2>3
    <3>2. Owed' = Owed
      BY <2>1, <3>1 DEF Owed, GapClosed, Restore, IsOpen
    <3>3. Reconciling'
      BY <3>1 DEF Reconciling, GapClosed, Restore, IsOpen
    <3>. QED BY <2>1, <3>2, <3>3 DEF Keeps, MarksOwed
  <2>. QED BY <1>1, <2>2, <2>3 DEF RestoreMirror
<1>2. CASE EmitGapClose
  <2>1. PICK p \in gaps : gaps' = gaps \ {p} /\ EmitTradeClose({p}, Emergency)
                     /\ ReleaseSemaphore({p}) /\ DropLiveState({x.sym : x \in {p}})
    BY <1>2 DEF EmitGapClose, RecordCloses
  <2>2. mirror' = mirror /\ pc' = pc
    BY <1>2 DEF EmitGapClose
  <2>3. p \in Owed
    BY DEF Owed
  <2>4. \A s \in Symbols : IsOpen(mirror, s) => mirror[s] # p
    BY DEF Reconciling
  <2>5. Owed' = Owed \ {p}
    BY <2>1, <2>2, <2>4 DEF Owed, IsOpen
  <2>6. Reconciling'
    BY <2>1, <2>2 DEF Reconciling, IsOpen
  <2>7. Settles
    BY <2>1, <2>3, <2>5 DEF Settles
  <2>. QED BY <2>6, <2>7
<1>3. CASE BeginReconnect \/ Reopen \/ RestFails \/ RestoreDone
  <2>1. UNCHANGED <<mirror, gaps, closes, sem, fee, mae, intents>>
    BY <1>3 DEF BeginReconnect, Reopen, RestFails, RestoreDone, stateVars, exitVars, seqVars
  <2>2. gaps # {} => pc' \in {"gap", "dead"}
    BY <1>3 DEF BeginReconnect, Reopen, RestFails, RestoreDone, Reconciling
  <2>3. Owed' = Owed
    BY <2>1 DEF Owed, IsOpen
  <2>4. Reconciling'
    BY <2>1, <2>2 DEF Reconciling, IsOpen
  <2>. QED BY <2>1, <2>3, <2>4 DEF Keeps, MarksOwed
<1>. QED BY <1>1, <1>2, <1>3 DEF Reconnect

\* No other step touches the mirror, the positions set aside or the records.
LEMMA OthersKeepOwed ==
    ASSUME Pipeline \/ PublicLoops \/ Operator \/ Pump \/ Kraken \/ UNCHANGED vars
    PROVE  /\ UNCHANGED <<mirror, gaps, closes, sem>>
           /\ pc \in {"gap", "dead"} => pc' = pc
<1>1. CASE Pipeline \/ PublicLoops \/ Operator
  BY <1>1 DEF Pipeline, PublicLoops, Operator, DispatchEntry, HandleTicker, RegimeExit,
              LimitOnlyExit, ClearHeld, stateVars, loopVars, seqVars
<1>2. CASE Pump
  <2>1. pc \notin {"gap", "dead"}
    BY <1>2 DEF Pump, IdleTick, PlaceEmergSl, ExitsDrained, StartExit, AtExits,
                AckTimeoutRetry, HoldAmbiguous, SendMarketClose, SendLimitOnlyClose,
                DeferNoQuote, Acking, ProbeAccepted, ProbeRejectedRetry, HoldMppExhausted
  <2>2. UNCHANGED <<mirror, gaps, closes, sem>>
    BY <1>2 DEF Pump, IdleTick, PlaceEmergSl, ExitsDrained, StartExit, AckTimeoutRetry,
                HoldAmbiguous, SendMarketClose, SendLimitOnlyClose, DeferNoQuote,
                ProbeAccepted, ProbeRejectedRetry, HoldMppExhausted, stateVars, seqVars
  <2>. QED BY <2>1, <2>2
<1>3. CASE Kraken \/ UNCHANGED vars
  BY <1>3 DEF Kraken, vars, stateVars, loopVars, seqVars
<1>. QED BY <1>1, <1>2, <1>3

\* The detectors queue exits of open positions, the ticker marks open positions, and
\* the pump only takes intents out.
LEMMA OthersMarkOwed ==
    ASSUME TypeOK, Reconciling,
           Pipeline \/ PublicLoops \/ Operator \/ Pump \/ Kraken \/ UNCHANGED vars
    PROVE  MarksOwed
<1>1. ASSUME NEW s \in Symbols, IsOpen(mirror, s)
      PROVE  \E p \in Owed : p.sym = s /\ p.id = mirror[s].id
  BY <1>1 DEF Owed, Reconciling
<1>2. ASSUME NEW s \in Symbols, IsOpen(mirror, s), NEW reason, NEW kind, NEW q, NEW b,
             Enqueue(Intent(s, reason, kind, q, b))
      PROVE  \A i \in intents' : i \in intents \/ \E p \in Owed : p.sym = i.sym
  <2>1. Intent(s, reason, kind, q, b).sym = s
    BY DEF Intent
  <2>2. intents' \subseteq intents \cup {Intent(s, reason, kind, q, b)}
    BY <1>2 DEF Enqueue
  <2>. QED BY <1>1, <1>2, <2>1, <2>2
<1>3. CASE HandleTicker
  <2>1. PICK s \in Symbols :
            /\ IsOpen(mirror, s)
            /\ mae' = [mae EXCEPT ![s] = IF @ = None THEN mirror[s].id ELSE @]
            /\ \/ UNCHANGED <<stamp, intents>>
               \/ Enqueue(Intent(s, "MAE_THRESHOLD_BREACH", "market", TRUE, FALSE))
    BY <1>3 DEF HandleTicker
  <2>2. \A x \in Symbols : mae'[x] = mae[x] \/ \E p \in Owed : p.sym = x /\ p.id = mae'[x]
    BY <1>1, <2>1 DEF TypeOK, StateTypeOK
  <2>3. \A i \in intents' : i \in intents \/ \E p \in Owed : p.sym = i.sym
    BY <1>2, <2>1
  <2>4. fee' = fee
    BY <1>3 DEF HandleTicker
  <2>. QED BY <2>2, <2>3, <2>4 DEF MarksOwed
<1>4. CASE RegimeExit \/ LimitOnlyExit
  <2>1. fee' = fee /\ mae' = mae
    BY <1>4 DEF RegimeExit, LimitOnlyExit, stateVars
  <2>2. \A i \in intents' : i \in intents \/ \E p \in Owed : p.sym = i.sym
    BY <1>2, <1>4 DEF RegimeExit, LimitOnlyExit
  <2>. QED BY <2>1, <2>2 DEF MarksOwed
<1>5. CASE Pipeline \/ Operator \/ Kraken \/ UNCHANGED vars
  BY <1>5 DEF Pipeline, Operator, Kraken, DispatchEntry, ClearHeld, vars, stateVars, exitVars,
              MarksOwed
<1>6. CASE Pump
  BY <1>6 DEF Pump, IdleTick, PlaceEmergSl, ExitsDrained, StartExit, AckTimeoutRetry,
              HoldAmbiguous, SendMarketClose, SendLimitOnlyClose, DeferNoQuote,
              ProbeAccepted, ProbeRejectedRetry, HoldMppExhausted, stateVars, exitVars,
              MarksOwed
<1>. QED BY <1>3, <1>4, <1>5, <1>6 DEF PublicLoops

\* Every step.
LEMMA OwedStep ==
    ASSUME TypeOK, Reconciling, [Next]_vars
    PROVE  /\ Opens \/ Refreshes \/ Settles \/ Keeps
           /\ Reconciling'
<1>1. CASE Pipeline \/ PublicLoops \/ Operator \/ Pump \/ Kraken \/ UNCHANGED vars
  <2>1. UNCHANGED <<mirror, gaps, closes, sem>> /\ (pc \in {"gap", "dead"} => pc' = pc)
    BY <1>1, OthersKeepOwed
  <2>2. Owed' = Owed
    BY <2>1 DEF Owed, IsOpen
  <2>3. Reconciling'
    BY <2>1 DEF Reconciling, IsOpen
  <2>. QED BY <1>1, <2>1, <2>2, <2>3, OthersMarkOwed DEF Keeps
<1>. QED BY <1>1, ReadFrameOwed, ReconnectOwed DEF Next

\* Nothing is owed, and nothing is set aside, at the start.
LEMMA InitOwed == Init => Reconciling /\ Owed = {}
BY DEF Init, Reconciling, Owed, EmptyStore, IsOpen

\* The reconciliation invariant holds throughout.
THEOREM AlwaysReconciling == Spec => []Reconciling
<1>1. TypeOK /\ Reconciling /\ [Next]_vars => Reconciling'
  BY OwedStep
<1>. QED BY <1>1, InitOwed, TypeCorrect, PTL DEF Spec

-----------------------------------------------------------------------------
(* Every position closes once.  The property alone is not inductive: a close  *)
(* must not settle a position that shares its name with another.              *)

\* The owed positions are openings of the run, no two the same one.
NthIdentifies ==
    /\ \A p \in Owed : p.nth \in DOMAIN closes
    /\ \A p, q \in Owed : p.nth = q.nth => p = q

ClosesInv == NthIdentifies /\ EveryPositionClosesOnce

\* A step that settles the owed positions P with one record each.
LEMMA SettlesCloses ==
    ASSUME TypeOK, NthIdentifies, EveryPositionClosesOnce,
           NEW P \in SUBSET Owed, NEW reason \in Reasons \cup {Emergency},
           EmitTradeClose(P, reason), Owed' = Owed \ P
    PROVE  NthIdentifies' /\ EveryPositionClosesOnce'
<1>1. /\ DOMAIN closes' = DOMAIN closes
      /\ \A n \in DOMAIN closes :
            Len(closes'[n]) = IF n \in {p.nth : p \in P}
                              THEN Len(closes[n]) + 1 ELSE Len(closes[n])
  BY EmitType, OwedPositions
<1>2. NthIdentifies'
  BY <1>1 DEF NthIdentifies
<1>3. ASSUME NEW n \in DOMAIN closes
      PROVE  Len(closes'[n]) = IF \E p \in Owed' : p.nth = n THEN 0 ELSE 1
  <2>1. CASE \E p \in P : p.nth = n
    <3>1. PICK p \in P : p.nth = n
      BY <2>1
    <3>2. Len(closes[n]) = 0
      BY <3>1 DEF EveryPositionClosesOnce
    <3>3. ~\E q \in Owed' : q.nth = n
      BY <3>1 DEF NthIdentifies
    <3>4. Len(closes'[n]) = Len(closes[n]) + 1
      BY <1>1, <3>1
    <3>. QED BY <3>2, <3>3, <3>4
  <2>2. CASE ~\E p \in P : p.nth = n
    <3>1. (\E p \in Owed' : p.nth = n) <=> (\E p \in Owed : p.nth = n)
      BY <2>2
    <3>2. Len(closes'[n]) = Len(closes[n])
      BY <1>1, <2>2
    <3>. QED BY <3>1, <3>2 DEF EveryPositionClosesOnce
  <2>. QED BY <2>1, <2>2
<1>. QED BY <1>1, <1>2, <1>3 DEF EveryPositionClosesOnce

\* A step that opens a new position, the next one of the run.
LEMMA OpensCloses ==
    ASSUME TypeOK, NthIdentifies, EveryPositionClosesOnce,
           NEW p, p.nth = Len(closes) + 1,
           closes' = Append(closes, <<>>), Owed' = Owed \cup {p}
    PROVE  NthIdentifies' /\ EveryPositionClosesOnce'
<1>1. closes \in Seq(Seq(Reasons \cup {Emergency})) /\ Len(closes) \in Nat
      /\ DOMAIN closes = 1 .. Len(closes)
  BY LenProperties DEF TypeOK, SeqTypeOK
<1>2. DOMAIN closes' = 1 .. Len(closes) + 1
  BY <1>1
<1>3. /\ \A n \in DOMAIN closes : closes'[n] = closes[n]
      /\ closes'[Len(closes) + 1] = <<>>
  BY <1>1
<1>4. \A q \in Owed : q.nth # Len(closes) + 1
  BY <1>1 DEF NthIdentifies
<1>5. NthIdentifies'
  BY <1>1, <1>2, <1>4 DEF NthIdentifies
<1>6. ASSUME NEW n \in DOMAIN closes'
      PROVE  Len(closes'[n]) = IF \E q \in Owed' : q.nth = n THEN 0 ELSE 1
  <2>1. CASE n = Len(closes) + 1
    BY <1>3, <2>1, EmptySeq
  <2>2. CASE n \in DOMAIN closes
    <3>1. n # Len(closes) + 1
      BY <1>1, <2>2
    <3>2. (\E q \in Owed' : q.nth = n) <=> (\E q \in Owed : q.nth = n)
      BY <3>1
    <3>. QED BY <1>3, <2>2, <3>2 DEF EveryPositionClosesOnce
  <2>. QED BY <1>1, <1>2, <2>1, <2>2
<1>. QED BY <1>5, <1>6 DEF EveryPositionClosesOnce

\* A step that replaces an owed position by one with the same name.
LEMMA UpdatesCloses ==
    ASSUME NthIdentifies, EveryPositionClosesOnce, NEW p \in Owed, NEW q, q.nth = p.nth,
           Owed' = (Owed \ {p}) \cup {q}, closes' = closes
    PROVE  NthIdentifies' /\ EveryPositionClosesOnce'
<1>1. NthIdentifies'
  BY DEF NthIdentifies
<1>2. \A n : (\E r \in Owed' : r.nth = n) <=> (\E r \in Owed : r.nth = n)
  OBVIOUS
<1>. QED BY <1>1, <1>2 DEF EveryPositionClosesOnce

\* The inductive step.
LEMMA ClosesStep ==
    ASSUME TypeOK, Reconciling, ClosesInv, [Next]_vars
    PROVE  ClosesInv'
<1>1. CASE Opens
  BY <1>1, OpensCloses DEF Opens, ClosesInv
<1>2. CASE Refreshes
  BY <1>2, UpdatesCloses DEF Refreshes, ClosesInv
<1>3. CASE Settles
  BY <1>3, SettlesCloses DEF Settles, ClosesInv
<1>4. CASE Keeps
  BY <1>4 DEF Keeps, ClosesInv, NthIdentifies, EveryPositionClosesOnce
<1>. QED BY <1>1, <1>2, <1>3, <1>4, OwedStep

\* Whatever the frames, the drops, the restores and the interleavings, each
\* position ever opened gets exactly one TRADE_CLOSE (ar:AR-056).
THEOREM ClosesOnce == Spec => []EveryPositionClosesOnce
<1>1. Init => ClosesInv
  BY InitOwed DEF Init, ClosesInv, NthIdentifies, EveryPositionClosesOnce
<1>2. TypeOK /\ Reconciling /\ ClosesInv /\ [Next]_vars => ClosesInv'
  BY ClosesStep
<1>3. ClosesInv => EveryPositionClosesOnce
  BY DEF ClosesInv
<1>. QED BY <1>1, <1>2, <1>3, TypeCorrect, AlwaysReconciling, PTL DEF Spec

-----------------------------------------------------------------------------
(* The dispatch semaphore.                                                    *)

\* No path, a gap close between two awaits included, leaves a module's semaphore
\* held when none of its positions is owed a close (gate G7 CHECK 4 could never
\* pass again).
THEOREM SemaphoreSound == Spec => []SemaphoreHeldForPosition
<1>1. Init => SemaphoreHeldForPosition
  BY DEF Init, SemaphoreHeldForPosition
<1>2. ASSUME TypeOK, Reconciling, SemaphoreHeldForPosition, [Next]_vars
      PROVE  SemaphoreHeldForPosition'
  <2>1. CASE Opens
    BY <1>2, <2>1 DEF Opens, SemaphoreHeldForPosition, TypeOK, StateTypeOK
  <2>2. CASE Refreshes
    BY <1>2, <2>2 DEF Refreshes, SemaphoreHeldForPosition
  <2>3. CASE Settles
    BY <1>2, <2>3 DEF Settles, ReleaseSemaphore, SemaphoreHeldForPosition
  <2>4. CASE Keeps
    BY <1>2, <2>4 DEF Keeps, SemaphoreHeldForPosition
  <2>. QED BY <1>2, <2>1, <2>2, <2>3, <2>4, OwedStep
<1>. QED BY <1>1, <1>2, TypeCorrect, AlwaysReconciling, PTL DEF Spec

-----------------------------------------------------------------------------
(* The per-symbol state of a position.                                        *)

\* A symbol's entry fee, MAE high-water and queued exits are those of the position
\* owed a close there: a reopened symbol never inherits them from the one before.
THEOREM LiveStateSound == Spec => []LiveStateIsOfThePosition
<1>1. Init => LiveStateIsOfThePosition
  BY DEF Init, EmptyStore, LiveStateIsOfThePosition
<1>2. ASSUME TypeOK, Reconciling, LiveStateIsOfThePosition, [Next]_vars
      PROVE  LiveStateIsOfThePosition'
  <2>1. CASE Opens
    BY <1>2, <2>1 DEF Opens, LiveStateIsOfThePosition, TypeOK, StateTypeOK
  <2>2. CASE Refreshes
    BY <1>2, <2>2 DEF Refreshes, LiveStateIsOfThePosition
  <2>3. CASE Settles
    BY <1>2, <2>3 DEF Settles, DropLiveState, LiveStateIsOfThePosition
  <2>4. CASE Keeps
    BY <1>2, <2>4 DEF Keeps, MarksOwed, LiveStateIsOfThePosition
  <2>. QED BY <1>2, <2>1, <2>2, <2>3, <2>4, OwedStep
<1>. QED BY <1>1, <1>2, TypeCorrect, AlwaysReconciling, PTL DEF Spec

-----------------------------------------------------------------------------
(* The manager implements the lifecycle.                                      *)

\* The names of the owed positions identify them throughout.
THEOREM AlwaysIdentified == Spec => []NthIdentifies
<1>1. Init => ClosesInv
  BY InitOwed DEF Init, ClosesInv, NthIdentifies, EveryPositionClosesOnce
<1>2. TypeOK /\ Reconciling /\ ClosesInv /\ [Next]_vars => ClosesInv'
  BY ClosesStep
<1>3. ClosesInv => NthIdentifies
  BY DEF ClosesInv
<1>. QED BY <1>1, <1>2, <1>3, TypeCorrect, AlwaysReconciling, PTL DEF Spec

\* Restores, partial fills, retries, refusals and lost messages are invisible to
\* the lifecycle; an opening fill opens, a close fill or a gap close settles.
THEOREM RefinesLifecycle == Spec => ImplementsLifecycle
<1> DEFINE abs(p) == [nth |-> p.nth, sym |-> p.sym, side |-> p.side]
           O == {abs(p) : p \in Owed}
<1>1. Init => Lifecycle!Init
  BY InitOwed DEF Init, Lifecycle!Init
<1>2. ASSUME TypeOK, Reconciling, NthIdentifies, [Next]_vars
      PROVE  [Lifecycle!Next]_(Lifecycle!vars)
  <2>1. CASE Opens
    <3>1. PICK p \in Positions :
              /\ p.nth = Len(closes) + 1
              /\ \A q \in Owed : q.sym # p.sym
              /\ Owed' = Owed \cup {p}
              /\ closes' = Append(closes, <<>>)
              /\ sem' = [sem EXCEPT ![p.side] = TRUE]
      BY <2>1 DEF Opens
    <3>2. p.sym \in Symbols /\ p.side \in Sides
      BY DEF Positions
    <3>3. \A q \in O : q.sym # p.sym
      BY <3>1
    <3>4. O' = O \cup {[nth |-> Len(closes) + 1, sym |-> p.sym, side |-> p.side]}
      BY <3>1
    <3>5. Lifecycle!Open(p.sym, p.side)
      BY <3>1, <3>3, <3>4 DEF Lifecycle!Open
    <3>. QED BY <3>2, <3>5 DEF Lifecycle!Next
  <2>2. CASE Refreshes
    <3>1. PICK p \in Owed, q \in Positions :
              /\ q.nth = p.nth /\ q.sym = p.sym /\ q.side = p.side
              /\ Owed' = (Owed \ {p}) \cup {q}
              /\ UNCHANGED <<closes, sem>>
      BY <2>2 DEF Refreshes
    <3>2. abs(q) = abs(p)
      BY <3>1
    <3>3. O' = O
      BY <3>1, <3>2
    <3>. QED BY <3>1, <3>3 DEF Lifecycle!vars
  <2>3. CASE Settles
    <3>1. PICK P \in SUBSET Owed, reason \in Reasons \cup {Emergency} :
              /\ Owed' = Owed \ P
              /\ EmitTradeClose(P, reason)
              /\ ReleaseSemaphore(P)
      BY <2>3 DEF Settles
    <3> DEFINE Q == {abs(p) : p \in P}
    <3>2. Q \in SUBSET O
      OBVIOUS
    <3>3. O' = O \ Q
      BY <1>2, <3>1 DEF NthIdentifies
    <3>4. /\ \A p \in P : abs(p) \in Q /\ abs(p).nth = p.nth /\ abs(p).side = p.side
          /\ \A r \in Q : \E p \in P : r = abs(p)
      OBVIOUS
    <3> HIDE DEF Q, abs
    <3>5. /\ {p.nth : p \in P} = {r.nth : r \in Q}
          /\ \A sd : (\E p \in P : p.side = sd) <=> (\E r \in Q : r.side = sd)
      BY <3>4
    <3>6. Lifecycle!Settle(Q, reason)
      BY <3>1, <3>3, <3>5 DEF abs, Lifecycle!Settle, EmitTradeClose, ReleaseSemaphore
    <3>. QED BY <3>1, <3>2, <3>6 DEF abs, Lifecycle!Next
  <2>4. CASE Keeps
    BY <2>4 DEF Keeps, Lifecycle!vars
  <2>. QED BY <1>2, <2>1, <2>2, <2>3, <2>4, OwedStep
<1>. QED BY <1>1, <1>2, TypeCorrect, AlwaysReconciling, AlwaysIdentified, PTL
     DEF Spec, ImplementsLifecycle, Lifecycle!Spec

-----------------------------------------------------------------------------
(* The orders, while the private line holds, for every set of symbols,     *)
(* every number of entries, every limit of losses and retries, and either  *)
(* way of waiting for Kraken's answers.                                    *)
(*                                                                         *)
(* The invariant follows one symbol through its life.  It is flat, or an   *)
(* entry order is out, or its fill is on its way, or a position is open    *)
(* with at most one order (the stop, or one closing order, never both), or *)
(* the fill that closes it is on its way: the mirror and the account agree *)
(* up to that one report.  Around that life, a confirmed cancel means the  *)
(* stop is gone, a refused close means the closing order is gone, and the  *)
(* exit being driven is the exit of the position it was started for.       *)

\* The line holds, reports come whole and the pipeline only buys, as in the
\* assembled bot: each of the three is needed (a lost or a partial report leaves
\* the mirror behind the account, and the drop runs show what follows).
SteadyLine ==
    /\ MaxDrops = 0
    /\ CloseReports \subseteq {1}
    /\ \A plan \in EntryFills : Len(plan) = 1
    /\ EntrySides \subseteq {"long"}

-----------------------------------------------------------------------------
(* The inductive invariant: one symbol's life.                             *)

\* What Kraken has sent and the client has not read.
InFlight == {frames[i] : i \in DOMAIN frames}

\* f reports a fill of s; f is about s at all (a snapshot is about none).
FillOf(f, s) == f.t = "fill" /\ f.sym = s
About(f, s) == f.t # "snapshot" /\ f.sym = s

\* Two reports that may not be under way together: two fills of one symbol, an
\* entry's fill with anything else of its symbol, two confirmations of one cancel.
Clash(f, g) ==
    /\ f.t # "snapshot" /\ g.t # "snapshot" /\ f.sym = g.sym
    /\ \/ f.t = "fill" /\ (g.t = "fill" \/ f.side = "long")
       \/ g.t = "fill" /\ g.side = "long"
       \/ f.t = "canceled" /\ g.t = "canceled" /\ f.id = g.id /\ f.id[3] # 0

LineUp ==
    /\ conn = "up" /\ gaps = {}
    /\ pc \in {"recv", "pump", "exits", "ack1", "ack2", "probe"}

\* The only snapshot is the first frame, read before any position is open.
SnapshotFirst ==
    \A i \in DOMAIN frames : frames[i].t = "snapshot" => i = 1
SnapshotEmpty ==
    (\E f \in InFlight : f.t = "snapshot") => \A s \in Symbols : ~IsOpen(mirror, s)

Once == \A i, j \in DOMAIN frames : Clash(frames[i], frames[j]) => i = j

OneOrder ==
    /\ \A o, x \in book : o.sym = x.sym => o = x
    /\ \A o, x \in pendingStops : o.sym = x.sym => o = x
    /\ \A o \in book, x \in pendingStops : o.sym # x.sym
OrderOrFill ==
    \A o \in book \cup pendingStops : \A f \in InFlight : ~FillOf(f, o.sym)

EntryOrders ==
    \A o \in book : o.kind = "entry" =>
        /\ o.side = "long" /\ o.st = "sent" /\ o.id[3] = 0
        /\ ~IsOpen(mirror, o.sym) /\ pendingEntry[o.sym] = o.id
        /\ \A f \in InFlight : ~About(f, o.sym)
StopOrders ==
    /\ \A o \in pendingStops : o.kind = "stop" /\ o.st = "sent"
    /\ \A o \in book \cup pendingStops : o.kind = "stop" => o.id = StopId(o.pos)
ClosingOrders ==
    \A o \in book : o.kind \in ClosingKinds =>
        o.id[1] = "exit" /\ o.id[2] <= exitSeq /\ o.id[3] = 0 /\ o.st = "sent"
ExitOrders ==
    \A o \in book \cup pendingStops : o.kind # "entry" =>
        /\ o.side = "short" /\ IsOpen(mirror, o.sym)
        /\ o.pos = mirror[o.sym].id /\ o.qty = mirror[o.sym].qty
FillFrames ==
    \A f \in InFlight : f.t = "fill" =>
        IF f.side = "long"
        THEN /\ ~IsOpen(mirror, f.sym) /\ account[f.sym] = f.qty
             /\ pendingEntry[f.sym] = f.id /\ f.id[1] = "entry"
        ELSE IsOpen(mirror, f.sym) /\ account[f.sym] = 0
Accounts ==
    \A s \in Symbols : (\A f \in InFlight : ~FillOf(f, s)) =>
        account[s] = IF IsOpen(mirror, s) THEN mirror[s].qty ELSE 0
Mirrors ==
    \A s \in Symbols : IsOpen(mirror, s) =>
        /\ mirror[s].side = "long" /\ mirror[s].sym = s
        /\ mirror[s].snap \in {None, mirror[s].id}
        /\ pendingEntry[s] = None

\* The entry that opened the symbol's position, or the last one dispatched for it.
Name(s) == IF IsOpen(mirror, s) THEN mirror[s].id ELSE pendingEntry[s]
Known(x) == x[1] = "entry" /\ x[2] <= entrySeq /\ x[3] = 0
Names ==
    /\ \A s \in Symbols : Name(s) # None => Known(Name(s))
    /\ \A s, t \in Symbols : Name(s) = Name(t) /\ Name(s) # None => s = t

Life ==
    /\ OneOrder /\ OrderOrFill /\ EntryOrders /\ StopOrders /\ ClosingOrders
    /\ ExitOrders /\ FillFrames /\ Accounts /\ Mirrors /\ Names

-----------------------------------------------------------------------------
(* The inductive invariant: stops, stamps and the exit being driven.       *)

Driving == pc \in {"ack1", "ack2", "probe"}

\* No stop of s is left, nor the report that it fired.
StopGone(s) ==
    /\ \A o \in book \cup pendingStops : o.kind = "stop" => o.sym # s
    /\ \A f \in InFlight : FillOf(f, s) => f.side = "long" \/ f.id[1] = "exit"
\* No order of s is left, nor a fill under way.
Bare(s) ==
    /\ \A o \in book \cup pendingStops : o.sym # s
    /\ \A f \in InFlight : ~FillOf(f, s)
\* No closing order of s is left, nor its fill.
NoExit(s) ==
    /\ \A o \in book : o.kind \in ClosingKinds => o.sym # s
    /\ \A f \in InFlight : FillOf(f, s) => f.id[1] # "exit"

Acks ==
    \A a \in acks : a[3] # 0 =>
        \E s \in Symbols : IsOpen(mirror, s) /\ a = StopId(mirror[s].id) /\ StopGone(s)
StopCancels ==
    \A f \in InFlight : f.t = "canceled" /\ f.id[3] # 0 =>
        /\ IsOpen(mirror, f.sym) /\ f.id = StopId(mirror[f.sym].id)
        /\ f.id \notin acks
        /\ Bare(f.sym)
Stamps ==
    \A s \in Symbols :
        /\ stamp[s] # None => IsOpen(mirror, s)
        /\ stamp[s] = None => NoExit(s)

CurrentClose == <<"exit", exitSeq, 0>>
Refusal(r) == r.id = CurrentClose /\ r.rejected
RefusalKnown ==
    (\E r \in responses : Refusal(r)) \/ \E f \in InFlight : f.t = "response" /\ Refusal(f)
Answers ==
    /\ \A r \in responses : r.id[2] <= exitSeq
    /\ \A f \in InFlight : f.t = "response" => f.id[2] <= exitSeq

BeforeClose == pc \in {"ack1", "ack2"} => NoExit(job.pos.sym)
ProbedOrder ==
    pc = "probe" =>
        /\ \A o \in book : o.id = CurrentClose =>
             o.sym = job.pos.sym /\ mirror[o.sym] = job.pos
        /\ mirror[job.pos.sym] = job.pos => StopId(job.pos.id) \in acks
ProbedRefusal ==
    pc = "probe" /\ RefusalKnown => mirror[job.pos.sym] = job.pos /\ Bare(job.pos.sym)
TheJob ==
    Driving =>
        /\ Known(job.pos.id)
        /\ \A s \in Symbols : Name(s) = job.pos.id => mirror[s] = job.pos
        /\ mirror[job.pos.sym] = job.pos => stamp[job.pos.sym] # None

Exits ==
    /\ Acks /\ StopCancels /\ Stamps /\ Answers
    /\ BeforeClose /\ ProbedOrder /\ ProbedRefusal /\ TheJob

Steady == LineUp /\ SnapshotFirst /\ SnapshotEmpty /\ Once /\ Life /\ Exits

-----------------------------------------------------------------------------
(* Identifiers and frames.                                                 *)

\* A cl_ord_id is its three parts; a stop's is that of its order with one more
\* suffix, so that no two orders have the same stop.
LEMMA IdParts ==
    /\ \A x \in ClOrdIds :
         /\ x[1] \in {"entry", "exit"} /\ x[2] \in Nat /\ x[3] \in Nat
         /\ StopId(x) \in ClOrdIds
         /\ StopId(x)[1] = x[1] /\ StopId(x)[2] = x[2] /\ StopId(x)[3] # 0
    /\ \A x, y \in ClOrdIds : StopId(x) = StopId(y) => x = y
BY DEF ClOrdIds, StopId

\* What is in flight are frames.
LEMMA FlightType == ASSUME TypeOK PROVE InFlight \subseteq Frames
<1>1. frames \in Seq(Frames)
  BY DEF TypeOK, ExchangeTypeOK
<1>. QED BY <1>1, ElementOfSeq, LenProperties DEF InFlight

\* A report appended to what is in flight.
LEMMA OneReported ==
    ASSUME TypeOK, LineUp, SnapshotFirst, Once, NEW g \in Frames, g.t # "snapshot",
           \A f \in InFlight : ~Clash(f, g), Report(<<g>>)
    PROVE  /\ InFlight' = InFlight \cup {g}
           /\ SnapshotFirst' /\ Once'
<1> DEFINE n == Len(frames)
<1>1. frames \in Seq(Frames) /\ n \in Nat /\ DOMAIN frames = 1 .. n
  BY LenProperties DEF TypeOK, ExchangeTypeOK
<1>2. frames' = frames \o <<g>>
  BY DEF Report, LineUp
<1>3. /\ DOMAIN frames' = 1 .. n + 1
      /\ \A i \in 1 .. n : frames'[i] = frames[i]
      /\ frames'[n + 1] = g
  BY <1>1, <1>2, LenProperties, ConcatProperties
<1>4. \A i \in 1 .. n : frames[i] \in InFlight
  BY <1>1 DEF InFlight
<1>5. InFlight' = InFlight \cup {g}
  BY <1>1, <1>3 DEF InFlight
<1>6. SnapshotFirst'
  BY <1>1, <1>3 DEF SnapshotFirst
<1>7. \A f, h : Clash(f, h) => Clash(h, f)
  BY DEF Clash
<1>8. Once'
  BY <1>1, <1>3, <1>4, <1>7 DEF Once
<1>. QED BY <1>5, <1>6, <1>8

\* An answer and the report that follows it.
LEMMA TwoReported ==
    ASSUME TypeOK, LineUp, SnapshotFirst, Once, NEW g \in Frames, NEW h \in Frames,
           g.t # "snapshot", h.t # "snapshot", ~Clash(g, h),
           \A f \in InFlight : ~Clash(f, g) /\ ~Clash(f, h), Report(<<g, h>>)
    PROVE  /\ InFlight' = InFlight \cup {g, h}
           /\ SnapshotFirst' /\ Once'
<1> DEFINE n == Len(frames)
<1>1. frames \in Seq(Frames) /\ n \in Nat /\ DOMAIN frames = 1 .. n
  BY LenProperties DEF TypeOK, ExchangeTypeOK
<1>2. frames' = frames \o <<g, h>>
  BY DEF Report, LineUp
<1>3. /\ DOMAIN frames' = 1 .. n + 2
      /\ \A i \in 1 .. n : frames'[i] = frames[i]
      /\ frames'[n + 1] = g /\ frames'[n + 2] = h
  BY <1>1, <1>2, LenProperties, ConcatProperties
<1>4. \A i \in 1 .. n : frames[i] \in InFlight
  BY <1>1 DEF InFlight
<1>5. InFlight' = InFlight \cup {g, h}
  BY <1>1, <1>3 DEF InFlight
<1>6. SnapshotFirst'
  BY <1>1, <1>3 DEF SnapshotFirst
<1>7. \A e, f : Clash(e, f) => Clash(f, e)
  BY DEF Clash
<1>8. Once'
  BY <1>1, <1>3, <1>4, <1>7 DEF Once
<1>. QED BY <1>5, <1>6, <1>8

\* The oldest frame taken: what remains does not clash with it.
LEMMA FrameTaken ==
    ASSUME TypeOK, SnapshotFirst, Once, TakeFrame
    PROVE  /\ Head(frames) \in Frames
           /\ Head(frames) \in InFlight
           /\ InFlight = InFlight' \cup {Head(frames)}
           /\ \A f \in InFlight' : f.t # "snapshot" /\ ~Clash(Head(frames), f)
           /\ SnapshotFirst' /\ Once'
<1> DEFINE n == Len(frames)
<1>1. frames \in Seq(Frames) /\ frames # <<>> /\ frames' = Tail(frames)
  BY DEF TypeOK, ExchangeTypeOK, TakeFrame, CanRead
<1>2. n \in Nat \ {0} /\ DOMAIN frames = 1 .. n
  BY <1>1, LenProperties, EmptySeq
<1>3. /\ Head(frames) = frames[1] /\ Head(frames) \in Frames
      /\ DOMAIN frames' = 1 .. n - 1
      /\ \A i \in 1 .. n - 1 : frames'[i] = frames[i + 1]
  BY <1>1, <1>2, HeadTailProperties, LenProperties
<1>4. Head(frames) \in InFlight
  BY <1>2, <1>3 DEF InFlight
<1>5. \A f \in InFlight' : \E j \in DOMAIN frames : j # 1 /\ f = frames[j]
  BY <1>2, <1>3 DEF InFlight
<1>6. \A j \in DOMAIN frames : j = 1 \/ frames[j] \in InFlight'
  <2>1. ASSUME NEW j \in DOMAIN frames, j # 1 PROVE frames[j] \in InFlight'
    <3>1. j - 1 \in 1 .. n - 1 /\ frames'[j - 1] = frames[j]
      BY <1>2, <1>3, <2>1
    <3>. QED BY <1>3, <3>1 DEF InFlight
  <2>. QED BY <2>1
<1>7. InFlight = InFlight' \cup {Head(frames)}
  <2>1. \A f \in InFlight : f = Head(frames) \/ f \in InFlight'
    BY <1>3, <1>6 DEF InFlight
  <2>2. \A f \in InFlight' : f \in InFlight
    BY <1>5 DEF InFlight
  <2>. QED BY <1>4, <2>1, <2>2
<1>8. \A f \in InFlight' : f.t # "snapshot" /\ ~Clash(Head(frames), f)
  BY <1>2, <1>3, <1>5 DEF SnapshotFirst, Once
<1>9. SnapshotFirst' /\ Once'
  <2>1. \A i \in DOMAIN frames' : i + 1 \in DOMAIN frames /\ i + 1 # 1 /\ frames'[i] = frames[i + 1]
    BY <1>2, <1>3
  <2>2. SnapshotFirst'
    BY <2>1 DEF SnapshotFirst
  <2>3. Once'
    BY <1>2, <1>3, <2>1 DEF Once
  <2>. QED BY <2>2, <2>3
<1>. QED BY <1>3, <1>4, <1>7, <1>8, <1>9

\* Repeat once is the frame itself.
LEMMA RepeatOnce ==
    ASSUME SteadyLine, NEW f, NEW n \in CloseReports
    PROVE  Repeat(f, n) = <<f>>
<1>1. n = 1
  BY DEF SteadyLine
<1>. QED BY <1>1 DEF Repeat

-----------------------------------------------------------------------------
(* Steps that leave the orders, the reports and the positions alone.       *)

lifeVars == <<book, pendingStops, frames, account, mirror, pendingEntry, entrySeq, exitSeq>>

\* Nothing of a symbol's life changes.
LEMMA LifeKept ==
    ASSUME UNCHANGED lifeVars
    PROVE  /\ InFlight' = InFlight
           /\ \A s : Bare(s)' = Bare(s) /\ NoExit(s)' = NoExit(s)
           /\ \A s : StopGone(s)' = StopGone(s) /\ Name(s)' = Name(s)
           /\ Life => Life'
           /\ SnapshotFirst /\ SnapshotEmpty /\ Once =>
                (SnapshotFirst /\ SnapshotEmpty /\ Once)'
<1> USE DEF lifeVars
<1>1. InFlight' = InFlight
  BY DEF InFlight
<1>2. /\ \A s : Bare(s)' = Bare(s) /\ NoExit(s)' = NoExit(s)
      /\ \A s : StopGone(s)' = StopGone(s) /\ Name(s)' = Name(s)
  BY <1>1 DEF Bare, NoExit, StopGone, Name, IsOpen
<1>3. ASSUME Life PROVE Life'
  <2> USE <1>3 DEF Life
  <2>1. OneOrder' /\ OrderOrFill'
    BY <1>1 DEF OneOrder, OrderOrFill
  <2>2. EntryOrders' /\ StopOrders'
    BY <1>1 DEF EntryOrders, StopOrders, IsOpen
  <2>3. ClosingOrders' /\ ExitOrders'
    BY DEF ClosingOrders, ExitOrders, IsOpen
  <2>4. FillFrames' /\ Accounts'
    BY <1>1 DEF FillFrames, Accounts, IsOpen
  <2>5. Mirrors' /\ Names'
    BY <1>2 DEF Mirrors, Names, Known, IsOpen
  <2>. QED BY <2>1, <2>2, <2>3, <2>4, <2>5
<1>4. ASSUME SnapshotFirst, SnapshotEmpty, Once
      PROVE  (SnapshotFirst /\ SnapshotEmpty /\ Once)'
  BY <1>1, <1>4 DEF SnapshotFirst, SnapshotEmpty, Once, IsOpen
<1>. QED BY <1>1, <1>2, <1>3, <1>4

\* A stamp may be overridden (an MAE breach) but not set or taken back, answers
\* may be dropped, and the loop goes on with its exit or is not driving one.
LEMMA ExitsKept ==
    ASSUME Life, Exits, UNCHANGED <<lifeVars, acks>>,
           \A s \in Symbols : stamp'[s] = None <=> stamp[s] = None,
           responses' \subseteq responses,
           TypeOK, UNCHANGED <<pc, job>> \/ ~Driving'
    PROVE  Exits'
<1>1. /\ InFlight' = InFlight
      /\ \A s : Bare(s)' = Bare(s) /\ NoExit(s)' = NoExit(s)
      /\ \A s : StopGone(s)' = StopGone(s) /\ Name(s)' = Name(s)
  BY LifeKept
<1>2. UNCHANGED <<book, mirror, exitSeq, entrySeq>>
  BY DEF lifeVars
<1>3. Acks' /\ StopCancels'
  BY <1>1, <1>2 DEF Exits, Acks, StopCancels, IsOpen
<1>4. Stamps' /\ Answers'
  BY <1>1, <1>2 DEF Exits, Stamps, Answers, IsOpen
<1>5. CASE UNCHANGED <<pc, job>>
  <2>1. BeforeClose'
    BY <1>1, <1>5 DEF Exits, BeforeClose
  <2>2. ProbedOrder'
    BY <1>2, <1>5 DEF Exits, ProbedOrder, CurrentClose
  <2>3. RefusalKnown' => RefusalKnown
    BY <1>1, <1>2 DEF RefusalKnown, Refusal, CurrentClose
  <2>4. ProbedRefusal'
    BY <1>1, <1>2, <1>5, <2>3 DEF Exits, ProbedRefusal
  <2>5. ASSUME Driving' PROVE TheJob'
    <3>1. Driving /\ job \in Jobs
      BY <1>5, <2>5 DEF Driving, TypeOK, LoopTypeOK
    <3>2. job.pos.sym \in Symbols
      BY <3>1 DEF Jobs, Positions
    <3>. QED BY <1>1, <1>2, <1>5, <3>1, <3>2 DEF Exits, TheJob, Known
  <2>6. TheJob'
    BY <2>5 DEF TheJob
  <2>. QED BY <1>3, <1>4, <2>1, <2>2, <2>4, <2>6 DEF Exits
<1>6. CASE ~Driving'
  BY <1>3, <1>4, <1>6 DEF Exits, BeforeClose, ProbedOrder, ProbedRefusal, TheJob, Driving
<1>. QED BY <1>5, <1>6

\* The detectors queue exits, and may only override a stamp; the operator clears
\* a HELD marker.
LEMMA DetectorsSteady ==
    ASSUME TypeOK, Steady, PublicLoops \/ Operator
    PROVE  Steady'
<1>1. UNCHANGED <<lifeVars, acks, responses, pc, job, conn, gaps>>
  BY DEF PublicLoops, Operator, HandleTicker, RegimeExit, LimitOnlyExit, ClearHeld,
         lifeVars, exchangeVars, stateVars, loopVars, seqVars
<1>2. ASSUME NEW i \in Intents, Enqueue(i)
      PROVE  \A s \in Symbols : stamp'[s] = None <=> stamp[s] = None
  <2>1. i.reason \in Reasons /\ i.reason # None
    BY NoneAssumption DEF Intents
  <2>. QED BY <1>2, <2>1 DEF Enqueue, TypeOK, ExitTypeOK
<1>3. ASSUME NEW s \in Symbols, NEW reason \in Reasons, NEW kind \in CloseTypes,
             NEW quote \in BOOLEAN, NEW blocked \in BOOLEAN
      PROVE  Intent(s, reason, kind, quote, blocked) \in Intents
  BY DEF Intent, Intents
<1>4. \A s \in Symbols : stamp'[s] = None <=> stamp[s] = None
  <2>1. CASE HandleTicker
    <3>1. PICK s \in Symbols :
              \/ UNCHANGED stamp
              \/ Enqueue(Intent(s, "MAE_THRESHOLD_BREACH", "market", TRUE, FALSE))
      BY <2>1 DEF HandleTicker
    <3>. QED BY <1>2, <1>3, <3>1 DEF Reasons, CloseTypes
  <2>2. CASE RegimeExit
    <3>1. PICK s \in Symbols, q \in Quotes, b \in Blocked :
              Enqueue(Intent(s, "REGIME", "market", q, b))
      BY <2>2 DEF RegimeExit
    <3>2. q \in BOOLEAN /\ b \in BOOLEAN
      BY LiveAssumption
    <3>. QED BY <1>2, <1>3, <3>1, <3>2 DEF Reasons, CloseTypes
  <2>3. CASE LimitOnlyExit
    <3>1. PICK s \in Symbols, q \in Quotes :
              Enqueue(Intent(s, "PAIR_LIMIT_ONLY_EXIT", "limit_only", q, FALSE))
      BY <2>3 DEF LimitOnlyExit
    <3>2. q \in BOOLEAN
      BY LiveAssumption
    <3>. QED BY <1>2, <1>3, <3>1, <3>2 DEF Reasons, CloseTypes
  <2>4. CASE ClearHeld
    BY <2>4 DEF ClearHeld
  <2>. QED BY <2>1, <2>2, <2>3, <2>4 DEF PublicLoops, Operator
<1>. QED BY <1>1, <1>4, LifeKept, ExitsKept DEF Steady, LineUp

\* Steps of the pump that send nothing and end no exit.
LEMMA PumpIdles ==
    ASSUME TypeOK, Steady, IdleTick \/ ExitsDrained \/ ProbeAccepted
    PROVE  Steady'
<1>1. UNCHANGED <<lifeVars, acks, stamp, conn, gaps>>
  BY DEF IdleTick, ExitsDrained, ProbeAccepted, lifeVars, exchangeVars, stateVars, exitVars, seqVars
<1>2. responses' \subseteq responses /\ pc' \in {"recv", "pump", "exits"}
  BY DEF IdleTick, ExitsDrained, ProbeAccepted, exitVars
<1>. QED BY <1>1, <1>2, LifeKept, ExitsKept DEF Steady, LineUp, Driving

\* A taken exit: its position is open, stamped, and nothing of a closing order
\* of its symbol is left.
LEMMA ExitStarts ==
    ASSUME TypeOK, Steady, StartExit
    PROVE  Steady'
<1>1. PICK i \in intents :
          /\ ~Refused(i)
          /\ stamp' = [stamp EXCEPT ![i.sym] = i.reason]
          /\ job' = [pos |-> mirror[i.sym], kind |-> i.kind, quote |-> i.quote, n |-> 0]
          /\ pc' = "ack1"
  BY DEF StartExit, SendCancel, Steady, LineUp
<1>2. UNCHANGED <<lifeVars, acks, responses, conn, gaps>>
  BY DEF StartExit, lifeVars, stateVars, seqVars
<1>3. i.sym \in Symbols /\ i.reason # None
  BY NoneAssumption DEF TypeOK, ExitTypeOK, Intents
<1>4. IsOpen(mirror, i.sym) /\ stamp[i.sym] = None
  BY <1>1 DEF Refused
<1>5. mirror[i.sym].sym = i.sym /\ mirror[i.sym].id \in ClOrdIds
  BY <1>3, <1>4 DEF Steady, Life, Mirrors, TypeOK, StateTypeOK, IsOpen, Positions
<1>6. job'.pos = mirror[i.sym] /\ job'.pos.sym = i.sym
  BY <1>1, <1>5
<1>7. stamp'[i.sym] # None /\ \A s \in Symbols : s # i.sym => stamp'[s] = stamp[s]
  BY <1>1, <1>3 DEF TypeOK, ExitTypeOK
<1>8. /\ InFlight' = InFlight
      /\ \A s : Bare(s)' = Bare(s) /\ NoExit(s)' = NoExit(s)
      /\ \A s : StopGone(s)' = StopGone(s) /\ Name(s)' = Name(s)
      /\ Life' /\ (SnapshotFirst /\ SnapshotEmpty /\ Once)'
  BY <1>2, LifeKept DEF Steady
<1>9. UNCHANGED <<book, mirror, exitSeq, entrySeq>>
  BY <1>2 DEF lifeVars
<1>10. Acks' /\ StopCancels' /\ Answers'
  BY <1>2, <1>8, <1>9 DEF Steady, Exits, Acks, StopCancels, Answers, IsOpen
<1>11. Stamps'
  BY <1>4, <1>7, <1>8, <1>9 DEF Steady, Exits, Stamps, IsOpen
<1>12. BeforeClose'
  BY <1>3, <1>4, <1>6, <1>8 DEF Steady, Exits, Stamps, BeforeClose
<1>13. ProbedOrder' /\ ProbedRefusal'
  BY <1>1 DEF ProbedOrder, ProbedRefusal
<1>14. TheJob'
  <2>1. Name(i.sym) = mirror[i.sym].id /\ Name(i.sym) # None
    BY <1>4, <1>5, NoneAssumption DEF Name
  <2>2. Known(mirror[i.sym].id)
    BY <1>3, <2>1 DEF Steady, Life, Names
  <2>3. \A s \in Symbols : Name(s) = mirror[i.sym].id => s = i.sym
    BY <1>3, <2>1 DEF Steady, Life, Names
  <2>. QED BY <1>6, <1>7, <1>8, <1>9, <2>2, <2>3 DEF TheJob, Known
<1>. QED BY <1>1, <1>2, <1>8, <1>10, <1>11, <1>12, <1>13, <1>14 DEF Steady, LineUp, Exits

\* The cancel is asked for again.
LEMMA AckRetries ==
    ASSUME TypeOK, Steady, AckTimeoutRetry
    PROVE  Steady'
<1>1. pc = "ack1" /\ pc' = "ack2" /\ UNCHANGED <<lifeVars, acks, stamp, responses, job, conn, gaps>>
  BY DEF AckTimeoutRetry, SendCancel, Steady, LineUp, lifeVars, stateVars, exitVars, seqVars
<1>2. /\ InFlight' = InFlight
      /\ \A s : Bare(s)' = Bare(s) /\ NoExit(s)' = NoExit(s)
      /\ \A s : StopGone(s)' = StopGone(s) /\ Name(s)' = Name(s)
      /\ Life' /\ (SnapshotFirst /\ SnapshotEmpty /\ Once)'
  BY <1>1, LifeKept DEF Steady
<1>3. UNCHANGED <<book, mirror, exitSeq, entrySeq>>
  BY <1>1 DEF lifeVars
<1>4. Acks' /\ StopCancels' /\ Answers' /\ Stamps'
  BY <1>1, <1>2, <1>3 DEF Steady, Exits, Acks, StopCancels, Answers, Stamps, IsOpen
<1>5. BeforeClose' /\ ProbedOrder' /\ ProbedRefusal'
  BY <1>1, <1>2 DEF Steady, Exits, BeforeClose, ProbedOrder, ProbedRefusal
<1>6. TheJob'
  BY <1>1, <1>2, <1>3 DEF Steady, Exits, TheJob, Known, Driving
<1>. QED BY <1>1, <1>2, <1>4, <1>5, <1>6 DEF Steady, LineUp, Exits

\* An exit given up: no closing order of its symbol is left when the stamp is
\* taken back, so that a later exit can only send the one.
LEMMA ExitGivenUp ==
    ASSUME TypeOK, Steady, HoldAmbiguous \/ DeferNoQuote \/ HoldMppExhausted
    PROVE  Steady'
<1> DEFINE s0 == job.pos.sym
<1>1. /\ UNCHANGED <<lifeVars, acks, conn, gaps>> /\ responses' \subseteq responses
      /\ stamp' = [stamp EXCEPT ![s0] = None] /\ pc' = "exits" /\ Driving
  BY DEF HoldAmbiguous, DeferNoQuote, HoldMppExhausted, Hold, PopStamp, Acking, Driving,
         lifeVars, exchangeVars, stateVars, seqVars
<1>2. s0 \in Symbols
  BY <1>1 DEF Driving, TypeOK, LoopTypeOK, Jobs, Positions
<1>3. /\ InFlight' = InFlight
      /\ \A s : Bare(s)' = Bare(s) /\ NoExit(s)' = NoExit(s)
      /\ \A s : StopGone(s)' = StopGone(s) /\ Name(s)' = Name(s)
      /\ Life' /\ (SnapshotFirst /\ SnapshotEmpty /\ Once)'
  BY <1>1, LifeKept DEF Steady
<1>4. UNCHANGED <<book, mirror, exitSeq, entrySeq>>
  BY <1>1 DEF lifeVars
<1>5. NoExit(s0)
  <2>1. CASE HoldAmbiguous \/ DeferNoQuote
    BY <2>1 DEF HoldAmbiguous, DeferNoQuote, Acking, Steady, Exits, BeforeClose
  <2>2. CASE HoldMppExhausted
    <3>1. pc = "probe" /\ RefusalKnown
      BY <2>2 DEF HoldMppExhausted, Rejected, Answer, RefusalKnown, Refusal, CurrentClose
    <3>2. Bare(s0)
      BY <3>1 DEF Steady, Exits, ProbedRefusal
    <3>. QED BY <3>2 DEF Bare, NoExit
  <2>. QED BY <2>1, <2>2
<1>6. Stamps'
  BY <1>1, <1>2, <1>3, <1>4, <1>5 DEF Steady, Exits, Stamps, IsOpen, TypeOK, ExitTypeOK
<1>7. Acks' /\ StopCancels' /\ Answers'
  BY <1>1, <1>3, <1>4 DEF Steady, Exits, Acks, StopCancels, Answers, IsOpen
<1>8. BeforeClose' /\ ProbedOrder' /\ ProbedRefusal' /\ TheJob'
  BY <1>1 DEF BeforeClose, ProbedOrder, ProbedRefusal, TheJob, Driving
<1>. QED BY <1>1, <1>3, <1>6, <1>7, <1>8 DEF Steady, LineUp, Exits

-----------------------------------------------------------------------------
(* Kraken: an order leaves the book.                                       *)

clientVars == <<stateVars, exitVars, loopVars, seqVars>>

\* What the types say of an order of the book, and what the life of its symbol
\* says: an entry's id is a known name, a stop's is that of the open position.
LEMMA OrderFacts ==
    ASSUME TypeOK, Life, NEW o \in book
    PROVE  /\ o \in Orders /\ o.sym \in Symbols /\ o.id \in ClOrdIds /\ o.qty \in Nat
           /\ o.kind \in {"entry", "stop"} \cup ClosingKinds
           /\ o.kind = "entry" => o.id[1] = "entry" /\ o.id[3] = 0
           /\ o.kind = "stop" => /\ o.id = StopId(mirror[o.sym].id)
                                 /\ o.id[1] = "entry" /\ o.id[3] # 0
           /\ o.kind \in ClosingKinds => o.id[1] = "exit" /\ o.id[3] = 0
           /\ \A x \in (book \ {o}) \cup pendingStops : x.sym # o.sym
           /\ \A f \in InFlight : ~FillOf(f, o.sym)
<1>1. o \in Orders /\ o.sym \in Symbols /\ o.id \in ClOrdIds /\ o.qty \in Nat
      /\ o.kind \in {"entry", "stop"} \cup ClosingKinds
  BY DEF TypeOK, ExchangeTypeOK, Orders
<1>2. ASSUME o.kind = "entry" PROVE o.id[1] = "entry" /\ o.id[3] = 0
  <2>1. Name(o.sym) = o.id /\ o.id # None
    BY <1>1, <1>2, NoneAssumption DEF Life, EntryOrders, Name
  <2>. QED BY <1>1, <2>1 DEF Life, Names, Known
<1>3. ASSUME o.kind = "stop"
      PROVE  o.id = StopId(mirror[o.sym].id) /\ o.id[1] = "entry" /\ o.id[3] # 0
  <2>1. o.id = StopId(mirror[o.sym].id) /\ IsOpen(mirror, o.sym)
    BY <1>3 DEF Life, StopOrders, ExitOrders
  <2>2. mirror[o.sym].id \in ClOrdIds
    BY <1>1, <2>1 DEF TypeOK, StateTypeOK, IsOpen, Positions
  <2>3. Known(mirror[o.sym].id)
    BY <1>1, <2>1, <2>2, NoneAssumption DEF Life, Names, Name
  <2>. QED BY <2>1, <2>2, <2>3, IdParts DEF Known
<1>4. o.kind \in ClosingKinds => o.id[1] = "exit" /\ o.id[3] = 0
  BY DEF Life, ClosingOrders
<1>5. /\ \A x \in (book \ {o}) \cup pendingStops : x.sym # o.sym
      /\ \A f \in InFlight : ~FillOf(f, o.sym)
  BY DEF Life, OneOrder, OrderOrFill
<1>. QED BY <1>1, <1>2, <1>3, <1>4, <1>5

\* Two open positions have the same stop id only if they are the same.
LEMMA StopNames ==
    ASSUME TypeOK, Life, NEW s \in Symbols, NEW t \in Symbols,
           IsOpen(mirror, s), IsOpen(mirror, t),
           StopId(mirror[s].id) = StopId(mirror[t].id)
    PROVE  s = t
<1>1. mirror[s].id \in ClOrdIds /\ mirror[t].id \in ClOrdIds
  BY DEF TypeOK, StateTypeOK, IsOpen, Positions
<1>. QED BY <1>1, IdParts, NoneAssumption DEF Life, Names, Name

\* o leaves the book and the reports G of it are under way.
Leaves(o, G) ==
    /\ book' = book \ {o}
    /\ InFlight' = InFlight \cup G
    /\ SnapshotFirst' /\ Once'
    /\ UNCHANGED <<clientVars, conn>>
Ends(o, G) ==
    /\ Leaves(o, G)
    /\ UNCHANGED account
    /\ \A g \in G : \/ g = CanceledFrame(o)
                    \/ o.kind \in ClosingKinds /\ \E r \in BOOLEAN : g = ResponseFrame(o, r)
Executes(o, q, G) ==
    /\ Leaves(o, G)
    /\ o.kind # "entry" => q = o.qty
    /\ account' = [account EXCEPT ![o.sym] = @ + Signed(o.side, q)]
    /\ FillFrame(o, q) \in G
    /\ \A g \in G : \/ g = FillFrame(o, q)
                    \/ o.kind \in ClosingKinds /\ g = ResponseFrame(o, FALSE)

\* An order ends without a fill: a kill, a cancel, a refusal.
LEMMA OrderEnds ==
    ASSUME TypeOK, Steady, NEW o \in book, NEW G, Ends(o, G)
    PROVE  Steady'
<1> USE DEF Ends, Leaves
<1>1. Life /\ Exits
  BY DEF Steady
<1>2. UNCHANGED <<mirror, pendingEntry, pendingStops, acks, responses, stamp, pc, job, gaps,
                  entrySeq, exitSeq>>
  BY DEF clientVars, stateVars, exitVars, loopVars, seqVars
<1>3. /\ o.sym \in Symbols /\ o.id \in ClOrdIds
      /\ o.kind = "stop" => o.id = StopId(mirror[o.sym].id) /\ IsOpen(mirror, o.sym)
      /\ o.kind \in {"entry", "stop"} \cup ClosingKinds
      /\ o.kind # "stop" => o.id[3] = 0
      /\ \A x \in (book \ {o}) \cup pendingStops : x.sym # o.sym
      /\ \A f \in InFlight : ~FillOf(f, o.sym)
  BY <1>1, OrderFacts DEF Life, ExitOrders
<1>4. \A g \in G : /\ g.t \in {"canceled", "response"} /\ g.sym = o.sym /\ g.id = o.id
                   /\ g.t = "response" => o.kind \in ClosingKinds
  BY DEF CanceledFrame, ResponseFrame
<1>5. /\ \A s : Bare(s) => Bare(s)'
      /\ \A s : NoExit(s) => NoExit(s)'
      /\ \A s : StopGone(s) => StopGone(s)'
      /\ Bare(o.sym)'
  BY <1>2, <1>3, <1>4 DEF Bare, NoExit, StopGone, FillOf
<1>6. \A s : Name(s)' = Name(s) /\ IsOpen(mirror, s)' = IsOpen(mirror, s)
  BY <1>2 DEF Name, IsOpen
<1>7. LineUp' /\ SnapshotEmpty'
  BY <1>2, <1>4, <1>6 DEF Steady, LineUp, SnapshotEmpty
<1>8. Life'
  <2>1. OneOrder' /\ OrderOrFill'
    BY <1>1, <1>2, <1>4 DEF Life, OneOrder, OrderOrFill, FillOf
  <2>2. EntryOrders'
    BY <1>1, <1>2, <1>3, <1>4, <1>6 DEF Life, EntryOrders, About
  <2>3. StopOrders' /\ ClosingOrders' /\ ExitOrders'
    BY <1>1, <1>2, <1>6 DEF Life, StopOrders, ClosingOrders, ExitOrders
  <2>4. FillFrames'
    BY <1>1, <1>2, <1>4, <1>6 DEF Life, FillFrames
  <2>5. Accounts'
    BY <1>1, <1>2, <1>4, <1>6 DEF Life, Accounts
  <2>6. Mirrors' /\ Names'
    BY <1>1, <1>2, <1>6 DEF Life, Mirrors, Names, Known
  <2>. QED BY <2>1, <2>2, <2>3, <2>4, <2>5, <2>6 DEF Life
<1>9. Acks'
  BY <1>1, <1>2, <1>5, <1>6 DEF Exits, Acks
<1>10. StopCancels'
  <2>1. ASSUME o.kind = "stop" PROVE o.id \notin acks
    <3>1. SUFFICES ASSUME o.id \in acks PROVE FALSE
      OBVIOUS
    <3>2. o.id[3] # 0
      BY <1>1, <2>1, OrderFacts
    <3>3. PICK s \in Symbols : IsOpen(mirror, s) /\ o.id = StopId(mirror[s].id) /\ StopGone(s)
      BY <1>1, <3>1, <3>2 DEF Exits, Acks
    <3>4. s = o.sym
      BY <1>1, <1>3, <2>1, <3>3, StopNames
    <3>. QED BY <2>1, <3>3, <3>4 DEF StopGone
  <2>. QED BY <1>1, <1>2, <1>3, <1>4, <1>5, <1>6, <2>1 DEF Exits, StopCancels
<1>11. Stamps'
  BY <1>1, <1>2, <1>5, <1>6 DEF Exits, Stamps
<1>12. Answers'
  BY <1>1, <1>2, <1>4 DEF Exits, Answers, Life, ClosingOrders
<1>13. BeforeClose' /\ ProbedOrder'
  BY <1>1, <1>2, <1>5 DEF Exits, BeforeClose, ProbedOrder, CurrentClose
<1>14. ProbedRefusal'
  <2>1. SUFFICES ASSUME pc = "probe", RefusalKnown'
                 PROVE  mirror[job.pos.sym] = job.pos /\ Bare(job.pos.sym)'
    BY <1>2 DEF ProbedRefusal
  <2>2. CASE RefusalKnown
    BY <1>1, <1>2, <1>5, <2>1, <2>2 DEF Exits, ProbedRefusal
  <2>3. CASE ~RefusalKnown
    <3>1. o.id = CurrentClose
      BY <1>2, <1>4, <2>1, <2>3 DEF RefusalKnown, Refusal, CurrentClose
    <3>. QED BY <1>1, <1>2, <1>5, <2>1, <3>1 DEF Exits, ProbedOrder
  <2>. QED BY <2>2, <2>3
<1>15. TheJob'
  BY <1>1, <1>2, <1>6 DEF Exits, TheJob, Driving, Known
<1>. QED BY <1>7, <1>8, <1>9, <1>10, <1>11, <1>12, <1>13, <1>14, <1>15 DEF Steady, Exits

\* An order fills: its symbol's life moves on to the report of the fill.
LEMMA OrderFills ==
    ASSUME TypeOK, Steady, NEW o \in book, NEW q \in Nat, NEW G, Executes(o, q, G)
    PROVE  Steady'
<1> USE DEF Executes, Leaves
<1>1. Life /\ Exits
  BY DEF Steady
<1>2. UNCHANGED <<mirror, pendingEntry, pendingStops, acks, responses, stamp, pc, job, gaps,
                  entrySeq, exitSeq>>
  BY DEF clientVars, stateVars, exitVars, loopVars, seqVars
<1>3. /\ o.sym \in Symbols /\ o.id \in ClOrdIds
      /\ o.kind \in {"entry", "stop"} \cup ClosingKinds
      /\ o.kind \in ClosingKinds <=> o.id[1] = "exit"
      /\ \A x \in (book \ {o}) \cup pendingStops : x.sym # o.sym
      /\ \A f \in InFlight : ~FillOf(f, o.sym)
  BY <1>1, OrderFacts DEF ClosingKinds
<1>4. /\ \A g \in G : g.t \in {"fill", "response"} /\ g.sym = o.sym /\ g.id = o.id
      /\ \A g \in G : g.t = "response" => o.kind \in ClosingKinds /\ ~g.rejected
      /\ \A g \in G : g.t = "fill" => g.side = o.side /\ g.qty = q
      /\ \E g \in G : FillOf(g, o.sym)
  BY DEF FillFrame, ResponseFrame, FillOf
<1>5. o.kind = "entry" <=> o.side = "long"
  BY <1>1, <1>3 DEF Life, EntryOrders, ExitOrders
<1>6. /\ \A s : Bare(s) => Bare(s)'
      /\ \A s : NoExit(s) => NoExit(s)'
      /\ \A s : StopGone(s) => StopGone(s)'
  BY <1>2, <1>3, <1>4, <1>5 DEF Bare, NoExit, StopGone, FillOf, ClosingKinds
<1>7. \A s : Name(s)' = Name(s) /\ IsOpen(mirror, s)' = IsOpen(mirror, s)
  BY <1>2 DEF Name, IsOpen
<1>8. LineUp' /\ SnapshotEmpty'
  BY <1>2, <1>4, <1>7 DEF Steady, LineUp, SnapshotEmpty
<1>9. /\ \A s \in Symbols : s # o.sym => account'[s] = account[s]
      /\ account'[o.sym] = account[o.sym] + Signed(o.side, q)
      /\ account[o.sym] = IF IsOpen(mirror, o.sym) THEN mirror[o.sym].qty ELSE 0
  BY <1>1, <1>3 DEF Life, Accounts, TypeOK, ExchangeTypeOK
<1>10. Life'
  <2>1. OneOrder' /\ OrderOrFill'
    BY <1>1, <1>2, <1>3, <1>4 DEF Life, OneOrder, OrderOrFill, FillOf
  <2>2. EntryOrders'
    BY <1>1, <1>2, <1>3, <1>4, <1>7 DEF Life, EntryOrders, About
  <2>3. StopOrders' /\ ClosingOrders' /\ ExitOrders'
    BY <1>1, <1>2, <1>7 DEF Life, StopOrders, ClosingOrders, ExitOrders
  <2>4. FillFrames'
    <3>1. ASSUME NEW f \in InFlight, f.t = "fill"
          PROVE  f.sym # o.sym /\ f.sym \in Symbols
      BY <1>3, <3>1, FlightType, FrameKinds DEF FillOf
    <3>2. \A f \in InFlight : f.t = "fill" => account'[f.sym] = account[f.sym]
      BY <1>9, <3>1
    <3>3. CASE o.kind = "entry"
      <4>1. /\ ~IsOpen(mirror, o.sym) /\ pendingEntry[o.sym] = o.id /\ o.id[1] = "entry"
            /\ account'[o.sym] = q
        BY <1>1, <1>5, <1>9, <3>3, OrderFacts DEF Life, EntryOrders, Signed
      <4>. QED BY <1>1, <1>2, <1>4, <1>5, <1>7, <3>2, <3>3, <4>1 DEF Life, FillFrames
    <3>4. CASE o.kind # "entry"
      <4>1. IsOpen(mirror, o.sym) /\ mirror[o.sym].qty = q
        BY <1>1, <3>4 DEF Life, ExitOrders
      <4>2. account'[o.sym] = 0
        BY <1>5, <1>9, <3>4, <4>1 DEF Signed
      <4>. QED BY <1>1, <1>2, <1>4, <1>5, <1>7, <3>2, <3>4, <4>1, <4>2 DEF Life, FillFrames
    <3>. QED BY <3>3, <3>4
  <2>5. Accounts'
    BY <1>1, <1>2, <1>4, <1>7, <1>9 DEF Life, Accounts
  <2>6. Mirrors' /\ Names'
    BY <1>1, <1>2, <1>7 DEF Life, Mirrors, Names, Known
  <2>. QED BY <2>1, <2>2, <2>3, <2>4, <2>5, <2>6 DEF Life
<1>11. Acks' /\ StopCancels'
  BY <1>1, <1>2, <1>4, <1>6, <1>7 DEF Exits, Acks, StopCancels
<1>12. Stamps'
  BY <1>1, <1>2, <1>6, <1>7 DEF Exits, Stamps
<1>13. Answers'
  BY <1>1, <1>2, <1>4 DEF Exits, Answers, Life, ClosingOrders
<1>14. BeforeClose' /\ ProbedOrder'
  BY <1>1, <1>2, <1>6 DEF Exits, BeforeClose, ProbedOrder, CurrentClose
<1>15. ProbedRefusal'
  <2>1. RefusalKnown' => RefusalKnown
    BY <1>2, <1>4 DEF RefusalKnown, Refusal, CurrentClose
  <2>. QED BY <1>1, <1>2, <1>6, <2>1 DEF Exits, ProbedRefusal
<1>16. TheJob'
  BY <1>1, <1>2, <1>7 DEF Exits, TheJob, Driving, Known
<1>. QED BY <1>8, <1>10, <1>11, <1>12, <1>13, <1>14, <1>15, <1>16 DEF Steady, Exits

\* What an order of the book gives rise to clashes with nothing under way.
LEMMA NothingClashes ==
    ASSUME TypeOK, Steady, NEW o \in book, NEW f \in InFlight
    PROVE  /\ ~Clash(f, CanceledFrame(o))
           /\ ~Clash(f, ResponseFrame(o, TRUE)) /\ ~Clash(f, ResponseFrame(o, FALSE))
           /\ \A q \in Nat : ~Clash(f, FillFrame(o, q))
<1>1. Life /\ Exits
  BY DEF Steady
<1>2. ~FillOf(f, o.sym) /\ (o.kind # "stop" => o.id[3] = 0)
  BY <1>1, OrderFacts
<1>3. o.side = "long" => o.kind = "entry" /\ ~About(f, o.sym)
  BY <1>1 DEF Life, EntryOrders, ExitOrders
<1>4. ~(f.t = "canceled" /\ f.id[3] # 0 /\ f.sym = o.sym)
  BY <1>1 DEF Exits, StopCancels, Bare
<1>. QED BY <1>2, <1>3, <1>4
     DEF Clash, FillOf, About, CanceledFrame, ResponseFrame, FillFrame

\* Nor does the answer to a closing order with the report that follows it.
LEMMA AnswersDoNotClash ==
    ASSUME TypeOK, Steady, NEW o \in book
    PROVE  /\ ~Clash(ResponseFrame(o, FALSE), CanceledFrame(o))
           /\ \A q \in Nat :
                o.kind # "entry" => ~Clash(ResponseFrame(o, FALSE), FillFrame(o, q))
<1>1. o.kind # "entry" => o.side # "long"
  BY DEF Steady, Life, ExitOrders
<1>. QED BY <1>1 DEF Clash, CanceledFrame, ResponseFrame, FillFrame

\* A stop comes to rest.
LEMMA StopRests ==
    ASSUME TypeOK, Steady, AcceptStop, UNCHANGED clientVars
    PROVE  Steady'
<1>1. Life /\ Exits
  BY DEF Steady
<1>2. PICK o \in book : /\ o.kind = "stop"
                        /\ book' = (book \ {o}) \cup {[o EXCEPT !.st = "resting"]}
                        /\ UNCHANGED <<cancels, account, frames, conn, drops>>
  BY DEF AcceptStop
<1> DEFINE r == [o EXCEPT !.st = "resting"]
<1>3. UNCHANGED <<mirror, pendingEntry, pendingStops, acks, responses, stamp, pc, job, gaps,
                  entrySeq, exitSeq, account, frames, conn>>
  BY <1>2 DEF clientVars, stateVars, exitVars, loopVars, seqVars
<1>4. /\ r.kind = "stop" /\ r.id = o.id /\ r.pos = o.pos /\ r.sym = o.sym
      /\ r.side = o.side /\ r.qty = o.qty
  BY <1>2 DEF TypeOK, ExchangeTypeOK, Orders
<1> HIDE DEF r
<1>5. InFlight' = InFlight
  BY <1>3 DEF InFlight
<1>6. book' = (book \ {o}) \cup {r}
  BY <1>2 DEF r
<1>7. /\ \A s : Bare(s)' = Bare(s) /\ NoExit(s)' = NoExit(s)
      /\ \A s : StopGone(s)' = StopGone(s)
  BY <1>2, <1>3, <1>4, <1>5, <1>6 DEF Bare, NoExit, StopGone, ClosingKinds
<1>8. \A s : Name(s)' = Name(s) /\ IsOpen(mirror, s)' = IsOpen(mirror, s)
  BY <1>3 DEF Name, IsOpen
<1>9. LineUp' /\ SnapshotFirst' /\ SnapshotEmpty' /\ Once'
  BY <1>3, <1>5, <1>8 DEF Steady, LineUp, SnapshotFirst, SnapshotEmpty, Once
<1>10. Life'
  <2>1. OneOrder' /\ OrderOrFill'
    BY <1>1, <1>3, <1>4, <1>5, <1>6 DEF Life, OneOrder, OrderOrFill
  <2>2. EntryOrders' /\ StopOrders' /\ ClosingOrders'
    BY <1>1, <1>2, <1>3, <1>4, <1>5, <1>6, <1>8
    DEF Life, EntryOrders, StopOrders, ClosingOrders, ClosingKinds
  <2>3. ExitOrders'
    BY <1>1, <1>2, <1>3, <1>4, <1>6, <1>8 DEF Life, ExitOrders
  <2>4. FillFrames' /\ Accounts' /\ Mirrors' /\ Names'
    BY <1>1, <1>3, <1>5, <1>8 DEF Life, FillFrames, Accounts, Mirrors, Names, Known
  <2>. QED BY <2>1, <2>2, <2>3, <2>4 DEF Life
<1>11. Acks' /\ StopCancels' /\ Stamps' /\ Answers'
  BY <1>1, <1>3, <1>5, <1>7, <1>8 DEF Exits, Acks, StopCancels, Stamps, Answers
<1>12. BeforeClose' /\ TheJob'
  BY <1>1, <1>3, <1>7, <1>8 DEF Exits, BeforeClose, TheJob, Driving, Known
<1>13. ProbedOrder'
  <2>1. r.id # CurrentClose
    BY <1>1, <1>2, <1>4, OrderFacts DEF CurrentClose
  <2>. QED BY <1>1, <1>3, <1>6, <2>1 DEF Exits, ProbedOrder, CurrentClose
<1>14. ProbedRefusal'
  BY <1>1, <1>3, <1>5, <1>7 DEF Exits, ProbedRefusal, RefusalKnown, Refusal, CurrentClose
<1>. QED BY <1>9, <1>10, <1>11, <1>12, <1>13, <1>14 DEF Steady, Exits

\* What Kraken does on a steady line: an order ends, or executes, or a stop comes
\* to rest, or a cancel finds nothing.  A stop ends when its cancel is processed,
\* confirmed, or by one of the two faults.
StopEnds(o, G) ==
    o.kind = "stop" =>
        \/ "stopreject" \in Faults
        \/ CanceledFrame(o) \in G /\ (o.id \in cancels \/ "cancel" \in Faults)
Executed(o) == \E q \in Nat : \E G : Executes(o, q, G)
Ended(o) == \E G : Ends(o, G) /\ StopEnds(o, G)
KrakenMoves ==
    \/ \E o \in book : Ended(o) \/ Executed(o)
    \/ AcceptStop
    \/ UNCHANGED <<book, account, frames>>

LEMMA KrakenKinds ==
    ASSUME SteadyLine, TypeOK, Steady, Kraken
    PROVE  KrakenMoves /\ cancels' \subseteq cancels /\ UNCHANGED <<clientVars, conn>>
<1>1. Life /\ LineUp /\ SnapshotFirst /\ Once /\ ExchangeNext /\ UNCHANGED clientVars
  BY DEF Steady, Kraken, clientVars
<1>2. ASSUME NEW o \in book
      PROVE  /\ o \in Orders
             /\ CanceledFrame(o) \in Frames /\ CanceledFrame(o).t = "canceled"
             /\ ResponseFrame(o, TRUE) \in Frames /\ ResponseFrame(o, TRUE).t = "response"
             /\ ResponseFrame(o, FALSE) \in Frames /\ ResponseFrame(o, FALSE).t = "response"
             /\ \A q \in Nat : FillFrame(o, q) \in Frames /\ FillFrame(o, q).t = "fill"
  <2>1. o \in Orders
    BY DEF TypeOK, ExchangeTypeOK
  <2>. QED BY <2>1, FrameTypes DEF CanceledFrame, ResponseFrame, FillFrame
<1>3. ASSUME NEW f \in Frames, NEW g \in Frames PROVE <<f>> \o <<g>> = <<f, g>>
  <2>1. /\ <<f>> \in Seq(Frames) /\ <<g>> \in Seq(Frames) /\ <<f, g>> \in Seq(Frames)
        /\ Len(<<f>>) = 1 /\ Len(<<g>>) = 1 /\ Len(<<f, g>>) = 2
    OBVIOUS
  <2>2. /\ <<f>> \o <<g>> \in Seq(Frames) /\ Len(<<f>> \o <<g>>) = 2
        /\ (<<f>> \o <<g>>)[1] = f /\ (<<f>> \o <<g>>)[2] = g
    BY <2>1, ConcatProperties
  <2>3. \A i \in 1 .. 2 : (<<f>> \o <<g>>)[i] = <<f, g>>[i]
    BY <2>2
  <2>. QED BY <2>1, <2>2, <2>3, SeqEqual
<1>4. ASSUME NEW o \in book, book' = book \ {o}, UNCHANGED <<account, conn>>,
             \/ UNCHANGED frames
             \/ Report(<<CanceledFrame(o)>>)
             \/ o.kind \in ClosingKinds /\ Report(<<ResponseFrame(o, TRUE)>>)
             \/ o.kind \in ClosingKinds /\ Report(<<ResponseFrame(o, FALSE), CanceledFrame(o)>>),
             o.kind = "stop" =>
                 \/ "stopreject" \in Faults
                 \/ Report(<<CanceledFrame(o)>>) /\ (o.id \in cancels \/ "cancel" \in Faults)
      PROVE  Ended(o)
  <2> DEFINE c == CanceledFrame(o)
             y == ResponseFrame(o, FALSE)
             z == ResponseFrame(o, TRUE)
  <2>1. /\ c \in Frames /\ y \in Frames /\ z \in Frames
        /\ c.t # "snapshot" /\ y.t # "snapshot" /\ z.t # "snapshot"
        /\ \A f \in InFlight : ~Clash(f, c) /\ ~Clash(f, y) /\ ~Clash(f, z)
        /\ ~Clash(y, c)
    BY <1>2, NothingClashes, AnswersDoNotClash
  <2>2. CASE UNCHANGED frames /\ (o.kind = "stop" => "stopreject" \in Faults)
    <3>1. InFlight' = InFlight \cup {} /\ SnapshotFirst' /\ Once'
      BY <1>1, <2>2 DEF InFlight, SnapshotFirst, Once
    <3>2. Ends(o, {})
      BY <1>1, <1>4, <3>1 DEF Ends, Leaves
    <3>. QED BY <1>4, <2>2, <3>2 DEF Ended, StopEnds
  <2>3. CASE Report(<<c>>)
    <3> HIDE DEF c, y, z
    <3>1. InFlight' = InFlight \cup {c} /\ SnapshotFirst' /\ Once'
      BY <1>1, <2>1, <2>3, OneReported
    <3>2. Ends(o, {c})
      BY <1>1, <1>4, <3>1 DEF Ends, Leaves, c
    <3>. QED BY <1>4, <3>2 DEF Ended, StopEnds, c
  <2>4. CASE o.kind \in ClosingKinds /\ Report(<<z>>)
    <3> HIDE DEF c, y, z
    <3>1. InFlight' = InFlight \cup {z} /\ SnapshotFirst' /\ Once'
      BY <1>1, <2>1, <2>4, OneReported
    <3>2. Ends(o, {z})
      BY <1>1, <1>4, <2>4, <3>1 DEF Ends, Leaves, z
    <3>. QED BY <2>4, <3>2 DEF Ended, StopEnds, ClosingKinds
  <2>5. CASE o.kind \in ClosingKinds /\ Report(<<y, c>>)
    <3> HIDE DEF c, y, z
    <3>1. InFlight' = InFlight \cup {y, c} /\ SnapshotFirst' /\ Once'
      BY <1>1, <2>1, <2>5, TwoReported
    <3>2. Ends(o, {y, c})
      BY <1>1, <1>4, <2>5, <3>1 DEF Ends, Leaves, y, c
    <3>. QED BY <2>5, <3>2 DEF Ended, StopEnds, ClosingKinds
  <2>. QED BY <1>4, <2>2, <2>3, <2>4, <2>5
<1>5. ASSUME NEW o \in book, NEW q \in Nat, o.kind # "entry" => q = o.qty,
             book' = book \ {o}, UNCHANGED conn,
             account' = [account EXCEPT ![o.sym] = @ + Signed(o.side, q)],
             \/ Report(<<FillFrame(o, q)>>)
             \/ o.kind \in ClosingKinds /\ Report(<<ResponseFrame(o, FALSE), FillFrame(o, q)>>)
      PROVE  Executed(o)
  <2> DEFINE g == FillFrame(o, q)
             y == ResponseFrame(o, FALSE)
  <2>1. /\ g \in Frames /\ y \in Frames /\ g.t # "snapshot" /\ y.t # "snapshot"
        /\ \A f \in InFlight : ~Clash(f, g) /\ ~Clash(f, y)
        /\ o.kind # "entry" => ~Clash(y, g)
    BY <1>2, NothingClashes, AnswersDoNotClash
  <2>2. CASE Report(<<g>>)
    <3> HIDE DEF g, y
    <3>1. InFlight' = InFlight \cup {g} /\ SnapshotFirst' /\ Once'
      BY <1>1, <2>1, <2>2, OneReported
    <3>2. Executes(o, q, {g})
      BY <1>1, <1>5, <3>1 DEF Executes, Leaves, g
    <3>. QED BY <3>2 DEF Executed
  <2>3. CASE o.kind \in ClosingKinds /\ Report(<<y, g>>)
    <3> HIDE DEF g, y
    <3>1. ~Clash(y, g)
      BY <2>1, <2>3 DEF ClosingKinds
    <3>2. InFlight' = InFlight \cup {y, g} /\ SnapshotFirst' /\ Once'
      BY <1>1, <2>1, <2>3, <3>1, TwoReported
    <3>3. Executes(o, q, {y, g})
      BY <1>1, <1>5, <2>3, <3>2 DEF Executes, Leaves, y, g
    <3>. QED BY <3>3 DEF Executed
  <2>. QED BY <1>5, <2>2, <2>3
<1>6. ASSUME FillEntry PROVE KrakenMoves
  <2>1. PICK o \in book, plan \in EntryFills :
            /\ o.kind = "entry"
            /\ book' = book \ {o}
            /\ account' = [account EXCEPT ![o.sym] = @ + Signed(o.side, plan[Len(plan)])]
            /\ Report([i \in DOMAIN plan |-> FillFrame(o, plan[i])])
            /\ UNCHANGED conn
    BY <1>6 DEF FillEntry
  <2>2. Len(plan) = 1 /\ plan \in Seq(Nat \ {0})
    BY BoundsAssumption DEF SteadyLine
  <2>3. plan[1] \in Nat /\ DOMAIN plan = 1 .. 1
    BY <2>2, LenProperties, ElementOfSeq
  <2>4. [i \in DOMAIN plan |-> FillFrame(o, plan[i])] = <<FillFrame(o, plan[1])>>
    BY <2>3
  <2>. QED BY <1>5, <2>1, <2>2, <2>3, <2>4 DEF KrakenMoves
<1>7. ASSUME TriggerStop PROVE KrakenMoves
  <2>1. PICK o \in book, n \in CloseReports :
            /\ o.kind = "stop"
            /\ book' = book \ {o}
            /\ account' = [account EXCEPT ![o.sym] = @ + Signed(o.side, o.qty)]
            /\ Report(Repeat(FillFrame(o, o.qty), n))
            /\ UNCHANGED conn
    BY <1>7 DEF TriggerStop
  <2>2. o.qty \in Nat
    BY <1>2 DEF Orders
  <2>3. Report(<<FillFrame(o, o.qty)>>)
    BY <2>1, RepeatOnce
  <2>. QED BY <1>5, <2>1, <2>2, <2>3 DEF KrakenMoves
<1>8. ASSUME FillClose PROVE KrakenMoves
  <2>1. PICK o \in book, n \in CloseReports :
            /\ o.kind \in ClosingKinds
            /\ book' = book \ {o}
            /\ account' = [account EXCEPT ![o.sym] = @ + Signed(o.side, o.qty)]
            /\ Report(<<ResponseFrame(o, FALSE)>> \o Repeat(FillFrame(o, o.qty), n))
            /\ UNCHANGED conn
    BY <1>8 DEF FillClose
  <2>2. o.qty \in Nat
    BY <1>2 DEF Orders
  <2>3. <<ResponseFrame(o, FALSE)>> \o <<FillFrame(o, o.qty)>>
            = <<ResponseFrame(o, FALSE), FillFrame(o, o.qty)>>
    BY <1>3, <1>2, <2>2
  <2>4. Report(<<ResponseFrame(o, FALSE), FillFrame(o, o.qty)>>)
    BY <2>1, <2>3, RepeatOnce
  <2>. QED BY <1>5, <2>1, <2>2, <2>4 DEF KrakenMoves, ClosingKinds
<1>9. ASSUME KillIoc PROVE KrakenMoves
  BY <1>4, <1>9 DEF KillIoc, ClosingKinds, KrakenMoves
<1>10. ASSUME RejectStop PROVE KrakenMoves
  BY <1>4, <1>10 DEF RejectStop, KrakenMoves
<1>11. ASSUME ProcessCancel PROVE KrakenMoves
  <2>1. PICK c \in cancels :
            LET hit == {o \in book : o.id = c /\ o.st = "resting"}
            IN  /\ book' = book \ hit
                /\ \/ hit = {} /\ UNCHANGED frames
                   \/ \E o \in hit : Report(<<CanceledFrame(o)>>)
                /\ UNCHANGED <<account, conn>>
    BY <1>11 DEF ProcessCancel
  <2> DEFINE hit == {o \in book : o.id = c /\ o.st = "resting"}
  <2>2. CASE hit = {} /\ UNCHANGED frames
    <3>1. book' = book
      BY <2>1, <2>2
    <3>. QED BY <2>1, <2>2, <3>1 DEF KrakenMoves
  <2>3. CASE \E o \in hit : Report(<<CanceledFrame(o)>>)
    <3>1. PICK o \in hit : Report(<<CanceledFrame(o)>>)
      BY <2>3
    <3>2. ASSUME NEW x \in hit PROVE x = o
      <4>1. /\ x \in book /\ o \in book /\ x.id = o.id
            /\ x.kind = "stop" /\ o.kind = "stop"
        BY <1>1, OrderFacts DEF Life, EntryOrders, ClosingOrders
      <4>2. /\ x.id = StopId(mirror[x.sym].id) /\ o.id = StopId(mirror[o.sym].id)
            /\ IsOpen(mirror, x.sym) /\ IsOpen(mirror, o.sym)
            /\ x.sym \in Symbols /\ o.sym \in Symbols
        BY <1>1, <4>1, OrderFacts DEF Life, ExitOrders
      <4>3. x.sym = o.sym
        BY <1>1, <4>1, <4>2, StopNames
      <4>. QED BY <1>1, <4>1, <4>3 DEF Life, OneOrder
    <3>3. o \in book /\ book' = book \ {o} /\ o.id \in cancels
      BY <2>1, <3>2
    <3>. QED BY <1>4, <2>1, <3>1, <3>3 DEF KrakenMoves
  <2>. QED BY <2>1, <2>2, <2>3
<1>12. ASSUME KrakenCancelsStop PROVE KrakenMoves
  BY <1>4, <1>12 DEF KrakenCancelsStop, KrakenMoves
<1>13. ASSUME RejectClose PROVE KrakenMoves
  BY <1>4, <1>13 DEF RejectClose, KrakenMoves, ClosingKinds
<1>14. ~Drop
  BY DEF Drop, SteadyLine, TypeOK, ExchangeTypeOK
<1>15. cancels' \subseteq cancels
  BY <1>1, <1>14 DEF ExchangeNext, FillEntry, KillIoc, AcceptStop, RejectStop, TriggerStop,
                    ProcessCancel, KrakenCancelsStop, FillClose, RejectClose
<1>16. UNCHANGED conn
  BY <1>1, <1>14 DEF ExchangeNext, FillEntry, KillIoc, AcceptStop, RejectStop, TriggerStop,
                    ProcessCancel, KrakenCancelsStop, FillClose, RejectClose
<1>. QED BY <1>1, <1>6, <1>7, <1>8, <1>9, <1>10, <1>11, <1>12, <1>13, <1>14, <1>15, <1>16
         DEF ExchangeNext, KrakenMoves

\* Whatever Kraken does.
LEMMA KrakenSteady ==
    ASSUME SteadyLine, TypeOK, Steady, Kraken
    PROVE  Steady'
<1>1. KrakenMoves /\ UNCHANGED <<clientVars, conn>>
  BY KrakenKinds
<1>2. ASSUME NEW o \in book, Ended(o) \/ Executed(o) PROVE Steady'
  BY <1>2, OrderEnds, OrderFills DEF Ended, Executed
<1>3. CASE AcceptStop
  BY <1>1, <1>3, StopRests
<1>4. CASE UNCHANGED <<book, account, frames>>
  <2>1. UNCHANGED <<lifeVars, acks, stamp, responses, pc, job, gaps, conn>>
    BY <1>1, <1>4 DEF lifeVars, clientVars, stateVars, exitVars, loopVars, seqVars
  <2>. QED BY <2>1, LifeKept, ExitsKept DEF Steady, LineUp
<1>. QED BY <1>1, <1>2, <1>3, <1>4 DEF KrakenMoves

-----------------------------------------------------------------------------
(* The private loop reads a frame.                                         *)

\* What every reading shares: one frame fewer under way, the same orders and the
\* same account, and the loop goes on with its exit or is not driving one.
LEMMA Reading ==
    ASSUME TypeOK, Steady, TakeFrame
    PROVE  /\ Head(frames) \in Frames /\ Head(frames) \in InFlight
           /\ InFlight = InFlight' \cup {Head(frames)}
           /\ \A f \in InFlight' : f.t # "snapshot" /\ ~Clash(Head(frames), f)
           /\ LineUp' /\ SnapshotFirst' /\ SnapshotEmpty' /\ Once'
           /\ UNCHANGED <<book, account, job, entrySeq, exitSeq>>
           /\ pc' = pc \/ ~Driving'
<1>1. LineUp' /\ (pc' = pc \/ ~Driving')
  BY DEF Steady, LineUp, TakeFrame, Driving
<1>2. UNCHANGED <<book, account, job, entrySeq, exitSeq>>
  BY DEF TakeFrame
<1>. QED BY <1>1, <1>2, FrameTaken DEF Steady, SnapshotEmpty

\* A frame that is not a fill moves no symbol's life.
LEMMA OtherRead ==
    ASSUME TypeOK, Steady, TakeFrame, Head(frames).t # "fill",
           UNCHANGED <<mirror, pendingEntry, pendingStops, stamp>>, acks \subseteq acks'
    PROVE  /\ \A s : Bare(s) => Bare(s)'
           /\ \A s : StopGone(s) => StopGone(s)'
           /\ \A s : IsOpen(mirror, s)' = IsOpen(mirror, s)
           /\ Life' /\ Stamps' /\ BeforeClose' /\ ProbedOrder' /\ TheJob'
<1>1. Life /\ Exits
  BY DEF Steady
<1>2. /\ InFlight = InFlight' \cup {Head(frames)}
      /\ UNCHANGED <<book, account, job, entrySeq, exitSeq>>
      /\ pc' = pc \/ ~Driving'
  BY Reading
<1>3. /\ \A s : Bare(s) => Bare(s)'
      /\ \A s : NoExit(s) => NoExit(s)'
      /\ \A s : StopGone(s) => StopGone(s)'
  BY <1>2 DEF Bare, NoExit, StopGone
<1>4. \A s : Name(s)' = Name(s) /\ IsOpen(mirror, s)' = IsOpen(mirror, s)
  BY DEF Name, IsOpen
<1>5. Life'
  <2>1. OneOrder' /\ OrderOrFill' /\ EntryOrders'
    BY <1>1, <1>2, <1>4 DEF Life, OneOrder, OrderOrFill, EntryOrders
  <2>2. StopOrders' /\ ClosingOrders' /\ ExitOrders'
    BY <1>1, <1>2, <1>4 DEF Life, StopOrders, ClosingOrders, ExitOrders
  <2>3. FillFrames'
    BY <1>1, <1>2, <1>4 DEF Life, FillFrames
  <2>4. Accounts'
    BY <1>1, <1>2, <1>4 DEF Life, Accounts, FillOf
  <2>5. Mirrors' /\ Names'
    BY <1>1, <1>2, <1>4 DEF Life, Mirrors, Names, Known
  <2>. QED BY <2>1, <2>2, <2>3, <2>4, <2>5 DEF Life
<1>6. Stamps'
  BY <1>1, <1>3, <1>4 DEF Exits, Stamps
<1>7. BeforeClose' /\ ProbedOrder'
  BY <1>1, <1>2, <1>3 DEF Exits, BeforeClose, ProbedOrder, CurrentClose, Driving
<1>8. TheJob'
  BY <1>1, <1>2, <1>4 DEF Exits, TheJob, Driving, Known
<1>. QED BY <1>3, <1>4, <1>5, <1>6, <1>7, <1>8

\* The confirmation of a cancel is read: the stop it confirms is gone.
LEMMA CanceledRead ==
    ASSUME TypeOK, Steady, ReadCanceled
    PROVE  Steady'
<1> DEFINE f == Head(frames)
<1>1. Life /\ Exits
  BY DEF Steady
<1>2. /\ TakeFrame /\ f.t = "canceled" /\ acks' = acks \cup {f.id}
      /\ UNCHANGED <<mirror, pendingEntry, pendingStops, stamp, responses>>
  BY DEF ReadCanceled, stateVars
<1>3. /\ f \in Frames /\ f \in InFlight /\ InFlight = InFlight' \cup {f}
      /\ \A g \in InFlight' : g.t # "snapshot" /\ ~Clash(f, g)
      /\ LineUp' /\ SnapshotFirst' /\ SnapshotEmpty' /\ Once'
      /\ UNCHANGED <<book, job, exitSeq>> /\ (pc' = pc \/ ~Driving')
  BY <1>2, Reading
<1>4. /\ \A s : Bare(s) => Bare(s)'
      /\ \A s : StopGone(s) => StopGone(s)'
      /\ \A s : IsOpen(mirror, s)' = IsOpen(mirror, s)
      /\ Life' /\ Stamps' /\ BeforeClose' /\ ProbedOrder' /\ TheJob'
  BY <1>2, OtherRead
<1> HIDE DEF f
<1>5. \A s : Bare(s) => StopGone(s)
  BY DEF Bare, StopGone
<1>6. \A g \in Frames : g.t = "canceled" => g.sym \in Symbols /\ g.id \in ClOrdIds
  BY DEF Frames
<1>7. InFlight \subseteq Frames
  BY FlightType
<1>8. Acks'
  <2>1. ASSUME NEW a \in acks', a[3] # 0
        PROVE  \E s \in Symbols : /\ IsOpen(mirror, s)' /\ a = StopId(mirror'[s].id)
                                  /\ StopGone(s)'
    <3>1. CASE a \in acks
      BY <1>1, <1>2, <1>4, <2>1, <3>1 DEF Exits, Acks
    <3>2. CASE a = f.id
      <4>1. IsOpen(mirror, f.sym) /\ a = StopId(mirror[f.sym].id) /\ Bare(f.sym)
        BY <1>1, <1>2, <1>3, <2>1, <3>2 DEF Exits, StopCancels
      <4>. QED BY <1>2, <1>3, <1>4, <1>5, <1>6, <4>1
    <3>. QED BY <1>2, <2>1, <3>1, <3>2
  <2>. QED BY <2>1 DEF Acks
<1>9. StopCancels'
  <2>1. SUFFICES ASSUME NEW g \in InFlight', g.t = "canceled", g.id[3] # 0
                 PROVE  /\ IsOpen(mirror, g.sym)' /\ g.id = StopId(mirror'[g.sym].id)
                        /\ g.id \notin acks'
                        /\ Bare(g.sym)'
    BY DEF StopCancels
  <2>2. /\ IsOpen(mirror, g.sym) /\ g.id = StopId(mirror[g.sym].id)
        /\ g.id \notin acks /\ Bare(g.sym)
    BY <1>1, <1>3, <2>1 DEF Exits, StopCancels
  <2>3. g.id # f.id
    <3>1. SUFFICES ASSUME g.id = f.id PROVE FALSE
      OBVIOUS
    <3>2. IsOpen(mirror, f.sym) /\ f.id = StopId(mirror[f.sym].id)
      BY <1>1, <1>2, <1>3, <2>1, <3>1 DEF Exits, StopCancels
    <3>3. f.sym \in Symbols /\ g.sym \in Symbols
      BY <1>2, <1>3, <1>6, <1>7, <2>1
    <3>4. f.sym = g.sym
      BY <1>1, <2>2, <3>1, <3>2, <3>3, StopNames
    <3>. QED BY <1>2, <1>3, <2>1, <3>1, <3>4 DEF Clash
  <2>. QED BY <1>2, <1>4, <2>2, <2>3
<1>10. Answers'
  BY <1>1, <1>2, <1>3 DEF Exits, Answers
<1>11. ProbedRefusal'
  <2>1. RefusalKnown' => RefusalKnown
    BY <1>2, <1>3 DEF RefusalKnown, Refusal, CurrentClose
  <2>. QED BY <1>1, <1>2, <1>3, <1>4, <2>1 DEF Exits, ProbedRefusal, Driving
<1>. QED BY <1>3, <1>4, <1>8, <1>9, <1>10, <1>11 DEF Steady, Exits

\* The first snapshot is read before anything is open: it restores nothing.
LEMMA SnapshotRead ==
    ASSUME TypeOK, Steady, ReadSnapshot
    PROVE  UNCHANGED mirror
<1> DEFINE f == Head(frames)
<1>1. mirror' = Restore(mirror, f.syms) /\ f.t = "snapshot" /\ TakeFrame
  BY DEF ReadSnapshot
<1>2. f \in InFlight
  BY <1>1, Reading
<1>3. \A s \in Symbols : mirror[s] = None
  BY <1>1, <1>2 DEF Steady, SnapshotEmpty, IsOpen
<1>. QED BY <1>1, <1>3 DEF Restore, TypeOK, StateTypeOK

\* The answer to a closing order is read, or the first snapshot.
LEMMA AnswerRead ==
    ASSUME TypeOK, Steady, ReadResponse \/ ReadSnapshot
    PROVE  Steady'
<1> DEFINE f == Head(frames)
<1>1. Life /\ Exits
  BY DEF Steady
<1>2. TakeFrame /\ f.t # "fill" /\ UNCHANGED <<pendingEntry, pendingStops, stamp, acks>>
  BY DEF ReadResponse, ReadSnapshot, stateVars
<1>3. /\ f \in Frames /\ f \in InFlight /\ InFlight = InFlight' \cup {f}
      /\ LineUp' /\ SnapshotFirst' /\ SnapshotEmpty' /\ Once'
      /\ UNCHANGED <<book, job, exitSeq>> /\ (pc' = pc \/ ~Driving')
  BY <1>2, Reading
<1>4. UNCHANGED mirror
  <2>1. CASE ReadResponse
    BY <2>1 DEF ReadResponse, stateVars
  <2>. QED BY <1>2, <2>1, SnapshotRead
<1>5. /\ \A s : Bare(s) => Bare(s)'
      /\ \A s : StopGone(s) => StopGone(s)'
      /\ \A s : IsOpen(mirror, s)' = IsOpen(mirror, s)
      /\ Life' /\ Stamps' /\ BeforeClose' /\ ProbedOrder' /\ TheJob'
  BY <1>2, <1>4, OtherRead
<1>6. \A r \in responses' : \/ r \in responses
                            \/ f.t = "response" /\ r.id = f.id /\ r.rejected = f.rejected
  BY DEF ReadResponse, ReadSnapshot
<1> HIDE DEF f
<1>7. Acks'
  BY <1>1, <1>2, <1>4, <1>5 DEF Exits, Acks
<1>8. StopCancels'
  BY <1>1, <1>2, <1>3, <1>4, <1>5 DEF Exits, StopCancels
<1>9. Answers'
  BY <1>1, <1>3, <1>6 DEF Exits, Answers
<1>10. ProbedRefusal'
  <2>1. RefusalKnown' => RefusalKnown
    BY <1>3, <1>6 DEF RefusalKnown, Refusal, CurrentClose
  <2>. QED BY <1>1, <1>3, <1>4, <1>5, <2>1 DEF Exits, ProbedRefusal, Driving
<1>. QED BY <1>3, <1>5, <1>7, <1>8, <1>9, <1>10 DEF Steady, Exits

\* The fill at the head: an entry's opens its symbol, where nothing else is
\* under way; an exit's closes it, and no order is left there.
LEMMA FillHead ==
    ASSUME TypeOK, Steady, TakeFrame, Head(frames).t = "fill"
    PROVE  LET f == Head(frames)
           IN  /\ f.sym \in Symbols /\ f.side \in Sides /\ f.qty \in Nat /\ f.id \in ClOrdIds
               /\ \A o \in book \cup pendingStops : o.sym # f.sym
               /\ \A g \in InFlight' : ~FillOf(g, f.sym)
               /\ f.side = "long" => \A g \in InFlight' : ~About(g, f.sym)
               /\ f.side = "long" <=> ~IsOpen(mirror, f.sym)
               /\ ~Bare(f.sym)
<1> DEFINE f == Head(frames)
<1>1. Life
  BY DEF Steady
<1>2. /\ f \in Frames /\ f \in InFlight /\ \A g \in InFlight' : g.t # "snapshot" /\ ~Clash(f, g)
  BY Reading
<1> HIDE DEF f
<1>3. f.t = "fill"
  BY DEF f
<1>4. f.sym \in Symbols /\ f.side \in Sides /\ f.qty \in Nat /\ f.id \in ClOrdIds
  BY <1>2, <1>3, FrameKinds
<1>5. \A o \in book \cup pendingStops : o.sym # f.sym
  BY <1>1, <1>2, <1>3 DEF Life, OrderOrFill, FillOf
<1>6. /\ \A g \in InFlight' : ~FillOf(g, f.sym)
      /\ f.side = "long" => \A g \in InFlight' : ~About(g, f.sym)
  BY <1>2, <1>3 DEF Clash, FillOf, About
<1>7. f.side = "long" <=> ~IsOpen(mirror, f.sym)
  BY <1>1, <1>2, <1>3 DEF Life, FillFrames
<1>8. ~Bare(f.sym)
  BY <1>2, <1>3 DEF Bare, FillOf
<1>. QED BY <1>4, <1>5, <1>6, <1>7, <1>8 DEF f

\* The entry's fill: the position takes over the name and the account of its
\* order, with its own snapshot, and its stop is to be placed.
LEMMA EntryFillRead ==
    ASSUME TypeOK, Steady, FillOpens
    PROVE  Steady'
<1>1. PICK f \in Frames : f = Head(frames)
  BY Reading DEF FillOpens
<1> DEFINE s0 == f.sym
           p == OpenedBy(f, f.id, Len(closes) + 1)
           x0 == Order("stop", StopId(f.id), f.id, s0, "short", f.qty)
<1>2. Life /\ Exits
  BY DEF Steady
<1>3. TakeFrame /\ f.t = "fill" /\ ~IsOpen(mirror, s0)
  BY <1>1 DEF FillOpens, FillAction
<1>4. /\ f \in InFlight /\ InFlight = InFlight' \cup {f}
      /\ \A g \in InFlight' : g.t # "snapshot"
      /\ LineUp' /\ SnapshotFirst' /\ SnapshotEmpty' /\ Once'
      /\ UNCHANGED <<book, account, job, entrySeq, exitSeq>> /\ (pc' = pc \/ ~Driving')
  BY <1>3, <1>1, Reading
<1>5. /\ s0 \in Symbols /\ f.side = "long" /\ f.id \in ClOrdIds
      /\ \A o \in book \cup pendingStops : o.sym # s0
      /\ \A g \in InFlight' : ~About(g, s0) /\ ~FillOf(g, s0)
  BY <1>3, <1>1, FillHead
<1>6. pendingEntry[s0] = f.id /\ account[s0] = f.qty /\ f.id # None
  BY <1>2, <1>3, <1>4, <1>5, NoneAssumption DEF Life, FillFrames
<1>7. mirror' = [mirror EXCEPT ![s0] = p]
  <2>1. mirror' = ApplyFill(mirror, f, f.id, Len(closes) + 1) /\ FillAction(mirror, f) = "OPENED"
    BY <1>6, <1>1 DEF FillOpens
  <2>. QED BY <2>1 DEF ApplyFill
<1>8. /\ pendingStops' = pendingStops \cup {x0}
      /\ pendingEntry' = [pendingEntry EXCEPT ![s0] = None]
      /\ UNCHANGED <<stamp, acks, responses>>
  BY <1>5, <1>6, <1>1 DEF FillOpens, Flip
<1>9. /\ p.sym = s0 /\ p.side = "long" /\ p.id = f.id /\ p.qty = f.qty /\ p.snap = f.id
      /\ p # None
  <2>1. p.sym = s0 /\ p.side = "long" /\ p.id = f.id /\ p.qty = f.qty /\ p.snap = f.id
    BY <1>5 DEF OpenedBy
  <2>2. p \in Positions
    <3>1. Len(closes) + 1 \in Nat \ {0}
      BY LenProperties DEF TypeOK, SeqTypeOK
    <3>. QED BY <1>3, <1>5, <1>6, <1>1, <3>1, FillHead DEF OpenedBy, Positions, MaybeId
  <2>. QED BY <2>1, <2>2, NoneAssumption
<1>10. /\ x0.kind = "stop" /\ x0.id = StopId(x0.pos) /\ x0.pos = f.id /\ x0.sym = s0
      /\ x0.side = "short" /\ x0.qty = f.qty /\ x0.st = "sent"
  BY DEF Order
<1> HIDE DEF p, x0, s0
<1>11. /\ mirror'[s0] = p /\ \A s \in Symbols : s # s0 => mirror'[s] = mirror[s]
      /\ pendingEntry'[s0] = None /\ \A s \in Symbols : s # s0 => pendingEntry'[s] = pendingEntry[s]
  BY <1>5, <1>7, <1>8 DEF TypeOK, StateTypeOK
<1>12. /\ IsOpen(mirror, s0)'
       /\ \A s \in Symbols : s # s0 => IsOpen(mirror, s)' = IsOpen(mirror, s)
  BY <1>9, <1>11 DEF IsOpen
<1>13. \A s \in Symbols : Name(s)' = Name(s)
  BY <1>3, <1>6, <1>9, <1>11, <1>12 DEF Name
<1>14. /\ \A s \in Symbols : s # s0 => (Bare(s) => Bare(s)') /\ (StopGone(s) => StopGone(s)')
       /\ \A s : NoExit(s) => NoExit(s)'
  BY <1>4, <1>8, <1>10 DEF Bare, StopGone, NoExit
<1>15. \A g \in InFlight' : g.t # "snapshot" => g.sym \in Symbols /\ g.sym # s0
  BY <1>4, <1>5, FlightType DEF Frames, About
<1>16. \A o \in book \cup pendingStops : o.sym \in Symbols /\ o.sym # s0
  BY <1>5 DEF TypeOK, ExchangeTypeOK, ExitTypeOK, Orders
<1>17. Life'
  <2>1. OneOrder' /\ OrderOrFill'
    BY <1>2, <1>4, <1>5, <1>8, <1>10 DEF Life, OneOrder, OrderOrFill
  <2>2. EntryOrders'
    BY <1>2, <1>4, <1>11, <1>12, <1>16 DEF Life, EntryOrders
  <2>3. StopOrders' /\ ClosingOrders'
    BY <1>2, <1>4, <1>8, <1>10 DEF Life, StopOrders, ClosingOrders
  <2>4. ExitOrders'
    BY <1>2, <1>4, <1>8, <1>9, <1>10, <1>11, <1>12, <1>16 DEF Life, ExitOrders
  <2>5. FillFrames'
    BY <1>2, <1>4, <1>11, <1>12, <1>15 DEF Life, FillFrames
  <2>6. Accounts'
    <3>1. ASSUME NEW s \in Symbols, s # s0, \A g \in InFlight' : ~FillOf(g, s)
          PROVE  account'[s] = IF IsOpen(mirror, s)' THEN mirror'[s].qty ELSE 0
      <4>1. \A g \in InFlight : ~FillOf(g, s)
        BY <1>4, <3>1 DEF FillOf, s0
      <4>. QED BY <1>2, <1>4, <1>11, <1>12, <3>1, <4>1 DEF Life, Accounts
    <3>2. account'[s0] = mirror'[s0].qty
      BY <1>4, <1>6, <1>9, <1>11
    <3>. QED BY <1>12, <3>1, <3>2 DEF Accounts
  <2>7. Mirrors'
    BY <1>2, <1>9, <1>11, <1>12 DEF Life, Mirrors
  <2>8. Names'
    BY <1>2, <1>4, <1>13 DEF Life, Names, Known
  <2>. QED BY <2>1, <2>2, <2>3, <2>4, <2>5, <2>6, <2>7, <2>8 DEF Life
<1>18. Acks'
  BY <1>2, <1>3, <1>8, <1>11, <1>12, <1>14 DEF Exits, Acks
<1>19. StopCancels'
  BY <1>2, <1>4, <1>8, <1>11, <1>12, <1>14, <1>15 DEF Exits, StopCancels
<1>20. Stamps'
  BY <1>2, <1>8, <1>12, <1>14 DEF Exits, Stamps
<1>21. Answers'
  BY <1>2, <1>4, <1>8 DEF Exits, Answers
<1>22. BeforeClose'
  BY <1>2, <1>4, <1>14 DEF Exits, BeforeClose, Driving
<1>23. ASSUME Driving
      PROVE  job \in Jobs /\ job.pos # None /\ job.pos.sym \in Symbols
  BY <1>23, NoneAssumption DEF Driving, TypeOK, LoopTypeOK, Jobs, Positions
<1>24. ASSUME Driving
      PROVE  /\ job.pos.id # f.id
             /\ mirror'[job.pos.sym] = job.pos => job.pos.sym # s0
  <2>1. Name(s0) = f.id
    BY <1>3, <1>6 DEF Name
  <2>2. Name(s0) = job.pos.id => mirror[s0] = job.pos
    BY <1>2, <1>5, <1>24 DEF Exits, TheJob
  <2>3. job.pos.id # f.id
    BY <1>3, <1>23, <1>24, <2>1, <2>2 DEF IsOpen
  <2>. QED BY <1>9, <1>11, <2>3
<1>25. ProbedOrder'
  BY <1>2, <1>4, <1>8, <1>11, <1>16, <1>23, <1>24 DEF Exits, ProbedOrder, CurrentClose, Driving
<1>26. ProbedRefusal'
  <2>1. RefusalKnown' => RefusalKnown
    BY <1>4, <1>8 DEF RefusalKnown, Refusal, CurrentClose
  <2>2. ASSUME pc = "probe", RefusalKnown
        PROVE  mirror'[job.pos.sym] = job.pos /\ Bare(job.pos.sym)' /\ job' = job
    <3>1. mirror[job.pos.sym] = job.pos /\ Bare(job.pos.sym)
      BY <1>2, <2>2 DEF Exits, ProbedRefusal
    <3>2. job.pos.sym # s0 /\ job.pos.sym \in Symbols
      BY <1>3, <1>23, <2>2, <3>1 DEF IsOpen, Driving
    <3>. QED BY <1>4, <1>11, <1>14, <3>1, <3>2
  <2>. QED BY <1>4, <2>1, <2>2 DEF ProbedRefusal, Driving
<1>27. TheJob'
  <2>1. SUFFICES ASSUME Driving'
                 PROVE  /\ Known(job.pos.id)'
                        /\ \A s \in Symbols : Name(s)' = job'.pos.id => mirror'[s] = job'.pos
                        /\ mirror'[job'.pos.sym] = job'.pos => stamp'[job'.pos.sym] # None
    BY DEF TheJob
  <2>2. Driving /\ job' = job
    BY <1>4, <2>1 DEF Driving
  <2>3. Name(s0) = f.id
    BY <1>3, <1>6 DEF Name
  <2>4. \A s \in Symbols : Name(s) = job.pos.id => s # s0
    BY <1>23, <1>24, <2>2, <2>3, <1>2, <1>3 DEF Exits, TheJob, IsOpen
  <2>. QED BY <1>2, <1>4, <1>8, <1>11, <1>13, <1>23, <1>24, <2>2, <2>4 DEF Exits, TheJob, Known
<1>. QED BY <1>4, <1>17, <1>18, <1>19, <1>20, <1>21, <1>22, <1>25, <1>26, <1>27 DEF Steady, Exits

\* A second fill of an open position does not happen on a steady line.
LEMMA NoUpdate ==
    ASSUME TypeOK, Steady
    PROVE  ~FillUpdates
<1>1. SUFFICES ASSUME FillUpdates PROVE FALSE
  OBVIOUS
<1>2. /\ TakeFrame /\ Head(frames).t = "fill" /\ IsOpen(mirror, Head(frames).sym)
      /\ ~ClosesPosition(mirror[Head(frames).sym].side, Head(frames).side)
  BY <1>1 DEF FillUpdates, FillAction
<1>. QED BY <1>2, FillHead DEF ClosesPosition, Steady, Life, Mirrors, Sides

\* An exit's fill: nothing of the position is left anywhere, its stamp and the
\* confirmation of its stop included.
LEMMA ExitFillRead ==
    ASSUME TypeOK, Steady, FillCloses
    PROVE  Steady'
<1>1. PICK f \in Frames : f = Head(frames)
  BY Reading DEF FillCloses
<1> DEFINE s0 == f.sym
<1>2. Life /\ Exits
  BY DEF Steady
<1>3. TakeFrame /\ f.t = "fill" /\ IsOpen(mirror, s0)
  BY <1>1 DEF FillCloses, FillAction
<1>4. /\ f \in InFlight /\ InFlight = InFlight' \cup {f}
      /\ \A g \in InFlight' : g.t # "snapshot"
      /\ LineUp' /\ SnapshotFirst' /\ SnapshotEmpty' /\ Once'
      /\ UNCHANGED <<book, account, job, entrySeq, exitSeq>> /\ (pc' = pc \/ ~Driving')
  BY <1>3, <1>1, Reading
<1>5. /\ s0 \in Symbols /\ f.side # "long"
      /\ \A o \in book \cup pendingStops : o.sym # s0
      /\ \A g \in InFlight' : ~FillOf(g, s0)
      /\ ~Bare(s0)
  BY <1>3, <1>1, FillHead
<1>6. account[s0] = 0 /\ pendingEntry[s0] = None
  BY <1>2, <1>3, <1>4, <1>5 DEF Life, FillFrames, Mirrors
<1>7. mirror' = [mirror EXCEPT ![s0] = None]
  <2>1. mirror' = ApplyFill(mirror, f, None, 0) /\ FillAction(mirror, f) = "CLOSED"
    BY <1>1 DEF FillCloses
  <2>. QED BY <2>1 DEF ApplyFill
<1>8. /\ stamp' = [stamp EXCEPT ![s0] = None]
      /\ acks' = acks \ {StopId(mirror[s0].id)}
      /\ UNCHANGED <<pendingStops, pendingEntry, responses>>
  BY <1>1 DEF FillCloses, PopStamp
<1> HIDE DEF s0
<1>9. /\ mirror'[s0] = None /\ \A s \in Symbols : s # s0 => mirror'[s] = mirror[s]
      /\ stamp'[s0] = None /\ \A s \in Symbols : s # s0 => stamp'[s] = stamp[s]
  BY <1>5, <1>7, <1>8 DEF TypeOK, StateTypeOK, ExitTypeOK
<1>10. /\ ~IsOpen(mirror', s0)
      /\ \A s \in Symbols : s # s0 => IsOpen(mirror', s) = IsOpen(mirror, s)
  BY <1>9 DEF IsOpen
<1>11. /\ Name(s0)' = None
      /\ \A s \in Symbols : s # s0 => Name(s)' = Name(s)
  BY <1>6, <1>8, <1>9, <1>10 DEF Name
<1>12. /\ \A s : Bare(s) => Bare(s)'
       /\ \A s : StopGone(s) => StopGone(s)'
       /\ \A s : NoExit(s) => NoExit(s)'
       /\ Bare(s0)' /\ NoExit(s0)'
  BY <1>4, <1>5, <1>8 DEF Bare, StopGone, NoExit
<1>13. \A g \in InFlight' : g.t # "snapshot" => g.sym \in Symbols
  BY <1>4, FlightType DEF Frames
<1>14. \A o \in book \cup pendingStops : o.sym \in Symbols /\ o.sym # s0
  BY <1>5 DEF TypeOK, ExchangeTypeOK, ExitTypeOK, Orders
<1>15. Life'
  <2>1. OneOrder' /\ OrderOrFill'
    BY <1>2, <1>4, <1>8 DEF Life, OneOrder, OrderOrFill
  <2>2. EntryOrders'
    BY <1>2, <1>4, <1>8, <1>10, <1>14 DEF Life, EntryOrders
  <2>3. StopOrders' /\ ClosingOrders'
    BY <1>2, <1>4, <1>8 DEF Life, StopOrders, ClosingOrders
  <2>4. ExitOrders'
    BY <1>2, <1>4, <1>8, <1>9, <1>10, <1>14 DEF Life, ExitOrders
  <2>5. FillFrames'
    BY <1>2, <1>4, <1>5, <1>8, <1>10, <1>13 DEF Life, FillFrames, FillOf
  <2>6. Accounts'
    <3>1. ASSUME NEW s \in Symbols, s # s0, \A g \in InFlight' : ~FillOf(g, s)
          PROVE  account'[s] = IF IsOpen(mirror', s) THEN mirror'[s].qty ELSE 0
      <4>1. \A g \in InFlight : ~FillOf(g, s)
        BY <1>4, <3>1 DEF FillOf, s0
      <4>. QED BY <1>2, <1>4, <1>9, <1>10, <3>1, <4>1 DEF Life, Accounts
    <3>. QED BY <1>4, <1>6, <1>10, <3>1 DEF Accounts
  <2>7. Mirrors'
    BY <1>2, <1>8, <1>9, <1>10 DEF Life, Mirrors
  <2>8. Names'
    BY <1>2, <1>4, <1>11 DEF Life, Names, Known
  <2>. QED BY <2>1, <2>2, <2>3, <2>4, <2>5, <2>6, <2>7, <2>8 DEF Life
<1>16. Acks'
  BY <1>2, <1>8, <1>9, <1>10, <1>12 DEF Exits, Acks
<1>17. StopCancels'
  <2>1. \A g \in InFlight' : g.t = "canceled" /\ g.id[3] # 0 => g.sym # s0
    BY <1>2, <1>4, <1>5 DEF Exits, StopCancels
  <2>. QED BY <1>2, <1>4, <1>8, <1>9, <1>10, <1>12, <1>13, <2>1 DEF Exits, StopCancels
<1>18. Stamps'
  BY <1>2, <1>9, <1>10, <1>12 DEF Exits, Stamps
<1>19. Answers'
  BY <1>2, <1>4, <1>8 DEF Exits, Answers
<1>20. BeforeClose'
  BY <1>2, <1>4, <1>12 DEF Exits, BeforeClose, Driving
<1>21. ASSUME Driving
      PROVE  /\ job.pos \in Positions /\ job.pos # None /\ job.pos.sym \in Symbols
             /\ job.pos.id # None
             /\ mirror'[job.pos.sym] = job.pos => job.pos.sym # s0
  <2>1. job.pos \in Positions
    BY <1>21 DEF Driving, TypeOK, LoopTypeOK, Jobs
  <2>. QED BY <1>9, <2>1, NoneAssumption DEF Positions
<1>22. ProbedOrder'
  <2>1. ASSUME pc = "probe", mirror'[job.pos.sym] = job.pos
        PROVE  StopId(job.pos.id) \in acks'
    <3>1. job.pos.sym # s0 /\ job.pos.sym \in Symbols /\ mirror[job.pos.sym] = job.pos
      BY <1>9, <1>21, <2>1 DEF Driving
    <3>2. StopId(job.pos.id) \in acks
      BY <1>2, <2>1, <3>1 DEF Exits, ProbedOrder
    <3>3. IsOpen(mirror, job.pos.sym)
      BY <1>21, <2>1, <3>1 DEF IsOpen, Driving
    <3>4. StopId(job.pos.id) # StopId(mirror[s0].id)
      BY <1>2, <1>3, <1>5, <3>1, <3>3, StopNames DEF s0
    <3>. QED BY <1>8, <3>2, <3>4
  <2>. QED BY <1>2, <1>4, <1>9, <1>14, <2>1 DEF Exits, ProbedOrder, CurrentClose, Driving
<1>23. ProbedRefusal'
  <2>1. RefusalKnown' => RefusalKnown
    BY <1>4, <1>8 DEF RefusalKnown, Refusal, CurrentClose
  <2>2. ASSUME pc = "probe", RefusalKnown
        PROVE  mirror'[job.pos.sym] = job.pos /\ Bare(job.pos.sym)' /\ job' = job
    <3>1. mirror[job.pos.sym] = job.pos /\ Bare(job.pos.sym)
      BY <1>2, <2>2 DEF Exits, ProbedRefusal
    <3>2. job.pos.sym # s0 /\ job.pos.sym \in Symbols
      BY <1>5, <1>21, <2>2, <3>1 DEF Driving
    <3>3. job' = job
      BY <1>4
    <3>. QED BY <1>9, <1>12, <3>1, <3>2, <3>3
  <2>. QED BY <1>4, <2>1, <2>2 DEF ProbedRefusal, Driving
<1>24. TheJob'
  <2>1. SUFFICES ASSUME Driving'
                 PROVE  /\ Known(job.pos.id)'
                        /\ \A s \in Symbols : Name(s)' = job'.pos.id => mirror'[s] = job'.pos
                        /\ mirror'[job'.pos.sym] = job'.pos => stamp'[job'.pos.sym] # None
    BY DEF TheJob
  <2>2. Driving /\ job' = job
    BY <1>4, <2>1 DEF Driving
  <2>. QED BY <1>2, <1>4, <1>9, <1>11, <1>21, <2>2 DEF Exits, TheJob, Known
<1>. QED BY <1>4, <1>15, <1>16, <1>17, <1>18, <1>19, <1>20, <1>22, <1>23, <1>24 DEF Steady, Exits

-----------------------------------------------------------------------------
(* An order is sent.                                                       *)

\* An entry is dispatched for a symbol with nothing open and nothing under way.
LEMMA EntrySent ==
    ASSUME SteadyLine, TypeOK, Steady, DispatchEntry
    PROVE  Steady'
<1>1. Life /\ Exits
  BY DEF Steady
<1> DEFINE id == <<"entry", entrySeq + 1, 0>>
<1>2. PICK s \in Symbols :
          /\ ~EntryInFlight(s)
          /\ ~(IsOpen(mirror, s) /\ mirror[s].side = "long")
          /\ Stash(s, id)
          /\ book' = book \cup {Order("entry", id, id, s, "long", 0)}
  BY DEF DispatchEntry, SteadyLine, Steady, LineUp
<1>3. PICK e : e = Order("entry", id, id, s, "long", 0)
  OBVIOUS
<1>4. PICK x : x = id
  OBVIOUS
<1>5. /\ e.kind = "entry" /\ e.id = x /\ e.sym = s /\ e.side = "long" /\ e.st = "sent"
      /\ book' = book \cup {e}
  BY <1>2, <1>3, <1>4 DEF Order
<1>6. /\ entrySeq \in Nat /\ entrySeq' = entrySeq + 1
      /\ x[1] = "entry" /\ x[2] = entrySeq + 1 /\ x[3] = 0 /\ x # None
  <2>1. entrySeq \in Nat /\ entrySeq' = entrySeq + 1
    BY DEF DispatchEntry, TypeOK, SeqTypeOK
  <2>2. x \in ClOrdIds
    <3>1. entrySeq + 1 \in Nat
      BY <2>1
    <3>. QED BY <1>4, <3>1, IdTypes
  <2>. QED BY <1>4, <2>1, <2>2, NoneAssumption
<1>7. UNCHANGED <<frames, account, conn, mirror, pendingStops, stamp, acks, responses, pc,
                  job, gaps, exitSeq>>
  BY DEF DispatchEntry, exitVars, loopVars
<1>8. /\ pendingEntry'[s] = x
      /\ \A t \in Symbols : t # s => pendingEntry'[t] = pendingEntry[t]
  BY <1>2, <1>4 DEF Stash, TypeOK, StateTypeOK
<1> HIDE DEF id
<1>9. InFlight' = InFlight
  BY <1>7 DEF InFlight
<1>10. \A t : IsOpen(mirror, t)' = IsOpen(mirror, t)
  BY <1>7 DEF IsOpen
<1>11. ~IsOpen(mirror, s)
  BY <1>1, <1>2 DEF Life, Mirrors
<1>12. /\ \A o \in book \cup pendingStops : o.sym # s
       /\ \A f \in InFlight : ~About(f, s)
  <2>1. \A o \in book \cup pendingStops : o.sym = s => o.kind = "entry"
    BY <1>1, <1>11 DEF Life, ExitOrders
  <2>2. \A o \in pendingStops : o.sym # s
    BY <1>1, <2>1 DEF Life, StopOrders
  <2>. QED BY <1>2, <2>1, <2>2 DEF EntryInFlight, InFlight, About
<1>13. /\ Name(s)' = x
       /\ \A t \in Symbols : t # s => Name(t)' = Name(t)
  BY <1>7, <1>8, <1>11 DEF Name, IsOpen
<1>14. /\ \A t : StopGone(t)' = StopGone(t)
       /\ \A t : NoExit(t)' = NoExit(t)
       /\ \A t : t # s /\ Bare(t) => Bare(t)'
  BY <1>5, <1>7, <1>9 DEF StopGone, NoExit, Bare, ClosingKinds
<1>15. LineUp' /\ SnapshotFirst' /\ SnapshotEmpty' /\ Once'
  BY <1>7, <1>9, <1>10 DEF Steady, LineUp, SnapshotFirst, SnapshotEmpty, Once
<1>16. \A o \in book : o.sym \in Symbols
  BY DEF TypeOK, ExchangeTypeOK, Orders
<1>17. Life'
  <2>1. OneOrder'
    BY <1>1, <1>5, <1>7, <1>12 DEF Life, OneOrder
  <2>2. OrderOrFill'
    BY <1>1, <1>5, <1>7, <1>9, <1>12 DEF Life, OrderOrFill, About, FillOf
  <2>3. EntryOrders'
    BY <1>1, <1>5, <1>6, <1>8, <1>9, <1>10, <1>11, <1>12, <1>16 DEF Life, EntryOrders
  <2>4. StopOrders' /\ ClosingOrders' /\ ExitOrders'
    BY <1>1, <1>5, <1>7, <1>10
    DEF Life, StopOrders, ClosingOrders, ExitOrders, ClosingKinds
  <2>5. FillFrames'
    <3>1. \A f \in InFlight : f.t = "fill" => f.sym # s /\ f.sym \in Symbols
      BY <1>12, FlightType DEF About, Frames
    <3>. QED BY <1>1, <1>7, <1>8, <1>9, <1>10, <3>1 DEF Life, FillFrames
  <2>6. Accounts'
    BY <1>1, <1>7, <1>9, <1>10 DEF Life, Accounts
  <2>7. Mirrors'
    BY <1>1, <1>7, <1>8, <1>10, <1>11 DEF Life, Mirrors
  <2>8. Names'
    <3>1. \A t \in Symbols : Name(t) # None => Known(Name(t)) /\ Name(t)[2] \in Nat
      BY <1>1, IdParts DEF Life, Names, Name, TypeOK, StateTypeOK, IsOpen, Positions, MaybeId
    <3>2. \A t \in Symbols : Name(t) # x
      BY <1>6, <3>1 DEF Known
    <3>3. \A t \in Symbols : Name(t)' # None => Known(Name(t))'
      BY <1>6, <1>13, <3>1 DEF Known
    <3>4. \A t, u \in Symbols : Name(t)' = Name(u)' /\ Name(t)' # None => t = u
      BY <1>1, <1>13, <3>2 DEF Life, Names
    <3>. QED BY <3>3, <3>4 DEF Names
  <2>. QED BY <2>1, <2>2, <2>3, <2>4, <2>5, <2>6, <2>7, <2>8 DEF Life
<1>18. Acks' /\ Stamps' /\ Answers'
  BY <1>1, <1>7, <1>9, <1>10, <1>14 DEF Exits, Acks, Stamps, Answers
<1>19. StopCancels'
  BY <1>1, <1>7, <1>9, <1>10, <1>11, <1>14 DEF Exits, StopCancels
<1>20. BeforeClose'
  BY <1>1, <1>7, <1>14 DEF Exits, BeforeClose
<1>21. ProbedOrder'
  <2>1. e.id # CurrentClose
    BY <1>5, <1>6 DEF CurrentClose
  <2>. QED BY <1>1, <1>5, <1>7, <2>1 DEF Exits, ProbedOrder, CurrentClose
<1>22. ASSUME Driving PROVE job.pos # None /\ job.pos.id \in ClOrdIds
  BY <1>22, NoneAssumption DEF Driving, TypeOK, LoopTypeOK, Jobs, Positions
<1>23. ProbedRefusal'
  <2>1. RefusalKnown' <=> RefusalKnown
    BY <1>7, <1>9 DEF RefusalKnown, Refusal, CurrentClose
  <2>2. ASSUME pc = "probe", mirror[job.pos.sym] = job.pos PROVE job.pos.sym # s
    BY <1>11, <1>22, <2>2 DEF Driving, IsOpen
  <2>. QED BY <1>1, <1>7, <1>14, <2>1, <2>2 DEF Exits, ProbedRefusal
<1>24. TheJob'
  <2>1. SUFFICES ASSUME Driving
                 PROVE  /\ Known(job.pos.id)'
                        /\ \A t \in Symbols : Name(t)' = job.pos.id => mirror[t] = job.pos
                        /\ mirror[job.pos.sym] = job.pos => stamp[job.pos.sym] # None
    BY <1>7 DEF TheJob, Driving
  <2>2. /\ Known(job.pos.id)
        /\ \A t \in Symbols : Name(t) = job.pos.id => mirror[t] = job.pos
        /\ mirror[job.pos.sym] = job.pos => stamp[job.pos.sym] # None
    BY <1>1, <2>1 DEF Exits, TheJob
  <2>3. Known(job.pos.id)' /\ job.pos.id # x
    BY <1>6, <1>7, <1>22, <2>1, <2>2, IdParts DEF Known
  <2>. QED BY <1>13, <2>2, <2>3
<1>. QED BY <1>15, <1>17, <1>18, <1>19, <1>20, <1>21, <1>23, <1>24 DEF Steady, Exits

\* A queued stop is sent.
LEMMA StopSent ==
    ASSUME TypeOK, Steady, PlaceEmergSl
    PROVE  Steady'
<1>1. Life /\ Exits
  BY DEF Steady
<1>2. PICK o \in pendingStops : pendingStops' = pendingStops \ {o} /\ book' = book \cup {o}
  BY DEF PlaceEmergSl, Steady, LineUp
<1>3. UNCHANGED <<frames, account, conn, mirror, pendingEntry, stamp, acks, responses, pc, job,
                  gaps, entrySeq, exitSeq>>
  BY DEF PlaceEmergSl, Steady, LineUp, stateVars, seqVars
<1>4. o.kind = "stop" /\ o.sym \in Symbols /\ IsOpen(mirror, o.sym)
      /\ o.id = StopId(mirror[o.sym].id)
  BY <1>1 DEF Life, StopOrders, ExitOrders, TypeOK, ExitTypeOK, Orders
<1>5. book' \cup pendingStops' = book \cup pendingStops
  BY <1>2
<1>6. InFlight' = InFlight
  BY <1>3 DEF InFlight
<1>7. /\ \A s : IsOpen(mirror, s)' = IsOpen(mirror, s) /\ Name(s)' = Name(s)
      /\ \A s : Bare(s)' = Bare(s) /\ StopGone(s)' = StopGone(s)
      /\ \A s : NoExit(s)' = NoExit(s)
  BY <1>2, <1>3, <1>4, <1>5, <1>6 DEF IsOpen, Name, Bare, StopGone, NoExit, ClosingKinds
<1>8. LineUp' /\ SnapshotFirst' /\ SnapshotEmpty' /\ Once'
  BY <1>3, <1>6, <1>7 DEF Steady, LineUp, SnapshotFirst, SnapshotEmpty, Once
<1>9. Life'
  <2>1. OneOrder' /\ OrderOrFill'
    BY <1>1, <1>2, <1>6 DEF Life, OneOrder, OrderOrFill
  <2>2. EntryOrders' /\ StopOrders' /\ ClosingOrders'
    BY <1>1, <1>2, <1>3, <1>4, <1>6, <1>7
    DEF Life, EntryOrders, StopOrders, ClosingOrders, ClosingKinds
  <2>3. ExitOrders'
    BY <1>1, <1>3, <1>5, <1>7 DEF Life, ExitOrders
  <2>4. FillFrames' /\ Accounts' /\ Mirrors' /\ Names'
    BY <1>1, <1>3, <1>6, <1>7 DEF Life, FillFrames, Accounts, Mirrors, Names, Known
  <2>. QED BY <2>1, <2>2, <2>3, <2>4 DEF Life
<1>10. Acks' /\ StopCancels' /\ Stamps' /\ Answers'
  BY <1>1, <1>3, <1>6, <1>7 DEF Exits, Acks, StopCancels, Stamps, Answers
<1>11. BeforeClose' /\ TheJob'
  BY <1>1, <1>3, <1>7 DEF Exits, BeforeClose, TheJob, Driving, Known
<1>12. ProbedOrder'
  <2>1. mirror[o.sym].id \in ClOrdIds /\ Known(mirror[o.sym].id)
    <3>1. mirror[o.sym].id \in ClOrdIds
      BY <1>4 DEF TypeOK, StateTypeOK, IsOpen, Positions
    <3>. QED BY <1>1, <1>4, <3>1, NoneAssumption DEF Life, Names, Name
  <2>2. o.id # CurrentClose
    BY <1>4, <2>1, IdParts DEF Known, CurrentClose
  <2>. QED BY <1>1, <1>2, <1>3, <2>2 DEF Exits, ProbedOrder, CurrentClose
<1>13. ProbedRefusal'
  BY <1>1, <1>3, <1>6, <1>7 DEF Exits, ProbedRefusal, RefusalKnown, Refusal, CurrentClose
<1>. QED BY <1>8, <1>9, <1>10, <1>11, <1>12, <1>13 DEF Steady, Exits

\* A closing order is sent for a position that is open, whose stop is confirmed
\* gone, and of which nothing else is left.
LEMMA CloseSent ==
    ASSUME TypeOK, Steady, NEW kind \in ClosingKinds, NEW next \in {"probe", "exits"}, NEW n,
           SendClose(kind, next, n), UNCHANGED <<stateVars, pendingStops, stamp, acks, gaps>>,
           responses' \subseteq responses, entrySeq' = entrySeq,
           Driving, mirror[job.pos.sym] = job.pos, Bare(job.pos.sym),
           StopId(job.pos.id) \in acks
    PROVE  Steady'
<1>1. Life /\ Exits
  BY DEF Steady
<1>2. PICK p \in Positions : p = job.pos
  BY DEF Driving, TypeOK, LoopTypeOK, Jobs
<1> DEFINE s0 == p.sym
<1>3. /\ s0 \in Symbols /\ p.id \in ClOrdIds /\ mirror[s0] = p /\ IsOpen(mirror, s0)
      /\ p.side = "long" /\ Bare(s0) /\ StopId(p.id) \in acks
  BY <1>1, <1>2, NoneAssumption DEF Positions, IsOpen, Life, Mirrors
<1>4. PICK c : c = CloseOrder(kind, exitSeq + 1)
  OBVIOUS
<1>5. /\ c.kind \in ClosingKinds /\ c.kind # "entry" /\ c.kind # "stop"
      /\ c.id = <<"exit", exitSeq + 1, 0>> /\ c.pos = p.id /\ c.sym = s0 /\ c.side = "short"
      /\ c.qty = p.qty /\ c.st = "sent"
  BY <1>2, <1>3, <1>4 DEF CloseOrder, Order, Flip, ClosingKinds
<1>6. /\ book' = book \cup {c} /\ exitSeq' = exitSeq + 1 /\ exitSeq \in Nat
      /\ UNCHANGED <<frames, account, conn>> /\ pc' = next
      /\ pc' = "probe" => job'.pos = p
  <2>1. job \in Jobs
    BY DEF Driving, TypeOK, LoopTypeOK
  <2>. QED BY <1>2, <1>4, <2>1 DEF SendClose, Steady, LineUp, TypeOK, SeqTypeOK, Jobs
<1>7. UNCHANGED <<mirror, pendingEntry, pendingStops, stamp, acks, gaps, entrySeq>>
  BY DEF stateVars
<1> HIDE DEF s0
<1>8. InFlight' = InFlight
  BY <1>6 DEF InFlight
<1>9. \A s : IsOpen(mirror, s)' = IsOpen(mirror, s) /\ Name(s)' = Name(s)
  BY <1>7 DEF IsOpen, Name
<1>10. /\ \A s : StopGone(s)' = StopGone(s)
      /\ \A s : s # s0 => Bare(s)' = Bare(s) /\ NoExit(s)' = NoExit(s)
  BY <1>5, <1>6, <1>7, <1>8 DEF Bare, StopGone, NoExit
<1>11. LineUp' /\ SnapshotFirst' /\ SnapshotEmpty' /\ Once'
  BY <1>6, <1>7, <1>8, <1>9 DEF Steady, LineUp, SnapshotFirst, SnapshotEmpty, Once
<1>12. \A o \in book : o.id \in ClOrdIds
  BY DEF TypeOK, ExchangeTypeOK, Orders
<1>13. Life'
  <2>1. OneOrder' /\ OrderOrFill'
    BY <1>1, <1>3, <1>5, <1>6, <1>7, <1>8 DEF Life, OneOrder, OrderOrFill, Bare
  <2>2. EntryOrders' /\ StopOrders'
    BY <1>1, <1>5, <1>6, <1>7, <1>8, <1>9 DEF Life, EntryOrders, StopOrders
  <2>3. ClosingOrders'
    BY <1>1, <1>5, <1>6, <1>12, IdParts DEF Life, ClosingOrders
  <2>4. ExitOrders'
    BY <1>1, <1>3, <1>5, <1>6, <1>7, <1>9 DEF Life, ExitOrders
  <2>5. FillFrames' /\ Accounts' /\ Mirrors' /\ Names'
    BY <1>1, <1>6, <1>7, <1>8, <1>9 DEF Life, FillFrames, Accounts, Mirrors, Names, Known
  <2>. QED BY <2>1, <2>2, <2>3, <2>4, <2>5 DEF Life
<1>14. Acks'
  BY <1>1, <1>7, <1>9, <1>10 DEF Exits, Acks
<1>15. StopCancels'
  <2>1. ASSUME NEW f \in InFlight, f.t = "canceled", f.id[3] # 0 PROVE f.sym # s0
    BY <1>1, <1>3, <2>1 DEF Exits, StopCancels
  <2>. QED BY <1>1, <1>7, <1>8, <1>9, <1>10, <2>1 DEF Exits, StopCancels
<1>16. stamp[s0] # None
  BY <1>1, <1>2, <1>3 DEF Exits, TheJob, s0
<1>17. Stamps'
  BY <1>1, <1>7, <1>9, <1>10, <1>16 DEF Exits, Stamps
<1>18. /\ \A r \in responses : r.id[2] <= exitSeq /\ r.id[2] \in Nat
       /\ \A f \in InFlight : f.t = "response" => f.id[2] <= exitSeq /\ f.id[2] \in Nat
  <2>1. \A r \in responses : r.id \in ClOrdIds
    BY DEF TypeOK, ExitTypeOK
  <2>2. \A f \in InFlight : f.t = "response" => f.id \in ClOrdIds
    BY FlightType, FrameKinds
  <2>. QED BY <1>1, <2>1, <2>2, IdParts DEF Exits, Answers
<1>19. Answers'
  BY <1>6, <1>8, <1>18 DEF Answers
<1>20. BeforeClose'
  BY <1>6 DEF BeforeClose
<1>21. ProbedOrder'
  <2>1. CurrentClose' = c.id
    BY <1>5, <1>6 DEF CurrentClose
  <2>2. \A o \in book : o.id # c.id
    <3>1. \A o \in book : o.id[1] = "entry" \/ o.id[2] <= exitSeq
      BY <1>1, OrderFacts DEF Life, ClosingOrders
    <3>. QED BY <1>5, <1>6, <1>12, <3>1, IdParts
  <2>. QED BY <1>3, <1>5, <1>6, <1>7, <2>1, <2>2 DEF ProbedOrder, s0
<1>22. ProbedRefusal'
  <2>1. CurrentClose'[2] = exitSeq + 1
    BY <1>6 DEF CurrentClose
  <2>2. ~RefusalKnown'
    BY <1>6, <1>8, <1>18, <2>1 DEF RefusalKnown, Refusal
  <2>. QED BY <2>2 DEF ProbedRefusal
<1>23. TheJob'
  <2>1. CASE next = "probe"
    BY <1>1, <1>2, <1>6, <1>7, <1>9, <2>1 DEF Exits, TheJob, Driving, Known
  <2>2. CASE next = "exits"
    BY <1>6, <2>2 DEF TheJob, Driving
  <2>. QED BY <2>1, <2>2
<1>. QED BY <1>11, <1>13, <1>14, <1>15, <1>17, <1>19, <1>20, <1>21, <1>22, <1>23 DEF Steady, Exits

\* With the cancel confirmed, the position is still open and nothing of it is left
\* at Kraken: the confirmation is of this position's stop and of no earlier one.
LEMMA ConfirmedIsBare ==
    ASSUME TypeOK, Steady, Acking, CancelConfirmed
    PROVE  mirror[job.pos.sym] = job.pos /\ Bare(job.pos.sym)
<1>1. Life /\ Exits /\ Driving
  BY DEF Steady, Acking, Driving
<1>2. job.pos \in Positions /\ job.pos.id \in ClOrdIds /\ job.pos # None
  BY <1>1, NoneAssumption DEF Driving, TypeOK, LoopTypeOK, Jobs, Positions
<1>3. StopId(job.pos.id)[3] # 0
  BY <1>2, IdParts
<1>4. PICK s \in Symbols :
          IsOpen(mirror, s) /\ StopId(job.pos.id) = StopId(mirror[s].id) /\ StopGone(s)
  BY <1>1, <1>3 DEF Exits, Acks, CancelConfirmed
<1>5. mirror[s].id \in ClOrdIds
  BY <1>4 DEF TypeOK, StateTypeOK, IsOpen, Positions
<1>6. Name(s) = job.pos.id
  BY <1>2, <1>4, <1>5, IdParts DEF Name
<1>7. mirror[s] = job.pos /\ job.pos.sym = s
  BY <1>1, <1>4, <1>6 DEF Exits, TheJob, Life, Mirrors
<1>8. NoExit(s)
  BY <1>1, <1>7 DEF Exits, BeforeClose, Acking
<1>9. \A o \in book \cup pendingStops : o.sym # s
  <2>1. \A o \in book : o.kind # "entry" \/ o.sym # s
    BY <1>1, <1>4 DEF Life, EntryOrders
  <2>2. \A o \in pendingStops : o.sym # s
    BY <1>1, <1>4 DEF Life, StopOrders, StopGone
  <2>3. \A o \in book : o.kind \in {"entry", "stop"} \cup ClosingKinds
    BY <1>1, OrderFacts
  <2>. QED BY <1>4, <1>8, <2>1, <2>2, <2>3 DEF StopGone, NoExit
<1>10. \A f \in InFlight : ~FillOf(f, s)
  BY <1>1, <1>4, <1>8 DEF Life, FillFrames, StopGone, NoExit, FillOf
<1>. QED BY <1>7, <1>9, <1>10 DEF Bare

\* The three ways a closing order is sent.
LEMMA ClosesSteady ==
    ASSUME TypeOK, Steady, SendMarketClose \/ SendLimitOnlyClose \/ ProbeRejectedRetry
    PROVE  Steady'
<1>1. CASE SendMarketClose \/ SendLimitOnlyClose
  <2>1. /\ Acking /\ CancelConfirmed /\ Driving
        /\ UNCHANGED <<stateVars, pendingStops, stamp, acks, responses, gaps, entrySeq>>
    BY <1>1 DEF SendMarketClose, SendLimitOnlyClose, exitVars, Acking, Driving
  <2>2. mirror[job.pos.sym] = job.pos /\ Bare(job.pos.sym) /\ StopId(job.pos.id) \in acks
    BY <2>1, ConfirmedIsBare DEF CancelConfirmed
  <2>3. CASE SendMarketClose
    <3>1. SendClose("market", "probe", 0)
      BY <2>3 DEF SendMarketClose
    <3>. QED BY <2>1, <2>2, <3>1, CloseSent DEF ClosingKinds
  <2>4. CASE SendLimitOnlyClose
    <3>1. SendClose("ioc", "exits", 0)
      BY <2>4 DEF SendLimitOnlyClose
    <3>. QED BY <2>1, <2>2, <3>1, CloseSent DEF ClosingKinds
  <2>. QED BY <1>1, <2>3, <2>4
<1>2. CASE ProbeRejectedRetry
  <2>1. /\ pc = "probe" /\ RefusalKnown /\ Driving
        /\ SendClose("ioc", "probe", job.n + 1) /\ responses' \subseteq responses
        /\ UNCHANGED <<stateVars, pendingStops, stamp, acks, gaps, entrySeq>>
    BY <1>2 DEF ProbeRejectedRetry, Rejected, Answer, RefusalKnown, Refusal, CurrentClose, Driving
  <2>2. mirror[job.pos.sym] = job.pos /\ Bare(job.pos.sym) /\ StopId(job.pos.id) \in acks
    BY <2>1 DEF Steady, Exits, ProbedRefusal, ProbedOrder
  <2>. QED BY <2>1, <2>2, CloseSent DEF ClosingKinds
<1>. QED BY <1>1, <1>2

-----------------------------------------------------------------------------
(* The invariant, and what follows from it.                                *)

\* Nothing is out at the start, but for the first snapshot.
LEMMA InitSteady == TypeOK /\ Init => Steady
<1> SUFFICES ASSUME TypeOK, Init PROVE Steady
  OBVIOUS
<1>1. /\ book = {} /\ pendingStops = {} /\ acks = {} /\ responses = {} /\ gaps = {}
      /\ conn = "up" /\ pc = "recv"
      /\ \A s \in Symbols : /\ mirror[s] = None /\ pendingEntry[s] = None
                            /\ stamp[s] = None /\ account[s] = 0
  BY DEF Init, ExchangeInit, EmptyStore
<1>2. frames = <<SnapshotFrame({})>>
  BY DEF Init, ExchangeInit
<1>3. DOMAIN frames = {1} /\ frames[1].t = "snapshot"
  BY <1>2 DEF SnapshotFrame
<1>4. \A f \in InFlight : f.t = "snapshot"
  BY <1>3 DEF InFlight
<1>5. \A s \in Symbols : ~IsOpen(mirror, s) /\ Name(s) = None
  BY <1>1 DEF IsOpen, Name
<1>6. LineUp /\ SnapshotFirst /\ SnapshotEmpty /\ Once
  BY <1>1, <1>3, <1>5 DEF LineUp, SnapshotFirst, SnapshotEmpty, Once, Clash
<1>7. Life
  <2>1. OneOrder /\ OrderOrFill /\ EntryOrders /\ StopOrders /\ ClosingOrders /\ ExitOrders
    BY <1>1 DEF OneOrder, OrderOrFill, EntryOrders, StopOrders, ClosingOrders, ExitOrders
  <2>2. FillFrames /\ Accounts /\ Mirrors /\ Names
    BY <1>1, <1>4, <1>5 DEF FillFrames, Accounts, Mirrors, Names
  <2>. QED BY <2>1, <2>2 DEF Life
<1>8. Exits
  <2>1. Acks /\ StopCancels /\ Answers
    BY <1>1, <1>4 DEF Acks, StopCancels, Answers
  <2>2. Stamps
    BY <1>1, <1>4 DEF Stamps, NoExit, FillOf
  <2>3. BeforeClose /\ ProbedOrder /\ ProbedRefusal /\ TheJob
    BY <1>1 DEF BeforeClose, ProbedOrder, ProbedRefusal, TheJob, Driving
  <2>. QED BY <2>1, <2>2, <2>3 DEF Exits
<1>. QED BY <1>6, <1>7, <1>8 DEF Steady

\* No step of the program or of Kraken breaks it.
LEMMA StepSteady ==
    ASSUME SteadyLine, TypeOK, Steady, [Next]_vars
    PROVE  Steady'
<1>1. CASE Pipeline
  BY <1>1, EntrySent DEF Pipeline
<1>2. CASE PublicLoops \/ Operator
  BY <1>2, DetectorsSteady
<1>3. CASE ReadFrame
  BY <1>3, EntryFillRead, NoUpdate, ExitFillRead, CanceledRead, AnswerRead DEF ReadFrame
<1>4. CASE Pump
  BY <1>4, PumpIdles, StopSent, ExitStarts, AckRetries, ExitGivenUp, ClosesSteady DEF Pump
<1>5. ~Reconnect
  BY DEF Reconnect, BeginReconnect, Reopen, RestoreMirror, EmitGapClose, RestFails, RestoreDone,
         Steady, LineUp
<1>6. CASE Kraken
  BY <1>6, KrakenSteady
<1>7. CASE UNCHANGED vars
  <2>1. UNCHANGED <<lifeVars, acks, stamp, responses, pc, job, conn, gaps>>
    BY <1>7 DEF vars, lifeVars, exchangeVars, stateVars, exitVars, loopVars, seqVars
  <2>. QED BY <2>1, LifeKept, ExitsKept DEF Steady, LineUp
<1>. QED BY <1>1, <1>2, <1>3, <1>4, <1>5, <1>6, <1>7 DEF Next

\* While the line holds, the invariant does.
THEOREM LivesAreSteady == ASSUME SteadyLine PROVE Spec => []Steady
<1>1. TypeOK /\ Init => Steady
  BY InitSteady
<1>2. SteadyLine
  OBVIOUS
<1>3. TypeOK /\ Steady /\ [Next]_vars => Steady'
  BY <1>2, StepSteady
<1>. QED BY <1>1, <1>3, TypeCorrect, PTL DEF Spec

\* A closing order and a stop of one position are never out together: sequence
\* rule I-6 holds however the acknowledgements and the orders are interleaved.
THEOREM NeverSoldTwice == ASSUME SteadyLine PROVE Spec => []CloseNeverRacesStop
<1>1. ASSUME TypeOK, Steady PROVE CloseNeverRacesStop
  <2>1. SUFFICES ASSUME NEW o \in book, NEW x \in book \cup pendingStops,
                        o.kind \in ClosingKinds, x.kind = "stop", o.pos = x.pos
                 PROVE  FALSE
    BY DEF CloseNeverRacesStop
  <2>2. Life
    BY <1>1 DEF Steady
  <2>3. o.sym \in Symbols /\ x.sym \in Symbols
    BY <1>1 DEF TypeOK, ExchangeTypeOK, ExitTypeOK, Orders
  <2>4. /\ IsOpen(mirror, o.sym) /\ o.pos = mirror[o.sym].id
        /\ IsOpen(mirror, x.sym) /\ x.pos = mirror[x.sym].id
    BY <2>1, <2>2 DEF Life, ExitOrders, ClosingKinds
  <2>5. o.sym = x.sym
    BY <1>1, <2>1, <2>2, <2>3, <2>4, StopNames
  <2>. QED BY <2>1, <2>2, <2>5 DEF Life, OneOrder, ClosingKinds
<1>. QED BY <1>1, LivesAreSteady, TypeCorrect, PTL

\* Two closing orders of one position are never out together: the stamp, the HELD
\* marker and the retry after a refusal dispatch one at a time.
THEOREM NeverClosedTwice == ASSUME SteadyLine PROVE Spec => []OneClosingOrderPerPosition
<1>1. ASSUME TypeOK, Steady PROVE OneClosingOrderPerPosition
  <2>1. SUFFICES ASSUME NEW o \in book, NEW x \in book, o.kind \in ClosingKinds,
                        x.kind \in ClosingKinds, o.pos = x.pos
                 PROVE  o = x
    BY DEF OneClosingOrderPerPosition
  <2>2. Life
    BY <1>1 DEF Steady
  <2>3. o.sym \in Symbols /\ x.sym \in Symbols
    BY <1>1 DEF TypeOK, ExchangeTypeOK, Orders
  <2>4. /\ IsOpen(mirror, o.sym) /\ o.pos = mirror[o.sym].id
        /\ IsOpen(mirror, x.sym) /\ x.pos = mirror[x.sym].id
    BY <2>1, <2>2 DEF Life, ExitOrders, ClosingKinds
  <2>5. o.sym = x.sym
    BY <1>1, <2>1, <2>2, <2>3, <2>4, StopNames
  <2>. QED BY <2>2, <2>5 DEF Life, OneOrder
<1>. QED BY <1>1, LivesAreSteady, TypeCorrect, PTL

\* Once every report is read the mirror is the account, whatever stops fired and
\* whatever exits were retried, refused or given up on the way.
THEOREM MirrorIsTheAccount == ASSUME SteadyLine PROVE Spec => []MirrorMatchesAccount
<1>1. ASSUME Steady PROVE MirrorMatchesAccount
  <2>1. SUFFICES ASSUME frames = <<>>, NEW s \in Symbols
                 PROVE  account[s] = IF IsOpen(mirror, s)
                                     THEN Signed(mirror[s].side, mirror[s].qty) ELSE 0
    BY DEF MirrorMatchesAccount
  <2>2. InFlight = {}
    BY <2>1 DEF InFlight
  <2>. QED BY <1>1, <2>2 DEF Steady, Life, Accounts, Mirrors, Signed
<1>. QED BY <1>1, LivesAreSteady, PTL

-----------------------------------------------------------------------------
(* The default edges: nothing is read while an exit is driven.             *)

\* The position being closed stays the mirror's, so that neither its stamp nor its
\* HELD marker outlives it; a stamped position whose stop can still fire is the one
\* whose cancel is being asked for.
Cancelling == pc \in {"ack1", "ack2"}
Attended ==
    /\ Driving => mirror[job.pos.sym] = job.pos
    /\ \A s \in held : IsOpen(mirror, s)
    /\ \A s \in Symbols : stamp[s] # None /\ ~StopGone(s) => Cancelling /\ job.pos.sym = s

\* A stop that is gone does not come back while its position is open.
LEMMA StopStaysGone ==
    ASSUME SteadyLine, TypeOK, Steady, Next, NEW s \in Symbols, IsOpen(mirror, s), StopGone(s)
    PROVE  StopGone(s)'
<1>1. CASE Pipeline
  <2>1. PICK t \in Symbols, sd \in EntrySides :
            book' = book \cup {Order("entry", <<"entry", entrySeq + 1, 0>>,
                                     <<"entry", entrySeq + 1, 0>>, t, sd, 0)}
    BY <1>1 DEF Pipeline, DispatchEntry, Steady, LineUp
  <2>2. UNCHANGED <<frames, pendingStops>>
    BY <1>1 DEF Pipeline, DispatchEntry, exitVars
  <2>. QED BY <2>1, <2>2 DEF StopGone, InFlight, Order
<1>2. CASE PublicLoops \/ Operator
  <2>1. UNCHANGED lifeVars
    BY <1>2 DEF PublicLoops, Operator, HandleTicker, RegimeExit, LimitOnlyExit, ClearHeld,
                lifeVars, exchangeVars, stateVars, loopVars, seqVars
  <2>. QED BY <2>1, LifeKept
<1>3. CASE ReadFrame
  <2>1. TakeFrame
    BY <1>3 DEF ReadFrame, FillOpens, FillUpdates, FillCloses, ReadCanceled, ReadResponse, ReadSnapshot
  <2>2. InFlight' \subseteq InFlight /\ UNCHANGED book
    BY <2>1, Reading
  <2>3. \A o \in pendingStops' : o \in pendingStops \/ o.sym # s
    <3>1. CASE FillOpens
      <4>1. Head(frames).sym # s
        BY <3>1 DEF FillOpens, FillAction
      <4>. QED BY <3>1, <4>1 DEF FillOpens, Order
    <3>2. CASE ~FillOpens
      BY <1>3, <3>2
      DEF ReadFrame, FillUpdates, FillCloses, ReadCanceled, ReadResponse, ReadSnapshot, exitVars
    <3>. QED BY <3>1, <3>2
  <2>. QED BY <2>2, <2>3 DEF StopGone
<1>4. CASE Pump
  <2>1. CASE PlaceEmergSl
    <3>1. UNCHANGED frames /\ book' \cup pendingStops' = book \cup pendingStops
      BY <2>1 DEF PlaceEmergSl, Steady, LineUp
    <3>. QED BY <3>1 DEF StopGone, InFlight
  <2>2. CASE SendMarketClose \/ SendLimitOnlyClose \/ ProbeRejectedRetry
    <3>1. PICK kind \in ClosingKinds : book' = book \cup {CloseOrder(kind, exitSeq + 1)}
      BY <2>2 DEF SendMarketClose, SendLimitOnlyClose, ProbeRejectedRetry, SendClose,
                  Steady, LineUp, ClosingKinds
    <3>2. UNCHANGED <<frames, pendingStops>>
      BY <2>2 DEF SendMarketClose, SendLimitOnlyClose, ProbeRejectedRetry, SendClose, exitVars
    <3>. QED BY <3>1, <3>2 DEF StopGone, InFlight, CloseOrder, Order, ClosingKinds
  <2>3. CASE IdleTick \/ ExitsDrained \/ StartExit \/ AckTimeoutRetry \/ HoldAmbiguous
             \/ DeferNoQuote \/ ProbeAccepted \/ HoldMppExhausted
    <3>1. UNCHANGED lifeVars
      BY <2>3 DEF IdleTick, ExitsDrained, StartExit, AckTimeoutRetry, HoldAmbiguous,
                  DeferNoQuote, ProbeAccepted, HoldMppExhausted,
                  lifeVars, exchangeVars, stateVars, exitVars, seqVars
    <3>. QED BY <3>1, LifeKept
  <2>. QED BY <1>4, <2>1, <2>2, <2>3 DEF Pump
<1>5. ~Reconnect
  BY DEF Reconnect, BeginReconnect, Reopen, RestoreMirror, EmitGapClose, RestFails, RestoreDone,
         Steady, LineUp
<1>6. CASE Kraken
  <2>1. KrakenMoves /\ UNCHANGED pendingStops
    BY <1>6, KrakenKinds DEF clientVars, exitVars
  <2>2. CASE \E o \in book : Ended(o)
    <3>1. PICK o \in book : Ended(o)
      BY <2>2
    <3>2. PICK G : Ends(o, G)
      BY <3>1 DEF Ended
    <3>3. \A g \in G : g.t # "fill"
      BY <3>2 DEF Ends, CanceledFrame, ResponseFrame
    <3>. QED BY <2>1, <3>2, <3>3 DEF Ends, Leaves, StopGone, FillOf
  <2>3. CASE \E o \in book : Executed(o)
    <3>1. PICK o \in book : Executed(o)
      BY <2>3
    <3>2. PICK q \in Nat : \E G : Executes(o, q, G)
      BY <3>1 DEF Executed
    <3>3. PICK G : Executes(o, q, G)
      BY <3>2
    <3>4. \A g \in G : g.t = "fill" => g.sym = o.sym /\ g.side = o.side /\ g.id = o.id
      BY <3>3 DEF Executes, FillFrame, ResponseFrame
    <3>5. o.kind = "stop" => o.sym # s
      BY DEF StopGone
    <3>6. o.kind # "stop" => o.side = "long" \/ o.id[1] = "exit"
      BY OrderFacts DEF Steady, Life, EntryOrders
    <3>. QED BY <2>1, <3>3, <3>4, <3>5, <3>6 DEF Executes, Leaves, StopGone, FillOf
  <2>4. CASE AcceptStop
    <3>1. PICK o \in book : /\ o.kind = "stop"
                            /\ book' = (book \ {o}) \cup {[o EXCEPT !.st = "resting"]}
                            /\ UNCHANGED frames
      BY <2>4 DEF AcceptStop
    <3>2. [o EXCEPT !.st = "resting"].sym = o.sym
      BY DEF TypeOK, ExchangeTypeOK, Orders
    <3>. QED BY <2>1, <3>1, <3>2 DEF StopGone, InFlight
  <2>5. CASE UNCHANGED <<book, account, frames>>
    BY <2>1, <2>5 DEF StopGone, InFlight
  <2>. QED BY <2>1, <2>2, <2>3, <2>4, <2>5 DEF KrakenMoves
<1>. QED BY <1>1, <1>2, <1>3, <1>4, <1>5, <1>6 DEF Next

\* A step that sets no stamp, holds no other symbol than the one being closed, and
\* stops asking for a cancel only when the stop is gone or the exit is given up.
StopsStayGone == \A s \in Symbols : IsOpen(mirror, s) /\ StopGone(s) => StopGone(s)'
AttendsOn ==
    /\ UNCHANGED mirror /\ StopsStayGone
    /\ \A s \in Symbols : stamp'[s] # None => stamp[s] # None
    /\ \A s \in held' : s \in held \/ (Driving /\ s = job.pos.sym)
    /\ Driving' => Driving /\ job'.pos = job.pos
    /\ Cancelling => \/ Cancelling' /\ job' = job
                     \/ stamp'[job.pos.sym] = None \/ StopGone(job.pos.sym)
LEMMA AttendedKept ==
    ASSUME TypeOK, Steady, Attended, AttendsOn
    PROVE  Attended'
<1> USE DEF AttendsOn, StopsStayGone
<1>1. ASSUME Driving PROVE job.pos.sym \in Symbols /\ IsOpen(mirror, job.pos.sym)
  <2>1. job.pos \in Positions
    BY <1>1 DEF Driving, TypeOK, LoopTypeOK, Jobs
  <2>. QED BY <1>1, <2>1, NoneAssumption DEF Attended, IsOpen, Positions
<1>2. Driving' => mirror'[job'.pos.sym] = job'.pos
  BY DEF Attended
<1>3. \A s \in held' : IsOpen(mirror', s)
  BY <1>1 DEF Attended
<1>4. ASSUME NEW s \in Symbols, stamp'[s] # None, ~StopGone(s)'
      PROVE  Cancelling' /\ job'.pos.sym = s
  <2>1. stamp[s] # None /\ IsOpen(mirror, s)
    BY <1>4 DEF Steady, Exits, Stamps
  <2>2. ~StopGone(s)
    BY <1>4, <2>1
  <2>3. Cancelling /\ job.pos.sym = s
    BY <2>1, <2>2 DEF Attended
  <2>. QED BY <1>4, <2>2, <2>3
<1>. QED BY <1>2, <1>3, <1>4 DEF Attended

\* No step breaks it, as long as only the loop itself reads.
LEMMA AttendedStep ==
    ASSUME SteadyLine, ~OwnReader, TypeOK, Steady, Attended, [Next]_vars
    PROVE  Attended'
<1>1. Next => StopsStayGone
  BY StopStaysGone DEF StopsStayGone
<1>2. CASE Pipeline
  <2>1. UNCHANGED <<mirror, stamp, held, pc, job>>
    BY <1>2 DEF Pipeline, DispatchEntry, exitVars, loopVars
  <2>2. AttendsOn
    BY <1>1, <1>2, <2>1 DEF Next, AttendsOn, Driving, Cancelling
  <2>. QED BY <2>2, AttendedKept
<1>3. CASE PublicLoops \/ Operator
  <2>1. UNCHANGED <<mirror, pc, job>> /\ held' \subseteq held
    BY <1>3 DEF PublicLoops, Operator, HandleTicker, RegimeExit, LimitOnlyExit, ClearHeld,
                stateVars, loopVars
  <2>2. \A s \in Symbols : stamp'[s] # None => stamp[s] # None
    <3>1. ASSUME NEW i, Enqueue(i) PROVE \A s \in Symbols : stamp'[s] # None => stamp[s] # None
      BY <3>1 DEF Enqueue, TypeOK, ExitTypeOK
    <3>. QED BY <1>3, <3>1 DEF PublicLoops, Operator, HandleTicker, RegimeExit, LimitOnlyExit,
                               ClearHeld
  <2>3. AttendsOn
    BY <1>1, <1>3, <2>1, <2>2 DEF Next, AttendsOn, Driving, Cancelling
  <2>. QED BY <2>3, AttendedKept
<1>4. CASE ReadFrame
  <2>1. TakeFrame
    BY <1>4 DEF ReadFrame, FillOpens, FillUpdates, FillCloses, ReadCanceled, ReadResponse, ReadSnapshot
  <2>2. ~Driving /\ ~Cancelling /\ ~Driving'
    BY <2>1 DEF TakeFrame, CanRead, Driving, Cancelling
  <2>3. CASE FillOpens
    <3>1. PICK f \in Frames : f = Head(frames)
      BY <2>1, Reading
    <3>2. f.sym \in Symbols
      BY <2>3, <3>1, FrameKinds DEF FillOpens
    <3>3. /\ ~IsOpen(mirror, f.sym) /\ UNCHANGED <<stamp, held>>
          /\ \A s \in Symbols : s # f.sym => mirror'[s] = mirror[s]
      BY <2>3, <3>1, <3>2 DEF FillOpens, FillAction, ApplyFill, TypeOK, StateTypeOK
    <3>4. \A s \in held' : IsOpen(mirror', s)
      BY <3>3 DEF Attended, TypeOK, ExitTypeOK, IsOpen
    <3>5. ASSUME NEW s \in Symbols, stamp'[s] # None PROVE StopGone(s)'
      BY <1>1, <1>4, <2>2, <3>3, <3>5 DEF Next, Attended, StopsStayGone, Steady, Exits, Stamps
    <3>. QED BY <2>2, <3>4, <3>5 DEF Attended
  <2>4. CASE FillCloses
    <3>1. PICK f \in Frames : f = Head(frames)
      BY <2>1, Reading
    <3>2. f.sym \in Symbols
      BY <2>4, <3>1, FrameKinds DEF FillCloses
    <3>3. /\ IsOpen(mirror, f.sym) /\ held' = held \ {mirror[f.sym].sym}
          /\ stamp' = [stamp EXCEPT ![f.sym] = None]
          /\ \A s \in Symbols : s # f.sym => mirror'[s] = mirror[s]
      BY <2>4, <3>1, <3>2
      DEF FillCloses, FillAction, ApplyFill, PopStamp, RecordCloses, DropLiveState, TypeOK, StateTypeOK
    <3>4. mirror[f.sym].sym = f.sym
      BY <3>2, <3>3 DEF Steady, Life, Mirrors
    <3>5. \A s \in held' : IsOpen(mirror', s)
      BY <3>3, <3>4 DEF Attended, TypeOK, ExitTypeOK, IsOpen
    <3>6. ASSUME NEW s \in Symbols, stamp'[s] # None PROVE StopGone(s)'
      <4>1. stamp[s] # None
        BY <3>2, <3>3, <3>6 DEF TypeOK, ExitTypeOK
      <4>. QED BY <1>1, <1>4, <2>2, <4>1 DEF Next, Attended, StopsStayGone, Steady, Exits, Stamps
    <3>. QED BY <2>2, <3>5, <3>6 DEF Attended
  <2>5. CASE ReadCanceled \/ ReadResponse \/ ReadSnapshot
    <3>1. UNCHANGED <<mirror, stamp>> /\ held' \subseteq held
      BY <2>5, SnapshotRead
      DEF ReadCanceled, ReadResponse, ReadSnapshot, stateVars, RecordCloses, DropLiveState
    <3>2. AttendsOn
      BY <1>1, <1>4, <2>2, <3>1 DEF Next, AttendsOn
    <3>. QED BY <3>2, AttendedKept
  <2>. QED BY <1>4, <2>3, <2>4, <2>5, NoUpdate DEF ReadFrame
<1>5. CASE Pump
  <2>1. CASE StartExit
    <3>1. PICK i \in intents :
              /\ ~Refused(i)
              /\ stamp' = [stamp EXCEPT ![i.sym] = i.reason]
              /\ job' = [pos |-> mirror[i.sym], kind |-> i.kind, quote |-> i.quote, n |-> 0]
              /\ pc' = "ack1" /\ AtExits
      BY <2>1 DEF StartExit, SendCancel, Steady, LineUp
    <3>2. UNCHANGED <<mirror, held>>
      BY <2>1 DEF StartExit, stateVars
    <3>3. i.sym \in Symbols /\ job'.pos = mirror[i.sym] /\ mirror[i.sym].sym = i.sym
      BY <3>1 DEF Refused, TypeOK, ExitTypeOK, Intents, Steady, Life, Mirrors
    <3>4. ASSUME NEW s \in Symbols, s # i.sym, stamp'[s] # None PROVE StopGone(s)'
      <4>1. stamp[s] # None /\ ~Cancelling
        BY <3>1, <3>3, <3>4 DEF TypeOK, ExitTypeOK, AtExits, Cancelling
      <4>. QED BY <1>1, <1>5, <4>1 DEF Next, Attended, StopsStayGone, Steady, Exits, Stamps
    <3>. QED BY <3>1, <3>2, <3>3, <3>4 DEF Attended, Cancelling
  <2>2. CASE SendMarketClose \/ SendLimitOnlyClose
    <3>1. /\ UNCHANGED <<mirror, stamp, held>> /\ Driving /\ StopGone(job.pos.sym)
          /\ Driving' => job'.pos = job.pos
      <4>1. Acking /\ CancelConfirmed /\ Driving
        BY <2>2 DEF SendMarketClose, SendLimitOnlyClose, Acking, Driving
      <4>2. StopGone(job.pos.sym)
        BY <4>1, ConfirmedIsBare DEF Bare, StopGone
      <4>3. job \in Jobs
        BY <4>1 DEF Driving, TypeOK, LoopTypeOK
      <4>4. UNCHANGED <<mirror, stamp, held>> /\ (Driving' => job'.pos = job.pos)
        BY <2>2, <4>3 DEF SendMarketClose, SendLimitOnlyClose, SendClose, Driving, Jobs,
                          Steady, LineUp, stateVars, exitVars
      <4>. QED BY <4>1, <4>2, <4>4
    <3>2. AttendsOn
      BY <1>1, <1>5, <3>1 DEF Next, AttendsOn
    <3>. QED BY <3>2, AttendedKept
  <2>3. CASE ProbeRejectedRetry
    <3>1. pc = "probe" /\ job \in Jobs /\ UNCHANGED <<mirror, stamp, held>>
      BY <2>3 DEF ProbeRejectedRetry, TypeOK, LoopTypeOK, stateVars
    <3>2. Driving' => job'.pos = job.pos
      BY <2>3, <3>1 DEF ProbeRejectedRetry, SendClose, Steady, LineUp, Jobs
    <3>3. AttendsOn
      BY <1>1, <1>5, <3>1, <3>2 DEF Next, AttendsOn, Driving, Cancelling
    <3>. QED BY <3>3, AttendedKept
  <2>4. CASE HoldAmbiguous \/ DeferNoQuote \/ HoldMppExhausted
    <3>1. /\ UNCHANGED mirror /\ Driving /\ pc' = "exits"
          /\ stamp' = [stamp EXCEPT ![job.pos.sym] = None]
          /\ held' \subseteq held \cup {job.pos.sym}
      BY <2>4 DEF HoldAmbiguous, DeferNoQuote, HoldMppExhausted, Hold, PopStamp, Acking, Driving,
                  stateVars
    <3>2. job.pos.sym \in Symbols
      BY <3>1 DEF Driving, TypeOK, LoopTypeOK, Jobs, Positions
    <3>3. \A s \in Symbols : stamp'[s] # None => stamp[s] # None
      BY <3>1, <3>2 DEF TypeOK, ExitTypeOK
    <3>4. stamp'[job.pos.sym] = None
      BY <3>1, <3>2 DEF TypeOK, ExitTypeOK
    <3>5. ~Driving'
      BY <3>1 DEF Driving
    <3>6. AttendsOn
      BY <1>1, <1>5, <3>1, <3>3, <3>4, <3>5 DEF Next, AttendsOn
    <3>. QED BY <3>6, AttendedKept
  <2>5. CASE IdleTick \/ ExitsDrained \/ ProbeAccepted \/ AckTimeoutRetry \/ PlaceEmergSl
    <3>1. /\ UNCHANGED <<mirror, stamp, held>> /\ (Driving' => Driving /\ job' = job)
          /\ Cancelling => Cancelling' /\ job' = job
      BY <2>5 DEF IdleTick, ExitsDrained, ProbeAccepted, AckTimeoutRetry, PlaceEmergSl, AtExits,
                  SendCancel, Steady, LineUp, Driving, Cancelling, stateVars, exitVars
    <3>2. AttendsOn
      BY <1>1, <1>5, <3>1 DEF Next, AttendsOn
    <3>. QED BY <3>2, AttendedKept
  <2>. QED BY <1>5, <2>1, <2>2, <2>3, <2>4, <2>5 DEF Pump
<1>6. ~Reconnect
  BY DEF Reconnect, BeginReconnect, Reopen, RestoreMirror, EmitGapClose, RestFails, RestoreDone,
         Steady, LineUp
<1>7. CASE Kraken
  <2>1. UNCHANGED <<mirror, stamp, held, pc, job>>
    BY <1>7 DEF Kraken, stateVars, exitVars, loopVars
  <2>2. AttendsOn
    BY <1>1, <1>7, <2>1 DEF Next, AttendsOn, Driving, Cancelling
  <2>. QED BY <2>2, AttendedKept
<1>8. CASE UNCHANGED vars
  <2>1. UNCHANGED <<lifeVars, mirror, stamp, held, pc, job>>
    BY <1>8 DEF vars, lifeVars, exchangeVars, stateVars, exitVars, loopVars, seqVars
  <2>2. \A s : StopGone(s)' = StopGone(s)
    BY <2>1, LifeKept
  <2>3. AttendsOn
    BY <2>1, <2>2 DEF AttendsOn, StopsStayGone, Driving, Cancelling
  <2>. QED BY <2>3, AttendedKept
<1>. QED BY <1>2, <1>3, <1>4, <1>5, <1>6, <1>7, <1>8 DEF Next

\* The driver's wait leaves its position alone, whatever is queued meanwhile.
THEOREM ExitsAreAttended == ASSUME SteadyLine, ~OwnReader PROVE Spec => []Attended
<1>1. Init => Attended
  BY DEF Init, Attended, Driving, EmptyStore
<1>2. SteadyLine /\ ~OwnReader
  OBVIOUS
<1>3. TypeOK /\ Steady /\ Attended /\ [Next]_vars => Attended'
  BY <1>2, AttendedStep
<1>. QED BY <1>1, <1>3, TypeCorrect, LivesAreSteady, PTL DEF Spec

\* What ws_manager keeps by symbol is of that symbol's position: no HELD marker, no
\* exit stamp and no entry snapshot is inherited by the next one.
THEOREM NothingInherited == ASSUME SteadyLine, ~OwnReader PROVE Spec => []NothingIsInherited
<1>1. ASSUME TypeOK, Steady, Attended PROVE NothingIsInherited
  <2>1. \A s \in Symbols : IsOpen(mirror, s) => mirror[s] \in Owed /\ mirror[s].sym = s
    BY <1>1 DEF Owed, Steady, Life, Mirrors
  <2>2. HeldNeedsPosition
    BY <1>1, <2>1 DEF HeldNeedsPosition, Attended, TypeOK, ExitTypeOK
  <2>3. StampNeedsPosition
    BY <1>1, <2>1 DEF StampNeedsPosition, Steady, Exits, Stamps
  <2>4. SnapshotIsItsOwn
    BY <1>1 DEF SnapshotIsItsOwn, Owed, Steady, LineUp, Life, Mirrors
  <2>. QED BY <2>2, <2>3, <2>4 DEF NothingIsInherited
<1>. QED BY <1>1, ExitsAreAttended, LivesAreSteady, TypeCorrect, PTL

\* A record that gives a dispatched exit's reason is written on the fill of that
\* exit's order: while an exit is stamped its stop is gone or nothing is read.
THEOREM ReasonsAreOfTheOrder ==
    ASSUME SteadyLine, ~OwnReader PROVE Spec => ReasonNamesTheOrder
<1> DEFINE Named ==
        \A n \in DOMAIN closes :
            \A k \in DOMAIN closes'[n] \ DOMAIN closes[n] :
                closes'[n][k] # Emergency => Head(frames).id[1] = "exit"
<1>1. SteadyLine /\ ~OwnReader
  OBVIOUS
<1>2. ASSUME TypeOK, Steady, Attended, [Next]_vars PROVE [Named]_vars
  <2>1. SUFFICES ASSUME Next PROVE Named
    BY <1>2
  <2>2. ASSUME UNCHANGED closes PROVE Named
    BY <2>2
  <2>3. ASSUME NEW P, NEW reason, EmitTradeClose(P, reason),
               reason # Emergency => Head(frames).id[1] = "exit"
        PROVE  Named
    <3>1. SUFFICES ASSUME NEW n \in DOMAIN closes, NEW k \in DOMAIN closes'[n] \ DOMAIN closes[n],
                          closes'[n][k] # Emergency
                   PROVE  Head(frames).id[1] = "exit"
      OBVIOUS
    <3>2. closes[n] \in Seq(Reasons \cup {Emergency})
      BY <1>2, ElementOfSeq, LenProperties DEF TypeOK, SeqTypeOK
    <3>3. closes'[n] = closes[n] \/ closes'[n] = Append(closes[n], reason)
      BY <2>3 DEF EmitTradeClose
    <3>4. closes'[n] = Append(closes[n], reason)
      BY <3>1, <3>3
    <3>5. closes'[n][k] = reason
      BY <3>1, <3>2, <3>4, LenProperties
    <3>. QED BY <2>3, <3>1, <3>5
  <2>4. CASE FillOpens
    <3>1. closes' = Append(closes, <<>>) /\ closes \in Seq(Seq(Reasons \cup {Emergency}))
      BY <1>2, <2>4 DEF FillOpens, TypeOK, SeqTypeOK
    <3>2. \A n \in DOMAIN closes : closes'[n] = closes[n]
      BY <3>1, AppendProperties, LenProperties
    <3>. QED BY <3>2
  <2>5. CASE FillCloses
    <3>1. PICK f \in Frames : f = Head(frames)
      BY <1>2, <2>5, Reading DEF FillCloses
    <3>2. TakeFrame /\ f.t = "fill" /\ IsOpen(mirror, f.sym) /\ f \in InFlight
      BY <1>2, <2>5, <3>1, Reading DEF FillCloses, FillAction
    <3>3. f.sym \in Symbols /\ f.side # "long"
      BY <1>2, <3>1, <3>2, FillHead
    <3>4. EmitTradeClose({mirror[f.sym]}, IF stamp[f.sym] # None THEN stamp[f.sym] ELSE Emergency)
      BY <2>5, <3>1 DEF FillCloses, RecordCloses
    <3>5. ~Cancelling
      BY <1>1, <3>2 DEF TakeFrame, CanRead, Cancelling
    <3>6. stamp[f.sym] # None => f.id[1] = "exit"
      BY <1>2, <3>2, <3>3, <3>5 DEF Attended, StopGone, FillOf
    <3>. QED BY <2>3, <3>1, <3>4, <3>6
  <2>6. CASE ReadSnapshot
    <3>1. PICK P : EmitTradeClose(P, Emergency)
      BY <2>6 DEF ReadSnapshot, RecordCloses
    <3>. QED BY <2>3, <3>1
  <2>7. ~Reconnect
    BY <1>2 DEF Reconnect, BeginReconnect, Reopen, RestoreMirror, EmitGapClose, RestFails,
                RestoreDone, Steady, LineUp
  <2>8. CASE ReadCanceled \/ ReadResponse
    BY <2>2, <2>8 DEF ReadCanceled, ReadResponse
  <2>9. CASE Pipeline \/ PublicLoops \/ Operator \/ Pump \/ Kraken
    <3>1. UNCHANGED closes
      BY <2>9
      DEF Pipeline, PublicLoops, Operator, Pump, Kraken, DispatchEntry, HandleTicker, RegimeExit,
          LimitOnlyExit, ClearHeld, IdleTick, PlaceEmergSl, ExitsDrained, StartExit,
          AckTimeoutRetry, HoldAmbiguous, SendMarketClose, SendLimitOnlyClose, DeferNoQuote,
          ProbeAccepted, ProbeRejectedRetry, HoldMppExhausted, seqVars
    <3>. QED BY <2>2, <3>1
  <2>. QED BY <1>2, <2>1, <2>4, <2>5, <2>6, <2>7, <2>8, <2>9, NoUpdate DEF Next, ReadFrame
<1>3. TypeOK /\ Steady /\ Attended /\ [Next]_vars => [Named]_vars
  BY <1>2
<1>4. Spec => [][Named]_vars
  BY <1>1, <1>3, ExitsAreAttended, LivesAreSteady, TypeCorrect, PTL DEF Spec
<1>. QED BY <1>4 DEF ReasonNamesTheOrder

-----------------------------------------------------------------------------
(* A position is never left bare.                                          *)

\* The stop of the position open on s is gone, or its cancel is awaited by the driver
\* of its exit, or the operator was told that the cancel was not confirmed.
Watched(s) ==
    \/ clears > 0
    \/ s \in held
    \/ StopGone(s)
    \/ Cancelling /\ job.pos = mirror[s]

\* A cancel under way is of such a position.
CancelsWatched ==
    /\ \A c \in cancels : c \in ClOrdIds /\ c[2] <= entrySeq
    /\ \A c \in cancels, s \in Symbols :
          Name(s) # None /\ c = StopId(Name(s)) => IsOpen(mirror, s) /\ Watched(s)

\* What is open after a step was open before it, or has just been opened.
LEMMA PositionSteps ==
    ASSUME TypeOK, Steady, Next
    PROVE  /\ \A s \in Symbols : mirror'[s] # None =>
                 \/ mirror'[s] = mirror[s]
                 \/ FillOpens /\ s = Head(frames).sym /\ mirror[s] = None
           /\ \A s \in Symbols : pendingEntry'[s] # None =>
                 \/ pendingEntry'[s] = pendingEntry[s]
                 \/ entrySeq' = entrySeq + 1 /\ pendingEntry'[s] = <<"entry", entrySeq + 1, 0>>
                    /\ mirror'[s] = mirror[s]
<1> DEFINE Goal ==
        /\ \A s \in Symbols : mirror'[s] # None =>
                 \/ mirror'[s] = mirror[s]
                 \/ FillOpens /\ s = Head(frames).sym /\ mirror[s] = None
        /\ \A s \in Symbols : pendingEntry'[s] # None =>
                 \/ pendingEntry'[s] = pendingEntry[s]
                 \/ entrySeq' = entrySeq + 1 /\ pendingEntry'[s] = <<"entry", entrySeq + 1, 0>>
                    /\ mirror'[s] = mirror[s]
<1>1. ASSUME UNCHANGED <<mirror, pendingEntry>> PROVE Goal
  BY <1>1
<1>2. CASE Pipeline
  <2>1. PICK t \in Symbols : Stash(t, <<"entry", entrySeq + 1, 0>>)
    BY <1>2 DEF Pipeline, DispatchEntry
  <2>2. UNCHANGED mirror /\ entrySeq' = entrySeq + 1
    BY <1>2 DEF Pipeline, DispatchEntry
  <2>3. \A s \in Symbols : \/ pendingEntry'[s] = pendingEntry[s]
                            \/ pendingEntry'[s] = <<"entry", entrySeq + 1, 0>>
    BY <2>1 DEF Stash, TypeOK, StateTypeOK
  <2>. QED BY <2>2, <2>3
<1>3. CASE PublicLoops \/ Operator \/ Pump \/ Kraken
  BY <1>1, <1>3
  DEF PublicLoops, Operator, Pump, Kraken, HandleTicker, RegimeExit, LimitOnlyExit, ClearHeld,
      IdleTick, PlaceEmergSl, ExitsDrained, StartExit, AckTimeoutRetry, HoldAmbiguous,
      SendMarketClose, SendLimitOnlyClose, DeferNoQuote, ProbeAccepted, ProbeRejectedRetry,
      HoldMppExhausted, stateVars
<1>4. CASE ReadCanceled \/ ReadResponse \/ ReadSnapshot
  BY <1>1, <1>4, SnapshotRead DEF ReadCanceled, ReadResponse, ReadSnapshot, stateVars
<1>5. CASE FillOpens
  <2>1. PICK f \in Frames : f = Head(frames)
    BY <1>5, Reading DEF FillOpens
  <2>2. f.sym \in Symbols
    BY <1>5, <2>1, FrameKinds DEF FillOpens
  <2>3. /\ mirror[f.sym] = None
        /\ \A s \in Symbols : s # f.sym => mirror'[s] = mirror[s]
        /\ \A s \in Symbols : pendingEntry'[s] = pendingEntry[s] \/ pendingEntry'[s] = None
    BY <1>5, <2>1, <2>2 DEF FillOpens, FillAction, IsOpen, ApplyFill, TypeOK, StateTypeOK
  <2>. QED BY <1>5, <2>1, <2>3
<1>6. CASE FillCloses
  <2>1. PICK f \in Frames : f = Head(frames)
    BY <1>6, Reading DEF FillCloses
  <2>2. f.sym \in Symbols
    BY <1>6, <2>1, FrameKinds DEF FillCloses
  <2>3. /\ \A s \in Symbols : mirror'[s] = mirror[s] \/ mirror'[s] = None
        /\ UNCHANGED pendingEntry
    BY <1>6, <2>1, <2>2 DEF FillCloses, FillAction, ApplyFill, TypeOK, StateTypeOK
  <2>. QED BY <2>3
<1>7. ~Reconnect
  BY DEF Reconnect, BeginReconnect, Reopen, RestoreMirror, EmitGapClose, RestFails, RestoreDone,
         Steady, LineUp
<1>. QED BY <1>2, <1>3, <1>4, <1>5, <1>6, <1>7, NoUpdate DEF Next, ReadFrame

\* HELD markers go only with their position, or by the operator.
LEMMA HoldingLasts ==
    ASSUME TypeOK, Steady, Next, NEW s \in Symbols, s \in held,
           mirror[s] # None, mirror'[s] # None
    PROVE  s \in held' \/ ClearHeld
<1>1. CASE Pipeline \/ Kraken
  BY <1>1 DEF Pipeline, Kraken, DispatchEntry, exitVars
<1>2. CASE PublicLoops
  BY <1>2 DEF PublicLoops, HandleTicker, RegimeExit, LimitOnlyExit
<1>3. CASE Operator
  BY <1>3 DEF Operator
<1>4. CASE FillOpens \/ ReadCanceled \/ ReadResponse
  BY <1>4 DEF FillOpens, ReadCanceled, ReadResponse
<1>5. CASE FillCloses
  <2>1. PICK f \in Frames : f = Head(frames)
    BY <1>5, Reading DEF FillCloses
  <2>2. f.sym \in Symbols /\ IsOpen(mirror, f.sym)
    BY <1>5, <2>1, FrameKinds DEF FillCloses, FillAction
  <2>3. held' = held \ {mirror[f.sym].sym} /\ mirror'[f.sym] = None
    BY <1>5, <2>1, <2>2
    DEF FillCloses, FillAction, ApplyFill, RecordCloses, DropLiveState, TypeOK, StateTypeOK
  <2>4. mirror[f.sym].sym = f.sym /\ s # f.sym
    BY <2>2, <2>3 DEF Steady, Life, Mirrors
  <2>. QED BY <2>3, <2>4
<1>6. ~ReadSnapshot
  BY Reading DEF ReadSnapshot, Steady, SnapshotEmpty, IsOpen
<1>7. CASE Pump
  BY <1>7 DEF Pump, IdleTick, PlaceEmergSl, ExitsDrained, StartExit, AckTimeoutRetry,
              HoldAmbiguous, Hold, SendMarketClose, SendLimitOnlyClose, DeferNoQuote,
              ProbeAccepted, ProbeRejectedRetry, HoldMppExhausted, exitVars
<1>8. ~Reconnect
  BY DEF Reconnect, BeginReconnect, Reopen, RestoreMirror, EmitGapClose, RestFails, RestoreDone,
         Steady, LineUp
<1>. QED BY <1>1, <1>2, <1>3, <1>4, <1>5, <1>6, <1>7, <1>8, NoUpdate DEF Next, ReadFrame

\* The driver leaves the exit of an open position in one of six ways.
LEMMA DrivingEnds ==
    ASSUME TypeOK, Steady, Next, Driving
    PROVE  \/ UNCHANGED <<pc, job>>
           \/ AckTimeoutRetry \/ HoldAmbiguous \/ SendMarketClose \/ SendLimitOnlyClose
           \/ DeferNoQuote \/ ProbeAccepted \/ ProbeRejectedRetry \/ HoldMppExhausted
<1>1. CASE Pipeline \/ PublicLoops \/ Operator \/ Kraken
  BY <1>1 DEF Pipeline, PublicLoops, Operator, Kraken, DispatchEntry, HandleTicker, RegimeExit,
              LimitOnlyExit, ClearHeld, loopVars
<1>2. CASE ReadFrame
  <2>1. TakeFrame
    BY <1>2 DEF ReadFrame, FillOpens, FillUpdates, FillCloses, ReadCanceled, ReadResponse, ReadSnapshot
  <2>. QED BY <2>1 DEF TakeFrame, Driving
<1>3. CASE Pump
  <2>1. ~(IdleTick \/ PlaceEmergSl \/ ExitsDrained \/ StartExit)
    BY DEF IdleTick, PlaceEmergSl, ExitsDrained, StartExit, AtExits, Driving
  <2>. QED BY <1>3, <2>1 DEF Pump
<1>4. ~Reconnect
  BY DEF Reconnect, BeginReconnect, Reopen, RestoreMirror, EmitGapClose, RestFails, RestoreDone,
         Steady, LineUp
<1>. QED BY <1>1, <1>2, <1>3, <1>4 DEF Next

\* While its position stays open, a watched symbol stays watched: the driver leaves
\* the wait for the cancel with the stop gone, or with the symbol HELD.
LEMMA WatchingLasts ==
    ASSUME SteadyLine, TypeOK, TypeOK', Steady, Next, NEW s \in Symbols, Watched(s),
           mirror[s] # None, mirror'[s] = mirror[s]
    PROVE  Watched(s)'
<1>1. clears \in Nat /\ (clears' = clears \/ clears' = clears + 1)
  <2>1. clears \in Nat
    BY DEF TypeOK, SeqTypeOK
  <2>2. clears' = clears \/ clears' = clears + 1
    BY DEF Next, Pipeline, PublicLoops, Operator, ReadFrame, Pump, Kraken, DispatchEntry,
           HandleTicker, RegimeExit, LimitOnlyExit, ClearHeld, FillOpens, FillUpdates, FillCloses,
           ReadCanceled, ReadResponse, ReadSnapshot, TakeFrame, IdleTick, PlaceEmergSl,
           ExitsDrained, StartExit, AckTimeoutRetry, HoldAmbiguous, SendMarketClose, SendClose,
           SendLimitOnlyClose, DeferNoQuote, ProbeAccepted, ProbeRejectedRetry, HoldMppExhausted,
           Reconnect, BeginReconnect, Reopen, RestoreMirror, EmitGapClose, RestFails, RestoreDone,
           seqVars
  <2>. QED BY <2>1, <2>2
<1>2. ClearHeld => clears' = clears + 1
  BY DEF ClearHeld
<1>3. CASE clears > 0
  BY <1>1, <1>3 DEF Watched
<1>4. CASE s \in held
  BY <1>1, <1>2, <1>4, HoldingLasts DEF Watched
<1>5. CASE StopGone(s)
  BY <1>5, StopStaysGone DEF Watched, IsOpen
<1>6. CASE Cancelling /\ job.pos = mirror[s]
  <2>1. Driving /\ job.pos.sym = s /\ pc # "probe"
    BY <1>6 DEF Driving, Cancelling, Steady, Life, Mirrors, IsOpen
  <2>2. CASE UNCHANGED <<pc, job>> \/ AckTimeoutRetry
    BY <1>6, <2>2 DEF AckTimeoutRetry, SendCancel, Watched, Cancelling, Steady, LineUp
  <2>3. CASE HoldAmbiguous
    BY <2>1, <2>3 DEF HoldAmbiguous, Hold, Watched
  <2>4. CASE SendMarketClose \/ SendLimitOnlyClose \/ DeferNoQuote
    <3>1. Acking /\ CancelConfirmed
      BY <2>4 DEF SendMarketClose, SendLimitOnlyClose, DeferNoQuote
    <3>2. Bare(s)
      BY <2>1, <3>1, ConfirmedIsBare
    <3>3. StopGone(s)
      BY <3>2 DEF Bare, StopGone
    <3>. QED BY <3>3, StopStaysGone DEF Watched, IsOpen
  <2>5. ~(ProbeAccepted \/ ProbeRejectedRetry \/ HoldMppExhausted)
    BY <2>1 DEF ProbeAccepted, ProbeRejectedRetry, HoldMppExhausted
  <2>. QED BY <2>1, <2>2, <2>3, <2>4, <2>5, DrivingEnds
<1>. QED BY <1>3, <1>4, <1>5, <1>6 DEF Watched

\* A cancel under way is of a watched position, or of none at all: the
\* position of the driven exit, and it alone, has its name.
LEMMA CancelsStep ==
    ASSUME SteadyLine, TypeOK, TypeOK', Steady, Steady', CancelsWatched, Next
    PROVE  CancelsWatched'
<1>1. \A c \in cancels' : c \in cancels \/ (Cancelling' /\ c = StopId(job'.pos.id))
  <2>1. CASE Kraken
    BY <2>1, KrakenKinds
  <2>2. CASE StartExit
    <3>1. PICK i \in intents :
              /\ job' = [pos |-> mirror[i.sym], kind |-> i.kind, quote |-> i.quote, n |-> 0]
              /\ SendCancel(StopId(mirror[i.sym].id), "ack1")
      BY <2>2 DEF StartExit
    <3>. QED BY <3>1 DEF SendCancel, Cancelling, Steady, LineUp
  <2>3. CASE AckTimeoutRetry
    BY <2>3 DEF AckTimeoutRetry, SendCancel, Cancelling, Steady, LineUp
  <2>4. CASE Pipeline \/ PublicLoops \/ Operator \/ ReadFrame
    BY <2>4 DEF Pipeline, PublicLoops, Operator, ReadFrame, DispatchEntry, HandleTicker, RegimeExit,
                LimitOnlyExit, ClearHeld, FillOpens, FillUpdates, FillCloses, ReadCanceled,
                ReadResponse, ReadSnapshot, TakeFrame, exchangeVars
  <2>5. CASE IdleTick \/ PlaceEmergSl \/ ExitsDrained \/ HoldAmbiguous \/ SendMarketClose
             \/ SendLimitOnlyClose \/ DeferNoQuote \/ ProbeAccepted \/ ProbeRejectedRetry
             \/ HoldMppExhausted
    BY <2>5 DEF IdleTick, PlaceEmergSl, ExitsDrained, HoldAmbiguous, SendMarketClose, SendClose,
                SendLimitOnlyClose, DeferNoQuote, ProbeAccepted, ProbeRejectedRetry,
                HoldMppExhausted, exchangeVars
  <2>6. ~Reconnect
    BY DEF Reconnect, BeginReconnect, Reopen, RestoreMirror, EmitGapClose, RestFails, RestoreDone,
           Steady, LineUp
  <2>. QED BY <2>1, <2>2, <2>3, <2>4, <2>5, <2>6 DEF Next, Pump
<1>2. entrySeq \in Nat /\ (entrySeq' = entrySeq \/ entrySeq' = entrySeq + 1)
  <2>1. entrySeq \in Nat
    BY DEF TypeOK, SeqTypeOK
  <2>. QED BY <2>1
       DEF Next, Pipeline, PublicLoops, Operator, ReadFrame, Pump, Kraken, DispatchEntry,
           HandleTicker, RegimeExit, LimitOnlyExit, ClearHeld, FillOpens, FillUpdates, FillCloses,
           ReadCanceled, ReadResponse, ReadSnapshot, TakeFrame, IdleTick, PlaceEmergSl,
           ExitsDrained, StartExit, AckTimeoutRetry, HoldAmbiguous, SendMarketClose, SendClose,
           SendLimitOnlyClose, DeferNoQuote, ProbeAccepted, ProbeRejectedRetry, HoldMppExhausted,
           Reconnect, BeginReconnect, Reopen, RestoreMirror, EmitGapClose, RestFails, RestoreDone,
           seqVars
<1>3. ASSUME Cancelling' PROVE job'.pos \in Positions /\ job'.pos.id \in ClOrdIds /\ job'.pos # None
  BY <1>3, NoneAssumption DEF Cancelling, TypeOK, LoopTypeOK, Jobs, Positions
<1>4. ASSUME NEW c \in cancels' PROVE c \in ClOrdIds /\ c[2] <= entrySeq'
  <2>1. CASE c \in cancels
    BY <1>2, <2>1, IdParts DEF CancelsWatched
  <2>2. CASE Cancelling' /\ c = StopId(job'.pos.id)
    BY <1>3, <2>2, IdParts DEF Steady, Exits, TheJob, Known, Cancelling, Driving
  <2>. QED BY <1>1, <2>1, <2>2
<1>5. ASSUME NEW c \in cancels', NEW s \in Symbols, Name(s)' # None, c = StopId(Name(s)')
      PROVE  mirror'[s] # None /\ Watched(s)'
  <2>1. Name(s)' \in ClOrdIds
    BY <1>5 DEF Name, TypeOK, StateTypeOK, IsOpen, Positions, MaybeId
  <2>2. CASE Cancelling' /\ c = StopId(job'.pos.id)
    <3>1. Name(s)' = job'.pos.id
      BY <1>3, <1>5, <2>1, <2>2, IdParts
    <3>2. mirror'[s] = job'.pos
      BY <2>2, <3>1 DEF Steady, Exits, TheJob, Cancelling, Driving
    <3>. QED BY <1>3, <2>2, <3>2 DEF Watched
  <2>3. CASE c \in cancels
    <3>1. c \in ClOrdIds /\ c[2] <= entrySeq /\ c[2] \in Nat
      BY <2>3, IdParts DEF CancelsWatched
    <3>2. \/ Name(s)' = Name(s) /\ (mirror[s] # None => mirror'[s] = mirror[s])
          \/ Name(s)' = <<"entry", entrySeq + 1, 0>>
      <4>1. CASE mirror'[s] # None /\ mirror'[s] = mirror[s]
        BY <4>1 DEF Name, IsOpen
      <4>2. CASE mirror'[s] # None /\ mirror'[s] # mirror[s]
        <5>1. FillOpens /\ s = Head(frames).sym /\ mirror[s] = None
          BY <4>2, PositionSteps
        <5>2. PICK f \in Frames : f = Head(frames)
          BY <5>1, Reading DEF FillOpens
        <5>3. mirror'[s].id = f.id
          BY <5>1, <5>2 DEF FillOpens, FillAction, ApplyFill, OpenedBy, IsOpen, TypeOK, StateTypeOK
        <5>4. TakeFrame /\ f.t = "fill" /\ f \in InFlight
          BY <5>1, <5>2, Reading DEF FillOpens
        <5>5. f.side = "long"
          BY <5>1, <5>2, <5>4, FillHead DEF IsOpen
        <5>6. pendingEntry[s] = f.id
          BY <5>1, <5>2, <5>4, <5>5 DEF Steady, Life, FillFrames
        <5>. QED BY <4>2, <5>1, <5>3, <5>6 DEF Name, IsOpen
      <4>3. CASE mirror'[s] = None
        <5>1. Name(s)' = pendingEntry'[s]
          BY <4>3 DEF Name, IsOpen
        <5>2. CASE pendingEntry'[s] = pendingEntry[s]
          <6>1. mirror[s] = None
            BY <1>5, <5>1, <5>2 DEF Steady, Life, Mirrors, IsOpen
          <6>. QED BY <5>1, <5>2, <6>1 DEF Name, IsOpen
        <5>3. CASE pendingEntry'[s] # pendingEntry[s]
          BY <1>5, <5>1, <5>3, PositionSteps
        <5>. QED BY <5>2, <5>3
      <4>. QED BY <4>1, <4>2, <4>3
    <3>3. Name(s)' # <<"entry", entrySeq + 1, 0>>
      BY <1>2, <1>5, <3>1 DEF StopId
    <3>4. Name(s)' = Name(s) /\ (mirror[s] # None => mirror'[s] = mirror[s])
      BY <3>2, <3>3
    <3>5. mirror[s] # None /\ Watched(s)
      BY <1>5, <2>3, <3>4 DEF CancelsWatched, IsOpen
    <3>. QED BY <3>4, <3>5, WatchingLasts
  <2>. QED BY <1>1, <2>2, <2>3
<1>6. \A s : IsOpen(mirror, s)' <=> mirror'[s] # None
  BY DEF IsOpen
<1>. QED BY <1>4, <1>5, <1>6 DEF CancelsWatched

\* What a step puts under way: Kraken's reports of one order, of the symbol of that
\* order, and no others.
LEMMA FlightSteps ==
    ASSUME SteadyLine, TypeOK, Steady, Next
    PROVE  \/ Kraken
           \/ InFlight' = InFlight
           \/ TakeFrame /\ InFlight = InFlight' \cup {Head(frames)}
<1>1. CASE ReadFrame
  <2>1. TakeFrame
    BY <1>1 DEF ReadFrame, FillOpens, FillUpdates, FillCloses, ReadCanceled, ReadResponse, ReadSnapshot
  <2>. QED BY <2>1, Reading
<1>2. CASE Pipeline \/ PublicLoops \/ Operator \/ Pump
  <2>1. UNCHANGED frames
    BY <1>2
    DEF Pipeline, PublicLoops, Operator, Pump, DispatchEntry, HandleTicker, RegimeExit,
        LimitOnlyExit, ClearHeld, IdleTick, PlaceEmergSl, ExitsDrained, StartExit,
        AckTimeoutRetry, HoldAmbiguous, SendMarketClose, SendLimitOnlyClose, SendClose,
        DeferNoQuote, ProbeAccepted, ProbeRejectedRetry, HoldMppExhausted, exchangeVars
  <2>. QED BY <2>1 DEF InFlight
<1>3. ~Reconnect
  BY DEF Reconnect, BeginReconnect, Reopen, RestoreMirror, EmitGapClose, RestFails, RestoreDone,
         Steady, LineUp
<1>. QED BY <1>1, <1>2, <1>3 DEF Next

\* The last of the frames reported is in flight.
LEMMA Reported ==
    ASSUME frames \in Seq(Frames), conn = "up", NEW fs \in Seq(Frames), Report(fs), Len(fs) > 0
    PROVE  fs[Len(fs)] \in InFlight'
<1>1. frames' = frames \o fs /\ Len(frames) \in Nat /\ Len(fs) \in Nat
  BY LenProperties DEF Report
<1>2. /\ frames' \in Seq(Frames) /\ Len(frames') = Len(frames) + Len(fs)
      /\ frames'[Len(frames) + Len(fs)] = fs[Len(fs)]
  BY <1>1, ConcatProperties
<1>3. Len(frames) + Len(fs) \in DOMAIN frames'
  BY <1>1, <1>2, LenProperties
<1>. QED BY <1>2, <1>3 DEF InFlight

\* The order that guards a position leaves the book only by a lapse, by the fill that
\* is then under way, or for somebody who waits for its cancel.
LEMMA OrderGuards ==
    ASSUME SteadyLine, TypeOK, Steady, CancelsWatched, Next, ~Lapse,
           NEW s \in Symbols, mirror[s] # None, mirror'[s] = mirror[s],
           NEW x \in book \cup pendingStops, x.kind # "entry", x.pos = mirror[s].id
    PROVE  Guarded(s)'
<1>1. Life /\ Exits /\ conn = "up" /\ frames \in Seq(Frames)
  BY DEF Steady, LineUp, TypeOK, ExchangeTypeOK
<1>2. /\ x \in Orders /\ x.sym \in Symbols /\ x.side = "short"
      /\ IsOpen(mirror, x.sym) /\ x.pos = mirror[x.sym].id
  BY <1>1 DEF Life, ExitOrders, TypeOK, ExchangeTypeOK, ExitTypeOK, Orders
<1>3. x.sym = s
  BY <1>1, <1>2, StopNames DEF IsOpen
<1>4. mirror[s].side = "long"
  BY <1>1, <1>2, <1>3 DEF Life, Mirrors
<1>5. SUFFICES ASSUME x \notin book' \cup pendingStops' PROVE Guarded(s)'
  BY DEF Guarded
<1>6. Kraken
  <2>1. ASSUME Pipeline \/ PublicLoops \/ Operator \/ ReadFrame \/ Pump
        PROVE  book \cup pendingStops \subseteq book' \cup pendingStops'
    <3>1. CASE PlaceEmergSl
      BY <1>1, <3>1 DEF PlaceEmergSl
    <3>2. CASE ~PlaceEmergSl
      <4>1. book \subseteq book' /\ pendingStops \subseteq pendingStops'
        BY <2>1, <3>2
        DEF Pipeline, PublicLoops, Operator, ReadFrame, Pump, DispatchEntry, HandleTicker,
            RegimeExit, LimitOnlyExit, ClearHeld, FillOpens, FillUpdates, FillCloses,
            ReadCanceled, ReadResponse, ReadSnapshot, TakeFrame, IdleTick, ExitsDrained,
            StartExit, AckTimeoutRetry, HoldAmbiguous, SendMarketClose, SendLimitOnlyClose,
            SendClose, DeferNoQuote, ProbeAccepted, ProbeRejectedRetry, HoldMppExhausted,
            exchangeVars, exitVars
      <4>. QED BY <4>1
    <3>. QED BY <3>1, <3>2
  <2>2. ~Reconnect
    BY DEF Reconnect, BeginReconnect, Reopen, RestoreMirror, EmitGapClose, RestFails,
           RestoreDone, Steady, LineUp
  <2>. QED BY <1>5, <2>1, <2>2 DEF Next
<1>7. UNCHANGED <<pendingStops, held, pc, job>> /\ ExchangeNext
  BY <1>6 DEF Kraken, exitVars, loopVars
<1>8. x \in book
  BY <1>5, <1>7
<1>9. PICK g \in Frames : g = FillFrame(x, x.qty)
  BY <1>2, FrameTypes DEF FillFrame, Orders
<1>10. PICK y \in Frames : y = ResponseFrame(x, FALSE)
  BY <1>2, FrameTypes DEF ResponseFrame, Orders
<1>11. ASSUME g \in InFlight' PROVE Guarded(s)'
  <2>1. g.t = "fill" /\ g.sym = s /\ g.side # mirror'[s].side
    BY <1>2, <1>3, <1>4, <1>9 DEF FillFrame
  <2>. QED BY <1>11, <2>1 DEF Guarded, InFlight
<1>12. CASE FillEntry
  BY <1>5, <1>7, <1>8, <1>12 DEF FillEntry
<1>13. CASE AcceptStop
  <2>1. PICK o \in book : book' = (book \ {o}) \cup {[o EXCEPT !.st = "resting"]}
    BY <1>13 DEF AcceptStop
  <2>2. o = x
    BY <1>5, <1>8, <2>1
  <2>3. PICK r : r = [o EXCEPT !.st = "resting"]
    OBVIOUS
  <2>4. r.kind = o.kind /\ r.pos = o.pos /\ r \in book'
    BY <2>1, <2>3 DEF TypeOK, ExchangeTypeOK, Orders
  <2>. QED BY <2>2, <2>4 DEF Guarded
<1>14. CASE TriggerStop
  <2>1. PICK o \in book, n \in CloseReports :
            book' = book \ {o} /\ Report(Repeat(FillFrame(o, o.qty), n))
    BY <1>14 DEF TriggerStop
  <2>2. o = x
    BY <1>5, <1>8, <2>1
  <2>3. Report(<<g>>)
    BY <1>9, <2>1, <2>2, RepeatOnce
  <2>4. <<g>> \in Seq(Frames) /\ Len(<<g>>) = 1 /\ <<g>>[1] = g
    OBVIOUS
  <2>5. g \in InFlight'
    <3>1. PICK fs : fs = <<g>>
      OBVIOUS
    <3>2. fs \in Seq(Frames) /\ Len(fs) = 1 /\ Len(fs) > 0 /\ fs[1] = g /\ Report(fs)
      BY <2>3, <2>4, <3>1
    <3>3. fs[Len(fs)] \in InFlight'
      BY <1>1, <3>2, Reported
    <3>. QED BY <3>2, <3>3
  <2>. QED BY <1>11, <2>5
<1>15. CASE FillClose
  <2>1. PICK o \in book, n \in CloseReports :
            /\ book' = book \ {o}
            /\ Report(<<ResponseFrame(o, FALSE)>> \o Repeat(FillFrame(o, o.qty), n))
    BY <1>15 DEF FillClose
  <2>2. o = x
    BY <1>5, <1>8, <2>1
  <2>3. Report(<<y>> \o <<g>>)
    BY <1>9, <1>10, <2>1, <2>2, RepeatOnce
  <2>4. /\ <<y>> \in Seq(Frames) /\ <<g>> \in Seq(Frames)
        /\ Len(<<y>>) = 1 /\ Len(<<g>>) = 1 /\ <<g>>[1] = g
    OBVIOUS
  <2>5. PICK fs : fs = <<y>> \o <<g>>
    OBVIOUS
  <2>6. fs \in Seq(Frames) /\ Len(fs) = 2 /\ Len(fs) > 0 /\ fs[2] = g
    BY <2>4, <2>5, ConcatProperties
  <2>7. g \in InFlight'
    <3>1. Report(fs)
      BY <2>3, <2>5
    <3>2. fs[Len(fs)] \in InFlight'
      BY <1>1, <2>6, <3>1, Reported
    <3>. QED BY <2>6, <3>2
  <2>. QED BY <1>11, <2>7
<1>16. CASE ProcessCancel
  <2>1. PICK c \in cancels : x.id = c /\ x.st = "resting"
    BY <1>5, <1>7, <1>8, <1>16 DEF ProcessCancel
  <2>2. x.kind = "stop"
    BY <1>1, <1>8, <2>1, OrderFacts DEF Life, ClosingOrders
  <2>3. c = StopId(Name(s)) /\ Name(s) # None
    BY <1>1, <1>2, <1>3, <1>8, <2>1, <2>2, OrderFacts, NoneAssumption
    DEF Name, TypeOK, StateTypeOK, Positions, IsOpen
  <2>4. Watched(s)
    BY <2>3 DEF CancelsWatched
  <2>5. ~StopGone(s)
    BY <1>3, <1>8, <2>2 DEF StopGone
  <2>6. ~(clears > 0)
    BY <1>16 DEF Lapse
  <2>. QED BY <1>7, <2>4, <2>5, <2>6 DEF Watched, Guarded, Cancelling, Acking
<1>. QED BY <1>7, <1>12, <1>13, <1>14, <1>15, <1>16 DEF ExchangeNext, Lapse

\* A fill under way that ends the position ends it when it is read.
LEMMA FillGuards ==
    ASSUME SteadyLine, TypeOK, Steady, Next, NEW s \in Symbols,
           mirror[s] # None, mirror'[s] = mirror[s],
           NEW f \in InFlight, f.t = "fill", f.sym = s, f.side # mirror[s].side
    PROVE  f \in InFlight'
<1>1. SUFFICES ASSUME f \notin InFlight' PROVE FALSE
  OBVIOUS
<1>2. ~Kraken
  <2>1. SUFFICES ASSUME Kraken PROVE InFlight \subseteq InFlight'
    BY <1>1
  <2>2. KrakenMoves
    BY <2>1, KrakenKinds
  <2>. QED BY <2>2 DEF KrakenMoves, Ended, Executed, Ends, Executes, Leaves, AcceptStop, InFlight
<1>3. TakeFrame /\ f = Head(frames)
  BY <1>1, <1>2, FlightSteps
<1>4. ReadFrame
  <2>1. ASSUME Pipeline \/ PublicLoops \/ Operator \/ Pump PROVE UNCHANGED frames
    BY <2>1
    DEF Pipeline, PublicLoops, Operator, Pump, DispatchEntry, HandleTicker, RegimeExit,
        LimitOnlyExit, ClearHeld, IdleTick, PlaceEmergSl, ExitsDrained, StartExit,
        AckTimeoutRetry, HoldAmbiguous, SendMarketClose, SendLimitOnlyClose, SendClose,
        DeferNoQuote, ProbeAccepted, ProbeRejectedRetry, HoldMppExhausted, exchangeVars
  <2>2. ~(UNCHANGED frames)
    BY <1>1 DEF InFlight
  <2>3. ~Reconnect
    BY DEF Reconnect, BeginReconnect, Reopen, RestoreMirror, EmitGapClose, RestFails,
           RestoreDone, Steady, LineUp
  <2>. QED BY <1>2, <2>1, <2>2, <2>3 DEF Next
<1>5. FillOpens \/ FillCloses
  BY <1>3, <1>4, NoUpdate DEF ReadFrame, ReadCanceled, ReadResponse, ReadSnapshot
<1>6. ~FillOpens
  BY <1>3 DEF FillOpens, FillAction, IsOpen
<1>7. mirror'[s] = None
  BY <1>3, <1>5, <1>6 DEF FillCloses, FillAction, ApplyFill, TypeOK, StateTypeOK
<1>. QED BY <1>7

\* The driver leaves an exit with a closing order sent or the symbol HELD, or by a lapse.
LEMMA DriverGuards ==
    ASSUME TypeOK, Steady, Next, ~Lapse, NEW s \in Symbols,
           mirror[s] # None, mirror'[s] = mirror[s],
           Driving, job.pos.id = mirror[s].id
    PROVE  Guarded(s)'
<1>1. Life /\ Exits /\ conn = "up"
  BY DEF Steady, LineUp
<1>2. job \in Jobs /\ job.pos \in Positions
  BY DEF Driving, TypeOK, LoopTypeOK, Jobs
<1>3. mirror[s] = job.pos /\ job.pos.sym = s
  BY <1>1 DEF Exits, TheJob, Name, IsOpen, Life, Mirrors
<1>4. CASE UNCHANGED <<pc, job>>
  BY <1>4 DEF Guarded, Driving, Acking
<1>5. CASE AckTimeoutRetry
  BY <1>1, <1>5 DEF AckTimeoutRetry, SendCancel, Guarded, Acking
<1>6. CASE HoldAmbiguous \/ HoldMppExhausted
  BY <1>3, <1>6 DEF HoldAmbiguous, HoldMppExhausted, Hold, Guarded
<1>7. CASE SendMarketClose \/ SendLimitOnlyClose \/ ProbeRejectedRetry
  <2>1. PICK kind \in ClosingKinds : CloseOrder(kind, exitSeq + 1) \in book'
    BY <1>1, <1>7 DEF SendMarketClose, SendLimitOnlyClose, ProbeRejectedRetry, SendClose, ClosingKinds
  <2>. QED BY <2>1 DEF CloseOrder, Order, ClosingKinds, Guarded
<1>8. ~DeferNoQuote /\ ~ProbeAccepted
  BY DEF Lapse
<1>. QED BY <1>4, <1>5, <1>6, <1>7, <1>8, DrivingEnds

\* No open position goes bare but by a lapse: a stop refused or taken away, a close
\* that ended unfilled with nobody waiting, an exit deferred, a HELD marker cleared.
THEOREM ProtectionLasts ==
    ASSUME SteadyLine PROVE Spec => StaysGuarded
<1> DEFINE Lasts == \A s \in Symbols : Bared(s)' => Bared(s) \/ Lapse
<1>1. SteadyLine
  OBVIOUS
<1>2. Init => CancelsWatched
  BY DEF Init, ExchangeInit, CancelsWatched
<1>3. TypeOK /\ TypeOK' /\ Steady /\ Steady' /\ CancelsWatched /\ [Next]_vars => CancelsWatched'
  <2>1. SUFFICES ASSUME TypeOK, TypeOK', Steady, Steady', CancelsWatched, UNCHANGED vars
                 PROVE  CancelsWatched'
    BY <1>1, CancelsStep
  <2>2. UNCHANGED <<lifeVars, cancels, held, clears, pc, job>>
    BY <2>1 DEF vars, lifeVars, exchangeVars, stateVars, exitVars, loopVars, seqVars
  <2>3. \A s : Name(s)' = Name(s) /\ StopGone(s)' = StopGone(s)
    BY <2>2, LifeKept
  <2>4. UNCHANGED <<mirror, entrySeq>>
    BY <2>2 DEF lifeVars
  <2>. QED BY <2>1, <2>2, <2>3, <2>4 DEF CancelsWatched, Watched, Cancelling, IsOpen
<1>4. TypeOK /\ TypeOK' /\ Steady /\ CancelsWatched /\ [Next]_vars => [Lasts]_vars
  <2>1. SUFFICES ASSUME TypeOK, TypeOK', Steady, CancelsWatched, Next, ~Lapse,
                        NEW s \in Symbols, mirror'[s] # None, mirror'[s].snap # None,
                        ~Bared(s)
                 PROVE  Guarded(s)'
    BY DEF Bared, IsOpen
  <2>2. CASE mirror'[s] # mirror[s]
    <3>1. FillOpens /\ s = Head(frames).sym /\ mirror[s] = None
      BY <2>1, <2>2, PositionSteps
    <3>2. PICK f \in Frames : f = Head(frames)
      BY <2>1, <3>1, Reading DEF FillOpens
    <3>3. mirror'[s].id = f.id /\ mirror'[s].snap = pendingEntry[s]
      BY <2>1, <3>1, <3>2 DEF FillOpens, FillAction, ApplyFill, OpenedBy, IsOpen, TypeOK, StateTypeOK
    <3>4. Order("stop", StopId(f.id), f.id, f.sym, Flip(f.side), f.qty) \in pendingStops'
      BY <2>1, <3>1, <3>2, <3>3 DEF FillOpens
    <3>. QED BY <3>3, <3>4 DEF Guarded, Order
  <2>3. CASE mirror'[s] = mirror[s]
    <3>1. mirror[s] # None /\ Guarded(s)
      BY <2>1, <2>3 DEF Bared, IsOpen
    <3>2. CASE \E x \in book \cup pendingStops : x.kind # "entry" /\ x.pos = mirror[s].id
      BY <1>1, <2>1, <2>3, <3>1, <3>2, OrderGuards
    <3>3. CASE (Acking \/ pc = "probe") /\ job.pos.id = mirror[s].id
      BY <2>1, <2>3, <3>1, <3>3, DriverGuards DEF Driving, Acking
    <3>4. CASE s \in held
      BY <2>1, <2>3, <3>1, <3>4, HoldingLasts DEF Guarded, Lapse
    <3>5. CASE \E i \in DOMAIN frames : /\ frames[i].t = "fill" /\ frames[i].sym = s
                                        /\ frames[i].side # mirror[s].side
      <4>1. PICK f \in InFlight : f.t = "fill" /\ f.sym = s /\ f.side # mirror[s].side
        BY <3>5 DEF InFlight
      <4>2. f \in InFlight'
        BY <1>1, <2>1, <2>3, <3>1, <4>1, FillGuards
      <4>. QED BY <2>3, <4>1, <4>2 DEF Guarded, InFlight
    <3>. QED BY <3>1, <3>2, <3>3, <3>4, <3>5 DEF Guarded
  <2>. QED BY <2>2, <2>3
<1>. QED BY <1>1, <1>2, <1>3, <1>4, TypeCorrect, LivesAreSteady, PTL DEF Spec, StaysGuarded

=============================================================================
