-------------------------- MODULE PaperPath_proofs --------------------------
(***************************************************************************)
(* What the paper path guarantees of its wallets, positions and records,   *)
(* for every price, fee, limit and number of entries; and what the perp    *)
(* pools can pay for.                                                      *)
(***************************************************************************)
EXTENDS PaperPath, PerpWallet, Series_proofs

-----------------------------------------------------------------------------
(* Fees and cash. *)

\* A fee is a part of what it is charged on.
LEMMA FeeOfNat == ASSUME NEW x \in Nat PROVE Fee(x) \in Nat /\ Fee(x) <= x
<1>1. TakerPct \in 0 .. 100
  BY PaperAssumption
<1>2. x * TakerPct \in Nat /\ x * TakerPct <= x * 100
  BY <1>1
<1> QED BY <1>2 DEF Fee

\* A fee is an integer.
LEMMA FeeOfInt == ASSUME NEW x \in Int PROVE Fee(x) \in Int
BY PaperAssumption DEF Fee

\* What CHECK 2 admits, the wallet can pay.
LEMMA AdmittedIsAffordable ==
    ASSUME NEW c \in Nat, NEW b \in Nat, c * 100 <= ConcentrationPct * b
    PROVE  c <= b
<1>1. ConcentrationPct \in 0 .. 100
  BY PaperAssumption
<1>2. ConcentrationPct * b <= 100 * b
  BY <1>1
<1> QED BY <1>1, <1>2

\* The cash of an entry and of its exit differ by the net P/L of the record.
LEMMA RoundTrip ==
    ASSUME NEW sd \in Sides, NEW e \in Int, NEW x \in Int, NEW p, p.side = sd, p.entry = e,
           RetainedFee(p.sym) = EntryFee(sd, e), EntryFee(sd, e) \in Int
    PROVE  EntryCash(sd, e) + ExitCash(sd, x) = NetPL(p, x)
BY FeeOfInt DEF Sides, EntryCash, ExitCash, NetPL, Loss

-----------------------------------------------------------------------------
(* The inductive invariant. *)

\* An open position is the subject of one entry of the log.
LogsPositions ==
    /\ closes \in Seq(Seq(Records))
    /\ \A s \in Symbols : IsOpen(pos, s) => pos[s].nth \in 1 .. Len(closes)

\* The wallet retains what the position of the symbol paid.
RetainsTheFee ==
    \A s \in Symbols : IsOpen(pos, s) =>
        fee[pos[s].side][s] = EntryFee(pos[s].side, pos[s].entry)

\* The tracker knows the worst price of an open position, and nothing of a
\* symbol without one.
TracksTheHold ==
    \A s \in Symbols :
        IF heat[s] = None THEN IsOpen(pos, s) => worst[s] = 0
        ELSE IsOpen(pos, s) /\ heat[s] = worst[s]

IInv ==
    /\ TypeOK
    /\ LogsPositions
    /\ CommitmentIsThePosition
    /\ RetainsTheFee
    /\ LongNeverOverdrawn
    /\ TracksTheHold
    /\ HeatIsOfTheHold

\* What the type invariant says of one position.
LEMMA PositionTypes ==
    ASSUME TypeOK, NEW s \in Symbols, IsOpen(pos, s)
    PROVE  /\ pos[s] \in Positions /\ pos[s].sym = s /\ pos[s].side \in Sides
           /\ pos[s].entry \in Nat /\ pos[s].stop \in Int /\ pos[s].nth \in Nat \ {0}
<1>1. pos[s] \in Positions /\ pos[s].sym = s
  BY DEF TypeOK, IsOpen
<1> QED BY <1>1, PaperAssumption DEF Positions

\* The adverse excursion is a natural number, and no less than the loss.
LEMMA HeatTypes ==
    ASSUME NEW p, p.entry \in Int, NEW x \in Int
    PROVE  Loss(p, x) \in Int /\ Adverse(p, x) \in Nat /\ Adverse(p, x) >= Loss(p, x)
BY DEF Loss, Adverse

\* What an entry costs is a number.
LEMMA EntryTypes ==
    ASSUME NEW sd \in Sides, NEW p \in Prices
    PROVE  p \in Nat /\ EntryFee(sd, p) \in Nat /\ EntryCash(sd, p) \in Int
<1>1. p \in Nat /\ OpenPct \in Nat
  BY PaperAssumption
<1>2. p * OpenPct \in Nat
  BY <1>1
<1>3. (p * OpenPct) \div 100 \in Nat
  BY <1>2
<1> QED BY <1>1, <1>3, FeeOfNat DEF EntryFee, EntryCash

\* A close, whatever detected it: of an open position, at a price that is not
\* negative for a long, with the heat the hold really had.
CloseOf(s) ==
    \E q \in Prices, x \in Int, reason \in Reasons, high \in Nat \cup {None} :
        /\ IsOpen(pos, s)
        /\ pos[s].side = "long" => x \in Nat
        /\ See(pos[s], q)
        /\ Close(pos[s], x, reason, high)
        /\ HeatAt(pos[s], x, high) = worst'[s]

\* The three exits are one close at different prices.
LEMMA ClosesAreAlike ==
    ASSUME IInv, NEW s \in Symbols, NEW q \in Prices,
           TickBreaches(s, q) \/ TickStops(s, q) \/ RegimeExit(s, q)
    PROVE  CloseOf(s)
<1> DEFINE p == pos[s]
<1>1. IsOpen(pos, s) /\ See(p, q)
  BY DEF TickBreaches, TickStops, RegimeExit
<1>2. /\ p.sym = s /\ p.side \in Sides /\ p.entry \in Nat /\ p.stop \in Int /\ q \in Nat
  BY <1>1, PositionTypes, PaperAssumption DEF IInv
<1>3. /\ worst[s] \in Nat /\ heat[s] \in Nat \cup {None}
      /\ heat[s] = None => worst[s] = 0
      /\ heat[s] # None => heat[s] = worst[s]
  BY <1>1 DEF IInv, TypeOK, TracksTheHold
<1>4. worst'[s] = IF Adverse(p, q) > worst[s] THEN Adverse(p, q) ELSE worst[s]
  BY <1>1, <1>2 DEF See, IInv, TypeOK
<1>5. Adverse(p, q) \in Nat /\ Adverse(p, p.stop) \in Nat
  BY <1>2, HeatTypes
<1>6. Mark(p, q) = worst'[s] /\ Mark(p, q) \in Nat /\ HeatAt(p, q, heat[s]) = worst'[s]
  BY <1>2, <1>3, <1>4, <1>5 DEF Mark, HeatAt
<1>7. None \notin Nat
  BY PaperAssumption
<1>8. HeatAt(p, q, Mark(p, q)) = worst'[s]
  BY <1>3, <1>4, <1>5, <1>6, <1>7 DEF HeatAt
<1> HIDE DEF p
<1>9. CASE TickBreaches(s, q)
  BY <1>1, <1>2, <1>6, <1>8, <1>9 DEF TickBreaches, CloseOf, Reasons, p
<1>10. CASE TickStops(s, q)
  <2>1. Touches(p, q)
    BY <1>10 DEF TickStops, p
  <2>2. p.side = "long" => p.stop \in Nat
    BY <1>2, <2>1 DEF Touches
  <2>3. Adverse(p, p.stop) <= Adverse(p, q)
    BY <1>2, <2>1 DEF Touches, Adverse, Loss
  <2>4. HeatAt(p, p.stop, Mark(p, q)) = worst'[s]
    BY <1>3, <1>4, <1>5, <1>6, <1>7, <2>3 DEF HeatAt
  <2> QED BY <1>1, <1>2, <1>6, <1>10, <2>2, <2>4 DEF TickStops, CloseOf, Reasons, p
<1>11. CASE RegimeExit(s, q)
  <2> DEFINE high == heat[s]
  <2>1. Close(p, q, "REGIME_REVERSAL", high) /\ "REGIME_REVERSAL" \in Reasons
    BY <1>11 DEF RegimeExit, Reasons, p
  <2>2. high \in Nat \cup {None} /\ HeatAt(p, q, high) = worst'[s]
    BY <1>3, <1>6
  <2> HIDE DEF high
  <2> QED BY <1>1, <1>2, <2>1, <2>2 DEF CloseOf, p
<1> QED BY <1>9, <1>10, <1>11

-----------------------------------------------------------------------------
(* The types. *)

\* The TRADE_CLOSE of an open position is a record.
LEMMA RecordType ==
    ASSUME IInv, NEW s \in Symbols, IsOpen(pos, s), NEW x \in Int, NEW reason \in Reasons,
           NEW high \in Nat \cup {None}, worst'[s] \in Nat
    PROVE  /\ NetPL(pos[s], x) \in Int
           /\ [reason |-> reason, net |-> NetPL(pos[s], x), side |-> pos[s].side,
               heat |-> HeatAt(pos[s], x, high), worst |-> worst'[s]] \in Records
<1> DEFINE p == pos[s]
<1>1. p.sym = s /\ p.side \in Sides /\ p.entry \in Nat
  BY PositionTypes DEF IInv
<1>2. Loss(p, x) \in Int /\ Adverse(p, x) \in Nat
  BY <1>1, HeatTypes
<1>3. RetainedFee(s) \in Nat
  <2>1. CASE \E sd \in Sides : fee[sd][s] # None
    <3>1. fee[CHOOSE sd \in Sides : fee[sd][s] # None][s] \in Nat
      BY <2>1 DEF IInv, TypeOK
    <3> QED BY <2>1, <3>1 DEF RetainedFee
  <2>2. CASE ~\E sd \in Sides : fee[sd][s] # None
    BY <2>2 DEF RetainedFee
  <2> QED BY <2>1, <2>2
<1>4. NetPL(p, x) \in Int
  BY <1>1, <1>2, <1>3, FeeOfInt DEF NetPL
<1>5. HeatAt(p, x, high) \in Nat
  BY <1>2 DEF HeatAt
<1> QED BY <1>1, <1>4, <1>5 DEF Records

\* No position, no fee, no mark at the start.
LEMMA InitInv == ASSUME Init PROVE IInv
<1>1. \A s \in Symbols : ~IsOpen(pos, s)
  BY DEF Init, EmptyStore, IsOpen
<1>2. closes \in Seq(Seq(Records)) /\ DOMAIN closes = {}
  BY DEF Init
<1>3. TypeOK
  BY <1>1, <1>2, PaperAssumption DEF TypeOK, Init, EmptyStore, IsOpen
<1>4. CommitmentIsThePosition
  BY <1>1 DEF CommitmentIsThePosition, Open, Init
<1>5. RetainsTheFee /\ LogsPositions
  BY <1>1, <1>2 DEF RetainsTheFee, LogsPositions
<1>6. LongNeverOverdrawn
  BY PaperAssumption DEF LongNeverOverdrawn, Init, Sides
<1>7. TracksTheHold /\ HeatIsOfTheHold
  BY <1>1, <1>2 DEF TracksTheHold, HeatIsOfTheHold, Init
<1> QED BY <1>3, <1>4, <1>5, <1>6, <1>7 DEF IInv

\* CommitmentIsThePosition, in terms of the symbols.
Alone == \A s, t \in Symbols :
    IsOpen(pos, s) /\ IsOpen(pos, t) /\ pos[s].side = pos[t].side => s = t
Locks == \A sd \in Sides : sem[sd] <=> \E s \in Symbols : IsOpen(pos, s) /\ pos[s].side = sd
Retains == \A sd \in Sides, s \in Symbols :
    fee[sd][s] # None <=> IsOpen(pos, s) /\ pos[s].side = sd

\* CommitmentIsThePosition says the same of symbols as of positions.
LEMMA CommitmentForm ==
    ASSUME TypeOK PROVE CommitmentIsThePosition <=> Alone /\ Locks /\ Retains
<1>1. \A p : p \in Open <=> \E s \in Symbols : IsOpen(pos, s) /\ p = pos[s]
  BY DEF Open
<1>2. \A s \in Symbols : IsOpen(pos, s) => pos[s].sym = s
  BY DEF TypeOK
<1>3. (\A p, q \in Open : p.side = q.side => p = q) <=> Alone
  BY <1>1, <1>2 DEF Alone
<1>4. \A sd \in Sides : (\E p \in Open : p.side = sd)
                          <=> \E s \in Symbols : IsOpen(pos, s) /\ pos[s].side = sd
  BY <1>1
<1> QED BY <1>3, <1>4 DEF CommitmentIsThePosition, Locks, Retains

\* An entry.
LEMMA EnterInv ==
    ASSUME IInv, NEW sd \in Sides, NEW s \in Symbols, NEW p \in Prices, NEW mae \in MaeDistances,
           Enter(sd, s, p, mae)
    PROVE  IInv'
<1> DEFINE new == [sym |-> s, side |-> sd, entry |-> p, mae |-> mae,
                   stop |-> StopPrice(sd, p), nth |-> Len(closes) + 1]
<1> USE DEF Enter
<1>1. p \in Nat /\ EntryFee(sd, p) \in Nat /\ EntryCash(sd, p) \in Int
  BY EntryTypes
<1>2. closes \in Seq(Seq(Records)) /\ Len(closes) \in Nat
  BY DEF IInv, LogsPositions
<1>3. closes' \in Seq(Seq(Records)) /\ Len(closes') = Len(closes) + 1
      /\ \A n \in 1 .. Len(closes) : closes'[n] = closes[n]
      /\ closes'[Len(closes) + 1] = <<>>
  BY <1>2
<1>4. new \in Positions /\ new # None /\ pos' = [pos EXCEPT ![s] = new]
      /\ ~IsOpen(pos, s)
  <2>1. StopPrice(sd, p) \in Int
    BY <1>1, PaperAssumption DEF StopPrice
  <2> QED BY <1>1, <1>2, <2>1, NoneAssumption DEF Positions, Selectable
<1>5. /\ pos'[s] = new /\ IsOpen(pos', s)
      /\ \A t \in Symbols \ {s} : pos'[t] = pos[t] /\ (IsOpen(pos', t) <=> IsOpen(pos, t))
  BY <1>4 DEF IInv, TypeOK, IsOpen
<1>6. pos' \in [Symbols -> Positions \cup {None}]
  BY <1>4 DEF IInv, TypeOK
<1>7. TypeOK'
  <2>1. /\ sem' \in [Sides -> BOOLEAN] /\ balance' \in [Sides -> Int]
        /\ fee' \in [Sides -> [Symbols -> Nat \cup {None}]]
    BY <1>1 DEF IInv, TypeOK
  <2>2. heat' \in [Symbols -> Nat \cup {None}] /\ losses' \in [Sides -> [Symbols -> Nat]]
        /\ worst' \in [Symbols -> Nat]
    BY DEF IInv, TypeOK
  <2>3. trigger' = [t \in Symbols |-> IF IsOpen(pos', t) THEN "bbo" ELSE "trades"]
    BY <1>5 DEF IInv, TypeOK
  <2>4. \A t \in Symbols : IsOpen(pos', t) => pos'[t].sym = t
    BY <1>5 DEF IInv, TypeOK
  <2>5. \A n \in DOMAIN closes' : \A i \in DOMAIN closes'[n] : closes'[n][i] \in Records
    BY <1>3
  <2> HIDE DEF Enter
  <2> QED BY <1>6, <2>1, <2>2, <2>3, <2>4, <2>5 DEF TypeOK, IsOpen
<1>8. LogsPositions'
  BY <1>2, <1>3, <1>4, <1>5 DEF IInv, LogsPositions, IsOpen
<1>9. RetainsTheFee'
  BY <1>1, <1>4, <1>5 DEF IInv, TypeOK, RetainsTheFee, IsOpen
<1>10. CommitmentIsThePosition'
  <2>1. Alone /\ Locks /\ Retains /\ ~sem[sd]
    BY CommitmentForm DEF IInv, RiskGuard
  <2>2. ~\E t \in Symbols : IsOpen(pos, t) /\ pos[t].side = sd
    BY <2>1 DEF Locks
  <2>3. Alone'
    <3>1. new.side = sd
      OBVIOUS
    <3> HIDE DEF Enter, new
    <3> QED BY <1>5, <2>1, <2>2, <3>1 DEF Alone, IsOpen
  <2>4. Locks'
    <3>1. new.side = sd
      OBVIOUS
    <3>2. \A od \in Sides : sem'[od] <=> od = sd \/ sem[od]
      BY DEF IInv, TypeOK
    <3> HIDE DEF Enter, new
    <3> QED BY <1>4, <1>5, <2>1, <2>2, <3>1, <3>2 DEF Locks, IsOpen
  <2>5. Retains'
    <3>1. EntryFee(sd, p) # None
      BY <1>1, PaperAssumption
    <3>2. /\ fee'[sd][s] = EntryFee(sd, p)
          /\ \A od \in Sides, t \in Symbols : od # sd \/ t # s => fee'[od][t] = fee[od][t]
      BY DEF IInv, TypeOK
    <3>3. ASSUME NEW od \in Sides, NEW t \in Symbols
          PROVE  fee'[od][t] # None <=> IsOpen(pos', t) /\ pos'[t].side = od
      <4>1. CASE t = s
        <5>1. fee[od][s] = None
          BY <1>4, <2>1 DEF Retains
        <5> QED BY <1>4, <1>5, <3>1, <3>2, <4>1, <5>1
      <4>2. CASE t # s
        <5> HIDE DEF Enter, new
        <5> QED BY <1>5, <2>1, <3>2, <4>2 DEF Retains, IsOpen
      <4> QED BY <4>1, <4>2
    <3> QED BY <3>3 DEF Retains
  <2> HIDE DEF Enter
  <2> QED BY <1>7, <2>3, <2>4, <2>5, CommitmentForm, PTL
<1>11. LongNeverOverdrawn'
  <2>1. CASE sd = "long"
    <3>1. Committed(sd, p) = p + Fee(p) /\ Fee(p) \in Nat
      BY <1>1, <2>1, FeeOfNat DEF Committed
    <3>2. balance[sd] \in Nat /\ Committed(sd, p) * 100 <= ConcentrationPct * balance[sd]
      BY <2>1 DEF IInv, TypeOK, LongNeverOverdrawn, RiskGuard
    <3>3. p + Fee(p) <= balance[sd]
      <4> DEFINE c == p + Fee(p)
      <4>1. c \in Nat /\ c * 100 <= ConcentrationPct * balance[sd]
        BY <1>1, <3>1, <3>2
      <4> HIDE DEF c
      <4>2. c <= balance[sd]
        BY <3>2, <4>1, AdmittedIsAffordable
      <4> QED BY <4>2 DEF c
    <3>4. balance'[sd] = balance[sd] - (p + Fee(p))
      BY <1>1, <2>1, <3>1, <3>2 DEF IInv, TypeOK, EntryCash, EntryFee
    <3> QED BY <1>1, <2>1, <3>1, <3>2, <3>3, <3>4 DEF LongNeverOverdrawn
  <2>2. CASE sd # "long"
    BY <2>2 DEF IInv, TypeOK, LongNeverOverdrawn, Sides
  <2> QED BY <2>1, <2>2
<1>12. TracksTheHold'
  BY <1>4, <1>5 DEF IInv, TypeOK, TracksTheHold
<1>13. HeatIsOfTheHold'
  BY <1>2, <1>3 DEF IInv, HeatIsOfTheHold
<1> QED BY <1>7, <1>8, <1>9, <1>10, <1>11, <1>12, <1>13 DEF IInv

\* A close.
LEMMA CloseInv ==
    ASSUME IInv, NEW s \in Symbols, CloseOf(s)
    PROVE  IInv'
<1> DEFINE p == pos[s]
<1>1. PICK q \in Prices, x \in Int, reason \in Reasons, high \in Nat \cup {None} :
          /\ IsOpen(pos, s)
          /\ p.side = "long" => x \in Nat
          /\ See(p, q)
          /\ Close(p, x, reason, high)
          /\ HeatAt(p, x, high) = worst'[s]
  BY DEF CloseOf
<1>2. /\ p.sym = s /\ p.side \in Sides /\ p.entry \in Nat /\ p.nth \in 1 .. Len(closes)
      /\ q \in Nat
  BY <1>1, PositionTypes, PaperAssumption DEF IInv, LogsPositions
<1>3. worst' \in [Symbols -> Nat] /\ \A t \in Symbols \ {s} : worst'[t] = worst[t]
  <2>1. p.entry \in Int /\ q \in Int
    BY <1>2
  <2>2. Adverse(p, q) \in Nat
    BY <2>1, HeatTypes
  <2> QED BY <1>1, <1>2, <2>2 DEF See, IInv, TypeOK
<1> DEFINE record == [reason |-> reason, net |-> NetPL(p, x), side |-> p.side,
                      heat |-> HeatAt(p, x, high), worst |-> worst'[s]]
<1>4. NetPL(p, x) \in Int /\ record \in Records
  BY <1>1, <1>3, RecordType
<1>5. record.heat = record.worst
  BY <1>1
<1>6. /\ balance' = [balance EXCEPT ![p.side] = @ + ExitCash(p.side, x)]
      /\ closes' = [closes EXCEPT ![p.nth] = Append(@, record)]
      /\ pos' = [pos EXCEPT ![s] = None]
      /\ fee' = [sd \in Sides |-> [fee[sd] EXCEPT ![s] = None]]
      /\ heat' = [heat EXCEPT ![s] = None]
      /\ losses' = [losses EXCEPT ![p.side][s] = IF NetPL(p, x) > 0 THEN 0 ELSE @ + 1]
      /\ sem' = [sem EXCEPT ![p.side] = FALSE]
      /\ trigger' = [trigger EXCEPT ![s] = "trades"]
  BY <1>1, <1>2 DEF Close, ClearFees, ClearHeat, UpdateSelection, ReleaseSemaphore
<1> HIDE DEF record
<1>7. /\ pos' \in [Symbols -> Positions \cup {None}] /\ ~IsOpen(pos', s)
      /\ \A t \in Symbols \ {s} : pos'[t] = pos[t] /\ (IsOpen(pos', t) <=> IsOpen(pos, t))
  BY <1>6 DEF IInv, TypeOK, IsOpen
<1>8. /\ closes' \in Seq(Seq(Records)) /\ Len(closes') = Len(closes)
      /\ \A n \in 1 .. Len(closes) : n # p.nth => closes'[n] = closes[n]
      /\ closes'[p.nth] = Append(closes[p.nth], record)
  <2>1. closes \in Seq(Seq(Records))
    BY DEF IInv, LogsPositions
  <2>2. closes[p.nth] \in Seq(Records)
    BY <1>2, <2>1
  <2>3. Append(closes[p.nth], record) \in Seq(Records)
    BY <1>4, <2>2
  <2> QED BY <1>2, <1>6, <2>1, <2>3
<1>9. ExitCash(p.side, x) \in Int /\ (p.side = "long" => ExitCash(p.side, x) >= 0)
  <2>1. Fee(x) \in Int
    BY FeeOfInt
  <2>2. p.side = "long" => Fee(x) <= x
    BY <1>1, FeeOfNat
  <2> QED BY <1>2, <2>1, <2>2 DEF ExitCash
<1>10. TypeOK'
  <2>1. balance' \in [Sides -> Int] /\ sem' \in [Sides -> BOOLEAN]
    BY <1>2, <1>6, <1>9 DEF IInv, TypeOK
  <2>2. fee' \in [Sides -> [Symbols -> Nat \cup {None}]] /\ heat' \in [Symbols -> Nat \cup {None}]
    BY <1>6 DEF IInv, TypeOK
  <2>3. losses' \in [Sides -> [Symbols -> Nat]]
    BY <1>2, <1>4, <1>6 DEF IInv, TypeOK
  <2>4. trigger' = [t \in Symbols |-> IF IsOpen(pos', t) THEN "bbo" ELSE "trades"]
    BY <1>6, <1>7 DEF IInv, TypeOK
  <2>5. \A t \in Symbols : IsOpen(pos', t) => pos'[t].sym = t
    BY <1>7 DEF IInv, TypeOK
  <2>6. \A n \in DOMAIN closes' : \A i \in DOMAIN closes'[n] : closes'[n][i] \in Records
    BY <1>8
  <2> QED BY <1>3, <1>7, <2>1, <2>2, <2>3, <2>4, <2>5, <2>6 DEF TypeOK, IsOpen
<1>11. LogsPositions'
  BY <1>7, <1>8 DEF IInv, LogsPositions, IsOpen
<1>12. RetainsTheFee'
  <2>1. \A sd \in Sides, t \in Symbols : t # s => fee'[sd][t] = fee[sd][t]
    BY <1>6 DEF IInv, TypeOK
  <2>2. ASSUME NEW t \in Symbols, IsOpen(pos', t)
        PROVE  fee'[pos'[t].side][t] = EntryFee(pos'[t].side, pos'[t].entry)
    <3>1. t # s /\ pos'[t] = pos[t] /\ IsOpen(pos, t)
      BY <1>7, <2>2
    <3>2. pos[t].side \in Sides
      BY <3>1, PositionTypes DEF IInv
    <3> QED BY <2>1, <3>1, <3>2 DEF IInv, RetainsTheFee
  <2> QED BY <2>2 DEF RetainsTheFee, IsOpen
<1>13. CommitmentIsThePosition'
  <2>1. Alone /\ Locks /\ Retains
    BY CommitmentForm DEF IInv
  <2>2. Alone'
    BY <1>7, <2>1 DEF Alone, IsOpen
  <2>3. Locks'
    <3>1. \A sd \in Sides : sem'[sd] <=> sd # p.side /\ sem[sd]
      BY <1>2, <1>6 DEF IInv, TypeOK
    <3>2. ~\E t \in Symbols \ {s} : IsOpen(pos, t) /\ pos[t].side = p.side
      BY <1>1, <2>1 DEF Alone
    <3> QED BY <1>7, <2>1, <3>1, <3>2 DEF Locks, IsOpen
  <2>4. Retains'
    <3>1. \A sd \in Sides, t \in Symbols : fee'[sd][t] = IF t = s THEN None ELSE fee[sd][t]
      BY <1>6 DEF IInv, TypeOK
    <3> QED BY <1>7, <2>1, <3>1 DEF Retains, IsOpen
  <2> QED BY <1>10, <2>2, <2>3, <2>4, CommitmentForm, PTL
<1>14. LongNeverOverdrawn'
  BY <1>2, <1>6, <1>9 DEF IInv, TypeOK, LongNeverOverdrawn, Sides
<1>15. TracksTheHold'
  BY <1>3, <1>6, <1>7 DEF IInv, TypeOK, TracksTheHold, IsOpen
<1>16. HeatIsOfTheHold'
  <2>1. closes \in Seq(Seq(Records)) /\ closes[p.nth] \in Seq(Records)
    BY <1>2 DEF IInv, LogsPositions
  <2>2. \A i \in 1 .. Len(closes[p.nth]) : closes[p.nth][i].heat = closes[p.nth][i].worst
    BY <1>2, <2>1 DEF IInv, HeatIsOfTheHold
  <2>3. ASSUME NEW i \in 1 .. Len(closes[p.nth]) + 1
        PROVE  Append(closes[p.nth], record)[i].heat = Append(closes[p.nth], record)[i].worst
    <3>1. CASE i \in 1 .. Len(closes[p.nth])
      BY <2>1, <2>2, <3>1
    <3>2. CASE i = Len(closes[p.nth]) + 1
      BY <1>5, <2>1, <3>2
    <3> QED BY <3>1, <3>2
  <2>4. DOMAIN closes'[p.nth] = 1 .. Len(closes[p.nth]) + 1
    BY <1>4, <1>8, <2>1
  <2>5. \A n \in DOMAIN closes' : n # p.nth => closes'[n] = closes[n] /\ n \in DOMAIN closes
    BY <1>8, <2>1
  <2>6. \A n \in DOMAIN closes' : \A i \in DOMAIN closes'[n] :
            closes'[n][i].heat = closes'[n][i].worst
    <3> SUFFICES ASSUME NEW n \in DOMAIN closes'
                 PROVE  \A i \in DOMAIN closes'[n] : closes'[n][i].heat = closes'[n][i].worst
      OBVIOUS
    <3>1. CASE n = p.nth
      BY <1>8, <2>3, <2>4, <3>1
    <3>2. CASE n # p.nth
      BY <2>5, <3>2 DEF IInv, HeatIsOfTheHold
    <3> QED BY <3>1, <3>2
  <2> QED BY <2>6 DEF HeatIsOfTheHold
<1> QED BY <1>10, <1>11, <1>12, <1>13, <1>14, <1>15, <1>16 DEF IInv

\* A tick that closes nothing.
LEMMA HoldInv ==
    ASSUME IInv, NEW s \in Symbols, NEW q \in Prices, TickHolds(s, q)
    PROVE  IInv'
<1> DEFINE p == pos[s]
<1>1. IsOpen(pos, s) /\ p.sym = s /\ p.entry \in Nat /\ q \in Nat
  BY PositionTypes, PaperAssumption DEF TickHolds, IInv
<1>2. Adverse(p, q) \in Nat
  BY <1>1, HeatTypes
<1>3. /\ worst' = [worst EXCEPT ![s] = IF Adverse(p, q) > @ THEN Adverse(p, q) ELSE @]
      /\ heat' = [heat EXCEPT ![s] = HeatAt(p, q, heat[s])]
      /\ UNCHANGED <<pos, sem, balance, fee, losses, trigger, closes>>
  BY <1>1 DEF TickHolds, See, Mark
<1>4. None \notin Nat
  BY PaperAssumption
<1>5. HeatAt(p, q, heat[s]) \in Nat /\ HeatAt(p, q, heat[s]) = worst'[s]
  BY <1>1, <1>2, <1>3 DEF HeatAt, IInv, TypeOK, TracksTheHold
<1>6. worst' \in [Symbols -> Nat] /\ heat' \in [Symbols -> Nat \cup {None}]
  BY <1>2, <1>3, <1>5 DEF IInv, TypeOK
<1>7. TypeOK'
  BY <1>3, <1>6 DEF IInv, TypeOK, IsOpen
<1>8. TracksTheHold'
  BY <1>1, <1>3, <1>4, <1>5 DEF IInv, TypeOK, TracksTheHold, IsOpen
<1>9. /\ LogsPositions' /\ RetainsTheFee' /\ CommitmentIsThePosition'
      /\ LongNeverOverdrawn' /\ HeatIsOfTheHold'
  BY <1>3 DEF IInv, LogsPositions, RetainsTheFee, CommitmentIsThePosition, Open, IsOpen,
              LongNeverOverdrawn, HeatIsOfTheHold
<1> QED BY <1>7, <1>8, <1>9 DEF IInv

-----------------------------------------------------------------------------
(* The steps, and the theorems. *)

\* A step enters, holds or closes.
LEMMA StepCases ==
    ASSUME IInv, Next
    PROVE  \E s \in Symbols, q \in Prices :
               \/ \E sd \in Sides, mae \in MaeDistances : Enter(sd, s, q, mae)
               \/ TickHolds(s, q)
               \/ CloseOf(s)
BY ClosesAreAlike DEF Next

\* Every step keeps the invariant.
LEMMA StepInv == IInv /\ [Next]_vars => IInv'
<1>1. ASSUME IInv, Next PROVE IInv'
  BY <1>1, StepCases, EnterInv, HoldInv, CloseInv
<1>2. ASSUME IInv, UNCHANGED vars PROVE IInv'
  BY <1>2 DEF vars, IInv, TypeOK, LogsPositions, RetainsTheFee, CommitmentIsThePosition, Open,
              IsOpen, LongNeverOverdrawn, TracksTheHold, HeatIsOfTheHold
<1> QED BY <1>1, <1>2

\* The invariant of the paper path.
THEOREM PaperInv == Spec => []IInv
BY InitInv, StepInv, PTL DEF Spec

\* Every variable keeps its type, and the ticker trigger of a symbol follows its
\* position.
THEOREM TypeCorrect == Spec => []TypeOK
<1>1. IInv => TypeOK
  BY DEF IInv
<1> QED BY <1>1, PaperInv, PTL

\* A side's semaphore, its one position and the fee retained for it come and go
\* together.
THEOREM OneCommitment == Spec => []CommitmentIsThePosition
<1>1. IInv => CommitmentIsThePosition
  BY DEF IInv
<1> QED BY <1>1, PaperInv, PTL

\* CHECK 2 keeps the long wallet from being spent below zero, at any prices, fee
\* up to the whole and concentration limit up to the whole.
THEOREM NeverOverdrawn == Spec => []LongNeverOverdrawn
<1>1. IInv => LongNeverOverdrawn
  BY DEF IInv
<1> QED BY <1>1, PaperInv, PTL

\* A record's heat is the worst quote of its own hold.
THEOREM HeatSound == Spec => []HeatIsOfTheHold
<1>1. IInv => HeatIsOfTheHold
  BY DEF IInv
<1> QED BY <1>1, PaperInv, PTL

\* Each close is booked: from the cash of the entry to the cash after the exit a
\* wallet moves by the net P/L of the record the close leaves.
BooksTheClose ==
    \A s \in Symbols : IsOpen(pos, s) /\ ~IsOpen(pos', s) =>
        LET p == pos[s]
            record == closes'[p.nth][Len(closes'[p.nth])]
        IN  /\ Len(closes'[p.nth]) = Len(closes[p.nth]) + 1
            /\ balance'[p.side] + EntryCash(p.side, p.entry) = balance[p.side] + record.net

\* For an open position the cash of its entry and of its exit add up to its net P/L.
LEMMA ClosePL ==
    ASSUME IInv, NEW s \in Symbols, IsOpen(pos, s), NEW x \in Int
    PROVE  EntryCash(pos[s].side, pos[s].entry) + ExitCash(pos[s].side, x) = NetPL(pos[s], x)
<1> DEFINE p == pos[s]
<1>1. p.sym = s /\ p.side \in Sides /\ p.entry \in Prices /\ p.entry \in Int
  BY PositionTypes, PaperAssumption DEF IInv, Positions
<1>2. EntryFee(p.side, p.entry) \in Nat
  BY <1>1, EntryTypes
<1>3. fee[p.side][s] # None /\ \A sd \in Sides : fee[sd][s] # None => sd = p.side
  <2>1. Retains
    BY CommitmentForm DEF IInv
  <2> QED BY <1>1, <2>1 DEF Retains
<1>4. (CHOOSE sd \in Sides : fee[sd][s] # None) = p.side
  BY <1>1, <1>3
<1>5. RetainedFee(p.sym) = EntryFee(p.side, p.entry)
  BY <1>1, <1>3, <1>4 DEF RetainedFee, IInv, RetainsTheFee
<1> QED BY <1>1, <1>2, <1>5, RoundTrip

\* Every step books the closes it makes.
LEMMA BooksStep == ASSUME IInv, [Next]_vars PROVE [BooksTheClose]_vars
<1>1. CASE UNCHANGED vars
  BY <1>1
<1>2. CASE Next
  <2>1. ASSUME NEW s \in Symbols, IsOpen(pos, s), ~IsOpen(pos', s)
        PROVE  /\ Len(closes'[pos[s].nth]) = Len(closes[pos[s].nth]) + 1
               /\ balance'[pos[s].side] + EntryCash(pos[s].side, pos[s].entry)
                  = balance[pos[s].side] + closes'[pos[s].nth][Len(closes'[pos[s].nth])].net
    <3> DEFINE p == pos[s]
    <3>1. PICK t \in Symbols, q \in Prices :
              \/ \E sd \in Sides, mae \in MaeDistances : Enter(sd, t, q, mae)
              \/ TickHolds(t, q)
              \/ CloseOf(t)
      BY <1>2, StepCases
    <3>2. ~TickHolds(t, q)
      BY <2>1 DEF TickHolds
    <3>3. ASSUME NEW sd \in Sides, NEW mae \in MaeDistances, Enter(sd, t, q, mae)
          PROVE  FALSE
      <4>1. ~IsOpen(pos, t) /\ pos \in [Symbols -> Positions \cup {None}]
        BY <3>3 DEF Enter, Selectable, IInv, TypeOK
      <4>2. pos'[s] = pos[s]
        BY <2>1, <3>3, <4>1 DEF Enter, IsOpen
      <4> QED BY <2>1, <4>2 DEF IsOpen
    <3>4. PICK q2 \in Prices, x \in Int, reason \in Reasons, high \in Nat \cup {None} :
              /\ IsOpen(pos, t)
              /\ Close(pos[t], x, reason, high)
      BY <3>1, <3>2, <3>3 DEF CloseOf
    <3>5. pos[t].sym = t /\ p.side \in Sides /\ p.nth \in 1 .. Len(closes) /\ p.entry \in Prices
      BY <2>1, <3>4, PositionTypes DEF IInv, LogsPositions, Positions
    <3>6. s = t
      <4>1. pos' = [pos EXCEPT ![t] = None] /\ pos \in [Symbols -> Positions \cup {None}]
        BY <3>4, <3>5 DEF Close, IInv, TypeOK
      <4> QED BY <2>1, <4>1 DEF IsOpen
    <3> DEFINE record == [reason |-> reason, net |-> NetPL(p, x), side |-> p.side,
                          heat |-> HeatAt(p, x, high), worst |-> worst'[p.sym]]
    <3>7. /\ balance' = [balance EXCEPT ![p.side] = @ + ExitCash(p.side, x)]
          /\ closes' = [closes EXCEPT ![p.nth] = Append(@, record)]
      BY <3>4, <3>6 DEF Close
    <3>8. record.net = NetPL(p, x)
      OBVIOUS
    <3> HIDE DEF record
    <3>9. closes \in Seq(Seq(Records)) /\ closes[p.nth] \in Seq(Records)
      BY <3>5 DEF IInv, LogsPositions
    <3>10. closes'[p.nth] = Append(closes[p.nth], record)
      BY <3>5, <3>7, <3>9
    <3>11. /\ Len(closes'[p.nth]) = Len(closes[p.nth]) + 1
           /\ closes'[p.nth][Len(closes'[p.nth])] = record
      BY <3>9, <3>10
    <3>12. ExitCash(p.side, x) \in Int /\ EntryCash(p.side, p.entry) \in Int
      <4>1. Fee(x) \in Int
        BY FeeOfInt
      <4>2. ExitCash(p.side, x) \in Int
        BY <4>1 DEF ExitCash
      <4> QED BY <3>5, <4>2, EntryTypes
    <3>13. balance'[p.side] = balance[p.side] + ExitCash(p.side, x) /\ balance[p.side] \in Int
      BY <3>5, <3>7 DEF IInv, TypeOK
    <3>14. EntryCash(p.side, p.entry) + ExitCash(p.side, x) = record.net
      BY <2>1, <3>8, ClosePL
    <3> QED BY <3>11, <3>12, <3>13, <3>14
  <2> QED BY <2>1 DEF BooksTheClose
<1> QED BY <1>1, <1>2

\* Whatever the prices and fees, every close moves its wallet by what it records.
THEOREM EveryCloseIsBooked == Spec => [][BooksTheClose]_vars
BY PaperInv, BooksStep, PTL DEF Spec

-----------------------------------------------------------------------------
(* The wallet and the sum of its records. *)

\* An open position is the only one of its entry, which has no record yet.
OwnEntry ==
    \A s \in Symbols : IsOpen(pos, s) =>
        /\ closes[pos[s].nth] = <<>>
        /\ \A t \in Symbols : IsOpen(pos, t) /\ pos[t].nth = pos[s].nth => t = s

\* Invested, in terms of the symbols.
InvestedInSymbols ==
    \A sd \in Sides :
        /\ \A s \in Symbols : IsOpen(pos, s) /\ pos[s].side = sd
                                => Invested(sd) = EntryCash(sd, pos[s].entry)
        /\ (\A s \in Symbols : IsOpen(pos, s) => pos[s].side # sd) => Invested(sd) = 0

\* A side's one open position is what it has invested.
LEMMA InvestedForm == ASSUME IInv PROVE InvestedInSymbols
<1> SUFFICES ASSUME NEW sd \in Sides
             PROVE  /\ \A s \in Symbols : IsOpen(pos, s) /\ pos[s].side = sd
                                            => Invested(sd) = EntryCash(sd, pos[s].entry)
                    /\ (\A s \in Symbols : IsOpen(pos, s) => pos[s].side # sd) => Invested(sd) = 0
  BY DEF InvestedInSymbols
<1>1. \A p : p \in Open <=> \E s \in Symbols : IsOpen(pos, s) /\ p = pos[s]
  BY DEF Open
<1>2. ASSUME NEW s \in Symbols, IsOpen(pos, s), pos[s].side = sd
      PROVE  Invested(sd) = EntryCash(sd, pos[s].entry)
  <2>1. pos[s] \in Open /\ \A p \in Open : p.side = sd => p = pos[s]
    BY <1>1, <1>2 DEF IInv, CommitmentIsThePosition
  <2>2. (CHOOSE p \in Open : p.side = sd) = pos[s]
    BY <1>2, <2>1
  <2> QED BY <1>2, <2>1, <2>2 DEF Invested
<1>3. (\A s \in Symbols : IsOpen(pos, s) => pos[s].side # sd) => Invested(sd) = 0
  BY <1>1 DEF Invested
<1> QED BY <1>2, <1>3

\* What is booked to a wallet is a list of integers, one for each entry.
LEMMA BookingsTypes ==
    ASSUME closes \in Seq(Seq(Records)), NEW sd \in Sides
    PROVE  Bookings(sd) \in Seq(Int) /\ Len(Bookings(sd)) = Len(closes)
<1>1. ASSUME NEW n \in DOMAIN closes PROVE Bookings(sd)[n] \in Int
  <2>1. closes[n] \in Seq(Records) /\ (closes[n] # <<>> => 1 \in DOMAIN closes[n])
    OBVIOUS
  <2>2. closes[n] # <<>> => closes[n][1] \in Records
    BY <2>1
  <2> QED BY <2>2 DEF Bookings, Records
<1>2. DOMAIN closes = 1 .. Len(closes) /\ Len(closes) \in Nat
  OBVIOUS
<1>3. Bookings(sd) \in [1 .. Len(closes) -> Int]
  BY <1>1, <1>2 DEF Bookings
<1> QED BY <1>2, <1>3

\* An entry books nothing.
LEMMA EntryBooksNothing ==
    ASSUME closes \in Seq(Seq(Records)), closes' = Append(closes, <<>>), NEW sd \in Sides
    PROVE  Total(Bookings(sd)') = Total(Bookings(sd))
<1>1. Bookings(sd) \in Seq(Int) /\ Len(Bookings(sd)) = Len(closes) /\ Len(closes) \in Nat
  BY BookingsTypes
<1>2. /\ DOMAIN closes' = 1 .. Len(closes) + 1
      /\ \A n \in 1 .. Len(closes) : closes'[n] = closes[n]
      /\ closes'[Len(closes) + 1] = <<>>
  OBVIOUS
<1>3. /\ Bookings(sd)' = [n \in 1 .. Len(closes) + 1 |-> Bookings(sd)'[n]]
      /\ \A n \in 1 .. Len(closes) : Bookings(sd)'[n] = Bookings(sd)[n]
      /\ Bookings(sd)'[Len(closes) + 1] = 0
  BY <1>2 DEF Bookings
<1>4. Bookings(sd)' = Append(Bookings(sd), 0)
  <2> DEFINE b == Bookings(sd)  c == Bookings(sd)'  k == Len(closes)
  <2>1. /\ b \in Seq(Int) /\ Len(b) = k /\ k \in Nat
        /\ c = [n \in 1 .. k + 1 |-> c[n]]
        /\ (\A n \in 1 .. k : c[n] = b[n]) /\ c[k + 1] = 0
    BY <1>1, <1>3
  <2> HIDE DEF b, c, k
  <2>2. c = Append(b, 0)
    BY <2>1, 0 \in Int, ListAppend
  <2> QED BY <2>2 DEF b, c
<1>5. Total(Append(Bookings(sd), 0)) = Total(Bookings(sd)) + 0 /\ Total(Bookings(sd)) \in Int
  BY <1>1, TotalAppend, TotalIsInt, 0 \in Int
<1> QED BY <1>4, <1>5

\* The first record of an entry books its net P/L to its side.
LEMMA RecordIsBooked ==
    ASSUME closes \in Seq(Seq(Records)), NEW n \in DOMAIN closes, closes[n] = <<>>,
           NEW record \in Records, closes' = [closes EXCEPT ![n] = Append(@, record)],
           NEW sd \in Sides
    PROVE  Total(Bookings(sd)') = Total(Bookings(sd)) + IF record.side = sd THEN record.net ELSE 0
<1>1. /\ Bookings(sd) \in Seq(Int) /\ Len(Bookings(sd)) = Len(closes)
      /\ DOMAIN closes = 1 .. Len(closes) /\ Len(closes) \in Nat
  <2>1. Bookings(sd) \in Seq(Int) /\ Len(Bookings(sd)) = Len(closes)
    BY BookingsTypes
  <2>2. DOMAIN closes = 1 .. Len(closes) /\ Len(closes) \in Nat
    OBVIOUS
  <2> QED BY <2>1, <2>2
<1>2. closes' \in Seq(Seq(Records)) /\ DOMAIN closes' = DOMAIN closes /\ Len(closes') = Len(closes)
      /\ closes'[n] = <<record>> /\ \A k \in DOMAIN closes : k # n => closes'[k] = closes[k]
  OBVIOUS
<1> DEFINE d == IF record.side = sd THEN record.net ELSE 0
           b == Bookings(sd)
           c == Bookings(sd)'
<1>3. b \in Seq(Int) /\ Len(b) = Len(closes) /\ n \in 1 .. Len(b) /\ DOMAIN closes = 1 .. Len(b)
  <2> HIDE DEF b
  <2>1. b \in Seq(Int) /\ Len(b) = Len(closes)
    BY <1>1 DEF b
  <2> QED BY <1>1, <2>1
<1>4. b[n] = 0 /\ c[n] = d /\ \A k \in DOMAIN closes : k # n => c[k] = b[k]
  BY <1>2 DEF Bookings
<1>5. d \in Int
  BY DEF Records
<1>6. c = [k \in 1 .. Len(b) |-> c[k]]
  BY <1>2, <1>3 DEF Bookings
<1> HIDE DEF b, c, d
<1>7. c \in Seq(Int) /\ Len(c) = Len(b)
  <2>1. \A k \in 1 .. Len(b) : b[k] \in Int
    BY <1>3
  <2>2. \A k \in 1 .. Len(b) : c[k] \in Int
    BY <1>3, <1>4, <1>5, <2>1
  <2>3. c \in [1 .. Len(b) -> Int] /\ Len(b) \in Nat
    BY <1>3, <1>6, <2>2
  <2> QED BY <2>3, ListOfFunction
<1>8. \A k \in 1 .. Len(b) : c[k] = IF k = n THEN b[k] + d ELSE b[k]
  <2>1. 0 + d = d
    BY <1>5
  <2>2. c[n] = b[n] + d
    BY <1>4, <2>1
  <2>3. \A k \in 1 .. Len(b) : k # n => c[k] = b[k]
    BY <1>3, <1>4
  <2> QED BY <2>2, <2>3
<1>9. Total(c) = Total(b) + d
  BY <1>3, <1>5, <1>7, <1>8, TotalExcept
<1> QED BY <1>9 DEF b, c, d

WalletInv == IInv /\ OwnEntry /\ WalletMatchesRecords

\* The wallets start with what they have and nothing booked.
LEMMA InitWallet == ASSUME Init PROVE WalletInv
<1>1. IInv
  BY InitInv
<1>2. \A s \in Symbols : ~IsOpen(pos, s)
  BY DEF Init, EmptyStore, IsOpen
<1>3. OwnEntry
  BY <1>2 DEF OwnEntry
<1>4. \A sd \in Sides : Invested(sd) = 0
  BY <1>1, <1>2, InvestedForm DEF InvestedInSymbols
<1>5. \A sd \in Sides : Bookings(sd) = <<>>
  BY DEF Init, Bookings
<1>6. WalletMatchesRecords
  BY <1>4, <1>5, TotalOfNone, PaperAssumption DEF WalletMatchesRecords, Init
<1> QED BY <1>1, <1>3, <1>6 DEF WalletInv

\* An entry turns cash into a position.
LEMMA EnterWallet ==
    ASSUME WalletInv, NEW sd \in Sides, NEW s \in Symbols, NEW p \in Prices,
           NEW mae \in MaeDistances, Enter(sd, s, p, mae)
    PROVE  WalletInv'
<1> DEFINE new == [sym |-> s, side |-> sd, entry |-> p, mae |-> mae,
                   stop |-> StopPrice(sd, p), nth |-> Len(closes) + 1]
<1>1. IInv /\ IInv'
  BY EnterInv DEF WalletInv
<1>2. InvestedInSymbols /\ InvestedInSymbols'
  BY <1>1, InvestedForm, PTL
<1>3. /\ closes \in Seq(Seq(Records)) /\ Len(closes) \in Nat
      /\ \A t \in Symbols : IsOpen(pos, t) => pos[t].nth \in 1 .. Len(closes)
  BY <1>1 DEF IInv, LogsPositions
<1>4. /\ ~IsOpen(pos, s) /\ ~sem[sd]
      /\ pos' = [pos EXCEPT ![s] = new] /\ pos \in [Symbols -> Positions \cup {None}]
      /\ closes' = Append(closes, <<>>)
      /\ balance' = [balance EXCEPT ![sd] = @ + EntryCash(sd, p)]
  BY <1>1 DEF Enter, Selectable, RiskGuard, IInv, TypeOK
<1>5. new.side = sd /\ new.entry = p /\ new.nth = Len(closes) + 1
  OBVIOUS
<1>6. new # None
  <2>1. pos'[s] = new /\ trigger'[s] = "bbo"
    BY <1>1, <1>4 DEF Enter, IInv, TypeOK
  <2>2. trigger'[s] = IF IsOpen(pos', s) THEN "bbo" ELSE "trades"
    BY <1>1 DEF IInv, TypeOK, IsOpen
  <2> QED BY <2>1, <2>2 DEF IsOpen
<1> HIDE DEF new
<1>7. /\ pos'[s] = new /\ IsOpen(pos', s)
      /\ \A t \in Symbols \ {s} : pos'[t] = pos[t] /\ (IsOpen(pos', t) <=> IsOpen(pos, t))
  BY <1>4, <1>6 DEF IsOpen
<1>8. /\ \A n \in 1 .. Len(closes) : closes'[n] = closes[n]
      /\ closes'[Len(closes) + 1] = <<>>
  BY <1>3, <1>4
<1>9. OwnEntry'
  <2>1. OwnEntry
    BY DEF WalletInv
  <2>2. ASSUME NEW t \in Symbols, IsOpen(pos', t)
        PROVE  /\ closes'[pos'[t].nth] = <<>>
               /\ \A u \in Symbols : IsOpen(pos', u) /\ pos'[u].nth = pos'[t].nth => u = t
    <3>1. CASE t = s
      BY <1>3, <1>5, <1>7, <1>8, <3>1
    <3>2. CASE t # s
      <4>1. IsOpen(pos, t) /\ pos'[t] = pos[t] /\ pos[t].nth \in 1 .. Len(closes)
        BY <1>3, <1>7, <2>2, <3>2
      <4>2. pos'[s].nth = Len(closes) + 1
        BY <1>5, <1>7
      <4>3. closes'[pos'[t].nth] = <<>>
        BY <1>8, <2>1, <4>1 DEF OwnEntry
      <4>4. ASSUME NEW u \in Symbols, IsOpen(pos', u), pos'[u].nth = pos'[t].nth
            PROVE  u = t
        <5>1. u # s
          BY <1>3, <4>1, <4>2, <4>4
        <5> QED BY <1>7, <2>1, <4>1, <4>4, <5>1 DEF OwnEntry
      <4> QED BY <4>3, <4>4
    <3> QED BY <3>1, <3>2
  <2> QED BY <2>2 DEF OwnEntry, IsOpen
<1>10. ASSUME NEW od \in Sides PROVE balance'[od] = Start + Total(Bookings(od)') + Invested(od)'
  <2>1. balance[od] = Start + Total(Bookings(od)) + Invested(od)
    BY DEF WalletInv, WalletMatchesRecords
  <2>2. Total(Bookings(od)') = Total(Bookings(od)) /\ Total(Bookings(od)) \in Int
    BY <1>3, <1>4, EntryBooksNothing, BookingsTypes, TotalIsInt
  <2>3. \A t \in Symbols : IsOpen(pos, t) => pos[t].side # sd
    BY <1>1, <1>4, CommitmentForm DEF IInv, Locks
  <2>4. balance \in [Sides -> Int]
    BY <1>1 DEF IInv, TypeOK
  <2>5. CASE od = sd
    <3>1. Invested(sd) = 0
      BY <1>2, <2>3 DEF InvestedInSymbols
    <3>2. Invested(sd)' = EntryCash(sd, p)
      BY <1>2, <1>5, <1>7 DEF InvestedInSymbols, IsOpen
    <3>3. EntryCash(sd, p) \in Int /\ Start \in Int
      BY EntryTypes, PaperAssumption
    <3>4. balance'[sd] = balance[sd] + EntryCash(sd, p)
      BY <1>4, <2>4
    <3> QED BY <2>1, <2>2, <2>5, <3>1, <3>2, <3>3, <3>4
  <2>6. CASE od # sd
    <3>1. Invested(od)' = Invested(od)
      <4>1. CASE \E t \in Symbols : IsOpen(pos, t) /\ pos[t].side = od
        <5>1. PICK t \in Symbols : IsOpen(pos, t) /\ pos[t].side = od
          BY <4>1
        <5>2. IsOpen(pos', t) /\ pos'[t] = pos[t]
          BY <1>4, <1>7, <5>1
        <5> QED BY <1>2, <5>1, <5>2 DEF InvestedInSymbols, IsOpen
      <4>2. CASE ~\E t \in Symbols : IsOpen(pos, t) /\ pos[t].side = od
        <5>1. \A t \in Symbols : IsOpen(pos', t) => pos'[t].side # od
          BY <1>5, <1>7, <2>6, <4>2
        <5> QED BY <1>2, <4>2, <5>1 DEF InvestedInSymbols, IsOpen
      <4> QED BY <4>1, <4>2
    <3>2. balance'[od] = balance[od]
      BY <1>4, <2>4, <2>6
    <3> QED BY <2>1, <2>2, <3>1, <3>2
  <2> QED BY <2>5, <2>6
<1>11. WalletMatchesRecords'
  BY <1>10 DEF WalletMatchesRecords
<1> QED BY <1>1, <1>9, <1>11 DEF WalletInv

\* A close turns the position into cash and a record of the difference.
LEMMA CloseWallet ==
    ASSUME WalletInv, NEW s \in Symbols, CloseOf(s)
    PROVE  WalletInv'
<1> DEFINE p == pos[s]
<1>1. IInv /\ IInv' /\ OwnEntry
  BY CloseInv DEF WalletInv
<1>2. InvestedInSymbols /\ InvestedInSymbols'
  BY <1>1, InvestedForm, PTL
<1>3. PICK q \in Prices, x \in Int, reason \in Reasons, high \in Nat \cup {None} :
          IsOpen(pos, s) /\ See(p, q) /\ Close(p, x, reason, high)
  BY DEF CloseOf
<1>4. p.sym = s /\ p.side \in Sides /\ p.nth \in DOMAIN closes /\ p.entry \in Prices
  BY <1>1, <1>3, PositionTypes DEF IInv, LogsPositions, Positions
<1> DEFINE record == [reason |-> reason, net |-> NetPL(p, x), side |-> p.side,
                      heat |-> HeatAt(p, x, high), worst |-> worst'[s]]
<1>5. record \in Records /\ record.side = p.side /\ record.net = NetPL(p, x)
  <2>1. worst'[s] \in Nat
    BY <1>1 DEF IInv, TypeOK
  <2>2. record \in Records
    BY <1>1, <1>3, <2>1, RecordType
  <2> QED BY <2>2
<1>6. /\ balance' = [balance EXCEPT ![p.side] = @ + ExitCash(p.side, x)]
      /\ closes' = [closes EXCEPT ![p.nth] = Append(@, record)]
      /\ pos' = [pos EXCEPT ![s] = None]
  BY <1>3, <1>4 DEF Close
<1> HIDE DEF record
<1>7. /\ closes \in Seq(Seq(Records)) /\ closes[p.nth] = <<>>
      /\ \A t \in Symbols : IsOpen(pos, t) /\ pos[t].nth = p.nth => t = s
  BY <1>1, <1>3 DEF IInv, LogsPositions, OwnEntry
<1>8. /\ ~IsOpen(pos', s)
      /\ \A t \in Symbols \ {s} : pos'[t] = pos[t] /\ (IsOpen(pos', t) <=> IsOpen(pos, t))
  BY <1>1, <1>6 DEF IInv, TypeOK, IsOpen
<1>9. OwnEntry'
  <2>1. ASSUME NEW t \in Symbols, IsOpen(pos', t)
        PROVE  /\ closes'[pos'[t].nth] = <<>>
               /\ \A u \in Symbols : IsOpen(pos', u) /\ pos'[u].nth = pos'[t].nth => u = t
    <3>1. t # s /\ IsOpen(pos, t) /\ pos'[t] = pos[t]
      BY <1>8, <2>1
    <3>2. pos[t].nth # p.nth
      BY <1>7, <3>1
    <3>3. closes'[pos[t].nth] = closes[pos[t].nth]
      BY <1>6, <1>7, <3>2
    <3> QED BY <1>1, <1>8, <3>1, <3>3 DEF OwnEntry
  <2> QED BY <2>1 DEF OwnEntry, IsOpen
<1>10. ASSUME NEW od \in Sides PROVE balance'[od] = Start + Total(Bookings(od)') + Invested(od)'
  <2>1. balance[od] = Start + Total(Bookings(od)) + Invested(od)
    BY DEF WalletInv, WalletMatchesRecords
  <2>2. /\ Total(Bookings(od)') = Total(Bookings(od)) + IF record.side = od THEN record.net ELSE 0
        /\ Total(Bookings(od)) \in Int
    BY <1>4, <1>5, <1>6, <1>7, RecordIsBooked, BookingsTypes, TotalIsInt
  <2>3. \A t \in Symbols \ {s} : IsOpen(pos, t) => pos[t].side # p.side
    BY <1>1, <1>3, CommitmentForm DEF IInv, Alone
  <2>4. balance \in [Sides -> Int] /\ Start \in Int
    BY <1>1, PaperAssumption DEF IInv, TypeOK
  <2>5. CASE od = p.side
    <3>1. Invested(od) = EntryCash(od, p.entry)
      BY <1>2, <1>3, <2>5 DEF InvestedInSymbols
    <3>2. Invested(od)' = 0
      <4>1. \A t \in Symbols : IsOpen(pos', t) => pos'[t].side # od
        BY <1>8, <2>3, <2>5
      <4> QED BY <1>2, <4>1 DEF InvestedInSymbols, IsOpen
    <3>3. EntryCash(od, p.entry) + ExitCash(od, x) = record.net
      BY <1>1, <1>3, <1>5, <2>5, ClosePL
    <3>4. EntryCash(od, p.entry) \in Int /\ ExitCash(od, x) \in Int
      BY <1>4, EntryTypes, FeeOfInt DEF ExitCash
    <3>5. balance'[od] = balance[od] + ExitCash(od, x)
      BY <1>6, <2>4, <2>5
    <3> QED BY <1>5, <2>1, <2>2, <2>4, <2>5, <3>1, <3>2, <3>3, <3>4, <3>5
  <2>6. CASE od # p.side
    <3>1. Invested(od)' = Invested(od)
      <4>1. CASE \E t \in Symbols : IsOpen(pos, t) /\ pos[t].side = od
        <5>1. PICK t \in Symbols : IsOpen(pos, t) /\ pos[t].side = od
          BY <4>1
        <5>2. IsOpen(pos', t) /\ pos'[t] = pos[t]
          BY <1>8, <2>6, <5>1
        <5> QED BY <1>2, <5>1, <5>2 DEF InvestedInSymbols, IsOpen
      <4>2. CASE ~\E t \in Symbols : IsOpen(pos, t) /\ pos[t].side = od
        <5>1. \A t \in Symbols : IsOpen(pos', t) => pos'[t].side # od
          BY <1>8, <4>2
        <5> QED BY <1>2, <4>2, <5>1 DEF InvestedInSymbols, IsOpen
      <4> QED BY <4>1, <4>2
    <3>2. balance'[od] = balance[od]
      BY <1>6, <2>4, <2>6
    <3> QED BY <1>5, <2>1, <2>2, <2>6, <3>1, <3>2
  <2> QED BY <2>5, <2>6
<1>11. WalletMatchesRecords'
  BY <1>10 DEF WalletMatchesRecords
<1> QED BY <1>1, <1>9, <1>11 DEF WalletInv

\* Every step keeps the wallets and their records together.
LEMMA StepWallet == WalletInv /\ [Next]_vars => WalletInv'
<1>1. ASSUME WalletInv, Next PROVE WalletInv'
  <2>1. IInv
    BY <1>1 DEF WalletInv
  <2>2. PICK s \in Symbols, q \in Prices :
            \/ \E sd \in Sides, mae \in MaeDistances : Enter(sd, s, q, mae)
            \/ TickHolds(s, q)
            \/ CloseOf(s)
    BY <1>1, <2>1, StepCases
  <2>3. CASE TickHolds(s, q)
    <3>1. IInv' /\ UNCHANGED <<pos, balance, closes>>
      BY <2>1, <2>3, HoldInv DEF TickHolds
    <3> QED BY <1>1, <3>1 DEF WalletInv, OwnEntry, WalletMatchesRecords, Bookings, Invested, Open, IsOpen
  <2> QED BY <1>1, <2>2, <2>3, EnterWallet, CloseWallet
<1>2. ASSUME WalletInv, UNCHANGED vars PROVE WalletInv'
  <2>1. IInv'
    BY <1>2, StepInv DEF WalletInv
  <2> QED BY <1>2, <2>1 DEF vars, WalletInv, OwnEntry, WalletMatchesRecords, Bookings, Invested, Open, IsOpen
<1> QED BY <1>1, <1>2

\* Whatever the prices, fees, leverage and number of entries, a wallet is its
\* starting balance, the sum of the net P/L of its TRADE_CLOSE records and the cash
\* in its open position.
THEOREM WalletsAreTheRecords == Spec => []WalletMatchesRecords
<1>1. WalletInv => WalletMatchesRecords
  BY DEF WalletInv
<1> QED BY <1>1, InitWallet, StepWallet, PTL DEF Spec

-----------------------------------------------------------------------------
(* The promise of the lifecycle. *)

\* The reasons of a log that gets an empty entry.
ReasonsOf(log) == [n \in DOMAIN log |-> [i \in DOMAIN log[n] |-> log[n][i].reason]]

\* The reasons of the log, as it grows by an entry.
LEMMA ReasonsAppend ==
    ASSUME NEW log \in Seq(Seq(Records))
    PROVE  /\ Len(ReasonsOf(log)) = Len(log)
           /\ ReasonsOf(Append(log, <<>>)) = Append(ReasonsOf(log), <<>>)
<1> DEFINE r == ReasonsOf(log)
           V == {r[n] : n \in DOMAIN log}
           a == ReasonsOf(Append(log, <<>>))
<1>1. r \in [1 .. Len(log) -> V]
  BY DEF ReasonsOf
<1>2. r \in Seq(V) /\ Len(r) = Len(log)
  <2>1. Len(log) \in Nat
    OBVIOUS
  <2> HIDE DEF r, V
  <2> QED BY <1>1, <2>1
<1>3. /\ DOMAIN Append(log, <<>>) = 1 .. Len(log) + 1
      /\ \A n \in 1 .. Len(log) : Append(log, <<>>)[n] = log[n]
      /\ Append(log, <<>>)[Len(log) + 1] = <<>>
  OBVIOUS
<1>4. /\ DOMAIN a = 1 .. Len(log) + 1
      /\ \A n \in 1 .. Len(log) : a[n] = r[n]
      /\ a[Len(log) + 1] = <<>>
  <2>1. DOMAIN a = 1 .. Len(log) + 1
    BY <1>3 DEF ReasonsOf
  <2>2. ASSUME NEW n \in 1 .. Len(log) PROVE a[n] = r[n]
    BY <1>3, <2>2 DEF ReasonsOf
  <2>3. a[Len(log) + 1] = [i \in DOMAIN <<>> |-> Append(log, <<>>)[Len(log) + 1][i].reason]
    BY <1>3 DEF ReasonsOf
  <2> QED BY <2>1, <2>2, <2>3
<1>5. a = [n \in 1 .. Len(log) + 1 |-> a[n]]
  BY <1>4 DEF ReasonsOf
<1>6. /\ DOMAIN Append(r, <<>>) = 1 .. Len(log) + 1
      /\ \A n \in 1 .. Len(log) : Append(r, <<>>)[n] = r[n]
      /\ Append(r, <<>>)[Len(log) + 1] = <<>>
  BY <1>2
<1> QED BY <1>2, <1>4, <1>5, <1>6

\* Ticks that hold are invisible to the lifecycle; an entry opens, a close
\* settles one position.
THEOREM RefinesLifecycle == Spec => ImplementsLifecycle
<1> DEFINE abs(p) == [nth |-> p.nth, sym |-> p.sym, side |-> p.side]
           O == {abs(p) : p \in Open}
           R == [n \in DOMAIN closes |-> [i \in DOMAIN closes[n] |-> closes[n][i].reason]]
<1>1. Init => Lifecycle!Init
  <2> SUFFICES ASSUME Init PROVE Lifecycle!Init
    OBVIOUS
  <2>1. O = {}
    BY DEF Init, Open, EmptyStore, IsOpen
  <2>2. R = <<>>
    BY DEF Init
  <2> QED BY <2>1, <2>2 DEF Init, Lifecycle!Init
<1>2. ASSUME IInv, [Next]_vars
      PROVE  [Lifecycle!Next]_(Lifecycle!vars)
  <2>1. ASSUME NEW s \in Symbols, NEW q \in Prices, NEW sd \in Sides, NEW mae \in MaeDistances,
               Enter(sd, s, q, mae)
        PROVE  Lifecycle!Open(s, sd)
    <3> DEFINE new == [sym |-> s, side |-> sd, entry |-> q, mae |-> mae,
                       stop |-> StopPrice(sd, q), nth |-> Len(closes) + 1]
    <3>1. /\ ~IsOpen(pos, s) /\ pos' = [pos EXCEPT ![s] = new]
          /\ closes' = Append(closes, <<>>) /\ sem' = [sem EXCEPT ![sd] = TRUE]
      BY <2>1 DEF Enter, Selectable
    <3>2. new # None
      <4>1. EntryFee(sd, q) \in Nat /\ q \in Nat /\ StopDistance \in Nat /\ Len(closes) \in Nat
        BY <1>2, EntryTypes, PaperAssumption DEF IInv, LogsPositions
      <4>2. StopPrice(sd, q) \in Int
        BY <4>1 DEF StopPrice
      <4>3. new \in Positions
        BY <4>1, <4>2 DEF Positions
      <4> QED BY <4>3, NoneAssumption
    <3>3. closes \in Seq(Seq(Records)) /\ pos \in [Symbols -> Positions \cup {None}]
      BY <1>2 DEF IInv, LogsPositions, TypeOK
    <3>4. Len(R) = Len(closes) /\ R' = Append(R, <<>>)
      BY <3>1, <3>3, ReasonsAppend DEF ReasonsOf
    <3>5. \A p : p \in Open' <=> p \in Open \/ p = new
      BY <3>1, <3>2, <3>3 DEF Open, IsOpen
    <3>6. O' = O \cup {[nth |-> Len(closes) + 1, sym |-> s, side |-> sd]}
      <4>1. abs(new) = [nth |-> Len(closes) + 1, sym |-> s, side |-> sd]
        OBVIOUS
      <4>2. \A a : a \in O' <=> a \in O \/ a = abs(new)
        <5> HIDE DEF abs, new
        <5> QED BY <3>5
      <4> QED BY <4>1, <4>2
    <3>7. \A p \in Open : p.sym # s
      BY <1>2, <3>1 DEF IInv, TypeOK, Open
    <3>8. \A a \in O : a.sym # s
      BY <3>7
    <3> QED BY <3>1, <3>4, <3>6, <3>8 DEF Lifecycle!Open
  <2>2. ASSUME NEW s \in Symbols, CloseOf(s)
        PROVE  \E P \in SUBSET O, reason \in Reasons : Lifecycle!Settle(P, reason)
    <3> DEFINE p == pos[s]
    <3>1. PICK q \in Prices, x \in Int, reason \in Reasons, high \in Nat \cup {None} :
              /\ IsOpen(pos, s)
              /\ Close(p, x, reason, high)
      BY <2>2 DEF CloseOf
    <3>2. p.sym = s /\ p.side \in Sides /\ p.nth \in 1 .. Len(closes) /\ p \in Open
      BY <1>2, <3>1, PositionTypes DEF IInv, LogsPositions, Open
    <3> DEFINE record == [reason |-> reason, net |-> NetPL(p, x), side |-> p.side,
                          heat |-> HeatAt(p, x, high), worst |-> worst'[p.sym]]
    <3>3. /\ closes' = [closes EXCEPT ![p.nth] = Append(@, record)]
          /\ pos' = [pos EXCEPT ![s] = None]
          /\ sem' = [sem EXCEPT ![p.side] = FALSE]
      BY <3>1, <3>2 DEF Close, ReleaseSemaphore
    <3>4. record.reason = reason
      OBVIOUS
    <3> HIDE DEF record
    <3>5. /\ closes \in Seq(Seq(Records)) /\ pos \in [Symbols -> Positions \cup {None}]
          /\ sem \in [Sides -> BOOLEAN]
      BY <1>2 DEF IInv, LogsPositions, TypeOK
    <3>6. \A o : o \in Open' <=> o \in Open /\ o # p
      <4>1. \A o : o \in Open <=> \E t \in Symbols : IsOpen(pos, t) /\ o = pos[t]
        BY DEF Open
      <4>2. \A o : o \in Open' <=> \E t \in Symbols \ {s} : IsOpen(pos, t) /\ o = pos[t]
        BY <3>3, <3>5 DEF Open, IsOpen
      <4>3. \A t \in Symbols \ {s} : IsOpen(pos, t) => pos[t] # p
        BY <1>2, <3>2 DEF IInv, TypeOK
      <4> QED BY <3>1, <4>1, <4>2, <4>3
    <3>7. \A o \in Open : o # p => abs(o) # abs(p)
      <4>1. \A o \in Open : o.sym \in Symbols /\ o = pos[o.sym]
        BY <1>2 DEF Open, IInv, TypeOK
      <4> QED BY <3>2, <4>1
    <3>8. O' = O \ {abs(p)}
      BY <3>6, <3>7
    <3>9. R' = [n \in DOMAIN R |-> IF n = p.nth THEN Append(R[n], reason) ELSE R[n]]
      <4>1. DOMAIN closes' = DOMAIN closes
        BY <3>3
      <4>2. ASSUME NEW n \in DOMAIN closes
            PROVE  [i \in DOMAIN closes'[n] |-> closes'[n][i].reason]
                   = IF n = p.nth THEN Append([i \in DOMAIN closes[n] |-> closes[n][i].reason], reason)
                     ELSE [i \in DOMAIN closes[n] |-> closes[n][i].reason]
        <5>1. CASE n # p.nth
          BY <3>3, <5>1
        <5>2. CASE n = p.nth
          <6>1. closes[n] \in Seq(Records) /\ closes'[n] = Append(closes[n], record)
            BY <3>2, <3>3, <3>5, <5>2
          <6> QED BY <3>4, <5>2, <6>1
        <5> QED BY <5>1, <5>2
      <4> QED BY <4>1, <4>2
    <3>10. sem' = [sd \in Sides |-> sem[sd] /\ p.side # sd]
      BY <3>2, <3>3, <3>5
    <3>11. PICK P \in SUBSET O : P = {abs(p)}
      BY <3>2
    <3>12. {a.nth : a \in P} = {p.nth} /\ \A sd : (\E a \in P : a.side = sd) <=> p.side = sd
      BY <3>11
    <3>13. Lifecycle!Settle(P, reason)
      BY <3>8, <3>9, <3>10, <3>11, <3>12 DEF Lifecycle!Settle
    <3> QED BY <3>1, <3>13
  <2>3. ASSUME NEW s \in Symbols, NEW q \in Prices, TickHolds(s, q)
        PROVE  UNCHANGED Lifecycle!vars
    BY <2>3 DEF TickHolds, Lifecycle!vars, Open, IsOpen
  <2>4. CASE UNCHANGED vars
    BY <2>4 DEF vars, Lifecycle!vars, Open, IsOpen
  <2> QED BY <1>2, <2>1, <2>2, <2>3, <2>4, StepCases DEF Lifecycle!Next
<1> QED BY <1>1, <1>2, PaperInv, PTL DEF Spec, ImplementsLifecycle, Lifecycle!Spec

-----------------------------------------------------------------------------
(* The two perp pools for every set of bases, deposit, clip, leverage,     *)
(* window and breaker, and for every trade, whatever it is charged: the    *)
(* price costs no position more than the margin it posted, the pools can   *)
(* pay what they committed to all of them but for the charges, and they    *)
(* never hold one base against each other.                                 *)

\* A product with a positive number is no smaller.
LEMMA ProductIsLarger ==
    ASSUME NEW m \in Nat, NEW l \in Nat \ {0} PROVE m <= m * l
<1>1. PICK k \in Nat : l = k + 1
  <2>1. l - 1 \in Nat /\ l = (l - 1) + 1
    OBVIOUS
  <2> QED BY <2>1
<1>2. m * l = m * k + m
  BY <1>1
<1>3. m * k \in Nat
  BY <1>1
<1> QED BY <1>2, <1>3

\* A product grows with its factor.
LEMMA ProductIsMonotone ==
    ASSUME NEW u \in Nat, NEW m \in Nat, NEW n \in Nat, m <= n PROVE u * m <= u * n
<1>1. PICK d \in Nat : n = m + d
  <2>1. n - m \in Nat /\ n = m + (n - m)
    OBVIOUS
  <2> QED BY <2>1
<1>2. u * n = u * m + u * d /\ u * d \in Nat /\ u * m \in Nat
  BY <1>1
<1> QED BY <1>2

\* The margin is a part of the clip.
LEMMA MarginIsOfTheClip ==
    /\ Margin \in Nat \ {0} /\ Clip \in Nat \ {0} /\ Maint \in Nat /\ Cost \in Nat
    /\ Maint < Margin /\ Margin <= Clip
<1> HIDE DEF Margin
<1>1. /\ Margin \in Nat \ {0} /\ Leverage \in Nat \ {0} /\ Clip \in Nat \ {0}
      /\ Margin * Leverage = Clip /\ Maint \in Nat /\ Cost \in Nat /\ Maint < Margin
  BY PoolsAreFunded
<1>2. Margin <= Margin * Leverage
  BY <1>1, ProductIsLarger
<1> QED BY <1>1, <1>2

\* What a pool commits to a position covers its margin.
LEMMA UnitCoversTheMargin ==
    ASSUME NEW p \in Pools
    PROVE  CommittedUnit(p) \in Nat \ {0} /\ Margin <= CommittedUnit(p)
BY MarginIsOfTheClip DEF CommittedUnit

\* What one pool pays in funding the other is paid.
LEMMA FundingIsMutual ==
    ASSUME NEW t \in Trades
    PROVE  /\ FundingCost("long_perp", t) \in Int
           /\ FundingCost("short_perp", t) = -FundingCost("long_perp", t)
<1>1. t.premium \in Int /\ t.hold \in Nat
  BY TradesAreResolved DEF TradesAssumption
<1>2. FundingRate(t.premium) \in Int
  BY <1>1 DEF FundingRate, InterestRate, FundingClamp
<1>3. t.hold * FundingRate(t.premium) \in Int
  BY <1>1, <1>2
<1>4. t.hold * FundingRate(t.premium) * Clip \in Int
  BY <1>3, MarginIsOfTheClip
<1>5. (t.hold * FundingRate(t.premium) * Clip) \div 10000 \in Int
  BY <1>4
<1> QED BY <1>5 DEF FundingCost

\* The price takes no more than the margin, and the charges are what they are.
LEMMA RealizedIsCapped ==
    ASSUME NEW p \in Pools, NEW t \in Trades
    PROVE  /\ PriceResult(t) \in Int /\ PriceResult(t) >= -Margin
           /\ Charged(p, t) \in Int /\ Realized(p, t) = PriceResult(t) - Charged(p, t)
<1> HIDE DEF Margin
<1>1. Charged(p, t) \in Int
  <2>1. FundingCost(p, t) \in Int
    BY FundingIsMutual DEF Pools
  <2> QED BY <2>1, MarginIsOfTheClip DEF Charged
<1>2. /\ t.gross \in Int /\ t.adverse \in Int /\ t.gap \in Int
      /\ t.adverse >= 0 /\ t.gap >= 0 /\ t.gross >= -t.adverse
      /\ t.stop \in Nat \cup {Absent} /\ (t.stop # Absent => t.gross >= -t.stop)
  BY TradesAreResolved DEF TradesAssumption
<1>3. Faced(t) \in Int /\ Faced(t) >= t.gap /\ Faced(t) >= t.adverse
  BY <1>2 DEF Faced
<1>4. LossCap(Faced(t)).liquidated <=> Faced(t) >= LiqLevel
  BY DEF LossCap
<1>5. LossCap(Faced(t)).liquidated => LossCap(Faced(t)).realized = Margin
  BY DEF LossCap
<1>6. LiqLevel \in Int /\ LiqLevel = Margin - Maint
  BY MarginIsOfTheClip DEF LiqLevel
<1>7. PriceResult(t) \in Int /\ PriceResult(t) >= -Margin
  <2>1. CASE Liquidated(t)
    <3>1. LossCap(Faced(t)).realized = Margin
      BY <2>1, <1>5 DEF Liquidated
    <3>2. PriceResult(t) = -LossCap(Faced(t)).realized
      BY <2>1 DEF PriceResult, GappedThrough
    <3> QED BY <3>1, <3>2, MarginIsOfTheClip
  <2>2. CASE GappedThrough(t)
    <3>1. PriceResult(t) = -t.gap
      BY <2>2 DEF PriceResult, GappedThrough
    <3>2. Faced(t) < LiqLevel
      BY <2>2, <1>3, <1>4, <1>6 DEF Liquidated, GappedThrough
    <3> QED BY <3>1, <3>2, <1>2, <1>3, <1>6, MarginIsOfTheClip
  <2>3. CASE ~Liquidated(t) /\ ~GappedThrough(t)
    <3>1. PriceResult(t) = t.gross
      BY <2>3 DEF PriceResult
    <3>2. t.gross > -LiqLevel
      <4>1. CASE Faced(t) < LiqLevel
        BY <4>1, <1>2, <1>3, <1>6
      <4>2. CASE ~(Faced(t) < LiqLevel)
        <5>1. t.stop # Absent /\ ~(t.stop >= LiqLevel)
          BY <4>2, <1>3, <1>4, <1>6, <2>3 DEF Liquidated, Unprotected
        <5>2. t.stop \in Nat /\ t.gross >= -t.stop
          BY <5>1, <1>2
        <5> QED BY <5>1, <5>2, <1>2, <1>6
      <4> QED BY <4>1, <4>2
    <3> QED BY <3>1, <3>2, <1>2, <1>6, MarginIsOfTheClip
  <2> QED BY <2>1, <2>2, <2>3
<1> QED BY <1>1, <1>7 DEF Realized

\* The positions of a pool can be counted.
LEMMA HeldIsFinite ==
    ASSUME NEW p \in Pools PROVE IsFiniteSet(Held(p)) /\ Cardinality(Held(p)) \in Nat
<1>1. Held(p) \subseteq Bases /\ IsFiniteSet(Bases)
  BY PoolsAreFunded DEF Held
<1>2. IsFiniteSet(Held(p))
  BY <1>1, FS_Subset
<1> QED BY <1>2, FS_CardinalityType

\* A pool whose breaker passes can pay for the positions it holds and one more.
LEMMA PassIsFunded ==
    ASSUME NEW p \in Pools, equity[p] \in Int, Breaker(p) = "PASS"
    PROVE  CommittedUnit(p) * (Cardinality(Held(p)) + 1) <= equity[p]
<1> DEFINE exposure == TotalCommitted(p)
<1>1. exposure \in Int
  <2>1. CommittedUnit(p) \in Int /\ Cardinality(Held(p)) + 1 \in Int
    BY UnitCoversTheMargin, HeldIsFinite
  <2> QED BY <2>1 DEF TotalCommitted
<1>2. Guard(p, PauseBaseline(p), Disabled, PauseBp[p]) = "PASS"
  BY DEF Breaker
<1>3. ~(exposure * 10000 > 10000 * equity[p])
  BY <1>2 DEF Guard, G7!RiskGuard, G7!ParameterOf, G7!Parameters, G7!Bp
<1>4. exposure <= equity[p]
  <2> HIDE DEF exposure
  <2> QED BY <1>1, <1>3
<1> QED BY <1>4 DEF TotalCommitted

-----------------------------------------------------------------------------
\* The inductive invariant.
PoolInv == PoolsTypeOK /\ LossIsCapped /\ Solvent /\ NeverAgainstItself

\* The pools start empty.
LEMMA PoolInitInv == PoolsInit => PoolInv
<1> SUFFICES ASSUME PoolsInit PROVE PoolInv
  OBVIOUS
<1>1. \A p \in Pools : Held(p) = {}
  BY DEF PoolsInit, Held
<1>2. PoolsTypeOK
  BY PoolsAreFunded DEF PoolsInit, PoolsTypeOK, Holdings
<1>3. LossIsCapped
  BY <1>1 DEF LossIsCapped
<1>4. Solvent
  <2> SUFFICES ASSUME NEW p \in Pools
               PROVE  equity[p] + charged[p] >= CommittedUnit(p) * Cardinality(Held(p))
    BY DEF Solvent
  <2>1. Cardinality(Held(p)) = 0
    BY <1>1, FS_EmptySet
  <2>2. CommittedUnit(p) * 0 = 0
    BY UnitCoversTheMargin
  <2>3. equity[p] = Deposit /\ Deposit \in Nat /\ charged[p] = 0
    BY PoolsAreFunded DEF PoolsInit
  <2> QED BY <2>1, <2>2, <2>3
<1>5. NeverAgainstItself
  BY <1>1 DEF NeverAgainstItself, Pools
<1> QED BY <1>2, <1>3, <1>4, <1>5 DEF PoolInv

\* A candidate is turned away, halts the pool, or opens one position it can pay for.
LEMMA CandidateKeeps ==
    ASSUME PoolInv, NEW p \in Pools, NEW t \in Trades, Candidate(p, t) PROVE PoolInv'
<1> DEFINE taken == [left |-> t.hold, pnl |-> Realized(p, t), charged |-> Charged(p, t)]
<1>1. /\ PoolsTypeOK /\ LossIsCapped /\ Solvent /\ NeverAgainstItself
      /\ equity' = equity /\ seen' = seen /\ t.base \in Bases /\ t.hold \in Nat
  BY TradesAreResolved DEF PoolInv, Candidate, TradesAssumption
<1>2. taken \in Holdings /\ taken.pnl >= -Margin - taken.charged
  <2>1. /\ Realized(p, t) \in Int /\ Charged(p, t) \in Int
        /\ Realized(p, t) >= -Margin - Charged(p, t)
    <3> HIDE DEF Margin
    <3> QED BY RealizedIsCapped, MarginIsOfTheClip
  <2>2. taken \in Holdings
    BY <1>1, <2>1 DEF Holdings
  <2> QED BY <2>1, <2>2
<1> HIDE DEF taken
<1>3. ASSUME opens' = opens, charged' = charged PROVE PoolInv'
  <2>1. halted' \in [Pools -> BOOLEAN]
    BY <1>1 DEF Candidate, PoolsTypeOK
  <2>2. PoolsTypeOK'
    BY <1>1, <1>3, <2>1 DEF PoolsTypeOK
  <2>3. \A q \in Pools : Held(q)' = Held(q)
    BY <1>3 DEF Held
  <2>4. LossIsCapped' /\ NeverAgainstItself'
    BY <1>1, <1>3, <2>3 DEF LossIsCapped, NeverAgainstItself, Pools
  <2>5. Solvent'
    BY <1>1, <1>3, <2>3 DEF Solvent, CommittedUnit
  <2> QED BY <2>2, <2>4, <2>5 DEF PoolInv
<1>4. ASSUME Breaker(p) = "PASS", opens' = [opens EXCEPT ![p][t.base] = taken],
             halted' = halted, charged' = [charged EXCEPT ![p] = 0]
      PROVE  PoolInv'
  <2>1. /\ opens'[p][t.base] = taken
        /\ \A b \in Bases \ {t.base} : opens'[p][b] = opens[p][b]
        /\ \A q \in Pools \ {p} : opens'[q] = opens[q]
    BY <1>1, <1>4 DEF PoolsTypeOK
  <2>2. PoolsTypeOK'
    <3>1. opens' \in [Pools -> [Bases -> Holdings \cup {Absent}]]
      BY <1>1, <1>2, <1>4 DEF PoolsTypeOK
    <3>2. charged' \in [Pools -> Int]
      BY <1>1, <1>4 DEF PoolsTypeOK
    <3> QED BY <1>1, <1>4, <3>1, <3>2 DEF PoolsTypeOK
  <2>3. /\ Held(p)' \subseteq Held(p) \cup {t.base}
        /\ \A q \in Pools \ {p} : Held(q)' = Held(q)
    BY <2>1 DEF Held
  <2>4. LossIsCapped'
    <3> SUFFICES ASSUME NEW q \in Pools, NEW b \in Held(q)'
                 PROVE  opens'[q][b].pnl >= -Margin - opens'[q][b].charged
      BY DEF LossIsCapped
    <3>1. CASE q = p /\ b = t.base
      BY <3>1, <2>1, <1>2
    <3>2. CASE ~(q = p /\ b = t.base)
      <4>1. b \in Bases /\ opens'[q][b] = opens[q][b] /\ b \in Held(q)
        BY <3>2, <2>1 DEF Held
      <4> QED BY <4>1, <1>1 DEF LossIsCapped
    <3> QED BY <3>1, <3>2
  <2>5. Solvent'
    <3> SUFFICES ASSUME NEW q \in Pools
                 PROVE  equity[q] + charged'[q] >= CommittedUnit(q) * Cardinality(Held(q)')
      BY <1>1 DEF Solvent, CommittedUnit
    <3>0. charged'[p] = 0 /\ (q # p => charged'[q] = charged[q])
      BY <1>1, <1>4 DEF PoolsTypeOK
    <3>1. CASE q # p
      BY <3>0, <3>1, <2>3, <1>1 DEF Solvent
    <3>2. CASE q = p
      <4>1. equity[p] \in Int /\ CommittedUnit(p) * (Cardinality(Held(p)) + 1) <= equity[p]
        BY <1>1, <1>4, PassIsFunded DEF PoolsTypeOK
      <4>2. /\ Cardinality(Held(p)') \in Nat
            /\ Cardinality(Held(p)') <= Cardinality(Held(p)) + 1
        <5>1. /\ IsFiniteSet(Held(p) \cup {t.base})
              /\ Cardinality(Held(p) \cup {t.base}) <= Cardinality(Held(p)) + 1
          <6>1. IsFiniteSet(Held(p)) /\ Cardinality(Held(p)) \in Nat
            BY HeldIsFinite
          <6>2. /\ IsFiniteSet(Held(p) \cup {t.base})
                /\ \/ Cardinality(Held(p) \cup {t.base}) = Cardinality(Held(p))
                   \/ Cardinality(Held(p) \cup {t.base}) = Cardinality(Held(p)) + 1
            BY <6>1, FS_AddElement
          <6> QED BY <6>1, <6>2
        <5>2. /\ IsFiniteSet(Held(p)')
              /\ Cardinality(Held(p)') <= Cardinality(Held(p) \cup {t.base})
          BY <5>1, <2>3, FS_Subset
        <5> QED BY <5>1, <5>2, HeldIsFinite, FS_CardinalityType
      <4>3. CommittedUnit(p) * Cardinality(Held(p)')
                <= CommittedUnit(p) * (Cardinality(Held(p)) + 1)
        BY <4>2, HeldIsFinite, UnitCoversTheMargin, ProductIsMonotone
      <4>4. CommittedUnit(p) * Cardinality(Held(p)') \in Int
            /\ CommittedUnit(p) * (Cardinality(Held(p)) + 1) \in Int
        BY <4>2, HeldIsFinite, UnitCoversTheMargin
      <4> QED BY <3>0, <3>2, <4>1, <4>3, <4>4
    <3> QED BY <3>1, <3>2
  <2>6. NeverAgainstItself'
    <3>1. t.base \notin Held(Opposite(p)) /\ Opposite(p) \in Pools \ {p}
      BY DEF Candidate, Collides, Held, Opposite, Pools
    <3>2. Held(Opposite(p))' = Held(Opposite(p)) /\ Held(p) \cap Held(Opposite(p)) = {}
      BY <3>1, <2>3, <1>1 DEF NeverAgainstItself, Opposite, Pools
    <3>3. Held(p)' \cap Held(Opposite(p))' = {}
      BY <3>1, <3>2, <2>3
    <3> QED BY <3>3 DEF NeverAgainstItself, Opposite, Pools
  <2> QED BY <2>2, <2>4, <2>5, <2>6 DEF PoolInv
<1>5. \/ opens' = opens /\ charged' = charged
      \/ /\ Breaker(p) = "PASS" /\ halted' = halted
         /\ opens' = [opens EXCEPT ![p][t.base] = taken]
         /\ charged' = [charged EXCEPT ![p] = 0]
  BY DEF Candidate, taken
<1> QED BY <1>3, <1>4, <1>5

\* A realization books one result and lets one position go.
LEMMA RealizeKeeps ==
    ASSUME PoolInv, NEW p \in Pools, NEW b \in Bases, Realize(p, b) PROVE PoolInv'
<1>1. /\ PoolsTypeOK /\ LossIsCapped /\ Solvent /\ NeverAgainstItself
      /\ b \in Held(p) /\ halted' = halted
      /\ equity' = [equity EXCEPT ![p] = @ + opens[p][b].pnl]
      /\ opens' = [opens EXCEPT ![p][b] = Absent]
      /\ seen' = [seen EXCEPT ![p] = Observed(p, equity'[p])]
      /\ charged' = [charged EXCEPT ![p] = @ + opens[p][b].charged]
  BY DEF PoolInv, Realize, Due
<1>2. /\ opens'[p][b] = Absent
      /\ \A c \in Bases \ {b} : opens'[p][c] = opens[p][c]
      /\ \A q \in Pools \ {p} :
            opens'[q] = opens[q] /\ equity'[q] = equity[q] /\ charged'[q] = charged[q]
      /\ equity'[p] = equity[p] + opens[p][b].pnl
      /\ charged'[p] = charged[p] + opens[p][b].charged
  BY <1>1 DEF PoolsTypeOK
<1>3. /\ opens[p][b].pnl \in Int /\ opens[p][b].charged \in Int
      /\ opens[p][b].pnl + opens[p][b].charged >= -CommittedUnit(p)
      /\ equity[p] \in Int /\ charged[p] \in Int
  <2> HIDE DEF Margin
  <2>1. /\ opens[p][b].pnl \in Int /\ opens[p][b].charged \in Int
        /\ equity[p] \in Int /\ charged[p] \in Int
    <3>1. opens[p][b] \in Holdings /\ equity[p] \in Int /\ charged[p] \in Int
      BY <1>1 DEF PoolsTypeOK, Held
    <3> QED BY <3>1 DEF Holdings
  <2>2. opens[p][b].pnl >= -Margin - opens[p][b].charged
    BY <1>1 DEF LossIsCapped
  <2>3. Margin \in Nat /\ CommittedUnit(p) \in Nat /\ Margin <= CommittedUnit(p)
    BY MarginIsOfTheClip, UnitCoversTheMargin
  <2> QED BY <2>1, <2>2, <2>3
<1>4. Held(p)' = Held(p) \ {b} /\ \A q \in Pools \ {p} : Held(q)' = Held(q)
  BY <1>2 DEF Held
<1>5. PoolsTypeOK'
  <2>1. equity' \in [Pools -> Int]
    BY <1>1, <1>3 DEF PoolsTypeOK
  <2>2. opens' \in [Pools -> [Bases -> Holdings \cup {Absent}]]
    BY <1>1 DEF PoolsTypeOK
  <2>3. Observed(p, equity'[p]) \in SUBSET [age : 0..Window, equity : Int]
    <3>1. equity'[p] \in Int /\ 0 \in 0..Window
      BY <1>2, <1>3, PoolsAreFunded
    <3>2. [age |-> 0, equity |-> equity'[p]] \in [age : 0..Window, equity : Int]
      BY <3>1
    <3>3. seen[p] \in SUBSET [age : 0..Window, equity : Int]
      BY <1>1 DEF PoolsTypeOK
    <3> QED BY <3>2, <3>3 DEF Observed
  <2>4. seen' \in [Pools -> SUBSET [age : 0..Window, equity : Int]]
    BY <1>1, <2>3 DEF PoolsTypeOK
  <2>5. halted' \in [Pools -> BOOLEAN]
    BY <1>1 DEF PoolsTypeOK
  <2>6. charged' \in [Pools -> Int]
    BY <1>1, <1>3 DEF PoolsTypeOK
  <2> QED BY <2>1, <2>2, <2>4, <2>5, <2>6 DEF PoolsTypeOK
<1>6. LossIsCapped'
  <2> SUFFICES ASSUME NEW q \in Pools, NEW c \in Held(q)'
               PROVE  opens'[q][c].pnl >= -Margin - opens'[q][c].charged
    BY DEF LossIsCapped
  <2>1. c \in Held(q) /\ opens'[q][c] = opens[q][c]
    BY <1>2, <1>4 DEF Held
  <2> QED BY <2>1, <1>1 DEF LossIsCapped
<1>7. Solvent'
  <2> SUFFICES ASSUME NEW q \in Pools
               PROVE  equity'[q] + charged'[q] >= CommittedUnit(q) * Cardinality(Held(q)')
    BY DEF Solvent, CommittedUnit
  <2>1. CASE q # p
    BY <2>1, <1>1, <1>2, <1>4 DEF Solvent
  <2>2. CASE q = p
    <3>1. Cardinality(Held(p)') = Cardinality(Held(p)) - 1
      BY <1>1, <1>4, HeldIsFinite, FS_RemoveElement
    <3>2. CommittedUnit(p) * (Cardinality(Held(p)) - 1)
              = CommittedUnit(p) * Cardinality(Held(p)) - CommittedUnit(p)
      BY HeldIsFinite, UnitCoversTheMargin
    <3>3. equity[p] + charged[p] >= CommittedUnit(p) * Cardinality(Held(p))
          /\ CommittedUnit(p) * Cardinality(Held(p)) \in Int /\ CommittedUnit(p) \in Int
      BY <1>1, HeldIsFinite, UnitCoversTheMargin DEF Solvent
    <3> DEFINE owed == CommittedUnit(p) * Cardinality(Held(p))
    <3>4. equity'[p] + charged'[p] >= owed - CommittedUnit(p)
      <4> HIDE DEF owed
      <4> QED BY <1>2, <1>3, <3>3 DEF owed
    <3> QED BY <2>2, <3>1, <3>2, <3>4
  <2> QED BY <2>1, <2>2
<1>8. NeverAgainstItself'
  <2>1. \A q \in Pools : Held(q)' \subseteq Held(q)
    BY <1>4
  <2> QED BY <1>1, <2>1 DEF NeverAgainstItself, Pools
<1> QED BY <1>5, <1>6, <1>7, <1>8 DEF PoolInv

\* A bar brings every position nearer its end.
LEMMA BarKeeps == ASSUME PoolInv, Bar PROVE PoolInv'
<1>1. /\ PoolsTypeOK /\ LossIsCapped /\ Solvent /\ NeverAgainstItself
      /\ equity' = equity /\ halted' = halted /\ charged' = charged
      /\ seen' = [p \in Pools |-> Aged(p)]
      /\ opens' = [p \in Pools |-> [b \in Bases |->
                     IF opens[p][b] = Absent THEN Absent
                     ELSE [opens[p][b] EXCEPT !.left = @ - 1]]]
  BY DEF PoolInv, Bar
<1>2. ASSUME NEW p \in Pools, NEW b \in Held(p)
      PROVE  /\ opens'[p][b] = [opens[p][b] EXCEPT !.left = @ - 1]
             /\ opens'[p][b] \in Holdings /\ opens'[p][b].pnl = opens[p][b].pnl
             /\ opens'[p][b].charged = opens[p][b].charged
  <2>1. b \in Bases /\ opens[p][b] # Absent /\ opens[p][b] \in Holdings
    BY <1>1 DEF PoolsTypeOK, Held
  <2>2. opens[p][b].left # 0
    BY <2>1 DEF Bar, Due, Held
  <2>3. opens'[p][b] = [opens[p][b] EXCEPT !.left = @ - 1]
    BY <1>1, <2>1
  <2>4. opens[p][b].left - 1 \in Nat
    BY <2>1, <2>2 DEF Holdings
  <2>5. [opens[p][b] EXCEPT !.left = @ - 1] \in Holdings
    BY <2>1, <2>4 DEF Holdings
  <2>6. /\ [opens[p][b] EXCEPT !.left = @ - 1].pnl = opens[p][b].pnl
        /\ [opens[p][b] EXCEPT !.left = @ - 1].charged = opens[p][b].charged
    BY <2>1 DEF Holdings
  <2> QED BY <2>3, <2>5, <2>6
<1>3. ASSUME NEW p \in Pools, NEW b \in Bases, b \notin Held(p) PROVE opens'[p][b] = Absent
  BY <1>1, <1>3 DEF Held
<1>4. \A p \in Pools : Held(p)' \subseteq Held(p)
  BY <1>3 DEF Held
<1>5. PoolsTypeOK'
  <2>1. opens' \in [Pools -> [Bases -> Holdings \cup {Absent}]]
    <3>1. \A p \in Pools : \A b \in Bases : opens'[p][b] \in Holdings \cup {Absent}
      BY <1>2, <1>3
    <3> QED BY <1>1, <3>1
  <2>2. ASSUME NEW p \in Pools PROVE Aged(p) \in SUBSET [age : 0..Window, equity : Int]
    <3> SUFFICES ASSUME NEW s \in seen[p], s.age < Window
                 PROVE  [s EXCEPT !.age = @ + 1] \in [age : 0..Window, equity : Int]
      BY DEF Aged
    <3>1. s \in [age : 0..Window, equity : Int]
      BY <1>1 DEF PoolsTypeOK
    <3>2. s.age + 1 \in 0..Window
      BY <3>1, PoolsAreFunded
    <3> QED BY <3>1, <3>2
  <2>3. seen' \in [Pools -> SUBSET [age : 0..Window, equity : Int]]
    BY <1>1, <2>2
  <2> QED BY <1>1, <2>1, <2>3 DEF PoolsTypeOK
<1>6. LossIsCapped'
  <2> SUFFICES ASSUME NEW q \in Pools, NEW c \in Held(q)'
               PROVE  opens'[q][c].pnl >= -Margin - opens'[q][c].charged
    BY DEF LossIsCapped
  <2> QED BY <1>1, <1>2, <1>4 DEF LossIsCapped
<1>7. Solvent'
  <2> SUFFICES ASSUME NEW q \in Pools
               PROVE  equity[q] + charged[q] >= CommittedUnit(q) * Cardinality(Held(q)')
    BY <1>1 DEF Solvent, CommittedUnit
  <2>1. /\ Cardinality(Held(q)') \in Nat
        /\ Cardinality(Held(q)') <= Cardinality(Held(q))
    <3>1. IsFiniteSet(Held(q)') /\ Cardinality(Held(q)') <= Cardinality(Held(q))
      BY <1>4, HeldIsFinite, FS_Subset
    <3> QED BY <3>1, FS_CardinalityType
  <2>2. CommittedUnit(q) * Cardinality(Held(q)') <= CommittedUnit(q) * Cardinality(Held(q))
    BY <2>1, HeldIsFinite, UnitCoversTheMargin, ProductIsMonotone
  <2>3. /\ CommittedUnit(q) * Cardinality(Held(q)') \in Int
        /\ CommittedUnit(q) * Cardinality(Held(q)) \in Int
        /\ equity[q] + charged[q] \in Int
        /\ equity[q] + charged[q] >= CommittedUnit(q) * Cardinality(Held(q))
    BY <1>1, <2>1, HeldIsFinite, UnitCoversTheMargin DEF PoolsTypeOK, Solvent
  <2> QED BY <2>2, <2>3
<1>8. NeverAgainstItself'
  BY <1>1, <1>4 DEF NeverAgainstItself, Pools
<1> QED BY <1>5, <1>6, <1>7, <1>8 DEF PoolInv

\* Nothing moves.
LEMMA StutterKeeps == ASSUME PoolInv, UNCHANGED poolVars PROVE PoolInv'
<1>1. /\ equity' = equity /\ opens' = opens /\ seen' = seen /\ halted' = halted
      /\ charged' = charged
  BY DEF poolVars
<1>2. \A p \in Pools : Held(p)' = Held(p)
  BY <1>1 DEF Held
<1>3. PoolsTypeOK' /\ NeverAgainstItself'
  BY <1>1, <1>2 DEF PoolInv, PoolsTypeOK, NeverAgainstItself, Pools
<1>4. LossIsCapped' /\ Solvent'
  BY <1>1, <1>2 DEF PoolInv, LossIsCapped, Solvent, CommittedUnit, Margin
<1> QED BY <1>3, <1>4 DEF PoolInv

\* Every step of the pools keeps all four.
LEMMA PoolStep == PoolInv /\ [PoolsNext]_poolVars => PoolInv'
BY CandidateKeeps, RealizeKeeps, BarKeeps, StutterKeeps DEF PoolsNext, Clock

\* The four together are inductive: the solvency rests on the cap of what a position
\* can lose, and both on the types.
THEOREM PoolInvariant == PoolsSpec => []PoolInv
BY PoolInitInv, PoolStep, PTL DEF PoolsSpec

\* The pools are well typed.
THEOREM PoolTypes == PoolsSpec => []PoolsTypeOK
<1>1. PoolInv => PoolsTypeOK
  BY DEF PoolInv
<1> QED BY <1>1, PoolInvariant, PTL

\* Whatever gap the market makes, the price costs no position, long or short, more
\* than the margin it posted, and no charge is assumed to be bounded.
THEOREM PoolLossIsCapped == PoolsSpec => []LossIsCapped
<1>1. PoolInv => LossIsCapped
  BY DEF PoolInv
<1> QED BY <1>1, PoolInvariant, PTL

\* However many positions are open and however the earlier ones went, each pool can
\* pay what it committed to all of them, but for the costs and funding charged since
\* it last admitted one.
THEOREM PoolIsSolvent == PoolsSpec => []Solvent
<1>1. PoolInv => Solvent
  BY DEF PoolInv
<1> QED BY <1>1, PoolInvariant, PTL

\* However the candidates come, the pools never hold one base against each other.
THEOREM PoolsNeverCollide == PoolsSpec => []NeverAgainstItself
<1>1. PoolInv => NeverAgainstItself
  BY DEF PoolInv
<1> QED BY <1>1, PoolInvariant, PTL

\* The three together, as the run checks them: the price does not ruin a pool.
THEOREM PoolsStaySafe == PoolsSpec => []PoolsAreSafe
<1>1. PoolInv => PoolsAreSafe
  BY DEF PoolInv, PoolsAreSafe
<1> QED BY <1>1, PoolInvariant, PTL
=============================================================================
