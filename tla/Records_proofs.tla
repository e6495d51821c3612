--------------------------- MODULE Records_proofs ---------------------------
(***************************************************************************)
(* What holds of the records, for every calendar, any number of closes and *)
(* any number of deaths, disks and mails that fail: what the file lacks is  *)
(* known to the line, and what the operator is told covers this run of the  *)
(* process and stays right.                                                 *)
(***************************************************************************)
EXTENDS Records, FiniteSetTheorems, SequenceTheorems, TLAPS

-----------------------------------------------------------------------------
(* The calendar. *)

\* A day is in the month that begins on or before it, and is its own first day
\* only where a month begins.
LEMMA MonthBounds ==
    ASSUME NEW d \in Nat
    PROVE  /\ Month(d) \in Nat /\ Month(d) <= d /\ d < Month(d) + MonthDays
           /\ Month(Month(d)) = Month(d)
<1> DEFINE q == d \div MonthDays
           r == d % MonthDays
<1>1. MonthDays \in Nat \ {0}
  BY RecordsAssumption
<1>2. q \in Nat /\ r \in 0 .. MonthDays - 1 /\ d = MonthDays * q + r
  BY <1>1
<1>3. Month(d) = MonthDays * q
  BY <1>1, <1>2 DEF Month
<1> HIDE DEF q, r
<1>4. MonthDays * q \in Nat /\ (MonthDays * q) % MonthDays = 0
  BY <1>1, <1>2
<1>5. QED
  BY <1>1, <1>2, <1>3, <1>4 DEF Month

\* The days of the month that begins on day m are those from m to its end.
LEMMA MonthIsWindow ==
    ASSUME NEW m \in Nat, Month(m) = m, NEW d \in Nat
    PROVE  Month(d) = m <=> m <= d /\ d < m + MonthDays
<1> DEFINE q == d \div MonthDays
           r == d % MonthDays
           k == m \div MonthDays
<1>1. MonthDays \in Nat \ {0}
  BY RecordsAssumption
<1>2. q \in Nat /\ r \in 0 .. MonthDays - 1 /\ d = MonthDays * q + r
  BY <1>1
<1>3. Month(d) = MonthDays * q
  BY <1>1, <1>2 DEF Month
<1>4. k \in Nat /\ m = MonthDays * k
  <2>1. m % MonthDays = 0
    BY <1>1 DEF Month
  <2>2. QED
    BY <2>1, <1>1
<1> HIDE DEF q, r, k
<1>5. ASSUME m <= d, d < m + MonthDays PROVE q = k
  <2>1. MonthDays * q < MonthDays * (k + 1)
    BY <1>1, <1>2, <1>4, <1>5
  <2>2. MonthDays * k < MonthDays * (q + 1)
    BY <1>1, <1>2, <1>4, <1>5
  <2>3. q < k + 1 /\ k < q + 1
    BY <2>1, <2>2, <1>1, <1>2, <1>4
  <2>4. QED
    BY <2>3, <1>2, <1>4
<1>6. QED
  BY <1>1, <1>2, <1>3, <1>4, <1>5

\* A later day is in the same month, or in one that begins after this one's end.
LEMMA MonthsInOrder ==
    ASSUME NEW d \in Nat, NEW e \in Nat, Month(d) < Month(e)
    PROVE  Month(d) + MonthDays <= Month(e)
<1> DEFINE q == d \div MonthDays
           k == e \div MonthDays
<1>1. MonthDays \in Nat \ {0}
  BY RecordsAssumption
<1>2. q \in Nat /\ k \in Nat /\ Month(d) = MonthDays * q /\ Month(e) = MonthDays * k
  BY <1>1 DEF Month
<1> HIDE DEF q, k
<1>3. q + 1 <= k
  BY <1>1, <1>2
<1>4. MonthDays * (q + 1) <= MonthDays * k
  BY <1>1, <1>2, <1>3
<1>5. QED
  BY <1>1, <1>2, <1>4

\* The year of a day of the run is one of its files.
LEMMA YearType ==
    ASSUME NEW d \in 0 .. MaxDay
    PROVE  Year(d) \in Years
<1>1. YearDays \in Nat \ {0} /\ MaxDay \in Nat
  BY RecordsAssumption
<1>2. d \div YearDays \in Nat /\ d \div YearDays <= MaxDay \div YearDays
  BY <1>1
<1>3. QED
  BY <1>2 DEF Year, Years

-----------------------------------------------------------------------------
(* The trade file. *)

\* Every piece of a file can be read back or is damaged.
LEMMA PiecesAreKnown ==
    ASSUME NEW f, NEW i \in DOMAIN f
    PROVE  f[i].id \in Readable(f) \cup Damaged(f)
BY DEF Readable, Damaged

\* A piece that is cut short damages its own line and the piece that is appended
\* next, and no other.
LEMMA DamageIsBounded ==
    ASSUME NEW T, NEW f \in Seq(T)
    PROVE  Cardinality(Damaged(f)) <= 2 * Cardinality({i \in DOMAIN f : ~f[i].whole})
<1> DEFINE cut == {i \in DOMAIN f : ~f[i].whole}
           next == {i \in DOMAIN f : i > 1 /\ ~f[i - 1].whole}
           bad == {i \in DOMAIN f : ~ReadableAt(f, i)}
           back == [i \in next |-> i - 1]
           ids == [i \in bad |-> f[i].id]
<1>1. DOMAIN f = 1 .. Len(f) /\ Len(f) \in Nat
  BY LenProperties
<1>2. IsFiniteSet(DOMAIN f)
  BY <1>1, FS_Interval
<1>3. IsFiniteSet(cut) /\ IsFiniteSet(next) /\ IsFiniteSet(bad)
  <2>1. cut \in SUBSET DOMAIN f /\ next \in SUBSET DOMAIN f /\ bad \in SUBSET DOMAIN f
    OBVIOUS
  <2>2. QED
    BY <2>1, <1>2, FS_Subset
<1>4. Cardinality(next) <= Cardinality(cut)
  <2>1. \A i \in next : i - 1 \in cut /\ i \in Int
    BY <1>1
  <2>2. back \in [next -> cut]
    BY <2>1
  <2>3. \A i, j \in next : back[i] = back[j] => i = j
    BY <2>1
  <2>4. back \in Injection(next, cut)
    BY <2>2, <2>3 DEF Injection, IsInjective
  <2>5. QED
    BY <2>4, <1>3, FS_Injection
<1>5. bad = cut \cup next
  BY <1>1 DEF ReadableAt
<1>6. Cardinality(bad) <= 2 * Cardinality(cut)
  <2> HIDE DEF cut, next, bad
  <2>1. Cardinality(bad) = Cardinality(cut) + Cardinality(next) - Cardinality(cut \cap next)
    BY <1>3, <1>5, FS_Union
  <2>2. /\ Cardinality(cut) \in Nat /\ Cardinality(next) \in Nat
        /\ Cardinality(cut \cap next) \in Nat
    <3>1. cut \cap next \in SUBSET cut
      OBVIOUS
    <3>2. QED
      BY <3>1, <1>3, FS_Subset, FS_CardinalityType
  <2>3. QED
    BY <2>1, <2>2, <1>4
<1>7. IsFiniteSet(Damaged(f)) /\ Cardinality(Damaged(f)) <= Cardinality(bad)
  <2>1. ids \in Surjection(bad, Damaged(f))
    BY DEF Surjection, Damaged
  <2>2. QED
    BY <2>1, <1>3, FS_Surjection
<1>8. Cardinality(Damaged(f)) \in Nat /\ Cardinality(bad) \in Nat /\ Cardinality(cut) \in Nat
  BY <1>3, <1>7, FS_CardinalityType
<1>9. QED
  BY <1>6, <1>7, <1>8

-----------------------------------------------------------------------------
(* The invariant: what the streams and the files hold. *)

Days == 0 .. MaxDay
Kinds == {"TRADE_CLOSE", "CIATS_DRIFT_SIGNAL", "TRADE_RECORD_WRITE_FAILED",
          "ALERT_SENT", "ALERT_SMTP_FAILED"}
Events == [kind : Kinds, module : Modules \cup {None}, day : Days]
Changes == [at : Nat, day : Days]
Pieces == [id : 1 .. MaxCloses, whole : BOOLEAN]

Typed ==
    /\ up \in BOOLEAN /\ day \in Days
    /\ faults \in 0 .. MaxFaults /\ notes \in 0 .. MaxNotes
    /\ stream \in Seq(Events)
    /\ corpus \in [Modules -> Seq(Closes)]
    /\ evolution \in [Modules -> Seq(Changes)]
    /\ lastKey \in [CategorySet -> Days \cup {None}]
    /\ file \in [Years -> Seq(Pieces)]
    /\ snap = TRUE /\ tmp \in BOOLEAN
    /\ closes \in Seq(Closes) /\ Len(closes) <= MaxCloses
    /\ unwritten \subseteq 1 .. Len(closes)
    /\ earlier \in 0 .. Len(closes)

\* Closes are numbered as they come; the pieces of a file carry the numbers of
\* closes, in order; a close is in the file of its year, or its append is on
\* record as failed.
Filed ==
    /\ \A i \in DOMAIN closes : closes[i].id = i
    /\ \A y \in Years : \A i \in DOMAIN file[y] : file[y][i].id <= Len(closes)
    /\ \A y \in Years : \A i, j \in DOMAIN file[y] : i < j => file[y][i].id < file[y][j].id
    /\ \A k \in DOMAIN closes :
           \/ k \in unwritten
           \/ \E i \in DOMAIN file[Year(closes[k].day)] :
                 file[Year(closes[k].day)][i].id = k

\* A piece of a file is of a close of the file's year, whose append did not fail.
InItsYear ==
    \A y \in Years : \A i \in DOMAIN file[y] :
        file[y][i].id \notin unwritten /\ Year(closes[file[y][i].id].day) = y

\* The memory has the closes since the start.
Learnt ==
    \A m \in Modules :
        Range(corpus[m]) = {c \in Range(closes) : c.id > earlier /\ c.module = m}

\* A change of the parameters is dated by the close it was written at.
Dated ==
    \A m \in Modules : \A i \in DOMAIN evolution[m] :
        /\ evolution[m][i].at \in 1 .. Len(corpus[m])
        /\ corpus[m][evolution[m][i].at].day = evolution[m][i].day

\* What is recorded happened today or before.
Past ==
    /\ \A m \in Modules : \A i \in DOMAIN corpus[m] : corpus[m][i].day <= day
    /\ \A i \in DOMAIN stream : stream[i].day <= day

\* The scheduler's keys are first days of their periods, and none is ahead.
Keyed ==
    \A cat \in CategorySet :
        lastKey[cat] # None => PeriodKey(cat, lastKey[cat]) = lastKey[cat] /\ lastKey[cat] <= day

\* A report was built of a period, by now over, from what the records still say.
Told ==
    \A r \in reports : \E cat \in CategorySet, k \in Days :
        /\ r = OperatorReport(cat, k)
        /\ PeriodKey(cat, k) = k
        /\ ReportWindow(cat, k).end <= day

Inv ==
    /\ Typed /\ Filed /\ InItsYear /\ Learnt
    /\ NoAlertVanishes /\ FailuresAreReported
    /\ Dated /\ Past /\ Keyed /\ EvidenceIsAttributed /\ Told

LEMMA CategoriesAre == CategorySet = {"C2", "C4", "C6"}
<1>1. DOMAIN Categories = {1, 2, 3}
  BY DEF Categories
<1>2. Categories[1] = "C2" /\ Categories[2] = "C4" /\ Categories[3] = "C6"
  BY DEF Categories
<1>3. QED
  BY <1>1, <1>2 DEF CategorySet

\* The invariant gives the properties of the runs.
LEMMA InvAccountsForAll == Inv => RecordsAreAccountedFor
<1> SUFFICES ASSUME Inv PROVE RecordsAreAccountedFor
  OBVIOUS
<1>1. TypeOK
  <2>1. \A i \in DOMAIN stream :
            DOMAIN stream[i] = {"kind", "module", "day"} /\ stream[i].day \in 0..MaxDay
    <3>1. \A i \in DOMAIN stream : stream[i] \in Events
      BY DEF Inv, Typed
    <3>2. QED
      BY <3>1 DEF Events, Days
  <2>2. \A m \in Modules : Range(corpus[m]) \subseteq Closes
    BY DEF Inv, Typed, Range
  <2>3. \A m \in Modules :
            Range(evolution[m]) \subseteq [at : 1..Len(corpus[m]), day : 0..MaxDay]
    <3>1. \A m \in Modules : \A i \in DOMAIN evolution[m] : evolution[m][i] \in Changes
      BY DEF Inv, Typed
    <3>2. QED
      BY <3>1 DEF Inv, Dated, Range, Changes, Days
  <2>4. \A y \in Years : Range(file[y]) \subseteq [id : 1..Len(closes), whole : BOOLEAN]
    <3>1. \A y \in Years : \A i \in DOMAIN file[y] : file[y][i] \in Pieces
      BY DEF Inv, Typed
    <3>2. Len(closes) \in Nat
      BY LenProperties DEF Inv, Typed
    <3>3. QED
      BY <3>1, <3>2 DEF Inv, Filed, Range, Pieces
  <2>5. Range(closes) \subseteq Closes
    BY DEF Inv, Typed, Range
  <2>6. QED
    BY <2>1, <2>2, <2>3, <2>4, <2>5 DEF Inv, Typed, TypeOK, Days
<1>2. FileIsTheHistory
  <2> SUFFICES ASSUME NEW y \in Years
               PROVE  LET f == file[y]
                          appended == {c.id : c \in {x \in Range(closes) : Year(x.day) = y}}
                                          \ unwritten
                          cut == {i \in DOMAIN f : ~f[i].whole}
                      IN  /\ \A i, j \in DOMAIN f : i < j => f[i].id < f[j].id
                          /\ Readable(f) \cup Damaged(f) = appended
                          /\ Cardinality(Damaged(f)) <= 2 * Cardinality(cut)
                          /\ LoadTradeRecords(f) = IF cut = {} THEN appended ELSE None
    BY DEF FileIsTheHistory
  <2> DEFINE f == file[y]
             appended == {c.id : c \in {x \in Range(closes) : Year(x.day) = y}} \ unwritten
             cut == {i \in DOMAIN f : ~f[i].whole}
  <2>1. /\ f \in Seq(Pieces) /\ closes \in Seq(Closes) /\ DOMAIN closes = 1 .. Len(closes)
        /\ Len(closes) \in Nat
    BY LenProperties DEF Inv, Typed
  <2>2. \A i, j \in DOMAIN f : i < j => f[i].id < f[j].id
    BY DEF Inv, Filed
  <2>3. ASSUME NEW i \in DOMAIN f PROVE f[i].id \in appended
    <3> DEFINE k == f[i].id
    <3>1. k \in Nat \ {0} /\ k <= Len(closes) /\ k \notin unwritten /\ Year(closes[k].day) = y
      <4>1. f[i] \in Pieces
        BY <2>1, <2>3
      <4>2. QED
        BY <4>1, <2>3 DEF Pieces, Inv, Filed, InItsYear
    <3>2. k \in DOMAIN closes /\ closes[k].id = k
      BY <2>1, <3>1 DEF Inv, Filed
    <3> HIDE DEF k
    <3>3. closes[k] \in Range(closes)
      BY <3>2 DEF Range
    <3>4. QED
      BY <3>1, <3>2, <3>3 DEF k
  <2>4. ASSUME NEW id \in appended PROVE id \in Readable(f) \cup Damaged(f)
    <3>1. PICK k \in DOMAIN closes : id = closes[k].id /\ Year(closes[k].day) = y
      BY <2>4 DEF Range
    <3>2. id = k /\ k \notin unwritten
      BY <3>1, <2>4 DEF Inv, Filed
    <3>3. PICK i \in DOMAIN f : f[i].id = k
      BY <3>1, <3>2 DEF Inv, Filed
    <3>4. QED
      BY <3>2, <3>3, PiecesAreKnown
  <2>5. Readable(f) \cup Damaged(f) = appended
    <3>1. \A id \in Readable(f) \cup Damaged(f) : \E i \in DOMAIN f : id = f[i].id
      BY DEF Readable, Damaged
    <3> HIDE DEF f, appended
    <3>2. QED
      BY <3>1, <2>3, <2>4
  <2>6. Cardinality(Damaged(f)) <= 2 * Cardinality(cut)
    BY <2>1, DamageIsBounded
  <2>7. CASE cut = {}
    <3>1. \A i \in DOMAIN f : i > 1 => i - 1 \in DOMAIN f
      <4>1. DOMAIN f = 1 .. Len(f) /\ Len(f) \in Nat
        BY <2>1, LenProperties
      <4>2. QED
        BY <4>1
    <3>2. \A i \in DOMAIN f : ReadableAt(f, i)
      BY <2>7, <3>1 DEF ReadableAt
    <3>3. Damaged(f) = {}
      BY <3>2 DEF Damaged
    <3>4. LoadTradeRecords(f) = appended
      BY <2>5, <3>2, <3>3 DEF LoadTradeRecords
    <3>5. QED
      BY <2>2, <2>5, <2>6, <2>7, <3>4
  <2>8. CASE cut # {}
    <3>1. LoadTradeRecords(f) = None
      BY <2>8 DEF LoadTradeRecords, ReadableAt
    <3>2. QED
      BY <2>2, <2>5, <2>6, <2>8, <3>1
  <2>9. QED
    BY <2>7, <2>8
<1>3. FailuresAreReported /\ NoAlertVanishes /\ DashboardReadsWhole
  BY DEF Inv, Typed, DashboardReadsWhole
<1>4. QED
  BY <1>1, <1>2, <1>3 DEF RecordsAreAccountedFor

\* A window holds exactly the days of the period it was opened for.
LEMMA WindowIsPeriod ==
    ASSUME NEW cat \in CategorySet, NEW k \in Nat, PeriodKey(cat, k) = k, NEW d \in Nat
    PROVE  Contains(ReportWindow(cat, k), d)
             <=> IF cat = "C6" THEN k - YearDays <= d /\ d < k ELSE PeriodKey(cat, d) = k
<1>1. CASE cat = "C2"
  <2>1. ReportWindow(cat, k) = [start |-> k, end |-> k + 1]
    BY <1>1 DEF ReportWindow
  <2>2. QED
    BY <2>1, <1>1 DEF Contains, PeriodKey
<1>2. CASE cat = "C4"
  <2>1. Month(k) = k
    BY <1>2 DEF PeriodKey
  <2>2. ReportWindow(cat, k) = [start |-> k, end |-> k + MonthDays]
    BY <1>2, <2>1 DEF ReportWindow
  <2>3. QED
    BY <2>1, <2>2, <1>2, MonthIsWindow DEF Contains, PeriodKey
<1>3. CASE cat = "C6"
  <2>1. ReportWindow(cat, k) = [start |-> k - YearDays, end |-> k]
    BY <1>3 DEF ReportWindow
  <2>2. QED
    BY <2>1, <1>3 DEF Contains
<1>4. QED
  BY <1>1, <1>2, <1>3, CategoriesAre

LEMMA InvTellsAll == Inv => ReportsAreTrue
<1> SUFFICES ASSUME Inv PROVE ReportsAreTrue
  OBVIOUS
<1>1. ASSUME NEW r \in reports
      PROVE  /\ TradesOf(r) =
                   {c \in SinceStart :
                      IF r.category = "C6" THEN r.asOf - YearDays <= c.day /\ c.day < r.asOf
                      ELSE PeriodKey(r.category, c.day) = r.asOf}
             /\ r = OperatorReport(r.category, r.asOf)
  <2>1. PICK cat \in CategorySet, k \in Days :
            r = OperatorReport(cat, k) /\ PeriodKey(cat, k) = k
    BY <1>1 DEF Inv, Told
  <2>2. /\ r.category = cat /\ r.asOf = k
        /\ \A m \in Modules : r.modules[m].trades
               = {c \in Range(corpus[m]) : Contains(ReportWindow(cat, k), c.day)}
    BY <2>1 DEF OperatorReport, ModuleReport
  <2>3. k \in Nat
    BY DEF Days
  <2>4. ASSUME NEW c \in UNION {Range(corpus[m]) : m \in Modules}
        PROVE  Contains(ReportWindow(cat, k), c.day)
                 <=> IF cat = "C6" THEN k - YearDays <= c.day /\ c.day < k
                     ELSE PeriodKey(cat, c.day) = k
    <3>1. PICK m \in Modules : c \in Range(corpus[m])
      BY <2>4
    <3>2. PICK i \in DOMAIN corpus[m] : c = corpus[m][i]
      BY <3>1 DEF Range
    <3>3. corpus[m] \in Seq(Closes)
      BY DEF Inv, Typed
    <3>4. c \in Closes
      BY <3>2, <3>3
    <3>5. c.day \in Nat
      BY <3>4 DEF Closes
    <3>6. QED
      BY <3>5, <2>1, <2>3, WindowIsPeriod
  <2>5. TradesOf(r) = {c \in UNION {Range(corpus[m]) : m \in Modules} :
                          Contains(ReportWindow(cat, k), c.day)}
    BY <2>2 DEF TradesOf
  <2>6. UNION {Range(corpus[m]) : m \in Modules} = SinceStart
    <3>1. \A c \in Range(closes) : c.module \in Modules
      <4>1. \A i \in DOMAIN closes : closes[i] \in Closes
        BY DEF Inv, Typed
      <4>2. QED
        BY <4>1 DEF Range, Closes
    <3>2. \A m \in Modules :
              Range(corpus[m]) = {c \in Range(closes) : c.id > earlier /\ c.module = m}
      BY DEF Inv, Learnt
    <3>3. QED
      BY <3>1, <3>2 DEF SinceStart
  <2>7. QED
    BY <2>1, <2>2, <2>4, <2>5, <2>6
<1>2. ReportCoversTheRun
  BY <1>1 DEF ReportCoversTheRun
<1>3. EvolutionIsDated
  BY DEF Inv, Dated, EvolutionIsDated, DateOf
<1>4. QED
  BY <1>2, <1>3 DEF Inv, ReportsAreTrue

-----------------------------------------------------------------------------
(* The invariant holds. *)

LEMMA InitInv == Init => Inv
<1> SUFFICES ASSUME Init PROVE Inv
  OBVIOUS
<1>1. Typed
  <2>1. 0 \in Days
    BY RecordsAssumption DEF Days
  <2>2. \A T : <<>> \in Seq(T)
    BY EmptySeq
  <2>3. Len(closes) = 0
    BY DEF Init
  <2>4. stream \in Seq(Events) /\ closes \in Seq(Closes)
    BY <2>2 DEF Init
  <2>5. /\ corpus \in [Modules -> Seq(Closes)] /\ evolution \in [Modules -> Seq(Changes)]
        /\ file \in [Years -> Seq(Pieces)]
    BY <2>2 DEF Init
  <2>6. QED
    BY <2>1, <2>3, <2>4, <2>5, RecordsAssumption DEF Init, Typed
<1>2. Filed /\ InItsYear /\ NoAlertVanishes
  BY DEF Init, Filed, InItsYear, NoAlertVanishes
<1>3. Learnt /\ FailuresAreReported
  <2>1. Range(<<>>) = {}
    BY DEF Range
  <2>2. \A m \in Modules : corpus[m] = <<>>
    BY DEF Init
  <2>3. {i \in DOMAIN stream : IsCritical(stream[i])} = {}
        /\ {id \in unwritten : id > earlier} = {}
    BY DEF Init
  <2>4. FailuresAreReported
    BY <2>3 DEF FailuresAreReported
  <2>5. QED
    BY <2>1, <2>2, <2>4 DEF Init, Learnt
<1>4. Dated /\ Past /\ EvidenceIsAttributed
  BY DEF Init, Dated, Past, EvidenceIsAttributed
<1>5. Keyed /\ Told
  BY DEF Init, Keyed, Told
<1>6. QED
  BY <1>1, <1>2, <1>3, <1>4, <1>5 DEF Inv

-----------------------------------------------------------------------------
(* A close, and what its sink records. *)

\* Before the close there were n events: its TRADE_CLOSE comes first, then what
\* CIATS learned, then the append that failed and its alert.
StreamGrows(m, drift, how, n) ==
    LET k == n + 1 + (IF drift THEN 1 ELSE 0)
    IN  /\ stream' \in Seq(Events)
        /\ Len(stream') = k + (IF how = "fails" THEN 2 ELSE 0)
        /\ \A i \in 1 .. n : stream'[i] = stream[i]
        /\ stream'[n + 1] = Event("TRADE_CLOSE", m)
        /\ drift => stream'[n + 2] = Event("CIATS_DRIFT_SIGNAL", m)
        /\ how = "fails" =>
               /\ stream'[k + 1] = Event("TRADE_RECORD_WRITE_FAILED", m)
               /\ stream'[k + 2].kind \in {"ALERT_SENT", "ALERT_SMTP_FAILED"}
               /\ stream'[k + 2].day = day

\* What two sequences hold when one is joined to the other.
IsJoin(w, s, u) ==
    /\ Len(w) = Len(s) + Len(u)
    /\ \A i \in 1 .. Len(s) : w[i] = s[i]
    /\ \A j \in 1 .. Len(u) : w[Len(s) + j] = u[j]

LEMMA Joined ==
    ASSUME NEW T, NEW s \in Seq(T), NEW u \in Seq(T)
    PROVE  s \o u \in Seq(T) /\ IsJoin(s \o u, s, u)
<1>1. Len(s) \in Nat /\ Len(u) \in Nat
  BY LenProperties
<1> DEFINE whole == s \o u
<1>2. /\ whole \in Seq(T) /\ Len(whole) = Len(s) + Len(u)
      /\ \A i \in 1 .. Len(s) + Len(u) : whole[i] = IF i <= Len(s) THEN s[i] ELSE u[i - Len(s)]
  BY ConcatProperties
<1> HIDE DEF whole
<1>3. \A i \in 1 .. Len(s) : whole[i] = s[i]
  BY <1>1, <1>2
<1>4. ASSUME NEW j \in 1 .. Len(u) PROVE whole[Len(s) + j] = u[j]
  <2>1. Len(s) + j \in 1 .. Len(s) + Len(u) /\ ~(Len(s) + j <= Len(s)) /\ (Len(s) + j) - Len(s) = j
    BY <1>1
  <2>2. QED
    BY <2>1, <1>2
<1>5. QED
  BY <1>2, <1>3, <1>4 DEF whole, IsJoin

LEMMA CloseStream ==
    ASSUME Inv, NEW m \in Modules, NEW net, NEW drift \in BOOLEAN, NEW change,
           NEW how, NEW sent \in BOOLEAN, Close(m, net, drift, change, how, sent)
    PROVE  StreamGrows(m, drift, how, Len(stream))
<1> DEFINE n == Len(stream)
           answer == Event(IF sent THEN "ALERT_SENT" ELSE "ALERT_SMTP_FAILED", None)
           broken == Event("TRADE_RECORD_WRITE_FAILED", m)
           closed == <<Event("TRADE_CLOSE", m)>>
           learned == IF drift THEN <<Event("CIATS_DRIFT_SIGNAL", m)>> ELSE <<>>
           failed == IF how = "fails" THEN <<broken, answer>> ELSE <<>>
           both == closed \o learned
           upTo == stream \o both
<1>1. stream' = upTo \o failed
  <2>1. NextClose(m, net).day = day
    BY DEF NextClose, CloseDay
  <2>2. QED
    BY <2>1 DEF Close, RecordsThenLearns, Alert, Event
<1>2. \A kind \in Kinds, x \in Modules \cup {None} :
          /\ Event(kind, x) \in Events
          /\ Event(kind, x).kind = kind /\ Event(kind, x).day = day
  BY DEF Event, Events, Inv, Typed
<1>3. answer \in Events /\ broken \in Events /\ answer.day = day
      /\ answer.kind \in {"ALERT_SENT", "ALERT_SMTP_FAILED"}
  BY <1>2 DEF Kinds
<1>4. closed \in Seq(Events) /\ Len(closed) = 1 /\ closed[1] = Event("TRADE_CLOSE", m)
  BY <1>2 DEF Kinds
<1>5. /\ learned \in Seq(Events) /\ Len(learned) = IF drift THEN 1 ELSE 0
      /\ Len(learned) \in Nat /\ (drift => Len(learned) = 1)
      /\ drift => learned[1] = Event("CIATS_DRIFT_SIGNAL", m)
  BY <1>2 DEF Kinds
<1>6. /\ failed \in Seq(Events) /\ Len(failed) = IF how = "fails" THEN 2 ELSE 0
      /\ Len(failed) \in Nat /\ (how = "fails" => Len(failed) = 2)
      /\ how = "fails" => failed[1] = broken /\ failed[2] = answer
  <2> HIDE DEF broken, answer
  <2>1. QED
    BY <1>3
<1>7. stream \in Seq(Events) /\ n \in Nat
  BY LenProperties DEF Inv, Typed
<1> HIDE DEF answer, broken, closed, learned, failed
<1>8. /\ both \in Seq(Events) /\ Len(both) = 1 + Len(learned)
      /\ both[1] = closed[1]
      /\ drift => both[2] = learned[1]
  <2>1. both \in Seq(Events) /\ IsJoin(both, closed, learned)
    BY <1>4, <1>5, Joined
  <2>2. 1 \in 1 .. Len(closed) /\ (drift => 1 \in 1 .. Len(learned)) /\ Len(closed) + 1 = 2
    BY <1>4, <1>5
  <2> HIDE DEF both
  <2>3. both[1] = closed[1] /\ (drift => both[2] = learned[1])
    BY <2>1, <2>2 DEF IsJoin
  <2>4. QED
    BY <2>1, <2>3, <1>4 DEF IsJoin
<1> HIDE DEF both
<1>9. /\ upTo \in Seq(Events) /\ Len(upTo) = n + Len(both)
      /\ \A i \in 1 .. n : upTo[i] = stream[i]
      /\ \A j \in 1 .. Len(both) : upTo[n + j] = both[j]
  <2>1. upTo \in Seq(Events) /\ IsJoin(upTo, stream, both)
    BY <1>7, <1>8, Joined
  <2> HIDE DEF upTo
  <2>2. QED
    BY <2>1 DEF IsJoin
<1> HIDE DEF upTo
<1> DEFINE k == n + 1 + Len(learned)
<1>10. k \in Nat /\ Len(upTo) = k
  BY <1>5, <1>7, <1>8, <1>9
<1>11. /\ stream' \in Seq(Events) /\ Len(stream') = k + Len(failed)
       /\ \A i \in 1 .. k : stream'[i] = upTo[i]
       /\ how = "fails" => stream'[k + 1] = failed[1] /\ stream'[k + 2] = failed[2]
  <2>1. /\ stream' \in Seq(Events) /\ Len(stream') = Len(upTo) + Len(failed)
        /\ \A i \in 1 .. Len(upTo) : stream'[i] = upTo[i]
        /\ \A j \in 1 .. Len(failed) : stream'[Len(upTo) + j] = failed[j]
    <3>1. stream' \in Seq(Events) /\ IsJoin(stream', upTo, failed)
      BY <1>1, <1>6, <1>9, Joined
    <3>2. QED
      BY <3>1 DEF IsJoin
  <2>2. how = "fails" => 1 \in 1 .. Len(failed) /\ 2 \in 1 .. Len(failed)
    BY <1>6
  <2>3. QED
    BY <2>1, <2>2, <1>10
<1>12. k = n + 1 + (IF drift THEN 1 ELSE 0)
  BY <1>5
<1>13. \A i \in 1 .. n : stream'[i] = stream[i]
  <2>1. \A i \in 1 .. n : i \in 1 .. k
    BY <1>5, <1>7
  <2>2. QED
    BY <2>1, <1>9, <1>11
<1>14. stream'[n + 1] = closed[1] /\ (drift => stream'[n + 2] = learned[1])
  <2>1. n + 1 \in 1 .. k /\ 1 \in 1 .. Len(both)
    BY <1>5, <1>7, <1>8
  <2>2. drift => n + 2 \in 1 .. k /\ 2 \in 1 .. Len(both)
    BY <1>5, <1>7, <1>8
  <2>3. stream'[n + 1] = both[1] /\ (drift => stream'[n + 2] = both[2])
    BY <2>1, <2>2, <1>9, <1>11
  <2>4. QED
    BY <2>3, <1>8
<1>15. QED
  BY <1>3, <1>4, <1>5, <1>6, <1>11, <1>12, <1>13, <1>14 DEF StreamGrows, broken

\* What a sequence holds when one more is appended.
Grown(w, s, e) ==
    /\ Len(w) = Len(s) + 1
    /\ \A i \in 1 .. Len(s) : w[i] = s[i]
    /\ w[Len(s) + 1] = e

LEMMA AppendGrows ==
    ASSUME NEW T, NEW s \in Seq(T), NEW e \in T
    PROVE  Append(s, e) \in Seq(T) /\ Grown(Append(s, e), s, e)
BY AppendProperties DEF Grown

\* A sequence and one that grew out of it, as functions.
LEMMA GrownDomain ==
    ASSUME NEW T, NEW s \in Seq(T), NEW w \in Seq(T), NEW e \in T, Grown(w, s, e)
    PROVE  /\ Len(s) \in Nat /\ DOMAIN s = 1 .. Len(s)
           /\ DOMAIN w = DOMAIN s \cup {Len(s) + 1} /\ Len(s) + 1 \notin DOMAIN s
           /\ \A i \in DOMAIN s : w[i] = s[i] /\ i \in Nat /\ i <= Len(s)
           /\ w[Len(s) + 1] = e
<1>1. Len(s) \in Nat /\ DOMAIN s = 1 .. Len(s) /\ DOMAIN w = 1 .. Len(w)
  BY LenProperties
<1>2. Len(w) = Len(s) + 1
  BY DEF Grown
<1>3. DOMAIN w = DOMAIN s \cup {Len(s) + 1} /\ Len(s) + 1 \notin DOMAIN s
  BY <1>1, <1>2
<1>4. (\A i \in DOMAIN s : w[i] = s[i]) /\ w[Len(s) + 1] = e
  BY <1>1 DEF Grown
<1>5. QED
  BY <1>1, <1>3, <1>4

LEMMA GrownRange ==
    ASSUME NEW T, NEW s \in Seq(T), NEW w \in Seq(T), NEW e \in T, Grown(w, s, e)
    PROVE  Range(w) = Range(s) \cup {e}
<1>1. /\ DOMAIN w = DOMAIN s \cup {Len(s) + 1}
      /\ \A i \in DOMAIN s : w[i] = s[i]
      /\ w[Len(s) + 1] = e
  <2>1. /\ Len(s) \in Nat /\ DOMAIN s = 1 .. Len(s) /\ DOMAIN w = 1 .. Len(w)
        /\ Len(w) = Len(s) + 1 /\ w[Len(s) + 1] = e
        /\ \A i \in 1 .. Len(s) : w[i] = s[i]
    BY LenProperties DEF Grown
  <2>2. DOMAIN w = DOMAIN s \cup {Len(s) + 1}
    BY <2>1
  <2>3. QED
    BY <2>1, <2>2
<1>2. QED
  BY <1>1 DEF Range

\* A close is put on the file of its year, or its append is on record as failed.
DiskTakes(c) ==
    \/ unwritten' = unwritten \cup {c.id} /\ file' = file
    \/ \E whole \in BOOLEAN :
          /\ file' = [file EXCEPT ![Year(day)] = Appended(@, c.id, whole)]
          /\ unwritten' = unwritten

LEMMA CloseIsFiled ==
    ASSUME Inv, NEW m \in Modules, NEW net \in Nets, Len(closes) < MaxCloses,
           closes' = Append(closes, NextClose(m, net)), DiskTakes(NextClose(m, net))
    PROVE  /\ closes' \in Seq(Closes) /\ Len(closes') <= MaxCloses
           /\ file' \in [Years -> Seq(Pieces)]
           /\ unwritten' \subseteq 1 .. Len(closes')
           /\ NextClose(m, net) \in Closes
           /\ Filed' /\ InItsYear'
<1> DEFINE c == NextClose(m, net)
           n == Len(closes)
           y == Year(day)
<1>1. closes \in Seq(Closes) /\ n \in Nat /\ n < MaxCloses /\ MaxCloses \in Nat
  BY LenProperties, RecordsAssumption DEF Inv, Typed
<1>2. c.id = n + 1 /\ c.day = day /\ c \in Closes
  BY <1>1 DEF NextClose, CloseDay, Closes, Inv, Typed, Days
<1>3. y \in Years
  BY YearType DEF Inv, Typed, Days
<1> HIDE DEF c
<1>4. closes' \in Seq(Closes) /\ Grown(closes', closes, c)
  BY <1>1, <1>2, AppendGrows DEF c
<1>5. /\ Len(closes') = n + 1
      /\ DOMAIN closes = 1 .. n
      /\ DOMAIN closes' = DOMAIN closes \cup {n + 1} /\ n + 1 \notin DOMAIN closes
      /\ \A i \in DOMAIN closes : closes'[i] = closes[i]
      /\ closes'[n + 1] = c
  BY <1>1, <1>4, GrownDomain DEF Grown
<1>6. \A i \in DOMAIN closes' : closes'[i].id = i
  BY <1>2, <1>5 DEF Inv, Filed
<1>7. CASE unwritten' = unwritten \cup {c.id} /\ file' = file
  <2>1. unwritten' \subseteq 1 .. Len(closes')
    <3>1. unwritten \subseteq 1 .. n
      BY DEF Inv, Typed
    <3>2. \A k \in unwritten' : k \in 1 .. n \/ k = n + 1
      BY <3>1, <1>2, <1>7
    <3> HIDE DEF n
    <3>3. QED
      BY <3>2, <1>1, <1>5
  <2>2. \A z \in Years : \A i \in DOMAIN file'[z] : file'[z][i].id <= Len(closes')
    <3>1. \A z \in Years : \A i \in DOMAIN file[z] : file[z][i] \in Pieces
      BY DEF Inv, Typed
    <3>2. QED
      BY <3>1, <1>1, <1>5, <1>7 DEF Inv, Filed, Pieces
  <2>3. \A k \in DOMAIN closes' :
           \/ k \in unwritten'
           \/ \E i \in DOMAIN file'[Year(closes'[k].day)] :
                 file'[Year(closes'[k].day)][i].id = k
    BY <1>2, <1>5, <1>7 DEF Inv, Filed
  <2>4. Filed'
    BY <2>2, <2>3, <1>6, <1>7 DEF Inv, Filed
  <2>5. InItsYear'
    <3> SUFFICES ASSUME NEW z \in Years, NEW i \in DOMAIN file[z]
                 PROVE  file[z][i].id \notin unwritten'
                        /\ Year(closes'[file[z][i].id].day) = z
      BY <1>7 DEF InItsYear
    <3> DEFINE k == file[z][i].id
    <3>1. k \in 1 .. n
      <4>1. file[z] \in Seq(Pieces)
        BY DEF Inv, Typed
      <4>2. file[z][i] \in Pieces
        BY <4>1
      <4>3. QED
        BY <4>2, <1>1 DEF Pieces, Inv, Filed
    <3>2. k \notin unwritten /\ Year(closes[k].day) = z
      BY DEF Inv, InItsYear
    <3> HIDE DEF k
    <3>3. closes'[k] = closes[k] /\ k # n + 1
      BY <3>1, <1>5
    <3>4. QED
      BY <3>2, <3>3, <1>2, <1>7 DEF k
  <2>6. QED
    BY <2>1, <2>4, <2>5, <1>1, <1>2, <1>4, <1>5, <1>7 DEF Inv, Typed, c
<1>8. ASSUME NEW whole \in BOOLEAN,
             file' = [file EXCEPT ![y] = Appended(@, c.id, whole)], unwritten' = unwritten
      PROVE  /\ file' \in [Years -> Seq(Pieces)]
             /\ unwritten' \subseteq 1 .. Len(closes')
             /\ Filed' /\ InItsYear'
  <2> DEFINE piece == [id |-> c.id, whole |-> whole]
             p == Len(file[y])
  <2>1. file[y] \in Seq(Pieces) /\ piece \in Pieces /\ piece.id = n + 1
    <3>1. n + 1 \in 1 .. MaxCloses
      BY <1>1
    <3>2. file[y] \in Seq(Pieces)
      BY <1>3 DEF Inv, Typed
    <3>3. QED
      BY <3>1, <3>2, <1>2 DEF Pieces
  <2>2. /\ file'[y] = Append(file[y], piece)
        /\ \A z \in Years : z # y => file'[z] = file[z]
        /\ DOMAIN file' = Years
    BY <1>3, <1>8 DEF Appended, Inv, Typed
  <2> HIDE DEF piece
  <2>3. file'[y] \in Seq(Pieces) /\ Grown(file'[y], file[y], piece)
    BY <2>1, <2>2, AppendGrows
  <2>4. file' \in [Years -> Seq(Pieces)]
    <3>1. \A z \in Years : file'[z] \in Seq(Pieces)
      BY <2>2, <2>3 DEF Inv, Typed
    <3>2. file' = [z \in Years |-> file'[z]]
      BY <1>8 DEF Inv, Typed
    <3>3. QED
      BY <3>1, <3>2
  <2>5. /\ p \in Nat
        /\ DOMAIN file'[y] = DOMAIN file[y] \cup {p + 1} /\ p + 1 \notin DOMAIN file[y]
        /\ \A i \in DOMAIN file[y] : file'[y][i] = file[y][i] /\ i \in Nat /\ i <= p
        /\ file'[y][p + 1] = piece
    <3> DEFINE s == file[y]
               w == file'[y]
    <3>1. s \in Seq(Pieces) /\ w \in Seq(Pieces) /\ Grown(w, s, piece) /\ p = Len(s)
          /\ piece \in Pieces
      BY <2>1, <2>3
    <3> HIDE DEF s, w, p
    <3>2. Len(s) \in Nat /\ DOMAIN s = 1 .. Len(s) /\ DOMAIN w = 1 .. Len(w)
      BY <3>1, LenProperties
    <3>3. /\ Len(w) = Len(s) + 1 /\ w[Len(s) + 1] = piece
          /\ \A i \in 1 .. Len(s) : w[i] = s[i]
      BY <3>1 DEF Grown
    <3>4. DOMAIN w = DOMAIN s \cup {Len(s) + 1} /\ Len(s) + 1 \notin DOMAIN s
      BY <3>2, <3>3
    <3>5. \A i \in DOMAIN s : w[i] = s[i] /\ i \in Nat /\ i <= Len(s)
      BY <3>2, <3>3
    <3>6. QED
      BY <3>1, <3>2, <3>3, <3>4, <3>5 DEF s, w
  <2> HIDE DEF p
  <2>6. \A z \in Years : \A i \in DOMAIN file[z] : file[z][i].id \in Nat /\ file[z][i].id <= n
    <3>1. \A z \in Years : \A i \in DOMAIN file[z] : file[z][i] \in Pieces
      BY DEF Inv, Typed
    <3>2. QED
      BY <3>1 DEF Inv, Filed, Pieces
  <2>7. \A z \in Years : \A i \in DOMAIN file'[z] : file'[z][i].id <= Len(closes')
    <3> HIDE DEF n, y
    <3>1. \A i \in DOMAIN file'[y] : file'[y][i].id <= n + 1
      BY <2>1, <2>5, <2>6, <1>1, <1>3
    <3>2. \A z \in Years : z # y => \A i \in DOMAIN file'[z] : file'[z][i].id <= n + 1
      BY <2>2, <2>6, <1>1
    <3>3. QED
      BY <3>1, <3>2, <1>5
  <2>8. \A z \in Years : \A i, j \in DOMAIN file'[z] : i < j => file'[z][i].id < file'[z][j].id
    <3> SUFFICES ASSUME NEW z \in Years, NEW i \in DOMAIN file'[z], NEW j \in DOMAIN file'[z],
                        i < j
                 PROVE  file'[z][i].id < file'[z][j].id
      OBVIOUS
    <3>1. CASE z # y
      BY <3>1, <2>2 DEF Inv, Filed
    <3>2. CASE z = y /\ j = p + 1
      BY <3>2, <2>1, <2>5, <2>6, <1>1, <1>3
    <3>3. CASE z = y /\ j # p + 1
      BY <3>3, <2>5, <1>3 DEF Inv, Filed
    <3>4. QED
      BY <3>1, <3>2, <3>3
  <2>9. \A k \in DOMAIN closes' :
           \/ k \in unwritten'
           \/ \E i \in DOMAIN file'[Year(closes'[k].day)] :
                 file'[Year(closes'[k].day)][i].id = k
    <3> SUFFICES ASSUME NEW k \in DOMAIN closes', k \notin unwritten'
                 PROVE  \E i \in DOMAIN file'[Year(closes'[k].day)] :
                            file'[Year(closes'[k].day)][i].id = k
      OBVIOUS
    <3>1. CASE k = n + 1
      <4>1. Year(closes'[k].day) = y /\ file'[y][p + 1].id = k /\ p + 1 \in DOMAIN file'[y]
        BY <3>1, <2>1, <2>5, <1>2, <1>5
      <4>2. QED
        BY <4>1
    <3>2. CASE k # n + 1
      <4>1. k \in DOMAIN closes /\ closes'[k] = closes[k] /\ k \notin unwritten
        BY <3>2, <1>5, <1>8
      <4>2. PICK i \in DOMAIN file[Year(closes[k].day)] : file[Year(closes[k].day)][i].id = k
        BY <4>1 DEF Inv, Filed
      <4>3. Year(closes[k].day) \in Years
        <5>1. closes[k] \in Closes
          BY <4>1, <1>1
        <5>2. QED
          BY <5>1, YearType DEF Closes
      <4>4. i \in DOMAIN file'[Year(closes[k].day)] /\ file'[Year(closes[k].day)][i].id = k
        BY <4>2, <4>3, <2>2, <2>5
      <4>5. QED
        BY <4>1, <4>4
    <3>3. QED
      BY <3>1, <3>2
  <2>10. unwritten' \subseteq 1 .. Len(closes')
    BY <1>1, <1>5, <1>8 DEF Inv, Typed
  <2>11. InItsYear'
    <3> SUFFICES ASSUME NEW z \in Years, NEW i \in DOMAIN file'[z]
                 PROVE  file'[z][i].id \notin unwritten
                        /\ Year(closes'[file'[z][i].id].day) = z
      BY <1>8 DEF InItsYear
    <3>1. CASE z = y /\ i = p + 1
      <4>1. file'[z][i].id = n + 1 /\ Year(closes'[n + 1].day) = y
        BY <3>1, <2>1, <2>5, <1>2, <1>5
      <4>2. n + 1 \notin unwritten
        BY <1>1 DEF Inv, Typed
      <4>3. QED
        BY <3>1, <4>1, <4>2
    <3>2. CASE ~(z = y /\ i = p + 1)
      <4>1. i \in DOMAIN file[z] /\ file'[z][i] = file[z][i]
        BY <3>2, <2>2, <2>5
      <4> DEFINE k == file[z][i].id
      <4>2. k \in 1 .. n
        <5>1. file[z] \in Seq(Pieces)
          BY DEF Inv, Typed
        <5>2. file[z][i] \in Pieces
          BY <4>1, <5>1
        <5>3. QED
          BY <4>1, <5>2, <1>1 DEF Pieces, Inv, Filed
      <4>3. k \notin unwritten /\ Year(closes[k].day) = z
        BY <4>1 DEF Inv, InItsYear
      <4> HIDE DEF k
      <4>4. closes'[k] = closes[k]
        BY <4>2, <1>5
      <4>5. QED
        BY <4>1, <4>3, <4>4 DEF k
    <3>3. QED
      BY <3>1, <3>2
  <2>12. QED
    BY <2>4, <2>7, <2>8, <2>9, <2>10, <2>11, <1>6 DEF Filed
<1>9. QED
  BY <1>1, <1>2, <1>4, <1>5, <1>7, <1>8 DEF DiskTakes, c

\* Every set of indices has a last one.
LEMMA LastIndex ==
    ASSUME NEW n \in Nat, NEW J \in SUBSET (1 .. n), J # {}
    PROVE  \E x \in J : \A k \in J : k <= x
<1> DEFINE back == {n - j : j \in J}
<1>1. back \in SUBSET Nat /\ back # {}
  <2>1. \A j \in J : n - j \in Nat
    OBVIOUS
  <2>2. QED
    BY <2>1
<1>2. PICK b \in back : \A c \in back : ~(<<c, b>> \in OpToRel(<, Nat))
  BY <1>1, NatLessThanWellFounded, WFMin
<1>3. PICK x \in J : b = n - x
  OBVIOUS
<1>4. \A k \in J : n - k \in back /\ n - k \in Nat
  OBVIOUS
<1>5. \A k \in J : ~(n - k < b)
  BY <1>1, <1>2, <1>4 DEF OpToRel
<1>6. QED
  BY <1>3, <1>5

\* The event at i is attributed to the last close before it, however the stream
\* grows behind it.
LEMMA AttributionStays ==
    ASSUME NEW i \in Nat \ {0}, \A j \in 1 .. i - 1 : stream'[j] = stream[j]
    PROVE  AttributedTo(i)' = AttributedTo(i)
<1>1. ClosesBefore(i)' = ClosesBefore(i)
  BY DEF ClosesBefore
<1>2. ClosesBefore(i) \subseteq 1 .. i - 1
  BY DEF ClosesBefore
<1>3. CASE ClosesBefore(i) = {}
  BY <1>1, <1>3 DEF AttributedTo
<1>4. CASE ClosesBefore(i) # {}
  <2> DEFINE j == CHOOSE j \in ClosesBefore(i) : \A k \in ClosesBefore(i) : k <= j
  <2>1. AttributedTo(i)' = [module |-> stream'[j].module, day |-> stream'[j].day]
    BY <1>1, <1>4 DEF AttributedTo
  <2>2. AttributedTo(i) = [module |-> stream[j].module, day |-> stream[j].day]
    BY <1>4 DEF AttributedTo
  <2>3. \E x \in ClosesBefore(i) : \A k \in ClosesBefore(i) : k <= x
    <3>1. i - 1 \in Nat
      OBVIOUS
    <3>2. QED
      BY <3>1, <1>2, <1>4, LastIndex
  <2>4. j \in ClosesBefore(i)
    BY <2>3
  <2>5. stream'[j] = stream[j]
    BY <2>4, <1>2
  <2>6. QED
    BY <2>1, <2>2, <2>5
<1>5. QED
  BY <1>3, <1>4

\* CIATS speaks right after the close it learned from.
LEMMA AttributedToTheClose ==
    ASSUME NEW i \in Nat \ {0, 1}, stream'[i - 1].kind = "TRADE_CLOSE"
    PROVE  AttributedTo(i)' = [module |-> stream'[i - 1].module, day |-> stream'[i - 1].day]
<1> DEFINE before == ClosesBefore(i)'
           j == CHOOSE j \in before : \A k \in before : k <= j
<1>1. i - 1 \in before /\ before \subseteq 1 .. i - 1
  BY DEF ClosesBefore
<1>2. AttributedTo(i)' = [module |-> stream'[j].module, day |-> stream'[j].day]
  BY <1>1 DEF AttributedTo
<1> HIDE DEF before
<1>3. j \in before /\ \A k \in before : k <= j
  <2>1. \A k \in before : k <= i - 1
    BY <1>1
  <2>2. QED
    BY <2>1, <1>1
<1> HIDE DEF j
<1>4. j = i - 1
  BY <1>1, <1>3
<1>5. QED
  BY <1>2, <1>4

\* The corpus of the module has the close, and its log perhaps a change at it.
MemoryGrows(m, c) ==
    /\ corpus' \in [Modules -> Seq(Closes)]
    /\ evolution' \in [Modules -> Seq(Changes)]
    /\ \A x \in Modules \ {m} : corpus'[x] = corpus[x] /\ evolution'[x] = evolution[x]
    /\ Grown(corpus'[m], corpus[m], c)
    /\ \/ evolution'[m] = evolution[m]
       \/ Grown(evolution'[m], evolution[m], [at |-> Len(corpus[m]) + 1, day |-> day])

LEMMA CloseMemory ==
    ASSUME Inv, NEW m \in Modules, NEW net, NEW drift, NEW change, NEW how, NEW sent,
           NextClose(m, net) \in Closes, Close(m, net, drift, change, how, sent)
    PROVE  MemoryGrows(m, NextClose(m, net))
<1> DEFINE c == NextClose(m, net)
           e == [at |-> Len(corpus[m]) + 1, day |-> day]
<1>1. /\ corpus \in [Modules -> Seq(Closes)] /\ evolution \in [Modules -> Seq(Changes)]
      /\ corpus[m] \in Seq(Closes) /\ evolution[m] \in Seq(Changes) /\ day \in Days
  BY DEF Inv, Typed
<1>2. Len(corpus[m]) \in Nat /\ e \in Changes
  BY <1>1, LenProperties DEF Changes
<1>3. c.day = day
  BY DEF NextClose, CloseDay
<1>4. corpus' = [corpus EXCEPT ![m] = Append(@, c)]
  BY DEF Close
<1> HIDE DEF c
<1>5. Append(corpus[m], c) \in Seq(Closes) /\ Grown(Append(corpus[m], c), corpus[m], c)
  BY <1>1, AppendGrows DEF c
<1>6. /\ corpus' \in [Modules -> Seq(Closes)] /\ corpus'[m] = Append(corpus[m], c)
      /\ \A x \in Modules \ {m} : corpus'[x] = corpus[x]
  <2> HIDE DEF e
  <2>1. QED
    BY <1>1, <1>4, <1>5
<1>7. Len(corpus'[m]) = Len(corpus[m]) + 1
  BY <1>5, <1>6 DEF Grown
<1>8. \/ evolution' = evolution
      \/ evolution' = [evolution EXCEPT ![m] = Append(@, e)]
  BY <1>3, <1>7 DEF Close, c
<1> HIDE DEF e
<1>9. Append(evolution[m], e) \in Seq(Changes) /\ Grown(Append(evolution[m], e), evolution[m], e)
  BY <1>1, <1>2, AppendGrows
<1>10. /\ evolution' \in [Modules -> Seq(Changes)]
       /\ \A x \in Modules \ {m} : evolution'[x] = evolution[x]
       /\ evolution'[m] = evolution[m] \/ evolution'[m] = Append(evolution[m], e)
  BY <1>1, <1>8, <1>9
<1>11. QED
  BY <1>5, <1>6, <1>9, <1>10 DEF MemoryGrows, c, e

\* A change stays dated by its close, and a new one by the close of today.
LEMMA ChangesStayDated ==
    ASSUME Inv, NEW m \in Modules, NEW c \in Closes, c.day = day, MemoryGrows(m, c)
    PROVE  /\ \A x \in Modules : \A i \in DOMAIN evolution[x] :
                  /\ i \in DOMAIN evolution'[x] /\ evolution'[x][i] = evolution[x][i]
                  /\ DateOf(x, evolution[x][i])' = DateOf(x, evolution[x][i])
           /\ \A x \in Modules : \A i \in DOMAIN evolution'[x] \ DOMAIN evolution[x] :
                  DateOf(x, evolution[x][i])' = day
           /\ Dated'
<1> DEFINE e == [at |-> Len(corpus[m]) + 1, day |-> day]
           p == Len(corpus[m])
<1>1. /\ corpus[m] \in Seq(Closes) /\ corpus'[m] \in Seq(Closes)
      /\ evolution[m] \in Seq(Changes) /\ evolution'[m] \in Seq(Changes)
  BY DEF Inv, Typed, MemoryGrows
<1>2. /\ p \in Nat /\ Len(corpus'[m]) = p + 1 /\ corpus'[m][p + 1] = c
      /\ \A i \in 1 .. p : corpus'[m][i] = corpus[m][i]
  BY <1>1, LenProperties DEF MemoryGrows, Grown
<1>3. \A x \in Modules : \A i \in DOMAIN evolution[x] :
          evolution[x][i].at \in 1 .. Len(corpus[x])
          /\ corpus[x][evolution[x][i].at].day = evolution[x][i].day
  BY DEF Inv, Dated
<1> HIDE DEF p
<1>4. \/ evolution'[m] = evolution[m]
      \/ /\ DOMAIN evolution'[m] = DOMAIN evolution[m] \cup {Len(evolution[m]) + 1}
         /\ Len(evolution[m]) + 1 \notin DOMAIN evolution[m]
         /\ \A i \in DOMAIN evolution[m] : evolution'[m][i] = evolution[m][i]
         /\ evolution'[m][Len(evolution[m]) + 1] = e
  <2>1. CASE Grown(evolution'[m], evolution[m], e)
    <3>1. /\ Len(evolution[m]) \in Nat /\ DOMAIN evolution[m] = 1 .. Len(evolution[m])
          /\ DOMAIN evolution'[m] = 1 .. Len(evolution'[m])
      BY <1>1, LenProperties
    <3>2. QED
      BY <3>1, <2>1 DEF Grown
  <2>2. QED
    BY <2>1 DEF MemoryGrows
<1>5. e.at = p + 1 /\ e.day = day
  BY DEF p
<1> HIDE DEF e
<1>6. ASSUME NEW i \in DOMAIN evolution[m]
      PROVE  /\ i \in DOMAIN evolution'[m] /\ evolution'[m][i] = evolution[m][i]
             /\ corpus'[m][evolution[m][i].at] = corpus[m][evolution[m][i].at]
             /\ evolution[m][i].at \in 1 .. Len(corpus'[m])
  <2>1. evolution[m][i].at \in 1 .. p
    BY <1>3 DEF p
  <2>2. i \in DOMAIN evolution'[m] /\ evolution'[m][i] = evolution[m][i]
    BY <1>4
  <2>3. QED
    BY <2>1, <2>2, <1>2
<1>7. ASSUME NEW i \in DOMAIN evolution'[m] \ DOMAIN evolution[m]
      PROVE  evolution'[m][i] = e /\ corpus'[m][e.at] = c /\ e.at \in 1 .. Len(corpus'[m])
  BY <1>2, <1>4, <1>5
<1>8. \A x \in Modules \ {m} : corpus'[x] = corpus[x] /\ evolution'[x] = evolution[x]
  BY DEF MemoryGrows
<1>9. ASSUME NEW x \in Modules, NEW i \in DOMAIN evolution[x]
      PROVE  /\ i \in DOMAIN evolution'[x] /\ evolution'[x][i] = evolution[x][i]
             /\ DateOf(x, evolution[x][i])' = DateOf(x, evolution[x][i])
  <2>1. CASE x = m
    <3>1. /\ evolution'[m][i] = evolution[m][i]
          /\ corpus'[m][evolution[m][i].at] = corpus[m][evolution[m][i].at]
          /\ i \in DOMAIN evolution'[m]
      BY <2>1, <1>6, <1>9
    <3>2. QED
      BY <3>1, <2>1 DEF DateOf
  <2>2. CASE x # m
    BY <2>2, <1>8, <1>9 DEF DateOf
  <2>3. QED
    BY <2>1, <2>2
<1>10. ASSUME NEW x \in Modules, NEW i \in DOMAIN evolution'[x] \ DOMAIN evolution[x]
       PROVE  DateOf(x, evolution[x][i])' = day
  <2>1. x = m
    BY <1>8, <1>10
  <2>2. QED
    BY <2>1, <1>7, <1>10 DEF DateOf
<1>11. ASSUME NEW x \in Modules, NEW i \in DOMAIN evolution'[x]
       PROVE  /\ evolution'[x][i].at \in 1 .. Len(corpus'[x])
              /\ corpus'[x][evolution'[x][i].at].day = evolution'[x][i].day
  <2>1. CASE x = m /\ i \in DOMAIN evolution[m]
    BY <2>1, <1>3, <1>6
  <2>2. CASE x = m /\ i \notin DOMAIN evolution[m]
    BY <2>2, <1>5, <1>7, <1>11
  <2>3. CASE x # m
    BY <2>3, <1>3, <1>8, <1>11
  <2>4. QED
    BY <2>1, <2>2, <2>3
<1>12. Dated'
  BY <1>11 DEF Dated
<1>13. QED
  BY <1>9, <1>10, <1>12

\* A window that has ended does not hold today.
LEMMA EndedWindow ==
    ASSUME NEW cat \in CategorySet, NEW k \in Days, NEW d \in Days,
           ReportWindow(cat, k).end <= d
    PROVE  ~Contains(ReportWindow(cat, k), d)
<1>1. k \in Nat /\ d \in Nat /\ MonthDays \in Nat
  BY RecordsAssumption DEF Days
<1>2. Month(k) \in Nat
  BY <1>1, MonthBounds
<1>3. ReportWindow(cat, k).end \in Int
  BY <1>1, <1>2, CategoriesAre DEF ReportWindow
<1>4. QED
  BY <1>1, <1>3 DEF Contains

\* What was told of a period that is over is still what the records say after a
\* close: its trade, its drift and its change are of today.
LEMMA ReportStays ==
    ASSUME Inv, NEW m \in Modules, NEW c \in Closes, c.day = day, MemoryGrows(m, c),
           NEW drift \in BOOLEAN, NEW how, StreamGrows(m, drift, how, Len(stream)),
           NEW cat \in CategorySet, NEW k \in Days, ReportWindow(cat, k).end <= day
    PROVE  OperatorReport(cat, k)' = OperatorReport(cat, k)
<1> DEFINE w == ReportWindow(cat, k)
           n == Len(stream)
<1>1. ~Contains(w, day) /\ day \in Days
  BY EndedWindow DEF Inv, Typed
<1>2. stream \in Seq(Events) /\ n \in Nat /\ DOMAIN stream = 1 .. n
  BY LenProperties DEF Inv, Typed
<1>3. /\ stream' \in Seq(Events) /\ DOMAIN stream' = 1 .. Len(stream')
      /\ Len(stream') \in Nat
  BY LenProperties DEF StreamGrows
<1> HIDE DEF w
<1>4. ASSUME NEW x \in Modules
      PROVE  {b \in Range(corpus'[x]) : Contains(w, b.day)}
               = {b \in Range(corpus[x]) : Contains(w, b.day)}
  <2>1. CASE x = m
    <3>1. /\ corpus[m] \in Seq(Closes) /\ corpus'[m] \in Seq(Closes)
          /\ Grown(corpus'[m], corpus[m], c)
      BY DEF Inv, Typed, MemoryGrows
    <3>2. Range(corpus'[m]) = Range(corpus[m]) \cup {c}
      BY <3>1, GrownRange
    <3>3. QED
      BY <3>2, <2>1, <1>1
  <2>2. CASE x # m
    BY <2>2, <1>4 DEF MemoryGrows
  <2>3. QED
    BY <2>1, <2>2
<1>5. ASSUME NEW i \in 1 .. n
      PROVE  /\ i \in DOMAIN stream' /\ stream'[i] = stream[i]
             /\ AttributedTo(i)' = AttributedTo(i)
  <2>1. /\ \A j \in 1 .. n : stream'[j] = stream[j]
        /\ Len(stream') >= n
    BY <1>2 DEF StreamGrows
  <2>2. i \in Nat \ {0} /\ \A j \in 1 .. i - 1 : j \in 1 .. n
    BY <1>2
  <2>3. AttributedTo(i)' = AttributedTo(i)
    BY <2>1, <2>2, AttributionStays
  <2>4. QED
    BY <2>1, <2>3, <1>2, <1>3
<1>6. ASSUME NEW i \in DOMAIN stream', i \notin 1 .. n,
             stream'[i].kind = "CIATS_DRIFT_SIGNAL"
      PROVE  AttributedTo(i)' = [module |-> m, day |-> day]
  <2>1. drift /\ i = n + 2
    <3> DEFINE l == n + 1 + (IF drift THEN 1 ELSE 0)
    <3>1. l \in Nat /\ (drift => l = n + 2) /\ (~drift => l = n + 1)
      BY <1>2
    <3>2. stream'[n + 1].kind # "CIATS_DRIFT_SIGNAL"
      BY DEF StreamGrows, Event
    <3>3. how = "fails" => /\ stream'[l + 1].kind # "CIATS_DRIFT_SIGNAL"
                           /\ stream'[l + 2].kind # "CIATS_DRIFT_SIGNAL"
      BY DEF StreamGrows, Event
    <3>4. Len(stream') = l + (IF how = "fails" THEN 2 ELSE 0)
      BY DEF StreamGrows
    <3> HIDE DEF l
    <3>5. i \in Nat /\ i >= n + 1 /\ i <= Len(stream')
      BY <1>2, <1>3, <1>6
    <3>6. how = "fails" => i # l + 1 /\ i # l + 2
      BY <3>3, <1>6
    <3>7. i # n + 1
      BY <3>2, <1>6
    <3>8. i <= l
      BY <3>1, <3>4, <3>5, <3>6, <1>3
    <3>9. QED
      BY <3>1, <3>5, <3>7, <3>8, <1>2
  <2>2. stream'[i - 1] = Event("TRADE_CLOSE", m)
    BY <2>1, <1>2 DEF StreamGrows
  <2>3. i \in Nat \ {0, 1}
    BY <2>1, <1>2
  <2>4. QED
    BY <2>2, <2>3, AttributedToTheClose DEF Event
<1>7. ASSUME NEW x \in Modules
      PROVE  Attributed(x, w, "CIATS_DRIFT_SIGNAL")' = Attributed(x, w, "CIATS_DRIFT_SIGNAL")
  <2>1. ASSUME NEW i \in 1 .. n
        PROVE  i \in Attributed(x, w, "CIATS_DRIFT_SIGNAL")'
                 <=> i \in Attributed(x, w, "CIATS_DRIFT_SIGNAL")
    BY <2>1, <1>2, <1>5 DEF Attributed
  <2>2. ASSUME NEW i, i \notin 1 .. n PROVE i \notin Attributed(x, w, "CIATS_DRIFT_SIGNAL")'
    BY <2>2, <1>1, <1>6 DEF Attributed
  <2>3. \A i \in Attributed(x, w, "CIATS_DRIFT_SIGNAL") : i \in 1 .. n
    BY <1>2 DEF Attributed
  <2>4. QED
    BY <2>1, <2>2, <2>3
<1>8. ASSUME NEW x \in Modules
      PROVE  {i \in DOMAIN evolution[x] : Contains(w, DateOf(x, evolution[x][i]))}'
               = {i \in DOMAIN evolution[x] : Contains(w, DateOf(x, evolution[x][i]))}
  <2>1. ASSUME NEW i \in DOMAIN evolution[x]
        PROVE  i \in DOMAIN evolution'[x]
               /\ DateOf(x, evolution[x][i])' = DateOf(x, evolution[x][i])
    BY <2>1, <1>8, ChangesStayDated
  <2>2. ASSUME NEW i \in DOMAIN evolution'[x] \ DOMAIN evolution[x]
        PROVE  DateOf(x, evolution[x][i])' = day
    BY <2>2, <1>8, ChangesStayDated
  <2>3. QED
    BY <2>1, <2>2, <1>1 DEF Contains
<1>9. ASSUME NEW x \in Modules
      PROVE  ModuleReport(x, w)' = ModuleReport(x, w)
  BY <1>4, <1>7, <1>8, <1>9 DEF ModuleReport
<1>10. QED
  BY <1>9 DEF OperatorReport, w

\* The events of a close, one by one.
LEMMA EventsOfClose ==
    ASSUME Inv, NEW m, NEW drift \in BOOLEAN, NEW how, StreamGrows(m, drift, how, Len(stream)),
           NEW i \in DOMAIN stream'
    PROVE  LET n == Len(stream)
               l == n + 1 + (IF drift THEN 1 ELSE 0)
           IN  \/ i \in 1 .. n /\ stream'[i] = stream[i]
               \/ i = n + 1 /\ stream'[i] = Event("TRADE_CLOSE", m)
               \/ i = n + 2 /\ drift /\ stream'[i] = Event("CIATS_DRIFT_SIGNAL", m)
               \/ /\ i = l + 1 /\ how = "fails" /\ i + 1 \in DOMAIN stream'
                  /\ stream'[i] = Event("TRADE_RECORD_WRITE_FAILED", m)
                  /\ stream'[i + 1].kind \in {"ALERT_SENT", "ALERT_SMTP_FAILED"}
               \/ /\ i = l + 2 /\ how = "fails" /\ i - 1 \in DOMAIN stream'
                  /\ stream'[i].kind \in {"ALERT_SENT", "ALERT_SMTP_FAILED"}
                  /\ stream'[i].day = day
                  /\ stream'[i - 1] = Event("TRADE_RECORD_WRITE_FAILED", m)
<1> DEFINE n == Len(stream)
           l == n + 1 + (IF drift THEN 1 ELSE 0)
<1>1. n \in Nat
  BY LenProperties DEF Inv, Typed
<1>2. /\ Len(stream') \in Nat /\ DOMAIN stream' = 1 .. Len(stream')
  BY LenProperties DEF StreamGrows
<1>3. Len(stream') = l + (IF how = "fails" THEN 2 ELSE 0)
  BY DEF StreamGrows
<1>4. l \in Nat /\ (drift => l = n + 2) /\ (~drift => l = n + 1)
  BY <1>1
<1>5. /\ \A j \in 1 .. n : stream'[j] = stream[j]
      /\ stream'[n + 1] = Event("TRADE_CLOSE", m)
      /\ drift => stream'[n + 2] = Event("CIATS_DRIFT_SIGNAL", m)
      /\ how = "fails" =>
             /\ stream'[l + 1] = Event("TRADE_RECORD_WRITE_FAILED", m)
             /\ stream'[l + 2].kind \in {"ALERT_SENT", "ALERT_SMTP_FAILED"}
             /\ stream'[l + 2].day = day
  BY DEF StreamGrows
<1> HIDE DEF n, l
<1>6. i \in Nat /\ i >= 1 /\ i <= Len(stream')
  BY <1>2
<1>7. CASE i <= l
  <2>1. i \in 1 .. n \/ i = n + 1 \/ (i = n + 2 /\ drift)
    BY <1>1, <1>4, <1>6, <1>7
  <2>2. QED
    BY <2>1, <1>5 DEF n, l
<1>8. CASE ~(i <= l)
  <2>1. how = "fails" /\ (i = l + 1 \/ i = l + 2) /\ Len(stream') = l + 2
    BY <1>3, <1>4, <1>6, <1>8
  <2>2. CASE i = l + 1
    <3>1. i + 1 = l + 2 /\ i + 1 \in DOMAIN stream'
      BY <2>1, <2>2, <1>2, <1>4
    <3>2. QED
      BY <3>1, <2>1, <2>2, <1>5 DEF n, l
  <2>3. CASE i = l + 2
    <3>1. i - 1 = l + 1 /\ i - 1 \in DOMAIN stream'
      BY <2>1, <2>3, <1>2, <1>4
    <3>2. QED
      BY <3>1, <2>1, <2>3, <1>5 DEF n, l
  <2>4. QED
    BY <2>1, <2>2, <2>3
<1>9. QED
  BY <1>7, <1>8

\* The stream keeps its order: alerts follow what they report, evidence the close
\* it is of.
LEMMA StreamStaysInOrder ==
    ASSUME Inv, day' = day, NEW m \in Modules, NEW drift \in BOOLEAN, NEW how,
           StreamGrows(m, drift, how, Len(stream))
    PROVE  /\ NoAlertVanishes' /\ EvidenceIsAttributed'
           /\ \A i \in DOMAIN stream' : stream'[i].day <= day
<1> DEFINE n == Len(stream)
           l == n + 1 + (IF drift THEN 1 ELSE 0)
           Alerts == {"ALERT_SENT", "ALERT_SMTP_FAILED"}
<1>1. n \in Nat /\ DOMAIN stream = 1 .. n /\ day \in Nat
  BY LenProperties DEF Inv, Typed, Days
<1>2. /\ DOMAIN stream' = 1 .. Len(stream') /\ Len(stream') \in Nat
  BY LenProperties DEF StreamGrows
<1>3. /\ \A j \in 1 .. n : stream'[j] = stream[j]
      /\ stream'[n + 1] = Event("TRADE_CLOSE", m)
      /\ Len(stream') > n
  BY <1>1 DEF StreamGrows
<1>4. \A kind : Event(kind, m).kind = kind /\ Event(kind, m).module = m
                 /\ Event(kind, m).day = day
  BY DEF Event
<1>5. l \in Nat /\ l >= n + 1
  BY <1>1
<1>6. ASSUME NEW i \in DOMAIN stream'
      PROVE  /\ stream'[i].kind = "TRADE_RECORD_WRITE_FAILED"
                  => i < Len(stream') /\ stream'[i + 1].kind \in Alerts
             /\ stream'[i].kind \in Alerts
                  => i > 1 /\ stream'[i - 1].kind = "TRADE_RECORD_WRITE_FAILED"
             /\ stream'[i].kind = "CIATS_DRIFT_SIGNAL"
                  => AttributedTo(i)' = [module |-> stream'[i].module, day |-> stream'[i].day]
             /\ stream'[i].day <= day
  <2>1. CASE i \in 1 .. n /\ stream'[i] = stream[i]
    <3>1. /\ stream[i].kind = "TRADE_RECORD_WRITE_FAILED"
                => i < n /\ stream[i + 1].kind \in Alerts
          /\ stream[i].kind \in Alerts
                => i > 1 /\ stream[i - 1].kind = "TRADE_RECORD_WRITE_FAILED"
      BY <2>1, <1>1 DEF Inv, NoAlertVanishes, IsCritical
    <3>2. /\ i < n => i + 1 \in 1 .. n
          /\ i > 1 => i - 1 \in 1 .. n
          /\ i < n => i < Len(stream')
      BY <2>1, <1>1, <1>2, <1>3
    <3>3. AttributedTo(i)' = AttributedTo(i)
      <4>1. i \in Nat \ {0} /\ \A j \in 1 .. i - 1 : j \in 1 .. n
        BY <2>1, <1>1
      <4>2. QED
        BY <4>1, <1>3, AttributionStays
    <3>4. stream[i].kind = "CIATS_DRIFT_SIGNAL"
            => AttributedTo(i) = [module |-> stream[i].module, day |-> stream[i].day]
      BY <2>1, <1>1 DEF Inv, EvidenceIsAttributed
    <3>5. stream[i].day <= day
      BY <2>1, <1>1 DEF Inv, Past
    <3>6. QED
      BY <3>1, <3>2, <3>3, <3>4, <3>5, <2>1, <1>3
  <2>2. CASE i = n + 1 /\ stream'[i] = Event("TRADE_CLOSE", m)
    BY <2>2, <1>1, <1>4
  <2>3. CASE i = n + 2 /\ drift /\ stream'[i] = Event("CIATS_DRIFT_SIGNAL", m)
    <3>1. i \in Nat \ {0, 1} /\ i - 1 = n + 1
      BY <2>3, <1>1
    <3>2. AttributedTo(i)' = [module |-> m, day |-> day]
      BY <3>1, <1>3, <1>4, AttributedToTheClose
    <3>3. QED
      BY <3>2, <2>3, <1>1, <1>4
  <2>4. CASE /\ i = l + 1 /\ how = "fails" /\ i + 1 \in DOMAIN stream'
             /\ stream'[i] = Event("TRADE_RECORD_WRITE_FAILED", m)
             /\ stream'[i + 1].kind \in Alerts
    <3>1. i < Len(stream')
      BY <2>4, <1>2, <1>5
    <3>2. QED
      BY <3>1, <2>4, <1>1, <1>4
  <2>5. CASE /\ i = l + 2 /\ how = "fails" /\ i - 1 \in DOMAIN stream'
             /\ stream'[i].kind \in Alerts
             /\ stream'[i].day = day
             /\ stream'[i - 1] = Event("TRADE_RECORD_WRITE_FAILED", m)
    <3>1. i > 1
      BY <2>5, <1>5
    <3>2. QED
      BY <3>1, <2>5, <1>1, <1>4
  <2>6. QED
    BY <2>1, <2>2, <2>3, <2>4, <2>5, EventsOfClose
<1>7. NoAlertVanishes'
  BY <1>6 DEF NoAlertVanishes, IsCritical
<1>8. EvidenceIsAttributed'
  BY <1>6 DEF EvidenceIsAttributed
<1>9. QED
  BY <1>6, <1>7, <1>8

\* The memory has the close, and it is the last there was.
LEMMA CloseIsLearnt ==
    ASSUME Inv, NEW m \in Modules, NEW c \in Closes, c.id = Len(closes) + 1, c.module = m,
           closes' = Append(closes, c), earlier' = earlier, MemoryGrows(m, c)
    PROVE  Learnt'
<1>1. /\ closes \in Seq(Closes) /\ Len(closes) \in Nat
      /\ corpus[m] \in Seq(Closes) /\ corpus'[m] \in Seq(Closes)
      /\ earlier \in 0 .. Len(closes)
  BY LenProperties DEF Inv, Typed, MemoryGrows
<1>2. c.id > earlier
  BY <1>1
<1>3. closes' \in Seq(Closes) /\ Grown(closes', closes, c)
  BY <1>1, AppendGrows
<1>4. Range(closes') = Range(closes) \cup {c}
  <2> DEFINE s == closes
             w == closes'
  <2>1. s \in Seq(Closes) /\ w \in Seq(Closes) /\ Grown(w, s, c)
    BY <1>1, <1>3
  <2> HIDE DEF s, w
  <2>2. Range(w) = Range(s) \cup {c}
    BY <2>1, GrownRange
  <2>3. QED
    BY <2>2 DEF s, w
<1>5. Range(corpus'[m]) = Range(corpus[m]) \cup {c}
  BY <1>1, GrownRange DEF MemoryGrows
<1>6. \A x \in Modules \ {m} : corpus'[x] = corpus[x]
  BY DEF MemoryGrows
<1>7. \A x \in Modules :
          Range(corpus[x]) = {b \in Range(closes) : b.id > earlier /\ b.module = x}
  BY DEF Inv, Learnt
<1>8. ASSUME NEW x \in Modules
      PROVE  Range(corpus'[x]) = {b \in Range(closes') : b.id > earlier /\ b.module = x}
  <2>1. CASE x = m
    BY <2>1, <1>2, <1>4, <1>5, <1>7
  <2>2. CASE x # m
    BY <2>2, <1>4, <1>6, <1>7
  <2>3. QED
    BY <2>1, <2>2
<1>9. QED
  BY <1>8 DEF Learnt

\* An append that raises adds one event and one close to those on record as failed.
LEMMA FailureIsReported ==
    ASSUME Inv, NEW m, NEW drift \in BOOLEAN, NEW how, StreamGrows(m, drift, how, Len(stream)),
           earlier' = earlier,
           unwritten' = IF how = "fails" THEN unwritten \cup {Len(closes) + 1} ELSE unwritten
    PROVE  FailuresAreReported'
<1> DEFINE n == Len(stream)
           l == n + 1 + (IF drift THEN 1 ELSE 0)
           reported == {i \in DOMAIN stream : IsCritical(stream[i])}
           failed == {id \in unwritten : id > earlier}
<1>1. n \in Nat /\ DOMAIN stream = 1 .. n /\ l \in Nat /\ l >= n + 1
  BY LenProperties DEF Inv, Typed
<1>2. /\ DOMAIN stream' = 1 .. Len(stream') /\ Len(stream') \in Nat
      /\ Len(stream') = l + (IF how = "fails" THEN 2 ELSE 0)
      /\ \A i \in 1 .. n : stream'[i] = stream[i]
      /\ how = "fails" => stream'[l + 1] = Event("TRADE_RECORD_WRITE_FAILED", m)
  BY LenProperties DEF StreamGrows
<1>3. ASSUME NEW i \in DOMAIN stream', IsCritical(stream'[i])
      PROVE  i \in reported \/ (how = "fails" /\ i = l + 1)
  <2>1. CASE i \in 1 .. n /\ stream'[i] = stream[i]
    BY <2>1, <1>1, <1>3
  <2>2. CASE i = n + 1 /\ stream'[i] = Event("TRADE_CLOSE", m)
    BY <2>2, <1>3 DEF IsCritical, Event
  <2>3. CASE i = n + 2 /\ drift /\ stream'[i] = Event("CIATS_DRIFT_SIGNAL", m)
    BY <2>3, <1>3 DEF IsCritical, Event
  <2>4. CASE i = l + 1 /\ how = "fails"
    BY <2>4
  <2>5. CASE stream'[i].kind \in {"ALERT_SENT", "ALERT_SMTP_FAILED"}
    BY <2>5, <1>3 DEF IsCritical
  <2>6. QED
    BY <2>1, <2>2, <2>3, <2>4, <2>5, EventsOfClose
<1>4. \A i \in reported : i \in DOMAIN stream' /\ IsCritical(stream'[i])
  <2>1. \A i \in 1 .. n : i \in 1 .. Len(stream')
    BY <1>1, <1>2
  <2>2. QED
    BY <2>1, <1>1, <1>2
<1>5. how = "fails" => l + 1 \in DOMAIN stream' /\ IsCritical(stream'[l + 1])
  <2>1. how = "fails" => l + 1 \in 1 .. Len(stream')
    BY <1>1, <1>2
  <2>2. QED
    BY <2>1, <1>2 DEF IsCritical, Event
<1>6. l + 1 \notin reported
  BY <1>1
<1>7. IsFiniteSet(reported) /\ IsFiniteSet(failed)
  <2>1. IsFiniteSet(DOMAIN stream) /\ IsFiniteSet(1 .. Len(closes))
    BY <1>1, LenProperties, FS_Interval DEF Inv, Typed
  <2>2. reported \in SUBSET DOMAIN stream /\ failed \in SUBSET (1 .. Len(closes))
    BY DEF Inv, Typed
  <2>3. QED
    BY <2>1, <2>2, FS_Subset
<1>8. Len(closes) + 1 \notin failed /\ Len(closes) + 1 > earlier
  BY LenProperties DEF Inv, Typed
<1>9. Cardinality(reported) = Cardinality(failed)
  BY DEF Inv, FailuresAreReported
<1> DEFINE reportedNext == {i \in DOMAIN stream' : IsCritical(stream'[i])}
           failedNext == {id \in unwritten' : id > earlier}
<1>10. reportedNext = IF how = "fails" THEN reported \cup {l + 1} ELSE reported
  <2> HIDE DEF reported, l
  <2>1. QED
    BY <1>3, <1>4, <1>5
<1>11. failedNext = IF how = "fails" THEN failed \cup {Len(closes) + 1} ELSE failed
  BY <1>8
<1>12. Cardinality(reportedNext) = Cardinality(failedNext)
  <2> HIDE DEF reported, failed, reportedNext, failedNext, l
  <2>1. CASE how = "fails"
    <3>1. Cardinality(reported \cup {l + 1}) = Cardinality(reported) + 1
      BY <1>6, <1>7, FS_AddElement
    <3>2. Cardinality(failed \cup {Len(closes) + 1}) = Cardinality(failed) + 1
      BY <1>7, <1>8, FS_AddElement
    <3>3. reportedNext = reported \cup {l + 1} /\ failedNext = failed \cup {Len(closes) + 1}
      BY <2>1, <1>10, <1>11
    <3>4. QED
      BY <3>1, <3>2, <3>3, <1>9
  <2>2. CASE how # "fails"
    BY <2>2, <1>9, <1>10, <1>11
  <2>3. QED
    BY <2>1, <2>2
<1>13. QED
  BY <1>12 DEF FailuresAreReported, IsCritical

LEMMA CloseKeepsInv ==
    ASSUME Inv, NEW m \in Modules, NEW net \in Nets, NEW drift \in BOOLEAN,
           NEW change \in BOOLEAN, NEW how \in {"whole", "short", "fails"},
           NEW sent \in BOOLEAN, Close(m, net, drift, change, how, sent)
    PROVE  Inv'
<1> DEFINE c == NextClose(m, net)
           n == Len(stream)
<1>1. /\ Len(closes) < MaxCloses /\ closes' = Append(closes, c)
      /\ UNCHANGED <<up, day, lastKey, reports, snap, tmp, earlier>>
  BY DEF Close
<1>2. DiskTakes(c)
  <2>1. CASE how = "fails"
    BY <2>1 DEF Close, DiskTakes
  <2>2. CASE how # "fails"
    <3>1. /\ file' = [file EXCEPT ![Year(day)] = Appended(@, c.id, how = "whole")]
          /\ unwritten' = unwritten
      BY <2>2 DEF Close
    <3>2. (how = "whole") \in BOOLEAN
      OBVIOUS
    <3>3. QED
      BY <3>1, <3>2 DEF DiskTakes
  <2>3. QED
    BY <2>1, <2>2
<1>3. /\ closes' \in Seq(Closes) /\ Len(closes') <= MaxCloses
      /\ file' \in [Years -> Seq(Pieces)]
      /\ unwritten' \subseteq 1 .. Len(closes')
      /\ c \in Closes
      /\ Filed' /\ InItsYear'
  BY <1>1, <1>2, CloseIsFiled
<1>4. c.day = day /\ c.id = Len(closes) + 1 /\ c.module = m
  BY DEF NextClose, CloseDay
<1>5. StreamGrows(m, drift, how, n)
  BY CloseStream
<1>6. MemoryGrows(m, c)
  BY <1>3, CloseMemory
<1> HIDE DEF c, n
<1>7. Dated'
  BY <1>3, <1>4, <1>6, ChangesStayDated
<1>8. /\ NoAlertVanishes' /\ EvidenceIsAttributed'
      /\ \A i \in DOMAIN stream' : stream'[i].day <= day
  BY <1>1, <1>5, StreamStaysInOrder DEF n
<1>9. Typed'
  <2>1. faults' \in 0 .. MaxFaults /\ notes' \in 0 .. MaxNotes
    <3>1. /\ faults' = faults + (IF how = "whole" THEN 0 ELSE 1) /\ faults' <= MaxFaults
          /\ notes' = notes + (IF drift THEN 1 ELSE 0) + (IF change THEN 1 ELSE 0)
          /\ notes' <= MaxNotes
      BY DEF Close, Goes
    <3>2. QED
      BY <3>1, RecordsAssumption DEF Inv, Typed
  <2>2. stream' \in Seq(Events)
    BY <1>5 DEF StreamGrows
  <2>3. corpus' \in [Modules -> Seq(Closes)] /\ evolution' \in [Modules -> Seq(Changes)]
    BY <1>6 DEF MemoryGrows
  <2>4. earlier' \in 0 .. Len(closes')
    <3>1. Len(closes') = Len(closes) + 1 /\ Len(closes) \in Nat
      <4>1. closes \in Seq(Closes)
        BY DEF Inv, Typed
      <4>2. QED
        BY <4>1, <1>1, <1>3, AppendProperties, LenProperties
    <3>2. QED
      BY <3>1, <1>1 DEF Inv, Typed
  <2>5. QED
    BY <2>1, <2>2, <2>3, <2>4, <1>1, <1>3 DEF Inv, Typed
<1>10. Past'
  <2>1. ASSUME NEW x \in Modules, NEW i \in DOMAIN corpus'[x] PROVE corpus'[x][i].day <= day
    <3>1. CASE x = m
      <4> DEFINE s == corpus[m]
                 w == corpus'[m]
      <4>1. s \in Seq(Closes) /\ w \in Seq(Closes) /\ Grown(w, s, c) /\ day \in Nat
        BY <1>6 DEF Inv, Typed, MemoryGrows, Days
      <4> HIDE DEF s, w
      <4>2. /\ Len(s) \in Nat /\ DOMAIN s = 1 .. Len(s) /\ DOMAIN w = 1 .. Len(w)
            /\ Len(w) = Len(s) + 1 /\ w[Len(s) + 1] = c
            /\ \A j \in 1 .. Len(s) : w[j] = s[j]
        BY <4>1, LenProperties DEF Grown
      <4>3. /\ DOMAIN w = DOMAIN s \cup {Len(s) + 1}
            /\ \A j \in DOMAIN s : w[j] = s[j]
        BY <4>2
      <4>4. CASE i \in DOMAIN s
        BY <4>3, <4>4, <3>1 DEF Inv, Past, s, w
      <4>5. CASE i = Len(s) + 1
        <5>1. w[i].day = day
          BY <4>2, <4>5, <1>4
        <5>2. QED
          BY <5>1, <4>1, <3>1 DEF w
      <4>6. QED
        BY <4>3, <4>4, <4>5, <3>1, <2>1 DEF w
    <3>2. CASE x # m
      BY <3>2, <2>1, <1>6 DEF Inv, Past, MemoryGrows
    <3>3. QED
      BY <3>1, <3>2
  <2>2. QED
    BY <2>1, <1>1, <1>8 DEF Past
<1>11. Keyed'
  BY <1>1 DEF Inv, Keyed
<1>12. Told'
  <2>1. ASSUME NEW r \in reports
        PROVE  \E cat \in CategorySet, k \in Days :
                   /\ r = OperatorReport(cat, k)'
                   /\ PeriodKey(cat, k) = k
                   /\ ReportWindow(cat, k).end <= day
    <3>1. PICK cat \in CategorySet, k \in Days :
              /\ r = OperatorReport(cat, k)
              /\ PeriodKey(cat, k) = k
              /\ ReportWindow(cat, k).end <= day
      BY <2>1 DEF Inv, Told
    <3>2. OperatorReport(cat, k)' = OperatorReport(cat, k)
      BY <3>1, <1>3, <1>4, <1>5, <1>6, ReportStays DEF n
    <3>3. QED
      BY <3>1, <3>2
  <2>2. QED
    BY <2>1, <1>1 DEF Told
<1>13. Learnt'
  BY <1>1, <1>3, <1>4, <1>6, CloseIsLearnt
<1>14. FailuresAreReported'
  <2>1. unwritten' = IF how = "fails" THEN unwritten \cup {Len(closes) + 1} ELSE unwritten
    BY <1>4 DEF Close, c
  <2>2. QED
    BY <2>1, <1>1, <1>5, FailureIsReported DEF n
<1>15. QED
  BY <1>13, <1>14, <1>3, <1>7, <1>8, <1>9, <1>10, <1>11, <1>12 DEF Inv

-----------------------------------------------------------------------------
(* The other steps. *)

\* While the records stay as they are, so does what is read from them.
LEMMA SameRecords ==
    ASSUME UNCHANGED <<stream, corpus, evolution>>
    PROVE  /\ \A cat \in CategorySet, k \in Days :
                  OperatorReport(cat, k)' = OperatorReport(cat, k)
           /\ Dated' = Dated /\ NoAlertVanishes' = NoAlertVanishes
           /\ EvidenceIsAttributed' = EvidenceIsAttributed
           /\ UNCHANGED <<unwritten, earlier>> => FailuresAreReported' = FailuresAreReported
           /\ UNCHANGED <<closes, earlier>> => Learnt' = Learnt
<1>1. \A i : AttributedTo(i)' = AttributedTo(i)
  BY DEF AttributedTo, ClosesBefore
<1>2. \A m, w, kind : Attributed(m, w, kind)' = Attributed(m, w, kind)
  BY <1>1 DEF Attributed
<1>3. \A m, ch : DateOf(m, ch)' = DateOf(m, ch)
  BY DEF DateOf
<1>4. \A m, w : ModuleReport(m, w)' = ModuleReport(m, w)
  BY <1>2, <1>3 DEF ModuleReport
<1>5. \A cat \in CategorySet, k \in Days : OperatorReport(cat, k)' = OperatorReport(cat, k)
  BY <1>4 DEF OperatorReport
<1>6. EvidenceIsAttributed' = EvidenceIsAttributed
  BY <1>1 DEF EvidenceIsAttributed
<1>7. Dated' = Dated /\ NoAlertVanishes' = NoAlertVanishes
  BY DEF Dated, NoAlertVanishes
<1>8. /\ UNCHANGED <<unwritten, earlier>> => FailuresAreReported' = FailuresAreReported
      /\ UNCHANGED <<closes, earlier>> => Learnt' = Learnt
  BY DEF FailuresAreReported, Learnt
<1>9. QED
  BY <1>5, <1>6, <1>7, <1>8

\* A period is due when it is over.
LEMMA DueIsOver ==
    ASSUME Inv, NEW c \in CandleDays, NEW cat \in Due(c)
    PROVE  /\ lastKey[cat] \in Days /\ PeriodKey(cat, lastKey[cat]) = lastKey[cat]
           /\ ReportWindow(cat, lastKey[cat]).end <= day
<1> DEFINE k == lastKey[cat]
<1>1. cat \in CategorySet /\ k # None /\ PeriodKey(cat, c) > k
  BY DEF Due
<1>2. k \in Days /\ PeriodKey(cat, k) = k /\ k <= day /\ day \in Nat
  BY <1>1 DEF Inv, Typed, Keyed, Days
<1>3. c \in Nat /\ c <= day
  BY <1>2 DEF CandleDays
<1>4. k \in Nat /\ MonthDays \in Nat
  BY <1>2, RecordsAssumption DEF Days
<1> HIDE DEF k
<1>5. ReportWindow(cat, k).end <= day
  <2>1. CASE cat = "C2"
    <3>1. k < c
      BY <2>1, <1>1 DEF PeriodKey
    <3>2. ReportWindow(cat, k).end = k + 1
      BY <2>1 DEF ReportWindow
    <3>3. QED
      BY <3>1, <3>2, <1>2, <1>3, <1>4
  <2>2. CASE cat = "C4"
    <3>1. Month(k) = k /\ k < Month(c)
      BY <2>2, <1>1, <1>2 DEF PeriodKey
    <3>2. Month(k) + MonthDays <= Month(c)
      BY <3>1, <1>3, <1>4, MonthsInOrder
    <3>3. Month(c) \in Nat /\ Month(c) <= c
      BY <1>3, MonthBounds
    <3>4. ReportWindow(cat, k).end = Month(k) + MonthDays
      BY <2>2 DEF ReportWindow
    <3>5. QED
      BY <3>1, <3>2, <3>3, <3>4, <1>2, <1>3, <1>4
  <2>3. CASE cat = "C6"
    <3>1. ReportWindow(cat, k).end = k
      BY <2>3 DEF ReportWindow
    <3>2. QED
      BY <3>1, <1>2
  <2>4. QED
    BY <2>1, <2>2, <2>3, <1>1, CategoriesAre
<1>6. QED
  BY <1>2, <1>5 DEF k

LEMMA TickKeepsInv ==
    ASSUME Inv, NEW c \in CandleDays, NEW failing \in CategorySet \cup {None},
           NEW taken \in BOOLEAN, Tick(c, failing, taken)
    PROVE  Inv'
<1>1. /\ lastKey' = Keys(c, failing)
      /\ failing \in Due(c) \cup {None}
      /\ UNCHANGED <<up, day, stream, corpus, evolution, file, unwritten, closes, earlier,
                    notes>>
      /\ snap' = TRUE /\ tmp' = TRUE
  BY DEF Tick, disk
<1>2. day \in Nat /\ c \in Nat /\ c <= day /\ day <= MaxDay /\ MaxDay \in Nat
  BY RecordsAssumption DEF CandleDays, Inv, Typed, Days
<1>3. \A cat \in CategorySet : PeriodKey(cat, c) \in Nat /\ PeriodKey(cat, c) <= c
                                /\ PeriodKey(cat, PeriodKey(cat, c)) = PeriodKey(cat, c)
  BY <1>2, MonthBounds DEF PeriodKey
<1>4. \A cat \in CategorySet : lastKey'[cat] = PeriodKey(cat, c) \/ lastKey'[cat] = lastKey[cat]
  BY <1>1 DEF Keys
<1>5. lastKey' \in [CategorySet -> Days \cup {None}]
  <2>1. \A cat \in CategorySet : lastKey'[cat] \in Days \cup {None}
    BY <1>2, <1>3, <1>4 DEF Inv, Typed, Days
  <2>2. lastKey' = [cat \in CategorySet |-> lastKey'[cat]]
    BY <1>1 DEF Keys
  <2>3. QED
    BY <2>1, <2>2
<1>6. Keyed'
  <2>1. ASSUME NEW cat \in CategorySet, lastKey'[cat] # None
        PROVE  PeriodKey(cat, lastKey'[cat]) = lastKey'[cat] /\ lastKey'[cat] <= day
    <3>1. CASE lastKey'[cat] = PeriodKey(cat, c)
      BY <3>1, <1>2, <1>3
    <3>2. CASE lastKey'[cat] = lastKey[cat]
      BY <3>2, <2>1 DEF Inv, Keyed
    <3>3. QED
      BY <3>1, <3>2, <1>4
  <2>2. QED
    BY <2>1, <1>1 DEF Keyed
<1>7. Told'
  <2>1. ASSUME NEW r \in reports'
        PROVE  \E cat \in CategorySet, k \in Days :
                   /\ r = OperatorReport(cat, k)
                   /\ PeriodKey(cat, k) = k
                   /\ ReportWindow(cat, k).end <= day
    <3>1. CASE r \in reports
      BY <3>1 DEF Inv, Told
    <3>2. ASSUME NEW cat \in Due(c), r = OperatorReport(cat, lastKey[cat])
          PROVE  \E k \in Days : /\ r = OperatorReport(cat, k)
                                 /\ PeriodKey(cat, k) = k
                                 /\ ReportWindow(cat, k).end <= day
      BY <3>2, DueIsOver
    <3>3. r \in reports \/ \E cat \in Due(c) : r = OperatorReport(cat, lastKey[cat])
      BY <2>1 DEF Tick, Pulled
    <3>4. Due(c) \subseteq CategorySet
      BY DEF Due
    <3>5. QED
      BY <3>1, <3>2, <3>3, <3>4
  <2>2. QED
    BY <2>1, <1>1, SameRecords DEF Told
<1>8. Typed'
  <2>1. faults' \in 0 .. MaxFaults
    <3>1. faults' = faults + (IF failing = None THEN 0 ELSE 1) /\ faults' <= MaxFaults
      BY DEF Tick, Goes
    <3>2. QED
      BY <3>1, RecordsAssumption DEF Inv, Typed
  <2>2. QED
    BY <2>1, <1>1, <1>5 DEF Inv, Typed
<1>9. Filed' /\ InItsYear' /\ Past'
  BY <1>1 DEF Inv, Filed, InItsYear, Past
<1>10. Dated' /\ NoAlertVanishes' /\ EvidenceIsAttributed' /\ FailuresAreReported' /\ Learnt'
  BY <1>1, SameRecords DEF Inv
<1>11. QED
  BY <1>6, <1>7, <1>8, <1>9, <1>10 DEF Inv

LEMMA MidnightKeepsInv ==
    ASSUME Inv, Midnight
    PROVE  Inv'
<1>1. /\ day' = day + 1 /\ day < MaxDay
      /\ UNCHANGED <<up, stream, corpus, evolution, lastKey, reports, file, unwritten, snap,
                     tmp, closes, earlier, faults, notes>>
  BY DEF Midnight, memory, disk
<1>2. day \in Nat /\ MaxDay \in Nat /\ day' \in Days
  BY <1>1, RecordsAssumption DEF Inv, Typed, Days
<1>3. Typed'
  BY <1>1, <1>2 DEF Inv, Typed
<1>4. Filed' /\ InItsYear'
  BY <1>1 DEF Inv, Filed, InItsYear
<1>5. Dated' /\ NoAlertVanishes' /\ EvidenceIsAttributed' /\ FailuresAreReported' /\ Learnt'
  BY <1>1, SameRecords DEF Inv
<1>6. Past'
  <2>1. \A m \in Modules : \A i \in DOMAIN corpus[m] : corpus[m][i].day \in Nat
    <3>1. \A m \in Modules : \A i \in DOMAIN corpus[m] : corpus[m][i] \in Closes
      BY DEF Inv, Typed
    <3>2. QED
      BY <3>1 DEF Closes
  <2>2. \A i \in DOMAIN stream : stream[i].day \in Nat
    <3>1. \A i \in DOMAIN stream : stream[i] \in Events
      BY DEF Inv, Typed
    <3>2. QED
      BY <3>1 DEF Events, Days
  <2>3. QED
    BY <2>1, <2>2, <1>1, <1>2 DEF Inv, Past
<1>7. Keyed'
  BY <1>1, <1>2 DEF Inv, Typed, Keyed, Days
<1>8. Told'
  <2>1. ASSUME NEW cat \in CategorySet, NEW k \in Days PROVE ReportWindow(cat, k).end \in Int
    <3>1. k \in Nat /\ MonthDays \in Nat
      BY RecordsAssumption DEF Days
    <3>2. Month(k) \in Nat
      BY <3>1, MonthBounds
    <3>3. QED
      BY <3>1, <3>2, CategoriesAre DEF ReportWindow
  <2>2. ASSUME NEW r \in reports
        PROVE  \E cat \in CategorySet, k \in Days :
                   /\ r = OperatorReport(cat, k)'
                   /\ PeriodKey(cat, k) = k
                   /\ ReportWindow(cat, k).end <= day + 1
    <3>1. PICK cat \in CategorySet, k \in Days :
              /\ r = OperatorReport(cat, k)
              /\ PeriodKey(cat, k) = k
              /\ ReportWindow(cat, k).end <= day
      BY <2>2 DEF Inv, Told
    <3>2. OperatorReport(cat, k)' = OperatorReport(cat, k)
      BY <1>1, SameRecords
    <3>3. ReportWindow(cat, k).end <= day + 1
      BY <3>1, <2>1, <1>2
    <3>4. QED
      BY <3>1, <3>2, <3>3
  <2>3. QED
    BY <2>2, <1>1 DEF Told
<1>9. QED
  BY <1>3, <1>4, <1>5, <1>6, <1>7, <1>8 DEF Inv

\* A death empties the memory; the records on the disk are those of before, with
\* those of the close it died in.
LEMMA DeathKeepsInv ==
    ASSUME Inv, Dies, snap' = TRUE, tmp' \in BOOLEAN,
           closes' \in Seq(Closes), Len(closes') <= MaxCloses,
           file' \in [Years -> Seq(Pieces)], unwritten' \subseteq 1 .. Len(closes'), Filed',
           InItsYear', earlier' = Len(closes')
    PROVE  Inv'
<1>1. /\ up' = FALSE /\ day' = day /\ notes' = notes
      /\ faults' = faults + 1 /\ faults' <= MaxFaults
      /\ stream' = <<>> /\ reports' = {}
      /\ corpus' = [m \in Modules |-> <<>>] /\ evolution' = [m \in Modules |-> <<>>]
      /\ lastKey' = [c \in CategorySet |-> None]
  BY DEF Dies, Goes
<1>2. Typed'
  <2>1. \A T : <<>> \in Seq(T)
    BY EmptySeq
  <2>2. stream' \in Seq(Events)
    BY <2>1, <1>1
  <2>3. corpus' \in [Modules -> Seq(Closes)] /\ evolution' \in [Modules -> Seq(Changes)]
    BY <2>1, <1>1
  <2>4. faults' \in 0 .. MaxFaults
    BY <1>1, RecordsAssumption DEF Inv, Typed
  <2>5. earlier' \in 0 .. Len(closes')
    BY LenProperties
  <2>6. QED
    BY <2>2, <2>3, <2>4, <2>5, <1>1 DEF Inv, Typed
<1>3. DOMAIN stream' = {} /\ \A m \in Modules : DOMAIN corpus'[m] = {} /\ DOMAIN evolution'[m] = {}
  BY <1>1
<1>4. NoAlertVanishes' /\ EvidenceIsAttributed' /\ Dated' /\ Past'
  BY <1>3 DEF NoAlertVanishes, EvidenceIsAttributed, Dated, Past
<1>5. Keyed' /\ Told'
  BY <1>1 DEF Keyed, Told
<1>6. FailuresAreReported'
  <2>1. {i \in DOMAIN stream' : stream'[i].kind = "TRADE_RECORD_WRITE_FAILED"} = {}
    BY <1>3
  <2>2. {id \in unwritten' : id > earlier'} = {}
    <3>1. Len(closes') \in Nat
      BY LenProperties
    <3>2. ASSUME NEW id \in unwritten' PROVE ~(id > earlier')
      <4>1. id \in 1 .. Len(closes')
        BY <3>2
      <4>2. QED
        BY <3>1, <4>1
    <3>3. QED
      BY <3>2
  <2>3. QED
    BY <2>1, <2>2 DEF FailuresAreReported, IsCritical
<1>7. Learnt'
  <2>1. \A m \in Modules : Range(corpus'[m]) = {}
    BY <1>3 DEF Range
  <2>2. \A k \in DOMAIN closes' : closes'[k].id = k /\ k \in Nat /\ k <= Len(closes')
    <3>1. DOMAIN closes' = 1 .. Len(closes') /\ Len(closes') \in Nat
      BY LenProperties
    <3>2. QED
      BY <3>1 DEF Filed
  <2>3. \A c \in Range(closes') : ~(c.id > earlier')
    <3>1. Len(closes') \in Nat
      BY LenProperties
    <3>2. QED
      BY <3>1, <2>2 DEF Range
  <2>4. QED
    BY <2>1, <2>3 DEF Learnt
<1>8. QED
  BY <1>2, <1>4, <1>5, <1>6, <1>7 DEF Inv

LEMMA CrashKeepsInv ==
    ASSUME Inv, Crash \/ CrashInSnapshot
    PROVE  Inv'
<1>1. /\ Dies /\ UNCHANGED <<file, unwritten, closes>> /\ snap' = TRUE /\ tmp' \in BOOLEAN
      /\ earlier' = Len(closes')
  BY DEF Crash, CrashInSnapshot, HalfWritten, Forgets, disk, Inv, Typed
<1>2. Filed' /\ InItsYear'
  BY <1>1 DEF Inv, Filed, InItsYear
<1>3. QED
  BY <1>1, <1>2, DeathKeepsInv DEF Inv, Typed

LEMMA CrashInCloseKeepsInv ==
    ASSUME Inv, NEW m \in Modules, NEW net \in Nets, CrashInClose(m, net)
    PROVE  Inv'
<1>1. /\ Dies /\ snap' = TRUE /\ tmp' \in BOOLEAN
      /\ Len(closes) < MaxCloses /\ closes' = Append(closes, NextClose(m, net))
      /\ DiskTakes(NextClose(m, net)) /\ earlier' = Len(closes')
  BY DEF CrashInClose, DiskTakes, Forgets, Inv, Typed
<1>2. /\ closes' \in Seq(Closes) /\ Len(closes') <= MaxCloses
      /\ file' \in [Years -> Seq(Pieces)]
      /\ unwritten' \subseteq 1 .. Len(closes')
      /\ Filed' /\ InItsYear'
  BY <1>1, CloseIsFiled
<1>3. QED
  BY <1>1, <1>2, DeathKeepsInv

LEMMA RestartKeepsInv ==
    ASSUME Inv, Restart \/ UNCHANGED vars
    PROVE  Inv'
<1>1. /\ up' \in BOOLEAN
      /\ UNCHANGED <<day, stream, corpus, evolution, lastKey, reports, file, unwritten, snap,
                     tmp, closes, earlier, faults, notes>>
  BY DEF Restart, vars, memory, disk, Inv, Typed
<1>2. Typed' /\ Filed' /\ InItsYear' /\ Past' /\ Keyed'
  BY <1>1 DEF Inv, Typed, Filed, InItsYear, Past, Keyed
<1>3. Dated' /\ NoAlertVanishes' /\ EvidenceIsAttributed' /\ FailuresAreReported' /\ Learnt'
  BY <1>1, SameRecords DEF Inv
<1>4. Told'
  BY <1>1, SameRecords DEF Inv, Told
<1>5. QED
  BY <1>2, <1>3, <1>4 DEF Inv

LEMMA StepInv == Inv /\ [Next]_vars => Inv'
<1> SUFFICES ASSUME Inv, [Next]_vars PROVE Inv'
  OBVIOUS
<1>1. ASSUME NEW m \in Modules, NEW net \in Nets, NEW drift \in BOOLEAN,
             NEW change \in BOOLEAN, NEW sent \in BOOLEAN,
             NEW how \in {"whole", "short", "fails"}, Close(m, net, drift, change, how, sent)
      PROVE  Inv'
  BY <1>1, CloseKeepsInv
<1>2. ASSUME NEW c \in CandleDays, NEW failing \in CategorySet \cup {None},
             NEW taken \in BOOLEAN, Tick(c, failing, taken)
      PROVE  Inv'
  BY <1>2, TickKeepsInv
<1>3. ASSUME NEW m \in Modules, NEW net \in Nets, CrashInClose(m, net) PROVE Inv'
  BY <1>3, CrashInCloseKeepsInv
<1>4. QED
  BY <1>1, <1>2, <1>3, MidnightKeepsInv, CrashKeepsInv, RestartKeepsInv DEF Next

-----------------------------------------------------------------------------
(* The theorems. *)

\* All of what the streams and files hold at any time.
THEOREM RecordsInv == Spec => []Inv
<1>1. Init => Inv
  BY InitInv
<1>2. Inv /\ [Next]_vars => Inv'
  BY StepInv
<1>3. QED
  BY <1>1, <1>2, PTL DEF Spec

\* Whatever closes, dies and fails, the file of a year has every close whose append
\* did not fail, once and in order; each append that raised is on record, and mailed or
\* its mail on record as failed; a piece cut short, which nothing reports, costs the
\* dashboard two lines at most and the cold start's loader the year; the snapshot is
\* never seen half written (trade_record_file.py, dashboard_data.py, logger.py).
THEOREM RecordsSurvive == Spec => []RecordsAreAccountedFor
<1>1. Inv => RecordsAreAccountedFor
  BY InvAccountsForAll
<1>2. QED
  BY <1>1, RecordsInv, PTL

\* A report that went out names the closes of its period since the process started,
\* every one and no other, and stays what a report built later would say; evidence and
\* changes are of the module and the day of the close they came with (reporting.py).
THEOREM ReportsStayTrue == Spec => []ReportsAreTrue
<1>1. Inv => ReportsAreTrue
  BY InvTellsAll
<1>2. QED
  BY <1>1, RecordsInv, PTL

\* The scheduler leaves a period only with the period's report among those the
\* mail server took, however many mails failed before.
THEOREM PeriodsAreToldFirst == Spec => ToldBeforeMovingOn
<1> DEFINE Moves ==
        \A cat \in CategorySet :
            up' /\ lastKey[cat] # None /\ lastKey'[cat] # lastKey[cat]
              => \E r \in reports' : r.category = cat /\ r.asOf = lastKey[cat]
<1>1. ASSUME [Next]_vars PROVE Moves
  <2> SUFFICES ASSUME NEW cat \in CategorySet, up', lastKey[cat] # None,
                      lastKey'[cat] # lastKey[cat]
               PROVE  \E r \in reports' : r.category = cat /\ r.asOf = lastKey[cat]
    OBVIOUS
  <2>1. ASSUME NEW c \in CandleDays, NEW failing, NEW taken, Tick(c, failing, taken)
        PROVE  \E r \in reports' : r.category = cat /\ r.asOf = lastKey[cat]
    <3>1. lastKey' = Keys(c, failing) /\ Pulled(c, failing) \subseteq reports'
      BY <2>1 DEF Tick
    <3>2. cat \in (Due(c) \cup FirstSeen) \cap Handled(failing)
      BY <3>1 DEF Keys
    <3>3. cat \in Due(c) \cap Handled(failing)
      BY <3>2 DEF FirstSeen
    <3>4. OperatorReport(cat, lastKey[cat]) \in reports'
      BY <3>1, <3>3 DEF Pulled
    <3>5. /\ OperatorReport(cat, lastKey[cat]).category = cat
          /\ OperatorReport(cat, lastKey[cat]).asOf = lastKey[cat]
      BY DEF OperatorReport
    <3>6. QED
      BY <3>4, <3>5
  <2>2. \E c \in CandleDays, failing \in CategorySet \cup {None}, taken \in BOOLEAN :
            Tick(c, failing, taken)
    <3>1. lastKey' # lastKey /\ up' # FALSE
      OBVIOUS
    <3>2. ASSUME NEW m, NEW net, NEW drift, NEW change, NEW how, NEW sent
          PROVE  ~Close(m, net, drift, change, how, sent)
      <4>1. Close(m, net, drift, change, how, sent) => lastKey' = lastKey
        BY DEF Close
      <4>2. QED
        BY <4>1, <3>1
    <3>3. ~Dies
      BY <3>1 DEF Dies
    <3>4. ~Crash /\ ~CrashInSnapshot /\ \A m, net : ~CrashInClose(m, net)
      BY <3>3 DEF Crash, CrashInSnapshot, CrashInClose
    <3>5. ~Midnight /\ ~Restart /\ ~UNCHANGED vars
      BY <3>1 DEF Midnight, Restart, vars, memory
    <3>6. QED
      BY <1>1, <3>2, <3>4, <3>5 DEF Next
  <2>3. QED
    BY <2>1, <2>2
<1>2. QED
  BY <1>1, PTL DEF Spec, ToldBeforeMovingOn
=============================================================================
