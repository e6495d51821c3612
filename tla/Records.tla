------------------------------ MODULE Records ------------------------------
(***************************************************************************)
(* What the bot writes down and tells its operator                         *)
(* (src/tothbot/recorder, wired by operational.py): the streams of the     *)
(* Logger, the permanent trade file, the C1 alert mail, the pull reports   *)
(* that fire when a calendar period rolls over, and the state snapshot the *)
(* dashboard reads.  The process may die at any point and start again with *)
(* an empty memory, mail may fail, and the disk may refuse an append or    *)
(* take only a part of it.                                                 *)
(*                                                                         *)
(* Time is counted in days.  A clock tick carries the day in which its     *)
(* candle began, so just after midnight it may be yesterday's.             *)
(***************************************************************************)
EXTENDS Integers, Sequences, FiniteSets, FiniteSetsExt, Functions

CONSTANTS
    Modules,
    MonthDays, YearDays,  \* the calendar
    Nets,                 \* net_pl_usd of a close
    MaxDay, MaxCloses,
    MaxNotes,   \* bound on the drifts and parameter changes
    MaxFaults,  \* bound on the crashes, the mails and the appends that fail
    None

\* What the proofs use.
ASSUME RecordsAssumption ==
    /\ MonthDays \in Nat \ {0} /\ YearDays \in Nat \ {0}
    /\ MaxDay \in Nat /\ MaxCloses \in Nat /\ MaxNotes \in Nat /\ MaxFaults \in Nat
    /\ None \notin Int

VARIABLES
    up, day,
    \* the memory of the process
    stream,     \* Logger.operational
    corpus,     \* Logger.corpus
    evolution,  \* ParameterStore.evolution_log, with the day of the write
    lastKey,    \* PullCadenceScheduler._last_key
    \* outside of it
    reports,    \* what the mail server took, of this run of the process
    file,       \* of each year: what was appended, whole or in part
    snap, tmp,  \* whether the snapshot and its temporary file are whole
    closes,     \* every close there ever was
    unwritten,  \* those whose append failed, or never began
    earlier,    \* how many of them there were when the process last died (history)
    faults, notes

memory == <<stream, corpus, evolution, lastKey>>
disk == <<file, unwritten>>
vars == <<up, day, stream, corpus, evolution, lastKey, reports, file, snap, tmp,
          closes, unwritten, earlier, faults, notes>>

-----------------------------------------------------------------------------
(* Reports: their periods and what falls in them.  The weekly and the      *)
(* annual report roll over like the monthly one.                           *)

Categories == <<"C2", "C4", "C6">>
CategorySet == {Categories[i] : i \in DOMAIN Categories}

\* Mutant: a month is named after the next one.
MonthAhead(d) == d - (d % MonthDays) + MonthDays

Month(d) == d - (d % MonthDays)

\* _period_key: the first day of the period; C6 is pulled monthly.
PeriodKey(cat, d) == IF cat = "C2" THEN d ELSE Month(d)

\* report_window, from start up to and excluding end.
ReportWindow(cat, asOf) ==
    CASE cat = "C2" -> [start |-> asOf, end |-> asOf + 1]
      [] cat = "C4" -> [start |-> Month(asOf), end |-> Month(asOf) + MonthDays]
      [] cat = "C6" -> [start |-> asOf - YearDays, end |-> asOf]

\* Mutant: the end of a window belongs to it.
ContainsEnd(w, d) == w.start <= d /\ d <= w.end

Contains(w, d) == w.start <= d /\ d < w.end

NetOf(c) == c.net

\* trade_performance, and compute_performance of the dashboard.
Performance(S) ==
    [count |-> Cardinality(S), wins |-> Cardinality({c \in S : c.net > 0}),
     losses |-> Cardinality({c \in S : c.net < 0}), net |-> MapThenSumSet(NetOf, S)]

\* attribute_stream1: an event is of the module and the day of the last close
\* before it in the stream.
ClosesBefore(i) == {j \in 1..(i - 1) : stream[j].kind = "TRADE_CLOSE"}

AttributedTo(i) ==
    IF ClosesBefore(i) = {} THEN None
    ELSE LET j == CHOOSE j \in ClosesBefore(i) : \A k \in ClosesBefore(i) : k <= j
         IN  [module |-> stream[j].module, day |-> stream[j].day]

Attributed(m, w, kind) ==
    {i \in DOMAIN stream : /\ stream[i].kind = kind
                           /\ AttributedTo(i) # None
                           /\ AttributedTo(i).module = m
                           /\ Contains(w, AttributedTo(i).day)}

\* Mutant: the trade after the one the change was written at.
DatedByTheNext(m, ch) ==
    IF ch.at < Len(corpus[m]) THEN corpus[m][ch.at + 1].day ELSE corpus[m][ch.at].day

\* _evolution_in_window: a change is dated by the close it was written at.
DateOf(m, ch) == corpus[m][ch.at].day

ModuleReport(m, w) ==
    [trades |-> {c \in Range(corpus[m]) : Contains(w, c.day)},
     drifts |-> Cardinality(Attributed(m, w, "CIATS_DRIFT_SIGNAL")),
     changes |-> Cardinality({i \in DOMAIN evolution[m] :
                                Contains(w, DateOf(m, evolution[m][i]))})]

\* build_operator_report.
OperatorReport(cat, asOf) ==
    [category |-> cat, asOf |-> asOf,
     modules |-> [m \in Modules |-> ModuleReport(m, ReportWindow(cat, asOf))]]

TradesOf(r) == UNION {r.modules[m].trades : m \in Modules}

-----------------------------------------------------------------------------
(* The trade file.  os.write may take a part of a line, and nothing looks  *)
(* at how much it took: no failure is raised, the part has no end of line, *)
(* so what is appended next shares its line, and neither can be parsed.    *)
(* (A part that lacks only its end of line, and stays the last, would be.)  *)

Year(d) == d \div YearDays
Years == 0..Year(MaxDay)

ReadableAt(f, i) == f[i].whole /\ (i > 1 => f[i - 1].whole)
Damaged(f) == {f[i].id : i \in {j \in DOMAIN f : ~ReadableAt(f, j)}}

\* load_trades of the dashboard skips a line it cannot parse.
Readable(f) == {f[i].id : i \in {j \in DOMAIN f : ReadableAt(f, j)}}

\* load_trade_records, for the cold start and the annual report, raises on it: None.
LoadTradeRecords(f) == IF \A i \in DOMAIN f : ReadableAt(f, i) THEN Readable(f) ELSE None

\* Mutant: the file is opened for writing, not for appending.
Overwritten(f, id, whole) == <<[id |-> id, whole |-> whole]>>

Appended(f, id, whole) == Append(f, [id |-> id, whole |-> whole])

-----------------------------------------------------------------------------
Event(kind, m) == [kind |-> kind, module |-> m, day |-> day]

\* Mutant: a failed mail leaves no record.
AlertQuietly(ev, sent) == IF sent THEN <<ev, Event("ALERT_SENT", None)>> ELSE <<ev>>

\* Logger.record of a CRITICAL event and AlertEmailSender: two attempts, then
\* the failure goes on record, and is itself not mailed.
Alert(ev, sent) ==
    <<ev, Event(IF sent THEN "ALERT_SENT" ELSE "ALERT_SMTP_FAILED", None)>>

IsCritical(ev) == ev.kind = "TRADE_RECORD_WRITE_FAILED"

Init ==
    /\ up = TRUE /\ day = 0
    /\ stream = <<>>
    /\ corpus = [m \in Modules |-> <<>>] /\ evolution = [m \in Modules |-> <<>>]
    /\ lastKey = [c \in CategorySet |-> None]
    /\ reports = {}
    /\ file = [y \in Years |-> <<>>]
    /\ snap = TRUE /\ tmp = TRUE
    /\ closes = <<>> /\ unwritten = {} /\ earlier = 0 /\ faults = 0 /\ notes = 0

\* Mutant: the close is dated by the candle it was decided on.
CandleDay == IF day > 0 THEN day - 1 ELSE day

CloseDay == day

NextClose(m, net) == [id |-> Len(closes) + 1, module |-> m, day |-> CloseDay, net |-> net]

\* Mutant: CIATS learns before the close is recorded.
LearnsFirst(closed, learned) == learned \o closed

\* make_ciats_learning_sink: the close is recorded, then CIATS learns from it.
RecordsThenLearns(closed, learned) == closed \o learned

Goes(n) == faults' = faults + n /\ faults' <= MaxFaults

\* A close of module m, all of its sink: drift: CIATS detects one; change: an
\* approved change is written at it; how: what becomes of the append.
Close(m, net, drift, change, how, sent) ==
    LET c == NextClose(m, net)
        failed == IF how = "fails" THEN Alert(Event("TRADE_RECORD_WRITE_FAILED", m), sent)
                  ELSE <<>>
        learned == IF drift THEN <<Event("CIATS_DRIFT_SIGNAL", m)>> ELSE <<>>
        closed == <<[kind |-> "TRADE_CLOSE", module |-> m, day |-> c.day]>>
    IN  /\ up /\ Len(closes) < MaxCloses
        /\ Goes(IF how = "whole" THEN 0 ELSE 1)
        /\ notes' = notes + (IF drift THEN 1 ELSE 0) + (IF change THEN 1 ELSE 0)
        /\ notes' <= MaxNotes
        /\ closes' = Append(closes, c)
        /\ stream' = stream \o RecordsThenLearns(closed, learned) \o failed
        /\ corpus' = [corpus EXCEPT ![m] = Append(@, c)]
        /\ evolution' = IF change
                        THEN [evolution EXCEPT ![m] =
                                Append(@, [at |-> Len(corpus'[m]), day |-> c.day])]
                        ELSE evolution
        /\ IF how = "fails"
           THEN unwritten' = unwritten \cup {c.id} /\ UNCHANGED file
           ELSE /\ file' = [file EXCEPT ![Year(day)] = Appended(@, c.id, how = "whole")]
                /\ UNCHANGED unwritten
        /\ UNCHANGED <<up, day, lastKey, reports, snap, tmp, earlier>>

-----------------------------------------------------------------------------
(* A tick of the candle clock: the scheduler goes through its categories,  *)
(* then the snapshot is written.  A mail that fails ends the scheduler's   *)
(* tick and leaves its period and the later ones for the next; the server  *)
(* may have taken it all the same.                                         *)

Index(cat) == CHOOSE i \in DOMAIN Categories : Categories[i] = cat

Due(c) == {cat \in CategorySet : lastKey[cat] # None /\ PeriodKey(cat, c) > lastKey[cat]}
FirstSeen == {cat \in CategorySet : lastKey[cat] = None}

\* The categories the tick gets through when the mail of failing fails.
Handled(failing) ==
    IF failing = None THEN CategorySet
    ELSE {cat \in CategorySet : Index(cat) < Index(failing)}

Pulled(c, failing) ==
    {OperatorReport(cat, lastKey[cat]) : cat \in Due(c) \cap Handled(failing)}

\* Mutant: the key of a period that was told stays.
KeysNotMoved(c, failing) ==
    [cat \in CategorySet |-> IF cat \in FirstSeen THEN PeriodKey(cat, c) ELSE lastKey[cat]]

\* Mutant: a period whose mail failed counts as told.
KeysAdvanced(c, failing) ==
    [cat \in CategorySet |-> IF cat \in Due(c) \cup FirstSeen THEN PeriodKey(cat, c)
                             ELSE lastKey[cat]]

Keys(c, failing) ==
    [cat \in CategorySet |-> IF cat \in (Due(c) \cup FirstSeen) \cap Handled(failing)
                             THEN PeriodKey(cat, c) ELSE lastKey[cat]]

\* The candle that closes began today or, just after midnight, yesterday.
CandleDays == {day, day - 1} \cap Nat

Tick(c, failing, taken) ==
    /\ up
    /\ failing \in Due(c) \cup {None}
    /\ lastKey' = Keys(c, failing)
    /\ reports' = reports \cup Pulled(c, failing)
                    \cup IF taken /\ failing # None
                         THEN {OperatorReport(failing, lastKey[failing])} ELSE {}
    /\ tmp' = TRUE /\ snap' = TRUE
    /\ Goes(IF failing = None THEN 0 ELSE 1)
    /\ UNCHANGED <<up, day, stream, corpus, evolution, disk, closes, earlier, notes>>

\* The mail server answers.
TickDelivers == \E c \in CandleDays : Tick(c, None, FALSE)

Midnight ==
    /\ day < MaxDay
    /\ day' = day + 1
    /\ UNCHANGED <<up, memory, reports, disk, snap, tmp, closes, earlier, faults, notes>>

-----------------------------------------------------------------------------
(* The process dies: between two events, while it appends a trade, or      *)
(* while it writes the snapshot.  What it mailed and what it wrote stays.  *)

Dies ==
    /\ up /\ up' = FALSE
    /\ Goes(1)
    /\ stream' = <<>>
    /\ corpus' = [m \in Modules |-> <<>>] /\ evolution' = [m \in Modules |-> <<>>]
    /\ lastKey' = [c \in CategorySet |-> None]
    /\ reports' = {}
    /\ UNCHANGED <<day, notes>>

\* Nothing reads the file back at a start: what closed before is forgotten.
Forgets == earlier' = Len(closes')

Crash == Dies /\ UNCHANGED <<disk, snap, tmp, closes>> /\ Forgets

CrashInClose(m, net) ==
    LET c == NextClose(m, net)
    IN  /\ Len(closes) < MaxCloses
        /\ Dies
        /\ closes' = Append(closes, c) /\ Forgets
        /\ \/ unwritten' = unwritten \cup {c.id} /\ UNCHANGED file
           \/ \E whole \in BOOLEAN :
                /\ file' = [file EXCEPT ![Year(day)] = Appended(@, c.id, whole)]
                /\ UNCHANGED unwritten
        /\ UNCHANGED <<snap, tmp>>

\* Mutant: the snapshot is written in place.
HalfWrittenInPlace == snap' = FALSE /\ UNCHANGED tmp

\* StateSnapshotEmitter.emit writes beside the snapshot and renames.
HalfWritten == tmp' = FALSE /\ UNCHANGED snap

CrashInSnapshot ==
    /\ Dies
    /\ HalfWritten
    /\ UNCHANGED <<disk, closes>> /\ Forgets

Restart ==
    /\ ~up /\ up' = TRUE
    /\ UNCHANGED <<day, memory, reports, disk, snap, tmp, closes, earlier, faults, notes>>

Next ==
    \/ \E m \in Modules, net \in Nets, drift, change, sent \in BOOLEAN,
          how \in {"whole", "short", "fails"} :
            (how = "fails" \/ sent) /\ Close(m, net, drift, change, how, sent)
    \/ \E c \in CandleDays, failing \in CategorySet \cup {None}, taken \in BOOLEAN :
            (failing # None \/ ~taken) /\ Tick(c, failing, taken)
    \/ Midnight
    \/ Crash
    \/ \E m \in Modules, net \in Nets : CrashInClose(m, net)
    \/ CrashInSnapshot
    \/ Restart

Spec == Init /\ [][Next]_vars

\* Candles close, and the mail server answers in the end.
FairSpec == Spec /\ WF_vars(TickDelivers)

-----------------------------------------------------------------------------
(* Properties. *)

Closes == [id : 1..MaxCloses, module : Modules, day : 0..MaxDay, net : Nets]

\* The streams hold records of known shape, and the file one piece for each
\* append.
TypeOK ==
    /\ up \in BOOLEAN /\ day \in 0..MaxDay
    /\ faults \in 0..MaxFaults /\ notes \in 0..MaxNotes
    /\ \A i \in DOMAIN stream :
           DOMAIN stream[i] = {"kind", "module", "day"} /\ stream[i].day \in 0..MaxDay
    /\ \A m \in Modules : Range(corpus[m]) \subseteq Closes /\ Range(evolution[m]) \subseteq
                              [at : 1..Len(corpus[m]), day : 0..MaxDay]
    /\ lastKey \in [CategorySet -> 0..MaxDay \cup {None}]
    /\ \A y \in Years : Range(file[y]) \subseteq [id : 1..Len(closes), whole : BOOLEAN]
    /\ snap \in BOOLEAN /\ tmp \in BOOLEAN
    /\ Range(closes) \subseteq Closes /\ unwritten \subseteq 1..Len(closes)
    /\ earlier \in 0..Len(closes)

\* The closes this process has seen.
SinceStart == {c \in Range(closes) : c.id > earlier}

\* A report that went out names the closes of its period since the process last
\* started, every one and no other (those before the start it leaves out: the file
\* is not read back), and stays right: no close, drift or change is dated into a
\* period that was already told (the clock of the reports is the candle's, that of a
\* close the wall's).
ReportCoversTheRun ==
    \A r \in reports :
        /\ TradesOf(r) =
               {c \in SinceStart :
                   IF r.category = "C6" THEN r.asOf - YearDays <= c.day /\ c.day < r.asOf
                   ELSE PeriodKey(r.category, c.day) = r.asOf}
        /\ r = OperatorReport(r.category, r.asOf)

\* The days of a month that were all told add up to what the month's report
\* says: of trades, wins, losses and money.
DaysAddUpToTheMonth ==
    \A r \in {x \in reports : x.category = "C4"} :
        LET days == {x \in reports : x.category = "C2" /\ Month(x.asOf) = r.asOf}
            told == {x.asOf : x \in days}
            Sum(field) == MapThenSumSet(LAMBDA x : Performance(TradesOf(x))[field], days)
        IN  told = r.asOf..(r.asOf + MonthDays - 1)
              => \A field \in {"count", "wins", "losses", "net"} :
                    Sum(field) = Performance(TradesOf(r))[field]

\* What CIATS says of a close is attributed to the module and the day of that
\* close, although events do not carry them.
EvidenceIsAttributed ==
    \A i \in DOMAIN stream :
        stream[i].kind = "CIATS_DRIFT_SIGNAL"
          => AttributedTo(i) = [module |-> stream[i].module, day |-> stream[i].day]

\* A parameter change is reported under the day it was written, although the
\* log keeps only a count of trades.
EvolutionIsDated ==
    \A m \in Modules : \A i \in DOMAIN evolution[m] :
        DateOf(m, evolution[m][i]) = evolution[m][i].day

\* What the operator is told of this run of the process is complete, consistent with
\* what he was told before, and of the right module and day.
ReportsAreTrue == ReportCoversTheRun /\ EvidenceIsAttributed /\ EvolutionIsDated

\* The file of a year has the closes of the year whose append did not fail, once and
\* in order, but for the pieces cut short: each costs the dashboard at most its own
\* line and the next, and the loader of the cold start the whole year.
FileIsTheHistory ==
    \A y \in Years :
        LET f == file[y]
            appended == {c.id : c \in {x \in Range(closes) : Year(x.day) = y}} \ unwritten
            cut == {i \in DOMAIN f : ~f[i].whole}
        IN  /\ \A i, j \in DOMAIN f : i < j => f[i].id < f[j].id
            /\ Readable(f) \cup Damaged(f) = appended
            /\ Cardinality(Damaged(f)) <= 2 * Cardinality(cut)
            /\ LoadTradeRecords(f) = IF cut = {} THEN appended ELSE None

\* Every CRITICAL event is mailed, or its failure is on record; and a failure
\* raises no alert of its own.
NoAlertVanishes ==
    \A i \in DOMAIN stream :
        /\ IsCritical(stream[i])
             => /\ i < Len(stream)
                /\ stream[i + 1].kind \in {"ALERT_SENT", "ALERT_SMTP_FAILED"}
        /\ stream[i].kind \in {"ALERT_SENT", "ALERT_SMTP_FAILED"}
             => i > 1 /\ IsCritical(stream[i - 1])

\* Each append that raised in this run of the process has a CRITICAL event of its
\* own, and nothing else has one: a piece cut short goes unnoticed.
FailuresAreReported ==
    Cardinality({i \in DOMAIN stream : IsCritical(stream[i])})
        = Cardinality({id \in unwritten : id > earlier})

\* The dashboard never reads half a snapshot, whenever the process dies.
DashboardReadsWhole == snap

\* What a death of the process, a disk or a mail that fails at any point can cost is
\* known to the line: no close is missing from the file but by a failed append, and
\* none of its lines but by one cut short.
RecordsAreAccountedFor ==
    /\ TypeOK /\ FileIsTheHistory /\ FailuresAreReported
    /\ NoAlertVanishes /\ DashboardReadsWhole

\* The scheduler leaves a period only with its report mailed.
ToldBeforeMovingOn ==
    [][\A cat \in CategorySet :
         up' /\ lastKey[cat] # None /\ lastKey'[cat] # lastKey[cat]
           => \E r \in reports' : r.category = cat /\ r.asOf = lastKey[cat]]_vars

\* Whatever mail fails before, the scheduler does not stay behind the calendar.
Overdue == up /\ \E cat \in CategorySet : lastKey[cat] # None
                                         /\ PeriodKey(cat, day) > lastKey[cat]

KeysCatchUp == []<>~Overdue

\* The period the scheduler's key stands at is told in the end, before the key moves
\* on, and as the longer period that holds it tells it.  A period the key passes
\* over, without a tick or while mail failed, is never told: there is no back-fill.
KeyedPeriodsAreTold == ToldBeforeMovingOn /\ KeysCatchUp /\ []DaysAddUpToTheMonth
=============================================================================
