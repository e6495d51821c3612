------------------------------ MODULE StartUp ------------------------------
(***************************************************************************)
(* The cold start: src/tothbot/app (the universe from the instrument       *)
(* snapshot, the liquidity and the viability screen) and the REST phases   *)
(* of pipeline/operational.py's assemble_operational (the warm-up of all   *)
(* pairs at once, the daily regimes, the liquidity probe), over the one    *)
(* REST client.  An error each phase does not expect ends the process.     *)
(***************************************************************************)
EXTENDS RestClient, RewardReplay

CONSTANTS
    Names,          \* the symbols there are, in the order of their names
    AlwaysInclude,  \* DEFAULT_ALWAYS_INCLUDE; the market anchor is one of them
    Listings,       \* what the instrument snapshot may say of them
    Settings,       \* what the environment may ask for
    Volumes,        \* the 24h volume of each symbol
    Scores,         \* the viability its daily bars give, or None
    Stagger,        \* the pause between the calls of one phase
    MaxFaults       \* bound: answers that are not good

ASSUME StartAssumption ==
    /\ Names \in Seq(STRING)
    /\ \A i, j \in DOMAIN Names : Names[i] = Names[j] => i = j
    /\ AlwaysInclude \subseteq Range(Names)
    /\ Volumes \in [Range(Names) -> Nat] /\ Scores \in [Range(Names) -> Int \cup {None}]
    /\ None \notin Int /\ None \notin Range(Names)
    /\ \A s \in Settings : s.pinned \subseteq Range(Names) /\ s.capacity \in Nat /\ s.topN \in Nat

VARIABLES
    setting,    \* the environment
    listing,    \* the exchange
    boot,       \* the phase of the start
    universe,   \* the symbols in play
    volumes,    \* the answer of the bulk ticker call
    toAsk,      \* the symbols the phase still has to ask for
    resume,     \* the time to its next call
    scored,     \* ViabilityStore
    task,       \* the warm-up of each symbol
    wakes,      \* what is left of its pause
    warmups,    \* of which symbol the seeds under a symbol's name are
    regimes,    \* RegimeCache
    liquid,     \* LiquidityCache
    heard,      \* history: the calls that were answered well
    failures

startVars == <<setting, listing, boot, universe, volumes, toAsk, resume, scored, task,
               wakes, warmups, regimes, liquid, heard, failures>>

SymbolSet == Range(Names)
Sorted(S) == Kept(Names, S)
Over == boot \in {"up", "dead"}

-----------------------------------------------------------------------------
(* The screens. *)

\* derive_universe.
Derived == {s \in SymbolSet : listing[s] = "online"} \cup AlwaysInclude

Position(s) == CHOOSE i \in DOMAIN Names : Names[i] = s

\* Mutant: the illiquid come first.
Shallower(v, s, t) == v[s] < v[t] \/ (v[s] = v[t] /\ Position(s) > Position(t))

\* The key select_top_n sorts by.
Deeper(v, s, t) == v[s] > v[t] \/ (v[s] = v[t] /\ Position(s) > Position(t))

\* select_top_n; the symbols without a volume count as 0.
TopN(S, v, n) ==
    {s \in S : Cardinality({t \in S : Deeper(v, t, s)}) < n} \cup (AlwaysInclude \cap S)

Unknown == [s \in SymbolSet |-> 0]

\* The phase after the universe has been settled as far as `done`.
Onward(done, S) ==
    IF done = "load" /\ setting.topN \in 1..(Cardinality(S) - 1) THEN "volumes"
    ELSE IF done \in {"load", "names"} /\ setting.capacity > 0 THEN "screen"
    ELSE "warm"

\* What the phase sets out with.
Enter(p, S) ==
    /\ boot' = p /\ universe' = S
    /\ toAsk' = IF p \in {"screen", "daily", "ticker"} THEN Sorted(S) ELSE <<>>
    /\ resume' = 0

-----------------------------------------------------------------------------
StartInit ==
    /\ RestInit
    /\ setting \in Settings /\ listing \in Listings
    /\ boot = "configure" /\ universe = {} /\ volumes = Unknown
    /\ toAsk = <<>> /\ resume = 0
    /\ scored = [s \in SymbolSet |-> None]
    /\ task = [s \in SymbolSet |-> "none"] /\ wakes = [s \in SymbolSet |-> 0]
    /\ warmups = [s \in SymbolSet |-> None]
    /\ regimes = {} /\ liquid = {} /\ heard = {} /\ failures = 0

\* _amain: live mode is refused; a pinned universe is neither loaded nor screened.
Configure ==
    /\ boot = "configure"
    /\ IF setting.live
       THEN boot' = "dead" /\ UNCHANGED <<universe, toAsk, resume>>
       ELSE IF setting.pinned # {} THEN Enter("warm", setting.pinned \cup AlwaysInclude)
       ELSE Enter("load", {})
    /\ UNCHANGED <<restVars, setting, listing, volumes, scored, task, wakes, warmups,
                   regimes, liquid, heard, failures>>

\* load_universe: the snapshot comes among the first frames, or the process ends.
LoadUniverse ==
    /\ boot = "load"
    /\ \/ /\ Enter(Onward("load", Derived), Derived)
          /\ UNCHANGED failures
       \/ /\ failures < MaxFaults /\ failures' = failures + 1
          /\ boot' = "dead" /\ UNCHANGED <<universe, toAsk, resume>>
    /\ UNCHANGED <<restVars, setting, listing, volumes, scored, task, wakes, warmups,
                   regimes, liquid, heard>>

\* The call a phase that makes them one after the other is at, if any is left.
NextCall ==
    IF boot \in {"volumes", "names"} THEN {<<"all", boot>>}
    ELSE {<<Head(toAsk), boot>> : i \in DOMAIN toAsk}

AskNext ==
    /\ resume = 0
    /\ \E call \in NextCall : ~Outstanding(call) /\ Ask(<<call>>)
    /\ UNCHANGED startVars

\* warm_all: every pair's first call at once, and each pair's second after a pause.
AskFirst ==
    /\ boot = "warm" /\ \A s \in universe : task[s] = "none"
    /\ task' = [s \in SymbolSet |-> IF s \in universe THEN "5m" ELSE "none"]
    /\ Ask([i \in DOMAIN Sorted(universe) |-> <<Sorted(universe)[i], "5m">>])
    /\ UNCHANGED <<setting, listing, boot, universe, volumes, toAsk, resume, scored, wakes,
                   warmups, regimes, liquid, heard, failures>>

AskSecond(s) ==
    /\ boot = "warm" /\ task[s] = "pause" /\ wakes[s] = 0
    /\ task' = [task EXCEPT ![s] = "60m"]
    /\ Ask(<< <<s, "60m">> >>)
    /\ UNCHANGED <<setting, listing, boot, universe, volumes, toAsk, resume, scored, wakes,
                   warmups, regimes, liquid, heard, failures>>

-----------------------------------------------------------------------------
(* The answers. *)

\* What each caller survives: the bulk calls nothing but an empty answer, the
\* screen any exception, _warm_guarded, _compute_one and refresh an error of
\* Kraken's and too short a series, not a connection that fails.
Survives == [k \in {"volumes", "names", "screen", "5m", "60m", "daily", "ticker"} |->
                CASE k \in {"volumes", "names"} -> {"short"}
                  [] k = "screen"                -> {"short", "refused", "limited", "broken"}
                  [] OTHER                       -> {"short", "refused", "limited"}]

\* One answer more, and whether it was a good one.
Note(call, answer) ==
    /\ Hear(call, answer)
    /\ IF answer = "good" THEN heard' = heard \cup {call} /\ UNCHANGED failures
       ELSE failures < MaxFaults /\ failures' = failures + 1 /\ UNCHANGED heard

Kills(call, answer) == answer # "good" /\ answer \notin Survives[call[2]]

\* An exception nobody catches leaves assemble_operational, and gather takes the
\* other warm-ups with it.
Dies(call, answer) ==
    /\ Note(call, answer) /\ Kills(call, answer)
    /\ boot' = "dead"
    /\ UNCHANGED <<setting, listing, universe, volumes, toAsk, resume, scored, task, wakes,
                   warmups, regimes, liquid>>

\* screen_universe.
BulkAnswer(answer) ==
    LET call == <<"all", boot>> IN
    /\ boot \in {"volumes", "names"} /\ Note(call, answer) /\ ~Kills(call, answer)
    /\ IF boot = "volumes"
       THEN /\ boot' = "names" /\ UNCHANGED <<universe, toAsk, resume>>
            /\ volumes' = IF answer = "good" THEN Volumes ELSE Unknown
       ELSE LET v == IF answer = "good" THEN volumes ELSE Unknown
                S == TopN(universe, v, setting.topN)
            IN  /\ volumes' = v
                /\ Enter(Onward("names", S), S)
    /\ UNCHANGED <<setting, listing, scored, task, wakes, warmups, regimes, liquid>>

\* screen_viable_universe, _compute_one and refresh: one symbol of the phase.
SymbolAnswer(answer) ==
    LET call == <<Head(toAsk), boot>>
        s == Head(toAsk)
        good == answer = "good"
    IN  /\ boot \in {"screen", "daily", "ticker"} /\ toAsk # <<>>
        /\ Note(call, answer) /\ ~Kills(call, answer)
        /\ toAsk' = Tail(toAsk)
        /\ resume' = IF boot = "screen" THEN 0 ELSE Stagger
        /\ scored' = IF boot = "screen" /\ good THEN [scored EXCEPT ![s] = Scores[s]] ELSE scored
        /\ regimes' = IF boot = "daily" /\ good THEN regimes \cup {s} ELSE regimes
        /\ liquid' = IF boot = "ticker" /\ good THEN liquid \cup {s} ELSE liquid
        /\ UNCHANGED <<setting, listing, boot, universe, volumes, task, wakes, warmups>>

\* warm_pair.
WarmAnswer(s, answer) ==
    LET call == <<s, task[s]>> IN
    /\ boot = "warm" /\ task[s] \in {"5m", "60m"}
    /\ Note(call, answer) /\ ~Kills(call, answer)
    /\ task' = [task EXCEPT ![s] = IF answer # "good" THEN "failed"
                                   ELSE IF @ = "5m" THEN "pause" ELSE "warm"]
    /\ wakes' = IF answer = "good" /\ task[s] = "5m" THEN [wakes EXCEPT ![s] = Stagger]
                ELSE wakes
    /\ UNCHANGED <<setting, listing, boot, universe, volumes, toAsk, resume, scored,
                   warmups, regimes, liquid>>

-----------------------------------------------------------------------------
(* The ends of the phases. *)

\* ViabilityStore.select.
ScreenEnds ==
    /\ boot = "screen" /\ toAsk = <<>>
    /\ Enter("warm", SelectViable(scored, Sorted(universe), setting.capacity, AlwaysInclude))
    /\ UNCHANGED <<restVars, setting, listing, volumes, scored, task, wakes, warmups,
                   regimes, liquid, heard, failures>>

\* Mutant: the results without the faults are laid beside the pairs.
Closed(results) ==
    LET kept == Kept(results, SymbolSet)
    IN  [i \in DOMAIN results |-> IF i \in DOMAIN kept THEN kept[i] ELSE None]

\* The zip of warm_all: what was gathered stands beside the pair it is of.
Gathered(results) == results

\* Mutant: a warm-up that fails never comes back to the gather.
OnlyWarm == {"warm"}

\* _warm_guarded returns either way.
Returned == {"warm", "failed"}

WarmEnds ==
    /\ boot = "warm" /\ \A s \in universe : task[s] \in Returned
    /\ LET pairs == Sorted(universe)
           results == Gathered([i \in DOMAIN pairs |->
                                   IF task[pairs[i]] = "warm" THEN pairs[i] ELSE None])
       IN  warmups' = [s \in SymbolSet |->
                          IF s \in universe THEN results[CHOOSE i \in DOMAIN pairs : pairs[i] = s]
                          ELSE None]
    /\ Enter("daily", universe)
    /\ UNCHANGED <<restVars, setting, listing, volumes, scored, task, wakes,
                   regimes, liquid, heard, failures>>

DailyEnds ==
    /\ boot = "daily" /\ toAsk = <<>>
    /\ Enter("ticker", universe)
    /\ UNCHANGED <<restVars, setting, listing, volumes, scored, task, wakes, warmups,
                   regimes, liquid, heard, failures>>

\* The rest of assemble_operational, and run.
Assembled ==
    /\ boot = "ticker" /\ toAsk = <<>>
    /\ Enter("up", universe)
    /\ UNCHANGED <<restVars, setting, listing, volumes, scored, task, wakes, warmups,
                   regimes, liquid, heard, failures>>

\* Time goes by while something is awaited and nothing of the phase is due.
Wait ==
    /\ boot \in {"volumes", "names", "screen", "daily", "ticker", "warm"}
    /\ boot = "warm" => /\ \E s \in universe : task[s] \in {"5m", "pause", "60m"}
                        /\ \A s \in universe : ~(task[s] = "pause" /\ wakes[s] = 0)
    /\ boot # "warm" => \E call \in NextCall : Outstanding(call) \/ resume > 0
    /\ RestTick
    /\ resume' = Later(0, resume - 1)
    /\ wakes' = [s \in SymbolSet |-> Later(0, wakes[s] - 1)]
    /\ UNCHANGED <<setting, listing, boot, universe, volumes, toAsk, scored, task,
                   warmups, regimes, liquid, heard, failures>>

StartNext ==
    /\ ~Over
    /\ \/ Configure \/ LoadUniverse \/ AskNext \/ AskFirst
       \/ \E s \in SymbolSet : AskSecond(s)
       \/ (TakeSlot \/ Send) /\ UNCHANGED startVars
       \/ \E answer \in Answers : BulkAnswer(answer) \/ SymbolAnswer(answer)
       \/ \E s \in SymbolSet, answer \in Answers : WarmAnswer(s, answer)
       \/ \E call \in DOMAIN inFlight, answer \in Answers : Dies(call, answer)
       \/ ScreenEnds \/ WarmEnds \/ DailyEnds \/ Assembled
       \/ Wait

StartSpec == StartInit /\ [][StartNext]_<<restVars, startVars>>

-----------------------------------------------------------------------------
(* Properties. *)

StartTypeOK ==
    /\ setting \in Settings /\ listing \in Listings /\ universe \subseteq SymbolSet
    /\ regimes \subseteq universe /\ liquid \subseteq universe
    /\ \A s \in SymbolSet : warmups[s] \in SymbolSet \cup {None}
    /\ slot >= -WakeDelay /\ DOMAIN inFlight \cap Range(callers) = {}

\* PairWarmup.is_ready.
Ready(s) == warmups[s] # None /\ s \in regimes

\* Once the process is up, a pair is traded just when its own three answers were
\* good, on the seeds of its own series, whatever became of the others.
FailureIsItsOwn ==
    boot = "up" =>
        \A s \in universe :
            /\ Ready(s) <=> {<<s, "5m">>, <<s, "60m">>, <<s, "daily">>} \subseteq heard
            /\ warmups[s] \in {s, None}
            /\ s \in liquid <=> <<s, "ticker">> \in heard

\* A symbol that was derived and came through the screens.
BestOfTheRest(s) ==
    /\ listing[s] = "online"
    /\ setting.capacity > 0 => scored[s] # None /\ scored[s] > 0
    /\ \A t \in SymbolSet \ universe :
           <<t, "screen">> \in heard /\ Scores[t] # None => Scores[s] >= Scores[t]
    /\ \A t \in Derived \ universe :
           setting.capacity = 0 /\ <<"all", "names">> \in heard => volumes[s] >= volumes[t]

\* The universe that is warmed holds the anchor.  Pinned, it is the pin and nothing
\* else, whatever the screens are set to; derived, it holds pairs that trade in
\* dollars and, but for what is always kept, the deepest and the most viable of them.
UniverseIsTheBest ==
    boot \in {"warm", "daily", "ticker", "up"} =>
        /\ AlwaysInclude \subseteq universe
        /\ setting.pinned # {} => universe = setting.pinned \cup AlwaysInclude
        /\ setting.pinned = {} => \A s \in universe \ AlwaysInclude : BestOfTheRest(s)

\* The calls somebody waits for.
Awaited ==
    NextCall \cup {<<s, task[s]>> : s \in {t \in universe : task[t] \in {"5m", "60m"}}}

\* Nobody waits for a lock, a slot or an answer that does not come: until the
\* process is up or dead, whatever is in the client's hands is awaited by the phase
\* that asked, and warm-ups that have begun and not all ended have one of them asleep
\* or with its call there.
StartNeverHangs ==
    ~Over =>
        /\ Range(callers) \cup DOMAIN inFlight \subseteq Awaited
        /\ boot = "warm" => \/ \A s \in universe : task[s] = "none"
                            \/ \A s \in universe : task[s] \in Returned
                            \/ \E s \in universe : task[s] = "pause" \/ Outstanding(<<s, task[s]>>)

\* An answer that fails, in any order, costs the pair it was for, or, when its phase
\* does not survive it (Survives: a connection that fails in the warm-up of one pair,
\* for one), the start; a start that comes up has lost no other pair by it.
StartIsSound == StartTypeOK /\ FailureIsItsOwn /\ UniverseIsTheBest /\ StartNeverHangs
=============================================================================
