------------------------------ MODULE Connections ------------------------------
(***************************************************************************)
(* The WebSocket connections of the bot: one receive loop per public shard *)
(* (exchange/receive_loop.py, assembler.py), the application keepalive and *)
(* the zombie test (keepalive.py), the silent-pair machines                *)
(* (silent_pair.py), the token bucket all subscribes share (pacing.py),    *)
(* the reconnect coordinator and driver (reconnect.py, reconnect_driver.py)*)
(* and, in live mode, the private connection with its rate counter,        *)
(* sequence tracker and balances cache (private_ws.py, rate_counter.py,    *)
(* reconcile.py, balances_cache.py).                                       *)
(*                                                                         *)
(* All loops are tasks of one event loop: an action is what one of them    *)
(* runs between two awaits.  Time is counted in ticks; an age stops        *)
(* counting once it has passed the threshold it is compared with.  Loops   *)
(* may be late: a tick never waits for a loop to have looked at its        *)
(* timers.  The frames themselves are handled elsewhere (CandleFold,       *)
(* PaperPath, WSManagerLive); here a frame is its class.                   *)
(***************************************************************************)
EXTENDS ShardPlan

CONSTANTS
    Nothing,             \* Python's None
    Deployments,         \* which connections are up, the lines they may lose and
                         \* what else may go wrong: a set of "stalled", "mute",
                         \* "reject", "skip", "maintenance" and "connect"
    Private,             \* the private connection, used in live mode
    PING_INTERVAL,       \* ticks between pings
    PONG_TIMEOUT,        \* ticks a pong may take
    ZOMBIE_THRESHOLD,    \* ticks a connection may go without data
    T_SILENT,            \* ticks a pair may take to its first data
    BURST_CAPACITY,      \* tokens of the bucket
    RATE,                \* tokens refilled per tick
    Ceilings,            \* the maxratecount values Kraken may grant
    RateValues,          \* the counter values an execution may carry
    WarningPct,          \* rl_warning_threshold_pct
    CriticalPct,         \* rl_critical_threshold_pct
    MaxSeq               \* bound on frames of one private stream

ASSUME ConnectionsAssumption ==
    /\ {PING_INTERVAL, PONG_TIMEOUT, ZOMBIE_THRESHOLD, T_SILENT} \subseteq Nat \ {0}
    /\ BURST_CAPACITY \in Nat \ {0} /\ RATE \in Nat \ {0}
    /\ Ceilings \subseteq Nat \ {0} /\ RateValues \subseteq Nat
    /\ WarningPct \in Nat /\ CriticalPct \in Nat /\ WarningPct <= CriticalPct
    /\ MaxSeq \in Nat
    /\ Private \notin Nat /\ Nothing \notin {"scenario_a", "scenario_b"}
    /\ Nothing \notin Nat

VARIABLES
    active,       \* the connections of this bot
    faults,       \* what may go wrong with them
    stage,        \* "build", "run" or "ended": a coroutine raised
    phase,        \* per connection: where its task is
    at,           \* the step of the restore sequence being run
    todo,         \* subscribe requests still to be sent in that step
    attempt,      \* reconnect attempts of the current reconnect
    wake,         \* ticks left of the driver's sleep
    inProgress,   \* the coordinators: scenario of a reconnect, or Nothing
    maintenance,  \* _maintenance_announced of each loop
    keepalive,    \* ages of the last ping and the last data, pong awaited
    silent,       \* the machine of each pair
    tokens,       \* the bucket
    counter,      \* the private rate counter: ceiling, value, suppressed
    lastSeq,      \* watermark of the executions detector
    balances,     \* the balances cache: Nothing or a wallet has been seen
    routed,       \* the last step handed a 5m candle to the pipeline
    line,         \* external: Kraken's end of each socket
    drops         \* bound: lines that may still be lost

vars == << active, faults, stage, phase, at, todo, attempt, wake, inProgress, maintenance,
           keepalive, silent, tokens, counter, lastSeq, balances, routed, line,
           drops >>

driverVars == << at, todo, attempt, wake, inProgress >>
feedVars   == << counter, lastSeq, balances >>

Conns == Shards \cup {Private}

ASSUME DeploymentsAssumption ==
    Deployments \subseteq
        [active : SUBSET Conns, drops : Nat,
         faults : SUBSET {"stalled", "mute", "reject", "skip", "maintenance", "connect"}]

RequestsOf(c) == IF c = Private THEN PrivateRequests ELSE SubscribeRequests[c]
SequenceOf(c) == IF c = Private THEN PrivateRestoreSequence ELSE PublicRestoreSequence
PairsOn(c) == IF c = Private THEN {} ELSE PairsOf[c]

\* The shards share one coordinator, the private connection has its own.
Itself(c) == {c}                   \* mutant: each loop asks for itself
Peers(c) == IF c = Private THEN {Private} ELSE Shards
AnyReconnecting(c) == \E d \in Peers(c) : inProgress[d] # Nothing

Aged(age, threshold) == IF age <= threshold THEN age + 1 ELSE age

----------------------------------------------------------------------------
\* ConnectionKeepalive.
Reset == [ping |-> 0, data |-> 0, awaiting |-> FALSE]
MarkPingSent(k) == [k EXCEPT !.ping = 0, !.awaiting = TRUE]
MarkPong(k) == [k EXCEPT !.awaiting = FALSE]
MarkRealData(k) == [k EXCEPT !.data = 0]
DueForPing(k) == ~k.awaiting /\ k.ping >= PING_INTERVAL
PongOverdue(k) == k.awaiting /\ k.ping >= PONG_TIMEOUT
IsZombie(k) == k.data > ZOMBIE_THRESHOLD
Liveness(k) ==
    CASE PongOverdue(k) -> "dead_no_pong"
      [] ~PongOverdue(k) /\ IsZombie(k) -> "zombie"
      [] OTHER -> "alive"
LongestPing == IF PING_INTERVAL > PONG_TIMEOUT THEN PING_INTERVAL ELSE PONG_TIMEOUT
Older(k) ==
    [k EXCEPT !.ping = Aged(@, LongestPing - 1), !.data = Aged(@, ZOMBIE_THRESHOLD)]

----------------------------------------------------------------------------
\* SilentPairMachine.
MarkSubscribed(m) == [state |-> "subscribed", age |-> 0]
Unarmed(m) == m                    \* mutant: the pair is not re-armed
MarkShardReconnect(m) == [state |-> "subscribed", age |-> 0]
MarkData(m) ==
    IF m.state \in {"data_pending", "subscribed"}
    THEN [state |-> "data_ready", age |-> 0] ELSE m
Evaluate(m) ==
    IF m.state = "subscribed" /\ m.age > T_SILENT
    THEN [state |-> "data_pending", age |-> 0] ELSE m
OlderPair(m) == IF m.state = "subscribed" THEN [m EXCEPT !.age = Aged(@, T_SILENT)] ELSE m

----------------------------------------------------------------------------
\* RateCounter: a percentage of the ceiling arms the suppression of entries,
\* a lower one releases it, and in between it stays as it was.
Above(value, ceiling, pct) == value * 100 > ceiling * pct
SetCeiling(r, n) == [r EXCEPT !.ceiling = n]
Observe(r, v) ==
    [r EXCEPT !.value = v,
              !.suppressed =
                  IF r.ceiling = Nothing THEN @
                  ELSE Above(v, r.ceiling, CriticalPct)
                       \/ (@ /\ Above(v, r.ceiling, WarningPct))]
ResetValueOnly(r) == [r EXCEPT !.value = Nothing]     \* mutant: the latch stays
ResetCounter(r) == [r EXCEPT !.value = Nothing, !.suppressed = FALSE]

\* SequenceGapDetector.observe: the watermark never moves backwards.
NotTheNext(last, seq) == last # Nothing /\ seq # last + 1   \* mutant
GapAt(last, seq) == last # Nothing /\ seq > last + 1
Watermark(last, seq) == IF last # Nothing /\ seq <= last THEN last ELSE seq

----------------------------------------------------------------------------
\* Kraken's end of a socket.  "stalled": nothing arrives any more and nobody
\* is told; "mute": heartbeats and pongs, no data.  From "skipped" on the fields
\* are history, for the properties: what happened on this socket, the sequences
\* at which a skip went unreported, and the watermark it found.
FreshLine ==
    [state |-> "open", sent |-> 0, acked |-> 0, accepted |-> {}, pings |-> FALSE,
     seq |-> 0, skipped |-> FALSE, snapshot |-> FALSE,
     told |-> FALSE, heard |-> {}, gap |-> FALSE, unreported |-> {}, found |-> Nothing]
Opened == [FreshLine EXCEPT !.found = lastSeq]
NoLine == [FreshLine EXCEPT !.state = "closed"]

Init ==
    /\ \E d \in Deployments : /\ active = d.active /\ faults = d.faults /\ drops = d.drops
    /\ stage = "build"
    /\ phase = [c \in Conns |-> "unopened"]
    /\ at = [c \in Conns |-> 0]
    /\ todo = [c \in Conns |-> 0]
    /\ attempt = [c \in Conns |-> 0]
    /\ wake = [c \in Conns |-> 0]
    /\ inProgress = [c \in Conns |-> Nothing]
    /\ maintenance = [c \in Conns |-> FALSE]
    /\ keepalive = [c \in Conns |-> Reset]
    /\ silent = [p \in Pairs |-> [state |-> "initial", age |-> 0]]
    /\ tokens = BURST_CAPACITY
    /\ counter = [ceiling |-> Nothing, value |-> Nothing, suppressed |-> FALSE]
    /\ lastSeq = Nothing
    /\ balances = Nothing
    /\ routed = FALSE
    /\ line = [c \in Conns |-> NoLine]

----------------------------------------------------------------------------
(***************************************************************************)
(* What a loop may receive.  Kraken acknowledges requests in the order it  *)
(* got them and sends a channel once its request is accepted.              *)
(***************************************************************************)
Message(class) == [class |-> class]
Acks(c) ==
    IF line[c].acked = line[c].sent THEN {}
    ELSE [class : {"ack"}, success : IF "reject" \in faults THEN BOOLEAN ELSE {TRUE},
          request : {line[c].acked + 1},
          maxratecount : IF c = Private THEN Ceilings ELSE {Nothing}]
Data(c) ==
    IF c # Private
    THEN [class : {"data"}, request : line[c].accepted,
          value : {Nothing}, skip : {0}]
    ELSE [class : {"data"}, request : line[c].accepted,
          value : RateValues \cup {Nothing},
          skip : IF "skip" \in faults THEN {0, 1} ELSE {0}]
Deliverable(c) ==
    {Message("none")}
    \cup (IF line[c].state \in {"open", "mute"}
          THEN {Message("heartbeat")}
               \cup [class : {"status"}, system : {"online"} \cup ({"maintenance"} \cap faults)]
               \cup (IF line[c].pings THEN {Message("pong")} ELSE {})
          ELSE {})
    \cup (IF line[c].state = "open" THEN Acks(c) \cup Data(c) ELSE {})

ChannelOf(c, m) == RequestsOf(c)[m.request].channel
SymbolOf(c, m) == RequestsOf(c)[m.request].symbol
PerPairData == {"ohlc_5m", "ohlc_60m", "ticker"}
Arrives(c, m, channel) == m.class = "data" /\ ChannelOf(c, m) = channel
SequenceAt(c, m) == line[c].seq + 1 + m.skip

\* handle_message, one operator per piece of state it writes.
FrameIsData(c, m) ==               \* mutant: a heartbeat counts as data
    CASE m.class = "pong" -> MarkPong(keepalive[c])
      [] m.class \in {"data", "heartbeat"} -> MarkRealData(keepalive[c])
      [] OTHER            -> keepalive[c]
KeepaliveAfter(c, m) ==
    CASE m.class = "pong" -> MarkPong(keepalive[c])
      [] m.class = "data" -> MarkRealData(keepalive[c])
      [] OTHER            -> keepalive[c]
SilentAfter(c, m) ==
    IF m.class = "ack" /\ m.success /\ SymbolOf(c, m) \in PairsOn(c)
    THEN [silent EXCEPT ![SymbolOf(c, m)] = MarkSubscribed(@)]
    ELSE IF m.class = "data" /\ ChannelOf(c, m) \in PerPairData
         THEN [silent EXCEPT ![SymbolOf(c, m)] = MarkData(@)]
         ELSE silent
MaintenanceAfter(c, m) ==
    IF m.class = "status" THEN m.system = "maintenance" ELSE maintenance[c]
CounterAfter(c, m) ==
    CASE m.class = "ack" /\ m.success /\ ChannelOf(c, m) = "executions"
             -> SetCeiling(counter, m.maxratecount)
      [] Arrives(c, m, "executions") /\ m.value # Nothing
             -> Observe(counter, m.value)
      [] OTHER -> counter
LastSeqAfter(c, m) ==
    IF Arrives(c, m, "executions") THEN Watermark(lastSeq, SequenceAt(c, m)) ELSE lastSeq
BalancesAfter(c, m) == IF Arrives(c, m, "balances") THEN "seen" ELSE balances
\* A committed 5m candle is not handed on while a peer reconnects.
Commits(c, m) ==
    m.class = "data" /\ ChannelOf(c, m) = "ohlc_5m" /\ ~AnyReconnecting(c)

\* External: what the message was on Kraken's side.
LineAfter(c, m) ==
    CASE m.class = "pong"   -> [line[c] EXCEPT !.pings = FALSE]
      [] m.class = "status" -> [line[c] EXCEPT !.told = m.system = "maintenance"]
      [] m.class = "ack"    ->
             [line[c] EXCEPT !.acked = m.request,
                             !.accepted = IF m.success THEN @ \cup {m.request} ELSE @]
      [] m.class = "data"   ->
             [line[c] EXCEPT
                 !.heard = IF c = Private THEN @ ELSE @ \cup {SymbolOf(c, m)},
                 !.snapshot = @ \/ ChannelOf(c, m) = "balances",
                 !.seq = IF ChannelOf(c, m) = "executions" THEN SequenceAt(c, m) ELSE @,
                 !.skipped = @ \/ (ChannelOf(c, m) = "executions" /\ m.skip > 0),
                 !.gap = @ \/ (ChannelOf(c, m) = "executions"
                               /\ GapAt(lastSeq, SequenceAt(c, m))),
                 !.unreported =
                     IF /\ ChannelOf(c, m) = "executions" /\ m.skip > 0
                        /\ ~GapAt(lastSeq, SequenceAt(c, m))
                     THEN @ \cup {SequenceAt(c, m)} ELSE @]
      [] OTHER -> line[c]

----------------------------------------------------------------------------
ReasonForDrop(announced) == IF announced THEN "maintenance" ELSE "random"

Listening(c) == stage = "run" /\ phase[c] = "receiving"

FlagKept(c) == maintenance         \* mutant: it outlives the reconnect
FlagConsumed(c) == [maintenance EXCEPT ![c] = FALSE]

\* _reconnect and the start of ReconnectDriver.initiate, to its first sleep.
BeginReconnect(c, reason) ==
    /\ phase' = [phase EXCEPT ![c] = "sleeping"]
    /\ inProgress' = [inProgress EXCEPT ![c] = SelectScenario(reason)]
    /\ attempt' = [attempt EXCEPT ![c] = 1]
    /\ wake' = [wake EXCEPT ![c] = ReconnectDelay(SelectScenario(reason), 1)]
    /\ maintenance' = FlagConsumed(c)
    /\ line' = [line EXCEPT ![c] = NoLine]
    /\ UNCHANGED << at, todo >>

\* on_tick and what _step does about it, from the keepalive k, the flag and
\* the line as the message left them.
OnTick(c, k, announced, l) ==
    \/ /\ Liveness(k) # "alive"
       /\ keepalive' = [keepalive EXCEPT ![c] = k]
       /\ BeginReconnect(c, "random")
    \/ /\ Liveness(k) = "alive" /\ DueForPing(k) /\ l.state = "closed"
       /\ keepalive' = [keepalive EXCEPT ![c] = k]
       /\ BeginReconnect(c, ReasonForDrop(announced))
    \/ /\ Liveness(k) = "alive" /\ DueForPing(k) /\ l.state # "closed"
       /\ keepalive' = [keepalive EXCEPT ![c] = MarkPingSent(k)]
       /\ line' = [line EXCEPT ![c] = [l EXCEPT !.pings = l.state # "stalled"]]
       /\ maintenance' = [maintenance EXCEPT ![c] = announced]
       /\ UNCHANGED << phase, driverVars >>
    \/ /\ Liveness(k) = "alive" /\ ~DueForPing(k)
       /\ keepalive' = [keepalive EXCEPT ![c] = k]
       /\ line' = [line EXCEPT ![c] = l]
       /\ maintenance' = [maintenance EXCEPT ![c] = announced]
       /\ UNCHANGED << phase, driverVars >>

\* _step: one frame, or the timeout of the wait for one, and the timers.
Receive(c, m) ==
    /\ line[c].state = "closed" => m.class = "none"
    /\ Arrives(c, m, "executions") => SequenceAt(c, m) <= MaxSeq
    /\ silent' = [p \in Pairs |-> IF p \in PairsOn(c) THEN Evaluate(SilentAfter(c, m)[p])
                                  ELSE SilentAfter(c, m)[p]]
    /\ counter' = CounterAfter(c, m)
    /\ lastSeq' = LastSeqAfter(c, m)
    /\ balances' = BalancesAfter(c, m)
    /\ routed' = Commits(c, m)
    /\ OnTick(c, KeepaliveAfter(c, m), MaintenanceAfter(c, m), LineAfter(c, m))
    /\ UNCHANGED << active, faults, stage, tokens, drops >>

\* _step: the wait for a frame raises TransportClosed.
ReceiveClosed(c) ==
    /\ line[c].state = "closed"
    /\ BeginReconnect(c, ReasonForDrop(maintenance[c]))
    /\ routed' = FALSE
    /\ UNCHANGED << active, faults, stage, keepalive, silent, tokens, feedVars, drops >>

----------------------------------------------------------------------------
(***************************************************************************)
(* ReconnectDriver.initiate: the restore sequence step by step, an attempt *)
(* that meets TransportClosed followed by the next.                        *)
(***************************************************************************)
Step(c) == SequenceOf(c)[at[c]]
Restoring(c, step) ==
    stage = "run" /\ phase[c] = "restoring" /\ Step(c) = step

Wake(c) ==
    /\ stage = "run" /\ phase[c] = "sleeping" /\ wake[c] = 0
    /\ phase' = [phase EXCEPT ![c] = "restoring"]
    /\ at' = [at EXCEPT ![c] = 1]
    /\ routed' = FALSE
    /\ UNCHANGED << active, faults, stage, todo, attempt, wake, inProgress, maintenance,
                    keepalive, silent, tokens, feedVars, line, drops >>

\* The mutant lowers the flag one step early.
AdvanceEarly(c) ==
    /\ at' = [at EXCEPT ![c] = IF @ < Len(SequenceOf(c)) THEN @ + 1 ELSE 0]
    /\ phase' = [phase EXCEPT ![c] = IF at[c] < Len(SequenceOf(c)) THEN "restoring"
                                     ELSE "receiving"]
    /\ inProgress' = [inProgress EXCEPT ![c] = IF at[c] < Len(SequenceOf(c)) - 1 THEN @
                                               ELSE Nothing]
    /\ UNCHANGED << attempt, wake >>

\* The step has been run: the next one, or the end of the reconnect.
Advance(c) ==
    IF at[c] < Len(SequenceOf(c))
    THEN /\ at' = [at EXCEPT ![c] = @ + 1]
         /\ phase' = [phase EXCEPT ![c] = "restoring"]
         /\ UNCHANGED << attempt, wake, inProgress >>
    ELSE /\ at' = [at EXCEPT ![c] = 0]
         /\ phase' = [phase EXCEPT ![c] = "receiving"]
         /\ attempt' = [attempt EXCEPT ![c] = 0]
         /\ inProgress' = [inProgress EXCEPT ![c] = Nothing]
         /\ UNCHANGED wake

AcquireToken(c) ==
    /\ Restoring(c, "ACQUIRE_WS_TOKEN")
    /\ Advance(c)
    /\ routed' = FALSE
    /\ UNCHANGED << active, faults, stage, todo, maintenance, keepalive, silent, tokens,
                    feedVars, line, drops >>

ReconnectSocket(c) ==
    /\ Restoring(c, "RECONNECT_SOCKET")
    /\ line' = [line EXCEPT ![c] = Opened]
    /\ Advance(c)
    /\ routed' = FALSE
    /\ UNCHANGED << active, faults, stage, todo, maintenance, keepalive, silent, tokens,
                    feedVars, drops >>

\* RESUBSCRIBE_PUBLIC re-arms the pairs of the connection before it sends.
Resubscribe(c) ==
    /\ Restoring(c, "RESUBSCRIBE_PUBLIC") \/ Restoring(c, "RESUBSCRIBE_PRIVATE")
    /\ phase' = [phase EXCEPT ![c] = "subscribing"]
    /\ todo' = [todo EXCEPT ![c] = Len(RequestsOf(c))]
    /\ silent' = [p \in Pairs |-> IF p \in PairsOn(c) THEN MarkShardReconnect(silent[p])
                                  ELSE silent[p]]
    /\ routed' = FALSE
    /\ UNCHANGED << active, faults, stage, at, attempt, wake, inProgress, maintenance,
                    keepalive, tokens, feedVars, line, drops >>

\* _paced_subscribe takes a token first; the private pair of requests is sent
\* without one.
TakeToken(c) ==
    IF c = Private THEN UNCHANGED tokens ELSE tokens >= 1 /\ tokens' = tokens - 1

\* The last request ends the step: a restore goes on, the start-up waits.
SendSubscribe(c) ==
    /\ stage # "ended" /\ phase[c] = "subscribing"
    /\ TakeToken(c)
    /\ line[c].state # "closed"
    /\ line' = [line EXCEPT ![c].sent = @ + 1]
    /\ todo' = [todo EXCEPT ![c] = @ - 1]
    /\ \/ todo[c] > 1 /\ UNCHANGED << phase, at, attempt, wake, inProgress >>
       \/ todo[c] = 1 /\ stage = "run" /\ Advance(c)
       \/ /\ todo[c] = 1 /\ stage = "build"
          /\ phase' = [phase EXCEPT ![c] = "ready"]
          /\ UNCHANGED << at, attempt, wake, inProgress >>
    /\ routed' = FALSE
    /\ UNCHANGED << active, faults, stage, maintenance, keepalive, silent, feedVars, drops >>

\* send raises TransportClosed: the attempt is abandoned, its socket closed
\* and the next one waits its delay.
SubscribeFails(c) ==
    /\ stage = "run" /\ phase[c] = "subscribing"
    /\ TakeToken(c)
    /\ line[c].state = "closed"
    /\ phase' = [phase EXCEPT ![c] = "sleeping"]
    /\ attempt' = [attempt EXCEPT ![c] = Aged(@, Len(Backoff))]
    /\ wake' = [wake EXCEPT ![c] = ReconnectDelay(inProgress[c], attempt'[c])]
    /\ at' = [at EXCEPT ![c] = 0]
    /\ todo' = [todo EXCEPT ![c] = 0]
    /\ line' = [line EXCEPT ![c] = NoLine]
    /\ routed' = FALSE
    /\ UNCHANGED << active, faults, stage, inProgress, maintenance, keepalive, silent,
                    feedVars, drops >>

ResetRateCeiling(c) ==
    /\ Restoring(c, "RESET_RATE_CEILING")
    /\ counter' = ResetCounter(counter)
    /\ balances' = Nothing
    /\ Advance(c)
    /\ routed' = FALSE
    /\ UNCHANGED << active, faults, stage, todo, maintenance, keepalive, silent, tokens,
                    lastSeq, line, drops >>

ResumeKeepalive(c) ==
    /\ Restoring(c, "RESUME_KEEPALIVE")
    /\ keepalive' = [keepalive EXCEPT ![c] = Reset]
    /\ Advance(c)
    /\ routed' = FALSE
    /\ UNCHANGED << active, faults, stage, todo, maintenance, silent, tokens, feedVars, line,
                    drops >>

\* The mirror is WSManagerLive's; the ticker step does nothing.
LastStep(c) ==
    /\ \/ Restoring(c, "RESTORE_POSITION_MIRROR")
       \/ Restoring(c, "RESTORE_TICKER_TRIGGER")
    /\ Advance(c)
    /\ routed' = FALSE
    /\ UNCHANGED << active, faults, stage, todo, maintenance, keepalive, silent, tokens,
                    feedVars, line, drops >>

\* What open_socket and acquire_token raise when the network is down is not
\* TransportClosed: it leaves the driver, the loop and the run.
Abandon(c) ==
    /\ "connect" \in faults
    /\ Restoring(c, "RECONNECT_SOCKET") \/ Restoring(c, "ACQUIRE_WS_TOKEN")
    /\ stage' = "ended"
    /\ inProgress' = [inProgress EXCEPT ![c] = Nothing]
    /\ routed' = FALSE
    /\ UNCHANGED << active, faults, phase, at, todo, attempt, wake, maintenance, keepalive,
                    silent, tokens, feedVars, line, drops >>

----------------------------------------------------------------------------
(***************************************************************************)
(* Start-up: DataLayerAssembler.build opens every shard, then subscribes   *)
(* them one after the other; in live mode the private connection follows.  *)
(***************************************************************************)
Lower(c) == active \cap (IF c = Private THEN Shards ELSE 0 .. c - 1)

BuildOpen(c) ==
    /\ stage = "build" /\ phase[c] = "unopened" /\ c \in active
    /\ IF c = Private THEN \A d \in Lower(c) : phase[d] = "ready"
                      ELSE \A d \in Lower(c) : phase[d] # "unopened"
    /\ phase' = [phase EXCEPT ![c] = "opened"]
    /\ line' = [line EXCEPT ![c] = Opened]
    /\ keepalive' = [keepalive EXCEPT ![c] = Reset]
    /\ routed' = FALSE
    /\ UNCHANGED << active, faults, stage, driverVars, maintenance, silent, tokens, feedVars,
                    drops >>

BuildSubscribe(c) ==
    /\ stage = "build" /\ phase[c] = "opened"
    /\ \A d \in active \cap Shards : phase[d] # "unopened"
    /\ \A d \in Lower(c) : phase[d] = "ready"
    /\ phase' = [phase EXCEPT ![c] = "subscribing"]
    /\ todo' = [todo EXCEPT ![c] = Len(RequestsOf(c))]
    /\ routed' = FALSE
    /\ UNCHANGED << active, faults, stage, at, attempt, wake, inProgress, maintenance,
                    keepalive, silent, tokens, feedVars, line, drops >>

\* A socket lost while the bot is built raises out of it.
BuildFails(c) ==
    /\ stage = "build" /\ phase[c] = "subscribing" /\ line[c].state = "closed"
    /\ TakeToken(c)
    /\ stage' = "ended"
    /\ routed' = FALSE
    /\ UNCHANGED << active, faults, phase, driverVars, maintenance, keepalive, silent,
                    feedVars, line, drops >>

Run ==
    /\ stage = "build" /\ \A c \in active : phase[c] = "ready"
    /\ stage' = "run"
    /\ phase' = [c \in Conns |-> IF c \in active THEN "receiving" ELSE phase[c]]
    /\ routed' = FALSE
    /\ UNCHANGED << active, faults, driverVars, maintenance, keepalive, silent, tokens,
                    feedVars, line, drops >>

----------------------------------------------------------------------------
\* SubscribeTokenBucket._refill; the mutant forgets the capacity.
RefilledPast(n) == n + RATE
Refilled(n) == IF n + RATE > BURST_CAPACITY THEN BURST_CAPACITY ELSE n + RATE

\* External: the network and the clock.
LineGoes(c, state) ==
    /\ stage # "ended" /\ drops > 0
    /\ line[c].state = "open"
    /\ state = "closed" \/ state \in faults
    /\ line' = [line EXCEPT ![c].state = state]
    /\ drops' = drops - 1
    /\ routed' = FALSE
    /\ UNCHANGED << active, faults, stage, phase, driverVars, maintenance, keepalive, silent,
                    tokens, feedVars >>

Tick ==
    /\ stage # "ended"
    /\ keepalive' = [c \in Conns |-> IF c \in active THEN Older(keepalive[c])
                                     ELSE keepalive[c]]
    /\ silent' = [p \in Pairs |-> OlderPair(silent[p])]
    /\ wake' = [c \in Conns |-> IF wake[c] > 0 THEN wake[c] - 1 ELSE 0]
    /\ tokens' = Refilled(tokens)
    /\ routed' = FALSE
    /\ UNCHANGED << active, faults, stage, phase, at, todo, attempt, inProgress, maintenance,
                    feedVars, line, drops >>

\* What the loop, the driver, the subscriber and the start-up do next.
Loop(c) ==
    /\ Listening(c)
    /\ ReceiveClosed(c) \/ \E m \in Deliverable(c) : Receive(c, m)
Drive(c) ==
    \/ Wake(c) \/ AcquireToken(c) \/ ReconnectSocket(c) \/ Resubscribe(c)
    \/ ResetRateCeiling(c) \/ ResumeKeepalive(c) \/ LastStep(c)
Subscribe(c) == SendSubscribe(c) \/ SubscribeFails(c)
Build(c) == BuildOpen(c) \/ BuildSubscribe(c)

Next ==
    \/ Tick \/ Run
    \/ \E c \in Conns :
        \/ Loop(c) \/ Drive(c) \/ Subscribe(c) \/ Build(c)
        \/ Abandon(c) \/ BuildFails(c)
        \/ \E state \in {"closed", "stalled", "mute"} : LineGoes(c, state)

Spec == Init /\ [][Next]_vars

\* Every task is scheduled again and again, and a task that waits for a token
\* gets one of the infinitely many it finds.
Fairness ==
    /\ WF_vars(Tick) /\ WF_vars(Run)
    /\ \A c \in Conns : /\ WF_vars(Loop(c)) /\ WF_vars(Drive(c))
                        /\ SF_vars(Subscribe(c)) /\ WF_vars(Build(c))

FairSpec == Spec /\ Fairness

----------------------------------------------------------------------------
\* The states of the variables.
LineType ==
    [state : {"open", "closed", "stalled", "mute"}, sent : Nat, acked : Nat,
     accepted : SUBSET Nat, pings : BOOLEAN, seq : Nat, skipped : BOOLEAN,
     snapshot : BOOLEAN, told : BOOLEAN, heard : SUBSET (Pairs \cup {"none"}),
     gap : BOOLEAN, unreported : SUBSET Nat, found : Nat \cup {Nothing}]
TypeOK ==
    /\ active \subseteq Conns /\ stage \in {"build", "run", "ended"}
    /\ phase \in [Conns -> {"unopened", "opened", "ready", "subscribing",
                             "receiving", "sleeping", "restoring"}]
    /\ at \in [Conns -> Nat] /\ todo \in [Conns -> Nat]
    /\ attempt \in [Conns -> Nat] /\ wake \in [Conns -> Nat]
    /\ inProgress \in [Conns -> {Nothing, "scenario_a", "scenario_b"}]
    /\ maintenance \in [Conns -> BOOLEAN]
    /\ keepalive \in [Conns -> [ping : Nat, data : Nat, awaiting : BOOLEAN]]
    /\ silent \in [Pairs -> [state : {"initial", "subscribed", "data_ready",
                                      "data_pending"}, age : Nat]]
    /\ tokens \in 0 .. BURST_CAPACITY
    /\ counter \in [ceiling : Nat \cup {Nothing}, value : Nat \cup {Nothing},
                     suppressed : BOOLEAN]
    /\ routed \in BOOLEAN
    /\ lastSeq \in Nat \cup {Nothing} /\ balances \in {Nothing, "seen"}
    /\ line \in [Conns -> LineType] /\ drops \in Nat

\* A loop reads only from a socket on which every channel of its connection
\* has been asked for, however often the restore was begun again.
SubscribedOnThisSocket ==
    \A c \in Conns : Listening(c) => line[c].sent = Len(RequestsOf(c))

\* The in-progress flag is up from the loss of the socket until the loop reads
\* again, and never outlives the reconnect.
GateCoversRestore ==
    stage = "run" =>
        \A c \in active : (inProgress[c] # Nothing) <=> phase[c] # "receiving"

\* A pair passes for ready only on data of the socket its loop reads now.
ReadyIsHeardHere ==
    \A c \in Shards : \A p \in PairsOn(c) :
        Listening(c) /\ silent[p].state = "data_ready" => p \in line[c].heard

\* A maintenance announcement belongs to the socket that brought it: the next
\* loss of another one is not treated as maintenance.
MaintenanceIsOfThisSocket ==
    \A c \in Conns : maintenance[c] => line[c].told

\* Entries of the pair are suppressed because a value of this connection passed
\* the critical share of the ceiling and has not come back under the warning
\* share; a value above the critical share always suppresses them.
SuppressionFollowsTheCounter ==
    Listening(Private) /\ counter.ceiling # Nothing =>
        /\ counter.suppressed =>
               counter.value # Nothing /\ Above(counter.value, counter.ceiling, WarningPct)
        /\ counter.value # Nothing /\ Above(counter.value, counter.ceiling, CriticalPct) =>
               counter.suppressed

\* The wallets read while the private loop reads come from its own socket.
BalancesAreOfThisSocket ==
    Listening(Private) /\ balances # Nothing => line[Private].snapshot

\* A gap is reported only when this stream skipped a frame, and a skip goes
\* unreported only where the detector cannot see it: at the first frame it ever
\* observes, or while the stream of this socket, numbered anew, is not yet past
\* the watermark its predecessors left.  No reconnect resets that watermark.
Blind(l) == IF l.found = Nothing \/ l.found < 1 THEN 1 ELSE l.found
GapsAreReported ==
    /\ line[Private].gap => line[Private].skipped
    /\ \A q \in line[Private].unreported : q <= Blind(line[Private]) + 1

\* What a loop takes for true, of its channels, its pairs, a maintenance, its rate
\* counter and its wallets, it learnt on the socket it reads, however many sockets
\* were lost before, some of them in the middle of a restore.  The watermark of
\* the gap detector is the one thing it carries from socket to socket, and what
\* that costs is bounded.
BelievesThisSocketOnly ==
    /\ TypeOK
    /\ SubscribedOnThisSocket /\ GateCoversRestore
    /\ ReadyIsHeardHere /\ MaintenanceIsOfThisSocket
    /\ SuppressionFollowsTheCounter /\ BalancesAreOfThisSocket /\ GapsAreReported

\* The documented promise, "sequence tracking resets on each new subscription":
\* a loop that reads a new socket compares nothing with the socket before it.
WatermarkIsOfThisSocket ==
    Listening(Private) /\ lastSeq # Nothing => lastSeq = line[Private].seq

\* No 5m candle reaches the pipeline while a shard is being restored.
NoCandleWhileRestoring ==
    [][routed' => \A d \in Shards : inProgress[d] = Nothing]_vars

\* A loop always comes back to reading an open socket: a line that is lost,
\* stalled or mute is noticed, the reconnect it needs comes to its end, and
\* the shards that wait for the same tokens do not starve each other.  Stated
\* for the connection that is built last.
LastBuilt == IF Private \in active THEN Private ELSE CHOOSE c \in active : \A d \in active : d <= c
KeepsListening ==
    [](stage = "run" => <>(\/ stage = "ended"
                           \/ Listening(LastBuilt) /\ line[LastBuilt].state = "open"))
================================================================================
