# TothBot V2: TLA+ verification project

TothBot V2 (`src/tothbot`) is an asyncio trading bot for Kraken. It reads
market data over several public WebSocket shards, classifies regimes, runs
daily entry candidates through a gate pipeline and manages the resulting
positions: synthetically in paper mode, over one private WebSocket in live
mode. This directory models the parts whose correctness depends on ordering,
failure, shared state or exact arithmetic, checks them with TLC and proves the
central results with TLAPS. `PROJECT.json` lists components, runs, mutants, the
map from definitions to source lines, hazards and theorems.

    tlc -workers 2 -config live_assembled.cfg MCWSManagerLive
    tlapm WSManagerLive_proofs.tla

Contents: 1 inventory, 2 plan, 3 modules and code, 4 runs, 5 bounds, 6 fairness,
7 proofs, 8 only model-checked, 9 abstractions, 10 not modelled, 11 known gaps.

## 1. Inventory

One event loop runs everything (`pipeline/operational.py` gathers the public
loops, the private loop and the schedulers, and re-raises the first exception:
an exception that leaves a loop ends the process). Code between two awaits is
atomic. What interleaves does so at awaits: REST calls, socket sends and
receives, waits for tokens, locks and cancel ACKs, and `asyncio.ensure_future`
tasks, one per candle frame.

| component | state | operations | interacts with | hard behaviour | what makes it correct |
|---|---|---|---|---|---|
| Position Mirror (`exchange/position_mirror.py`) | open positions by symbol | apply_execution, close, restore_from_snapshot | written by WS_Manager only | fills, restores and gap closes in any order | one position per symbol; it holds what the account holds |
| WS_Manager, live (`exchange/ws_manager.py`, `outbound.py`) | mirror, dispatch semaphores, pending orders, entry fees, MAE marks, queued stops and exits, exit stamps, HELD set, cancel ACKs | dispatch_entry, record_execution, handle_ticker, on_regime_classified, dispatch_live_exit, drive_after_batch, on_reconnect_gap_close | called by the pipeline, the public loops and the private loop; sends orders | cancel-then-sell waits for ACKs while ticks, fills and drops go on | one TRADE_CLOSE per position; never two closing orders, nor a close next to a stop; nothing of a closed position survives it |
| Private connection (`exchange/private_ws.py`) | token, last snapshot, balances, rate counter, sequence watermark | subscribe, ingest executions, balances and order responses, reopen, restore the mirror | Kraken; WS_Manager | drops lose requests and frames in both directions | each gap close is booked once; nothing of the old socket passes for news of the new one |
| Receive loop and reconnect (`receive_loop.py`, `reconnect.py`, `reconnect_driver.py`, `keepalive.py`, `silent_pair.py`, `pacing.py`) | deadlines, attempts, maintenance flag, per-pair silence, bucket of tokens, in-progress flags | step, ping, judge silence, reconnect with backoff, restore in sequence | transport, coordinator, pump | a line is lost in the middle of a restore; several loops draw on one bucket | a loop reads only a subscribed socket; no candle is committed while a shard is restored; every loop comes back to reading |
| Exit Controller and orders (`execution/*`) | none | the close sequence (sec 12.5), order building | record bus, ledger, semaphore, selection state | a sequence of ten effects that must stay one | a close does all its steps once |
| WS_Manager, paper (`ledger.py`, `paper_fill.py`, `paper_exit.py`) | two wallets, retained fees, high-water marks | synthetic fills, L2/L3 exits, regime exits | Exit Controller, pipeline | several exit layers race for a position | wallets and records agree; cash is never overdrawn |
| Candle chain (`candle_close.py`, `ohlc_aggregate.py`, `daily_decision.py`, `warmup.py`, `pipeline/live_driver.py`) | candle in progress, hour and day buckets, 1H and decision caches | observe, fold, fold_hour, heal from REST, trigger entries | public shards, REST, pipeline | frames lost in reconnects; heals answer later than further candles | each bar counted once, after it ended; entries on crosses only |
| Gate pipeline (`pipeline/*`) | none of its own | gates from pair status to position sizer, order | mirror, semaphore, wallets, caches, parameter store | acts on state other tasks change; several parts price the same risk | the R:R floor holds at the worst fill; one 1R basis for gate, stop and exit |
| Portfolio and equity reconcile (`pipeline/portfolio.py`, `equity_reconcile.py`) | offset of the short equity | current_portfolio, reconcile_once | REST, balances, mirror | measured before an await, compared after it | a clean poll lands on Kraken's own equity; after it only the rollover misjudged is wrong |
| CIATS (`ciats/*`) | outcome pools, regime buckets, monitors, corpus, PDCA engine, staged requests, parameter store, approval inbox | on_close: ingest, Kelly, drift scan, PDCA, boundary | record bus (closes), operator | several requests staged, answered in any order, gated by an interval; statistics on thresholds | no write without its approval; one write per approval; writes spaced; conclusions are those of the trades |
| Regime engine (`regime/*`) | indicator windows, RegimeCache, rewards | step, classify, daily compute | candle chain, REST | thousands of incremental steps; one pair fails in a round | incremental is batch; every symbol has its newest good answer |
| Perp wallet (`perp/*`) | two pools, breaker, realized peak | candidate, realize, pause, halt | replays in `scripts/` | gaps, liquidations, limits at their boundary | a pool can pay for all it holds; a rolling pause lifts |
| Recorder (`recorder/*`) | streams, trade file, snapshot file, last told periods | emit, append, alert, pull, snapshot | record bus, mail, disk | death, refused append, failing mail between two steps | reports name what closed since the start and stay true; what the file lacks is accounted for |
| REST client (`rest/*`) | slot, lock, penalty | acquire, penalize, call | every phase of the start, heals, token | many callers, penalties from a sleeping caller's side | calls are paced, penalties served, nobody hangs |
| Start-up (`app/*`, `pipeline/operational.py`, `exchange/warmup.py`) | universe, warm-ups, regimes, liquidity | derive the universe, screen, warm, compute, probe, assemble | REST client | answers fail in any order and phase | a failure costs its own pair or ends the start, nothing else |
| Caches, transport, config, scripts | last values; sockets; constants | - | - | I/O | - |

## 2. Plan

The order of the work, the most important behaviour first. Done:

1. **Live order path.** `PositionMirror`, `KrakenPrivate`, `WSManagerLive`,
   with the abstract `PositionLifecycle`.
2. **CIATS loop.** `CiatsConductor`.
3. **Paper path.** `PaperPath`, which implements the same lifecycle.
4. **Candle chain.** `CandleFold`, one pair.
5. **Connections.** `ShardPlan` and `Connections`: receive loops, keepalive,
   silence, pacing, reconnect driver and coordinator, and what the private
   connection keeps.
6. **Entry decisions.** `EntryGates` (the gates as operators) and
   `EntryDecision` (the gates with wallets, positions and CIATS writing).
7. **Perp pools.** `PerpWallet`, with their solvency as theorem.
8. **Records.** `Records`: trade file, alerts, reports, snapshot, restarts.
9. **Numbers.** `Indicators`, `RewardReplay` and `MarketView` (regime engine),
   `Statistics` and `Learning` (CIATS), `RestClient` and `StartUp` (cold start),
   `EquityReconcile`.
10. **Proofs** of every invariant and action property the runs check, the statistics
    of CIATS last.

Left, in this order:

11. `Connections` as an implementation of the down/up of `CandleFold` (`Drop`,
    `Restore`).
12. The account-side start of live mode (baseline capture), the layout of reports.

Each question keeps one run and each run few properties. A property that has
several named parts is their conjunction, and each part is described, and has a
mutant of its own, at its definition.

## 3. Modules and the code they model

**PositionLifecycle** is the promise: positions are opened and settled, one
record each, and a side's semaphore is locked in between. Its state is not in the
code; `WSManagerLive` and `PaperPath` map theirs to it.

**PositionMirror** holds operators on a store value (`FillAction`, `ApplyFill`,
`Restore`, `GapClosed`): the branches of `_handle_fill` and
`restore_from_snapshot`. A position keeps side, opening order, quantity,
whose entry snapshot it carries, and a serial number `nth` that only properties
read.

**KrakenPrivate** is external: orders sent, resting, filled, refused, killed,
cancelled; execution reports queued to the client in order; a connection that
drops. It is built from the requests `execution/*` sends and the frames
`private_ws.py` reads.

**WSManagerLive**: the actions by who runs them.

| actions | code |
|---|---|
| `DispatchEntry` | gates G5, G7 CHECK 4, `dispatch_entry`, the pending order registry |
| `HandleTicker`, `RegimeExit`, `LimitOnlyExit`, `ClearHeld` | synchronous handlers of the public loops and `_enqueue_live_exit`; the operator's clear |
| `FillOpens`, `FillUpdates`, `FillCloses`, `ReadCanceled`, `ReadResponse`, `ReadSnapshot` | one private frame: ingest, mirror, on-fill stop, `_drive_live_close` with the Exit Controller's steps |
| `IdleTick`, `PlaceEmergSl`, `StartExit`, `ExitsDrained` | `drive_after_batch`: stops first, then exits |
| `AckTimeoutRetry`, `HoldAmbiguous`, `SendMarketClose`, `SendLimitOnlyClose`, `DeferNoQuote` | `dispatch_live_exit`, sequence I-6 |
| `ProbeAccepted`, `ProbeRejectedRetry`, `HoldMppExhausted` | the C-1 reject probe and its retry |
| `BeginReconnect`, `Reopen`, `RestoreMirror`, `EmitGapClose`, `RestFails`, `RestoreDone` | reconnect driver, restore, gap closes |

`pc` is where the private loop is awaiting; the tasks of the pipeline and the
public loops act at those awaits only. `exits` is the one place between two
actions with no await, so nothing else is enabled there. `OwnReader` says
whether private frames are read while the driver waits: false in the bot as
assembled (the loop that would read them is the one waiting), true for the edges
the tests inject.

**ShardPlan** is `sharding.py` (the division of the universe), the subscribes of
`assembler.py` and the restore sequences of `reconnect.py`. **Connections** runs
one loop per connection over it:

| actions | code |
|---|---|
| `Build`, `Subscribe`, `Run` | `assembler.py`, `private_ws.py`: open, subscribe each channel against the bucket of `pacing.py`, start the loops |
| `Loop` | one iteration of `receive_loop.py`: zombie, pong and silence checks, then a frame by its class or a timeout |
| `Drive` | `reconnect_driver.py`: choose the scenario, sleep, connect, restore step by step, start over when the line is lost again |
| `Tick` and what the line does | time; acknowledgements, data, maintenance notices, losses, stalls, silence |

A `line` is the outside of a connection: what it was asked, answered and told.
The properties compare it with what the loop believes.

**EntryGates** are the gates from the pair's status to gate:G8 and the sizers of
order, quantity, limit and resting stop, as operators. **EntryDecision** draws a
feed (what caches, regimes and folds serve), runs the cycle of the 24h decision
route or of the 5m sweep, fills at or above the quote, closes at any quote, and
lets CIATS write parameters and disallow regimes in between.

**PaperPath**: an entry (`Enter`) and a close (`TickBreaches`, `TickStops`,
`RegimeExit`) are one step each, since neither suspends; `TickHolds` marks the
high-water only. `Close` is the whole sequence of sec 12.5: credit, record, mirror,
fees, mark, selection state, semaphore, ticker trigger.

**PerpWallet**: `Candidate` is one entry candidate of a replay (realize what is
due, collision filter, both tiers of the breaker, open), `Realize` an exit that
falls due, `Bar` the clock, whose passing ages the realizations the rolling peak
looks at.

**CiatsConductor**: `on_close` as a sequence of steps (`IngestClose`,
`StageKelly`/`SkipKelly`, `ScanDrift`, `PlanStopWidth`, `PlanEntryFilter`, then
one `Resolve` per staged request, `EndClose`). Between closes the operator
answers requests (`Submit`). PLAN, DO and CHECK run together (`RunPdca`). Its
statistics are choices. **Learning** is the other half: what those statistics are,
over a corpus of trades (`OnClose`), with **Statistics** as its operators.

**CandleFold**: `Frame` is one ohlc frame with everything `on_ohlc_5m` does before
its first await (indicators, corpus, fold, 1H step, fold_hour, decision, entry
trigger); `HealHtf` and `HealDecision` are what follows the REST await. `Drop` and
`Restore` bracket the time frames are lost or discarded, `Tick` is Kraken's clock.
It counts bars; **Indicators** computes with them, and **MarketView** keeps the
numbers (`Warm`, `Commit`) and runs the daily compute (`StartCompute`,
`ComputeOne`, `ComputeFails`), with **RewardReplay** for rewards and viability.

**RestClient** is `RestRateLimiter` and the classes of answers: `Ask`, `TakeSlot`
(the lock), `Send`, `Hear`, and `RestTick` with a wake-up that may be late.
**StartUp** is what calls it, phase after phase.

**EquityReconcile**: `PollStarts` and `PollAnswered` are the two halves of
`reconcile_once` around its await; a trade's fill and its balance are two frames, and a
block of four hours is charged by Kraken (`BlockCharged`) and counted by the bot
(`BlockCounted`) each on its own clock.

**Records**: `Close` appends to corpus, stream and trade file (an append may be
refused or cut), `Tick` (`TickDelivers` when mail is answered) is the pull scheduler's
tick, `Crash…` the places where a death leaves something half done, `Restart` the
empty memory after it; `earlier` remembers how many closes it cannot know of.

**Series** is what the code takes of a list: `Total`, its sum, and `Kept`, what a
comprehension with a condition leaves of it, in its order, are functions along the
length, so that the modules that use them can be proved about; `OrderStatistics`, the
list sorted, is a count of what is up to (`UpTo`) and below (`Below`) each value.

MC modules hold the values that a cfg cannot write. The `_proofs` modules hold the
theorems of the component they are named after. Besides, `Transport_proofs` has those of
the connections, the REST client with the cold start and the equity reconcile,
`CandleFold_proofs` those of the market view, `CiatsConductor_proofs` those of
`Learning`, `PaperPath_proofs` those of the perp pools, and `Series_proofs` the lemmas on
sums, counts and sorted lists that the others cite. Four MC modules run parts that
share nothing side by side, one in each behaviour (`part`), while the others stand in an
initial state: `MCPaperPath` the paper path and the perp pools, `MCCiatsConductor` the
loop and `Learning`, `MCCandleFold` the folds and `MarketView`, `MCConnections` the
connections, `StartUp` and `EquityReconcile`. The count of states is then a sum.

## 4. Runs

| run | module | states | what it asks |
|---|---|---|---|
| `live_assembled` | MCWSManagerLive | 0.75M | the live path as assembled, two symbols, a steady connection and every refusal: types, nothing inherited by the next position of a symbol, close reasons that name the order that filled |
| `live_drops` | MCWSManagerLive | 1.3M | two drops that lose any requests and frames, partial fills, REST restore: each position closes once, its live state is its own, and the path implements `PositionLifecycle` |
| `live_injected_edges` | MCWSManagerLive | 0.58M | frames read while the driver waits, so that market closes, retries and HELD exits occur: no close next to a stop, one closing order, the mirror is the account, an open position goes bare only by the lapses the code has no answer to |
| `live_progress` | MCWSManagerLive | 0.18M | one symbol, one drop, under `FairSpec`: queued exits are taken, stops are sent, exit attempts end, dropped connections are replaced |
| `ciats_loop` | MCCiatsConductor | 0.47M | writes only on an approval, once, spaced; answers are kept until used, but for a gated Kelly size; what CIATS computes of its trades is what their definitions say |
| `ciats_candidate` | MCCiatsConductor | violated | the change written is the change approved: it is not (section 11) |
| `paper_path` | MCPaperPath | 0.25M | wallets and records agree, no overdraft, heat is of the hold, implements `PositionLifecycle`; for the perp pools no price costs more than the margin, pools can pay for all they hold but for the charges, no base on both sides, a rolling pause lifts |
| `candle_fold` | MCCandleFold | 1.34M | the corpus is the stream, bars seen are counted exactly once, aligned buckets are closed or surfaced, entries are on crosses; indicators, regimes and rewards are those of a batch computation |
| `connections` | MCConnections | 0.37M | nothing a loop believes but the watermark is of a lost socket, no candle passes during a restore, every loop comes back to reading; the cold start ends sound or dies, its calls paced; the equity reconcile lands on the account |
| `stale_watermark` | MCConnections | violated | the gap detector starts anew on each socket: it does not (section 11) |
| `entry_decision` | MCEntryDecision | 0.26M | gates, order and stops agree while parameters are written; losses stop the wallet and the symbol that keep losing |
| `records` | Records | 0.20M | reports name the closes of this run of the process and stay true; what is missing from the file is accounted for; the period a scheduler's key stands at is told before it moves on |

The properties are described at their definitions. A few words on the ones that
say more than they seem to:

- `EveryPositionClosesOnce` counts records per opening. Three code paths can
  reconcile the same position: the close fill, the snapshot frame after a
  resubscription, and the restore step with its record emitted one await later.
- `NothingIsInherited` is over three things `ws_manager` keeps by symbol next to the
  mirror (HELD, exit stamps, the entry registry), none of which is cleared where
  the position is.
- `WalletMatchesRecords` relates each wallet to the sum of net P/L over all
  records it ever emitted, so an error in fee retention of any past close shows.
- `HeatIsOfTheHold` compares the recorded heat with a history variable that sees
  every quote of the hold. Only the tracked mark is the code's.
- `EachBarOnce` is two halves: `CountedOnce`, at most once, and `SeenIsCounted`,
  at least once and for good, although a heal's answer replaces a cache that has
  stepped on since the call was made.
- `AwaitingIsStaged` says that the request the operator can answer for the engine's
  candidate exists and is the newest, the condition under which approving is safe.
- `StaysGuarded` is about what answers for an open position: its stop, resting or on
  its way, a closing order, the driver on its way to one, a HELD marker, a close not
  yet read. A stamp is none of these. The lapses it excepts are the steps after which
  the code does nothing (section 11); all of them happen in the run.
- `OnlyOnApproval` says of which request the written change is a proposal: for a
  Kelly size the approved one, for a PDCA change the approved one or a newer one.
  `OnlyTheApproved`, the same for the approved one alone, is what the docstring says
  and what `ciats_candidate` refutes.
- `BelievesThisSocketOnly` compares what a loop remembers with what the
  present socket was asked and said. The hard case is a line lost in the middle
  of a restore: half of the sequence has run for a socket that is gone. The one
  thing carried over is the watermark. `GapsAreReported` bounds what that hides: a skip
  goes untold at the first frame the detector ever sees, or while the numbers of this
  socket are not past the watermark it found. `WatermarkIsOfThisSocket` is the promise
  of reconcile.py, which `stale_watermark` refutes.
- `OrderKeepsTheGates` ties three prices computed by three parts: gate:G8's net
  loss, layer:L2's distance at the exit, the resting stop. It holds on the decision
  route because the driver overwrites the tuned multiple with its own.
- `LossesStopTheSide` is what the pause and the streak are for: over any run of
  losses a wallet opens nothing from its pause drawdown on, whatever it held when it
  was decided, and no symbol loses more often in a row than the limit. That the pause
  should lift again is not claimed of the code (section 11).
- `LossIsCapped` (in `PoolsAreSafe`) is against the margin a long as a short has
  posted, and of the price alone: the replay charges costs, slippage and funding
  without a cap. `Solvent` counts the liquidation of every open position at once, and
  sets aside what was charged since the pool last admitted one (`charged`). It rests on
  the breaker's exposure check, which no test relates to the margin.
- `ReportCoversTheRun` compares a report with the closes there were, not with the
  memory it is made from: it names those of its period since the process last started,
  all and no other, and stays right, although reports are cut by the candle clock
  and closes stamped by the wall clock. Closes before the start are not in it.
- `FileIsTheHistory` says what a reader of a year's file gets. A piece cut short
  costs the dashboard its own line and the next, and `load_trade_records` the year,
  since it raises. `FailuresAreReported` says which of these the operator hears of: the
  appends that raised, and no short one.
- `KeyedPeriodsAreTold` is of the period the scheduler's key stands at. One that the
  key passes over is never told; there is no back-fill.
- `WrongOnlyByTheRollover` is an equality that holds between polls as well: what is left
  of an offset after trades, blocks and other polls is the rollover misjudged, no more.
  Kraken's blocks and the bot's pass in steps of their own, and a position
  whose stamp is missing counts none.
- `IncrementalIsBatch` and `VerdictIsBatch` are equalities to the last digit, over
  every series of candles within the bound and every split into seed and steps.
- `EntersWhereItMayStay` compares the table of sides a regime admits with the table
  of regimes that end a hold.
- `BreachIsASlump` defines a CUSUM breach without the recursion: some stretch of
  consecutive trades fell short by more than the limit.
- `PenaltyIsServed` allows exactly one call during a penalty: the one that was
  asleep with its slot when `penalize`, which takes no lock, moved the next one.

Deadlock is checked in `connections` and `stale_watermark`, for the cold start: only its
other parts, once over, may rest. `StartNeverHangs` says
why the cold start does not stop: whatever is in the client's hands is awaited by a
task or a warm-up, and while warm-ups last one of them sleeps or waits. Elsewhere
every behaviour of a bounded model comes to an end, and in the live model and the
connections an exception may end the process, as it does in the code. That nothing
hangs there is `live_progress` and `KeepsListening`.

Every property has a mutant: a definition of the model with the change a plausible
bug would make (a semaphore not released, the interval one close short, the cache
read after it is advanced), which TLC then refutes. Where a property has parts,
`PROJECT.json` lists a mutant for most parts.

## 5. Bounds

- Live: two entries (a symbol that is reopened, or two symbols at once), one
  operator clear, at most two drops, fills in one report or, with drops, in a part and the
  whole, one MPP retry. Every cross-position hazard needs a first position that leaves
  something behind and a second that meets it; two entries give both. Two drops
  cover a drop during the restore of the first. `LossLimit = 2` lets a symbol be
  entered after one loss and be refused after two. Symmetry over symbols is used
  where the cfg names it: symbols occur only in sets and as function arguments,
  and it is not used with temporal properties of liveness.
- CIATS: a floor, cadence and interval of two or three closes, so each gate opens,
  closes and reopens in five closes; four requests, so three can be pending
  together.
- Paper: three entries over two long symbols and one short, quotes at which each
  exit layer fires and at which a later entry is refused by size, fees of a tenth so
  that rounding does not matter (`Fee` is exact at these prices, as it is to
  the cent in the code).
- Candles: three slots an hour, two hours a day, two days and the slot that ends them, two warm-up
  ends (on a boundary and off it), at most two slots whose last frame is not
  handled. Three slots give a first, an inner and a last slot; two missed slots can
  hit one hour or two, one day or two.
- Connections: three deployments, because what interacts differs. Two shards share
  bucket and coordinator, without losses; one shard loses its line twice, or
  stalls, goes mute, is refused, is announced a maintenance or cannot connect; the
  private connection loses its line twice, stalls, goes mute or skips a sequence
  number. Two losses put the second into the restore of the first. Every timer is
  one tick and ages stop at their threshold, so the order of deadlines is free. The
  bucket holds two tokens, fewer than a restore needs. Values of the rate counter lie
  under the warning share, between the two and above the critical one.
- Entries: three entries, so that a losing streak of two is followed by an attempt;
  two symbols on the long wallet and one on the short; seventeen feeds, one for each
  gate's refusal and the good ones of both sides; quotes that close with a win, a
  small loss, the L2 stop and a gap through both stops.
- Perp: two bases, a deposit of two clips and six kinds of trades, three of each
  base, so that a pool can win, be stopped, gapped, liquidated and crashed down to its
  halt while it holds a second position; a window of two bars.
- Records: months of two days, years of two months, four days, two closes of two
  modules, one drift or change, one fault. Any single fault may come at any step.
- Numbers: periods of two and three and up to eight candles of four kinds, so that
  averages are seeded, smoothed and past their first window; two rounds of the daily
  compute with six histories; five closes of six kinds of trades; three listed symbols,
  six settings and two bad answers; two trades, two polls and one block of rollover.
  The critical values of the statistics (`ZSquared`, `RhoSquared`, `TSquared`,
  `HSigma`) are smaller than the code's, because with five trades the code's are never
  passed; the tests themselves are the code's.

The proofs do not depend on any of these values.

## 6. Fairness

- `live_progress`: `WF_vars(Loop)`, the private loop takes a step when one is
  possible, and `SF_vars(BeginReconnect)`. The first is what asyncio gives a
  coroutine: it is scheduled once its future is ready, and every wait in the loop has
  a timeout (`recv`, the cancel-ACK poll, the reject probe), whose expiry is one
  of the steps. The second is the check at each iteration: pong and zombie deadlines
  are compared every time the loop comes around.
- `connections`: weak fairness of the clock and of each loop's and driver's steps,
  as above; strong fairness of `Subscribe`: a task that waits for a token polls the
  bucket, and one of the infinitely many times it finds one before the others do.
- `paper_path`: weak fairness of the perp clock: bars come, and an exit that is due is
  realized.
- `records`: `WF_vars(TickDelivers)`: candles go on closing, and a mail server that
  failed answers in the end.

Nothing is assumed of Kraken, which may never answer, of the public loops beyond
the above, or of the operator.

## 7. Proofs

Every theorem is for all values of the constants that satisfy the named ASSUMEs of
the modules. In words, they say: bounds are naturals and None is no value of any
type; periods, intervals and capacities are positive; the universe lists a pair once
(`PlanAssumption`); an hour has more than two slots and a day more than one hour;
the paper bot and the decision route never trade one symbol on both sides
(`PaperAssumption`, `DecisionAssumption`); what a feed serves has positive prices
and numbers that the sizer's eight decimals hold (`FeedAssumption`); a candle has a
positive close and a high not under its low, the short average is not longer
than the long, a quantile is a share (`PeriodsArePositive`, `DecisionPeriods`,
`CandlesAssumption`); a perp trade exits no worse than its worst move, and a stop
that is not gapped through fills (`TradesAssumption`). Where a result needs more, the theorem has it as a hypothesis
(`ASSUME ... PROVE`), and section 11 says what happens without it.

**Live path** (`WSManagerLive_proofs`). `TypeCorrect` is inductive alone. For the
rest, a step is first reduced to what it does to `Owed`, the positions in the mirror
or set aside by a restore: it opens one, refreshes one, settles some, or keeps all
(`OwedStep`). The strengthening is `Reconciling`: each position sits under its
symbol, a symbol set aside is not open, and positions are set aside only while the
loop reconciles. Without it a frame could close a position again whose record is
still pending. Then `NthIdentifies` with `EveryPositionClosesOnce` is inductive, and
`SemaphoreSound`, `LiveStateSound` and `RefinesLifecycle` follow from the shapes of a
step. These hold under every fault of the model.

The other half of the path is about what is at Kraken: whether two orders of one
position can be out together, and whether one without protection can exist. It is
true while the line holds. `SteadyLine` says no drop, orders filled in one report,
long entries (the mode the bot is assembled in); each part is needed, as section 11
shows. `Steady` then follows one symbol through its life (`Life`: flat, entry out,
fill on its way, position with at most one order out, closing fill on its way),
and the exit through its own (`Exits`: what an ACK in hand, a stamp, an answer or the
driver's job says of the orders at Kraken at each await). Of it follow:

- `NeverSoldTwice`, `NeverClosedTwice`, `MirrorIsTheAccount`: the three invariants of
  `live_injected_edges`, with frames read at every await of the driver;
- with `~OwnReader`, as assembled, `Attended` (the driver's wait leaves its position
  alone), and of it `NothingInherited` and `ReasonsAreOfTheOrder`;
- `ProtectionLasts`, for frames read at the driver's awaits or not and every refusal:
  a position stays guarded through each step that is not a lapse. It needs that a cancel
  under way is watched (`CancelsWatched`): by the driver, by a HELD marker, or by an
  operator who cleared one. Then each guard hands over to the next: the queued stop to
  the resting one (`HoldingLasts`), the stop to the driver that takes it away
  (`DriverGuards`), the driver to the closing order or to HELD (`DrivingEnds`), the order
  to the report of its fill (`OrderGuards`, `FillGuards`).

**CIATS** (`CiatsConductor_proofs`). `WritesAreSpaced` is a fact about the log; the
gate reads `lastChange`. `LastChangeIsLogged` ties them. `WrittenOnce` needs that a
logged request is one asked for and no longer pending (`WritesAreResolved`). A step
waits, stages or resolves (`StepShapes`). `BillDecides` is the action property: a write
uses up the approval of the request it is for and is the proposal of that request or,
for PDCA, of a newer one, which follows from `AwaitingIsStaged`; and no approval is lost
but a Kelly size's within the interval.

**What CIATS learns** (`CiatsConductor_proofs`, second part). `LearnsFromTheTrades` has nine
parts, and its inductive invariant is `LearnInv` (`TotalsAreOfTheCorpus`): the pool, and the
bucket of each regime, hold the totals of the trades that belong to them (`Counted`); the EWMA
is at the end of a run over the corpus, and its counter says how long it has been out
(`EwmaRuns`); what was reported is what the corpus says (`Concluded`). `Counted` is more than
`Recount`, which speaks of the gain less the loss: there is a loss exactly if a trade lost,
a win exactly if one won, and the gain is no less than the number of wins. The rest is about
the statistics, whatever the sample:
`U1CountsPairs` (a sum of ranks counts the pairs that one sample wins, ties half),
`PassingWinsMore` and `NotAboveFails` (what passes Mann-Whitney wins more pairs than it loses, and a
sample that is nowhere greater never passes), `MedianSplits` (half or more is up to the median,
half or more is not below it), `ArmIsTheWorstStretch` (the arm of CUSUM is the deepest stretch that ends
there), `PartBeatsTheRest` (if a part of a list beats the whole, it beats the rest) and
`EdgeSign` (Kelly's fraction is positive exactly if the pool made money). What goes along a
list is by the least place at which it would fail; pairs are counted by rows and columns.
`LearningAssumption` says that results and levels are whole numbers and that the registry's
counts and limits are natural, its cadence and sample size positive.

**Paper** (`PaperPath_proofs`). `IInv` adds to the properties that an open position
is the subject of one log entry, that its wallet retains exactly its entry fee,
and that the mark is the worst quote of the hold. `EveryCloseIsBooked`: from before
its entry to after its exit a close moves its wallet by the net P/L of its
record. `WalletsAreTheRecords` is about the whole log: the lemmas on `Total` say
what appending an element, or replacing one, does to a sum, by the least place where
it would fail. `NeverOverdrawn` rests on `AdmittedIsAffordable`: what CHECK 2
admits is at most the balance.

**Candles** (`CandleFold_proofs`). `IInv`: what is in the buckets has ended, the buckets do
not run ahead of the detector, the detector is ahead of what was stepped, both
levels are resolved, and heals ask for the past. The lemmas on `Fold` (`FoldRolls`,
`FoldGrows`, `FoldResolves`) are stated once for both levels and any bucket size.
Hours are counted once because of `_stepped60`; the daily cache has no such guard.
There the proof needs the timing: a heal is answered within a slot of its call,
and an hour has more than two, so no answer meets the end of another bar. That and
what the EMAs have counted is `JInv`; of it follow `EveryBarCountedOnce` (both halves of
`EachBarOnce`) and `GatesRunOnTheCross`.

**Market view** (`CandleFold_proofs`, second part). Nothing in the library proves by induction over
a list, so each recursion is a run of values indexed by place, and a claim about it
is shown by the least place at which it would fail (`LeastMember`, `Induction`).
`NumbersAreExact`: `CandlesInv` says that the running numbers are the batch of the
bars so far; an average stays between bounds because a step of it does
(rounding included); the k-th value is found by counting, so the number of gaps over a
cap is what its quantile says. `WhatIsKnown`: `RegimesInv` (each symbol has the regime of
its newest good answer) and `RewardInv` (and of each regime the newest reward); the replay of a
longer history has the holds of the shorter one that had ended (`HoldsLookBack`); a
selection by counting who is better takes as many as there are places (`Ranked`).
The proof found that two arms of the CASE in `PermittedSides` overlapped; the
definition is now the table of taxonomy.py.

**Perp** (`PaperPath_proofs`, second part). The four parts of `PoolInv` are inductive only
together. `MarginIsOfTheClip` and `RealizedIsCapped`: whatever the move and the gap, the price
takes at most the margin posted, since a position is liquidated before it could take
more, and a long is committed with its whole clip. `PassIsFunded`: a candidate that passes both tiers leaves the pool with
a unit for each position it then holds, because the breaker's exposure check
counts the ones already open. `RealizeKeeps` and `CandidateKeeps` then keep the sum
of units under the equity and the charges since, whatever the order of exits. Nothing is
assumed of the size of a charge.

**Connections** (`Transport_proofs`). `SocketsInv` says of each connection where its
task is in the restore sequence (`ControlInv`), that the subscribes sent and those
still to be sent are the connection's (`SentInv`), and that what it remembers to have
heard was heard on this socket (`HeardInv`); and of the private feed that the
watermark is the one this socket found or what it has passed it with (`WatermarkOn`), that
what a reset forgets is forgotten, and that the latch of the rate counter agrees with its value and ceiling (`FeedInv`). Of it
follow `LoopsBelieveTheirSocket` and `CandlesWaitForTheRestore`.
`EveryPairOnOneConnection` is a fact about `sharding.py`'s division, for any
universe and any size.

**REST** (`Transport_proofs`). `RestInv` says that the slot a sleeping caller holds,
and the next one to be given, lie no earlier than the pace allows
(`SlotKeepsThePace`) and, unless the caller was pardoned, than the penalty ends
(`SlotServesThePenalty`). The client alone keeps it (`RestStepInv`), and
`StartUsesTheClient` shows that every step of the cold start is a step of the
client or leaves it alone; so would any other user of it.

**Cold start** (`Transport_proofs`, last part). `ColdStartInv` is about who holds what
between two awaits: each call sleeps for its slot or is in flight, once (`CallsInv`);
what the client holds is what somebody awaits (`HandInv`); the stores and seeds of a
symbol are those of its own answers, whatever failed elsewhere (`TasksInv`,
`AnswersInv`); a phase ends when all of its tasks have (`PhaseInv`); and the universe
holds as many symbols as there are places, chosen by counting who is better by
volume, then by score (`UniverseInv`), or is the pin, which no screen touches. It assumes that names are distinct and that
the anchor is one (`StartAssumption`). Of it follows `StartsSoundly`.

**Equity** (`Transport_proofs`). `EquityInv`: with no frame under way wallet and
position are the account's (`InStep`), a poll nothing raced is Kraken's equity of now
(`PollIsCurrent`), and an offset that no race spoiled is the rollover misjudged at its poll
(`OffsetIsTheRollover`). `OnlyRacesMisjudge` is the action property of the run.

**Entry decisions** (`EntryDecision_proofs`). `Inv`: semaphore, positions and wallets
belong together (`Filed`), and each position keeps the numbers its gates saw (`Kept`).
`FloorAndBasisHold` needs no more. `OrdersKeepTheirGates` is for `StopsAreOrdered`: CIATS does not
tune the emergency multiple, and it exceeds layer:L2's by what the rounding of a
price takes. `LossesAreStopped` is for `BarsUntuned`: CIATS, which may tune both limits,
has not; what passes gate:G7 on a flat wallet is above the pause (`PassedIsAbovePause`), and
what passes gate:G5 below the limit (`PassedIsBelowLimit`).

**Records** (`Records_proofs`). `Inv`: a close is on the stream and on the file or its
append is known to have failed (`Filed`), the corpus holds the closes since the last death, no
alert vanishes, everything is dated, and what was told is told (`Told`). A piece damages at
most its own line and the next (`DamageIsBounded`), so the damaged lines are counted by the
pieces. `RecordsSurvive`, `ReportsStayTrue` and `PeriodsAreToldFirst` follow.

## 8. Only model-checked

Every invariant and every action property of the runs is a theorem. What is not:

- Liveness: `WorkEnds` and `ReconnectEnds` (`live_progress`), `KeepsListening`,
  `PauseRearms` and `KeysCatchUp`, a part of `KeyedPeriodsAreTold` whose first,
  `ToldBeforeMovingOn`, is proved. `DaysAddUpToTheMonth`, another part, is checked only.
- That the cold start comes to its end: `StartNeverHangs`, which is proved, says that
  something is always awaited; that the run never deadlocks is TLC's.
- The live invariants of section 7 beyond their hypotheses: they are false there, by
  the gaps of section 11.

## 9. Abstractions

- Live: prices, timestamps and wording are left out; a breach, a win or a loss is a
  choice. The order in which queued exits drain is left open. A REST retry inside the
  restore changes nothing and is a stutter. A send over a dead socket may raise or
  vanish. Restated and amended execution reports change no modelled state.
- CIATS: in `CiatsConductor` the statistics are choices, and a candidate's value is
  named by the trade count it was derived at. `Learning` compares what the code
  divides in whole numbers, so a threshold is met or missed exactly.
- Paper: a quantity is one unit, so proceeds are prices. A quote is the side's
  realizable price. A restart is `Init`. Of the gates those that read the wallets,
  the mirror and the selection state guard the entry.
- Candles: one pair; a candle is its begin and whether it is whole; an EMA is the
  set of bars it counted, and its trend after a day is a datum of that day. A REST
  answer comes within a slot of the call (its timeout is seconds). `down` covers
  frames lost and frames discarded. Kraken's snapshot on subscription to ohlc is not
  modelled. What the gates say of a triggered entry is in `EntryDecision`.
- Connections: time is in ticks and a tick never waits for a loop; a frame is its
  class; what its handler does is in the other modules.
- Entries: dollars, cents, basis points, ten-thousandths of a coin, rounded down
  where the code has decimals of 28 digits. Exits are at any quote of the instance.
- Perp: cents and ten-thousandths. A realization nobody can read again is forgotten.
- Records: time is in days; a report is the set of records it is made from.
- Numbers: integers; a quotient is rounded down at every step, as Decimal rounds at
  its 28th digit. Time of the REST client is in units of its interval.

## 10. Not modelled

Reasons are under "components" in `PROJECT.json`. In short:

- signing, HTTP, JSON and decimal parsing, rendering of reports and mails, reading
  and validating configuration: data or I/O with no state that a property relates;
- the plain last-write caches, and the sockets themselves;
- the legacy branches the assembly switches off (1H reversals, ohlc 60m frames) and
  the wiring of `operational.py`, except for what it decides about the modelled
  parts, such as `OwnReader`, long-only entries and the order of start-up;
- the baseline wallets a live start captures; the candle record file;
- scripts: probes, host bootstrap and one-off analyses of data sets. The three perp
  replays are modelled, since they are the only callers of `perp/`.

## 11. Known gaps

What follows was met while modelling. Two are findings of their own, `ciats_candidate`
and `stale_watermark`; none of the rest is a property of a run unless said so.

Live path (not the enabled mode: `app/__main__.py` refuses it):

- `_default_cancel_ack_wait` polls `_cancel_acks` inside the only loop that fills it,
  so with the default edges every cancel ends in HELD; a docstring has "confirmed ->
  proceed". `live_injected_edges` is about the edges that tests inject.
- `restore_from_snapshot` compares with open orders, so a position whose stop was
  cancelled or not yet placed is taken for closed, while the account holds it.
- A send that raises TransportClosed in `_pump_after_batch` ends the private loop,
  although outbound.py says that the receive loop catches it.
- A second fill frame of a closing order opens an opposite position; the mirror
  does not compare order ids. `MirrorMatchesAccount` is therefore checked with one
  report per close.
- A gap close drops fee, mark, queued exits and HELD, but neither the exit stamp
  nor the bbo trigger, so a reopened symbol can find its exits skipped.
- "NEVER an open live position with no resting emergSL" (ws_manager.py:907-908) does not
  hold. A limit-only exit cancels the stop first; without a quote it is then
  deferred (ws_manager.py:972-981), and if its close expires its stamp is left
  (986) and every later exit of the position is skipped until it closes. A stop that
  Kraken refuses, or a market close refused once the driver has left, is
  not sent again either. `StaysGuarded` names these steps (`Lapse`).
- The semaphore is taken at the fill, so a second entry of a side can be dispatched
  before the first fills, and two positions be open on one side.
- A refused stop leaves the position unprotected and nobody is told; the stop is
  sized at the first report of an entry that fills further; a stop still queued at
  a gap close is placed for nothing.
- An entry filled during a gap is never known; a stop that fills while an exit is
  stamped is recorded under the exit's reason.
- With injected edges a HELD marker can be set after the position closed.
- `_pending_entries` keeps the snapshot of an entry that did not fill.
- query_orders is passed a cl_ord_id; open-order rows carry no "symbol";
  pair_status is never passed, so the AR-040 HOLD is unreachable;
  `clear_live_exit_held` and `gate_blocks` have no caller.
- A live restart begins with an empty mirror, whatever the account holds; with open
  longs the long baseline it captures is the spot USD only.

Connections:

- `transport.connect` raises OSError or TimeoutError, not TransportClosed: a refused
  reconnect is abandoned and the run ends, against "reconnection is NEVER abandoned"
  in reconnect_driver.py. `KeepsListening` therefore allows the run to have ended.
- `ReconciliationTracker.reset` is never called on a reconnect, against "Sequence
  tracking RESETS on each new subscription" (reconcile.py:20-22): frames lost on the
  new connection go unnoticed until its numbers pass the old ones (`stale_watermark`).
- Each pair is acknowledged twice, once per channel; the second acknowledgement
  re-arms a pair that has data already, and a false DATA_PENDING can follow. A false
  ZOMBIE is possible at start-up. RESTORE_TICKER_TRIGGER does nothing.
- A dead line found by pong or zombie during an announced maintenance is treated
  as a random loss.
- The best quotes are not cleared when a shard drops.

Entries and paper path:

- The session pause is measured from a baseline that is never taken again, so a flat
  wallet in its drawdown does not trade again, against "PAUSE: this session stops,
  resumes next" (risk_guard.py:15-16, 75). A losing streak at its limit bars its symbol
  until a restart.
- The volumes of gate:G2 are those of the start: `stale_pairs` has no caller.
- CIATS's tuning of `mae_mult` reaches nothing on the decision route; on the legacy
  sweep route gate:G8 uses the tuned value and layer:L2 the seed.
- gate:G8's net loss is on the candle's close, so a fill below the close can lose
  more than 1R; the exposure check excludes the candidate; a wallet of exactly 0
  divides by zero in CHECK 2.
- An entry on the opposite side of an open symbol would close it in the mirror,
  credit the other wallet and leak the semaphore. The assembly is long-only, which
  `PaperAssumption` states.
- The equity of a short counts the sale proceeds twice in current_portfolio.
- An exception in CIATS while TRADE_CLOSE is emitted leaves a credited wallet, an
  open position and no line in the trades file. One source of it: `check_phase`
  raises ValueError for a cohort of one or without variance.

Equity of the short wallet:

- A trade, a tick or a frame between the fetch and the comparison leaves the offset
  wrong until the next hourly poll; between the two frames of a trade the short
  portfolio is momentarily wrong, and a drawdown tier can act on it. A fetch that
  raises ends the process. `EquityIsReconciled` excludes exactly these.

CIATS:

- `act()` applies the engine's current candidate, not the approved request's
  (`ciats_candidate`); a decision on a superseded request raises ValueError (`ActRaises`).
- An approved Kelly change inside the interval is dropped (conductor.py:513-515), against
  "KEEPS the request pending" and "stays pending WITH its decision so it retries"
  (conductor.py:485-486, 524-525). `AnswersAreKept` excepts it.
- CUSUM runs over the whole series, so it keeps breaching and plans again at every
  close; rejected requests stay pending; the store is in memory only; nothing calls
  `ApprovalInbox.submit`.
- A regime that never won has no payoff ratio and is never disallowed; an all-loss
  pool emits no KellyNegative. Loosening the stop can never pass CHECK and loosening
  a filter can never be evaluated. RSI bounds are sorted, so tuning the low one above
  the high one flips the zone. Rewards of a regime not held in lately never expire;
  a hold that has not ended counts for nothing. The assembly passes no EwmaMonitor.

Perp (no caller in the assembled system):

- The rolling peak sees realizations only, so a first fall from the deposit does not
  pause. A replay (tb00809) passes the candidate alone as total_committed. The cap
  covers the price only: costs, slippage and funding come on top (tb00806:163, 175), so a
  position can cost more than its margin, and a pool's cover shrinks by them.

Records:

- The rolling year of C6 ends before the month that just ended. A day skipped by
  the clock, or whose mail fails until the next, is never told: the scheduler tells the
  period of its key and moves to the present one (report_transport.py:170-172).
- A restart loses the last told period and the corpus: a report leaves out the closes
  of its period before the start. logger.py:22-23 and trade_record_file.py:224-226 speak
  of a cold start that rebuilds the corpus from the file; `load_trade_records_by_side` has no
  caller.
- A short os.write is ignored (trade_record_file.py:203), although the header speaks of a
  single write per record as atomic: the line is lost with no TRADE_RECORD_WRITE_FAILED. The
  next append is glued to it; load_trade_records raises on it (220-233), the dashboard skips
  it. smtplib's quit may raise after
  delivery, and the report is then sent twice. The file's year is of the write, the
  report's of the exit.
- Without a snapshot path an exception of the pull scheduler reaches the driver.

Candle chain:

- After a reconnect over the end of a slot the partial snapshot in hand is emitted as
  the closed candle.
- A healed hour is not passed to fold_hour, although its docstring says so: the day of
  any gap is not decided live, and its cross is missed.
- A bucket without its first slot is discarded as a start-up partial: the hour after
  an outage over its boundary, and the day of the start, are never counted.
  A bot restarted every day never decides.
- A slot without trades looks like a gap.
- The daily compute runs at start-up only; regimes are not refreshed.
- Elements of a multi-pair frame after an awaited heal are handled without checking
  HR-WM-012 again.

Start and REST:

- A transport exception in the warm-up, the daily compute, the liquidity probe or the
  volume screen is caught nowhere: one pair's timeout ends the start, against "one bad
  pair never aborts the gather" (warmup.py). Only the viability screen catches it.
- Two calls come closer than the interval by the lateness of a wake-up; one sleeping
  caller goes out inside a penalty (both are stated in `ClientIsPaced`).
- A start takes some four calls a pair, so the seeds are minutes old when the sockets
  open. The symbols of a pinned universe are not validated.
