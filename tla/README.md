# Verification of MSS: evidence, sessions and ledgers of the scanner

This directory specifies, model-checks and proves properties of the parts of the
Market Structure Scanner (MSS) that keep state across crashes: the Sprint 93
paired forward collection and the journals it writes to, the FIBO forward
supervisor, the shadow-live sessions and their safety runtime, the demo-forward
session with the broker behind it, and the accrual of the out-of-sample candle
ledger; and of the analysis of candles on which all their decisions rest. Source paths below are
relative to `src/mss/analysis/` of the repository; `PAF` abbreviates
`sprint93_paired_forward_activation.py`, `RUN`
`sprint93_paired_forward_runner.py`, `IDX` `indexed_shadow_trade_journal.py`,
`STJ` `shadow_trade_journal.py`, `FIB` `fibo_group_forward_supervisor.py` and
`SES` `true_oos_accrual_session_journal.py`; three programs of `integration_tests/`
are `ACC`, `run_sprint92h13_5_session_journal_recovery_guard.py`, which runs an
accrual, `LIV`, `run_sprint92h14_6_long_running_shadow_live_session.py`, which
runs a shadow-live session, and `DEM`, `run_sprint92h14_7_demo_forward_session.py`,
which runs a demo-forward session.

## 1. Inventory of the system

MSS reads candles and ticks from MetaTrader 5, finds structure (swings, BOS,
CHoCH, liquidity, gaps, order blocks), turns it into signals, and records what
two strategies, a *baseline* and a *candidate* that only filters it, would have
done in the market. Only the demo-forward session sends orders, to a demo
account, and mirrors what the broker confirms. What makes all of it hard is
that the evidence has to survive crashes of the process, and that a later
process may neither repair a decision with hindsight nor lose one.

| Component | State | Operations | Talks to | Hard behaviour | What makes it correct |
|---|---|---|---|---|---|
| Paired forward evidence collector (`PAF`) | paired evidence journal; one virtual position journal per pair and branch | collect a decision, commit an entry, resume a pending one, update a lifecycle, record a boundary authority, finalise a settlement | engines of the shadow trade component, indexed journals, MT5 snapshots | a crash between any two durable writes, replay with other snapshots, a two second entry window, an exclusive end | phases once and in order, journals agree, nothing is rewritten, a missed window stays missed |
| Boundary runner, lifecycle coordinator, supervisor (`RUN`) | runner lease, operations journals | bounded collection of one boundary, continuous supervision, recovery-only management | the collector, the clock, MT5 | missed boundaries, the end passing in the middle of a pass, trades that block the timebox | no backfill, all-or-nothing preflight, a complete final audit |
| Indexed evidence journal (`IDX`) | JSONL file, derived SQLite index, cached fingerprint, two locks | construct, rebuild, look up, append | shadow trade journal, SQLite | several views and plain writers, stale index, crash between line and row, torn line | the index never contradicts the file; reported appends stay readable; identities once |
| Shadow trade journal (`STJ`) | hash-chained JSONL file, lock file | verify, append inside an exclusive transaction | the file system | torn lines, a lock taken by another process | append-once, chained, damage is preserved |
| Shadow trade engine, position recovery | the position journals | open, recover, advance, close a virtual position | shadow trade journal | recovery of a position an earlier process opened | one open and one close event per position |
| FIBO forward supervisor (`FIB`) | its own paired evidence and operations journal | capture two feeds, decide, skip, rearm, pause, resume, finish | as the runner | a pause that spans a boundary, feeds that disagree, a clock ahead of the broker | each boundary is decided live or accounted for |
| True-OOS accrual ledger (`SES`, `ACC`) | chunks, manifests, reports, session files | accrue: preflight, start, retrieve, verify, write, finalise | the file system, MT5, time authority | a run killed between its files, overlapping runs | manifests match chunks, only later candles are added, sessions tell the truth |
| Shadow live session (`LIV`) | a namespace per generation of the program with one position journal per symbol; a position, anchors and feeds in memory | recover, gate on the predecessor, poll, monitor, arbitrate, open; import of a predecessor's position | portfolio risk, safety runtime, MT5, the operator | restarts on an open position, several generations of journals, imports next to sessions | one exposure over all generations, carried over at most once, monitored whatever inhibits an entry |
| Shadow live safety runtime | heartbeat (in the loop and in the telemetry), counters, safety state | heartbeat, watchdog, telemetry, supervise | the sessions, the monotonic clock | a stall hidden by blocked cycles, two copies of the heartbeat | a refusal costs a cycle and is counted once; the input stays valid; no stall goes unnoticed |
| Shadow portfolio risk | nothing of its own: recovered from the journals every time | recover positions and risk, aggregate, govern, compare with memory, inspect and stage a position for the next namespace | journals, the sessions | two recoveries of one journal that have to agree, restarts, a staged import that is not committed | what is recovered is what is open |
| Demo broker execution and reconciliation (`DEM`, `demo_broker_*.py`) | broker positions and orders, shadow position journals | restart gate, reconcile an offline closure, poll, send, confirm, mirror, close the mirror | MT5, portfolio risk, safety | a lost or misleading answer to an order, a death between order and mirror, closure while offline or before the broker's | no new order over exposure the session can see, nothing unmirrored survives a restart; one order per bar; closures taken from the right deal |
| Signals and time authority | none, or a small cache | evaluate candles, enter at the next open, judge clock readings | MT5, the sessions | the forming bar, stale readings | causality: no later candle is used; live and backtest decide alike |
| Market structure analysis | none between calls; a backtest keeps a pending decision, a trade and counters | find swings, structure, breaks, sweeps, order blocks, gaps, confluence; replay a history | signals, the backtest | sliding window, confirmation, signals that cannot be entered | confirmed swings stay, the window does not matter, signals add up |
| Kernel and personal edition | configuration | start up | everything | thin wiring | not a subject of this project |

`PROJECT.json` lists the same components with their files and status, and the
hazards with the line at which each one bites.

### How the modelled parts interact

A runner command takes the *runner lease*, opens the paired evidence journal as
an `IndexedShadowTradeJournal`, and drives a `PairedForwardEvidenceCollector`.
The collector writes a pair's decision, the entry intent (`entry_input`), the
position files of the two branches through the shadow trade engine, the entry
event, later a frozen terminal input, the closing of the position, the terminal
event, and finally the settlement. Those are separate durable writes to
several files; the process may end between any two of them. The next process
knows only what is in the files.

A demo-forward session reads the broker, recovers the position journals of all
symbols twice (by life cycle and by risk), compares the two sides, and polls. An
order goes to the broker, its confirmed position is written to the journal of
the symbol as a *mirror*; from then on broker and mirror are closed
independently, the mirror by polled ticks or, when the broker closed while no
session ran, by a reconciliation from the deal history.

A shadow-live session does the same without a broker, and its program has
several generations, each with a namespace of its own: it starts only when the
position its predecessor may have left open is closed or was carried over by the
operator's import. Every cycle of it asks the portfolio, the watchdog and
the runtime supervisor before it looks for candidates.

What a session or a collector calls a signal is the decision of one of two pipelines
over the completed candles: `SmartMoneyPipeline` is the baseline, its subclass gated by
confluence the candidate. `historical_backtest_engine.py` runs the same pipelines over a
history.

The FIBO supervisor captures both feeds at every M15 boundary, writes the
decisions of both symbols as one event of its evidence journal, and says in an
operations journal what became of each boundary.

## 2. Modules

| Module | Models | Role |
|---|---|---|
| `PairLifecycle` | what the collection promises about a pair | abstract specification |
| `PairedForwardEvidence` | collector, runner commands, clock and market | detailed specification |
| `MCPairedForwardEvidence` | | instances for TLC |
| `PairedForwardEvidence_proofs` | | theorems and proofs |
| `EvidenceLog` | what an evidence journal promises | abstract specification |
| `JournalFile` | a JSONL file: chain, newline, fingerprint, readers | operators |
| `IndexedShadowTradeJournal` | views, index, locks, plain writers | detailed specification |
| `MCIndexedShadowTradeJournal` | | instances for TLC |
| `IndexedShadowTradeJournal_proofs` | | theorems and proofs |
| `AccrualLedger` | what the True-OOS ledger promises | abstract specification |
| `TrueOosAccrual` | accrual runs, session journal, write-once store | detailed specification |
| `MCTrueOosAccrual` | | instances for TLC |
| `TrueOosAccrual_proofs` | | theorems and proofs |
| `ShadowPortfolio` | recovery of positions and risk, governor, continuity | operators |
| `MirroredExposure` | what demo-forward execution promises | abstract specification |
| `DemoForwardSession` | sessions, journals, broker, market, operator | detailed specification |
| `MCDemoForwardSession` | | instances for TLC |
| `DemoForwardSession_proofs` | | theorems and proofs |
| `SingleExposure` | what shadow-live execution promises | abstract specification |
| `ShadowLiveSession` | the session of 14.6, its journals, imports, market | detailed specification |
| `LivePolicySession`, `PortfolioRiskSession`, `SafetyGovernorSession` | the sessions of 14.5a, 14.5b.1, 14.5c | detailed specifications |
| `ShadowGenerations` | the four programs, one after the other | composition, properties |
| `ShadowGenerations_proofs` | | theorems and proofs |
| `MCShadowLiveSession` | | instances for TLC |
| `ShadowLiveRuntimeSupervisor` | heartbeat, watchdog and telemetry of a session | detailed specification |
| `ShadowLiveRuntimeSupervisor_proofs` | | theorems and proofs |
| `FiboForwardSupervisor` | one supervised run and two feeds | detailed specification |
| `FiboForwardSupervisor_proofs` | | theorems and proofs |
| `MarketStructure` | the detectors and both pipelines | operators |
| `LiveSignal` | the live path from bars to an entry | operators |
| `HistoricalBacktest` | a backtest, candle by candle | detailed specification |
| `MCHistoricalBacktest` | | instances for TLC |
| `HistoricalBacktest_proofs` | | theorems and proofs |

The collection and the journal meet in one assumption: `PairedForwardEvidence`
takes a durable append as one step that either happened or did not, and is not
lost once it returned. `IndexedShadowTradeJournal` is where that is examined:
`ImplementsLog` says that a reader of the journal sees an append-once log in
which every reported append stays.

### 2.1 PairedForwardEvidence: state and code

* `events[p]`, `eligible`, `actual`, `input`, `terminal` are the paired evidence
  journal. A pair is one symbol at one decision boundary. `events[p]` has the
  phases with a durable event; `eligible` is the frozen decision,
  `actual` the branches the entry event calls actual trades, `input` and
  `terminal` the instants of the frozen terminal input and terminal event.
* `pos`, `close` are the virtual position journals (a file per branch).
* `ledger` reduces the operations journals to what the commands ask of them: is
  there a trace of an earlier command, has the supervision finished.
* `mode`, `pc`, `queue`, `todo`, `at`, `arm`, `obs`, `opened` are the memory of
  the process that holds the lease. They are reset when it unwinds or dies.
* `now` is the UTC clock, `market` the time of the latest tick MT5 publishes,
  which may lag behind and is what a snapshot carries.

| Actions | Code |
|---|---|
| `StartSupervisor`, `StartCollector`, `StartManager` | the three commands of `RUN` with their start conditions |
| `CaptureBoundary`, `MissBoundary` | capture of the current bar of both symbols, refusal to backfill |
| `CollectDecision` | `collect_decision`: both engines, candidate implies baseline |
| `ResumePending` | `resume_pending_entry`, from the frozen decision only |
| `BeginEntry`, `RecheckWindow`, `FreezeIntent` | the deadline at the beginning of the entry, again in `pre_write_check` with the journal open for append, and the durable write of the intent (`IDX` 445-450), before which the window may still pass; a missed window becomes a no-trade entry |
| `OpenBranch` | `open_branch`: recover, open or be blocked, baseline first |
| `RecordEntry`, `EntriesDone` | the entry event; what each command does next |
| `Poll`, `Preflight`, `PreflightFails`, `NextBranch`, `CrossEnd` | the lifecycle coordinator's pass |
| `RecordBoundaryAuthority`, `Hold`, `FreezeTrigger`, `FreezeTimebox`, `ReplayTerminalInput`, `ClosePosition`, `AppendTerminal` | `update_lifecycle`, durable write by durable write |
| `FinalizeSettlement`, `SettlementsDone`, `PassDone`, `FinishSupervisor`, `ManagerDone` | settlement, final audit |
| `Stop` | a crash or an exception at any point of a running command |
| `Tick`, `MarketTick` | environment |

Prices, volumes, R multiples, hashes and manifests are left out: the instant of
a price stands for the price. Whether a stop or target is reached, whether the
risk calculator blocks a branch, and which branches a decision makes eligible
are free choices, so every outcome of the engines is covered.

Time is counted in instants, each of which stands for a period in which the
code's comparisons have one outcome: the two second entry window of `p` is
instant `EntryAt[p]`, the final M15 bar is `FinalBar .. End - 1`, and the
saturated instant `End` is everything from the exclusive end on.

### 2.2 IndexedShadowTradeJournal: state and code

* `file` is the JSONL file. An event commits to its predecessor by hash, so a
  line is modelled by the sequence of payloads it commits to; a line that is
  not one JSON object is `Garbage`. `stamp` is the fingerprint (size, mtime,
  inode); it changes at every write.
* `index` are the committed rows, `print[v]` the fingerprint a view believes
  they belong to, `rows[v]` the uncommitted rows of a rebuild.
* `flock` is the journal transaction (a second taker fails at once), `txn` the
  SQLite write transaction (a second taker waits).

`Construct`, `RebuildRead`, `RebuildCommit` are the construction and the
rebuild, split where the lines are read and where the fingerprint is taken;
`Lookup` the queries; `BeginAppend`, `AlreadyRecorded`, `Refuse`, `Write`,
`TornWrite`, `Insert`, `InsertFails` are the append, from the identity lookup
under the lock to the reconciliation after a failed insert; `PlainAppend` and
`PlainAppendTorn` a writer that uses `ShadowTradeJournal` itself; `Crash` ends a
view at any point.

Other writers are given identities of their own that are not in the file, as
the runner's commands do: `ShadowTradeJournal.append_event` does not look for
duplicates.

### 2.3 TrueOosAccrual: state and code

* `file[k][n]` and `temporary[k][n]` are the chunk and the manifest of sequence
  `n` and their temporary files, `report` the sequences with a report. A chunk
  is the set of its candles' epochs; a manifest is the sequence of chunks it
  lists by hash, so that it continues its predecessor exactly when it extends it.
* `session[n]` are the states of the attempts at `n`. The five terminal states
  in which nothing was written are treated alike by the code and are one state,
  `NO_WRITE`; `unreadable` is a session file whose writer was killed.
* `pc` and the variables after it are the memory of each run; a run that ends is
  `down`, one that ends with an exception `raised`.

| Actions | Code |
|---|---|
| `Launch`, `Preflight`, `Recover` | `ACC` sections 1 to 2.1: manifest chain, uncommitted artifacts, `inspect_recovery_state` |
| `StartSession`, `NextAttempt`, `CreateSession`, `TearSession` | `start_session`: its own check, the number, the exclusive creation |
| `Fetch`, `VerifyLedger`, `Build`, `Recheck`, `CheckTargets` | `ACC` sections 4 to 11 |
| `WriteCheck`, `WriteTemporary`, `WriteMove` | `write_chunk` and `write_manifest`, the same code twice |
| `Audit`, `WriteReport` | `ACC` section 13 |
| `Finalize`, `FinalizeReplace` | `finalize_session` |
| `Stop`, `Serve` | the process is killed; the broker completes a candle or fills a gap |

Nothing in the code excludes a second run, so `Runner` may have several members.
Whether the time authority confirms, whether MT5 fails, and whether another
program has replaced the time authority report are free choices.

### 2.4 DemoForwardSession and ShadowPortfolio: state and code

* `sent`, `status`, `symbolOf`, `barOf`, `opened`, `closed` are the broker: for
  every order what became of it, what it was sent for, and the instants of its
  two deals. `account` is the account the terminal answers for. What becomes of an
  order does not depend on the answer the session gets (`Fates`).
* `escaped` is history that no guard reads: the live orders the running session has
  lost sight of (below).
* `journal[s]` is the shadow position journal of a symbol. A position is named by
  symbol and bar, as in the code; an event carries its `epoch` and the broker
  identity `order`, which opens of an earlier version of the program lack.
* `memory`, `seenPositions`, `seenOrders`, `deals`, `anchor`, `enabled`, `due`,
  `chained`, `candidates`, `selected`, `confirmed` are local variables of `DEM`
  `main`; `Forget` drops them when the session ends in whatever way.
* `now` is the clock, `latest[s]` and `prior[s]` the forming bar of a symbol and
  the one before it.

| Actions | Code |
|---|---|
| `StartSession`, `ReadPositions`, `ReadOrders` | arguments, demo account, first reading of the broker |
| `RecoverJournals` | both recoveries of every journal, baseline of the anchors |
| `ReadDeals`, `ReadClosure...`, `ReconcileClosure`, `Recheck...` | the offline closure, by identity or, for a legacy open, by symbol and time |
| `ApplyClosure`, `ReadPost...`, `FinishClosure` | `demo_broker_offline_closure_journal_applier.py`, and the checks after it |
| `ReconcileRestart`, `Resume`, `EndReconciliation` | `demo_broker_shadow_restart_reconciler.py`, continuity, hand-over to the loop |
| `UpdatePosition`, `RefreshPortfolio`, `EndSession`, `CheckHealth` | the head of a cycle: the mirror, the portfolio, the time limit, attachment and safety |
| `FindTransitions`, `TakeSnapshots`, `BuildCandidates`, `Arbitrate` | new bars, their snapshots, frozen signals in their window, one winner |
| `FinalWatch`, `FinalPolicy` | the entry watched again, the policy again |
| `CheckPositions`, `CheckOrder` | the two readings of `execute_market_order` before it sends, with whatever the broker does between them |
| `SendOrder` with `Done`, `Refused`, `PostSendFailStop` | the order, and the three ways the session takes its answer |
| `ConfirmPosition`, `OpenShadow`, `PostOpen`, `EndCycle` | confirmation, mirror, check of the journal, anchors |
| `Stop` | a crash, Ctrl-C or an exception |
| `Tick`, `Quote`, `Fill`, `Cancel`, `BrokerClose`, `Disconnect`, `Reattach` | environment |

`ShadowPortfolio` holds what the session derives from the journals:
`OpenEvents` is the life cycle recovery, `RiskRecoveryValid` the stricter one of
the risk, `PortfolioConsistent` the comparison of both with the memory,
`GovernorAllows` the limits. The risk of a trade counts as one, as the fixed
fraction of the code makes it.

The session does not always see what the broker does. In four ways it loses sight of a live
order, all of them in the model:

* *Misleading answer.* Every code but done and partial is `ORDER_SEND_REJECTED`, placed,
  timeout and connection included, and the loop polls on (`Refused`).
* *Mirror first.* A polled tick closes the mirror of a position the broker still holds;
  the broker is not asked (`CloseMirror`).
* *Between two readings.* A pending order that is filled after the positions were read and
  before the orders are shows in neither (`Fill` when `BetweenReadings`).
* *Mistaken.* The restart gate compares symbol, volume, prices and epoch, and no ticket, so
  it may take a position for the mirrored one (`Mistaken`).

Assumed of the environment, in the head of the module: the lists of the broker are current, a
login to another account shows as a lost attachment, and no second session runs.

### 2.5 FiboForwardSupervisor: state and code

* `evidence` are the decision events, `audit` the operations journal; both are
  durable. A run needs them pristine, so there is one run per window.
* `next`, `completed`, `skipped` are the counters of
  `run_fibo_forward_supervisor`, `seen` the bars of a capture, read one symbol
  after the other, `observed` the clock reading a comparison uses, `previous`
  the common bar when a pause began.
* `bar[s]` is the newest bar of a feed. Bars carry the broker's server time, which
  may be ahead of the wall clock (`Skew`).

| Actions | Code |
|---|---|
| `Launch`, `InitialPause`, `InitialRearm`, `InitialWait` | start, late start, the first look at the broker |
| `CaptureFirst`, `CaptureSecond` | `capture_pair` |
| `Observe`, `ObservedLate`, `NotPublished`, `Missed`, `RearmMissed`, `CapturedLate`, `Captured` | the retry loop of a boundary |
| `Commit`, `Complete`, `FailSlow`, `RecordCompletion` | `commit_pair`, cycle limit, audit |
| `RecordSkip` | the audit records of skipped and rearmed boundaries |
| `PauseFeed`, `StartPause`, `PollFeed`, `StillPaused`, `Resumed`, `PauseOver` | `pause_until_feed_resumes` |
| `Finish`, `Fail`, `Kill` | end of the window, an exception, a kill |
| `Tick`, `Publish` | environment |

What the pipelines make of the candles is left out: the newest candle a decision
has seen stands for its input.

### 2.6 ShadowGenerations and the four sessions: state and code

* `journal[g][s]` is the position journal of symbol `s` in the namespace of
  generation `g`: `LivePolicy` (0) is 14.5a, `PortfolioRisk` (1) 14.5b.1,
  `SafetyGovernor` (2) 14.5c, `LongRunning` (3) 14.6. `imported` in an
  event marks a position that came by carry-forward. `staged` is the file an
  import has written next to the journal it is to replace.
* `watched`, `recovered`, `memory`, `anchor`, `enabled`, `due`, `selected`,
  `authority` are local variables of `LIV` `main`; `Forget` drops them.
* `latest[s]` numbers the bars of a symbol by its trading bars, `reached` says
  whether the position's stop or target is read by a valid tick, `switch` whether
  there is a kill switch file.

| Actions | Code |
|---|---|
| `StartSession`, `RecoverCurrent`, `PassGate` | arguments, both recoveries of all journals, feeds, the predecessor and the continuity policy |
| `UpdatePosition`, `RefreshPortfolio`, `CheckHealth`, `Supervise` | the head of a cycle |
| `FindTransitions`, `TakeSnapshots`, `BuildCandidates`, `Arbitrate` | new bars, snapshots, frozen signals with a time authority each, one winner |
| `FinalWatch`, `RevalidateEntry`, `FinalGovernor`, `OpenShadow`, `PostOpen`, `EndCycle` | the entry watched again, portfolio and policy again, safety state, the open event, anchors |
| `Stop` | a crash, Ctrl-C, an exception, the time limit |
| `StageImport`, `CommitImport`, `AbandonImport` | `shadow_portfolio_carry_forward.py` and its operator program |
| `NextProgram`, `ToggleSwitch`, `NewBar`, `Quote` | environment |

These are the actions of 14.6 (`LongRunningStart`, `LongRunningCycle`). The older programs
have loops of their own, built from the same readings; each has a module with one
action per step of its own code:

| Module | Program | What it does differently from its successor |
|---|---|---|
| `LivePolicySession` | 14.5a | no predecessor; does not recover a symbol it cannot observe; no portfolio, no health |
| `PortfolioRiskSession` | 14.5b.1 | gates on 14.5a; a portfolio that disagrees with memory ends the session |
| `SafetyGovernorSession` | 14.5c | such a portfolio blocks the cycle; kill switch, watchdog and last gate; no supervisor |

`ShadowGenerations` runs the program of `generation`, and `NextProgram` moves on to the next.
All share the one copy of a reading whose code is the same in all of them, such as
`FindTransitions`; the map names the lines of each program for its own operator.

The operator is assumed to start the program of a generation only after its
predecessor was stopped for good and had once got past its own gate, and to run one
session and one import at a time: nothing in the code enforces it.

### 2.7 ShadowLiveRuntimeSupervisor: state and code

* `started`, `last`, `sequence` are the heartbeat in the local variables of the
  loop, `telemetry` the state that holds it a second time with the counters;
  `connection` is what the watchdog read of the terminal.
* `watchdog`, `hardBlocks` and `discovery` are history.

`RefreshPortfolio`, `CheckHealth` and `Supervise` are the three places of a cycle
that may refuse it, in this order; `Discover` is the rest of a cycle, and a
`Tick` of the monotonic clock may fall between any two of them.

### 2.8 MarketStructure, LiveSignal and HistoricalBacktest: state and code

* `history` are the candles read so far, a sequence of integers for open, high, low
  and close; the place of a candle is its time. `gated` says which pipeline is tested.
* `pending` and `active` are the decision to be entered next and the open trade (sets of
  at most one), `count` the counters of the diagnostics, `pc` the place in the body of the loop.
* `idle` and `fresh` are history: was no trade open when the candle began, and which
  trade did it open.

| Operators, actions | Code |
|---|---|
| `Highs`, `Lows`, `Known`, `Structure` | `real_swing_engine.py`, `structure_state.py`: swings confirmed by their neighbours, the last two of each kind |
| `Bos`, `OwnBos`, `PipelineBos`, `Choch`, ... | `bos_detector.py`, `choch_detector.py`, and what the pipeline finds by itself |
| `EqualHighs`, `SweepHigh`, `Displaced`, `Against`, `ValidOrderBlock`, `Gap`, `ValidGap`, `Confluence` | the detectors behind confluence |
| `Detected` | the result of either pipeline |
| `CompletedRates`, `Evaluate`, `ArmSignal`, `ActivateEntry`, `LiveEntry` | `live_completed_candle_signal_engine.py`, `frozen_shadow_strategy_adapter.py`, `causal_next_candle_entry_watcher.py` |
| `Read`, `OpenPending`, `DetectExit`, `Decide` | the body of `HistoricalBacktestEngine.run` |

Two spreads are one in the models: the live path takes the spread of the tick, a
backtest that of the candle or of the symbol. Sizes are taken to be valid, money and
its conversion are left out.

## 3. Runs

| Run | Question | Instance |
|---|---|---|
| `paired_two_boundaries` | Do evidence and position journals stay consistent and append-only, is a missed window final, does everything settle inside the experiment, does the supervisor only finish a complete one, do decisions get entries and trades settle, and is `PairLifecycle` implemented? | two boundaries, the second in the final bar, one stop, `End = 4`, `FairSpec` |
| `indexed_journal` | Does a trusted index match the file, do reported appends stay readable, is no identity appended twice, is a damaged file left alone, and is `EvidenceLog` implemented? | two views, three identities, three writes, fragments |
| `journal_missing_newline` | (violation) `AckedDurable` with a lost newline | only the newline is torn |
| `accrual_single_run` | Do manifests and chunks agree, do sessions tell the truth, and is `AccrualLedger` implemented? | one run at a time, four candles, two stops |
| `accrual_started_blocks` | (violation) `StartedBlocks` | one run at a time |
| `demo_forward_session` | Is what the broker holds mirrored unless the running session lost sight of it, is no bar traded twice, is a position closed offline by its own deal, and is `MirroredExposure` implemented? | two symbols, two orders, three instants, one legacy open |
| `shadow_session` | Is there one exposure over all generations, carried over once, with no fresh portfolio next to it; is an open position recovered, monitored and closed, and no bar used twice? | two symbols of different classes, all four programs, two bars of one symbol and one of the other to trade on, imports between sessions, `FairSpec` |
| `shadow_import_race` | (violation) `PositionIsMonitored` with imports next to a session | 14.6 alone, one bar |
| `shadow_other_authority` | (violation) `OwnAuthorityCounts` | 14.6 alone, one bar |
| `shadow_runtime_supervisor` | Is the supervisor's input always valid, every refusal counted once and every stall noticed? | a gap of 1, a clock of 5 instants, 4 cycles |
| `fibo_supervisor` | Is every boundary decided live or accounted for, and does the run end with its window? | three boundaries of three instants, `FairSpec` |
| `historical_backtest` | Do confirmed swings stay, does the window matter, does the live path enter the trade of the backtest, and is every signal accounted for? | both pipelines, six shapes of candles, three markets to begin with, nine candles, a window of eight |

The comment above each property says which promise of the code it is about.

**Bounds.** `MaxStops` bounds crashes and exceptions: one stop makes one process
continue what another began. What a stop of the recovery itself does is left to the
theorems of section 5.1, which hold for any number of stops. Pairs
share no state except the process, the preflight and the final audit, so two
pairs show every interaction between pairs. `TwoBoundaries` has a window of its own
for each, the second inside the final bar, so a trade is open while the next boundary is due. `MaxWrites = 3` lets one
event precede, one be torn or raced and one follow; three identities are as
many as there are writes, two views are the least that can race. In the accrual
runs `MaxEpoch` candles allow `MaxEpoch - 1` further batches, so with four the
ledger grows three times and a stop can fall into any of them; `MaxAttempts`
bounds the attempts at a sequence after which no run is launched, two being
enough for a retry after a no-write. The run `journal_missing_newline` uses the
symmetry of views and identities: it checks one invariant, and no definition tells
two of them apart.

The demo session needs two orders to tell apart the order of a mirror and a later
one of the same symbol or of the other, sent over it or mistaken for it; two symbols of different asset classes,
so that the governor lets both pass, and one of them with a legacy open.
`Last = 2` with bars of one instant gives the first symbol three bars: one traded, one of a
restart within or after it, one more. The second has no new bar at the last instant (`LastBar`),
for the time a run takes; the two compete at the second instant. Windows of zero width (`EntryWindow`,
`MaxResidual`, `LegacyDelay`) are the sharpest ones at this grain. The number of
sessions, crashes, disconnections and reconciliations is not bounded.
The shadow runs have two symbols of different asset classes. A symbol has a bar to start on;
with one more (`OneBar`) there is a bar to trade, and with `TwoBars` the one of the first symbol
may also begin and end unseen, or follow a position that closed. With all four programs a position
can be imported three times, and 14.5a begins without a predecessor. In the two violation runs
14.6 is used alone; its predecessor left at most one position. In the
supervisor run a gap of 1 on a clock of five instants separates a tolerated from a
stale heartbeat, and four cycles let blocked ones fall between a stall and the cycle
that notices it.
In the FIBO run a bar of three instants separates a boundary (instant 0), its
tolerated delay (1) and the time it is given up (2); `Skew = 2` lets a bar appear
before the wall clock reaches it, which is how bars in server time look to the
code; three boundaries let a pause begin at one, swallow the second and end
before the third; `Last` lies one instant after the end.

The backtest begins with five or more candles of a rising, a falling or an odd market, in which
one more can confirm a swing; up to four follow, each of six shapes. The window of eight is
outgrown by the ninth candle. With one neighbour on either side a swing takes three candles;
the theorems hold for every width.

All unproved results hold for these bounds only. Deadlock is checked in the runs of the collection and of the journal: with
the market and the clock at their end, recovery can be started again, and a view
can always be constructed or crash. The accrual really stops: an accrual is
launched by hand, and once its attempts are used up nobody launches another.
It is checked for the demo and shadow sessions and the runtime supervisor too: whatever a session waits for, it can
end and be started again. A FIBO run needs pristine journals, so after one run
has ended nothing is left to do once the clock and the feeds stop; a backtest ends with its history.

**Fairness** (`FairSpec`). A command that runs takes its next step: it is a
single thread that polls in a loop (`WF` of `Step`). The clock advances and MT5
publishes (`WF` of `Tick`, `MarketTick`). Nothing in the code restarts itself:
`SF` of `StartManager` states that an operator who finds no command running
starts recovery again, as the runner's documentation asks for; it is strong
because other commands may be started in between. Stops are bounded, so they
do not recur for ever. No fairness is given to price triggers, which may never
come: that is what the timebox is for. `TradesSettle` holds only up to
`Blocked`: one outstanding trade without a boundary authority stops the timebox
of all pairs, because the preflight validates the whole outstanding universe
before the first write.
For the FIBO supervisor, `WF` of `Running` (a single thread whose loops sleep and
look again) and of `Tick`; the feeds owe nothing, a silent one included:
`WindowEnds` says that the run ends all the same. For the shadow session,
`WF` of `Polling`: the loop sleeps and takes its next step. Quotes, feeds, operators
owe nothing: `ReachedPositionCloses` speaks of a stop or target that stays reached in
a session that stays up. Nothing fair is asked of the demo session, which may
wait for ever, nor of the runtime supervisor; no liveness is claimed of them.

**Restriction of the journal runs.** `RacingRebuild = FALSE` forbids a write while
another view is between the reading of the lines and the fingerprint of a
rebuild that holds no journal lock. The class documents that it is "a one-process
indexed view under an external runner lease", and the paired runner's lease
gives exactly that. What the restriction is needed for shows when it is lifted
(`RacingRebuild = TRUE` in `IndexedJournal.cfg`): `_set_metadata` takes the
fingerprint after the lines were read, so an append in between is in the
fingerprint and not in the index, and `IndexMatchesAuthority` fails.

## 4. Divergences found

1. *A last line without its newline* (`journal_missing_newline`). The rebuild
   strips lines, so it accepts a complete JSON object that lacks its newline.
   The next append is written straight after it, two objects share a line, and
   the append is still reported as durable: `IDX` inserts its row and takes the
   new fingerprint without verifying the file. No reader of the JSONL file gets
   the event, and the next construction raises. `STJ` verifies after its append
   and reports the failure. It takes an interruption between the last byte of
   the object and its newline.
2. *An unfinished session does not block* (`accrual_started_blocks`). `SES` and
   `ACC` state that a STARTED session blocks automatic continuation. Sessions
   are looked up by target sequence, and the target follows the latest manifest:
   a run killed between its manifest and the finalisation leaves a STARTED
   session that the next run never looks at. The ledger itself stays intact
   (`LedgerVerifies`, `ImplementsLedger`); what is lost is the review the
   session was to force, and possibly the report of that sequence.
3. *An import next to a starting session* (`shadow_import_race`). The session's own
   journals are recovered before the predecessor's position is inspected. An import
   that commits in between makes the gate pass and the session poll without the
   position. Entries stay blocked, because the portfolio check fails (proved in 5.7: no
   other property of the chain needs the operator to wait), but stop and target are not
   watched.
4. *The authority of another symbol* (`shadow_other_authority`). The last gate of `LIV`
   judges the time authority of the last candidate that was looked at, not the fresh
   one of the selected candidate.

Seven more can be read off the models; no run is kept for them.

* *A second exposure at the broker.* `DEM` promises one global position. It keeps that promise
  for what it sees: in each of the four ways of section 2.4 a live order escapes the session,
  and it may then send another one. `OneExposure` without `\ escaped` fails in
  `DemoForwardSession.cfg`, for instance by an order that is answered with a timeout and filled, or by
  a mirror that a tick closes before the broker does. `BrokerIsMirrored` and
  `ImplementsExposure` say how far it goes: what escaped a session is lost to that session
  only, the next one does not begin while any of it is live and unmirrored (unless it escapes
  that one's start too, in the third or fourth way).
* *A session is finalised twice.* When a protected file has changed, `ACC` calls the
  finalisation twice (lines 617 and 622) and the second call raises: the run ends with an
  exception although its session is terminal (`FinalizeReplace` with `calls = 2`).
* *Write-once is not exclusive.* Two overlapping accrual runs can both be STARTED, and
  the chunk of one can be moved over the chunk of the other, whose manifest then never
  verifies again: `LedgerVerifies` fails in `AccrualSingleRun.cfg` with
  `Runner = {r1, r2}`. With one run at a time this cannot happen.
* *The symbol list narrows the predecessor.* `LIV` looks at the predecessor's journals of
  the symbols it is started with (lines 804-810). With a shorter list an open position
  outside it is not seen, and the session may open another one: `NoFreshPortfolio` fails
  in `ShadowSession.cfg` with `SymbolLists <- AnyList`.
* *A restart after an import.* The continuity policy compares an open position of the
  own namespace with the one of the predecessor, consumed or not. Once an imported
  position was closed and another one opened, a restart ends in a conflict while that one
  is open. A test fixes the rule.
* *14.5a forgets a symbol it cannot observe.* It recovers the journal of a symbol only after
  observing it, so a position of a symbol whose terminal data is missing at startup is not in
  memory, and another may be opened next to it; 14.5b.1 then refuses to start. With
  `ObservedAtStart = FALSE` in `ShadowSession.cfg`, `PositionIsMonitored` fails. The run supposes
  an operator who did not let that happen; 14.5c and 14.6 recover every journal first.

## 5. Proofs

TLC checks the instances above; the theorems hold for every value of the
constants the assumptions admit.

### 5.1 The paired collection (`PairedForwardEvidence_proofs`)

| Theorem | States |
|---|---|
| `TypeCorrect` | `TypeOK` |
| `CandidateAlwaysNeedsBaseline` | no candidate trade or position without its baseline |
| `NeverOrphanPosition` | a committed entry names exactly the branches that hold a position |
| `AlwaysFrozenSettlement` | terminal event, close and frozen input of a branch agree |
| `AlwaysSettlementComplete` | a settled pair has a trade and all its terminal events |
| `AlwaysFreshBoundary` | a boundary about to be committed has no evidence yet |
| `MissedWindowAlwaysFinal` | a window missed before the last check is missed for good, for every later process (`MissedWindowIsFinal`) |
| `EvidenceAlwaysImmutable` | phases only grow and no recorded value changes |
| `AlwaysInsideExperiment` | no close before its entry, none at `End` without boundary authority (`SettlesInsideExperiment`) |
| `FinishedAlwaysComplete` | a finished supervision lacks no entry outcome and no settlement (`FinishedMeansComplete`) |
| `CollectorImplementsLifecycle` | `PairedForwardEvidence` implements `PairLifecycle` |

*Assumptions*: `PairAssumption` (there is a pair), `TimeAssumption` (every entry and
the final bar lie before `End`) and `StopAssumption` (the bound on stops is a
natural number).

*Argument*: none of the invariants is inductive, since each is about durable
state that a process writes from what it has in memory. `Inductive` (theorem
`AlwaysInductive`) adds what memory has to do with the files while a command
runs: a queued pair is fresh (`QueueIsFresh`), the branches an entry remembers
to have opened are those that hold a position (`EntryInProgress`), a close under way
has its frozen input (`CloseInProgress`), phases are written in order
(`PhasesInOrder`) and a position follows an intent (`PositionsFollowIntent`). Actions are grouped by
what they write: `QuietStep` for those that write no file, `LaunchAndUnwind` for
those that begin or end a command, `PositionWriters`, `PhaseWriters` and
`ValueWriters` for the rest. The refinement maps the stage of a pair to its phases,
the branches traded to `actual` and the result to `terminal`; `StageMoves` shows
that every step is a step of `PairLifecycle` or leaves its variables alone.

`MissedWindowIsFinal` is of the form "from then on": `WindowMissed` is stable (`MissedStep`), since
only the check itself takes a process to the write (`WriteReached`), and with no intent there is no
position (`PositionsFollowIntent`).

Two invariants need a strengthening of their own, beside `Inductive`. `MarketReachedEntry`: the
market, which never goes back, has reached the window of every decided pair, and so has the
snapshot that a pass closes branches with (`SnapshotWriters` names the steps that touch either).
`NothingLeftToSettle`: between the settlements of a pass and the audit nothing becomes ready, so
the audit, which asks for no settlement, finds them all; afterwards `ImmutableStep` keeps what
it found.

### 5.2 The journal (`IndexedShadowTradeJournal_proofs`)

| Theorem | States |
|---|---|
| `RecordInvariant` | no line, index or pending rebuild holds an event twice (`RecordInv`) |
| `TypeCorrect` | `TypeOK` |
| `IndexAlwaysMatches` | a view that trusts the index reads the events of an intact file (`IndexMatchesAuthority`) |
| `AckedAlwaysDurable` | `AckedDurable` |
| `AppendedOnlyOnce` | `AppendOnce` |
| `DamageAlwaysPreserved` | `DamageIsPreserved` |
| `JournalImplementsLog` | `IndexedShadowTradeJournal` implements `EvidenceLog` |

*Assumptions*: those of the module on its constants (`NoneAssumption`,
`TearAssumption`, `RacingAssumption`, `MaxWritesAssumption`). `RecordInvariant`,
`TypeCorrect` and `AppendedOnlyOnce` need no more: they hold however a write is torn and
with rebuilds that race. The other four need `Protected`: an interrupted write leaves a
fragment, and no write falls into a rebuild without the journal lock. These are the
conditions of `indexed_journal`, and TLC shows that the four need them: divergence 1 of
section 4 refutes `AckedDurable` without the first, the racing rebuild of section 3
refutes `IndexMatchesAuthority` without the second.

*Argument without `Protected`*: the model has a line commit to all events its writer saw
before it, as the hash chain does. Whoever writes checks that its event is not among those
(`WritesOnce`), so a line holds an event once; an index is rebuilt from one line or
gets a row it lacked (`WantStep`, `RowsStep`), so it does too (`OnceInv`); and what a reader
is told is one line.

*Argument with it*: `IndexMatchesAuthority` is not inductive: it says nothing of the views
that are about to change the index. `IInv` adds, for each view (`ViewInv`): who is past
the lookup under the lock holds the lock (`Locked`), the uncommitted rows of a rebuild
are the events of the file, and between the line and its row the index is the file's
events, or lacks just this one (another view's rebuild may have put it there). The
lemmas on the file say what a line appended to intact lines makes of the chain, and
that a reader stops before a fragment (`ChainedAppend`, `ReadableFragment`, `PutFacts`).
`FileSteps` is the heart: whoever writes, by the index or plainly, writes to an
intact file, with no rebuild between lines and fingerprint, an event that is not
there. A step is then split in what it means for the acting view (`ActingView`),
for one that waits while the file changes (`Bystander`) and for one that waits while it
does not (`Idler`).

### 5.3 The demo session (`DemoForwardSession_proofs`)

| Theorem | States |
|---|---|
| `TypeCorrect` | `TypeOK` |
| `OneExposureAtMost` | while a session polls, one live order is left at most besides those it lost sight of, and none when it sends the next (`OneExposure`) |
| `JournalsAgreeWithOrders` | an open mirror is that of an order of its symbol, and the portfolio check agrees with the memory of a running session |
| `ExposureIsMirrored` | a polling session mirrors every live order it has not lost sight of |
| `ClosureIsTheDeal` | a closure from the deal history is the deal of that very order |
| `OneOrderForABar` | no symbol is traded twice on one bar, across restarts |
| `SessionsImplementExposure` | `DemoForwardSession` implements `MirroredExposure` |

*Assumption*: `SessionAssumption` (there are symbols, each with a priority of its own,
and the bounds are natural numbers).

*Argument*: `IInv` says that *what a session has not lost sight of is mirrored or about to be*
(`ExposureInv`). In the head of a cycle, and again when the order goes out, every live order outside
`escaped` has an open mirror; as `SessionInv` makes the memory of the session the open positions,
and these are none while candidates are dealt with, nothing but `escaped` is live when the order
goes out, and between order and mirror only that order is added. `StartupInv` brings this about: what
the two readings show neither of is in `escaped`, and the restart gate lets nothing through that
is unmirrored. `JournalInv` says that an open position belongs to the bar of the last order, which
leaves at most one, and `OrderInv` that the orders of a symbol follow its bars up to the anchor, so
that a bar is not traded again. `BrokerInv` and `DealsInv` carry the instants of the deals from the
broker through the reconciliation to the closure. The first lemmas say what an appended event
does to both recoveries. In the refinement the record of a mirror is read off the journal
(`Record`); a step sends, fills, ends, mirrors, settles or mistakes one order, begins or ends a
session, or leaves the abstract variables alone (`ExposureStep`).

### 5.4 The FIBO supervisor (`FiboForwardSupervisor_proofs`)

| Theorem | States |
|---|---|
| `TypeCorrect` | `TypeOK`: every boundary armed, decided or recorded is on the bar grid |
| `BoundariesAlwaysAccounted` | `BoundariesAccounted` |
| `OnlyLiveEvidenceAlways` | `OnlyLiveEvidence` |

*Assumption*: `SupervisorAssumption` (start and end are on the grid of an arbitrary
`BarLength`, the start is reached).

*Argument*: the counters are kept by division by `BarLength`, which no prover
here handles when it is a parameter; the first part of the module derives what is
needed from facts about products, so that later steps only use that stretches of
boundaries add up (`StretchesAdd`). `BarsInv` says that no reading is later than
it could be, `PlaceInv` where the armed boundary lies in each phase, which is what
makes a rearmed boundary never an earlier one: the least obvious case is a paused
launch, where only the start or a boundary one bar ahead of the clock may be armed.
`AuditInv` and `CountInv` relate counters, operations journal and evidence, with one
decision on its way between them, and `DecidedInv` keeps decisions before the armed
boundary. `RearmFacts` is the one lemma behind all five ways to skip boundaries.

### 5.5 The runtime supervisor (`ShadowLiveRuntimeSupervisor_proofs`)

| Theorem | States |
|---|---|
| `TypeCorrect` | `TypeOK` |
| `SupervisorNeverInvalid` | `NeverInvalid` |
| `BlocksAlwaysCounted` | `BlocksAreCounted` and `HardBlocksAreStale` |
| `StallsAreNoticed` | `NoSilentStall` |

*Assumption*: `SupervisorAssumption` (the gap is positive, the bounds are natural numbers).

*Argument*: `HeartbeatInv` says that both copies of the heartbeat agree and lie between
the start and the clock, which makes the input valid (`InvariantIsValid`), so that the
invalid branch of a step never applies. `CountInv` adds that a supervised cycle has a
terminal, `DiscoveryInv` that the last heartbeat is the one of the last discovery as
long as nothing was blocked; `NoSilentStall` follows from it at the next supervised cycle.

### 5.6 Market structure and backtest (`HistoricalBacktest_proofs`)

| Theorem | States |
|---|---|
| `DetectorsAgree` | the BOS detector finds what the pipeline finds by itself, the detector of changes of character nothing |
| `ConfluenceSpansTheSwings` | a gated signal needs a candle that spans the last swing of either side |
| `WindowSuffices` | a window with two swings of each kind gives structure, break and stop of all candles |
| `SwingsStay` | `SwingsNeverRepaint` |
| `LookbackIsEnough` | `LookbackSuffices` |
| `LiveIsBacktest` | `LiveParity` |
| `SignalsBalance` | `SignalsAccounted` |

*Assumptions*: `MarketAssumption` (at least one neighbour to the right, at least one candle of
displacement), `LiveAssumption` and `BacktestAssumption`, none of which bounds a price.

*Argument*: a swing depends on its neighbours only, so the swings of a window are those of the
whole that have their left neighbours in it (`SwingsInWindow`), and the last two of each kind
are the same once the window holds two (`NewestTwo`). `LiveParity` needs more than the present
step: `SignalInv` says that the pending decision was made on the candles before the newest,
so that both paths look at the same window. `AccountInv` relates counters, pending decision
and trade.

### 5.7 The shadow programs (`ShadowGenerations_proofs`)

| Theorem | Operator | States |
|---|---|---|
| `TypeCorrect` | any | `TypeOK` |
| `BarsOpenedOnce` | any | `EachBarOnce` |
| `JournalsReplay` | any | every journal replays: a close closes what is open, an open opens what is not |
| `PortfolioHandedOver` | `AllSymbols` | `NoFreshPortfolio` |
| `JournalsStayRecoverable` | `JournalsRead` | no recovery ever refuses a namespace; memory agrees with it from the comparison to the end of a cycle |
| `ProgramsHoldOneExposure` | `JournalsRead` | `ShadowGenerations` implements `SingleExposure` |
| `PositionMonitored` | `CarefulOperator` | `PositionIsMonitored` |
| `CyclesNeverBlocked` | `CarefulOperator` | the comparison with the journals would pass at every step past the gate |

*Assumptions*: `ShadowAssumption` and `ObservedAssumption` on the constants, for any number of
symbols and bars and any first and last program. What the operator is supposed to do comes in
layers, none of which the code enforces: `AllSymbols`, every session is started with all symbols;
`JournalsRead`, moreover 14.5a, if it was used, could observe every symbol; `CarefulOperator`,
moreover no import runs next to a session. Each theorem has the first layer it holds in, and is
false in the one before: section 4 tells how (the symbol list, the forgotten symbol, the import next
to a starting session). That one session and one import run at a time is built into the model
(section 2.6).

*Argument*: `ProgramSteps` shows that the steps of the four programs are of ten kinds, told apart
by what they change, so that an invariant is proved for a kind and not for a program. Three of
them write (`WatchWrites`, `EnterWrites`, `ImportWrites`): the close of a position in memory, the
open of a candidate at its new bar, the import of a staged position into an empty journal.
* Any operator (`RecordInv`): what is in memory is open in the journals (`MemoryInv`), bars are
  traded in their order up to the anchor of an enabled symbol (`BarInv`), candidates have a new bar
  (`DealInv`), and a namespace without a session past its gate holds imports only (`ImportInv`). A
  bar at which a position is opened is therefore in no journal (`FreshBar`), in whatever order
  programs, stops and imports came.
* All symbols (`CarryInv`): the gate sees what the predecessor has open. Either it was imported, or
  it is open in a namespace that holds imports only, which says the same (`AdmitCarries`);
  afterwards nothing is left to import (`ImportsBefore`).
* All journals read (`PortfolioInv`): there is one open position per namespace (`OneInv`), and
  memory is that position once it was compared with the journals (`KnownInv`, `AgreeMeansOpen`). It is
  the comparison in each cycle that makes the open of a position safe from an import the
  session has missed. In the refinement the exposures are those of the own
  namespace past the gate and those of the predecessor before it (`ExposuresEntered`,
  `ExposuresBefore`): an open or a close is a step of `SingleExposure`, all else stutters.
* No import next to a session (`MonitorInv`): what was recovered is what is open up to the gate and
  past it.

### 5.8 The accrual (`TrueOosAccrual_proofs`)

| Theorem | States |
|---|---|
| `SharedInvariant` | the manifests are numbered without a gap and grow in time, no attempt has two owners, and what was written is denied by no attempt of its own (`SharedInv`) |
| `TypeCorrect` | `TypeOK`; the sequence after the last manifest exists |
| `LedgerAlwaysVerifies` | `LedgerVerifies` |
| `CompletedMeansDurable` | `CompletedIsDurable` |
| `NoWriteMeansNothing` | `NoWriteIsTruthful` |
| `RunsImplementLedger` | `TrueOosAccrual` implements `AccrualLedger` |

*Assumptions*: `BoundAssumption`; the number of kills, attempts and candles does not matter.
`LedgerAlwaysVerifies` and `RunsImplementLedger` also suppose `OneRun`, that one run is active at a
time. The code does not enforce it, and TLC refutes both properties for two runs (section 4). The
others hold however many runs overlap.

*Argument for overlapping runs*: `SharedInv` says what survives the others. The manifests have no
gap, and batch `i` holds no candle before epoch `i`, which is why the numbers never run out
(`ManifestInv`). A run knows what it will append to, has a STARTED attempt from its creation to its
verdict, and the files it counts on are there, if perhaps not its own (`OwnInv`): files are
replaced and never removed (`FileFacts`). The exclusive creation gives an attempt one owner
(`OwnerInv`, `NewOwner`). `NoWriteIsTruthful` is not inductive: another run may write at the sequence
of a run that is about to say NO_WRITE. `WitnessInv` adds that where something was written there is an
attempt, its writer's, that does not say NO_WRITE and that no run will make say so (`WitnessStep`). A
kill leaves that attempt STARTED.

*Argument for one run*: `IInv` adds that a run that has not committed is about to continue the last
manifest (`TargetInv`) and finds what it has written (`PrivateInv`). A chunk moved into place is
listed by no manifest yet (`ChunkMoved`), and the one step that changes the committed ledger is the
move of a manifest (`ManifestMoved`).

### 5.9 Only model-checked

The liveness properties (`TradesSettle`, `DecisionsGetEntries`, `WindowEnds`,
`ReachedPositionCloses`): liveness under fairness is out of the prover's reach. All
other properties of the passing runs are theorems. The reverse holds as well: type invariants and
smaller invariants that a theorem states (`CandidateNeedsBaseline`, `SettlementComplete`,
`FreshBoundary`, `OneExposure`, `HardBlocksAreStale`, `Recoverable`,
`NeverLockedOut`, `NeverBlocked`) are in no run.

## 6. Not modelled

* *Checks that only raise.* Manifests, schemas, symbol specifications and broker
  contexts are validated at many points, and a failure ends the command: that
  outcome is `Stop` or `Fail`, which every model allows at any point.
* *Data.* Prices, sizes, R multiples, hashes and report wording outside the backtest; candle
  analysis in the sessions, whose signals are free choices. The demo session takes the decision of
  the runtime supervisor as a free choice too.
* *A failing SQLite COMMIT* after a line was written; observation gaps measured
  in seconds; a wall clock that steps back.
* *The first accrual*, the time authority report and broker drift, the older
  accrual programs.
* *Session programs before 14.5a* (14.3 and 14.4), which follow one or several symbols with
  position journals that no later program reads; and the reports every session writes. The test
  switches of `LIV` (injected disconnects, stalls and crashes) are `Stop` and the free
  refusals.
* *Rest of the analysis*: premium and discount, the wording of a recommendation, the swing
  filter and validator, the reports and studies over finished data sets.
* *Kernel, personal edition, activation manifests*: configuration and wiring.

Observations that need no run. The rules in `docs/smc_rules.md` (1, 3 and 5) let only filtered and
validated swings make a break of structure; `smart_money_pipeline.py` (lines 56-69) passes those of
the swing engine unfiltered, and that is what `Highs` and `Lows` are.
`LATEST_COMPLETED_BAR_NOT_PREDECESSOR` can never be the answer of the live engine, which has just cut
the list there. A backtest compares the levels of a sale with bid candles, whereas a live one
closes at the ask. `LIQUIDITY_TOLERANCE` is one absolute number for every symbol. And when a pause lasts to the end of the
window, `pause_until_feed_resumes` leaves `next_boundary = end` without counting the
boundaries it gave up, so `total_skipped_boundaries` of the final record omits
them. `BoundariesAccounted` names the case.

## 7. Plan

Done: (1) paired collection, (2) indexed journal, (3) accrual, (4) portfolio risk,
demo session and broker, (5) FIBO supervisor, (6) the shadow-live programs and carry-forward,
(7) runtime supervisor, (8) market structure, live signal and backtest, (9) the proofs of section 5.

No property of a passing run lacks its theorem but the liveness properties. Left: runs for the
hazards of `PROJECT.json` that name no property.
