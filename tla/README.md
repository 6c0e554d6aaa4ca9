# A TLA+ model of the simple-scanner quant engine

The repository is a research platform for intraday equities: a FastAPI engine
(`services/quant-engine`), a Next.js front end, operator scripts, and one relational
database (SQLite or Postgres) through which everything communicates. It never trades. What has
to be right is bookkeeping: which job runs, which model is active and why, which derived rows
still describe the bars they were computed from. That bookkeeping is what these modules model.

Paths below are relative to `src/services/quant-engine/app` unless they start with `src/`.

## 1. The system

### How it runs

- **The API server** (`api/routes.py`): one process, one event loop. Handlers are `async def`
  but call *synchronous* services, so a handler is not interleaved with another one unless it
  awaits: only ingestion, provider checks and the live scanner do.
- **Scheduler workers** (`src/scripts/scheduler_worker_once.py`): separate operating-system
  processes, started by an operator or a timer, that recover stale jobs, lease a batch, run it
  and exit. Several may run at once, and beside the API server.
- **The database** is all they share. `store._lock` is a lock of one process. Every repository
  method opens a connection, runs a statement or a few, and commits; a service call is a
  sequence of such commits, nothing rolls back a sequence, and a process may die between any two.

So an *atomic step* of the models is one query or one commit; everything else interleaves.

### Inventory

| Component | State | Operations | Hard behaviour | What makes it correct |
|---|---|---|---|---|
| Job queue and worker (`services/scheduler.py`, `SchedulerJobRepository`) | `scheduler_jobs`, `scheduler_job_events` | create, cancel, run_job, run_pending, run_worker_once (recover, lease, heartbeat, run), finish | read-then-save without a guard, leases that expire under a live worker, a job run without a lease, failures after the job ended | attempts bounded, no queued job is stuck, ended jobs stay ended, events explain the rows, every job ends |
| Model governance (`services/research.py`, `ModelActivationService`) | `model_runs`, `active_models`, `validation_reports`, `model_proposals`, decision ledger, model file | train, validate, propose, approve, reject, activate, direct activation | four commits per activation, evidence read earlier than used, two tables that name the active model, ids in request bodies | only validated models are active, the ledger explains every decision |
| Research cycles (`ResearchCycleService`) | `research_cycles`, cycle ledger | create, run | the server and a worker may run one cycle, nobody recovers a cycle | a completed cycle is backed by a proposal, cycles end |
| Build windows and rebuilds (`services/artifact_readiness.py`, build and replay services in `services/workflows.py`) | `bars`, derived tables, `pipeline_build_windows` | bar upsert, four rebuilds, `/features/build`, `/labels/build`, `/backtest/replay` | list, read, write and clean are separate statements; windows are per date, rebuilds are not | a clean window means current rows |
| Live scanner (`jobs/scanner.py`) | one `ScannerState`, its task and queue, `scanner_runs`, `live_signals` | start, stop, poll, score, stream | cancellation while awaiting, restart during a stop, failures inside the error handler, a full queue | the rows tell what runs, signals name the model that scored them, a stop ends |
| FMP pipeline (`services/fmp_pipeline.py`, `data/fmp.py`) | bars, ingestion runs, capability checks, freshness reports | quotes, eod, intraday, incremental refresh, seed, capability check, review, freshness | every provider call is an await; windows of one run fail separately; late answers overwrite; an answer may bring any part of what it was asked for | no gap without a cause, a completed run hides no failure, only reviewed checks open the gate |
| Market replay and labels (`backtesting/replay.py`, `labels/engine.py`) | none while it runs | preflight rules, simulation, metrics; label rows | limits at the boundary, what is remembered comes from exits in the future, two engines for one trade | limits hold, no look-ahead, the engines agree |
| Sensitivity grid (`backtesting/sensitivity.py`, `run_sensitivity`) | `replay_sensitivity_runs`, scenarios | run, resume, limit, sample | resuming over changed inputs, two invocations, last save wins | COMPLETE means the whole grid, under the thresholds stated |
| Replay window sets (`orchestration/windowing.py`) | `replay_window_sets`, `replay_window_results` | generate, create, run, rerun, dry run | stale inputs, crashes between windows, embargo at boundaries | the summary is that of the results, windows cover the range, no training data near the test |
| Schema and store (`db/`, migrations) | the schema of two databases, `alembic_version` | 12 revisions up and down, startup script, verification, fallback | the schema is written four times; scripts stop anywhere and run twice | scripts apply, both stores have one shape |
| Splits, audits, drift (`validation/`) | reports | one computation, one save | numeric | — |
| Features, regimes, scoring (`features/`, `signals/`, `models/`) | none of their own | pure functions | numeric | no look-ahead |
| API, exports, web, operator scripts | — | — | — | — |

Interactions: ingestion upserts bars and marks windows dirty; the rebuilds derive the artifacts
and clean the windows; replays and validation read the artifacts and write the reports; governance
reads the reports; the scheduler runs rebuilds, cycles and exports as jobs; the scanner scores with
whatever model was active when it started; window sets run replays, sensitivity grids replay a saved
run again, and both are evidence governance looks at.

`PROJECT.json` lists the hazards of this code, each at its line, with the properties that
would notice it going wrong.

## 2. The modules

| Module | Models |
|---|---|
| `Scheduler` | the job queue: API server, any number of workers, lease clock, crashes and failed statements |
| `JobLifecycle` | abstract: what the queue promises about one job; `Scheduler` states the refinement |
| `MCScheduler` | instances for TLC |
| `SchedulerProofs` | proofs |
| `ModelGovernance` | reports, training, proposals, activation, ledger, research cycles |
| `ProposalLifecycle` | abstract: what governance promises about one proposal; `ModelGovernance` states the refinement |
| `MCModelGovernance` | instances for TLC |
| `GovernanceProofs` | proofs |
| `PipelineWindows` | bars, derived rows, dirty windows, rebuilds |
| `MCPipelineWindows` | instances for TLC |
| `PipelineProofs` | proofs |
| `Scanner`, `MCScanner` | the live scanner on the event loop, its tables and its subscribers |
| `ScannerProofs` | proofs |
| `Ingestion`, `MCIngestion` | requests to the provider, capability checks and their review, the freshness verdict |
| `IngestionProofs` | proofs |
| `Replay`, `MCReplay` | the replay of candidates against bars, its metrics, and the labels of the same candidates |
| `ReplayProofs` | proofs |
| `Studies`, `MCStudies` | replays as rows, replay window sets, sensitivity grids, in processes that share the tables |
| `StudiesProofs` | proofs |
| `EvidenceStore`, `MCEvidenceStore` | migrations, the startup script, the choice of a database |
| `EvidenceStoreProofs` | proofs |

In each module, an operator whose comment says "Mutant:" or "the variant ..." is a plausible bug;
nothing of the specification uses it. `PROJECT.json` pairs each property with the one that breaks it.

### Scheduler

`jobs[j]` is the row (`status`, `attempts`, `lease`, `owner`, and whether it is due); `events[j]` is
the set of event types appended for it. Each process has a program counter `pc`, the job it works on
(`cur`), the row images it read (`mem`) and its batch (`todo`, `held`). The actions carry the
names of the statements: `CancelGet`, `CancelSave` and `CancelEvent` are `SchedulerService.cancel`,
`LeaseRead` and `LeaseWrite` are the SELECT and the UPDATE of `lease`. A save writes the whole row
from the image in memory, as the code does, so lost updates are possible exactly where they are in
the code. Time is two facts: a lease is live or expired, a job is due or not; `LeaseExpires` and
`BecomesDue` are the clock. The body of a job (`_execute`) is its outcome. `MaxFaults` bounds
crashes and failed event inserts. `OneAtATime` says that an operator runs one command at a time.

### ModelGovernance

`reports` is a set of report rows in the order of their ids; `models[m]` is whether `m` is in
`model_runs`, and flagged active; `active[t]` is the row of `active_models` for a model type;
`proposals`, `ledger`, `cycles` and `cycleLedger` are the tables of those names. Metrics,
calibration, drift and review evidence enter as the verdicts the gates read; which report a gate
*consults* is modelled exactly, because that is where the stale evidence is: the latest of the
challenger's own, or those whose ids the payload of the run names (`NamedReports`), of any model. The API server and the
workers have a program counter and a record of locals; `Train`, `Validate`, `Approve`, `Reject`
and `ActivateRequest` begin at the API server, and `CycleRequest` also at a worker. `ActivateGate`,
`ActivateCommit`, `ActivateFile`, `ActivateSave` and `ActivateLedger` are the commits of one
activation.

### PipelineWindows

One symbol and one intraday interval, `NumDays` session dates. `bars[d]` is the revision of the bars
of a date; it grows with each upsert that touches it. The features of a session look back to earlier
sessions (`features/engine.py:119`), and everything derived from them inherits that, so the content
of a derived row is the revision of the bars of its date *and of each date before it*:
`made[a][d]`. `dirty[a]` is the set of dates whose window of artifact `a` is dirty.

`made[a][d]` is of the rows the last build *wrote*. The upserts never delete, so rows of a setup or a side
that the new bars no longer have stay among them: `leftover[a]` is the set of dates where that is so. Which
rows stay depends on the data, so `Write` leaves any (`MayStay`): of the candidates, where the features of the
date have changed, since they are detected from nothing else; of the labels, anywhere, since a trade blocks
later ones (`labels/engine.py:71`). Features have a row per bar, and a replay run is a row of its own. An
operation that read leftover candidates (`beside`) makes labels and replays from them.

An operation is a script: a sequence of *check* (are inputs dirty), *need*, *window*, *list* (remember
the dirty windows), *recheck* (the replay's own look at its inputs), *read*, *write*, *mark*
(`mark_built`) and *clean* (`_clean_windows`, one commit per window). Each entry is one step, so the
order of the statements is in the scripts, which follow the functions line by line. `saved` is what an
operation has saved: a replay rebuild cleans its windows if either of its two runs was. `touched` is a
history variable: the dates of which another process changed something while the operation ran.

Abstractions: a computed row is as old as the oldest of its inputs; the leftover rows of a date are not
told apart; the UTC and Eastern dates of a bar are taken to agree; the
counterfactual replay run has a window version of its own that nothing marks dirty, so only the fact
that it was saved matters; relative strength across symbols and the label horizon across midnight
are left out.

### Scanner

One `ScannerState`, its asyncio tasks (named by the run they were started for), the rows and the
queues. A step is what happens between two awaits. `Start`, `StopWaits`, `StopAtOnce`, `StopResumes`
and `Subscribe` are the handlers; `Poll`, `QuotesArrive`, `ScoreKnown`, `ScoreUnknown`, `Hydrated`,
`StepFails` and `Cancelled` are `_run` and what it calls. A persisted signal carries the id the
*state* holds and the model the *task* was started with: `SignalsTellRun` relates the two. `excused` remembers
the runs whose row may disagree with their task, and only an event that does it puts a run there: a
crash, a row that could not be written, an error that could not be recorded, a start that came while
a stop was waiting. Scores are left out.

### Ingestion

A request is a set of calls still to make (`todo`), asked in order (`Precedes`), and each is two steps:
`Answered`, when the provider answers as of today, and `StoreBars`, `StoreQuotes` or `StoreCheck`, when the
handler goes on. Between them other requests run, the day changes and the server may die. A day of bars
of a series is missing, `early` (written from an answer given on that day) or `final`. `ACCESSIBLE` says that
an answer has rows, not which: `StoreBars` stores any part of the days that pass the filter (`Delivered`), down to
none, and of daily bars, which are not filtered, days outside the window. Whether a day that came is whole
is not modelled, and a seed asks for its default range. `DENIED`
and `RATE_LIMITED` are one error, since nothing after the client tells them apart; a day is the
grain of windows and of the incremental overlap; which windows get dirty is `PipelineWindows`.

### Replay

A behaviour is the loop of `CandidateMarketReplayEngine`: candidate after candidate, `SkipDuplicate`,
`SkipByRule`, `SkipNoEntry` or `Take`. What a trade does to the bars is operators (`ReplayExit`,
`ReplayPrice`, `LabelExit`), so that both engines can be asked about one candidate. A short trade is
a long one on mirrored prices. Prices are ticks; costs, confidence and context filters, the minimum
reward and the lookback of ten bars are left out, and there is one symbol, so that the symbol's and
the portfolio's open trades coincide: `open` is the places of the trades whose exits are in
both lists. A payload names some of `Fields`; `FromPayload` fills in the rest.

### Studies

`built[a]` is the version of the bars that features and candidates were last built of, and `dirty` the artifacts with a
dirty window; a bar upsert marks both. A build is `Build` (it reads), `WriteRows` and `MarkBuilt`: of the replayed
dates or others, from dirty features or not, overtaken by bars or not, and it cleans the window or leaves
it dirty. So the stale check, which looks at `dirty` only, is as weak as the code's. `replays`
are rows that remember the versions they read. A process runs a
window set (`RunSet`, then for each window `CheckStale`, `ReadBars`, `ReadFeatures`, `Replay` twice, `SaveResult`, and
`FinishSet`), a replay of its own, or a sensitivity run (`Study`, `ReadPrevious`, `ListScenarios`,
`SaveStudy`): one step per statement, a crash between any two. The windows (`GenerateWindows`) are
computed as the code computes them from a request (`SetRequest`). The engine of the grid is the set of what one invocation may return
(`Engine`); where its time is limited, that is any number of scenarios. A scenario is its place in the
default grid, the replay and bars it was run on, and the thresholds that judged it. A saved run has the replay
it names in its payload and the one it is `listed` under, the column the upsert leaves alone. There is one
window set; ids that collide within a second, the comparison of two replays of a window and
calibration audits are left out, and so are run ids in a request that name no stored run, which act like
new runs. Leftover rows are those of `PipelineWindows`.

### EvidenceStore

A schema is a set of objects (tables, unique keys, columns that came later, indexes). The twelve
revisions, the metadata, `initialize` and `verify_schema` are lists of statements over them, each with
what it makes and what it needs. An operator migrates; two processes verify PostgreSQL in two reads and
may fall back to SQLite, which they bring up to date one commit at a time. Columns a table is created
with stand with it, and so do its first indexes; old files are those of a revision; locks that time
out and the contents of tables are left out.

## 3. What TLC checks

| Run | Instance | Properties |
|---|---|---|
| `scheduler_serial` | 2 jobs (one may be tried twice), API, 2 workers, one command at a time, 2 faults | `TypeOK`, `LeaseMeansRunning`, `ImplementsLifecycle`, `JobsEnd` |
| `scheduler_race` | 1 job, API, 2 workers, every interleaving | `AttemptsBounded`, `QueuedIsLeasable`, `AuditTrail` |
| `governance_activation` | 2 models, one replay-aware; 2 reports, 1 proposal, 1 cycle, 1 crash; every request, runs that name the first report or none | `TypeOK`, `ActiveHasAcceptedReport`, `FlagsAgree`, `ActivationRequested`, `RecommendedOnReport`, `LedgerExplains`, `ImplementsLifecycle` |
| `governance_cycles` | API and worker on one cycle, 2 proposals, 1 crash | `CompletedCycleIsBacked`, `CyclesEnd` |
| `pipeline_serial` | 2 dates, 2 revisions, ingestion, a feature build and the rebuilds, one at a time, 1 crash | `CleanIsCurrent` |
| `pipeline_race` | 1 date, 2 revisions, ingestion and two workers sharing the rebuilds | `HiddenOnly`, `WindowsSettle` |
| `pipeline_ranges` | 2 dates, 1 revision, every operation over all dates or one, with and without `allow_dirty_inputs` and `allow_stale` | `HiddenOnly` |
| `scanner` | 2 starts with either of 2 models, 2 stops at once, 1 subscriber, a queue of one, 2 signals, 1 failure or crash | `RunRowsExplained`, `SignalsTellRun`, `StreamOrder`, `StopEnds` |
| `ingestion` | an intraday and a daily series, 3 days of which one is no trading day, 2 requests in all, which may overlap, answers that bring any of the days, 2 checks per endpoint, crashes | `GapsExplained`, `CompletedIsStored`, `GateIsReviewed` |
| `replay` | every path of 5 bars of three shapes, 3 candidates of 2 setups and both sides, 5 configurations | `WithinLimits`, `DecidesOnThePast`, `DrawdownIsWorstStretch`, `LabelsAgree` |
| `store` | 3 settings, 2 processes, files of 4 ages, 2 migrations among 3 targets, crashes | `ScriptsApply`, `BackendsAgree`, `AcceptedIsCurrent` |
| `studies` | 2 processes, a grid of 3 scenarios, 5 payloads; 7 budgets: up to 3 sensitivity runs over up to 2 replays; up to 3 builds beside bars and replays; sets of every mode, three of them run, rerun and crashed | `GradeIsWholeGrid`, `ScenariosExplained`, `SummaryExplained`, `ReplaysExplained`, `WindowsCover`, `CompleteStands` |

The type invariants of the other modules are stated there and proved (section 4), so no run
spends its time on them.

What the runs say:

- **Scheduler.** Attempts never exceed `max_attempts` and a queued job is always leasable, under
  any interleaving, although two workers can hold one job and saves are blind. With one command at
  a time, finished jobs stay finished except where the code itself turns one into FAILED; every
  queued job ends unless the server died inside `run_job`, which takes no lease (`Abandoned` is that
  exception, spelt out). Every terminal row without its event is paid for by a fault.
- **Governance.** Whatever was requested and wherever the server died, an active model was activated
  on an accepted report of its own and of the right purpose, a flagged model is the one `active_models` names
  (not the other way round), and a proposal's activation was requested in the ledger first. A challenger is
  recommended on an accepted report of its own, or on one the run named. The ledger explains the status of every
  proposal up to the processes that died. Completed cycles list a proposal of their own.
- **Pipeline.** `HiddenOnly` lists the ways in which rows get outdated behind a clean
  window: another process touched the date meanwhile; the input was hidden already or taken
  dirty; a rebuild of other dates cleaned the windows of all; a feature rebuild began after
  an earlier session and did not see it; an *earlier* session was re-ingested, which
  dirties only its own window; a replay rebuild cleaned its windows although only the counterfactual
  run was saved; or rows that an upsert left behind, or that were made from such. Each of these
  disjuncts is needed: without it TLC finds a counterexample (for that of the counterfactual run in the
  instance of `pipeline_race` with one revision and both values of `Forces`: a forced rebuild is refused its portfolio run, another worker cleans the input, the counterfactual goes
  through). `CleanIsCurrent` is what remains certain when operations do not overlap and cover all
  dates: the rows the last build wrote are current, but older ones may stay among them. `WindowsSettle`: after the
  last upsert, repeating the rebuilds of all dates cleans every window and repairs every row they
  write; the leftover ones no rebuild takes away.
- **Scanner.** A row says "running" of exactly the runs that poll, but for the four events above; a
  task never writes a signal under the id of the run that replaced it; a subscriber sees signals in
  order and once; a stop always ends.
- **Ingestion.** Between stored days of an intraday series every gap was refused, found empty or left out of its
  answer by the provider, overwritten by a late answer, or lies before a range that began later, named explicitly or the
  first refresh of a series without bars, or before rows that the older route stored outside of its window:
  nothing else leaves one, neither an interrupted run nor an overlap or the order of windows. Of each trading
  day of a run that says COMPLETED something is stored, or an answer without an error had no row of
  it; a refusal or a window never asked for is not hidden. No approval passes to a later check.
- **Replay.** Open trades stay within the limits. `DecidesOnThePast` compares the loop with a trader
  who knows only what has closed: they agree when one trade is held at a time or there is no cooldown.
  Without that hypothesis TLC finds a trade skipped for a cooldown whose cause is still open. The
  replay and the labels give one candidate one exit and one return whenever their stops coincide.
- **Studies.** COMPLETE, which makes a run evidence for activation, means every scenario of the
  default grid, once, of the replay it names, under which the gate finds it unless a request resumed it by its id for
  another (section 6); a replay of outdated features or candidates was allowed to, was overtaken by bars, or
  followed a build that had hidden them. COMPLETE is taken back only for another replay or grid, or by an
  invocation that had read less. Verdicts follow the thresholds a run states unless it was
  resumed under others. A completed set's summary is that of its results unless windows share an
  index, runs overlapped or a rerun died. Generated windows cover the range and keep the embargo.
- **Store.** Every revision applies to what the others left, the startup script to every file, wherever
  an earlier start stopped and whatever starts beside it (a start may still be refused); and both databases
  end with one shape.

### Bounds

One job is enough for the races of the queue, since processes meet on one row; two jobs and a batch
of two exercise the batch in the serial run, with one job that is retried and one that is not.
Two workers are the fewest that can both hold a lease. In governance, two models give one of each
type, which is what the two tables can disagree about; two reports give an older and a newer one; two
proposals let the server and a worker create one each. In the pipeline, two dates are the fewest with
an earlier session; two revisions let a row be outdated rather than missing; the race needs
three processes and takes one date, because the windows of different dates are cleaned in
independent commits, and the dates are exercised in the serial runs. These two runs have no crash, which
leaves what a process has committed and so adds no way to hide rows; `pipeline_serial` has one, and the theorem on
`HiddenOnly` any number. Likewise `scheduler_race` has no fault: `AuditTrail` with faults is a
theorem. `pipeline_ranges` keeps one
revision, so that there an outdated row is one that was computed before bars of some date existed.

In the scanner, two runs and two stops are the fewest in which a stop finishes another run than the
one it waited for; a queue of one is full at the second signal. In ingestion, three days are the
fewest with a day between two others, and a span of one day lets a first refresh begin after
the first of them; two requests let a late answer overwrite an earlier one. In the
replay, five bars and three candidates let two trades be open when a third is decided, with an
exit still to come. In the studies, three scenarios are the fewest of which two can be missing, two
kept and one in a group of its own; budgets separate what does not interact, since the
state of window sets and that of sensitivity runs meet only in `replays`. In the store, the file ages are
those before each group of added columns, and a second migration reverses a first.
Counters (`attempts`, ids, revisions, budgets) are capped by guards named in the constants.

`CHECK_DEADLOCK FALSE` is given everywhere: with the bounded numbers of requests, upserts
and faults used up, the systems rest.

### Fairness

A process that has begun an operation goes on with it (WF on its steps; a crash ends
the operation instead): the code is straight-line and does not wait for other processes. Clocks
advance (WF). The operator keeps invoking the worker, and keeps repeating the rebuilds of all dates
(SF on the start: `docs/non-autonomous-scheduler.md` and `docs/live-data-artifact-readiness.md`
describe exactly these repeated commands; strong, because starting is possible only while the process
is idle). Nothing is assumed about requests, cancellations or the order of rebuilds.
Nothing recovers research cycles, hence the `Abandoned` exception in `CyclesEnd`. In the scanner the
event loop runs what is ready: a task that was cancelled, and a stop whose task has ended (WF); the
provider need not ever answer. `Ingestion`, `Replay`, `Studies` and `EvidenceStore` state no
liveness: nothing in the code retries a request, a set or a migration by itself.

## 4. What is proved

`tlapm` checks all of it; no step is left without a proof. Every theorem is for all values of the
constants that satisfy the named assumptions of the module it is about; those say that sizes and
budgets are numbers, that names of different things differ, and which requests there are. Each module
proves its type invariant (`TypeCorrect`), and every invariant, action property and refinement of
section 3 is the statement of a theorem; only liveness is left to TLC. TLC checked the
properties on the small instances before they were proved; where a property is stated under a
hypothesis, the hypothesis is in the theorem.

The provers cannot instantiate the induction theorems of the library, which take an operator, so
induction is over sets: a set of numbers that has 0 and with each number the next has all
of them, since `<` on the naturals is well-founded and a set of exceptions would have a least member
(`Induction` in `EvidenceStoreProofs`; `MinIsLeast` and `MaxIsGreatest`, in the modules that use
the `Min` and `Max` of the community modules, rest on the same fact). It also shows that the function a
`FoldLeft` or a recursive definition chooses exists, hence satisfies its equation.

### Scheduler (`SchedulerProofs`)

- `AttemptsAreBounded` and `QueuedJobsAreLeasable`, under every interleaving, from `AttemptsInvariant`.
  Neither property is inductive: a lease is written from an image read earlier, and a blind
  save may bring an old image back. `AttemptsInv` adds that a process about to write a lease read
  a row with an attempt left; the bound on images in memory (not just on the table) is what carries
  the blind saves.
- `AuditTrailHolds`, under every interleaving, from `AuditInvariant`: the job of every terminal row is
  *settled* (its event is there, or a process stands at the statement that appends it), but
  for at most `faults` jobs. A step may unsettle one job, and then it is a fault; the rest of the argument
  is that a process that overwrites a row takes the debt over with it.
- `LeaseMeansRunningHolds` and `LifecycleImplemented` (the refinement of `JobLifecycle`, step
  by step), under `OneAtATime`, from `SerialInvariant`. `Serial` says what a process that is alone knows of
  the row it is about to write, at each statement: that the image it read is what the table holds
  (`KnowsQueued`), that its jobs run (`KnowsRunning`, `KnowsHeartbeat`, `KnowsHeld`), that those it
  recovers are stale (`KnowsStale`), that the job whose event fails had ended (`KnowsFinished`). `RowsSound`
  needs `OwnersAssumption`: an owner is not the absence of one. Without the hypothesis both are false,
  since no write checks the row it replaces.

### ModelGovernance (`GovernanceProofs`)

- `ActiveWasAccepted`, `TablesAgree`, `RequestedFirst`, from `GovernanceInvariant`: `UniqueIds` (report
  ids are distinct); `IdleIsClean` (an idle process remembers nothing); `GatePassed` (a process
  between the gate and the commit of an activation holds a report that backs its model, which stays
  true because reports are never changed); `Recommending` (a process about to save a proposal that
  recommends activation holds an accepted report, of the challenger or of the ids its run named); and
  the properties themselves.
- `RecommendedIsBacked`, from the same invariant. That a named report may be another model's is the code
  (section 6); `ActiveWasAccepted` holds of such proposals too, since the gate of the activation looks up reports
  by model again.
- `LedgerExplainsStatus`, `CompletedCyclesAreBacked` and `LifecycleImplemented` (the refinement of
  `ProposalLifecycle`), from `LedgerInvariant`. `KnowsStatus`: only the API server changes
  statuses, so between a row and its ledger entry the status is the one it saved; `KnowsProposal`: what
  a cycle that completes knows of the proposal it made, whoever else runs the cycle; `Owed`: proposals the
  ledger neither explains nor is about to, at most as many as the processes that died.

### PipelineWindows (`PipelineProofs`)

- `HiddenOnlyHolds`: the list of ways in which rows get outdated behind a clean window is complete, for
  any number of dates and processes and any overlap. `PipelineInv` says of each busy process where in
  its script it is (`OnScript`), and that what it was told by a check, has read and has written still
  stands for every date that no other process touched (`CheckStands`, `ReadStands`, `WriteStands`).
  `RowsHaveBars` and `LeftoversHaveRows` cover the dates without bars and without rows. Each kind of step has a lemma
  for what it hides.
- `CleanIsCurrentHolds`, under `OneOverAll`: one operation at a time, over all dates, without
  `allow_dirty_inputs`, `allow_stale` and the label build service, with any number of crashes. `SerialInv`
  adds that the busy operation is alone and sees every date with bars (`Alone`), that a replay rebuild
  whose inputs were clean saves its portfolio run (`ReplayGoesThrough`), that what it saved is current, and
  that no candidate row is newer than the feature row it derives from (`FeaturesFirst`). It is about the rows the last
  build wrote: what of the older ones stays is whatever `MayStay` allows.

### Scanner (`ScannerProofs`)

- `RunRowsExplainedHolds`, `SignalsTellRunHolds`, `StreamOrderHolds`, from `Invariant`. `Control` is
  what starts, stops and tasks know of each other at every await: the state's run, task and newest queue
  belong together (`Current`), a task nobody cancelled is the one of the state (`LiveIsCurrent`), a
  cancelled one is awaited by some stop (`CancelAwaited`), and a stop awaits the task of the current run
  unless a start came in between, which excuses both (`StopsAwait`). Hence a task that still persists
  signals writes under its own run and to the newest queue; `Stream` then orders the queues among each other,
  and what a subscriber got before all that it can still get.

### Ingestion (`IngestionProofs`)

- `GapsExplainedHolds`, `CompletedIsStoredHolds`, `GateIsReviewedHolds`, from `IngestionInvariant`. Of
  the days in the range of a request each is settled or still to be asked for, and those before it were
  settled, or written down as skipped, when it began (`LeavesNoGap`); each day is stored, was left out of an
  answer, is awaited or among the errors (`LeavesNothing`); a range has ended when it is asked for
  (`RangeIsPast`), so that what arrives is final but for the last day. Other requests only settle days,
  unless they overwrite one late, which is a cause. `Reviewing`: an approval is for the latest check.

### Replay (`ReplayProofs`)

- `WithinLimitsHolds` and `DecidesOnThePastHolds`, from `ReplayInvariant`. What the loop remembers is
  compared with the trades taken: those no longer in `open` have ended (`OpenRemembers`), the time a setup waits for is
  its last exit (`UntilRemembers`), the cooldown that of a trade, the last one where cooldowns
  count (`CoolRemembers`). The second theorem keeps the hypothesis of its property, one trade at a time or no
  cooldown.
- `LabelsAgreeHolds`: a lemma on each engine (`EndsInFuture`, `ExitsAgree`, `ReturnsAgree`) for any bars.
- `DrawdownIsWorstStretchHolds`, for runs of any length. `SumsExist` names the running sums `P` and the running
  losses `G` of the returns; `TotalIsSum` shows that a fold computes them; `StretchIsDifference`, that the
  sum of a stretch is a difference of two of them. Hence a drawdown is the difference to the greatest
  sum so far, the least drawdown is the worst stretch, and `LossesBelow` bounds every difference
  by the losses. `TakenAreCounted` relates the trades taken to the outcomes they are picked from.

### Studies (`StudiesProofs`)

- `GradeIsSound`, `ScenariosAreExplained`, `ReplaysAreExplained`, from `Soundness`. `Inv` says of every
  row, and of what every process remembers of the rows, why it is sound. `RunSound` and `StudySound`
  trace the thresholds of a scenario to those in the id of its run, which is a hash of them in the code, through
  the merge of a resumed configuration; `StoredSound` keeps the scenarios of one replay apart, in the
  table and in the copy an invocation read; `CleanSound` says that rows behind clean windows are built of
  the bars of now until a build hides others,
  `BuildSound` what a build has read or written, and `ReplayingSound` that what a stale check saw still holds
  or bars came since. `Progress` collects what no step takes back, `Frame` shows that it
  preserves whatever a step does not touch. That a COMPLETE grid is the whole one is a counting argument
  over an injection.
- `CompletionStands`: an invocation that read a COMPLETE run selects the whole grid, keeps
  everything, finds nothing missing and saves it COMPLETE.
- `WindowsCoverHolds` and `SummaryExplainedHolds`, from `WindowSoundness`. The first is arithmetic
  (`Division`, `Multiples`, `StartsReach`) and one lemma on the windows of each mode. For the second, `WindowInv`
  says that a run of the set that is alone has what is stored of the windows behind it and knows what
  is stored of those ahead, as long as no two windows share an index.

### EvidenceStore (`EvidenceStoreProofs`)

- `ScriptsApplyHolds`, `BackendsAgreeHolds` and `AcceptedIsCurrentHolds`, from `StoreInvariant`, for any number of
  processes, any files left at a revision and any sequence of migrations between revisions.
  `RevisionsAssumption` says that these are revisions there are, 0 to 12; `TypeCorrect` also needs
  `SettingsAssumption`, the two kinds of database and the switch for the fallback.
- The invariant, `StoreInv`: no statement has raised; the PostgreSQL database has exactly what its version
  says, but for the hypertable (`Fits`); the SQLite file has only what the script makes, and no keyed table
  without its key (`KeysThere`); what a process has run of the script is in the file
  (`Done`), whoever put it there. A statement that finds its object already there does nothing, so without
  `KeysThere` a table could be taken for granted that lacks its key.
- Underneath are facts about the scripts as they are written. Each is put together from its lists:
  what a list makes, and that every statement builds on what came before it (`Enumerates`, `Covered`).
  Each object has an age, the revision it came with (`Born`), so that what a revision makes is new to the
  schema before it, and going back drops just that; `Level(n)` is what has come up to revision `n`.
  `UpgradeFits` and `DowngradeFits` are the inductions along a migration.

### Only model-checked

- Liveness: `JobsEnd`, `CyclesEnd`, `WindowsSettle`, `StopEnds`. Fairness and ENABLED are out of the prover's reach.

## 5. What is not modelled, and why

- `SchedulerJobRepository.release` is called only by a test. Job bodies are outcomes.
- Windows of several symbols and intervals (rebuilds treat them alike), the daily replay windows
  that are not applicable, the readiness sequence (it calls the rebuilds in turn).
- Artifacts and exports attached to cycles; the dry run of a cycle.
- Validation splits, calibration audits and drift: one request computes and saves one report from floating-point
  statistics; nothing is kept between requests.
- Indicators, regimes and scoring: floating-point code. Request parsing, redaction, rate-limit counters,
  exports, reviews and the front end: input and output around the state that is modelled.
- Test-fixture guards before some saves: a scan of values.

## 6. Observations

Modelling met code that does not do what a doc, comment or name nearby says, or does something
worth knowing. None is needed for a property to hold; where one matters, the property names the
exception.

- `cancel` can overwrite a row leased in between, although only queued jobs "can be cancelled"
  (`services/scheduler.py:174`); a heartbeat that found no lease is reported as recorded (`:253`).
- `validation_report_ids` are not matched with the challenger (`services/research.py:150`), so that a challenger may
  be recommended on the report of another model, although `docs/validation-methodology.md:63` asks for a report
  "for the challenger"; it cannot be activated on it. Activation consults the latest report of one purpose
  (`services/workflows.py:1399`, `docs/persistence-architecture.md:134`).
- Candidates and labels are never deleted (`db/repositories.py:1899`, `:2021`). When re-ingested bars no longer
  have a setup, its rows stay behind the clean window, no rebuild removes them, and the label rebuild and the
  replays read them.
- `mark_built` cleans the window of one date whatever the range (`db/repositories.py:5509`); the
  label rebuild looks at the windows of the candidates only.
- A replay rebuild cleans its windows when only the counterfactual run was saved
  (`services/artifact_readiness.py:341`); the portfolio run may have been refused as stale.
- The first incremental refresh of a series without bars starts a fixed span before its end
  (`services/fmp_pipeline.py:232`). If another request is storing older bars meanwhile, days between
  the two stay missing, and no later refresh asks for them.
- `start` of the scanner sets `running` before the row is inserted: when that fails, the state says
  running without a task. `stop` raises again what its task raised and then leaves the row running. A
  restart gives the stream a new queue; a subscriber that waits on the old one is not told.
- A provider body that is no JSON counts as an empty one, so a garbled answer reads as "no data".
- An answer that brings only some of the days of its window, or rows of others, leaves a run COMPLETED with at
  most a warning (`services/fmp_pipeline.py:762`); `quant/test_phase15_fmp_provider.py:216` has such a run of daily bars.
- The replay's stop may lie at the low of the entry bar, which is not known at the entry
  (`backtesting/replay.py:536`); with several trades at once a cooldown starts before its cause
  has happened (`:377`).
- A failed or refused window is saved as "completed", so `failed_window_count` stays 0 and
  later runs skip it unless they rerun; `run` runs a rejected set; custom windows with one index
  overwrite each other's results; the two replays of a window may read different bars.
- The save of a sensitivity run leaves column `replay_run_id` alone (`db/repositories.py:5268`). A run resumed by
  its id for another replay is saved with the scenarios of that one, and stays listed under the first: the
  activation gate (`services/workflows.py:622`) takes it for the first, where
  `docs/status/PHASE_21W_FULL_GRID_SPEC_2026-07-05.md:114` wants all scenarios "persisted for the replay run".
- A sensitivity run resumed under other thresholds mixes verdicts; a complete grid is
  not computed again after bars change. The request schema of the API lacks the coverage mode, the
  limits and the run id, so that chunked and resumed grids are reachable from the service only.
- A downgrade leaves the hypertable (`alembic/versions/0004`); the fixture guard is not called by
  every repository.

## 7. Plan

1. Composition of `Scheduler` with `PipelineWindows`, so that a recovered rebuild runs twice.
2. `Ingestion` marking the windows of `PipelineWindows`, with the UTC and Eastern dates of a bar apart.
3. `Replay` with several symbols, so that the limit of the portfolio and of a symbol differ.
4. Proofs: the abstract specification of a build window (dirty until rebuilt), as a refinement of the
   serial pipeline; the safety lemmas below the liveness properties (which processes a state waits for).
