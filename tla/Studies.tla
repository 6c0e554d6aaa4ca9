------------------------------- MODULE Studies -------------------------------
(***************************************************************************)
(* What is built on the market replays: sets of replay windows, which run  *)
(* replays, and sensitivity grids, which replay one run again under other  *)
(* costs.  Requests are served by processes that share the database and    *)
(* nothing else (the API server, an operator's script); every statement is *)
(* a commit of its own, bars may be stored between any two, and a process  *)
(* may die between any two.                                                *)
(*                                                                         *)
(* A version of the bars stands for the bars of the replayed symbol; the   *)
(* versions of its features and candidates say which bars the rows of the  *)
(* replayed dates, and of those they look back to, were last built of;     *)
(* rows of earlier builds that a build leaves behind are PipelineWindows's.*)
(* A replay knows of all that by the windows that are marked dirty only.   *)
(* A scenario is a number, its place in the default grid.  Time is in      *)
(* ticks.                                                                  *)
(***************************************************************************)
EXTENDS Integers, Sequences, FiniteSets

CONSTANTS
    Procs,        \* processes that serve requests
    NumScenarios, \* scenarios of the default grid (75 in the code)
    LowCosts,     \* the scenarios of the group "low_costs"
    Essential,    \* the grid of the mode TIERED_ESSENTIAL
    Payloads,     \* what requests say of a sensitivity run: some of its fields
    Budgets       \* bounds: the sets that may be created, requests for replays, sensitivity runs, runs of
                  \* the set, bar upserts, builds, crashes

Scenarios == 1..NumScenarios

\* ReplayWindowSetRequest, whose sizes and steps are at least one day once they are read; windows are the
\* indexes that the windows of mode custom give themselves.
SetRequest == [
    mode : {"daily", "rolling", "anchored", "custom"}, start : Int, end : Int, size : Nat \ {0}, step : Nat \ {0},
    train : Int, embargo : Nat, windows : Seq(Int), limit : Int, immediately : BOOLEAN, allowStale : BOOLEAN]

\* The coverage modes the code knows, and one that it does not.
Modes == {"FULL_GRID", "CHUNKED_FULL_GRID", "TIERED_ESSENTIAL", "SAMPLED", "PARTIAL_TIMEOUT", "OTHER"}

\* The fields of a SensitivityConfig; a limit of NumScenarios + 1 is one that is not given.
Fields == [mode |-> Modes, grid |-> SUBSET Scenarios, thresholds |-> Nat, max |-> 0..(NumScenarios + 1),
           perInvocation |-> 0..(NumScenarios + 1), timed |-> BOOLEAN, group |-> {"all", "low_costs"}]
Gives(data) == \A field \in DOMAIN data : field \in DOMAIN Fields /\ data[field] \in Fields[field]

ASSUME BoundsAssumption ==
    /\ NumScenarios \in Nat
    /\ Budgets \subseteq [sets : {b.sets : b \in Budgets}, replays : Nat, studies : Nat, setRuns : Nat,
                          bars : Nat, builds : Nat, crashes : Nat]
    /\ LowCosts \subseteq Scenarios /\ Essential \subseteq Scenarios

ASSUME RequestsAssumption ==
    /\ \A b \in Budgets : b.sets \subseteq SetRequest
    /\ \A data \in Payloads : Gives(data)

VARIABLES
    bars,     \* version of the stored bars
    built,    \* version of the bars that the features, and the candidates, were built of
    dirty,    \* the artifacts with a window that is marked dirty
    replays,  \* replay_runs, by the order in which they were saved
    runs,     \* replay_sensitivity_runs with their scenarios, by sensitivity_run_id
    set,      \* the row of replay_window_sets
    results,  \* replay_window_results of the set, by window_index
    proc,     \* what each process is doing
    left,     \* what is left of the budget
    excused   \* history: the runs resumed with other thresholds, and for another replay than that they are
              \* listed under; whether window runs overlapped or a rerun died; whether a build hid outdated rows

vars == <<bars, built, dirty, replays, runs, set, results, proc, left, excused>>

Artifacts == {"features", "candidates"}
Idle == [at |-> "idle"]
NoId == [replay |-> 0]
NoSet == [status |-> "none"]

Init ==
    /\ bars = 0 /\ built = [a \in Artifacts |-> 0] /\ dirty = {}
    /\ replays = <<>> /\ runs = <<>>
    /\ set = NoSet /\ results = <<>>
    /\ proc = [p \in Procs |-> Idle]
    /\ left \in Budgets
    /\ excused = [thresholds |-> {}, replays |-> {}, windows |-> FALSE, builds |-> FALSE]

Become(p, q) == proc' = [proc EXCEPT ![p] = q]
Spend(what) == left[what] > 0 /\ left' = [left EXCEPT ![what] = @ - 1]

\* dict.update: the fields of f, and those of g that f does not give.
Over(f, g) == [k \in DOMAIN f \union DOMAIN g |-> IF k \in DOMAIN f THEN f[k] ELSE g[k]]
\* An upsert: the row of key k is v.
Put(rows, k, v) == [i \in DOMAIN rows \union {k} |-> IF i = k THEN v ELSE rows[i]]

-----------------------------------------------------------------------------
(* The inputs of replays. *)

\* BarRepository.upsert_many marks what is derived from the bars in the same commit.
StoreBars ==
    /\ Spend("bars") /\ bars' = bars + 1 /\ dirty' = Artifacts
    /\ UNCHANGED <<built, replays, runs, set, results, proc, excused>>

\* A build reads its source, of the dates that are replayed or of others: bars, or, whether dirty or not
\* (only some of the services that build candidates look), features.
Build(p) ==
    /\ proc[p] = Idle /\ Spend("builds")
    /\ \E a \in Artifacts, covers \in BOOLEAN :
        Become(p, [at |-> "write", artifact |-> a, covers |-> covers, began |-> bars,
                   of |-> IF a = "features" THEN bars ELSE built["features"],
                   dirtyInput |-> a = "candidates" /\ "features" \in dirty])
    /\ UNCHANGED <<bars, built, dirty, replays, runs, set, results, excused>>

Excuse(here) == excused' = [excused EXCEPT !.builds = @ \/ here]

\* Rows are hidden when others of newer bars may already have been written and marked, or as soon as the
\* build is marked.
WriteRows(p) == LET q == proc[p] IN
    /\ q.at = "write"
    /\ built' = IF q.covers THEN [built EXCEPT ![q.artifact] = q.of] ELSE built
    /\ Excuse(q.covers /\ (q.dirtyInput \/ q.began # bars))
    /\ Become(p, [q EXCEPT !.at = "mark"])
    /\ UNCHANGED <<bars, dirty, replays, runs, set, results, left>>

\* The build cleans one window, that of the first of its dates, or those that it found dirty: the last
\* ones or not, whatever their dates and whatever was stored in between.
MarkBuilt(p) == LET q == proc[p] IN
    /\ q.at = "mark"
    /\ \/ dirty' = dirty \ {q.artifact} /\ Excuse(~q.covers \/ q.began # bars)
       \/ UNCHANGED <<dirty, excused>>
    /\ Become(p, Idle)
    /\ UNCHANGED <<bars, built, replays, runs, set, results, left>>

\* _replay_input_stale_status: the replay's features or candidates have dirty windows, and nothing else.
Stale == dirty # {}

-----------------------------------------------------------------------------
(* generate_replay_windows.  A span is [from, to); a window of mode custom is what the payload says. *)

Day == 2 \* ticks; sizes, steps and training periods are in days, 0 when they are not given
Span(a, b) == [from |-> a, to |-> b]
NoSpan == Span(0, 0)
Least(a, b) == IF a < b THEN a ELSE b
Most(a, b) == IF a < b THEN b ELSE a

\* The starts of the loop that begins at first and advances by step while before end.
Starts(first, step, end) == [k \in 1..((end - first + step - 1) \div step) |-> first + (k - 1) * step]
Replayed(w, start) == Span(start, Least(start + w.size * Day, w.end))

DailyWindows(w) ==
    LET days == Starts((w.start \div Day) * Day, Day, w.end) IN
    [k \in DOMAIN days |-> [index |-> k, train |-> NoSpan,
        replay |-> Span(Most(days[k], w.start), Least(days[k] + Day, w.end))]]

\* The training period of a rolling window is as long as the window unless it is given; negative means none.
TrainSize(w) == IF w.train = 0 THEN w.size ELSE Most(0, w.train)

\* Mutant: the embargo is forgotten.
RollingTrainToStart(w, start) ==
    IF TrainSize(w) = 0 THEN NoSpan ELSE Span(start - TrainSize(w) * Day, start)

RollingTrain(w, start) ==
    IF TrainSize(w) = 0 THEN NoSpan ELSE Span(start - TrainSize(w) * Day, start - w.embargo)

RollingWindows(w) ==
    LET starts == Starts(w.start, w.step * Day, w.end) IN
    [k \in DOMAIN starts |-> [index |-> k, train |-> RollingTrain(w, starts[k]), replay |-> Replayed(w, starts[k])]]

AnchoredStart(w) == w.start + (IF w.train = 0 THEN 5 ELSE Most(1, w.train)) * Day + w.embargo

AnchoredWindows(w) ==
    LET starts == Starts(AnchoredStart(w), w.step * Day, w.end) IN
    [k \in DOMAIN starts |-> [index |-> k, train |-> Span(w.start, starts[k] - w.embargo),
                              replay |-> Replayed(w, starts[k])]]

CustomWindows(w) == [k \in DOMAIN w.windows |->
    [index |-> w.windows[k], train |-> NoSpan, replay |-> Span(w.start, w.end)]]

GenerateWindows(w) ==
    IF w.mode = "custom" THEN CustomWindows(w)
    ELSE IF w.end <= w.start THEN <<>>
    ELSE CASE w.mode = "daily" -> DailyWindows(w)
           [] w.mode = "rolling" -> RollingWindows(w)
           [] w.mode = "anchored" -> AnchoredWindows(w)

-----------------------------------------------------------------------------
(* ReplayWindowOrchestrationService. *)

InLoop == {"counterfactual", "portfolio", "save", "finish"}
Replaying == {"bars", "features", "candidates"}
WindowRuns == {p \in Procs : proc[p].at \in InLoop \/ (proc[p].at \in Replaying /\ proc[p].caller # Idle)}
Overlap == [excused EXCEPT !.windows = @ \/ WindowRuns # {}]

Index(q, k) == q.windows[k].index
Skipped(q, k) == Index(q, k) \in DOMAIN q.existing /\ ~q.rerun

\* Mutant: results taken over are left out of the summary.
ContinueForgetting(q) ==
    LET todo == {k \in q.n..Len(q.windows) : ~Skipped(q, k)}
    IN [q EXCEPT !.n = IF todo = {} THEN Len(q.windows) + 1 ELSE CHOOSE k \in todo : \A j \in todo : k <= j,
                 !.at = IF todo = {} THEN "finish" ELSE IF q.dry THEN "save" ELSE "counterfactual",
                 !.counterfactual = 0, !.portfolio = 0]

\* The loop from window q.n on: those that have a result are taken over, the next one is run.
Continue(q) ==
    LET todo == {k \in q.n..Len(q.windows) : ~Skipped(q, k)}
        next == IF todo = {} THEN Len(q.windows) + 1 ELSE CHOOSE k \in todo : \A j \in todo : k <= j
    IN [q EXCEPT !.n = next,
                 !.got = @ \o [k \in 1..(next - q.n) |-> q.existing[Index(q, q.n + k - 1)]],
                 !.at = IF todo = {} THEN "finish" ELSE IF q.dry THEN "save" ELSE "counterfactual",
                 !.counterfactual = 0, !.portfolio = 0]

\* run() up to its loop: the results are read once, before the first window.
Running(windows, existing, rerun, dry) ==
    Continue([at |-> "run", windows |-> windows, existing |-> existing, rerun |-> rerun, dry |-> dry,
              n |-> 1, got |-> <<>>, counterfactual |-> 0, portfolio |-> 0])

Create(p) ==
    /\ proc[p] = Idle /\ set = NoSet
    /\ \E w \in left.sets : LET windows == GenerateWindows(w) IN
        /\ set' = [status |-> IF Len(windows) > w.limit THEN "rejected" ELSE "created",
                   payload |-> w, windows |-> windows, summary |-> <<>>]
        /\ IF set'.status = "created" /\ w.immediately
           THEN /\ Spend("setRuns") /\ excused' = Overlap
                /\ Become(p, Running(windows, <<>>, FALSE, FALSE))
           ELSE UNCHANGED <<proc, left, excused>>
    /\ UNCHANGED <<bars, built, dirty, replays, runs, results>>

\* run(), of a rejected set too.
RunSet(p) ==
    /\ proc[p] = Idle /\ set # NoSet /\ Spend("setRuns") /\ excused' = Overlap
    /\ \E rerun, dry \in BOOLEAN : Become(p, Running(set.windows, results, rerun, dry))
    /\ UNCHANGED <<bars, built, dirty, replays, runs, set, results>>

After(kind) == IF kind = "counterfactual" THEN "portfolio" ELSE "save"
Returned(caller, kind, id) ==
    IF caller = Idle THEN Idle ELSE [caller EXCEPT !.at = After(kind), ![kind] = id]

\* run_replay up to its stale check, which refuses or not.

\* Mutant: the permission is read the wrong way round.
RefusedIfAllowed(allowStale) == Stale /\ allowStale

Refused(allowStale) == Stale /\ ~allowStale
Checked(caller, kind, allowStale) ==
    IF Refused(allowStale) THEN Returned(caller, kind, 0)
    ELSE [at |-> "bars", kind |-> kind, checked |-> bars, read |-> bars, features |-> built["features"],
          stale |-> Stale, allowed |-> allowStale, caller |-> caller]

CheckStale(p) == LET q == proc[p] IN
    /\ q.at \in {"counterfactual", "portfolio"}
    /\ Become(p, Checked(q, q.at, set.payload.allowStale))
    /\ UNCHANGED <<bars, built, dirty, replays, runs, set, results, left, excused>>

\* A request for a replay of its own.
RunReplay(p) ==
    /\ proc[p] = Idle /\ Spend("replays")
    /\ \E allowStale \in BOOLEAN : Become(p, Checked(Idle, "portfolio", allowStale))
    /\ UNCHANGED <<bars, built, dirty, replays, runs, set, results, excused>>

\* The rest of run_replay: the bars are read, then the features, then the candidates, and the run is saved.
ReadBars(p) == LET q == proc[p] IN
    /\ q.at = "bars"
    /\ Become(p, [q EXCEPT !.at = "features", !.read = bars])
    /\ UNCHANGED <<bars, built, dirty, replays, runs, set, results, left, excused>>

ReadFeatures(p) == LET q == proc[p] IN
    /\ q.at = "features"
    /\ Become(p, [q EXCEPT !.at = "candidates", !.features = built["features"]])
    /\ UNCHANGED <<bars, built, dirty, replays, runs, set, results, left, excused>>

Replay(p) == LET q == proc[p] IN
    /\ q.at = "candidates"
    /\ replays' = Append(replays, [kind |-> q.kind, bars |-> q.read, features |-> q.features,
                                   candidates |-> built["candidates"], stale |-> q.stale,
                                   allowed |-> q.allowed, moved |-> q.checked # bars])
    /\ Become(p, Returned(q.caller, q.kind, Len(replays) + 1))
    /\ UNCHANGED <<bars, built, dirty, runs, set, results, left, excused>>

\* save_result: every result is "completed", that of a refused replay too.
Result(q) == [counterfactual |-> q.counterfactual, portfolio |-> q.portfolio, status |-> "completed",
              compared |-> q.counterfactual # 0 /\ q.portfolio # 0]

SaveResult(p) == LET q == proc[p] IN
    /\ q.at = "save"
    /\ results' = Put(results, Index(q, q.n), Result(q))
    /\ Become(p, Continue([q EXCEPT !.n = @ + 1, !.got = Append(@, Result(q))]))
    /\ UNCHANGED <<bars, built, dirty, replays, runs, set, left, excused>>

FinishSet(p) == LET q == proc[p] IN
    /\ q.at = "finish"
    /\ set' = [set EXCEPT !.status = "completed", !.summary = q.got]
    /\ Become(p, Idle)
    /\ UNCHANGED <<bars, built, dirty, replays, runs, results, left, excused>>

-----------------------------------------------------------------------------
(* SensitivityConfig and ReplaySensitivityEngine. *)

None == NumScenarios + 1 \* a limit that is not given
ActivationGrade == {"FULL_GRID", "CHUNKED_FULL_GRID"}
Given(data, field, default) == IF field \in DOMAIN data THEN data[field] ELSE default

FromPayload(data) ==
    LET mode == Given(data, "mode", "FULL_GRID") IN
    [mode |-> mode,
     grid |-> Given(data, "grid", IF mode = "TIERED_ESSENTIAL" THEN Essential ELSE Scenarios),
     thresholds |-> Given(data, "thresholds", 1),
     max |-> Given(data, "max", None),
     perInvocation |-> Given(data, "perInvocation", None),
     timed |-> Given(data, "timed", FALSE),
     group |-> Given(data, "group", "all")]

\* Mutant: the identity is that of the configuration alone.
RunIdOfConfig(r, config) == [replay |-> 1, mode |-> config.mode, grid |-> config.grid,
                             thresholds |-> config.thresholds, max |-> config.max]

\* sensitivity_run_id: the replay and identity_payload, which leaves the limits of one invocation out.
RunId(r, config) == [replay |-> r, mode |-> config.mode, grid |-> config.grid,
                     thresholds |-> config.thresholds, max |-> config.max]

\* The order in which scenarios are taken: by place, SAMPLED by hash.
Rank(config, s) == IF config.mode = "SAMPLED" THEN NumScenarios - s ELSE s
FirstOf(config, S, n) == {s \in S : Cardinality({t \in S : Rank(config, t) < Rank(config, s)}) < n}
Selected(config) == FirstOf(config, config.grid, config.max)

InGroup(config) == IF config.group = "low_costs" THEN LowCosts ELSE Scenarios

\* Mutant: a resumed run starts again.
KeptNothing(existing, r, config) == {}

\* _dedupe_existing_scenarios: scenario ids are hashes of the run, the replay and the scenario.
Kept(existing, r, config) == {d \in existing : d.replay = r /\ d.scenario \in Selected(config)}

DefaultGrid(config) == config.grid = Scenarios /\ config.max = None
Complete(all, config) == Cardinality(all) = Cardinality(config.grid)
FullGrid(all, config) == Complete(all, config) /\ DefaultGrid(config) /\ config.mode \in ActivationGrade

Completion(all, config, exhausted) ==
    IF FullGrid(all, config) THEN "COMPLETE"
    ELSE IF exhausted \/ config.mode = "PARTIAL_TIMEOUT" THEN "PARTIAL_TIMEOUT"
    ELSE IF Complete(all, config) THEN "BOUNDED_COMPLETE" ELSE "PARTIAL"

-----------------------------------------------------------------------------
(* BacktestService.run_sensitivity. *)

\* The replay and the bars of now are read.
Study(p) ==
    /\ proc[p] = Idle /\ Spend("studies")
    /\ \E r \in DOMAIN replays, payload \in Payloads, id \in DOMAIN runs \union {NoId} :
        Become(p, [at |-> "previous", replay |-> r, bars |-> bars, payload |-> payload, id |-> id])
    /\ UNCHANGED <<bars, built, dirty, replays, runs, set, results, excused>>

\* Mutant: a resumed run takes its configuration from the request alone.
MergedForgetting(q) == q.payload

\* The fields of a run resumed by its id stand where the payload gives none.
Merged(q) == IF q.id = NoId THEN q.payload ELSE Over(q.payload, runs[q.id].config)

\* The request itself resumes the run under other thresholds than its own.
Rethresholds(q) ==
    IF q.id = NoId THEN FALSE
    ELSE Given(q.payload, "thresholds", runs[q.id].config.thresholds) # runs[q.id].config.thresholds

\* The request resumes a run that is listed under another replay.
Elsewhere(q) == IF q.id = NoId THEN FALSE ELSE runs[q.id].listed # q.replay

ReadPrevious(p) == LET q == proc[p] IN
    /\ q.at = "previous"
    /\ LET config == FromPayload(Merged(q))
           id == IF q.id = NoId THEN RunId(q.replay, config) ELSE q.id
       IN Become(p, [at |-> IF id \in DOMAIN runs THEN "scenarios" ELSE "engine", replay |-> q.replay,
                     bars |-> q.bars, config |-> config, id |-> id, existing |-> {},
                     rethresholded |-> Rethresholds(q), elsewhere |-> Elsewhere(q)])
    /\ UNCHANGED <<bars, built, dirty, replays, runs, set, results, left, excused>>

ListScenarios(p) == LET q == proc[p] IN
    /\ q.at = "scenarios"
    /\ Become(p, [q EXCEPT !.at = "engine", !.existing = runs[q.id].scenarios])
    /\ UNCHANGED <<bars, built, dirty, replays, runs, set, results, left, excused>>

\* How many of n scenarios an invocation runs: all, or some when its time is limited.
Ran(config, n) == IF config.timed /\ n > 0 THEN 1..n ELSE {n}

\* The column replay_run_id, by which list_for_replay and so the activation gate find a run: the upsert
\* leaves it as it is.
Listed(q) == IF q.id \in DOMAIN runs THEN runs[q.id].listed ELSE q.replay

\* What may be saved of what the engine returns: scenarios kept and run, and how far the grid is.
Engine(q) ==
    LET kept == Kept(q.existing, q.replay, q.config)
        missing == Selected(q.config) \ {d.scenario : d \in kept}
        todo == FirstOf(q.config, missing \intersect InGroup(q.config), q.config.perInvocation)
        New(n) == {[replay |-> q.replay, scenario |-> s, bars |-> q.bars, thresholds |-> q.config.thresholds] :
                   s \in FirstOf(q.config, todo, n)}
    IN {[replay |-> q.replay, listed |-> Listed(q), config |-> q.config, scenarios |-> kept \union New(n),
         sources |-> replays[q.replay].bars,
         completion |-> Completion(kept \union New(n), q.config, n < Cardinality(todo))] :
        n \in Ran(q.config, Cardinality(todo))}

\* All of the run's row but that column is replaced, its payload and with it the replay it names, and all
\* its scenarios, in one transaction.
SaveStudy(p) == LET q == proc[p] IN
    /\ q.at = "engine"
    /\ \E run \in Engine(q) : runs' = Put(runs, q.id, run)
    /\ excused' = [excused EXCEPT
                      !.thresholds = IF q.rethresholded THEN @ \union {q.id} ELSE @,
                      !.replays = IF q.elsewhere THEN @ \union {q.id} ELSE @]
    /\ Become(p, Idle)
    /\ UNCHANGED <<bars, built, dirty, replays, set, results, left>>

-----------------------------------------------------------------------------
\* A rerun that dies may have replaced results whose summary stands.
Replacing(p) == p \in WindowRuns /\ (IF proc[p].at \in Replaying THEN proc[p].caller ELSE proc[p]).rerun

\* A process dies: what it committed stands, nothing resumes the rest.
Crash(p) ==
    /\ proc[p] # Idle /\ Spend("crashes")
    /\ excused' = [excused EXCEPT !.windows = @ \/ Replacing(p)]
    /\ Become(p, Idle)
    /\ UNCHANGED <<bars, built, dirty, replays, runs, set, results>>

Next ==
    \/ StoreBars
    \/ \E p \in Procs :
        \/ Build(p) \/ WriteRows(p) \/ MarkBuilt(p)
        \/ RunReplay(p) \/ CheckStale(p) \/ ReadBars(p) \/ ReadFeatures(p) \/ Replay(p)
        \/ Create(p) \/ RunSet(p) \/ SaveResult(p) \/ FinishSet(p)
        \/ Study(p) \/ ReadPrevious(p) \/ ListScenarios(p) \/ SaveStudy(p)
        \/ Crash(p)

Spec == Init /\ [][Next]_vars
-----------------------------------------------------------------------------
(* Properties. *)

Scenario == [replay : Nat \ {0}, scenario : Scenarios, bars : Nat, thresholds : Nat]

\* Rows hold what their readers expect: a run refers to a replay that was saved and names only
\* scenarios of its grid's size, a result refers to replays that were saved, or to none.
TypeOK ==
    /\ bars \in Nat /\ built \in [Artifacts -> 0..bars] /\ dirty \subseteq Artifacts
    /\ \A r \in DOMAIN replays : replays[r].kind \in {"counterfactual", "portfolio"}
    /\ \A id \in DOMAIN runs :
        /\ {runs[id].replay, runs[id].listed} \subseteq DOMAIN replays
        /\ DOMAIN runs[id].config = DOMAIN Fields /\ Gives(runs[id].config)
        /\ runs[id].scenarios \subseteq Scenario
    /\ set.status \in {"none", "created", "rejected", "completed"}
    /\ \A i \in DOMAIN results :
        results[i].counterfactual \in 0..Len(replays) /\ results[i].portfolio \in 0..Len(replays)

\* A run is COMPLETE, which makes it evidence for an activation, only with every scenario of the
\* default grid, each once and replayed from the run's own replay, whatever was resumed, limited,
\* sampled, taken over from a run of another replay, or saved by another process in between; and that is
\* the replay whose evidence the gate takes it for, unless a request resumed it by its id for another.
GradeIsWholeGrid == \A id \in DOMAIN runs :
    runs[id].completion = "COMPLETE" =>
        /\ \A s \in Scenarios : \E d \in runs[id].scenarios : d.scenario = s
        /\ Cardinality(runs[id].scenarios) = NumScenarios
        /\ \A d \in runs[id].scenarios : d.replay = runs[id].replay
        /\ runs[id].replay = runs[id].listed \/ id \in excused.replays

\* The verdict of every stored scenario is by the thresholds the run states, unless the run was resumed
\* by its id under others; and no scenario replayed bars older than those its run claims as its source.
ScenariosExplained == \A id \in DOMAIN runs : \A d \in runs[id].scenarios :
    /\ d.thresholds = runs[id].config.thresholds \/ id \in excused.thresholds
    /\ d.bars >= runs[id].sources

\* A run that was COMPLETE stays so: a later save takes it back only for another replay or another
\* grid, or when it read the scenarios before they were complete.
CompleteStands == [][\A id \in DOMAIN runs :
    runs[id].completion = "COMPLETE" /\ runs'[id].completion # "COMPLETE" =>
        \/ runs'[id].replay # runs[id].replay
        \/ ~DefaultGrid(runs'[id].config) \/ runs'[id].config.mode \notin ActivationGrade
        \/ \E p \in Procs : proc[p].at = "engine" /\ proc'[p] = Idle /\ proc[p].existing # runs[id].scenarios
    ]_vars

\* The summary of a completed set is that of its stored results, window by window: whatever runs were
\* repeated and however windows were skipped, unless windows share an index, runs overlapped or a rerun died.
SummaryExplained ==
    set.status = "completed" /\ WindowRuns = {} /\ ~excused.windows =>
        \/ \E j, k \in DOMAIN set.windows : j # k /\ set.windows[j].index = set.windows[k].index
        \/ /\ Len(set.summary) = Len(set.windows)
           /\ \A k \in DOMAIN set.windows : set.windows[k].index \in DOMAIN results
                                         /\ set.summary[k] = results[set.windows[k].index]

\* A replay of features or candidates last built of other bars than those replayed was told to take dirty
\* inputs and says so, or bars came between its check and its last reading, or else a build had hidden
\* outdated rows behind clean windows before: one of other dates, one of dirty features, or one that bars
\* overtook.
ReplaysExplained == \A r \in DOMAIN replays :
    replays[r].features # replays[r].bars \/ replays[r].candidates # replays[r].bars =>
        replays[r].moved \/ (replays[r].stale /\ replays[r].allowed) \/ excused.builds

\* Generated windows lie in the range of the set, train at least the embargo before what they test, and
\* together leave out no time after the first training period unless they are told to step over some.
WindowsCover == set # NoSet => LET w == set.payload IN
    w.mode # "custom" =>
        /\ \A k \in DOMAIN set.windows : LET v == set.windows[k] IN
            /\ w.start <= v.replay.from /\ v.replay.from < v.replay.to /\ v.replay.to <= w.end
            /\ v.train # NoSpan => v.train.to + w.embargo <= v.replay.from
        /\ w.mode = "daily" \/ w.step <= w.size =>
            \A t \in (IF w.mode = "anchored" THEN AnchoredStart(w) ELSE w.start)..(w.end - 1) :
                \E k \in DOMAIN set.windows : LET v == set.windows[k].replay IN v.from <= t /\ t < v.to
===============================================================================
