----------------------------- MODULE StudiesProofs -----------------------------
(***************************************************************************)
(* What Studies keeps for every number of processes, every grid and every  *)
(* payload: a COMPLETE sensitivity run holds the whole default grid, each  *)
(* scenario of its own replay and judged by the thresholds the run states; *)
(* it stays COMPLETE; replays of features or candidates that were not      *)
(* built from their bars say so, or were overtaken, or a build had hidden  *)
(* them; generated windows cover the range of their set; and the summary   *)
(* of a set is that of its stored results.                                 *)
(***************************************************************************)
EXTENDS Studies, FiniteSetsExt, FiniteSetTheorems, WellFoundedInduction, TLAPS

-----------------------------------------------------------------------------
(* Least members. *)

\* A set of numbers up to n that is not empty has a least member, and Min is it.
LEMMA MinIsLeast ==
    ASSUME NEW n \in Nat, NEW S \in SUBSET (0..n), S # {}
    PROVE  Min(S) \in S /\ \A y \in S : Min(S) <= y
<1>1. PICK b \in S : \A y \in S : <<y, b>> \notin OpToRel(<, Nat)
  <2>1. S \subseteq Nat
    OBVIOUS
  <2> QED
    BY <2>1, NatLessThanWellFounded, WFMin
<1>2. ASSUME NEW y \in S PROVE b <= y
  <2>1. <<y, b>> \in Nat \X Nat /\ ~(y < b)
    BY <1>1 DEF OpToRel
  <2> QED
    BY <2>1
<1> QED
  BY <1>1, <1>2 DEF Min

-----------------------------------------------------------------------------
(* The inductive invariant. *)

Kinds == {"counterfactual", "portfolio"}
ReplayRow == [kind : Kinds, bars : Nat, features : Nat, candidates : Nat, stale : BOOLEAN, allowed : BOOLEAN,
              moved : BOOLEAN]

Base ==
    /\ bars \in Nat /\ built \in [Artifacts -> 0..bars] /\ dirty \in SUBSET Artifacts
    /\ replays \in Seq(ReplayRow)
    /\ DOMAIN proc = Procs
    /\ "sets" \in DOMAIN left /\ \A w \in left.sets : w.allowStale \in BOOLEAN
    /\ set = NoSet \/ (/\ DOMAIN set = {"status", "payload", "windows", "summary"}
                       /\ set.payload.allowStale \in BOOLEAN)
    /\ DOMAIN excused = {"thresholds", "replays", "windows", "builds"} /\ excused.builds \in BOOLEAN

\* A scenario stored under id: replayed from bars no older than those of its replay, and judged by
\* the thresholds in id unless the run was resumed under others.
ScenarioSound(id, d) ==
    /\ d.replay \in DOMAIN replays
    /\ d.bars \in Nat /\ replays[d.replay].bars <= d.bars
    /\ d.thresholds = id.thresholds \/ id \in excused.thresholds

\* No two scenarios of one replay share their place.
Apart(S) == \A d, e \in S : d.replay = e.replay /\ d.scenario = e.scenario => d = e

StoredSound(id, S) == Apart(S) /\ \A d \in S : ScenarioSound(id, d)

RunSound(id) == LET run == runs[id] IN
    /\ run.replay \in DOMAIN replays /\ run.sources = replays[run.replay].bars
    /\ "thresholds" \in DOMAIN run.config
    /\ run.config.thresholds = id.thresholds \/ id \in excused.thresholds
    /\ run.listed = id.replay /\ run.listed \in DOMAIN replays
    /\ run.replay = id.replay \/ id \in excused.replays
    /\ StoredSound(id, run.scenarios)
    /\ \A d \in run.scenarios : d.replay = run.replay
    /\ run.completion = "COMPLETE" =>
        FullGrid(run.scenarios, run.config) /\ \A d \in run.scenarios : d.scenario \in Scenarios

\* Behind clean windows are rows built of the bars of now, and no others until a build hides some.
AllCurrent == \A a \in Artifacts : built[a] = bars
CleanSound == excused.builds \/ \A a \in Artifacts : a \notin dirty => built[a] = bars

\* A build writes rows of the bars of now, has written them, or hides others.
BuildSound(q) ==
    /\ DOMAIN q = {"at", "artifact", "covers", "began", "of", "dirtyInput"}
    /\ q.artifact \in Artifacts /\ q.covers \in BOOLEAN /\ q.dirtyInput \in BOOLEAN
    /\ q.began \in Nat /\ q.began <= bars /\ q.of \in 0..bars
    /\ q.at = "write" => excused.builds \/ q.dirtyInput \/ q.began # bars \/ q.of = bars
    /\ q.at = "mark" => excused.builds \/ ~q.covers \/ q.began # bars \/ built[q.artifact] = bars

\* A process that reads the inputs of a replay: what its stale check saw still holds, or bars came.
ReplayingSound(q) ==
    /\ DOMAIN q = {"at", "kind", "checked", "read", "features", "stale", "allowed", "caller"}
    /\ q.kind \in Kinds
    /\ q.checked \in Nat /\ q.read \in Nat /\ q.checked <= q.read /\ q.read <= bars
    /\ q.stale \in BOOLEAN /\ q.allowed \in BOOLEAN /\ (q.stale => q.allowed)
    /\ q.features \in Nat
    /\ q.stale \/ q.checked # bars \/ excused.builds \/ AllCurrent
    /\ q.at = "candidates" => q.stale \/ q.checked # bars \/ excused.builds \/ q.features = bars
    /\ "at" \in DOMAIN q.caller /\ (q.caller = Idle \/ set # NoSet)

\* A sensitivity run under way has read bars no older than its replay's.
ReadSound(q) ==
    /\ q.replay \in DOMAIN replays
    /\ q.bars \in Nat /\ replays[q.replay].bars <= q.bars

StudySound(q) ==
    /\ DOMAIN q = {"at", "replay", "bars", "config", "id", "existing", "rethresholded", "elsewhere"}
    /\ ReadSound(q)
    /\ q.elsewhere \in BOOLEAN
    /\ q.elsewhere => q.id \in DOMAIN runs
    /\ q.elsewhere \/ q.id.replay = q.replay
    /\ "thresholds" \in DOMAIN q.config
    /\ q.rethresholded \in BOOLEAN
    /\ q.rethresholded \/ q.config.thresholds = q.id.thresholds \/ q.id \in excused.thresholds
    /\ q.at = "scenarios" => q.id \in DOMAIN runs
    /\ q.at = "engine" => StoredSound(q.id, q.existing)

ProcSound(q) ==
    /\ "at" \in DOMAIN q
    /\ q.at \in InLoop => set # NoSet
    /\ q.at \in Replaying => ReplayingSound(q)
    /\ q.at \in {"write", "mark"} => BuildSound(q)
    /\ q.at = "previous" => ReadSound(q) /\ (q.id = NoId \/ q.id \in DOMAIN runs)
    /\ q.at \in {"scenarios", "engine"} => StudySound(q)

ReplaySound(r) ==
    /\ replays[r].bars <= bars
    /\ replays[r].features # replays[r].bars \/ replays[r].candidates # replays[r].bars =>
            replays[r].moved \/ (replays[r].stale /\ replays[r].allowed) \/ excused.builds

Inv ==
    /\ Base
    /\ CleanSound
    /\ \A p \in Procs : ProcSound(proc[p])
    /\ \A id \in DOMAIN runs : RunSound(id)
    /\ \A r \in DOMAIN replays : ReplaySound(r)

\* What every step does to the shared state: nothing is taken back.
Progress ==
    /\ bars' \in Nat /\ bars <= bars'
    /\ bars' = bars /\ ~excused'.builds => \A a \in Artifacts : built'[a] \in {built[a], bars}
    /\ DOMAIN replays \subseteq DOMAIN replays'
    /\ \A r \in DOMAIN replays : replays'[r] = replays[r]
    /\ DOMAIN runs \subseteq DOMAIN runs'
    /\ excused.thresholds \subseteq excused'.thresholds /\ excused.replays \subseteq excused'.replays
    /\ excused.builds => excused'.builds
    /\ set # NoSet => set' # NoSet

-----------------------------------------------------------------------------
(* Operators. *)

\* The loop over the windows of a set leaves a process in that loop.
LEMMA ContinuesInLoop ==
    ASSUME NEW q, "at" \in DOMAIN q
    PROVE  Continue(q).at \in {"finish", "save", "counterfactual"} /\ "at" \in DOMAIN Continue(q)
  BY DEF Continue

\* The default grid has as many scenarios as it is said to have.
LEMMA GridSize ==
    IsFiniteSet(Scenarios) /\ Cardinality(Scenarios) = NumScenarios /\ NumScenarios \in Nat
  BY FS_Interval, BoundsAssumption DEF Scenarios

\* The grid of a run and its scenarios have as many members, so each scenario of the grid is there once.
LEMMA WholeGrid ==
    ASSUME NEW S, NEW config, FullGrid(S, config),
           \A d \in S : d.scenario \in Scenarios,
           \A d, e \in S : d.scenario = e.scenario => d = e
    PROVE  /\ \A s \in Scenarios : \E d \in S : d.scenario = s
           /\ Cardinality(S) = NumScenarios
<1> DEFINE f == [d \in S |-> d.scenario]
<1>1. IsFiniteSet(Scenarios) /\ Cardinality(Scenarios) = NumScenarios
  BY GridSize
<1>2. Cardinality(S) = Cardinality(Scenarios)
  BY DEF FullGrid, Complete, DefaultGrid
<1>3. f \in Injection(S, Scenarios)
  BY DEF Injection, IsInjective
<1>4. f \in Surjection(S, Scenarios)
  BY <1>1, <1>2, <1>3, FS_Injection
<1>5. \A s \in Scenarios : \E d \in S : d.scenario = s
  BY <1>4 DEF Surjection
<1> QED
  BY <1>1, <1>2, <1>5

\* A limit that is not given takes every scenario.
LEMMA UnlimitedTakesAll ==
    ASSUME NEW config, config.grid = Scenarios, config.max = None
    PROVE  Selected(config) = Scenarios
<1>1. IsFiniteSet(Scenarios) /\ Cardinality(Scenarios) = NumScenarios /\ NumScenarios \in Nat
  BY GridSize
<1>2. ASSUME NEW s \in Scenarios
      PROVE  Cardinality({t \in Scenarios : Rank(config, t) < Rank(config, s)}) < None
  <2> DEFINE T == {t \in Scenarios : Rank(config, t) < Rank(config, s)}
  <2>1. T \in SUBSET Scenarios
    OBVIOUS
  <2>2. IsFiniteSet(T) /\ Cardinality(T) <= NumScenarios
    BY <1>1, <2>1, FS_Subset
  <2>3. Cardinality(T) \in Nat
    BY <2>2, FS_CardinalityType
  <2> QED
    BY <1>1, <2>2, <2>3 DEF None
<1> QED
  BY <1>2 DEF Selected, FirstOf

-----------------------------------------------------------------------------
(* What one step leaves alone stays sound. *)

\* A process that did not move.
LEMMA ProcKept ==
    ASSUME Inv, Progress, NEW p \in Procs, proc'[p] = proc[p]
    PROVE  ProcSound(proc[p])'
<1> DEFINE q == proc[p]
<1>1. ProcSound(q) /\ q' = q
  BY DEF Inv
<1>2. q.at \in Replaying => ReplayingSound(q)'
  BY <1>1 DEF ProcSound, ReplayingSound, AllCurrent, Progress, Inv, Base
<1>5. q.at \in {"write", "mark"} => BuildSound(q)'
  BY <1>1 DEF ProcSound, BuildSound, Progress, Inv, Base
<1>3. q.at = "previous" => ReadSound(q)' /\ (q.id = NoId \/ q.id \in DOMAIN runs')
  BY <1>1 DEF ProcSound, ReadSound, Progress
<1>4. q.at \in {"scenarios", "engine"} => StudySound(q)'
  <2>1. CASE q.at \in {"scenarios", "engine"}
    <3>1. StudySound(q)
      BY <1>1, <2>1 DEF ProcSound
    <3>2. q.at = "engine" => StoredSound(q.id, q.existing)'
      BY <1>1, <3>1 DEF StudySound, StoredSound, ScenarioSound, Apart, Progress
    <3> QED
      BY <1>1, <3>1, <3>2 DEF StudySound, ReadSound, Progress
  <2> QED
    BY <2>1
<1> QED
  BY <1>1, <1>2, <1>3, <1>4, <1>5 DEF ProcSound, Progress

\* A run that was not saved.
LEMMA RunKept ==
    ASSUME Inv, Progress, NEW id \in DOMAIN runs, runs'[id] = runs[id]
    PROVE  RunSound(id)'
<1>1. RunSound(id)
  BY DEF Inv
<1>2. StoredSound(id, runs[id].scenarios)'
  BY <1>1 DEF RunSound, StoredSound, ScenarioSound, Apart, Progress
<1> QED
  BY <1>1, <1>2 DEF RunSound, Progress

\* A step keeps the invariant when what it changed is sound.
LEMMA Frame ==
    ASSUME Inv, Base', Progress, UNCHANGED <<bars, built, dirty>> \/ CleanSound',
           \A p \in Procs : proc'[p] = proc[p] \/ ProcSound(proc[p])',
           \A id \in DOMAIN runs' : (id \in DOMAIN runs /\ runs'[id] = runs[id]) \/ RunSound(id)',
           \A r \in DOMAIN replays' : r \in DOMAIN replays \/ ReplaySound(r)'
    PROVE  Inv'
<1>1. ASSUME NEW p \in Procs PROVE ProcSound(proc[p])'
  BY ProcKept
<1>2. ASSUME NEW id \in DOMAIN runs' PROVE RunSound(id)'
  BY RunKept
<1>3. ASSUME NEW r \in DOMAIN replays' PROVE ReplaySound(r)'
  <2>1. CASE r \in DOMAIN replays
    <3>1. replays[r] \in ReplayRow
      BY <2>1 DEF Inv, Base
    <3>2. replays[r].bars \in Nat
      BY <3>1 DEF ReplayRow
    <3>3. ReplaySound(r)
      BY <2>1 DEF Inv
    <3> QED
      BY <2>1, <3>2, <3>3 DEF ReplaySound, Progress, Inv, Base
  <2> QED
    BY <2>1
<1>4. CleanSound'
  BY DEF CleanSound, Progress, Inv
<1> QED
  BY <1>1, <1>2, <1>3, <1>4 DEF Inv

-----------------------------------------------------------------------------
(* The initial states and each action. *)

\* Nothing is stored and nobody works at the start.
LEMMA InitSound == Init => Inv
<1> SUFFICES ASSUME Init PROVE Inv
  OBVIOUS
<1>1. replays = <<>> /\ replays \in Seq(ReplayRow) /\ DOMAIN replays = {}
  BY DEF Init
<1>2. runs = <<>> /\ DOMAIN runs = {}
  BY DEF Init
<1>3. "sets" \in DOMAIN left /\ \A w \in left.sets : w.allowStale \in BOOLEAN
  BY BoundsAssumption, RequestsAssumption DEF Init, SetRequest
<1>4. Base
  BY <1>1, <1>3 DEF Init, Base
<1>5. ASSUME NEW p \in Procs PROVE ProcSound(proc[p])
  BY DEF Init, ProcSound, Idle, InLoop, Replaying
<1>6. CleanSound
  BY DEF Init, CleanSound
<1> QED
  BY <1>1, <1>2, <1>4, <1>5, <1>6 DEF Inv

\* Bars come, and all windows are dirty.
LEMMA StoreBarsSound == ASSUME Inv, StoreBars PROVE Inv'
<1>1. Base' /\ Progress
  BY DEF StoreBars, Spend, Inv, Base, Progress
<1>2. CleanSound'
  BY DEF StoreBars, CleanSound
<1> QED
  BY <1>1, <1>2, Frame DEF StoreBars

\* A process that is idle, or in the loop over the windows of a set that exists, is sound.
LEMMA LoopSound ==
    ASSUME NEW p \in Procs, "at" \in DOMAIN proc'[p],
           proc'[p].at = "idle" \/ (proc'[p].at \in InLoop /\ set' # NoSet)
    PROVE  ProcSound(proc[p])'
  BY DEF ProcSound, InLoop, Replaying

\* A build reads bars, or features that are built of them unless they are dirty or rows were hidden.
LEMMA BuildStepSound == ASSUME Inv, NEW p \in Procs, Build(p) PROVE Inv'
<1>1. PICK a \in Artifacts, covers \in BOOLEAN :
        Become(p, [at |-> "write", artifact |-> a, covers |-> covers, began |-> bars,
                   of |-> IF a = "features" THEN bars ELSE built["features"],
                   dirtyInput |-> a = "candidates" /\ "features" \in dirty])
  BY DEF Build
<1>2. /\ DOMAIN proc' = Procs /\ \A o \in Procs : o # p => proc'[o] = proc[o]
      /\ proc'[p] = [at |-> "write", artifact |-> a, covers |-> covers, began |-> bars,
                     of |-> IF a = "features" THEN bars ELSE built["features"],
                     dirtyInput |-> a = "candidates" /\ "features" \in dirty]
  BY <1>1 DEF Become, Inv, Base
<1>3. "sets" \in DOMAIN left' /\ left'.sets = left.sets
  BY DEF Build, Spend, Inv, Base
<1>4. Base' /\ Progress
  BY <1>2, <1>3 DEF Build, Inv, Base, Progress
<1>5. /\ "features" \in Artifacts /\ built["features"] \in 0..bars /\ bars \in Nat
      /\ excused.builds \/ "features" \in dirty \/ built["features"] = bars
      /\ a # "features" => a = "candidates"
  BY DEF Artifacts, Inv, Base, CleanSound
<1>6. UNCHANGED <<bars, built, dirty, excused>>
  BY DEF Build
<1>7. BuildSound(proc[p])'
  <2> PICK q : q = proc'[p]
    OBVIOUS
  <2>1. /\ DOMAIN q = {"at", "artifact", "covers", "began", "of", "dirtyInput"} /\ q.at = "write"
        /\ q.artifact = a /\ q.covers = covers /\ q.began = bars
        /\ q.of = (IF a = "features" THEN bars ELSE built["features"])
        /\ q.dirtyInput = (a = "candidates" /\ "features" \in dirty)
    BY <1>2
  <2>2. q.of \in 0..bars /\ q.dirtyInput \in BOOLEAN
    BY <1>5, <2>1
  <2>3. excused.builds \/ q.dirtyInput \/ q.of = bars
    BY <1>5, <2>1
  <2> QED
    BY <1>5, <1>6, <2>1, <2>2, <2>3 DEF BuildSound
<1>8. ProcSound(proc[p])'
  BY <1>2, <1>7 DEF ProcSound, InLoop, Replaying
<1> QED
  BY <1>2, <1>4, <1>6, <1>8, Frame DEF Build

\* A build writes rows of the bars of now, or hides others.
LEMMA WriteRowsSound == ASSUME Inv, NEW p \in Procs, WriteRows(p) PROVE Inv'
<1> PICK q : q = proc[p]
  OBVIOUS
<1>1. /\ BuildSound(q) /\ q.at = "write"
      /\ proc' = [proc EXCEPT ![p] = [q EXCEPT !.at = "mark"]]
      /\ built' = IF q.covers THEN [built EXCEPT ![q.artifact] = q.of] ELSE built
      /\ excused' = [excused EXCEPT !.builds = @ \/ (q.covers /\ (q.dirtyInput \/ q.began # bars))]
      /\ UNCHANGED <<bars, dirty, replays, runs, set, results, left>>
  BY DEF WriteRows, Excuse, Become, Inv, ProcSound
<1>2. /\ DOMAIN proc' = Procs /\ \A o \in Procs : o # p => proc'[o] = proc[o]
      /\ proc'[p] = [q EXCEPT !.at = "mark"]
  BY <1>1 DEF Inv, Base
<1>3. /\ DOMAIN excused' = DOMAIN excused
      /\ excused'.thresholds = excused.thresholds /\ excused'.replays = excused.replays
      /\ excused'.builds = (excused.builds \/ (q.covers /\ (q.dirtyInput \/ q.began # bars)))
  BY <1>1 DEF Inv, Base
<1>4. excused'.builds \in BOOLEAN /\ (excused.builds => excused'.builds)
  BY <1>3, <1>1 DEF Inv, Base, BuildSound
<1>5. excused'.builds \/ ~q.covers \/ (q.of = bars /\ q.began = bars)
  BY <1>1, <1>3 DEF BuildSound
<1>6. /\ built' \in [Artifacts -> 0..bars]
      /\ \A a \in Artifacts : built'[a] \in {built[a], q.of}
      /\ q.covers => built'[q.artifact] = q.of
      /\ ~q.covers => built' = built
  BY <1>1 DEF BuildSound, Inv, Base
<1>7. excused'.builds \/ \A a \in Artifacts : built'[a] \in {built[a], bars}
  BY <1>5, <1>6
<1>8. Base' /\ Progress
  BY <1>1, <1>2, <1>3, <1>4, <1>6, <1>7 DEF Inv, Base, Progress
<1>9. CleanSound'
  BY <1>1, <1>4, <1>7 DEF CleanSound, Inv
<1>10. BuildSound(proc[p])'
  <2>1. /\ DOMAIN proc'[p] = DOMAIN q /\ proc'[p].at = "mark" /\ proc'[p].artifact = q.artifact
        /\ proc'[p].covers = q.covers /\ proc'[p].began = q.began /\ proc'[p].of = q.of
        /\ proc'[p].dirtyInput = q.dirtyInput
    BY <1>1, <1>2 DEF BuildSound
  <2> QED
    BY <1>1, <1>5, <1>6, <2>1 DEF BuildSound
<1>11. ProcSound(proc[p])'
  <2>1. proc'[p].at = "mark" /\ "at" \in DOMAIN proc'[p]
    BY <1>1, <1>2 DEF BuildSound
  <2> QED
    BY <1>10, <2>1 DEF ProcSound, InLoop, Replaying
<1> QED
  BY <1>1, <1>2, <1>8, <1>9, <1>11, Frame

\* A build cleans windows of rows it has written, or of rows it hides.
LEMMA MarkBuiltSound == ASSUME Inv, NEW p \in Procs, MarkBuilt(p) PROVE Inv'
<1> PICK q : q = proc[p]
  OBVIOUS
<1>1. /\ BuildSound(q) /\ q.at = "mark"
      /\ proc' = [proc EXCEPT ![p] = Idle]
      /\ \/ /\ dirty' = dirty \ {q.artifact}
            /\ excused' = [excused EXCEPT !.builds = @ \/ (~q.covers \/ q.began # bars)]
         \/ UNCHANGED <<dirty, excused>>
      /\ UNCHANGED <<bars, built, replays, runs, set, results, left>>
  BY DEF MarkBuilt, Excuse, Become, Inv, ProcSound
<1>2. /\ DOMAIN proc' = Procs /\ \A o \in Procs : o # p => proc'[o] = proc[o]
      /\ proc'[p] = Idle
  BY <1>1 DEF Inv, Base
<1>3. /\ DOMAIN excused' = DOMAIN excused
      /\ excused'.thresholds = excused.thresholds /\ excused'.replays = excused.replays
      /\ excused'.builds = excused.builds \/ excused'.builds = (excused.builds \/ (~q.covers \/ q.began # bars))
      /\ dirty' \in SUBSET Artifacts
  BY <1>1 DEF Inv, Base
<1>4. excused'.builds \in BOOLEAN /\ (excused.builds => excused'.builds)
  BY <1>3, <1>1 DEF Inv, Base, BuildSound
<1>5. Base' /\ Progress
  BY <1>1, <1>2, <1>3, <1>4 DEF Inv, Base, Progress
<1>6. CleanSound'
  <2>1. CASE UNCHANGED <<dirty, excused>>
    BY <1>1, <2>1 DEF CleanSound, Inv
  <2>2. CASE dirty' = dirty \ {q.artifact} /\ excused' = [excused EXCEPT !.builds = @ \/ (~q.covers \/ q.began # bars)]
    <3>1. excused'.builds = (excused.builds \/ (~q.covers \/ q.began # bars))
      BY <2>2 DEF Inv, Base
    <3>2. excused'.builds \/ built[q.artifact] = bars
      BY <1>1, <3>1 DEF BuildSound
    <3> QED
      BY <1>1, <1>4, <2>2, <3>2 DEF CleanSound, Inv
  <2> QED
    BY <1>1, <2>1, <2>2
<1>7. ProcSound(proc[p])'
  BY <1>2, LoopSound DEF Idle
<1> QED
  BY <1>1, <1>2, <1>5, <1>6, <1>7, Frame

\* run() leaves the process in its loop.
LEMMA RunningInLoop ==
    ASSUME NEW windows, NEW existing, NEW rerun, NEW dry
    PROVE  /\ "at" \in DOMAIN Running(windows, existing, rerun, dry)
           /\ Running(windows, existing, rerun, dry).at \in InLoop
  BY ContinuesInLoop DEF Running, InLoop

\* A set is stored, and may be run at once.
LEMMA CreateSound == ASSUME Inv, NEW p \in Procs, Create(p) PROVE Inv'
<1>1. PICK w \in left.sets :
        /\ set' = [status |-> IF Len(GenerateWindows(w)) > w.limit THEN "rejected" ELSE "created",
                   payload |-> w, windows |-> GenerateWindows(w), summary |-> <<>>]
        /\ \/ Spend("setRuns") /\ excused' = Overlap /\ Become(p, Running(GenerateWindows(w), <<>>, FALSE, FALSE))
           \/ UNCHANGED <<proc, left, excused>>
  BY DEF Create
<1>2. /\ set' # NoSet /\ DOMAIN set' = {"status", "payload", "windows", "summary"}
      /\ set'.payload.allowStale \in BOOLEAN
  BY <1>1 DEF NoSet, Inv, Base
<1>3. DOMAIN proc' = Procs /\ \A r \in Procs : r # p => proc'[r] = proc[r]
  BY <1>1 DEF Become, Inv, Base
<1>4. DOMAIN excused' = DOMAIN excused /\ \A k \in DOMAIN excused : k # "windows" => excused'[k] = excused[k]
  BY <1>1 DEF Overlap, Inv, Base
<1>5. "sets" \in DOMAIN left' /\ left'.sets = left.sets
  BY <1>1 DEF Spend, Inv, Base
<1>6. Base' /\ Progress
  BY <1>2, <1>3, <1>4, <1>5 DEF Create, Inv, Base, Progress
<1>7. proc'[p] = proc[p] \/ proc'[p] = Running(GenerateWindows(w), <<>>, FALSE, FALSE)
  BY <1>1 DEF Become, Inv, Base
<1>8. proc'[p] = proc[p] \/ ProcSound(proc[p])'
  BY <1>2, <1>7, RunningInLoop, LoopSound
<1> QED
  BY <1>3, <1>6, <1>8, Frame DEF Create

\* The set is run, again or for the first time.
LEMMA RunSetSound == ASSUME Inv, NEW p \in Procs, RunSet(p) PROVE Inv'
<1>1. PICK rerun, dry \in BOOLEAN : Become(p, Running(set.windows, results, rerun, dry))
  BY DEF RunSet
<1>2. DOMAIN proc' = Procs /\ \A r \in Procs : r # p => proc'[r] = proc[r]
  BY <1>1 DEF Become, Inv, Base
<1>3. DOMAIN excused' = DOMAIN excused /\ \A k \in DOMAIN excused : k # "windows" => excused'[k] = excused[k]
  BY DEF RunSet, Overlap, Inv, Base
<1>4. "sets" \in DOMAIN left' /\ left'.sets = left.sets
  BY DEF RunSet, Spend, Inv, Base
<1>5. Base' /\ Progress
  BY <1>2, <1>3, <1>4 DEF RunSet, Inv, Base, Progress
<1>6. ProcSound(proc[p])'
  <2>1. proc'[p] = Running(set.windows, results, rerun, dry) /\ set' # NoSet
    BY <1>1 DEF RunSet, Become, Inv, Base
  <2> QED
    BY <2>1, RunningInLoop, LoopSound
<1> QED
  BY <1>2, <1>5, <1>6, Frame DEF RunSet

\* A replay that was refused or that returns leaves its caller idle or in the loop.
LEMMA ReturnedSound ==
    ASSUME NEW p \in Procs, NEW caller, NEW kind \in Kinds, NEW id,
           "at" \in DOMAIN caller, caller = Idle \/ set' # NoSet,
           proc'[p] = Returned(caller, kind, id)
    PROVE  ProcSound(proc[p])'
<1>1. CASE caller = Idle
  BY <1>1, LoopSound DEF Returned, Idle
<1>2. CASE caller # Idle
  <2>1. proc'[p] = [caller EXCEPT !.at = After(kind), ![kind] = id] /\ kind # "at"
    BY <1>2 DEF Returned, Kinds
  <2>2. "at" \in DOMAIN proc'[p] /\ proc'[p].at = After(kind)
    BY <2>1
  <2> QED
    BY <1>2, <2>2, LoopSound DEF After, InLoop
<1> QED
  BY <1>1, <1>2

\* A replay that passed its stale check.
LEMMA CheckedSound ==
    ASSUME Base, CleanSound, UNCHANGED <<bars, built, dirty, set, excused>>,
           NEW p \in Procs, NEW caller, NEW kind \in Kinds, NEW allowStale \in BOOLEAN,
           "at" \in DOMAIN caller, caller = Idle \/ set' # NoSet,
           proc'[p] = Checked(caller, kind, allowStale)
    PROVE  ProcSound(proc[p])'
<1>1. CASE Refused(allowStale)
  BY <1>1, ReturnedSound DEF Checked
<1>2. CASE ~Refused(allowStale)
  <2>1. proc'[p] = [at |-> "bars", kind |-> kind, checked |-> bars, read |-> bars,
                    features |-> built["features"], stale |-> Stale, allowed |-> allowStale, caller |-> caller]
    BY <1>2 DEF Checked
  <2>2. Stale \in BOOLEAN /\ (Stale => allowStale) /\ (Stale \/ excused.builds \/ AllCurrent)
    BY <1>2 DEF Refused, Stale, CleanSound, AllCurrent
  <2>4. bars \in Nat /\ built["features"] \in Nat
    BY DEF Base, Artifacts
  <2>3. ReplayingSound(proc[p])'
    BY <2>1, <2>2, <2>4 DEF ReplayingSound, AllCurrent
  <2> QED
    BY <2>1, <2>3 DEF ProcSound, InLoop, Replaying
<1> QED
  BY <1>1, <1>2

\* A window run asks for a replay: it is refused, or reads on.
LEMMA CheckStaleSound == ASSUME Inv, NEW p \in Procs, CheckStale(p) PROVE Inv'
<1> DEFINE q == proc[p]
<1>1. proc' = [proc EXCEPT ![p] = Checked(q, q.at, set.payload.allowStale)] /\ q.at \in Kinds
  BY DEF CheckStale, Become, Kinds
<1>2. DOMAIN proc' = Procs /\ \A r \in Procs : r # p => proc'[r] = proc[r]
  BY <1>1 DEF Inv, Base
<1>3. Base' /\ Progress
  BY <1>2 DEF CheckStale, Inv, Base, Progress
<1>4. "at" \in DOMAIN q /\ set' # NoSet
  BY <1>1 DEF CheckStale, Inv, ProcSound, InLoop, Kinds
<1>5. set.payload.allowStale \in BOOLEAN
  BY <1>4 DEF CheckStale, Inv, Base
<1>6. proc'[p] = Checked(q, q.at, set.payload.allowStale)
  BY <1>1 DEF Inv, Base
<1>7. ProcSound(proc[p])'
  BY <1>1, <1>4, <1>5, <1>6, CheckedSound DEF CheckStale, Inv
<1> QED
  BY <1>2, <1>3, <1>7, Frame DEF CheckStale

\* A replay on its own, refused or reading on.
LEMMA RunReplaySound == ASSUME Inv, NEW p \in Procs, RunReplay(p) PROVE Inv'
<1>1. PICK allowStale \in BOOLEAN : proc' = [proc EXCEPT ![p] = Checked(Idle, "portfolio", allowStale)]
  BY DEF RunReplay, Become
<1>2. DOMAIN proc' = Procs /\ \A r \in Procs : r # p => proc'[r] = proc[r]
  BY <1>1 DEF Inv, Base
<1>3. "sets" \in DOMAIN left' /\ left'.sets = left.sets
  BY DEF RunReplay, Spend, Inv, Base
<1>4. Base' /\ Progress
  BY <1>2, <1>3 DEF RunReplay, Inv, Base, Progress
<1>5. proc'[p] = Checked(Idle, "portfolio", allowStale)
  BY <1>1 DEF Inv, Base
<1>6. "portfolio" \in Kinds /\ "at" \in DOMAIN Idle
  BY DEF Kinds, Idle
<1>7. ProcSound(proc[p])'
  BY <1>5, <1>6, CheckedSound DEF RunReplay, Inv
<1> QED
  BY <1>2, <1>4, <1>7, Frame DEF RunReplay

\* The bars that are read are no older than those the stale check saw.
LEMMA ReadBarsSound == ASSUME Inv, NEW p \in Procs, ReadBars(p) PROVE Inv'
<1> DEFINE q == proc[p]
<1>1. proc' = [proc EXCEPT ![p] = [q EXCEPT !.at = "features", !.read = bars]]
  BY DEF ReadBars, Become
<1>2. DOMAIN proc' = Procs /\ \A r \in Procs : r # p => proc'[r] = proc[r]
  BY <1>1 DEF Inv, Base
<1>3. Base' /\ Progress
  BY <1>2 DEF ReadBars, Inv, Base, Progress
<1>4. ReplayingSound(q)
  BY DEF ReadBars, Inv, ProcSound, Replaying
<1>5. proc'[p] = [q EXCEPT !.at = "features", !.read = bars]
  BY <1>1 DEF Inv, Base
<1>6. ReplayingSound(proc[p])' /\ proc'[p].at = "features"
  BY <1>4, <1>5 DEF ReadBars, ReplayingSound, AllCurrent, Inv, Base
<1>7. ProcSound(proc[p])'
  BY <1>6 DEF ProcSound, InLoop, Replaying, ReplayingSound
<1> QED
  BY <1>2, <1>3, <1>7, Frame DEF ReadBars

\* Then the features.
LEMMA ReadFeaturesSound == ASSUME Inv, NEW p \in Procs, ReadFeatures(p) PROVE Inv'
<1> PICK q, next : q = proc[p] /\ next = [q EXCEPT !.at = "candidates", !.features = built["features"]]
  OBVIOUS
<1>1. proc' = [proc EXCEPT ![p] = next] /\ UNCHANGED <<bars, built, dirty, replays, runs, set, results, left, excused>>
  BY DEF ReadFeatures, Become
<1>2. DOMAIN proc' = Procs /\ proc'[p] = next /\ \A r \in Procs : r # p => proc'[r] = proc[r]
  BY <1>1 DEF Inv, Base
<1>3. Base' /\ Progress
  BY <1>1, <1>2 DEF Inv, Base, Progress
<1>4. ReplayingSound(q)
  BY DEF ReadFeatures, Inv, ProcSound, Replaying
<1>5. "features" \in Artifacts /\ built["features"] \in Nat
  BY DEF Artifacts, Inv, Base
<1>6. /\ DOMAIN next = DOMAIN q /\ next.at = "candidates" /\ next.features = built["features"]
      /\ next.kind = q.kind /\ next.checked = q.checked /\ next.read = q.read /\ next.stale = q.stale
      /\ next.allowed = q.allowed /\ next.caller = q.caller
  BY <1>4 DEF ReplayingSound
<1>7. ReplayingSound(proc[p])'
  BY <1>1, <1>2, <1>4, <1>5, <1>6 DEF ReplayingSound, AllCurrent
<1>8. ProcSound(proc[p])'
  BY <1>2, <1>4, <1>6, <1>7 DEF ProcSound, InLoop, Replaying, ReplayingSound
<1> QED
  BY <1>1, <1>2, <1>3, <1>8, Frame

\* A replay is saved: its features are those of its bars, or it was stale, or bars came.
LEMMA ReplayStepSound == ASSUME Inv, NEW p \in Procs, Replay(p) PROVE Inv'
<1> DEFINE q == proc[p]
           row == [kind |-> q.kind, bars |-> q.read, features |-> q.features,
                   candidates |-> built["candidates"], stale |-> q.stale,
                   allowed |-> q.allowed, moved |-> q.checked # bars]
<1>1. ReplayingSound(q) /\ q.at = "candidates"
  BY DEF Replay, Inv, ProcSound, Replaying
<1>2. row \in ReplayRow
  <2>1. built["candidates"] \in Nat
    BY DEF Artifacts, Inv, Base
  <2> QED
    BY <1>1, <2>1 DEF ReplayingSound, ReplayRow
<1>3. replays' = Append(replays, row) /\ replays \in Seq(ReplayRow)
  BY DEF Replay, Inv, Base
<1>4. /\ replays' \in Seq(ReplayRow) /\ DOMAIN replays \subseteq DOMAIN replays'
      /\ \A r \in DOMAIN replays : replays'[r] = replays[r]
      /\ \A r \in DOMAIN replays' : r \in DOMAIN replays \/ replays'[r] = row
  BY <1>2, <1>3
<1>5. proc' = [proc EXCEPT ![p] = Returned(q.caller, q.kind, Len(replays) + 1)]
  BY DEF Replay, Become
<1>6. /\ DOMAIN proc' = Procs /\ \A r \in Procs : r # p => proc'[r] = proc[r]
      /\ proc'[p] = Returned(q.caller, q.kind, Len(replays) + 1)
  BY <1>5 DEF Inv, Base
<1>7. Base' /\ Progress
  <2>1. DOMAIN replays \subseteq DOMAIN replays' /\ \A r \in DOMAIN replays : replays'[r] = replays[r]
    BY <1>4
  <2>2. UNCHANGED <<bars, built, dirty, runs, set, left, excused>>
    BY DEF Replay
  <2>3. Progress
    BY <2>1, <2>2 DEF Inv, Base, Progress
  <2> QED
    BY <1>4, <1>6, <2>2, <2>3 DEF Inv, Base
<1>8. ProcSound(proc[p])'
  BY <1>1, <1>6, ReturnedSound DEF Replay, ReplayingSound
<1>9. row.bars <= bars'
  BY <1>1 DEF ReplayingSound, Replay
<1>10. row.features # row.bars \/ row.candidates # row.bars =>
          row.moved \/ (row.stale /\ row.allowed) \/ excused.builds
  <2>1. q.stale \/ q.checked # bars \/ excused.builds
          \/ (built["candidates"] = q.read /\ q.features = q.read)
    BY <1>1 DEF ReplayingSound, AllCurrent, Artifacts, Inv, Base
  <2>2. q.stale => q.allowed
    BY <1>1 DEF ReplayingSound
  <2>3. /\ row.moved = (q.checked # bars) /\ row.features = q.features /\ row.bars = q.read
        /\ row.candidates = built["candidates"] /\ row.stale = q.stale /\ row.allowed = q.allowed
    OBVIOUS
  <2> HIDE DEF row
  <2> QED
    BY <2>1, <2>2, <2>3
<1>11. ASSUME NEW r \in DOMAIN replays' PROVE r \in DOMAIN replays \/ ReplaySound(r)'
  <2>1. UNCHANGED <<bars, excused>>
    BY DEF Replay
  <2> HIDE DEF row
  <2> QED
    BY <1>4, <1>9, <1>10, <2>1 DEF ReplaySound
<1> QED
  BY <1>6, <1>7, <1>8, <1>11, Frame DEF Replay

\* The result of a window is stored and the loop goes on.
LEMMA SaveResultSound == ASSUME Inv, NEW p \in Procs, SaveResult(p) PROVE Inv'
<1> DEFINE q == proc[p]
           saved == [q EXCEPT !.n = @ + 1, !.got = Append(@, Result(q))]
<1>1. proc' = [proc EXCEPT ![p] = Continue(saved)]
  BY DEF SaveResult, Become
<1>2. /\ DOMAIN proc' = Procs /\ \A r \in Procs : r # p => proc'[r] = proc[r]
      /\ proc'[p] = Continue(saved)
  BY <1>1 DEF Inv, Base
<1>3. Base' /\ Progress
  BY <1>2 DEF SaveResult, Inv, Base, Progress
<1>4. "at" \in DOMAIN q /\ set' # NoSet
  BY DEF SaveResult, Inv, ProcSound, InLoop
<1>5. "at" \in DOMAIN saved
  BY <1>4
<1>6. ProcSound(proc[p])'
  BY <1>2, <1>4, <1>5, ContinuesInLoop, LoopSound DEF InLoop
<1> QED
  BY <1>2, <1>3, <1>6, Frame DEF SaveResult

\* An idle process is sound.
LEMMA IdleSound == ASSUME NEW p \in Procs, proc'[p] = Idle PROVE ProcSound(proc[p])'
  BY LoopSound DEF Idle

\* The set is completed.
LEMMA FinishSetSound == ASSUME Inv, NEW p \in Procs, FinishSet(p) PROVE Inv'
<1>1. /\ DOMAIN proc' = Procs /\ \A r \in Procs : r # p => proc'[r] = proc[r]
      /\ proc'[p] = Idle
  BY DEF FinishSet, Become, Inv, Base
<1>2. set # NoSet
  BY DEF FinishSet, Inv, ProcSound, InLoop
<1>3. /\ DOMAIN set' = DOMAIN set /\ set'.payload = set.payload
      /\ set'.status = "completed"
  BY <1>2 DEF FinishSet, Inv, Base
<1>4. set' # NoSet
  BY <1>3 DEF NoSet
<1>5. Base' /\ Progress
  BY <1>1, <1>2, <1>3, <1>4 DEF FinishSet, Inv, Base, Progress
<1> QED
  BY <1>1, <1>5, IdleSound, Frame DEF FinishSet

\* A process dies.
LEMMA CrashSound == ASSUME Inv, NEW p \in Procs, Crash(p) PROVE Inv'
<1>1. /\ DOMAIN proc' = Procs /\ \A r \in Procs : r # p => proc'[r] = proc[r]
      /\ proc'[p] = Idle
  BY DEF Crash, Become, Inv, Base
<1>2. DOMAIN excused' = DOMAIN excused /\ \A k \in DOMAIN excused : k # "windows" => excused'[k] = excused[k]
  BY DEF Crash, Inv, Base
<1>3. "sets" \in DOMAIN left' /\ left'.sets = left.sets
  BY DEF Crash, Spend, Inv, Base
<1>4. Base' /\ Progress
  BY <1>1, <1>2, <1>3 DEF Crash, Inv, Base, Progress
<1> QED
  BY <1>1, <1>4, IdleSound, Frame DEF Crash

\* A sensitivity run begins with a replay and the bars of now, which are no older.
LEMMA StudyStepSound == ASSUME Inv, NEW p \in Procs, Study(p) PROVE Inv'
<1>1. PICK r \in DOMAIN replays, payload \in Payloads, id \in DOMAIN runs \union {NoId} :
        Become(p, [at |-> "previous", replay |-> r, bars |-> bars, payload |-> payload, id |-> id])
  BY DEF Study
<1>2. /\ DOMAIN proc' = Procs /\ \A o \in Procs : o # p => proc'[o] = proc[o]
      /\ proc'[p] = [at |-> "previous", replay |-> r, bars |-> bars, payload |-> payload, id |-> id]
  BY <1>1 DEF Become, Inv, Base
<1>3. "sets" \in DOMAIN left' /\ left'.sets = left.sets
  BY DEF Study, Spend, Inv, Base
<1>4. Base' /\ Progress
  BY <1>2, <1>3 DEF Study, Inv, Base, Progress
<1>5. ReadSound(proc[p])' /\ (id = NoId \/ id \in DOMAIN runs')
  <2>1. replays[r].bars <= bars
    BY DEF Inv, ReplaySound
  <2> QED
    BY <1>2, <2>1 DEF ReadSound, Study, Inv, Base
<1>6. ProcSound(proc[p])'
  BY <1>2, <1>5 DEF ProcSound, InLoop, Replaying
<1> QED
  BY <1>2, <1>4, <1>6, Frame DEF Study

\* A sensitivity run that is resumed by its id has the thresholds of its row unless the request gives others.
LEMMA ReadPreviousSound == ASSUME Inv, NEW p \in Procs, ReadPrevious(p) PROVE Inv'
<1> DEFINE q == proc[p]
           config == FromPayload(Merged(q))
           id == IF q.id = NoId THEN RunId(q.replay, config) ELSE q.id
           next == [at |-> IF id \in DOMAIN runs THEN "scenarios" ELSE "engine", replay |-> q.replay,
                    bars |-> q.bars, config |-> config, id |-> id, existing |-> {},
                    rethresholded |-> Rethresholds(q), elsewhere |-> Elsewhere(q)]
<1>1. proc' = [proc EXCEPT ![p] = next]
  BY DEF ReadPrevious, Become
<1>2. /\ DOMAIN proc' = Procs /\ \A r \in Procs : r # p => proc'[r] = proc[r]
      /\ proc'[p] = next
  <2> HIDE DEF next
  <2> QED
    BY <1>1 DEF Inv, Base
<1>3. UNCHANGED <<bars, built, dirty, replays, runs, set, results, left, excused>>
  BY DEF ReadPrevious
<1>4. Base' /\ Progress
  BY <1>2, <1>3 DEF Inv, Base, Progress
<1>5. ReadSound(q) /\ (q.id = NoId \/ q.id \in DOMAIN runs)
  BY DEF ReadPrevious, Inv, ProcSound
<1>6. "thresholds" \in DOMAIN config /\ config.thresholds = Given(Merged(q), "thresholds", 1)
  BY DEF FromPayload
<1>7. Rethresholds(q) \/ config.thresholds = id.thresholds \/ id \in excused.thresholds
  <2>1. CASE q.id = NoId
    BY <2>1 DEF RunId
  <2>2. CASE q.id # NoId
    <3> DEFINE row == runs[q.id].config
    <3>1. /\ "thresholds" \in DOMAIN row
          /\ row.thresholds = q.id.thresholds \/ q.id \in excused.thresholds
      BY <1>5, <2>2 DEF Inv, RunSound
    <3>2. Merged(q) = Over(q.payload, row)
      BY <2>2 DEF Merged
    <3>3. "thresholds" \in DOMAIN Merged(q)
      BY <3>1, <3>2 DEF Over
    <3>4. config.thresholds = Merged(q)["thresholds"]
      BY <1>6, <3>3 DEF Given
    <3>5. CASE "thresholds" \in DOMAIN q.payload
      <4>1. config.thresholds = q.payload["thresholds"]
        BY <3>2, <3>4, <3>5 DEF Over
      <4>2. Rethresholds(q) \/ q.payload["thresholds"] = row.thresholds
        BY <2>2, <3>5 DEF Rethresholds, Given
      <4> QED
        BY <2>2, <3>1, <4>1, <4>2
    <3>6. CASE "thresholds" \notin DOMAIN q.payload
      <4>1. config.thresholds = row["thresholds"]
        BY <3>1, <3>2, <3>4, <3>6 DEF Over
      <4> QED
        BY <2>2, <3>1, <4>1
    <3> QED
      BY <3>5, <3>6
  <2> QED
    BY <2>1, <2>2
<1>8. Rethresholds(q) \in BOOLEAN /\ Elsewhere(q) \in BOOLEAN
  BY DEF Rethresholds, Elsewhere
<1>12. Elsewhere(q) => id \in DOMAIN runs
  BY <1>5 DEF Elsewhere
<1>13. Elsewhere(q) \/ id.replay = q.replay
  BY <1>5 DEF Elsewhere, RunId, Inv, RunSound
<1>9. StudySound(proc[p])'
  <2> HIDE DEF config, id
  <2>1. StoredSound(id, {})
    BY DEF StoredSound, Apart
  <2>2. ReadSound(next)
    BY <1>5 DEF ReadSound
  <2>3. (next.at = "scenarios" => next.id \in DOMAIN runs) /\ next.existing = {} /\ next.id = id
    OBVIOUS
  <2>4. next.rethresholded \/ next.config.thresholds = next.id.thresholds \/ next.id \in excused.thresholds
    BY <1>7
  <2>6. /\ next.elsewhere => next.id \in DOMAIN runs
        /\ next.elsewhere \/ next.id.replay = next.replay
        /\ next.elsewhere \in BOOLEAN
    BY <1>8, <1>12, <1>13
  <2>5. /\ DOMAIN next = {"at", "replay", "bars", "config", "id", "existing", "rethresholded", "elsewhere"}
        /\ next.rethresholded \in BOOLEAN /\ "thresholds" \in DOMAIN next.config
    BY <1>6, <1>8
  <2> HIDE DEF next
  <2> QED
    BY <1>2, <1>3, <2>1, <2>2, <2>3, <2>4, <2>5, <2>6 DEF StudySound, ReadSound, StoredSound, ScenarioSound, Apart
<1>10. next.at \in {"scenarios", "engine"} /\ "at" \in DOMAIN next
  OBVIOUS
<1>11. ProcSound(proc[p])'
  <2> HIDE DEF next
  <2> QED
    BY <1>2, <1>9, <1>10 DEF ProcSound, InLoop, Replaying
<1> QED
  <2> HIDE DEF next
  <2> QED
    BY <1>2, <1>3, <1>4, <1>11, Frame

\* The scenarios of the run to resume are read, sound as they are stored.
LEMMA ListScenariosSound == ASSUME Inv, NEW p \in Procs, ListScenarios(p) PROVE Inv'
<1> DEFINE q == proc[p]
           next == [q EXCEPT !.at = "engine", !.existing = runs[q.id].scenarios]
<1>1. proc' = [proc EXCEPT ![p] = next]
  BY DEF ListScenarios, Become
<1>2. /\ DOMAIN proc' = Procs /\ \A r \in Procs : r # p => proc'[r] = proc[r]
      /\ proc'[p] = next
  BY <1>1 DEF Inv, Base
<1>3. UNCHANGED <<bars, built, dirty, replays, runs, set, results, left, excused>>
  BY DEF ListScenarios
<1>4. Base' /\ Progress
  BY <1>2, <1>3 DEF Inv, Base, Progress
<1>5. StudySound(q) /\ q.id \in DOMAIN runs
  BY DEF ListScenarios, Inv, ProcSound, StudySound
<1>6. StoredSound(q.id, runs[q.id].scenarios)
  BY <1>5 DEF Inv, RunSound
<1>7. /\ DOMAIN next = DOMAIN q /\ next.at = "engine" /\ next.existing = runs[q.id].scenarios
      /\ next.replay = q.replay /\ next.bars = q.bars /\ next.config = q.config /\ next.id = q.id
      /\ next.rethresholded = q.rethresholded /\ next.elsewhere = q.elsewhere
  BY <1>5 DEF StudySound
<1>8. StudySound(proc[p])'
  <2> HIDE DEF next
  <2> QED
    BY <1>2, <1>3, <1>5, <1>6, <1>7 DEF StudySound, ReadSound, StoredSound, ScenarioSound, Apart
<1>9. ProcSound(proc[p])'
  <2> HIDE DEF next
  <2> QED
    BY <1>2, <1>5, <1>7, <1>8 DEF ProcSound, InLoop, Replaying, StudySound
<1> QED
  BY <1>2, <1>3, <1>4, <1>9, Frame

\* What an invocation saves: scenarios it kept, and scenarios of places none of those has.
LEMMA EngineSaves ==
    ASSUME NEW q, NEW run \in Engine(q)
    PROVE  /\ run.replay = q.replay /\ run.config = q.config /\ run.sources = replays[q.replay].bars
           /\ run.listed = Listed(q)
           /\ run.completion = "COMPLETE" => FullGrid(run.scenarios, q.config)
           /\ \A d \in run.scenarios : d.replay = q.replay /\ d.scenario \in q.config.grid
           /\ \A d \in run.scenarios : d \in q.existing
                \/ (d.bars = q.bars /\ d.thresholds = q.config.thresholds)
           /\ Apart(q.existing) => Apart(run.scenarios)
<1> DEFINE kept == Kept(q.existing, q.replay, q.config)
           missing == Selected(q.config) \ {d.scenario : d \in kept}
           todo == FirstOf(q.config, missing \intersect InGroup(q.config), q.config.perInvocation)
           New(n) == {[replay |-> q.replay, scenario |-> s, bars |-> q.bars, thresholds |-> q.config.thresholds] :
                      s \in FirstOf(q.config, todo, n)}
<1>1. PICK n \in Ran(q.config, Cardinality(todo)) :
        run = [replay |-> q.replay, listed |-> Listed(q), config |-> q.config, scenarios |-> kept \union New(n),
               sources |-> replays[q.replay].bars,
               completion |-> Completion(kept \union New(n), q.config, n < Cardinality(todo))]
  BY DEF Engine
<1>2. run.scenarios = kept \union New(n)
  BY <1>1
<1>3. \A d \in kept : d \in q.existing /\ d.replay = q.replay /\ d.scenario \in Selected(q.config)
  BY DEF Kept
<1>4. ASSUME NEW d \in New(n)
      PROVE  /\ d.replay = q.replay /\ d.scenario \in missing
             /\ d.bars = q.bars /\ d.thresholds = q.config.thresholds
             /\ d = [replay |-> q.replay, scenario |-> d.scenario, bars |-> q.bars,
                     thresholds |-> q.config.thresholds]
  <2>1. PICK s \in FirstOf(q.config, todo, n) :
          d = [replay |-> q.replay, scenario |-> s, bars |-> q.bars, thresholds |-> q.config.thresholds]
    OBVIOUS
  <2>2. s \in missing
    BY DEF FirstOf
  <2> QED
    BY <2>1, <2>2
<1>5. Selected(q.config) \subseteq q.config.grid
  BY DEF Selected, FirstOf
<1> HIDE DEF kept, missing, New
<1>6. missing \subseteq Selected(q.config) /\ \A d \in kept : d.scenario \notin missing
  BY DEF missing
<1>7. \A d \in run.scenarios : d.replay = q.replay /\ d.scenario \in q.config.grid
  BY <1>2, <1>3, <1>4, <1>5, <1>6
<1>8. \A d \in run.scenarios : d \in q.existing \/ (d.bars = q.bars /\ d.thresholds = q.config.thresholds)
  BY <1>2, <1>3, <1>4
<1>9. Apart(q.existing) => Apart(run.scenarios)
  <2> SUFFICES ASSUME Apart(q.existing), NEW d \in run.scenarios, NEW e \in run.scenarios,
                      d.scenario = e.scenario
               PROVE  d = e
    BY DEF Apart
  <2>1. CASE d \in kept /\ e \in kept
    BY <1>3, <2>1 DEF Apart
  <2>2. CASE d \in New(n) /\ e \in New(n)
    BY <1>4, <2>2
  <2>3. CASE (d \in kept /\ e \in New(n)) \/ (d \in New(n) /\ e \in kept)
    BY <1>4, <1>6, <2>3
  <2> QED
    BY <1>2, <2>1, <2>2, <2>3
<1>10. run.completion = "COMPLETE" => FullGrid(run.scenarios, q.config)
  BY <1>1 DEF Completion
<1>11. /\ run.replay = q.replay /\ run.config = q.config /\ run.sources = replays[q.replay].bars
       /\ run.listed = Listed(q)
  BY <1>1
<1> QED
  BY <1>7, <1>8, <1>9, <1>10, <1>11

\* The run is replaced by one that is sound, and so are its scenarios.
LEMMA SaveStudySound == ASSUME Inv, NEW p \in Procs, SaveStudy(p) PROVE Inv'
<1> DEFINE q == proc[p]
<1>1. PICK run \in Engine(q) : runs' = Put(runs, q.id, run)
  BY DEF SaveStudy
<1> PICK key : key = q.id
  OBVIOUS
<1>2. /\ DOMAIN proc' = Procs /\ \A r \in Procs : r # p => proc'[r] = proc[r]
      /\ proc'[p] = Idle
  BY DEF SaveStudy, Become, Inv, Base
<1>3. /\ DOMAIN runs' = DOMAIN runs \union {key} /\ runs'[key] = run
      /\ \A id \in DOMAIN runs : id # key => runs'[id] = runs[id]
  BY <1>1 DEF Put
<1>4. UNCHANGED <<bars, built, dirty, replays, set, results, left>>
  BY DEF SaveStudy
<1>5. /\ DOMAIN excused' = DOMAIN excused /\ excused'.builds = excused.builds
      /\ excused.thresholds \subseteq excused'.thresholds /\ excused.replays \subseteq excused'.replays
      /\ q.rethresholded => key \in excused'.thresholds
      /\ q.elsewhere => key \in excused'.replays
  BY DEF SaveStudy, Inv, Base
<1>6. Base' /\ Progress
  BY <1>2, <1>3, <1>4, <1>5 DEF Inv, Base, Progress
<1>7. StudySound(q) /\ StoredSound(key, q.existing)
  BY DEF SaveStudy, Inv, ProcSound, StudySound
<1>8. /\ run.replay = q.replay /\ run.config = q.config /\ run.sources = replays[q.replay].bars
      /\ run.listed = Listed(q)
      /\ run.completion = "COMPLETE" => FullGrid(run.scenarios, q.config)
      /\ \A d \in run.scenarios : d.replay = q.replay /\ d.scenario \in q.config.grid
      /\ \A d \in run.scenarios : d \in q.existing
                \/ (d.bars = q.bars /\ d.thresholds = q.config.thresholds)
      /\ Apart(run.scenarios)
  BY <1>7, EngineSaves DEF StoredSound
<1>9. q.config.thresholds = key.thresholds \/ key \in excused'.thresholds
  BY <1>5, <1>7 DEF StudySound
<1>10. ASSUME NEW d \in run.scenarios PROVE ScenarioSound(key, d)'
  <2>1. CASE d \in q.existing
    <3>1. ScenarioSound(key, d)
      BY <1>7, <2>1 DEF StoredSound
    <3> QED
      BY <1>4, <1>5, <3>1 DEF ScenarioSound
  <2>2. CASE d.bars = q.bars /\ d.thresholds = q.config.thresholds
    BY <1>4, <1>7, <1>8, <1>9, <2>2 DEF ScenarioSound, StudySound, ReadSound
  <2> QED
    BY <1>8, <2>1, <2>2
<1>11. run.completion = "COMPLETE" => \A d \in run.scenarios : d.scenario \in Scenarios
  BY <1>8 DEF FullGrid, DefaultGrid
<1>12. /\ run.replay \in DOMAIN replays' /\ run.sources = replays'[run.replay].bars
       /\ "thresholds" \in DOMAIN run.config
  BY <1>4, <1>7, <1>8 DEF StudySound, ReadSound
<1>13. \A d \in run.scenarios : d.replay = run.replay
  BY <1>8
<1>16. run.listed = key.replay /\ run.listed \in DOMAIN replays' /\ (run.replay = key.replay \/ key \in excused'.replays)
  <2>1. CASE key \in DOMAIN runs
    BY <1>4, <1>5, <1>7, <1>8, <2>1 DEF Listed, StudySound, Inv, RunSound
  <2>2. CASE key \notin DOMAIN runs
    BY <1>4, <1>7, <1>8, <2>2 DEF Listed, StudySound, ReadSound
  <2> QED
    BY <2>1, <2>2
<1>14. RunSound(key)'
  BY <1>3, <1>8, <1>9, <1>10, <1>11, <1>12, <1>13, <1>16 DEF RunSound, StoredSound, ScenarioSound, Apart
<1>15. ProcSound(proc[p])'
  BY <1>2, IdleSound
<1> QED
  BY <1>2, <1>3, <1>4, <1>6, <1>14, <1>15, Frame

-----------------------------------------------------------------------------
(* The theorems. *)

\* The invariant is inductive.
LEMMA NextSound == Inv /\ [Next]_vars => Inv'
<1> SUFFICES ASSUME Inv, [Next]_vars PROVE Inv'
  OBVIOUS
<1>1. CASE StoreBars
  BY <1>1, StoreBarsSound
<1>2. ASSUME NEW p \in Procs, Build(p) \/ WriteRows(p) \/ MarkBuilt(p) PROVE Inv'
  BY <1>2, BuildStepSound, WriteRowsSound, MarkBuiltSound
<1>3. ASSUME NEW p \in Procs, RunReplay(p) \/ Create(p) \/ RunSet(p) \/ CheckStale(p)
      PROVE  Inv'
  BY <1>3, RunReplaySound, CreateSound, RunSetSound, CheckStaleSound
<1>4. ASSUME NEW p \in Procs, ReadBars(p) \/ ReadFeatures(p) \/ Replay(p) \/ SaveResult(p) \/ FinishSet(p)
      PROVE  Inv'
  BY <1>4, ReadBarsSound, ReadFeaturesSound, ReplayStepSound, SaveResultSound, FinishSetSound
<1>5. ASSUME NEW p \in Procs, Study(p) \/ ReadPrevious(p) \/ ListScenarios(p) \/ SaveStudy(p) \/ Crash(p)
      PROVE  Inv'
  BY <1>5, StudyStepSound, ReadPreviousSound, ListScenariosSound, SaveStudySound, CrashSound
<1>6. CASE UNCHANGED vars
  <2>1. Base' /\ Progress
    BY <1>6 DEF vars, Inv, Base, Progress
  <2> QED
    BY <1>6, <2>1, Frame DEF vars
<1> QED
  BY <1>1, <1>2, <1>3, <1>4, <1>5, <1>6 DEF Next

\* The rows of replays, sensitivity runs and scenarios, and what each process remembers of them, stay sound.
THEOREM Soundness == Spec => []Inv
  BY InitSound, NextSound, PTL DEF Spec

\* A COMPLETE sensitivity run has every scenario of the default grid once, each of its own replay, and is
\* listed under that replay unless it was resumed by its id for another than it is listed under.
THEOREM GradeIsSound == Spec => []GradeIsWholeGrid
<1>1. Inv => GradeIsWholeGrid
  <2> SUFFICES ASSUME Inv, NEW id \in DOMAIN runs, runs[id].completion = "COMPLETE"
               PROVE  /\ \A s \in Scenarios : \E d \in runs[id].scenarios : d.scenario = s
                      /\ Cardinality(runs[id].scenarios) = NumScenarios
                      /\ \A d \in runs[id].scenarios : d.replay = runs[id].replay
                      /\ runs[id].replay = runs[id].listed \/ id \in excused.replays
    BY DEF GradeIsWholeGrid
  <2> DEFINE S == runs[id].scenarios
  <2>1. /\ FullGrid(S, runs[id].config) /\ \A d \in S : d.scenario \in Scenarios
        /\ \A d \in S : d.replay = runs[id].replay
        /\ Apart(S)
        /\ runs[id].replay = runs[id].listed \/ id \in excused.replays
    BY DEF Inv, RunSound, StoredSound
  <2>2. \A d, e \in S : d.scenario = e.scenario => d = e
    BY <2>1 DEF Apart
  <2> QED
    BY <2>1, <2>2, WholeGrid
<1> QED
  BY <1>1, Soundness, PTL

\* Stored scenarios are judged by the thresholds of their run unless it was resumed under others, and
\* replayed no older bars than their run claims.
THEOREM ScenariosAreExplained == Spec => []ScenariosExplained
<1>1. Inv => ScenariosExplained
  <2> SUFFICES ASSUME Inv, NEW id \in DOMAIN runs, NEW d \in runs[id].scenarios
               PROVE  /\ d.thresholds = runs[id].config.thresholds \/ id \in excused.thresholds
                      /\ d.bars >= runs[id].sources
    BY DEF ScenariosExplained
  <2>1. /\ runs[id].replay \in DOMAIN replays /\ runs[id].sources = replays[runs[id].replay].bars
        /\ runs[id].config.thresholds = id.thresholds \/ id \in excused.thresholds
        /\ ScenarioSound(id, d) /\ d.replay = runs[id].replay
    BY DEF Inv, RunSound, StoredSound
  <2>2. replays[d.replay].bars \in Nat
    <3>1. replays[d.replay] \in ReplayRow
      BY <2>1 DEF Inv, Base
    <3> QED
      BY <3>1 DEF ReplayRow
  <2> QED
    BY <2>1, <2>2 DEF ScenarioSound
<1> QED
  BY <1>1, Soundness, PTL

\* A replay of features or candidates that were not built from its bars says that they were stale and was
\* allowed it, or bars came after its check, or a build had hidden outdated rows behind clean windows.
THEOREM ReplaysAreExplained == Spec => []ReplaysExplained
<1>1. Inv => ReplaysExplained
  BY DEF Inv, ReplaySound, ReplaysExplained
<1> QED
  BY <1>1, Soundness, PTL

\* An invocation that read a COMPLETE run finds nothing to do and saves it as it was: it is taken back
\* only for another replay or grid, or by an invocation that had read it before it was complete.
THEOREM CompletionStands == Spec => CompleteStands
<1> DEFINE Stands(id) ==
      runs[id].completion = "COMPLETE" /\ runs'[id].completion # "COMPLETE" =>
        \/ runs'[id].replay # runs[id].replay
        \/ ~DefaultGrid(runs'[id].config) \/ runs'[id].config.mode \notin ActivationGrade
        \/ \E p \in Procs : proc[p].at = "engine" /\ proc'[p] = Idle /\ proc[p].existing # runs[id].scenarios
<1>1. Inv /\ [Next]_vars => [\A id \in DOMAIN runs : Stands(id)]_vars
  <2> SUFFICES ASSUME Inv, Next, NEW id \in DOMAIN runs PROVE Stands(id)
    OBVIOUS
  <2>1. CASE runs' = runs
    BY <2>1
  <2>2. ASSUME NEW p \in Procs, SaveStudy(p) PROVE Stands(id)
    <3> DEFINE q == proc[p]
               S == runs[id].scenarios
    <3>1. PICK run \in Engine(q) : runs' = Put(runs, q.id, run)
      BY <2>2 DEF SaveStudy
    <3>2. q.at = "engine" /\ proc'[p] = Idle
      BY <2>2 DEF SaveStudy, Become, Inv, Base
    <3> SUFFICES ASSUME runs[id].completion = "COMPLETE", q.id = id, run.replay = runs[id].replay,
                        DefaultGrid(run.config), run.config.mode \in ActivationGrade, q.existing = S
                 PROVE  run.completion = "COMPLETE"
      BY <3>1, <3>2 DEF Put
    <3>3. run.replay = q.replay /\ run.config = q.config
      BY <3>1, EngineSaves
    <3>4. /\ FullGrid(S, runs[id].config) /\ \A d \in S : d.scenario \in Scenarios
          /\ \A d \in S : d.replay = runs[id].replay
          /\ Apart(S)
      BY DEF Inv, RunSound, StoredSound
    <3>5. /\ \A s \in Scenarios : \E d \in S : d.scenario = s
          /\ Cardinality(S) = NumScenarios
      <4>1. \A d, e \in S : d.scenario = e.scenario => d = e
        BY <3>4 DEF Apart
      <4> QED
        BY <3>4, <4>1, WholeGrid
    <3>6. Selected(q.config) = Scenarios
      BY <3>3, UnlimitedTakesAll DEF DefaultGrid
    <3>7. Kept(q.existing, q.replay, q.config) = S
      BY <3>3, <3>4, <3>6 DEF Kept
    <3>8. Selected(q.config) \ {d.scenario : d \in S} = {}
      BY <3>5, <3>6
    <3>9. \A n : FirstOf(q.config, {}, n) = {}
      BY DEF FirstOf
    <3>10. PICK n : run.completion = Completion(S, q.config, n < Cardinality({}))
      <4> DEFINE kept == Kept(q.existing, q.replay, q.config)
                 missing == Selected(q.config) \ {d.scenario : d \in kept}
                 todo == FirstOf(q.config, missing \intersect InGroup(q.config), q.config.perInvocation)
                 New(n) == {[replay |-> q.replay, scenario |-> s, bars |-> q.bars, thresholds |-> q.config.thresholds] :
                            s \in FirstOf(q.config, todo, n)}
      <4>1. PICK n \in Ran(q.config, Cardinality(todo)) :
              run = [replay |-> q.replay, listed |-> Listed(q), config |-> q.config, scenarios |-> kept \union New(n),
                     sources |-> replays[q.replay].bars,
                     completion |-> Completion(kept \union New(n), q.config, n < Cardinality(todo))]
        BY DEF Engine
      <4>2. kept = S /\ missing \intersect InGroup(q.config) = {}
        BY <3>7, <3>8
      <4>3. todo = {}
        BY <3>9, <4>2
      <4>4. kept \union New(n) = S
        BY <3>9, <4>2, <4>3
      <4> HIDE DEF kept, todo, New
      <4> QED
        BY <4>1, <4>3, <4>4
    <3>11. FullGrid(S, q.config)
      <4> QED
        BY <3>3, <3>5, GridSize DEF FullGrid, Complete, DefaultGrid
    <3> QED
      BY <3>10, <3>11 DEF Completion
  <2>3. Next => runs' = runs \/ \E p \in Procs : SaveStudy(p)
    BY DEF Next, StoreBars, Build, WriteRows, MarkBuilt, Excuse, RunReplay, Create, RunSet, CheckStale, ReadBars,
           ReadFeatures, Replay, SaveResult, FinishSet, Study, ReadPrevious, ListScenarios, Crash
  <2> QED
    BY <2>1, <2>2, <2>3
<1> QED
  BY <1>1, Soundness, PTL DEF Spec, CompleteStands

-----------------------------------------------------------------------------
(* Window sets: what is generated. *)

\* A number lies between two multiples of what it is divided by.
LEMMA Division ==
    ASSUME NEW a \in Int, NEW b \in Nat \ {0}
    PROVE  /\ a \div b \in Int
           /\ (a \div b) * b <= a /\ a < (a \div b) * b + b
  OBVIOUS

LEMMA Multiples ==
    ASSUME NEW i \in Int, NEW j \in Int, NEW b \in Nat, i <= j
    PROVE  i * b <= j * b
  OBVIOUS

\* The steps of a loop begin before its end, and each time is less than a step behind one of them.
LEMMA StartsReach ==
    ASSUME NEW first \in Int, NEW step \in Nat \ {0}, NEW end \in Int
    PROVE  LET starts == Starts(first, step, end) IN
           /\ \E n \in Int : DOMAIN starts = 1..n
           /\ \A k \in DOMAIN starts : starts[k] \in Int /\ first <= starts[k] /\ starts[k] < end
           /\ \A t \in first..(end - 1) : \E k \in DOMAIN starts : starts[k] <= t /\ t < starts[k] + step
<1> DEFINE n == (end - first + step - 1) \div step
           starts == Starts(first, step, end)
<1>1. n \in Int /\ n * step <= end - first + step - 1 /\ end - first + step - 1 < n * step + step
  BY Division
<1>2. starts = [k \in 1..n |-> first + (k - 1) * step]
  BY DEF Starts
<1> HIDE DEF n, starts
<1>3. ASSUME NEW k \in 1..n PROVE starts[k] \in Int /\ first <= starts[k] /\ starts[k] < end
  <2>1. k \in Int /\ 0 <= k - 1 /\ k <= n /\ (k - 1) * step \in Int
    BY <1>1
  <2>2. 0 * step <= (k - 1) * step /\ k * step <= n * step
    BY <1>1, <2>1, Multiples
  <2>3. (k - 1) * step = k * step - step /\ k * step \in Int /\ n * step \in Int
    BY <1>1, <2>1
  <2>4. starts[k] = first + (k - 1) * step
    BY <1>2
  <2> QED
    BY <1>1, <2>1, <2>2, <2>3, <2>4
<1>4. ASSUME NEW t \in first..(end - 1)
      PROVE  \E k \in 1..n : starts[k] <= t /\ t < starts[k] + step
  <2> DEFINE m == (t - first) \div step
  <2>1. m \in Int /\ m * step <= t - first /\ t - first < m * step + step
    BY Division
  <2> HIDE DEF m
  <2>2. 0 <= m
    <3> SUFFICES ASSUME m <= -1 PROVE FALSE
      BY <2>1
    <3>1. m * step <= (-1) * step
      BY <2>1, Multiples
    <3> QED
      BY <2>1, <3>1
  <2>3. m + 1 <= n
    <3> SUFFICES ASSUME n <= m PROVE FALSE
      BY <1>1, <2>1
    <3>1. n * step <= m * step
      BY <1>1, <2>1, Multiples
    <3> QED
      BY <1>1, <2>1, <3>1
  <2>4. m + 1 \in 1..n /\ starts[m + 1] = first + m * step
    BY <1>1, <1>2, <2>1, <2>2, <2>3
  <2> QED
    BY <2>1, <2>4
<1>5. DOMAIN starts = 1..n
  BY <1>2
<1> QED
  BY <1>1, <1>3, <1>4, <1>5 DEF starts

\* What WindowsCover says of the windows of one set.
Covering(w, windows) ==
    /\ \A k \in DOMAIN windows : LET v == windows[k] IN
        /\ w.start <= v.replay.from /\ v.replay.from < v.replay.to /\ v.replay.to <= w.end
        /\ v.train # NoSpan => v.train.to + w.embargo <= v.replay.from
    /\ w.mode = "daily" \/ w.step <= w.size =>
        \A t \in (IF w.mode = "anchored" THEN AnchoredStart(w) ELSE w.start)..(w.end - 1) :
            \E k \in DOMAIN windows : LET v == windows[k].replay IN v.from <= t /\ t < v.to

\* The sizes and times of a request.
LEMMA RequestNumbers ==
    ASSUME NEW w \in SetRequest
    PROVE  /\ w.start \in Int /\ w.end \in Int /\ w.train \in Int /\ w.embargo \in Nat
           /\ w.size \in Nat \ {0} /\ w.step \in Nat \ {0} /\ w.windows \in Seq(Int)
           /\ w.mode \in {"daily", "rolling", "anchored", "custom"} /\ w.allowStale \in BOOLEAN
  BY DEF SetRequest

\* The window that begins at one of the starts.
LEMMA ReplayedWithin ==
    ASSUME NEW w \in SetRequest, NEW s \in Int, s < w.end
    PROVE  /\ Replayed(w, s).from = s /\ s < Replayed(w, s).to /\ Replayed(w, s).to <= w.end
           /\ \A t \in Int : t < s + w.step * Day /\ t < w.end /\ w.step <= w.size => t < Replayed(w, s).to
  BY RequestNumbers DEF Replayed, Span, Least, Day

\* A day of daily windows begins at a multiple of a day.
LEMMA DailyCovers == ASSUME NEW w \in SetRequest, w.mode = "daily", w.start < w.end PROVE Covering(w, DailyWindows(w))
<1> DEFINE first == (w.start \div Day) * Day
           days == Starts(first, Day, w.end)
           windows == DailyWindows(w)
<1>1. w.start \in Int /\ w.end \in Int
  BY RequestNumbers
<1>2. first \in Int /\ first <= w.start /\ w.start < first + Day
  BY <1>1 DEF Day
<1>3. /\ \A k \in DOMAIN days : days[k] \in Int /\ first <= days[k] /\ days[k] < w.end
      /\ \A t \in first..(w.end - 1) : \E k \in DOMAIN days : days[k] <= t /\ t < days[k] + Day
  <2>1. Day \in Nat \ {0}
    BY DEF Day
  <2> HIDE DEF first
  <2> QED
    BY <1>1, <1>2, <2>1, StartsReach
<1>4. /\ DOMAIN windows = DOMAIN days
      /\ \A k \in DOMAIN days :
            windows[k] = [index |-> k, train |-> NoSpan,
                          replay |-> Span(Most(days[k], w.start), Least(days[k] + Day, w.end))]
  BY DEF DailyWindows
<1>5. \A k \in DOMAIN days : days[k] >= first
  BY <1>3
<1> HIDE DEF first, days, windows
<1>6. ASSUME NEW k \in DOMAIN days
      PROVE  /\ windows[k].train = NoSpan
             /\ windows[k].replay.from = Most(days[k], w.start)
             /\ windows[k].replay.to = Least(days[k] + Day, w.end)
  BY <1>4 DEF Span
<1>7. ASSUME NEW k \in DOMAIN days PROVE w.start < days[k] + Day
  BY <1>1, <1>2, <1>3 DEF Day
<1>8. ASSUME NEW k \in DOMAIN windows
      PROVE  /\ w.start <= windows[k].replay.from /\ windows[k].replay.from < windows[k].replay.to
             /\ windows[k].replay.to <= w.end
             /\ windows[k].train = NoSpan
  BY <1>1, <1>3, <1>4, <1>6, <1>7 DEF Most, Least, Day
<1>9. ASSUME NEW t \in w.start..(w.end - 1)
      PROVE  \E k \in DOMAIN windows : windows[k].replay.from <= t /\ t < windows[k].replay.to
  <2>1. t \in first..(w.end - 1)
    BY <1>1, <1>2
  <2>2. PICK k \in DOMAIN days : days[k] <= t /\ t < days[k] + Day
    BY <1>3, <2>1
  <2> QED
    BY <1>1, <1>3, <1>4, <1>6, <2>2 DEF Most, Least, Day
<1> QED
  BY <1>8, <1>9 DEF Covering, windows

\* Windows of a given step and a given size, wherever the first begins.
LEMMA SteppedCovers ==
    ASSUME NEW w \in SetRequest, NEW first \in Int, w.start <= first, NEW windows,
           LET starts == Starts(first, w.step * Day, w.end) IN
           /\ DOMAIN windows = DOMAIN starts
           /\ \A k \in DOMAIN starts :
                /\ windows[k].replay = Replayed(w, starts[k])
                /\ windows[k].train # NoSpan => windows[k].train.to = starts[k] - w.embargo,
           w.mode # "daily", first = IF w.mode = "anchored" THEN AnchoredStart(w) ELSE w.start
    PROVE  Covering(w, windows)
<1> DEFINE starts == Starts(first, w.step * Day, w.end)
<1>1. w.start \in Int /\ w.end \in Int /\ w.embargo \in Nat /\ w.step * Day \in Nat \ {0}
  BY RequestNumbers DEF Day
<1>2. /\ \A k \in DOMAIN starts : starts[k] \in Int /\ first <= starts[k] /\ starts[k] < w.end
      /\ \A t \in first..(w.end - 1) : \E k \in DOMAIN starts : starts[k] <= t /\ t < starts[k] + w.step * Day
  BY <1>1, StartsReach
<1>3. /\ DOMAIN windows = DOMAIN starts
      /\ \A k \in DOMAIN starts :
            /\ windows[k].replay = Replayed(w, starts[k])
            /\ windows[k].train # NoSpan => windows[k].train.to = starts[k] - w.embargo
  OBVIOUS
<1> HIDE DEF starts
<1>4. ASSUME NEW k \in DOMAIN windows
      PROVE  /\ w.start <= windows[k].replay.from /\ windows[k].replay.from < windows[k].replay.to
             /\ windows[k].replay.to <= w.end
             /\ windows[k].train # NoSpan => windows[k].train.to + w.embargo <= windows[k].replay.from
  <2>1. /\ starts[k] \in Int /\ first <= starts[k] /\ starts[k] < w.end
        /\ windows[k].replay = Replayed(w, starts[k])
    BY <1>2, <1>3
  <2>2. windows[k].replay.from = starts[k] /\ starts[k] < windows[k].replay.to /\ windows[k].replay.to <= w.end
    BY <2>1, ReplayedWithin
  <2> QED
    BY <1>1, <1>3, <2>1, <2>2
<1>5. ASSUME w.step <= w.size, NEW t \in first..(w.end - 1)
      PROVE  \E k \in DOMAIN windows : windows[k].replay.from <= t /\ t < windows[k].replay.to
  <2>1. PICK k \in DOMAIN starts : starts[k] <= t /\ t < starts[k] + w.step * Day
    BY <1>2
  <2>2. starts[k] \in Int /\ starts[k] < w.end /\ t \in Int /\ t < w.end
    BY <1>1, <1>2
  <2> QED
    BY <1>3, <1>5, <2>1, <2>2, ReplayedWithin
<1> QED
  BY <1>4, <1>5 DEF Covering

\* Whatever the mode, unless the request says the windows itself.
LEMMA GeneratedCovers == ASSUME NEW w \in SetRequest, w.mode # "custom" PROVE Covering(w, GenerateWindows(w))
<1> USE RequestNumbers
<1> HIDE DEF Day
<1>0. w.step * Day \in Nat \ {0} /\ Day \in Nat \ {0}
  BY DEF Day
<1>1. CASE w.end <= w.start
  <2>1. GenerateWindows(w) = <<>>
    BY <1>1 DEF GenerateWindows
  <2>2. AnchoredStart(w) \in Int /\ w.start <= AnchoredStart(w)
    BY DEF AnchoredStart, Most, Day
  <2>3. \A t \in (IF w.mode = "anchored" THEN AnchoredStart(w) ELSE w.start)..(w.end - 1) : FALSE
    BY <1>1, <2>2
  <2> QED
    BY <2>1, <2>3 DEF Covering
<1>2. CASE w.start < w.end /\ w.mode = "daily"
  <2>1. GenerateWindows(w) = DailyWindows(w)
    BY <1>2 DEF GenerateWindows
  <2> QED
    BY <1>2, <2>1, DailyCovers
<1>3. CASE w.start < w.end /\ w.mode = "rolling"
  <2> DEFINE starts == Starts(w.start, w.step * Day, w.end)
  <2>1. GenerateWindows(w) = RollingWindows(w)
    BY <1>3 DEF GenerateWindows
  <2>2. ASSUME NEW s \in Int
        PROVE  RollingTrain(w, s) # NoSpan => RollingTrain(w, s).to = s - w.embargo
    BY DEF RollingTrain, Span
  <2>3. \A k \in DOMAIN starts : starts[k] \in Int
    BY <1>0, StartsReach
  <2>4. /\ DOMAIN RollingWindows(w) = DOMAIN starts
        /\ \A k \in DOMAIN starts :
            /\ RollingWindows(w)[k].replay = Replayed(w, starts[k])
            /\ RollingWindows(w)[k].train = RollingTrain(w, starts[k])
    BY DEF RollingWindows
  <2> HIDE DEF starts
  <2>5. \A k \in DOMAIN starts :
            RollingWindows(w)[k].train # NoSpan => RollingWindows(w)[k].train.to = starts[k] - w.embargo
    BY <2>2, <2>3, <2>4
  <2> QED
    BY <1>3, <2>1, <2>4, <2>5, SteppedCovers, SMTT(30) DEF starts
<1>4. CASE w.start < w.end /\ w.mode = "anchored"
  <2> DEFINE starts == Starts(AnchoredStart(w), w.step * Day, w.end)
  <2>1. GenerateWindows(w) = AnchoredWindows(w)
    BY <1>4 DEF GenerateWindows
  <2>2. AnchoredStart(w) \in Int /\ w.start <= AnchoredStart(w)
    BY DEF AnchoredStart, Most, Day
  <2>3. /\ DOMAIN AnchoredWindows(w) = DOMAIN starts
        /\ \A k \in DOMAIN starts :
            /\ AnchoredWindows(w)[k].replay = Replayed(w, starts[k])
            /\ AnchoredWindows(w)[k].train # NoSpan => AnchoredWindows(w)[k].train.to = starts[k] - w.embargo
    BY DEF AnchoredWindows, Span
  <2> HIDE DEF starts
  <2> QED
    BY <1>4, <2>1, <2>2, <2>3, SteppedCovers DEF starts
<1> QED
  BY <1>1, <1>2, <1>3, <1>4

\* The windows of a set are a sequence.
LEMMA WindowsAreSequence ==
    ASSUME NEW w \in SetRequest, NEW windows, windows = GenerateWindows(w)
    PROVE  Len(windows) \in Nat /\ DOMAIN windows = 1..Len(windows)
<1>0. /\ w.step * Day \in Nat \ {0} /\ Day \in Nat \ {0}
      /\ w.start \in Int /\ w.end \in Int /\ AnchoredStart(w) \in Int
      /\ w.mode \in {"daily", "rolling", "anchored", "custom"}
  BY RequestNumbers DEF Day, AnchoredStart, Most
<1>1. /\ \E n \in Int : DOMAIN windows = 1..n
      /\ windows = [k \in DOMAIN windows |-> windows[k]]
  <2>1. CASE w.mode = "custom"
    <3>1. windows = CustomWindows(w)
      BY <2>1 DEF GenerateWindows
    <3>2. PICK n \in Int : DOMAIN w.windows = 1..n
      <4>1. w.windows \in Seq(Int)
        BY RequestNumbers
      <4> QED
        BY <4>1
    <3> QED
      BY <3>1, <3>2 DEF CustomWindows
  <2>2. CASE w.mode # "custom" /\ w.end <= w.start
    <3>1. windows = <<>>
      BY <2>2 DEF GenerateWindows
    <3>2. DOMAIN windows = 1..0 /\ windows = [k \in 1..0 |-> windows[k]]
      BY <3>1
    <3>3. 0 \in Int /\ windows = [k \in DOMAIN windows |-> windows[k]]
      BY <3>2
    <3> QED
      BY <3>2, <3>3
  <2>3. CASE w.mode = "daily" /\ w.start < w.end
    <3> DEFINE first == (w.start \div Day) * Day
    <3>1. first \in Int
      BY <1>0 DEF Day
    <3>2. windows = DailyWindows(w)
      BY <1>0, <2>3 DEF GenerateWindows
    <3> HIDE DEF first
    <3>3. PICK n \in Int : DOMAIN Starts(first, Day, w.end) = 1..n
      BY <3>1, <1>0, StartsReach, ZenonT(40)
    <3>4. DOMAIN windows = DOMAIN Starts(first, Day, w.end) /\ windows = [k \in DOMAIN windows |-> windows[k]]
      BY <3>2 DEF DailyWindows, first
    <3> QED
      BY <3>3, <3>4
  <2>4. CASE w.mode = "rolling" /\ w.start < w.end
    <3>1. windows = RollingWindows(w)
      BY <1>0, <2>4 DEF GenerateWindows
    <3>2. PICK n \in Int : DOMAIN Starts(w.start, w.step * Day, w.end) = 1..n
      BY <1>0, StartsReach, ZenonT(40)
    <3>3. /\ DOMAIN windows = DOMAIN Starts(w.start, w.step * Day, w.end)
          /\ windows = [k \in DOMAIN windows |-> windows[k]]
      BY <3>1 DEF RollingWindows
    <3> QED
      BY <3>2, <3>3
  <2>5. CASE w.mode = "anchored" /\ w.start < w.end
    <3>1. windows = AnchoredWindows(w)
      BY <1>0, <2>5 DEF GenerateWindows
    <3>2. PICK n \in Int : DOMAIN Starts(AnchoredStart(w), w.step * Day, w.end) = 1..n
      BY <1>0, StartsReach, ZenonT(40)
    <3>3. /\ DOMAIN windows = DOMAIN Starts(AnchoredStart(w), w.step * Day, w.end)
          /\ windows = [k \in DOMAIN windows |-> windows[k]]
      BY <3>1 DEF AnchoredWindows
    <3> QED
      BY <3>2, <3>3
  <2> QED
    BY <1>0, <2>1, <2>2, <2>3, <2>4, <2>5
<1>2. PICK n \in Int : DOMAIN windows = 1..n
  BY <1>1
<1>3. PICK m \in Nat : DOMAIN windows = 1..m
  <2>1. CASE n >= 0
    BY <1>2, <2>1
  <2>2. CASE n < 0
    <3>1. 1..n = 1..0
      BY <2>2
    <3> QED
      BY <1>2, <3>1
  <2> QED
    BY <2>1, <2>2
<1>4. PICK Rows : \A k \in DOMAIN windows : windows[k] \in Rows
  <2> DEFINE Rows == {windows[k] : k \in DOMAIN windows}
  <2>1. \A k \in DOMAIN windows : windows[k] \in Rows
    OBVIOUS
  <2> HIDE DEF Rows
  <2> QED
    BY <2>1
<1>5. windows \in [1..m -> Rows]
  BY <1>1, <1>3, <1>4
<1>6. windows \in Seq(Rows)
  BY <1>5
<1> QED
  BY <1>6

-----------------------------------------------------------------------------
(* Window sets: the inductive invariant. *)

\* What a result is.
ResultRow == [counterfactual : Nat, portfolio : Nat, status : {"completed"}, compared : BOOLEAN]

\* The window run that a process is in, or waits for its replay to return to.
Run(q) == IF q.at \in Replaying THEN q.caller ELSE q
InRun(q) == q.at \in InLoop \/ (q.at \in Replaying /\ q.caller # Idle)

\* Replays that were saved, or none.
Refers(row) == row.counterfactual \in 0..Len(replays) /\ row.portfolio \in 0..Len(replays)

RunBase(q) ==
    /\ DOMAIN q = {"at", "windows", "existing", "rerun", "dry", "n", "got", "counterfactual", "portfolio"}
    /\ q.rerun \in BOOLEAN
    /\ q.n \in 1..(Len(q.windows) + 1)
    /\ q.got \in Seq(ResultRow) /\ Len(q.got) = q.n - 1
    /\ \A i \in DOMAIN q.existing : q.existing[i] \in ResultRow
    /\ Refers(q)

\* A run that goes on has a window to run, one that ends has none left.
RunShape(q) ==
    /\ RunBase(q)
    /\ IF q.at = "finish" THEN q.n = Len(q.windows) + 1 ELSE q.n \in DOMAIN q.windows /\ ~Skipped(q, q.n)

RunOfSet(q) == RunShape(q) /\ q.windows = set.windows

\* A run alone has what is stored of the windows behind it, and knows what is stored of those ahead.
TrueOf(q, rows) ==
    /\ \A k \in 1..(q.n - 1) : Index(q, k) \in DOMAIN rows /\ q.got[k] = rows[Index(q, k)]
    /\ \A k \in q.n..Len(q.windows) :
        /\ Index(q, k) \in DOMAIN q.existing <=> Index(q, k) \in DOMAIN rows
        /\ Index(q, k) \in DOMAIN q.existing => q.existing[Index(q, k)] = rows[Index(q, k)]

RunTrue(q) == TrueOf(q, results)

SummaryTrue ==
    /\ Len(set.summary) = Len(set.windows)
    /\ \A k \in DOMAIN set.windows : /\ set.windows[k].index \in DOMAIN results
                                     /\ set.summary[k] = results[set.windows[k].index]

OwnIndexes == \A j, k \in DOMAIN set.windows : set.windows[j].index = set.windows[k].index => j = k

SetShape ==
    /\ left.sets \subseteq SetRequest /\ excused.windows \in BOOLEAN
    /\ set # NoSet => /\ set.payload \in SetRequest /\ set.windows = GenerateWindows(set.payload)
                      /\ set.status \in {"created", "rejected", "completed"}
    /\ set = NoSet => DOMAIN results = {}
    /\ \A i \in DOMAIN results : results[i] \in ResultRow /\ Refers(results[i])

\* What holds while window runs did not overlap and the windows have indexes of their own.
AloneTrue == OwnIndexes =>
    /\ \A p \in WindowRuns : RunTrue(Run(proc[p]))
    /\ set.status = "completed" /\ (\A p \in WindowRuns : ~Run(proc[p]).rerun) => SummaryTrue

WindowInv ==
    /\ SetShape
    /\ \A p \in Procs : InRun(proc[p]) => RunOfSet(Run(proc[p]))
    /\ \A p \in Procs : proc[p].at \in Replaying /\ proc[p].caller # Idle => proc[p].caller.at = proc[p].kind
    /\ ~excused.windows /\ set # NoSet => AloneTrue /\ \A p, q \in WindowRuns : p = q

-----------------------------------------------------------------------------
(* Window sets: the loop. *)

\* Two sequences, one after the other.
LEMMA Joined ==
    ASSUME NEW S, NEW s \in Seq(S), NEW t \in Seq(S)
    PROVE  /\ s \o t \in Seq(S) /\ Len(s \o t) = Len(s) + Len(t)
           /\ \A k \in 1..Len(s) : (s \o t)[k] = s[k]
           /\ \A k \in (Len(s) + 1)..(Len(s) + Len(t)) : (s \o t)[k] = t[k - Len(s)]
  OBVIOUS

\* Where the loop goes on: every window it passes is taken over from the results it read.
LEMMA Continues ==
    ASSUME NEW q, RunBase(q), Len(q.windows) \in Nat
    PROVE  LET c == Continue(q) IN
           /\ DOMAIN c = DOMAIN q
           /\ c.windows = q.windows /\ c.existing = q.existing /\ c.rerun = q.rerun
           /\ c.counterfactual = 0 /\ c.portfolio = 0
           /\ c.n \in q.n..(Len(q.windows) + 1)
           /\ c.got \in Seq(ResultRow) /\ Len(c.got) = c.n - 1
           /\ \A k \in 1..(q.n - 1) : c.got[k] = q.got[k]
           /\ \A k \in q.n..(c.n - 1) : Skipped(q, k) /\ c.got[k] = q.existing[Index(q, k)]
           /\ c.at \in {"finish", "save", "counterfactual"}
           /\ IF c.at = "finish" THEN c.n = Len(q.windows) + 1 ELSE c.n \in 1..Len(q.windows) /\ ~Skipped(q, c.n)
<1> DEFINE L == Len(q.windows)
           todo == {k \in q.n..L : ~Skipped(q, k)}
           next == IF todo = {} THEN L + 1 ELSE CHOOSE k \in todo : \A j \in todo : k <= j
           taken == [k \in 1..(next - q.n) |-> q.existing[Index(q, q.n + k - 1)]]
           at == IF todo = {} THEN "finish" ELSE IF q.dry THEN "save" ELSE "counterfactual"
           c == Continue(q)
<1>1. /\ L \in Nat /\ q.n \in 1..(L + 1) /\ q.got \in Seq(ResultRow) /\ Len(q.got) = q.n - 1
      /\ DOMAIN q = {"at", "windows", "existing", "rerun", "dry", "n", "got", "counterfactual", "portfolio"}
      /\ \A i \in DOMAIN q.existing : q.existing[i] \in ResultRow
  BY DEF RunBase
<1>2. c = [q EXCEPT !.n = next, !.got = @ \o taken, !.at = at, !.counterfactual = 0, !.portfolio = 0]
  BY DEF Continue
<1>3. /\ next \in q.n..(L + 1) /\ \A k \in q.n..(next - 1) : Skipped(q, k)
      /\ IF todo = {} THEN next = L + 1 ELSE next \in 1..L /\ ~Skipped(q, next)
  <2>1. CASE todo = {}
    BY <1>1, <2>1
  <2>2. CASE todo # {}
    <3> DEFINE S == todo
    <3>1. S \in SUBSET (0..L) /\ S # {}
      BY <1>1, <2>2
    <3> HIDE DEF S
    <3>2. Min(S) \in S /\ \A j \in S : Min(S) <= j
      BY <1>1, <3>1, MinIsLeast
    <3>3. next \in S /\ \A j \in S : next <= j
      BY <2>2, <3>2 DEF S
    <3> HIDE DEF next
    <3>4. next \in q.n..L /\ ~Skipped(q, next)
      BY <3>3 DEF S
    <3>5. ASSUME NEW k \in q.n..(next - 1) PROVE Skipped(q, k)
      <4>1. k \in q.n..L /\ ~(next <= k)
        BY <1>1, <3>4
      <4> QED
        BY <3>3, <4>1 DEF S
    <3> QED
      BY <1>1, <2>2, <3>4, <3>5
  <2> QED
    BY <2>1, <2>2
<1>4. at \in {"finish", "save", "counterfactual"} /\ (at = "finish" <=> todo = {})
  OBVIOUS
<1> HIDE DEF todo, next, at
<1>5. /\ c.windows = q.windows /\ c.existing = q.existing /\ c.rerun = q.rerun /\ c.n = next /\ c.at = at
      /\ c.got = q.got \o taken /\ c.counterfactual = 0 /\ c.portfolio = 0 /\ DOMAIN c = DOMAIN q
  <2> HIDE DEF taken, c
  <2> QED
    BY <1>1, <1>2
<1>6. ASSUME NEW k \in 1..(next - q.n)
      PROVE  q.existing[Index(q, q.n + k - 1)] \in ResultRow
  <2>1. q.n + k - 1 \in q.n..(next - 1)
    BY <1>1, <1>3
  <2>2. Index(q, q.n + k - 1) \in DOMAIN q.existing
    BY <1>3, <2>1 DEF Skipped
  <2> QED
    BY <1>1, <2>2
<1>7. next - q.n \in Nat /\ next \in Nat
  BY <1>1, <1>3
<1>8. taken \in [1..(next - q.n) -> ResultRow]
  BY <1>6
<1>9. taken \in Seq(ResultRow) /\ Len(taken) = next - q.n
  <2> HIDE DEF taken
  <2> QED
    BY <1>7, <1>8
<1>10. \A k \in 1..(next - q.n) : taken[k] = q.existing[Index(q, q.n + k - 1)]
  OBVIOUS
<1> HIDE DEF taken, c
<1>11. /\ c.got \in Seq(ResultRow) /\ Len(c.got) = next - 1
       /\ \A k \in 1..(q.n - 1) : c.got[k] = q.got[k]
       /\ \A k \in q.n..(next - 1) : c.got[k] = taken[k - (q.n - 1)]
  <2> PICK n, m, s, r : n = next /\ m = q.n /\ s = q.got /\ r = taken
    OBVIOUS
  <2>1. /\ s \o r \in Seq(ResultRow) /\ Len(s \o r) = Len(s) + Len(r)
        /\ \A k \in 1..Len(s) : (s \o r)[k] = s[k]
        /\ \A k \in (Len(s) + 1)..(Len(s) + Len(r)) : (s \o r)[k] = r[k - Len(s)]
    <3>1. s \in Seq(ResultRow) /\ r \in Seq(ResultRow)
      BY <1>1, <1>9
    <3> QED
      BY <3>1, Joined
  <2>2. Len(s) = m - 1 /\ Len(r) = n - m /\ m \in Nat /\ n \in Nat
    BY <1>1, <1>7, <1>9
  <2>3. c.got = s \o r
    BY <1>5
  <2>4. s \o r \in Seq(ResultRow) /\ Len(s \o r) = n - 1
    BY <2>1, <2>2
  <2>5. 1..(m - 1) = 1..Len(s) /\ m..(n - 1) = (Len(s) + 1)..(Len(s) + Len(r))
    BY <2>2
  <2>6. /\ \A k \in 1..(m - 1) : (s \o r)[k] = s[k]
        /\ \A k \in m..(n - 1) : (s \o r)[k] = r[k - (m - 1)]
    BY <2>1, <2>2, <2>5
  <2> QED
    BY <2>3, <2>4, <2>6
<1>12. ASSUME NEW k \in q.n..(next - 1) PROVE c.got[k] = q.existing[Index(q, k)]
  <2>1. k - (q.n - 1) \in 1..(next - q.n) /\ q.n + (k - (q.n - 1)) - 1 = k
    BY <1>1, <1>7
  <2> QED
    BY <1>10, <1>11, <2>1
<1> QED
  BY <1>3, <1>4, <1>5, <1>11, <1>12 DEF c

\* A run that goes on is sound.
LEMMA ContinuesSound ==
    ASSUME NEW q, RunBase(q), replays \in Seq(ReplayRow), Len(q.windows) \in Nat,
           DOMAIN q.windows = 1..Len(q.windows)
    PROVE  RunShape(Continue(q))
<1> PICK c : c = Continue(q)
  OBVIOUS
<1>1. /\ DOMAIN c = DOMAIN q
      /\ c.windows = q.windows /\ c.existing = q.existing /\ c.rerun = q.rerun
      /\ c.counterfactual = 0 /\ c.portfolio = 0
      /\ c.n \in q.n..(Len(q.windows) + 1)
      /\ c.got \in Seq(ResultRow) /\ Len(c.got) = c.n - 1
      /\ IF c.at = "finish" THEN c.n = Len(q.windows) + 1 ELSE c.n \in 1..Len(q.windows) /\ ~Skipped(q, c.n)
  BY Continues
<1>2. q.n \in 1..(Len(q.windows) + 1)
  BY DEF RunBase
<1>3. \A k : Skipped(c, k) = Skipped(q, k)
  BY <1>1 DEF Index, Skipped
<1>4. Refers(c)
  BY <1>1 DEF Refers
<1>5. RunBase(c)
  BY <1>1, <1>2, <1>4 DEF RunBase
<1> QED
  BY <1>1, <1>3, <1>5 DEF RunShape

\* It stays true of them when it goes on.
LEMMA ContinuesTrue ==
    ASSUME NEW q, RunBase(q), Len(q.windows) \in Nat, NEW rows, TrueOf(q, rows)
    PROVE  TrueOf(Continue(q), rows)
<1> PICK c : c = Continue(q)
  OBVIOUS
<1>1. /\ c.windows = q.windows /\ c.existing = q.existing
      /\ c.n \in q.n..(Len(q.windows) + 1)
      /\ \A k \in 1..(q.n - 1) : c.got[k] = q.got[k]
      /\ \A k \in q.n..(c.n - 1) : Skipped(q, k) /\ c.got[k] = q.existing[Index(q, k)]
  BY Continues
<1>2. q.n \in 1..(Len(q.windows) + 1)
  BY DEF RunBase
<1>3. \A k : Index(c, k) = Index(q, k)
  BY <1>1 DEF Index
<1>4. ASSUME NEW k \in 1..(c.n - 1)
      PROVE  Index(c, k) \in DOMAIN rows /\ c.got[k] = rows[Index(c, k)]
  <2>1. CASE k \in 1..(q.n - 1)
    BY <1>1, <1>3, <2>1 DEF TrueOf
  <2>2. CASE k \in q.n..(c.n - 1)
    <3>1. Index(q, k) \in DOMAIN q.existing /\ c.got[k] = q.existing[Index(q, k)] /\ k \in q.n..Len(q.windows)
      BY <1>1, <1>2, <2>2 DEF Skipped
    <3> QED
      BY <1>3, <3>1 DEF TrueOf
  <2> QED
    BY <1>1, <1>2, <2>1, <2>2
<1>5. ASSUME NEW k \in c.n..Len(c.windows) PROVE k \in q.n..Len(q.windows)
  BY <1>1, <1>2
<1> QED
  BY <1>1, <1>3, <1>4, <1>5 DEF TrueOf

-----------------------------------------------------------------------------
(* Window sets: each action. *)

\* What a step may do to a run without telling it from what it was.
Keeps(q, r) ==
    /\ DOMAIN r = DOMAIN q /\ r.windows = q.windows /\ r.existing = q.existing /\ r.rerun = q.rerun
    /\ r.n = q.n /\ r.got = q.got /\ (r.at = "finish" <=> q.at = "finish")

LEMMA BaseKept ==
    ASSUME NEW q, NEW r, RunBase(q), Keeps(q, r), Refers(r)'
    PROVE  RunBase(r)'
  BY DEF RunBase, Keeps

LEMMA ShapeKept ==
    ASSUME NEW q, NEW r, RunShape(q), Keeps(q, r), Refers(r)'
    PROVE  RunShape(r)'
<1>1. RunBase(r)'
  BY BaseKept DEF RunShape
<1> QED
  BY <1>1 DEF RunShape, Keeps, Skipped, Index

LEMMA TrueKept ==
    ASSUME NEW q, NEW r, RunTrue(q), Keeps(q, r), results' = results
    PROVE  RunTrue(r)'
  BY DEF RunTrue, TrueOf, Keeps, Index

\* Replays are only added.
LEMMA RefersKept ==
    ASSUME NEW q, Refers(q), replays \in Seq(ReplayRow), replays' \in Seq(ReplayRow), Len(replays) <= Len(replays')
    PROVE  Refers(q)'
  BY DEF Refers

LEMMA SetShapeKept ==
    ASSUME SetShape, UNCHANGED <<set, results>>, left'.sets = left.sets, excused'.windows \in BOOLEAN,
           replays \in Seq(ReplayRow), replays' \in Seq(ReplayRow), Len(replays) <= Len(replays')
    PROVE  SetShape'
<1>1. ASSUME NEW i \in DOMAIN results PROVE Refers(results[i])'
  <2> PICK row : row = results[i]
    OBVIOUS
  <2>1. Refers(row)
    BY DEF SetShape
  <2>2. Refers(row)'
    BY <2>1, RefersKept
  <2> QED
    BY <2>2 DEF Refers
<1> QED
  BY <1>1 DEF SetShape

\* Steps that leave sets and results alone, and every run where it was.
LEMMA WindowFrame ==
    ASSUME Inv, Inv', WindowInv, UNCHANGED <<set, results>>,
           left'.sets = left.sets, excused'.windows = excused.windows, Len(replays) <= Len(replays'),
           NEW p \in Procs, \A o \in Procs : o # p => proc'[o] = proc[o],
           InRun(proc[p])' <=> InRun(proc[p]),
           InRun(proc[p]) => Keeps(Run(proc[p]), Run(proc[p])') /\ Refers(Run(proc[p]))',
           proc'[p].at \in Replaying /\ proc'[p].caller # Idle => proc'[p].caller.at = proc'[p].kind
    PROVE  WindowInv'
<1>1. replays \in Seq(ReplayRow) /\ replays' \in Seq(ReplayRow)
  BY DEF Inv, Base
<1>2. SetShape'
  BY <1>1, SetShapeKept DEF WindowInv, SetShape
<1>3. ASSUME NEW o \in Procs
      PROVE  /\ InRun(proc[o])' <=> InRun(proc[o])
             /\ InRun(proc[o]) => Keeps(Run(proc[o]), Run(proc[o])') /\ Refers(Run(proc[o]))'
             /\ proc'[o].at \in Replaying /\ proc'[o].caller # Idle => proc'[o].caller.at = proc'[o].kind
  <2>1. CASE o = p
    BY <2>1
  <2>2. CASE o # p
    <3>1. proc'[o] = proc[o]
      BY <2>2
    <3>2. (InRun(proc[o])' <=> InRun(proc[o])) /\ Run(proc[o])' = Run(proc[o])
      BY <3>1 DEF InRun, Run
    <3>3. InRun(proc[o]) => Refers(Run(proc[o]))'
      <4> PICK q : q = Run(proc[o])
        OBVIOUS
      <4>1. InRun(proc[o]) => Refers(q)
        BY DEF WindowInv, RunOfSet, RunShape, RunBase
      <4>2. InRun(proc[o]) => Refers(q)'
        BY <1>1, <4>1, RefersKept
      <4> QED
        BY <3>2, <4>2 DEF Refers
    <3> QED
      BY <3>1, <3>2, <3>3 DEF Keeps, WindowInv
  <2> QED
    BY <2>1, <2>2
<1>4. ASSUME NEW o \in Procs, InRun(proc[o])' PROVE RunOfSet(Run(proc[o]))'
  <2> PICK q, r : q = Run(proc[o]) /\ r = Run(proc[o])'
    OBVIOUS
  <2>1. RunShape(q) /\ Keeps(q, r) /\ q.windows = set.windows
    BY <1>3, <1>4 DEF WindowInv, RunOfSet
  <2>2. Refers(r)'
    BY <1>3, <1>4 DEF Refers
  <2>3. RunShape(r)' /\ r.windows = set'.windows
    BY <2>1, <2>2, ShapeKept DEF Keeps
  <2> QED
    BY <2>3 DEF RunOfSet, RunShape, RunBase, Refers, Skipped, Index
<1>5. WindowRuns' = WindowRuns /\ \A o \in WindowRuns : o \in Procs /\ InRun(proc[o])
  BY <1>3 DEF WindowRuns, InRun
<1>6. AloneTrue => AloneTrue'
  <2> SUFFICES ASSUME AloneTrue, OwnIndexes PROVE AloneTrue'
    BY DEF AloneTrue, OwnIndexes
  <2>1. ASSUME NEW o \in WindowRuns PROVE RunTrue(Run(proc[o]))' /\ Run(proc[o])'.rerun = Run(proc[o]).rerun
    <3> PICK q, r : q = Run(proc[o]) /\ r = Run(proc[o])'
      OBVIOUS
    <3>1. RunTrue(q) /\ Keeps(q, r)
      BY <1>3, <1>5 DEF AloneTrue
    <3>2. RunTrue(r)'
      BY <3>1, TrueKept
    <3> QED
      BY <3>1, <3>2 DEF RunTrue, TrueOf, Keeps, Index
  <2>2. SummaryTrue => SummaryTrue'
    BY DEF SummaryTrue
  <2> QED
    BY <1>5, <2>1, <2>2 DEF AloneTrue
<1> QED
  BY <1>2, <1>3, <1>4, <1>5, <1>6 DEF WindowInv

\* Nothing is stored at the start.
LEMMA InitWindows == Init => WindowInv
<1> SUFFICES ASSUME Init PROVE WindowInv
  OBVIOUS
<1>1. left.sets \subseteq SetRequest
  BY RequestsAssumption DEF Init
<1>2. DOMAIN results = {}
  BY DEF Init
<1>3. SetShape
  BY <1>1, <1>2 DEF Init, SetShape, NoSet
<1>4. ASSUME NEW p \in Procs PROVE ~InRun(proc[p]) /\ proc[p].at \notin Replaying
  BY DEF Init, InRun, Idle, InLoop, Replaying
<1> QED
  BY <1>3, <1>4 DEF WindowInv, Init

\* A process that is in no run and begins none.
LEMMA WindowFrameOutside ==
    ASSUME Inv, Inv', WindowInv, UNCHANGED <<set, results, replays>>,
           left'.sets = left.sets, excused'.windows = excused.windows,
           NEW p \in Procs, \A o \in Procs : o # p => proc'[o] = proc[o],
           ~InRun(proc[p]), ~InRun(proc[p])'
    PROVE  WindowInv'
<1>1. Len(replays) <= Len(replays')
  <2>1. Len(replays) \in Nat
    BY DEF Inv, Base
  <2> QED
    BY <2>1
<1> QED
  BY <1>1, WindowFrame DEF InRun

\* Steps that change none of what it is about.
LEMMA Untouched ==
    ASSUME WindowInv, UNCHANGED <<set, results, replays, proc, excused>>, left'.sets = left.sets
    PROVE  WindowInv'
<1>1. SetShape'
  BY DEF WindowInv, SetShape, Refers
<1>2. ASSUME NEW p \in Procs PROVE (InRun(proc[p])' <=> InRun(proc[p])) /\ Run(proc[p])' = Run(proc[p])
  BY DEF InRun, Run
<1>3. ASSUME NEW p \in Procs, InRun(proc[p])' PROVE RunOfSet(Run(proc[p]))'
  <2>1. RunOfSet(Run(proc[p]))
    BY <1>2, <1>3 DEF WindowInv
  <2> QED
    BY <1>2, <2>1 DEF RunOfSet, RunShape, RunBase, Refers, Skipped, Index, Run
<1>4. WindowRuns' = WindowRuns
  BY DEF WindowRuns
<1>5. AloneTrue => AloneTrue'
  <2>1. SUFFICES ASSUME AloneTrue, OwnIndexes'
                 PROVE  /\ \A p \in WindowRuns : RunTrue(Run(proc[p]))'
                        /\ set.status = "completed" /\ (\A p \in WindowRuns : ~Run(proc[p])'.rerun) => SummaryTrue'
    BY <1>4 DEF AloneTrue
  <2>2. OwnIndexes
    BY <2>1 DEF OwnIndexes
  <2>3. ASSUME NEW p \in WindowRuns PROVE Run(proc[p])' = Run(proc[p])
    BY DEF Run
  <2>4. ASSUME NEW p \in WindowRuns PROVE RunTrue(Run(proc[p]))'
    <3>1. RunTrue(Run(proc[p]))
      BY <2>1, <2>2, <2>4 DEF AloneTrue
    <3> QED
      BY <2>3, <2>4, <3>1 DEF RunTrue, TrueOf, Index
  <2>5. set.status = "completed" /\ (\A p \in WindowRuns : ~Run(proc[p])'.rerun) => SummaryTrue
    BY <2>1, <2>2, <2>3 DEF AloneTrue
  <2>6. SummaryTrue' <=> SummaryTrue
    BY DEF SummaryTrue
  <2> QED
    BY <2>4, <2>5, <2>6
<1> QED
  BY <1>1, <1>3, <1>4, <1>5 DEF WindowInv

\* Builds of features or candidates.
LEMMA BuildsKeepWindows ==
    ASSUME Inv, Inv', WindowInv, NEW p \in Procs, Build(p) \/ WriteRows(p) \/ MarkBuilt(p)
    PROVE  WindowInv'
<1>1. UNCHANGED <<set, results, replays>> /\ left'.sets = left.sets
  BY DEF Build, WriteRows, MarkBuilt, Spend, Inv, Base
<1>2. excused'.windows = excused.windows
  <2>1. DOMAIN excused = {"thresholds", "replays", "windows", "builds"}
    BY DEF Inv, Base
  <2>2. excused' = excused \/ \E here : excused' = [excused EXCEPT !.builds = @ \/ here]
    BY DEF Build, WriteRows, MarkBuilt, Excuse
  <2> QED
    BY <2>1, <2>2
<1>3. proc[p].at \in {"idle", "write", "mark"} /\ proc'[p].at \in {"idle", "write", "mark"}
      /\ \A o \in Procs : o # p => proc'[o] = proc[o]
  <2>1. CASE Build(p)
    BY <2>1 DEF Build, Become, Idle, Inv, Base
  <2>2. CASE WriteRows(p)
    <3>1. "at" \in DOMAIN proc[p]
      BY DEF Inv, ProcSound
    <3> QED
      BY <2>2, <3>1 DEF WriteRows, Become, Inv, Base
  <2>3. CASE MarkBuilt(p)
    BY <2>3 DEF MarkBuilt, Become, Idle, Inv, Base
  <2> QED
    BY <2>1, <2>2, <2>3
<1>4. ~InRun(proc[p]) /\ ~InRun(proc[p])'
  BY <1>3 DEF InRun, InLoop, Replaying
<1> QED
  BY <1>1, <1>2, <1>3, <1>4, WindowFrameOutside

\* Sensitivity runs, and replays on their own that are refused or begin.
LEMMA OthersKeepWindows ==
    ASSUME Inv, Inv', WindowInv, NEW p \in Procs,
           RunReplay(p) \/ Study(p) \/ ReadPrevious(p) \/ ListScenarios(p) \/ SaveStudy(p)
    PROVE  WindowInv'
<1>1. /\ UNCHANGED <<set, results, replays>> /\ left'.sets = left.sets
      /\ excused'.windows = excused.windows
  BY DEF RunReplay, Study, ReadPrevious, ListScenarios, SaveStudy, Spend, Inv, Base
<1>2. /\ \E next : proc' = [proc EXCEPT ![p] = next]
      /\ proc[p].at \in {"idle", "previous", "scenarios", "engine"}
  BY DEF RunReplay, Study, ReadPrevious, ListScenarios, SaveStudy, Become, Idle
<1>3. ~InRun(proc[p])
  BY <1>2 DEF InRun, InLoop, Replaying
<1>4. \A o \in Procs : o # p => proc'[o] = proc[o]
  BY <1>2 DEF Inv, Base
<1>5. ~InRun(proc[p])'
  <2>1. CASE RunReplay(p)
    <3>1. PICK allowStale \in BOOLEAN : Become(p, Checked(Idle, "portfolio", allowStale))
      BY <2>1 DEF RunReplay
    <3>2. proc'[p] = Checked(Idle, "portfolio", allowStale)
      BY <3>1 DEF Become, Inv, Base
    <3>3. CASE Refused(allowStale)
      <4>1. proc'[p] = Idle
        BY <3>2, <3>3 DEF Checked, Returned
      <4> QED
        BY <4>1 DEF InRun, Idle, InLoop, Replaying
    <3>4. CASE ~Refused(allowStale)
      <4>1. proc'[p].at = "bars" /\ proc'[p].caller = Idle
        BY <3>2, <3>4 DEF Checked
      <4> QED
        BY <4>1 DEF InRun, InLoop
    <3> QED
      BY <3>3, <3>4
  <2>2. CASE Study(p)
    <3>1. proc'[p].at = "previous"
      BY <2>2 DEF Study, Become, Inv, Base
    <3> QED
      BY <3>1 DEF InRun, InLoop, Replaying
  <2>3. CASE ReadPrevious(p)
    <3>1. proc'[p].at \in {"scenarios", "engine"}
      BY <2>3 DEF ReadPrevious, Become, Inv, Base
    <3> QED
      BY <3>1 DEF InRun, InLoop, Replaying
  <2>4. CASE ListScenarios(p)
    <3>1. proc'[p] = [proc[p] EXCEPT !.at = "engine", !.existing = runs[proc[p].id].scenarios]
      BY <2>4 DEF ListScenarios, Become, Inv, Base
    <3>2. "at" \in DOMAIN proc[p]
      BY DEF Inv, ProcSound
    <3>3. proc'[p].at = "engine"
      BY <3>1, <3>2
    <3> QED
      BY <3>3 DEF InRun, InLoop, Replaying
  <2>5. CASE SaveStudy(p)
    <3>1. proc'[p] = Idle
      BY <2>5 DEF SaveStudy, Become, Inv, Base
    <3> QED
      BY <3>1 DEF InRun, Idle, InLoop, Replaying
  <2> QED
    BY <2>1, <2>2, <2>3, <2>4, <2>5
<1> QED
  BY <1>1, <1>3, <1>4, <1>5, WindowFrameOutside

\* A run has the replay returned to it, and nothing else of it changes.
LEMMA ReturnedKeeps ==
    ASSUME NEW q, RunShape(q), q.at \in Kinds, NEW id \in Nat, replays' \in Seq(ReplayRow), id <= Len(replays'),
           Len(replays) <= Len(replays'), replays \in Seq(ReplayRow), NEW r, r = Returned(q, q.at, id), q # Idle
    PROVE  r.at \in InLoop /\ Keeps(q, r) /\ Refers(r)'
<1>1. r = [q EXCEPT !.at = After(q.at), ![q.at] = id]
  BY DEF Returned
<1>2. DOMAIN q = {"at", "windows", "existing", "rerun", "dry", "n", "got", "counterfactual", "portfolio"}
  BY DEF RunShape, RunBase
<1>3. After(q.at) \in {"portfolio", "save"}
  BY DEF After
<1>4. Keeps(q, r) /\ r.at = After(q.at)
  <2>1. CASE q.at = "counterfactual"
    BY <1>1, <1>2, <1>3, <2>1 DEF Keeps, After
  <2>2. CASE q.at = "portfolio"
    BY <1>1, <1>2, <1>3, <2>2 DEF Keeps, After
  <2> QED
    BY <2>1, <2>2 DEF Kinds
<1>5. r.counterfactual \in {id, q.counterfactual} /\ r.portfolio \in {id, q.portfolio}
  <2>1. CASE q.at = "counterfactual"
    BY <1>1, <1>2, <2>1
  <2>2. CASE q.at = "portfolio"
    BY <1>1, <1>2, <2>2
  <2> QED
    BY <2>1, <2>2 DEF Kinds
<1>6. Refers(q)'
  BY RefersKept DEF RunShape, RunBase
<1>7. id \in 0..Len(replays')
  OBVIOUS
<1>8. Refers(r)'
  BY <1>5, <1>6, <1>7 DEF Refers
<1> QED
  BY <1>3, <1>4, <1>8 DEF InLoop

\* The stale check of a window's replay.
LEMMA CheckStaleKeepsWindows ==
    ASSUME Inv, Inv', WindowInv, NEW p \in Procs, CheckStale(p) PROVE WindowInv'
<1> PICK q, r : q = proc[p] /\ r = proc'[p]
  OBVIOUS
<1>1. /\ UNCHANGED <<set, results, replays, left, excused>> /\ q.at \in Kinds
      /\ r = Checked(q, q.at, set.payload.allowStale) /\ \A o \in Procs : o # p => proc'[o] = proc[o]
  BY DEF CheckStale, Become, Kinds, Inv, Base
<1>2. replays \in Seq(ReplayRow) /\ replays' \in Seq(ReplayRow) /\ Len(replays) \in Nat /\ Len(replays) <= Len(replays')
  BY <1>1 DEF Inv, Base
<1>3. InRun(q) /\ Run(q) = q /\ RunShape(q) /\ q # Idle
  <2>1. q.at \in InLoop /\ q.at \notin Replaying
    BY <1>1 DEF Kinds, InLoop, Replaying
  <2> QED
    BY <1>1, <2>1 DEF InRun, Run, WindowInv, RunOfSet, Idle, Kinds
<1>4. CASE Refused(set.payload.allowStale)
  <2>1. r = Returned(q, q.at, 0)
    BY <1>1, <1>4 DEF Checked
  <2>2. r.at \in InLoop /\ Keeps(q, r) /\ Refers(r)'
    <3>1. 0 \in Nat /\ 0 <= Len(replays')
      BY <1>1, <1>2
    <3> QED
      BY <1>1, <1>2, <1>3, <2>1, <3>1, ReturnedKeeps
  <2>3. InRun(r) /\ Run(r) = r /\ r.at \notin Replaying
    BY <2>2 DEF InRun, Run, InLoop, Replaying
  <2> QED
    BY <1>1, <1>2, <1>3, <2>2, <2>3, WindowFrame DEF InRun, Run, Refers
<1>5. CASE ~Refused(set.payload.allowStale)
  <2>1. r.at = "bars" /\ r.caller = q /\ r.kind = q.at
    BY <1>1, <1>5 DEF Checked
  <2>2. InRun(r) /\ Run(r) = q
    BY <1>3, <2>1 DEF InRun, Run, Replaying
  <2>3. Keeps(q, q) /\ Refers(q)'
    BY <1>2, <1>3, RefersKept DEF Keeps, RunShape, RunBase
  <2> QED
    BY <1>1, <1>2, <1>3, <2>1, <2>2, <2>3, WindowFrame DEF InRun, Run, Refers
<1> QED
  BY <1>4, <1>5

\* The bars or the features are read; the run that waits is where it was.
LEMMA ReadingKeepsWindows ==
    ASSUME Inv, Inv', WindowInv, NEW p \in Procs, ReadBars(p) \/ ReadFeatures(p) PROVE WindowInv'
<1> PICK q, r : q = proc[p] /\ r = proc'[p]
  OBVIOUS
<1>1. /\ UNCHANGED <<set, results, replays, left, excused>> /\ q.at \in Replaying
      /\ \/ r = [q EXCEPT !.at = "features", !.read = bars]
         \/ r = [q EXCEPT !.at = "candidates", !.features = built["features"]]
      /\ \A o \in Procs : o # p => proc'[o] = proc[o]
  BY DEF ReadBars, ReadFeatures, Become, Replaying, Inv, Base
<1>2. replays \in Seq(ReplayRow) /\ replays' \in Seq(ReplayRow) /\ Len(replays) \in Nat /\ Len(replays) <= Len(replays')
  BY <1>1 DEF Inv, Base
<1>3. DOMAIN q = {"at", "kind", "checked", "read", "features", "stale", "allowed", "caller"}
  BY <1>1 DEF Inv, ProcSound, ReplayingSound
<1>4. r.at \in Replaying /\ r.caller = q.caller /\ r.kind = q.kind
  BY <1>1, <1>3 DEF Replaying
<1>5. InRun(r) = InRun(q) /\ Run(r) = Run(q)
  <2>1. q.at \notin InLoop /\ r.at \notin InLoop
    BY <1>1, <1>4 DEF InLoop, Replaying
  <2> QED
    BY <1>1, <1>4, <2>1 DEF InRun, Run
<1> PICK s : s = Run(q)
  OBVIOUS
<1>6. InRun(q) => Keeps(s, s) /\ Refers(s)'
  BY <1>2, RefersKept DEF Keeps, WindowInv, RunOfSet, RunShape, RunBase
<1>7. r.caller # Idle => r.caller.at = r.kind
  BY <1>1, <1>4 DEF WindowInv
<1> QED
  BY <1>1, <1>2, <1>5, <1>6, <1>7, WindowFrame DEF InRun, Run, Refers

\* The replay is saved and returned to the run that waits, if any.
LEMMA ReplayKeepsWindows ==
    ASSUME Inv, Inv', WindowInv, NEW p \in Procs, Replay(p) PROVE WindowInv'
<1> PICK q, r : q = proc[p] /\ r = proc'[p]
  OBVIOUS
<1>1. /\ UNCHANGED <<set, results, left, excused>> /\ q.at = "candidates"
      /\ r = Returned(q.caller, q.kind, Len(replays) + 1) /\ \A o \in Procs : o # p => proc'[o] = proc[o]
      /\ \E row : replays' = Append(replays, row)
  BY DEF Replay, Become, Inv, Base
<1>2. replays \in Seq(ReplayRow) /\ replays' \in Seq(ReplayRow)
  BY DEF Inv, Base
<1>3. Len(replays) \in Nat /\ Len(replays') = Len(replays) + 1 /\ Len(replays) <= Len(replays')
  BY <1>1, <1>2
<1>4. q.at \in Replaying /\ q.at \notin InLoop
  BY <1>1 DEF Replaying, InLoop
<1>5. CASE q.caller = Idle
  <2>1. r = Idle
    BY <1>1, <1>5 DEF Returned
  <2>2. ~InRun(r) /\ ~InRun(q) /\ r.at \notin Replaying
    BY <1>4, <1>5, <2>1 DEF InRun, Idle, InLoop, Replaying
  <2> QED
    BY <1>1, <1>3, <2>2, WindowFrame DEF InRun
<1>6. CASE q.caller # Idle
  <2> PICK s : s = q.caller
    OBVIOUS
  <2>1. InRun(q) /\ Run(q) = s /\ RunShape(s) /\ s.at = q.kind /\ s.at \in Kinds
    BY <1>4, <1>6 DEF InRun, Run, WindowInv, RunOfSet, Inv, ProcSound, ReplayingSound
  <2>2. r.at \in InLoop /\ Keeps(s, r) /\ Refers(r)'
    <3>1. Len(replays) + 1 \in Nat /\ Len(replays) + 1 <= Len(replays') /\ Len(replays) <= Len(replays')
      BY <1>3
    <3> QED
      BY <1>1, <1>2, <1>6, <2>1, <3>1, ReturnedKeeps
  <2>3. InRun(r) /\ Run(r) = r /\ r.at \notin Replaying
    BY <2>2 DEF InRun, Run, InLoop, Replaying
  <2> QED
    BY <1>1, <1>3, <2>1, <2>2, <2>3, WindowFrame DEF InRun, Run, Refers
<1> QED
  BY <1>5, <1>6

\* The windows of a set that exists are a sequence.
LEMMA SetIsSequence ==
    ASSUME SetShape, set # NoSet
    PROVE  Len(set.windows) \in Nat /\ DOMAIN set.windows = 1..Len(set.windows)
  BY WindowsAreSequence DEF SetShape

\* A process that begins a run, of windows and results as they are stored.
LEMMA RunBegins ==
    ASSUME replays \in Seq(ReplayRow), \A i \in DOMAIN results : results[i] \in ResultRow,
           NEW windows, Len(windows) \in Nat, DOMAIN windows = 1..Len(windows),
           NEW rerun \in BOOLEAN, NEW dry \in BOOLEAN, NEW existing,
           DOMAIN existing = DOMAIN results, \A i \in DOMAIN existing : existing[i] = results[i]
    PROVE  LET r == Running(windows, existing, rerun, dry) IN
           r.at \in InLoop /\ r.rerun = rerun /\ r.windows = windows /\ RunShape(r) /\ RunTrue(r)
<1> PICK r : r = Running(windows, existing, rerun, dry)
  OBVIOUS
<1> PICK q : q = [at |-> "run", windows |-> windows, existing |-> existing, rerun |-> rerun, dry |-> dry,
                  n |-> 1, got |-> <<>>, counterfactual |-> 0, portfolio |-> 0]
  OBVIOUS
<1>1. /\ DOMAIN q = {"at", "windows", "existing", "rerun", "dry", "n", "got", "counterfactual", "portfolio"}
      /\ q.windows = windows /\ q.existing = existing /\ q.rerun = rerun /\ q.n = 1 /\ q.got = <<>>
      /\ q.counterfactual = 0 /\ q.portfolio = 0
  OBVIOUS
<1>2. <<>> \in Seq(ResultRow) /\ Len(<<>>) = 0
  OBVIOUS
<1>3. Refers(q)
  <2>1. Len(replays) \in Nat
    OBVIOUS
  <2> QED
    BY <1>1, <2>1 DEF Refers
<1>4. RunBase(q)
  BY <1>1, <1>2, <1>3 DEF RunBase
<1>5. RunTrue(q)
  BY <1>1 DEF RunTrue, TrueOf, Index
<1>6. r = Continue(q)
  BY DEF Running
<1>7. RunShape(r) /\ RunTrue(r)
  BY <1>1, <1>4, <1>5, <1>6, ContinuesSound, ContinuesTrue DEF RunTrue
<1>8. r.at \in InLoop /\ r.rerun = rerun /\ r.windows = windows
  BY <1>1, <1>4, <1>6, Continues DEF InLoop
<1> QED
  BY <1>7, <1>8

\* A run is sound as long as the replays that there are stay.
LEMMA ShapeStays ==
    ASSUME NEW q, RunShape(q), replays' = replays
    PROVE  RunShape(q)'
  BY DEF RunShape, RunBase, Refers, Skipped, Index

\* There is no run without a set.
LEMMA NoSetNoRuns == ASSUME Inv, set = NoSet, NEW p \in Procs PROVE ~InRun(proc[p])
  BY DEF InRun, Inv, ProcSound, ReplayingSound

\* A set is stored, and may be run at once.
LEMMA CreateKeepsWindows ==
    ASSUME Inv, Inv', WindowInv, NEW p \in Procs, Create(p) PROVE WindowInv'
<1>1. PICK w \in left.sets :
        /\ set' = [status |-> IF Len(GenerateWindows(w)) > w.limit THEN "rejected" ELSE "created",
                   payload |-> w, windows |-> GenerateWindows(w), summary |-> <<>>]
        /\ \/ Spend("setRuns") /\ excused' = Overlap /\ Become(p, Running(GenerateWindows(w), <<>>, FALSE, FALSE))
           \/ UNCHANGED <<proc, left, excused>>
  BY DEF Create
<1>2. /\ set = NoSet /\ UNCHANGED <<replays, results>> /\ DOMAIN results = {}
      /\ w \in SetRequest /\ replays \in Seq(ReplayRow)
  BY DEF Create, WindowInv, SetShape, Inv, Base
<1>3. /\ set' # NoSet /\ set'.payload = w /\ set'.windows = GenerateWindows(w) /\ set'.status \in {"created", "rejected"}
  BY <1>1 DEF NoSet
<1>4. WindowRuns = {} /\ \A o \in Procs : ~InRun(proc[o])
  BY <1>2, NoSetNoRuns DEF WindowRuns, InRun
<1>5. left'.sets = left.sets /\ excused'.windows = excused.windows
  BY <1>1, <1>4 DEF Spend, Overlap, Inv, Base, WindowInv, SetShape
<1>6. SetShape'
  BY <1>2, <1>3, <1>5 DEF SetShape, WindowInv
<1>7. CASE UNCHANGED proc
  <2>1. WindowRuns' = {} /\ \A o \in Procs : ~InRun(proc[o])'
    BY <1>4, <1>7 DEF WindowRuns, InRun
  <2> QED
    BY <1>3, <1>6, <2>1 DEF WindowInv, AloneTrue, InRun
<1>8. CASE Become(p, Running(GenerateWindows(w), <<>>, FALSE, FALSE))
  <2> PICK r : r = proc'[p]
    OBVIOUS
  <2>1. r = Running(set'.windows, <<>>, FALSE, FALSE) /\ \A o \in Procs : o # p => proc'[o] = proc[o]
    BY <1>3, <1>8 DEF Become, Inv, Base
  <2>2. DOMAIN <<>> = DOMAIN results /\ Len(set'.windows) \in Nat /\ DOMAIN set'.windows = 1..Len(set'.windows)
    BY <1>2, <1>3, WindowsAreSequence
  <2>3. r.at \in InLoop /\ RunShape(r) /\ RunTrue(r) /\ r.windows = set'.windows
    <3>0. PICK windows, none, no : windows = set'.windows /\ none = <<>> /\ no = FALSE
      OBVIOUS
    <3>1. /\ DOMAIN none = DOMAIN results /\ \A i \in DOMAIN none : none[i] = results[i]
          /\ \A i \in DOMAIN results : results[i] \in ResultRow
      BY <1>2, <2>2, <3>0
    <3>2. r = Running(windows, none, no, no) /\ no \in BOOLEAN
      BY <2>1, <3>0
    <3>3. Len(windows) \in Nat /\ DOMAIN windows = 1..Len(windows)
      BY <2>2, <3>0
    <3>4. r.at \in InLoop /\ r.windows = windows /\ RunShape(r) /\ RunTrue(r)
      BY <1>2, <3>1, <3>2, <3>3, RunBegins
    <3> QED
      BY <3>0, <3>4
  <2>4. InRun(r) /\ Run(r) = r /\ r.at \notin Replaying
    BY <2>3 DEF InRun, Run, InLoop, Replaying
  <2>5. ASSUME NEW o \in Procs, o # p PROVE ~InRun(proc[o])'
    BY <1>4, <2>1, <2>5 DEF InRun
  <2>6. \A o \in WindowRuns' : o = p
    BY <2>5 DEF WindowRuns, InRun
  <2>7. RunOfSet(Run(proc[p]))' /\ RunTrue(Run(proc[p]))'
    BY <1>2, <2>3, <2>4 DEF RunOfSet, RunShape, RunBase, RunTrue, TrueOf, Refers, Skipped, Index, Run
  <2>8. AloneTrue'
    BY <1>3, <2>6, <2>7 DEF AloneTrue
  <2> QED
    BY <1>6, <2>4, <2>5, <2>6, <2>7, <2>8 DEF WindowInv, InRun
<1> QED
  BY <1>1, <1>7, <1>8

\* The set is run, for the first time or again.
LEMMA RunSetKeepsWindows ==
    ASSUME Inv, Inv', WindowInv, NEW p \in Procs, RunSet(p) PROVE WindowInv'
<1>1. PICK rerun \in BOOLEAN, dry \in BOOLEAN : Become(p, Running(set.windows, results, rerun, dry))
  BY DEF RunSet
<1>2. UNCHANGED <<set, results, replays>> /\ set # NoSet /\ replays \in Seq(ReplayRow) /\ proc[p] = Idle
  BY DEF RunSet, Inv, Base
<1>3. /\ left'.sets = left.sets /\ excused'.windows \in BOOLEAN
      /\ ~excused'.windows => ~excused.windows /\ WindowRuns = {}
  BY DEF RunSet, Spend, Overlap, Inv, Base, WindowInv, SetShape
<1>4. SetShape /\ SetShape'
  <2>1. Len(replays) \in Nat /\ Len(replays) <= Len(replays')
    BY <1>2
  <2> QED
    BY <1>2, <1>3, <2>1, SetShapeKept DEF WindowInv
<1> PICK r : r = proc'[p]
  OBVIOUS
<1>5. r = Running(set.windows, results, rerun, dry) /\ \A o \in Procs : o # p => proc'[o] = proc[o]
  BY <1>1 DEF Become, Inv, Base
<1>6. r.at \in InLoop /\ r.rerun = rerun /\ r.windows = set.windows /\ RunShape(r) /\ RunTrue(r)
  BY <1>2, <1>4, <1>5, RunBegins, SetIsSequence DEF SetShape
<1>7. InRun(r) /\ Run(r) = r /\ r.at \notin Replaying
  BY <1>6 DEF InRun, Run, InLoop, Replaying
<1>8. ASSUME NEW o \in Procs, InRun(proc[o])' PROVE RunOfSet(Run(proc[o]))'
  <2> PICK q : q = Run(proc[o])'
    OBVIOUS
  <2>1. RunShape(q) /\ q.windows = set.windows
    <3>1. CASE o = p
      BY <1>6, <1>7, <3>1 DEF Run
    <3>2. CASE o # p
      BY <1>5, <1>8, <3>2 DEF WindowInv, RunOfSet, InRun, Run
    <3> QED
      BY <3>1, <3>2
  <2>2. RunShape(q)'
    BY <1>2, <2>1, ShapeStays
  <2> QED
    BY <1>2, <2>1, <2>2 DEF RunOfSet, RunShape, RunBase, Refers, Skipped, Index
<1>9. ASSUME ~excused'.windows PROVE AloneTrue' /\ \A o \in WindowRuns' : o = p
  <2>1. \A o \in WindowRuns' : o = p
    BY <1>3, <1>5, <1>9 DEF WindowRuns
  <2>2. RunTrue(Run(proc[p]))' /\ Run(proc[p])'.rerun = rerun
    BY <1>2, <1>6, <1>7 DEF RunTrue, TrueOf, Run, Index
  <2>3. OwnIndexes /\ set.status = "completed" => SummaryTrue
    BY <1>2, <1>3, <1>9 DEF WindowInv, AloneTrue
  <2>4. OwnIndexes' /\ set'.status = "completed" => SummaryTrue'
    BY <1>2, <2>3 DEF OwnIndexes, SummaryTrue
  <2> QED
    BY <2>1, <2>2, <2>4 DEF AloneTrue
<1>10. ASSUME NEW o \in Procs, proc'[o].at \in Replaying /\ proc'[o].caller # Idle
       PROVE  proc'[o].caller.at = proc'[o].kind
  BY <1>5, <1>7, <1>10 DEF WindowInv
<1> QED
  BY <1>4, <1>8, <1>9, <1>10 DEF WindowInv

\* A result is one of replays that were saved.
LEMMA ResultTyped ==
    ASSUME NEW q, Refers(q), replays \in Seq(ReplayRow)
    PROVE  Result(q) \in ResultRow /\ Refers(Result(q))
<1>1. /\ q.counterfactual \in Nat /\ q.portfolio \in Nat
      /\ Len(replays) \in Nat
  BY DEF Refers
<1> QED
  BY <1>1 DEF Result, ResultRow, Refers

\* The run with the result of its window, before it goes on.
WithResult(q) == [q EXCEPT !.n = @ + 1, !.got = Append(@, Result(q))]

LEMMA Saved ==
    ASSUME NEW q, RunShape(q), q.at # "finish", replays \in Seq(ReplayRow),
           Len(q.windows) \in Nat, DOMAIN q.windows = 1..Len(q.windows)
    PROVE  LET s == WithResult(q) IN
           /\ RunBase(s) /\ s.windows = q.windows /\ s.existing = q.existing /\ s.rerun = q.rerun
           /\ s.n = q.n + 1 /\ s.got[q.n] = Result(q) /\ \A k \in 1..(q.n - 1) : s.got[k] = q.got[k]
<1> PICK s : s = WithResult(q)
  OBVIOUS
<1>1. /\ DOMAIN q = {"at", "windows", "existing", "rerun", "dry", "n", "got", "counterfactual", "portfolio"}
      /\ q.got \in Seq(ResultRow) /\ Len(q.got) = q.n - 1 /\ q.n \in 1..Len(q.windows)
      /\ Refers(q)
  BY DEF RunShape, RunBase
<1>2. /\ DOMAIN s = DOMAIN q /\ s.windows = q.windows /\ s.existing = q.existing /\ s.rerun = q.rerun
      /\ s.n = q.n + 1 /\ s.got = Append(q.got, Result(q))
      /\ s.counterfactual = q.counterfactual /\ s.portfolio = q.portfolio
  BY <1>1 DEF WithResult
<1>3. Result(q) \in ResultRow
  BY <1>1, ResultTyped
<1>4. /\ s.got \in Seq(ResultRow) /\ Len(s.got) = Len(q.got) + 1 /\ s.got[Len(q.got) + 1] = Result(q)
      /\ \A k \in 1..Len(q.got) : s.got[k] = q.got[k]
  BY <1>1, <1>2, <1>3
<1>5. Refers(s)
  BY <1>1, <1>2 DEF Refers
<1>6. RunBase(s)
  BY <1>1, <1>2, <1>4, <1>5 DEF RunShape, RunBase
<1> QED
  BY <1>1, <1>2, <1>4, <1>6

\* The result of a window is stored and the loop goes on.
LEMMA SaveResultKeepsWindows ==
    ASSUME Inv, Inv', WindowInv, NEW p \in Procs, SaveResult(p) PROVE WindowInv'
<1> PICK q, r, i : q = proc[p] /\ r = proc'[p] /\ i = Index(q, q.n)
  OBVIOUS
<1>0. PICK s, rows : s = WithResult(q) /\ rows = results'
  OBVIOUS
<1>1. /\ q.at = "save" /\ UNCHANGED <<replays, set, left, excused>> /\ replays \in Seq(ReplayRow)
      /\ rows = Put(results, i, Result(q)) /\ results' = rows
      /\ r = Continue(s) /\ \A o \in Procs : o # p => proc'[o] = proc[o]
  BY <1>0 DEF SaveResult, WithResult, Become, Inv, Base
<1>2. /\ DOMAIN rows = DOMAIN results \union {i} /\ rows[i] = Result(q)
      /\ \A k \in DOMAIN results : k # i => rows[k] = results[k]
  <2>0. PICK old, row, key, new : old = results /\ row = Result(q) /\ key = i /\ new = rows
    OBVIOUS
  <2>1. new = Put(old, key, row)
    BY <1>1, <2>0
  <2>2. /\ DOMAIN new = DOMAIN old \union {key} /\ new[key] = row
        /\ \A k \in DOMAIN old : k # key => new[k] = old[k]
    BY <2>1 DEF Put
  <2> QED
    BY <2>0, <2>2
<1>3. InRun(q) /\ Run(q) = q /\ RunShape(q) /\ q.windows = set.windows /\ set # NoSet
  <2>1. q.at \in InLoop /\ q.at \notin Replaying
    BY <1>1 DEF InLoop, Replaying
  <2> QED
    BY <2>1 DEF InRun, Run, WindowInv, RunOfSet, Inv, ProcSound
<1>4. Len(q.windows) \in Nat /\ DOMAIN q.windows = 1..Len(q.windows)
  BY <1>3, SetIsSequence DEF WindowInv
<1>5. /\ RunBase(s) /\ s.windows = q.windows /\ s.existing = q.existing /\ s.rerun = q.rerun
      /\ s.n = q.n + 1 /\ s.got[q.n] = Result(q) /\ \A k \in 1..(q.n - 1) : s.got[k] = q.got[k]
  <2>1. q.at # "finish"
    BY <1>1
  <2> QED
    BY <1>0, <1>1, <1>3, <1>4, <2>1, Saved
<1>6. /\ RunShape(r) /\ r.windows = q.windows /\ r.rerun = q.rerun /\ r.at \in InLoop /\ r.at \notin Replaying
  <2>1. Len(s.windows) \in Nat /\ DOMAIN s.windows = 1..Len(s.windows)
    BY <1>4, <1>5
  <2>2. RunShape(r)
    BY <1>1, <1>5, <2>1, ContinuesSound
  <2>3. r.windows = s.windows /\ r.rerun = s.rerun /\ r.at \in {"finish", "save", "counterfactual"}
    BY <1>1, <1>5, <2>1, Continues
  <2> QED
    BY <1>5, <2>2, <2>3 DEF InLoop, Replaying
<1>7. InRun(r) /\ Run(r) = r
  BY <1>6 DEF InRun, Run
<1>8. SetShape'
  <2>1. Result(q) \in ResultRow /\ Refers(Result(q))
    BY <1>1, <1>3, ResultTyped DEF RunShape, RunBase
  <2>2. \A k \in DOMAIN results' : results'[k] \in ResultRow /\ Refers(results'[k])
    BY <1>1, <1>2, <2>1 DEF WindowInv, SetShape
  <2> QED
    BY <1>1, <1>3, <2>2 DEF WindowInv, SetShape, Refers
<1>9. ASSUME NEW o \in Procs, InRun(proc[o])' PROVE RunOfSet(Run(proc[o]))'
  <2> PICK u : u = Run(proc[o])'
    OBVIOUS
  <2>1. RunShape(u) /\ u.windows = set.windows
    <3>1. CASE o = p
      BY <1>3, <1>6, <1>7, <3>1 DEF Run
    <3>2. CASE o # p
      BY <1>1, <1>9, <3>2 DEF WindowInv, RunOfSet, InRun, Run
    <3> QED
      BY <3>1, <3>2
  <2>2. RunShape(u)'
    BY <1>1, <2>1, ShapeStays
  <2> QED
    BY <1>1, <2>1, <2>2 DEF RunOfSet, RunShape, RunBase, Refers, Skipped, Index
<1>10. ASSUME ~excused'.windows PROVE AloneTrue' /\ \A o \in WindowRuns' : o = p
  <2>1. AloneTrue /\ p \in WindowRuns /\ \A o \in WindowRuns : o = p
    BY <1>1, <1>3, <1>10 DEF WindowInv, WindowRuns, InRun
  <2>2. \A o \in WindowRuns' : o = p
    BY <1>1, <2>1 DEF WindowRuns
  <2> SUFFICES ASSUME OwnIndexes PROVE AloneTrue'
    BY <1>1, <2>2 DEF AloneTrue, OwnIndexes
  <2>3. RunTrue(q)
    BY <1>3, <2>1 DEF AloneTrue
  <2>4. q.n \in 1..Len(q.windows) /\ ~Skipped(q, q.n)
    BY <1>1, <1>3, <1>4 DEF RunShape
  <2>5. \A k \in DOMAIN q.windows : k # q.n => Index(q, k) # i
    BY <1>3, <1>4, <2>4 DEF OwnIndexes, Index
  <2>6. TrueOf(s, rows)
    <3>1. \A k : Index(s, k) = Index(q, k)
      BY <1>5 DEF Index
    <3>2. ASSUME NEW k \in 1..(s.n - 1)
          PROVE  Index(s, k) \in DOMAIN rows /\ s.got[k] = rows[Index(s, k)]
      <4>1. CASE k = q.n
        BY <1>2, <1>5, <3>1, <4>1
      <4>2. CASE k # q.n
        <5>1. k \in 1..(q.n - 1) /\ k \in DOMAIN q.windows
          BY <1>4, <1>5, <2>4, <4>2
        <5>2. Index(q, k) \in DOMAIN results /\ q.got[k] = results[Index(q, k)]
          BY <2>3, <5>1 DEF RunTrue, TrueOf
        <5>3. Index(q, k) # i
          BY <2>5, <4>2, <5>1
        <5> QED
          BY <1>2, <1>5, <3>1, <5>1, <5>2, <5>3
      <4> QED
        BY <4>1, <4>2
    <3>3. ASSUME NEW k \in s.n..Len(s.windows)
          PROVE  /\ Index(s, k) \in DOMAIN s.existing <=> Index(s, k) \in DOMAIN rows
                 /\ Index(s, k) \in DOMAIN s.existing => s.existing[Index(s, k)] = rows[Index(s, k)]
      <4>1. k \in q.n..Len(q.windows) /\ k \in DOMAIN q.windows /\ k # q.n
        BY <1>4, <1>5, <2>4
      <4>2. /\ Index(q, k) \in DOMAIN q.existing <=> Index(q, k) \in DOMAIN results
            /\ Index(q, k) \in DOMAIN q.existing => q.existing[Index(q, k)] = results[Index(q, k)]
        BY <2>3, <4>1 DEF RunTrue, TrueOf
      <4>3. Index(q, k) # i
        BY <2>5, <4>1
      <4> QED
        BY <1>2, <1>5, <3>1, <4>2, <4>3
    <3> QED
      BY <3>2, <3>3 DEF TrueOf
  <2>7. TrueOf(r, rows)
    BY <1>1, <1>4, <1>5, <2>6, ContinuesTrue
  <2>8. RunTrue(Run(proc[p]))'
    <3>1. Run(proc'[p]) = r
      BY <1>7
    <3>2. TrueOf(Run(proc'[p]), results')
      BY <1>1, <2>7, <3>1
    <3> QED
      BY <3>2 DEF RunTrue, TrueOf, Run, Index
  <2>9. ~q.rerun => set.status # "completed"
    <3> SUFFICES ASSUME ~q.rerun, set.status = "completed" PROVE FALSE
      OBVIOUS
    <3>1. SummaryTrue
      BY <1>3, <2>1 DEF AloneTrue
    <3>2. i \in DOMAIN results
      BY <1>3, <1>4, <2>4, <3>1 DEF SummaryTrue, Index
    <3>3. i \notin DOMAIN q.existing
      BY <2>4 DEF Skipped
    <3> QED
      BY <2>3, <2>4, <3>2, <3>3 DEF RunTrue, TrueOf
  <2>10. p \in WindowRuns' /\ Run(proc[p])'.rerun = q.rerun
    BY <1>6, <1>7 DEF WindowRuns, Run
  <2> QED
    BY <1>1, <2>2, <2>8, <2>9, <2>10 DEF AloneTrue
<1>11. ASSUME NEW o \in Procs, proc'[o].at \in Replaying /\ proc'[o].caller # Idle
       PROVE  proc'[o].caller.at = proc'[o].kind
  BY <1>1, <1>6, <1>11 DEF WindowInv
<1> QED
  BY <1>8, <1>9, <1>10, <1>11 DEF WindowInv

\* The summary is stored: the run has what is stored of every window.
LEMMA FinishSetKeepsWindows ==
    ASSUME Inv, Inv', WindowInv, NEW p \in Procs, FinishSet(p) PROVE WindowInv'
<1> PICK q : q = proc[p]
  OBVIOUS
<1>1. /\ q.at = "finish" /\ UNCHANGED <<replays, results, left, excused>> /\ replays \in Seq(ReplayRow)
      /\ set' = [set EXCEPT !.status = "completed", !.summary = q.got]
      /\ proc'[p] = Idle /\ \A o \in Procs : o # p => proc'[o] = proc[o]
  BY DEF FinishSet, Become, Inv, Base
<1>2. InRun(q) /\ Run(q) = q /\ RunShape(q) /\ q.windows = set.windows /\ set # NoSet
  <2>1. q.at \in InLoop /\ q.at \notin Replaying
    BY <1>1 DEF InLoop, Replaying
  <2> QED
    BY <2>1 DEF InRun, Run, WindowInv, RunOfSet, Inv, ProcSound
<1>3. /\ set'.status = "completed" /\ set'.summary = q.got /\ set'.payload = set.payload
      /\ set'.windows = set.windows /\ set' # NoSet
  <2>1. DOMAIN set = {"status", "payload", "windows", "summary"}
    BY <1>2 DEF Inv, Base
  <2> QED
    BY <1>1, <2>1 DEF NoSet
<1>4. SetShape'
  BY <1>1, <1>2, <1>3 DEF WindowInv, SetShape, Refers
<1>5. ~InRun(proc[p])' /\ proc'[p].at \notin Replaying
  BY <1>1 DEF InRun, Idle, InLoop, Replaying
<1>6. ASSUME NEW o \in Procs, InRun(proc[o])' PROVE RunOfSet(Run(proc[o]))'
  <2> PICK u : u = Run(proc[o])'
    OBVIOUS
  <2>1. RunShape(u) /\ u.windows = set.windows
    BY <1>1, <1>5, <1>6 DEF WindowInv, RunOfSet, InRun, Run
  <2>2. RunShape(u)'
    BY <1>1, <2>1, ShapeStays
  <2> QED
    BY <1>3, <2>1, <2>2 DEF RunOfSet, RunShape, RunBase, Refers, Skipped, Index
<1>7. ASSUME ~excused'.windows PROVE AloneTrue' /\ WindowRuns' = {}
  <2>1. AloneTrue /\ p \in WindowRuns /\ \A o \in WindowRuns : o = p
    BY <1>1, <1>2, <1>7 DEF WindowInv, WindowRuns, InRun
  <2>2. WindowRuns' = {}
    BY <1>1, <1>5, <2>1 DEF WindowRuns, InRun
  <2>3. ASSUME OwnIndexes PROVE SummaryTrue'
    <3>1. TrueOf(q, results)
      BY <1>2, <2>1, <2>3 DEF AloneTrue, RunTrue
    <3>2. q.n = Len(q.windows) + 1 /\ q.n - 1 = Len(q.windows) /\ Len(q.got) = q.n - 1
      BY <1>1, <1>2, SetIsSequence DEF RunShape, RunBase, WindowInv
    <3>3. DOMAIN set.windows = 1..(q.n - 1) /\ Len(set.windows) = q.n - 1
      BY <1>2, <3>2, SetIsSequence DEF WindowInv
    <3>4. \A k \in DOMAIN set.windows : /\ set.windows[k].index \in DOMAIN results
                                        /\ q.got[k] = results[set.windows[k].index]
      BY <1>2, <3>1, <3>3 DEF TrueOf, Index
    <3> QED
      BY <1>1, <1>3, <3>2, <3>3, <3>4 DEF SummaryTrue
  <2> QED
    BY <1>3, <2>2, <2>3 DEF AloneTrue, OwnIndexes
<1>8. ASSUME NEW o \in Procs, proc'[o].at \in Replaying /\ proc'[o].caller # Idle
      PROVE  proc'[o].caller.at = proc'[o].kind
  BY <1>1, <1>5, <1>8 DEF WindowInv
<1> QED
  BY <1>4, <1>6, <1>7, <1>8 DEF WindowInv

\* A run that dies is excused if it was a rerun; if not, no summary was there to outdate.
LEMMA CrashKeepsWindows ==
    ASSUME Inv, Inv', WindowInv, NEW p \in Procs, Crash(p) PROVE WindowInv'
<1>1. /\ UNCHANGED <<replays, set, results>> /\ replays \in Seq(ReplayRow) /\ left'.sets = left.sets
      /\ excused'.windows = (excused.windows \/ Replacing(p)) /\ excused'.windows \in BOOLEAN
      /\ proc'[p] = Idle /\ \A o \in Procs : o # p => proc'[o] = proc[o]
  <2>1. excused.windows \in BOOLEAN /\ DOMAIN excused = {"thresholds", "replays", "windows", "builds"}
    BY DEF WindowInv, SetShape, Inv, Base
  <2>2. excused' = [excused EXCEPT !.windows = @ \/ Replacing(p)]
    BY DEF Crash
  <2>3. excused'.windows = (excused.windows \/ Replacing(p))
    BY <2>1, <2>2
  <2>4. (excused.windows \/ Replacing(p)) \in BOOLEAN
    OBVIOUS
  <2>5. left'.sets = left.sets
    BY DEF Crash, Spend, Inv, Base
  <2>6. proc'[p] = Idle /\ \A o \in Procs : o # p => proc'[o] = proc[o]
    BY DEF Crash, Become, Inv, Base
  <2>7. UNCHANGED <<replays, set, results>> /\ replays \in Seq(ReplayRow)
    BY DEF Crash, Inv, Base
  <2> QED
    BY <2>3, <2>4, <2>5, <2>6, <2>7
<1>2. SetShape'
  <2>1. Len(replays) \in Nat /\ Len(replays) <= Len(replays')
    BY <1>1
  <2> QED
    BY <1>1, <2>1, SetShapeKept DEF WindowInv
<1>3. ~InRun(proc[p])' /\ proc'[p].at \notin Replaying
  BY <1>1 DEF InRun, Idle, InLoop, Replaying
<1>4. ASSUME NEW o \in Procs, InRun(proc[o])' PROVE RunOfSet(Run(proc[o]))'
  <2> PICK u : u = Run(proc[o])'
    OBVIOUS
  <2>1. RunShape(u) /\ u.windows = set.windows
    BY <1>1, <1>3, <1>4 DEF WindowInv, RunOfSet, InRun, Run
  <2>2. RunShape(u)'
    BY <1>1, <2>1, ShapeStays
  <2> QED
    BY <1>1, <2>1, <2>2 DEF RunOfSet, RunShape, RunBase, Refers, Skipped, Index
<1>5. ASSUME ~excused'.windows, set # NoSet PROVE AloneTrue' /\ \A o, u \in WindowRuns' : o = u
  <2>1. AloneTrue /\ ~Replacing(p) /\ \A o, u \in WindowRuns : o = u
    BY <1>1, <1>5 DEF WindowInv
  <2>2. WindowRuns' = WindowRuns \ {p}
    BY <1>1, <1>3 DEF WindowRuns, InRun
  <2>3. p \in WindowRuns => ~Run(proc[p]).rerun
    BY <2>1 DEF Replacing, Run
  <2>4. ASSUME OwnIndexes, NEW o \in WindowRuns' PROVE RunTrue(Run(proc[o]))' /\ Run(proc[o])' = Run(proc[o])
    <3>1. o \in WindowRuns /\ proc'[o] = proc[o]
      BY <1>1, <2>2, <2>4 DEF WindowRuns
    <3>2. RunTrue(Run(proc[o]))
      BY <2>1, <2>4, <3>1 DEF AloneTrue
    <3>3. Run(proc[o])' = Run(proc[o])
      BY <3>1 DEF Run
    <3> QED
      BY <1>1, <3>2, <3>3 DEF RunTrue, TrueOf, Index
  <2>5. ASSUME OwnIndexes, set.status = "completed", \A o \in WindowRuns' : ~Run(proc[o])'.rerun PROVE SummaryTrue
    <3>1. \A o \in WindowRuns : ~Run(proc[o]).rerun
      BY <2>2, <2>3, <2>4, <2>5
    <3> QED
      BY <2>1, <2>5, <3>1 DEF AloneTrue
  <2>6. SummaryTrue => SummaryTrue'
    BY <1>1 DEF SummaryTrue
  <2>7. OwnIndexes' <=> OwnIndexes
    BY <1>1 DEF OwnIndexes
  <2> QED
    BY <1>1, <2>1, <2>2, <2>4, <2>5, <2>6, <2>7 DEF AloneTrue
<1>6. ASSUME NEW o \in Procs, proc'[o].at \in Replaying /\ proc'[o].caller # Idle
      PROVE  proc'[o].caller.at = proc'[o].kind
  BY <1>1, <1>3, <1>6 DEF WindowInv
<1> QED
  BY <1>1, <1>2, <1>4, <1>5, <1>6 DEF WindowInv

\* Every step keeps it.
LEMMA NextWindows == Inv /\ Inv' /\ WindowInv /\ [Next]_vars => WindowInv'
<1> SUFFICES ASSUME Inv, Inv', WindowInv, [Next]_vars PROVE WindowInv'
  OBVIOUS
<1>1. CASE UNCHANGED vars
  BY <1>1, Untouched DEF vars
<1>2. CASE StoreBars
  <2>1. UNCHANGED <<set, results, replays, proc, excused>> /\ left'.sets = left.sets
    BY <1>2 DEF StoreBars, Spend, Inv, Base
  <2> QED
    BY <2>1, Untouched
<1>3. ASSUME NEW p \in Procs,
             \/ Build(p) \/ WriteRows(p) \/ MarkBuilt(p) \/ RunReplay(p) \/ Create(p) \/ RunSet(p) \/ CheckStale(p)
             \/ ReadBars(p) \/ ReadFeatures(p) \/ Replay(p) \/ SaveResult(p) \/ FinishSet(p)
             \/ Study(p) \/ ReadPrevious(p) \/ ListScenarios(p) \/ SaveStudy(p) \/ Crash(p)
      PROVE  WindowInv'
  <2>1. CASE RunReplay(p) \/ Study(p) \/ ReadPrevious(p) \/ ListScenarios(p) \/ SaveStudy(p)
    BY <2>1, OthersKeepWindows
  <2>2. CASE Create(p)
    BY <2>2, CreateKeepsWindows
  <2>3. CASE RunSet(p)
    BY <2>3, RunSetKeepsWindows
  <2>4. CASE CheckStale(p)
    BY <2>4, CheckStaleKeepsWindows
  <2>5. CASE ReadBars(p) \/ ReadFeatures(p)
    BY <2>5, ReadingKeepsWindows
  <2>6. CASE Replay(p)
    BY <2>6, ReplayKeepsWindows
  <2>7. CASE SaveResult(p)
    BY <2>7, SaveResultKeepsWindows
  <2>8. CASE FinishSet(p)
    BY <2>8, FinishSetKeepsWindows
  <2>9. CASE Crash(p)
    BY <2>9, CrashKeepsWindows
  <2>10. CASE Build(p) \/ WriteRows(p) \/ MarkBuilt(p)
    BY <2>10, BuildsKeepWindows
  <2> QED
    BY <1>3, <2>1, <2>2, <2>3, <2>4, <2>5, <2>6, <2>7, <2>8, <2>9, <2>10
<1> QED
  BY <1>1, <1>2, <1>3 DEF Next

\* WindowInv holds in every reachable state: what a window run holds while it is alone is what is stored.
THEOREM WindowSoundness == Spec => []WindowInv
<1>1. Init => WindowInv
  BY InitWindows
<1>2. Inv /\ Inv' /\ WindowInv /\ [Next]_vars => WindowInv'
  BY NextWindows
<1>3. Spec => []Inv
  BY Soundness
<1> QED
  BY <1>1, <1>2, <1>3, PTL DEF Spec

\* WindowsCover: what is generated lies in the range, trains the embargo before, and leaves nothing out.
THEOREM WindowsCoverHolds == Spec => []WindowsCover
<1>1. WindowInv => WindowsCover
  <2> SUFFICES ASSUME WindowInv, set # NoSet, set.payload.mode # "custom"
               PROVE  Covering(set.payload, set.windows)
    BY DEF WindowsCover, Covering
  <2>1. set.payload \in SetRequest /\ set.windows = GenerateWindows(set.payload)
    BY DEF WindowInv, SetShape
  <2> QED
    BY <2>1, GeneratedCovers
<1> QED
  BY <1>1, WindowSoundness, PTL

\* SummaryExplained: however often a set is run, skipped and rerun, its summary is that of its results.
THEOREM SummaryExplainedHolds == Spec => []SummaryExplained
<1>1. WindowInv => SummaryExplained
  <2> SUFFICES ASSUME WindowInv, set.status = "completed", WindowRuns = {}, ~excused.windows, OwnIndexes
               PROVE  SummaryTrue
    BY DEF SummaryExplained, SummaryTrue, OwnIndexes
  <2>1. set # NoSet
    BY DEF NoSet
  <2> QED
    BY <2>1 DEF WindowInv, AloneTrue
<1> QED
  BY <1>1, WindowSoundness, PTL

-----------------------------------------------------------------------------
(* Types. *)

ConfigTyped(config) == DOMAIN config = DOMAIN Fields /\ Gives(config)

StudyTyped(q) ==
    /\ q.at = "previous" => Gives(q.payload)
    /\ q.at \in {"scenarios", "engine"} => ConfigTyped(q.config)
    /\ q.at = "engine" => q.existing \subseteq Scenario

TypeInv ==
    /\ \A id \in DOMAIN runs : ConfigTyped(runs[id].config) /\ runs[id].scenarios \subseteq Scenario
    /\ \A p \in Procs : StudyTyped(proc[p])

\* What each field of a configuration is.
LEMMA FieldTypes ==
    /\ DOMAIN Fields = {"mode", "grid", "thresholds", "max", "perInvocation", "timed", "group"}
    /\ Fields["mode"] = Modes /\ Fields["grid"] = SUBSET Scenarios /\ Fields["thresholds"] = Nat
    /\ Fields["max"] = 0..(NumScenarios + 1) /\ Fields["perInvocation"] = 0..(NumScenarios + 1)
    /\ Fields["timed"] = BOOLEAN /\ Fields["group"] = {"all", "low_costs"}
  BY DEF Fields

\* A payload gives a field, or the default stands.
LEMMA GivenTyped ==
    ASSUME NEW data, Gives(data), NEW field, NEW default \in Fields[field]
    PROVE  Given(data, field, default) \in Fields[field]
  BY DEF Given, Gives

\* Every payload gives a whole configuration.
LEMMA FromPayloadTyped == ASSUME NEW data, Gives(data) PROVE ConfigTyped(FromPayload(data))
<1> PICK c, mode, grid : /\ c = FromPayload(data) /\ mode = Given(data, "mode", "FULL_GRID")
                         /\ grid = (IF mode = "TIERED_ESSENTIAL" THEN Essential ELSE Scenarios)
  OBVIOUS
<1>1. /\ DOMAIN c = DOMAIN Fields
      /\ c["mode"] = mode /\ c["grid"] = Given(data, "grid", grid)
      /\ c["thresholds"] = Given(data, "thresholds", 1) /\ c["max"] = Given(data, "max", None)
      /\ c["perInvocation"] = Given(data, "perInvocation", None) /\ c["timed"] = Given(data, "timed", FALSE)
      /\ c["group"] = Given(data, "group", "all")
  BY DEF FromPayload, Fields
<1>2. None \in 0..(NumScenarios + 1) /\ grid \in SUBSET Scenarios
  <2>1. None \in 0..(NumScenarios + 1)
    BY BoundsAssumption DEF None
  <2>2. Essential \subseteq Scenarios
    BY BoundsAssumption
  <2> QED
    BY <2>1, <2>2
<1>3. c["mode"] \in Fields["mode"] /\ c["grid"] \in Fields["grid"]
  <2>1. "FULL_GRID" \in Fields["mode"] /\ grid \in Fields["grid"]
    BY <1>2, FieldTypes DEF Modes
  <2> QED
    BY <1>1, <2>1, GivenTyped
<1>4. c["thresholds"] \in Fields["thresholds"] /\ c["max"] \in Fields["max"]
      /\ c["perInvocation"] \in Fields["perInvocation"]
  <2>1. 1 \in Fields["thresholds"] /\ None \in Fields["max"] /\ None \in Fields["perInvocation"]
    BY <1>2, FieldTypes
  <2> QED
    BY <1>1, <2>1, GivenTyped
<1>5. c["timed"] \in Fields["timed"] /\ c["group"] \in Fields["group"]
  <2>1. Given(data, "timed", FALSE) \in Fields["timed"]
    BY FieldTypes DEF Given, Gives
  <2>2. Given(data, "group", "all") \in Fields["group"]
    BY FieldTypes, GivenTyped
  <2> QED
    BY <1>1, <2>1, <2>2
<1>6. \A field \in DOMAIN Fields : c[field] \in Fields[field]
  BY <1>3, <1>4, <1>5, FieldTypes
<1> QED
  BY <1>1, <1>6 DEF ConfigTyped, Gives

\* One payload over another gives what they give.
LEMMA OverTyped == ASSUME NEW f, NEW g, Gives(f), Gives(g) PROVE Gives(Over(f, g))
  BY DEF Gives, Over

\* What the engine returns is typed.
LEMMA EngineTyped ==
    ASSUME NEW q, ConfigTyped(q.config), q.existing \subseteq Scenario,
           q.replay \in Nat \ {0}, q.bars \in Nat, NEW run \in Engine(q)
    PROVE  ConfigTyped(run.config) /\ run.scenarios \subseteq Scenario
<1> DEFINE kept == Kept(q.existing, q.replay, q.config)
           missing == Selected(q.config) \ {d.scenario : d \in kept}
           todo == FirstOf(q.config, missing \intersect InGroup(q.config), q.config.perInvocation)
           New(n) == {[replay |-> q.replay, scenario |-> s, bars |-> q.bars, thresholds |-> q.config.thresholds] :
                      s \in FirstOf(q.config, todo, n)}
<1>1. PICK n : run = [replay |-> q.replay, listed |-> Listed(q), config |-> q.config, scenarios |-> kept \union New(n), sources |-> replays[q.replay].bars,
         completion |-> Completion(kept \union New(n), q.config, n < Cardinality(todo))]
  BY DEF Engine
<1>2. run.config = q.config /\ run.scenarios = kept \union New(n)
  BY <1>1
<1>3. kept \subseteq Scenario
  BY DEF Kept
<1>4. q.config.thresholds \in Nat /\ q.config.grid \subseteq Scenarios
  BY FieldTypes DEF ConfigTyped, Gives
<1>5. \A S, m : FirstOf(q.config, S, m) \subseteq S
  BY DEF FirstOf
<1>6. FirstOf(q.config, todo, n) \subseteq Scenarios
  <2>1. Selected(q.config) \subseteq Scenarios
    BY <1>4, <1>5 DEF Selected
  <2>2. missing \intersect InGroup(q.config) \subseteq Scenarios
    BY <2>1
  <2> QED
    BY <1>5, <2>2
<1> HIDE DEF kept, missing, todo
<1>7. New(n) \subseteq Scenario
  BY <1>4, <1>6 DEF Scenario
<1> QED
  BY <1>2, <1>3, <1>7

\* A replay that was refused or that returns leaves its caller idle or in the loop.
LEMMA ReturnedAt ==
    ASSUME NEW q, NEW kind \in Kinds, NEW id, "at" \in DOMAIN q
    PROVE  Returned(q, kind, id).at \in {"idle", "portfolio", "save"}
<1>1. CASE q = Idle
  BY <1>1 DEF Returned, Idle
<1>2. CASE q # Idle
  <2>1. Returned(q, kind, id) = [q EXCEPT !.at = After(kind), ![kind] = id] /\ kind # "at"
    BY <1>2 DEF Returned, Kinds
  <2>2. Returned(q, kind, id).at = After(kind)
    BY <2>1
  <2> QED
    BY <2>2 DEF After
<1> QED
  BY <1>1, <1>2

LEMMA CheckedAt ==
    ASSUME NEW q, NEW kind \in Kinds, NEW allowStale, "at" \in DOMAIN q
    PROVE  Checked(q, kind, allowStale).at \in {"idle", "portfolio", "save", "bars"}
<1>1. CASE Refused(allowStale)
  BY <1>1, ReturnedAt DEF Checked
<1>2. CASE ~Refused(allowStale)
  BY <1>2 DEF Checked
<1> QED
  BY <1>1, <1>2

\* Only the steps of a sensitivity run end in one.
LEMMA OthersAreNoStudies ==
    ASSUME Inv, NEW p \in Procs,
           \/ Build(p) \/ WriteRows(p) \/ MarkBuilt(p) \/ RunReplay(p) \/ Create(p) \/ RunSet(p) \/ CheckStale(p)
           \/ ReadBars(p) \/ ReadFeatures(p) \/ Replay(p) \/ SaveResult(p) \/ FinishSet(p) \/ Crash(p)
    PROVE  /\ UNCHANGED runs /\ \A o \in Procs : o # p => proc'[o] = proc[o]
           /\ proc'[p] = proc[p] \/ proc'[p].at \notin {"previous", "scenarios", "engine"}
<1> PICK q : q = proc[p]
  OBVIOUS
<1>1. UNCHANGED runs /\ \A o \in Procs : o # p => proc'[o] = proc[o]
  <2>1. CASE Build(p) \/ WriteRows(p) \/ MarkBuilt(p)
    BY <2>1 DEF Build, WriteRows, MarkBuilt, Become, Inv, Base
  <2>2. CASE ~(Build(p) \/ WriteRows(p) \/ MarkBuilt(p))
    BY <2>2 DEF RunReplay, Create, RunSet, CheckStale, ReadBars, ReadFeatures, Replay, SaveResult, FinishSet, Crash,
                Become, Inv, Base
  <2> QED
    BY <2>1, <2>2
<1>2. CASE RunReplay(p)
  <2>1. PICK allowStale \in BOOLEAN : proc'[p] = Checked(Idle, "portfolio", allowStale)
    BY <1>2 DEF RunReplay, Become, Inv, Base
  <2>2. "at" \in DOMAIN Idle /\ "portfolio" \in Kinds
    BY DEF Idle, Kinds
  <2> QED
    BY <1>1, <2>1, <2>2, CheckedAt
<1>3. CASE Create(p)
  <2>1. PICK w \in left.sets : proc'[p] = proc[p] \/ proc'[p] = Running(GenerateWindows(w), <<>>, FALSE, FALSE)
    BY <1>3 DEF Create, Become, Inv, Base
  <2> QED
    BY <1>1, <2>1, RunningInLoop DEF InLoop
<1>4. CASE RunSet(p)
  <2>1. PICK rerun, dry : proc'[p] = Running(set.windows, results, rerun, dry)
    BY <1>4 DEF RunSet, Become, Inv, Base
  <2> QED
    BY <1>1, <2>1, RunningInLoop DEF InLoop
<1>5. CASE CheckStale(p)
  <2>1. proc'[p] = Checked(q, q.at, set.payload.allowStale) /\ q.at \in Kinds /\ "at" \in DOMAIN q
    BY <1>5 DEF CheckStale, Become, Inv, Base, ProcSound, Kinds
  <2> QED
    BY <1>1, <2>1, CheckedAt
<1>6. CASE ReadBars(p) \/ ReadFeatures(p)
  <2>1. /\ \/ proc'[p] = [q EXCEPT !.at = "features", !.read = bars]
           \/ proc'[p] = [q EXCEPT !.at = "candidates", !.features = built["features"]]
        /\ "at" \in DOMAIN q
    BY <1>6 DEF ReadBars, ReadFeatures, Become, Inv, Base, ProcSound
  <2>2. proc'[p].at \in {"features", "candidates"}
    BY <2>1
  <2> QED
    BY <1>1, <2>2
<1>7. CASE Replay(p)
  <2>1. proc'[p] = Returned(q.caller, q.kind, Len(replays) + 1) /\ q.kind \in Kinds /\ "at" \in DOMAIN q.caller
    BY <1>7 DEF Replay, Become, Inv, Base, ProcSound, ReplayingSound, Replaying
  <2> QED
    BY <1>1, <2>1, ReturnedAt
<1>8. CASE SaveResult(p)
  <2>1. proc'[p] = Continue(WithResult(q)) /\ "at" \in DOMAIN q
    BY <1>8 DEF SaveResult, WithResult, Become, Inv, Base, ProcSound
  <2>2. "at" \in DOMAIN WithResult(q)
    BY <2>1 DEF WithResult
  <2> QED
    BY <1>1, <2>1, <2>2, ContinuesInLoop
<1>9. CASE FinishSet(p) \/ Crash(p)
  BY <1>1, <1>9 DEF FinishSet, Crash, Become, Idle, Inv, Base
<1>10. CASE Build(p) \/ MarkBuilt(p)
  <2>1. proc'[p].at \in {"write", "idle"}
    BY <1>10 DEF Build, MarkBuilt, Become, Idle, Inv, Base
  <2> QED
    BY <1>1, <2>1
<1>11. CASE WriteRows(p)
  <2>1. proc'[p] = [q EXCEPT !.at = "mark"] /\ "at" \in DOMAIN q
    BY <1>11 DEF WriteRows, Become, Inv, Base, ProcSound
  <2>2. proc'[p].at = "mark"
    BY <2>1
  <2> QED
    BY <1>1, <2>2
<1> QED
  BY <1>1, <1>2, <1>3, <1>4, <1>5, <1>6, <1>7, <1>8, <1>9, <1>10, <1>11

\* A step of one process that leaves the runs alone.
LEMMA TypesFrame ==
    ASSUME TypeInv, UNCHANGED runs, NEW p \in Procs,
           \A o \in Procs : o # p => proc'[o] = proc[o], StudyTyped(proc'[p])
    PROVE  TypeInv'
<1>1. ASSUME NEW o \in Procs PROVE StudyTyped(proc'[o])
  BY DEF TypeInv
<1> QED
  BY <1>1 DEF TypeInv, StudyTyped, ConfigTyped

\* Every step keeps the types.
LEMMA NextTypes == Inv /\ TypeInv /\ [Next]_vars => TypeInv'
<1> SUFFICES ASSUME Inv, TypeInv, [Next]_vars PROVE TypeInv'
  OBVIOUS
<1>1. CASE UNCHANGED vars
  BY <1>1 DEF vars, TypeInv, StudyTyped, ConfigTyped
<1>2. CASE StoreBars
  <2>1. UNCHANGED <<runs, proc>>
    BY <1>2 DEF StoreBars
  <2> QED
    BY <2>1 DEF TypeInv, StudyTyped, ConfigTyped
<1>3. ASSUME NEW p \in Procs,
             \/ Build(p) \/ WriteRows(p) \/ MarkBuilt(p) \/ RunReplay(p) \/ Create(p) \/ RunSet(p) \/ CheckStale(p)
             \/ ReadBars(p) \/ ReadFeatures(p) \/ Replay(p) \/ SaveResult(p) \/ FinishSet(p) \/ Crash(p)
      PROVE  TypeInv'
  <2>1. /\ UNCHANGED runs /\ \A o \in Procs : o # p => proc'[o] = proc[o]
        /\ proc'[p] = proc[p] \/ proc'[p].at \notin {"previous", "scenarios", "engine"}
    BY <1>3, OthersAreNoStudies
  <2>2. StudyTyped(proc'[p])
    <3>1. CASE proc'[p] = proc[p]
      BY <3>1 DEF TypeInv
    <3>2. CASE proc'[p].at \notin {"previous", "scenarios", "engine"}
      BY <3>2 DEF StudyTyped
    <3> QED
      BY <2>1, <3>1, <3>2
  <2> QED
    BY <2>1, <2>2, TypesFrame
<1>4. ASSUME NEW p \in Procs, Study(p) PROVE TypeInv'
  <2>1. /\ UNCHANGED runs /\ \A o \in Procs : o # p => proc'[o] = proc[o]
        /\ proc'[p].at = "previous" /\ proc'[p].payload \in Payloads
    BY <1>4 DEF Study, Become, Inv, Base
  <2> QED
    BY <2>1, TypesFrame, RequestsAssumption DEF StudyTyped
<1>5. ASSUME NEW p \in Procs, ReadPrevious(p) PROVE TypeInv'
  <2> PICK q, r : q = proc[p] /\ r = proc'[p]
    OBVIOUS
  <2>1. /\ UNCHANGED runs /\ \A o \in Procs : o # p => proc'[o] = proc[o]
        /\ r.at \in {"scenarios", "engine"} /\ r.config = FromPayload(Merged(q)) /\ r.existing = {}
    BY <1>5 DEF ReadPrevious, Become, Inv, Base
  <2>2. Gives(Merged(q))
    <3>1. Gives(q.payload) /\ (q.id = NoId \/ q.id \in DOMAIN runs)
      BY <1>5 DEF ReadPrevious, TypeInv, StudyTyped, Inv, ProcSound
    <3>2. q.id \in DOMAIN runs => Gives(runs[q.id].config)
      BY DEF TypeInv, ConfigTyped
    <3> QED
      BY <3>1, <3>2, OverTyped DEF Merged
  <2>3. ConfigTyped(r.config)
    BY <2>1, <2>2, FromPayloadTyped
  <2> QED
    BY <2>1, <2>3, TypesFrame DEF StudyTyped
<1>6. ASSUME NEW p \in Procs, ListScenarios(p) PROVE TypeInv'
  <2> PICK q, r : q = proc[p] /\ r = proc'[p]
    OBVIOUS
  <2>1. /\ UNCHANGED runs /\ \A o \in Procs : o # p => proc'[o] = proc[o]
        /\ q.at = "scenarios" /\ r = [q EXCEPT !.at = "engine", !.existing = runs[q.id].scenarios]
    BY <1>6 DEF ListScenarios, Become, Inv, Base
  <2>2. StudySound(q) /\ ConfigTyped(q.config)
    BY <2>1 DEF Inv, ProcSound, TypeInv, StudyTyped
  <2>3. r.at = "engine" /\ r.config = q.config /\ r.existing = runs[q.id].scenarios /\ q.id \in DOMAIN runs
    BY <2>1, <2>2 DEF StudySound
  <2>4. r.existing \subseteq Scenario
    BY <2>3 DEF TypeInv
  <2> QED
    BY <2>1, <2>2, <2>3, <2>4, TypesFrame DEF StudyTyped
<1>7. ASSUME NEW p \in Procs, SaveStudy(p) PROVE TypeInv'
  <2> PICK q, key : q = proc[p] /\ key = q.id
    OBVIOUS
  <2>1. PICK run \in Engine(q) : runs' = Put(runs, key, run)
    BY <1>7 DEF SaveStudy
  <2>2. /\ DOMAIN runs' = DOMAIN runs \union {key} /\ runs'[key] = run
        /\ \A id \in DOMAIN runs : id # key => runs'[id] = runs[id]
    BY <2>1 DEF Put
  <2>3. /\ proc'[p] = Idle /\ \A o \in Procs : o # p => proc'[o] = proc[o]
        /\ q.at = "engine"
    BY <1>7 DEF SaveStudy, Become, Inv, Base
  <2>4. ConfigTyped(run.config) /\ run.scenarios \subseteq Scenario
    <3>1. ConfigTyped(q.config) /\ q.existing \subseteq Scenario
      BY <2>3 DEF TypeInv, StudyTyped
    <3>2. q.replay \in Nat \ {0} /\ q.bars \in Nat
      BY <2>3 DEF Inv, Base, ProcSound, StudySound, ReadSound
    <3> QED
      BY <3>1, <3>2, EngineTyped
  <2>5. \A id \in DOMAIN runs' : ConfigTyped(runs'[id].config) /\ runs'[id].scenarios \subseteq Scenario
    BY <2>2, <2>4 DEF TypeInv
  <2>6. \A o \in Procs : StudyTyped(proc'[o])
    BY <2>3 DEF TypeInv, StudyTyped, Idle
  <2> QED
    BY <2>5, <2>6 DEF TypeInv, StudyTyped, ConfigTyped
<1> QED
  BY <1>1, <1>2, <1>3, <1>4, <1>5, <1>6, <1>7 DEF Next

\* TypeOK holds in every reachable state: the rows of runs, sets and results are what their readers expect.
THEOREM TypeCorrect == Spec => []TypeOK
<1>1. Init => TypeInv
  BY DEF Init, TypeInv, StudyTyped, Idle
<1>2. Inv /\ TypeInv /\ [Next]_vars => TypeInv'
  BY NextTypes
<1>3. Inv /\ WindowInv /\ TypeInv => TypeOK
  <2> SUFFICES ASSUME Inv, WindowInv, TypeInv PROVE TypeOK
    OBVIOUS
  <2>1. bars \in Nat /\ built \in [Artifacts -> 0..bars] /\ dirty \subseteq Artifacts
    BY DEF Inv, Base
  <2>2. \A r \in DOMAIN replays : replays[r].kind \in {"counterfactual", "portfolio"}
    <3>1. replays \in Seq(ReplayRow)
      BY DEF Inv, Base
    <3>2. \A r \in DOMAIN replays : replays[r] \in ReplayRow
      BY <3>1
    <3> QED
      BY <3>2 DEF ReplayRow, Kinds
  <2>3. \A id \in DOMAIN runs : {runs[id].replay, runs[id].listed} \subseteq DOMAIN replays
    BY DEF Inv, RunSound
  <2>4. set.status \in {"none", "created", "rejected", "completed"}
    BY DEF WindowInv, SetShape, NoSet
  <2> QED
    BY <2>1, <2>2, <2>3, <2>4 DEF TypeOK, TypeInv, ConfigTyped, WindowInv, SetShape, Refers
<1>4. Spec => []Inv
  BY Soundness
<1>5. Spec => []WindowInv
  BY WindowSoundness
<1> QED
  BY <1>1, <1>2, <1>3, <1>4, <1>5, PTL DEF Spec

=============================================================================
