---------------------------- MODULE PipelineWindows ----------------------------
(***************************************************************************)
(* The artifacts derived from the bars of one symbol and one intraday      *)
(* interval (features, candidates, labels, portfolio replay runs) and the  *)
(* pipeline_build_windows rows that say which session dates are stale.     *)
(*                                                                         *)
(* The features of a session look back to the sessions before it, and what *)
(* is derived from them inherits that: the content of the rows a build     *)
(* writes is the revision of the bars they derive from, of their date and  *)
(* of each before.  The builds upsert and never delete: a row of a setup   *)
(* that the new bars no longer have stays among the others, and is read.   *)
(* An operation is a script of queries and commits, run by the API server  *)
(* or by a scheduler worker; the processes share only the database, and    *)
(* one may die between two steps.                                          *)
(***************************************************************************)
EXTENDS Naturals, Sequences, FiniteSetsExt

CONSTANTS
    NumDays,    \* session dates
    Procs,      \* the API server and the workers
    MayRun,     \* the operations each process is asked for
    Ranges,     \* the <<start, end>> dates requests name
    Forces,     \* the values of allow_dirty_inputs and allow_stale
    OneAtATime, \* TRUE: nothing starts while another process works
    MaxUpserts, \* bound on the upserts of a day's bars
    MaxFaults   \* bound on processes that die

Days == 1..NumDays
\* No start and no end in the request.
All == <<0, 0>>

Ops == {"features", "candidates", "labels", "replay", "build_features", "build_labels",
        "run_replay"}

ASSUME SizesAssumption == NumDays \in Nat \ {0} /\ MaxUpserts \in Nat /\ MaxFaults \in Nat
ASSUME OpsAssumption == MayRun \in [Procs -> SUBSET (Ops \union {"ingest"})]
ASSUME RangesAssumption ==
    /\ Ranges \subseteq {All} \union {r \in Days \X Days : r[1] <= r[2]}
    /\ Forces \subseteq BOOLEAN /\ OneAtATime \in BOOLEAN

Artifacts == {"features", "candidates", "labels", "replay"}
Sources == {"bars", "features", "candidates"}
Revision == 0..MaxUpserts \* zero: none
Row == [Days -> Revision] \* the bars a row derives from

VARIABLES
    bars,  \* revision of the bars of a day
    made,  \* made[a][d]: the content of the rows the last build of artifact a wrote on day d
    leftover, \* leftover[a]: the days with rows of a that an earlier build wrote and the last
           \* one did not, or that were made from such rows of the candidates
    dirty, \* dirty[a]: the days whose window of artifact a is dirty
    task,  \* what each process is doing
    faults

vars == <<bars, made, leftover, dirty, task, faults>>

\* What is left of an operation, and its locals: the windows it found dirty, the rows
\* it read, the days on which leftover candidates were among them, what it has saved; touched
\* is a history variable, the days of which another process changed bars or rows meanwhile.
Step == [do : {"check", "window", "need", "list", "recheck", "read", "write", "mark", "clean"},
         of : Artifacts \union Sources \union {"counterfactual"}]
Task == [op : Ops, range : Days \X Days \union {All}, force : BOOLEAN, todo : Seq(Step),
         before : SUBSET Days, got : [Sources -> [Days -> Row]], beside : SUBSET Days,
         saved : SUBSET (Artifacts \union {"counterfactual"}), touched : SUBSET Days]
NoRow == [d \in Days |-> 0]
Nothing == [s \in Sources |-> [d \in Days |-> NoRow]]
Idle == [op |-> "features", range |-> All, force |-> FALSE, todo |-> <<>>, before |-> {},
         got |-> Nothing, beside |-> {}, saved |-> {}, touched |-> {}]

TypeOK ==
    /\ bars \in [Days -> Revision]
    /\ made \in [Artifacts -> [Days -> Row]]
    /\ leftover \in [Artifacts -> SUBSET Days]
    /\ dirty \in [Artifacts -> SUBSET Days]
    /\ task \in [Procs -> Task]
    /\ faults \in 0..MaxFaults

Init ==
    /\ bars = [d \in Days |-> 0]
    /\ made = [a \in Artifacts |-> [d \in Days |-> NoRow]]
    /\ leftover = [a \in Artifacts |-> {}]
    /\ dirty = [a \in Artifacts |-> {}]
    /\ task = [p \in Procs |-> Idle]
    /\ faults = 0

-----------------------------------------------------------------------------
(***************************************************************************)
(* The scripts: one entry per query or commit.                             *)
(***************************************************************************)
Do(what, of) == [do |-> what, of |-> of]
ReadAll == <<Do("read", "bars"), Do("read", "features"), Do("read", "candidates")>>

\* BacktestService.run_replay, of a portfolio run and of a counterfactual one, whose
\* window has a version of its own.
PortfolioRun == <<Do("recheck", "replay")>> \o ReadAll \o
                <<Do("write", "replay"), Do("mark", "replay")>>
CounterfactualRun == <<Do("recheck", "replay")>> \o ReadAll \o <<Do("write", "counterfactual")>>

FeatureBuild == <<Do("read", "bars"), Do("write", "features"), Do("mark", "features")>>

FeatureScript == <<Do("list", "features"), Do("need", "bars")>> \o FeatureBuild
                    \o <<Do("clean", "features")>>

\* The variant does not ask whether its input is dirty.
CandidateScriptUnchecked ==
    <<Do("list", "candidates"), Do("read", "features"), Do("write", "candidates"),
      Do("clean", "candidates")>>
CandidateScript ==
    <<Do("check", "features"), Do("list", "candidates"), Do("read", "features"),
      Do("write", "candidates"), Do("clean", "candidates")>>

\* The variant leaves the windows as they were.
LabelScriptUncleaned == <<Do("check", "candidates"), Do("list", "labels")>> \o ReadAll
                           \o <<Do("write", "labels")>>
LabelScript == <<Do("check", "candidates"), Do("list", "labels")>> \o ReadAll
                  \o <<Do("write", "labels"), Do("clean", "labels")>>

ReplayScript ==
    <<Do("window", "bars"), Do("check", "features"), Do("check", "candidates"),
      Do("list", "replay")>>
        \o PortfolioRun \o CounterfactualRun \o <<Do("clean", "replay")>>

\* LabelBuildService.build: candidates from the features it read, labels from both.
LabelBuild ==
    <<Do("read", "bars"), Do("read", "features"), Do("write", "candidates"),
      Do("write", "labels"), Do("mark", "candidates"), Do("mark", "labels")>>

Script(op) ==
    CASE op = "features" -> FeatureScript
      [] op = "candidates" -> CandidateScript
      [] op = "labels" -> LabelScript
      [] op = "replay" -> ReplayScript
      [] op = "build_features" -> FeatureBuild
      [] op = "build_labels" -> LabelBuild
      [] op = "run_replay" -> PortfolioRun

-----------------------------------------------------------------------------
(***************************************************************************)
(* Helpers.                                                                *)
(***************************************************************************)
Busy(p) == task[p].todo # <<>>
MayStart(p) == ~Busy(p) /\ (OneAtATime => \A q \in Procs : ~Busy(q))
At(p, what) == Busy(p) /\ Head(task[p].todo).do = what
Of(p) == Head(task[p].todo).of

InRange(range, d) == range = All \/ (range[1] <= d /\ d <= range[2])

\* p goes on with t, or ends, and has changed something of days.
Change(p, t, days) ==
    task' = [q \in Procs |->
                IF q = p THEN IF t.todo = <<>> THEN Idle ELSE t
                ELSE IF Busy(q) THEN [task[q] EXCEPT !.touched = @ \union days]
                ELSE task[q]]
Continue(p, t) == Change(p, t, {})
Advance(p) == Continue(p, [task[p] EXCEPT !.todo = Tail(@)])
End(p) == task' = [task EXCEPT ![p] = Idle]

\* The bars of day d, with those of the days before it.
UpTo(b, d) == [e \in Days |-> IF e <= d THEN b[e] ELSE 0]

\* What a query of range finds: of the bars, those of its dates only.
Found(s, range) ==
    LET inRange == [d \in Days |-> IF InRange(range, d) THEN bars[d] ELSE 0]
    IN  [d \in Days |-> CASE ~InRange(range, d) -> NoRow
                          [] InRange(range, d) /\ s = "bars" -> UpTo(inRange, d)
                          [] OTHER -> made[s][d]]

\* The days of range with leftover rows, of the rows a script reads of an artifact that has
\* some.
LeftoverRead(s, range) ==
    IF s = "candidates" THEN {d \in leftover["candidates"] : InRange(range, d)} ELSE {}

\* What artifact a is computed from: only the features look at bars of earlier days.
Inputs(op, a) ==
    CASE a = "features" -> {"bars"}
      [] a = "candidates" -> {"features"}
      [] a = "labels" -> IF op = "build_labels" THEN {"bars", "features"} ELSE Sources
      [] a = "replay" -> Sources
InputsOf(op, a, d, e) == IF e < d /\ a # "features" THEN Inputs(op, a) \ {"bars"}
                                                  ELSE Inputs(op, a)

\* The row computed for day d from the rows read is as old as the oldest of them; none is
\* computed on a day for which one of the inputs has none.
Computed(t, a, d) ==
    [e \in Days |-> IF e > d THEN 0
                    ELSE Min({t.got[s][d][e] : s \in InputsOf(t.op, a, d, e)})]
Observed(t, a) == {d \in Days : Computed(t, a, d)[d] > 0}

\* The variant cleans the windows of all dates.
MarkedDayAll(t) == Days
\* The session date of the one window mark_built cleans: that of the start of the
\* range, or of the first bar read.
MarkedDay(t) ==
    IF t.range # All THEN {t.range[1]}
    ELSE LET seen == {d \in Days : t.got["bars"][d][d] > 0}
         IN  IF seen = {} THEN {} ELSE {Min(seen)}

-----------------------------------------------------------------------------
(***************************************************************************)
(* Ingestion.                                                              *)
(***************************************************************************)
\* The variant marks the features only.
MarkedByUpsertFew == {"features"}
MarkedByUpsert == Artifacts

\* BarRepository.upsert_many: the bars and the dirty windows in one commit.
Upsert(p, days) ==
    /\ MayStart(p)
    /\ "ingest" \in MayRun[p]
    /\ days # {}
    /\ \A d \in days : bars[d] < MaxUpserts
    /\ bars' = [d \in Days |-> IF d \in days THEN bars[d] + 1 ELSE bars[d]]
    /\ dirty' = [a \in Artifacts |->
                    IF a \in MarkedByUpsert THEN dirty[a] \union days ELSE dirty[a]]
    /\ Change(p, Idle, days)
    /\ UNCHANGED <<made, leftover, faults>>

-----------------------------------------------------------------------------
(***************************************************************************)
(* The steps of a build.                                                   *)
(***************************************************************************)
\* The requests of the builds have no parameters; a replay has both dates; nothing lets a
\* feature rebuild take anything.
Asked(op, range, force) ==
    /\ op \in {"build_features", "build_labels"} => range = All /\ ~force
    /\ op = "run_replay" => range # All
    /\ op = "features" => ~force

Start(p, op, range, force) ==
    /\ MayStart(p)
    /\ op \in MayRun[p]
    /\ Asked(op, range, force)
    /\ task' = [task EXCEPT ![p] = [Idle EXCEPT
                    !.op = op, !.range = range, !.force = force, !.todo = Script(op)]]
    /\ UNCHANGED <<bars, made, leftover, dirty, faults>>

\* Dirty inputs, of any date, block a rebuild unless it allows them.
Check(p) ==
    /\ At(p, "check")
    /\ IF dirty[Of(p)] # {} /\ ~task[p].force THEN End(p) ELSE Advance(p)
    /\ UNCHANGED <<bars, made, leftover, dirty, faults>>

\* A feature rebuild without bars is blocked.
Need(p) ==
    /\ At(p, "need")
    /\ IF \E d \in Days : InRange(task[p].range, d) /\ bars[d] > 0 THEN Advance(p) ELSE End(p)
    /\ UNCHANGED <<bars, made, leftover, dirty, faults>>

\* A replay rebuild without dates runs from the first to the last bar.
Window(p) ==
    /\ At(p, "window")
    /\ LET seen == {d \in Days : bars[d] > 0}
       IN  CASE task[p].range # All -> Advance(p)
             [] task[p].range = All /\ seen = {} -> End(p)
             [] OTHER -> Continue(p, [task[p] EXCEPT !.todo = Tail(@),
                                                     !.range = <<Min(seen), Max(seen)>>])
    /\ UNCHANGED <<bars, made, leftover, dirty, faults>>

List(p) ==
    /\ At(p, "list")
    /\ Continue(p, [task[p] EXCEPT !.todo = Tail(@), !.before = dirty[Of(p)]])
    /\ UNCHANGED <<bars, made, leftover, dirty, faults>>

\* What follows a replay run that is refused: the next run, or the clean-up.
AfterRun(todo) ==
    LET next == {i \in 1..Len(todo) : todo[i].do \in {"recheck", "clean"}}
    IN  IF next = {} THEN <<>> ELSE SubSeq(todo, Min(next), Len(todo))

\* run_replay looks again at its inputs; a rebuild never sets allow_stale.
Recheck(p) ==
    /\ At(p, "recheck")
    /\ LET stale == dirty["features"] \union dirty["candidates"] # {}
           allowStale == task[p].op = "run_replay" /\ task[p].force
       IN  IF stale /\ ~allowStale
           THEN Continue(p, [task[p] EXCEPT !.todo = AfterRun(Tail(@))])
           ELSE Advance(p)
    /\ UNCHANGED <<bars, made, leftover, dirty, faults>>

Read(p) ==
    /\ At(p, "read")
    /\ Continue(p, [task[p] EXCEPT !.todo = Tail(@),
                                    !.got[Of(p)] = Found(Of(p), task[p].range),
                                    !.beside = @ \union LeftoverRead(Of(p), task[p].range)])
    /\ UNCHANGED <<bars, made, leftover, dirty, faults>>

\* The days with rows made from leftover candidates of the day or an earlier one.
Besides(t, a, days) ==
    IF a \in {"labels", "replay"} THEN {d \in days : \E e \in t.beside : e <= d} ELSE {}

\* The days on which rows may stay behind an upsert, as the data have it.  Features have a row
\* per bar, and a replay run is a row of its own: none stays.  The candidates of a day are
\* detected from its features alone: rows stay, or come back, where those have changed.
\* Labels depend on the days around and on what came before: any may not be made again.
MayStay(t, a, days) ==
    CASE a = "candidates" -> {d \in days : made[a][d] \notin {NoRow, Computed(t, a, d)}}
      [] a = "labels" -> {d \in days : made[a][d] # NoRow}
      [] OTHER -> {}

\* The days whose leftover rows stay as they are: those not written, and those whose candidates
\* are the same again.
Untaken(t, a, days) == leftover[a] \ (IF a = "candidates" THEN MayStay(t, a, days) ELSE days)

\* Rows are upserted, and never deleted.
Write(p) ==
    /\ At(p, "write")
    /\ LET a == Of(p)
           days == IF a = "counterfactual" THEN {} ELSE Observed(task[p], a)
           t == [task[p] EXCEPT !.todo = Tail(@),
                                !.saved = @ \union {a}]
       IN  /\ made' = [b \in Artifacts |-> [d \in Days |->
                          IF b = a /\ d \in days THEN Computed(task[p], a, d) ELSE made[b][d]]]
           /\ \E stay \in SUBSET MayStay(t, a, days) :
                leftover' = [b \in Artifacts |->
                    IF b # a THEN leftover[b]
                    ELSE Untaken(t, a, days) \union Besides(t, a, days) \union stay]
           /\ Change(p, t, days)
    /\ UNCHANGED <<bars, dirty, faults>>

\* mark_built: one window per symbol and interval, whatever the length of the range.
Mark(p) ==
    /\ At(p, "mark")
    /\ dirty' = [dirty EXCEPT ![Of(p)] = @ \ MarkedDay(task[p])]
    /\ Advance(p)
    /\ UNCHANGED <<bars, made, leftover, faults>>

\* _clean_windows: the windows that were dirty before, each in a commit, in the order
\* of their dates; those of the replay only if a run was saved.
Clean(p) ==
    /\ At(p, "clean")
    /\ LET t == task[p]
           left == IF Of(p) = "replay" /\ t.saved = {} THEN {} ELSE t.before
       IN  IF left = {}
           THEN Advance(p) /\ UNCHANGED dirty
           ELSE /\ dirty' = [dirty EXCEPT ![Of(p)] = @ \ {Min(left)}]
                /\ Continue(p, [t EXCEPT !.before = @ \ {Min(left)}])
    /\ UNCHANGED <<bars, made, leftover, faults>>

Crash(p) ==
    /\ Busy(p)
    /\ faults < MaxFaults
    /\ faults' = faults + 1
    /\ End(p)
    /\ UNCHANGED <<bars, made, leftover, dirty>>

-----------------------------------------------------------------------------
Work(p) ==
    \/ Check(p) \/ Need(p) \/ Window(p) \/ List(p) \/ Recheck(p)
    \/ Read(p) \/ Write(p) \/ Mark(p) \/ Clean(p)

Next ==
    \E p \in Procs :
        \/ \E days \in SUBSET Days : Upsert(p, days)
        \/ \E op \in Ops, range \in Ranges, force \in Forces : Start(p, op, range, force)
        \/ Work(p)
        \/ Crash(p)

Spec == Init /\ [][Next]_vars

\* A process goes on with what it has begun, and the operator repeats the rebuilds of
\* all dates, in whatever order.
Rebuilds == {"features", "candidates", "labels", "replay"}
Fairness ==
    \A p \in Procs : /\ WF_vars(Work(p))
                     /\ \A op \in Rebuilds \cap MayRun[p] : SF_vars(Start(p, op, All, FALSE))
FairSpec == Spec /\ Fairness

-----------------------------------------------------------------------------
(***************************************************************************)
(* Properties.                                                             *)
(***************************************************************************)
\* What a rebuild of everything, alone, would make of day d.
Current(d) == IF bars[d] > 0 THEN UpTo(bars, d) ELSE NoRow

\* The rows of a day derive from other bars than these although its window is clean: what a
\* replay, a validation or a freshness report takes for current and is not.
Hidden(a, d) == d \notin dirty[a] /\ (made[a][d] # Current(d) \/ d \in leftover[a])

\* One process at a time, over all dates: the rows the last build wrote behind a clean window
\* derive from the current bars of its date, in every state between two commits and whoever
\* dies on the way; where rows stay from before, which no rebuild takes away, others are among
\* them.
CleanIsCurrent ==
    \A a \in Artifacts, d \in Days :
        d \notin dirty[a] => made[a][d][d] = bars[d] \/ d \in leftover[a]

\* Operations that take input s dirty: on request, the label build always; the label rebuild
\* looks at the candidates' windows only.
TakesDirty(p, s) ==
    \/ task[p].force
    \/ task[p].op = "build_labels"
    \/ task[p].op = "labels" /\ s = "features"

\* The ways of process p to hide outdated rows of a date: another process changed bars or
\* rows of that date or one before it while an operation ran; its input was hidden
\* already, or was dirty and taken; a rebuild of other dates cleaned the windows of all, or
\* a feature rebuild that began after an earlier date did not read its bars; a replay
\* rebuild cleans the windows although only its counterfactual run was saved.
Hides(p, a, d) ==
    /\ Busy(p)
    /\ \/ \E e \in 1..d : e \in task[p].touched
       \/ \E s \in Inputs(task[p].op, a) \ {"bars"} :
            Hidden(s, d) \/ (TakesDirty(p, s) /\ d \in dirty[s])
       \/ task[p].op \in Rebuilds /\ ~InRange(task[p].range, d)
       \/ task[p].op = "features" /\ \E e \in 1..d : ~InRange(task[p].range, e)
       \/ task[p].saved = {"counterfactual"}

\* Outdated rows are hidden in those ways only, as rows that an upsert left behind or that
\* were made from those, or by new bars of an earlier date, which leave the windows of the
\* later dates clean.
HiddenOnly ==
    [][\A a \in Artifacts, d \in Days : Hidden(a, d)' /\ ~Hidden(a, d) =>
          \/ d \in leftover'[a]
          \/ \E p \in Procs : Hides(p, a, d)
          \/ \E e \in 1..(d - 1) : bars'[e] # bars[e]]_vars

\* However many windows races have hidden and rebuilds that were refused have left dirty,
\* repeating the rebuilds after the last upsert makes every window clean, and what the last
\* builds wrote current but for rows that stay from before: those no rebuild takes away.
WindowsSettle ==
    <>[](\A a \in Artifacts, d \in Days :
            d \notin dirty[a] /\ (made[a][d] = Current(d) \/ d \in leftover[a]))

=============================================================================
