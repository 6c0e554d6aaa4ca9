----------------------------- MODULE PipelineProofs -----------------------------
(***************************************************************************)
(* What holds of the build windows for every number of dates, processes,   *)
(* requests and upserts: the types, the ways in which outdated rows can    *)
(* hide behind a clean window, and that there are none when one process    *)
(* works at a time over all dates.                                         *)
(*                                                                         *)
(* The invariant says of each busy process that it is at a place of its    *)
(* script, and that what it was told (a check), has read and has written   *)
(* still holds of the dates nobody else has touched meanwhile.             *)
(***************************************************************************)
EXTENDS PipelineWindows, Integers, FiniteSetsExt, FiniteSetTheorems, WellFoundedInduction,
        SequenceTheorems, TLAPS

-----------------------------------------------------------------------------
(* Least and greatest members. *)

\* A set of numbers up to n that is not empty has a least member, and Min is it.
LEMMA MinIsLeast ==
    ASSUME NEW n \in Nat, NEW S \in SUBSET (0..n), S # {}
    PROVE  Min(S) \in S /\ \A y \in S : Min(S) <= y
<1>1. PICK b \in S : \A y \in S : <<y, b>> \notin OpToRel(<, Nat)
  <2>1. S \subseteq Nat
    OBVIOUS
  <2> QED
    BY <2>1, NatLessThanWellFounded, WFMin
<1>2. ASSUME NEW y \in S PROVE b <= y
  <2>1. <<y, b>> \in Nat \X Nat /\ ~(y < b)
    BY <1>1 DEF OpToRel
  <2> QED
    BY <2>1
<1> QED
  BY <1>1, <1>2 DEF Min

\* The greatest is the one least far from n.
LEMMA MaxIsGreatest ==
    ASSUME NEW n \in Nat, NEW S \in SUBSET (0..n), S # {}
    PROVE  Max(S) \in S /\ \A y \in S : y <= Max(S)
<1> DEFINE R == {n - x : x \in S}
<1>1. R \in SUBSET (0..n) /\ R # {}
  <2>1. \A x \in S : n - x \in 0..n
    OBVIOUS
  <2> QED
    BY <2>1
<1>2. PICK r \in R : \A y \in R : r <= y
  <2> HIDE DEF R
  <2> QED
    BY <1>1, MinIsLeast
<1>3. PICK b \in S : r = n - b
  OBVIOUS
<1>4. ASSUME NEW y \in S PROVE y <= b
  <2>1. n - b <= n - y
    BY <1>2, <1>3
  <2> QED
    BY <2>1
<1> QED
  BY <1>4 DEF Max

-----------------------------------------------------------------------------
(***************************************************************************)
(* The inductive invariant, for every interleaving.                        *)
(***************************************************************************)
\* The number of steps of its script that t has behind it.
Done(t) == Len(Script(t.op)) - Len(t.todo)

\* What is left of an operation is the end of its script.
OnScript(t) ==
    /\ Len(t.todo) <= Len(Script(t.op))
    /\ \A k \in 1..Len(t.todo) : t.todo[k] = Script(t.op)[Done(t) + k]

\* What an operation writes.
Outputs(op) ==
    CASE op = "build_features" -> {"features"}
      [] op = "build_labels" -> {"candidates", "labels"}
      [] op = "run_replay" -> {"replay"}
      [] op = "replay" -> {"replay", "counterfactual"}
      [] OTHER -> {op}

\* t found the windows of its input s clean, and would have ended otherwise.
HasChecked(t, s) ==
    \/ t.op = "candidates" /\ s = "features" /\ Done(t) >= 1 /\ ~t.force
    \/ t.op = "labels" /\ s = "candidates" /\ Done(t) >= 1 /\ ~t.force
    \/ t.op = "replay" /\ s \in {"features", "candidates"}
         /\ (Done(t) \in 5..9 \/ "replay" \in t.saved)
    \/ t.op = "run_replay" /\ s \in {"features", "candidates"} /\ Done(t) >= 1 /\ ~t.force

\* t has read s and is still to write what it computes from it.
HasRead(t, s) ==
    LET n == Done(t)
    IN  \/ t.op = "features" /\ s = "bars" /\ n = 3
        \/ t.op = "build_features" /\ s = "bars" /\ n = 1
        \/ t.op = "candidates" /\ s = "features" /\ n = 3
        \/ t.op = "labels" /\ \/ s = "bars" /\ n \in 3..5
                              \/ s = "features" /\ n \in 4..5
                              \/ s = "candidates" /\ n = 5
        \/ t.op = "replay" /\ \/ s = "bars" /\ n \in 6..8
                              \/ s = "features" /\ n \in 7..8
                              \/ s = "candidates" /\ n = 8
        \/ t.op = "run_replay" /\ \/ s = "bars" /\ n \in 2..4
                                  \/ s = "features" /\ n \in 3..4
                                  \/ s = "candidates" /\ n = 4
        \/ t.op = "build_labels" /\ \/ s = "bars" /\ n \in 1..3
                                    \/ s = "features" /\ n \in 2..3

\* t has written a, and may be about to clean its windows.
HasWritten(t, a) ==
    LET n == Done(t)
    IN  \/ t.op = "features" /\ a = "features" /\ n >= 4
        \/ t.op = "build_features" /\ a = "features" /\ n >= 2
        \/ t.op = "candidates" /\ a = "candidates" /\ n >= 4
        \/ t.op = "labels" /\ a = "labels" /\ n >= 6
        \/ t.op = "replay" /\ a = "replay" /\ n = 9
        \/ t.op = "run_replay" /\ a = "replay" /\ n >= 5
        \/ t.op = "build_labels" /\ \/ a = "candidates" /\ n >= 3
                                    \/ a = "labels" /\ n >= 4

\* Nobody else changed anything of d or before it while t ran.
Untouched(t, d) == \A e \in 1..d : e \notin t.touched

\* The range of t, all of it for a feature build, holds d.
Covers(t, d) ==
    /\ InRange(t.range, d)
    /\ t.op = "features" => \A e \in 1..d : InRange(t.range, e)

\* What t computed a from has not the current content on d.
InputOutdated(t, a, d) == \E s \in Inputs(t.op, a) \ {"bars"} : made[s][d] # Current(d)

Saves(t) ==
    /\ t.saved \subseteq Outputs(t.op)
    /\ \A a \in Artifacts : HasWritten(t, a) => a \in t.saved

\* What t was told, read and wrote still holds of the days nobody touched.
CheckStands(t) ==
    \A s \in Artifacts, d \in Days : HasChecked(t, s) /\ Untouched(t, d) => d \notin dirty[s]
ReadStands(t) ==
    \A s \in Sources, d \in Days :
        HasRead(t, s) /\ Untouched(t, d) => t.got[s][d] = Found(s, t.range)[d]
WriteStands(t) ==
    \A a \in Artifacts, d \in Days :
        a \in t.saved /\ Untouched(t, d) /\ Covers(t, d)
            => made[a][d] = Current(d) \/ InputOutdated(t, a, d)

\* No rows without bars.
RowsHaveBars == \A a \in Artifacts, d \in Days : made[a][d] # NoRow => bars[d] > 0
ReadHasBars(t) == \A s \in Sources, d \in Days : t.got[s][d][d] > 0 => bars[d] > 0

\* Rows stay only beside others.
LeftoversHaveRows == \A a \in Artifacts, d \in Days : d \in leftover[a] => made[a][d] # NoRow

\* A range has a start and an end; the build services take none.
Runs(t) ==
    /\ t.range = All \/ t.range[1] <= t.range[2]
    /\ t.op \in {"build_features", "build_labels"} => t.range = All

Sound(t) ==
    /\ OnScript(t)
    /\ Runs(t)
    /\ Saves(t)
    /\ CheckStands(t)
    /\ ReadStands(t)
    /\ WriteStands(t)
    /\ ReadHasBars(t)

PipelineInv ==
    /\ TypeOK
    /\ RowsHaveBars
    /\ LeftoversHaveRows
    /\ \A p \in Procs : Busy(p) => Sound(task[p])

-----------------------------------------------------------------------------
(***************************************************************************)
(* The scripts, entry by entry.                                            *)
(***************************************************************************)

\* What each script has at each place.
LEMMA FeatureEntries ==
    /\ Script("features") \in Seq(Step) /\ Len(Script("features")) = 6
    /\ Script("features")[1] = Do("list", "features")
    /\ Script("features")[2] = Do("need", "bars")
    /\ Script("features")[3] = Do("read", "bars")
    /\ Script("features")[4] = Do("write", "features")
    /\ Script("features")[5] = Do("mark", "features")
    /\ Script("features")[6] = Do("clean", "features")
BY DEF Script, FeatureScript, FeatureBuild, Do, Step, Artifacts, Sources

LEMMA BuildFeatureEntries ==
    /\ Script("build_features") \in Seq(Step) /\ Len(Script("build_features")) = 3
    /\ Script("build_features")[1] = Do("read", "bars")
    /\ Script("build_features")[2] = Do("write", "features")
    /\ Script("build_features")[3] = Do("mark", "features")
BY DEF Script, FeatureBuild, Do, Step, Artifacts, Sources

LEMMA CandidateEntries ==
    /\ Script("candidates") \in Seq(Step) /\ Len(Script("candidates")) = 5
    /\ Script("candidates")[1] = Do("check", "features")
    /\ Script("candidates")[2] = Do("list", "candidates")
    /\ Script("candidates")[3] = Do("read", "features")
    /\ Script("candidates")[4] = Do("write", "candidates")
    /\ Script("candidates")[5] = Do("clean", "candidates")
BY DEF Script, CandidateScript, Do, Step, Artifacts, Sources

LEMMA LabelEntries ==
    /\ Script("labels") \in Seq(Step) /\ Len(Script("labels")) = 7
    /\ Script("labels")[1] = Do("check", "candidates")
    /\ Script("labels")[2] = Do("list", "labels")
    /\ Script("labels")[3] = Do("read", "bars")
    /\ Script("labels")[4] = Do("read", "features")
    /\ Script("labels")[5] = Do("read", "candidates")
    /\ Script("labels")[6] = Do("write", "labels")
    /\ Script("labels")[7] = Do("clean", "labels")
BY DEF Script, LabelScript, ReadAll, Do, Step, Artifacts, Sources

LEMMA BuildLabelEntries ==
    /\ Script("build_labels") \in Seq(Step) /\ Len(Script("build_labels")) = 6
    /\ Script("build_labels")[1] = Do("read", "bars")
    /\ Script("build_labels")[2] = Do("read", "features")
    /\ Script("build_labels")[3] = Do("write", "candidates")
    /\ Script("build_labels")[4] = Do("write", "labels")
    /\ Script("build_labels")[5] = Do("mark", "candidates")
    /\ Script("build_labels")[6] = Do("mark", "labels")
BY DEF Script, LabelBuild, Do, Step, Artifacts, Sources

LEMMA RunReplayEntries ==
    /\ Script("run_replay") \in Seq(Step) /\ Len(Script("run_replay")) = 6
    /\ Script("run_replay")[1] = Do("recheck", "replay")
    /\ Script("run_replay")[2] = Do("read", "bars")
    /\ Script("run_replay")[3] = Do("read", "features")
    /\ Script("run_replay")[4] = Do("read", "candidates")
    /\ Script("run_replay")[5] = Do("write", "replay")
    /\ Script("run_replay")[6] = Do("mark", "replay")
BY DEF Script, PortfolioRun, ReadAll, Do, Step, Artifacts, Sources

LEMMA Joined ==
    ASSUME NEW S, NEW s \in Seq(S), NEW t \in Seq(S)
    PROVE  s \o t \in Seq(S) /\ Len(s \o t) = Len(s) + Len(t)
OBVIOUS

LEMMA ReplayEntries ==
    /\ Script("replay") \in Seq(Step) /\ Len(Script("replay")) = 16
    /\ Script("replay")[1] = Do("window", "bars")
    /\ Script("replay")[2] = Do("check", "features")
    /\ Script("replay")[3] = Do("check", "candidates")
    /\ Script("replay")[4] = Do("list", "replay")
    /\ Script("replay")[5] = Do("recheck", "replay")
    /\ Script("replay")[6] = Do("read", "bars")
    /\ Script("replay")[7] = Do("read", "features")
    /\ Script("replay")[8] = Do("read", "candidates")
    /\ Script("replay")[9] = Do("write", "replay")
    /\ Script("replay")[10] = Do("mark", "replay")
    /\ Script("replay")[11] = Do("recheck", "replay")
    /\ Script("replay")[12] = Do("read", "bars")
    /\ Script("replay")[13] = Do("read", "features")
    /\ Script("replay")[14] = Do("read", "candidates")
    /\ Script("replay")[15] = Do("write", "counterfactual")
    /\ Script("replay")[16] = Do("clean", "replay")
<1>1. /\ PortfolioRun \in Seq(Step) /\ CounterfactualRun \in Seq(Step)
      /\ Len(PortfolioRun) = 6 /\ Len(CounterfactualRun) = 5
  BY DEF PortfolioRun, CounterfactualRun, ReadAll, Do, Step, Artifacts, Sources
<1> DEFINE Opening == <<Do("window", "bars"), Do("check", "features"),
                        Do("check", "candidates"), Do("list", "replay")>>
           Ending == <<Do("clean", "replay")>>
<1>2. Opening \in Seq(Step) /\ Len(Opening) = 4 /\ Ending \in Seq(Step) /\ Len(Ending) = 1
  BY DEF Do, Step, Artifacts, Sources
<1>3. ReplayScript = Opening \o PortfolioRun \o CounterfactualRun \o Ending
  BY DEF ReplayScript
<1>4. ReplayScript \in Seq(Step) /\ Len(ReplayScript) = 16
  <2> HIDE DEF Opening, Ending
  <2> DEFINE Begun == Opening \o PortfolioRun
             Most == Begun \o CounterfactualRun
  <2>1. Begun \in Seq(Step) /\ Len(Begun) = Len(Opening) + Len(PortfolioRun)
    BY <1>1, <1>2, Joined, Zenon
  <2>2. Most \in Seq(Step) /\ Len(Most) = Len(Begun) + Len(CounterfactualRun)
    <3> HIDE DEF Begun
    <3> QED
      BY <1>1, <2>1, Joined, Zenon
  <2>3. Most \o Ending \in Seq(Step) /\ Len(Most \o Ending) = Len(Most) + Len(Ending)
    <3> HIDE DEF Most
    <3> QED
      BY <1>2, <2>2, Joined, Zenon
  <2>4. ReplayScript = Most \o Ending
    BY <1>3
  <2> HIDE DEF Begun, Most
  <2> QED
    BY <1>1, <1>2, <2>1, <2>2, <2>3, <2>4
<1> QED
  BY <1>4 DEF Script, ReplayScript, PortfolioRun, CounterfactualRun, ReadAll

-----------------------------------------------------------------------------
(***************************************************************************)
(* Where an operation is in its script.                                    *)
(***************************************************************************)

\* The places of each kind of step: the script, the steps before it, and what it is of.
Place(what, op, n, of) ==
    /\ what = "check" => \/ op = "candidates" /\ of = "features" /\ n = 0
                         \/ op = "labels" /\ of = "candidates" /\ n = 0
                         \/ op = "replay" /\ of = "features" /\ n = 1
                         \/ op = "replay" /\ of = "candidates" /\ n = 2
    /\ what = "need" => op = "features" /\ of = "bars" /\ n = 1
    /\ what = "window" => op = "replay" /\ of = "bars" /\ n = 0
    /\ what = "list" => \/ op = "features" /\ of = "features" /\ n = 0
                        \/ op = "candidates" /\ of = "candidates" /\ n = 1
                        \/ op = "labels" /\ of = "labels" /\ n = 1
                        \/ op = "replay" /\ of = "replay" /\ n = 3
    /\ what = "recheck" => \/ op = "run_replay" /\ of = "replay" /\ n = 0
                           \/ op = "replay" /\ of = "replay" /\ n \in {4, 10}
    /\ what = "read" => \/ op = "features" /\ of = "bars" /\ n = 2
                        \/ op = "build_features" /\ of = "bars" /\ n = 0
                        \/ op = "candidates" /\ of = "features" /\ n = 2
                        \/ op = "labels" /\ of = "bars" /\ n = 2
                        \/ op = "labels" /\ of = "features" /\ n = 3
                        \/ op = "labels" /\ of = "candidates" /\ n = 4
                        \/ op = "build_labels" /\ of = "bars" /\ n = 0
                        \/ op = "build_labels" /\ of = "features" /\ n = 1
                        \/ op = "run_replay" /\ of = "bars" /\ n = 1
                        \/ op = "run_replay" /\ of = "features" /\ n = 2
                        \/ op = "run_replay" /\ of = "candidates" /\ n = 3
                        \/ op = "replay" /\ of = "bars" /\ n \in {5, 11}
                        \/ op = "replay" /\ of = "features" /\ n \in {6, 12}
                        \/ op = "replay" /\ of = "candidates" /\ n \in {7, 13}
    /\ what = "write" => \/ op = "features" /\ of = "features" /\ n = 3
                         \/ op = "build_features" /\ of = "features" /\ n = 1
                         \/ op = "candidates" /\ of = "candidates" /\ n = 3
                         \/ op = "labels" /\ of = "labels" /\ n = 5
                         \/ op = "build_labels" /\ of = "candidates" /\ n = 2
                         \/ op = "build_labels" /\ of = "labels" /\ n = 3
                         \/ op = "run_replay" /\ of = "replay" /\ n = 4
                         \/ op = "replay" /\ of = "replay" /\ n = 8
                         \/ op = "replay" /\ of = "counterfactual" /\ n = 14
    /\ what = "mark" => \/ op = "features" /\ of = "features" /\ n = 4
                        \/ op = "build_features" /\ of = "features" /\ n = 2
                        \/ op = "build_labels" /\ of = "candidates" /\ n = 4
                        \/ op = "build_labels" /\ of = "labels" /\ n = 5
                        \/ op = "run_replay" /\ of = "replay" /\ n = 5
                        \/ op = "replay" /\ of = "replay" /\ n = 9
    /\ what = "clean" => \/ op = "features" /\ of = "features" /\ n = 5
                         \/ op = "candidates" /\ of = "candidates" /\ n = 4
                         \/ op = "labels" /\ of = "labels" /\ n = 6
                         \/ op = "replay" /\ of = "replay" /\ n = 15

What == {"check", "need", "window", "list", "recheck", "read", "write", "mark", "clean"}

\* The scripts have no other steps.
LEMMA Places ==
    ASSUME NEW op \in Ops, NEW n \in Nat, n < Len(Script(op))
    PROVE  /\ Place(Script(op)[n + 1].do, op, n, Script(op)[n + 1].of)
           /\ Script(op)[n + 1].do \in What
           /\ Script(op) \in Seq(Step)
<1>1. CASE op = "features"
  <2> DEFINE s == Script(op)
  <2>1. n < Len(s)
    OBVIOUS
  <2>2. /\ s \in Seq(Step) /\ Len(s) = 6
        /\ s[1] = Do("list", "features")
        /\ s[2] = Do("need", "bars")
        /\ s[3] = Do("read", "bars")
        /\ s[4] = Do("write", "features")
        /\ s[5] = Do("mark", "features")
        /\ s[6] = Do("clean", "features")
    BY <1>1, FeatureEntries, Zenon
  <2> HIDE DEF s, Step
  <2>3. n = 0 \/ n = 1 \/ n = 2 \/ n = 3 \/ n = 4 \/ n = 5
    BY <2>1, <2>2
  <2>4. PICK h : h = s[n + 1]
    OBVIOUS
  <2>5. /\ n = 0 => h.do = "list" /\ h.of = "features"
        /\ n = 1 => h.do = "need" /\ h.of = "bars"
        /\ n = 2 => h.do = "read" /\ h.of = "bars"
        /\ n = 3 => h.do = "write" /\ h.of = "features"
        /\ n = 4 => h.do = "mark" /\ h.of = "features"
        /\ n = 5 => h.do = "clean" /\ h.of = "features"
    BY <2>2, <2>4 DEF Do
  <2>6. Place(h.do, op, n, h.of) /\ h.do \in What
    BY <2>3, <2>5, <1>1 DEF Place, What
  <2> QED
    BY <2>2, <2>4, <2>6 DEF s
<1>2. CASE op = "build_features"
  <2> DEFINE s == Script(op)
  <2>1. n < Len(s)
    OBVIOUS
  <2>2. /\ s \in Seq(Step) /\ Len(s) = 3
        /\ s[1] = Do("read", "bars")
        /\ s[2] = Do("write", "features")
        /\ s[3] = Do("mark", "features")
    BY <1>2, BuildFeatureEntries, Zenon
  <2> HIDE DEF s, Step
  <2>3. n = 0 \/ n = 1 \/ n = 2
    BY <2>1, <2>2
  <2>4. PICK h : h = s[n + 1]
    OBVIOUS
  <2>5. /\ n = 0 => h.do = "read" /\ h.of = "bars"
        /\ n = 1 => h.do = "write" /\ h.of = "features"
        /\ n = 2 => h.do = "mark" /\ h.of = "features"
    BY <2>2, <2>4 DEF Do
  <2>6. Place(h.do, op, n, h.of) /\ h.do \in What
    BY <2>3, <2>5, <1>2 DEF Place, What
  <2> QED
    BY <2>2, <2>4, <2>6 DEF s
<1>3. CASE op = "candidates"
  <2> DEFINE s == Script(op)
  <2>1. n < Len(s)
    OBVIOUS
  <2>2. /\ s \in Seq(Step) /\ Len(s) = 5
        /\ s[1] = Do("check", "features")
        /\ s[2] = Do("list", "candidates")
        /\ s[3] = Do("read", "features")
        /\ s[4] = Do("write", "candidates")
        /\ s[5] = Do("clean", "candidates")
    BY <1>3, CandidateEntries, Zenon
  <2> HIDE DEF s, Step
  <2>3. n = 0 \/ n = 1 \/ n = 2 \/ n = 3 \/ n = 4
    BY <2>1, <2>2
  <2>4. PICK h : h = s[n + 1]
    OBVIOUS
  <2>5. /\ n = 0 => h.do = "check" /\ h.of = "features"
        /\ n = 1 => h.do = "list" /\ h.of = "candidates"
        /\ n = 2 => h.do = "read" /\ h.of = "features"
        /\ n = 3 => h.do = "write" /\ h.of = "candidates"
        /\ n = 4 => h.do = "clean" /\ h.of = "candidates"
    BY <2>2, <2>4 DEF Do
  <2>6. Place(h.do, op, n, h.of) /\ h.do \in What
    BY <2>3, <2>5, <1>3 DEF Place, What
  <2> QED
    BY <2>2, <2>4, <2>6 DEF s
<1>4. CASE op = "labels"
  <2> DEFINE s == Script(op)
  <2>1. n < Len(s)
    OBVIOUS
  <2>2. /\ s \in Seq(Step) /\ Len(s) = 7
        /\ s[1] = Do("check", "candidates")
        /\ s[2] = Do("list", "labels")
        /\ s[3] = Do("read", "bars")
        /\ s[4] = Do("read", "features")
        /\ s[5] = Do("read", "candidates")
        /\ s[6] = Do("write", "labels")
        /\ s[7] = Do("clean", "labels")
    BY <1>4, LabelEntries, Zenon
  <2> HIDE DEF s, Step
  <2>3. n = 0 \/ n = 1 \/ n = 2 \/ n = 3 \/ n = 4 \/ n = 5 \/ n = 6
    BY <2>1, <2>2
  <2>4. PICK h : h = s[n + 1]
    OBVIOUS
  <2>5. /\ n = 0 => h.do = "check" /\ h.of = "candidates"
        /\ n = 1 => h.do = "list" /\ h.of = "labels"
        /\ n = 2 => h.do = "read" /\ h.of = "bars"
        /\ n = 3 => h.do = "read" /\ h.of = "features"
        /\ n = 4 => h.do = "read" /\ h.of = "candidates"
        /\ n = 5 => h.do = "write" /\ h.of = "labels"
        /\ n = 6 => h.do = "clean" /\ h.of = "labels"
    BY <2>2, <2>4 DEF Do
  <2>6. Place(h.do, op, n, h.of) /\ h.do \in What
    BY <2>3, <2>5, <1>4 DEF Place, What
  <2> QED
    BY <2>2, <2>4, <2>6 DEF s
<1>5. CASE op = "build_labels"
  <2> DEFINE s == Script(op)
  <2>1. n < Len(s)
    OBVIOUS
  <2>2. /\ s \in Seq(Step) /\ Len(s) = 6
        /\ s[1] = Do("read", "bars")
        /\ s[2] = Do("read", "features")
        /\ s[3] = Do("write", "candidates")
        /\ s[4] = Do("write", "labels")
        /\ s[5] = Do("mark", "candidates")
        /\ s[6] = Do("mark", "labels")
    BY <1>5, BuildLabelEntries, Zenon
  <2> HIDE DEF s, Step
  <2>3. n = 0 \/ n = 1 \/ n = 2 \/ n = 3 \/ n = 4 \/ n = 5
    BY <2>1, <2>2
  <2>4. PICK h : h = s[n + 1]
    OBVIOUS
  <2>5. /\ n = 0 => h.do = "read" /\ h.of = "bars"
        /\ n = 1 => h.do = "read" /\ h.of = "features"
        /\ n = 2 => h.do = "write" /\ h.of = "candidates"
        /\ n = 3 => h.do = "write" /\ h.of = "labels"
        /\ n = 4 => h.do = "mark" /\ h.of = "candidates"
        /\ n = 5 => h.do = "mark" /\ h.of = "labels"
    BY <2>2, <2>4 DEF Do
  <2>6. Place(h.do, op, n, h.of) /\ h.do \in What
    BY <2>3, <2>5, <1>5 DEF Place, What
  <2> QED
    BY <2>2, <2>4, <2>6 DEF s
<1>6. CASE op = "run_replay"
  <2> DEFINE s == Script(op)
  <2>1. n < Len(s)
    OBVIOUS
  <2>2. /\ s \in Seq(Step) /\ Len(s) = 6
        /\ s[1] = Do("recheck", "replay")
        /\ s[2] = Do("read", "bars")
        /\ s[3] = Do("read", "features")
        /\ s[4] = Do("read", "candidates")
        /\ s[5] = Do("write", "replay")
        /\ s[6] = Do("mark", "replay")
    BY <1>6, RunReplayEntries, Zenon
  <2> HIDE DEF s, Step
  <2>3. n = 0 \/ n = 1 \/ n = 2 \/ n = 3 \/ n = 4 \/ n = 5
    BY <2>1, <2>2
  <2>4. PICK h : h = s[n + 1]
    OBVIOUS
  <2>5. /\ n = 0 => h.do = "recheck" /\ h.of = "replay"
        /\ n = 1 => h.do = "read" /\ h.of = "bars"
        /\ n = 2 => h.do = "read" /\ h.of = "features"
        /\ n = 3 => h.do = "read" /\ h.of = "candidates"
        /\ n = 4 => h.do = "write" /\ h.of = "replay"
        /\ n = 5 => h.do = "mark" /\ h.of = "replay"
    BY <2>2, <2>4 DEF Do
  <2>6. Place(h.do, op, n, h.of) /\ h.do \in What
    BY <2>3, <2>5, <1>6 DEF Place, What
  <2> QED
    BY <2>2, <2>4, <2>6 DEF s
<1>7. CASE op = "replay"
  <2> DEFINE s == Script(op)
  <2>1. n < Len(s)
    OBVIOUS
  <2>2. /\ s \in Seq(Step) /\ Len(s) = 16
        /\ s[1] = Do("window", "bars")
        /\ s[2] = Do("check", "features")
        /\ s[3] = Do("check", "candidates")
        /\ s[4] = Do("list", "replay")
        /\ s[5] = Do("recheck", "replay")
        /\ s[6] = Do("read", "bars")
        /\ s[7] = Do("read", "features")
        /\ s[8] = Do("read", "candidates")
        /\ s[9] = Do("write", "replay")
        /\ s[10] = Do("mark", "replay")
        /\ s[11] = Do("recheck", "replay")
        /\ s[12] = Do("read", "bars")
        /\ s[13] = Do("read", "features")
        /\ s[14] = Do("read", "candidates")
        /\ s[15] = Do("write", "counterfactual")
        /\ s[16] = Do("clean", "replay")
    BY <1>7, ReplayEntries, Zenon
  <2> HIDE DEF s, Step
  <2>3. \/ n = 0 \/ n = 1 \/ n = 2 \/ n = 3 \/ n = 4 \/ n = 5 \/ n = 6 \/ n = 7
      \/ n = 8 \/ n = 9 \/ n = 10 \/ n = 11 \/ n = 12 \/ n = 13 \/ n = 14 \/ n = 15
    BY <2>1, <2>2
  <2>4. PICK h : h = s[n + 1]
    OBVIOUS
  <2>5. /\ n = 0 => h.do = "window" /\ h.of = "bars"
        /\ n = 1 => h.do = "check" /\ h.of = "features"
        /\ n = 2 => h.do = "check" /\ h.of = "candidates"
        /\ n = 3 => h.do = "list" /\ h.of = "replay"
        /\ n = 4 => h.do = "recheck" /\ h.of = "replay"
        /\ n = 5 => h.do = "read" /\ h.of = "bars"
        /\ n = 6 => h.do = "read" /\ h.of = "features"
        /\ n = 7 => h.do = "read" /\ h.of = "candidates"
        /\ n = 8 => h.do = "write" /\ h.of = "replay"
        /\ n = 9 => h.do = "mark" /\ h.of = "replay"
        /\ n = 10 => h.do = "recheck" /\ h.of = "replay"
        /\ n = 11 => h.do = "read" /\ h.of = "bars"
        /\ n = 12 => h.do = "read" /\ h.of = "features"
        /\ n = 13 => h.do = "read" /\ h.of = "candidates"
        /\ n = 14 => h.do = "write" /\ h.of = "counterfactual"
        /\ n = 15 => h.do = "clean" /\ h.of = "replay"
    BY <2>2, <2>4 DEF Do
  <2>6. Place(h.do, op, n, h.of) /\ h.do \in What
    BY <2>3, <2>5, <1>7 DEF Place, What
  <2> QED
    BY <2>2, <2>4, <2>6 DEF s
<1> QED
  BY <1>1, <1>2, <1>3, <1>4, <1>5, <1>6, <1>7 DEF Ops

LEMMA ScriptTyped ==
    ASSUME NEW op \in Ops
    PROVE  Script(op) \in Seq(Step) /\ Len(Script(op)) \in Nat
<1>1. Script(op) \in Seq(Step)
  BY FeatureEntries, BuildFeatureEntries, CandidateEntries, LabelEntries, BuildLabelEntries,
     RunReplayEntries, ReplayEntries, Zenon DEF Ops
<1> HIDE DEF Step
<1> QED
  BY <1>1

\* An operation does the next step of its script, and goes on with the rest of it.
LEMMA Suffix ==
    ASSUME NEW t, t.op \in Ops, t.todo \in Seq(Step), t.todo # <<>>, OnScript(t)
    PROVE  /\ Done(t) \in Nat /\ Done(t) < Len(Script(t.op))
           /\ Head(t.todo) = Script(t.op)[Done(t) + 1]
           /\ Head(t.todo) \in Step
           /\ Place(Head(t.todo).do, t.op, Done(t), Head(t.todo).of)
           /\ Tail(t.todo) \in Seq(Step)
           /\ Len(t.todo) \in Nat /\ Len(t.todo) > 0 /\ Len(Tail(t.todo)) = Len(t.todo) - 1
           /\ \A k \in 1..Len(Tail(t.todo)) : Tail(t.todo)[k] = t.todo[k + 1]
<1> HIDE DEF Step
<1>1. Len(t.todo) \in Nat /\ Len(t.todo) > 0 /\ Tail(t.todo) \in Seq(Step)
  OBVIOUS
<1>2. Len(Tail(t.todo)) = Len(t.todo) - 1 /\ Head(t.todo) = t.todo[1] /\ Head(t.todo) \in Step
  OBVIOUS
<1>3. \A k \in 1..Len(Tail(t.todo)) : Tail(t.todo)[k] = t.todo[k + 1]
  BY HeadTailProperties
<1>4. Script(t.op) \in Seq(Step) /\ Len(Script(t.op)) \in Nat
  BY ScriptTyped, Zenon
<1>5. Done(t) \in Nat /\ Done(t) < Len(Script(t.op))
  <2> DEFINE all == Len(Script(t.op))
             left == Len(t.todo)
  <2>1. all \in Nat /\ left \in Nat /\ left > 0
    BY <1>1, <1>4
  <2>2. left <= all /\ Done(t) = all - left
    BY DEF Done, OnScript
  <2> HIDE DEF all, left
  <2>3. Done(t) \in Nat /\ Done(t) < all
    BY <2>1, <2>2
  <2> QED
    BY <2>3 DEF all
<1>6. Head(t.todo) = Script(t.op)[Done(t) + 1]
  BY <1>1, <1>2 DEF OnScript
<1>7. Place(Script(t.op)[Done(t) + 1].do, t.op, Done(t), Script(t.op)[Done(t) + 1].of)
  BY <1>5, Places
<1> QED
  BY <1>1, <1>2, <1>3, <1>5, <1>6, <1>7

LEMMA Onwards ==
    ASSUME NEW t, NEW u, t.op \in Ops, t.todo \in Seq(Step), t.todo # <<>>, OnScript(t),
           u.op = t.op, u.todo = Tail(t.todo)
    PROVE  OnScript(u) /\ Done(u) = Done(t) + 1
<1> HIDE DEF Step
<1>1. Len(Script(t.op)) \in Nat
  BY ScriptTyped, Zenon
<1>2. Done(u) = Done(t) + 1 /\ Len(u.todo) <= Len(Script(u.op))
  <2> DEFINE all == Len(Script(t.op))
             left == Len(t.todo)
             more == Len(u.todo)
  <2>1. all \in Nat /\ left \in Nat /\ left > 0 /\ more = left - 1
    BY <1>1, Suffix
  <2>2. left <= all /\ Done(t) = all - left /\ Done(u) = all - more
    BY DEF Done, OnScript
  <2> HIDE DEF all, left, more
  <2>3. Done(u) = Done(t) + 1 /\ more <= all
    BY <2>1, <2>2
  <2> QED
    BY <2>3 DEF all, more
<1>3. \A k \in 1..Len(Tail(t.todo)) : u.todo[k] = Script(u.op)[Done(u) + k]
  <2> SUFFICES ASSUME NEW k \in 1..Len(Tail(t.todo))
               PROVE  u.todo[k] = Script(u.op)[Done(u) + k]
    OBVIOUS
  <2>1. k \in Nat /\ k + 1 \in 1..Len(t.todo) /\ Tail(t.todo)[k] = t.todo[k + 1]
    BY Suffix
  <2>2. t.todo[k + 1] = Script(t.op)[Done(t) + (k + 1)]
    BY <2>1 DEF OnScript
  <2>3. Done(t) \in Nat
    BY Suffix
  <2>4. Done(t) + (k + 1) = Done(u) + k
    BY <2>1, <2>3, <1>2
  <2> QED
    BY <2>1, <2>2, <2>4
<1> QED
  BY <1>1, <1>2, <1>3, Suffix DEF OnScript

-----------------------------------------------------------------------------
(***************************************************************************)
(* What an operation knows from its place.                                 *)
(***************************************************************************)

\* Whether t takes rows of s that are dirty, by its own choice.
Takes(t, s) == t.force \/ t.op = "build_labels" \/ (t.op = "labels" /\ s = "features")

\* A step by which t goes on from its place to u.
StepsTo(t, u, what, of) ==
    /\ t.op \in Ops /\ u.op = t.op /\ u.force = t.force
    /\ Done(t) \in Nat /\ Done(u) = Done(t) + 1
    /\ what \in What /\ Place(what, t.op, Done(t), of)
    /\ u.saved = (IF what = "write" THEN t.saved \union {of} ELSE t.saved)

\* A check is known to have been passed after a check or a recheck only.
LEMMA NextChecked ==
    ASSUME NEW t, NEW u, NEW what, NEW of, NEW s, StepsTo(t, u, what, of), HasChecked(u, s)
    PROVE  \/ HasChecked(t, s)
           \/ what = "check" /\ s = of /\ ~t.force
           \/ what = "recheck" /\ s \in {"features", "candidates"}
                /\ (t.op = "run_replay" => ~t.force)
<1> DEFINE n == Done(t)
<1>1. n \in Nat /\ Done(u) = n + 1
  BY DEF StepsTo
<1>2. CASE t.op = "candidates" \/ t.op = "labels" \/ t.op = "run_replay"
  <2> HIDE DEF n
  <2>1. n >= 1 \/ n = 0
    BY <1>1
  <2> QED
    BY <1>1, <1>2, <2>1 DEF StepsTo, HasChecked, Place, What, n
<1>3. CASE t.op = "replay"
  <2>1. s \in {"features", "candidates"}
    BY <1>3 DEF HasChecked, StepsTo
  <2>2. CASE n + 1 \in 5..9
    <3>1. n \in 5..9 \/ n = 4
      BY <2>2, <1>1
    <3>2. n = 4 => what = "recheck"
      BY <1>3 DEF StepsTo, Place, What
    <3> QED
      BY <3>1, <3>2, <2>1, <1>3 DEF HasChecked
  <2>3. CASE "replay" \in u.saved
    <3>1. "replay" \in t.saved \/ (what = "write" /\ of = "replay")
      BY <2>3 DEF StepsTo
    <3>2. what = "write" /\ of = "replay" => n = 8
      BY <1>3 DEF StepsTo, Place
    <3> QED
      BY <3>1, <3>2, <2>1, <1>3 DEF HasChecked
  <2> QED
    BY <2>2, <2>3, <1>1, <1>3 DEF HasChecked, StepsTo
<1> QED
  BY <1>2, <1>3 DEF HasChecked, StepsTo

LEMMA NextRead ==
    ASSUME NEW t, NEW u, NEW what, NEW of, NEW s, StepsTo(t, u, what, of), HasRead(u, s)
    PROVE  HasRead(t, s) \/ (what = "read" /\ of = s)
<1> DEFINE n == Done(t)
           m == Done(u)
<1>1. n \in Nat /\ m = n + 1 /\ t.op \in Ops /\ u.op = t.op
  BY DEF StepsTo
<1>2. what \in What /\ Place(what, t.op, n, of)
  BY DEF StepsTo
<1>3. CASE t.op = "features" \/ t.op = "build_features" \/ t.op = "candidates"
  <2>1. m = 3 => n = 2
    BY <1>1
  <2>2. m = 1 => n = 0
    BY <1>1
  <2>3. m = 3 \/ m = 1
    BY <1>1, <1>3 DEF HasRead
  <2> QED
    BY <1>1, <1>2, <1>3, <2>1, <2>2, <2>3 DEF HasRead, Place, What
<1>4. CASE t.op = "labels"
  <2>1. m \in 3..5 => n \in 3..5 \/ n = 2
    BY <1>1
  <2>2. m \in 4..5 => n \in 4..5 \/ n = 3
    BY <1>1
  <2>3. m = 5 => n = 4
    BY <1>1
  <2> QED
    BY <1>1, <1>2, <1>4, <2>1, <2>2, <2>3 DEF HasRead, Place, What
<1>5. CASE t.op = "replay"
  <2>1. m \in 6..8 => n \in 6..8 \/ n = 5
    BY <1>1
  <2>2. m \in 7..8 => n \in 7..8 \/ n = 6
    BY <1>1
  <2>3. m = 8 => n = 7
    BY <1>1
  <2> QED
    BY <1>1, <1>2, <1>5, <2>1, <2>2, <2>3 DEF HasRead, Place, What
<1>6. CASE t.op = "run_replay"
  <2>1. m \in 2..4 => n \in 2..4 \/ n = 1
    BY <1>1
  <2>2. m \in 3..4 => n \in 3..4 \/ n = 2
    BY <1>1
  <2>3. m = 4 => n = 3
    BY <1>1
  <2> QED
    BY <1>1, <1>2, <1>6, <2>1, <2>2, <2>3 DEF HasRead, Place, What
<1>7. CASE t.op = "build_labels"
  <2>1. m \in 1..3 => n \in 1..3 \/ n = 0
    BY <1>1
  <2>2. m \in 2..3 => n \in 2..3 \/ n = 1
    BY <1>1
  <2> QED
    BY <1>1, <1>2, <1>7, <2>1, <2>2 DEF HasRead, Place, What
<1> QED
  BY <1>1, <1>3, <1>4, <1>5, <1>6, <1>7 DEF Ops

LEMMA NextWritten ==
    ASSUME NEW t, NEW u, NEW what, NEW of, NEW a, StepsTo(t, u, what, of), HasWritten(u, a)
    PROVE  HasWritten(t, a) \/ (what = "write" /\ of = a)
<1> DEFINE n == Done(t)
           m == Done(u)
<1>1. n \in Nat /\ m = n + 1 /\ t.op \in Ops /\ u.op = t.op
  BY DEF StepsTo
<1>2. what \in What /\ Place(what, t.op, n, of)
  BY DEF StepsTo
<1>3. /\ m >= 2 => n >= 2 \/ n = 1
      /\ m >= 3 => n >= 3 \/ n = 2
      /\ m >= 4 => n >= 4 \/ n = 3
      /\ m >= 5 => n >= 5 \/ n = 4
      /\ m >= 6 => n >= 6 \/ n = 5
      /\ m = 9 => n = 8
  BY <1>1
<1>4. CASE t.op \in {"features", "build_features", "candidates"}
  BY <1>1, <1>2, <1>3, <1>4 DEF HasWritten, Place, What
<1>5. CASE t.op \in {"labels", "replay"}
  BY <1>1, <1>2, <1>3, <1>5 DEF HasWritten, Place, What
<1>6. CASE t.op \in {"run_replay", "build_labels"}
  BY <1>1, <1>2, <1>3, <1>6 DEF HasWritten, Place, What
<1> QED
  BY <1>1, <1>4, <1>5, <1>6 DEF Ops

\* An operation that writes has read all it computes from, and has checked or takes it.
LEMMA AtWrite ==
    ASSUME NEW t, NEW of, t.op \in Ops, Done(t) \in Nat, Place("write", t.op, Done(t), of)
    PROVE  /\ of \in Outputs(t.op) /\ of \in Artifacts \union {"counterfactual"}
           /\ of \in Artifacts =>
                /\ \A s \in Inputs(t.op, of) : HasRead(t, s)
                /\ \A s \in Inputs(t.op, of) \ {"bars"} : HasChecked(t, s) \/ Takes(t, s)
<1>1. of \in Outputs(t.op) /\ of \in Artifacts \union {"counterfactual"}
  BY DEF Place, Outputs, Artifacts
<1>2. ASSUME of \in Artifacts, NEW s \in Inputs(t.op, of)
      PROVE  HasRead(t, s)
  BY <1>2 DEF Place, Inputs, HasRead, Artifacts, Sources
<1>3. ASSUME of \in Artifacts, NEW s \in Inputs(t.op, of) \ {"bars"}
      PROVE  HasChecked(t, s) \/ Takes(t, s)
  BY <1>3 DEF Place, Inputs, HasChecked, Takes, Artifacts, Sources
<1> QED
  BY <1>1, <1>2, <1>3

\* An operation that cleans windows has written what they are of.
LEMMA AtMark ==
    ASSUME NEW t, NEW of, t.op \in Ops, Done(t) \in Nat, Place("mark", t.op, Done(t), of)
    PROVE  /\ of \in Artifacts /\ HasWritten(t, of)
           /\ \A s \in Inputs(t.op, of) \ {"bars"} : HasChecked(t, s) \/ Takes(t, s)
<1>1. of \in Artifacts /\ HasWritten(t, of)
  BY DEF Place, HasWritten, Artifacts
<1>2. ASSUME NEW s \in Inputs(t.op, of) \ {"bars"}
      PROVE  HasChecked(t, s) \/ Takes(t, s)
  BY <1>2 DEF Place, Inputs, HasChecked, Takes, Artifacts, Sources
<1> QED
  BY <1>1, <1>2

LEMMA AtClean ==
    ASSUME NEW t, NEW of, t.op \in Ops, Done(t) \in Nat, Place("clean", t.op, Done(t), of)
    PROVE  /\ of \in Artifacts
           /\ HasWritten(t, of) \/ (t.op = "replay" /\ of = "replay")
           /\ of \in t.saved =>
                \A s \in Inputs(t.op, of) \ {"bars"} : HasChecked(t, s) \/ Takes(t, s)
<1>1. of \in Artifacts /\ (HasWritten(t, of) \/ (t.op = "replay" /\ of = "replay"))
  BY DEF Place, HasWritten, Artifacts
<1>2. ASSUME of \in t.saved, NEW s \in Inputs(t.op, of) \ {"bars"}
      PROVE  HasChecked(t, s) \/ Takes(t, s)
  BY <1>2 DEF Place, Inputs, HasChecked, Takes, Artifacts, Sources
<1> QED
  BY <1>1, <1>2

-----------------------------------------------------------------------------
(***************************************************************************)
(* Types, and what the helpers return.                                     *)
(***************************************************************************)

LEMMA Fields ==
    ASSUME NEW t \in Task
    PROVE  /\ t.op \in Ops /\ t.range \in (Days \X Days) \union {All} /\ t.force \in BOOLEAN
           /\ t.todo \in Seq(Step) /\ t.before \in SUBSET Days
           /\ t.got \in [Sources -> [Days -> Row]] /\ t.beside \in SUBSET Days
           /\ t.saved \in SUBSET (Artifacts \union {"counterfactual"})
           /\ t.touched \in SUBSET Days
BY DEF Task

LEMMA IdleIsTask == Idle \in Task /\ Idle.todo = <<>>
<1>1. 0 \in Revision
  BY SizesAssumption DEF Revision
<1>2. Nothing \in [Sources -> [Days -> Row]]
  BY <1>1 DEF Nothing, NoRow, Row
<1>3. <<>> \in Seq(Step)
  OBVIOUS
<1> QED
  BY <1>2, <1>3 DEF Idle, Task, Ops

LEMMA FoundIsTyped ==
    ASSUME TypeOK, NEW s \in Sources, NEW range
    PROVE  Found(s, range) \in [Days -> Row]
<1>1. 0 \in Revision
  BY SizesAssumption DEF Revision
<1> DEFINE seen == [d \in Days |-> IF InRange(range, d) THEN bars[d] ELSE 0]
<1>2. seen \in [Days -> Revision]
  BY <1>1 DEF TypeOK
<1>3. \A d \in Days : UpTo(seen, d) \in Row
  <2> HIDE DEF seen
  <2> QED
    BY <1>1, <1>2 DEF UpTo, Row
<1>4. s # "bars" => \A d \in Days : made[s][d] \in Row
  BY DEF TypeOK, Sources, Artifacts
<1>5. NoRow \in Row
  BY <1>1 DEF NoRow, Row
<1> HIDE DEF seen
<1>6. Found(s, range) = [d \in Days |-> CASE ~InRange(range, d) -> NoRow
                                        [] InRange(range, d) /\ s = "bars" -> UpTo(seen, d)
                                        [] OTHER -> made[s][d]]
  BY DEF Found, seen
<1> QED
  BY <1>3, <1>4, <1>5, <1>6

\* Each artifact is computed from something, of the sources.
LEMMA SomeInputs ==
    ASSUME NEW op, NEW a \in Artifacts, NEW d, NEW e
    PROVE  /\ InputsOf(op, a, d, e) \subseteq Inputs(op, a)
           /\ InputsOf(op, a, d, e) # {}
           /\ Inputs(op, a) \subseteq Sources
<1>1. a \in {"features", "candidates", "labels", "replay"}
  BY DEF Artifacts
<1>2. Inputs(op, a) \subseteq Sources
  BY <1>1 DEF Inputs, Sources
<1>3. InputsOf(op, a, d, e) \subseteq Inputs(op, a)
  BY DEF InputsOf
<1>4. "features" \in InputsOf(op, a, d, e) \/ "bars" \in InputsOf(op, a, d, e)
  BY <1>1 DEF InputsOf, Inputs, Sources
<1> QED
  BY <1>2, <1>3, <1>4

\* A computed row is that of one of its inputs, on each day, and no newer than any.
LEMMA ComputedIs ==
    ASSUME NEW t \in Task, NEW a \in Artifacts, NEW d \in Days
    PROVE  /\ Computed(t, a, d) \in Row
           /\ \A e \in Days :
                IF e > d THEN Computed(t, a, d)[e] = 0
                ELSE /\ \E s \in InputsOf(t.op, a, d, e) : Computed(t, a, d)[e] = t.got[s][d][e]
                     /\ \A s \in InputsOf(t.op, a, d, e) :
                           Computed(t, a, d)[e] <= t.got[s][d][e]
<1> DEFINE Of3(e) == {t.got[s][d][e] : s \in InputsOf(t.op, a, d, e)}
<1>1. Computed(t, a, d) = [e \in Days |-> IF e > d THEN 0 ELSE Min(Of3(e))]
  BY DEF Computed
<1>2. ASSUME NEW e \in Days
      PROVE  /\ Min(Of3(e)) \in Revision
             /\ \E s \in InputsOf(t.op, a, d, e) : Min(Of3(e)) = t.got[s][d][e]
             /\ \A s \in InputsOf(t.op, a, d, e) : Min(Of3(e)) <= t.got[s][d][e]
  <2>1. \A s \in InputsOf(t.op, a, d, e) : t.got[s][d][e] \in Revision
    <3>1. \A s \in Sources : t.got[s][d] \in Row
      BY Fields
    <3> QED
      BY <3>1, SomeInputs DEF Row
  <2>2. Of3(e) \in SUBSET (0..MaxUpserts) /\ Of3(e) # {}
    BY <2>1, SomeInputs DEF Revision
  <2>3. Min(Of3(e)) \in Of3(e) /\ \A y \in Of3(e) : Min(Of3(e)) <= y
    <3> HIDE DEF Of3
    <3> QED
      BY <2>2, MinIsLeast, SizesAssumption
  <2> QED
    BY <2>1, <2>3
<1> HIDE DEF Of3
<1>3. 0 \in Revision
  BY SizesAssumption DEF Revision
<1>4. Computed(t, a, d) \in Row
  BY <1>1, <1>2, <1>3 DEF Row
<1> QED
  BY <1>1, <1>2, <1>4

\* What a change does to the tasks.
LEMMA ChangeTasks ==
    ASSUME TypeOK, NEW p \in Procs, NEW t \in Task, NEW days \in SUBSET Days,
           Change(p, t, days)
    PROVE  /\ task' \in [Procs -> Task]
           /\ task'[p] = (IF t.todo = <<>> THEN Idle ELSE t)
           /\ \A q \in Procs \ {p} :
                task'[q] = IF Busy(q) THEN [task[q] EXCEPT !.touched = @ \union days]
                                      ELSE task[q]
<1>1. \A q \in Procs : task[q] \in Task
  BY DEF TypeOK
<1>2. \A q \in Procs : [task[q] EXCEPT !.touched = @ \union days] \in Task
  BY <1>1 DEF Task
<1> QED
  BY <1>1, <1>2, IdleIsTask DEF Change

LEMMA EndTasks ==
    ASSUME TypeOK, NEW p \in Procs, End(p)
    PROVE  /\ task' \in [Procs -> Task]
           /\ task'[p] = Idle
           /\ \A q \in Procs \ {p} : task'[q] = task[q]
BY IdleIsTask DEF TypeOK, End

\* Rows that are found have bars.
LEMMA FoundHasBars ==
    ASSUME RowsHaveBars, NEW s \in Sources, NEW range, NEW d \in Days,
           Found(s, range)[d][d] > 0
    PROVE  bars[d] > 0
<1> DEFINE seen == [e \in Days |-> IF InRange(range, e) THEN bars[e] ELSE 0]
<1>1. d \in Nat /\ d <= d
  BY DEF Days
<1>2. NoRow[d] = 0
  BY DEF NoRow
<1>3. UpTo(seen, d)[d] = (IF InRange(range, d) THEN bars[d] ELSE 0)
  BY <1>1 DEF UpTo
<1>4. Found(s, range)[d] = CASE ~InRange(range, d) -> NoRow
                             [] InRange(range, d) /\ s = "bars" -> UpTo(seen, d)
                             [] OTHER -> made[s][d]
  <2> HIDE DEF seen
  <2>1. Found(s, range) = [e \in Days |-> CASE ~InRange(range, e) -> NoRow
                             [] InRange(range, e) /\ s = "bars" -> UpTo(seen, e)
                             [] OTHER -> made[s][e]]
    BY DEF Found, seen
  <2> QED
    BY <2>1
<1> HIDE DEF seen
<1>5. CASE ~InRange(range, d)
  BY <1>2, <1>4, <1>5
<1>6. CASE InRange(range, d) /\ s = "bars"
  BY <1>3, <1>4, <1>6
<1>7. CASE InRange(range, d) /\ s # "bars"
  <2>1. Found(s, range)[d] = made[s][d] /\ s \in Artifacts
    BY <1>4, <1>7 DEF Sources, Artifacts
  <2>2. made[s][d] # NoRow
    BY <2>1, <1>2
  <2> QED
    BY <2>1, <2>2 DEF RowsHaveBars
<1> QED
  BY <1>5, <1>6, <1>7

-----------------------------------------------------------------------------
(***************************************************************************)
(* What other processes do.                                                *)
(***************************************************************************)

\* Apart from days nothing changes, and no window gets dirty.
ApartFrom(days) ==
    /\ \A e \in Days \ days : bars'[e] = bars[e]
    /\ \A a \in Artifacts, e \in Days \ days :
          made'[a][e] = made[a][e] /\ (e \in dirty'[a] => e \in dirty[a])

\* The content of a day depends on its days and those before it.
LEMMA SameContent ==
    ASSUME NEW days, ApartFrom(days), NEW d \in Days, \A e \in 1..d : e \notin days
    PROVE  Current(d)' = Current(d)
<1>1. d \in Nat /\ \A e \in Days : e \in Nat /\ (e <= d => e \in 1..d)
  BY SizesAssumption DEF Days
<1>2. \A e \in Days : e <= d => bars'[e] = bars[e]
  BY <1>1 DEF ApartFrom
<1>3. UpTo(bars, d)' = UpTo(bars, d)
  BY <1>2 DEF UpTo
<1>4. bars'[d] = bars[d]
  BY <1>1, <1>2
<1> QED
  BY <1>3, <1>4 DEF Current

LEMMA SameFound ==
    ASSUME NEW days, ApartFrom(days), NEW d \in Days, \A e \in 1..d : e \notin days,
           NEW s \in Sources, NEW range
    PROVE  Found(s, range)'[d] = Found(s, range)[d]
<1>1. d \in Nat /\ \A e \in Days : e \in Nat /\ (e <= d => e \in 1..d)
  BY SizesAssumption DEF Days
<1>2. \A e \in Days : e <= d => bars'[e] = bars[e]
  BY <1>1 DEF ApartFrom
<1> DEFINE seen == [e \in Days |-> IF InRange(range, e) THEN bars[e] ELSE 0]
           seen1 == [e \in Days |-> IF InRange(range, e) THEN bars'[e] ELSE 0]
<1>3. \A e \in Days : e <= d => seen1[e] = seen[e]
  BY <1>2
<1>4. UpTo(seen1, d) = UpTo(seen, d)
  <2> HIDE DEF seen, seen1
  <2> QED
    BY <1>3 DEF UpTo
<1>5. s # "bars" => made'[s][d] = made[s][d]
  BY <1>1 DEF ApartFrom, Sources, Artifacts, Days
<1>6. Found(s, range)[d] = CASE ~InRange(range, d) -> NoRow
                             [] InRange(range, d) /\ s = "bars" -> UpTo(seen, d)
                             [] OTHER -> made[s][d]
  <2> HIDE DEF seen
  <2>1. Found(s, range) = [e \in Days |-> CASE ~InRange(range, e) -> NoRow
                             [] InRange(range, e) /\ s = "bars" -> UpTo(seen, e)
                             [] OTHER -> made[s][e]]
    BY DEF Found, seen
  <2> QED
    BY <2>1
<1>7. Found(s, range)'[d] = CASE ~InRange(range, d) -> NoRow
                              [] InRange(range, d) /\ s = "bars" -> UpTo(seen1, d)
                              [] OTHER -> made'[s][d]
  <2> HIDE DEF seen1
  <2>1. Found(s, range)' = [e \in Days |-> CASE ~InRange(range, e) -> NoRow
                             [] InRange(range, e) /\ s = "bars" -> UpTo(seen1, e)
                             [] OTHER -> made'[s][e]]
    BY DEF Found, seen1, InRange, UpTo, NoRow
  <2> QED
    BY <2>1
<1> HIDE DEF seen, seen1
<1> QED
  BY <1>4, <1>5, <1>6, <1>7

\* What an operation knows of untouched days outlives what others do elsewhere.
LEMMA OthersSound ==
    ASSUME NEW days \in SUBSET Days, ApartFrom(days), NEW t \in Task, Sound(t),
           NEW u, u = [t EXCEPT !.touched = @ \union days],
           \A d \in Days : bars[d] > 0 => bars'[d] > 0
    PROVE  Sound(u)'
<1>1. /\ u.op = t.op /\ u.range = t.range /\ u.force = t.force /\ u.todo = t.todo
      /\ u.got = t.got /\ u.saved = t.saved /\ u.touched = t.touched \union days
  BY DEF Task
<1>2. /\ Done(u) = Done(t)
      /\ \A s : HasChecked(u, s) = HasChecked(t, s) /\ HasRead(u, s) = HasRead(t, s)
                  /\ HasWritten(u, s) = HasWritten(t, s)
  BY <1>1 DEF Done, HasChecked, HasRead, HasWritten
<1>3. \A d \in Days : Untouched(u, d) => Untouched(t, d) /\ \A e \in 1..d : e \notin days
  BY <1>1 DEF Untouched
<1>4. OnScript(u) /\ Saves(u) /\ Runs(u)
  BY <1>1, <1>2 DEF Sound, OnScript, Saves, Runs
<1>5. CheckStands(u)'
  <2> SUFFICES ASSUME NEW s \in Artifacts, NEW d \in Days, HasChecked(u, s), Untouched(u, d)
               PROVE  d \notin dirty'[s]
    BY DEF CheckStands
  <2>1. d \notin dirty[s] /\ d \in 1..d
    BY <1>2, <1>3 DEF Sound, CheckStands, Days
  <2>2. d \in Days \ days
    BY <1>3, <2>1
  <2> QED
    BY <2>1, <2>2 DEF ApartFrom
<1>6. ReadStands(u)'
  <2> SUFFICES ASSUME NEW s \in Sources, NEW d \in Days, HasRead(u, s), Untouched(u, d)
               PROVE  u.got[s][d] = Found(s, u.range)'[d]
    BY DEF ReadStands
  <2>1. t.got[s][d] = Found(s, t.range)[d]
    BY <1>2, <1>3 DEF Sound, ReadStands
  <2>2. Found(s, t.range)'[d] = Found(s, t.range)[d]
    BY <1>3, SameFound
  <2> QED
    BY <1>1, <2>1, <2>2
<1>7. WriteStands(u)'
  <2> SUFFICES ASSUME NEW a \in Artifacts, NEW d \in Days, a \in u.saved, Untouched(u, d),
                      Covers(u, d)
               PROVE  made'[a][d] = Current(d)' \/ InputOutdated(u, a, d)'
    BY DEF WriteStands
  <2>1. made[a][d] = Current(d) \/ InputOutdated(t, a, d)
    BY <1>1, <1>3 DEF Sound, WriteStands, Covers
  <2>2. Current(d)' = Current(d)
    BY <1>3, SameContent
  <2>3. d \in Days \ days
    BY <1>3 DEF Days
  <2>4. \A s \in Artifacts : made'[s][d] = made[s][d]
    BY <2>3 DEF ApartFrom
  <2>5. InputOutdated(t, a, d) => InputOutdated(u, a, d)'
    <3>1. Inputs(t.op, a) \ {"bars"} \subseteq Artifacts
      BY SomeInputs DEF Sources, Artifacts
    <3> QED
      BY <1>1, <2>2, <2>4, <3>1 DEF InputOutdated
  <2> QED
    BY <2>1, <2>2, <2>4, <2>5
<1>8. ReadHasBars(u)'
  BY <1>1 DEF Sound, ReadHasBars
<1> QED
  BY <1>4, <1>5, <1>6, <1>7, <1>8 DEF Sound

-----------------------------------------------------------------------------
(***************************************************************************)
(* What an operation does itself.                                          *)
(***************************************************************************)

\* Nothing but windows that get clean.
OnlyCleans ==
    /\ UNCHANGED <<bars, made, leftover>>
    /\ \A a \in Artifacts : dirty'[a] \subseteq dirty[a]

\* A step that writes no rows: what is known afterwards was known before or is what the step
\* has just found.
LEMMA StepSound ==
    ASSUME NEW t \in Task, Sound(t), NEW u, NEW what, NEW of,
           OnlyCleans, StepsTo(t, u, what, of), what # "write", OnScript(u),
           u.touched = t.touched,
           u.range = t.range \/ (what = "window" /\ t.range = All /\ u.range[1] <= u.range[2]),
           what = "check" /\ ~t.force => dirty[of] = {},
           what = "recheck" /\ (t.op = "run_replay" => ~t.force)
               => dirty["features"] = {} /\ dirty["candidates"] = {},
           IF what = "read" THEN u.got = [t.got EXCEPT ![of] = Found(of, t.range)]
                            ELSE u.got = t.got,
           RowsHaveBars
    PROVE  Sound(u)'
<1>1. u.op = t.op /\ u.force = t.force /\ u.saved = t.saved /\ t.op \in Ops
  BY DEF StepsTo
<1>2. Saves(u)
  <2>1. \A a \in Artifacts : HasWritten(u, a) => HasWritten(t, a)
    BY NextWritten
  <2> QED
    BY <1>1, <2>1 DEF Sound, Saves
<1>3. CheckStands(u)'
  <2> SUFFICES ASSUME NEW s \in Artifacts, NEW d \in Days, HasChecked(u, s), Untouched(u, d)
               PROVE  d \notin dirty[s]
    BY DEF CheckStands, OnlyCleans
  <2>1. CASE HasChecked(t, s)
    BY <2>1 DEF Sound, CheckStands, Untouched
  <2>2. CASE ~HasChecked(t, s)
    <3>1. dirty[s] = {}
      BY <2>2, NextChecked
    <3> QED
      BY <3>1
  <2> QED
    BY <2>1, <2>2
<1>4. ReadStands(u)'
  <2> SUFFICES ASSUME NEW s \in Sources, NEW d \in Days, HasRead(u, s), Untouched(u, d)
               PROVE  u.got[s][d] = Found(s, u.range)'[d]
    BY DEF ReadStands
  <2>1. HasRead(t, s) \/ (what = "read" /\ of = s)
    BY NextRead
  <2>2. u.range = t.range
    <3> SUFFICES ASSUME what = "window" PROVE FALSE
      OBVIOUS
    <3>1. t.op = "replay" /\ Done(t) = 0
      BY DEF StepsTo, Place
    <3> QED
      BY <2>1, <3>1 DEF HasRead
  <2>3. Found(s, u.range)' = Found(s, t.range)
    BY <2>2 DEF OnlyCleans, Found, InRange, UpTo, NoRow
  <2>4. CASE what = "read" /\ of = s
    <3>1. u.got[s] = Found(s, t.range)
      BY <2>4, Fields
    <3> QED
      BY <3>1, <2>3
  <2>5. CASE HasRead(t, s) /\ ~(what = "read" /\ of = s)
    <3>1. u.got[s] = t.got[s]
      BY <2>5, Fields
    <3>2. t.got[s][d] = Found(s, t.range)[d]
      BY <2>5 DEF Sound, ReadStands, Untouched
    <3> QED
      BY <2>3, <3>1, <3>2
  <2> QED
    BY <2>1, <2>4, <2>5
<1>5. WriteStands(u)'
  <2> SUFFICES ASSUME NEW a \in Artifacts, NEW d \in Days, a \in u.saved, Untouched(u, d),
                      Covers(u, d)
               PROVE  made'[a][d] = Current(d)' \/ InputOutdated(u, a, d)'
    BY DEF WriteStands
  <2>1. Covers(t, d)
    <3>1. CASE u.range = t.range
      BY <3>1, <1>1 DEF Covers
    <3>2. CASE t.range = All
      BY <3>2 DEF Covers, InRange
    <3> QED
      BY <3>1, <3>2
  <2>2. made[a][d] = Current(d) \/ InputOutdated(t, a, d)
    BY <1>1, <2>1 DEF Sound, WriteStands, Untouched
  <2>3. Current(d)' = Current(d) /\ made' = made
    BY DEF OnlyCleans, Current, UpTo, NoRow
  <2> QED
    BY <1>1, <2>2, <2>3 DEF InputOutdated
<1>6. ReadHasBars(u)'
  <2> SUFFICES ASSUME NEW s \in Sources, NEW d \in Days, u.got[s][d][d] > 0
               PROVE  bars[d] > 0
    BY DEF ReadHasBars, OnlyCleans
  <2>1. CASE what = "read" /\ of = s
    <3>1. Found(s, t.range)[d][d] > 0
      BY <2>1, Fields
    <3> QED
      BY <3>1, FoundHasBars
  <2>2. CASE ~(what = "read" /\ of = s)
    <3>1. t.got[s] = u.got[s]
      BY <2>2, Fields
    <3> QED
      BY <3>1 DEF Sound, ReadHasBars
  <2> QED
    BY <2>1, <2>2
<1>7. Runs(u)
  <2>1. what = "window" => t.op = "replay"
    BY DEF StepsTo, Place
  <2> QED
    BY <1>1, <2>1 DEF Sound, Runs
<1> QED
  BY <1>2, <1>3, <1>4, <1>5, <1>6, <1>7 DEF Sound

\* An operation that stays where it is, or leaves out the run it may not make.
LEMMA StaySound ==
    ASSUME NEW t \in Task, Sound(t), NEW u, OnlyCleans, OnScript(u),
           u.op = t.op, u.force = t.force, u.saved = t.saved, u.touched = t.touched,
           u.range = t.range, u.got = t.got,
           \A s : HasChecked(u, s) => HasChecked(t, s),
           \A s : HasRead(u, s) => HasRead(t, s),
           \A a : HasWritten(u, a) => HasWritten(t, a)
    PROVE  Sound(u)'
<1>1. Saves(u) /\ Runs(u)
  BY DEF Sound, Saves, Runs
<1>2. CheckStands(u)'
  BY DEF Sound, CheckStands, Untouched, OnlyCleans
<1>3. \A s, range : Found(s, range)' = Found(s, range)
  BY DEF OnlyCleans, Found, InRange, UpTo, NoRow
<1>4. ReadStands(u)'
  BY <1>3 DEF Sound, ReadStands, Untouched
<1>5. \A d \in Days : Current(d)' = Current(d)
  BY DEF OnlyCleans, Current, UpTo, NoRow
<1>6. made' = made /\ bars' = bars
  BY DEF OnlyCleans
<1>7. WriteStands(u)'
  <2> SUFFICES ASSUME NEW a \in Artifacts, NEW d \in Days, a \in u.saved, Untouched(u, d),
                      Covers(u, d)
               PROVE  made'[a][d] = Current(d)' \/ InputOutdated(u, a, d)'
    BY DEF WriteStands
  <2>1. made[a][d] = Current(d) \/ InputOutdated(t, a, d)
    BY DEF Sound, WriteStands, Untouched, Covers
  <2> QED
    BY <1>5, <1>6, <2>1 DEF InputOutdated
<1>8. ReadHasBars(u)'
  BY <1>6 DEF Sound, ReadHasBars
<1> QED
  BY <1>1, <1>2, <1>4, <1>7, <1>8 DEF Sound

-----------------------------------------------------------------------------
(***************************************************************************)
(* Writing.                                                                *)
(***************************************************************************)

\* What t read holds for all that a is computed from, and none of it is outdated.
GoodInputs(t, a, d) ==
    /\ \A s \in Inputs(t.op, a) : t.got[s][d] = Found(s, t.range)[d]
    /\ ~InputOutdated(t, a, d)
    /\ Covers(t, d) /\ Runs(t)
    /\ a = "features" => t.op \in {"features", "build_features"}

\* From such inputs the current row is computed, and it is, if there are bars.
LEMMA ComputedIsCurrent ==
    ASSUME TypeOK, NEW t \in Task, NEW a \in Artifacts, NEW d \in Days, GoodInputs(t, a, d),
           bars[d] > 0
    PROVE  Computed(t, a, d) = Current(d) /\ d \in Observed(t, a)
<1>1. d \in Nat /\ \A e \in Days : e \in Nat
  BY DEF Days
<1>2. InRange(t.range, d)
  BY DEF GoodInputs, Covers
<1> DEFINE seen == [e \in Days |-> IF InRange(t.range, e) THEN bars[e] ELSE 0]
<1>3. Current(d) = UpTo(bars, d)
  BY DEF Current
<1>4. "bars" \in Inputs(t.op, a) => t.got["bars"][d] = UpTo(seen, d)
  <2> HIDE DEF seen
  <2>1. Found("bars", t.range) = [e \in Days |-> CASE ~InRange(t.range, e) -> NoRow
                             [] InRange(t.range, e) /\ "bars" = "bars" -> UpTo(seen, e)
                             [] OTHER -> made["bars"][e]]
    BY DEF Found, seen
  <2>2. Found("bars", t.range)[d] = UpTo(seen, d)
    BY <1>2, <2>1
  <2> QED
    BY <2>2 DEF GoodInputs
<1>5. \A s \in Inputs(t.op, a) \ {"bars"} : t.got[s][d] = Current(d)
  <2> SUFFICES ASSUME NEW s \in Inputs(t.op, a) \ {"bars"} PROVE t.got[s][d] = Current(d)
    OBVIOUS
  <2>1. s \in Sources
    BY SomeInputs
  <2>2. Found(s, t.range) = [e \in Days |-> CASE ~InRange(t.range, e) -> NoRow
                             [] InRange(t.range, e) /\ s = "bars" -> UpTo(seen, e)
                             [] OTHER -> made[s][e]]
    BY DEF Found, seen
  <2> HIDE DEF seen
  <2>3. Found(s, t.range)[d] = made[s][d]
    BY <1>2, <2>2
  <2> QED
    BY <2>3 DEF GoodInputs, InputOutdated
<1>6. ASSUME NEW e \in Days, e <= d, NEW s \in InputsOf(t.op, a, d, e)
      PROVE  t.got[s][d][e] = Current(d)[e]
  <2>1. s \in Inputs(t.op, a)
    BY SomeInputs
  <2>2. CASE s # "bars"
    BY <1>5, <2>1, <2>2
  <2>3. CASE s = "bars"
    <3>1. UpTo(seen, d)[e] = seen[e] /\ Current(d)[e] = bars[e]
      <4> HIDE DEF seen
      <4> QED
        BY <1>3, <1>6 DEF UpTo
    <3>2. InRange(t.range, e)
      <4>1. CASE a = "features"
        <5>1. e \in 1..d
          BY <1>1, <1>6 DEF Days
        <5> QED
          BY <4>1, <5>1 DEF GoodInputs, Covers, Runs, InRange
      <4>2. CASE a # "features"
        <5>1. ~(e < d)
          BY <2>3, <4>2, <1>6 DEF InputsOf
        <5>2. e = d
          BY <1>1, <1>6, <5>1
        <5> QED
          BY <1>2, <5>2
      <4> QED
        BY <4>1, <4>2
    <3> QED
      BY <1>4, <2>1, <2>3, <3>1, <3>2
  <2> QED
    BY <2>2, <2>3
<1>7. \A e \in Days : Computed(t, a, d)[e] = Current(d)[e]
  <2> SUFFICES ASSUME NEW e \in Days PROVE Computed(t, a, d)[e] = Current(d)[e]
    OBVIOUS
  <2>1. CASE e > d
    <3>1. ~(e <= d)
      BY <1>1, <2>1
    <3>2. Current(d)[e] = 0
      BY <1>3, <3>1 DEF UpTo
    <3> QED
      BY <2>1, <3>2, ComputedIs
  <2>2. CASE e <= d
    <3>1. ~(e > d)
      BY <1>1, <2>2
    <3>2. PICK s \in InputsOf(t.op, a, d, e) : Computed(t, a, d)[e] = t.got[s][d][e]
      BY <3>1, ComputedIs
    <3> QED
      BY <1>6, <2>2, <3>2
  <2> QED
    BY <1>1, <2>1, <2>2
<1>8. Computed(t, a, d) = Current(d)
  <2>1. Computed(t, a, d) \in Row
    BY ComputedIs
  <2>2. Current(d) = [e \in Days |-> Current(d)[e]]
    BY <1>3 DEF UpTo
  <2>3. Computed(t, a, d) = [e \in Days |-> Computed(t, a, d)[e]]
    BY <2>1 DEF Row
  <2> QED
    BY <1>7, <2>2, <2>3
<1>9. Current(d)[d] = bars[d]
  BY <1>1, <1>3 DEF UpTo
<1> QED
  BY <1>8, <1>9 DEF Observed

\* Nothing is computed without bars.
LEMMA ObservedHasBars ==
    ASSUME TypeOK, NEW t \in Task, ReadHasBars(t), NEW a \in Artifacts, NEW d \in Days,
           d \in Observed(t, a)
    PROVE  bars[d] > 0
<1>1. ~(d > d)
  BY DEF Days
<1>2. PICK s \in InputsOf(t.op, a, d, d) : Computed(t, a, d)[d] = t.got[s][d][d]
  BY <1>1, ComputedIs
<1>3. s \in Sources
  BY SomeInputs
<1> QED
  BY <1>2, <1>3 DEF Observed, ReadHasBars

\* An operation reads nothing that it writes, and computes nothing of it.
LEMMA OutputsApart ==
    ASSUME NEW op \in Ops, NEW a \in Outputs(op) \cap Artifacts, NEW b \in Outputs(op)
    PROVE  b \notin Inputs(op, a)
BY DEF Ops, Outputs, Artifacts, Inputs, Sources

LEMMA ReadsNoOutput ==
    ASSUME NEW t, NEW s, HasRead(t, s)
    PROVE  s \notin Outputs(t.op)
BY DEF HasRead, Outputs

\* t replaces the rows of its output on the days it has computed some for.
Rewrites(t, of, days) ==
    /\ bars' = bars /\ dirty' = dirty
    /\ days = IF of = "counterfactual" THEN {} ELSE Observed(t, of)
    /\ made' = [b \in Artifacts |-> [d \in Days |->
                   IF b = of /\ d \in days THEN Computed(t, of, d) ELSE made[b][d]]]

\* The rows t writes are current where its inputs were.
LEMMA WriteSound ==
    ASSUME TypeOK, RowsHaveBars, NEW t \in Task, Sound(t), NEW u, NEW of,
           StepsTo(t, u, "write", of), OnScript(u),
           u.touched = t.touched, u.range = t.range, u.got = t.got,
           NEW days, Rewrites(t, of, days)
    PROVE  Sound(u)' /\ RowsHaveBars'
<1> USE DEF Rewrites
<1>1. u.op = t.op /\ u.force = t.force /\ u.saved = t.saved \union {of} /\ t.op \in Ops
  BY DEF StepsTo
<1>2. /\ of \in Outputs(t.op) /\ of \in Artifacts \union {"counterfactual"}
      /\ of \in Artifacts => \A s \in Inputs(t.op, of) : HasRead(t, s)
  BY AtWrite DEF StepsTo
<1>3. \A b \in Artifacts, d \in Days :
         made'[b][d] = IF b = of /\ d \in days THEN Computed(t, of, d) ELSE made[b][d]
  OBVIOUS
<1>4. \A d \in Days : Current(d)' = Current(d)
  BY DEF Current, UpTo, NoRow
<1>5. Saves(u) /\ Runs(u)
  <2>1. \A a \in Artifacts : HasWritten(u, a) => HasWritten(t, a) \/ a = of
    BY NextWritten
  <2> QED
    BY <1>1, <1>2, <2>1 DEF Sound, Saves, Runs
<1>6. CheckStands(u)'
  <2> SUFFICES ASSUME NEW s \in Artifacts, NEW d \in Days, HasChecked(u, s), Untouched(u, d)
               PROVE  d \notin dirty[s]
    BY DEF CheckStands
  <2>1. HasChecked(t, s)
    BY NextChecked
  <2> QED
    BY <2>1 DEF Sound, CheckStands, Untouched
<1>7. ReadStands(u)'
  <2> SUFFICES ASSUME NEW s \in Sources, NEW d \in Days, HasRead(u, s), Untouched(u, d)
               PROVE  u.got[s][d] = Found(s, u.range)'[d]
    BY DEF ReadStands
  <2>1. HasRead(t, s)
    BY NextRead
  <2>2. s # of
    BY <1>2, <2>1, ReadsNoOutput
  <2>3. s # "bars" => made'[s] = [d1 \in Days |-> made[s][d1]]
    BY <2>2 DEF Sources, Artifacts
  <2>4. s # "bars" => \A e \in Days : made'[s][e] = made[s][e]
    BY <2>3
  <2>5. Found(s, t.range)' = Found(s, t.range)
    BY <2>4 DEF Found, InRange, UpTo, NoRow
  <2> QED
    BY <2>1, <2>5 DEF Sound, ReadStands, Untouched
<1>8. WriteStands(u)'
  <2> SUFFICES ASSUME NEW a \in Artifacts, NEW d \in Days, a \in u.saved, Untouched(u, d),
                      Covers(u, d)
               PROVE  made'[a][d] = Current(d) \/ InputOutdated(u, a, d)'
    BY <1>4 DEF WriteStands
  <2>1. a \in Outputs(t.op)
    BY <1>1, <1>2 DEF Sound, Saves
  <2>2. of \notin Inputs(t.op, a)
    BY <1>1, <1>2, <2>1, OutputsApart
  <2>3. InputOutdated(t, a, d) => InputOutdated(u, a, d)'
    <3>1. Inputs(t.op, a) \ {"bars"} \subseteq Artifacts \ {of}
      BY <2>2, SomeInputs DEF Sources, Artifacts
    <3>2. \A s \in Inputs(t.op, a) \ {"bars"} : made'[s][d] = made[s][d]
      BY <1>3, <3>1
    <3> QED
      BY <1>1, <1>4, <3>2 DEF InputOutdated
  <2>4. Covers(t, d) /\ Untouched(t, d)
    BY <1>1 DEF Covers, Untouched
  <2>5. CASE a # of
    <3>1. made'[a][d] = made[a][d] /\ a \in t.saved
      BY <1>1, <1>3, <2>5
    <3> QED
      BY <2>3, <2>4, <3>1 DEF Sound, WriteStands
  <2>6. CASE a = of /\ InputOutdated(t, a, d)
    BY <2>3, <2>6
  <2>7. CASE a = of /\ ~InputOutdated(t, a, d)
    <3>1. days = Observed(t, a)
      BY <2>7 DEF Artifacts
    <3>2. a = "features" => t.op \in {"features", "build_features"}
      BY <1>1, <2>1 DEF Outputs, Ops
    <3>3. GoodInputs(t, a, d)
      BY <1>2, <2>4, <2>7, <3>2, SomeInputs DEF GoodInputs, Sound, ReadStands
    <3>4. CASE bars[d] > 0
      <4>1. d \in days /\ Computed(t, a, d) = Current(d)
        BY <3>1, <3>3, <3>4, ComputedIsCurrent
      <4> QED
        BY <1>3, <2>7, <4>1
    <3>5. CASE ~(bars[d] > 0)
      <4>1. d \notin days
        BY <3>1, <3>5, ObservedHasBars DEF Sound
      <4>2. made'[a][d] = made[a][d] /\ made[a][d] = NoRow /\ Current(d) = NoRow
        BY <1>3, <3>5, <4>1 DEF RowsHaveBars, Current
      <4> QED
        BY <4>2
    <3> QED
      BY <3>4, <3>5
  <2> QED
    BY <2>5, <2>6, <2>7
<1>9. ReadHasBars(u)'
  BY DEF Sound, ReadHasBars
<1>10. RowsHaveBars'
  <2> SUFFICES ASSUME NEW a \in Artifacts, NEW d \in Days, made'[a][d] # NoRow
               PROVE  bars[d] > 0
    BY DEF RowsHaveBars, NoRow
  <2>1. CASE a = of /\ d \in days
    <3>1. d \in Observed(t, a)
      BY <2>1 DEF Artifacts
    <3> QED
      BY <3>1, ObservedHasBars DEF Sound
  <2>2. CASE ~(a = of /\ d \in days)
    BY <1>3, <2>2 DEF RowsHaveBars
  <2> QED
    BY <2>1, <2>2
<1> QED
  BY <1>5, <1>6, <1>7, <1>8, <1>9, <1>10 DEF Sound

-----------------------------------------------------------------------------
(***************************************************************************)
(* Every step preserves the invariant.                                     *)
(***************************************************************************)

\* The others see that days were touched.
OthersSee(p, days) ==
    \A q \in Procs \ {p} :
        task'[q] = IF Busy(q) THEN [task[q] EXCEPT !.touched = @ \union days] ELSE task[q]

TablesTyped ==
    /\ bars \in [Days -> Revision]
    /\ made \in [Artifacts -> [Days -> Row]]
    /\ leftover \in [Artifacts -> SUBSET Days]
    /\ dirty \in [Artifacts -> SUBSET Days]
    /\ faults \in 0..MaxFaults

\* A step preserves the invariant if it keeps what the process itself knows.
LEMMA Together ==
    ASSUME PipelineInv, NEW p \in Procs, NEW days \in SUBSET Days, ApartFrom(days),
           \A d \in Days : bars[d] > 0 => bars'[d] > 0,
           NEW u \in Task, task' \in [Procs -> Task], task'[p] = u,
           u.todo = <<>> \/ Sound(u)',
           OthersSee(p, days), TablesTyped', RowsHaveBars', LeftoversHaveRows'
    PROVE  PipelineInv'
<1>1. ASSUME NEW q \in Procs, Busy(q)'
      PROVE  Sound(task[q])'
  <2>1. CASE q = p
    <3>1. Sound(u)'
      BY <1>1, <2>1 DEF Busy
    <3> QED
      BY <2>1, <3>1
  <2>2. CASE q # p
    <3>1. Busy(q) /\ task'[q] = [task[q] EXCEPT !.touched = @ \union days]
      BY <1>1, <2>2 DEF OthersSee, Busy, PipelineInv, TypeOK, Task
    <3>2. PICK t \in Task : t = task[q]
      BY DEF PipelineInv, TypeOK
    <3>3. PICK v : v = [t EXCEPT !.touched = @ \union days]
      OBVIOUS
    <3>4. Sound(t)
      BY <3>1, <3>2 DEF PipelineInv
    <3>5. Sound(v)'
      BY <3>3, <3>4, OthersSound
    <3>6. task'[q] = v
      BY <3>1, <3>2, <3>3
    <3> QED
      BY <3>5, <3>6
  <2> QED
    BY <2>1, <2>2
<1>2. TypeOK'
  BY DEF TypeOK, TablesTyped
<1> QED
  BY <1>1, <1>2 DEF PipelineInv

\* The same where nobody is touched.
LEMMA Quietly ==
    ASSUME PipelineInv, NEW p \in Procs, OnlyCleans, dirty' \in [Artifacts -> SUBSET Days],
           NEW u \in Task, task' \in [Procs -> Task], task'[p] = u,
           u.todo = <<>> \/ Sound(u)', faults' \in 0..MaxFaults,
           \A q \in Procs \ {p} : task'[q] = task[q]
    PROVE  PipelineInv'
<1>1. \A q \in Procs : task[q] = [task[q] EXCEPT !.touched = @ \union {}]
  BY DEF PipelineInv, TypeOK, Task
<1>2. OthersSee(p, {})
  BY <1>1 DEF OthersSee
<1>3. ApartFrom({}) /\ \A d \in Days : bars[d] > 0 => bars'[d] > 0
  BY DEF OnlyCleans, ApartFrom
<1>4. TablesTyped' /\ RowsHaveBars' /\ LeftoversHaveRows'
  BY DEF PipelineInv, TypeOK, OnlyCleans, TablesTyped, RowsHaveBars, LeftoversHaveRows
<1> QED
  BY <1>2, <1>3, <1>4, Together

LEMMA Continues ==
    ASSUME PipelineInv, NEW p \in Procs, NEW u \in Task, Continue(p, u), OnlyCleans,
           dirty' \in [Artifacts -> SUBSET Days], faults' = faults, u.todo = <<>> \/ Sound(u)'
    PROVE  PipelineInv'
<1>1. TypeOK /\ {} \in SUBSET Days
  BY DEF PipelineInv
<1>2. /\ task' \in [Procs -> Task]
      /\ task'[p] = (IF u.todo = <<>> THEN Idle ELSE u)
      /\ OthersSee(p, {})
  BY <1>1, ChangeTasks DEF Continue, OthersSee
<1>3. \A q \in Procs \ {p} : task'[q] = task[q]
  BY <1>2 DEF OthersSee, PipelineInv, TypeOK, Task
<1>4. PICK v \in Task : v = task'[p]
  BY <1>2
<1>5. v.todo = <<>> \/ Sound(v)'
  BY <1>2, <1>4, IdleIsTask
<1>6. faults' \in 0..MaxFaults
  BY <1>1 DEF TypeOK
<1> QED
  BY <1>2, <1>3, <1>4, <1>5, <1>6, Quietly

LEMMA Ends ==
    ASSUME PipelineInv, NEW p \in Procs, End(p), OnlyCleans,
           dirty' \in [Artifacts -> SUBSET Days], faults' \in 0..MaxFaults
    PROVE  PipelineInv'
<1>1. TypeOK
  BY DEF PipelineInv
<1>2. task' \in [Procs -> Task] /\ task'[p] = Idle /\ \A q \in Procs \ {p} : task'[q] = task[q]
  BY <1>1, EndTasks
<1> QED
  BY <1>2, IdleIsTask, Quietly

\* What every step of a busy process has.
LEMMA Taken ==
    ASSUME PipelineInv, NEW p \in Procs, Busy(p), NEW t, t = task[p]
    PROVE  /\ t \in Task /\ Sound(t) /\ t.todo # <<>> /\ TypeOK /\ RowsHaveBars
           /\ t.op \in Ops /\ Done(t) \in Nat /\ Tail(t.todo) \in Seq(Step)
           /\ Head(t.todo).do \in What /\ Head(t.todo) \in Step
           /\ Place(Head(t.todo).do, t.op, Done(t), Head(t.todo).of)
           /\ Of(p) = Head(t.todo).of
<1>1. t \in Task /\ Sound(t) /\ t.todo # <<>> /\ TypeOK /\ RowsHaveBars /\ OnScript(t)
  BY DEF PipelineInv, TypeOK, Busy, Sound
<1>2. t.op \in Ops /\ t.todo \in Seq(Step)
  BY <1>1, Fields
<1>3. Head(t.todo) \in Step => Head(t.todo).do \in What
  BY DEF Step, What
<1> QED
  BY <1>1, <1>2, <1>3, Suffix DEF Of

LEMMA Goes ==
    ASSUME PipelineInv, NEW p \in Procs, Busy(p), NEW t, t = task[p], NEW u,
           u.op = t.op, u.force = t.force, u.todo = Tail(t.todo),
           u.saved = IF Head(t.todo).do = "write" THEN t.saved \union {Head(t.todo).of}
                                                  ELSE t.saved
    PROVE  StepsTo(t, u, Head(t.todo).do, Head(t.todo).of) /\ OnScript(u)
<1>1. t.op \in Ops /\ t.todo \in Seq(Step) /\ OnScript(t) /\ t.todo # <<>>
  BY Taken, Fields DEF Sound
<1>2. OnScript(u) /\ Done(u) = Done(t) + 1
  BY <1>1, Onwards
<1> QED
  BY <1>2, Taken DEF StepsTo

\* A step that only goes on, having found what it asked for.
LEMMA Advances ==
    ASSUME PipelineInv, NEW p \in Procs, Busy(p), Advance(p), OnlyCleans,
           dirty' \in [Artifacts -> SUBSET Days], faults' = faults,
           NEW what, what = Head(task[p].todo).do, what \notin {"read", "write"},
           what = "check" /\ ~task[p].force => dirty[Of(p)] = {},
           what = "recheck" /\ (task[p].op = "run_replay" => ~task[p].force)
               => dirty["features"] = {} /\ dirty["candidates"] = {}
    PROVE  PipelineInv'
<1>1. PICK t : t = task[p]
  OBVIOUS
<1>2. PICK of : of = Head(t.todo).of
  OBVIOUS
<1>3. PICK u : u = [t EXCEPT !.todo = Tail(t.todo)]
  OBVIOUS
<1>4. t \in Task /\ Sound(t) /\ Tail(t.todo) \in Seq(Step) /\ Of(p) = of /\ RowsHaveBars
  BY <1>1, <1>2, Taken
<1>5. /\ u \in Task /\ u.op = t.op /\ u.force = t.force /\ u.saved = t.saved /\ u.got = t.got
      /\ u.touched = t.touched /\ u.range = t.range /\ u.todo = Tail(t.todo)
  BY <1>3, <1>4 DEF Task
<1>6. StepsTo(t, u, what, of) /\ OnScript(u)
  BY <1>1, <1>2, <1>5, Goes
<1>7. what # "write" /\ what # "read"
  OBVIOUS
<1>8. Sound(u)'
  BY <1>1, <1>4, <1>5, <1>6, <1>7, StepSound
<1>9. Continue(p, u)
  BY <1>1, <1>3 DEF Advance
<1> QED
  BY <1>5, <1>8, <1>9, Continues

LEMMA CheckKeeps ==
    ASSUME PipelineInv, NEW p \in Procs, Check(p)
    PROVE  PipelineInv'
<1>1. Busy(p) /\ Head(task[p].todo).do = "check"
  BY DEF Check, At
<1>2. OnlyCleans /\ dirty' \in [Artifacts -> SUBSET Days] /\ faults' = faults
      /\ faults' \in 0..MaxFaults
  BY DEF Check, OnlyCleans, PipelineInv, TypeOK
<1>3. CASE dirty[Of(p)] # {} /\ ~task[p].force
  BY <1>2, <1>3, Ends DEF Check
<1>4. CASE ~(dirty[Of(p)] # {} /\ ~task[p].force)
  BY <1>1, <1>2, <1>4, Advances DEF Check
<1> QED
  BY <1>3, <1>4

LEMMA NeedKeeps ==
    ASSUME PipelineInv, NEW p \in Procs, Need(p)
    PROVE  PipelineInv'
<1>1. Busy(p) /\ Head(task[p].todo).do = "need"
  BY DEF Need, At
<1>2. OnlyCleans /\ dirty' \in [Artifacts -> SUBSET Days] /\ faults' = faults
      /\ faults' \in 0..MaxFaults
  BY DEF Need, OnlyCleans, PipelineInv, TypeOK
<1>3. Advance(p) \/ End(p)
  BY DEF Need
<1>4. CASE End(p)
  BY <1>2, <1>4, Ends
<1>5. CASE Advance(p)
  BY <1>1, <1>2, <1>5, Advances
<1> QED
  BY <1>3, <1>4, <1>5

\* The range from the first to the last day with bars.
LEMMA WindowKeeps ==
    ASSUME PipelineInv, NEW p \in Procs, Window(p)
    PROVE  PipelineInv'
<1> DEFINE seen == {d \in Days : bars[d] > 0}
<1>1. Busy(p) /\ Head(task[p].todo).do = "window"
  BY DEF Window, At
<1>2. OnlyCleans /\ dirty' \in [Artifacts -> SUBSET Days] /\ faults' = faults
      /\ faults' \in 0..MaxFaults
  BY DEF Window, OnlyCleans, PipelineInv, TypeOK
<1>3. CASE task[p].range # All
  <2>1. Advance(p)
    BY <1>3 DEF Window
  <2> QED
    BY <1>1, <1>2, <2>1, Advances
<1>4. CASE task[p].range = All /\ seen = {}
  <2>1. End(p)
    BY <1>4 DEF Window
  <2> QED
    BY <1>2, <2>1, Ends
<1>5. CASE task[p].range = All /\ seen # {}
  <2>1. PICK t : t = task[p]
    OBVIOUS
  <2>2. PICK r : r = <<Min(seen), Max(seen)>>
    OBVIOUS
  <2>3. PICK u : u = [t EXCEPT !.todo = Tail(t.todo), !.range = r]
    OBVIOUS
  <2>4. Continue(p, u)
    BY <1>5, <2>1, <2>2, <2>3 DEF Window
  <2>5. seen \in SUBSET (0..NumDays) /\ NumDays \in Nat /\ Days \subseteq 0..NumDays
    BY SizesAssumption DEF Days
  <2>6. Min(seen) \in seen /\ Max(seen) \in seen /\ Min(seen) <= Max(seen)
    <3> HIDE DEF seen
    <3> QED
      BY <1>5, <2>5, MinIsLeast, MaxIsGreatest
  <2>7. r \in Days \X Days /\ r[1] <= r[2]
    <3>1. Min(seen) \in Days /\ Max(seen) \in Days
      BY <2>6
    <3> HIDE DEF seen
    <3> QED
      BY <2>2, <2>6, <3>1
  <2>8. t \in Task /\ Sound(t) /\ Tail(t.todo) \in Seq(Step) /\ RowsHaveBars
    BY <1>1, <2>1, Taken
  <2>9. /\ u \in Task /\ u.op = t.op /\ u.force = t.force /\ u.saved = t.saved
        /\ u.got = t.got /\ u.touched = t.touched /\ u.range = r /\ u.todo = Tail(t.todo)
    BY <2>3, <2>7, <2>8 DEF Task
  <2>10. StepsTo(t, u, "window", Head(t.todo).of) /\ OnScript(u)
    BY <1>1, <2>1, <2>9, Goes
  <2>11. t.range = All
    BY <1>5, <2>1
  <2> HIDE DEF seen
  <2>12. Sound(u)'
    BY <1>2, <2>7, <2>8, <2>9, <2>10, <2>11, StepSound
  <2> QED
    BY <1>2, <2>4, <2>9, <2>12, Continues
<1> QED
  BY <1>3, <1>4, <1>5

LEMMA ListKeeps ==
    ASSUME PipelineInv, NEW p \in Procs, List(p)
    PROVE  PipelineInv'
<1>1. Busy(p) /\ Head(task[p].todo).do = "list"
  BY DEF List, At
<1>2. OnlyCleans /\ dirty' \in [Artifacts -> SUBSET Days] /\ faults' = faults
  BY DEF List, OnlyCleans, PipelineInv, TypeOK
<1>3. PICK t : t = task[p]
  OBVIOUS
<1>4. PICK u : u = [t EXCEPT !.todo = Tail(t.todo), !.before = dirty[Of(p)]]
  OBVIOUS
<1>5. /\ t \in Task /\ Sound(t) /\ Tail(t.todo) \in Seq(Step) /\ RowsHaveBars
      /\ Place("list", t.op, Done(t), Of(p))
  BY <1>1, <1>3, Taken
<1>6. dirty[Of(p)] \in SUBSET Days
  <2>1. Of(p) \in Artifacts
    BY <1>5 DEF Place, Artifacts
  <2> QED
    BY <2>1 DEF PipelineInv, TypeOK
<1>7. /\ u \in Task /\ u.op = t.op /\ u.force = t.force /\ u.saved = t.saved
      /\ u.got = t.got /\ u.touched = t.touched /\ u.range = t.range /\ u.todo = Tail(t.todo)
  BY <1>4, <1>5, <1>6 DEF Task
<1>8. StepsTo(t, u, "list", Head(t.todo).of) /\ OnScript(u)
  BY <1>1, <1>3, <1>7, Goes
<1>9. Sound(u)'
  BY <1>2, <1>5, <1>7, <1>8, StepSound
<1>10. Continue(p, u)
  BY <1>3, <1>4 DEF List
<1> QED
  BY <1>2, <1>7, <1>9, <1>10, Continues

AfterReading(t, of) ==
    [t EXCEPT !.todo = Tail(t.todo), !.got[of] = Found(of, t.range),
              !.beside = @ \union LeftoverRead(of, t.range)]

\* What a process is about that has read the source of its next step.
LEMMA ReadTask ==
    ASSUME PipelineInv, NEW p \in Procs, Busy(p), Head(task[p].todo).do = "read",
           NEW t, t = task[p], NEW u, u = AfterReading(t, Of(p))
    PROVE  /\ u \in Task /\ u.op = t.op /\ u.force = t.force /\ u.saved = t.saved
           /\ u.touched = t.touched /\ u.range = t.range /\ u.todo = Tail(t.todo)
           /\ u.got = [t.got EXCEPT ![Of(p)] = Found(Of(p), t.range)]
<1>1. PICK of : of = Of(p)
  OBVIOUS
<1>2. /\ t \in Task /\ Tail(t.todo) \in Seq(Step) /\ TypeOK
      /\ Place("read", t.op, Done(t), of)
  BY <1>1, Taken
<1>3. of \in Sources
  BY <1>2 DEF Place, Sources
<1>4. Found(of, t.range) \in [Days -> Row]
  BY <1>2, <1>3, FoundIsTyped
<1>5. PICK g : g = [t.got EXCEPT ![of] = Found(of, t.range)]
  OBVIOUS
<1>6. g \in [Sources -> [Days -> Row]]
  BY <1>2, <1>3, <1>4, <1>5, Fields
<1>12. PICK B : B = t.beside \union LeftoverRead(of, t.range)
  OBVIOUS
<1>13. B \in SUBSET Days
  BY <1>2, <1>12, Fields DEF LeftoverRead, TypeOK, Artifacts
<1>7. u = [t EXCEPT !.todo = Tail(t.todo), !.got = g, !.beside = B]
  BY <1>1, <1>5, <1>12 DEF AfterReading
<1>8. PICK G : G = [Sources -> [Days -> Row]]
  OBVIOUS
<1>9. g \in G /\ t \in Task /\ Tail(t.todo) \in Seq(Step)
  BY <1>2, <1>6, <1>8
<1>10. Task = [op : Ops, range : Days \X Days \union {All}, force : BOOLEAN,
               todo : Seq(Step), before : SUBSET Days, got : G, beside : SUBSET Days,
               saved : SUBSET (Artifacts \union {"counterfactual"}),
               touched : SUBSET Days]
  BY <1>8 DEF Task
<1>11. /\ u \in Task /\ u.op = t.op /\ u.force = t.force /\ u.saved = t.saved
       /\ u.touched = t.touched /\ u.range = t.range /\ u.todo = Tail(t.todo)
       /\ u.got = g
  BY <1>7, <1>9, <1>10, <1>13
<1> QED
  BY <1>1, <1>5, <1>11

LEMMA ReadKeeps ==
    ASSUME PipelineInv, NEW p \in Procs, Read(p)
    PROVE  PipelineInv'
<1>1. Busy(p) /\ Head(task[p].todo).do = "read"
  BY DEF Read, At
<1>2. OnlyCleans /\ dirty' \in [Artifacts -> SUBSET Days] /\ faults' = faults
  BY DEF Read, OnlyCleans, PipelineInv, TypeOK
<1>3. PICK t : t = task[p]
  OBVIOUS
<1>4. PICK of : of = Of(p)
  OBVIOUS
<1>5. PICK u : u = AfterReading(t, of)
  OBVIOUS
<1>6. t \in Task /\ Sound(t) /\ RowsHaveBars /\ of = Head(t.todo).of
  BY <1>1, <1>3, <1>4, Taken
<1>7. /\ u \in Task /\ u.op = t.op /\ u.force = t.force /\ u.saved = t.saved
      /\ u.touched = t.touched /\ u.range = t.range /\ u.todo = Tail(t.todo)
      /\ u.got = [t.got EXCEPT ![of] = Found(of, t.range)]
  BY <1>1, <1>3, <1>4, <1>5, ReadTask
<1>8. StepsTo(t, u, "read", of) /\ OnScript(u)
  <2>1. Head(t.todo).do = "read" /\ Head(t.todo).of = of
    BY <1>1, <1>3, <1>6
  <2>2. u.op = t.op /\ u.force = t.force /\ u.saved = t.saved /\ u.todo = Tail(t.todo)
    BY <1>7
  <2>3. StepsTo(t, u, Head(t.todo).do, Head(t.todo).of) /\ OnScript(u)
    BY <1>1, <1>3, <2>1, <2>2, Goes
  <2> QED
    BY <2>1, <2>3
<1>9. Sound(u)'
  BY <1>2, <1>6, <1>7, <1>8, StepSound
<1>10. Continue(p, u)
  BY <1>3, <1>4, <1>5 DEF Read, AfterReading
<1> QED
  BY <1>2, <1>7, <1>9, <1>10, Continues

LEMMA MarkKeeps ==
    ASSUME PipelineInv, NEW p \in Procs, Mark(p)
    PROVE  PipelineInv'
<1>1. Busy(p) /\ Head(task[p].todo).do = "mark"
  BY DEF Mark, At
<1>2. OnlyCleans /\ dirty' \in [Artifacts -> SUBSET Days] /\ faults' = faults
  BY DEF Mark, OnlyCleans, PipelineInv, TypeOK
<1> QED
  BY <1>1, <1>2, Advances DEF Mark

LEMMA CleanKeeps ==
    ASSUME PipelineInv, NEW p \in Procs, Clean(p)
    PROVE  PipelineInv'
<1> DEFINE left == IF Of(p) = "replay" /\ task[p].saved = {} THEN {} ELSE task[p].before
<1>1. Busy(p) /\ Head(task[p].todo).do = "clean"
  BY DEF Clean, At
<1>2. OnlyCleans /\ dirty' \in [Artifacts -> SUBSET Days] /\ faults' = faults
  <2>1. UNCHANGED <<bars, made, leftover, faults>>
    BY DEF Clean
  <2>2. \/ dirty' = dirty
        \/ \E d : dirty' = [dirty EXCEPT ![Of(p)] = @ \ {d}]
    BY DEF Clean
  <2>3. dirty \in [Artifacts -> SUBSET Days]
    BY DEF PipelineInv, TypeOK
  <2>4. dirty' \in [Artifacts -> SUBSET Days] /\ \A a \in Artifacts : dirty'[a] \subseteq dirty[a]
    BY <2>2, <2>3
  <2> QED
    BY <2>1, <2>4 DEF OnlyCleans
<1>3. CASE left = {}
  <2>1. Advance(p)
    BY <1>3 DEF Clean
  <2> QED
    BY <1>1, <1>2, <2>1, Advances
<1>4. CASE left # {}
  <2>1. PICK t : t = task[p]
    OBVIOUS
  <2>2. PICK u : u = [t EXCEPT !.before = t.before \ {Min(left)}]
    OBVIOUS
  <2>3. Continue(p, u)
    BY <1>4, <2>1, <2>2 DEF Clean
  <2>4. t \in Task /\ Sound(t)
    BY <1>1, <2>1, Taken
  <2>5. /\ u \in Task /\ u.op = t.op /\ u.force = t.force /\ u.saved = t.saved
        /\ u.got = t.got /\ u.touched = t.touched /\ u.range = t.range /\ u.todo = t.todo
    <3> HIDE DEF left
    <3> QED
      BY <2>2, <2>4 DEF Task
  <2>6. Done(u) = Done(t) /\ OnScript(u)
    BY <2>4, <2>5 DEF Done, OnScript, Sound
  <2>7. \A s : HasChecked(u, s) = HasChecked(t, s) /\ HasRead(u, s) = HasRead(t, s)
                  /\ HasWritten(u, s) = HasWritten(t, s)
    BY <2>5, <2>6 DEF HasChecked, HasRead, HasWritten
  <2>8. Sound(u)'
    BY <1>2, <2>4, <2>5, <2>6, <2>7, StaySound
  <2> QED
    BY <1>2, <2>3, <2>5, <2>8, Continues
<1> QED
  BY <1>3, <1>4

\* A replay run that is refused: the next step of its script after the run.
LEMMA Skips ==
    ASSUME NEW t, t.op \in Ops, t.todo \in Seq(Step), t.todo # <<>>, OnScript(t),
           NEW m \in Nat, Done(t) < m, m < Len(Script(t.op)),
           Script(t.op)[m + 1].do \in {"recheck", "clean"},
           \A k \in Nat : Done(t) + 2 <= k /\ k <= m
               => Script(t.op)[k].do \notin {"recheck", "clean"},
           NEW u, u.op = t.op, u.todo = AfterRun(Tail(t.todo))
    PROVE  u.todo \in Seq(Step) /\ OnScript(u) /\ Done(u) = m
<1> HIDE DEF Step
<1> DEFINE n == Done(t)
           all == Len(Script(t.op))
           tail == Tail(t.todo)
           left == Len(tail)
           next == {i \in 1..left : tail[i].do \in {"recheck", "clean"}}
<1>1. /\ n \in Nat /\ n < all /\ tail \in Seq(Step) /\ left \in Nat
      /\ \A k \in 1..left : tail[k] = t.todo[k + 1]
      /\ left = Len(t.todo) - 1 /\ Len(t.todo) \in Nat
  BY Suffix
<1>2. all \in Nat /\ n = all - Len(t.todo)
  BY ScriptTyped DEF Done
<1>3. left = all - n - 1
  <2> DEFINE x == Len(t.todo)
  <2>1. x \in Nat /\ left = x - 1 /\ n = all - x
    BY <1>1, <1>2
  <2> HIDE DEF x, left, n, all
  <2> QED
    BY <2>1, <1>2
<1>4. ASSUME NEW k \in 1..left
      PROVE  tail[k] = Script(t.op)[n + 1 + k]
  <2>1. k + 1 \in 1..Len(t.todo) /\ tail[k] = t.todo[k + 1]
    <3> DEFINE x == Len(t.todo)
    <3>1. x \in Nat /\ left = x - 1 /\ tail[k] = t.todo[k + 1]
      BY <1>1
    <3> HIDE DEF x, left
    <3>2. k + 1 \in 1..x
      BY <3>1
    <3> QED
      BY <3>1, <3>2 DEF x
  <2>2. t.todo[k + 1] = Script(t.op)[n + (k + 1)]
    BY <2>1 DEF OnScript
  <2>3. n + (k + 1) = n + 1 + k
    BY <1>1
  <2> QED
    BY <2>1, <2>2, <2>3
<1>5. PICK j \in Nat : j = m - n
  BY <1>1
<1>16. n < m /\ m < all
  OBVIOUS
<1> HIDE DEF n, all, left, tail
<1>17. n \in Nat /\ all \in Nat /\ left \in Nat
  BY <1>1, <1>2
<1>6. j \in 1..left /\ n + 1 + j = m + 1
  BY <1>3, <1>5, <1>16, <1>17
<1>7. j \in next
  BY <1>4, <1>6
<1>8. next \in SUBSET (0..left)
  OBVIOUS
<1>9. Min(next) \in next /\ \A i \in next : Min(next) <= i
  <2> HIDE DEF next
  <2> QED
    BY <1>1, <1>7, <1>8, MinIsLeast
<1>10. \A i \in next : j <= i
  <2> SUFFICES ASSUME NEW i \in next, ~(j <= i) PROVE FALSE
    OBVIOUS
  <2>1. i \in 1..left /\ tail[i].do \in {"recheck", "clean"}
    OBVIOUS
  <2>2. tail[i] = Script(t.op)[n + 1 + i]
    BY <1>4, <2>1
  <2>3. n + 1 + i \in Nat /\ n + 2 <= n + 1 + i /\ n + 1 + i <= m
    BY <1>1, <1>6, <2>1
  <2> QED
    BY <2>1, <2>2, <2>3 DEF n
<1>11. Min(next) = j
  <2>1. Min(next) \in Nat /\ Min(next) <= j /\ j <= Min(next)
    <3>1. Min(next) \in 1..left
      BY <1>9
    <3> HIDE DEF next
    <3> QED
      BY <1>7, <1>9, <1>10, <3>1
  <2> HIDE DEF next
  <2> QED
    BY <2>1
<1>12. u.todo = SubSeq(tail, j, left)
  <2>1. AfterRun(tail) = IF next = {} THEN <<>> ELSE SubSeq(tail, Min(next), left)
    BY DEF AfterRun, left
  <2> HIDE DEF next
  <2> QED
    BY <1>7, <1>11, <2>1 DEF tail
<1>13. /\ u.todo \in Seq(Step) /\ Len(u.todo) = left - j + 1
       /\ \A k \in 1..(left - j + 1) : u.todo[k] = tail[j + k - 1]
  <2>1. j \in Int /\ left \in Int /\ j <= left
    BY <1>1, <1>6
  <2>2. \A i \in j..left : tail[i] \in Step
    <3>1. \A i \in 1..Len(tail) : tail[i] \in Step
      BY <1>1
    <3>2. j..left \subseteq 1..Len(tail)
      BY <1>1, <1>6 DEF left
    <3> QED
      BY <3>1, <3>2
  <2>3. /\ SubSeq(tail, j, left) \in Seq(Step)
        /\ Len(SubSeq(tail, j, left)) = IF j <= left THEN left - j + 1 ELSE 0
        /\ \A i \in 1..(left - j + 1) : SubSeq(tail, j, left)[i] = tail[j + i - 1]
    BY <2>1, <2>2, SubSeqProperties
  <2> QED
    BY <1>12, <2>1, <2>3
<1>14. Done(u) = m /\ Len(u.todo) <= Len(Script(u.op)) /\ left - j + 1 = all - m
  <2>1. Len(u.todo) = all - m /\ left - j + 1 = all - m
    <3>1. Len(u.todo) = left - j + 1
      BY <1>13
    <3>2. left - j + 1 = all - m
      BY <1>3, <1>5, <1>16, <1>17
    <3> QED
      BY <3>1, <3>2
  <2>2. Done(u) = all - Len(u.todo)
    BY DEF Done, all
  <2> DEFINE x == Len(u.todo)
  <2>3. x = all - m /\ Done(u) = all - x
    BY <2>1, <2>2
  <2> HIDE DEF x
  <2>4. Done(u) = m /\ x <= all
    BY <1>2, <2>3
  <2> QED
    BY <2>1, <2>4 DEF all, x
<1>15. ASSUME NEW k \in 1..Len(u.todo)
       PROVE  u.todo[k] = Script(u.op)[Done(u) + k]
  <2>1. k \in 1..(left - j + 1)
    BY <1>13
  <2>2. u.todo[k] = tail[j + k - 1] /\ j + k - 1 \in 1..left
    BY <1>1, <1>6, <1>13, <2>1
  <2>3. tail[j + k - 1] = Script(t.op)[n + 1 + (j + k - 1)]
    BY <1>4, <2>2
  <2>4. n + 1 + (j + k - 1) = m + k
    BY <1>1, <1>5, <2>1
  <2> QED
    BY <1>14, <2>2, <2>3, <2>4
<1> QED
  BY <1>13, <1>14, <1>15 DEF OnScript

\* A refused run of the API ends the operation, the two of a rebuild lead to the next.
LEMMA Refused ==
    ASSUME NEW t, t.op \in Ops, t.todo \in Seq(Step), t.todo # <<>>, OnScript(t), NEW of,
           Place("recheck", t.op, Done(t), of),
           NEW u, u.op = t.op, u.todo = AfterRun(Tail(t.todo))
    PROVE  /\ u.todo \in Seq(Step)
           /\ \/ u.todo = <<>>
              \/ OnScript(u) /\ t.op = "replay" /\ Done(u) \in {10, 15}
<1> HIDE DEF Step
<1>1. CASE t.op = "run_replay"
  <2> DEFINE tail == Tail(t.todo)
             next == {i \in 1..Len(tail) : tail[i].do \in {"recheck", "clean"}}
  <2>1. PICK s : s = Script(t.op)
    OBVIOUS
  <2>2. /\ Len(s) = 6
        /\ s[2] = Do("read", "bars")
        /\ s[3] = Do("read", "features")
        /\ s[4] = Do("read", "candidates")
        /\ s[5] = Do("write", "replay")
        /\ s[6] = Do("mark", "replay")
    BY <1>1, <2>1, RunReplayEntries, Zenon
  <2>3. Done(t) = 0
    BY <1>1 DEF Place
  <2>4. /\ Len(tail) \in Nat /\ Len(tail) = 5
        /\ \A k \in 1..Len(tail) : tail[k] = t.todo[k + 1]
        /\ Len(t.todo) = 6
    <3> DEFINE x == Len(t.todo)
               y == Len(tail)
               z == Len(s)
    <3>1. x \in Nat /\ y = x - 1 /\ z = 6 /\ z - x = 0 /\ y \in Nat
          /\ \A k \in 1..y : tail[k] = t.todo[k + 1]
      BY <2>1, <2>2, <2>3, Suffix DEF Done
    <3> HIDE DEF x, y, z
    <3>2. y = 5 /\ x = 6
      BY <3>1
    <3> QED
      BY <3>1, <3>2 DEF x, y
  <2>5. \A k \in 1..5 : tail[k] = s[k + 1]
    <3>1. \A k \in 1..6 : t.todo[k] = s[0 + k]
      BY <2>1, <2>3, <2>4 DEF OnScript
    <3> HIDE DEF tail
    <3> QED
      BY <2>4, <3>1
  <2>6. \A k \in 1..5 : tail[k].do \notin {"recheck", "clean"}
    <3> HIDE DEF tail
    <3> SUFFICES ASSUME NEW k \in 1..5 PROVE tail[k].do \notin {"recheck", "clean"}
      OBVIOUS
    <3>1. k = 1 \/ k = 2 \/ k = 3 \/ k = 4 \/ k = 5
      OBVIOUS
    <3> QED
      BY <2>2, <2>5, <3>1 DEF Do
  <2>7. next = {}
    <3> HIDE DEF tail
    <3> QED
      BY <2>4, <2>6
  <2>8. u.todo = <<>>
    BY <2>7 DEF AfterRun
  <2>9. <<>> \in Seq(Step)
    OBVIOUS
  <2> QED
    BY <2>8, <2>9, Zenon
<1>2. CASE t.op = "replay"
  <2>1. PICK s : s = Script(t.op)
    OBVIOUS
  <2>2. /\ Len(s) = 16
        /\ s[6] = Do("read", "bars")
        /\ s[7] = Do("read", "features")
        /\ s[8] = Do("read", "candidates")
        /\ s[9] = Do("write", "replay")
        /\ s[10] = Do("mark", "replay")
        /\ s[11] = Do("recheck", "replay")
        /\ s[12] = Do("read", "bars")
        /\ s[13] = Do("read", "features")
        /\ s[14] = Do("read", "candidates")
        /\ s[15] = Do("write", "counterfactual")
        /\ s[16] = Do("clean", "replay")
    BY <1>2, <2>1, ReplayEntries, Zenon
  <2>3. Done(t) = 4 \/ Done(t) = 10
    BY <1>2 DEF Place
  <2>4. CASE Done(t) = 4
    <3>1. PICK m \in Nat : m = 10
      OBVIOUS
    <3>2. Done(t) < m /\ m < Len(s) /\ s[m + 1].do \in {"recheck", "clean"}
      BY <2>2, <2>4, <3>1 DEF Do
    <3>3. ASSUME NEW k \in Nat, Done(t) + 2 <= k, k <= m
          PROVE  s[k].do \notin {"recheck", "clean"}
      <4>1. k = 6 \/ k = 7 \/ k = 8 \/ k = 9 \/ k = 10
        BY <2>4, <3>1, <3>3
      <4> QED
        BY <2>2, <4>1 DEF Do
    <3>4. u.todo \in Seq(Step) /\ OnScript(u) /\ Done(u) = m
      BY <2>1, <3>2, <3>3, Skips
    <3> QED
      BY <1>2, <3>1, <3>4
  <2>5. CASE Done(t) = 10
    <3>1. PICK m \in Nat : m = 15
      OBVIOUS
    <3>2. Done(t) < m /\ m < Len(s) /\ s[m + 1].do \in {"recheck", "clean"}
      BY <2>2, <2>5, <3>1 DEF Do
    <3>3. ASSUME NEW k \in Nat, Done(t) + 2 <= k, k <= m
          PROVE  s[k].do \notin {"recheck", "clean"}
      <4>1. k = 12 \/ k = 13 \/ k = 14 \/ k = 15
        BY <2>5, <3>1, <3>3
      <4> QED
        BY <2>2, <4>1 DEF Do
    <3>4. u.todo \in Seq(Step) /\ OnScript(u) /\ Done(u) = m
      BY <2>1, <3>2, <3>3, Skips
    <3> QED
      BY <1>2, <3>1, <3>4
  <2> QED
    BY <2>3, <2>4, <2>5
<1> QED
  BY <1>1, <1>2 DEF Place

LEMMA RecheckKeeps ==
    ASSUME PipelineInv, NEW p \in Procs, Recheck(p)
    PROVE  PipelineInv'
<1> DEFINE stale == dirty["features"] \union dirty["candidates"] # {}
           allowStale == task[p].op = "run_replay" /\ task[p].force
<1>1. Busy(p) /\ Head(task[p].todo).do = "recheck"
  BY DEF Recheck, At
<1>2. OnlyCleans /\ dirty' \in [Artifacts -> SUBSET Days] /\ faults' = faults
  BY DEF Recheck, OnlyCleans, PipelineInv, TypeOK
<1>3. CASE ~(stale /\ ~allowStale)
  <2>1. Advance(p)
    BY <1>3 DEF Recheck
  <2>2. (task[p].op = "run_replay" => ~task[p].force)
           => dirty["features"] = {} /\ dirty["candidates"] = {}
    BY <1>3
  <2> QED
    BY <1>1, <1>2, <2>1, <2>2, Advances
<1>4. CASE stale /\ ~allowStale
  <2>1. PICK t : t = task[p]
    OBVIOUS
  <2>2. PICK u : u = [t EXCEPT !.todo = AfterRun(Tail(t.todo))]
    OBVIOUS
  <2>3. Continue(p, u)
    BY <1>4, <2>1, <2>2 DEF Recheck
  <2>4. /\ t \in Task /\ Sound(t) /\ t.todo # <<>> /\ OnScript(t) /\ t.op \in Ops
        /\ Place("recheck", t.op, Done(t), Head(t.todo).of)
    BY <1>1, <2>1, Taken DEF Sound
  <2>5. t.todo \in Seq(Step)
    BY <2>4, Fields
  <2>6. u.op = t.op /\ u.todo = AfterRun(Tail(t.todo))
    BY <2>2, <2>4 DEF Task
  <2>7. /\ u.todo \in Seq(Step)
        /\ u.todo = <<>> \/ (OnScript(u) /\ t.op = "replay" /\ Done(u) \in {10, 15})
    BY <2>4, <2>5, <2>6, Refused
  <2>8. /\ u \in Task /\ u.force = t.force /\ u.saved = t.saved
        /\ u.got = t.got /\ u.touched = t.touched /\ u.range = t.range
    <3>1. PICK rest \in Seq(Step) : rest = AfterRun(Tail(t.todo))
      BY <2>6, <2>7
    <3>2. u = [t EXCEPT !.todo = rest]
      BY <2>2, <3>1
    <3> QED
      BY <2>4, <3>1, <3>2 DEF Task
  <2>9. CASE u.todo # <<>>
    <3>1. OnScript(u) /\ t.op = "replay" /\ Done(u) \in {10, 15}
      BY <2>7, <2>9
    <3>2. \A s : HasChecked(u, s) => HasChecked(t, s)
      BY <2>6, <2>8, <3>1 DEF HasChecked
    <3>3. \A s : ~HasRead(u, s) /\ ~HasWritten(u, s)
      BY <2>6, <3>1 DEF HasRead, HasWritten
    <3>4. Sound(u)'
      BY <1>2, <2>4, <2>6, <2>8, <3>1, <3>2, <3>3, StaySound
    <3> QED
      BY <1>2, <2>3, <2>8, <3>4, Continues
  <2>10. CASE u.todo = <<>>
    BY <1>2, <2>3, <2>8, <2>10, Continues
  <2> QED
    BY <2>9, <2>10
<1> QED
  BY <1>3, <1>4

LEMMA WriteKeeps ==
    ASSUME PipelineInv, NEW p \in Procs, Write(p)
    PROVE  PipelineInv'
<1>1. Busy(p) /\ Head(task[p].todo).do = "write"
  BY DEF Write, At
<1>2. PICK t : t = task[p]
  OBVIOUS
<1>3. PICK of : of = Of(p)
  OBVIOUS
<1>4. PICK days : days = IF of = "counterfactual" THEN {} ELSE Observed(t, of)
  OBVIOUS
<1>5. PICK u : u = [t EXCEPT !.todo = Tail(t.todo), !.saved = t.saved \union {of}]
  OBVIOUS
<1>6. /\ made' = [b \in Artifacts |-> [d \in Days |->
                    IF b = of /\ d \in days THEN Computed(t, of, d) ELSE made[b][d]]]
      /\ Change(p, u, days)
      /\ bars' = bars /\ dirty' = dirty /\ faults' = faults
  BY <1>2, <1>3, <1>4, <1>5 DEF Write
<1>7. /\ t \in Task /\ Sound(t) /\ Tail(t.todo) \in Seq(Step) /\ TypeOK /\ RowsHaveBars
      /\ Place("write", t.op, Done(t), of) /\ of = Head(t.todo).of
      /\ t.op \in Ops /\ Done(t) \in Nat
  BY <1>1, <1>2, <1>3, Taken
<1>8. of \in Artifacts \union {"counterfactual"}
  BY <1>7, AtWrite
<1>9. days \in SUBSET Days
  BY <1>4 DEF Observed
<1>10. /\ u \in Task /\ u.op = t.op /\ u.force = t.force /\ u.saved = t.saved \union {of}
       /\ u.touched = t.touched /\ u.range = t.range /\ u.got = t.got /\ u.todo = Tail(t.todo)
  <2>1. PICK saved \in SUBSET (Artifacts \union {"counterfactual"}) :
           saved = t.saved \union {of}
    BY <1>7, <1>8, Fields
  <2>2. u = [t EXCEPT !.todo = Tail(t.todo), !.saved = saved]
    BY <1>5, <2>1
  <2> QED
    BY <1>7, <2>1, <2>2 DEF Task
<1>11. StepsTo(t, u, "write", of) /\ OnScript(u)
  <2>1. Head(t.todo).do = "write" /\ Head(t.todo).of = of
    BY <1>1, <1>2, <1>7
  <2>2. StepsTo(t, u, Head(t.todo).do, Head(t.todo).of) /\ OnScript(u)
    BY <1>1, <1>2, <1>10, <2>1, Goes
  <2> QED
    BY <2>1, <2>2
<1>12. Sound(u)' /\ RowsHaveBars'
  <2>1. TypeOK /\ RowsHaveBars /\ t \in Task /\ Sound(t)
    BY <1>7
  <2>2. u.touched = t.touched /\ u.range = t.range /\ u.got = t.got
    BY <1>10
  <2>3. Rewrites(t, of, days)
    BY <1>4, <1>6 DEF Rewrites
  <2> QED
    BY <1>11, <2>1, <2>2, <2>3, WriteSound
<1>13. /\ task' \in [Procs -> Task]
       /\ task'[p] = (IF u.todo = <<>> THEN Idle ELSE u)
       /\ OthersSee(p, days)
  BY <1>6, <1>7, <1>9, <1>10, ChangeTasks DEF OthersSee
<1>14. PICK v \in Task : v = task'[p]
  BY <1>13
<1>15. v.todo = <<>> \/ Sound(v)'
  BY <1>12, <1>13, <1>14, IdleIsTask
<1>16. ApartFrom(days) /\ \A d \in Days : bars[d] > 0 => bars'[d] > 0
  BY <1>6 DEF ApartFrom
<1>18. PICK stay \in SUBSET MayStay(u, of, days) :
           leftover' = [b \in Artifacts |-> IF b # of THEN leftover[b]
                          ELSE Untaken(u, of, days) \union Besides(u, of, days) \union stay]
  <2> DEFINE written == IF Of(p) = "counterfactual" THEN {} ELSE Observed(task[p], Of(p))
             after == [task[p] EXCEPT !.todo = Tail(@), !.saved = @ \union {Of(p)}]
  <2>1. \E stay \in SUBSET MayStay(after, Of(p), written) :
           leftover' = [b \in Artifacts |-> IF b # Of(p) THEN leftover[b]
                          ELSE Untaken(after, Of(p), written) \union Besides(after, Of(p), written)
                                 \union stay]
    BY DEF Write
  <2>2. u = after /\ days = written
    BY <1>2, <1>3, <1>4, <1>5
  <2> HIDE DEF written, after
  <2> QED
    BY <1>3, <2>1, <2>2
<1>19. /\ MayStay(u, of, days) \subseteq days /\ Besides(u, of, days) \subseteq days
       /\ Untaken(u, of, days) \subseteq leftover[of]
  BY DEF MayStay, Besides, Untaken
<1>20. ASSUME NEW d \in days, of \in Artifacts
       PROVE  made'[of][d] # NoRow
  <2>1. Computed(t, of, d)[d] > 0 /\ d \in Days
    BY <1>4, <1>20 DEF Observed
  <2>2. made'[of][d] = Computed(t, of, d)
    BY <1>6, <1>20, <2>1
  <2>3. NoRow[d] = 0
    BY <2>1 DEF NoRow
  <2> QED
    BY <2>1, <2>2, <2>3
<1>21. LeftoversHaveRows'
  <2> SUFFICES ASSUME NEW b \in Artifacts, NEW d \in Days, d \in leftover'[b]
               PROVE  made'[b][d] # NoRow
    BY DEF LeftoversHaveRows
  <2>1. d \in leftover[b] => made[b][d] # NoRow
    BY DEF PipelineInv, LeftoversHaveRows
  <2>2. CASE b = of /\ d \in days
    BY <1>20, <2>2
  <2>3. CASE ~(b = of /\ d \in days)
    <3>1. d \in leftover[b]
      BY <1>18, <1>19, <2>3
    <3>2. made'[b][d] = made[b][d]
      BY <1>6, <2>3
    <3> QED
      BY <2>1, <3>1, <3>2
  <2> QED
    BY <2>2, <2>3
<1>22. leftover' \in [Artifacts -> SUBSET Days]
  <2>1. leftover \in [Artifacts -> SUBSET Days]
    BY <1>7 DEF TypeOK
  <2>2. of \in Artifacts => Untaken(u, of, days) \union Besides(u, of, days) \union stay \in SUBSET Days
    BY <1>9, <1>19, <2>1
  <2> QED
    BY <1>18, <2>1, <2>2
<1>17. TablesTyped'
  <2>1. \A b \in Artifacts, d \in Days :
           (IF b = of /\ d \in days THEN Computed(t, of, d) ELSE made[b][d]) \in Row
    BY <1>7, ComputedIs DEF TypeOK
  <2>2. made' \in [Artifacts -> [Days -> Row]]
    BY <1>6, <2>1
  <2> QED
    BY <1>6, <1>7, <1>22, <2>2 DEF TypeOK, TablesTyped
<1> QED
  BY <1>9, <1>12, <1>13, <1>14, <1>15, <1>16, <1>17, <1>21, Together

LEMMA UpsertKeeps ==
    ASSUME PipelineInv, NEW p \in Procs, NEW days \in SUBSET Days, Upsert(p, days)
    PROVE  PipelineInv'
<1>1. /\ bars' = [d \in Days |-> IF d \in days THEN bars[d] + 1 ELSE bars[d]]
      /\ dirty' = [a \in Artifacts |-> IF a \in MarkedByUpsert THEN dirty[a] \union days
                                                               ELSE dirty[a]]
      /\ made' = made /\ leftover' = leftover /\ faults' = faults /\ Change(p, Idle, days)
      /\ \A d \in days : bars[d] < MaxUpserts
      /\ TypeOK /\ RowsHaveBars
  BY DEF Upsert, PipelineInv
<1>2. /\ task' \in [Procs -> Task] /\ task'[p] = Idle /\ OthersSee(p, days)
  BY <1>1, IdleIsTask, ChangeTasks DEF OthersSee
<1>3. bars' \in [Days -> Revision]
  <2>1. \A d \in Days : (IF d \in days THEN bars[d] + 1 ELSE bars[d]) \in Revision
    BY <1>1, SizesAssumption DEF TypeOK, Revision
  <2> QED
    BY <1>1, <2>1
<1>4. dirty' \in [Artifacts -> SUBSET Days]
  BY <1>1 DEF TypeOK
<1>5. TablesTyped'
  BY <1>1, <1>3, <1>4 DEF TypeOK, TablesTyped
<1>6. \A d \in Days : bars[d] > 0 => bars'[d] > 0
  <2> SUFFICES ASSUME NEW d \in Days, bars[d] > 0 PROVE bars'[d] > 0
    OBVIOUS
  <2>1. bars[d] \in Nat
    BY <1>1, SizesAssumption DEF TypeOK, Revision
  <2> QED
    BY <1>1, <2>1
<1>7. ApartFrom(days)
  BY <1>1 DEF ApartFrom
<1>8. RowsHaveBars'
  BY <1>1, <1>6 DEF RowsHaveBars, NoRow
<1>9. LeftoversHaveRows'
  BY <1>1 DEF PipelineInv, LeftoversHaveRows
<1> QED
  BY <1>2, <1>5, <1>6, <1>7, <1>8, <1>9, IdleIsTask, Together

\* An operation starts knowing nothing.
LEMMA StartKeeps ==
    ASSUME PipelineInv, NEW p \in Procs, NEW op \in Ops, NEW range \in Ranges,
           NEW force \in Forces, Start(p, op, range, force)
    PROVE  PipelineInv'
<1>1. OnlyCleans /\ dirty' \in [Artifacts -> SUBSET Days] /\ faults' = faults
      /\ faults' \in 0..MaxFaults /\ task \in [Procs -> Task]
  BY DEF Start, OnlyCleans, PipelineInv, TypeOK
<1>2. PICK u : u = [Idle EXCEPT !.op = op, !.range = range, !.force = force,
                                !.todo = Script(op)]
  OBVIOUS
<1>3. PICK script \in Seq(Step) : script = Script(op) /\ Len(script) \in Nat
  BY ScriptTyped, Zenon
<1>4. range \in (Days \X Days) \union {All} /\ force \in BOOLEAN
  BY RangesAssumption
<1>5. /\ u.op = op /\ u.range = range /\ u.force = force /\ u.todo = script
      /\ u.saved = {} /\ u.touched = {} /\ u.got = Nothing
  BY <1>2, <1>3 DEF Idle
<1>6. u \in Task
  <2>1. u = [Idle EXCEPT !.op = op, !.range = range, !.force = force, !.todo = script]
    BY <1>2, <1>3
  <2> QED
    BY <2>1, <1>4, IdleIsTask DEF Task
<1>7. Done(u) = 0 /\ OnScript(u)
  <2>1. Done(u) = Len(script) - Len(script)
    BY <1>3, <1>5, Zenon DEF Done
  <2>2. Done(u) = 0
    <3> DEFINE x == Len(script)
    <3>1. x \in Nat /\ Done(u) = x - x
      BY <1>3, <2>1
    <3> HIDE DEF x
    <3> QED
      BY <3>1
  <2>3. \A k \in 1..Len(script) : script[k] = script[Done(u) + k]
    BY <2>2
  <2> QED
    BY <1>3, <1>5, <2>2, <2>3 DEF OnScript
<1>8. Runs(u)
  <2>1. range = All \/ range[1] <= range[2]
    BY RangesAssumption
  <2>2. op \in {"build_features", "build_labels"} => range = All
    BY DEF Start, Asked
  <2> QED
    BY <1>5, <2>1, <2>2 DEF Runs
<1>9. \A s : ~HasChecked(u, s) /\ ~HasRead(u, s) /\ ~HasWritten(u, s)
  BY <1>5, <1>7 DEF HasChecked, HasRead, HasWritten
<1>10. Saves(u) /\ CheckStands(u)' /\ ReadStands(u)' /\ WriteStands(u)'
  BY <1>5, <1>9 DEF Saves, CheckStands, ReadStands, WriteStands
<1>11. ReadHasBars(u)'
  <2>1. \A s \in Sources, d \in Days : Nothing[s][d][d] = 0
    BY DEF Nothing, NoRow
  <2> QED
    BY <1>5, <2>1 DEF ReadHasBars
<1>12. Sound(u)'
  BY <1>7, <1>8, <1>10, <1>11 DEF Sound
<1>13. task' = [task EXCEPT ![p] = u]
  BY <1>2 DEF Start
<1>14. task' \in [Procs -> Task] /\ task'[p] = u /\ \A q \in Procs \ {p} : task'[q] = task[q]
  BY <1>1, <1>6, <1>13
<1> QED
  BY <1>1, <1>6, <1>12, <1>14, Quietly

LEMMA CrashKeeps ==
    ASSUME PipelineInv, NEW p \in Procs, Crash(p)
    PROVE  PipelineInv'
<1>1. OnlyCleans /\ dirty' \in [Artifacts -> SUBSET Days] /\ End(p)
  BY DEF Crash, OnlyCleans, PipelineInv, TypeOK
<1>2. faults' \in 0..MaxFaults
  BY SizesAssumption DEF Crash, PipelineInv, TypeOK
<1> QED
  BY <1>1, <1>2, Ends

LEMMA NextKeeps ==
    ASSUME PipelineInv, [Next]_vars
    PROVE  PipelineInv'
<1>1. CASE Next
  <2>1. PICK p \in Procs :
           \/ \E days \in SUBSET Days : Upsert(p, days)
           \/ \E op \in Ops, range \in Ranges, force \in Forces : Start(p, op, range, force)
           \/ Work(p)
           \/ Crash(p)
    BY <1>1 DEF Next
  <2>2. CASE Work(p)
    BY <2>2, CheckKeeps, NeedKeeps, WindowKeeps, ListKeeps, RecheckKeeps, ReadKeeps,
       WriteKeeps, MarkKeeps, CleanKeeps DEF Work
  <2> QED
    BY <2>1, <2>2, UpsertKeeps, StartKeeps, CrashKeeps
<1>2. CASE UNCHANGED vars
  <2>1. /\ bars' = bars /\ made' = made /\ dirty' = dirty /\ task' = task /\ faults' = faults
        /\ leftover' = leftover
    BY <1>2 DEF vars
  <2>2. TypeOK' /\ RowsHaveBars' /\ LeftoversHaveRows'
    BY <2>1 DEF PipelineInv, TypeOK, RowsHaveBars, LeftoversHaveRows
  <2>3. ASSUME NEW q \in Procs, Busy(q)'
        PROVE  Sound(task[q])'
    <3>1. PICK t : t = task[q]
      OBVIOUS
    <3>2. PICK v : v = t
      OBVIOUS
    <3>3. t \in Task /\ Sound(t)
      BY <2>1, <2>3, <3>1 DEF PipelineInv, TypeOK, Busy
    <3>4. OnlyCleans
      BY <2>1 DEF OnlyCleans
    <3>5. Sound(v)'
      BY <3>2, <3>3, <3>4, StaySound DEF Sound
    <3>6. task'[q] = v
      BY <2>1, <3>1, <3>2
    <3> QED
      BY <3>5, <3>6
  <2> QED
    BY <2>2, <2>3 DEF PipelineInv
<1> QED
  BY <1>1, <1>2

\* The invariant holds in every interleaving, whoever dies on the way.
THEOREM PipelineInvariant == Spec => []PipelineInv
<1>1. Init => PipelineInv
  <2> SUFFICES ASSUME Init PROVE PipelineInv
    OBVIOUS
  <2>1. 0 \in Revision
    BY SizesAssumption DEF Revision
  <2>2. NoRow \in Row
    BY <2>1 DEF NoRow, Row
  <2>3. TypeOK
    BY <2>1, <2>2, IdleIsTask, SizesAssumption DEF Init, TypeOK
  <2>4. RowsHaveBars
    BY DEF Init, RowsHaveBars
  <2>5. \A p \in Procs : ~Busy(p)
    BY IdleIsTask DEF Init, Busy
  <2>6. LeftoversHaveRows
    BY DEF Init, LeftoversHaveRows
  <2> QED
    BY <2>3, <2>4, <2>5, <2>6 DEF PipelineInv
<1> QED
  BY <1>1, NextKeeps, PTL DEF Spec

\* The variables have their types.
THEOREM TypeCorrect == Spec => []TypeOK
<1>1. PipelineInv => TypeOK
  BY DEF PipelineInv
<1> QED
  BY <1>1, PipelineInvariant, PTL

-----------------------------------------------------------------------------
(***************************************************************************)
(* The ways to hide outdated rows.                                         *)
(***************************************************************************)

\* What the last build wrote is outdated behind a clean window; Hidden also counts the rows
\* that stay from before.
Outdates(a, d) == d \notin dirty[a] /\ made[a][d] # Current(d)

\* A process that does not hide d: nobody touched it, its inputs have the current content.
LEMMA InputsCurrent ==
    ASSUME PipelineInv, NEW p \in Procs, Busy(p), NEW t, t = task[p],
           NEW a \in Artifacts, NEW d \in Days, ~Hides(p, a, d),
           \A s \in Inputs(t.op, a) \ {"bars"} : HasChecked(t, s) \/ Takes(t, s)
    PROVE  /\ Untouched(t, d) /\ ~InputOutdated(t, a, d)
           /\ InRange(t.range, d) => Covers(t, d)
           /\ t.op \in Rebuilds => InRange(t.range, d)
           /\ t.saved # {"counterfactual"}
<1>1. /\ \A e \in 1..d : e \notin t.touched
      /\ \A s \in Inputs(t.op, a) \ {"bars"} :
            ~Hidden(s, d) /\ ~(TakesDirty(p, s) /\ d \in dirty[s])
      /\ t.op \in Rebuilds => InRange(t.range, d)
      /\ t.op = "features" => \A e \in 1..d : InRange(t.range, e)
      /\ t.saved # {"counterfactual"}
  BY DEF Hides
<1>2. Untouched(t, d)
  BY <1>1 DEF Untouched
<1>3. ASSUME NEW s \in Inputs(t.op, a) \ {"bars"}
      PROVE  made[s][d] = Current(d)
  <2>1. s \in Artifacts
    BY SomeInputs DEF Sources, Artifacts
  <2>2. HasChecked(t, s) => d \notin dirty[s]
    BY <1>2, <2>1, Taken DEF Sound, CheckStands
  <2>3. Takes(t, s) => TakesDirty(p, s)
    BY DEF Takes, TakesDirty
  <2>4. d \notin dirty[s]
    BY <1>1, <2>2, <2>3
  <2> QED
    BY <1>1, <2>4 DEF Hidden
<1> QED
  BY <1>1, <1>2, <1>3 DEF InputOutdated, Covers

\* Such a process cleans the windows of current rows.
LEMMA CleansCurrent ==
    ASSUME PipelineInv, NEW p \in Procs, Busy(p), NEW t, t = task[p],
           NEW a \in Artifacts, NEW d \in Days, ~Hides(p, a, d), InRange(t.range, d),
           \A s \in Inputs(t.op, a) \ {"bars"} : HasChecked(t, s) \/ Takes(t, s),
           a \in t.saved
    PROVE  made[a][d] = Current(d)
BY InputsCurrent, Taken DEF Sound, WriteStands

\* Where bars and rows stay as they are only windows that get clean hide something.
LEMMA HiddenByCleaning ==
    ASSUME bars' = bars, made' = made, NEW a \in Artifacts, NEW d \in Days,
           Outdates(a, d)', ~Outdates(a, d)
    PROVE  d \in dirty[a] /\ d \notin dirty'[a] /\ made[a][d] # Current(d)
<1>1. Current(d)' = Current(d)
  BY DEF Current, UpTo, NoRow
<1> QED
  BY <1>1 DEF Outdates

LEMMA UpsertHides ==
    ASSUME PipelineInv, NEW p \in Procs, NEW days \in SUBSET Days, Upsert(p, days),
           NEW a \in Artifacts, NEW d \in Days, Outdates(a, d)', ~Outdates(a, d)
    PROVE  \E e \in 1..(d - 1) : bars'[e] # bars[e]
<1>1. /\ \A e \in Days : e \notin days => bars'[e] = bars[e]
      /\ dirty'[a] = dirty[a] \union days /\ made' = made
  BY DEF Upsert, MarkedByUpsert
<1>2. d \notin days /\ made[a][d] = Current(d) /\ Current(d)' # Current(d)
  BY <1>1 DEF Outdates
<1> SUFFICES ASSUME \A e \in 1..(d - 1) : bars'[e] = bars[e] PROVE FALSE
  OBVIOUS
<1>3. \A e \in Days : e <= d => bars'[e] = bars[e]
  <2> SUFFICES ASSUME NEW e \in Days, e <= d PROVE bars'[e] = bars[e]
    OBVIOUS
  <2>1. e \in 1..(d - 1) \/ e = d
    BY DEF Days
  <2> QED
    BY <1>1, <1>2, <2>1
<1>4. UpTo(bars, d)' = UpTo(bars, d)
  BY <1>3 DEF UpTo
<1>5. bars'[d] = bars[d]
  BY <1>1, <1>2
<1> QED
  BY <1>2, <1>4, <1>5 DEF Current, NoRow

LEMMA WriteHides ==
    ASSUME PipelineInv, NEW p \in Procs, Write(p),
           NEW a \in Artifacts, NEW d \in Days, Outdates(a, d)', ~Outdates(a, d)
    PROVE  Hides(p, a, d)
<1> SUFFICES ASSUME ~Hides(p, a, d) PROVE FALSE
  OBVIOUS
<1>1. Busy(p) /\ Head(task[p].todo).do = "write"
  BY DEF Write, At
<1>2. PICK t : t = task[p]
  OBVIOUS
<1>3. PICK of : of = Of(p)
  OBVIOUS
<1>4. PICK days : days = IF of = "counterfactual" THEN {} ELSE Observed(t, of)
  OBVIOUS
<1>5. /\ made'[a][d] = IF a = of /\ d \in days THEN Computed(t, of, d) ELSE made[a][d]
      /\ bars' = bars /\ dirty' = dirty
  <2>1. made' = [b \in Artifacts |-> [e \in Days |->
                   IF b = of /\ e \in days THEN Computed(t, of, e) ELSE made[b][e]]]
    BY <1>2, <1>3, <1>4 DEF Write
  <2>2. bars' = bars /\ dirty' = dirty
    BY DEF Write
  <2> QED
    BY <2>1, <2>2
<1>6. Current(d)' = Current(d)
  BY <1>5 DEF Current, UpTo, NoRow
<1>7. made'[a][d] # Current(d) /\ made[a][d] = Current(d)
  BY <1>5, <1>6 DEF Outdates
<1>8. a = of /\ d \in Observed(t, a) /\ made'[a][d] = Computed(t, a, d)
  BY <1>4, <1>5, <1>7
<1>9. /\ t \in Task /\ Sound(t) /\ TypeOK /\ t.op \in Ops /\ Done(t) \in Nat
      /\ Place("write", t.op, Done(t), a)
  BY <1>1, <1>2, <1>3, <1>8, Taken
<1>10. /\ a \in Outputs(t.op) /\ \A s \in Inputs(t.op, a) : HasRead(t, s)
       /\ \A s \in Inputs(t.op, a) \ {"bars"} : HasChecked(t, s) \/ Takes(t, s)
  BY <1>9, AtWrite
<1>11. /\ Untouched(t, d) /\ ~InputOutdated(t, a, d)
       /\ InRange(t.range, d) => Covers(t, d)
  BY <1>1, <1>2, <1>10, InputsCurrent
<1>12. \A s \in Inputs(t.op, a) : t.got[s][d] = Found(s, t.range)[d]
  BY <1>9, <1>10, <1>11, SomeInputs DEF Sound, ReadStands
<1>13. InRange(t.range, d)
  <2>1. ~(d > d)
    BY DEF Days
  <2>2. PICK s \in InputsOf(t.op, a, d, d) : Computed(t, a, d)[d] = t.got[s][d][d]
    BY <1>9, <2>1, ComputedIs
  <2>3. s \in Inputs(t.op, a) /\ s \in Sources
    BY SomeInputs
  <2>4. Found(s, t.range)[d][d] > 0
    BY <1>8, <1>12, <2>2, <2>3 DEF Observed
  <2>5. ~InRange(t.range, d) => Found(s, t.range)[d] = NoRow
    BY DEF Found
  <2>6. NoRow[d] = 0
    BY DEF NoRow
  <2> QED
    BY <2>4, <2>5, <2>6
<1>14. a = "features" => t.op \in {"features", "build_features"}
  BY <1>9, <1>10 DEF Outputs, Ops
<1>15. GoodInputs(t, a, d)
  BY <1>9, <1>11, <1>12, <1>13, <1>14 DEF GoodInputs, Sound
<1>16. bars[d] > 0
  BY <1>8, <1>9, ObservedHasBars DEF Sound
<1> QED
  BY <1>7, <1>8, <1>9, <1>15, <1>16, ComputedIsCurrent

LEMMA MarkHides ==
    ASSUME PipelineInv, NEW p \in Procs, Mark(p),
           NEW a \in Artifacts, NEW d \in Days, Outdates(a, d)', ~Outdates(a, d)
    PROVE  Hides(p, a, d)
<1> SUFFICES ASSUME ~Hides(p, a, d) PROVE FALSE
  OBVIOUS
<1>1. Busy(p) /\ Head(task[p].todo).do = "mark" /\ bars' = bars /\ made' = made
  BY DEF Mark, At
<1>2. PICK t : t = task[p]
  OBVIOUS
<1>3. d \in dirty[a] /\ d \notin dirty'[a] /\ made[a][d] # Current(d)
  BY <1>1, HiddenByCleaning
<1>4. a = Of(p) /\ d \in MarkedDay(t)
  <2>1. dirty' = [dirty EXCEPT ![Of(p)] = @ \ MarkedDay(t)]
    BY <1>2 DEF Mark
  <2>2. dirty \in [Artifacts -> SUBSET Days]
    BY DEF PipelineInv, TypeOK
  <2> QED
    BY <1>3, <2>1, <2>2
<1>5. /\ t \in Task /\ Sound(t) /\ t.op \in Ops /\ Done(t) \in Nat
      /\ Place("mark", t.op, Done(t), a)
  BY <1>1, <1>2, <1>4, Taken
<1>6. a \in t.saved /\ \A s \in Inputs(t.op, a) \ {"bars"} : HasChecked(t, s) \/ Takes(t, s)
  BY <1>5, AtMark DEF Sound, Saves
<1>7. InRange(t.range, d)
  <2>1. CASE t.range = All
    BY <2>1 DEF InRange
  <2>2. CASE t.range # All
    <3>1. d = t.range[1]
      BY <1>4, <2>2 DEF MarkedDay
    <3>2. t.range[1] <= t.range[2] /\ d <= d
      BY <1>5, <2>2 DEF Sound, Runs, Days
    <3> QED
      BY <3>1, <3>2 DEF InRange
  <2> QED
    BY <2>1, <2>2
<1> QED
  BY <1>1, <1>2, <1>3, <1>6, <1>7, CleansCurrent

LEMMA CleanHides ==
    ASSUME PipelineInv, NEW p \in Procs, Clean(p),
           NEW a \in Artifacts, NEW d \in Days, Outdates(a, d)', ~Outdates(a, d)
    PROVE  Hides(p, a, d)
<1> SUFFICES ASSUME ~Hides(p, a, d) PROVE FALSE
  OBVIOUS
<1>1. Busy(p) /\ Head(task[p].todo).do = "clean" /\ bars' = bars /\ made' = made
  BY DEF Clean, At
<1>2. PICK t : t = task[p]
  OBVIOUS
<1>3. d \in dirty[a] /\ d \notin dirty'[a] /\ made[a][d] # Current(d)
  BY <1>1, HiddenByCleaning
<1>4. a = Of(p) /\ ~(a = "replay" /\ t.saved = {})
  <2> DEFINE left == IF Of(p) = "replay" /\ t.saved = {} THEN {} ELSE t.before
  <2>1. \/ left = {} /\ dirty' = dirty
        \/ left # {} /\ dirty' = [dirty EXCEPT ![Of(p)] = @ \ {Min(left)}]
    BY <1>2 DEF Clean
  <2>2. dirty \in [Artifacts -> SUBSET Days]
    BY DEF PipelineInv, TypeOK
  <2>3. a = Of(p) /\ left # {}
    <3> HIDE DEF left
    <3> QED
      BY <1>3, <2>1, <2>2
  <2> QED
    BY <2>3
<1>5. /\ t \in Task /\ Sound(t) /\ t.op \in Ops /\ Done(t) \in Nat
      /\ Place("clean", t.op, Done(t), a)
  BY <1>1, <1>2, <1>4, Taken
<1>6. a \in t.saved
  <2>1. CASE HasWritten(t, a)
    BY <1>5, <2>1 DEF Sound, Saves
  <2>2. CASE t.op = "replay" /\ a = "replay"
    <3>1. t.saved \subseteq {"replay", "counterfactual"}
      BY <1>5, <2>2 DEF Sound, Saves, Outputs
    <3>2. t.saved # {"counterfactual"}
      BY <1>1, <1>2 DEF Hides
    <3> QED
      BY <1>4, <2>2, <3>1, <3>2
  <2> QED
    BY <1>5, <2>1, <2>2, AtClean
<1>7. \A s \in Inputs(t.op, a) \ {"bars"} : HasChecked(t, s) \/ Takes(t, s)
  BY <1>5, <1>6, AtClean
<1>8. InRange(t.range, d)
  <2>1. t.op \in Rebuilds
    BY <1>5 DEF Place, Rebuilds
  <2> QED
    BY <1>1, <1>2, <1>7, <2>1, InputsCurrent
<1> QED
  BY <1>1, <1>2, <1>3, <1>6, <1>7, <1>8, CleansCurrent

\* Rows become outdated behind a clean window only in the ways Hides lists, as rows that an
\* upsert of candidates or labels left behind or that were made from those, or by new bars of
\* an earlier date (artifact_readiness, pipeline_state, BarRepository.upsert_many): each
\* other upsert, write, mark and clean of the code leaves clean windows of current rows.
THEOREM HiddenOnlyHolds == Spec => HiddenOnly
<1> DEFINE Explained(a, d) == \/ \E p \in Procs : Hides(p, a, d)
                              \/ \E e \in 1..(d - 1) : bars'[e] # bars[e]
<1>1. ASSUME PipelineInv, Next, NEW a \in Artifacts, NEW d \in Days,
             Outdates(a, d)', ~Outdates(a, d)
      PROVE  Explained(a, d)
  <2>1. PICK p \in Procs :
           \/ \E days \in SUBSET Days : Upsert(p, days)
           \/ \E op \in Ops, range \in Ranges, force \in Forces : Start(p, op, range, force)
           \/ Work(p)
           \/ Crash(p)
    BY <1>1 DEF Next
  <2>2. ASSUME NEW days \in SUBSET Days, Upsert(p, days)
        PROVE  Explained(a, d)
    BY <1>1, <2>2, UpsertHides
  <2>3. CASE Write(p)
    BY <1>1, <2>3, WriteHides
  <2>4. CASE Mark(p)
    BY <1>1, <2>4, MarkHides
  <2>5. CASE Clean(p)
    BY <1>1, <2>5, CleanHides
  <2>6. CASE UNCHANGED <<bars, made, leftover, dirty>>
    <3>1. bars' = bars /\ made' = made /\ dirty' = dirty
      BY <2>6
    <3> QED
      BY <1>1, <3>1, HiddenByCleaning
  <2>7. CASE \E op \in Ops, range \in Ranges, force \in Forces : Start(p, op, range, force)
    BY <2>6, <2>7 DEF Start
  <2>8. CASE Crash(p)
    BY <2>6, <2>8 DEF Crash
  <2>9. CASE Check(p) \/ Need(p) \/ Window(p) \/ List(p) \/ Recheck(p) \/ Read(p)
    BY <2>6, <2>9 DEF Check, Need, Window, List, Recheck, Read
  <2> HIDE DEF Explained
  <2> QED
    BY <2>1, <2>2, <2>3, <2>4, <2>5, <2>7, <2>8, <2>9 DEF Work
<1>2. PipelineInv /\ [Next]_vars =>
        [\A a \in Artifacts, d \in Days : Hidden(a, d)' /\ ~Hidden(a, d) =>
            \/ d \in leftover'[a]
            \/ \E p \in Procs : Hides(p, a, d)
            \/ \E e \in 1..(d - 1) : bars'[e] # bars[e]]_vars
  <2> SUFFICES ASSUME PipelineInv, Next, NEW a \in Artifacts, NEW d \in Days,
                      Hidden(a, d)', ~Hidden(a, d), d \notin leftover'[a]
               PROVE  Explained(a, d)
    OBVIOUS
  <2>1. Outdates(a, d)' /\ ~Outdates(a, d)
    BY DEF Hidden, Outdates
  <2> QED
    BY <1>1, <2>1
<1> QED
  BY <1>2, PipelineInvariant, PTL DEF Spec, HiddenOnly

-----------------------------------------------------------------------------
(***************************************************************************)
(* One process at a time, over all dates.                                  *)
(***************************************************************************)
OneOverAll ==
    /\ OneAtATime /\ Ranges \subseteq {All} /\ Forces \subseteq {FALSE}
    /\ \A p \in Procs : "build_labels" \notin MayRun[p]

OneBusy == \A p, q \in Procs : Busy(p) /\ Busy(q) => p = q

\* An operation that has the days to itself.
Alone(t) ==
    /\ t.touched = {} /\ ~t.force
    /\ t.op \notin {"build_labels", "run_replay"}
    /\ t.op # "replay" => t.range = All
    /\ \A d \in Days : bars[d] > 0 => InRange(t.range, d)

\* A replay rebuild stays with the clean inputs it has found, and so saves its portfolio run.
ReplayGoesThrough(t) ==
    t.op = "replay" => /\ Done(t) >= 2 => dirty["features"] = {}
                       /\ Done(t) >= 3 => dirty["candidates"] = {}
                       /\ Done(t) >= 9 => "replay" \in t.saved

SavedIsCurrent(t) ==
    \A a \in Artifacts, d \in Days : a \in t.saved => made[a][d][d] = bars[d]

\* No candidate row is newer than the feature row it derives from.
FeaturesFirst ==
    \A d \in Days : /\ made["candidates"][d][d] <= made["features"][d][d]
                    /\ made["features"][d][d] <= bars[d]

\* What the last build wrote derives from the current bars, also where rows stay from before.
WrittenIsCurrent ==
    \A a \in Artifacts, d \in Days : d \notin dirty[a] => made[a][d][d] = bars[d]

SerialInv ==
    /\ OneBusy
    /\ \A p \in Procs : Busy(p) => /\ Alone(task[p])
                                   /\ ReplayGoesThrough(task[p])
                                   /\ SavedIsCurrent(task[p])
    /\ FeaturesFirst
    /\ WrittenIsCurrent

\* Nobody else is busy, and what is known of untouched days is known of all.
LEMMA KnownAlone ==
    ASSUME PipelineInv, SerialInv, NEW p \in Procs, Busy(p), NEW t, t = task[p]
    PROVE  /\ \A q \in Procs \ {p} : ~Busy(q)
           /\ Alone(t) /\ ReplayGoesThrough(t) /\ SavedIsCurrent(t)
           /\ \A s \in Artifacts : HasChecked(t, s) => dirty[s] = {}
           /\ \A s \in Sources, d \in Days :
                 HasRead(t, s) => t.got[s][d] = Found(s, t.range)[d]
<1>1. Sound(t) /\ TypeOK
  BY Taken
<1>2. \A q \in Procs \ {p} : ~Busy(q)
  BY DEF SerialInv, OneBusy
<1>3. Alone(t) /\ ReplayGoesThrough(t) /\ SavedIsCurrent(t)
  BY DEF SerialInv
<1>4. \A d \in Days : Untouched(t, d)
  BY <1>3 DEF Alone, Untouched
<1>5. ASSUME NEW s \in Artifacts, HasChecked(t, s)
      PROVE  dirty[s] = {}
  <2>1. \A d \in Days : d \notin dirty[s]
    BY <1>1, <1>4, <1>5 DEF Sound, CheckStands
  <2>2. dirty[s] \subseteq Days
    BY <1>1 DEF TypeOK
  <2> QED
    BY <2>1, <2>2
<1> QED
  BY <1>1, <1>2, <1>3, <1>4, <1>5 DEF Sound, ReadStands

\* The others stay idle when p goes on or ends.
LEMMA StaysAlone ==
    ASSUME PipelineInv, SerialInv, NEW p \in Procs, Busy(p), NEW u \in Task,
           NEW days \in SUBSET Days, Change(p, u, days),
           u.todo # <<>> => Alone(u)' /\ ReplayGoesThrough(u)' /\ SavedIsCurrent(u)',
           FeaturesFirst', WrittenIsCurrent'
    PROVE  SerialInv'
<1>1. /\ task'[p] = (IF u.todo = <<>> THEN Idle ELSE u)
      /\ \A q \in Procs \ {p} : task'[q] = task[q]
  BY KnownAlone, ChangeTasks DEF PipelineInv
<1>2. \A q \in Procs \ {p} : ~Busy(q)'
  BY <1>1, KnownAlone DEF Busy
<1>3. OneBusy'
  BY <1>2 DEF OneBusy
<1>4. ASSUME NEW q \in Procs, Busy(q)'
      PROVE  Alone(task[q])' /\ ReplayGoesThrough(task[q])' /\ SavedIsCurrent(task[q])'
  <2>1. q = p
    BY <1>2, <1>4
  <2>2. u.todo # <<>> /\ task'[q] = u
    BY <1>1, <1>4, <2>1, IdleIsTask DEF Busy
  <2>3. Alone(u)' /\ ReplayGoesThrough(u)' /\ SavedIsCurrent(u)'
    BY <2>2
  <2> QED
    BY <2>2, <2>3
<1> QED
  BY <1>3, <1>4 DEF SerialInv

\* A step that cleans windows of rows p has saved, if any.
LEMMA GoesAlone ==
    ASSUME PipelineInv, SerialInv, NEW p \in Procs, Busy(p), NEW t, t = task[p],
           NEW u \in Task, Continue(p, u), OnlyCleans,
           \A a \in Artifacts : a \notin t.saved => dirty'[a] = dirty[a],
           Alone(u), ReplayGoesThrough(u)', u.saved = t.saved
    PROVE  SerialInv'
<1>1. bars' = bars /\ made' = made
  BY DEF OnlyCleans
<1>2. SavedIsCurrent(t) /\ WrittenIsCurrent /\ FeaturesFirst
  BY KnownAlone DEF SerialInv
<1>3. Alone(u)' /\ SavedIsCurrent(u)' /\ FeaturesFirst'
  BY <1>1, <1>2 DEF Alone, SavedIsCurrent, FeaturesFirst
<1>4. WrittenIsCurrent'
  BY <1>1, <1>2 DEF WrittenIsCurrent, SavedIsCurrent
<1>5. Change(p, u, {}) /\ {} \in SUBSET Days
  BY DEF Continue
<1> QED
  BY <1>3, <1>4, <1>5, StaysAlone

LEMMA EndsAlone ==
    ASSUME PipelineInv, SerialInv, NEW p \in Procs, End(p), UNCHANGED <<bars, made, leftover, dirty>>
    PROVE  SerialInv'
<1>1. task'[p] = Idle /\ \A q \in Procs \ {p} : task'[q] = task[q]
  BY EndTasks DEF PipelineInv
<1>2. bars' = bars /\ made' = made /\ dirty' = dirty
  OBVIOUS
<1>3. ~Busy(p)'
  BY <1>1, IdleIsTask DEF Busy
<1>4. \A q \in Procs : Busy(q)' => Busy(q) /\ task'[q] = task[q]
  BY <1>1, <1>3 DEF Busy
<1>5. OneBusy' /\ FeaturesFirst' /\ WrittenIsCurrent'
  BY <1>2, <1>4 DEF SerialInv, OneBusy, FeaturesFirst, WrittenIsCurrent
<1>6. ASSUME NEW q \in Procs, Busy(q)'
      PROVE  Alone(task[q])' /\ ReplayGoesThrough(task[q])' /\ SavedIsCurrent(task[q])'
  <2>1. task'[q] = task[q] /\ Busy(q)
    BY <1>4, <1>6
  <2> QED
    BY <1>2, <2>1 DEF SerialInv, Alone, ReplayGoesThrough, SavedIsCurrent, Done
<1> QED
  BY <1>5, <1>6 DEF SerialInv

\* A replay rebuild goes through where its checks have passed.
LEMMA ThroughStep ==
    ASSUME NEW t, NEW u, NEW what, NEW of, StepsTo(t, u, what, of), what # "write",
           ReplayGoesThrough(t), what = "check" => dirty[of] = {}, OnlyCleans
    PROVE  ReplayGoesThrough(u)'
<1> SUFFICES ASSUME u.op = "replay" PROVE ReplayGoesThrough(u)'
  BY DEF ReplayGoesThrough
<1>1. PICK n \in Nat : n = Done(t) /\ Done(u) = n + 1 /\ t.op = "replay"
  BY DEF StepsTo
<1>2. Place(what, "replay", n, of) /\ what \in What
  BY <1>1 DEF StepsTo
<1>3. Done(u)' = n + 1
  BY <1>1 DEF Done
<1>4. /\ n = 1 => dirty["features"] = {}
      /\ n = 2 => dirty["candidates"] = {}
      /\ n # 8
  BY <1>2 DEF Place, What
<1>5. /\ n >= 2 => dirty["features"] = {}
      /\ n >= 3 => dirty["candidates"] = {}
      /\ n >= 9 => "replay" \in t.saved
  BY <1>1 DEF ReplayGoesThrough
<1>6. dirty'["features"] \subseteq dirty["features"]
      /\ dirty'["candidates"] \subseteq dirty["candidates"]
  BY DEF OnlyCleans, Artifacts
<1>7. u.saved = t.saved
  BY DEF StepsTo
<1>8. /\ n + 1 >= 2 => dirty'["features"] = {}
      /\ n + 1 >= 3 => dirty'["candidates"] = {}
  <2>1. n + 1 >= 2 => n = 1 \/ n >= 2
    OBVIOUS
  <2>2. n + 1 >= 3 => n = 2 \/ n >= 3
    OBVIOUS
  <2> QED
    BY <1>4, <1>5, <1>6, <2>1, <2>2
<1>9. n + 1 >= 9 => "replay" \in u.saved
  BY <1>4, <1>5, <1>7
<1> QED
  BY <1>3, <1>8, <1>9 DEF ReplayGoesThrough

LEMMA AdvancesAlone ==
    ASSUME PipelineInv, SerialInv, NEW p \in Procs, Busy(p), Advance(p), OnlyCleans,
           NEW what, what = Head(task[p].todo).do, what # "write",
           what = "check" => dirty[Of(p)] = {},
           \A a \in Artifacts : a \notin task[p].saved => dirty'[a] = dirty[a]
    PROVE  SerialInv'
<1>1. PICK t : t = task[p]
  OBVIOUS
<1>2. PICK of : of = Head(t.todo).of
  OBVIOUS
<1>3. PICK u : u = [t EXCEPT !.todo = Tail(t.todo)]
  OBVIOUS
<1>4. t \in Task /\ Tail(t.todo) \in Seq(Step) /\ Of(p) = of
  BY <1>1, <1>2, Taken
<1>5. /\ u \in Task /\ u.op = t.op /\ u.force = t.force /\ u.saved = t.saved
      /\ u.touched = t.touched /\ u.range = t.range /\ u.todo = Tail(t.todo)
  BY <1>3, <1>4 DEF Task
<1>6. StepsTo(t, u, what, of)
  BY <1>1, <1>2, <1>5, Goes
<1>7. Alone(t) /\ ReplayGoesThrough(t)
  BY <1>1, KnownAlone
<1>8. Alone(u)
  BY <1>5, <1>7 DEF Alone
<1>9. what = "check" => dirty[of] = {}
  BY <1>4
<1>10. ReplayGoesThrough(u)'
  BY <1>6, <1>7, <1>9, ThroughStep
<1>11. Continue(p, u)
  BY <1>1, <1>3 DEF Advance
<1> QED
  BY <1>1, <1>5, <1>8, <1>10, <1>11, GoesAlone

LEMMA CheckAlone ==
    ASSUME PipelineInv, SerialInv, NEW p \in Procs, Check(p) \/ Need(p)
    PROVE  SerialInv'
<1>1. UNCHANGED <<bars, made, leftover, dirty>> /\ Busy(p)
  BY DEF Check, Need, At
<1>2. OnlyCleans /\ dirty' = dirty
  BY <1>1 DEF OnlyCleans
<1>3. CASE End(p)
  BY <1>1, <1>3, EndsAlone
<1>4. CASE Advance(p) /\ Check(p) /\ ~End(p)
  <2>1. ~task[p].force
    BY <1>1, KnownAlone DEF Alone
  <2>2. dirty[Of(p)] = {} /\ Head(task[p].todo).do = "check"
    BY <1>4, <2>1 DEF Check, At
  <2> QED
    BY <1>1, <1>2, <1>4, <2>2, AdvancesAlone
<1>5. CASE Advance(p) /\ Need(p)
  <2>1. Head(task[p].todo).do = "need"
    BY <1>5 DEF Need, At
  <2> QED
    BY <1>1, <1>2, <1>5, <2>1, AdvancesAlone
<1>6. Advance(p) \/ End(p)
  BY DEF Check, Need
<1> QED
  BY <1>3, <1>4, <1>5, <1>6

LEMMA WindowAlone ==
    ASSUME PipelineInv, SerialInv, NEW p \in Procs, Window(p)
    PROVE  SerialInv'
<1> DEFINE seen == {d \in Days : bars[d] > 0}
<1>1. UNCHANGED <<bars, made, leftover, dirty>> /\ Busy(p) /\ Head(task[p].todo).do = "window"
  BY DEF Window, At
<1>2. OnlyCleans /\ dirty' = dirty
  BY <1>1 DEF OnlyCleans
<1>3. CASE task[p].range # All
  <2>1. Advance(p)
    BY <1>3 DEF Window
  <2> QED
    BY <1>1, <1>2, <2>1, AdvancesAlone
<1>4. CASE task[p].range = All /\ seen = {}
  <2>1. End(p)
    BY <1>4 DEF Window
  <2> QED
    BY <1>1, <2>1, EndsAlone
<1>5. CASE task[p].range = All /\ seen # {}
  <2>1. PICK t : t = task[p]
    OBVIOUS
  <2>2. PICK r : r = <<Min(seen), Max(seen)>>
    OBVIOUS
  <2>3. PICK u : u = [t EXCEPT !.todo = Tail(t.todo), !.range = r]
    OBVIOUS
  <2>4. Continue(p, u)
    BY <1>5, <2>1, <2>2, <2>3 DEF Window
  <2>5. seen \in SUBSET (0..NumDays) /\ NumDays \in Nat
    BY SizesAssumption DEF Days
  <2>6. /\ Min(seen) \in seen /\ Max(seen) \in seen
        /\ \A d \in seen : Min(seen) <= d /\ d <= Max(seen)
    <3> HIDE DEF seen
    <3> QED
      BY <1>5, <2>5, MinIsLeast, MaxIsGreatest
  <2>7. r \in Days \X Days /\ \A d \in seen : InRange(r, d)
    <3>1. Min(seen) \in Days /\ Max(seen) \in Days
      BY <2>6
    <3> HIDE DEF seen
    <3> QED
      BY <2>2, <2>6, <3>1 DEF InRange
  <2>8. /\ t \in Task /\ Tail(t.todo) \in Seq(Step)
        /\ Place("window", t.op, Done(t), Head(t.todo).of)
    BY <1>1, <2>1, Taken
  <2>9. /\ u \in Task /\ u.op = t.op /\ u.force = t.force /\ u.saved = t.saved
        /\ u.touched = t.touched /\ u.range = r /\ u.todo = Tail(t.todo)
    BY <2>3, <2>7, <2>8 DEF Task
  <2>10. StepsTo(t, u, "window", Head(t.todo).of)
    BY <1>1, <2>1, <2>9, Goes
  <2>11. Alone(t) /\ ReplayGoesThrough(t)
    BY <1>1, <2>1, KnownAlone
  <2>12. Alone(u)
    <3>1. t.op = "replay"
      BY <2>8 DEF Place
    <3> QED
      BY <2>7, <2>9, <2>11, <3>1 DEF Alone
  <2> HIDE DEF seen
  <2>13. ReplayGoesThrough(u)'
    BY <1>2, <2>10, <2>11, ThroughStep
  <2> QED
    BY <1>1, <1>2, <2>1, <2>4, <2>9, <2>12, <2>13, GoesAlone
<1> QED
  BY <1>3, <1>4, <1>5

\* A step that changes what the operation remembers, not what the invariant is about.
LEMMA RemembersAlone ==
    ASSUME PipelineInv, SerialInv, NEW p \in Procs, Busy(p), NEW t, t = task[p],
           NEW what, what = Head(t.todo).do, what \notin {"write", "check"},
           NEW u \in Task, Continue(p, u), u.todo = Tail(t.todo), u.op = t.op,
           u.force = t.force, u.saved = t.saved, u.touched = t.touched, u.range = t.range,
           UNCHANGED <<bars, made, leftover, dirty>>
    PROVE  SerialInv'
<1>1. OnlyCleans /\ dirty' = dirty
  BY DEF OnlyCleans
<1>2. StepsTo(t, u, what, Head(t.todo).of)
  BY Goes
<1>3. Alone(t) /\ ReplayGoesThrough(t)
  BY KnownAlone
<1>4. Alone(u)
  BY <1>3 DEF Alone
<1>5. ReplayGoesThrough(u)'
  BY <1>1, <1>2, <1>3, ThroughStep
<1> QED
  BY <1>1, <1>4, <1>5, GoesAlone

LEMMA ListAlone ==
    ASSUME PipelineInv, SerialInv, NEW p \in Procs, List(p)
    PROVE  SerialInv'
<1>1. UNCHANGED <<bars, made, leftover, dirty>> /\ Busy(p) /\ Head(task[p].todo).do = "list"
  BY DEF List, At
<1>2. PICK t : t = task[p]
  OBVIOUS
<1>3. PICK u : u = [t EXCEPT !.todo = Tail(t.todo), !.before = dirty[Of(p)]]
  OBVIOUS
<1>4. /\ t \in Task /\ Tail(t.todo) \in Seq(Step) /\ TypeOK
      /\ Place("list", t.op, Done(t), Of(p))
  BY <1>1, <1>2, Taken
<1>5. dirty[Of(p)] \in SUBSET Days
  <2>1. Of(p) \in Artifacts
    BY <1>4 DEF Place, Artifacts
  <2> QED
    BY <1>4, <2>1 DEF TypeOK
<1>6. /\ u \in Task /\ u.op = t.op /\ u.force = t.force /\ u.saved = t.saved
      /\ u.touched = t.touched /\ u.range = t.range /\ u.todo = Tail(t.todo)
  BY <1>3, <1>4, <1>5 DEF Task
<1>7. Continue(p, u)
  BY <1>2, <1>3 DEF List
<1> QED
  BY <1>1, <1>2, <1>6, <1>7, RemembersAlone

LEMMA ReadAlone ==
    ASSUME PipelineInv, SerialInv, NEW p \in Procs, Read(p)
    PROVE  SerialInv'
<1>1. UNCHANGED <<bars, made, leftover, dirty>> /\ Busy(p) /\ Head(task[p].todo).do = "read"
  BY DEF Read, At
<1>2. PICK t : t = task[p]
  OBVIOUS
<1>3. PICK u : u = AfterReading(t, Of(p))
  OBVIOUS
<1>4. Continue(p, u)
  BY <1>2, <1>3 DEF Read, AfterReading
<1>5. /\ u \in Task /\ u.op = t.op /\ u.force = t.force /\ u.saved = t.saved
      /\ u.touched = t.touched /\ u.range = t.range /\ u.todo = Tail(t.todo)
      /\ u.got = [t.got EXCEPT ![Of(p)] = Found(Of(p), t.range)]
  <2>1. Busy(p) /\ Head(task[p].todo).do = "read"
    BY <1>1
  <2> QED
    BY <1>2, <1>3, <2>1, ReadTask
<1> QED
  BY <1>1, <1>2, <1>4, <1>5, RemembersAlone

\* Alone, a replay run finds its inputs as clean as the checks before it.
LEMMA RecheckAlone ==
    ASSUME PipelineInv, SerialInv, NEW p \in Procs, Recheck(p)
    PROVE  SerialInv'
<1>1. UNCHANGED <<bars, made, leftover, dirty>> /\ Busy(p) /\ Head(task[p].todo).do = "recheck"
  BY DEF Recheck, At
<1>2. PICK t : t = task[p]
  OBVIOUS
<1>3. Place("recheck", t.op, Done(t), Of(p)) /\ Alone(t) /\ ReplayGoesThrough(t)
  BY <1>1, <1>2, Taken, KnownAlone
<1>4. t.op = "replay" /\ Done(t) \in {4, 10}
  BY <1>3 DEF Place, Alone
<1>5. dirty["features"] = {} /\ dirty["candidates"] = {}
  BY <1>3, <1>4 DEF ReplayGoesThrough
<1>6. Advance(p)
  BY <1>5 DEF Recheck
<1>7. OnlyCleans /\ dirty' = dirty
  BY <1>1 DEF OnlyCleans
<1> QED
  BY <1>1, <1>6, <1>7, AdvancesAlone

LEMMA MarkAlone ==
    ASSUME PipelineInv, SerialInv, NEW p \in Procs, Mark(p)
    PROVE  SerialInv'
<1>1. UNCHANGED <<bars, made, leftover>> /\ Busy(p) /\ Head(task[p].todo).do = "mark" /\ Advance(p)
  BY DEF Mark, At
<1>2. PICK t : t = task[p]
  OBVIOUS
<1>3. Of(p) \in t.saved /\ Of(p) \in Artifacts
  <2>1. /\ Sound(t) /\ t.op \in Ops /\ Done(t) \in Nat
        /\ Place("mark", t.op, Done(t), Of(p))
    BY <1>1, <1>2, Taken
  <2> QED
    BY <2>1, AtMark DEF Sound, Saves
<1>4. dirty' = [dirty EXCEPT ![Of(p)] = @ \ MarkedDay(t)] /\ dirty \in [Artifacts -> SUBSET Days]
  BY <1>2 DEF Mark, PipelineInv, TypeOK
<1>5. OnlyCleans /\ \A a \in Artifacts : a \notin t.saved => dirty'[a] = dirty[a]
  BY <1>1, <1>3, <1>4 DEF OnlyCleans
<1> QED
  BY <1>1, <1>2, <1>5, AdvancesAlone

LEMMA CleanAlone ==
    ASSUME PipelineInv, SerialInv, NEW p \in Procs, Clean(p)
    PROVE  SerialInv'
<1>1. UNCHANGED <<bars, made, leftover>> /\ Busy(p) /\ Head(task[p].todo).do = "clean"
  BY DEF Clean, At
<1>2. PICK t : t = task[p]
  OBVIOUS
<1> DEFINE left == IF Of(p) = "replay" /\ t.saved = {} THEN {} ELSE t.before
<1>3. /\ t \in Task /\ Sound(t) /\ t.op \in Ops /\ Done(t) \in Nat /\ TypeOK
      /\ Place("clean", t.op, Done(t), Of(p)) /\ Alone(t) /\ ReplayGoesThrough(t)
  BY <1>1, <1>2, Taken, KnownAlone
<1>4. Of(p) \in t.saved
  <2>1. CASE HasWritten(t, Of(p))
    BY <1>3, <2>1, AtClean DEF Sound, Saves
  <2>2. CASE t.op = "replay" /\ Of(p) = "replay"
    <3>1. Done(t) = 15
      BY <1>3, <2>2 DEF Place
    <3> QED
      BY <1>3, <2>2, <3>1 DEF ReplayGoesThrough
  <2> QED
    BY <1>3, <2>1, <2>2, AtClean
<1>5. CASE left = {}
  <2>1. Advance(p) /\ dirty' = dirty
    BY <1>2, <1>5 DEF Clean
  <2>2. OnlyCleans
    BY <1>1, <2>1 DEF OnlyCleans
  <2> QED
    BY <1>1, <2>1, <2>2, AdvancesAlone
<1>6. CASE left # {}
  <2>1. PICK u : u = [t EXCEPT !.before = t.before \ {Min(left)}]
    OBVIOUS
  <2>2. /\ Continue(p, u)
        /\ dirty' = [dirty EXCEPT ![Of(p)] = @ \ {Min(left)}]
    BY <1>2, <1>6, <2>1 DEF Clean
  <2> HIDE DEF left
  <2>3. /\ u \in Task /\ u.op = t.op /\ u.force = t.force /\ u.saved = t.saved
        /\ u.touched = t.touched /\ u.range = t.range /\ u.todo = t.todo
    BY <1>3, <2>1 DEF Task
  <2>4. OnlyCleans /\ \A a \in Artifacts : a \notin t.saved => dirty'[a] = dirty[a]
    BY <1>1, <1>3, <1>4, <2>2 DEF OnlyCleans, TypeOK
  <2>5. Alone(u)
    BY <1>3, <2>3 DEF Alone
  <2>6. Done(u)' = Done(t)
    BY <2>3 DEF Done
  <2>7. dirty'["features"] \subseteq dirty["features"]
        /\ dirty'["candidates"] \subseteq dirty["candidates"]
    BY <2>4 DEF OnlyCleans, Artifacts
  <2>8. ReplayGoesThrough(u)'
    BY <1>3, <2>3, <2>6, <2>7 DEF ReplayGoesThrough
  <2> QED
    BY <1>1, <1>2, <2>2, <2>3, <2>4, <2>5, <2>8, GoesAlone
<1> QED
  BY <1>5, <1>6

\* What an operation alone computes from is as new as the bars: the windows it has found
\* clean tell it, and the features are no older than the candidates made from them.
LEMMA SourcesCurrent ==
    ASSUME PipelineInv, SerialInv, NEW p \in Procs, Busy(p), NEW t, t = task[p],
           NEW a \in Artifacts, Place("write", t.op, Done(t), a),
           NEW s \in Inputs(t.op, a) \ {"bars"}, NEW d \in Days
    PROVE  made[s][d][d] = bars[d]
<1>1. /\ t.op \in Ops /\ Done(t) \in Nat /\ Alone(t) /\ TypeOK
      /\ \A b \in Artifacts : HasChecked(t, b) => dirty[b] = {}
  BY Taken, KnownAlone
<1>2. \A b \in Artifacts : HasChecked(t, b) => made[b][d][d] = bars[d]
  BY <1>1 DEF SerialInv, WrittenIsCurrent
<1>3. \A b \in Inputs(t.op, a) \ {"bars"} : HasChecked(t, b) \/ Takes(t, b)
  BY <1>1, AtWrite
<1>4. s \in Artifacts
  BY SomeInputs DEF Sources, Artifacts
<1>5. CASE HasChecked(t, s)
  BY <1>2, <1>4, <1>5
<1>6. CASE ~HasChecked(t, s)
  <2>1. t.op = "labels" /\ s = "features"
    BY <1>1, <1>3, <1>6 DEF Takes, Alone
  <2>2. a = "labels"
    BY <2>1 DEF Place
  <2>3. "candidates" \in Inputs(t.op, a)
    BY <2>1, <2>2 DEF Inputs, Sources
  <2>4. HasChecked(t, "candidates")
    BY <1>1, <1>3, <2>1, <2>3 DEF Takes, Alone
  <2>5. made["candidates"][d][d] = bars[d]
    BY <1>2, <2>4 DEF Artifacts
  <2>6. /\ made["candidates"][d][d] <= made["features"][d][d]
        /\ made["features"][d][d] <= bars[d]
    BY DEF SerialInv, FeaturesFirst
  <2>7. made["features"][d][d] \in Nat /\ bars[d] \in Nat
    <3>1. made["features"][d] \in Row
      BY <1>1 DEF TypeOK, Artifacts
    <3> QED
      BY <1>1, <3>1, SizesAssumption DEF TypeOK, Row, Revision
  <2> QED
    BY <2>1, <2>5, <2>6, <2>7
<1> QED
  BY <1>5, <1>6

LEMMA ComputedAlone ==
    ASSUME PipelineInv, SerialInv, NEW p \in Procs, Busy(p), NEW t, t = task[p],
           NEW a \in Artifacts, Place("write", t.op, Done(t), a),
           NEW d \in Days, bars[d] > 0
    PROVE  Computed(t, a, d)[d] = bars[d] /\ d \in Observed(t, a)
<1>1. /\ t \in Task /\ t.op \in Ops /\ Done(t) \in Nat /\ Alone(t) /\ TypeOK
  BY Taken, KnownAlone
<1>2. InRange(t.range, d)
  BY <1>1 DEF Alone
<1>3. ~(d > d) /\ d <= d
  BY DEF Days
<1>4. PICK s \in InputsOf(t.op, a, d, d) : Computed(t, a, d)[d] = t.got[s][d][d]
  BY <1>1, <1>3, ComputedIs
<1>5. s \in Inputs(t.op, a) /\ s \in Sources
  BY SomeInputs
<1>6. t.got[s][d] = Found(s, t.range)[d]
  BY <1>1, <1>5, AtWrite, KnownAlone
<1>7. Found(s, t.range)[d][d] = bars[d]
  <2> DEFINE seen == [e \in Days |-> IF InRange(t.range, e) THEN bars[e] ELSE 0]
  <2>1. UpTo(seen, d)[d] = bars[d]
    BY <1>2, <1>3 DEF UpTo
  <2>2. Found(s, t.range) = [e \in Days |-> CASE ~InRange(t.range, e) -> NoRow
                             [] InRange(t.range, e) /\ s = "bars" -> UpTo(seen, e)
                             [] OTHER -> made[s][e]]
    BY DEF Found, seen
  <2> HIDE DEF seen
  <2>3. Found(s, t.range)[d] = IF s = "bars" THEN UpTo(seen, d) ELSE made[s][d]
    BY <1>2, <2>2
  <2>4. s # "bars" => made[s][d][d] = bars[d]
    BY <1>5, SourcesCurrent
  <2> QED
    BY <2>1, <2>3, <2>4
<1>8. Computed(t, a, d)[d] = bars[d]
  BY <1>4, <1>6, <1>7
<1> QED
  BY <1>8 DEF Observed

LEMMA WriteAlone ==
    ASSUME PipelineInv, SerialInv, NEW p \in Procs, Write(p)
    PROVE  SerialInv'
<1>1. Busy(p) /\ Head(task[p].todo).do = "write"
  BY DEF Write, At
<1>2. PICK t : t = task[p]
  OBVIOUS
<1>3. PICK of : of = Of(p)
  OBVIOUS
<1>4. PICK days : days = IF of = "counterfactual" THEN {} ELSE Observed(t, of)
  OBVIOUS
<1>5. PICK u : u = [t EXCEPT !.todo = Tail(t.todo), !.saved = t.saved \union {of}]
  OBVIOUS
<1>6. /\ made' = [b \in Artifacts |-> [d \in Days |->
                    IF b = of /\ d \in days THEN Computed(t, of, d) ELSE made[b][d]]]
      /\ Change(p, u, days)
      /\ bars' = bars /\ dirty' = dirty
  BY <1>2, <1>3, <1>4, <1>5 DEF Write
<1>7. /\ t \in Task /\ Sound(t) /\ Tail(t.todo) \in Seq(Step) /\ TypeOK /\ RowsHaveBars
      /\ Place("write", t.op, Done(t), of) /\ of = Head(t.todo).of
      /\ t.op \in Ops /\ Done(t) \in Nat
  BY <1>1, <1>2, <1>3, Taken
<1>8. Alone(t) /\ ReplayGoesThrough(t) /\ SavedIsCurrent(t)
  BY <1>1, <1>2, KnownAlone
<1>9. of \in Artifacts \union {"counterfactual"}
  BY <1>7, AtWrite
<1>10. /\ u \in Task /\ u.op = t.op /\ u.force = t.force /\ u.saved = t.saved \union {of}
       /\ u.touched = t.touched /\ u.range = t.range /\ u.todo = Tail(t.todo)
  <2>1. PICK saved \in SUBSET (Artifacts \union {"counterfactual"}) :
           saved = t.saved \union {of}
    BY <1>7, <1>9, Fields
  <2>2. u = [t EXCEPT !.todo = Tail(t.todo), !.saved = saved]
    BY <1>5, <2>1
  <2> QED
    BY <1>7, <2>1, <2>2 DEF Task
<1>11. Done(u) = Done(t) + 1
  <2>1. t.todo \in Seq(Step) /\ t.todo # <<>> /\ OnScript(t)
    BY <1>1, <1>2, <1>7, Fields DEF Sound, Busy
  <2> QED
    BY <1>7, <1>10, <2>1, Onwards
<1>12. ASSUME of \in Artifacts, NEW d \in Days
       PROVE  made'[of][d][d] = bars[d]
  <2>1. made'[of][d] = IF d \in Observed(t, of) THEN Computed(t, of, d) ELSE made[of][d]
    <3>1. days = Observed(t, of)
      BY <1>4, <1>12 DEF Artifacts
    <3> QED
      BY <1>6, <1>12, <3>1
  <2>2. CASE bars[d] > 0
    BY <1>1, <1>2, <1>7, <1>12, <2>1, <2>2, ComputedAlone
  <2>3. CASE ~(bars[d] > 0)
    <3>1. bars[d] = 0
      BY <1>7, <2>3, SizesAssumption DEF TypeOK, Revision
    <3>2. d \notin Observed(t, of)
      BY <1>7, <1>12, <2>3, ObservedHasBars DEF Sound
    <3>3. made[of][d] = NoRow
      BY <1>7, <1>12, <2>3 DEF RowsHaveBars
    <3> QED
      BY <2>1, <3>1, <3>2, <3>3 DEF NoRow
  <2> QED
    BY <2>2, <2>3
<1>13. \A b \in Artifacts, d \in Days : b # of => made'[b][d] = made[b][d]
  BY <1>6
<1>14. SavedIsCurrent(u)'
  BY <1>6, <1>8, <1>10, <1>12, <1>13 DEF SavedIsCurrent
<1>15. WrittenIsCurrent'
  BY <1>6, <1>12, <1>13 DEF SerialInv, WrittenIsCurrent
<1>16. FeaturesFirst'
  <2> SUFFICES ASSUME NEW d \in Days
               PROVE  /\ made'["candidates"][d][d] <= made'["features"][d][d]
                      /\ made'["features"][d][d] <= bars[d]
    BY <1>6 DEF FeaturesFirst
  <2>1. /\ made["candidates"][d][d] <= made["features"][d][d]
        /\ made["features"][d][d] <= bars[d]
    BY DEF SerialInv, FeaturesFirst
  <2>2. made["features"][d][d] \in Nat /\ bars[d] \in Nat /\ made["candidates"][d][d] \in Nat
    <3>1. made["features"][d] \in Row /\ made["candidates"][d] \in Row
      BY <1>7 DEF TypeOK, Artifacts
    <3> QED
      BY <1>7, <3>1, SizesAssumption DEF TypeOK, Row, Revision
  <2>3. CASE of = "features"
    <3>1. /\ made'["features"][d][d] = bars[d]
          /\ made'["candidates"][d] = made["candidates"][d]
      BY <1>12, <1>13, <2>3 DEF Artifacts
    <3> QED
      BY <2>1, <2>2, <3>1
  <2>4. CASE of = "candidates"
    <3>1. t.op = "candidates"
      BY <1>7, <1>8, <2>4 DEF Place, Alone
    <3>2. "features" \in Inputs(t.op, of) \ {"bars"} /\ of \in Artifacts
      BY <2>4 DEF Inputs, Artifacts
    <3>3. made["features"][d][d] = bars[d]
      BY <1>1, <1>2, <1>7, <3>2, SourcesCurrent
    <3>4. /\ made'["features"][d] = made["features"][d]
          /\ made'["candidates"][d][d] = bars[d]
      BY <1>12, <1>13, <2>4 DEF Artifacts
    <3> QED
      BY <2>2, <3>3, <3>4
  <2>5. CASE of \notin {"features", "candidates"}
    <3>1. /\ made'["features"][d] = made["features"][d]
          /\ made'["candidates"][d] = made["candidates"][d]
      BY <1>13, <2>5 DEF Artifacts
    <3> QED
      BY <2>1, <3>1
  <2> QED
    BY <2>3, <2>4, <2>5
<1>17. Alone(u)'
  BY <1>6, <1>8, <1>10 DEF Alone
<1>18. ReplayGoesThrough(u)'
  <2> SUFFICES ASSUME t.op = "replay" PROVE ReplayGoesThrough(u)'
    BY <1>10 DEF ReplayGoesThrough
  <2>1. (Done(t) = 8 /\ of = "replay") \/ Done(t) = 14
    BY <1>7 DEF Place
  <2>2. Done(u)' = Done(u)
    BY DEF Done
  <2>3. Done(t) >= 2 /\ Done(t) >= 3 /\ (Done(t) >= 9 \/ of = "replay")
    BY <2>1
  <2> QED
    BY <1>6, <1>8, <1>10, <2>2, <2>3 DEF ReplayGoesThrough
<1>19. days \in SUBSET Days
  BY <1>4 DEF Observed
<1> QED
  BY <1>1, <1>6, <1>10, <1>14, <1>15, <1>16, <1>17, <1>18, <1>19, StaysAlone

LEMMA UpsertAlone ==
    ASSUME PipelineInv, SerialInv, OneOverAll, NEW p \in Procs, NEW days \in SUBSET Days,
           Upsert(p, days)
    PROVE  SerialInv'
<1>1. /\ bars' = [d \in Days |-> IF d \in days THEN bars[d] + 1 ELSE bars[d]]
      /\ dirty' = [a \in Artifacts |-> IF a \in MarkedByUpsert THEN dirty[a] \union days
                                                               ELSE dirty[a]]
      /\ made' = made /\ Change(p, Idle, days) /\ TypeOK
  BY DEF Upsert, PipelineInv
<1>2. \A q \in Procs : ~Busy(q)
  BY DEF Upsert, MayStart, OneOverAll
<1>3. task'[p] = Idle /\ \A q \in Procs \ {p} : task'[q] = task[q]
  BY <1>1, <1>2, IdleIsTask, ChangeTasks
<1>4. \A q \in Procs : ~Busy(q)'
  BY <1>2, <1>3, IdleIsTask DEF Busy
<1>5. \A d \in Days : bars[d] \in Nat /\ made["features"][d][d] \in Nat
  <2> SUFFICES ASSUME NEW d \in Days PROVE bars[d] \in Nat /\ made["features"][d][d] \in Nat
    OBVIOUS
  <2>1. made["features"][d] \in Row
    BY <1>1 DEF TypeOK, Artifacts
  <2> QED
    BY <1>1, <2>1, SizesAssumption DEF TypeOK, Row, Revision
<1>6. FeaturesFirst'
  <2> SUFFICES ASSUME NEW d \in Days
               PROVE  /\ made["candidates"][d][d] <= made["features"][d][d]
                      /\ made["features"][d][d] <= bars'[d]
    BY <1>1 DEF FeaturesFirst
  <2>1. bars'[d] = bars[d] \/ bars'[d] = bars[d] + 1
    BY <1>1
  <2> QED
    BY <1>5, <2>1 DEF SerialInv, FeaturesFirst
<1>7. WrittenIsCurrent'
  <2> SUFFICES ASSUME NEW a \in Artifacts, NEW d \in Days, d \notin dirty'[a]
               PROVE  made[a][d][d] = bars'[d]
    BY <1>1 DEF WrittenIsCurrent
  <2>1. d \notin dirty[a] /\ d \notin days
    BY <1>1 DEF MarkedByUpsert
  <2> QED
    BY <1>1, <2>1 DEF SerialInv, WrittenIsCurrent
<1> QED
  BY <1>4, <1>6, <1>7 DEF SerialInv, OneBusy

LEMMA StartAlone ==
    ASSUME PipelineInv, SerialInv, OneOverAll, NEW p \in Procs, NEW op \in Ops,
           NEW range \in Ranges, NEW force \in Forces, Start(p, op, range, force)
    PROVE  SerialInv'
<1>1. UNCHANGED <<bars, made, leftover, dirty>> /\ task \in [Procs -> Task]
  BY DEF Start, PipelineInv, TypeOK
<1>2. PICK u : u = [Idle EXCEPT !.op = op, !.range = range, !.force = force,
                                !.todo = Script(op)]
  OBVIOUS
<1>3. /\ u.op = op /\ u.range = range /\ u.force = force /\ u.todo = Script(op)
      /\ u.saved = {} /\ u.touched = {}
  BY <1>2 DEF Idle
<1>4. task'[p] = u /\ \A q \in Procs \ {p} : task'[q] = task[q]
  BY <1>1, <1>2 DEF Start
<1>5. \A q \in Procs : ~Busy(q)
  BY DEF Start, MayStart, OneOverAll
<1>6. \A q \in Procs \ {p} : ~Busy(q)'
  BY <1>4, <1>5 DEF Busy
<1>7. range = All /\ force = FALSE /\ op \notin {"build_labels", "run_replay"}
  <2>1. range = All /\ force = FALSE
    BY DEF OneOverAll
  <2>2. op \in MayRun[p] /\ (op = "run_replay" => range # All)
    BY DEF Start, Asked
  <2> QED
    BY <2>1, <2>2 DEF OneOverAll
<1>8. Alone(u)'
  BY <1>3, <1>7 DEF Alone, InRange
<1>9. Done(u)' = 0
  <2>1. PICK script \in Seq(Step) : script = Script(op) /\ Len(script) \in Nat
    BY ScriptTyped, Zenon
  <2>2. Done(u)' = Len(script) - Len(script)
    BY <1>3, <2>1, Zenon DEF Done
  <2> DEFINE x == Len(script)
  <2>3. x \in Nat /\ Done(u)' = x - x
    BY <2>1, <2>2
  <2> HIDE DEF x
  <2> QED
    BY <2>3
<1>10. ReplayGoesThrough(u)' /\ SavedIsCurrent(u)'
  BY <1>3, <1>9 DEF ReplayGoesThrough, SavedIsCurrent
<1>11. FeaturesFirst' /\ WrittenIsCurrent'
  BY <1>1 DEF SerialInv, FeaturesFirst, WrittenIsCurrent
<1>12. OneBusy'
  BY <1>6 DEF OneBusy
<1>13. ASSUME NEW q \in Procs, Busy(q)'
       PROVE  Alone(task[q])' /\ ReplayGoesThrough(task[q])' /\ SavedIsCurrent(task[q])'
  <2>1. task'[q] = u
    BY <1>4, <1>6, <1>13
  <2> QED
    BY <1>8, <1>10, <2>1
<1> QED
  BY <1>11, <1>12, <1>13 DEF SerialInv

LEMMA NextAlone ==
    ASSUME PipelineInv, SerialInv, OneOverAll, [Next]_vars
    PROVE  SerialInv'
<1>1. CASE Next
  <2>1. PICK p \in Procs :
           \/ \E days \in SUBSET Days : Upsert(p, days)
           \/ \E op \in Ops, range \in Ranges, force \in Forces : Start(p, op, range, force)
           \/ Work(p)
           \/ Crash(p)
    BY <1>1 DEF Next
  <2>2. CASE Work(p)
    BY <2>2, CheckAlone, WindowAlone, ListAlone, RecheckAlone, ReadAlone, WriteAlone,
       MarkAlone, CleanAlone DEF Work
  <2>3. CASE Crash(p)
    BY <2>3, EndsAlone DEF Crash
  <2> QED
    BY <2>1, <2>2, <2>3, UpsertAlone, StartAlone
<1>2. CASE UNCHANGED vars
  BY <1>2 DEF vars, SerialInv, OneBusy, Busy, Alone, ReplayGoesThrough, SavedIsCurrent, Done,
              FeaturesFirst, WrittenIsCurrent
<1> QED
  BY <1>1, <1>2

\* Rebuilds one at a time, over all dates, without forcing and without the label build of the
\* API (which takes dirty features): behind a clean window the rows the last build wrote
\* derive from the current bars of its date, in every state between two commits and whoever
\* dies on the way.  The invariant has this of every date; the property makes an exception of
\* those where rows stay from before, which a reader finds among the others.
THEOREM CleanIsCurrentHolds ==
    ASSUME OneOverAll
    PROVE  Spec => []CleanIsCurrent
<1>1. Init => SerialInv
  <2> SUFFICES ASSUME Init PROVE SerialInv
    OBVIOUS
  <2>1. \A p \in Procs : ~Busy(p)
    BY IdleIsTask DEF Init, Busy
  <2>2. FeaturesFirst
    BY DEF Init, FeaturesFirst, NoRow, Artifacts
  <2>3. WrittenIsCurrent
    BY DEF Init, WrittenIsCurrent, NoRow
  <2> QED
    BY <2>1, <2>2, <2>3 DEF SerialInv, OneBusy
<1>2. PipelineInv /\ SerialInv /\ [Next]_vars => SerialInv'
  BY NextAlone
<1>3. SerialInv => CleanIsCurrent
  BY DEF SerialInv, WrittenIsCurrent, CleanIsCurrent
<1> QED
  BY <1>1, <1>2, <1>3, PipelineInvariant, PTL DEF Spec

=================================================================================
