---------------------------- MODULE IngestionProofs ----------------------------
(***************************************************************************)
(* What ingestion keeps for every set of series and requests, every        *)
(* calendar, span and number of retries: which gaps the bars may have,     *)
(* what a completed run has stored, and what a review stands for.          *)
(*                                                                         *)
(* The argument is about one request at a time: of the days in its range   *)
(* each is settled, or still to be asked for.  Other requests only settle  *)
(* days, so that they cannot disturb it; its own steps go through the      *)
(* days in order, and what lies before its range was settled, or written   *)
(* down as skipped, when it began.                                         *)
(***************************************************************************)
EXTENDS Ingestion, FiniteSetsExt, WellFoundedInduction, TLAPS

-----------------------------------------------------------------------------
(* Least and greatest members. *)

\* A set of numbers up to n that is not empty has a least member, and Min is it.
LEMMA MinIsLeast ==
    ASSUME NEW n \in Nat, NEW S \in SUBSET (0..n), S # {}
    PROVE  Min(S) \in S /\ \A y \in S : Min(S) <= y
<1>1. PICK b \in S : \A y \in S : <<y, b>> \notin OpToRel(<, Nat)
  <2>1. S \subseteq Nat
    OBVIOUS
  <2> QED
    BY <2>1, NatLessThanWellFounded, WFMin
<1>2. ASSUME NEW y \in S PROVE b <= y
  <2>1. <<y, b>> \in Nat \X Nat /\ ~(y < b)
    BY <1>1 DEF OpToRel
  <2> QED
    BY <2>1
<1> QED
  BY <1>1, <1>2 DEF Min

\* The greatest is the one least far from n.
LEMMA MaxIsGreatest ==
    ASSUME NEW n \in Nat, NEW S \in SUBSET (0..n), S # {}
    PROVE  Max(S) \in S /\ \A y \in S : y <= Max(S)
<1> DEFINE R == {n - x : x \in S}
<1>1. R \in SUBSET (0..n) /\ R # {}
  <2>1. \A x \in S : n - x \in 0..n
    OBVIOUS
  <2> QED
    BY <2>1
<1>2. PICK r \in R : \A y \in R : r <= y
  <2> HIDE DEF R
  <2> QED
    BY <1>1, MinIsLeast
<1>3. PICK b \in S : r = n - b
  OBVIOUS
<1>4. ASSUME NEW y \in S PROVE y <= b
  <2>1. n - b <= n - y
    BY <1>2, <1>3
  <2> QED
    BY <2>1
<1> QED
  BY <1>4 DEF Max

-----------------------------------------------------------------------------
(* The inductive invariant. *)

\* A day that GapsExplained does not ask about, and one that CompletedIsStored does not.
Settled(s, d) == bars[s][d] = "final" \/ \E cause \in Causes : <<s, d, cause>> \in excused
Met(s, d) == bars[s][d] # "none" \/ \E cause \in Causes \ {"other"} : <<s, d, cause>> \in excused

\* A request will ask for a day of a series.
Awaits(q, s, d) == \E fetch \in req[q].todo : fetch.s = s /\ d \in fetch.days

BarOps == {"eod", "intraday", "incremental", "seed", "plain"}

\* Only requests for bars ask for bars, of their series and range.
AsksInRange(q) ==
    /\ req[q].op \notin BarOps => req[q].series = {}
    /\ \A fetch \in req[q].todo : fetch.s \in Series =>
        fetch.s \in req[q].series /\ fetch.days \subseteq req[q].from..req[q].to

\* A range has ended by the time it is asked for: the answer is later than all of its days
\* but the last.
RangeIsPast(q) ==
    req[q].op \in BarOps =>
        /\ req[q].to \in 1..env.today
        /\ req[q].asked # 0 => req[q].to <= req[q].asked

\* What lies before the range of a request is settled, and so is what lies within it, up to
\* its last day, or the request will still ask for it.
LeavesNoGap(q) ==
    \A s \in req[q].series \ Daily, d \in Trading :
        /\ d < req[q].from => Settled(s, d)
        /\ d \in req[q].from..req[q].to /\ d < req[q].to => Settled(s, d) \/ Awaits(q, s, d)

\* What a request has left in its range is still to do or among its errors.
LeavesNothing(q) ==
    req[q].op # "plain" =>
        \A s \in req[q].series : \A d \in (req[q].from..req[q].to) \cap Trading :
            Met(s, d) \/ Awaits(q, s, d) \/ Kind(Fetch(s, {})) \in req[q].errors

RequestSound(q) == AsksInRange(q) /\ RangeIsPast(q) /\ LeavesNoGap(q) /\ LeavesNothing(q)

\* Bars are those of trading days.
OnTradingDays == \A s \in Series, d \in Days : bars[s][d] # "none" => d \in Trading

\* The review of the latest check is that of an approval.
Reviewing ==
    /\ \A e \in Endpoints :
        checks[e].review = "REVIEWED_ACCESSIBLE" => <<e, checks[e].n>> \in approved
    /\ \A q \in Requests : req[q].basis \subseteq approved

IngestionInv ==
    /\ TypeOK
    /\ GapsExplained
    /\ CompletedIsStored
    /\ OnTradingDays
    /\ Reviewing
    /\ \A q \in Requests : RequestSound(q)

-----------------------------------------------------------------------------
(* What the operators return. *)

LEMMA Bounds ==
    /\ MaxDay \in Nat \ {0} /\ MaxOps \in Nat \ {0} /\ Span \in Nat /\ MaxChecks \in Nat
    /\ Days = 1..MaxDay /\ Trading \subseteq Days
    /\ "quote" \notin Series /\ "batch_quote" \notin Series /\ "bars" \notin Series
  BY BoundsAssumption, NamesAssumption DEF Days, Trading

LEMMA MaxOfTwo ==
    ASSUME NEW a \in Int, NEW b \in Int
    PROVE  Max({a, b}) = IF a >= b THEN a ELSE b
<1>1. \E x \in {a, b} : \A y \in {a, b} : x >= y
  OBVIOUS
<1>2. Max({a, b}) \in {a, b} /\ \A y \in {a, b} : Max({a, b}) >= y
  BY <1>1 DEF Max
<1> QED
  BY <1>2

LEMMA AnswersAre == Answers \subseteq {"ACCESSIBLE", "EMPTY", "ERROR"}
<1>1. \A a : Classified(a) \in {"ACCESSIBLE", "EMPTY", "ERROR"}
  BY DEF Classified
<1> QED
  BY <1>1 DEF Answers, Answer

LEMMA EarliestIs ==
    ASSUME NEW to \in Days
    PROVE  Earliest(to) \in 1..to
<1>1. to \in Int /\ to >= 1 /\ Span \in Nat
  BY Bounds
<1>2. Earliest(to) = IF 1 >= to - Span THEN 1 ELSE to - Span
  BY <1>1, MaxOfTwo DEF Earliest
<1> QED
  BY <1>1, <1>2

LEMMA LastDayIs ==
    ASSUME TypeOK, NEW s \in Series, Bars(s)
    PROVE  LastDay(s) \in Days /\ bars[s][LastDay(s)] # "none"
<1> DEFINE D == {d \in Days : bars[s][d] # "none"}
<1>1. D \in SUBSET (0..MaxDay) /\ D # {} /\ MaxDay \in Nat
  BY Bounds DEF Bars
<1>2. Max(D) \in D
  <2> HIDE DEF D
  <2> QED
    BY <1>1, MaxIsGreatest
<1> QED
  BY <1>2 DEF LastDay

\* A refresh begins no later than the last bar of each series that has bars.
LEMMA RefreshFromIs ==
    ASSUME TypeOK, NEW S \in SUBSET Series, S # {}, NEW to \in Days
    PROVE  /\ RefreshFrom(S, to) \in Days
           /\ \A s \in S : Bars(s) => RefreshFrom(S, to) <= LastDay(s)
<1> DEFINE first(s) == IF Bars(s) THEN LastDay(s) ELSE Earliest(to)
           F == {first(s) : s \in S}
<1>1. \A s \in S : first(s) \in Days
  <2> TAKE s \in S
  <2>1. Bars(s) => LastDay(s) \in Days
    BY LastDayIs
  <2>2. Earliest(to) \in Days
    BY EarliestIs, Bounds
  <2> QED
    BY <2>1, <2>2
<1>2. F \in SUBSET (0..MaxDay) /\ F # {} /\ MaxDay \in Nat /\ F \subseteq Days
  BY <1>1, Bounds
<1>3. Min(F) \in F /\ \A x \in F : Min(F) <= x
  <2> HIDE DEF F
  <2> QED
    BY <1>2, MinIsLeast
<1>4. RefreshFrom(S, to) = Min(F)
  BY DEF RefreshFrom
<1>5. \A s \in S : Bars(s) => LastDay(s) \in F
  OBVIOUS
<1> HIDE DEF F
<1> QED
  BY <1>2, <1>3, <1>4, <1>5

LEMMA WindowsAre ==
    ASSUME NEW s, NEW from \in 0..MaxDay, NEW to \in 0..MaxDay
    PROVE  /\ \A w \in Windows(s, from, to) : w \subseteq from..to
           /\ \A d \in (from..to) \cap Trading : \E w \in Windows(s, from, to) : d \in w
  BY DEF Windows, Trading

\* The calls of a request for bars are for its series and range, and leave no trading day out.
Covers(todo, S, from, to) ==
    /\ \A fetch \in todo : fetch.s \in S /\ fetch.days \subseteq from..to
    /\ \A s \in S : \A d \in (from..to) \cap Trading : \E fetch \in todo : fetch.s = s /\ d \in fetch.days

LEMMA TodoCovers ==
    ASSUME NEW S, NEW from \in 0..MaxDay, NEW to \in 0..MaxDay
    PROVE  Covers(Todo(S, from, to), S, from, to)
<1>1. \A fetch \in Todo(S, from, to) : fetch.s \in S /\ fetch.days \subseteq from..to
  BY WindowsAre DEF Todo, Fetch
<1>2. \A s \in S : \A d \in (from..to) \cap Trading :
         \E fetch \in Todo(S, from, to) : fetch.s = s /\ d \in fetch.days
  <2> TAKE s \in S
  <2> TAKE d \in (from..to) \cap Trading
  <2>1. PICK w \in Windows(s, from, to) : d \in w
    BY WindowsAre
  <2>2. Fetch(s, w) \in Todo(S, from, to) /\ Fetch(s, w).s = s /\ Fetch(s, w).days = w
    BY DEF Todo, Fetch
  <2> QED
    BY <2>1, <2>2
<1> QED
  BY <1>1, <1>2 DEF Covers

LEMMA WholeCovers ==
    ASSUME NEW S, NEW from \in 0..MaxDay, NEW to \in 0..MaxDay
    PROVE  Covers(Whole(S, from, to), S, from, to)
<1>1. \A s \in S : Fetch(s, from..to) \in Whole(S, from, to)
                   /\ Fetch(s, from..to).s = s /\ Fetch(s, from..to).days = from..to
  BY DEF Whole, Fetch
<1>2. \A fetch \in Whole(S, from, to) : fetch.s \in S /\ fetch.days \subseteq from..to
  BY DEF Whole, Fetch
<1> QED
  BY <1>1, <1>2 DEF Covers

\* Calls are records.
Calls == [s : Series \union Endpoints \union {"quote"}, days : SUBSET Days]

LEMMA CallsAre ==
    ASSUME NEW S \in SUBSET Series, NEW from \in Days, NEW to \in 0..MaxDay
    PROVE  Todo(S, from, to) \subseteq Calls /\ Whole(S, from, to) \subseteq Calls
<1>1. from..to \subseteq Days
  BY Bounds
<1>2. \A s \in S, days \in SUBSET Days : Fetch(s, days) \in Calls
  BY DEF Fetch, Calls
<1>3. \A s \in S : \A days \in Windows(s, from, to) : days \in SUBSET Days
  BY <1>1, WindowsAre, Bounds
<1>4. Todo(S, from, to) \subseteq Calls
  BY <1>2, <1>3 DEF Todo
<1>5. Whole(S, from, to) \subseteq Calls
  BY <1>1, <1>2 DEF Whole
<1> QED
  BY <1>4, <1>5

LEMMA RequestIs == Request = [op : Ops \union {"idle"}, todo : SUBSET Calls,
            asked : 0..MaxDay, from : 0..MaxDay, to : 0..MaxDay, series : SUBSET Series,
            errors : SUBSET Kinds, fetched : SUBSET Kinds,
            basis : SUBSET (Endpoints \X (0..MaxChecks))]
  BY DEF Request, Calls

-----------------------------------------------------------------------------
(* The types of what the actions write. *)

RunRow == [op : Ops \union Kinds, series : SUBSET Series, from : 0..MaxDay, to : 0..MaxDay,
           status : Statuses]

\* A request that begins.
Begun(op, S, from, to, todo, basis) ==
    [Idle EXCEPT !.op = op, !.todo = todo, !.from = from, !.to = to, !.series = S, !.basis = basis]

LEMMA BegunIs ==
    ASSUME NEW op, NEW S, NEW from, NEW to, NEW todo, NEW basis
    PROVE  LET b == Begun(op, S, from, to, todo, basis) IN
           /\ b.op = op /\ b.todo = todo /\ b.asked = 0 /\ b.from = from /\ b.to = to
           /\ b.series = S /\ b.errors = {} /\ b.basis = basis
  BY DEF Begun, Idle

LEMMA BegunTyped ==
    ASSUME NEW op \in Ops, NEW S \in SUBSET Series, NEW from \in 0..MaxDay, NEW to \in 0..MaxDay,
           NEW todo \in SUBSET Calls, NEW basis \in SUBSET (Endpoints \X (0..MaxChecks))
    PROVE  Begun(op, S, from, to, todo, basis) \in Request
<1>1. 0 \in 0..MaxDay
  BY Bounds
<1> QED
  BY <1>1, RequestIs DEF Begun, Idle

LEMMA IdleTyped == Idle \in Request
<1>1. 0 \in 0..MaxDay
  BY Bounds
<1> QED
  BY <1>1, RequestIs DEF Idle

LEMMA SavedTyped ==
    ASSUME runs \subseteq RunRow, NEW op \in Ops \union Kinds, NEW S \in SUBSET Series,
           NEW from \in 0..MaxDay, NEW to \in 0..MaxDay, NEW status \in Statuses,
           Saved(op, S, from, to, status)
    PROVE  runs' \subseteq RunRow
  BY DEF Saved, RunRow

LEMMA StatusTyped ==
    ASSUME NEW errors, NEW fetched
    PROVE  /\ Status(errors, fetched) \in Statuses
           /\ Status(errors, fetched) = "COMPLETED" => errors = {}
  BY DEF Status, Statuses

LEMMA KindTyped ==
    ASSUME NEW fetch
    PROVE  Kind(fetch) \in Kinds
  BY DEF Kind, Kinds

\* The kind of a call for bars is that of its series.
LEMMA KindOfSeries ==
    ASSUME NEW fetch \in Calls, fetch.s \in Series
    PROVE  Kind(fetch) = Kind(Fetch(fetch.s, {})) /\ Kind(fetch) # "quotes" /\ fetch # Quote
<1>1. fetch.s # "quote" /\ Fetch(fetch.s, {}).s = fetch.s /\ Quote.s = "quote"
  BY Bounds DEF Fetch, Quote
<1>2. fetch # Quote /\ Fetch(fetch.s, {}) # Quote
  BY <1>1
<1> QED
  BY <1>1, <1>2 DEF Kind

\* A request that moves on.
Moved(r, fetch, errors, fetched) ==
    [r EXCEPT !.todo = @ \ {fetch}, !.asked = 0, !.errors = errors, !.fetched = fetched]

LEMMA MovesIs ==
    ASSUME TypeOK, NEW q \in Requests, NEW fetch, NEW failed \in BOOLEAN, NEW got \in BOOLEAN,
           Moves(q, fetch, failed, got)
    PROVE  \E errors, fetched \in SUBSET Kinds :
              /\ errors = req[q].errors \union (IF failed THEN {Kind(fetch)} ELSE {})
              /\ req' = [req EXCEPT ![q] = Moved(req[q], fetch, errors, fetched)]
              /\ ChildSaved(q, fetch, errors, fetched)
<1> DEFINE errors == req[q].errors \union (IF failed THEN {Kind(fetch)} ELSE {})
           fetched == req[q].fetched \union (IF got THEN {Kind(fetch)} ELSE {})
<1>1. req[q] \in Request
  BY DEF TypeOK
<1>2. errors \in SUBSET Kinds /\ fetched \in SUBSET Kinds
  BY <1>1, KindTyped, RequestIs
<1>3. req' = [req EXCEPT ![q].todo = @ \ {fetch}, ![q].asked = 0,
                         ![q].errors = errors, ![q].fetched = fetched]
      /\ ChildSaved(q, fetch, errors, fetched)
  BY DEF Moves
<1> HIDE DEF errors, fetched
<1>4. req' = [req EXCEPT ![q] = Moved(req[q], fetch, errors, fetched)]
  BY <1>1, <1>3, RequestIs DEF Moved, TypeOK
<1> QED
  BY <1>2, <1>3, <1>4 DEF errors

LEMMA ChildSavedTyped ==
    ASSUME TypeOK, NEW q \in Requests, NEW fetch, NEW errors, NEW fetched,
           ChildSaved(q, fetch, errors, fetched)
    PROVE  runs' \subseteq RunRow
<1>1. req[q] \in Request /\ runs \subseteq RunRow
  BY DEF TypeOK, RunRow
<1> DEFINE S == {s \in req[q].series : Kind(fetch) = Kind(Fetch(s, {}))}
           status == Status(errors \cap {Kind(fetch)}, fetched \cap {Kind(fetch)})
<1>2. S \in SUBSET Series /\ req[q].from \in 0..MaxDay /\ req[q].to \in 0..MaxDay
  BY <1>1, RequestIs
<1>3. status \in Statuses /\ Kind(fetch) \in Ops \union Kinds
  BY StatusTyped, KindTyped
<1>4. Saved(Kind(fetch), S, req[q].from, req[q].to, status) \/ UNCHANGED runs
  BY DEF ChildSaved
<1> HIDE DEF S, status
<1> QED
  BY <1>1, <1>2, <1>3, <1>4, SavedTyped

-----------------------------------------------------------------------------
(* The requests that begin. *)

LEMMA SkippedTyped ==
    ASSUME NEW S \in SUBSET Series, NEW from \in Days
    PROVE  Skipped(S, from) \subseteq Series \X Days \X Causes
<1>1. 1..(from - 1) \subseteq Days
  BY Bounds
<1> QED
  BY <1>1 DEF Skipped, Causes

\* What a request skips is settled.
LEMMA SkippedSettles ==
    ASSUME TypeOK, NEW S \in SUBSET Series, NEW from \in Days, UNCHANGED bars,
           excused' = excused \union Skipped(S, from), NEW s \in S \ Daily, NEW d \in Trading, d < from
    PROVE  Settled(s, d)'
<1>1. d \in 1..(from - 1)
  BY Bounds
<1>2. CASE bars[s][d] = "final"
  BY <1>2 DEF Settled
<1>3. CASE bars[s][d] # "final"
  <2>1. <<s, d, "other">> \in Skipped(S, from)
    BY <1>1, <1>3 DEF Skipped
  <2> QED
    BY <2>1 DEF Settled, Causes
<1> QED
  BY <1>2, <1>3

\* A request that is blocked leaves a run.
LEMMA BlockedTyped ==
    ASSUME TypeOK, NEW op \in Ops, NEW S \in SUBSET Series, NEW from \in 0..MaxDay,
           NEW to \in 0..MaxDay, Blocked(op, S, from, to)
    PROVE  /\ req' = req /\ excused' = excused /\ runs' \subseteq RunRow
           /\ \A run \in runs' : run.status = "COMPLETED" => run \in runs
<1>1. /\ Saved(op, S, from, to, "BLOCKED") /\ "BLOCKED" \in Statuses /\ runs \subseteq RunRow
      /\ req' = req /\ excused' = excused
  BY DEF Blocked, Statuses, TypeOK, RunRow
<1>2. runs' \subseteq RunRow
  BY <1>1, SavedTyped
<1>3. \A run \in runs' : run.status = "COMPLETED" => run \in runs
  BY <1>1 DEF Saved
<1> QED
  BY <1>1, <1>2, <1>3

LEMMA AcceptsTyped ==
    ASSUME TypeOK, NEW q \in Requests, Accepts(q)
    PROVE  /\ env' \in [today : Days, key : BOOLEAN, ops : 0..MaxOps]
           /\ env'.today = env.today /\ env.today \in Days
  BY Bounds DEF Accepts, TypeOK

\* A request that begins, with what it needs of its parts.
Starts(q, op, S, from, to, todo, basis) ==
    /\ op \in Ops /\ S \in SUBSET Series /\ from \in 0..MaxDay /\ to \in 0..MaxDay
    /\ todo \in SUBSET Calls /\ basis \in SUBSET (Endpoints \X (0..MaxChecks))
    /\ Begins(q, op, S, from, to, todo, basis)

\* Nothing is left out: the days of the range are asked for, and those before it are settled.
LeavesNothingOut(op, S, from, to, todo, basis) ==
    /\ op \in BarOps \/ S = {}
    /\ op \in BarOps => to \in 1..env.today
    /\ \A fetch \in todo : fetch.s \in Series => fetch.s \in S /\ fetch.days \subseteq from..to
    /\ \A s \in S : \A d \in (from..to) \cap Trading : \E fetch \in todo : fetch.s = s /\ d \in fetch.days
    /\ \A s \in S \ Daily, d \in Trading : d < from => Settled(s, d)'
    /\ basis \subseteq approved
    /\ excused \subseteq excused'

LEMMA StartsTyped ==
    ASSUME TypeOK, NEW q \in Requests, NEW op, NEW S, NEW from, NEW to, NEW todo, NEW basis,
           Starts(q, op, S, from, to, todo, basis)
    PROVE  req' \in [Requests -> Request]
<1>1. Begun(op, S, from, to, todo, basis) \in Request
  BY BegunTyped DEF Starts
<1>2. req' = [req EXCEPT ![q] = Begun(op, S, from, to, todo, basis)]
  BY DEF Starts, Begins, Begun
<1> QED
  BY <1>1, <1>2 DEF TypeOK

\* What a request that begins leaves behind: a blocked run or a request.
Opens(q) ==
    /\ env' \in [today : Days, key : BOOLEAN, ops : 0..MaxOps] /\ env'.today = env.today
    /\ UNCHANGED <<bars, quoted, checks, approved>>
    /\ \E op \in Ops, S \in SUBSET Series, from, to \in 0..MaxDay :
        \/ Blocked(op, S, from, to)
        \/ /\ UNCHANGED runs
           /\ \E todo, basis : /\ Starts(q, op, S, from, to, todo, basis)
                              /\ LeavesNothingOut(op, S, from, to, todo, basis)
           /\ excused' \subseteq Series \X Days \X Causes

LEMMA OpensTyped ==
    ASSUME TypeOK, NEW q \in Requests, Opens(q)
    PROVE  TypeOK'
<1>1. PICK op \in Ops, S \in SUBSET Series, from \in 0..MaxDay, to \in 0..MaxDay :
        \/ Blocked(op, S, from, to)
        \/ /\ UNCHANGED runs
           /\ \E todo, basis : /\ Starts(q, op, S, from, to, todo, basis)
                              /\ LeavesNothingOut(op, S, from, to, todo, basis)
           /\ excused' \subseteq Series \X Days \X Causes
  BY DEF Opens
<1>2. req' \in [Requests -> Request] /\ excused' \subseteq Series \X Days \X Causes
      /\ runs' \subseteq RunRow
  <2>1. CASE Blocked(op, S, from, to)
    BY <2>1, BlockedTyped DEF TypeOK
  <2>2. CASE /\ UNCHANGED runs
             /\ \E todo, basis : /\ Starts(q, op, S, from, to, todo, basis)
                              /\ LeavesNothingOut(op, S, from, to, todo, basis)
             /\ excused' \subseteq Series \X Days \X Causes
    <3>1. req' \in [Requests -> Request]
      BY <2>2, StartsTyped
    <3> QED
      BY <2>2, <3>1 DEF TypeOK, RunRow
  <2> QED
    BY <1>1, <2>1, <2>2
<1> QED
  BY <1>2 DEF TypeOK, Opens, RunRow

LEMMA OfRange ==
    ASSUME IngestionInv, NEW q \in Requests, BeginRange(q)
    PROVE  Opens(q)
<1>0. TypeOK
  BY DEF IngestionInv
<1>1. PICK op \in {"eod", "intraday", "plain"}, S \in SUBSET Series, from \in 1..env.today, to \in {env.today} :
        /\ InRange(op, S, from, to)
        /\ IF ~env.key /\ op # "plain" THEN Blocked(op, S, from, to)
           ELSE /\ Begins(q, op, S, from, to,
                    IF op = "plain" THEN Whole(S, from, to) ELSE Todo(S, from, to), {})
                /\ excused' = excused \union Skipped(S, from)
                /\ UNCHANGED runs
  BY DEF BeginRange
<1> DEFINE todo == IF op = "plain" THEN Whole(S, from, to) ELSE Todo(S, from, to)
<1>2. /\ env' \in [today : Days, key : BOOLEAN, ops : 0..MaxOps] /\ env'.today = env.today
      /\ UNCHANGED <<bars, quoted, checks, approved>> /\ env.today \in Days
  BY <1>0, AcceptsTyped DEF BeginRange
<1>3. op \in Ops /\ from \in Days /\ from \in 0..MaxDay /\ to \in 0..MaxDay
  BY <1>2, Bounds DEF Ops
<1>4. todo \in SUBSET Calls
  BY <1>3, CallsAre
<1>5. Skipped(S, from) \subseteq Series \X Days \X Causes
  BY <1>3, SkippedTyped
<1>6. CASE ~env.key /\ op # "plain"
  BY <1>1, <1>2, <1>3, <1>6 DEF Opens
<1>7. CASE ~(~env.key /\ op # "plain")
  <2>1. Starts(q, op, S, from, to, todo, {}) /\ UNCHANGED runs
    BY <1>1, <1>3, <1>4, <1>7 DEF Starts
  <2>2. excused' \subseteq Series \X Days \X Causes
    BY <1>0, <1>1, <1>5, <1>7 DEF TypeOK
  <2>3. Covers(todo, S, from, to) /\ op \in BarOps /\ to \in 1..env.today
    BY <1>1, <1>2, <1>3, TodoCovers, WholeCovers, Bounds DEF BarOps
  <2>4. \A s \in S \ Daily, d \in Trading : d < from => Settled(s, d)'
    BY <1>0, <1>1, <1>2, <1>3, <1>7, SkippedSettles
  <2>5. excused \subseteq excused'
    BY <1>1, <1>7
  <2> HIDE DEF todo
  <2>6. LeavesNothingOut(op, S, from, to, todo, {})
    BY <2>3, <2>4, <2>5 DEF LeavesNothingOut, Covers
  <2> QED
    BY <1>2, <1>3, <2>1, <2>2, <2>6 DEF Opens
<1> QED
  BY <1>6, <1>7

LEMMA OfIncremental ==
    ASSUME IngestionInv, NEW q \in Requests, BeginIncremental(q)
    PROVE  Opens(q)
<1>0. TypeOK
  BY DEF IngestionInv
<1>1. PICK S \in SUBSET (Series \ Daily), to \in 1..env.today :
        /\ S # {}
        /\ LET from == RefreshFrom(S, to) IN
            IF ~env.key THEN Blocked("incremental", S, from, to)
            ELSE /\ Begins(q, "incremental", S, from, to, Todo(S, from, to), {})
                 /\ excused' = excused \union Skipped({s \in S : ~Bars(s)}, from)
                 /\ UNCHANGED runs
  BY DEF BeginIncremental
<1> DEFINE from == RefreshFrom(S, to)
           todo == Todo(S, from, to)
<1>2. /\ env' \in [today : Days, key : BOOLEAN, ops : 0..MaxOps] /\ env'.today = env.today
      /\ UNCHANGED <<bars, quoted, checks, approved>> /\ env.today \in Days
  BY <1>0, AcceptsTyped DEF BeginIncremental
<1>3. to \in Days /\ S \in SUBSET Series /\ {s \in S : ~Bars(s)} \in SUBSET Series
  BY <1>2, Bounds
<1>4. from \in Days
  BY <1>0, <1>1, <1>3, RefreshFromIs
<1>5. "incremental" \in Ops /\ from \in 0..MaxDay /\ to \in 0..MaxDay
  BY <1>3, <1>4, Bounds DEF Ops
<1>6. todo \in SUBSET Calls
  BY <1>3, <1>4, <1>5, CallsAre
<1>7. Skipped({s \in S : ~Bars(s)}, from) \subseteq Series \X Days \X Causes
  BY <1>3, <1>4, SkippedTyped
<1>8. /\ ~env.key => Blocked("incremental", S, from, to)
      /\ env.key => /\ Begins(q, "incremental", S, from, to, todo, {})
                    /\ excused' = excused \union Skipped({s \in S : ~Bars(s)}, from)
                    /\ UNCHANGED runs
  BY <1>1
<1> HIDE DEF from, todo
<1>9. CASE ~env.key
  BY <1>2, <1>3, <1>5, <1>8, <1>9 DEF Opens
<1>10. CASE env.key
  <2>1. Starts(q, "incremental", S, from, to, todo, {}) /\ UNCHANGED runs
    BY <1>3, <1>5, <1>6, <1>8, <1>10 DEF Starts
  <2>2. excused' \subseteq Series \X Days \X Causes
    BY <1>0, <1>7, <1>8, <1>10 DEF TypeOK
  <2>3. Covers(todo, S, from, to) /\ "incremental" \in BarOps
    BY <1>5, TodoCovers DEF BarOps, todo
  <2>4. ASSUME NEW s \in S \ Daily, NEW d \in Trading, d < from PROVE Settled(s, d)'
    <3>1. CASE ~Bars(s)
      <4>1. s \in {x \in S : ~Bars(x)}
        BY <3>1
      <4> QED
        BY <4>1, <1>0, <1>2, <1>3, <1>4, <1>8, <1>10, <2>4, SkippedSettles
    <3>2. CASE Bars(s)
      <4>1. from <= LastDay(s) /\ LastDay(s) \in Days /\ bars[s][LastDay(s)] # "none"
        BY <1>0, <1>1, <1>3, <3>2, RefreshFromIs, LastDayIs DEF from
      <4>2. LastDay(s) \in Trading /\ d < LastDay(s)
        <5>1. LastDay(s) \in Trading
          BY <1>3, <4>1 DEF IngestionInv, OnTradingDays
        <5> QED
          BY <5>1, <4>1, <1>4, <2>4, Bounds
      <4>3. Settled(s, d)
        BY <1>3, <2>4, <4>1, <4>2 DEF IngestionInv, GapsExplained, Settled
      <4> QED
        BY <1>2, <1>8, <1>10, <4>3 DEF Settled
    <3> QED
      BY <3>1, <3>2
  <2>5. excused \subseteq excused'
    BY <1>8, <1>10
  <2>6. LeavesNothingOut("incremental", S, from, to, todo, {})
    BY <2>3, <2>4, <2>5 DEF LeavesNothingOut, Covers
  <2> QED
    BY <1>2, <1>3, <1>5, <2>1, <2>2, <2>6 DEF Opens
<1> QED
  BY <1>9, <1>10

LEMMA OfQuotes ==
    ASSUME IngestionInv, NEW q \in Requests, BeginQuotes(q)
    PROVE  Opens(q)
<1>0. TypeOK
  BY DEF IngestionInv
<1>1. /\ env' \in [today : Days, key : BOOLEAN, ops : 0..MaxOps] /\ env'.today = env.today
      /\ UNCHANGED <<bars, quoted, checks, approved>>
  BY <1>0, AcceptsTyped DEF BeginQuotes
<1>2. "quotes" \in Ops /\ 0 \in 0..MaxDay /\ {} \in SUBSET Series /\ {Quote} \in SUBSET Calls
  BY Bounds DEF Ops, Quote, Fetch, Calls
<1>3. CASE ~env.key
  BY <1>1, <1>2, <1>3 DEF BeginQuotes, Opens
<1>4. CASE env.key
  <2>1. Starts(q, "quotes", {}, 0, 0, {Quote}, {}) /\ UNCHANGED <<runs, excused>>
    BY <1>2, <1>4 DEF BeginQuotes, Starts
  <2>2. LeavesNothingOut("quotes", {}, 0, 0, {Quote}, {})
    BY <2>1, Bounds DEF LeavesNothingOut, BarOps, Quote, Fetch
  <2> QED
    BY <1>0, <1>1, <1>2, <2>1, <2>2 DEF Opens, TypeOK
<1> QED
  BY <1>3, <1>4

LEMMA OfCheck ==
    ASSUME IngestionInv, NEW q \in Requests, BeginCheck(q)
    PROVE  Opens(q)
<1> DEFINE todo == {Fetch("batch_quote", {}), Fetch("bars", {})}
<1>0. TypeOK
  BY DEF IngestionInv
<1>1. /\ env' \in [today : Days, key : BOOLEAN, ops : 0..MaxOps] /\ env'.today = env.today
      /\ UNCHANGED <<bars, quoted, checks, approved>>
  BY <1>0, AcceptsTyped DEF BeginCheck
<1>2. "check" \in Ops /\ 0 \in 0..MaxDay /\ {} \in SUBSET Series /\ todo \in SUBSET Calls
  BY Bounds DEF Ops, Fetch, Calls, Endpoints
<1>3. Starts(q, "check", {}, 0, 0, todo, {}) /\ UNCHANGED <<runs, excused>>
  BY <1>2 DEF BeginCheck, Starts
<1>4. LeavesNothingOut("check", {}, 0, 0, todo, {})
  BY <1>3, Bounds DEF LeavesNothingOut, BarOps, Fetch
<1> HIDE DEF todo
<1> QED
  BY <1>0, <1>1, <1>2, <1>3, <1>4 DEF Opens, TypeOK

LEMMA OfSeed ==
    ASSUME IngestionInv, NEW q \in Requests, BeginSeed(q)
    PROVE  Opens(q)
<1>0. TypeOK
  BY DEF IngestionInv
<1>1. PICK S \in {{}, Series}, quotes \in BOOLEAN, override \in BOOLEAN :
        LET to == env.today
            from == Earliest(to)
            needed == Required(S, quotes) IN
        /\ IF ~env.key \/ (~override /\ ~Ready(needed)) THEN Blocked("seed", S, from, to)
           ELSE /\ Begins(q, "seed", S, from, to, Todo(S, from, to) \union (IF quotes THEN {Quote} ELSE {}),
                          IF override THEN {} ELSE Basis(needed))
                /\ excused' = excused \union Skipped(S, from)
                /\ UNCHANGED runs
  BY DEF BeginSeed
<1> DEFINE to == env.today
           from == Earliest(to)
           needed == Required(S, quotes)
           todo == Todo(S, from, to) \union (IF quotes THEN {Quote} ELSE {})
           basis == IF override THEN {} ELSE Basis(needed)
<1>2. /\ env' \in [today : Days, key : BOOLEAN, ops : 0..MaxOps] /\ env'.today = env.today
      /\ UNCHANGED <<bars, quoted, checks, approved>> /\ env.today \in Days
  BY <1>0, AcceptsTyped DEF BeginSeed
<1>3. from \in Days /\ S \in SUBSET Series
  BY <1>2, EarliestIs, Bounds
<1>4. "seed" \in Ops /\ from \in 0..MaxDay /\ to \in 0..MaxDay
  BY <1>2, <1>3, Bounds DEF Ops
<1>5. todo \in SUBSET Calls
  <2>1. Todo(S, from, to) \subseteq Calls /\ Quote \in Calls
    BY <1>3, <1>4, CallsAre DEF Quote, Fetch, Calls
  <2> QED
    BY <2>1
<1>6. basis \in SUBSET (Endpoints \X (0..MaxChecks))
  <2>1. needed \subseteq Endpoints
    BY DEF Required
  <2>2. \A e \in Endpoints : checks[e].n \in 0..MaxChecks
    BY <1>0 DEF TypeOK
  <2> HIDE DEF needed
  <2> QED
    BY <2>1, <2>2 DEF Basis
<1>7. Skipped(S, from) \subseteq Series \X Days \X Causes
  BY <1>3, SkippedTyped
<1>8. \/ Blocked("seed", S, from, to)
      \/ /\ Begins(q, "seed", S, from, to, todo, basis)
         /\ excused' = excused \union Skipped(S, from)
         /\ UNCHANGED runs
         /\ override \/ Ready(needed)
  BY <1>1
<1> HIDE DEF to, from, todo, basis, needed
<1>9. CASE Blocked("seed", S, from, to)
  BY <1>2, <1>3, <1>4, <1>9 DEF Opens
<1>10. CASE /\ Begins(q, "seed", S, from, to, todo, basis)
            /\ excused' = excused \union Skipped(S, from)
            /\ UNCHANGED runs
            /\ override \/ Ready(needed)
  <2>1. Starts(q, "seed", S, from, to, todo, basis)
    BY <1>3, <1>4, <1>5, <1>6, <1>10 DEF Starts
  <2>2. excused' \subseteq Series \X Days \X Causes
    BY <1>0, <1>7, <1>10 DEF TypeOK
  <2>3. Covers(Todo(S, from, to), S, from, to) /\ "seed" \in BarOps /\ to \in 1..env.today
    BY <1>2, <1>3, <1>4, TodoCovers, Bounds DEF BarOps, to
  <2>4. /\ \A fetch \in todo : fetch.s \in Series => fetch.s \in S /\ fetch.days \subseteq from..to
        /\ \A s \in S : \A d \in (from..to) \cap Trading : \E fetch \in todo : fetch.s = s /\ d \in fetch.days
    <3>1. Quote.s \notin Series
      BY Bounds DEF Quote, Fetch
    <3>2. Todo(S, from, to) \subseteq todo /\ todo \subseteq Todo(S, from, to) \union {Quote}
      BY DEF todo
    <3> QED
      BY <2>3, <3>1, <3>2 DEF Covers
  <2>5. \A s \in S \ Daily, d \in Trading : d < from => Settled(s, d)'
    BY <1>0, <1>2, <1>3, <1>10, SkippedSettles
  <2>6. basis \subseteq approved
    <3>1. needed \subseteq Endpoints
      BY DEF Required, needed
    <3>2. Ready(needed) => Basis(needed) \subseteq approved
      BY <3>1 DEF Ready, Basis, IngestionInv, Reviewing
    <3> QED
      BY <1>10, <3>2 DEF basis
  <2>7. excused \subseteq excused'
    BY <1>10
  <2>8. LeavesNothingOut("seed", S, from, to, todo, basis)
    BY <2>3, <2>4, <2>5, <2>6, <2>7 DEF LeavesNothingOut
  <2> QED
    BY <1>2, <1>3, <1>4, <1>10, <2>1, <2>2, <2>8 DEF Opens
<1> QED
  BY <1>8, <1>9, <1>10

-----------------------------------------------------------------------------
(* What a step leaves to the requests it is not about. *)

\* Days go on and what is settled or met stays so.
Steady ==
    /\ env'.today \in Days /\ env.today <= env'.today
    /\ \A s \in Series \ Daily, d \in Trading : Settled(s, d) => Settled(s, d)'
    /\ \A s \in Series, d \in Trading : Met(s, d) => Met(s, d)'

LEMMA SteadyIfGrows ==
    ASSUME TypeOK, UNCHANGED bars, excused \subseteq excused', env'.today \in Days,
           env.today <= env'.today
    PROVE  Steady
  BY DEF Steady, Settled, Met

LEMMA SteadyIfSame ==
    ASSUME TypeOK, UNCHANGED <<env, bars, excused>>
    PROVE  Steady
<1>1. env.today \in Days /\ env.today <= env.today
  BY Bounds DEF TypeOK
<1> QED
  BY <1>1, SteadyIfGrows

LEMMA RequestKept ==
    ASSUME TypeOK, Steady, NEW q \in Requests, RequestSound(q), req'[q] = req[q]
    PROVE  RequestSound(q)'
<1>1. req[q] \in Request /\ env.today \in Days
  BY DEF TypeOK
<1>2. req[q].series \in SUBSET Series /\ req[q].to \in 0..MaxDay
  BY <1>1, RequestIs
<1>3. AsksInRange(q)'
  BY DEF RequestSound, AsksInRange
<1>4. RangeIsPast(q)'
  <2>1. req[q].to \in 1..env.today => req[q].to \in 1..env'.today
    BY <1>1, <1>2, Bounds DEF Steady
  <2> QED
    BY <2>1 DEF RequestSound, RangeIsPast
<1>5. \A s, d : Awaits(q, s, d)' <=> Awaits(q, s, d)
  BY DEF Awaits
<1>6. LeavesNoGap(q)'
  BY <1>2, <1>5 DEF RequestSound, LeavesNoGap, Steady
<1>7. LeavesNothing(q)'
  BY <1>2, <1>5 DEF RequestSound, LeavesNothing, Steady
<1> QED
  BY <1>3, <1>4, <1>6, <1>7 DEF RequestSound

LEMMA IdleIsSound ==
    ASSUME NEW q \in Requests, req'[q] = Idle
    PROVE  RequestSound(q)'
  BY DEF Idle, RequestSound, AsksInRange, RangeIsPast, LeavesNoGap, LeavesNothing, BarOps

\* Bars that no step wrote have no new gaps.
LEMMA GapsKept ==
    ASSUME TypeOK, Steady, UNCHANGED bars, GapsExplained
    PROVE  GapsExplained'
<1> SUFFICES ASSUME NEW s \in Series \ Daily, NEW d \in Trading, NEW e \in Trading, d < e,
                    bars'[s][e] # "none", bars'[s][d] # "final"
             PROVE  \E cause \in Causes : <<s, d, cause>> \in excused'
  BY DEF GapsExplained
<1>1. Settled(s, d)
  BY DEF GapsExplained, Settled
<1> QED
  BY <1>1 DEF Steady, Settled

\* A run that does not say COMPLETED promises nothing.
LEMMA CompletedKept ==
    ASSUME TypeOK, Steady, CompletedIsStored,
           \A run \in runs' : run.status = "COMPLETED" => run \in runs
    PROVE  CompletedIsStored'
<1> SUFFICES ASSUME NEW run \in runs', run.status = "COMPLETED", NEW s \in run.series,
                    NEW d \in (run.from..run.to) \cap Trading
             PROVE  Met(s, d)'
  BY DEF CompletedIsStored, Met
<1>1. run \in runs /\ s \in Series
  BY DEF TypeOK
<1>2. Met(s, d)
  BY <1>1 DEF CompletedIsStored, Met
<1> QED
  BY <1>1, <1>2 DEF Steady

LEMMA ReviewingKept ==
    ASSUME Reviewing, UNCHANGED checks, approved \subseteq approved',
           \A q \in Requests : req'[q].basis \subseteq approved
    PROVE  Reviewing'
  BY DEF Reviewing

\* A request that begins leaves nothing out, and what the others remember stands.
LEMMA StartedSound ==
    ASSUME TypeOK, NEW q \in Requests, NEW op, NEW S, NEW from, NEW to, NEW todo, NEW basis,
           Starts(q, op, S, from, to, todo, basis), LeavesNothingOut(op, S, from, to, todo, basis),
           env'.today = env.today
    PROVE  RequestSound(q)' /\ req'[q].basis \subseteq approved
           /\ \A p \in Requests \ {q} : req'[p] = req[p]
<1> DEFINE b == Begun(op, S, from, to, todo, basis)
<1>1. req' = [req EXCEPT ![q] = b]
  BY DEF Starts, Begins, Begun
<1>2. req'[q] = b /\ \A p \in Requests \ {q} : req'[p] = req[p]
  BY <1>1 DEF TypeOK
<1>3. /\ b.op = op /\ b.todo = todo /\ b.asked = 0 /\ b.from = from /\ b.to = to
      /\ b.series = S /\ b.errors = {} /\ b.basis = basis
  BY BegunIs
<1> HIDE DEF b
<1>4. AsksInRange(q)'
  BY <1>2, <1>3 DEF AsksInRange, LeavesNothingOut
<1>5. RangeIsPast(q)'
  BY <1>2, <1>3 DEF RangeIsPast, LeavesNothingOut
<1>6. \A s \in S : \A d \in (from..to) \cap Trading : Awaits(q, s, d)'
  BY <1>2, <1>3 DEF Awaits, LeavesNothingOut
<1>7. LeavesNoGap(q)'
  BY <1>2, <1>3, <1>6 DEF LeavesNoGap, LeavesNothingOut
<1>8. LeavesNothing(q)'
  BY <1>2, <1>3, <1>6 DEF LeavesNothing
<1> QED
  BY <1>2, <1>3, <1>4, <1>5, <1>7, <1>8 DEF RequestSound, LeavesNothingOut

LEMMA OpensKept ==
    ASSUME IngestionInv, NEW q \in Requests, Opens(q)
    PROVE  IngestionInv'
<1>0. TypeOK /\ TypeOK' /\ env.today \in Days
  BY OpensTyped DEF IngestionInv, TypeOK
<1>1. PICK op \in Ops, S \in SUBSET Series, from \in 0..MaxDay, to \in 0..MaxDay :
        \/ Blocked(op, S, from, to)
        \/ /\ UNCHANGED runs
           /\ \E todo, basis : /\ Starts(q, op, S, from, to, todo, basis)
                               /\ LeavesNothingOut(op, S, from, to, todo, basis)
           /\ excused' \subseteq Series \X Days \X Causes
  BY DEF Opens
<1>2. /\ excused \subseteq excused'
      /\ \A run \in runs' : run.status = "COMPLETED" => run \in runs
      /\ \A p \in Requests : (req'[p] = req[p] \/ RequestSound(p)') /\ req'[p].basis \subseteq approved
  <2>1. \A p \in Requests : req[p].basis \subseteq approved
    BY DEF IngestionInv, Reviewing
  <2>2. CASE Blocked(op, S, from, to)
    BY <1>0, <2>1, <2>2, BlockedTyped
  <2>3. CASE /\ UNCHANGED runs
             /\ \E todo, basis : /\ Starts(q, op, S, from, to, todo, basis)
                                 /\ LeavesNothingOut(op, S, from, to, todo, basis)
    <3>1. PICK todo, basis : /\ Starts(q, op, S, from, to, todo, basis)
                             /\ LeavesNothingOut(op, S, from, to, todo, basis)
      BY <2>3
    <3>2. RequestSound(q)' /\ req'[q].basis \subseteq approved
          /\ \A p \in Requests \ {q} : req'[p] = req[p]
      BY <1>0, <3>1, StartedSound DEF Opens
    <3> QED
      BY <2>1, <2>3, <3>1, <3>2 DEF LeavesNothingOut
  <2> QED
    BY <1>1, <2>2, <2>3
<1>3. Steady /\ UNCHANGED <<bars, checks, approved>>
  BY <1>0, <1>2, SteadyIfGrows, Bounds DEF Opens
<1>4. \A p \in Requests : RequestSound(p)'
  BY <1>0, <1>2, <1>3, RequestKept DEF IngestionInv
<1>5. GapsExplained' /\ CompletedIsStored'
  BY <1>0, <1>2, <1>3, GapsKept, CompletedKept DEF IngestionInv
<1>6. Reviewing' /\ OnTradingDays'
  BY <1>2, <1>3, ReviewingKept DEF IngestionInv, OnTradingDays
<1> QED
  BY <1>0, <1>4, <1>5, <1>6 DEF IngestionInv

-----------------------------------------------------------------------------
(* The requests that go on. *)

\* What is stored, or said of the days of a call, lets its request move on.
Served(q, fetch, failed) ==
    fetch.s \in Series => \A d \in fetch.days \cap Trading :
        /\ d < req[q].to /\ fetch.s \notin Daily => Settled(fetch.s, d)'
        /\ failed \/ Met(fetch.s, d)'

\* A request that moves on: it stays sound, and so does what its children save.
LEMMA MovedOn ==
    ASSUME IngestionInv, NEW q \in Requests, NEW fetch \in req[q].todo, NEW failed \in BOOLEAN,
           NEW got \in BOOLEAN, Moves(q, fetch, failed, got), Steady, Served(q, fetch, failed),
           env'.today = env.today
    PROVE  /\ req' \in [Requests -> Request] /\ runs' \subseteq RunRow
           /\ \A p \in Requests : RequestSound(p)' /\ req'[p].basis = req[p].basis
           /\ CompletedIsStored'
<1>0. TypeOK /\ RequestSound(q) /\ req[q] \in Request
  BY DEF IngestionInv, TypeOK
<1>1. PICK errors \in SUBSET Kinds, fetched \in SUBSET Kinds :
              /\ errors = req[q].errors \union (IF failed THEN {Kind(fetch)} ELSE {})
              /\ req' = [req EXCEPT ![q] = Moved(req[q], fetch, errors, fetched)]
              /\ ChildSaved(q, fetch, errors, fetched)
  BY <1>0, MovesIs
<1> DEFINE r == req[q]
           n == Moved(r, fetch, errors, fetched)
<1>2. req'[q] = n /\ \A p \in Requests \ {q} : req'[p] = req[p]
  BY <1>0, <1>1 DEF TypeOK
<1>3. /\ n \in Request
      /\ n.op = r.op /\ n.todo = r.todo \ {fetch} /\ n.asked = 0 /\ n.from = r.from
      /\ n.to = r.to /\ n.series = r.series /\ n.errors = errors /\ n.basis = r.basis
  <2>1. r \in Request
    BY <1>0
  <2>2. 0 \in 0..MaxDay
    BY Bounds
  <2> HIDE DEF r
  <2> QED
    BY <2>1, <2>2, RequestIs DEF Moved
<1>4. fetch \in Calls /\ r.series \in SUBSET Series /\ r.todo \in SUBSET Calls
  BY <1>0, RequestIs
<1>5. req' \in [Requests -> Request] /\ runs' \subseteq RunRow
  BY <1>0, <1>1, <1>3, ChildSavedTyped DEF TypeOK
<1> HIDE DEF n
<1>6. \A s, d : Awaits(q, s, d) => Awaits(q, s, d)' \/ (s = fetch.s /\ d \in fetch.days)
  BY <1>2, <1>3 DEF Awaits
<1>7. AsksInRange(q)' /\ RangeIsPast(q)'
  BY <1>0, <1>2, <1>3 DEF RequestSound, AsksInRange, RangeIsPast
<1>8. LeavesNoGap(q)'
  <2> SUFFICES ASSUME NEW s \in r.series \ Daily, NEW d \in Trading
               PROVE  /\ d < r.from => Settled(s, d)'
                      /\ d \in r.from..r.to /\ d < r.to => Settled(s, d)' \/ Awaits(q, s, d)'
    BY <1>2, <1>3 DEF LeavesNoGap
  <2>1. s \in Series
    BY <1>4
  <2>2. /\ d < r.from => Settled(s, d)
        /\ d \in r.from..r.to /\ d < r.to => Settled(s, d) \/ Awaits(q, s, d)
    BY <1>0 DEF RequestSound, LeavesNoGap
  <2>3. Settled(s, d) => Settled(s, d)'
    BY <2>1 DEF Steady
  <2>4. s = fetch.s /\ d \in fetch.days /\ d < r.to => Settled(s, d)'
    BY <2>1 DEF Served
  <2> QED
    BY <2>2, <2>3, <2>4, <1>6
<1>9. LeavesNothing(q)'
  <2> SUFFICES ASSUME r.op # "plain", NEW s \in r.series, NEW d \in (r.from..r.to) \cap Trading
               PROVE  Met(s, d)' \/ Awaits(q, s, d)' \/ Kind(Fetch(s, {})) \in errors
    BY <1>2, <1>3 DEF LeavesNothing
  <2>1. s \in Series /\ d \in Trading
    BY <1>4
  <2>2. Met(s, d) \/ Awaits(q, s, d) \/ Kind(Fetch(s, {})) \in r.errors
    BY <1>0 DEF RequestSound, LeavesNothing
  <2>3. Met(s, d) => Met(s, d)'
    BY <2>1 DEF Steady
  <2>4. s = fetch.s /\ d \in fetch.days => Met(s, d)' \/ Kind(Fetch(s, {})) \in errors
    BY <1>1, <1>4, <2>1, KindOfSeries DEF Served
  <2>5. r.errors \subseteq errors
    BY <1>1
  <2> QED
    BY <2>2, <2>3, <2>4, <2>5, <1>6
<1>10. \A p \in Requests : RequestSound(p)' /\ req'[p].basis = req[p].basis
  <2>1. RequestSound(q)' /\ req'[q].basis = req[q].basis
    BY <1>2, <1>3, <1>7, <1>8, <1>9 DEF RequestSound
  <2>2. \A p \in Requests \ {q} : RequestSound(p)' /\ req'[p].basis = req[p].basis
    BY <1>0, <1>2, RequestKept DEF IngestionInv
  <2> QED
    BY <2>1, <2>2
<1>11. CompletedIsStored'
  <2> DEFINE kind == Kind(fetch)
             S == {s \in r.series : kind = Kind(Fetch(s, {}))}
             status == Status(errors \cap {kind}, fetched \cap {kind})
             run == [op |-> kind, series |-> S, from |-> r.from, to |-> r.to, status |-> status]
  <2>1. CASE UNCHANGED runs
    BY <1>0, <2>1, CompletedKept DEF IngestionInv
  <2>2. CASE ~UNCHANGED runs
    <3>1. /\ r.op = "seed" /\ runs' = runs \union {run}
          /\ \A other \in r.todo \ {fetch} : Kind(other) # kind
      BY <1>1, <2>2 DEF ChildSaved, Saved
    <3>2. ASSUME status = "COMPLETED", NEW s \in S, NEW d \in (r.from..r.to) \cap Trading
          PROVE  Met(s, d)'
      <4>1. kind \notin errors
        BY <3>2, StatusTyped
      <4>2. s \in r.series /\ Kind(Fetch(s, {})) = kind /\ s \in Series
        BY <1>4
      <4>3. Met(s, d)' \/ Awaits(q, s, d)'
        BY <1>2, <1>3, <1>9, <3>1, <4>1, <4>2 DEF LeavesNothing
      <4>4. ~Awaits(q, s, d)'
        <5> SUFFICES ASSUME NEW other \in r.todo \ {fetch}, other.s = s PROVE FALSE
          BY <1>2, <1>3 DEF Awaits
        <5>1. Kind(other) = Kind(Fetch(s, {}))
          BY <1>4, <4>2, KindOfSeries
        <5> QED
          BY <3>1, <4>2, <5>1
      <4> QED
        BY <4>3, <4>4
    <3>3. run.series = S /\ run.from = r.from /\ run.to = r.to /\ run.status = status
      OBVIOUS
    <3> HIDE DEF run, S, status, kind
    <3> SUFFICES ASSUME NEW x \in runs', x.status = "COMPLETED", NEW s \in x.series,
                        NEW d \in (x.from..x.to) \cap Trading
                 PROVE  Met(s, d)'
      BY DEF CompletedIsStored, Met
    <3>4. CASE x \in runs
      <4>1. s \in Series /\ d \in Trading
        BY <1>0, <3>4 DEF TypeOK
      <4>2. Met(s, d)
        BY <3>4 DEF IngestionInv, CompletedIsStored, Met
      <4> QED
        BY <4>1, <4>2 DEF Steady
    <3>5. CASE x = run
      BY <3>2, <3>3, <3>5
    <3> QED
      BY <3>1, <3>4, <3>5
  <2> QED
    BY <2>1, <2>2
<1> QED
  BY <1>5, <1>10, <1>11

\* The bars of an answer: a gap before one of them was settled, or its day asked for earlier.
LEMMA StoreBarsKept ==
    ASSUME IngestionInv, NEW q \in Requests, StoreBars(q)
    PROVE  IngestionInv'
<1>0. TypeOK /\ RequestSound(q) /\ req[q] \in Request
  BY DEF IngestionInv, TypeOK
<1>1. PICK fetch \in req[q].todo, answer \in Answers : \E new \in Delivered(q, fetch, answer) :
        LET s == fetch.s
            missing == {d \in (fetch.days \cap Trading) \ new : bars[s][d] # "final"}
            old == {d \in new : bars[s][d] = "final" /\ d >= req[q].asked}
            before == {d \in Days : bars[s][d] # "final" /\ \E e \in new \ fetch.days : d < e} IN
        /\ s \in Series /\ Arrives(q, fetch)
        /\ bars' = Upserted(s, new, req[q].asked)
        /\ excused' = excused \union Unstored(s, missing, CauseOf(answer))
                               \union Unstored(s, old \union before, "other")
        /\ Moves(q, fetch, answer \notin Good, new # {})
  BY DEF StoreBars
<1> DEFINE r == req[q]
           s0 == fetch.s
           days == fetch.days \cap Trading
           missing(N) == {d \in days \ N : bars[s0][d] # "final"}
           old(N) == {d \in N : bars[s0][d] = "final" /\ d >= r.asked}
           before(N) == {d \in Days : bars[s0][d] # "final" /\ \E e \in N \ fetch.days : d < e}
           cause == CauseOf(answer)
           failed == answer \notin Good
<1>2. PICK new \in Delivered(q, fetch, answer) :
      /\ s0 \in Series /\ Arrives(q, fetch)
      /\ bars' = Upserted(s0, new, r.asked)
      /\ excused' = excused \union Unstored(s0, missing(new), cause)
                             \union Unstored(s0, old(new) \union before(new), "other")
      /\ Moves(q, fetch, failed, new # {})
      /\ UNCHANGED <<env, quoted, checks, approved>>
  BY <1>1 DEF StoreBars
<1>3. /\ days \subseteq Trading /\ new \subseteq Trading /\ days \subseteq Days /\ new \subseteq Days
      /\ missing(new) \subseteq Days /\ old(new) \subseteq Days /\ before(new) \subseteq Days
      /\ cause \in Causes /\ failed \in BOOLEAN
  BY Bounds DEF Delivered, Deliverable, CauseOf, Causes
<1>4. ~failed => cause \in Causes \ {"other"}
  BY DEF CauseOf, Causes
<1>5. /\ s0 \in r.series /\ fetch.days \subseteq r.from..r.to /\ r.op \in BarOps
      /\ r.to \in 1..env.today /\ r.to <= r.asked /\ r.asked \in 0..MaxDay /\ r.asked # 0
      /\ r.from \in 0..MaxDay /\ env.today \in Days
  <2>1. s0 \in r.series /\ fetch.days \subseteq r.from..r.to
    BY <1>0, <1>2 DEF RequestSound, AsksInRange
  <2>2. r.op \in BarOps
    BY <1>0, <2>1 DEF RequestSound, AsksInRange
  <2>3. r.asked # 0
    BY <1>2 DEF Arrives
  <2> QED
    BY <1>0, <2>1, <2>2, <2>3, RequestIs DEF RequestSound, RangeIsPast, TypeOK
<1>6. /\ \A s \in Series \ {s0} : bars'[s] = bars[s]
      /\ \A d \in Days : bars'[s0][d] = IF d \in new THEN IF d < r.asked THEN "final" ELSE "early"
                                        ELSE bars[s0][d]
      /\ bars' \in [Series -> [Days -> {"none", "early", "final"}]]
  <2>1. bars' = [bars EXCEPT ![s0] = [d \in Days |->
                  IF d \in new THEN IF d < r.asked THEN "final" ELSE "early" ELSE bars[s0][d]]]
    BY <1>2 DEF Upserted
  <2>2. bars \in [Series -> [Days -> {"none", "early", "final"}]]
    BY <1>0 DEF TypeOK
  <2> QED
    BY <1>2, <2>1, <2>2
<1>7. /\ excused \subseteq excused' /\ excused' \subseteq Series \X Days \X Causes
      /\ s0 \notin Daily \/ ~failed => \A d \in missing(new) : <<s0, d, cause>> \in excused'
      /\ s0 \notin Daily => \A d \in old(new) \union before(new) : <<s0, d, "other">> \in excused'
  <2>1. excused \subseteq Series \X Days \X Causes /\ "other" \in Causes
    BY <1>0 DEF TypeOK, Causes
  <2>2. ASSUME NEW N, NEW c, s0 \notin Daily \/ c # "other"
        PROVE  \A d \in N : <<s0, d, c>> \in Unstored(s0, N, c)
    BY <2>2 DEF Unstored
  <2>3. ASSUME NEW N \in SUBSET Days, NEW c \in Causes
        PROVE  Unstored(s0, N, c) \subseteq Series \X Days \X Causes
    BY <1>2 DEF Unstored
  <2> HIDE DEF missing, old, before, cause, failed
  <2>4. /\ Unstored(s0, missing(new), cause) \subseteq Series \X Days \X Causes
        /\ Unstored(s0, old(new) \union before(new), "other") \subseteq Series \X Days \X Causes
    BY <1>3, <2>1, <2>3
  <2>5. s0 \notin Daily \/ ~failed =>
            \A d \in missing(new) : <<s0, d, cause>> \in Unstored(s0, missing(new), cause)
    BY <1>4, <2>2
  <2>6. s0 \notin Daily => \A d \in old(new) \union before(new) :
            <<s0, d, "other">> \in Unstored(s0, old(new) \union before(new), "other")
    BY <2>2
  <2> QED
    BY <1>2, <2>1, <2>4, <2>5, <2>6
<1>8. /\ \A d \in days \ new : bars[s0][d] # "final" => d \in missing(new)
      /\ \A d \in new : bars[s0][d] = "final" /\ d >= r.asked => d \in old(new)
      /\ \A d \in Days, e \in new \ fetch.days : d < e /\ bars[s0][d] # "final" => d \in before(new)
  OBVIOUS
<1> HIDE DEF missing, old, before, cause, failed
<1>9. Steady
  <2>1. ASSUME NEW s \in Series \ Daily, NEW d \in Trading, Settled(s, d) PROVE Settled(s, d)'
    <3>1. d \in Days
      BY Bounds
    <3>2. CASE \E c \in Causes : <<s, d, c>> \in excused
      BY <1>7, <3>2 DEF Settled
    <3>3. CASE bars[s][d] = "final" /\ (s # s0 \/ d \notin new \/ d < r.asked)
      BY <1>6, <3>1, <3>3 DEF Settled
    <3>4. CASE bars[s][d] = "final" /\ s = s0 /\ d \in new /\ ~(d < r.asked)
      <4>1. d \in old(new)
        BY <1>5, <1>8, <3>1, <3>4, Bounds
      <4> QED
        BY <1>7, <3>4, <4>1 DEF Settled, Causes
    <3> QED
      BY <2>1, <3>2, <3>3, <3>4 DEF Settled
  <2>2. ASSUME NEW s \in Series, NEW d \in Trading, Met(s, d) PROVE Met(s, d)'
    <3>1. d \in Days
      BY Bounds
    <3>2. bars[s][d] # "none" => bars'[s][d] # "none"
      BY <1>2, <1>6, <3>1
    <3> QED
      BY <1>7, <2>2, <3>2 DEF Met
  <2> QED
    BY <1>2, <1>5, <2>1, <2>2, Bounds DEF Steady
<1>10. Served(q, fetch, failed)
  <2> SUFFICES ASSUME NEW d \in days
               PROVE  /\ d < r.to /\ s0 \notin Daily => Settled(s0, d)'
                      /\ failed \/ Met(s0, d)'
    BY DEF Served
  <2>1. d \in Days
    BY <1>3
  <2>2. CASE d \in new
    <3>1. d < r.to => d < r.asked
      BY <1>5, <2>1, Bounds
    <3>2. bars'[s0][d] # "none" /\ (d < r.to => bars'[s0][d] = "final")
      BY <1>6, <2>1, <2>2, <3>1
    <3> QED
      BY <3>2 DEF Settled, Met
  <2>3. CASE d \notin new /\ bars[s0][d] = "final"
    <3>1. bars'[s0][d] = "final"
      BY <1>6, <2>1, <2>3
    <3> QED
      BY <3>1 DEF Settled, Met
  <2>4. CASE d \notin new /\ bars[s0][d] # "final"
    <3>1. s0 \notin Daily \/ ~failed => <<s0, d, cause>> \in excused'
      BY <1>7, <1>8, <2>4
    <3> QED
      BY <1>3, <1>4, <3>1 DEF Settled, Met
  <2> QED
    BY <2>2, <2>3, <2>4
<1>11. /\ req' \in [Requests -> Request] /\ runs' \subseteq RunRow
       /\ \A p \in Requests : RequestSound(p)' /\ req'[p].basis = req[p].basis
       /\ CompletedIsStored'
  BY <1>2, <1>3, <1>9, <1>10, MovedOn
<1>12. GapsExplained'
  <2> SUFFICES ASSUME NEW s \in Series \ Daily, NEW d \in Trading, NEW e \in Trading, d < e,
                      bars'[s][e] # "none"
               PROVE  Settled(s, d)'
    BY DEF GapsExplained, Settled
  <2>1. d \in Days /\ e \in Days
    BY Bounds
  <2>2. Settled(s, d) => Settled(s, d)'
    BY <1>9 DEF Steady
  <2>3. CASE bars[s][e] # "none"
    <3>1. Settled(s, d)
      BY <2>3 DEF IngestionInv, GapsExplained, Settled
    <3> QED
      BY <2>2, <3>1
  <2>4. CASE bars[s][e] = "none"
    <3>1. s = s0 /\ e \in new
      BY <1>6, <2>1, <2>4
    <3>0. CASE e \notin fetch.days
      <4>1. CASE bars[s][d] = "final"
        BY <2>2, <4>1 DEF Settled
      <4>2. CASE bars[s][d] # "final"
        BY <1>7, <1>8, <2>1, <3>0, <3>1, <4>2 DEF Settled, Causes
      <4> QED
        BY <4>1, <4>2
    <3> SUFFICES ASSUME e \in fetch.days PROVE Settled(s, d)'
      BY <3>0
    <3>2. e \in fetch.days /\ e \in r.from..r.to
      BY <1>5
    <3>3. CASE d < r.from
      <4>1. Settled(s, d)
        BY <1>0, <1>5, <3>1, <3>3 DEF RequestSound, LeavesNoGap
      <4> QED
        BY <2>2, <4>1
    <3>4. CASE ~(d < r.from)
      <4>1. d \in r.from..r.to /\ d < r.to
        BY <1>5, <2>1, <3>2, <3>4, Bounds
      <4>2. Settled(s, d) \/ Awaits(q, s, d)
        BY <1>0, <1>5, <3>1, <4>1 DEF RequestSound, LeavesNoGap
      <4>3. CASE Awaits(q, s, d)
        <5>1. PICK other \in r.todo : other.s = s /\ d \in other.days
          BY <4>3 DEF Awaits
        <5>2. other = fetch
          <6> SUFFICES ASSUME other # fetch PROVE FALSE
            OBVIOUS
          <6>1. Precedes(fetch, other)
            BY <1>2, <5>1 DEF Arrives
          <6>2. e < d
            BY <3>1, <3>2, <5>1, <6>1 DEF Precedes
          <6> QED
            BY <2>1, <6>2, Bounds
        <5> QED
          BY <1>2, <1>10, <3>1, <4>1, <5>1, <5>2 DEF Served
      <4> QED
        BY <2>2, <4>2, <4>3
    <3> QED
      BY <3>3, <3>4
  <2> QED
    BY <2>3, <2>4
<1>13. OnTradingDays'
  <2> SUFFICES ASSUME NEW s \in Series, NEW d \in Days, bars'[s][d] # "none" PROVE d \in Trading
    BY DEF OnTradingDays
  <2>1. CASE s = s0 /\ d \in new
    BY <1>3, <2>1
  <2>2. CASE ~(s = s0 /\ d \in new)
    BY <1>6, <2>2 DEF IngestionInv, OnTradingDays
  <2> QED
    BY <2>1, <2>2
<1>14. Reviewing'
  BY <1>2, <1>11, ReviewingKept DEF IngestionInv, Reviewing
<1>15. TypeOK'
  BY <1>0, <1>2, <1>6, <1>7, <1>11 DEF TypeOK, RunRow
<1> QED
  BY <1>11, <1>12, <1>13, <1>14, <1>15 DEF IngestionInv

LEMMA StoreQuotesKept ==
    ASSUME IngestionInv, NEW q \in Requests, StoreQuotes(q)
    PROVE  IngestionInv'
<1>0. TypeOK /\ req[q] \in Request
  BY DEF IngestionInv, TypeOK
<1>1. Steady /\ UNCHANGED <<env, bars, checks, approved, excused>>
  BY <1>0, SteadyIfSame DEF StoreQuotes
<1>2. GapsExplained' /\ OnTradingDays'
  BY <1>0, <1>1, GapsKept DEF IngestionInv, OnTradingDays
<1>3. CASE \E answer \in Answers :
            /\ quoted' = IF answer = "ACCESSIBLE" THEN Snapshot(req[q].asked) ELSE quoted
            /\ Moves(q, Quote, answer \notin Good, answer = "ACCESSIBLE")
  <2>1. PICK answer \in Answers :
            /\ quoted' = IF answer = "ACCESSIBLE" THEN Snapshot(req[q].asked) ELSE quoted
            /\ Moves(q, Quote, answer \notin Good, answer = "ACCESSIBLE")
    BY <1>3
  <2>2. Quote \in req[q].todo /\ Served(q, Quote, answer \notin Good)
    BY Bounds DEF StoreQuotes, Served, Quote, Fetch
  <2>3. /\ req' \in [Requests -> Request] /\ runs' \subseteq RunRow
        /\ \A p \in Requests : RequestSound(p)' /\ req'[p].basis = req[p].basis
        /\ CompletedIsStored'
    <3>1. (answer \notin Good) \in BOOLEAN /\ (answer = "ACCESSIBLE") \in BOOLEAN
      OBVIOUS
    <3> QED
      BY <1>1, <2>1, <2>2, <3>1, MovedOn
  <2>4. quoted' \in 0..MaxDay
    <3>1. quoted \in 0..MaxDay /\ req[q].asked \in 0..MaxDay
      BY <1>0, RequestIs DEF TypeOK
    <3>2. Snapshot(req[q].asked) \in {quoted, req[q].asked}
      BY <3>1, MaxOfTwo DEF Snapshot
    <3> QED
      BY <2>1, <3>1, <3>2
  <2>5. TypeOK'
    BY <1>0, <1>1, <2>3, <2>4 DEF TypeOK, RunRow
  <2>6. Reviewing'
    BY <1>1, <2>3, ReviewingKept DEF IngestionInv, Reviewing
  <2> QED
    BY <1>2, <2>3, <2>5, <2>6 DEF IngestionInv
<1>4. CASE req' = [req EXCEPT ![q] = Idle] /\ UNCHANGED <<quoted, runs>>
  <2>1. TypeOK'
    BY <1>0, <1>1, <1>4, IdleTyped DEF TypeOK
  <2>2. \A p \in Requests : RequestSound(p)' /\ req'[p].basis \subseteq approved
    <3>1. req'[q] = Idle /\ \A p \in Requests \ {q} : req'[p] = req[p]
      BY <1>0, <1>4 DEF TypeOK
    <3>2. RequestSound(q)' /\ Idle.basis = {}
      BY <3>1, IdleIsSound DEF Idle
    <3> QED
      BY <1>0, <1>1, <3>1, <3>2, RequestKept DEF IngestionInv, Reviewing
  <2>3. CompletedIsStored' /\ Reviewing'
    BY <1>0, <1>1, <1>4, <2>2, CompletedKept, ReviewingKept DEF IngestionInv
  <2> QED
    BY <1>2, <2>1, <2>2, <2>3 DEF IngestionInv
<1> QED
  BY <1>3, <1>4 DEF StoreQuotes

\* A new check is not reviewed.
LEMMA StoreCheckKept ==
    ASSUME IngestionInv, NEW q \in Requests, StoreCheck(q)
    PROVE  IngestionInv'
<1>0. TypeOK
  BY DEF IngestionInv
<1>1. PICK fetch \in req[q].todo, answer \in IF env.key THEN Answers ELSE {"SKIPPED_NO_KEY"} :
        /\ fetch.s \in Endpoints /\ Arrives(q, fetch) /\ checks[fetch.s].n < MaxChecks
        /\ NewCheck(fetch.s, answer)
        /\ Moves(q, fetch, FALSE, FALSE)
  BY DEF StoreCheck
<1>2. Steady /\ UNCHANGED <<env, bars, quoted, approved, excused>>
  BY <1>0, SteadyIfSame DEF StoreCheck
<1>3. GapsExplained' /\ OnTradingDays'
  BY <1>0, <1>2, GapsKept DEF IngestionInv, OnTradingDays
<1>4. Served(q, fetch, FALSE)
  BY <1>1, Bounds DEF Served, Endpoints
<1>5. /\ req' \in [Requests -> Request] /\ runs' \subseteq RunRow
      /\ \A p \in Requests : RequestSound(p)' /\ req'[p].basis = req[p].basis
      /\ CompletedIsStored'
  BY <1>1, <1>2, <1>4, MovedOn
<1>6. /\ checks' = [checks EXCEPT ![fetch.s] = [n |-> checks[fetch.s].n + 1, status |-> answer,
                                                review |-> "UNREVIEWED"]]
      /\ checks[fetch.s].n + 1 \in 0..MaxChecks
      /\ answer \in Good \union {"none", "ERROR", "SKIPPED_NO_KEY"}
  <2>1. checks[fetch.s].n \in 0..MaxChecks
    BY <1>0, <1>1 DEF TypeOK
  <2>2. answer \in Good \union {"none", "ERROR", "SKIPPED_NO_KEY"}
    BY <1>1, AnswersAre DEF Good
  <2> QED
    BY <1>1, <2>1, <2>2, Bounds DEF NewCheck
<1>7. TypeOK'
  <2>1. checks' \in [Endpoints -> [n : 0..MaxChecks, review : Reviews,
                        status : Good \union {"none", "ERROR", "SKIPPED_NO_KEY"}]]
    BY <1>0, <1>1, <1>6 DEF TypeOK, Reviews
  <2> QED
    BY <1>0, <1>2, <1>5, <2>1 DEF TypeOK, RunRow
<1>8. Reviewing'
  <2>1. \A e \in Endpoints : checks'[e].review = "REVIEWED_ACCESSIBLE" => checks'[e] = checks[e]
    BY <1>0, <1>1, <1>6 DEF TypeOK
  <2> QED
    BY <1>2, <1>5, <2>1 DEF IngestionInv, Reviewing
<1> QED
  BY <1>3, <1>5, <1>7, <1>8 DEF IngestionInv

\* A run saved at the end has nothing left to do.
LEMMA FinishKept ==
    ASSUME IngestionInv, NEW q \in Requests, Finish(q)
    PROVE  IngestionInv'
<1>0. TypeOK /\ RequestSound(q) /\ req[q] \in Request
  BY DEF IngestionInv, TypeOK
<1> DEFINE r == req[q]
           status == Status(r.errors, r.fetched)
<1>1. Steady /\ UNCHANGED <<env, bars, quoted, checks, approved, excused>>
  BY <1>0, SteadyIfSame DEF Finish
<1>2. GapsExplained' /\ OnTradingDays'
  BY <1>0, <1>1, GapsKept DEF IngestionInv, OnTradingDays
<1>3. req'[q] = Idle /\ (\A p \in Requests \ {q} : req'[p] = req[p]) /\ req' \in [Requests -> Request]
  BY <1>0, IdleTyped DEF Finish, TypeOK
<1>4. \A p \in Requests : RequestSound(p)' /\ req'[p].basis \subseteq approved
  <2>1. RequestSound(q)' /\ Idle.basis = {}
    BY <1>3, IdleIsSound DEF Idle
  <2> QED
    BY <1>0, <1>1, <1>3, <2>1, RequestKept DEF IngestionInv, Reviewing
<1>5. Reviewing'
  BY <1>1, <1>4, ReviewingKept DEF IngestionInv
<1>6. runs' \subseteq RunRow /\ CompletedIsStored'
  <2>1. CASE UNCHANGED runs
    BY <1>0, <1>1, <2>1, CompletedKept DEF IngestionInv, TypeOK, RunRow
  <2>2. CASE ~UNCHANGED runs
    <3> DEFINE run == [op |-> r.op, series |-> r.series, from |-> r.from, to |-> r.to, status |-> status]
    <3>1. /\ r.op \notin {"plain", "check", "idle"} /\ r.todo = {}
          /\ Saved(r.op, r.series, r.from, r.to, status) /\ runs' = runs \union {run}
      BY <2>2 DEF Finish, Saved
    <3>2. runs' \subseteq RunRow
      <4>1. /\ status \in Statuses /\ r.op \in Ops /\ runs \subseteq RunRow /\ r.series \in SUBSET Series
            /\ r.from \in 0..MaxDay /\ r.to \in 0..MaxDay
        BY <1>0, <3>1, StatusTyped, RequestIs DEF TypeOK, RunRow
      <4> HIDE DEF status
      <4> QED
        BY <3>1, <4>1, SavedTyped
    <3>3. run.series = r.series /\ run.from = r.from /\ run.to = r.to /\ run.status = status
      OBVIOUS
    <3>4. ASSUME status = "COMPLETED", NEW s \in r.series, NEW d \in (r.from..r.to) \cap Trading
          PROVE  Met(s, d)'
      <4>1. r.errors = {} /\ ~Awaits(q, s, d)
        BY <3>1, <3>4, StatusTyped DEF Awaits
      <4>2. Met(s, d)
        BY <1>0, <3>1, <4>1 DEF RequestSound, LeavesNothing
      <4> QED
        BY <1>1, <4>2 DEF Met
    <3> HIDE DEF run, status, r
    <3> SUFFICES ASSUME NEW x \in runs', x.status = "COMPLETED", NEW s \in x.series,
                        NEW d \in (x.from..x.to) \cap Trading
                 PROVE  Met(s, d)'
      BY <3>2 DEF CompletedIsStored, Met
    <3>5. CASE x \in runs
      BY <1>1, <3>5 DEF IngestionInv, CompletedIsStored, Met
    <3>6. CASE x = run
      BY <3>3, <3>4, <3>6
    <3> QED
      BY <3>1, <3>5, <3>6
  <2> QED
    BY <2>1, <2>2
<1>7. TypeOK'
  BY <1>0, <1>1, <1>3, <1>6 DEF TypeOK, RunRow
<1> QED
  BY <1>2, <1>4, <1>5, <1>6, <1>7 DEF IngestionInv

\* An answer is as late as the range it was asked for.
LEMMA AnsweredKept ==
    ASSUME IngestionInv, NEW q \in Requests, Answered(q)
    PROVE  IngestionInv'
<1>0. TypeOK /\ RequestSound(q) /\ req[q] \in Request /\ env.today \in Days
  BY DEF IngestionInv, TypeOK
<1>1. Steady /\ UNCHANGED <<env, bars, quoted, checks, runs, approved, excused>>
  BY <1>0, SteadyIfSame DEF Answered
<1> DEFINE n == [req[q] EXCEPT !.asked = env.today]
<1>2. req' = [req EXCEPT ![q] = n]
  BY <1>0 DEF Answered, TypeOK
<1>3. env.today \in 0..MaxDay
  BY <1>0, Bounds
<1>4. /\ n \in Request /\ n.op = req[q].op /\ n.todo = req[q].todo /\ n.asked = env.today
      /\ n.from = req[q].from /\ n.to = req[q].to /\ n.series = req[q].series
      /\ n.errors = req[q].errors /\ n.basis = req[q].basis
  BY <1>0, <1>3, RequestIs
<1> HIDE DEF n
<1>5. req'[q] = n /\ (\A p \in Requests \ {q} : req'[p] = req[p]) /\ req' \in [Requests -> Request]
  BY <1>0, <1>2, <1>4 DEF TypeOK
<1>6. RequestSound(q)'
  <2>1. \A s, d : Awaits(q, s, d)' <=> Awaits(q, s, d)
    BY <1>4, <1>5 DEF Awaits
  <2>2. \A s, d : (Settled(s, d)' <=> Settled(s, d)) /\ (Met(s, d)' <=> Met(s, d))
    BY <1>1 DEF Settled, Met
  <2>3. AsksInRange(q)' /\ RangeIsPast(q)'
    BY <1>0, <1>1, <1>4, <1>5, Bounds DEF RequestSound, AsksInRange, RangeIsPast
  <2>4. LeavesNoGap(q)' /\ LeavesNothing(q)'
    BY <1>0, <1>4, <1>5, <2>1, <2>2 DEF RequestSound, LeavesNoGap, LeavesNothing
  <2> QED
    BY <2>3, <2>4 DEF RequestSound
<1>7. \A p \in Requests : RequestSound(p)' /\ req'[p].basis \subseteq approved
  BY <1>0, <1>1, <1>4, <1>5, <1>6, RequestKept DEF IngestionInv, Reviewing
<1>8. TypeOK'
  BY <1>0, <1>1, <1>5 DEF TypeOK
<1>9. GapsExplained' /\ CompletedIsStored' /\ Reviewing' /\ OnTradingDays'
  BY <1>0, <1>1, <1>7, GapsKept, CompletedKept, ReviewingKept DEF IngestionInv, OnTradingDays
<1> QED
  BY <1>7, <1>8, <1>9 DEF IngestionInv

\* A review is of the check it names.
LEMMA ReviewKept ==
    ASSUME IngestionInv, NEW e \in Endpoints, Review(e)
    PROVE  IngestionInv'
<1>0. TypeOK
  BY DEF IngestionInv
<1>1. PICK n \in 1..checks[e].n, review \in Reviews \ {"UNREVIEWED"} :
        /\ checks' = Reviewed(e, n, review)
        /\ approved' = IF review = "REVIEWED_ACCESSIBLE" THEN approved \union {<<e, n>>} ELSE approved
  BY DEF Review
<1>2. Steady /\ UNCHANGED <<env, bars, quoted, req, runs, excused>>
  BY <1>0, SteadyIfSame DEF Review
<1>3. checks[e].n \in 0..MaxChecks /\ n \in 1..MaxChecks
  BY <1>0, <1>1, Bounds DEF TypeOK
<1>4. TypeOK'
  <2>1. checks' \in [Endpoints -> [n : 0..MaxChecks, review : Reviews,
                        status : Good \union {"none", "ERROR", "SKIPPED_NO_KEY"}]]
    BY <1>0, <1>1 DEF Reviewed, TypeOK
  <2>2. approved' \subseteq Endpoints \X (1..MaxChecks)
    BY <1>0, <1>1, <1>3 DEF TypeOK
  <2> QED
    BY <1>0, <1>2, <2>1, <2>2 DEF TypeOK
<1>5. \A p \in Requests : RequestSound(p)'
  BY <1>0, <1>2, RequestKept DEF IngestionInv
<1>6. Reviewing'
  <2>1. approved \subseteq approved'
    BY <1>1
  <2>2. ASSUME NEW x \in Endpoints, checks'[x].review = "REVIEWED_ACCESSIBLE"
        PROVE  <<x, checks'[x].n>> \in approved'
    <3>1. CASE checks'[x] = checks[x]
      BY <2>1, <2>2, <3>1 DEF IngestionInv, Reviewing
    <3>2. CASE checks'[x] # checks[x]
      <4>1. x = e /\ n = checks[e].n /\ checks' = [checks EXCEPT ![e].review = review]
        BY <1>0, <1>1, <3>2 DEF Reviewed, TypeOK
      <4>2. checks'[e].review = review /\ checks'[e].n = n
        BY <1>0, <4>1 DEF TypeOK
      <4> QED
        BY <1>1, <2>2, <4>1, <4>2
    <3> QED
      BY <3>1, <3>2
  <2> QED
    BY <1>2, <2>1, <2>2 DEF IngestionInv, Reviewing
<1>7. GapsExplained' /\ CompletedIsStored' /\ OnTradingDays'
  BY <1>0, <1>2, GapsKept, CompletedKept DEF IngestionInv, OnTradingDays
<1> QED
  BY <1>4, <1>5, <1>6, <1>7 DEF IngestionInv

LEMMA TomorrowKept ==
    ASSUME IngestionInv, Tomorrow
    PROVE  IngestionInv'
<1>0. TypeOK /\ env.today \in Days
  BY DEF IngestionInv, TypeOK
<1>1. UNCHANGED <<bars, quoted, checks, req, runs, approved, excused>>
      /\ env'.today = env.today + 1 /\ env'.today \in Days
  BY <1>0, Bounds DEF Tomorrow, TypeOK
<1>2. TypeOK'
  BY <1>0, <1>1 DEF Tomorrow, TypeOK
<1>3. Steady
  BY <1>0, <1>1, SteadyIfGrows, Bounds
<1>4. \A p \in Requests : RequestSound(p)'
  BY <1>0, <1>1, <1>3, RequestKept DEF IngestionInv
<1>5. GapsExplained' /\ CompletedIsStored' /\ Reviewing' /\ OnTradingDays'
  BY <1>0, <1>1, <1>3, GapsKept, CompletedKept DEF IngestionInv, OnTradingDays, Reviewing
<1> QED
  BY <1>2, <1>4, <1>5 DEF IngestionInv

LEMMA CrashKept ==
    ASSUME IngestionInv, Crash
    PROVE  IngestionInv'
<1>0. TypeOK
  BY DEF IngestionInv
<1>1. Steady /\ UNCHANGED <<env, bars, quoted, checks, runs, approved, excused>>
  BY <1>0, SteadyIfSame DEF Crash
<1>2. (\A p \in Requests : req'[p] = Idle) /\ req' \in [Requests -> Request]
  BY IdleTyped DEF Crash
<1>3. \A p \in Requests : RequestSound(p)' /\ req'[p].basis \subseteq approved
  <2>1. Idle.basis = {}
    BY DEF Idle
  <2> QED
    BY <1>2, <2>1, IdleIsSound
<1>4. TypeOK'
  BY <1>0, <1>1, <1>2 DEF TypeOK
<1>5. GapsExplained' /\ CompletedIsStored' /\ Reviewing' /\ OnTradingDays'
  BY <1>0, <1>1, <1>3, GapsKept, CompletedKept, ReviewingKept DEF IngestionInv, OnTradingDays
<1> QED
  BY <1>3, <1>4, <1>5 DEF IngestionInv

-----------------------------------------------------------------------------
(* The theorems. *)

LEMMA InitInv == Init => IngestionInv
<1> SUFFICES ASSUME Init PROVE IngestionInv
  OBVIOUS
<1>1. TypeOK
  <2>1. 0 \in 0..MaxDay /\ 0 \in 0..MaxOps /\ 0 \in 0..MaxChecks /\ 1 \in Days
    BY Bounds
  <2> QED
    BY <2>1, IdleTyped DEF Init, TypeOK, Reviews
<1>2. \A q \in Requests : RequestSound(q) /\ req[q].basis = {}
  BY DEF Init, Idle, RequestSound, AsksInRange, RangeIsPast, LeavesNoGap, LeavesNothing, BarOps
<1>3. GapsExplained /\ CompletedIsStored /\ OnTradingDays
  BY Bounds DEF Init, GapsExplained, CompletedIsStored, OnTradingDays
<1>4. Reviewing
  BY <1>2 DEF Init, Reviewing
<1> QED
  BY <1>1, <1>2, <1>3, <1>4 DEF IngestionInv

LEMMA NextInv == IngestionInv /\ [Next]_vars => IngestionInv'
<1> SUFFICES ASSUME IngestionInv, [Next]_vars PROVE IngestionInv'
  OBVIOUS
<1>1. ASSUME NEW q \in Requests, BeginRange(q) PROVE IngestionInv'
  BY <1>1, OfRange, OpensKept
<1>2. ASSUME NEW q \in Requests, BeginIncremental(q) PROVE IngestionInv'
  BY <1>2, OfIncremental, OpensKept
<1>3. ASSUME NEW q \in Requests, BeginQuotes(q) PROVE IngestionInv'
  BY <1>3, OfQuotes, OpensKept
<1>4. ASSUME NEW q \in Requests, BeginSeed(q) PROVE IngestionInv'
  BY <1>4, OfSeed, OpensKept
<1>5. ASSUME NEW q \in Requests, BeginCheck(q) PROVE IngestionInv'
  BY <1>5, OfCheck, OpensKept
<1>6. ASSUME NEW q \in Requests, Step(q) PROVE IngestionInv'
  BY <1>6, AnsweredKept, StoreBarsKept, StoreQuotesKept, StoreCheckKept, FinishKept DEF Step
<1>7. ASSUME NEW e \in Endpoints, Review(e) PROVE IngestionInv'
  BY <1>7, ReviewKept
<1>8. CASE Tomorrow
  BY <1>8, TomorrowKept
<1>9. CASE Crash
  BY <1>9, CrashKept
<1>10. CASE UNCHANGED vars
  <2>1. UNCHANGED <<env, bars, quoted, checks, req, runs, approved, excused>>
    BY <1>10 DEF vars
  <2>2. TypeOK'
    BY <2>1 DEF IngestionInv, TypeOK
  <2>3. GapsExplained' /\ CompletedIsStored' /\ OnTradingDays' /\ Reviewing'
    BY <2>1 DEF IngestionInv, GapsExplained, CompletedIsStored, OnTradingDays, Reviewing
  <2>4. \A q \in Requests : RequestSound(q)'
    <3> TAKE q \in Requests
    <3>1. Steady /\ TypeOK /\ RequestSound(q) /\ req'[q] = req[q]
      BY <2>1, SteadyIfSame DEF IngestionInv
    <3> QED
      BY <3>1, RequestKept
  <2> QED
    BY <2>2, <2>3, <2>4 DEF IngestionInv
<1> QED
  BY <1>1, <1>2, <1>3, <1>4, <1>5, <1>6, <1>7, <1>8, <1>9, <1>10 DEF Next

\* The inductive invariant, for every set of series and requests and every calendar.
THEOREM IngestionInvariant == Spec => []IngestionInv
  BY InitInv, NextInv, PTL DEF Spec

\* Every variable keeps its type.
THEOREM TypeCorrect == Spec => []TypeOK
<1>1. IngestionInv => TypeOK
  BY DEF IngestionInv
<1> QED
  BY <1>1, IngestionInvariant, PTL

\* A trading day before stored bars is stored in its final form, or one of the listed causes
\* accounts for it, an answer without rows of that day among them: whatever requests overlap,
\* are answered late or in part, fail or die (incremental_intraday, _bar_request_windows,
\* _ingest_bars).
THEOREM GapsExplainedHolds == Spec => []GapsExplained
<1>1. IngestionInv => GapsExplained
  BY DEF IngestionInv
<1> QED
  BY <1>1, IngestionInvariant, PTL

\* Of each trading day of a run that says COMPLETED, a child of a seed included, bars are
\* stored or an answer without error had no row: what the run cannot hide is a refusal or a
\* window never asked for (_ingest_bars, seed_ingestion).
THEOREM CompletedIsStoredHolds == Spec => []CompletedIsStored
<1>1. IngestionInv => CompletedIsStored
  BY DEF IngestionInv
<1> QED
  BY <1>1, IngestionInvariant, PTL

\* What a seed relies on and what lets a report pass was approved for that very check
\* (seed_ingestion, freshness_check, review_capability).
THEOREM GateIsReviewedHolds == Spec => []GateIsReviewed
<1>1. IngestionInv => GateIsReviewed
  <2> SUFFICES ASSUME IngestionInv, NEW required \in SUBSET Endpoints,
                      Ready(required) \/ (\E dirty \in BOOLEAN : FreshnessStatus(required, TRUE, dirty) # "BLOCKED")
               PROVE  Basis(required) \subseteq approved
    BY DEF GateIsReviewed, IngestionInv, Reviewing
  <2>1. Ready(required)
    BY DEF FreshnessStatus
  <2> QED
    BY <2>1 DEF Ready, Basis, IngestionInv, Reviewing
<1> QED
  BY <1>1, IngestionInvariant, PTL

================================================================================
