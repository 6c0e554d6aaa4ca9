------------------------------- MODULE Ingestion -------------------------------
(***************************************************************************)
(* FMP ingestion: the requests that fetch bars and quotes from the         *)
(* provider into the database, the capability checks an operator reviews   *)
(* before a seed, and the freshness report over what is stored.            *)
(*                                                                         *)
(* The handlers are coroutines of the API server.  Each call of the        *)
(* provider is an await: the provider answers as of the day it is asked,   *)
(* other requests run before the answer is stored, and the server may die  *)
(* in between.  A day of bars of a series (a symbol and an interval) is    *)
(* "final" when written from an answer given after that day, "early" when  *)
(* written from an answer given while it ran.                              *)
(***************************************************************************)
EXTENDS Integers, Sequences, FiniteSets, FiniteSetsExt, SequencesExt

CONSTANTS
    Series,     \* the series, a symbol at an interval each
    Daily,      \* those of interval 1day
    MaxDay,     \* bound on the calendar
    Weekend,    \* the days that are no trading days
    Span,       \* DEFAULT_MAX_INTRADAY_DAYS
    MaxRetries, \* settings.max_retries
    Requests,   \* names of concurrent requests
    MaxOps,     \* bound on requests in all
    MaxChecks   \* bound on capability checks per endpoint

ASSUME BoundsAssumption ==
    /\ Daily \subseteq Series
    /\ {MaxDay, MaxOps, MaxRetries} \subseteq Nat \ {0} /\ {Span, MaxChecks} \subseteq Nat
    /\ Weekend \subseteq 1..MaxDay
ASSUME NamesAssumption == Series \cap {"quote", "batch_quote", "bars"} = {}

Days == 1..MaxDay
Trading == Days \ Weekend
Endpoints == {"batch_quote", "bars"}

VARIABLES
    env,       \* today, whether there is an API key, requests so far
    bars,      \* the bars table, day by day
    quoted,    \* the day of the latest quote snapshot, 0 without one
    checks,    \* the latest capability check of each endpoint
    req,       \* what each request is doing
    runs,      \* ingestion_runs
    approved,  \* history: checks an operator has approved
    excused    \* history: days not asked for, refused, found empty, left out or overtaken

vars == <<env, bars, quoted, checks, req, runs, approved, excused>>

Good == {"ACCESSIBLE", "EMPTY"}
Reviews == {"UNREVIEWED", "REVIEWED_ACCESSIBLE", "REVIEWED_BLOCKED"}
Idle == [op |-> "idle", todo |-> {}, asked |-> 0, from |-> 0, to |-> 0,
         series |-> {}, errors |-> {}, fetched |-> {}, basis |-> {}]
Ops == {"quotes", "eod", "intraday", "incremental", "seed", "plain", "check"}
Kinds == {"quotes", "eod", "intraday"}
Statuses == {"COMPLETED", "PARTIAL", "FAILED", "BLOCKED"}
\* Why a day is not stored: an answer without error had no row of it, or another cause.
Causes == {"no row", "other"}
Request == [op : Ops \union {"idle"},
            todo : SUBSET [s : Series \union Endpoints \union {"quote"}, days : SUBSET Days],
            asked : 0..MaxDay, from : 0..MaxDay, to : 0..MaxDay, series : SUBSET Series,
            errors : SUBSET Kinds, fetched : SUBSET Kinds,
            basis : SUBSET (Endpoints \X (0..MaxChecks))]

TypeOK ==
    /\ env \in [today : Days, key : BOOLEAN, ops : 0..MaxOps]
    /\ bars \in [Series -> [Days -> {"none", "early", "final"}]]
    /\ quoted \in 0..MaxDay
    /\ checks \in [Endpoints -> [n : 0..MaxChecks, review : Reviews,
                        status : Good \union {"none", "ERROR", "SKIPPED_NO_KEY"}]]
    /\ req \in [Requests -> Request]
    /\ runs \subseteq [op : Ops \union Kinds, series : SUBSET Series, from : 0..MaxDay,
                       to : 0..MaxDay, status : Statuses]
    /\ approved \subseteq Endpoints \X (1..MaxChecks)
    /\ excused \subseteq Series \X Days \X Causes

Init ==
    /\ env \in [today : {1}, key : BOOLEAN, ops : {0}]
    /\ bars = [s \in Series |-> [d \in Days |-> "none"]]
    /\ quoted = 0
    /\ checks = [e \in Endpoints |-> [n |-> 0, status |-> "none", review |-> "UNREVIEWED"]]
    /\ req = [q \in Requests |-> Idle]
    /\ runs = {}
    /\ approved = {} /\ excused = {}

-----------------------------------------------------------------------------
(* The client. *)

Attempts == {"ok", "empty", "garbled", "denied", "limited", "http_error", "raises"}

\* _classify_http: a body that is no JSON counts as an empty one.  DENIED and RATE_LIMITED
\* are treated like ERROR by all that follows.
Classified(a) ==
    CASE a = "ok" -> "ACCESSIBLE"
      [] a \in {"empty", "garbled"} -> "EMPTY"
      [] OTHER -> "ERROR"

\* FMPClient.request: only rate limits and exceptions are retried.
Answer(attempts) ==
    LET settled == {i \in DOMAIN attempts : attempts[i] \notin {"limited", "raises"}} IN
    IF settled = {} THEN "ERROR" ELSE Classified(attempts[Min(settled)])

Answers == {Answer(a) : a \in [1..MaxRetries -> Attempts]}

-----------------------------------------------------------------------------
(* Capability checks and their review. *)

\* capability_review_summary: READY when the latest check of every required endpoint is
\* accessible and an operator said so.
Ready(required) ==
    \A e \in required : checks[e].review = "REVIEWED_ACCESSIBLE" /\ checks[e].status \in Good
Basis(required) == {<<e, checks[e].n>> : e \in required}

\* ProviderCapabilityRepository.save: a check is a row of its own, not yet reviewed.
NewCheck(e, status) ==
    checks' = [checks EXCEPT ![e] = [n |-> @.n + 1, status |-> status, review |-> "UNREVIEWED"]]

\* Mutant: the latest check is approved, whichever was named.
ReviewedLatest(e, n, review) == [checks EXCEPT ![e].review = review]

\* ProviderCapabilityRepository.review names the row: the review of a row that is no
\* longer the latest one leaves the latest alone.
Reviewed(e, n, review) == IF n = checks[e].n THEN [checks EXCEPT ![e].review = review] ELSE checks

Review(e) ==
    /\ \E n \in 1..checks[e].n, review \in Reviews \ {"UNREVIEWED"} :
        /\ checks' = Reviewed(e, n, review)
        /\ approved' = IF review = "REVIEWED_ACCESSIBLE" THEN approved \union {<<e, n>>} ELSE approved
    /\ UNCHANGED <<env, bars, quoted, req, runs, excused>>

-----------------------------------------------------------------------------
(* Requests. *)

\* A call of the provider: for a series on some days, for quotes, for the check of an endpoint.
Fetch(s, days) == [s |-> s, days |-> days]
Quote == Fetch("quote", {})

\* _bar_request_windows: a window for each trading day, or the whole range when it has none.
Windows(s, from, to) ==
    LET days == (from..to) \ Weekend IN
    IF s \in Daily \/ days = {} THEN {from..to} ELSE {{d} : d \in days}

\* The calls of _ingest_bars.
Todo(S, from, to) == UNION {{Fetch(s, days) : days \in Windows(s, from, to)} : s \in S}

\* DataIngestionService.ingest asks for each series once.
Whole(S, from, to) == {Fetch(s, from..to) : s \in S}

\* The order of the calls: quotes, then bars, series by series.
Order == <<"quote", "batch_quote", "bars">> \o SetToSeq(Daily) \o SetToSeq(Series \ Daily)

\* Mutant: the latest day is asked for first.
PrecedesIfLater(f, g) ==
    IF f.s = g.s THEN \A c \in f.days, d \in g.days : c > d
    ELSE \E i, j \in DOMAIN Order : i < j /\ Order[i] = f.s /\ Order[j] = g.s

\* The windows of a series are asked for day after day.
Precedes(f, g) ==
    IF f.s = g.s THEN \A c \in f.days, d \in g.days : c < d
    ELSE \E i, j \in DOMAIN Order : i < j /\ Order[i] = f.s /\ Order[j] = g.s

\* _last_bar_start, and the earliest of them in incremental_intraday.
LastDay(s) == Max({d \in Days : bars[s][d] # "none"})
Bars(s) == \E d \in Days : bars[s][d] # "none"
Earliest(to) == Max({1, to - Span})
RefreshFrom(S, to) == Min({IF Bars(s) THEN LastDay(s) ELSE Earliest(to) : s \in S})

Accepts(q) == req[q].op = "idle" /\ env.ops < MaxOps /\ env' = [env EXCEPT !.ops = @ + 1]

Begins(q, op, S, from, to, todo, basis) ==
    req' = [req EXCEPT ![q] = [Idle EXCEPT !.op = op, !.todo = todo, !.from = from, !.to = to,
                                           !.series = S, !.basis = basis]]

\* What a request leaves unfetched before its range, if that was named or if it is the
\* first refresh of the series.
Skipped(S, from) ==
    {x \in (S \ Daily) \X (1..(from - 1)) \X {"other"} : bars[x[1]][x[2]] # "final"}

\* IngestionRunRepository.save.
Saved(op, S, from, to, status) ==
    runs' = runs \union {[op |-> op, series |-> S, from |-> from, to |-> to, status |-> status]}

Blocked(op, S, from, to) == Saved(op, S, from, to, "BLOCKED") /\ UNCHANGED <<req, excused>>

\* The ranges: of eod, intraday within the span, and the older route that keeps no run.
InRange(op, S, from, to) ==
    /\ S # {} /\ from <= to
    /\ \/ op = "eod" /\ S \subseteq Daily
       \/ op = "intraday" /\ S \cap Daily = {} /\ to - from <= Span
       \/ op = "plain" /\ S \cap Daily = {}

BeginRange(q) ==
    /\ Accepts(q)
    /\ \E op \in {"eod", "intraday", "plain"}, S \in SUBSET Series, from \in 1..env.today, to \in {env.today} :
        /\ InRange(op, S, from, to)
        /\ IF ~env.key /\ op # "plain" THEN Blocked(op, S, from, to)
           ELSE /\ Begins(q, op, S, from, to,
                    IF op = "plain" THEN Whole(S, from, to) ELSE Todo(S, from, to), {})
                /\ excused' = excused \union Skipped(S, from)
                /\ UNCHANGED runs
    /\ UNCHANGED <<bars, quoted, checks, approved>>

BeginIncremental(q) ==
    /\ Accepts(q)
    /\ \E S \in SUBSET (Series \ Daily), to \in 1..env.today :
        /\ S # {}
        /\ LET from == RefreshFrom(S, to) IN
            IF ~env.key THEN Blocked("incremental", S, from, to)
            ELSE /\ Begins(q, "incremental", S, from, to, Todo(S, from, to), {})
                 /\ excused' = excused \union Skipped({s \in S : ~Bars(s)}, from)
                 /\ UNCHANGED runs
    /\ UNCHANGED <<bars, quoted, checks, approved>>

BeginQuotes(q) ==
    /\ Accepts(q)
    /\ IF ~env.key THEN Blocked("quotes", {}, 0, 0)
       ELSE Begins(q, "quotes", {}, 0, 0, {Quote}, {}) /\ UNCHANGED <<runs, excused>>
    /\ UNCHANGED <<bars, quoted, checks, approved>>

\* seed_ingestion, over its default range: the review is read once, before the children run.
Required(S, quotes) ==
    IF S = {} /\ ~quotes THEN Endpoints
    ELSE {e \in Endpoints : IF e = "bars" THEN S # {} ELSE quotes}

BeginSeed(q) ==
    /\ Accepts(q)
    /\ \E S \in {{}, Series}, quotes, override \in BOOLEAN :
        LET to == env.today
            from == Earliest(to)
            needed == Required(S, quotes) IN
        /\ IF ~env.key \/ (~override /\ ~Ready(needed)) THEN Blocked("seed", S, from, to)
           ELSE /\ Begins(q, "seed", S, from, to, Todo(S, from, to) \union (IF quotes THEN {Quote} ELSE {}),
                          IF override THEN {} ELSE Basis(needed))
                /\ excused' = excused \union Skipped(S, from)
                /\ UNCHANGED runs
    /\ UNCHANGED <<bars, quoted, checks, approved>>

BeginCheck(q) ==
    /\ Accepts(q)
    /\ Begins(q, "check", {}, 0, 0, {Fetch("batch_quote", {}), Fetch("bars", {})}, {})
    /\ UNCHANGED <<bars, quoted, checks, runs, approved, excused>>

-----------------------------------------------------------------------------
(* The awaits. *)

\* The provider answers as of today; what the answer is shows when it arrives.
Answered(q) ==
    /\ req[q].todo # {} /\ req[q].asked = 0
    /\ req' = [req EXCEPT ![q].asked = env.today]
    /\ UNCHANGED <<env, bars, quoted, checks, runs, approved, excused>>

\* The call that was asked is the first of those to do.
Arrives(q, fetch) ==
    /\ req[q].asked # 0
    /\ \A other \in req[q].todo \ {fetch} : Precedes(fetch, other)

\* Mutant: errors count only when nothing was fetched.
StatusByFetched(errors, fetched) == IF fetched # {} \/ errors = {} THEN "COMPLETED" ELSE "FAILED"

Status(errors, fetched) ==
    IF errors = {} THEN "COMPLETED" ELSE IF fetched # {} THEN "PARTIAL" ELSE "FAILED"

Kind(fetch) == IF fetch = Quote THEN "quotes" ELSE IF fetch.s \in Daily THEN "eod" ELSE "intraday"

\* A child of a seed saves a run of its own after its last window.
ChildSaved(q, fetch, errors, fetched) ==
    LET r == req[q]
        kind == Kind(fetch)
        ends == \A other \in r.todo \ {fetch} : Kind(other) # kind IN
    IF r.op = "seed" /\ ends
    THEN Saved(kind, {s \in r.series : kind = Kind(Fetch(s, {}))}, r.from, r.to,
               Status(errors \cap {kind}, fetched \cap {kind}))
    ELSE UNCHANGED runs

\* The request goes on to its next window.
Moves(q, fetch, failed, got) ==
    LET kind == Kind(fetch)
        errors == req[q].errors \union (IF failed THEN {kind} ELSE {})
        fetched == req[q].fetched \union (IF got THEN {kind} ELSE {}) IN
    /\ req' = [req EXCEPT ![q].todo = @ \ {fetch}, ![q].asked = 0,
                          ![q].errors = errors, ![q].fetched = fetched]
    /\ ChildSaved(q, fetch, errors, fetched)

\* BarRepository.upsert_many: what is stored is overwritten.
Upserted(s, days, asked) ==
    [bars EXCEPT ![s] = [d \in Days |->
        IF d \in days THEN IF d < asked THEN "final" ELSE "early" ELSE bars[s][d]]]

\* The days an accessible answer may have rows of: those of its window, to which
\* _filter_bars_to_request_window cuts it; any day so far when nothing does, as for daily bars
\* and the older route.
Deliverable(q, fetch) ==
    Trading \cap (IF fetch.s \in Daily \/ req[q].op = "plain" THEN 1..req[q].asked ELSE fetch.days)

\* ACCESSIBLE says that rows came, not which: of all days, of some, or of none that is kept.
Delivered(q, fetch, answer) ==
    IF answer = "ACCESSIBLE" THEN SUBSET Deliverable(q, fetch) ELSE {{}}

CauseOf(answer) == IF answer \in Good THEN "no row" ELSE "other"

\* The history keeps what the properties ask of: of daily bars, the days without a row.
Unstored(s, days, cause) ==
    IF s \in Daily /\ cause = "other" THEN {} ELSE {s} \X days \X {cause}

\* The rows that came are upserted and their days marked dirty; a day without rows is no error.
StoreBars(q) ==
    /\ \E fetch \in req[q].todo, answer \in Answers : \E new \in Delivered(q, fetch, answer) :
        LET s == fetch.s
            missing == {d \in (fetch.days \cap Trading) \ new : bars[s][d] # "final"}
            old == {d \in new : bars[s][d] = "final" /\ d >= req[q].asked}
            before == {d \in Days : bars[s][d] # "final" /\ \E e \in new \ fetch.days : d < e} IN
        /\ s \in Series /\ Arrives(q, fetch)
        /\ bars' = Upserted(s, new, req[q].asked)
        /\ excused' = excused \union Unstored(s, missing, CauseOf(answer))
                               \union Unstored(s, old \union before, "other")
        /\ Moves(q, fetch, answer \notin Good, new # {})
    /\ UNCHANGED <<env, quoted, checks, approved>>

\* QuoteSnapshotRepository.upsert_many.
Snapshot(day) == Max({quoted, day})

\* A quote that cannot be read ends the request.
StoreQuotes(q) ==
    /\ Quote \in req[q].todo /\ Arrives(q, Quote)
    /\ \/ \E answer \in Answers :
            /\ quoted' = IF answer = "ACCESSIBLE" THEN Snapshot(req[q].asked) ELSE quoted
            /\ Moves(q, Quote, answer \notin Good, answer = "ACCESSIBLE")
       \/ req' = [req EXCEPT ![q] = Idle] /\ UNCHANGED <<quoted, runs>>
    /\ UNCHANGED <<env, bars, checks, approved, excused>>

StoreCheck(q) ==
    /\ \E fetch \in req[q].todo, answer \in IF env.key THEN Answers ELSE {"SKIPPED_NO_KEY"} :
        /\ fetch.s \in Endpoints /\ Arrives(q, fetch) /\ checks[fetch.s].n < MaxChecks
        /\ NewCheck(fetch.s, answer)
        /\ Moves(q, fetch, FALSE, FALSE)
    /\ UNCHANGED <<env, bars, quoted, approved, excused>>

\* The last step of the handler: its run is saved, where it keeps one.
Finish(q) ==
    /\ req[q].op # "idle" /\ req[q].todo = {}
    /\ LET r == req[q] IN
        IF r.op \in {"plain", "check"} THEN UNCHANGED runs
        ELSE Saved(r.op, r.series, r.from, r.to, Status(r.errors, r.fetched))
    /\ req' = [req EXCEPT ![q] = Idle]
    /\ UNCHANGED <<env, bars, quoted, checks, approved, excused>>

-----------------------------------------------------------------------------
(* The report, the clock and the server. *)

Stale(s) == LastDay(s) < env.today - 1

\* freshness_check looks at the latest bar of each series, and at the build windows
\* (PipelineWindows), which may be dirty or not.
FreshnessStatus(required, gated, dirty) ==
    IF gated /\ ~Ready(required) THEN "BLOCKED"
    ELSE IF (\E s \in Series : ~Bars(s)) \/ quoted = 0 THEN "BLOCKED"
    ELSE IF (\E s \in Series : Stale(s)) \/ quoted < env.today \/ dirty THEN "STALE"
    ELSE "READY"

Tomorrow ==
    /\ env.today < MaxDay
    /\ env' = [env EXCEPT !.today = @ + 1]
    /\ UNCHANGED <<bars, quoted, checks, req, runs, approved, excused>>

Crash ==
    /\ \E q \in Requests : req[q].op # "idle"
    /\ req' = [q \in Requests |-> Idle]
    /\ UNCHANGED <<env, bars, quoted, checks, runs, approved, excused>>

Step(q) == Answered(q) \/ StoreBars(q) \/ StoreQuotes(q) \/ StoreCheck(q) \/ Finish(q)

Next ==
    \/ \E q \in Requests : BeginRange(q) \/ BeginIncremental(q) \/ BeginQuotes(q)
                           \/ BeginSeed(q) \/ BeginCheck(q) \/ Step(q)
    \/ \E e \in Endpoints : Review(e)
    \/ Tomorrow \/ Crash

Spec == Init /\ [][Next]_vars

-----------------------------------------------------------------------------
(* Properties. *)

\* A trading day before a day of bars that is not stored from an answer given after it was
\* refused by the provider, found empty or left out of an answer that had rows, overtaken by
\* a later answer, or lies before rows outside of their window, before a range that was named
\* explicitly or before the first refresh of a series without bars: the overlap of an
\* incremental refresh, its order of windows and an interrupted run leave no other gaps
\* (incremental_intraday, _bar_request_windows).
GapsExplained ==
    \A s \in Series \ Daily : \A d, e \in Trading :
        (d < e /\ bars[s][e] # "none" /\ bars[s][d] # "final")
            => \E cause \in Causes : <<s, d, cause>> \in excused

\* Of every trading day in the range of a run that says COMPLETED bars are stored, or the
\* provider answered without an error and without rows of that day, which the run does not
\* tell: a refusal, a crash or a window never asked for is not hidden (_ingest_bars,
\* seed_ingestion).
CompletedIsStored ==
    \A run \in runs : run.status = "COMPLETED" =>
        \A s \in run.series : \A d \in (run.from..run.to) \cap Trading :
            bars[s][d] # "none" \/ \E cause \in Causes \ {"other"} : <<s, d, cause>> \in excused

\* What a seed relies on, and what a report that is not BLOCKED would, was approved by an
\* operator for that very check: no approval passes to a later check (review, latest_matrix).
GateIsReviewed ==
    /\ \A q \in Requests : req[q].basis \subseteq approved
    /\ \A required \in SUBSET Endpoints :
        Ready(required) \/ (\E dirty \in BOOLEAN : FreshnessStatus(required, TRUE, dirty) # "BLOCKED")
            => Basis(required) \subseteq approved
===============================================================================
