--------------------------------- MODULE Replay --------------------------------
(***************************************************************************)
(* Candidate market replay and labels: the candidates of one symbol, in    *)
(* the order of their signals, against its bars.                           *)
(*                                                                         *)
(* The replay decides candidate after candidate: it is skipped, or taken   *)
(* at the open of the next bar and closed where the bars first reach the   *)
(* stop, the target or a time limit.  What it remembers between candidates *)
(* (exits of open trades, the last exit of each setup, a cooldown) comes   *)
(* from outcomes that may lie in the future of the next candidate.         *)
(* Prices are ticks and times are numbers of bars; costs are left out.  A  *)
(* short trade is a long one on mirrored prices.                           *)
(***************************************************************************)
EXTENDS Integers, Sequences, FiniteSets, FiniteSetsExt, SequencesExt

CONSTANTS
    Paths,     \* the bar series, functions of time to [open, high, low, close]
    Setups,    \* setup types
    Sides,     \* the sides that are replayed
    Configs,   \* the payloads; filtered are the times whose regime is filtered out
    Times,     \* the number of bars
    Close,     \* the first time that is outside the session
    Atr,       \* the distance of the ATR stop
    Target,    \* target_2_r
    Unit,      \* a return of one R; every risk divides it
    Hold,      \* max_hold_minutes
    MaxCands   \* bound on candidates

\* What a payload may give, and what the engine reads of it.
Fields == [
    counterfactual |-> BOOLEAN, portfolio |-> BOOLEAN, overlap |-> BOOLEAN, allow |-> BOOLEAN,
    onePerSetup |-> BOOLEAN, perSymbol |-> Int, inAll |-> Int, afterLoss |-> Int, afterTrade |-> Int,
    conservative |-> BOOLEAN, flat |-> BOOLEAN, rth |-> BOOLEAN, filtered |-> SUBSET (1..Times)]

ASSUME BoundsAssumption ==
    {Times, Close, Atr, Target, Unit, MaxCands} \subseteq Nat \ {0} /\ Hold \in Nat
ASSUME PathsAssumption == Paths \subseteq [1..Times -> [open : Int, high : Int, low : Int, close : Int]]
ASSUME PayloadsAssumption ==
    \A data \in Configs : \A field \in DOMAIN data : field \in DOMAIN Fields /\ data[field] \in Fields[field]

VARIABLES
    bars,    \* the bars of the symbol
    cfg,     \* the ReplayConfig
    trades,  \* the candidates so far, with what became of them
    open,    \* the trades whose exits are in open_until_symbol, for one symbol those in open_until_portfolio
    until,   \* open_until_setup
    cool     \* cooldown_until

vars == <<bars, cfg, trades, open, until, cool>>

\* ReplayConfig.from_payload: what the payload of a replay leaves out.  A counterfactual
\* replay is one without the limits of a portfolio, unless its payload asks for them.
Defaults(counterfactual) == [
    counterfactual |-> counterfactual,
    portfolio |-> ~counterfactual, overlap |-> ~counterfactual, allow |-> counterfactual,
    onePerSetup |-> TRUE, perSymbol |-> 1, inAll |-> 10, afterLoss |-> 0, afterTrade |-> 0,
    conservative |-> TRUE, flat |-> TRUE, rth |-> TRUE, filtered |-> {}]
FromPayload(data) ==
    LET default == Defaults("counterfactual" \in DOMAIN data /\ data.counterfactual) IN
    [field \in DOMAIN default |-> IF field \in DOMAIN data THEN data[field] ELSE default[field]]

ReplayConfigs == {FromPayload(data) : data \in Configs}

Never == 0
Candidate == [t : 1..Times, setup : Setups, side : Sides]

Init ==
    /\ bars \in Paths /\ cfg \in ReplayConfigs
    /\ trades = <<>> /\ open = {}
    /\ until = [s \in Setups |-> Never] /\ cool = Never

-----------------------------------------------------------------------------
(* A candidate on its own: the entry, the stop and the exit. *)

\* Costs are left out, so is the lookback of ten bars: Times is at most ten.
Mirrored(b) == [open |-> -b.open, high |-> -b.low, low |-> -b.high, close |-> -b.close]
Bar(c, t) == IF c.side = "LONG" THEN bars[t] ELSE Mirrored(bars[t])
Entry(c) == Bar(c, c.t + 1).open

\* The highest of the swing low of the bars up to `last' and the ATR stop that is below
\* the entry.
Stop(c, last) ==
    Max({x \in {Min({Bar(c, t).low : t \in 1..last}), Entry(c) - Atr} : x < Entry(c)})

\* CandidateMarketReplayEngine._stop_price is given the bars up to the entry bar, the
\* LabelingEngine's those up to the signal.
ReplayStop(c) == Stop(c, c.t + 1)
LabelStop(c) == Stop(c, c.t)

Risk(c, stop) == Entry(c) - stop
TargetPrice(c, stop) == Entry(c) + Target * Risk(c, stop)
R(c, stop, price) == ((price - Entry(c)) * Unit) \div Risk(c, stop)

StopHit(c, stop, t) == Bar(c, t).low <= stop
TargetHit(c, stop, t) == Bar(c, t).high >= TargetPrice(c, stop)

\* The bars of a trade: from the entry to the time limit or the last bar.
Future(c) == (c.t + 1)..Min({c.t + 1 + Hold, Times})

\* _session_exit.
SessionEnds(t) == cfg.flat /\ cfg.rth /\ t >= Close - 1

\* The bar at which a trade ends, and why.
ReplayEnds(c, stop, t) ==
    StopHit(c, stop, t) \/ TargetHit(c, stop, t) \/ SessionEnds(t) \/ t = c.t + 1 + Hold
ReplayExit(c, stop) ==
    LET ends == {t \in Future(c) : ReplayEnds(c, stop, t)} IN
    IF ends = {} THEN Max(Future(c)) ELSE Min(ends)

\* Mutant: the target is looked at before the stop.
TargetFirst(c, stop, t) ==
    IF TargetHit(c, stop, t) THEN TargetPrice(c, stop)
    ELSE IF StopHit(c, stop, t) THEN stop
    ELSE Bar(c, t).close

ReplayPrice(c, stop, t) ==
    IF StopHit(c, stop, t) /\ (cfg.conservative \/ ~TargetHit(c, stop, t)) THEN stop
    ELSE IF TargetHit(c, stop, t) THEN TargetPrice(c, stop)
    ELSE Bar(c, t).close

Simulated(c) ==
    LET stop == ReplayStop(c)
        exit == ReplayExit(c, stop) IN
    [c |-> c, taken |-> TRUE, why |-> "taken", stop |-> stop, exit |-> exit,
     r |-> R(c, stop, ReplayPrice(c, stop, exit))]
Skipped(c, why) == [c |-> c, taken |-> FALSE, why |-> why, stop |-> 0, exit |-> Never, r |-> 0]

\* LabelingEngine._label_candidate: stop first, then the target, else the last close.
LabelExit(c) ==
    LET stop == LabelStop(c)
        ends == {t \in Future(c) : StopHit(c, stop, t) \/ TargetHit(c, stop, t)} IN
    IF ends = {} THEN Max(Future(c)) ELSE Min(ends)
LabelR(c) ==
    LET stop == LabelStop(c)
        t == LabelExit(c) IN
    R(c, stop, IF StopHit(c, stop, t) THEN stop
               ELSE IF TargetHit(c, stop, t) THEN TargetPrice(c, stop) ELSE Bar(c, t).close)

-----------------------------------------------------------------------------
(* The loop. *)

Taken == FoldLeft(LAMBDA kept, x : IF x.taken THEN Append(kept, x) ELSE kept, <<>>, trades)
Active(t) == {k \in open : trades[k].exit > t}

\* Mutant: a limit is reached only when it is passed.
RulesOneMore(c) == <<
    <<"outside_session", cfg.rth /\ c.t >= Close>>,
    <<"regime_filter_block", c.t \in cfg.filtered>>,
    <<"cooldown_active", cfg.portfolio /\ c.t <= cool>>,
    <<"overlapping_trade", cfg.overlap /\ ~cfg.allow /\ Cardinality(Active(c.t)) > cfg.perSymbol>>,
    <<"portfolio_trade_limit", cfg.portfolio /\ Cardinality(Active(c.t)) >= cfg.inAll>>,
    <<"overlapping_trade", cfg.overlap /\ cfg.onePerSetup /\ c.t <= until[c.setup]>> >>

\* _preflight_skip drops the exits that are over from the lists; here they stay until the
\* next trade, and Active does not see them.
Rules(c) == <<
    <<"outside_session", cfg.rth /\ c.t >= Close>>,
    <<"regime_filter_block", c.t \in cfg.filtered>>,
    <<"cooldown_active", cfg.portfolio /\ c.t <= cool>>,
    <<"overlapping_trade", cfg.overlap /\ ~cfg.allow /\ Cardinality(Active(c.t)) >= cfg.perSymbol>>,
    <<"portfolio_trade_limit", cfg.portfolio /\ Cardinality(Active(c.t)) >= cfg.inAll>>,
    <<"overlapping_trade", cfg.overlap /\ cfg.onePerSetup /\ c.t <= until[c.setup]>> >>

\* The first rule that applies.
SkipReason(c) ==
    LET hits == {i \in DOMAIN Rules(c) : Rules(c)[i][2]} IN
    IF hits = {} THEN "none" ELSE Rules(c)[Min(hits)][1]

\* _candidate_priority: in the order of their timestamps.
Comes(c) == Len(trades) < MaxCands /\ \A k \in DOMAIN trades : trades[k].c.t <= c.t
Duplicate(c) == \E k \in DOMAIN trades : trades[k].c.t = c.t /\ trades[k].c.setup = c.setup
                                         /\ trades[k].c.side = c.side
Decided(x) == trades' = Append(trades, x) /\ UNCHANGED <<bars, cfg>>
Forgets == UNCHANGED <<open, until, cool>>

SkipDuplicate(c) ==
    /\ Comes(c) /\ Duplicate(c)
    /\ Decided(Skipped(c, "duplicate_candidate")) /\ Forgets

SkipByRule(c) ==
    /\ Comes(c) /\ ~Duplicate(c) /\ SkipReason(c) # "none"
    /\ Decided(Skipped(c, SkipReason(c))) /\ Forgets

SkipNoEntry(c) ==
    /\ Comes(c) /\ ~Duplicate(c) /\ SkipReason(c) = "none" /\ c.t = Times
    /\ Decided(Skipped(c, "missing_entry_bar")) /\ Forgets

Cooldown(x) == IF x.r < 0 THEN cfg.afterLoss ELSE cfg.afterTrade

\* A counterfactual replay remembers nothing.
Remembers(x) ==
    IF cfg.counterfactual THEN Forgets
    ELSE /\ open' = Active(x.c.t) \union {Len(trades) + 1}
         /\ until' = [until EXCEPT ![x.c.setup] = x.exit]
         /\ cool' = IF Cooldown(x) > 0 THEN x.exit + Cooldown(x) ELSE cool

Take(c) ==
    /\ Comes(c) /\ ~Duplicate(c) /\ SkipReason(c) = "none" /\ c.t < Times
    /\ Decided(Simulated(c)) /\ Remembers(Simulated(c))

Next == \E c \in Candidate : SkipDuplicate(c) \/ SkipByRule(c) \/ SkipNoEntry(c) \/ Take(c)

Spec == Init /\ [][Next]_vars

-----------------------------------------------------------------------------
(* Metrics and labels over the candidates so far. *)

Returns == LET taken == Taken IN [k \in DOMAIN taken |-> taken[k].r]
Total(returns) == FoldLeft(+, 0, returns)
Losses(returns) == FoldLeft(LAMBDA loss, r : IF r < 0 THEN loss + r ELSE loss, 0, returns)

\* Mutant: the peak starts at the first return.
DrawdownsFromFirst(returns) ==
    LET equity == [k \in DOMAIN returns |-> Total(SubSeq(returns, 1, k))] IN
    [k \in DOMAIN returns |-> equity[k] - Max({equity[j] : j \in 1..k})]

\* _drawdown_series: the equity against its peak, which is at least zero.
Drawdowns(returns) ==
    LET equity == [k \in DOMAIN returns |-> Total(SubSeq(returns, 1, k))] IN
    [k \in DOMAIN returns |-> equity[k] - Max({0} \union {equity[j] : j \in 1..k})]

\* Skips that say that a candidate was no trade at all, against those of the portfolio.
Invalid == {"outside_session", "missing_entry_bar"}

\* The summary of a run.
Metrics == [
    taken |-> Len(Taken),
    valid |-> Cardinality({k \in DOMAIN trades : trades[k].why \notin Invalid}),
    total_r |-> Total(Returns),
    gross_loss_r |-> Losses(Returns),
    max_drawdown_r |-> Min({0} \union Range(Drawdowns(Returns)))]

\* build_label_rows: a setup is not labelled again until the exit of its last label has
\* passed, and only the first candidate of a bar is labelled.
Labels ==
    FoldLeft(LAMBDA rows, x :
        IF \/ x.c.t = 1 \/ x.c.t >= Times
           \/ \E k \in DOMAIN rows :
                rows[k].t = x.c.t \/ (rows[k].setup = x.c.setup /\ x.c.t <= LabelExit(rows[k]))
        THEN rows ELSE Append(rows, x.c), <<>>, trades)

-----------------------------------------------------------------------------
(* Properties. *)

Reasons == {"taken", "duplicate_candidate", "missing_entry_bar", "outside_session", "regime_filter_block",
            "cooldown_active", "overlapping_trade", "portfolio_trade_limit"}

TypeOK ==
    /\ bars \in Paths /\ cfg \in ReplayConfigs
    /\ trades \in Seq([c : Candidate, taken : BOOLEAN, why : Reasons, stop : Int, exit : 0..Times, r : Int])
    /\ open \subseteq DOMAIN trades /\ until \in [Setups -> 0..Times] /\ cool \in Nat

\* The trades of a portfolio replay that are open between two bars are within the limits
\* of its configuration, and a setup waits for its own last exit (_preflight_skip).
WithinLimits ==
    ~cfg.counterfactual =>
        /\ \A t \in 1..Times :
            LET held == {k \in DOMAIN trades : trades[k].taken /\ trades[k].c.t <= t /\ t < trades[k].exit} IN
            /\ (cfg.overlap /\ ~cfg.allow) => held = {} \/ Cardinality(held) <= cfg.perSymbol
            /\ cfg.portfolio => held = {} \/ Cardinality(held) <= cfg.inAll
        /\ (cfg.overlap /\ cfg.onePerSetup) => \A j, k \in DOMAIN trades :
            (j < k /\ trades[j].taken /\ trades[k].taken /\ trades[j].c.setup = trades[k].c.setup)
                => trades[j].exit < trades[k].c.t

\* What is known at time t of the trades taken before the k-th candidate: those that are
\* closed with their outcome, and how many are open.
Before(k) == {j \in 1..(k - 1) : trades[j].taken}
ClosedBy(k, t) == {j \in Before(k) : trades[j].exit <= t}
OpenAt(k, t) == Before(k) \ ClosedBy(k, t)
CoolsOnline(k, t) == \E j \in ClosedBy(k, t) :
    Cooldown(trades[j]) > 0 /\ t <= trades[j].exit + Cooldown(trades[j])
BlockedOnline(k) ==
    LET c == trades[k].c
        held == Cardinality(OpenAt(k, c.t)) IN
    \/ cfg.portfolio /\ (CoolsOnline(k, c.t) \/ held >= cfg.inAll)
    \/ cfg.overlap /\ ~cfg.allow /\ held >= cfg.perSymbol
    \/ cfg.overlap /\ cfg.onePerSetup /\ \E j \in Before(k) :
        trades[j].c.setup = c.setup /\ (j \in OpenAt(k, c.t) \/ trades[j].exit = c.t)

OneAtATime == cfg.overlap /\ ~cfg.allow /\ cfg.perSymbol = 1

\* A portfolio replay takes the candidates a trader would have taken who knows, at the
\* signal, only the trades that are closed and how many are open, provided that it holds
\* one trade at a time or has no cooldown: then no exit that is still to come decides
\* (cooldown_until, open_until_symbol, open_until_setup).
DecidesOnThePast ==
    (~cfg.counterfactual /\ (OneAtATime \/ (cfg.afterLoss = 0 /\ cfg.afterTrade = 0))) =>
        \A k \in DOMAIN trades :
            LET c == trades[k].c IN
            (~(cfg.rth /\ c.t >= Close) /\ c.t \notin cfg.filtered /\ c.t < Times /\ trades[k].why # "duplicate_candidate")
                => (trades[k].taken <=> ~BlockedOnline(k))

\* max_drawdown_r is the worst sum of consecutive returns, or none (_drawdown_series), so
\* that it lies between the losses of the run and its total.
DrawdownIsWorstStretch ==
    LET returns == Returns
        run == Metrics
    IN  /\ run.max_drawdown_r =
            Min({0} \union {Total(SubSeq(returns, i, j)) : i, j \in DOMAIN returns})
        /\ run.gross_loss_r <= run.max_drawdown_r /\ run.max_drawdown_r <= run.total_r
        /\ run.taken <= run.valid

\* Where it settles on the same stop and the day does not end the trade, a conservative
\* replay gives a candidate the exit and the return of its label, for every order of the
\* checks of the two engines (_label_candidate, _simulate_candidate).
LabelsAgree ==
    \A k \in DOMAIN Labels : \A j \in DOMAIN trades :
        LET c == Labels[k] IN
        (trades[j].taken /\ trades[j].c = c /\ cfg.conservative /\ ~cfg.flat /\ ReplayStop(c) = LabelStop(c))
            => (trades[j].exit = LabelExit(c) /\ trades[j].r = LabelR(c))

===============================================================================
