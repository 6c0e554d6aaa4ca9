------------------------------ MODULE MCStudies ------------------------------
(***************************************************************************)
(* Two processes, a default grid of three scenarios, one of them of low    *)
(* costs and the essential one, and window sets of every mode, three of    *)
(* which are run.                                                          *)
(***************************************************************************)
EXTENDS Studies, TLC

CONSTANTS api, script

MCPayloads == {
    <<>>,
    [mode |-> "CHUNKED_FULL_GRID", perInvocation |-> 2, thresholds |-> 2],
    [mode |-> "TIERED_ESSENTIAL"],
    [mode |-> "SAMPLED", max |-> 2],
    [group |-> "low_costs", timed |-> TRUE]}

Custom == [mode |-> "custom", start |-> 8, end |-> 12, size |-> 1, step |-> 1, train |-> 0, embargo |-> 1,
           windows |-> <<1>>, limit |-> 3, immediately |-> TRUE, allowStale |-> FALSE]
Shared == [Custom EXCEPT !.windows = <<1, 1>>, !.immediately = FALSE, !.allowStale = TRUE]
Rolling == [Custom EXCEPT !.mode = "rolling", !.limit = 1]

Generated == {[Shared EXCEPT !.mode = mode, !.start = start, !.end = 18, !.size = size, !.step = step,
                             !.train = train, !.embargo = embargo] :
              mode \in {"daily", "rolling", "anchored"}, start \in {5, 6}, size \in 1..2, step \in 1..3,
              train \in -1..1, embargo \in {0, 1, 3}}

Nothing == [sets |-> {}, replays |-> 0, studies |-> 0, setRuns |-> 0, bars |-> 0, builds |-> 0, crashes |-> 0]

MCBudgets == {
    [Nothing EXCEPT !.replays = 1, !.studies = 3, !.bars = 1],
    [Nothing EXCEPT !.replays = 2, !.studies = 2, !.bars = 1],
    [Nothing EXCEPT !.replays = 1, !.bars = 2, !.builds = 3, !.crashes = 1],
    [Nothing EXCEPT !.sets = {Custom}, !.setRuns = 2, !.bars = 1, !.builds = 2],
    [Nothing EXCEPT !.sets = {Shared}, !.setRuns = 2],
    [Nothing EXCEPT !.sets = {Rolling}, !.setRuns = 2, !.bars = 1, !.crashes = 1],
    [Nothing EXCEPT !.sets = Generated]}

MCSymmetry == Permutations(Procs)
===============================================================================
