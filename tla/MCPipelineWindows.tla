-------------------------- MODULE MCPipelineWindows --------------------------
(***************************************************************************)
(* Session dates, the API server and two scheduler workers.                *)
(***************************************************************************)
EXTENDS PipelineWindows

CONSTANTS api, worker, worker2

AllDates == {All}
SomeDates == {All, <<1, 1>>, <<2, 2>>}

\* The API server ingests and builds, the worker rebuilds.
Split == [p \in Procs |-> IF p = api THEN {"ingest", "build_features"} ELSE Rebuilds]

\* The API server ingests, the two workers share the rebuilds.
Shared == [p \in Procs |-> CASE p = api -> {"ingest"}
                             [] p = worker -> {"features", "labels"}
                             [] p = worker2 -> {"candidates", "replay"}]

\* Everything the API server can be asked for.
Everything == [p \in Procs |-> IF p = api THEN Ops \union {"ingest"} ELSE {}]
=============================================================================
