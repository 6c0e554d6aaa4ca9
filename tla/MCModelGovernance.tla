-------------------------- MODULE MCModelGovernance --------------------------
(***************************************************************************)
(* Two models, one of each type, the API server and one scheduler worker.  *)
(***************************************************************************)
EXTENDS ModelGovernance

CONSTANTS replayAware, baseline

MCReplayAware == {replayAware}
=============================================================================
