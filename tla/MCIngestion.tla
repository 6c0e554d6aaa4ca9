------------------------------ MODULE MCIngestion ------------------------------
(***************************************************************************)
(* An intraday and a daily series over three days of which the second is   *)
(* no trading day, and two requests at a time, which are alike.            *)
(***************************************************************************)
EXTENDS Ingestion

CONSTANTS r1, r2

Alike == Permutations({r1, r2})
===============================================================================
