----------------------------- MODULE MCScheduler -----------------------------
(***************************************************************************)
(* Two jobs, of which the first may be tried twice, and up to two workers. *)
(***************************************************************************)
EXTENDS Scheduler

CONSTANTS w1, w2

MCOwner == [w \in Workers |-> w]
MCMaxAttempts == [j \in Jobs |-> IF j = 1 THEN 2 ELSE 1]
=============================================================================
