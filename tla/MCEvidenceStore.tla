---------------------------- MODULE MCEvidenceStore ----------------------------
(***************************************************************************)
(* A new file, and files left before each of the three groups of columns   *)
(* came; migrations to the head, into the middle and back to the base.     *)
(***************************************************************************)
EXTENDS EvidenceStore, TLC

MCSettings == {[kind |-> "postgresql", fallback |-> TRUE],
               [kind |-> "postgresql", fallback |-> FALSE], [kind |-> "sqlite", fallback |-> FALSE]}
MCSymmetry == Permutations(Procs)
MCPhases == {0, 3, 9, 11}
MCTargets == {0, 3, 12}
===============================================================================
