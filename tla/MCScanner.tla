------------------------------- MODULE MCScanner -------------------------------
(***************************************************************************)
(* One symbol, two models, two concurrent stops and a subscriber of a      *)
(* queue of one signal, two runs and one failure that nothing recovers.    *)
(***************************************************************************)
EXTENDS Scanner

CONSTANTS s1, s2, c1
===============================================================================
