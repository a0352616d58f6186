------------------------------- MODULE MCCApi -------------------------------
(***************************************************************************)
(* Two threads and three handles: enough for a buffer, a reader on it and  *)
(* a reflection view, and for two threads on one reader.                   *)
(***************************************************************************)
EXTENDS CApi, TLC

Symmetry == Permutations(Threads) \cup Permutations(Handles)
=============================================================================
