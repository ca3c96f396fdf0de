----------------------------- MODULE MCHookChain -----------------------------
(* Up to four detours on one function. *)
EXTENDS HookChain, TLC

Symmetry == Permutations(Detours)
=============================================================================
