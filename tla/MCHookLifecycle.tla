-------------------------- MODULE MCHookLifecycle --------------------------
(* Instances of HookLifecycle for TLC.                                     *)
EXTENDS HookLifecycle, TLC

HookSymmetry == Permutations(Hooks)
============================================================================
