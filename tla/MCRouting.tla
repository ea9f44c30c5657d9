----------------------------- MODULE MCRouting -----------------------------
(* Instances of Routing for TLC: the controller's own host, and a builder  *)
(* with two slots that takes one and a half times as long.                 *)
EXTENDS Routing, TLC

CONSTANTS d1, d2, d3

MCTargets == <<[capacity |-> 1, num |-> 1, den |-> 1, host |-> TRUE],
               [capacity |-> 2, num |-> 3, den |-> 2, host |-> FALSE]>>

(* The third estimate is beyond what the column can hold.                  *)
MCBase == (d1 :> 2) @@ (d2 :> 5) @@ (d3 :> 40)

HookSymmetry == Permutations(Hooks)
============================================================================
