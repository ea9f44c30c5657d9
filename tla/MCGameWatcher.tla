--------------------------- MODULE MCGameWatcher ---------------------------
(* The configuration of machines/saya/game-watcher.nix, cut down: one game *)
(* with a rule of either family whose guard escalates, and one without     *)
(* rules that the guard covers as well.                                    *)
EXTENDS GameWatcher, TLC

CONSTANTS stationeers, coi, v4, v6

MCRulesOf == stationeers :> <<v4, v6>> @@ coi :> <<>>

MCGuards ==
  << [requires |-> {stationeers, coi}, service |-> "comfyui", action |-> "restart",
      settle |-> 2, applies |-> {stationeers}, exceed |-> 1, window |-> 5,
      escalation |-> "stop"] >>
============================================================================
