---------------------------- MODULE MCAgentSpool ----------------------------
(* Instances of AgentSpool for TLC.                                        *)
EXTENDS AgentSpool, TLC

DrvSymmetry == Permutations(Drvs)
============================================================================
