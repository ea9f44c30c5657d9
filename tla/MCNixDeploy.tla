----------------------------- MODULE MCNixDeploy -----------------------------
(***************************************************************************)
(* A remote and a local machine, as deploy.toml has them.  Two systems of  *)
(* the remote one share their kernel, a third has another; the local       *)
(* machine's second system differs in a matched package.                   *)
(***************************************************************************)
EXTENDS NixDeploy

CONSTANTS t1, t2, t3, s1, s2, kernel, initrd, none

MCRevision == {[m \in {1, 2} |-> IF m = 2 THEN t ELSE s] :
                 t \in {t1, t2, t3}, s \in {s1, s2}}
              \ {[m \in {1, 2} |-> IF m = 2 THEN t ELSE s2] : t \in {t1, t3}}
MCNeedleIn == [m \in {1, 2} |-> IF m = 1 THEN {1, 2} ELSE {2}]
MCDest == [t \in {t1, t2, t3, s1, s2} |-> [l \in {kernel, initrd} |->
             IF t = t3 THEN t3 ELSE t1]]
MCMatched == [t \in {t1, t2, t3, s1, s2} |-> IF t = s2 THEN {s2} ELSE {}]
=============================================================================
