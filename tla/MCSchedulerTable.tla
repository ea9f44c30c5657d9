-------------------------- MODULE MCSchedulerTable --------------------------
(* A table of inputs for TLC: words of four bits, a poll every tick.       *)
EXTENDS SchedulerTable

(* What the poller can know of a target at time 10: nothing yet; a pong    *)
(* and no telemetry; too little memory; a pong three polls old; one older. *)
MCPolls == {[pong |-> -1, mem |-> -1], [pong |-> 10, mem |-> -1], [pong |-> 10, mem |-> 0],
            [pong |-> 10, mem |-> 1], [pong |-> 7, mem |-> 1], [pong |-> 6, mem |-> 2]}

MCTarget(p, c, m, h) ==
  [pong |-> p.pong, mem |-> p.mem, capacity |-> c, num |-> m[1], den |-> m[2], host |-> h]

(* Every poll with an ordinary target, every target with an ordinary poll. *)
MCTargetStates ==
  {MCTarget(p, 1, <<1, 1>>, h) : p \in MCPolls, h \in BOOLEAN} \cup
  {MCTarget([pong |-> 10, mem |-> 1], c, m, h) :
     c \in 0..2, m \in {<<1, 1>>, <<1, 2>>, <<0, 1>>}, h \in BOOLEAN}

MCRows == [target : 1..2, predicted : {0, 1, 3, 12}]

MCEstimates == {-1, 0, 3}
============================================================================
