--------------------------- MODULE SchedulerTable ---------------------------
(***************************************************************************)
(* The scheduler's decision over a table of inputs: every combination of a *)
(* few targets, rows and estimates is an initial state, and the one step   *)
(* decides.                                                                *)
(***************************************************************************)
EXTENDS Scheduler, FiniteSets

CONSTANTS
  TargetStates,   (* what one target can be like                           *)
  Rows,           (* what one admission can be like                        *)
  NumTargets, NumRows,
  Estimates,      (* duration estimates; -1 for None                       *)
  UnknownP95,     (* the policy's fallback estimate                        *)
  Now, PollInterval, MinMem

ASSUME TableAssumption ==
  {NumTargets, NumRows, UnknownP95, Now, PollInterval, MinMem} \subseteq Nat

(* What the numbers are; a negative multiplier counts as 0.                *)
ASSUME TableTypes ==
  /\ TargetStates \subseteq [pong : Nat \cup {-1}, mem : Nat \cup {-1}, capacity : Nat,
                            num : Nat, den : Nat \ {0}, host : BOOLEAN]
  /\ Rows \subseteq [target : Nat, predicted : Nat]
  /\ Estimates \subseteq Nat \cup {-1}

VARIABLES pc, ours, targets, rows, estimate, decision

tableVars == <<pc, ours, targets, rows, estimate, decision>>

TableInit ==
  /\ pc = "asked"
  /\ ours \in BOOLEAN
  /\ targets \in [1..NumTargets -> TargetStates]
  /\ rows \in [1..NumRows -> Rows]
  /\ estimate \in Estimates
  /\ decision = DeclineDecision

(* decide's preparations: the live targets and the base estimate.          *)
Live == {t \in 1..NumTargets : IsLive(targets[t], Now, 3 * PollInterval, MinMem)}
BaseMs == IF estimate = -1 THEN UnknownP95 ELSE estimate

DecideCandidate ==
  /\ pc = "asked"
  /\ pc' = "decided"
  /\ decision' = Decide(ours, targets, Live, rows, BaseMs)
  /\ UNCHANGED <<ours, targets, rows, estimate>>

TableSpec == TableInit /\ [][DecideCandidate]_tableVars

----------------------------------------------------------------------------
(* The reference: numbers without a width, and no order of evaluation.     *)

Sum(t) == MapThenSumSet(LAMBDA i : rows[i].predicted, {i \in 1..NumRows : rows[i].target = t})

(* No sum of predictions overflows.                                        *)
NoOverflow == \A t \in 1..NumTargets : Sum(t) < Word

(* A target may be chosen if it answered within three polls and reports    *)
(* memory enough.                                                          *)
Eligible(t) ==
  /\ targets[t].pong # -1 /\ Now - targets[t].pong <= 3 * PollInterval
  /\ targets[t].mem # -1 /\ targets[t].mem >= MinMem

(* a/b rounded to the nearest, halves up, is the r with 2a in [2br - b, 2br + b). *)
RoundedPackage(t) ==
  LET s == targets[t] IN
  CHOOSE r \in 0..(BaseMs * s.num + 1) :
    2 * s.den * r - s.den <= 2 * BaseMs * s.num /\ 2 * BaseMs * s.num < 2 * s.den * r + s.den

(* Slots without end would take no time; no slot at all takes for ever.    *)
TrueCost(t) ==
  LET c == (Sum(t) \div targets[t].capacity) + RoundedPackage(t) IN
  IF targets[t].capacity = 0 \/ c > MaxWord THEN MaxWord ELSE c

(* The decision is for the first of the cheapest eligible targets, in the  *)
(* order of the configuration; there is none exactly when nothing is       *)
(* eligible or the candidate is for another system.                        *)
FirstCheapestWins ==
  pc = "decided" /\ NoOverflow =>
    IF ~ours \/ \A t \in 1..NumTargets : ~Eligible(t)
    THEN decision.kind = "decline"
    ELSE /\ decision.kind # "decline" /\ Eligible(decision.target)
         /\ decision.kind = (IF targets[decision.target].host THEN "local" ELSE "remote")
         /\ \A t \in 1..NumTargets : Eligible(t) =>
              /\ TrueCost(decision.target) <= TrueCost(t)
              /\ t < decision.target => TrueCost(decision.target) < TrueCost(t)

(* Another admission for a target that was not chosen does not change the  *)
(* choice: the load of the losers is no reason to leave the winner.        *)
LoadOfLosersIsIrrelevant ==
  pc = "decided" /\ decision.kind # "decline" =>
    \A r \in Rows :
      r.target # decision.target /\ Sum(r.target) + r.predicted < Word /\ NoOverflow =>
        Decide(ours, targets, Live, Append(rows, r), BaseMs) = decision

(* Once recorded, an admission weighs in the next decision, unless it is   *)
(* so long that the column clamps it to nothing.                           *)
AdmissionWeighs ==
  pc = "decided" /\ decision.kind # "decline" /\ NoOverflow /\ 2 * decision.predicted < Word =>
    LET row == [target |-> decision.target, predicted |-> Column(decision.predicted)] IN
    Sum(decision.target) + row.predicted < Word =>
      QueueLoadMs(Append(rows, row), decision.target) > QueueLoadMs(rows, decision.target)

============================================================================
