----------------------------- MODULE Scheduler -----------------------------
(***************************************************************************)
(* The decision function of nix-build-balancer, as operators on its inputs: *)
(* which of the configured targets, taken in the order of the command      *)
(* line, gets a candidate.  Milliseconds are unsigned words; a speed       *)
(* multiplier is a fraction.                                               *)
(***************************************************************************)
EXTENDS Integers, Sequences, FiniteSetsExt

CONSTANT Word    (* 2^64: the number of values of a u64 *)

ASSUME WordAssumption == Word \in Nat /\ Word >= 4

MaxWord == Word - 1

SaturatingAdd(a, b) == IF a + b > MaxWord THEN MaxWord ELSE a + b
SaturatingSub(a, b) == IF a < b THEN 0 ELSE a - b

(* Variant: a column of half the width.                                    *)
ColumnNarrow(n) == IF 4 * n >= Word THEN 0 ELSE n

(* What an unsigned word reads as after its stay in an INTEGER column: the *)
(* cast to i64 makes the upper half negative, `.max(0)` makes that 0.      *)
Column(n) == IF 2 * n >= Word THEN 0 ELSE n

(* A target and what its poller knows: `pong` and `mem` are -1 for None.   *)
(* rows: the admissions, each with its target and prediction.              *)

(* Variant: the boundary counts as stale.                                  *)
IsLiveStrict(s, now, staleAfter, minMem) ==
  s.pong >= 0 /\ SaturatingSub(now, s.pong) < staleAfter /\ s.mem >= 0 /\ s.mem >= minMem

IsLive(s, now, staleAfter, minMem) ==
  /\ s.pong >= 0
  /\ SaturatingSub(now, s.pong) <= staleAfter
  /\ s.mem >= 0
  /\ s.mem >= minMem

(* scaled_package_ms: rounded half up, saturating.                         *)
PackageMs(base, s) ==
  LET scaled == (2 * base * s.num + s.den) \div (2 * s.den) IN
  IF scaled > MaxWord THEN MaxWord ELSE scaled

(* Variant: every admission counts for every target.                       *)
QueueLoadOfAll(rows, t) == MapThenSumSet(LAMBDA i : rows[i].predicted, DOMAIN rows) % Word

(* Iterator::sum on u64, which wraps in the release build.                 *)
QueueLoadMs(rows, t) ==
  MapThenSumSet(LAMBDA i : rows[i].predicted, {i \in DOMAIN rows : rows[i].target = t}) % Word

QueueMs(rows, t, s) ==
  IF s.capacity = 0 THEN MaxWord ELSE QueueLoadMs(rows, t) \div s.capacity

CompletionMs(rows, base, t, s) == SaturatingAdd(QueueMs(rows, t, s), PackageMs(base, s))

Better(a, b) == a < b

(* The loop over the targets: the index of the best so far, 0 for none.    *)
Best(targets, live, rows, base) ==
  LET cost(t) == CompletionMs(rows, base, t, targets[t])
      best[i \in 0..Len(targets)] ==
        IF i = 0 THEN 0
        ELSE IF i \in live /\ (best[i - 1] = 0 \/ Better(cost(i), cost(best[i - 1])))
             THEN i ELSE best[i - 1]
  IN  best[Len(targets)]

DeclineDecision == [kind |-> "decline", target |-> 0, predicted |-> 0]

Predicted(ms) == IF ms = 0 THEN 1 ELSE ms

(* decide, for a candidate of the controller's own system or not.          *)
Decide(ours, targets, live, rows, base) ==
  LET w == Best(targets, live, rows, base) IN
  IF ~ours \/ w = 0 THEN DeclineDecision
  ELSE [kind      |-> IF targets[w].host THEN "local" ELSE "remote",
        target    |-> w,
        predicted |-> Predicted(PackageMs(base, targets[w]))]

============================================================================
