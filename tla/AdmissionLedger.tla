-------------------------- MODULE AdmissionLedger --------------------------
(***************************************************************************)
(* What the controller promises about its admissions table, seen from the  *)
(* scheduler: at most one entry per derivation, each admitted with a time  *)
(* to live of its own; an entry only grows older until it is retired or    *)
(* admitted again, and none that is overdue stays for ever.                *)
(***************************************************************************)
EXTENDS Integers

CONSTANTS
  Drvs,
  Lifetimes   (* the times an entry can be given, in clock ticks           *)

VARIABLE left (* of each entry's time; 0 when it is overdue                *)

Absent == -1

Init == left = [d \in Drvs |-> Absent]

(* A decision; one for a derivation that has an entry replaces it.         *)
Admit(d) == \E t \in Lifetimes : left' = [left EXCEPT ![d] = t]

(* A report, an event, a sweep or a restart retires one or several.        *)
Retire == \E gone \in SUBSET Drvs :
            left' = [d \in Drvs |-> IF d \in gone THEN Absent ELSE left[d]]

Pass == left' = [d \in Drvs |-> IF left[d] > 0 THEN left[d] - 1 ELSE left[d]]

Next == (\E d \in Drvs : Admit(d)) \/ Retire \/ Pass

Spec == Init /\ [][Next]_left

(* What the sweep owes the scheduler.                                      *)
NoneStaysOverdue == \A d \in Drvs : []<>(left[d] # 0)
============================================================================
