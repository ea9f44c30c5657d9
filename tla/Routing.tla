------------------------------ MODULE Routing ------------------------------
(***************************************************************************)
(* make_decision, run by one controller task per hook: it reads the        *)
(* admissions under the connection lock, lets go of the lock, reads what   *)
(* the pollers know of the targets, decides, and takes the lock again to   *)
(* record the admission.  Other hooks' decisions, retirements and the      *)
(* pollers come in between.  How an admission is retired is the subject of *)
(* HookLifecycle; here it just happens.                                    *)
(***************************************************************************)
EXTENDS Scheduler, FiniteSets

CONSTANTS
  Drvs, Hooks,
  NoDrv,         (* the derivation of a task not under way                 *)
  Targets,       (* the configured targets, a sequence of records          *)
  Base,          (* [Drvs -> Nat], the duration estimates                  *)
  MaxDecisions   (* bound: candidates put to the controller                *)

ASSUME RoutingAssumption ==
  /\ IsFiniteSet(Drvs) /\ NoDrv \notin Drvs \cup Hooks /\ MaxDecisions \in Nat
  /\ Base \in [Drvs -> Nat]
  /\ Targets \in Seq([capacity : Nat, num : Nat, den : Nat \ {0}, host : BOOLEAN])

(* What a decision for d on the target t leaves in the table.              *)
Stored(d, t) == Column(Predicted(PackageMs(Base[d], Targets[t])))

(* The predictions of a full table add up to less than 2^64 ms: beyond     *)
(* that the sum wraps, and no bound on a decision holds.                   *)
ASSUME SumsFit ==
  \A d \in Drvs, t \in DOMAIN Targets : Cardinality(Drvs) * Stored(d, t) < Word

VARIABLES
  admissions,   (* the table: a row per derivation                         *)
  live,         (* the targets is_live accepts just now                    *)
  task,         (* the make_decision task of each hook                     *)
  added, gone,  (* history: the load that came to and went from a target   *)
                (* since the hook's task read the table                    *)
  decisions     (* history: candidates so far                              *)

vars == <<admissions, live, task, added, gone, decisions>>

T == DOMAIN Targets

Row   == [target : T, predicted : Nat]
NoRow == [target |-> 0, predicted |-> 0]

NoLoad == [t \in T |-> 0]

Idle == [pc |-> "idle", drv |-> NoDrv, rows |-> <<>>, live |-> {}, decision |-> DeclineDecision]

UnderWay(h) == task[h].pc # "idle"

Init ==
  /\ admissions = [d \in Drvs |-> NoRow]
  /\ live \in SUBSET T
  /\ task = [h \in Hooks |-> Idle]
  /\ added = [h \in Hooks |-> NoLoad] /\ gone = [h \in Hooks |-> NoLoad]
  /\ decisions = 0

(* The table's row of d becomes `row`: what that means for the loads that  *)
(* the tasks under way, but for h's own, have read.                        *)
SetRow(d, row, h) ==
  LET book(load, r) ==
        [g \in Hooks |-> [t \in T |->
           IF g # h /\ UnderWay(g) /\ r.target = t THEN load[g][t] + r.predicted
           ELSE IF g = h THEN 0 ELSE load[g][t]]]
  IN  /\ admissions' = [admissions EXCEPT ![d] = row]
      /\ added' = book(added, row)
      /\ gone' = book(gone, admissions[d])

(* The first critical section: the estimate and the admissions.            *)
ListAdmissions(h, d) ==
  /\ ~UnderWay(h) /\ decisions < MaxDecisions
  /\ \A g \in Hooks : task[g].drv # d
  /\ decisions' = decisions + 1
  /\ task' = [task EXCEPT ![h] = [Idle EXCEPT !.pc = "listed", !.drv = d, !.rows = admissions]]
  /\ UNCHANGED <<admissions, live, added, gone>>

(* Variant: the queues are left out of the comparison.                     *)
ChooseByPackage(h) ==
  /\ task[h].pc = "listed"
  /\ task' = [task EXCEPT ![h].pc = "chosen", ![h].live = live,
       ![h].decision = Decide(TRUE, Targets, live, <<>>, Base[task[h].drv])]
  /\ UNCHANGED <<admissions, live, added, gone, decisions>>

(* build_target_states and scheduler::decide, without a lock on the table. *)
Choose(h) ==
  /\ task[h].pc = "listed"
  /\ task' = [task EXCEPT ![h].pc = "chosen", ![h].live = live,
       ![h].decision = Decide(TRUE, Targets, live, task[h].rows, Base[task[h].drv])]
  /\ UNCHANGED <<admissions, live, added, gone, decisions>>

(* Variant: the prediction goes to the table as it is.                     *)
RecordUnclamped(h) ==
  LET dec == task[h].decision IN
  /\ task[h].pc = "chosen" /\ dec.kind # "decline"
  /\ SetRow(task[h].drv, [target |-> dec.target, predicted |-> dec.predicted], h)
  /\ task' = [task EXCEPT ![h] = Idle]
  /\ UNCHANGED <<live, decisions>>

(* The second critical section, for RouteLocal and Accept alike.           *)
Record(h) ==
  LET dec == task[h].decision IN
  /\ task[h].pc = "chosen" /\ dec.kind # "decline"
  /\ SetRow(task[h].drv, [target |-> dec.target, predicted |-> Column(dec.predicted)], h)
  /\ task' = [task EXCEPT ![h] = Idle]
  /\ UNCHANGED <<live, decisions>>

Decline(h) ==
  /\ task[h].pc = "chosen" /\ task[h].decision.kind = "decline"
  /\ task' = [task EXCEPT ![h] = Idle]
  /\ added' = [added EXCEPT ![h] = NoLoad] /\ gone' = [gone EXCEPT ![h] = NoLoad]
  /\ UNCHANGED <<admissions, live, decisions>>

Retire(d) ==
  /\ admissions[d] # NoRow
  /\ SetRow(d, NoRow, NoDrv)
  /\ UNCHANGED <<live, task, decisions>>

(* A pong, a telemetry report, a session's end, the passing of time.       *)
TargetChanges ==
  /\ live' \in SUBSET T /\ live' # live
  /\ UNCHANGED <<admissions, task, added, gone, decisions>>

Next ==
  \/ \E h \in Hooks :
       \/ \E d \in Drvs : ListAdmissions(h, d)
       \/ Choose(h) \/ Record(h) \/ Decline(h)
  \/ \E d \in Drvs : Retire(d)
  \/ TargetChanges

Spec == Init /\ [][Next]_vars

----------------------------------------------------------------------------
(* Properties *)

(* Type correctness: in the table a prediction is never in the upper half  *)
(* of the words.                                                           *)
TypeOK ==
  /\ \A d \in Drvs : /\ admissions[d] \in Row \cup {NoRow}
                     /\ 2 * admissions[d].predicted < Word
  /\ live \subseteq T
  /\ \A h \in Hooks : /\ task[h].pc \in {"idle", "listed", "chosen"}
                      /\ task[h].drv \in Drvs \cup {NoDrv} /\ task[h].live \subseteq T
  /\ added \in [Hooks -> [T -> Nat]] /\ gone \in [Hooks -> [T -> Nat]]
  /\ decisions \in 0..MaxDecisions

Cost(d, t) == CompletionMs(admissions, Base[d], t, Targets[t])

Slots(load, t) ==
  LET c == Targets[t].capacity IN IF c = 0 THEN 0 ELSE (load + c - 1) \div c

Records(h) == UnderWay(h) /\ task'[h] = Idle /\ task[h].decision.kind # "decline"

(* A decision may be stale by the time it is recorded, but only by what    *)
(* changed since the table was read: the chosen target is worse than       *)
(* another by no more than the load that has come to it and gone from the  *)
(* other meanwhile.  A decision nothing came between is the best there is. *)
StalenessBoundsRegret ==
  [][\A h \in Hooks : Records(h) =>
       LET d == task[h].drv
           w == task[h].decision.target IN
       \A t \in task[h].live :
         Cost(d, w) <= Cost(d, t) + Slots(added[h][w], w) + Slots(gone[h][t], t)]_vars

============================================================================
