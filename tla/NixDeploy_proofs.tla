--------------------------- MODULE NixDeploy_proofs ---------------------------
(***************************************************************************)
(* Proofs about nix-deploy, for any machines, systems, links, patterns,    *)
(* runs and faults: no machine is left behind, nothing is switched to      *)
(* unasked that needs a reboot, and the verdict after a reboot is on the   *)
(* new boot.  What the tool knows at each command (ProgressInv, SilentInv, *)
(* BootInv) has to survive what machines do by themselves: they boot into  *)
(* the default of their menu, or back into what they ran.                  *)
(***************************************************************************)
EXTENDS NixDeploy, FiniteSetTheorems, SequenceTheorems, TLAPS

-----------------------------------------------------------------------------
(* The inductive invariant. *)

\* The plan is in deploy order; the tool is at one of its machines.
PlanInv ==
  /\ \A i, j \in DOMAIN plan :
       i < j => plan[i] # plan[j] /\ (plan[i] \in Local => plan[j] \in Local)
  /\ pc \notin {"idle", "build", "visit"} => at < Len(plan)
  /\ pc = "build" => at = 0
  /\ pc = "goodbye" => Cur \in Local

TypeInv == TypeOK /\ PlanInv

\* Each machine gets its own system.
BuiltInv ==
  pc \notin {"idle", "build"} => \A i \in DOMAIN plan : built[plan[i]] = flake[plan[i]]

\* The machines before the one at hand have their systems, and it alone may be touched
\* besides them; once it is activated it has its system too.
Deployed(m) == Has(m) \/ m \in rebooted
Late == {"goodbye", "bootid", "reboot", "wait", "state", "verify"}
ProgressInv ==
  /\ outcome = "ok" => pc = "idle" /\ \A i \in DOMAIN plan : Deployed(plan[i])
  /\ pc = "build" => touched = {}
  /\ \A j \in DOMAIN plan : plan[j] \in touched => j <= at + 1
  /\ \A i \in 1..at : Deployed(plan[i])
  /\ pc \in Late => Deployed(Cur)

\* What was assessed still runs, and what was not asked about needs no reboot, as far as
\* anything is known of it.
Same(from, to) ==
  /\ \A l \in Link \ now.blind : Dest[from][l] = Dest[to][l]
  /\ Matched[from] = Matched[to]
SilentInv ==
  /\ pc \in {"assess", "decide", "copy", "profile", "activate"} /\ Cur \notin rebooted
       => host[Cur].running = now.old
  /\ pc \in {"decide", "copy", "profile", "activate"} /\ ~now.reboot => Same(now.old, New)
  /\ pc \in {"copy", "profile", "activate"} /\ mode = "ask" /\ ~now.asked => ~now.reboot

\* Another boot id is that of a later boot, and a machine that has booted since runs
\* what it was booted into.
BootInv ==
  /\ pc \in {"reboot", "wait"} => now.boot <= host[Cur].boot
  /\ pc \in {"state", "verify"} => now.boot < host[Cur].boot
  /\ pc \in {"reboot", "wait", "state", "verify"} /\ now.boot < host[Cur].boot
       => host[Cur].running = host[Cur].booted

DeployInv == TypeInv /\ BuiltInv /\ ProgressInv /\ SilentInv /\ BootInv

\* What can become of a machine while the tool looks elsewhere.
Untouched(m) ==
  /\ host'[m].running = host[m].running /\ host'[m].next = host[m].next
  /\ host'[m].booted = host[m].booted /\ host'[m].boot = host[m].boot
Booted(m) ==
  /\ m \in rebooted' /\ host'[m].boot > host[m].boot
  /\ host'[m].running = host'[m].booted

-----------------------------------------------------------------------------
(* The plan and the build. *)

(* The machine at hand is one, with a system built for it.                 *)
LEMMA CurIsMachine ==
  ASSUME TypeOK, at < Len(plan)
  PROVE  Cur \in Machine /\ New \in Toplevel /\ host[Cur] \in Host
<1>1. plan \in Seq(Machine) /\ at \in 0..Len(plan) /\ built \in [Machine -> Toplevel]
      /\ host \in [Machine -> Host]
  BY DEF TypeOK
<1>2. at + 1 \in 1..Len(plan)
  BY <1>1
<1>3. plan[at + 1] \in Machine
  BY <1>1, <1>2
<1> QED BY <1>1, <1>3 DEF Cur, New

(* A machine that has not been looked at.                                  *)
LEMMA BlankIsTyped == Blank \in Decision
<1>1. (CHOOSE t \in Toplevel : TRUE) \in Toplevel
  BY MachineAssumption
<1>2. 0 \in 0..MaxBoots /\ 0 \in 0..Timeout
  BY BoundsAssumption
<1> QED BY <1>1, <1>2 DEF Blank, Decision

(* A selection in deploy order names no machine twice and local ones last. *)
LEMMA OrderedIsPlan ==
  ASSUME NEW order \in [Machine -> 1..Cardinality(Machine)], NEW set \in SUBSET Machine,
         NEW s \in Ordered(order, set), LocalsLast(order)
  PROVE  /\ s \in Seq(Machine)
         /\ \A i, j \in DOMAIN s :
              i < j => s[i] # s[j] /\ (s[i] \in Local => s[j] \in Local)
<1>1. IsFiniteSet(set)
  BY MachineAssumption, FS_Subset
<1>2. Cardinality(set) \in Nat
  BY <1>1, FS_CardinalityType
<1>3. s \in [1..Cardinality(set) -> set]
      /\ \A i, j \in DOMAIN s : i < j => Before(order, s[i], s[j])
  BY Zenon DEF Ordered
<1>4. s \in Seq(set)
  BY <1>2, <1>3, SeqDef
<1>5. s \in Seq(Machine)
  BY <1>4
<1>6. IsFiniteSet(Machine) /\ Machine \subseteq Nat
  BY MachineAssumption
<1>7. Cardinality(Machine) \in Nat
  BY <1>6, FS_CardinalityType
<1>8. ASSUME NEW i \in DOMAIN s, NEW j \in DOMAIN s, i < j
      PROVE  s[i] # s[j] /\ (s[i] \in Local => s[j] \in Local)
  <2>1. Before(order, s[i], s[j])
    BY <1>3, <1>8
  <2>2. s[i] \in Machine /\ s[j] \in Machine
    BY <1>3
  <2>3. s[i] # s[j]
    <3> SUFFICES ASSUME s[i] = s[j] PROVE FALSE
      OBVIOUS
    <3>1. order[s[i]] \in 1..Cardinality(Machine)
      BY <2>2, Zenon
    <3>2. order[s[i]] \in Nat
      BY <1>7, <3>1
    <3>3. s[i] \in Nat
      BY <1>6, <2>2, Zenon
    <3> QED BY <2>1, <3>2, <3>3 DEF Before
  <2>4. s[i] \in Local => s[j] \in Local
    BY <2>1, <2>2, Zenon DEF LocalsLast
  <2> QED BY <2>3, <2>4
<1> QED BY <1>5, <1>8

(* What is selected are machines.                                          *)
LEMMA SelectedIsSet ==
  ASSUME NEW requested \in SUBSET Machine PROVE Selected(requested) \in SUBSET Machine
BY DEF Selected

(* A run starts with a plan in deploy order.                               *)
LEMMA StartIsTyped == ASSUME TypeInv, Start PROVE TypeInv'
<1>1. PICK order \in [Machine -> 1..Cardinality(Machine)], requested \in SUBSET Machine :
        LocalsLast(order) /\ plan' \in Ordered(order, Selected(requested))
  BY Zenon DEF Start
<1>2. /\ plan' \in Seq(Machine)
      /\ \A i, j \in DOMAIN plan' :
           i < j => plan'[i] # plan'[j] /\ (plan'[i] \in Local => plan'[j] \in Local)
  BY <1>1, SelectedIsSet, OrderedIsPlan
<1>3. /\ pc' = "build" /\ at' = 0 /\ outcome' = "none" /\ now' = Blank
      /\ mode' \in {"ask", "switch", "boot"} /\ touched' = {} /\ rebooted' = {}
      /\ runs < MaxRuns /\ runs' = runs + 1
      /\ built' = built /\ flake' = flake /\ host' = host /\ faults' = faults
  BY Zenon DEF Start
<1>4. runs' \in 0..MaxRuns
  BY <1>3, BoundsAssumption DEF TypeInv, TypeOK
<1>5. at' \in 0..Len(plan')
  BY <1>2, <1>3
<1>6. TypeOK'
  BY <1>2, <1>3, <1>4, <1>5, BlankIsTyped DEF TypeInv, TypeOK, Pc
<1>7. PlanInv'
  BY <1>2, <1>3 DEF PlanInv
<1> QED BY <1>6, <1>7 DEF TypeInv

(* match_paths finds each machine's own out path, by its needle or by its  *)
(* place.                                                                  *)
LEMMA MatchedPath ==
  ASSUME TypeOK, NEW m \in Machine, NEW paths, NEW f,
         paths = [i \in DOMAIN plan |-> f[plan[i]]],
         \E i \in DOMAIN plan : plan[i] = m
  PROVE  MatchPath(m, paths) = f[m]
<1> DEFINE named == {i \in DOMAIN plan : plan[i] \in NeedleIn[m]}
           place == CHOOSE i \in DOMAIN plan : plan[i] = m
<1>1. place \in DOMAIN plan /\ plan[place] = m
  OBVIOUS
<1>2. paths[place] = f[m]
  BY <1>1
<1>3. CASE Cardinality(named) = 1
  <2>1. plan \in Seq(Machine)
    BY DEF TypeOK
  <2>2. DOMAIN plan = 1..Len(plan) /\ Len(plan) \in Nat
    BY <2>1
  <2>3. IsFiniteSet(DOMAIN plan)
    BY <2>2, FS_Interval
  <2>4. IsFiniteSet(named)
    BY <2>3, FS_Subset
  <2>5. PICK i : named = {i}
    BY <1>3, <2>4, FS_Singleton
  <2>6. plan[i] \in NeedleIn[m] /\ i \in DOMAIN plan
    BY <2>5
  <2>7. m \in NeedleIn[m]
    BY <2>6, NeedleAssumption
  <2>8. place \in named
    BY <1>1, <2>7
  <2>9. place = i
    BY <2>5, <2>8
  <2>10. (CHOOSE k \in named : TRUE) = i
    BY <2>5
  <2>11. MatchPath(m, paths) = paths[CHOOSE k \in named : TRUE]
    BY <1>3, Zenon DEF MatchPath
  <2> QED BY <1>2, <2>9, <2>10, <2>11
<1>4. CASE Cardinality(named) # 1
  BY <1>2, <1>4, Zenon DEF MatchPath
<1> QED BY <1>3, <1>4

-----------------------------------------------------------------------------
(* Runs that stop, and machines by themselves. *)

(* A machine that has its system keeps it, or has booted.                  *)
LEMMA DeployedStays ==
  ASSUME NEW m \in Machine, Untouched(m) \/ Booted(m), flake' = flake,
         rebooted \subseteq rebooted', Deployed(m)
  PROVE  Deployed(m)'
<1>1. CASE Booted(m)
  BY <1>1 DEF Booted, Deployed
<1>2. CASE Untouched(m)
  BY <1>2 DEF Untouched, Deployed, Has
<1> QED BY <1>1, <1>2

(* What a plan's positions are.                                            *)
LEMMA PlannedIsMachine ==
  ASSUME TypeOK
  PROVE  /\ \A i \in DOMAIN plan : plan[i] \in Machine
         /\ 1..at \subseteq DOMAIN plan
         /\ DOMAIN plan = 1..Len(plan) /\ Len(plan) \in Nat /\ at \in Nat /\ at <= Len(plan)
<1>1. plan \in Seq(Machine) /\ at \in 0..Len(plan)
  BY DEF TypeOK
<1> QED BY <1>1

(* The run is over and nothing else has changed.                           *)
LEMMA Stops ==
  ASSUME DeployInv, TypeOK', pc' = "idle", outcome' # "ok",
         plan' = plan, at' = at, flake' = flake, touched' = touched,
         rebooted' = rebooted, \A m \in Machine : Untouched(m) \/ Booted(m)
  PROVE  DeployInv'
<1>1. PlanInv'
  BY DEF DeployInv, TypeInv, PlanInv
<1>2. \A i \in 1..at : Deployed(plan[i])'
  BY PlannedIsMachine, DeployedStays DEF DeployInv, TypeInv, ProgressInv, Late
<1>3. ProgressInv'
  BY <1>2 DEF DeployInv, ProgressInv, Late
<1>4. BuiltInv' /\ SilentInv' /\ BootInv'
  BY DEF BuiltInv, SilentInv, BootInv
<1> QED BY <1>1, <1>3, <1>4 DEF DeployInv, TypeInv

(* The tool does nothing, and the machines stay as they are or boot.       *)
LEMMA Stays ==
  ASSUME DeployInv, TypeOK', pc' = pc, outcome' = outcome,
         plan' = plan, at' = at, built' = built, mode' = mode, now' = now,
         flake' = flake, touched' = touched, rebooted \subseteq rebooted',
         \A m \in Machine : Untouched(m) \/ Booted(m)
  PROVE  DeployInv'
<1>1. TypeOK /\ PlanInv /\ PlanInv'
  BY DEF DeployInv, TypeInv, PlanInv, Cur
<1>2. /\ \A i \in DOMAIN plan : Deployed(plan[i]) => Deployed(plan[i])'
      /\ 1..at \subseteq DOMAIN plan
  BY <1>1, PlannedIsMachine, DeployedStays
<1>3. Cur' = Cur /\ New' = New
  BY DEF Cur, New
<1>4. ASSUME pc \notin {"idle", "build", "visit"}
      PROVE  /\ Cur \in Machine /\ at < Len(plan)
             /\ host[Cur].boot \in Nat /\ host'[Cur].boot \in Nat /\ now.boot \in Nat
             /\ Deployed(Cur) => Deployed(Cur)'
  <2>1. at < Len(plan)
    BY <1>1, <1>4 DEF PlanInv
  <2>2. Cur \in Machine /\ host[Cur] \in Host
    BY <1>1, <2>1, CurIsMachine
  <2>3. host'[Cur] \in Host /\ now \in Decision
    BY <1>1, <2>2 DEF TypeOK
  <2>4. host[Cur].boot \in Nat /\ host'[Cur].boot \in Nat /\ now.boot \in Nat
    BY <2>2, <2>3, BoundsAssumption DEF Host, Decision
  <2>5. Deployed(Cur) => Deployed(Cur)'
    <3>1. Untouched(Cur) \/ Booted(Cur)
      BY <2>2
    <3>2. CASE Booted(Cur)
      BY <1>3, <3>2 DEF Booted, Deployed
    <3>3. CASE Untouched(Cur)
      BY <1>3, <3>3 DEF Untouched, Deployed, Has
    <3> QED BY <3>1, <3>2, <3>3
  <2> QED BY <2>1, <2>2, <2>4, <2>5
<1>5. BuiltInv'
  BY DEF DeployInv, BuiltInv
<1>6. ProgressInv'
  <2>1. pc \in Late => Deployed(Cur)'
    BY <1>4 DEF DeployInv, ProgressInv, Late
  <2> QED BY <1>2, <2>1 DEF DeployInv, ProgressInv, Late
<1>7. SilentInv'
  <2> SUFFICES ASSUME pc \in {"assess", "decide", "copy", "profile", "activate"},
                      Cur \notin rebooted'
               PROVE  host'[Cur].running = now.old
    BY <1>3 DEF DeployInv, SilentInv, Same
  <2>1. Cur \in Machine
    BY <1>4
  <2>2. Untouched(Cur)
    BY <2>1 DEF Booted
  <2> QED BY <2>2 DEF DeployInv, SilentInv, Untouched
<1>8. BootInv'
  <2> SUFFICES ASSUME pc \in {"reboot", "wait", "state", "verify"} PROVE BootInv'
    BY DEF BootInv
  <2>1. Cur \in Machine /\ host[Cur].boot \in Nat /\ host'[Cur].boot \in Nat
        /\ now.boot \in Nat
    BY <1>4
  <2>2. CASE Untouched(Cur)
    BY <1>3, <2>1, <2>2 DEF DeployInv, BootInv, Untouched
  <2>3. CASE Booted(Cur)
    BY <1>3, <2>1, <2>3 DEF DeployInv, BootInv, Booted
  <2> QED BY <2>1, <2>2, <2>3
<1> QED BY <1>1, <1>5, <1>6, <1>7, <1>8 DEF DeployInv, TypeInv

(* One machine is replaced.                                                *)
LEMMA Replaced ==
  ASSUME NEW S, NEW T, NEW f \in [S -> T], NEW i \in S, NEW x \in T
  PROVE  /\ [f EXCEPT ![i] = x] \in [S -> T]
         /\ [f EXCEPT ![i] = x][i] = x
         /\ \A j \in S : j # i => [f EXCEPT ![i] = x][j] = f[j]
OBVIOUS

(* A machine whose phase changes is otherwise as it was.                   *)
LEMMA PhaseChanges ==
  ASSUME TypeOK, NEW m \in Machine, NEW p \in {"running", "starting", "going", "down"},
         host' = [host EXCEPT ![m].phase = p]
  PROVE  host' \in [Machine -> Host] /\ \A n \in Machine : Untouched(n)
<1> DEFINE h == [host[m] EXCEPT !.phase = p]
<1>1. host \in [Machine -> Host]
  BY DEF TypeOK
<1>2. host[m] \in Host
  BY <1>1
<1>3. h \in Host /\ h.running = host[m].running /\ h.next = host[m].next
      /\ h.booted = host[m].booted /\ h.boot = host[m].boot
  BY <1>2 DEF Host
<1>4. host' = [host EXCEPT ![m] = h]
  BY Zenon
<1> HIDE DEF h
<1>5. /\ host' \in [Machine -> Host] /\ host'[m] = h
      /\ \A n \in Machine : n # m => host'[n] = host[n]
  BY <1>1, <1>3, <1>4, Replaced
<1> QED BY <1>3, <1>5 DEF Untouched

(* What a boot changes.                                                    *)
LEMMA MachineBoots ==
  ASSUME TypeOK, NEW m \in Machine, Boots(m)
  PROVE  /\ host' \in [Machine -> Host] /\ \A n \in Machine : Untouched(n) \/ Booted(n)
         /\ faults' \in 0..MaxFaults /\ rebooted' \subseteq Machine
<1>1. PICK t \in {host[m].next, host[m].running} :
        /\ t # host[m].next => faults < MaxFaults
        /\ faults' = IF t = host[m].next THEN faults ELSE faults + 1
        /\ host' = [host EXCEPT ![m].booted = t, ![m].running = t, ![m].boot = @ + 1,
                               ![m].phase = "starting"]
  BY Zenon DEF Boots
<1>2. host[m].boot < MaxBoots /\ rebooted' = rebooted \cup {m}
  BY Zenon DEF Boots
<1> DEFINE h == [host[m] EXCEPT !.booted = t, !.running = t, !.boot = @ + 1,
                               !.phase = "starting"]
<1>3. host \in [Machine -> Host] /\ faults \in 0..MaxFaults /\ rebooted \subseteq Machine
  BY DEF TypeOK
<1>4. host[m] \in Host
  BY <1>3
<1>5. t \in Toplevel
  BY <1>4 DEF Host
<1>6. host[m].boot + 1 \in 0..MaxBoots
  BY <1>2, <1>4, BoundsAssumption DEF Host
<1>7. h \in Host /\ h.running = h.booted /\ h.boot = host[m].boot + 1
  BY <1>4, <1>5, <1>6 DEF Host
<1>8. host' = [host EXCEPT ![m] = h]
  BY <1>1
<1> HIDE DEF h
<1>9. /\ host' \in [Machine -> Host] /\ host'[m] = h
      /\ \A n \in Machine : n # m => host'[n] = host[n]
  BY <1>3, <1>7, <1>8, Replaced
<1>10. h.boot > host[m].boot
  BY <1>4, <1>7, BoundsAssumption DEF Host
<1>11. \A n \in Machine : Untouched(n) \/ Booted(n)
  BY <1>2, <1>7, <1>9, <1>10 DEF Untouched, Booted
<1>12. faults' \in 0..MaxFaults
  BY <1>1, <1>3, BoundsAssumption
<1> QED BY <1>2, <1>3, <1>9, <1>11, <1>12

(* A fault is one of those that are left.                                  *)
LEMMA FaultIsTyped ==
  ASSUME TypeOK, faults < MaxFaults, faults' = faults + 1
  PROVE  faults' \in 0..MaxFaults
BY BoundsAssumption DEF TypeOK

(* What happens to the machines unasked keeps the invariant.               *)
LEMMA MachineInduction ==
  ASSUME DeployInv, NEW m \in Machine, GoesDown(m) \/ Outage(m) \/ Boots(m) \/ Started(m)
  PROVE  DeployInv'
<1>1. TypeOK
  BY DEF DeployInv, TypeInv
<1>2. /\ plan' = plan /\ at' = at /\ built' = built /\ mode' = mode /\ now' = now
      /\ flake' = flake /\ touched' = touched /\ runs' = runs
      /\ rebooted \subseteq rebooted'
  BY Zenon DEF GoesDown, Outage, Boots, Started, tool, past
<1>3. /\ host' \in [Machine -> Host] /\ \A n \in Machine : Untouched(n) \/ Booted(n)
      /\ faults' \in 0..MaxFaults /\ rebooted' \subseteq Machine
  <2>1. CASE Boots(m)
    BY <1>1, <2>1, MachineBoots
  <2>2. CASE GoesDown(m)
    <3>1. host' = [host EXCEPT ![m].phase = "down"] /\ faults' = faults
          /\ rebooted' = rebooted
      BY <2>2, Zenon DEF GoesDown, past
    <3> QED BY <1>1, <3>1, PhaseChanges DEF TypeOK
  <2>3. CASE Outage(m)
    <3>1. /\ host' = [host EXCEPT ![m].phase = "down"] /\ rebooted' = rebooted
          /\ faults < MaxFaults /\ faults' = faults + 1
      BY <2>3, Zenon DEF Outage, past
    <3>2. host' \in [Machine -> Host] /\ \A n \in Machine : Untouched(n)
      BY <1>1, <3>1, PhaseChanges
    <3>3. faults' \in 0..MaxFaults
      BY <1>1, <3>1, FaultIsTyped
    <3> QED BY <1>1, <3>1, <3>2, <3>3 DEF TypeOK
  <2>4. CASE Started(m)
    <3>1. host' = [host EXCEPT ![m].phase = "running"] /\ faults' = faults
          /\ rebooted' = rebooted
      BY <2>4, Zenon DEF Started, past
    <3> QED BY <1>1, <3>1, PhaseChanges DEF TypeOK
  <2> QED BY <2>1, <2>2, <2>3, <2>4
<1>4. \/ pc' = pc /\ outcome' = outcome
      \/ pc' = "idle" /\ outcome' = "killed" /\ rebooted' = rebooted
  BY Zenon DEF GoesDown, Outage, Boots, Started, Killed, End, past
<1>5. TypeOK'
  BY <1>1, <1>2, <1>3, <1>4 DEF TypeOK, Pc
<1>6. CASE pc' = pc /\ outcome' = outcome
  BY <1>2, <1>3, <1>5, <1>6, Stays
<1>7. CASE pc' = "idle" /\ outcome' = "killed" /\ rebooted' = rebooted
  BY <1>2, <1>3, <1>5, <1>7, Stops
<1> QED BY <1>4, <1>6, <1>7

(* Whatever ends a run without another effect keeps the invariant.         *)
LEMMA RunStops ==
  ASSUME DeployInv, UNCHANGED <<tool, past>>, pc' = "idle",
         outcome' \in {"failed", "killed"}, host' = host, faults' \in 0..MaxFaults
  PROVE  DeployInv'
<1>1. /\ plan' = plan /\ at' = at /\ built' = built /\ mode' = mode /\ now' = now
      /\ flake' = flake /\ touched' = touched /\ runs' = runs /\ rebooted' = rebooted
  BY Zenon DEF tool, past
<1>2. TypeOK'
  BY <1>1 DEF DeployInv, TypeInv, TypeOK, Pc
<1>3. \A n \in Machine : Untouched(n)
  BY DEF Untouched
<1> QED BY <1>1, <1>2, <1>3, Stops

(* So do commands that fail, the deadline, the answer `exit` and an        *)
(* interruption.                                                           *)
LEMMA EndInduction ==
  ASSUME DeployInv, CommandFails \/ Interrupt \/ Deadline \/ Exit
  PROVE  DeployInv'
<1>1. TypeOK
  BY DEF DeployInv, TypeInv
<1>2. UNCHANGED <<tool, past>> /\ host' = host /\ pc' = "idle"
  BY Zenon DEF CommandFails, Aborts, Fails, Unreachable, Interrupt, Killed, End, Deadline,
     Exit
<1>3. outcome' \in {"failed", "killed"}
  BY Zenon DEF CommandFails, Aborts, Fails, Unreachable, Interrupt, Killed, End, Deadline,
     Exit
<1>4. faults' = faults \/ (faults < MaxFaults /\ faults' = faults + 1)
  BY Zenon DEF CommandFails, Aborts, Fails, Unreachable, Interrupt, Deadline, Exit
<1>5. faults' \in 0..MaxFaults
  BY <1>1, <1>4, FaultIsTyped DEF TypeOK
<1> QED BY <1>2, <1>3, <1>5, RunStops

-----------------------------------------------------------------------------
(* From command to command. *)

(* The next command for the machine at hand.                               *)
LEMMA Proceeds ==
  ASSUME DeployInv, TypeOK', at < Len(plan),
         pc \notin {"idle", "build"}, pc' \notin {"idle", "build", "visit", "goodbye"},
         pc' \in Late => pc \in Late,
         plan' = plan, at' = at, built' = built, flake' = flake, rebooted' = rebooted,
         touched' \in {touched, touched \cup {Cur}}, outcome' = outcome,
         \A m \in Machine : Untouched(m), SilentInv', BootInv'
  PROVE  DeployInv'
<1>1. TypeOK /\ PlanInv
  BY DEF DeployInv, TypeInv
<1>2. PlanInv'
  BY <1>1 DEF PlanInv
<1>3. BuiltInv'
  BY DEF DeployInv, BuiltInv
<1>4. /\ \A i \in DOMAIN plan : plan[i] \in Machine
      /\ 1..at \subseteq DOMAIN plan
      /\ DOMAIN plan = 1..Len(plan) /\ Len(plan) \in Nat /\ at \in Nat
  BY <1>1, PlannedIsMachine
<1>5. \A i \in 1..at : Deployed(plan[i])'
  BY <1>4, DeployedStays DEF DeployInv, ProgressInv, Late
<1>6. ASSUME NEW j \in DOMAIN plan, plan[j] \in touched' PROVE j <= at + 1
  <2>1. CASE plan[j] \in touched
    BY <2>1 DEF DeployInv, ProgressInv, Late
  <2>2. CASE plan[j] = plan[at + 1]
    <3>1. at + 1 \in DOMAIN plan
      BY <1>4
    <3> QED BY <1>1, <1>4, <2>2, <3>1 DEF PlanInv
  <2> QED BY <1>6, <2>1, <2>2 DEF Cur
<1>7. pc' \in Late => Deployed(Cur)'
  <2> SUFFICES ASSUME pc' \in Late PROVE Deployed(Cur)'
    OBVIOUS
  <2>1. Deployed(Cur)
    BY DEF DeployInv, ProgressInv, Late
  <2>2. Cur \in Machine /\ Cur' = Cur
    BY <1>1, CurIsMachine DEF Cur
  <2>3. Untouched(Cur)
    BY <2>2
  <2> QED BY <2>1, <2>2, <2>3 DEF Untouched, Deployed, Has
<1>8. outcome' # "ok"
  BY DEF DeployInv, ProgressInv, Late
<1>9. ProgressInv'
  BY <1>5, <1>6, <1>7, <1>8 DEF ProgressInv, Late
<1> QED BY <1>2, <1>3, <1>9 DEF DeployInv, TypeInv

(* The machine at hand is done with.                                       *)
LEMMA Advances ==
  ASSUME DeployInv, at < Len(plan), pc \notin {"idle", "build"}, Done,
         flake' = flake, rebooted' = rebooted, touched' = touched, runs' = runs,
         host' \in [Machine -> Host], \A m \in Machine \ {Cur} : Untouched(m),
         flake[Cur] \in {host'[Cur].running, host'[Cur].next} \/ Cur \in rebooted
  PROVE  DeployInv'
<1>1. TypeOK /\ PlanInv
  BY DEF DeployInv, TypeInv
<1>2. /\ pc' = "visit" /\ outcome' = outcome /\ faults' = faults
      /\ at' = at + 1 /\ now' = Blank /\ plan' = plan /\ built' = built /\ mode' = mode
  BY Zenon DEF Done, Goto
<1>3. /\ \A i \in DOMAIN plan : plan[i] \in Machine
      /\ 1..at \subseteq DOMAIN plan
      /\ DOMAIN plan = 1..Len(plan) /\ Len(plan) \in Nat /\ at \in Nat
  BY <1>1, PlannedIsMachine
<1>4. TypeOK'
  <2>1. at' \in 0..Len(plan')
    BY <1>2, <1>3
  <2> QED BY <1>1, <1>2, <2>1, BlankIsTyped DEF TypeOK, Pc
<1>5. PlanInv'
  BY <1>1, <1>2 DEF PlanInv
<1>6. BuiltInv'
  BY <1>2 DEF DeployInv, BuiltInv
<1>7. SilentInv' /\ BootInv'
  BY <1>2 DEF SilentInv, BootInv
<1>8. ASSUME NEW i \in 1..at' PROVE Deployed(plan[i])'
  <2>1. CASE i = at + 1
    <3>1. plan[i] = Cur
      BY <2>1 DEF Cur
    <3> QED BY <1>2, <3>1 DEF Deployed, Has
  <2>2. CASE i \in 1..at
    <3>1. plan[i] # plan[at + 1]
      BY <1>1, <1>3, <2>2 DEF PlanInv
    <3>2. plan[i] \in Machine \ {Cur}
      BY <1>3, <2>2, <3>1 DEF Cur
    <3>3. Deployed(plan[i])
      BY <2>2 DEF DeployInv, ProgressInv, Late
    <3>4. Untouched(plan[i])
      BY <3>2
    <3> QED BY <1>2, <3>3, <3>4 DEF Deployed, Has, Untouched
  <2> QED BY <1>2, <1>3, <2>1, <2>2
<1>9. \A j \in DOMAIN plan' : plan'[j] \in touched' => j <= at' + 1
  BY <1>2, <1>3 DEF DeployInv, ProgressInv, Late
<1>10. outcome' # "ok"
  BY <1>2 DEF DeployInv, ProgressInv, Late
<1>11. ProgressInv'
  BY <1>2, <1>8, <1>9, <1>10 DEF ProgressInv, Late
<1> QED BY <1>4, <1>5, <1>6, <1>7, <1>11 DEF DeployInv, TypeInv

(* What is known of the machine at hand.                                   *)
LEMMA AtHand ==
  ASSUME DeployInv, at < Len(plan), pc \notin {"idle", "build"}
  PROVE  /\ TypeOK /\ PlanInv
         /\ Cur \in Machine /\ New \in Toplevel /\ host[Cur] \in Host /\ now \in Decision
         /\ New = flake[Cur]
<1>1. TypeOK /\ PlanInv
  BY DEF DeployInv, TypeInv
<1>2. Cur \in Machine /\ New \in Toplevel /\ host[Cur] \in Host
  BY <1>1, CurIsMachine
<1>3. at + 1 \in DOMAIN plan
  BY <1>1, PlannedIsMachine
<1>4. New = flake[Cur]
  BY <1>3 DEF DeployInv, BuiltInv, New, Cur
<1>5. now \in Decision
  BY <1>1 DEF TypeOK
<1> QED BY <1>1, <1>2, <1>4, <1>5

(* Between visits there is a machine at hand.                              *)
LEMMA InHand ==
  ASSUME DeployInv, pc \notin {"idle", "build", "visit"} PROVE at < Len(plan)
BY DEF DeployInv, TypeInv, PlanInv

(* Machines that are left alone.                                           *)
LEMMA HostsStay == ASSUME host' = host PROVE \A m \in Machine : Untouched(m)
BY DEF Untouched

(* A decision that is amended keeps the types.                             *)
LEMMA DecidesTyped ==
  ASSUME TypeOK, pc' \in Pc, UNCHANGED <<plan, at, built, mode, outcome, host, past>>,
         faults' \in 0..MaxFaults, now' \in Decision
  PROVE  TypeOK'
<1>1. /\ plan' = plan /\ at' = at /\ built' = built /\ mode' = mode /\ outcome' = outcome
      /\ flake' = flake /\ touched' = touched /\ runs' = runs /\ rebooted' = rebooted
      /\ host' = host
  BY Zenon DEF past
<1> QED BY <1>1 DEF TypeOK

-----------------------------------------------------------------------------
(* The commands. *)

(* A machine that runs the new system is done with; another is assessed.   *)
LEMMA VisitInduction == ASSUME DeployInv, Visit PROVE DeployInv'
<1>1. /\ pc = "visit" /\ at < Len(plan) /\ host' = host /\ flake' = flake
      /\ touched' = touched /\ rebooted' = rebooted /\ runs' = runs
  BY Zenon DEF Visit, past
<1>2. /\ TypeOK /\ PlanInv /\ Cur \in Machine /\ New \in Toplevel /\ host[Cur] \in Host
      /\ now \in Decision /\ New = flake[Cur]
  BY <1>1, AtHand
<1>3. \A m \in Machine : Untouched(m)
  BY <1>1, HostsStay
<1>4. CASE host[Cur].running = New
  <2>1. Done
    BY <1>4, Zenon DEF Visit
  <2>2. host' \in [Machine -> Host]
    BY <1>1, <1>2 DEF TypeOK
  <2>3. flake[Cur] \in {host'[Cur].running, host'[Cur].next}
    BY <1>1, <1>2, <1>4
  <2> QED BY <1>1, <1>3, <2>1, <2>2, <2>3, Advances
<1>5. CASE host[Cur].running # New
  <2>1. /\ pc' = "assess" /\ now' = [now EXCEPT !.old = host[Cur].running]
        /\ plan' = plan /\ at' = at /\ built' = built /\ mode' = mode
        /\ outcome' = outcome /\ faults' = faults
    BY <1>5, Zenon DEF Visit, Goto
  <2>2. now' \in Decision /\ now'.old = host[Cur].running
    BY <1>2, <2>1 DEF Decision, Host
  <2>3. TypeOK'
    BY <1>1, <1>2, <2>1, <2>2 DEF TypeOK, Pc
  <2>4. Cur' = Cur
    BY <2>1 DEF Cur
  <2>5. SilentInv' /\ BootInv'
    BY <1>1, <2>1, <2>2, <2>4 DEF SilentInv, BootInv
  <2> QED BY <1>1, <1>3, <2>1, <2>3, <2>5, Proceeds DEF Late
<1> QED BY <1>4, <1>5

(* Without a reason to reboot nothing differs that asks for one, whichever *)
(* lookups failed.                                                         *)
LEMMA NoReasons ==
  ASSUME NEW from \in Toplevel, NEW to \in Toplevel,
         NEW lostOld \in SUBSET Link, NEW lostNew \in SUBSET Link,
         StructuralReasons(from, to, lostOld, lostNew) = {}, PatternReasons(from, to) = {}
  PROVE  /\ \A l \in Link \ (lostOld \cap lostNew) : Dest[from][l] = Dest[to][l]
         /\ Matched[from] = Matched[to]
<1>1. ASSUME NEW l \in Link, l \notin lostOld \cap lostNew PROVE Dest[from][l] = Dest[to][l]
  <2>1. (IF l \in lostOld THEN Absent ELSE Dest[from][l])
          = (IF l \in lostNew THEN Absent ELSE Dest[to][l])
    BY Zenon DEF StructuralReasons
  <2>2. Dest[to][l] # Absent /\ Dest[from][l] # Absent
    BY AbsentAssumption
  <2> QED BY <1>1, <2>1, <2>2
<1>2. Matched[from] = Matched[to]
  BY DEF PatternReasons
<1> QED BY <1>1, <1>2

(* The verdict is on what runs.                                            *)
LEMMA AssessInduction == ASSUME DeployInv, Assess PROVE DeployInv'
<1>1. pc = "assess" /\ at < Len(plan)
  BY InHand, Zenon DEF Assess
<1>2. /\ TypeOK /\ PlanInv /\ Cur \in Machine /\ New \in Toplevel /\ host[Cur] \in Host
      /\ now \in Decision /\ New = flake[Cur]
  BY <1>1, AtHand
<1>3. /\ pc' = "decide" /\ UNCHANGED <<plan, at, built, mode, outcome, host, past>>
  BY Zenon DEF Assess
<1>4. PICK lostOld \in SUBSET Link, lostNew \in SUBSET Link :
        /\ lostOld \cup lostNew # {} => faults < MaxFaults
        /\ faults' = IF lostOld \cup lostNew = {} THEN faults ELSE faults + 1
        /\ now' = [now EXCEPT
             !.reboot = StructuralReasons(now.old, New, lostOld, lostNew) # {}
                          \/ PatternReasons(now.old, New) # {},
             !.blind = lostOld \cap lostNew]
  BY Zenon DEF Assess
<1>5. /\ now' \in Decision /\ now'.old = now.old /\ now'.blind = lostOld \cap lostNew
      /\ ~now'.reboot => /\ StructuralReasons(now.old, New, lostOld, lostNew) = {}
                         /\ PatternReasons(now.old, New) = {}
  BY <1>2, <1>4 DEF Decision
<1>6. ~now'.reboot => /\ \A l \in Link \ now'.blind : Dest[now.old][l] = Dest[New][l]
                      /\ Matched[now.old] = Matched[New]
  <2>1. now.old \in Toplevel
    BY <1>2 DEF Decision
  <2>2. ASSUME ~now'.reboot
        PROVE  /\ \A l \in Link \ (lostOld \cap lostNew) : Dest[now.old][l] = Dest[New][l]
               /\ Matched[now.old] = Matched[New]
    <3>1. StructuralReasons(now.old, New, lostOld, lostNew) = {}
          /\ PatternReasons(now.old, New) = {}
      BY <1>5, <2>2
    <3> HIDE DEF New
    <3> QED BY <1>2, <2>1, <3>1, NoReasons
  <2> QED BY <1>5, <2>2, Zenon
<1>7. faults' \in 0..MaxFaults
  BY <1>2, <1>4, FaultIsTyped DEF TypeOK
<1>8. TypeOK'
  BY <1>2, <1>3, <1>5, <1>7, DecidesTyped DEF Pc
<1>9. Cur' = Cur /\ New' = New
  BY <1>3 DEF Cur, New
<1>10. \A m \in Machine : Untouched(m)
  BY <1>3, HostsStay
<1>11. SilentInv'
  <2>1. host'[Cur] = host[Cur] /\ rebooted' = rebooted
    BY <1>3 DEF past
  <2>2. Cur \notin rebooted => host[Cur].running = now.old
    BY <1>1 DEF DeployInv, SilentInv
  <2> QED BY <1>3, <1>5, <1>6, <1>9, <2>1, <2>2 DEF SilentInv, Same
<1>12. BootInv'
  BY <1>3 DEF BootInv
<1> QED BY <1>1, <1>3, <1>8, <1>10, <1>11, <1>12, Proceeds DEF Late, past

(* Without a question there is no reason to reboot.                        *)
LEMMA DecideInduction == ASSUME DeployInv, Decide PROVE DeployInv'
<1>1. pc = "decide" /\ at < Len(plan)
  BY InHand, Zenon DEF Decide
<1>2. /\ TypeOK /\ PlanInv /\ Cur \in Machine /\ New \in Toplevel /\ host[Cur] \in Host
      /\ now \in Decision /\ New = flake[Cur]
  BY <1>1, AtHand
<1>3. /\ pc' = "copy" /\ UNCHANGED <<plan, at, built, mode, outcome, host, past>>
      /\ faults' = faults
  BY Zenon DEF Decide, Goto
<1>4. /\ now' \in Decision /\ now'.old = now.old /\ now'.reboot = now.reboot
      /\ now'.blind = now.blind
      /\ mode = "ask" /\ ~now'.asked => ~now.reboot
  <2>1. CASE Forced
    BY <1>2, <2>1 DEF Forced, Decision, TypeOK
  <2>2. CASE SwitchesSilently
    BY <1>2, <2>2 DEF SwitchesSilently
  <2>3. CASE Prompt
    <3>1. PICK answer \in {"switch", "boot", "reboot"} :
            now' = [now EXCEPT !.action = answer, !.asked = TRUE]
      BY <2>3, Zenon DEF Prompt
    <3> QED BY <1>2, <3>1 DEF Decision
  <2> QED BY <2>1, <2>2, <2>3 DEF Decide
<1>5. faults' \in 0..MaxFaults
  BY <1>2, <1>3 DEF TypeOK
<1>6. TypeOK'
  BY <1>2, <1>3, <1>4, <1>5, DecidesTyped DEF Pc
<1>7. Cur' = Cur /\ New' = New
  BY <1>3 DEF Cur, New
<1>8. \A m \in Machine : Untouched(m)
  BY <1>3, HostsStay
<1>9. SilentInv'
  <2>1. host'[Cur] = host[Cur] /\ rebooted' = rebooted
    BY <1>3 DEF past
  <2>2. /\ Cur \notin rebooted => host[Cur].running = now.old
        /\ ~now.reboot => Same(now.old, New)
    BY <1>1 DEF DeployInv, SilentInv
  <2> QED BY <1>3, <1>4, <1>7, <2>1, <2>2 DEF SilentInv, Same
<1>10. BootInv'
  BY <1>3 DEF BootInv
<1> QED BY <1>1, <1>3, <1>6, <1>8, <1>9, <1>10, Proceeds DEF Late, past

(* A closure that is copied changes no machine.                            *)
LEMMA CopyInduction == ASSUME DeployInv, CopyClosure PROVE DeployInv'
<1>1. pc = "copy" /\ at < Len(plan)
  BY InHand, Zenon DEF CopyClosure
<1>2. TypeOK /\ PlanInv
  BY <1>1, AtHand
<1>3. /\ pc' = "profile" /\ host' = host /\ faults' = faults /\ outcome' = outcome
      /\ UNCHANGED <<tool, past>>
  BY Zenon DEF CopyClosure, Goto
<1>4. TypeOK'
  BY <1>2, <1>3 DEF TypeOK, Pc, tool, past
<1>5. Cur' = Cur /\ New' = New
  BY <1>3 DEF Cur, New, tool
<1>6. SilentInv'
  <2>1. /\ Cur \notin rebooted => host[Cur].running = now.old
        /\ ~now.reboot => Same(now.old, New)
        /\ mode = "ask" /\ ~now.asked => ~now.reboot
    BY <1>1 DEF DeployInv, SilentInv
  <2> QED BY <1>3, <1>5, <2>1 DEF SilentInv, Same, tool, past
<1>7. BootInv'
  BY <1>3 DEF BootInv
<1>8. \A m \in Machine : Untouched(m)
  BY <1>3, HostsStay
<1> QED BY <1>1, <1>3, <1>4, <1>6, <1>7, <1>8, Proceeds DEF Late, tool, past

(* A profile that is set changes nothing that runs or boots.               *)
LEMMA ProfileInduction == ASSUME DeployInv, SetProfile PROVE DeployInv'
<1>1. pc = "profile" /\ at < Len(plan)
  BY InHand, Zenon DEF SetProfile
<1>2. /\ TypeOK /\ PlanInv /\ Cur \in Machine /\ New \in Toplevel /\ host[Cur] \in Host
  BY <1>1, AtHand
<1>3. /\ pc' = "activate" /\ faults' = faults /\ outcome' = outcome /\ UNCHANGED tool
      /\ touched' = touched \cup {Cur} /\ flake' = flake /\ rebooted' = rebooted
      /\ runs' = runs /\ host' = [host EXCEPT ![Cur].profile = New]
  BY Zenon DEF SetProfile, Goto
<1> DEFINE h == [host[Cur] EXCEPT !.profile = New]
<1>4. h \in Host /\ h.running = host[Cur].running /\ h.next = host[Cur].next
      /\ h.booted = host[Cur].booted /\ h.boot = host[Cur].boot
  BY <1>2 DEF Host
<1>5. host \in [Machine -> Host] /\ host' = [host EXCEPT ![Cur] = h]
  BY <1>2, <1>3, Zenon DEF TypeOK
<1> HIDE DEF h
<1>6. /\ host' \in [Machine -> Host] /\ host'[Cur] = h
      /\ \A n \in Machine : n # Cur => host'[n] = host[n]
  BY <1>2, <1>4, <1>5, Replaced
<1>7. \A m \in Machine : Untouched(m)
  BY <1>4, <1>6 DEF Untouched
<1>8. TypeOK'
  BY <1>2, <1>3, <1>6 DEF TypeOK, Pc, tool
<1>9. Cur' = Cur /\ New' = New
  BY <1>3 DEF Cur, New, tool
<1>10. SilentInv'
  <2>1. /\ Cur \notin rebooted => host[Cur].running = now.old
        /\ ~now.reboot => Same(now.old, New)
        /\ mode = "ask" /\ ~now.asked => ~now.reboot
    BY <1>1 DEF DeployInv, SilentInv
  <2> QED BY <1>3, <1>4, <1>6, <1>9, <2>1 DEF SilentInv, Same, tool
<1>11. BootInv'
  BY <1>3 DEF BootInv
<1> QED BY <1>1, <1>3, <1>7, <1>8, <1>10, <1>11, Proceeds DEF Late, tool

(* What the activation leaves on the machine at hand, and on no other.     *)
LEMMA Activated ==
  ASSUME TypeOK, Cur \in Machine, New \in Toplevel, NEW h,
         h \in {[host EXCEPT ![Cur].next = New],
                [[host EXCEPT ![Cur].next = New] EXCEPT ![Cur].running = New]}
  PROVE  /\ h \in [Machine -> Host]
         /\ \A m \in Machine : m # Cur => h[m] = host[m]
         /\ h[Cur].next = New /\ h[Cur].boot = host[Cur].boot
<1> DEFINE a == [host[Cur] EXCEPT !.next = New]
           b == [host[Cur] EXCEPT !.next = New, !.running = New]
<1>1. host \in [Machine -> Host] /\ host[Cur] \in Host
  BY DEF TypeOK
<1>2. /\ a \in Host /\ a.next = New /\ a.boot = host[Cur].boot
      /\ b \in Host /\ b.next = New /\ b.boot = host[Cur].boot
  BY <1>1 DEF Host
<1>3. CASE h = [host EXCEPT ![Cur].next = New]
  <2>1. h = [host EXCEPT ![Cur] = a]
    BY <1>3, Zenon
  <2> HIDE DEF a
  <2>2. /\ h \in [Machine -> Host] /\ h[Cur] = a
        /\ \A n \in Machine : n # Cur => h[n] = host[n]
    BY <1>1, <1>2, <2>1, Replaced
  <2> QED BY <1>2, <2>2
<1>4. CASE h = [[host EXCEPT ![Cur].next = New] EXCEPT ![Cur].running = New]
  <2>1. h = [host EXCEPT ![Cur] = b]
    BY <1>1, <1>4
  <2> HIDE DEF b
  <2>2. /\ h \in [Machine -> Host] /\ h[Cur] = b
        /\ \A n \in Machine : n # Cur => h[n] = host[n]
    BY <1>1, <1>2, <2>1, Replaced
  <2> QED BY <1>2, <2>2
<1> QED BY <1>3, <1>4

(* A run that stops with the machine at hand half-way leaves those before  *)
(* it as they are.                                                         *)
LEMMA StopsHalfWay ==
  ASSUME DeployInv, at < Len(plan), pc \notin {"idle", "build"}, TypeOK', pc' = "idle",
         outcome' # "ok", plan' = plan, at' = at, flake' = flake, touched' = touched,
         rebooted' = rebooted, \A m \in Machine : m # Cur => host'[m] = host[m]
  PROVE  DeployInv'
<1>1. TypeOK /\ PlanInv
  BY AtHand
<1>2. PlanInv'
  BY <1>1 DEF PlanInv
<1>3. /\ \A i \in DOMAIN plan : plan[i] \in Machine
      /\ 1..at \subseteq DOMAIN plan
      /\ DOMAIN plan = 1..Len(plan) /\ Len(plan) \in Nat /\ at \in Nat
  BY <1>1, PlannedIsMachine
<1>4. ASSUME NEW i \in 1..at PROVE Deployed(plan[i])'
  <2>1. plan[i] # plan[at + 1]
    BY <1>1, <1>3 DEF PlanInv
  <2>2. host'[plan[i]] = host[plan[i]]
    BY <1>3, <2>1 DEF Cur
  <2>3. Deployed(plan[i])
    BY DEF DeployInv, ProgressInv, Late
  <2> QED BY <2>2, <2>3 DEF Deployed, Has
<1>5. ProgressInv'
  BY <1>4 DEF DeployInv, ProgressInv, Late
<1>6. BuiltInv' /\ SilentInv' /\ BootInv'
  BY DEF BuiltInv, SilentInv, BootInv
<1> QED BY <1>2, <1>5, <1>6 DEF DeployInv, TypeInv

(* A machine with a new boot entry is still to be rebooted.                *)
LEMMA WaitsForReboot ==
  ASSUME DeployInv, at < Len(plan), pc = "activate", pc' \in {"goodbye", "bootid"},
         TypeOK', UNCHANGED tool, outcome' = outcome, UNCHANGED past,
         pc' = "goodbye" => Cur \in Local,
         \A m \in Machine : m # Cur => host'[m] = host[m], host'[Cur].next = New
  PROVE  DeployInv'
<1>1. TypeOK /\ PlanInv /\ New = flake[Cur]
  BY AtHand
<1>2. /\ plan' = plan /\ at' = at /\ built' = built /\ flake' = flake /\ now' = now
      /\ touched' = touched /\ rebooted' = rebooted
  BY Zenon DEF tool, past
<1>3. PlanInv'
  BY <1>1, <1>2 DEF PlanInv, Cur
<1>4. /\ \A i \in DOMAIN plan : plan[i] \in Machine
      /\ 1..at \subseteq DOMAIN plan
      /\ DOMAIN plan = 1..Len(plan) /\ Len(plan) \in Nat /\ at \in Nat
  BY <1>1, PlannedIsMachine
<1>5. ASSUME NEW i \in 1..at PROVE Deployed(plan[i])'
  <2>1. plan[i] # plan[at + 1]
    BY <1>1, <1>4 DEF PlanInv
  <2>2. host'[plan[i]] = host[plan[i]]
    BY <1>4, <2>1 DEF Cur
  <2>3. Deployed(plan[i])
    BY DEF DeployInv, ProgressInv, Late
  <2> QED BY <1>2, <2>2, <2>3 DEF Deployed, Has
<1>6. Deployed(Cur)'
  <2>1. Cur' = Cur
    BY <1>2 DEF Cur
  <2> QED BY <1>1, <1>2, <2>1 DEF Deployed, Has
<1>7. ProgressInv'
  BY <1>2, <1>5, <1>6 DEF DeployInv, ProgressInv, Late
<1>8. BuiltInv' /\ SilentInv' /\ BootInv'
  BY <1>2 DEF DeployInv, BuiltInv, SilentInv, BootInv
<1> QED BY <1>3, <1>7, <1>8 DEF DeployInv, TypeInv

(* An activation, whether it succeeds or fails, keeps the invariant.       *)
LEMMA ActivateInduction == ASSUME DeployInv, Activate PROVE DeployInv'
<1>1. pc = "activate" /\ at < Len(plan) /\ UNCHANGED past
  BY InHand, Zenon DEF Activate
<1>2. /\ TypeOK /\ PlanInv /\ Cur \in Machine /\ New \in Toplevel /\ host[Cur] \in Host
      /\ New = flake[Cur]
  BY <1>1, AtHand
<1> DEFINE entered  == [host EXCEPT ![Cur].next = New]
           switched == [entered EXCEPT ![Cur].running = New]
<1>3. \/ host' \in {entered, switched} /\ AfterActivation
      \/ host' \in {host, entered, switched} /\ Fails /\ UNCHANGED tool
  BY Zenon DEF Activate
<1>4. host' \in {entered, switched} => /\ host' \in [Machine -> Host]
                                       /\ \A m \in Machine : m # Cur => host'[m] = host[m]
                                       /\ host'[Cur].next = New
  BY <1>2, Activated
<1> HIDE DEF entered, switched
<1>5. CASE host' \in {host, entered, switched} /\ Fails /\ UNCHANGED tool
  <2>1. /\ pc' = "idle" /\ outcome' = "failed" /\ faults < MaxFaults
        /\ faults' = faults + 1
    BY <1>5, Zenon DEF Fails, End
  <2>2. host' \in [Machine -> Host] /\ \A m \in Machine : m # Cur => host'[m] = host[m]
    BY <1>2, <1>4, <1>5 DEF TypeOK
  <2>3. faults' \in 0..MaxFaults
    BY <1>2, <2>1, FaultIsTyped
  <2>4. TypeOK'
    BY <1>1, <1>2, <1>5, <2>1, <2>2, <2>3 DEF TypeOK, Pc, tool, past
  <2> QED BY <1>1, <1>5, <2>1, <2>2, <2>4, StopsHalfWay DEF tool, past
<1>6. CASE host' \in {entered, switched} /\ AfterActivation
  <2>1. CASE now.action # "reboot"
    <3>1. Done
      BY <1>6, <2>1, Zenon DEF AfterActivation
    <3>2. \A m \in Machine \ {Cur} : Untouched(m)
      BY <1>4, <1>6 DEF Untouched
    <3>3. flake[Cur] \in {host'[Cur].running, host'[Cur].next}
      BY <1>2, <1>4, <1>6
    <3> QED BY <1>1, <1>4, <1>6, <3>1, <3>2, <3>3, Advances DEF past
  <2>2. CASE now.action = "reboot"
    <3>1. /\ pc' \in {"goodbye", "bootid"} /\ outcome' = outcome /\ faults' = faults
          /\ UNCHANGED tool /\ (pc' = "goodbye" => Cur \in Local)
      BY <1>6, <2>2, Zenon DEF AfterActivation, Goto
    <3>2. TypeOK'
      BY <1>1, <1>2, <1>4, <1>6, <3>1 DEF TypeOK, Pc, tool, past
    <3> QED BY <1>1, <1>4, <1>6, <3>1, <3>2, WaitsForReboot
  <2> QED BY <2>1, <2>2
<1> QED BY <1>3, <1>5, <1>6

(* The reboot of the local machine leaves none behind, since it is the     *)
(* last.                                                                   *)
LEMMA GoodbyeInduction == ASSUME DeployInv, Goodbye PROVE DeployInv'
<1>1. /\ pc = "goodbye" /\ at < Len(plan) /\ pc' = "idle" /\ outcome' = "ok"
      /\ host' = [host EXCEPT ![Cur].phase = "going"]
      /\ plan' = plan /\ at' = at /\ built' = built /\ mode' = mode /\ now' = now
      /\ flake' = flake /\ touched' = touched /\ rebooted' = rebooted /\ runs' = runs
      /\ faults' = faults
  BY InHand, Zenon DEF Goodbye, End, tool, past
<1>2. TypeOK /\ PlanInv /\ Cur \in Machine /\ Cur \in Local
  BY <1>1, AtHand DEF PlanInv
<1>3. host' \in [Machine -> Host] /\ \A n \in Machine : Untouched(n)
  BY <1>1, <1>2, PhaseChanges
<1>4. TypeOK'
  BY <1>1, <1>2, <1>3 DEF TypeOK, Pc
<1>5. PlanInv'
  BY <1>1, <1>2 DEF PlanInv
<1>6. /\ \A i \in DOMAIN plan : plan[i] \in Machine
      /\ 1..at \subseteq DOMAIN plan
      /\ DOMAIN plan = 1..Len(plan) /\ Len(plan) \in Nat /\ at \in Nat
  BY <1>2, PlannedIsMachine
<1>7. ASSUME NEW i \in DOMAIN plan PROVE Deployed(plan[i])
  <2>1. CASE i \in 1..at
    BY <2>1 DEF DeployInv, ProgressInv, Late
  <2>2. CASE i = at + 1
    BY <1>1, <2>2 DEF DeployInv, ProgressInv, Late, Cur
  <2>3. CASE i > at + 1
    <3>1. at + 1 \in DOMAIN plan /\ at + 1 < i
      BY <1>1, <1>6, <2>3
    <3>2. plan[at + 1] # plan[i] /\ plan[i] \in Local
      BY <1>2, <3>1 DEF PlanInv, Cur
    <3> QED BY <1>2, <3>2, LocalAssumption DEF Cur
  <2> QED BY <1>6, <2>1, <2>2, <2>3
<1>8. \A i \in DOMAIN plan : Deployed(plan[i])'
  BY <1>1, <1>3, <1>6, <1>7, DeployedStays
<1>9. ProgressInv'
  BY <1>1, <1>6, <1>8 DEF DeployInv, ProgressInv, Late
<1>10. BuiltInv' /\ SilentInv' /\ BootInv'
  BY <1>1 DEF BuiltInv, SilentInv, BootInv
<1> QED BY <1>4, <1>5, <1>9, <1>10 DEF DeployInv, TypeInv

(* The boot id is that of the boot that has still to go down.              *)
LEMMA BootIdInduction == ASSUME DeployInv, ReadBootId PROVE DeployInv'
<1>1. /\ pc = "bootid" /\ at < Len(plan) /\ pc' = "reboot"
      /\ now' = [now EXCEPT !.boot = host[Cur].boot]
      /\ UNCHANGED <<plan, at, built, mode, outcome, host, past>> /\ faults' = faults
  BY InHand, Zenon DEF ReadBootId, Goto
<1>2. TypeOK /\ Cur \in Machine /\ host[Cur] \in Host /\ now \in Decision
  BY <1>1, AtHand
<1>3. now' \in Decision /\ now'.boot = host[Cur].boot /\ host[Cur].boot \in Nat
  BY <1>1, <1>2, BoundsAssumption DEF Decision, Host
<1>4. faults' \in 0..MaxFaults
  BY <1>1, <1>2 DEF TypeOK
<1>5. TypeOK'
  BY <1>1, <1>2, <1>3, <1>4, DecidesTyped DEF Pc
<1>6. Cur' = Cur /\ host' = host
  BY <1>1 DEF Cur
<1>7. \A m \in Machine : Untouched(m)
  BY <1>6, HostsStay
<1>8. SilentInv' /\ BootInv'
  BY <1>1, <1>3, <1>6 DEF SilentInv, BootInv
<1> QED BY <1>1, <1>5, <1>7, <1>8, Proceeds DEF Late, past

(* The order to reboot, whether it arrives or not.                         *)
LEMMA RebootInduction == ASSUME DeployInv, Reboot PROVE DeployInv'
<1>1. /\ pc = "reboot" /\ at < Len(plan) /\ pc' = "wait" /\ outcome' = outcome
      /\ plan' = plan /\ at' = at /\ built' = built /\ mode' = mode /\ now' = now
      /\ flake' = flake /\ touched' = touched /\ rebooted' = rebooted /\ runs' = runs
  BY InHand, Zenon DEF Reboot, tool, past
<1>2. TypeOK /\ Cur \in Machine /\ host[Cur] \in Host
  BY <1>1, AtHand
<1>3. /\ host' = [host EXCEPT ![Cur].phase = "going"] \/ host' = host
      /\ faults' = faults \/ (faults < MaxFaults /\ faults' = faults + 1)
  BY Zenon DEF Reboot
<1>4. host' \in [Machine -> Host] /\ \A m \in Machine : Untouched(m)
  <2>1. CASE host' = host
    BY <1>2, <2>1, HostsStay DEF TypeOK
  <2>2. CASE host' = [host EXCEPT ![Cur].phase = "going"]
    BY <1>2, <2>2, PhaseChanges
  <2> QED BY <1>3, <2>1, <2>2
<1>5. faults' \in 0..MaxFaults
  BY <1>2, <1>3, FaultIsTyped DEF TypeOK
<1>6. TypeOK'
  BY <1>1, <1>2, <1>4, <1>5 DEF TypeOK, Pc
<1>7. Cur' = Cur
  BY <1>1 DEF Cur
<1>8. Untouched(Cur)
  BY <1>2, <1>4
<1>9. SilentInv'
  BY <1>1 DEF SilentInv
<1>10. BootInv'
  BY <1>1, <1>7, <1>8 DEF DeployInv, BootInv, Untouched
<1> QED BY <1>1, <1>4, <1>6, <1>9, <1>10, Proceeds DEF Late

(* Another boot id ends the wait.                                          *)
LEMMA ProbeInduction == ASSUME DeployInv, Probe PROVE DeployInv'
<1>1. /\ pc = "wait" /\ at < Len(plan) /\ now' = [now EXCEPT !.probes = @ + 1]
      /\ UNCHANGED <<plan, at, built, mode, outcome, host, past>> /\ faults' = faults
      /\ now.probes < Timeout
      /\ pc' \in {"wait", "state"} /\ (pc' = "state" => host[Cur].boot # now.boot)
  BY InHand, Zenon DEF Probe, Goto
<1>2. TypeOK /\ Cur \in Machine /\ host[Cur] \in Host /\ now \in Decision
  BY <1>1, AtHand
<1>3. /\ now' \in Decision /\ now'.boot = now.boot /\ now.boot \in Nat
      /\ host[Cur].boot \in Nat
  BY <1>1, <1>2, BoundsAssumption DEF Decision, Host
<1>4. faults' \in 0..MaxFaults
  BY <1>1, <1>2 DEF TypeOK
<1>5. TypeOK'
  BY <1>1, <1>2, <1>3, <1>4, DecidesTyped DEF Pc
<1>6. Cur' = Cur /\ host' = host
  BY <1>1 DEF Cur
<1>7. \A m \in Machine : Untouched(m)
  BY <1>6, HostsStay
<1>8. SilentInv'
  BY <1>1 DEF SilentInv
<1>9. BootInv'
  BY <1>1, <1>3, <1>6 DEF DeployInv, BootInv
<1> QED BY <1>1, <1>5, <1>7, <1>8, <1>9, Proceeds DEF Late, past

(* A machine that has started is the one that has booted.                  *)
LEMMA StateInduction == ASSUME DeployInv, AskState PROVE DeployInv'
<1>1. /\ pc = "state" /\ at < Len(plan) /\ pc' = "verify" /\ outcome' = outcome
      /\ plan' = plan /\ at' = at /\ built' = built /\ mode' = mode /\ now' = now
      /\ flake' = flake /\ touched' = touched /\ rebooted' = rebooted /\ runs' = runs
      /\ host' = host /\ faults' = faults
  BY InHand, Zenon DEF AskState, Goto, tool, past
<1>2. TypeOK
  BY <1>1, AtHand
<1>3. TypeOK'
  BY <1>1, <1>2 DEF TypeOK, Pc
<1>4. Cur' = Cur
  BY <1>1 DEF Cur
<1>5. SilentInv' /\ BootInv'
  BY <1>1, <1>4 DEF DeployInv, SilentInv, BootInv
<1>6. \A m \in Machine : Untouched(m)
  BY <1>1, HostsStay
<1> QED BY <1>1, <1>3, <1>5, <1>6, Proceeds DEF Late

(* A machine that runs the new system after its reboot is done with.       *)
LEMMA VerifyInduction == ASSUME DeployInv, Verify PROVE DeployInv'
<1>1. /\ pc = "verify" /\ at < Len(plan) /\ host' = host /\ UNCHANGED past
  BY InHand, Zenon DEF Verify
<1>2. TypeOK /\ New = flake[Cur]
  BY <1>1, AtHand
<1>3. CASE host[Cur].running = New
  <2>1. Done
    BY <1>3, Zenon DEF Verify
  <2>2. host' \in [Machine -> Host] /\ \A m \in Machine : Untouched(m)
    BY <1>1, <1>2, HostsStay DEF TypeOK
  <2>3. flake[Cur] \in {host'[Cur].running, host'[Cur].next}
    BY <1>1, <1>2, <1>3
  <2> QED BY <1>1, <2>1, <2>2, <2>3, Advances DEF past
<1>4. CASE host[Cur].running # New
  <2>1. pc' = "idle" /\ outcome' = "failed" /\ UNCHANGED tool /\ faults' = faults
    BY <1>4, Zenon DEF Verify, End
  <2>2. faults' \in 0..MaxFaults
    BY <1>2, <2>1 DEF TypeOK
  <2> QED BY <1>1, <2>1, <2>2, RunStops
<1> QED BY <1>3, <1>4

(* A run that gets to its end has deployed every machine.                  *)
LEMMA AllDeployedInduction == ASSUME DeployInv, AllDeployed PROVE DeployInv'
<1>1. /\ pc = "visit" /\ at = Len(plan) /\ pc' = "idle" /\ outcome' = "ok" /\ host' = host
      /\ plan' = plan /\ at' = at /\ built' = built /\ mode' = mode /\ now' = now
      /\ flake' = flake /\ touched' = touched /\ rebooted' = rebooted /\ runs' = runs
      /\ faults' = faults
  BY Zenon DEF AllDeployed, End, tool, past
<1>2. TypeOK /\ PlanInv
  BY DEF DeployInv, TypeInv
<1>3. TypeOK'
  BY <1>1, <1>2 DEF TypeOK, Pc
<1>4. PlanInv'
  BY <1>1, <1>2 DEF PlanInv
<1>5. DOMAIN plan = 1..at
  BY <1>1, <1>2, PlannedIsMachine
<1>6. \A i \in 1..at : Deployed(plan[i])'
  BY <1>1 DEF DeployInv, ProgressInv, Late, Deployed, Has
<1>7. ProgressInv'
  BY <1>1, <1>5, <1>6 DEF DeployInv, ProgressInv, Late
<1>8. BuiltInv' /\ SilentInv' /\ BootInv'
  BY <1>1 DEF BuiltInv, SilentInv, BootInv
<1> QED BY <1>3, <1>4, <1>7, <1>8 DEF DeployInv, TypeInv

(* The build gives each machine its own system.                            *)
LEMMA BuildInduction == ASSUME DeployInv, BuildToplevels PROVE DeployInv'
<1>1. /\ pc = "build" /\ plan' = plan /\ at' = at /\ mode' = mode /\ now' = now
      /\ host' = host /\ touched' = touched /\ rebooted' = rebooted /\ runs' = runs
  BY Zenon DEF BuildToplevels
<1>2. TypeOK /\ PlanInv /\ at = 0 /\ touched = {} /\ outcome # "ok"
  BY <1>1 DEF DeployInv, TypeInv, PlanInv, ProgressInv, Late
<1>3. CASE Fails /\ UNCHANGED <<built, flake>>
  <2>1. /\ pc' = "idle" /\ outcome' = "failed" /\ faults < MaxFaults
        /\ faults' = faults + 1
    BY <1>3, Zenon DEF Fails, End
  <2>2. faults' \in 0..MaxFaults
    BY <1>2, <2>1, FaultIsTyped
  <2> QED BY <1>1, <1>3, <2>1, <2>2, RunStops DEF tool, past
<1>4. CASE ~(Fails /\ UNCHANGED <<built, flake>>)
  <2> DEFINE paths == [i \in DOMAIN plan |-> flake'[plan[i]]]
  <2>1. /\ flake' \in Revision /\ pc' = "visit" /\ outcome' = outcome /\ faults' = faults
        /\ built' = [m \in Machine |-> IF \E i \in DOMAIN plan : plan[i] = m
                                       THEN MatchPath(m, paths) ELSE built[m]]
    BY <1>4, Zenon DEF BuildToplevels, Goto
  <2>2. ASSUME NEW m \in Machine, \E i \in DOMAIN plan : plan[i] = m
        PROVE  MatchPath(m, paths) = flake'[m]
    BY <1>2, <2>2, MatchedPath
  <2> HIDE DEF paths
  <2>3. flake' \in [Machine -> Toplevel]
    BY <2>1, MachineAssumption
  <2>4. built' \in [Machine -> Toplevel]
    <3>1. ASSUME NEW m \in Machine
          PROVE  (IF \E i \in DOMAIN plan : plan[i] = m
                  THEN MatchPath(m, paths) ELSE built[m]) \in Toplevel
      BY <1>2, <2>2, <2>3 DEF TypeOK
    <3> QED BY <2>1, <3>1
  <2>5. TypeOK'
    BY <1>1, <1>2, <2>1, <2>4 DEF TypeOK, Pc
  <2>6. PlanInv'
    BY <1>1, <1>2, <2>1 DEF PlanInv
  <2>7. \A i \in DOMAIN plan : plan[i] \in Machine
    BY <1>2, PlannedIsMachine
  <2>8. BuiltInv'
    BY <1>1, <2>1, <2>2, <2>7 DEF BuiltInv
  <2>9. ProgressInv'
    BY <1>1, <1>2, <2>1 DEF ProgressInv, Late
  <2>10. SilentInv' /\ BootInv'
    BY <2>1 DEF SilentInv, BootInv
  <2> QED BY <2>5, <2>6, <2>8, <2>9, <2>10 DEF DeployInv, TypeInv
<1> QED BY <1>3, <1>4

(* A new run starts from any state that an earlier one left behind.        *)
LEMMA StartInduction == ASSUME DeployInv, Start PROVE DeployInv'
<1>1. TypeInv'
  BY StartIsTyped DEF DeployInv
<1>2. pc' = "build" /\ at' = 0 /\ outcome' = "none" /\ touched' = {}
  BY Zenon DEF Start
<1>3. BuiltInv' /\ ProgressInv' /\ SilentInv' /\ BootInv'
  BY <1>2 DEF BuiltInv, ProgressInv, Late, SilentInv, BootInv
<1> QED BY <1>1, <1>3 DEF DeployInv

-----------------------------------------------------------------------------
(* The theorems. *)

(* The invariant holds at first.                                           *)
LEMMA InitInduction == ASSUME Init PROVE DeployInv
<1>1. built \in [Machine -> Toplevel]
  BY MachineAssumption DEF Init
<1>2. /\ pc = "idle" /\ outcome = "none" /\ plan = <<>> /\ at = 0 /\ mode = "ask"
      /\ built \in Revision /\ flake = built /\ now = Blank
      /\ touched = {} /\ rebooted = {} /\ runs = 0 /\ faults = 0
      /\ host = [m \in Machine |->
               [profile |-> built[m], next |-> built[m], running |-> built[m],
                booted |-> built[m], boot |-> 0, phase |-> "running"]]
  BY Zenon DEF Init
<1>3. host \in [Machine -> Host]
  BY <1>1, <1>2, BoundsAssumption DEF Host
<1>4. <<>> \in Seq(Machine)
  OBVIOUS
<1>5. plan \in Seq(Machine) /\ at \in 0..Len(plan) /\ DOMAIN plan = {}
  BY <1>2, <1>4
<1>6. runs \in 0..MaxRuns /\ faults \in 0..MaxFaults
  BY <1>2, BoundsAssumption
<1>7. TypeOK
  BY <1>1, <1>2, <1>3, <1>5, <1>6, BlankIsTyped DEF TypeOK, Pc
<1>8. PlanInv /\ BuiltInv /\ ProgressInv /\ SilentInv /\ BootInv
  BY <1>2, <1>5 DEF PlanInv, BuiltInv, ProgressInv, Late, SilentInv, BootInv
<1> QED BY <1>7, <1>8 DEF DeployInv, TypeInv

(* A step that changes nothing keeps it.                                   *)
LEMMA StutterInduction == ASSUME DeployInv, UNCHANGED vars PROVE DeployInv'
<1>1. /\ pc' = pc /\ outcome' = outcome /\ plan' = plan /\ at' = at /\ built' = built
      /\ mode' = mode /\ now' = now /\ flake' = flake /\ touched' = touched
      /\ rebooted' = rebooted /\ host' = host /\ runs' = runs /\ faults' = faults
  BY Zenon DEF vars, tool, past
<1>2. TypeOK'
  BY <1>1 DEF DeployInv, TypeInv, TypeOK
<1>3. \A m \in Machine : Untouched(m)
  BY <1>1, HostsStay
<1> QED BY <1>1, <1>2, <1>3, Stays

(* Every step keeps the invariant.                                         *)
LEMMA DeployInduction == ASSUME DeployInv, [Next]_vars PROVE DeployInv'
<1>1. CASE Step
  BY <1>1, StartInduction, BuildInduction, VisitInduction, AllDeployedInduction,
     AssessInduction, DecideInduction, EndInduction, CopyInduction, ProfileInduction,
     ActivateInduction, GoodbyeInduction, BootIdInduction, RebootInduction,
     ProbeInduction, StateInduction, VerifyInduction, Zenon DEF Step
<1>2. CASE Interrupt
  BY <1>2, EndInduction
<1>3. CASE \E m \in Machine : GoesDown(m) \/ Outage(m) \/ Boots(m) \/ Started(m)
  BY <1>3, MachineInduction
<1>4. CASE UNCHANGED vars
  BY <1>4, StutterInduction
<1> QED BY <1>1, <1>2, <1>3, <1>4, Zenon DEF Next

(* The invariant holds always.                                             *)
LEMMA DeployInvariant == Spec => []DeployInv
<1>1. Init => DeployInv
  BY InitInduction
<1>2. DeployInv /\ [Next]_vars => DeployInv'
  BY DeployInduction
<1> QED BY <1>1, <1>2, PTL DEF Spec

(* Every reachable state is well typed: each machine at hand is one of the *)
(* plan's.                                                                 *)
THEOREM DeployIsTyped == Spec => []TypeOK
<1>1. DeployInv => TypeOK
  BY DEF DeployInv, TypeInv
<1> QED BY <1>1, DeployInvariant, PTL

(* A later machine is only touched once every earlier one runs its system, *)
(* has it in the boot menu or has booted since, and a run that ends well   *)
(* leaves none behind (main.rs:75-123), whatever earlier runs, failures    *)
(* and outages have left.                                                  *)
THEOREM NoMachineIsLeftBehind == Spec => []MachineByMachine
<1>1. ASSUME DeployInv PROVE MachineByMachine
  <2>1. TypeOK /\ PlanInv
    BY <1>1 DEF DeployInv, TypeInv
  <2>2. DOMAIN plan = 1..Len(plan) /\ Len(plan) \in Nat /\ at \in Nat
    BY <2>1, PlannedIsMachine
  <2>3. ASSUME NEW i \in DOMAIN plan,
               outcome = "ok" \/ \E j \in DOMAIN plan : i < j /\ plan[j] \in touched
        PROVE  Deployed(plan[i])
    <3>1. CASE outcome = "ok"
      BY <1>1, <3>1 DEF DeployInv, ProgressInv, Late
    <3>2. CASE \E j \in DOMAIN plan : i < j /\ plan[j] \in touched
      <4>1. PICK j \in DOMAIN plan : i < j /\ plan[j] \in touched
        BY <3>2
      <4>2. j <= at + 1
        BY <1>1, <4>1 DEF DeployInv, ProgressInv, Late
      <4>3. i \in 1..at
        BY <2>2, <2>3, <4>1, <4>2
      <4> QED BY <1>1, <4>3 DEF DeployInv, ProgressInv, Late
    <3> QED BY <2>3, <3>1, <3>2
  <2> QED BY <2>3 DEF MachineByMachine, Deployed
<1> QED BY <1>1, DeployInvariant, PTL

(* A system that is activated without a question has the matched packages  *)
(* of what runs, and every structural link of it that at least one of the  *)
(* two lookups named: one failure only asks more, two of one link hide it  *)
(* (diff.rs:61-90).                                                        *)
THEOREM NothingIsSwitchedUnasked == Spec => []SilentSwitchIsSafe
<1>1. ASSUME DeployInv PROVE SilentSwitchIsSafe
  <2> SUFFICES ASSUME pc = "activate", mode = "ask", ~now.asked, Cur \notin rebooted
               PROVE  /\ \A l \in Link \ now.blind : Dest[host[Cur].running][l] = Dest[New][l]
                      /\ Matched[host[Cur].running] = Matched[New]
    BY Zenon DEF SilentSwitchIsSafe
  <2>1. host[Cur].running = now.old /\ Same(now.old, New)
    BY <1>1 DEF DeployInv, SilentInv
  <2> QED BY <2>1 DEF Same
<1> QED BY <1>1, DeployInvariant, PTL

(* The check after a reboot is on a later boot than the one that was told  *)
(* to go down, and the run goes on if and only if that boot is of the new  *)
(* system (activate.rs:62-104).                                            *)
THEOREM VerdictIsOnNewBoot == Spec => RebootVerdict
<1> DEFINE Verdict ==
      (pc = "verify" /\ pc' # pc /\ outcome' # "killed" /\ faults' = faults /\ Reachable(Cur))
       => /\ host[Cur].boot # now.boot
          /\ (pc' = "visit") <=> (host[Cur].booted = New)
<1>1. ASSUME DeployInv, [Next]_vars PROVE Verdict
  <2> SUFFICES ASSUME pc = "verify", pc' # pc, outcome' # "killed", faults' = faults,
                      Reachable(Cur)
               PROVE  /\ host[Cur].boot # now.boot
                      /\ (pc' = "visit") <=> (host[Cur].booted = New)
    OBVIOUS
  <2>1. at < Len(plan)
    BY <1>1, InHand
  <2>2. TypeOK /\ host[Cur] \in Host /\ now \in Decision
    BY <1>1, <2>1, AtHand
  <2>3. host[Cur].boot \in Nat /\ now.boot \in Nat /\ now.boot < host[Cur].boot
    BY <1>1, <2>2, BoundsAssumption DEF DeployInv, BootInv, Host, Decision
  <2>4. host[Cur].running = host[Cur].booted
    BY <1>1, <2>3 DEF DeployInv, BootInv
  <2>5. Verify
    <3>1. faults \in Nat
      BY <2>2, BoundsAssumption DEF TypeOK
    <3>2. faults' # faults + 1
      BY <3>1
    <3>3. ~Interrupt
      BY <3>2, Zenon DEF Interrupt
    <3>4. ~CommandFails
      BY <3>2, Zenon DEF CommandFails, Aborts, Fails, Unreachable
    <3>5. ASSUME NEW m \in Machine, GoesDown(m) \/ Outage(m) \/ Boots(m) \/ Started(m)
          PROVE  FALSE
      BY <3>5, Zenon DEF GoesDown, Outage, Boots, Started, Killed, End
    <3>6. Step
      BY <1>1, <3>3, <3>5, Zenon DEF Next, vars
    <3> QED BY <3>4, <3>6, Zenon
      DEF Step, Start, BuildToplevels, Visit, AllDeployed, Assess,
               Decide, Exit, CopyClosure, SetProfile, Activate, Goodbye, ReadBootId,
               Reboot, Probe, Deadline, AskState
  <2>6. (pc' = "visit") <=> (host[Cur].running = New)
    BY <2>5, Zenon DEF Verify, Done, Goto, End
  <2> QED BY <2>3, <2>4, <2>6
<1>2. Spec => [][Verdict]_vars
  BY <1>1, DeployInvariant, PTL DEF Spec
<1> QED BY <1>2 DEF RebootVerdict
=============================================================================
