------------------------------ MODULE NixDeploy ------------------------------
(***************************************************************************)
(* nix-deploy (tools/nix-deploy): one build for all machines, then machine *)
(* by machine what runs there is compared with what was built, and the new *)
(* system is copied, made the profile, activated, and booted if the user   *)
(* says so.  Every command is a step, since a machine can go down between  *)
(* any two, and the tool can be run again after a run that went wrong.     *)
(***************************************************************************)
EXTENDS Integers, Sequences, FiniteSets

CONSTANTS
  Machine,    \* the names in deploy.toml, numbered in alphabetical order
  Local,      \* those with `local = true`
  Toplevel,   \* system closures
  Revision,   \* what a state of the flake builds: [Machine -> Toplevel]
  NeedleIn,   \* NeedleIn[m]: the machines whose out path holds m's needle
  Link,       \* STRUCTURAL_LINKS
  Dest,       \* Dest[t][l]: what `readlink -f` makes of link l of closure t
  Absent,     \* no answer: the lookup failed
  Matched,    \* Matched[t]: the store names of t that a reboot pattern matches
  Timeout,    \* reboot_timeout_secs, in probes
  MaxRuns, MaxFaults, MaxBoots   \* bounds on runs, faults and boots per machine

ASSUME MachineAssumption ==
  /\ Machine \subseteq Nat /\ IsFiniteSet(Machine) /\ Local \subseteq Machine
  /\ Revision \subseteq [Machine -> Toplevel] /\ Revision # {}
  /\ NeedleIn \in [Machine -> SUBSET Machine] /\ Toplevel # {}
\* The host that the tool runs on is one machine.
ASSUME LocalAssumption == \A m, n \in Local : m = n
\* A needle that is in another machine's out path is in the machine's own too, since
\* the configuration of that name sets that host name.
ASSUME NeedleAssumption == \A m \in Machine : NeedleIn[m] # {} => m \in NeedleIn[m]
\* `readlink -f` names a file even where there is no link.
ASSUME AbsentAssumption == \A t \in Toplevel, l \in Link : Dest[t][l] # Absent
ASSUME BoundsAssumption ==
  Timeout \in Nat /\ MaxRuns \in Nat /\ MaxFaults \in Nat /\ MaxBoots \in Nat

VARIABLES
  pc,        \* the tool's place; "idle" between runs
  plan,      \* the machines of this run, in deploy order
  at,        \* how many of them are done with
  built,     \* machine -> out path of this run's build, as matched
  flake,     \* history: what the flake held for each machine when it was built
  mode,      \* --mode, or "ask"
  now,       \* what is known and decided about the machine at hand
  outcome,   \* how the last run ended
  host,      \* the machines themselves
  touched,   \* history: machines whose profile this run has set
  rebooted,  \* history: machines that booted during this run
  runs, faults

tool == <<plan, at, built, mode, now>>
past == <<flake, touched, rebooted, runs>>
vars == <<pc, tool, outcome, host, past, faults>>

Pc == {"idle", "build", "visit", "assess", "decide", "copy", "profile", "activate",
       "goodbye", "bootid", "reboot", "wait", "state", "verify"}

\* A machine: its profile, the default of its boot menu, /run/current-system, the
\* system it was booted into, its boot id, and whether it answers.
Host == [profile : Toplevel, next : Toplevel, running : Toplevel, booted : Toplevel,
         boot : 0..MaxBoots,
         phase : {"running", "starting", "going", "down"}]

\* /run/current-system as it was read; whether there are reasons to reboot and the
\* user was asked; the Action; the boot id before the reboot and the probes since.
\* `blind` is history: the links that neither lookup of the assessment named.
Decision == [old : Toplevel, reboot : BOOLEAN, blind : SUBSET Link, asked : BOOLEAN,
             action : {"switch", "boot", "reboot"}, boot : 0..MaxBoots, probes : 0..Timeout]

TypeOK ==
  /\ pc \in Pc
  /\ plan \in Seq(Machine) /\ at \in 0..Len(plan)
  /\ built \in [Machine -> Toplevel] /\ flake \in Revision
  /\ mode \in {"ask", "switch", "boot"}
  /\ now \in Decision
  /\ outcome \in {"none", "ok", "failed", "killed"}
  /\ host \in [Machine -> Host]
  /\ touched \subseteq Machine /\ rebooted \subseteq Machine
  /\ runs \in 0..MaxRuns /\ faults \in 0..MaxFaults

-----------------------------------------------------------------------------
(* The manifest, the build and the verdict. *)

\* Deploy order: by `order`, then by name.
Before(order, m, n) == order[m] < order[n] \/ (order[m] = order[n] /\ m < n)

\* parse refuses a manifest in which a remote machine follows a local one.
LocalsLastUnchecked(order) == TRUE   \* Variant: the order is taken as it comes.
LocalsLast(order) ==
  \A m \in Local, n \in Machine : Before(order, m, n) => n \in Local

\* No names select every machine.
Selected(requested) == IF requested = {} THEN Machine ELSE requested

\* The sequences that hold the machines of a set in deploy order: there is one.
Ordered(order, selected) ==
  {s \in [1..Cardinality(selected) -> selected] :
     \A i, j \in DOMAIN s : i < j => Before(order, s[i], s[j])}

\* A machine's out path is the only one with its needle, or else the one at its place.
MatchPath(m, paths) ==
  LET named == {i \in DOMAIN plan : plan[i] \in NeedleIn[m]} IN
  IF Cardinality(named) = 1 THEN paths[CHOOSE i \in named : TRUE]
  ELSE paths[CHOOSE i \in DOMAIN plan : plan[i] = m]

\* Variant: a link that cannot be looked up on both sides is no reason.
StructuralReasonsOfBoth(from, to, lostOld, lostNew) ==
  {l \in Link \ (lostOld \cup lostNew) : Dest[from][l] # Dest[to][l]}

\* A lookup that fails, of the old link on the machine (`lostOld`) or of the new one on
\* this host (`lostNew`), looks like a link that is not there; one that is not there
\* looks to readlink like a file of its own.  Two that fail look equal.
StructuralReasons(from, to, lostOld, lostNew) ==
  {l \in Link : (IF l \in lostOld THEN Absent ELSE Dest[from][l])
                 # (IF l \in lostNew THEN Absent ELSE Dest[to][l])}

PatternReasons(from, to) ==
  (Matched[from] \ Matched[to]) \cup (Matched[to] \ Matched[from])

-----------------------------------------------------------------------------
(* A run, and the machine at hand. *)

Cur == plan[at + 1]
New == built[Cur]
Blank == [old |-> CHOOSE t \in Toplevel : TRUE, reboot |-> FALSE, blind |-> {},
          asked |-> FALSE, action |-> "switch", boot |-> 0, probes |-> 0]
Reachable(m) == host[m].phase # "down"

Init ==
  /\ pc = "idle" /\ outcome = "none" /\ plan = <<>> /\ at = 0 /\ mode = "ask"
  /\ built \in Revision /\ flake = built
  /\ now = Blank
  /\ host = [m \in Machine |->
               [profile |-> built[m], next |-> built[m], running |-> built[m],
                booted |-> built[m], boot |-> 0, phase |-> "running"]]
  /\ touched = {} /\ rebooted = {} /\ runs = 0 /\ faults = 0

Goto(step) == pc' = step /\ UNCHANGED <<outcome, faults>>
End(result) == pc' = "idle" /\ outcome' = result

\* A command that fails ends the run: each error is propagated to main.
Fails == faults < MaxFaults /\ faults' = faults + 1 /\ End("failed")
Unreachable == ~Reachable(Cur) /\ UNCHANGED faults /\ End("failed")
Aborts == (Fails \/ Unreachable) /\ UNCHANGED <<tool, host, past>>

\* On to the next machine.
Done == /\ Goto("visit")
        /\ at' = at + 1 /\ now' = Blank
        /\ UNCHANGED <<plan, built, mode>>

Start ==
  /\ pc = "idle" /\ runs < MaxRuns
  /\ runs' = runs + 1 /\ touched' = {} /\ rebooted' = {}
  /\ \E order \in [Machine -> 1..Cardinality(Machine)], requested \in SUBSET Machine :
       /\ LocalsLast(order)
       /\ plan' \in Ordered(order, Selected(requested))
  /\ mode' \in {"ask", "switch", "boot"}
  /\ pc' = "build" /\ at' = 0 /\ outcome' = "none" /\ now' = Blank
  /\ UNCHANGED <<built, flake, host, faults>>

\* A failed build ends the run; nothing has been pushed yet.
BuildToplevels ==
  /\ pc = "build"
  /\ \/ /\ flake' \in Revision
        /\ LET paths == [i \in DOMAIN plan |-> flake'[plan[i]]] IN
             built' = [m \in Machine |-> IF \E i \in DOMAIN plan : plan[i] = m
                                       THEN MatchPath(m, paths) ELSE built[m]]
        /\ Goto("visit")
     \/ Fails /\ UNCHANGED <<built, flake>>
  /\ UNCHANGED <<plan, at, mode, now, host, touched, rebooted, runs>>

Visit ==
  /\ pc = "visit" /\ at < Len(plan) /\ Reachable(Cur)
  /\ IF host[Cur].running = New
     THEN Done
     ELSE /\ Goto("assess") /\ now' = [now EXCEPT !.old = host[Cur].running]
          /\ UNCHANGED <<plan, at, built, mode>>
  /\ UNCHANGED <<host, past>>

AllDeployed ==
  /\ pc = "visit" /\ at = Len(plan)
  /\ End("ok") /\ UNCHANGED <<tool, host, past, faults>>

\* Any number of the lookups may fail, here and on the machine; the listings of the two
\* closures must not.
Assess ==
  /\ pc = "assess" /\ Reachable(Cur)
  /\ \E lostOld, lostNew \in SUBSET Link :
       /\ lostOld \cup lostNew # {} => faults < MaxFaults
       /\ faults' = IF lostOld \cup lostNew = {} THEN faults ELSE faults + 1
       /\ now' = [now EXCEPT
            !.reboot = StructuralReasons(now.old, New, lostOld, lostNew) # {}
                         \/ PatternReasons(now.old, New) # {},
            !.blind = lostOld \cap lostNew]
  /\ pc' = "decide"
  /\ UNCHANGED <<plan, at, built, mode, outcome, host, past>>

\* --mode switch and --mode boot decide for every machine, reboot or not.
Forced == mode # "ask" /\ now' = [now EXCEPT !.action = mode]

SwitchesSilently == mode = "ask" /\ ~now.reboot /\ UNCHANGED now

Prompt == /\ mode = "ask" /\ now.reboot
          /\ \E answer \in {"switch", "boot", "reboot"} :
               now' = [now EXCEPT !.action = answer, !.asked = TRUE]

Decide ==
  /\ pc = "decide"
  /\ Forced \/ SwitchesSilently \/ Prompt
  /\ Goto("copy")
  /\ UNCHANGED <<plan, at, built, mode, host, past>>

\* The answer `exit`, and a prompt without a terminal, end the run like an error.
Exit ==
  /\ pc = "decide" /\ mode = "ask" /\ now.reboot
  /\ End("failed") /\ UNCHANGED <<tool, host, past, faults>>

CopyClosure ==
  /\ pc = "copy" /\ (Cur \in Local \/ Reachable(Cur))
  /\ Goto("profile") /\ UNCHANGED <<tool, host, past>>

SetProfile ==
  /\ pc = "profile" /\ Reachable(Cur)
  /\ host' = [host EXCEPT ![Cur].profile = New]
  /\ touched' = touched \cup {Cur}
  /\ Goto("activate") /\ UNCHANGED <<tool, flake, rebooted, runs>>

\* What follows the activation.
AfterActivation ==
  IF now.action # "reboot" THEN Done
  ELSE /\ Goto(IF Cur \in Local THEN "goodbye" ELSE "bootid")
       /\ UNCHANGED tool

\* switch-to-configuration: the boot entry first, then, for a switch, the running
\* system.  It may fail before, between and after.
Activate ==
  /\ pc = "activate" /\ Reachable(Cur)
  /\ LET entered  == [host EXCEPT ![Cur].next = New]
         switched == [entered EXCEPT ![Cur].running = New] IN
     \/ host' = (IF now.action = "switch" THEN switched ELSE entered) /\ AfterActivation
     \/ /\ host' \in {host, entered} \cup (IF now.action = "switch" THEN {switched} ELSE {})
        /\ Fails /\ UNCHANGED tool
  /\ UNCHANGED past

\* The local machine: the run ends with the reboot, whatever is left to do.
Goodbye ==
  /\ pc = "goodbye" /\ End("ok")
  /\ host' = [host EXCEPT ![Cur].phase = "going"]
  /\ UNCHANGED <<tool, past, faults>>

-----------------------------------------------------------------------------
(* reboot_and_wait. *)

ReadBootId ==
  /\ pc = "bootid" /\ Reachable(Cur)
  /\ now' = [now EXCEPT !.boot = host[Cur].boot]
  /\ Goto("reboot") /\ UNCHANGED <<plan, at, built, mode, host, past>>

\* Any error of `systemctl reboot` is expected, and so is its absence.
Reboot ==
  /\ pc = "reboot" /\ pc' = "wait"
  /\ \/ Reachable(Cur) /\ host' = [host EXCEPT ![Cur].phase = "going"] /\ UNCHANGED faults
     \/ ~Reachable(Cur) /\ UNCHANGED <<host, faults>>
     \/ faults < MaxFaults /\ faults' = faults + 1 /\ UNCHANGED host
  /\ UNCHANGED <<tool, outcome, past>>

\* Variant: the first answer counts, whichever boot gave it.
ProbeAny ==
  /\ pc = "wait" /\ now.probes < Timeout
  /\ now' = [now EXCEPT !.probes = @ + 1]
  /\ IF Reachable(Cur) THEN Goto("state") ELSE Goto("wait")
  /\ UNCHANGED <<plan, at, built, mode, host, past>>

\* Variant: nobody looks at the clock.
ProbeForEver ==
  /\ pc = "wait"
  /\ IF Reachable(Cur) /\ host[Cur].boot # now.boot THEN Goto("state") ELSE Goto("wait")
  /\ UNCHANGED <<tool, host, past>>

\* Five seconds later: another boot has answered, or not yet.
Probe ==
  /\ pc = "wait" /\ now.probes < Timeout
  /\ now' = [now EXCEPT !.probes = @ + 1]
  /\ \/ Reachable(Cur) /\ host[Cur].boot # now.boot /\ Goto("state")
     \/ ~Reachable(Cur) /\ Goto("wait")
     \/ Reachable(Cur) /\ (host[Cur].boot = now.boot \/ host[Cur].phase = "starting")
        /\ Goto("wait")
  /\ UNCHANGED <<plan, at, built, mode, host, past>>

Deadline ==
  /\ pc = "wait" /\ now.probes = Timeout
  /\ End("failed") /\ UNCHANGED <<tool, host, past, faults>>

\* `is-system-running --wait` answers once the machine has started, with no deadline;
\* `degraded` only earns a warning and counts as running here.
AskState ==
  /\ pc = "state" /\ host[Cur].phase = "running" /\ Goto("verify")
  /\ UNCHANGED <<tool, host, past>>

Verify ==
  /\ pc = "verify" /\ Reachable(Cur)
  /\ IF host[Cur].running = New THEN Done
     ELSE End("failed") /\ UNCHANGED <<tool, faults>>
  /\ UNCHANGED <<host, past>>

\* The commands whose failure ends the run.
CommandFails ==
  /\ pc \in {"visit", "assess", "copy", "profile", "activate", "goodbye", "bootid",
             "state", "verify"}
  /\ pc = "visit" => at < Len(plan)
  /\ pc = "copy" => Cur \notin Local
  /\ Aborts

Step ==
  \/ Start \/ BuildToplevels \/ Visit \/ AllDeployed \/ Assess \/ Decide \/ Exit
  \/ CopyClosure \/ SetProfile \/ Activate \/ Goodbye \/ ReadBootId \/ Reboot
  \/ Probe \/ Deadline \/ AskState \/ Verify \/ CommandFails

-----------------------------------------------------------------------------
(* The machines, and what happens to them unasked. *)

\* The tool runs on the local machine and dies with it, or is interrupted.
Killed == IF pc = "idle" THEN UNCHANGED <<pc, outcome>> ELSE End("killed")

Interrupt ==
  /\ pc # "idle" /\ faults < MaxFaults /\ faults' = faults + 1
  /\ Killed /\ UNCHANGED <<tool, host, past>>

GoesDown(m) ==
  /\ host[m].phase = "going"
  /\ host' = [host EXCEPT ![m].phase = "down"]
  /\ IF m \in Local THEN Killed ELSE UNCHANGED <<pc, outcome>>
  /\ UNCHANGED <<tool, past, faults>>

\* A power cut, or somebody else's reboot.
Outage(m) ==
  /\ host[m].phase \in {"running", "starting"}
  /\ faults < MaxFaults /\ faults' = faults + 1
  /\ host' = [host EXCEPT ![m].phase = "down"]
  /\ IF m \in Local THEN Killed ELSE UNCHANGED <<pc, outcome>>
  /\ UNCHANGED <<tool, past>>

\* The machine boots its default entry, or the one that runs now (a fallback).
Boots(m) ==
  /\ host[m].phase = "down" /\ host[m].boot < MaxBoots
  /\ \E t \in {host[m].next, host[m].running} :
       /\ t # host[m].next => faults < MaxFaults
       /\ faults' = IF t = host[m].next THEN faults ELSE faults + 1
       /\ host' = [host EXCEPT ![m].booted = t, ![m].running = t, ![m].boot = @ + 1,
                               ![m].phase = "starting"]
  /\ rebooted' = rebooted \cup {m}
  /\ UNCHANGED <<pc, outcome, tool, flake, touched, runs>>

Started(m) ==
  /\ host[m].phase = "starting"
  /\ host' = [host EXCEPT ![m].phase = "running"]
  /\ UNCHANGED <<pc, outcome, tool, past, faults>>

Next ==
  \/ Step
  \/ Interrupt
  \/ \E m \in Machine : GoesDown(m) \/ Outage(m) \/ Boots(m) \/ Started(m)

\* The tool goes on, and a machine that boots gets somewhere.
Fairness ==
  /\ WF_vars(pc # "idle" /\ Step)
  /\ \A m \in Machine : WF_vars(Started(m)) /\ WF_vars(GoesDown(m))

Spec == Init /\ [][Next]_vars
FairSpec == Spec /\ Fairness

-----------------------------------------------------------------------------
(* Properties. *)

\* Machine m runs what the flake held for it, or will after its next boot.
Has(m) == flake[m] \in {host[m].running, host[m].next}

\* A run that goes wrong stops before later machines are touched, and a run that ends
\* well leaves none behind, not even by the reboot of the local machine (main.rs:75,
\* manifest.rs:119).  A machine that boots by itself may have gone back to what its
\* boot menu says.
MachineByMachine ==
  \A i \in DOMAIN plan :
    (outcome = "ok" \/ \E j \in DOMAIN plan : i < j /\ plan[j] \in touched)
      => Has(plan[i]) \/ plan[i] \in rebooted

\* Nobody was asked: then the system that is switched away from has the kernel, the
\* initrd and the matched packages of the new one (diff.rs:61-90), unless the machine has
\* rebooted since it was looked at.  One lookup of a link that failed only asks more;
\* where both failed nothing is known of that link, and nobody is asked about it.
SilentSwitchIsSafe ==
  (pc = "activate" /\ mode = "ask" /\ ~now.asked /\ Cur \notin rebooted)
    => LET from == host[Cur].running IN
       /\ \A l \in Link \ now.blind : Dest[from][l] = Dest[New][l]
       /\ Matched[from] = Matched[New]

\* The verdict after a reboot is on the new boot, never on the one that had still to go
\* down, and the run goes on if and only if the built system was booted
\* (activate.rs:62-104).
RebootVerdict ==
  [][(pc = "verify" /\ pc' # pc /\ outcome' # "killed" /\ faults' = faults /\ Reachable(Cur))
       => /\ host[Cur].boot # now.boot
          /\ (pc' = "visit") <=> (host[Cur].booted = New)]_vars

\* Every run ends, however long machines stay away: a user who is asked answers.
RunEnds == pc # "idle" ~> pc = "idle"
=============================================================================
