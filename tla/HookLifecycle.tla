--------------------------- MODULE HookLifecycle ---------------------------
(***************************************************************************)
(* The life of one delegated build in nix-build-balancer: a hook process   *)
(* asks the controller where to build a derivation, the controller records *)
(* an admission, the hook writes its inflight sentinel, delegates, reports *)
(* and unlinks; the controller's watchdog walks the sentinels and retires  *)
(* what has outlived its TTL.  Hooks crash at any point, the controller    *)
(* crashes and is restarted, ADMISSION_FINISH frames and                   *)
(* EVENT_BUILD_FINISH frames are handled by tasks of their own and so      *)
(* arrive in any order, at any later time.                                 *)
(*                                                                         *)
(* A "try" is one candidate a hook puts to the controller.  The program    *)
(* has no number for it: `try` and `by` are history data, read by the      *)
(* properties and never by a guard.                                        *)
(***************************************************************************)
EXTENDS Integers, FiniteSets

CONSTANTS
  Drvs,         (* derivations                                             *)
  Hooks,        (* hook processes; a process id is never used again        *)
  NoHook,       (* the pid of a file that is not there                     *)
  NoDrv,        (* the derivation of a hook that has read no candidate     *)
  Predictions,  (* the predicted durations the scheduler can return, ticks *)
  TtlFloor,     (* the 60 s floor of the TTL, in clock ticks               *)
  MaxTries,     (* bound: candidates per derivation                        *)
  MaxFaults     (* bound: controller crashes and failed system calls       *)

ASSUME NothingAssumption == NoHook \notin Hooks /\ NoDrv \notin Drvs
ASSUME PredictionsAssumption == Predictions \subseteq Nat /\ IsFiniteSet(Predictions)
ASSUME TtlFloorAssumption == TtlFloor \in Nat
ASSUME BoundsAssumption == MaxTries \in Nat /\ MaxFaults \in Nat

VARIABLES
  ctl,          (* the controller process: "up" or "down"                  *)
  admissions,   (* the admissions table, one row per drv_path              *)
  decide,       (* each hook's DECIDE_CANDIDATE connection                 *)
  finishes,     (* ADMISSION_FINISH frames sent and not yet handled        *)
  events,       (* EVENT_BUILD_FINISH events not yet handled               *)
  hook,         (* each hook process                                       *)
  locals,       (* derivations Nix is building by itself                   *)
  sentinels,    (* /run/nbb/inflight/<hash>                                *)
  tmps,         (* /run/nbb/inflight/<hash>.tmp                            *)
  wdPc, wdTodo, wdCur,  (* the watchdog task: position, entries, entry     *)
  misread,      (* history: whose intact sentinel the sweep failed to read *)
  tried,        (* history: tries made for each derivation                 *)
  faults        (* history: faults so far                                  *)

ctlVars   == <<ctl, admissions>>
netVars   == <<decide, finishes, events>>
hookVars  == <<hook, locals, tried>>
fileVars  == <<sentinels, tmps>>
wdVars    == <<wdPc, wdTodo, wdCur, misread>>
vars == <<ctl, admissions, decide, finishes, events, hook, locals,
          sentinels, tmps, wdPc, wdTodo, wdCur, misread, tried, faults>>

----------------------------------------------------------------------------
(* Types *)

Tries == 1..MaxTries

RowKind == {"none", "local", "remote"}

Ttl(p) == IF 2 * p > TtlFloor THEN 2 * p ELSE TtlFloor

(* An age past every TTL: the clock stops telling ages apart there.        *)
Aged(n) == \A p \in Predictions : n > Ttl(p)

Row  == [kind : RowKind, predicted : Nat, age : Nat, by : Nat]
NoRow == [kind |-> "none", predicted |-> 0, age |-> 0, by |-> 0]

File   == [pid : Hooks \cup {NoHook}, try : Nat, full : BOOLEAN]
NoFile == [pid |-> NoHook, try |-> 0, full |-> FALSE]

HookPc == {"idle", "asked", "granted", "staging", "staged", "delegating",
           "accepted", "copying", "report", "closing", "exited", "dead"}

HookState == [pc : HookPc, drv : Drvs \cup {NoDrv}, try : Nat, committed : BOOLEAN]
FreshHook == [pc |-> "idle", drv |-> NoDrv, try |-> 0, committed |-> FALSE]

Signal == [drv : Drvs, try : Nat]

Entry == [kind : {"sentinel", "tmp"}, drv : Drvs]
NoEntry == [kind |-> "none", drv |-> NoDrv]

----------------------------------------------------------------------------
(* Helpers *)

Admitted(d) == admissions[d] # NoRow

(* kill(pid, 0) does not answer ESRCH.                                     *)
Alive(pid) == hook[pid].pc \notin {"exited", "dead"}

(* Between "the try is sent" and "the directive is out, or the process     *)
(* gone" Nix holds the output lock of the derivation; afterwards it holds  *)
(* it while it builds locally.                                             *)
HoldsLock(h) ==
  \/ hook[h].pc \in {"asked", "granted", "staging", "staged",
                     "delegating", "accepted", "copying"}
  \/ hook[h].pc \in {"report", "closing"} /\ hook[h].committed

Locked(d) == locals[d] # 0 \/ \E h \in Hooks : HoldsLock(h) /\ hook[h].drv = d

Goto(h, pc) == hook' = [hook EXCEPT ![h].pc = pc]

(* `# decline`: Nix builds the derivation itself and the hook reads on.    *)
DeclineToNix(h) ==
  /\ Goto(h, "idle")
  /\ locals' = [locals EXCEPT ![hook[h].drv] = hook[h].try]

(* Variant: retirement leaves the row to the next sweep.                   *)
RetireLater(d) ==
  admissions' = IF Admitted(d)
                THEN [admissions EXCEPT ![d].age = Ttl(admissions[d].predicted) + 1]
                ELSE admissions

Retire(d) == admissions' = [admissions EXCEPT ![d] = NoRow]

Fault == faults < MaxFaults /\ faults' = faults + 1

Init ==
  /\ ctl = "up"
  /\ admissions = [d \in Drvs |-> NoRow]
  /\ decide = [h \in Hooks |-> "none"]
  /\ finishes = {}
  /\ events = {}
  /\ hook = [h \in Hooks |-> FreshHook]
  /\ locals = [d \in Drvs |-> 0]
  /\ sentinels = [d \in Drvs |-> NoFile]
  /\ tmps = [d \in Drvs |-> NoFile]
  /\ wdPc = "idle" /\ wdTodo = {} /\ wdCur = NoEntry /\ misread = {}
  /\ tried = [d \in Drvs |-> 0]
  /\ faults = 0

----------------------------------------------------------------------------
(* The hook process: run_hook, handle_candidate *)

(* Nix writes a `try` to an idle hook, which opens a connection of its own *)
(* to the controller and sends DECIDE_CANDIDATE.  With the controller down *)
(* the connect fails.                                                      *)
AskController(h, d) ==
  /\ hook[h].pc = "idle"
  /\ tried[d] < MaxTries
  /\ ~Locked(d)
  /\ tried' = [tried EXCEPT ![d] = @ + 1]
  /\ hook' = [hook EXCEPT ![h] = [pc |-> "asked", drv |-> d, try |-> tried[d] + 1,
                                  committed |-> FALSE]]
  /\ decide' = [decide EXCEPT ![h] = IF ctl = "up" THEN "sent" ELSE "broken"]
  /\ UNCHANGED <<ctlVars, finishes, events, locals, fileVars, wdVars, faults>>

(* Variant: an error of ask_controller is left without a directive.        *)
HandleDeclineOnly(h) ==
  /\ hook[h].pc = "asked" /\ decide[h] = "decline"
  /\ decide' = [decide EXCEPT ![h] = "none"]
  /\ DeclineToNix(h)
  /\ UNCHANGED <<ctlVars, finishes, events, tried, fileVars, wdVars, faults>>

(* A Decline, or any error of ask_controller, is a decline to Nix.         *)
HandleDecline(h) ==
  /\ hook[h].pc = "asked"
  /\ decide[h] \in {"decline", "broken"}
  /\ decide' = [decide EXCEPT ![h] = "none"]
  /\ DeclineToNix(h)
  /\ UNCHANGED <<ctlVars, finishes, events, tried, fileVars, wdVars, faults>>

HandleAccept(h) ==
  /\ hook[h].pc = "asked"
  /\ decide[h] = "accept"
  /\ decide' = [decide EXCEPT ![h] = "none"]
  /\ Goto(h, "granted")
  /\ UNCHANGED <<ctlVars, finishes, events, locals, tried, fileVars, wdVars, faults>>

(* write_sentinel, in the three steps another process can see: the file    *)
(* created empty, its bytes written (to the open file, wherever its name   *)
(* went), the rename.                                                      *)
CreateTmp(h) ==
  /\ hook[h].pc = "granted"
  /\ tmps' = [tmps EXCEPT ![hook[h].drv] = [pid |-> h, try |-> hook[h].try, full |-> FALSE]]
  /\ Goto(h, "staging")
  /\ UNCHANGED <<ctlVars, netVars, locals, tried, sentinels, wdVars, faults>>

WriteTmp(h) ==
  /\ hook[h].pc = "staging"
  /\ tmps' = [tmps EXCEPT ![hook[h].drv] =
                IF @.pid = h THEN [pid |-> h, try |-> hook[h].try, full |-> TRUE] ELSE @]
  /\ Goto(h, "staged")
  /\ UNCHANGED <<ctlVars, netVars, locals, tried, sentinels, wdVars, faults>>

(* Variant: the hook goes on although the rename failed.                   *)
RenameTmpUnchecked(h) ==
  LET d == hook[h].drv IN
  /\ hook[h].pc = "staged"
  /\ sentinels' = [sentinels EXCEPT ![d] = IF tmps[d] # NoFile THEN tmps[d] ELSE @]
  /\ tmps' = [tmps EXCEPT ![d] = NoFile]
  /\ Goto(h, "delegating")
  /\ UNCHANGED <<ctlVars, netVars, locals, tried, wdVars, faults>>

RenameTmp(h) ==
  LET d == hook[h].drv IN
  /\ hook[h].pc = "staged"
  /\ tmps[d] # NoFile
  /\ sentinels' = [sentinels EXCEPT ![d] = tmps[d]]
  /\ tmps' = [tmps EXCEPT ![d] = NoFile]
  /\ Goto(h, "delegating")
  /\ UNCHANGED <<ctlVars, netVars, locals, tried, wdVars, faults>>

(* write_sentinel fails: the .tmp is gone when it is to be renamed, or a   *)
(* system call fails.  The hook declines and reports nothing.              *)
SentinelFails(h) ==
  /\ \/ hook[h].pc = "staged" /\ tmps[hook[h].drv] = NoFile /\ UNCHANGED faults
     \/ hook[h].pc \in {"granted", "staging"} /\ Fault
  /\ DeclineToNix(h)
  /\ UNCHANGED <<ctlVars, netVars, tried, fileVars, wdVars>>

(* delegate_remote_build ends without `# accept`: `nix __build-remote`     *)
(* could not be started, broke off, or declined.  After a `# postpone` Nix *)
(* does not build the derivation itself.                                   *)
ChildDeclines(h) ==
  /\ hook[h].pc = "delegating"
  /\ Goto(h, "report")
  /\ \/ locals' = [locals EXCEPT ![hook[h].drv] = hook[h].try]
     \/ UNCHANGED locals
  /\ UNCHANGED <<ctlVars, netVars, tried, fileVars, wdVars, faults>>

ChildAccepts(h) ==
  /\ hook[h].pc = "delegating"
  /\ hook' = [hook EXCEPT ![h].pc = "accepted", ![h].committed = TRUE]
  /\ UNCHANGED <<ctlVars, netVars, locals, tried, fileVars, wdVars, faults>>

OwnSignal(h) == [drv |-> hook[h].drv, try |-> hook[h].try]

(* The build on the target succeeds and runs its post-build-hook: the      *)
(* agent there has the finish in its spool, while the child here goes on   *)
(* and copies the outputs back.                                            *)
RemoteBuildSucceeds(h) ==
  /\ hook[h].pc = "accepted"
  /\ Goto(h, "copying")
  /\ events' = events \cup {OwnSignal(h)}
  /\ UNCHANGED <<ctlVars, decide, finishes, locals, tried, fileVars, wdVars, faults>>

(* The child exits: the outputs are here, or the build or the copy failed, *)
(* or no post-build-hook told the agent of it.                             *)
ChildExits(h) ==
  /\ hook[h].pc \in {"accepted", "copying"}
  /\ Goto(h, "report")
  /\ UNCHANGED <<ctlVars, netVars, locals, tried, fileVars, wdVars, faults>>

(* report_admission_finish: write the frame and close; errors are dropped. *)
ReportFinish(h) ==
  /\ hook[h].pc = "report"
  /\ Goto(h, "closing")
  /\ finishes' = IF ctl = "up"
                 THEN finishes \cup {OwnSignal(h)}
                 ELSE finishes
  /\ UNCHANGED <<ctlVars, decide, events, locals, tried, fileVars, wdVars, faults>>

(* Variant: the sentinel is unlinked after a committed build only.         *)
DropSentinelOfBuild(h) ==
  /\ hook[h].pc = "closing"
  /\ sentinels' = [sentinels EXCEPT ![hook[h].drv] = IF hook[h].committed THEN NoFile ELSE @]
  /\ Goto(h, IF hook[h].committed THEN "exited" ELSE "idle")
  /\ UNCHANGED <<ctlVars, netVars, locals, tried, tmps, wdVars, faults>>

(* SentinelGuard::drop, by path; then the hook exits if it had accepted a  *)
(* build and reads the next candidate otherwise.                           *)
DropSentinel(h) ==
  /\ hook[h].pc = "closing"
  /\ sentinels' = [sentinels EXCEPT ![hook[h].drv] = NoFile]
  /\ Goto(h, IF hook[h].committed THEN "exited" ELSE "idle")
  /\ UNCHANGED <<ctlVars, netVars, locals, tried, tmps, wdVars, faults>>

(* The hook is killed, during the copying too.  What it wrote to sockets   *)
(* and files stays.                                                        *)
HookCrash(h) ==
  /\ hook[h].pc \notin {"idle", "exited", "dead"}
  /\ Goto(h, "dead")
  /\ UNCHANGED <<ctlVars, netVars, locals, tried, fileVars, wdVars, faults>>

(* Nix's own build of a declined derivation ends; only a success runs the  *)
(* post-build-hook.                                                        *)
LocalBuildEnds(d) ==
  /\ locals[d] # 0
  /\ locals' = [locals EXCEPT ![d] = 0]
  /\ \/ events' = events \cup {[drv |-> d, try |-> locals[d]]}
     \/ UNCHANGED events
  /\ UNCHANGED <<ctlVars, decide, finishes, hook, tried, fileVars, wdVars, faults>>

----------------------------------------------------------------------------
(* The controller: make_decision, handle_hook_connection, record_finish    *)

(* The handler task of one DECIDE_CANDIDATE connection.  Which decision the *)
(* scheduler takes depends on telemetry and load and is left open here     *)
(* (module Routing has it); what is recorded and answered is not.  A       *)
(* database error closes the connection without an answer.  The hook may   *)
(* be dead by now: nothing here looks.                                     *)
Answer(h, a) == decide' = [decide EXCEPT ![h] = IF Alive(h) THEN a ELSE "none"]

(* Variant: the hook is told of a RouteLocal as if it were an answer.      *)
MakeDecisionRaw(h) ==
  /\ ctl = "up" /\ decide[h] = "sent"
  /\ \E kind \in {"local", "remote"}, p \in Predictions :
       /\ admissions' = [admissions EXCEPT ![hook[h].drv] =
                           [kind |-> kind, predicted |-> p, age |-> 0, by |-> hook[h].try]]
       /\ Answer(h, IF kind = "remote" THEN "accept" ELSE kind)
  /\ UNCHANGED <<ctl, finishes, events, hookVars, fileVars, wdVars, faults>>

MakeDecision(h) ==
  /\ ctl = "up" /\ decide[h] = "sent"
  /\ \/ Answer(h, "decline") /\ UNCHANGED <<admissions, faults>>
     \/ Answer(h, "broken") /\ Fault /\ UNCHANGED admissions
     \/ \E kind \in {"local", "remote"}, p \in Predictions :
          /\ admissions' = [admissions EXCEPT ![hook[h].drv] =
                              [kind |-> kind, predicted |-> p, age |-> 0, by |-> hook[h].try]]
          /\ Answer(h, IF kind = "remote" THEN "accept" ELSE "decline")
          /\ UNCHANGED faults
  /\ UNCHANGED <<ctl, finishes, events, hookVars, fileVars, wdVars>>

(* Retire by drv_path; on a database error the row stays and the message,  *)
(* with its connection, is lost.                                           *)
RetireOrLose(d) ==
  \/ Retire(d) /\ UNCHANGED faults
  \/ Fault /\ UNCHANGED admissions

(* The handler task of an ADMISSION_FINISH connection.                     *)
HandleAdmissionFinish(f) ==
  /\ ctl = "up" /\ f \in finishes
  /\ finishes' = finishes \ {f}
  /\ RetireOrLose(f.drv)
  /\ UNCHANGED <<ctl, decide, events, hookVars, fileVars, wdVars>>

(* record_finish: what it does to the admissions.                          *)
RecordFinish(e) ==
  /\ ctl = "up" /\ e \in events
  /\ events' = events \ {e}
  /\ RetireOrLose(e.drv)
  /\ UNCHANGED <<ctl, decide, finishes, hookVars, fileVars, wdVars>>

----------------------------------------------------------------------------
(* The watchdog: watchdog_tick = sweep_sentinels, then sweep_wall_clock_ttl *)

FileAt(e) == IF e.kind = "tmp" THEN tmps[e.drv] ELSE sentinels[e.drv]

(* read_dir takes every name in the directory, the .tmp names too.         *)
WatchdogTick ==
  /\ ctl = "up" /\ wdPc = "idle"
  /\ wdPc' = "sweep"
  /\ wdTodo' = {e \in Entry : FileAt(e) # NoFile}
  /\ UNCHANGED <<ctlVars, netVars, hookVars, fileVars, wdCur, misread, faults>>

(* Variant: every failure of kill(pid, 0) counts as death, EPERM too.      *)
PidIsDeadOnEperm(file) == TRUE

PidIsDead(file) == ~Alive(file.pid)

(* Variant: the sentinel of a dead hook is unlinked and nothing retired.   *)
ReadSentinelUnlinkOnly(e) ==
  /\ ctl = "up" /\ wdPc = "sweep" /\ e \in wdTodo
  /\ wdTodo' = wdTodo \ {e}
  /\ IF FileAt(e).full /\ Alive(FileAt(e).pid)
     THEN UNCHANGED <<wdPc, wdCur>>
     ELSE wdPc' = "unlink" /\ wdCur' = e
  /\ UNCHANGED <<ctlVars, netVars, hookVars, fileVars, misread, faults>>

(* read_sentinel on the next entry.  A file that is gone or holds only     *)
(* part of its bytes counts as corrupt, and so does an intact one that     *)
(* cannot be opened or read just now.                                      *)
ReadSentinel(e) ==
  /\ ctl = "up" /\ wdPc = "sweep" /\ e \in wdTodo
  /\ wdTodo' = wdTodo \ {e}
  /\ LET file == FileAt(e) IN
     \/ ~file.full /\ wdPc' = "unlink" /\ wdCur' = e /\ UNCHANGED <<misread, faults>>
     \/ /\ file.full /\ Fault /\ wdPc' = "unlink" /\ wdCur' = e
        /\ misread' = IF e.kind = "sentinel" THEN misread \cup {e.drv} ELSE misread
     \/ /\ file.full /\ PidIsDead(file) /\ wdPc' = "retire" /\ wdCur' = e
        /\ UNCHANGED <<misread, faults>>
     \/ file.full /\ ~PidIsDead(file) /\ UNCHANGED <<wdPc, wdCur, misread, faults>>
  /\ UNCHANGED <<ctlVars, netVars, hookVars, fileVars>>

(* Variant: the admission goes and the sentinel stays.                     *)
RetireDeadHookKeepFile ==
  /\ ctl = "up" /\ wdPc = "retire"
  /\ Retire(wdCur.drv) /\ wdPc' = "sweep" /\ wdCur' = NoEntry
  /\ UNCHANGED <<ctl, netVars, hookVars, fileVars, wdTodo, misread, faults>>

(* Waiting for the connection lock is over: retire by drv_path.  An error  *)
(* ends the whole tick, the TTL sweep with it.                             *)
RetireDeadHook ==
  /\ ctl = "up" /\ wdPc = "retire"
  /\ \/ Retire(wdCur.drv) /\ wdPc' = "unlink" /\ UNCHANGED <<wdTodo, wdCur, faults>>
     \/ Fault /\ wdPc' = "idle" /\ wdTodo' = {} /\ wdCur' = NoEntry /\ UNCHANGED admissions
  /\ UNCHANGED <<ctl, netVars, hookVars, fileVars, misread>>

(* remove_file, by path: whatever has that name now.  Its failure is       *)
(* ignored: the file is left to the next tick.                             *)
UnlinkSentinel ==
  /\ ctl = "up" /\ wdPc = "unlink"
  /\ \/ /\ wdCur.kind = "tmp" /\ tmps' = [tmps EXCEPT ![wdCur.drv] = NoFile]
        /\ UNCHANGED <<sentinels, faults>>
     \/ /\ wdCur.kind = "sentinel" /\ sentinels' = [sentinels EXCEPT ![wdCur.drv] = NoFile]
        /\ UNCHANGED <<tmps, faults>>
     \/ Fault /\ UNCHANGED fileVars
  /\ wdPc' = "sweep" /\ wdCur' = NoEntry
  /\ UNCHANGED <<ctlVars, netVars, hookVars, wdTodo, misread>>

(* Variant: the TTL is for delegated builds only.                          *)
StaleRemote(row) == row.kind = "remote" /\ row.age > Ttl(row.predicted)

Stale(row) == row.age > Ttl(row.predicted)

(* Row by row: an error leaves the rows after it for the next tick.        *)
SweepWallClockTtl ==
  /\ ctl = "up" /\ wdPc = "sweep" /\ wdTodo = {}
  /\ LET stale == {d \in Drvs : Stale(admissions[d])} IN
     \E gone \in SUBSET stale :
       /\ admissions' = [d \in Drvs |-> IF d \in gone THEN NoRow ELSE admissions[d]]
       /\ IF gone = stale THEN UNCHANGED faults ELSE Fault
  /\ wdPc' = "idle"
  /\ UNCHANGED <<ctl, netVars, hookVars, fileVars, wdTodo, wdCur, misread>>

----------------------------------------------------------------------------
(* Time, and the controller's own crashes *)

ClockTick ==
  /\ \E d \in Drvs : Admitted(d) /\ ~Aged(admissions[d].age)
  /\ admissions' = [d \in Drvs |->
       IF Admitted(d) /\ ~Aged(admissions[d].age)
       THEN [admissions[d] EXCEPT !.age = @ + 1] ELSE admissions[d]]
  /\ UNCHANGED <<ctl, netVars, hookVars, fileVars, wdVars, faults>>

(* Every task of the controller is gone, and what was on its connections:  *)
(* ADMISSION_FINISH frames, requests, and events an agent had written but  *)
(* the controller not yet handled.  systemd removes the unit's             *)
(* RuntimeDirectory, /run/nbb, with the sentinels in it.                   *)
ControllerCrash ==
  /\ ctl = "up" /\ Fault
  /\ ctl' = "down"
  /\ decide' = [h \in Hooks |-> IF decide[h] = "sent"
                                THEN IF Alive(h) THEN "broken" ELSE "none"
                                ELSE decide[h]]
  /\ finishes' = {}
  /\ events' \in SUBSET events
  /\ sentinels' = [d \in Drvs |-> NoFile]
  /\ tmps' = [d \in Drvs |-> NoFile]
  /\ wdPc' = "idle" /\ wdTodo' = {} /\ wdCur' = NoEntry
  /\ UNCHANGED <<admissions, hookVars, misread>>

(* open_state: clear_admissions before anything is served.                 *)
ControllerStart ==
  /\ ctl = "down"
  /\ ctl' = "up"
  /\ admissions' = [d \in Drvs |-> NoRow]
  /\ UNCHANGED <<netVars, hookVars, fileVars, wdVars, faults>>

----------------------------------------------------------------------------

HookNext(h) ==
  \/ \E d \in Drvs : AskController(h, d)
  \/ HandleDecline(h) \/ HandleAccept(h)
  \/ CreateTmp(h) \/ WriteTmp(h) \/ RenameTmp(h) \/ SentinelFails(h)
  \/ ChildDeclines(h) \/ ChildAccepts(h)
  \/ RemoteBuildSucceeds(h) \/ ChildExits(h)
  \/ ReportFinish(h) \/ DropSentinel(h) \/ HookCrash(h)

WatchdogNext ==
  \/ WatchdogTick
  \/ \E e \in Entry : ReadSentinel(e)
  \/ RetireDeadHook \/ UnlinkSentinel \/ SweepWallClockTtl

Next ==
  \/ \E h \in Hooks : HookNext(h) \/ MakeDecision(h)
  \/ \E f \in finishes : HandleAdmissionFinish(f)
  \/ \E e \in events : RecordFinish(e)
  \/ \E d \in Drvs : LocalBuildEnds(d)
  \/ WatchdogNext
  \/ ClockTick \/ ControllerCrash \/ ControllerStart

Spec == Init /\ [][Next]_vars

(* The watchdog's ticker never stops, tokio runs every ready task, systemd *)
(* restarts the unit, and a hook that is not killed goes on.               *)
HookProgress(h) ==
  \/ HandleDecline(h) \/ HandleAccept(h)
  \/ CreateTmp(h) \/ WriteTmp(h) \/ RenameTmp(h) \/ SentinelFails(h)
  \/ ReportFinish(h) \/ DropSentinel(h)

Fairness ==
  /\ WF_vars(WatchdogNext) /\ WF_vars(ControllerStart)
  /\ \A h \in Hooks : WF_vars(HookProgress(h)) /\ WF_vars(MakeDecision(h))

FairSpec == Spec /\ Fairness

----------------------------------------------------------------------------
(* Properties *)

(* Type correctness.                                                       *)
TypeOK ==
  /\ ctl \in {"up", "down"}
  /\ admissions \in [Drvs -> Row]
  /\ decide \in [Hooks -> {"none", "sent", "accept", "decline", "broken"}]
  /\ finishes \subseteq Signal /\ events \subseteq Signal
  /\ hook \in [Hooks -> HookState]
  /\ locals \in [Drvs -> Nat]
  /\ sentinels \in [Drvs -> File] /\ tmps \in [Drvs -> File]
  /\ wdPc \in {"idle", "sweep", "retire", "unlink"}
  /\ wdTodo \subseteq Entry /\ wdCur \in Entry \cup {NoEntry} /\ misread \subseteq Drvs
  /\ tried \in [Drvs -> 0..MaxTries] /\ faults \in 0..MaxFaults

(* A delegated build is in service from the rename of its sentinel to the  *)
(* end of the child, the copying of its outputs included.                  *)
InService(h) == hook[h].pc \in {"delegating", "accepted", "copying"}

Serves(h, d) == InService(h) /\ hook[h].drv = d

AdmittedFor(h, d) == Admitted(d) /\ admissions[d].by = hook[h].try

(* Positions at which a hook may have a sentinel on disk.                  *)
Answering == {"delegating", "accepted", "copying", "report", "closing", "dead"}

(* The directory holds no sentinel of a hook that has moved on: each is of *)
(* a hook still responsible for that very try, or of a dead one (the file  *)
(* is "unlinked on every exit path").                                      *)
NoForgottenSentinel ==
  \A d \in Drvs : LET pid == sentinels[d].pid IN
    pid # NoHook =>
      /\ hook[pid].drv = d /\ hook[pid].try = sentinels[d].try
      /\ hook[pid].pc \in Answering

(* While a derivation is put to the controller for the first time, the     *)
(* watchdog and the hook never get in each other's way: the admitted build *)
(* in service has its sentinel, complete, on disk, unless the sweep itself *)
(* failed to read it.                                                      *)
FirstTryIsGuarded ==
  \A h \in Hooks, d \in Drvs :
    Serves(h, d) /\ tried[d] = 1 /\ ctl = "up" /\ AdmittedFor(h, d)
      => \/ sentinels[d] = [pid |-> h, try |-> hook[h].try, full |-> TRUE]
         \/ d \in misread

(* The agent's word that the build of this very try has succeeded is       *)
(* handled, while the hook still copies its outputs back.                  *)
OwnFinishHandled(h) == hook[h].pc = "copying" /\ OwnSignal(h) \in events \ events'

(* ... and while the build is in service its admission goes only with the  *)
(* controller, by the TTL or, once the target has built it, by the word of *)
(* its own finish: no report and no sweep of a sentinel takes it, misread  *)
(* or not.                                                                 *)
FirstTryKeepsAdmission ==
  [][\A h \in Hooks, d \in Drvs :
       Serves(h, d) /\ tried[d] = 1 /\ AdmittedFor(h, d) /\ admissions'[d] = NoRow
         => ctl = "down" \/ Stale(admissions[d]) \/ OwnFinishHandled(h)]_vars

(* The sentinel at the path of d is that of a dead hook.                   *)
LeftByDead(d) == \E h \in Hooks : sentinels[d].pid = h /\ hook[h].pc = "dead"

(* What is left of a row's time to live; the sweep takes rows that are     *)
(* older than their TTL.                                                   *)
Left(row) == IF row = NoRow THEN -1
             ELSE IF row.age > Ttl(row.predicted) THEN 0
             ELSE Ttl(row.predicted) + 1 - row.age

TimesLeft == [d \in Drvs |-> Left(admissions[d])]

Ledger == INSTANCE AdmissionLedger
            WITH left <- TimesLeft, Lifetimes <- {Ttl(p) + 1 : p \in Predictions}

(* The table implements module AdmissionLedger: whatever hooks, agents and *)
(* networks do, a row only ages from its decision until it is retired or   *)
(* decided anew.                                                           *)
ImplementsLedger == Ledger!Spec

(* ... and a row past its TTL goes, if by nothing else then by the sweep,  *)
(* whatever crashed or failed before.                                      *)
OverdueRowsGo == Ledger!NoneStaysOverdue

(* The sentinel of a dead hook does not stay, though an error may end the  *)
(* tick before it or leave the file where it is.  (The next sentinel of    *)
(* that path is renamed into place by a hook that is alive.)               *)
DeadSentinelSwept == \A d \in Drvs : LeftByDead(d) ~> ~LeftByDead(d)

(* A hook that dies in the middle of a derivation's first delegated build  *)
(* is noticed by the sentinel sweep alone: its admission goes though no    *)
(* time need pass, so the TTL is no part of it.  Only a sentinel the sweep *)
(* failed to read leaves it to the TTL.                                    *)
FirstCrashSwept ==
  \A d \in Drvs :
    LeftByDead(d) /\ tried[d] = 1 /\ Admitted(d)
      ~> ~Admitted(d) \/ tried[d] > 1 \/ d \in misread

(* Nix never waits for an answer for ever: every candidate is delegated or *)
(* declined, or its hook is killed.                                        *)
EveryTryAnswered ==
  \A h \in Hooks : hook[h].pc \in {"asked", "granted", "staging", "staged"}
                     ~> hook[h].pc \in {"idle", "delegating", "dead"}

----------------------------------------------------------------------------
(* What the documents say and a second try of the same derivation refutes  *)

(* SPEC.md:195-197: the admissions are the authoritative load signal       *)
(* "because the controller knows exactly what it sent".  The admission of a *)
(* delegated build in service would go only with the controller, by the    *)
(* TTL or by its own finish, whatever earlier tries of that derivation     *)
(* left behind.                                                            *)
AdmissionsAreAuthoritative ==
  [][\A h \in Hooks, d \in Drvs :
       Serves(h, d) /\ AdmittedFor(h, d) /\ admissions'[d] = NoRow
         => ctl = "down" \/ Stale(admissions[d]) \/ OwnFinishHandled(h)]_vars

============================================================================
