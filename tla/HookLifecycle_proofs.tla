------------------------ MODULE HookLifecycle_proofs ------------------------
(***************************************************************************)
(* Proofs about HookLifecycle, for any derivations, hooks and bounds: the  *)
(* types, the sentinels and the ledger, and in the second half what a      *)
(* derivation's first try can rely on.                                     *)
(***************************************************************************)
EXTENDS HookLifecycle, TLAPS

(* A hook that is not idle deals with a derivation and knows which try.    *)
BusyHookHasTry ==
  \A h \in Hooks : hook[h].pc # "idle" =>
    hook[h].drv \in Drvs /\ hook[h].try \in 1..tried[hook[h].drv]

Typed == TypeOK /\ BusyHookHasTry

LEMMA NoRowIsRow == NoRow \in Row
  BY DEF NoRow, Row, RowKind

LEMMA NoFileIsFile == NoFile \in File
  BY DEF NoFile, File

LEMMA FreshHookIsHook == FreshHook \in HookState
  BY DEF FreshHook, HookState, HookPc

(* A hook that moves to another position keeps the rest.                   *)
LEMMA GotoKeeps ==
  ASSUME hook \in [Hooks -> HookState], NEW h \in Hooks, NEW pc \in HookPc, Goto(h, pc)
  PROVE  /\ hook' \in [Hooks -> HookState]
         /\ hook'[h].pc = pc
         /\ \A g \in Hooks : /\ hook'[g].drv = hook[g].drv /\ hook'[g].try = hook[g].try
                             /\ hook'[g].committed = hook[g].committed
         /\ \A g \in Hooks \ {h} : hook'[g] = hook[g]
  BY DEF Goto, HookState

(* ... and its candidate, if it had one.                                   *)
LEMMA GotoBusy ==
  ASSUME Typed, NEW h \in Hooks, NEW pc \in HookPc, Goto(h, pc), hook[h].pc # "idle",
         tried' = tried
  PROVE  hook' \in [Hooks -> HookState] /\ BusyHookHasTry'
<1>1. hook \in [Hooks -> HookState]
  BY DEF Typed, TypeOK
<1>2. \A g \in Hooks : hook[g].pc # "idle" =>
        hook[g].drv \in Drvs /\ hook[g].try \in 1..tried[hook[g].drv]
  BY DEF Typed, BusyHookHasTry
<1>3. \A g \in Hooks : hook'[g].pc # "idle" => hook[g].pc # "idle"
  BY <1>1, GotoKeeps
<1> QED
  BY <1>1, <1>2, <1>3, GotoKeeps DEF BusyHookHasTry

(* The hook that declines hands a number to Nix's own build.               *)
LEMMA LocalsTyped ==
  ASSUME Typed, NEW h \in Hooks, hook[h].pc # "idle",
         \/ locals' = [locals EXCEPT ![hook[h].drv] = hook[h].try]
         \/ locals' = locals
  PROVE  locals' \in [Drvs -> Nat]
<1>1. locals \in [Drvs -> Nat] /\ hook[h].try \in Nat
  BY DEF Typed, TypeOK, HookState
<1> QED
  BY <1>1

LEMMA TypeInduction == Spec => []Typed
<1>1. Init => Typed
  BY NoRowIsRow, NoFileIsFile, FreshHookIsHook, BoundsAssumption
  DEF Init, Typed, TypeOK, BusyHookHasTry, FreshHook
<1>2. Typed /\ [Next]_vars => Typed'
  <2> SUFFICES ASSUME Typed, [Next]_vars PROVE Typed'
    OBVIOUS
  <2> USE NoRowIsRow, NoFileIsFile, BoundsAssumption, PredictionsAssumption
      DEF Typed, TypeOK, BusyHookHasTry, ctlVars, netVars, hookVars, fileVars, wdVars
  <2>1. ASSUME NEW h \in Hooks, NEW d \in Drvs, AskController(h, d) PROVE Typed'
    BY <2>1 DEF AskController, HookState, HookPc
  <2>2. ASSUME NEW h \in Hooks, HandleDecline(h) PROVE Typed'
    <3>1. "idle" \in HookPc /\ hook[h].pc # "idle" /\ Goto(h, "idle") /\ tried' = tried
      BY <2>2 DEF HandleDecline, DeclineToNix, HookPc
    <3>2. hook' \in [Hooks -> HookState] /\ BusyHookHasTry'
      BY <3>1, GotoBusy
    <3>3. locals' \in [Drvs -> Nat]
      BY <2>2, <3>1, LocalsTyped DEF HandleDecline, DeclineToNix
    <3> QED
      BY <2>2, <3>2, <3>3 DEF HandleDecline
  <2>3. ASSUME NEW h \in Hooks, HandleAccept(h) PROVE Typed'
    BY <2>3, GotoKeeps DEF HandleAccept, HookPc
  <2>4. ASSUME NEW h \in Hooks, CreateTmp(h) PROVE Typed'
    <3>1. [pid |-> h, try |-> hook[h].try, full |-> FALSE] \in File
      BY DEF File, HookState
    <3>2. tmps' \in [Drvs -> File]
      BY <2>4, <3>1 DEF CreateTmp
    <3> QED
      BY <2>4, <3>2, GotoKeeps DEF CreateTmp, HookPc
  <2>5. ASSUME NEW h \in Hooks, WriteTmp(h) PROVE Typed'
    <3>1. [pid |-> h, try |-> hook[h].try, full |-> TRUE] \in File
      BY DEF File, HookState
    <3>2. tmps' \in [Drvs -> File]
      BY <2>5, <3>1 DEF WriteTmp
    <3> QED
      BY <2>5, <3>2, GotoKeeps DEF WriteTmp, HookPc
  <2>6. ASSUME NEW h \in Hooks, RenameTmp(h) PROVE Typed'
    BY <2>6, GotoKeeps DEF RenameTmp, HookPc
  <2>7. ASSUME NEW h \in Hooks, SentinelFails(h) PROVE Typed'
    <3>1. "idle" \in HookPc /\ hook[h].pc # "idle" /\ Goto(h, "idle") /\ tried' = tried
      BY <2>7 DEF SentinelFails, DeclineToNix, HookPc
    <3>2. hook' \in [Hooks -> HookState] /\ BusyHookHasTry'
      BY <3>1, GotoBusy
    <3>3. locals' \in [Drvs -> Nat]
      BY <2>7, <3>1, LocalsTyped DEF SentinelFails, DeclineToNix
    <3>4. faults' \in 0..MaxFaults
      BY <2>7 DEF SentinelFails, Fault
    <3> QED
      BY <2>7, <3>2, <3>3, <3>4 DEF SentinelFails
  <2>8. ASSUME NEW h \in Hooks, ChildDeclines(h) PROVE Typed'
    <3>1. "report" \in HookPc /\ hook[h].pc # "idle" /\ Goto(h, "report") /\ tried' = tried
      BY <2>8 DEF ChildDeclines, HookPc
    <3>2. hook' \in [Hooks -> HookState] /\ BusyHookHasTry'
      BY <3>1, GotoBusy
    <3>3. locals' \in [Drvs -> Nat]
      BY <2>8, <3>1, LocalsTyped DEF ChildDeclines
    <3> QED
      BY <2>8, <3>2, <3>3 DEF ChildDeclines
  <2>9. ASSUME NEW h \in Hooks, ChildAccepts(h) PROVE Typed'
    BY <2>9 DEF ChildAccepts, HookPc, HookState
  <2>10. ASSUME NEW h \in Hooks, RemoteBuildSucceeds(h) PROVE Typed'
    <3>1. "copying" \in HookPc /\ hook[h].pc # "idle" /\ Goto(h, "copying") /\ tried' = tried
      BY <2>10 DEF RemoteBuildSucceeds, HookPc
    <3>2. hook' \in [Hooks -> HookState] /\ BusyHookHasTry'
      BY <3>1, GotoBusy
    <3>3. OwnSignal(h) \in Signal
      BY <3>1 DEF OwnSignal, Signal, HookState
    <3> QED
      BY <2>10, <3>2, <3>3 DEF RemoteBuildSucceeds
  <2>11. ASSUME NEW h \in Hooks, ReportFinish(h) PROVE Typed'
    <3>1. "closing" \in HookPc /\ hook[h].pc # "idle" /\ Goto(h, "closing") /\ tried' = tried
      BY <2>11 DEF ReportFinish, HookPc
    <3>2. hook' \in [Hooks -> HookState] /\ BusyHookHasTry'
      BY <3>1, GotoBusy
    <3>3. OwnSignal(h) \in Signal
      BY <3>1 DEF OwnSignal, Signal, HookState
    <3> QED
      BY <2>11, <3>2, <3>3 DEF ReportFinish
  <2>12. ASSUME NEW h \in Hooks, DropSentinel(h) PROVE Typed'
    BY <2>12, GotoKeeps DEF DropSentinel, HookPc
  <2>13. ASSUME NEW h \in Hooks, HookCrash(h) PROVE Typed'
    <3>1. "dead" \in HookPc /\ hook[h].pc # "idle" /\ Goto(h, "dead") /\ tried' = tried
      BY <2>13 DEF HookCrash, HookPc
    <3>2. hook' \in [Hooks -> HookState] /\ BusyHookHasTry'
      BY <3>1, GotoBusy
    <3> QED
      BY <2>13, <3>2 DEF HookCrash
  <2>14. ASSUME NEW d \in Drvs, LocalBuildEnds(d) PROVE Typed'
    BY <2>14 DEF LocalBuildEnds, Signal
  <2>15. ASSUME NEW h \in Hooks, MakeDecision(h) PROVE Typed'
    <3>1. decide' \in [Hooks -> {"none", "sent", "accept", "decline", "broken"}]
      BY <2>15 DEF MakeDecision, Answer
    <3>2. admissions' \in [Drvs -> Row]
      <4>1. CASE UNCHANGED admissions
        BY <4>1
      <4>2. ASSUME NEW kind \in {"local", "remote"}, NEW p \in Predictions,
                   admissions' = [admissions EXCEPT ![hook[h].drv] =
                     [kind |-> kind, predicted |-> p, age |-> 0, by |-> hook[h].try]]
            PROVE  admissions' \in [Drvs -> Row]
        <5>1. [kind |-> kind, predicted |-> p, age |-> 0, by |-> hook[h].try] \in Row
          BY DEF Row, RowKind, HookState
        <5> QED
          BY <4>2, <5>1
      <4> QED
        BY <2>15, <4>1, <4>2 DEF MakeDecision
    <3>3. faults' \in 0..MaxFaults
      <4>1. faults' = faults \/ Fault
        BY <2>15, Zenon DEF MakeDecision
      <4> QED
        BY <4>1 DEF Fault
    <3> QED
      BY <2>15, <3>1, <3>2, <3>3 DEF MakeDecision
  <2>16. ASSUME NEW f \in finishes, HandleAdmissionFinish(f) PROVE Typed'
    BY <2>16 DEF HandleAdmissionFinish, RetireOrLose, Retire, Fault, Signal
  <2>17. ASSUME NEW e \in events, RecordFinish(e) PROVE Typed'
    BY <2>17 DEF RecordFinish, RetireOrLose, Retire, Fault, Signal
  <2>18. ASSUME WatchdogTick PROVE Typed'
    BY <2>18 DEF WatchdogTick
  <2>19. ASSUME NEW e \in Entry, ReadSentinel(e) PROVE Typed'
    BY <2>19 DEF ReadSentinel, Fault, Entry
  <2>20. ASSUME RetireDeadHook PROVE Typed'
    BY <2>20 DEF RetireDeadHook, Retire, Fault
  <2>21. ASSUME UnlinkSentinel PROVE Typed'
    BY <2>21 DEF UnlinkSentinel, Fault
  <2>22. ASSUME SweepWallClockTtl PROVE Typed'
    BY <2>22 DEF SweepWallClockTtl, Fault
  <2>23. ASSUME ClockTick PROVE Typed'
    BY <2>23 DEF ClockTick, Row
  <2>24. ASSUME ControllerCrash PROVE Typed'
    BY <2>24 DEF ControllerCrash, Fault
  <2>25. ASSUME ControllerStart PROVE Typed'
    BY <2>25 DEF ControllerStart
  <2>26. ASSUME NEW h \in Hooks, ChildExits(h) PROVE Typed'
    BY <2>26, GotoKeeps DEF ChildExits, HookPc, HookState
  <2>27. ASSUME UNCHANGED vars PROVE Typed'
    BY <2>27 DEF vars
  <2>28. QED
    BY <2>1, <2>2, <2>3, <2>4, <2>5, <2>6, <2>7, <2>8, <2>9, <2>10, <2>11, <2>12,
        <2>13, <2>14, <2>15, <2>16, <2>17, <2>18, <2>19, <2>20, <2>21, <2>22, <2>23,
        <2>24, <2>25, <2>26, <2>27
    DEF Next, HookNext, WatchdogNext
<1>3. QED
  BY <1>1, <1>2, PTL DEF Spec

THEOREM TypeCorrect == Spec => []TypeOK
  BY TypeInduction, PTL DEF Typed


----------------------------------------------------------------------------
(* NoForgottenSentinel is not inductive by itself: a rename makes a file   *)
(* of the directory a sentinel, so what is in the .tmp must be known, and  *)
(* nobody else may have put it there, so who holds Nix's lock must be.     *)

(* Nix's output lock excludes.                                             *)
LockExcludes ==
  \A g, h \in Hooks : HoldsLock(g) /\ HoldsLock(h) /\ hook[g].drv = hook[h].drv => g = h

(* The .tmp of a hook that is writing its sentinel is its own, if the      *)
(* sweep has not taken it.                                                 *)
StagedTmpIsOwn ==
  \A h \in Hooks : hook[h].pc \in {"staging", "staged"} =>
    \/ tmps[hook[h].drv] = NoFile
    \/ /\ tmps[hook[h].drv].pid = h /\ tmps[hook[h].drv].try = hook[h].try
       /\ tmps[hook[h].drv].full <=> hook[h].pc = "staged"

SentinelInv == Typed /\ LockExcludes /\ StagedTmpIsOwn /\ NoForgottenSentinel

(* Positions to which a hook can move without taking the lock.             *)
TakesNoLock(h, pc) ==
  \/ pc = "idle" \/ pc = "dead"
  \/ pc = "closing" /\ hook[h].committed = FALSE

(* Only AskController takes the lock: every other step leaves a hook's lock *)
(* and derivation alone or gives the lock up.                              *)
LEMMA LockKept ==
  ASSUME LockExcludes,
         \A h \in Hooks : HoldsLock(h)' => HoldsLock(h) /\ hook'[h].drv = hook[h].drv
  PROVE  LockExcludes'
  BY DEF LockExcludes

(* A step that moves one hook, and leaves the files alone, endangers only  *)
(* what is said of that hook.                                              *)
LEMMA MoveKeepsFiles ==
  ASSUME SentinelInv, NEW h \in Hooks, NEW pc \in HookPc, UNCHANGED fileVars,
         \A g \in Hooks \ {h} : hook'[g] = hook[g],
         hook'[h].pc = pc, hook'[h].drv = hook[h].drv, hook'[h].try = hook[h].try,
         pc \notin {"staging", "staged"},
         hook[h].pc \in Answering
           => pc \in Answering
  PROVE  StagedTmpIsOwn' /\ NoForgottenSentinel'
<1>1. sentinels' = sentinels /\ tmps' = tmps
  BY DEF fileVars
<1>2. StagedTmpIsOwn'
  BY <1>1 DEF SentinelInv, StagedTmpIsOwn, Typed, TypeOK
<1>3. NoForgottenSentinel'
  <2> SUFFICES ASSUME NEW d \in Drvs, sentinels[d].pid # NoHook
               PROVE  LET pid == sentinels[d].pid IN
                      /\ hook'[pid].drv = d /\ hook'[pid].try = sentinels[d].try
                      /\ hook'[pid].pc \in Answering
    BY <1>1 DEF NoForgottenSentinel
  <2>1. sentinels[d].pid \in Hooks
    BY DEF SentinelInv, Typed, TypeOK, File
  <2>2. LET pid == sentinels[d].pid IN
        hook[pid].drv = d /\ hook[pid].try = sentinels[d].try /\ hook[pid].pc \in Answering
    BY DEF SentinelInv, NoForgottenSentinel
  <2> QED
    BY <2>1, <2>2
<1> QED
  BY <1>2, <1>3

(* A step of no hook, which at most takes files away, endangers nothing.   *)
LEMMA UnlinkKeepsFiles ==
  ASSUME SentinelInv, UNCHANGED hook,
         \A d \in Drvs : sentinels'[d] \in {sentinels[d], NoFile},
         \A d \in Drvs : tmps'[d] \in {tmps[d], NoFile}
  PROVE  LockExcludes' /\ StagedTmpIsOwn' /\ NoForgottenSentinel'
<1>1. LockExcludes'
  BY DEF SentinelInv, LockExcludes, HoldsLock
<1>2. StagedTmpIsOwn'
  <2> SUFFICES ASSUME NEW h \in Hooks, hook[h].pc \in {"staging", "staged"}
               PROVE  \/ tmps'[hook[h].drv] = NoFile
                      \/ /\ tmps'[hook[h].drv].pid = h /\ tmps'[hook[h].drv].try = hook[h].try
                         /\ tmps'[hook[h].drv].full <=> hook[h].pc = "staged"
    BY DEF StagedTmpIsOwn
  <2>1. hook[h].drv \in Drvs
    BY DEF SentinelInv, Typed, BusyHookHasTry
  <2> QED
    BY <2>1 DEF SentinelInv, StagedTmpIsOwn
<1>3. NoForgottenSentinel'
  BY DEF SentinelInv, NoForgottenSentinel, NoFile
<1> QED
  BY <1>1, <1>2, <1>3

LEMMA SentinelInduction == Spec => []SentinelInv
<1>1. Init => LockExcludes /\ StagedTmpIsOwn /\ NoForgottenSentinel
  BY
    DEF Init, LockExcludes, HoldsLock, StagedTmpIsOwn, NoForgottenSentinel, FreshHook,
        NoFile
<1>2. SentinelInv /\ Typed' /\ [Next]_vars
        => LockExcludes' /\ StagedTmpIsOwn' /\ NoForgottenSentinel'
  <2> SUFFICES ASSUME SentinelInv, Typed', [Next]_vars
               PROVE  LockExcludes' /\ StagedTmpIsOwn' /\ NoForgottenSentinel'
    OBVIOUS
  <2> DEFINE Kept == LockExcludes' /\ StagedTmpIsOwn' /\ NoForgottenSentinel'
  <2>t. /\ Typed /\ LockExcludes /\ StagedTmpIsOwn /\ NoForgottenSentinel
        /\ hook \in [Hooks -> HookState]
        /\ sentinels \in [Drvs -> File] /\ tmps \in [Drvs -> File]
        /\ BusyHookHasTry
    BY DEF SentinelInv, Typed, TypeOK
  <2>1. ASSUME NEW h \in Hooks, NEW d \in Drvs, AskController(h, d) PROVE Kept
    <3>1. /\ hook'[h] = [pc |-> "asked", drv |-> d, try |-> tried[d] + 1, committed |-> FALSE]
          /\ \A g \in Hooks \ {h} : hook'[g] = hook[g]
          /\ hook[h].pc = "idle" /\ ~Locked(d)
          /\ sentinels' = sentinels /\ tmps' = tmps
      BY <2>1, <2>t DEF AskController, fileVars
    <3>2. LockExcludes'
      BY <3>1, <2>t DEF LockExcludes, HoldsLock, Locked
    <3>3. StagedTmpIsOwn'
      BY <3>1, <2>t DEF StagedTmpIsOwn
    <3>4. NoForgottenSentinel'
      BY <3>1, <2>t DEF NoForgottenSentinel, Answering, File
    <3> QED
      BY <3>2, <3>3, <3>4
  <2>2. ASSUME NEW h \in Hooks, NEW pc \in HookPc, Goto(h, pc), UNCHANGED fileVars,
               pc \notin {"staging", "staged"},
               hook[h].pc \in Answering
                 => pc \in Answering,
               ~HoldsLock(h) => TakesNoLock(h, pc)
        PROVE  Kept
    <3>1. /\ hook'[h].pc = pc
          /\ \A g \in Hooks : /\ hook'[g].drv = hook[g].drv /\ hook'[g].try = hook[g].try
                              /\ hook'[g].committed = hook[g].committed
          /\ \A g \in Hooks \ {h} : hook'[g] = hook[g]
      BY <2>2, <2>t, GotoKeeps
    <3>2. HoldsLock(h)' => HoldsLock(h)
      <4>1. CASE HoldsLock(h)
        BY <4>1
      <4>2. CASE pc \in {"idle", "dead"}
        BY <4>2, <3>1 DEF HoldsLock
      <4>3. CASE pc = "closing" /\ hook[h].committed = FALSE
        <5>1. hook'[h].committed = FALSE
          BY <4>3, <3>1
        <5> QED
          BY <5>1, <4>3, <3>1 DEF HoldsLock
      <4> QED
        BY <2>2, <4>1, <4>2, <4>3 DEF TakesNoLock
    <3>3. \A g \in Hooks \ {h} : HoldsLock(g)' => HoldsLock(g)
      BY <3>1 DEF HoldsLock
    <3>4. LockExcludes'
      BY <3>1, <3>2, <3>3, <2>t, LockKept
    <3> QED
      BY <3>1, <3>4, <2>2, MoveKeepsFiles
  <2>3. ASSUME NEW h \in Hooks, HandleDecline(h) PROVE Kept
    <3>1. TakesNoLock(h, "idle")
      BY DEF TakesNoLock
    <3> QED
      BY <2>3, <3>1, <2>2 DEF HandleDecline, DeclineToNix, HookPc, Answering
  <2>4. ASSUME NEW h \in Hooks, HandleAccept(h) PROVE Kept
    BY <2>4, <2>2 DEF HandleAccept, HookPc, HoldsLock, Answering
  <2>5. ASSUME NEW h \in Hooks, CreateTmp(h) PROVE Kept
    <3> DEFINE d == hook[h].drv
               mine == [pid |-> h, try |-> hook[h].try, full |-> FALSE]
    <3>1. /\ hook[h].pc = "granted" /\ d \in Drvs
          /\ hook'[h].pc = "staging"
          /\ \A g \in Hooks : /\ hook'[g].drv = hook[g].drv /\ hook'[g].try = hook[g].try
                              /\ hook'[g].committed = hook[g].committed
          /\ \A g \in Hooks \ {h} : hook'[g] = hook[g]
          /\ sentinels' = sentinels
          /\ tmps'[d] = mine /\ \A c \in Drvs \ {d} : tmps'[c] = tmps[c]
      BY <2>5, <2>t, GotoKeeps DEF CreateTmp, HookPc, BusyHookHasTry
    <3>2. LockExcludes'
      BY <3>1, <2>t, LockKept DEF HoldsLock
    <3>3. StagedTmpIsOwn'
      <4> SUFFICES ASSUME NEW g \in Hooks, hook'[g].pc \in {"staging", "staged"}
                   PROVE  \/ tmps'[hook'[g].drv] = NoFile
                          \/ /\ tmps'[hook'[g].drv].pid = g
                             /\ tmps'[hook'[g].drv].try = hook'[g].try
                             /\ tmps'[hook'[g].drv].full <=> hook'[g].pc = "staged"
        BY DEF StagedTmpIsOwn
      <4>1. CASE g = h
        BY <4>1, <3>1
      <4>2. CASE g # h
        <5>1. hook[g].drv # d /\ hook[g].drv \in Drvs
          BY <4>2, <3>1, <2>t DEF LockExcludes, HoldsLock, BusyHookHasTry
        <5> QED
          BY <5>1, <4>2, <3>1, <2>t DEF StagedTmpIsOwn
      <4> QED
        BY <4>1, <4>2
    <3>4. NoForgottenSentinel'
      BY <3>1, <2>t DEF NoForgottenSentinel, Answering, File
    <3> QED
      BY <3>2, <3>3, <3>4
  <2>6. ASSUME NEW h \in Hooks, WriteTmp(h) PROVE Kept
    <3> DEFINE d == hook[h].drv
               mine == [pid |-> h, try |-> hook[h].try, full |-> TRUE]
    <3>1. /\ hook[h].pc = "staging" /\ d \in Drvs
          /\ hook'[h].pc = "staged"
          /\ \A g \in Hooks : /\ hook'[g].drv = hook[g].drv /\ hook'[g].try = hook[g].try
                              /\ hook'[g].committed = hook[g].committed
          /\ \A g \in Hooks \ {h} : hook'[g] = hook[g]
          /\ sentinels' = sentinels
          /\ tmps'[d] = (IF tmps[d].pid = h THEN mine ELSE tmps[d])
          /\ \A c \in Drvs \ {d} : tmps'[c] = tmps[c]
      BY <2>6, <2>t, GotoKeeps DEF WriteTmp, HookPc, BusyHookHasTry
    <3>2. LockExcludes'
      BY <3>1, <2>t, LockKept DEF HoldsLock
    <3>3. StagedTmpIsOwn'
      <4> SUFFICES ASSUME NEW g \in Hooks, hook'[g].pc \in {"staging", "staged"}
                   PROVE  \/ tmps'[hook'[g].drv] = NoFile
                          \/ /\ tmps'[hook'[g].drv].pid = g
                             /\ tmps'[hook'[g].drv].try = hook'[g].try
                             /\ tmps'[hook'[g].drv].full <=> hook'[g].pc = "staged"
        BY DEF StagedTmpIsOwn
      <4>1. CASE g = h
        <5>1. tmps[d] = NoFile \/ tmps[d].pid = h
          BY <3>1, <2>t DEF StagedTmpIsOwn
        <5> QED
          BY <5>1, <4>1, <3>1
      <4>2. CASE g # h
        <5>1. hook[g].drv # d /\ hook[g].drv \in Drvs
          BY <4>2, <3>1, <2>t DEF LockExcludes, HoldsLock, BusyHookHasTry
        <5> QED
          BY <5>1, <4>2, <3>1, <2>t DEF StagedTmpIsOwn
      <4> QED
        BY <4>1, <4>2
    <3>4. NoForgottenSentinel'
      BY <3>1, <2>t DEF NoForgottenSentinel, Answering, File
    <3> QED
      BY <3>2, <3>3, <3>4
  <2>7. ASSUME NEW h \in Hooks, RenameTmp(h) PROVE Kept
    <3> DEFINE d == hook[h].drv
    <3>1. /\ hook[h].pc = "staged" /\ d \in Drvs /\ tmps[d] # NoFile
          /\ hook'[h].pc = "delegating"
          /\ \A g \in Hooks : /\ hook'[g].drv = hook[g].drv /\ hook'[g].try = hook[g].try
                              /\ hook'[g].committed = hook[g].committed
          /\ \A g \in Hooks \ {h} : hook'[g] = hook[g]
          /\ sentinels'[d] = tmps[d] /\ \A c \in Drvs \ {d} : sentinels'[c] = sentinels[c]
          /\ tmps'[d] = NoFile /\ \A c \in Drvs \ {d} : tmps'[c] = tmps[c]
      BY <2>7, <2>t, GotoKeeps DEF RenameTmp, HookPc, BusyHookHasTry
    <3>2. LockExcludes'
      BY <3>1, <2>t, LockKept DEF HoldsLock
    <3>3. StagedTmpIsOwn'
      BY <3>1, <2>t DEF StagedTmpIsOwn, BusyHookHasTry
    <3>4. tmps[d].pid = h /\ tmps[d].try = hook[h].try
      BY <3>1, <2>t DEF StagedTmpIsOwn
    <3>5. NoForgottenSentinel'
      <4> SUFFICES ASSUME NEW c \in Drvs, sentinels'[c].pid # NoHook
                   PROVE  LET pid == sentinels'[c].pid IN
                          /\ hook'[pid].drv = c /\ hook'[pid].try = sentinels'[c].try
                          /\ hook'[pid].pc \in Answering
        BY DEF NoForgottenSentinel
      <4>1. CASE c = d
        BY <4>1, <3>1, <3>4 DEF Answering
      <4>2. CASE c # d
        BY <4>2, <3>1, <2>t DEF NoForgottenSentinel, Answering, File
      <4> QED
        BY <4>1, <4>2
    <3> QED
      BY <3>2, <3>3, <3>5
  <2>8. ASSUME NEW h \in Hooks, SentinelFails(h) PROVE Kept
    <3>1. TakesNoLock(h, "idle")
      BY DEF TakesNoLock
    <3> QED
      BY <2>8, <3>1, <2>2 DEF SentinelFails, DeclineToNix, HookPc, Answering
  <2>9. ASSUME NEW h \in Hooks, ChildDeclines(h) PROVE Kept
    BY <2>9, <2>2 DEF ChildDeclines, HookPc, HoldsLock, Answering
  <2>10. ASSUME NEW h \in Hooks, ChildAccepts(h) PROVE Kept
    <3>1. /\ hook[h].pc = "delegating" /\ hook'[h].pc = "accepted"
          /\ \A g \in Hooks : hook'[g].drv = hook[g].drv /\ hook'[g].try = hook[g].try
          /\ \A g \in Hooks \ {h} : hook'[g] = hook[g]
          /\ UNCHANGED fileVars
      BY <2>10, <2>t DEF ChildAccepts, HookState
    <3>2. LockExcludes'
      BY <3>1, <2>t, LockKept DEF HoldsLock
    <3> QED
      BY <3>1, <3>2, MoveKeepsFiles DEF HookPc, Answering
  <2>11. ASSUME NEW h \in Hooks, RemoteBuildSucceeds(h) \/ ChildExits(h) PROVE Kept
    BY <2>11, <2>2 DEF RemoteBuildSucceeds, ChildExits, HookPc, HoldsLock, Answering
  <2>12. ASSUME NEW h \in Hooks, ReportFinish(h) PROVE Kept
    <3>1. ~HoldsLock(h) => TakesNoLock(h, "closing")
      BY <2>12, <2>t DEF ReportFinish, TakesNoLock, HoldsLock, HookState
    <3> QED
      BY <2>12, <3>1, <2>2 DEF ReportFinish, HookPc, Answering
  <2>13. ASSUME NEW h \in Hooks, DropSentinel(h) PROVE Kept
    <3> DEFINE d == hook[h].drv
    <3>1. /\ hook[h].pc = "closing" /\ d \in Drvs
          /\ hook'[h].pc \in {"exited", "idle"}
          /\ \A g \in Hooks : /\ hook'[g].drv = hook[g].drv /\ hook'[g].try = hook[g].try
                              /\ hook'[g].committed = hook[g].committed
          /\ \A g \in Hooks \ {h} : hook'[g] = hook[g]
          /\ sentinels'[d] = NoFile /\ \A c \in Drvs \ {d} : sentinels'[c] = sentinels[c]
          /\ tmps' = tmps
      BY <2>13, <2>t, GotoKeeps DEF DropSentinel, HookPc, BusyHookHasTry
    <3>2. LockExcludes'
      BY <3>1, <2>t, LockKept DEF HoldsLock
    <3>3. StagedTmpIsOwn'
      BY <3>1, <2>t DEF StagedTmpIsOwn
    <3>4. NoForgottenSentinel'
      <4> SUFFICES ASSUME NEW c \in Drvs, sentinels'[c].pid # NoHook
                   PROVE  LET pid == sentinels'[c].pid IN
                          /\ hook'[pid].drv = c /\ hook'[pid].try = sentinels'[c].try
                          /\ hook'[pid].pc \in Answering
        BY DEF NoForgottenSentinel
      <4>1. c # d /\ sentinels'[c] = sentinels[c]
        BY <3>1 DEF NoFile
      <4>2. LET pid == sentinels[c].pid IN
            /\ pid \in Hooks /\ hook[pid].drv = c /\ hook[pid].try = sentinels[c].try
            /\ hook[pid].pc \in Answering
        BY <4>1, <2>t DEF NoForgottenSentinel, File
      <4> QED
        BY <4>1, <4>2, <3>1
    <3> QED
      BY <3>2, <3>3, <3>4
  <2>14. ASSUME NEW h \in Hooks, HookCrash(h) PROVE Kept
    <3>1. TakesNoLock(h, "dead")
      BY DEF TakesNoLock
    <3> QED
      BY <2>14, <3>1, <2>2 DEF HookCrash, HookPc, Answering
  <2>15. ASSUME UNCHANGED <<hook, sentinels, tmps>> PROVE Kept
    BY <2>15, UnlinkKeepsFiles
  <2>16. ASSUME UnlinkSentinel PROVE Kept
    BY <2>16, <2>t, UnlinkKeepsFiles DEF UnlinkSentinel, hookVars, fileVars
  <2>17. ASSUME ControllerCrash PROVE Kept
    BY <2>17, UnlinkKeepsFiles DEF ControllerCrash, hookVars
  <2>18. ASSUME WatchdogNext PROVE Kept
    BY <2>15, <2>16, <2>18
    DEF WatchdogNext, WatchdogTick, ReadSentinel, RetireDeadHook, SweepWallClockTtl,
        hookVars, fileVars
  <2>19. ASSUME \/ \E h \in Hooks : MakeDecision(h)
                \/ \E f \in finishes : HandleAdmissionFinish(f)
                \/ \E e \in events : RecordFinish(e)
                \/ \E d \in Drvs : LocalBuildEnds(d)
                \/ ClockTick \/ ControllerStart \/ UNCHANGED vars
         PROVE Kept
    BY <2>15, <2>19
    DEF MakeDecision, HandleAdmissionFinish, RecordFinish, LocalBuildEnds, ClockTick,
        ControllerStart, vars, hookVars, fileVars
  <2> QED
    BY <2>1, <2>3, <2>4, <2>5, <2>6, <2>7, <2>8, <2>9, <2>10, <2>11, <2>12, <2>13, <2>14,
       <2>17, <2>18, <2>19
    DEF Next, HookNext
<1>3. QED
  BY <1>1, <1>2, TypeInduction, PTL DEF Spec, SentinelInv

(* No sentinel outlives the care of its hook, for any number of hooks,     *)
(* derivations, tries and faults.                                          *)
THEOREM SentinelsAreNeverForgotten == Spec => []NoForgottenSentinel
  BY SentinelInduction, PTL DEF SentinelInv

----------------------------------------------------------------------------
(* The table implements the ledger.  A row's age alone does not say what   *)
(* is left of it: an admitted row must be known to be a decision's, with a *)
(* prediction the clock's bound covers.                                    *)

RowsAreDecisions ==
  \A d \in Drvs : Admitted(d) => /\ admissions[d].kind \in {"local", "remote"}
                                 /\ admissions[d].predicted \in Predictions

LedgerInv == Typed /\ RowsAreDecisions

LEMMA TtlIsNat == ASSUME NEW p \in Nat PROVE Ttl(p) \in Nat
  BY TtlFloorAssumption DEF Ttl

LEMMA RetireRetires ==
  ASSUME LedgerInv, NEW d, Retire(d) \/ UNCHANGED admissions
  PROVE  RowsAreDecisions' /\ [Ledger!Next]_TimesLeft
<1>1. RowsAreDecisions'
  BY NoRowIsRow DEF LedgerInv, Typed, TypeOK, RowsAreDecisions, Retire, Admitted
<1>2. CASE UNCHANGED admissions
  BY <1>1, <1>2 DEF TimesLeft
<1>3. CASE Retire(d)
  <2> DEFINE gone == {d} \cap Drvs
  <2>1. TimesLeft' = [e \in Drvs |-> IF e \in gone THEN Ledger!Absent ELSE TimesLeft[e]]
    BY <1>3 DEF Retire, TimesLeft, Left, Ledger!Absent, LedgerInv, Typed, TypeOK
  <2> QED
    BY <1>1, <2>1 DEF Ledger!Next, Ledger!Retire
<1> QED
  BY <1>2, <1>3

LEMMA DecisionAdmits ==
  ASSUME LedgerInv, NEW h \in Hooks, MakeDecision(h)
  PROVE  RowsAreDecisions' /\ [Ledger!Next]_TimesLeft
<1>1. CASE UNCHANGED admissions
  BY <1>1, Zenon DEF TimesLeft, RowsAreDecisions, LedgerInv, Admitted
<1>2. ASSUME NEW kind \in {"local", "remote"}, NEW p \in Predictions,
             admissions' = [admissions EXCEPT ![hook[h].drv] =
               [kind |-> kind, predicted |-> p, age |-> 0, by |-> hook[h].try]]
      PROVE  RowsAreDecisions' /\ [Ledger!Next]_TimesLeft
  <2> DEFINE d   == hook[h].drv
             row == [kind |-> kind, predicted |-> p, age |-> 0, by |-> hook[h].try]
  <2>1. RowsAreDecisions'
    BY <1>2 DEF LedgerInv, Typed, TypeOK, RowsAreDecisions, Admitted
  <2>2. Left(row) = Ttl(p) + 1
    BY TtlIsNat, PredictionsAssumption DEF Left, NoRow
  <2>3. CASE d \in Drvs
    <3>1. TimesLeft' = [TimesLeft EXCEPT ![d] = Left(row)]
      BY <1>2, <2>3 DEF TimesLeft, LedgerInv, Typed, TypeOK
    <3> QED
      BY <2>1, <2>2, <2>3, <3>1 DEF Ledger!Next, Ledger!Admit
  <2>4. CASE d \notin Drvs
    <3>1. TimesLeft' = TimesLeft
      BY <1>2, <2>4 DEF TimesLeft, LedgerInv, Typed, TypeOK
    <3> QED
      BY <2>1, <3>1
  <2> QED
    BY <2>3, <2>4
<1> QED
  BY <1>1, <1>2 DEF MakeDecision

LEMMA SweepRetires ==
  ASSUME LedgerInv, SweepWallClockTtl
  PROVE  RowsAreDecisions' /\ [Ledger!Next]_TimesLeft
<1>1. PICK gone \in SUBSET Drvs :
        admissions' = [d \in Drvs |-> IF d \in gone THEN NoRow ELSE admissions[d]]
  BY DEF SweepWallClockTtl
<1>2. RowsAreDecisions'
  BY <1>1 DEF LedgerInv, RowsAreDecisions, Admitted
<1>3. TimesLeft' = [d \in Drvs |-> IF d \in gone THEN Ledger!Absent ELSE TimesLeft[d]]
  BY <1>1 DEF TimesLeft, Left, Ledger!Absent
<1> QED
  BY <1>2, <1>3 DEF Ledger!Next, Ledger!Retire

LEMMA StartRetires ==
  ASSUME ControllerStart
  PROVE  RowsAreDecisions' /\ [Ledger!Next]_TimesLeft
<1>1. RowsAreDecisions'
  BY DEF ControllerStart, RowsAreDecisions, Admitted
<1>2. TimesLeft' = [d \in Drvs |-> IF d \in Drvs THEN Ledger!Absent ELSE TimesLeft[d]]
  BY DEF ControllerStart, TimesLeft, Left, Ledger!Absent
<1> QED
  BY <1>1, <1>2 DEF Ledger!Next, Ledger!Retire

LEMMA TickPasses ==
  ASSUME LedgerInv, ClockTick
  PROVE  RowsAreDecisions' /\ [Ledger!Next]_TimesLeft
<1>1. RowsAreDecisions'
  BY DEF ClockTick, LedgerInv, Typed, TypeOK, RowsAreDecisions, Admitted, Row, NoRow
<1>2. ASSUME NEW d \in Drvs
      PROVE  Left(admissions'[d]) = IF TimesLeft[d] > 0 THEN TimesLeft[d] - 1 ELSE TimesLeft[d]
  <2> DEFINE row == admissions[d]
  <2>1. row \in Row /\ TimesLeft[d] = Left(row)
    BY DEF LedgerInv, Typed, TypeOK, TimesLeft
  <2>2. CASE row = NoRow
    BY <2>1, <2>2 DEF ClockTick, Admitted, Left
  <2>3. CASE row # NoRow /\ Aged(row.age)
    <3>1. row.age > Ttl(row.predicted)
      BY <2>3 DEF Aged, LedgerInv, RowsAreDecisions, Admitted
    <3> QED
      BY <2>1, <2>3, <3>1 DEF ClockTick, Admitted, Left
  <2>4. CASE row # NoRow /\ ~Aged(row.age)
    <3>1. admissions'[d] = [row EXCEPT !.age = @ + 1]
      BY <2>4 DEF ClockTick, Admitted
    <3>2. row.kind # "none" /\ row.age \in Nat /\ Ttl(row.predicted) \in Nat
      BY <2>1, <2>4, TtlIsNat DEF LedgerInv, RowsAreDecisions, Admitted, Row
    <3>3. /\ admissions'[d] # NoRow /\ admissions'[d].age = row.age + 1
          /\ admissions'[d].predicted = row.predicted
      BY <2>1, <3>1, <3>2 DEF Row, NoRow
    <3> QED
      BY <2>1, <2>4, <3>2, <3>3 DEF Left
  <2> QED
    BY <2>2, <2>3, <2>4
<1>3. TimesLeft' = [d \in Drvs |->
                      IF TimesLeft[d] > 0 THEN TimesLeft[d] - 1 ELSE TimesLeft[d]]
  BY <1>2 DEF TimesLeft
<1> QED
  BY <1>1, <1>3 DEF Ledger!Next, Ledger!Pass

LEMMA LedgerInit == Init => RowsAreDecisions /\ Ledger!Init
  BY DEF Init, RowsAreDecisions, Admitted, Ledger!Init, TimesLeft, Left, Ledger!Absent

(* Every step of the system is one of the ledger or leaves it alone.       *)
LEMMA LedgerStep == LedgerInv /\ [Next]_vars => RowsAreDecisions' /\ [Ledger!Next]_TimesLeft
<1> SUFFICES ASSUME LedgerInv, [Next]_vars
             PROVE  RowsAreDecisions' /\ [Ledger!Next]_TimesLeft
  OBVIOUS
<1>1. ASSUME UNCHANGED admissions PROVE RowsAreDecisions' /\ [Ledger!Next]_TimesLeft
  BY <1>1, RetireRetires, Zenon
<1>2. ASSUME NEW h \in Hooks, HookNext(h) PROVE UNCHANGED admissions
  BY <1>2 DEF HookNext, AskController, HandleDecline, HandleAccept, CreateTmp, WriteTmp,
              RenameTmp, SentinelFails, ChildDeclines, ChildAccepts,
              RemoteBuildSucceeds, ChildExits,
              ReportFinish, DropSentinel, HookCrash, ctlVars
<1>3. ASSUME NEW f \in finishes, HandleAdmissionFinish(f)
      PROVE  Retire(f.drv) \/ UNCHANGED admissions
  BY <1>3 DEF HandleAdmissionFinish, RetireOrLose
<1>4. ASSUME NEW e \in events, RecordFinish(e) PROVE Retire(e.drv) \/ UNCHANGED admissions
  BY <1>4 DEF RecordFinish, RetireOrLose
<1>5. ASSUME RetireDeadHook PROVE Retire(wdCur.drv) \/ UNCHANGED admissions
  BY <1>5 DEF RetireDeadHook
<1>6. ASSUME \/ WatchdogTick \/ UnlinkSentinel \/ ControllerCrash \/ UNCHANGED vars
             \/ \E e \in Entry : ReadSentinel(e)
             \/ \E d \in Drvs : LocalBuildEnds(d)
      PROVE  UNCHANGED admissions
  BY <1>6 DEF WatchdogTick, UnlinkSentinel, ControllerCrash, ReadSentinel, LocalBuildEnds,
              ctlVars, vars
<1> QED
  BY <1>1, <1>2, <1>3, <1>4, <1>5, <1>6, RetireRetires, DecisionAdmits, SweepRetires,
     StartRetires, TickPasses
  DEF Next, WatchdogNext

(* Whatever the hooks, the agents and the network do, the admissions table *)
(* behaves as module AdmissionLedger says: a row only ages until it is     *)
(* retired or decided again.  (That overdue rows go is liveness, and left  *)
(* to TLC.)                                                                *)
THEOREM TableIsLedger == Spec => ImplementsLedger
<1>1. Spec => []Typed
  BY TypeInduction
<1>2. Spec => []RowsAreDecisions
  BY LedgerInit, LedgerStep, TypeInduction, PTL DEF Spec, LedgerInv
<1> QED
  BY <1>1, <1>2, LedgerInit, LedgerStep, PTL
    DEF Spec, LedgerInv, ImplementsLedger, Ledger!Spec

-----------------------------------------------------------------------------
(* First tries: nothing that an earlier try could have left behind         *)
(* disturbs one, since there is no earlier try.                            *)

(* Hook h has, or died with, a try of d.                                   *)
Asker(h, d) == hook[h].pc # "idle" /\ hook[h].drv = d

SentinelEntry(d) == [kind |-> "sentinel", drv |-> d]

(* A request under way is that of a hook that waits, or of a dead one.     *)
RequestsAreAsked ==
  \A h \in Hooks : decide[h] = "sent" => hook[h].pc \in {"asked", "dead"}

(* Only complete files are renamed.                                        *)
SentinelsAreFull ==
  \A d \in Drvs : sentinels[d] = NoFile \/ (sentinels[d].pid \in Hooks /\ sentinels[d].full)

(* Before its first try there is no trace of a derivation anywhere.        *)
NoTraceBefore ==
  \A d \in Drvs : tried[d] = 0 =>
    /\ sentinels[d] = NoFile /\ tmps[d] = NoFile /\ locals[d] = 0
    /\ wdCur.drv # d /\ \A e \in wdTodo : e.drv # d
    /\ \A s \in finishes \cup events : s.drv # d

(* During it every trace is the asker's, and is left in the order of its   *)
(* program: files, signals and the watchdog's entry tell where it is.      *)
(* Only a sentinel that was misread goes before its time.                  *)
Settled(h, d) ==
  /\ \A g \in Hooks : Asker(g, d) => g = h
  /\ tmps[d] # NoFile => tmps[d].pid = h
  /\ (\E s \in finishes : s.drv = d) => hook[h].pc \in {"closing", "exited", "dead"}
  /\ \A s \in events : s.drv = d =>
        \/ hook[h].pc \in {"report", "closing", "exited", "dead"}
        \/ hook[h].pc = "copying" /\ s = OwnSignal(h)
  /\ locals[d] # 0 => hook[h].pc \in {"report", "closing", "exited", "dead"}
  /\ SentinelEntry(d) \in wdTodo
       => /\ hook[h].pc \in Answering \cup {"exited"}
          /\ \/ hook[h].pc \in {"exited", "dead"}
             \/ sentinels[d] # NoFile
             \/ d \in misread
  /\ wdPc = "unlink" /\ wdCur = SentinelEntry(d)
       => hook[h].pc \in {"exited", "dead"} \/ d \in misread
  /\ wdPc = "retire" /\ wdCur.drv = d => hook[h].pc \in {"exited", "dead"}
  /\ Serves(h, d) /\ ctl = "up" /\ AdmittedFor(h, d)
       => sentinels[d] # NoFile \/ d \in misread

FirstTries == \A h \in Hooks, d \in Drvs : tried[d] = 1 /\ Asker(h, d) => Settled(h, d)

FirstTryInv ==
  SentinelInv /\ RequestsAreAsked /\ SentinelsAreFull /\ NoTraceBefore /\ FirstTries

----------------------------------------------------------------------------

LEMMA FirstTryInit == Init => RequestsAreAsked /\ SentinelsAreFull /\ NoTraceBefore /\ FirstTries
  BY NothingAssumption
    DEF Init, RequestsAreAsked, SentinelsAreFull, NoTraceBefore, FirstTries, Asker,
     FreshHook, NoEntry

LEMMA FirstTryStep ==
  ASSUME FirstTryInv, SentinelInv', [Next]_vars
  PROVE  RequestsAreAsked' /\ SentinelsAreFull' /\ NoTraceBefore' /\ FirstTries'
<1> DEFINE Kept == RequestsAreAsked' /\ SentinelsAreFull' /\ NoTraceBefore' /\ FirstTries'
<1> USE BoundsAssumption, NothingAssumption
<1>t. /\ SentinelInv /\ RequestsAreAsked /\ SentinelsAreFull /\ NoTraceBefore /\ FirstTries
      /\ Typed /\ TypeOK /\ BusyHookHasTry /\ StagedTmpIsOwn /\ NoForgottenSentinel
      /\ hook \in [Hooks -> HookState]
      /\ decide \in [Hooks -> {"none", "sent", "accept", "decline", "broken"}]
      /\ sentinels \in [Drvs -> File] /\ tmps \in [Drvs -> File]
      /\ locals \in [Drvs -> Nat] /\ tried \in [Drvs -> 0..MaxTries]
      /\ finishes \subseteq Signal /\ events \subseteq Signal /\ wdTodo \subseteq Entry
      /\ admissions \in [Drvs -> Row] /\ wdCur \in Entry \cup {NoEntry}
  BY DEF FirstTryInv, SentinelInv, Typed, TypeOK
<1>1. ASSUME NEW h \in Hooks, HandleDecline(h) PROVE Kept
  <2>1. /\ hook'[h].pc = "idle" /\ hook'[h].drv = hook[h].drv /\ hook'[h].try = hook[h].try
          /\ \A g \in Hooks \ {h} : hook'[g] = hook[g]
    BY <1>1, <1>t, GotoKeeps DEF HandleDecline, DeclineToNix, HookPc, HookState
  <2>2. hook[h].pc # "idle" /\ hook[h].drv \in Drvs /\ tried[hook[h].drv] # 0
    BY <1>1, <1>t DEF HandleDecline, DeclineToNix, BusyHookHasTry
  <2>3. RequestsAreAsked' /\ SentinelsAreFull' /\ NoTraceBefore'
    BY <1>1, <1>t, <2>1, <2>2
   
      DEF HandleDecline, DeclineToNix, netVars, hookVars, fileVars, wdVars,
          RequestsAreAsked, SentinelsAreFull, NoTraceBefore, BusyHookHasTry
  <2>4. FirstTries'
    BY <1>1, <1>t, <2>1, <2>2
   
      DEF HandleDecline, DeclineToNix, ctlVars, netVars, fileVars, wdVars,
          FirstTries, Settled, OwnSignal, Answering, Asker, Serves, InService,
              AdmittedFor, Admitted
  <2> QED BY <2>3, <2>4
<1>2. ASSUME NEW h \in Hooks, HandleAccept(h) PROVE Kept
  <2>1. /\ hook'[h].pc = "granted" /\ hook'[h].drv = hook[h].drv /\ hook'[h].try = hook[h].try
          /\ \A g \in Hooks \ {h} : hook'[g] = hook[g]
    BY <1>2, <1>t, GotoKeeps DEF HandleAccept, HookPc, HookState
  <2>2. hook[h].pc # "idle" /\ hook[h].drv \in Drvs /\ tried[hook[h].drv] # 0
    BY <1>2, <1>t DEF HandleAccept, BusyHookHasTry
  <2>3. RequestsAreAsked' /\ SentinelsAreFull' /\ NoTraceBefore'
    BY <1>2, <1>t, <2>1, <2>2
   
      DEF HandleAccept, netVars, hookVars, fileVars, wdVars, RequestsAreAsked,
          SentinelsAreFull, NoTraceBefore, BusyHookHasTry
  <2>4. FirstTries'
    BY <1>2, <1>t, <2>1, <2>2
   
     
        DEF HandleAccept, ctlVars, netVars, fileVars, wdVars, FirstTries, Settled,
            OwnSignal, Answering,
          Asker, Serves, InService, AdmittedFor, Admitted
  <2> QED BY <2>3, <2>4
<1>3. ASSUME NEW h \in Hooks, CreateTmp(h) PROVE Kept
  <2>1. /\ hook'[h].pc = "staging" /\ hook'[h].drv = hook[h].drv /\ hook'[h].try = hook[h].try
          /\ \A g \in Hooks \ {h} : hook'[g] = hook[g]
    BY <1>3, <1>t, GotoKeeps DEF CreateTmp, HookPc, HookState
  <2>2. hook[h].pc # "idle" /\ hook[h].drv \in Drvs /\ tried[hook[h].drv] # 0
    BY <1>3, <1>t DEF CreateTmp, BusyHookHasTry
  <2>3. RequestsAreAsked' /\ SentinelsAreFull' /\ NoTraceBefore'
    BY <1>3, <1>t, <2>1, <2>2
   
      DEF CreateTmp, netVars, hookVars, fileVars, wdVars, RequestsAreAsked,
          SentinelsAreFull, NoTraceBefore, BusyHookHasTry
  <2>4. FirstTries'
    BY <1>3, <1>t, <2>1, <2>2
   
     
        DEF CreateTmp, ctlVars, netVars, fileVars, wdVars, FirstTries, Settled,
            OwnSignal, Answering, Asker,
          Serves, InService, AdmittedFor, Admitted
  <2> QED BY <2>3, <2>4
<1>4. ASSUME NEW h \in Hooks, WriteTmp(h) PROVE Kept
  <2>1. /\ hook'[h].pc = "staged" /\ hook'[h].drv = hook[h].drv /\ hook'[h].try = hook[h].try
          /\ \A g \in Hooks \ {h} : hook'[g] = hook[g]
    BY <1>4, <1>t, GotoKeeps DEF WriteTmp, HookPc, HookState
  <2>2. hook[h].pc # "idle" /\ hook[h].drv \in Drvs /\ tried[hook[h].drv] # 0
    BY <1>4, <1>t DEF WriteTmp, BusyHookHasTry
  <2>3. RequestsAreAsked' /\ SentinelsAreFull' /\ NoTraceBefore'
    BY <1>4, <1>t, <2>1, <2>2
   
      DEF WriteTmp, netVars, hookVars, fileVars, wdVars, RequestsAreAsked,
          SentinelsAreFull, NoTraceBefore, BusyHookHasTry
  <2>4. FirstTries'
    BY <1>4, <1>t, <2>1, <2>2
   
     
        DEF WriteTmp, ctlVars, netVars, fileVars, wdVars, FirstTries, Settled,
            OwnSignal, Answering, Asker,
          Serves, InService, AdmittedFor, Admitted
  <2> QED BY <2>3, <2>4
<1>5. ASSUME NEW h \in Hooks, RenameTmp(h) PROVE Kept
  <2>1. /\ hook'[h].pc = "delegating" /\ hook'[h].drv = hook[h].drv /\ hook'[h].try = hook[h].try
          /\ \A g \in Hooks \ {h} : hook'[g] = hook[g]
    BY <1>5, <1>t, GotoKeeps DEF RenameTmp, HookPc, HookState
  <2>2. hook[h].pc # "idle" /\ hook[h].drv \in Drvs /\ tried[hook[h].drv] # 0
    BY <1>5, <1>t DEF RenameTmp, BusyHookHasTry
  <2>3. RequestsAreAsked' /\ SentinelsAreFull' /\ NoTraceBefore'
    BY <1>5, <1>t, <2>1, <2>2
   
      DEF RenameTmp, netVars, hookVars, fileVars, wdVars, RequestsAreAsked,
          SentinelsAreFull, NoTraceBefore, BusyHookHasTry, StagedTmpIsOwn
  <2>4. FirstTries'
    BY <1>5, <1>t, <2>1, <2>2
   
     
        DEF RenameTmp, ctlVars, netVars, fileVars, wdVars, FirstTries, Settled,
            OwnSignal, Answering, Asker,
          Serves, InService, AdmittedFor, Admitted
  <2> QED BY <2>3, <2>4
<1>6. ASSUME NEW h \in Hooks, SentinelFails(h) PROVE Kept
  <2>1. /\ hook'[h].pc = "idle" /\ hook'[h].drv = hook[h].drv /\ hook'[h].try = hook[h].try
          /\ \A g \in Hooks \ {h} : hook'[g] = hook[g]
    BY <1>6, <1>t, GotoKeeps DEF SentinelFails, DeclineToNix, HookPc, HookState
  <2>2. hook[h].pc # "idle" /\ hook[h].drv \in Drvs /\ tried[hook[h].drv] # 0
    BY <1>6, <1>t DEF SentinelFails, DeclineToNix, BusyHookHasTry
  <2>3. RequestsAreAsked' /\ SentinelsAreFull' /\ NoTraceBefore'
    BY <1>6, <1>t, <2>1, <2>2
   
      DEF SentinelFails, DeclineToNix, netVars, hookVars, fileVars, wdVars,
          RequestsAreAsked, SentinelsAreFull, NoTraceBefore, BusyHookHasTry
  <2>4. FirstTries'
    BY <1>6, <1>t, <2>1, <2>2
   
      DEF SentinelFails, DeclineToNix, ctlVars, netVars, fileVars, wdVars,
          FirstTries, Settled, OwnSignal, Answering, Asker, Serves, InService,
              AdmittedFor, Admitted
  <2> QED BY <2>3, <2>4
<1>7. ASSUME NEW h \in Hooks, ChildDeclines(h) PROVE Kept
  <2>1. /\ hook'[h].pc = "report" /\ hook'[h].drv = hook[h].drv /\ hook'[h].try = hook[h].try
          /\ \A g \in Hooks \ {h} : hook'[g] = hook[g]
    BY <1>7, <1>t, GotoKeeps DEF ChildDeclines, HookPc, HookState
  <2>2. hook[h].pc # "idle" /\ hook[h].drv \in Drvs /\ tried[hook[h].drv] # 0
    BY <1>7, <1>t DEF ChildDeclines, BusyHookHasTry
  <2>3. RequestsAreAsked' /\ SentinelsAreFull' /\ NoTraceBefore'
    BY <1>7, <1>t, <2>1, <2>2
   
      DEF ChildDeclines, netVars, hookVars, fileVars, wdVars, RequestsAreAsked,
          SentinelsAreFull, NoTraceBefore, BusyHookHasTry
  <2>4. FirstTries'
    BY <1>7, <1>t, <2>1, <2>2
   
     
        DEF ChildDeclines, ctlVars, netVars, fileVars, wdVars, FirstTries,
            Settled, OwnSignal, Answering,
          Asker, Serves, InService, AdmittedFor, Admitted
  <2> QED BY <2>3, <2>4
<1>8. ASSUME NEW h \in Hooks, ChildAccepts(h) PROVE Kept
  <2>1. /\ hook'[h].pc = "accepted" /\ hook'[h].drv = hook[h].drv /\ hook'[h].try = hook[h].try
          /\ \A g \in Hooks \ {h} : hook'[g] = hook[g]
    BY <1>8, <1>t, GotoKeeps DEF ChildAccepts, HookPc, HookState
  <2>2. hook[h].pc # "idle" /\ hook[h].drv \in Drvs /\ tried[hook[h].drv] # 0
    BY <1>8, <1>t DEF ChildAccepts, BusyHookHasTry
  <2>3. RequestsAreAsked' /\ SentinelsAreFull' /\ NoTraceBefore'
    BY <1>8, <1>t, <2>1, <2>2
   
      DEF ChildAccepts, netVars, hookVars, fileVars, wdVars, RequestsAreAsked,
          SentinelsAreFull, NoTraceBefore, BusyHookHasTry
  <2>4. FirstTries'
    BY <1>8, <1>t, <2>1, <2>2
   
     
        DEF ChildAccepts, ctlVars, netVars, fileVars, wdVars, FirstTries, Settled,
            OwnSignal, Answering,
          Asker, Serves, InService, AdmittedFor, Admitted
  <2> QED BY <2>3, <2>4
<1>9. ASSUME NEW h \in Hooks, RemoteBuildSucceeds(h) PROVE Kept
  <2>1. /\ hook'[h].pc = "copying" /\ hook'[h].drv = hook[h].drv /\ hook'[h].try = hook[h].try
          /\ \A g \in Hooks \ {h} : hook'[g] = hook[g]
    BY <1>9, <1>t, GotoKeeps DEF RemoteBuildSucceeds, HookPc, HookState
  <2>2. hook[h].pc # "idle" /\ hook[h].drv \in Drvs /\ tried[hook[h].drv] # 0
    BY <1>9, <1>t DEF RemoteBuildSucceeds, BusyHookHasTry
  <2>3. RequestsAreAsked' /\ SentinelsAreFull' /\ NoTraceBefore'
    BY <1>9, <1>t, <2>1, <2>2
   
     
        DEF RemoteBuildSucceeds, OwnSignal, netVars, hookVars, fileVars, wdVars,
            RequestsAreAsked,
          SentinelsAreFull, NoTraceBefore, BusyHookHasTry
  <2>4. FirstTries'
    BY <1>9, <1>t, <2>1, <2>2
   
     
        DEF RemoteBuildSucceeds, ctlVars, netVars, fileVars, wdVars, FirstTries,
            Settled, OwnSignal, Answering, Asker,
          Serves, InService, AdmittedFor, Admitted
  <2> QED BY <2>3, <2>4
<1>10. ASSUME NEW h \in Hooks, ReportFinish(h) PROVE Kept
  <2>1. /\ hook'[h].pc = "closing" /\ hook'[h].drv = hook[h].drv /\ hook'[h].try = hook[h].try
          /\ \A g \in Hooks \ {h} : hook'[g] = hook[g]
    BY <1>10, <1>t, GotoKeeps DEF ReportFinish, HookPc, HookState
  <2>2. hook[h].pc # "idle" /\ hook[h].drv \in Drvs /\ tried[hook[h].drv] # 0
    BY <1>10, <1>t DEF ReportFinish, BusyHookHasTry
  <2>3. RequestsAreAsked' /\ SentinelsAreFull' /\ NoTraceBefore'
    BY <1>10, <1>t, <2>1, <2>2
   
      DEF ReportFinish, OwnSignal, netVars, hookVars, fileVars, wdVars, RequestsAreAsked,
          SentinelsAreFull, NoTraceBefore, BusyHookHasTry
  <2>4. FirstTries'
    BY <1>10, <1>t, <2>1, <2>2
   
     
        DEF ReportFinish, ctlVars, netVars, fileVars, wdVars, FirstTries, Settled,
            OwnSignal, Answering,
          Asker, Serves, InService, AdmittedFor, Admitted
  <2> QED BY <2>3, <2>4
<1>11. ASSUME NEW h \in Hooks, DropSentinel(h) PROVE Kept
  <2>1. /\ hook'[h].pc = (IF hook[h].committed THEN "exited" ELSE "idle") /\ hook'[h].drv = hook[h].drv /\ hook'[h].try = hook[h].try
          /\ \A g \in Hooks \ {h} : hook'[g] = hook[g]
    BY <1>11, <1>t, GotoKeeps DEF DropSentinel, HookPc, HookState
  <2>2. hook[h].pc # "idle" /\ hook[h].drv \in Drvs /\ tried[hook[h].drv] # 0
    BY <1>11, <1>t DEF DropSentinel, BusyHookHasTry
  <2>3. RequestsAreAsked' /\ SentinelsAreFull' /\ NoTraceBefore'
    BY <1>11, <1>t, <2>1, <2>2
   
      DEF DropSentinel, netVars, hookVars, fileVars, wdVars, RequestsAreAsked,
          SentinelsAreFull, NoTraceBefore, BusyHookHasTry
  <2>4. FirstTries'
    BY <1>11, <1>t, <2>1, <2>2
   
     
        DEF DropSentinel, ctlVars, netVars, fileVars, wdVars, FirstTries, Settled,
            OwnSignal, Answering,
          Asker, Serves, InService, AdmittedFor, Admitted
  <2> QED BY <2>3, <2>4
<1>12. ASSUME NEW h \in Hooks, HookCrash(h) PROVE Kept
  <2>1. /\ hook'[h].pc = "dead" /\ hook'[h].drv = hook[h].drv /\ hook'[h].try = hook[h].try
          /\ \A g \in Hooks \ {h} : hook'[g] = hook[g]
    BY <1>12, <1>t, GotoKeeps DEF HookCrash, HookPc, HookState
  <2>2. hook[h].pc # "idle" /\ hook[h].drv \in Drvs /\ tried[hook[h].drv] # 0
    BY <1>12, <1>t DEF HookCrash, BusyHookHasTry
  <2>3. RequestsAreAsked' /\ SentinelsAreFull' /\ NoTraceBefore'
    BY <1>12, <1>t, <2>1, <2>2
   
      DEF HookCrash, netVars, hookVars, fileVars, wdVars, RequestsAreAsked,
          SentinelsAreFull, NoTraceBefore, BusyHookHasTry
  <2>4. FirstTries'
    BY <1>12, <1>t, <2>1, <2>2
   
     
        DEF HookCrash, ctlVars, netVars, fileVars, wdVars, FirstTries, Settled,
            OwnSignal, Answering, Asker,
          Serves, InService, AdmittedFor, Admitted
  <2> QED BY <2>3, <2>4
<1>13. ASSUME NEW h \in Hooks, NEW d \in Drvs, AskController(h, d) PROVE Kept
  <2>1. RequestsAreAsked' /\ SentinelsAreFull' /\ NoTraceBefore'
    BY <1>13, <1>t
   
      DEF AskController, Locked, netVars, hookVars, fileVars, wdVars, NoEntry,
          RequestsAreAsked, SentinelsAreFull, NoTraceBefore, BusyHookHasTry
  <2>2. FirstTries'
    <3> SUFFICES ASSUME NEW g \in Hooks, NEW c \in Drvs, tried'[c] = 1, Asker(g, c)'
                 PROVE  Settled(g, c)'
      BY DEF FirstTries
    <3>1. CASE c # d
      <4>1. Asker(g, c) /\ Settled(g, c) /\ g # h
        BY <1>13, <1>t, <3>1 DEF AskController, FirstTries, Asker
      <4>2. \A k \in Hooks : Asker(k, c)' => Asker(k, c)
        BY <1>13, <1>t, <3>1 DEF AskController, Asker
      <4> QED
        BY <1>13, <1>t, <3>1, <4>1, <4>2
       
          DEF AskController, ctlVars, netVars, fileVars, wdVars, Settled, OwnSignal,
              Answering, Serves, InService, AdmittedFor, Admitted
    <3>2. CASE c = d
      <4>1. tried[c] = 0
        BY <1>13, <1>t, <3>2 DEF AskController
      <4>2. \A k \in Hooks : ~Asker(k, c)
        BY <1>t, <4>1 DEF BusyHookHasTry, Asker
      <4>3. \A k \in Hooks : Asker(k, c)' => k = h
        BY <1>13, <1>t, <4>2 DEF AskController, Asker
      <4>4. hook'[h].pc = "asked" /\ g = h
        BY <1>13, <1>t, <4>3 DEF AskController
      <4>5. /\ tmps'[c] = NoFile /\ locals'[c] = 0 /\ wdCur'.drv # c
            /\ \A e \in wdTodo' : e.drv # c
            /\ \A s \in finishes' \cup events' : s.drv # c
        BY <1>13, <1>t, <4>1 DEF AskController, NoTraceBefore, fileVars, wdVars
      <4> QED
        BY <4>3, <4>4, <4>5 DEF Settled, Serves, InService, SentinelEntry
    <3> QED BY <3>1, <3>2
  <2> QED BY <2>1, <2>2
<1>14. ASSUME NEW d \in Drvs, LocalBuildEnds(d) PROVE Kept
  <2>1. RequestsAreAsked' /\ SentinelsAreFull' /\ NoTraceBefore'
    BY <1>14, <1>t
   
      DEF LocalBuildEnds, netVars, hookVars, fileVars, wdVars, NoEntry,
          RequestsAreAsked, SentinelsAreFull, NoTraceBefore, BusyHookHasTry
  <2>2. FirstTries'
    BY <1>14, <1>t
   
      DEF LocalBuildEnds, ctlVars, netVars, fileVars, wdVars, hookVars, FirstTries,
          Settled, OwnSignal, Answering, Asker, Serves, InService, AdmittedFor, Admitted
  <2> QED BY <2>1, <2>2
<1>15. ASSUME NEW h \in Hooks, MakeDecision(h) PROVE Kept
  <2>1. RequestsAreAsked' /\ SentinelsAreFull' /\ NoTraceBefore'
    <3>1. RequestsAreAsked'
      BY <1>15, <1>t DEF MakeDecision, Answer, hookVars, RequestsAreAsked
    <3>2. SentinelsAreFull' /\ NoTraceBefore'
      BY <1>15, <1>t
        DEF MakeDecision, hookVars, fileVars, wdVars, SentinelsAreFull, NoTraceBefore
    <3> QED BY <3>1, <3>2
  <2>2. FirstTries'
    <3> SUFFICES ASSUME NEW g \in Hooks, NEW c \in Drvs, tried'[c] = 1, Asker(g, c)'
                 PROVE  Settled(g, c)'
      BY DEF FirstTries
    <3>1. Settled(g, c) /\ Asker(g, c)
      BY <1>15, <1>t
        DEF MakeDecision, ctlVars, netVars, hookVars, fileVars, wdVars, FirstTries, Asker
    <3>2. Serves(g, c) => hook[h].drv # c
      BY <1>15, <1>t, <3>1
       
          DEF MakeDecision, RequestsAreAsked, Settled, OwnSignal, Answering,
              Asker, Serves, InService
    <3>3. hook[h].drv # c => admissions'[c] = admissions[c]
      BY <1>15, <1>t DEF MakeDecision
    <3> QED
      BY <1>15, <3>1, <3>2, <3>3
        DEF MakeDecision, hookVars, fileVars, wdVars, Settled, OwnSignal, Answering,
         Asker, Serves, InService, AdmittedFor, Admitted
  <2> QED BY <2>1, <2>2
<1>16. ASSUME NEW f \in finishes, HandleAdmissionFinish(f) PROVE Kept
  <2>1. RequestsAreAsked' /\ SentinelsAreFull' /\ NoTraceBefore'
    BY <1>16, <1>t
   
      DEF HandleAdmissionFinish, RetireOrLose, Retire, netVars, hookVars, fileVars,
          wdVars, NoEntry, RequestsAreAsked, SentinelsAreFull, NoTraceBefore,
          BusyHookHasTry
  <2>2. FirstTries'
    <3> SUFFICES ASSUME NEW g \in Hooks, NEW c \in Drvs, tried'[c] = 1, Asker(g, c)'
                 PROVE  Settled(g, c)'
      BY DEF FirstTries
    <3>1. Settled(g, c)
      BY <1>16, <1>t
        DEF HandleAdmissionFinish, RetireOrLose, Retire, ctlVars, netVars,
            hookVars, fileVars, wdVars, FirstTries, Asker
    <3> QED
      BY <1>16, <1>t, <3>1
        DEF HandleAdmissionFinish, RetireOrLose, Retire, ctlVars, netVars,
            hookVars, fileVars, wdVars,
         Settled, OwnSignal, Answering, Asker, Serves, InService, AdmittedFor,
             Admitted, Signal, File,
             Entry, SentinelEntry, NoEntry, NoFile
  <2> QED BY <2>1, <2>2
<1>17. ASSUME NEW e \in events, RecordFinish(e) PROVE Kept
  <2>1. RequestsAreAsked' /\ SentinelsAreFull' /\ NoTraceBefore'
    BY <1>17, <1>t
   
      DEF RecordFinish, RetireOrLose, Retire, netVars, hookVars, fileVars, wdVars,
          NoEntry, RequestsAreAsked, SentinelsAreFull, NoTraceBefore, BusyHookHasTry
  <2>2. FirstTries'
    <3> SUFFICES ASSUME NEW g \in Hooks, NEW c \in Drvs, tried'[c] = 1, Asker(g, c)'
                 PROVE  Settled(g, c)'
      BY DEF FirstTries
    <3>1. Settled(g, c)
      BY <1>17, <1>t
        DEF RecordFinish, RetireOrLose, Retire, ctlVars, netVars, hookVars,
            fileVars, wdVars, FirstTries, Asker
    <3> QED
      BY <1>17, <1>t, <3>1
        DEF RecordFinish, RetireOrLose, Retire, ctlVars, netVars, hookVars,
            fileVars, wdVars,
         Settled, OwnSignal, Answering, Asker, Serves, InService, AdmittedFor,
             Admitted, Signal, File,
             Entry, SentinelEntry, NoEntry, NoFile
  <2> QED BY <2>1, <2>2
<1>18. ASSUME WatchdogTick PROVE Kept
  <2>1. RequestsAreAsked' /\ SentinelsAreFull' /\ NoTraceBefore'
    BY <1>18, <1>t
   
      DEF WatchdogTick, FileAt, netVars, hookVars, fileVars, wdVars, NoEntry,
          RequestsAreAsked, SentinelsAreFull, NoTraceBefore, BusyHookHasTry
  <2>2. FirstTries'
    <3> SUFFICES ASSUME NEW g \in Hooks, NEW c \in Drvs, tried'[c] = 1, Asker(g, c)'
                 PROVE  Settled(g, c)'
      BY DEF FirstTries
    <3>1. Settled(g, c) /\ Asker(g, c)
      BY <1>18, <1>t
        DEF WatchdogTick, ctlVars, netVars, hookVars, fileVars, wdVars, FirstTries, Asker
    <3>2. SentinelEntry(c) \in wdTodo' => sentinels[c] # NoFile
      BY <1>18 DEF WatchdogTick, FileAt, SentinelEntry
    <3>3. sentinels[c] # NoFile => hook[g].pc \in Answering
      BY <1>t, <3>1 DEF SentinelsAreFull, NoForgottenSentinel, Settled, Asker, Answering
    <3> QED
      BY <1>18, <3>1, <3>2, <3>3
       
          DEF WatchdogTick, ctlVars, netVars, hookVars, fileVars, Settled,
              OwnSignal, Answering,
         Asker, Serves, InService, AdmittedFor, Admitted
  <2> QED BY <2>1, <2>2
<1>19. ASSUME NEW e \in Entry, ReadSentinel(e) PROVE Kept
  <2>1. RequestsAreAsked' /\ SentinelsAreFull' /\ NoTraceBefore'
    BY <1>19, <1>t
   
      DEF ReadSentinel, FileAt, PidIsDead, Alive, netVars, hookVars, fileVars,
          wdVars, NoEntry, RequestsAreAsked, SentinelsAreFull, NoTraceBefore,
          BusyHookHasTry
  <2>2. FirstTries'
    <3> SUFFICES ASSUME NEW g \in Hooks, NEW c \in Drvs, tried'[c] = 1, Asker(g, c)'
                 PROVE  Settled(g, c)'
      BY DEF FirstTries
    <3>1. Settled(g, c) /\ Asker(g, c)
      BY <1>19, <1>t
        DEF ReadSentinel, ctlVars, netVars, hookVars, fileVars, wdVars, FirstTries, Asker
    <3>2. FileAt(e) # NoFile /\ e.drv = c => FileAt(e).pid = g
      BY <1>t, <3>1
        DEF FileAt, SentinelsAreFull, NoForgottenSentinel, Settled, Asker, Answering
    <3>3. FileAt(e).full => FileAt(e) # NoFile
      BY DEF NoFile
    <3>4. e.drv = c /\ FileAt(e).full /\ PidIsDead(FileAt(e)) => hook[g].pc \in {"exited", "dead"}
      BY <3>2, <3>3 DEF PidIsDead, Alive
    <3>5. e = SentinelEntry(c) /\ ~FileAt(e).full
            => hook[g].pc \in {"exited", "dead"} \/ c \in misread
      <4>1. e = SentinelEntry(c) /\ ~FileAt(e).full => sentinels[c] = NoFile
        BY <1>t DEF FileAt, SentinelEntry, SentinelsAreFull
      <4> QED
        BY <1>19, <3>1, <4>1 DEF ReadSentinel, Settled
    <3>7. /\ misread \subseteq misread'
          /\ FileAt(e).full /\ e = SentinelEntry(c) /\ wdPc' = "unlink" => c \in misread'
      BY <1>19 DEF ReadSentinel, SentinelEntry
    <3>6. SentinelEntry(c).drv = c
      BY DEF SentinelEntry
    <3> QED
      BY <1>19, <3>1, <3>4, <3>5, <3>6, <3>7
       
          DEF ReadSentinel, ctlVars, netVars, hookVars, fileVars, Settled,
              OwnSignal, Answering,
         Asker, Serves, InService, AdmittedFor, Admitted
  <2> QED BY <2>1, <2>2
<1>20. ASSUME RetireDeadHook PROVE Kept
  <2>1. RequestsAreAsked' /\ SentinelsAreFull' /\ NoTraceBefore'
    BY <1>20, <1>t
   
      DEF RetireDeadHook, Retire, netVars, hookVars, fileVars, wdVars, NoEntry,
          RequestsAreAsked, SentinelsAreFull, NoTraceBefore, BusyHookHasTry
  <2>2. FirstTries'
    <3> SUFFICES ASSUME NEW g \in Hooks, NEW c \in Drvs, tried'[c] = 1, Asker(g, c)'
                 PROVE  Settled(g, c)'
      BY DEF FirstTries
    <3>1. Settled(g, c)
      BY <1>20, <1>t
        DEF RetireDeadHook, Retire, ctlVars, netVars, hookVars, fileVars, wdVars,
            FirstTries, Asker
    <3> QED
      BY <1>20, <1>t, <3>1
        DEF RetireDeadHook, Retire, ctlVars, netVars, hookVars, fileVars, wdVars,
         Settled, OwnSignal, Answering, Asker, Serves, InService, AdmittedFor,
             Admitted, Signal, File,
             Entry, SentinelEntry, NoEntry, NoFile
  <2> QED BY <2>1, <2>2
<1>21. ASSUME UnlinkSentinel PROVE Kept
  <2>1. RequestsAreAsked' /\ SentinelsAreFull' /\ NoTraceBefore'
    BY <1>21, <1>t
   
      DEF UnlinkSentinel, netVars, hookVars, fileVars, wdVars, NoEntry,
          RequestsAreAsked, SentinelsAreFull, NoTraceBefore, BusyHookHasTry
  <2>2. FirstTries'
    <3> SUFFICES ASSUME NEW g \in Hooks, NEW c \in Drvs, tried'[c] = 1, Asker(g, c)'
                 PROVE  Settled(g, c)'
      BY DEF FirstTries
    <3>1. Settled(g, c) /\ Asker(g, c)
      BY <1>21, <1>t
        DEF UnlinkSentinel, ctlVars, netVars, hookVars, fileVars, wdVars, FirstTries, Asker
    <3>2. sentinels'[c] = sentinels[c] \/ wdCur = SentinelEntry(c)
      BY <1>21, <1>t DEF UnlinkSentinel, SentinelEntry, Entry, NoEntry, fileVars
    <3>3. tmps'[c] \in {tmps[c], NoFile}
      BY <1>21, <1>t DEF UnlinkSentinel, fileVars
    <3>4. wdCur = SentinelEntry(c) => hook[g].pc \in {"exited", "dead"} \/ c \in misread
      BY <1>21, <3>1 DEF UnlinkSentinel, Settled
    <3> QED
      BY <1>21, <3>1, <3>2, <3>3, <3>4
        DEF UnlinkSentinel, ctlVars, netVars, hookVars, Settled, OwnSignal, Answering,
         Asker, Serves, InService, AdmittedFor, Admitted
  <2> QED BY <2>1, <2>2
<1>22. ASSUME SweepWallClockTtl PROVE Kept
  <2>1. RequestsAreAsked' /\ SentinelsAreFull' /\ NoTraceBefore'
    BY <1>22, <1>t
   
      DEF SweepWallClockTtl, netVars, hookVars, fileVars, wdVars, NoEntry,
          RequestsAreAsked, SentinelsAreFull, NoTraceBefore, BusyHookHasTry
  <2>2. FirstTries'
    <3> SUFFICES ASSUME NEW g \in Hooks, NEW c \in Drvs, tried'[c] = 1, Asker(g, c)'
                 PROVE  Settled(g, c)'
      BY DEF FirstTries
    <3>1. Settled(g, c) /\ Asker(g, c)
      BY <1>22, <1>t
        DEF SweepWallClockTtl, ctlVars, netVars, hookVars, fileVars, wdVars,
            FirstTries, Asker
    <3>2. admissions'[c] \in {admissions[c], NoRow}
      BY <1>22 DEF SweepWallClockTtl
    <3> QED
      BY <1>22, <3>1, <3>2
        DEF SweepWallClockTtl, netVars, hookVars, fileVars, Settled, OwnSignal, Answering,
         Asker, Serves, InService, AdmittedFor, Admitted
  <2> QED BY <2>1, <2>2
<1>23. ASSUME ClockTick PROVE Kept
  <2>1. RequestsAreAsked' /\ SentinelsAreFull' /\ NoTraceBefore'
    BY <1>23, <1>t
   
      DEF ClockTick, netVars, hookVars, fileVars, wdVars, NoEntry, RequestsAreAsked,
          SentinelsAreFull, NoTraceBefore, BusyHookHasTry
  <2>2. FirstTries'
    BY <1>23, <1>t
   
      DEF ClockTick, ctlVars, netVars, fileVars, wdVars, hookVars, FirstTries,
          Settled, OwnSignal, Answering, Asker, Serves, InService, AdmittedFor, Admitted
  <2> QED BY <2>1, <2>2
<1>24. ASSUME ControllerCrash PROVE Kept
  <2>1. RequestsAreAsked' /\ SentinelsAreFull' /\ NoTraceBefore'
    BY <1>24, <1>t
   
      DEF ControllerCrash, Alive, netVars, hookVars, fileVars, wdVars, NoEntry,
          RequestsAreAsked, SentinelsAreFull, NoTraceBefore, BusyHookHasTry
  <2>2. FirstTries'
    <3> SUFFICES ASSUME NEW g \in Hooks, NEW c \in Drvs, tried'[c] = 1, Asker(g, c)'
                 PROVE  Settled(g, c)'
      BY DEF FirstTries
    <3>1. Settled(g, c)
      BY <1>24, <1>t
        DEF ControllerCrash, Alive, ctlVars, netVars, hookVars, fileVars, wdVars,
            FirstTries, Asker
    <3> QED
      BY <1>24, <1>t, <3>1
        DEF ControllerCrash, Alive, ctlVars, netVars, hookVars, fileVars, wdVars,
         Settled, OwnSignal, Answering, Asker, Serves, InService, AdmittedFor,
             Admitted, Signal, File,
             Entry, SentinelEntry, NoEntry, NoFile
  <2> QED BY <2>1, <2>2
<1>25. ASSUME ControllerStart PROVE Kept
  <2>1. RequestsAreAsked' /\ SentinelsAreFull' /\ NoTraceBefore'
    BY <1>25, <1>t
   
      DEF ControllerStart, netVars, hookVars, fileVars, wdVars, NoEntry,
          RequestsAreAsked, SentinelsAreFull, NoTraceBefore, BusyHookHasTry
  <2>2. FirstTries'
    BY <1>25, <1>t
   
      DEF ControllerStart, ctlVars, netVars, fileVars, wdVars, hookVars, FirstTries,
          Settled, OwnSignal, Answering, Asker, Serves, InService, AdmittedFor, Admitted
  <2> QED BY <2>1, <2>2
<1>26. ASSUME UNCHANGED vars PROVE Kept
  <2>1. RequestsAreAsked' /\ SentinelsAreFull' /\ NoTraceBefore'
    BY <1>26, <1>t
   
      DEF vars, netVars, hookVars, fileVars, wdVars, NoEntry, RequestsAreAsked,
          SentinelsAreFull, NoTraceBefore, BusyHookHasTry
  <2>2. FirstTries'
    BY <1>26, <1>t
   
     
        DEF vars, ctlVars, netVars, fileVars, wdVars, hookVars, FirstTries,
            Settled, OwnSignal, Answering,
          Asker, Serves, InService, AdmittedFor, Admitted
  <2> QED BY <2>1, <2>2
<1>27. ASSUME NEW h \in Hooks, ChildExits(h) PROVE Kept
  <2>1. /\ hook'[h].pc = "report" /\ hook'[h].drv = hook[h].drv /\ hook'[h].try = hook[h].try
          /\ \A g \in Hooks \ {h} : hook'[g] = hook[g]
    BY <1>27, <1>t, GotoKeeps DEF ChildExits, HookPc, HookState
  <2>2. hook[h].pc # "idle" /\ hook[h].drv \in Drvs /\ tried[hook[h].drv] # 0
    BY <1>27, <1>t DEF ChildExits, BusyHookHasTry
  <2>3. RequestsAreAsked' /\ SentinelsAreFull' /\ NoTraceBefore'
    BY <1>27, <1>t, <2>1, <2>2
   
      DEF ChildExits, netVars, hookVars, fileVars, wdVars, RequestsAreAsked,
          SentinelsAreFull, NoTraceBefore, BusyHookHasTry
  <2>4. FirstTries'
    BY <1>27, <1>t, <2>1, <2>2
   
     
        DEF ChildExits, ctlVars, netVars, fileVars, wdVars, FirstTries, Settled,
            OwnSignal, Answering, Asker,
          Serves, InService, AdmittedFor, Admitted
  <2> QED BY <2>3, <2>4
<1> QED
  BY <1>1, <1>2, <1>3, <1>4, <1>5, <1>6, <1>7, <1>8, <1>9, <1>10, <1>11, <1>12, <1>13,
      <1>14, <1>15, <1>16, <1>17, <1>18, <1>19, <1>20, <1>21, <1>22, <1>23, <1>24,
      <1>25, <1>26, <1>27
  DEF Next, HookNext, WatchdogNext

LEMMA FirstTryInduction == Spec => []FirstTryInv
<1> DEFINE Rest == RequestsAreAsked /\ SentinelsAreFull /\ NoTraceBefore /\ FirstTries
<1>1. SentinelInv /\ Rest /\ SentinelInv' /\ [Next]_vars => Rest'
  BY FirstTryStep DEF FirstTryInv
<1>2. FirstTryInv <=> SentinelInv /\ Rest
  BY DEF FirstTryInv
<1>3. Init => Rest
  BY FirstTryInit
<1> HIDE DEF Rest
<1> QED
  BY <1>1, <1>2, <1>3, SentinelInduction, PTL DEF Spec

(* What the watchdog and the hook do about one derivation never meets on   *)
(* its first try: the admitted build in service has its complete sentinel, *)
(* if the sweep has not failed to read it.                                 *)
THEOREM FirstTriesAreGuarded == Spec => []FirstTryIsGuarded
<1>1. FirstTryInv => FirstTryIsGuarded
  <2> SUFFICES ASSUME FirstTryInv, NEW h \in Hooks, NEW d \in Drvs, d \notin misread,
                      Serves(h, d), tried[d] = 1, ctl = "up", AdmittedFor(h, d)
               PROVE  sentinels[d] = [pid |-> h, try |-> hook[h].try, full |-> TRUE]
    BY DEF FirstTryIsGuarded
  <2>1. Settled(h, d)
    BY DEF FirstTryInv, FirstTries, Asker, Serves, InService
  <2>2. sentinels[d] # NoFile
    BY <2>1 DEF Settled
  <2>3. sentinels[d] \in File /\ sentinels[d].pid \in Hooks /\ sentinels[d].full
    BY <2>2 DEF FirstTryInv, SentinelsAreFull, SentinelInv, Typed, TypeOK
  <2>4. Asker(sentinels[d].pid, d) /\ hook[sentinels[d].pid].try = sentinels[d].try
    BY <2>3, NothingAssumption
      DEF FirstTryInv, SentinelInv, NoForgottenSentinel, Asker, Answering
  <2>5. sentinels[d].pid = h
    BY <2>1, <2>3, <2>4 DEF Settled
  <2> QED
    BY <2>3, <2>4, <2>5 DEF File
<1> QED
  BY <1>1, FirstTryInduction, PTL

(* ... and its admission goes only with the controller, by the TTL or by   *)
(* the word of its own finish, once the target has built it: no report and *)
(* no sweep of a sentinel takes it.                                        *)
THEOREM FirstTriesStayAdmitted == Spec => FirstTryKeepsAdmission
<1> DEFINE Keeps == \A h \in Hooks, d \in Drvs :
       Serves(h, d) /\ tried[d] = 1 /\ AdmittedFor(h, d) /\ admissions'[d] = NoRow
         => ctl = "down" \/ Stale(admissions[d]) \/ OwnFinishHandled(h)
<1>1. ASSUME FirstTryInv, [Next]_vars PROVE Keeps
  <2> SUFFICES ASSUME NEW h \in Hooks, NEW d \in Drvs, Serves(h, d), tried[d] = 1,
                      AdmittedFor(h, d), admissions'[d] = NoRow, ctl # "down"
               PROVE  Stale(admissions[d]) \/ OwnFinishHandled(h)
    OBVIOUS
  <2>1. admissions \in [Drvs -> Row] /\ admissions[d] # NoRow
    BY <1>1 DEF FirstTryInv, SentinelInv, Typed, TypeOK, AdmittedFor, Admitted
  <2>2. Settled(h, d) /\ hook[h].pc \in {"delegating", "accepted", "copying"}
    BY <1>1 DEF FirstTryInv, FirstTries, Asker, Serves, InService
  <2>3. ASSUME NEW g \in Hooks, MakeDecision(g) PROVE FALSE
    <3>1. PICK row \in Row : row # NoRow /\ admissions' = [admissions EXCEPT ![hook[g].drv] = row]
      <4>1. admissions' # admissions
        BY <2>1
      <4>2. PICK kind \in {"local", "remote"} : \E p \in Predictions :
              admissions' = [admissions EXCEPT ![hook[g].drv] =
                              [kind |-> kind, predicted |-> p, age |-> 0, by |-> hook[g].try]]
        BY <2>3, <4>1, Zenon DEF MakeDecision
      <4>3. PICK p \in Predictions :
              admissions' = [admissions EXCEPT ![hook[g].drv] =
                              [kind |-> kind, predicted |-> p, age |-> 0, by |-> hook[g].try]]
        BY <4>2
      <4>4. hook[g].try \in Nat /\ p \in Nat
        BY <1>1, PredictionsAssumption
          DEF FirstTryInv, SentinelInv, Typed, TypeOK, HookState
      <4> QED
        BY <4>3, <4>4 DEF Row, RowKind, NoRow
    <3> QED
      BY <2>1, <3>1
  <2>4. ASSUME NEW f \in finishes, HandleAdmissionFinish(f) PROVE FALSE
    BY <2>1, <2>2, <2>4 DEF HandleAdmissionFinish, RetireOrLose, Retire, Settled
  <2>5. ASSUME NEW e \in events, RecordFinish(e) PROVE OwnFinishHandled(h)
    <3>1. e.drv = d /\ events' = events \ {e}
      BY <2>1, <2>5 DEF RecordFinish, RetireOrLose, Retire
    <3>2. hook[h].pc = "copying" /\ e = OwnSignal(h)
      BY <2>2, <3>1 DEF Settled
    <3> QED
      BY <3>1, <3>2 DEF OwnFinishHandled
  <2>6. ASSUME RetireDeadHook PROVE FALSE
    BY <2>1, <2>2, <2>6 DEF RetireDeadHook, Retire, Settled
  <2>7. ASSUME SweepWallClockTtl PROVE Stale(admissions[d])
    BY <2>1, <2>7 DEF SweepWallClockTtl
  <2>8. ASSUME ClockTick PROVE FALSE
    <3>1. admissions'[d] = admissions[d] \/ admissions'[d] = [admissions[d] EXCEPT !.age = @ + 1]
      BY <2>8 DEF ClockTick
    <3> QED
      BY <2>1, <3>1 DEF Row, NoRow
  <2>9. \/ UNCHANGED admissions \/ ControllerStart
        \/ \E g \in Hooks : MakeDecision(g)
        \/ \E f \in finishes : HandleAdmissionFinish(f)
        \/ \E e \in events : RecordFinish(e)
        \/ RetireDeadHook \/ SweepWallClockTtl \/ ClockTick
    BY <1>1
      DEF Next, HookNext, WatchdogNext, vars, ctlVars, AskController, HandleDecline,
          HandleAccept,
       CreateTmp, WriteTmp, RenameTmp, SentinelFails, ChildDeclines, ChildAccepts,
           RemoteBuildSucceeds, ChildExits,
       ReportFinish, DropSentinel, HookCrash, LocalBuildEnds, WatchdogTick, ReadSentinel,
       UnlinkSentinel, ControllerCrash
  <2> QED
    BY <2>1, <2>3, <2>4, <2>5, <2>6, <2>7, <2>8, <2>9 DEF ControllerStart
<1>2. FirstTryInv /\ [Next]_vars => [Keeps]_vars
  BY <1>1
<1> QED
  BY <1>2, FirstTryInduction, PTL DEF Spec, FirstTryKeepsAdmission
=============================================================================
