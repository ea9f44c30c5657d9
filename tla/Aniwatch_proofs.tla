--------------------------- MODULE Aniwatch_proofs ---------------------------
(***************************************************************************)
(* Proofs about aniwatch: the file, and whoever may still overwrite it,    *)
(* answers for every copy, and for every copy the user has removed.        *)
(***************************************************************************)
EXTENDS Aniwatch, TLAPS

\* A copy that is there, or one that must not come back.
Copied(f) == dest[f] \in {"partial", "copy"}
Known(f) == Copied(f) \/ f \in removed

\* What the running sync, or a fault or an overlap before it, answers for.
OfSync == sync.done \cup {sync.cur} \cup spoiled

\* The file answers for what sync does not.
FileAnswers ==
  file.kind = "ok" => \A f \in Name : Known(f) => f \in Tracked(file.state) \cup OfSync

\* So does the state sync has loaded, whoever has written the file since.
SyncAnswers ==
  sync.pc # "off" =>
    \A f \in Name : Known(f) => f \in Tracked(sync.state) \cup {sync.cur} \cup spoiled

\* And what clean would write now; with it, clean forgets the removed copies it has
\* deleted an entry of.
CleanAnswers ==
  clean.pc # "off" =>
    \A f \in Name : Copied(f) \/ f \in removed \ clean.done
                      => f \in clean.state.fresh \cup (clean.state.old \ clean.done) \cup OfSync

\* The place of each process and what it holds there.
Places ==
  /\ sync.pc \in {"off", "loop", "save"} => sync.cur = Nobody
  /\ sync.pc \in {"wait", "copy"} => sync.cur \in Name
  /\ sync.pc = "off" => sync.done = {}
  /\ sync.done \subseteq sync.state.fresh
  /\ sync.pc # "off" /\ clean.pc # "off" => ~sync.alone
  /\ file.kind = "none" => /\ sync.pc = "off" /\ clean.pc = "off"
                           /\ \A f \in Name : ~Known(f)
  /\ sync.pc = "wait" => dest[sync.cur] = "none" /\ (sync.cur \in removed => sync.cur \in spoiled)

\* A file that does not parse is one that is being written, or one that was not well.
Writable == file.kind = "torn" => broken \/ sync.pc = "save" \/ clean.pc = "save"

BookInv == TypeOK /\ Places /\ Writable /\ FileAnswers /\ SyncAnswers /\ CleanAnswers

-----------------------------------------------------------------------------
(* Types. *)

LEMMA StateTypes ==
  ASSUME NEW state \in State, NEW done
  PROVE  /\ Tracked(state) \subseteq Name
         /\ Kept(state, done) \in State
         /\ Tracked(Kept(state, done)) = state.fresh \cup (state.old \ done)
  BY DEF State, Tracked, Kept

LEMMA EmptyTyped == Empty \in State
  BY DEF State, Empty

LEMMA WrittenTypes ==
  ASSUME NEW state \in State
  PROVE  Written(state) \subseteq File /\ \A w \in Written(state) :
           (w.kind = "torn" /\ w = Torn) \/ (w.kind = "ok" /\ w.state = state)
  BY EmptyTyped DEF Written, Holding, Torn, File

LEMMA OffTyped == Off \in Process({"off", "loop", "wait", "copy", "save"})
                  /\ Off \in Process({"off", "loop", "save"})
  BY EmptyTyped DEF Off, Process

\* That what is copied has a name is part of Places.
LEMMA TypeStep ==
  ASSUME TypeOK, sync.pc = "copy" => sync.cur \in Name, [Next]_vars
  PROVE  TypeOK'
<1> USE AniwatchAssumption
<1>1. CASE InitCommand
  BY <1>1 DEF InitCommand, history, TypeOK, Holding, File, Empty, State
<1>2. CASE SyncStarts
  BY <1>2, StateTypes DEF SyncStarts, TypeOK, history, Off, Process, File
<1>3. CASE Gone
  BY <1>3, OffTyped DEF Gone, TypeOK, SyncAborts, Off, Process, Empty, State
<1>4. CASE LookAgain
  BY <1>4 DEF LookAgain, TypeOK, history, Process
<1>5. CASE CopyStarts
  BY <1>5 DEF CopyStarts, TypeOK, history, Process
<1>6. CASE CopyEnds
  <2>1. sync.state \in State /\ sync.cur \in Name BY <1>6 DEF CopyEnds, TypeOK, Process
  <2>2. [sync.state EXCEPT !.fresh = @ \cup {sync.cur}] \in State BY <2>1 DEF State
  <2>3. sync.done \cup {sync.cur} \subseteq Name BY <2>1 DEF TypeOK, Process
  <2>4. sync' \in Process({"off", "loop", "wait", "copy", "save"})
    BY <1>6, <2>2, <2>3 DEF CopyEnds, TypeOK, Process
  <2> QED BY <1>6, <2>4 DEF CopyEnds, TypeOK, history
<1>7. CASE SyncTruncates
  BY <1>7, EmptyTyped DEF SyncTruncates, TypeOK, history, Process, Torn, File
<1>8. CASE SyncSaves
  BY <1>8, OffTyped, WrittenTypes DEF SyncSaves, TypeOK, Process
<1>9. CASE \E f \in Name : Skip(f) \/ Look(f)
  <2>1. PICK f \in Name : Skip(f) \/ Look(f) BY <1>9
  <2>2. CASE Skip(f) BY <2>2 DEF Skip, history, TypeOK, Process
  <2>3. CASE Look(f) BY <2>3 DEF Look, history, TypeOK, Process
  <2> QED BY <2>1, <2>2, <2>3
<1>10. CASE CleanStarts
  BY <1>10, StateTypes DEF CleanStarts, Expired, Off, history, TypeOK, Process, File, State
<1>11. CASE CleanTruncates
  BY <1>11, EmptyTyped DEF CleanTruncates, history, TypeOK, Process, Torn, File
<1>12. CASE CleanSaves
  <2>1. clean.state \in State BY DEF TypeOK, Process
  <2>2. Kept(clean.state, clean.done) \in State BY <2>1, StateTypes
  <2> QED BY <1>12, <2>2, WrittenTypes, OffTyped DEF CleanSaves, TypeOK
<1>13. CASE \E f \in Name : Missing(f) \/ Delete(f)
  <2>1. PICK f \in Name : Missing(f) \/ Delete(f) BY <1>13
  <2>2. CASE Missing(f) BY <2>2 DEF Missing, history, TypeOK, Process
  <2>3. CASE Delete(f) BY <2>3 DEF Delete, history, TypeOK, Process
  <2> QED BY <2>1, <2>2, <2>3
<1>14. CASE CopyFails
  BY <1>14, OffTyped DEF CopyFails, Fault, SyncAborts, TypeOK, Process
<1>15. CASE SaveFails
  BY <1>15, OffTyped DEF SaveFails, Fault, SyncAborts, TypeOK, Process
<1>16. CASE Expire
  <2>1. file.state \in State BY DEF TypeOK, File
  <2>2. [file.state EXCEPT !.fresh = {}, !.old = Tracked(file.state)] \in State
    BY <2>1, StateTypes DEF State
  <2> QED BY <1>16, <2>2 DEF Expire, Holding, TypeOK, File
<1>17. CASE Crash
  BY <1>17, OffTyped DEF Crash, Fault, SyncAborts, TypeOK, Process
<1>18. CASE \E f \in Name : DeleteFails(f) \/ Writes(f) \/ RemovesSource(f) \/ RemovesCopy(f)
  <2>1. PICK f \in Name : DeleteFails(f) \/ Writes(f) \/ RemovesSource(f) \/ RemovesCopy(f)
    BY <1>18
  <2>2. CASE DeleteFails(f) BY <2>2, OffTyped DEF DeleteFails, Fault, history, TypeOK
  <2>3. CASE Writes(f) BY <2>3 DEF Writes, history, TypeOK, Process
  <2>4. CASE RemovesSource(f) BY <2>4 DEF RemovesSource, history, TypeOK
  <2>5. CASE RemovesCopy(f) BY <2>5 DEF RemovesCopy, TypeOK
  <2> QED BY <2>1, <2>2, <2>3, <2>4, <2>5
<1>19. CASE UNCHANGED vars
  BY <1>19 DEF vars, TypeOK
<1> QED
  BY <1>1, <1>2, <1>3, <1>4, <1>5, <1>6, <1>7, <1>8, <1>9, <1>10, <1>11, <1>12, <1>13,
     <1>14, <1>15, <1>16, <1>17, <1>18, <1>19 DEF Next, Sync, Clean, Others

-----------------------------------------------------------------------------
(* The bookkeeping.  Each process on its own keeps it; what an abort or an overlap
   would break is in `spoiled`. *)

LEMMA BookInit == Init => BookInv
<1> SUFFICES ASSUME Init PROVE BookInv OBVIOUS
<1>1. TypeOK
  <2>1. broken \in BOOLEAN
    BY Zenon DEF Init
  <2> QED BY <2>1, AniwatchAssumption, OffTyped, EmptyTyped DEF Init, TypeOK, File
<1>2. Places /\ Writable /\ FileAnswers /\ SyncAnswers /\ CleanAnswers
  BY
    DEF Init, Off, Places, Writable, FileAnswers, SyncAnswers, CleanAnswers, Known, Copied,
        OfSync, Tracked
<1> QED BY <1>1, <1>2 DEF BookInv

LEMMA BookStep ==
  ASSUME BookInv, [Next]_vars
  PROVE  BookInv'
<1> USE AniwatchAssumption
<1>0. TypeOK /\ Places /\ Writable /\ FileAnswers /\ SyncAnswers /\ CleanAnswers
  BY DEF BookInv
<1>t. TypeOK' BY <1>0, TypeStep DEF Places
<1>1. CASE InitCommand
  <2> QED BY <1>0, <1>t, <1>1
      DEF InitCommand, history, Holding, Empty, BookInv, TypeOK,
      Places, Writable, FileAnswers, SyncAnswers, CleanAnswers, Known, Copied, OfSync, Tracked
<1>2. CASE SyncStarts
  <2>1. /\ sync'.pc = "loop"
        /\ sync'.state = file.state
        /\ sync'.done = {}
        /\ sync'.cur = Nobody
        /\ sync'.alone = (clean.pc = "off")
    BY <1>0, <1>2 DEF SyncStarts, history, Off, TypeOK, Process, State
  <2> QED BY <1>0, <1>t, <1>2, <2>1
      DEF SyncStarts, history, Off, BookInv, TypeOK,
      Places, Writable, FileAnswers, SyncAnswers, CleanAnswers, Known, Copied, OfSync, Tracked
<1>3. CASE Gone
  <2>1. sync'.pc = "off" /\ sync'.done = {} /\ sync'.cur = Nobody
    BY <1>0, <1>3 DEF Gone, SyncAborts, Off, TypeOK, Process, State
  <2> QED BY <1>0, <1>t, <1>3, <2>1
      DEF Gone, SyncAborts, Off, BookInv, TypeOK,
      Places, Writable, FileAnswers, SyncAnswers, CleanAnswers, Known, Copied, OfSync, Tracked
<1>4. CASE LookAgain
  <2>1. /\ sync'.pc = sync.pc
        /\ sync'.state = sync.state
        /\ sync'.done = sync.done
        /\ sync'.cur = sync.cur
        /\ sync'.alone = sync.alone
    BY <1>0, <1>4 DEF LookAgain, history, TypeOK, Process, State
  <2> QED BY <1>0, <1>t, <1>4, <2>1
      DEF LookAgain, history, BookInv, TypeOK,
      Places, Writable, FileAnswers, SyncAnswers, CleanAnswers, Known, Copied, OfSync, Tracked
<1>5. CASE CopyStarts
  <2>1. /\ sync'.pc = "copy"
        /\ sync'.state = sync.state
        /\ sync'.done = sync.done
        /\ sync'.cur = sync.cur
        /\ sync'.alone = sync.alone
    BY <1>0, <1>5 DEF CopyStarts, history, TypeOK, Process, State
  <2> QED BY <1>0, <1>t, <1>5, <2>1
      DEF CopyStarts, history, BookInv, TypeOK,
      Places, Writable, FileAnswers, SyncAnswers, CleanAnswers, Known, Copied, OfSync, Tracked
<1>6. CASE CopyEnds
  <2>1. /\ sync'.pc = "loop"
        /\ sync'.state.fresh = sync.state.fresh \cup {sync.cur}
        /\ sync'.state.old = sync.state.old
        /\ sync'.done = sync.done \cup {sync.cur}
        /\ sync'.cur = Nobody
        /\ sync'.alone = sync.alone
    BY <1>0, <1>6 DEF CopyEnds, history, TypeOK, Process, State
  <2> QED BY <1>0, <1>t, <1>6, <2>1
      DEF CopyEnds, history, BookInv, TypeOK,
      Places, Writable, FileAnswers, SyncAnswers, CleanAnswers, Known, Copied, OfSync, Tracked
<1>7. CASE SyncTruncates
  <2>1. /\ sync'.pc = "save"
        /\ file'.kind = "torn"
        /\ sync'.state = sync.state
        /\ sync'.done = sync.done
        /\ sync'.cur = sync.cur
        /\ sync'.alone = sync.alone
    BY <1>0, <1>7 DEF SyncTruncates, history, Torn, TypeOK, Process, State
  <2> QED BY <1>0, <1>t, <1>7, <2>1
      DEF SyncTruncates, history, Torn, BookInv, TypeOK,
      Places, Writable, FileAnswers, SyncAnswers, CleanAnswers, Known, Copied, OfSync, Tracked
<1>8. CASE SyncSaves
  <2>1. /\ sync'.pc = "off"
        /\ sync'.done = {}
        /\ sync'.cur = Nobody
        /\ file'.kind = "torn" \/ (file'.kind = "ok" /\ file'.state = sync.state)
    BY <1>0, <1>8, WrittenTypes DEF SyncSaves, Off, TypeOK, Process, State
  <2>2. file'.kind = "torn" => broken'
    BY <1>0, <1>8, WrittenTypes DEF SyncSaves, TypeOK, Process
  <2> QED BY <1>0, <1>t, <1>8, <2>1, <2>2
      DEF SyncSaves, Off, BookInv, TypeOK,
      Places, Writable, FileAnswers, SyncAnswers, CleanAnswers, Known, Copied, OfSync, Tracked
<1>9. ASSUME NEW f \in Name, Skip(f) PROVE BookInv'
  <2>1. /\ sync'.pc = sync.pc
        /\ sync'.state = sync.state
        /\ sync'.done = sync.done
        /\ sync'.cur = sync.cur
        /\ sync'.alone = sync.alone
    BY <1>0, <1>9 DEF Skip, history, TypeOK, Process, State
  <2> QED BY <1>0, <1>t, <1>9, <2>1
      DEF Skip, history, BookInv, TypeOK,
      Places, Writable, FileAnswers, SyncAnswers, CleanAnswers, Known, Copied, OfSync, Tracked
<1>10. ASSUME NEW f \in Name, Look(f) PROVE BookInv'
  <2>1. /\ sync'.pc = "wait"
        /\ sync'.cur = f
        /\ sync'.state = sync.state
        /\ sync'.done = sync.done
        /\ sync'.alone = sync.alone
    BY <1>0, <1>10 DEF Look, Skipped, history, TypeOK, Process, State
  <2> QED BY <1>0, <1>t, <1>10, <2>1
      DEF Look, Skipped, history, BookInv, TypeOK,
      Places, Writable, FileAnswers, SyncAnswers, CleanAnswers, Known, Copied, OfSync, Tracked
<1>11. CASE CleanStarts
  <2>1. /\ clean'.pc = "loop"
        /\ clean'.state = file.state
        /\ clean'.done = {}
        /\ sync'.pc = sync.pc
        /\ sync.pc # "off" => ~sync'.alone
        /\ sync'.state = sync.state
        /\ sync'.done = sync.done
        /\ sync'.cur = sync.cur
    BY <1>0, <1>11 DEF CleanStarts, Off, Expired, history, TypeOK, Process, State
  <2> QED BY <1>0, <1>t, <1>11, <2>1
      DEF CleanStarts, Off, Expired, history, BookInv, TypeOK,
      Places, Writable, FileAnswers, SyncAnswers, CleanAnswers, Known, Copied, OfSync, Tracked
<1>12. CASE CleanTruncates
  <2>1. /\ clean'.pc = "save"
        /\ file'.kind = "torn"
        /\ clean'.state = clean.state
        /\ clean'.done = clean.done
    BY <1>0, <1>12 DEF CleanTruncates, Torn, history, TypeOK, Process, State
  <2> QED BY <1>0, <1>t, <1>12, <2>1
      DEF CleanTruncates, Torn, history, BookInv, TypeOK,
      Places, Writable, FileAnswers, SyncAnswers, CleanAnswers, Known, Copied, OfSync, Tracked
<1>13. CASE CleanSaves
  <2>1. /\ clean'.pc = "off"
        /\ \/ file'.kind = "torn"
           \/ /\ file'.kind = "ok"
              /\ Tracked(file'.state) = clean.state.fresh \cup (clean.state.old \ clean.done)
    BY <1>0, <1>13, WrittenTypes, StateTypes DEF CleanSaves, Off, TypeOK, Process, State
  <2>2. file'.kind = "torn" => broken'
    BY <1>0, <1>13, WrittenTypes, StateTypes DEF CleanSaves, TypeOK, Process
  <2> QED BY <1>0, <1>t, <1>13, <2>1, <2>2
      DEF CleanSaves, Off, BookInv, TypeOK,
      Places, Writable, FileAnswers, SyncAnswers, CleanAnswers, Known, Copied, OfSync, Tracked
<1>14. ASSUME NEW f \in Name, Missing(f) PROVE BookInv'
  <2>1. clean'.pc = clean.pc /\ clean'.state = clean.state /\ clean'.done = clean.done
    BY <1>0, <1>14 DEF Missing, history, TypeOK, Process, State
  <2> QED BY <1>0, <1>t, <1>14, <2>1
      DEF Missing, history, BookInv, TypeOK,
      Places, Writable, FileAnswers, SyncAnswers, CleanAnswers, Known, Copied, OfSync, Tracked
<1>15. ASSUME NEW f \in Name, Delete(f) PROVE BookInv'
  <2>1. clean'.pc = clean.pc /\ clean'.state = clean.state /\ clean'.done = clean.done \cup {f}
    BY <1>0, <1>15 DEF Delete, history, TypeOK, Process, State
  <2> QED BY <1>0, <1>t, <1>15, <2>1
      DEF Delete, history, BookInv, TypeOK,
      Places, Writable, FileAnswers, SyncAnswers, CleanAnswers, Known, Copied, OfSync, Tracked
<1>16. CASE CopyFails
  <2>1. sync'.pc = "off" /\ sync'.done = {} /\ sync'.cur = Nobody
    BY <1>0, <1>16 DEF CopyFails, SyncAborts, Off, TypeOK, Process, State
  <2> QED BY <1>0, <1>t, <1>16, <2>1
      DEF CopyFails, SyncAborts, Off, BookInv, TypeOK,
      Places, Writable, FileAnswers, SyncAnswers, CleanAnswers, Known, Copied, OfSync, Tracked
<1>17. CASE SaveFails
  <2> QED BY <1>0, <1>t, <1>17
      DEF SaveFails, SyncAborts, Off, BookInv, TypeOK,
      Places, Writable, FileAnswers, SyncAnswers, CleanAnswers, Known, Copied, OfSync, Tracked
<1>18. CASE Expire
  <2>1. file'.kind = "ok" /\ Tracked(file'.state) = Tracked(file.state)
    BY <1>0, <1>18 DEF Expire, Holding, TypeOK, Process, State, File, Tracked
  <2> QED BY <1>0, <1>t, <1>18, <2>1
      DEF Expire, Holding, BookInv, TypeOK,
      Places, Writable, FileAnswers, SyncAnswers, CleanAnswers, Known, Copied, OfSync, Tracked
<1>19. CASE Crash
  <2>1. /\ sync'.pc = "off"
        /\ sync'.done = {}
        /\ sync'.cur = Nobody
        /\ clean'.pc = "off"
    BY <1>0, <1>19 DEF Crash, SyncAborts, Off, TypeOK, Process, State
  <2> QED BY <1>0, <1>t, <1>19, <2>1
      DEF Crash, SyncAborts, Off, BookInv, TypeOK,
      Places, Writable, FileAnswers, SyncAnswers, CleanAnswers, Known, Copied, OfSync, Tracked
<1>20. ASSUME NEW f \in Name, DeleteFails(f) PROVE BookInv'
  <2>1. clean'.pc = "off"
    BY <1>0, <1>20 DEF DeleteFails, Off, history, TypeOK, Process, State
  <2> QED BY <1>0, <1>t, <1>20, <2>1
      DEF DeleteFails, Off, history, BookInv, TypeOK,
      Places, Writable, FileAnswers, SyncAnswers, CleanAnswers, Known, Copied, OfSync, Tracked
<1>21. ASSUME NEW f \in Name, Writes(f) PROVE BookInv'
  <2>1. /\ sync'.pc = sync.pc
        /\ sync'.state = sync.state
        /\ sync'.done = sync.done
        /\ sync'.cur = sync.cur
        /\ sync'.alone = sync.alone
    BY <1>0, <1>21 DEF Writes, history, TypeOK, Process, State
  <2> QED BY <1>0, <1>t, <1>21, <2>1
      DEF Writes, history, BookInv, TypeOK,
      Places, Writable, FileAnswers, SyncAnswers, CleanAnswers, Known, Copied, OfSync, Tracked
<1>22. ASSUME NEW f \in Name, RemovesSource(f) PROVE BookInv'
  <2> QED BY <1>0, <1>t, <1>22
      DEF RemovesSource, history, BookInv, TypeOK,
      Places, Writable, FileAnswers, SyncAnswers, CleanAnswers, Known, Copied, OfSync, Tracked
<1>23. ASSUME NEW f \in Name, RemovesCopy(f) PROVE BookInv'
  <2> QED BY <1>0, <1>t, <1>23
      DEF RemovesCopy, BookInv, TypeOK,
      Places, Writable, FileAnswers, SyncAnswers, CleanAnswers, Known, Copied, OfSync, Tracked
<1>24. CASE UNCHANGED vars
  <2> QED BY <1>0, <1>t, <1>24
      DEF vars, history, BookInv, TypeOK,
      Places, Writable, FileAnswers, SyncAnswers, CleanAnswers, Known, Copied, OfSync, Tracked
<1> QED
  BY <1>t, <1>1, <1>2, <1>3, <1>4, <1>5, <1>6, <1>7, <1>8, <1>9, <1>10, <1>11, <1>12,
      <1>13, <1>14, <1>15, <1>16, <1>17, <1>18, <1>19, <1>20, <1>21, <1>22, <1>23, <1>24
     DEF Next, Sync, Clean, Others

\* Every copy is in the file, and in what a run that has truncated it will write, or in
\* the hands of the run that makes it, unless that run failed or a clean overlapped with
\* it; and there is a file, or a run that is writing one, unless the last save failed,
\* was cut short or ran into another (main.rs:225-243, 291-295).
THEOREM CopiesNeverLost == Spec => []CopiesAreTracked
<1>1. ASSUME BookInv PROVE CopiesAreTracked
  <2>1. Accounts = {} => broken \/ file.kind = "none"
    BY <1>1 DEF BookInv, Writable, Accounts, TypeOK, File
  <2>2. ASSUME NEW f \in Name, dest[f] \in {"partial", "copy"}, NEW state \in Accounts
        PROVE  f \in Tracked(state) \cup sync.done \cup {sync.cur} \cup spoiled
    <3>1. CASE file.kind = "ok" /\ state = file.state
      BY <1>1, <2>2, <3>1 DEF BookInv, FileAnswers, Known, Copied, OfSync
    <3>2. CASE sync.pc = "save" /\ state = sync.state
      BY <1>1, <2>2, <3>2 DEF BookInv, SyncAnswers, Known, Copied
    <3>3. CASE clean.pc = "save" /\ state = Kept(clean.state, clean.done)
      <4>1. Tracked(state) = clean.state.fresh \cup (clean.state.old \ clean.done)
        BY <1>1, <3>3, StateTypes DEF BookInv, TypeOK, Process
      <4> QED BY <1>1, <2>2, <3>3, <4>1 DEF BookInv, CleanAnswers, Copied, OfSync
    <3> QED BY <2>2, <3>1, <3>2, <3>3 DEF Accounts
  <2> QED BY <2>1, <2>2, Zenon DEF CopiesAreTracked
<1> QED BY BookInit, BookStep, <1>1, PTL DEF Spec

\* A copy that the user has removed does not come back (main.rs:203-207), unless the run
\* that made it failed or a clean overlapped with it.
THEOREM RemovedForGood == Spec => RemovedStaysRemoved
<1> DEFINE Stays == \A f \in removed : dest[f] = "none" /\ dest'[f] = "partial" => f \in spoiled
<1>1. ASSUME BookInv, [Next]_vars PROVE Stays
  <2> SUFFICES ASSUME NEW f \in removed, dest[f] = "none", dest'[f] = "partial"
               PROVE  f \in spoiled
    OBVIOUS
  <2>1. dest \in [Name -> {"none", "partial", "copy", "foreign"}] /\ f \in Name
    BY <1>1 DEF BookInv, TypeOK
  <2>2. CopyStarts /\ f = sync.cur
    BY <1>1, <2>1 DEF Next, Sync, Clean, Others, vars, history, InitCommand, SyncStarts,
       Gone, LookAgain, CopyStarts, CopyEnds, SyncTruncates, SyncSaves, Skip, Look,
       CleanStarts, CleanTruncates, CleanSaves, Missing, Delete, CopyFails, SaveFails,
       Expire, Crash, DeleteFails, Writes, RemovesSource, RemovesCopy
  <2> QED BY <1>1, <2>2 DEF CopyStarts, BookInv, Places
<1>2. BookInv /\ [Next]_vars => [Stays]_vars BY <1>1
<1> QED BY BookInit, BookStep, <1>2, PTL DEF Spec, RemovedStaysRemoved
=============================================================================
