------------------------------ MODULE Aniwatch ------------------------------
(***************************************************************************)
(* aniwatch (tools/aniwatch): `sync` copies new files from Anime to        *)
(* Sync/Watched every half hour, `clean` deletes its copies after two      *)
(* weeks, and a JSON file says which copies are theirs.  They are two      *)
(* services that may run at the same time; each loads the file when it     *)
(* starts and writes it when it is done.  A user and a downloader work in  *)
(* both directories meanwhile, and the host may go down.                   *)
(***************************************************************************)
EXTENDS Naturals, FiniteSets

CONSTANTS
  Name,         \* file names; the directories below Anime do not matter
  Nobody,       \* no name
  MaxFaults,    \* bound on failing calls and crashes
  MaxExpiries   \* bound on the times that two weeks pass

ASSUME AniwatchAssumption ==
  Nobody \notin Name /\ MaxFaults \in Nat /\ MaxExpiries \in Nat

VARIABLES
  anime,     \* the files in Anime
  dest,      \* what is in Sync/Watched under each name
  file,      \* state.json
  sync,      \* the process `aniwatch sync`
  clean,     \* the process `aniwatch clean`
  removed,   \* history: copies the user has removed, under names still in the file
  spoiled,   \* history: names whose entry a fault or an overlap may have lost
  broken,    \* history: the last save went wrong, so that nobody knows any copy
  faults, expiries

vars == <<anime, dest, file, sync, clean, removed, spoiled, broken, faults, expiries>>
history == <<removed, spoiled, broken, expiries>>

\* tracked_files, by age: copied less than two weeks ago, or longer.  preexisting_files.
State == [fresh : SUBSET Name, old : SUBSET Name, pre : SUBSET Name]
Empty == [fresh |-> {}, old |-> {}, pre |-> {}]
Tracked(state) == state.fresh \cup state.old

\* A file that has been truncated and not written since, or that two have written, is
\* torn: it exists and does not parse.
File == [kind : {"none", "torn", "ok"}, state : State]
Torn == [kind |-> "torn", state |-> Empty]
Holding(state) == [kind |-> "ok", state |-> state]

\* `done`: the names copied, or the copies deleted, by this run.
Off == [pc |-> "off", state |-> Empty, todo |-> {}, done |-> {}, cur |-> Nobody,
        changed |-> FALSE, alone |-> TRUE]
Process(places) ==
  [pc : places, state : State, todo : SUBSET Name, done : SUBSET Name,
   cur : Name \cup {Nobody}, changed : BOOLEAN, alone : BOOLEAN]

TypeOK ==
  /\ anime \subseteq Name
  /\ dest \in [Name -> {"none", "partial", "copy", "foreign"}]
  /\ file \in File
  /\ sync \in Process({"off", "loop", "wait", "copy", "save"})
  /\ clean \in Process({"off", "loop", "save"})
  /\ removed \subseteq Name /\ spoiled \subseteq Name /\ broken \in BOOLEAN
  /\ faults \in 0..MaxFaults /\ expiries \in 0..MaxExpiries

Init ==
  /\ anime \in SUBSET Name
  /\ dest \in [Name -> {"none", "foreign"}]
  /\ file = [kind |-> "none", state |-> Empty]
  /\ sync = Off /\ clean = Off
  /\ removed = {} /\ spoiled = {} /\ broken = FALSE /\ faults = 0 /\ expiries = 0

Fault == faults < MaxFaults /\ faults' = faults + 1

-----------------------------------------------------------------------------
(* aniwatch init, by hand, once: what is there already is left alone. *)

InitCommand ==
  /\ file.kind = "none"
  /\ file' = Holding([Empty EXCEPT !.pre = anime])
  /\ UNCHANGED <<anime, dest, sync, clean, history, faults>>

-----------------------------------------------------------------------------
(* aniwatch sync *)

\* A run that ends without having saved: its copies stay and nobody knows them.
SyncAborts ==
  /\ sync' = Off
  /\ spoiled' = spoiled \cup sync.done \cup ({sync.cur} \ {Nobody})

SyncStarts ==
  /\ sync.pc = "off" /\ file.kind = "ok"
  /\ sync' = [Off EXCEPT !.pc = "loop", !.state = file.state, !.todo = anime,
                         !.alone = (clean.pc = "off")]
  /\ UNCHANGED <<anime, dest, file, clean, history, faults>>

\* Preexisting, tracked or there already.
Skipped(f) ==
  f \in sync.state.pre \cup Tracked(sync.state) \/ dest[f] # "none"

Skip(f) ==
  /\ sync.pc = "loop" /\ f \in sync.todo /\ Skipped(f)
  /\ sync' = [sync EXCEPT !.todo = @ \ {f}]
  /\ UNCHANGED <<anime, dest, file, clean, history, faults>>

Look(f) ==
  /\ sync.pc = "loop" /\ f \in sync.todo /\ ~Skipped(f) /\ f \in anime
  /\ sync' = [sync EXCEPT !.pc = "wait", !.cur = f, !.changed = FALSE]
  /\ UNCHANGED <<anime, dest, file, clean, history, faults>>

\* A file that has gone since the scan fails the run, here and below.
Gone ==
  /\ \/ sync.pc = "loop" /\ \E f \in sync.todo : ~Skipped(f) /\ f \notin anime
     \/ sync.pc = "wait" /\ sync.cur \notin anime
  /\ SyncAborts
  /\ UNCHANGED <<anime, dest, file, clean, removed, broken, faults, expiries>>

\* Two seconds later: the same size and time, or wait again.
LookAgain ==
  /\ sync.pc = "wait" /\ sync.changed /\ sync.cur \in anime
  /\ sync' = [sync EXCEPT !.changed = FALSE]
  /\ UNCHANGED <<anime, dest, file, clean, history, faults>>

\* fs::copy truncates what is there by now.
CopyStarts ==
  /\ sync.pc = "wait" /\ ~sync.changed /\ sync.cur \in anime
  /\ dest' = [dest EXCEPT ![sync.cur] = "partial"]
  /\ sync' = [sync EXCEPT !.pc = "copy"]
  /\ UNCHANGED <<anime, file, clean, history, faults>>

CopyEnds ==
  /\ sync.pc = "copy"
  /\ dest' = [dest EXCEPT ![sync.cur] = IF @ = "partial" THEN "copy" ELSE @]
  /\ sync' = [sync EXCEPT !.pc = "loop", !.cur = Nobody, !.todo = @ \ {sync.cur},
                          !.done = @ \cup {sync.cur}, !.state.fresh = @ \cup {sync.cur}]
  /\ UNCHANGED <<anime, file, clean, history, faults>>

CopyFails ==
  /\ sync.pc = "copy" /\ Fault /\ SyncAborts
  /\ UNCHANGED <<anime, dest, file, clean, removed, broken, expiries>>

SyncTruncates ==
  /\ sync.pc = "loop" /\ sync.todo = {}
  /\ file' = Torn /\ sync' = [sync EXCEPT !.pc = "save"]
  /\ UNCHANGED <<anime, dest, clean, history, faults>>

\* What the other process has written since the truncation may stick out at the end.
Written(state) ==
  {Holding(state)} \cup (IF file.kind = "ok" THEN {Torn} ELSE {})

SyncSaves ==
  /\ sync.pc = "save"
  /\ file' \in Written(sync.state) /\ broken' = (file' = Torn)
  /\ sync' = Off
  /\ spoiled' = IF sync.alone THEN spoiled \ sync.done ELSE spoiled \cup sync.done
  /\ UNCHANGED <<anime, dest, clean, removed, faults, expiries>>

Sync ==
  \/ SyncStarts \/ Gone \/ LookAgain \/ CopyStarts \/ CopyEnds \/ SyncTruncates \/ SyncSaves
  \/ \E f \in Name : Skip(f) \/ Look(f)

-----------------------------------------------------------------------------
(* aniwatch clean *)

\* Variant: the comparison with the horizon is the wrong way round.
ExpiredReversed(state) == state.fresh

Expired(state) == state.old

\* The horizon is taken now; entries come in any order.
CleanStarts ==
  /\ clean.pc = "off" /\ file.kind = "ok"
  /\ clean' = [Off EXCEPT !.pc = "loop", !.state = file.state, !.todo = Expired(file.state)]
  /\ sync' = IF sync.pc = "off" THEN sync ELSE [sync EXCEPT !.alone = FALSE]
  /\ UNCHANGED <<anime, dest, file, history, faults>>

\* Nothing to delete: the entry stays.
Missing(f) ==
  /\ clean.pc = "loop" /\ f \in clean.todo /\ dest[f] = "none"
  /\ clean' = [clean EXCEPT !.todo = @ \ {f}]
  /\ UNCHANGED <<anime, dest, file, sync, history, faults>>

Delete(f) ==
  /\ clean.pc = "loop" /\ f \in clean.todo /\ dest[f] # "none"
  /\ dest' = [dest EXCEPT ![f] = "none"]
  /\ clean' = [clean EXCEPT !.todo = @ \ {f}, !.done = @ \cup {f}]
  /\ UNCHANGED <<anime, file, sync, history, faults>>

\* Variant: the error is reported and the next file is taken.
DeleteFailsAndGoesOn(f) ==
  /\ clean.pc = "loop" /\ f \in clean.todo /\ dest[f] # "none" /\ Fault
  /\ clean' = [clean EXCEPT !.todo = @ \ {f}, !.done = @ \cup {f}]
  /\ UNCHANGED <<anime, dest, file, sync, history>>

\* The run ends unsaved: what it has deleted stays tracked.
DeleteFails(f) ==
  /\ clean.pc = "loop" /\ f \in clean.todo /\ dest[f] # "none" /\ Fault
  /\ clean' = Off
  /\ UNCHANGED <<anime, dest, file, sync, history>>

CleanTruncates ==
  /\ clean.pc = "loop" /\ clean.todo = {}
  /\ file' = Torn /\ clean' = [clean EXCEPT !.pc = "save"]
  /\ UNCHANGED <<anime, dest, sync, history, faults>>

\* Variant: entries without a copy go as well.
KeptWithoutOld(state, done) == [state EXCEPT !.old = {}]

Kept(state, done) == [state EXCEPT !.old = @ \ done]

CleanSaves ==
  /\ clean.pc = "save"
  /\ file' \in Written(Kept(clean.state, clean.done)) /\ broken' = (file' = Torn)
  /\ clean' = Off
  /\ removed' = removed \ clean.done
  /\ UNCHANGED <<anime, dest, sync, spoiled, faults, expiries>>

Clean ==
  \/ CleanStarts \/ CleanTruncates \/ CleanSaves
  \/ \E f \in Name : Missing(f) \/ Delete(f)

-----------------------------------------------------------------------------
(* Everything else.  The user's own files in Sync/Watched were always there. *)

\* A file appears in Anime, or grows.
Writes(f) ==
  /\ anime' = anime \cup {f}
  /\ sync' = IF sync.pc = "wait" /\ sync.cur = f THEN [sync EXCEPT !.changed = TRUE] ELSE sync
  /\ UNCHANGED <<dest, file, clean, history, faults>>

RemovesSource(f) ==
  /\ f \in anime /\ anime' = anime \ {f}
  /\ UNCHANGED <<dest, file, sync, clean, history, faults>>

\* The user has watched it.
RemovesCopy(f) ==
  /\ dest[f] # "none" /\ dest' = [dest EXCEPT ![f] = "none"]
  /\ removed' = IF dest[f] = "foreign" THEN removed ELSE removed \cup {f}
  /\ UNCHANGED <<anime, file, sync, clean, spoiled, broken, faults, expiries>>

\* Two weeks pass, never during a run.
Expire ==
  /\ sync.pc = "off" /\ clean.pc = "off" /\ file.kind = "ok" /\ expiries < MaxExpiries
  /\ expiries' = expiries + 1
  /\ file' = Holding([file.state EXCEPT !.fresh = {}, !.old = Tracked(file.state)])
  /\ UNCHANGED <<anime, dest, sync, clean, removed, spoiled, broken, faults>>

\* The write fails when the file has been truncated: it stays torn.
SaveFails ==
  /\ Fault /\ broken' = TRUE
  /\ \/ sync.pc = "save" /\ SyncAborts /\ UNCHANGED clean
     \/ clean.pc = "save" /\ clean' = Off /\ UNCHANGED <<sync, spoiled>>
  /\ UNCHANGED <<anime, dest, file, removed, expiries>>

\* The host goes down.
Crash ==
  /\ (sync.pc # "off" \/ clean.pc # "off") /\ Fault
  /\ SyncAborts /\ clean' = Off
  /\ broken' = (broken \/ "save" \in {sync.pc, clean.pc})
  /\ UNCHANGED <<anime, dest, file, removed, expiries>>

Others ==
  \/ CopyFails \/ SaveFails \/ Expire \/ Crash
  \/ \E f \in Name : DeleteFails(f) \/ Writes(f) \/ RemovesSource(f) \/ RemovesCopy(f)

Next == InitCommand \/ Sync \/ Clean \/ Others

Spec == Init /\ [][Next]_vars

\* What runs goes on, and the timer that starts clean every day does not meet a file
\* that sync is just writing for ever.
FairSpec == Spec /\ WF_vars(Sync) /\ SF_vars(Clean)

-----------------------------------------------------------------------------
(* Properties. *)

\* Who accounts for the copies: the file as it is, and what a run that has truncated it is
\* about to write.
Accounts ==
  (IF file.kind = "ok" THEN {file.state} ELSE {})
  \cup (IF sync.pc = "save" THEN {sync.state} ELSE {})
  \cup (IF clean.pc = "save" THEN {Kept(clean.state, clean.done)} ELSE {})

\* Every copy is in every account, so that clean will find it whoever writes last, or it
\* is in the hands of the run that makes it (main.rs:225-243, 291-295); but for copies of
\* a sync run that failed or that a clean overlapped with.  There is no account only
\* after a save that failed, was cut short by a crash or ran into another one: such a
\* file loses every copy there is.
CopiesAreTracked ==
  /\ Accounts = {} => broken \/ file.kind = "none"
  /\ \A f \in Name : dest[f] \in {"partial", "copy"} =>
       \A state \in Accounts :
         f \in Tracked(state) \cup sync.done \cup {sync.cur} \cup spoiled

\* A copy that the user has removed does not come back (main.rs:203-207): its entry stays
\* although the two weeks are over, and through later runs that fail or overlap.  A copy
\* whose own run failed or overlapped with a clean may have no entry and does come back.
RemovedStaysRemoved ==
  [][\A f \in removed : dest[f] = "none" /\ dest'[f] = "partial" => f \in spoiled]_vars

\* Copies older than two weeks go, whatever overlaps, as long as no torn file stays.
ExpiredCopiesGo ==
  []<>(file.kind = "ok") =>
    \A f \in Name : (f \in file.state.old /\ dest[f] \in {"partial", "copy"})
                      ~> dest[f] \notin {"partial", "copy"}
=============================================================================
