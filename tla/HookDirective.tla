---------------------------- MODULE HookDirective ----------------------------
(***************************************************************************)
(* One nbb-hook process between Nix and `nix __build-remote`: Nix sends    *)
(* tries on the hook's stdin and reads log lines and directives, mixed, on *)
(* its stderr.  HookLifecycle has what a try does to the controller; here  *)
(* it is what Nix gets to read (hook/guard.rs, hook/delegate.rs).          *)
(***************************************************************************)
EXTENDS Naturals, Sequences, FiniteSets

CONSTANTS
  MaxTries, MaxLines    \* bounds on the tries and on the child's log lines

ASSUME DirectiveAssumption ==
  MaxTries \in Nat /\ MaxLines \in Nat

VARIABLES
  pc,        \* where run_hook is
  emitted,   \* DirectiveGuard.emitted
  drains,    \* number of threads that copy a child's stderr
  open,      \* the last line on the hook's stderr has no end yet
  glued,     \* history: a directive was written behind such a line
  pipe,      \* the hook's stderr: the lines Nix has not read
  stdin,     \* what Nix has written and the hook has not read
  nix,       \* Nix's side of the protocol
  tries, lines

vars == <<pc, emitted, drains, open, glued, pipe, stdin, nix, tries, lines>>
stderr == <<open, glued, pipe>>
hook == <<emitted, drains, stderr, lines>>
daemon == <<nix, tries>>

DeclineKind == {"decline", "decline-permanently", "postpone"}
Directive == DeclineKind \cup {"accept"}

\* A child's stderr is read at "listen" and "uri" and has ended at "ended"; Nix's
\* lists are read at "inputs".
Candidate == {"ask", "spawn", "listen", "uri", "ended"}
Committed == {"inputs", "feed", "wait", "finish"}

TypeOK ==
  /\ pc \in {"settings", "read", "drop", "exit", "failed"} \cup Candidate \cup Committed
  /\ emitted \in BOOLEAN /\ open \in BOOLEAN /\ glued \in BOOLEAN
  /\ drains \in Nat /\ tries \in 0..MaxTries /\ lines \in 0..MaxLines
  /\ pipe \in Seq(Directive \cup {"log"})
  /\ stdin \in {"none", "try", "inputs"}
  /\ nix \in {"idle", "asking", "sending", "building", "gone"}

Init ==
  /\ pc = "settings" /\ emitted = FALSE /\ drains = 0 /\ open = FALSE /\ glued = FALSE
  /\ pipe = <<>> /\ stdin = "none" /\ nix = "idle" /\ tries = 0 /\ lines = 0

-----------------------------------------------------------------------------
(* The hook's stderr. *)

\* A directive written behind an unfinished line is the end of that line.
WriteDirective(d) ==
  /\ pipe' = Append(pipe, IF open THEN "log" ELSE d)
  /\ open' = FALSE /\ glued' = (glued \/ open)

\* Only the first emission of a guard counts.
Emit(d) ==
  /\ IF emitted THEN UNCHANGED stderr ELSE WriteDirective(d)
  /\ emitted' = TRUE

WriteLog ==
  /\ lines < MaxLines /\ lines' = lines + 1
  /\ pipe' = Append(pipe, "log") /\ open' = FALSE /\ UNCHANGED glued

\* The last bytes of a child that stops in the middle of a line.
WritePart ==
  /\ lines < MaxLines /\ lines' = lines + 1
  /\ open' = TRUE /\ UNCHANGED <<glued, pipe>>

\* The candidate is declined and dealt with.
Declines(kind) == Emit(kind) /\ pc' = "drop" /\ UNCHANGED lines

-----------------------------------------------------------------------------
(* run_hook and handle_candidate. *)

ReadSettings ==
  /\ pc = "settings" /\ pc' \in {"read", "failed"}
  /\ UNCHANGED <<hook, stdin, daemon>>

ReadTry ==
  /\ pc = "read" /\ stdin = "try"
  /\ pc' = "ask" /\ stdin' = "none" /\ emitted' = FALSE
  /\ UNCHANGED <<drains, stderr, lines, daemon>>

\* Variant: the error is propagated with nothing said.
ParseFailsQuietly ==
  /\ pc = "read" /\ stdin = "try"
  /\ pc' = "exit" /\ stdin' = "none"
  /\ UNCHANGED <<hook, daemon>>

\* A try that does not parse gets a guard of its own.
ParseFails ==
  /\ pc = "read" /\ stdin = "try"
  /\ WriteDirective("decline-permanently") /\ emitted' = TRUE
  /\ pc' = "exit" /\ stdin' = "none"
  /\ UNCHANGED <<drains, lines, daemon>>

NoMoreTries ==
  /\ pc = "read" /\ stdin = "none" /\ nix = "gone"
  /\ pc' = "exit" /\ UNCHANGED <<hook, stdin, daemon>>

\* Declined by the controller, or by a controller or sentinel that fails.
AskController ==
  /\ pc = "ask"
  /\ Declines("decline") \/ (pc' = "spawn" /\ UNCHANGED <<emitted, stderr, lines>>)
  /\ UNCHANGED <<drains, stdin, daemon>>

\* The child is spawned and given settings and candidate, or cannot be.
SpawnChild ==
  /\ pc = "spawn"
  /\ Declines("decline") \/ (pc' = "listen" /\ UNCHANGED <<emitted, stderr, lines>>)
  /\ UNCHANGED <<drains, stdin, daemon>>

\* A log line is passed on as it comes; what a child leaves that breaks off in the
\* middle of a line is a line to read_line too, and the end of its stderr follows.
ChildLogs ==
  /\ pc = "listen"
  /\ (WriteLog /\ UNCHANGED pc) \/ (WritePart /\ pc' = "ended")
  /\ UNCHANGED <<emitted, drains, stdin, daemon>>

\* eprint! panics once Nix has closed its end; the guard is dropped on the way out.
LogPanics ==
  /\ pc = "listen" /\ nix = "gone" /\ pc' = "finish"
  /\ UNCHANGED <<hook, stdin, daemon>>

ChildDeclines ==
  /\ pc = "listen"
  /\ \E kind \in DeclineKind : Declines(kind)
  /\ drains' = drains + 1
  /\ UNCHANGED <<stdin, daemon>>

\* The end of the child's stderr, or a line that is not UTF-8.
ChildFails ==
  /\ pc \in {"listen", "uri", "ended"} /\ Declines("decline")
  /\ UNCHANGED <<drains, stdin, daemon>>

\* Variant: the accept is relayed when it is read, the store URI later.
ChildAcceptsEarly ==
  /\ pc = "listen" /\ Emit("accept")
  /\ pc' = "uri" /\ UNCHANGED <<drains, lines, stdin, daemon>>

\* Nothing is relayed before the store URI is in.
ChildAccepts ==
  /\ pc = "listen"
  /\ pc' = "uri" /\ UNCHANGED <<hook, stdin, daemon>>

ReadStoreUri ==
  /\ pc = "uri" /\ Emit("accept") /\ drains' = drains + 1
  /\ pc' = "inputs" /\ UNCHANGED <<lines, stdin, daemon>>

\* Both lists are read before any is passed on; Nix may leave instead.
ReadInputs ==
  /\ pc = "inputs"
  /\ \/ stdin = "inputs" /\ stdin' = "none" /\ pc' = "feed"
     \/ stdin = "none" /\ nix = "gone" /\ pc' = "finish" /\ UNCHANGED stdin
  /\ UNCHANGED <<hook, daemon>>

FeedChild ==
  /\ pc = "feed" /\ pc' \in {"wait", "finish"}
  /\ UNCHANGED <<hook, stdin, daemon>>

ChildExits ==
  /\ pc = "wait" /\ pc' = "finish"
  /\ UNCHANGED <<hook, stdin, daemon>>

\* drop(guard): decline if nothing was emitted; then the next try, or the exit.
DropGuard ==
  /\ pc \in {"drop", "finish"} /\ Emit("decline")
  /\ pc' = IF pc = "drop" THEN "read" ELSE "exit"
  /\ UNCHANGED <<drains, lines, stdin, daemon>>

\* Drain threads run beside everything else and die with the process.
Drain ==
  /\ drains > 0 /\ pc # "exit"
  /\ \/ (WriteLog \/ WritePart) /\ UNCHANGED drains
     \/ drains' = drains - 1 /\ UNCHANGED <<stderr, lines>>
  /\ UNCHANGED <<pc, emitted, stdin, daemon>>

-----------------------------------------------------------------------------
(* Nix: one try at a time; it looks for directives only while it asks. *)

NixAsks ==
  /\ nix = "idle" /\ stdin = "none" /\ pc \notin {"exit", "failed"} /\ tries < MaxTries
  /\ nix' = "asking" /\ stdin' = "try" /\ tries' = tries + 1
  /\ UNCHANGED <<pc, hook>>

Heard(line) ==
  IF nix # "asking" \/ line = "log" THEN nix
  ELSE CASE line = "accept" -> "sending"
         [] line \in {"decline", "postpone"} -> "idle"
         [] line = "decline-permanently" -> "gone"

NixReads ==
  /\ nix \in {"asking", "sending", "building"} /\ pipe # <<>>
  /\ pipe' = Tail(pipe) /\ nix' = Heard(Head(pipe))
  /\ UNCHANGED <<pc, emitted, drains, open, glued, stdin, tries, lines>>

NixSendsInputs ==
  /\ nix = "sending" /\ stdin = "none"
  /\ stdin' = "inputs" /\ nix' = "building"
  /\ UNCHANGED <<pc, hook, tries>>

\* Nix has no more to ask, its client is gone, or the hook is.
NixLeaves ==
  /\ nix # "gone" /\ nix' = "gone"
  /\ UNCHANGED <<pc, hook, stdin, tries>>

Next ==
  \/ ReadSettings \/ ReadTry \/ ParseFails \/ NoMoreTries \/ AskController \/ SpawnChild
  \/ ChildLogs \/ LogPanics \/ ChildDeclines \/ ChildFails \/ ChildAccepts \/ ReadStoreUri
  \/ ReadInputs \/ FeedChild \/ ChildExits \/ DropGuard \/ Drain
  \/ NixAsks \/ NixReads \/ NixSendsInputs \/ NixLeaves

Spec == Init /\ [][Next]_vars

-----------------------------------------------------------------------------
(* Properties. *)

\* The directives on their way to Nix, and whether the hook still owes one.
OnTheWay == {i \in DOMAIN pipe : pipe[i] \in Directive}
Owed == stdin = "try" \/ (pc \in Candidate \cup {"drop"} /\ ~emitted)

Answers == Cardinality(OnTheWay) + (IF Owed THEN 1 ELSE 0)

\* guard.rs:3-6: every try is answered with exactly one directive.  While Nix asks,
\* the hook owes it or it is on its way, and never both; when Nix does not ask, there
\* is none that it could take for the answer to its next try.  Only a directive behind
\* an unfinished line gets lost.  A hook that cannot read the settings never gets to
\* the tries.
OneAnswerPerTry ==
  (nix # "gone" /\ pc # "failed")
     => IF nix = "asking" THEN Answers = 1 \/ (glued /\ Answers = 0) ELSE Answers = 0

\* The same without the exception: Nix never waits for a directive that does not come.
EveryTryIsAnswered ==
  (nix = "asking" /\ pc # "failed") => Answers = 1

\* The hook reads lists of paths from its stdin only when Nix has been told to send
\* them, and what Nix then sends is not read as a try (delegate.rs:125, hook/mod.rs:83).
ListsGoWithAccept ==
  /\ pc \in {"inputs", "feed"} => nix # "idle" /\ \A i \in OnTheWay : pipe[i] = "accept"
  /\ nix \in {"sending", "building"} => pc \in Committed \cup {"exit"}
=============================================================================
