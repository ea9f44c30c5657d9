------------------------ MODULE HookDirective_proofs ------------------------
(***************************************************************************)
(* Proofs about HookDirective: one answer per try, for any number of tries *)
(* and of lines the children print.                                        *)
(***************************************************************************)
EXTENDS HookDirective, FiniteSetTheorems, TLAPS

\* Nix asks: the hook owes the answer, or the one answer is on its way, or it went under
\* behind an unfinished line.
WhileAsked ==
  nix = "asking" =>
    /\ Owed \/ OnTheWay # {} \/ glued
    /\ \A i, j \in OnTheWay : i = j

\* Nix does not ask: there is no try, and no answer that it could mistake.
WhileNotAsked == nix \in {"idle", "sending", "building"} => ~Owed /\ OnTheWay = {}

\* While an answer is owed none is on its way; a guard that has not spoken goes on.
OwedOnce ==
  /\ Owed \/ (pc = "finish" /\ ~emitted) => OnTheWay = {}
  /\ pc \in Candidate => ~emitted
  /\ stdin = "try" => pc \notin Candidate \cup Committed /\ (pc = "drop" => emitted)

\* An accept, and nothing else, takes the hook to the lists; Nix is then never idle.
Accepted ==
  /\ pc \in {"inputs", "feed", "wait"} \/ (pc = "finish" /\ nix # "gone")
       => emitted /\ nix # "idle" /\ \A i \in OnTheWay : pipe[i] = "accept"
  /\ nix # "gone" /\ pc \notin Committed \cup {"exit"} => \A i \in OnTheWay : pipe[i] # "accept"
  /\ nix \in {"sending", "building"} => pc \in Committed \cup {"exit"}

DirectiveInv == TypeOK /\ WhileAsked /\ WhileNotAsked /\ OwedOnce /\ Accepted
-----------------------------------------------------------------------------
(* What the hook writes, seen as directives. *)

PipeKept == OnTheWay' = OnTheWay /\ \A i \in OnTheWay : pipe'[i] = pipe[i]

PipeGains(d) ==
  \E k : /\ OnTheWay' = OnTheWay \cup {k} /\ k \notin OnTheWay
         /\ pipe'[k] = d /\ \A i \in OnTheWay : pipe'[i] = pipe[i]

LEMMA LogIsKept ==
  ASSUME TypeOK, pipe' = Append(pipe, "log")
  PROVE  PipeKept /\ pipe' \in Seq(Directive \cup {"log"})
<1>1. "log" \notin Directive
  BY DEF Directive, DeclineKind
<1>2. pipe \in Seq(Directive \cup {"log"})
  BY DEF TypeOK
<1>3. /\ pipe' \in Seq(Directive \cup {"log"}) /\ DOMAIN pipe' = DOMAIN pipe \cup {Len(pipe) + 1}
      /\ \A i \in DOMAIN pipe : pipe'[i] = pipe[i]
      /\ pipe'[Len(pipe) + 1] = "log"
  BY <1>2
<1> QED
  BY <1>1, <1>3 DEF PipeKept, OnTheWay

LEMMA DirectiveIsAdded ==
  ASSUME TypeOK, NEW d \in Directive, pipe' = Append(pipe, d)
  PROVE  PipeGains(d) /\ pipe' \in Seq(Directive \cup {"log"})
<1>1. pipe \in Seq(Directive \cup {"log"})
  BY DEF TypeOK
<1>2. /\ pipe' \in Seq(Directive \cup {"log"}) /\ DOMAIN pipe' = DOMAIN pipe \cup {Len(pipe) + 1}
      /\ Len(pipe) + 1 \notin DOMAIN pipe
      /\ \A i \in DOMAIN pipe : pipe'[i] = pipe[i]
      /\ pipe'[Len(pipe) + 1] = d
  BY <1>1
<1>3. /\ OnTheWay' = OnTheWay \cup {Len(pipe) + 1} /\ Len(pipe) + 1 \notin OnTheWay
      /\ \A i \in OnTheWay : pipe'[i] = pipe[i]
  BY <1>2 DEF OnTheWay
<1> QED
  BY <1>2, <1>3 DEF PipeGains

\* What a log line or a part of one does.
LEMMA LogFacts ==
  ASSUME TypeOK, (WriteLog /\ UNCHANGED pc) \/ WriteLog \/ WritePart
  PROVE  /\ PipeKept /\ glued' = glued
         /\ open' \in BOOLEAN /\ lines' \in 0..MaxLines /\ pipe' \in Seq(Directive \cup {"log"})
<1>1. CASE WriteLog
  <2>1. PipeKept /\ pipe' \in Seq(Directive \cup {"log"})
    BY <1>1, LogIsKept DEF WriteLog
  <2>2. glued' = glued /\ open' = FALSE /\ lines' \in 0..MaxLines
    BY <1>1, DirectiveAssumption DEF WriteLog, TypeOK
  <2> QED BY <2>1, <2>2
<1>2. CASE WritePart
  BY <1>2, DirectiveAssumption DEF WritePart, TypeOK, PipeKept, OnTheWay
<1> QED BY <1>1, <1>2

\* What an emission does: nothing, when the guard has spoken, or a directive more, or
\* the end of an unfinished line.
LEMMA EmitFacts ==
  ASSUME TypeOK, NEW d \in Directive, Emit(d)
  PROVE  /\ emitted' = TRUE
         /\ open' \in BOOLEAN /\ glued' \in BOOLEAN /\ pipe' \in Seq(Directive \cup {"log"})
         /\ emitted => PipeKept /\ glued' = glued
         /\ ~emitted => (PipeKept /\ glued') \/ (PipeGains(d) /\ glued' = glued)
<1>1. CASE emitted
  BY <1>1 DEF Emit, stderr, TypeOK, PipeKept, OnTheWay
<1>2. CASE ~emitted /\ open
  BY <1>2, LogIsKept DEF Emit, WriteDirective, TypeOK
<1>3. CASE ~emitted /\ ~open
  BY <1>3, DirectiveIsAdded DEF Emit, WriteDirective, TypeOK
<1> QED BY <1>1, <1>2, <1>3 DEF TypeOK

-----------------------------------------------------------------------------

LEMMA DirectiveInit == Init => DirectiveInv
<1> SUFFICES ASSUME Init PROVE DirectiveInv OBVIOUS
<1>1. TypeOK
  <2>1. pipe \in Seq(Directive \cup {"log"})
    BY DEF Init
  <2>2. /\ emitted \in BOOLEAN /\ open \in BOOLEAN /\ glued \in BOOLEAN
    BY DEF Init
  <2>3. drains \in Nat /\ tries \in 0..MaxTries /\ lines \in 0..MaxLines
    BY DirectiveAssumption DEF Init
  <2> QED BY <2>1, <2>2, <2>3 DEF Init, TypeOK
<1>2. OnTheWay = {}
  BY DEF Init, OnTheWay
<1> QED
  BY <1>1, <1>2 DEF Init, DirectiveInv, WhileAsked, WhileNotAsked, OwedOnce, Accepted, Owed,
     Candidate, Committed

\* A candidate that is declined has its answer on the way, or under an unfinished line.
LEMMA DeclineKeeps ==
  ASSUME DirectiveInv, pc \in Candidate, NEW kind \in DeclineKind, Declines(kind),
         drains' \in Nat, UNCHANGED <<stdin, daemon>>
  PROVE  DirectiveInv'
<1> USE DEF Candidate, Committed
<1>0. TypeOK /\ WhileAsked /\ WhileNotAsked /\ OwedOnce /\ Accepted
  BY DEF DirectiveInv
<1>1. kind \in Directive /\ kind # "accept"
  BY DEF Directive, DeclineKind
<1>2. /\ emitted' = TRUE
      /\ open' \in BOOLEAN /\ glued' \in BOOLEAN /\ pipe' \in Seq(Directive \cup {"log"})
      /\ (PipeKept /\ glued') \/ (PipeGains(kind) /\ glued' = glued)
  BY <1>0, <1>1, EmitFacts DEF Declines, OwedOnce
<1>3. pc' = "drop" /\ lines' = lines /\ stdin' = stdin /\ nix' = nix /\ tries' = tries
  BY DEF Declines, daemon
<1>4. TypeOK'
  BY <1>0, <1>2, <1>3 DEF TypeOK
<1>5. OnTheWay = {} /\ Owed /\ ~Owed' /\ stdin # "try" /\ nix \in {"asking", "gone"}
  BY <1>0, <1>2, <1>3 DEF OwedOnce, WhileNotAsked, Owed, TypeOK
<1>6. WhileAsked' /\ WhileNotAsked' /\ OwedOnce'
  BY <1>2, <1>3, <1>5 DEF WhileAsked, WhileNotAsked, OwedOnce, PipeKept, PipeGains
<1>7. Accepted'
  BY <1>1, <1>2, <1>3, <1>5 DEF Accepted, PipeKept, PipeGains
<1> QED BY <1>4, <1>6, <1>7 DEF DirectiveInv

LEMMA DirectiveStep ==
  ASSUME DirectiveInv, [Next]_vars
  PROVE  DirectiveInv'
<1> USE DirectiveAssumption DEF Candidate, Committed
<1>0. TypeOK BY DEF DirectiveInv
<1>d. DeclineKind \subseteq Directive /\ "accept" \in Directive /\ "accept" \notin DeclineKind
      /\ "decline" \in DeclineKind /\ "decline-permanently" \in DeclineKind
  BY DEF Directive, DeclineKind
<1>s. ASSUME UNCHANGED pipe PROVE PipeKept
  BY <1>s DEF PipeKept, OnTheWay
<1>1. CASE ReadSettings
  <2>1. TypeOK'
    BY <1>0, <1>1 DEF ReadSettings, hook, stderr, daemon, TypeOK
  <2>2. (WhileAsked /\ WhileNotAsked /\ OwedOnce /\ Accepted)'
    BY <1>s, <1>1
      DEF ReadSettings, hook, stderr, daemon, DirectiveInv, PipeKept, WhileAsked,
          WhileNotAsked, OwedOnce, Accepted, Owed
  <2> QED BY <2>1, <2>2 DEF DirectiveInv
<1>2. CASE ReadTry
  <2>1. TypeOK'
    BY <1>0, <1>2 DEF ReadTry, hook, stderr, daemon, TypeOK
  <2>2. (WhileAsked /\ WhileNotAsked /\ OwedOnce /\ Accepted)'
    BY <1>s, <1>2
      DEF ReadTry, hook, stderr, daemon, DirectiveInv, TypeOK, PipeKept, WhileAsked,
          WhileNotAsked, OwedOnce, Accepted, Owed
  <2> QED BY <2>1, <2>2 DEF DirectiveInv
<1>3. CASE ParseFails
  <2>1. TypeOK'
    BY <1>0, <1>3, <1>d, LogIsKept, DirectiveIsAdded
      DEF ParseFails, WriteDirective, hook, stderr, daemon, TypeOK
  <2>2. (WhileAsked /\ WhileNotAsked /\ OwedOnce /\ Accepted)'
    BY <1>0, <1>d, <1>3, LogIsKept, DirectiveIsAdded
      DEF ParseFails, WriteDirective, hook, stderr, daemon, DirectiveInv, PipeKept,
          PipeGains, WhileAsked, WhileNotAsked, OwedOnce, Accepted, Owed
  <2> QED BY <2>1, <2>2 DEF DirectiveInv
<1>4. CASE NoMoreTries
  <2>1. TypeOK'
    BY <1>0, <1>4 DEF NoMoreTries, hook, stderr, daemon, TypeOK
  <2>2. (WhileAsked /\ WhileNotAsked /\ OwedOnce /\ Accepted)'
    BY <1>s, <1>4
      DEF NoMoreTries, hook, stderr, daemon, DirectiveInv, PipeKept, WhileAsked,
          WhileNotAsked, OwedOnce, Accepted, Owed
  <2> QED BY <2>1, <2>2 DEF DirectiveInv
<1>5. CASE AskController
  <2>1. CASE Declines("decline")
    BY <1>0, <1>d, <1>5, <2>1, DeclineKeeps DEF AskController, TypeOK
  <2>2. CASE pc' = "spawn" /\ UNCHANGED <<emitted, stderr, lines>>
    <3>1. TypeOK'
      BY <1>0, <1>5, <2>2 DEF AskController, stderr, daemon, TypeOK
    <3>2. (WhileAsked /\ WhileNotAsked /\ OwedOnce /\ Accepted)'
      BY <1>0, <1>s, <1>5, <2>2
        DEF AskController, stderr, daemon, DirectiveInv, PipeKept, WhileAsked,
            WhileNotAsked, OwedOnce, Accepted, Owed
    <3> QED BY <3>1, <3>2 DEF DirectiveInv
  <2> QED BY <1>5, <2>1, <2>2 DEF AskController
<1>6. CASE SpawnChild
  <2>1. CASE Declines("decline")
    BY <1>0, <1>d, <1>6, <2>1, DeclineKeeps DEF SpawnChild, TypeOK
  <2>2. CASE pc' = "listen" /\ UNCHANGED <<emitted, stderr, lines>>
    <3>1. TypeOK'
      BY <1>0, <1>6, <2>2 DEF SpawnChild, stderr, daemon, TypeOK
    <3>2. (WhileAsked /\ WhileNotAsked /\ OwedOnce /\ Accepted)'
      BY <1>0, <1>s, <1>6, <2>2
        DEF SpawnChild, stderr, daemon, DirectiveInv, PipeKept, WhileAsked,
            WhileNotAsked, OwedOnce, Accepted, Owed
    <3> QED BY <3>1, <3>2 DEF DirectiveInv
  <2> QED BY <1>6, <2>1, <2>2 DEF SpawnChild
<1>7. CASE ChildLogs
  <2>1. TypeOK'
    BY <1>0, <1>7, LogFacts DEF ChildLogs, hook, stderr, daemon, TypeOK
  <2>2. (WhileAsked /\ WhileNotAsked /\ OwedOnce /\ Accepted)'
    BY <1>0, <1>7, LogFacts
      DEF ChildLogs, hook, stderr, daemon, DirectiveInv, PipeKept, WhileAsked,
          WhileNotAsked, OwedOnce, Accepted, Owed
  <2> QED BY <2>1, <2>2 DEF DirectiveInv
<1>8. CASE LogPanics
  <2>1. TypeOK'
    BY <1>0, <1>8 DEF LogPanics, hook, stderr, daemon, TypeOK
  <2>2. (WhileAsked /\ WhileNotAsked /\ OwedOnce /\ Accepted)'
    BY <1>s, <1>8
      DEF LogPanics, hook, stderr, daemon, DirectiveInv, PipeKept, WhileAsked,
          WhileNotAsked, OwedOnce, Accepted, Owed
  <2> QED BY <2>1, <2>2 DEF DirectiveInv
<1>9. CASE ChildDeclines
  BY <1>0, <1>9, DeclineKeeps DEF ChildDeclines, TypeOK
<1>10. CASE ChildFails
  BY <1>0, <1>d, <1>10, DeclineKeeps DEF ChildFails, TypeOK
<1>11. CASE ChildAccepts
  <2>1. TypeOK'
    BY <1>0, <1>11 DEF ChildAccepts, hook, stderr, daemon, TypeOK
  <2>2. (WhileAsked /\ WhileNotAsked /\ OwedOnce /\ Accepted)'
    BY <1>s, <1>11
      DEF ChildAccepts, hook, stderr, daemon, DirectiveInv, PipeKept, WhileAsked,
          WhileNotAsked, OwedOnce, Accepted, Owed
  <2> QED BY <2>1, <2>2 DEF DirectiveInv
<1>12. CASE ReadStoreUri
  <2>1. /\ emitted' = TRUE
        /\ open' \in BOOLEAN /\ glued' \in BOOLEAN /\ pipe' \in Seq(Directive \cup {"log"})
        /\ emitted => PipeKept /\ glued' = glued
        /\ ~emitted => (PipeKept /\ glued') \/ (PipeGains("accept") /\ glued' = glued)
    BY <1>0, <1>d, <1>12, EmitFacts DEF ReadStoreUri
  <2>2. ~emitted /\ Owed /\ OnTheWay = {} /\ stdin # "try" /\ nix \in {"asking", "gone"}
    BY <1>0, <1>12 DEF ReadStoreUri, DirectiveInv, TypeOK, OwedOnce, WhileNotAsked, Owed
  <2>3. TypeOK'
    BY <1>0, <1>12, <2>1 DEF ReadStoreUri, daemon, TypeOK
  <2>4. WhileAsked' /\ WhileNotAsked' /\ OwedOnce'
    BY <1>0, <1>12, <2>1, <2>2
      DEF ReadStoreUri, daemon, DirectiveInv, TypeOK, PipeKept, PipeGains,
       WhileAsked, WhileNotAsked, OwedOnce, Accepted, Owed
  <2>5. Accepted'
    BY <1>0, <1>12, <2>1, <2>2
      DEF ReadStoreUri, daemon, DirectiveInv, TypeOK, PipeKept, PipeGains,
       WhileAsked, WhileNotAsked, OwedOnce, Accepted, Owed
  <2> QED BY <2>3, <2>4, <2>5 DEF DirectiveInv
<1>13. CASE ReadInputs
  <2>1. TypeOK'
    BY <1>0, <1>13 DEF ReadInputs, hook, stderr, daemon, TypeOK
  <2>2. (WhileAsked /\ WhileNotAsked /\ OwedOnce /\ Accepted)'
    BY <1>s, <1>13
      DEF ReadInputs, hook, stderr, daemon, DirectiveInv, TypeOK, PipeKept,
          WhileAsked, WhileNotAsked, OwedOnce, Accepted, Owed
  <2> QED BY <2>1, <2>2 DEF DirectiveInv
<1>14. CASE FeedChild
  <2>1. TypeOK'
    BY <1>0, <1>14 DEF FeedChild, hook, stderr, daemon, TypeOK
  <2>2. (WhileAsked /\ WhileNotAsked /\ OwedOnce /\ Accepted)'
    BY <1>s, <1>14
      DEF FeedChild, hook, stderr, daemon, DirectiveInv, PipeKept, WhileAsked,
          WhileNotAsked, OwedOnce, Accepted, Owed
  <2> QED BY <2>1, <2>2 DEF DirectiveInv
<1>15. CASE ChildExits
  <2>1. TypeOK'
    BY <1>0, <1>15 DEF ChildExits, hook, stderr, daemon, TypeOK
  <2>2. (WhileAsked /\ WhileNotAsked /\ OwedOnce /\ Accepted)'
    BY <1>s, <1>15
      DEF ChildExits, hook, stderr, daemon, DirectiveInv, PipeKept, WhileAsked,
          WhileNotAsked, OwedOnce, Accepted, Owed
  <2> QED BY <2>1, <2>2 DEF DirectiveInv
<1>16. CASE DropGuard
  <2>1. /\ emitted' = TRUE
        /\ open' \in BOOLEAN /\ glued' \in BOOLEAN /\ pipe' \in Seq(Directive \cup {"log"})
        /\ emitted => PipeKept /\ glued' = glued
        /\ ~emitted => (PipeKept /\ glued') \/ (PipeGains("decline") /\ glued' = glued)
    BY <1>0, <1>d, <1>16, EmitFacts DEF DropGuard
  <2>2. /\ ~emitted => OnTheWay = {}
        /\ pc = "drop" /\ ~emitted => Owed
        /\ pc = "finish" /\ ~emitted => nix = "gone"
    BY <1>0, <1>16 DEF DropGuard, DirectiveInv, TypeOK, OwedOnce, Accepted, Owed
  <2>3. TypeOK'
    BY <1>0, <1>16, <2>1 DEF DropGuard, daemon, TypeOK
  <2>4. WhileAsked' /\ WhileNotAsked' /\ OwedOnce'
    BY <1>0, <1>16, <2>1, <2>2
      DEF DropGuard, daemon, DirectiveInv, TypeOK, PipeKept, PipeGains,
       WhileAsked, WhileNotAsked, OwedOnce, Accepted, Owed
  <2>5. Accepted'
    BY <1>0, <1>16, <2>1, <2>2
      DEF DropGuard, daemon, DirectiveInv, TypeOK, PipeKept, PipeGains,
       WhileAsked, WhileNotAsked, OwedOnce, Accepted, Owed
  <2> QED BY <2>3, <2>4, <2>5 DEF DirectiveInv
<1>17. CASE Drain
  <2>1. TypeOK'
    BY <1>0, <1>17, LogFacts DEF Drain, hook, stderr, daemon, TypeOK
  <2>2. (WhileAsked /\ WhileNotAsked /\ OwedOnce /\ Accepted)'
    BY <1>0, <1>s, <1>17, LogFacts
      DEF Drain, hook, stderr, daemon, DirectiveInv, PipeKept, WhileAsked,
          WhileNotAsked, OwedOnce, Accepted, Owed
  <2> QED BY <2>1, <2>2 DEF DirectiveInv
<1>18. CASE NixAsks
  <2>1. TypeOK'
    BY <1>0, <1>18 DEF NixAsks, hook, stderr, daemon, TypeOK
  <2>2. (WhileAsked /\ WhileNotAsked /\ OwedOnce /\ Accepted)'
    BY <1>s, <1>18
      DEF NixAsks, hook, stderr, daemon, DirectiveInv, TypeOK, PipeKept, WhileAsked,
          WhileNotAsked, OwedOnce, Accepted, Owed
  <2> QED BY <2>1, <2>2 DEF DirectiveInv
<1>19. CASE NixReads
  <2>1. /\ pipe' \in Seq(Directive \cup {"log"})
        /\ OnTheWay' = {i - 1 : i \in OnTheWay \ {1}}
        /\ \A i \in OnTheWay \ {1} : pipe'[i - 1] = pipe[i]
        /\ Head(pipe) = pipe[1] /\ (1 \in OnTheWay <=> Head(pipe) # "log")
    BY <1>0, <1>19 DEF NixReads, TypeOK, OnTheWay, Directive, DeclineKind
  <2>2. /\ UNCHANGED <<pc, emitted, stdin, glued>> /\ nix \in {"asking", "sending", "building"}
        /\ WhileAsked /\ WhileNotAsked /\ OwedOnce /\ Accepted
    BY <1>19 DEF NixReads, DirectiveInv
  <2>3. CASE 1 \notin OnTheWay \/ nix # "asking"
    <3>1. nix' = nix
      BY <1>19, <2>1, <2>3 DEF NixReads, Heard
    <3>2. TypeOK'
      BY <1>0, <1>19, <2>1, <3>1 DEF NixReads, TypeOK
    <3>3. OnTheWay' = {i - 1 : i \in OnTheWay}
      BY <2>1, <2>2, <2>3 DEF WhileNotAsked
    <3>4. (WhileAsked /\ WhileNotAsked /\ OwedOnce /\ Accepted)'
      BY <2>1, <2>2, <2>3, <3>1, <3>3
        DEF WhileAsked, WhileNotAsked, OwedOnce, Accepted, Owed
    <3> QED BY <3>2, <3>4 DEF DirectiveInv
  <2>4. CASE 1 \in OnTheWay /\ nix = "asking"
    <3>1. pipe[1] \in Directive
      BY <2>4 DEF OnTheWay
    <3>2. /\ nix' \in {"sending", "idle", "gone"}
          /\ nix' = "sending" <=> pipe[1] = "accept"
      BY <1>19, <2>1, <2>4, <3>1 DEF NixReads, Heard, Directive, DeclineKind
    <3>3. TypeOK'
      BY <1>0, <1>19, <2>1, <3>2 DEF NixReads, TypeOK
    <3>4. OnTheWay' = {} /\ ~Owed /\ ~Owed'
      BY <2>1, <2>2, <2>4 DEF WhileAsked, OwedOnce, Owed
    <3>5. (WhileAsked /\ WhileNotAsked /\ OwedOnce)'
      BY <2>2, <2>4, <3>2, <3>4 DEF WhileAsked, WhileNotAsked, OwedOnce, Accepted
    <3>6. Accepted'
      BY <2>2, <2>4, <3>2, <3>4 DEF Accepted
    <3> QED BY <3>3, <3>5, <3>6 DEF DirectiveInv
  <2> QED BY <2>3, <2>4
<1>20. CASE NixSendsInputs
  <2>1. TypeOK'
    BY <1>0, <1>20 DEF NixSendsInputs, hook, stderr, daemon, TypeOK
  <2>2. (WhileAsked /\ WhileNotAsked /\ OwedOnce /\ Accepted)'
    BY <1>s, <1>20
      DEF NixSendsInputs, hook, stderr, daemon, DirectiveInv, PipeKept, WhileAsked,
          WhileNotAsked, OwedOnce, Accepted, Owed
  <2> QED BY <2>1, <2>2 DEF DirectiveInv
<1>21. CASE NixLeaves
  <2>1. TypeOK'
    BY <1>0, <1>21 DEF NixLeaves, hook, stderr, daemon, TypeOK
  <2>2. (WhileAsked /\ WhileNotAsked /\ OwedOnce /\ Accepted)'
    BY <1>s, <1>21
      DEF NixLeaves, hook, stderr, daemon, DirectiveInv, PipeKept, WhileAsked,
          WhileNotAsked, OwedOnce, Accepted, Owed
  <2> QED BY <2>1, <2>2 DEF DirectiveInv
<1>22. CASE UNCHANGED vars
  <2>1. TypeOK'
    BY <1>0, <1>22 DEF vars, hook, stderr, daemon, TypeOK
  <2>2. (WhileAsked /\ WhileNotAsked /\ OwedOnce /\ Accepted)'
    BY <1>s, <1>22
      DEF vars, hook, stderr, daemon, DirectiveInv, PipeKept, WhileAsked,
          WhileNotAsked, OwedOnce, Accepted, Owed
  <2> QED BY <2>1, <2>2 DEF DirectiveInv
<1> QED
  BY <1>1, <1>2, <1>3, <1>4, <1>5, <1>6, <1>7, <1>8, <1>9, <1>10, <1>11, <1>12, <1>13,
      <1>14, <1>15, <1>16, <1>17, <1>18, <1>19, <1>20, <1>21, <1>22
  DEF Next

\* TypeOK and the four parts hold in every state.
LEMMA DirectiveInvariant == Spec => []DirectiveInv
<1> QED BY DirectiveInit, DirectiveStep, PTL DEF Spec

-----------------------------------------------------------------------------
(* What the runs check. *)

\* guard.rs:3-6 for any number of tries and of lines of the children: while Nix asks,
\* the hook owes it the one directive or has it on its way (or lost it behind an
\* unfinished line), and otherwise there is none that the next try could take for its own.
THEOREM EveryTryHasItsAnswer == Spec => []OneAnswerPerTry
<1>1. DirectiveInv => OneAnswerPerTry
  <2> SUFFICES ASSUME DirectiveInv, nix # "gone", pc # "failed"
               PROVE  IF nix = "asking" THEN Answers = 1 \/ (glued /\ Answers = 0)
                      ELSE Answers = 0
    BY DEF OneAnswerPerTry
  <2>1. TypeOK /\ WhileAsked /\ WhileNotAsked /\ OwedOnce
    BY DEF DirectiveInv
  <2>2. OnTheWay = {} => Cardinality(OnTheWay) = 0
    BY FS_EmptySet
  <2>3. \A i \in OnTheWay : OnTheWay = {i} => Cardinality(OnTheWay) = 1
    BY FS_Singleton
  <2>4. CASE nix = "asking"
    <3>1. CASE Owed
      BY <2>1, <2>2, <2>4, <3>1 DEF Answers, OwedOnce
    <3>2. CASE ~Owed /\ OnTheWay = {}
      BY <2>1, <2>2, <2>4, <3>2 DEF Answers, WhileAsked
    <3>3. CASE ~Owed /\ OnTheWay # {}
      <4>1. PICK i \in OnTheWay : OnTheWay = {i}
        BY <2>1, <2>4, <3>3 DEF WhileAsked
      <4> QED BY <2>3, <2>4, <3>3, <4>1 DEF Answers
    <3> QED BY <3>1, <3>2, <3>3
  <2>5. CASE nix # "asking"
    BY <2>1, <2>2, <2>5 DEF Answers, WhileNotAsked, TypeOK
  <2> QED BY <2>4, <2>5
<1> QED BY <1>1, DirectiveInvariant, PTL

\* delegate.rs:125, hook/mod.rs:83 for any number of tries: lists of paths are read from
\* stdin only when Nix has been or is being told to send them, never as a try.
THEOREM ListsNeedAnAccept == Spec => []ListsGoWithAccept
<1>1. DirectiveInv => ListsGoWithAccept
  BY DEF DirectiveInv, Accepted, ListsGoWithAccept, TypeOK, Committed
<1> QED BY <1>1, DirectiveInvariant, PTL
=============================================================================
