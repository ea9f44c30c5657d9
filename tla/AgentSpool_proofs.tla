-------------------------- MODULE AgentSpool_proofs --------------------------
(***************************************************************************)
(* The way of a finish from the spool to the table, for any derivations,   *)
(* builds, connections and faults: what is recorded is the true duration   *)
(* of its build, the table keeps the newest of it, an agent's crash loses  *)
(* nothing, and the agent never keeps a writer that nobody serves.         *)
(*                                                                         *)
(* That a finish meets its own start is a matter of order: files are taken *)
(* oldest first, a tick's list and what has come since do not mix          *)
(* (FilesInv), so the start in memory is the newest one taken so far       *)
(* (PendingInv), and of two builds of a derivation one ends before the     *)
(* other begins (HistoryInv).                                              *)
(***************************************************************************)
EXTENDS AgentSpool, FiniteSetTheorems, TLAPS

----------------------------------------------------------------------------
(* The inductive invariant *)

(* The clock has not gone further than the builds' events allow.           *)
Clock == now + Cardinality({b \in DOMAIN builds : builds[b].running}) <= 2 * Len(builds)

TypeInv == TypeOK /\ Clock

(* The past of the host: builds of one derivation follow each other.       *)
HistoryInv ==
  /\ \A b \in DOMAIN builds :
       /\ builds[b].start \in 1..now /\ builds[b].finish <= now
       /\ builds[b].running => builds[b].finish = 0
       /\ builds[b].finish # 0 => builds[b].start < builds[b].finish
  /\ \A a, b \in DOMAIN builds : a < b =>
       /\ builds[a].start < builds[b].start
       /\ builds[a].drv = builds[b].drv =>
            ~builds[a].running /\ builds[a].finish < builds[b].start

(* The file of a build's start, and what a file says of its build.         *)
StartFile(b) == [ts |-> builds[b].start, kind |-> "start", build |-> b]

FileOK(f) ==
  /\ f.build \in DOMAIN builds
  /\ f.kind = "start" => f = StartFile(f.build)
  /\ f.kind = "finish" => f.ts = builds[f.build].finish /\ f.ts # 0

(* The spool: a start that is not on the tick's list came after all that   *)
(* are, and no start is taken before that of an earlier build.             *)
FilesInv ==
  /\ \A f \in spool : FileOK(f)
  /\ \A f \in spool \ wTodo : f.kind = "start" => \A g \in wTodo : g.ts < f.ts
  /\ \A a, b \in DOMAIN builds :
       a < b /\ StartFile(a) \in spool => builds[b].startLost \/ StartFile(b) \in spool

(* A start in memory is the newest one taken of its derivation.            *)
PendingInv ==
  \A d \in Drvs : pending[d] # 0 =>
    \E a \in DOMAIN builds :
      /\ builds[a].drv = d /\ builds[a].start = pending[d]
      /\ \A b \in DOMAIN builds :
           a < b /\ builds[b].drv = d => builds[b].startLost \/ StartFile(b) \in spool

(* An event tells of a finished build, and of its own start or none.       *)
EventOK(e) ==
  /\ e.build \in DOMAIN builds /\ builds[e.build].finish # 0
  /\ e.started \in {0, builds[e.build].start} \/ builds[e.build].startLost

(* So does the finish on hand, which is off the list, and every frame.     *)
EventsInv ==
  /\ wPc \in {"write", "unlink"} =>
       /\ EventOK(wOut.event) /\ wOut.file.kind = "finish"
       /\ wOut.file.build = wOut.event.build /\ wOut.to \in DOMAIN conn
       /\ wOut.file \notin wTodo
  /\ \A c \in DOMAIN conn : \A i \in DOMAIN conn[c].pipe : EventOK(conn[c].pipe[i])

(* A row holds the times of a build.                                       *)
RowOK(r) == \E b \in DOMAIN builds :
    /\ builds[b].drv = r.drv /\ builds[b].finish = r.finished /\ r.finished # 0
    /\ r.started = builds[b].start \/ builds[b].startLost

RowsInv == \A r \in recorded : RowOK(r)

(* A finish that has left the spool and is not lost.                       *)
Kept(b) == InFlight(b) \/ b \in handled

(* Without a break only the agent's crash ends a session, so what is       *)
(* written to a connection arrives.                                        *)
BreakInv ==
  breaks = 0 =>
    /\ \A c \in DOMAIN conn : conn[c].ctl = "closed" => conn[c].agent = "ended"
    /\ wPc = "write" => conn[wOut.to].agent = "serving"
    /\ wPc = "unlink" => Kept(wOut.event.build)

----------------------------------------------------------------------------
(* What the steps change *)

(* One element of a sequence is replaced.                                  *)
LEMMA Replaced ==
  ASSUME NEW S, NEW s \in Seq(S), NEW i \in DOMAIN s, NEW x \in S,
         NEW t, t = [s EXCEPT ![i] = x]
  PROVE  /\ t \in Seq(S) /\ Len(t) = Len(s) /\ DOMAIN t = DOMAIN s
         /\ t[i] = x /\ \A k \in DOMAIN s : k # i => t[k] = s[k]
<1>1. t \in Seq(S) /\ Len(t) = Len(s)
  OBVIOUS
<1> QED
  BY <1>1

(* What a sequence's elements and positions are.                           *)
LEMMA Elements ==
  ASSUME NEW S, NEW s \in Seq(S)
  PROVE  /\ Len(s) \in Nat /\ DOMAIN s = 1..Len(s)
         /\ \A i \in DOMAIN s : s[i] \in S /\ i \in Nat /\ 1 <= i /\ i <= Len(s)
OBVIOUS

(* The builds that run can be counted.                                     *)
LEMMA RunningCount ==
  ASSUME TypeOK
  PROVE  /\ IsFiniteSet({b \in DOMAIN builds : builds[b].running})
         /\ Cardinality({b \in DOMAIN builds : builds[b].running}) \in Nat
<1>1. DOMAIN builds = 1..Len(builds) /\ 1 \in Int /\ Len(builds) \in Int
  BY Elements DEF TypeOK
<1>2. IsFiniteSet(DOMAIN builds)
  BY <1>1, FS_Interval
<1> QED
  BY <1>2, FS_Subset, FS_CardinalityType

(* What the start of a build changes; the clock stays within its bound.    *)
LEMMA BuildIsNew ==
  ASSUME TypeInv, NEW d \in Drvs, BuildStarts(d)
  PROVE  /\ builds' \in Seq(Build) /\ Len(builds') = Len(builds) + 1
         /\ DOMAIN builds' = DOMAIN builds \cup {Len(builds) + 1}
         /\ Len(builds) + 1 \notin DOMAIN builds
         /\ Len(builds) + 1 <= MaxBuilds
         /\ \A b \in DOMAIN builds : builds'[b] = builds[b]
         /\ LET n == builds'[Len(builds) + 1] IN
              /\ n.drv = d /\ n.start = now + 1 /\ n.finish = 0 /\ n.running
              /\ spool' = IF n.startLost THEN spool
                          ELSE spool \cup {[ts |-> now + 1, kind |-> "start", build |-> Len(builds) + 1]}
         /\ now' = now + 1 /\ now + 1 \in Times
<1>0. builds \in Seq(Build) /\ Len(builds) \in Nat /\ now \in Nat /\ MaxBuilds \in Nat
  BY Elements, SpoolAssumption DEF TypeOK, TypeInv, Times
<1>1. PICK gone \in BOOLEAN :
       /\ builds' = Append(builds, [drv |-> d, start |-> now + 1, startLost |-> gone,
                                    finish |-> 0, finishLost |-> FALSE, running |-> TRUE])
       /\ spool' = IF gone THEN spool
                   ELSE spool \cup {[ts |-> now + 1, kind |-> "start", build |-> Len(builds) + 1]}
  BY DEF BuildStarts
<1>2. Len(builds) < MaxBuilds /\ now' = now + 1
  BY DEF BuildStarts
<1>3. now + 1 \in Times
  <2> DEFINE n == Cardinality({b \in DOMAIN builds : builds[b].running})
  <2>1. n \in Nat /\ now + n <= 2 * Len(builds)
    BY RunningCount DEF TypeInv, Clock
  <2> HIDE DEF n
  <2> QED
    BY <1>0, <1>2, <2>1 DEF Times
<1> DEFINE x == [drv |-> d, start |-> now + 1, startLost |-> gone,
                 finish |-> 0, finishLost |-> FALSE, running |-> TRUE]
<1>4. x \in Build
  <2>1. 0 \in Times
    BY <1>0 DEF Times
  <2> QED
    BY <2>1, <1>3 DEF Build
<1>5. /\ x.drv = d /\ x.start = now + 1 /\ x.finish = 0 /\ x.running
      /\ x.startLost = gone
  BY Zenon
<1>6. builds' = Append(builds, x)
  BY <1>1
<1> HIDE DEF x
<1>7. /\ builds' \in Seq(Build) /\ Len(builds') = Len(builds) + 1
      /\ \A b \in DOMAIN builds : builds'[b] = builds[b]
      /\ builds'[Len(builds) + 1] = x
  BY <1>0, <1>4, <1>6
<1>8. /\ DOMAIN builds' = DOMAIN builds \cup {Len(builds) + 1}
      /\ Len(builds) + 1 \notin DOMAIN builds
  BY <1>7, <1>0
<1>9. Len(builds) + 1 <= MaxBuilds
  BY <1>0, <1>2
<1> QED
  BY <1>1, <1>2, <1>3, <1>5, <1>7, <1>8, <1>9, Zenon

(* What the success of a build changes.                                    *)
LEMMA BuildIsDone ==
  ASSUME TypeInv, NEW b \in DOMAIN builds, BuildSucceeds(b)
  PROVE  /\ builds' \in Seq(Build) /\ Len(builds') = Len(builds)
         /\ DOMAIN builds' = DOMAIN builds
         /\ \A a \in DOMAIN builds :
              /\ builds'[a].drv = builds[a].drv /\ builds'[a].start = builds[a].start
              /\ builds'[a].startLost = builds[a].startLost
              /\ a # b => builds'[a] = builds[a]
         /\ builds[b].running
         /\ builds'[b].finish = now + 1 /\ ~builds'[b].running
         /\ spool' = IF builds'[b].finishLost THEN spool
                     ELSE spool \cup {[ts |-> now + 1, kind |-> "finish", build |-> b]}
         /\ now' = now + 1 /\ now + 1 \in Times
<1>0. /\ builds \in Seq(Build) /\ Len(builds) \in Nat /\ now \in Nat /\ MaxBuilds \in Nat
      /\ Len(builds) <= MaxBuilds
      /\ builds[b] \in Build
  BY Elements, SpoolAssumption DEF TypeOK, TypeInv, Times
<1>1. PICK gone \in BOOLEAN :
       /\ builds' = [builds EXCEPT ![b].finish = now + 1, ![b].finishLost = gone,
                                   ![b].running = FALSE]
       /\ spool' = IF gone THEN spool
                   ELSE spool \cup {[ts |-> now + 1, kind |-> "finish", build |-> b]}
  BY DEF BuildSucceeds
<1>2. builds[b].running /\ now' = now + 1
  BY DEF BuildSucceeds
<1>3. now + 1 \in Times
  <2> DEFINE R == {a \in DOMAIN builds : builds[a].running}
  <2>1. IsFiniteSet(R) /\ Cardinality(R) \in Nat /\ now + Cardinality(R) <= 2 * Len(builds)
    BY RunningCount DEF TypeInv, Clock
  <2>2. R # {}
    BY <1>2
  <2> HIDE DEF R
  <2>3. Cardinality(R) # 0
    BY <2>1, <2>2, FS_EmptySet
  <2> QED
    BY <1>0, <2>1, <2>3 DEF Times
<1> DEFINE x1 == [builds[b] EXCEPT !.finish = now + 1]
           x2 == [x1 EXCEPT !.finishLost = gone]
           x  == [x2 EXCEPT !.running = FALSE]
<1>4. x \in Build
  <2>1. x1 \in Build
    BY <1>0, <1>3 DEF Build
  <2>2. x2 \in Build
    BY <2>1 DEF Build
  <2> HIDE DEF x2
  <2> QED
    BY <2>2 DEF Build
<1>5. /\ x.drv = builds[b].drv /\ x.start = builds[b].start /\ x.startLost = builds[b].startLost
      /\ x.finish = now + 1 /\ ~x.running /\ x.finishLost = gone
  BY <1>0 DEF Build
<1>6. builds' = [builds EXCEPT ![b] = x]
  BY <1>1, <1>0, Zenon
<1> HIDE DEF x
<1>7. /\ builds' \in Seq(Build) /\ Len(builds') = Len(builds) /\ DOMAIN builds' = DOMAIN builds
      /\ builds'[b] = x /\ \A a \in DOMAIN builds : a # b => builds'[a] = builds[a]
  BY <1>0, <1>4, <1>6, Replaced
<1> QED
  BY <1>1, <1>2, <1>3, <1>5, <1>7, Zenon

(* What the failure of a build changes: only that it runs.                 *)
LEMMA BuildIsOver ==
  ASSUME TypeInv, NEW b \in DOMAIN builds, BuildFails(b)
  PROVE  /\ builds' \in Seq(Build) /\ Len(builds') = Len(builds)
         /\ DOMAIN builds' = DOMAIN builds
         /\ \A a \in DOMAIN builds :
              /\ builds'[a].drv = builds[a].drv /\ builds'[a].start = builds[a].start
              /\ builds'[a].startLost = builds[a].startLost
              /\ builds'[a].finish = builds[a].finish
              /\ builds'[a].finishLost = builds[a].finishLost
              /\ builds'[a].running = (builds[a].running /\ a # b)
<1>0. builds \in Seq(Build) /\ builds[b] \in Build
  BY Elements DEF TypeOK, TypeInv
<1> DEFINE x == [builds[b] EXCEPT !.running = FALSE]
<1>1. builds' = [builds EXCEPT ![b] = x]
  BY DEF BuildFails
<1>2. x \in Build
  BY <1>0 DEF Build
<1>3. /\ x.drv = builds[b].drv /\ x.start = builds[b].start /\ x.startLost = builds[b].startLost
      /\ x.finish = builds[b].finish /\ x.finishLost = builds[b].finishLost /\ x.running = FALSE
  BY <1>0 DEF Build
<1> HIDE DEF x
<1>4. /\ builds' \in Seq(Build) /\ Len(builds') = Len(builds) /\ DOMAIN builds' = DOMAIN builds
      /\ builds'[b] = x /\ \A a \in DOMAIN builds : a # b => builds'[a] = builds[a]
  BY <1>0, <1>1, <1>2, Replaced
<1>5. \A a \in DOMAIN builds : builds[a].running \in BOOLEAN
  <2>1. \A y \in Build : y.running \in BOOLEAN
    BY Zenon DEF Build
  <2> QED
    BY <1>0, Elements, <2>1
<1> QED
  BY <1>3, <1>4, <1>5, Zenon

(* A corrupt file takes nothing from its build's history, and leaves a     *)
(* mark there.                                                             *)
LEMMA FileIsCorrupt ==
  ASSUME TypeInv, NEW f \in wTodo, RemoveCorrupt(f)
  PROVE  /\ builds' \in Seq(Build) /\ Len(builds') = Len(builds)
         /\ DOMAIN builds' = DOMAIN builds
         /\ \A a \in DOMAIN builds :
              /\ builds'[a].drv = builds[a].drv /\ builds'[a].start = builds[a].start
              /\ builds'[a].finish = builds[a].finish
              /\ builds'[a].running = builds[a].running
              /\ builds[a].startLost => builds'[a].startLost
              /\ builds[a].finishLost => builds'[a].finishLost
              /\ f = StartFile(a) => builds'[a].startLost
              /\ f.kind = "finish" /\ f.build = a => builds'[a].finishLost
<1>0. builds \in Seq(Build) /\ f \in File
  BY DEF TypeOK, TypeInv
<1>a. \A a \in DOMAIN builds : builds[a] \in Build
  BY <1>0, Elements
<1>1. CASE f.build \notin DOMAIN builds
  <2>1. builds' = builds
    BY <1>1, <1>0 DEF RemoveCorrupt
  <2>2. \A a \in DOMAIN builds : f # StartFile(a) /\ f.build # a
    BY <1>1 DEF StartFile
  <2> QED
    BY <2>1, <2>2, <1>0
<1>2. CASE f.build \in DOMAIN builds
  <2> DEFINE b == f.build
             x == IF f.kind = "start" THEN [builds[b] EXCEPT !.startLost = TRUE]
                                      ELSE [builds[b] EXCEPT !.finishLost = TRUE]
  <2>1. builds' = [builds EXCEPT ![b] = x]
    BY DEF RemoveCorrupt
  <2>2. x \in Build
    BY <1>2, <1>a DEF Build
  <2>3. /\ x.drv = builds[b].drv /\ x.start = builds[b].start /\ x.finish = builds[b].finish
        /\ x.running = builds[b].running
        /\ builds[b].startLost => x.startLost
        /\ builds[b].finishLost => x.finishLost
        /\ f.kind = "start" => x.startLost
        /\ f.kind = "finish" => x.finishLost
    BY <1>2, <1>a DEF Build
  <2> HIDE DEF x
  <2>4. /\ builds' \in Seq(Build) /\ Len(builds') = Len(builds) /\ DOMAIN builds' = DOMAIN builds
        /\ builds'[b] = x /\ \A a \in DOMAIN builds : a # b => builds'[a] = builds[a]
    BY <1>0, <1>2, <2>1, <2>2, Replaced
  <2>5. \A a \in DOMAIN builds : f = StartFile(a) => a = b /\ f.kind = "start"
    BY DEF StartFile
  <2> QED
    BY <2>3, <2>4, <2>5, Zenon
<1> QED
  BY <1>1, <1>2

(* What changes the history and the clock.                                 *)
LEMMA HostSteps ==
  ASSUME [Next]_vars
  PROVE  \/ \E d \in Drvs : BuildStarts(d)
         \/ \E b \in DOMAIN builds : BuildSucceeds(b) \/ BuildFails(b)
         \/ \E f \in wTodo : RemoveCorrupt(f)
         \/ UNCHANGED hostVars
<1>1. CASE Watch
  BY <1>1, Zenon
    DEF Watch, Tick, TickEnds, WriteFrame, WriteFails, UnlinkFinish, StoreStart, TakeFinish,
       hostVars
<1>2. CASE Connect \/ AgentCrash \/ AgentStart
  BY <1>2, Zenon DEF Connect, AgentCrash, AgentStart, hostVars
<1>3. ASSUME NEW c \in DOMAIN conn,
             \/ Serve(c) \/ HandshakeFails(c) \/ HandlerEnds(c)
             \/ SessionBreaks(c) \/ TearsFrame(c) \/ SessionEof(c)
             \/ HandleFinish(c) \/ HandleFails(c)
      PROVE  UNCHANGED hostVars
  BY <1>3, Zenon
    DEF Serve, HandshakeFails, HandlerEnds, SessionBreaks, TearsFrame, SessionEof,
       HandleFinish, HandleFails, hostVars
<1>4. CASE UNCHANGED vars
  BY <1>4 DEF vars, hostVars
<1> QED
  BY <1>1, <1>2, <1>3, <1>4, Zenon DEF Next

(* Builds of one derivation follow each other.                             *)
LEMMA HistoryInduction ==
  ASSUME TypeInv, HistoryInv, [Next]_vars
  PROVE  HistoryInv'
<1>0. builds \in Seq(Build) /\ now \in Nat
  BY DEF TypeInv, TypeOK, Times
<1>a. /\ Len(builds) \in Nat
      /\ \A b \in DOMAIN builds : b \in Nat /\ 1 <= b /\ b <= Len(builds)
  BY <1>0, Elements
<1>b. \A b \in DOMAIN builds :
        /\ builds[b].finish \in Nat /\ builds[b].start \in Nat /\ builds[b].running \in BOOLEAN
        /\ builds[b].start <= now /\ builds[b].finish <= now
  <2>1. \A y \in Build : y.finish \in Nat /\ y.start \in Nat
    BY DEF Build, Times
  <2>2. \A y \in Build : y.running \in BOOLEAN
    BY Zenon DEF Build
  <2>3. \A b \in DOMAIN builds : builds[b].start \in 1..now /\ builds[b].finish <= now
    BY Zenon DEF HistoryInv
  <2> QED
    BY <1>0, Elements, <2>1, <2>2, <2>3
<1>1. ASSUME NEW d \in Drvs, BuildStarts(d) PROVE HistoryInv'
  <2> DEFINE n == Len(builds) + 1
  <2>1. /\ DOMAIN builds' = DOMAIN builds \cup {n} /\ n \notin DOMAIN builds
        /\ \A b \in DOMAIN builds : builds'[b] = builds[b]
        /\ builds'[n].drv = d /\ builds'[n].start = now + 1 /\ builds'[n].finish = 0
        /\ now' = now + 1
    BY <1>1, BuildIsNew
  <2>2. \A b \in DOMAIN builds : builds[b].drv = d => ~builds[b].running
    BY <1>1 DEF BuildStarts
  <2>3. \A b \in DOMAIN builds : b < n /\ ~ (n < b)
    BY <1>a
  <2> HIDE DEF n
  <2>4. \A b \in DOMAIN builds' :
       /\ builds'[b].start \in 1..now' /\ builds'[b].finish <= now'
       /\ builds'[b].running => builds'[b].finish = 0
       /\ builds'[b].finish # 0 => builds'[b].start < builds'[b].finish
    BY <2>1, <1>b, <1>0 DEF HistoryInv
  <2>5. ASSUME NEW a \in DOMAIN builds', NEW b \in DOMAIN builds', a < b
        PROVE  /\ builds'[a].start < builds'[b].start
               /\ builds'[a].drv = builds'[b].drv =>
                     ~builds'[a].running /\ builds'[a].finish < builds'[b].start
    <3>1. n \in Nat /\ ~ (n < n)
      BY <1>a DEF n
    <3>2. a \in DOMAIN builds
      BY <2>1, <2>3, <2>5, <3>1
    <3>3. CASE b \in DOMAIN builds
      BY <3>2, <3>3, <2>1, <2>5, Zenon DEF HistoryInv
    <3>4. CASE b = n
      BY <3>2, <3>4, <2>1, <2>2, <1>b, <1>0
    <3> QED
      BY <3>3, <3>4, <2>1
  <2> QED
    BY <2>4, <2>5, Zenon DEF HistoryInv
<1>2. ASSUME NEW b \in DOMAIN builds, BuildSucceeds(b) PROVE HistoryInv'
  <2>1. /\ DOMAIN builds' = DOMAIN builds /\ builds[b].running
        /\ \A a \in DOMAIN builds :
             /\ builds'[a].drv = builds[a].drv /\ builds'[a].start = builds[a].start
             /\ a # b => builds'[a] = builds[a]
        /\ builds'[b].finish = now + 1 /\ ~builds'[b].running
        /\ now' = now + 1
    BY <1>2, BuildIsDone
  <2>2. \A a \in DOMAIN builds :
       /\ builds'[a].start \in 1..now' /\ builds'[a].finish <= now'
       /\ builds'[a].running => builds'[a].finish = 0
       /\ builds'[a].finish # 0 => builds'[a].start < builds'[a].finish
    BY <2>1, <1>b, <1>0 DEF HistoryInv
  <2>3. ASSUME NEW a \in DOMAIN builds, NEW c \in DOMAIN builds, a < c
        PROVE  /\ builds'[a].start < builds'[c].start
               /\ builds'[a].drv = builds'[c].drv =>
                     ~builds'[a].running /\ builds'[a].finish < builds'[c].start
    <3>1. /\ builds[a].start < builds[c].start
          /\ builds[a].drv = builds[c].drv =>
                     ~builds[a].running /\ builds[a].finish < builds[c].start
      BY <2>3, Zenon DEF HistoryInv
    <3> QED
      BY <2>1, <3>1, Zenon
  <2> QED
    BY <2>1, <2>2, <2>3, Zenon DEF HistoryInv
<1>3. ASSUME NEW b \in DOMAIN builds, BuildFails(b) PROVE HistoryInv'
  <2>1. now' = now
    BY <1>3 DEF BuildFails
  <2> QED
    BY <2>1, <1>3, BuildIsOver, Zenon DEF HistoryInv
<1>4. ASSUME NEW f \in wTodo, RemoveCorrupt(f) PROVE HistoryInv'
  <2>1. now' = now
    BY <1>4 DEF RemoveCorrupt
  <2>2. /\ DOMAIN builds' = DOMAIN builds
         /\ \A a \in DOMAIN builds :
              /\ builds'[a].drv = builds[a].drv /\ builds'[a].start = builds[a].start
              /\ builds'[a].finish = builds[a].finish
              /\ builds'[a].running = builds[a].running
    BY <1>4, FileIsCorrupt
  <2> QED
    BY <2>1, <2>2, Zenon DEF HistoryInv
<1>5. CASE UNCHANGED hostVars
  BY <1>5 DEF HistoryInv, hostVars
<1> QED
  BY <1>1, <1>2, <1>3, <1>4, <1>5, HostSteps, Zenon

(* A step on one connection leaves the others.                             *)
OneChanged(c) ==
  /\ conn' \in Seq(Conn) /\ Len(conn') = Len(conn) /\ DOMAIN conn' = DOMAIN conn
  /\ \A k \in DOMAIN conn : k # c => conn'[k] = conn[k]

(* The types of a connection's fields.                                     *)
LEMMA ConnFields ==
  ASSUME NEW x \in Conn
  PROVE  /\ x.agent \in {"opening", "serving", "ended"} /\ x.ctl \in {"open", "closed"}
         /\ x.pipe \in Seq(Event)
BY DEF Conn

(* What the end of a handshake does to its connection.                     *)
LEMMA Serving ==
  ASSUME TypeInv, NEW c \in DOMAIN conn, Serve(c)
  PROVE  /\ OneChanged(c) /\ conn'[c].agent = "serving"
         /\ conn'[c].ctl = conn[c].ctl /\ conn'[c].pipe = conn[c].pipe
<1>0. conn \in Seq(Conn) /\ conn[c] \in Conn
  BY Elements DEF TypeInv, TypeOK
<1> DEFINE x == [conn[c] EXCEPT !.agent = "serving"]
<1>1. conn' = [conn EXCEPT ![c] = x]
  BY DEF Serve
<1>2. x \in Conn /\ x.agent = "serving" /\ x.ctl = conn[c].ctl /\ x.pipe = conn[c].pipe
  BY <1>0 DEF Conn
<1> HIDE DEF x
<1> QED
  BY <1>0, <1>1, <1>2, Replaced DEF OneChanged

(* What the end of a handler does to its connection.                       *)
LEMMA Ending ==
  ASSUME TypeInv, NEW c \in DOMAIN conn, HandshakeFails(c) \/ HandlerEnds(c)
  PROVE  /\ OneChanged(c) /\ conn'[c].agent = "ended"
         /\ conn'[c].ctl = conn[c].ctl /\ conn'[c].pipe = conn[c].pipe
<1>0. conn \in Seq(Conn) /\ conn[c] \in Conn
  BY Elements DEF TypeInv, TypeOK
<1> DEFINE x == [conn[c] EXCEPT !.agent = "ended"]
<1>1. conn' = [conn EXCEPT ![c] = x]
  BY DEF HandshakeFails, HandlerEnds
<1>2. x \in Conn /\ x.agent = "ended" /\ x.ctl = conn[c].ctl /\ x.pipe = conn[c].pipe
  BY <1>0 DEF Conn
<1> HIDE DEF x
<1> QED
  BY <1>0, <1>1, <1>2, Replaced DEF OneChanged

(* What a controller's end that closes does to its connection.             *)
LEMMA Closing ==
  ASSUME TypeInv, NEW c \in DOMAIN conn, conn' = Closed(c)
  PROVE  /\ OneChanged(c) /\ conn'[c].agent = conn[c].agent
         /\ conn'[c].ctl = "closed" /\ conn'[c].pipe = <<>>
<1>0. conn \in Seq(Conn) /\ conn[c] \in Conn
  BY Elements DEF TypeInv, TypeOK
<1> DEFINE y == [conn[c] EXCEPT !.ctl = "closed"]
           x == [y EXCEPT !.pipe = <<>>]
<1>1. conn' = [conn EXCEPT ![c] = x]
  BY <1>0, Zenon DEF Closed
<1>2. x \in Conn /\ x.agent = conn[c].agent /\ x.ctl = "closed" /\ x.pipe = <<>>
  <2>1. <<>> \in Seq(Event)
    OBVIOUS
  <2>2. y \in Conn /\ y.agent = conn[c].agent /\ y.ctl = "closed"
    BY <1>0 DEF Conn
  <2> HIDE DEF y
  <2> QED
    BY <2>1, <2>2 DEF Conn
<1> HIDE DEF x
<1> QED
  BY <1>0, <1>1, <1>2, Replaced DEF OneChanged

(* A connection whose pipe is replaced.                                    *)
LEMMA Piping ==
  ASSUME TypeInv, NEW c \in DOMAIN conn, NEW p \in Seq(Event),
         conn' = [conn EXCEPT ![c].pipe = p]
  PROVE  /\ OneChanged(c) /\ conn'[c].agent = conn[c].agent
         /\ conn'[c].ctl = conn[c].ctl /\ conn'[c].pipe = p
<1>0. conn \in Seq(Conn) /\ conn[c] \in Conn
  BY Elements DEF TypeInv, TypeOK
<1> DEFINE x == [conn[c] EXCEPT !.pipe = p]
<1>1. conn' = [conn EXCEPT ![c] = x]
  OBVIOUS
<1>2. x \in Conn /\ x.agent = conn[c].agent /\ x.ctl = conn[c].ctl /\ x.pipe = p
  BY <1>0 DEF Conn
<1> HIDE DEF x
<1> QED
  BY <1>0, <1>1, <1>2, Replaced DEF OneChanged

(* A torn frame takes frames out of the pipe and puts none in.             *)
LEMMA Tearing ==
  ASSUME TypeInv, NEW c \in DOMAIN conn, TearsFrame(c)
  PROVE  /\ OneChanged(c) /\ conn'[c].agent = conn[c].agent
         /\ conn'[c].ctl = conn[c].ctl
         /\ \A i \in DOMAIN conn'[c].pipe : \E j \in DOMAIN conn[c].pipe :
              conn'[c].pipe[i] = conn[c].pipe[j]
<1> DEFINE h == conn[c].pipe
<1>0. h \in Seq(Event)
  BY Elements, ConnFields DEF TypeInv, TypeOK
<1>1. PICK n \in DOMAIN h : conn' = [conn EXCEPT ![c].pipe = SubSeq(h, n + 1, Len(h))]
  BY DEF TearsFrame
<1> DEFINE p == SubSeq(h, n + 1, Len(h))
<1> HIDE DEF h
<1>2. n \in Nat /\ 1 <= n /\ n <= Len(h) /\ Len(h) \in Nat
  BY <1>0, Elements
<1>3. /\ p \in Seq(Event) /\ Len(p) = Len(h) - n
      /\ \A i \in 1..Len(h) - n : p[i] = h[n + i]
  BY <1>0, <1>2
<1>4. conn' = [conn EXCEPT ![c].pipe = p]
  BY <1>1
<1> HIDE DEF p
<1>5. \A i \in DOMAIN p : \E j \in DOMAIN h : p[i] = h[j]
  <2> SUFFICES ASSUME NEW i \in DOMAIN p PROVE \E j \in DOMAIN h : p[i] = h[j]
    OBVIOUS
  <2>1. i \in 1..Len(h) - n /\ i \in Nat
    BY <1>3, <1>2
  <2>2. n + i \in DOMAIN h
    BY <2>1, <1>2, <1>0
  <2> QED
    BY <2>1, <2>2, <1>3
<1>6. /\ OneChanged(c) /\ conn'[c].agent = conn[c].agent
      /\ conn'[c].ctl = conn[c].ctl /\ conn'[c].pipe = p
  BY <1>3, <1>4, Piping
<1> QED
  BY <1>5, <1>6, Zenon DEF h

(* A frame that is read leaves the pipe.                                   *)
LEMMA Handling ==
  ASSUME TypeInv, NEW c \in DOMAIN conn, HandleFinish(c)
  PROVE  /\ OneChanged(c) /\ conn'[c].agent = conn[c].agent
         /\ conn'[c].ctl = conn[c].ctl
         /\ conn[c].pipe # <<>> /\ conn[c].pipe \in Seq(Event)
         /\ conn'[c].pipe = Tail(conn[c].pipe)
<1>0. conn[c].pipe \in Seq(Event)
  BY Elements, ConnFields DEF TypeInv, TypeOK
<1>1. conn[c].pipe # <<>> /\ conn' = [conn EXCEPT ![c].pipe = Tail(conn[c].pipe)]
  BY DEF HandleFinish
<1>2. Tail(conn[c].pipe) \in Seq(Event)
  BY <1>0, <1>1
<1> QED
  BY <1>0, <1>1, <1>2, Piping

(* A frame that is written is the last of the pipe, or goes to a closed    *)
(* end.                                                                    *)
LEMMA Writing ==
  ASSUME TypeInv, WriteFrame, NEW c, c = wOut.to, c \in DOMAIN conn
  PROVE  /\ OneChanged(c) /\ conn'[c].agent = conn[c].agent
         /\ conn'[c].ctl = conn[c].ctl /\ conn[c].pipe \in Seq(Event)
         /\ conn'[c].pipe = IF conn[c].ctl = "open" THEN Append(conn[c].pipe, wOut.event)
                                                    ELSE conn[c].pipe
<1>0. conn[c].pipe \in Seq(Event) /\ wOut.event \in Event
  <2>1. wOut \in Push
    BY DEF TypeInv, TypeOK, WriteFrame
  <2> QED
    BY <2>1, Elements, ConnFields DEF TypeInv, TypeOK, Push
<1> DEFINE p == IF conn[c].ctl = "open" THEN Append(conn[c].pipe, wOut.event) ELSE conn[c].pipe
<1>1. conn' = [conn EXCEPT ![c].pipe = p]
  BY DEF WriteFrame
<1>2. p \in Seq(Event)
  BY <1>0
<1> HIDE DEF p
<1>3. /\ OneChanged(c) /\ conn'[c].agent = conn[c].agent
      /\ conn'[c].ctl = conn[c].ctl /\ conn'[c].pipe = p
  BY <1>1, <1>2, Piping
<1> QED
  BY <1>0, <1>3 DEF p

(* What a new connection looks like.                                       *)
LEMMA Dialling ==
  ASSUME TypeInv, Connect
  PROVE  /\ conn' \in Seq(Conn) /\ Len(conn') = Len(conn) + 1
         /\ DOMAIN conn' = DOMAIN conn \cup {Len(conn) + 1} /\ Len(conn) + 1 \notin DOMAIN conn
         /\ \A k \in DOMAIN conn : conn'[k] = conn[k]
         /\ LET n == conn'[Len(conn) + 1] IN
              n.agent = "opening" /\ n.ctl = "open" /\ n.pipe = <<>>
<1>0. conn \in Seq(Conn) /\ Len(conn) \in Nat
  BY Elements DEF TypeInv, TypeOK
<1> DEFINE x == [agent |-> "opening", ctl |-> "open", pipe |-> <<>>]
<1>1. conn' = Append(conn, x)
  BY DEF Connect
<1>2. x \in Conn
  <2>1. <<>> \in Seq(Event)
    OBVIOUS
  <2> QED
    BY <2>1 DEF Conn
<1>3. x.agent = "opening" /\ x.ctl = "open" /\ x.pipe = <<>>
  BY Zenon
<1> HIDE DEF x
<1>4. /\ conn' \in Seq(Conn) /\ Len(conn') = Len(conn) + 1
      /\ \A k \in DOMAIN conn : conn'[k] = conn[k]
      /\ conn'[Len(conn) + 1] = x
  BY <1>0, <1>1, <1>2
<1>5. DOMAIN conn' = DOMAIN conn \cup {Len(conn) + 1} /\ Len(conn) + 1 \notin DOMAIN conn
  BY <1>0, <1>4
<1> QED
  BY <1>3, <1>4, <1>5

(* The agent's crash ends every handler and leaves the pipes.              *)
LEMMA Crashing ==
  ASSUME TypeInv, AgentCrash
  PROVE  /\ conn' \in Seq(Conn) /\ Len(conn') = Len(conn) /\ DOMAIN conn' = DOMAIN conn
         /\ \A k \in DOMAIN conn :
              /\ conn'[k].agent = "ended" /\ conn'[k].ctl = conn[k].ctl
              /\ conn'[k].pipe = conn[k].pipe
<1>0. conn \in Seq(Conn) /\ \A k \in DOMAIN conn : conn[k] \in Conn
  BY Elements DEF TypeInv, TypeOK
<1>1. conn' = [c \in DOMAIN conn |-> [conn[c] EXCEPT !.agent = "ended"]]
  BY DEF AgentCrash
<1>2. \A x \in Conn : LET y == [x EXCEPT !.agent = "ended"] IN
        y \in Conn /\ y.agent = "ended" /\ y.ctl = x.ctl /\ y.pipe = x.pipe
  BY DEF Conn
<1>3. \A k \in DOMAIN conn :
        /\ conn'[k] \in Conn /\ conn'[k].agent = "ended" /\ conn'[k].ctl = conn[k].ctl
        /\ conn'[k].pipe = conn[k].pipe
  BY <1>0, <1>1, <1>2, Zenon
<1>4. Len(conn) \in Nat /\ DOMAIN conn = 1..Len(conn) /\ DOMAIN conn' = DOMAIN conn
  BY <1>0, <1>1, Elements
<1>5. conn' \in Seq(Conn) /\ Len(conn') = Len(conn)
  <2>1. conn' \in [1..Len(conn) -> Conn]
    BY <1>1, <1>3, <1>4, Zenon
  <2> QED
    BY <2>1, <1>4
<1> QED
  BY <1>3, <1>4, <1>5, Zenon

(* What the type invariant says, for the provers.                          *)
LEMMA Facts ==
  ASSUME TypeInv
  PROVE  /\ builds \in Seq(Build) /\ Len(builds) \in Nat /\ Len(builds) <= MaxBuilds
         /\ conn \in Seq(Conn) /\ Len(conn) \in Nat /\ Len(conn) <= MaxConns
         /\ writer \in 0..Len(conn)
         /\ spool \subseteq File /\ wTodo \subseteq spool /\ pending \in [Drvs -> Times]
         /\ now \in Times
         /\ MaxBuilds \in Nat /\ MaxConns \in Nat /\ MaxLost \in Nat /\ MaxCrashes \in Nat
         /\ MaxBreaks \in Nat /\ MaxSamples \in Nat
         /\ 0 \in Times
<1>1. /\ builds \in Seq(Build) /\ conn \in Seq(Conn)
      /\ Len(builds) <= MaxBuilds /\ Len(conn) <= MaxConns
      /\ writer \in 0..Len(conn)
      /\ spool \subseteq File /\ wTodo \subseteq spool /\ pending \in [Drvs -> Times]
      /\ now \in Times
  BY DEF TypeInv, TypeOK
<1>2. Len(builds) \in Nat /\ Len(conn) \in Nat
  BY <1>1, Elements
<1>3. /\ MaxBuilds \in Nat /\ MaxConns \in Nat /\ MaxLost \in Nat /\ MaxCrashes \in Nat
      /\ MaxBreaks \in Nat /\ MaxSamples \in Nat
  BY SpoolAssumption
<1>4. 0 \in Times
  BY <1>3 DEF Times
<1> QED
  BY <1>1, <1>2, <1>3, <1>4

(* The count of lost events stays within its bound.                        *)
LEMMA LoseTyped ==
  ASSUME TypeInv, NEW yes \in BOOLEAN, Lose(yes)
  PROVE  lost' \in 0..MaxLost
<1>1. lost \in 0..MaxLost /\ MaxLost \in Nat
  BY Facts DEF TypeInv, TypeOK
<1> QED
  BY <1>1 DEF Lose

(* The count of breaks stays within its bound, and is not 0 after one.     *)
LEMMA BreakTyped ==
  ASSUME TypeInv, Break
  PROVE  breaks' \in 0..MaxBreaks /\ breaks' # 0
<1>1. breaks \in 0..MaxBreaks /\ MaxBreaks \in Nat
  BY Facts DEF TypeInv, TypeOK
<1> QED
  BY <1>1 DEF Break

(* The host's steps and corrupt files keep the types.                      *)
LEMMA HostTyped ==
  ASSUME TypeInv, EventsInv, FilesInv, [Next]_vars,
         \/ \E d \in Drvs : BuildStarts(d)
         \/ \E b \in DOMAIN builds : BuildSucceeds(b) \/ BuildFails(b)
         \/ \E f \in wTodo : RemoveCorrupt(f)
  PROVE  TypeOK'
<1> USE Facts
<1>a. MaxBuilds \in Nat /\ Builds = 1..MaxBuilds
  BY DEF Builds
<1>1. ASSUME NEW d \in Drvs, BuildStarts(d) PROVE TypeOK'
  <2> DEFINE n == Len(builds) + 1
             f == [ts |-> now + 1, kind |-> "start", build |-> n]
  <2>1. /\ builds' \in Seq(Build) /\ Len(builds') = n /\ n <= MaxBuilds
        /\ spool' = spool \/ spool' = spool \cup {f}
        /\ now' = now + 1 /\ now + 1 \in Times
    BY <1>1, BuildIsNew
  <2>2. f \in File
    BY <2>1, <1>a DEF File
  <2>3. PICK gone \in BOOLEAN : Lose(gone)
    BY <1>1 DEF BuildStarts
  <2>4. lost' \in 0..MaxLost
    BY <2>3, LoseTyped
  <2>5. UNCHANGED <<agent, pending, writer, watchVars, conn, ctlVars, crashes, breaks>>
    BY <1>1 DEF BuildStarts
  <2>6. spool' \subseteq File /\ wTodo \subseteq spool'
    BY <2>1, <2>2
  <2> HIDE DEF n, f
  <2> QED
    BY <2>1, <2>4, <2>5, <2>6 DEF TypeInv, TypeOK, watchVars, ctlVars
<1>2. ASSUME NEW b \in DOMAIN builds, BuildSucceeds(b) PROVE TypeOK'
  <2> DEFINE f == [ts |-> now + 1, kind |-> "finish", build |-> b]
  <2>1. /\ builds' \in Seq(Build) /\ Len(builds') = Len(builds)
        /\ spool' = spool \/ spool' = spool \cup {f}
        /\ now' = now + 1 /\ now + 1 \in Times
    BY <1>2, BuildIsDone
  <2>2. f \in File
    <3>1. b \in 1..MaxBuilds
      BY Elements
    <3> QED
      BY <3>1, <2>1, <1>a DEF File
  <2>3. PICK gone \in BOOLEAN : Lose(gone)
    BY <1>2 DEF BuildSucceeds
  <2>4. lost' \in 0..MaxLost
    BY <2>3, LoseTyped
  <2>5. UNCHANGED <<agent, pending, writer, watchVars, conn, ctlVars, crashes, breaks>>
    BY <1>2 DEF BuildSucceeds
  <2>6. spool' \subseteq File /\ wTodo \subseteq spool'
    BY <2>1, <2>2
  <2> HIDE DEF f
  <2> QED
    BY <2>1, <2>4, <2>5, <2>6 DEF TypeInv, TypeOK, watchVars, ctlVars
<1>3. ASSUME NEW b \in DOMAIN builds, BuildFails(b) PROVE TypeOK'
  <2>1. builds' \in Seq(Build) /\ Len(builds') = Len(builds)
    BY <1>3, BuildIsOver
  <2>2. UNCHANGED <<now, spool, agent, pending, writer, watchVars, conn, ctlVars, faultVars>>
    BY <1>3 DEF BuildFails
  <2> QED
    BY <2>1, <2>2 DEF TypeInv, TypeOK, watchVars, ctlVars, faultVars
<1>4. ASSUME NEW f \in wTodo, RemoveCorrupt(f) PROVE TypeOK'
  <2>1. builds' \in Seq(Build) /\ Len(builds') = Len(builds)
    BY <1>4, FileIsCorrupt
  <2>2. /\ spool' = spool \ {f} /\ wTodo' = wTodo \ {f} /\ Lose(TRUE)
        /\ UNCHANGED <<now, agent, pending, writer, wPc, wOut, conn, ctlVars, crashes, breaks>>
    BY <1>4 DEF RemoveCorrupt
  <2>3. lost' \in 0..MaxLost
    BY <2>2, LoseTyped
  <2> QED
    BY <2>1, <2>2, <2>3 DEF TypeInv, TypeOK, ctlVars
<1> QED
  BY <1>1, <1>2, <1>3, <1>4

(* The watcher's steps keep the types; what it has taken is off its list.  *)
LEMMA WatchTyped ==
  ASSUME TypeInv, EventsInv, FilesInv, Watch
  PROVE  TypeOK'
<1> USE Facts
<1>1. CASE Tick
  BY <1>1 DEF Tick, TypeInv, TypeOK, hostVars, ctlVars, faultVars
<1>2. CASE TickEnds
  BY <1>2 DEF TickEnds, TypeInv, TypeOK, hostVars, ctlVars, faultVars
<1>3. CASE WriteFrame
  <2>1. wOut.to \in DOMAIN conn
    BY <1>3 DEF EventsInv, WriteFrame
  <2>2. conn' \in Seq(Conn) /\ Len(conn') = Len(conn)
    BY <1>3, <2>1, Writing DEF OneChanged
  <2>3. /\ wPc = "write" /\ wPc' = "unlink"
        /\ UNCHANGED <<hostVars, spool, agent, pending, writer, wTodo, wOut, ctlVars, faultVars>>
    BY <1>3 DEF WriteFrame
  <2> QED
    BY <2>2, <2>3 DEF TypeInv, TypeOK, hostVars, ctlVars, faultVars
<1>4. CASE WriteFails
  BY <1>4 DEF WriteFails, TypeInv, TypeOK, hostVars, ctlVars, faultVars
<1>5. CASE UnlinkFinish
  <2>1. wTodo \subseteq spool \ {wOut.file}
    BY <1>5 DEF EventsInv, UnlinkFinish
  <2> QED BY <1>5, <2>1 DEF UnlinkFinish, TypeInv, TypeOK, hostVars, ctlVars, faultVars
<1>6. ASSUME NEW f \in wTodo, StoreStart(f) PROVE TypeOK'
  <2>1. f \in File /\ f.ts \in Times
    BY DEF File
  <2>2. [pending EXCEPT ![builds[f.build].drv] = f.ts] \in [Drvs -> Times]
    BY <2>1
  <2> QED
    BY <1>6, <2>2 DEF StoreStart, Turn, TypeInv, TypeOK, hostVars, ctlVars, faultVars
<1>7. ASSUME NEW f \in wTodo, TakeFinish(f) PROVE TypeOK'
  <2> DEFINE d == builds[f.build].drv
             w == [event |-> [build |-> f.build, started |-> Started(d, f.ts)],
                    file |-> f, to |-> writer]
  <2>1. [pending EXCEPT ![d] = 0] \in [Drvs -> Times]
    OBVIOUS
  <2>2. writer # 0 => w \in Push
    <3>1. f \in File /\ f.build \in Builds
      BY DEF File
    <3>2. f.build \in DOMAIN builds
      BY DEF FilesInv, FileOK
    <3>3. d \in Drvs
      <4>1. builds[f.build] \in Build
        BY <3>2, Elements
      <4> QED
        BY <4>1 DEF Build
    <3>4. Started(d, f.ts) \in Times
      BY <3>3 DEF Started
    <3>5. writer # 0 => writer \in Conns
      BY DEF Conns
    <3>6. [build |-> f.build, started |-> Started(d, f.ts)] \in Event
      BY <3>1, <3>4 DEF Event
    <3> QED
      BY <3>1, <3>5, <3>6 DEF Push
  <2>3. /\ pending' = [pending EXCEPT ![d] = 0] /\ wPc = "list"
        /\ wTodo' = wTodo \ {f}
        /\ \/ writer = 0 /\ UNCHANGED <<wPc, wOut>>
           \/ writer # 0 /\ wPc' = "write" /\ wOut' = w
        /\ UNCHANGED <<hostVars, spool, agent, writer, conn, ctlVars, faultVars>>
    BY <1>7 DEF TakeFinish, Turn
  <2> HIDE DEF d, w
  <2> QED
    BY <2>1, <2>2, <2>3 DEF TypeInv, TypeOK, hostVars, ctlVars, faultVars
<1> QED
  BY <1>1, <1>2, <1>3, <1>4, <1>5, <1>6, <1>7 DEF Watch

(* The connections' steps keep the types.                                  *)
LEMMA SessionsTyped ==
  ASSUME TypeInv, NEW c \in DOMAIN conn,
         \/ Serve(c) \/ HandshakeFails(c) \/ HandlerEnds(c)
         \/ SessionBreaks(c) \/ TearsFrame(c) \/ SessionEof(c)
  PROVE  TypeOK'
<1> USE Facts
<1>0. c \in 0..Len(conn)
  BY Elements
<1>1. CASE Serve(c)
  <2>1. conn' \in Seq(Conn) /\ Len(conn') = Len(conn)
    BY <1>1, Serving DEF OneChanged
  <2> QED
    BY <1>0, <1>1, <2>1 DEF Serve, TypeInv, TypeOK, hostVars, watchVars, ctlVars, faultVars
<1>2. CASE HandshakeFails(c) \/ HandlerEnds(c)
  <2>1. conn' \in Seq(Conn) /\ Len(conn') = Len(conn)
    BY <1>2, Ending DEF OneChanged
  <2>2. writer' \in 0..Len(conn)
    BY <1>2 DEF HandshakeFails, HandlerEnds
  <2>3. UNCHANGED <<hostVars, spool, agent, pending, watchVars, ctlVars, faultVars>>
    BY <1>2 DEF HandshakeFails, HandlerEnds
  <2> QED
    BY <2>1, <2>2, <2>3 DEF TypeInv, TypeOK, hostVars, watchVars, ctlVars, faultVars
<1>3. CASE SessionBreaks(c) \/ TearsFrame(c)
  <2>1. conn' \in Seq(Conn) /\ Len(conn') = Len(conn)
    BY <1>3, Closing, Tearing DEF OneChanged, SessionBreaks
  <2>2. breaks' \in 0..MaxBreaks
    BY <1>3, BreakTyped DEF SessionBreaks, TearsFrame
  <2>3. UNCHANGED <<hostVars, spool, agent, pending, writer, watchVars, ctlVars, lost, crashes>>
    BY <1>3 DEF SessionBreaks, TearsFrame
  <2> QED
    BY <2>1, <2>2, <2>3 DEF TypeInv, TypeOK, hostVars, watchVars, ctlVars
<1>4. CASE SessionEof(c)
  <2>1. conn' \in Seq(Conn) /\ Len(conn') = Len(conn)
    BY <1>4, Closing DEF OneChanged, SessionEof
  <2> QED
    BY <1>4, <2>1 DEF SessionEof, TypeInv, TypeOK, hostVars, watchVars, ctlVars, faultVars
<1> QED
  BY <1>1, <1>2, <1>3, <1>4

(* The first event of a pipe is one of a finished build.                   *)
LEMMA EventAt ==
  ASSUME TypeInv, EventsInv, NEW c \in DOMAIN conn, conn[c].pipe # <<>>
  PROVE  EventOK(Head(conn[c].pipe)) /\ Head(conn[c].pipe) \in Event
<1>1. conn[c].pipe \in Seq(Event)
  BY Facts, Elements, ConnFields
<1>2. 1 \in DOMAIN conn[c].pipe /\ Head(conn[c].pipe) = conn[c].pipe[1]
  BY <1>1
<1> QED
  BY <1>1, <1>2, Elements DEF EventsInv

(* Whether its prune goes through or not, an event adds at most its row.   *)
Recorded(e) == Record(e) \/ RecordWithoutPrune(e) \/ UNCHANGED <<obs, recorded, unpruned>>

LEMMA RecordAdds ==
  ASSUME NEW e, Recorded(e)
  PROVE  \/ UNCHANGED <<obs, recorded, unpruned>>
         \/ /\ e.started # 0 /\ recorded' = recorded \cup {RowOf(e)}
            /\ obs' = IF MaxSamples = 0 THEN obs \cup {RowOf(e)} ELSE Newest(obs \cup {RowOf(e)})
            /\ unpruned' = {}
         \/ /\ e.started # 0 /\ recorded' = recorded \cup {RowOf(e)}
            /\ MaxSamples > 0 /\ obs' = obs \cup {RowOf(e)}
            /\ unpruned' = unpruned \cup {RowOf(e)}
  BY Zenon DEF Recorded, Record, RecordWithoutPrune, Inserts, Ignores

(* What the controller does with the event at the head of a connection.    *)
LEMMA HandlingRecords ==
  ASSUME NEW c \in DOMAIN conn, HandleFinish(c) \/ HandleFails(c)
  PROVE  conn[c].pipe # <<>> /\ Recorded(Head(conn[c].pipe))
  BY Zenon DEF HandleFinish, HandleFails, Recorded

LEMMA RowTyped ==
  ASSUME TypeInv, NEW e \in Event, EventOK(e)
  PROVE  RowOf(e) \in Observation
<1>1. builds[e.build] \in Build /\ e.started \in Times
  BY Facts, Elements DEF EventOK, Event
<1> QED
  BY <1>1 DEF RowOf, Build, Observation

(* What is recorded is an observation.                                     *)
LEMMA RecordTyped ==
  ASSUME TypeInv, NEW e \in Event, EventOK(e), Recorded(e)
  PROVE  obs' \subseteq recorded' /\ recorded' \subseteq Observation /\ unpruned' \subseteq obs'
<1> DEFINE row == RowOf(e)
<1>1. row \in Observation
  BY RowTyped
<1>2. obs \subseteq recorded /\ recorded \subseteq Observation /\ unpruned \subseteq obs
  BY DEF TypeInv, TypeOK
<1>3. \/ UNCHANGED <<obs, recorded, unpruned>>
      \/ /\ obs' = (obs \cup {row}) \/ obs' = Newest(obs \cup {row})
         /\ recorded' = recorded \cup {row} /\ unpruned' = {}
      \/ /\ obs' = (obs \cup {row}) /\ recorded' = recorded \cup {row}
         /\ unpruned' = unpruned \cup {row}
  BY RecordAdds, Zenon
<1>4. Newest(obs \cup {row}) \subseteq obs \cup {row}
  BY DEF Newest
<1> HIDE DEF row
<1> QED
  BY <1>1, <1>2, <1>3, <1>4

(* The controller's steps keep the types.                                  *)
LEMMA HandledTyped ==
  ASSUME TypeInv, EventsInv, NEW c \in DOMAIN conn, HandleFinish(c) \/ HandleFails(c)
  PROVE  TypeOK'
<1> DEFINE e == Head(conn[c].pipe)
<1>1. EventOK(e) /\ e \in Event
  BY EventAt DEF HandleFinish, HandleFails
<1>2. e.build \in Builds
  BY <1>1 DEF Event
<1>3. obs' \subseteq recorded' /\ recorded' \subseteq Observation /\ unpruned' \subseteq obs'
  <2>1. Recorded(e)
    BY HandlingRecords
  <2> HIDE DEF e
  <2> QED
    BY <1>1, <2>1, RecordTyped
<1>4. conn' \in Seq(Conn) /\ Len(conn') = Len(conn)
  BY Closing, Handling DEF OneChanged, HandleFails
<1>5. handled' = handled \/ handled' = handled \cup {e.build}
  BY DEF HandleFinish, HandleFails
<1>6. breaks' \in 0..MaxBreaks
  <2>1. breaks \in 0..MaxBreaks
    BY DEF TypeInv, TypeOK
  <2> QED
    BY <2>1, BreakTyped DEF HandleFinish, HandleFails, faultVars
<1>7. UNCHANGED <<hostVars, spool, agent, pending, writer, watchVars, lost, crashes>>
  BY DEF HandleFinish, HandleFails, faultVars
<1> HIDE DEF e
<1> QED
  BY <1>2, <1>3, <1>4, <1>5, <1>6, <1>7 DEF TypeInv, TypeOK, hostVars, watchVars

(* Every step keeps the types.                                             *)
LEMMA TypeInduction ==
  ASSUME TypeInv, EventsInv, FilesInv, [Next]_vars
  PROVE  TypeOK'
<1> USE Facts
<1>1. CASE Connect
  <2>1. conn' \in Seq(Conn) /\ Len(conn') = Len(conn) + 1
    BY <1>1, Dialling
  <2>2. Len(conn) + 1 <= MaxConns
    BY <1>1 DEF Connect
  <2>3. UNCHANGED <<hostVars, spool, agent, pending, writer, watchVars, ctlVars, faultVars>>
    BY <1>1 DEF Connect
  <2> QED
    BY <2>1, <2>2, <2>3 DEF TypeInv, TypeOK, hostVars, watchVars, ctlVars, faultVars
<1>2. CASE AgentCrash
  <2>1. conn' \in Seq(Conn) /\ Len(conn') = Len(conn)
    BY <1>2, Crashing
  <2>2. crashes' \in 0..MaxCrashes
    BY <1>2 DEF AgentCrash, TypeInv, TypeOK
  <2>3. /\ agent' = "down" /\ pending' = [d \in Drvs |-> 0] /\ writer' = 0
        /\ wPc' = "idle" /\ wTodo' = {} /\ wOut' = NoPush
        /\ UNCHANGED <<hostVars, spool, ctlVars, lost, breaks>>
    BY <1>2 DEF AgentCrash
  <2>4. pending' \in [Drvs -> Times]
    BY <2>3
  <2> QED
    BY <2>1, <2>2, <2>3, <2>4 DEF TypeInv, TypeOK, hostVars, ctlVars
<1>3. CASE AgentStart
  BY <1>3 DEF AgentStart, TypeInv, TypeOK, hostVars, watchVars, ctlVars, faultVars
<1>4. CASE UNCHANGED vars
  BY <1>4 DEF vars, TypeInv, TypeOK
<1> QED
  BY <1>1, <1>2, <1>3, <1>4, HostTyped, WatchTyped, SessionsTyped, HandledTyped, Zenon
    DEF Next

(* Every step keeps the clock within two ticks for each build.             *)
LEMMA ClockInduction ==
  ASSUME TypeInv, HistoryInv, [Next]_vars
  PROVE  Clock'
<1> DEFINE R == {b \in DOMAIN builds : builds[b].running}
<1>0. /\ IsFiniteSet(R) /\ Cardinality(R) \in Nat /\ now \in Nat /\ Len(builds) \in Nat
      /\ now + Cardinality(R) <= 2 * Len(builds)
  BY RunningCount, Facts DEF TypeInv, Clock, Times
<1>1. ASSUME NEW d \in Drvs, BuildStarts(d) PROVE Clock'
  <2>1. R' = R \cup {Len(builds) + 1} /\ Len(builds) + 1 \notin R
    BY <1>1, BuildIsNew
  <2>2. now' = now + 1 /\ Len(builds') = Len(builds) + 1
    BY <1>1, BuildIsNew
  <2> HIDE DEF R
  <2>3. Cardinality(R') = Cardinality(R) + 1
    BY <1>0, <2>1, FS_AddElement
  <2>4. now' + Cardinality(R') <= 2 * Len(builds')
    BY <1>0, <2>2, <2>3
  <2> QED
    BY <2>4 DEF Clock, R
<1>2. ASSUME NEW b \in DOMAIN builds, BuildSucceeds(b) PROVE Clock'
  <2>1. R' = R \ {b} /\ b \in R
    BY <1>2, BuildIsDone, Zenon
  <2>2. now' = now + 1 /\ Len(builds') = Len(builds)
    BY <1>2, BuildIsDone
  <2> HIDE DEF R
  <2>3. Cardinality(R') = Cardinality(R) - 1
    BY <1>0, <2>1, FS_RemoveElement
  <2>4. now' + Cardinality(R') <= 2 * Len(builds')
    BY <1>0, <2>2, <2>3
  <2> QED
    BY <2>4 DEF Clock, R
<1>3. ASSUME NEW b \in DOMAIN builds, BuildFails(b) PROVE Clock'
  <2>1. R' \subseteq R
    BY <1>3, BuildIsOver, Zenon
  <2>2. now' = now /\ Len(builds') = Len(builds)
    BY <1>3, BuildIsOver DEF BuildFails
  <2> HIDE DEF R
  <2>3. Cardinality(R') \in Nat /\ Cardinality(R') <= Cardinality(R)
    BY <1>0, <2>1, FS_Subset, FS_CardinalityType
  <2>4. now' + Cardinality(R') <= 2 * Len(builds')
    BY <1>0, <2>2, <2>3
  <2> QED
    BY <2>4 DEF Clock, R
<1>4. ASSUME NEW f \in wTodo, RemoveCorrupt(f) PROVE Clock'
  <2>1. R' = R
    BY <1>4, FileIsCorrupt, Zenon
  <2>2. now' = now /\ Len(builds') = Len(builds)
    BY <1>4, FileIsCorrupt DEF RemoveCorrupt
  <2> QED
    BY <2>1, <2>2, <1>0 DEF Clock
<1>5. CASE UNCHANGED hostVars
  BY <1>5, <1>0 DEF Clock, hostVars
<1> QED
  BY <1>1, <1>2, <1>3, <1>4, <1>5, HostSteps, Zenon

----------------------------------------------------------------------------
(* The order of the spool *)

(* Files and builds have times of the past.                                *)
LEMMA TimesOfFiles ==
  ASSUME TypeInv, HistoryInv, FilesInv
  PROVE  /\ now \in Nat
         /\ \A f \in spool : f.ts \in Nat /\ f.ts <= now
         /\ \A b \in DOMAIN builds :
              /\ b \in Nat /\ builds[b].start \in Nat /\ builds[b].finish \in Nat
              /\ builds[b].start # 0
<1>0. builds \in Seq(Build) /\ now \in Nat /\ spool \subseteq File
  BY Facts DEF Times
<1>1. \A b \in DOMAIN builds :
        /\ b \in Nat /\ builds[b].start \in Nat /\ builds[b].finish \in Nat
        /\ builds[b].start <= now /\ builds[b].finish <= now /\ builds[b].start # 0
  <2> SUFFICES ASSUME NEW b \in DOMAIN builds
               PROVE  /\ b \in Nat /\ builds[b].start \in Nat /\ builds[b].finish \in Nat
                      /\ builds[b].start <= now /\ builds[b].finish <= now
                      /\ builds[b].start # 0
    BY Zenon
  <2>1. builds[b].start \in 1..now /\ builds[b].finish <= now
    BY DEF HistoryInv
  <2>2. b \in Nat /\ builds[b] \in Build
    BY <1>0, Elements
  <2> QED
    BY <1>0, <2>1, <2>2 DEF Build, Times
<1>2. ASSUME NEW f \in spool PROVE f.ts \in Nat /\ f.ts <= now
  <2>1. FileOK(f) /\ f \in File
    BY <1>0 DEF FilesInv
  <2>2. f.build \in DOMAIN builds
        /\ (f.ts = builds[f.build].start \/ f.ts = builds[f.build].finish)
    BY <2>1 DEF FileOK, StartFile, File
  <2> QED
    BY <2>2, <1>1
<1> QED
  BY <1>0, <1>1, <1>2, Zenon

(* The file whose turn it is is older than any start in the spool, listed  *)
(* or not.                                                                 *)
LEMMA NothingEarlier ==
  ASSUME TypeInv, HistoryInv, FilesInv, NEW f \in wTodo, Turn(f),
         NEW g \in spool, g.kind = "start"
  PROVE  f.ts <= g.ts
<1>1. f \in spool /\ f.ts \in Nat /\ g.ts \in Nat
  BY Facts, TimesOfFiles
<1>2. CASE g \in wTodo
  BY <1>2 DEF Turn
<1>3. CASE g \notin wTodo
  <2>1. f.ts < g.ts
    BY <1>3, Zenon DEF FilesInv
  <2> QED
    BY <2>1, <1>1
<1> QED
  BY <1>2, <1>3

(* New files, and files that are removed as corrupt, keep the order of the *)
(* spool.                                                                  *)
LEMMA FilesByHost ==
  ASSUME TypeInv, HistoryInv, FilesInv,
         \/ \E d \in Drvs : BuildStarts(d)
         \/ \E b \in DOMAIN builds : BuildSucceeds(b) \/ BuildFails(b)
         \/ \E f \in wTodo : RemoveCorrupt(f)
  PROVE  FilesInv'
<1>a. wTodo \subseteq spool
  BY Facts
<1>1. ASSUME NEW d \in Drvs, BuildStarts(d) PROVE FilesInv'
  <2>0. PICK n \in Nat : n = Len(builds) + 1
    BY Facts
  <2>k. PICK t \in Nat : t = now + 1
    BY TimesOfFiles
  <2> DEFINE g == [ts |-> t, kind |-> "start", build |-> n]
  <2>1. /\ DOMAIN builds' = DOMAIN builds \cup {n} /\ n \notin DOMAIN builds
        /\ \A b \in DOMAIN builds : builds'[b] = builds[b]
        /\ builds'[n].start = t
        /\ spool' = IF builds'[n].startLost THEN spool ELSE spool \cup {g}
    BY <1>1, <2>0, <2>k, BuildIsNew
  <2>2. wTodo' = wTodo
    BY <1>1 DEF BuildStarts, watchVars
  <2>3. \A b \in DOMAIN builds : b < n /\ ~ (n < b)
    BY <2>0, Facts, Elements
  <2>4. ~ (n < n)
    OBVIOUS
  <2>5. g.ts = t /\ g.kind = "start" /\ g.build = n /\ g = StartFile(n)'
    BY <2>1 DEF StartFile
  <2>6. \A f \in wTodo : f.ts < t
    BY <1>a, <2>k, TimesOfFiles
  <2> HIDE DEF g
  <2>7. spool \subseteq spool' /\ spool' \subseteq spool \cup {g}
    BY <2>1
  <2>8. \A b \in DOMAIN builds : StartFile(b)' = StartFile(b) /\ StartFile(b) # g
    BY <2>1, <2>5 DEF StartFile
  <2>9. \A f \in spool' : FileOK(f)'
    <3> SUFFICES ASSUME NEW f \in spool' PROVE FileOK(f)'
      OBVIOUS
    <3>1. CASE f \in spool
      <4>1. FileOK(f)
        BY <3>1 DEF FilesInv
      <4> QED
        BY <4>1, <2>1, <2>8 DEF FileOK
    <3>2. CASE f = g
      BY <3>2, <2>1, <2>5 DEF FileOK
    <3> QED
      BY <3>1, <3>2, <2>7
  <2>10. \A f \in spool' \ wTodo' : f.kind = "start" => \A h \in wTodo' : h.ts < f.ts
    BY <2>7, <2>2, <2>6, <2>5, Zenon DEF FilesInv
  <2>11. ASSUME NEW a \in DOMAIN builds', NEW b \in DOMAIN builds', a < b, StartFile(a)' \in spool'
         PROVE  builds'[b].startLost \/ StartFile(b)' \in spool'
    <3>1. a # n
      BY <2>11, <2>3, <2>4, <2>1
    <3>2. CASE b = n
      BY <3>2, <2>1, <2>5
    <3>3. CASE b # n
      <4>1. a \in DOMAIN builds /\ b \in DOMAIN builds
        BY <3>1, <3>3, <2>1
      <4>2. StartFile(a) \in spool
        BY <4>1, <2>8, <2>7, <2>11, Zenon
      <4>3. builds[b].startLost \/ StartFile(b) \in spool
        BY <4>1, <4>2, <2>11, Zenon DEF FilesInv
      <4> QED
        BY <4>1, <4>3, <2>1, <2>7, <2>8, Zenon
    <3> QED
      BY <3>2, <3>3
  <2> QED
    BY <2>9, <2>10, <2>11, Zenon DEF FilesInv
<1>2. ASSUME NEW b \in DOMAIN builds, BuildSucceeds(b) PROVE FilesInv'
  <2> DEFINE g == [ts |-> now + 1, kind |-> "finish", build |-> b]
  <2>1. /\ DOMAIN builds' = DOMAIN builds /\ builds[b].running
        /\ \A a \in DOMAIN builds :
             /\ builds'[a].start = builds[a].start
             /\ builds'[a].startLost = builds[a].startLost
             /\ a # b => builds'[a] = builds[a]
        /\ builds'[b].finish = now + 1
        /\ spool' = IF builds'[b].finishLost THEN spool ELSE spool \cup {g}
    BY <1>2, BuildIsDone
  <2>2. wTodo' = wTodo
    BY <1>2 DEF BuildSucceeds, watchVars
  <2>3. \A a \in DOMAIN builds : StartFile(a)' = StartFile(a)
    BY <2>1 DEF StartFile
  <2>4. g.ts = now + 1 /\ g.kind = "finish" /\ g.build = b
    OBVIOUS
  <2> HIDE DEF g
  <2>5. spool \subseteq spool' /\ spool' \subseteq spool \cup {g}
    BY <2>1
  <2>6. \A f \in spool' : FileOK(f)'
    <3> SUFFICES ASSUME NEW f \in spool' PROVE FileOK(f)'
      OBVIOUS
    <3>1. CASE f \in spool
      <4>1. FileOK(f)
        BY <3>1 DEF FilesInv
      <4>2. builds[b].finish = 0
        BY <2>1 DEF HistoryInv
      <4>3. f.kind = "finish" => f.build # b
        BY <4>1, <4>2 DEF FileOK
      <4> QED
        BY <4>1, <4>3, <2>1, <2>3 DEF FileOK
    <3>2. CASE f = g
      <4>1. now + 1 # 0
        BY TimesOfFiles
      <4> QED
        BY <3>2, <4>1, <2>1, <2>4 DEF FileOK
    <3> QED
      BY <3>1, <3>2, <2>5
  <2>7. \A f \in spool' \ wTodo' : f.kind = "start" => \A h \in wTodo' : h.ts < f.ts
    <3>1. \A f \in spool' : f.kind = "start" => f \in spool
      BY <2>5, <2>4
    <3> QED
      BY <3>1, <2>2, Zenon DEF FilesInv
  <2>8. \A a \in DOMAIN builds : StartFile(a) \in spool' => StartFile(a) \in spool
    BY <2>5, <2>4 DEF StartFile
  <2> QED
    BY <2>1, <2>3, <2>5, <2>6, <2>7, <2>8, Zenon DEF FilesInv
<1>3. ASSUME NEW b \in DOMAIN builds, BuildFails(b) PROVE FilesInv'
  <2>1. spool' = spool /\ wTodo' = wTodo
    BY <1>3 DEF BuildFails, watchVars
  <2>2. /\ DOMAIN builds' = DOMAIN builds
        /\ \A a \in DOMAIN builds :
              /\ builds'[a].start = builds[a].start /\ builds'[a].startLost = builds[a].startLost
              /\ builds'[a].finish = builds[a].finish
    BY <1>3, BuildIsOver
  <2>3. \A a \in DOMAIN builds : StartFile(a)' = StartFile(a)
    BY <2>2 DEF StartFile
  <2>4. \A f \in spool : FileOK(f)'
    BY <2>2, <2>3 DEF FilesInv, FileOK
  <2> QED
    BY <2>1, <2>2, <2>3, <2>4, Zenon DEF FilesInv
<1>4. ASSUME NEW f \in wTodo, RemoveCorrupt(f) PROVE FilesInv'
  <2>1. spool' = spool \ {f} /\ wTodo' = wTodo \ {f}
    BY <1>4 DEF RemoveCorrupt
  <2>2. /\ DOMAIN builds' = DOMAIN builds
        /\ \A a \in DOMAIN builds :
              /\ builds'[a].start = builds[a].start
              /\ builds[a].startLost => builds'[a].startLost
              /\ builds'[a].finish = builds[a].finish
              /\ f = StartFile(a) => builds'[a].startLost
    BY <1>4, FileIsCorrupt
  <2>3. \A a \in DOMAIN builds : StartFile(a)' = StartFile(a)
    BY <2>2 DEF StartFile
  <2>4. \A h \in spool : FileOK(h)'
    BY <2>2, <2>3 DEF FilesInv, FileOK
  <2>5. \A h \in spool' \ wTodo' : h \in spool \ wTodo
    BY <2>1
  <2>6. \A h \in spool' \ wTodo' : h.kind = "start" => \A k \in wTodo' : k.ts < h.ts
    BY <2>5, <2>1, Zenon DEF FilesInv
  <2>7. \A a \in DOMAIN builds : StartFile(a) \in spool => StartFile(a) \in spool' \/ builds'[a].startLost
    BY <2>1, <2>2
  <2>8. \A a, b \in DOMAIN builds :
          a < b /\ StartFile(a) \in spool' => builds'[b].startLost \/ StartFile(b) \in spool'
    BY <2>1, <2>2, <2>7 DEF FilesInv
  <2>9. \A h \in spool' : FileOK(h)'
    BY <2>1, <2>4
  <2> QED
    BY <2>2, <2>3, <2>6, <2>8, <2>9, Zenon DEF FilesInv
<1> QED
  BY <1>1, <1>2, <1>3, <1>4

(* A start is not taken before that of an earlier build.                   *)
LEMMA StartsStayInOrder ==
  ASSUME TypeInv, HistoryInv, FilesInv, NEW f \in wTodo, StoreStart(f),
         NEW a \in DOMAIN builds, NEW b \in DOMAIN builds, a < b, StartFile(a) \in spool
  PROVE  StartFile(b) # f
<1> SUFFICES ASSUME StartFile(b) = f PROVE FALSE
  OBVIOUS
<1>1. Turn(f)
  BY DEF StoreStart
<1>2. StartFile(a).kind = "start" /\ StartFile(a).ts = builds[a].start /\ f.ts = builds[b].start
  BY DEF StartFile
<1>3. f.ts <= StartFile(a).ts
  BY <1>1, <1>2, NothingEarlier
<1>4. builds[a].start < builds[b].start
  BY DEF HistoryInv
<1> QED
  BY <1>2, <1>3, <1>4, TimesOfFiles

(* Every step keeps the order of the spool.                                *)
LEMMA FilesInduction ==
  ASSUME TypeInv, HistoryInv, FilesInv, EventsInv, [Next]_vars
  PROVE  FilesInv'
<1>a. wTodo \subseteq spool
  BY Facts
<1>1. ASSUME builds' = builds, wTodo' \subseteq wTodo, spool' \subseteq spool,
             \A f \in spool' \ wTodo' : f.kind = "start" => f \notin wTodo \/ wTodo' = {},
             \A a, b \in DOMAIN builds : a < b /\ StartFile(a) \in spool'
               /\ StartFile(b) \in spool => StartFile(b) \in spool'
      PROVE  FilesInv'
  <2>1. \A a \in DOMAIN builds : StartFile(a)' = StartFile(a)
    BY <1>1 DEF StartFile
  <2>2. \A f \in spool' : FileOK(f)'
    BY <1>1, <2>1 DEF FilesInv, FileOK
  <2>3. \A f \in spool' \ wTodo' : f.kind = "start" => \A g \in wTodo' : g.ts < f.ts
    BY <1>1, Zenon DEF FilesInv
  <2>4. \A a, b \in DOMAIN builds :
          a < b /\ StartFile(a) \in spool' => builds[b].startLost \/ StartFile(b) \in spool'
    BY <1>1, Zenon DEF FilesInv
  <2>5. ASSUME NEW a \in DOMAIN builds', NEW b \in DOMAIN builds', a < b, StartFile(a)' \in spool'
        PROVE  builds'[b].startLost \/ StartFile(b)' \in spool'
    BY <2>5, <1>1, <2>1, <2>4
  <2> QED
    BY <2>2, <2>3, <2>5, Zenon DEF FilesInv
<1>2. CASE Tick
  <2>1. builds' = builds /\ spool' = spool /\ wTodo' = spool
    BY <1>2 DEF Tick, hostVars
  <2>2. \A f \in spool : FileOK(f)'
    BY <2>1 DEF FilesInv, FileOK, StartFile
  <2>3. \A a \in DOMAIN builds : StartFile(a)' = StartFile(a)
    BY <2>1 DEF StartFile
  <2>4. ASSUME NEW a \in DOMAIN builds', NEW b \in DOMAIN builds', a < b, StartFile(a)' \in spool'
        PROVE  builds'[b].startLost \/ StartFile(b)' \in spool'
    BY <2>4, <2>1, <2>3 DEF FilesInv
  <2>5. \A f \in spool' : FileOK(f)'
    BY <2>1, <2>2
  <2>6. spool' \ wTodo' = {}
    BY <2>1
  <2> QED
    BY <2>4, <2>5, <2>6, Zenon DEF FilesInv
<1>3. ASSUME UNCHANGED <<builds, spool, wTodo>> PROVE FilesInv'
  <2>1. builds' = builds /\ spool' = spool /\ wTodo' = wTodo
    BY <1>3
  <2> QED
    BY <2>1, <1>1, Zenon
<1>4. CASE UnlinkFinish
  <2>1. builds' = builds /\ spool' = spool \ {wOut.file} /\ wTodo' = wTodo
    BY <1>4 DEF UnlinkFinish, hostVars
  <2>2. wOut.file.kind = "finish"
    BY <1>4 DEF UnlinkFinish, EventsInv
  <2>3. \A a : StartFile(a) # wOut.file
    BY <2>2 DEF StartFile
  <2> QED
    BY <2>1, <2>3, <1>1
<1>5. ASSUME NEW f \in wTodo, StoreStart(f) PROVE FilesInv'
  <2>1. builds' = builds /\ spool' = spool \ {f} /\ wTodo' = wTodo \ {f}
    BY <1>5 DEF StoreStart, hostVars
  <2>2. \A a, b \in DOMAIN builds : a < b /\ StartFile(a) \in spool => StartFile(b) # f
    BY <1>5, StartsStayInOrder
  <2> QED
    BY <2>1, <2>2, <1>1
<1>6. ASSUME NEW f \in wTodo, TakeFinish(f) PROVE FilesInv'
  <2>1. builds' = builds /\ spool' = spool /\ wTodo' = wTodo \ {f} /\ f.kind = "finish"
    BY <1>6 DEF TakeFinish, hostVars
  <2> QED
    BY <2>1, <1>1
<1>7. CASE AgentCrash
  <2>1. builds' = builds /\ spool' = spool /\ wTodo' = {}
    BY <1>7 DEF AgentCrash, hostVars
  <2> QED
    BY <2>1, <1>1
<1>8. CASE TickEnds \/ WriteFrame \/ WriteFails \/ Connect \/ AgentStart \/ UNCHANGED vars
  <2>1. UNCHANGED <<builds, spool, wTodo>>
    BY <1>8, Zenon
      DEF TickEnds, WriteFrame, WriteFails, Connect, AgentStart, vars, hostVars, watchVars
  <2> QED
    BY <2>1, <1>3
<1>9. ASSUME NEW c \in DOMAIN conn,
       \/ Serve(c) \/ HandshakeFails(c) \/ HandlerEnds(c)
       \/ SessionBreaks(c) \/ TearsFrame(c) \/ SessionEof(c)
       \/ HandleFinish(c) \/ HandleFails(c)
      PROVE FilesInv'
  <2>1. UNCHANGED <<builds, spool, wTodo>>
    BY <1>9, Zenon
      DEF Serve, HandshakeFails, HandlerEnds, SessionBreaks, TearsFrame, SessionEof,
       HandleFinish, HandleFails, hostVars, watchVars
  <2> QED
    BY <2>1, <1>3
<1> QED
  BY <1>2, <1>4, <1>5, <1>6, <1>7, <1>8, <1>9, FilesByHost, Zenon DEF Next, Watch

----------------------------------------------------------------------------
(* Events and rows are right *)

(* The history of a build is never rewritten.                              *)
LEMMA HistoryGrows ==
  ASSUME TypeInv, HistoryInv, [Next]_vars
  PROVE  /\ DOMAIN builds \subseteq DOMAIN builds'
         /\ \A b \in DOMAIN builds :
              /\ builds'[b].drv = builds[b].drv /\ builds'[b].start = builds[b].start
              /\ builds[b].finish # 0 => builds'[b].finish = builds[b].finish
              /\ builds[b].startLost => builds'[b].startLost
<1>1. ASSUME NEW b \in DOMAIN builds, BuildSucceeds(b)
      PROVE  \A a \in DOMAIN builds : builds[a].finish # 0 => builds'[a].finish = builds[a].finish
  <2>1. builds[b].finish = 0 /\ \A a \in DOMAIN builds : a # b => builds'[a] = builds[a]
    BY <1>1, BuildIsDone DEF HistoryInv
  <2> QED
    BY <2>1
<1>2. CASE UNCHANGED hostVars
  BY <1>2 DEF hostVars
<1>3. ASSUME NEW d \in Drvs, BuildStarts(d)
      PROVE  DOMAIN builds \subseteq DOMAIN builds' /\ \A b \in DOMAIN builds : builds'[b] = builds[b]
  BY <1>3, BuildIsNew
<1> QED
  BY <1>1, <1>2, <1>3, HostSteps, BuildIsDone, BuildIsOver, FileIsCorrupt, Zenon

(* An event once right stays right.                                        *)
LEMMA EventStays ==
  ASSUME TypeInv, HistoryInv, [Next]_vars, NEW e, EventOK(e)
  PROVE  EventOK(e)'
BY HistoryGrows DEF EventOK

(* A row once right stays right.                                           *)
LEMMA RowStays ==
  ASSUME TypeInv, HistoryInv, [Next]_vars, NEW r, RowOK(r)
  PROVE  RowOK(r)'
<1>1. PICK b \in DOMAIN builds :
    /\ builds[b].drv = r.drv /\ builds[b].finish = r.finished /\ r.finished # 0
    /\ r.started = builds[b].start \/ builds[b].startLost
  BY DEF RowOK
<1>2. /\ b \in DOMAIN builds' /\ builds'[b].drv = r.drv /\ builds'[b].finish = r.finished
      /\ r.started = builds'[b].start \/ builds'[b].startLost
  BY <1>1, HistoryGrows
<1> QED
  BY <1>1, <1>2, Zenon DEF RowOK

(* A finish that is taken meets the start of its own build, or none, or    *)
(* its own was lost.                                                       *)
LEMMA StartedIsOwn ==
  ASSUME TypeInv, HistoryInv, FilesInv, PendingInv, NEW f \in wTodo, TakeFinish(f)
  PROVE  EventOK([build |-> f.build, started |-> Started(builds[f.build].drv, f.ts)])
<1> DEFINE b == f.build
           d == builds[b].drv
           e == [build |-> b, started |-> Started(d, f.ts)]
<1>1. f \in spool /\ FileOK(f) /\ f.kind = "finish" /\ Turn(f)
  BY Facts DEF FilesInv, TakeFinish
<1>2. b \in DOMAIN builds /\ f.ts = builds[b].finish /\ builds[b].finish # 0
  BY <1>1 DEF FileOK
<1>3. d \in Drvs /\ pending[d] \in Nat
  <2>1. builds[b] \in Build
    BY <1>2, Facts, Elements
  <2>2. d \in Drvs
    BY <2>1 DEF Build
  <2> QED
    BY <2>2, Facts DEF Times
<1>4. f.ts \in Nat
  BY <1>1, TimesOfFiles
<1>5. Started(d, f.ts) \in {0, builds[b].start} \/ builds[b].startLost
  <2> SUFFICES ASSUME pending[d] <= f.ts, pending[d] # 0, ~ builds[b].startLost
               PROVE  pending[d] = builds[b].start
    BY DEF Started
  <2>1. PICK a \in DOMAIN builds :
      /\ builds[a].drv = d /\ builds[a].start = pending[d]
      /\ \A c \in DOMAIN builds :
           a < c /\ builds[c].drv = d => builds[c].startLost \/ StartFile(c) \in spool
    BY <1>3 DEF PendingInv
  <2>2. a \in Nat /\ b \in Nat
    BY <1>2, TimesOfFiles
  <2>3. CASE a < b
    <3>1. StartFile(b) \in spool
      BY <2>1, <2>3, <1>2
    <3>2. StartFile(b).kind = "start" /\ StartFile(b).ts = builds[b].start
      BY DEF StartFile
    <3>3. f.ts <= builds[b].start
      BY <3>1, <3>2, <1>1, NothingEarlier
    <3>4. builds[b].start < builds[b].finish
      BY <1>2 DEF HistoryInv
    <3> QED
      BY <3>3, <3>4, <1>2, TimesOfFiles
  <2>4. CASE b < a
    <3>1. builds[b].finish < builds[a].start
      BY <2>1, <2>4, <1>2 DEF HistoryInv
    <3> QED
      BY <3>1, <2>1, <1>2, <1>3, <1>4
  <2> QED
    BY <2>1, <2>2, <2>3, <2>4
<1>6. e.build = b /\ e.started = Started(d, f.ts)
  OBVIOUS
<1> HIDE DEF e, d
<1>7. EventOK(e)
  BY <1>2, <1>5, <1>6 DEF EventOK
<1> QED
  BY <1>7 DEF e, d

(* The start in memory is the newest one taken of its derivation.          *)
LEMMA PendingInduction ==
  ASSUME TypeInv, HistoryInv, FilesInv, EventsInv, PendingInv, [Next]_vars
  PROVE  PendingInv'
<1> DEFINE Due(c) == builds[c].startLost \/ StartFile(c) \in spool
           Newest0(d, a) == \A b \in DOMAIN builds : a < b /\ builds[b].drv = d => Due(b)
<1>p. pending \in [Drvs -> Times]
  BY Facts
<1>s. \A a : StartFile(a).kind = "start" /\ StartFile(a).build = a
  BY DEF StartFile
<1>t. \A a \in DOMAIN builds : StartFile(a)' = StartFile(a)
  BY HistoryGrows DEF StartFile
(* Every build known still has its start ahead if it had. *)
<1>1. ASSUME \A c \in DOMAIN builds : Due(c) => Due(c)',
             \A c \in DOMAIN builds' \ DOMAIN builds : Due(c)',
             \A d \in Drvs : pending'[d] \in {0, pending[d]}
      PROVE  PendingInv'
  <2> SUFFICES ASSUME NEW d \in Drvs, pending'[d] # 0
               PROVE  \E a \in DOMAIN builds' :
                        /\ builds'[a].drv = d /\ builds'[a].start = pending'[d]
                        /\ \A b \in DOMAIN builds' : a < b /\ builds'[b].drv = d => Due(b)'
    BY DEF PendingInv
  <2>1. PICK a \in DOMAIN builds :
        /\ builds[a].drv = d /\ builds[a].start = pending[d] /\ pending[d] = pending'[d]
        /\ \A b \in DOMAIN builds : a < b /\ builds[b].drv = d => Due(b)
    BY <1>1 DEF PendingInv
  <2>2. \A b \in DOMAIN builds' : a < b /\ builds'[b].drv = d => Due(b)'
    BY <2>1, <1>1, HistoryGrows, Zenon
  <2> QED
    BY <2>1, <2>2, HistoryGrows, Zenon
<1>2. ASSUME spool \subseteq spool', builds' = builds, pending' = pending PROVE PendingInv'
  <2>1. \A c \in DOMAIN builds : Due(c) => Due(c)'
    BY <1>2, <1>t
  <2> QED
    BY <1>1, <1>2, <2>1
<1>3. ASSUME NEW d \in Drvs, BuildStarts(d) PROVE PendingInv'
  <2>0. PICK n \in Nat : n = Len(builds) + 1
    BY Facts
  <2>1. /\ DOMAIN builds' = DOMAIN builds \cup {n}
        /\ \A b \in DOMAIN builds : builds'[b] = builds[b]
        /\ builds'[n].start = now + 1
        /\ spool' = IF builds'[n].startLost THEN spool
                    ELSE spool \cup {[ts |-> now + 1, kind |-> "start", build |-> n]}
    BY <1>3, <2>0, BuildIsNew
  <2>2. StartFile(n)' = [ts |-> now + 1, kind |-> "start", build |-> n]
    BY <2>1 DEF StartFile
  <2>3. Due(n)'
    BY <2>1, <2>2
  <2>4. \A c \in DOMAIN builds : Due(c) => Due(c)'
    BY <2>1, <1>t
  <2>5. pending' = pending
    BY <1>3 DEF BuildStarts
  <2> QED
    BY <1>1, <2>1, <2>3, <2>4, <2>5
<1>4. ASSUME NEW b \in DOMAIN builds, BuildSucceeds(b) \/ BuildFails(b) PROVE PendingInv'
  <2>1. spool \subseteq spool'
    BY <1>4, BuildIsDone DEF BuildFails
  <2>2. pending' = pending /\ DOMAIN builds' = DOMAIN builds
    BY <1>4, BuildIsDone, BuildIsOver DEF BuildSucceeds, BuildFails
  <2>3. \A c \in DOMAIN builds : Due(c) => Due(c)'
    BY <2>1, <1>t, HistoryGrows
  <2> QED
    BY <1>1, <2>2, <2>3
<1>5. ASSUME NEW f \in wTodo, RemoveCorrupt(f) PROVE PendingInv'
  <2>1. spool' = spool \ {f} /\ pending' = pending
    BY <1>5 DEF RemoveCorrupt
  <2>2. DOMAIN builds' = DOMAIN builds /\ \A a \in DOMAIN builds : f = StartFile(a) => builds'[a].startLost
    BY <1>5, FileIsCorrupt
  <2>3. \A c \in DOMAIN builds : Due(c) => Due(c)'
    BY <2>1, <2>2, <1>t, HistoryGrows
  <2> QED
    BY <1>1, <2>1, <2>2, <2>3
<1>6. ASSUME NEW f \in wTodo, StoreStart(f) PROVE PendingInv'
  <2> DEFINE d0 == builds[f.build].drv
  <2>1. /\ pending' = [pending EXCEPT ![d0] = f.ts]
        /\ builds' = builds /\ spool' = spool \ {f} /\ f.kind = "start"
    BY <1>6 DEF StoreStart, hostVars
  <2>2. f \in spool /\ f.build \in DOMAIN builds /\ f = StartFile(f.build)
    BY <2>1, Facts DEF FilesInv, FileOK
  <2>3. ASSUME NEW d \in Drvs, pending'[d] # 0
        PROVE  \E a \in DOMAIN builds' :
                        /\ builds'[a].drv = d /\ builds'[a].start = pending'[d]
                        /\ \A b \in DOMAIN builds' : a < b /\ builds'[b].drv = d => Due(b)'
    <3>1. CASE d = d0
      <4> DEFINE a == f.build
      <4>1. pending'[d] = builds[a].start
        BY <3>1, <2>1, <2>2, <1>p DEF StartFile
      <4>2. \A b \in DOMAIN builds : a < b => Due(b) /\ b # a
        BY <2>2, TimesOfFiles DEF FilesInv
      <4>3. \A b \in DOMAIN builds : a < b => Due(b)'
        BY <4>2, <2>1, <1>t, <1>s, <2>2
      <4> QED
        BY <2>1, <2>2, <4>1, <4>3, <3>1
    <3>2. CASE d # d0
      <4>1. pending'[d] = pending[d]
        BY <3>2, <2>1, <1>p
      <4>2. PICK a \in DOMAIN builds :
              /\ builds[a].drv = d /\ builds[a].start = pending[d]
              /\ \A b \in DOMAIN builds : a < b /\ builds[b].drv = d => Due(b)
        BY <4>1, <2>3 DEF PendingInv
      <4>3. \A b \in DOMAIN builds : builds[b].drv = d => StartFile(b) # f
        BY <3>2, <1>s
      <4>4. \A b \in DOMAIN builds : a < b /\ builds[b].drv = d => Due(b)'
        BY <4>2, <4>3, <2>1, <1>t
      <4> QED
        BY <2>1, <4>1, <4>2, <4>4
    <3> QED
      BY <3>1, <3>2
  <2> QED
    BY <2>3 DEF PendingInv
<1>7. ASSUME NEW f \in wTodo, TakeFinish(f) PROVE PendingInv'
  <2>1. /\ pending' = [pending EXCEPT ![builds[f.build].drv] = 0]
        /\ builds' = builds /\ spool' = spool
    BY <1>7 DEF TakeFinish, hostVars
  <2>2. \A d \in Drvs : pending'[d] \in {0, pending[d]}
    BY <2>1, <1>p
  <2>3. \A c \in DOMAIN builds : Due(c) => Due(c)'
    BY <2>1, <1>t
  <2> QED
    BY <1>1, <2>1, <2>2, <2>3
<1>8. CASE UnlinkFinish
  <2>1. builds' = builds /\ spool' = spool \ {wOut.file} /\ pending' = pending
        /\ wOut.file.kind = "finish"
    BY <1>8 DEF UnlinkFinish, hostVars, EventsInv
  <2>2. \A c \in DOMAIN builds : Due(c) => Due(c)'
    BY <2>1, <1>t, <1>s
  <2> QED
    BY <1>1, <2>1, <2>2
<1>9. CASE AgentCrash
  <2>1. \A d \in Drvs : pending'[d] = 0
    BY <1>9 DEF AgentCrash
  <2> QED
    BY <2>1 DEF PendingInv
<1>10. CASE Tick \/ TickEnds \/ WriteFrame \/ WriteFails \/ Connect \/ AgentStart \/ UNCHANGED vars
  <2>1. UNCHANGED <<builds, spool, pending>>
    BY <1>10, Zenon
      DEF Tick, TickEnds, WriteFrame, WriteFails, Connect, AgentStart, vars, hostVars
  <2> QED
    BY <2>1, <1>2
<1>11. ASSUME NEW c \in DOMAIN conn,
       \/ Serve(c) \/ HandshakeFails(c) \/ HandlerEnds(c)
       \/ SessionBreaks(c) \/ TearsFrame(c) \/ SessionEof(c)
       \/ HandleFinish(c) \/ HandleFails(c)
      PROVE PendingInv'
  <2>1. UNCHANGED <<builds, spool, pending>>
    BY <1>11, Zenon
      DEF Serve, HandshakeFails, HandlerEnds, SessionBreaks, TearsFrame, SessionEof,
       HandleFinish, HandleFails, hostVars
  <2> QED
    BY <2>1, <1>2
<1> QED
  BY <1>3, <1>4, <1>5, <1>6, <1>7, <1>8, <1>9, <1>10, <1>11, Zenon DEF Next, Watch

(* What changes the place of the watcher.                                  *)
LEMMA WatcherSteps ==
  ASSUME [Next]_vars
  PROVE  \/ Watch \/ AgentCrash \/ \E f \in wTodo : RemoveCorrupt(f)
         \/ UNCHANGED watchVars
<1>1. CASE Connect \/ AgentStart \/ UNCHANGED vars
  BY <1>1, Zenon DEF Connect, AgentStart, vars, watchVars
<1>2. ASSUME NEW c \in DOMAIN conn,
       \/ Serve(c) \/ HandshakeFails(c) \/ HandlerEnds(c)
       \/ SessionBreaks(c) \/ TearsFrame(c) \/ SessionEof(c)
       \/ HandleFinish(c) \/ HandleFails(c)
      PROVE UNCHANGED watchVars
  BY <1>2, Zenon
    DEF Serve, HandshakeFails, HandlerEnds, SessionBreaks, TearsFrame, SessionEof,
       HandleFinish, HandleFails, watchVars
<1>3. ASSUME NEW d \in Drvs, BuildStarts(d) PROVE UNCHANGED watchVars
  BY <1>3 DEF BuildStarts
<1>4. ASSUME NEW b \in DOMAIN builds, BuildSucceeds(b) \/ BuildFails(b) PROVE UNCHANGED watchVars
  BY <1>4 DEF BuildSucceeds, BuildFails
<1> QED
  BY <1>1, <1>2, <1>3, <1>4, Zenon DEF Next

(* What changes the connections.                                           *)
LEMMA SessionSteps ==
  ASSUME TypeInv, EventsInv, [Next]_vars
  PROVE  \/ UNCHANGED conn \/ WriteFrame \/ Connect \/ AgentCrash
         \/ \E c \in DOMAIN conn :
              \/ Serve(c) \/ HandshakeFails(c) \/ HandlerEnds(c)
              \/ SessionBreaks(c) \/ TearsFrame(c) \/ SessionEof(c)
              \/ HandleFinish(c) \/ HandleFails(c)
<1>1. CASE Tick \/ TickEnds \/ WriteFails \/ UnlinkFinish
           \/ AgentStart \/ (\E f \in wTodo : StoreStart(f) \/ TakeFinish(f) \/ RemoveCorrupt(f))
           \/ UNCHANGED vars
  BY <1>1, Zenon
    DEF Tick, TickEnds, WriteFails, UnlinkFinish, AgentStart, StoreStart, TakeFinish,
       RemoveCorrupt, vars
<1>3. ASSUME NEW d \in Drvs, BuildStarts(d) PROVE UNCHANGED conn
  BY <1>3 DEF BuildStarts
<1>4. ASSUME NEW b \in DOMAIN builds, BuildSucceeds(b) \/ BuildFails(b) PROVE UNCHANGED conn
  BY <1>4 DEF BuildSucceeds, BuildFails
<1> QED
  BY <1>1, <1>3, <1>4, Zenon DEF Next, Watch

(* Connections are never forgotten.                                        *)
LEMMA ConnStays ==
  ASSUME TypeInv, EventsInv, [Next]_vars
  PROVE  DOMAIN conn \subseteq DOMAIN conn'
<1>1. WriteFrame => wOut.to \in DOMAIN conn
  BY DEF EventsInv, WriteFrame
<1>2. ASSUME NEW c \in DOMAIN conn,
       \/ Serve(c) \/ HandshakeFails(c) \/ HandlerEnds(c)
       \/ SessionBreaks(c) \/ TearsFrame(c) \/ SessionEof(c)
       \/ HandleFinish(c) \/ HandleFails(c)
      PROVE DOMAIN conn' = DOMAIN conn
  BY <1>2, Serving, Ending, Closing, Tearing, Handling, Zenon
     DEF OneChanged, SessionBreaks, SessionEof, HandleFails
<1>3. WriteFrame => DOMAIN conn' = DOMAIN conn
  BY <1>1, Writing DEF OneChanged
<1>4. Connect => DOMAIN conn \subseteq DOMAIN conn'
  BY Dialling
<1>5. AgentCrash => DOMAIN conn' = DOMAIN conn
  BY Crashing, Zenon
<1> QED
  BY <1>2, <1>3, <1>4, <1>5, SessionSteps

(* Every frame under way is right.                                         *)
LEMMA FramesInduction ==
  ASSUME TypeInv, HistoryInv, EventsInv, [Next]_vars
  PROVE  \A c \in DOMAIN conn' : \A i \in DOMAIN conn'[c].pipe : EventOK(conn[c].pipe[i])'
<1> DEFINE Old(e) == \E c \in DOMAIN conn : \E i \in DOMAIN conn[c].pipe : e = conn[c].pipe[i]
           Known(e) == Old(e) \/ EventOK(e)
<1>1. SUFFICES ASSUME NEW c \in DOMAIN conn', NEW i \in DOMAIN conn'[c].pipe
               PROVE  Known(conn'[c].pipe[i])
  <2>1. ASSUME NEW e, Known(e) PROVE EventOK(e)'
    BY <2>1, EventStays DEF EventsInv
  <2>2. SUFFICES ASSUME NEW c \in DOMAIN conn', NEW i \in DOMAIN conn'[c].pipe
                 PROVE  EventOK(conn[c].pipe[i])'
    OBVIOUS
  <2>3. PICK e : e = conn'[c].pipe[i]
    OBVIOUS
  <2>4. EventOK(e)'
    BY <1>1, <2>1, <2>3
  <2> QED
    BY <2>3, <2>4 DEF EventOK
<1>2. CASE UNCHANGED conn
  BY <1>2
<1>3. CASE WriteFrame
  <2>1. PICK k \in DOMAIN conn : k = wOut.to
    BY <1>3 DEF EventsInv, WriteFrame
  <2>2. /\ OneChanged(k) /\ conn[k].pipe \in Seq(Event)
        /\ conn'[k].pipe = IF conn[k].ctl = "open" THEN Append(conn[k].pipe, wOut.event)
                                                   ELSE conn[k].pipe
    BY <1>3, <2>1, Writing
  <2>3. EventOK(wOut.event)
    BY <1>3 DEF EventsInv, WriteFrame
  <2>4. c \in DOMAIN conn /\ (c # k => conn'[c] = conn[c])
    BY <2>2 DEF OneChanged
  <2>5. CASE c # k
    BY <2>4, <2>5
  <2>6. CASE c = k /\ conn[k].ctl # "open"
    BY <2>2, <2>6
  <2>7. CASE c = k /\ conn[k].ctl = "open"
    <3> DEFINE p == conn[k].pipe
               x == wOut.event
    <3>1. conn'[c].pipe = Append(p, x) /\ p \in Seq(Event)
      BY <2>2, <2>7
    <3> HIDE DEF p, x
    <3>2. Append(p, x)[i] = x \/ (i \in DOMAIN p /\ Append(p, x)[i] = p[i])
      <4>1. Len(p) \in Nat /\ DOMAIN p = 1..Len(p)
        BY <3>1, Elements
      <4>2. i \in DOMAIN Append(p, x)
        BY <3>1
      <4>3. i \in 1..Len(p) \/ i = Len(p) + 1
        BY <4>1, <4>2, <3>1
      <4> QED
        BY <4>1, <4>3, <3>1
    <3>3. conn'[c].pipe[i] = wOut.event \/ Old(conn'[c].pipe[i])
      BY <3>1, <3>2, <2>1 DEF p, x
    <3> QED
      BY <3>3, <2>3
  <2> QED
    BY <2>5, <2>6, <2>7
<1>4. CASE Connect
  <2>1. PICK n \in Nat : n = Len(conn) + 1
    BY Facts
  <2>2. /\ DOMAIN conn' = DOMAIN conn \cup {n} /\ conn'[n].pipe = <<>>
        /\ \A k \in DOMAIN conn : conn'[k] = conn[k]
    BY <1>4, <2>1, Dialling
  <2>3. CASE c = n
    <3>1. i \in DOMAIN <<>>
      BY <2>2, <2>3
    <3>2. FALSE
      BY <3>1
    <3> QED BY <3>2
  <2> QED
    BY <2>2, <2>3
<1>5. CASE AgentCrash
  BY <1>5, Crashing, Zenon
<1>6. ASSUME NEW k \in DOMAIN conn, OneChanged(k),
             \A j \in DOMAIN conn'[k].pipe : \E m \in DOMAIN conn[k].pipe : conn'[k].pipe[j] = conn[k].pipe[m]
      PROVE  Old(conn'[c].pipe[i])
  BY <1>6, Zenon DEF OneChanged
<1>7. ASSUME NEW k \in DOMAIN conn, Serve(k) \/ HandshakeFails(k) \/ HandlerEnds(k)
      PROVE  Old(conn'[c].pipe[i])
  BY <1>6, <1>7, Serving, Ending, Zenon
<1>8. ASSUME NEW k \in DOMAIN conn, SessionBreaks(k) \/ SessionEof(k) \/ HandleFails(k)
      PROVE  Old(conn'[c].pipe[i])
  <2>1. OneChanged(k) /\ conn'[k].pipe = <<>>
    BY <1>8, Closing DEF SessionBreaks, SessionEof, HandleFails
  <2>2. DOMAIN conn'[k].pipe = {}
    BY <2>1
  <2> QED
    BY <1>6, <2>1, <2>2, Zenon
<1>9. ASSUME NEW k \in DOMAIN conn, TearsFrame(k) PROVE Old(conn'[c].pipe[i])
  BY <1>6, <1>9, Tearing, Zenon
<1>10. ASSUME NEW k \in DOMAIN conn, HandleFinish(k) PROVE Old(conn'[c].pipe[i])
  <2> DEFINE p == conn[k].pipe
  <2>1. OneChanged(k) /\ p # <<>> /\ p \in Seq(Event) /\ conn'[k].pipe = Tail(p)
    BY <1>10, Handling
  <2> HIDE DEF p
  <2>2. \A j \in DOMAIN Tail(p) : j + 1 \in DOMAIN p /\ Tail(p)[j] = p[j + 1]
    <3>1. Len(p) \in Nat /\ Len(p) # 0 /\ DOMAIN p = 1..Len(p)
      BY <2>1
    <3>2. DOMAIN Tail(p) = 1..Len(p) - 1
      BY <2>1, <3>1
    <3> QED
      BY <2>1, <3>1, <3>2
  <2>3. \A j \in DOMAIN conn'[k].pipe : \E m \in DOMAIN conn[k].pipe : conn'[k].pipe[j] = conn[k].pipe[m]
    BY <2>1, <2>2, Zenon DEF p
  <2> QED
    BY <1>6, <2>1, <2>3, Zenon
<1> QED
  BY <1>2, <1>3, <1>4, <1>5, <1>7, <1>8, <1>9, <1>10, SessionSteps, Zenon

(* The finish on hand and the frames under way are right.                  *)
LEMMA EventsInduction ==
  ASSUME TypeInv, HistoryInv, FilesInv, PendingInv, EventsInv, [Next]_vars
  PROVE  EventsInv'
<1>1. SUFFICES ASSUME wPc' \in {"write", "unlink"}
               PROVE  /\ EventOK(wOut.event)' /\ wOut'.file.kind = "finish"
                      /\ wOut'.file.build = wOut'.event.build /\ wOut'.to \in DOMAIN conn'
                      /\ wOut'.file \notin wTodo'
  BY FramesInduction, Zenon DEF EventsInv
<1>2. ASSUME wPc \in {"write", "unlink"}, wOut' = wOut, wTodo' \subseteq wTodo
      PROVE  /\ EventOK(wOut.event)' /\ wOut'.file.kind = "finish"
             /\ wOut'.file.build = wOut'.event.build /\ wOut'.to \in DOMAIN conn'
             /\ wOut'.file \notin wTodo'
  <2>1. PICK e : e = wOut.event
    OBVIOUS
  <2>2. EventOK(e)'
    BY <2>1, <1>2, EventStays DEF EventsInv
  <2>3. EventOK(wOut.event)'
    BY <2>1, <2>2, <1>2 DEF EventOK
  <2>4. wOut'.to \in DOMAIN conn'
    BY <1>2, ConnStays DEF EventsInv
  <2> QED
    BY <1>2, <2>3, <2>4 DEF EventsInv
<1>3. CASE WriteFrame
  BY <1>2, <1>3 DEF WriteFrame
<1>4. ASSUME NEW f \in wTodo, TakeFinish(f)
      PROVE  /\ EventOK(wOut.event)' /\ wOut'.file.kind = "finish"
             /\ wOut'.file.build = wOut'.event.build /\ wOut'.to \in DOMAIN conn'
             /\ wOut'.file \notin wTodo'
  <2>1. PICK e : e = [build |-> f.build, started |-> Started(builds[f.build].drv, f.ts)]
    OBVIOUS
  <2>2. EventOK(e)'
    BY <2>1, <1>4, StartedIsOwn, EventStays
  <2>3. writer # 0 /\ wOut' = [event |-> e, file |-> f, to |-> writer]
    BY <2>1, <1>4, <1>1 DEF TakeFinish, Turn
  <2>4. wOut'.event = e /\ wOut'.file = f /\ wOut'.to = writer /\ e.build = f.build
    BY <2>1, <2>3
  <2>5. wTodo' = wTodo \ {f} /\ f.kind = "finish" /\ conn' = conn
    BY <1>4 DEF TakeFinish
  <2>6. writer \in DOMAIN conn
    BY <2>3, Facts
  <2>7. EventOK(wOut.event)'
    BY <2>2, <2>4 DEF EventOK
  <2> QED
    BY <2>4, <2>5, <2>6, <2>7
<1>5. ASSUME NEW f \in wTodo, StoreStart(f) PROVE FALSE
  BY <1>5, <1>1 DEF StoreStart, Turn
<1>6. CASE Tick \/ TickEnds \/ WriteFails \/ UnlinkFinish \/ AgentCrash
  BY <1>6, <1>1 DEF Tick, TickEnds, WriteFails, UnlinkFinish, AgentCrash
<1>7. ASSUME NEW f \in wTodo, RemoveCorrupt(f) PROVE FALSE
  BY <1>7, <1>1 DEF RemoveCorrupt, Turn
<1>8. CASE UNCHANGED watchVars
  BY <1>1, <1>2, <1>8 DEF watchVars
<1> QED
  BY <1>3, <1>4, <1>5, <1>6, <1>7, <1>8, WatcherSteps, Zenon DEF Watch

(* Only what the controller reads changes what it knows.                   *)
LEMMA ControllerSteps ==
  ASSUME [Next]_vars
  PROVE  UNCHANGED ctlVars \/ \E c \in DOMAIN conn : HandleFinish(c) \/ HandleFails(c)
<1>1. CASE Watch
  BY <1>1, Zenon
    DEF Watch, Tick, TickEnds, WriteFrame, WriteFails, UnlinkFinish, StoreStart,
       TakeFinish
<1>2. CASE Connect \/ AgentCrash \/ AgentStart \/ UNCHANGED vars
  BY <1>2, Zenon DEF Connect, AgentCrash, AgentStart, ctlVars, vars
<1>3. ASSUME NEW f \in wTodo, RemoveCorrupt(f) PROVE UNCHANGED ctlVars
  BY <1>3 DEF RemoveCorrupt
<1>4. ASSUME NEW c \in DOMAIN conn,
           \/ Serve(c) \/ HandshakeFails(c) \/ HandlerEnds(c)
           \/ SessionBreaks(c) \/ TearsFrame(c) \/ SessionEof(c)
      PROVE  UNCHANGED ctlVars
  BY <1>4, Zenon
    DEF Serve, HandshakeFails, HandlerEnds, SessionBreaks, TearsFrame, SessionEof
<1>5. ASSUME NEW d \in Drvs, BuildStarts(d) PROVE UNCHANGED ctlVars
  BY <1>5 DEF BuildStarts
<1>6. ASSUME NEW b \in DOMAIN builds, BuildSucceeds(b) \/ BuildFails(b) PROVE UNCHANGED ctlVars
  BY <1>6 DEF BuildSucceeds, BuildFails
<1> QED
  BY <1>1, <1>2, <1>3, <1>4, <1>5, <1>6, Zenon DEF Next

(* Every row ever recorded is right.                                       *)
LEMMA RowsInduction ==
  ASSUME TypeInv, HistoryInv, EventsInv, RowsInv, [Next]_vars
  PROVE  RowsInv'
<1>2. ASSUME NEW c \in DOMAIN conn, HandleFinish(c) \/ HandleFails(c)
      PROVE  \A r \in recorded' : r \in recorded \/ RowOK(r)
  <2> DEFINE e   == Head(conn[c].pipe)
             row == RowOf(e)
  <2>1. EventOK(e) /\ Recorded(e)
    BY <1>2, EventAt, HandlingRecords
  <2>2. recorded' = recorded \/ (recorded' = recorded \cup {row} /\ e.started # 0)
    BY <2>1, RecordAdds, Zenon
  <2>3. row.drv = builds[e.build].drv /\ row.started = e.started /\ row.finished = builds[e.build].finish
    BY DEF RowOf
  <2> HIDE DEF e, row
  <2>4. e.started # 0 => RowOK(row)
    BY <2>1, <2>3 DEF EventOK, RowOK
  <2> QED
    BY <2>2, <2>4
<1>3. \A r \in recorded' : r \in recorded \/ RowOK(r)
  BY <1>2, ControllerSteps DEF ctlVars
<1> QED
  BY <1>3, RowStays DEF RowsInv

----------------------------------------------------------------------------
(* Writers and losses *)

(* The writer is a connection whose handler runs, whichever handler ends   *)
(* and whichever write fails.                                              *)
LEMMA WriterInduction ==
  ASSUME TypeInv, EventsInv, WriterIsServed, [Next]_vars
  PROVE  WriterIsServed'
<1>a. writer # 0 => writer \in DOMAIN conn
  BY Facts
<1>1. CASE Watch
  <2>1. CASE WriteFrame
    <3>1. PICK k \in DOMAIN conn : k = wOut.to
      BY <2>1 DEF EventsInv, WriteFrame
    <3>2. OneChanged(k) /\ conn'[k].agent = conn[k].agent
      BY <2>1, <3>1, Writing
    <3>3. \A c \in DOMAIN conn : conn'[c].agent = conn[c].agent
      BY <3>2, Zenon DEF OneChanged
    <3>4. writer' = writer
      BY <2>1 DEF WriteFrame
    <3> QED
      BY <3>3, <3>4, <1>a DEF WriterIsServed
  <2>2. CASE Tick \/ TickEnds \/ WriteFails \/ UnlinkFinish \/ (\E f \in wTodo : StoreStart(f) \/ TakeFinish(f))
    BY <2>2, <1>a
      DEF Tick, TickEnds, WriteFails, UnlinkFinish, StoreStart, TakeFinish, WriterIsServed
  <2> QED
    BY <1>1, <2>1, <2>2 DEF Watch
<1>2. CASE Connect
  <2>1. writer' = writer
    BY <1>2 DEF Connect
  <2> QED
    BY <1>2, <1>a, <2>1, Dialling DEF WriterIsServed
<1>3. CASE AgentCrash
  BY <1>3 DEF AgentCrash, WriterIsServed
<1>4. CASE AgentStart \/ UNCHANGED vars
  BY <1>4 DEF AgentStart, vars, WriterIsServed
<1>5. ASSUME NEW f \in wTodo, RemoveCorrupt(f) PROVE WriterIsServed'
  BY <1>5 DEF RemoveCorrupt, WriterIsServed
<1>6. ASSUME NEW d \in Drvs, BuildStarts(d) PROVE WriterIsServed'
  BY <1>6 DEF BuildStarts, WriterIsServed
<1>7. ASSUME NEW b \in DOMAIN builds, BuildSucceeds(b) \/ BuildFails(b) PROVE WriterIsServed'
  BY <1>7 DEF BuildSucceeds, BuildFails, WriterIsServed
<1>8. ASSUME NEW c \in DOMAIN conn, Serve(c) PROVE WriterIsServed'
  BY <1>8, Serving DEF Serve, WriterIsServed
<1>9. ASSUME NEW c \in DOMAIN conn, HandlerEnds(c) PROVE WriterIsServed'
  BY <1>9 DEF HandlerEnds, WriterIsServed
<1>10. ASSUME NEW c \in DOMAIN conn, HandshakeFails(c) PROVE WriterIsServed'
  <2>1. OneChanged(c) /\ conn[c].agent = "opening" /\ writer' = writer
    BY <1>10, Ending DEF HandshakeFails
  <2>2. writer # 0 => writer # c
    BY <2>1 DEF WriterIsServed
  <2> QED
    BY <2>1, <2>2, <1>a DEF WriterIsServed, OneChanged
<1>11. ASSUME NEW c \in DOMAIN conn,
              \/ SessionBreaks(c) \/ TearsFrame(c) \/ SessionEof(c)
              \/ HandleFinish(c) \/ HandleFails(c)
       PROVE  WriterIsServed'
  <2>1. OneChanged(c) /\ conn'[c].agent = conn[c].agent
    BY <1>11, Closing, Tearing, Handling DEF SessionBreaks, SessionEof, HandleFails
  <2>2. writer' = writer
    BY <1>11 DEF SessionBreaks, TearsFrame, SessionEof, HandleFinish, HandleFails
  <2>3. \A k \in DOMAIN conn : conn'[k].agent = conn[k].agent
    BY <2>1, Zenon DEF OneChanged
  <2> QED
    BY <2>2, <2>3, <1>a DEF WriterIsServed
<1> QED
  BY <1>1, <1>2, <1>3, <1>4, <1>5, <1>6, <1>7, <1>8, <1>9, <1>10, <1>11, Zenon DEF Next

(* Without a break nothing breaks.                                         *)
LEMMA NoBreak ==
  ASSUME TypeInv, EventsInv, [Next]_vars, breaks' = 0
  PROVE  /\ breaks = 0
         /\ \A c \in DOMAIN conn : ~SessionBreaks(c) /\ ~TearsFrame(c) /\ ~HandleFails(c)
<1>1. ~Break
  BY BreakTyped
<1>2. \A c \in DOMAIN conn : ~SessionBreaks(c) /\ ~TearsFrame(c) /\ ~HandleFails(c)
  BY <1>1 DEF SessionBreaks, TearsFrame, HandleFails
<1>3. breaks' = breaks
  <2>2. CASE Watch
    BY <2>2, Zenon
      DEF Watch, Tick, TickEnds, WriteFrame, WriteFails, UnlinkFinish, StoreStart,
         TakeFinish, faultVars
  <2>3. CASE Connect \/ AgentCrash \/ AgentStart \/ UNCHANGED vars
    BY <2>3, Zenon DEF Connect, AgentCrash, AgentStart, faultVars, vars
  <2>4. ASSUME NEW f \in wTodo, RemoveCorrupt(f) PROVE UNCHANGED breaks
    BY <2>4 DEF RemoveCorrupt
  <2>5. ASSUME NEW c \in DOMAIN conn,
             Serve(c) \/ HandshakeFails(c) \/ HandlerEnds(c) \/ SessionEof(c) \/ HandleFinish(c)
        PROVE  UNCHANGED breaks
    BY <2>5, Zenon
      DEF Serve, HandshakeFails, HandlerEnds, SessionEof, HandleFinish, faultVars
  <2>6. ASSUME NEW d \in Drvs, BuildStarts(d) PROVE UNCHANGED breaks
    BY <2>6 DEF BuildStarts
  <2>7. ASSUME NEW b \in DOMAIN builds, BuildSucceeds(b) \/ BuildFails(b) PROVE UNCHANGED breaks
    BY <2>7 DEF BuildSucceeds, BuildFails, faultVars
  <2> QED
    BY <1>2, <2>2, <2>3, <2>4, <2>5, <2>6, <2>7, Zenon DEF Next
<1> QED
  BY <1>2, <1>3

(* Without a break a finish that has left the spool is not lost.           *)
LEMMA KeptStays ==
  ASSUME TypeInv, EventsInv, [Next]_vars, breaks' = 0, NEW b, Kept(b)
  PROVE  Kept(b)'
<1>1. handled \subseteq handled'
  BY ControllerSteps DEF ctlVars, HandleFinish, HandleFails
<1>2. CASE b \in handled
  BY <1>1, <1>2 DEF Kept
<1>3. CASE InFlight(b)
  <2>1. PICK c \in DOMAIN conn : \E i \in DOMAIN conn[c].pipe : conn[c].pipe[i].build = b
    BY <1>3 DEF InFlight
  <2>2. PICK i \in DOMAIN conn[c].pipe : conn[c].pipe[i].build = b
    BY <2>1
  <2>3. SUFFICES \/ b \in handled'
                 \/ c \in DOMAIN conn' /\ \E j \in DOMAIN conn'[c].pipe : conn'[c].pipe[j].build = b
    BY DEF Kept, InFlight
  <2>4. ASSUME c \in DOMAIN conn' /\ conn'[c].pipe = conn[c].pipe
        PROVE  c \in DOMAIN conn' /\ \E j \in DOMAIN conn'[c].pipe : conn'[c].pipe[j].build = b
    BY <2>4, <2>2
  <2>5. CASE UNCHANGED conn \/ Connect \/ AgentCrash
    BY <2>4, <2>5, Dialling, Crashing, Zenon
  <2>6. CASE WriteFrame
    <3>1. PICK k \in DOMAIN conn : k = wOut.to
      BY <2>6 DEF EventsInv, WriteFrame
    <3>2. /\ OneChanged(k) /\ conn[k].pipe \in Seq(Event)
          /\ conn'[k].pipe = IF conn[k].ctl = "open" THEN Append(conn[k].pipe, wOut.event)
                                                     ELSE conn[k].pipe
      BY <2>6, <3>1, Writing
    <3>3. CASE c # k \/ conn[k].ctl # "open"
      BY <3>2, <3>3, <2>4 DEF OneChanged
    <3>4. CASE c = k /\ conn[k].ctl = "open"
      <4> DEFINE p == conn[c].pipe
                 x == wOut.event
      <4>1. conn'[c].pipe = Append(p, x) /\ p \in Seq(Event) /\ i \in DOMAIN p
        BY <3>2, <3>4
      <4> HIDE DEF p, x
      <4>2. i \in DOMAIN Append(p, x) /\ Append(p, x)[i] = p[i]
        <5>1. Len(p) \in Nat /\ i \in 1..Len(p) /\ i \in Nat
          BY <4>1, Elements
        <5>2. DOMAIN Append(p, x) = 1..Len(p) + 1
          BY <4>1
        <5> QED
          BY <4>1, <5>1, <5>2
      <4> QED
        BY <4>1, <4>2, <2>2, <3>2 DEF p, OneChanged
    <3> QED
      BY <3>3, <3>4
  <2>7. ASSUME NEW k \in DOMAIN conn, Serve(k) \/ HandshakeFails(k) \/ HandlerEnds(k)
        PROVE  c \in DOMAIN conn' /\ conn'[c].pipe = conn[c].pipe
    BY <2>7, Serving, Ending, Zenon DEF OneChanged
  <2>8. ASSUME NEW k \in DOMAIN conn, SessionEof(k)
        PROVE  c \in DOMAIN conn' /\ conn'[c].pipe = conn[c].pipe
    BY <2>8, Closing, Zenon DEF OneChanged, SessionEof
  <2>9. ASSUME NEW k \in DOMAIN conn, HandleFinish(k)
        PROVE  \/ b \in handled'
               \/ c \in DOMAIN conn' /\ \E j \in DOMAIN conn'[c].pipe : conn'[c].pipe[j].build = b
    <3> DEFINE p == conn[k].pipe
    <3>1. OneChanged(k) /\ p # <<>> /\ p \in Seq(Event) /\ conn'[k].pipe = Tail(p)
      BY <2>9, Handling
    <3>2. handled' = handled \cup {Head(p).build}
      BY <2>9 DEF HandleFinish
    <3>3. CASE c # k
      BY <3>1, <3>3, <2>4 DEF OneChanged
    <3>4. CASE c = k
      <4> HIDE DEF p
      <4>1. p \in Seq(Event) /\ p # <<>> /\ i \in DOMAIN p /\ p[i].build = b
        BY <3>1, <3>4, <2>2 DEF p
      <4>2. Len(p) \in Nat /\ i \in 1..Len(p) /\ i \in Nat
        BY <4>1, Elements
      <4>3. CASE i = 1
        <5>1. Head(p) = p[1]
          BY <4>1
        <5> QED
          BY <5>1, <4>1, <4>3, <3>2
      <4>4. CASE i # 1
        <5>1. i - 1 \in DOMAIN Tail(p) /\ Tail(p)[i - 1] = p[i]
          <6>1. DOMAIN Tail(p) = 1..Len(p) - 1
            BY <4>1, <4>2
          <6> QED
            BY <4>1, <4>2, <4>4, <6>1
        <5> QED
          BY <5>1, <4>1, <3>1, <3>4 DEF OneChanged
      <4> QED
        BY <4>3, <4>4
    <3> QED
      BY <3>3, <3>4
  <2> QED
    BY <2>4, <2>5, <2>6, <2>7, <2>8, <2>9, NoBreak, SessionSteps, Zenon
<1> QED
  BY <1>2, <1>3 DEF Kept

(* A controller's end that is not closed is open.                          *)
LEMMA CtlIsOpenOrClosed ==
  ASSUME TypeInv, NEW c \in DOMAIN conn, conn[c].ctl # "closed"
  PROVE  conn[c].ctl = "open"
<1>1. conn[c] \in Conn
  BY Facts, Elements
<1> QED
  BY <1>1, ConnFields

(* Without a break sessions end with the agent only, and what is written   *)
(* arrives.                                                                *)
LEMMA BreakInduction ==
  ASSUME TypeInv, EventsInv, WriterIsServed, BreakInv, [Next]_vars
  PROVE  BreakInv'
<1> SUFFICES ASSUME breaks' = 0
             PROVE  /\ \A c \in DOMAIN conn' : conn'[c].ctl = "closed" => conn'[c].agent = "ended"
                    /\ wPc' = "write" => conn'[wOut'.to].agent = "serving"
                    /\ wPc' = "unlink" => Kept(wOut.event.build)'
  BY Zenon DEF BreakInv
<1>0. /\ breaks = 0
      /\ \A c \in DOMAIN conn : conn[c].ctl = "closed" => conn[c].agent = "ended"
      /\ wPc = "write" => conn[wOut.to].agent = "serving"
      /\ wPc = "unlink" => Kept(wOut.event.build)
      /\ \A c \in DOMAIN conn : ~SessionBreaks(c) /\ ~TearsFrame(c) /\ ~HandleFails(c)
  BY NoBreak, Zenon DEF BreakInv
<1>c. \A c \in DOMAIN conn : conn[c].ctl = "closed" => conn[c].agent = "ended"
  BY <1>0, Zenon
<1>o. ASSUME NEW k \in DOMAIN conn, OneChanged(k),
             conn'[k].ctl = "closed" => conn'[k].agent = "ended"
      PROVE  \A c \in DOMAIN conn' : conn'[c].ctl = "closed" => conn'[c].agent = "ended"
  BY <1>o, <1>c, Zenon DEF OneChanged
<1>w. wPc \in {"write", "unlink"} => wOut.to \in DOMAIN conn
  BY DEF EventsInv
<1>1. \A c \in DOMAIN conn' : conn'[c].ctl = "closed" => conn'[c].agent = "ended"
  <2>1. CASE UNCHANGED conn \/ Connect \/ AgentCrash
    BY <2>1, <1>0, Dialling, Crashing
  <2>2. CASE WriteFrame
    <3>1. PICK k \in DOMAIN conn : k = wOut.to
      BY <2>2, <1>w DEF WriteFrame
    <3>2. OneChanged(k) /\ conn'[k].agent = conn[k].agent /\ conn'[k].ctl = conn[k].ctl
      BY <2>2, <3>1, Writing
    <3> QED
      BY <3>2, <1>c, <1>o
  <2>3. ASSUME NEW k \in DOMAIN conn, HandshakeFails(k) \/ HandlerEnds(k)
        PROVE  \A c \in DOMAIN conn' : conn'[c].ctl = "closed" => conn'[c].agent = "ended"
    BY <2>3, <1>o, Ending
  <2>4. ASSUME NEW k \in DOMAIN conn, Serve(k)
        PROVE  \A c \in DOMAIN conn' : conn'[c].ctl = "closed" => conn'[c].agent = "ended"
    <3>1. conn[k].agent = "opening"
      BY <2>4 DEF Serve
    <3>2. conn[k].ctl # "closed"
      BY <3>1, <1>0
    <3> QED
      BY <2>4, <3>2, <1>o, Serving
  <2>5. ASSUME NEW k \in DOMAIN conn, SessionEof(k)
        PROVE  \A c \in DOMAIN conn' : conn'[c].ctl = "closed" => conn'[c].agent = "ended"
    <3>1. conn[k].agent = "ended" /\ conn' = Closed(k)
      BY <2>5 DEF SessionEof
    <3> QED
      BY <3>1, <1>o, Closing
  <2>6. ASSUME NEW k \in DOMAIN conn, HandleFinish(k)
        PROVE  \A c \in DOMAIN conn' : conn'[c].ctl = "closed" => conn'[c].agent = "ended"
    BY <2>6, <1>c, <1>o, Handling
  <2> QED
    BY <1>0, <2>1, <2>2, <2>3, <2>4, <2>5, <2>6, SessionSteps, Zenon
<1>2. ASSUME wPc' = "write" PROVE conn'[wOut'.to].agent = "serving"
  <2>1. CASE wPc = "write" /\ wOut' = wOut
    <3>1. PICK t \in DOMAIN conn : t = wOut.to /\ conn[t].agent = "serving"
      BY <2>1, <1>0, <1>w
    <3>2. conn[t].ctl # "closed"
      BY <3>1, <1>0
    <3>3. ~WriteFrame /\ ~AgentCrash
      BY <1>2 DEF WriteFrame, AgentCrash
    <3>4. ASSUME NEW k \in DOMAIN conn, HandshakeFails(k) \/ HandlerEnds(k)
          PROVE  conn'[t].agent = "serving"
      <4>1. k # t
        BY <3>4, <3>2 DEF HandshakeFails, HandlerEnds
      <4> QED
        BY <3>4, <4>1, <3>1, Ending DEF OneChanged
    <3>5. ASSUME NEW k \in DOMAIN conn, Serve(k) \/ SessionEof(k) \/ HandleFinish(k)
          PROVE  conn'[t].agent = "serving"
      <4>1. OneChanged(k) /\ conn'[k].agent \in {"serving", conn[k].agent}
        BY <3>5, Serving, Closing, Handling DEF SessionEof
      <4> QED
        BY <4>1, <3>1 DEF OneChanged
    <3>6. conn'[t].agent = "serving"
      BY <1>0, <3>1, <3>3, <3>4, <3>5, SessionSteps, Dialling
    <3> QED
      BY <3>6, <3>1, <2>1
  <2>2. ASSUME NEW f \in wTodo, TakeFinish(f), writer # 0 PROVE conn'[wOut'.to].agent = "serving"
    <3>1. wOut'.to = writer /\ conn' = conn
      BY <2>2, <1>2 DEF TakeFinish, Turn
    <3> QED
      BY <3>1, <2>2 DEF WriterIsServed
  <2>3. CASE Watch
    BY <1>2, <2>1, <2>2, <2>3
      DEF Watch, Tick, TickEnds, WriteFrame, WriteFails, UnlinkFinish,
       StoreStart, TakeFinish, Turn
  <2>4. CASE AgentCrash
    BY <1>2, <2>4 DEF AgentCrash
  <2>5. ASSUME NEW f \in wTodo, RemoveCorrupt(f) PROVE FALSE
    BY <2>5, <1>2 DEF RemoveCorrupt, Turn
  <2>6. CASE UNCHANGED watchVars
    BY <2>1, <2>6, <1>2 DEF watchVars
  <2> QED
    BY <2>3, <2>4, <2>5, <2>6, WatcherSteps
<1>3. ASSUME wPc' = "unlink" PROVE Kept(wOut.event.build)'
  <2>1. CASE wPc = "unlink" /\ wOut' = wOut
    <3>1. PICK b : b = wOut.event.build
      OBVIOUS
    <3>2. Kept(b)'
      BY <3>1, <2>1, <1>0, KeptStays
    <3>3. b = wOut'.event.build
      BY <3>1, <2>1
    <3> QED
      BY <3>2, <3>3 DEF Kept, InFlight
  <2>2. CASE WriteFrame
    <3>1. PICK k \in DOMAIN conn : k = wOut.to /\ conn[k].agent = "serving"
      BY <2>2, <1>0, <1>w DEF WriteFrame
    <3>2. conn[k].ctl = "open"
      BY <3>1, <1>0, CtlIsOpenOrClosed
    <3> DEFINE p == conn[k].pipe
               x == wOut.event
    <3>3. OneChanged(k) /\ p \in Seq(Event) /\ conn'[k].pipe = Append(p, x)
      BY <2>2, <3>1, <3>2, Writing
    <3>4. wOut' = wOut
      BY <2>2 DEF WriteFrame
    <3>5. x' = x
      BY <3>4
    <3> HIDE DEF p, x
    <3>6. Len(p) + 1 \in DOMAIN Append(p, x) /\ Append(p, x)[Len(p) + 1] = x
      BY <3>3
    <3>7. \E c \in DOMAIN conn' : \E i \in DOMAIN conn'[c].pipe : conn'[c].pipe[i].build = x.build
      BY <3>3, <3>6 DEF OneChanged
    <3> QED
      BY <3>4, <3>7 DEF Kept, InFlight, x
  <2>3. CASE Watch
    BY <1>3, <2>1, <2>2, <2>3 DEF Watch, Tick, TickEnds, WriteFails, UnlinkFinish,
       StoreStart, TakeFinish, Turn
  <2>4. CASE AgentCrash
    BY <1>3, <2>4 DEF AgentCrash
  <2>5. ASSUME NEW f \in wTodo, RemoveCorrupt(f) PROVE FALSE
    BY <2>5, <1>3 DEF RemoveCorrupt, Turn
  <2>6. CASE UNCHANGED watchVars
    BY <2>1, <2>6, <1>3 DEF watchVars
  <2> QED
    BY <2>3, <2>4, <2>5, <2>6, WatcherSteps
<1> QED
  BY <1>1, <1>2, <1>3

(* Without a break every finish is in the spool, under way or handled.     *)
LEMMA LossInduction ==
  ASSUME TypeInv, HistoryInv, FilesInv, EventsInv, BreakInv, LostByBreaksOnly, [Next]_vars
  PROVE  LostByBreaksOnly'
<1> SUFFICES ASSUME breaks' = 0, NEW b \in DOMAIN builds', Reported(b)'
             PROVE  InSpool(b)' \/ Kept(b)'
  BY Zenon DEF LostByBreaksOnly, Kept
<1>0. breaks = 0
  BY NoBreak
<1>1. ASSUME NEW a \in DOMAIN builds, BuildSucceeds(a), a = b PROVE InSpool(b)'
  <2> DEFINE g == [ts |-> now + 1, kind |-> "finish", build |-> a]
  <2>1. g \in spool'
    BY <1>1, BuildIsDone DEF Reported
  <2>2. g.kind = "finish" /\ g.build = b
    BY <1>1
  <2> HIDE DEF g
  <2> QED
    BY <2>1, <2>2 DEF InSpool
<1>2. CASE b \in DOMAIN builds /\ Reported(b)
  <2>1. InSpool(b) \/ Kept(b)
    BY <1>0, <1>2, Zenon DEF LostByBreaksOnly, Kept
  <2>2. Kept(b) => Kept(b)'
    BY KeptStays
  <2>3. ASSUME InSpool(b) PROVE InSpool(b)' \/ Kept(b)'
    <3>1. PICK f \in spool : f.kind = "finish" /\ f.build = b
      BY <2>3 DEF InSpool
    <3>2. CASE f \in spool'
      BY <3>1, <3>2 DEF InSpool
    <3>3. CASE f \notin spool'
      <4>1. CASE UnlinkFinish
        <5>1. f = wOut.file /\ wPc = "unlink"
          BY <3>3, <4>1 DEF UnlinkFinish
        <5>2. wOut.event.build = b
          BY <5>1, <3>1 DEF EventsInv
        <5>3. Kept(b)
          BY <5>1, <5>2, <1>0 DEF BreakInv
        <5> QED
          BY <5>3, <2>2
      <4>2. ASSUME NEW h \in wTodo, StoreStart(h) PROVE FALSE
        BY <3>1, <3>3, <4>2 DEF StoreStart
      <4>3. ASSUME NEW h \in wTodo, RemoveCorrupt(h) PROVE FALSE
        <5>1. h = f
          BY <3>3, <4>3 DEF RemoveCorrupt
        <5>2. builds'[b].finishLost
          BY <5>1, <4>3, <3>1, <1>2, FileIsCorrupt
        <5> QED
          BY <5>2 DEF Reported
      <4>4. ASSUME NEW d \in Drvs, BuildStarts(d) PROVE FALSE
        <5>1. spool \subseteq spool'
          BY <4>4, BuildIsNew
        <5> QED
          BY <5>1, <3>3
      <4>5. ASSUME NEW d \in DOMAIN builds, BuildSucceeds(d) \/ BuildFails(d) PROVE FALSE
        <5>1. spool \subseteq spool'
          BY <4>5, BuildIsDone DEF BuildFails
        <5> QED
          BY <5>1, <3>3
      <4>6. CASE spool' = spool
        BY <4>6, <3>3
      <4>7. CASE Tick \/ TickEnds \/ WriteFrame \/ WriteFails \/ Connect \/ AgentCrash \/ AgentStart
                 \/ (\E h \in wTodo : TakeFinish(h)) \/ UNCHANGED vars
        <5>1. spool' = spool
          BY <4>7, Zenon
            DEF Tick, TickEnds, WriteFrame, WriteFails, TakeFinish, Connect, AgentCrash,
             AgentStart, vars
        <5> QED
          BY <5>1, <4>6
      <4>8. ASSUME NEW c \in DOMAIN conn,
             \/ Serve(c) \/ HandshakeFails(c) \/ HandlerEnds(c)
             \/ SessionBreaks(c) \/ TearsFrame(c) \/ SessionEof(c)
             \/ HandleFinish(c) \/ HandleFails(c)
            PROVE  spool' = spool
        BY <4>8, Zenon
          DEF Serve, HandshakeFails, HandlerEnds, SessionBreaks, TearsFrame, SessionEof,
           HandleFinish, HandleFails
      <4> QED
        BY <4>1, <4>2, <4>3, <4>4, <4>5, <4>6, <4>7, <4>8, Zenon DEF Next, Watch
    <3> QED
      BY <3>2, <3>3
  <2> QED
    BY <2>1, <2>2, <2>3
<1>3. ASSUME ~ (b \in DOMAIN builds /\ Reported(b)) PROVE InSpool(b)'
  <2>1. ASSUME NEW d \in Drvs, BuildStarts(d) PROVE FALSE
    <3>1. b \in DOMAIN builds => builds'[b] = builds[b]
      BY <2>1, BuildIsNew
    <3>2. b \notin DOMAIN builds => builds'[b].finish = 0
      BY <2>1, BuildIsNew
    <3> QED
      BY <3>1, <3>2, <1>3 DEF Reported
  <2>2. ASSUME NEW d \in DOMAIN builds, BuildSucceeds(d) PROVE InSpool(b)'
    <3>1. b \in DOMAIN builds /\ (b # d => builds'[b] = builds[b])
      BY <2>2, BuildIsDone
    <3> QED
      BY <1>1, <2>2, <3>1, <1>3 DEF Reported
  <2>3. ASSUME NEW d \in DOMAIN builds, BuildFails(d) PROVE FALSE
    BY <2>3, <1>3, BuildIsOver DEF Reported
  <2>4. ASSUME NEW f \in wTodo, RemoveCorrupt(f) PROVE FALSE
    <3>1. b \in DOMAIN builds /\ builds'[b].finish = builds[b].finish
          /\ (builds[b].finishLost => builds'[b].finishLost)
      BY <2>4, FileIsCorrupt
    <3> QED
      BY <3>1, <1>3, Zenon DEF Reported
  <2>5. CASE UNCHANGED hostVars
    BY <2>5, <1>3 DEF hostVars, Reported
  <2> QED
    BY <2>1, <2>2, <2>3, <2>4, <2>5, HostSteps
<1> QED
  BY <1>2, <1>3

(* The rows newer than a row.                                              *)
Newer(r, rows) == {s \in rows : s.finished > r.finished}

----------------------------------------------------------------------------
(* The newest rows *)

(* Any natural numbers have a least one among them.                        *)
LEMMA SmallestNat ==
  ASSUME NEW S \in SUBSET Nat, S # {}
  PROVE  \E m \in S : \A k \in S : m <= k
<1>1. \E m \in S : \A k \in S : ~ (<<k, m>> \in OpToRel(<, Nat))
  BY NatLessThanWellFounded, WFMin
<1>2. \A k, m \in Nat : k < m => <<k, m>> \in OpToRel(<, Nat)
  <2>1. OpToRel(<, Nat) = {ss \in Nat \X Nat : ss[1] < ss[2]}
     BY DEF OpToRel
  <2> QED BY <2>1
<1>3. \A k, m \in Nat : ~(k < m) => m <= k
  OBVIOUS
<1> QED
  BY <1>1, <1>2, <1>3, Zenon

(* Rows have times within the bound.                                       *)
LEMMA FinishedAt ==
  ASSUME NEW r \in Observation
  PROVE  r.finished \in Nat /\ r.finished <= 2 * MaxBuilds /\ 2 * MaxBuilds \in Nat
BY SpoolAssumption DEF Observation, Times

(* Any rows have a newest one among them.                                  *)
LEMMA NewestOfRows ==
  ASSUME NEW B \in SUBSET Observation, B # {}
  PROVE  \E t \in B : \A s \in B : s.finished <= t.finished
<1> DEFINE S == {2 * MaxBuilds - r.finished : r \in B}
<1>1. S \in SUBSET Nat /\ S # {}
  BY FinishedAt
<1>2. PICK m \in S : \A k \in S : m <= k
  BY <1>1, SmallestNat, Zenon
<1>3. PICK t \in B : m = 2 * MaxBuilds - t.finished
  OBVIOUS
<1>4. ASSUME NEW s \in B PROVE s.finished <= t.finished
  <2>1. m <= 2 * MaxBuilds - s.finished
    BY <1>2
  <2> QED
    BY <2>1, <1>3, FinishedAt
<1> QED
  BY <1>4

(* In a table with all of the newest, a row that is missing has enough     *)
(* newer rows in the table itself, not only among those ever inserted.     *)
LEMMA TableIsFull ==
  ASSUME NEW X \in SUBSET Observation, IsFiniteSet(X), NEW A \in SUBSET X, MaxSamples > 0,
         \A r \in X : Cardinality(Newer(r, X)) < MaxSamples => r \in A,
         NEW s \in X, s \notin A
  PROVE  Cardinality(Newer(s, A)) >= MaxSamples
<1>0. MaxSamples \in Nat
  BY SpoolAssumption
<1>1. \A r : /\ IsFiniteSet(Newer(r, X)) /\ Cardinality(Newer(r, X)) \in Nat
             /\ IsFiniteSet(Newer(r, A)) /\ Cardinality(Newer(r, A)) \in Nat
  <2> SUFFICES ASSUME NEW r
               PROVE  /\ IsFiniteSet(Newer(r, X)) /\ Cardinality(Newer(r, X)) \in Nat
                      /\ IsFiniteSet(Newer(r, A)) /\ Cardinality(Newer(r, A)) \in Nat
    OBVIOUS
  <2>1. Newer(r, X) \subseteq X /\ Newer(r, A) \subseteq X
    BY DEF Newer
  <2> QED
    BY <2>1, FS_Subset, FS_CardinalityType
<1>2. \A r \in X : r \notin A => Cardinality(Newer(r, X)) >= MaxSamples
  BY <1>0, <1>1
<1> DEFINE B == Newer(s, X) \ A
<1>3. CASE B = {}
  <2>1. Newer(s, X) = Newer(s, A)
    BY <1>3 DEF Newer
  <2> QED
    BY <2>1, <1>2
<1>4. CASE B # {}
  <2>1. B \in SUBSET Observation
    BY DEF Newer
  <2>2. PICK t \in B : \A u \in B : u.finished <= t.finished
    BY <1>4, <2>1, NewestOfRows
  <2>3. t \in X /\ t \notin A /\ t.finished > s.finished
    BY <2>2 DEF Newer
  <2>4. Newer(t, X) \subseteq Newer(s, A)
    <3> SUFFICES ASSUME NEW u \in Newer(t, X) PROVE u \in Newer(s, A)
      OBVIOUS
    <3>1. u \in X /\ u.finished > t.finished
      BY DEF Newer
    <3>2. u.finished \in Nat /\ t.finished \in Nat /\ s.finished \in Nat
      BY <3>1, <2>3, FinishedAt
    <3>3. u.finished > s.finished
      BY <3>1, <3>2, <2>3
    <3>4. u \notin B
      BY <2>2, <3>1, <3>2
    <3> QED
      BY <3>1, <3>3, <3>4 DEF Newer
  <2>5. Cardinality(Newer(t, X)) <= Cardinality(Newer(s, A))
    BY <2>4, <1>1, FS_Subset
  <2>6. Cardinality(Newer(t, X)) >= MaxSamples
    BY <2>3, <1>2
  <2> QED
    BY <2>5, <2>6, <1>0, <1>1
<1> QED
  BY <1>3, <1>4

(* Pruning the table is as good as pruning all rows ever inserted, also    *)
(* when a row comes in late or for the second time.                        *)
LEMMA PruneIsExact ==
  ASSUME NEW X \in SUBSET Observation, IsFiniteSet(X), NEW A \in SUBSET X, MaxSamples > 0,
         \A r \in X : Cardinality(Newer(r, X)) < MaxSamples => r \in A,
         NEW row \in Observation, NEW r \in X \cup {row}
  PROVE  r \in Newest(A \cup {row}) <=> Cardinality(Newer(r, X \cup {row})) < MaxSamples
<1> DEFINE XX == X \cup {row}
           AA == A \cup {row}
<1>0. MaxSamples \in Nat
  BY SpoolAssumption
<1>a. XX \in SUBSET Observation /\ IsFiniteSet(XX) /\ AA \in SUBSET XX
  BY FS_AddElement
<1>1. \A q : /\ IsFiniteSet(Newer(q, XX)) /\ Cardinality(Newer(q, XX)) \in Nat
             /\ IsFiniteSet(Newer(q, AA)) /\ Cardinality(Newer(q, AA)) \in Nat
             /\ Cardinality(Newer(q, AA)) <= Cardinality(Newer(q, XX))
             /\ Cardinality(Newer(q, X)) \in Nat /\ Cardinality(Newer(q, A)) \in Nat
             /\ Cardinality(Newer(q, X)) <= Cardinality(Newer(q, XX))
  <2> SUFFICES ASSUME NEW q
               PROVE  /\ IsFiniteSet(Newer(q, XX)) /\ Cardinality(Newer(q, XX)) \in Nat
                      /\ IsFiniteSet(Newer(q, AA)) /\ Cardinality(Newer(q, AA)) \in Nat
                      /\ Cardinality(Newer(q, AA)) <= Cardinality(Newer(q, XX))
                      /\ Cardinality(Newer(q, X)) \in Nat /\ Cardinality(Newer(q, A)) \in Nat
                      /\ Cardinality(Newer(q, X)) <= Cardinality(Newer(q, XX))
    OBVIOUS
  <2>1. Newer(q, XX) \subseteq XX /\ Newer(q, AA) \subseteq Newer(q, XX)
        /\ Newer(q, X) \subseteq Newer(q, XX) /\ Newer(q, A) \subseteq Newer(q, XX)
    BY DEF Newer
  <2> HIDE DEF XX, AA
  <2>2. IsFiniteSet(Newer(q, XX))
    BY <2>1, <1>a, FS_Subset
  <2> QED
    BY <2>1, <2>2, FS_Subset, FS_CardinalityType
<1>2. r \in Newest(AA) <=> r \in AA /\ Cardinality(Newer(r, AA)) < MaxSamples
  BY DEF Newest, Newer
<1>3. CASE r \notin AA
  <2>1. r \in X /\ r \notin A
    BY <1>3
  <2>2. ~ (Cardinality(Newer(r, X)) < MaxSamples)
    BY <2>1
  <2>3. /\ Cardinality(Newer(r, X)) \in Nat /\ Cardinality(Newer(r, XX)) \in Nat
        /\ Cardinality(Newer(r, X)) <= Cardinality(Newer(r, XX))
    <3> HIDE DEF XX, AA
    <3> QED
      BY <1>1, Zenon
  <2>4. ~ (Cardinality(Newer(r, XX)) < MaxSamples)
    <3> HIDE DEF XX, AA
    <3> QED
      BY <2>2, <2>3, <1>0
  <2> QED
    BY <1>2, <1>3, <2>4
<1>4. CASE r \in AA
  <2>1. ASSUME ~ (Cardinality(Newer(r, XX)) < MaxSamples)
        PROVE  ~ (Cardinality(Newer(r, AA)) < MaxSamples)
    <3>1. CASE Newer(r, XX) \subseteq AA
      <4>1. Newer(r, XX) = Newer(r, AA)
        BY <3>1, <1>a DEF Newer
      <4> QED
        BY <4>1, <2>1
    <3>2. CASE ~ (Newer(r, XX) \subseteq AA)
      <4>1. PICK s \in Newer(r, XX) : s \notin AA
        BY <3>2
      <4>2. s \in X /\ s \notin A /\ s.finished > r.finished
        BY <4>1 DEF Newer
      <4>3. Cardinality(Newer(s, A)) >= MaxSamples
        BY <4>2, TableIsFull
      <4>4. Newer(s, A) \subseteq Newer(r, AA)
        <5> SUFFICES ASSUME NEW u \in Newer(s, A) PROVE u \in Newer(r, AA)
          OBVIOUS
        <5>1. u \in A /\ u.finished > s.finished
          BY DEF Newer
        <5>2. u.finished \in Nat /\ r.finished \in Nat /\ s.finished \in Nat
          BY <5>1, <4>2, <1>a, FinishedAt
        <5> QED
          BY <5>1, <5>2, <4>2 DEF Newer
      <4>5. Cardinality(Newer(s, A)) <= Cardinality(Newer(r, AA))
        BY <4>4, <1>1, FS_Subset
      <4> QED
        BY <4>3, <4>5, <1>0, <1>1
    <3> QED
      BY <3>1, <3>2
  <2>2. Cardinality(Newer(r, XX)) < MaxSamples => Cardinality(Newer(r, AA)) < MaxSamples
    <3> HIDE DEF XX, AA
    <3>1. /\ Cardinality(Newer(r, AA)) \in Nat /\ Cardinality(Newer(r, XX)) \in Nat
          /\ Cardinality(Newer(r, AA)) <= Cardinality(Newer(r, XX))
      BY <1>1, Zenon
    <3> QED
      BY <1>0, <3>1
  <2> QED
    BY <1>2, <1>4, <2>1, <2>2
<1> QED
  BY <1>3, <1>4

(* Fewer rows have fewer newer ones.                                       *)
LEMMA FewerRows ==
  ASSUME NEW X \in SUBSET Observation, IsFiniteSet(X), NEW Y \in SUBSET X, NEW r,
         Cardinality(Newer(r, X)) < MaxSamples
  PROVE  Cardinality(Newer(r, Y)) < MaxSamples
<1>1. Newer(r, Y) \subseteq Newer(r, X) /\ Newer(r, X) \subseteq X
  BY DEF Newer
<1>2. IsFiniteSet(Newer(r, X))
  BY <1>1, FS_Subset
<1>3. /\ Cardinality(Newer(r, Y)) \in Nat /\ Cardinality(Newer(r, X)) \in Nat
      /\ Cardinality(Newer(r, Y)) <= Cardinality(Newer(r, X))
  BY <1>1, <1>2, FS_Subset, FS_CardinalityType
<1> QED
  BY <1>3, SpoolAssumption

(* The property in terms of the rows newer than a row.                     *)
LEMMA NewestMeans ==
  ObservationsAreNewest <=>
    (MaxSamples > 0 =>
       /\ \A r \in recorded : Cardinality(Newer(r, recorded)) < MaxSamples => r \in obs
       /\ \A r \in obs \ unpruned : Cardinality(Newer(r, recorded \ unpruned)) < MaxSamples)
  BY Zenon DEF ObservationsAreNewest, AmongNewest, Newer

(* A prune that goes through leaves the newest of all rows ever inserted.  *)
LEMMA PruneKeepsNewest ==
  ASSUME TypeInv, IsFiniteSet(recorded), ObservationsAreNewest, MaxSamples > 0,
         NEW x \in Observation,
         recorded' = recorded \cup {x}, obs' = Newest(obs \cup {x}), unpruned' = {}
  PROVE  ObservationsAreNewest'
<1>0. obs \in SUBSET recorded /\ recorded \in SUBSET Observation
  BY DEF TypeInv, TypeOK
<1>1. \A q \in recorded : Cardinality(Newer(q, recorded)) < MaxSamples => q \in obs
  BY NewestMeans
<1>2. ASSUME NEW r \in recorded'
      PROVE  r \in obs' <=> Cardinality(Newer(r, recorded')) < MaxSamples
  <2>1. r \in Newest(obs \cup {x}) <=> Cardinality(Newer(r, recorded \cup {x})) < MaxSamples
    BY <1>0, <1>1, <1>2, PruneIsExact
  <2> QED
    BY <2>1, Zenon
<1>3. obs' \subseteq recorded'
  BY <1>0 DEF Newest
<1>4. recorded' \ unpruned' = recorded'
  OBVIOUS
<1> QED
  BY <1>2, <1>3, <1>4, Zenon DEF ObservationsAreNewest, AmongNewest, Newer

(* A row whose prune does not go through takes none of the newest away.    *)
LEMMA InsertKeepsNewest ==
  ASSUME TypeInv, IsFiniteSet(recorded), ObservationsAreNewest, MaxSamples > 0,
         NEW x \in Observation,
         recorded' = recorded \cup {x}, obs' = obs \cup {x}, unpruned' = unpruned \cup {x}
  PROVE  ObservationsAreNewest'
<1>0. obs \in SUBSET recorded /\ recorded \in SUBSET Observation
  BY DEF TypeInv, TypeOK
<1>1. /\ \A q \in recorded : Cardinality(Newer(q, recorded)) < MaxSamples => q \in obs
      /\ \A q \in obs \ unpruned : Cardinality(Newer(q, recorded \ unpruned)) < MaxSamples
  BY NewestMeans
<1>2. recorded' \in SUBSET Observation /\ IsFiniteSet(recorded')
  BY <1>0, FS_AddElement
<1>3. ASSUME NEW r \in recorded', Cardinality(Newer(r, recorded')) < MaxSamples
      PROVE  r \in obs'
  <2>1. Cardinality(Newer(r, recorded)) < MaxSamples
    BY <1>2, <1>3, FewerRows
  <2> QED
    BY <2>1, <1>1
<1>4. ASSUME NEW r \in obs' \ unpruned'
      PROVE  Cardinality(Newer(r, recorded' \ unpruned')) < MaxSamples
  <2>1. r \in obs \ unpruned /\ recorded' \ unpruned' \in SUBSET (recorded \ unpruned)
    OBVIOUS
  <2>2. IsFiniteSet(recorded \ unpruned) /\ recorded \ unpruned \in SUBSET Observation
    BY <1>0, FS_Subset
  <2> QED
    BY <1>1, <2>1, <2>2, FewerRows
<1> QED
  BY <1>3, <1>4, Zenon DEF ObservationsAreNewest, AmongNewest, Newer

(* The table keeps the newest of all rows ever inserted.                   *)
LEMMA NewestInduction ==
  ASSUME TypeInv, EventsInv, IsFiniteSet(recorded), ObservationsAreNewest, [Next]_vars
  PROVE  IsFiniteSet(recorded)' /\ ObservationsAreNewest'
<1>1. CASE UNCHANGED <<obs, recorded, unpruned>>
  BY <1>1 DEF ObservationsAreNewest, AmongNewest
<1>2. ASSUME NEW c \in DOMAIN conn, HandleFinish(c) \/ HandleFails(c)
      PROVE  IsFiniteSet(recorded)' /\ ObservationsAreNewest'
  <2> DEFINE e == Head(conn[c].pipe)
  <2>1. EventOK(e) /\ e \in Event /\ Recorded(e)
    BY <1>2, EventAt, HandlingRecords
  <2> HIDE DEF e
  <2>2. PICK x \in Observation : x = RowOf(e)
    BY <2>1, RowTyped
  <2>3. \/ UNCHANGED <<obs, recorded, unpruned>>
        \/ /\ recorded' = recorded \cup {x} /\ unpruned' = {}
           /\ MaxSamples > 0 => obs' = Newest(obs \cup {x})
        \/ /\ recorded' = recorded \cup {x} /\ unpruned' = unpruned \cup {x}
           /\ obs' = obs \cup {x}
    BY <2>1, <2>2, RecordAdds, SpoolAssumption
  <2>4. CASE ~UNCHANGED <<obs, recorded, unpruned>>
    <3>1. IsFiniteSet(recorded')
      BY <2>3, <2>4, FS_AddElement
    <3>2. CASE MaxSamples > 0
      BY <2>3, <2>4, <3>1, <3>2, PruneKeepsNewest, InsertKeepsNewest
    <3>3. CASE ~(MaxSamples > 0)
      BY <3>1, <3>3 DEF ObservationsAreNewest
    <3> QED
      BY <3>2, <3>3
  <2> QED
    BY <2>4, <1>1
<1> QED
  BY <1>1, <1>2, ControllerSteps DEF ctlVars

(* The inductive invariant of the whole.                                   *)
SpoolInv ==
  /\ TypeInv /\ HistoryInv /\ FilesInv /\ PendingInv /\ EventsInv /\ RowsInv
  /\ WriterIsServed /\ BreakInv /\ LostByBreaksOnly
  /\ IsFiniteSet(recorded) /\ ObservationsAreNewest

----------------------------------------------------------------------------
(* The theorems *)

(* The invariant holds at first.                                           *)
LEMMA SpoolInit == Init => SpoolInv
<1> SUFFICES ASSUME Init PROVE SpoolInv
  OBVIOUS
<1>0. /\ builds = <<>> /\ now = 0 /\ spool = {}
      /\ agent = "up" /\ pending = [d \in Drvs |-> 0] /\ writer = 0
      /\ wPc = "idle" /\ wTodo = {} /\ wOut = NoPush
      /\ conn = <<>> /\ obs = {} /\ recorded = {} /\ unpruned = {} /\ handled = {}
      /\ lost = 0 /\ crashes = 0 /\ breaks = 0
  BY DEF Init
<1>1. DOMAIN builds = {} /\ DOMAIN conn = {} /\ Len(builds) = 0 /\ Len(conn) = 0
  BY <1>0
<1>2. builds \in Seq(Build) /\ conn \in Seq(Conn)
  <2>1. <<>> \in Seq(Build) /\ <<>> \in Seq(Conn)
    OBVIOUS
  <2> QED
    BY <2>1, <1>0
<1>3. 0 \in Times
  BY SpoolAssumption DEF Times
<1>4. TypeOK
  BY <1>0, <1>1, <1>2, <1>3, SpoolAssumption DEF TypeOK
<1>5. Clock
  <2>1. {b \in DOMAIN builds : builds[b].running} = {}
    BY <1>1
  <2> QED
    BY <2>1, <1>0, <1>1, FS_EmptySet DEF Clock
<1>6. HistoryInv /\ RowsInv
  BY <1>0, <1>1 DEF HistoryInv, RowsInv
<1>7. FilesInv /\ PendingInv /\ EventsInv
  BY <1>0, <1>1 DEF FilesInv, PendingInv, EventsInv
<1>8. WriterIsServed /\ BreakInv /\ LostByBreaksOnly
  BY <1>0, <1>1 DEF WriterIsServed, BreakInv, LostByBreaksOnly
<1>9. IsFiniteSet(recorded) /\ ObservationsAreNewest
  BY <1>0, FS_EmptySet DEF ObservationsAreNewest
<1> QED
  BY <1>4, <1>5, <1>6, <1>7, <1>8, <1>9 DEF SpoolInv, TypeInv

(* Every step keeps the invariant.                                         *)
LEMMA SpoolInduction == SpoolInv /\ [Next]_vars => SpoolInv'
<1> SUFFICES ASSUME SpoolInv, [Next]_vars PROVE SpoolInv'
  OBVIOUS
<1>1. TypeInv'
  BY TypeInduction, ClockInduction DEF SpoolInv, TypeInv
<1>2. HistoryInv' /\ FilesInv' /\ PendingInv' /\ EventsInv' /\ RowsInv'
  BY HistoryInduction, FilesInduction, PendingInduction, EventsInduction, RowsInduction
    DEF SpoolInv
<1>3. WriterIsServed' /\ BreakInv' /\ LostByBreaksOnly'
  BY WriterInduction, BreakInduction, LossInduction DEF SpoolInv
<1>4. IsFiniteSet(recorded)' /\ ObservationsAreNewest'
  BY NewestInduction DEF SpoolInv
<1> QED
  BY <1>1, <1>2, <1>3, <1>4 DEF SpoolInv

(* The invariant holds always: files, starts in memory, frames and rows    *)
(* agree with the builds they stand for.                                   *)
THEOREM SpoolIsSound == Spec => []SpoolInv
BY SpoolInit, SpoolInduction, PTL DEF Spec

(* Every reachable state is well typed, and the clock never passes its     *)
(* bound.                                                                  *)
THEOREM AgentIsTyped == Spec => []TypeOK
<1>1. SpoolInv => TypeOK
  BY DEF SpoolInv, TypeInv
<1> QED
  BY SpoolIsSound, <1>1, PTL

(* Every duration recorded is that of its own build, unless that build's   *)
(* start was lost: crashes of the agent, finishes sent again, builds that  *)
(* failed and events out of order never pair it with another's.            *)
THEOREM DurationsAreTrue == Spec => []DurationIsExact
<1>1. SpoolInv => DurationIsExact
  BY DEF SpoolInv, RowsInv, RowOK, DurationIsExact
<1> QED
  BY SpoolIsSound, <1>1, PTL

(* record_finish never drops one of the max_samples newest rows ever       *)
(* inserted, and whatever else the table holds is what prunes that failed  *)
(* after their insert would have taken: the next that goes through leaves  *)
(* exactly the newest.                                                     *)
THEOREM TableKeepsNewest == Spec => []ObservationsAreNewest
<1>1. SpoolInv => ObservationsAreNewest
  BY DEF SpoolInv
<1> QED
  BY SpoolIsSound, <1>1, PTL

(* As long as no session is cut short and no frame torn, every finish that *)
(* was written is in the spool, in an open session or handled, however     *)
(* often the agent crashes.                                                *)
THEOREM CrashesLoseNothing == Spec => []LostByBreaksOnly
<1>1. SpoolInv => LostByBreaksOnly
  BY DEF SpoolInv
<1> QED
  BY SpoolIsSound, <1>1, PTL

(* The agent's writer is a connection whose handler runs, or none.         *)
THEOREM WritersAreServed == Spec => []WriterIsServed
<1>1. SpoolInv => WriterIsServed
  BY DEF SpoolInv
<1> QED
  BY SpoolIsSound, <1>1, PTL

==============================================================================
