----------------------------- MODULE AgentSpool -----------------------------
(***************************************************************************)
(* How one host's build events reach the controller.  nbb-event writes a   *)
(* start or a finish into the spool directory; the agent's spool watcher   *)
(* matches finishes to starts in memory and pushes EVENT_BUILD_FINISH over *)
(* the connection the controller happens to have open; the controller      *)
(* records an observation.  Connections break, the agent crashes, events   *)
(* fail to be written, builds of other derivations run in between.         *)
(*                                                                         *)
(* Time is the number of events so far, which is also the ULID order of    *)
(* the files.  All builds have one pname: those of another never meet them. *)
(***************************************************************************)
EXTENDS Naturals, Sequences, FiniteSets

CONSTANTS
  Drvs,         (* derivations                                             *)
  MaxSamples,   (* max_samples_per_pname; 0 keeps every row                *)
  MaxBuilds,    (* bound: builds on this host                              *)
  MaxConns,     (* bound: connections the controller opens                 *)
  MaxLost,      (* bound: events that cannot be written or read            *)
  MaxCrashes,   (* bound: agent crashes                                    *)
  MaxBreaks     (* bound: sessions cut short and frames torn               *)

ASSUME SpoolAssumption ==
  /\ {MaxSamples, MaxBuilds, MaxConns, MaxLost, MaxCrashes, MaxBreaks} \subseteq Nat

VARIABLES
  builds,       (* history: the builds, in the order they started          *)
  now,          (* events so far                                           *)
  spool,        (* <spool_dir>/*.evt                                       *)
  agent,        (* the agent process: "up" or "down"                       *)
  pending,      (* pending_starts: when the start of a derivation was      *)
  writer,       (* the connection the agent pushes to, 0 for none          *)
  wPc, wTodo, wOut,  (* the spool watcher: position, files, finish on hand *)
  conn,         (* the connections, in the order they were opened          *)
  obs,          (* build_observations                                      *)
  recorded,     (* history: rows ever inserted                             *)
  unpruned,     (* history: rows inserted since the last prune went through *)
  handled,      (* history: builds whose finish retired their admission    *)
  lost, crashes, breaks  (* history: faults so far                         *)

hostVars  == <<builds, now>>
watchVars == <<wPc, wTodo, wOut>>
ctlVars   == <<obs, recorded, unpruned, handled>>
faultVars == <<lost, crashes, breaks>>
vars == <<builds, now, spool, agent, pending, writer, wPc, wTodo, wOut, conn,
          obs, recorded, unpruned, handled, lost, crashes, breaks>>

----------------------------------------------------------------------------

Builds == 1..MaxBuilds
Times  == 0..2 * MaxBuilds
Conns  == 1..MaxConns

Build == [drv : Drvs, start : Times, startLost : BOOLEAN,
          finish : Times, finishLost : BOOLEAN, running : BOOLEAN]

File  == [ts : Times, kind : {"start", "finish"}, build : Builds]

(* An EVENT_BUILD_FINISH: `started` 0 stands for duration_ms = None.       *)
Event == [build : Builds, started : Times]

Push == [event : Event, file : File, to : Conns]
NoPush == [to |-> 0]

Conn == [agent : {"opening", "serving", "ended"}, ctl : {"open", "closed"},
         pipe : Seq(Event)]

Observation == [drv : Drvs, started : Times, finished : Times]

Init ==
  /\ builds = <<>> /\ now = 0 /\ spool = {}
  /\ agent = "up" /\ pending = [d \in Drvs |-> 0] /\ writer = 0
  /\ wPc = "idle" /\ wTodo = {} /\ wOut = NoPush
  /\ conn = <<>>
  /\ obs = {} /\ recorded = {} /\ unpruned = {} /\ handled = {}
  /\ lost = 0 /\ crashes = 0 /\ breaks = 0

Lose(yes) == IF yes THEN lost < MaxLost /\ lost' = lost + 1 ELSE UNCHANGED lost

----------------------------------------------------------------------------
(* The host: Nix runs builds, its hooks run nbb-event *)

(* The pre-build-hook.  Nix builds a derivation once at a time.            *)
BuildStarts(d) ==
  /\ Len(builds) < MaxBuilds
  /\ \A b \in DOMAIN builds : builds[b].drv = d => ~builds[b].running
  /\ now' = now + 1
  /\ \E gone \in BOOLEAN :
       /\ Lose(gone)
       /\ builds' = Append(builds, [drv |-> d, start |-> now + 1, startLost |-> gone,
                                    finish |-> 0, finishLost |-> FALSE, running |-> TRUE])
       /\ spool' = IF gone THEN spool
                   ELSE spool \cup {[ts |-> now + 1, kind |-> "start", build |-> Len(builds) + 1]}
  /\ UNCHANGED <<agent, pending, writer, watchVars, conn, ctlVars, crashes, breaks>>

(* The post-build-hook, which runs for a success only.                     *)
BuildSucceeds(b) ==
  /\ builds[b].running
  /\ now' = now + 1
  /\ \E gone \in BOOLEAN :
       /\ Lose(gone)
       /\ builds' = [builds EXCEPT ![b].finish = now + 1, ![b].finishLost = gone,
                                   ![b].running = FALSE]
       /\ spool' = IF gone THEN spool
                   ELSE spool \cup {[ts |-> now + 1, kind |-> "finish", build |-> b]}
  /\ UNCHANGED <<agent, pending, writer, watchVars, conn, ctlVars, crashes, breaks>>

BuildFails(b) ==
  /\ builds[b].running
  /\ builds' = [builds EXCEPT ![b].running = FALSE]
  /\ UNCHANGED <<now, spool, agent, pending, writer, watchVars, conn, ctlVars, faultVars>>

----------------------------------------------------------------------------
(* The spool watcher: tick, process_one, apply_event, forward_finish *)

Tick ==
  /\ agent = "up" /\ wPc = "idle" /\ spool # {}
  /\ wPc' = "list" /\ wTodo' = spool
  /\ UNCHANGED <<hostVars, spool, agent, pending, writer, wOut, conn, ctlVars, faultVars>>

(* The files are taken in the order of their names.                        *)
Turn(f) ==
  agent = "up" /\ wPc = "list" /\ f \in wTodo /\ \A g \in wTodo : f.ts <= g.ts

StoreStart(f) ==
  /\ Turn(f) /\ f.kind = "start"
  /\ pending' = [pending EXCEPT ![builds[f.build].drv] = f.ts]
  /\ spool' = spool \ {f} /\ wTodo' = wTodo \ {f}
  /\ UNCHANGED <<hostVars, agent, writer, wPc, wOut, conn, ctlVars, faultVars>>

(* Variants: the subtraction is not checked, or wraps around.              *)
StartedUnchecked(d, ts) == pending[d]
StartedWrapping(d, ts) == IF pending[d] <= ts THEN pending[d] ELSE pending[d] + 2 * MaxBuilds

(* ts_ms.checked_sub(start): a start after the finish is none.             *)
Started(d, ts) == IF pending[d] <= ts THEN pending[d] ELSE 0

(* Variant: without a writer the finish is dropped.                        *)
TakeFinishOrDrop(f) ==
  LET d == builds[f.build].drv IN
  /\ Turn(f) /\ f.kind = "finish"
  /\ pending' = [pending EXCEPT ![d] = 0]
  /\ wTodo' = wTodo \ {f}
  /\ \/ writer = 0 /\ spool' = spool \ {f} /\ UNCHANGED <<wPc, wOut>>
     \/ /\ writer # 0
        /\ wPc' = "write"
        /\ wOut' = [event |-> [build |-> f.build, started |-> Started(d, f.ts)],
                    file |-> f, to |-> writer]
        /\ UNCHANGED spool
  /\ UNCHANGED <<hostVars, agent, writer, conn, ctlVars, faultVars>>

(* apply_event takes the start out of the map for good; then the writer is *)
(* read.  Without one the file is left for the next tick.                  *)
TakeFinish(f) ==
  LET d == builds[f.build].drv IN
  /\ Turn(f) /\ f.kind = "finish"
  /\ pending' = [pending EXCEPT ![d] = 0]
  /\ wTodo' = wTodo \ {f}
  /\ \/ writer = 0 /\ UNCHANGED <<wPc, wOut>>
     \/ /\ writer # 0
        /\ wPc' = "write"
        /\ wOut' = [event |-> [build |-> f.build, started |-> Started(d, f.ts)],
                    file |-> f, to |-> writer]
  /\ UNCHANGED <<hostVars, spool, agent, writer, conn, ctlVars, faultVars>>

(* The write succeeds when the kernel takes the bytes: a peer that is gone *)
(* shows in a later write at the earliest.                                 *)
WriteFrame ==
  /\ agent = "up" /\ wPc = "write"
  /\ wPc' = "unlink"
  /\ conn' = [conn EXCEPT ![wOut.to].pipe =
                IF conn[wOut.to].ctl = "open" THEN Append(@, wOut.event) ELSE @]
  /\ UNCHANGED <<hostVars, spool, agent, pending, writer, wTodo, wOut, ctlVars, faultVars>>

(* It fails: the writer is forgotten, whichever it is by now.              *)
WriteFails ==
  /\ agent = "up" /\ wPc = "write" /\ conn[wOut.to].ctl = "closed"
  /\ writer' = 0
  /\ wPc' = "list" /\ wOut' = NoPush
  /\ UNCHANGED <<hostVars, spool, agent, pending, wTodo, conn, ctlVars, faultVars>>

(* Variant: the file stays after a push that succeeded.                    *)
UnlinkFinishForgotten ==
  /\ agent = "up" /\ wPc = "unlink"
  /\ wPc' = "list" /\ wOut' = NoPush
  /\ UNCHANGED <<hostVars, spool, agent, pending, writer, wTodo, conn, ctlVars, faultVars>>

UnlinkFinish ==
  /\ agent = "up" /\ wPc = "unlink"
  /\ spool' = spool \ {wOut.file}
  /\ wPc' = "list" /\ wOut' = NoPush
  /\ UNCHANGED <<hostVars, agent, pending, writer, wTodo, conn, ctlVars, faultVars>>

(* A file that cannot be read counts as corrupt and is removed.            *)
RemoveCorrupt(f) ==
  /\ Turn(f) /\ Lose(TRUE)
  /\ builds' = IF f.kind = "start" THEN [builds EXCEPT ![f.build].startLost = TRUE]
                                   ELSE [builds EXCEPT ![f.build].finishLost = TRUE]
  /\ spool' = spool \ {f} /\ wTodo' = wTodo \ {f}
  /\ UNCHANGED <<now, agent, pending, writer, wPc, wOut, conn, ctlVars, crashes, breaks>>

TickEnds ==
  /\ agent = "up" /\ wPc = "list" /\ wTodo = {}
  /\ wPc' = "idle"
  /\ UNCHANGED <<hostVars, spool, agent, pending, writer, wTodo, wOut, conn, ctlVars, faultVars>>

----------------------------------------------------------------------------
(* The connections: target_poller_loop on one side, handle_connection on   *)
(* the other                                                               *)

(* The controller has one session with this agent at a time, and opens the *)
(* next when its own end of the last is closed.                            *)
Connect ==
  /\ agent = "up" /\ Len(conn) < MaxConns
  /\ \A c \in DOMAIN conn : conn[c].ctl = "closed"
  /\ conn' = Append(conn, [agent |-> "opening", ctl |-> "open", pipe |-> <<>>])
  /\ UNCHANGED <<hostVars, spool, agent, pending, writer, watchVars, ctlVars, faultVars>>

(* The handshake is done, AGENT_HELLO written: this is the writer now.     *)
Serve(c) ==
  /\ agent = "up" /\ conn[c].agent = "opening"
  /\ conn' = [conn EXCEPT ![c].agent = "serving"]
  /\ writer' = c
  /\ UNCHANGED <<hostVars, spool, agent, pending, watchVars, ctlVars, faultVars>>

HandshakeFails(c) ==
  /\ agent = "up" /\ conn[c].agent = "opening" /\ conn[c].ctl = "closed"
  /\ conn' = [conn EXCEPT ![c].agent = "ended"]
  /\ UNCHANGED <<hostVars, spool, agent, pending, writer, watchVars, ctlVars, faultVars>>

(* Variant: a handler that ends leaves the writer in place.                *)
HandlerEndsKeepWriter(c) ==
  /\ agent = "up" /\ conn[c].agent = "serving" /\ conn[c].ctl = "closed"
  /\ conn' = [conn EXCEPT ![c].agent = "ended"]
  /\ UNCHANGED <<hostVars, spool, agent, pending, writer, watchVars, ctlVars, faultVars>>

(* The handler sees the end of its stream, whenever that may be, and       *)
(* forgets the writer, whichever it is by now.                             *)
HandlerEnds(c) ==
  /\ agent = "up" /\ conn[c].agent = "serving" /\ conn[c].ctl = "closed"
  /\ conn' = [conn EXCEPT ![c].agent = "ended"]
  /\ writer' = 0
  /\ UNCHANGED <<hostVars, spool, agent, pending, watchVars, ctlVars, faultVars>>

(* The controller's end closes with frames unread: the controller crashed, *)
(* the session ran into an error (a PING to an agent that is gone is one), *)
(* the network went away.                                                  *)
Closed(c) == [conn EXCEPT ![c].ctl = "closed", ![c].pipe = <<>>]

Break == breaks < MaxBreaks /\ breaks' = breaks + 1

SessionBreaks(c) ==
  /\ conn[c].ctl = "open" /\ Break
  /\ conn' = Closed(c)
  /\ UNCHANGED <<hostVars, spool, agent, pending, writer, watchVars, ctlVars, lost, crashes>>

(* The ticker of the select! fires in the middle of a frame: the reading   *)
(* is dropped with the bytes it had and the next one takes the rest of the *)
(* body for a header, with a length that may swallow frames behind it, or  *)
(* end the session (SessionBreaks).                                        *)
TearsFrame(c) ==
  /\ conn[c].ctl = "open" /\ Break
  /\ \E n \in DOMAIN conn[c].pipe :
       conn' = [conn EXCEPT ![c].pipe = SubSeq(@, n + 1, Len(@))]
  /\ UNCHANGED <<hostVars, spool, agent, pending, writer, watchVars, ctlVars, lost, crashes>>

SessionEof(c) ==
  /\ conn[c].ctl = "open" /\ conn[c].agent = "ended" /\ conn[c].pipe = <<>>
  /\ conn' = Closed(c)
  /\ UNCHANGED <<hostVars, spool, agent, pending, writer, watchVars, ctlVars, faultVars>>

AgentCrash ==
  /\ agent = "up" /\ crashes < MaxCrashes
  /\ crashes' = crashes + 1
  /\ agent' = "down"
  /\ pending' = [d \in Drvs |-> 0]
  /\ writer' = 0
  /\ wPc' = "idle" /\ wTodo' = {} /\ wOut' = NoPush
  /\ conn' = [c \in DOMAIN conn |-> [conn[c] EXCEPT !.agent = "ended"]]
  /\ UNCHANGED <<hostVars, spool, ctlVars, lost, breaks>>

AgentStart ==
  /\ agent = "down"
  /\ agent' = "up"
  /\ UNCHANGED <<hostVars, spool, pending, writer, watchVars, conn, ctlVars, faultVars>>

----------------------------------------------------------------------------
(* The controller: handle_from_agent, record_finish, prune_pname *)

(* Variant: one row too many survives.                                     *)
NewestOffByOne(rows) ==
  {r \in rows : Cardinality({s \in rows : s.finished > r.finished}) <= MaxSamples}

Newest(rows) ==
  {r \in rows : Cardinality({s \in rows : s.finished > r.finished}) < MaxSamples}

RowOf(e) == [drv |-> builds[e.build].drv, started |-> e.started,
             finished |-> builds[e.build].finish]

(* INSERT OR IGNORE under UNIQUE (drv_path, finished_at_ms) puts a row in. *)
Inserts(e) ==
  /\ e.started # 0
  /\ \A r \in obs : ~(r.drv = RowOf(e).drv /\ r.finished = RowOf(e).finished)
  /\ recorded' = recorded \cup {RowOf(e)}

Ignores(e) ==
  /\ \/ e.started = 0
     \/ \E r \in obs : r.drv = RowOf(e).drv /\ r.finished = RowOf(e).finished
  /\ UNCHANGED <<obs, recorded, unpruned>>

(* A row that went in is followed by a prune.                              *)
Record(e) ==
  \/ Ignores(e)
  \/ /\ Inserts(e)
     /\ obs' = IF MaxSamples = 0 THEN obs \cup {RowOf(e)} ELSE Newest(obs \cup {RowOf(e)})
     /\ unpruned' = {}

(* The two statements commit one by one: the row is in, the prune fails or *)
(* is never come to.                                                       *)
RecordWithoutPrune(e) ==
  /\ Inserts(e) /\ MaxSamples > 0
  /\ obs' = obs \cup {RowOf(e)}
  /\ unpruned' = unpruned \cup {RowOf(e)}

HandleFinish(c) ==
  /\ conn[c].ctl = "open" /\ conn[c].pipe # <<>>
  /\ LET e == Head(conn[c].pipe) IN Record(e) /\ handled' = handled \cup {e.build}
  /\ conn' = [conn EXCEPT ![c].pipe = Tail(@)]
  /\ UNCHANGED <<hostVars, spool, agent, pending, writer, watchVars, faultVars>>

(* A database error in one of record_finish's three statements ends the    *)
(* session with what was done before; a controller that crashes among them *)
(* leaves the same.                                                        *)
HandleFails(c) ==
  /\ conn[c].ctl = "open" /\ conn[c].pipe # <<>> /\ Break
  /\ LET e == Head(conn[c].pipe) IN
     Record(e) \/ RecordWithoutPrune(e) \/ UNCHANGED <<obs, recorded, unpruned>>
  /\ conn' = Closed(c)
  /\ UNCHANGED <<hostVars, spool, agent, pending, writer, watchVars, handled, lost, crashes>>

----------------------------------------------------------------------------

Watch ==
  \/ Tick \/ TickEnds \/ WriteFrame \/ WriteFails \/ UnlinkFinish
  \/ \E f \in wTodo : StoreStart(f) \/ TakeFinish(f)

Next ==
  \/ \E d \in Drvs : BuildStarts(d)
  \/ \E b \in DOMAIN builds : BuildSucceeds(b) \/ BuildFails(b)
  \/ Watch
  \/ \E f \in wTodo : RemoveCorrupt(f)
  \/ Connect \/ AgentCrash \/ AgentStart
  \/ \E c \in DOMAIN conn :
       \/ Serve(c) \/ HandshakeFails(c) \/ HandlerEnds(c)
       \/ SessionBreaks(c) \/ TearsFrame(c) \/ SessionEof(c)
       \/ HandleFinish(c) \/ HandleFails(c)

Spec == Init /\ [][Next]_vars

(* tokio runs the watcher's interval, the poller keeps dialling, sessions  *)
(* and handlers read what has arrived, systemd restarts the agent.         *)
Fairness ==
  /\ WF_vars(Watch) /\ WF_vars(Connect) /\ WF_vars(AgentStart)
  /\ \A c \in Conns :
       WF_vars(c \in DOMAIN conn /\ (Serve(c) \/ SessionEof(c) \/ HandleFinish(c)))

FairSpec == Spec /\ Fairness

----------------------------------------------------------------------------
(* Properties *)

(* Type correctness.                                                       *)
TypeOK ==
  /\ builds \in Seq(Build) /\ Len(builds) <= MaxBuilds /\ now \in Times
  /\ spool \subseteq File /\ wTodo \subseteq spool
  /\ agent \in {"up", "down"} /\ pending \in [Drvs -> Times]
  /\ writer \in 0..Len(conn)
  /\ wPc \in {"idle", "list", "write", "unlink"}
  /\ wOut \in IF wPc \in {"write", "unlink"} THEN Push ELSE {NoPush}
  /\ conn \in Seq(Conn) /\ Len(conn) <= MaxConns
  /\ obs \subseteq recorded /\ recorded \subseteq Observation
  /\ unpruned \subseteq obs /\ handled \subseteq Builds
  /\ lost \in 0..MaxLost /\ crashes \in 0..MaxCrashes /\ breaks \in 0..MaxBreaks

InSpool(b) == \E f \in spool : f.kind = "finish" /\ f.build = b

(* The finish of a build is on its way in a session still open.            *)
InFlight(b) ==
  \E c \in DOMAIN conn : \E i \in DOMAIN conn[c].pipe : conn[c].pipe[i].build = b

Reported(b) == builds[b].finish # 0 /\ ~builds[b].finishLost

(* An observation holds how long its own build took, whatever crashed, was *)
(* retried or failed before; only a start that was lost makes the agent    *)
(* match the finish with an earlier build's.                               *)
DurationIsExact ==
  \A r \in recorded : \E b \in DOMAIN builds :
    /\ builds[b].drv = r.drv /\ builds[b].finish = r.finished
    /\ r.started = builds[b].start \/ builds[b].startLost

(* The table never loses one of the MaxSamples newest rows ever inserted,  *)
(* and keeps no other for longer than until the next prune: what it has    *)
(* beyond the newest it got, or should have lost, by prunes that did not   *)
(* go through.                                                             *)
AmongNewest(r, rows) == Cardinality({s \in rows : s.finished > r.finished}) < MaxSamples

ObservationsAreNewest ==
  MaxSamples > 0 =>
    /\ \A r \in recorded : AmongNewest(r, recorded) => r \in obs
    /\ \A r \in obs \ unpruned : AmongNewest(r, recorded \ unpruned)

(* The agent's crashes lose no finish: as long as no session was cut short *)
(* and no frame torn every finish is in the spool, in an open session or   *)
(* handled.                                                                *)
LostByBreaksOnly ==
  breaks = 0 => \A b \in DOMAIN builds :
    Reported(b) => InSpool(b) \/ InFlight(b) \/ b \in handled

(* The agent pushes to a connection whose handler still runs, so that a    *)
(* dead connection is not written to for ever.                             *)
WriterIsServed == writer # 0 => conn[writer].agent = "serving"

(* While the agent keeps the writer of an open session the spool drains.   *)
Connected == agent = "up" /\ writer # 0 /\ conn[writer].ctl = "open"

DrainsWhileConnected ==
  <>[]Connected =>
    \A b \in Builds : InSpool(b) ~> ~InSpool(b)

----------------------------------------------------------------------------
(* What a document says and the code refutes *)

(* SPEC.md:109-113: a finish the controller was unreachable for is left in *)
(* place "so the next tick retries": once connections last, it gets there. *)
SpoolDrains ==
  \A b \in Builds : InSpool(b) ~> ~InSpool(b)

============================================================================
