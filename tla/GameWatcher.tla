---------------------------- MODULE GameWatcher ----------------------------
(***************************************************************************)
(* The daemon that opens firewall ports for running games and keeps GPU    *)
(* services out of their way.  It is one loop: scan the processes, handle  *)
(* the games that started and stopped, poll the GPU guards, sleep.         *)
(* Everything it does to the world is a command that may fail, and it may  *)
(* be killed between any two of them.                                      *)
(*                                                                         *)
(* A turn of the loop is a unit of time.  Games are app ids; one the       *)
(* configuration does not know is one without rules that no guard names.   *)
(***************************************************************************)
EXTENDS Integers, SequencesExt, FiniteSets, Functions

CONSTANTS
  Games,        (* app ids                                                 *)
  NoGame,       (* none of them                                            *)
  Rules,        (* iptables and ip6tables rules of the configured games    *)
  RulesOf,      (* the rules of a game, in the order they are inserted     *)
  Guards,       (* config.gpu_guards, a sequence                           *)
  MaxFaults     (* bound: failed commands, flushed chains and kills        *)

GuardConfig ==
  [requires : SUBSET Games, service : STRING, action : {"restart", "stop"},
   settle : Nat, applies : SUBSET Games, exceed : Nat, window : Nat,
   escalation : {"restart", "stop"}]

(* One guard a service, as in machines/saya/game-watcher.nix; a guard      *)
(* without an escalation is one whose escalation applies to no game.       *)
ASSUME ConfigAssumption ==
  /\ NoGame \notin Games
  /\ RulesOf \in [Games -> Seq(Rules)]
  /\ \A g, h \in Games : g # h => ToSet(RulesOf[g]) \cap ToSet(RulesOf[h]) = {}
  /\ Guards \in Seq(GuardConfig)
  /\ \A i, j \in DOMAIN Guards : Guards[i].service = Guards[j].service => i = j
  /\ MaxFaults \in Nat

STOP_DEBOUNCE_TICKS == 2

VARIABLES
  pc,               (* where the loop is                                   *)
  starts, stops,    (* this turn's games still to be handled               *)
  game,             (* the game being handled                              *)
  todo,             (* rules of it still to be inserted or deleted         *)
  got,              (* rules inserted for it so far                        *)
  gi,               (* the guard whose turn it is                          *)
  current, pending, (* ActiveGames: the games, the scans they were missed  *)
  active,           (* Engine.active: the rules of a game with a session   *)
  guard,            (* Engine.guards                                       *)
  term,             (* the shutdown flag the signal thread sets            *)
  chain,            (* the game-watcher rules in nixos-fw, first to last   *)
  up,               (* services that run                                   *)
  faults,           (* history: faults so far                              *)
  missed,           (* history: scans since a game was last seen           *)
  quiet,            (* history: time since a guard's last spike that no    *)
                    (* fire has answered, -1 for none                      *)
  fired,            (* history: ages of the fires that may escalate        *)
  spoiled,          (* history: games some command of whose rules failed   *)
  lost              (* history: services a failure or a kill gave up       *)

posVars  == <<pc, starts, stops, game, todo, got, gi>>
memVars  == <<current, pending, active, guard>>
pastVars == <<missed, quiet, fired>>
vars == <<posVars, memVars, term, chain, up, faults, pastVars, spoiled, lost>>

GuardIds == DOMAIN Guards
Services == {Guards[i].service : i \in GuardIds}
OwnerOf(r) == CHOOSE g \in Games : r \in ToSet(RulesOf[g])

NotBelow == -1
FreshGuard == [phase |-> "Idle", below |-> NotBelow, history |-> <<>>, mode |-> "Normal"]
Idle(gs) == [gs EXCEPT !.phase = "Idle", !.below = NotBelow]

Init ==
  /\ pc = "off" /\ starts = {} /\ stops = {} /\ game = NoGame
  /\ todo = <<>> /\ got = <<>> /\ gi = 1
  /\ current = {} /\ pending = [g \in Games |-> 0] /\ active = <<>>
  /\ guard = [i \in GuardIds |-> FreshGuard]
  /\ term = FALSE /\ chain = <<>> /\ up = Services /\ faults = 0
  /\ missed = [g \in Games |-> STOP_DEBOUNCE_TICKS]
  /\ quiet = [i \in GuardIds |-> -1] /\ fired = [i \in GuardIds |-> {}]
  /\ spoiled = {} /\ lost = {}

----------------------------------------------------------------------------
(* The world: iptables, systemctl *)

Fault == faults < MaxFaults /\ faults' = faults + 1

(* iptables -I nixos-fw 1 <rule>                                           *)
InsertRule(r) == chain' = <<r>> \o chain

(* iptables -D nixos-fw <rule> takes the first that matches and fails if   *)
(* there is none.                                                          *)
DeleteRule(r) ==
  \/ /\ r \in ToSet(chain)
     /\ chain' = RemoveFirst(chain, r) /\ UNCHANGED <<faults, spoiled>>
  \/ /\ r \notin ToSet(chain)
     /\ spoiled' = spoiled \cup {OwnerOf(r)} /\ UNCHANGED <<chain, faults>>
  \/ /\ Fault
     /\ spoiled' = spoiled \cup {OwnerOf(r)} /\ UNCHANGED chain

(* systemctl <verb> <service>; the callers only log a failure, after which *)
(* the service may be in either state.                                     *)
Systemctl(verb, s) ==
  \/ /\ up' = IF verb = "stop" THEN up \ {s} ELSE up \cup {s}
     /\ lost' = lost \ {s} /\ UNCHANGED faults
  \/ /\ Fault
     /\ up' \in {up \ {s}, up \cup {s}}
     /\ lost' = lost \cup {s}

NoSystemctl == UNCHANGED <<up, lost, faults>>

----------------------------------------------------------------------------
(* Starting *)

Without(rules, unlisted) ==
  LET Upto[n \in 0..Len(rules)] ==
        IF n = 0 THEN <<>>
        ELSE IF rules[n] \in unlisted THEN Upto[n - 1] ELSE Append(Upto[n - 1], rules[n])
  IN Upto[Len(rules)]

(* cleanup_stale lists the chain of either family; a listing that fails    *)
(* leaves what it would have listed.                                       *)
StartUp ==
  /\ pc = "off"
  /\ pc' = "clean"
  /\ \/ todo' = chain /\ UNCHANGED faults
     \/ Fault /\ \E unlisted \in SUBSET ToSet(chain) :
          todo' = Without(chain, unlisted)
  /\ UNCHANGED <<starts, stops, game, got, gi, memVars, term, chain, up, pastVars,
                 spoiled, lost>>

CleanRule ==
  /\ pc = "clean" /\ todo # <<>>
  /\ DeleteRule(Head(todo))
  /\ todo' = Tail(todo)
  /\ UNCHANGED <<pc, starts, stops, game, got, gi, memVars, term, up, pastVars, lost>>

Cleaned ==
  /\ pc = "clean" /\ todo = <<>>
  /\ pc' = "scan"
  /\ spoiled' = {OwnerOf(r) : r \in ToSet(chain)}
  /\ UNCHANGED <<starts, stops, game, todo, got, gi, memVars, term, chain, up, faults,
                 pastVars, lost>>

----------------------------------------------------------------------------
(* Detection: scan_proc and ActiveGames::tick *)

(* The scans a game will have been missed in a row: one is reset by its    *)
(* return.                                                                 *)
(* Variant: a return does not cancel a pending stop.                       *)
MissedAfterKept(g, scanned) ==
  IF g \in current \ scanned THEN pending[g] + 1 ELSE pending[g]
MissedAfter(g, scanned) ==
  IF g \in current \ scanned THEN pending[g] + 1 ELSE 0

(* Variant: a scan more than the debounce asks for.                        *)
StopDueLate(ticks) == ticks > STOP_DEBOUNCE_TICKS
StopDue(ticks) == ticks >= STOP_DEBOUNCE_TICKS

(* Any set of games may be found: games come and go, and a /proc that      *)
(* cannot be read is an empty one.                                         *)
Scan ==
  /\ pc = "scan" /\ ~term
  /\ \E scanned \in SUBSET Games :
       LET ticks == [g \in Games |-> MissedAfter(g, scanned)]
           gone == {g \in current \ scanned : StopDue(ticks[g])}
       IN /\ starts' = scanned \ current
          /\ stops' = gone
          /\ current' = (current \cup scanned) \ gone
          /\ pending' = [g \in Games |-> IF g \in gone THEN 0 ELSE ticks[g]]
          /\ missed' = [g \in Games |->
               IF g \in scanned THEN 0
               ELSE IF missed[g] < STOP_DEBOUNCE_TICKS THEN missed[g] + 1 ELSE missed[g]]
  /\ pc' = "start"
  /\ UNCHANGED <<game, todo, got, gi, active, guard, term, chain, up, faults, quiet, fired,
                 spoiled, lost>>

----------------------------------------------------------------------------
(* Engine::on_game_start *)

NextStart(g) ==
  /\ pc = "start" /\ g \in starts
  /\ starts' = starts \ {g} /\ game' = g
  /\ todo' = RulesOf[g] /\ got' = <<>>
  /\ pc' = "apply"
  /\ UNCHANGED <<stops, gi, memVars, term, chain, up, faults, pastVars, spoiled, lost>>

(* firewall::apply.  The first error ends it, and the caller keeps none of *)
(* the rules inserted before.                                              *)
Apply ==
  /\ pc = "apply" /\ todo # <<>>
  /\ \/ /\ InsertRule(Head(todo))
        /\ got' = Append(got, Head(todo)) /\ todo' = Tail(todo)
        /\ UNCHANGED <<faults, spoiled>>
     \/ /\ Fault
        /\ got' = <<>> /\ todo' = <<>>
        /\ spoiled' = spoiled \cup {game}
        /\ UNCHANGED chain
  /\ UNCHANGED <<pc, starts, stops, game, gi, memVars, term, up, pastVars, lost>>

Applied ==
  /\ pc = "apply" /\ todo = <<>>
  /\ pc' = "preempt" /\ gi' = 1
  /\ UNCHANGED <<starts, stops, game, todo, got, memVars, term, chain, up, faults, pastVars,
                 spoiled, lost>>

MustPreempt(i) ==
  /\ game \in Guards[i].requires
  /\ guard[i].mode # "Stopped"
  /\ Guards[i].action = "restart"
  /\ Guards[i].requires \cap DOMAIN active \subseteq {game}

Preempt ==
  /\ pc = "preempt" /\ gi \in GuardIds
  /\ gi' = gi + 1
  /\ \/ /\ MustPreempt(gi)
        /\ Systemctl("restart", Guards[gi].service)
        /\ guard' = [guard EXCEPT ![gi] = Idle(@)]
     \/ /\ ~MustPreempt(gi)
        /\ NoSystemctl /\ UNCHANGED guard
  /\ UNCHANGED <<pc, starts, stops, game, todo, got, current, pending, active, term, chain,
                 pastVars, spoiled>>

(* A session begins whether or not its rules could be inserted.            *)
(* Variant: only if they could.                                            *)
WithSessionIfApplied(g, rules) ==
  [h \in DOMAIN active \cup (IF rules = RulesOf[g] THEN {g} ELSE {}) |->
     IF h = g THEN rules ELSE active[h]]
WithSession(g, rules) ==
  [h \in DOMAIN active \cup {g} |-> IF h = g THEN rules ELSE active[h]]

SessionStarted ==
  /\ pc = "preempt" /\ gi \notin GuardIds
  /\ active' = WithSession(game, got)
  /\ pc' = "start" /\ game' = NoGame /\ got' = <<>> /\ gi' = 1
  /\ UNCHANGED <<starts, stops, todo, current, pending, guard, term, chain, up, faults,
                 pastVars, spoiled, lost>>

Started ==
  /\ pc = "start" /\ starts = {}
  /\ pc' = "stop"
  /\ UNCHANGED <<starts, stops, game, todo, got, gi, memVars, term, chain, up, faults,
                 pastVars, spoiled, lost>>

----------------------------------------------------------------------------
(* Engine::on_game_stop *)

(* Ending a session takes it out of the map and turns to its rules.        *)
(* Variant: the session goes and its rules stay.                           *)
EndSessionOnly(g) ==
  /\ active' = Restrict(active, DOMAIN active \ {g})
  /\ game' = g /\ todo' = <<>>
EndSession(g) ==
  /\ active' = Restrict(active, DOMAIN active \ {g})
  /\ game' = g /\ todo' = active[g]

NextStop(g) ==
  /\ pc = "stop" /\ g \in stops
  /\ stops' = stops \ {g}
  /\ \/ g \in DOMAIN active /\ EndSession(g) /\ pc' = "revert"
     \/ g \notin DOMAIN active /\ UNCHANGED <<active, game, todo, pc>>
  /\ UNCHANGED <<starts, got, gi, current, pending, guard, term, chain, up, faults, pastVars,
                 spoiled, lost>>

(* firewall::revert goes on after an error.                                *)
Revert ==
  /\ pc \in {"revert", "undo"} /\ todo # <<>>
  /\ DeleteRule(Head(todo))
  /\ todo' = Tail(todo)
  /\ UNCHANGED <<pc, starts, stops, game, got, gi, memVars, term, up, pastVars, lost>>

Reverted ==
  /\ pc \in {"revert", "undo"} /\ todo = <<>>
  /\ pc' = IF pc = "revert" THEN "restore" ELSE "drain"
  /\ game' = IF pc = "revert" THEN game ELSE NoGame
  /\ UNCHANGED <<starts, stops, todo, got, gi, memVars, term, chain, up, faults, pastVars,
                 spoiled, lost>>

(* The last game of the escalation has gone.                               *)
(* Variant: a game the guard covers has gone.                              *)
MustRestoreAny(i) ==
  guard[i].mode = "Stopped" /\ game \in Guards[i].requires
(* Variant: the last game of the guard has gone, not of the escalation.    *)
MustRestoreLate(i) ==
  /\ guard[i].mode = "Stopped"
  /\ game \in Guards[i].applies
  /\ Guards[i].requires \cap DOMAIN active = {}
MustRestore(i) ==
  /\ guard[i].mode = "Stopped"
  /\ game \in Guards[i].applies
  /\ Guards[i].applies \cap DOMAIN active = {}

Restore ==
  /\ pc = "restore" /\ gi \in GuardIds
  /\ gi' = gi + 1
  /\ \/ /\ MustRestore(gi)
        /\ Systemctl("start", Guards[gi].service)
        /\ guard' = [guard EXCEPT ![gi] = FreshGuard]
        /\ fired' = [fired EXCEPT ![gi] = {}]
     \/ /\ ~MustRestore(gi)
        /\ NoSystemctl /\ UNCHANGED <<guard, fired>>
  /\ UNCHANGED <<pc, starts, stops, game, todo, got, current, pending, active, term, chain,
                 missed, quiet, spoiled>>

SessionEnded ==
  /\ pc = "restore" /\ gi \notin GuardIds
  /\ pc' = "stop" /\ game' = NoGame /\ gi' = 1
  /\ UNCHANGED <<starts, stops, todo, got, memVars, term, chain, up, faults, pastVars,
                 spoiled, lost>>

(* The GPU is polled every other turn, or every turn when turns are slow.  *)
Stopped ==
  /\ pc = "stop" /\ stops = {}
  /\ pc' \in {"gpu", "sleep"}
  /\ UNCHANGED <<starts, stops, game, todo, got, gi, memVars, term, chain, up, faults,
                 pastVars, spoiled, lost>>

----------------------------------------------------------------------------
(* Engine::poll_gpu and fire_guard, one guard an action *)

Polling(i) == pc = "gpu" /\ gi = i

PollEnds == UNCHANGED <<pc, starts, stops, game, todo, got, current, pending, active, term,
                        chain, missed, spoiled>>

Uncovered(i) == Guards[i].requires \cap DOMAIN active = {}

PollUncovered(i) ==
  /\ Polling(i) /\ Uncovered(i)
  /\ gi' = gi + 1 /\ guard' = [guard EXCEPT ![i] = Idle(@)]
  /\ NoSystemctl /\ UNCHANGED <<quiet, fired>> /\ PollEnds

PollStopped(i) ==
  /\ Polling(i) /\ ~Uncovered(i) /\ guard[i].mode = "Stopped"
  /\ gi' = gi + 1
  /\ NoSystemctl /\ UNCHANGED <<guard, quiet, fired>> /\ PollEnds

Sampled(i) == Polling(i) /\ ~Uncovered(i) /\ guard[i].mode # "Stopped"

(* service_main_pid: no process, or systemctl cannot say.                  *)
PollNoPid(i) ==
  /\ Sampled(i)
  /\ \/ Guards[i].service \notin up /\ UNCHANGED faults
     \/ Fault
  /\ gi' = gi + 1 /\ guard' = [guard EXCEPT ![i] = Idle(@)]
  /\ UNCHANGED <<up, lost, quiet, fired>> /\ PollEnds

(* An error of systemctl or of NVML ends the poll for the other guards.    *)
PollFails(i) ==
  /\ Sampled(i) /\ Fault
  /\ gi' = Len(Guards) + 1
  /\ UNCHANGED <<up, lost, guard, quiet, fired>> /\ PollEnds

(* Variant: a spike while Active does not put the settling off.            *)
AfterSpikeKept(gs) == [gs EXCEPT !.phase = "Active"]
AfterSpike(gs) == [gs EXCEPT !.phase = "Active", !.below = NotBelow]

(* Utilisation over the threshold.  All guards share last_seen_us, so the  *)
(* first to sample in a poll takes the samples of all; the others see none *)
(* but what came in since, which PollHigh and PollLow allow for.           *)
PollHigh(i) ==
  /\ Sampled(i) /\ Guards[i].service \in up
  /\ gi' = gi + 1
  /\ guard' = [guard EXCEPT ![i] = AfterSpike(@)]
  /\ quiet' = [quiet EXCEPT ![i] = 0]
  /\ NoSystemctl /\ UNCHANGED fired /\ PollEnds

Anchor(gs) == IF gs.below = NotBelow THEN 0 ELSE gs.below
Settled(i) == guard[i].phase = "Active" /\ Anchor(guard[i]) >= Guards[i].settle

(* Utilisation at or under it, or no sample of the process.                *)
PollLow(i) ==
  /\ Sampled(i) /\ Guards[i].service \in up /\ ~Settled(i)
  /\ gi' = gi + 1
  /\ guard' = IF guard[i].phase = "Active"
              THEN [guard EXCEPT ![i].below = Anchor(guard[i])] ELSE guard
  /\ NoSystemctl /\ UNCHANGED <<quiet, fired>> /\ PollEnds

(* What is left when the oldest is popped as long as it is too old.        *)
Recent(ages, window) ==
  LET young == {k \in DOMAIN ages : ages[k] <= window}
  IN IF young = {} THEN <<>> ELSE SubSeq(ages, Min(young), Len(ages))

(* The fires so far and this one; fires older than the window are dropped. *)
(* Variant: they are not.                                                  *)
HistoryAfterUnpruned(i) == Append(guard[i].history, 0)
HistoryAfter(i) == Append(Recent(guard[i].history, Guards[i].window), 0)

(* Variant: whichever game runs.                                           *)
EscalatesAlways(i) == Len(HistoryAfter(i)) > Guards[i].exceed
Escalates(i) ==
  /\ Guards[i].applies \cap DOMAIN active # {}
  /\ Len(HistoryAfter(i)) > Guards[i].exceed

(* Whether or not the command succeeds, the guard is Stopped after a stop. *)
Fire(i) ==
  LET action == IF Escalates(i) THEN Guards[i].escalation ELSE Guards[i].action
  IN /\ Sampled(i) /\ Guards[i].service \in up /\ Settled(i)
     /\ Systemctl(action, Guards[i].service)
     /\ guard' = [guard EXCEPT ![i] =
          [phase |-> "Idle", below |-> NotBelow, history |-> HistoryAfter(i),
           mode |-> IF action = "stop" THEN "Stopped" ELSE @.mode]]
     /\ fired' = [fired EXCEPT ![i] = @ \cup {0}]
     /\ quiet' = [quiet EXCEPT ![i] = -1]
     /\ gi' = gi + 1
     /\ PollEnds

PollDone ==
  /\ pc = "gpu" /\ gi \notin GuardIds
  /\ pc' = "sleep" /\ gi' = 1
  /\ UNCHANGED <<starts, stops, game, todo, got, memVars, term, chain, up, faults, pastVars,
                 spoiled, lost>>

Older(age, cap) == IF age = NotBelow \/ age >= cap THEN age ELSE age + 1

Sleep ==
  /\ pc = "sleep"
  /\ pc' = "scan"
  /\ guard' = [i \in GuardIds |->
       [guard[i] EXCEPT
         !.below = Older(@, Guards[i].settle),
         !.history = [k \in DOMAIN @ |-> Older(@[k], Guards[i].window + 1)]]]
  /\ quiet' = [i \in GuardIds |-> Older(quiet[i], Guards[i].settle)]
  /\ fired' = [i \in GuardIds |-> {a \in 1..Guards[i].window : a - 1 \in fired[i]}]
  /\ UNCHANGED <<starts, stops, game, todo, got, gi, current, pending, active, term, chain,
                 up, faults, missed, spoiled, lost>>

----------------------------------------------------------------------------
(* Ending: SIGTERM and Engine::shutdown, or a kill *)

(* What a process that ends forgets.                                       *)
Forget ==
  /\ pc' = "off" /\ starts' = {} /\ stops' = {} /\ game' = NoGame
  /\ todo' = <<>> /\ got' = <<>> /\ gi' = 1
  /\ current' = {} /\ pending' = [g \in Games |-> 0] /\ active' = <<>>
  /\ guard' = [i \in GuardIds |-> FreshGuard]
  /\ term' = FALSE
  /\ missed' = [g \in Games |-> STOP_DEBOUNCE_TICKS]
  /\ quiet' = [i \in GuardIds |-> -1] /\ fired' = [i \in GuardIds |-> {}]

Signal ==
  /\ pc \notin {"off", "clean", "drain", "undo", "halt"} /\ ~term
  /\ term' = TRUE
  /\ UNCHANGED <<posVars, memVars, chain, up, faults, pastVars, spoiled, lost>>

Shutdown ==
  /\ pc = "scan" /\ term
  /\ pc' = "drain"
  /\ UNCHANGED <<starts, stops, game, todo, got, gi, memVars, term, chain, up, faults,
                 pastVars, spoiled, lost>>

Drain(g) ==
  /\ pc = "drain" /\ g \in DOMAIN active
  /\ EndSession(g)
  /\ pc' = "undo"
  /\ UNCHANGED <<starts, stops, got, gi, current, pending, guard, term, chain, up, faults,
                 pastVars, spoiled, lost>>

Drained ==
  /\ pc = "drain" /\ DOMAIN active = {}
  /\ pc' = "halt" /\ gi' = 1
  /\ UNCHANGED <<starts, stops, game, todo, got, memVars, term, chain, up, faults, pastVars,
                 spoiled, lost>>

(* Services stopped by a guard are started again.                          *)
(* Variant: if a game of the escalation runs, asked after the sessions     *)
(* have been drained.                                                      *)
MustStartWithGame(i) ==
  guard[i].mode = "Stopped" /\ Guards[i].applies \cap DOMAIN active # {}
MustStart(i) == guard[i].mode = "Stopped"

Halt ==
  /\ pc = "halt" /\ gi \in GuardIds
  /\ gi' = gi + 1
  /\ \/ /\ MustStart(gi)
        /\ Systemctl("start", Guards[gi].service)
        /\ guard' = [guard EXCEPT ![gi].mode = "Normal"]
     \/ /\ ~MustStart(gi)
        /\ NoSystemctl /\ UNCHANGED guard
  /\ UNCHANGED <<pc, starts, stops, game, todo, got, current, pending, active, term, chain,
                 pastVars, spoiled>>

Exit ==
  /\ pc = "halt" /\ gi \notin GuardIds
  /\ Forget
  /\ UNCHANGED <<chain, up, faults, spoiled, lost>>

(* SIGKILL, a panic, a power cut: nothing is undone.                       *)
Kill ==
  /\ pc # "off" /\ Fault
  /\ Forget
  /\ spoiled' = spoiled \cup {OwnerOf(r) : r \in ToSet(chain)}
  /\ lost' = lost \cup (Services \ up)
  /\ UNCHANGED <<chain, up>>

(* The firewall is reloaded by a system activation: NixOS flushes nixos-fw. *)
Flush ==
  /\ chain # <<>> /\ Fault
  /\ chain' = <<>>
  /\ spoiled' = spoiled \cup {OwnerOf(r) : r \in ToSet(chain)}
  /\ UNCHANGED <<posVars, memVars, term, up, pastVars, lost>>

----------------------------------------------------------------------------

Loop ==
  \/ CleanRule \/ Cleaned
  \/ Scan
  \/ (\E g \in Games : NextStart(g)) \/ Apply \/ Applied \/ Preempt \/ SessionStarted \/ Started
  \/ (\E g \in Games : NextStop(g)) \/ Revert \/ Reverted \/ Restore \/ SessionEnded \/ Stopped
  \/ \E i \in GuardIds : \/ PollUncovered(i) \/ PollStopped(i) \/ PollNoPid(i) \/ PollFails(i)
                         \/ PollHigh(i) \/ PollLow(i) \/ Fire(i)
  \/ PollDone \/ Sleep
  \/ Shutdown \/ (\E g \in Games : Drain(g)) \/ Drained \/ Halt \/ Exit

Next == Loop \/ StartUp \/ Signal \/ Kill \/ Flush

Spec == Init /\ [][Next]_vars

(* A process that runs goes on, as long as its commands return; whether it *)
(* is started again or not.                                                *)
FairSpec == Spec /\ WF_vars(Loop)

----------------------------------------------------------------------------
(* Properties *)

GuardState == [phase : {"Idle", "Active"}, below : Int, history : Seq(Nat),
               mode : {"Normal", "Stopped"}]

(* Every variable has its type; what is pending was missed less often than *)
(* the debounce takes, and ages stop where the code stops telling them     *)
(* apart.                                                                  *)
TypeOK ==
  /\ pc \in {"off", "clean", "scan", "start", "apply", "preempt", "stop", "revert", "restore",
            "gpu", "sleep", "drain", "undo", "halt"}
  /\ starts \subseteq Games /\ stops \subseteq Games /\ game \in Games \cup {NoGame}
  /\ todo \in Seq(Rules) /\ got \in Seq(Rules) /\ gi \in 1..Len(Guards) + 1
  /\ current \subseteq Games /\ pending \in [Games -> 0..STOP_DEBOUNCE_TICKS - 1]
  /\ DOMAIN active \subseteq Games /\ active \in [DOMAIN active -> Seq(Rules)]
  /\ guard \in [GuardIds -> GuardState]
  /\ \A i \in GuardIds :
       /\ guard[i].below \in NotBelow..Guards[i].settle
       /\ \A k \in DOMAIN guard[i].history : guard[i].history[k] <= Guards[i].window + 1
       /\ quiet[i] \in -1..Guards[i].settle /\ fired[i] \subseteq 0..Guards[i].window
  /\ term \in BOOLEAN /\ chain \in Seq(Rules) /\ up \subseteq Services
  /\ faults \in 0..MaxFaults
  /\ missed \in [Games -> 0..STOP_DEBOUNCE_TICKS]
  /\ spoiled \subseteq Games /\ lost \subseteq Services

Copies(r, rules) == Cardinality({k \in DOMAIN rules : rules[k] = r})

(* What is to be open for a game: all its rules while it has a session,    *)
(* none without one; while a handler is at work on it, those that it has   *)
(* inserted so far or has still to delete.                                 *)
ToBeOpen(g) ==
  IF g \in DOMAIN active THEN RulesOf[g]
  ELSE IF g # game THEN <<>>
  ELSE IF pc \in {"revert", "undo"} THEN todo ELSE got

(* Every rule of a game is in the firewall, once, as long as the daemon    *)
(* holds a session for the game, and no longer: the start of the session   *)
(* has inserted all of them and its end deletes all of them, but for games *)
(* some command failed for since the last clean-up.  No rule outlives a    *)
(* clean exit.                                                             *)
RulesMatchSessions ==
  \A g \in Games \ spoiled : \A r \in ToSet(RulesOf[g]) :
    Copies(r, chain) = Copies(r, ToBeOpen(g))

(* The engine and the detector agree on which games run, whatever started  *)
(* and stopped in the same turn, however commands fail: a session is what  *)
(* the detector has, less what is still to start, and what is to stop.     *)
SessionsFollowDetector ==
  pc \notin {"drain", "undo", "halt"} =>
    LET starting == IF pc \in {"apply", "preempt"} THEN {game} ELSE {}
    IN DOMAIN active = (current \ (starts \cup starting)) \cup stops

(* A game missed by one scan and back in the next keeps its ports: a       *)
(* session ends only after two scans in a row, or with the daemon.         *)
BlinkIsNoStop ==
  [][\A g \in DOMAIN active \ DOMAIN active' :
       \/ missed[g] >= STOP_DEBOUNCE_TICKS
       \/ pc \in {"drain", "off"} \/ pc' = "off"]_vars

(* A service is kept down only while a game of the escalation runs; what   *)
(* the loop is about to restore is excepted.                               *)
StoppedHasGame ==
  \A i \in GuardIds :
    /\ Guards[i].action = "restart" /\ guard[i].mode = "Stopped"
    /\ pc \notin {"drain", "undo", "halt"}
    /\ ~(pc \in {"revert", "restore"} /\ game \in Guards[i].applies)
    => Guards[i].applies \cap DOMAIN active # {}

(* Escalation needs more than when_triggers_exceed fires within the last   *)
(* within_seconds, all of them since the service was last given back.      *)
EscalationEarned ==
  [][\A i \in GuardIds :
       (Guards[i].action = "restart" /\ guard[i].mode = "Normal" /\ guard'[i].mode = "Stopped")
         => Cardinality(fired'[i]) > Guards[i].exceed]_vars

(* A guard acts only after a spike of its own that was followed by         *)
(* settle_seconds without another: a spike in the middle starts them anew. *)
QuietBeforeFire ==
  [][\A i \in GuardIds :
       (pc = "gpu" /\ 0 \in fired'[i] \ fired[i]) => quiet[i] >= Guards[i].settle]_vars

(* A service is down exactly when its guard holds it down, unless a        *)
(* command or the daemon itself failed: a clean exit gives it back.        *)
DownIsHeld ==
  \A i \in GuardIds : Guards[i].service \notin lost =>
    (Guards[i].service \notin up <=> guard[i].mode = "Stopped")

(* A service that is stopped stays so while a game of the escalation runs: *)
(* another game's start or end does not bring it back.                     *)
StaysDown ==
  [][\A i \in GuardIds :
       (guard[i].mode = "Stopped" /\ Guards[i].service \in up' \ up /\ pc # "halt")
         => (Guards[i].service \in lost' \/ Guards[i].applies \cap DOMAIN active = {})]_vars

(* A service an escalation stopped runs again some time after its games    *)
(* have gone, unless a failure or a kill came between.                     *)
ServiceReturns ==
  \A i \in GuardIds :
    (Guards[i].service \notin up)
      ~> \/ Guards[i].service \in up \cup lost
         \/ \E g \in Guards[i].applies : missed[g] = 0
============================================================================
