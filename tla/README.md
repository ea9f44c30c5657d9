# A verification project for machine-config

The repository is a NixOS configuration and the tools written for it.  The
configuration is declarative; the behaviour is in `tools/`, and most of it in
`tools/nix-build-balancer` (nbb), a distributed build scheduler: four programs on
several hosts that share files, sockets, a database and processes that may be
killed at any point.  This project models nbb first and the other tools after it.

## Inventory

| Component | State | Operations | Interacts through | Hard about it |
|---|---|---|---|---|
| nbb hook (`hook/`) | one process per Nix build slot: the candidate on hand, the guard's `emitted`, threads that still copy a child's stderr | read a `try`, ask, write sentinel, delegate to `nix __build-remote`, relay its log and directive, report, unlink | Nix's pipes; the child's pipes; the controller's unix socket; sentinel files | killed anywhere; every try needs exactly one directive, in a stream that children write to as well; reports are fire-and-forget |
| inflight sentinels (`inflight.rs`) | `/run/nbb/inflight/<hash>` and `<hash>.tmp` | create, write, rename, read, unlink by path | written by hooks, read and unlinked by the watchdog | two writers of one directory without a lock |
| controller, decisions (`controller/mod.rs`, `scheduler.rs`) | admissions table, last pong and telemetry of each target | `make_decision`, `decide` | one task per hook connection | read under a lock, used after it |
| controller, watchdog | position in the sweep | sentinel sweep, TTL sweep | files, table | entries read and acted on later; an error ends the tick |
| controller, target pollers | one session per agent | ping, telemetry, receive events | TCP | reconnects; reads cancelled by `select!` |
| agent (`agent/mod.rs`) | starts in memory, one shared writer | spool watcher tick, connection handlers | spool directory, TCP | the writer belongs to whoever stored it last; crash between write and unlink |
| event submitter (`nbb_event.rs`, `spool.rs`) | spool files | one start or finish per call | Nix's pre/post-build-hooks | may fail silently; finishes of successes only |
| observations (`observations.rs`) | `build_observations` | insert or ignore, prune, predict | controller only | duplicates and late arrivals against a prune |
| duration estimator, wire protocol, telemetry | none, or the bytes of a stream | pure functions, framing | | floating point; cancelled reads |
| game-watcher | active games, debounce counters, firewall rules, guard phases and modes | one loop: detect, start/stop games, poll GPU | iptables, systemctl, NVML | partial failures, escalation, being killed |
| nix-deploy | machines deployed so far; each machine's profile, boot menu, running system, boot | order, build, diff, ask, copy, set the profile, activate, reboot and wait | ssh, systemd, the user | aborts half-way and runs repeated; which boot has answered; what a failed lookup means |
| nix-deploy's build display (`log_model.rs`, `ui.rs`) | counters | one log line | nix's internal-json | only the screen reads it |
| aniwatch | `state.json`: copies by age, files that were there before; two services that may overlap | init, sync, clean | two directories that a user and a downloader share | the file is loaded first and saved last, truncated in between; copies take time |
| victron-monitor | metric registry | one datagram | UDP, Prometheus | first datagram fixes the labels |
| magic-reboot | key and netfilter hook of a kernel module | init, packet, exit | UDP | order of set-up and tear-down |
| irc-tool, rolebot | a channel; none | forward events | IRC, Discord | third-party clients |
| NixOS configuration, kwin-bug | none | none | | not programs |

What makes the parts correct.  nbb: every admission is retired and none too early;
the answer to Nix always comes, once; sentinels stand for live builds or dead hooks
and nothing else; observations are the true durations of the newest builds; a finish
gets from the spool to the controller; the chosen target is the best there is, or
nearly.  game-watcher: rules, sessions and services follow the games.  nix-deploy: a
run that ends well leaves no machine behind, a run that does not goes no further, and
what needs a reboot is never switched to unasked.  aniwatch: every copy is known until
it is deleted, and none comes back that the user has removed.

## Plan

The order was that of importance: the admissions and their sentinels
(`HookLifecycle`, with `AdmissionLedger` as its abstract specification), the way of a
finish (`AgentSpool`), the decision (`Scheduler`, `SchedulerTable`, `Routing`), then
`GameWatcher`, `HookDirective`, `NixDeploy` and `Aniwatch`, each with the proofs that
are within reach.  All of these are written.

Dropped from an earlier plan: `FrameLink` (a cancelled read is one action of
`AgentSpool`, `TearsFrame`); `TargetPoller` (what a poller leaves behind is free in
`Routing`, and no document promises more of it); `VictronMetrics` and `MagicReboot`
(sequential set-up and a fold over packets: nothing a model checker finds that a
reader does not see).

Open: instances with two derivations for `live`.

`HookLifecycle` leaves open which decision is taken; `Routing` leaves open when an
admission is retired; `AgentSpool` ends where `HookLifecycle`'s `RecordFinish`
begins; `HookDirective` refines what `HookLifecycle` calls the answer.  They meet in
the admissions table and in the hook's `pc` and are composed by these nondeterministic
seams rather than by a product.

## Modules and the code

**`HookLifecycle`** – hooks, sentinels, admissions and the watchdog.  `hook[h]` is a
process and its position in `handle_candidate`; `decide[h]` is its DECIDE_CANDIDATE
connection, from the frame sent to the answer read; `finishes` and `events` are the
ADMISSION_FINISH and EVENT_BUILD_FINISH frames under way, sets because each is
handled by a task of its own; `admissions` is the table, a row per derivation;
`sentinels` and `tmps` the two names `write_sentinel` uses; `wdPc`, `wdTodo`, `wdCur`
the watchdog's place in `sweep_sentinels`.  `write_sentinel` is three actions because
another process sees the empty file, the full file and the rename; the sweep of one
entry is up to three (read, retire under the lock, unlink by path) because hooks
run in between.  `DeclineToNix` stands for the directive and for Nix building
locally; Nix's output lock keeps two hooks off one derivation until a hook dies
(`Locked`).  A child that has accepted is there for two more steps, because the target
reports its build while the outputs are still being copied back (`RemoteBuildSucceeds`,
`copying`, `ChildExits`).  What the sweep cannot open or read it takes for corrupt, an
intact sentinel too, and its `remove_file` may fail.  Ages count in ticks and stop past
the last TTL.  `try`, `by` and `misread` (whose intact sentinel the sweep failed to read)
are history: no guard reads them.

**`AdmissionLedger`** – what the table promises, without processes: an entry per
derivation at most, with the time it has `left`; it is admitted with one of
`Lifetimes`, grows older, is retired alone or with others, and stays overdue never for
ever (`NoneStaysOverdue`).  `ImplementsLedger` is the refinement with
`left <- TimesLeft`, the TTL of `stale_drvs` less the row's age;
`OverdueRowsGo` is the promise under that mapping.

**`AgentSpool`** – one host's events.  `spool` is the set of `.evt` files; `pending`
the agent's starts; `writer` the connection stored in `AgentState`; `wPc`, `wTodo`,
`wOut` the tick's place (listing, writing, unlinking); `conn` the connections with
both ends' state and the frames between them; `obs` the observations.  A connection's
two ends close separately: the controller replaces a session as soon as its own end
is closed, the agent's handler ends when it notices.  `TearsFrame` is the poller's
`select!` that drops `read_frame_async` in the middle of a frame: the rest is read as
a length, and what was under way is lost with the session.  `record_finish` inserts and
prunes in two statements that commit one by one; an error or a crash may end it before,
between or after them (`HandleFails`, `RecordWithoutPrune`).  `recorded` (rows ever
inserted) and `unpruned` (rows in the table since a prune that did not go through) are
history.  Time is the count of events.

**`Scheduler`** – `decide`, `is_live`, `scaled_package_ms` and the queue arithmetic as
operators on words of `Word` values: the sum wraps as the release build's does, the
addition saturates, a column read back clamps what was negative.
**`SchedulerTable`** runs them over a table of inputs (`TableSpec`), against definitions
with unbounded numbers and no evaluation order.

**`Routing`** – `make_decision` in its steps: list under the lock, choose without it,
record under it, for several hooks at once, while rows are retired and targets come
and go.  `added` and `gone` are history for the regret bound.  `SumsFit` assumes what the
code takes for granted: the predictions of a full table add up to less than 2^64 ms.

**`GameWatcher`** – game-watcher as one loop, whose place is `pc`, with a step for
every command: each `iptables -I` and `-D` (`chain` is what nixos-fw holds of ours),
each `systemctl` (`up`), each guard's poll.  `current` and `pending` are `ActiveGames`,
`active` and `guard` the engine's.  A scan finds any set of games, which stands for
games that come and go and for a `/proc` that cannot be read.  A turn of the loop is
the unit of time; ages stop at the settle time and just past the window.  A failed
command, a kill and a flush of the chain each cost a fault.  What the daemon cannot
know after one of them is recorded in `spoiled` (games whose rules may differ) and
`lost` (services whose state nobody answers for), and the properties hold of the rest.
What is to be open (`ToBeOpen`) is read off the configuration, `RulesOf[g]` for a session
of `g`, and not off what the daemon remembers having inserted.

**`HookDirective`** – one hook between Nix and its children.  `pc` is the place in
`run_hook` and `delegate_remote_build`; `emitted` is the guard's; `pipe` the lines on the
hook's stderr that Nix has not read, `open` that the last of them has no end yet;
`drains` the threads of `spawn_stderr_drain`, which outlive their try; `nix` and `stdin`
the other end.  `Answers` counts the directives under way and the one still owed.
`glued` is history.  A panic of `eprint!`, once Nix has closed its end, is a step.

**`NixDeploy`** – runs of nix-deploy over machines that go down, boot and fall back by
themselves.  `plan` and `at` are the sorted selection and the loop over it; each
command is a step, which may fail, or find the machine gone; `host[m]` is what the
commands leave on a machine (`profile`, the boot menu's `next`, `running`, `booted`).
`built` is what `match_paths` makes of the build's output, `flake` what the flake
held.  `readlink -f` of a link that is not there is the path itself, so `Dest` is
total; `Absent` is a lookup that failed, of the old system's link on the machine or of
the new one's on this host, whichever machine it is; two that fail look the same.
`now.blind` is history: the links that neither lookup of an assessment has named.

**`Aniwatch`** – `sync` and `clean` as processes with the state they have loaded.
`file` is `state.json`: absent, torn or holding a state; both truncate before they
write.  `dest[f]` tells a copy from a file that aniwatch did not make.  `wait` is the
two-second look at a file that may still grow.  `removed`, `spoiled` and `broken` are
history: copies the user has deleted, names whose entry a failed or overlapped sync may
have lost, and whether the last save went wrong.  `Accounts` are the states that answer
for the copies: the one in the file, and those of runs that have truncated the file and
are about to write.

Names that differ from the code's: a `try` is a candidate put to the controller; the
variants above a definition, marked "Variant", are what a plausible mistake would
make of it and are used by no specification.

## Runs

| Run | Question | Bounds |
|---|---|---|
| `one` | are sentinels never forgotten, first tries never disturbed, and is the table a ledger? | 1 derivation, 2 hooks, 3 tries, 1 fault, prediction 0, TTL floor 1 |
| `live` | does every overdue row go, is every try answered, are dead hooks' sentinels swept? | 1 derivation, 2 hooks, 2 tries, 1 fault, prediction 0 |
| `spool` | are durations exact, the newest rows kept, finishes never lost by the agent? does the spool drain? | 3 builds, 2 connections, 1 lost event, 1 crash, 1 break, failed statement or torn frame, `max_samples` 1 |
| `table` | is the decision the first of the cheapest live targets? | 2 targets of 28 kinds, 2 rows of 8, words of 4 bits |
| `regret` | how wrong can a stale decision be? | 3 derivations, 2 hooks, 4 decisions |
| `games` | do rules, sessions and services follow the games, and does a stopped service come back? | 2 games, 2 rules, the deployed guard with settle 2, window 5, exceed 1; 2 faults |
| `deploy` | machine by machine, no silent switch across a kernel, the right verdict, an end? | a remote and a local machine, 2 runs, 1 fault, 2 boots, a timeout of 2 probes |
| `directive` | one directive for each try, and lists only after an accept? | 3 tries, 4 pieces of log |
| `aniwatch` | are copies tracked, removed ones gone, expired ones deleted? | 2 files, 1 fault, 1 passing of two weeks |
| `authority`, `stall`, `ragged` | does the code do what its documents say? (it does not; see below) | the smallest that show it |

Why these bounds: derivations do not share files, rows or locks, so one derivation
shows what hooks, watchdog and frames do to each other, and a second hook with a
second and third try is what a leftover of an earlier try needs.  One fault is one
controller crash or one failed call, between any two steps; one prediction is enough
there, since a row's lifetime is all that a decision tells the rest of the module.  In
the spool, a retry pairs with the wrong start only in the presence of a following
build of the same derivation, and three finishes under a cap of one let a prune fail
and the next one repair it.  The table has every boundary of every input: a pong three
polls old and one older, no memory, no capacity, multipliers 0, 1/2 and 1, loads that
saturate.

The guard's window of `games` has room for two fires at the least distance (a spike,
a quiet poll, a fire) and none to spare for a third, and its faults allow a kill after
a failed command, or a failure of both an insertion and a deletion.

In `deploy` the flake's states give the remote machine two systems that share a kernel
and one that does not, and the local machine one whose only difference is a matched
package; the first run can leave anything behind for the second, whose selection and
mode are its own.  In `directive` a first try can leave a drain thread and a line
without end to the second, and the third comes after a try that was answered so.  In
`aniwatch` a second file is what a failing pass has copied before, and one expiry
during which both services may overlap is what an overwritten entry takes.

Fairness: the watchdog's ticker never stops and tokio runs every ready task
(`WatchdogNext`, `MakeDecision`); systemd restarts the controller and the agent
(`Restart=on-failure`); a hook that is not killed goes on with what it has to do
(`HookProgress`, which leaves out the end of a build); the poller dials for ever.
game-watcher's loop goes on while the process lives,
which takes commands that return; nothing assumes that it is started again.
nix-deploy goes on with its commands, and a user who is asked answers; a machine that
goes down does so and a boot that has begun gets to its end (`Started`), but nothing
makes a machine boot.  aniwatch's sync runs on; `clean` is strongly fair because its
timer starts it every day and meets, now and then, a file that is not being written.
Nothing assumes that a build ends, that a hook survives, that a frame arrives or a
connection lasts, or that time passes.  `CHECK_DEADLOCK` is off, but for `games`, since
the bounds on tries, builds, runs and decisions end every behaviour.

### Where the code departs from its documents

* `authority` – an admission can be retired by a leftover of an earlier try of the
  same derivation, because rows, frames and sweeps know only the derivation.
* `stall` – a dying connection handler clears its successor's writer; from then on
  the agent has a live connection and pushes nothing.
* `ragged` – guard.rs:3-6 promises one directive for each try; a child that breaks off
  in the middle of a line leaves the directive at the end of that line, where Nix
  takes it for a piece of the log and waits.

Met while modelling, and visible in the modules, without a run of their own:

* The sweep unlinks a `.tmp` that a live hook is about to rename
  (controller/mod.rs:446-448 against inflight.rs:38-40); the rename fails, and the
  admission of a build that was never sent remains until its TTL.
* The same lines unlink an intact sentinel that could not be opened or read just then
  (too many open files, an I/O error) and retire nothing: the hook, alive or dead, is
  from then on invisible to the sweep.  `FirstTryIsGuarded` and `FirstCrashSwept` except
  it (`misread`).
* The target reports a build before its outputs are back: EVENT_BUILD_FINISH retires the
  admission (controller/mod.rs:253) while the hook still copies (delegate.rs:119-170).
  `FirstTryKeepsAdmission` excepts a build's own finish (`OwnFinishHandled`).
* Insert and prune of an observation are two commits (observations.rs:26-55).  After a
  failure between them a row too many stays until the next insert.
* A successful write to the socket is taken for delivery (agent/mod.rs:15-18).
* A finish that has to be sent again has lost its start, and so its duration
  (agent/mod.rs:89).
* nix-deploy compares with what runs.  After a boot-only deployment, or an activation
  that failed half-way, a run of the flake reverted to the running system says
  "already up to date" and "all machines deployed" (main.rs:80, 121) and leaves the
  other system in the boot menu.
* A link of which neither side could be resolved counts as unchanged (diff.rs:66-79), so
  that two failed lookups hide a new kernel and the switch happens without a question;
  `SilentSwitchIsSafe` speaks of the other links (`blind`).
* aniwatch's clean takes a copy and its entry; if the source is still in Anime, the
  next sync copies it again for two more weeks (aniwatch.nix:9 has the file gone by
  then).  A save that fails, or a crash between truncation and write, leaves
  `state.json` torn until somebody deletes it, and with it go the entries of all
  copies there are, not only those of that run (`broken`).  A file put under a name
  during the two seconds of the quiescence check is overwritten.  The entry of a copy
  deleted by hand stays for ever.  Copies made by a pass that fails, or that overlaps
  with clean, are nobody's from then on.
* SPEC.md:204 picks "the target with the smallest completion_ms"; concurrent decisions
  use one snapshot, and what was the smallest may not be so when its row is recorded
  (controller/mod.rs:335-341, 374-381).  `regret` bounds the harm.
* game-watcher's start-up recovers the firewall "from unclean shutdowns" but not the
  services: one that a guard had stopped stays down if the daemon is killed, until a
  covered game starts.  `ServiceReturns` excepts it (`lost`).
* A hook that dies in the middle of a second try of a derivation may be missed by
  the sweep too (a third hook's sentinel may have taken the path), and waits for
  the TTL; `FirstCrashSwept` is therefore about first tries.
* SPEC.md:205-207 has a plain decline for the controller's own host; the code
  records an admission for it as well, as its comment and tests want it.

## Proofs

Everything below is for all constants that satisfy the assumptions of the module it is
about, so for any number of derivations, hooks, files, games, tries and faults.

`HookLifecycle_proofs` (`NothingAssumption`, `PredictionsAssumption`,
`TtlFloorAssumption`, `BoundsAssumption`):

* `TypeCorrect == Spec => []TypeOK`;
* `SentinelsAreNeverForgotten == Spec => []NoForgottenSentinel`;
* `TableIsLedger == Spec => ImplementsLedger`.

The second is not inductive by itself.  That the hook which renames a `.tmp` renames
its own needs `StagedTmpIsOwn`: what a hook in the middle of `write_sentinel` finds
under the name is its own file, or nothing.  That in turn needs `LockExcludes`: two
hooks never hold the same derivation's output lock, which is what keeps a second
writer away until the first has died.  `SentinelInv` is the conjunction of the three
and `Typed`; `TypeInduction` and `SentinelInduction` show each action keeps it.  The
third needs to know that a row has the prediction of a decision (`RowsAreDecisions`),
so that its time left is one of the ledger's `Lifetimes`.

and, in its second half,

* `FirstTriesAreGuarded == Spec => []FirstTryIsGuarded`, but for sentinels that the sweep
  failed to read;
* `FirstTriesStayAdmitted == Spec => FirstTryKeepsAdmission`: only the end of the
  controller, the TTL and the build's own finish take the row.

Before a derivation's first try there is no trace of it anywhere (`NoTraceBefore`).
During it every trace is the asker's and is left in the order of its program
(`Settled`): there is a finish only when the hook is closing, a watchdog entry only
when there was a sentinel, and the watchdog has judged the entry's owner dead only if
it is.  `SentinelsAreFull` and `RequestsAreAsked` say that only complete files are
renamed and only waiting or dead hooks have a request under way.

`HookDirective_proofs` (`DirectiveAssumption`):

* `EveryTryHasItsAnswer == Spec => []OneAnswerPerTry`;
* `ListsNeedAnAccept == Spec => []ListsGoWithAccept`.

`DirectiveInv` speaks of the set of directives on their way instead of their number:
while Nix asks there is at most one, and one is owed, on its way or lost (`WhileAsked`);
while it does not there is none (`WhileNotAsked`); while one is owed there is none
either (`OwedOnce`); only an accept leads to the lists (`Accepted`).

`AgentSpool_proofs` (`SpoolAssumption`, which only says that the bounds are numbers):

* `DurationsAreTrue == Spec => []DurationIsExact`;
* `TableKeepsNewest == Spec => []ObservationsAreNewest`;
* `CrashesLoseNothing == Spec => []LostByBreaksOnly`;
* `WritersAreServed == Spec => []WriterIsServed`;
* `AgentIsTyped == Spec => []TypeOK`, and `SpoolIsSound`, the invariant they rest on.

That a finish meets its own start is a matter of order.  Two builds of a derivation
follow each other (`HistoryInv`); the watcher takes files oldest first, and what has
come since a listing is younger than what is still on it (`FilesInv`); so a start in
memory is the newest one taken of its derivation (`PendingInv`), and a finish, a frame
and a row have the times of their own build or none (`EventsInv`, `RowsInv`).  That
the table has the newest of all rows ever inserted (`TableIsFull`, `PruneIsExact`)
needs nothing of where rows come from: a row that was pruned once had enough newer
ones, and those are in the table or were pruned by newer ones still.  Its other
rows are those in `unpruned`, which no prune has followed yet, and those that such a
prune would have taken.  `BreakInv` says what a session without a break owes: its two ends close in
order, and what is written arrives.  `WriterIsServed` is inductive with the types: a
handler clears the writer when it ends, its own or another's, and a failed write
clears it too.

`GameWatcher_proofs` (`ConfigAssumption`: rules belong to one game, services to one
guard):

* `SessionsNeverDrift == Spec => []SessionsFollowDetector`;
* `DownIffHeld == Spec => []DownIsHeld`;
* `OnlyGamesKeepDown == Spec => []StoppedHasGame`, of guards that restart and have
  escalated (one whose own action is to stop holds its service until the shutdown);
* `BlinksAreForgiven == Spec => BlinkIsNoStop`, `NothingElseStarts == Spec => StaysDown`,
  `SettledFires == Spec => QuietBeforeFire` and
  `FiresAddUp == Spec => EscalationEarned`, action properties.

The first needs to know who the games still to be handled are: what is to start is
on the detector's list, what is to stop is off it, and neither list outlives its part
of the loop (`SessionInv`).  `BlinkIsNoStop` needs the detector's count never to be
ahead of the scans (`DebounceInv`).  The services need the place of the loop: at its end
the daemon gives them back guard by guard, so those before `gi` hold nothing any more
(`ServicesOK`), and at the end of a session those that restart on it have been restored
so far (`EscalationInv`).  The guards' own memory has to be in order (`GuardsOK`):
fires in the history are distinct and ever younger, and each is one of those that
really happened until it is too old to count, so that the history's length is a count.
The quiet time before a fire may span two sessions: when one covered game takes over
from another in the same turn the guard goes on as it was, in the code as in the model.

and, in its second half,

* `PortsFollowSessions == Spec => []RulesMatchSessions`;
* `DaemonIsTyped == Spec => []TypeOK`.

A handler that is stopped half-way leaves some of a game's rules in the chain and
others not, and a flush may take any, so `RulesInv` counts the copies of each rule: in
the chain, in the sessions and in the hands of the handler, whose game has no session
(`Remembered`).  `AllInserted` adds that a session remembers all the rules of its game:
what a handler has inserted and what it has still to insert are, in order, all of them.

`Scheduler_proofs` (`WordAssumption`, `TableAssumption`, and `TableTypes`: capacities,
speeds and estimates are not negative, a speed has a denominator):

* `FirstCheapest == TableSpec => []FirstCheapestWins`;
* `LosersDoNotMatter == TableSpec => []LoadOfLosersIsIrrelevant`;
* `EveryAdmissionWeighs == TableSpec => []AdmissionWeighs`.

The loop over the targets is a recursive function.  `LoopIsRight` shows, by the
smallest turn that would be wrong, that after each turn it has the first of the
cheapest so far (`FirstIn`, which one target satisfies at most); `LoopExists` that
there is such a function at all.  The sums over rows are `MapThenSumSet`, which takes
members in an order of its own: `SubsetInduction` is the induction on finite sets,
stated with a set instead of a predicate, and from it come `TakeOut` (any row may be
counted first), `TotalAgrees` and `TotalIsBounded`.  `RoundedIs` and `CompletionIs`
connect the code's arithmetic to the reference's.

`Routing_proofs` (`RoutingAssumption`; `SumsFit`, without which a sum wraps and a full
queue looks empty):

* `RegretIsBounded == Spec => StalenessBoundsRegret`, an action property;
* `RoutingIsTyped == Spec => []TypeOK`.

The invariant keeps books for each task under way: the load it has read plus what has come
since is the load there is now plus what has gone (`Balanced`), whoever sets or retires
rows (`RowIsSet`, `LoadMoves`); and its decision is that of `decide` on what it read
(`Decided`).  The bound follows from the decision being the best on the old loads, from
`CompletionGrows`, and from `SlotsBound`: load costs at most the slots it takes, although
the division rounds down and the sum saturates.

`NixDeploy_proofs` (`MachineAssumption`, `BoundsAssumption`; `LocalAssumption`, that the
tool runs on one machine; `NeedleAssumption`, that a store name with a machine's needle
is not another's alone; `AbsentAssumption`, that `readlink -f` of a link that is not
there is not the same as no answer):

* `NoMachineIsLeftBehind == Spec => []MachineByMachine`;
* `NothingIsSwitchedUnasked == Spec => []SilentSwitchIsSafe`;
* `VerdictIsOnNewBoot == Spec => RebootVerdict`, an action property;
* `DeployIsTyped == Spec => []TypeOK`.

The plan is in deploy order without repetition and local machines come last
(`PlanInv`, from `OrderedIsPlan`), each machine's path is its own (`BuiltInv`, from
`MatchedPath`), and only the machine at hand is touched besides those before it
(`ProgressInv`).  What was assessed is what still runs, and without a question the
two closures are the same wherever a lookup has answered (`SilentInv`, from `NoReasons`,
for any sets of lookups that fail).  During a
reboot another boot id is that of a later boot, and a machine that has booted since
runs what it was booted into (`BootInv`).  All of it has to survive outages, fallbacks
and reboots between any two commands.

`Aniwatch_proofs` (`AniwatchAssumption`):

* `CopiesNeverLost == Spec => []CopiesAreTracked`;
* `RemovedForGood == Spec => RemovedStaysRemoved`, an action property.

What the file says today is overwritten by whoever has loaded it, so the invariant
(`BookInv`) asks of each of the three – the file, the state that sync holds, the state
that clean would write – that it answers for every copy and for every removed one
(`FileAnswers`, `SyncAnswers`, `CleanAnswers`), up to what sync has just made.  A file
that holds nothing and that nobody is about to write is the mark of a broken save
(`Writable`).

Model-checked only: everything under fairness (`OverdueRowsGo`, `EveryTryAnswered`,
`DeadSentinelSwept`, `FirstCrashSwept`, `DrainsWhileConnected`, `ServiceReturns`,
`RunEnds`, `ExpiredCopiesGo`), which the prover cannot do.  Every other property of the
passing runs is a theorem.

## Not modelled

* A failure of the unlink at the end of a hook's own try (`SentinelGuard::drop` ignores
  it): the file then stays as that of a hook still alive until the hook exits, and
  `NoForgottenSentinel` presumes that it does not happen.
* Process ids are never reused; the TTL is the code's answer to that.
* Ulids of the same millisecond are ordered at random; in `AgentSpool` events have
  times of their own.
* The network loses or delays whole suffixes of a connection, as TCP does, and never
  single frames; a write that blocks for ever is not modelled.
* A build hook's settings, candidates' features and the protocol's encodings.
* Parsing: `/proc/<pid>/cmdline`, `iptables -S`, the TOML configurations, nix's output;
  refusals of an invalid manifest or of unknown names, after which nothing happens.
* The duration estimator: floating-point moments of logarithms.  The decision takes any
  estimate.
* The backoff of the target pollers, and the answers to pings and telemetry requests.
* `is-system-running`'s `degraded`, which counts as running in `NixDeploy`; a machine
  that never gets from its boot to running, or goes away without closing the connection
  that waits for it: `--wait` has no deadline (activate.rs:85), so such a run hangs, and
  `RunEnds` assumes it away (`Started` is fair, and a command to a machine that is down
  fails).
* The order of `nix build`'s out paths: `match_paths` (build.rs:83-104) takes the
  only path with a machine's name in it, and where there is none or there are several the
  one at the machine's place; that fallback is right only if nix prints the paths in the
  order of the installables, which `MatchPath` takes for granted.
* File names that are not UTF-8, directories below Anime, dry runs and `status` of
  aniwatch; a crash of `aniwatch init`, which runs once by hand.
* Several guards in game-watcher: the deployed configuration has one.
* nix-deploy's build display, victron-monitor, magic-reboot, irc-tool and rolebot, as
  the inventory says; the NixOS configuration and `kwin-bug`, which have no behaviour
  of their own.
