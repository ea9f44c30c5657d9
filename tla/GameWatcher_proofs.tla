------------------------- MODULE GameWatcher_proofs -------------------------
(***************************************************************************)
(* The engine's sessions follow the detector, and its guards hold the      *)
(* services down that they have stopped, for every configuration, any      *)
(* number of games, guards and faults.                                     *)
(*                                                                         *)
(* SessionsFollowDetector speaks of the games still to be handled, so its  *)
(* induction needs to know who they are: a game to start is one the        *)
(* detector has, a game to stop is one it no longer has, and there are     *)
(* none of either once the loop has passed them by.  The second half has   *)
(* the firewall's rules and the types.                                     *)
(***************************************************************************)
EXTENDS GameWatcher, FiniteSetTheorems, SequenceTheorems, TLAPS

(* Nothing is left to start after the starts, or to stop after the stops.  *)
NothingLeftBehind ==
  /\ starts # {} => pc \in {"start", "apply", "preempt"}
  /\ stops # {} => pc \in {"start", "apply", "preempt", "stop", "revert", "restore"}

(* What starts is on the detector's list, what stops is off it.            *)
HandledByDetector ==
  /\ starts \subseteq current
  /\ stops \cap current = {}
  /\ pc \in {"apply", "preempt"} => game \in current \ starts

SessionInv == NothingLeftBehind /\ HandledByDetector /\ SessionsFollowDetector

sessionVars == <<pc, starts, stops, game, current, active>>

----------------------------------------------------------------------------

LEMMA SessionInit == Init => SessionInv
BY DEF Init, SessionInv, NothingLeftBehind, HandledByDetector, SessionsFollowDetector

(* The steps that only work on rules, services, guards and time.           *)
LEMMA Bystanders ==
  ASSUME \/ CleanRule \/ Apply \/ Preempt \/ Revert \/ Restore \/ Halt \/ Signal \/ Flush
         \/ \E i \in GuardIds : \/ PollUncovered(i) \/ PollStopped(i) \/ PollNoPid(i)
                                \/ PollFails(i) \/ PollHigh(i) \/ PollLow(i) \/ Fire(i)
  PROVE  UNCHANGED sessionVars
BY DEF CleanRule, Apply, Preempt, Revert, Restore, Halt, Signal, Flush, PollUncovered,
       PollStopped, PollNoPid, PollFails, PollHigh, PollLow, Fire, PollEnds, sessionVars,
       posVars, memVars

LEMMA UnchangedKeeps == SessionInv /\ UNCHANGED sessionVars => SessionInv'
BY DEF SessionInv, NothingLeftBehind, HandledByDetector, SessionsFollowDetector, sessionVars

(* A process that ends leaves no session and no list of games.             *)
LEMMA ForgetKeeps == Forget => SessionInv'
BY DEF Forget, SessionInv, NothingLeftBehind, HandledByDetector, SessionsFollowDetector

(* The steps from one part of the loop to the next, which handle no game.  *)
LEMMA PassingKeeps ==
  ASSUME SessionInv,
         \/ StartUp \/ Cleaned \/ Applied \/ Started \/ Reverted \/ SessionEnded \/ Stopped
         \/ PollDone \/ Sleep \/ Shutdown \/ Drained
  PROVE  SessionInv'
<1> USE DEF SessionInv, NothingLeftBehind, HandledByDetector, SessionsFollowDetector, posVars,
            memVars
<1>1. CASE StartUp \/ Cleaned
  BY <1>1 DEF StartUp, Cleaned
<1>2. CASE Applied \/ Started
  BY <1>2 DEF Applied, Started
<1>3. CASE Reverted \/ SessionEnded \/ Stopped
  BY <1>3 DEF Reverted, SessionEnded, Stopped
<1>4. CASE PollDone \/ Sleep
  BY <1>4 DEF PollDone, Sleep
<1>5. CASE Shutdown \/ Drained
  BY <1>5 DEF Shutdown, Drained
<1> QED BY <1>1, <1>2, <1>3, <1>4, <1>5

(* One scan: what it finds new, what it has missed too often, and what the *)
(* detector is left with.                                                  *)
LEMMA ScanKeeps == SessionInv /\ Scan => SessionInv'
<1> SUFFICES ASSUME SessionInv, Scan PROVE SessionInv'
  OBVIOUS
<1>1. starts = {} /\ stops = {} /\ DOMAIN active = current
  BY DEF SessionInv, NothingLeftBehind, SessionsFollowDetector, Scan
<1>2. PICK scanned, gone :
        /\ gone \subseteq current \ scanned
        /\ starts' = scanned \ current
        /\ stops' = gone
        /\ current' = (current \cup scanned) \ gone
  BY DEF Scan
<1>3. pc' = "start" /\ active' = active /\ game' = game
  BY DEF Scan
<1> QED
  BY <1>1, <1>2, <1>3 DEF SessionInv, NothingLeftBehind, HandledByDetector,
     SessionsFollowDetector

LEMMA NextStartKeeps ==
  ASSUME SessionInv, NEW g \in Games, NextStart(g)
  PROVE  SessionInv'
BY DEF NextStart, SessionInv, NothingLeftBehind, HandledByDetector, SessionsFollowDetector,
       memVars

LEMMA SessionStartedKeeps == SessionInv /\ SessionStarted => SessionInv'
<1> SUFFICES ASSUME SessionInv, SessionStarted PROVE SessionInv'
  OBVIOUS
<1>1. DOMAIN active' = DOMAIN active \cup {game}
  BY DEF SessionStarted, WithSession
<1> QED
  BY <1>1 DEF SessionStarted, SessionInv, NothingLeftBehind, HandledByDetector,
     SessionsFollowDetector

LEMMA NextStopKeeps ==
  ASSUME SessionInv, NEW g \in Games, NextStop(g)
  PROVE  SessionInv'
<1>1. g \in DOMAIN active
  BY DEF NextStop, SessionInv, NothingLeftBehind, HandledByDetector, SessionsFollowDetector
<1>2. DOMAIN active' = DOMAIN active \ {g}
  BY <1>1 DEF NextStop, EndSession, Restrict
<1> QED
  BY <1>1, <1>2 DEF NextStop, EndSession, SessionInv, NothingLeftBehind, HandledByDetector,
     SessionsFollowDetector

LEMMA DrainKeeps ==
  ASSUME SessionInv, NEW g \in Games, Drain(g)
  PROVE  SessionInv'
BY DEF Drain, SessionInv, NothingLeftBehind, HandledByDetector, SessionsFollowDetector

LEMMA SessionInduction == SessionInv /\ [Next]_vars => SessionInv'
<1> SUFFICES ASSUME SessionInv, [Next]_vars PROVE SessionInv'
  OBVIOUS
<1>1. CASE \/ CleanRule \/ Apply \/ Preempt \/ Revert \/ Restore \/ Halt \/ Signal \/ Flush
           \/ \E i \in GuardIds : \/ PollUncovered(i) \/ PollStopped(i) \/ PollNoPid(i)
                                  \/ PollFails(i) \/ PollHigh(i) \/ PollLow(i) \/ Fire(i)
  BY <1>1, Bystanders, UnchangedKeeps
<1>2. CASE \/ StartUp \/ Cleaned \/ Applied \/ Started \/ Reverted \/ SessionEnded \/ Stopped
           \/ PollDone \/ Sleep \/ Shutdown \/ Drained
  BY <1>2, PassingKeeps
<1>3. CASE Exit \/ Kill
  BY <1>3, ForgetKeeps DEF Exit, Kill
<1>4. CASE Scan
  BY <1>4, ScanKeeps
<1>5. CASE SessionStarted
  BY <1>5, SessionStartedKeeps
<1>6. ASSUME NEW g \in Games, NextStart(g) \/ NextStop(g) \/ Drain(g) PROVE SessionInv'
  BY <1>6, NextStartKeeps, NextStopKeeps, DrainKeeps
<1>7. CASE UNCHANGED vars
  BY <1>7, UnchangedKeeps DEF vars, posVars, memVars, sessionVars
<1> QED
  BY <1>1, <1>2, <1>3, <1>4, <1>5, <1>6, <1>7 DEF Next, Loop

(* Engine.active and ActiveGames never drift apart, whatever games come    *)
(* and go in one turn, whatever commands fail and whenever the daemon is   *)
(* killed: no game keeps a session the detector will never end.            *)
THEOREM SessionsNeverDrift == Spec => []SessionsFollowDetector
<1>1. Init => SessionInv
  BY SessionInit
<1>2. SessionInv /\ [Next]_vars => SessionInv'
  BY SessionInduction
<1>3. SessionInv => SessionsFollowDetector
  BY DEF SessionInv
<1> QED
  BY <1>1, <1>2, <1>3, PTL DEF Spec

----------------------------------------------------------------------------

(* The detector's count is never ahead of the scans, and what it gives up  *)
(* has been missed as often as the debounce asks.                          *)
DebounceInv ==
  /\ current \subseteq Games /\ stops \subseteq Games
  /\ pending \in [Games -> 0..1] /\ missed \in [Games -> 0..2]
  /\ \A g \in Games : pending[g] <= missed[g]
  /\ \A g \in stops : missed[g] >= STOP_DEBOUNCE_TICKS

debounceVars == <<stops, current, pending, missed>>

LEMMA DebounceInit == Init => DebounceInv
BY DEF Init, DebounceInv, STOP_DEBOUNCE_TICKS

LEMMA DebounceUnchanged == DebounceInv /\ UNCHANGED debounceVars => DebounceInv'
BY DEF DebounceInv, debounceVars

LEMMA DebounceForget == Forget => DebounceInv'
BY DEF Forget, DebounceInv, STOP_DEBOUNCE_TICKS

(* Among the scans, one that misses a game a second time in a row is the   *)
(* only one that gives it up.                                              *)
LEMMA DebounceScan == DebounceInv /\ Scan => DebounceInv'
<1> SUFFICES ASSUME DebounceInv, Scan PROVE DebounceInv'
  OBVIOUS
<1> USE DEF STOP_DEBOUNCE_TICKS
<1>1. PICK scanned \in SUBSET Games :
        LET ticks == [g \in Games |-> MissedAfter(g, scanned)]
            gone == {g \in current \ scanned : StopDue(ticks[g])}
        IN /\ stops' = gone
           /\ current' = (current \cup scanned) \ gone
           /\ pending' = [g \in Games |-> IF g \in gone THEN 0 ELSE ticks[g]]
           /\ missed' = [g \in Games |->
                IF g \in scanned THEN 0
                ELSE IF missed[g] < STOP_DEBOUNCE_TICKS THEN missed[g] + 1 ELSE missed[g]]
  BY DEF Scan
<1> DEFINE ticks == [g \in Games |-> MissedAfter(g, scanned)]
           gone == {g \in current \ scanned : StopDue(ticks[g])}
<1>2. current' \subseteq Games /\ stops' \subseteq Games
  BY <1>1 DEF DebounceInv
<1>3. ASSUME NEW g \in Games
      PROVE  /\ missed'[g] \in 0..2 /\ pending'[g] \in 0..1 /\ pending'[g] <= missed'[g]
             /\ g \in stops' => missed'[g] >= STOP_DEBOUNCE_TICKS
  <2>1. /\ pending[g] \in 0..1 /\ missed[g] \in 0..2 /\ pending[g] <= missed[g]
    BY DEF DebounceInv
  <2>2. ticks[g] = IF g \in current \ scanned THEN pending[g] + 1 ELSE 0
    BY DEF MissedAfter
  <2>3. g \in gone <=> g \in current \ scanned /\ pending[g] + 1 >= 2
    BY <2>2 DEF StopDue
  <2>4. /\ pending'[g] = IF g \in gone THEN 0 ELSE ticks[g]
        /\ missed'[g] = IF g \in scanned THEN 0
                        ELSE IF missed[g] < 2 THEN missed[g] + 1 ELSE missed[g]
        /\ g \in stops' <=> g \in gone
    BY <1>1
  <2> HIDE DEF ticks, gone
  <2> QED
    BY <2>1, <2>2, <2>3, <2>4
<1>4. missed' \in [Games -> 0..2] /\ pending' \in [Games -> 0..1]
  <2>1. DOMAIN missed' = Games /\ missed' = [g \in Games |-> missed'[g]]
    BY <1>1
  <2>2. DOMAIN pending' = Games /\ pending' = [g \in Games |-> pending'[g]]
    BY <1>1
  <2> QED
    BY <1>3, <2>1, <2>2
<1> QED
  BY <1>2, <1>3, <1>4 DEF DebounceInv

(* The steps that leave the detector and the games to stop alone.          *)
LEMMA DebounceBystanders ==
  ASSUME \/ StartUp \/ CleanRule \/ Cleaned \/ Apply \/ Applied \/ Preempt \/ SessionStarted
         \/ Started \/ Revert \/ Reverted \/ Restore \/ SessionEnded \/ Stopped \/ PollDone
         \/ Sleep \/ Signal \/ Shutdown \/ Drained \/ Halt \/ Flush
         \/ \E g \in Games : NextStart(g) \/ Drain(g)
         \/ \E i \in GuardIds : \/ PollUncovered(i) \/ PollStopped(i) \/ PollNoPid(i)
                                \/ PollFails(i) \/ PollHigh(i) \/ PollLow(i) \/ Fire(i)
  PROVE  UNCHANGED debounceVars
<1> USE DEF debounceVars, posVars, memVars, pastVars
<1>1. CASE StartUp \/ CleanRule \/ Cleaned \/ Apply \/ Applied \/ Preempt \/ SessionStarted
  BY <1>1 DEF StartUp, CleanRule, Cleaned, Apply, Applied, Preempt, SessionStarted
<1>2. CASE Started \/ Revert \/ Reverted \/ Restore \/ SessionEnded \/ Stopped
  BY <1>2 DEF Started, Revert, Reverted, Restore, SessionEnded, Stopped
<1>3. CASE PollDone \/ Signal \/ Shutdown \/ Drained \/ Halt \/ Flush
  BY <1>3 DEF PollDone, Signal, Shutdown, Drained, Halt, Flush
<1>4. CASE Sleep
  BY <1>4, Zenon DEF Sleep
<1>5. ASSUME NEW g \in Games, NextStart(g) \/ Drain(g) PROVE UNCHANGED debounceVars
  BY <1>5 DEF NextStart, Drain
<1>6. ASSUME NEW i \in GuardIds,
             \/ PollUncovered(i) \/ PollStopped(i) \/ PollNoPid(i) \/ PollFails(i)
             \/ PollHigh(i) \/ PollLow(i) \/ Fire(i)
      PROVE  UNCHANGED debounceVars
  BY <1>6 DEF PollUncovered, PollStopped, PollNoPid, PollFails, PollHigh, PollLow, Fire,
     PollEnds
<1> QED
  BY <1>1, <1>2, <1>3, <1>4, <1>5, <1>6

LEMMA DebounceInduction == DebounceInv /\ [Next]_vars => DebounceInv'
<1> SUFFICES ASSUME DebounceInv, [Next]_vars PROVE DebounceInv'
  OBVIOUS
<1>1. CASE Scan
  BY <1>1, DebounceScan
<1>2. CASE Exit \/ Kill
  BY <1>2, DebounceForget DEF Exit, Kill
<1>3. ASSUME NEW g \in Games, NextStop(g) PROVE DebounceInv'
  BY <1>3 DEF NextStop, DebounceInv, pastVars
<1>4. CASE UNCHANGED vars
  BY <1>4, DebounceUnchanged DEF vars, posVars, memVars, pastVars, debounceVars
<1> QED
  BY <1>1, <1>2, <1>3, <1>4, DebounceBystanders, DebounceUnchanged DEF Next, Loop

(* The steps that take a game out of the sessions.                         *)
LEMMA SessionEndsBy ==
  ASSUME DebounceInv, [Next]_vars, NEW g \in DOMAIN active \ DOMAIN active'
  PROVE  missed[g] >= STOP_DEBOUNCE_TICKS \/ pc \in {"drain", "off"} \/ pc' = "off"
<1>1. CASE UNCHANGED active
  BY <1>1
<1>2. CASE Exit \/ Kill
  BY <1>2 DEF Exit, Kill, Forget
<1>3. CASE \E h \in Games : Drain(h)
  BY <1>3 DEF Drain
<1>4. ASSUME NEW h \in Games, NextStop(h)
      PROVE  missed[g] >= STOP_DEBOUNCE_TICKS
  <2>1. h \in stops /\ (DOMAIN active \ {h} \subseteq DOMAIN active')
    BY <1>4 DEF NextStop, EndSession, Restrict
  <2> QED
    BY <2>1 DEF DebounceInv
<1>5. CASE SessionStarted
  BY <1>5 DEF SessionStarted, WithSession
<1>6. CASE \/ StartUp \/ Cleaned \/ Applied \/ Started \/ Reverted \/ SessionEnded \/ Stopped
           \/ PollDone \/ Sleep \/ Shutdown \/ Drained
  <2>1. CASE StartUp \/ Cleaned \/ Applied \/ Started \/ Reverted \/ SessionEnded
    BY <1>1, <2>1 DEF StartUp, Cleaned, Applied, Started, Reverted, SessionEnded, memVars
  <2>2. CASE Stopped \/ PollDone \/ Shutdown \/ Drained
    BY <1>1, <2>2 DEF Stopped, PollDone, Shutdown, Drained, memVars
  <2>3. CASE Sleep
    BY <1>1, <2>3, Zenon DEF Sleep
  <2> QED
    BY <1>6, <2>1, <2>2, <2>3
<1>7. CASE Scan \/ (\E h \in Games : NextStart(h))
  BY <1>1, <1>7 DEF Scan, NextStart, memVars
<1>8. UNCHANGED vars => UNCHANGED active
  BY DEF vars, memVars
<1>9. UNCHANGED sessionVars => UNCHANGED active
  BY DEF sessionVars
<1> QED
  BY <1>1, <1>2, <1>3, <1>4, <1>5, <1>6, <1>7, <1>8, <1>9, Bystanders DEF Next, Loop

(* A game that one scan misses never loses its session: only two scans in  *)
(* a row that miss it, or the end of the daemon, end one.                  *)
THEOREM BlinksAreForgiven == Spec => BlinkIsNoStop
<1>1. Init => DebounceInv
  BY DebounceInit
<1>2. DebounceInv /\ [Next]_vars => DebounceInv'
  BY DebounceInduction
<1>3. DebounceInv /\ [Next]_vars =>
        [\A g \in DOMAIN active \ DOMAIN active' :
           \/ missed[g] >= STOP_DEBOUNCE_TICKS
           \/ pc \in {"drain", "off"} \/ pc' = "off"]_vars
  BY SessionEndsBy
<1> QED
  BY <1>1, <1>2, <1>3, PTL DEF Spec, BlinkIsNoStop

----------------------------------------------------------------------------

(* A set of natural numbers that is not empty has a smallest one.          *)
LEMMA SmallestNat ==
  ASSUME NEW S \in SUBSET Nat, S # {}
  PROVE  \E m \in S : \A k \in S : m <= k
<1>1. \E m \in S : \A k \in S : ~ (<<k, m>> \in OpToRel(<, Nat))
  BY NatLessThanWellFounded, WFMin
<1>2. \A k, m \in Nat : k < m => <<k, m>> \in OpToRel(<, Nat)
  <2>1. OpToRel(<, Nat) = {ss \in Nat \X Nat : ss[1] < ss[2]}
     BY DEF OpToRel
  <2> QED BY <2>1
<1>3. \A k, m \in Nat : ~(k < m) => m <= k
  OBVIOUS
<1> QED
  BY <1>1, <1>2, <1>3, Zenon

(* Min is that one.                                                        *)
LEMMA MinOfNats ==
  ASSUME NEW S \in SUBSET Nat, S # {}
  PROVE  Min(S) \in S /\ \A k \in S : Min(S) <= k
BY SmallestNat DEF Min
(* The list left when rules go unlisted is one of the rules listed. *)
LEMMA WithoutIsSeq ==
  ASSUME NEW S, NEW rules \in Seq(S), NEW unlisted
  PROVE  Without(rules, unlisted) \in Seq(S)
<1> DEFINE Len0 == Len(rules)
           Step(f, n) == IF n = 0 THEN <<>>
                         ELSE IF rules[n] \in unlisted THEN f[n - 1]
                              ELSE Append(f[n - 1], rules[n])
           Filters(f, m) == f = [n \in 0..m |-> Step(f, n)]
           Missing == {m \in Nat : m <= Len0 /\ ~ \E f \in [0..m -> Seq(S)] : Filters(f, m)}
<1>1. Len0 \in Nat /\ \A n \in 1..Len0 : rules[n] \in S
  OBVIOUS
<1> HIDE DEF Len0
<1>2. Missing = {}
  <2> SUFFICES ASSUME Missing # {} PROVE FALSE
    OBVIOUS
  <2>1. PICK m \in Missing : \A k \in Missing : m <= k
    BY SmallestNat
  <2>2. m # 0
    <3>1. <<>> \in Seq(S)
      OBVIOUS
    <3>2. [n \in 0..0 |-> <<>>] \in [0..0 -> Seq(S)]
      BY <3>1
    <3>3. Filters([n \in 0..0 |-> <<>>], 0)
      OBVIOUS
    <3> QED
      BY <3>2, <3>3
  <2>a. m \in Nat /\ m <= Len0 /\ Missing \subseteq Nat
    OBVIOUS
  <2>b. m - 1 \in Nat /\ m - 1 <= Len0 /\ ~ (m <= m - 1)
    BY <2>a, <2>2, <1>1
  <2>3. m - 1 \in Nat /\ m - 1 \notin Missing /\ m - 1 <= Len0
    BY <2>b, <2>1, Zenon
  <2>4. PICK f \in [0..(m-1) -> Seq(S)] : Filters(f, m - 1)
    BY <2>3
  <2> DEFINE g == [n \in 0..m |-> IF n = m THEN Step(f, m) ELSE f[n]]
  <2>5. Step(f, m) \in Seq(S)
    <3>1. f[m - 1] \in Seq(S) /\ rules[m] \in S
      BY <2>1, <2>2, <2>3, <1>1
    <3> QED BY <3>1, <2>2
  <2>6. g \in [0..m -> Seq(S)]
    BY <2>5, <2>3
  <2>7. \A n \in 0..m : g[n] = Step(g, n)
    <3> SUFFICES ASSUME NEW n \in 0..m PROVE g[n] = Step(g, n)
      OBVIOUS
    <3>1. CASE n = m
      <4>1. g[m] = Step(f, m) /\ g[m - 1] = f[m - 1]
        BY <2>2, <2>3
      <4> QED BY <4>1, <3>1
    <3>2. CASE n # m
      <4>a. n \in 0..(m-1)
        BY <3>2, <2>a
      <4>b. g[n] = f[n]
        BY <3>2
      <4>c. f = [k \in 0..(m-1) |-> Step(f, k)]
        BY <2>4, Zenon DEF Filters
      <4>d. f[n] = Step(f, n)
        BY <4>a, <4>c, Zenon
      <4>1. n \in 0..(m-1) /\ g[n] = f[n] /\ f[n] = Step(f, n)
        BY <4>a, <4>b, <4>d, Zenon
      <4>2. n # 0 => n - 1 \in 0..m /\ n - 1 # m /\ g[n-1] = f[n-1]
        BY <3>2, <2>3, <2>1
      <4> QED BY <4>1, <4>2
    <3> QED BY <3>1, <3>2
  <2>8. Filters(g, m)
    BY <2>6, <2>7
  <2> QED
    BY <2>1, <2>6, <2>8
<1>3. PICK f \in [0..Len0 -> Seq(S)] : Filters(f, Len0)
  <2>1. Len0 <= Len0
    BY <1>1
  <2> QED
    BY <2>1, <1>2, <1>1, Zenon
<1> DEFINE Upto == CHOOSE h : Filters(h, Len0)
<1>4. Filters(Upto, Len0)
  BY <1>3, Zenon
<1>5. Upto[0] = <<>> /\ \A n \in 1..Len0 : Upto[n] = Step(Upto, n)
  <2>1. Upto = [n \in 0..Len0 |-> Step(Upto, n)]
    BY <1>4, Zenon
  <2> HIDE DEF Upto
  <2>2. \A n \in 0..Len0 : Upto[n] = Step(Upto, n)
    BY <2>1, Zenon
  <2>3. 0 \in 0..Len0 /\ 1..Len0 \subseteq 0..Len0 /\ 0 = 0
    BY <1>1
  <2>4. Step(Upto, 0) = <<>>
    OBVIOUS
  <2> QED
    BY <2>2, <2>3, <2>4, Zenon
<1> HIDE DEF Upto
<1>6. \A n \in 0..Len0 : Upto[n] \in Seq(S)
  <2> DEFINE Bad == {n \in 0..Len0 : Upto[n] \notin Seq(S)}
  <2> SUFFICES ASSUME Bad # {} PROVE FALSE
    OBVIOUS
  <2>0. Bad \in SUBSET Nat /\ Bad # {}
    BY <1>1
  <2>1. PICK n \in Bad : \A k \in Bad : n <= k
    BY SmallestNat, <2>0, Zenon
  <2>a. n \in 0..Len0 /\ n \in Nat /\ n <= Len0 /\ Upto[n] \notin Seq(S)
    BY <1>1
  <2>2. n # 0
    <3>1. <<>> \in Seq(S)
      OBVIOUS
    <3> QED
      BY <1>5, <2>a, <3>1, Zenon
  <2>b. n - 1 \in 0..Len0 /\ ~ (n <= n - 1) /\ n \in 1..Len0
    BY <2>a, <2>2, <1>1
  <2>c. Upto[n - 1] \in Seq(S)
    BY <2>b, <2>1, Zenon
  <2>3. n - 1 \in 0..Len0 /\ Upto[n - 1] \in Seq(S) /\ rules[n] \in S /\ Upto[n] = Step(Upto, n)
    BY <2>b, <2>c, <1>1, <1>5, Zenon
  <2>4. Step(Upto, n) \in Seq(S)
    BY <2>3, <2>2
  <2> QED
    BY <2>3, <2>4, <2>a, Zenon
<1>7. Without(rules, unlisted) = Upto[Len0]
  BY Zenon DEF Without, Upto, Len0
<1> QED
  BY <1>6, <1>7, <1>1

(* What a guard remembers: ages within their caps, a settling no longer    *)
(* than the quiet, and a history that is in order, each fire of it one of  *)
(* those of the history variable until it is too old.                      *)
GuardOK(i) ==
  /\ guard[i].below \in NotBelow..Guards[i].settle
  /\ quiet[i] \in -1..Guards[i].settle
  /\ fired[i] \subseteq 0..Guards[i].window
  /\ \A k \in DOMAIN guard[i].history : guard[i].history[k] <= Guards[i].window + 1
  /\ guard[i].phase = "Active" => quiet[i] >= 0 /\ guard[i].below <= quiet[i]
  /\ \A k \in DOMAIN guard[i].history :
       guard[i].history[k] <= Guards[i].window => guard[i].history[k] \in fired[i]
  /\ \A k, l \in DOMAIN guard[i].history :
       k < l /\ guard[i].history[k] <= Guards[i].window
         => guard[i].history[l] < guard[i].history[k]
  /\ 0 \in fired[i] => pc = "sleep" \/ (pc = "gpu" /\ i < gi)

GuardsOK ==
  /\ guard \in [GuardIds -> GuardState]
  /\ quiet \in [GuardIds -> Int]
  /\ fired \in [GuardIds -> SUBSET Nat]
  /\ \A i \in GuardIds : GuardOK(i)

(* What ConfigAssumption says of one guard.                                *)
LEMMA ConfigFacts ==
  /\ GuardIds = 1..Len(Guards) /\ Len(Guards) \in Nat
  /\ \A i \in GuardIds :
       /\ Guards[i].settle \in Nat /\ Guards[i].window \in Nat /\ Guards[i].exceed \in Nat
       /\ Guards[i].requires \subseteq Games /\ Guards[i].applies \subseteq Games
       /\ Guards[i].action \in {"restart", "stop"} /\ Guards[i].escalation \in {"restart", "stop"}
  /\ \A i, j \in GuardIds : Guards[i].service = Guards[j].service => i = j
<1>1. GuardIds = 1..Len(Guards) /\ Len(Guards) \in Nat
  BY ConfigAssumption DEF GuardIds
<1>2. \A i \in GuardIds : Guards[i] \in GuardConfig
  BY ConfigAssumption DEF GuardIds
<1> QED
  BY <1>1, <1>2, ConfigAssumption DEF GuardConfig, GuardIds

(* The guard of a process that has just begun.                             *)
LEMMA FreshFacts ==
  /\ FreshGuard \in GuardState
  /\ FreshGuard.phase = "Idle" /\ FreshGuard.below = -1 /\ FreshGuard.history = <<>>
  /\ FreshGuard.mode = "Normal"
<1>1. <<>> \in Seq(Nat)
  OBVIOUS
<1> QED
  BY <1>1 DEF FreshGuard, GuardState, NotBelow

(* Idling a guard keeps its history and its mode.                          *)
LEMMA IdleFacts ==
  ASSUME NEW gs \in GuardState
  PROVE  /\ Idle(gs) \in GuardState
         /\ Idle(gs).phase = "Idle" /\ Idle(gs).below = -1
         /\ Idle(gs).history = gs.history /\ Idle(gs).mode = gs.mode
<1> DEFINE calm == [gs EXCEPT !.phase = "Idle"]
           idle == [calm EXCEPT !.below = -1]
<1>1. /\ calm \in GuardState /\ calm.phase = "Idle"
      /\ calm.history = gs.history /\ calm.mode = gs.mode
  BY DEF GuardState
<1>2. Idle(gs) = idle
  BY Zenon DEF Idle, NotBelow
<1> HIDE DEF calm
<1>3. /\ idle \in GuardState /\ idle.phase = "Idle" /\ idle.below = -1
      /\ idle.history = gs.history /\ idle.mode = gs.mode
  BY <1>1 DEF GuardState
<1> QED
  BY <1>2, <1>3

(* So does a spike.                                                        *)
LEMMA SpikeFacts ==
  ASSUME NEW gs \in GuardState
  PROVE  /\ AfterSpike(gs) \in GuardState
         /\ AfterSpike(gs).phase = "Active" /\ AfterSpike(gs).below = -1
         /\ AfterSpike(gs).history = gs.history /\ AfterSpike(gs).mode = gs.mode
<1> DEFINE busy == [gs EXCEPT !.phase = "Active"]
           spiked == [busy EXCEPT !.below = -1]
<1>1. /\ busy \in GuardState /\ busy.phase = "Active"
      /\ busy.history = gs.history /\ busy.mode = gs.mode
  BY DEF GuardState
<1>2. AfterSpike(gs) = spiked
  BY Zenon DEF AfterSpike, NotBelow
<1> HIDE DEF busy
<1>3. /\ spiked \in GuardState /\ spiked.phase = "Active" /\ spiked.below = -1
      /\ spiked.history = gs.history /\ spiked.mode = gs.mode
  BY <1>1 DEF GuardState
<1> QED
  BY <1>2, <1>3

(* A process that starts has fresh guards.                                 *)
LEMMA GuardsInit == Init => GuardsOK
<1> SUFFICES ASSUME Init PROVE GuardsOK
  OBVIOUS
<1>1. guard = [i \in GuardIds |-> FreshGuard] /\ quiet = [i \in GuardIds |-> -1]
      /\ fired = [i \in GuardIds |-> {}]
  BY DEF Init
<1>2. ASSUME NEW i \in GuardIds PROVE GuardOK(i)
  BY <1>1, FreshFacts, ConfigFacts DEF GuardOK, NotBelow
<1> QED
  BY <1>1, <1>2, FreshFacts DEF GuardsOK

(* A process that ends forgets its guards. *)
LEMMA GuardsForget == Forget => GuardsOK'
<1> SUFFICES ASSUME Forget PROVE GuardsOK'
  OBVIOUS
<1>1. guard' = [i \in GuardIds |-> FreshGuard] /\ quiet' = [i \in GuardIds |-> -1]
      /\ fired' = [i \in GuardIds |-> {}]
  BY DEF Forget
<1>2. ASSUME NEW i \in GuardIds PROVE GuardOK(i)'
  BY <1>1, FreshFacts, ConfigFacts DEF GuardOK, NotBelow
<1> QED
  BY <1>1, <1>2, FreshFacts DEF GuardsOK

(* A poll that is past a guard has the other guards left. *)
LEMMA OneGuardChanges ==
  ASSUME GuardsOK, NEW i \in GuardIds, GuardOK(i)',
         gi \in Nat, gi' > gi, gi' \in Nat, pc' = pc,
         guard' \in [GuardIds -> GuardState], quiet' \in [GuardIds -> Int],
         fired' \in [GuardIds -> SUBSET Nat],
         \A j \in GuardIds : j # i =>
           guard'[j] = guard[j] /\ quiet'[j] = quiet[j] /\ fired'[j] = fired[j]
  PROVE  GuardsOK'
<1>1. ASSUME NEW j \in GuardIds, j # i PROVE GuardOK(j)'
  <2>1. GuardOK(j) /\ guard'[j] = guard[j] /\ quiet'[j] = quiet[j] /\ fired'[j] = fired[j]
    BY <1>1 DEF GuardsOK
  <2>2. j < gi => j < gi'
    BY ConfigFacts
  <2> QED
    BY <2>1, <2>2 DEF GuardOK
<1> QED
  BY <1>1 DEF GuardsOK

(* A step past a guard that idles it.                                      *)
LEMMA GuardIdles ==
  ASSUME GuardsOK, NEW i \in GuardIds, gi \in Nat, UNCHANGED <<pc, quiet, fired>>, gi' = gi + 1,
         guard' = [guard EXCEPT ![i] = Idle(@)]
  PROVE  GuardsOK'
<1>1. /\ guard[i] \in GuardState /\ guard' \in [GuardIds -> GuardState]
      /\ guard'[i] = Idle(guard[i])
      /\ \A j \in GuardIds : j # i => guard'[j] = guard[j]
  BY IdleFacts DEF GuardsOK
<1>2. GuardOK(i)'
  <2>1. GuardOK(i)
    BY DEF GuardsOK
  <2>2. /\ guard'[i].history = guard[i].history
        /\ guard'[i].below = -1 /\ guard'[i].phase = "Idle"
    BY <1>1, IdleFacts
  <2> QED
    BY <2>1, <2>2, ConfigFacts DEF GuardOK, NotBelow
<1>3. quiet' \in [GuardIds -> Int] /\ fired' \in [GuardIds -> SUBSET Nat]
  BY DEF GuardsOK
<1> QED
  BY <1>1, <1>2, <1>3, OneGuardChanges

(* A step that leaves the guards alone is one from one part of the loop to *)
(* another, or one past a guard.                                           *)
LEMMA GuardsKept ==
  ASSUME GuardsOK, UNCHANGED <<guard, quiet, fired>>, gi \in Nat,
         \/ UNCHANGED pc /\ gi' \in Nat /\ gi' >= gi
         \/ pc \notin {"gpu", "sleep"}
         \/ pc' = "sleep"
  PROVE  GuardsOK'
<1>1. ASSUME NEW i \in GuardIds PROVE GuardOK(i)'
  <2>1. GuardOK(i)
    BY DEF GuardsOK
  <2>2. i < gi /\ gi' \in Nat /\ gi' >= gi => i < gi'
    BY ConfigFacts
  <2> QED
    BY <2>1, <2>2 DEF GuardOK
<1> QED
  BY <1>1 DEF GuardsOK

(* A spike: the quiet begins anew, and so does the settling.               *)
LEMMA SpikeKeeps ==
  ASSUME GuardsOK, NEW i \in GuardIds, gi \in Nat, PollHigh(i)
  PROVE  GuardsOK'
<1>1. /\ gi' = gi + 1 /\ fired' = fired /\ pc' = pc
      /\ guard' = [guard EXCEPT ![i] = AfterSpike(@)]
      /\ quiet' = [quiet EXCEPT ![i] = 0]
  BY DEF PollHigh, PollEnds
<1>2. /\ guard[i] \in GuardState /\ guard' \in [GuardIds -> GuardState]
      /\ guard'[i] = AfterSpike(guard[i])
      /\ \A j \in GuardIds : j # i => guard'[j] = guard[j]
  BY <1>1, SpikeFacts DEF GuardsOK
<1>3. /\ quiet' \in [GuardIds -> Int] /\ quiet'[i] = 0
      /\ \A j \in GuardIds : j # i => quiet'[j] = quiet[j]
  BY <1>1 DEF GuardsOK
<1>4. GuardOK(i)'
  <2>1. GuardOK(i)
    BY DEF GuardsOK
  <2>2. guard'[i].history = guard[i].history /\ guard'[i].below = -1
    BY <1>2, SpikeFacts
  <2>3. i < gi => i < gi + 1
    BY ConfigFacts
  <2> QED
    BY <1>1, <1>3, <2>1, <2>2, <2>3, ConfigFacts DEF GuardOK, NotBelow
<1>5. fired' \in [GuardIds -> SUBSET Nat] /\ gi' > gi /\ gi' \in Nat
  BY <1>1 DEF GuardsOK
<1> QED
  BY <1>1, <1>2, <1>3, <1>4, <1>5, OneGuardChanges

(* The first low sample after a spike starts the settling.                 *)
LEMMA LowKeeps ==
  ASSUME GuardsOK, NEW i \in GuardIds, gi \in Nat, PollLow(i)
  PROVE  GuardsOK'
<1>1. /\ gi' = gi + 1 /\ UNCHANGED <<pc, quiet, fired>>
      /\ guard' = IF guard[i].phase = "Active"
                  THEN [guard EXCEPT ![i].below = Anchor(guard[i])] ELSE guard
  BY DEF PollLow, PollEnds
<1>2. CASE guard[i].phase # "Active"
  BY <1>1, <1>2, GuardsKept
<1>3. CASE guard[i].phase = "Active"
  <2> DEFINE gs == [guard[i] EXCEPT !.below = Anchor(guard[i])]
  <2>1. guard[i] \in GuardState /\ GuardOK(i)
    BY DEF GuardsOK
  <2>2. Anchor(guard[i]) \in Int
    BY <2>1 DEF Anchor, GuardState, NotBelow
  <2>3. gs \in GuardState
    BY <2>1, <2>2 DEF GuardState
  <2>4. gs.below = Anchor(guard[i]) /\ gs.history = guard[i].history
    BY <2>1 DEF GuardState
  <2>5. guard' = [guard EXCEPT ![i] = gs]
    BY <1>1, <1>3, Zenon
  <2> HIDE DEF gs
  <2>6. /\ guard' \in [GuardIds -> GuardState] /\ guard'[i] = gs
        /\ \A j \in GuardIds : j # i => guard'[j] = guard[j]
    BY <2>3, <2>5 DEF GuardsOK
  <2>7. GuardOK(i)'
    <3>1. /\ quiet[i] \in -1..Guards[i].settle /\ quiet[i] >= 0 /\ guard[i].below <= quiet[i]
          /\ guard[i].below \in -1..Guards[i].settle
      BY <2>1, <1>3 DEF GuardOK, NotBelow
    <3>2. Anchor(guard[i]) \in 0..Guards[i].settle /\ Anchor(guard[i]) <= quiet[i]
      BY <3>1, ConfigFacts DEF Anchor, NotBelow
    <3>3. /\ quiet'[i] = quiet[i] /\ guard'[i].below = Anchor(guard[i])
          /\ guard'[i].history = guard[i].history /\ fired'[i] = fired[i]
      BY <1>1, <2>4, <2>6
    <3>4. i < gi => i < gi'
      BY <1>1, ConfigFacts
    <3> QED
      BY <1>1, <2>1, <3>1, <3>2, <3>3, <3>4, ConfigFacts DEF GuardOK, NotBelow
  <2>8. fired' \in [GuardIds -> SUBSET Nat] /\ quiet' \in [GuardIds -> Int] /\ gi' > gi
        /\ gi' \in Nat
    BY <1>1 DEF GuardsOK
  <2> QED
    BY <1>1, <2>6, <2>7, <2>8, OneGuardChanges
<1> QED
  BY <1>2, <1>3

(* Fires are dropped oldest first, and what is left is young. *)
LEMMA RecentFacts ==
  ASSUME NEW ages \in Seq(Nat), NEW window \in Nat,
         \A k, l \in DOMAIN ages : k < l /\ ages[k] <= window => ages[l] < ages[k]
  PROVE  LET h == Recent(ages, window)
         IN /\ h \in Seq(Nat)
            /\ \A k \in DOMAIN h : h[k] <= window /\ \E m \in DOMAIN ages : h[k] = ages[m]
            /\ \A k, l \in DOMAIN h : k < l => h[l] < h[k]
<1> DEFINE young == {k \in DOMAIN ages : ages[k] <= window}
           h == Recent(ages, window)
<1>1. CASE young = {}
  <2>1. h = <<>>
    BY <1>1 DEF Recent
  <2> QED
    BY <2>1
<1>2. CASE young # {}
  <2> DEFINE m == Min(young)
  <2>1. young \in SUBSET Nat
    OBVIOUS
  <2>2. m \in young /\ \A k \in young : m <= k
    BY <1>2, <2>1, MinOfNats
  <2>3. h = SubSeq(ages, m, Len(ages))
    BY <1>2 DEF Recent
  <2>4. m \in 1..Len(ages) /\ ages[m] <= window
    BY <2>2
  <2> HIDE DEF m
  <2>5. /\ h \in Seq(Nat) /\ Len(h) = Len(ages) - m + 1
        /\ \A k \in 1..Len(h) : h[k] = ages[m + k - 1] /\ m + k - 1 \in 1..Len(ages)
        /\ DOMAIN h = 1..Len(h) /\ DOMAIN ages = 1..Len(ages) /\ Len(ages) \in Nat
    BY <2>3, <2>4
  <2> HIDE DEF h
  <2>6. \A k \in DOMAIN h : ages[m + k - 1] <= window
    <3> SUFFICES ASSUME NEW k \in DOMAIN h PROVE ages[m + k - 1] <= window
      OBVIOUS
    <3>1. CASE k = 1
      BY <3>1, <2>4
    <3>2. CASE k # 1
      <4>1. m \in Nat /\ k \in Nat /\ k > 1 /\ k \in 1..Len(h)
        BY <3>2, <2>4, <2>5
      <4>2. m + k - 1 \in DOMAIN ages /\ m \in DOMAIN ages
        BY <4>1, <2>4, <2>5
      <4>3. m < m + k - 1 /\ ages[m] \in Nat /\ ages[m + k - 1] \in Nat
        BY <4>1, <4>2
      <4>4. ages[m + k - 1] < ages[m]
        BY <4>2, <4>3, <2>4
      <4> QED
        BY <4>3, <4>4, <2>4
    <3> QED
      BY <3>1, <3>2
  <2>7. ASSUME NEW k \in DOMAIN h, NEW l \in DOMAIN h, k < l PROVE h[l] < h[k]
    <3>1. k \in 1..Len(h) /\ l \in 1..Len(h) /\ m \in Nat /\ Len(h) \in Nat
      BY <2>4, <2>5
    <3>2. k \in Nat /\ l \in Nat
      BY <3>1
    <3>3. m + k - 1 \in DOMAIN ages /\ m + l - 1 \in DOMAIN ages
      BY <3>1, <2>5
    <3>4. m + k - 1 < m + l - 1
      BY <3>1, <3>2, <2>7
    <3>5. ages[m + k - 1] <= window /\ h[k] = ages[m + k - 1] /\ h[l] = ages[m + l - 1]
      BY <3>1, <2>5, <2>6, <2>7
    <3> QED
      BY <3>3, <3>4, <3>5
  <2> QED
    BY <2>5, <2>6, <2>7 DEF h
<1> QED
  BY <1>1, <1>2

(* What a fire does to its guard, its service and the history.             *)
LEMMA FireFacts ==
  ASSUME GuardsOK, NEW i \in GuardIds, Fire(i)
  PROVE  LET h == Recent(guard[i].history, Guards[i].window)
             action == IF Escalates(i) THEN Guards[i].escalation ELSE Guards[i].action
         IN /\ gi' = gi + 1 /\ pc' = pc /\ pc = "gpu" /\ gi = i
            /\ guard[i].mode # "Stopped" /\ guard[i] \in GuardState
            /\ Settled(i) /\ Guards[i].service \in up
            /\ Systemctl(action, Guards[i].service)
            /\ guard' \in [GuardIds -> GuardState]
            /\ \A j \in GuardIds : j # i => guard'[j] = guard[j]
            /\ guard'[i].phase = "Idle" /\ guard'[i].below = -1
            /\ guard'[i].history = Append(h, 0) /\ h \in Seq(Nat)
            /\ guard'[i].mode = IF action = "stop" THEN "Stopped" ELSE guard[i].mode
            /\ fired' = [fired EXCEPT ![i] = @ \cup {0}] /\ quiet' = [quiet EXCEPT ![i] = -1]
            /\ active' = active /\ game' = game
<1> DEFINE h == Recent(guard[i].history, Guards[i].window)
           action == IF Escalates(i) THEN Guards[i].escalation ELSE Guards[i].action
           gs == [phase |-> "Idle", below |-> NotBelow, history |-> HistoryAfter(i),
                  mode |-> IF action = "stop" THEN "Stopped" ELSE guard[i].mode]
<1>1. /\ gi' = gi + 1 /\ pc' = pc /\ pc = "gpu" /\ gi = i /\ guard[i].mode # "Stopped"
      /\ Settled(i) /\ Guards[i].service \in up
      /\ active' = active /\ game' = game
  BY DEF Fire, Sampled, Polling, PollEnds
<1>2. Systemctl(action, Guards[i].service)
  BY DEF Fire
<1>3. guard' = [guard EXCEPT ![i] = gs]
  BY Zenon DEF Fire
<1>4. /\ fired' = [fired EXCEPT ![i] = @ \cup {0}] /\ quiet' = [quiet EXCEPT ![i] = -1]
  BY DEF Fire
<1>5. guard[i] \in GuardState /\ GuardOK(i)
  BY DEF GuardsOK
<1>6. guard[i].history \in Seq(Nat) /\ guard[i].mode \in {"Normal", "Stopped"}
  BY <1>5 DEF GuardState
<1>7. h \in Seq(Nat) /\ HistoryAfter(i) = Append(h, 0)
  BY <1>5, <1>6, RecentFacts, ConfigFacts DEF GuardOK, HistoryAfter
<1>8. gs \in GuardState
  <2>1. Append(h, 0) \in Seq(Nat)
    BY <1>7
  <2> QED
    BY <2>1, <1>6, <1>7 DEF GuardState, NotBelow
<1>9. /\ guard' \in [GuardIds -> GuardState] /\ guard'[i] = gs
      /\ \A j \in GuardIds : j # i => guard'[j] = guard[j]
  BY <1>3, <1>8 DEF GuardsOK
<1> QED
  BY <1>1, <1>2, <1>4, <1>5, <1>7, <1>9 DEF NotBelow

(* A fire is the youngest of its history: no other fire of the guard is of *)
(* this turn.                                                              *)
LEMMA FireKeeps ==
  ASSUME GuardsOK, NEW i \in GuardIds, gi \in Nat, Fire(i)
  PROVE  GuardsOK'
<1> DEFINE h == Recent(guard[i].history, Guards[i].window)
<1>1. /\ gi' = gi + 1 /\ pc' = pc /\ pc = "gpu" /\ gi = i
      /\ guard' \in [GuardIds -> GuardState]
      /\ \A j \in GuardIds : j # i => guard'[j] = guard[j]
      /\ guard'[i].phase = "Idle" /\ guard'[i].below = -1
      /\ guard'[i].history = Append(h, 0) /\ h \in Seq(Nat)
      /\ fired' = [fired EXCEPT ![i] = @ \cup {0}] /\ quiet' = [quiet EXCEPT ![i] = -1]
  BY FireFacts
<1>2. /\ quiet' \in [GuardIds -> Int] /\ quiet'[i] = -1
      /\ fired' \in [GuardIds -> SUBSET Nat] /\ fired'[i] = fired[i] \cup {0}
      /\ \A j \in GuardIds : j # i => quiet'[j] = quiet[j] /\ fired'[j] = fired[j]
  BY <1>1 DEF GuardsOK
<1>3. GuardOK(i) /\ guard[i].history \in Seq(Nat)
  BY DEF GuardsOK, GuardState
<1>4. 0 \notin fired[i]
  BY <1>1, <1>3, ConfigFacts DEF GuardOK
<1>5. /\ \A k \in DOMAIN h : h[k] <= Guards[i].window /\ h[k] \in fired[i] /\ h[k] > 0
                             /\ h[k] \in Nat
      /\ \A k, l \in DOMAIN h : k < l => h[l] < h[k]
  <2>1. /\ \A k \in DOMAIN h : h[k] <= Guards[i].window
                               /\ \E m \in DOMAIN guard[i].history : h[k] = guard[i].history[m]
        /\ \A k, l \in DOMAIN h : k < l => h[l] < h[k]
    BY <1>3, RecentFacts, ConfigFacts DEF GuardOK
  <2>2. \A k \in DOMAIN h : h[k] \in fired[i]
    BY <2>1, <1>3 DEF GuardOK
  <2>3. \A k \in DOMAIN h : h[k] \in Nat
    BY <1>1
  <2> HIDE DEF h
  <2> QED
    BY <2>1, <2>2, <2>3, <1>4
<1> HIDE DEF h
<1>6. GuardOK(i)'
  <2> DEFINE a == Append(h, 0)
  <2>1. DOMAIN a = 1..Len(h) + 1 /\ a[Len(h) + 1] = 0 /\ Len(h) \in Nat
        /\ \A k \in 1..Len(h) : a[k] = h[k] /\ k \in DOMAIN h /\ h[k] \in Nat
    BY <1>1
  <2> HIDE DEF a
  <2>2. \A k \in DOMAIN a : a[k] <= Guards[i].window + 1 /\ a[k] \in fired'[i]
    <3>1. \A k \in 1..Len(h) : h[k] <= Guards[i].window + 1 /\ h[k] \in fired'[i]
      BY <2>1, <1>2, <1>5, ConfigFacts
    <3>2. 0 \in fired'[i] /\ 0 <= Guards[i].window + 1
      BY <1>2, ConfigFacts
    <3>3. \A k \in DOMAIN a : k # Len(h) + 1 => k \in 1..Len(h)
      BY <2>1
    <3> QED
      BY <2>1, <3>1, <3>2, <3>3
  <2>3. \A k, l \in DOMAIN a : k < l => a[l] < a[k]
    BY <2>1, <1>5
  <2>4. fired'[i] \subseteq 0..Guards[i].window
    BY <1>2, <1>3, ConfigFacts DEF GuardOK
  <2>5. guard'[i].history = a
    BY <1>1 DEF a
  <2>6. i < gi'
    BY <1>1, ConfigFacts
  <2> QED
    <3>1. -1 \in NotBelow..Guards[i].settle
      BY ConfigFacts DEF NotBelow
    <3> QED
      BY <1>1, <1>2, <2>2, <2>3, <2>4, <2>5, <2>6, <3>1 DEF GuardOK, NotBelow
<1>7. gi' > gi /\ gi' \in Nat
  BY <1>1
<1> QED
  BY <1>1, <1>2, <1>6, <1>7, OneGuardChanges

(* An age grows until the cap.                                             *)
LEMMA OlderFacts ==
  ASSUME NEW age \in Int, age >= -1, NEW cap \in Nat, age <= cap
  PROVE  /\ Older(age, cap) \in Int /\ Older(age, cap) <= cap /\ Older(age, cap) >= age
         /\ age = -1 => Older(age, cap) = -1
         /\ age >= 0 /\ age < cap => Older(age, cap) = age + 1
         /\ age >= cap => Older(age, cap) = age
BY DEF Older, NotBelow

(* A turn passes for every guard: the time since the spike and the time of *)
(* the settling grow alike, and so do the ages of a history and those of   *)
(* the fires.                                                              *)
LEMMA SleepFacts ==
  ASSUME GuardsOK, Sleep
  PROVE  GuardsOK' /\ \A i \in GuardIds : guard'[i].mode = guard[i].mode
<1>1. pc' = "scan"
  BY Zenon DEF Sleep
<1>2. guard' = [i \in GuardIds |->
        [guard[i] EXCEPT
          !.below = Older(@, Guards[i].settle),
          !.history = [k \in DOMAIN @ |-> Older(@[k], Guards[i].window + 1)]]]
  BY Zenon DEF Sleep
<1>3. /\ quiet' = [i \in GuardIds |-> Older(quiet[i], Guards[i].settle)]
      /\ fired' = [i \in GuardIds |-> {a \in 1..Guards[i].window : a - 1 \in fired[i]}]
  BY Zenon DEF Sleep
<1>4. ASSUME NEW i \in GuardIds
      PROVE  /\ guard'[i] \in GuardState /\ quiet'[i] \in Int /\ fired'[i] \in SUBSET Nat
             /\ GuardOK(i)' /\ guard'[i].mode = guard[i].mode
  <2> DEFINE ages == guard[i].history
             below == Older(guard[i].below, Guards[i].settle)
             older == [k \in DOMAIN ages |-> Older(ages[k], Guards[i].window + 1)]
             grown == [guard[i] EXCEPT !.below = below]
             gs == [grown EXCEPT !.history = older]
  <2>1. guard[i] \in GuardState /\ GuardOK(i) /\ ages \in Seq(Nat)
    BY DEF GuardsOK, GuardState
  <2>2. /\ guard[i].below \in -1..Guards[i].settle /\ quiet[i] \in -1..Guards[i].settle
        /\ fired[i] \subseteq 0..Guards[i].window
        /\ \A k \in DOMAIN ages : ages[k] \in Nat /\ ages[k] <= Guards[i].window + 1
    BY <2>1 DEF GuardOK, NotBelow
  <2>3. Guards[i].settle \in Nat /\ Guards[i].window \in Nat
    BY ConfigFacts
  <2>4. /\ below \in Int /\ below \in -1..Guards[i].settle
    BY <2>2, <2>3, OlderFacts
  <2>5. \A k \in DOMAIN ages : /\ older[k] \in Nat /\ older[k] <= Guards[i].window + 1
                               /\ older[k] = IF ages[k] <= Guards[i].window THEN ages[k] + 1
                                             ELSE ages[k]
    BY <2>2, <2>3 DEF Older, NotBelow
  <2>6. DOMAIN ages = 1..Len(ages) /\ Len(ages) \in Nat
    BY <2>1
  <2> HIDE DEF ages
  <2>7. DOMAIN older = DOMAIN ages
    OBVIOUS
  <2> HIDE DEF older
  <2>8. older \in Seq(Nat)
    <3>1. older = [k \in 1..Len(ages) |-> older[k]]
      BY <2>6, <2>7 DEF older
    <3> QED
      BY <3>1, <2>5, <2>6
  <2>9. guard'[i] = gs
    BY <1>2, Zenon DEF ages, older
  <2> HIDE DEF below
  <2>10. /\ grown \in GuardState /\ grown.below = below /\ grown.phase = guard[i].phase
         /\ grown.mode = guard[i].mode
    BY <2>1, <2>4 DEF GuardState
  <2> HIDE DEF grown
  <2>11. /\ gs \in GuardState /\ gs.below = below /\ gs.phase = guard[i].phase
         /\ gs.mode = guard[i].mode /\ gs.history = older
    BY <2>10, <2>8 DEF GuardState
  <2> HIDE DEF gs
  <2>12. quiet'[i] = Older(quiet[i], Guards[i].settle)
         /\ fired'[i] = {a \in 1..Guards[i].window : a - 1 \in fired[i]}
    BY <1>3
  <2>13. quiet'[i] \in Int /\ quiet'[i] \in -1..Guards[i].settle
    BY <2>12, <2>2, <2>3, OlderFacts
  <2>14. gs.phase = "Active" => quiet'[i] >= 0 /\ gs.below <= quiet'[i]
    <3> SUFFICES ASSUME guard[i].phase = "Active" PROVE quiet'[i] >= 0 /\ below <= quiet'[i]
      BY <2>11
    <3>1. quiet[i] >= 0 /\ guard[i].below <= quiet[i]
      BY <2>1 DEF GuardOK
    <3> QED
      BY <3>1, <2>12, <2>2, <2>3 DEF below, Older, NotBelow
  <2>15. \A k \in DOMAIN older : older[k] <= Guards[i].window => older[k] \in fired'[i]
    <3> SUFFICES ASSUME NEW k \in DOMAIN ages, older[k] <= Guards[i].window
                 PROVE  older[k] \in fired'[i]
      BY <2>7
    <3>1. ages[k] <= Guards[i].window /\ older[k] = ages[k] + 1 /\ ages[k] \in Nat
      BY <2>5, <2>2, <2>3
    <3>2. ages[k] \in fired[i]
      BY <3>1, <2>1 DEF GuardOK, ages
    <3> QED
      BY <3>1, <3>2, <2>12, <2>3
  <2>16. \A k, l \in DOMAIN older : k < l /\ older[k] <= Guards[i].window => older[l] < older[k]
    <3> SUFFICES ASSUME NEW k \in DOMAIN ages, NEW l \in DOMAIN ages, k < l,
                        older[k] <= Guards[i].window
                 PROVE  older[l] < older[k]
      BY <2>7
    <3>1. ages[k] <= Guards[i].window /\ older[k] = ages[k] + 1 /\ ages[k] \in Nat
      BY <2>5, <2>2, <2>3
    <3>2. ages[l] < ages[k]
      BY <3>1, <2>1 DEF GuardOK, ages
    <3>3. ages[l] \in Nat
      BY <2>2
    <3> QED
      BY <3>1, <3>2, <3>3, <2>5, <2>3
  <2>17. 0 \notin fired'[i] /\ fired'[i] \subseteq 0..Guards[i].window /\ fired'[i] \in SUBSET Nat
    BY <2>12, <2>3
  <2> QED
    BY <1>1, <2>4, <2>5, <2>7, <2>9, <2>11, <2>13, <2>14, <2>15, <2>16, <2>17 DEF GuardOK,
       NotBelow
<1>5. /\ guard' \in [GuardIds -> GuardState] /\ quiet' \in [GuardIds -> Int]
      /\ fired' \in [GuardIds -> SUBSET Nat]
  <2>1. /\ guard' = [i \in GuardIds |-> guard'[i]] /\ quiet' = [i \in GuardIds |-> quiet'[i]]
        /\ fired' = [i \in GuardIds |-> fired'[i]]
    BY <1>2, <1>3, Zenon
  <2> QED
    BY <2>1, <1>4
<1> QED
  BY <1>4, <1>5 DEF GuardsOK

LoopOK ==
  /\ pc \in {"off", "clean", "scan", "start", "apply", "preempt", "stop", "revert", "restore",
            "gpu", "sleep", "drain", "undo", "halt"}
  /\ starts \subseteq Games /\ game \in Games \cup {NoGame}
  /\ gi \in 1..Len(Guards) + 1
  /\ pc \notin {"preempt", "restore", "gpu", "halt"} => gi = 1

loopVars == <<pc, starts, game, gi>>

(* The loop is where it can be, and the guard whose turn it is is the      *)
(* first one outside of the loops over the guards.                         *)
LEMMA LoopInduction == LoopOK /\ DebounceInv /\ [Next]_vars => LoopOK'
<1> SUFFICES ASSUME LoopOK, DebounceInv, [Next]_vars PROVE LoopOK'
  OBVIOUS
<1> USE ConfigFacts DEF LoopOK
<1>1. CASE UNCHANGED loopVars
  BY <1>1 DEF loopVars
<1>2. CASE StartUp \/ Cleaned \/ Applied \/ SessionStarted \/ Started
  BY <1>2 DEF StartUp, Cleaned, Applied, SessionStarted, Started
<1>3. CASE Scan
  <2>1. pc' = "start" /\ gi' = gi /\ game' = game /\ pc = "scan"
    BY <1>3 DEF Scan
  <2>2. starts' \subseteq Games
    BY <1>3 DEF Scan
  <2> QED
    BY <2>1, <2>2
<1>4. ASSUME NEW g \in Games, NextStart(g) \/ NextStop(g) \/ Drain(g) PROVE LoopOK'
  BY <1>4 DEF NextStart, NextStop, Drain, EndSession
<1>5. CASE Preempt \/ Restore \/ Halt
  BY <1>5 DEF Preempt, Restore, Halt
<1>6. CASE Reverted \/ SessionEnded \/ Stopped \/ PollDone \/ Shutdown \/ Drained
  BY <1>6 DEF Reverted, SessionEnded, Stopped, PollDone, Shutdown, Drained
<1>7. CASE Sleep
  <2>1. pc = "sleep" /\ pc' = "scan" /\ UNCHANGED <<starts, game, gi>>
    BY <1>7, Zenon DEF Sleep
  <2> QED
    BY <2>1
<1>8. CASE Exit \/ Kill
  BY <1>8 DEF Exit, Kill, Forget
<1>9. CASE CleanRule \/ Apply \/ Revert \/ Signal \/ Flush \/ UNCHANGED vars
  BY <1>1, <1>9 DEF CleanRule, Apply, Revert, Signal, Flush, vars, posVars, loopVars
<1>10. ASSUME NEW i \in GuardIds,
              \/ PollUncovered(i) \/ PollStopped(i) \/ PollNoPid(i) \/ PollFails(i)
              \/ PollHigh(i) \/ PollLow(i) \/ Fire(i)
       PROVE  LoopOK'
  <2>1. pc = "gpu" /\ gi = i /\ gi' \in {gi + 1, Len(Guards) + 1}
        /\ UNCHANGED <<pc, starts, game>>
    BY <1>10 DEF PollUncovered, PollStopped, PollNoPid, PollFails, PollHigh, PollLow, Fire,
       Sampled, Polling, PollEnds
  <2> QED
    BY <2>1
<1> QED
  BY <1>2, <1>3, <1>4, <1>5, <1>6, <1>7, <1>8, <1>9, <1>10 DEF Next, Loop

(* Every step keeps what the guards remember.                              *)
LEMMA GuardsInduction == GuardsOK /\ LoopOK /\ [Next]_vars => GuardsOK'
<1> SUFFICES ASSUME GuardsOK, LoopOK, [Next]_vars PROVE GuardsOK'
  OBVIOUS
<1>1. gi \in Nat /\ gi \in 1..Len(Guards) + 1 /\ Len(Guards) \in Nat
  BY ConfigFacts DEF LoopOK
<1>2. CASE Exit \/ Kill
  BY <1>2, GuardsForget DEF Exit, Kill
<1>3. CASE Sleep
  BY <1>3, SleepFacts
<1>4. ASSUME NEW i \in GuardIds, Fire(i) \/ PollHigh(i) \/ PollLow(i) PROVE GuardsOK'
  BY <1>1, <1>4, FireKeeps, SpikeKeeps, LowKeeps
<1>5. ASSUME NEW i \in GuardIds, PollUncovered(i) \/ PollNoPid(i) PROVE GuardsOK'
  BY <1>1, <1>5, GuardIdles DEF PollUncovered, PollNoPid, PollEnds
<1>6. ASSUME NEW i \in GuardIds, PollStopped(i) \/ PollFails(i) PROVE GuardsOK'
  <2>1. gi = i /\ UNCHANGED <<pc, guard, quiet, fired>> /\ gi' \in {gi + 1, Len(Guards) + 1}
    BY <1>6 DEF PollStopped, PollFails, Sampled, Polling, PollEnds
  <2>2. gi' \in Nat /\ gi' >= gi
    BY <2>1, <1>1
  <2> QED
    BY <2>1, <2>2, <1>1, GuardsKept
<1>7. CASE Preempt
  <2>1. gi \in GuardIds /\ gi' = gi + 1 /\ UNCHANGED <<pc, quiet, fired>>
    BY <1>7 DEF Preempt, pastVars
  <2>2. CASE guard' = [guard EXCEPT ![gi] = Idle(@)]
    BY <2>1, <2>2, <1>1, GuardIdles
  <2>3. CASE UNCHANGED guard
    BY <2>1, <2>3, <1>1, GuardsKept
  <2> QED
    BY <2>2, <2>3, <1>7 DEF Preempt
<1>8. CASE Restore
  <2>1. gi \in GuardIds /\ gi' = gi + 1 /\ UNCHANGED <<pc, quiet>>
    BY <1>8 DEF Restore
  <2>2. CASE guard' = [guard EXCEPT ![gi] = FreshGuard] /\ fired' = [fired EXCEPT ![gi] = {}]
    <3>1. PICK i \in GuardIds : i = gi
      BY <2>1
    <3>2. /\ guard' \in [GuardIds -> GuardState] /\ guard'[i] = FreshGuard
          /\ fired' \in [GuardIds -> SUBSET Nat] /\ fired'[i] = {}
          /\ quiet' \in [GuardIds -> Int] /\ quiet'[i] = quiet[i]
          /\ \A j \in GuardIds : j # i =>
               guard'[j] = guard[j] /\ quiet'[j] = quiet[j] /\ fired'[j] = fired[j]
      BY <2>1, <2>2, <3>1, FreshFacts DEF GuardsOK
    <3>3. GuardOK(i)
      BY DEF GuardsOK
    <3>4. GuardOK(i)'
      BY <3>2, <3>3, FreshFacts, ConfigFacts DEF GuardOK, NotBelow
    <3>5. gi' > gi /\ gi' \in Nat
      BY <2>1, <1>1
    <3> QED
      BY <1>1, <2>1, <3>2, <3>4, <3>5, OneGuardChanges
  <2>3. CASE UNCHANGED <<guard, fired>>
    BY <2>1, <2>3, <1>1, GuardsKept
  <2> QED
    BY <2>2, <2>3, <1>8 DEF Restore
<1>9. CASE Halt
  <2>1. gi \in GuardIds /\ gi' = gi + 1 /\ UNCHANGED <<pc, quiet, fired>>
    BY <1>9 DEF Halt, pastVars
  <2>2. CASE guard' = [guard EXCEPT ![gi].mode = "Normal"]
    <3> DEFINE gs == [guard[gi] EXCEPT !.mode = "Normal"]
    <3>1. guard[gi] \in GuardState /\ GuardOK(gi)
      BY <2>1 DEF GuardsOK
    <3>2. /\ gs \in GuardState /\ gs.phase = guard[gi].phase /\ gs.below = guard[gi].below
          /\ gs.history = guard[gi].history
      BY <3>1 DEF GuardState
    <3>3. guard' = [guard EXCEPT ![gi] = gs]
      BY <2>2, Zenon
    <3> HIDE DEF gs
    <3>4. /\ guard' \in [GuardIds -> GuardState] /\ guard'[gi] = gs
          /\ \A j \in GuardIds : j # gi => guard'[j] = guard[j]
      BY <2>1, <3>2, <3>3 DEF GuardsOK
    <3>5. ASSUME NEW j \in GuardIds PROVE GuardOK(j)'
      <4>1. GuardOK(j) /\ quiet'[j] = quiet[j] /\ fired'[j] = fired[j] /\ (j < gi => j < gi')
        BY <2>1, <1>1, ConfigFacts DEF GuardsOK
      <4>2. /\ guard'[j].phase = guard[j].phase /\ guard'[j].below = guard[j].below
            /\ guard'[j].history = guard[j].history
        BY <3>2, <3>4
      <4> QED
        BY <4>1, <4>2, <2>1 DEF GuardOK
    <3> QED
      BY <2>1, <3>4, <3>5 DEF GuardsOK
  <2>3. CASE UNCHANGED guard
    BY <2>1, <2>3, <1>1, GuardsKept
  <2> QED
    BY <2>2, <2>3, <1>9 DEF Halt
<1>10. CASE \/ StartUp \/ Cleaned \/ Applied \/ SessionStarted \/ Started \/ Reverted
            \/ SessionEnded \/ Stopped
  <2>1. UNCHANGED <<guard, quiet, fired>> /\ pc \notin {"gpu", "sleep"}
    BY <1>10 DEF StartUp, Cleaned, Applied, SessionStarted, Started, Reverted, SessionEnded,
       Stopped, memVars, pastVars
  <2> QED
    BY <2>1, <1>1, GuardsKept
<1>11. CASE PollDone \/ Shutdown \/ Drained \/ Scan
  <2>1. UNCHANGED <<guard, quiet, fired>> /\ (pc \notin {"gpu", "sleep"} \/ pc' = "sleep")
    BY <1>11 DEF PollDone, Shutdown, Drained, Scan, memVars, pastVars
  <2> QED
    BY <2>1, <1>1, GuardsKept
<1>12. ASSUME NEW g \in Games, NextStart(g) \/ NextStop(g) \/ Drain(g) PROVE GuardsOK'
  <2>1. UNCHANGED <<guard, quiet, fired>> /\ pc \notin {"gpu", "sleep"}
    BY <1>12 DEF NextStart, NextStop, Drain, memVars, pastVars
  <2> QED
    BY <2>1, <1>1, GuardsKept
<1>13. CASE CleanRule \/ Apply \/ Revert \/ Signal \/ Flush \/ UNCHANGED vars
  <2>1. UNCHANGED <<guard, quiet, fired, pc, gi>>
    BY <1>13 DEF CleanRule, Apply, Revert, Signal, Flush, vars, posVars, memVars, pastVars
  <2> QED
    BY <2>1, <1>1, GuardsKept
<1> QED
  BY <1>2, <1>3, <1>4, <1>5, <1>6, <1>7, <1>8, <1>9, <1>10, <1>11, <1>12, <1>13
    DEF Next, Loop

(* A guard that fires has settled, and the quiet is as old as that.        *)
LEMMA QuietStep ==
  ASSUME GuardsOK, LoopOK, [Next]_vars, NEW i \in GuardIds, pc = "gpu", 0 \in fired'[i] \ fired[i]
  PROVE  quiet[i] >= Guards[i].settle
<1>1. GuardOK(i)
  BY DEF GuardsOK
<1>2. CASE Fire(i)
  <2>1. Settled(i) /\ gi = i
    BY <1>2, FireFacts
  <2> QED
    BY <1>1, <2>1, ConfigFacts DEF GuardOK, Settled, Anchor, NotBelow
<1>3. ASSUME NEW j \in GuardIds, j # i, Fire(j) PROVE FALSE
  BY <1>3, FireFacts DEF GuardsOK
<1>4. CASE UNCHANGED fired
  BY <1>4
<1>5. ASSUME NEW j \in GuardIds,
             \/ PollUncovered(j) \/ PollStopped(j) \/ PollNoPid(j) \/ PollFails(j)
             \/ PollHigh(j) \/ PollLow(j)
      PROVE  UNCHANGED fired
  BY <1>5 DEF PollUncovered, PollStopped, PollNoPid, PollFails, PollHigh, PollLow
<1>6. CASE Kill
  BY <1>6 DEF Kill, Forget
<1>7. CASE PollDone \/ Signal \/ Flush \/ UNCHANGED vars
  BY <1>4, <1>7 DEF PollDone, Signal, Flush, vars, pastVars
<1>8. Next => \/ Kill \/ PollDone \/ Signal \/ Flush
              \/ \E j \in GuardIds : \/ PollUncovered(j) \/ PollStopped(j) \/ PollNoPid(j)
                                     \/ PollFails(j) \/ PollHigh(j) \/ PollLow(j) \/ Fire(j)
  <2>1. ~(CleanRule \/ Cleaned \/ Scan \/ Apply \/ Applied \/ Preempt \/ SessionStarted \/ Started)
    BY DEF CleanRule, Cleaned, Scan, Apply, Applied, Preempt, SessionStarted, Started
  <2>2. ~(Revert \/ Reverted \/ Restore \/ SessionEnded \/ Stopped)
    BY DEF Revert, Reverted, Restore, SessionEnded, Stopped
  <2>3. ~(Shutdown \/ Drained \/ Halt \/ Exit \/ StartUp)
    BY DEF Shutdown, Drained, Halt, Exit, StartUp
  <2>4. ~ Sleep
    BY Zenon DEF Sleep
  <2>5. ~ \E g \in Games : NextStart(g) \/ NextStop(g) \/ Drain(g)
    BY DEF NextStart, NextStop, Drain
  <2> QED
    BY <2>1, <2>2, <2>3, <2>4, <2>5 DEF Next, Loop
<1> QED
  BY <1>2, <1>3, <1>4, <1>5, <1>6, <1>7, <1>8

(* The fires that count for an escalation are different fires, so there    *)
(* are as many of them in the history variable.                            *)
LEMMA FiresCounted ==
  ASSUME GuardsOK, NEW i \in GuardIds, Fire(i)
  PROVE  /\ Len(HistoryAfter(i)) \in Nat /\ Cardinality(fired'[i]) \in Nat
         /\ Len(HistoryAfter(i)) <= Cardinality(fired'[i])
<1> DEFINE h == Recent(guard[i].history, Guards[i].window)
<1>1. /\ guard[i] \in GuardState /\ GuardOK(i) /\ h \in Seq(Nat) /\ pc = "gpu" /\ gi = i
      /\ fired'[i] = fired[i] \cup {0}
  BY FireFacts DEF GuardsOK
<1>2. guard[i].history \in Seq(Nat)
  BY <1>1 DEF GuardState
<1>3. /\ \A k \in DOMAIN h : h[k] <= Guards[i].window
                             /\ \E m \in DOMAIN guard[i].history : h[k] = guard[i].history[m]
      /\ \A k, l \in DOMAIN h : k < l => h[l] < h[k]
  BY <1>1, <1>2, RecentFacts, ConfigFacts DEF GuardOK
<1>4. \A k \in DOMAIN h : h[k] \in fired[i]
  BY <1>1, <1>3 DEF GuardOK
<1>5. 0 \notin fired[i]
  BY <1>1, ConfigFacts DEF GuardOK
<1>6. IsFiniteSet(fired[i])
  <2>1. fired[i] \subseteq 0..Guards[i].window /\ Guards[i].window \in Int
    BY <1>1, ConfigFacts DEF GuardOK
  <2>2. IsFiniteSet(0..Guards[i].window)
    BY <2>1, FS_Interval
  <2> QED
    BY <2>1, <2>2, FS_Subset
<1>7. Len(HistoryAfter(i)) = Len(h) + 1 /\ Len(h) \in Nat /\ DOMAIN h = 1..Len(h)
  BY <1>1 DEF HistoryAfter
<1>8. \A k, l \in DOMAIN h : h[k] = h[l] => k = l
  <2>1. \A k \in DOMAIN h : h[k] \in Nat
    BY <1>1
  <2>2. \A k, l \in DOMAIN h : k = l \/ k < l \/ l < k
    BY <1>7
  <2> QED
    BY <1>3, <2>1, <2>2
<1> HIDE DEF h
<1>9. Len(h) <= Cardinality(fired[i])
  <2> DEFINE f == [k \in 1..Len(h) |-> h[k]]
  <2>1. f \in Injection(1..Len(h), fired[i])
    BY <1>4, <1>7, <1>8 DEF Injection, IsInjective
  <2>2. Cardinality(1..Len(h)) = Len(h)
    BY <1>7, FS_Interval
  <2> QED
    BY <1>6, <2>1, <2>2, FS_Injection
<1>10. Cardinality(fired'[i]) = Cardinality(fired[i]) + 1 /\ Cardinality(fired[i]) \in Nat
  BY <1>1, <1>5, <1>6, FS_AddElement, FS_CardinalityType
<1> QED
  BY <1>7, <1>9, <1>10

(* A command changes one service, and the one it names is as the verb says *)
(* unless the command failed.                                              *)
LEMMA SystemctlFacts ==
  ASSUME NEW verb, NEW s, Systemctl(verb, s)
  PROVE  /\ \A t : t # s => (t \in up' <=> t \in up) /\ (t \in lost' <=> t \in lost)
         /\ s \in lost' \/ (s \in up' <=> verb # "stop")
         /\ up' \subseteq up \cup {s} /\ lost' \subseteq lost \cup {s}
BY DEF Systemctl, Fault

(* The steps that change neither a service nor whether a guard holds it.   *)
LEMMA ServiceBystanders ==
  ASSUME GuardsOK,
         \/ StartUp \/ CleanRule \/ Cleaned \/ Scan \/ Apply \/ Applied \/ SessionStarted
         \/ Started \/ Revert \/ Reverted \/ SessionEnded \/ Stopped \/ PollDone \/ Sleep
         \/ Signal \/ Shutdown \/ Drained \/ Flush \/ UNCHANGED vars
         \/ \E g \in Games : NextStart(g) \/ NextStop(g) \/ Drain(g)
         \/ \E i \in GuardIds : \/ PollUncovered(i) \/ PollStopped(i) \/ PollNoPid(i)
                                \/ PollFails(i) \/ PollHigh(i) \/ PollLow(i)
  PROVE  /\ UNCHANGED <<up, lost>>
         /\ \A i \in GuardIds : guard'[i].mode = guard[i].mode
         /\ pc' = "halt" => gi' = 1 \/ UNCHANGED <<pc, gi>>
<1> USE DEF posVars, memVars, pastVars, vars
<1>1. CASE StartUp \/ CleanRule \/ Cleaned \/ Scan \/ Apply \/ Applied \/ SessionStarted
  BY <1>1 DEF StartUp, CleanRule, Cleaned, Scan, Apply, Applied, SessionStarted
<1>2. CASE Started \/ Revert \/ Reverted \/ SessionEnded \/ Stopped \/ UNCHANGED vars
  BY <1>2 DEF Started, Revert, Reverted, SessionEnded, Stopped
<1>3. CASE PollDone \/ Signal \/ Shutdown \/ Drained \/ Flush
  BY <1>3 DEF PollDone, Signal, Shutdown, Drained, Flush
<1>4. CASE Sleep
  <2>1. pc' = "scan" /\ UNCHANGED <<up, lost>>
    BY <1>4, Zenon DEF Sleep
  <2> QED
    BY <1>4, <2>1, SleepFacts
<1>5. ASSUME NEW g \in Games, NextStart(g) \/ NextStop(g) \/ Drain(g)
      PROVE  UNCHANGED <<up, lost, guard>> /\ pc' # "halt"
  BY <1>5 DEF NextStart, NextStop, Drain
<1>6. ASSUME NEW i \in GuardIds, PollStopped(i) \/ PollFails(i)
      PROVE  UNCHANGED <<up, lost, guard>> /\ pc' # "halt"
  BY <1>6 DEF PollStopped, PollFails, Sampled, Polling, PollEnds, NoSystemctl
<1>7. ASSUME NEW i \in GuardIds, PollUncovered(i) \/ PollNoPid(i)
      PROVE  UNCHANGED <<up, lost>> /\ pc' # "halt"
             /\ \A j \in GuardIds : guard'[j].mode = guard[j].mode
  <2>1. UNCHANGED <<up, lost, pc>> /\ pc = "gpu" /\ guard' = [guard EXCEPT ![i] = Idle(@)]
    BY <1>7 DEF PollUncovered, PollNoPid, Sampled, Polling, PollEnds, NoSystemctl
  <2> QED
    BY <2>1, IdleFacts DEF GuardsOK
<1>8. ASSUME NEW i \in GuardIds, PollHigh(i)
      PROVE  UNCHANGED <<up, lost>> /\ pc' # "halt"
             /\ \A j \in GuardIds : guard'[j].mode = guard[j].mode
  <2>1. UNCHANGED <<up, lost, pc>> /\ pc = "gpu" /\ guard' = [guard EXCEPT ![i] = AfterSpike(@)]
    BY <1>8 DEF PollHigh, Sampled, Polling, PollEnds, NoSystemctl
  <2> QED
    BY <2>1, SpikeFacts DEF GuardsOK
<1>9. ASSUME NEW i \in GuardIds, PollLow(i)
      PROVE  UNCHANGED <<up, lost>> /\ pc' # "halt"
             /\ \A j \in GuardIds : guard'[j].mode = guard[j].mode
  <2>1. UNCHANGED <<up, lost, pc>> /\ pc = "gpu"
    BY <1>9 DEF PollLow, Sampled, Polling, PollEnds, NoSystemctl
  <2>2. guard' = IF guard[i].phase = "Active"
                 THEN [guard EXCEPT ![i].below = Anchor(guard[i])] ELSE guard
    BY <1>9 DEF PollLow
  <2>3. CASE guard' = [guard EXCEPT ![i].below = Anchor(guard[i])]
    <3> DEFINE gs == [guard[i] EXCEPT !.below = Anchor(guard[i])]
    <3>1. guard' = [guard EXCEPT ![i] = gs]
      BY <2>3, Zenon
    <3>2. gs.mode = guard[i].mode
      BY DEF GuardsOK, GuardState
    <3> HIDE DEF gs
    <3> QED
      BY <2>1, <3>1, <3>2 DEF GuardsOK
  <2> QED
    BY <2>1, <2>2, <2>3
<1> QED
  BY <1>1, <1>2, <1>3, <1>4, <1>5, <1>6, <1>7, <1>8, <1>9

(* Preempting restarts the service of a guard that does not hold it.       *)
LEMMA PreemptFacts ==
  ASSUME GuardsOK, Preempt
  PROVE  /\ gi \in GuardIds /\ gi' = gi + 1 /\ UNCHANGED <<pc, game, active>> /\ pc = "preempt"
         /\ \A j \in GuardIds : guard'[j].mode = guard[j].mode
         /\ \/ UNCHANGED <<up, lost>>
            \/ guard[gi].mode # "Stopped" /\ Systemctl("restart", Guards[gi].service)
<1>1. /\ gi \in GuardIds /\ gi' = gi + 1 /\ UNCHANGED <<pc, game, active>> /\ pc = "preempt"
  BY DEF Preempt
<1>2. CASE /\ MustPreempt(gi)
           /\ Systemctl("restart", Guards[gi].service)
           /\ guard' = [guard EXCEPT ![gi] = Idle(@)]
  BY <1>1, <1>2, IdleFacts DEF MustPreempt, GuardsOK
<1>3. CASE ~MustPreempt(gi) /\ NoSystemctl /\ UNCHANGED guard
  BY <1>1, <1>3 DEF NoSystemctl
<1> QED
  BY <1>2, <1>3 DEF Preempt

(* Restoring starts the service of one guard, which holds it no longer.    *)
LEMMA RestoreFacts ==
  ASSUME GuardsOK, Restore
  PROVE  /\ gi \in GuardIds /\ gi' = gi + 1 /\ UNCHANGED <<pc, game, active>> /\ pc = "restore"
         /\ \A j \in GuardIds : j # gi => guard'[j].mode = guard[j].mode
         /\ \/ UNCHANGED <<up, lost, guard>> /\ ~MustRestore(gi)
            \/ /\ MustRestore(gi) /\ guard'[gi].mode = "Normal"
               /\ Systemctl("start", Guards[gi].service)
<1>1. /\ gi \in GuardIds /\ gi' = gi + 1 /\ UNCHANGED <<pc, game, active>> /\ pc = "restore"
  BY DEF Restore
<1>2. CASE /\ MustRestore(gi)
           /\ Systemctl("start", Guards[gi].service)
           /\ guard' = [guard EXCEPT ![gi] = FreshGuard]
  BY <1>1, <1>2, FreshFacts DEF GuardsOK
<1>3. CASE ~MustRestore(gi) /\ NoSystemctl /\ UNCHANGED guard
  BY <1>1, <1>3 DEF NoSystemctl
<1> QED
  BY <1>2, <1>3 DEF Restore

(* So does the end of the daemon, guard by guard.                          *)
LEMMA HaltFacts ==
  ASSUME GuardsOK, Halt
  PROVE  /\ gi \in GuardIds /\ gi' = gi + 1 /\ UNCHANGED <<pc, game, active>> /\ pc = "halt"
         /\ \A j \in GuardIds : j # gi => guard'[j].mode = guard[j].mode
         /\ guard'[gi].mode = "Normal"
         /\ \/ UNCHANGED <<up, lost, guard>>
            \/ guard[gi].mode = "Stopped" /\ Systemctl("start", Guards[gi].service)
<1>1. /\ gi \in GuardIds /\ gi' = gi + 1 /\ UNCHANGED <<pc, game, active>> /\ pc = "halt"
  BY DEF Halt
<1>2. CASE /\ MustStart(gi)
           /\ Systemctl("start", Guards[gi].service)
           /\ guard' = [guard EXCEPT ![gi].mode = "Normal"]
  <2> DEFINE gs == [guard[gi] EXCEPT !.mode = "Normal"]
  <2>1. guard' = [guard EXCEPT ![gi] = gs]
    BY <1>2, Zenon
  <2>2. gs.mode = "Normal"
    BY <1>1 DEF GuardsOK, GuardState
  <2> HIDE DEF gs
  <2> QED
    BY <1>1, <1>2, <2>1, <2>2 DEF GuardsOK, MustStart
<1>3. CASE ~MustStart(gi) /\ NoSystemctl /\ UNCHANGED guard
  BY <1>1, <1>3 DEF NoSystemctl, GuardsOK, GuardState, MustStart
<1> QED
  BY <1>2, <1>3 DEF Halt
(* A service is down exactly when its guard holds it, and the daemon gives *)
(* them back in order when it ends.                                        *)
ServicesOK ==
  /\ up \subseteq Services /\ lost \subseteq Services
  /\ DownIsHeld
  /\ pc = "halt" => \A i \in GuardIds : i < gi => guard[i].mode # "Stopped"

(* No two guards share a service.                                          *)
LEMMA ServiceConfig ==
  /\ \A i \in GuardIds : Guards[i].service \in Services
  /\ \A i, j \in GuardIds : i # j => Guards[i].service # Guards[j].service
BY ConfigFacts DEF Services

(* At first everything runs and nothing is held.                           *)
LEMMA ServicesInit == Init => ServicesOK
<1> SUFFICES ASSUME Init PROVE ServicesOK
  OBVIOUS
<1>1. guard = [i \in GuardIds |-> FreshGuard] /\ up = Services /\ lost = {} /\ pc = "off"
  BY DEF Init
<1> QED
  BY <1>1, FreshFacts, ServiceConfig DEF ServicesOK, DownIsHeld

(* Every step keeps services and guards in line.                           *)
LEMMA ServicesInduction == ServicesOK /\ GuardsOK /\ LoopOK /\ [Next]_vars => ServicesOK'
<1> SUFFICES ASSUME ServicesOK, GuardsOK, LoopOK, [Next]_vars PROVE ServicesOK'
  OBVIOUS
<1>1. gi \in Nat /\ gi \in 1..Len(Guards) + 1 /\ GuardIds = 1..Len(Guards) /\ Len(Guards) \in Nat
  BY ConfigFacts DEF LoopOK
<1>2. CASE \/ StartUp \/ CleanRule \/ Cleaned \/ Scan \/ Apply \/ Applied \/ SessionStarted
           \/ Started \/ Revert \/ Reverted \/ SessionEnded \/ Stopped \/ PollDone \/ Sleep
           \/ Signal \/ Shutdown \/ Drained \/ Flush \/ UNCHANGED vars
           \/ \E g \in Games : NextStart(g) \/ NextStop(g) \/ Drain(g)
           \/ \E i \in GuardIds : \/ PollUncovered(i) \/ PollStopped(i) \/ PollNoPid(i)
                                  \/ PollFails(i) \/ PollHigh(i) \/ PollLow(i)
  <2>1. /\ UNCHANGED <<up, lost>>
        /\ \A i \in GuardIds : guard'[i].mode = guard[i].mode
        /\ pc' = "halt" => gi' = 1 \/ UNCHANGED <<pc, gi>>
    BY <1>2, ServiceBystanders
  <2>2. DownIsHeld'
    BY <2>1 DEF ServicesOK, DownIsHeld
  <2>3. \A i \in GuardIds : ~(i < 1)
    BY <1>1
  <2> QED
    BY <2>1, <2>2, <2>3 DEF ServicesOK
<1>3. CASE Preempt
  <2>1. DownIsHeld'
    BY <1>3, PreemptFacts, SystemctlFacts, ServiceConfig DEF ServicesOK, DownIsHeld
  <2> QED
    BY <1>3, <2>1, PreemptFacts, SystemctlFacts, ServiceConfig DEF ServicesOK
<1>4. CASE Restore
  <2>1. DownIsHeld'
    BY <1>4, RestoreFacts, SystemctlFacts, ServiceConfig DEF ServicesOK, DownIsHeld
  <2> QED
    BY <1>4, <2>1, RestoreFacts, SystemctlFacts, ServiceConfig DEF ServicesOK
<1>5. CASE Halt
  <2>1. DownIsHeld'
    BY <1>5, HaltFacts, SystemctlFacts, ServiceConfig DEF ServicesOK, DownIsHeld
  <2>2. \A i \in GuardIds : i < gi' => i < gi \/ i = gi
    BY <1>1, <1>5, HaltFacts
  <2> QED
    BY <1>5, <2>1, <2>2, HaltFacts, SystemctlFacts, ServiceConfig DEF ServicesOK
<1>6. ASSUME NEW i \in GuardIds, Fire(i) PROVE ServicesOK'
  <2> DEFINE action == IF Escalates(i) THEN Guards[i].escalation ELSE Guards[i].action
  <2>1. /\ pc' = "gpu" /\ guard[i].mode = "Normal"
        /\ Systemctl(action, Guards[i].service)
        /\ \A j \in GuardIds : j # i => guard'[j] = guard[j]
        /\ guard'[i].mode = IF action = "stop" THEN "Stopped" ELSE guard[i].mode
    BY <1>6, FireFacts DEF GuardState
  <2> HIDE DEF action
  <2>2. DownIsHeld'
    BY <2>1, SystemctlFacts, ServiceConfig DEF ServicesOK, DownIsHeld
  <2> QED
    BY <2>1, <2>2, SystemctlFacts, ServiceConfig DEF ServicesOK
<1>7. CASE Exit
  <2>1. /\ pc = "halt" /\ gi \notin GuardIds /\ UNCHANGED <<up, lost>> /\ pc' = "off"
        /\ guard' = [i \in GuardIds |-> FreshGuard]
    BY <1>7 DEF Exit, Forget
  <2>2. \A i \in GuardIds : i < gi
    BY <2>1, <1>1
  <2> QED
    BY <2>1, <2>2, FreshFacts DEF ServicesOK, DownIsHeld
<1>8. CASE Kill
  <2>1. /\ up' = up /\ lost' = lost \cup (Services \ up) /\ pc' = "off"
        /\ guard' = [i \in GuardIds |-> FreshGuard]
    BY <1>8 DEF Kill, Forget
  <2> QED
    BY <2>1, FreshFacts, ServiceConfig DEF ServicesOK, DownIsHeld
<1> QED
  BY <1>2, <1>3, <1>4, <1>5, <1>6, <1>7, <1>8 DEF Next, Loop
(* A game of the escalation has a session.                                 *)
Covered(i) == Guards[i].applies \cap DOMAIN active # {}

(* Restoring has been done for the guards the loop has passed.             *)
RestoredSoFar ==
  pc = "restore" =>
    \A i \in GuardIds :
      /\ i < gi /\ Guards[i].action = "restart" /\ guard[i].mode = "Stopped"
      /\ game \in Guards[i].applies
      => Covered(i)

EscalationInv == StoppedHasGame /\ RestoredSoFar

(* At first nothing is stopped.                                            *)
LEMMA EscalationInit == Init => EscalationInv
<1> SUFFICES ASSUME Init PROVE EscalationInv
  OBVIOUS
<1>1. guard = [i \in GuardIds |-> FreshGuard] /\ pc = "off"
  BY DEF Init
<1> QED
  BY <1>1, FreshFacts DEF EscalationInv, StoppedHasGame, RestoredSoFar

(* A fire that stops a service escalates, unless stopping is all that the  *)
(* guard does.                                                             *)
LEMMA FireModes ==
  ASSUME GuardsOK, NEW i \in GuardIds, Fire(i)
  PROVE  /\ \A j \in GuardIds : j # i => guard'[j] = guard[j]
         /\ Guards[i].action = "restart" /\ guard'[i].mode = "Stopped" =>
              Escalates(i)
         /\ guard[i].mode = "Normal"
         /\ UNCHANGED <<pc, game, active>> /\ pc = "gpu"
BY FireFacts, ConfigFacts DEF GuardState

(* Every step keeps the stopped services to the games that run.            *)
LEMMA EscalationInduction ==
  EscalationInv /\ GuardsOK /\ LoopOK /\ [Next]_vars => EscalationInv'
<1> SUFFICES ASSUME EscalationInv, GuardsOK, LoopOK, [Next]_vars PROVE EscalationInv'
  OBVIOUS
<1> USE DEF EscalationInv, StoppedHasGame, RestoredSoFar, Covered
<1>1. CASE CleanRule \/ Apply \/ Revert \/ Signal \/ Flush \/ UNCHANGED vars
  <2>1. UNCHANGED <<pc, gi, game, active, guard>>
    BY <1>1 DEF CleanRule, Apply, Revert, Signal, Flush, vars, posVars, memVars
  <2> QED
    BY <2>1
<1>2. CASE \/ StartUp \/ Cleaned \/ Scan \/ Applied \/ Started \/ Stopped \/ PollDone \/ Sleep
           \/ Shutdown \/ Drained \/ (\E g \in Games : NextStart(g))
  <2>1. /\ pc \notin {"drain", "undo", "halt", "revert", "restore"} \/ pc' = "halt"
        /\ pc' \notin {"restore", "revert"} /\ UNCHANGED active
    <3>1. CASE Sleep
      BY <3>1, Zenon DEF Sleep
    <3>2. CASE StartUp \/ Cleaned \/ Scan \/ Applied \/ Started
      BY <3>2 DEF StartUp, Cleaned, Scan, Applied, Started, memVars
    <3>3. CASE Stopped \/ PollDone \/ Shutdown \/ Drained \/ \E g \in Games : NextStart(g)
      BY <3>3 DEF Stopped, PollDone, Shutdown, Drained, NextStart, memVars
    <3> QED
      BY <1>2, <3>1, <3>2, <3>3
  <2>2. \A i \in GuardIds : guard'[i].mode = guard[i].mode
    BY <1>2, ServiceBystanders
  <2> QED
    BY <2>1, <2>2
<1>3. ASSUME NEW i \in GuardIds,
             \/ PollUncovered(i) \/ PollStopped(i) \/ PollNoPid(i) \/ PollFails(i)
             \/ PollHigh(i) \/ PollLow(i)
      PROVE  EscalationInv'
  <2>1. pc = "gpu" /\ UNCHANGED <<pc, game, active>>
    BY <1>3
      DEF PollUncovered, PollStopped, PollNoPid, PollFails, PollHigh, PollLow, Sampled,
       Polling, PollEnds
  <2>2. \A j \in GuardIds : guard'[j].mode = guard[j].mode
    BY <1>3, ServiceBystanders
  <2> QED
    BY <2>1, <2>2
<1>4. ASSUME NEW i \in GuardIds, Fire(i) PROVE EscalationInv'
  BY <1>4, FireModes DEF Escalates
<1>5. CASE Preempt
  BY <1>5, PreemptFacts
<1>6. CASE SessionStarted
  <2>1. /\ pc = "preempt" /\ pc' = "start" /\ DOMAIN active \subseteq DOMAIN active'
        /\ guard' = guard
    BY <1>6 DEF SessionStarted, WithSession
  <2> QED
    BY <2>1
<1>7. ASSUME NEW g \in Games, NextStop(g) PROVE EscalationInv'
  <2>1. pc = "stop" /\ guard' = guard
    BY <1>7 DEF NextStop
  <2>2. CASE g \in DOMAIN active /\ EndSession(g) /\ pc' = "revert"
    <3>1. game' = g /\ DOMAIN active' = DOMAIN active \ {g}
      BY <2>2 DEF EndSession, Restrict
    <3> QED
      BY <2>1, <2>2, <3>1
  <2>3. CASE UNCHANGED <<active, game, pc>>
    BY <2>1, <2>3
  <2> QED
    BY <1>7, <2>2, <2>3 DEF NextStop
<1>8. CASE Reverted
  <2>1. /\ UNCHANGED <<guard, active, gi>> /\ pc \in {"revert", "undo"}
        /\ pc' = IF pc = "revert" THEN "restore" ELSE "drain"
        /\ pc = "revert" => game' = game
    BY <1>8 DEF Reverted, memVars
  <2>2. gi = 1 /\ \A i \in GuardIds : ~(i < 1)
    BY <2>1, ConfigFacts DEF LoopOK
  <2> QED
    BY <2>1, <2>2
<1>9. CASE Restore
  <2>1. /\ gi \in GuardIds /\ gi' = gi + 1 /\ UNCHANGED <<pc, game, active>> /\ pc = "restore"
        /\ \A j \in GuardIds : j # gi => guard'[j].mode = guard[j].mode
        /\ \/ guard' = guard /\ ~MustRestore(gi)
           \/ guard'[gi].mode = "Normal"
    BY <1>9, RestoreFacts
  <2>2. \A i \in GuardIds : i < gi' => i < gi \/ i = gi
    BY <2>1, ConfigFacts
  <2>3. \A i \in GuardIds : guard'[i].mode = "Stopped" => guard[i].mode = "Stopped"
    BY <2>1
  <2>4. StoppedHasGame'
    BY <2>1, <2>3
  <2>5. RestoredSoFar'
    BY <2>1, <2>2, <2>3 DEF MustRestore
  <2> QED
    BY <2>4, <2>5
<1>10. CASE SessionEnded
  <2>1. /\ UNCHANGED <<guard, active>> /\ pc = "restore" /\ pc' = "stop" /\ gi \notin GuardIds
    BY <1>10 DEF SessionEnded, memVars
  <2>2. \A i \in GuardIds : i < gi
    BY <2>1, ConfigFacts DEF LoopOK
  <2> QED
    BY <2>1, <2>2
<1>11. CASE Halt
  <2>1. pc' = "halt"
    BY <1>11, HaltFacts
  <2> QED
    BY <2>1
<1>12. ASSUME NEW g \in Games, Drain(g) PROVE EscalationInv'
  BY <1>12 DEF Drain
<1>13. CASE Exit \/ Kill
  <2>1. guard' = [i \in GuardIds |-> FreshGuard] /\ pc' = "off"
    BY <1>13 DEF Exit, Kill, Forget
  <2> QED
    BY <2>1, FreshFacts
<1> QED
  BY <1>1, <1>2, <1>3, <1>4, <1>5, <1>6, <1>7, <1>8, <1>9, <1>10, <1>11, <1>12, <1>13
     DEF Next, Loop

(* The only command that starts a service its guard holds is a restoring   *)
(* one.                                                                    *)
LEMMA StaysDownStep ==
  ASSUME GuardsOK, [Next]_vars, NEW i \in GuardIds,
         guard[i].mode = "Stopped", Guards[i].service \in up' \ up, pc # "halt"
  PROVE  Guards[i].service \in lost' \/ Guards[i].applies \cap DOMAIN active = {}
<1>1. ~ UNCHANGED <<up, lost>>
  OBVIOUS
<1>2. CASE Preempt
  <2>1. guard[gi].mode # "Stopped" /\ Systemctl("restart", Guards[gi].service) /\ gi \in GuardIds
    BY <1>1, <1>2, PreemptFacts
  <2> QED
    BY <2>1, SystemctlFacts, ServiceConfig
<1>3. CASE Restore
  <2>1. MustRestore(gi) /\ Systemctl("start", Guards[gi].service) /\ gi \in GuardIds
    BY <1>1, <1>3, RestoreFacts
  <2> QED
    BY <2>1, SystemctlFacts, ServiceConfig DEF MustRestore
<1>4. CASE Halt
  BY <1>4, HaltFacts
<1>5. ASSUME NEW j \in GuardIds, Fire(j) PROVE FALSE
  <2>1. guard[j].mode # "Stopped" /\ \E verb : Systemctl(verb, Guards[j].service)
    BY <1>5, FireFacts
  <2> QED
    BY <2>1, SystemctlFacts, ServiceConfig
<1>6. CASE Exit \/ Kill
  BY <1>6 DEF Exit, Kill
<1> QED
  BY <1>1, <1>2, <1>3, <1>4, <1>5, <1>6, ServiceBystanders DEF Next, Loop

(* The only step that stops a service is a fire that escalates.            *)
LEMMA EscalationStep ==
  ASSUME GuardsOK, [Next]_vars, NEW i \in GuardIds,
         Guards[i].action = "restart", guard[i].mode = "Normal", guard'[i].mode = "Stopped"
  PROVE  Cardinality(fired'[i]) > Guards[i].exceed
<1>1. CASE Fire(i)
  <2>1. Escalates(i)
    BY <1>1, FireModes
  <2>2. Len(HistoryAfter(i)) <= Cardinality(fired'[i]) /\ Len(HistoryAfter(i)) > Guards[i].exceed
    BY <1>1, <2>1, FiresCounted DEF Escalates
  <2>3. Len(HistoryAfter(i)) \in Nat /\ Cardinality(fired'[i]) \in Nat
    BY <1>1, FiresCounted
  <2> QED
    BY <2>2, <2>3, ConfigFacts
<1>2. ASSUME NEW j \in GuardIds, j # i, Fire(j) PROVE FALSE
  BY <1>2, FireModes
<1>3. ~Preempt /\ ~Restore /\ ~Halt
  BY PreemptFacts, RestoreFacts, HaltFacts
<1>4. ~Exit /\ ~Kill
  BY FreshFacts DEF Exit, Kill, Forget
<1> QED
  BY <1>1, <1>2, <1>3, <1>4, ServiceBystanders DEF Next, Loop

----------------------------------------------------------------------------

HeldInv == DebounceInv /\ LoopOK /\ GuardsOK /\ ServicesOK /\ EscalationInv

(* The parts hold together: those of the guards need the loop, and the     *)
(* loop the detector.                                                      *)
LEMMA HeldInvariant == Spec => []HeldInv
<1>1. Init => LoopOK
  BY ConfigFacts DEF Init, LoopOK
<1>2. Init => HeldInv
  BY <1>1, DebounceInit, GuardsInit, ServicesInit, EscalationInit DEF HeldInv
<1>3. HeldInv /\ [Next]_vars => HeldInv'
  BY DebounceInduction, LoopInduction, GuardsInduction, ServicesInduction,
      EscalationInduction
     DEF HeldInv
<1> QED
  BY <1>2, <1>3, PTL DEF Spec

(* A service is down exactly as long as its guard holds it down, whatever  *)
(* is started, stopped, preempted and restored in between, unless a        *)
(* command for it failed or the daemon was killed; a clean exit gives      *)
(* everything back.                                                        *)
THEOREM DownIffHeld == Spec => []DownIsHeld
<1>1. HeldInv => DownIsHeld
  BY DEF HeldInv, ServicesOK
<1> QED
  BY <1>1, HeldInvariant, PTL

(* A guard that restarts its service holds it down only while a game of    *)
(* its escalation has a session: the end of the last one restores it, in   *)
(* whichever order games come and go.                                      *)
THEOREM OnlyGamesKeepDown == Spec => []StoppedHasGame
<1>1. HeldInv => StoppedHasGame
  BY DEF HeldInv, EscalationInv
<1> QED
  BY <1>1, HeldInvariant, PTL

(* No other game's start or end brings back a service that is held down.   *)
THEOREM NothingElseStarts == Spec => StaysDown
<1>1. HeldInv /\ [Next]_vars =>
        [\A i \in GuardIds :
           (guard[i].mode = "Stopped" /\ Guards[i].service \in up' \ up /\ pc # "halt")
             => (Guards[i].service \in lost' \/ Guards[i].applies \cap DOMAIN active = {})]_vars
  BY StaysDownStep DEF HeldInv
<1> QED
  BY <1>1, HeldInvariant, PTL DEF Spec, StaysDown

(* A guard fires only after a spike of its own and settle_seconds without  *)
(* another since: a spike in the middle puts the fire off.                 *)
THEOREM SettledFires == Spec => QuietBeforeFire
<1>1. HeldInv /\ [Next]_vars =>
        [\A i \in GuardIds :
           (pc = "gpu" /\ 0 \in fired'[i] \ fired[i]) => quiet[i] >= Guards[i].settle]_vars
  BY QuietStep DEF HeldInv
<1> QED
  BY <1>1, HeldInvariant, PTL DEF Spec, QuietBeforeFire

(* An escalation stands on more fires within the window than the           *)
(* configuration allows, none of them counted twice and none from before   *)
(* the service was last given back.                                        *)
THEOREM FiresAddUp == Spec => EscalationEarned
<1>1. HeldInv /\ [Next]_vars =>
        [\A i \in GuardIds :
           (Guards[i].action = "restart" /\ guard[i].mode = "Normal" /\ guard'[i].mode = "Stopped")
             => Cardinality(fired'[i]) > Guards[i].exceed]_vars
  BY EscalationStep DEF HeldInv
<1> QED
  BY <1>1, HeldInvariant, PTL DEF Spec, EscalationEarned

-----------------------------------------------------------------------------
(* Rules.  The ports of a game are open exactly while the daemon has a     *)
(* session for it.  A handler that is stopped half-way leaves some of a    *)
(* game's rules in the firewall, so the invariant counts copies, and it    *)
(* knows that the rules a handler is at work on belong to a game without a *)
(* session.                                                                *)

(* Where a rule is.                                                        *)
Places(r, rules) == {k \in DOMAIN rules : rules[k] = r}

(* A rule has a number of places.                                          *)
LEMMA PlacesFinite ==
  ASSUME NEW S, NEW s \in Seq(S), NEW r
  PROVE  /\ IsFiniteSet(Places(r, s)) /\ Copies(r, s) = Cardinality(Places(r, s))
         /\ Copies(r, s) \in Nat
<1>1. IsFiniteSet(1..Len(s)) /\ Places(r, s) \subseteq 1..Len(s)
  <2>1. Len(s) \in Int /\ 1 \in Int /\ DOMAIN s = 1..Len(s)
    OBVIOUS
  <2> QED
    BY <2>1, FS_Interval DEF Places
<1>2. IsFiniteSet(Places(r, s))
  BY <1>1, FS_Subset
<1> QED
  BY <1>2, FS_CardinalityType DEF Copies, Places

(* A rule that is nowhere has no copies.                                   *)
LEMMA CopiesNone ==
  ASSUME NEW S, NEW s \in Seq(S), NEW r
  PROVE  Copies(r, s) = 0 <=> r \notin ToSet(s)
<1>1. Copies(r, s) = 0 <=> Places(r, s) = {}
  BY PlacesFinite, FS_EmptySet
<1> QED
  BY <1>1 DEF Places, ToSet

(* The copies in two sequences add up.                                     *)
LEMMA CopiesConcat ==
  ASSUME NEW S, NEW s \in Seq(S), NEW t \in Seq(S), NEW r
  PROVE  Copies(r, s \o t) = Copies(r, s) + Copies(r, t)
<1> DEFINE moved == {k \in (Len(s) + 1)..(Len(s) + Len(t)) : t[k - Len(s)] = r}
           f == [k \in Places(r, t) |-> k + Len(s)]
<1>1. /\ Len(s) \in Nat /\ Len(t) \in Nat /\ s \o t \in Seq(S)
      /\ DOMAIN s = 1..Len(s) /\ DOMAIN t = 1..Len(t)
      /\ DOMAIN (s \o t) = 1..(Len(s) + Len(t))
      /\ \A k \in 1..Len(s) : (s \o t)[k] = s[k]
      /\ \A k \in (Len(s) + 1)..(Len(s) + Len(t)) : (s \o t)[k] = t[k - Len(s)]
  OBVIOUS
<1>2. Places(r, s \o t) = Places(r, s) \cup moved
  <2>1. 1..(Len(s) + Len(t)) = (1..Len(s)) \cup ((Len(s) + 1)..(Len(s) + Len(t)))
    BY <1>1
  <2> QED
    BY <1>1, <2>1 DEF Places
<1>3. Places(r, s) \cap moved = {}
  BY <1>1 DEF Places
<1>4. f \in Bijection(Places(r, t), moved)
  <2>1. \A k \in Places(r, t) : k \in Nat /\ k + Len(s) \in moved
    BY <1>1 DEF Places
  <2>2. \A m \in moved : m - Len(s) \in Places(r, t) /\ (m - Len(s)) + Len(s) = m
    BY <1>1 DEF Places
  <2> HIDE DEF moved
  <2>3. f \in [Places(r, t) -> moved] /\ \A k, l \in Places(r, t) : f[k] = f[l] => k = l
    BY <1>1, <2>1
  <2>4. \A m \in moved : \E k \in Places(r, t) : f[k] = m
    BY <2>2
  <2> QED
    BY <2>3, <2>4 DEF Bijection, Injection, Surjection, IsInjective
<1>5. IsFiniteSet(moved) /\ Cardinality(moved) = Copies(r, t)
  BY <1>4, PlacesFinite, FS_Bijection DEF ExistsBijection
<1> HIDE DEF moved, f
<1>6. Cardinality(Places(r, s) \cup moved) = Cardinality(Places(r, s)) + Cardinality(moved) - Cardinality({})
  BY <1>3, <1>5, PlacesFinite, FS_Union
<1>7. Copies(r, s \o t) = Cardinality(Places(r, s) \cup moved)
  BY <1>1, <1>2, PlacesFinite
<1>8. /\ Copies(r, s) = Cardinality(Places(r, s)) /\ Copies(r, s) \in Nat
      /\ Copies(r, t) \in Nat /\ Cardinality({}) = 0
  BY PlacesFinite, FS_EmptySet
<1> QED
  BY <1>5, <1>6, <1>7, <1>8

(* A rule alone.                                                           *)
LEMMA CopiesOne ==
  ASSUME NEW x, NEW r
  PROVE  Copies(r, <<x>>) = IF x = r THEN 1 ELSE 0
<1>1. Places(r, <<x>>) = IF x = r THEN {1} ELSE {}
  BY DEF Places
<1>2. Copies(r, <<x>>) = Cardinality(Places(r, <<x>>))
  BY DEF Copies, Places
<1> QED
  BY <1>1, <1>2, FS_Singleton, FS_EmptySet

(* A rule put before or after others.                                      *)
LEMMA CopiesMoved ==
  ASSUME NEW S, NEW s \in Seq(S), NEW x \in S, NEW r
  PROVE  /\ Copies(r, <<x>> \o s) = Copies(r, s) + (IF x = r THEN 1 ELSE 0)
         /\ Copies(r, Append(s, x)) = Copies(r, s) + (IF x = r THEN 1 ELSE 0)
<1>1. <<x>> \in Seq(S)
  OBVIOUS
<1>2. Append(s, x) = s \o <<x>>
  OBVIOUS
<1>3. Copies(r, s) \in Nat /\ Copies(r, <<x>>) = IF x = r THEN 1 ELSE 0
  BY PlacesFinite, CopiesOne
<1>4. Copies(r, <<x>> \o s) = Copies(r, <<x>>) + Copies(r, s)
  BY <1>1, CopiesConcat
<1>5. Copies(r, s \o <<x>>) = Copies(r, s) + Copies(r, <<x>>)
  BY <1>1, CopiesConcat
<1> QED
  BY <1>2, <1>3, <1>4, <1>5

(* A rule taken from the front.                                            *)
LEMMA CopiesTail ==
  ASSUME NEW S, NEW s \in Seq(S), s # <<>>, NEW r
  PROVE  /\ Copies(r, s) = Copies(r, Tail(s)) + (IF Head(s) = r THEN 1 ELSE 0)
         /\ Tail(s) \in Seq(S) /\ Head(s) \in S /\ Head(s) \in ToSet(s)
         /\ Copies(r, Tail(s)) \in Nat
<1>1. s = <<Head(s)>> \o Tail(s) /\ Tail(s) \in Seq(S) /\ Head(s) \in S
  OBVIOUS
<1>2. Head(s) \in ToSet(s)
  BY DEF ToSet
<1>3. Copies(r, s) = Copies(r, <<Head(s)>> \o Tail(s))
  BY <1>1
<1>4. Copies(r, <<Head(s)>> \o Tail(s)) = Copies(r, Tail(s)) + (IF Head(s) = r THEN 1 ELSE 0)
  BY <1>1, CopiesMoved
<1>5. Copies(r, Tail(s)) \in Nat
  BY <1>1, PlacesFinite
<1> QED
  BY <1>1, <1>2, <1>3, <1>4, <1>5

(* The first of a rule taken out of the middle.                            *)
LEMMA CopiesRemoved ==
  ASSUME NEW S, NEW s \in Seq(S), NEW x \in ToSet(s), NEW r
  PROVE  /\ RemoveFirst(s, x) \in Seq(S)
         /\ Copies(r, RemoveFirst(s, x)) \in Nat
         /\ Copies(r, s) = Copies(r, RemoveFirst(s, x)) + (IF x = r THEN 1 ELSE 0)
<1> DEFINE at == {k \in 1..Len(s) : s[k] = x}
           m == Min(at)
           before == SubSeq(s, 1, m - 1)
           after == SubSeq(s, m + 1, Len(s))
<1>1. at # {} /\ at \in SUBSET Nat /\ Len(s) \in Nat
  BY DEF ToSet
<1>2. m \in 1..Len(s) /\ s[m] = x
  BY <1>1, MinOfNats
<1>3. RemoveFirst(s, x) = before \o after
  <2>1. RemoveFirst(s, x) = RemoveAt(s, m)
    BY <1>1, Zenon DEF RemoveFirst, SelectInSeq
  <2> QED
    BY <2>1 DEF RemoveAt
<1> HIDE DEF m
<1>4. x \in S
  BY <1>2
<1>5. before \in Seq(S) /\ after \in Seq(S) /\ <<x>> \in Seq(S) /\ <<x>> \o after \in Seq(S)
  BY <1>2, <1>4
<1>6. s = before \o (<<x>> \o after)
  <2> DEFINE back == <<x>> \o after
             whole == before \o back
  <2>1. /\ Len(before) = m - 1 /\ \A k \in 1..(m - 1) : before[k] = s[k]
        /\ Len(after) = Len(s) - m /\ \A k \in 1..(Len(s) - m) : after[k] = s[m + k]
    BY <1>2, <1>1
  <2>2. m \in Nat /\ Len(s) \in Nat /\ m <= Len(s)
    BY <1>1, <1>2
  <2> HIDE DEF before, after
  <2>3. Len(<<x>>) = 1 /\ <<x>>[1] = x
    OBVIOUS
  <2>4. /\ Len(back) = 1 + Len(after)
        /\ \A k \in 1..(1 + Len(after)) : back[k] = IF k <= 1 THEN <<x>>[k] ELSE after[k - 1]
    BY <1>5, <2>3, ConcatProperties
  <2> HIDE DEF back
  <2>5. /\ whole \in Seq(S) /\ Len(whole) = Len(before) + Len(back)
        /\ \A k \in 1..(Len(before) + Len(back)) :
             whole[k] = IF k <= Len(before) THEN before[k] ELSE back[k - Len(before)]
    BY <1>5, ConcatProperties DEF back
  <2> HIDE DEF whole
  <2>6. Len(whole) = Len(s)
    BY <2>1, <2>2, <2>4, <2>5
  <2>7. ASSUME NEW k \in 1..Len(s) PROVE whole[k] = s[k]
    <3>1. /\ k \in Nat /\ k >= 1 /\ k <= Len(s)
          /\ whole[k] = IF k <= m - 1 THEN before[k] ELSE back[k - (m - 1)]
      <4>1. k \in 1..(Len(before) + Len(back))
        BY <2>1, <2>2, <2>4, <2>7
      <4> QED
        BY <4>1, <2>1, <2>2, <2>5, <2>7
    <3>2. CASE k < m
      <4>1. k \in 1..(m - 1)
        BY <3>1, <3>2, <2>2
      <4> QED
        BY <3>1, <4>1, <2>1
    <3>3. CASE k = m
      <4>1. whole[k] = back[1]
        BY <3>1, <3>3, <2>2
      <4>2. back[1] = <<x>>[1]
        BY <2>1, <2>2, <2>4
      <4> QED
        BY <4>1, <4>2, <3>3, <2>3, <1>2
    <3>4. CASE k > m
      <4>1. whole[k] = back[k - (m - 1)] /\ k - m \in 1..(Len(s) - m)
        BY <3>1, <3>4, <2>2
      <4>2. back[k - (m - 1)] = after[k - (m - 1) - 1]
        BY <3>4, <2>1, <2>2, <2>4
      <4>3. k - (m - 1) - 1 = k - m /\ m + (k - m) = k
        BY <2>2
      <4> QED
        BY <4>1, <4>2, <4>3, <2>1
    <3> QED
      BY <3>1, <3>2, <3>3, <3>4, <2>2
  <2>8. whole = s
    BY <2>5, <2>6, <2>7, SeqEqual
  <2> QED
    BY <2>8 DEF whole, back
<1> HIDE DEF before, after
<1>7. Copies(r, s) = Copies(r, before \o (<<x>> \o after))
  BY <1>6
<1>8. Copies(r, before \o (<<x>> \o after)) = Copies(r, before) + (Copies(r, after) + (IF x = r THEN 1 ELSE 0))
  <2>1. Copies(r, <<x>> \o after) = Copies(r, after) + (IF x = r THEN 1 ELSE 0)
    BY <1>4, <1>5, CopiesMoved
  <2>2. Copies(r, before \o (<<x>> \o after)) = Copies(r, before) + Copies(r, <<x>> \o after)
    BY <1>5, CopiesConcat
  <2> QED
    BY <2>1, <2>2
<1>9. Copies(r, before \o after) = Copies(r, before) + Copies(r, after) /\ before \o after \in Seq(S)
  BY <1>5, CopiesConcat
<1>10. Copies(r, before) \in Nat /\ Copies(r, after) \in Nat
  BY <1>5, PlacesFinite
<1> QED
  BY <1>3, <1>7, <1>8, <1>9, <1>10
(* The rules of the configuration.                                         *)
Owned == UNION {ToSet(RulesOf[g]) : g \in Games}
(* A handler is at work on the rules of a game.                            *)
AtWork == pc \in {"apply", "preempt", "revert", "undo"}
(* Whose rules are where: those of a session are its game's, as are those  *)
(* of the handler, whose game has no session.                              *)
RulesTyped ==
  /\ chain \in Seq(Owned) /\ todo \in Seq(Owned) /\ got \in Seq(Owned)
  /\ DOMAIN active \subseteq Games /\ active \in [DOMAIN active -> Seq(Owned)]
  /\ \A g \in DOMAIN active : ToSet(active[g]) \subseteq ToSet(RulesOf[g])
  /\ AtWork => /\ game \in Games \ DOMAIN active
               /\ ToSet(todo) \subseteq ToSet(RulesOf[game])
               /\ ToSet(got) \subseteq ToSet(RulesOf[game])
  /\ pc \notin {"apply", "preempt"} => got = <<>>
  /\ pc \in {"off", "clean", "halt"} => DOMAIN active = {}
  /\ spoiled \subseteq Games

(* The rules the daemon knows it has in the firewall for a game: those of  *)
(* its session, or those of the handler that is at work on it.             *)
Remembered(g) ==
  IF g \in DOMAIN active THEN active[g]
  ELSE IF g # game THEN <<>>
  ELSE IF pc \in {"revert", "undo"} THEN todo ELSE got

(* It has them there, each as often as it knows.                           *)
RulesRemembered ==
  \A g \in Games \ spoiled : \A r \in ToSet(RulesOf[g]) :
    Copies(r, chain) = Copies(r, Remembered(g))

(* And it knows all the rules of a game that has a session: a handler has  *)
(* inserted the first of them, in order, and will insert the rest.         *)
AllInserted ==
  \A g \in Games \ spoiled :
    /\ g \in DOMAIN active => active[g] = RulesOf[g]
    /\ pc = "apply" /\ g = game => got \o todo = RulesOf[g]
    /\ pc = "preempt" /\ g = game => got = RulesOf[g]

RulesInv == RulesTyped /\ RulesRemembered

(* A rule has one owner.                                                   *)
LEMMA OwnerFacts ==
  /\ \A g \in Games : \A r \in ToSet(RulesOf[g]) : OwnerOf(r) = g
  /\ \A r \in Owned : OwnerOf(r) \in Games /\ r \in ToSet(RulesOf[OwnerOf(r)])
<1>1. \A g, h \in Games : \A r : r \in ToSet(RulesOf[g]) /\ r \in ToSet(RulesOf[h]) => g = h
  BY ConfigAssumption
<1>2. \A r \in Owned : OwnerOf(r) \in Games /\ r \in ToSet(RulesOf[OwnerOf(r)])
  BY DEF Owned, OwnerOf
<1>3. \A g \in Games : \A r \in ToSet(RulesOf[g]) : r \in Owned
  BY DEF Owned
<1> QED
  BY <1>1, <1>2, <1>3

(* The rules of a game are owned rules.                                    *)
LEMMA OwnedConfig ==
  \A g \in Games : RulesOf[g] \in Seq(Owned) /\ ToSet(RulesOf[g]) \subseteq Owned
<1> SUFFICES ASSUME NEW g \in Games PROVE RulesOf[g] \in Seq(Owned) /\ ToSet(RulesOf[g]) \subseteq Owned
  OBVIOUS
<1>1. RulesOf[g] \in Seq(Rules) /\ ToSet(RulesOf[g]) \subseteq Owned
  BY ConfigAssumption DEF Owned
<1>2. /\ Len(RulesOf[g]) \in Nat /\ DOMAIN RulesOf[g] = 1..Len(RulesOf[g])
      /\ RulesOf[g] = [k \in 1..Len(RulesOf[g]) |-> RulesOf[g][k]]
  BY <1>1
<1>3. \A k \in 1..Len(RulesOf[g]) : RulesOf[g][k] \in Owned
  BY <1>1, <1>2 DEF ToSet
<1> QED
  BY <1>1, <1>2, <1>3

(* Nothing has no copies.                                                  *)
LEMMA CopiesNothing == \A r : Copies(r, <<>>) = 0
<1> SUFFICES ASSUME NEW r PROVE Copies(r, <<>>) = 0
  OBVIOUS
<1>1. <<>> \in Seq({}) /\ ToSet(<<>>) = {}
  BY DEF ToSet
<1> QED
  BY <1>1, CopiesNone

(* The parts of a sequence.                                                *)
LEMMA SeqParts ==
  ASSUME NEW S, NEW s \in Seq(S), s # <<>>
  PROVE  /\ Head(s) \in S /\ Tail(s) \in Seq(S) /\ Head(s) \in ToSet(s)
         /\ ToSet(Tail(s)) \subseteq ToSet(s)
<1>1. /\ Head(s) = s[1] /\ 1 \in DOMAIN s /\ Tail(s) \in Seq(S) /\ Head(s) \in S
      /\ \A k \in DOMAIN Tail(s) : Tail(s)[k] = s[k + 1] /\ k + 1 \in DOMAIN s
  OBVIOUS
<1> QED
  BY <1>1 DEF ToSet

(* What a sequence has after one more.                                     *)
LEMMA AppendSet ==
  ASSUME NEW S, NEW s \in Seq(S), NEW x \in S
  PROVE  Append(s, x) \in Seq(S) /\ ToSet(Append(s, x)) \subseteq ToSet(s) \cup {x}
<1>1. /\ Append(s, x) \in Seq(S)
      /\ \A k \in DOMAIN Append(s, x) : (k \in DOMAIN s /\ Append(s, x)[k] = s[k]) \/ Append(s, x)[k] = x
  OBVIOUS
<1> QED
  BY <1>1 DEF ToSet

(* Deleting a rule takes one copy of it, or spoils its owner and takes     *)
(* none.                                                                   *)
LEMMA DeleteFacts ==
  ASSUME chain \in Seq(Owned), NEW r \in Owned, DeleteRule(r), spoiled \subseteq Games
  PROVE  /\ chain' \in Seq(Owned) /\ spoiled' \subseteq Games
         /\ \/ /\ spoiled' = spoiled
               /\ \A q : /\ Copies(q, chain) = Copies(q, chain') + (IF r = q THEN 1 ELSE 0)
                         /\ Copies(q, chain') \in Nat
            \/ chain' = chain /\ spoiled' = spoiled \cup {OwnerOf(r)}
<1>1. CASE r \in ToSet(chain) /\ chain' = RemoveFirst(chain, r) /\ UNCHANGED <<faults, spoiled>>
  BY <1>1, CopiesRemoved
<1>2. CASE spoiled' = spoiled \cup {OwnerOf(r)} /\ UNCHANGED chain
  BY <1>2, OwnerFacts
<1> QED
  BY <1>1, <1>2 DEF DeleteRule

(* At first there are no rules.                                            *)
LEMMA RulesInit == Init => RulesInv
<1> SUFFICES ASSUME Init PROVE RulesInv
  OBVIOUS
<1>1. /\ chain = <<>> /\ todo = <<>> /\ got = <<>> /\ active = <<>> /\ pc = "off"
      /\ spoiled = {} /\ game = NoGame
  BY DEF Init
<1>2. <<>> \in Seq(Owned) /\ DOMAIN <<>> = {} /\ <<>> \in [{} -> Seq(Owned)]
  OBVIOUS
<1>3. RulesTyped
  BY <1>1, <1>2 DEF RulesTyped, AtWork
<1>4. RulesRemembered
  BY <1>1, <1>2 DEF RulesRemembered, Remembered
<1> QED
  BY <1>3, <1>4 DEF RulesInv

(* The steps that leave every rule where it is, in the firewall and in the *)
(* memory of the daemon.                                                   *)
LEMMA RulesRest ==
  ASSUME RulesInv, UNCHANGED <<chain, active, spoiled>>, todo' \in Seq(Owned),
         \/ UNCHANGED <<pc, game, todo, got>>
         \/ ~AtWork /\ ~AtWork' /\ UNCHANGED got
  PROVE  (pc' \in {"off", "clean", "halt"} => DOMAIN active = {}) => RulesInv'
<1> SUFFICES ASSUME pc' \in {"off", "clean", "halt"} => DOMAIN active = {} PROVE RulesInv'
  OBVIOUS
<1>1. RulesTyped'
  BY DEF RulesInv, RulesTyped, AtWork
<1>2. \A g \in Games : Remembered(g)' = Remembered(g)
  BY DEF Remembered, RulesInv, RulesTyped, AtWork
<1>3. RulesRemembered'
  BY <1>2 DEF RulesInv, RulesRemembered
<1> QED
  BY <1>1, <1>3 DEF RulesInv

(* Once the owners of what is in the firewall are spoiled, the other games *)
(* have nothing there.                                                     *)
LEMMA SpoiledOwners ==
  ASSUME chain \in Seq(Owned), NEW g \in Games, NEW r \in ToSet(RulesOf[g]),
         g \notin {OwnerOf(q) : q \in ToSet(chain)}
  PROVE  Copies(r, chain) = 0
<1>1. r \notin ToSet(chain)
  BY OwnerFacts
<1> QED
  BY <1>1, CopiesNone

(* Owners are games.                                                       *)
LEMMA OwnersAreGames ==
  ASSUME chain \in Seq(Owned)
  PROVE  {OwnerOf(q) : q \in ToSet(chain)} \subseteq Games
<1>1. ToSet(chain) \subseteq Owned
  BY DEF ToSet
<1> QED
  BY <1>1, OwnerFacts

(* A process that ends forgets its rules: those still there have spoiled   *)
(* owners.                                                                 *)
LEMMA ForgetRules ==
  ASSUME RulesInv, Forget, chain' = chain, spoiled' \subseteq Games,
         \A g \in Games \ spoiled' : \A r \in ToSet(RulesOf[g]) : Copies(r, chain) = 0
  PROVE  RulesInv'
<1>1. /\ todo' = <<>> /\ got' = <<>> /\ active' = <<>> /\ pc' = "off"
  BY DEF Forget
<1>2. <<>> \in Seq(Owned) /\ DOMAIN <<>> = {} /\ <<>> \in [{} -> Seq(Owned)]
  OBVIOUS
<1>3. RulesTyped'
  BY <1>1, <1>2 DEF RulesInv, RulesTyped, AtWork
<1>4. \A g \in Games : Remembered(g)' = <<>>
  BY <1>1, <1>2 DEF Remembered
<1>5. RulesRemembered'
  BY <1>4, CopiesNothing DEF RulesRemembered
<1> QED
  BY <1>3, <1>5 DEF RulesInv

(* The clean-up at the start.                                              *)
LEMMA CleaningKeeps ==
  ASSUME RulesInv, StartUp \/ CleanRule \/ Cleaned
  PROVE  RulesInv'
<1>1. RulesTyped /\ RulesRemembered
  BY DEF RulesInv
<1>2. CASE StartUp
  <2>1. UNCHANGED <<chain, active, spoiled, game, got>> /\ pc = "off" /\ pc' = "clean"
    BY <1>2 DEF StartUp, memVars
  <2>2. todo' = chain \/ \E unlisted : todo' = Without(chain, unlisted)
    BY <1>2 DEF StartUp
  <2>3. todo' \in Seq(Owned)
    BY <1>1, <2>2, WithoutIsSeq DEF RulesTyped
  <2> QED
    BY <1>1, <2>1, <2>3, RulesRest DEF AtWork, RulesTyped
<1>3. CASE CleanRule
  <2>1. /\ UNCHANGED <<pc, game, got, active>> /\ pc = "clean" /\ todo # <<>>
        /\ DeleteRule(Head(todo)) /\ todo' = Tail(todo)
    BY <1>3 DEF CleanRule, memVars
  <2>2. Head(todo) \in Owned /\ todo' \in Seq(Owned)
    BY <1>1, <2>1, SeqParts DEF RulesTyped
  <2>3. /\ chain' \in Seq(Owned) /\ spoiled' \subseteq Games
        /\ \/ /\ spoiled' = spoiled
              /\ \A q : /\ Copies(q, chain) = Copies(q, chain') + (IF Head(todo) = q THEN 1 ELSE 0)
                        /\ Copies(q, chain') \in Nat
           \/ chain' = chain /\ spoiled' = spoiled \cup {OwnerOf(Head(todo))}
    BY <1>1, <2>1, <2>2, DeleteFacts DEF RulesTyped
  <2>4. DOMAIN active = {} /\ got = <<>>
    BY <1>1, <2>1 DEF RulesTyped
  <2>5. \A g \in Games : Remembered(g) = <<>> /\ Remembered(g)' = <<>>
    BY <2>1, <2>4 DEF Remembered
  <2>6. RulesTyped'
    BY <1>1, <2>1, <2>2, <2>3 DEF RulesTyped, AtWork
  <2>7. ASSUME NEW g \in Games \ spoiled', NEW r \in ToSet(RulesOf[g])
        PROVE  Copies(r, chain') = 0
    <3>1. Copies(r, chain) = 0
      BY <1>1, <2>3, <2>5, CopiesNothing DEF RulesRemembered
    <3> QED
      BY <3>1, <2>3
  <2>8. RulesRemembered'
    BY <2>5, <2>7, CopiesNothing DEF RulesRemembered
  <2> QED
    BY <2>6, <2>8 DEF RulesInv
<1>4. CASE Cleaned
  <2>1. /\ UNCHANGED <<game, got, active, chain, todo>> /\ pc = "clean" /\ pc' = "scan"
        /\ spoiled' = {OwnerOf(r) : r \in ToSet(chain)}
    BY <1>4 DEF Cleaned, memVars
  <2>2. DOMAIN active = {} /\ got = <<>>
    BY <1>1, <2>1 DEF RulesTyped
  <2>3. \A g \in Games : Remembered(g)' = <<>>
    BY <2>1, <2>2 DEF Remembered
  <2>4. RulesTyped'
    BY <1>1, <2>1, OwnersAreGames DEF RulesTyped, AtWork
  <2>5. RulesRemembered'
    BY <1>1, <2>1, <2>3, SpoiledOwners, CopiesNothing DEF RulesRemembered, RulesTyped
  <2> QED
    BY <2>4, <2>5 DEF RulesInv
<1> QED
  BY <1>2, <1>3, <1>4

(* A game whose start is to be handled has no session yet: what the        *)
(* agreement of engine and detector is for.                                *)
LEMMA StarterHasNone ==
  ASSUME SessionInv, pc = "start", NEW g \in starts
  PROVE  g \notin DOMAIN active
BY DEF SessionInv, NothingLeftBehind, HandledByDetector, SessionsFollowDetector

(* Starting with a game.                                                   *)
LEMMA StartKeeps ==
  ASSUME RulesInv, SessionInv, NEW g \in Games, NextStart(g)
  PROVE  RulesInv'
<1>1. /\ pc = "start" /\ pc' = "apply" /\ game' = g /\ todo' = RulesOf[g] /\ got' = <<>>
      /\ UNCHANGED <<chain, active, spoiled>> /\ g \notin DOMAIN active
  BY StarterHasNone DEF NextStart, memVars
<1>2. RulesTyped /\ RulesRemembered /\ got = <<>>
  BY <1>1 DEF RulesInv, RulesTyped
<1>3. RulesOf[g] \in Seq(Owned) /\ ToSet(<<>>) = {}
  BY OwnedConfig DEF ToSet
<1>4. RulesTyped'
  BY <1>1, <1>2, <1>3 DEF RulesTyped, AtWork
<1>5. \A h \in Games : Remembered(h)' = Remembered(h)
  BY <1>1, <1>2 DEF Remembered
<1>6. RulesRemembered'
  BY <1>1, <1>2, <1>5 DEF RulesRemembered
<1> QED
  BY <1>4, <1>6 DEF RulesInv

(* A rule inserted, or an error that ends the inserting.                   *)
LEMMA ApplyKeeps == RulesInv /\ Apply => RulesInv'
<1> SUFFICES ASSUME RulesInv, Apply PROVE RulesInv'
  OBVIOUS
<1>1. /\ pc = "apply" /\ todo # <<>> /\ UNCHANGED <<pc, game, active>>
  BY DEF Apply, memVars
<1>2. /\ RulesTyped /\ RulesRemembered
      /\ game \in Games \ DOMAIN active
      /\ ToSet(todo) \subseteq ToSet(RulesOf[game]) /\ ToSet(got) \subseteq ToSet(RulesOf[game])
  BY <1>1 DEF RulesInv, RulesTyped, AtWork
<1>3. /\ Head(todo) \in Owned /\ Tail(todo) \in Seq(Owned) /\ Head(todo) \in ToSet(RulesOf[game])
      /\ ToSet(Tail(todo)) \subseteq ToSet(RulesOf[game])
  BY <1>1, <1>2, SeqParts DEF RulesTyped
<1>4. CASE /\ InsertRule(Head(todo))
           /\ got' = Append(got, Head(todo)) /\ todo' = Tail(todo)
           /\ UNCHANGED <<faults, spoiled>>
  <2>1. chain' = <<Head(todo)>> \o chain /\ chain' \in Seq(Owned)
    BY <1>2, <1>3, <1>4 DEF InsertRule, RulesTyped
  <2>2. got' \in Seq(Owned) /\ ToSet(got') \subseteq ToSet(RulesOf[game])
    BY <1>2, <1>3, <1>4, AppendSet DEF RulesTyped
  <2>3. RulesTyped'
    BY <1>1, <1>2, <1>3, <1>4, <2>1, <2>2 DEF RulesTyped, AtWork
  <2>4. ASSUME NEW g \in Games \ spoiled, NEW r \in ToSet(RulesOf[g])
        PROVE  Copies(r, chain') = Copies(r, Remembered(g)')
    <3>1. Copies(r, chain) = Copies(r, Remembered(g))
      BY <1>2 DEF RulesRemembered
    <3>2. Copies(r, chain') = Copies(r, chain) + (IF Head(todo) = r THEN 1 ELSE 0)
      BY <1>2, <1>3, <2>1, CopiesMoved DEF RulesTyped
    <3>3. Copies(r, chain) \in Nat
      BY <1>2, PlacesFinite DEF RulesTyped
    <3>4. CASE g = game
      <4>1. Remembered(g) = got /\ Remembered(g)' = got'
        BY <1>1, <1>2, <3>4 DEF Remembered
      <4>2. Copies(r, got') = Copies(r, got) + (IF Head(todo) = r THEN 1 ELSE 0)
        BY <1>2, <1>3, <1>4, CopiesMoved DEF RulesTyped
      <4> QED
        BY <3>1, <3>2, <4>1, <4>2
    <3>5. CASE g # game
      <4>1. Remembered(g)' = Remembered(g)
        BY <1>1, <3>5 DEF Remembered
      <4>2. Head(todo) # r
        BY <1>2, <1>3, <3>5, OwnerFacts
      <4> QED
        BY <3>1, <3>2, <3>3, <4>1, <4>2
    <3> QED
      BY <3>4, <3>5
  <2>5. RulesRemembered'
    BY <1>4, <2>4 DEF RulesRemembered
  <2> QED
    BY <2>3, <2>5 DEF RulesInv
<1>5. CASE /\ got' = <<>> /\ todo' = <<>> /\ spoiled' = spoiled \cup {game} /\ UNCHANGED chain
  <2>1. <<>> \in Seq(Owned) /\ ToSet(<<>>) = {}
    BY DEF ToSet
  <2>2. RulesTyped'
    BY <1>1, <1>2, <1>5, <2>1 DEF RulesTyped, AtWork
  <2>3. \A g \in Games : g # game => Remembered(g)' = Remembered(g)
    BY <1>1 DEF Remembered
  <2>4. RulesRemembered'
    BY <1>2, <1>5, <2>3 DEF RulesRemembered
  <2> QED
    BY <2>2, <2>4 DEF RulesInv
<1> QED
  BY <1>4, <1>5 DEF Apply

(* All rules are inserted.                                                 *)
LEMMA AppliedKeeps == RulesInv /\ Applied => RulesInv'
<1> SUFFICES ASSUME RulesInv, Applied PROVE RulesInv'
  OBVIOUS
<1>1. pc = "apply" /\ pc' = "preempt" /\ UNCHANGED <<game, todo, got, active, chain, spoiled>>
  BY DEF Applied, memVars
<1>2. RulesTyped'
  BY <1>1 DEF RulesInv, RulesTyped, AtWork
<1>3. \A g \in Games : Remembered(g)' = Remembered(g)
  BY <1>1 DEF Remembered
<1>4. RulesRemembered'
  BY <1>1, <1>3 DEF RulesInv, RulesRemembered
<1> QED
  BY <1>2, <1>4 DEF RulesInv

(* A session takes over the rules of the handler.                          *)
LEMMA SessionRulesKeep == RulesInv /\ SessionStarted => RulesInv'
<1> SUFFICES ASSUME RulesInv, SessionStarted PROVE RulesInv'
  OBVIOUS
<1>1. /\ pc = "preempt" /\ pc' = "start" /\ game' = NoGame /\ got' = <<>>
      /\ UNCHANGED <<todo, chain, spoiled>>
      /\ active' = [h \in DOMAIN active \cup {game} |-> IF h = game THEN got ELSE active[h]]
  BY DEF SessionStarted, WithSession
<1>2. /\ RulesTyped /\ RulesRemembered /\ game \in Games \ DOMAIN active
      /\ ToSet(got) \subseteq ToSet(RulesOf[game])
  BY <1>1 DEF RulesInv, RulesTyped, AtWork
<1>3. /\ DOMAIN active' = DOMAIN active \cup {game} /\ active'[game] = got
      /\ \A h \in DOMAIN active : active'[h] = active[h]
      /\ active' \in [DOMAIN active' -> Seq(Owned)]
  BY <1>1, <1>2 DEF RulesTyped
<1>4. <<>> \in Seq(Owned)
  OBVIOUS
<1>5. RulesTyped'
  BY <1>1, <1>2, <1>3, <1>4 DEF RulesTyped, AtWork
<1>6. \A g \in Games : Remembered(g)' = Remembered(g)
  BY <1>1, <1>2, <1>3, ConfigAssumption DEF Remembered
<1>7. RulesRemembered'
  BY <1>1, <1>2, <1>6 DEF RulesRemembered
<1> QED
  BY <1>5, <1>7 DEF RulesInv

(* And the handler those of the session.                                   *)
LEMMA SessionEndKeeps ==
  ASSUME RulesInv, NEW g \in Games,
         NextStop(g) \/ Drain(g)
  PROVE  RulesInv'
<1>1. /\ pc \in {"stop", "drain"} /\ UNCHANGED <<got, chain, spoiled>>
  BY DEF NextStop, Drain
<1>2. RulesTyped /\ RulesRemembered /\ got = <<>>
  BY <1>1 DEF RulesInv, RulesTyped
<1>3. CASE UNCHANGED <<active, game, todo, pc>>
  BY <1>1, <1>2, <1>3, RulesRest DEF RulesTyped
<1>4. CASE g \in DOMAIN active /\ EndSession(g) /\ pc' \in {"revert", "undo"}
  <2>1. game' = g /\ todo' = active[g] /\ active' = [h \in DOMAIN active \ {g} |-> active[h]]
    BY <1>4 DEF EndSession, Restrict
  <2>2. /\ DOMAIN active' = DOMAIN active \ {g}
        /\ \A h \in DOMAIN active \ {g} : active'[h] = active[h]
        /\ active' \in [DOMAIN active' -> Seq(Owned)]
    BY <1>2, <2>1 DEF RulesTyped
  <2>3. ToSet(<<>>) = {}
    BY DEF ToSet
  <2>4. RulesTyped'
    BY <1>1, <1>2, <1>4, <2>1, <2>2, <2>3 DEF RulesTyped, AtWork
  <2>5. \A h \in Games : Remembered(h)' = Remembered(h)
    BY <1>1, <1>2, <1>4, <2>1, <2>2 DEF Remembered
  <2>6. RulesRemembered'
    BY <1>1, <1>2, <2>5 DEF RulesRemembered
  <2> QED
    BY <2>4, <2>6 DEF RulesInv
<1> QED
  BY <1>3, <1>4 DEF NextStop, Drain

(* A rule deleted, or an error that leaves it.                             *)
LEMMA RevertKeeps == RulesInv /\ Revert => RulesInv'
<1> SUFFICES ASSUME RulesInv, Revert PROVE RulesInv'
  OBVIOUS
<1>1. /\ pc \in {"revert", "undo"} /\ todo # <<>> /\ UNCHANGED <<pc, game, got, active>>
      /\ DeleteRule(Head(todo)) /\ todo' = Tail(todo)
  BY DEF Revert, memVars
<1>2. /\ RulesTyped /\ RulesRemembered /\ game \in Games \ DOMAIN active
      /\ ToSet(todo) \subseteq ToSet(RulesOf[game]) /\ got = <<>>
  BY <1>1 DEF RulesInv, RulesTyped, AtWork
<1>3. /\ Head(todo) \in Owned /\ Tail(todo) \in Seq(Owned) /\ Head(todo) \in ToSet(RulesOf[game])
      /\ ToSet(Tail(todo)) \subseteq ToSet(RulesOf[game])
  BY <1>1, <1>2, SeqParts DEF RulesTyped
<1>4. /\ chain' \in Seq(Owned) /\ spoiled' \subseteq Games
      /\ \/ /\ spoiled' = spoiled
            /\ \A q : /\ Copies(q, chain) = Copies(q, chain') + (IF Head(todo) = q THEN 1 ELSE 0)
                      /\ Copies(q, chain') \in Nat
         \/ chain' = chain /\ spoiled' = spoiled \cup {OwnerOf(Head(todo))}
  BY <1>1, <1>2, <1>3, DeleteFacts DEF RulesTyped
<1>5. OwnerOf(Head(todo)) = game
  BY <1>2, <1>3, OwnerFacts
<1>6. RulesTyped'
  BY <1>1, <1>2, <1>3, <1>4 DEF RulesTyped, AtWork
<1>7. ASSUME NEW g \in Games \ spoiled', NEW r \in ToSet(RulesOf[g])
      PROVE  Copies(r, chain') = Copies(r, Remembered(g)')
  <2>1. Copies(r, chain) = Copies(r, Remembered(g))
    BY <1>2, <1>4 DEF RulesRemembered
  <2>2. CASE g # game
    <3>1. Remembered(g)' = Remembered(g)
      BY <1>1, <2>2 DEF Remembered
    <3>2. Head(todo) # r
      BY <1>5, <2>2, OwnerFacts
    <3> QED
      BY <1>4, <2>1, <3>1, <3>2
  <2>3. CASE g = game
    <3>1. Remembered(g) = todo /\ Remembered(g)' = Tail(todo)
      BY <1>1, <1>2, <2>3 DEF Remembered
    <3>2. /\ Copies(r, chain) = Copies(r, chain') + (IF Head(todo) = r THEN 1 ELSE 0)
          /\ Copies(r, chain') \in Nat
      BY <1>4, <1>5, <2>3
    <3>3. /\ Copies(r, todo) = Copies(r, Tail(todo)) + (IF Head(todo) = r THEN 1 ELSE 0)
          /\ Copies(r, Tail(todo)) \in Nat
      BY <1>1, <1>2, CopiesTail DEF RulesTyped
    <3> QED
      BY <2>1, <3>1, <3>2, <3>3
  <2> QED
    BY <2>2, <2>3
<1>8. RulesRemembered'
  BY <1>7 DEF RulesRemembered
<1> QED
  BY <1>6, <1>8 DEF RulesInv

(* All rules are gone.                                                     *)
LEMMA RevertedKeeps == RulesInv /\ Reverted => RulesInv'
<1> SUFFICES ASSUME RulesInv, Reverted PROVE RulesInv'
  OBVIOUS
<1>1. /\ pc \in {"revert", "undo"} /\ todo = <<>> /\ pc' \in {"restore", "drain"}
      /\ UNCHANGED <<todo, got, active, chain, spoiled>> /\ game' \in {game, NoGame}
  BY DEF Reverted, memVars
<1>2. RulesTyped /\ RulesRemembered /\ got = <<>>
  BY <1>1 DEF RulesInv, RulesTyped
<1>3. RulesTyped'
  BY <1>1, <1>2 DEF RulesTyped, AtWork
<1>4. \A g \in Games : Remembered(g)' = Remembered(g)
  BY <1>1, <1>2 DEF Remembered
<1>5. RulesRemembered'
  BY <1>1, <1>2, <1>4 DEF RulesRemembered
<1> QED
  BY <1>3, <1>5 DEF RulesInv

(* A process that ends, and a firewall that is flushed.                    *)
LEMMA EndingKeeps == RulesInv /\ (Exit \/ Kill \/ Flush) => RulesInv'
<1> SUFFICES ASSUME RulesInv, Exit \/ Kill \/ Flush PROVE RulesInv'
  OBVIOUS
<1>1. RulesTyped /\ RulesRemembered
  BY DEF RulesInv
<1>2. CASE Exit
  <2>1. pc = "halt" /\ UNCHANGED <<chain, spoiled>> /\ Forget
    BY <1>2 DEF Exit
  <2>2. \A g \in Games : Remembered(g) = <<>>
    BY <1>1, <2>1 DEF Remembered, RulesTyped
  <2>3. \A g \in Games \ spoiled : \A r \in ToSet(RulesOf[g]) : Copies(r, chain) = 0
    BY <1>1, <2>2, CopiesNothing DEF RulesRemembered
  <2> QED
    BY <1>1, <2>1, <2>3, ForgetRules DEF RulesTyped
<1>3. CASE Kill
  <2>1. spoiled' = spoiled \cup {OwnerOf(r) : r \in ToSet(chain)} /\ chain' = chain /\ Forget
    BY <1>3 DEF Kill
  <2>2. \A g \in Games \ spoiled' : \A r \in ToSet(RulesOf[g]) : Copies(r, chain) = 0
    BY <1>1, <2>1, SpoiledOwners DEF RulesTyped
  <2> QED
    BY <1>1, <2>1, <2>2, ForgetRules, OwnersAreGames DEF RulesTyped
<1>4. CASE Flush
  <2>1. /\ chain' = <<>> /\ spoiled' = spoiled \cup {OwnerOf(r) : r \in ToSet(chain)}
        /\ UNCHANGED <<pc, game, todo, got, active>>
    BY <1>4 DEF Flush, posVars, memVars
  <2>2. <<>> \in Seq(Owned)
    OBVIOUS
  <2>3. RulesTyped'
    BY <1>1, <2>1, <2>2, OwnersAreGames DEF RulesTyped, AtWork
  <2>4. \A g \in Games : Remembered(g)' = Remembered(g)
    BY <2>1 DEF Remembered
  <2>5. \A g \in Games \ spoiled' : \A r \in ToSet(RulesOf[g]) : Copies(r, chain) = 0
    BY <1>1, <2>1, SpoiledOwners DEF RulesTyped
  <2>6. RulesRemembered'
    BY <1>1, <2>1, <2>4, <2>5, CopiesNothing DEF RulesRemembered
  <2> QED
    BY <2>3, <2>6 DEF RulesInv
<1> QED
  BY <1>2, <1>3, <1>4

(* Every step keeps the rules and the sessions in line.                    *)
LEMMA RulesInduction == RulesInv /\ SessionInv /\ [Next]_vars => RulesInv'
<1> SUFFICES ASSUME RulesInv, SessionInv, [Next]_vars PROVE RulesInv'
  OBVIOUS
<1>1. RulesTyped /\ todo \in Seq(Owned)
  BY DEF RulesInv, RulesTyped
<1>2. CASE StartUp \/ CleanRule \/ Cleaned
  BY <1>2, CleaningKeeps
<1>3. ASSUME NEW g \in Games, NextStart(g) \/ NextStop(g) \/ Drain(g) PROVE RulesInv'
  BY <1>3, StartKeeps, SessionEndKeeps
<1>4. CASE Apply \/ Applied \/ SessionStarted
  BY <1>4, ApplyKeeps, AppliedKeeps, SessionRulesKeep
<1>5. CASE Revert \/ Reverted
  BY <1>5, RevertKeeps, RevertedKeeps
<1>6. CASE Exit \/ Kill \/ Flush
  BY <1>6, EndingKeeps
<1>7. CASE UNCHANGED <<pc, game, todo, got, chain, active, spoiled>>
  BY <1>1, <1>7, RulesRest DEF RulesTyped
<1>8. CASE Preempt \/ Restore \/ Halt \/ Signal \/ UNCHANGED vars
  BY <1>7, <1>8 DEF Preempt, Restore, Halt, Signal, vars, posVars, memVars
<1>9. ASSUME NEW i \in GuardIds,
             \/ PollUncovered(i) \/ PollStopped(i) \/ PollNoPid(i) \/ PollFails(i)
             \/ PollHigh(i) \/ PollLow(i) \/ Fire(i)
      PROVE  RulesInv'
  BY <1>7, <1>9
    DEF PollUncovered, PollStopped, PollNoPid, PollFails, PollHigh, PollLow, Fire,
     PollEnds
<1>10. CASE Scan \/ Started \/ SessionEnded \/ Stopped \/ PollDone \/ Shutdown \/ Drained \/ Sleep
  <2>1. /\ UNCHANGED <<todo, got, chain, active, spoiled>> /\ ~AtWork /\ ~AtWork'
        /\ pc' \in {"off", "clean", "halt"} => DOMAIN active = {}
    <3>1. CASE Scan \/ Started \/ SessionEnded \/ Stopped
      BY <3>1 DEF Scan, Started, SessionEnded, Stopped, AtWork, memVars
    <3>2. CASE PollDone \/ Shutdown \/ Drained
      BY <3>2 DEF PollDone, Shutdown, Drained, AtWork, memVars
    <3>3. CASE Sleep
      <4>1. /\ pc = "sleep" /\ pc' = "scan" /\ UNCHANGED <<todo, got, chain, active, spoiled>>
        BY <3>3, Zenon DEF Sleep
      <4> QED
        BY <4>1 DEF AtWork
    <3> QED
      BY <1>10, <3>1, <3>2, <3>3
  <2> QED
    BY <1>1, <2>1, RulesRest
<1> QED
  BY <1>2, <1>3, <1>4, <1>5, <1>6, <1>8, <1>9, <1>10 DEF Next, Loop

(* Moving the first of what is left to the end of what is done loses none. *)
LEMMA MoveOver ==
  ASSUME NEW S, NEW done \in Seq(S), NEW left \in Seq(S), left # <<>>
  PROVE  Append(done, Head(left)) \o Tail(left) = done \o left
OBVIOUS

(* Every step keeps the sessions' rules whole.                             *)
LEMMA WholeInduction == AllInserted /\ RulesInv /\ [Next]_vars => AllInserted'
<1> SUFFICES ASSUME AllInserted, RulesInv, [Next]_vars PROVE AllInserted'
  OBVIOUS
<1>1. RulesTyped
  BY DEF RulesInv
<1>2. ASSUME UNCHANGED active, pc' \notin {"apply", "preempt"}, spoiled \subseteq spoiled'
      PROVE  AllInserted'
  BY <1>2 DEF AllInserted
<1>3. ASSUME UNCHANGED <<active, pc, game, todo, got>>, spoiled \subseteq spoiled'
      PROVE  AllInserted'
  BY <1>3 DEF AllInserted
<1>4. ASSUME DOMAIN active' = {}, pc' \notin {"apply", "preempt"} PROVE AllInserted'
  BY <1>4 DEF AllInserted
<1>5. \A r : DeleteRule(r) => spoiled \subseteq spoiled'
  BY DEF DeleteRule
<1>6. CASE StartUp
  BY <1>2, <1>6 DEF StartUp, memVars
<1>7. CASE CleanRule
  BY <1>2, <1>5, <1>7 DEF CleanRule, memVars
<1>8. CASE Cleaned
  BY <1>1, <1>4, <1>8 DEF Cleaned, memVars, RulesTyped
<1>9. ASSUME NEW g \in Games, NextStart(g) PROVE AllInserted'
  <2>1. /\ pc' = "apply" /\ game' = g /\ got' = <<>> /\ todo' = RulesOf[g]
        /\ UNCHANGED <<active, spoiled>>
    BY <1>9 DEF NextStart, memVars
  <2>2. <<>> \o RulesOf[g] = RulesOf[g]
    BY ConfigAssumption
  <2> QED BY <2>1, <2>2 DEF AllInserted
<1>10. CASE Apply
  <2>1. pc = "apply" /\ todo # <<>> /\ UNCHANGED <<pc, game, active>>
    BY <1>10 DEF Apply, memVars
  <2>2. CASE got' = Append(got, Head(todo)) /\ todo' = Tail(todo) /\ UNCHANGED spoiled
    <3>1. got' \o todo' = got \o todo
      BY <1>1, <2>1, <2>2, MoveOver DEF RulesTyped
    <3> QED BY <2>1, <2>2, <3>1 DEF AllInserted
  <2>3. CASE spoiled' = spoiled \cup {game}
    BY <2>1, <2>3 DEF AllInserted
  <2> QED BY <1>10, <2>2, <2>3 DEF Apply
<1>11. CASE Applied
  <2>1. /\ pc = "apply" /\ pc' = "preempt" /\ todo = <<>>
        /\ UNCHANGED <<game, todo, got, active, spoiled>>
    BY <1>11 DEF Applied, memVars
  <2>2. got \o <<>> = got
    BY <1>1 DEF RulesTyped
  <2> QED BY <2>1, <2>2 DEF AllInserted
<1>12. CASE SessionStarted
  <2>1. /\ pc = "preempt" /\ pc' = "start" /\ UNCHANGED spoiled
        /\ active' = [h \in DOMAIN active \cup {game} |-> IF h = game THEN got ELSE active[h]]
    BY <1>12 DEF SessionStarted, WithSession
  <2> QED BY <2>1 DEF AllInserted
<1>13. ASSUME NEW g \in Games, NextStop(g) \/ Drain(g) PROVE AllInserted'
  <2>1. CASE UNCHANGED <<active, pc, spoiled>> /\ pc = "stop"
    BY <1>2, <2>1
  <2>2. CASE EndSession(g) /\ pc' \in {"revert", "undo"} /\ UNCHANGED spoiled
    <3>1. active' = [h \in DOMAIN active \ {g} |-> active[h]]
      BY <2>2 DEF EndSession, Restrict
    <3> QED BY <2>2, <3>1 DEF AllInserted
  <2> QED BY <1>13, <2>1, <2>2 DEF NextStop, Drain
<1>14. CASE Revert
  BY <1>2, <1>5, <1>14 DEF Revert, memVars
<1>15. CASE Reverted
  BY <1>2, <1>15 DEF Reverted, memVars
<1>16. CASE Exit \/ Kill
  BY <1>4, <1>16 DEF Exit, Kill, Forget
<1>17. CASE Flush \/ Preempt \/ Signal \/ UNCHANGED vars
  BY <1>3, <1>17 DEF Flush, Preempt, Signal, vars, posVars, memVars
<1>18. CASE Restore \/ Halt
  BY <1>3, <1>18 DEF Restore, Halt
<1>19. ASSUME NEW i \in GuardIds,
              \/ PollUncovered(i) \/ PollStopped(i) \/ PollNoPid(i) \/ PollFails(i)
              \/ PollHigh(i) \/ PollLow(i) \/ Fire(i)
       PROVE  AllInserted'
  BY <1>3, <1>19
    DEF PollUncovered, PollStopped, PollNoPid, PollFails, PollHigh, PollLow, Fire,
     PollEnds
<1>20. CASE Scan \/ Started \/ SessionEnded \/ Stopped
  BY <1>2, <1>20 DEF Scan, Started, SessionEnded, Stopped, memVars
<1>21. CASE PollDone \/ Shutdown \/ Drained
  BY <1>2, <1>21 DEF PollDone, Shutdown, Drained, memVars
<1>22. CASE Sleep
  <2>1. pc' = "scan" /\ UNCHANGED <<active, spoiled>>
    BY <1>22, Zenon DEF Sleep
  <2> QED BY <1>2, <2>1
<1> QED
  BY <1>6, <1>7, <1>8, <1>9, <1>10, <1>11, <1>12, <1>13, <1>14, <1>15, <1>16, <1>17, <1>18,
     <1>19, <1>20, <1>21, <1>22 DEF Next, Loop

----------------------------------------------------------------------------

FlagOK == term \in BOOLEAN
BudgetOK == faults \in 0..MaxFaults

(* The shutdown flag is a flag.                                            *)
LEMMA FlagInduction == FlagOK /\ [Next]_vars => FlagOK'
<1> SUFFICES ASSUME FlagOK, [Next]_vars PROVE FlagOK'
  OBVIOUS
<1> USE DEF FlagOK
<1>1. CASE UNCHANGED term
  BY <1>1, Zenon
<1>2. CASE Sleep
  BY <1>2, Zenon DEF Sleep
<1>3. CASE Exit \/ Kill \/ Signal
  BY <1>3, Zenon DEF Exit, Kill, Forget, Signal
<1>4. Next => UNCHANGED term \/ Sleep \/ Exit \/ Kill \/ Signal
  <2>1. StartUp \/ CleanRule \/ Cleaned \/ Scan \/ Apply \/ Applied \/ Preempt => UNCHANGED term
    BY DEF StartUp, CleanRule, Cleaned, Scan, Apply, Applied, Preempt
  <2>2. SessionStarted \/ Started \/ Revert \/ Reverted \/ Restore \/ SessionEnded => UNCHANGED term
    BY DEF SessionStarted, Started, Revert, Reverted, Restore, SessionEnded
  <2>3. Stopped \/ PollDone \/ Shutdown \/ Drained \/ Halt \/ Flush => UNCHANGED term
    BY DEF Stopped, PollDone, Shutdown, Drained, Halt, Flush
  <2>4. (\E g \in Games : NextStart(g) \/ NextStop(g) \/ Drain(g)) => UNCHANGED term
    BY DEF NextStart, NextStop, Drain
  <2>5. (\E i \in GuardIds : \/ PollUncovered(i) \/ PollStopped(i) \/ PollNoPid(i)
                             \/ PollFails(i) \/ PollHigh(i) \/ PollLow(i) \/ Fire(i))
           => UNCHANGED term
    BY
      DEF PollUncovered, PollStopped, PollNoPid, PollFails, PollHigh, PollLow, Fire,
          PollEnds
  <2> QED
    BY <2>1, <2>2, <2>3, <2>4, <2>5 DEF Next, Loop
<1>5. UNCHANGED vars => UNCHANGED term
  BY DEF vars
<1> QED
  BY <1>1, <1>2, <1>3, <1>4, <1>5

(* The faults stay within their bound.                                     *)
LEMMA BudgetInduction == BudgetOK /\ [Next]_vars => BudgetOK'
<1> SUFFICES ASSUME BudgetOK, [Next]_vars PROVE BudgetOK'
  OBVIOUS
<1>1. UNCHANGED faults \/ Fault => BudgetOK'
  BY ConfigAssumption DEF BudgetOK, Fault
<1>2. Next => UNCHANGED faults \/ Fault
  <2>1. StartUp \/ CleanRule \/ Cleaned \/ Scan \/ Apply \/ Applied => UNCHANGED faults \/ Fault
    BY DEF StartUp, CleanRule, Cleaned, Scan, Apply, Applied, DeleteRule
  <2>2. Preempt \/ Restore \/ Halt => UNCHANGED faults \/ Fault
    BY DEF Preempt, Restore, Halt, Systemctl, NoSystemctl
  <2>3. SessionStarted \/ Started \/ Revert \/ Reverted \/ SessionEnded \/ Stopped
           => UNCHANGED faults \/ Fault
    BY DEF SessionStarted, Started, Revert, Reverted, SessionEnded, Stopped, DeleteRule
  <2>4. PollDone \/ Shutdown \/ Drained \/ Flush \/ Signal \/ Exit \/ Kill
           => UNCHANGED faults \/ Fault
    BY DEF PollDone, Shutdown, Drained, Flush, Signal, Exit, Kill
  <2>5. Sleep => UNCHANGED faults
    BY Zenon DEF Sleep
  <2>6. (\E g \in Games : NextStart(g) \/ NextStop(g) \/ Drain(g)) => UNCHANGED faults
    BY DEF NextStart, NextStop, Drain
  <2>7. (\E i \in GuardIds : \/ PollUncovered(i) \/ PollStopped(i) \/ PollNoPid(i)
                             \/ PollFails(i) \/ PollHigh(i) \/ PollLow(i) \/ Fire(i))
           => UNCHANGED faults \/ Fault
    BY DEF PollUncovered, PollStopped, PollNoPid, PollFails, PollHigh, PollLow, Fire,
       Systemctl, NoSystemctl
  <2> QED
    BY <2>1, <2>2, <2>3, <2>4, <2>5, <2>6, <2>7 DEF Next, Loop
<1>3. UNCHANGED vars => UNCHANGED faults
  BY DEF vars
<1> QED
  BY <1>1, <1>2, <1>3

DaemonInv == SessionInv /\ HeldInv /\ RulesInv /\ AllInserted /\ FlagOK /\ BudgetOK

(* The rules need the sessions, and the sessions nothing of the rules.     *)
LEMMA DaemonInvariant == Spec => []DaemonInv
<1>1. Init => FlagOK
  BY Zenon DEF Init, FlagOK
<1>2. Init => BudgetOK
  BY ConfigAssumption DEF Init, BudgetOK
<1>3. Init => AllInserted
  BY DEF Init, AllInserted
<1>4. Init => SessionInv /\ RulesInv /\ AllInserted /\ FlagOK /\ BudgetOK
  BY <1>1, <1>2, <1>3, SessionInit, RulesInit
<1>5. SessionInv /\ RulesInv /\ AllInserted /\ FlagOK /\ BudgetOK /\ [Next]_vars
        => SessionInv' /\ RulesInv' /\ AllInserted' /\ FlagOK' /\ BudgetOK'
  BY SessionInduction, RulesInduction, WholeInduction, FlagInduction, BudgetInduction
<1> QED
  BY <1>4, <1>5, HeldInvariant, PTL DEF Spec, DaemonInv

(* The parts of the invariant give every variable its type.                *)
LEMMA DaemonTypes == DaemonInv => TypeOK
<1> SUFFICES ASSUME DaemonInv PROVE TypeOK
  OBVIOUS
<1>1. Owned \subseteq Rules
  BY ConfigAssumption DEF Owned, ToSet
<1>2. Seq(Owned) \subseteq Seq(Rules)
  BY <1>1, SeqMonotonic
<1>3. /\ pc \in {"off", "clean", "scan", "start", "apply", "preempt", "stop", "revert", "restore",
                 "gpu", "sleep", "drain", "undo", "halt"}
      /\ starts \subseteq Games /\ stops \subseteq Games /\ game \in Games \cup {NoGame}
      /\ gi \in 1..Len(Guards) + 1
  BY DEF DaemonInv, HeldInv, LoopOK, DebounceInv
<1>4. /\ todo \in Seq(Rules) /\ got \in Seq(Rules) /\ chain \in Seq(Rules) /\ spoiled \subseteq Games
      /\ DOMAIN active \subseteq Games /\ active \in [DOMAIN active -> Seq(Rules)]
  BY <1>2 DEF DaemonInv, RulesInv, RulesTyped
<1>5. /\ current \subseteq Games /\ pending \in [Games -> 0..STOP_DEBOUNCE_TICKS - 1]
      /\ missed \in [Games -> 0..STOP_DEBOUNCE_TICKS]
  BY DEF DaemonInv, HeldInv, DebounceInv, STOP_DEBOUNCE_TICKS
<1>6. /\ guard \in [GuardIds -> GuardState]
      /\ \A i \in GuardIds :
           /\ guard[i].below \in NotBelow..Guards[i].settle
           /\ \A k \in DOMAIN guard[i].history : guard[i].history[k] <= Guards[i].window + 1
           /\ quiet[i] \in -1..Guards[i].settle /\ fired[i] \subseteq 0..Guards[i].window
  BY DEF DaemonInv, HeldInv, GuardsOK, GuardOK
<1>7. up \subseteq Services /\ lost \subseteq Services /\ faults \in 0..MaxFaults
  BY DEF DaemonInv, HeldInv, ServicesOK, BudgetOK
<1>8. term \in BOOLEAN
  BY Zenon DEF DaemonInv, FlagOK
<1> QED
  BY <1>3, <1>4, <1>5, <1>6, <1>7, <1>8, Zenon DEF TypeOK

(* Every variable has its type, whatever fails and whenever the daemon is  *)
(* killed: no count of missed scans reaches the debounce, and no age grows *)
(* past the cap of its guard.                                              *)
THEOREM DaemonIsTyped == Spec => []TypeOK
BY DaemonInvariant, DaemonTypes, PTL

(* Every rule of a game's configuration is in the firewall, and there      *)
(* once, exactly while the daemon has a session for the game, or as far as *)
(* a handler has got with it, for every game no command has failed for     *)
(* since the last clean-up; and nothing is left open by a clean exit.      *)
THEOREM PortsFollowSessions == Spec => []RulesMatchSessions
<1>1. ASSUME DaemonInv PROVE RulesMatchSessions
  <2>1. RulesRemembered /\ AllInserted
    BY <1>1 DEF DaemonInv, RulesInv
  <2>2. \A g \in Games \ spoiled : ToBeOpen(g) = Remembered(g)
    BY <2>1 DEF ToBeOpen, Remembered, AllInserted
  <2> QED BY <2>1, <2>2 DEF RulesRemembered, RulesMatchSessions
<1> QED
  BY <1>1, DaemonInvariant, PTL
=============================================================================
