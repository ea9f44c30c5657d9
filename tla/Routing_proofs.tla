--------------------------- MODULE Routing_proofs ---------------------------
(***************************************************************************)
(* Proofs about make_decision, for any hooks, derivations, targets and     *)
(* interleavings: the state is well typed, and a stale decision is wrong   *)
(* by no more than what changed since the table was read.  The invariant   *)
(* keeps books for every task: the load it read, with what came and        *)
(* without what went, is the load there is now.                            *)
(***************************************************************************)
EXTENDS Routing, Scheduler_proofs

\* What a row may be, in a table whose predictions never add up to more than a word.
Fitting ==
  {r \in Row \cup {NoRow} : Cardinality(Drvs) * r.predicted < Word /\ 2 * r.predicted < Word}

\* A table.
Tables == [Drvs -> Fitting]

\* What decide answers, and what a task is.
Decisions ==
  {DeclineDecision} \cup [kind : {"local", "remote"}, target : T, predicted : Nat]

Tasks == [pc : {"idle", "listed", "chosen"}, drv : Drvs \cup {NoDrv}, rows : Tables \cup {<<>>},
          live : SUBSET T, decision : Decisions]

\* The load of a target, with no bound.
Load(rs, t) == LoadIn(rs, RowsOf(rs, t))

\* The books of a task under way: what it read, what came since and what went since make up
\* what is there now.
Balanced(h) ==
  UnderWay(h) =>
    /\ task[h].drv \in Drvs /\ task[h].rows \in Tables
    /\ \A t \in T : Load(admissions, t) + gone[h][t] = Load(task[h].rows, t) + added[h][t]

\* Nothing is booked for a hook without a task.
Unbooked(h) == ~UnderWay(h) => added[h] = NoLoad /\ gone[h] = NoLoad

\* What a task has decided is what decide says of what it read.
Decided(h) ==
  task[h].decision =
    IF task[h].pc = "chosen"
    THEN Decide(TRUE, Targets, task[h].live, task[h].rows, Base[task[h].drv])
    ELSE DeclineDecision

\* The inductive invariant.
RoutingInv ==
  /\ admissions \in Tables /\ live \in SUBSET T /\ task \in [Hooks -> Tasks]
  /\ added \in [Hooks -> [T -> Nat]] /\ gone \in [Hooks -> [T -> Nat]]
  /\ decisions \in 0..MaxDecisions
  /\ \A h \in Hooks : Balanced(h) /\ Unbooked(h) /\ Decided(h)

-----------------------------------------------------------------------------
(* Tables and decisions. *)

\* The targets and their numbers.
LEMMA RoutingFacts ==
  /\ Len(Targets) \in Nat /\ T = 1..Len(Targets) /\ 0 \notin T
  /\ \A t \in T : TargetOK(Targets[t]) /\ Targets[t].host \in BOOLEAN
  /\ \A d \in Drvs : Base[d] \in Nat
  /\ NoDrv \notin Drvs /\ NoDrv \notin Hooks /\ IsFiniteSet(Drvs) /\ MaxDecisions \in Nat
<1>1. Targets \in Seq([capacity : Nat, num : Nat, den : Nat \ {0}, host : BOOLEAN])
  BY RoutingAssumption
<1>2. Len(Targets) \in Nat /\ T = 1..Len(Targets)
  BY <1>1, LenProperties DEF T
<1>3. \A t \in T : Targets[t] \in [capacity : Nat, num : Nat, den : Nat \ {0}, host : BOOLEAN]
  BY <1>1, <1>2, ElementOfSeq
<1>4. \A t \in T : TargetOK(Targets[t]) /\ Targets[t].host \in BOOLEAN
  BY <1>3 DEF TargetOK
<1> QED BY <1>2, <1>4, RoutingAssumption

\* The rows of a table.
LEMMA TableFinite ==
  ASSUME NEW rs \in Tables, NEW t
  PROVE  /\ DOMAIN rs = Drvs /\ IsFiniteSet(RowsOf(rs, t)) /\ RowsOf(rs, t) \subseteq Drvs
         /\ \A i \in Drvs : rs[i].predicted \in Nat
         /\ Load(rs, t) \in Nat
<1>1. DOMAIN rs = Drvs /\ \A i \in Drvs : rs[i] \in Row \cup {NoRow}
  BY DEF Tables, Fitting
<1>2. \A i \in Drvs : rs[i].predicted \in Nat
  BY <1>1 DEF Row, NoRow
<1>3. RowsOf(rs, t) \subseteq Drvs
  BY <1>1 DEF RowsOf
<1>4. IsFiniteSet(RowsOf(rs, t))
  BY <1>3, RoutingFacts, FS_Subset
<1>5. Load(rs, t) \in Nat
  BY <1>2, <1>3, <1>4, LoadIsNat DEF Load
<1> QED BY <1>1, <1>2, <1>3, <1>4, <1>5

\* No queue of a table wraps.
LEMMA NoWrap ==
  ASSUME NEW rs \in Tables, NEW t
  PROVE  Load(rs, t) < Word /\ QueueLoadMs(rs, t) = Load(rs, t)
<1> DEFINE R == RowsOf(rs, t)
           n == Cardinality(Drvs)
           m == MaxWord \div n
<1>1. n \in Nat /\ IsFiniteSet(R) /\ R \subseteq Drvs /\ IsFiniteSet(Drvs)
  BY TableFinite, RoutingFacts, FS_CardinalityType
<1>2. Load(rs, t) < Word
  <2>1. CASE R = {}
    <3>1. Load(rs, t) = 0
      <4>1. Adds(Weights(rs, R), R)
        BY <1>1, TotalStep
      <4> QED BY <2>1, <4>1 DEF Adds, Load, LoadIn
    <3> QED BY <3>1, WordFacts
  <2>2. CASE R # {}
    <3>1. n # 0
      <4>1. Drvs # {}
        BY <1>1, <2>2
      <4> QED BY <1>1, <4>1, FS_EmptySet
    <3>2. m \in Nat /\ n * m <= MaxWord /\ MaxWord < n * m + n
      <4> HIDE DEF n
      <4> QED BY <1>1, <3>1, WordFacts, Division
    <3>3. \A i \in R : Weights(rs, R)[i] \in 0..m
      <4> SUFFICES ASSUME NEW i \in R PROVE Weights(rs, R)[i] \in 0..m
        OBVIOUS
      <4>1. n * rs[i].predicted < Word
        BY <1>1 DEF Tables, Fitting
      <4> DEFINE p == rs[i].predicted
      <4>2. n * p < Word /\ p \in Nat /\ Weights(rs, R)[i] = p
        <5>1. p \in Nat
          BY <1>1, TableFinite
        <5>2. Weights(rs, R)[i] = p
          BY DEF Weights
        <5> QED BY <4>1, <5>1, <5>2
      <4>3. n * p \in Nat
        <5> HIDE DEF n, p
        <5> QED BY <1>1, <4>2
      <4>4. n * p <= MaxWord
        <5> HIDE DEF n, p
        <5> QED BY <4>2, <4>3, WordFacts
      <4>5. (n * p) \div n = p
        <5> HIDE DEF p, n
        <5> QED BY <1>1, <3>1, <4>2
      <4>6. (n * p) \div n <= m
        <5> HIDE DEF p, n
        <5> QED BY <1>1, <3>1, <4>3, <4>4, WordFacts, QuotientGrows
      <4> HIDE DEF m, p, n
      <4> QED BY <3>2, <4>2, <4>5, <4>6
    <3>4. Total(Weights(rs, R), R) \in Nat /\ Total(Weights(rs, R), R) <= Cardinality(R) * m
      <4> HIDE DEF m
      <4> QED BY <1>1, <3>2, <3>3, TotalIsBounded
    <3>5. Cardinality(R) \in Nat /\ Cardinality(R) <= n
      BY <1>1, FS_Subset, FS_CardinalityType
    <3>6. Cardinality(R) * m <= n * m
      <4> HIDE DEF m, n, R
      <4>1. \E k \in Nat : n = Cardinality(R) + k
        <5>1. n - Cardinality(R) \in Nat /\ n = Cardinality(R) + (n - Cardinality(R))
          BY <1>1, <3>5
        <5> QED BY <5>1
      <4>2. PICK k \in Nat : n = Cardinality(R) + k
        BY <4>1
      <4>3. (Cardinality(R) + k) * m = Cardinality(R) * m + k * m /\ k * m \in Nat
            /\ Cardinality(R) * m \in Nat
        BY <3>2, <3>5
      <4> QED BY <4>2, <4>3
    <3>7. Cardinality(R) * m \in Nat /\ n * m \in Nat
      <4> HIDE DEF m, n, R
      <4> QED BY <1>1, <3>2, <3>5
    <3>8. Load(rs, t) = Total(Weights(rs, R), R)
      BY DEF Load, LoadIn
    <3> HIDE DEF m, n, R
    <3> QED BY <3>2, <3>4, <3>6, <3>7, <3>8, WordFacts
  <2> QED BY <2>1, <2>2
<1>3. \A i \in R : rs[i].predicted \in Nat
  BY <1>1, TableFinite
<1> QED BY <1>1, <1>2, <1>3, QueueLoadRange DEF Load

\* What a new row does to the load of a target.
LEMMA LoadMoves ==
  ASSUME NEW rs \in Tables, NEW qs \in Tables, NEW d \in Drvs,
         qs = [rs EXCEPT ![d] = qs[d]], NEW t
  PROVE  Load(qs, t) + (IF rs[d].target = t THEN rs[d].predicted ELSE 0)
           = Load(rs, t) + (IF qs[d].target = t THEN qs[d].predicted ELSE 0)
<1> DEFINE R == RowsOf(rs, t)
           Q == RowsOf(qs, t)
           S == R \ {d}
           base == LoadIn(rs, S)
<1>1. DOMAIN rs = Drvs /\ DOMAIN qs = Drvs /\ \A i \in Drvs : i # d => qs[i] = rs[i]
  BY TableFinite
<1>2. /\ S = Q \ {d} /\ (d \in R <=> rs[d].target = t) /\ (d \in Q <=> qs[d].target = t)
      /\ R \subseteq Drvs /\ Q \subseteq Drvs /\ \A i \in S : qs[i] = rs[i]
  BY <1>1 DEF RowsOf
<1>3. IsFiniteSet(R) /\ IsFiniteSet(Q) /\ IsFiniteSet(S)
  BY TableFinite, FS_Subset
<1>4. \A i \in Drvs : rs[i].predicted \in Nat /\ qs[i].predicted \in Nat
  BY TableFinite
<1> HIDE DEF R, Q, S
<1>5. base \in Nat /\ LoadIn(qs, S) = base
  <2>1. \A i \in S : i \in Drvs
    BY <1>2 DEF S
  <2>2. LoadIn(rs, S) \in Nat
    BY <1>3, <1>4, <2>1, LoadIsNat
  <2>3. \A i \in S : rs[i].predicted = qs[i].predicted
    BY <1>2
  <2> QED BY <1>3, <2>2, <2>3, LoadAgrees
<1>6. LoadIn(rs, R) = base + (IF rs[d].target = t THEN rs[d].predicted ELSE 0)
  <2>1. CASE rs[d].target = t
    <3>1. d \in R /\ \A i \in R : rs[i].predicted \in Nat
      BY <1>2, <1>4, <2>1
    <3>2. LoadIn(rs, R) = rs[d].predicted + LoadIn(rs, R \ {d})
      BY <1>3, <3>1, LoadTakeOut
    <3> HIDE DEF base
    <3> QED BY <1>4, <1>5, <2>1, <3>2 DEF S, base
  <2>2. CASE rs[d].target # t
    <3>1. S = R
      BY <1>2, <2>2 DEF S
    <3> QED BY <1>5, <2>2, <3>1
  <2> QED BY <2>1, <2>2
<1>7. LoadIn(qs, Q) = base + (IF qs[d].target = t THEN qs[d].predicted ELSE 0)
  <2>1. CASE qs[d].target = t
    <3>1. d \in Q /\ \A i \in Q : qs[i].predicted \in Nat
      BY <1>2, <1>4, <2>1
    <3>2. LoadIn(qs, Q) = qs[d].predicted + LoadIn(qs, Q \ {d})
      BY <1>3, <3>1, LoadTakeOut
    <3>3. LoadIn(qs, Q) = qs[d].predicted + base
      BY <1>2, <1>5, <3>2, Zenon
    <3> HIDE DEF base
    <3> QED BY <1>4, <1>5, <2>1, <3>3
  <2>2. CASE qs[d].target # t
    <3>1. S = Q
      BY <1>2, <2>2
    <3> HIDE DEF base
    <3> QED BY <1>5, <2>2, <3>1
  <2> QED BY <2>1, <2>2
<1> DEFINE u == IF rs[d].target = t THEN rs[d].predicted ELSE 0
           v == IF qs[d].target = t THEN qs[d].predicted ELSE 0
<1>8. u \in Nat /\ v \in Nat
  BY <1>4
<1> HIDE DEF base, u, v
<1>9. (base + v) + u = (base + u) + v
  BY <1>5, <1>8
<1> QED BY <1>6, <1>7, <1>9 DEF Load, R, Q, u, v

\* What the loop compares, for a table.
LEMMA MsIsCompletion ==
  ASSUME NEW rs \in Tables, NEW b \in Nat, NEW t \in T
  PROVE  /\ Ms(Targets, rs, b, t) = Completion(Load(rs, t), b, Targets[t])
         /\ Completion(Load(rs, t), b, Targets[t]) \in Nat
<1>1. QueueLoadMs(rs, t) = Load(rs, t) /\ Load(rs, t) \in Nat /\ TargetOK(Targets[t])
  BY NoWrap, TableFinite, RoutingFacts
<1>2. Completion(Load(rs, t), b, Targets[t]) \in 0..MaxWord
  BY <1>1, CompletionRange
<1> QED BY <1>1, <1>2, CompletionIs, WordFacts DEF Ms

\* What decide says of a table.
LEMMA DecideIs ==
  ASSUME NEW rs \in Tables, NEW b \in Nat, NEW L \in SUBSET T
  PROVE  LET dec == Decide(TRUE, Targets, L, rs, b) IN
         /\ dec \in Decisions
         /\ dec.kind # "decline" =>
              /\ dec.target \in L
              /\ dec.predicted = Predicted(PackageMs(b, Targets[dec.target]))
              /\ \A t \in L : Completion(Load(rs, dec.target), b, Targets[dec.target])
                                <= Completion(Load(rs, t), b, Targets[t])
<1> DEFINE w == Best(Targets, L, rs, b)
           dec == Decide(TRUE, Targets, L, rs, b)
           n == Len(Targets)
<1>1. n \in Nat /\ T = 1..n /\ L \in SUBSET (1..n) /\ L \cap (1..n) = L /\ 0 \notin L
  BY RoutingFacts
<1>2. \A t \in L : Ms(Targets, rs, b, t) \in Nat
                   /\ Ms(Targets, rs, b, t) = Completion(Load(rs, t), b, Targets[t])
  BY MsIsCompletion
<1>3. FirstIn(Targets, L, rs, b, n, w)
  <2>1. \A t \in L : Ms(Targets, rs, b, t) \in Nat
    BY <1>2
  <2> QED BY <1>1, <2>1, BestIsFirst
<1>4. \/ w = 0 /\ L = {}
      \/ w \in L /\ \A t \in L : Ms(Targets, rs, b, w) <= Ms(Targets, rs, b, t)
  BY <1>1, <1>3, Zenon DEF FirstIn
<1>5. dec = IF w = 0 THEN DeclineDecision
            ELSE [kind      |-> IF Targets[w].host THEN "local" ELSE "remote",
                  target    |-> w,
                  predicted |-> Predicted(PackageMs(b, Targets[w]))]
  BY Zenon DEF Decide
<1> HIDE DEF w, dec, n
<1>6. CASE w = 0
  <2>1. dec = DeclineDecision
    BY <1>5, <1>6
  <2>2. dec \in Decisions /\ dec.kind = "decline"
    BY <2>1 DEF DeclineDecision, Decisions
  <2> QED BY <2>2, Zenon DEF dec
<1>7. CASE w # 0
  <2>1. w \in L /\ w \in T
    BY <1>4, <1>7
  <2>2. /\ dec.target = w /\ dec.predicted = Predicted(PackageMs(b, Targets[w]))
        /\ dec.kind \in {"local", "remote"}
    BY <1>5, <1>7
  <2>3. dec.predicted \in Nat
    <3>1. TargetOK(Targets[w])
      BY <2>1, RoutingFacts
    <3>2. PackageMs(b, Targets[w]) \in 0..MaxWord
      BY <3>1, PackageRange
    <3> QED BY <2>2, <3>2, WordFacts DEF Predicted
  <2>4. dec \in Decisions
    <3>1. dec = [kind |-> dec.kind, target |-> w, predicted |-> dec.predicted]
      BY <1>5, <1>7
    <3> QED BY <2>1, <2>2, <2>3, <3>1 DEF Decisions
  <2>5. \A t \in L : Completion(Load(rs, w), b, Targets[w])
                      <= Completion(Load(rs, t), b, Targets[t])
    BY <1>2, <1>4, <1>7, <2>1, Zenon
  <2>6. /\ dec.target \in L
        /\ dec.predicted = Predicted(PackageMs(b, Targets[dec.target]))
        /\ \A t \in L : Completion(Load(rs, dec.target), b, Targets[dec.target])
                          <= Completion(Load(rs, t), b, Targets[t])
    BY <2>1, <2>2, <2>5, Zenon
  <2> QED BY <2>4, <2>6, Zenon DEF dec
<1> QED BY <1>6, <1>7

\* What a decision leaves in the table fits there.
LEMMA StoredFits ==
  ASSUME NEW d \in Drvs, NEW t \in T, NEW p, p = Predicted(PackageMs(Base[d], Targets[t]))
  PROVE  [target |-> t, predicted |-> Column(p)] \in Fitting
<1>1. p \in Nat
  <2>1. TargetOK(Targets[t]) /\ Base[d] \in Nat
    BY RoutingFacts
  <2>2. PackageMs(Base[d], Targets[t]) \in 0..MaxWord
    BY <2>1, PackageRange
  <2> QED BY <2>2, WordFacts DEF Predicted
<1>2. Column(p) \in Nat /\ 2 * Column(p) < Word
  BY <1>1, WordFacts DEF Column
<1>3. Cardinality(Drvs) * Column(p) < Word
  BY SumsFit DEF Stored, T
<1> DEFINE row == [target |-> t, predicted |-> Column(p)]
<1>4. row \in Row /\ row.predicted = Column(p)
  BY <1>2 DEF Row
<1> QED BY <1>2, <1>3, <1>4 DEF Fitting

\* So does nothing.
LEMMA NoRowFits == NoRow \in Fitting
<1>1. NoRow.predicted = 0
  BY DEF NoRow
<1>2. Cardinality(Drvs) * 0 = 0 /\ 2 * 0 = 0
  BY RoutingFacts, FS_CardinalityType
<1> QED BY <1>1, <1>2, WordFacts DEF Fitting

\* More load costs at most the slots it takes.
LEMMA SlotsBound ==
  ASSUME NEW b \in Nat, NEW t \in T, NEW x \in Nat, NEW a \in Nat
  PROVE  /\ Slots(a, t) \in Nat
         /\ Completion(x + a, b, Targets[t]) <= Completion(x, b, Targets[t]) + Slots(a, t)
<1> DEFINE s == Targets[t]
           c == s.capacity
           r == Rounded(b, s.num, s.den)
<1>1. TargetOK(s)
  BY RoutingFacts
<1>2. r \in Nat /\ c \in Nat
  BY <1>1, PackageRange DEF TargetOK
<1>3. CASE c = 0
  <2>1. Slots(a, t) = 0 /\ Completion(x + a, b, s) = MaxWord /\ Completion(x, b, s) = MaxWord
    BY <1>3 DEF Slots, Completion
  <2> QED BY <2>1, WordFacts
<1>4. CASE c # 0
  <2> DEFINE u == (x + a) \div c
             v == x \div c
             z == (a + c - 1) \div c
  <2>1. c \in Nat \ {0} /\ x + a \in Nat /\ a + c - 1 \in Nat
    <3> HIDE DEF c
    <3> QED BY <1>2, <1>4
  <2>2. /\ u \in Nat /\ v \in Nat /\ z \in Nat
        /\ c * u <= x + a /\ x < c * v + c /\ a + c - 1 < c * z + c
    <3> HIDE DEF c
    <3>1. u \in Nat /\ c * u <= x + a
      BY <2>1, Division
    <3>2. v \in Nat /\ x < c * v + c
      BY <2>1, Division
    <3>3. z \in Nat /\ a + c - 1 < c * z + c
      <4>1. \A y \in Nat : y \div c \in Nat /\ y < c * (y \div c) + c
        BY <2>1, Division
      <4> QED BY <2>1, <4>1
    <3> QED BY <3>1, <3>2, <3>3
  <2> HIDE DEF u, v, z, c
  <2>3. u <= v + z
    <3> SUFFICES ASSUME u > v + z PROVE FALSE
      <4> QED BY <2>2
    <3>1. u - (v + z + 1) \in Nat /\ u = v + z + 1 + (u - (v + z + 1))
      BY <2>2
    <3>2. PICK k \in Nat : u = v + z + 1 + k
      BY <3>1
    <3>3. c * (v + z + 1 + k) = c * v + c * z + c + c * k
      BY <2>1, <2>2
    <3>4. c * v \in Nat /\ c * z \in Nat /\ c * k \in Nat
      BY <2>1, <2>2
    <3>5. c * u = c * v + c * z + c + c * k
      BY <3>2, <3>3, Zenon
    <3>6. c * v + c * z + c + c * k <= x + a
      BY <2>2, <3>5
    <3> QED BY <2>1, <2>2, <3>4, <3>6
  <2>4. /\ Slots(a, t) = z
        /\ Completion(x + a, b, s) = IF u + r > MaxWord THEN MaxWord ELSE u + r
        /\ Completion(x, b, s) = IF v + r > MaxWord THEN MaxWord ELSE v + r
    BY <1>4 DEF Slots, Completion, c, u, v, z
  <2> HIDE DEF r
  <2>5. Completion(x + a, b, s) <= Completion(x, b, s) + z
    BY <1>2, <2>2, <2>3, <2>4, WordFacts
  <2> QED BY <2>2, <2>4, <2>5
<1> QED BY <1>3, <1>4

-----------------------------------------------------------------------------
(* The steps. *)

\* The table and the books after a row is set.
LEMMA RowIsSet ==
  ASSUME RoutingInv, NEW d \in Drvs, NEW row \in Fitting, NEW h, SetRow(d, row, h)
  PROVE  /\ admissions' \in Tables
         /\ added' \in [Hooks -> [T -> Nat]] /\ gone' \in [Hooks -> [T -> Nat]]
         /\ \A g \in Hooks :
              /\ g = h => added'[g] = NoLoad /\ gone'[g] = NoLoad
              /\ g # h /\ ~UnderWay(g) => added'[g] = added[g] /\ gone'[g] = gone[g]
              /\ g # h /\ UnderWay(g) =>
                   \A t \in T : Load(admissions', t) + gone'[g][t]
                                  = Load(task[g].rows, t) + added'[g][t]
<1> DEFINE Come(g, t) == IF g # h /\ UnderWay(g) /\ row.target = t THEN added[g][t] + row.predicted
                         ELSE IF g = h THEN 0 ELSE added[g][t]
           old == admissions[d]
           Go(g, t) == IF g # h /\ UnderWay(g) /\ old.target = t THEN gone[g][t] + old.predicted
                       ELSE IF g = h THEN 0 ELSE gone[g][t]
<1>1. /\ admissions' = [admissions EXCEPT ![d] = row]
      /\ added' = [g \in Hooks |-> [t \in T |-> Come(g, t)]]
      /\ gone' = [g \in Hooks |-> [t \in T |-> Go(g, t)]]
  BY Zenon DEF SetRow
<1>2. admissions \in [Drvs -> Fitting]
  BY Zenon DEF RoutingInv, Tables
<1>3. admissions' \in [Drvs -> Fitting] /\ admissions'[d] = row
  BY <1>1, <1>2
<1>4. admissions \in Tables /\ admissions' \in Tables
  BY <1>2, <1>3, Zenon DEF Tables
<1>5. row.predicted \in Nat /\ old.predicted \in Nat
  <2>1. admissions'[d].predicted \in Nat
    <3>1. \A qs \in Tables : qs[d].predicted \in Nat
      BY TableFinite
    <3> QED BY <1>4, <3>1
  <2>2. old.predicted \in Nat
    BY <1>4, TableFinite
  <2> QED BY <1>3, <2>1, <2>2
<1>6. \A g \in Hooks, t \in T : added[g][t] \in Nat /\ gone[g][t] \in Nat
  BY DEF RoutingInv
<1>7. \A g \in Hooks, t \in T : Come(g, t) \in Nat /\ Go(g, t) \in Nat
  BY <1>5, <1>6
<1>8. \A g \in Hooks, t \in T : added'[g][t] = Come(g, t) /\ gone'[g][t] = Go(g, t)
  <2> HIDE DEF Come, Go
  <2> QED BY <1>1, Zenon
<1>9. added' \in [Hooks -> [T -> Nat]] /\ gone' \in [Hooks -> [T -> Nat]]
  <2> HIDE DEF Come, Go
  <2> QED BY <1>1, <1>7
<1>10. ASSUME NEW g \in Hooks
       PROVE  /\ g = h => added'[g] = NoLoad /\ gone'[g] = NoLoad
              /\ g # h /\ ~UnderWay(g) => added'[g] = added[g] /\ gone'[g] = gone[g]
  <2>1. added'[g] = [t \in T |-> Come(g, t)] /\ gone'[g] = [t \in T |-> Go(g, t)]
    <3> HIDE DEF Come, Go
    <3> QED BY <1>1, Zenon
  <2>2. ASSUME g = h PROVE added'[g] = NoLoad /\ gone'[g] = NoLoad
    <3>1. \A t \in T : Come(g, t) = 0 /\ Go(g, t) = 0
      BY <2>2
    <3> HIDE DEF Come, Go
    <3> QED BY <2>1, <3>1, Zenon DEF NoLoad
  <2>3. ASSUME g # h, ~UnderWay(g) PROVE added'[g] = added[g] /\ gone'[g] = gone[g]
    <3>1. \A t \in T : Come(g, t) = added[g][t] /\ Go(g, t) = gone[g][t]
      BY <2>3
    <3>2. added[g] = [t \in T |-> added[g][t]] /\ gone[g] = [t \in T |-> gone[g][t]]
      BY DEF RoutingInv
    <3> HIDE DEF Come, Go
    <3> QED BY <2>1, <3>1, <3>2, Zenon
  <2> QED BY <2>2, <2>3
<1>11. ASSUME NEW g \in Hooks, g # h, UnderWay(g), NEW t \in T
       PROVE  Load(admissions', t) + gone'[g][t] = Load(task[g].rows, t) + added'[g][t]
  <2> DEFINE u == IF old.target = t THEN old.predicted ELSE 0
             v == IF row.target = t THEN row.predicted ELSE 0
             now == Load(admissions, t)
             new == Load(admissions', t)
             read == Load(task[g].rows, t)
  <2>1. u \in Nat /\ v \in Nat
    BY <1>5
  <2>2. now \in Nat /\ new \in Nat
    <3>1. \A qs \in Tables : Load(qs, t) \in Nat
      BY TableFinite
    <3> QED BY <1>4, <3>1
  <2>3. read \in Nat /\ now + gone[g][t] = read + added[g][t]
    <3>1. task[g].rows \in Tables /\ now + gone[g][t] = read + added[g][t]
      BY <1>11, Zenon DEF RoutingInv, Balanced
    <3> QED BY <3>1, TableFinite
  <2>4. new + u = now + v
    <3>1. admissions' = [admissions EXCEPT ![d] = admissions'[d]]
      BY <1>1, <1>3
    <3>2. \A qs \in Tables : qs = [admissions EXCEPT ![d] = qs[d]] =>
            Load(qs, t) + (IF admissions[d].target = t THEN admissions[d].predicted ELSE 0)
              = Load(admissions, t) + (IF qs[d].target = t THEN qs[d].predicted ELSE 0)
      BY <1>4, LoadMoves
    <3>3. Load(admissions', t) + (IF admissions[d].target = t THEN admissions[d].predicted ELSE 0)
              = Load(admissions, t)
                + (IF admissions'[d].target = t THEN admissions'[d].predicted ELSE 0)
      BY <1>4, <3>1, <3>2, Zenon
    <3> QED BY <1>3, <3>3
  <2>5. added'[g][t] = added[g][t] + v /\ gone'[g][t] = gone[g][t] + u
    <3>1. Come(g, t) = added[g][t] + v /\ Go(g, t) = gone[g][t] + u
      BY <1>6, <1>11
    <3> HIDE DEF Come, Go, u, v
    <3> QED BY <1>8, <3>1
  <2>6. added[g][t] \in Nat /\ gone[g][t] \in Nat
    BY <1>6
  <2> HIDE DEF u, v, now, new, read
  <2>7. new + gone'[g][t] = read + added'[g][t]
    <3>1. \A a, b \in Nat : a = added[g][t] /\ b = gone[g][t] => new + (b + u) = read + (a + v)
      BY <2>1, <2>2, <2>3, <2>4
    <3> QED BY <2>5, <2>6, <3>1
  <2> QED BY <2>7 DEF new, read
<1> QED BY <1>4, <1>9, <1>10, <1>11, Zenon

\* Every hook but one goes on as it was, with the books as they were.
Others(h) == \A g \in Hooks \ {h} : task'[g] = task[g]
BooksKept == UNCHANGED <<admissions, added, gone>>

\* They keep their part of the invariant.
LEMMA OthersKept ==
  ASSUME RoutingInv, NEW h, Others(h), BooksKept, NEW g \in Hooks, g # h
  PROVE  Balanced(g)' /\ Unbooked(g)' /\ Decided(g)'
<1>1. task'[g] = task[g] /\ admissions' = admissions /\ added' = added /\ gone' = gone
  BY Zenon DEF Others, BooksKept
<1>2. Balanced(g) /\ Unbooked(g) /\ Decided(g)
  BY Zenon DEF RoutingInv
<1>3. Balanced(g)'
  BY <1>1, <1>2, Zenon DEF Balanced, UnderWay
<1>4. Unbooked(g)'
  BY <1>1, <1>2, Zenon DEF Unbooked, UnderWay
<1>5. Decided(g)'
  BY <1>1, <1>2, Zenon DEF Decided
<1> QED BY <1>3, <1>4, <1>5

\* A task begins: it has read what is there, and nothing has come or gone since.
LEMMA ListKeeps ==
  ASSUME RoutingInv, NEW h \in Hooks, NEW d \in Drvs, ListAdmissions(h, d) PROVE RoutingInv'
<1> DEFINE k == [Idle EXCEPT !.pc = "listed", !.drv = d, !.rows = admissions]
<1>1. /\ ~UnderWay(h) /\ decisions < MaxDecisions /\ decisions' = decisions + 1
      /\ task' = [task EXCEPT ![h] = k] /\ UNCHANGED <<admissions, live, added, gone>>
  BY Zenon DEF ListAdmissions
<1>2. task \in [Hooks -> Tasks] /\ admissions \in Tables /\ decisions \in 0..MaxDecisions
  BY DEF RoutingInv
<1>3. /\ k.pc = "listed" /\ k.drv = d /\ k.rows = admissions /\ k.decision = DeclineDecision
      /\ k \in Tasks
  BY <1>2 DEF Idle, Tasks, Decisions
<1> HIDE DEF k
<1>4. task' \in [Hooks -> Tasks] /\ task'[h] = k /\ Others(h)
  BY <1>1, <1>2, <1>3 DEF Others
<1>5. BooksKept
  BY <1>1 DEF BooksKept
<1>6. added[h] = NoLoad /\ gone[h] = NoLoad
  BY <1>1, Zenon DEF RoutingInv, Unbooked
<1>7. Balanced(h)' /\ Unbooked(h)' /\ Decided(h)'
  <2>1. \A t \in T : added[h][t] = 0 /\ gone[h][t] = 0
    BY <1>6 DEF NoLoad
  <2>2. \A t \in T : Load(admissions, t) + gone[h][t] = Load(k.rows, t) + added[h][t]
    <3>1. \A t \in T : Load(k.rows, t) = Load(admissions, t)
      BY <1>3, Zenon
    <3> QED BY <2>1, <3>1, Zenon
  <2>3. Balanced(h)'
    BY <1>1, <1>2, <1>3, <1>4, <2>2, Zenon DEF Balanced
  <2>4. Unbooked(h)'
    BY <1>1, <1>6, Zenon DEF Unbooked
  <2>5. k.pc # "chosen"
    BY <1>3
  <2>6. Decided(h)'
    BY <1>3, <1>4, <2>5, Zenon DEF Decided
  <2> QED BY <2>3, <2>4, <2>6
<1>8. \A g \in Hooks : Balanced(g)' /\ Unbooked(g)' /\ Decided(g)'
  BY <1>4, <1>5, <1>7, OthersKept, Zenon
<1>9. decisions' \in 0..MaxDecisions
  BY <1>1, <1>2, RoutingFacts
<1> QED BY <1>1, <1>4, <1>8, <1>9, Zenon DEF RoutingInv

\* A decision is that of decide on what was read.
LEMMA ChooseKeeps ==
  ASSUME RoutingInv, NEW h \in Hooks, Choose(h) PROVE RoutingInv'
<1> DEFINE dec == Decide(TRUE, Targets, live, task[h].rows, Base[task[h].drv])
           k == [task[h] EXCEPT !.pc = "chosen", !.live = live, !.decision = dec]
<1>1. /\ task[h].pc = "listed" /\ UNCHANGED <<admissions, live, added, gone, decisions>>
      /\ task' = [task EXCEPT ![h].pc = "chosen", ![h].live = live, ![h].decision = dec]
  BY Zenon DEF Choose
<1>2. task \in [Hooks -> Tasks] /\ live \in SUBSET T /\ task[h] \in Tasks
  BY DEF RoutingInv
<1>3. UnderWay(h)
  BY <1>1 DEF UnderWay
<1>4. /\ task[h].drv \in Drvs /\ task[h].rows \in Tables
      /\ \A t \in T : Load(admissions, t) + gone[h][t] = Load(task[h].rows, t) + added[h][t]
  BY <1>3, Zenon DEF RoutingInv, Balanced
<1>5. dec \in Decisions
  <2>1. Base[task[h].drv] \in Nat
    BY <1>4, RoutingFacts
  <2> QED BY <1>2, <1>4, <2>1, DecideIs
<1> HIDE DEF dec
<1>6. task' = [task EXCEPT ![h] = k]
  BY <1>1, <1>2
<1>7. /\ k.pc = "chosen" /\ k.live = live /\ k.decision = dec
      /\ k.drv = task[h].drv /\ k.rows = task[h].rows /\ k \in Tasks
  BY <1>2, <1>5 DEF Tasks
<1> HIDE DEF k
<1>8. task' \in [Hooks -> Tasks] /\ task'[h] = k /\ Others(h)
  BY <1>2, <1>6, <1>7 DEF Others
<1>9. BooksKept
  BY <1>1 DEF BooksKept
<1>10. Balanced(h)' /\ Unbooked(h)' /\ Decided(h)'
  <2>1. Balanced(h)'
    BY <1>1, <1>4, <1>7, <1>8, Zenon DEF Balanced
  <2>2. k.pc # "idle"
    BY <1>7
  <2>3. Unbooked(h)'
    BY <1>8, <2>2, Zenon DEF Unbooked, UnderWay
  <2>4. Decided(h)'
    BY <1>7, <1>8, Zenon DEF Decided, dec
  <2> QED BY <2>1, <2>3, <2>4
<1>11. \A g \in Hooks : Balanced(g)' /\ Unbooked(g)' /\ Decided(g)'
  BY <1>8, <1>9, <1>10, OthersKept, Zenon
<1> QED BY <1>1, <1>8, <1>11, Zenon DEF RoutingInv

\* No task.
LEMMA IdleFacts == Idle \in Tasks /\ Idle.pc = "idle" /\ Idle.decision = DeclineDecision
BY DEF Idle, Tasks, Decisions

\* A task that ends, with the books that its end leaves.
LEMMA EndKeeps ==
  ASSUME RoutingInv, NEW h \in Hooks, task' = [task EXCEPT ![h] = Idle],
         added'[h] = NoLoad, gone'[h] = NoLoad
  PROVE  /\ task' \in [Hooks -> Tasks] /\ Others(h)
         /\ Balanced(h)' /\ Unbooked(h)' /\ Decided(h)'
<1>1. task \in [Hooks -> Tasks]
  BY DEF RoutingInv
<1>2. task' \in [Hooks -> Tasks] /\ task'[h] = Idle /\ Others(h)
  BY <1>1, IdleFacts DEF Others
<1>3. Idle.pc = "idle" /\ Idle.pc # "chosen"
  BY IdleFacts
<1>4. Balanced(h)'
  BY <1>2, <1>3, Zenon DEF Balanced, UnderWay
<1>5. Unbooked(h)'
  BY Zenon DEF Unbooked
<1>6. Decided(h)'
  BY <1>2, <1>3, IdleFacts, Zenon DEF Decided
<1> QED BY <1>2, <1>4, <1>5, <1>6

\* A record sets a row, in the books of everyone else's task.
LEMMA RecordKeeps ==
  ASSUME RoutingInv, NEW h \in Hooks, Record(h) PROVE RoutingInv'
<1> DEFINE d == task[h].drv
           dec == task[h].decision
           row == [target |-> dec.target, predicted |-> Column(dec.predicted)]
<1>1. /\ task[h].pc = "chosen" /\ dec.kind # "decline" /\ SetRow(d, row, h)
      /\ task' = [task EXCEPT ![h] = Idle] /\ UNCHANGED <<live, decisions>>
  BY Zenon DEF Record
<1>2. UnderWay(h)
  BY <1>1 DEF UnderWay
<1>3. d \in Drvs /\ task[h].rows \in Tables
  BY <1>2, Zenon DEF RoutingInv, Balanced
<1>4. dec = Decide(TRUE, Targets, task[h].live, task[h].rows, Base[d])
  BY <1>1, Zenon DEF RoutingInv, Decided
<1>5. task[h].live \in SUBSET T /\ Base[d] \in Nat
  <2>1. task[h] \in Tasks
    BY DEF RoutingInv
  <2> QED BY <1>3, <2>1, RoutingFacts DEF Tasks
<1>6. /\ dec.target \in task[h].live
      /\ dec.predicted = Predicted(PackageMs(Base[d], Targets[dec.target]))
  <2> HIDE DEF d, dec
  <2> QED BY <1>1, <1>3, <1>4, <1>5, DecideIs
<1>7. row \in Fitting
  <2>1. dec.target \in T
    BY <1>5, <1>6
  <2> HIDE DEF dec, d
  <2> QED BY <1>3, <1>6, <2>1, StoredFits, Zenon
<1> HIDE DEF row, d, dec
<1>8. /\ admissions' \in Tables
      /\ added' \in [Hooks -> [T -> Nat]] /\ gone' \in [Hooks -> [T -> Nat]]
      /\ \A g \in Hooks :
           /\ g = h => added'[g] = NoLoad /\ gone'[g] = NoLoad
           /\ g # h /\ ~UnderWay(g) => added'[g] = added[g] /\ gone'[g] = gone[g]
           /\ g # h /\ UnderWay(g) =>
                \A t \in T : Load(admissions', t) + gone'[g][t]
                               = Load(task[g].rows, t) + added'[g][t]
  BY <1>1, <1>3, <1>7, RowIsSet
<1>9. /\ task' \in [Hooks -> Tasks] /\ Others(h)
      /\ Balanced(h)' /\ Unbooked(h)' /\ Decided(h)'
  BY <1>1, <1>8, EndKeeps, Zenon
<1>10. ASSUME NEW g \in Hooks, g # h PROVE Balanced(g)' /\ Unbooked(g)' /\ Decided(g)'
  <2>1. task'[g] = task[g]
    BY <1>9, <1>10 DEF Others
  <2>2. Balanced(g) /\ Unbooked(g) /\ Decided(g)
    BY Zenon DEF RoutingInv
  <2>3. Balanced(g)'
    BY <1>8, <1>10, <2>1, <2>2, Zenon DEF Balanced, UnderWay
  <2>4. Unbooked(g)'
    BY <1>8, <1>10, <2>1, <2>2, Zenon DEF Unbooked, UnderWay
  <2>5. Decided(g)'
    BY <2>1, <2>2, Zenon DEF Decided
  <2> QED BY <2>3, <2>4, <2>5
<1>11. \A g \in Hooks : Balanced(g)' /\ Unbooked(g)' /\ Decided(g)'
  BY <1>9, <1>10, Zenon
<1> QED BY <1>1, <1>8, <1>9, <1>11, Zenon DEF RoutingInv

\* A declined candidate leaves the table alone.
LEMMA DeclineKeeps ==
  ASSUME RoutingInv, NEW h \in Hooks, Decline(h) PROVE RoutingInv'
<1>1. /\ task' = [task EXCEPT ![h] = Idle]
      /\ added' = [added EXCEPT ![h] = NoLoad] /\ gone' = [gone EXCEPT ![h] = NoLoad]
      /\ UNCHANGED <<admissions, live, decisions>>
  BY Zenon DEF Decline
<1>2. NoLoad \in [T -> Nat]
  BY DEF NoLoad
<1>3. /\ added' \in [Hooks -> [T -> Nat]] /\ gone' \in [Hooks -> [T -> Nat]]
      /\ added'[h] = NoLoad /\ gone'[h] = NoLoad
      /\ \A g \in Hooks : g # h => added'[g] = added[g] /\ gone'[g] = gone[g]
  BY <1>1, <1>2 DEF RoutingInv
<1>4. /\ task' \in [Hooks -> Tasks] /\ Others(h)
      /\ Balanced(h)' /\ Unbooked(h)' /\ Decided(h)'
  BY <1>1, <1>3, EndKeeps, Zenon
<1>5. ASSUME NEW g \in Hooks, g # h PROVE Balanced(g)' /\ Unbooked(g)' /\ Decided(g)'
  <2>1. task'[g] = task[g] /\ added'[g] = added[g] /\ gone'[g] = gone[g]
        /\ admissions' = admissions
    BY <1>1, <1>3, <1>4, <1>5 DEF Others
  <2>2. Balanced(g) /\ Unbooked(g) /\ Decided(g)
    BY Zenon DEF RoutingInv
  <2>3. Balanced(g)'
    BY <2>1, <2>2, Zenon DEF Balanced, UnderWay
  <2>4. Unbooked(g)'
    BY <2>1, <2>2, Zenon DEF Unbooked, UnderWay
  <2>5. Decided(g)'
    BY <2>1, <2>2, Zenon DEF Decided
  <2> QED BY <2>3, <2>4, <2>5
<1>6. \A g \in Hooks : Balanced(g)' /\ Unbooked(g)' /\ Decided(g)'
  BY <1>4, <1>5, Zenon
<1> QED BY <1>1, <1>3, <1>4, <1>6, Zenon DEF RoutingInv

\* A retirement takes a row, in the books of every task.
LEMMA RetireKeeps ==
  ASSUME RoutingInv, NEW d \in Drvs, Retire(d) PROVE RoutingInv'
<1>1. SetRow(d, NoRow, NoDrv) /\ UNCHANGED <<live, task, decisions>>
  BY Zenon DEF Retire
<1>2. NoRow \in Fitting /\ \A g \in Hooks : g # NoDrv
  BY NoRowFits, RoutingFacts
<1>3. /\ admissions' \in Tables
      /\ added' \in [Hooks -> [T -> Nat]] /\ gone' \in [Hooks -> [T -> Nat]]
      /\ \A g \in Hooks :
           /\ ~UnderWay(g) => added'[g] = added[g] /\ gone'[g] = gone[g]
           /\ UnderWay(g) =>
                \A t \in T : Load(admissions', t) + gone'[g][t]
                               = Load(task[g].rows, t) + added'[g][t]
  BY <1>1, <1>2, RowIsSet
<1>4. ASSUME NEW g \in Hooks PROVE Balanced(g)' /\ Unbooked(g)' /\ Decided(g)'
  <2>1. task' = task
    BY <1>1
  <2>2. Balanced(g) /\ Unbooked(g) /\ Decided(g)
    BY Zenon DEF RoutingInv
  <2>3. Balanced(g)'
    BY <1>3, <2>1, <2>2, Zenon DEF Balanced, UnderWay
  <2>4. Unbooked(g)'
    BY <1>3, <2>1, <2>2, Zenon DEF Unbooked, UnderWay
  <2>5. Decided(g)'
    BY <2>1, <2>2, Zenon DEF Decided
  <2> QED BY <2>3, <2>4, <2>5
<1> QED BY <1>1, <1>3, <1>4, Zenon DEF RoutingInv

\* The targets change, or nothing does.
LEMMA RestKeeps ==
  ASSUME RoutingInv, TargetChanges \/ UNCHANGED vars PROVE RoutingInv'
<1>1. UNCHANGED <<admissions, task, added, gone, decisions>> /\ live' \in SUBSET T
  BY Zenon DEF TargetChanges, vars, RoutingInv
<1>2. \A g \in Hooks : Balanced(g)' /\ Unbooked(g)' /\ Decided(g)'
  BY <1>1, Zenon DEF RoutingInv, Balanced, Unbooked, Decided, UnderWay
<1> QED BY <1>1, <1>2, Zenon DEF RoutingInv

\* The invariant holds.
LEMMA RoutingInduction == Spec => []RoutingInv
<1>1. ASSUME Init PROVE RoutingInv
  <2>1. admissions \in Tables
    BY <1>1, NoRowFits DEF Init, Tables
  <2>2. task \in [Hooks -> Tasks] /\ \A h \in Hooks : task[h] = Idle
    BY <1>1, IdleFacts DEF Init
  <2>3. NoLoad \in [T -> Nat]
    BY DEF NoLoad
  <2>4. /\ added \in [Hooks -> [T -> Nat]] /\ gone \in [Hooks -> [T -> Nat]]
        /\ \A h \in Hooks : added[h] = NoLoad /\ gone[h] = NoLoad
    BY <1>1, <2>3 DEF Init
  <2>5. decisions \in 0..MaxDecisions /\ live \in SUBSET T
    BY <1>1, RoutingFacts DEF Init
  <2>6. Idle.pc = "idle" /\ Idle.pc # "chosen"
    BY IdleFacts
  <2>7. \A h \in Hooks : Balanced(h) /\ Unbooked(h) /\ Decided(h)
    BY <2>2, <2>4, <2>6, IdleFacts, Zenon DEF Balanced, Unbooked, Decided, UnderWay
  <2> QED BY <2>1, <2>2, <2>4, <2>5, <2>7, Zenon DEF RoutingInv
<1>2. ASSUME RoutingInv, [Next]_vars PROVE RoutingInv'
  <2>1. ASSUME NEW h \in Hooks, NEW d \in Drvs, ListAdmissions(h, d) PROVE RoutingInv'
    BY <1>2, <2>1, ListKeeps
  <2>2. ASSUME NEW h \in Hooks, Choose(h) PROVE RoutingInv'
    BY <1>2, <2>2, ChooseKeeps
  <2>3. ASSUME NEW h \in Hooks, Record(h) PROVE RoutingInv'
    BY <1>2, <2>3, RecordKeeps
  <2>4. ASSUME NEW h \in Hooks, Decline(h) PROVE RoutingInv'
    BY <1>2, <2>4, DeclineKeeps
  <2>5. ASSUME NEW d \in Drvs, Retire(d) PROVE RoutingInv'
    BY <1>2, <2>5, RetireKeeps
  <2>6. ASSUME TargetChanges \/ UNCHANGED vars PROVE RoutingInv'
    BY <1>2, <2>6, RestKeeps
  <2> QED BY <1>2, <2>1, <2>2, <2>3, <2>4, <2>5, <2>6, Zenon DEF Next
<1> QED BY <1>1, <1>2, PTL DEF Spec

\* Every reachable state is well typed, and no prediction in the table is in the upper half
\* of the words.
THEOREM RoutingIsTyped == Spec => []TypeOK
<1>1. ASSUME RoutingInv PROVE TypeOK
  <2>1. \A d \in Drvs : admissions[d] \in Row \cup {NoRow} /\ 2 * admissions[d].predicted < Word
    BY <1>1 DEF RoutingInv, Tables, Fitting
  <2>2. \A h \in Hooks : /\ task[h].pc \in {"idle", "listed", "chosen"}
                         /\ task[h].drv \in Drvs \cup {NoDrv} /\ task[h].live \subseteq T
    BY <1>1 DEF RoutingInv, Tasks
  <2> QED BY <1>1, <2>1, <2>2, Zenon DEF RoutingInv, TypeOK
<1> QED BY <1>1, RoutingInduction, PTL

\* A decision that is recorded is worse than any other it could have been by no more than the
\* slots of the load that came to its target and went from the other since the table was read;
\* for any targets, hooks, derivations and interleavings.
THEOREM RegretIsBounded == Spec => StalenessBoundsRegret
<1>1. ASSUME RoutingInv, NEW h \in Hooks, Records(h), NEW t \in task[h].live
      PROVE  LET d == task[h].drv
                 w == task[h].decision.target IN
             Cost(d, w) <= Cost(d, t) + Slots(added[h][w], w) + Slots(gone[h][t], t)
  <2> DEFINE d == task[h].drv
             w == task[h].decision.target
             C(load, x) == Completion(load, Base[d], Targets[x])
             now(x) == Load(admissions, x)
             read(x) == Load(task[h].rows, x)
             a == added[h][w]
             g == gone[h][t]
  <2>1. UnderWay(h) /\ task[h].decision.kind # "decline"
    BY <1>1, Zenon DEF Records
  <2>2. /\ task[h].pc = "chosen"
        /\ task[h].decision = Decide(TRUE, Targets, task[h].live, task[h].rows, Base[d])
    <3>1. DeclineDecision.kind = "decline"
      BY DEF DeclineDecision
    <3> QED BY <1>1, <2>1, <3>1, Zenon DEF RoutingInv, Decided
  <2>3. /\ d \in Drvs /\ task[h].rows \in Tables /\ admissions \in Tables
        /\ \A x \in T : now(x) + gone[h][x] = read(x) + added[h][x]
    BY <1>1, <2>1, Zenon DEF RoutingInv, Balanced
  <2>4. task[h].live \in SUBSET T /\ Base[d] \in Nat
    <3>1. task[h] \in Tasks
      BY <1>1 DEF RoutingInv
    <3> QED BY <2>3, <3>1, RoutingFacts DEF Tasks
  <2>5. w \in task[h].live /\ C(read(w), w) <= C(read(t), t)
    <3> HIDE DEF d
    <3> QED BY <1>1, <2>1, <2>2, <2>3, <2>4, DecideIs
  <2>6. w \in T /\ t \in T
    BY <1>1, <2>4, <2>5
  <2>7. now(w) \in Nat /\ now(t) \in Nat /\ read(w) \in Nat /\ read(t) \in Nat
    BY <2>3, TableFinite
  <2>8. /\ a \in Nat /\ g \in Nat /\ gone[h][w] \in Nat /\ added[h][t] \in Nat
    BY <1>1, <2>6 DEF RoutingInv
  <2>9. now(w) + gone[h][w] = read(w) + a /\ now(t) + g = read(t) + added[h][t]
    BY <2>3, <2>6
  <2>10. Cost(d, w) = C(now(w), w) /\ Cost(d, t) = C(now(t), t)
    BY <2>3, <2>4, <2>6, MsIsCompletion, Zenon DEF Ms, Cost
  <2>11. TargetOK(Targets[w]) /\ TargetOK(Targets[t])
    BY <2>6, RoutingFacts
  <2> HIDE DEF now, read, a, g, w, d, C
  <2>12. now(w) <= read(w) + a /\ read(t) <= now(t) + g
    BY <2>7, <2>8, <2>9
  <2>13. read(w) + a \in Nat /\ now(t) + g \in Nat
    BY <2>7, <2>8
  <2>14. C(now(w), w) <= C(read(w) + a, w) /\ C(read(t), t) <= C(now(t) + g, t)
    BY <2>4, <2>7, <2>11, <2>12, <2>13, CompletionGrows DEF C
  <2>15. /\ Slots(a, w) \in Nat /\ Slots(g, t) \in Nat
         /\ C(read(w) + a, w) <= C(read(w), w) + Slots(a, w)
         /\ C(now(t) + g, t) <= C(now(t), t) + Slots(g, t)
    BY <2>4, <2>6, <2>7, <2>8, SlotsBound DEF C
  <2>16. /\ C(now(w), w) \in Nat /\ C(read(w) + a, w) \in Nat /\ C(read(w), w) \in Nat
         /\ C(now(t), t) \in Nat /\ C(now(t) + g, t) \in Nat /\ C(read(t), t) \in Nat
    <3>1. \A l \in Nat : C(l, w) \in 0..MaxWord /\ C(l, t) \in 0..MaxWord
      BY <2>4, <2>11, CompletionRange DEF C
    <3> QED BY <2>7, <2>13, <3>1, WordFacts
  <2>17. C(now(w), w) <= C(now(t), t) + Slots(a, w) + Slots(g, t)
    BY <2>5, <2>14, <2>15, <2>16
  <2> QED BY <2>10, <2>17 DEF a, g, w, d
<1>2. ASSUME RoutingInv
      PROVE  \A h \in Hooks : Records(h) =>
               LET d == task[h].drv
                   w == task[h].decision.target IN
               \A t \in task[h].live :
                 Cost(d, w) <= Cost(d, t) + Slots(added[h][w], w) + Slots(gone[h][t], t)
  BY <1>1, <1>2, Zenon
<1> QED BY <1>2, RoutingInduction, PTL DEF StalenessBoundsRegret
=============================================================================
