-------------------------- MODULE Scheduler_proofs --------------------------
(***************************************************************************)
(* Proofs about decide, for any targets, rows, estimates and widths: the   *)
(* choice is the first of the cheapest, the load of the losers does not    *)
(* sway it, and an admission weighs.  decide has a loop and sums over the  *)
(* rows; the loop is shown to have the first of the cheapest after every   *)
(* turn, by its smallest counterexample, and the sums are taken apart by   *)
(* an induction over the subsets of a finite set.                          *)
(***************************************************************************)
EXTENDS SchedulerTable, FiniteSetTheorems, SequenceTheorems, WellFoundedInduction, TLAPS

(* Sums over finite sets. *)

\* A set of numbers that has one has a smallest.
LEMMA SmallestNat ==
  ASSUME NEW S \in SUBSET Nat, S # {}
  PROVE  \E m \in S : \A k \in S : m <= k
<1>1. \E m \in S : \A k \in S : ~ (<<k, m>> \in OpToRel(<, Nat))
  BY NatLessThanWellFounded, WFMin
<1>2. \A k, m \in Nat : k < m => <<k, m>> \in OpToRel(<, Nat)
  <2>1. OpToRel(<, Nat) = {ss \in Nat \X Nat : ss[1] < ss[2]}
     BY DEF OpToRel
  <2> QED BY <2>1
<1>3. \A k, m \in Nat : ~(k < m) => m <= k
  OBVIOUS
<1> QED
  BY <1>1, <1>2, <1>3, Zenon

\* A collection of subsets of a finite set holds them all if it holds each one whose proper
\* subsets it holds.
LEMMA SubsetInduction ==
  ASSUME NEW S, IsFiniteSet(S), NEW Good \in SUBSET (SUBSET S),
         \A R \in SUBSET S : (\A T \in SUBSET R : T # R => T \in Good) => R \in Good
  PROVE  Good = SUBSET S
<1> SUFFICES ASSUME (SUBSET S) \ Good # {} PROVE FALSE
  OBVIOUS
<1> DEFINE sizes == {Cardinality(R) : R \in (SUBSET S) \ Good}
<1>1. \A R \in SUBSET S : IsFiniteSet(R) /\ Cardinality(R) \in Nat
  BY FS_Subset, FS_CardinalityType
<1>2. sizes \in SUBSET Nat /\ sizes # {}
  BY <1>1
<1>3. PICK n \in sizes : \A k \in sizes : n <= k
  BY <1>2, SmallestNat, Zenon
<1>4. PICK R \in (SUBSET S) \ Good : n = Cardinality(R)
  OBVIOUS
<1>5. ASSUME NEW T \in SUBSET R, T # R PROVE T \in Good
  <2>1. IsFiniteSet(R) /\ Cardinality(R) \in Nat /\ T \in SUBSET S
    BY <1>1, <1>4
  <2>2. Cardinality(T) \in Nat /\ Cardinality(T) <= Cardinality(R)
        /\ (Cardinality(R) = Cardinality(T) => R = T)
    BY <2>1, <1>1, <1>5, FS_Subset
  <2>3. ~ (n <= Cardinality(T))
    BY <1>4, <1>5, <2>1, <2>2
  <2>4. T \notin Good => Cardinality(T) \in sizes
    BY <2>1
  <2> QED BY <1>3, <2>3, <2>4
<1>6. R \in Good
  BY <1>4, <1>5, Zenon
<1> QED BY <1>4, <1>6

\* MapThenSumSet, one member at a time.
Chosen(s) == CHOOSE x \in s : TRUE
Sums(f, S, g) ==
  g = [s \in SUBSET S |-> IF s = {} THEN 0 ELSE f[Chosen(s)] + g[s \ {Chosen(s)}]]
Total(f, S) == (CHOOSE g : Sums(f, S, g))[S]

\* MapThenSumSet is the total.
LEMMA TotalIsSum ==
  ASSUME NEW f, NEW S PROVE MapThenSumSet(LAMBDA i : f[i], S) = Total(f, S)
BY Zenon DEF MapThenSumSet, MapThenFoldSet, Total, Sums, Chosen

\* The member that is taken out first is one.
LEMMA ChosenIn == ASSUME NEW s, s # {} PROVE Chosen(s) \in s /\ s \ {Chosen(s)} # s
<1>1. Chosen(s) \in s
  BY DEF Chosen
<1> QED BY <1>1

\* A function of sums, unfolded once.
LEMMA SumsStep ==
  ASSUME NEW f, NEW S, NEW g, Sums(f, S, g), NEW s \in SUBSET S
  PROVE  g[s] = IF s = {} THEN 0 ELSE f[Chosen(s)] + g[s \ {Chosen(s)}]
<1>1. g = [r \in SUBSET S |-> IF r = {} THEN 0 ELSE f[Chosen(r)] + g[r \ {Chosen(r)}]]
  BY Zenon DEF Sums
<1> QED BY <1>1, Zenon

\* There is one function of sums.
LEMMA SumsAreUnique ==
  ASSUME NEW f, NEW S, IsFiniteSet(S), NEW g, NEW h, Sums(f, S, g), Sums(f, S, h)
  PROVE  g = h
<1> DEFINE Good == {s \in SUBSET S : g[s] = h[s]}
<1>1. ASSUME NEW R \in SUBSET S, \A T \in SUBSET R : T # R => T \in Good
      PROVE  R \in Good
  <2>1. CASE R = {}
    <3>1. g[R] = 0 /\ h[R] = 0
      BY <2>1, SumsStep
    <3> QED BY <3>1
  <2>2. CASE R # {}
    <3>1. R \ {Chosen(R)} \in Good
      <4>1. R \ {Chosen(R)} # R
        BY <2>2, ChosenIn, Zenon
      <4> QED BY <1>1, <4>1
    <3>2. g[R] = f[Chosen(R)] + g[R \ {Chosen(R)}]
      BY <2>2, SumsStep
    <3>3. h[R] = f[Chosen(R)] + h[R \ {Chosen(R)}]
      BY <2>2, SumsStep
    <3> QED BY <3>1, <3>2, <3>3, Zenon
  <2> QED BY <2>1, <2>2
<1>2. Good = SUBSET S
  <2> HIDE DEF Good
  <2>1. Good \in SUBSET (SUBSET S)
    BY DEF Good
  <2> QED BY <1>1, <2>1, SubsetInduction, Zenon
<1>3. \A s \in SUBSET S : g[s] = h[s]
  BY <1>2
<1>4. g = [s \in SUBSET S |-> IF s = {} THEN 0 ELSE f[Chosen(s)] + g[s \ {Chosen(s)}]]
  BY Zenon DEF Sums
<1>5. h = [s \in SUBSET S |-> IF s = {} THEN 0 ELSE f[Chosen(s)] + h[s \ {Chosen(s)}]]
  BY Zenon DEF Sums
<1>6. g = [s \in SUBSET S |-> g[s]]
  BY <1>4, SumsStep, Zenon
<1>7. h = [s \in SUBSET S |-> h[s]]
  BY <1>5, SumsStep, Zenon
<1> QED BY <1>3, <1>6, <1>7, Zenon

\* The total unfolds to the first member and the total of the others.
Adds(f, R) ==
  Total(f, R) = IF R = {} THEN 0 ELSE f[Chosen(R)] + Total(f, R \ {Chosen(R)})

\* It does, over a finite set.
LEMMA TotalStep ==
  ASSUME NEW f, NEW S, IsFiniteSet(S)
  PROVE  Adds(f, S)
<1> DEFINE Good == {R \in SUBSET S : Adds(f, R)}
<1>1. ASSUME NEW R \in SUBSET S, \A T \in SUBSET R : T # R => T \in Good
      PROVE  R \in Good
  <2> DEFINE last == IF R = {} THEN 0 ELSE f[Chosen(R)] + Total(f, R \ {Chosen(R)})
             h == [T \in SUBSET R |-> IF T = R THEN last ELSE Total(f, T)]
             k == CHOOSE g : Sums(f, R, g)
  <2>1. ASSUME NEW T \in SUBSET R
        PROVE  h[T] = IF T = {} THEN 0 ELSE f[Chosen(T)] + h[T \ {Chosen(T)}]
    <3>1. T # {} => h[T \ {Chosen(T)}] = Total(f, T \ {Chosen(T)})
      <4> SUFFICES ASSUME T # {} PROVE h[T \ {Chosen(T)}] = Total(f, T \ {Chosen(T)})
        OBVIOUS
      <4>1. Chosen(T) \in T
        BY ChosenIn
      <4>2. T \ {Chosen(T)} \in SUBSET R /\ T \ {Chosen(T)} # R
        BY <4>1
      <4> QED BY <4>2, Zenon
    <3>2. CASE T = R
      <4>1. h[T] = last
        BY <3>2
      <4> QED BY <3>1, <3>2, <4>1
    <3>3. CASE T # R
      <4>1. h[T] = Total(f, T)
        BY <3>3
      <4>2. Adds(f, T)
        BY <1>1, <3>3
      <4> HIDE DEF h
      <4> QED BY <3>1, <4>1, <4>2 DEF Adds
    <3> QED BY <3>2, <3>3
  <2>2. h = [T \in SUBSET R |-> h[T]]
    OBVIOUS
  <2> HIDE DEF h
  <2>3. Sums(f, R, h)
    BY <2>1, <2>2, Zenon DEF Sums
  <2>4. Sums(f, R, k)
    BY <2>3, Zenon
  <2>5. k = h
    <3>1. IsFiniteSet(R)
      BY FS_Subset
    <3> QED BY <2>3, <2>4, <3>1, SumsAreUnique
  <2>6. Total(f, R) = h[R]
    BY <2>5, Zenon DEF Total
  <2>7. h[R] = last
    BY DEF h
  <2> QED BY <2>6, <2>7 DEF Adds
<1>2. Good = SUBSET S
  <2> HIDE DEF Good
  <2>1. Good \in SUBSET (SUBSET S)
    BY DEF Good
  <2> QED BY <1>1, <2>1, SubsetInduction, Zenon
<1> QED BY <1>2

\* A total of natural numbers is one.
LEMMA TotalIsNat ==
  ASSUME NEW f, NEW S, IsFiniteSet(S), \A x \in S : f[x] \in Nat
  PROVE  Total(f, S) \in Nat
<1> DEFINE Good == {R \in SUBSET S : Total(f, R) \in Nat}
<1>1. ASSUME NEW R \in SUBSET S, \A U \in SUBSET R : U # R => U \in Good
      PROVE  R \in Good
  <2>1. Adds(f, R)
    BY TotalStep, FS_Subset
  <2>2. CASE R = {}
    BY <2>1, <2>2 DEF Adds
  <2>3. CASE R # {}
    <3>1. Chosen(R) \in R /\ R \ {Chosen(R)} # R
      BY <2>3, ChosenIn
    <3>2. R \ {Chosen(R)} \in Good /\ f[Chosen(R)] \in Nat
      BY <1>1, <3>1
    <3>3. Total(f, R \ {Chosen(R)}) \in Nat
      BY <3>2
    <3> QED BY <2>1, <2>3, <3>2, <3>3 DEF Adds
  <2> QED BY <2>2, <2>3
<1>2. Good = SUBSET S
  <2> HIDE DEF Good
  <2>1. Good \in SUBSET (SUBSET S)
    BY DEF Good
  <2> QED BY <1>1, <2>1, SubsetInduction, Zenon
<1> QED BY <1>2

\* Any member may be taken out first.
LEMMA TakeOut ==
  ASSUME NEW f, NEW S, IsFiniteSet(S), \A x \in S : f[x] \in Nat, NEW a \in S
  PROVE  Total(f, S) = f[a] + Total(f, S \ {a})
<1> DEFINE Good == {R \in SUBSET S : \A x \in R : Total(f, R) = f[x] + Total(f, R \ {x})}
<1>1. ASSUME NEW R \in SUBSET S, \A U \in SUBSET R : U # R => U \in Good
      PROVE  R \in Good
  <2>1. SUFFICES ASSUME NEW x \in R PROVE Total(f, R) = f[x] + Total(f, R \ {x})
    OBVIOUS
  <2> DEFINE c == Chosen(R)
             U == R \ {c}
  <2>2. c \in R /\ U # R /\ IsFiniteSet(R)
    BY ChosenIn, FS_Subset
  <2>3. Total(f, R) = f[c] + Total(f, U)
    <3>1. Adds(f, R)
      BY <2>2, TotalStep
    <3> QED BY <2>2, <3>1 DEF Adds
  <2>4. CASE x = c
    BY <2>3, <2>4
  <2>5. CASE x # c
    <3>1. x \in U /\ U \in Good
      BY <1>1, <2>2, <2>5
    <3>2. Total(f, U) = f[x] + Total(f, U \ {x})
      BY <3>1
    <3>3. R \ {x} \in Good /\ c \in R \ {x}
      BY <1>1, <2>2, <2>5
    <3>4. Total(f, R \ {x}) = f[c] + Total(f, (R \ {x}) \ {c})
      BY <3>3
    <3>5. (R \ {x}) \ {c} = U \ {x}
      OBVIOUS
    <3>6. Total(f, U \ {x}) \in Nat
      <4>1. IsFiniteSet(U \ {x}) /\ U \ {x} \subseteq S
        BY <2>2, FS_Subset
      <4> QED BY <4>1, TotalIsNat
    <3>7. f[x] \in Nat /\ f[c] \in Nat
      BY <2>2
    <3> HIDE DEF c, U
    <3>8. Total(f, R \ {x}) = f[c] + Total(f, U \ {x})
      BY <3>4, <3>5, Zenon
    <3>9. \A p, q, r \in Nat : p + (q + r) = q + (p + r)
      OBVIOUS
    <3>10. Total(f, R) = f[c] + (f[x] + Total(f, U \ {x}))
      BY <2>3, <3>2, Zenon
    <3>11. f[c] + (f[x] + Total(f, U \ {x})) = f[x] + (f[c] + Total(f, U \ {x}))
      BY <3>6, <3>7, <3>9
    <3> QED BY <3>8, <3>10, <3>11, Zenon
  <2> QED BY <2>4, <2>5
<1>2. Good = SUBSET S
  <2> HIDE DEF Good
  <2>1. Good \in SUBSET (SUBSET S)
    BY DEF Good
  <2> QED BY <1>1, <2>1, SubsetInduction, Zenon
<1> QED BY <1>2

\* The total depends on nothing but the numbers of the members.
LEMMA TotalAgrees ==
  ASSUME NEW f, NEW g, NEW S, IsFiniteSet(S), \A x \in S : f[x] = g[x]
  PROVE  Total(f, S) = Total(g, S)
<1> DEFINE Good == {R \in SUBSET S : Total(f, R) = Total(g, R)}
<1>1. ASSUME NEW R \in SUBSET S, \A U \in SUBSET R : U # R => U \in Good
      PROVE  R \in Good
  <2>1. Adds(f, R) /\ Adds(g, R)
    BY TotalStep, FS_Subset
  <2>2. CASE R = {}
    BY <2>1, <2>2 DEF Adds
  <2>3. CASE R # {}
    <3>1. Chosen(R) \in R /\ R \ {Chosen(R)} # R
      BY <2>3, ChosenIn
    <3>2. R \ {Chosen(R)} \in Good /\ f[Chosen(R)] = g[Chosen(R)]
      BY <1>1, <3>1
    <3> QED BY <2>1, <2>3, <3>2 DEF Adds
  <2> QED BY <2>2, <2>3
<1>2. Good = SUBSET S
  <2> HIDE DEF Good
  <2>1. Good \in SUBSET (SUBSET S)
    BY DEF Good
  <2> QED BY <1>1, <2>1, SubsetInduction, Zenon
<1> QED BY <1>2

\* A bound on every member bounds the total.
LEMMA TotalIsBounded ==
  ASSUME NEW f, NEW S, IsFiniteSet(S), NEW m \in Nat, \A x \in S : f[x] \in 0..m
  PROVE  Total(f, S) \in Nat /\ Total(f, S) <= Cardinality(S) * m
<1> DEFINE Good == {R \in SUBSET S : Total(f, R) <= Cardinality(R) * m}
<1>0. ASSUME NEW R \in SUBSET S PROVE Total(f, R) \in Nat
  <2>1. IsFiniteSet(R) /\ \A x \in R : f[x] \in Nat
    BY FS_Subset
  <2> QED BY <2>1, TotalIsNat
<1>1. ASSUME NEW R \in SUBSET S, \A U \in SUBSET R : U # R => U \in Good
      PROVE  R \in Good
  <2>0. IsFiniteSet(R)
    BY FS_Subset
  <2>1. Adds(f, R)
    BY <2>0, TotalStep
  <2>2. CASE R = {}
    <3>1. Cardinality(R) = 0
      BY <2>2, FS_EmptySet
    <3> QED BY <2>1, <2>2, <3>1 DEF Adds
  <2>3. CASE R # {}
    <3> DEFINE c == Chosen(R)
               U == R \ {c}
    <3>1. c \in R /\ U # R
      BY <2>3, ChosenIn
    <3>2. U \in Good /\ f[c] \in 0..m
      BY <1>1, <3>1
    <3>3. Total(f, R) = f[c] + Total(f, U)
      BY <2>1, <2>3 DEF Adds
    <3>4. Cardinality(U) = Cardinality(R) - 1 /\ Cardinality(R) \in Nat /\ IsFiniteSet(U)
      BY <2>0, <3>1, FS_RemoveElement, FS_CardinalityType
    <3>5. Cardinality(U) \in Nat
      BY <3>4, FS_CardinalityType
    <3>6. Total(f, U) \in Nat /\ Total(f, U) <= Cardinality(U) * m
      BY <1>0, <3>2
    <3>7. Cardinality(R) * m = Cardinality(U) * m + m
      <4>1. ASSUME NEW k \in Nat PROVE (k + 1) * m = k * m + m
        OBVIOUS
      <4>2. Cardinality(R) = Cardinality(U) + 1
        BY <3>4
      <4> QED BY <3>5, <4>1, <4>2
    <3>8. Cardinality(U) * m \in Nat
      BY <3>5
    <3> HIDE DEF U, c
    <3>9. Total(f, R) <= Cardinality(R) * m
      BY <3>2, <3>3, <3>6, <3>7, <3>8
    <3> QED BY <3>9
  <2> QED BY <2>2, <2>3
<1>2. Good = SUBSET S
  <2> HIDE DEF Good
  <2>1. Good \in SUBSET (SUBSET S)
    BY DEF Good
  <2> QED BY <1>1, <2>1, SubsetInduction, Zenon
<1> QED BY <1>0, <1>2

-----------------------------------------------------------------------------
(* Arithmetic, and the load of a queue. *)

\* What division promises.
LEMMA Division ==
  ASSUME NEW a \in Nat, NEW d \in Nat \ {0}
  PROVE  /\ a \div d \in Nat
         /\ d * (a \div d) <= a /\ a < d * (a \div d) + d
<1>1. a \in Int /\ d \in Int /\ d > 0
  OBVIOUS
<1>2. a = d * (a \div d) + (a % d) /\ a % d \in 0..(d - 1) /\ a \div d \in Int
  BY <1>1
<1>3. a \div d >= 0
  OBVIOUS
<1> DEFINE q == a \div d
           e == d * q
<1>4. e \in Int
  BY <1>2
<1>5. a = e + (a % d) /\ a % d \in Nat /\ a % d < d
  BY <1>2
<1>6. e <= a /\ a < e + d
  <2> HIDE DEF e
  <2> QED BY <1>1, <1>4, <1>5
<1> QED BY <1>2, <1>3, <1>6

\* A number below the width is its own remainder.
LEMMA ModSmall == ASSUME NEW a \in Nat, NEW w \in Nat, a < w PROVE a % w = a
OBVIOUS

\* A remainder is below the width.
LEMMA ModRange == ASSUME NEW a \in Nat, NEW w \in Nat, w > 0 PROVE a % w \in 0..(w - 1)
OBVIOUS

\* The predictions of the rows in S, their sum, and the rows that name a target.
Weights(rs, S) == [i \in S |-> rs[i].predicted]
LoadIn(rs, S) == Total(Weights(rs, S), S)
RowsOf(rs, t) == {i \in DOMAIN rs : rs[i].target = t}

\* The sum of the predictions in S is the load of S.
LEMMA RowsSum ==
  ASSUME NEW rs, NEW S
  PROVE  MapThenSumSet(LAMBDA i : rs[i].predicted, S) = LoadIn(rs, S)
<1>1. MapThenSumSet(LAMBDA i : rs[i].predicted, S)
        = MapThenSumSet(LAMBDA i : [j \in S |-> rs[j].predicted][i], S)
  BY Zenon DEF MapThenSumSet, MapThenFoldSet
<1>2. MapThenSumSet(LAMBDA i : [j \in S |-> rs[j].predicted][i], S)
        = Total([j \in S |-> rs[j].predicted], S)
  BY TotalIsSum
<1> QED BY <1>1, <1>2, Zenon DEF LoadIn, Weights

\* A load is a natural number.
LEMMA LoadIsNat ==
  ASSUME NEW rs, NEW S, IsFiniteSet(S), \A i \in S : rs[i].predicted \in Nat
  PROVE  LoadIn(rs, S) \in Nat
<1>1. \A i \in S : Weights(rs, S)[i] \in Nat
  BY DEF Weights
<1> QED BY <1>1, TotalIsNat, Zenon DEF LoadIn

\* Rows with the same predictions are the same load.
LEMMA LoadAgrees ==
  ASSUME NEW rs, NEW qs, NEW S, IsFiniteSet(S), \A i \in S : rs[i].predicted = qs[i].predicted
  PROVE  LoadIn(rs, S) = LoadIn(qs, S)
<1>1. \A i \in S : Weights(rs, S)[i] = Weights(qs, S)[i]
  BY DEF Weights
<1> QED BY <1>1, TotalAgrees, Zenon DEF LoadIn

\* Any row may be taken out of a load first.
LEMMA LoadTakeOut ==
  ASSUME NEW rs, NEW S, IsFiniteSet(S), \A i \in S : rs[i].predicted \in Nat, NEW a \in S
  PROVE  LoadIn(rs, S) = rs[a].predicted + LoadIn(rs, S \ {a})
<1>1. \A i \in S : Weights(rs, S)[i] \in Nat
  BY DEF Weights
<1>2. Total(Weights(rs, S), S) = Weights(rs, S)[a] + Total(Weights(rs, S), S \ {a})
  BY <1>1, TakeOut, Zenon
<1>3. Total(Weights(rs, S), S \ {a}) = Total(Weights(rs, S \ {a}), S \ {a})
  <2>1. IsFiniteSet(S \ {a})
    BY FS_Subset
  <2>2. \A i \in S \ {a} : Weights(rs, S)[i] = Weights(rs, S \ {a})[i]
    BY DEF Weights
  <2> QED BY <2>1, <2>2, TotalAgrees, Zenon
<1>4. Weights(rs, S)[a] = rs[a].predicted
  BY DEF Weights
<1> QED BY <1>2, <1>3, <1>4, Zenon DEF LoadIn

\* The queue of a target is the load of its rows, as a word.
LEMMA QueueIsLoad ==
  ASSUME NEW rs, NEW t
  PROVE  QueueLoadMs(rs, t) = LoadIn(rs, RowsOf(rs, t)) % Word
<1>1. QueueLoadMs(rs, t)
        = MapThenSumSet(LAMBDA i : rs[i].predicted, RowsOf(rs, t)) % Word
  BY Zenon DEF QueueLoadMs, RowsOf
<1> QED BY <1>1, RowsSum, Zenon

\* The width and the largest word.
LEMMA WordFacts == MaxWord \in Nat /\ MaxWord = Word - 1 /\ Word \in Nat /\ Word > 0 /\ MaxWord >= 3
BY WordAssumption DEF MaxWord

\* A queue is a word, and is the load itself if that fits.
LEMMA QueueLoadRange ==
  ASSUME NEW rs, NEW t, IsFiniteSet(RowsOf(rs, t)),
         \A i \in RowsOf(rs, t) : rs[i].predicted \in Nat
  PROVE  /\ QueueLoadMs(rs, t) \in 0..MaxWord
         /\ LoadIn(rs, RowsOf(rs, t)) < Word =>
              QueueLoadMs(rs, t) = LoadIn(rs, RowsOf(rs, t))
<1>1. LoadIn(rs, RowsOf(rs, t)) \in Nat
  BY LoadIsNat
<1> DEFINE a == LoadIn(rs, RowsOf(rs, t))
<1>2. a % Word \in 0..(Word - 1) /\ (a < Word => a % Word = a)
  <2> HIDE DEF a
  <2>1. a \in Nat
    BY <1>1 DEF a
  <2> QED BY <2>1, ModSmall, ModRange, WordFacts
<1> QED BY <1>2, QueueIsLoad, Zenon DEF MaxWord

\* scaled_package_ms before it saturates.
Rounded(b, num, den) == (2 * b * num + den) \div (2 * den)

\* It is the nearest number, halves up.
LEMMA RoundedIs ==
  ASSUME NEW b \in Nat, NEW num \in Nat, NEW den \in Nat \ {0}
  PROVE  /\ Rounded(b, num, den) \in 0..(b * num + 1)
         /\ 2 * den * Rounded(b, num, den) - den <= 2 * b * num
         /\ 2 * b * num < 2 * den * Rounded(b, num, den) + den
<1> DEFINE p == b * num
           d == 2 * den
           a == 2 * b * num + den
           r == a \div d
           e == d * r
<1>1. p \in Nat /\ 2 * b * num = 2 * p /\ d \in Nat \ {0} /\ a \in Nat /\ a = 2 * p + den
  OBVIOUS
<1>2. r \in Nat /\ e <= a /\ a < e + d
  <2> HIDE DEF a, d
  <2> QED BY <1>1, Division
<1>3. e \in Nat
  BY <1>1, <1>2
<1>4. e - den <= 2 * p /\ 2 * p < e + den
  <2> HIDE DEF e, p, r, a
  <2> QED BY <1>1, <1>2, <1>3
<1>5. r <= p + 1
  <2> SUFFICES ASSUME r > p + 1 PROVE FALSE
    <3> HIDE DEF r, p
    <3> QED BY <1>1, <1>2
  <2>1. e = 2 * (den * r)
    <3> HIDE DEF r
    <3> QED BY <1>2
  <2>2. \A x \in Nat : x * (p + 2) = x * p + 2 * x /\ x * p \in Nat /\ (x >= 1 => x * p >= p)
    <3> HIDE DEF p
    <3> QED BY <1>1
  <2>3. den * r >= den * (p + 2)
    <3> HIDE DEF p, r
    <3>1. \E k \in Nat : r = (p + 2) + k
      <4>1. r - (p + 2) \in Nat /\ r = (p + 2) + (r - (p + 2))
        BY <1>1, <1>2
      <4> QED BY <4>1
    <3>2. PICK k \in Nat : r = (p + 2) + k
      BY <3>1
    <3>3. den * ((p + 2) + k) = den * (p + 2) + den * k
      BY <1>1
    <3>4. den * k \in Nat /\ den * (p + 2) \in Nat
      BY <1>1
    <3> QED BY <3>2, <3>3, <3>4
  <2>4. den * (p + 2) = den * p + 2 * den /\ den * p \in Nat /\ den * p >= p
    <3> HIDE DEF p
    <3> QED BY <2>2
  <2>5. den * r \in Nat
    <3> HIDE DEF p, r
    <3> QED BY <1>1, <1>2
  <2> HIDE DEF e, p, r
  <2>6. \A x, y \in Nat : x >= y + 2 * den /\ y >= p => 2 * x > 2 * p + den
    BY <1>1
  <2>7. 2 * (den * r) > 2 * p + den
    BY <2>3, <2>4, <2>5, <2>6
  <2> QED BY <1>1, <1>2, <1>3, <2>1, <2>7
<1>6. Rounded(b, num, den) = r /\ 2 * den * r = e
  BY DEF Rounded
<1> HIDE DEF e, p, r, d, a
<1>7. b * num + 1 = p + 1
  BY DEF p
<1>8. r \in 0..(p + 1)
  BY <1>1, <1>2, <1>5
<1> QED BY <1>1, <1>4, <1>6, <1>7, <1>8

-----------------------------------------------------------------------------
(* The loop over the targets. *)

\* What the loop over the targets compares.
Ms(ts, rs, b, t) == CompletionMs(rs, b, t, ts[t])

\* w is the first of the cheapest of the targets L up to i, or 0 if there is none.
FirstIn(ts, L, rs, b, i, w) ==
  \/ w = 0 /\ L \cap (1..i) = {}
  \/ /\ w \in L \cap (1..i)
     /\ \A t \in L \cap (1..i) :
          /\ Ms(ts, rs, b, w) <= Ms(ts, rs, b, t)
          /\ t < w => Ms(ts, rs, b, w) < Ms(ts, rs, b, t)

\* The loop over the targets, as a function of its turns.
Loop(ts, L, rs, b, g) ==
  g = [i \in 0..Len(ts) |->
         IF i = 0 THEN 0
         ELSE IF i \in L /\ (g[i - 1] = 0 \/ Better(Ms(ts, rs, b, i), Ms(ts, rs, b, g[i - 1])))
              THEN i ELSE g[i - 1]]

\* Best is what the loop ends with.
LEMMA BestIsLoop ==
  ASSUME NEW ts, NEW L, NEW rs, NEW b
  PROVE  Best(ts, L, rs, b) = (CHOOSE g : Loop(ts, L, rs, b, g))[Len(ts)]
BY Zenon DEF Best, Loop, Ms

\* One turn of the loop: the first of the cheapest of one target more.
LEMMA OneTurn ==
  ASSUME NEW ts, NEW n \in Nat, NEW L \in SUBSET (1..n), NEW rs, NEW b,
         \A t \in L : Ms(ts, rs, b, t) \in Nat,
         NEW i \in 1..n, NEW w, FirstIn(ts, L, rs, b, i - 1, w)
  PROVE  FirstIn(ts, L, rs, b, i,
           IF i \in L /\ (w = 0 \/ Better(Ms(ts, rs, b, i), Ms(ts, rs, b, w))) THEN i ELSE w)
<1>1. 1..i = (1..(i - 1)) \cup {i} /\ i \notin 1..(i - 1) /\ 1..(i-1) \subseteq Nat
  OBVIOUS
<1>2. CASE i \notin L
  <2>1. L \cap (1..i) = L \cap (1..(i - 1))
    BY <1>1, <1>2
  <2> QED BY <1>2, <2>1, Zenon DEF FirstIn
<1>3. CASE i \in L
  <2>1. L \cap (1..i) = (L \cap (1..(i - 1))) \cup {i}
    BY <1>1, <1>3
  <2>2. CASE w = 0
    <3>1. L \cap (1..(i - 1)) = {}
      BY <2>2, <1>1 DEF FirstIn
    <3>2. L \cap (1..i) = {i}
      BY <2>1, <3>1
    <3>3. FirstIn(ts, L, rs, b, i, i)
      BY <3>2, <1>3 DEF FirstIn
    <3> QED BY <1>3, <2>2, <3>3
  <2>3. CASE w # 0
    <3> DEFINE M(t) == Ms(ts, rs, b, t)
    <3>1. /\ w \in L \cap (1..(i - 1))
          /\ \A t \in L \cap (1..(i - 1)) : M(w) <= M(t) /\ (t < w => M(w) < M(t))
      BY <2>3, Zenon DEF FirstIn
    <3>2. M(w) \in Nat /\ M(i) \in Nat /\ \A t \in L : M(t) \in Nat
      BY <1>3, <3>1
    <3>3. w < i /\ \A t \in L \cap (1..(i - 1)) : t < i
      BY <3>1
    <3>4. Better(M(i), M(w)) <=> M(i) < M(w)
      BY DEF Better
    <3>5. CASE M(i) < M(w)
      <4>1. \A t \in L \cap (1..(i - 1)) : M(i) < M(t)
        <5> SUFFICES ASSUME NEW t \in L \cap (1..(i - 1)) PROVE M(i) < M(t)
          OBVIOUS
        <5>1. M(t) \in Nat /\ M(w) <= M(t)
          BY <3>1, <3>2
        <5> HIDE DEF M
        <5> QED BY <5>1, <3>2, <3>5
      <4>2. M(i) <= M(i) /\ ~(i < i)
        BY <3>2
      <4>3. \A t \in L \cap (1..(i - 1)) : M(i) <= M(t)
        <5> SUFFICES ASSUME NEW t \in L \cap (1..(i - 1)) PROVE M(i) <= M(t)
          OBVIOUS
        <5>1. M(t) \in Nat /\ M(i) < M(t)
          BY <3>2, <4>1
        <5> HIDE DEF M
        <5> QED BY <5>1, <3>2
      <4>4. FirstIn(ts, L, rs, b, i, i)
        BY <1>3, <2>1, <4>1, <4>2, <4>3, Zenon DEF FirstIn
      <4> HIDE DEF M
      <4> QED BY <1>3, <3>4, <3>5, <4>4 DEF M
    <3>6. CASE ~(M(i) < M(w))
      <4>1. M(w) <= M(i) /\ ~(i < w)
        <5>1. i \in Nat /\ w \in Nat
          BY <3>1
        <5> HIDE DEF M
        <5> QED BY <3>2, <3>3, <3>6, <5>1
      <4>2. FirstIn(ts, L, rs, b, i, w)
        BY <2>1, <3>1, <4>1, Zenon DEF FirstIn
      <4> HIDE DEF M
      <4> QED BY <2>3, <3>4, <3>6, <4>2 DEF M
    <3> QED BY <3>5, <3>6
  <2> QED BY <2>2, <2>3
<1> QED BY <1>2, <1>3

\* After each turn the loop has the first of the cheapest so far.
LEMMA LoopIsRight ==
  ASSUME NEW ts, NEW n \in Nat, Len(ts) = n, NEW L \in SUBSET (1..n), NEW rs, NEW b,
         \A t \in L : Ms(ts, rs, b, t) \in Nat, NEW g, Loop(ts, L, rs, b, g), NEW i \in 0..n
  PROVE  FirstIn(ts, L, rs, b, i, g[i])
<1> DEFINE Bad == {k \in 0..n : ~FirstIn(ts, L, rs, b, k, g[k])}
<1>1. SUFFICES ASSUME Bad # {} PROVE FALSE
  OBVIOUS
<1>2. PICK k \in Bad : \A j \in Bad : k <= j
  <2>1. Bad \in SUBSET Nat
    OBVIOUS
  <2> HIDE DEF Bad
  <2> QED BY <1>1, <2>1, SmallestNat, Zenon
<1>3. ASSUME NEW j \in 0..n
      PROVE  g[j] = IF j = 0 THEN 0
                    ELSE IF j \in L /\ (g[j - 1] = 0
                                        \/ Better(Ms(ts, rs, b, j), Ms(ts, rs, b, g[j - 1])))
                         THEN j ELSE g[j - 1]
  <2>1. g = [x \in 0..n |-> IF x = 0 THEN 0
                    ELSE IF x \in L /\ (g[x - 1] = 0
                                        \/ Better(Ms(ts, rs, b, x), Ms(ts, rs, b, g[x - 1])))
                         THEN x ELSE g[x - 1]]
    BY Zenon DEF Loop
  <2> QED BY <2>1, Zenon
<1>4. CASE k = 0
  <2>1. g[0] = 0 /\ 1..0 = {}
    BY <1>3
  <2>2. FirstIn(ts, L, rs, b, 0, 0)
    BY <2>1 DEF FirstIn
  <2> QED BY <1>2, <1>4, <2>1, <2>2
<1>5. CASE k # 0
  <2>1. k \in 1..n /\ k - 1 \in 0..n /\ ~(k <= k - 1)
    BY <1>2, <1>5
  <2>2. FirstIn(ts, L, rs, b, k - 1, g[k - 1])
    BY <1>2, <2>1, Zenon
  <2>3. FirstIn(ts, L, rs, b, k,
          IF k \in L /\ (g[k - 1] = 0 \/ Better(Ms(ts, rs, b, k), Ms(ts, rs, b, g[k - 1])))
          THEN k ELSE g[k - 1])
    BY <2>1, <2>2, OneTurn, Zenon
  <2>4. g[k] = IF k \in L /\ (g[k - 1] = 0
                              \/ Better(Ms(ts, rs, b, k), Ms(ts, rs, b, g[k - 1])))
               THEN k ELSE g[k - 1]
    BY <1>2, <1>3, <1>5, Zenon
  <2>5. FirstIn(ts, L, rs, b, k, g[k])
    BY <2>3, <2>4, Zenon
  <2> QED BY <1>2, <2>5, Zenon
<1> QED BY <1>4, <1>5

\* There is at most one first of the cheapest.
LEMMA FirstIsUnique ==
  ASSUME NEW ts, NEW n \in Nat, NEW L \in SUBSET (1..n), NEW rs, NEW b,
         \A t \in L : Ms(ts, rs, b, t) \in Nat,
         NEW i \in 0..n, NEW v, NEW w, FirstIn(ts, L, rs, b, i, v), FirstIn(ts, L, rs, b, i, w)
  PROVE  v = w
<1>1. CASE L \cap (1..i) = {}
  BY <1>1 DEF FirstIn
<1>2. CASE L \cap (1..i) # {}
  <2> DEFINE M(t) == Ms(ts, rs, b, t)
  <2>1. /\ v \in L \cap (1..i) /\ w \in L \cap (1..i)
        /\ \A t \in L \cap (1..i) : M(w) <= M(t) /\ (t < w => M(w) < M(t))
        /\ \A t \in L \cap (1..i) : M(v) <= M(t) /\ (t < v => M(v) < M(t))
    BY <1>2, Zenon DEF FirstIn
  <2>2. M(v) \in Nat /\ M(w) \in Nat /\ v \in Nat /\ w \in Nat
    BY <2>1
  <2>3. M(w) <= M(v) /\ M(v) <= M(w) /\ (v < w => M(w) < M(v)) /\ (w < v => M(v) < M(w))
    BY <2>1, Zenon
  <2> HIDE DEF M
  <2> QED BY <2>2, <2>3
<1> QED BY <1>1, <1>2

\* There is one, or none of the targets is alive.
LEMMA FirstExists ==
  ASSUME NEW ts, NEW n \in Nat, NEW L \in SUBSET (1..n), NEW rs, NEW b,
         \A t \in L : Ms(ts, rs, b, t) \in Nat, NEW i \in 0..n
  PROVE  \E w : FirstIn(ts, L, rs, b, i, w)
<1> DEFINE Bad == {k \in 0..n : ~\E w : FirstIn(ts, L, rs, b, k, w)}
<1>1. SUFFICES ASSUME Bad # {} PROVE FALSE
  OBVIOUS
<1>2. PICK k \in Bad : \A j \in Bad : k <= j
  <2>1. Bad \in SUBSET Nat
    OBVIOUS
  <2> HIDE DEF Bad
  <2> QED BY <1>1, <2>1, SmallestNat, Zenon
<1>3. CASE k = 0
  <2>1. 1..0 = {}
    OBVIOUS
  <2>2. FirstIn(ts, L, rs, b, 0, 0)
    BY <2>1 DEF FirstIn
  <2> QED BY <1>2, <1>3, <2>2
<1>4. CASE k # 0
  <2>1. k \in 1..n /\ k - 1 \in 0..n /\ ~(k <= k - 1)
    BY <1>2, <1>4
  <2>2. PICK w : FirstIn(ts, L, rs, b, k - 1, w)
    BY <1>2, <2>1, Zenon
  <2>3. FirstIn(ts, L, rs, b, k,
          IF k \in L /\ (w = 0 \/ Better(Ms(ts, rs, b, k), Ms(ts, rs, b, w))) THEN k ELSE w)
    BY <2>1, <2>2, OneTurn, Zenon
  <2> QED BY <1>2, <2>3, Zenon
<1> QED BY <1>3, <1>4

\* The loop is a function.
LEMMA LoopExists ==
  ASSUME NEW ts, NEW n \in Nat, Len(ts) = n, NEW L \in SUBSET (1..n), NEW rs, NEW b,
         \A t \in L : Ms(ts, rs, b, t) \in Nat
  PROVE  \E g : Loop(ts, L, rs, b, g)
<1> DEFINE F(i) == CHOOSE w : FirstIn(ts, L, rs, b, i, w)
           g == [i \in 0..n |-> F(i)]
           Turn(h, i) ==
             IF i = 0 THEN 0
             ELSE IF i \in L /\ (h[i - 1] = 0 \/ Better(Ms(ts, rs, b, i), Ms(ts, rs, b, h[i - 1])))
                  THEN i ELSE h[i - 1]
<1>1. ASSUME NEW i \in 0..n PROVE FirstIn(ts, L, rs, b, i, F(i))
  BY FirstExists, Zenon
<1>2. ASSUME NEW i \in 0..n PROVE g[i] = F(i)
  OBVIOUS
<1>3. ASSUME NEW i \in 0..n PROVE F(i) = Turn(g, i)
  <2>1. CASE i = 0
    <3>1. 1..0 = {}
      OBVIOUS
    <3>2. FirstIn(ts, L, rs, b, i, 0)
      BY <2>1, <3>1 DEF FirstIn
    <3>3. F(i) = 0
      BY <1>1, <3>2, FirstIsUnique, Zenon
    <3> QED BY <2>1, <3>3
  <2>2. CASE i # 0
    <3>1. i \in 1..n /\ i - 1 \in 0..n
      BY <2>2
    <3>2. FirstIn(ts, L, rs, b, i - 1, g[i - 1])
      BY <1>1, <1>2, <3>1, Zenon
    <3>3. FirstIn(ts, L, rs, b, i,
            IF i \in L /\ (g[i - 1] = 0 \/ Better(Ms(ts, rs, b, i), Ms(ts, rs, b, g[i - 1])))
            THEN i ELSE g[i - 1])
      <4> HIDE DEF g, F, Turn
      <4>1. PICK w : w = g[i - 1]
        OBVIOUS
      <4>2. FirstIn(ts, L, rs, b, i - 1, w)
        BY <3>2, <4>1, Zenon
      <4>3. FirstIn(ts, L, rs, b, i,
              IF i \in L /\ (w = 0 \/ Better(Ms(ts, rs, b, i), Ms(ts, rs, b, w))) THEN i ELSE w)
        BY <3>1, <4>2, OneTurn, Zenon
      <4> QED BY <4>1, <4>3, Zenon
    <3>4. FirstIn(ts, L, rs, b, i, Turn(g, i))
      <4> HIDE DEF g
      <4> QED BY <2>2, <3>3, Zenon
    <3>5. FirstIn(ts, L, rs, b, i, F(i))
      BY <1>1, Zenon
    <3> HIDE DEF Turn, F, g
    <3> QED BY <3>4, <3>5, FirstIsUnique, Zenon
  <2> QED BY <2>1, <2>2
<1>4. g = [i \in 0..n |-> Turn(g, i)]
  <2>1. \A i \in 0..n : F(i) = Turn(g, i)
    BY <1>3, Zenon
  <2> HIDE DEF Turn, F
  <2> QED BY <2>1, Zenon
<1>5. Loop(ts, L, rs, b, g)
  <2> HIDE DEF g
  <2> QED BY <1>4, Zenon DEF Loop
<1> QED BY <1>5, Zenon

\* The loop over the targets ends with the first of the cheapest.
LEMMA BestIsFirst ==
  ASSUME NEW ts, NEW n \in Nat, Len(ts) = n, NEW L \in SUBSET (1..n), NEW rs, NEW b,
         \A t \in L : Ms(ts, rs, b, t) \in Nat
  PROVE  FirstIn(ts, L, rs, b, n, Best(ts, L, rs, b))
<1> DEFINE k == CHOOSE g : Loop(ts, L, rs, b, g)
<1>1. Loop(ts, L, rs, b, k)
  BY LoopExists, Zenon
<1>2. FirstIn(ts, L, rs, b, n, k[n])
  <2>1. n \in 0..n
    OBVIOUS
  <2> HIDE DEF k
  <2> QED BY <1>1, <2>1, LoopIsRight, Zenon
<1>3. Best(ts, L, rs, b) = k[n]
  BY BestIsLoop, Zenon
<1> QED BY <1>2, <1>3, Zenon

-----------------------------------------------------------------------------
(* What a target costs. *)

\* The numbers of a target.
TargetOK(s) == s.capacity \in Nat /\ s.num \in Nat /\ s.den \in Nat \ {0}

\* A package takes the rounded number of milliseconds, or the largest word.
LEMMA PackageRange ==
  ASSUME NEW b \in Nat, NEW s, TargetOK(s)
  PROVE  /\ Rounded(b, s.num, s.den) \in Nat
         /\ PackageMs(b, s) \in 0..MaxWord
         /\ PackageMs(b, s) = IF Rounded(b, s.num, s.den) > MaxWord THEN MaxWord
                              ELSE Rounded(b, s.num, s.den)
<1>1. Rounded(b, s.num, s.den) \in Nat
  <2>1. s.num \in Nat /\ s.den \in Nat \ {0}
    BY DEF TargetOK
  <2>2. Rounded(b, s.num, s.den) \in 0..(b * s.num + 1)
    BY <2>1, RoundedIs
  <2> QED BY <2>2
<1>2. PackageMs(b, s) = IF Rounded(b, s.num, s.den) > MaxWord THEN MaxWord
                        ELSE Rounded(b, s.num, s.den)
  BY DEF PackageMs, Rounded
<1> QED BY <1>1, <1>2, WordFacts

\* Division keeps the order.
LEMMA QuotientGrows ==
  ASSUME NEW x \in Nat, NEW y \in Nat, x <= y, NEW d \in Nat \ {0}
  PROVE  x \div d <= y \div d
<1> DEFINE p == x \div d
           q == y \div d
<1>1. p \in Nat /\ q \in Nat /\ d * p <= x /\ y < d * q + d
  BY Division
<1> SUFFICES ASSUME q < p PROVE FALSE
  <2> HIDE DEF p, q
  <2>1. p <= q \/ q < p
    BY <1>1
  <2> QED BY <2>1 DEF p, q
<1> HIDE DEF p, q
<1>2. \E k \in Nat : p = q + 1 + k
  <2>1. p - (q + 1) \in Nat /\ p = q + 1 + (p - (q + 1))
    BY <1>1
  <2> QED BY <2>1
<1>3. PICK k \in Nat : p = q + 1 + k
  BY <1>2
<1>4. d * p = d * q + d + d * k /\ d * k \in Nat /\ d * q \in Nat
  BY <1>1, <1>3
<1> QED BY <1>1, <1>4

\* When a target with this load would be done.
Completion(load, b, s) ==
  LET c == load \div s.capacity + Rounded(b, s.num, s.den) IN
  IF s.capacity = 0 \/ c > MaxWord THEN MaxWord ELSE c

\* completion_ms is that, given the load of the queue.
LEMMA CompletionIs ==
  ASSUME NEW b \in Nat, NEW s, TargetOK(s), NEW rs, NEW t, QueueLoadMs(rs, t) \in Nat
  PROVE  CompletionMs(rs, b, t, s) = Completion(QueueLoadMs(rs, t), b, s)
<1> DEFINE q == QueueLoadMs(rs, t) \div s.capacity
           r == Rounded(b, s.num, s.den)
<1>1. r \in Nat /\ PackageMs(b, s) = IF r > MaxWord THEN MaxWord ELSE r
  BY PackageRange
<1>2. CompletionMs(rs, b, t, s)
        = LET m == (IF s.capacity = 0 THEN MaxWord ELSE q) + PackageMs(b, s) IN
          IF m > MaxWord THEN MaxWord ELSE m
  BY DEF CompletionMs, SaturatingAdd, QueueMs
<1>3. CASE s.capacity = 0
  <2>1. CompletionMs(rs, b, t, s)
          = IF MaxWord + PackageMs(b, s) > MaxWord THEN MaxWord ELSE MaxWord + PackageMs(b, s)
    BY <1>2, <1>3
  <2>2. PackageMs(b, s) \in Nat
    BY PackageRange
  <2>3. CompletionMs(rs, b, t, s) = MaxWord
    BY <2>1, <2>2, WordFacts
  <2> QED BY <1>3, <2>3 DEF Completion
<1>4. CASE s.capacity # 0
  <2>1. q \in Nat
    BY <1>4, Division DEF TargetOK
  <2>2. CompletionMs(rs, b, t, s)
          = IF q + PackageMs(b, s) > MaxWord THEN MaxWord ELSE q + PackageMs(b, s)
    BY <1>2, <1>4
  <2>3. Completion(QueueLoadMs(rs, t), b, s) = IF q + r > MaxWord THEN MaxWord ELSE q + r
    BY <1>4 DEF Completion
  <2> HIDE DEF q, r
  <2> QED BY <1>1, <2>1, <2>2, <2>3, WordFacts
<1> QED BY <1>3, <1>4

\* A completion is a word.
LEMMA CompletionRange ==
  ASSUME NEW b \in Nat, NEW s, TargetOK(s), NEW load \in Nat
  PROVE  Completion(load, b, s) \in 0..MaxWord
<1> DEFINE q == load \div s.capacity
           r == Rounded(b, s.num, s.den)
<1>1. r \in Nat
  BY PackageRange
<1>2. CASE s.capacity = 0
  BY <1>2, WordFacts DEF Completion
<1>3. CASE s.capacity # 0
  <2>1. q \in Nat
    BY <1>3, Division DEF TargetOK
  <2>2. Completion(load, b, s) = IF q + r > MaxWord THEN MaxWord ELSE q + r
    BY <1>3 DEF Completion
  <2> HIDE DEF q, r
  <2> QED BY <1>1, <2>1, <2>2, WordFacts
<1> QED BY <1>2, <1>3

\* More load is never done sooner.
LEMMA CompletionGrows ==
  ASSUME NEW b \in Nat, NEW s, TargetOK(s), NEW x \in Nat, NEW y \in Nat, x <= y
  PROVE  Completion(x, b, s) <= Completion(y, b, s)
<1> DEFINE p == x \div s.capacity
           q == y \div s.capacity
           r == Rounded(b, s.num, s.den)
<1>1. r \in Nat
  BY PackageRange
<1>2. CASE s.capacity = 0
  BY <1>2, WordFacts DEF Completion
<1>3. CASE s.capacity # 0
  <2>0. s.capacity \in Nat \ {0}
    BY <1>3 DEF TargetOK
  <2>1. p \in Nat /\ q \in Nat
    BY <2>0, Division
  <2>2. p <= q
    BY <2>0, QuotientGrows
  <2>3. /\ Completion(x, b, s) = IF p + r > MaxWord THEN MaxWord ELSE p + r
        /\ Completion(y, b, s) = IF q + r > MaxWord THEN MaxWord ELSE q + r
    BY <1>3 DEF Completion
  <2> HIDE DEF p, q, r
  <2> QED BY <1>1, <2>1, <2>2, <2>3, WordFacts
<1> QED BY <1>2, <1>3

-----------------------------------------------------------------------------
(* The table. *)

\* The inputs are of the table, and the decision is that of decide.
TableInv ==
  /\ pc \in {"asked", "decided"} /\ ours \in BOOLEAN
  /\ targets \in [1..NumTargets -> TargetStates]
  /\ rows \in [1..NumRows -> Rows]
  /\ estimate \in Estimates
  /\ pc = "decided" => decision = Decide(ours, targets, Live, rows, BaseMs)

\* The table keeps its inputs, and has decided as decide does.
LEMMA TableInduction == TableSpec => []TableInv
<1>1. TableInit => TableInv
  BY Zenon DEF TableInit, TableInv
<1>2. ASSUME TableInv, [DecideCandidate]_tableVars PROVE TableInv'
  <2>1. CASE DecideCandidate
    <3>1. Live' = Live /\ BaseMs' = BaseMs
      BY <2>1, Zenon DEF DecideCandidate, Live, BaseMs
    <3>2. Decide(ours, targets, Live, rows, BaseMs)'
            = Decide(ours', targets', Live', rows', BaseMs')
      BY Zenon
    <3> QED BY <1>2, <2>1, <3>1, <3>2, Zenon DEF DecideCandidate, TableInv
  <2>2. CASE UNCHANGED tableVars
    <3>1. Live' = Live /\ BaseMs' = BaseMs
      BY <2>2, Zenon DEF tableVars, Live, BaseMs
    <3> QED BY <1>2, <2>2, <3>1, Zenon DEF tableVars, TableInv
  <2> QED BY <1>2, <2>1, <2>2
<1> QED BY <1>1, <1>2, PTL DEF TableSpec

\* The numbers of the inputs.
LEMMA TableFacts ==
  ASSUME TableInv
  PROVE  /\ NumTargets \in Nat /\ NumRows \in Nat /\ BaseMs \in Nat
         /\ Len(targets) = NumTargets /\ Live \in SUBSET (1..NumTargets)
         /\ DOMAIN rows = 1..NumRows /\ Len(rows) = NumRows
         /\ \A t \in 1..NumTargets : TargetOK(targets[t]) /\ targets[t].host \in BOOLEAN
         /\ \A i \in 1..NumRows : rows[i].predicted \in Nat
<1>1. NumTargets \in Nat /\ NumRows \in Nat /\ UnknownP95 \in Nat
  BY TableAssumption
<1>2. BaseMs \in Nat
  BY <1>1, TableTypes DEF TableInv, BaseMs
<1>3. \A t \in 1..NumTargets : targets[t] \in TargetStates
  BY DEF TableInv
<1>4. \A t \in 1..NumTargets : TargetOK(targets[t]) /\ targets[t].host \in BOOLEAN
  BY <1>3, TableTypes DEF TargetOK
<1>5. Len(targets) = NumTargets /\ DOMAIN rows = 1..NumRows /\ Len(rows) = NumRows
  BY <1>1 DEF TableInv
<1>6. \A i \in 1..NumRows : rows[i].predicted \in Nat
  BY TableTypes DEF TableInv
<1> QED BY <1>1, <1>2, <1>4, <1>5, <1>6 DEF Live

\* is_live accepts exactly the eligible targets.
LEMMA LiveIsEligible ==
  ASSUME TableInv, NEW t \in 1..NumTargets PROVE t \in Live <=> Eligible(t)
<1>1. targets[t] \in TargetStates
  BY DEF TableInv
<1> DEFINE s == targets[t]
<1>2. s.pong \in Nat \cup {-1} /\ s.mem \in Nat \cup {-1}
  BY <1>1, TableTypes
<1>3. Now \in Nat /\ PollInterval \in Nat /\ MinMem \in Nat
  BY TableAssumption
<1>4. IsLive(s, Now, 3 * PollInterval, MinMem) <=> Eligible(t)
  <2> HIDE DEF s
  <2>1. Eligible(t) <=> /\ s.pong # -1 /\ Now - s.pong <= 3 * PollInterval
                        /\ s.mem # -1 /\ s.mem >= MinMem
    BY DEF Eligible, s
  <2> QED BY <1>2, <1>3, <2>1 DEF IsLive, SaturatingSub
<1> QED BY <1>4 DEF Live

\* The sum of the reference is the load of a queue.
LEMMA SumIsLoad ==
  ASSUME TableInv, NEW t
  PROVE  /\ Sum(t) = LoadIn(rows, RowsOf(rows, t)) /\ Sum(t) \in Nat
         /\ IsFiniteSet(RowsOf(rows, t))
         /\ \A i \in RowsOf(rows, t) : rows[i].predicted \in Nat
         /\ QueueLoadMs(rows, t) \in Nat
         /\ Sum(t) < Word => QueueLoadMs(rows, t) = Sum(t)
<1>1. Sum(t) = LoadIn(rows, RowsOf(rows, t))
  <2>1. RowsOf(rows, t) = {i \in 1..NumRows : rows[i].target = t}
    BY TableFacts, Zenon DEF RowsOf
  <2> QED BY <2>1, RowsSum, Zenon DEF Sum
<1>2. IsFiniteSet(RowsOf(rows, t))
  <2>1. IsFiniteSet(1..NumRows) /\ RowsOf(rows, t) \subseteq 1..NumRows
    BY TableFacts, FS_Interval DEF RowsOf
  <2> QED BY <2>1, FS_Subset
<1>3. \A i \in RowsOf(rows, t) : rows[i].predicted \in Nat
  BY TableFacts DEF RowsOf
<1>4. QueueLoadMs(rows, t) \in 0..MaxWord
      /\ (LoadIn(rows, RowsOf(rows, t)) < Word =>
            QueueLoadMs(rows, t) = LoadIn(rows, RowsOf(rows, t)))
  BY <1>2, <1>3, QueueLoadRange
<1>5. LoadIn(rows, RowsOf(rows, t)) \in Nat
  BY <1>2, <1>3, LoadIsNat
<1>6. QueueLoadMs(rows, t) \in Nat
  BY <1>4, WordFacts
<1> QED BY <1>1, <1>2, <1>3, <1>4, <1>5, <1>6, Zenon

\* The nearest number of the reference is the one scaled_package_ms computes.
LEMMA PackageIsRounded ==
  ASSUME TableInv, NEW t \in 1..NumTargets
  PROVE  RoundedPackage(t) = Rounded(BaseMs, targets[t].num, targets[t].den)
<1> DEFINE num == targets[t].num
           den == targets[t].den
           r0 == Rounded(BaseMs, num, den)
           Is(r) == 2 * den * r - den <= 2 * BaseMs * num /\ 2 * BaseMs * num < 2 * den * r + den
<1>1. BaseMs \in Nat /\ num \in Nat /\ den \in Nat \ {0}
  BY TableFacts DEF TargetOK
<1>2. r0 \in 0..(BaseMs * num + 1) /\ Is(r0)
  <2> HIDE DEF num, den
  <2> QED BY <1>1, RoundedIs
<1>3. \A r \in 0..(BaseMs * num + 1) : Is(r) => r = r0
  <2> SUFFICES ASSUME NEW r \in 0..(BaseMs * num + 1), Is(r) PROVE r = r0
    OBVIOUS
  <2> HIDE DEF r0
  <2>1. BaseMs * num \in Nat
    BY <1>1
  <2>2. r \in Nat /\ r0 \in Nat
    BY <1>2, <2>1
  <2> DEFINE x == 2 * den * r
             y == 2 * den * r0
             z == 2 * BaseMs * num
  <2>3. x - den <= z /\ z < x + den /\ y - den <= z /\ z < y + den
    BY <1>2
  <2>4. x \in Nat /\ y \in Nat /\ z \in Nat
    <3> HIDE DEF num, den
    <3> QED BY <1>1, <2>2
  <2>5. ASSUME NEW a \in Nat, NEW c \in Nat, a < c
        PROVE  2 * den * c >= 2 * den * a + 2 * den
    <3> HIDE DEF num, den
    <3>1. c - a - 1 \in Nat /\ c = a + 1 + (c - a - 1)
      BY <2>5
    <3>2. PICK k \in Nat : c = a + 1 + k
      BY <3>1
    <3>3. 2 * den * (a + 1 + k) = 2 * den * a + 2 * den + 2 * den * k
      BY <1>1
    <3>4. 2 * den * k \in Nat /\ 2 * den * a \in Nat
      BY <1>1
    <3> QED BY <1>1, <3>2, <3>3, <3>4
  <2>6. ~(r < r0)
    <3> SUFFICES ASSUME r < r0 PROVE FALSE
      OBVIOUS
    <3>1. y >= x + 2 * den
      BY <2>2, <2>5
    <3> HIDE DEF x, y, z, num, den
    <3> QED BY <1>1, <2>3, <2>4, <3>1
  <2>7. ~(r0 < r)
    <3> SUFFICES ASSUME r0 < r PROVE FALSE
      OBVIOUS
    <3>1. x >= y + 2 * den
      BY <2>2, <2>5
    <3> HIDE DEF x, y, z, num, den
    <3> QED BY <1>1, <2>3, <2>4, <3>1
  <2> QED BY <2>2, <2>6, <2>7
<1>4. RoundedPackage(t) = CHOOSE r \in 0..(BaseMs * num + 1) : Is(r)
  BY Zenon DEF RoundedPackage
<1> HIDE DEF Is, r0
<1> QED BY <1>2, <1>3, <1>4 DEF r0

\* What the loop compares is what the reference says a target costs.
LEMMA CostIsTrue ==
  ASSUME TableInv, NoOverflow, NEW t \in 1..NumTargets
  PROVE  Ms(targets, rows, BaseMs, t) = TrueCost(t) /\ TrueCost(t) \in Nat
<1>1. TargetOK(targets[t]) /\ BaseMs \in Nat
  BY TableFacts
<1>2. QueueLoadMs(rows, t) = Sum(t) /\ Sum(t) \in Nat
  BY SumIsLoad DEF NoOverflow
<1>3. Ms(targets, rows, BaseMs, t) = Completion(Sum(t), BaseMs, targets[t])
  BY <1>1, <1>2, CompletionIs DEF Ms
<1>4. TrueCost(t) = Completion(Sum(t), BaseMs, targets[t])
  BY PackageIsRounded, Zenon DEF TrueCost, Completion
<1>5. Completion(Sum(t), BaseMs, targets[t]) \in 0..MaxWord
  BY <1>1, <1>2, CompletionRange
<1> QED BY <1>3, <1>4, <1>5, WordFacts

\* The loop of the decision, over the table's inputs.
LEMMA TableBest ==
  ASSUME TableInv
  PROVE  FirstIn(targets, Live, rows, BaseMs, NumTargets, Best(targets, Live, rows, BaseMs))
<1>1. \A t \in Live : Ms(targets, rows, BaseMs, t) \in Nat
  <2> SUFFICES ASSUME NEW t \in Live PROVE Ms(targets, rows, BaseMs, t) \in Nat
    OBVIOUS
  <2>1. TargetOK(targets[t]) /\ BaseMs \in Nat /\ QueueLoadMs(rows, t) \in Nat
    BY TableFacts, SumIsLoad
  <2>2. Completion(QueueLoadMs(rows, t), BaseMs, targets[t]) \in 0..MaxWord
    BY <2>1, CompletionRange
  <2>3. Ms(targets, rows, BaseMs, t) = Completion(QueueLoadMs(rows, t), BaseMs, targets[t])
    BY <2>1, CompletionIs DEF Ms
  <2> QED BY <2>2, <2>3, WordFacts
<1>2. Len(targets) = NumTargets /\ NumTargets \in Nat /\ Live \in SUBSET (1..NumTargets)
  BY TableFacts
<1> QED BY <1>1, <1>2, BestIsFirst

\* The parts of a decision.
LEMMA DecisionIs ==
  ASSUME TableInv, pc = "decided"
  PROVE  LET w == Best(targets, Live, rows, BaseMs) IN
         /\ ~ours \/ w = 0 <=> decision.kind = "decline"
         /\ decision.kind # "decline" =>
              /\ ours /\ w \in Live /\ decision.target = w /\ w # 0
              /\ decision.kind = IF targets[w].host THEN "local" ELSE "remote"
              /\ decision.predicted = Predicted(PackageMs(BaseMs, targets[w]))
<1> DEFINE w == Best(targets, Live, rows, BaseMs)
<1>1. decision = Decide(ours, targets, Live, rows, BaseMs)
  BY DEF TableInv
<1>2. decision = IF ~ours \/ w = 0 THEN DeclineDecision
                 ELSE [kind      |-> IF targets[w].host THEN "local" ELSE "remote",
                       target    |-> w,
                       predicted |-> Predicted(PackageMs(BaseMs, targets[w]))]
  BY <1>1, Zenon DEF Decide
<1>3. w = 0 \/ w \in Live
  BY TableBest, Zenon DEF FirstIn
<1> HIDE DEF w
<1>4. CASE ~ours \/ w = 0
  <2>1. decision.kind = "decline"
    BY <1>2, <1>4 DEF DeclineDecision
  <2> QED BY <1>4, <2>1 DEF w
<1>5. CASE ~(~ours \/ w = 0)
  <2>1. /\ decision.kind = IF targets[w].host THEN "local" ELSE "remote"
        /\ decision.target = w
        /\ decision.predicted = Predicted(PackageMs(BaseMs, targets[w]))
    BY <1>2, <1>5
  <2>2. decision.kind # "decline"
    BY <2>1
  <2> QED BY <1>3, <1>5, <2>1, <2>2 DEF w
<1> QED BY <1>4, <1>5

\* The decision is for the first of the cheapest eligible targets in the order of the
\* configuration, and declines exactly when there is none or the candidate is of another
\* system; for any targets, rows and estimates whose queues fit a word.
THEOREM FirstCheapest == TableSpec => []FirstCheapestWins
<1>1. ASSUME TableInv PROVE FirstCheapestWins
  <2> SUFFICES ASSUME pc = "decided", NoOverflow
               PROVE  IF ~ours \/ \A t \in 1..NumTargets : ~Eligible(t)
                      THEN decision.kind = "decline"
                      ELSE /\ decision.kind # "decline" /\ Eligible(decision.target)
                           /\ decision.kind = (IF targets[decision.target].host THEN "local"
                                               ELSE "remote")
                           /\ \A t \in 1..NumTargets : Eligible(t) =>
                                /\ TrueCost(decision.target) <= TrueCost(t)
                                /\ t < decision.target => TrueCost(decision.target) < TrueCost(t)
    BY Zenon DEF FirstCheapestWins
  <2> DEFINE w == Best(targets, Live, rows, BaseMs)
             M(t) == Ms(targets, rows, BaseMs, t)
  <2>1. NumTargets \in Nat /\ Live \in SUBSET (1..NumTargets)
        /\ \A t \in 1..NumTargets : t \in Live <=> Eligible(t)
    BY <1>1, TableFacts, LiveIsEligible
  <2>2. Live \cap (1..NumTargets) = Live
    BY <2>1
  <2>3. \/ w = 0 /\ Live = {}
        \/ w \in Live /\ \A t \in Live : M(w) <= M(t) /\ (t < w => M(w) < M(t))
    BY <1>1, <2>2, TableBest, Zenon DEF FirstIn
  <2>4. w \in Live => w # 0
    BY <2>1
  <2>5. \A t \in 1..NumTargets : M(t) = TrueCost(t)
    BY <1>1, CostIsTrue, Zenon
  <2> HIDE DEF w, M
  <2>6. CASE ~ours \/ Live = {}
    <3>1. decision.kind = "decline"
      BY <1>1, <2>3, <2>6, DecisionIs DEF w
    <3>2. ~ours \/ \A t \in 1..NumTargets : ~Eligible(t)
      BY <2>1, <2>6
    <3> QED BY <3>1, <3>2
  <2>7. CASE ~(~ours \/ Live = {})
    <3>1. w \in Live /\ w # 0 /\ ours
      BY <2>3, <2>4, <2>7
    <3>2. decision.kind # "decline" /\ decision.target = w
          /\ decision.kind = IF targets[w].host THEN "local" ELSE "remote"
      BY <1>1, <3>1, DecisionIs DEF w
    <3>3. Eligible(w) /\ w \in 1..NumTargets
      BY <2>1, <3>1
    <3>4. \A t \in 1..NumTargets : Eligible(t) =>
            /\ TrueCost(w) <= TrueCost(t)
            /\ t < w => TrueCost(w) < TrueCost(t)
      BY <2>1, <2>3, <2>5, <3>1, <3>3, Zenon
    <3>5. ~(~ours \/ \A t \in 1..NumTargets : ~Eligible(t))
      BY <3>1, <3>3
    <3>6. Eligible(decision.target)
          /\ decision.kind = (IF targets[decision.target].host THEN "local" ELSE "remote")
      BY <3>2, <3>3, Zenon
    <3>7. \A t \in 1..NumTargets : Eligible(t) =>
            /\ TrueCost(decision.target) <= TrueCost(t)
            /\ t < decision.target => TrueCost(decision.target) < TrueCost(t)
      BY <3>2, <3>4, Zenon
    <3> QED BY <3>2, <3>5, <3>6, <3>7, Zenon
  <2> QED BY <2>6, <2>7
<1> QED BY <1>1, TableInduction, PTL

\* The rows of a target, one admission later.
LEMMA RowsOfAppend ==
  ASSUME TableInv, NEW r, NEW t
  PROVE  LET qs == Append(rows, r)
             n  == NumRows + 1 IN
         /\ RowsOf(qs, t) = RowsOf(rows, t) \cup (IF r.target = t THEN {n} ELSE {})
         /\ n \notin RowsOf(rows, t)
         /\ \A i \in RowsOf(rows, t) : qs[i] = rows[i]
         /\ qs[n] = r
<1> DEFINE qs == Append(rows, r)
           n == NumRows + 1
<1>1. NumRows \in Nat /\ rows \in [1..NumRows -> Rows] /\ Len(rows) = NumRows
      /\ DOMAIN rows = 1..NumRows
  BY TableFacts DEF TableInv
<1>2. rows \in Seq(Rows \cup {r})
  <2>1. rows \in Seq(Rows)
    BY <1>1, SeqDef
  <2> QED BY <2>1
<1>3. 1..n = (1..NumRows) \cup {n} /\ n \notin 1..NumRows
  BY <1>1
<1>4. DOMAIN qs = 1..n /\ qs[n] = r /\ \A i \in 1..NumRows : qs[i] = rows[i]
  <2>1. /\ qs \in Seq(Rows \cup {r}) /\ Len(qs) = Len(rows) + 1
        /\ \A i \in 1..Len(rows) : qs[i] = rows[i]
        /\ qs[Len(rows) + 1] = r
    BY <1>2, AppendProperties
  <2> HIDE DEF qs
  <2> QED BY <1>1, <2>1, LenProperties
<1> HIDE DEF n, qs
<1>5. RowsOf(qs, t) = RowsOf(rows, t) \cup (IF r.target = t THEN {n} ELSE {})
  BY <1>1, <1>3, <1>4 DEF RowsOf
<1>6. n \notin RowsOf(rows, t) /\ \A i \in RowsOf(rows, t) : qs[i] = rows[i]
  BY <1>1, <1>3, <1>4 DEF RowsOf
<1> QED BY <1>4, <1>5, <1>6 DEF n, qs

\* The queue of a target, one admission later.
LEMMA LoadAfterAppend ==
  ASSUME TableInv, NEW r, r.predicted \in Nat, NEW t
  PROVE  LET qs == Append(rows, r) IN
         /\ r.target # t => QueueLoadMs(qs, t) = QueueLoadMs(rows, t)
         /\ r.target = t /\ Sum(t) + r.predicted < Word =>
              QueueLoadMs(qs, t) = Sum(t) + r.predicted
<1> DEFINE qs == Append(rows, r)
           n == NumRows + 1
           R == RowsOf(rows, t)
<1>1. /\ RowsOf(qs, t) = R \cup (IF r.target = t THEN {n} ELSE {})
      /\ n \notin R /\ \A i \in R : qs[i] = rows[i]
      /\ qs[n] = r
  BY RowsOfAppend
<1>2. /\ Sum(t) = LoadIn(rows, R) /\ Sum(t) \in Nat /\ IsFiniteSet(R)
      /\ \A i \in R : rows[i].predicted \in Nat
  BY SumIsLoad
<1> HIDE DEF qs, n, R
<1>3. LoadIn(qs, R) = LoadIn(rows, R)
  <2>1. \A i \in R : qs[i].predicted = rows[i].predicted
    BY <1>1
  <2> QED BY <1>2, <2>1, LoadAgrees, Zenon
<1>4. ASSUME r.target # t PROVE QueueLoadMs(qs, t) = QueueLoadMs(rows, t)
  <2>1. RowsOf(qs, t) = R
    BY <1>1, <1>4
  <2> QED BY <1>3, <2>1, QueueIsLoad, Zenon DEF R
<1>5. ASSUME r.target = t, Sum(t) + r.predicted < Word
      PROVE  QueueLoadMs(qs, t) = Sum(t) + r.predicted
  <2> DEFINE S == R \cup {n}
  <2>1. RowsOf(qs, t) = S /\ n \in S /\ S \ {n} = R /\ IsFiniteSet(S)
    BY <1>1, <1>2, <1>5, FS_AddElement
  <2>2. \A i \in S : qs[i].predicted \in Nat
    BY <1>1, <1>2
  <2> HIDE DEF S
  <2>3. LoadIn(qs, S) = qs[n].predicted + LoadIn(qs, S \ {n})
    BY <2>1, <2>2, LoadTakeOut
  <2>4. LoadIn(qs, S) = r.predicted + Sum(t)
    BY <1>1, <1>2, <1>3, <2>1, <2>3, Zenon
  <2>5. LoadIn(qs, S) = Sum(t) + r.predicted
    BY <1>2, <2>4
  <2>6. LoadIn(qs, S) < Word => QueueLoadMs(qs, t) = LoadIn(qs, S)
    BY <2>1, <2>2, QueueLoadRange
  <2> QED BY <1>5, <2>5, <2>6
<1> QED BY <1>4, <1>5 DEF qs

\* An admission for another target leaves the first of the cheapest what it was.
LEMMA LoserChangesNothing ==
  ASSUME TableInv, pc = "decided", decision.kind # "decline", NEW r \in Rows,
         r.target # decision.target, Sum(r.target) + r.predicted < Word, NoOverflow
  PROVE  Best(targets, Live, Append(rows, r), BaseMs) = Best(targets, Live, rows, BaseMs)
<1> DEFINE qs == Append(rows, r)
           w == Best(targets, Live, rows, BaseMs)
           M(t) == Ms(targets, rows, BaseMs, t)
           Q(t) == Ms(targets, qs, BaseMs, t)
<1>1. /\ NumTargets \in Nat /\ Live \in SUBSET (1..NumTargets) /\ BaseMs \in Nat
      /\ Len(targets) = NumTargets
      /\ \A t \in 1..NumTargets : TargetOK(targets[t])
      /\ r.predicted \in Nat
  BY TableFacts, TableTypes
<1>2. w \in Live /\ r.target # w
  BY DecisionIs
<1>3. ASSUME NEW t \in 1..NumTargets
      PROVE  /\ M(t) \in Nat /\ Q(t) \in Nat /\ M(t) <= Q(t)
             /\ t # r.target => Q(t) = M(t)
  <2>1. Sum(t) \in Nat /\ QueueLoadMs(rows, t) = Sum(t)
    BY SumIsLoad DEF NoOverflow
  <2>2. /\ QueueLoadMs(qs, t) \in Nat /\ Sum(t) <= QueueLoadMs(qs, t)
        /\ t # r.target => QueueLoadMs(qs, t) = Sum(t)
    BY <1>1, <2>1, LoadAfterAppend
  <2>3. M(t) = Completion(Sum(t), BaseMs, targets[t])
    BY <1>1, <2>1, CompletionIs DEF Ms
  <2>4. Q(t) = Completion(QueueLoadMs(qs, t), BaseMs, targets[t])
    <3> HIDE DEF qs
    <3> QED BY <1>1, <2>2, CompletionIs DEF Ms
  <2> HIDE DEF M, Q, qs
  <2>5. Completion(Sum(t), BaseMs, targets[t]) <= Completion(QueueLoadMs(qs, t), BaseMs, targets[t])
    BY <1>1, <2>1, <2>2, CompletionGrows
  <2>6. /\ Completion(Sum(t), BaseMs, targets[t]) \in 0..MaxWord
        /\ Completion(QueueLoadMs(qs, t), BaseMs, targets[t]) \in 0..MaxWord
    BY <1>1, <2>1, <2>2, CompletionRange
  <2>7. t # r.target => Q(t) = M(t)
    BY <2>2, <2>3, <2>4, Zenon
  <2> QED BY <2>3, <2>4, <2>5, <2>6, <2>7, WordFacts
<1>4. Live \cap (1..NumTargets) = Live
  BY <1>1
<1>5. \A t \in Live : M(w) <= M(t) /\ (t < w => M(w) < M(t))
  BY <1>2, <1>4, TableBest, Zenon DEF FirstIn
<1>6. FirstIn(targets, Live, qs, BaseMs, NumTargets, w)
  <2> HIDE DEF w, qs
  <2>1. Q(w) = M(w) /\ M(w) \in Nat
    BY <1>1, <1>2, <1>3
  <2>2. ASSUME NEW t \in Live PROVE Q(w) <= Q(t) /\ (t < w => Q(w) < Q(t))
    <3>1. M(t) \in Nat /\ Q(t) \in Nat /\ M(t) <= Q(t)
      BY <1>1, <1>3
    <3>2. M(w) <= M(t) /\ (t < w => M(w) < M(t))
      BY <1>5
    <3> HIDE DEF M, Q
    <3> QED BY <2>1, <3>1, <3>2
  <2> QED BY <1>2, <1>4, <2>2, Zenon DEF FirstIn
<1>7. FirstIn(targets, Live, qs, BaseMs, NumTargets, Best(targets, Live, qs, BaseMs))
  <2>1. \A t \in Live : Q(t) \in Nat
    BY <1>1, <1>3
  <2> HIDE DEF qs
  <2> QED BY <1>1, <2>1, BestIsFirst
<1>8. \A t \in Live : Ms(targets, qs, BaseMs, t) \in Nat
  BY <1>1, <1>3
<1> HIDE DEF qs, w
<1>9. NumTargets \in 0..NumTargets
  BY <1>1
<1>10. w = Best(targets, Live, qs, BaseMs)
  BY <1>1, <1>6, <1>7, <1>8, <1>9, FirstIsUnique, Zenon
<1> QED BY <1>10 DEF qs, w

\* One more admission for a target that was not chosen does not change the decision.
THEOREM LosersDoNotMatter == TableSpec => []LoadOfLosersIsIrrelevant
<1>1. ASSUME TableInv PROVE LoadOfLosersIsIrrelevant
  <2> SUFFICES ASSUME pc = "decided", decision.kind # "decline", NEW r \in Rows,
                      r.target # decision.target, Sum(r.target) + r.predicted < Word, NoOverflow
               PROVE  Decide(ours, targets, Live, Append(rows, r), BaseMs) = decision
    BY Zenon DEF LoadOfLosersIsIrrelevant
  <2>1. Best(targets, Live, Append(rows, r), BaseMs) = Best(targets, Live, rows, BaseMs)
    BY <1>1, LoserChangesNothing
  <2>2. Decide(ours, targets, Live, Append(rows, r), BaseMs)
          = Decide(ours, targets, Live, rows, BaseMs)
    BY <2>1, Zenon DEF Decide
  <2> QED BY <1>1, <2>2, Zenon DEF TableInv
<1> QED BY <1>1, TableInduction, PTL

\* An admission that is recorded makes its queue longer in the next decision, unless the
\* column clamps it: no build is free.
THEOREM EveryAdmissionWeighs == TableSpec => []AdmissionWeighs
<1>1. ASSUME TableInv PROVE AdmissionWeighs
  <2> DEFINE p == decision.predicted
             w == decision.target
             row == [target |-> w, predicted |-> Column(p)]
  <2> SUFFICES ASSUME pc = "decided", decision.kind # "decline", NoOverflow, 2 * p < Word,
                      Sum(w) + row.predicted < Word
               PROVE  QueueLoadMs(Append(rows, row), w) > QueueLoadMs(rows, w)
    BY Zenon DEF AdmissionWeighs
  <2>1. w \in 1..NumTargets /\ p = Predicted(PackageMs(BaseMs, targets[w]))
    BY <1>1, DecisionIs, TableFacts
  <2>2. PackageMs(BaseMs, targets[w]) \in Nat
    <3>1. TargetOK(targets[w]) /\ BaseMs \in Nat
      BY <1>1, <2>1, TableFacts
    <3>2. PackageMs(BaseMs, targets[w]) \in 0..MaxWord
      BY <3>1, PackageRange
    <3> QED BY <3>2, WordFacts
  <2> HIDE DEF p, w
  <2>3. p \in Nat /\ p >= 1
    BY <2>1, <2>2 DEF Predicted
  <2>4. row.target = w /\ row.predicted = p
    <3>1. Column(p) = p
      BY <2>3, WordFacts DEF Column, p
    <3> QED BY <3>1
  <2>5. QueueLoadMs(rows, w) = Sum(w) /\ Sum(w) \in Nat
    BY <1>1, <2>1, SumIsLoad DEF NoOverflow
  <2> HIDE DEF row
  <2>6. QueueLoadMs(Append(rows, row), w) = Sum(w) + p
    BY <1>1, <2>3, <2>4, LoadAfterAppend
  <2> QED BY <2>3, <2>5, <2>6
<1> QED BY <1>1, TableInduction, PTL
=============================================================================
