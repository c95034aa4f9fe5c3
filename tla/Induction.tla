----------------------------- MODULE Induction -----------------------------
(***************************************************************************)
(* Induction over numbers and over finite sets, recursion and ordered      *)
(* enumeration, for the proofs about what the helpers of the code compute. *)
(* What is to be shown of each number, or of each set, is given as the set *)
(* of those it holds for.                                                  *)
(***************************************************************************)
EXTENDS Integers, FiniteSetTheorems, WellFoundedInduction, TLAPS

(* A set of naturals that has a member has a least one. *)
LEMMA LeastNatural ==
    ASSUME NEW T, T \subseteq Nat, T # {}
    PROVE  \E n \in T : \A m \in T : n <= m
  <1> DEFINE below == {ss \in Nat \X Nat : ss[1] < ss[2]}
  <1>1. below = OpToRel(<, Nat)
    BY DEF OpToRel
  <1>2. IsWellFoundedOn(below, Nat)
    BY <1>1, NatLessThanWellFounded
  <1>3. PICK n \in T : \A m \in T : <<m, n>> \notin below
    <2> HIDE DEF below
    <2> QED
      BY <1>2, WFMin
  <1>4. ASSUME NEW m \in T
        PROVE  n <= m
    <2>1. m \in Nat /\ n \in Nat
      OBVIOUS
    <2>2. <<m, n>> \in Nat \X Nat /\ <<m, n>>[1] = m /\ <<m, n>>[2] = n
      BY <2>1
    <2>3. m < n => <<m, n>> \in below
      BY <2>2
    <2>4. QED
      BY <1>3, <2>1, <2>3
  <1>5. QED
    BY <1>4

(* Upwards: from the first number, and from each to the next. *)
LEMMA Upwards ==
    ASSUME NEW a \in Int, NEW b \in Int, NEW S,
           a <= b => a \in S,
           \A n \in a..b : n < b /\ n \in S => n + 1 \in S
    PROVE  a..b \subseteq S
  <1> SUFFICES ASSUME NEW x \in a..b, x \notin S
               PROVE  FALSE
    OBVIOUS
  <1> DEFINE T == {k \in Nat : a + k \in a..b /\ a + k \notin S}
  <1>1. x - a \in T
    OBVIOUS
  <1>2. PICK k \in T : \A m \in T : k <= m
    <2>1. T \subseteq Nat /\ T # {}
      BY <1>1
    <2> HIDE DEF T
    <2>2. QED
      BY <2>1, LeastNatural
  <1>3. k \in Nat /\ a + k \in a..b /\ a + k \notin S
    OBVIOUS
  <1>4. k # 0
    BY <1>3
  <1>5. k - 1 \in Nat /\ k - 1 \notin T
    BY <1>2, <1>3, <1>4
  <1>6. a + (k - 1) \in a..b /\ a + (k - 1) < b
    BY <1>3, <1>4
  <1>7. a + (k - 1) \in S
    BY <1>5, <1>6
  <1>8. (a + (k - 1)) + 1 \in S
    BY <1>6, <1>7
  <1>9. (a + (k - 1)) + 1 = a + k
    BY <1>3
  <1>10. QED
    BY <1>3, <1>8, <1>9

(* Downwards: each number from all those above it, the last one from none. *)
LEMMA Downwards ==
    ASSUME NEW a \in Int, NEW b \in Int, NEW S,
           \A n \in a..b : ((n + 1)..b \subseteq S) => n \in S
    PROVE  a..b \subseteq S
  <1> SUFFICES ASSUME NEW x \in a..b, x \notin S
               PROVE  FALSE
    OBVIOUS
  <1> DEFINE T == {k \in Nat : b - k \in a..b /\ b - k \notin S}
  <1>1. b - x \in T
    <2>1. b - (b - x) = x /\ b - x \in Nat
      OBVIOUS
    <2>2. QED
      BY <2>1
  <1>2. PICK k \in T : \A m \in T : k <= m
    <2>1. T \subseteq Nat /\ T # {}
      BY <1>1
    <2> HIDE DEF T
    <2>2. QED
      BY <2>1, LeastNatural
  <1>3. k \in Nat /\ b - k \in a..b /\ b - k \notin S
    OBVIOUS
  <1>4. ASSUME NEW n \in ((b - k) + 1)..b
        PROVE  n \in S
    <2>1. b - n \in Nat /\ b - n < k /\ b - (b - n) = n /\ n \in a..b
      BY <1>3
    <2>2. b - n \notin T
      BY <1>2, <1>3, <2>1
    <2>3. QED
      BY <2>1, <2>2
  <1>5. b - k \in S
    BY <1>3, <1>4
  <1>6. QED
    BY <1>3, <1>5

(* Over finite sets: from the empty one, and from each to one with a further
   element. *)
LEMMA GrowingSets ==
    ASSUME NEW X, IsFiniteSet(X), NEW S, {} \in S,
           \A Y \in SUBSET X : \A x \in X \ Y : Y \in S => Y \cup {x} \in S
    PROVE  X \in S
  <1> DEFINE T == {n \in Nat : \A Y \in SUBSET X : Cardinality(Y) = n => Y \in S}
  <1>1. Cardinality(X) \in Nat
    BY FS_CardinalityType
  <1>2. \A Y \in SUBSET X : IsFiniteSet(Y) /\ Cardinality(Y) \in Nat
    BY FS_Subset, FS_CardinalityType
  <1>3. 0 \in T
    BY <1>2, FS_EmptySet
  <1>4. ASSUME NEW n \in 0..Cardinality(X), n \in T
        PROVE  n + 1 \in T
    <2> SUFFICES ASSUME NEW Y \in SUBSET X, Cardinality(Y) = n + 1
                 PROVE  Y \in S
      BY <1>1
    <2>1. IsFiniteSet(Y) /\ n \in Nat
      BY <1>1, <1>2
    <2>2. Y # {}
      BY <2>1, FS_EmptySet
    <2>3. PICK x \in Y : TRUE
      BY <2>2
    <2>4. PICK Z \in SUBSET X : Z = Y \ {x}
      OBVIOUS
    <2>5. Cardinality(Z) = n
      <3>1. Cardinality(Y \ {x}) = Cardinality(Y) - 1
        BY <2>1, <2>3, FS_RemoveElement
      <3>2. QED
        BY <2>1, <2>4, <3>1
    <2>6. Z \in S
      BY <1>4, <2>5
    <2>7. Z \cup {x} = Y
      BY <2>3, <2>4
    <2>8. x \in X \ Z
      BY <2>3, <2>4
    <2>9. Z \cup {x} \in S
      BY <2>6, <2>8
    <2>10. QED
      BY <2>7, <2>9
  <1>5. 0..Cardinality(X) \subseteq T
    <2> HIDE DEF T
    <2> QED
      BY <1>1, <1>3, <1>4, Upwards, 0 \in Int, Cardinality(X) \in Int
  <1>6. QED
    BY <1>1, <1>5

(* Over finite sets: each from those that lack one of its elements. *)
LEMMA ShrinkingSets ==
    ASSUME NEW X, IsFiniteSet(X), NEW S,
           \A Y \in SUBSET X : (\A x \in Y : Y \ {x} \in S) => Y \in S
    PROVE  SUBSET X \subseteq S
  <1> DEFINE T == {n \in Nat : \A Y \in SUBSET X : Cardinality(Y) = n => Y \in S}
  <1>1. Cardinality(X) \in Nat
    BY FS_CardinalityType
  <1>2. \A Y \in SUBSET X : /\ IsFiniteSet(Y)
                           /\ Cardinality(Y) \in 0..Cardinality(X)
    BY <1>1, FS_Subset, FS_CardinalityType
  <1>3. 0 \in T
    <2>1. {} \in SUBSET X /\ \A Y \in SUBSET X : Cardinality(Y) = 0 => Y = {}
      BY <1>2, FS_EmptySet
    <2>2. QED
      BY <2>1
  <1>4. ASSUME NEW n \in 0..Cardinality(X), n \in T
        PROVE  n + 1 \in T
    <2> SUFFICES ASSUME NEW Y \in SUBSET X, Cardinality(Y) = n + 1
                 PROVE  Y \in S
      BY <1>1
    <2>1. ASSUME NEW x \in Y
          PROVE  Y \ {x} \in S
      <3>1. Cardinality(Y \ {x}) = Cardinality(Y) - 1
        BY <1>2, FS_RemoveElement
      <3>2. Cardinality(Y \ {x}) = n /\ Y \ {x} \in SUBSET X
        BY <1>1, <3>1
      <3>3. QED
        BY <1>4, <3>2
    <2>2. QED
      BY <2>1
  <1>5. 0..Cardinality(X) \subseteq T
    <2> HIDE DEF T
    <2> QED
      BY <1>1, <1>3, <1>4, Upwards, 0 \in Int, Cardinality(X) \in Int
  <1>6. QED
    BY <1>2, <1>5

\* f begins with first and goes on by step.
Iterates(f, T, first, step) ==
    f \in [Nat -> T] /\ f[0] = first /\ \A n \in Nat : f[n + 1] = step[n][f[n]]

(* Recursion over the naturals: a value and a step, given as functions, have a
   function that begins with the one and goes on by the other. *)
LEMMA Recursion ==
    ASSUME NEW T, NEW first, NEW step, first \in T, step \in [Nat -> [T -> T]]
    PROVE  \E f : Iterates(f, T, first, step)
  <1> DEFINE Runs(n, g) == /\ g \in [0..n -> T] /\ g[0] = first
                           /\ \A k \in 0..n : k < n => g[k + 1] = step[k][g[k]]
             run(n) == CHOOSE g : Runs(n, g)
             f == [n \in Nat |-> run(n)[n]]
  <1>1. ASSUME NEW n \in Nat, NEW m \in Nat, NEW g, NEW h, Runs(n, g), Runs(m, h), n <= m
        PROVE  \A k \in 0..n : g[k] = h[k]
    <2> DEFINE S == {k \in 0..n : g[k] = h[k]}
    <2>1. ASSUME NEW k \in 0..n, k < n, k \in S
          PROVE  k + 1 \in S
      <3>1. k \in 0..m /\ k < m
        BY <1>1, <2>1
      <3>2. g[k + 1] = step[k][g[k]] /\ h[k + 1] = step[k][h[k]]
        BY <1>1, <2>1, <3>1
      <3>3. QED
        BY <2>1, <3>2
    <2>2. 0 \in S
      BY <1>1
    <2>3. 0..n \subseteq S
      <3> HIDE DEF S, Runs
      <3> QED
        BY <2>1, <2>2, Upwards, 0 \in Int, n \in Int
    <2>4. QED
      BY <2>3
  <1>2. ASSUME NEW n \in Nat
        PROVE  \E g : Runs(n, g)
    <2> DEFINE S == {k \in 0..n : \E g : Runs(k, g)}
    <2>1. 0 \in S
      <3> DEFINE g == [k \in 0..0 |-> first]
      <3>1. g \in [0..0 -> T] /\ g[0] = first /\ \A k \in 0..0 : ~(k < 0)
        OBVIOUS
      <3>2. Runs(0, g)
        <4> HIDE DEF g
        <4> QED
          BY <3>1
      <3> HIDE DEF Runs, g
      <3>3. QED
        BY <3>2
    <2>2. ASSUME NEW k \in 0..n, k < n, k \in S
          PROVE  k + 1 \in S
      <3>1. PICK g : Runs(k, g)
        BY <2>2
      <3> DEFINE h == [j \in 0..(k + 1) |-> IF j = k + 1 THEN step[k][g[k]] ELSE g[j]]
      <3>2. step[k] \in [T -> T] /\ g[k] \in T
        BY <3>1
      <3>3. h \in [0..(k + 1) -> T]
        BY <3>1, <3>2
      <3>4. \A j \in 0..(k + 1) : j < k + 1 => h[j + 1] = step[j][h[j]]
        <4> SUFFICES ASSUME NEW j \in 0..(k + 1), j < k + 1
                     PROVE  h[j + 1] = step[j][h[j]]
          OBVIOUS
        <4>1. j \in 0..k /\ h[j] = g[j]
          OBVIOUS
        <4>2. CASE j = k
          BY <4>1, <4>2
        <4>3. CASE j < k
          <5>1. h[j + 1] = g[j + 1]
            BY <4>1, <4>3
          <5>2. QED
            BY <3>1, <4>1, <4>3, <5>1
        <4>4. QED
          BY <4>1, <4>2, <4>3
      <3>5. h[0] = first
        BY <3>1
      <3>6. Runs(k + 1, h)
        <4> HIDE DEF h
        <4> QED
          BY <3>3, <3>4, <3>5
      <3> HIDE DEF Runs, h
      <3>7. QED
        BY <2>2, <3>6
    <2>3. 0..n \subseteq S
      <3> HIDE DEF S
      <3> QED
        BY <2>1, <2>2, Upwards, 0 \in Int, n \in Int
    <2>4. QED
      BY <2>3
  <1>3. \A n \in Nat : Runs(n, run(n))
    BY <1>2
  <1> HIDE DEF run
  <1>4. f \in [Nat -> T] /\ f[0] = first
    BY <1>3
  <1>5. ASSUME NEW n \in Nat
        PROVE  f[n + 1] = step[n][f[n]]
    <2>1. Runs(n, run(n)) /\ Runs(n + 1, run(n + 1))
      BY <1>3
    <2>2. run(n)[n] = run(n + 1)[n]
      <3> HIDE DEF Runs
      <3>1. n <= n + 1 /\ n \in 0..n /\ n + 1 \in Nat
        OBVIOUS
      <3>2. QED
        BY <1>1, <2>1, <3>1
    <2>3. run(n + 1)[n + 1] = step[n][run(n + 1)[n]]
      BY <2>1
    <2>4. QED
      BY <2>2, <2>3
  <1> HIDE DEF f
  <1>6. Iterates(f, T, first, step)
    BY <1>4, <1>5 DEF Iterates
  <1>7. QED
    BY <1>6
\* The same up to N.
IteratesTo(f, N, T, first, step) ==
    f \in [0..N -> T] /\ f[0] = first /\ \A n \in 1..N : f[n] = step[n][f[n - 1]]

(* Recursion up to a bound, the step that leads to n given under n. *)
LEMMA BoundedRecursion ==
    ASSUME NEW T, NEW N \in Nat, NEW first \in T, NEW step, step \in [1..N -> [T -> T]]
    PROVE  \E f : IteratesTo(f, N, T, first, step)
  <1> DEFINE on == [n \in Nat |-> IF n < N THEN step[n + 1] ELSE [x \in T |-> x]]
  <1>1. on \in [Nat -> [T -> T]]
    <2> SUFFICES ASSUME NEW n \in Nat PROVE on[n] \in [T -> T]
      OBVIOUS
    <2>1. CASE n < N
      <3>1. n + 1 \in 1..N
        BY <2>1
      <3>2. QED
        BY <2>1, <3>1
    <2>2. CASE ~(n < N)
      BY <2>2
    <2>3. QED
      BY <2>1, <2>2
  <1>2. \A n \in Nat : n < N => on[n] = step[n + 1]
    OBVIOUS
  <1> HIDE DEF on
  <1>3. PICK g : g \in [Nat -> T] /\ g[0] = first /\ \A n \in Nat : g[n + 1] = on[n][g[n]]
    <2>1. \E g : Iterates(g, T, first, on)
      BY <1>1, Recursion
    <2>2. QED
      BY <2>1 DEF Iterates
  <1>4. PICK f : f = [n \in 0..N |-> g[n]]
    OBVIOUS
  <1>5. f \in [0..N -> T] /\ f[0] = first
    BY <1>3, <1>4
  <1>6. ASSUME NEW n \in 1..N
        PROVE  f[n] = step[n][f[n - 1]]
    <2>1. n - 1 \in Nat /\ n - 1 < N /\ (n - 1) + 1 = n /\ n - 1 \in 0..N /\ n \in 0..N
      OBVIOUS
    <2>2. g[n] = on[n - 1][g[n - 1]] /\ on[n - 1] = step[n]
      BY <1>2, <1>3, <2>1
    <2>3. QED
      BY <1>4, <2>1, <2>2
  <1>7. IteratesTo(f, N, T, first, step)
    BY <1>5, <1>6 DEF IteratesTo
  <1>8. QED
    BY <1>7

\* f gives each number up to N the value that its own step finds in f.
SolvesTo(f, N, T, step) == f \in [1..N -> T] /\ \A k \in 1..N : f[k] = step[k][f]

(* Recursion from the end: steps that look only at what is behind them have a
   function that they define. *)
LEMMA BackwardRecursion ==
    ASSUME NEW T, NEW N \in Nat, NEW any \in T,
           NEW step, step \in [1..N -> [[1..N -> T] -> T]],
           \A k \in 1..N : \A f, g \in [1..N -> T] :
               (\A j \in (k + 1)..N : f[j] = g[j]) => step[k][f] = step[k][g]
    PROVE  \E f : SolvesTo(f, N, T, step)
  <1> DEFINE Solves(f, k) == f \in [1..N -> T] /\ \A j \in k..N : f[j] = step[j][f]
             S == {k \in 1..(N + 1) : \E f : Solves(f, k)}
  <1>1. ASSUME NEW k \in 1..(N + 1), (k + 1)..(N + 1) \subseteq S
        PROVE  k \in S
    <2>1. CASE k = N + 1
      <3>1. PICK f : f = [j \in 1..N |-> any]
        OBVIOUS
      <3>2. Solves(f, k)
        BY <2>1, <3>1
      <3>3. QED
        BY <3>2
    <2>2. CASE k # N + 1
      <3>1. k + 1 \in (k + 1)..(N + 1) /\ k \in 1..N
        BY <2>2
      <3>2. PICK f : Solves(f, k + 1)
        BY <1>1, <3>1
      <3>3. PICK h : h = [j \in 1..N |-> IF j = k THEN step[k][f] ELSE f[j]]
        OBVIOUS
      <3>4. h \in [1..N -> T]
        BY <3>1, <3>2, <3>3
      <3>5. ASSUME NEW j \in k..N
            PROVE  h[j] = step[j][h]
        <4>1. j \in 1..N /\ \A i \in (j + 1)..N : i \in 1..N /\ i # k
          BY <3>1
        <4>2. \A i \in (j + 1)..N : h[i] = f[i]
          BY <3>3, <4>1
        <4>3. step[j][h] = step[j][f]
          BY <3>2, <3>4, <4>1, <4>2
        <4>4. CASE j = k
          BY <3>3, <4>1, <4>3, <4>4
        <4>5. CASE j # k
          <5>1. j \in (k + 1)..N
            BY <3>1, <4>5
          <5>2. QED
            BY <3>2, <3>3, <4>1, <4>3, <4>5, <5>1
        <4>6. QED
          BY <4>4, <4>5
      <3>6. Solves(h, k)
        BY <3>4, <3>5
      <3> HIDE DEF Solves
      <3>7. QED
        BY <3>6
    <2>3. QED
      BY <2>1, <2>2
  <1>2. 1..(N + 1) \subseteq S
    <2> HIDE DEF S
    <2> QED
      BY <1>1, Downwards, 1 \in Int, N + 1 \in Int
  <1>3. 1 \in S
    <2>1. 1 \in 1..(N + 1)
      OBVIOUS
    <2> HIDE DEF S
    <2>2. QED
      BY <1>2, <2>1
  <1>4. QED
    BY <1>3 DEF SolvesTo

-----------------------------------------------------------------------------
(* Lists of a finite set, and a strict order R on it.                      *)

\* t gives the elements of S, each once.
Enumerates(t, S) ==
    /\ t \in [1..Cardinality(S) -> S]
    /\ \A j, k \in 1..Cardinality(S) : j # k => t[j] # t[k]

StrictOrder(R, S) ==
    /\ \A x \in S : <<x, x>> \notin R
    /\ \A x, y, z \in S : <<x, y>> \in R /\ <<y, z>> \in R => <<x, z>> \in R
    /\ \A x, y \in S : x = y \/ <<x, y>> \in R \/ <<y, x>> \in R

RisesBy(R, t) == \A j, k \in DOMAIN t : j < k => <<t[j], t[k]>> \in R

\* How many come before x, and x.
Rank(R, S, x) == 1 + Cardinality({y \in S : <<y, x>> \in R})

(* An enumeration leaves no element out. *)
LEMMA EnumeratesAll ==
    ASSUME NEW S, IsFiniteSet(S), NEW t, Enumerates(t, S)
    PROVE  /\ Cardinality(S) \in Nat /\ DOMAIN t = 1..Cardinality(S)
           /\ \A k \in DOMAIN t : t[k] \in S
           /\ \A x \in S : \E k \in DOMAIN t : t[k] = x
  <1>1. Cardinality(S) \in Nat
    BY FS_CardinalityType
  <1>2. t \in Injection(1..Cardinality(S), S)
    BY DEF Enumerates, Injection, IsInjective
  <1>3. Cardinality(1..Cardinality(S)) = Cardinality(S)
    <2>1. Cardinality(S) \in Int /\ 1 \in Int
      BY <1>1
    <2>2. QED
      BY <1>1, <2>1, FS_Interval
  <1>4. t \in Surjection(1..Cardinality(S), S)
    BY <1>2, <1>3, FS_Injection
  <1>5. QED
    BY <1>1, <1>4 DEF Surjection, Enumerates

(* What comes earlier has the smaller rank. *)
LEMMA RanksRise ==
    ASSUME NEW S, IsFiniteSet(S), NEW R, StrictOrder(R, S), NEW x \in S, NEW y \in S,
           <<x, y>> \in R
    PROVE  Rank(R, S, x) < Rank(R, S, y)
  <1> DEFINE before(z) == {w \in S : <<w, z>> \in R}
  <1>1. before(x) \in SUBSET before(y) /\ x \in before(y) /\ x \notin before(x)
    BY DEF StrictOrder
  <1>2. IsFiniteSet(before(x)) /\ IsFiniteSet(before(y))
    <2>1. before(x) \in SUBSET S /\ before(y) \in SUBSET S
      OBVIOUS
    <2> HIDE DEF before
    <2>2. QED
      BY <2>1, FS_Subset
  <1>3. Rank(R, S, x) = 1 + Cardinality(before(x)) /\ Rank(R, S, y) = 1 + Cardinality(before(y))
    BY DEF Rank
  <1> HIDE DEF before
  <1>4. Cardinality(before(x)) <= Cardinality(before(y))
        /\ Cardinality(before(y)) # Cardinality(before(x))
    BY <1>1, <1>2, FS_Subset
  <1>5. Cardinality(before(x)) \in Nat /\ Cardinality(before(y)) \in Nat
    BY <1>2, FS_CardinalityType
  <1>6. QED
    BY <1>3, <1>4, <1>5

(* A rank is a place of an enumeration. *)
LEMMA RankIsAPlace ==
    ASSUME NEW S, IsFiniteSet(S), NEW R, StrictOrder(R, S), NEW x \in S
    PROVE  Rank(R, S, x) \in 1..Cardinality(S)
  <1> DEFINE before == {w \in S : <<w, x>> \in R}
  <1>1. before \in SUBSET S /\ x \notin before
    BY DEF StrictOrder
  <1>2. Rank(R, S, x) = 1 + Cardinality(before)
    BY DEF Rank
  <1> HIDE DEF before
  <1>3. IsFiniteSet(before) /\ Cardinality(before) <= Cardinality(S)
        /\ Cardinality(S) # Cardinality(before)
    BY <1>1, FS_Subset
  <1>4. Cardinality(S) \in Nat /\ Cardinality(before) \in Nat
    BY <1>3, FS_CardinalityType
  <1>5. QED
    BY <1>2, <1>3, <1>4

(* A finite set can be enumerated in order. *)
LEMMA OrderedEnumeration ==
    ASSUME NEW S, IsFiniteSet(S), NEW R, StrictOrder(R, S)
    PROVE  \E t : Enumerates(t, S) /\ RisesBy(R, t)
  <1> DEFINE N == Cardinality(S)
             rank == [x \in S |-> Rank(R, S, x)]
  <1>1. N \in Nat
    BY FS_CardinalityType
  <1>2. rank \in [S -> 1..N]
    BY RankIsAPlace
  <1>3. \A x, y \in S : <<x, y>> \in R => rank[x] < rank[y]
    BY RanksRise
  <1>4. \A x, y \in S : x # y => rank[x] # rank[y]
    <2> SUFFICES ASSUME NEW x \in S, NEW y \in S, x # y PROVE rank[x] # rank[y]
      OBVIOUS
    <2>1. rank[x] \in Nat /\ rank[y] \in Nat
      BY <1>2
    <2>2. rank[x] < rank[y] \/ rank[y] < rank[x]
      BY <1>3 DEF StrictOrder
    <2> HIDE DEF rank
    <2>3. QED
      BY <2>1, <2>2
  <1> HIDE DEF rank
  <1>5. rank \in Injection(S, 1..N)
    BY <1>2, <1>4 DEF Injection, IsInjective
  <1>6. IsFiniteSet(1..N) /\ Cardinality(1..N) = N
    <2>1. N \in Int /\ 1 \in Int
      BY <1>1
    <2> HIDE DEF N
    <2>2. QED
      BY <1>1, <2>1, FS_Interval
  <1>7. rank \in Surjection(S, 1..N)
    <2>1. Cardinality(S) = Cardinality(1..N)
      BY <1>6
    <2> HIDE DEF N
    <2>2. QED
      BY <1>5, <1>6, <2>1, FS_Injection
  <1> DEFINE t == [n \in 1..N |-> CHOOSE x \in S : rank[x] = n]
  <1>8. \A n \in 1..N : t[n] \in S /\ rank[t[n]] = n
    BY <1>7 DEF Surjection
  <1>9. Enumerates(t, S)
    BY <1>8 DEF Enumerates
  <1>10. ASSUME NEW j \in 1..N, NEW k \in 1..N, j < k
         PROVE  <<t[j], t[k]>> \in R
    <2>1. t[j] \in S /\ t[k] \in S /\ rank[t[j]] = j /\ rank[t[k]] = k
      BY <1>8
    <2> HIDE DEF t, N
    <2>2. j \in Nat /\ k \in Nat /\ j # k /\ ~(k < j)
      BY <1>1, <1>10
    <2>3. t[j] # t[k]
      BY <2>1, <2>2
    <2>4. <<t[k], t[j]>> \notin R
      BY <1>3, <2>1, <2>2
    <2>5. QED
      BY <2>1, <2>3, <2>4 DEF StrictOrder
  <1>11. RisesBy(R, t)
    <2>1. DOMAIN t = 1..N
      OBVIOUS
    <2> HIDE DEF t, N
    <2>2. QED
      BY <1>10, <2>1 DEF RisesBy
  <1> HIDE DEF t
  <1>12. QED
    BY <1>9, <1>11

(* In an enumeration that rises an element stands at its rank. *)
LEMMA PlaceIsRank ==
    ASSUME NEW S, IsFiniteSet(S), NEW R, StrictOrder(R, S), NEW t, Enumerates(t, S), RisesBy(R, t),
           NEW k \in DOMAIN t
    PROVE  k = Rank(R, S, t[k])
  <1> DEFINE before == {y \in S : <<y, t[k]>> \in R}
  <1>1. /\ Cardinality(S) \in Nat /\ DOMAIN t = 1..Cardinality(S)
        /\ \A j \in DOMAIN t : t[j] \in S
        /\ \A x \in S : \E j \in DOMAIN t : t[j] = x
    BY EnumeratesAll
  <1>2. PICK earlier : earlier = [j \in 1..(k - 1) |-> t[j]]
    OBVIOUS
  <1>3. \A j \in 1..(k - 1) : j \in DOMAIN t /\ j < k /\ earlier[j] = t[j] /\ earlier[j] \in before
    <2> SUFFICES ASSUME NEW j \in 1..(k - 1)
                 PROVE  j \in DOMAIN t /\ j < k /\ earlier[j] = t[j] /\ earlier[j] \in before
      OBVIOUS
    <2>1. j \in DOMAIN t /\ j < k
      BY <1>1
    <2>2. QED
      BY <1>1, <1>2, <2>1 DEF RisesBy
  <1>4. \A y \in before : \E j \in 1..(k - 1) : earlier[j] = y
    <2> SUFFICES ASSUME NEW y \in before PROVE \E j \in 1..(k - 1) : earlier[j] = y
      OBVIOUS
    <2>1. PICK j \in DOMAIN t : t[j] = y
      BY <1>1
    <2>2. j # k
      BY <1>1, <2>1 DEF StrictOrder
    <2>3. ~(k < j)
      <3>1. SUFFICES ASSUME k < j PROVE FALSE
        OBVIOUS
      <3>2. <<t[k], y>> \in R /\ <<y, t[k]>> \in R /\ t[k] \in S /\ y \in S
        BY <1>1, <2>1, <3>1 DEF RisesBy
      <3>3. QED
        BY <3>2 DEF StrictOrder
    <2>4. j \in 1..(k - 1)
      BY <1>1, <2>2, <2>3
    <2>5. QED
      BY <1>2, <2>1, <2>4
  <1>5. \A i, j \in 1..(k - 1) : i # j => earlier[i] # earlier[j]
    BY <1>1, <1>3 DEF Enumerates
  <1>6. earlier \in Bijection(1..(k - 1), before)
    <2>1. earlier \in [1..(k - 1) -> before]
      BY <1>2, <1>3
    <2> HIDE DEF before
    <2>2. QED
      BY <1>4, <1>5, <2>1 DEF Bijection, Injection, Surjection, IsInjective
  <1> HIDE DEF before
  <1>7. k - 1 \in Int /\ 1 \in Int /\ k \in Nat /\ k >= 1
    BY <1>1
  <1>8. IsFiniteSet(1..(k - 1)) /\ Cardinality(1..(k - 1)) = k - 1
    BY <1>7, FS_Interval
  <1>9. Cardinality(before) = k - 1
    BY <1>6, <1>8, FS_Bijection DEF ExistsBijection
  <1>10. QED
    BY <1>7, <1>9 DEF Rank, before
=============================================================================
