---------------------------- MODULE InductionLemmas ----------------------------
(***************************************************************************)
(* Induction and recursion on the natural numbers in a first-order form:   *)
(* the formula is a set, the recursive step a function, so that the lemmas *)
(* can be cited where the library's, which take an operator, cannot.       *)
(***************************************************************************)
EXTENDS FiniteSetTheorems, TLAPS

\* A set with 0 and closed under successor holds every natural number.
LEMMA NatSetInduction ==
  ASSUME NEW S, 0 \in S, \A n \in Nat : n \in S => n + 1 \in S
  PROVE  Nat \subseteq S
  <1> SUFFICES ASSUME Nat \ S # {} PROVE FALSE
      OBVIOUS
  <1> DEFINE R == OpToRel(<, Nat)
             T == Nat \ S
  <1>1. PICK x \in T : \A y \in T : ~(<<y, x>> \in R)
    <2>1. IsWellFoundedOn(R, Nat)
      BY NatLessThanWellFounded
    <2>2. T \subseteq Nat /\ T # {}
      OBVIOUS
    <2> HIDE DEF R, T
    <2> QED
      BY <2>1, <2>2, WFMin
  <1>2. \A y \in T : ~(y < x)
    BY <1>1 DEF OpToRel
  <1>3. x # 0 /\ x - 1 \in Nat
    OBVIOUS
  <1>4. x - 1 \in S
    BY <1>2, <1>3
  <1> QED
    BY <1>3, <1>4

\* The same up to a bound.
LEMMA UptoInduction ==
  ASSUME NEW n \in Nat, NEW S, 0 \in S, \A i \in 1 .. n : i - 1 \in S => i \in S
  PROVE  \A i \in 0 .. n : i \in S
  <1> DEFINE T == {i \in Nat : i <= n => i \in S}
  <1>1. 0 \in T
    OBVIOUS
  <1>2. ASSUME NEW i \in Nat, i \in T PROVE i + 1 \in T
    <2> SUFFICES ASSUME i + 1 <= n PROVE i + 1 \in S
        OBVIOUS
    <2>1. i + 1 \in 1 .. n /\ (i + 1) - 1 \in S
      BY <1>2
    <2> QED
      BY <2>1
  <1>3. Nat \subseteq T
    <2> HIDE DEF T
    <2> QED
      BY <1>1, <1>2, NatSetInduction
  <1> QED
    BY <1>3

\* What a value at i - 1 gives at i.
Steps(n, V) == [V \X (1 .. n) -> V]

\* g is the function on 0 .. n defined by what it is at 0 and by how each value
\* is got from the one before.
Recursive(g, n, V, base, step) ==
  /\ g \in [0 .. n -> V]
  /\ g[0] = base
  /\ \A i \in 1 .. n : g[i] = step[<<g[i - 1], i>>]

\* There is one.
LEMMA Recursion ==
  ASSUME NEW n \in Nat, NEW V, NEW base \in V, NEW step \in Steps(n, V)
  PROVE  \E g : Recursive(g, n, V, base, step)
  <1> DEFINE Defined(m, g) ==
               g[0] = base /\ \A i \in 1 .. m : g[i] = step[<<g[i - 1], i>>]
             S == {m \in Nat : m <= n => \E g \in [0 .. m -> V] : Defined(m, g)}
  <1>1. 0 \in S
    <2> DEFINE g == [i \in 0 .. 0 |-> base]
    <2>1. g \in [0 .. 0 -> V] /\ Defined(0, g)
      OBVIOUS
    <2> QED
      BY <2>1
  <1>2. ASSUME NEW m \in Nat, m \in S PROVE m + 1 \in S
    <2> SUFFICES ASSUME m + 1 <= n
                 PROVE  \E g \in [0 .. m + 1 -> V] : Defined(m + 1, g)
        OBVIOUS
    <2>1. PICK g \in [0 .. m -> V] : Defined(m, g)
      BY <1>2
    <2> DEFINE h == [i \in 0 .. m + 1 |->
                       IF i = m + 1 THEN step[<<g[m], m + 1>>] ELSE g[i]]
    <2>2. g[m] \in V /\ step[<<g[m], m + 1>>] \in V
      BY DEF Steps
    <2>3. h \in [0 .. m + 1 -> V]
      BY <2>2
    <2>4. h[m + 1] = step[<<g[m], m + 1>>] /\ \A i \in 0 .. m : h[i] = g[i]
      OBVIOUS
    <2> HIDE DEF h
    <2>5. h[0] = base
      BY <2>1, <2>4
    <2>6. ASSUME NEW i \in 1 .. m + 1 PROVE h[i] = step[<<h[i - 1], i>>]
      <3>1. i - 1 \in 0 .. m /\ h[i - 1] = g[i - 1]
        BY <2>4
      <3>2. CASE i = m + 1
        BY <3>1, <3>2, <2>4
      <3>3. CASE i \in 1 .. m
        BY <3>1, <3>3, <2>1, <2>4
      <3> QED
        BY <3>2, <3>3
    <2> QED
      BY <2>3, <2>5, <2>6
  <1>3. n \in S
    <2> HIDE DEF S
    <2> QED
      BY <1>1, <1>2, NatSetInduction
  <1> QED
    BY <1>3 DEF Recursive

\* The same where the i-th value is in W[i], and only there the step is known to
\* lead on.
Guarded(g, n, W, base, step) ==
  /\ g[0] = base /\ \A i \in 1 .. n : g[i] = step[<<g[i - 1], i>>]
  /\ \A i \in 0 .. n : g[i] \in W[i]

LEMMA GuardedRecursion ==
  ASSUME NEW n \in Nat, NEW V, NEW W \in [0 .. n -> SUBSET V], NEW base \in W[0], NEW step,
         \A i \in 1 .. n : \A v \in W[i - 1] : step[<<v, i>>] \in W[i]
  PROVE  \E g \in [0 .. n -> V] : Guarded(g, n, W, base, step)
  <1> DEFINE onward == [p \in V \X (1 .. n) |-> IF step[p] \in V THEN step[p] ELSE base]
  <1>1. base \in V /\ \A i \in 0 .. n : W[i] \subseteq V
    BY 0 \in 0 .. n
  <1>2. onward \in Steps(n, V)
    BY <1>1 DEF Steps
  <1>3. PICK g : Recursive(g, n, V, base, onward)
    <2> HIDE DEF onward
    <2> QED
      BY <1>1, <1>2, Recursion
  <1>4. /\ g \in [0 .. n -> V] /\ g[0] = base
        /\ \A i \in 1 .. n : g[i] = onward[<<g[i - 1], i>>]
    BY <1>3 DEF Recursive
  <1>5. ASSUME NEW i \in 1 .. n, g[i - 1] \in W[i - 1]
        PROVE  g[i] = step[<<g[i - 1], i>>] /\ g[i] \in W[i]
    <2>1. i - 1 \in 0 .. n /\ i \in 0 .. n
      OBVIOUS
    <2>2. g[i - 1] \in V /\ step[<<g[i - 1], i>>] \in W[i] /\ step[<<g[i - 1], i>>] \in V
      BY <1>1, <1>5, <2>1
    <2>3. onward[<<g[i - 1], i>>] = step[<<g[i - 1], i>>]
      BY <2>2
    <2> QED
      BY <1>4, <2>2, <2>3
  <1> DEFINE S == {i \in 0 .. n : g[i] \in W[i]}
  <1>6. 0 \in S
    BY <1>4
  <1>7. ASSUME NEW i \in 1 .. n, i - 1 \in S PROVE i \in S
    <2>1. g[i - 1] \in W[i - 1] /\ i \in 0 .. n
      BY <1>7
    <2>2. g[i] \in W[i]
      BY <1>5, <2>1
    <2> QED
      BY <2>1, <2>2
  <1>8. \A i \in 0 .. n : i \in S
    <2> HIDE DEF S
    <2> QED
      BY <1>6, <1>7, UptoInduction
  <1>9. \A i \in 0 .. n : g[i] \in W[i]
    BY <1>8
  <1>10. ASSUME NEW i \in 1 .. n PROVE g[i] = step[<<g[i - 1], i>>]
    <2>1. i - 1 \in 0 .. n
      OBVIOUS
    <2> QED
      BY <1>5, <1>9, <2>1
  <1>11. Guarded(g, n, W, base, step)
    BY <1>4, <1>9, <1>10 DEF Guarded
  <1> QED
    BY <1>4, <1>11

\* A bounded set of natural numbers that is not empty has a greatest member.
LEMMA GreatestExists ==
  ASSUME NEW n \in Nat, NEW T \in SUBSET (0 .. n), T # {}
  PROVE  \E x \in T : \A y \in T : y <= x
  <1> DEFINE Below == {m \in Nat : \A k \in 0 .. m : n - k \notin T}
  <1> SUFFICES ASSUME ~ \E x \in T : \A y \in T : y <= x PROVE FALSE
      OBVIOUS
  <1>1. 0 \in Below
    OBVIOUS
  <1>2. ASSUME NEW m \in Nat, m \in Below PROVE m + 1 \in Below
    <2> SUFFICES ASSUME n - (m + 1) \in T PROVE FALSE
        BY <1>2
    <2>1. PICK y \in T : ~(y <= n - (m + 1))
      OBVIOUS
    <2>2. n - y \in 0 .. m /\ n - (n - y) = y
      BY <2>1
    <2> QED
      BY <2>2, <1>2
  <1>3. n \in Below
    <2> HIDE DEF Below
    <2> QED
      BY <1>1, <1>2, NatSetInduction
  <1>4. PICK y \in T : TRUE
    OBVIOUS
  <1>5. n - y \in 0 .. n /\ n - (n - y) = y
    OBVIOUS
  <1>6. n - (n - y) \notin T
    BY <1>3, <1>5
  <1> QED
    BY <1>5, <1>6
\* A finite set of integers that is not empty has a greatest and a least member.
LEMMA FiniteExtremes ==
  ASSUME NEW T \in SUBSET Int, IsFiniteSet(T), T # {}
  PROVE  /\ \E x \in T : \A y \in T : y <= x
         /\ \E x \in T : \A y \in T : x <= y
  <1> DEFINE Greatest(U) == \E x \in U : \A y \in U : y <= x
             Least(U) == \E x \in U : \A y \in U : x <= y
             Sized(m, U) == IsFiniteSet(U) /\ Cardinality(U) = m + 1
             S == {m \in Nat : \A U \in SUBSET Int :
                                 Sized(m, U) => Greatest(U) /\ Least(U)}
  <1>1. 0 \in S
    <2> SUFFICES ASSUME NEW U \in SUBSET Int, Sized(0, U) PROVE Greatest(U) /\ Least(U)
        OBVIOUS
    <2>1. PICK x : U = {x}
      BY FS_Singleton
    <2> QED
      BY <2>1
  <1>2. ASSUME NEW m \in Nat, m \in S PROVE m + 1 \in S
    <2> SUFFICES ASSUME NEW U \in SUBSET Int, Sized(m + 1, U)
                 PROVE  Greatest(U) /\ Least(U)
        OBVIOUS
    <2>1. PICK z \in U : TRUE
      <3>1. Cardinality(U) # 0
        OBVIOUS
      <3>2. U # {}
        BY <3>1, FS_EmptySet
      <3> QED
        BY <3>2
    <2> DEFINE W == U \ {z}
    <2>2. W \in SUBSET Int /\ Sized(m, W)
      BY <2>1, FS_RemoveElement
    <2>3. Greatest(W) /\ Least(W)
      BY <1>2, <2>2
    <2>4. PICK x \in W : \A y \in W : y <= x
      BY <2>3
    <2>5. PICK w \in W : \A y \in W : w <= y
      BY <2>3
    <2>6. Greatest(U)
      <3> DEFINE g == IF z <= x THEN x ELSE z
      <3> SUFFICES g \in U /\ \A y \in U : y <= g
          OBVIOUS
      <3> QED
        BY <2>1, <2>4
    <2>7. Least(U)
      <3> DEFINE g == IF w <= z THEN w ELSE z
      <3> SUFFICES g \in U /\ \A y \in U : g <= y
          OBVIOUS
      <3> QED
        BY <2>1, <2>5
    <2> QED
      BY <2>6, <2>7
  <1>3. Nat \subseteq S
    <2> HIDE DEF S
    <2> QED
      BY <1>1, <1>2, NatSetInduction
  <1>4. Cardinality(T) \in Nat /\ Cardinality(T) # 0
    BY FS_CardinalityType, FS_EmptySet
  <1>5. Cardinality(T) - 1 \in Nat /\ Sized(Cardinality(T) - 1, T)
    BY <1>4
  <1>6. Cardinality(T) - 1 \in S
    BY <1>3, <1>5
  <1> QED
    BY <1>5, <1>6

\* In a finite set whose members have distinct keys, each number up to the size
\* of the set is the rank of one member, and the ranks are in the order of the keys.
LEMMA Ranks ==
  ASSUME NEW S, IsFiniteSet(S), NEW key \in [S -> Int],
         \A x, y \in S : key[x] = key[y] => x = y
  PROVE  /\ Cardinality(S) \in Nat
         /\ \E rank \in [S -> 1 .. Cardinality(S)] :
              /\ \A x \in S, U \in SUBSET S :
                   (\A z \in S : z \in U <=> key[z] <= key[x]) => rank[x] = Cardinality(U)
              /\ \A k \in 1 .. Cardinality(S) : \E x \in S : rank[x] = k
              /\ \A x, y \in S : key[x] < key[y] <=> rank[x] < rank[y]
  <1> DEFINE n == Cardinality(S)
             Upto(x) == {z \in S : key[z] <= key[x]}
             Ranks_ == 1 .. n
             f == [x \in S |-> Cardinality(Upto(x))]
  <1>1. n \in Nat /\ IsFiniteSet(Ranks_) /\ Cardinality(Ranks_) = n
    <2>1. n \in Nat
      BY FS_CardinalityType
    <2> HIDE DEF n
    <2> QED
      BY <2>1, FS_Interval
  <1>2. ASSUME NEW x \in S
        PROVE  IsFiniteSet(Upto(x)) /\ Cardinality(Upto(x)) \in Ranks_
    <2>1. Upto(x) \in SUBSET S /\ x \in Upto(x)
      OBVIOUS
    <2> HIDE DEF Upto
    <2>2. IsFiniteSet(Upto(x)) /\ Cardinality(Upto(x)) <= n
      BY <2>1, FS_Subset
    <2>3. Cardinality(Upto(x)) \in Nat /\ Cardinality(Upto(x)) # 0
      BY <2>1, <2>2, FS_CardinalityType, FS_EmptySet
    <2> QED
      BY <1>1, <2>2, <2>3
  <1>3. f \in [S -> Ranks_]
    BY <1>2
  <1>4. ASSUME NEW x \in S, NEW y \in S, key[x] < key[y] PROVE f[x] < f[y]
    <2>1. Upto(x) \in SUBSET Upto(y) /\ y \in Upto(y) /\ y \notin Upto(x)
      <3>1. \A z \in S : key[z] \in Int
        OBVIOUS
      <3> QED
        BY <3>1, <1>4
    <2>2. IsFiniteSet(Upto(y)) /\ Cardinality(Upto(x)) \in Int /\ Cardinality(Upto(y)) \in Int
      BY <1>1, <1>2
    <2>3. f[x] = Cardinality(Upto(x)) /\ f[y] = Cardinality(Upto(y))
      OBVIOUS
    <2>4. Cardinality(Upto(x)) <= Cardinality(Upto(y))
          /\ (Cardinality(Upto(y)) = Cardinality(Upto(x)) => Upto(x) = Upto(y))
      <3> HIDE DEF Upto
      <3> QED
        BY <2>1, <2>2, FS_Subset
    <2> HIDE DEF f, Upto
    <2> QED
      BY <2>1, <2>2, <2>3, <2>4
  <1> HIDE DEF f
  <1>5. ASSUME NEW x \in S, NEW y \in S PROVE key[x] < key[y] <=> f[x] < f[y]
    <2>1. key[x] \in Int /\ key[y] \in Int /\ f[x] \in Int /\ f[y] \in Int
      BY <1>1, <1>3
    <2>2. key[x] = key[y] => f[x] = f[y]
      OBVIOUS
    <2> QED
      BY <2>1, <2>2, <1>4
  <1>6. ASSUME NEW k \in Ranks_ PROVE \E x \in S : f[x] = k
    <2>1. \A x, y \in S : f[x] = f[y] => x = y
      <3> SUFFICES ASSUME NEW x \in S, NEW y \in S, f[x] = f[y] PROVE key[x] = key[y]
          OBVIOUS
      <3>1. key[x] \in Int /\ key[y] \in Int /\ f[x] \in Int
        BY <1>1, <1>3
      <3>2. ~(key[x] < key[y]) /\ ~(key[y] < key[x])
        BY <3>1, <1>5
      <3> QED
        BY <3>1, <3>2
    <2>2. f \in Injection(S, Ranks_)
      <3> HIDE DEF Ranks_
      <3> QED
        BY <1>3, <2>1 DEF Injection, IsInjective
    <2>3. f \in Surjection(S, Ranks_)
      <3> HIDE DEF Ranks_
      <3> QED
        BY <1>1, <2>2, FS_Injection
    <2> HIDE DEF Ranks_
    <2> QED
      BY <2>3 DEF Surjection
  <1>7. ASSUME NEW x \in S, NEW U \in SUBSET S, \A z \in S : z \in U <=> key[z] <= key[x]
        PROVE  f[x] = Cardinality(U)
    <2>1. U = Upto(x)
      BY <1>7
    <2> QED
      BY <2>1 DEF f
  <1> QED
    BY <1>1, <1>3, <1>5, <1>6, <1>7
=============================================================================
