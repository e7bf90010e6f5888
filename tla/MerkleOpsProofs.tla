--------------------------- MODULE MerkleOpsProofs ---------------------------
(***************************************************************************)
(* Theorems about the functions of MerkleOps: they are defined for every   *)
(* number of leaves, the path taken from a built tree verifies for its     *)
(* leaf and for nothing else, and what any other path proves.              *)
(*                                                                         *)
(* The induction theorems of the library take the formula as an operator,  *)
(* which the provers cannot instantiate.  Induction here is over a set of  *)
(* numbers instead, and follows from the theorem that the finite subsets   *)
(* of a set are well-founded under inclusion.                              *)
(***************************************************************************)
EXTENDS MerkleOps, FiniteSetTheorems, TLAPS

\* A set of natural numbers has a least element: a minimal 0..n is one of a least n.
LEMMA Least ==
  ASSUME NEW T, T \subseteq Nat, T # {}
  PROVE  \E n \in T : \A m \in T : n <= m
<1>. DEFINE Order(t) == StrictSubsetOrdering(0..t)
            Upto(t) == {n \in T : n <= t}
            Intervals(t) == {0..n : n \in Upto(t)}
<1>1. PICK t \in T : TRUE
  OBVIOUS
<1>2. IsWellFoundedOn(Order(t), FiniteSubsetsOf(0..t))
  BY FS_StrictSubsetOrderingWellFounded
<1>3. FiniteSubsetsOf(0..t) = SUBSET (0..t)
  <2>1. IsFiniteSet(0..t)
    BY <1>1, FS_Interval
  <2>. QED  BY <2>1, FS_FiniteSubsetsOfFinite
<1>4. Intervals(t) \subseteq FiniteSubsetsOf(0..t) /\ Intervals(t) # {}
  BY <1>1, <1>3
<1>5. PICK x \in Intervals(t) : \A y \in Intervals(t) : <<y, x>> \notin Order(t)
  <2>. HIDE DEF Intervals, Order
  <2>. QED  BY <1>2, <1>4, WFMin
<1>6. PICK n \in Upto(t) : x = 0..n
  OBVIOUS
<1>7. ASSUME NEW m \in T, m < n
      PROVE  FALSE
  <2>1. 0..m \in Intervals(t)
    BY <1>6, <1>7
  <2>2. 0..m \subseteq 0..n /\ n \in 0..n /\ n \notin 0..m /\ 0..n \subseteq 0..t
    BY <1>1, <1>6, <1>7
  <2>3. <<0..m, x>> \in Order(t)
    BY <2>2, <1>6 DEF StrictSubsetOrdering
  <2>. QED  BY <2>1, <2>3, <1>5
<1>. QED  BY <1>6, <1>7

\* What holds of 0, and of n + 1 if it does of n, holds of all of them.
LEMMA Induction ==
  ASSUME NEW T, 0 \in T, \A n \in Nat : n \in T => n + 1 \in T
  PROVE  Nat \subseteq T
<1>. DEFINE Others == {n \in Nat : n \notin T}
<1>. SUFFICES ASSUME Others # {} PROVE FALSE
  OBVIOUS
<1>1. PICK n \in Others : \A m \in Others : n <= m
  BY Least
<1>. QED  BY <1>1

\* A function can be applied over and over.
LEMMA Iterates ==
  ASSUME NEW S, NEW x \in S, NEW step \in [S -> S]
  PROVE  \E f \in [Nat -> S] : f[0] = x /\ \A n \in Nat : f[n + 1] = step[f[n]]
<1>. DEFINE Begins(n, f) == f[0] = x /\ \A j \in 0..n : j < n => f[j + 1] = step[f[j]]
            Possible == {n \in Nat : \E f \in [0..n -> S] : Begins(n, f)}
            Agree(n) == \A a, b \in Nat : \A f \in [0..a -> S], g \in [0..b -> S] :
                          n <= a /\ n <= b /\ Begins(a, f) /\ Begins(b, g) => f[n] = g[n]
            Same == {n \in Nat : Agree(n)}
<1>1. Nat \subseteq Possible
  <2>1. 0 \in Possible
    <3>1. [j \in 0..0 |-> x] \in [0..0 -> S] /\ Begins(0, [j \in 0..0 |-> x])
      OBVIOUS
    <3>. QED  BY <3>1
  <2>2. ASSUME NEW n \in Nat, n \in Possible
        PROVE  n + 1 \in Possible
    <3>1. PICK f \in [0..n -> S] : Begins(n, f)
      BY <2>2
    <3>. DEFINE g == [j \in 0..(n + 1) |-> IF j = n + 1 THEN step[f[n]] ELSE f[j]]
    <3>2. g \in [0..(n + 1) -> S]
      OBVIOUS
    <3>3. Begins(n + 1, g)
      BY <3>1
    <3>. QED  BY <3>2, <3>3
  <2>. HIDE DEF Possible
  <2>. QED  BY <2>1, <2>2, Induction
<1>2. Nat \subseteq Same
  <2>1. 0 \in Same
    OBVIOUS
  <2>2. ASSUME NEW n \in Nat, n \in Same
        PROVE  n + 1 \in Same
    <3>1. ASSUME NEW a \in Nat, NEW b \in Nat, NEW f \in [0..a -> S], NEW g \in [0..b -> S],
                 n + 1 <= a, n + 1 <= b, Begins(a, f), Begins(b, g)
          PROVE  f[n + 1] = g[n + 1]
      <4>1. f[n] = g[n]
        <5>1. n <= a /\ n <= b
          BY <3>1
        <5>2. Agree(n)
          <6>. HIDE DEF Agree
          <6>. QED  BY <2>2
        <5>. HIDE DEF Begins
        <5>. QED  BY <3>1, <5>1, <5>2
      <4>2. f[n + 1] = step[f[n]] /\ g[n + 1] = step[g[n]]
        BY <3>1
      <4>. QED  BY <4>1, <4>2
    <3>. HIDE DEF Begins
    <3>. QED  BY <3>1
  <2>. HIDE DEF Same
  <2>. QED  BY <2>1, <2>2, Induction
<1>. DEFINE F(n) == CHOOSE f \in [0..n -> S] : Begins(n, f)
            whole == [n \in Nat |-> F(n)[n]]
<1>3. \A n \in Nat : F(n) \in [0..n -> S] /\ Begins(n, F(n))
  BY <1>1
<1>4. \A n \in Nat : F(n + 1)[n] = F(n)[n]
  <2>. HIDE DEF F, Begins
  <2>. QED  BY <1>2, <1>3
<1>5. whole[0] = x /\ \A n \in Nat : whole[n + 1] = step[whole[n]]
  <2>1. whole[0] = x
    BY <1>3
  <2>2. ASSUME NEW n \in Nat
        PROVE  whole[n + 1] = step[whole[n]]
    <3>1. Begins(n + 1, F(n + 1)) /\ n \in 0..(n + 1) /\ n < n + 1
      <4>. HIDE DEF F, Begins
      <4>. QED  BY <1>3
    <3>2. F(n + 1)[n + 1] = step[F(n + 1)[n]]
      <4>. HIDE DEF F
      <4>. QED  BY <3>1
    <3>3. whole[n + 1] = F(n + 1)[n + 1] /\ whole[n] = F(n)[n]
      <4>. HIDE DEF F
      <4>. QED  OBVIOUS
    <3>. HIDE DEF F, whole
    <3>. QED  BY <3>2, <3>3, <1>4
  <2>. QED  BY <2>1, <2>2
<1>6. whole \in [Nat -> S]
  <2>. HIDE DEF F
  <2>1. \A n \in Nat : F(n)[n] \in S
    BY <1>3
  <2>. QED  BY <2>1
<1>. QED  BY <1>5, <1>6
LEMMA NatIterates ==
  ASSUME NEW x \in Nat, NEW step \in [Nat -> Nat]
  PROVE  \E f \in [Nat -> Nat] : f[0] = x /\ \A n \in Nat : f[n + 1] = step[f[n]]
<1>. DEFINE On(S) == \A y \in S : \A g \in [S -> S] :
                       \E f \in [Nat -> S] : f[0] = y /\ \A n \in Nat : f[n + 1] = g[f[n]]
<1>1. \A S : On(S)
  BY Iterates
<1>2. On(Nat)
  <2>. HIDE DEF On
  <2>. QED  BY <1>1
<1>. QED  BY <1>2
------------------------------------------------------------------------------
LEMMA PowerDef ==
  /\ Power \in [Nat -> Nat \ {0}] /\ Power[0] = 1
  /\ \A d \in Nat : Power[d + 1] = 2 * Power[d]
<1>. DEFINE step == [n \in Nat |-> 2 * n]
<1>1. PICK f \in [Nat -> Nat] : f[0] = 1 /\ \A d \in Nat : f[d + 1] = step[f[d]]
  <2>1. step \in [Nat -> Nat] /\ 1 \in Nat
    OBVIOUS
  <2>. HIDE DEF step
  <2>. QED  BY <2>1, NatIterates
<1>2. f = [d \in Nat |-> IF d = 0 THEN 1 ELSE 2 * f[d - 1]]
  <2>1. \A d \in Nat \ {0} : f[d] = 2 * f[d - 1]
    <3>1. ASSUME NEW d \in Nat \ {0}
          PROVE  f[(d - 1) + 1] = step[f[d - 1]] /\ d - 1 \in Nat /\ (d - 1) + 1 = d
      BY <1>1
    <3>. QED  BY <3>1
  <2>. QED  BY <1>1, <2>1
<1>3. Power = [d \in Nat |-> IF d = 0 THEN 1 ELSE 2 * Power[d - 1]]
  BY <1>2 DEF Power
<1>4. Power[0] = 1 /\ \A d \in Nat : Power[d + 1] = 2 * Power[d]
  BY <1>3
<1>5. \A d \in Nat : Power[d] \in Nat \ {0}
  <2>. DEFINE Good == {d \in Nat : Power[d] \in Nat \ {0}}
  <2>1. 0 \in Good /\ \A d \in Nat : d \in Good => d + 1 \in Good
    BY <1>4
  <2>2. Nat \subseteq Good
    <3>. HIDE DEF Good
    <3>. QED  BY <2>1, Induction
  <2>. QED  BY <2>2
<1>. QED  BY <1>3, <1>4, <1>5

\* Powers grow, and d is less than the d-th.
LEMMA PowerGrows ==
  /\ \A d \in Nat : d < Power[d]
  /\ \A d, e \in Nat : d < e => Power[d] < Power[e]
<1>1. \A d \in Nat : d < Power[d]
  <2>. DEFINE Good == {d \in Nat : d < Power[d]}
  <2>1. 0 \in Good /\ \A d \in Nat : d \in Good => d + 1 \in Good
    BY PowerDef
  <2>2. Nat \subseteq Good
    <3>. HIDE DEF Good
    <3>. QED  BY <2>1, Induction
  <2>. QED  BY <2>2
<1>2. ASSUME NEW d \in Nat, NEW e \in Nat, d < e
      PROVE  Power[d] < Power[e]
  <2>. DEFINE Good == {n \in Nat : Power[d] < Power[d + n + 1]}
  <2>1. 0 \in Good
    BY PowerDef
  <2>2. ASSUME NEW n \in Nat, n \in Good
        PROVE  n + 1 \in Good
    <3>1. Power[(d + n + 1) + 1] = 2 * Power[d + n + 1] /\ Power[d + n + 1] \in Nat
      BY PowerDef
    <3>2. d + (n + 1) + 1 = (d + n + 1) + 1 /\ Power[d] \in Nat
      BY PowerDef
    <3>. QED  BY <3>1, <3>2, <2>2
  <2>3. Nat \subseteq Good
    <3>. HIDE DEF Good
    <3>. QED  BY <2>1, <2>2, Induction
  <2>4. e - d - 1 \in Nat /\ d + (e - d - 1) + 1 = e
    BY <1>2
  <2>5. e - d - 1 \in Good
    BY <2>3, <2>4
  <2>. QED  BY <2>4, <2>5
<1>. QED  BY <1>1, <1>2

\* There is a least power that holds n leaves.
LEMMA DepthDef ==
  ASSUME NEW n \in Nat \ {0}
  PROVE  /\ Depth(n) \in Nat /\ n <= Power[Depth(n)]
         /\ \A e \in 0..(Depth(n) - 1) : Power[e] < n
<1>. DEFINE Large == {d \in 0..n : Power[d] >= n}
            Least1(d) == Power[d] >= n /\ \A e \in 0..(d - 1) : Power[e] < n
<1>1. n \in Large
  BY PowerGrows, PowerDef
<1>2. PICK d \in Large : \A e \in Large : d <= e
  <2>1. Large \subseteq Nat /\ Large # {}
    BY <1>1
  <2>. HIDE DEF Large
  <2>. QED  BY <2>1, Least
<1>3. Least1(d)
  BY <1>2, PowerDef
<1>4. Depth(n) \in 0..n /\ Least1(Depth(n))
  BY <1>2, <1>3 DEF Depth
<1>. QED  BY <1>4, PowerDef

LEMMA DepthOfPower ==
  ASSUME NEW d \in Nat
  PROVE  Depth(Power[d]) = d
<1>1. Power[d] \in Nat \ {0}
  BY PowerDef
<1>2. PICK p \in Nat : p = Depth(Power[d])
  BY <1>1, DepthDef
<1>3. Power[d] <= Power[p] /\ \A e \in 0..(p - 1) : Power[e] < Power[d]
  BY <1>1, <1>2, DepthDef
<1>4. ~(p < d)
  BY <1>1, <1>3, PowerGrows, PowerDef
<1>5. ~(d < p)
  BY <1>1, <1>3
<1>. QED  BY <1>2, <1>4, <1>5

LEMMA ShiftedDef ==
  ASSUME NEW n \in Nat
  PROVE  /\ Shifted(n) \in [Nat -> Nat] /\ Shifted(n)[0] = n
         /\ \A k \in Nat : Shifted(n)[k + 1] = Shifted(n)[k] \div 2
<1>. DEFINE step == [m \in Nat |-> m \div 2]
<1>1. PICK f \in [Nat -> Nat] : f[0] = n /\ \A k \in Nat : f[k + 1] = step[f[k]]
  <2>1. step \in [Nat -> Nat]
    OBVIOUS
  <2>. HIDE DEF step
  <2>. QED  BY <2>1, NatIterates
<1>2. f = [k \in Nat |-> IF k = 0 THEN n ELSE f[k - 1] \div 2]
  <2>1. \A k \in Nat \ {0} : f[k] = f[k - 1] \div 2
    <3>1. ASSUME NEW k \in Nat \ {0}
          PROVE  f[(k - 1) + 1] = step[f[k - 1]] /\ k - 1 \in Nat /\ (k - 1) + 1 = k
      BY <1>1
    <3>. QED  BY <3>1
  <2>. QED  BY <1>1, <2>1
<1>3. Shifted(n) = [k \in Nat |-> IF k = 0 THEN n ELSE Shifted(n)[k - 1] \div 2]
  BY <1>2 DEF Shifted
<1>. DEFINE g == Shifted(n)
<1>4. g[0] = n /\ \A k \in Nat : g[k + 1] = g[k] \div 2
  <2>. HIDE DEF g
  <2>. SUFFICES ASSUME g = [k \in Nat |-> IF k = 0 THEN n ELSE g[k - 1] \div 2]
                PROVE  g[0] = n /\ \A k \in Nat : g[k + 1] = g[k] \div 2
    BY <1>3 DEF g
  <2>. QED  OBVIOUS
<1>5. \A k \in Nat : g[k] \in Nat
  <2>. HIDE DEF g
  <2>. DEFINE Good == {k \in Nat : g[k] \in Nat}
  <2>1. 0 \in Good /\ \A k \in Nat : k \in Good => k + 1 \in Good
    BY <1>4
  <2>2. Nat \subseteq Good
    <3>. HIDE DEF Good
    <3>. QED  BY <2>1, Induction
  <2>. QED  BY <2>2
<1>6. g \in [Nat -> Nat]
  <2>. HIDE DEF g
  <2>. SUFFICES ASSUME g = [k \in Nat |-> IF k = 0 THEN n ELSE g[k - 1] \div 2]
                PROVE  g \in [Nat -> Nat]
    BY <1>3 DEF g
  <2>. QED  BY <1>5
<1>. QED  BY <1>4, <1>6
------------------------------------------------------------------------------
\* nodes is a tree that was built over the leaves, from node low upwards.
IsBuilt(nodes, leaves, cap, low) ==
  nodes = [k \in low..(2 * cap - 1) |->
             IF k < cap THEN HashPair(nodes[2 * k], nodes[2 * k + 1]) ELSE Leaf(leaves, k - cap)]

LEMMA TreeDef ==
  ASSUME NEW leaves, NEW cap \in Nat \ {0}
  PROVE  IsBuilt(BuiltTree(leaves, cap), leaves, cap, 1)
<1>. DEFINE Possible == {n \in Nat : n < cap => \E f : IsBuilt(f, leaves, cap, cap - n)}
<1>1. 0 \in Possible
  <2>. DEFINE f == [k \in cap..(2 * cap - 1) |-> Leaf(leaves, k - cap)]
  <2>1. IsBuilt(f, leaves, cap, cap)
    BY DEF IsBuilt
  <2>. QED  BY <2>1
<1>2. ASSUME NEW n \in Nat, n \in Possible
      PROVE  n + 1 \in Possible
  <2>. SUFFICES ASSUME n + 1 < cap
                PROVE  \E f : IsBuilt(f, leaves, cap, cap - (n + 1))
    OBVIOUS
  <2>1. PICK f : IsBuilt(f, leaves, cap, cap - n)
    BY <1>2
  <2>. DEFINE m == cap - (n + 1)
              g == [k \in m..(2 * cap - 1) |->
                      IF k = m THEN HashPair(f[2 * m], f[2 * m + 1]) ELSE f[k]]
  <2>2. \A k \in m..(2 * cap - 1) :
          g[k] = IF k < cap THEN HashPair(g[2 * k], g[2 * k + 1]) ELSE Leaf(leaves, k - cap)
    <3>. SUFFICES ASSUME NEW k \in m..(2 * cap - 1)
                  PROVE  g[k] = IF k < cap THEN HashPair(g[2 * k], g[2 * k + 1])
                                           ELSE Leaf(leaves, k - cap)
      OBVIOUS
    <3>1. k # m => f[k] = IF k < cap THEN HashPair(f[2 * k], f[2 * k + 1])
                                     ELSE Leaf(leaves, k - cap)
      BY <2>1 DEF IsBuilt
    <3>2. k < cap => /\ 2 * k \in m..(2 * cap - 1) /\ 2 * k # m
                     /\ 2 * k + 1 \in m..(2 * cap - 1) /\ 2 * k + 1 # m
      OBVIOUS
    <3>3. k < cap => g[2 * k] = f[2 * k] /\ g[2 * k + 1] = f[2 * k + 1]
      BY <3>2
    <3>4. m < cap
      OBVIOUS
    <3>. QED  BY <3>1, <3>3, <3>4
  <2>3. IsBuilt(g, leaves, cap, m)
    <3>1. g = [k \in m..(2 * cap - 1) |-> g[k]]
      OBVIOUS
    <3>. HIDE DEF g, m
    <3>. QED  BY <2>2, <3>1 DEF IsBuilt
  <2>. QED  BY <2>3
<1>3. Nat \subseteq Possible
  <2>. HIDE DEF Possible
  <2>. QED  BY <1>1, <1>2, Induction
<1>4. \E f : IsBuilt(f, leaves, cap, 1)
  <2>1. cap - 1 \in Possible /\ cap - (cap - 1) = 1
    BY <1>3
  <2>. QED  BY <2>1
<1>. QED  BY <1>4 DEF IsBuilt, BuiltTree

\* build computes the only such tree.
LEMMA TreeUnique ==
  ASSUME NEW leaves, NEW cap \in Nat \ {0}, NEW f, NEW g,
         IsBuilt(f, leaves, cap, 1), IsBuilt(g, leaves, cap, 1)
  PROVE  f = g
<1>. DEFINE Same == {n \in Nat : n < cap => \A k \in (cap - n)..(2 * cap - 1) : f[k] = g[k]}
<1>1. 0 \in Same
  BY DEF IsBuilt
<1>2. ASSUME NEW n \in Nat, n \in Same
      PROVE  n + 1 \in Same
  <2>. SUFFICES ASSUME n + 1 < cap, NEW k \in (cap - (n + 1))..(2 * cap - 1)
                PROVE  f[k] = g[k]
    OBVIOUS
  <2>1. CASE k # cap - (n + 1)
    BY <1>2, <2>1
  <2>2. CASE k = cap - (n + 1)
    <3>1. f[2 * k] = g[2 * k] /\ f[2 * k + 1] = g[2 * k + 1]
      BY <1>2, <2>2
    <3>2. k \in 1..(2 * cap - 1) /\ k < cap
      BY <2>2
    <3>. QED  BY <3>1, <3>2 DEF IsBuilt
  <2>. QED  BY <2>1, <2>2
<1>3. Nat \subseteq Same
  <2>. HIDE DEF Same
  <2>. QED  BY <1>1, <1>2, Induction
<1>4. \A k \in 1..(2 * cap - 1) : f[k] = g[k]
  <2>1. cap - 1 \in Same /\ cap - (cap - 1) = 1
    BY <1>3
  <2>. QED  BY <2>1
<1>. QED  BY <1>4 DEF IsBuilt

LEMMA FoldedDef ==
  ASSUME NEW leaf_hash, NEW path, NEW len \in Nat, NEW leaf_idx
  PROVE  LET f == Folded(leaf_hash, path, len, leaf_idx)
         IN  /\ f[0] = leaf_hash
             /\ \A i \in 0..(len - 1) : f[i + 1] = Fold(Shifted(leaf_idx)[i], f[i], path[i])
<1>. DEFINE Runs(n, f) == f = [i \in 0..n |-> IF i = 0 THEN leaf_hash
                                 ELSE Fold(Shifted(leaf_idx)[i - 1], f[i - 1], path[i - 1])]
            Possible == {n \in Nat : \E f : Runs(n, f)}
<1>1. 0 \in Possible
  <2>1. Runs(0, [i \in 0..0 |-> leaf_hash])
    OBVIOUS
  <2>. QED  BY <2>1
<1>2. ASSUME NEW n \in Nat, n \in Possible
      PROVE  n + 1 \in Possible
  <2>1. PICK f : Runs(n, f)
    BY <1>2
  <2>. DEFINE g == [i \in 0..(n + 1) |->
                      IF i = n + 1 THEN Fold(Shifted(leaf_idx)[n], f[n], path[n]) ELSE f[i]]
  <2>2. \A i \in 0..(n + 1) : g[i] = IF i = 0 THEN leaf_hash
                                 ELSE Fold(Shifted(leaf_idx)[i - 1], g[i - 1], path[i - 1])
    <3>. SUFFICES ASSUME NEW i \in 0..(n + 1)
                  PROVE  g[i] = IF i = 0 THEN leaf_hash
                                ELSE Fold(Shifted(leaf_idx)[i - 1], g[i - 1], path[i - 1])
      OBVIOUS
    <3>1. i # n + 1 => f[i] = IF i = 0 THEN leaf_hash
                              ELSE Fold(Shifted(leaf_idx)[i - 1], f[i - 1], path[i - 1])
      BY <2>1
    <3>2. i # 0 => i - 1 \in 0..(n + 1) /\ i - 1 # n + 1 /\ (i = n + 1 => i - 1 = n)
      OBVIOUS
    <3>3. i # 0 => g[i - 1] = f[i - 1]
      BY <3>2
    <3>. QED  BY <3>1, <3>2, <3>3
  <2>3. Runs(n + 1, g)
    <3>1. g = [i \in 0..(n + 1) |-> g[i]]
      OBVIOUS
    <3>. HIDE DEF g
    <3>. QED  BY <2>2, <3>1
  <2>. HIDE DEF Runs, g
  <2>. QED  BY <2>3
<1>3. Nat \subseteq Possible
  <2>. HIDE DEF Possible
  <2>. QED  BY <1>1, <1>2, Induction
<1>4. \E f : Runs(len, f)
  BY <1>3
<1>5. Runs(len, Folded(leaf_hash, path, len, leaf_idx))
  BY <1>4 DEF Folded
<1>. QED  BY <1>5
------------------------------------------------------------------------------
\* On its way up from slot idx the walk is at node Power[d - i] + (idx >> i): it
\* turns as the bits of the index say, and meets the root after d levels.
LEMMA WalkDef ==
  ASSUME NEW d \in Nat, NEW idx \in 0..(Power[d] - 1)
  PROVE  \A i \in 0..d :
           LET node == Shifted(Power[d] + idx)[i]
               bits == Shifted(idx)[i]
           IN  bits \in 0..(Power[d - i] - 1) /\ node = Power[d - i] + bits
<1>. DEFINE node(i) == Shifted(Power[d] + idx)[i]
            bits(i) == Shifted(idx)[i]
            Level(i) == bits(i) \in 0..(Power[d - i] - 1) /\ node(i) = Power[d - i] + bits(i)
            Good == {i \in Nat : i <= d => Level(i)}
<1>1. Power[d] \in Nat \ {0} /\ idx \in Nat /\ Power[d] + idx \in Nat
  BY PowerDef
<1>2. node(0) = Power[d] + idx /\ bits(0) = idx
  BY <1>1, ShiftedDef
<1>3. \A i \in Nat : node(i + 1) = node(i) \div 2 /\ bits(i + 1) = bits(i) \div 2
  BY <1>1, ShiftedDef
<1>. HIDE DEF node, bits
<1>4. 0 \in Good
  BY <1>1, <1>2
<1>5. ASSUME NEW i \in Nat, i \in Good
      PROVE  i + 1 \in Good
  <2>. SUFFICES ASSUME i + 1 <= d
                PROVE  Level(i + 1)
    OBVIOUS
  <2>1. PICK p \in Nat \ {0} : p = Power[d - (i + 1)] /\ Power[d - i] = 2 * p
    <3>1. d - (i + 1) \in Nat /\ (d - (i + 1)) + 1 = d - i
      OBVIOUS
    <3>. QED  BY <3>1, PowerDef
  <2>2. bits(i) \in 0..(2 * p - 1) /\ node(i) = 2 * p + bits(i)
    BY <1>5, <2>1
  <2>3. bits(i) \div 2 \in 0..(p - 1) /\ (2 * p + bits(i)) \div 2 = p + bits(i) \div 2
    BY <2>2
  <2>. QED  BY <1>3, <2>1, <2>2, <2>3
<1>6. Nat \subseteq Good
  <2>. HIDE DEF Good
  <2>. QED  BY <1>4, <1>5, Induction
<1>7. \A i \in 0..d : Level(i)
  BY <1>6
<1>. QED  BY <1>7 DEF node, bits

\* The two children of a node: the one the walk comes from and its sibling.
LEMMA FoldMeets ==
  ASSUME NEW tree, NEW n \in Nat, NEW current, NEW bits \in Nat, n % 2 = bits % 2
  PROVE  Fold(bits, current, tree[Sibling(n)])
           = HashPair(tree[2 * (n \div 2)], tree[2 * (n \div 2) + 1]) <=> current = tree[n]
<1>1. CASE n % 2 = 0
  <2>1. 2 * (n \div 2) = n /\ 2 * (n \div 2) + 1 = Sibling(n)
    BY <1>1 DEF Sibling
  <2>2. Fold(bits, current, tree[Sibling(n)]) = HashPair(current, tree[Sibling(n)])
    BY <1>1 DEF Fold
  <2>. QED  BY <2>1, <2>2 DEF HashPair, Hash
<1>2. CASE n % 2 # 0
  <2>1. 2 * (n \div 2) = Sibling(n) /\ 2 * (n \div 2) + 1 = n
    BY <1>2 DEF Sibling
  <2>2. bits % 2 = 1
    BY <1>2
  <2>3. Fold(bits, current, tree[Sibling(n)]) = HashPair(tree[Sibling(n)], current)
    BY <2>2 DEF Fold
  <2>. QED  BY <2>1, <2>3 DEF HashPair, Hash
<1>. QED  BY <1>1, <1>2

\* The path of slot idx of a built tree verifies for the leaf in it and for no other.
THEOREM PathIsExact ==
  ASSUME NEW d \in Nat, NEW leaves, NEW idx \in 0..(Power[d] - 1), NEW leaf_hash
  PROVE  LET tree == BuiltTree(leaves, Power[d])
         IN  VerifyPath(leaf_hash, ProofPath(tree, Power[d], idx), d, idx, tree[1])
               <=> leaf_hash = Leaf(leaves, idx)
<1>. DEFINE cap == Power[d]
            tree == BuiltTree(leaves, cap)
            node(i) == Shifted(cap + idx)[i]
            bits(i) == Shifted(idx)[i]
            path == ProofPath(tree, cap, idx)
            f == Folded(leaf_hash, path, d, idx)
            Good == {i \in Nat : i <= d => (f[i] = tree[node(i)] <=> leaf_hash = Leaf(leaves, idx))}
<1>1. cap \in Nat \ {0}
  BY PowerDef
<1>2. \A i \in 0..d : bits(i) \in 0..(Power[d - i] - 1) /\ node(i) = Power[d - i] + bits(i)
  BY WalkDef
<1>3. \A k \in 1..(2 * cap - 1) :
        tree[k] = IF k < cap THEN HashPair(tree[2 * k], tree[2 * k + 1]) ELSE Leaf(leaves, k - cap)
  <2>1. IsBuilt(tree, leaves, cap, 1)
    BY <1>1, TreeDef
  <2>. HIDE DEF tree, cap
  <2>. QED  BY <2>1 DEF IsBuilt
<1>4. f[0] = leaf_hash /\ \A i \in 0..(d - 1) : f[i + 1] = Fold(bits(i), f[i], path[i])
  <2>. HIDE DEF path
  <2>. QED  BY FoldedDef
<1>5. \A i \in 0..(d - 1) : path[i] = tree[Sibling(node(i))]
  BY DepthOfPower DEF ProofPath
<1>6. node(0) = cap + idx /\ \A i \in Nat : node(i + 1) = node(i) \div 2
  <2>1. cap + idx \in Nat
    BY <1>1
  <2>. HIDE DEF cap
  <2>. QED  BY <2>1, ShiftedDef
<1>7. VerifyPath(leaf_hash, path, d, idx, tree[1]) <=> f[d] = tree[1]
  BY DEF VerifyPath
<1>. HIDE DEF cap, tree, node, bits, path, f
<1>8. 0 \in Good
  <2>1. tree[cap + idx] = Leaf(leaves, idx)
    BY <1>1, <1>3 DEF cap
  <2>. QED  BY <1>4, <1>6, <2>1
<1>9. ASSUME NEW i \in Nat, i \in Good
      PROVE  i + 1 \in Good
  <2>. SUFFICES ASSUME i + 1 <= d
                PROVE  f[i + 1] = tree[node(i + 1)] <=> leaf_hash = Leaf(leaves, idx)
    OBVIOUS
  <2>1. PICK p \in Nat \ {0} : p = Power[d - (i + 1)] /\ Power[d - i] = 2 * p
    <3>1. d - (i + 1) \in Nat /\ (d - (i + 1)) + 1 = d - i
      OBVIOUS
    <3>. QED  BY <3>1, PowerDef
  <2>2. 2 * p <= cap
    <3>1. d - i \in Nat /\ (i = 0 \/ d - i < d)
      OBVIOUS
    <3>2. Power[d - i] <= Power[d]
      <4>1. Power[d] \in Nat /\ Power[d - i] \in Nat
        BY <3>1, PowerDef
      <4>2. CASE i = 0
        BY <4>1, <4>2
      <4>3. CASE d - i < d
        <5>1. Power[d - i] < Power[d]
          BY <3>1, <4>3, PowerGrows
        <5>. QED  BY <4>1, <5>1
      <4>. QED  BY <3>1, <4>2, <4>3
    <3>. QED  BY <2>1, <3>2 DEF cap
  <2>3. i \in 0..d /\ i \in 0..(d - 1) /\ i + 1 \in 0..d
    OBVIOUS
  <2>4. bits(i) \in 0..(2 * p - 1) /\ node(i) = 2 * p + bits(i)
    BY <1>2, <2>1, <2>3
  <2>5. node(i) % 2 = bits(i) % 2 /\ node(i) \in Nat /\ bits(i) \in Nat
    BY <2>4
  <2>6. node(i) \div 2 \in 1..(2 * cap - 1) /\ node(i) \div 2 < cap
    BY <1>1, <2>2, <2>4
  <2>7. tree[node(i + 1)] = HashPair(tree[2 * (node(i) \div 2)], tree[2 * (node(i) \div 2) + 1])
    BY <1>3, <1>6, <2>6
  <2>8. f[i + 1] = Fold(bits(i), f[i], tree[Sibling(node(i))])
    BY <1>4, <1>5, <2>3
  <2>9. f[i + 1] = tree[node(i + 1)] <=> f[i] = tree[node(i)]
    <3>. DEFINE folded == Fold(bits(i), f[i], tree[Sibling(node(i))])
                parent == HashPair(tree[2 * (node(i) \div 2)], tree[2 * (node(i) \div 2) + 1])
                above == tree[node(i + 1)]
                next == f[i + 1]
                below == f[i]
                under == tree[node(i)]
    <3>1. folded = parent <=> below = under
      <4>1. PICK v \in Nat, b \in Nat : v = node(i) /\ b = bits(i) /\ v % 2 = b % 2
        BY <2>5
      <4>2. \A current : Fold(b, current, tree[Sibling(v)])
                           = HashPair(tree[2 * (v \div 2)], tree[2 * (v \div 2) + 1])
                         <=> current = tree[v]
        <5>. TAKE current
        <5>1. v % 2 = b % 2
          BY <4>1
        <5>. HIDE DEF tree
        <5>. QED  BY <5>1, FoldMeets
      <4>. QED  BY <4>1, <4>2
    <3>2. above = parent /\ next = folded
      BY <2>7, <2>8
    <3>. HIDE DEF folded, parent, above, next, below, under
    <3>3. next = above <=> below = under
      BY <3>1, <3>2
    <3>. QED  BY <3>3, Zenon DEF above, next, below, under
  <2>. QED  BY <1>9, <2>3, <2>9
<1>10. f[d] = tree[node(d)] <=> leaf_hash = Leaf(leaves, idx)
  <2>1. Nat \subseteq Good
    <3>. HIDE DEF Good
    <3>. QED  BY <1>8, <1>9, Induction
  <2>. QED  BY <2>1
<1>11. node(d) = 1
  BY <1>2, PowerDef
<1>. QED  BY <1>7, <1>10, <1>11 DEF tree, path, cap
\* The ideal hash tells two buffers apart.
LEMMA HashInjective ==
  \A a, b, c, d : HashPair(a, b) = HashPair(c, d) <=> a = c /\ b = d
BY DEF HashPair, Hash

\* The loop turns as the walk from slot idx modulo 2^d does: it reads no more than d bits.
LEMMA WalkBits ==
  ASSUME NEW d \in Nat, NEW idx \in Nat
  PROVE  \A i \in 0..(d - 1) :
           Shifted(idx)[i] % 2 = Shifted(Power[d] + (idx % Power[d]))[i] % 2
<1>. DEFINE c == Power[d]
            e == idx % c
            q == idx \div c
            bits(i) == Shifted(idx)[i]
            low(i) == Shifted(e)[i]
            Good == {i \in Nat : i <= d => bits(i) = q * Power[d - i] + low(i)}
<1>1. /\ c \in Nat \ {0} /\ e \in 0..(c - 1) /\ q \in Nat
      /\ idx = q * c + e
  <2>1. c \in Nat \ {0}
    BY PowerDef
  <2>. HIDE DEF c
  <2>. QED  BY <2>1
<1>2. /\ bits(0) = idx /\ low(0) = e
      /\ \A i \in Nat : /\ bits(i) \in Nat /\ bits(i + 1) = bits(i) \div 2
                       /\ low(i) \in Nat /\ low(i + 1) = low(i) \div 2
  <2>1. e \in Nat
    BY <1>1
  <2>. HIDE DEF e
  <2>. QED  BY <2>1, ShiftedDef
<1>. HIDE DEF e, q, bits, low
<1>3. ASSUME NEW i \in Nat, i < d
      PROVE  \E p \in Nat : q * Power[d - i] = 2 * p /\ q * Power[d - (i + 1)] = p
  <2>1. d - (i + 1) \in Nat /\ (d - (i + 1)) + 1 = d - i
    BY <1>3
  <2>2. PICK h \in Nat : h = Power[d - (i + 1)] /\ Power[d - i] = 2 * h
    BY <2>1, PowerDef
  <2>3. q * h \in Nat /\ q * (2 * h) = 2 * (q * h)
    BY <1>1
  <2>. QED  BY <2>2, <2>3
<1>4. 0 \in Good
  BY <1>1, <1>2 DEF c
<1>5. ASSUME NEW i \in Nat, i \in Good
      PROVE  i + 1 \in Good
  <2>. SUFFICES ASSUME i + 1 <= d
                PROVE  bits(i + 1) = q * Power[d - (i + 1)] + low(i + 1)
    OBVIOUS
  <2>1. PICK p \in Nat : q * Power[d - i] = 2 * p /\ q * Power[d - (i + 1)] = p
    BY <1>3
  <2>2. PICK b \in Nat : b = low(i)
    BY <1>2
  <2>3. bits(i) = 2 * p + b
    BY <1>5, <2>1, <2>2
  <2>4. (2 * p + b) \div 2 = p + b \div 2
    OBVIOUS
  <2>5. bits(i + 1) = p + low(i + 1)
    BY <1>2, <2>2, <2>3, <2>4
  <2>. QED  BY <2>1, <2>5
<1>6. Nat \subseteq Good
  <2>. HIDE DEF Good
  <2>. QED  BY <1>4, <1>5, Induction
<1>7. ASSUME NEW i \in 0..(d - 1)
      PROVE  bits(i) % 2 = Shifted(c + e)[i] % 2
  <2>1. PICK p \in Nat : q * Power[d - i] = 2 * p
    BY <1>3
  <2>2. bits(i) = 2 * p + low(i)
    BY <1>6, <2>1
  <2>3. PICK h \in Nat : Power[d - i] = 2 * h
    <3>1. d - (i + 1) \in Nat /\ (d - (i + 1)) + 1 = d - i
      OBVIOUS
    <3>. QED  BY <3>1, PowerDef
  <2>4. Shifted(c + e)[i] = 2 * h + low(i)
    BY <1>1, <2>3, WalkDef DEF c, low
  <2>. QED  BY <1>2, <2>2, <2>4
<1>. QED  BY <1>7 DEF bits, c, e

\* What a path proves, whatever its elements and its length: if it leads from leaf_hash to
\* the root of a tree whose inner nodes are hashes of their children, every digest on the
\* way is that of the node it claims to be, as far as the tree reaches.  The nodes need
\* not be a power of two, only closed under halving.
THEOREM PathBinds ==
  ASSUME NEW cap \in Nat \ {0}, NEW nodes, DOMAIN nodes = 1..(2 * cap - 1),
         \A k \in DOMAIN nodes :
           2 * k \in DOMAIN nodes => nodes[k] = HashPair(nodes[2 * k], nodes[2 * k + 1]),
         NEW leaf_hash, NEW path, NEW len \in Nat, NEW leaf_idx \in Nat,
         VerifyPath(leaf_hash, path, len, leaf_idx, nodes[1])
  PROVE  Binds(nodes, leaf_hash, path, len, leaf_idx)
<1>. DEFINE c == Power[len]
            node(i) == Shifted(c + (leaf_idx % c))[i]
            bits(i) == Shifted(leaf_idx)[i]
            f == Folded(leaf_hash, path, len, leaf_idx)
            Bound(i) == node(i) \in 1..(2 * cap - 1) => f[i] = nodes[node(i)]
            Good == {j \in Nat : j <= len => Bound(len - j)}
<1>1. c \in Nat \ {0} /\ leaf_idx % c \in 0..(c - 1)
  <2>1. c \in Nat \ {0}
    BY PowerDef
  <2>. HIDE DEF c
  <2>. QED  BY <2>1
<1>2. \A i \in 0..len : \E b \in 0..(Power[len - i] - 1) : node(i) = Power[len - i] + b
  BY <1>1, WalkDef
<1>3. f[len] = nodes[1] /\ node(len) = 1
  <2>1. len \in 0..len /\ Power[len - len] = 1
    BY PowerDef
  <2>. QED  BY <1>2, <2>1 DEF VerifyPath
<1>4. \A i \in 0..(len - 1) : f[i + 1] = Fold(bits(i), f[i], path[i]) /\ bits(i) % 2 = node(i) % 2
  BY FoldedDef, WalkBits
<1>5. \A i \in Nat : node(i) \in Nat /\ bits(i) \in Nat /\ node(i + 1) = node(i) \div 2
  <2>1. c + (leaf_idx % c) \in Nat
    BY <1>1
  <2>. HIDE DEF c
  <2>. QED  BY <2>1, ShiftedDef
<1>. HIDE DEF node, bits, f
<1>6. 0 \in Good
  BY <1>3
<1>7. ASSUME NEW j \in Nat, j \in Good
      PROVE  j + 1 \in Good
  <2>. SUFFICES ASSUME j + 1 <= len, node(len - (j + 1)) \in 1..(2 * cap - 1)
                PROVE  f[len - (j + 1)] = nodes[node(len - (j + 1))]
    OBVIOUS
  <2>1. PICK i \in 0..(len - 1) : i = len - (j + 1) /\ i + 1 = len - j
    OBVIOUS
  <2>2. Bound(i + 1)
    BY <1>7, <2>1
  <2>3. PICK n \in Nat : n = node(i) /\ n \in 1..(2 * cap - 1) /\ n >= 2 /\ node(i + 1) = n \div 2
    <3>1. len - (i + 1) \in Nat /\ (len - (i + 1)) + 1 = len - i
      OBVIOUS
    <3>2. PICK h \in Nat \ {0} : Power[len - i] = 2 * h
      BY <3>1, PowerDef
    <3>3. PICK b \in 0..(Power[len - i] - 1) : node(i) = Power[len - i] + b
      BY <1>2
    <3>. QED  BY <1>5, <2>1, <3>2, <3>3
  <2>4. /\ n \div 2 \in DOMAIN nodes /\ 2 * (n \div 2) \in DOMAIN nodes
        /\ n \div 2 \in 1..(2 * cap - 1)
    BY <2>3
  <2>5. Fold(bits(i), f[i], path[i]) = HashPair(nodes[2 * (n \div 2)], nodes[2 * (n \div 2) + 1])
    BY <1>4, <2>2, <2>3, <2>4
  <2>6. PICK b \in Nat : b = bits(i) /\ b % 2 = n % 2
    <3>1. bits(i) \in Nat
      <4>1. i \in Nat
        OBVIOUS
      <4>. QED  BY <1>5, <4>1
    <3>2. bits(i) % 2 = node(i) % 2
      BY <1>4
    <3>. QED  BY <2>3, <3>1, <3>2
  <2>7. CASE n % 2 = 0
    <3>1. 2 * (n \div 2) = n /\ Fold(b, f[i], path[i]) = HashPair(f[i], path[i])
      BY <2>6, <2>7 DEF Fold
    <3>2. HashPair(f[i], path[i]) = HashPair(nodes[n], nodes[2 * (n \div 2) + 1])
      BY <2>5, <2>6, <3>1
    <3>3. f[i] = nodes[n]
      BY <3>2, HashInjective
    <3>. QED  BY <2>1, <2>3, <3>3
  <2>8. CASE n % 2 = 1
    <3>1. 2 * (n \div 2) + 1 = n /\ Fold(b, f[i], path[i]) = HashPair(path[i], f[i])
      BY <2>6, <2>8 DEF Fold
    <3>2. HashPair(path[i], f[i]) = HashPair(nodes[2 * (n \div 2)], nodes[n])
      BY <2>5, <2>6, <3>1
    <3>3. f[i] = nodes[n]
      BY <3>2, HashInjective
    <3>. QED  BY <2>1, <2>3, <3>3
  <2>. QED  BY <2>7, <2>8
<1>8. \A i \in 0..len : Bound(i)
  <2>1. Nat \subseteq Good
    <3>. HIDE DEF Good
    <3>. QED  BY <1>6, <1>7, Induction
  <2>2. ASSUME NEW i \in 0..len
        PROVE  Bound(i)
    <3>1. len - i \in Nat /\ len - i <= len /\ len - (len - i) = i
      OBVIOUS
    <3>2. len - i \in Good
      BY <2>1, <3>1
    <3>. HIDE DEF Bound
    <3>. QED  BY <3>1, <3>2
  <2>. QED  BY <2>2
<1>. QED  BY <1>8 DEF Binds, node, f
==============================================================================
