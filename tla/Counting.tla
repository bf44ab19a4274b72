------------------------------ MODULE Counting ------------------------------
(***************************************************************************)
(* Facts about finite sets that several components need: how many elements *)
(* a set has that is cut into parts, without a sum over the parts, and     *)
(* that the elements of a set can be listed in the order of their numbers. *)
(***************************************************************************)
EXTENDS Integers, FiniteSets, SequencesExt, FiniteSetTheorems, FunctionTheorems, TLAPS

(* part cuts the finite set S by the owners of its elements; Pairs holds     *)
(* every owner with the numbers up to the size of its part.                *)
CutInParts(S, M, Owner, part, size, Pairs) ==
    /\ IsFiniteSet(S)
    /\ Owner \in [S -> M]
    /\ \A m \in M : \A x : x \in part[m] <=> x \in S /\ Owner[x] = m
    /\ \A m \in M : size[m] = Cardinality(part[m])
    /\ \A q : q \in Pairs <=> \E m \in M : q \in {m} \X (1 .. size[m])

(* The elements of a finite set, counted part by part. *)
LEMMA CountedByParts ==
    ASSUME NEW S, NEW M, NEW Owner, NEW part, NEW size, NEW Pairs,
           CutInParts(S, M, Owner, part, size, Pairs)
    PROVE  Cardinality(S) = Cardinality(Pairs)
<1> USE DEF CutInParts
<1> DEFINE Part(m) == {x \in S : Owner[x] = m}
           nth == [m \in M |-> CHOOSE f : f \in Bijection(1 .. size[m], Part(m))]
           element == [q \in Pairs |-> nth[q[1]][q[2]]]
<1>1. ASSUME NEW m \in M PROVE nth[m] \in Bijection(1 .. size[m], Part(m))
  <2>1. IsFiniteSet(Part(m))
    BY FS_Subset
  <2>2. size[m] = Cardinality(Part(m))
    <3>1. part[m] = Part(m)
      OBVIOUS
    <3> QED
      BY <3>1
  <2>3. ExistsBijection(1 .. size[m], Part(m))
    <3> HIDE DEF Part
    <3> QED
      BY <2>1, <2>2, FS_CardinalityType
  <2>4. \E f : f \in Bijection(1 .. size[m], Part(m))
    BY <2>3 DEF ExistsBijection
  <2> QED
    BY <2>4
<1> HIDE DEF nth
<1>2. ASSUME NEW m \in M
      PROVE  /\ nth[m] \in [1 .. size[m] -> Part(m)]
             /\ \A i, j \in 1 .. size[m] : nth[m][i] = nth[m][j] => i = j
             /\ \A x \in Part(m) : \E i \in 1 .. size[m] : nth[m][i] = x
  <2> HIDE DEF Part
  <2> QED
    BY <1>1 DEF Bijection, Injection, IsInjective, Surjection
<1>3. ASSUME NEW q \in Pairs
      PROVE  /\ q = <<q[1], q[2]>> /\ q[1] \in M /\ q[2] \in 1 .. size[q[1]]
             /\ element[q] \in S /\ Owner[element[q]] = q[1]
  <2>1. PICK m \in M : q \in {m} \X (1 .. size[m])
    BY <1>3
  <2>2. q = <<q[1], q[2]>> /\ q[1] = m /\ q[2] \in 1 .. size[m]
    BY <2>1
  <2>3. nth[m][q[2]] \in Part(m)
    <3> HIDE DEF Part
    <3>1. nth[m] \in [1 .. size[m] -> Part(m)]
      BY <1>2
    <3>2. q[2] \in 1 .. size[m]
      BY <2>2
    <3> QED
      BY ONLY <3>1, <3>2
  <2> QED
    BY <2>2, <2>3
<1>4. ASSUME NEW p \in Pairs, NEW q \in Pairs, element[p] = element[q]
      PROVE  p = q
  <2>1. p[1] = q[1]
    <3> HIDE DEF element
    <3>1. Owner[element[p]] = p[1] /\ Owner[element[q]] = q[1]
      BY <1>3
    <3> QED
      BY <1>4, <3>1
  <2>2. nth[p[1]][p[2]] = nth[p[1]][q[2]]
    BY <1>4, <2>1
  <2>3. /\ p = <<p[1], p[2]>> /\ q = <<q[1], q[2]>>
        /\ p[1] \in M /\ p[2] \in 1 .. size[p[1]] /\ q[2] \in 1 .. size[q[1]]
    BY <1>3
  <2>4. p[2] = q[2]
    <3> HIDE DEF Part
    <3> QED
      BY <1>2, <2>1, <2>2, <2>3
  <2> QED
    BY <2>1, <2>3, <2>4
<1>5. ASSUME NEW x \in S PROVE \E q \in Pairs : element[q] = x
  <2> DEFINE m == Owner[x]
  <2>1. m \in M /\ x \in Part(m)
    OBVIOUS
  <2>2. PICK i \in 1 .. size[m] : nth[m][i] = x
    BY <1>2, <2>1
  <2>3. <<m, i>> \in Pairs
    <3> HIDE DEF m
    <3> QED
      BY <2>1, <2>2
  <2>4. element[<<m, i>>] = x
    BY <2>2, <2>3
  <2> QED
    BY <2>3, <2>4
<1>6. element \in Bijection(Pairs, S)
  <2>1. element \in [Pairs -> S]
    BY <1>3
  <2> HIDE DEF element
  <2>2. \A p, q \in Pairs : element[p] = element[q] => p = q
    BY <1>4
  <2>3. \A x \in S : \E q \in Pairs : element[q] = x
    BY <1>5
  <2> QED
    BY ONLY <2>1, <2>2, <2>3 DEF Bijection, Injection, IsInjective, Surjection
<1>7. ExistsBijection(S, Pairs)
  <2>1. ExistsBijection(Pairs, S)
    BY <1>6 DEF ExistsBijection
  <2> QED
    BY <2>1, Fun_ExistsBijSymmetric
<1>8. Cardinality(Pairs) = Cardinality(S)
  <2> QED
    BY <1>7, FS_Bijection
<1> QED
  BY <1>8

(* The elements of a finite set can be listed by their numbers, if these   *)
(* are different: the place of an element is how many have lower numbers.  *)
LEMMA InOrder ==
    ASSUME NEW S, IsFiniteSet(S), NEW stamp \in [S -> Nat],
           \A x, y \in S : stamp[x] = stamp[y] => x = y
    PROVE  \E s \in SetToSeqs(S) : \A i, j \in DOMAIN s : i < j => stamp[s[i]] < stamp[s[j]]
<1> DEFINE Before(x) == {y \in S : stamp[y] < stamp[x]}
           size == Cardinality(S)
           rank == [x \in S |-> Cardinality(Before(x))]
           s == [j \in 1 .. size |-> CHOOSE x \in S : rank[x] = j - 1]
<1>1. size \in Nat
  BY FS_CardinalityType
<1>2. ASSUME NEW x \in S PROVE IsFiniteSet(Before(x)) /\ rank[x] \in 0 .. size - 1
  <2>1. IsFiniteSet(S \ {x}) /\ Cardinality(S \ {x}) = size - 1
    BY FS_RemoveElement
  <2>2. Before(x) \subseteq S \ {x}
    OBVIOUS
  <2> HIDE DEF Before
  <2>3. IsFiniteSet(Before(x)) /\ Cardinality(Before(x)) <= size - 1
    BY <2>1, <2>2, FS_Subset
  <2>4. Cardinality(Before(x)) \in Nat
    BY <2>3, FS_CardinalityType
  <2> HIDE DEF size
  <2> QED
    BY <1>1, <2>3, <2>4
<1>3. ASSUME NEW x \in S, NEW y \in S, stamp[x] < stamp[y] PROVE rank[x] < rank[y]
  <2>1. Before(x) \subseteq Before(y) /\ x \in Before(y) /\ x \notin Before(x)
    BY <1>3
  <2>2. IsFiniteSet(Before(y)) /\ rank[x] \in Nat /\ rank[y] \in Nat
    <3> HIDE DEF rank, Before, size
    <3>1. /\ IsFiniteSet(Before(y))
          /\ rank[x] \in 0 .. size - 1 /\ rank[y] \in 0 .. size - 1
      BY <1>2
    <3> QED
      BY <1>1, <3>1
  <2>3. rank[x] = Cardinality(Before(x)) /\ rank[y] = Cardinality(Before(y))
    OBVIOUS
  <2> HIDE DEF Before, rank
  <2>4. Cardinality(Before(x)) <= Cardinality(Before(y)) /\ Cardinality(Before(x)) # Cardinality(Before(y))
    BY <2>1, <2>2, FS_Subset
  <2> QED
    BY <2>2, <2>3, <2>4
<1>4. \A x, y \in S : rank[x] = rank[y] => x = y
  <2> HIDE DEF rank
  <2>1. \A x, y \in S : stamp[x] < stamp[y] \/ stamp[y] < stamp[x] \/ x = y
    OBVIOUS
  <2>2. \A x \in S : ~(rank[x] < rank[x])
    <3> HIDE DEF size, Before
    <3>1. \A x \in S : rank[x] \in 0 .. size - 1
      BY <1>2
    <3> QED
      BY <1>1, <3>1
  <2> QED
    BY <1>3, <2>1, <2>2
<1>5. rank \in Injection(S, 0 .. size - 1)
  <2>1. rank \in [S -> 0 .. size - 1]
    BY <1>2
  <2> HIDE DEF rank
  <2> QED
    BY <1>4, <2>1 DEF Injection, IsInjective
<1>6. IsFiniteSet(0 .. size - 1) /\ Cardinality(0 .. size - 1) = size
  <2> HIDE DEF size
  <2> QED
    BY <1>1, FS_Interval
<1>7. rank \in Surjection(S, 0 .. size - 1)
  <2> HIDE DEF rank
  <2> QED
    BY <1>5, <1>6, FS_Injection
<1>8. ASSUME NEW j \in 1 .. size PROVE s[j] \in S /\ rank[s[j]] = j - 1
  <2>1. j - 1 \in 0 .. size - 1
    <3> HIDE DEF size
    <3> QED
      BY <1>1
  <2> HIDE DEF rank
  <2>2. \E x \in S : rank[x] = j - 1
    BY <1>7, <2>1 DEF Surjection
  <2> QED
    BY <2>2
<1> HIDE DEF rank
<1>9. s \in [1 .. size -> S]
  BY <1>8
<1>10. ASSUME NEW i \in 1 .. size, NEW j \in 1 .. size, i < j PROVE stamp[s[i]] < stamp[s[j]]
  <2>1. s[i] \in S /\ s[j] \in S /\ rank[s[i]] = i - 1 /\ rank[s[j]] = j - 1
    BY <1>8
  <2> HIDE DEF s, size
  <2>2. s[i] # s[j] /\ ~(rank[s[j]] < rank[s[i]])
    BY <1>1, <1>10, <2>1
  <2>3. ~(stamp[s[j]] < stamp[s[i]]) /\ stamp[s[j]] # stamp[s[i]]
    BY <1>3, <2>1, <2>2
  <2> QED
    BY <2>1, <2>3
<1> HIDE DEF s
<1>11. ASSUME NEW i \in 1 .. size, NEW j \in 1 .. size, i # j PROVE s[i] # s[j]
  <2>1. i < j \/ j < i
    BY <1>1, <1>11
  <2>2. stamp[s[i]] < stamp[s[j]] \/ stamp[s[j]] < stamp[s[i]]
    BY <1>10, <2>1
  <2> QED
    BY <1>9, <2>2
<1>12. s \in SetToSeqs(S) /\ DOMAIN s = 1 .. size
  BY <1>9, <1>11 DEF SetToSeqs
<1> QED
  BY <1>10, <1>12
=============================================================================
