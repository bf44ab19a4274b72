-------------------------- MODULE CacheMap_proofs --------------------------
(***************************************************************************)
(* Proofs about the cache for every size, key set and number of insertions.*)
(***************************************************************************)
EXTENDS CacheMapFifo, Counting, FiniteSetTheorems, SequenceTheorems, TLAPS

(* The invariant: types, unique stamps, and a finite map within its bound. *)
CacheInv ==
    /\ CacheTypeOK
    /\ StampsUnique
    /\ IsFiniteSet(DOMAIN map)
    /\ SizeBound

(* prune() removes a key of the map. *)
LEMMA OldestIsKey == Oldest \subseteq DOMAIN map
BY DEF Oldest

(* The domain of the map after an insertion. *)
LEMMA WithDomain ==
    ASSUME NEW kept, NEW k, NEW v
    PROVE  DOMAIN With(kept, k, v) = kept \cup {k}
BY DEF With

(* An insertion leaves the map typed: what is kept keeps its entry. *)
LEMMA WithType ==
    ASSUME CacheTypeOK, NEW kept \in SUBSET DOMAIN map, NEW k \in Key, NEW v \in Value
    PROVE  /\ DOMAIN With(kept, k, v) \subseteq Key
           /\ With(kept, k, v) \in [DOMAIN With(kept, k, v) -> Entry]
BY WithDomain DEF CacheTypeOK, With, Entry

(* The new stamp is larger than every stamp in the map. *)
LEMMA WithStamps ==
    ASSUME CacheTypeOK, StampsUnique, NEW kept \in SUBSET DOMAIN map, NEW k \in Key, NEW v \in Value,
           map' = With(kept, k, v), counter' = counter + 1
    PROVE  StampsUnique'
<1>1. \A j \in DOMAIN map : map[j].inserted \in Nat
  BY DEF CacheTypeOK, Entry
<1>2. DOMAIN map' = kept \cup {k}
  BY WithDomain
<1>3. map'[k].inserted = counter /\ \A j \in kept \ {k} : map'[j] = map[j]
  BY DEF With
<1>4. \A j \in DOMAIN map' : map'[j].inserted < counter'
  BY <1>1, <1>2, <1>3 DEF CacheTypeOK, StampsUnique
<1>5. ASSUME NEW i \in DOMAIN map', NEW j \in DOMAIN map', map'[i].inserted = map'[j].inserted
      PROVE  i = j
  BY <1>1, <1>2, <1>3, <1>5 DEF CacheTypeOK, StampsUnique
<1> QED
  BY <1>4, <1>5 DEF StampsUnique

(* Adding one key to what is left after making room respects the bound. *)
LEMMA WithBound ==
    ASSUME IsFiniteSet(DOMAIN map), NEW kept \in SUBSET DOMAIN map, NEW k, NEW v,
           Cardinality(kept) < MaxSize, map' = With(kept, k, v)
    PROVE  IsFiniteSet(DOMAIN map') /\ SizeBound'
<1>1. DOMAIN map' = kept \cup {k}
  BY WithDomain
<1>2. IsFiniteSet(kept)
  BY FS_Subset
<1>3. IsFiniteSet(kept \cup {k}) /\ Cardinality(kept \cup {k}) \in {Cardinality(kept), Cardinality(kept) + 1}
  BY <1>2, FS_AddElement
<1>4. Cardinality(kept) \in Nat
  BY <1>2, FS_CardinalityType
<1> QED
  BY <1>1, <1>3, <1>4, CacheAssumption DEF SizeBound

(* An empty cache. *)
LEMMA InitEstablishesInv == CacheInit => CacheInv
<1> SUFFICES ASSUME CacheInit PROVE CacheInv
  OBVIOUS
<1>1. DOMAIN map = {} /\ counter = 0
  BY DEF CacheInit
<1>2. map \in [{} -> Entry]
  BY DEF CacheInit
<1>3. Cardinality({}) = 0 /\ IsFiniteSet({})
  BY FS_EmptySet
<1>4. {} \in SUBSET Key
  OBVIOUS
<1> QED
  BY <1>1, <1>2, <1>3, <1>4, CacheAssumption DEF CacheInv, CacheTypeOK, StampsUnique, SizeBound

(* Each insertion keeps the invariant. *)
LEMMA InsertKeepsInv ==
    ASSUME CacheInv, NEW k \in Key, NEW v \in Value, Insert(k, v)
    PROVE  CacheInv'
<1>1. Cardinality(DOMAIN map) \in Nat
  BY FS_CardinalityType DEF CacheInv
<1>2. PICK kept \in SUBSET DOMAIN map :
        map' = With(kept, k, v) /\ Cardinality(kept) < MaxSize
  <2>1. CASE IsFull
    <3>1. PICK o \in Oldest : map' = With(DOMAIN map \ {o}, k, v)
      BY <2>1 DEF Insert
    <3>2. Cardinality(DOMAIN map \ {o}) = Cardinality(DOMAIN map) - 1
      BY OldestIsKey, FS_RemoveElement DEF CacheInv
    <3> QED
      BY <1>1, <3>1, <3>2, CacheAssumption DEF CacheInv, SizeBound
  <2>2. CASE ~IsFull
    BY <1>1, <2>2, CacheAssumption DEF Insert, IsFull
  <2> QED
    BY <2>1, <2>2
<1>3. counter' = counter + 1
  BY DEF Insert
<1>4. CacheTypeOK'
  <2>1. DOMAIN map' \subseteq Key /\ map' \in [DOMAIN map' -> Entry]
    BY <1>2, WithType DEF CacheInv
  <2> QED
    BY <1>3, <2>1 DEF CacheInv, CacheTypeOK
<1>5. StampsUnique'
  BY <1>2, <1>3, WithStamps DEF CacheInv
<1>6. IsFiniteSet(DOMAIN map') /\ SizeBound'
  BY <1>2, WithBound DEF CacheInv
<1> QED
  BY <1>4, <1>5, <1>6 DEF CacheInv

(* Each step of the cache keeps the invariant. *)
LEMMA InvIsInductive == CacheInv /\ [CacheNext]_cacheVars => CacheInv'
<1> SUFFICES ASSUME CacheInv, [CacheNext]_cacheVars PROVE CacheInv'
  OBVIOUS
<1>1. CASE CacheNext
  BY <1>1, InsertKeepsInv DEF CacheNext
<1>2. CASE UNCHANGED cacheVars
  BY <1>2 DEF cacheVars, CacheInv, CacheTypeOK, StampsUnique, SizeBound
<1> QED
  BY <1>1, <1>2

(* The cache holds at most max_size entries, and their stamps tell them    *)
(* apart, after any sequence of insertions and replacements.               *)
THEOREM CacheStaysBounded == CacheSpec => [](SizeBound /\ StampsUnique)
<1>1. CacheInit => CacheInv
  BY InitEstablishesInv
<1>2. CacheInv /\ [CacheNext]_cacheVars => CacheInv'
  BY InvIsInductive
<1>3. CacheInv => SizeBound /\ StampsUnique
  BY DEF CacheInv
<1> QED
  BY <1>1, <1>2, <1>3, PTL DEF CacheSpec

(* What an insertion drops is the oldest entry of a full map, whether the  *)
(* key is new or not (cache_map.rs:38-61).                                 *)
LEMMA InsertDropsOldest ==
    ASSUME CacheInv, NEW k \in Key, NEW v \in Value, Insert(k, v),
           NEW gone \in DOMAIN map \ DOMAIN map'
    PROVE  /\ Cardinality(DOMAIN map) = MaxSize
           /\ \A j \in DOMAIN map \ {gone} : map[gone].inserted < map[j].inserted
<1>1. IsFull
  <2> SUFFICES ASSUME ~IsFull PROVE FALSE
    OBVIOUS
  <2>1. map' = With(DOMAIN map, k, v)
    BY DEF Insert
  <2>2. DOMAIN map' = DOMAIN map \cup {k}
    BY <2>1, WithDomain
  <2> QED
    BY <2>2
<1>2. PICK o \in Oldest : map' = With(DOMAIN map \ {o}, k, v)
  BY <1>1 DEF Insert
<1>3. gone = o
  <2>1. DOMAIN map' = (DOMAIN map \ {o}) \cup {k}
    BY <1>2, WithDomain
  <2> QED
    BY <2>1
<1>4. Cardinality(DOMAIN map) = MaxSize
  <2>1. Cardinality(DOMAIN map) \in Nat
    BY FS_CardinalityType DEF CacheInv
  <2> QED
    BY <1>1, <2>1, CacheAssumption DEF CacheInv, SizeBound, IsFull
<1>5. ASSUME NEW j \in DOMAIN map \ {gone}
      PROVE  map[gone].inserted < map[j].inserted
  <2>1. map[gone].inserted <= map[j].inserted
    BY <1>3 DEF Oldest
  <2>2. map[gone].inserted # map[j].inserted
    BY DEF CacheInv, StampsUnique
  <2>3. map[gone].inserted \in Nat /\ map[j].inserted \in Nat
    BY DEF CacheInv, CacheTypeOK, Entry
  <2> QED
    BY <2>1, <2>2, <2>3
<1> QED
  BY <1>4, <1>5

(* An entry leaves the cache only when the cache is full, and only if it   *)
(* is older than all others, although a replacement may drop it.           *)
THEOREM OnlyTheOldestGoes ==
    CacheSpec => [][\A k \in DOMAIN map \ DOMAIN map' :
                      /\ Cardinality(DOMAIN map) = MaxSize
                      /\ \A j \in DOMAIN map \ {k} : map[k].inserted < map[j].inserted]_cacheVars
<1> DEFINE Drops == \A k \in DOMAIN map \ DOMAIN map' :
                      /\ Cardinality(DOMAIN map) = MaxSize
                      /\ \A j \in DOMAIN map \ {k} : map[k].inserted < map[j].inserted
<1>1. CacheInit => CacheInv
  BY InitEstablishesInv
<1>2. CacheInv /\ [CacheNext]_cacheVars => CacheInv'
  BY InvIsInductive
<1>3. CacheInv /\ [CacheNext]_cacheVars => [Drops]_cacheVars
  <2> SUFFICES ASSUME CacheInv, CacheNext PROVE Drops
    OBVIOUS
  <2>1. PICK k \in Key, v \in Value : Insert(k, v)
    BY DEF CacheNext
  <2> QED
    BY <2>1, InsertDropsOldest
<1> QED
  BY <1>1, <1>2, <1>3, PTL DEF CacheSpec

-----------------------------------------------------------------------------
(***************************************************************************)
(* The cache is a queue.  A queue represents the part K of a map of        *)
(* entries if it holds the keys of K with their values, in the order of    *)
(* their stamps; there is only one such queue.                             *)
(***************************************************************************)
Item == [key : Key, value : Value]

Represents(q, m, K) ==
    /\ q \in Seq(Item)
    /\ \A i \in 1 .. Len(q) : q[i].key \in K /\ q[i].value = m[q[i].key].value
    /\ \A k \in K : \E i \in 1 .. Len(q) : q[i].key = k
    /\ \A i, j \in 1 .. Len(q) : i < j => m[q[i].key].inserted < m[q[j].key].inserted

Stamped(m, K) == \A k \in K : m[k].inserted \in Nat

(* The place of a key is given by the number of older keys. *)
LEMMA PlaceByAge ==
    ASSUME NEW m, NEW K, Stamped(m, K), NEW q, Represents(q, m, K), NEW i \in 1 .. Len(q)
    PROVE  Cardinality({k \in K : m[k].inserted < m[q[i].key].inserted}) = i - 1
<1> DEFINE older == {k \in K : m[k].inserted < m[q[i].key].inserted}
           f == [j \in 1 .. i - 1 |-> q[j].key]
<1>1. Len(q) \in Nat /\ i \in Nat /\ 1 .. i - 1 \subseteq 1 .. Len(q)
  BY LenProperties DEF Represents
<1>2. \A j, n \in 1 .. Len(q) : j < n \/ n < j \/ j = n
  BY <1>1
<1>3. \A j \in 1 .. Len(q) : q[j].key \in K /\ m[q[j].key].inserted \in Nat
  <2>1. \A j \in 1 .. Len(q) : q[j].key \in K
    BY DEF Represents
  <2> QED
    BY <2>1 DEF Stamped
<1>4. \A j, n \in 1 .. Len(q) : q[j].key = q[n].key => j = n
  BY <1>2, <1>3 DEF Represents
<1>5. f \in [1 .. i - 1 -> older]
  <2>1. ASSUME NEW j \in 1 .. i - 1 PROVE q[j].key \in older
    <3>1. j \in 1 .. Len(q) /\ j < i
      BY <1>1
    <3>2. m[q[j].key].inserted < m[q[i].key].inserted
      BY <3>1 DEF Represents
    <3> QED
      BY <1>3, <3>1, <3>2
  <2> QED
    BY <2>1
<1>6. \A j, n \in 1 .. i - 1 : f[j] = f[n] => j = n
  BY <1>1, <1>4
<1>7. ASSUME NEW k \in older PROVE \E j \in 1 .. i - 1 : f[j] = k
  <2>1. PICK j \in 1 .. Len(q) : q[j].key = k
    BY DEF Represents
  <2>2. ~(i < j) /\ i # j
    BY <1>3, <2>1 DEF Represents
  <2>3. j \in 1 .. i - 1
    BY <1>1, <2>2
  <2> QED
    BY <2>1, <2>3
<1>8. f \in Bijection(1 .. i - 1, older)
  <2> HIDE DEF f, older
  <2> QED
    BY <1>5, <1>6, <1>7 DEF Bijection, Injection, IsInjective, Surjection
<1> HIDE DEF f, older
<1>9. IsFiniteSet(1 .. i - 1) /\ Cardinality(1 .. i - 1) = i - 1
  <2>1. i - 1 \in Int /\ i - 1 >= 0
    BY <1>1
  <2>2. /\ IsFiniteSet(1 .. i - 1)
        /\ Cardinality(1 .. i - 1) = IF 1 > i - 1 THEN 0 ELSE (i - 1) - 1 + 1
    BY <2>1, FS_Interval
  <2> QED
    BY <2>1, <2>2
<1>10. ExistsBijection(1 .. i - 1, older)
  BY <1>8 DEF ExistsBijection
<1>11. Cardinality(older) = i - 1
  BY <1>9, <1>10, FS_Bijection
<1> QED
  BY <1>11 DEF older

(* So there is only one queue. *)
LEMMA OneQueue ==
    ASSUME NEW m, NEW K, Stamped(m, K),
           NEW p, Represents(p, m, K), NEW q, Represents(q, m, K)
    PROVE  p = q
<1>1. /\ p \in Seq(Item) /\ q \in Seq(Item)
      /\ Len(p) \in Nat /\ Len(q) \in Nat
      /\ DOMAIN p = 1 .. Len(p) /\ DOMAIN q = 1 .. Len(q)
  BY LenProperties DEF Represents
<1>2. ASSUME NEW i \in 1 .. Len(p), NEW j \in 1 .. Len(q), p[i].key = q[j].key
      PROVE  i = j
  <2> DEFINE older(k) == Cardinality({n \in K : m[n].inserted < m[k].inserted})
  <2>1. older(p[i].key) = i - 1 /\ older(q[j].key) = j - 1
    BY PlaceByAge
  <2> HIDE DEF older
  <2>2. i - 1 = j - 1
    BY <1>2, <2>1
  <2> QED
    BY <1>1, <2>2
<1>3. \A i \in 1 .. Len(p) : i \in 1 .. Len(q) /\ q[i].key = p[i].key
  BY <1>2 DEF Represents
<1>4. \A j \in 1 .. Len(q) : j \in 1 .. Len(p)
  BY <1>2 DEF Represents
<1>5. Len(p) = Len(q)
  <2>1. Len(p) > 0 => Len(p) \in 1 .. Len(p)
    BY <1>1
  <2>2. Len(q) > 0 => Len(q) \in 1 .. Len(q)
    BY <1>1
  <2>3. Len(p) > 0 => Len(p) \in 1 .. Len(q)
    BY <1>3, <2>1
  <2>4. Len(q) > 0 => Len(q) \in 1 .. Len(p)
    BY <1>4, <2>2
  <2>5. \A a, b \in Nat :
          (a > 0 => a \in 1 .. b) /\ (b > 0 => b \in 1 .. a) => a = b
    OBVIOUS
  <2>6. Len(p) \in Nat /\ Len(q) \in Nat
    BY <1>1
  <2> QED
    BY ONLY <2>3, <2>4, <2>5, <2>6
<1>6. ASSUME NEW i \in 1 .. Len(p) PROVE p[i] = q[i]
  <2>1. p[i] \in Item /\ q[i] \in Item
    BY <1>1, <1>3, ElementOfSeq
  <2>2. p[i].key = q[i].key /\ p[i].value = q[i].value
    BY <1>3 DEF Represents
  <2> QED
    BY <2>1, <2>2 DEF Item
<1> QED
  BY <1>1, <1>5, <1>6, SeqEqual

(* Without one of its items, a queue represents the map without its key. *)
LEMMA ItemDropped ==
    ASSUME NEW m, NEW K, Stamped(m, K), NEW q, Represents(q, m, K), NEW p \in 1 .. Len(q),
           NEW r \in Seq(Item), Len(r) = Len(q) - 1,
           \A i \in 1 .. Len(r) : r[i] = IF i < p THEN q[i] ELSE q[i + 1]
    PROVE  Represents(r, m, K \ {q[p].key})
<1> DEFINE at(i) == IF i < p THEN i ELSE i + 1
<1>1. Len(q) \in Nat /\ Len(r) \in Nat /\ p \in Nat
  BY LenProperties DEF Represents
<1>2. \A i \in 1 .. Len(r) : at(i) \in 1 .. Len(q) /\ at(i) # p /\ r[i] = q[at(i)]
  BY <1>1
<1>3. \A i, j \in 1 .. Len(r) : i < j => at(i) < at(j)
  BY <1>1
<1>4. \A i \in 1 .. Len(q) : i # p => \E j \in 1 .. Len(r) : at(j) = i
  <2>1. ASSUME NEW i \in 1 .. Len(q), i < p PROVE i \in 1 .. Len(r) /\ at(i) = i
    BY <1>1, <2>1
  <2>2. ASSUME NEW i \in 1 .. Len(q), i > p PROVE i - 1 \in 1 .. Len(r) /\ at(i - 1) = i
    BY <1>1, <2>2
  <2>3. \A i \in 1 .. Len(q) : i # p => i < p \/ i > p
    BY <1>1
  <2> HIDE DEF at
  <2> QED
    BY <2>1, <2>2, <2>3
<1> HIDE DEF at
<1>5. \A i \in 1 .. Len(q) : q[i].key \in K /\ q[i].value = m[q[i].key].value
  BY DEF Represents
<1>6. \A i \in 1 .. Len(q) : m[q[i].key].inserted \in Nat
  BY <1>5 DEF Stamped
<1>7. \A i, j \in 1 .. Len(q) : i < j => m[q[i].key].inserted < m[q[j].key].inserted
  BY DEF Represents
<1>8. \A i \in 1 .. Len(q) : i # p => q[i].key # q[p].key
  <2> SUFFICES ASSUME NEW i \in 1 .. Len(q), i # p
               PROVE  m[q[i].key].inserted # m[q[p].key].inserted
    OBVIOUS
  <2>1. i < p \/ p < i
    BY <1>1
  <2> QED
    BY <1>6, <1>7, <2>1
<1>9. \A i \in 1 .. Len(r) :
        r[i].key \in K \ {q[p].key} /\ r[i].value = m[r[i].key].value
  BY <1>2, <1>5, <1>8
<1>10. \A k \in K \ {q[p].key} : \E i \in 1 .. Len(r) : r[i].key = k
  <2>1. ASSUME NEW k \in K \ {q[p].key} PROVE \E i \in 1 .. Len(r) : r[i].key = k
    <3>1. PICK i \in 1 .. Len(q) : q[i].key = k
      BY DEF Represents
    <3>2. PICK j \in 1 .. Len(r) : at(j) = i
      BY <1>4, <2>1, <3>1
    <3> QED
      BY <1>2, <3>1, <3>2
  <2> QED
    BY <2>1
<1>11. \A i, j \in 1 .. Len(r) : i < j => m[r[i].key].inserted < m[r[j].key].inserted
  BY <1>2, <1>3, <1>7
<1> QED
  BY <1>9, <1>10, <1>11 DEF Represents

(* Without its head it represents the map without that key. *)
LEMMA HeadDropped ==
    ASSUME NEW m, NEW K, Stamped(m, K), NEW q, Represents(q, m, K), Len(q) > 0
    PROVE  Represents(Tail(q), m, K \ {q[1].key})
<1>1. q \in Seq(Item) /\ q # <<>> /\ Len(q) \in Nat
  BY LenProperties DEF Represents
<1>2. /\ Tail(q) \in Seq(Item) /\ Len(Tail(q)) = Len(q) - 1
      /\ \A i \in 1 .. Len(Tail(q)) : Tail(q)[i] = q[i + 1]
  BY <1>1, HeadTailProperties
<1>3. 1 \in 1 .. Len(q)
  BY <1>1
<1>4. \A i \in 1 .. Len(Tail(q)) : Tail(q)[i] = IF i < 1 THEN q[i] ELSE q[i + 1]
  BY <1>1, <1>2
<1> QED
  BY <1>2, <1>3, <1>4, ItemDropped

(* And removing a key from it removes it from the map. *)
LEMMA KeyRemoved ==
    ASSUME NEW m, NEW K, Stamped(m, K), NEW q, Represents(q, m, K), NEW k
    PROVE  Represents(Fifo!Without(q, k), m, K \ {k})
<1>1. q \in Seq(Item) /\ Len(q) \in Nat /\ DOMAIN q = 1 .. Len(q)
  BY LenProperties DEF Represents
<1>2. CASE \E i \in DOMAIN q : q[i].key = k
  <2> DEFINE p == CHOOSE i \in DOMAIN q : q[i].key = k
             r == SubSeq(q, 1, p - 1) \o SubSeq(q, p + 1, Len(q))
  <2>1. p \in 1 .. Len(q) /\ q[p].key = k
    BY <1>1, <1>2
  <2>2. Fifo!Without(q, k) = r
    BY <1>2 DEF Fifo!Without, Fifo!RemoveAt
  <2> HIDE DEF p
  <2>3. /\ r \in Seq(Item) /\ Len(r) = Len(q) - 1
        /\ \A i \in 1 .. Len(r) : r[i] = IF i < p THEN q[i] ELSE q[i + 1]
    <3> DEFINE before == SubSeq(q, 1, p - 1)
               after == SubSeq(q, p + 1, Len(q))
    <3>1. \A i \in 1 .. Len(q) : q[i] \in Item
      BY <1>1, ElementOfSeq
    <3>2. /\ before \in Seq(Item) /\ Len(before) = p - 1
          /\ \A i \in 1 .. p - 1 : before[i] = q[i]
      <4>1. p - 1 \in Int /\ \A i \in 1 .. p - 1 : q[i] \in Item
        BY <1>1, <2>1, <3>1
      <4>2. /\ before \in Seq(Item)
            /\ Len(before) = IF 1 <= p - 1 THEN (p - 1) - 1 + 1 ELSE 0
            /\ \A i \in 1 .. (p - 1) - 1 + 1 : before[i] = q[1 + i - 1]
        BY <4>1, SubSeqProperties
      <4> HIDE DEF before
      <4> QED
        BY <1>1, <2>1, <4>2
    <3>3. /\ after \in Seq(Item) /\ Len(after) = Len(q) - p
          /\ \A i \in 1 .. Len(q) - p : after[i] = q[p + i]
      <4>1. p + 1 \in Int /\ Len(q) \in Int /\ \A i \in p + 1 .. Len(q) : q[i] \in Item
        BY <1>1, <2>1, <3>1
      <4>2. /\ after \in Seq(Item)
            /\ Len(after) = IF p + 1 <= Len(q) THEN Len(q) - (p + 1) + 1 ELSE 0
            /\ \A i \in 1 .. Len(q) - (p + 1) + 1 : after[i] = q[(p + 1) + i - 1]
        BY <4>1, SubSeqProperties
      <4> HIDE DEF after
      <4>3. /\ Len(q) - (p + 1) + 1 = Len(q) - p
            /\ (IF p + 1 <= Len(q) THEN Len(q) - (p + 1) + 1 ELSE 0) = Len(q) - p
        <5>1. \A n \in Nat : \A i \in 1 .. n :
                /\ n - (i + 1) + 1 = n - i
                /\ (IF i + 1 <= n THEN n - (i + 1) + 1 ELSE 0) = n - i
          OBVIOUS
        <5> QED
          BY <1>1, <2>1, <5>1, Zenon
      <4>4. ASSUME NEW i \in 1 .. Len(q) - p PROVE after[i] = q[p + i]
        <5>1. (p + 1) + i - 1 = p + i
          BY <1>1, <2>1
        <5>2. after[i] = q[(p + 1) + i - 1]
          BY <4>2, <4>3
        <5> QED
          BY <5>1, <5>2
      <4> QED
        BY <4>2, <4>3, <4>4
    <3> HIDE DEF before, after
    <3>4. /\ r \in Seq(Item) /\ Len(r) = Len(before) + Len(after)
          /\ \A i \in 1 .. Len(before) + Len(after) :
               r[i] = IF i <= Len(before) THEN before[i] ELSE after[i - Len(before)]
      <4>1. r = before \o after
        BY DEF before, after
      <4> HIDE DEF r
      <4> QED
        BY <3>2, <3>3, <4>1, ConcatProperties
    <3> HIDE DEF r
    <3>5. Len(r) = Len(q) - 1
      BY <1>1, <2>1, <3>2, <3>3, <3>4
    <3>6. ASSUME NEW i \in 1 .. Len(r), i < p PROVE r[i] = q[i]
      <4>1. i \in 1 .. p - 1 /\ i <= Len(before) /\ i \in 1 .. Len(before) + Len(after)
        BY <1>1, <2>1, <3>2, <3>3, <3>4, <3>6
      <4> QED
        BY <3>2, <3>4, <4>1
    <3>7. ASSUME NEW i \in 1 .. Len(r), ~(i < p) PROVE r[i] = q[i + 1]
      <4>1. /\ i - Len(before) \in 1 .. Len(q) - p /\ ~(i <= Len(before))
            /\ i \in 1 .. Len(before) + Len(after) /\ p + (i - Len(before)) = i + 1
        BY <1>1, <2>1, <3>2, <3>3, <3>4, <3>5, <3>7
      <4> QED
        BY <3>3, <3>4, <4>1
    <3> QED
      BY <3>4, <3>5, <3>6, <3>7
  <2> HIDE DEF r
  <2> QED
    BY <2>1, <2>2, <2>3, ItemDropped
<1>3. CASE ~ \E i \in DOMAIN q : q[i].key = k
  <2>1. k \notin K
    BY <1>1, <1>3 DEF Represents
  <2>2. K \ {k} = K
    BY <2>1
  <2> QED
    BY <1>3, <2>2 DEF Fifo!Without
<1> QED
  BY <1>2, <1>3

(* A new item with a new stamp goes to the end. *)
LEMMA ItemAdded ==
    ASSUME NEW m, NEW K, NEW q, Represents(q, m, K),
           NEW k \in Key \ K, NEW v \in Value, NEW c, NEW n,
           n[k] = [inserted |-> c, value |-> v],
           \A j \in K : n[j] = m[j] /\ m[j].inserted < c
    PROVE  Represents(Append(q, [key |-> k, value |-> v]), n, K \cup {k})
<1> DEFINE item == [key |-> k, value |-> v]
           r == Append(q, item)
<1>1. q \in Seq(Item) /\ item \in Item
  BY DEF Represents, Item
<1>2. item.key = k /\ item.value = v /\ n[k].inserted = c /\ n[k].value = v
  OBVIOUS
<1> HIDE DEF item
<1>3. /\ r \in Seq(Item) /\ Len(r) = Len(q) + 1 /\ Len(q) \in Nat
      /\ r[Len(q) + 1] = item
      /\ \A i \in 1 .. Len(q) : r[i] = q[i]
  BY <1>1, AppendProperties, LenProperties
<1> HIDE DEF r
<1>4. \A i \in 1 .. Len(r) : i \in 1 .. Len(q) \/ i = Len(q) + 1
  BY <1>3
<1>5. \A i \in 1 .. Len(q) : i \in 1 .. Len(r) /\ Len(q) + 1 \in 1 .. Len(r)
  BY <1>3
<1>6. \A i \in 1 .. Len(q) : q[i].key \in K /\ q[i].value = m[q[i].key].value
  BY DEF Represents
<1>7. \A i \in 1 .. Len(r) : r[i].key \in K \cup {k} /\ r[i].value = n[r[i].key].value
  BY <1>2, <1>3, <1>4, <1>6
<1>8. \A j \in K \cup {k} : \E i \in 1 .. Len(r) : r[i].key = j
  <2>1. ASSUME NEW j \in K PROVE \E i \in 1 .. Len(r) : r[i].key = j
    <3>1. PICK i \in 1 .. Len(q) : q[i].key = j
      BY DEF Represents
    <3> QED
      BY <1>3, <1>5, <3>1
  <2>2. Len(q) + 1 \in 1 .. Len(r) /\ r[Len(q) + 1].key = k
    BY <1>2, <1>3
  <2> QED
    BY <2>1, <2>2
<1>9. ASSUME NEW i \in 1 .. Len(r), NEW j \in 1 .. Len(r), i < j
      PROVE  n[r[i].key].inserted < n[r[j].key].inserted
  <2>1. i \in 1 .. Len(q)
    BY <1>3, <1>4, <1>9
  <2>2. r[i].key \in K /\ n[r[i].key] = m[r[i].key] /\ r[i] = q[i]
    BY <1>3, <1>6, <2>1
  <2>3. CASE j \in 1 .. Len(q)
    <3>1. m[q[i].key].inserted < m[q[j].key].inserted
      BY <1>9, <2>1, <2>3 DEF Represents
    <3>2. r[j] = q[j] /\ n[r[j].key] = m[r[j].key]
      BY <1>3, <1>6, <2>3
    <3> QED
      BY <2>2, <3>1, <3>2
  <2>4. CASE j = Len(q) + 1
    BY <1>2, <1>3, <2>2, <2>4
  <2> QED
    BY <1>4, <2>3, <2>4
<1> QED
  BY <1>3, <1>7, <1>8, <1>9 DEF r, item, Represents

(* The queue of the refinement represents the whole map. *)
IsQueue ==
    /\ Stamped(map, DOMAIN map)
    /\ Represents(Queue, map, DOMAIN map)
    /\ Len(Queue) = Cardinality(DOMAIN map)

(* It does so whenever the invariant of the cache holds. *)
LEMMA QueueOfCache == CacheInv => IsQueue
<1> SUFFICES ASSUME CacheInv PROVE IsQueue
  OBVIOUS
<1> DEFINE keys == DOMAIN map
           stamp == [k \in keys |-> map[k].inserted]
           Aged(s) == \A i, j \in DOMAIN s : i < j => map[s[i]].inserted < map[s[j]].inserted
<1>1. /\ \A k \in keys : k \in Key /\ map[k].inserted \in Nat /\ map[k].value \in Value
      /\ \A j, k \in keys : map[j].inserted = map[k].inserted => j = k
      /\ IsFiniteSet(keys)
  BY DEF CacheInv, CacheTypeOK, StampsUnique, Entry
<1>2. /\ stamp \in [keys -> Nat] /\ \A k \in keys : stamp[k] = map[k].inserted
      /\ \A j, k \in keys : stamp[j] = stamp[k] => j = k
  BY <1>1
<1>3. \E s \in SetToSeqs(keys) : Aged(s)
  <2> HIDE DEF keys, stamp
  <2>1. PICK s \in SetToSeqs(keys) : \A i, j \in DOMAIN s : i < j => stamp[s[i]] < stamp[s[j]]
    BY <1>1, <1>2, InOrder
  <2>2. \A i \in DOMAIN s : s[i] \in keys
    BY DEF SetToSeqs
  <2> QED
    BY <1>2, <2>1, <2>2
<1>4. ByAge \in SetToSeqs(keys) /\ Aged(ByAge)
  <2>1. ByAge = CHOOSE s \in SetToSeqs(keys) : Aged(s)
    BY DEF ByAge
  <2> HIDE DEF Aged, keys
  <2> QED
    BY <1>3, <2>1
<1>5. Cardinality(keys) \in Nat
  BY <1>1, FS_CardinalityType
<1> DEFINE n == Cardinality(keys)
<1>6. ByAge \in [1 .. n -> keys] /\ \A i, j \in 1 .. n : i # j => ByAge[i] # ByAge[j]
  BY <1>4 DEF SetToSeqs
<1>7. ByAge \in Surjection(1 .. n, keys)
  <2> HIDE DEF n, keys
  <2>1. ByAge \in Injection(1 .. n, keys)
    BY <1>6 DEF Injection, IsInjective
  <2>2. IsFiniteSet(1 .. n) /\ Cardinality(1 .. n) = n
    BY <1>5, FS_Interval DEF n
  <2> QED
    BY <1>1, <2>1, <2>2, FS_Injection DEF n
<1> HIDE DEF n
<1>8. \A k \in keys : \E i \in 1 .. n : ByAge[i] = k
  <2> HIDE DEF keys
  <2> QED
    BY <1>7 DEF Surjection
<1>9. /\ DOMAIN Queue = 1 .. n
      /\ \A i \in 1 .. n :
           /\ Queue[i] = [key |-> ByAge[i], value |-> map[ByAge[i]].value]
           /\ Queue[i] \in Item
  <2>1. DOMAIN ByAge = 1 .. n
    BY <1>6
  <2>2. \A i \in 1 .. n : ByAge[i] \in keys
    BY <1>6
  <2> HIDE DEF keys
  <2> QED
    BY <1>1, <2>1, <2>2 DEF Queue, Item
<1>10. Queue \in Seq(Item) /\ Len(Queue) = n
  <2>1. Queue \in [1 .. n -> Item]
    BY <1>9 DEF Queue
  <2>2. n \in Nat
    BY <1>5 DEF n
  <2>3. Queue \in Seq(Item)
    BY <2>1, <2>2, SeqDef
  <2> QED
    BY <1>9, <2>2, <2>3, LenProperties
<1>11. \A i \in 1 .. n : Queue[i].key = ByAge[i] /\ Queue[i].value = map[ByAge[i]].value
  BY <1>9
<1>12. Represents(Queue, map, keys)
  <2>1. \A i \in 1 .. n : ByAge[i] \in keys
    BY <1>6
  <2>2. \A i, j \in 1 .. n : i < j => map[ByAge[i]].inserted < map[ByAge[j]].inserted
    BY <1>4, <1>6
  <2> HIDE DEF keys
  <2> QED
    BY <1>8, <1>10, <1>11, <2>1, <2>2 DEF Represents
<1> QED
  BY <1>1, <1>10, <1>12 DEF Stamped, n, IsQueue

(* The head of the queue is the oldest key. *)
LEMMA HeadIsOldest ==
    ASSUME CacheInv, NEW o \in Oldest
    PROVE  Len(Queue) > 0 /\ Queue[1].key = o
<1>1. o \in DOMAIN map /\ \A j \in DOMAIN map : map[o].inserted <= map[j].inserted
  BY DEF Oldest
<1>2. /\ \A k \in DOMAIN map : \E i \in 1 .. Len(Queue) : Queue[i].key = k
      /\ \A i, j \in 1 .. Len(Queue) :
           i < j => map[Queue[i].key].inserted < map[Queue[j].key].inserted
      /\ \A i \in 1 .. Len(Queue) : Queue[i].key \in DOMAIN map
      /\ Queue \in Seq(Item)
  BY QueueOfCache DEF IsQueue, Represents
<1>3. PICK i \in 1 .. Len(Queue) : Queue[i].key = o
  BY <1>1, <1>2
<1>4. Len(Queue) \in Nat /\ 1 \in 1 .. Len(Queue) /\ i \in Nat
  BY <1>2, LenProperties
<1>5. i = 1
  <2> SUFFICES ASSUME 1 < i PROVE FALSE
    BY <1>3, <1>4
  <2>1. map[Queue[1].key].inserted < map[o].inserted
    BY <1>2, <1>3, <1>4
  <2>2. map[o].inserted <= map[Queue[1].key].inserted
    BY <1>1, <1>2, <1>4
  <2>3. map[o].inserted \in Nat /\ map[Queue[1].key].inserted \in Nat
    BY <1>1, <1>2, <1>4, QueueOfCache DEF IsQueue, Stamped
  <2> QED
    BY <2>1, <2>2, <2>3
<1> QED
  BY <1>3, <1>4, <1>5

(* An insertion into the cache is one into the queue. *)
LEMMA InsertIsFifo ==
    ASSUME CacheInv, NEW k \in Key, NEW v \in Value, Insert(k, v)
    PROVE  Fifo!FifoInsert
<1> DEFINE room == IF Len(Queue) >= MaxSize THEN Tail(Queue) ELSE Queue
           next == Append(Fifo!Without(room, k), [key |-> k, value |-> v])
<1>1. /\ Stamped(map, DOMAIN map)
      /\ Represents(Queue, map, DOMAIN map)
      /\ Len(Queue) = Cardinality(DOMAIN map)
  BY QueueOfCache DEF IsQueue
<1>2. PICK kept \in SUBSET DOMAIN map :
        map' = With(kept, k, v) /\ Represents(room, map, kept)
  <2>1. CASE IsFull
    <3>1. PICK o \in Oldest : map' = With(DOMAIN map \ {o}, k, v)
      BY <2>1 DEF Insert
    <3>2. Len(Queue) > 0 /\ Queue[1].key = o
      BY HeadIsOldest
    <3>3. Represents(Tail(Queue), map, DOMAIN map \ {o})
      BY <1>1, <3>2, HeadDropped
    <3>4. room = Tail(Queue)
      BY <1>1, <2>1 DEF IsFull
    <3> HIDE DEF room
    <3> QED
      BY <3>1, <3>3, <3>4
  <2>2. CASE ~IsFull
    <3>1. map' = With(DOMAIN map, k, v)
      BY <2>2 DEF Insert
    <3>2. room = Queue
      BY <1>1, <2>2 DEF IsFull
    <3> HIDE DEF room
    <3> QED
      BY <1>1, <3>1, <3>2
  <2> QED
    BY <2>1, <2>2
<1> HIDE DEF room
<1>3. Stamped(map, kept)
  BY <1>1 DEF Stamped
<1>4. Represents(Fifo!Without(room, k), map, kept \ {k})
  BY <1>2, <1>3, KeyRemoved
<1>5. /\ DOMAIN map' = kept \cup {k}
      /\ map'[k] = [inserted |-> counter, value |-> v]
      /\ \A j \in kept \ {k} : map'[j] = map[j] /\ map[j].inserted < counter
  BY <1>2 DEF With, CacheInv, StampsUnique
<1>6. Represents(next, map', (kept \ {k}) \cup {k})
  <2>1. k \in Key \ (kept \ {k})
    OBVIOUS
  <2> QED
    BY <1>4, <1>5, <2>1, ItemAdded
<1>7. Represents(next, map', DOMAIN map')
  <2>1. (kept \ {k}) \cup {k} = DOMAIN map'
    BY <1>5
  <2> HIDE DEF next
  <2> QED
    BY <1>6, <2>1
<1>8. Represents(Queue', map', DOMAIN map') /\ Stamped(map', DOMAIN map')
  <2>1. CacheInv'
    BY InsertKeepsInv
  <2>2. IsQueue'
    BY <2>1, QueueOfCache, PTL
  <2> QED
    BY <2>2 DEF IsQueue
<1>9. Queue' = next
  <2> HIDE DEF next
  <2> QED
    BY <1>7, <1>8, OneQueue
<1> QED
  BY <1>9 DEF Fifo!FifoInsert, room

(* What leaves the cache alone leaves the queue alone. *)
LEMMA QueueUnchanged ==
    ASSUME UNCHANGED cacheVars
    PROVE  UNCHANGED Queue
BY DEF cacheVars, Queue, ByAge

(* An empty cache is an empty queue. *)
LEMMA QueueIsEmpty ==
    ASSUME CacheInit
    PROVE  Fifo!FifoInit
<1>1. DOMAIN map = {} /\ Cardinality({}) = 0
  BY FS_EmptySet DEF CacheInit
<1>2. CacheInv
  BY InitEstablishesInv
<1>3. Queue \in Seq(Item) /\ Len(Queue) = 0
  BY <1>1, <1>2, QueueOfCache DEF IsQueue, Represents
<1> QED
  BY <1>3, EmptySeq DEF Fifo!FifoInit

(* The cache behaves like a bounded queue of distinct keys, for any keys,  *)
(* values and sizes: what was written longest ago goes first.              *)
THEOREM CacheIsFifo == CacheSpec => ImplementsFifo
<1>1. CacheInit => CacheInv /\ Fifo!FifoInit
  BY InitEstablishesInv, QueueIsEmpty
<1>2. CacheInv /\ [CacheNext]_cacheVars => CacheInv' /\ [Fifo!FifoInsert]_Queue
  <2> SUFFICES ASSUME CacheInv, [CacheNext]_cacheVars
               PROVE  CacheInv' /\ [Fifo!FifoInsert]_Queue
    OBVIOUS
  <2>1. CASE CacheNext
    BY <2>1, InsertKeepsInv, InsertIsFifo DEF CacheNext
  <2>2. CASE UNCHANGED cacheVars
    BY <2>2, QueueUnchanged
       DEF cacheVars, CacheInv, CacheTypeOK, StampsUnique, SizeBound
  <2> QED
    BY <2>1, <2>2
<1> QED
  BY <1>1, <1>2, PTL DEF CacheSpec, ImplementsFifo, Fifo!FifoSpec
=============================================================================
