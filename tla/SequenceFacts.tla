--------------------------- MODULE SequenceFacts ---------------------------
(***************************************************************************)
(* What several proofs need to know of positions in sequences, of sums,    *)
(* and of what the operations on a popularity list's entries return.       *)
(***************************************************************************)
EXTENDS PopularityLists, Sums, FiniteSetsExt, SequenceTheorems, FiniteSetTheorems, WellFoundedInduction, TLAPS

(* The greatest element of a non-empty set of positions exists.             *)
LEMMA GreatestPosition ==
    ASSUME NEW n \in Nat, NEW T \in SUBSET (1..n), T # {}
    PROVE  \E i \in T : \A j \in T : j <= i
  <1> DEFINE D == {n - i : i \in T}
  <1>1. D \subseteq Nat /\ D # {}
    <2>1. \A i \in T : i \in Int /\ i <= n
      OBVIOUS
    <2>2. D \subseteq Nat
      BY <2>1
    <2>3. PICK i \in T : TRUE
      OBVIOUS
    <2> QED BY <2>2, <2>3
  <1>2. PICK d \in D : \A e \in D : ~(<<e, d>> \in OpToRel(<, Nat))
    <2> HIDE DEF D
    <2> QED BY <1>1, NatLessThanWellFounded, WFMin
  <1>3. \A e \in D : ~(e < d)
    BY <1>1, <1>2 DEF OpToRel
  <1>4. PICK i \in T : d = n - i
    BY <1>2
  <1>5. ASSUME NEW j \in T PROVE j <= i
    <2>1. n - j \in D /\ ~(n - j < n - i)
      BY <1>3, <1>4
    <2>2. i \in Int /\ j \in Int
      OBVIOUS
    <2> QED BY <2>1, <2>2
  <1> QED BY <1>5

(* So does the least of a non-empty set of numbers.                         *)
LEMMA LeastNumber ==
    ASSUME NEW T \in SUBSET Nat, T # {}
    PROVE  \E i \in T : \A j \in T : i <= j
  <1>1. PICK i \in T : \A j \in T : ~(<<j, i>> \in OpToRel(<, Nat))
    BY NatLessThanWellFounded, WFMin
  <1>2. \A j \in T : ~(j < i)
    BY <1>1 DEF OpToRel
  <1> QED BY <1>2

(* Append adds one element at the end and leaves the others alone.          *)
LEMMA AppendFacts ==
    ASSUME NEW S, NEW q \in Seq(S), NEW e \in S
    PROVE  /\ Append(q, e) \in Seq(S)
           /\ Len(q) \in Nat /\ Len(Append(q, e)) = Len(q) + 1
           /\ \A i \in 1..Len(q) : q[i] \in S /\ Append(q, e)[i] = q[i]
           /\ Append(q, e)[Len(q) + 1] = e
  OBVIOUS

LEMMA FrontOfAppend ==
    ASSUME NEW S, NEW q \in Seq(S), NEW e \in S
    PROVE  SubSeq(Append(q, e), 1, Len(q)) = q
  OBVIOUS

----------------------------------------------------------------------------
(* Sums.                                                                    *)
LEMMA PairsMember ==
    ASSUME NEW S, NEW f, NEW x
    PROVE  x \in Pairs(S, f) <=> \E i \in S : \E b \in 1..f[i] : x = <<i, b>>
  BY DEF Pairs

(* A finite family of numbers has a sum.                                    *)
LEMMA SumType ==
    ASSUME NEW S, IsFiniteSet(S), NEW f, \A i \in S : f[i] \in Nat
    PROVE  IsFiniteSet(Pairs(S, f)) /\ SumOf(S, f) \in Nat
  <1> DEFINE Part(i) == {i} \X (1..f[i])
             parts == {Part(i) : i \in S}
             g == [i \in S |-> Part(i)]
  <1>1. g \in Surjection(S, parts)
    BY DEF Surjection
  <1>2. IsFiniteSet(parts)
    <2> HIDE DEF parts, g
    <2> QED BY <1>1, FS_Surjection
  <1>3. ASSUME NEW T \in parts PROVE IsFiniteSet(T)
    <2>1. PICK i \in S : T = {i} \X (1..f[i])
      OBVIOUS
    <2>2. IsFiniteSet({i})
      BY FS_Singleton
    <2>3. IsFiniteSet(1..f[i])
      <3>1. 1 \in Int /\ f[i] \in Int
        OBVIOUS
      <3> QED BY <3>1, FS_Interval
    <2> QED BY <2>1, <2>2, <2>3, FS_Product
  <1>4. IsFiniteSet(UNION parts)
    <2> HIDE DEF parts
    <2> QED BY <1>2, <1>3, FS_UNION
  <1>5. Pairs(S, f) = UNION parts
    BY DEF Pairs
  <1> QED BY <1>4, <1>5, FS_CardinalityType DEF SumOf

(* Only the values on the set count.                                        *)
LEMMA SumSame ==
    ASSUME NEW S, NEW f, NEW g, \A i \in S : f[i] = g[i]
    PROVE  SumOf(S, f) = SumOf(S, g)
  <1>1. Pairs(S, f) = Pairs(S, g)
    BY DEF Pairs
  <1> QED BY <1>1 DEF SumOf

LEMMA SumEmpty ==
    ASSUME NEW f
    PROVE  SumOf({}, f) = 0
  <1>1. Pairs({}, f) = {}
    BY DEF Pairs
  <1> QED BY <1>1, FS_EmptySet DEF SumOf

(* The sum over two disjoint sets.                                          *)
LEMMA SumUnion ==
    ASSUME NEW S, NEW T, NEW f, IsFiniteSet(S), IsFiniteSet(T), S \cap T = {},
           \A i \in S \cup T : f[i] \in Nat
    PROVE  SumOf(S \cup T, f) = SumOf(S, f) + SumOf(T, f)
  <1>1. Pairs(S \cup T, f) = Pairs(S, f) \cup Pairs(T, f)
    BY DEF Pairs
  <1>2. Pairs(S, f) \cap Pairs(T, f) = {}
    <2> SUFFICES ASSUME NEW x, x \in Pairs(S, f), x \in Pairs(T, f) PROVE FALSE
      OBVIOUS
    <2>1. PICK i \in S : \E b \in 1..f[i] : x = <<i, b>>
      BY PairsMember
    <2>2. PICK j \in T : \E b \in 1..f[j] : x = <<j, b>>
      BY PairsMember
    <2> QED BY <2>1, <2>2
  <1>3. /\ IsFiniteSet(Pairs(S, f)) /\ SumOf(S, f) \in Nat
        /\ IsFiniteSet(Pairs(T, f)) /\ SumOf(T, f) \in Nat
    BY SumType
  <1>4. Cardinality(Pairs(S, f) \cup Pairs(T, f))
          = SumOf(S, f) + SumOf(T, f) - Cardinality(Pairs(S, f) \cap Pairs(T, f))
    BY <1>3, FS_Union DEF SumOf
  <1>5. Cardinality(Pairs(S, f) \cap Pairs(T, f)) = 0
    BY <1>2, FS_EmptySet
  <1>6. SumOf(S \cup T, f) = Cardinality(Pairs(S, f) \cup Pairs(T, f))
    BY <1>1 DEF SumOf
  <1> QED BY <1>3, <1>4, <1>5, <1>6

LEMMA SumSingleton ==
    ASSUME NEW i, NEW f, f[i] \in Nat
    PROVE  SumOf({i}, f) = f[i]
  <1>1. Pairs({i}, f) = {i} \X (1..f[i])
    BY DEF Pairs
  <1>2. IsFiniteSet({i}) /\ Cardinality({i}) = 1
    BY FS_Singleton
  <1>3. IsFiniteSet(1..f[i]) /\ Cardinality(1..f[i]) = f[i]
    <2>1. 1 \in Int /\ f[i] \in Int
      OBVIOUS
    <2>2. /\ IsFiniteSet(1..f[i])
          /\ Cardinality(1..f[i]) = IF 1 > f[i] THEN 0 ELSE f[i] - 1 + 1
      BY <2>1, FS_Interval
    <2> QED BY <2>2
  <1>4. Cardinality({i} \X (1..f[i])) = Cardinality({i}) * Cardinality(1..f[i])
    BY <1>2, <1>3, FS_Product
  <1>5. Cardinality({i} \X (1..f[i])) = f[i]
    BY <1>2, <1>3, <1>4
  <1> QED BY <1>1, <1>5 DEF SumOf

(* The sum does not change when the members are renamed.                    *)
LEMMA SumRenamed ==
    ASSUME NEW S, NEW T, NEW f, NEW g, IsFiniteSet(S), NEW h \in Bijection(S, T),
           \A i \in S : f[i] \in Nat /\ g[h[i]] = f[i]
    PROVE  SumOf(T, g) = SumOf(S, f)
  <1> DEFINE P == Pairs(S, f)
             Q == Pairs(T, g)
             k == [x \in P |-> <<h[x[1]], x[2]>>]
  <1>0. /\ h \in [S -> T] /\ \A t \in T : \E s \in S : h[s] = t
        /\ \A a, b \in S : h[a] = h[b] => a = b
    BY DEF Bijection, Injection, Surjection, IsInjective
  <1>1. ASSUME NEW x \in P PROVE k[x] \in Q /\ x = <<x[1], x[2]>> /\ x[1] \in S
    <2>1. PICK i \in S : \E b \in 1..f[i] : x = <<i, b>>
      BY PairsMember
    <2>2. PICK b \in 1..f[i] : x = <<i, b>>
      BY <2>1
    <2>3. h[i] \in T /\ b \in 1..g[h[i]] /\ k[x] = <<h[i], b>>
      BY <2>2, <1>0
    <2>4. k[x] \in Q
      BY <2>3, PairsMember
    <2> QED BY <2>2, <2>4
  <1>2. ASSUME NEW y \in Q PROVE \E x \in P : k[x] = y
    <2>1. PICK t \in T : \E b \in 1..g[t] : y = <<t, b>>
      BY PairsMember
    <2>2. PICK b \in 1..g[t] : y = <<t, b>>
      BY <2>1
    <2>3. PICK s \in S : h[s] = t
      BY <1>0
    <2>4. <<s, b>> \in P
      BY <2>2, <2>3, PairsMember
    <2>5. k[<<s, b>>] = <<h[s], b>>
      BY <2>4
    <2> QED BY <2>2, <2>3, <2>4, <2>5
  <1>3. ASSUME NEW x \in P, NEW y \in P, k[x] = k[y] PROVE x = y
    <2>1. h[x[1]] = h[y[1]] /\ x[2] = y[2]
      BY <1>3
    <2>2. /\ x = <<x[1], x[2]>> /\ x[1] \in S
          /\ y = <<y[1], y[2]>> /\ y[1] \in S
      BY <1>1
    <2> QED BY <2>1, <2>2, <1>0
  <1>4. k \in [P -> Q]
    BY <1>1
  <1>5. k \in Bijection(P, Q)
    <2> HIDE DEF P, Q
    <2> QED BY <1>2, <1>3, <1>4 DEF Bijection, Injection, Surjection, IsInjective
  <1>6. IsFiniteSet(P)
    BY SumType
  <1>7. Cardinality(Q) = Cardinality(P)
    <2> HIDE DEF P, Q, k
    <2> QED BY <1>5, <1>6, FS_Bijection DEF ExistsBijection
  <1> QED BY <1>7 DEF SumOf

----------------------------------------------------------------------------
(* Popularity lists.                                                        *)
(* Erasing the entry at i moves the later entries down by one.              *)
LEMMA EraseFacts ==
    ASSUME NEW S, NEW list \in Seq(S), NEW i \in 1..Len(list)
    PROVE  /\ EraseAt(list, i) \in Seq(S)
           /\ Len(EraseAt(list, i)) = Len(list) - 1
           /\ \A j \in 1..(Len(list) - 1) :
                EraseAt(list, i)[j] = IF j < i THEN list[j] ELSE list[j + 1]
  <1> DEFINE a == SubSeq(list, 1, i - 1)
             b == SubSeq(list, i + 1, Len(list))
  <1>0. Len(list) \in Nat /\ \A j \in 1..Len(list) : list[j] \in S
    OBVIOUS
  <1>1. a \in Seq(S) /\ Len(a) = i - 1 /\ \A j \in 1..(i - 1) : a[j] = list[j]
    BY <1>0, SubSeqProperties
  <1>2. b \in Seq(S) /\ Len(b) = Len(list) - i /\ \A j \in 1..(Len(list) - i) : b[j] = list[j + i]
    BY <1>0, SubSeqProperties
  <1>3. EraseAt(list, i) = a \o b
    BY DEF EraseAt
  <1> HIDE DEF a, b
  <1>4. /\ a \o b \in Seq(S)
        /\ Len(a \o b) = Len(a) + Len(b)
        /\ \A j \in 1..(Len(a) + Len(b)) : (a \o b)[j] = IF j <= Len(a) THEN a[j] ELSE b[j - Len(a)]
    BY <1>1, <1>2, ConcatProperties
  <1>5. ASSUME NEW j \in 1..(Len(list) - 1)
        PROVE  (a \o b)[j] = IF j < i THEN list[j] ELSE list[j + 1]
    <2>1. CASE j < i
      BY <2>1, <1>0, <1>1, <1>2, <1>4
    <2>2. CASE ~(j < i)
      <3>1. j - Len(a) \in 1..(Len(list) - i)
        BY <2>2, <1>0, <1>1
      <3>2. b[j - Len(a)] = list[(j - Len(a)) + i]
        BY <3>1, <1>2
      <3>3. (j - Len(a)) + i = j + 1
        BY <1>1
      <3> QED BY <2>2, <3>2, <3>3, <1>0, <1>1, <1>2, <1>4
    <2> QED BY <2>1, <2>2
  <1> QED BY <1>0, <1>1, <1>2, <1>3, <1>4, <1>5

LEMMA PushFacts ==
    ASSUME NEW S, NEW list \in Seq(S), NEW e \in S
    PROVE  /\ PushFront(list, e) \in Seq(S)
           /\ Len(PushFront(list, e)) = Len(list) + 1
           /\ PushFront(list, e)[1] = e
           /\ \A j \in 2..(Len(list) + 1) : PushFront(list, e)[j] = list[j - 1]
  BY DEF PushFront

(* No key is twice in a list.                                               *)
OneEntryPerKey(list) ==
    \A i, j \in DOMAIN list : i # j => list[i].key # list[j].key

(* Erasing keeps only entries that were there, and their keys stay apart.   *)
LEMMA EraseKeeps ==
    ASSUME NEW S, NEW list \in Seq(S), NEW i \in 1..Len(list)
    PROVE  /\ \A j \in DOMAIN EraseAt(list, i) :
                 \E k \in DOMAIN list : k # i /\ EraseAt(list, i)[j] = list[k]
           /\ OneEntryPerKey(list) => OneEntryPerKey(EraseAt(list, i))
  <1> DEFINE e == EraseAt(list, i)
             From(j) == IF j < i THEN j ELSE j + 1
  <1>0. Len(list) \in Nat /\ DOMAIN list = 1..Len(list)
    OBVIOUS
  <1>1. e \in Seq(S) /\ Len(e) = Len(list) - 1
        /\ \A j \in 1..(Len(list) - 1) : e[j] = list[From(j)]
    BY EraseFacts
  <1> HIDE DEF e
  <1>2. DOMAIN e = 1..(Len(list) - 1)
    BY <1>0, <1>1
  <1>3. \A j \in 1..(Len(list) - 1) : From(j) \in 1..Len(list) /\ From(j) # i
    BY <1>0
  <1>4. \A j, k \in 1..(Len(list) - 1) : j # k => From(j) # From(k)
    BY <1>0
  <1> HIDE DEF From
  <1>5. \A j \in DOMAIN e : \E k \in DOMAIN list : k # i /\ e[j] = list[k]
    BY <1>0, <1>1, <1>2, <1>3
  <1>6. OneEntryPerKey(list) => OneEntryPerKey(e)
    BY <1>0, <1>1, <1>2, <1>3, <1>4 DEF OneEntryPerKey
  <1> QED BY <1>5, <1>6 DEF e

(* Removing a key from a list.                                              *)
LEMMA WithoutKeyFacts ==
    ASSUME NEW S, NEW list \in Seq(S), NEW key
    PROVE  /\ WithoutKey(list, key) \in Seq(S)
           /\ Len(WithoutKey(list, key)) <= Len(list)
           /\ \A j \in DOMAIN WithoutKey(list, key) :
                 \E k \in DOMAIN list : WithoutKey(list, key)[j] = list[k]
           /\ OneEntryPerKey(list) =>
                 OneEntryPerKey(WithoutKey(list, key)) /\ key \notin KeysOf(WithoutKey(list, key))
  <1>0. Len(list) \in Nat /\ DOMAIN list = 1..Len(list)
    OBVIOUS
  <1>1. CASE key \notin KeysOf(list)
    BY <1>0, <1>1 DEF WithoutKey
  <1>2. CASE key \in KeysOf(list)
    <2> DEFINE i == Position(list, key)
               e == EraseAt(list, i)
    <2>1. i \in DOMAIN list /\ list[i].key = key
      BY <1>2 DEF Position, KeysOf
    <2> HIDE DEF i
    <2>2. WithoutKey(list, key) = e
      BY <1>2 DEF WithoutKey, i
    <2>3. e \in Seq(S) /\ Len(e) = Len(list) - 1
      BY <1>0, <2>1, EraseFacts
    <2>4. /\ \A j \in DOMAIN e : \E k \in DOMAIN list : k # i /\ e[j] = list[k]
          /\ OneEntryPerKey(list) => OneEntryPerKey(e)
      BY <1>0, <2>1, EraseKeeps
    <2>5. OneEntryPerKey(list) => key \notin KeysOf(e)
      BY <2>1, <2>4 DEF OneEntryPerKey, KeysOf
    <2> QED BY <1>0, <2>2, <2>3, <2>4, <2>5
  <1> QED BY <1>1, <1>2

(* Adding an entry to a list whose size cannot grow.                        *)
LEMMA AddBoundedFacts ==
    ASSUME NEW S, NEW list \in Seq(S), NEW entry \in S, NEW size \in Nat, OneEntryPerKey(list)
    PROVE  /\ AddBounded(list, entry, size) \in Seq(S)
           /\ Len(AddBounded(list, entry, size)) <= size
           /\ OneEntryPerKey(AddBounded(list, entry, size))
           /\ \A j \in DOMAIN AddBounded(list, entry, size) :
                 \/ AddBounded(list, entry, size)[j] = entry
                 \/ /\ AddBounded(list, entry, size)[j].key # entry.key
                    /\ \E k \in DOMAIN list : AddBounded(list, entry, size)[j] = list[k]
  <1> DEFINE w == WithoutKey(list, entry.key)
             p == PushFront(w, entry)
             a == AddBounded(list, entry, size)
  <1>1. /\ w \in Seq(S) /\ OneEntryPerKey(w) /\ entry.key \notin KeysOf(w)
        /\ \A j \in DOMAIN w : \E k \in DOMAIN list : w[j] = list[k]
    BY WithoutKeyFacts
  <1>2. a = IF Len(p) > size THEN SubSeq(p, 1, size) ELSE p
    BY DEF AddBounded
  <1> HIDE DEF w, a
  <1>3. /\ p \in Seq(S) /\ Len(p) = Len(w) + 1 /\ p[1] = entry
        /\ \A j \in 2..(Len(w) + 1) : p[j] = w[j - 1]
    <2>1. /\ PushFront(w, entry) \in Seq(S) /\ Len(PushFront(w, entry)) = Len(w) + 1
          /\ PushFront(w, entry)[1] = entry
          /\ \A j \in 2..(Len(w) + 1) : PushFront(w, entry)[j] = w[j - 1]
      BY ONLY <1>1, PushFacts, entry \in S
    <2> QED BY <2>1
  <1> HIDE DEF p
  <1>4. Len(w) \in Nat /\ DOMAIN w = 1..Len(w) /\ DOMAIN p = 1..(Len(w) + 1)
    BY <1>1, <1>3
  <1>5. \A j \in 2..(Len(w) + 1) : j - 1 \in 1..Len(w)
    BY <1>4
  <1>6. /\ a \in Seq(S) /\ Len(a) <= size /\ Len(a) \in Nat /\ Len(a) <= Len(p)
        /\ \A j \in 1..Len(a) : a[j] = p[j]
    BY <1>2, <1>3, <1>4, SubSeqProperties
  <1>7. DOMAIN a = 1..Len(a) /\ \A j \in 1..Len(a) : j \in 1..(Len(w) + 1)
    BY <1>3, <1>4, <1>6
  <1>8. \A j \in 1..(Len(w) + 1) : j = 1 \/ j \in 2..(Len(w) + 1)
    BY <1>4
  <1>9. \A j \in 2..(Len(w) + 1) : p[j].key \in KeysOf(w) /\ p[j].key # entry.key
    BY <1>1, <1>3, <1>4, <1>5 DEF KeysOf
  <1>10. OneEntryPerKey(p)
    <2>1. ASSUME NEW i \in 1..(Len(w) + 1), NEW j \in 1..(Len(w) + 1), i # j
          PROVE  p[i].key # p[j].key
      <3>1. CASE i = 1
        BY <3>1, <2>1, <1>3, <1>8, <1>9
      <3>2. CASE j = 1
        BY <3>2, <2>1, <1>3, <1>8, <1>9
      <3>3. CASE i # 1 /\ j # 1
        <4>1. i \in 2..(Len(w) + 1) /\ j \in 2..(Len(w) + 1) /\ i - 1 # j - 1
          BY <3>3, <2>1, <1>8
        <4>2. p[i] = w[i - 1] /\ p[j] = w[j - 1] /\ i - 1 \in DOMAIN w /\ j - 1 \in DOMAIN w
          BY <4>1, <1>3, <1>4, <1>5
        <4> QED BY <4>1, <4>2, <1>1 DEF OneEntryPerKey
      <3> QED BY <3>1, <3>2, <3>3
    <2> QED BY <2>1, <1>4 DEF OneEntryPerKey
  <1>11. OneEntryPerKey(a)
    BY <1>4, <1>6, <1>7, <1>10 DEF OneEntryPerKey
  <1>12. ASSUME NEW j \in DOMAIN a
         PROVE  \/ a[j] = entry
                \/ a[j].key # entry.key /\ \E k \in DOMAIN list : a[j] = list[k]
    <2>1. j \in 1..(Len(w) + 1) /\ a[j] = p[j]
      BY <1>6, <1>7
    <2>2. CASE j = 1
      BY <2>1, <2>2, <1>3
    <2>3. CASE j # 1
      <3>1. j \in 2..(Len(w) + 1)
        BY <2>1, <2>3, <1>8
      <3>2. p[j] = w[j - 1] /\ j - 1 \in DOMAIN w
        BY <3>1, <1>3, <1>4, <1>5
      <3> QED BY <2>1, <3>1, <3>2, <1>1, <1>9
    <2> QED BY <2>2, <2>3
  <1> QED BY <1>6, <1>11, <1>12 DEF a

(* Removing a key leaves the order of the other entries.                    *)
LEMMA WithoutKeyOrder ==
    ASSUME NEW S, NEW list \in Seq(S), NEW key, OneEntryPerKey(list)
    PROVE  \E h \in [DOMAIN WithoutKey(list, key) -> DOMAIN list] :
             /\ \A j \in DOMAIN WithoutKey(list, key) :
                   WithoutKey(list, key)[j] = list[h[j]] /\ list[h[j]].key # key
             /\ \A i, j \in DOMAIN WithoutKey(list, key) : i <= j => h[i] <= h[j]
             /\ \A p \in DOMAIN list :
                   list[p].key # key => \E j \in DOMAIN WithoutKey(list, key) : h[j] = p
  <1>0. Len(list) \in Nat /\ DOMAIN list = 1..Len(list)
    OBVIOUS
  <1>1. CASE key \notin KeysOf(list)
    <2>1. WithoutKey(list, key) = list
      BY <1>1 DEF WithoutKey
    <2> DEFINE h == [j \in DOMAIN list |-> j]
    <2>2. /\ h \in [DOMAIN list -> DOMAIN list]
          /\ \A j \in DOMAIN list : h[j] = j /\ list[j].key # key
      BY <1>1 DEF KeysOf
    <2> HIDE DEF h
    <2> QED BY <2>1, <2>2
  <1>2. CASE key \in KeysOf(list)
    <2> DEFINE q == Position(list, key)
               w == EraseAt(list, q)
               h == [j \in 1..(Len(list) - 1) |-> IF j < q THEN j ELSE j + 1]
    <2>1. q \in 1..Len(list) /\ list[q].key = key
      BY <1>0, <1>2 DEF Position, KeysOf
    <2> HIDE DEF q
    <2>2. WithoutKey(list, key) = w
      BY <1>2 DEF WithoutKey, q
    <2>3. /\ w \in Seq(S) /\ Len(w) = Len(list) - 1
          /\ \A j \in 1..(Len(list) - 1) : w[j] = IF j < q THEN list[j] ELSE list[j + 1]
      BY <2>1, EraseFacts
    <2> HIDE DEF w
    <2>4. DOMAIN w = 1..(Len(list) - 1)
      BY <1>0, <2>3
    <2>5. \A j \in 1..(Len(list) - 1) :
             /\ h[j] \in 1..Len(list) /\ h[j] # q
             /\ h[j] = IF j < q THEN j ELSE j + 1
      BY <1>0, <2>1
    <2>6. h \in [DOMAIN w -> DOMAIN list]
      BY <2>4, <2>5, <1>0
    <2> HIDE DEF h
    <2>7. \A j \in DOMAIN w : w[j] = list[h[j]] /\ list[h[j]].key # key
      BY <2>1, <2>3, <2>4, <2>5, <1>0 DEF OneEntryPerKey
    <2>8. \A i, j \in DOMAIN w : i <= j => h[i] <= h[j]
      BY <2>1, <2>4, <2>5, <1>0
    <2>9. ASSUME NEW p \in DOMAIN list, list[p].key # key
          PROVE  \E j \in DOMAIN w : h[j] = p
      <3>1. CASE p < q
        <4>1. p \in DOMAIN w /\ h[p] = p
          BY <3>1, <1>0, <2>1, <2>4, <2>5
        <4> QED BY <4>1
      <3>2. CASE p > q
        <4>1. p - 1 \in DOMAIN w /\ h[p - 1] = p
          BY <3>2, <1>0, <2>1, <2>4, <2>5
        <4> QED BY <4>1
      <3> QED BY <3>1, <3>2, <2>1, <2>9, <1>0
    <2> QED BY <2>2, <2>6, <2>7, <2>8, <2>9
  <1> QED BY <1>1, <1>2

(* The entry added comes first, the others keep their order, and only the   *)
(* last of a full list gives way, to an entry with a key of its own.        *)
AddedInOrder(a, list, entry, size) ==
    /\ 1 \in DOMAIN a /\ a[1] = entry
    /\ \E h \in [2..Len(a) -> DOMAIN list] :
         /\ \A j \in 2..Len(a) : a[j] = list[h[j]]
         /\ \A i, j \in 2..Len(a) : i <= j => h[i] <= h[j]
    /\ \A p \in DOMAIN list :
         list[p].key # entry.key =>
           \/ \E j \in DOMAIN a : a[j] = list[p]
           \/ p = size /\ Len(list) = size /\ entry.key \notin KeysOf(list)

LEMMA AddBoundedOrder ==
    ASSUME NEW S, NEW list \in Seq(S), NEW entry \in S, NEW size \in Nat \ {0},
           OneEntryPerKey(list), Len(list) <= size
    PROVE  AddedInOrder(AddBounded(list, entry, size), list, entry, size)
  <1> DEFINE w == WithoutKey(list, entry.key)
             a == AddBounded(list, entry, size)
             p == PushFront(w, entry)
  <1>0. Len(list) \in Nat /\ DOMAIN list = 1..Len(list)
    OBVIOUS
  <1>1. w \in Seq(S) /\ Len(w) <= Len(list)
    BY WithoutKeyFacts
  <1>2. PICK g \in [DOMAIN w -> DOMAIN list] :
             /\ \A j \in DOMAIN w : w[j] = list[g[j]] /\ list[g[j]].key # entry.key
             /\ \A i, j \in DOMAIN w : i <= j => g[i] <= g[j]
             /\ \A q \in DOMAIN list : list[q].key # entry.key => \E j \in DOMAIN w : g[j] = q
    BY WithoutKeyOrder
  <1>3. a = IF Len(p) > size THEN SubSeq(p, 1, size) ELSE p
    BY DEF AddBounded
  <1>11. Len(w) = Len(list) => entry.key \notin KeysOf(list) /\ w = list
    <2>1. CASE entry.key \in KeysOf(list)
      <3> DEFINE q == Position(list, entry.key)
      <3>1. q \in 1..Len(list)
        BY <1>0, <2>1 DEF Position, KeysOf
      <3>2. Len(EraseAt(list, q)) = Len(list) - 1
        <4> HIDE DEF q
        <4> QED BY <3>1, EraseFacts
      <3>3. Len(w) = Len(list) - 1
        BY <2>1, <3>2 DEF WithoutKey
      <3> QED BY <3>3, <1>0
    <2>2. CASE entry.key \notin KeysOf(list)
      BY <2>2 DEF WithoutKey
    <2> QED BY <2>1, <2>2
  <1> HIDE DEF w, a
  <1>4. /\ p \in Seq(S) /\ Len(p) = Len(w) + 1 /\ p[1] = entry
        /\ \A j \in 2..(Len(w) + 1) : p[j] = w[j - 1]
    <2>0. w \in Seq(S)
      BY <1>1
    <2>1. \A v \in Seq(S) : /\ PushFront(v, entry) \in Seq(S)
                            /\ Len(PushFront(v, entry)) = Len(v) + 1
                            /\ PushFront(v, entry)[1] = entry
                            /\ \A j \in 2..(Len(v) + 1) : PushFront(v, entry)[j] = v[j - 1]
      BY ONLY PushFacts, entry \in S
    <2> QED BY <2>0, <2>1
  <1> HIDE DEF p
  <1>5. Len(w) \in Nat /\ DOMAIN w = 1..Len(w)
    BY <1>1
  <1>6. /\ a \in Seq(S) /\ Len(a) \in Nat /\ DOMAIN a = 1..Len(a)
        /\ Len(a) = IF Len(w) + 1 > size THEN size ELSE Len(w) + 1
        /\ \A j \in 1..Len(a) : a[j] = p[j]
    BY <1>3, <1>4, <1>5, SubSeqProperties
  <1>7. 1 \in DOMAIN a /\ a[1] = entry
    BY <1>4, <1>5, <1>6
  <1>8. \A j \in 2..Len(a) : j - 1 \in DOMAIN w /\ a[j] = w[j - 1]
    BY <1>4, <1>5, <1>6
  <1> DEFINE h == [j \in 2..Len(a) |-> g[j - 1]]
  <1>9. h \in [2..Len(a) -> DOMAIN list]
    BY <1>2, <1>8
  <1>10. /\ \A j \in 2..Len(a) : a[j] = list[h[j]]
         /\ \A i, j \in 2..Len(a) : i <= j => h[i] <= h[j]
    <2>1. ASSUME NEW i \in 2..Len(a), NEW j \in 2..Len(a), i <= j
          PROVE  h[i] <= h[j]
      <3>1. i - 1 <= j - 1 /\ i - 1 \in DOMAIN w /\ j - 1 \in DOMAIN w
        BY <2>1, <1>8
      <3> QED BY <3>1, <1>2
    <2>2. ASSUME NEW j \in 2..Len(a) PROVE a[j] = list[h[j]]
      BY <1>2, <1>8
    <2> QED BY <2>1, <2>2
  <1>12. ASSUME NEW q \in DOMAIN list, list[q].key # entry.key
         PROVE  \/ \E j \in DOMAIN a : a[j] = list[q]
                \/ q = size /\ Len(list) = size /\ entry.key \notin KeysOf(list)
    <2>1. PICK j \in DOMAIN w : g[j] = q
      BY <1>2, <1>12
    <2>2. CASE j + 1 <= Len(a)
      <3>1. j + 1 \in 2..Len(a) /\ (j + 1) - 1 = j
        BY <2>2, <1>5, <1>6
      <3>2. a[j + 1] = w[j]
        BY <3>1, <1>8
      <3>3. w[j] = list[q]
        BY <2>1, <1>2
      <3>4. j + 1 \in DOMAIN a
        BY <3>1, <1>6
      <3> QED BY <3>2, <3>3, <3>4
    <2>3. CASE j + 1 > Len(a)
      <3>0. j \in 1..Len(w)
        BY <1>5
      <3>5. j + 1 > (IF Len(w) + 1 > size THEN size ELSE Len(w) + 1)
        BY <2>3, <1>6
      <3>6. \A x, y, z, u \in Nat :
                /\ x <= y /\ y <= z /\ z <= u
                /\ x + 1 > (IF y + 1 > u THEN u ELSE y + 1)
                => x = u /\ y = u /\ z = u
        OBVIOUS
      <3>7. j \in Nat /\ j <= Len(w) /\ Len(w) <= Len(list) /\ Len(list) <= size /\ size \in Nat
        BY <3>0, <1>1
      <3>1. j = size /\ Len(w) = size /\ Len(list) = size
        BY <3>5, <3>6, <3>7, <1>0, <1>5
      <3>2. entry.key \notin KeysOf(list) /\ w = list
        BY <3>1, <1>11
      <3>3. list[j] = list[q] /\ j \in DOMAIN list
        BY <2>1, <3>2, <1>2
      <3>4. j = q
        BY <3>3 DEF OneEntryPerKey
      <3> QED BY <3>1, <3>2, <3>4
    <2> QED BY <2>2, <2>3, <1>5, <1>6
  <1>13. \E hh \in [2..Len(a) -> DOMAIN list] :
            /\ \A j \in 2..Len(a) : a[j] = list[hh[j]]
            /\ \A i, j \in 2..Len(a) : i <= j => hh[i] <= hh[j]
    <2> HIDE DEF h
    <2> QED BY <1>9, <1>10
  <1> QED BY <1>7, <1>12, <1>13 DEF a, AddedInOrder

(* A part has at most the sum of the whole, and less when it leaves out     *)
(* something that counts.                                                   *)
LEMMA SumPart ==
    ASSUME NEW T, IsFiniteSet(T), NEW S \in SUBSET T, NEW f, \A i \in T : f[i] \in Nat
    PROVE  /\ SumOf(S, f) \in Nat /\ SumOf(T, f) \in Nat /\ SumOf(S, f) <= SumOf(T, f)
           /\ \A i \in T \ S : SumOf(S, f) + f[i] <= SumOf(T, f)
  <1>1. IsFiniteSet(S) /\ IsFiniteSet(T \ S) /\ T = S \cup (T \ S) /\ S \cap (T \ S) = {}
    BY FS_Subset
  <1>2. SumOf(S, f) \in Nat /\ SumOf(T \ S, f) \in Nat /\ SumOf(T, f) \in Nat
    BY <1>1, SumType
  <1>3. SumOf(T, f) = SumOf(S, f) + SumOf(T \ S, f)
    BY <1>1, SumUnion
  <1>4. ASSUME NEW i \in T \ S
        PROVE  f[i] <= SumOf(T \ S, f)
    <2> DEFINE R == (T \ S) \ {i}
    <2>1. IsFiniteSet(R) /\ IsFiniteSet({i}) /\ R \cap {i} = {} /\ R \cup {i} = T \ S
      BY <1>1, FS_Subset, FS_Singleton
    <2>2. \A j \in R \cup {i} : f[j] \in Nat
      OBVIOUS
    <2> HIDE DEF R
    <2>3. SumOf(R \cup {i}, f) = SumOf(R, f) + SumOf({i}, f)
      BY <2>1, <2>2, SumUnion
    <2>4. SumOf({i}, f) = f[i] /\ SumOf(R, f) \in Nat
      BY <2>1, <2>2, SumSingleton, SumType
    <2>5. SumOf(T \ S, f) = SumOf(R, f) + f[i]
      BY <2>1, <2>3, <2>4
    <2>6. f[i] \in Nat
      OBVIOUS
    <2> QED BY <2>4, <2>5, <2>6
  <1>5. ASSUME NEW i \in T \ S
        PROVE  SumOf(S, f) + f[i] <= SumOf(T, f)
    <2>1. f[i] \in Nat /\ f[i] <= SumOf(T \ S, f)
      BY <1>4
    <2> QED BY <2>1, <1>2, <1>3
  <1>6. SumOf(S, f) <= SumOf(T, f)
    BY <1>2, <1>3
  <1> QED BY <1>2, <1>5, <1>6

(* One more member adds its number.                                         *)
LEMMA SumAdd ==
    ASSUME NEW S, IsFiniteSet(S), NEW i, i \notin S, NEW f, \A j \in S \cup {i} : f[j] \in Nat
    PROVE  SumOf(S \cup {i}, f) = SumOf(S, f) + f[i]
  <1>1. IsFiniteSet({i}) /\ S \cap {i} = {}
    BY FS_Singleton
  <1>2. SumOf(S \cup {i}, f) = SumOf(S, f) + SumOf({i}, f)
    BY <1>1, SumUnion
  <1>3. SumOf({i}, f) = f[i]
    BY SumSingleton
  <1> QED BY <1>2, <1>3

----------------------------------------------------------------------------
(* Lists whose entries are only known to be in some set.                    *)

LEMMA SeqWider ==
    ASSUME NEW S, NEW T, S \subseteq T, NEW q \in Seq(S)
    PROVE  q \in Seq(T)
  <1>1. Len(q) \in Nat /\ q = [i \in 1..Len(q) |-> q[i]] /\ \A i \in 1..Len(q) : q[i] \in T
    OBVIOUS
  <1>2. [i \in 1..Len(q) |-> q[i]] \in Seq(T)
    BY <1>1
  <1> QED BY <1>1, <1>2

LEMMA PositionFacts ==
    ASSUME NEW S, NEW list \in Seq(S), NEW key \in KeysOf(list)
    PROVE  /\ Position(list, key) \in 1..Len(list) /\ list[Position(list, key)] \in S
           /\ list[Position(list, key)].key = key
  <1>1. DOMAIN list = 1..Len(list)
    OBVIOUS
  <1>2. \E i \in DOMAIN list : list[i].key = key
    BY DEF KeysOf
  <1>3. Position(list, key) \in DOMAIN list /\ list[Position(list, key)].key = key
    BY <1>2 DEF Position
  <1> QED BY <1>1, <1>3, ElementOfSeq

LEMMA TouchType ==
    ASSUME NEW S, NEW list \in Seq(S), NEW key
    PROVE  Touch(list, key) \in Seq(S)
  <1>1. CASE key \notin KeysOf(list)
    BY <1>1 DEF Touch
  <1>2. CASE key \in KeysOf(list)
    <2> DEFINE i == Position(list, key)
    <2>1. i \in 1..Len(list) /\ list[i] \in S
      BY <1>2, PositionFacts
    <2>2. Touch(list, key) = PushFront(EraseAt(list, i), list[i])
      BY <1>2 DEF Touch
    <2> HIDE DEF i
    <2>3. EraseAt(list, i) \in Seq(S)
      BY <2>1, EraseFacts
    <2> QED BY <2>1, <2>2, <2>3, PushFacts
  <1> QED BY <1>1, <1>2

LEMMA AddBoundedType ==
    ASSUME NEW S, NEW list \in Seq(S), NEW entry \in S, NEW size \in Nat
    PROVE  AddBounded(list, entry, size) \in Seq(S)
  <1> DEFINE longer == PushFront(WithoutKey(list, entry.key), entry)
  <1>1. longer \in Seq(S)
    <2>1. WithoutKey(list, entry.key) \in Seq(S)
      BY WithoutKeyFacts
    <2> QED BY <2>1, PushFacts
  <1>2. AddBounded(list, entry, size) = IF Len(longer) > size THEN SubSeq(longer, 1, size) ELSE longer
    BY DEF AddBounded
  <1> HIDE DEF longer
  <1>3. CASE Len(longer) > size
    <2>1. \A i \in 1..size : longer[i] \in S
      BY <1>1, <1>3
    <2>2. SubSeq(longer, 1, size) \in Seq(S)
      BY <1>1, <1>3, <2>1, SubSeqProperties
    <2> QED BY <1>2, <1>3, <2>2
  <1> QED BY <1>1, <1>2, <1>3

(* The greater of two numbers.                                             *)
LEMMA GreaterOfTwo ==
    ASSUME NEW a \in Nat, NEW b \in Nat
    PROVE  Max({a, b}) \in Nat /\ a <= Max({a, b}) /\ b <= Max({a, b}) /\ Max({a, b}) \in {a, b}
  <1>1. \E x \in {a, b} : \A y \in {a, b} : x >= y
    <2>1. a >= b \/ b >= a
      OBVIOUS
    <2> QED BY <2>1
  <1>2. Max({a, b}) \in {a, b} /\ \A y \in {a, b} : Max({a, b}) >= y
    BY <1>1 DEF Max
  <1> QED BY <1>2
----------------------------------------------------------------------------
(* A popularity list: its entries, and which come before which.            *)

\* A list with one entry for each key.
IsList(q) == (\E C : q \in Seq(C)) /\ OneEntryPerKey(q)
EntriesOf(q) == {q[i] : i \in DOMAIN q}

LEMMA SameEntry ==
    ASSUME NEW q, IsList(q), NEW e \in EntriesOf(q), NEW f \in EntriesOf(q), e.key = f.key
    PROVE  e = f
  BY DEF IsList, EntriesOf, OneEntryPerKey

LEMMA EntryFound ==
    ASSUME NEW q, IsList(q), NEW key \in KeysOf(q)
    PROVE  q[Position(q, key)] \in EntriesOf(q) /\ q[Position(q, key)].key = key
  <1>1. \E i \in DOMAIN q : q[i].key = key
    BY DEF KeysOf
  <1>2. Position(q, key) \in DOMAIN q /\ q[Position(q, key)].key = key
    BY <1>1 DEF Position
  <1> QED BY <1>2 DEF EntriesOf

LEMMA KeysOfEntries ==
    ASSUME NEW q, NEW e \in EntriesOf(q)
    PROVE  e.key \in KeysOf(q)
  BY DEF EntriesOf, KeysOf

LEMMA EntryErased ==
    ASSUME NEW q, IsList(q), NEW key
    PROVE  /\ IsList(WithoutKey(q, key))
           /\ EntriesOf(WithoutKey(q, key)) \subseteq {e \in EntriesOf(q) : e.key # key}
  <1>1. PICK C : q \in Seq(C)
    BY DEF IsList
  <1> DEFINE w == WithoutKey(q, key)
  <1>2. /\ w \in Seq(C) /\ \A j \in DOMAIN w : \E k \in DOMAIN q : w[j] = q[k]
        /\ OneEntryPerKey(w) /\ key \notin KeysOf(w)
    BY <1>1, WithoutKeyFacts DEF IsList
  <1> HIDE DEF w
  <1>3. IsList(w)
    BY <1>2 DEF IsList
  <1>4. \A e \in EntriesOf(w) : e \in EntriesOf(q) /\ e.key # key
    BY <1>2 DEF EntriesOf, KeysOf
  <1> QED BY <1>3, <1>4 DEF w

LEMMA EntryToFront ==
    ASSUME NEW q, IsList(q), NEW key
    PROVE  /\ IsList(Touch(q, key)) /\ EntriesOf(Touch(q, key)) \subseteq EntriesOf(q)
           /\ key \in KeysOf(q) => key \in KeysOf(Touch(q, key))
  <1>1. PICK C : q \in Seq(C)
    BY DEF IsList
  <1>2. CASE key \notin KeysOf(q)
    BY <1>2 DEF Touch
  <1>3. CASE key \in KeysOf(q)
    <2> DEFINE i == Position(q, key)
               w == EraseAt(q, i)
               front == q[i]
               p == PushFront(w, front)
    <2>1. i \in 1..Len(q) /\ q[i] \in C /\ q[i].key = key
      BY <1>1, <1>3, PositionFacts
    <2>2. Touch(q, key) = p
      BY <1>3 DEF Touch
    <2> HIDE DEF i
    <2>3. /\ w \in Seq(C) /\ OneEntryPerKey(w)
          /\ \A j \in DOMAIN w : \E k \in DOMAIN q : k # i /\ w[j] = q[k]
      BY <1>1, <2>1, EraseFacts, EraseKeeps DEF IsList
    <2> HIDE DEF w
    <2>4. /\ p \in Seq(C) /\ Len(p) = Len(w) + 1 /\ p[1] = q[i] /\ Len(w) \in Nat
          /\ \A j \in 2..(Len(w) + 1) : p[j] = w[j - 1]
      <3>1. front \in C /\ front = q[i] /\ Len(w) \in Nat
        BY <2>1, <2>3
      <3> HIDE DEF front
      <3>2. w \in Seq(C)
        BY <2>3
      <3>3. /\ p \in Seq(C) /\ Len(p) = Len(w) + 1 /\ p[1] = front
            /\ \A j \in 2..(Len(w) + 1) : p[j] = w[j - 1]
        BY ONLY <3>1, <3>2, PushFacts
      <3> QED BY <3>1, <3>3
    <2> HIDE DEF p
    <2>5. DOMAIN p = 1..(Len(w) + 1) /\ DOMAIN w = 1..Len(w)
      BY <2>3, <2>4
    <2>6. \A j \in DOMAIN p : j = 1 \/ (j # 1 /\ j - 1 \in DOMAIN w /\ p[j] = w[j - 1])
      BY <2>4, <2>5
    <2>7. \A j \in DOMAIN w : w[j].key # key
      BY <2>1, <2>3 DEF IsList, OneEntryPerKey
    <2>8. OneEntryPerKey(p)
      <3> SUFFICES ASSUME NEW j \in DOMAIN p, NEW k \in DOMAIN p, j # k PROVE p[j].key # p[k].key
        BY DEF OneEntryPerKey
      <3>1. CASE j = 1
        BY <2>1, <2>4, <2>6, <2>7, <3>1
      <3>2. CASE k = 1
        BY <2>1, <2>4, <2>6, <2>7, <3>2
      <3>3. CASE j # 1 /\ k # 1
        <4>1. j - 1 # k - 1
          BY <2>4, <2>5
        <4> QED BY <2>3, <2>6, <3>3, <4>1 DEF OneEntryPerKey
      <3> QED BY <3>1, <3>2, <3>3
    <2>9. \A j \in DOMAIN p : p[j] \in EntriesOf(q)
      BY <2>1, <2>3, <2>4, <2>6, <1>1 DEF EntriesOf
    <2>10. key \in KeysOf(p)
      BY <2>1, <2>4, <2>5 DEF KeysOf
    <2> QED BY <2>2, <2>4, <2>8, <2>9, <2>10 DEF IsList, EntriesOf
  <1> QED BY <1>2, <1>3

LEMMA EntryInFront ==
    ASSUME NEW q, IsList(q), NEW entry, NEW size \in Nat \ {0}
    PROVE  LET a == AddBounded(q, entry, size)
           IN  /\ IsList(a) /\ entry \in EntriesOf(a)
               /\ EntriesOf(a) \subseteq {e \in EntriesOf(q) : e.key # entry.key} \cup {entry}
  <1> DEFINE a == AddBounded(q, entry, size)
  <1>1. PICK C : q \in Seq(C)
    BY DEF IsList
  <1>2. q \in Seq(C \cup {entry}) /\ entry \in C \cup {entry} /\ size \in Nat
    BY <1>1, SeqWider
  <1>3. OneEntryPerKey(q)
    BY DEF IsList
  <1>4. /\ a \in Seq(C \cup {entry}) /\ OneEntryPerKey(a)
        /\ \A j \in DOMAIN a : \/ a[j] = entry
                               \/ a[j].key # entry.key /\ \E k \in DOMAIN q : a[j] = q[k]
    <2> DEFINE D == C \cup {entry}
    <2>1. q \in Seq(D)
      BY <1>2
    <2>2. entry \in D
      OBVIOUS
    <2>3. size \in Nat
      BY <1>2
    <2> HIDE DEF D
    <2> HIDE DEF a
    <2>4. /\ AddBounded(q, entry, size) \in Seq(D) /\ OneEntryPerKey(AddBounded(q, entry, size))
          /\ \A j \in DOMAIN AddBounded(q, entry, size) :
                \/ AddBounded(q, entry, size)[j] = entry
                \/ /\ AddBounded(q, entry, size)[j].key # entry.key
                   /\ \E k \in DOMAIN q : AddBounded(q, entry, size)[j] = q[k]
      BY ONLY <2>1, <2>2, <2>3, <1>3, AddBoundedFacts
    <2> QED BY <2>4 DEF a, D
  <1>5. 1 \in DOMAIN a /\ a[1] = entry
    <2> DEFINE w == WithoutKey(q, entry.key)
               p == PushFront(w, entry)
    <2>1. w \in Seq(C \cup {entry})
      BY <1>2, WithoutKeyFacts
    <2> HIDE DEF w
    <2>2. p \in Seq(C \cup {entry}) /\ Len(p) = Len(w) + 1 /\ Len(w) \in Nat /\ p[1] = entry
      BY <1>2, <2>1, PushFacts
    <2>3. a = IF Len(p) > size THEN SubSeq(p, 1, size) ELSE p
      BY DEF AddBounded, w
    <2> HIDE DEF p, a
    <2>4. CASE Len(p) > size
      BY <2>2, <2>3, <2>4
    <2>5. CASE ~(Len(p) > size)
      BY <2>2, <2>3, <2>5
    <2> QED BY <2>4, <2>5
  <1> HIDE DEF a
  <1>6. IsList(a) /\ entry \in EntriesOf(a)
    BY <1>4, <1>5 DEF IsList, EntriesOf
  <1>7. \A e \in EntriesOf(a) : e = entry \/ (e \in EntriesOf(q) /\ e.key # entry.key)
    BY <1>4 DEF EntriesOf
  <1> QED BY <1>6, <1>7 DEF a

KeyPrecedes(q, x, y) == \E a, b \in DOMAIN q : a < b /\ q[a].key = x /\ q[b].key = y

\* The keys before this one.
KeysBefore(q, y) == {x \in KeysOf(q) : KeyPrecedes(q, x, y)}

\* The list with an entry added, before anything is dropped.
PutFirst(q, entry) == PushFront(WithoutKey(q, entry.key), entry)

LEMMA KeyPrecedesBy ==
    ASSUME NEW q, NEW a \in DOMAIN q, NEW b \in DOMAIN q, a < b
    PROVE  KeyPrecedes(q, q[a].key, q[b].key) /\ q[a].key \in KeysBefore(q, q[b].key)
  BY DEF KeyPrecedes, KeysBefore, KeysOf

\* A list whose keys are among a finite set's is no longer than the set is large.
LEMMA ListLength ==
    ASSUME NEW q, IsList(q), NEW T, IsFiniteSet(T), KeysOf(q) \subseteq T
    PROVE  Len(q) \in Nat /\ Len(q) <= Cardinality(T)
  <1> DEFINE n == Len(q)
             f == [i \in 1..n |-> q[i].key]
  <1>1. n \in Nat /\ DOMAIN q = 1..n
    BY DEF IsList
  <1>2. \A i \in 1..n : f[i] \in T
    BY <1>1 DEF KeysOf
  <1>3. \A i, j \in 1..n : f[i] = f[j] => i = j
    BY <1>1 DEF IsList, OneEntryPerKey
  <1>4. f \in [1..n -> T]
    BY <1>2
  <1> HIDE DEF f, n
  <1>5. f \in Injection(1..n, T)
    BY <1>3, <1>4 DEF Injection, IsInjective
  <1>6. Cardinality(1..n) <= Cardinality(T)
    BY <1>5, FS_Injection
  <1>7. Cardinality(1..n) = n
    <2>1. 1 \in Int /\ n \in Int
      BY <1>1
    <2>2. Cardinality(1..n) = IF 1 > n THEN 0 ELSE n - 1 + 1
      BY <2>1, FS_Interval
    <2> QED BY <1>1, <2>2
  <1> QED BY <1>1, <1>6, <1>7 DEF n

LEMMA EntryErasedFacts ==
    ASSUME NEW q, IsList(q), NEW key
    PROVE  LET w == WithoutKey(q, key)
           IN  /\ IsList(w) /\ EntriesOf(w) = {e \in EntriesOf(q) : e.key # key}
               /\ \A y : KeysBefore(w, y) \subseteq KeysBefore(q, y)
  <1> DEFINE w == WithoutKey(q, key)
  <1>1. PICK C : q \in Seq(C)
    BY DEF IsList
  <1>2. OneEntryPerKey(q)
    BY DEF IsList
  <1>3. IsList(w) /\ EntriesOf(w) \subseteq {e \in EntriesOf(q) : e.key # key}
    BY EntryErased
  <1>4. PICK h \in [DOMAIN w -> DOMAIN q] :
           /\ \A j \in DOMAIN w : w[j] = q[h[j]] /\ q[h[j]].key # key
           /\ \A i, j \in DOMAIN w : i <= j => h[i] <= h[j]
           /\ \A p \in DOMAIN q : q[p].key # key => \E j \in DOMAIN w : h[j] = p
    BY <1>1, <1>2, WithoutKeyOrder
  <1> HIDE DEF w
  <1>5. DOMAIN w \subseteq Int /\ DOMAIN q \subseteq Int
    BY <1>1, <1>3 DEF IsList
  <1>6. {e \in EntriesOf(q) : e.key # key} \subseteq EntriesOf(w)
    <2> SUFFICES ASSUME NEW p \in DOMAIN q, q[p].key # key PROVE q[p] \in EntriesOf(w)
      BY DEF EntriesOf
    <2> QED BY <1>4 DEF EntriesOf
  <1>7. ASSUME NEW y, NEW x \in KeysBefore(w, y) PROVE x \in KeysBefore(q, y)
    <2>1. PICK a, b \in DOMAIN w : a < b /\ w[a].key = x /\ w[b].key = y
      BY DEF KeysBefore, KeyPrecedes
    <2>2. w[a].key # w[b].key
      BY <1>3, <1>5, <2>1 DEF IsList, OneEntryPerKey
    <2>3. /\ h[a] \in DOMAIN q /\ h[b] \in DOMAIN q /\ h[a] <= h[b]
          /\ q[h[a]].key = x /\ q[h[b]].key = y
      BY <1>4, <1>5, <2>1
    <2>4. h[a] < h[b]
      BY <1>5, <2>1, <2>2, <2>3
    <2> QED BY <2>3, <2>4, KeyPrecedesBy
  <1> QED BY <1>3, <1>6, <1>7 DEF w

LEMMA PutFacts ==
    ASSUME NEW q, IsList(q), NEW entry
    PROVE  LET p == PutFirst(q, entry)
           IN  /\ IsList(p) /\ EntriesOf(p) = {e \in EntriesOf(q) : e.key # entry.key} \cup {entry}
               /\ KeysBefore(p, entry.key) = {}
               /\ \A y : KeysBefore(p, y) \subseteq KeysBefore(q, y) \cup {entry.key}
  <1> DEFINE w == WithoutKey(q, entry.key)
             p == PushFront(w, entry)
  <1>1. /\ IsList(w) /\ EntriesOf(w) = {e \in EntriesOf(q) : e.key # entry.key}
        /\ \A y : KeysBefore(w, y) \subseteq KeysBefore(q, y)
    BY EntryErasedFacts
  <1> HIDE DEF w
  <1>2. PICK S : w \in Seq(S) /\ entry \in S
    <2>1. PICK C : w \in Seq(C)
      BY <1>1 DEF IsList
    <2>2. w \in Seq(C \cup {entry}) /\ entry \in C \cup {entry}
      BY <2>1, SeqWider
    <2> QED BY <2>2
  <1>3. /\ p \in Seq(S) /\ Len(p) = Len(w) + 1 /\ p[1] = entry
        /\ \A j \in 2..(Len(w) + 1) : p[j] = w[j - 1]
    <2>1. w \in Seq(S)
      BY <1>2
    <2>2. entry \in S
      BY <1>2
    <2> QED BY ONLY <2>1, <2>2, PushFacts
  <1>4. Len(w) \in Nat /\ DOMAIN w = 1..Len(w) /\ DOMAIN p = 1..(Len(w) + 1)
    BY <1>2, <1>3
  <1> HIDE DEF p
  <1>5. \A j \in DOMAIN p : j = 1 \/ (j # 1 /\ j - 1 \in DOMAIN w /\ p[j] = w[j - 1])
    BY <1>3, <1>4
  <1>6. \A j \in DOMAIN w : j + 1 \in DOMAIN p /\ p[j + 1] = w[j] /\ w[j].key # entry.key
    <2>1. \A j \in DOMAIN w : w[j].key # entry.key
      BY <1>1 DEF EntriesOf
    <2>2. \A j \in DOMAIN w : j + 1 \in DOMAIN p /\ p[j + 1] = w[j]
      BY <1>3, <1>4
    <2> QED BY <2>1, <2>2
  <1>7. OneEntryPerKey(p)
    <2> SUFFICES ASSUME NEW j \in DOMAIN p, NEW k \in DOMAIN p, j # k PROVE p[j].key # p[k].key
      BY DEF OneEntryPerKey
    <2>1. \A i \in DOMAIN p : i # 1 => p[i].key # entry.key
      BY <1>5, <1>6
    <2>2. CASE j = 1 \/ k = 1
      BY <1>3, <2>1, <2>2
    <2>3. CASE j # 1 /\ k # 1
      <3>1. j - 1 # k - 1
        BY <1>4
      <3> QED BY <1>1, <1>5, <2>3, <3>1 DEF IsList, OneEntryPerKey
    <2> QED BY <2>2, <2>3
  <1>8. EntriesOf(p) = EntriesOf(w) \cup {entry}
    <2>1. EntriesOf(p) \subseteq EntriesOf(w) \cup {entry}
      BY <1>3, <1>5 DEF EntriesOf
    <2>2. entry \in EntriesOf(p)
      BY <1>3, <1>4 DEF EntriesOf
    <2>3. EntriesOf(w) \subseteq EntriesOf(p)
      BY <1>6 DEF EntriesOf
    <2> QED BY <2>1, <2>2, <2>3
  <1>9. ASSUME NEW y, NEW x \in KeysBefore(p, y)
        PROVE  y # entry.key /\ (x = entry.key \/ x \in KeysBefore(w, y))
    <2>1. PICK a, b \in DOMAIN p : a < b /\ p[a].key = x /\ p[b].key = y
      BY DEF KeysBefore, KeyPrecedes
    <2>2. b # 1
      BY <1>4, <2>1
    <2>3. b - 1 \in DOMAIN w /\ w[b - 1].key = y /\ y # entry.key
      BY <1>5, <1>6, <2>1, <2>2
    <2>4. CASE a = 1
      BY <1>3, <2>1, <2>3, <2>4
    <2>5. CASE a # 1
      <3>1. a - 1 \in DOMAIN w /\ w[a - 1].key = x /\ a - 1 < b - 1
        BY <1>4, <1>5, <2>1, <2>5
      <3> QED BY <2>3, <3>1, KeyPrecedesBy
    <2> QED BY <2>4, <2>5
  <1>10. IsList(p)
    BY <1>3, <1>7 DEF IsList
  <1>11. PutFirst(q, entry) = p
    BY DEF PutFirst, w, p
  <1>12. KeysBefore(p, entry.key) = {}
    BY <1>9
  <1>13. \A y : KeysBefore(p, y) \subseteq KeysBefore(q, y) \cup {entry.key}
    BY <1>1, <1>9
  <1> QED BY <1>1, <1>8, <1>10, <1>11, <1>12, <1>13

LEMMA TouchedPut ==
    ASSUME NEW q, NEW key \in KeysOf(q)
    PROVE  Touch(q, key) = PutFirst(q, q[Position(q, key)]) /\ q[Position(q, key)].key = key
  <1>1. \E i \in DOMAIN q : q[i].key = key
    BY DEF KeysOf
  <1>2. q[Position(q, key)].key = key
    BY <1>1 DEF Position
  <1> QED BY <1>2 DEF Touch, PutFirst, WithoutKey

\* What has fewer keys before it than there are places keeps its place.
LEMMA CutKeeps ==
    ASSUME NEW q, IsList(q), NEW size \in Nat, Len(q) > size
    PROVE  LET c == SubSeq(q, 1, size)
           IN  /\ IsList(c) /\ EntriesOf(c) \subseteq EntriesOf(q)
               /\ \A y : KeysBefore(c, y) \subseteq KeysBefore(q, y)
               /\ \A y \in KeysOf(q) : IsFiniteSet(KeysBefore(q, y)) /\ Cardinality(KeysBefore(q, y)) < size
                                       => y \in KeysOf(c)
  <1> DEFINE c == SubSeq(q, 1, size)
  <1>1. PICK C : q \in Seq(C)
    BY DEF IsList
  <1>2. Len(q) \in Nat /\ DOMAIN q = 1..Len(q)
    BY <1>1
  <1>3. c \in Seq(C) /\ DOMAIN c = 1..size /\ \A i \in 1..size : i \in DOMAIN q /\ c[i] = q[i]
    BY <1>1, <1>2
  <1> HIDE DEF c
  <1>4. IsList(c)
    BY <1>3 DEF IsList, OneEntryPerKey
  <1>5. EntriesOf(c) \subseteq EntriesOf(q)
    BY <1>3 DEF EntriesOf
  <1>6. ASSUME NEW y, NEW x \in KeysBefore(c, y) PROVE x \in KeysBefore(q, y)
    <2>1. PICK a, b \in DOMAIN c : a < b /\ c[a].key = x /\ c[b].key = y
      BY DEF KeysBefore, KeyPrecedes
    <2>2. a \in DOMAIN q /\ b \in DOMAIN q /\ q[a].key = x /\ q[b].key = y
      BY <1>3, <2>1
    <2> QED BY <2>1, <2>2, KeyPrecedesBy
  <1>7. ASSUME NEW y \in KeysOf(q), IsFiniteSet(KeysBefore(q, y)), Cardinality(KeysBefore(q, y)) < size
        PROVE  y \in KeysOf(c)
    <2>1. PICK b \in DOMAIN q : q[b].key = y
      BY DEF KeysOf
    <2> DEFINE front == SubSeq(q, 1, b - 1)
    <2>2. /\ front \in Seq(C) /\ Len(front) = b - 1 /\ DOMAIN front = 1..(b - 1)
          /\ \A i \in 1..(b - 1) : i \in DOMAIN q /\ i < b /\ front[i] = q[i]
      BY <1>1, <1>2
    <2> HIDE DEF front
    <2>3. IsList(front)
      BY <2>2 DEF IsList, OneEntryPerKey
    <2>4. KeysOf(front) \subseteq KeysBefore(q, y)
      <3> SUFFICES ASSUME NEW i \in 1..(b - 1) PROVE front[i].key \in KeysBefore(q, y)
        BY <2>2 DEF KeysOf
      <3> QED BY <2>1, <2>2, KeyPrecedesBy
    <2>5. b - 1 <= Cardinality(KeysBefore(q, y))
      BY <1>7, <2>2, <2>3, <2>4, ListLength
    <2>6. Cardinality(KeysBefore(q, y)) \in Nat
      BY <1>7, FS_CardinalityType
    <2>7. b \in 1..size
      BY <1>2, <1>7, <2>5, <2>6
    <2> QED BY <1>3, <2>1, <2>7 DEF KeysOf
  <1> QED BY <1>4, <1>5, <1>6, <1>7 DEF c

LEMMA AddBoundedKeeps ==
    ASSUME NEW q, IsList(q), NEW entry, NEW size \in Nat \ {0}
    PROVE  LET a == AddBounded(q, entry, size)
               p == PutFirst(q, entry)
           IN  /\ IsList(a) /\ EntriesOf(a) \subseteq EntriesOf(p) /\ entry \in EntriesOf(a)
               /\ \A y : KeysBefore(a, y) \subseteq KeysBefore(p, y)
               /\ \A y \in KeysOf(p) : IsFiniteSet(KeysBefore(p, y)) /\ Cardinality(KeysBefore(p, y)) < size
                                       => y \in KeysOf(a)
               /\ Len(p) <= size => a = p
  <1> DEFINE p == PutFirst(q, entry)
             a == AddBounded(q, entry, size)
  <1>1. IsList(p)
    BY PutFacts
  <1>2. a = IF Len(p) > size THEN SubSeq(p, 1, size) ELSE p
    BY DEF AddBounded, PutFirst
  <1>3. IsList(a) /\ entry \in EntriesOf(a)
    BY EntryInFront
  <1>4. Len(p) \in Nat
    BY <1>1 DEF IsList
  <1> HIDE DEF p, a
  <1>5. CASE Len(p) > size
    BY <1>1, <1>2, <1>3, <1>4, <1>5, CutKeeps DEF p, a
  <1>6. CASE ~(Len(p) > size)
    BY <1>2, <1>3, <1>6 DEF p, a
  <1> QED BY <1>5, <1>6
=============================================================================
