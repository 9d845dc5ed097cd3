---------------------------- MODULE Utils_proofs ----------------------------
(***************************************************************************)
(* Proofs about classes of PacketParser that its handlers use, for all     *)
(* their parameters.  The list and the map of a PopularityList agree, and  *)
(* the pool's size is respected.  The text searches find what they are to  *)
(* find, and the StreamReassembler notices a terminator and says what it   *)
(* used.                                                                   *)
(***************************************************************************)
EXTENDS PopularityList, StreamReassembler, SequenceFacts

Distinct(list) ==
    \A i, j \in DOMAIN list :
        i # j => list[i].key # list[j].key /\ list[i].node # list[j].node

IInv == TypeOK /\ IndexMatchesList /\ WithinPool

----------------------------------------------------------------------------
LEMMA LastFreshFacts ==
    ASSUME NEW list \in Seq(Entry), NEW value
    PROVE  LastFresh(list, value) \in 0..Len(list)
  <1> DEFINE fresh == {i \in DOMAIN list : ~Expired(list[i].value, value)}
  <1>1. Len(list) \in Nat /\ fresh \in SUBSET (1..Len(list))
    OBVIOUS
  <1>2. CASE fresh = {}
    BY <1>1, <1>2 DEF LastFresh
  <1>3. CASE fresh # {}
    <2>1. \E i \in fresh : \A j \in fresh : j <= i
      <3> HIDE DEF fresh
      <3> QED BY <1>1, <1>3, GreatestPosition
    <2>2. LastFresh(list, value) \in fresh
      BY <2>1, <1>3 DEF LastFresh
    <2> QED BY <1>1, <2>2
  <1> QED BY <1>2, <1>3

----------------------------------------------------------------------------
(* The position of a node or of a key, when the list has it.                *)
LEMMA NodeAtFacts ==
    ASSUME NEW list \in Seq(Entry), NEW n \in NodesOf(list)
    PROVE  NodeAt(list, n) \in DOMAIN list /\ list[NodeAt(list, n)].node = n
  BY DEF NodeAt, NodesOf

(* The entries after position m.                                            *)
LEMMA RestFacts ==
    ASSUME NEW list \in Seq(Entry), NEW m \in Nat, m <= Len(list)
    PROVE  /\ SubSeq(list, m + 1, Len(list)) \in Seq(Entry)
           /\ Len(SubSeq(list, m + 1, Len(list))) = Len(list) - m
           /\ \A j \in 1..(Len(list) - m) : SubSeq(list, m + 1, Len(list))[j] = list[j + m]
  <1>1. Len(list) \in Nat /\ \A j \in 1..Len(list) : list[j] \in Entry
    OBVIOUS
  <1> QED BY <1>1, SubSeqProperties

(* What Distinct says of a list that is part of another.                    *)
LEMMA DistinctPart ==
    ASSUME NEW list \in Seq(Entry), Distinct(list), NEW m \in Nat, m <= Len(list)
    PROVE  /\ SubSeq(list, 1, m) \in Seq(Entry)
           /\ Len(SubSeq(list, 1, m)) = m
           /\ \A j \in 1..m : SubSeq(list, 1, m)[j] = list[j]
           /\ Distinct(SubSeq(list, 1, m))
           /\ KeysOf(SubSeq(list, 1, m))
                = KeysOf(list) \ KeysOf(SubSeq(list, m + 1, Len(list)))
  <1> DEFINE a == SubSeq(list, 1, m)
             b == SubSeq(list, m + 1, Len(list))
  <1>0. Len(list) \in Nat /\ \A j \in 1..Len(list) : list[j] \in Entry
    OBVIOUS
  <1>1. a \in Seq(Entry) /\ Len(a) = m /\ \A j \in 1..m : a[j] = list[j]
    BY <1>0, SubSeqProperties
  <1>2. b \in Seq(Entry) /\ Len(b) = Len(list) - m /\ \A j \in 1..(Len(list) - m) : b[j] = list[j + m]
    BY RestFacts
  <1> HIDE DEF a, b
  <1>d. DOMAIN a = 1..m /\ DOMAIN b = 1..(Len(list) - m) /\ DOMAIN list = 1..Len(list)
    BY <1>1, <1>2
  <1>3. Distinct(a)
    <2>1. ASSUME NEW i \in 1..m, NEW j \in 1..m, i # j
          PROVE  a[i].key # a[j].key /\ a[i].node # a[j].node
      <3>1. i \in 1..Len(list) /\ j \in 1..Len(list)
        BY <1>0
      <3> QED BY <3>1, <2>1, <1>1, <1>d DEF Distinct
    <2> QED BY <2>1, <1>d DEF Distinct
  <1>4. KeysOf(a) = KeysOf(list) \ KeysOf(b)
    <2>1. ASSUME NEW i \in 1..m PROVE a[i].key \in KeysOf(list) /\ a[i].key \notin KeysOf(b)
      <3>1. i \in 1..Len(list) /\ a[i] = list[i]
        BY <1>0, <1>1
      <3>2. ASSUME NEW j \in 1..(Len(list) - m) PROVE b[j].key # a[i].key
        <4>1. j + m \in 1..Len(list) /\ j + m # i /\ b[j] = list[j + m]
          BY <1>0, <1>2
        <4> QED BY <4>1, <3>1, <1>d DEF Distinct
      <3> QED BY <3>1, <3>2, <1>d DEF KeysOf
    <2>2. ASSUME NEW i \in 1..Len(list), list[i].key \notin KeysOf(b) PROVE list[i].key \in KeysOf(a)
      <3>1. CASE i <= m
        <4>1. i \in 1..m
          BY <3>1
        <4> QED BY <4>1, <1>1, <1>d DEF KeysOf
      <3>2. CASE ~(i <= m)
        <4>1. i - m \in 1..(Len(list) - m) /\ (i - m) + m = i
          BY <3>2, <1>0
        <4>2. b[i - m] = list[i]
          BY <4>1, <1>2
        <4> QED BY <4>1, <4>2, <2>2, <1>d DEF KeysOf
      <3> QED BY <3>1, <3>2
    <2> QED BY <2>1, <2>2, <1>d DEF KeysOf
  <1> QED BY <1>1, <1>3, <1>4 DEF a, b

(* Taking one entry out of a list without repetitions.                      *)
LEMMA DistinctErase ==
    ASSUME NEW list \in Seq(Entry), Distinct(list), NEW i \in DOMAIN list
    PROVE  /\ Distinct(EraseAt(list, i))
           /\ KeysOf(EraseAt(list, i)) = KeysOf(list) \ {list[i].key}
           /\ NodesOf(EraseAt(list, i)) = NodesOf(list) \ {list[i].node}
  <1> DEFINE e == EraseAt(list, i)
             From(j) == IF j < i THEN j ELSE j + 1
  <1>0. Len(list) \in Nat /\ i \in 1..Len(list)
    OBVIOUS
  <1>1. e \in Seq(Entry) /\ Len(e) = Len(list) - 1
        /\ \A j \in 1..(Len(list) - 1) : e[j] = list[From(j)]
    BY <1>0, EraseFacts
  <1> HIDE DEF e
  <1>d. DOMAIN e = 1..(Len(list) - 1) /\ DOMAIN list = 1..Len(list)
    BY <1>1, <1>0
  <1>2. \A j \in 1..(Len(list) - 1) : From(j) \in 1..Len(list) /\ From(j) # i
    BY <1>0
  <1>3. \A j, k \in 1..(Len(list) - 1) : j # k => From(j) # From(k)
    BY <1>0
  <1>4. ASSUME NEW k \in 1..Len(list), k # i
        PROVE  \E j \in 1..(Len(list) - 1) : From(j) = k
    <2>1. CASE k < i
      BY <2>1, <1>0
    <2>2. CASE ~(k < i)
      <3>1. k - 1 \in 1..(Len(list) - 1) /\ From(k - 1) = k
        BY <2>2, <1>4, <1>0
      <3> QED BY <3>1
    <2> QED BY <2>1, <2>2
  <1> HIDE DEF From
  <1>5. Distinct(e)
    BY <1>1, <1>2, <1>3, <1>d DEF Distinct
  <1>6. KeysOf(e) = KeysOf(list) \ {list[i].key}
    <2>1. \A j \in DOMAIN e : e[j].key \in KeysOf(list) \ {list[i].key}
      BY <1>0, <1>1, <1>2, <1>d DEF Distinct, KeysOf
    <2>2. \A k \in DOMAIN list : list[k].key # list[i].key => list[k].key \in KeysOf(e)
      BY <1>1, <1>4, <1>d DEF KeysOf
    <2> QED BY <2>1, <2>2 DEF KeysOf
  <1>7. NodesOf(e) = NodesOf(list) \ {list[i].node}
    <2>1. \A j \in DOMAIN e : e[j].node \in NodesOf(list) \ {list[i].node}
      BY <1>0, <1>1, <1>2, <1>d DEF Distinct, NodesOf
    <2>2. \A k \in DOMAIN list : list[k].node # list[i].node => list[k].node \in NodesOf(e)
      BY <1>1, <1>4, <1>d DEF NodesOf
    <2> QED BY <2>1, <2>2 DEF NodesOf
  <1> QED BY <1>5, <1>6, <1>7 DEF e

(* Putting an entry with a new key and a new node in front.                 *)
LEMMA DistinctPush ==
    ASSUME NEW list \in Seq(Entry), Distinct(list), NEW e \in Entry,
           e.key \notin KeysOf(list), e.node \notin NodesOf(list)
    PROVE  /\ Distinct(PushFront(list, e))
           /\ KeysOf(PushFront(list, e)) = KeysOf(list) \cup {e.key}
  <1> DEFINE p == PushFront(list, e)
  <1>0. Len(list) \in Nat
    OBVIOUS
  <1>1. p \in Seq(Entry) /\ Len(p) = Len(list) + 1 /\ p[1] = e
        /\ \A j \in 2..(Len(list) + 1) : p[j] = list[j - 1]
    BY PushFacts
  <1> HIDE DEF p
  <1>d. DOMAIN p = 1..(Len(list) + 1) /\ DOMAIN list = 1..Len(list)
    BY <1>0, <1>1
  <1>2. \A j \in 2..(Len(list) + 1) : j - 1 \in 1..Len(list)
    BY <1>0
  <1>3. \A j \in 1..(Len(list) + 1) : j = 1 \/ j \in 2..(Len(list) + 1)
    BY <1>0
  <1>4. \A k \in 1..Len(list) : k + 1 \in 2..(Len(list) + 1) /\ p[k + 1] = list[k]
    <2>1. \A k \in 1..Len(list) : k + 1 \in 2..(Len(list) + 1) /\ (k + 1) - 1 = k
      BY <1>0
    <2> QED BY <2>1, <1>1
  <1>5. ASSUME NEW i \in 1..(Len(list) + 1), NEW j \in 1..(Len(list) + 1), i # j
        PROVE  p[i].key # p[j].key /\ p[i].node # p[j].node
    <2>1. CASE i = 1
      <3>1. j \in 2..(Len(list) + 1)
        BY <2>1, <1>3, <1>5
      <3> QED BY <2>1, <3>1, <1>1, <1>2, <1>d DEF KeysOf, NodesOf
    <2>2. CASE j = 1
      <3>1. i \in 2..(Len(list) + 1)
        BY <2>2, <1>3, <1>5
      <3> QED BY <2>2, <3>1, <1>1, <1>2, <1>d DEF KeysOf, NodesOf
    <2>3. CASE i # 1 /\ j # 1
      <3>1. i \in 2..(Len(list) + 1) /\ j \in 2..(Len(list) + 1) /\ i - 1 # j - 1
        BY <2>3, <1>3, <1>5
      <3>2. /\ p[i] = list[i - 1] /\ p[j] = list[j - 1]
            /\ i - 1 \in 1..Len(list) /\ j - 1 \in 1..Len(list)
        BY <3>1, <1>1, <1>2
      <3> QED BY <3>1, <3>2, <1>d DEF Distinct
    <2> QED BY <2>1, <2>2, <2>3
  <1>6. KeysOf(p) = KeysOf(list) \cup {e.key}
    <2>1. \A j \in DOMAIN p : p[j].key \in KeysOf(list) \cup {e.key}
      BY <1>1, <1>2, <1>3, <1>d DEF KeysOf
    <2>2. \A k \in DOMAIN list : list[k].key \in KeysOf(p)
      BY <1>4, <1>d, <1>0 DEF KeysOf
    <2>3. e.key \in KeysOf(p)
      BY <1>0, <1>1, <1>d DEF KeysOf
    <2> QED BY <2>1, <2>2, <2>3 DEF KeysOf
  <1> QED BY <1>5, <1>6, <1>d DEF p, Distinct

----------------------------------------------------------------------------
(* Removing a key takes its entry out of the list and leaves the rest.      *)
LEMMA ErasedFacts ==
    ASSUME IInv, NEW key
    PROVE  /\ ErasedList(key) \in Seq(Entry)
           /\ Distinct(ErasedList(key))
           /\ KeysOf(ErasedList(key)) = DOMAIN sortedList \ {key}
           /\ NodesOf(ErasedList(key)) \subseteq NodesOf(linkedList)
           /\ Len(ErasedList(key)) <= Len(linkedList)
           /\ \A i \in DOMAIN ErasedList(key) :
                 sortedList[ErasedList(key)[i].key] = ErasedList(key)[i].node
  <1>0. /\ linkedList \in Seq(Entry) /\ Len(linkedList) \in Nat
        /\ Distinct(linkedList) /\ DOMAIN sortedList = KeysOf(linkedList)
        /\ \A i \in DOMAIN linkedList : sortedList[linkedList[i].key] = linkedList[i].node
    BY DEF IInv, TypeOK, IndexMatchesList, Distinct
  <1>1. CASE key \in DOMAIN sortedList
    <2> DEFINE n == NodeAt(linkedList, sortedList[key])
               e == EraseAt(linkedList, n)
    <2>1. sortedList[key] \in NodesOf(linkedList)
      BY <1>0, <1>1 DEF KeysOf, NodesOf
    <2>2. n \in 1..Len(linkedList) /\ n \in DOMAIN linkedList /\ linkedList[n].node = sortedList[key]
      BY <1>0, <2>1, NodeAtFacts
    <2> HIDE DEF n
    <2>3. linkedList[n].key = key
      BY <1>0, <1>1, <2>2 DEF KeysOf, Distinct
    <2>4. ErasedList(key) = e
      BY <1>1 DEF ErasedList, n
    <2>5. /\ Distinct(e) /\ KeysOf(e) = KeysOf(linkedList) \ {key}
          /\ NodesOf(e) \subseteq NodesOf(linkedList)
      BY <1>0, <2>2, <2>3, DistinctErase
    <2>6. /\ e \in Seq(Entry) /\ Len(e) = Len(linkedList) - 1
          /\ \A j \in 1..(Len(linkedList) - 1) :
                e[j] = IF j < n THEN linkedList[j] ELSE linkedList[j + 1]
      BY <1>0, <2>2, EraseFacts
    <2>7. ASSUME NEW j \in DOMAIN e PROVE sortedList[e[j].key] = e[j].node
      <3>1. j \in 1..(Len(linkedList) - 1)
        BY <2>6
      <3>2. \E i \in 1..Len(linkedList) : e[j] = linkedList[i]
        BY <3>1, <1>0, <2>6
      <3> QED BY <3>2, <1>0
    <2> QED BY <1>0, <2>4, <2>5, <2>6, <2>7
  <1>2. CASE key \notin DOMAIN sortedList
    BY <1>0, <1>2 DEF ErasedList
  <1> QED BY <1>1, <1>2

(* A list and a map that come from a consistent pair by putting the key in  *)
(* front and keeping m entries are consistent.                              *)
LEMMA AddKeepsIndex ==
    ASSUME IInv, NEW key \in Keys, NEW value \in Values,
           NEW node \in Nodes, node \notin NodesOf(ErasedList(key)),
           NEW m \in Nat, m <= Len(Added(key, value, node)),
           linkedList' = SubSeq(Added(key, value, node), 1, m),
           sortedList' = [k \in (DOMAIN sortedList \cup {key})
                                  \ KeysOf(SubSeq(Added(key, value, node), m + 1,
                                                  Len(Added(key, value, node))))
                              |-> IF k = key THEN node ELSE sortedList[k]]
    PROVE  /\ linkedList' \in Seq(Entry) /\ Len(linkedList') = m
           /\ DOMAIN sortedList' \subseteq Keys
           /\ \A k \in DOMAIN sortedList' : sortedList'[k] \in Nodes
           /\ IndexMatchesList'
  <1> DEFINE old == ErasedList(key)
             new == [key |-> key, value |-> value, node |-> node]
             added == Added(key, value, node)
             gone == KeysOf(SubSeq(added, m + 1, Len(added)))
             kept == SubSeq(added, 1, m)
  <1>1. /\ old \in Seq(Entry) /\ Len(old) \in Nat /\ Distinct(old)
        /\ KeysOf(old) = DOMAIN sortedList \ {key}
        /\ \A i \in DOMAIN old : sortedList[old[i].key] = old[i].node
    BY ErasedFacts
  <1>2. new \in Entry /\ new.key = key /\ new.node = node
    BY DEF Entry
  <1> HIDE DEF old, new
  <1>3. added = PushFront(old, new)
    BY DEF Added, old, new
  <1> HIDE DEF added
  <1>4. /\ added \in Seq(Entry) /\ Len(added) = Len(old) + 1 /\ added[1] = new
        /\ \A j \in 2..(Len(old) + 1) : added[j] = old[j - 1]
    <2>1. /\ PushFront(old, new) \in Seq(Entry)
          /\ Len(PushFront(old, new)) = Len(old) + 1
          /\ PushFront(old, new)[1] = new
          /\ \A j \in 2..(Len(old) + 1) : PushFront(old, new)[j] = old[j - 1]
      <3>1. old \in Seq(Entry) /\ new \in Entry
        BY <1>1, <1>2
      <3> QED BY ONLY <3>1, PushFacts
    <2> QED BY ONLY <2>1, <1>3
  <1>5. Distinct(added) /\ KeysOf(added) = DOMAIN sortedList \cup {key}
    <2>1. new.key \notin KeysOf(old) /\ new.node \notin NodesOf(old)
      BY <1>1, <1>2 DEF old
    <2>2. Distinct(added) /\ KeysOf(added) = KeysOf(old) \cup {key}
      BY <2>1, <1>1, <1>2, <1>3, DistinctPush
    <2> QED BY <2>2, <1>1
  <1>6. m <= Len(added)
    BY DEF added
  <1>7. /\ kept \in Seq(Entry) /\ Len(kept) = m
        /\ \A j \in 1..m : kept[j] = added[j]
        /\ Distinct(kept) /\ KeysOf(kept) = KeysOf(added) \ gone
    BY <1>4, <1>5, <1>6, DistinctPart
  <1>8. /\ linkedList' = kept
        /\ sortedList' = [k \in KeysOf(kept) |-> IF k = key THEN node ELSE sortedList[k]]
    BY <1>5, <1>7 DEF added
  <1> HIDE DEF kept, gone
  <1>9. ASSUME NEW j \in DOMAIN kept PROVE sortedList'[kept[j].key] = kept[j].node
    <2>0. j \in 1..m /\ j \in 1..Len(added) /\ kept[j] = added[j]
      BY <1>4, <1>6, <1>7
    <2>1. kept[j].key \in KeysOf(kept)
      BY DEF KeysOf
    <2>2. CASE j = 1
      BY <2>0, <2>1, <2>2, <1>2, <1>4, <1>8
    <2>3. CASE j # 1
      <3>1. j \in 2..(Len(old) + 1) /\ j - 1 \in 1..Len(old) /\ DOMAIN old = 1..Len(old)
        BY <2>0, <2>3, <1>1, <1>4
      <3>2. kept[j] = old[j - 1] /\ old[j - 1].key \in KeysOf(old)
        BY <3>1, <2>0, <1>4 DEF KeysOf
      <3>3. kept[j].key # key /\ sortedList[kept[j].key] = kept[j].node
        BY <3>1, <3>2, <1>1
      <3> QED BY <3>3, <2>1, <1>8
    <2> QED BY <2>2, <2>3
  <1>10. DOMAIN sortedList' \subseteq Keys
    BY <1>5, <1>7, <1>8 DEF IInv, TypeOK
  <1>11. \A k \in DOMAIN sortedList' : sortedList'[k] \in Nodes
    BY <1>5, <1>7, <1>8 DEF IInv, TypeOK
  <1>12. IndexMatchesList'
    BY <1>7, <1>8, <1>9 DEF IndexMatchesList, Distinct
  <1> QED BY <1>7, <1>8, <1>10, <1>11, <1>12

----------------------------------------------------------------------------
LEMMA InitIInv == Init => IInv
  BY PoolAssumption DEF Init, IInv, TypeOK, IndexMatchesList, WithinPool, KeysOf, Entry

(* Add: the new entry, expiry and room for it.                              *)
LEMMA AddInductive ==
    ASSUME IInv, NEW key \in Keys, NEW value \in Values, Add(key, value)
    PROVE  IInv'
  <1> PICK node \in Nodes \ NodesOf(ErasedList(key)), expand \in BOOLEAN :
        AddEntry(key, value, node, expand)
    BY DEF Add
  <1> DEFINE added == Added(key, value, node)
             fresh == LastFresh(added, value)
             size == PoolSizeFor(fresh, expand)
             kept == Fitting(fresh, size)
  <1>0. /\ minPoolSize \in Nat /\ maxPoolSize \in Nat /\ minPoolSize <= maxPoolSize
        /\ currentPoolSize \in minPoolSize..maxPoolSize
    BY PoolAssumption DEF IInv, TypeOK
  <1>1. added \in Seq(Entry) /\ Len(added) \in Nat
    <2>1. [key |-> key, value |-> value, node |-> node] \in Entry
      BY DEF Entry
    <2>2. ErasedList(key) \in Seq(Entry)
      BY ErasedFacts
    <2>3. PushFront(ErasedList(key), [key |-> key, value |-> value, node |-> node]) \in Seq(Entry)
      BY <2>1, <2>2, PushFacts
    <2> QED BY <2>3 DEF Added
  <1> HIDE DEF added
  <1>2. fresh \in 0..Len(added)
    BY <1>1, LastFreshFacts
  <1> HIDE DEF fresh
  <1>3. size \in minPoolSize..maxPoolSize
    BY <1>0, <1>1, <1>2 DEF PoolSizeFor
  <1> HIDE DEF size
  <1>4. kept \in Nat /\ kept <= Len(added) /\ kept <= size
    BY <1>0, <1>1, <1>2, <1>3 DEF Fitting
  <1> HIDE DEF kept
  <1>5. /\ linkedList' = SubSeq(added, 1, kept)
        /\ lost' = KeysAfter(added, kept)
        /\ currentPoolSize' = size
        /\ sortedList' = [k \in (DOMAIN sortedList \cup {key})
                                 \ KeysOf(SubSeq(added, kept + 1, Len(added)))
                             |-> IF k = key THEN node ELSE sortedList[k]]
    BY DEF AddEntry, added, fresh, size, kept
  <1>6. /\ linkedList' \in Seq(Entry) /\ Len(linkedList') = kept
        /\ DOMAIN sortedList' \subseteq Keys
        /\ \A k \in DOMAIN sortedList' : sortedList'[k] \in Nodes
        /\ IndexMatchesList'
    BY <1>4, <1>5, AddKeepsIndex DEF added
  <1>7. lost' \in Seq(Keys)
    <2> DEFINE n == Len(added) - kept
    <2>1. n \in Nat
      BY <1>1, <1>4
    <2>2. ASSUME NEW i \in 1..n PROVE added[Len(added) + 1 - i].key \in Keys
      <3>1. Len(added) + 1 - i \in 1..Len(added)
        BY <1>1, <1>4
      <3>2. added[Len(added) + 1 - i] \in Entry
        BY <1>1, <3>1
      <3> QED BY <3>2 DEF Entry
    <2>3. lost' = [i \in 1..n |-> added[Len(added) + 1 - i].key]
      BY <1>5 DEF KeysAfter
    <2> HIDE DEF n
    <2>4. lost' \in [1..n -> Keys]
      BY <2>2, <2>3
    <2> QED BY <2>1, <2>4
  <1> QED BY <1>3, <1>4, <1>5, <1>6, <1>7 DEF IInv, TypeOK, WithinPool

(* A look-up moves an entry to the front.                                   *)
LEMMA TryGetValueInductive ==
    ASSUME IInv, NEW key \in Keys, TryGetValue(key)
    PROVE  IInv'
  <1> DEFINE n == NodeAt(linkedList, sortedList[key])
             e == EraseAt(linkedList, n)
             p == PushFront(e, linkedList[n])
  <1>0. /\ linkedList \in Seq(Entry) /\ Len(linkedList) \in Nat
        /\ Distinct(linkedList) /\ DOMAIN sortedList = KeysOf(linkedList)
        /\ \A i \in DOMAIN linkedList : sortedList[linkedList[i].key] = linkedList[i].node
        /\ key \in DOMAIN sortedList
    BY DEF IInv, TypeOK, IndexMatchesList, Distinct, TryGetValue
  <1>1. sortedList[key] \in NodesOf(linkedList)
    BY <1>0 DEF KeysOf, NodesOf
  <1>2. n \in 1..Len(linkedList) /\ n \in DOMAIN linkedList
    BY <1>0, <1>1, NodeAtFacts
  <1>3. linkedList' = p /\ sortedList' = sortedList /\ lost' = << >>
        /\ currentPoolSize' = currentPoolSize
    BY DEF TryGetValue
  <1> HIDE DEF n
  <1>4. /\ Distinct(e) /\ KeysOf(e) = KeysOf(linkedList) \ {linkedList[n].key}
        /\ NodesOf(e) = NodesOf(linkedList) \ {linkedList[n].node}
    BY <1>0, <1>2, DistinctErase
  <1>5. /\ e \in Seq(Entry) /\ Len(e) = Len(linkedList) - 1
        /\ \A j \in 1..(Len(linkedList) - 1) :
              e[j] = IF j < n THEN linkedList[j] ELSE linkedList[j + 1]
    BY <1>0, <1>2, EraseFacts
  <1>6. linkedList[n] \in Entry
    BY <1>0, <1>2
  <1> HIDE DEF e
  <1>7. Distinct(p) /\ KeysOf(p) = KeysOf(e) \cup {linkedList[n].key}
    BY <1>4, <1>5, <1>6, DistinctPush
  <1>8. /\ p \in Seq(Entry) /\ Len(p) = Len(e) + 1 /\ p[1] = linkedList[n]
        /\ \A j \in 2..(Len(e) + 1) : p[j] = e[j - 1]
    <2>1. PICK f \in Entry : f = linkedList[n]
      BY <1>6
    <2>2. e \in Seq(Entry)
      BY <1>5
    <2>3. /\ PushFront(e, f) \in Seq(Entry)
          /\ Len(PushFront(e, f)) = Len(e) + 1
          /\ PushFront(e, f)[1] = f
          /\ \A j \in 2..(Len(e) + 1) : PushFront(e, f)[j] = e[j - 1]
      BY <2>2, PushFacts
    <2> QED BY <2>1, <2>3
  <1> HIDE DEF p
  <1>9. KeysOf(p) = KeysOf(linkedList)
    BY <1>2, <1>4, <1>7 DEF KeysOf
  <1>10. ASSUME NEW j \in DOMAIN p PROVE sortedList[p[j].key] = p[j].node
    <2>1. j \in 1..Len(linkedList)
      BY <1>0, <1>5, <1>8
    <2>2. \E i \in 1..Len(linkedList) : p[j] = linkedList[i]
      <3>1. CASE j = 1
        BY <3>1, <1>2, <1>8
      <3>2. CASE j # 1
        <4>1. j \in 2..(Len(e) + 1) /\ j - 1 \in 1..(Len(linkedList) - 1)
          BY <3>2, <2>1, <1>0, <1>5
        <4>2. p[j] = e[j - 1]
          BY <4>1, <1>8
        <4>3. e[j - 1] = IF j - 1 < n THEN linkedList[j - 1] ELSE linkedList[(j - 1) + 1]
          BY <4>1, <1>5
        <4>4. j - 1 \in 1..Len(linkedList) /\ (j - 1) + 1 \in 1..Len(linkedList)
          BY <4>1, <1>0
        <4> QED BY <4>2, <4>3, <4>4
      <3> QED BY <3>1, <3>2
    <2> QED BY <2>2, <1>0
  <1>11. IndexMatchesList'
    BY <1>0, <1>3, <1>7, <1>9, <1>10 DEF IndexMatchesList, Distinct
  <1>12. Len(p) = Len(linkedList)
    BY <1>0, <1>5, <1>8
  <1> QED BY <1>3, <1>8, <1>11, <1>12 DEF IInv, TypeOK, WithinPool

LEMMA RemoveInductive ==
    ASSUME IInv, NEW key \in Keys, NEW trigger \in BOOLEAN, Remove(key, trigger)
    PROVE  IInv'
  <1>1. /\ ErasedList(key) \in Seq(Entry)
        /\ Distinct(ErasedList(key))
        /\ KeysOf(ErasedList(key)) = DOMAIN sortedList \ {key}
        /\ Len(ErasedList(key)) <= Len(linkedList)
        /\ \A i \in DOMAIN ErasedList(key) :
              sortedList[ErasedList(key)[i].key] = ErasedList(key)[i].node
    BY ErasedFacts
  <1>2. /\ linkedList' = ErasedList(key) /\ sortedList' = ErasedIndex(key)
        /\ lost' \in Seq(Keys) /\ currentPoolSize' = currentPoolSize
    BY DEF Remove
  <1>3. \A i \in DOMAIN ErasedList(key) :
          ErasedIndex(key)[ErasedList(key)[i].key] = ErasedList(key)[i].node
    BY <1>1 DEF ErasedIndex, KeysOf
  <1>4. IndexMatchesList'
    BY <1>1, <1>2, <1>3 DEF IndexMatchesList, Distinct, ErasedIndex
  <1>5. WithinPool'
    <2>1. Len(ErasedList(key)) \in Nat /\ Len(linkedList) \in Nat /\ currentPoolSize \in Int
      BY <1>1, PoolAssumption DEF IInv, TypeOK
    <2> QED BY <2>1, <1>1, <1>2 DEF IInv, WithinPool
  <1> QED BY <1>1, <1>2, <1>4, <1>5 DEF IInv, TypeOK, ErasedIndex

LEMMA Inductive == IInv /\ [Next]_vars => IInv'
  <1> SUFFICES ASSUME IInv, [Next]_vars PROVE IInv'
    OBVIOUS
  <1>1. CASE \E key \in Keys, value \in Values : Add(key, value)
    BY <1>1, AddInductive
  <1>2. CASE \E key \in Keys : TryGetValue(key)
    BY <1>2, TryGetValueInductive
  <1>3. CASE \E key \in Keys, trigger \in BOOLEAN : Remove(key, trigger)
    BY <1>3, RemoveInductive
  <1>4. CASE Clear
    BY <1>4, PoolAssumption DEF Clear, IInv, TypeOK, IndexMatchesList, WithinPool, KeysOf, Entry
  <1>5. CASE UNCHANGED vars
    BY <1>5 DEF vars, IInv, TypeOK, IndexMatchesList, WithinPool
  <1> QED BY <1>1, <1>2, <1>3, <1>4, <1>5 DEF Next

LEMMA Invariance == Spec => []IInv
  BY InitIInv, Inductive, PTL DEF Spec

(* The list and the map keep their types, whatever the delegate, the expiry *)
(* rule and the pool sizes are.                                             *)
THEOREM ListTypeCorrect == Spec => []TypeOK
  <1>1. IInv => TypeOK
    BY DEF IInv
  <1> QED BY <1>1, Invariance, PTL

(* Every iterator of the map points to the live node of its key, and no key *)
(* or node is in the list twice.                                            *)
THEOREM IndexIsConsistent == Spec => []IndexMatchesList
  <1>1. IInv => IndexMatchesList
    BY DEF IInv
  <1> QED BY <1>1, Invariance, PTL

(* After every operation the list fits the pool.                            *)
THEOREM PoolIsRespected == Spec => []WithinPool
  <1>1. IInv => WithinPool
    BY DEF IInv
  <1> QED BY <1>1, Invariance, PTL
----------------------------------------------------------------------------
(* The history: the list's keys are the first ones of recency, in the same  *)
(* order, and recency never has a key twice.                                *)
NoRepeat(r) == \A i, j \in DOMAIN r : i # j => r[i] # r[j]

Leads(list, r) ==
    /\ Len(list) <= Len(r)
    /\ \A i \in 1..Len(list) : list[i].key = r[i]

RInv ==
    /\ recency \in Seq(Keys)
    /\ NoRepeat(recency)
    /\ Leads(linkedList, recency)

(* Taking the same position out of both keeps the list in the lead.         *)
LEMMA EraseBoth ==
    ASSUME NEW list \in Seq(Entry), NEW r \in Seq(Keys), Leads(list, r), NoRepeat(r),
           NEW p \in 1..Len(r)
    PROVE  /\ EraseAt(r, p) \in Seq(Keys) /\ NoRepeat(EraseAt(r, p))
           /\ \A j \in DOMAIN EraseAt(r, p) : EraseAt(r, p)[j] # r[p]
           /\ p \in 1..Len(list) => Leads(EraseAt(list, p), EraseAt(r, p))
           /\ p \notin 1..Len(list) => Leads(list, EraseAt(r, p))
  <1> DEFINE e == EraseAt(r, p)
             d == EraseAt(list, p)
             From(j) == IF j < p THEN j ELSE j + 1
  <1>0. Len(r) \in Nat /\ Len(list) \in Nat
    OBVIOUS
  <1>1. e \in Seq(Keys) /\ Len(e) = Len(r) - 1
        /\ \A j \in 1..(Len(r) - 1) : e[j] = IF j < p THEN r[j] ELSE r[j + 1]
    BY EraseFacts
  <1> HIDE DEF e
  <1>2. DOMAIN e = 1..(Len(r) - 1) /\ DOMAIN r = 1..Len(r)
    BY <1>0, <1>1
  <1>3. \A j \in 1..(Len(r) - 1) : e[j] = r[From(j)] /\ From(j) \in 1..Len(r) /\ From(j) # p
    BY <1>0, <1>1
  <1>4. \A j, k \in 1..(Len(r) - 1) : j # k => From(j) # From(k)
    BY <1>0
  <1>5. NoRepeat(e)
    <2> HIDE DEF From
    <2> QED BY <1>2, <1>3, <1>4 DEF NoRepeat
  <1>6. \A j \in DOMAIN e : e[j] # r[p]
    <2> HIDE DEF From
    <2> QED BY <1>2, <1>3 DEF NoRepeat
  <1>7. ASSUME p \in 1..Len(list) PROVE Leads(d, e)
    <2>1. Len(d) = Len(list) - 1
          /\ \A j \in 1..(Len(list) - 1) : d[j] = IF j < p THEN list[j] ELSE list[j + 1]
      BY <1>7, EraseFacts
    <2> HIDE DEF d
    <2>2. Len(d) <= Len(e)
      BY <2>1, <1>0, <1>1 DEF Leads
    <2>3. ASSUME NEW j \in 1..Len(d) PROVE d[j].key = e[j]
      <3>1. j \in 1..(Len(list) - 1) /\ j \in 1..(Len(r) - 1)
            /\ j \in 1..Len(list) /\ j + 1 \in 1..Len(list)
        BY <2>1, <1>0 DEF Leads
      <3>2. list[j].key = r[j] /\ list[j + 1].key = r[j + 1]
        BY <3>1 DEF Leads
      <3> QED BY <3>1, <3>2, <2>1, <1>1
    <2> QED BY <2>2, <2>3 DEF Leads
  <1>8. ASSUME p \notin 1..Len(list) PROVE Leads(list, e)
    <2>1. p > Len(list)
      BY <1>8, <1>0
    <2>2. Len(list) <= Len(e)
      BY <2>1, <1>0, <1>1
    <2>3. ASSUME NEW j \in 1..Len(list) PROVE list[j].key = e[j]
      <3>1. j < p /\ j \in 1..(Len(r) - 1)
        BY <2>1, <1>0
      <3> QED BY <3>1, <1>1 DEF Leads
    <2> QED BY <2>2, <2>3 DEF Leads
  <1> QED BY <1>1, <1>5, <1>6, <1>7, <1>8 DEF e, d

(* Erasing a key from the list and forgetting it go together.               *)
LEMMA ForgetFacts ==
    ASSUME IInv, RInv, NEW key \in Keys
    PROVE  /\ Forget(key) \in Seq(Keys) /\ NoRepeat(Forget(key))
           /\ \A j \in DOMAIN Forget(key) : Forget(key)[j] # key
           /\ Leads(ErasedList(key), Forget(key))
  <1>0. /\ linkedList \in Seq(Entry) /\ Len(linkedList) \in Nat
        /\ recency \in Seq(Keys) /\ NoRepeat(recency) /\ Leads(linkedList, recency)
        /\ DOMAIN sortedList = KeysOf(linkedList)
        /\ \A i \in DOMAIN linkedList : sortedList[linkedList[i].key] = linkedList[i].node
        /\ Distinct(linkedList)
    BY DEF IInv, RInv, TypeOK, IndexMatchesList, Distinct
  <1>1. CASE \E i \in DOMAIN recency : recency[i] = key
    <2> DEFINE p == CHOOSE i \in DOMAIN recency : recency[i] = key
    <2>1. p \in 1..Len(recency) /\ p \in DOMAIN recency /\ recency[p] = key
      BY <1>0, <1>1
    <2>2. Forget(key) = EraseAt(recency, p)
      BY <1>1 DEF Forget
    <2> HIDE DEF p
    <2>3. /\ EraseAt(recency, p) \in Seq(Keys) /\ NoRepeat(EraseAt(recency, p))
          /\ \A j \in DOMAIN EraseAt(recency, p) : EraseAt(recency, p)[j] # recency[p]
          /\ p \in 1..Len(linkedList) => Leads(EraseAt(linkedList, p), EraseAt(recency, p))
          /\ p \notin 1..Len(linkedList) => Leads(linkedList, EraseAt(recency, p))
      BY <1>0, <2>1, EraseBoth
    <2>4. CASE p \in 1..Len(linkedList)
      <3>1. p \in DOMAIN linkedList /\ linkedList[p].key = key
        BY <2>4, <2>1, <1>0 DEF Leads
      <3>2. key \in DOMAIN sortedList /\ sortedList[key] = linkedList[p].node
        BY <3>1, <1>0 DEF KeysOf
      <3>3. sortedList[key] \in NodesOf(linkedList)
        BY <3>1, <3>2 DEF NodesOf
      <3>4. NodeAt(linkedList, sortedList[key]) = p
        <4>1. /\ NodeAt(linkedList, sortedList[key]) \in DOMAIN linkedList
              /\ linkedList[NodeAt(linkedList, sortedList[key])].node = sortedList[key]
          BY <1>0, <3>3, NodeAtFacts
        <4> QED BY <4>1, <3>1, <3>2, <1>0 DEF Distinct
      <3>5. ErasedList(key) = EraseAt(linkedList, p)
        BY <3>2, <3>4 DEF ErasedList
      <3> QED BY <2>1, <2>2, <2>3, <2>4, <3>5
    <2>5. CASE p \notin 1..Len(linkedList)
      <3>1. ASSUME NEW i \in DOMAIN linkedList PROVE linkedList[i].key # key
        <4>1. i \in 1..Len(linkedList) /\ i \in DOMAIN recency /\ i # p
          BY <2>5, <1>0 DEF Leads
        <4> QED BY <4>1, <2>1, <1>0 DEF Leads, NoRepeat
      <3>2. key \notin DOMAIN sortedList
        BY <3>1, <1>0 DEF KeysOf
      <3>3. ErasedList(key) = linkedList
        BY <3>2 DEF ErasedList
      <3> QED BY <2>1, <2>2, <2>3, <2>5, <3>3
    <2> QED BY <2>4, <2>5
  <1>2. CASE ~\E i \in DOMAIN recency : recency[i] = key
    <2>1. ASSUME NEW i \in DOMAIN linkedList PROVE linkedList[i].key # key
      <3>1. i \in 1..Len(linkedList) /\ i \in DOMAIN recency
        BY <1>0 DEF Leads
      <3> QED BY <3>1, <1>0, <1>2 DEF Leads
    <2>2. key \notin DOMAIN sortedList
      BY <2>1, <1>0 DEF KeysOf
    <2>3. ErasedList(key) = linkedList /\ Forget(key) = recency
      BY <2>2, <1>2 DEF ErasedList, Forget
    <2> QED BY <2>3, <1>0, <1>2
  <1> QED BY <1>1, <1>2

(* A new first entry and its key, put in front of both.                     *)
LEMMA PushBoth ==
    ASSUME NEW list \in Seq(Entry), NEW e \in Entry, NEW r \in Seq(Keys),
           Leads(list, r), NoRepeat(r), \A j \in DOMAIN r : r[j] # e.key
    PROVE  /\ PushFront(r, e.key) \in Seq(Keys) /\ NoRepeat(PushFront(r, e.key))
           /\ Leads(PushFront(list, e), PushFront(r, e.key))
  <1> DEFINE q == PushFront(r, e.key)
             p == PushFront(list, e)
  <1>0. Len(list) \in Nat /\ Len(r) \in Nat /\ e.key \in Keys
    BY DEF Entry
  <1>1. q \in Seq(Keys) /\ Len(q) = Len(r) + 1 /\ q[1] = e.key
        /\ \A j \in 2..(Len(r) + 1) : q[j] = r[j - 1]
    <2> DEFINE k == e.key
    <2>1. k \in Keys /\ r \in Seq(Keys)
      BY <1>0
    <2> HIDE DEF k
    <2>2. /\ PushFront(r, k) \in Seq(Keys)
          /\ Len(PushFront(r, k)) = Len(r) + 1
          /\ PushFront(r, k)[1] = k
          /\ \A j \in 2..(Len(r) + 1) : PushFront(r, k)[j] = r[j - 1]
      BY ONLY <2>1, PushFacts
    <2> QED BY <2>2 DEF k
  <1>2. p \in Seq(Entry) /\ Len(p) = Len(list) + 1 /\ p[1] = e
        /\ \A j \in 2..(Len(list) + 1) : p[j] = list[j - 1]
    BY PushFacts
  <1> HIDE DEF p, q
  <1>d. DOMAIN q = 1..(Len(r) + 1) /\ DOMAIN r = 1..Len(r)
    BY <1>0, <1>1
  <1>3. ASSUME NEW i \in DOMAIN q, NEW j \in DOMAIN q, i # j PROVE q[i] # q[j]
    <2>0. \A k \in DOMAIN q : k = 1 \/ (k \in 2..(Len(r) + 1) /\ k - 1 \in DOMAIN r)
      BY <1>0, <1>d
    <2>1. CASE i = 1
      BY <2>0, <2>1, <1>1, <1>3
    <2>2. CASE j = 1
      BY <2>0, <2>2, <1>1, <1>3
    <2>3. CASE i # 1 /\ j # 1
      <3>1. /\ q[i] = r[i - 1] /\ i - 1 \in DOMAIN r
            /\ q[j] = r[j - 1] /\ j - 1 \in DOMAIN r
        BY <2>0, <2>3, <1>1
      <3>2. i - 1 # j - 1
        BY <1>3, <1>0, <1>d
      <3> QED BY <3>1, <3>2 DEF NoRepeat
    <2> QED BY <2>1, <2>2, <2>3
  <1>4. Leads(p, q)
    <2>1. Len(p) <= Len(q)
      BY <1>0, <1>1, <1>2 DEF Leads
    <2>2. ASSUME NEW i \in 1..Len(p) PROVE p[i].key = q[i]
      <3>1. CASE i = 1
        BY <3>1, <1>1, <1>2
      <3>2. CASE i # 1
        <4>1. i \in 2..(Len(list) + 1) /\ i \in 2..(Len(r) + 1) /\ i - 1 \in 1..Len(list)
          BY <3>2, <1>0, <1>2 DEF Leads
        <4>2. p[i] = list[i - 1] /\ q[i] = r[i - 1]
          BY <4>1, <1>1, <1>2
        <4> QED BY <4>1, <4>2 DEF Leads
      <3> QED BY <3>1, <3>2
    <2> QED BY <2>1, <2>2 DEF Leads
  <1> QED BY <1>1, <1>3, <1>4 DEF p, q, NoRepeat

(* Keeping the first m entries.                                             *)
LEMMA KeepLeads ==
    ASSUME NEW list \in Seq(Entry), NEW r \in Seq(Keys), Leads(list, r),
           NEW m \in Nat, m <= Len(list)
    PROVE  Leads(SubSeq(list, 1, m), r)
  <1> DEFINE a == SubSeq(list, 1, m)
  <1>1. Len(list) \in Nat /\ Len(r) \in Nat /\ \A j \in 1..Len(list) : list[j] \in Entry
    OBVIOUS
  <1>2. Len(a) = m /\ \A j \in 1..m : a[j] = list[j]
    BY <1>1, SubSeqProperties
  <1> HIDE DEF a
  <1>3. m <= Len(r) /\ \A j \in 1..m : j \in 1..Len(list)
    BY <1>1 DEF Leads
  <1>4. Leads(a, r)
    BY <1>2, <1>3 DEF Leads
  <1> QED BY <1>4 DEF a

(* What Add keeps and what it drops.                                        *)
LEMMA AddParts ==
    ASSUME IInv, NEW key \in Keys, NEW value \in Values,
           NEW node \in Nodes \ NodesOf(ErasedList(key)), NEW expand \in BOOLEAN,
           AddEntry(key, value, node, expand)
    PROVE  \E kept \in Nat :
              /\ Added(key, value, node) \in Seq(Entry)
              /\ Distinct(Added(key, value, node))
              /\ KeysOf(Added(key, value, node)) = KeysOf(linkedList) \cup {key}
              /\ kept <= Len(Added(key, value, node))
              /\ linkedList' = SubSeq(Added(key, value, node), 1, kept)
              /\ lost' = KeysAfter(Added(key, value, node), kept)
              /\ recency' = Recent(key)
  <1> DEFINE added == Added(key, value, node)
             new == [key |-> key, value |-> value, node |-> node]
             fresh == LastFresh(added, value)
             size == PoolSizeFor(fresh, expand)
             kept == Fitting(fresh, size)
  <1>0. currentPoolSize \in Nat /\ maxPoolSize \in Nat
    BY PoolAssumption DEF IInv, TypeOK
  <1>1. /\ ErasedList(key) \in Seq(Entry) /\ Distinct(ErasedList(key))
        /\ KeysOf(ErasedList(key)) = DOMAIN sortedList \ {key}
    BY ErasedFacts
  <1>2. new \in Entry /\ new.key = key /\ new.node = node
    BY DEF Entry
  <1> HIDE DEF new
  <1>3. added = PushFront(ErasedList(key), new)
    BY DEF Added, new
  <1> HIDE DEF added
  <1>4. added \in Seq(Entry) /\ Len(added) \in Nat
    <2>1. PushFront(ErasedList(key), new) \in Seq(Entry)
      BY <1>1, <1>2, PushFacts
    <2> QED BY <2>1, <1>3
  <1>5. Distinct(added) /\ KeysOf(added) = KeysOf(linkedList) \cup {key}
    <2>1. new.key \notin KeysOf(ErasedList(key)) /\ new.node \notin NodesOf(ErasedList(key))
      BY <1>1, <1>2
    <2>2. /\ Distinct(added)
          /\ KeysOf(added) = KeysOf(ErasedList(key)) \cup {new.key}
      BY <2>1, <1>1, <1>2, <1>3, DistinctPush
    <2> QED BY <2>2, <1>1, <1>2 DEF IInv, IndexMatchesList
  <1>6. fresh \in 0..Len(added)
    BY <1>4, LastFreshFacts
  <1> HIDE DEF fresh
  <1>7. size \in Nat
    BY <1>0, <1>4, <1>6 DEF PoolSizeFor
  <1> HIDE DEF size
  <1>8. kept \in Nat /\ kept <= Len(added)
    BY <1>4, <1>6, <1>7 DEF Fitting
  <1>9. /\ linkedList' = SubSeq(added, 1, kept)
        /\ lost' = KeysAfter(added, kept)
        /\ recency' = Recent(key)
    BY DEF AddEntry, added, fresh, size
  <1> QED BY <1>4, <1>5, <1>8, <1>9 DEF added

(* The list that Add makes room in leads the history as well.               *)
LEMMA AddedLeads ==
    ASSUME IInv, RInv, NEW key \in Keys, NEW value \in Values, NEW node \in Nodes
    PROVE  /\ Recent(key) \in Seq(Keys) /\ NoRepeat(Recent(key))
           /\ Leads(Added(key, value, node), Recent(key))
  <1> DEFINE added == Added(key, value, node)
             new == [key |-> key, value |-> value, node |-> node]
  <1>3. new \in Entry /\ new.key = key
    BY DEF Entry
  <1>4. ErasedList(key) \in Seq(Entry)
    BY ErasedFacts
  <1>5. /\ Forget(key) \in Seq(Keys) /\ NoRepeat(Forget(key))
        /\ \A j \in DOMAIN Forget(key) : Forget(key)[j] # new.key
        /\ Leads(ErasedList(key), Forget(key))
    BY ForgetFacts
  <1> HIDE DEF new
  <1>6. /\ PushFront(Forget(key), new.key) \in Seq(Keys)
        /\ NoRepeat(PushFront(Forget(key), new.key))
        /\ Leads(PushFront(ErasedList(key), new), PushFront(Forget(key), new.key))
    BY <1>3, <1>4, <1>5, PushBoth
  <1>7. added = PushFront(ErasedList(key), new)
    BY DEF Added, new
  <1> HIDE DEF added
  <1>8. Recent(key) \in Seq(Keys) /\ NoRepeat(Recent(key)) /\ Leads(added, Recent(key))
    BY <1>3, <1>6, <1>7 DEF Recent
  <1> QED BY <1>8 DEF added

LEMMA AddLeads ==
    ASSUME IInv, RInv, NEW key \in Keys, NEW value \in Values, Add(key, value)
    PROVE  RInv'
  <1>1. PICK node \in Nodes \ NodesOf(ErasedList(key)), expand \in BOOLEAN :
           AddEntry(key, value, node, expand)
    BY DEF Add
  <1> DEFINE added == Added(key, value, node)
  <1>2. PICK kept \in Nat :
          /\ added \in Seq(Entry) /\ kept <= Len(added)
          /\ linkedList' = SubSeq(added, 1, kept)
          /\ recency' = Recent(key)
    BY <1>1, AddParts
  <1>3. Recent(key) \in Seq(Keys) /\ NoRepeat(Recent(key)) /\ Leads(added, Recent(key))
    BY AddedLeads
  <1> HIDE DEF added
  <1>4. Leads(SubSeq(added, 1, kept), Recent(key))
    BY <1>2, <1>3, KeepLeads
  <1> QED BY <1>2, <1>3, <1>4 DEF RInv

LEMMA TryGetValueLeads ==
    ASSUME IInv, RInv, NEW key \in Keys, TryGetValue(key)
    PROVE  RInv'
  <1> DEFINE i == NodeAt(linkedList, sortedList[key])
             entry == linkedList[i]
  <1>0. /\ linkedList \in Seq(Entry) /\ DOMAIN sortedList = KeysOf(linkedList)
        /\ \A j \in DOMAIN linkedList : sortedList[linkedList[j].key] = linkedList[j].node
        /\ Distinct(linkedList) /\ key \in DOMAIN sortedList
    BY DEF IInv, TypeOK, IndexMatchesList, Distinct, TryGetValue
  <1>1. sortedList[key] \in NodesOf(linkedList)
    BY <1>0 DEF KeysOf, NodesOf
  <1>2. i \in DOMAIN linkedList /\ linkedList[i].node = sortedList[key]
    BY <1>0, <1>1, NodeAtFacts
  <1>3. linkedList' = PushFront(EraseAt(linkedList, i), entry) /\ recency' = Recent(key)
    BY DEF TryGetValue
  <1>4. ErasedList(key) = EraseAt(linkedList, i)
    BY <1>0 DEF ErasedList
  <1> HIDE DEF i
  <1>5. entry \in Entry /\ entry.key = key
    BY <1>0, <1>2 DEF KeysOf, Distinct
  <1> HIDE DEF entry
  <1>6. ErasedList(key) \in Seq(Entry)
    BY ErasedFacts
  <1>7. /\ Forget(key) \in Seq(Keys) /\ NoRepeat(Forget(key))
        /\ \A j \in DOMAIN Forget(key) : Forget(key)[j] # entry.key
        /\ Leads(ErasedList(key), Forget(key))
    BY <1>5, ForgetFacts
  <1>8. /\ PushFront(Forget(key), entry.key) \in Seq(Keys)
        /\ NoRepeat(PushFront(Forget(key), entry.key))
        /\ Leads(PushFront(ErasedList(key), entry), PushFront(Forget(key), entry.key))
    BY <1>5, <1>6, <1>7, PushBoth
  <1> QED BY <1>3, <1>4, <1>5, <1>8 DEF Recent, RInv

LEMMA LeadsInductive == IInv /\ RInv /\ [Next]_vars => RInv'
  <1> SUFFICES ASSUME IInv, RInv, [Next]_vars PROVE RInv'
    OBVIOUS
  <1>1. CASE \E key \in Keys, value \in Values : Add(key, value)
    BY <1>1, AddLeads
  <1>2. CASE \E key \in Keys : TryGetValue(key)
    BY <1>2, TryGetValueLeads
  <1>3. CASE \E key \in Keys, trigger \in BOOLEAN : Remove(key, trigger)
    <2>1. PICK key \in Keys : linkedList' = ErasedList(key) /\ recency' = Forget(key)
      BY <1>3 DEF Remove
    <2> QED BY <2>1, ForgetFacts DEF RInv
  <1>4. CASE Clear
    BY <1>4 DEF Clear, RInv, NoRepeat, Leads
  <1>5. CASE UNCHANGED vars
    BY <1>5 DEF vars, RInv
  <1> QED BY <1>1, <1>2, <1>3, <1>4, <1>5 DEF Next

LEMMA LeadsInvariance == Spec => [](IInv /\ RInv)
  <1>1. Init => RInv
    BY DEF Init, RInv, NoRepeat, Leads
  <1> QED BY <1>1, InitIInv, Inductive, LeadsInductive, PTL DEF Spec

(* The entries kept are exactly the ones used last, in the order of their   *)
(* last use.                                                                *)
THEOREM MostRecentAreKept == Spec => []KeepsMostRecent
  <1>2. IInv /\ RInv => KeepsMostRecent
    <2> SUFFICES ASSUME IInv, RInv PROVE KeepsMostRecent
      OBVIOUS
    <2> DEFINE a == SubSeq(recency, 1, Len(linkedList))
    <2>1. /\ linkedList \in Seq(Entry) /\ Len(linkedList) \in Nat
          /\ recency \in Seq(Keys) /\ Len(recency) \in Nat
          /\ Len(linkedList) <= Len(recency)
          /\ \A i \in 1..Len(linkedList) : linkedList[i].key = recency[i]
      BY DEF IInv, TypeOK, RInv, Leads
    <2>2. /\ a \in Seq(Keys) /\ Len(a) = Len(linkedList)
          /\ \A j \in 1..Len(linkedList) : a[j] = recency[j]
      BY <2>1, SubSeqProperties
    <2> HIDE DEF a
    <2>3. a = [i \in 1..Len(linkedList) |-> linkedList[i].key]
      BY <2>1, <2>2
    <2>4. DOMAIN linkedList = 1..Len(linkedList)
      BY <2>1
    <2> QED BY <2>3, <2>4 DEF KeepsMostRecent, a
  <1> QED BY <1>2, LeadsInvariance, PTL

(* The keys after position m, announced last first, are each announced once.*)
LEMMA EachOnce ==
    ASSUME NEW list \in Seq(Entry), Distinct(list), NEW m \in Nat, m <= Len(list)
    PROVE  LET a == KeysAfter(list, m)
               gone == KeysOf(list) \ KeysOf(SubSeq(list, 1, m))
           IN  Len(a) = Cardinality(gone) /\ {a[i] : i \in DOMAIN a} = gone
  <1> DEFINE a == KeysAfter(list, m)
             gone == KeysOf(list) \ KeysOf(SubSeq(list, 1, m))
             n == Len(list) - m
             rest == SubSeq(list, m + 1, Len(list))
             At(i) == Len(list) + 1 - i
  <1>0. /\ Len(list) \in Nat /\ n \in Nat /\ DOMAIN list = 1..Len(list)
        /\ \A j \in 1..Len(list) : list[j] \in Entry
    OBVIOUS
  <1>1. a = [i \in 1..n |-> list[At(i)].key] /\ Len(a) = n /\ DOMAIN a = 1..n
    BY <1>0 DEF KeysAfter
  <1>2. /\ rest \in Seq(Entry) /\ Len(rest) = Len(list) - m
        /\ \A j \in 1..(Len(list) - m) : rest[j] = list[j + m]
    BY RestFacts
  <1> HIDE DEF a, rest
  <1>r. Len(rest) = n /\ DOMAIN rest = 1..n /\ \A j \in 1..n : rest[j] = list[j + m]
    BY <1>0, <1>2
  <1>3. gone = KeysOf(rest)
    <2>1. KeysOf(SubSeq(list, 1, m)) = KeysOf(list) \ KeysOf(rest)
      BY DistinctPart DEF rest
    <2>2. KeysOf(rest) \subseteq KeysOf(list)
      <3>1. \A j \in 1..n : j + m \in 1..Len(list)
        BY <1>0
      <3> HIDE DEF n
      <3> QED BY <3>1, <1>0, <1>r DEF KeysOf
    <2> QED BY <2>1, <2>2
  <1> HIDE DEF gone
  <1>4. \A i \in 1..n : At(i) \in 1..Len(list) /\ At(i) - m \in 1..n /\ (At(i) - m) + m = At(i)
    BY <1>0
  <1>5. \A i, j \in 1..n : i # j => At(i) # At(j)
    BY <1>0
  <1>6. \A k \in 1..n : \E i \in 1..n : At(i) = k + m
    <2> TAKE k \in 1..n
    <2>1. (n + 1) - k \in 1..n /\ At((n + 1) - k) = k + m
      BY <1>0
    <2> QED BY <2>1
  <1> HIDE DEF At, n
  <1>8. \A i \in 1..n : a[i] \in gone
    <2> TAKE i \in 1..n
    <2>1. a[i] = rest[At(i) - m].key /\ At(i) - m \in DOMAIN rest
      BY <1>1, <1>4, <1>r
    <2> QED BY <2>1, <1>3 DEF KeysOf
  <1>9. \A k \in gone : \E i \in 1..n : a[i] = k
    <2> TAKE k \in gone
    <2>1. PICK j \in 1..n : k = rest[j].key
      BY <1>3, <1>r DEF KeysOf
    <2>2. PICK i \in 1..n : At(i) = j + m
      BY <1>6
    <2> QED BY <2>1, <2>2, <1>1, <1>r
  <1>10. \A i, j \in 1..n : a[i] = a[j] => i = j
    BY <1>0, <1>1, <1>4, <1>5 DEF Distinct
  <1>11. a \in [1..n -> gone]
    BY <1>1, <1>8
  <1>12. a \in Bijection(1..n, gone)
    BY <1>9, <1>10, <1>11 DEF Bijection, Injection, Surjection, IsInjective
  <1>13. IsFiniteSet(1..n) /\ Cardinality(1..n) = n
    <2>1. 1 \in Int /\ n \in Int /\ (IF 1 > n THEN 0 ELSE n - 1 + 1) = n
      BY <1>0
    <2> QED BY <2>1, FS_Interval
  <1>14. Cardinality(gone) = n
    BY <1>12, <1>13, FS_Bijection DEF ExistsBijection
  <1>15. {a[i] : i \in DOMAIN a} = gone
    BY <1>1, <1>8, <1>9
  <1> QED BY <1>1, <1>14, <1>15 DEF a, gone

(* What is announced later was used later.                                  *)
LEMMA LaterUsed ==
    ASSUME NEW list \in Seq(Entry), NEW m \in Nat, m <= Len(list),
           recency' \in Seq(Keys), Leads(list, recency'), lost' = KeysAfter(list, m)
    PROVE  \A i, j \in DOMAIN lost' : i < j => UsedBefore(recency', lost'[i], lost'[j])
  <1> DEFINE n == Len(list)
             At(i) == n + 1 - i
  <1>1. n \in Nat /\ DOMAIN lost' = 1..(n - m) /\ \A i \in 1..(n - m) : lost'[i] = list[At(i)].key
    BY DEF KeysAfter
  <1>2. \A i \in 1..n : i \in DOMAIN recency' /\ recency'[i] = list[i].key
    BY <1>1 DEF Leads
  <1> SUFFICES ASSUME NEW i \in 1..(n - m), NEW j \in 1..(n - m), i < j
               PROVE  UsedBefore(recency', lost'[i], lost'[j])
    BY <1>1
  <1>3. At(i) \in 1..n /\ At(j) \in 1..n /\ At(j) < At(i)
    BY <1>1
  <1>4. recency'[At(i)] = lost'[i] /\ recency'[At(j)] = lost'[j]
    BY <1>1, <1>2, <1>3
  <1> QED BY <1>2, <1>3, <1>4 DEF UsedBefore

(* An entry that Add drops is announced once, the least recently used first; *)
(* replacing the value of a key announces nothing.                          *)
THEOREM DropsAreAnnouncedOnce == Spec => DropsAreAnnounced
  <1> DEFINE Gone(key) == {k \in KeysOf(linkedList) \cup {key} : k \notin KeysOf(linkedList')}
             Ordered == \A i, j \in DOMAIN lost' : i < j => UsedBefore(recency', lost'[i], lost'[j])
             Announced == \A key \in Keys, value \in Values : Add(key, value) =>
                  /\ Len(lost') = Cardinality(Gone(key)) /\ {lost'[i] : i \in DOMAIN lost'} = Gone(key)
                  /\ Ordered
  <1>1. ASSUME IInv, RInv PROVE Announced
    <2> SUFFICES ASSUME NEW key \in Keys, NEW value \in Values, Add(key, value)
                 PROVE  /\ Len(lost') = Cardinality(Gone(key))
                        /\ {lost'[i] : i \in DOMAIN lost'} = Gone(key)
                        /\ Ordered
      OBVIOUS
    <2>1. PICK node \in Nodes \ NodesOf(ErasedList(key)), expand \in BOOLEAN :
             AddEntry(key, value, node, expand)
      BY DEF Add
    <2> DEFINE added == Added(key, value, node)
    <2>2. PICK kept \in Nat :
            /\ added \in Seq(Entry) /\ Distinct(added) /\ kept <= Len(added)
            /\ KeysOf(added) = KeysOf(linkedList) \cup {key}
            /\ linkedList' = SubSeq(added, 1, kept)
            /\ lost' = KeysAfter(added, kept) /\ recency' = Recent(key)
      BY <1>1, <2>1, AddParts
    <2>5. Recent(key) \in Seq(Keys) /\ Leads(added, Recent(key))
      BY <1>1, AddedLeads
    <2> HIDE DEF added
    <2> DEFINE a == KeysAfter(added, kept)
               gone == KeysOf(added) \ KeysOf(SubSeq(added, 1, kept))
    <2>3. Len(a) = Cardinality(gone) /\ {a[i] : i \in DOMAIN a} = gone
      BY <2>2, EachOnce
    <2>4. Gone(key) = gone /\ lost' = a
      BY <2>2
    <2>6. Ordered
      BY <2>2, <2>5, LaterUsed
    <2> HIDE DEF a, gone, Gone, Ordered
    <2> QED BY <2>3, <2>4, <2>6
  <1>2. IInv /\ RInv => [Announced]_vars
    BY <1>1
  <1> QED BY <1>2, LeadsInvariance, PTL DEF DropsAreAnnounced

----------------------------------------------------------------------------
(* The text searches.                                                       *)

(* A loop: stop at x with a value, or go on at next[x], which has a lower   *)
(* rank.                                                                    *)
Loops(f, S, stop, value, next) ==
    f = [x \in S |-> IF stop[x] THEN value[x] ELSE f[next[x]]]

Descends(S, stop, next, rank, bound) ==
    \A x \in S : /\ rank[x] \in 0..bound
                 /\ ~stop[x] => next[x] \in S /\ rank[next[x]] < rank[x]

Loop(f, S, stop, value, next, rank, bound) ==
    bound \in Nat /\ Descends(S, stop, next, rank, bound) /\ Loops(f, S, stop, value, next)

(* What every turn preserves.                                               *)
Kept(Good, stop, next) == \A x \in Good : ~stop[x] => next[x] \in Good

(* A recursive function of this form has values.                            *)
LEMMA LoopExists ==
    ASSUME NEW S, NEW stop, NEW value, NEW next, NEW rank, NEW bound \in Nat,
           Descends(S, stop, next, rank, bound)
    PROVE  \E f : Loops(f, S, stop, value, next)
  <1> DEFINE Below(m) == {x \in S : rank[x] < m}
             bad == {m \in Nat : ~\E f : Loops(f, Below(m), stop, value, next)}
  <1>0. \A x \in S : /\ rank[x] \in 0..bound
                     /\ ~stop[x] => next[x] \in S /\ rank[next[x]] < rank[x]
    BY DEF Descends
  <1>1. ASSUME bad # {} PROVE FALSE
    <2>1. PICK m \in bad : \A k \in bad : m <= k
      <3>1. bad \in SUBSET Nat
        OBVIOUS
      <3> HIDE DEF bad
      <3> QED BY <1>1, <3>1, LeastNumber
    <2>2. m \in Nat /\ ~\E f : Loops(f, Below(m), stop, value, next)
      OBVIOUS
    <2>3. CASE m = 0
      <3>1. Below(m) = {}
        BY <1>0, <2>3
      <3> DEFINE f == [x \in {} |-> 0]
      <3>2. f = [x \in Below(m) |-> IF stop[x] THEN value[x] ELSE f[next[x]]]
        BY <3>1
      <3> HIDE DEF f
      <3> QED BY <2>2, <3>2 DEF Loops
    <2>4. CASE m # 0
      <3>1. m - 1 \in Nat /\ ~(m <= m - 1)
        BY <2>2, <2>4
      <3>2. m - 1 \notin bad
        <4> HIDE DEF bad
        <4> QED BY <2>1, <3>1
      <3>3. PICK g : Loops(g, Below(m - 1), stop, value, next)
        BY <3>1, <3>2
      <3> DEFINE f == [x \in Below(m) |-> IF stop[x] THEN value[x] ELSE g[next[x]]]
      <3>4. \A x \in Below(m - 1) : g[x] = IF stop[x] THEN value[x] ELSE g[next[x]]
        <4> HIDE DEF Below
        <4> QED BY <3>3 DEF Loops
      <3>5. \A x \in Below(m - 1) : x \in Below(m)
        BY <1>0, <2>2
      <3>6. \A x \in Below(m - 1) : f[x] = g[x]
        <4> HIDE DEF Below
        <4> QED BY <3>4, <3>5
      <3>7. \A x \in Below(m) : ~stop[x] => next[x] \in Below(m - 1)
        BY <1>0, <2>2
      <3>8. f = [x \in Below(m) |-> IF stop[x] THEN value[x] ELSE f[next[x]]]
        <4> HIDE DEF Below
        <4> QED BY <3>6, <3>7
      <3> HIDE DEF f
      <3> QED BY <2>2, <3>8 DEF Loops
    <2> QED BY <2>3, <2>4
  <1>2. bound + 1 \in Nat /\ bound + 1 \notin bad
    <2> HIDE DEF bad
    <2> QED BY <1>1
  <1>3. Below(bound + 1) = S
    BY <1>0
  <1> HIDE DEF Below
  <1> QED BY <1>2, <1>3

(* It ends at a place that has what every turn preserves.                   *)
LEMMA LoopEnds ==
    ASSUME NEW S, NEW stop, NEW value, NEW next, NEW rank, NEW bound,
           NEW f, Loop(f, S, stop, value, next, rank, bound),
           NEW Good \in SUBSET S, Kept(Good, stop, next)
    PROVE  \A start \in Good : \E x \in Good : stop[x] /\ f[start] = value[x]
  <1> DEFINE Ends(y) == \E x \in Good : stop[x] /\ f[y] = value[x]
             bad == {rank[y] : y \in {z \in Good : ~Ends(z)}}
  <1>0. \A x \in S : /\ rank[x] \in 0..bound
                     /\ ~stop[x] => next[x] \in S /\ rank[next[x]] < rank[x]
    BY DEF Loop, Descends
  <1>1. \A x \in S : f[x] = IF stop[x] THEN value[x] ELSE f[next[x]]
    BY DEF Loop, Loops
  <1>2. ASSUME bad # {} PROVE FALSE
    <2>1. bad \in SUBSET Nat
      <3>1. \A x \in S : rank[x] \in Nat
        BY <1>0 DEF Loop
      <3> HIDE DEF Ends
      <3> QED BY <3>1
    <2>2. PICK r \in bad : \A k \in bad : r <= k
      <3> HIDE DEF bad
      <3> QED BY <1>2, <2>1, LeastNumber
    <2>3. PICK y \in Good : ~Ends(y) /\ r = rank[y]
      <3> HIDE DEF Ends
      <3> QED OBVIOUS
    <2>4. ~stop[y]
      BY <1>1, <2>3
    <2>5. next[y] \in Good /\ rank[next[y]] \in Nat /\ ~(r <= rank[next[y]])
      BY <1>0, <2>3, <2>4 DEF Kept, Loop
    <2>6. rank[next[y]] \notin bad
      <3> HIDE DEF bad
      <3> QED BY <2>2, <2>5
    <2>7. Ends(next[y])
      <3> HIDE DEF Ends
      <3> QED BY <2>5, <2>6
    <2>8. f[y] = f[next[y]]
      BY <1>1, <2>3, <2>4
    <2> QED BY <2>3, <2>7, <2>8
  <1>3. \A start \in Good : Ends(start)
    <2> HIDE DEF Ends
    <2> QED BY <1>2
  <1> QED BY <1>3

----------------------------------------------------------------------------
(* Knuth, Morris and Pratt.                                                 *)

(* The first k of the pattern are the last k of the first i of the text,    *)
(* and none of them is before the position from.                            *)
Matches(pattern, text, from, i, k) ==
    /\ k \in 0..Len(pattern) /\ from + k <= i
    /\ \A x \in 1..k : pattern[x] = text[i - k + x]

Greatest(pattern, text, from, i, k) ==
    /\ Matches(pattern, text, from, i, k)
    /\ \A q \in Nat : Matches(pattern, text, from, i, q) => q <= k

(* For each of the first n prefixes, the greatest that is also its end.     *)
Falls(pattern, failure, n) == \A i \in 1..n : Greatest(pattern, pattern, 1, i, failure[i])

FallIs(f, pattern, failure, j, t) ==
    f = [k \in 0..j |-> IF pattern[k + 1] = t THEN k + 1
                        ELSE IF k > 0 THEN f[failure[k]] ELSE 0]

(* An end of an end is an end.                                              *)
LEMMA EndOfEnd ==
    ASSUME NEW pattern, NEW text, NEW from \in Nat, NEW i \in Nat, NEW k, NEW q,
           Len(pattern) \in Nat, Matches(pattern, text, from, i, k)
    PROVE  /\ Matches(pattern, pattern, 1, k, q) => Matches(pattern, text, from, i, q)
           /\ Matches(pattern, text, from, i, q) /\ q < k => Matches(pattern, pattern, 1, k, q)
  <1>1. k \in 0..Len(pattern) /\ from + k <= i /\ \A x \in 1..k : pattern[x] = text[i - k + x]
    BY DEF Matches
  <1>2. ASSUME Matches(pattern, pattern, 1, k, q)
        PROVE  Matches(pattern, text, from, i, q)
    <2>1. q \in 0..Len(pattern) /\ 1 + q <= k /\ \A x \in 1..q : pattern[x] = pattern[k - q + x]
      BY <1>2 DEF Matches
    <2>2. ASSUME NEW x \in 1..q PROVE pattern[x] = text[i - q + x]
      <3>1. k - q + x \in 1..k /\ i - k + (k - q + x) = i - q + x
        BY <1>1, <2>1
      <3> QED BY <1>1, <2>1, <3>1
    <2> QED BY <1>1, <2>1, <2>2 DEF Matches
  <1>3. ASSUME Matches(pattern, text, from, i, q), q < k
        PROVE  Matches(pattern, pattern, 1, k, q)
    <2>1. q \in 0..Len(pattern) /\ \A x \in 1..q : pattern[x] = text[i - q + x]
      BY <1>3 DEF Matches
    <2>2. ASSUME NEW x \in 1..q PROVE pattern[x] = pattern[k - q + x]
      <3>1. k - q + x \in 1..k /\ i - k + (k - q + x) = i - q + x
        BY <1>1, <1>3, <2>1
      <3> QED BY <1>1, <2>1, <3>1
    <2> QED BY <1>1, <1>3, <2>1, <2>2 DEF Matches
  <1> QED BY <1>2, <1>3

(* One more byte: every match but the empty one has grown by it, and a match *)
(* grows.                                                                   *)
LEMMA MatchShrinks ==
    ASSUME NEW pattern, NEW text, NEW from \in Nat, NEW n \in Nat, NEW l \in Nat,
           Len(pattern) \in Nat, l # 0, Matches(pattern, text, from, n, l)
    PROVE  /\ n - 1 \in Nat /\ Matches(pattern, text, from, n - 1, l - 1)
           /\ l - 1 < Len(pattern) /\ pattern[l] = text[n]
  <1>1. /\ l \in 0..Len(pattern) /\ from + l <= n
        /\ \A x \in 1..l : pattern[x] = text[n - l + x]
    BY DEF Matches
  <1>2. ASSUME NEW x \in 1..(l - 1) PROVE pattern[x] = text[(n - 1) - (l - 1) + x]
    <2>1. x \in 1..l /\ n - l + x = (n - 1) - (l - 1) + x
      OBVIOUS
    <2> QED BY <1>1, <2>1
  <1>3. l \in 1..l /\ n - l + l = n
    OBVIOUS
  <1>4. pattern[l] = text[n]
    <2>1. pattern[l] = text[n - l + l]
      BY <1>1, <1>3
    <2> QED BY <1>3, <2>1
  <1>5. n - 1 \in Nat /\ l - 1 \in 0..Len(pattern) /\ from + (l - 1) <= n - 1 /\ l - 1 < Len(pattern)
    BY <1>1
  <1> QED BY <1>2, <1>4, <1>5 DEF Matches

LEMMA MatchGrows ==
    ASSUME NEW pattern, NEW text, NEW from \in Nat, NEW i \in Nat, NEW k \in Nat,
           Len(pattern) \in Nat
    PROVE  Matches(pattern, text, from, i + 1, k + 1) <=>
               /\ Matches(pattern, text, from, i, k)
               /\ k < Len(pattern) /\ pattern[k + 1] = text[i + 1]
  <1>1. ASSUME Matches(pattern, text, from, i + 1, k + 1)
        PROVE  /\ Matches(pattern, text, from, i, k)
               /\ k < Len(pattern) /\ pattern[k + 1] = text[i + 1]
    <2>1. i + 1 \in Nat /\ k + 1 \in Nat /\ k + 1 # 0 /\ (k + 1) - 1 = k /\ (i + 1) - 1 = i
      OBVIOUS
    <2> QED BY <1>1, <2>1, MatchShrinks
  <1>2. ASSUME Matches(pattern, text, from, i, k), k < Len(pattern), pattern[k + 1] = text[i + 1]
        PROVE  Matches(pattern, text, from, i + 1, k + 1)
    <2>1. from + k <= i /\ \A x \in 1..k : pattern[x] = text[i - k + x]
      BY <1>2 DEF Matches
    <2>2. ASSUME NEW x \in 1..(k + 1) PROVE pattern[x] = text[(i + 1) - (k + 1) + x]
      <3>1. (i + 1) - (k + 1) + x = i - k + x
        OBVIOUS
      <3>2. CASE x = k + 1
        <4>1. i - k + x = i + 1
          BY <3>2
        <4> QED BY <1>2, <3>1, <3>2, <4>1
      <3>3. CASE x # k + 1
        <4>1. x \in 1..k
          BY <3>3
        <4> QED BY <2>1, <3>1, <4>1
      <3> QED BY <3>2, <3>3
    <2>3. k + 1 \in 0..Len(pattern) /\ from + (k + 1) <= i + 1
      BY <1>2, <2>1
    <2> QED BY <2>2, <2>3 DEF Matches
  <1> QED BY <1>1, <1>2

(* With a right table, the greatest match after one more byte is found from *)
(* any match that is no shorter than it but for that byte.                  *)
LEMMA FallenFinds ==
    ASSUME NEW pattern, NEW failure, NEW text, NEW from \in Nat, NEW i \in Nat, NEW j \in Nat,
           Len(pattern) \in Nat, j < Len(pattern),
           Falls(pattern, failure, j), Matches(pattern, text, from, i, j),
           \A q \in Nat : Matches(pattern, text, from, i + 1, q) => q <= j + 1
    PROVE  Greatest(pattern, text, from, i + 1, Fallen(pattern, failure, j, text[i + 1]))
  <1> DEFINE t == text[i + 1]
             S == 0..j
             stop == [k \in S |-> pattern[k + 1] = t \/ k = 0]
             value == [k \in S |-> IF pattern[k + 1] = t THEN k + 1 ELSE 0]
             rank == [k \in S |-> k]
             f == CHOOSE g : FallIs(g, pattern, failure, j, t)
             Longest(k) == \A q \in Nat : Matches(pattern, text, from, i + 1, q) => q <= k + 1
             Good == {k \in S : Matches(pattern, text, from, i, k) /\ Longest(k)}
  <1>1. Fallen(pattern, failure, j, t) = f[j]
    BY DEF Fallen, FallIs
  <1>2. ASSUME NEW k \in S, k # 0
        PROVE  /\ Matches(pattern, pattern, 1, k, failure[k])
               /\ \A q \in Nat : Matches(pattern, pattern, 1, k, q) => q <= failure[k]
               /\ failure[k] \in 0..(k - 1)
    <2>1. k \in 1..j
      BY <1>2
    <2>2. Greatest(pattern, pattern, 1, k, failure[k])
      BY <2>1 DEF Falls
    <2> QED BY <2>1, <2>2 DEF Greatest, Matches
  <1>0. \A k \in S : /\ stop[k] <=> (pattern[k + 1] = t \/ k = 0)
                     /\ value[k] = IF pattern[k + 1] = t THEN k + 1 ELSE 0
                     /\ rank[k] = k
    OBVIOUS
  <1>3. Descends(S, stop, failure, rank, j)
    <2>1. ASSUME NEW k \in S PROVE rank[k] \in 0..j /\ (~stop[k] => failure[k] \in S /\ rank[failure[k]] < rank[k])
      <3>1. k # 0 => failure[k] \in 0..(k - 1) /\ failure[k] \in S
        BY <1>2
      <3>2. k # 0 => rank[failure[k]] = failure[k]
        BY <1>0, <3>1
      <3>3. k \in 0..j /\ rank[k] = k /\ (~stop[k] => k # 0)
        BY <1>0
      <3> HIDE DEF rank, stop
      <3> QED BY <3>1, <3>2, <3>3
    <2> HIDE DEF S, stop, rank
    <2> QED BY <2>1 DEF Descends
  <1>4. ASSUME NEW g
        PROVE  FallIs(g, pattern, failure, j, t) <=> Loops(g, S, stop, value, failure)
    <2> DEFINE a == [k \in S |-> IF pattern[k + 1] = t THEN k + 1
                                 ELSE IF k > 0 THEN g[failure[k]] ELSE 0]
               b == [k \in S |-> IF stop[k] THEN value[k] ELSE g[failure[k]]]
    <2>1. ASSUME NEW k \in S PROVE a[k] = b[k]
      <3>1. a[k] = IF pattern[k + 1] = t THEN k + 1 ELSE IF k > 0 THEN g[failure[k]] ELSE 0
        OBVIOUS
      <3>2. b[k] = IF stop[k] THEN value[k] ELSE g[failure[k]]
        OBVIOUS
      <3>3. k \in Nat
        OBVIOUS
      <3> HIDE DEF a, b, stop, value
      <3> QED BY <1>0, <3>1, <3>2, <3>3
    <2>2. a = b
      BY <2>1
    <2> QED BY <2>2 DEF FallIs, Loops
  <1>5. Loops(f, S, stop, value, failure)
    <2>1. \E g : Loops(g, S, stop, value, failure)
      <3> HIDE DEF S, stop, value, rank
      <3> QED BY <1>3, LoopExists
    <2>2. \E g : FallIs(g, pattern, failure, j, t)
      <3> HIDE DEF S, stop, value, rank
      <3> QED BY <1>4, <2>1
    <2>3. FallIs(f, pattern, failure, j, t)
      BY <2>2
    <2> HIDE DEF S, stop, value, rank, f
    <2> QED BY <1>4, <2>3
  <1> HIDE DEF f
  <1>6. ASSUME NEW k \in Good, ~stop[k] PROVE failure[k] \in Good
    <2>1. k \in S /\ k # 0 /\ pattern[k + 1] # t /\ Matches(pattern, text, from, i, k) /\ Longest(k)
      BY <1>6
    <2>2. Matches(pattern, text, from, i, failure[k])
      BY <1>2, <2>1, EndOfEnd
    <2>3. ASSUME NEW q \in Nat, Matches(pattern, text, from, i + 1, q)
          PROVE  q <= failure[k] + 1
      <3>0. failure[k] \in 0..(k - 1)
        BY <1>2, <2>1
      <3>1. CASE q = 0
        BY <3>0, <3>1
      <3>2. CASE q # 0
        <4>1. PICK p \in Nat : q = p + 1
          <5>1. q - 1 \in Nat /\ q = (q - 1) + 1
            BY <3>2
          <5> QED BY <5>1
        <4>2. Matches(pattern, text, from, i, p) /\ pattern[q] = t
          <5>1. Matches(pattern, text, from, i + 1, q) /\ q - 1 = p /\ (i + 1) - 1 = i
            BY <2>3, <4>1
          <5> HIDE DEF Good
          <5> QED BY <3>2, <5>1, MatchShrinks
        <4>3. q <= k + 1 /\ q # k + 1
          BY <2>1, <2>3, <4>2
        <4>4. p < k
          BY <2>1, <4>1, <4>3
        <4>5. Matches(pattern, pattern, 1, k, p)
          BY <2>1, <4>2, <4>4, EndOfEnd
        <4>6. p <= failure[k]
          BY <1>2, <2>1, <4>1, <4>5
        <4> QED BY <3>0, <4>1, <4>6
      <3> QED BY <3>1, <3>2
    <2>4. failure[k] \in S
      BY <1>2, <2>1
    <2> QED BY <2>2, <2>3, <2>4
  <1>7. j \in Good
    OBVIOUS
  <1>8. PICK k \in Good : stop[k] /\ f[j] = value[k]
    <2>1. Good \in SUBSET S
      OBVIOUS
    <2>2. Kept(Good, stop, failure)
      <3> HIDE DEF Good, stop
      <3> QED BY <1>6 DEF Kept
    <2>0. Loop(f, S, stop, value, failure, rank, j)
      BY <1>3, <1>5 DEF Loop
    <2> HIDE DEF S, stop, value, rank, Good, Longest, t
    <2>3. \A y \in Good : \E x \in Good : stop[x] /\ f[y] = value[x]
      BY <2>0, <2>1, <2>2, LoopEnds
    <2> QED BY <1>7, <2>3
  <1>9. k \in 0..j /\ Matches(pattern, text, from, i, k) /\ Longest(k)
    OBVIOUS
  <1>10. CASE pattern[k + 1] = t
    <2>1. f[j] = k + 1
      BY <1>8, <1>9, <1>10
    <2>2. Matches(pattern, text, from, i + 1, k + 1)
      BY <1>9, <1>10, MatchGrows
    <2> QED BY <1>1, <1>9, <2>1, <2>2 DEF Greatest
  <1>11. CASE pattern[k + 1] # t
    <2>1. k = 0 /\ f[j] = 0
      BY <1>8, <1>9, <1>11
    <2>2. Matches(pattern, text, from, i + 1, 0)
      BY <1>9, <2>1 DEF Matches
    <2>3. ASSUME NEW q \in Nat, Matches(pattern, text, from, i + 1, q) PROVE q <= 0
      <3>1. q <= 1
        BY <1>9, <2>1, <2>3
      <3>2. q # 1
        <4>1. ~Matches(pattern, text, from, i + 1, k + 1)
          BY <1>9, <1>11, MatchGrows
        <4>2. k + 1 = 1
          BY <2>1
        <4> QED BY <2>3, <4>1, <4>2
      <3> QED BY <3>1, <3>2
    <2> QED BY <1>1, <2>1, <2>2, <2>3 DEF Greatest
  <1> QED BY <1>10, <1>11

LEMMA FallenGreatest ==
    ASSUME NEW pattern, NEW failure, NEW text, NEW from \in Nat, NEW i \in Nat, NEW j,
           Len(pattern) \in Nat, j < Len(pattern),
           Falls(pattern, failure, j), Greatest(pattern, text, from, i, j)
    PROVE  Greatest(pattern, text, from, i + 1, Fallen(pattern, failure, j, text[i + 1]))
  <1>1. j \in Nat /\ Matches(pattern, text, from, i, j)
    BY DEF Greatest, Matches
  <1>2. ASSUME NEW q \in Nat, Matches(pattern, text, from, i + 1, q)
        PROVE  q <= j + 1
    <2>1. CASE q = 0
      BY <1>1, <2>1
    <2>2. CASE q # 0
      <3>1. PICK p \in Nat : q = p + 1
        <4>1. q - 1 \in Nat /\ q = (q - 1) + 1
          BY <2>2
        <4> QED BY <4>1
      <3>2. Matches(pattern, text, from, i + 1, p + 1)
        BY <1>2, <3>1
      <3>3. Matches(pattern, text, from, i, p)
        BY <3>2, MatchGrows
      <3>4. p <= j
        BY <3>3 DEF Greatest
      <3> QED BY <1>1, <3>1, <3>4
    <2> QED BY <2>1, <2>2
  <1> QED BY <1>1, <1>2, FallenFinds

FailureIs(f, pattern, n) ==
    f = [i \in 0..n |->
            IF i = 0 THEN << >>
            ELSE IF i = 1 THEN <<0>>
            ELSE LET g == f[i - 1] IN Append(g, Fallen(pattern, g, g[i - 1], pattern[i]))]

LEMMA FailureExists ==
    ASSUME NEW pattern, NEW n \in Nat
    PROVE  \E f : FailureIs(f, pattern, n)
  <1> DEFINE Turn(g, i) == Append(g, Fallen(pattern, g, g[i - 1], pattern[i]))
             bad == {m \in Nat : ~\E f : FailureIs(f, pattern, m)}
  <1>0. ASSUME NEW f, NEW m
        PROVE  FailureIs(f, pattern, m) <=>
                   f = [i \in 0..m |-> IF i = 0 THEN << >> ELSE IF i = 1 THEN <<0>>
                                       ELSE Turn(f[i - 1], i)]
    BY DEF FailureIs
  <1> HIDE DEF Turn
  <1>1. ASSUME bad # {} PROVE FALSE
    <2>1. PICK m \in bad : \A k \in bad : m <= k
      <3>1. bad \in SUBSET Nat
        OBVIOUS
      <3> HIDE DEF bad
      <3> QED BY <1>1, <3>1, LeastNumber
    <2>2. m \in Nat /\ ~\E f : FailureIs(f, pattern, m)
      OBVIOUS
    <2>3. CASE m = 0
      <3> DEFINE f == [i \in 0..0 |-> << >>]
      <3>1. f = [i \in 0..m |-> IF i = 0 THEN << >> ELSE IF i = 1 THEN <<0>>
                                ELSE Turn(f[i - 1], i)]
        BY <2>3
      <3> HIDE DEF f
      <3> QED BY <1>0, <2>2, <3>1
    <2>4. CASE m # 0
      <3>1. m - 1 \in Nat /\ ~(m <= m - 1)
        BY <2>2, <2>4
      <3>2. m - 1 \notin bad
        <4> HIDE DEF bad
        <4> QED BY <2>1, <3>1
      <3>3. PICK g : FailureIs(g, pattern, m - 1)
        BY <3>1, <3>2
      <3> DEFINE f == [i \in 0..m |-> IF i = 0 THEN << >> ELSE IF i = 1 THEN <<0>>
                                      ELSE Turn(g[i - 1], i)]
      <3>4. \A i \in 0..(m - 1) : g[i] = IF i = 0 THEN << >> ELSE IF i = 1 THEN <<0>>
                                         ELSE Turn(g[i - 1], i)
        BY <1>0, <3>3
      <3>5. \A i \in 0..(m - 1) : i \in 0..m /\ f[i] = g[i]
        BY <2>2, <3>4
      <3>6. \A i \in 0..m : i # 0 => i - 1 \in 0..(m - 1)
        BY <2>2
      <3>7. f = [i \in 0..m |-> IF i = 0 THEN << >> ELSE IF i = 1 THEN <<0>>
                                ELSE Turn(f[i - 1], i)]
        BY <3>5, <3>6
      <3> HIDE DEF f
      <3> QED BY <1>0, <2>2, <3>7
    <2> QED BY <2>3, <2>4
  <1>2. n \notin bad
    BY <1>1
  <1> QED BY <1>2

(* The table is right for every pattern.                                    *)
LEMMA FailureFalls ==
    ASSUME NEW pattern, Len(pattern) \in Nat \ {0}
    PROVE  Falls(pattern, KmpFailureFunction(pattern), Len(pattern))
  <1> DEFINE m == Len(pattern)
             f == CHOOSE g : FailureIs(g, pattern, m)
             Right(i) == f[i] \in Seq(Nat) /\ Len(f[i]) = i /\ Falls(pattern, f[i], i)
             bad == {i \in 1..m : ~Right(i)}
  <1>0. m \in Nat /\ m # 0
    OBVIOUS
  <1>1. KmpFailureFunction(pattern) = f[m]
    BY DEF KmpFailureFunction, FailureIs
  <1>2. FailureIs(f, pattern, m)
    BY <1>0, FailureExists
  <1> HIDE DEF f, m
  <1>3. /\ f[1] = <<0>>
        /\ \A i \in 2..m : f[i] = Append(f[i - 1], Fallen(pattern, f[i - 1], f[i - 1][i - 1], pattern[i]))
    <2> DEFINE Turn(g, i) == Append(g, Fallen(pattern, g, g[i - 1], pattern[i]))
    <2>1. f = [i \in 0..m |-> IF i = 0 THEN << >> ELSE IF i = 1 THEN <<0>> ELSE Turn(f[i - 1], i)]
      BY <1>2 DEF FailureIs
    <2>2. 1 \in 0..m /\ \A i \in 2..m : i \in 0..m /\ i # 0 /\ i # 1
      BY <1>0
    <2>3. \A i \in 2..m : f[i] = Turn(f[i - 1], i)
      <3> HIDE DEF Turn
      <3> QED BY <2>1, <2>2
    <2>4. f[1] = <<0>>
      <3> HIDE DEF Turn
      <3> QED BY <2>1, <2>2
    <2> QED BY <2>3, <2>4
  <1>4. Right(1)
    <2>1. <<0>> \in Seq(Nat) /\ Len(<<0>>) = 1 /\ <<0>>[1] = 0
      OBVIOUS
    <2>2. Matches(pattern, pattern, 1, 1, 0)
      BY <1>0 DEF Matches, m
    <2>3. \A q \in Nat : Matches(pattern, pattern, 1, 1, q) => q <= 0
      BY DEF Matches
    <2>4. Greatest(pattern, pattern, 1, 1, <<0>>[1])
      BY <2>1, <2>2, <2>3 DEF Greatest
    <2>5. \A i \in 1..1 : i = 1
      OBVIOUS
    <2>6. Falls(pattern, <<0>>, 1)
      BY <2>4, <2>5 DEF Falls
    <2> QED BY <1>3, <2>1, <2>6
  <1>5. ASSUME NEW i \in 2..m, Right(i - 1) PROVE Right(i)
    <2> DEFINE g == f[i - 1]
               j == g[i - 1]
               r == Fallen(pattern, g, j, pattern[i])
    <2>0. i - 1 \in Nat /\ i - 1 \in 1..(i - 1) /\ (i - 1) + 1 = i /\ i \in Nat /\ i - 1 < m
      BY <1>0
    <2>1. g \in Seq(Nat) /\ Len(g) = i - 1 /\ Falls(pattern, g, i - 1)
      BY <1>5
    <2> HIDE DEF g
    <2>2. Greatest(pattern, pattern, 1, i - 1, j)
      BY <2>0, <2>1 DEF Falls
    <2>3. j \in Nat /\ 1 + j <= i - 1
      BY <2>2 DEF Greatest, Matches
    <2>4. Falls(pattern, g, j)
      BY <2>0, <2>1, <2>3 DEF Falls
    <2>5. j < Len(pattern)
      BY <2>0, <2>3 DEF m
    <2> HIDE DEF j
    <2>6. Greatest(pattern, pattern, 1, (i - 1) + 1, Fallen(pattern, g, j, pattern[(i - 1) + 1]))
      BY <2>0, <2>2, <2>4, <2>5, FallenGreatest
    <2>7. Greatest(pattern, pattern, 1, i, r)
      BY <2>0, <2>6
    <2> HIDE DEF r
    <2>8. r \in Nat
      BY <2>7 DEF Greatest, Matches
    <2>9. f[i] = Append(g, r)
      BY <1>3 DEF g, j, r
    <2>10. /\ Append(g, r) \in Seq(Nat) /\ Len(Append(g, r)) = i
           /\ \A k \in 1..(i - 1) : Append(g, r)[k] = g[k]
           /\ Append(g, r)[i] = r
      BY <2>0, <2>1, <2>8, AppendFacts
    <2>11. \A k \in 1..i : Greatest(pattern, pattern, 1, k, Append(g, r)[k])
      <3>1. \A k \in 1..(i - 1) : Greatest(pattern, pattern, 1, k, g[k])
        BY <2>1 DEF Falls
      <3>2. \A k \in 1..i : k = i \/ k \in 1..(i - 1)
        BY <2>0
      <3> QED BY <2>7, <2>10, <3>1, <3>2
    <2> QED BY <2>9, <2>10, <2>11 DEF Falls
  <1>6. ASSUME bad # {} PROVE FALSE
    <2>1. PICK i \in bad : \A k \in bad : i <= k
      <3>1. bad \in SUBSET Nat
        OBVIOUS
      <3> HIDE DEF bad
      <3> QED BY <1>6, <3>1, LeastNumber
    <2>2. i \in 1..m /\ ~Right(i)
      OBVIOUS
    <2>3. i # 1
      BY <1>4, <2>2
    <2>4. i \in 2..m /\ i - 1 \in 1..m /\ ~(i <= i - 1)
      BY <1>0, <2>2, <2>3
    <2>5. i - 1 \notin bad
      <3> HIDE DEF bad
      <3> QED BY <2>1, <2>4
    <2>6. Right(i - 1)
      <3> HIDE DEF Right
      <3> QED BY <2>4, <2>5
    <2> HIDE DEF Right
    <2> QED BY <1>5, <2>2, <2>4, <2>6
  <1>7. m \in 1..m
    BY <1>0
  <1>8. Right(m)
    <2> HIDE DEF Right
    <2> QED BY <1>6, <1>7
  <1> QED BY <1>1, <1>8 DEF m

(* Whatever byte comes, the new match has at most one byte more.            *)
LEMMA FallenType ==
    ASSUME NEW pattern, NEW failure, NEW j \in Nat, NEW t,
           Len(pattern) \in Nat, j < Len(pattern), Falls(pattern, failure, j)
    PROVE  Fallen(pattern, failure, j, t) \in 0..(j + 1)
  <1> DEFINE text == [x \in 1..(j + 1) |-> IF x <= j THEN pattern[x] ELSE t]
  <1>1. text[j + 1] = t /\ \A x \in 1..j : text[j - j + x] = pattern[x]
    OBVIOUS
  <1> HIDE DEF text
  <1>2. Matches(pattern, text, 0, j, j)
    BY <1>1 DEF Matches
  <1>3. \A q \in Nat : Matches(pattern, text, 0, j + 1, q) => q <= j + 1
    BY DEF Matches
  <1>4. Greatest(pattern, text, 0, j + 1, Fallen(pattern, failure, j, text[j + 1]))
    BY <1>2, <1>3, FallenFinds
  <1>5. Greatest(pattern, text, 0, j + 1, Fallen(pattern, failure, j, t))
    BY <1>1, <1>4
  <1> QED BY <1>5 DEF Greatest, Matches

(* The first byte of an occurrence: positions are counted from 0.           *)
OccursAt(pattern, data, i) ==
    i \in Nat /\ i + Len(pattern) <= Len(data) /\ \A x \in 1..Len(pattern) : data[i + x] = pattern[x]

(* No occurrence from the offset on ends before i.                          *)
NoneBefore(pattern, data, offset, i) ==
    \A a \in Nat : OccursAt(pattern, data, a) /\ offset <= a => i < a + Len(pattern)

IsFirst(pattern, data, offset, r) ==
    \/ /\ OccursAt(pattern, data, r) /\ offset <= r
       /\ \A a \in Nat : OccursAt(pattern, data, a) /\ offset <= a => r <= a
    \/ r = -1 /\ \A a \in Nat : ~(OccursAt(pattern, data, a) /\ offset <= a)

LEMMA OccurrenceMatches ==
    ASSUME NEW pattern, NEW data, NEW offset \in Nat, NEW i \in Nat,
           Len(pattern) \in Nat, Len(data) \in Nat, i <= Len(data), Len(pattern) <= i
    PROVE  OccursAt(pattern, data, i - Len(pattern)) /\ offset <= i - Len(pattern)
               <=> Matches(pattern, data, offset, i, Len(pattern))
  BY DEF OccursAt, Matches

LEMMA ReadToFinds ==
    ASSUME NEW pattern, NEW data, NEW offset \in Nat,
           Len(pattern) \in Nat \ {0}, Len(data) \in Nat
    PROVE  IsFirst(pattern, data, offset, ReadTo(pattern, data, offset))
  <1> DEFINE m == Len(pattern)
             n == Len(data)
             failure == KmpFailureFunction(pattern)
             S == (offset..n) \X (0..(m - 1))
             K(at) == Fallen(pattern, failure, at[2], data[at[1] + 1])
             stop == [at \in S |-> at[1] = n \/ K(at) = m]
             value == [at \in S |-> IF at[1] = n THEN -1 ELSE at[1] + 1 - m]
             next == [at \in S |-> <<at[1] + 1, K(at)>>]
             rank == [at \in S |-> n - at[1]]
             Is(g) == g = [at \in S |-> IF at[1] = n THEN -1
                                        ELSE LET k == K(at)
                                             IN  IF k = m THEN at[1] + 1 - m ELSE g[<<at[1] + 1, k>>]]
             f == CHOOSE g : Is(g)
             Good == {at \in S : /\ Greatest(pattern, data, offset, at[1], at[2])
                                 /\ NoneBefore(pattern, data, offset, at[1])}
  <1>0. m \in Nat /\ m # 0 /\ n \in Nat
    OBVIOUS
  <1>1. ReadTo(pattern, data, offset) = IF offset > n THEN -1 ELSE f[<<offset, 0>>]
    BY DEF ReadTo
  <1>2. CASE offset > n
    <2>1. \A a \in Nat : ~(OccursAt(pattern, data, a) /\ offset <= a)
      BY <1>2, <1>0 DEF OccursAt
    <2> QED BY <1>1, <1>2, <2>1 DEF IsFirst
  <1>4. ASSUME NEW at \in S
        PROVE  /\ at[1] \in offset..n /\ at[2] \in 0..(m - 1) /\ at = <<at[1], at[2]>>
               /\ Falls(pattern, failure, at[2])
               /\ K(at) \in 0..m
    <2>1. at[1] \in offset..n /\ at[2] \in 0..(m - 1) /\ at = <<at[1], at[2]>>
      OBVIOUS
    <2>2. Falls(pattern, failure, m)
      BY <1>0, FailureFalls
    <2> HIDE DEF failure
    <2>3. \A k \in 1..at[2] : k \in 1..m
      BY <1>0, <2>1
    <2>4. Falls(pattern, failure, at[2])
      BY <2>2, <2>3 DEF Falls
    <2> DEFINE j == at[2]
               t == data[at[1] + 1]
    <2>5. j \in Nat /\ j < Len(pattern)
      BY <1>0, <2>1
    <2> HIDE DEF j, t, m
    <2>6. Fallen(pattern, failure, j, t) \in 0..(j + 1)
      BY <1>0, <2>4, <2>5, FallenType DEF m, j
    <2> QED BY <1>0, <2>1, <2>4, <2>5, <2>6 DEF j, t, m
  <1> HIDE DEF failure, m, n, K
  <1>5. \A at \in S : /\ stop[at] <=> (at[1] = n \/ K(at) = m)
                      /\ value[at] = IF at[1] = n THEN -1 ELSE at[1] + 1 - m
                      /\ next[at] = <<at[1] + 1, K(at)>>
                      /\ rank[at] = n - at[1]
    OBVIOUS
  <1>6. Descends(S, stop, next, rank, n)
    <2>1. ASSUME NEW at \in S PROVE rank[at] \in 0..n /\ (~stop[at] => next[at] \in S /\ rank[next[at]] < rank[at])
      <3>1. rank[at] = n - at[1] /\ at[1] \in offset..n
        BY <1>4, <1>5
      <3>2. ASSUME ~stop[at] PROVE next[at] \in S /\ rank[next[at]] < rank[at]
        <4>1. at[1] # n /\ K(at) # m /\ next[at] = <<at[1] + 1, K(at)>>
          BY <1>5, <3>2
        <4>2. K(at) \in 0..(m - 1) /\ at[1] + 1 \in offset..n
          BY <1>0, <1>4, <3>1, <4>1
        <4>3. next[at] \in S /\ next[at][1] = at[1] + 1
          BY <4>1, <4>2
        <4>4. rank[next[at]] = n - (at[1] + 1)
          BY <1>5, <4>3
        <4> QED BY <1>0, <3>1, <4>3, <4>4
      <3>3. rank[at] \in 0..n
        BY <1>0, <3>1
      <3> QED BY <3>2, <3>3
    <2> HIDE DEF S, stop, rank, next
    <2> QED BY <2>1 DEF Descends
  <1>7. ASSUME NEW g PROVE Is(g) <=> Loops(g, S, stop, value, next)
    <2> DEFINE a == [at \in S |-> IF at[1] = n THEN -1
                                  ELSE LET k == K(at)
                                       IN  IF k = m THEN at[1] + 1 - m ELSE g[<<at[1] + 1, k>>]]
               b == [at \in S |-> IF stop[at] THEN value[at] ELSE g[next[at]]]
    <2>1. ASSUME NEW at \in S PROVE a[at] = b[at]
      <3>1. a[at] = IF at[1] = n THEN -1
                    ELSE IF K(at) = m THEN at[1] + 1 - m ELSE g[<<at[1] + 1, K(at)>>]
        OBVIOUS
      <3>2. b[at] = IF stop[at] THEN value[at] ELSE g[next[at]]
        OBVIOUS
      <3> HIDE DEF a, b, stop, value, next, S
      <3> QED BY <1>5, <3>1, <3>2
    <2>2. a = b
      <3> HIDE DEF stop, value, next
      <3> QED BY <2>1
    <2> QED BY <2>2 DEF Loops
  <1>8. Loop(f, S, stop, value, next, rank, n)
    <2> HIDE DEF S, stop, value, next, rank, Is
    <2>1. \E g : Loops(g, S, stop, value, next)
      BY <1>0, <1>6, LoopExists
    <2>2. \E g : Is(g)
      BY <1>7, <2>1
    <2>3. Is(f)
      BY <2>2
    <2> HIDE DEF f
    <2> QED BY <1>0, <1>6, <1>7, <2>3 DEF Loop
  <1> HIDE DEF f
  <1>9. ASSUME NEW at \in S, at[1] # n, Greatest(pattern, data, offset, at[1], at[2])
        PROVE  Greatest(pattern, data, offset, at[1] + 1, K(at))
    <2>1. at[1] \in Nat /\ at[2] < Len(pattern) /\ Falls(pattern, failure, at[2])
      BY <1>0, <1>4 DEF m
    <2> QED BY <1>9, <2>1, FallenGreatest DEF K
  <1>10. Kept(Good, stop, next)
    <2>1. ASSUME NEW at \in Good, ~stop[at] PROVE next[at] \in Good
      <3>1. at \in S /\ Greatest(pattern, data, offset, at[1], at[2]) /\ NoneBefore(pattern, data, offset, at[1])
        OBVIOUS
      <3> DEFINE i == at[1] + 1
                 k == K(at)
      <3>2. at[1] # n /\ k # m /\ next[at] = <<i, k>>
        BY <1>5, <2>1, <3>1
      <3>3. next[at] \in S
        BY <1>6, <2>1, <3>1 DEF Descends
      <3>4. Greatest(pattern, data, offset, i, k)
        BY <1>9, <3>1, <3>2
      <3>5. i \in Nat /\ i <= n /\ k \in Nat /\ k < m
        BY <1>0, <1>4, <3>1, <3>2
      <3> HIDE DEF k
      <3>6. ASSUME NEW a \in Nat, OccursAt(pattern, data, a), offset <= a PROVE i < a + m
        <4>1. at[1] < a + m
          BY <3>1, <3>6 DEF NoneBefore, m
        <4>2. ASSUME a + m = i PROVE FALSE
          <5>1. i - Len(pattern) = a /\ Len(pattern) <= i /\ i <= Len(data)
            BY <1>0, <3>5, <4>2 DEF m, n
          <5>2. Matches(pattern, data, offset, i, Len(pattern))
            BY <3>5, <3>6, <5>1, OccurrenceMatches
          <5>3. m <= k
            BY <1>0, <3>4, <5>2 DEF Greatest, m
          <5> QED BY <1>0, <3>5, <5>3
        <4>3. at[1] \in Nat
          BY <1>4, <3>1
        <4> QED BY <1>0, <4>1, <4>2, <4>3
      <3>7. NoneBefore(pattern, data, offset, i)
        BY <3>6 DEF NoneBefore, m
      <3> HIDE DEF i
      <3>8. <<i, k>>[1] = i /\ <<i, k>>[2] = k
        OBVIOUS
      <3> HIDE DEF S
      <3> QED BY <3>2, <3>3, <3>4, <3>7, <3>8
    <2> HIDE DEF Good, stop, next
    <2> QED BY <2>1 DEF Kept
  <1>3. CASE offset <= n
    <2> DEFINE begin == <<offset, 0>>
    <2>1. begin \in S /\ begin[1] = offset /\ begin[2] = 0
      BY <1>0, <1>3
    <2> HIDE DEF begin
    <2>2. begin \in Good
      <3>1. Greatest(pattern, data, offset, offset, 0)
        <4>1. Matches(pattern, data, offset, offset, 0)
          BY DEF Matches
        <4>2. \A q \in Nat : Matches(pattern, data, offset, offset, q) => q <= 0
          BY DEF Matches
        <4> QED BY <4>1, <4>2 DEF Greatest
      <3>2. NoneBefore(pattern, data, offset, offset)
        BY <1>0 DEF NoneBefore, m
      <3> HIDE DEF S
      <3> QED BY <2>1, <3>1, <3>2
    <2>3. PICK at \in Good : stop[at] /\ f[begin] = value[at]
      <3>1. Good \in SUBSET S
        OBVIOUS
      <3> HIDE DEF S, stop, value, next, rank, Good
      <3>2. \A y \in Good : \E x \in Good : stop[x] /\ f[y] = value[x]
        BY <1>8, <1>10, <3>1, LoopEnds
      <3> QED BY <2>2, <3>2
    <2>4. at \in S /\ Greatest(pattern, data, offset, at[1], at[2]) /\ NoneBefore(pattern, data, offset, at[1])
      OBVIOUS
    <2>5. ReadTo(pattern, data, offset) = value[at]
      BY <1>0, <1>1, <1>3, <2>3 DEF begin
    <2>6. CASE at[1] = n
      <3>1. value[at] = -1
        BY <1>5, <2>4, <2>6
      <3>2. \A a \in Nat : ~(OccursAt(pattern, data, a) /\ offset <= a)
        <4>1. ASSUME NEW a \in Nat, OccursAt(pattern, data, a), offset <= a PROVE FALSE
          <5>1. n < a + m
            BY <2>4, <2>6, <4>1 DEF NoneBefore, m
          <5>2. a + m <= n
            BY <4>1 DEF OccursAt, n, m
          <5> QED BY <1>0, <5>1, <5>2
        <4> QED BY <4>1
      <3> QED BY <2>5, <3>1, <3>2 DEF IsFirst
    <2>7. CASE at[1] # n
      <3> DEFINE i == at[1] + 1
      <3>1. K(at) = m /\ value[at] = at[1] + 1 - m
        <4>1. stop[at] <=> (at[1] = n \/ K(at) = m)
          BY <1>5, <2>4
        <4>2. value[at] = IF at[1] = n THEN -1 ELSE at[1] + 1 - m
          BY <1>5, <2>4
        <4>3. K(at) = m
          BY <2>3, <2>7, <4>1
        <4>4. value[at] = at[1] + 1 - m
          BY <2>7, <4>2
        <4> QED BY <4>3, <4>4
      <3>2. Greatest(pattern, data, offset, i, m)
        BY <1>9, <2>4, <2>7, <3>1
      <3>3. i \in Nat /\ i <= n /\ at[1] \in Nat
        BY <1>0, <1>4, <2>4, <2>7
      <3>4. Matches(pattern, data, offset, i, m) /\ m <= i
        BY <1>0, <3>2, <3>3 DEF Greatest, Matches
      <3>5. OccursAt(pattern, data, i - m) /\ offset <= i - m
        BY <1>0, <3>3, <3>4, OccurrenceMatches DEF m, n
      <3>6. ASSUME NEW a \in Nat, OccursAt(pattern, data, a), offset <= a PROVE i - m <= a
        <4>1. at[1] < a + m
          BY <2>4, <3>6 DEF NoneBefore, m
        <4> QED BY <1>0, <3>3, <4>1
      <3>7. value[at] = i - m
        <4> HIDE DEF value, Good
        <4> QED BY <1>0, <3>1, <3>3
      <3> QED BY <2>5, <3>5, <3>6, <3>7 DEF IsFirst
    <2> QED BY <2>6, <2>7
  <1> QED BY <1>0, <1>2, <1>3

----------------------------------------------------------------------------
(* Boyer and Moore.                                                         *)

LEMMA LeastOfNumbers ==
    ASSUME NEW S \in SUBSET Nat, S # {}
    PROVE  Min(S) \in S /\ \A y \in S : Min(S) <= y
  <1>1. \E i \in S : \A j \in S : i <= j
    BY LeastNumber
  <1> QED BY <1>1 DEF Min

LEMMA GreatestOfNumbers ==
    ASSUME NEW b \in Nat, NEW S \in SUBSET (0..b), S # {}
    PROVE  Max(S) \in S /\ \A y \in S : y <= Max(S)
  <1> DEFINE D == {b - i : i \in S}
  <1>1. D \in SUBSET Nat /\ D # {}
    <2>1. \A i \in S : b - i \in Nat
      OBVIOUS
    <2> QED BY <2>1
  <1>2. PICK d \in D : \A c \in D : d <= c
    <2> HIDE DEF D
    <2> QED BY <1>1, LeastNumber
  <1>3. PICK i \in S : d = b - i
    OBVIOUS
  <1>4. ASSUME NEW j \in S PROVE i >= j
    <2>1. d <= b - j
      BY <1>2
    <2>2. i \in 0..b /\ j \in 0..b
      OBVIOUS
    <2> QED BY <1>3, <2>1, <2>2
  <1>5. \E x \in S : \A y \in S : x >= y
    BY <1>4
  <1>6. Max(S) \in S /\ \A y \in S : Max(S) >= y
    BY <1>5 DEF Max
  <1>7. \A y \in S : y \in 0..b
    OBVIOUS
  <1> HIDE DEF D
  <1> QED BY <1>6, <1>7

(* How many bytes of a suffix of the needle occur before p.                 *)
Agrees(needle, p, n) == \A k \in 0..(n - 1) : needle[p - k + 1] = needle[Len(needle) - k]

LEMMA SuffixLengthIs ==
    ASSUME NEW needle, Len(needle) \in Nat, NEW p \in Nat, NEW n \in 0..(p + 1)
    PROVE  /\ SuffixLength(needle, p) \in 0..(p + 1)
           /\ Agrees(needle, p, n) /\ (n <= p => needle[p - n + 1] # needle[Len(needle) - n])
                  => SuffixLength(needle, p) = n
  <1> DEFINE S == {k \in 0..(p + 1) : Agrees(needle, p, k)}
  <1>1. SuffixLength(needle, p) = Max(S)
    BY DEF SuffixLength, Agrees
  <1>2. 0 \in S
    BY DEF Agrees
  <1>3. S \in SUBSET (0..(p + 1)) /\ p + 1 \in Nat
    OBVIOUS
  <1>4. Max(S) \in S /\ \A y \in S : y <= Max(S)
    <2> HIDE DEF S
    <2> QED BY <1>2, <1>3, GreatestOfNumbers
  <1>5. ASSUME Agrees(needle, p, n), n <= p => needle[p - n + 1] # needle[Len(needle) - n]
        PROVE  Max(S) = n
    <2>1. n \in S
      BY <1>5
    <2>2. n <= Max(S) /\ Max(S) \in 0..(p + 1) /\ Agrees(needle, p, Max(S))
      BY <1>4, <2>1
    <2> DEFINE x == Max(S)
    <2> HIDE DEF x, S
    <2>3. ASSUME n < x PROVE FALSE
      <3>1. n \in 0..(x - 1) /\ n <= p
        BY <2>2, <2>3 DEF x
      <3> QED BY <1>5, <2>2, <3>1 DEF Agrees, x
    <2>4. x \in Nat /\ n <= x
      BY <2>2 DEF x
    <2> QED BY <2>3, <2>4 DEF x
  <1> HIDE DEF S
  <1> QED BY <1>1, <1>3, <1>4, <1>5

(* Where the needle, moved on by s, agrees with the n bytes that were as at  *)
(* its end, and may agree with the next one, which was not.                 *)
Fits(needle, n, s) ==
    /\ \A k \in 0..(n - 1) : k + s < Len(needle) => needle[Len(needle) - k - s] = needle[Len(needle) - k]
    /\ n + s < Len(needle) => needle[Len(needle) - n - s] # needle[Len(needle) - n]

(* The table moves the needle on, and not over a place where it fits.       *)
LEMMA OffsetTableMoves ==
    ASSUME NEW needle, Len(needle) \in Nat, NEW n \in 0..(Len(needle) - 1)
    PROVE  /\ OffsetTable(needle, n) \in (n + 1)..(Len(needle) + n)
           /\ \A s \in Nat \ {0} : Fits(needle, n, s) => OffsetTable(needle, n) <= n + s
  <1> DEFINE m == Len(needle)
             suffixes == {i \in 0..(m - 2) : SuffixLength(needle, i) = n}
             prefixes == {p \in (m - n)..m : IsPrefix(needle, p)}
             o == OffsetTable(needle, n)
  <1>0. m \in Nat /\ n \in Nat /\ n < m
    OBVIOUS
  <1>1. o = IF suffixes # {} THEN m - 1 - Max(suffixes) + n ELSE Min(prefixes) + n
    BY DEF OffsetTable
  <1>2. suffixes \in SUBSET (0..m) /\ prefixes \in SUBSET Nat
    BY <1>0
  <1>3. m \in prefixes
    BY <1>0 DEF IsPrefix
  <1> HIDE DEF m, o
  <1>4. /\ Min(prefixes) \in (m - n)..m
        /\ \A p \in prefixes : Min(prefixes) <= p
    <2>1. Min(prefixes) \in prefixes /\ \A p \in prefixes : Min(prefixes) <= p
      <3> HIDE DEF prefixes
      <3> QED BY <1>2, <1>3, LeastOfNumbers
    <2> QED BY <2>1
  <1>5. ASSUME suffixes # {}
        PROVE  /\ Max(suffixes) \in 0..(m - 2) /\ n <= Max(suffixes) + 1
               /\ \A i \in suffixes : i <= Max(suffixes)
    <2>1. Max(suffixes) \in suffixes /\ \A i \in suffixes : i <= Max(suffixes)
      <3> HIDE DEF suffixes
      <3> QED BY <1>0, <1>2, <1>5, GreatestOfNumbers
    <2> DEFINE x == Max(suffixes)
    <2>2. x \in 0..(m - 2) /\ SuffixLength(needle, x) = n
      BY <2>1
    <2> HIDE DEF x, suffixes
    <2>3. SuffixLength(needle, x) \in 0..(x + 1)
      <3>1. x \in Nat /\ 0 \in 0..(x + 1)
        BY <2>2
      <3> QED BY <3>1, SuffixLengthIs
    <2> QED BY <2>1, <2>2, <2>3 DEF x
  <1>6. o \in (n + 1)..(m + n)
    <2>1. CASE suffixes # {}
      <3> DEFINE x == Max(suffixes)
      <3>1. x \in 0..(m - 2) /\ o = m - 1 - x + n
        BY <1>1, <1>5, <2>1
      <3> HIDE DEF x
      <3> QED BY <1>0, <3>1
    <2>2. CASE suffixes = {}
      <3> DEFINE x == Min(prefixes)
      <3>1. x \in (m - n)..m /\ o = x + n
        BY <1>1, <1>4, <2>2
      <3> HIDE DEF x
      <3> QED BY <1>0, <3>1
    <2> QED BY <2>1, <2>2
  <1>7. ASSUME NEW s \in Nat \ {0}, Fits(needle, n, s)
        PROVE  o <= n + s
    <2>1. /\ \A k \in 0..(n - 1) : k + s < m => needle[m - k - s] = needle[m - k]
          /\ n + s < m => needle[m - n - s] # needle[m - n]
      BY <1>7 DEF Fits, m
    <2>2. CASE n + s < m
      <3> DEFINE i == m - 1 - s
      <3>1. i \in 0..(m - 2) /\ i \in Nat /\ n \in 0..(i + 1) /\ n <= i
        BY <1>0, <2>2
      <3>2. Agrees(needle, i, n)
        <4>1. ASSUME NEW k \in 0..(n - 1) PROVE needle[i - k + 1] = needle[m - k]
          <5>1. i - k + 1 = m - k - s /\ k + s < m
            BY <1>0, <2>2
          <5> QED BY <2>1, <5>1
        <4> QED BY <4>1 DEF Agrees, m
      <3>3. needle[i - n + 1] # needle[m - n]
        <4>1. i - n + 1 = m - n - s
          BY <1>0
        <4> QED BY <2>1, <2>2, <4>1
      <3> HIDE DEF i
      <3>4. SuffixLength(needle, i) = n
        BY <3>1, <3>2, <3>3, SuffixLengthIs DEF m
      <3>5. i \in suffixes
        BY <3>1, <3>4
      <3> DEFINE x == Max(suffixes)
      <3>6. i <= x /\ x \in 0..(m - 2) /\ o = m - 1 - x + n
        BY <1>1, <1>5, <3>5
      <3> HIDE DEF x, suffixes, prefixes
      <3> QED BY <1>0, <3>6 DEF i
    <2>3. CASE ~(n + s < m)
      <3>1. CASE suffixes # {}
        <4> DEFINE x == Max(suffixes)
        <4>1. x \in 0..(m - 2) /\ n <= x + 1 /\ o = m - 1 - x + n
          BY <1>1, <1>5, <3>1
        <4> HIDE DEF x, suffixes, prefixes
        <4> QED BY <1>0, <2>3, <4>1
      <3>2. CASE suffixes = {}
        <4> DEFINE x == Min(prefixes)
        <4>1. x \in (m - n)..m /\ o = x + n
          BY <1>1, <1>4, <3>2
        <4>2. CASE s >= m
          <5> HIDE DEF x, prefixes
          <5> QED BY <1>0, <4>1, <4>2
        <4>3. CASE s < m
          <5>1. s \in (m - n)..m
            BY <1>0, <2>3, <4>3
          <5>2. ASSUME NEW i \in s..(m - 1) PROVE needle[i + 1] = needle[i - s + 1]
            <6> DEFINE k == m - 1 - i
            <6>1. k \in 0..(n - 1) /\ k + s < m /\ m - k - s = i - s + 1 /\ m - k = i + 1
              BY <1>0, <5>1
            <6> HIDE DEF k
            <6> QED BY <2>1, <6>1
          <5>3. IsPrefix(needle, s)
            BY <5>2 DEF IsPrefix, m
          <5>4. s \in prefixes
            BY <5>1, <5>3
          <5>5. x <= s
            BY <1>4, <5>4
          <5> HIDE DEF x, prefixes
          <5> QED BY <1>0, <4>1, <5>5
        <4> QED BY <1>0, <4>2, <4>3
      <3> QED BY <3>1, <3>2
    <2> QED BY <2>2, <2>3
  <1> QED BY <1>6, <1>7 DEF m, o

LEMMA ByteTableMoves ==
    ASSUME NEW needle, Len(needle) \in Nat \ {0}, NEW b
    PROVE  /\ ByteTable(needle, b) \in 1..Len(needle)
           /\ \A d \in 1..(Len(needle) - 1) : needle[Len(needle) - d] = b => ByteTable(needle, b) <= d
  <1> DEFINE m == Len(needle)
             at == {i \in 0..(m - 2) : needle[i + 1] = b}
             t == ByteTable(needle, b)
  <1>0. m \in Nat /\ m # 0
    OBVIOUS
  <1>1. t = IF at = {} THEN m ELSE m - 1 - Max(at)
    BY DEF ByteTable
  <1>2. at \in SUBSET (0..m)
    BY <1>0
  <1> HIDE DEF m, t
  <1>3. ASSUME at # {} PROVE Max(at) \in 0..(m - 2) /\ \A i \in at : i <= Max(at)
    <2>1. Max(at) \in at /\ \A i \in at : i <= Max(at)
      <3> HIDE DEF at
      <3> QED BY <1>0, <1>2, <1>3, GreatestOfNumbers
    <2> QED BY <2>1
  <1>4. t \in 1..m
    <2>1. CASE at = {}
      BY <1>0, <1>1, <2>1
    <2>2. CASE at # {}
      <3> DEFINE x == Max(at)
      <3>1. x \in 0..(m - 2) /\ t = m - 1 - x
        BY <1>1, <1>3, <2>2
      <3> HIDE DEF x, at
      <3> QED BY <1>0, <3>1
    <2> QED BY <2>1, <2>2
  <1>5. ASSUME NEW d \in 1..(m - 1), needle[m - d] = b PROVE t <= d
    <2>1. m - 1 - d \in 0..(m - 2) /\ (m - 1 - d) + 1 = m - d
      BY <1>0
    <2>2. m - 1 - d \in at
      BY <1>5, <2>1
    <2> DEFINE x == Max(at)
    <2>3. m - 1 - d <= x /\ x \in 0..(m - 2) /\ t = m - 1 - x
      BY <1>1, <1>3, <2>2
    <2> HIDE DEF x, at
    <2> QED BY <1>0, <2>3
  <1> QED BY <1>4, <1>5 DEF m, t

AgreedAt(data, needle, e) ==
    Max({n \in 0..Len(needle) : \A k \in 0..(n - 1) : needle[Len(needle) - k] = data[e - k + 1]})

LEMMA AgreedFacts ==
    ASSUME NEW data, NEW needle, Len(needle) \in Nat, NEW e
    PROVE  /\ AgreedAt(data, needle, e) \in 0..Len(needle)
           /\ \A k \in 0..(AgreedAt(data, needle, e) - 1) : needle[Len(needle) - k] = data[e - k + 1]
           /\ AgreedAt(data, needle, e) < Len(needle) =>
                  needle[Len(needle) - AgreedAt(data, needle, e)] # data[e - AgreedAt(data, needle, e) + 1]
  <1> DEFINE m == Len(needle)
             Same(n) == \A k \in 0..(n - 1) : needle[m - k] = data[e - k + 1]
             S == {n \in 0..m : Same(n)}
             x == Max(S)
  <1>1. AgreedAt(data, needle, e) = x
    BY DEF AgreedAt
  <1>2. m \in Nat
    OBVIOUS
  <1> HIDE DEF m
  <1>3. 0 \in S /\ S \in SUBSET (0..m)
    BY <1>2
  <1>4. x \in S /\ \A y \in S : y <= x
    <2> HIDE DEF S
    <2> QED BY <1>2, <1>3, GreatestOfNumbers
  <1>5. x \in 0..m /\ Same(x)
    BY <1>4
  <1> HIDE DEF x
  <1>6. ASSUME x < m, needle[m - x] = data[e - x + 1] PROVE FALSE
    <2>1. x + 1 \in 0..m /\ ~(x + 1 <= x)
      BY <1>2, <1>5, <1>6
    <2>2. ASSUME NEW k \in 0..((x + 1) - 1) PROVE needle[m - k] = data[e - k + 1]
      <3>1. k = x \/ k \in 0..(x - 1)
        BY <1>5
      <3> QED BY <1>5, <1>6, <3>1
    <2>3. Same(x + 1)
      BY <2>2
    <2>4. x + 1 \in S
      <3> HIDE DEF Same
      <3> QED BY <2>1, <2>3
    <2> QED BY <1>4, <2>1, <2>4
  <1> QED BY <1>1, <1>5, <1>6 DEF m

(* Where the needle is moved from the position under its end, over no       *)
(* occurrence.                                                              *)
Moved(data, needle, e) ==
    LET n == AgreedAt(data, needle, e)
    IN  e - n + Max({OffsetTable(needle, n), ByteTable(needle, data[e - n + 1])})

LEMMA MovedFacts ==
    ASSUME NEW data, NEW needle, Len(needle) \in Nat \ {0}, Len(data) \in Nat,
           NEW e \in Nat, Len(needle) <= e + 1, AgreedAt(data, needle, e) # Len(needle)
    PROVE  /\ Moved(data, needle, e) \in (e + 1)..(e + Len(needle))
           /\ \A a \in Nat : OccursAt(needle, data, a) /\ e < a + Len(needle)
                  => Moved(data, needle, e) < a + Len(needle)
  <1> DEFINE m == Len(needle)
             n == AgreedAt(data, needle, e)
             o == OffsetTable(needle, n)
             b == ByteTable(needle, data[e - n + 1])
             x == Max({o, b})
  <1>0. m \in Nat /\ m # 0
    OBVIOUS
  <1>1. /\ n \in 0..(m - 1)
        /\ \A k \in 0..(n - 1) : needle[m - k] = data[e - k + 1]
        /\ needle[m - n] # data[e - n + 1]
    <2>1. n \in 0..m /\ n # m
      BY <1>0, AgreedFacts
    <2>2. n < m /\ n \in 0..(m - 1)
      BY <1>0, <2>1
    <2> QED BY <1>0, <2>2, AgreedFacts
  <1>2. o \in (n + 1)..(m + n) /\ \A s \in Nat \ {0} : Fits(needle, n, s) => o <= n + s
    <2> HIDE DEF n
    <2> QED BY <1>0, <1>1, OffsetTableMoves
  <1>3. b \in 1..m /\ \A d \in 1..(m - 1) : needle[m - d] = data[e - n + 1] => b <= d
    <2> HIDE DEF n
    <2> QED BY <1>0, ByteTableMoves
  <1> HIDE DEF n, o, b, m
  <1>4. x \in {o, b} /\ o <= x /\ b <= x
    <2>1. {o, b} \in SUBSET (0..(m + m)) /\ {o, b} # {} /\ m + m \in Nat
      BY <1>0, <1>1, <1>2, <1>3
    <2>2. x \in {o, b} /\ \A y \in {o, b} : y <= x
      BY <2>1, GreatestOfNumbers
    <2> QED BY <2>2
  <1>5. Moved(data, needle, e) = e - n + x
    BY DEF Moved, n, o, b
  <1> HIDE DEF x
  <1>6. x \in (n + 1)..(m + n)
    BY <1>0, <1>1, <1>2, <1>3, <1>4
  <1>7. ASSUME NEW a \in Nat, OccursAt(needle, data, a), e < a + m
        PROVE  e - n + x < a + m
    <2> DEFINE s == a + m - (e + 1)
    <2>1. s \in Nat
      BY <1>0, <1>7
    <2>2. \A i \in 1..m : data[a + i] = needle[i]
      BY <1>7 DEF OccursAt, m
    <2>3. CASE s = 0
      <3>1. m - n \in 1..m /\ a + (m - n) = e - n + 1
        BY <1>0, <1>1, <2>3
      <3> QED BY <1>1, <2>2, <3>1
    <2>4. CASE s # 0
      <3>1. ASSUME NEW k \in 0..(n - 1), k + s < m PROVE needle[m - k - s] = needle[m - k]
        <4>1. m - k - s \in 1..m /\ a + (m - k - s) = e - k + 1
          BY <1>0, <1>1, <2>1, <3>1
        <4> QED BY <1>1, <2>2, <4>1
      <3>2. n + s < m => m - n - s \in 1..m /\ a + (m - n - s) = e - n + 1
        BY <1>0, <1>1, <2>1
      <3>3. n + s < m => needle[m - n - s] = data[e - n + 1]
        BY <2>2, <3>2
      <3> HIDE DEF s
      <3>4. Fits(needle, n, s)
        BY <1>1, <3>1, <3>3 DEF Fits, m
      <3>5. o <= n + s
        BY <1>2, <2>1, <2>4, <3>4
      <3>6. b <= n + s
        <4>1. CASE n + s < m
          <5>1. n + s \in 1..(m - 1) /\ m - (n + s) = m - n - s
            BY <1>0, <1>1, <2>1, <2>4, <4>1
          <5> QED BY <1>3, <3>3, <4>1, <5>1
        <4>2. CASE ~(n + s < m)
          BY <1>0, <1>1, <1>3, <2>1, <4>2
        <4> QED BY <4>1, <4>2
      <3>7. x <= n + s
        BY <1>4, <3>5, <3>6
      <3> QED BY <1>0, <1>1, <1>6, <2>1, <3>7 DEF s
    <2> QED BY <2>3, <2>4
  <1>8. e - n + x \in (e + 1)..(e + m)
    BY <1>0, <1>1, <1>6
  <1> QED BY <1>5, <1>7, <1>8 DEF m

LEMMA IndexOfFinds ==
    ASSUME NEW data, NEW needle, NEW offset \in Nat,
           Len(needle) \in Nat \ {0}, Len(data) \in Nat, offset <= Len(data) + 1
    PROVE  IsFirst(needle, data, offset, IndexOf(data, needle, offset))
  <1> DEFINE m == Len(needle)
             size == Len(data)
             S == (offset + m - 1)..(size + 2 * m)
             A(e) == AgreedAt(data, needle, e)
             M(e) == Moved(data, needle, e)
             stop == [e \in S |-> e >= size \/ A(e) = m]
             value == [e \in S |-> IF e >= size THEN -1 ELSE e - m + 1]
             next == [e \in S |-> M(e)]
             rank == [e \in S |-> size + 2 * m - e]
             bound == size + 2 * m
             Is(g) == g = [e \in S |-> IF e >= size THEN -1
                                       ELSE IF A(e) = m THEN e - m + 1 ELSE g[M(e)]]
             f == CHOOSE g : Is(g)
             Good == {e \in S : NoneBefore(needle, data, offset, e)}
             begin == offset + m - 1
  <1>0. m \in Nat /\ m # 0 /\ size \in Nat /\ bound \in Nat /\ begin \in Nat
    OBVIOUS
  <1>1. IndexOf(data, needle, offset) = f[begin]
    BY <1>0 DEF IndexOf, AgreedAt, Moved
  <1>2. \A e \in S : /\ stop[e] <=> (e >= size \/ A(e) = m)
                     /\ value[e] = IF e >= size THEN -1 ELSE e - m + 1
                     /\ next[e] = M(e) /\ rank[e] = size + 2 * m - e
    OBVIOUS
  <1>3. begin \in S /\ \A e \in S : e \in Nat /\ e <= bound /\ m <= e + 1
    BY <1>0
  <1>4. ASSUME NEW e \in S, e < size, A(e) # m
        PROVE  /\ M(e) \in (e + 1)..(e + m)
               /\ \A a \in Nat : OccursAt(needle, data, a) /\ e < a + m => M(e) < a + m
    <2>1. e \in Nat /\ m <= e + 1
      BY <1>3
    <2> HIDE DEF S
    <2> QED BY <1>0, <1>4, <2>1, MovedFacts
  <1> HIDE DEF A, M
  <1>5. Descends(S, stop, next, rank, bound)
    <2>1. ASSUME NEW e \in S
          PROVE  rank[e] \in 0..bound /\ (~stop[e] => next[e] \in S /\ rank[next[e]] < rank[e])
      <3>1. rank[e] = bound - e /\ e \in Nat /\ e <= bound
        BY <1>2, <1>3
      <3>2. ASSUME ~stop[e] PROVE next[e] \in S /\ rank[next[e]] < rank[e]
        <4>1. ~(e >= size) /\ A(e) # m /\ next[e] = M(e)
          BY <1>2, <3>2
        <4>2. next[e] \in (e + 1)..(e + m) /\ e < size
          BY <1>0, <1>4, <3>1, <4>1
        <4>3. next[e] \in S
          BY <1>0, <3>1, <4>2
        <4>4. rank[next[e]] = bound - next[e]
          BY <1>2, <4>3
        <4> HIDE DEF rank, next
        <4> QED BY <1>0, <3>1, <4>2, <4>3, <4>4
      <3>3. rank[e] \in 0..bound
        BY <1>0, <3>1
      <3> QED BY <3>2, <3>3
    <2> HIDE DEF S, stop, rank, next, bound
    <2> QED BY <2>1 DEF Descends
  <1>6. ASSUME NEW g PROVE Is(g) <=> Loops(g, S, stop, value, next)
    <2> DEFINE a == [e \in S |-> IF e >= size THEN -1
                                 ELSE IF A(e) = m THEN e - m + 1 ELSE g[M(e)]]
               b == [e \in S |-> IF stop[e] THEN value[e] ELSE g[next[e]]]
    <2>1. ASSUME NEW e \in S PROVE a[e] = b[e]
      <3>1. a[e] = IF e >= size THEN -1 ELSE IF A(e) = m THEN e - m + 1 ELSE g[M(e)]
        OBVIOUS
      <3>2. b[e] = IF stop[e] THEN value[e] ELSE g[next[e]]
        OBVIOUS
      <3> HIDE DEF a, b, stop, value, next, S
      <3> QED BY <1>2, <3>1, <3>2
    <2>2. a = b
      <3> HIDE DEF stop, value, next
      <3> QED BY <2>1
    <2> QED BY <2>2 DEF Loops
  <1>7. Loop(f, S, stop, value, next, rank, bound)
    <2> HIDE DEF S, stop, value, next, rank, Is, bound
    <2>1. \E g : Loops(g, S, stop, value, next)
      BY <1>0, <1>5, LoopExists
    <2>2. \E g : Is(g)
      BY <1>6, <2>1
    <2>3. Is(f)
      BY <2>2
    <2> HIDE DEF f
    <2> QED BY <1>0, <1>5, <1>6, <2>3 DEF Loop
  <1> HIDE DEF f
  <1>8. Kept(Good, stop, next)
    <2>1. ASSUME NEW e \in Good, ~stop[e] PROVE next[e] \in Good
      <3>1. e \in S /\ NoneBefore(needle, data, offset, e)
        OBVIOUS
      <3>2. ~(e >= size) /\ A(e) # m /\ next[e] = M(e)
        BY <1>2, <2>1, <3>1
      <3>3. e < size
        BY <1>0, <1>3, <3>1, <3>2
      <3>4. ASSUME NEW a \in Nat, OccursAt(needle, data, a), offset <= a PROVE M(e) < a + m
        <4>1. e < a + m
          BY <3>1, <3>4 DEF NoneBefore
        <4> QED BY <1>4, <3>1, <3>2, <3>3, <3>4, <4>1
      <3>5. NoneBefore(needle, data, offset, M(e))
        BY <3>4 DEF NoneBefore
      <3>6. next[e] \in S
        BY <1>5, <2>1, <3>1 DEF Descends
      <3> HIDE DEF S, next
      <3> QED BY <3>2, <3>5, <3>6
    <2> HIDE DEF Good, stop, next
    <2> QED BY <2>1 DEF Kept
  <1>9. PICK e \in Good : stop[e] /\ f[begin] = value[e]
    <2>1. begin \in Good
      <3>1. NoneBefore(needle, data, offset, begin)
        BY <1>0 DEF NoneBefore
      <3> HIDE DEF S, begin
      <3> QED BY <1>3, <3>1
    <2>2. Good \in SUBSET S
      OBVIOUS
    <2> HIDE DEF S, stop, value, next, rank, Good, bound, begin
    <2>3. \A y \in Good : \E x \in Good : stop[x] /\ f[y] = value[x]
      BY <1>7, <1>8, <2>2, LoopEnds
    <2> QED BY <2>1, <2>3
  <1>10. e \in S /\ NoneBefore(needle, data, offset, e)
    OBVIOUS
  <1>11. e \in Nat /\ begin <= e /\ m <= e + 1
    BY <1>0, <1>10
  <1>12. CASE e >= size
    <2>1. value[e] = -1
      BY <1>2, <1>10, <1>12
    <2>2. ASSUME NEW a \in Nat, OccursAt(needle, data, a), offset <= a PROVE FALSE
      <3>1. e < a + m
        BY <1>10, <2>2 DEF NoneBefore
      <3>2. a + m <= size
        BY <2>2 DEF OccursAt
      <3> QED BY <1>0, <1>11, <1>12, <3>1, <3>2
    <2> HIDE DEF value, begin
    <2> QED BY <1>1, <1>9, <2>1, <2>2 DEF IsFirst
  <1>13. CASE ~(e >= size)
    <2>1. A(e) = m /\ value[e] = e - m + 1 /\ e < size
      <3>1. stop[e] <=> (e >= size \/ A(e) = m)
        BY <1>2, <1>10
      <3>2. A(e) = m
        BY <1>9, <1>13, <3>1
      <3>3. value[e] = e - m + 1
        BY <1>2, <1>10, <1>13
      <3>4. e < size
        BY <1>0, <1>11, <1>13
      <3> HIDE DEF value, S, Good
      <3> QED BY <3>2, <3>3, <3>4
    <2> DEFINE r == e - m + 1
    <2>2. r \in Nat /\ offset <= r /\ r + m <= size
      BY <1>0, <1>11, <2>1
    <2>3. ASSUME NEW x \in 1..m PROVE data[r + x] = needle[x]
      <3>1. m - x \in 0..(m - 1) /\ m - (m - x) = x /\ e - (m - x) + 1 = r + x
        BY <1>0, <1>11
      <3>2. \A k \in 0..(m - 1) : needle[m - k] = data[e - k + 1]
        <4>1. AgreedAt(data, needle, e) = m
          BY <2>1 DEF A
        <4>2. \A k \in 0..(AgreedAt(data, needle, e) - 1) : needle[m - k] = data[e - k + 1]
          BY <1>0, AgreedFacts
        <4> QED BY <4>1, <4>2
      <3> QED BY <3>1, <3>2
    <2>4. OccursAt(needle, data, r)
      BY <2>2, <2>3 DEF OccursAt
    <2>5. ASSUME NEW a \in Nat, OccursAt(needle, data, a), offset <= a PROVE r <= a
      <3>1. e < a + m
        BY <1>10, <2>5 DEF NoneBefore
      <3> QED BY <1>0, <1>11, <3>1
    <2> HIDE DEF value, begin
    <2> QED BY <1>1, <1>9, <2>1, <2>2, <2>4, <2>5 DEF IsFirst
  <1> QED BY <1>12, <1>13

(* The last one is found by going on behind each.                           *)
IsLast(pattern, data, offset, r) ==
    \/ /\ OccursAt(pattern, data, r) /\ offset <= r
       /\ \A a \in Nat : OccursAt(pattern, data, a) /\ offset <= a => a <= r
    \/ r = -1 /\ \A a \in Nat : ~(OccursAt(pattern, data, a) /\ offset <= a)

LEMMA LastIndexOfFinds ==
    ASSUME NEW data, NEW needle, NEW offset \in Nat,
           Len(needle) \in Nat \ {0}, Len(data) \in Nat, offset <= Len(data)
    PROVE  IsLast(needle, data, offset, LastIndexOf(data, needle, offset))
  <1> DEFINE m == Len(needle)
             size == Len(data)
             S == (offset..(size + 1)) \X (-1..size)
             I(o) == IndexOf(data, needle, o)
             stop == [at \in S |-> I(at[1]) < 0 \/ ~(I(at[1]) + 1 < size)]
             value == [at \in S |-> IF I(at[1]) < 0 THEN at[2] ELSE I(at[1])]
             next == [at \in S |-> <<I(at[1]) + 1, I(at[1])>>]
             rank == [at \in S |-> size + 1 - at[1]]
             bound == size + 1
             Is(g) == g = [at \in S |->
                              LET i == I(at[1])
                              IN  IF i < 0 THEN at[2]
                                  ELSE IF i + 1 < size THEN g[<<i + 1, i>>] ELSE i]
             f == CHOOSE g : Is(g)
             \* The last one that was passed.
             Passed(o, l) ==
                 \/ /\ OccursAt(needle, data, l) /\ offset <= l /\ l < o
                    /\ \A a \in Nat : OccursAt(needle, data, a) /\ l < a => o <= a
                 \/ l = -1 /\ o = offset
             Good == {at \in S : at[1] <= size /\ Passed(at[1], at[2])}
             begin == <<offset, -1>>
  <1>0. m \in Nat /\ m # 0 /\ size \in Nat /\ bound \in Nat
    OBVIOUS
  <1>1. LastIndexOf(data, needle, offset) = f[begin]
    BY DEF LastIndexOf
  <1>2. begin \in S /\ begin[1] = offset /\ begin[2] = -1
    BY <1>0
  <1> HIDE DEF begin
  <1>3. \A at \in S : at[1] \in offset..(size + 1) /\ at[2] \in -1..size
    OBVIOUS
  <1>4. ASSUME NEW o \in Nat, o <= size + 1
        PROVE  IsFirst(needle, data, o, I(o)) /\ (I(o) = -1 \/ I(o) \in o..(size - 1))
    <2>1. IsFirst(needle, data, o, I(o))
      BY <1>0, <1>4, IndexOfFinds
    <2> DEFINE r == I(o)
    <2> HIDE DEF r, I
    <2>2. IsFirst(needle, data, o, r)
      BY <2>1 DEF r
    <2>3. r = -1 \/ r \in o..(size - 1)
      BY <1>0, <2>2 DEF IsFirst, OccursAt
    <2> QED BY <2>2, <2>3 DEF r
  <1>5. \A at \in S : /\ stop[at] <=> (I(at[1]) < 0 \/ ~(I(at[1]) + 1 < size))
                      /\ value[at] = IF I(at[1]) < 0 THEN at[2] ELSE I(at[1])
                      /\ next[at] = <<I(at[1]) + 1, I(at[1])>>
                      /\ rank[at] = size + 1 - at[1]
    OBVIOUS
  <1>6. ASSUME NEW at \in S
        PROVE  /\ IsFirst(needle, data, at[1], I(at[1]))
               /\ I(at[1]) = -1 \/ I(at[1]) \in at[1]..(size - 1)
               /\ at[1] \in offset..(size + 1)
    <2>1. at[1] \in offset..(size + 1)
      BY <1>3
    <2>2. at[1] \in Nat /\ at[1] <= size + 1
      BY <1>0, <2>1
    <2> HIDE DEF I, S
    <2> QED BY <1>4, <2>1, <2>2
  <1> HIDE DEF I
  <1>7. ASSUME NEW at \in S, ~stop[at]
        PROVE  /\ next[at] = <<I(at[1]) + 1, I(at[1])>>
               /\ I(at[1]) \in at[1]..(size - 1) /\ I(at[1]) + 1 < size
    <2>1. ~(I(at[1]) < 0) /\ I(at[1]) + 1 < size /\ next[at] = <<I(at[1]) + 1, I(at[1])>>
      BY <1>5, <1>7
    <2> HIDE DEF S, stop, next
    <2> QED BY <1>6, <2>1
  <1>8. Descends(S, stop, next, rank, bound)
    <2>1. ASSUME NEW at \in S
          PROVE  rank[at] \in 0..bound /\ (~stop[at] => next[at] \in S /\ rank[next[at]] < rank[at])
      <3>1. rank[at] = size + 1 - at[1] /\ at[1] \in offset..(size + 1)
        BY <1>3, <1>5
      <3>2. ASSUME ~stop[at] PROVE next[at] \in S /\ rank[next[at]] < rank[at]
        <4> DEFINE i == I(at[1])
        <4>1. next[at] = <<i + 1, i>> /\ i \in at[1]..(size - 1) /\ i + 1 < size
          BY <1>7, <3>2
        <4> HIDE DEF i
        <4>2. i \in -1..size /\ i + 1 \in offset..(size + 1)
          BY <1>0, <3>1, <4>1
        <4>3. next[at] \in S /\ next[at][1] = i + 1
          <5> HIDE DEF next
          <5> QED BY <4>1, <4>2
        <4>4. rank[next[at]] = size + 1 - (i + 1)
          BY <1>5, <4>3
        <4> HIDE DEF rank, next, S
        <4> QED BY <1>0, <3>1, <4>1, <4>3, <4>4
      <3>3. rank[at] \in 0..bound
        BY <1>0, <3>1
      <3> QED BY <3>2, <3>3
    <2> HIDE DEF S, stop, rank, next, bound
    <2> QED BY <2>1 DEF Descends
  <1>9. ASSUME NEW g PROVE Is(g) <=> Loops(g, S, stop, value, next)
    <2> DEFINE a == [at \in S |->
                        LET i == I(at[1])
                        IN  IF i < 0 THEN at[2]
                            ELSE IF i + 1 < size THEN g[<<i + 1, i>>] ELSE i]
               b == [at \in S |-> IF stop[at] THEN value[at] ELSE g[next[at]]]
    <2>1. ASSUME NEW at \in S PROVE a[at] = b[at]
      <3>1. a[at] = IF I(at[1]) < 0 THEN at[2]
                    ELSE IF I(at[1]) + 1 < size THEN g[<<I(at[1]) + 1, I(at[1])>>] ELSE I(at[1])
        OBVIOUS
      <3>2. b[at] = IF stop[at] THEN value[at] ELSE g[next[at]]
        OBVIOUS
      <3> HIDE DEF a, b, stop, value, next, S
      <3> QED BY <1>5, <3>1, <3>2
    <2>2. a = b
      <3> HIDE DEF stop, value, next
      <3> QED BY <2>1
    <2> QED BY <2>2 DEF Loops
  <1>10. Loop(f, S, stop, value, next, rank, bound)
    <2> HIDE DEF S, stop, value, next, rank, Is, bound
    <2>1. \E g : Loops(g, S, stop, value, next)
      BY <1>0, <1>8, LoopExists
    <2>2. \E g : Is(g)
      BY <1>9, <2>1
    <2>3. Is(f)
      BY <2>2
    <2> HIDE DEF f
    <2> QED BY <1>0, <1>8, <1>9, <2>3 DEF Loop
  <1> HIDE DEF f
  <1>11. Kept(Good, stop, next)
    <2>1. ASSUME NEW at \in Good, ~stop[at] PROVE next[at] \in Good
      <3> DEFINE i == I(at[1])
      <3>0. at \in S /\ at[1] \in Nat /\ offset <= at[1]
        BY <1>3
      <3>1. next[at] = <<i + 1, i>> /\ i \in at[1]..(size - 1) /\ i + 1 < size
        BY <1>7, <2>1, <3>0
      <3>2. IsFirst(needle, data, at[1], i)
        BY <1>6, <3>0
      <3> HIDE DEF i
      <3>3. i \in Nat /\ offset <= i /\ i < i + 1 /\ i + 1 <= size
        BY <1>0, <3>0, <3>1
      <3>4. OccursAt(needle, data, i)
        BY <3>2, <3>3 DEF IsFirst
      <3>5. \A a \in Nat : OccursAt(needle, data, a) /\ i < a => i + 1 <= a
        BY <3>3
      <3>6. Passed(i + 1, i)
        BY <3>3, <3>4, <3>5
      <3>7. next[at] \in S
        BY <1>8, <2>1, <3>0 DEF Descends
      <3>8. next[at][1] = i + 1 /\ next[at][2] = i
        <4> HIDE DEF next
        <4> QED BY <3>1
      <3> HIDE DEF S, next, Passed
      <3> QED BY <3>3, <3>6, <3>7, <3>8
    <2> HIDE DEF Good, stop, next
    <2> QED BY <2>1 DEF Kept
  <1>12. PICK at \in Good : stop[at] /\ f[begin] = value[at]
    <2>1. begin \in Good
      <3> HIDE DEF S
      <3> QED BY <1>2
    <2>2. Good \in SUBSET S
      OBVIOUS
    <2> HIDE DEF S, stop, value, next, rank, Good, bound
    <2>3. \A y \in Good : \E x \in Good : stop[x] /\ f[y] = value[x]
      BY <1>10, <1>11, <2>2, LoopEnds
    <2> QED BY <2>1, <2>3
  <1> DEFINE o == at[1]
             l == at[2]
             i == I(o)
             r == LastIndexOf(data, needle, offset)
  <1>13. at \in S /\ Passed(o, l)
    OBVIOUS
  <1>14. /\ o \in Nat /\ offset <= o /\ IsFirst(needle, data, o, i)
         /\ i = -1 \/ i \in o..(size - 1)
    <2>1. o \in offset..(size + 1)
      BY <1>3, <1>13
    <2> QED BY <1>6, <1>13, <2>1
  <1>15. r = IF i < 0 THEN l ELSE i
    BY <1>1, <1>5, <1>12, <1>13
  <1>16. i < 0 \/ ~(i + 1 < size)
    <2>1. stop[at] <=> (i < 0 \/ ~(i + 1 < size))
      BY <1>5, <1>13
    <2> HIDE DEF stop, i
    <2> QED BY <1>12, <2>1
  <1> HIDE DEF o, l, i, r, S, Good, stop, value, next, rank
  <1>17. CASE i < 0
    <2>1. i = -1 /\ r = l
      BY <1>14, <1>15, <1>17
    <2>2. \A a \in Nat : ~(OccursAt(needle, data, a) /\ o <= a)
      <3>1. ~OccursAt(needle, data, i)
        BY <2>1 DEF OccursAt
      <3> QED BY <1>14, <2>1, <3>1 DEF IsFirst
    <2>3. CASE l = -1 /\ o = offset
      BY <2>1, <2>2, <2>3 DEF IsLast, r
    <2>4. CASE ~(l = -1 /\ o = offset)
      <3>1. /\ OccursAt(needle, data, l) /\ offset <= l
            /\ \A a \in Nat : OccursAt(needle, data, a) /\ l < a => o <= a
        BY <1>13, <2>4
      <3>2. l \in Nat
        BY <3>1 DEF OccursAt
      <3>3. ASSUME NEW a \in Nat, OccursAt(needle, data, a), offset <= a PROVE a <= l
        <4>1. ~(l < a)
          BY <2>2, <3>1, <3>3
        <4> QED BY <3>2, <4>1
      <3> QED BY <2>1, <3>1, <3>3 DEF IsLast, r
    <2> QED BY <2>3, <2>4
  <1>18. CASE ~(i < 0)
    <2>1. i \in o..(size - 1) /\ r = i /\ ~(i + 1 < size)
      BY <1>14, <1>15, <1>16, <1>18
    <2>2. i \in Nat /\ offset <= i /\ size <= i + 1
      BY <1>0, <1>14, <2>1
    <2>3. OccursAt(needle, data, i)
      BY <1>14, <2>2 DEF IsFirst
    <2>4. ASSUME NEW a \in Nat, OccursAt(needle, data, a), offset <= a PROVE a <= i
      <3>1. a + m <= size
        BY <2>4 DEF OccursAt
      <3> QED BY <1>0, <2>2, <3>1
    <2> QED BY <2>1, <2>2, <2>3, <2>4 DEF IsLast, r
  <1> QED BY <1>17, <1>18

----------------------------------------------------------------------------
LEMMA OccurrencesAre ==
    ASSUME NEW B, NEW pattern \in Seq(B), NEW data \in Seq(B), NEW i \in Nat, pattern # << >>
    PROVE  i \in Occurrences(pattern, data) <=> OccursAt(pattern, data, i)
  <1> DEFINE m == Len(pattern)
             n == Len(data)
             sub == SubSeq(data, i + 1, i + m)
  <1>0. m \in Nat /\ m # 0 /\ n \in Nat
    OBVIOUS
  <1>1. i \in Occurrences(pattern, data) <=> i + m <= n /\ sub = pattern
    BY <1>0 DEF Occurrences
  <1>2. ASSUME i + m <= n
        PROVE  sub \in Seq(B) /\ Len(sub) = m /\ \A x \in 1..m : sub[x] = data[i + x]
    <2> DEFINE lo == i + 1
               hi == i + m
    <2>1. lo \in Int /\ hi \in Int /\ lo <= hi /\ hi - lo + 1 = m /\ \A x \in lo..hi : x \in 1..n
      BY <1>0, <1>2
    <2>2. \A x \in lo..hi : data[x] \in B
      BY <2>1
    <2>3. \A x \in 1..m : lo + x - 1 = i + x
      BY <1>0
    <2>4. sub = SubSeq(data, lo, hi)
      OBVIOUS
    <2> HIDE DEF lo, hi, sub
    <2>5. /\ sub \in Seq(B) /\ Len(sub) = (IF lo <= hi THEN hi - lo + 1 ELSE 0)
          /\ \A x \in 1..(hi - lo + 1) : sub[x] = data[lo + x - 1]
      BY <2>1, <2>2, <2>4, SubSeqProperties
    <2> QED BY <2>1, <2>3, <2>5
  <1> HIDE DEF sub
  <1>3. ASSUME i + m <= n PROVE sub = pattern <=> \A x \in 1..m : data[i + x] = pattern[x]
    <2>1. ASSUME \A x \in 1..m : data[i + x] = pattern[x] PROVE sub = pattern
      BY <1>2, <1>3, <2>1
    <2>2. ASSUME sub = pattern PROVE \A x \in 1..m : data[i + x] = pattern[x]
      BY <1>2, <1>3, <2>2
    <2> QED BY <2>1, <2>2
  <1> QED BY <1>1, <1>3 DEF OccursAt

LEMMA LeastIs ==
    ASSUME NEW S, S \in SUBSET Nat, NEW r \in S, \A y \in S : r <= y
    PROVE  Min(S) = r
  <1>1. Min(S) \in S /\ \A y \in S : Min(S) <= y
    BY LeastOfNumbers
  <1>2. Min(S) <= r /\ r <= Min(S) /\ Min(S) \in Nat /\ r \in Nat
    BY <1>1
  <1> QED BY <1>2

LEMMA FirstIs ==
    ASSUME NEW B, NEW pattern \in Seq(B), NEW data \in Seq(B), pattern # << >>,
           NEW offset \in Nat, NEW r, IsFirst(pattern, data, offset, r)
    PROVE  FirstFrom(pattern, data, offset) = r
  <1> DEFINE at == {i \in Occurrences(pattern, data) : i >= offset}
  <1>1. FirstFrom(pattern, data, offset) = IF at = {} THEN -1 ELSE Min(at)
    BY DEF FirstFrom
  <1>2. Occurrences(pattern, data) \in SUBSET Nat
    BY DEF Occurrences
  <1>3. \A i \in Nat : i \in at <=> OccursAt(pattern, data, i) /\ offset <= i
    BY <1>2, OccurrencesAre
  <1>4. CASE r = -1 /\ \A a \in Nat : ~(OccursAt(pattern, data, a) /\ offset <= a)
    <2>1. at = {}
      BY <1>2, <1>3, <1>4
    <2> QED BY <1>1, <1>4, <2>1
  <1>5. CASE /\ OccursAt(pattern, data, r) /\ offset <= r
             /\ \A a \in Nat : OccursAt(pattern, data, a) /\ offset <= a => r <= a
    <2>1. r \in at /\ at \in SUBSET Nat
      BY <1>2, <1>3, <1>5 DEF OccursAt
    <2>2. \A y \in at : r <= y
      BY <1>2, <1>3, <1>5
    <2> HIDE DEF at
    <2>3. Min(at) = r
      BY <2>1, <2>2, LeastIs
    <2> QED BY <1>1, <2>1, <2>3
  <1> QED BY <1>4, <1>5 DEF IsFirst

LEMMA LastIs ==
    ASSUME NEW B, NEW pattern \in Seq(B), NEW data \in Seq(B), pattern # << >>,
           NEW offset \in Nat, NEW r, IsLast(pattern, data, offset, r)
    PROVE  LastFrom(pattern, data, offset) = r
  <1> DEFINE at == {i \in Occurrences(pattern, data) : i >= offset}
  <1>1. LastFrom(pattern, data, offset) = IF at = {} THEN -1 ELSE Max(at)
    BY DEF LastFrom
  <1>2. Occurrences(pattern, data) \in SUBSET Nat
    BY DEF Occurrences
  <1>3. \A i \in Nat : i \in at <=> OccursAt(pattern, data, i) /\ offset <= i
    BY <1>2, OccurrencesAre
  <1>4. CASE r = -1 /\ \A a \in Nat : ~(OccursAt(pattern, data, a) /\ offset <= a)
    <2>1. at = {}
      BY <1>2, <1>3, <1>4
    <2> QED BY <1>1, <1>4, <2>1
  <1>5. CASE /\ OccursAt(pattern, data, r) /\ offset <= r
             /\ \A a \in Nat : OccursAt(pattern, data, a) /\ offset <= a => a <= r
    <2>1. r \in at /\ at \in SUBSET Nat
      BY <1>2, <1>3, <1>5 DEF OccursAt
    <2>2. \A y \in at : y <= r
      BY <1>2, <1>3, <1>5
    <2>3. at \in SUBSET (0..r) /\ r \in Nat
      BY <2>1, <2>2
    <2> HIDE DEF at
    <2>4. Max(at) \in at /\ \A y \in at : y <= Max(at)
      BY <2>1, <2>3, GreatestOfNumbers
    <2>5. r <= Max(at) /\ Max(at) <= r /\ Max(at) \in Nat
      BY <2>1, <2>2, <2>4
    <2> QED BY <1>1, <2>1, <2>3, <2>5
  <1> QED BY <1>4, <1>5 DEF IsLast

(* The Knuth-Morris-Pratt search returns the first occurrence of a pattern  *)
(* from an offset on, or that there is none, and the Boyer-Moore search the *)
(* first and the last, whatever the pattern and the data:                   *)
(* KnuthMorrisPratt::ReadTo, BoyerMoore::IndexOf and LastIndexOf.           *)
THEOREM SearchesFind ==
    ASSUME NEW B, NEW pattern \in Seq(B), NEW data \in Seq(B), pattern # << >>,
           NEW offset \in 0..Len(data)
    PROVE  /\ ReadTo(pattern, data, offset) = FirstFrom(pattern, data, offset)
           /\ IndexOf(data, pattern, offset) = FirstFrom(pattern, data, offset)
           /\ LastIndexOf(data, pattern, offset) = LastFrom(pattern, data, offset)
  <1>0. /\ Len(pattern) \in Nat \ {0} /\ Len(data) \in Nat /\ offset \in Nat
        /\ offset <= Len(data) /\ offset <= Len(data) + 1
    OBVIOUS
  <1>1. IsFirst(pattern, data, offset, ReadTo(pattern, data, offset))
    BY <1>0, ReadToFinds
  <1>2. IsFirst(pattern, data, offset, IndexOf(data, pattern, offset))
    BY <1>0, IndexOfFinds
  <1>3. IsLast(pattern, data, offset, LastIndexOf(data, pattern, offset))
    BY <1>0, LastIndexOfFinds
  <1> QED BY <1>0, <1>1, <1>2, <1>3, FirstIs, LastIs

----------------------------------------------------------------------------
(* The stream reassembler.                                                  *)

StreamTypes ==
    /\ terminator \in Terminators /\ skip \in 0..Len(terminator)
    /\ arrived \in Seq(Bytes) /\ terminatorFound \in BOOLEAN

StreamInv == StreamTypes /\ TerminatorIsNoticed /\ UsedUpToTerminator

(* The end of the data, searched alone.                                     *)
LEMMA EndSearched ==
    ASSUME NEW pattern, NEW part, NEW data, NEW c \in Nat, NEW r,
           Len(pattern) \in Nat, Len(part) \in Nat, Len(data) = c + Len(part),
           \A x \in 1..Len(part) : part[x] = data[c + x],
           IsFirst(pattern, part, 0, r)
    PROVE  /\ r = -1 \/ (r \in Nat /\ r + Len(pattern) <= Len(part))
           /\ r = -1 => IsFirst(pattern, data, c, -1)
           /\ r # -1 => IsFirst(pattern, data, c, c + r)
  <1>1. ASSUME NEW i \in Nat
        PROVE  OccursAt(pattern, part, i) <=> OccursAt(pattern, data, c + i)
    <2>1. ASSUME i + Len(pattern) <= Len(part), NEW x \in 1..Len(pattern)
          PROVE  part[i + x] = data[(c + i) + x]
      <3>1. i + x \in 1..Len(part) /\ c + (i + x) = (c + i) + x
        BY <2>1
      <3> QED BY <3>1
    <2>2. c + i \in Nat /\ (i + Len(pattern) <= Len(part) <=> (c + i) + Len(pattern) <= Len(data))
      OBVIOUS
    <2> QED BY <2>1, <2>2 DEF OccursAt
  <1>2. ASSUME NEW a \in Nat, OccursAt(pattern, data, a), c <= a
        PROVE  a - c \in Nat /\ OccursAt(pattern, part, a - c) /\ c + (a - c) = a
    <2>1. a - c \in Nat /\ c + (a - c) = a
      BY <1>2
    <2> QED BY <1>1, <1>2, <2>1
  <1>3. CASE r = -1 /\ \A a \in Nat : ~(OccursAt(pattern, part, a) /\ 0 <= a)
    <2>1. \A a \in Nat : ~(OccursAt(pattern, data, a) /\ c <= a)
      BY <1>2, <1>3
    <2> QED BY <1>3, <2>1 DEF IsFirst
  <1>4. CASE /\ OccursAt(pattern, part, r) /\ 0 <= r
             /\ \A a \in Nat : OccursAt(pattern, part, a) /\ 0 <= a => r <= a
    <2>1. r \in Nat /\ r + Len(pattern) <= Len(part)
      BY <1>4 DEF OccursAt
    <2>2. OccursAt(pattern, data, c + r) /\ c <= c + r
      BY <1>1, <1>4, <2>1
    <2>3. ASSUME NEW a \in Nat, OccursAt(pattern, data, a), c <= a PROVE c + r <= a
      <3>1. r <= a - c
        BY <1>2, <1>4, <2>3
      <3> QED BY <2>1, <3>1
    <2> QED BY <2>1, <2>2, <2>3 DEF IsFirst
  <1> QED BY <1>3, <1>4 DEF IsFirst

LEMMA CutFacts ==
    ASSUME NEW B, NEW data \in Seq(B), NEW lo \in Nat, NEW hi \in Nat, lo <= hi, hi <= Len(data)
    PROVE  /\ SubSeq(data, lo + 1, hi) \in Seq(B) /\ Len(SubSeq(data, lo + 1, hi)) = hi - lo
           /\ \A x \in 1..(hi - lo) : SubSeq(data, lo + 1, hi)[x] = data[lo + x]
  <1> DEFINE first == lo + 1
             n == Len(data)
  <1>1. first \in Int /\ hi \in Int /\ \A x \in first..hi : x \in 1..n
    OBVIOUS
  <1>2. \A x \in first..hi : data[x] \in B
    BY <1>1
  <1>3. /\ hi - first + 1 = hi - lo /\ \A x \in 1..(hi - lo) : first + x - 1 = lo + x
        /\ (first <= hi <=> lo # hi)
    OBVIOUS
  <1> HIDE DEF first
  <1>4. /\ SubSeq(data, first, hi) \in Seq(B)
        /\ Len(SubSeq(data, first, hi)) = IF first <= hi THEN hi - first + 1 ELSE 0
        /\ \A x \in 1..(hi - first + 1) : SubSeq(data, first, hi)[x] = data[first + x - 1]
    BY <1>1, <1>2, SubSeqProperties
  <1>5. Len(SubSeq(data, first, hi)) = hi - lo
    BY <1>3, <1>4
  <1> QED BY <1>3, <1>4, <1>5 DEF first

LEMMA JoinFacts ==
    ASSUME NEW B, NEW a \in Seq(B), NEW b \in Seq(B)
    PROVE  /\ a \o b \in Seq(B) /\ Len(a) \in Nat /\ Len(b) \in Nat
           /\ Len(a \o b) = Len(a) + Len(b)
           /\ \A x \in 1..Len(a) : (a \o b)[x] = a[x]
           /\ \A x \in 1..Len(b) : (a \o b)[Len(a) + x] = b[x]
  OBVIOUS

(* What AddData finds in a piece, while no terminator has come.             *)
Finds(buffer, index) ==
    LET data == arrived \o buffer
        inPiece == FirstFrom(terminator, data, Len(arrived))
    IN  /\ Found(buffer) = {index}
        /\ index \in Int /\ index + Len(terminator) <= Len(buffer) /\ 0 <= Len(arrived) + index
        /\ Len(arrived) + index = IF inPiece # -1 THEN inPiece ELSE FirstFrom(terminator, data, 0)
        /\ Occurrences(terminator, data) # {}

LEMMA FoundFinds ==
    ASSUME TerminatorAssumption, StreamInv, ~terminatorFound, NEW buffer \in Seq(Bytes)
    PROVE  \/ Found(buffer) = {} /\ Occurrences(terminator, arrived \o buffer) = {}
           \/ \E index : Finds(buffer, index)
  <1> DEFINE t == terminator
             m == Len(t)
             A == arrived
             N == Len(A)
             D == A \o buffer
             old == OldBytesToRead
             c == N - old
             tail == SubSeq(A, c + 1, N)
             part == tail \o buffer
             r1 == ReadTo(t, buffer, 0)
             r2 == ReadTo(t, part, 0)
  <1>1. t \in Seq(Bytes) /\ t # << >> /\ m \in Nat \ {0} /\ A \in Seq(Bytes) /\ N \in Nat
    BY DEF StreamInv, StreamTypes, TerminatorAssumption
  <1>2. dataStream = A /\ Occurrences(t, A) = {}
    BY DEF StreamInv, UsedUpToTerminator, TerminatorIsNoticed
  <1> HIDE DEF t, A, m, N
  <1>3. old \in {m - 1, N} /\ old \in Nat /\ old <= m - 1 /\ old <= N
    <2>1. {m - 1, N} \in SUBSET Nat /\ {m - 1, N} # {}
      BY <1>1
    <2>2. Min({m - 1, N}) \in {m - 1, N} /\ \A y \in {m - 1, N} : Min({m - 1, N}) <= y
      BY <2>1, LeastOfNumbers
    <2>3. old = Min({m - 1, N})
      BY <1>2 DEF OldBytesToRead, m, N, t, A
    <2> HIDE DEF old
    <2> QED BY <2>1, <2>2, <2>3
  <1>4. Found(buffer) = IF r1 # -1 THEN {r1}
                        ELSE IF A # << >> /\ r2 # -1 THEN {r2 - old} ELSE {}
    BY <1>2 DEF Found, t, A, N
  <1> HIDE DEF old
  <1>5. c \in Nat /\ c <= N /\ N - c = old
    BY <1>1, <1>3
  <1> HIDE DEF c
  <1>6. tail \in Seq(Bytes) /\ Len(tail) = old /\ \A x \in 1..old : tail[x] = A[c + x]
    <2>1. N <= Len(A)
      BY <1>1 DEF N
    <2>2. /\ SubSeq(A, c + 1, N) \in Seq(Bytes) /\ Len(SubSeq(A, c + 1, N)) = N - c
          /\ \A x \in 1..(N - c) : SubSeq(A, c + 1, N)[x] = A[c + x]
      <3> HIDE DEF tail
      <3> QED BY <1>1, <1>5, <2>1, CutFacts
    <2>3. tail = SubSeq(A, c + 1, N)
      OBVIOUS
    <2> HIDE DEF tail
    <2> QED BY <1>5, <2>2, <2>3
  <1> HIDE DEF tail
  <1>7. /\ D \in Seq(Bytes) /\ Len(buffer) \in Nat /\ Len(D) = N + Len(buffer)
        /\ \A x \in 1..N : D[x] = A[x]
        /\ \A x \in 1..Len(buffer) : D[N + x] = buffer[x]
    BY <1>1, JoinFacts DEF N
  <1>8. /\ part \in Seq(Bytes) /\ Len(part) = old + Len(buffer)
        /\ \A x \in 1..old : part[x] = tail[x]
        /\ \A x \in 1..Len(buffer) : part[old + x] = buffer[x]
    <2>1. /\ tail \o buffer \in Seq(Bytes) /\ Len(tail \o buffer) = Len(tail) + Len(buffer)
          /\ \A x \in 1..Len(tail) : (tail \o buffer)[x] = tail[x]
          /\ \A x \in 1..Len(buffer) : (tail \o buffer)[Len(tail) + x] = buffer[x]
      <3>1. tail \in Seq(Bytes) /\ buffer \in Seq(Bytes)
        BY <1>6
      <3> QED BY <3>1, JoinFacts
    <2> QED BY <1>6, <2>1
  <1> HIDE DEF D, part
  <1>9. Len(D) = c + Len(part) /\ \A x \in 1..Len(part) : part[x] = D[c + x]
    <2>1. Len(D) = c + Len(part)
      BY <1>1, <1>3, <1>5, <1>7, <1>8
    <2>2. ASSUME NEW x \in 1..Len(part) PROVE part[x] = D[c + x]
      <3>1. CASE x <= old
        <4>1. x \in 1..old /\ c + x \in 1..N
          BY <1>1, <1>3, <1>5, <2>2, <3>1
        <4> QED BY <1>6, <1>7, <1>8, <4>1
      <3>2. CASE ~(x <= old)
        <4>1. x - old \in 1..Len(buffer) /\ old + (x - old) = x /\ N + (x - old) = c + x
          BY <1>1, <1>3, <1>5, <1>7, <1>8, <2>2, <3>2
        <4> QED BY <1>7, <1>8, <4>1
      <3> QED BY <3>1, <3>2
    <2> QED BY <2>1, <2>2
  <1>10. IsFirst(t, buffer, 0, r1) /\ IsFirst(t, part, 0, r2)
    <2>1. Len(t) \in Nat \ {0} /\ Len(buffer) \in Nat /\ Len(part) \in Nat
      BY <1>1, <1>3, <1>7, <1>8 DEF m
    <2> QED BY <2>1, ReadToFinds
  <1> HIDE DEF r1, r2
  <1>11. /\ r1 = -1 \/ (r1 \in Nat /\ r1 + m <= Len(buffer))
         /\ r1 = -1 => IsFirst(t, D, N, -1)
         /\ r1 # -1 => IsFirst(t, D, N, N + r1)
    BY <1>1, <1>7, <1>10, EndSearched DEF m
  <1>12. /\ r2 = -1 \/ (r2 \in Nat /\ r2 + m <= Len(part))
         /\ r2 = -1 => IsFirst(t, D, c, -1)
         /\ r2 # -1 => IsFirst(t, D, c, c + r2)
    <2>1. Len(part) \in Nat
      BY <1>3, <1>7, <1>8
    <2> QED BY <1>1, <1>5, <1>9, <1>10, <2>1, EndSearched DEF m
  <1>13. ASSUME NEW a \in Nat, OccursAt(t, D, a)
         PROVE  c <= a /\ N < a + m
    <2>1. ASSUME a + m <= N PROVE FALSE
      <3>1. ASSUME NEW x \in 1..m PROVE A[a + x] = t[x]
        <4>1. a + x \in 1..N
          BY <1>1, <2>1
        <4>2. D[a + x] = t[x]
          BY <1>13 DEF OccursAt, m
        <4> QED BY <1>7, <4>1, <4>2
      <3>2. OccursAt(t, A, a)
        BY <2>1, <3>1 DEF OccursAt, m, N
      <3>3. a \in Occurrences(t, A)
        BY <1>1, <3>2, OccurrencesAre
      <3> QED BY <1>2, <3>3
    <2>2. N < a + m
      BY <1>1, <2>1
    <2> QED BY <1>1, <1>3, <1>5, <2>2
  <1>14. ASSUME NEW r, IsFirst(t, D, c, r)
         PROVE  FirstFrom(t, D, 0) = r
    <2>1. IsFirst(t, D, 0, r)
      <3>1. \A a \in Nat : OccursAt(t, D, a) /\ 0 <= a => OccursAt(t, D, a) /\ c <= a
        BY <1>13
      <3>2. OccursAt(t, D, r) => 0 <= r
        BY DEF OccursAt
      <3> QED BY <1>14, <3>1, <3>2 DEF IsFirst
    <2> QED BY <1>1, <1>7, <2>1, FirstIs
  <1>15. \A a : a \in Occurrences(t, D) <=> a \in Nat /\ OccursAt(t, D, a)
    <2>1. Occurrences(t, D) \in SUBSET Nat
      BY DEF Occurrences
    <2> QED BY <1>1, <1>7, <2>1, OccurrencesAre
  <1>16. ASSUME NEW index, Found(buffer) = {index}, index \in Int, index + m <= Len(buffer),
                N + index \in Nat, OccursAt(t, D, N + index),
                N + index = IF FirstFrom(t, D, N) # -1 THEN FirstFrom(t, D, N)
                            ELSE FirstFrom(t, D, 0)
         PROVE  Finds(buffer, index)
    <2>1. Occurrences(t, D) # {}
      BY <1>15, <1>16
    <2>2. 0 <= N + index
      BY <1>1, <1>16
    <2> QED BY <1>16, <2>1, <2>2 DEF Finds, t, D, A, N, m
  <1>17. CASE r1 # -1
    <2>1. r1 \in Nat /\ r1 + m <= Len(buffer) /\ IsFirst(t, D, N, N + r1)
      BY <1>11, <1>17
    <2>2. FirstFrom(t, D, N) = N + r1
      BY <1>1, <1>7, <2>1, FirstIs
    <2>3. N + r1 \in Nat /\ N + r1 # -1 /\ r1 \in Int
      BY <1>1, <2>1
    <2>4. OccursAt(t, D, N + r1)
      BY <2>1, <2>3 DEF IsFirst
    <2>5. Found(buffer) = {r1}
      BY <1>4, <1>17
    <2>6. Finds(buffer, r1)
      BY <1>16, <2>1, <2>2, <2>3, <2>4, <2>5
    <2> QED BY <2>6
  <1>18. CASE r1 = -1 /\ A # << >> /\ r2 # -1
    <2> DEFINE index == r2 - old
    <2>1. r2 \in Nat /\ r2 + m <= Len(part) /\ IsFirst(t, D, c, c + r2)
      BY <1>12, <1>18
    <2>2. /\ index \in Int /\ N + index = c + r2 /\ N + index \in Nat /\ N + index # -1
          /\ index + m <= Len(buffer)
      BY <1>1, <1>3, <1>5, <1>7, <1>8, <2>1
    <2> HIDE DEF index
    <2>3. FirstFrom(t, D, N) = -1
      BY <1>1, <1>7, <1>11, <1>18, FirstIs
    <2>4. FirstFrom(t, D, 0) = N + index
      BY <1>14, <2>1, <2>2
    <2>5. OccursAt(t, D, N + index)
      BY <2>1, <2>2 DEF IsFirst
    <2>6. Found(buffer) = {index}
      BY <1>4, <1>18 DEF index
    <2>7. Finds(buffer, index)
      BY <1>16, <2>2, <2>3, <2>4, <2>5, <2>6
    <2> QED BY <2>7
  <1>19. CASE r1 = -1 /\ ~(A # << >> /\ r2 # -1)
    <2>1. Found(buffer) = {}
      BY <1>4, <1>19
    <2>2. ASSUME NEW a \in Nat, OccursAt(t, D, a) PROVE FALSE
      <3>1. CASE A = << >>
        <4>1. N <= a
          BY <1>1, <3>1 DEF N
        <4>2. IsFirst(t, D, N, -1)
          BY <1>11, <1>19
        <4>3. ~OccursAt(t, D, -1)
          BY DEF OccursAt
        <4> QED BY <2>2, <4>1, <4>2, <4>3 DEF IsFirst
      <3>2. CASE r2 = -1
        <4>1. IsFirst(t, D, c, -1)
          BY <1>12, <3>2
        <4>2. ~OccursAt(t, D, -1)
          BY DEF OccursAt
        <4> QED BY <1>13, <2>2, <4>1, <4>2 DEF IsFirst
      <3> QED BY <1>19, <3>1, <3>2
    <2>3. Occurrences(t, D) = {}
      BY <1>15, <2>2
    <2> QED BY <2>1, <2>3 DEF t, D, A
  <1> QED BY <1>17, <1>18, <1>19

LEMMA MinOfOne ==
    ASSUME NEW i \in Int
    PROVE  Min({i}) = i
  BY DEF Min

LEMMA MaxOfTwo ==
    ASSUME NEW i \in Int, NEW j \in Int
    PROVE  Max({i, j}) = IF i >= j THEN i ELSE j
  <1>1. CASE i >= j
    BY <1>1 DEF Max
  <1>2. CASE ~(i >= j)
    BY <1>2 DEF Max
  <1> QED BY <1>1, <1>2

(* A sequence and the start of another are a start of both.                 *)
LEMMA StartOfBoth ==
    ASSUME NEW B, NEW a \in Seq(B), NEW b \in Seq(B), NEW count \in Int, count <= Len(b)
    PROVE  a \o SubSeq(b, 1, count) =
               SubSeq(a \o b, 1, IF count >= 0 THEN Len(a) + count ELSE Len(a))
  <1>1. CASE count >= 0
    <2>1. count \in Nat /\ Len(a) + count \in Nat /\ Len(a) + count <= Len(a \o b)
          /\ Len(a) \in Nat /\ Len(b) \in Nat
      BY <1>1
    <2> DEFINE l == a \o SubSeq(b, 0 + 1, count)
               r == SubSeq(a \o b, 0 + 1, Len(a) + count)
               cut == SubSeq(b, 0 + 1, count)
    <2>2. cut \in Seq(B) /\ Len(cut) = count /\ \A x \in 1..count : cut[x] = b[x]
      BY <2>1, CutFacts
    <2>3. /\ a \o b \in Seq(B) /\ \A x \in 1..Len(a) : (a \o b)[x] = a[x]
          /\ \A x \in 1..Len(b) : (a \o b)[Len(a) + x] = b[x]
      BY JoinFacts
    <2>4. /\ r \in Seq(B) /\ Len(r) = Len(a) + count
          /\ \A x \in 1..(Len(a) + count) : r[x] = (a \o b)[x]
      BY <2>1, <2>3, CutFacts
    <2> HIDE DEF cut
    <2>5. /\ a \o cut \in Seq(B) /\ Len(a \o cut) = Len(a) + count
          /\ \A x \in 1..Len(a) : (a \o cut)[x] = a[x]
          /\ \A x \in 1..count : (a \o cut)[Len(a) + x] = cut[x]
      <3>1. cut \in Seq(B)
        BY <2>2
      <3>2. /\ a \o cut \in Seq(B) /\ Len(a \o cut) = Len(a) + Len(cut)
            /\ \A x \in 1..Len(a) : (a \o cut)[x] = a[x]
            /\ \A x \in 1..Len(cut) : (a \o cut)[Len(a) + x] = cut[x]
        BY <3>1, JoinFacts
      <3> QED BY <2>2, <3>2
    <2> HIDE DEF r
    <2>6. ASSUME NEW x \in 1..(Len(a) + count) PROVE (a \o cut)[x] = r[x]
      <3>1. CASE x <= Len(a)
        BY <2>1, <2>3, <2>4, <2>5, <2>6, <3>1
      <3>2. CASE ~(x <= Len(a))
        <4>1. PICK y \in 1..count : x = Len(a) + y
          <5>1. x - Len(a) \in 1..count /\ x = Len(a) + (x - Len(a))
            BY <2>1, <2>6, <3>2
          <5> QED BY <5>1
        <4>2. y \in 1..Len(b)
          BY <2>1
        <4> QED BY <2>2, <2>3, <2>4, <2>5, <2>6, <4>1, <4>2
      <3> QED BY <3>1, <3>2
    <2>7. a \o cut = r
      <3>1. a \o cut \in Seq(B) /\ r \in Seq(B) /\ Len(a \o cut) = Len(r)
        BY <2>4, <2>5
      <3>2. \A x \in 1..Len(a \o cut) : (a \o cut)[x] = r[x]
        BY <2>5, <2>6
      <3> QED BY ONLY <3>1, <3>2, SeqEqual
    <2> QED BY <1>1, <2>7 DEF cut, r
  <1>2. CASE ~(count >= 0)
    <2>1. SubSeq(b, 1, count) = << >> /\ a \o << >> = a
      BY <1>2
    <2>2. SubSeq(a \o b, 1, Len(a)) = a
      <3>1. 0 \in Nat /\ Len(a) \in Nat /\ 0 <= Len(a) /\ Len(a) <= Len(a \o b)
            /\ a \o b \in Seq(B) /\ Len(a) - 0 = Len(a) /\ 0 + 1 = 1
        OBVIOUS
      <3>2. /\ SubSeq(a \o b, 0 + 1, Len(a)) \in Seq(B)
            /\ Len(SubSeq(a \o b, 0 + 1, Len(a))) = Len(a) - 0
            /\ \A x \in 1..(Len(a) - 0) : SubSeq(a \o b, 0 + 1, Len(a))[x] = (a \o b)[0 + x]
        BY <3>1, CutFacts
      <3>3. \A x \in 1..Len(a) : SubSeq(a \o b, 1, Len(a))[x] = a[x]
        BY <3>1, <3>2, JoinFacts
      <3> QED BY <3>1, <3>2, <3>3
    <2> QED BY <1>2, <2>1, <2>2
  <1> QED BY <1>1, <1>2

LEMMA AddKeeps ==
    ASSUME TerminatorAssumption, StreamInv, ~terminatorFound, NEW buffer \in Seq(Bytes),
           AddData(buffer)
    PROVE  StreamInv'
  <1> DEFINE N == Len(arrived)
             m == Len(terminator)
             data == arrived \o buffer
  <1>1. /\ terminator \in Terminators /\ skip \in 0..m /\ arrived \in Seq(Bytes)
        /\ dataStream = arrived /\ used = N /\ N \in Nat /\ m \in Nat \ {0}
    BY DEF StreamInv, StreamTypes, UsedUpToTerminator, TerminatorAssumption
  <1>2. /\ terminator' = terminator /\ skip' = skip /\ arrived' = data /\ newest' = Len(buffer)
    BY DEF AddData
  <1>3. /\ data \in Seq(Bytes) /\ Len(buffer) \in Nat /\ Len(data) = N + Len(buffer)
        /\ Len(data) - Len(buffer) = N
    BY <1>1, JoinFacts
  <1>4. CASE Found(buffer) = {} /\ Occurrences(terminator, data) = {}
    <2>1. used' = used + Len(buffer) /\ terminatorFound' = FALSE
          /\ dataStream' = dataStream \o SubSeq(buffer, 1, Len(buffer))
      BY <1>4 DEF AddData
    <2>2. SubSeq(buffer, 1, Len(buffer)) = buffer
      OBVIOUS
    <2>3. StreamTypes'
      BY <1>1, <1>2, <1>3, <2>1 DEF StreamTypes
    <2>4. TerminatorIsNoticed'
      BY <1>2, <1>4, <2>1 DEF TerminatorIsNoticed, Occurrences
    <2>5. used' = Len(arrived') /\ dataStream' = arrived'
      BY <1>1, <1>2, <1>3, <2>1, <2>2
    <2>6. UsedUpToTerminator'
      BY <2>1, <2>5 DEF UsedUpToTerminator
    <2> QED BY <2>3, <2>4, <2>6 DEF StreamInv
  <1>5. ASSUME NEW index, Finds(buffer, index) PROVE StreamInv'
    <2> DEFINE first == FirstFrom(terminator, data, N)
               start == IF first # -1 THEN first ELSE FirstFrom(terminator, data, 0)
               count == index + skip
    <2>1. /\ Found(buffer) = {index} /\ index \in Int /\ index + m <= Len(buffer)
          /\ N + index = start /\ Occurrences(terminator, data) # {}
      BY <1>5 DEF Finds
    <2> HIDE DEF first, start
    <2>2. Min(Found(buffer)) = index /\ Found(buffer) # {}
      BY <2>1, MinOfOne
    <2>3. /\ used' = used + (index + m) /\ terminatorFound' = TRUE
          /\ dataStream' = dataStream \o SubSeq(buffer, 1, count)
      <3>1. UsedBytes(Min(Found(buffer))) = index + m /\ Count(Min(Found(buffer))) = count
        BY <2>2 DEF UsedBytes, Count
      <3> QED BY <2>2, <3>1 DEF AddData
    <2>4. StreamTypes'
      BY <1>1, <1>2, <1>3, <2>3 DEF StreamTypes
    <2>5. TerminatorIsNoticed'
      BY <1>2, <2>1, <2>3 DEF TerminatorIsNoticed, Occurrences
    <2>6. used' - m = start
      BY <1>1, <2>1, <2>3
    <2>7. dataStream' = SubSeq(data, 1, Max({start + skip, N}))
      <3>1. count \in Int /\ count <= Len(buffer) /\ start + skip = N + count
            /\ start + skip \in Int
        BY <1>1, <1>3, <2>1
      <3> HIDE DEF count
      <3>2. dataStream' = SubSeq(data, 1, IF count >= 0 THEN N + count ELSE N)
        BY <1>1, <2>3, <3>1, StartOfBoth
      <3>3. Max({start + skip, N}) = IF start + skip >= N THEN start + skip ELSE N
        BY <1>1, <3>1, MaxOfTwo
      <3>4. (IF count >= 0 THEN N + count ELSE N)
            = IF start + skip >= N THEN start + skip ELSE N
        BY <1>1, <3>1
      <3> QED BY <3>2, <3>3, <3>4
    <2>8. UsedUpToTerminator'
      <3>1. Len(arrived') - newest' = N
        BY <1>2, <1>3
      <3>2. /\ FirstFrom(terminator, arrived, Len(arrived) - newest)' = first
            /\ FirstFrom(terminator, arrived, 0)' = FirstFrom(terminator, data, 0)
        BY <1>2, <3>1 DEF FirstFrom, Occurrences, first
      <3>3. /\ (used - Len(terminator))' = start
            /\ (Max({used - Len(terminator) + skip, Len(arrived) - newest}))'
               = Max({start + skip, N})
        BY <1>2, <2>6, <3>1
      <3> QED BY <1>2, <2>3, <2>6, <2>7, <3>1, <3>2, <3>3 DEF UsedUpToTerminator, start
    <2> QED BY <2>4, <2>5, <2>8 DEF StreamInv
  <1> QED BY <1>4, <1>5, FoundFinds

LEMMA InitStreamInv == TerminatorAssumption /\ StreamInit => StreamInv
  <1> SUFFICES ASSUME TerminatorAssumption, StreamInit PROVE StreamInv
    OBVIOUS
  <1>1. terminator \in Seq(Bytes) /\ terminator # << >> /\ arrived = << >>
    BY DEF StreamInit, TerminatorAssumption
  <1>2. arrived \in Seq(Bytes) /\ Len(arrived) = 0 /\ Len(terminator) \in Nat \ {0}
    BY <1>1
  <1>3. Occurrences(terminator, arrived) = {}
    BY <1>1, <1>2 DEF Occurrences
  <1>4. StreamTypes /\ TerminatorIsNoticed /\ UsedUpToTerminator
    BY <1>2, <1>3 DEF StreamInit, StreamTypes, TerminatorIsNoticed, UsedUpToTerminator
  <1> QED BY <1>4 DEF StreamInv

LEMMA StreamInductive == StreamInv /\ [StreamNext]_streamVars => StreamInv'
  <1> SUFFICES ASSUME StreamInv, [StreamNext]_streamVars PROVE StreamInv'
    OBVIOUS
  <1>1. CASE StreamNext
    <2>1. PICK buffer \in Pieces : AddData(buffer)
      BY <1>1 DEF StreamNext
    <2>2. buffer \in Seq(Bytes)
      BY DEF Pieces
    <2> QED BY <1>1, <2>1, <2>2, AddKeeps, TerminatorAssumption DEF StreamNext
  <1>2. CASE UNCHANGED streamVars
    BY <1>2 DEF streamVars, StreamInv, StreamTypes, TerminatorIsNoticed, UsedUpToTerminator,
        Occurrences, FirstFrom
  <1> QED BY <1>1, <1>2

LEMMA StreamInvariance == StreamSpec => []StreamInv
  BY InitStreamInv, StreamInductive, TerminatorAssumption, PTL DEF StreamSpec

(* In all data that can arrive, with every terminator: what SearchesFind    *)
(* says of the searches.                                                    *)
THEOREM SearchesAreRight == StreamSpec => []SearchesFindOccurrences
  <1>1. StreamInv => SearchesFindOccurrences
    <2> SUFFICES ASSUME StreamInv PROVE SearchesFindOccurrences
      OBVIOUS
    <2>1. terminator \in Seq(Bytes) /\ terminator # << >> /\ arrived \in Seq(Bytes)
      BY TerminatorAssumption DEF StreamInv, StreamTypes, TerminatorAssumption
    <2> QED BY <2>1, SearchesFind DEF SearchesFindOccurrences
  <1> QED BY <1>1, StreamInvariance, PTL

(* StreamReassembler::AddData finds the terminator with the piece that      *)
(* completes it, and only then, however the pieces are cut.                 *)
THEOREM TerminatorsAreNoticed == StreamSpec => []TerminatorIsNoticed
  <1>1. StreamInv => TerminatorIsNoticed
    BY DEF StreamInv
  <1> QED BY <1>1, StreamInvariance, PTL

(* What AddData says it used ends with the terminator it found, and what it *)
(* stores ends where the terminator starts, plus what is to be kept of it.  *)
THEOREM UsedEndsWithTerminator == StreamSpec => []UsedUpToTerminator
  <1>1. StreamInv => UsedUpToTerminator
    BY DEF StreamInv
  <1> QED BY <1>1, StreamInvariance, PTL
=============================================================================
