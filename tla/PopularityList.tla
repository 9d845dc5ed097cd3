--------------------------- MODULE PopularityList ---------------------------
(***************************************************************************)
(* PacketParser/PopularityList.hpp: a cache that keeps the entries used    *)
(* last.  m_linkedList holds the entries, most recently used first;        *)
(* m_sortedList maps each key to an iterator, here the identity of a list  *)
(* node.  The pool may grow from minPoolSize to maxPoolSize when the       *)
(* owner's delegate allows it, and entries may expire.                     *)
(***************************************************************************)
EXTENDS PopularityLists, FiniteSets

CONSTANTS Keys, Values, Nodes,
          minPoolSize, maxPoolSize,
          Expired(_, _)    \* m_lastValueExpiredCheck: the last value against the new one

ASSUME PoolAssumption ==
    minPoolSize \in Nat /\ maxPoolSize \in Nat /\ minPoolSize <= maxPoolSize
\* The allocator never runs out of nodes.
ASSUME NodeAssumption == IsFiniteSet(Nodes) => Cardinality(Nodes) > maxPoolSize

VARIABLES
    linkedList,        \* m_linkedList
    sortedList,        \* m_sortedList
    currentPoolSize,
    lost,              \* keys PopularityLost was called with in the last operation
    recency            \* history: every key added or found since it was last
                       \* removed, most recent first

vars == <<linkedList, sortedList, currentPoolSize, lost, recency>>

Entry == [key : Keys, value : Values, node : Nodes]

TypeOK ==
    /\ linkedList \in Seq(Entry)
    /\ DOMAIN sortedList \subseteq Keys
    /\ \A k \in DOMAIN sortedList : sortedList[k] \in Nodes
    /\ currentPoolSize \in minPoolSize..maxPoolSize
    /\ lost \in Seq(Keys)

Init ==
    /\ linkedList = << >>
    /\ sortedList = << >>
    /\ currentPoolSize = minPoolSize
    /\ lost = << >>
    /\ recency = << >>

----------------------------------------------------------------------------
NodesOf(list) == {list[i].node : i \in DOMAIN list}
NodeAt(list, n) == CHOOSE i \in DOMAIN list : list[i].node = n

\* History: a key becomes the most recent one, or is forgotten.
Forget(key) ==
    IF \E i \in DOMAIN recency : recency[i] = key
    THEN EraseAt(recency, CHOOSE i \in DOMAIN recency : recency[i] = key) ELSE recency
Recent(key) == PushFront(Forget(key), key)

\* Mutant: the entry with the same key stays in the list.
MutErasedListKeeps(key) == linkedList
\* Remove(key), the part that Add uses too: both structures lose the key, the
\* list through the iterator.
ErasedList(key) ==
    IF key \in DOMAIN sortedList
    THEN EraseAt(linkedList, NodeAt(linkedList, sortedList[key])) ELSE linkedList
ErasedIndex(key) == [k \in DOMAIN sortedList \ {key} |-> sortedList[k]]

Added(key, value, node) ==
    PushFront(ErasedList(key), [key |-> key, value |-> value, node |-> node])

\* How many entries stay when entries expire from the back.
LastFresh(list, value) ==
    LET fresh == {i \in DOMAIN list : ~Expired(list[i].value, value)}
    IN  IF fresh = {} THEN 0 ELSE CHOOSE i \in fresh : \A j \in fresh : j <= i

\* The pool grows to hold n entries when it may and the delegate agrees.
PoolSizeFor(n, expand) ==
    IF n > currentPoolSize /\ currentPoolSize < maxPoolSize /\ expand
    THEN IF n < maxPoolSize THEN n ELSE maxPoolSize
    ELSE currentPoolSize

\* Mutant: room is made one entry late.
MutFittingOneMore(n, size) == IF n > size + 1 THEN size + 1 ELSE n
Fitting(n, size) == IF n > size THEN size ELSE n

\* Mutant: they are announced from the front of the list to its back.
MutKeysAfterForward(list, n) == [i \in 1..(Len(list) - n) |-> list[n + i].key]
\* The keys of a list's entries after position n, last first.
KeysAfter(list, n) == [i \in 1..(Len(list) - n) |-> list[Len(list) + 1 - i].key]

\* Add: replace, put in front, expire, then make room: the pool grows, or the
\* last entries lose their popularity.
AddEntry(key, value, node, expand) ==
    LET added == Added(key, value, node)
        fresh == LastFresh(added, value)
        kept  == Fitting(fresh, PoolSizeFor(fresh, expand))
    IN  /\ linkedList' = SubSeq(added, 1, kept)
        /\ lost' = KeysAfter(added, kept)
        /\ currentPoolSize' = PoolSizeFor(fresh, expand)
        /\ sortedList' = [k \in (DOMAIN sortedList \cup {key})
                                \ KeysOf(SubSeq(added, kept + 1, Len(added)))
                            |-> IF k = key THEN node ELSE sortedList[k]]
        /\ recency' = Recent(key)

Add(key, value) ==
    \E node \in Nodes \ NodesOf(ErasedList(key)), expand \in BOOLEAN :
        AddEntry(key, value, node, expand)

\* Mutant: a look-up does not move the entry to the front.
MutTryGetValueNoSplice(key) ==
    /\ key \in DOMAIN sortedList
    /\ recency' = Recent(key)
    /\ lost' = << >>
    /\ UNCHANGED <<linkedList, sortedList, currentPoolSize>>

TryGetValue(key) ==
    LET i == NodeAt(linkedList, sortedList[key])
    IN  /\ key \in DOMAIN sortedList
        /\ linkedList' = PushFront(EraseAt(linkedList, i), linkedList[i])
        /\ recency' = Recent(key)
        /\ lost' = << >>
        /\ UNCHANGED <<sortedList, currentPoolSize>>

Remove(key, triggerPopularityLost) ==
    /\ key \in DOMAIN sortedList
    /\ linkedList' = ErasedList(key)
    /\ sortedList' = ErasedIndex(key)
    /\ lost' = IF triggerPopularityLost THEN <<key>> ELSE << >>
    /\ recency' = Forget(key)
    /\ UNCHANGED currentPoolSize

\* Clear keeps the pool at the size it has grown to.
Clear ==
    /\ linkedList' = << >>
    /\ sortedList' = << >>
    /\ lost' = << >>
    /\ recency' = << >>
    /\ UNCHANGED currentPoolSize

Next ==
    \/ \E key \in Keys, value \in Values : Add(key, value)
    \/ \E key \in Keys : TryGetValue(key)
    \/ \E key \in Keys, trigger \in BOOLEAN : Remove(key, trigger)
    \/ Clear

Spec == Init /\ [][Next]_vars

----------------------------------------------------------------------------
\* The two structures describe the same entries: every iterator of the map
\* points to a live node that holds its key, no node is left without one, and
\* no key is twice in the list.
IndexMatchesList ==
    /\ DOMAIN sortedList = KeysOf(linkedList)
    /\ \A i \in DOMAIN linkedList : sortedList[linkedList[i].key] = linkedList[i].node
    /\ \A i, j \in DOMAIN linkedList :
          i # j => linkedList[i].key # linkedList[j].key /\ linkedList[i].node # linkedList[j].node

\* Add never leaves more entries than the pool may hold.
WithinPool == Len(linkedList) <= currentPoolSize

\* The entries kept are exactly the ones used last, in the order of their last
\* use, whatever sequence of additions, look-ups, removals, expiries and
\* growths led there.
KeepsMostRecent ==
    [i \in DOMAIN linkedList |-> linkedList[i].key] = SubSeq(recency, 1, Len(linkedList))

\* An entry that Add drops is announced once, the least recently used first;
\* replacing the value of a key announces nothing.
UsedBefore(uses, j, k) == \E a, b \in DOMAIN uses : a < b /\ uses[a] = k /\ uses[b] = j
DropsAreAnnounced ==
    [][\A key \in Keys, value \in Values : Add(key, value) =>
          LET gone == {k \in KeysOf(linkedList) \cup {key} : k \notin KeysOf(linkedList')}
          IN  /\ Len(lost') = Cardinality(gone) /\ {lost'[i] : i \in DOMAIN lost'} = gone
              /\ \A i, j \in DOMAIN lost' : i < j => UsedBefore(recency', lost'[i], lost'[j])]_vars
=============================================================================
