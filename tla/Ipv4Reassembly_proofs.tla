----------------------- MODULE Ipv4Reassembly_proofs -----------------------
(***************************************************************************)
(* No fragment is delivered twice and none waits for a datagram that is    *)
(* already decided, for every set of files, pool size and clearing.        *)
(***************************************************************************)
EXTENDS Ipv4Reassembly, SequenceFacts

\* The record was read before the next one.
Past(f) ==
    /\ f[1] \in 1..Len(loads) /\ f[2] \in DOMAIN loads[f[1]]
    /\ f[1] = Len(loads) /\ next # 0 => f[2] < next

WaitingArePast == \A i \in DOMAIN pool : \A f \in ElementsOf(pool[i].packets) : Past(f)
DeliveredArePast ==
    \A n \in DOMAIN delivered : \A f \in ElementsOf(delivered[n].from) : Past(f)

\* An entry of the pool holds fragments with its key.
EntriesMatch ==
    \A i \in DOMAIN pool : \A f \in ElementsOf(pool[i].packets) : Record(f).key = pool[i].key

\* What was delivered does not wait.
DeliveredDoNotWait ==
    \A i \in DOMAIN pool : \A f \in ElementsOf(pool[i].packets) :
        \A n \in DOMAIN delivered : f \notin ElementsOf(delivered[n].from)

\* The history of what was delivered is a sequence.
History == delivered \in Seq(ElementsOf(delivered))

IInv ==
    /\ TypeOK /\ History /\ OneEntryPerKey(pool)
    /\ WaitingArePast /\ DeliveredArePast /\ EntriesMatch
    /\ DeliveredDoNotWait /\ PoolHoldsUnfinished /\ FragmentUsedOnce /\ DeliveredWhole

----------------------------------------------------------------------------
LEMMA InitIInv == Init => IInv
  <1> SUFFICES ASSUME Init PROVE IInv
    OBVIOUS
  <1>1. DOMAIN pool = {} /\ DOMAIN delivered = {}
    BY DEF Init
  <1>2. TypeOK
    BY <1>1, SizeAssumption DEF Init, TypeOK
  <1>3. History
    BY DEF Init, History
  <1> QED BY <1>1, <1>2, <1>3 DEF IInv, OneEntryPerKey, WaitingArePast, DeliveredArePast,
       EntriesMatch, DeliveredDoNotWait, PoolHoldsUnfinished, FragmentUsedOnce, DeliveredWhole

(* The parts of the invariant that are about the pool and what was          *)
(* delivered alone.                                                         *)
LEMMA UntouchedKeep ==
    ASSUME IInv, pool' = pool, delivered' = delivered
    PROVE  History' /\ OneEntryPerKey(pool)' /\ DeliveredDoNotWait' /\ FragmentUsedOnce'
  <1>1. History'
    BY DEF IInv, History, ElementsOf
  <1>2. OneEntryPerKey(pool)'
    BY DEF IInv, OneEntryPerKey
  <1>3. DeliveredDoNotWait'
    BY DEF IInv, DeliveredDoNotWait, ElementsOf
  <1>4. FragmentUsedOnce'
    BY DEF IInv, FragmentUsedOnce, ElementsOf
  <1> QED BY <1>1, <1>2, <1>3, <1>4

(* A datagram stays whole while the records of its fragments do.            *)
LEMMA WholeKept ==
    ASSUME NEW d, Whole(d), \A g \in ElementsOf(d.from) : Record(g)' = Record(g)
    PROVE  Whole(d)'
  <1>1. \A i \in DOMAIN d.from : Extent(d.from[i])' = Extent(d.from[i])
    BY DEF Extent, ElementsOf
  <1>2. Overlapping(d.from)' <=> Overlapping(d.from)
    BY <1>1 DEF Overlapping
  <1>3. (UNION {Extent(d.from[i]) : i \in DOMAIN d.from})' = UNION {Extent(d.from[i]) : i \in DOMAIN d.from}
    BY <1>1
  <1> QED BY <1>2, <1>3 DEF Whole

LEMMA DeliveredWholeKept ==
    ASSUME DeliveredWhole, delivered' = delivered,
           \A n \in DOMAIN delivered : \A g \in ElementsOf(delivered[n].from) : Record(g)' = Record(g)
    PROVE  DeliveredWhole'
  <1>1. ASSUME NEW n \in DOMAIN delivered PROVE Whole(delivered[n])'
    <2>1. PICK d : d = delivered[n]
      OBVIOUS
    <2>2. Whole(d) /\ \A g \in ElementsOf(d.from) : Record(g)' = Record(g)
      BY <2>1 DEF DeliveredWhole
    <2>3. Whole(d)'
      BY <2>2, WholeKept
    <2>4. delivered'[n] = d
      BY <2>1
    <2> QED BY <2>3, <2>4 DEF Whole, Overlapping, Extent
  <1> QED BY <1>1 DEF DeliveredWhole

(* A file that is being opened changes no record read before.               *)
LEMMA OpenKeeps ==
    ASSUME IInv, NEW file \in Files, Open(file)
    PROVE  IInv'
  <1>0. /\ loads \in Seq(Files) /\ Len(loads) \in Nat /\ Len(loads) < MaxLoads
        /\ loads' = Append(loads, file) /\ next = 0 /\ next' = 1
        /\ UNCHANGED <<frames, pool, delivered>>
    BY DEF Open, IInv, TypeOK
  <1>1. /\ loads' \in Seq(Files) /\ Len(loads') = Len(loads) + 1
        /\ \A l \in 1..Len(loads) : loads'[l] = loads[l]
        /\ loads'[Len(loads')] = file
    BY <1>0
  <1>2. ASSUME NEW f, Past(f)
        PROVE  Past(f)' /\ Record(f)' = Record(f)
    <2>1. f[1] \in 1..Len(loads') /\ f[1] # Len(loads') /\ loads'[f[1]] = loads[f[1]]
      BY <1>0, <1>1, <1>2 DEF Past
    <2> QED BY <2>1, <1>2 DEF Past, Record
  <1>3. TypeOK'
    <2>1. Len(file) \in Nat /\ MaxLoads \in Nat
      BY FileAssumption, SizeAssumption
    <2>2. loads' # << >> /\ next' <= Len(loads'[Len(loads')]) + 1 /\ Len(loads') <= MaxLoads
      BY <1>0, <1>1, <2>1
    <2> QED BY <1>0, <1>1, <2>2 DEF IInv, TypeOK
  <1>4. UNCHANGED <<pool, delivered>>
    BY <1>0
  <1>5. OneEntryPerKey(pool)' /\ DeliveredDoNotWait' /\ FragmentUsedOnce' /\ History'
    BY <1>4, UntouchedKeep
  <1>6. WaitingArePast' /\ EntriesMatch' /\ PoolHoldsUnfinished'
    <2>1. ASSUME NEW i \in DOMAIN pool, NEW f \in ElementsOf(pool[i].packets)
          PROVE  Past(f)' /\ Record(f)'.key = pool[i].key /\ Record(f)'.more
      <3>1. Past(f) /\ Record(f).key = pool[i].key /\ Record(f).more
        BY DEF IInv, WaitingArePast, EntriesMatch, PoolHoldsUnfinished
      <3> QED BY <3>1, <1>2
    <2> QED BY <2>1, <1>4 DEF WaitingArePast, EntriesMatch, PoolHoldsUnfinished, ElementsOf
  <1>7. DeliveredArePast'
    <2>1. ASSUME NEW n \in DOMAIN delivered, NEW f \in ElementsOf(delivered[n].from)
          PROVE  Past(f)'
      BY <1>2 DEF IInv, DeliveredArePast
    <2> QED BY <2>1, <1>4 DEF DeliveredArePast, ElementsOf
  <1>8. DeliveredWhole'
    <2>1. \A n \in DOMAIN delivered : \A g \in ElementsOf(delivered[n].from) : Record(g)' = Record(g)
      BY <1>2 DEF IInv, DeliveredArePast
    <2> QED BY <2>1, <1>4, DeliveredWholeKept DEF IInv
  <1> QED BY <1>3, <1>5, <1>6, <1>7, <1>8 DEF IInv

(* What a step needs to keep when the files stay and records are only read. *)
LEMMA PastGrows ==
    ASSUME IInv, loads' = loads, next # 0, next' = next + 1 \/ next' = 0,
           NEW f, Past(f)
    PROVE  Past(f)' /\ Record(f)' = Record(f)
  <1>1. next \in Nat /\ f[1] \in 1..Len(loads) /\ f[2] \in DOMAIN loads[f[1]]
    BY DEF IInv, TypeOK, Past
  <1>2. Len(loads) \in Nat /\ loads[f[1]] \in Files
    BY <1>1 DEF IInv, TypeOK
  <1>3. f[2] \in Nat
    BY <1>1, <1>2, FileAssumption
  <1>4. f[1] = Len(loads) => f[2] < next
    BY DEF Past
  <1>5. f[1] = Len(loads) /\ next' # 0 => f[2] < next'
    BY <1>1, <1>3, <1>4
  <1> QED BY <1>1, <1>5 DEF Past, Record

(* The fields of a captured record are numbers.                             *)
LEMMA RecordFields ==
    ASSUME IInv, NEW g, g[1] \in 1..Len(loads), g[2] \in DOMAIN loads[g[1]]
    PROVE  Record(g).offset \in Nat /\ LengthOf(Record(g)) \in Nat
  <1>1. loads[g[1]] \in Files
    BY DEF IInv, TypeOK
  <1>2. PICK file \in Files : file = loads[g[1]]
    BY <1>1
  <1>3. file[g[2]].offset \in Nat /\ Len(file[g[2]].blocks) \in Nat
    BY <1>2, FileAssumption
  <1> QED BY <1>2, <1>3 DEF Record, LengthOf

(* The list a fragment joins.                                               *)
LEMMA CollectedFacts ==
    ASSUME IInv, NEW key, NEW f \in Frame
    PROVE  /\ Collected(key, f) \in Seq(Frame)
           /\ f \in ElementsOf(Collected(key, f))
           /\ \A g \in ElementsOf(Collected(key, f)) :
                \/ g = f
                \/ \E i \in DOMAIN pool : pool[i].key = key /\ g \in ElementsOf(pool[i].packets)
  <1> DEFINE old == IF key \in KeysOf(pool) THEN pool[Position(pool, key)].packets ELSE << >>
  <1>1. /\ old \in Seq(Frame)
        /\ \A g \in ElementsOf(old) :
             \E i \in DOMAIN pool : pool[i].key = key /\ g \in ElementsOf(pool[i].packets)
    <2>1. CASE key \in KeysOf(pool)
      <3>1. Position(pool, key) \in DOMAIN pool /\ pool[Position(pool, key)].key = key
        BY <2>1 DEF Position, KeysOf
      <3>2. pool[Position(pool, key)] \in Entry
        BY <3>1 DEF IInv, TypeOK
      <3> QED BY <2>1, <3>1, <3>2 DEF Entry
    <2>2. CASE key \notin KeysOf(pool)
      BY <2>2 DEF ElementsOf
    <2> QED BY <2>1, <2>2
  <1>2. Collected(key, f) = Append(old, f)
    BY DEF Collected
  <1> HIDE DEF old
  <1>3. /\ Append(old, f) \in Seq(Frame) /\ Len(Append(old, f)) = Len(old) + 1
        /\ Append(old, f)[Len(old) + 1] = f
        /\ \A i \in 1..Len(old) : Append(old, f)[i] = old[i]
    BY <1>1
  <1>4. Len(old) \in Nat /\ DOMAIN Append(old, f) = 1..(Len(old) + 1) /\ DOMAIN old = 1..Len(old)
    BY <1>1, <1>3
  <1>5. ElementsOf(Append(old, f)) \subseteq ElementsOf(old) \cup {f}
    <2>1. ASSUME NEW i \in 1..(Len(old) + 1)
          PROVE  Append(old, f)[i] \in ElementsOf(old) \cup {f}
      BY <1>3, <1>4 DEF ElementsOf
    <2> QED BY <2>1, <1>4 DEF ElementsOf
  <1>6. f \in ElementsOf(Append(old, f))
    BY <1>3, <1>4 DEF ElementsOf
  <1> QED BY <1>1, <1>2, <1>3, <1>5, <1>6

(* The pool after a fragment: the entry of its key, unless its datagram is  *)
(* decided, and entries of other keys that were there.                      *)
LEMMA PoolAfterFacts ==
    ASSUME IInv, NEW key \in Keys, NEW list \in Seq(Frame), NEW complete \in BOOLEAN, NEW valid
    PROVE  /\ PoolAfter(key, list, complete, valid) \in Seq(Entry)
           /\ Len(PoolAfter(key, list, complete, valid)) <= PoolSize
           /\ OneEntryPerKey(PoolAfter(key, list, complete, valid))
           /\ \A j \in DOMAIN PoolAfter(key, list, complete, valid) :
                \/ ~complete /\ PoolAfter(key, list, complete, valid)[j]
                                  = [key |-> key, packets |-> list]
                \/ /\ PoolAfter(key, list, complete, valid)[j].key # key
                   /\ \E k \in DOMAIN pool : PoolAfter(key, list, complete, valid)[j] = pool[k]
  <1> DEFINE entry == [key |-> key, packets |-> list]
             added == AddBounded(pool, entry, PoolSize)
             w == WithoutKey(added, key)
  <1>1. entry \in Entry /\ entry.key = key
    BY DEF Entry
  <1> HIDE DEF entry
  <1>2. pool \in Seq(Entry) /\ OneEntryPerKey(pool) /\ PoolSize \in Nat
    BY SizeAssumption DEF IInv, TypeOK
  <1>3. /\ added \in Seq(Entry) /\ Len(added) <= PoolSize /\ OneEntryPerKey(added)
        /\ \A j \in DOMAIN added :
             \/ added[j] = entry
             \/ added[j].key # entry.key /\ \E k \in DOMAIN pool : added[j] = pool[k]
    BY <1>1, <1>2, AddBoundedFacts
  <1> HIDE DEF added
  <1>4. /\ w \in Seq(Entry) /\ Len(w) <= Len(added) /\ OneEntryPerKey(w) /\ key \notin KeysOf(w)
        /\ \A j \in DOMAIN w : \E k \in DOMAIN added : w[j] = added[k]
    BY <1>3, WithoutKeyFacts
  <1> HIDE DEF w
  <1>5. PoolAfter(key, list, complete, valid) = IF complete THEN w ELSE added
    BY DEF PoolAfter, w, added, entry
  <1>6. \A j \in DOMAIN w : w[j].key # key
    BY <1>4 DEF KeysOf
  <1>7. \A j \in DOMAIN w : \E k \in DOMAIN pool : w[j] = pool[k]
    BY <1>1, <1>3, <1>4, <1>6
  <1>8. Len(w) <= PoolSize
    <2>1. Len(w) \in Nat /\ Len(added) \in Nat
      BY <1>3, <1>4
    <2> QED BY <2>1, <1>2, <1>3, <1>4
  <1>9. CASE complete
    BY <1>9, <1>4, <1>5, <1>6, <1>7, <1>8
  <1>10. CASE ~complete
    BY <1>10, <1>1, <1>3, <1>5 DEF entry
  <1> QED BY <1>9, <1>10

----------------------------------------------------------------------------
(* A valid datagram of fragments that do not overlap has no holes: as many  *)
(* blocks as it is long fit into it one by one.                             *)
LEMMA NoHoles ==
    ASSUME NEW list \in Seq(Frame), NEW fields, ~Overlapping(list),
           \A g \in ElementsOf(list) : /\ Record(g).offset \in Nat /\ LengthOf(Record(g)) \in Nat
                                       /\ fields[g] = FieldsOf(g),
           Valid(list, fields, PayloadOf(list, fields))
    PROVE  /\ PayloadOf(list, fields) \in Nat
           /\ UNION {Extent(list[i]) : i \in DOMAIN list} = 0..(PayloadOf(list, fields) - 1)
  <1> DEFINE D == DOMAIN list
             len == [i \in D |-> fields[list[i]].length]
             off == [i \in D |-> Record(list[i]).offset]
             total == PayloadOf(list, fields)
             P == Pairs(D, len)
             U == UNION {Extent(list[i]) : i \in D}
             k == [x \in P |-> off[x[1]] + x[2] - 1]
  <1>1. IsFiniteSet(D)
    <2>1. Len(list) \in Nat /\ D = 1..Len(list)
      OBVIOUS
    <2>2. 1 \in Int /\ Len(list) \in Int
      BY <2>1
    <2> QED BY <2>1, <2>2, FS_Interval
  <1>2. \A i \in D : /\ len[i] \in Nat /\ off[i] \in Nat
                     /\ Extent(list[i]) = off[i]..(off[i] + len[i] - 1)
                     /\ off[i] + len[i] <= total
    <2>1. ASSUME NEW i \in D
          PROVE  /\ Record(list[i]).offset \in Nat /\ LengthOf(Record(list[i])) \in Nat
                 /\ fields[list[i]] = FieldsOf(list[i])
      BY DEF ElementsOf
    <2>2. ASSUME NEW i \in D
          PROVE  fields[list[i]].length = LengthOf(Record(list[i]))
                 /\ fields[list[i]].offset = Record(list[i]).offset
      <3>1. fields[list[i]] = FieldsOf(list[i])
        BY <2>1
      <3>2. /\ FieldsOf(list[i]).length = LengthOf(Record(list[i]))
            /\ FieldsOf(list[i]).offset = Record(list[i]).offset
        BY DEF FieldsOf
      <3> QED BY <3>1, <3>2
    <2> QED BY <2>1, <2>2 DEF Extent, Valid
  <1>3. total = Cardinality(P)
    BY DEF PayloadOf, SumOf
  <1>4. \A i, j \in D : i # j => Extent(list[i]) \cap Extent(list[j]) = {}
    BY DEF Overlapping
  <1>5. \A x : x \in P <=> \E i \in D : \E b \in 1..len[i] : x = <<i, b>>
    BY PairsMember
  <1>6. IsFiniteSet(P) /\ total \in Nat
    <2> HIDE DEF D, len
    <2> QED BY <1>1, <1>2, <1>3, SumType, FS_CardinalityType
  <1> HIDE DEF D, len, off, P, total
  <1>7. \A i \in D : \A b \in 1..len[i] : <<i, b>> \in P /\ k[<<i, b>>] = off[i] + b - 1
    BY <1>5
  <1>8. ASSUME NEW x \in P PROVE k[x] \in U
    <2>1. PICK i \in D : \E b \in 1..len[i] : x = <<i, b>>
      BY <1>5
    <2>2. PICK b \in 1..len[i] : x = <<i, b>>
      BY <2>1
    <2>3. off[i] + b - 1 \in off[i]..(off[i] + len[i] - 1)
      BY <1>2
    <2> QED BY <2>2, <2>3, <1>2, <1>7
  <1>9. ASSUME NEW u \in U PROVE \E x \in P : k[x] = u
    <2>1. PICK i \in D : u \in Extent(list[i])
      OBVIOUS
    <2>3. u \in off[i]..(off[i] + len[i] - 1) /\ off[i] \in Nat /\ len[i] \in Nat
      BY <2>1, <1>2
    <2>2. u - off[i] + 1 \in 1..len[i] /\ off[i] + (u - off[i] + 1) - 1 = u
      BY <2>3
    <2> QED BY <2>2, <1>7
  <1>10. ASSUME NEW x \in P, NEW y \in P, k[x] = k[y] PROVE x = y
    <2>1. PICK i \in D : \E b \in 1..len[i] : x = <<i, b>>
      BY <1>5
    <2>2. PICK b \in 1..len[i] : x = <<i, b>>
      BY <2>1
    <2>3. PICK j \in D : \E c \in 1..len[j] : y = <<j, c>>
      BY <1>5
    <2>4. PICK c \in 1..len[j] : y = <<j, c>>
      BY <2>3
    <2>5. off[i] + b - 1 = off[j] + c - 1
      BY <2>2, <2>4, <1>7, <1>10
    <2>0. \A l, o \in Nat : \A a \in 1..l : o + a - 1 \in o..(o + l - 1)
      OBVIOUS
    <2>6. off[i] + b - 1 \in Extent(list[i]) /\ off[j] + c - 1 \in Extent(list[j])
      <3>1. /\ len[i] \in Nat /\ off[i] \in Nat /\ len[j] \in Nat /\ off[j] \in Nat
            /\ Extent(list[i]) = off[i]..(off[i] + len[i] - 1)
            /\ Extent(list[j]) = off[j]..(off[j] + len[j] - 1)
        BY <1>2
      <3> HIDE DEF len, off
      <3> QED BY <2>0, <3>1
    <2>7. i = j
      BY <2>5, <2>6, <1>4
    <2>8. b = c
      BY <2>5, <2>7, <1>2
    <2> QED BY <2>2, <2>4, <2>7, <2>8
  <1>11. k \in [P -> U]
    <2> HIDE DEF U
    <2> QED BY <1>8
  <1>12. k \in Bijection(P, U)
    <2> HIDE DEF U, k
    <2> QED BY <1>9, <1>10, <1>11 DEF Bijection, Injection, Surjection, IsInjective
  <1>13. Cardinality(U) = total
    <2> HIDE DEF U, k
    <2> QED BY <1>3, <1>6, <1>12, FS_Bijection DEF ExistsBijection
  <1>14. U \in SUBSET (0..(total - 1))
    <2>1. ASSUME NEW u \in U PROVE u \in 0..(total - 1)
      <3>1. PICK i \in D : u \in Extent(list[i])
        OBVIOUS
      <3> QED BY <3>1, <1>2, <1>6
    <2> QED BY <2>1
  <1>15. IsFiniteSet(0..(total - 1)) /\ Cardinality(0..(total - 1)) = total
    <2>1. 0 \in Int /\ total - 1 \in Int
      BY <1>6
    <2>2. /\ IsFiniteSet(0..(total - 1))
          /\ Cardinality(0..(total - 1)) = IF 0 > total - 1 THEN 0 ELSE total - 1 - 0 + 1
      BY <2>1, FS_Interval
    <2> QED BY <2>2, <1>6
  <1>16. U = 0..(total - 1)
    <2> HIDE DEF U
    <2> QED BY <1>13, <1>14, <1>15, FS_Subset
  <1> QED BY <1>6, <1>16 DEF total, D

(* What Collect does, without the contents: the list, whether it is         *)
(* complete, the pool after it and what is delivered.                       *)
LEMMA CollectEffect ==
    ASSUME NEW f, NEW bytes, Collect(f, bytes), f \in ElementsOf(Collected(Record(f).key, f)),
           Collected(Record(f).key, f) \in Seq(Frame),
           \A g \in ElementsOf(Collected(Record(f).key, f)) :
                Record(g).offset \in Nat /\ LengthOf(Record(g)) \in Nat
    PROVE  \E complete \in BOOLEAN, valid \in BOOLEAN :
             /\ pool' = PoolAfter(Record(f).key, Collected(Record(f).key, f), complete, valid)
             /\ ~complete => Record(f).more
             /\ \/ delivered' = delivered
                \/ complete /\ \E d : /\ d.from = Collected(Record(f).key, f)
                                      /\ Whole(d)
                                      /\ delivered' = Append(delivered, d)
  <1> DEFINE r == Record(f)
             list == Collected(r.key, f)
             dead == {g \in ElementsOf(list) : ~Alive(g, f)}
  <1>1. PICK wild \in [dead -> Wild] :
          LET fields == [g \in ElementsOf(list) |-> IF g \in dead THEN wild[g] ELSE FieldsOf(g)]
              payload == PayloadOf(list, fields)
              complete == HasLast(list, fields)
              valid == /\ HeaderBlocks + payload <= MaxDatagram
                       /\ Valid(list, fields, payload)
          IN  /\ pool' = PoolAfter(r.key, list, complete, valid)
              /\ delivered' =
                    IF complete /\ valid /\ payload > 0
                    THEN Append(delivered,
                           [key |-> r.key, from |-> list, intact |-> dead = {},
                            blocks |-> Reassembled(list, fields, payload, f, bytes)])
                    ELSE delivered
    BY DEF Collect, Record
  <1> DEFINE fields == [g \in ElementsOf(list) |-> IF g \in dead THEN wild[g] ELSE FieldsOf(g)]
             payload == PayloadOf(list, fields)
             complete == HasLast(list, fields)
             valid == /\ HeaderBlocks + payload <= MaxDatagram
                      /\ Valid(list, fields, payload)
             d == [key |-> r.key, from |-> list, intact |-> dead = {},
                   blocks |-> Reassembled(list, fields, payload, f, bytes)]
  <1>2. complete \in BOOLEAN /\ valid \in BOOLEAN
    BY DEF HasLast, Valid
  <1>3. ASSUME ~complete PROVE r.more
    <2>1. PICK i \in DOMAIN list : list[i] = f
      BY DEF ElementsOf
    <2>2. fields[f] = FieldsOf(f)
      BY DEF Alive
    <2>3. fields[f].more
      BY <1>3, <2>1 DEF HasLast
    <2> QED BY <2>2, <2>3 DEF FieldsOf
  <1>4. pool' = PoolAfter(r.key, list, complete, valid)
    BY <1>1
  <1>5. \/ delivered' = delivered
        \/ complete /\ valid /\ delivered' = Append(delivered, d)
    BY <1>1
  <1>6. d.from = list
    OBVIOUS
  <1>7. ASSUME valid PROVE Whole(d)
    <2> SUFFICES ASSUME dead = {}, ~Overlapping(list)
                 PROVE  UNION {Extent(list[i]) : i \in DOMAIN list} = DOMAIN d.blocks
      BY <1>6 DEF Whole
    <2>1. \A g \in ElementsOf(list) : fields[g] = FieldsOf(g)
      OBVIOUS
    <2>2. Valid(list, fields, payload)
      BY <1>7
    <2>3. DOMAIN d.blocks = 0..(payload - 1)
      BY DEF Reassembled
    <2> HIDE DEF list, fields, dead, d
    <2>4. UNION {Extent(list[i]) : i \in DOMAIN list} = 0..(payload - 1)
      BY <2>1, <2>2, NoHoles DEF list
    <2> QED BY <2>3, <2>4
  <1> HIDE DEF complete, valid, d
  <1> QED BY <1>2, <1>3, <1>4, <1>5, <1>6, <1>7

(* A fragment that was just read keeps every part of the invariant.         *)
LEMMA CollectKeeps ==
    ASSUME IInv, next # 0, next <= Len(loads[Len(loads)]), NEW bytes,
           Collect(<<Len(loads), next>>, bytes),
           loads' = loads, next' = next + 1
    PROVE  /\ pool' \in Seq(Entry) /\ Len(pool') <= PoolSize
           /\ \A n \in DOMAIN delivered' : delivered'[n].from \in Seq(Frame)
           /\ History' /\ OneEntryPerKey(pool)' /\ WaitingArePast' /\ DeliveredArePast' /\ EntriesMatch'
           /\ DeliveredDoNotWait' /\ PoolHoldsUnfinished' /\ FragmentUsedOnce' /\ DeliveredWhole'
  <1>f. PICK f : f = <<Len(loads), next>>
    OBVIOUS
  <1> DEFINE key == Record(f).key
             list == Collected(key, f)
  <1>0. /\ loads \in Seq(Files) /\ Len(loads) \in Nat \ {0} /\ next \in Nat \ {0}
        /\ \A n \in DOMAIN delivered : delivered[n].from \in Seq(Frame)
    <2>1. loads # << >> /\ loads \in Seq(Files) /\ next \in Nat
      BY DEF IInv, TypeOK
    <2> QED BY <2>1 DEF IInv, TypeOK
  <1>1. /\ f \in Frame /\ f[1] = Len(loads) /\ f[2] = next
        /\ loads[Len(loads)] \in Files /\ next \in DOMAIN loads[Len(loads)]
    <2>1. loads[Len(loads)] \in Files
      BY <1>0
    <2>2. DOMAIN loads[Len(loads)] = 1..Len(loads[Len(loads)])
      BY <2>1, FileAssumption
    <2> QED BY <1>f, <1>0, <2>1, <2>2 DEF Frame
  <1>2. key \in Keys
    BY <1>1 DEF Record, Keys
  <1>3. ~Past(f)
    BY <1>0, <1>1 DEF Past
  <1>4. /\ f[1] \in 1..Len(loads') /\ f[2] \in DOMAIN loads'[f[1]]
        /\ f[1] = Len(loads') /\ next' # 0 => f[2] < next'
    BY <1>0, <1>1
  <1>6. /\ list \in Seq(Frame) /\ f \in ElementsOf(list)
        /\ \A g \in ElementsOf(list) :
             \/ g = f
             \/ \E i \in DOMAIN pool : pool[i].key = key /\ g \in ElementsOf(pool[i].packets)
    BY <1>1, CollectedFacts
  <1>20. ASSUME NEW g \in ElementsOf(list)
         PROVE  Record(g).offset \in Nat /\ LengthOf(Record(g)) \in Nat
    <2>1. CASE g = f
      <3>1. g[1] \in 1..Len(loads) /\ g[2] \in DOMAIN loads[g[1]]
        BY <2>1, <1>0, <1>1
      <3> QED BY <3>1, RecordFields
    <2>2. CASE \E i \in DOMAIN pool : pool[i].key = key /\ g \in ElementsOf(pool[i].packets)
      <3>1. Past(g)
        BY <2>2 DEF IInv, WaitingArePast
      <3>2. g[1] \in 1..Len(loads) /\ g[2] \in DOMAIN loads[g[1]]
        BY <3>1 DEF Past
      <3> QED BY <3>2, RecordFields
    <2> QED BY <2>1, <2>2, <1>6
  <1>5. PICK complete \in BOOLEAN, valid \in BOOLEAN :
             /\ pool' = PoolAfter(key, list, complete, valid)
             /\ ~complete => Record(f).more
             /\ \/ delivered' = delivered
                \/ complete /\ \E d : d.from = list /\ Whole(d) /\ delivered' = Append(delivered, d)
    BY <1>f, <1>6, <1>20, CollectEffect
  <1>7. \A g : Past(g) => Past(g)' /\ Record(g)' = Record(g)
    BY PastGrows
  <1> DEFINE PastThen(g) == Past(g)'
             RecordThen(g) == Record(g)'
  <1>8. PastThen(f) /\ RecordThen(f) = Record(f)
    BY <1>4 DEF Past, Record
  <1>9. \A g : Past(g) => PastThen(g) /\ RecordThen(g) = Record(g)
    BY <1>7
  <1>10. /\ WaitingArePast' <=> \A j \in DOMAIN pool' : \A g \in ElementsOf(pool'[j].packets) : PastThen(g)
         /\ EntriesMatch' <=> \A j \in DOMAIN pool' : \A g \in ElementsOf(pool'[j].packets) :
                                  RecordThen(g).key = pool'[j].key
         /\ PoolHoldsUnfinished' <=> \A j \in DOMAIN pool' : \A g \in ElementsOf(pool'[j].packets) :
                                  RecordThen(g).more
         /\ DeliveredArePast' <=> \A n \in DOMAIN delivered' :
                                  \A g \in ElementsOf(delivered'[n].from) : PastThen(g)
         /\ DeliveredDoNotWait' <=> \A j \in DOMAIN pool' : \A g \in ElementsOf(pool'[j].packets) :
                                  \A n \in DOMAIN delivered' : g \notin ElementsOf(delivered'[n].from)
         /\ FragmentUsedOnce' <=> \A m, n \in DOMAIN delivered' : m # n =>
                                  ElementsOf(delivered'[m].from) \cap ElementsOf(delivered'[n].from) = {}
    BY DEF WaitingArePast, EntriesMatch, PoolHoldsUnfinished, DeliveredArePast, DeliveredDoNotWait,
           FragmentUsedOnce, ElementsOf
  <1> HIDE DEF PastThen, RecordThen
  <1>11. /\ pool' \in Seq(Entry) /\ Len(pool') <= PoolSize /\ OneEntryPerKey(pool')
         /\ \A j \in DOMAIN pool' :
              \/ ~complete /\ pool'[j] = [key |-> key, packets |-> list]
              \/ pool'[j].key # key /\ \E k \in DOMAIN pool : pool'[j] = pool[k]
    BY <1>2, <1>5, <1>6, PoolAfterFacts
  <1>12. ASSUME NEW i \in DOMAIN pool, NEW g \in ElementsOf(pool[i].packets)
         PROVE  /\ Past(g) /\ PastThen(g) /\ RecordThen(g).key = pool[i].key /\ RecordThen(g).more
                /\ \A n \in DOMAIN delivered : g \notin ElementsOf(delivered[n].from)
    <2>1. /\ Past(g) /\ Record(g).key = pool[i].key /\ Record(g).more
          /\ \A n \in DOMAIN delivered : g \notin ElementsOf(delivered[n].from)
      BY DEF IInv, WaitingArePast, EntriesMatch, PoolHoldsUnfinished, DeliveredDoNotWait
    <2> QED BY <2>1, <1>9
  <1>13. \A n \in DOMAIN delivered : f \notin ElementsOf(delivered[n].from)
    BY <1>3 DEF IInv, DeliveredArePast
  <1>14. ASSUME NEW g \in ElementsOf(list)
         PROVE  /\ PastThen(g) /\ RecordThen(g).key = key
                /\ ~complete => RecordThen(g).more
                /\ \A n \in DOMAIN delivered : g \notin ElementsOf(delivered[n].from)
    BY <1>5, <1>6, <1>8, <1>12, <1>13
  <1> HIDE DEF key, list
  <1>15. ASSUME NEW j \in DOMAIN pool', NEW g \in ElementsOf(pool'[j].packets)
         PROVE  /\ PastThen(g) /\ RecordThen(g).key = pool'[j].key /\ RecordThen(g).more
                /\ \A n \in DOMAIN delivered : g \notin ElementsOf(delivered[n].from)
    BY <1>11, <1>12, <1>14
  <1>16. OneEntryPerKey(pool)'
    BY <1>11 DEF OneEntryPerKey
  <1>17. WaitingArePast' /\ EntriesMatch' /\ PoolHoldsUnfinished'
    BY <1>10, <1>15
  <1>18. CASE delivered' = delivered
    <2>1. DeliveredArePast'
      BY <1>9, <1>10, <1>18 DEF IInv, DeliveredArePast
    <2>2. DeliveredDoNotWait'
      BY <1>10, <1>15, <1>18
    <2>3. FragmentUsedOnce'
      BY <1>10, <1>18 DEF IInv, FragmentUsedOnce
    <2>4. History'
      BY <1>18 DEF IInv, History, ElementsOf
    <2>5. DeliveredWhole'
      <3>1. \A n \in DOMAIN delivered : \A g \in ElementsOf(delivered[n].from) : Record(g)' = Record(g)
        BY <1>7 DEF IInv, DeliveredArePast
      <3> QED BY <3>1, <1>18, DeliveredWholeKept DEF IInv
    <2> QED BY <2>1, <2>2, <2>3, <2>4, <2>5, <1>0, <1>11, <1>16, <1>17, <1>18
  <1>19. CASE complete /\ \E d : d.from = list /\ Whole(d) /\ delivered' = Append(delivered, d)
    <2>1. PICK d : d.from = list /\ Whole(d) /\ delivered' = Append(delivered, d)
      BY <1>19
    <2>2. /\ Len(delivered) \in Nat /\ DOMAIN delivered = 1..Len(delivered)
          /\ DOMAIN delivered' = 1..(Len(delivered) + 1)
          /\ \A n \in DOMAIN delivered : delivered'[n] = delivered[n]
          /\ delivered'[Len(delivered) + 1] = d /\ d.from = list
          /\ \E T : delivered' \in Seq(T)
      <3>1. PICK T : delivered \in Seq(T) /\ d \in T
        <4> DEFINE U == ElementsOf(delivered)
        <4>1. delivered \in Seq(U)
          BY DEF IInv, History
        <4> HIDE DEF U
        <4>2. delivered \in Seq(U \cup {d})
          BY <4>1
        <4> QED BY <4>2
      <3> QED BY <3>1, <2>1
    <2>3. \A n \in DOMAIN delivered' : n \in DOMAIN delivered \/ n = Len(delivered) + 1
      BY <2>2
    <2>4. DeliveredArePast'
      <3>1. ASSUME NEW n \in DOMAIN delivered', NEW g \in ElementsOf(delivered'[n].from)
            PROVE  PastThen(g)
        <4>1. CASE n \in DOMAIN delivered
          BY <4>1, <3>1, <2>2, <1>9 DEF IInv, DeliveredArePast
        <4>2. CASE n = Len(delivered) + 1
          BY <4>2, <3>1, <2>2, <1>14
        <4> QED BY <4>1, <4>2, <2>3
      <3> QED BY <3>1, <1>10
    <2>5. DeliveredDoNotWait'
      <3>1. ASSUME NEW j \in DOMAIN pool', NEW g \in ElementsOf(pool'[j].packets),
                   NEW n \in DOMAIN delivered'
            PROVE  g \notin ElementsOf(delivered'[n].from)
        <4>1. CASE n \in DOMAIN delivered
          BY <4>1, <2>2, <1>15
        <4>2. CASE n = Len(delivered) + 1
          <5>1. pool'[j].key # key
            BY <1>11, <1>19
          <5>2. RecordThen(g).key = pool'[j].key
            BY <1>15
          <5> QED BY <4>2, <5>1, <5>2, <2>2, <1>14
        <4> QED BY <4>1, <4>2, <2>3
      <3> QED BY <3>1, <1>10
    <2>6. FragmentUsedOnce'
      <3>1. ASSUME NEW m \in DOMAIN delivered', NEW n \in DOMAIN delivered', m # n,
                   NEW g \in ElementsOf(delivered'[m].from), g \in ElementsOf(delivered'[n].from)
            PROVE  FALSE
        <4>1. CASE m \in DOMAIN delivered /\ n \in DOMAIN delivered
          BY <4>1, <3>1, <2>2 DEF IInv, FragmentUsedOnce
        <4>2. CASE m \in DOMAIN delivered /\ n = Len(delivered) + 1
          BY <4>2, <3>1, <2>2, <1>14
        <4>3. CASE m = Len(delivered) + 1 /\ n \in DOMAIN delivered
          BY <4>3, <3>1, <2>2, <1>14
        <4> QED BY <4>1, <4>2, <4>3, <3>1, <2>3
      <3> QED BY <3>1, <1>10
    <2>8. History'
      <3>1. \A n \in 1..(Len(delivered) + 1) : delivered'[n] \in ElementsOf(delivered)'
        BY <2>2 DEF ElementsOf
      <3>2. delivered' \in Seq(ElementsOf(delivered)')
        <4> DEFINE V == ElementsOf(delivered)'
        <4>1. PICK T : delivered' \in Seq(T)
          BY <2>1, <2>2
        <4>2. Len(delivered') = Len(delivered) + 1
          BY <4>1, <2>2
        <4>3. \A n \in 1..Len(delivered') : delivered'[n] \in V
          BY <3>1, <4>2
        <4> HIDE DEF V
        <4>4. delivered' \in Seq(V)
          BY <4>1, <4>3
        <4> QED BY <4>4 DEF V
      <3> QED BY <3>2 DEF History
    <2>7. \A n \in DOMAIN delivered' : delivered'[n].from \in Seq(Frame)
      BY <2>2, <2>3, <1>0, <1>6
    <2>9. DeliveredWhole'
      <3>1. ASSUME NEW n \in DOMAIN delivered'
            PROVE  Whole(delivered[n])'
        <4>1. PICK e : e = delivered'[n]
          OBVIOUS
        <4>2. Whole(e) /\ \A g \in ElementsOf(e.from) : Record(g)' = Record(g)
          <5>1. CASE n \in DOMAIN delivered
            <6>1. e = delivered[n]
              BY <5>1, <4>1, <2>2
            <6>2. Whole(e) /\ \A g \in ElementsOf(e.from) : Past(g)
              BY <5>1, <6>1 DEF IInv, DeliveredWhole, DeliveredArePast
            <6> QED BY <6>2, <1>7
          <5>2. CASE n = Len(delivered) + 1
            <6>1. e = d
              BY <5>2, <4>1, <2>2
            <6> QED BY <6>1, <2>1 DEF Record
          <5> QED BY <5>1, <5>2, <2>3
        <4>3. Whole(e)'
          BY <4>2, WholeKept
        <4> QED BY <4>1, <4>3 DEF Whole, Overlapping, Extent
      <3> QED BY <3>1 DEF DeliveredWhole
    <2> QED BY <2>4, <2>5, <2>6, <2>7, <2>8, <2>9, <1>11, <1>16, <1>17
  <1> QED BY <1>5, <1>18, <1>19

(* A packet that is no fragment, or the end of the file.                    *)
LEMMA UnreadKeeps ==
    ASSUME IInv, loads' = loads, next # 0, next' = next + 1 \/ next' = 0,
           UNCHANGED <<pool, delivered>>
    PROVE  /\ History' /\ OneEntryPerKey(pool)' /\ WaitingArePast' /\ DeliveredArePast'
           /\ EntriesMatch' /\ DeliveredDoNotWait' /\ PoolHoldsUnfinished' /\ FragmentUsedOnce'
           /\ DeliveredWhole'
  <1>1. \A g : Past(g) => Past(g)' /\ Record(g)' = Record(g)
    BY PastGrows
  <1>2. History' /\ OneEntryPerKey(pool)' /\ DeliveredDoNotWait' /\ FragmentUsedOnce'
    BY UntouchedKeep
  <1>3. WaitingArePast' /\ EntriesMatch' /\ PoolHoldsUnfinished'
    <2>1. ASSUME NEW i \in DOMAIN pool, NEW f \in ElementsOf(pool[i].packets)
          PROVE  Past(f)' /\ Record(f)'.key = pool[i].key /\ Record(f)'.more
      <3>1. Past(f) /\ Record(f).key = pool[i].key /\ Record(f).more
        BY DEF IInv, WaitingArePast, EntriesMatch, PoolHoldsUnfinished
      <3> QED BY <3>1, <1>1
    <2> QED BY <2>1 DEF WaitingArePast, EntriesMatch, PoolHoldsUnfinished, ElementsOf
  <1>4. DeliveredArePast'
    <2>1. ASSUME NEW n \in DOMAIN delivered, NEW f \in ElementsOf(delivered[n].from)
          PROVE  Past(f)'
      BY <1>1 DEF IInv, DeliveredArePast
    <2> QED BY <2>1 DEF DeliveredArePast, ElementsOf
  <1>5. DeliveredWhole'
    <2>1. \A n \in DOMAIN delivered : \A g \in ElementsOf(delivered[n].from) : Record(g)' = Record(g)
      BY <1>1 DEF IInv, DeliveredArePast
    <2> QED BY <2>1, DeliveredWholeKept DEF IInv
  <1> QED BY <1>2, <1>3, <1>4, <1>5

LEMMA NextRecordKeeps ==
    ASSUME IInv, NextRecord
    PROVE  IInv'
  <1>0. /\ next # 0 /\ next <= Len(loads[Len(loads)])
        /\ loads' = loads /\ next' = next + 1
        /\ frames' = Append(frames, <<Len(loads), next>>)
    BY DEF NextRecord
  <1>1. /\ loads \in Seq(Files) /\ Len(loads) \in Nat \ {0} /\ next \in Nat \ {0}
        /\ frames \in Seq(Frame) /\ Len(loads[Len(loads)]) \in Nat
    <2>1. loads # << >> /\ loads \in Seq(Files) /\ next \in Nat /\ frames \in Seq(Frame)
      BY <1>0 DEF IInv, TypeOK
    <2>2. Len(loads) \in 1..Len(loads) /\ loads[Len(loads)] \in Files
      BY <2>1
    <2> QED BY <1>0, <2>1, <2>2, FileAssumption
  <1>2. frames' \in Seq(Frame)
    BY <1>0, <1>1 DEF Frame
  <1>3. /\ loads' # << >> /\ next' \in Nat /\ next' <= Len(loads'[Len(loads')]) + 1
        /\ Len(loads') <= MaxLoads
    BY <1>0, <1>1 DEF IInv, TypeOK
  <1>4. /\ pool' \in Seq(Entry) /\ Len(pool') <= PoolSize
        /\ \A n \in DOMAIN delivered' : delivered'[n].from \in Seq(Frame)
        /\ History' /\ OneEntryPerKey(pool)' /\ WaitingArePast' /\ DeliveredArePast' /\ EntriesMatch'
        /\ DeliveredDoNotWait' /\ PoolHoldsUnfinished' /\ FragmentUsedOnce' /\ DeliveredWhole'
    <2>1. CASE IsFragment(Record(<<Len(loads), next>>))
      <3>1. PICK bytes : Collect(<<Len(loads), next>>, bytes)
        BY <2>1 DEF NextRecord
      <3> QED BY <3>1, <1>0, CollectKeeps
    <2>2. CASE ~IsFragment(Record(<<Len(loads), next>>))
      <3>1. UNCHANGED <<pool, delivered>>
        BY <2>2 DEF NextRecord
      <3>2. \A n \in DOMAIN delivered' : delivered'[n].from \in Seq(Frame)
        BY <3>1 DEF IInv, TypeOK
      <3>3. pool' \in Seq(Entry) /\ Len(pool') <= PoolSize
        BY <3>1 DEF IInv, TypeOK
      <3> QED BY <3>1, <3>2, <3>3, <1>0, UnreadKeeps
    <2> QED BY <2>1, <2>2
  <1> QED BY <1>0, <1>1, <1>2, <1>3, <1>4 DEF IInv, TypeOK

LEMMA CloseKeeps ==
    ASSUME IInv, Close
    PROVE  IInv'
  <1>0. loads' = loads /\ next # 0 /\ next' = 0 /\ UNCHANGED <<frames, pool, delivered>>
    BY DEF Close
  <1>1. TypeOK'
    BY <1>0 DEF IInv, TypeOK
  <1> QED BY <1>0, <1>1, UnreadKeeps DEF IInv

LEMMA OnClearKeeps ==
    ASSUME IInv, OnClear
    PROVE  IInv'
  <1>0. UNCHANGED <<loads, next, pool, delivered>> /\ frames' = << >>
    BY DEF OnClear
  <1>1. TypeOK'
    BY <1>0 DEF IInv, TypeOK
  <1>2. \A g : Past(g)' = Past(g) /\ Record(g)' = Record(g)
    BY <1>0 DEF Past, Record
  <1>3. History' /\ OneEntryPerKey(pool)' /\ DeliveredDoNotWait' /\ FragmentUsedOnce'
    BY <1>0, UntouchedKeep
  <1>4. WaitingArePast' /\ EntriesMatch' /\ PoolHoldsUnfinished' /\ DeliveredArePast'
    BY <1>0, <1>2 DEF IInv, WaitingArePast, EntriesMatch, PoolHoldsUnfinished, DeliveredArePast, ElementsOf
  <1>5. DeliveredWhole'
    BY <1>0, <1>2, DeliveredWholeKept DEF IInv
  <1> QED BY <1>1, <1>3, <1>4, <1>5 DEF IInv

LEMMA Inductive == IInv /\ [Next]_vars => IInv'
  <1> SUFFICES ASSUME IInv, [Next]_vars PROVE IInv'
    OBVIOUS
  <1>1. CASE \E file \in Files : Open(file)
    BY <1>1, OpenKeeps
  <1>2. CASE NextRecord
    BY <1>2, NextRecordKeeps
  <1>3. CASE Close
    BY <1>3, CloseKeeps
  <1>4. CASE OnClear
    BY <1>4, OnClearKeeps
  <1>5. CASE UNCHANGED vars
    <2>1. UNCHANGED <<loads, next, frames, pool, delivered>>
      BY <1>5 DEF vars
    <2>2. TypeOK' /\ History' /\ OneEntryPerKey(pool)' /\ DeliveredDoNotWait' /\ FragmentUsedOnce'
      <3>1. TypeOK'
        BY <2>1 DEF IInv, TypeOK
      <3> QED BY <3>1, <2>1, UntouchedKeep
    <2>3. \A g : Past(g)' = Past(g) /\ Record(g)' = Record(g)
      BY <2>1 DEF Past, Record
    <2>4. WaitingArePast' /\ EntriesMatch' /\ PoolHoldsUnfinished' /\ DeliveredArePast'
      BY <2>1, <2>3 DEF IInv, WaitingArePast, EntriesMatch, PoolHoldsUnfinished, DeliveredArePast, ElementsOf
    <2>5. DeliveredWhole'
      BY <2>1, <2>3, DeliveredWholeKept DEF IInv
    <2> QED BY <2>2, <2>4, <2>5 DEF IInv
  <1> QED BY <1>1, <1>2, <1>3, <1>4, <1>5 DEF Next

LEMMA Invariance == Spec => []IInv
  BY InitIInv, Inductive, PTL DEF Spec

(* The files, frames and pool keep their types, and the pool its limit.     *)
THEOREM ReassemblyTypeCorrect == Spec => []TypeOK
  <1>1. IInv => TypeOK
    BY DEF IInv
  <1> QED BY <1>1, Invariance, PTL

(* A fragment waits only while the last one of its datagram has not come.   *)
THEOREM PoolWaitsForLast == Spec => []PoolHoldsUnfinished
  <1>1. IInv => PoolHoldsUnfinished
    BY DEF IInv
  <1> QED BY <1>1, Invariance, PTL

(* No captured fragment is delivered in two datagrams.                      *)
THEOREM NoFragmentTwice == Spec => []FragmentUsedOnce
  <1>1. IInv => FragmentUsedOnce
    BY DEF IInv
  <1> QED BY <1>1, Invariance, PTL

(* Every datagram delivered while its fragments' packets are there is       *)
(* without holes, unless fragments of it overlap.                           *)
THEOREM DatagramsAreWhole == Spec => []DeliveredWhole
  <1>1. IInv => DeliveredWhole
    BY DEF IInv
  <1> QED BY <1>1, Invariance, PTL

----------------------------------------------------------------------------
(* A datagram captured in order.  While its file is read, its fragments     *)
(* read so far are together in the pool: no identifier of the file gives    *)
(* way before those of earlier files, and the frames are there.             *)
FragmentsRead(key) == {i \in FragmentsIn(loads[Len(loads)], key) : i < next}

FramesHeld == next # 0 => \A i \in 1..(next - 1) : <<Len(loads), i>> \in ElementsOf(frames)

\* What entered the pool since the file was opened is in front of what was there.
NewKeysAhead ==
    next # 0 => \A i, j \in DOMAIN pool :
        i <= j /\ pool[j].key \notin keysBefore => FragmentsRead(pool[i].key) # {}

\* The list holds these records of the file, each once.
Gathered(packets, l, is) ==
    /\ ElementsOf(packets) = {<<l, i>> : i \in is}
    /\ \A a, b \in DOMAIN packets : a # b => packets[a] # packets[b]

Waits(key) ==
    \E p \in DOMAIN pool :
        pool[p].key = key /\ Gathered(pool[p].packets, Len(loads), FragmentsRead(key))
IsDelivered(l, is) ==
    \E n \in DOMAIN delivered : ElementsOf(delivered[n].from) = {<<l, i>> : i \in is}

OnTheWay ==
    next # 0 /\ Cardinality(KeysIn(loads[Len(loads)])) <= PoolSize =>
        \A key \in KeysIn(loads[Len(loads)]) \ keysBefore :
            InOrder(loads[Len(loads)], key) =>
                \/ FragmentsRead(key) = {}
                \/ FragmentsRead(key) # FragmentsIn(loads[Len(loads)], key) /\ Waits(key)
                \/ IsDelivered(Len(loads), FragmentsIn(loads[Len(loads)], key))

OInv == IInv /\ FramesHeld /\ NewKeysAhead /\ OnTheWay

(* A file has finitely many fragments and identifiers.                      *)
LEMMA FileFinite ==
    ASSUME NEW file \in Files, NEW key
    PROVE  /\ Len(file) \in Nat /\ DOMAIN file = 1..Len(file)
           /\ IsFiniteSet(FragmentsIn(file, key)) /\ FragmentsIn(file, key) \subseteq 1..Len(file)
           /\ IsFiniteSet(KeysIn(file))
  <1>1. Len(file) \in Nat /\ DOMAIN file = 1..Len(file)
    BY FileAssumption
  <1>2. IsFiniteSet(1..Len(file))
    <2>1. 1 \in Int /\ Len(file) \in Int
      BY <1>1
    <2> QED BY <2>1, FS_Interval
  <1>3. FragmentsIn(file, key) \subseteq 1..Len(file)
    BY <1>1 DEF FragmentsIn
  <1> DEFINE all == {j \in DOMAIN file : IsFragment(file[j])}
             g == [i \in all |-> file[i].key]
  <1>4. g \in Surjection(all, KeysIn(file))
    BY DEF Surjection, KeysIn
  <1>5. all \subseteq 1..Len(file)
    BY <1>1
  <1> HIDE DEF all, g
  <1>6. IsFiniteSet(all)
    BY <1>2, <1>5, FS_Subset
  <1> QED BY <1>1, <1>2, <1>3, <1>4, <1>6, FS_Subset, FS_Surjection

(* Where a fragment in order ends, and that only the last one says so.      *)
LEMMA InOrderFacts ==
    ASSUME NEW file \in Files, NEW key, InOrder(file, key), NEW n \in FragmentsIn(file, key)
    PROVE  /\ file[n].offset + LengthOf(file[n])
                 = SumOf({j \in FragmentsIn(file, key) : j < n + 1}, Lengths(file, key))
           /\ file[n].offset + LengthOf(file[n]) <= SumOf(FragmentsIn(file, key), Lengths(file, key))
           /\ file[n].more <=> \E j \in FragmentsIn(file, key) : n < j
           /\ SumOf(FragmentsIn(file, key), Lengths(file, key)) \in Nat \ {0}
           /\ HeaderBlocks + SumOf(FragmentsIn(file, key), Lengths(file, key)) <= MaxDatagram
  <1> DEFINE is == FragmentsIn(file, key)
             length == Lengths(file, key)
             total == SumOf(is, length)
             before == {j \in is : j < n}
             upto == {j \in is : j < n + 1}
  <1>1. /\ IsFiniteSet(is) /\ is \subseteq Nat /\ n \in is
        /\ \A i \in is : length[i] \in Nat \ {0} /\ length[i] = LengthOf(file[i])
    <2>1. \A i \in is : Len(file[i].blocks) \in Nat \ {0}
      BY FileAssumption DEF FragmentsIn
    <2>2. IsFiniteSet(is) /\ is \subseteq 1..Len(file)
      BY FileFinite
    <2>3. \A i \in is : length[i] = LengthOf(file[i])
      BY DEF Lengths
    <2> QED BY <2>1, <2>2, <2>3 DEF LengthOf
  <1>2. /\ file[n].offset = SumOf(before, length)
        /\ file[n].more = (file[n].offset + length[n] # total)
        /\ HeaderBlocks + total <= MaxDatagram
    BY DEF InOrder
  <1> HIDE DEF is, length
  <1>3. before \in SUBSET is /\ upto \in SUBSET is /\ n \notin before /\ upto = before \cup {n}
    <2>1. \A j \in is : /\ j \in Int /\ n \in Int
                        /\ j < n + 1 <=> j < n \/ j = n
      BY <1>1
    <2>2. before \in SUBSET is /\ upto \in SUBSET is
      OBVIOUS
    <2>3. n \notin before
      BY <1>1, <2>1
    <2>4. \A j : j \in upto <=> j \in before \/ j = n
      BY <1>1, <2>1
    <2> QED BY <2>2, <2>3, <2>4
  <1>4. IsFiniteSet(before) /\ IsFiniteSet(upto)
    BY <1>1, <1>3, FS_Subset
  <1>5. SumOf(upto, length) = SumOf(before, length) + length[n]
    <2>1. \A j \in before \cup {n} : length[j] \in Nat
      BY <1>1, <1>3
    <2> HIDE DEF before, upto
    <2>2. SumOf(before \cup {n}, length) = SumOf(before, length) + length[n]
      BY <1>3, <1>4, <2>1, SumAdd
    <2> QED BY <2>2, <1>3
  <1>6. /\ SumOf(upto, length) \in Nat /\ total \in Nat /\ SumOf(upto, length) <= total
        /\ \A i \in is \ upto : SumOf(upto, length) + length[i] <= total
    <2>1. \A i \in is : length[i] \in Nat
      BY <1>1
    <2> HIDE DEF upto
    <2> QED BY <1>1, <1>3, <2>1, SumPart
  <1>7. SumOf(before, length) \in Nat
    <2>1. \A i \in before : length[i] \in Nat
      BY <1>1, <1>3
    <2> HIDE DEF before
    <2> QED BY <1>4, <2>1, SumType
  <1> HIDE DEF before, total
  <1>8. total # 0
    BY <1>1, <1>5, <1>6, <1>7
  <1>9. (SumOf(upto, length) # total) <=> \E j \in is : n < j
    <2>1. CASE \E j \in is : n < j
      <3>1. PICK j \in is : n < j
        BY <2>1
      <3>2. j \in is \ upto
        BY <3>1, <1>1
      <3>3. SumOf(upto, length) + length[j] <= total /\ length[j] \in Nat \ {0}
        BY <3>2, <1>1, <1>6
      <3>4. SumOf(upto, length) # total
        BY <3>3, <1>6
      <3> QED BY <3>4, <2>1
    <2>2. CASE ~\E j \in is : n < j
      <3>0. \A j \in is : j < n + 1
        <4>1. \A j \in is : j \in Int /\ n \in Int /\ ~(n < j)
          BY <2>2, <1>1
        <4> QED BY <4>1
      <3>1. upto = is
        BY <3>0
      <3>2. SumOf(upto, length) = total
        BY <3>1 DEF total
      <3> QED BY <2>2, <3>2
    <2> QED BY <2>1, <2>2
  <1>10. file[n].offset + LengthOf(file[n]) = SumOf(upto, length)
    BY <1>1, <1>2, <1>5
  <1>11. file[n].more <=> \E j \in is : n < j
    <2>1. file[n].more = (SumOf(upto, length) # total)
      BY <1>2, <1>5
    <2> QED BY <2>1, <1>9
  <1> QED BY <1>2, <1>6, <1>8, <1>10, <1>11 DEF is, length, total

(* The pool after a fragment keeps the other entries, in their order and    *)
(* behind the fragment's; the last entry of a full pool may give way to an  *)
(* identifier that was not in it.                                           *)
LEMMA PoolAfterOrder ==
    ASSUME IInv, NEW key \in Keys, NEW list \in Seq(Frame), NEW complete \in BOOLEAN, NEW valid,
           NEW after, after = PoolAfter(key, list, complete, valid)
    PROVE  /\ \E h \in [DOMAIN after -> Nat] :
                /\ \A j \in DOMAIN after : IF h[j] = 0 THEN after[j].key = key
                                           ELSE h[j] \in DOMAIN pool /\ after[j] = pool[h[j]]
                /\ \A i, j \in DOMAIN after : i <= j => h[i] <= h[j]
           /\ ~complete => \E j \in DOMAIN after : after[j] = [key |-> key, packets |-> list]
           /\ \A p \in DOMAIN pool : pool[p].key # key =>
                \/ \E j \in DOMAIN after : after[j] = pool[p]
                \/ p = Len(pool) /\ Len(pool) = PoolSize /\ key \notin KeysOf(pool)
  <1> DEFINE entry == [key |-> key, packets |-> list]
             added == AddBounded(pool, entry, PoolSize)
             w == WithoutKey(added, key)
  <1>1. entry \in Entry /\ entry.key = key
    BY DEF Entry
  <1> HIDE DEF entry
  <1>2. /\ pool \in Seq(Entry) /\ OneEntryPerKey(pool) /\ PoolSize \in Nat \ {0}
        /\ Len(pool) <= PoolSize /\ Len(pool) \in Nat /\ DOMAIN pool = 1..Len(pool)
    BY SizeAssumption DEF IInv, TypeOK
  <1>3. added \in Seq(Entry) /\ OneEntryPerKey(added)
    BY <1>1, <1>2, AddBoundedFacts
  <1>4. /\ 1 \in DOMAIN added /\ added[1] = entry
        /\ \E h \in [2..Len(added) -> DOMAIN pool] :
             /\ \A j \in 2..Len(added) : added[j] = pool[h[j]]
             /\ \A i, j \in 2..Len(added) : i <= j => h[i] <= h[j]
        /\ \A p \in DOMAIN pool : pool[p].key # key =>
             \/ \E j \in DOMAIN added : added[j] = pool[p]
             \/ p = PoolSize /\ Len(pool) = PoolSize /\ key \notin KeysOf(pool)
    <2>1. entry \in Entry
      BY <1>1
    <2>2. pool \in Seq(Entry)
      BY <1>2
    <2>3. PoolSize \in Nat \ {0}
      BY <1>2
    <2>4. OneEntryPerKey(pool)
      BY <1>2
    <2>5. Len(pool) <= PoolSize
      BY <1>2
    <2>6. AddedInOrder(added, pool, entry, PoolSize)
      BY <2>1, <2>2, <2>3, <2>4, <2>5, AddBoundedOrder
    <2> QED BY <2>6, <1>1 DEF AddedInOrder
  <1> HIDE DEF added
  <1>5. PICK a \in [2..Len(added) -> DOMAIN pool] :
             /\ \A j \in 2..Len(added) : added[j] = pool[a[j]]
             /\ \A i, j \in 2..Len(added) : i <= j => a[i] <= a[j]
    BY <1>4
  <1>6. Len(added) \in Nat /\ DOMAIN added = 1..Len(added)
    BY <1>3
  <1> DEFINE b == [j \in DOMAIN added |-> IF j = 1 THEN 0 ELSE a[j]]
  <1>7. /\ b \in [DOMAIN added -> Nat]
        /\ \A j \in DOMAIN added : IF b[j] = 0 THEN added[j].key = key
                                   ELSE b[j] \in DOMAIN pool /\ added[j] = pool[b[j]]
        /\ \A i, j \in DOMAIN added : i <= j => b[i] <= b[j]
    <2>1. \A j \in DOMAIN added : j = 1 \/ j \in 2..Len(added)
      BY <1>6
    <2>0. \A j \in 2..Len(added) : j # 1 /\ j \in DOMAIN added
      BY <1>6
    <2>6. /\ \A j \in 2..Len(added) : b[j] = a[j]
          /\ b[1] = 0
      BY <2>0, <1>4
    <2>7. \A j \in 2..Len(added) : a[j] \in 1..Len(pool)
      BY <1>2, <1>5
    <2>2. /\ \A j \in 2..Len(added) : j # 1 /\ j \in DOMAIN added /\ b[j] = a[j]
                                     /\ a[j] \in 1..Len(pool) /\ a[j] # 0
          /\ b[1] = 0
      BY <2>0, <2>6, <2>7, <1>2
    <2> HIDE DEF b
    <2>3. \A j \in DOMAIN added : b[j] \in Nat
      BY <2>1, <2>2
    <2>4. \A j \in DOMAIN added : IF b[j] = 0 THEN added[j].key = key
                                   ELSE b[j] \in DOMAIN pool /\ added[j] = pool[b[j]]
      <3>1. ASSUME NEW j \in 2..Len(added)
            PROVE  b[j] # 0 /\ b[j] \in DOMAIN pool /\ added[j] = pool[b[j]]
        BY <2>2, <1>2, <1>5
      <3>2. b[1] = 0 /\ added[1].key = key
        BY <2>2, <1>1, <1>4
      <3> QED BY <2>1, <3>1, <3>2
    <2>5. ASSUME NEW i \in DOMAIN added, NEW j \in DOMAIN added, i <= j
          PROVE  b[i] <= b[j]
      <3>1. CASE i = 1
        BY <3>1, <2>2, <2>3
      <3>2. CASE i # 1
        <4>1. i \in 2..Len(added) /\ j \in 2..Len(added)
          BY <3>2, <2>1, <2>5, <1>6
        <4> QED BY <4>1, <2>2, <2>5, <1>5
      <3> QED BY <3>1, <3>2
    <2> QED BY <2>3, <2>4, <2>5 DEF b
  <1>8. \A p \in DOMAIN pool : pool[p].key # key =>
             \/ \E j \in DOMAIN added : added[j] = pool[p]
             \/ p = Len(pool) /\ Len(pool) = PoolSize /\ key \notin KeysOf(pool)
    BY <1>4
  <1>9. after = IF complete THEN w ELSE added
    BY DEF PoolAfter, w, added, entry
  <1>10. CASE ~complete
    <2>1. after = added
      BY <1>9, <1>10
    <2>2. \E h \in [DOMAIN added -> Nat] :
              /\ \A j \in DOMAIN added : IF h[j] = 0 THEN added[j].key = key
                                   ELSE h[j] \in DOMAIN pool /\ added[j] = pool[h[j]]
              /\ \A i, j \in DOMAIN added : i <= j => h[i] <= h[j]
      <3> HIDE DEF b
      <3> QED BY <1>7
    <2>3. \E j \in DOMAIN added : added[j] = [key |-> key, packets |-> list]
      BY <1>4 DEF entry
    <2> QED BY <2>1, <2>2, <2>3, <1>8
  <1>11. CASE complete
    <2>1. after = w
      BY <1>9, <1>11
    <2>2. PICK c \in [DOMAIN w -> DOMAIN added] :
             /\ \A j \in DOMAIN w : w[j] = added[c[j]] /\ added[c[j]].key # key
             /\ \A i, j \in DOMAIN w : i <= j => c[i] <= c[j]
             /\ \A p \in DOMAIN added : added[p].key # key => \E j \in DOMAIN w : c[j] = p
      BY <1>3, WithoutKeyOrder
    <2> HIDE DEF w, b
    <2> DEFINE h == [j \in DOMAIN w |-> b[c[j]]]
    <2>3. /\ h \in [DOMAIN w -> Nat]
          /\ \A j \in DOMAIN w : h[j] = b[c[j]]
      BY <2>2, <1>7
    <2> HIDE DEF h
    <2>4. \A j \in DOMAIN w : IF h[j] = 0 THEN w[j].key = key
                              ELSE h[j] \in DOMAIN pool /\ w[j] = pool[h[j]]
      BY <2>2, <2>3, <1>7
    <2>5. \A i, j \in DOMAIN w : i <= j => h[i] <= h[j]
      BY <2>2, <2>3, <1>7
    <2>6. ASSUME NEW p \in DOMAIN pool, pool[p].key # key, NEW j \in DOMAIN added, added[j] = pool[p]
          PROVE  \E i \in DOMAIN w : w[i] = pool[p]
      BY <2>2, <2>6
    <2>7. \E g \in [DOMAIN w -> Nat] :
              /\ \A j \in DOMAIN w : IF g[j] = 0 THEN w[j].key = key
                                   ELSE g[j] \in DOMAIN pool /\ w[j] = pool[g[j]]
              /\ \A i, j \in DOMAIN w : i <= j => g[i] <= g[j]
      BY <2>3, <2>4, <2>5
    <2>8. \A p \in DOMAIN pool : pool[p].key # key =>
             \/ \E j \in DOMAIN w : w[j] = pool[p]
             \/ p = Len(pool) /\ Len(pool) = PoolSize /\ key \notin KeysOf(pool)
      BY <2>6, <1>8
    <2> QED BY <2>1, <2>7, <2>8, <1>11
  <1> QED BY <1>10, <1>11

(* An identifier of the file being read never gives way to another of it.   *)
LEMMA NoneGivesWay ==
    ASSUME OInv, next # 0, next <= Len(loads[Len(loads)]),
           Cardinality(KeysIn(loads[Len(loads)])) <= PoolSize,
           NEW key \in KeysIn(loads[Len(loads)]), key \notin KeysOf(pool),
           NEW p \in DOMAIN pool, pool[p].key \notin keysBefore,
           p = Len(pool), Len(pool) = PoolSize
    PROVE  FALSE
  <1> DEFINE file == loads[Len(loads)]
             others == KeysIn(file) \ {key}
             g == [i \in 1..PoolSize |-> pool[i].key]
  <1>1. file \in Files /\ PoolSize \in Nat \ {0} /\ DOMAIN pool = 1..PoolSize
    <2>1. loads # << >> /\ loads \in Seq(Files) /\ pool \in Seq(Entry)
      BY DEF OInv, IInv, TypeOK
    <2> QED BY <2>1, SizeAssumption
  <1>2. IsFiniteSet(KeysIn(file))
    <2> HIDE DEF file
    <2> QED BY <1>1, FileFinite
  <1>3. \A i \in 1..PoolSize : pool[i].key \in others
    <2>1. ASSUME NEW i \in 1..PoolSize PROVE pool[i].key \in KeysIn(file)
      <3>1. FragmentsRead(pool[i].key) # {}
        BY <1>1 DEF OInv, NewKeysAhead
      <3>2. PICK r \in FragmentsIn(file, pool[i].key) : TRUE
        BY <3>1 DEF FragmentsRead
      <3> QED BY <3>2 DEF FragmentsIn, KeysIn
    <2>2. \A i \in 1..PoolSize : pool[i].key # key
      BY <1>1 DEF KeysOf
    <2> QED BY <2>1, <2>2
  <1> HIDE DEF file
  <1>4. g \in Injection(1..PoolSize, others)
    <2>1. g \in [1..PoolSize -> others]
      BY <1>3
    <2>2. \A i, j \in 1..PoolSize : g[i] = g[j] => i = j
      BY <1>1 DEF OInv, IInv, OneEntryPerKey
    <2> QED BY <2>1, <2>2 DEF Injection, IsInjective
  <1>5. IsFiniteSet(others) /\ Cardinality(others) = Cardinality(KeysIn(file)) - 1
    BY <1>2, FS_RemoveElement DEF file
  <1>6. Cardinality(1..PoolSize) <= Cardinality(others)
    <2> HIDE DEF others, g
    <2> QED BY <1>4, <1>5, FS_Injection
  <1>7. Cardinality(1..PoolSize) = PoolSize
    <2>1. 1 \in Int /\ PoolSize \in Int /\ ~(1 > PoolSize)
      BY <1>1
    <2>2. Cardinality(1..PoolSize) = IF 1 > PoolSize THEN 0 ELSE PoolSize - 1 + 1
      BY <2>1, FS_Interval
    <2> QED BY <2>1, <2>2
  <1>8. Cardinality(KeysIn(file)) \in Nat
    BY <1>2, FS_CardinalityType
  <1> QED BY <1>1, <1>5, <1>6, <1>7, <1>8 DEF file

(* The payload of gathered fragments.                                       *)
LEMMA GatheredPayload ==
    ASSUME NEW file \in Files, NEW key, NEW l, NEW is \in SUBSET FragmentsIn(file, key),
           NEW list \in Seq(Frame), Gathered(list, l, is), NEW fields,
           \A i \in is : fields[<<l, i>>].length = LengthOf(file[i])
    PROVE  PayloadOf(list, fields) = SumOf(is, Lengths(file, key))
  <1> DEFINE D == DOMAIN list
             f == Lengths(file, key)
             g == [i \in D |-> fields[list[i]].length]
             h == [r \in is |-> CHOOSE i \in D : list[i] = <<l, r>>]
  <1>1. IsFiniteSet(is) /\ \A r \in is : f[r] \in Nat /\ f[r] = LengthOf(file[r])
    <2>1. IsFiniteSet(FragmentsIn(file, key))
      BY FileFinite
    <2>2. \A r \in is : f[r] = LengthOf(file[r])
      BY DEF Lengths
    <2>3. \A r \in FragmentsIn(file, key) : Len(file[r].blocks) \in Nat
      BY FileAssumption DEF FragmentsIn
    <2> QED BY <2>1, <2>2, <2>3, FS_Subset DEF LengthOf
  <1>2. \A r \in is : h[r] \in D /\ list[h[r]] = <<l, r>>
    <2>1. ASSUME NEW r \in is PROVE \E i \in D : list[i] = <<l, r>>
      <3>1. <<l, r>> \in ElementsOf(list)
        BY DEF Gathered
      <3> QED BY <3>1 DEF ElementsOf
    <2> QED BY <2>1
  <1> HIDE DEF h
  <1>3. h \in [is -> D]
    <2>1. h \in [is -> D] <=> \A r \in is : h[r] \in D
      BY DEF h
    <2> QED BY <2>1, <1>2
  <1>4. ASSUME NEW i \in D PROVE \E r \in is : h[r] = i
    <2>1. list[i] \in {<<l, r>> : r \in is}
      BY DEF Gathered, ElementsOf
    <2>2. PICK r \in is : list[i] = <<l, r>>
      BY <2>1
    <2>3. list[h[r]] = list[i] /\ h[r] \in D
      BY <2>2, <1>2
    <2> QED BY <2>3 DEF Gathered
  <1>5. \A r, t \in is : h[r] = h[t] => r = t
    <2>1. ASSUME NEW r \in is, NEW t \in is, h[r] = h[t] PROVE r = t
      <3>1. <<l, r>> = <<l, t>>
        BY <2>1, <1>2
      <3> QED BY <3>1
    <2> QED BY <2>1
  <1>6. h \in Bijection(is, D)
    BY <1>3, <1>4, <1>5 DEF Bijection, Injection, Surjection, IsInjective
  <1>7. \A r \in is : f[r] \in Nat /\ g[h[r]] = f[r]
    <2>1. ASSUME NEW r \in is PROVE g[h[r]] = f[r]
      <3>1. g[h[r]] = fields[list[h[r]]].length
        BY <1>2
      <3> QED BY <3>1, <1>1, <1>2
    <2> QED BY <2>1, <1>1
  <1> HIDE DEF D, f, g
  <1>8. SumOf(D, g) = SumOf(is, f)
    BY <1>1, <1>6, <1>7, SumRenamed
  <1> QED BY <1>8 DEF PayloadOf, D, f, g

(* What Collect does when no packet of the list was deleted.                *)
LEMMA CollectAlive ==
    ASSUME NEW f, NEW bytes, Collect(f, bytes),
           NEW list, list = Collected(Record(f).key, f),
           \A g \in ElementsOf(list) : Alive(g, f),
           NEW fields, fields = [g \in ElementsOf(list) |-> FieldsOf(g)]
    PROVE  \E valid \in BOOLEAN :
             /\ valid <=> /\ HeaderBlocks + PayloadOf(list, fields) <= MaxDatagram
                         /\ Valid(list, fields, PayloadOf(list, fields))
             /\ pool' = PoolAfter(Record(f).key, list, HasLast(list, fields), valid)
             /\ IF HasLast(list, fields) /\ valid /\ PayloadOf(list, fields) > 0
                THEN \E d : d.from = list /\ delivered' = Append(delivered, d)
                ELSE delivered' = delivered
  <1> DEFINE dead == {g \in ElementsOf(list) : ~Alive(g, f)}
             payload == PayloadOf(list, fields)
             complete == HasLast(list, fields)
             valid == HeaderBlocks + payload <= MaxDatagram /\ Valid(list, fields, payload)
             d == [key |-> Record(f).key, from |-> list, intact |-> dead = {},
                   blocks |-> Reassembled(list, fields, payload, f, bytes)]
  <1>1. PICK wild \in [dead -> Wild] :
          LET fs == [g \in ElementsOf(list) |-> IF g \in dead THEN wild[g] ELSE FieldsOf(g)]
              p == PayloadOf(list, fs)
              c == HasLast(list, fs)
              v == /\ HeaderBlocks + p <= MaxDatagram
                   /\ Valid(list, fs, p)
          IN  /\ pool' = PoolAfter(Record(f).key, list, c, v)
              /\ delivered' =
                    IF c /\ v /\ p > 0
                    THEN Append(delivered,
                           [key |-> Record(f).key, from |-> list, intact |-> dead = {},
                            blocks |-> Reassembled(list, fs, p, f, bytes)])
                    ELSE delivered
    BY DEF Collect, Record
  <1>2. [g \in ElementsOf(list) |-> IF g \in dead THEN wild[g] ELSE FieldsOf(g)] = fields
    OBVIOUS
  <1>3. /\ pool' = PoolAfter(Record(f).key, list, complete, valid)
        /\ delivered' = IF complete /\ valid /\ payload > 0 THEN Append(delivered, d) ELSE delivered
    BY <1>1, <1>2
  <1>4. d.from = list
    OBVIOUS
  <1>5. valid \in BOOLEAN
    BY DEF Valid
  <1> HIDE DEF d
  <1>6. IF complete /\ valid /\ payload > 0
        THEN \E e : e.from = list /\ delivered' = Append(delivered, e)
        ELSE delivered' = delivered
    BY <1>3, <1>4
  <1> QED BY <1>3, <1>5, <1>6

(* A fragment in order joins those read before it.                          *)
LEMMA JoinsGathered ==
    ASSUME OInv, next # 0, next <= Len(loads[Len(loads)]),
           NEW file, file = loads[Len(loads)], NEW l, l = Len(loads),
           NEW key \in KeysIn(file), key \notin keysBefore, InOrder(file, key),
           next \in FragmentsIn(file, key), Cardinality(KeysIn(file)) <= PoolSize,
           NEW list, list = Collected(key, <<l, next>>)
    PROVE  Gathered(list, l, FragmentsRead(key) \cup {next})
  <1> DEFINE old == IF key \in KeysOf(pool) THEN pool[Position(pool, key)].packets ELSE << >>
             f == <<l, next>>
  <1>1. next \notin FragmentsRead(key) /\ next \in Nat
    <2>1. next \in Nat
      BY DEF OInv, IInv, TypeOK
    <2> QED BY <2>1 DEF FragmentsRead
  <1>2. /\ \A i \in DOMAIN pool : pool[i] \in Entry /\ pool[i].packets \in Seq(Frame)
        /\ OneEntryPerKey(pool)
    <2>1. pool \in Seq(Entry) /\ OneEntryPerKey(pool)
      BY DEF OInv, IInv, TypeOK
    <2>2. \A i \in DOMAIN pool : pool[i] \in Entry
      BY <2>1
    <2>3. \A e \in Entry : e.packets \in Seq(Frame)
      BY DEF Entry
    <2> QED BY <2>1, <2>2, <2>3
  <1>3. old \in Seq(Frame) /\ Gathered(old, l, FragmentsRead(key))
    <2>1. CASE FragmentsRead(key) = {}
      <3>1. key \notin KeysOf(pool)
        <4> SUFFICES ASSUME NEW i \in DOMAIN pool, pool[i].key = key PROVE FALSE
          BY DEF KeysOf
        <4>0. pool \in Seq(Entry)
          BY DEF OInv, IInv, TypeOK
        <4>1. i <= i
          BY <4>0
        <4> QED BY <2>1, <4>1 DEF OInv, NewKeysAhead
      <3>2. old = << >>
        BY <3>1
      <3>3. Gathered(<< >>, l, {})
        BY DEF Gathered, ElementsOf
      <3>4. << >> \in Seq(Frame)
        OBVIOUS
      <3> HIDE DEF old
      <3> QED BY <2>1, <3>2, <3>3, <3>4
    <2>2. CASE FragmentsRead(key) # {}
      <3>1. Waits(key)
        <4>1. next \in FragmentsIn(file, key) \ FragmentsRead(key)
          BY <1>1
        <4>2. ~IsDelivered(l, FragmentsIn(file, key))
          <5> SUFFICES ASSUME NEW n \in DOMAIN delivered,
                              ElementsOf(delivered[n].from) = {<<l, i>> : i \in FragmentsIn(file, key)}
                       PROVE  FALSE
            BY DEF IsDelivered
          <5>1. f \in ElementsOf(delivered[n].from)
            OBVIOUS
          <5>2. Past(f)
            BY <5>1 DEF OInv, IInv, DeliveredArePast
          <5> QED BY <5>2, <1>1 DEF Past
        <4> QED BY <2>2, <4>1, <4>2 DEF OInv, OnTheWay
      <3>2. PICK p \in DOMAIN pool :
               pool[p].key = key /\ Gathered(pool[p].packets, l, FragmentsRead(key))
        BY <3>1 DEF Waits
      <3>3. key \in KeysOf(pool) /\ Position(pool, key) \in DOMAIN pool
            /\ pool[Position(pool, key)].key = key
        BY <3>2 DEF KeysOf, Position
      <3>4. Position(pool, key) = p
        BY <3>2, <3>3, <1>2 DEF OneEntryPerKey
      <3>5. old = pool[p].packets
        BY <3>3, <3>4
      <3> HIDE DEF old
      <3> QED BY <3>2, <3>5, <1>2
    <2> QED BY <2>1, <2>2
  <1>4. list = Append(old, f)
    BY DEF Collected
  <1> HIDE DEF old
  <1>5. /\ Len(old) \in Nat /\ DOMAIN old = 1..Len(old) /\ DOMAIN list = 1..(Len(old) + 1)
        /\ \A i \in 1..Len(old) : list[i] = old[i]
        /\ list[Len(old) + 1] = f
    <2>1. f \in Frame
      <3>1. loads # << >> /\ loads \in Seq(Files)
        BY DEF OInv, IInv, TypeOK
      <3>2. Len(loads) \in Nat \ {0}
        BY <3>1
      <3> QED BY <3>2, <1>1 DEF Frame
    <2>2. old \in Seq(Frame)
      BY <1>3
    <2> HIDE DEF f
    <2>3. /\ Append(old, f) \in Seq(Frame)
          /\ Len(old) \in Nat /\ Len(Append(old, f)) = Len(old) + 1
          /\ \A i \in 1..Len(old) : old[i] \in Frame /\ Append(old, f)[i] = old[i]
          /\ Append(old, f)[Len(old) + 1] = f
      BY ONLY <2>1, <2>2, AppendFacts
    <2>4. DOMAIN old = 1..Len(old) /\ DOMAIN Append(old, f) = 1..Len(Append(old, f))
      BY <2>2, <2>3
    <2> QED BY <2>3, <2>4, <1>4
  <1>6. f \notin ElementsOf(old)
    <2> SUFFICES ASSUME f \in ElementsOf(old) PROVE FALSE
      OBVIOUS
    <2>1. PICK i \in FragmentsRead(key) : f = <<l, i>>
      BY <1>3 DEF Gathered
    <2> QED BY <2>1, <1>1
  <1>7. \A i \in DOMAIN list : i \in DOMAIN old \/ i = Len(old) + 1
    BY <1>5
  <1>8. \A i \in DOMAIN old : i \in DOMAIN list /\ list[i] = old[i] /\ old[i] \in ElementsOf(old)
    BY <1>5 DEF ElementsOf
  <1>9. ElementsOf(list) = {<<l, i>> : i \in FragmentsRead(key) \cup {next}}
    <2>1. ElementsOf(list) = ElementsOf(old) \cup {f}
      <3>1. ASSUME NEW g \in ElementsOf(list) PROVE g \in ElementsOf(old) \cup {f}
        <4>1. PICK i \in DOMAIN list : list[i] = g
          BY DEF ElementsOf
        <4> QED BY <4>1, <1>5, <1>7, <1>8
      <3>2. ASSUME NEW g \in ElementsOf(old) PROVE g \in ElementsOf(list)
        <4>1. PICK i \in DOMAIN old : old[i] = g
          BY DEF ElementsOf
        <4> QED BY <4>1, <1>8 DEF ElementsOf
      <3>3. f \in ElementsOf(list)
        BY <1>5 DEF ElementsOf
      <3> QED BY <3>1, <3>2, <3>3
    <2>2. ElementsOf(old) = {<<l, i>> : i \in FragmentsRead(key)}
      BY <1>3 DEF Gathered
    <2> QED BY <2>1, <2>2
  <1>10. ASSUME NEW a \in DOMAIN list, NEW b \in DOMAIN list, a # b PROVE list[a] # list[b]
    <2>1. CASE a \in DOMAIN old /\ b \in DOMAIN old
      BY <2>1, <1>3, <1>8, <1>10 DEF Gathered
    <2>2. CASE a \in DOMAIN old /\ b = Len(old) + 1
      BY <2>2, <1>5, <1>6, <1>8
    <2>3. CASE a = Len(old) + 1 /\ b \in DOMAIN old
      BY <2>3, <1>5, <1>6, <1>8
    <2> QED BY <2>1, <2>2, <2>3, <1>7, <1>10
  <1> QED BY <1>9, <1>10 DEF Gathered

(* The fragment that was just read is the next of a datagram in order: the  *)
(* datagram waits on, or is delivered when this was the last.               *)
GoesOn(file, l, key, is) ==
    \/ /\ is # FragmentsIn(file, key)
       /\ \E p \in DOMAIN pool' : pool'[p].key = key /\ Gathered(pool'[p].packets, l, is)
    \/ \E n \in DOMAIN delivered' :
          ElementsOf(delivered'[n].from) = {<<l, i>> : i \in FragmentsIn(file, key)}

LEMMA InOrderStep ==
    ASSUME OInv, next # 0, next <= Len(loads[Len(loads)]),
           NEW file, file = loads[Len(loads)], NEW l, l = Len(loads),
           NEW key \in KeysIn(file), key \notin keysBefore, InOrder(file, key),
           next \in FragmentsIn(file, key), Cardinality(KeysIn(file)) <= PoolSize,
           NEW bytes, Collect(<<l, next>>, bytes),
           NEW is, is = FragmentsRead(key) \cup {next}
    PROVE  GoesOn(file, l, key, is)
  <1>f. PICK f : f = <<l, next>>
    OBVIOUS
  <1>1. PICK list : list = Collected(key, f)
    OBVIOUS
  <1>2. PICK fields : fields = [g \in ElementsOf(list) |-> FieldsOf(g)]
    OBVIOUS
  <1>3. /\ loads \in Seq(Files) /\ l \in Nat \ {0} /\ file \in Files /\ next \in Nat \ {0}
        /\ frames \in Seq(Frame) /\ \E S : delivered \in Seq(S)
    <2>1. loads # << >> /\ loads \in Seq(Files) /\ next \in Nat /\ frames \in Seq(Frame)
      BY DEF OInv, IInv, TypeOK
    <2>2. \E S : delivered \in Seq(S)
      BY DEF OInv, IInv, History
    <2> QED BY <2>1, <2>2
  <1>4. Gathered(list, l, is)
    BY <1>f, <1>1, JoinsGathered
  <1>5. /\ Record(f) = file[next] /\ Record(f).key = key
        /\ \A i : Record(<<l, i>>) = file[i]
    BY <1>f DEF Record, FragmentsIn
  <1>6. is \subseteq FragmentsIn(file, key) /\ next \in is /\ \A i \in is : i \in Nat /\ i <= next
    <2>1. FragmentsIn(file, key) \subseteq 1..Len(file)
      BY <1>3, FileFinite
    <2> QED BY <2>1, <1>3 DEF FragmentsRead
  <1>7. \A g \in ElementsOf(list) : \E i \in is : g = <<l, i>>
    BY <1>4 DEF Gathered
  <1>8. list \in Seq(Frame)
    <2>1. f \in Frame
      BY <1>f, <1>3 DEF Frame
    <2> QED BY <2>1, <1>1, CollectedFacts DEF OInv
  <1>9. ASSUME NEW g \in ElementsOf(list) PROVE Alive(g, f)
    <2>1. PICK i \in is : g = <<l, i>>
      BY <1>7
    <2>2. CASE i = next
      BY <2>1, <2>2, <1>f DEF Alive
    <2>3. CASE i # next
      <3>1. i \in FragmentsRead(key)
        BY <2>3
      <3>2. i \in 1..(next - 1)
        <4>1. i \in FragmentsIn(file, key) /\ i < next
          BY <3>1 DEF FragmentsRead
        <4>2. i \in 1..Len(file) /\ Len(file) \in Nat
          BY <4>1, <1>3, FileFinite
        <4> QED BY <4>1, <4>2, <1>3
      <3> QED BY <2>1, <3>2 DEF OInv, FramesHeld, Alive
    <2> QED BY <2>2, <2>3
  <1>10. \A i \in is : /\ fields[<<l, i>>].length = LengthOf(file[i])
                       /\ fields[<<l, i>>].offset = file[i].offset
                       /\ fields[<<l, i>>].more = file[i].more
    <2>1. ASSUME NEW i \in is PROVE fields[<<l, i>>] = FieldsOf(<<l, i>>)
      <3>1. <<l, i>> \in ElementsOf(list)
        BY <1>4 DEF Gathered
      <3> QED BY <3>1, <1>2
    <2>2. \A i : /\ FieldsOf(<<l, i>>).length = LengthOf(file[i])
                 /\ FieldsOf(<<l, i>>).offset = file[i].offset
                 /\ FieldsOf(<<l, i>>).more = file[i].more
      BY <1>5 DEF FieldsOf
    <2> QED BY <2>1, <2>2
  <1> DEFINE all == FragmentsIn(file, key)
             total == SumOf(all, Lengths(file, key))
             payload == PayloadOf(list, fields)
             complete == HasLast(list, fields)
  <1>11. payload = SumOf(is, Lengths(file, key))
    <2>1. file \in Files /\ is \in SUBSET FragmentsIn(file, key) /\ list \in Seq(Frame)
      BY <1>3, <1>6, <1>8
    <2>2. \A i \in is : fields[<<l, i>>].length = LengthOf(file[i])
      BY <1>10
    <2> QED BY <2>1, <2>2, <1>4, GatheredPayload
  <1>12. PICK valid \in BOOLEAN :
             /\ valid <=> HeaderBlocks + payload <= MaxDatagram /\ Valid(list, fields, payload)
             /\ pool' = PoolAfter(key, list, complete, valid)
             /\ IF complete /\ valid /\ payload > 0
                THEN \E d : d.from = list /\ delivered' = Append(delivered, d)
                ELSE delivered' = delivered
    <2>1. Collect(f, bytes) /\ list = Collected(Record(f).key, f)
      BY <1>f, <1>1, <1>5
    <2> QED BY <2>1, <1>2, <1>5, <1>9, CollectAlive
  <1>13. complete <=> \E i \in is : ~file[i].more
    <2>1. ASSUME NEW a \in DOMAIN list, ~fields[list[a]].more PROVE \E i \in is : ~file[i].more
      <3>1. list[a] \in ElementsOf(list)
        BY DEF ElementsOf
      <3> QED BY <2>1, <3>1, <1>7, <1>10
    <2>2. ASSUME NEW i \in is, ~file[i].more PROVE \E a \in DOMAIN list : ~fields[list[a]].more
      <3>1. <<l, i>> \in ElementsOf(list)
        BY <1>4 DEF Gathered
      <3>2. PICK a \in DOMAIN list : list[a] = <<l, i>>
        BY <3>1 DEF ElementsOf
      <3> QED BY <2>2, <3>2, <1>10
    <2> QED BY <2>1, <2>2 DEF HasLast
  <1>14. \A i \in all : /\ file[i].more <=> \E j \in all : i < j
                        /\ file[i].offset + LengthOf(file[i]) <= total
                        /\ total \in Nat \ {0} /\ HeaderBlocks + total <= MaxDatagram
    BY <1>3, InOrderFacts
  <1>15. \A i \in all : i \in Nat /\ (i \notin is => next < i)
    <2>1. all \subseteq 1..Len(file)
      BY <1>3, FileFinite
    <2> QED BY <2>1, <1>3 DEF FragmentsRead
  <1> HIDE DEF all, total, payload, complete
  <1>16. CASE is # all
    <2>1. PICK j \in all : j \notin is /\ next < j
      BY <1>6, <1>15, <1>16 DEF all
    <2>2. \A i \in is : file[i].more
      <3>1. \A i \in is : i \in all /\ i \in Nat /\ i <= next
        BY <1>6 DEF all
      <3>2. \A i \in is : i < j
        BY <2>1, <3>1, <1>3, <1>15
      <3> QED BY <2>1, <3>1, <3>2, <1>14
    <2>3. complete = FALSE
      BY <2>2, <1>13 DEF complete, HasLast
    <2>4. pool' = PoolAfter(key, list, FALSE, valid)
      BY <1>12, <2>3
    <2>5. key \in Keys
      BY <1>3 DEF KeysIn, Keys
    <2>6. PICK p \in DOMAIN pool' : pool'[p] = [key |-> key, packets |-> list]
      <3>1. IInv /\ FALSE \in BOOLEAN
        BY DEF OInv
      <3>2. PICK c \in BOOLEAN : c = FALSE
        BY <3>1
      <3>4. PICK after : after = PoolAfter(key, list, c, valid)
        OBVIOUS
      <3>3. ~c => \E p \in DOMAIN after : after[p] = [key |-> key, packets |-> list]
        BY <3>1, <3>4, <2>5, <1>8, PoolAfterOrder
      <3>5. after = pool'
        BY <3>2, <3>4, <2>4
      <3> QED BY <3>2, <3>3, <3>5
    <2>7. pool'[p].key = key /\ pool'[p].packets = list
      BY <2>6
    <2> QED BY <2>7, <1>4, <1>16 DEF all, GoesOn
  <1>17. CASE is = all
    <2>1. payload = total
      BY <1>11, <1>17 DEF total, all
    <2>2. next \in all /\ ~\E j \in all : next < j
      <3>1. \A j \in all : j \in Nat /\ j <= next
        BY <1>6, <1>17
      <3> QED BY <3>1, <1>3, <1>6, <1>17
    <2>3. complete
      BY <2>2, <1>13, <1>14, <1>17
    <2>4. valid
      <3>1. Valid(list, fields, payload)
        <4>1. ASSUME NEW a \in DOMAIN list
              PROVE  fields[list[a]].offset + fields[list[a]].length <= payload
          <5>1. list[a] \in ElementsOf(list)
            BY DEF ElementsOf
          <5>2. PICK i \in is : list[a] = <<l, i>>
            BY <5>1, <1>7
          <5> QED BY <5>2, <1>10, <1>14, <1>17, <2>1
        <4> QED BY <4>1 DEF Valid
      <3> QED BY <3>1, <2>1, <2>2, <1>12, <1>14
    <2>5. payload > 0
      BY <2>1, <2>2, <1>14
    <2>6. PICK d : d.from = list /\ delivered' = Append(delivered, d)
      BY <2>3, <2>4, <2>5, <1>12
    <2>7. delivered'[Len(delivered) + 1] = d /\ Len(delivered) + 1 \in DOMAIN delivered'
      <3>1. PICK S : delivered \in Seq(S)
        BY <1>3
      <3>2. delivered \in Seq(S \cup {d}) /\ d \in S \cup {d}
        BY <3>1
      <3> QED BY <3>2, <2>6
    <2>8. ElementsOf(d.from) = {<<l, i>> : i \in all}
      BY <2>6, <1>4, <1>17 DEF Gathered
    <2> QED BY <2>7, <2>8 DEF all, GoesOn
  <1> QED BY <1>16, <1>17

(* Reading a record keeps the frames, the order of the pool and the         *)
(* datagrams on the way.                                                    *)
LEMMA ReadsOn ==
    ASSUME OInv, NextRecord
    PROVE  FramesHeld' /\ NewKeysAhead' /\ OnTheWay'
  <1>l. PICK l : l = Len(loads)
    OBVIOUS
  <1>i. PICK file : file = loads[l]
    OBVIOUS
  <1>n. PICK n : n = next
    OBVIOUS
  <1>f. PICK f : f = <<l, n>>
    OBVIOUS
  <1>1. /\ n # 0 /\ n <= Len(file) /\ loads' = loads /\ next' = n + 1
        /\ keysBefore' = keysBefore /\ frames' = Append(frames, f)
    BY <1>l, <1>i, <1>n, <1>f DEF NextRecord
  <1>2. /\ l \in Nat \ {0} /\ n \in Nat \ {0} /\ file \in Files /\ loads \in Seq(Files)
        /\ frames \in Seq(Frame) /\ f \in Frame
        /\ \E S : delivered \in Seq(S)
    <2>1. loads # << >> /\ loads \in Seq(Files) /\ next \in Nat /\ frames \in Seq(Frame)
      BY <1>1, <1>n DEF OInv, IInv, TypeOK
    <2>2. l \in Nat \ {0} /\ file \in Files
      BY <2>1, <1>l, <1>i
    <2>3. \E S : delivered \in Seq(S)
      BY DEF OInv, IInv, History
    <2> QED BY <2>1, <2>2, <2>3, <1>1, <1>n, <1>f DEF Frame
  <1> DEFINE Now(key) == {i \in FragmentsIn(file, key) : i < n}
             Then(key) == {i \in FragmentsIn(file, key) : i < n + 1}
             WaitsNow(key) == \E p \in DOMAIN pool :
                                 pool[p].key = key /\ Gathered(pool[p].packets, l, Now(key))
             WaitsThen(key) == \E p \in DOMAIN pool' :
                                 pool'[p].key = key /\ Gathered(pool'[p].packets, l, Then(key))
             Given(key) == \E m \in DOMAIN delivered : ElementsOf(delivered[m].from)
                                 = {<<l, i>> : i \in FragmentsIn(file, key)}
             GivenThen(key) == \E m \in DOMAIN delivered' : ElementsOf(delivered'[m].from)
                                 = {<<l, i>> : i \in FragmentsIn(file, key)}
  <1>3. \A key : FragmentsRead(key) = Now(key)
    BY <1>l, <1>i, <1>n DEF FragmentsRead
  <1>4. \A key : FragmentsRead(key)' = Then(key)
    BY <1>1, <1>l, <1>i DEF FragmentsRead
  <1>5. \A key : FragmentsIn(file, key) \subseteq 1..Len(file)
    BY <1>2, FileFinite
  <1>6. \A key : /\ n \notin FragmentsIn(file, key) => Then(key) = Now(key)
                 /\ n \in FragmentsIn(file, key) => Then(key) = Now(key) \cup {n}
                 /\ Now(key) \subseteq Then(key)
    <2>1. ASSUME NEW key, NEW i \in FragmentsIn(file, key)
          PROVE  i < n + 1 <=> i < n \/ i = n
      <3>1. i \in Int
        BY <1>5
      <3> QED BY <3>1, <1>2
    <2> QED BY <2>1
  <1>7. FramesHeld'
    <2>1. ASSUME NEW i \in 1..n PROVE <<l, i>> \in {Append(frames, f)[k] : k \in DOMAIN Append(frames, f)}
      <3>1. CASE i = n
        <4>1. /\ Append(frames, f)[Len(frames) + 1] = f
              /\ Len(frames) + 1 \in DOMAIN Append(frames, f)
          BY <1>2
        <4> QED BY <3>1, <4>1, <1>f
      <3>2. CASE i # n
        <4>1. i \in 1..(n - 1)
          BY <3>2, <1>2
        <4>2. <<l, i>> \in ElementsOf(frames)
          BY <4>1, <1>1, <1>l, <1>n DEF OInv, FramesHeld
        <4>3. PICK k \in DOMAIN frames : frames[k] = <<l, i>>
          BY <4>2 DEF ElementsOf
        <4>4. k \in DOMAIN Append(frames, f) /\ Append(frames, f)[k] = frames[k]
          BY <1>2
        <4> QED BY <4>3, <4>4
      <3> QED BY <3>1, <3>2
    <2>2. (n + 1) - 1 = n
      BY <1>2
    <2>3. \A i \in 1..(next' - 1) : <<Len(loads'), i>> \in ElementsOf(frames)'
      BY <2>1, <2>2, <1>1, <1>l DEF ElementsOf
    <2> QED BY <2>3 DEF FramesHeld
  <1>8. /\ NewKeysAhead <=> \A i, j \in DOMAIN pool :
                 i <= j /\ pool[j].key \notin keysBefore => Now(pool[i].key) # {}
        /\ NewKeysAhead' <=> \A i, j \in DOMAIN pool' :
                 i <= j /\ pool'[j].key \notin keysBefore => Then(pool'[i].key) # {}
    <2>1. NewKeysAhead <=> \A i, j \in DOMAIN pool :
                 i <= j /\ pool[j].key \notin keysBefore => Now(pool[i].key) # {}
      BY <1>1, <1>3, <1>n DEF NewKeysAhead
    <2>2. next' # 0
      BY <1>1, <1>2
    <2>3. NewKeysAhead' <=> \A i, j \in DOMAIN pool' :
                 i <= j /\ pool'[j].key \notin keysBefore => Then(pool'[i].key) # {}
      BY <2>2, <1>1, <1>l, <1>i DEF NewKeysAhead, FragmentsRead
    <2> QED BY <2>1, <2>3
  <1>9. /\ OnTheWay => (Cardinality(KeysIn(file)) <= PoolSize =>
              \A key \in KeysIn(file) \ keysBefore : InOrder(file, key) =>
                  \/ Now(key) = {}
                  \/ Now(key) # FragmentsIn(file, key) /\ WaitsNow(key)
                  \/ Given(key))
        /\ (Cardinality(KeysIn(file)) <= PoolSize =>
              \A key \in KeysIn(file) \ keysBefore : InOrder(file, key) =>
                  \/ Then(key) = {}
                  \/ Then(key) # FragmentsIn(file, key) /\ WaitsThen(key)
                  \/ GivenThen(key)) => OnTheWay'
    <2>1. \A key : Waits(key) <=> WaitsNow(key)
      BY <1>3, <1>l DEF Waits
    <2>2. \A key : Waits(key)' <=> WaitsThen(key)
      BY <1>1, <1>4, <1>l DEF Waits
    <2>3. \A key : IsDelivered(l, FragmentsIn(file, key)) <=> Given(key)
      BY DEF IsDelivered
    <2>4. \A key : IsDelivered(l, FragmentsIn(file, key))' <=> GivenThen(key)
      BY DEF IsDelivered
    <2> HIDE DEF Now, Then, WaitsNow, WaitsThen, Given, GivenThen
    <2>5. OnTheWay => (Cardinality(KeysIn(file)) <= PoolSize =>
              \A key \in KeysIn(file) \ keysBefore : InOrder(file, key) =>
                  \/ Now(key) = {}
                  \/ Now(key) # FragmentsIn(file, key) /\ WaitsNow(key)
                  \/ Given(key))
      BY <2>1, <2>3, <1>1, <1>3, <1>l, <1>i, <1>n DEF OnTheWay
    <2>6. SUFFICES ASSUME \A key \in KeysIn(file) \ keysBefore : InOrder(file, key) =>
                              \/ Then(key) = {}
                              \/ Then(key) # FragmentsIn(file, key) /\ WaitsThen(key)
                              \/ GivenThen(key),
                          NEW key \in KeysIn(file) \ keysBefore, InOrder(file, key),
                          Cardinality(KeysIn(file)) <= PoolSize
                   PROVE  \/ FragmentsRead(key)' = {}
                          \/ FragmentsRead(key)' # FragmentsIn(file, key) /\ Waits(key)'
                          \/ IsDelivered(l, FragmentsIn(file, key))'
      BY <2>5, <1>1, <1>l, <1>i DEF OnTheWay, IsDelivered
    <2> QED BY <2>2, <2>4, <2>6, <1>4
  <1>10. FragmentsIn(file, file[n].key) \cap {n} # {} <=> IsFragment(file[n])
    BY <1>1, <1>2, FileAssumption DEF FragmentsIn
  <1>11. \A key : n \in FragmentsIn(file, key) => IsFragment(file[n]) /\ file[n].key = key
    BY DEF FragmentsIn
  <1> HIDE DEF Now, Then
  <1>12. CASE ~IsFragment(file[n])
    <2>1. pool' = pool /\ delivered' = delivered
      BY <1>12, <1>l, <1>i, <1>n DEF NextRecord, Record
    <2>2. \A key : Then(key) = Now(key)
      BY <1>6, <1>11, <1>12
    <2>3. NewKeysAhead'
      BY <2>1, <2>2, <1>8 DEF OInv
    <2>4. \A key : /\ WaitsNow(key) <=> WaitsThen(key)
                   /\ Given(key) <=> GivenThen(key)
      BY <2>1, <2>2
    <2> HIDE DEF WaitsNow, WaitsThen, Given, GivenThen
    <2>5. OnTheWay'
      BY <2>2, <2>4, <1>9 DEF OInv
    <2> QED BY <1>7, <2>3, <2>5
  <1>13. CASE IsFragment(file[n])
    <2>k. PICK K : K = file[n].key
      OBVIOUS
    <2>1. /\ Record(f) = file[n] /\ n \in FragmentsIn(file, K) /\ K \in KeysIn(file) /\ K \in Keys
          /\ \A key : key # K => n \notin FragmentsIn(file, key)
      <3>1. Record(f) = file[n] /\ n \in DOMAIN file
        BY <1>1, <1>2, <1>f, <1>i, FileAssumption DEF Record
      <3>2. n \in FragmentsIn(file, K) /\ K \in KeysIn(file)
        BY <3>1, <2>k, <1>13 DEF FragmentsIn, KeysIn
      <3>3. K \in Keys
        BY <3>1, <2>k, <1>2 DEF Keys
      <3> QED BY <3>1, <3>2, <3>3, <2>k, <1>11
    <2>2. PICK bytes : Collect(f, bytes)
      BY <1>13, <1>l, <1>i, <1>n, <1>f DEF NextRecord, Record
    <2>3. PICK list : list = Collected(K, f)
      OBVIOUS
    <2>4. /\ list \in Seq(Frame) /\ f \in ElementsOf(list)
          /\ \A g \in ElementsOf(list) :
                 \/ g = f
                 \/ \E i \in DOMAIN pool : pool[i].key = K /\ g \in ElementsOf(pool[i].packets)
      BY <1>2, <2>3, CollectedFacts DEF OInv
    <2>5. ASSUME NEW g \in ElementsOf(list)
          PROVE  Record(g).offset \in Nat /\ LengthOf(Record(g)) \in Nat
      <3>1. g[1] \in 1..Len(loads) /\ g[2] \in DOMAIN loads[g[1]]
        <4>1. CASE g = f
          <5>1. n \in DOMAIN file
            BY <2>1 DEF FragmentsIn
          <5>2. g[1] = l /\ g[2] = n /\ l \in 1..Len(loads)
            BY <4>1, <1>f, <1>l, <1>2
          <5> QED BY <5>1, <5>2, <1>i
        <4>2. CASE \E i \in DOMAIN pool : pool[i].key = K /\ g \in ElementsOf(pool[i].packets)
          BY <4>2 DEF OInv, IInv, WaitingArePast, Past
        <4> QED BY <4>1, <4>2, <2>4
      <3> QED BY <3>1, RecordFields DEF OInv
    <2>6. PICK complete \in BOOLEAN, valid \in BOOLEAN :
             /\ pool' = PoolAfter(K, list, complete, valid)
             /\ \/ delivered' = delivered
                \/ \E d : delivered' = Append(delivered, d)
      <3>1. list = Collected(Record(f).key, f) /\ Record(f).key = K
        BY <2>1, <2>3, <2>k
      <3> QED BY <3>1, <2>2, <2>4, <2>5, CollectEffect
    <2>7. PICK after : after = PoolAfter(K, list, complete, valid)
      OBVIOUS
    <2>8. /\ \E h \in [DOMAIN after -> Nat] :
                /\ \A j \in DOMAIN after : IF h[j] = 0 THEN after[j].key = K
                                           ELSE h[j] \in DOMAIN pool /\ after[j] = pool[h[j]]
                /\ \A i, j \in DOMAIN after : i <= j => h[i] <= h[j]
          /\ \A p \in DOMAIN pool : pool[p].key # K =>
                \/ \E j \in DOMAIN after : after[j] = pool[p]
                \/ p = Len(pool) /\ Len(pool) = PoolSize /\ K \notin KeysOf(pool)
      BY <2>1, <2>4, <2>7, PoolAfterOrder DEF OInv
    <2>9. after = pool'
      BY <2>6, <2>7
    <2>10. NewKeysAhead'
      <3>1. PICK h \in [DOMAIN after -> Nat] :
                /\ \A j \in DOMAIN after : IF h[j] = 0 THEN after[j].key = K
                                           ELSE h[j] \in DOMAIN pool /\ after[j] = pool[h[j]]
                /\ \A i, j \in DOMAIN after : i <= j => h[i] <= h[j]
        BY <2>8
      <3>2. n \in Then(K)
        BY <1>6, <2>1
      <3>3. ASSUME NEW i \in DOMAIN after, NEW j \in DOMAIN after,
                   i <= j, after[j].key \notin keysBefore
            PROVE  Then(after[i].key) # {}
        <4>1. CASE h[i] = 0
          BY <4>1, <3>1, <3>2
        <4>2. CASE h[i] # 0
          <5>1. h[i] \in Nat /\ h[j] \in Nat /\ h[i] <= h[j] /\ h[j] # 0
            BY <4>2, <3>1, <3>3
          <5>2. /\ h[i] \in DOMAIN pool /\ after[i] = pool[h[i]]
                /\ h[j] \in DOMAIN pool /\ after[j] = pool[h[j]]
            BY <4>2, <5>1, <3>1
          <5>3. Now(pool[h[i]].key) # {}
            BY <5>1, <5>2, <3>3, <1>8 DEF OInv
          <5> QED BY <5>2, <5>3, <1>6
        <4> QED BY <4>1, <4>2
      <3> QED BY <3>3, <2>9, <1>8
    <2>11. \A key : Given(key) => GivenThen(key)
      <3>1. CASE delivered' = delivered
        BY <3>1
      <3>2. CASE \E d : delivered' = Append(delivered, d)
        <4>1. PICK d : delivered' = Append(delivered, d)
          BY <3>2
        <4>2. PICK S : delivered \in Seq(S)
          BY <1>2
        <4>3. delivered \in Seq(S \cup {d}) /\ d \in S \cup {d}
          BY <4>2
        <4>4. \A m \in DOMAIN delivered : m \in DOMAIN delivered' /\ delivered'[m] = delivered[m]
          BY <4>1, <4>3
        <4> QED BY <4>4
      <3> QED BY <3>1, <3>2, <2>6
    <2>12. ASSUME NEW key \in KeysIn(file) \ keysBefore, InOrder(file, key),
                  Cardinality(KeysIn(file)) <= PoolSize
           PROVE  \/ Then(key) = {}
                  \/ Then(key) # FragmentsIn(file, key) /\ WaitsThen(key)
                  \/ GivenThen(key)
      <3>1. CASE key = K
        <4>1. Then(key) = FragmentsRead(key) \cup {next}
          BY <3>1, <2>1, <1>3, <1>6, <1>n
        <4>2. PICK is : is = FragmentsRead(key) \cup {next}
          OBVIOUS
        <4>3. /\ next # 0 /\ next <= Len(loads[Len(loads)]) /\ file = loads[Len(loads)]
              /\ next \in FragmentsIn(file, key) /\ Collect(<<l, next>>, bytes)
          BY <3>1, <2>1, <2>2, <1>1, <1>l, <1>i, <1>n, <1>f
        <4>4. GoesOn(file, l, key, is)
          <5> HIDE DEF WaitsNow, WaitsThen, Given, GivenThen
          <5>1. key \in KeysIn(file) /\ key \notin keysBefore
            BY <2>12
          <5>2. next # 0
            BY <4>3
          <5>3. next <= Len(loads[Len(loads)])
            BY <4>3
          <5>4. file = loads[Len(loads)]
            BY <4>3
          <5>5. next \in FragmentsIn(file, key)
            BY <4>3
          <5>6. Collect(<<l, next>>, bytes)
            BY <4>3
          <5>7. InOrder(file, key) /\ Cardinality(KeysIn(file)) <= PoolSize
            BY <2>12
          <5> QED BY <5>1, <5>2, <5>3, <5>4, <5>5, <5>6, <5>7, <4>2, <1>l, InOrderStep
        <4> QED BY <4>1, <4>2, <4>4 DEF GoesOn
      <3>2. CASE key # K
        <4>1. Then(key) = Now(key)
          BY <3>2, <2>1, <1>6
        <4>2. CASE WaitsNow(key)
          <5>1. PICK p \in DOMAIN pool : pool[p].key = key /\ Gathered(pool[p].packets, l, Now(key))
            BY <4>2
          <5>2. \E j \in DOMAIN after : after[j] = pool[p]
            <6>1. ASSUME p = Len(pool), Len(pool) = PoolSize, K \notin KeysOf(pool) PROVE FALSE
              <7>1. /\ next # 0 /\ next <= Len(loads[Len(loads)]) /\ K \in KeysIn(loads[Len(loads)])
                    /\ Cardinality(KeysIn(loads[Len(loads)])) <= PoolSize
                    /\ pool[p].key \notin keysBefore
                BY <5>1, <2>1, <2>12, <1>1, <1>l, <1>i, <1>n
              <7> QED BY <6>1, <7>1, NoneGivesWay
            <6> QED BY <6>1, <5>1, <3>2, <2>8
          <5>3. WaitsThen(key)
            BY <5>1, <5>2, <4>1, <2>9
          <5> HIDE DEF WaitsNow, WaitsThen, Given, GivenThen
          <5>4. \/ Now(key) = {}
                \/ Now(key) # FragmentsIn(file, key) /\ WaitsNow(key)
                \/ Given(key)
            BY <2>12, <1>9 DEF OInv
          <5> QED BY <5>3, <5>4, <4>1, <2>11
        <4>3. CASE ~WaitsNow(key)
          <5> HIDE DEF WaitsNow, WaitsThen, Given, GivenThen
          <5>1. Now(key) = {} \/ Given(key)
            BY <4>3, <2>12, <1>9 DEF OInv
          <5> QED BY <5>1, <4>1, <2>11
        <4> QED BY <4>2, <4>3
      <3> QED BY <3>1, <3>2
    <2> HIDE DEF WaitsNow, WaitsThen, Given, GivenThen
    <2>13. OnTheWay'
      BY <2>12, <1>9
    <2> QED BY <1>7, <2>10, <2>13
  <1> QED BY <1>12, <1>13

LEMMA InitOInv == Init => OInv
  BY InitIInv DEF Init, OInv, FramesHeld, NewKeysAhead, OnTheWay

LEMMA OInvInductive == OInv /\ [Next]_vars => OInv'
  <1> SUFFICES ASSUME OInv, [Next]_vars PROVE OInv'
    OBVIOUS
  <1>0. IInv'
    BY Inductive DEF OInv
  <1>1. CASE \E file \in Files : Open(file)
    <2>1. PICK file \in Files : Open(file)
      BY <1>1
    <2>2. /\ loads' = Append(loads, file) /\ next' = 1 /\ pool' = pool
          /\ keysBefore' = KeysOf(pool) /\ loads \in Seq(Files)
      BY <2>1 DEF Open, OInv, IInv, TypeOK
    <2>3. FramesHeld'
      BY <2>2 DEF FramesHeld
    <2>4. NewKeysAhead'
      BY <2>2 DEF NewKeysAhead, KeysOf
    <2>5. \A key : FragmentsRead(key)' = {}
      <3>1. loads'[Len(loads')] = file
        BY <2>2
      <3>2. ASSUME NEW key, NEW i \in FragmentsIn(file, key) PROVE ~(i < 1)
        BY FileFinite
      <3> QED BY <3>1, <3>2, <2>2 DEF FragmentsRead
    <2>6. OnTheWay'
      BY <2>5 DEF OnTheWay
    <2> QED BY <1>0, <2>3, <2>4, <2>6 DEF OInv
  <1>2. CASE NextRecord
    BY <1>0, <1>2, ReadsOn DEF OInv
  <1>3. CASE Close
    <2>1. next' = 0
      BY <1>3 DEF Close
    <2> QED BY <2>1, <1>0 DEF OInv, FramesHeld, NewKeysAhead, OnTheWay
  <1>4. CASE OnClear
    <2>1. next' = 0
      BY <1>4 DEF OnClear
    <2> QED BY <2>1, <1>0 DEF OInv, FramesHeld, NewKeysAhead, OnTheWay
  <1>5. CASE UNCHANGED vars
    <2>1. /\ loads' = loads /\ next' = next /\ frames' = frames /\ pool' = pool
          /\ delivered' = delivered /\ keysBefore' = keysBefore
      BY <1>5 DEF vars
    <2>2. \A key : FragmentsRead(key)' = FragmentsRead(key)
      BY <2>1 DEF FragmentsRead
    <2>3. FramesHeld'
      BY <2>1 DEF OInv, FramesHeld, ElementsOf
    <2>4. NewKeysAhead'
      BY <2>1 DEF OInv, NewKeysAhead, FragmentsRead
    <2>5. \A key : Waits(key)' <=> Waits(key)
      BY <2>1, <2>2 DEF Waits
    <2>6. OnTheWay'
      BY <2>1, <2>2, <2>5 DEF OInv, OnTheWay, IsDelivered
    <2> QED BY <1>0, <2>3, <2>4, <2>6 DEF OInv
  <1> QED BY <1>1, <1>2, <1>3, <1>4, <1>5 DEF Next

LEMMA OInvIsInvariant == Spec => []OInv
  BY InitOInv, OInvInductive, PTL DEF Spec

(* A datagram whose fragments were captured in order is reassembled by the  *)
(* end of the file from exactly these fragments, for every file and pool    *)
(* size, when its identifier is new and those of the file fit in the pool.  *)
THEOREM InOrderDatagramsComplete == Spec => []InOrderCompletes
  <1>1. ASSUME OInv PROVE InOrderCompletes
    <2> SUFFICES ASSUME next # 0, next > Len(loads[Len(loads)]),
                        NEW l, l = Len(loads), NEW file, file = loads[l],
                        Cardinality(KeysIn(file)) <= PoolSize,
                        NEW key \in KeysIn(file) \ keysBefore, InOrder(file, key)
                 PROVE  \E n \in DOMAIN delivered :
                          ElementsOf(delivered[n].from) = {<<l, i>> : i \in FragmentsIn(file, key)}
      BY DEF InOrderCompletes
    <2>1. file \in Files /\ next \in Nat
      <3>1. loads # << >> /\ loads \in Seq(Files) /\ next \in Nat
        BY <1>1 DEF OInv, IInv, TypeOK
      <3> QED BY <3>1
    <2>2. FragmentsRead(key) = FragmentsIn(file, key)
      <3>1. FragmentsIn(file, key) \subseteq 1..Len(file) /\ Len(file) \in Nat
        BY <2>1, FileFinite
      <3>2. \A i \in FragmentsIn(file, key) : i < next
        BY <3>1, <2>1
      <3> QED BY <3>2 DEF FragmentsRead
    <2>3. FragmentsIn(file, key) # {}
      BY DEF FragmentsIn, KeysIn
    <2>4. IsDelivered(l, FragmentsIn(file, key))
      BY <2>2, <2>3, <1>1 DEF OInv, OnTheWay
    <2> QED BY <2>4 DEF IsDelivered
  <1> QED BY <1>1, OInvIsInvariant, PTL
=============================================================================
