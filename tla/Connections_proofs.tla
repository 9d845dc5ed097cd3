------------------------- MODULE Connections_proofs -------------------------
(***************************************************************************)
(* What TCP connections carry: the expected number of a stream and the     *)
(* view of it, for every stream, any set of segments of it, and any size   *)
(* of the number space; and the files of the SMB sessions over them, for   *)
(* every set of files and sizes of the handler's lists.                    *)
(***************************************************************************)
EXTENDS TcpDataStream, FileSessions, SequenceFacts

(* These are the bytes of the stream from the position that the number      *)
(* stands for, and all of them have arrived.                                *)
Held(number, bytes, positions) ==
    \E p, l \in Nat :
        /\ l > 0 /\ p + l < Modulus /\ number = Number(p)
        /\ bytes = Bytes(p, l)
        /\ p..(p + l - 1) \subseteq positions

AllHeld(list, positions) ==
    /\ DOMAIN list \subseteq SequenceNumbers
    /\ list = [k \in DOMAIN list |-> list[k]]
    /\ \A k \in DOMAIN list : Held(k, list[k], positions)

(* Everything before the position that the number stands for has arrived.   *)
Reached(number, positions) ==
    \E x \in 0..(Modulus - 1) : number = Number(x) /\ 0..(x - 1) \subseteq positions

IInv ==
    /\ AllHeld(dataList, arrived)
    /\ Reached(expected, arrived)
    /\ virtualTcpData \in Nat /\ VirtualTcpDataWithinList

----------------------------------------------------------------------------
LEMMA BytesFacts ==
    ASSUME NEW p \in Nat, NEW l \in Nat
    PROVE  /\ Bytes(p, l) \in Seq(Nat) /\ Len(Bytes(p, l)) = l
           /\ \A i \in 1..l : Bytes(p, l)[i] = p + i - 1
  <1>1. Bytes(p, l) = [i \in 1..l |-> p + i - 1] /\ \A i \in 1..l : p + i - 1 \in Nat
    BY DEF Bytes
  <1>2. Bytes(p, l) \in [1..l -> Nat]
    BY <1>1
  <1> QED BY <1>1, <1>2

(* Cutting the front of some bytes leaves the bytes from there on.          *)
LEMMA RemainderOfBytes ==
    ASSUME NEW p \in Nat, NEW l \in Nat, NEW cut \in 0..l
    PROVE  Remainder(Bytes(p, l), cut) = Bytes(p + cut, l - cut)
  <1> DEFINE b == Bytes(p, l)
             r == SubSeq(b, cut + 1, Len(b))
  <1>1. b \in Seq(Nat) /\ Len(b) = l /\ \A i \in 1..l : b[i] = p + i - 1 /\ b[i] \in Nat
    <2>1. b \in Seq(Nat) /\ Len(b) = l /\ \A i \in 1..l : b[i] = p + i - 1
      BY BytesFacts
    <2>2. \A i \in 1..l : p + i - 1 \in Nat
      OBVIOUS
    <2> HIDE DEF b
    <2> QED BY <2>1, <2>2
  <1> HIDE DEF b
  <1>2. /\ r \in Seq(Nat) /\ Len(r) = (IF cut + 1 <= l THEN l - (cut + 1) + 1 ELSE 0)
        /\ \A i \in 1..(l - (cut + 1) + 1) : r[i] = b[(cut + 1) + i - 1]
    <2>1. cut + 1 \in Int /\ l \in Int /\ \A i \in (cut + 1)..l : b[i] \in Nat
      BY <1>1
    <2> QED BY <1>1, <2>1, SubSeqProperties
  <1>3. Len(r) = l - cut /\ \A i \in 1..(l - cut) : r[i] = (p + cut) + i - 1
    <2>1. \A i \in 1..(l - cut) : (cut + 1) + i - 1 \in 1..l
      OBVIOUS
    <2> QED BY <1>1, <1>2, <2>1
  <1> HIDE DEF r
  <1>4. r = [i \in 1..(l - cut) |-> (p + cut) + i - 1]
    BY <1>2, <1>3
  <1> QED BY <1>4 DEF Remainder, Bytes, r, b

(* A number stands for one position, and wraps with it.                     *)
LEMMA NumberFacts ==
    ASSUME NEW x \in 0..(Modulus - 1)
    PROVE  /\ Number(x) \in SequenceNumbers
           /\ (Number(x) - InitialSequenceNumber) % Modulus = x
  <1>1. Modulus \in Nat \ {0} /\ InitialSequenceNumber \in 0..(Modulus - 1)
    BY StreamAssumption
  <1>2. \A a \in Nat : a < 2 * Modulus => a % Modulus = IF a < Modulus THEN a ELSE a - Modulus
    BY <1>1
  <1>3. \A a \in Int : a < 0 /\ a > -Modulus => a % Modulus = a + Modulus
    BY <1>1
  <1>4. Number(x) = IF InitialSequenceNumber + x < Modulus THEN InitialSequenceNumber + x
                    ELSE InitialSequenceNumber + x - Modulus
    BY <1>1, <1>2 DEF Number
  <1>5. CASE InitialSequenceNumber + x < Modulus
    <2>1. Number(x) - InitialSequenceNumber = x
      BY <1>1, <1>4, <1>5
    <2> QED BY <1>1, <1>2, <1>4, <1>5, <2>1 DEF SequenceNumbers
  <1>6. CASE InitialSequenceNumber + x >= Modulus
    <2>1. Number(x) - InitialSequenceNumber = x - Modulus
      BY <1>1, <1>4, <1>6
    <2>2. CASE x = 0
      BY <1>1, <1>6, <2>2
    <2>3. CASE x > 0
      BY <1>1, <1>3, <1>4, <1>6, <2>1, <2>3 DEF SequenceNumbers
    <2> QED BY <2>2, <2>3
  <1> QED BY <1>1, <1>5, <1>6

LEMMA NumberIsOnePosition ==
    ASSUME NEW x \in 0..(Modulus - 1), NEW y \in 0..(Modulus - 1), Number(x) = Number(y)
    PROVE  x = y
  BY NumberFacts

LEMMA AfterNumber ==
    ASSUME NEW p \in Nat, NEW l \in Nat, p + l < Modulus
    PROVE  After(Number(p), l) = Number(p + l)
  <1>1. Modulus \in Nat \ {0} /\ InitialSequenceNumber \in 0..(Modulus - 1)
    BY StreamAssumption
  <1>2. \A a \in Nat : a < 2 * Modulus => a % Modulus = IF a < Modulus THEN a ELSE a - Modulus
    BY <1>1
  <1>3. Number(p) = IF InitialSequenceNumber + p < Modulus THEN InitialSequenceNumber + p
                    ELSE InitialSequenceNumber + p - Modulus
    BY <1>1, <1>2 DEF Number
  <1>4. Number(p + l) = IF InitialSequenceNumber + (p + l) < Modulus
                        THEN InitialSequenceNumber + (p + l)
                        ELSE InitialSequenceNumber + (p + l) - Modulus
    BY <1>1, <1>2 DEF Number
  <1>5. Number(p) + l \in Nat /\ Number(p) + l < 2 * Modulus
    BY <1>1, <1>3
  <1> QED BY <1>1, <1>2, <1>3, <1>4, <1>5 DEF After

(* The keys of a list are finitely many.                                    *)
LEMMA KeysAreFinite ==
    ASSUME NEW list, DOMAIN list \subseteq SequenceNumbers
    PROVE  IsFiniteSet(DOMAIN list) /\ Cardinality(DOMAIN list) \in Nat
  <1>1. IsFiniteSet(SequenceNumbers)
    BY StreamAssumption, FS_Interval DEF SequenceNumbers
  <1> QED BY <1>1, FS_Subset, FS_CardinalityType

----------------------------------------------------------------------------
(* One turn of the loop in AddTcpData.                                      *)
NextExpected(list, number) ==
    IF number \in DOMAIN list THEN After(number, Len(list[number])) ELSE number

LEMMA TurnKeepsReached ==
    ASSUME NEW list, NEW positions, AllHeld(list, positions),
           NEW number, Reached(number, positions)
    PROVE  Reached(NextExpected(list, number), positions)
  <1>1. PICK x \in 0..(Modulus - 1) : number = Number(x) /\ 0..(x - 1) \subseteq positions
    BY DEF Reached
  <1>2. CASE number \notin DOMAIN list
    BY <1>2 DEF NextExpected
  <1>3. CASE number \in DOMAIN list
    <2>1. PICK p \in Nat, l \in Nat :
              /\ l > 0 /\ p + l < Modulus /\ number = Number(p)
              /\ Len(list[number]) = l
              /\ p..(p + l - 1) \subseteq positions
      BY <1>3, BytesFacts DEF AllHeld, Held
    <2>2. Modulus \in Nat /\ p \in 0..(Modulus - 1) /\ p + l \in 0..(Modulus - 1)
      BY <2>1, StreamAssumption
    <2>3. p = x
      BY <1>1, <2>1, <2>2, NumberIsOnePosition
    <2>4. NextExpected(list, number) = Number(p + l)
      BY <1>3, <2>1, AfterNumber DEF NextExpected
    <2>5. 0..((p + l) - 1) \subseteq positions
      <3> SUFFICES ASSUME NEW q \in 0..((p + l) - 1) PROVE q \in positions
        OBVIOUS
      <3>1. q \in 0..(x - 1) \/ q \in p..(p + l - 1)
        BY <2>1, <2>2, <2>3
      <3> QED BY <1>1, <2>1, <3>1
    <2> QED BY <2>2, <2>4, <2>5 DEF Reached
  <1> QED BY <1>2, <1>3

(* The loop's values, turn by turn, are a function.                         *)
Loop(f, list, from, c) ==
    f = [n \in 0..c |-> IF n = 0 THEN from ELSE NextExpected(list, f[n - 1])]

LEMMA TurnsExist ==
    ASSUME NEW list, NEW from, NEW c \in Nat
    PROVE  \E f : Loop(f, list, from, c)
  <1> DEFINE bad == {m \in Nat : ~\E f : Loop(f, list, from, m)}
  <1>1. ASSUME bad # {} PROVE FALSE
    <2>1. bad \in SUBSET Nat
      OBVIOUS
    <2>2. PICK m \in bad : \A k \in bad : m <= k
      <3> HIDE DEF bad
      <3> QED BY <1>1, <2>1, LeastNumber
    <2>3. m \in Nat /\ ~\E f : Loop(f, list, from, m)
      OBVIOUS
    <2>4. CASE m = 0
      <3> DEFINE f == [n \in 0..0 |-> from]
      <3>1. f = [n \in 0..0 |-> IF n = 0 THEN from ELSE NextExpected(list, f[n - 1])]
        OBVIOUS
      <3> QED BY <2>3, <2>4, <3>1 DEF Loop
    <2>5. CASE m # 0
      <3>1. m - 1 \in Nat /\ ~(m <= m - 1)
        BY <2>3, <2>5
      <3>2. m - 1 \notin bad
        <4> HIDE DEF bad
        <4> QED BY <2>2, <3>1
      <3>3. PICK g : Loop(g, list, from, m - 1)
        BY <3>1, <3>2
      <3> DEFINE f == [n \in 0..m |-> IF n = 0 THEN from ELSE NextExpected(list, g[n - 1])]
      <3>4. \A n \in 0..(m - 1) :
                g[n] = IF n = 0 THEN from ELSE NextExpected(list, g[n - 1])
        BY <3>3 DEF Loop
      <3>5. \A n \in 0..(m - 1) : n \in 0..m /\ f[n] = g[n]
        BY <2>3, <3>4
      <3>6. \A n \in 0..m : n # 0 => n - 1 \in 0..(m - 1)
        BY <2>3
      <3>7. f = [n \in 0..m |-> IF n = 0 THEN from ELSE NextExpected(list, f[n - 1])]
        BY <3>5, <3>6
      <3> HIDE DEF f
      <3>8. Loop(f, list, from, m)
        BY <3>7 DEF Loop
      <3> QED BY <2>3, <3>8
    <2> QED BY <2>4, <2>5
  <1>2. c \notin bad
    BY <1>1
  <1> QED BY <1>2

(* The loop of AddTcpData turn by turn.                                     *)
Turning(at, list, from) ==
    /\ \A n \in 0..Cardinality(DOMAIN list) :
           at[n] = IF n = 0 THEN from ELSE NextExpected(list, at[n - 1])
    /\ Advanced(list, from) = at[Cardinality(DOMAIN list)]

LEMMA AdvancedTurns ==
    ASSUME NEW list, NEW positions, AllHeld(list, positions), NEW from
    PROVE  \E at : Turning(at, list, from)
  <1> DEFINE c == Cardinality(DOMAIN list)
             at == CHOOSE f : Loop(f, list, from, c)
  <1>1. c \in Nat
    BY KeysAreFinite DEF AllHeld
  <1>2. Advanced(list, from) = at[c]
    BY DEF Advanced, NextExpected, Loop
  <1> HIDE DEF c
  <1>3. \E f : Loop(f, list, from, c)
    BY <1>1, TurnsExist
  <1>4. Loop(at, list, from, c)
    BY <1>3
  <1> HIDE DEF at
  <1>5. \A n \in 0..c : at[n] = IF n = 0 THEN from ELSE NextExpected(list, at[n - 1])
    BY <1>4 DEF Loop
  <1> QED BY <1>2, <1>5 DEF c, Turning

(* However many turns the loop takes, what is before its number arrived.    *)
LEMMA AdvancedReached ==
    ASSUME NEW list, NEW positions, AllHeld(list, positions),
           NEW from, Reached(from, positions)
    PROVE  Reached(Advanced(list, from), positions)
  <1> DEFINE c == Cardinality(DOMAIN list)
  <1>1. c \in Nat
    BY KeysAreFinite DEF AllHeld
  <1>2. PICK at : Turning(at, list, from)
    BY AdvancedTurns
  <1>3. Advanced(list, from) = at[c]
    BY <1>2 DEF Turning
  <1>4. \A n \in 0..c : at[n] = IF n = 0 THEN from ELSE NextExpected(list, at[n - 1])
    BY <1>2 DEF Turning
  <1> HIDE DEF c
  <1> DEFINE bad == {n \in 0..c : ~Reached(at[n], positions)}
  <1>5. ASSUME bad # {} PROVE FALSE
    <2>1. bad \in SUBSET Nat
      BY <1>1
    <2>2. PICK n \in bad : \A k \in bad : n <= k
      <3> HIDE DEF bad
      <3> QED BY <1>5, <2>1, LeastNumber
    <2>3. n \in 0..c /\ ~Reached(at[n], positions)
      OBVIOUS
    <2>4. n # 0
      BY <1>4, <2>3
    <2>5. n - 1 \in 0..c /\ ~(n <= n - 1)
      BY <1>1, <2>3, <2>4
    <2>6. n - 1 \notin bad
      <3> HIDE DEF bad
      <3> QED BY <2>2, <2>5
    <2>7. Reached(at[n - 1], positions)
      BY <2>5, <2>6
    <2>8. at[n] = NextExpected(list, at[n - 1])
      BY <1>4, <2>3, <2>4
    <2> QED BY <2>3, <2>7, <2>8, TurnKeepsReached
  <1>6. c \in 0..c
    BY <1>1
  <1> QED BY <1>3, <1>5, <1>6

----------------------------------------------------------------------------
(* What arrives later leaves what has arrived as it is.                     *)
LEMMA MorePositions ==
    ASSUME NEW positions, NEW more, positions \subseteq more
    PROVE  /\ \A list : AllHeld(list, positions) => AllHeld(list, more)
           /\ \A number : Reached(number, positions) => Reached(number, more)
  <1>1. ASSUME NEW number, NEW bytes, Held(number, bytes, positions)
        PROVE  Held(number, bytes, more)
    BY <1>1 DEF Held
  <1>2. \A list : AllHeld(list, positions) => AllHeld(list, more)
    BY <1>1 DEF AllHeld
  <1>3. \A number : Reached(number, positions) => Reached(number, more)
    BY DEF Reached
  <1> QED BY <1>2, <1>3

(* A new segment is held as it arrives.                                     *)
LEMMA WithEntryHeld ==
    ASSUME NEW list, NEW positions, AllHeld(list, positions),
           NEW p \in Nat, NEW l \in Nat \ {0}, p + l < Modulus,
           p..(p + l - 1) \subseteq positions
    PROVE  AllHeld(WithEntry(list, Number(p), Bytes(p, l)), positions)
  <1>2. Held(Number(p), Bytes(p, l), positions)
    BY DEF Held
  <1>3. Number(p) \in SequenceNumbers
    <2>1. p \in 0..(Modulus - 1)
      BY StreamAssumption
    <2> QED BY <2>1, NumberFacts
  <1> DEFINE longer == WithEntry(list, Number(p), Bytes(p, l))
  <1>4. /\ DOMAIN longer = DOMAIN list \cup {Number(p)}
        /\ longer = [k \in DOMAIN longer |-> longer[k]]
        /\ \A k \in DOMAIN longer : longer[k] = IF k = Number(p) THEN Bytes(p, l) ELSE list[k]
    BY DEF WithEntry
  <1> HIDE DEF longer
  <1>5. AllHeld(longer, positions)
    BY <1>2, <1>3, <1>4 DEF AllHeld
  <1> QED BY <1>5 DEF longer

(* What a list that is held says of one entry: where it starts and ends.    *)
Start(list, k) == list[k][1]

LEMMA EntryFacts ==
    ASSUME NEW list, NEW positions, AllHeld(list, positions), NEW k \in DOMAIN list
    PROVE  /\ k \in SequenceNumbers /\ k \in Nat
           /\ Start(list, k) \in Nat /\ Len(list[k]) \in Nat \ {0}
           /\ Start(list, k) + Len(list[k]) < Modulus
           /\ k = Number(Start(list, k))
           /\ list[k] = Bytes(Start(list, k), Len(list[k]))
           /\ list[k] \in Seq(Nat)
           /\ \A i \in 1..Len(list[k]) : list[k][i] = Start(list, k) + i - 1
  <1>1. PICK p \in Nat, l \in Nat :
            l > 0 /\ p + l < Modulus /\ k = Number(p) /\ list[k] = Bytes(p, l)
    BY DEF AllHeld, Held
  <1>2. /\ list[k] \in Seq(Nat) /\ Len(list[k]) = l
        /\ \A i \in 1..l : list[k][i] = p + i - 1
    BY <1>1, BytesFacts
  <1>3. 1 \in 1..l /\ p + 1 - 1 = p
    BY <1>1
  <1>4. Start(list, k) = p
    BY <1>2, <1>3 DEF Start
  <1>5. k \in SequenceNumbers /\ k \in Nat
    BY StreamAssumption DEF AllHeld, SequenceNumbers
  <1> QED BY <1>1, <1>2, <1>4, <1>5

LEMMA LengthsFacts ==
    ASSUME NEW list, NEW positions, AllHeld(list, positions)
    PROVE  /\ IsFiniteSet(DOMAIN list)
           /\ \A k \in DOMAIN list : Lengths(list)[k] = Len(list[k]) /\ Lengths(list)[k] \in Nat
  <1>1. IsFiniteSet(DOMAIN list)
    BY KeysAreFinite DEF AllHeld
  <1>2. \A k \in DOMAIN list : Len(list[k]) \in Nat
    BY EntryFacts
  <1> QED BY <1>1, <1>2 DEF Lengths

LEMMA BytesBeforeIsNat ==
    ASSUME NEW list, NEW positions, AllHeld(list, positions), NEW k
    PROVE  BytesBefore(list, k) \in Nat
  <1>1. Ahead(list, k) \in SUBSET DOMAIN list
    BY DEF Ahead
  <1>2. IsFiniteSet(Ahead(list, k)) /\ \A j \in Ahead(list, k) : Lengths(list)[j] \in Nat
    BY <1>1, LengthsFacts, FS_Subset
  <1> QED BY <1>2, SumType DEF BytesBefore

(* What RemoveData keeps is held: whole entries, and the rest of one under  *)
(* the number of its first byte.                                            *)
LEMMA RemovedHeld ==
    ASSUME NEW list, NEW positions, AllHeld(list, positions), NEW count \in Nat
    PROVE  AllHeld(Removed(list, count), positions)
  <1> DEFINE whole == {k \in DOMAIN list : BytesBefore(list, k) + Len(list[k]) <= count}
             part == {k \in DOMAIN list \ whole : BytesBefore(list, k) < count}
             Cut(k) == count - BytesBefore(list, k)
             rest == {After(k, Cut(k)) : k \in part}
             Of(key) == CHOOSE k \in part : After(k, Cut(k)) = key
             removed == Removed(list, count)
  <1>1. /\ DOMAIN removed = (DOMAIN list \ (whole \cup part)) \cup rest
        /\ removed = [k \in DOMAIN removed |-> removed[k]]
        /\ \A key \in DOMAIN removed :
               removed[key] = IF key \in rest THEN Remainder(list[Of(key)], Cut(Of(key)))
                              ELSE list[key]
    BY DEF Removed
  <1>2. ASSUME NEW k \in part
        PROVE  /\ After(k, Cut(k)) \in SequenceNumbers
               /\ Held(After(k, Cut(k)), Remainder(list[k], Cut(k)), positions)
    <2>1. PICK p \in Nat, l \in Nat :
              /\ l > 0 /\ p + l < Modulus /\ k = Number(p)
              /\ list[k] = Bytes(p, l) /\ Len(list[k]) = l
              /\ p..(p + l - 1) \subseteq positions
      BY <1>2, BytesFacts DEF AllHeld, Held
    <2>2. BytesBefore(list, k) \in Nat
      BY BytesBeforeIsNat
    <2> DEFINE cut == Cut(k)
    <2>3. cut \in 1..(l - 1)
      BY <1>2, <2>1, <2>2
    <2> HIDE DEF cut
    <2>4. After(k, cut) = Number(p + cut)
      <3>1. cut \in Nat /\ p + cut < Modulus
        BY <2>1, <2>3, StreamAssumption
      <3> QED BY <2>1, <3>1, AfterNumber
    <2>5. p + cut \in 0..(Modulus - 1)
      BY <2>1, <2>3, StreamAssumption
    <2>6. Remainder(list[k], cut) = Bytes(p + cut, l - cut)
      <3>1. cut \in 0..l
        BY <2>3
      <3> QED BY <2>1, <3>1, RemainderOfBytes
    <2>7. /\ p + cut \in Nat /\ l - cut \in Nat /\ l - cut > 0
          /\ (p + cut) + (l - cut) < Modulus
          /\ (p + cut)..((p + cut) + (l - cut) - 1) \subseteq p..(p + l - 1)
      BY <2>1, <2>3
    <2>8. Held(After(k, cut), Remainder(list[k], cut), positions)
      BY <2>1, <2>4, <2>6, <2>7 DEF Held
    <2> QED BY <2>4, <2>5, <2>8, NumberFacts DEF cut
  <1>3. ASSUME NEW key \in rest PROVE Of(key) \in part /\ After(Of(key), Cut(Of(key))) = key
    <2>1. \E k \in part : After(k, Cut(k)) = key
      BY <1>3
    <2> HIDE DEF part, Cut
    <2> QED BY <2>1
  <1> HIDE DEF removed, part, whole, Cut, Of
  <1>4. ASSUME NEW key \in rest
        PROVE  key \in SequenceNumbers /\ Held(key, Remainder(list[Of(key)], Cut(Of(key))), positions)
    <2> HIDE DEF rest
    <2> QED BY <1>2, <1>3, <1>4
  <1> HIDE DEF rest
  <1>5. AllHeld(removed, positions)
    BY <1>1, <1>4 DEF AllHeld
  <1> QED BY <1>5 DEF removed

----------------------------------------------------------------------------
(* A list that is not empty has a key.                                      *)
LEMMA SomeKey ==
    ASSUME NEW list, NEW positions, AllHeld(list, positions), list # << >>
    PROVE  Cardinality(DOMAIN list) >= 1
  <1>1. DOMAIN list # {}
    BY DEF AllHeld
  <1>2. IsFiniteSet(DOMAIN list) /\ Cardinality(DOMAIN list) \in Nat
    BY KeysAreFinite DEF AllHeld
  <1> QED BY <1>1, <1>2, FS_EmptySet

(* CountPacketsToRead counts entries of the list.                           *)
LEMMA CountIsNat ==
    ASSUME NEW list, NEW positions, AllHeld(list, positions)
    PROVE  /\ CountPacketsToRead(list) \in Nat
           /\ CountPacketsToRead(list) <= Cardinality(DOMAIN list)
  <1> DEFINE continuing ==
                 {last \in DOMAIN list :
                     \A key \in DOMAIN list :
                         FirstKey(list) < key /\ key <= last => key = EndOfPrevious(list, key)}
  <1>1. continuing \in SUBSET DOMAIN list
    OBVIOUS
  <1>2. CountPacketsToRead(list) = Cardinality(continuing)
    BY DEF CountPacketsToRead
  <1>3. IsFiniteSet(DOMAIN list)
    BY KeysAreFinite DEF AllHeld
  <1> HIDE DEF continuing
  <1> QED BY <1>1, <1>2, <1>3, FS_Subset, FS_CardinalityType

LEMMA InitIInv == Init => IInv
  <1> SUFFICES ASSUME Init PROVE IInv
    OBVIOUS
  <1>1. dataList = << >> /\ expected = InitialSequenceNumber /\ virtualTcpData = 0
    BY DEF Init
  <1>2. AllHeld(<< >>, arrived)
    BY DEF AllHeld
  <1>3. Reached(InitialSequenceNumber, arrived)
    <2>1. Number(0) = InitialSequenceNumber /\ 0 \in 0..(Modulus - 1) /\ 0..(0 - 1) = {}
      BY StreamAssumption DEF Number
    <2> QED BY <2>1 DEF Reached
  <1>4. Cardinality(DOMAIN dataList) \in Nat
    BY <1>1, <1>2, KeysAreFinite DEF AllHeld
  <1> QED BY <1>1, <1>2, <1>3, <1>4 DEF IInv, VirtualTcpDataWithinList

(* The list may grow and the expected number move on, both only over bytes  *)
(* that have arrived; the view does not change.                             *)
LEMMA AddTcpDataKeeps ==
    ASSUME IInv, NEW s \in Segments, AddTcpData(s)
    PROVE  IInv'
  <1> DEFINE p == s.position
             l == s.length
             list == WithEntry(dataList, Number(p), Bytes(p, l))
             now == arrived \cup (p..(p + l - 1))
  <1>1. p \in Nat /\ l \in Nat \ {0} /\ p + l < Modulus
    BY SegmentAssumption
  <1>2. arrived' = now /\ virtualTcpData' = virtualTcpData
    BY DEF AddTcpData
  <1> HIDE DEF p, l
  <1>3. arrived \subseteq now /\ p..(p + l - 1) \subseteq now
    OBVIOUS
  <1> HIDE DEF now
  <1>4. AllHeld(dataList, now) /\ Reached(expected, now)
    BY <1>3, MorePositions DEF IInv
  <1>5. AllHeld(list, now)
    BY <1>1, <1>3, <1>4, WithEntryHeld
  <1>6. DOMAIN list = DOMAIN dataList \cup {Number(p)}
    BY DEF WithEntry
  <1>7. CASE Number(p) \in DOMAIN dataList
    <2>1. dataList' = dataList /\ expected' = expected
      BY <1>7 DEF AddTcpData, p
    <2> QED BY <1>2, <1>4, <2>1 DEF IInv, VirtualTcpDataWithinList
  <1>8. CASE Number(p) \notin DOMAIN dataList
    <2>1. dataList' = list /\ expected' = ExpectedAfter(list, Number(p))
      BY <1>8 DEF AddTcpData, p, l
    <2> HIDE DEF list
    <2>2. Reached(expected', now)
      BY <1>4, <1>5, <2>1, AdvancedReached DEF ExpectedAfter
    <2>3. virtualTcpData <= Cardinality(DOMAIN list)
      <3>1. /\ IsFiniteSet(DOMAIN list) /\ Cardinality(DOMAIN list) \in Nat
            /\ Cardinality(DOMAIN dataList) \in Nat
        BY <1>4, <1>5, KeysAreFinite DEF AllHeld
      <3>2. Cardinality(DOMAIN dataList) <= Cardinality(DOMAIN list)
        BY <1>6, <3>1, FS_Subset
      <3> QED BY <3>1, <3>2 DEF IInv, VirtualTcpDataWithinList
    <2> QED BY <1>2, <1>5, <2>1, <2>2, <2>3 DEF IInv, VirtualTcpDataWithinList
  <1> QED BY <1>7, <1>8

(* The view begins with a packet that is there and grows to one that is.    *)
LEMMA GetNextVirtualTcpDataKeeps ==
    ASSUME IInv, GetNextVirtualTcpData
    PROVE  IInv'
  <1>1. dataList' = dataList /\ expected' = expected /\ arrived' = arrived
    BY DEF GetNextVirtualTcpData
  <1>2. IsFiniteSet(DOMAIN dataList) /\ Cardinality(DOMAIN dataList) \in Nat
    BY KeysAreFinite DEF IInv, AllHeld
  <1>3. CASE virtualTcpData = 0 /\ CountBytesToRead(dataList) > 0 /\ virtualTcpData' = 1
    <2>1. dataList # << >>
      BY <1>3 DEF CountBytesToRead
    <2>2. Cardinality(DOMAIN dataList) >= 1
      BY <2>1, SomeKey DEF IInv
    <2> QED BY <1>1, <1>3, <2>2 DEF IInv, VirtualTcpDataWithinList
  <1>4. CASE CanAppend(virtualTcpData) /\ virtualTcpData' = virtualTcpData + 1
    <2>1. CountPacketsToRead(dataList) > virtualTcpData
      BY <1>4 DEF CanAppend
    <2>2. /\ CountPacketsToRead(dataList) \in Nat
          /\ CountPacketsToRead(dataList) <= Cardinality(DOMAIN dataList)
      BY CountIsNat DEF IInv
    <2>3. virtualTcpData' \in Nat /\ virtualTcpData' <= Cardinality(DOMAIN dataList)
      BY <1>2, <1>4, <2>1, <2>2 DEF IInv
    <2> QED BY <1>1, <2>3 DEF IInv, VirtualTcpDataWithinList
  <1> QED BY <1>3, <1>4 DEF GetNextVirtualTcpData

(* Whatever is removed, the view goes with it.                              *)
LEMMA RemoveDataKeeps ==
    ASSUME IInv, NEW count \in 1..Len(handed), RemoveData(count)
    PROVE  IInv'
  <1>1. /\ dataList' = Removed(dataList, count) /\ virtualTcpData' = 0
        /\ expected' = expected /\ arrived' = arrived
    BY DEF RemoveData
  <1>2. AllHeld(Removed(dataList, count), arrived)
    <2>1. count \in Nat
      OBVIOUS
    <2> QED BY <2>1, RemovedHeld DEF IInv
  <1>3. Cardinality(DOMAIN Removed(dataList, count)) \in Nat
    BY <1>2, KeysAreFinite DEF AllHeld
  <1> QED BY <1>1, <1>2, <1>3 DEF IInv, VirtualTcpDataWithinList

LEMMA ClearKeeps ==
    ASSUME IInv, Clear
    PROVE  IInv'
  <1>1. dataList' = << >> /\ virtualTcpData' = 0 /\ expected' = expected /\ arrived' = arrived
    BY DEF Clear
  <1>2. AllHeld(<< >>, arrived)
    BY DEF AllHeld
  <1>3. Cardinality(DOMAIN << >>) \in Nat
    BY <1>2, KeysAreFinite DEF AllHeld
  <1> QED BY <1>1, <1>2, <1>3 DEF IInv, VirtualTcpDataWithinList

LEMMA OthersKeep ==
    ASSUME IInv, UNCHANGED <<dataList, expected, virtualTcpData, arrived>>
    PROVE  IInv'
  <1>1. /\ dataList' = dataList /\ expected' = expected
        /\ virtualTcpData' = virtualTcpData /\ arrived' = arrived
    OBVIOUS
  <1> QED BY <1>1 DEF IInv, VirtualTcpDataWithinList

LEMMA Invariance == Spec => []IInv
  <1>1. IInv /\ [Next]_vars => IInv'
    <2> SUFFICES ASSUME IInv, [Next]_vars PROVE IInv'
      OBVIOUS
    <2>1. CASE \E s \in Segments : AddTcpData(s)
      BY <2>1, AddTcpDataKeeps
    <2>2. CASE GetAllAvailableTcpData
      <3>1. UNCHANGED <<dataList, expected, virtualTcpData, arrived>>
        BY <2>2 DEF GetAllAvailableTcpData
      <3> QED BY <3>1, OthersKeep
    <2>3. CASE GetNextVirtualTcpData
      BY <2>3, GetNextVirtualTcpDataKeeps
    <2>4. CASE \E count \in 1..Len(handed) : RemoveData(count)
      BY <2>4, RemoveDataKeeps
    <2>5. CASE Return
      BY <2>5, OthersKeep DEF Return
    <2>6. CASE Clear
      BY <2>6, ClearKeeps
    <2>7. CASE UNCHANGED vars
      BY <2>7, OthersKeep DEF vars
    <2> QED BY <2>1, <2>2, <2>3, <2>4, <2>5, <2>6, <2>7 DEF Next
  <1> QED BY <1>1, InitIInv, PTL DEF Spec

(* The expected number never passes a byte that has not arrived: whatever   *)
(* segments come, in whatever order, again or overlapping, while some are   *)
(* read, cut or cleared, and also when the numbers wrap.                    *)
THEOREM NothingSkipped == Spec => []FrontierArrived
  <1>1. IInv => FrontierArrived
    <2> SUFFICES ASSUME IInv PROVE FrontierArrived
      OBVIOUS
    <2>1. PICK x \in 0..(Modulus - 1) : expected = Number(x) /\ 0..(x - 1) \subseteq arrived
      BY DEF IInv, Reached
    <2>2. (expected - InitialSequenceNumber) % Modulus = x
      BY <2>1, NumberFacts
    <2> QED BY <2>1, <2>2 DEF FrontierArrived
  <1> QED BY <1>1, Invariance, PTL

(* The shared view never counts more packets than the list has, so its walk *)
(* along the list stays inside it.                                          *)
THEOREM ViewStaysInside == Spec => []VirtualTcpDataWithinList
  <1>1. IInv => VirtualTcpDataWithinList
    BY DEF IInv
  <1> QED BY <1>1, Invariance, PTL
----------------------------------------------------------------------------
(* The entries in the order of their keys.                                  *)
LEMMA GreatestKey ==
    ASSUME NEW T \in SUBSET SequenceNumbers, T # {}
    PROVE  \E i \in T : \A j \in T : j <= i
  <1> DEFINE D == {Modulus - i : i \in T}
  <1>1. Modulus \in Nat /\ \A i \in T : i \in 0..(Modulus - 1)
    BY StreamAssumption DEF SequenceNumbers
  <1>2. D \in SUBSET Nat /\ D # {}
    BY <1>1
  <1>3. PICK d \in D : \A e \in D : d <= e
    <2> HIDE DEF D
    <2> QED BY <1>2, LeastNumber
  <1>4. PICK i \in T : d = Modulus - i
    OBVIOUS
  <1>5. ASSUME NEW j \in T PROVE j <= i
    <2>1. Modulus - i <= Modulus - j
      BY <1>3, <1>4
    <2> QED BY <2>1, <1>1
  <1> QED BY <1>5

LEMMA LeastKey ==
    ASSUME NEW T \in SUBSET SequenceNumbers, T # {}
    PROVE  \E i \in T : \A j \in T : i <= j
  <1>1. SequenceNumbers \subseteq Nat
    BY StreamAssumption DEF SequenceNumbers
  <1> QED BY <1>1, LeastNumber

LEMMA AheadFacts ==
    ASSUME NEW list, NEW positions, AllHeld(list, positions)
    PROVE  /\ DOMAIN list \subseteq SequenceNumbers /\ DOMAIN list \subseteq Nat
           /\ \A k : /\ Ahead(list, k) \subseteq DOMAIN list /\ IsFiniteSet(Ahead(list, k))
                     /\ Cardinality(Ahead(list, k)) \in Nat
           /\ \A j, k \in DOMAIN list : j < k =>
                 /\ j \in Ahead(list, k) /\ Ahead(list, j) \subseteq Ahead(list, k)
                 /\ j \notin Ahead(list, j)
                 /\ Cardinality(Ahead(list, j)) < Cardinality(Ahead(list, k))
  <1>1. DOMAIN list \subseteq SequenceNumbers /\ DOMAIN list \subseteq Nat
    BY EntryFacts
  <1>2. \A k : Ahead(list, k) \subseteq DOMAIN list
    BY DEF Ahead
  <1>3. ASSUME NEW k
        PROVE  IsFiniteSet(Ahead(list, k)) /\ Cardinality(Ahead(list, k)) \in Nat
    BY <1>2, LengthsFacts, FS_Subset, FS_CardinalityType
  <1>4. ASSUME NEW j \in DOMAIN list, NEW k \in DOMAIN list, j < k
        PROVE  /\ j \in Ahead(list, k) /\ Ahead(list, j) \subseteq Ahead(list, k)
               /\ j \notin Ahead(list, j)
               /\ Cardinality(Ahead(list, j)) < Cardinality(Ahead(list, k))
    <2>1. /\ j \in Ahead(list, k) /\ Ahead(list, j) \subseteq Ahead(list, k)
          /\ j \notin Ahead(list, j)
      BY <1>1, <1>4 DEF Ahead
    <2> DEFINE A == Ahead(list, j)
               B == Ahead(list, k)
    <2>2. A \in SUBSET B /\ A # B /\ IsFiniteSet(B)
      BY <2>1, <1>3
    <2>3. Cardinality(A) \in Nat /\ Cardinality(B) \in Nat
      BY <1>3
    <2> HIDE DEF A, B
    <2>4. Cardinality(A) <= Cardinality(B) /\ (Cardinality(A) = Cardinality(B) => A = B)
      BY <2>2, FS_Subset
    <2>5. Cardinality(A) < Cardinality(B)
      BY <2>2, <2>3, <2>4
    <2> QED BY <2>1, <2>5 DEF A, B
  <1> QED BY <1>1, <1>2, <1>3, <1>4

(* An entry that is not the first follows another directly.                 *)
Precedes(list, j, k) ==
    /\ j \in DOMAIN list /\ j < k
    /\ Ahead(list, k) = Ahead(list, j) \cup {j}
    /\ j \notin Ahead(list, j)
    /\ j = Max({i \in DOMAIN list : i < k})
    /\ BytesBefore(list, k) = BytesBefore(list, j) + Len(list[j])

LEMMA SomePreceding ==
    ASSUME NEW list, NEW positions, AllHeld(list, positions),
           NEW k \in DOMAIN list, Ahead(list, k) # {}
    PROVE  \E j : Precedes(list, j, k)
  <1>1. DOMAIN list \subseteq SequenceNumbers /\ DOMAIN list \subseteq Nat
    BY AheadFacts
  <1>2. Ahead(list, k) \in SUBSET SequenceNumbers
    BY <1>1 DEF Ahead
  <1>3. PICK j \in Ahead(list, k) : \A i \in Ahead(list, k) : i <= j
    BY <1>2, GreatestKey
  <1>4. j \in DOMAIN list /\ j < k
    BY DEF Ahead
  <1>5. Ahead(list, k) = Ahead(list, j) \cup {j} /\ j \notin Ahead(list, j)
    BY <1>1, <1>3, <1>4 DEF Ahead
  <1>6. j = Max({i \in DOMAIN list : i < k})
    <2>1. Max(Ahead(list, k)) = j
      <3>1. \A x, y \in Ahead(list, k) : x >= y /\ y >= x => x = y
        BY <1>1 DEF Ahead
      <3>2. \A y \in Ahead(list, k) : j >= y
        BY <1>1, <1>3, <1>4 DEF Ahead
      <3> QED BY <3>1, <3>2 DEF Max
    <2> QED BY <2>1 DEF Ahead
  <1>7. BytesBefore(list, k) = BytesBefore(list, j) + Len(list[j])
    <2>1. IsFiniteSet(Ahead(list, j))
      BY AheadFacts
    <2>2. \A i \in Ahead(list, j) \cup {j} : Lengths(list)[i] \in Nat
      BY <1>4, LengthsFacts DEF Ahead
    <2>3. SumOf(Ahead(list, j) \cup {j}, Lengths(list))
            = SumOf(Ahead(list, j), Lengths(list)) + Lengths(list)[j]
      BY <1>5, <2>1, <2>2, SumAdd
    <2>4. Lengths(list)[j] = Len(list[j])
      BY <1>4, LengthsFacts
    <2> QED BY <1>5, <2>3, <2>4 DEF BytesBefore
  <1> QED BY <1>4, <1>5, <1>6, <1>7 DEF Precedes

(* An entry ends before the next one begins, and where all bytes end.       *)
LEMMA EntryEnds ==
    ASSUME NEW list, NEW positions, AllHeld(list, positions),
           NEW S \in SUBSET DOMAIN list, NEW j \in DOMAIN list,
           j \in S, Ahead(list, j) \subseteq S
    PROVE  /\ SumOf(S, Lengths(list)) \in Nat
           /\ BytesBefore(list, j) + Len(list[j]) <= SumOf(S, Lengths(list))
  <1> DEFINE f == Lengths(list)
             A == Ahead(list, j)
  <1>1. IsFiniteSet(S) /\ \A i \in S : f[i] \in Nat
    BY LengthsFacts, FS_Subset
  <1>2. A \in SUBSET S /\ j \in S \ A
    BY AheadFacts DEF Ahead
  <1>3. f[j] = Len(list[j])
    BY LengthsFacts
  <1> HIDE DEF f, A
  <1>4. SumOf(S, f) \in Nat /\ \A i \in S \ A : SumOf(A, f) + f[i] <= SumOf(S, f)
    BY <1>1, <1>2, SumPart
  <1> QED BY <1>2, <1>3, <1>4 DEF BytesBefore, f, A

LEMMA EntriesApart ==
    ASSUME NEW list, NEW positions, AllHeld(list, positions),
           NEW j \in DOMAIN list, NEW k \in DOMAIN list, j < k
    PROVE  BytesBefore(list, j) + Len(list[j]) <= BytesBefore(list, k)
  <1>1. /\ Ahead(list, k) \in SUBSET DOMAIN list
        /\ j \in Ahead(list, k) /\ Ahead(list, j) \subseteq Ahead(list, k)
    BY AheadFacts
  <1> QED BY <1>1, EntryEnds DEF BytesBefore

(* A byte falls into one entry at most.                                     *)
LEMMA FallsIntoOne ==
    ASSUME NEW list, NEW positions, AllHeld(list, positions), NEW i \in Nat,
           NEW j \in DOMAIN list, NEW k \in DOMAIN list,
           FallsInto(list, i, j), FallsInto(list, i, k)
    PROVE  j = k
  <1>1. /\ BytesBefore(list, j) \in Nat /\ BytesBefore(list, k) \in Nat
        /\ Len(list[j]) \in Nat /\ Len(list[k]) \in Nat /\ j \in Nat /\ k \in Nat
    BY BytesBeforeIsNat, EntryFacts
  <1>2. ~(j < k)
    BY <1>1, EntriesApart DEF FallsInto
  <1>3. ~(k < j)
    BY <1>1, EntriesApart DEF FallsInto
  <1> QED BY <1>1, <1>2, <1>3

(* A first part of the list: with each entry the ones ahead of it.          *)
FirstPart(list, S) ==
    S \in SUBSET DOMAIN list /\ \A k \in S : Ahead(list, k) \subseteq S

LEMMA FirstEntriesFirst ==
    ASSUME NEW list, NEW positions, AllHeld(list, positions), NEW n \in Nat
    PROVE  /\ FirstPart(list, FirstEntries(list, n))
           /\ FirstPart(list, DOMAIN list)
           /\ n = Cardinality(DOMAIN list) => FirstEntries(list, n) = DOMAIN list
  <1>1. ASSUME NEW k \in FirstEntries(list, n), NEW j \in Ahead(list, k)
        PROVE  j \in FirstEntries(list, n)
    <2>1. /\ k \in DOMAIN list /\ Cardinality(Ahead(list, k)) < n
          /\ j \in DOMAIN list /\ j < k
      BY DEF FirstEntries, Ahead
    <2>2. /\ Cardinality(Ahead(list, j)) < Cardinality(Ahead(list, k))
          /\ Cardinality(Ahead(list, j)) \in Nat /\ Cardinality(Ahead(list, k)) \in Nat
      BY <2>1, AheadFacts
    <2> QED BY <2>1, <2>2 DEF FirstEntries
  <1>2. FirstPart(list, FirstEntries(list, n))
    BY <1>1 DEF FirstPart, FirstEntries
  <1>3. FirstPart(list, DOMAIN list)
    BY DEF FirstPart, Ahead
  <1>4. ASSUME n = Cardinality(DOMAIN list), NEW k \in DOMAIN list
        PROVE  k \in FirstEntries(list, n)
    <2> DEFINE A == Ahead(list, k)
               D == DOMAIN list
    <2>1. A \in SUBSET D /\ A # D /\ IsFiniteSet(D)
      BY AheadFacts, LengthsFacts DEF Ahead
    <2>2. Cardinality(A) \in Nat /\ Cardinality(D) \in Nat
      BY <1>4, AheadFacts
    <2> HIDE DEF A, D
    <2>3. Cardinality(A) <= Cardinality(D) /\ (Cardinality(A) = Cardinality(D) => A = D)
      BY <2>1, FS_Subset
    <2>4. Cardinality(A) < Cardinality(D)
      BY <2>1, <2>2, <2>3
    <2> QED BY <2>4, <1>4 DEF FirstEntries, A, D
  <1>5. n = Cardinality(DOMAIN list) => FirstEntries(list, n) = DOMAIN list
    BY <1>4 DEF FirstEntries
  <1> QED BY <1>2, <1>3, <1>5

(* Every byte of a first part falls into one of its entries.                *)
LEMMA SomeEntry ==
    ASSUME NEW list, NEW positions, AllHeld(list, positions),
           NEW S, FirstPart(list, S), NEW i \in 1..SumOf(S, Lengths(list))
    PROVE  \E k \in S : FallsInto(list, i, k)
  <1> DEFINE End(k) == BytesBefore(list, k) + Len(list[k])
             T == {k \in S : i <= End(k)}
  <1>0. S \in SUBSET DOMAIN list /\ S \in SUBSET SequenceNumbers /\ S \in SUBSET Nat
    BY AheadFacts DEF FirstPart
  <1>1. \A k \in S : BytesBefore(list, k) \in Nat /\ Len(list[k]) \in Nat /\ End(k) \in Nat
    BY <1>0, BytesBeforeIsNat, EntryFacts
  <1>2. S # {}
    <2>1. SumOf({}, Lengths(list)) = 0
      BY SumEmpty
    <2> QED BY <2>1
  <1>3. PICK last \in S : \A k \in S : k <= last
    BY <1>0, <1>2, GreatestKey
  <1>4. End(last) = SumOf(S, Lengths(list))
    <2>1. S = Ahead(list, last) \cup {last} /\ last \notin Ahead(list, last)
      BY <1>0, <1>3 DEF Ahead, FirstPart
    <2>2. IsFiniteSet(Ahead(list, last))
          /\ \A k \in Ahead(list, last) \cup {last} : Lengths(list)[k] \in Nat
      BY <1>0, <2>1, AheadFacts, LengthsFacts
    <2>3. SumOf(Ahead(list, last) \cup {last}, Lengths(list))
            = SumOf(Ahead(list, last), Lengths(list)) + Lengths(list)[last]
      BY <2>1, <2>2, SumAdd
    <2>4. Lengths(list)[last] = Len(list[last])
      BY <1>0, LengthsFacts
    <2> QED BY <2>1, <2>3, <2>4 DEF BytesBefore
  <1>5. T \in SUBSET SequenceNumbers /\ T # {}
    BY <1>0, <1>3, <1>4
  <1>6. PICK k \in T : \A j \in T : k <= j
    <2> HIDE DEF T
    <2> QED BY <1>5, LeastKey
  <1>7. BytesBefore(list, k) < i
    <2>1. CASE Ahead(list, k) = {}
      <3>1. BytesBefore(list, k) = 0
        BY <2>1, SumEmpty DEF BytesBefore
      <3> QED BY <3>1
    <2>2. CASE Ahead(list, k) # {}
      <3>1. k \in DOMAIN list
        BY <1>0
      <3>2. PICK j : Precedes(list, j, k)
        BY <2>2, <3>1, SomePreceding
      <3>3. j \in S
        BY <3>2 DEF Precedes, FirstPart
      <3>4. ~(k <= j)
        BY <1>0, <3>2, <3>3 DEF Precedes
      <3>5. ~(i <= End(j))
        BY <1>6, <3>3, <3>4
      <3>6. BytesBefore(list, k) = End(j)
        BY <3>2 DEF Precedes
      <3> QED BY <3>3, <3>5, <3>6, <1>1
    <2> QED BY <2>1, <2>2
  <1> QED BY <1>7 DEF FallsInto

(* What the first n entries joined are, byte by byte.                       *)
LEMMA ContentFacts ==
    ASSUME NEW list, NEW positions, AllHeld(list, positions), NEW n \in Nat
    PROVE  /\ SumOf(FirstEntries(list, n), Lengths(list)) \in Nat
           /\ Content(list, n) \in Seq(Nat)
           /\ Len(Content(list, n)) = SumOf(FirstEntries(list, n), Lengths(list))
           /\ \A k \in FirstEntries(list, n) : \A i \in Nat : FallsInto(list, i, k) =>
                 /\ i \in 1..Len(Content(list, n))
                 /\ i - BytesBefore(list, k) \in 1..Len(list[k])
                 /\ Content(list, n)[i] = list[k][i - BytesBefore(list, k)]
  <1> DEFINE S == FirstEntries(list, n)
             total == SumOf(S, Lengths(list))
             Source(i) == CHOOSE k \in S : FallsInto(list, i, k)
             c == Content(list, n)
  <1>1. FirstPart(list, S) /\ S \in SUBSET DOMAIN list
    BY FirstEntriesFirst DEF FirstPart
  <1>2. IsFiniteSet(S) /\ \A k \in S : Lengths(list)[k] \in Nat
    BY <1>1, LengthsFacts, FS_Subset
  <1>3. total \in Nat
    <2> HIDE DEF S
    <2> QED BY <1>2, SumType
  <1>4. c = [i \in 1..total |-> list[Source(i)][i - BytesBefore(list, Source(i))]]
    BY DEF Content
  <1> HIDE DEF c, S
  <1>5. ASSUME NEW i \in 1..total PROVE Source(i) \in S /\ FallsInto(list, i, Source(i))
    BY <1>1, SomeEntry
  <1> HIDE DEF total
  <1>6. ASSUME NEW k \in S, NEW i \in Nat, FallsInto(list, i, k)
        PROVE  /\ i - BytesBefore(list, k) \in 1..Len(list[k])
               /\ list[k][i - BytesBefore(list, k)] \in Nat
               /\ i \in 1..total
    <2>1. /\ k \in DOMAIN list /\ BytesBefore(list, k) \in Nat
          /\ Len(list[k]) \in Nat /\ list[k] \in Seq(Nat)
      BY <1>1, BytesBeforeIsNat, EntryFacts
    <2>2. i - BytesBefore(list, k) \in 1..Len(list[k])
      BY <1>6, <2>1 DEF FallsInto
    <2>3. BytesBefore(list, k) + Len(list[k]) <= total
      BY <1>1, <2>1, EntryEnds DEF FirstPart, total
    <2> QED BY <1>3, <1>6, <2>1, <2>2, <2>3 DEF FallsInto
  <1>7. ASSUME NEW i \in 1..total PROVE list[Source(i)][i - BytesBefore(list, Source(i))] \in Nat
    <2>1. i \in Nat
      BY <1>3
    <2> QED BY <2>1, <1>5, <1>6
  <1> HIDE DEF Source
  <1>8. c \in [1..total -> Nat]
    BY <1>4, <1>7
  <1>9. c \in Seq(Nat) /\ Len(c) = total
    BY <1>3, <1>8
  <1>10. ASSUME NEW k \in S, NEW i \in Nat, FallsInto(list, i, k)
         PROVE  c[i] = list[k][i - BytesBefore(list, k)]
    <2>1. i \in 1..total
      BY <1>6, <1>10
    <2>2. Source(i) \in S /\ FallsInto(list, i, Source(i))
      BY <2>1, <1>5
    <2>3. Source(i) = k
      BY <1>1, <1>10, <2>2, FallsIntoOne
    <2> QED BY <2>1, <2>3, <1>4
  <1> QED BY <1>3, <1>6, <1>9, <1>10 DEF c, total, S
----------------------------------------------------------------------------
(* Entries that continue one another hold a piece of the stream.            *)
Continue(list, S) ==
    \A k \in S : Ahead(list, k) # {} => k = EndOfPrevious(list, k)

GapFree(s) == \A i \in 1..(Len(s) - 1) : s[i + 1] = s[i] + 1

LEMMA ContinuingStarts ==
    ASSUME NEW list, NEW positions, AllHeld(list, positions),
           NEW S, FirstPart(list, S), Continue(list, S)
    PROVE  \E b \in Nat : \A k \in S : Start(list, k) = b + BytesBefore(list, k)
  <1>0. /\ S \in SUBSET DOMAIN list /\ S \in SUBSET SequenceNumbers /\ S \in SUBSET Nat
        /\ DOMAIN list \subseteq Nat
    BY AheadFacts DEF FirstPart
  <1>1. CASE S = {}
    BY <1>1
  <1>2. CASE S # {}
    <2>1. PICK f \in S : \A k \in S : f <= k
      BY <1>0, <1>2, LeastKey
    <2> DEFINE b == Start(list, f)
               bad == {k \in S : Start(list, k) # b + BytesBefore(list, k)}
    <2>2. b \in Nat
      BY <1>0, EntryFacts
    <2> HIDE DEF b
    <2>3. Ahead(list, f) = {}
      <3> SUFFICES ASSUME NEW j \in Ahead(list, f) PROVE FALSE
        OBVIOUS
      <3>1. j \in S /\ j < f
        BY DEF FirstPart, Ahead
      <3>2. f <= j /\ f \in Nat /\ j \in Nat
        BY <1>0, <2>1, <3>1
      <3> QED BY <3>1, <3>2
    <2>4. BytesBefore(list, f) = 0
      BY <2>3, SumEmpty DEF BytesBefore
    <2>5. ASSUME bad # {} PROVE FALSE
      <3>1. PICK k \in bad : \A j \in bad : k <= j
        <4>1. bad \in SUBSET SequenceNumbers
          BY <1>0
        <4> HIDE DEF bad
        <4> QED BY <2>5, <4>1, LeastKey
      <3>2. k \in S /\ k \in DOMAIN list /\ Start(list, k) # b + BytesBefore(list, k)
        BY <1>0
      <3>3. k # f
        BY <2>2, <2>4, <3>2 DEF b
      <3>4. f \in Ahead(list, k)
        BY <1>0, <2>1, <3>2, <3>3 DEF Ahead
      <3>5. PICK j : Precedes(list, j, k)
        <4>1. Ahead(list, k) # {}
          BY <3>4
        <4> QED BY <3>2, <4>1, SomePreceding
      <3>6. j \in S /\ j \in DOMAIN list /\ j < k
        BY <3>2, <3>5 DEF Precedes, FirstPart
      <3>7. Start(list, j) = b + BytesBefore(list, j)
        <4>1. j \in Nat /\ k \in Nat
          BY <1>0, <3>2, <3>6
        <4>2. j \notin bad
          <5> HIDE DEF bad
          <5> QED BY <3>1, <3>6, <4>1
        <4> QED BY <3>6, <4>2
      <3>8. k = After(j, Len(list[j]))
        BY <3>2, <3>4, <3>5 DEF Continue, EndOfPrevious, Precedes
      <3>9. /\ Start(list, j) \in Nat /\ Len(list[j]) \in Nat
            /\ Start(list, j) + Len(list[j]) < Modulus /\ j = Number(Start(list, j))
        BY <3>6, EntryFacts
      <3>10. k = Number(Start(list, j) + Len(list[j]))
        BY <3>8, <3>9, AfterNumber
      <3>11. /\ Start(list, k) \in Nat /\ Start(list, k) < Modulus
             /\ k = Number(Start(list, k))
        <4>1. /\ Start(list, k) \in Nat /\ Len(list[k]) \in Nat
              /\ Start(list, k) + Len(list[k]) < Modulus
              /\ k = Number(Start(list, k))
          BY <3>2, EntryFacts
        <4> QED BY <4>1, StreamAssumption
      <3>12. Start(list, k) = Start(list, j) + Len(list[j])
        <4>1. /\ Start(list, k) \in 0..(Modulus - 1)
              /\ Start(list, j) + Len(list[j]) \in 0..(Modulus - 1)
          BY <3>9, <3>11, StreamAssumption
        <4> QED BY <3>10, <3>11, <4>1, NumberIsOnePosition
      <3>13. /\ BytesBefore(list, k) = BytesBefore(list, j) + Len(list[j])
             /\ BytesBefore(list, j) \in Nat
        BY <3>5, BytesBeforeIsNat DEF Precedes
      <3> QED BY <2>2, <3>2, <3>7, <3>9, <3>12, <3>13
    <2>6. \A k \in S : Start(list, k) = b + BytesBefore(list, k)
      BY <2>5
    <2> HIDE DEF bad
    <2> WITNESS b \in Nat
    <2> QED BY <2>6
  <1> QED BY <1>1, <1>2

LEMMA ContinuingIsGapFree ==
    ASSUME NEW list, NEW positions, AllHeld(list, positions), NEW n \in Nat,
           Continue(list, FirstEntries(list, n))
    PROVE  Content(list, n) \in Seq(Nat) /\ GapFree(Content(list, n))
  <1> DEFINE c == Content(list, n)
             S == FirstEntries(list, n)
  <1>1. FirstPart(list, S) /\ S \in SUBSET DOMAIN list
    BY FirstEntriesFirst DEF FirstPart
  <1>2. /\ c \in Seq(Nat) /\ Len(c) = SumOf(S, Lengths(list)) /\ Len(c) \in Nat
        /\ \A k \in S : \A i \in Nat : FallsInto(list, i, k) =>
              /\ i - BytesBefore(list, k) \in 1..Len(list[k])
              /\ c[i] = list[k][i - BytesBefore(list, k)]
    BY ContentFacts
  <1>3. PICK b \in Nat : \A k \in S : Start(list, k) = b + BytesBefore(list, k)
    <2>1. Continue(list, S)
      OBVIOUS
    <2> HIDE DEF S
    <2> QED BY <1>1, <2>1, ContinuingStarts
  <1> HIDE DEF c, S
  <1>4. ASSUME NEW i \in 1..Len(c) PROVE c[i] = b + i - 1
    <2>1. i \in 1..SumOf(S, Lengths(list)) /\ i \in Nat
      BY <1>2
    <2>2. PICK k \in S : FallsInto(list, i, k)
      BY <1>1, <2>1, SomeEntry
    <2>3. /\ i - BytesBefore(list, k) \in 1..Len(list[k])
          /\ c[i] = list[k][i - BytesBefore(list, k)]
      BY <1>2, <2>1, <2>2
    <2>4. k \in DOMAIN list
      BY <1>1
    <2>5. \A m \in 1..Len(list[k]) : list[k][m] = Start(list, k) + m - 1
      BY <2>4, EntryFacts
    <2>6. c[i] = Start(list, k) + (i - BytesBefore(list, k)) - 1
      BY <2>3, <2>5
    <2>7. Start(list, k) = b + BytesBefore(list, k) /\ BytesBefore(list, k) \in Nat
      BY <1>3, BytesBeforeIsNat
    <2> QED BY <2>1, <2>6, <2>7
  <1>5. GapFree(c)
    <2> SUFFICES ASSUME NEW i \in 1..(Len(c) - 1) PROVE c[i + 1] = c[i] + 1
      BY DEF GapFree
    <2>1. i \in 1..Len(c) /\ i + 1 \in 1..Len(c)
      BY <1>2
    <2> QED BY <1>4, <2>1
  <1> QED BY <1>2, <1>5 DEF c

(* The entries that CountPacketsToRead counts come first and continue one   *)
(* another; one entry alone does so too.                                    *)
LEMMA CountedContinue ==
    ASSUME NEW list, NEW positions, AllHeld(list, positions), NEW n \in Nat,
           n <= 1 \/ n <= CountPacketsToRead(list)
    PROVE  Continue(list, FirstEntries(list, n))
  <1> SUFFICES ASSUME NEW k \in FirstEntries(list, n), Ahead(list, k) # {}
               PROVE  k = EndOfPrevious(list, k)
    BY DEF Continue
  <1>0. /\ k \in DOMAIN list /\ Cardinality(Ahead(list, k)) < n
        /\ Cardinality(Ahead(list, k)) \in Nat
        /\ DOMAIN list \subseteq SequenceNumbers /\ DOMAIN list \subseteq Nat
    BY AheadFacts DEF FirstEntries
  <1>1. CASE n <= 1
    <2>1. Cardinality(Ahead(list, k)) = 0
      BY <1>0, <1>1
    <2>2. IsFiniteSet(Ahead(list, k))
      BY AheadFacts
    <2> QED BY <2>1, <2>2, FS_EmptySet
  <1>2. CASE n <= CountPacketsToRead(list)
    <2> DEFINE continuing ==
                   {last \in DOMAIN list :
                       \A key \in DOMAIN list :
                           FirstKey(list) < key /\ key <= last => key = EndOfPrevious(list, key)}
    <2>1. CountPacketsToRead(list) = Cardinality(continuing)
      BY DEF CountPacketsToRead
    <2>2. FirstKey(list) < k
      <3>1. PICK j \in Ahead(list, k) : TRUE
        OBVIOUS
      <3>2. j \in DOMAIN list /\ j < k
        BY <3>1 DEF Ahead
      <3>3. PICK f \in DOMAIN list : \A i \in DOMAIN list : f <= i
        <4>1. DOMAIN list # {}
          BY <3>2
        <4> QED BY <1>0, <4>1, LeastKey
      <3>4. FirstKey(list) = f
        <4>1. \A x \in DOMAIN list : (\A y \in DOMAIN list : x <= y) => x = f
          BY <1>0, <3>3
        <4> QED BY <3>3, <4>1 DEF FirstKey, Min
      <3>5. f <= j /\ f \in Nat /\ j \in Nat /\ k \in Nat
        BY <1>0, <3>2, <3>3
      <3> QED BY <3>2, <3>4, <3>5
    <2>3. CASE k \in continuing
      <3>1. k <= k
        BY <1>0
      <3> QED BY <2>2, <2>3, <3>1, <1>0
    <2>4. CASE k \notin continuing
      <3>1. continuing \in SUBSET Ahead(list, k)
        <4> SUFFICES ASSUME NEW c \in continuing PROVE c \in Ahead(list, k)
          OBVIOUS
        <4>1. c \in DOMAIN list /\ c \in Nat /\ k \in Nat
          BY <1>0
        <4>2. ASSUME k <= c PROVE FALSE
          <5>1. \A key \in DOMAIN list : key <= k => key <= c
            BY <1>0, <4>1, <4>2
          <5>2. k \in continuing
            BY <1>0, <5>1
          <5> QED BY <2>4, <5>2
        <4> QED BY <4>1, <4>2 DEF Ahead
      <3>2. IsFiniteSet(Ahead(list, k))
        BY AheadFacts
      <3> HIDE DEF continuing
      <3>3. Cardinality(continuing) <= Cardinality(Ahead(list, k)) /\ Cardinality(continuing) \in Nat
        BY <3>1, <3>2, FS_Subset, FS_CardinalityType
      <3> QED BY <1>0, <1>2, <2>1, <3>3
    <2> QED BY <2>3, <2>4
  <1> QED BY <1>1, <1>2

----------------------------------------------------------------------------
(* How many entries the reader is given.                                    *)
Given(n) == n \in Nat /\ (n <= 1 \/ n <= CountPacketsToRead(dataList))

LEMMA GetAllGives ==
    ASSUME IInv, GetAllAvailableTcpData
    PROVE  \E n : Given(n) /\ handed' = Content(dataList, n) /\ dataList' = dataList
  <1> DEFINE Longest(m) == ~CanAppend(m) /\ \A k \in 1..(m - 1) : CanAppend(k)
             T == {m \in 1..MaxPacketFragments : ~CanAppend(m)}
             n == CHOOSE m \in 1..MaxPacketFragments : Longest(m)
  <1>1. MaxPacketFragments \in Nat \ {0}
    BY StreamAssumption
  <1>2. ~CanAppend(MaxPacketFragments)
    BY <1>1 DEF CanAppend
  <1>3. T \in SUBSET Nat /\ T # {}
    BY <1>1, <1>2
  <1>4. PICK m \in T : \A j \in T : m <= j
    <2> HIDE DEF T
    <2> QED BY <1>3, LeastNumber
  <1>5. m \in 1..MaxPacketFragments /\ Longest(m)
    <2>1. \A k \in 1..(m - 1) : k \in 1..MaxPacketFragments /\ ~(m <= k)
      BY <1>1, <1>4
    <2>2. \A k \in 1..(m - 1) : k \notin T
      <3> HIDE DEF T
      <3> QED BY <1>4, <2>1
    <2> QED BY <2>1, <2>2
  <1>6. n \in 1..MaxPacketFragments /\ Longest(n)
    <2> HIDE DEF Longest
    <2> QED BY <1>5
  <1>7. handed' = Content(dataList, n) /\ dataList' = dataList
    BY DEF GetAllAvailableTcpData
  <1> HIDE DEF n
  <1>8. Given(n)
    <2>1. CASE n = 1
      BY <2>1 DEF Given
    <2>2. CASE n # 1
      <3>1. n - 1 \in 1..(n - 1) /\ n \in Nat
        BY <1>1, <1>6, <2>2
      <3>2. CountPacketsToRead(dataList) > n - 1
        BY <1>6, <3>1 DEF CanAppend
      <3>3. n <= CountPacketsToRead(dataList)
        <4>1. CountPacketsToRead(dataList) \in Nat
          BY CountIsNat DEF IInv
        <4> QED BY <3>1, <3>2, <4>1
      <3> QED BY <3>1, <3>3 DEF Given
    <2> QED BY <2>1, <2>2
  <1> QED BY <1>7, <1>8
LEMMA GetNextGives ==
    ASSUME IInv, GetNextVirtualTcpData
    PROVE  \E n : Given(n) /\ handed' = Content(dataList, n) /\ dataList' = dataList
  <1> DEFINE n == virtualTcpData'
  <1>1. handed' = Content(dataList, n) /\ dataList' = dataList
    BY DEF GetNextVirtualTcpData
  <1>2. CountPacketsToRead(dataList) \in Nat /\ virtualTcpData \in Nat
    BY CountIsNat DEF IInv
  <1>3. n = 1 \/ (n = virtualTcpData + 1 /\ CountPacketsToRead(dataList) > virtualTcpData)
    BY DEF GetNextVirtualTcpData, CanAppend
  <1>4. Given(n)
    BY <1>2, <1>3 DEF Given
  <1> HIDE DEF n
  <1> QED BY <1>1, <1>4

HInv == handed \in Seq(Nat) /\ HandedIsGapFree

LEMMA HInvStep == IInv /\ HInv /\ [Next]_vars => HInv'
  <1> SUFFICES ASSUME IInv, HInv, [Next]_vars PROVE HInv'
    OBVIOUS
  <1>1. ASSUME NEW n, Given(n), handed' = Content(dataList, n) PROVE HInv'
    <2>1. Content(dataList, n) \in Seq(Nat) /\ GapFree(Content(dataList, n))
      <3>1. n \in Nat /\ AllHeld(dataList, arrived)
        BY <1>1 DEF Given, IInv
      <3>2. Continue(dataList, FirstEntries(dataList, n))
        BY <1>1, <3>1, CountedContinue DEF Given
      <3> QED BY <3>1, <3>2, ContinuingIsGapFree
    <2> QED BY <1>1, <2>1 DEF HInv, HandedIsGapFree, GapFree
  <1>2. CASE GetAllAvailableTcpData
    BY <1>1, <1>2, GetAllGives
  <1>3. CASE GetNextVirtualTcpData
    BY <1>1, <1>3, GetNextGives
  <1>4. CASE \E count \in 1..Len(handed) : RemoveData(count)
    <2>1. PICK count \in 1..Len(handed) : handed' = SubSeq(handed, count + 1, Len(handed))
      BY <1>4 DEF RemoveData, Remainder
    <2> DEFINE r == SubSeq(handed, count + 1, Len(handed))
    <2>2. /\ handed \in Seq(Nat) /\ Len(handed) \in Nat
          /\ \A i \in 1..(Len(handed) - 1) : handed[i + 1] = handed[i] + 1
      BY DEF HInv, HandedIsGapFree
    <2>3. /\ r \in Seq(Nat) /\ Len(r) = Len(handed) - count
          /\ \A i \in 1..(Len(handed) - count) : r[i] = handed[i + count]
      <3>1. count + 1 \in Int /\ Len(handed) \in Int
            /\ \A i \in (count + 1)..Len(handed) : handed[i] \in Nat
        BY <2>2
      <3>2. /\ r \in Seq(Nat)
            /\ Len(r) = (IF count + 1 <= Len(handed) THEN Len(handed) - (count + 1) + 1 ELSE 0)
            /\ \A i \in 1..(Len(handed) - (count + 1) + 1) : r[i] = handed[(count + 1) + i - 1]
        BY <3>1, SubSeqProperties
      <3>3. \A l, c \in Nat : c \in 1..l =>
              /\ (IF c + 1 <= l THEN l - (c + 1) + 1 ELSE 0) = l - c
              /\ \A i \in 1..(l - c) : i \in 1..(l - (c + 1) + 1) /\ (c + 1) + i - 1 = i + c
        OBVIOUS
      <3> HIDE DEF r
      <3> QED BY <2>2, <3>2, <3>3
    <2> HIDE DEF r
    <2>4. ASSUME NEW i \in 1..(Len(r) - 1) PROVE r[i + 1] = r[i] + 1
      <3>1. /\ i \in 1..(Len(handed) - count) /\ i + 1 \in 1..(Len(handed) - count)
            /\ i + count \in 1..(Len(handed) - 1) /\ (i + 1) + count = (i + count) + 1
        BY <2>2, <2>3
      <3>2. r[i] = handed[i + count] /\ r[i + 1] = handed[(i + count) + 1]
        BY <2>3, <3>1
      <3> QED BY <2>2, <3>1, <3>2
    <2> QED BY <2>1, <2>3, <2>4 DEF HInv, HandedIsGapFree, r
  <1>5. CASE UNCHANGED handed
    BY <1>5 DEF HInv, HandedIsGapFree
  <1>6. CASE handed' = << >>
    BY <1>6 DEF HInv, HandedIsGapFree
  <1>7. \/ GetAllAvailableTcpData \/ GetNextVirtualTcpData
        \/ \E count \in 1..Len(handed) : RemoveData(count)
        \/ UNCHANGED handed \/ handed' = << >>
    BY DEF Next, vars, AddTcpData, Return, Clear
  <1> QED BY <1>2, <1>3, <1>4, <1>5, <1>6, <1>7

(* What a reader is given, and what is left of it after each removal, is a  *)
(* piece of the stream: no byte missing, repeated or out of place.          *)
THEOREM ReaderGetsPieces == Spec => []HandedIsGapFree
  <1>1. Init => HInv
    BY DEF Init, HInv, HandedIsGapFree
  <1>2. HInv => HandedIsGapFree
    BY DEF HInv
  <1>3. IInv /\ HInv /\ [Next]_vars => HInv'
    BY HInvStep
  <1> QED BY <1>1, <1>2, <1>3, Invariance, PTL DEF Spec

----------------------------------------------------------------------------
(* What the reader holds stays in front of the list.                        *)
LEMMA PrefixIs ==
    ASSUME NEW s \in Seq(Nat), NEW t \in Seq(Nat)
    PROVE  IsPrefix(s, t) <=> Len(s) <= Len(t) /\ \A i \in 1..Len(s) : s[i] = t[i]
  <1> DEFINE a == SubSeq(s, 1, Len(s))
             b == SubSeq(t, 1, Len(s))
  <1>1. Len(s) \in Nat /\ Len(t) \in Nat
    OBVIOUS
  <1>2. a = s
    BY <1>1
  <1>3. CASE Len(s) <= Len(t)
    <2>1. b \in Seq(Nat) /\ Len(b) = Len(s) /\ \A i \in 1..Len(s) : b[i] = t[i]
      BY <1>1, <1>3
    <2> HIDE DEF b
    <2>2. s = b <=> \A i \in 1..Len(s) : s[i] = b[i]
      BY <2>1, SeqEqual
    <2> QED BY <1>2, <1>3, <2>1, <2>2 DEF IsPrefix, b
  <1>4. CASE ~(Len(s) <= Len(t))
    BY <1>4 DEF IsPrefix
  <1> QED BY <1>3, <1>4

(* All entries joined.                                                      *)
LEMMA AllContentFacts ==
    ASSUME NEW list, NEW positions, AllHeld(list, positions)
    PROVE  LET c == AllContent(list)
           IN  /\ c \in Seq(Nat) /\ Len(c) = SumOf(DOMAIN list, Lengths(list)) /\ Len(c) \in Nat
               /\ \A k \in DOMAIN list : \A i \in Nat : FallsInto(list, i, k) =>
                     i \in 1..Len(c) /\ c[i] = list[k][i - BytesBefore(list, k)]
               /\ \A i \in 1..Len(c) : \E k \in DOMAIN list : FallsInto(list, i, k)
  <1> DEFINE n == Cardinality(DOMAIN list)
  <1>1. n \in Nat
    BY LengthsFacts, FS_CardinalityType
  <1> HIDE DEF n
  <1>2. FirstPart(list, DOMAIN list) /\ (n = Cardinality(DOMAIN list) => FirstEntries(list, n) = DOMAIN list)
    BY <1>1, FirstEntriesFirst
  <1>3. FirstEntries(list, n) = DOMAIN list /\ AllContent(list) = Content(list, n)
    BY <1>2 DEF n, AllContent
  <1>4. /\ SumOf(FirstEntries(list, n), Lengths(list)) \in Nat
        /\ Content(list, n) \in Seq(Nat)
        /\ Len(Content(list, n)) = SumOf(FirstEntries(list, n), Lengths(list))
        /\ \A k \in FirstEntries(list, n) : \A i \in Nat : FallsInto(list, i, k) =>
                 /\ i \in 1..Len(Content(list, n))
                 /\ i - BytesBefore(list, k) \in 1..Len(list[k])
                 /\ Content(list, n)[i] = list[k][i - BytesBefore(list, k)]
    BY <1>1, ContentFacts
  <1>5. \A i \in 1..SumOf(DOMAIN list, Lengths(list)) : \E k \in DOMAIN list : FallsInto(list, i, k)
    BY <1>2, SomeEntry
  <1> QED BY <1>3, <1>4, <1>5

(* The first entries joined come first in all of them.                      *)
LEMMA FirstEntriesInFront ==
    ASSUME NEW list, NEW positions, AllHeld(list, positions), NEW n \in Nat
    PROVE  IsPrefix(Content(list, n), AllContent(list))
  <1> DEFINE c == Content(list, n)
             all == AllContent(list)
             S == FirstEntries(list, n)
  <1>1. FirstPart(list, S) /\ S \in SUBSET DOMAIN list
    BY FirstEntriesFirst DEF FirstPart
  <1>2. /\ c \in Seq(Nat) /\ Len(c) = SumOf(S, Lengths(list)) /\ Len(c) \in Nat
        /\ \A k \in S : \A i \in Nat : FallsInto(list, i, k) =>
              c[i] = list[k][i - BytesBefore(list, k)]
    BY ContentFacts
  <1>3. /\ all \in Seq(Nat) /\ Len(all) \in Nat /\ Len(all) = SumOf(DOMAIN list, Lengths(list))
        /\ \A k \in DOMAIN list : \A i \in Nat : FallsInto(list, i, k) =>
              all[i] = list[k][i - BytesBefore(list, k)]
    BY AllContentFacts
  <1>4. Len(c) <= Len(all)
    <2>1. IsFiniteSet(DOMAIN list) /\ \A i \in DOMAIN list : Lengths(list)[i] \in Nat
      BY LengthsFacts
    <2>2. SumOf(S, Lengths(list)) <= SumOf(DOMAIN list, Lengths(list))
      BY <1>1, <2>1, SumPart
    <2> QED BY <1>2, <1>3, <2>2
  <1> HIDE DEF c, all, S
  <1>5. ASSUME NEW i \in 1..Len(c) PROVE c[i] = all[i]
    <2>1. i \in 1..SumOf(S, Lengths(list)) /\ i \in Nat
      BY <1>2
    <2>2. PICK k \in S : FallsInto(list, i, k)
      BY <1>1, <2>1, SomeEntry
    <2> QED BY <1>1, <1>2, <1>3, <2>1, <2>2
  <1>6. IsPrefix(c, all)
    BY <1>2, <1>3, <1>4, <1>5, PrefixIs
  <1> QED BY <1>6 DEF c, all

----------------------------------------------------------------------------
(* Removal from a list without overlaps.                                    *)
Apart(list) ==
    \A j, k \in DOMAIN list : j # k => ToSet(list[j]) \cap ToSet(list[k]) = {}

(* The rest of an entry has a number before those of the next ones, and if  *)
(* it wraps.                                                                *)
LEMMA RestComesFirst ==
    ASSUME NEW list, NEW positions, AllHeld(list, positions), Apart(list),
           NEW j \in DOMAIN list, NEW k \in DOMAIN list, j < k,
           NEW cut \in Nat, cut > 0, cut < Len(list[j])
    PROVE  After(j, cut) \in Nat /\ After(j, cut) < k
  <1>1. Modulus \in Nat \ {0}
    BY StreamAssumption
  <1> DEFINE p == Start(list, j)
             l == Len(list[j])
             q == Start(list, k)
             m == Len(list[k])
  <1>2. /\ j \in SequenceNumbers /\ j \in Nat /\ p \in Nat /\ l \in Nat \ {0} /\ p + l < Modulus
        /\ j = Number(p) /\ list[j] \in Seq(Nat)
        /\ \A i \in 1..l : list[j][i] = p + i - 1
    BY EntryFacts
  <1>3. /\ k \in SequenceNumbers /\ k \in Nat /\ q \in Nat /\ m \in Nat \ {0} /\ q + m < Modulus
        /\ k = Number(q) /\ list[k] \in Seq(Nat)
        /\ \A i \in 1..m : list[k][i] = q + i - 1
    BY EntryFacts
  <1>4. cut < l /\ j < k /\ cut \in Nat
    OBVIOUS
  <1> HIDE DEF p, q, m, l
  <1>5. \A a \in Nat : a < 2 * Modulus => a % Modulus = IF a < Modulus THEN a ELSE a - Modulus
    BY <1>1
  <1>6. After(j, cut) = IF j + cut < Modulus THEN j + cut ELSE (j + cut) - Modulus
    <2>1. j + cut \in Nat /\ j + cut < 2 * Modulus
      BY <1>1, <1>2, <1>4 DEF SequenceNumbers
    <2> DEFINE a == j + cut
    <2>2. a \in Nat /\ a < 2 * Modulus /\ After(j, cut) = a % Modulus
      BY <2>1 DEF After
    <2> HIDE DEF a
    <2>3. After(j, cut) = IF a < Modulus THEN a ELSE a - Modulus
      BY ONLY <1>5, <2>2
    <2> QED BY <2>3 DEF a
  <1>7. CASE ~(j + cut < Modulus)
    <2>1. (j + cut) - Modulus < j /\ (j + cut) - Modulus \in Nat
      BY <1>1, <1>2, <1>4, <1>7
    <2> QED BY <1>2, <1>3, <1>6, <1>7, <2>1
  <1>8. CASE j + cut < Modulus
    <2>1. ASSUME ~(j + cut < k) PROVE FALSE
      <3> DEFINE d == k - j
      <3>1. d \in Nat /\ d > 0 /\ d <= cut /\ j + d = k /\ d + 1 \in 1..l /\ p + d < Modulus
        <4>1. \A x, y, z, a, b, c, e \in Int :
                 (x < y /\ ~(x + z < y) /\ z < a /\ b + a < c /\ e = y - x) =>
                 e \in Int /\ e > 0 /\ e <= z /\ x + e = y /\ e + 1 <= a /\ 1 <= e + 1 /\ b + e < c
          OBVIOUS
        <4>2. j \in Int /\ k \in Int /\ cut \in Int /\ l \in Int /\ p \in Int /\ Modulus \in Int /\ d \in Int
          BY <1>1, <1>2, <1>3
        <4>3. p + l < Modulus /\ d = k - j
          BY <1>2
        <4> HIDE DEF d
        <4>4. d > 0 /\ d <= cut /\ j + d = k /\ d + 1 <= l /\ 1 <= d + 1 /\ p + d < Modulus
          BY ONLY <1>4, <2>1, <4>1, <4>2, <4>3
        <4> QED BY ONLY <4>2, <4>4
      <3> HIDE DEF d
      <3>2. After(j, d) = k
        <4>1. j + d < Modulus /\ j + d \in Nat /\ j + d < 2 * Modulus
          BY <1>1, <1>2, <1>8, <3>1
        <4> QED BY <1>5, <3>1, <4>1 DEF After
      <3>3. After(j, d) = Number(p + d)
        BY <1>2, <3>1, AfterNumber
      <3>4. q = p + d
        <4>1. q \in 0..(Modulus - 1) /\ p + d \in 0..(Modulus - 1)
          BY <1>1, <1>2, <1>3, <3>1
        <4>2. Number(q) = Number(p + d)
          BY <1>3, <3>2, <3>3
        <4> QED BY <4>1, <4>2, NumberIsOnePosition
      <3>5. list[j][d + 1] = p + d /\ d + 1 \in DOMAIN list[j]
        <4>1. DOMAIN list[j] = 1..l
          BY <1>2 DEF l
        <4>2. list[j][d + 1] = p + (d + 1) - 1
          BY <1>2, <3>1
        <4> QED BY <1>2, <3>1, <4>1, <4>2
      <3>6. list[k][1] = q /\ 1 \in DOMAIN list[k]
        <4>1. DOMAIN list[k] = 1..m
          BY <1>3 DEF m
        <4> QED BY <1>3, <4>1
      <3>7. q \in ToSet(list[j]) /\ q \in ToSet(list[k])
        BY <3>4, <3>5, <3>6 DEF ToSet
      <3>8. j # k
        BY <1>2, <1>3
      <3> QED BY <3>7, <3>8 DEF Apart
    <2> QED BY <1>2, <1>6, <1>8, <2>1
  <1> QED BY <1>7, <1>8

(* All that is left is what came behind the bytes removed.                  *)
LEMMA RemovedContent ==
    ASSUME NEW list, NEW positions, AllHeld(list, positions), Apart(list),
           NEW count \in Nat, count > 0, count <= Len(AllContent(list))
    PROVE  LET all == AllContent(list)
               left == AllContent(Removed(list, count))
           IN  /\ left \in Seq(Nat) /\ Len(left) = Len(all) - count
               /\ \A i \in 1..Len(left) : left[i] = all[count + i]
  <1> DEFINE all == AllContent(list)
             M == Removed(list, count)
             new == AllContent(M)
  <1>1. /\ all \in Seq(Nat) /\ Len(all) = SumOf(DOMAIN list, Lengths(list)) /\ Len(all) \in Nat
        /\ \A k \in DOMAIN list : \A i \in Nat : FallsInto(list, i, k) =>
              i \in 1..Len(all) /\ all[i] = list[k][i - BytesBefore(list, k)]
    BY AllContentFacts
  <1>2. PICK j \in DOMAIN list : FallsInto(list, count, j)
    <2>1. count \in 1..Len(all)
      BY <1>1
    <2> QED BY <2>1, AllContentFacts
  <1> DEFINE before == BytesBefore(list, j)
             end == before + Len(list[j])
             cut == count - before
             over == end - count
             W == Ahead(list, j) \cup {j}
             R == DOMAIN list \ W
             r == After(j, cut)
             X == IF over = 0 THEN {} ELSE {r}
  <1>3. /\ before \in Nat /\ Len(list[j]) \in Nat /\ before < count /\ count <= end
        /\ cut \in Nat /\ cut > 0 /\ over \in Nat /\ cut <= Len(list[j]) /\ over = Len(list[j]) - cut
        /\ list[j] \in Seq(Nat) /\ end \in Nat
    <2>1. before \in Nat /\ Len(list[j]) \in Nat /\ list[j] \in Seq(Nat)
      BY BytesBeforeIsNat, EntryFacts
    <2>2. before < count /\ count <= before + Len(list[j])
      BY <1>2 DEF FallsInto
    <2> HIDE DEF before
    <2> QED BY <2>1, <2>2
  <1>4. DOMAIN list \subseteq Nat /\ W \subseteq DOMAIN list /\ R \subseteq DOMAIN list
        /\ DOMAIN list = W \cup R
    <2>1. DOMAIN list \subseteq Nat
      BY EntryFacts
    <2>2. Ahead(list, j) \subseteq DOMAIN list
      BY DEF Ahead
    <2> QED BY <2>1, <2>2
  <1>5. ASSUME NEW k \in R
        PROVE  j < k /\ k \in Nat /\ BytesBefore(list, k) \in Nat /\ end <= BytesBefore(list, k)
               /\ Len(list[k]) \in Nat \ {0}
    <2>1. k \in DOMAIN list /\ k \in Nat /\ j \in Nat /\ k # j /\ ~(k < j)
      BY <1>4 DEF Ahead
    <2>2. j < k
      BY <2>1
    <2> QED BY <2>1, <2>2, EntriesApart, BytesBeforeIsNat, EntryFacts
  <1>6. ASSUME NEW k \in Ahead(list, j)
        PROVE  BytesBefore(list, k) \in Nat /\ Len(list[k]) \in Nat
               /\ BytesBefore(list, k) + Len(list[k]) <= before
    <2>1. k \in DOMAIN list /\ k < j
      BY DEF Ahead
    <2> QED BY <2>1, EntriesApart, BytesBeforeIsNat, EntryFacts
  <1>7. over # 0 => r \in Nat /\ \A k \in R : r < k
    <2> SUFFICES ASSUME over # 0 PROVE r \in Nat /\ \A k \in R : r < k
      OBVIOUS
    <2>1. cut < Len(list[j])
      <3> HIDE DEF cut, over
      <3> QED BY <1>3
    <2>2. r \in Nat
      <3>1. After(j, cut) = (j + cut) % Modulus
        BY DEF After
      <3>2. j + cut \in Nat /\ Modulus \in Nat \ {0}
        BY <1>3, <1>4, StreamAssumption
      <3> HIDE DEF cut
      <3> QED BY <3>1, <3>2
    <2>3. ASSUME NEW k \in R PROVE r < k
      <3>1. k \in DOMAIN list /\ j < k /\ cut \in Nat /\ cut > 0
        BY <1>3, <1>5
      <3> HIDE DEF cut
      <3> QED BY <2>1, <3>1, RestComesFirst
    <2> QED BY <2>2, <2>3
  <1> HIDE DEF before
  <1>8. /\ DOMAIN M = R \cup X
        /\ \A k \in R : M[k] = list[k]
        /\ \A x \in X : x = r /\ over # 0 /\ M[x] = Remainder(list[j], cut)
    <2> DEFINE whole == {k \in DOMAIN list : BytesBefore(list, k) + Len(list[k]) <= count}
               part == {k \in DOMAIN list \ whole : BytesBefore(list, k) < count}
               Cut(k) == count - BytesBefore(list, k)
               rest == {After(k, Cut(k)) : k \in part}
               Of(key) == CHOOSE p \in part : After(p, Cut(p)) = key
    <2>1. /\ DOMAIN M = (DOMAIN list \ (whole \cup part)) \cup rest
          /\ \A key \in DOMAIN M :
               M[key] = IF key \in rest THEN Remainder(list[Of(key)], Cut(Of(key))) ELSE list[key]
      BY DEF Removed
    <2>2. \A k \in R : k \notin whole /\ k \notin part
      BY <1>3, <1>5
    <2>3. \A k \in Ahead(list, j) : k \in whole
      BY <1>3, <1>4, <1>6
    <2>4. IF over = 0 THEN j \in whole ELSE j \in part
      <3>1. BytesBefore(list, j) = before
        BY DEF before
      <3> QED BY <1>3, <1>4, <3>1
    <2>5. part = IF over = 0 THEN {} ELSE {j}
      BY <1>4, <2>2, <2>3, <2>4
    <2>6. DOMAIN list \ (whole \cup part) = R
      BY <1>4, <2>2, <2>3, <2>4
    <2>7. Cut(j) = cut
      BY DEF before
    <2> HIDE DEF part, Cut, Of, whole
    <2>8. rest = X
      <3>1. CASE over = 0
        BY <2>5, <3>1
      <3>2. CASE over # 0
        BY <2>5, <2>7, <3>2
      <3> QED BY <3>1, <3>2
    <2> HIDE DEF rest
    <2>9. \A k \in R : k \notin X
      BY <1>5, <1>7
    <2>10. \A x \in X : over # 0 /\ x = r /\ Of(x) = j
      <3> SUFFICES ASSUME NEW x \in X PROVE over # 0 /\ x = r /\ Of(x) = j
        OBVIOUS
      <3>1. over # 0 /\ x = r
        OBVIOUS
      <3>2. part = {j} /\ After(j, Cut(j)) = x
        BY <2>5, <2>7, <3>1
      <3> QED BY <3>1, <3>2 DEF Of
    <2> HIDE DEF X, R
    <2>11. ASSUME NEW x \in X PROVE M[x] = Remainder(list[j], cut)
      <3>1. x \in DOMAIN M /\ x \in rest
        BY <2>1, <2>8
      <3> HIDE DEF M, cut
      <3> QED BY <2>1, <2>7, <2>10, <3>1
    <2>12. ASSUME NEW k \in R PROVE M[k] = list[k]
      <3>1. k \in DOMAIN M /\ k \notin rest
        BY <2>1, <2>6, <2>8, <2>9
      <3> HIDE DEF M
      <3> QED BY <2>1, <3>1
    <2> QED BY <2>1, <2>6, <2>8, <2>10, <2>11, <2>12
  <1>9. AllHeld(M, positions)
    BY RemovedHeld
  <1>10. ASSUME over # 0
         PROVE  /\ Len(Remainder(list[j], cut)) = over
                /\ \A i \in 1..over : Remainder(list[j], cut)[i] = list[j][cut + i]
    <2> DEFINE b == list[j]
               q == SubSeq(b, cut + 1, Len(b))
    <2>1. cut + 1 \in Int /\ Len(b) \in Int /\ \A i \in (cut + 1)..Len(b) : b[i] \in Nat
      BY <1>3
    <2>2. /\ Len(q) = (IF cut + 1 <= Len(b) THEN Len(b) - (cut + 1) + 1 ELSE 0)
          /\ \A i \in 1..(Len(b) - (cut + 1) + 1) : q[i] = b[(cut + 1) + i - 1]
      <3> HIDE DEF b, cut
      <3> QED BY <2>1, SubSeqProperties
    <2>3. q = Remainder(list[j], cut)
      BY DEF Remainder
    <2>4. \A l, c, o \in Nat : (o = l - c /\ o # 0 /\ c <= l) =>
              /\ c + 1 <= l /\ (l - (c + 1)) + 1 = o
              /\ \A i \in 1..o : (c + 1) + i - 1 = c + i
      OBVIOUS
    <2> HIDE DEF q, cut, over
    <2>5. cut + 1 <= Len(b) /\ Len(b) - (cut + 1) + 1 = over
          /\ \A i \in 1..over : (cut + 1) + i - 1 = cut + i
      BY <1>3, <1>10, <2>4
    <2> QED BY <2>2, <2>3, <2>5
  <1>11. IsFiniteSet(X) /\ IsFiniteSet(DOMAIN list) /\ IsFiniteSet(W)
         /\ \A k \in DOMAIN list : Lengths(list)[k] = Len(list[k]) /\ Lengths(list)[k] \in Nat
    BY <1>4, LengthsFacts, FS_EmptySet, FS_Singleton, FS_Subset
  <1>12. \A k \in DOMAIN M : Lengths(M)[k] = Len(M[k]) /\ Lengths(M)[k] \in Nat
    BY <1>9, LengthsFacts
  <1>13. SumOf(X, Lengths(M)) = over
    <2>1. CASE over = 0
      <3>1. X = {}
        BY <2>1
      <3> HIDE DEF X
      <3> QED BY <2>1, <3>1, SumEmpty
    <2>2. CASE over # 0
      <3>1. X = {r} /\ r \in DOMAIN M
        BY <1>8, <2>2
      <3>2. Lengths(M)[r] = over /\ Lengths(M)[r] \in Nat
        <4>1. M[r] = Remainder(list[j], cut)
          BY <1>8, <3>1
        <4> HIDE DEF M, r, cut, over
        <4> QED BY <1>10, <1>12, <2>2, <3>1, <4>1
      <3> HIDE DEF X, r, over, M
      <3>3. SumOf({r}, Lengths(M)) = Lengths(M)[r]
        BY <3>2, SumSingleton
      <3> QED BY <3>1, <3>2, <3>3
    <2> QED BY <2>1, <2>2
  <1>14. SumOf(W, Lengths(list)) = end
    <2>1. IsFiniteSet(Ahead(list, j)) /\ j \notin Ahead(list, j)
          /\ \A k \in Ahead(list, j) \cup {j} : Lengths(list)[k] \in Nat
      <3>1. Ahead(list, j) \subseteq DOMAIN list
        BY DEF Ahead
      <3>2. j \in Nat
        BY <1>4
      <3>3. j \notin Ahead(list, j)
        BY <3>2 DEF Ahead
      <3>4. IsFiniteSet(Ahead(list, j))
        BY <1>11, <3>1, FS_Subset
      <3> QED BY <1>11, <3>1, <3>3, <3>4
    <2>2. SumOf(Ahead(list, j) \cup {j}, Lengths(list)) = SumOf(Ahead(list, j), Lengths(list)) + Lengths(list)[j]
      BY <2>1, SumAdd
    <2> QED BY <2>2, <1>11 DEF before, BytesBefore
  <1>15. /\ \A k \in R : k \notin X /\ k \notin W
         /\ \A x \in X : x \in Nat /\ \A k \in R : x < k
    BY <1>4, <1>5, <1>7
  <1> HIDE DEF X, W, R, M, over, cut, end, r
  <1>16. ASSUME NEW A \in SUBSET R
         PROVE  SumOf(X \cup A, Lengths(M)) = SumOf(W \cup A, Lengths(list)) - count
    <2>1. IsFiniteSet(A) /\ X \cap A = {} /\ W \cap A = {}
      BY <1>4, <1>11, <1>15, FS_Subset
    <2>2. \A k \in A : Lengths(M)[k] = Lengths(list)[k]
      BY <1>4, <1>8, <1>11, <1>12
    <2>3. SumOf(A, Lengths(M)) = SumOf(A, Lengths(list))
      BY <2>2, SumSame
    <2>4. (\A k \in X \cup A : Lengths(M)[k] \in Nat) /\ (\A k \in W \cup A : Lengths(list)[k] \in Nat)
      BY <1>4, <1>8, <1>11, <1>12
    <2>5. SumOf(X \cup A, Lengths(M)) = SumOf(X, Lengths(M)) + SumOf(A, Lengths(M))
      BY <1>11, <2>1, <2>4, SumUnion
    <2>6. SumOf(W \cup A, Lengths(list)) = SumOf(W, Lengths(list)) + SumOf(A, Lengths(list))
      BY <1>11, <2>1, <2>4, SumUnion
    <2>7. SumOf(A, Lengths(list)) \in Nat
      BY <2>1, <2>4, SumType
    <2> QED BY <1>3, <1>13, <1>14, <2>3, <2>5, <2>6, <2>7 DEF over
  <1>17. ASSUME NEW k \in R
         PROVE  BytesBefore(M, k) = BytesBefore(list, k) - count
    <2> DEFINE A == {i \in R : i < k}
    <2>1. Ahead(M, k) = X \cup A
      BY <1>8, <1>15 DEF Ahead
    <2>2. Ahead(list, k) = W \cup A
      <3>1. \A i \in W : i < k
        <4>1. j < k /\ j \in Nat /\ k \in Nat /\ DOMAIN list \subseteq Nat
          BY <1>4, <1>5
        <4>2. \A i \in W : i = j \/ (i \in DOMAIN list /\ i < j)
          BY DEF W, Ahead
        <4> QED BY <4>1, <4>2
      <3> QED BY <1>4, <3>1 DEF Ahead
    <2>3. A \in SUBSET R
      OBVIOUS
    <2> HIDE DEF A
    <2> QED BY <1>16, <2>1, <2>2, <2>3 DEF BytesBefore
  <1>18. ASSUME NEW x \in X PROVE BytesBefore(M, x) = 0
    <2>1. Ahead(M, x) = {}
      <3> SUFFICES ASSUME NEW i \in DOMAIN M, i < x PROVE FALSE
        BY DEF Ahead
      <3>1. x \in Nat /\ i \in Nat
        BY <1>4, <1>8, <1>15
      <3>2. CASE i \in X
        BY <1>8, <3>1, <3>2
      <3>3. CASE i \in R
        BY <1>15, <3>1, <3>3
      <3> QED BY <1>8, <3>2, <3>3
    <2> QED BY <2>1, SumEmpty DEF BytesBefore
  <1>19. /\ new \in Seq(Nat) /\ Len(new) \in Nat /\ Len(new) = SumOf(DOMAIN M, Lengths(M))
         /\ \A k \in DOMAIN M : \A i \in Nat : FallsInto(M, i, k) =>
               i \in 1..Len(new) /\ new[i] = M[k][i - BytesBefore(M, k)]
         /\ \A i \in 1..Len(new) : \E k \in DOMAIN M : FallsInto(M, i, k)
    BY <1>9, AllContentFacts
  <1>20. Len(new) = Len(all) - count
    <2>1. R \in SUBSET R /\ DOMAIN M = X \cup R /\ DOMAIN list = W \cup R
      BY <1>4, <1>8
    <2> QED BY <1>1, <1>16, <1>19, <2>1
  <1> HIDE DEF new, all
  <1>21. ASSUME NEW i \in 1..Len(new) PROVE new[i] = all[count + i]
    <2>1. i \in Nat /\ count + i \in Nat /\ i > 0
      BY <1>19
    <2>2. PICK k \in DOMAIN M : FallsInto(M, i, k)
      BY <1>19
    <2>3. new[i] = M[k][i - BytesBefore(M, k)]
      BY <1>19, <2>1, <2>2
    <2>4. CASE k \in R
      <3>1. /\ M[k] = list[k] /\ BytesBefore(M, k) = BytesBefore(list, k) - count
            /\ k \in DOMAIN list /\ BytesBefore(list, k) \in Nat /\ Len(list[k]) \in Nat
        BY <1>4, <1>5, <1>8, <1>17, <2>4
      <3>2. FallsInto(list, count + i, k) /\ i - BytesBefore(M, k) = (count + i) - BytesBefore(list, k)
        BY <2>1, <2>2, <3>1 DEF FallsInto
      <3> QED BY <1>1, <2>1, <2>3, <3>1, <3>2
    <2>5. CASE k \in X
      <3>1. /\ M[k] = Remainder(list[j], cut) /\ over # 0 /\ BytesBefore(M, k) = 0
        BY <1>8, <1>18, <2>5
      <3>2. i <= over /\ i \in 1..over /\ over \in Nat
        <4>1. Len(M[k]) = over /\ over \in Nat
          BY <1>3, <1>10, <3>1
        <4> QED BY <2>1, <2>2, <3>1, <4>1 DEF FallsInto
      <3>3. new[i] = list[j][cut + i]
        <4>1. i - BytesBefore(M, k) = i
          BY <2>1, <3>1
        <4> QED BY <1>10, <2>3, <3>1, <3>2, <4>1
      <3>4. FallsInto(list, count + i, j) /\ (count + i) - BytesBefore(list, j) = cut + i
        <4>1. /\ before \in Nat /\ Len(list[j]) \in Nat /\ cut \in Nat /\ over \in Nat /\ count \in Nat
              /\ cut = count - before /\ over = Len(list[j]) - cut /\ before < count
          BY <1>3 DEF cut
        <4>2. \A b, l, c, o \in Nat : (c = count - b /\ o = l - c /\ b < count) =>
                  b < count + i /\ (i <= o => count + i <= b + l) /\ (count + i) - b = c + i
          BY <2>1
        <4>3. before < count + i /\ count + i <= before + Len(list[j])
              /\ (count + i) - before = cut + i
          <5> HIDE DEF before
          <5> QED BY <3>2, <4>1, <4>2
        <4> QED BY <4>3 DEF FallsInto, before
      <3>5. all[count + i] = list[j][(count + i) - BytesBefore(list, j)]
        BY <1>1, <2>1, <3>4
      <3> QED BY <3>3, <3>4, <3>5
    <2> QED BY <1>8, <2>4, <2>5
  <1> QED BY <1>19, <1>20, <1>21 DEF new, all, M

(* One step of the system.                                                  *)
LEMMA InFrontStep ==
    ASSUME IInv, HInv, [Next]_vars
    PROVE  handed = << >> \/ (InFront /\ ~Overlapping) => InFront'
  <1> SUFFICES ASSUME handed = << >> \/ (InFront /\ ~Overlapping)
      PROVE  InFront'
    OBVIOUS
  <1> DEFINE Leads(h, list) == h = << >> \/ IsPrefix(h, AllContent(list))
  <1>0. (InFront <=> Leads(handed, dataList)) /\ (InFront' <=> Leads(handed', dataList'))
    BY DEF InFront
  <1>1. AllHeld(dataList, arrived)
    BY DEF IInv
  <1>2. ASSUME NEW n, Given(n), handed' = Content(dataList, n), dataList' = dataList PROVE InFront'
    <2>1. n \in Nat
      BY <1>2 DEF Given
    <2>2. IsPrefix(Content(dataList, n), AllContent(dataList))
      BY <1>1, <2>1, FirstEntriesInFront
    <2>3. IsPrefix(handed', AllContent(dataList'))
      BY ONLY <1>2, <2>2
    <2> QED BY <1>0, <2>3
  <1>3. CASE GetAllAvailableTcpData
    BY <1>2, <1>3, GetAllGives
  <1>4. CASE GetNextVirtualTcpData
    BY <1>2, <1>4, GetNextGives
  <1>5. CASE \E count \in 1..Len(handed) : RemoveData(count)
    <2>1. PICK count \in 1..Len(handed) :
                /\ dataList' = Removed(dataList, count)
                /\ handed' = SubSeq(handed, count + 1, Len(handed))
      BY <1>5 DEF RemoveData, Remainder
    <2> DEFINE all == AllContent(dataList)
               left == AllContent(Removed(dataList, count))
               h == SubSeq(handed, count + 1, Len(handed))
    <2>2. handed \in Seq(Nat) /\ Len(handed) \in Nat /\ count \in Nat /\ count > 0
          /\ count <= Len(handed)
      BY <2>1 DEF HInv
    <2>3. handed # << >>
      BY <2>2
    <2>4. IsPrefix(handed, all) /\ ~Overlapping
      BY <1>0, <2>3
    <2>5. all \in Seq(Nat) /\ Len(all) \in Nat
      BY <1>1, AllContentFacts
    <2> HIDE DEF all
    <2>6. Len(handed) <= Len(all) /\ \A i \in 1..Len(handed) : handed[i] = all[i]
      BY <2>2, <2>4, <2>5, PrefixIs
    <2>7. Apart(dataList) /\ count <= Len(all)
      BY <2>2, <2>4, <2>5, <2>6 DEF Apart, Overlapping
    <2>8. left \in Seq(Nat) /\ Len(left) = Len(all) - count
          /\ \A i \in 1..Len(left) : left[i] = all[count + i]
      BY <1>1, <2>2, <2>7, RemovedContent DEF all
    <2> HIDE DEF left
    <2>9. /\ h \in Seq(Nat) /\ Len(h) = Len(handed) - count
          /\ \A i \in 1..(Len(handed) - count) : h[i] = handed[count + i]
      <3>1. count + 1 \in Int /\ Len(handed) \in Int
            /\ \A i \in (count + 1)..Len(handed) : handed[i] \in Nat
        BY <2>2
      <3>2. /\ h \in Seq(Nat)
            /\ Len(h) = (IF count + 1 <= Len(handed) THEN Len(handed) - (count + 1) + 1 ELSE 0)
            /\ \A i \in 1..(Len(handed) - (count + 1) + 1) : h[i] = handed[(count + 1) + i - 1]
        BY <3>1, SubSeqProperties
      <3>3. \A l, c \in Nat : c <= l =>
              /\ (IF c + 1 <= l THEN l - (c + 1) + 1 ELSE 0) = l - c
              /\ \A i \in 1..(l - c) : i \in 1..(l - (c + 1) + 1) /\ (c + 1) + i - 1 = c + i
        OBVIOUS
      <3> HIDE DEF h
      <3> QED BY <2>2, <3>2, <3>3
    <2> HIDE DEF h
    <2>10. Len(h) <= Len(left) /\ \A i \in 1..Len(h) : h[i] = left[i]
      <3>1. ASSUME NEW i \in 1..Len(h) PROVE h[i] = left[i]
        <4>1. i \in 1..(Len(handed) - count) /\ count + i \in 1..Len(handed) /\ i \in 1..Len(left)
          BY <2>2, <2>5, <2>6, <2>8, <2>9
        <4> QED BY <2>6, <2>8, <2>9, <4>1
      <3>2. Len(h) <= Len(left)
        BY <2>2, <2>5, <2>6, <2>8, <2>9
      <3> QED BY <3>1, <3>2
    <2>11. IsPrefix(h, left)
      BY <2>8, <2>9, <2>10, PrefixIs
    <2>12. IsPrefix(handed', AllContent(dataList'))
      BY ONLY <2>1, <2>11 DEF h, left
    <2> QED BY <1>0, <2>12
  <1>6. CASE UNCHANGED <<handed, dataList>>
    <2>1. InFront
      BY DEF InFront
    <2> QED BY <1>0, <1>6, <2>1
  <1>7. CASE handed' = << >>
    BY <1>0, <1>7
  <1>8. \/ GetAllAvailableTcpData \/ GetNextVirtualTcpData
        \/ \E count \in 1..Len(handed) : RemoveData(count)
        \/ UNCHANGED <<handed, dataList>> \/ handed' = << >>
    BY DEF Next, vars, AddTcpData, Return, Clear
  <1> QED BY <1>3, <1>4, <1>5, <1>6, <1>7, <1>8

(* What the reader is given comes first in the list, and unless segments of *)
(* it overlap every removal takes the bytes the reader means: what it still *)
(* holds comes first in what is left, also where the numbers wrap.          *)
THEOREM RemovalTakesTheBytesRead == Spec => HandedStaysFirst
  <1>1. Init => HInv
    BY DEF Init, HInv, HandedIsGapFree
  <1>2. IInv /\ HInv /\ [Next]_vars => HInv'
    BY HInvStep
  <1>3. IInv /\ HInv /\ [Next]_vars
          => [handed = << >> \/ (InFront /\ ~Overlapping) => InFront']_vars
    BY InFrontStep
  <1> QED BY <1>1, <1>2, <1>3, Invariance, PTL DEF Spec, HandedStaysFirst

----------------------------------------------------------------------------
(* The list holds the bytes of the stream between two positions, in order.  *)
Queue(list, from, to) ==
    /\ from \in Nat /\ to \in Nat /\ from <= to
    /\ Len(AllContent(list)) = to - from
    /\ \A i \in 1..(to - from) : AllContent(list)[i] = from + i - 1

(* Where a byte of an entry is among all of them.                           *)
LEMMA ByteOfQueue ==
    ASSUME NEW list, NEW positions, AllHeld(list, positions),
           NEW from, NEW to, Queue(list, from, to),
           NEW k \in DOMAIN list, NEW a \in 1..Len(list[k])
    PROVE  /\ BytesBefore(list, k) + a \in 1..(to - from)
           /\ FallsInto(list, BytesBefore(list, k) + a, k)
           /\ list[k][a] = from + (BytesBefore(list, k) + a) - 1
  <1> DEFINE b == BytesBefore(list, k)
             i == b + a
  <1>1. b \in Nat /\ Len(list[k]) \in Nat /\ a \in Nat /\ a > 0 /\ a <= Len(list[k])
    BY BytesBeforeIsNat, EntryFacts
  <1>2. i \in Nat /\ i - b = a /\ FallsInto(list, i, k)
    BY <1>1 DEF FallsInto
  <1>3. i \in 1..Len(AllContent(list)) /\ AllContent(list)[i] = list[k][i - b]
    BY <1>2, AllContentFacts
  <1>4. i \in 1..(to - from)
    BY <1>3 DEF Queue
  <1>5. list[k][a] = from + i - 1
    BY <1>2, <1>3, <1>4 DEF Queue
  <1> QED BY <1>2, <1>4, <1>5

(* No byte is in it twice.                                                  *)
LEMMA QueueApart ==
    ASSUME NEW list, NEW positions, AllHeld(list, positions),
           NEW from, NEW to, Queue(list, from, to)
    PROVE  Apart(list)
  <1> SUFFICES ASSUME NEW j \in DOMAIN list, NEW k \in DOMAIN list, j # k,
                      NEW x \in ToSet(list[j]) \cap ToSet(list[k])
               PROVE  FALSE
    BY DEF Apart
  <1>1. PICK a \in DOMAIN list[j], b \in DOMAIN list[k] : list[j][a] = x /\ list[k][b] = x
    BY DEF ToSet
  <1>2. a \in 1..Len(list[j]) /\ b \in 1..Len(list[k])
    BY EntryFacts
  <1> DEFINE m == BytesBefore(list, j) + a
             n == BytesBefore(list, k) + b
  <1>3. m \in 1..(to - from) /\ FallsInto(list, m, j) /\ x = from + m - 1
    BY <1>1, <1>2, ByteOfQueue
  <1>4. n \in 1..(to - from) /\ FallsInto(list, n, k) /\ x = from + n - 1
    BY <1>1, <1>2, ByteOfQueue
  <1> HIDE DEF m, n
  <1>5. m = n /\ m \in Nat
    BY <1>3, <1>4 DEF Queue
  <1> QED BY <1>3, <1>4, <1>5, FallsIntoOne

(* Before the numbers wrap the keys are in the order of the bytes.          *)
LEMMA KeysOfQueue ==
    ASSUME NEW list, NEW positions, AllHeld(list, positions),
           NEW from, NEW to, Queue(list, from, to), InitialSequenceNumber + to < Modulus,
           NEW k \in DOMAIN list
    PROVE  k = (InitialSequenceNumber + from) + BytesBefore(list, k)
           /\ k < InitialSequenceNumber + to /\ k \in Nat
  <1> DEFINE s == Start(list, k)
             b == BytesBefore(list, k)
  <1>1. /\ k \in Nat /\ s \in Nat /\ Len(list[k]) \in Nat \ {0} /\ k = Number(s)
        /\ InitialSequenceNumber \in Nat /\ Modulus \in Nat \ {0} /\ b \in Nat
        /\ from \in Nat /\ to \in Nat
    BY EntryFacts, BytesBeforeIsNat, StreamAssumption DEF Queue
  <1>2. b + 1 \in 1..(to - from) /\ s = from + (b + 1) - 1
    <2>1. 1 \in 1..Len(list[k])
      BY <1>1
    <2> QED BY <2>1, ByteOfQueue DEF Start
  <1> HIDE DEF s, b
  <1>3. s = from + b /\ s < to
    BY <1>1, <1>2
  <1>4. InitialSequenceNumber + s \in 0..(Modulus - 1)
    BY <1>1, <1>3
  <1>5. Number(s) = InitialSequenceNumber + s
    <2> DEFINE n == InitialSequenceNumber + s
    <2>1. n \in 0..(Modulus - 1) /\ Number(s) = n % Modulus
      BY <1>4 DEF Number
    <2> HIDE DEF n
    <2>2. n % Modulus = n
      BY <1>1, <2>1
    <2> QED BY <2>1, <2>2 DEF n
  <1> QED BY <1>1, <1>3, <1>5 DEF b

(* The number before which everything can be read.                          *)
LEMMA ReadableOfQueue ==
    ASSUME NEW list, NEW positions, AllHeld(list, positions),
           NEW from, NEW to, Queue(list, from, to), InitialSequenceNumber + to < Modulus,
           expected = InitialSequenceNumber + to
    PROVE  CountBytesToRead(list) = to - from
  <1>1. /\ from \in Nat /\ to \in Nat /\ from <= to /\ InitialSequenceNumber \in Nat
        /\ Len(AllContent(list)) = to - from
        /\ Len(AllContent(list)) = SumOf(DOMAIN list, Lengths(list))
    BY StreamAssumption, AllContentFacts DEF Queue
  <1>2. CASE list = << >>
    <2>1. DOMAIN list = {}
      BY <1>2
    <2>2. to - from = 0
      BY <1>1, <2>1, SumEmpty
    <2> QED BY <1>2, <2>2 DEF CountBytesToRead
  <1>3. CASE list # << >>
    <2> DEFINE first == FirstKey(list)
    <2>1. DOMAIN list # {} /\ DOMAIN list \subseteq SequenceNumbers /\ DOMAIN list \subseteq Nat
      <3>1. DOMAIN list # {}
        BY <1>3, SomeKey, FS_EmptySet
      <3>2. DOMAIN list \subseteq SequenceNumbers /\ DOMAIN list \subseteq Nat
        BY AheadFacts
      <3> QED BY <3>1, <3>2
    <2>2. PICK k \in DOMAIN list : \A j \in DOMAIN list : k <= j
      BY <2>1, LeastKey
    <2>3. first = k
      <3>1. \A x, y \in DOMAIN list : x <= y /\ y <= x => x = y
        BY <2>1
      <3> QED BY <2>2, <3>1 DEF FirstKey, Min
    <2>4. BytesBefore(list, k) = 0
      <3>1. Ahead(list, k) = {}
        BY <2>1, <2>2 DEF Ahead
      <3> QED BY <3>1, SumEmpty DEF BytesBefore
    <2>5. k = InitialSequenceNumber + from /\ k < InitialSequenceNumber + to
      <3>1. k = (InitialSequenceNumber + from) + BytesBefore(list, k)
            /\ k < InitialSequenceNumber + to /\ k \in Nat
        BY KeysOfQueue
      <3> QED BY <1>1, <2>4, <3>1
    <2>6. ASSUME Cardinality(DOMAIN list) = 1 PROVE Len(list[k]) = to - from
      <3>1. DOMAIN list = {k}
        BY <2>6, LengthsFacts, FS_Singleton
      <3>2. Lengths(list)[k] = Len(list[k]) /\ Lengths(list)[k] \in Nat
        BY LengthsFacts
      <3>3. SumOf({k}, Lengths(list)) = Len(list[k])
        BY <3>2, SumSingleton
      <3> QED BY <1>1, <3>1, <3>3
    <2>7. expected > k /\ expected - k = to - from
      BY <1>1, <2>5
    <2>8. CountBytesToRead(list) =
            IF k # InitialSequenceNumber /\ k # expected /\ Cardinality(DOMAIN list) = 1
            THEN Len(list[k]) ELSE IF expected > k THEN expected - k ELSE 0
      BY <1>3, <2>3 DEF CountBytesToRead
    <2> QED BY <2>6, <2>7, <2>8
  <1> QED BY <1>2, <1>3

(* A segment that continues the list extends it.                            *)
LEMMA QueueExtended ==
    ASSUME NEW list, NEW positions, AllHeld(list, positions),
           NEW from, NEW to, Queue(list, from, to), NEW l \in Nat \ {0},
           InitialSequenceNumber + (to + l) < Modulus,
           NEW more, AllHeld(WithEntry(list, Number(to), Bytes(to, l)), more)
    PROVE  /\ Number(to) = InitialSequenceNumber + to
           /\ Number(to) \notin DOMAIN list
           /\ Queue(WithEntry(list, Number(to), Bytes(to, l)), from, to + l)
           /\ \A k \in DOMAIN list : k < InitialSequenceNumber + to
  <1> DEFINE n == Number(to)
             new == WithEntry(list, n, Bytes(to, l))
             D == DOMAIN list
  <1>1. /\ from \in Nat /\ to \in Nat /\ from <= to
        /\ InitialSequenceNumber \in Nat /\ Modulus \in Nat \ {0} /\ l > 0
        /\ Len(AllContent(list)) = SumOf(D, Lengths(list)) /\ Len(AllContent(list)) = to - from
    <2>1. from \in Nat /\ to \in Nat /\ from <= to /\ Len(AllContent(list)) = to - from
      BY DEF Queue
    <2>2. InitialSequenceNumber \in Nat /\ Modulus \in Nat \ {0} /\ l > 0
      BY StreamAssumption
    <2>3. Len(AllContent(list)) = SumOf(D, Lengths(list))
      BY AllContentFacts
    <2> QED BY <2>1, <2>2, <2>3
  <1>2. n = InitialSequenceNumber + to
    <2> DEFINE m == InitialSequenceNumber + to
    <2>1. m \in 0..(Modulus - 1) /\ Number(to) = m % Modulus
      BY <1>1 DEF Number
    <2> HIDE DEF m
    <2>2. m % Modulus = m
      BY <1>1, <2>1
    <2> QED BY <2>1, <2>2 DEF m
  <1>3. ASSUME NEW k \in D PROVE k < n /\ k \in Nat
    <2>1. InitialSequenceNumber + to < Modulus
      BY <1>1
    <2>2. k < InitialSequenceNumber + to /\ k \in Nat
      BY <2>1, KeysOfQueue
    <2> QED BY <1>2, <2>2
  <1>4. n \notin D /\ n \in Nat
    BY <1>1, <1>2, <1>3
  <1>5. /\ DOMAIN new = D \cup {n}
        /\ new[n] = Bytes(to, l) /\ \A k \in D : new[k] = list[k]
    <2> HIDE DEF n
    <2> QED BY <1>4 DEF WithEntry
  <1>6. Len(Bytes(to, l)) = l /\ \A i \in 1..l : Bytes(to, l)[i] = to + i - 1
    BY <1>1, BytesFacts
  <1>7. /\ IsFiniteSet(D) /\ \A k \in D : Lengths(list)[k] = Len(list[k]) /\ Lengths(list)[k] \in Nat
    BY LengthsFacts
  <1>8. \A k \in DOMAIN new : Lengths(new)[k] = Len(new[k]) /\ Lengths(new)[k] \in Nat
    BY LengthsFacts
  <1> HIDE DEF new, n
  <1>9. ASSUME NEW S \in SUBSET D PROVE SumOf(S, Lengths(new)) = SumOf(S, Lengths(list))
    <2>1. \A k \in S : Lengths(new)[k] = Lengths(list)[k]
      BY <1>5, <1>7, <1>8
    <2> QED BY <2>1, SumSame
  <1>10. ASSUME NEW k \in D PROVE BytesBefore(new, k) = BytesBefore(list, k)
    <2>1. k < n /\ k \in Nat /\ n \in Nat
      BY <1>3, <1>4
    <2>2. Ahead(new, k) = Ahead(list, k)
      BY <1>5, <2>1 DEF Ahead
    <2>3. Ahead(list, k) \in SUBSET D
      BY DEF Ahead
    <2> QED BY <1>9, <2>2, <2>3 DEF BytesBefore
  <1>11. SumOf(D, Lengths(new)) = to - from
    BY <1>1, <1>9
  <1>12. BytesBefore(new, n) = to - from
    <2>1. Ahead(new, n) = D
      BY <1>3, <1>4, <1>5 DEF Ahead
    <2> QED BY <1>11, <2>1 DEF BytesBefore
  <1>13. Lengths(new)[n] = l
    BY <1>5, <1>6, <1>8
  <1>14. /\ Len(AllContent(new)) = SumOf(DOMAIN new, Lengths(new))
         /\ \A k \in DOMAIN new : \A i \in Nat : FallsInto(new, i, k) =>
               i \in 1..Len(AllContent(new)) /\ AllContent(new)[i] = new[k][i - BytesBefore(new, k)]
         /\ \A i \in 1..Len(AllContent(new)) : \E k \in DOMAIN new : FallsInto(new, i, k)
    <2>1. AllHeld(new, more)
      BY DEF new, n
    <2> QED BY <2>1, AllContentFacts
  <1>15. Len(AllContent(new)) = (to + l) - from
    <2>1. \A k \in D \cup {n} : Lengths(new)[k] \in Nat
      BY <1>5, <1>8
    <2>2. SumOf(D \cup {n}, Lengths(new)) = SumOf(D, Lengths(new)) + Lengths(new)[n]
      BY <1>4, <1>7, <2>1, SumAdd
    <2> QED BY <1>1, <1>5, <1>11, <1>13, <1>14, <2>2
  <1>16. ASSUME NEW i \in 1..((to + l) - from) PROVE AllContent(new)[i] = from + i - 1
    <2>1. i \in Nat /\ i > 0
      BY <1>1
    <2>2. PICK k \in DOMAIN new : FallsInto(new, i, k)
      BY <1>14, <1>15
    <2>3. AllContent(new)[i] = new[k][i - BytesBefore(new, k)]
      BY <1>14, <2>1, <2>2
    <2>4. CASE k \in D
      <3>1. FallsInto(list, i, k) /\ new[k] = list[k] /\ BytesBefore(new, k) = BytesBefore(list, k)
        BY <1>5, <1>10, <2>2, <2>4 DEF FallsInto
      <3>2. i \in 1..Len(AllContent(list)) /\ AllContent(list)[i] = list[k][i - BytesBefore(list, k)]
        BY <2>1, <2>4, <3>1, AllContentFacts
      <3> QED BY <2>3, <3>1, <3>2 DEF Queue
    <2>5. CASE k = n
      <3>1. to - from < i /\ i <= (to - from) + l
        BY <1>5, <1>6, <1>12, <2>2, <2>5 DEF FallsInto
      <3> DEFINE a == i - (to - from)
      <3>2. a \in 1..l /\ to + a - 1 = from + i - 1
        BY <1>1, <2>1, <3>1
      <3>3. AllContent(new)[i] = Bytes(to, l)[a]
        BY <1>5, <1>12, <2>3, <2>5
      <3> HIDE DEF a
      <3> QED BY <1>6, <3>2, <3>3
    <2> QED BY <1>5, <2>4, <2>5
  <1>17. Queue(new, from, to + l)
    BY <1>1, <1>15, <1>16 DEF Queue
  <1>18. \A k \in D : k < InitialSequenceNumber + to
    BY <1>2, <1>3
  <1> QED BY <1>2, <1>4, <1>17, <1>18 DEF new, n

(* The loop stops behind the segment that came last.                        *)
LEMMA AdvancedOver ==
    ASSUME NEW list, NEW positions, AllHeld(list, positions),
           NEW from, from \in DOMAIN list, NEW l \in Nat \ {0}, Len(list[from]) = l,
           from + l < Modulus, \A k \in DOMAIN list : k <= from
    PROVE  Advanced(list, from) = from + l
  <1> DEFINE c == Cardinality(DOMAIN list)
  <1>0. c \in Nat /\ c >= 1
    <2>1. list # << >>
      OBVIOUS
    <2> QED BY <2>1, KeysAreFinite, SomeKey DEF AllHeld
  <1>1. c \in Nat
    BY <1>0
  <1>2. PICK at : Turning(at, list, from)
    BY AdvancedTurns
  <1>3. Advanced(list, from) = at[c]
    BY <1>2 DEF Turning
  <1>4. \A n \in 0..c : at[n] = IF n = 0 THEN from ELSE NextExpected(list, at[n - 1])
    BY <1>2 DEF Turning
  <1> HIDE DEF c
  <1>5. from \in Nat /\ Modulus \in Nat \ {0} /\ from + l \in 0..(Modulus - 1)
    <2>1. from \in Nat
      BY EntryFacts
    <2> QED BY <2>1, StreamAssumption
  <1>6. NextExpected(list, from) = from + l
    <2> DEFINE m == from + l
    <2>1. NextExpected(list, from) = m % Modulus
      BY DEF NextExpected, After
    <2>2. m \in 0..(Modulus - 1)
      BY <1>5
    <2> HIDE DEF m
    <2>3. m % Modulus = m
      BY <1>5, <2>2
    <2> QED BY <2>1, <2>3 DEF m
  <1>7. NextExpected(list, from + l) = from + l
    <2>1. ~(from + l <= from)
      BY <1>5
    <2>2. from + l \notin DOMAIN list
      BY <2>1
    <2> QED BY <2>2 DEF NextExpected
  <1> DEFINE bad == {n \in 1..c : at[n] # from + l}
  <1>8. ASSUME bad # {} PROVE FALSE
    <2>1. bad \in SUBSET Nat
      BY <1>1
    <2>2. PICK n \in bad : \A k \in bad : n <= k
      <3> HIDE DEF bad
      <3> QED BY <1>8, <2>1, LeastNumber
    <2>3. n \in 1..c /\ at[n] # from + l
      OBVIOUS
    <2>4. at[n] = NextExpected(list, at[n - 1])
      <3>1. n \in 0..c /\ n # 0
        BY <1>1, <2>3
      <3> QED BY <1>4, <3>1
    <2>5. CASE n = 1
      <3>1. at[0] = from /\ n - 1 = 0
        BY <1>1, <1>4, <2>5
      <3> QED BY <1>6, <2>3, <2>4, <3>1
    <2>6. CASE n # 1
      <3>1. n - 1 \in 1..c /\ ~(n <= n - 1)
        BY <1>1, <2>3, <2>6
      <3>2. n - 1 \notin bad
        <4> HIDE DEF bad
        <4> QED BY <2>2, <3>1
      <3>3. at[n - 1] = from + l
        BY <3>1, <3>2
      <3> QED BY <1>7, <2>3, <2>4, <3>3
    <2> QED BY <2>5, <2>6
  <1>9. c \in 1..c
    BY <1>0
  <1> QED BY <1>3, <1>8, <1>9

----------------------------------------------------------------------------
(* While a stream comes in order the list is a queue of it, from where the  *)
(* reader is to where the stream has come.                                  *)
Ordered(count) ==
    /\ count \in Nat /\ arrived = 0..(count - 1)
    /\ expected = InitialSequenceNumber + count
    /\ readTo \in Nat
    /\ Queue(dataList, readTo, count)
    /\ InFront

OInv ==
    inOrder /\ ~cleared /\ InitialSequenceNumber + Cardinality(arrived) < Modulus =>
        Ordered(Cardinality(arrived))

LEMMA FirstPositions ==
    ASSUME NEW n \in Nat
    PROVE  Cardinality(0..(n - 1)) = n
  <1>1. 0 \in Int /\ n - 1 \in Int
    OBVIOUS
  <1>2. Cardinality(0..(n - 1)) = IF 0 > n - 1 THEN 0 ELSE (n - 1) - 0 + 1
    BY <1>1, FS_Interval
  <1> QED BY <1>2

LEMMA InitOInv == Init => OInv
  <1> SUFFICES ASSUME Init PROVE Ordered(Cardinality(arrived))
    BY DEF OInv
  <1>1. arrived = {} /\ Cardinality(arrived) = 0 /\ dataList = << >> /\ handed = << >>
        /\ readTo = 0 /\ expected = InitialSequenceNumber /\ InitialSequenceNumber \in Nat
    BY FS_EmptySet, StreamAssumption DEF Init
  <1>2. Queue(dataList, 0, 0)
    <2>1. AllHeld(dataList, arrived)
      BY InitIInv DEF IInv
    <2>2. Len(AllContent(dataList)) = SumOf(DOMAIN dataList, Lengths(dataList))
      BY <2>1, AllContentFacts
    <2>3. DOMAIN dataList = {}
      BY <1>1
    <2>4. Len(AllContent(dataList)) = 0
      BY <2>2, <2>3, SumEmpty
    <2> QED BY <2>4 DEF Queue
  <1> QED BY <1>1, <1>2 DEF Ordered, InFront

LEMMA AddTcpDataOrdered ==
    ASSUME IInv, OInv, IInv', NEW s \in Segments, AddTcpData(s)
    PROVE  OInv'
  <1> SUFFICES ASSUME inOrder', ~cleared',
                      InitialSequenceNumber + Cardinality(arrived') < Modulus
               PROVE  Ordered(Cardinality(arrived))'
    BY DEF OInv
  <1> DEFINE p == s.position
             l == s.length
  <1>1. /\ p \in Nat /\ l \in Nat \ {0} /\ InitialSequenceNumber \in Nat /\ Modulus \in Nat \ {0}
    BY SegmentAssumption, StreamAssumption
  <1>2. /\ inOrder /\ ~cleared /\ arrived = 0..(p - 1)
        /\ arrived' = arrived \cup (p..(p + l - 1)) /\ readTo' = readTo
        /\ handed' = << >>
    BY DEF AddTcpData
  <1> HIDE DEF p, l
  <1>3. Cardinality(arrived) = p
    BY <1>1, <1>2, FirstPositions
  <1>4. arrived' = 0..((p + l) - 1)
    <2>1. \A x : x \in 0..((p + l) - 1) <=> x \in 0..(p - 1) \/ x \in p..(p + l - 1)
      BY <1>1
    <2> QED BY <1>2, <2>1
  <1>5. Cardinality(arrived') = p + l
    <2>1. p + l \in Nat
      BY <1>1
    <2> QED BY <1>4, <2>1, FirstPositions
  <1>6. InitialSequenceNumber + (p + l) < Modulus /\ InitialSequenceNumber + p < Modulus
    BY <1>1, <1>5
  <1>7. Ordered(p)
    BY <1>2, <1>3, <1>6 DEF OInv
  <1>8. Queue(dataList, readTo, p) /\ expected = InitialSequenceNumber + p /\ readTo \in Nat
    BY <1>7 DEF Ordered
  <1>9. AllHeld(dataList, arrived) /\ AllHeld(dataList', arrived')
    BY DEF IInv
  <1> DEFINE number == Number(p)
             new == WithEntry(dataList, number, Bytes(p, l))
  <1>10. /\ number \in DOMAIN dataList => dataList' = dataList /\ expected' = expected
         /\ number \notin DOMAIN dataList =>
               dataList' = new /\ expected' = ExpectedAfter(new, number)
    BY DEF AddTcpData, p, l
  <1>11. AllHeld(new, arrived')
    <2>1. AllHeld(dataList, arrived')
      BY <1>2, <1>9, MorePositions
    <2>2. p..(p + l - 1) \subseteq arrived' /\ p + l < Modulus
      BY <1>1, <1>2, <1>6
    <2> QED BY <1>1, <2>1, <2>2, WithEntryHeld
  <1> HIDE DEF new, number
  <1>12. /\ number = InitialSequenceNumber + p /\ number \notin DOMAIN dataList
         /\ Queue(new, readTo, p + l)
         /\ \A k \in DOMAIN dataList : k < InitialSequenceNumber + p
    <2>1. AllHeld(WithEntry(dataList, Number(p), Bytes(p, l)), arrived')
      BY <1>11 DEF new, number
    <2> QED BY <1>1, <1>6, <1>8, <1>9, <2>1, QueueExtended DEF new, number
  <1>13. Advanced(new, number) = number + l
    <2>1. DOMAIN new = DOMAIN dataList \cup {number} /\ new[number] = Bytes(p, l)
      BY DEF new, WithEntry
    <2>2. Len(new[number]) = l
      BY <1>1, <2>1, BytesFacts
    <2>3. \A k \in DOMAIN new : k <= number
      <3>1. DOMAIN dataList \subseteq Nat /\ number \in Nat
        BY <1>1, <1>9, <1>12, AheadFacts
      <3> QED BY <1>12, <2>1, <3>1
    <2>4. number + l < Modulus
      BY <1>1, <1>6, <1>12
    <2>5. number \in DOMAIN new
      BY <2>1
    <2> QED BY <1>1, <1>11, <2>2, <2>3, <2>4, <2>5, AdvancedOver
  <1>14. expected' = InitialSequenceNumber + (p + l)
    <2>1. expected' = Advanced(new, number)
      BY <1>8, <1>10, <1>12 DEF ExpectedAfter
    <2> QED BY <1>1, <1>12, <1>13, <2>1
  <1>15. p + l \in Nat /\ dataList' = new /\ InFront'
    BY <1>1, <1>2, <1>10, <1>12 DEF InFront
  <1> QED BY <1>2, <1>4, <1>5, <1>8, <1>12, <1>14, <1>15 DEF Ordered, Queue

(* What is read is what comes next.                                         *)
LEMMA RemoveDataOrdered ==
    ASSUME IInv, HInv, NEW n, Ordered(n), InFront',
           NEW count \in 1..Len(handed), RemoveData(count), inOrder
    PROVE  Ordered(n)'
  <1> DEFINE all == AllContent(dataList)
             left == AllContent(Removed(dataList, count))
             h == SubSeq(handed, 1, count)
  <1>1. /\ handed \in Seq(Nat) /\ Len(handed) \in Nat /\ count \in Nat /\ count > 0
        /\ count <= Len(handed) /\ handed # << >>
    BY DEF HInv
  <1>2. /\ dataList' = Removed(dataList, count) /\ readTo' = ReadAfter(count)
        /\ arrived' = arrived /\ expected' = expected
    BY DEF RemoveData
  <1>3. /\ n \in Nat /\ Queue(dataList, readTo, n) /\ readTo \in Nat /\ readTo <= n
        /\ Len(all) = n - readTo /\ \A i \in 1..(n - readTo) : all[i] = readTo + i - 1
    BY DEF Ordered, Queue
  <1>4. AllHeld(dataList, arrived)
    BY DEF IInv
  <1>5. all \in Seq(Nat) /\ Len(all) \in Nat
    BY <1>4, AllContentFacts
  <1>6. IsPrefix(handed, all)
    BY <1>1 DEF Ordered, InFront
  <1> HIDE DEF all
  <1>7. Len(handed) <= Len(all) /\ \A i \in 1..Len(handed) : handed[i] = all[i]
    BY <1>1, <1>5, <1>6, PrefixIs
  <1>8. h = Bytes(readTo, count)
    <2>1. h \in Seq(Nat) /\ Len(h) = count /\ \A i \in 1..count : h[i] = handed[i]
      <3>1. 1 \in Int /\ count \in Int /\ \A i \in 1..count : handed[i] \in Nat
        BY <1>1
      <3>2. /\ h \in Seq(Nat) /\ Len(h) = (IF 1 <= count THEN count - 1 + 1 ELSE 0)
            /\ \A i \in 1..(count - 1 + 1) : h[i] = handed[1 + i - 1]
        BY <3>1, SubSeqProperties
      <3>3. 1 <= count /\ (count - 1) + 1 = count /\ \A i \in 1..count : (1 + i) - 1 = i
        BY <1>1
      <3> HIDE DEF h
      <3> QED BY <1>1, <3>2, <3>3
    <2>2. /\ Bytes(readTo, count) \in Seq(Nat) /\ Len(Bytes(readTo, count)) = count
          /\ \A i \in 1..count : Bytes(readTo, count)[i] = readTo + i - 1
      BY <1>1, <1>3, BytesFacts
    <2> HIDE DEF h
    <2>3. \A i \in 1..count : h[i] = Bytes(readTo, count)[i]
      <3> SUFFICES ASSUME NEW i \in 1..count PROVE h[i] = Bytes(readTo, count)[i]
        OBVIOUS
      <3>1. i \in 1..Len(handed) /\ i \in 1..(n - readTo)
        BY <1>1, <1>3, <1>7
      <3> QED BY <1>3, <1>7, <2>1, <2>2, <3>1
    <2> QED BY <2>1, <2>2, <2>3, SeqEqual
  <1> HIDE DEF h
  <1>9. readTo' = readTo + count /\ readTo' \in Nat /\ readTo' <= n
    <2>1. readTo' = readTo + count
      BY <1>2, <1>3, <1>8 DEF ReadAfter, h
    <2> QED BY <1>1, <1>3, <1>7, <2>1
  <1>10. /\ left \in Seq(Nat) /\ Len(left) = Len(all) - count
         /\ \A i \in 1..Len(left) : left[i] = all[count + i]
    <2>1. Apart(dataList)
      BY <1>3, <1>4, QueueApart
    <2>2. count <= Len(AllContent(dataList))
      BY <1>1, <1>5, <1>7 DEF all
    <2> QED BY <1>1, <1>4, <2>1, <2>2, RemovedContent DEF all
  <1> HIDE DEF left
  <1>11. Len(left) = n - (readTo + count)
    BY <1>1, <1>3, <1>10
  <1>12. ASSUME NEW i \in 1..(n - (readTo + count)) PROVE left[i] = (readTo + count) + i - 1
    <2>1. i \in 1..Len(left) /\ count + i \in 1..(n - readTo)
          /\ readTo + (count + i) - 1 = (readTo + count) + i - 1
      BY <1>1, <1>3, <1>11
    <2> QED BY <1>3, <1>10, <2>1
  <1>13. AllContent(dataList)' = left
    BY <1>2 DEF left
  <1>14. Queue(dataList, readTo, n)'
    BY <1>3, <1>9, <1>11, <1>12, <1>13 DEF Queue
  <1>15. arrived = 0..(n - 1) /\ expected = InitialSequenceNumber + n
    BY DEF Ordered
  <1> QED BY <1>2, <1>3, <1>9, <1>14, <1>15 DEF Ordered

LEMMA OInvStep == IInv /\ HInv /\ OInv /\ [Next]_vars /\ IInv' => OInv'
  <1> SUFFICES ASSUME IInv, HInv, OInv, [Next]_vars, IInv' PROVE OInv'
    OBVIOUS
  <1>1. CASE \E s \in Segments : AddTcpData(s)
    BY <1>1, AddTcpDataOrdered
  <1>2. ASSUME UNCHANGED <<inOrder, arrived, cleared>>,
               \A n : Ordered(n) /\ inOrder => Ordered(n)'
        PROVE  OInv'
    <2>1. inOrder' = inOrder /\ arrived' = arrived /\ cleared' = cleared
      BY <1>2
    <2> QED BY <1>2, <2>1 DEF OInv
  <1>3. ASSUME NEW n, Ordered(n) PROVE InFront'
    <2>1. Apart(dataList)
      BY <1>3, QueueApart DEF Ordered, IInv
    <2>2. InFront /\ ~Overlapping
      BY <1>3, <2>1 DEF Ordered, Apart, Overlapping
    <2> QED BY <2>2, InFrontStep
  <1>4. ASSUME UNCHANGED <<dataList, expected, arrived, readTo>>
        PROVE  \A n : Ordered(n) => Ordered(n)'
    BY <1>3, <1>4 DEF Ordered, Queue
  <1>5. CASE GetAllAvailableTcpData
    BY <1>2, <1>4, <1>5 DEF GetAllAvailableTcpData
  <1>6. CASE GetNextVirtualTcpData
    BY <1>2, <1>4, <1>6 DEF GetNextVirtualTcpData
  <1>7. CASE \E count \in 1..Len(handed) : RemoveData(count)
    <2>1. PICK count \in 1..Len(handed) : RemoveData(count)
      BY <1>7
    <2>2. \A n : Ordered(n) /\ inOrder => Ordered(n)'
      BY <1>3, <2>1, RemoveDataOrdered
    <2> QED BY <1>2, <2>1, <2>2 DEF RemoveData
  <1>8. CASE Return
    BY <1>2, <1>4, <1>8 DEF Return
  <1>9. CASE Clear
    BY <1>9 DEF Clear, OInv
  <1>10. CASE UNCHANGED vars
    BY <1>2, <1>4, <1>10 DEF vars
  <1> QED BY <1>1, <1>5, <1>6, <1>7, <1>8, <1>9, <1>10 DEF Next

(* A stream that arrives in order is read in order, whatever its segments   *)
(* are and wherever the reader cuts, and until the numbers wrap all that    *)
(* arrived and was not read is available.                                   *)
THEOREM OrderedStreamIsRead == Spec => []InOrderIsRead
  <1>1. IInv /\ OInv => InOrderIsRead
    <2> SUFFICES ASSUME IInv, Ordered(Cardinality(arrived)),
                        InitialSequenceNumber + Cardinality(arrived) < Modulus
                 PROVE  /\ readTo >= 0
                        /\ CountBytesToRead(dataList) = Cardinality(arrived) - readTo
      BY DEF OInv, InOrderIsRead
    <2>1. AllHeld(dataList, arrived) /\ readTo >= 0
      BY DEF IInv, Ordered
    <2> QED BY <2>1, ReadableOfQueue DEF Ordered
  <1>2. Init => HInv
    BY DEF Init, HInv, HandedIsGapFree
  <1>3. Init => OInv
    BY InitOInv
  <1>4. IInv /\ HInv /\ [Next]_vars => HInv'
    BY HInvStep
  <1>5. IInv /\ HInv /\ OInv /\ [Next]_vars /\ IInv' => OInv'
    BY OInvStep
  <1> QED BY <1>1, <1>2, <1>3, <1>4, <1>5, Invariance, PTL DEF Spec

----------------------------------------------------------------------------
(* SMB: the instance's operators that a proof needs facts about.            *)

LEMMA SmbLists ==
    /\ \A q, entry, n : Smb!AddBounded(q, entry, n) = AddBounded(q, entry, n)
    /\ \A q, key : Smb!WithoutKey(q, key) = WithoutKey(q, key)
    /\ \A q, key : Smb!Touch(q, key) = Touch(q, key)
    /\ \A q, entry : Smb!PushFront(q, entry) = PushFront(q, entry)
    /\ \A q, key : Smb!Position(q, key) = Position(q, key)
    /\ \A q : Smb!KeysOf(q) = KeysOf(q)
  BY DEF Smb!AddBounded, Smb!PushFront, Smb!WithoutKey, Smb!EraseAt, Smb!Position, Smb!KeysOf,
         Smb!Touch, AddBounded, PushFront, WithoutKey, EraseAt, Position, KeysOf, Touch

LEMMA SmbNumbers ==
    /\ \A S : Smb!Cardinality(S) = Cardinality(S)
    /\ \A S : Smb!Max(S) = Max(S)
  BY DEF Smb!Cardinality, Cardinality, Smb!Max, Max

\* One piece is written to an empty file: the file has one piece.
LEMMA OneWritten ==
    ASSUME NEW old, Len(old) = 0, NEW pieces, Len(pieces) = 1
    PROVE  Len(Smb!Overwritten(old, 0, pieces)) = 1
  <1> DEFINE new(i) == IF i \in 0 + 1 .. 0 + Len(pieces) THEN pieces[i - 0] ELSE old[i]
             l == Smb!Max({Len(old), 0 + Len(pieces)})
  <1>1. l = 1
    <2>1. Max({0, 1}) \in {0, 1} /\ 1 <= Max({0, 1})
      BY GreaterOfTwo
    <2>2. l = Max({0, 1})
      BY SmbNumbers
    <2> HIDE DEF l
    <2> QED BY <2>1, <2>2
  <1>2. Smb!Overwritten(old, 0, pieces) = [i \in 1..l |-> new(i)]
    BY DEF Smb!Overwritten
  <1> HIDE DEF l, new
  <1>3. Smb!Overwritten(old, 0, pieces) \in [1..1 -> {new(1)}]
    BY <1>1, <1>2
  <1> HIDE DEF new
  <1> QED BY <1>3

LEMMA OneInOrder ==
    ASSUME NEW window, NEW n, DOMAIN window = {n}
    PROVE  Len(Smb!InOrder(window)) = 1
  <1> DEFINE piece(i) == window[Smb!NumberAt(window, i)]
  <1>1. Smb!Cardinality(DOMAIN window) = 1
    BY SmbNumbers, FS_Singleton
  <1>2. Smb!InOrder(window) = [i \in 1..1 |-> piece(i)]
    BY <1>1 DEF Smb!InOrder
  <1> HIDE DEF piece
  <1>3. Smb!InOrder(window) \in [1..1 -> {piece(1)}]
    BY <1>2
  <1> QED BY <1>3

\* A listed assembler is active or as it was created.
IsSmbAssembler(a) ==
    /\ DOMAIN a = {"tuple", "type", "name", "active", "stream", "open", "position", "window",
                   "content", "remaining", "assembled"}
    /\ a.type = "SMB" /\ a.active \in BOOLEAN
    /\ ~a.active => a.stream = 0 /\ ~a.open /\ a.position = 0 /\ a.window = << >>

\* Temporary files are empty, published files have one piece.
IsSmbDisk(d) ==
    /\ DOMAIN d = {"files", "cache", "output"}
    /\ (\E C : d.files \in Seq(C)) /\ (\E C : d.output \in Seq(C))
    /\ \A k \in DOMAIN d.cache : d.cache[k] \in 1..Len(d.files) /\ Len(d.files[d.cache[k]]) = 0
    /\ \A j, k \in DOMAIN d.cache : d.cache[j] = d.cache[k] => j = k
    /\ \A i \in 1..Len(d.output) :
          d.output[i].file \in 1..Len(d.files) /\ Len(d.files[d.output[i].file]) = 1

\* An assembler as it is after its activation: its stream is at the start of the
\* empty temporary file.
Activated(b, e) ==
    /\ IsSmbAssembler(b) /\ b.active /\ b.open /\ b.position = 0 /\ b.window = << >>
    /\ b.tuple \in DOMAIN e.cache /\ b.stream = e.cache[b.tuple]

LEMMA SmbActivates ==
    ASSUME NEW a, NEW d, IsSmbAssembler(a), ~a.active, IsSmbDisk(d)
    PROVE  LET r == Smb!TryActivate(a, d)
           IN  IsSmbDisk(r.disk) /\ Activated(r.assembler, r.disk)
  <1>1. a.stream = 0 /\ ~a.open /\ a.position = 0 /\ a.window = << >>
    BY DEF IsSmbAssembler
  <1>2. CASE a.tuple \in DOMAIN d.cache
    <2> DEFINE b == [a EXCEPT !.active = TRUE, !.stream = d.cache[a.tuple], !.open = TRUE]
    <2>1. Smb!TryActivate(a, d) = [assembler |-> b, disk |-> d]
      BY <1>1, <1>2 DEF Smb!TryActivate, Smb!Opened, Smb!Result
    <2>2. Activated(b, d)
      BY <1>1, <1>2 DEF IsSmbAssembler, Activated
    <2> HIDE DEF b
    <2> QED BY <2>1, <2>2
  <1>3. CASE a.tuple \notin DOMAIN d.cache
    <2> DEFINE n == Len(d.files) + 1
               b == [a EXCEPT !.active = TRUE, !.stream = n, !.open = TRUE]
               grown == Append(d.files, << >>)
               cache == Smb!Put(d.cache, a.tuple, n)
               e == [d EXCEPT !.files = grown, !.cache = cache]
    <2>1. Smb!TryActivate(a, d) = [assembler |-> b, disk |-> e]
      BY <1>1, <1>3 DEF Smb!TryActivate, Smb!Opened, Smb!Result
    <2>2. PICK C : d.files \in Seq(C)
      BY DEF IsSmbDisk
    <2>3. /\ grown \in Seq(C \cup {<< >>}) /\ Len(d.files) \in Nat /\ Len(grown) = n
          /\ grown[n] = << >> /\ \A f \in 1..Len(d.files) : grown[f] = d.files[f]
      <3>1. d.files \in Seq(C \cup {<< >>}) /\ << >> \in C \cup {<< >>}
        BY <2>2, SeqWider
      <3> HIDE DEF grown
      <3> QED BY <3>1, AppendFacts DEF grown
    <2>4. /\ DOMAIN cache = DOMAIN d.cache \cup {a.tuple} /\ cache[a.tuple] = n
          /\ \A k \in DOMAIN d.cache : cache[k] = d.cache[k]
      BY <1>3 DEF Smb!Put
    <2>5. /\ DOMAIN e = {"files", "cache", "output"} /\ e.files = grown
          /\ e.cache = cache /\ e.output = d.output
      BY DEF IsSmbDisk
    <2>6. /\ IsSmbAssembler(b) /\ b.active /\ b.open /\ b.position = 0 /\ b.window = << >>
          /\ b.tuple = a.tuple /\ b.stream = n
      BY <1>1 DEF IsSmbAssembler
    <2> HIDE DEF b, grown, cache, e
    <2>7. Activated(b, e)
      BY <2>4, <2>5, <2>6 DEF Activated
    <2>8. IsSmbDisk(e)
      <3>1. n \in Nat /\ Len(<< >>) = 0
        BY <2>3
      <3>2. \A k \in DOMAIN d.cache : d.cache[k] \in 1..Len(d.files) /\ d.cache[k] # n
        BY <2>3 DEF IsSmbDisk
      <3>3. \A k \in DOMAIN cache : cache[k] \in 1..n /\ Len(grown[cache[k]]) = 0
        BY <2>3, <2>4, <3>1, <3>2 DEF IsSmbDisk
      <3>4. \A j, k \in DOMAIN cache : cache[j] = cache[k] => j = k
        BY <2>4, <3>2 DEF IsSmbDisk
      <3>5. \A i \in 1..Len(d.output) :
               d.output[i].file \in 1..n /\ Len(grown[d.output[i].file]) = 1
        BY <2>3 DEF IsSmbDisk
      <3>6. (\E D : grown \in Seq(D)) /\ (\E D : d.output \in Seq(D))
        BY <2>3 DEF IsSmbDisk
      <3> HIDE DEF n
      <3> QED BY <2>3, <2>5, <3>3, <3>4, <3>5, <3>6 DEF IsSmbDisk
    <2> QED BY <2>1, <2>7, <2>8
  <1> QED BY <1>2, <1>3

\* An assembler with one piece in its window is finished.
LEMMA SmbFinishes ==
    ASSUME NEW b, NEW e, IsSmbDisk(e), NEW n,
           DOMAIN b = {"tuple", "type", "name", "active", "stream", "open", "position", "window",
                       "content", "remaining", "assembled"},
           b.open, b.position = 0, DOMAIN b.window = {n},
           b.tuple \in DOMAIN e.cache, b.stream = e.cache[b.tuple]
    PROVE  LET r == Smb!FinishAssembling(b, e)
           IN  IsSmbDisk(r.disk) /\ r.assembler.active = FALSE
  <1> DEFINE s == b.stream
             pieces == Smb!InOrder(b.window)
             new == Smb!Overwritten(e.files[s], b.position, pieces)
             changed == [e.files EXCEPT ![s] = new]
             entry == [name |-> b.name, file |-> e.cache[b.tuple]]
             output == Append(e.output, entry)
             cache == Smb!Without(e.cache, b.tuple)
             w == [e EXCEPT !.files = changed]
             f == [w EXCEPT !.cache = Smb!Without(w.cache, b.tuple), !.output = Append(w.output, entry)]
             c == [b EXCEPT !.position = b.position + Len(pieces)]
             a == [c EXCEPT !.active = FALSE, !.open = FALSE, !.window = << >>]
  <1>1. Smb!FinishAssembling(b, e) = [assembler |-> a, disk |-> f]
    BY DEF Smb!FinishAssembling, Smb!Write, Smb!Result, Smb!Named
  <1>2. a.active = FALSE
    OBVIOUS
  <1>3. s \in 1..Len(e.files) /\ Len(e.files[s]) = 0
    BY DEF IsSmbDisk
  <1>4. Len(new) = 1
    <2>1. Len(pieces) = 1
      BY OneInOrder
    <2> HIDE DEF pieces
    <2> QED BY <1>3, <2>1, OneWritten
  <1>5. /\ f.files = changed /\ f.cache = cache /\ f.output = output
        /\ DOMAIN f = {"files", "cache", "output"}
    BY DEF IsSmbDisk
  <1>6. PICK C : e.files \in Seq(C)
    BY DEF IsSmbDisk
  <1> HIDE DEF new, pieces, a, f, c, w
  <1>7. /\ changed \in Seq(C \cup {new}) /\ Len(changed) = Len(e.files)
        /\ changed[s] = new /\ \A i \in 1..Len(e.files) : i # s => changed[i] = e.files[i]
    <2>1. e.files \in Seq(C \cup {new}) /\ new \in C \cup {new}
      BY <1>6, SeqWider
    <2> QED BY <1>3, <2>1
  <1>8. PICK D : e.output \in Seq(D)
    BY DEF IsSmbDisk
  <1>9. /\ output \in Seq(D \cup {entry}) /\ Len(output) = Len(e.output) + 1 /\ Len(e.output) \in Nat
        /\ output[Len(e.output) + 1] = entry /\ \A i \in 1..Len(e.output) : output[i] = e.output[i]
    <2>1. e.output \in Seq(D \cup {entry}) /\ entry \in D \cup {entry}
      BY <1>8, SeqWider
    <2> HIDE DEF entry
    <2> QED BY <2>1, AppendFacts
  <1>10. entry.file = s
    OBVIOUS
  <1>11. DOMAIN cache = DOMAIN e.cache \ {b.tuple} /\ \A k \in DOMAIN cache : cache[k] = e.cache[k]
    BY DEF Smb!Without
  <1> HIDE DEF changed, output, entry, cache
  <1>12. \A k \in DOMAIN cache : cache[k] \in 1..Len(changed) /\ Len(changed[cache[k]]) = 0
    <2>1. \A k \in DOMAIN cache : cache[k] # s
      BY <1>11 DEF IsSmbDisk
    <2> QED BY <1>7, <1>11, <2>1 DEF IsSmbDisk
  <1>13. \A j, k \in DOMAIN cache : cache[j] = cache[k] => j = k
    BY <1>11 DEF IsSmbDisk
  <1>14. ASSUME NEW i \in 1..Len(output)
         PROVE  output[i].file \in 1..Len(changed) /\ Len(changed[output[i].file]) = 1
    <2>1. i \in 1..Len(e.output) \/ i = Len(e.output) + 1
      BY <1>9
    <2>2. CASE i \in 1..Len(e.output)
      <3>1. e.output[i].file \in 1..Len(e.files) /\ Len(e.files[e.output[i].file]) = 1
        BY <2>2 DEF IsSmbDisk
      <3> QED BY <1>4, <1>7, <1>9, <2>2, <3>1
    <2>3. CASE i = Len(e.output) + 1
      BY <1>3, <1>4, <1>7, <1>9, <1>10, <2>3
    <2> QED BY <2>1, <2>2, <2>3
  <1>15. IsSmbDisk(f)
    BY <1>5, <1>7, <1>9, <1>12, <1>13, <1>14 DEF IsSmbDisk
  <1> QED BY <1>1, <1>2, <1>15

\* One piece in the window.
LEMMA OneInserted ==
    ASSUME NEW b, NEW e, Activated(b, e), NEW piece, NEW number
    PROVE  LET c == Smb!Inserted(b, piece, number)
           IN  /\ DOMAIN c = {"tuple", "type", "name", "active", "stream", "open", "position",
                              "window", "content", "remaining", "assembled"}
               /\ c.type = "SMB" /\ c.active /\ c.open /\ c.position = 0
               /\ c.tuple = b.tuple /\ c.stream = b.stream /\ DOMAIN c.window = {number}
               /\ Smb!Spilled(c, e) = [assembler |-> c, disk |-> e]
  <1> DEFINE c == Smb!Inserted(b, piece, number)
  <1>1. DOMAIN b.window = {}
    <2>1. DOMAIN << >> = {}
      OBVIOUS
    <2> QED BY <2>1 DEF Activated
  <1>2. DOMAIN Smb!Put(b.window, number, piece) = {number}
    BY <1>1 DEF Smb!Put
  <1>3. /\ DOMAIN c = {"tuple", "type", "name", "active", "stream", "open", "position",
                       "window", "content", "remaining", "assembled"}
        /\ c.type = "SMB" /\ c.active /\ c.open /\ c.position = 0
        /\ c.tuple = b.tuple /\ c.stream = b.stream
        /\ c.window = Smb!Put(b.window, number, piece)
    BY DEF Activated, IsSmbAssembler, Smb!Inserted
  <1> HIDE DEF c
  <1>4. Smb!Cardinality(DOMAIN c.window) = 1
    BY <1>2, <1>3, SmbNumbers, FS_Singleton
  <1>5. 1 <= WindowSize
    BY WindowAssumption
  <1>6. Smb!Spilled(c, e) = [assembler |-> c, disk |-> e]
    BY <1>4, <1>5 DEF Smb!Spilled, Smb!Result
  <1> QED BY <1>2, <1>3, <1>6 DEF c

\* What an answer does to an assembler: it is of no more use, or as it has to be.
LEMMA SmbReadInto ==
    ASSUME NEW a, IsSmbAssembler(a), IsSmbDisk(smbDisk), NEW piece, NEW number, NEW length
    PROVE  LET r == Smb!ReadInto(a, piece, number, length)
           IN  /\ IsSmbDisk(r.disk) /\ r.assembler.active \in BOOLEAN
               /\ r.assembler.active => IsSmbAssembler(r.assembler)
  <1> DEFINE awaiting == [a EXCEPT !.remaining = a.remaining + length]
             active == Smb!TryActivate(awaiting, smbDisk)
             b == active.assembler
             e == active.disk
  <1>1. IsSmbAssembler(awaiting) /\ awaiting.active = a.active
    BY DEF IsSmbAssembler
  <1>2. CASE a.active
    <2>1. Smb!ReadInto(a, piece, number, length) = [assembler |-> awaiting, disk |-> smbDisk]
      BY <1>2 DEF Smb!ReadInto, Smb!Result
    <2> HIDE DEF awaiting
    <2> QED BY <1>1, <2>1 DEF IsSmbAssembler
  <1>3. CASE ~a.active
    <2>1. Smb!ReadInto(a, piece, number, length) = Smb!AddData(b, e, piece, number)
      BY <1>3 DEF Smb!ReadInto
    <2> HIDE DEF awaiting
    <2>2. IsSmbDisk(e) /\ Activated(b, e)
      BY <1>1, <1>3, SmbActivates
    <2> HIDE DEF active
    <2>3. IsSmbAssembler(b) /\ b.active \in BOOLEAN
      BY <2>2 DEF Activated, IsSmbAssembler
    <2>4. CASE ~Smb!Accepts(b, piece, number)
      <3>1. Smb!AddData(b, e, piece, number) = [assembler |-> b, disk |-> e]
        BY <2>4 DEF Smb!AddData, Smb!Result
      <3> HIDE DEF b, e
      <3> QED BY <2>1, <2>2, <2>3, <3>1
    <2>5. CASE Smb!Accepts(b, piece, number)
      <3> DEFINE c == Smb!Inserted(b, piece, number)
      <3> HIDE DEF b, e
      <3>1. /\ DOMAIN c = {"tuple", "type", "name", "active", "stream", "open", "position",
                           "window", "content", "remaining", "assembled"}
            /\ c.type = "SMB" /\ c.active /\ c.open /\ c.position = 0
            /\ c.tuple = b.tuple /\ c.stream = b.stream /\ DOMAIN c.window = {number}
            /\ Smb!Spilled(c, e) = [assembler |-> c, disk |-> e]
        BY <2>2, OneInserted
      <3>2. c.type # "TFTP" /\ c.type \in Smb!EndsByLength
        BY <3>1 DEF Smb!EndsByLength
      <3>3. Smb!AddData(b, e, piece, number) =
              IF c.assembled >= c.content /\ c.content # -1 THEN Smb!FinishAssembling(c, e)
              ELSE IF c.remaining = 0
              THEN [assembler |-> [c EXCEPT !.active = FALSE], disk |-> e]
              ELSE [assembler |-> c, disk |-> e]
        <4> HIDE DEF c
        <4>1. Smb!Spilled(c, e).assembler = c /\ Smb!Spilled(c, e).disk = e
          BY <3>1
        <4> QED BY <2>5, <3>1, <3>2, <4>1 DEF Smb!AddData, Smb!Result, c
      <3> HIDE DEF c
      <3>4. IsSmbDisk(Smb!FinishAssembling(c, e).disk)
            /\ Smb!FinishAssembling(c, e).assembler.active = FALSE
        <4>1. c.tuple \in DOMAIN e.cache /\ c.stream = e.cache[c.tuple]
          BY <2>2, <3>1 DEF Activated
        <4> QED BY <2>2, <3>1, <4>1, SmbFinishes
      <3>5. IsSmbAssembler(c)
        BY <3>1 DEF IsSmbAssembler
      <3> DEFINE done == [c EXCEPT !.active = FALSE]
                 r == Smb!AddData(b, e, piece, number)
      <3>6. done.active = FALSE
        BY <3>1
      <3> HIDE DEF done
      <3>7. IsSmbDisk(r.disk) /\ (r.assembler.active = FALSE \/ r.assembler = c)
        BY <2>2, <3>3, <3>4, <3>6 DEF done
      <3>8. c.active \in BOOLEAN
        BY <3>5 DEF IsSmbAssembler
      <3> HIDE DEF r
      <3>9. r.assembler.active \in BOOLEAN /\ (r.assembler.active => IsSmbAssembler(r.assembler))
        BY <3>5, <3>7, <3>8
      <3> QED BY <2>1, <3>7, <3>9 DEF r
    <2> QED BY <2>4, <2>5
  <1> QED BY <1>2, <1>3

----------------------------------------------------------------------------
(* SMB: the lists of sessions and of their assemblers.                      *)

IsEntry(e) == DOMAIN e = {"key", "assembler"} /\ IsSmbAssembler(e.assembler)
IsEntries(q) == \E E : q \in Seq(E) /\ \A e \in E : IsEntry(e)

IsSession(s) == DOMAIN s = {"key", "last", "assemblers"} /\ IsEntries(s.assemblers)
IsSessions(q) == \E E : q \in Seq(E) /\ \A s \in E : IsSession(s)

LEMMA EntriesKept ==
    ASSUME NEW q, IsEntries(q), NEW key
    PROVE  /\ IsEntries(Smb!WithoutKey(q, key)) /\ IsEntries(Smb!Touch(q, key))
           /\ key \in Smb!KeysOf(q) => IsEntry(q[Smb!Position(q, key)])
  <1>1. PICK E : q \in Seq(E) /\ \A e \in E : IsEntry(e)
    BY DEF IsEntries
  <1>2. WithoutKey(q, key) \in Seq(E)
    BY <1>1, WithoutKeyFacts
  <1>3. Touch(q, key) \in Seq(E)
    BY <1>1, TouchType
  <1>4. key \in KeysOf(q) => q[Position(q, key)] \in E
    BY <1>1, PositionFacts
  <1> QED BY <1>1, <1>2, <1>3, <1>4, SmbLists DEF IsEntries

LEMMA EntryAdded ==
    ASSUME NEW q, IsEntries(q), NEW entry, IsEntry(entry), NEW size \in Nat
    PROVE  IsEntries(Smb!AddBounded(q, entry, size))
  <1>1. PICK E : q \in Seq(E) /\ \A e \in E : IsEntry(e)
    BY DEF IsEntries
  <1>2. q \in Seq(E \cup {entry}) /\ entry \in E \cup {entry}
    BY <1>1, SeqWider
  <1>3. AddBounded(q, entry, size) \in Seq(E \cup {entry})
    BY <1>2, AddBoundedType
  <1>4. \A e \in E \cup {entry} : IsEntry(e)
    BY <1>1
  <1> QED BY <1>3, <1>4, SmbLists DEF IsEntries

(* An entry is changed where it is, and stays or is erased.                 *)
LEMMA EntryChanged ==
    ASSUME NEW q, IsEntries(q), NEW key \in Smb!KeysOf(q), NEW entry, entry.key = key
    PROVE  LET changed == [q EXCEPT ![Smb!Position(q, key)] = entry]
           IN  /\ IsEntry(entry) => IsEntries(changed)
               /\ IsEntries(Smb!WithoutKey(changed, key))
  <1> DEFINE p == Position(q, key)
             changed == [q EXCEPT ![p] = entry]
  <1>1. PICK E : q \in Seq(E) /\ \A e \in E : IsEntry(e)
    BY DEF IsEntries
  <1>2. key \in KeysOf(q) /\ Smb!Position(q, key) = p
    BY SmbLists
  <1>3. p \in 1..Len(q) /\ q[p].key = key
    BY <1>1, <1>2, PositionFacts
  <1>4. Position(changed, key) = p
    <2>1. DOMAIN changed = DOMAIN q /\ \A i \in DOMAIN q : changed[i].key = q[i].key
      BY <1>3
    <2> HIDE DEF changed
    <2> QED BY <2>1 DEF Position
  <1> HIDE DEF p
  <1>5. /\ changed \in Seq(E \cup {entry}) /\ Len(changed) = Len(q)
        /\ \A i \in DOMAIN changed : i # p => changed[i] \in E
        /\ p \in DOMAIN changed /\ changed[p].key = key
    <2>1. q \in Seq(E \cup {entry}) /\ entry \in E \cup {entry}
      BY <1>1, SeqWider
    <2>2. \A i \in 1..Len(q) : q[i] \in E
      BY <1>1, ElementOfSeq
    <2> QED BY <1>3, <2>1, <2>2
  <1> HIDE DEF changed
  <1>6. IsEntry(entry) => IsEntries(changed)
    <2>1. IsEntry(entry) => \A e \in E \cup {entry} : IsEntry(e)
      BY <1>1
    <2> QED BY <1>5, <2>1 DEF IsEntries
  <1>7. IsEntries(WithoutKey(changed, key))
    <2>1. key \in KeysOf(changed)
      BY <1>5 DEF KeysOf
    <2>2. WithoutKey(changed, key) = EraseAt(changed, p)
      BY <1>4, <2>1 DEF WithoutKey
    <2> DEFINE shorter == EraseAt(changed, p)
    <2>3. /\ shorter \in Seq(E \cup {entry})
          /\ \A j \in DOMAIN shorter : \E k \in DOMAIN changed : k # p /\ shorter[j] = changed[k]
      <3>1. p \in 1..Len(changed)
        BY <1>3, <1>5
      <3> QED BY <1>5, <3>1, EraseFacts, EraseKeeps
    <2> HIDE DEF shorter
    <2>4. \A j \in DOMAIN shorter : shorter[j] \in E
      BY <1>5, <2>3
    <2>5. shorter \in Seq(E)
      <3>1. Len(shorter) \in Nat /\ shorter = [j \in 1..Len(shorter) |-> shorter[j]]
            /\ DOMAIN shorter = 1..Len(shorter)
        BY <2>3
      <3>2. [j \in 1..Len(shorter) |-> shorter[j]] \in Seq(E)
        BY <2>4, <3>1
      <3> QED BY <3>1, <3>2
    <2> QED BY <1>1, <2>2, <2>5 DEF IsEntries, shorter
  <1> QED BY <1>2, <1>6, <1>7, SmbLists DEF changed

----------------------------------------------------------------------------
(* SMB: what each command leaves.                                           *)

SInv == IsSessions(smbSessions) /\ IsSmbDisk(smbDisk)
IsAfter(h) == IsSessions(h.sessions) /\ IsSmbDisk(h.disk)

LEMMA SessionPut ==
    ASSUME SInv, NEW s, IsSession(s), NEW d, IsSmbDisk(d)
    PROVE  IsAfter(Smb!WithSession(s, d))
  <1>1. PICK E : smbSessions \in Seq(E) /\ \A e \in E : IsSession(e)
    BY DEF SInv, IsSessions
  <1>2. WithoutKey(smbSessions, s.key) \in Seq(E)
    BY <1>1, WithoutKeyFacts
  <1>3. WithoutKey(smbSessions, s.key) \in Seq(E \cup {s}) /\ s \in E \cup {s}
    BY <1>2, SeqWider
  <1>4. PushFront(WithoutKey(smbSessions, s.key), s) \in Seq(E \cup {s})
    BY <1>3, PushFacts
  <1>5. IsSessions(PushFront(WithoutKey(smbSessions, s.key), s))
    <2>1. \A e \in E \cup {s} : IsSession(e)
      BY <1>1
    <2> QED BY <1>4, <2>1 DEF IsSessions
  <1> QED BY <1>5, SmbLists DEF IsAfter, Smb!WithSession, Smb!After

LEMMA SessionFound ==
    ASSUME SInv, NEW f, f.session \in Smb!KeysOf(smbSessions)
    PROVE  IsSession(Smb!SessionOf(f))
  <1>1. PICK E : smbSessions \in Seq(E) /\ \A e \in E : IsSession(e)
    BY DEF SInv, IsSessions
  <1>2. smbSessions[Position(smbSessions, f.session)] \in E
    <2>1. f.session \in KeysOf(smbSessions)
      BY SmbLists
    <2> QED BY <1>1, <2>1, PositionFacts
  <1> QED BY <1>1, <1>2, SmbLists DEF Smb!SessionOf

LEMMA SessionGetsAssembler ==
    ASSUME NEW s, IsSession(s), NEW a, IsSmbAssembler(a), NEW tree, NEW id
    PROVE  IsSession(Smb!AddFileStreamAssembler(s, a, tree, id))
  <1> DEFINE entry == [key |-> id, assembler |-> a]
             q == Smb!AddBounded(s.assemblers, entry, SmbFilePoolSize)
  <1>1. IsEntry(entry) /\ IsEntries(s.assemblers) /\ SmbFilePoolSize \in Nat
    BY PoolSizesAssumption DEF IsEntry, IsSession
  <1> HIDE DEF entry
  <1>2. IsEntries(q)
    BY <1>1, EntryAdded
  <1> HIDE DEF q
  <1>3. Smb!AddFileStreamAssembler(s, a, tree, id) =
           [s EXCEPT !.last = Smb!Put(s.last, tree, id), !.assemblers = q]
    BY DEF Smb!AddFileStreamAssembler, q, entry
  <1> QED BY <1>2, <1>3 DEF IsSession

LEMMA SessionLosesAssembler ==
    ASSUME NEW s, IsSession(s), NEW id
    PROVE  IsSession(Smb!RemoveFileStreamAssembler(s, id))
  <1> DEFINE q == Smb!WithoutKey(s.assemblers, id)
  <1>1. IsEntries(q)
    BY EntriesKept DEF IsSession
  <1> HIDE DEF q
  <1>2. Smb!RemoveFileStreamAssembler(s, id) = [s EXCEPT !.assemblers = q]
    BY DEF Smb!RemoveFileStreamAssembler, q
  <1> QED BY <1>1, <1>2 DEF IsSession

LEMMA SessionTouched ==
    ASSUME NEW s, IsSession(s), NEW tree
    PROVE  /\ IsSession(Smb!LastTouched(s, tree))
           /\ Smb!HasLast(s, tree) => IsSmbAssembler(Smb!LastAssembler(s, tree))
  <1> DEFINE q == Smb!Touch(s.assemblers, s.last[tree])
  <1>1. IsEntries(s.assemblers) /\ IsEntries(q)
    BY EntriesKept DEF IsSession
  <1> HIDE DEF q
  <1>2. CASE tree \notin DOMAIN s.last
    BY <1>2 DEF Smb!LastTouched, Smb!HasLast
  <1>3. CASE tree \in DOMAIN s.last
    <2>1. Smb!LastTouched(s, tree) = [s EXCEPT !.assemblers = q]
      BY <1>3 DEF Smb!LastTouched, q
    <2>2. Smb!HasLast(s, tree) => IsSmbAssembler(Smb!LastAssembler(s, tree))
      BY <1>1, EntriesKept DEF Smb!HasLast, Smb!LastAssembler, IsEntry
    <2> QED BY <1>1, <2>1, <2>2 DEF IsSession
  <1> QED BY <1>2, <1>3

LEMMA CreateRequestLeaves ==
    ASSUME SInv, NEW f
    PROVE  IsAfter(Smb!CreateRequest(f))
  <1> DEFINE known == f.session \in Smb!KeysOf(smbSessions)
             session == IF known THEN Smb!SessionOf(f) ELSE Smb!NewSession(f.session)
             new == Smb!NewAssembler(Smb!Tuple(f), "SMB", f)
             added == Smb!AddFileStreamAssembler(session, new, f.tree, 0)
  <1>1. IsSession(session)
    <2>1. IsEntries(<< >>)
      <3> DEFINE E == {}
      <3>1. << >> \in Seq(E) /\ \A e \in E : IsEntry(e)
        OBVIOUS
      <3> HIDE DEF E
      <3> QED BY <3>1 DEF IsEntries
    <2>2. IsSession(Smb!NewSession(f.session))
      BY <2>1 DEF IsSession, Smb!NewSession
    <2> QED BY <2>2, SessionFound
  <1>2. IsSmbAssembler(new)
    BY DEF Smb!NewAssembler, IsSmbAssembler
  <1> HIDE DEF session, new
  <1>3. IsSession(added)
    BY <1>1, <1>2, SessionGetsAssembler
  <1> HIDE DEF added
  <1>4. Smb!CreateRequest(f) =
           IF known THEN Smb!WithSession(added, smbDisk)
           ELSE Smb!After(Smb!AddBounded(smbSessions, added, SmbSessionPoolSize), smbDisk)
    BY DEF Smb!CreateRequest, added, session, new
  <1>5. IsSmbDisk(smbDisk)
    BY DEF SInv
  <1>6. IsAfter(Smb!WithSession(added, smbDisk))
    BY <1>3, <1>5, SessionPut
  <1>7. IsSessions(Smb!AddBounded(smbSessions, added, SmbSessionPoolSize))
    <2>1. PICK E : smbSessions \in Seq(E) /\ \A e \in E : IsSession(e)
      BY DEF SInv, IsSessions
    <2>2. /\ smbSessions \in Seq(E \cup {added}) /\ added \in E \cup {added}
          /\ SmbSessionPoolSize \in Nat
      BY <2>1, SeqWider, PoolSizesAssumption
    <2>3. AddBounded(smbSessions, added, SmbSessionPoolSize) \in Seq(E \cup {added})
      BY <2>2, AddBoundedType
    <2>4. \A e \in E \cup {added} : IsSession(e)
      BY <1>3, <2>1
    <2> QED BY <2>3, <2>4, SmbLists DEF IsSessions
  <1> QED BY <1>4, <1>5, <1>6, <1>7 DEF IsAfter, Smb!After

LEMMA CreateResponseLeaves ==
    ASSUME SInv, NEW f, f.session \in Smb!KeysOf(smbSessions)
    PROVE  IsAfter(Smb!CreateResponse(f))
  <1> DEFINE session == Smb!LastTouched(Smb!SessionOf(f), f.tree)
             removed == Smb!RemoveLastReferencedAssembler(session, f.tree)
             a == [Smb!LastAssembler(session, f.tree) EXCEPT !.content = Smb!EndOfFile(f)]
  <1>1. IsSession(session) /\ IsSmbDisk(smbDisk)
    BY SessionFound, SessionTouched DEF SInv
  <1>2. Smb!HasLast(session, f.tree) => IsSmbAssembler(a)
    BY <1>1, SessionTouched DEF IsSmbAssembler
  <1> HIDE DEF session, a
  <1>3. IsSession(removed)
    BY <1>1, SessionLosesAssembler DEF Smb!RemoveLastReferencedAssembler
  <1> HIDE DEF removed
  <1>4. Smb!CreateResponse(f) =
           IF Smb!HasLast(session, f.tree)
           THEN Smb!WithSession(Smb!AddFileStreamAssembler(removed, a, f.tree, f.id), smbDisk)
           ELSE Smb!WithSession(removed, smbDisk)
    BY DEF Smb!CreateResponse, session, removed, a
  <1>5. CASE Smb!HasLast(session, f.tree)
    <2>1. IsSession(Smb!AddFileStreamAssembler(removed, a, f.tree, f.id))
      BY <1>2, <1>3, <1>5, SessionGetsAssembler
    <2> QED BY <1>1, <1>4, <1>5, <2>1, SessionPut
  <1>6. CASE ~Smb!HasLast(session, f.tree)
    BY <1>1, <1>3, <1>4, <1>6, SessionPut
  <1> QED BY <1>5, <1>6

LEMMA ReadRequestLeaves ==
    ASSUME SInv, NEW f, f.session \in Smb!KeysOf(smbSessions)
    PROVE  IsAfter(Smb!ReadRequest(f))
  <1> DEFINE session == Smb!TouchFile(Smb!SessionOf(f), f.tree, f.id)
  <1>1. IsSession(session)
    <2> DEFINE s == Smb!SessionOf(f)
    <2>1. IsSession(s)
      BY SessionFound
    <2> HIDE DEF s
    <2>2. IsSession([s EXCEPT !.last = Smb!Put(s.last, f.tree, f.id)])
      BY <2>1 DEF IsSession
    <2>3. IsSession(Smb!TouchFile(s, f.tree, f.id))
      BY <2>1, <2>2 DEF Smb!TouchFile
    <2> QED BY <2>3 DEF s
  <1> HIDE DEF session
  <1>2. Smb!ReadRequest(f) = Smb!WithSession(session, smbDisk)
    BY DEF Smb!ReadRequest, session
  <1> QED BY <1>1, <1>2, SessionPut DEF SInv

LEMMA ReadResponseLeaves ==
    ASSUME SInv, NEW f, f.session \in Smb!KeysOf(smbSessions), NEW i
    PROVE  IsAfter(Smb!ReadResponse(f, i))
  <1> DEFINE session == Smb!LastTouched(Smb!SessionOf(f), f.tree)
             piece == [file |-> f, read |-> i, size |-> f.reads[i].carried]
             old == Smb!LastAssembler(session, f.tree)
             read == Smb!ReadInto(old, piece, Smb!SegmentOf(f, i), f.reads[i].length)
             filled == Smb!WithLast(session, f.tree, read.assembler)
             without == Smb!RemoveLastReferencedAssembler(filled, f.tree)
  <1>1. IsSession(session) /\ IsSmbDisk(smbDisk)
    BY SessionFound, SessionTouched DEF SInv
  <1> HIDE DEF session, piece
  <1>2. Smb!ReadResponse(f, i) =
           IF ~Smb!HasLast(session, f.tree) THEN Smb!WithSession(session, smbDisk)
           ELSE IF read.assembler.active THEN Smb!WithSession(filled, read.disk)
           ELSE Smb!WithSession(without, read.disk)
    BY DEF Smb!ReadResponse, session, piece
  <1>3. CASE ~Smb!HasLast(session, f.tree)
    <2> HIDE DEF read, filled, without
    <2> QED BY <1>1, <1>2, <1>3, SessionPut
  <1>4. CASE Smb!HasLast(session, f.tree)
    <2>1. IsSmbAssembler(old)
      BY <1>1, <1>4, SessionTouched
    <2> HIDE DEF old
    <2>2. /\ IsSmbDisk(read.disk) /\ read.assembler.active \in BOOLEAN
          /\ read.assembler.active => IsSmbAssembler(read.assembler)
      BY <1>1, <2>1, SmbReadInto
    <2> HIDE DEF read
    <2> DEFINE q == session.assemblers
               key == session.last[f.tree]
               p == Smb!Position(q, key)
               entry == [q[p] EXCEPT !.assembler = read.assembler]
               changed == [q EXCEPT ![p] = entry]
    <2>3. IsEntries(q) /\ key \in Smb!KeysOf(q) /\ f.tree \in DOMAIN session.last
      BY <1>1, <1>4 DEF IsSession, Smb!HasLast
    <2> HIDE DEF q, key
    <2>4. IsEntry(q[p]) /\ q[p].key = key
      <3>1. IsEntry(q[p])
        BY <2>3, EntriesKept
      <3>2. q[p].key = key
        <4>1. PICK E : q \in Seq(E)
          BY <2>3 DEF IsEntries
        <4>2. key \in KeysOf(q)
          BY <2>3, SmbLists
        <4> QED BY <4>1, <4>2, PositionFacts, SmbLists
      <3> QED BY <3>1, <3>2
    <2> HIDE DEF p
    <2>5. entry.key = key /\ (read.assembler.active => IsEntry(entry))
      BY <2>2, <2>4 DEF IsEntry
    <2>6. filled = [session EXCEPT !.assemblers = changed]
      BY DEF Smb!WithLast, p, q, key
    <2> HIDE DEF entry
    <2>7. (read.assembler.active => IsEntries(changed)) /\ IsEntries(Smb!WithoutKey(changed, key))
      BY <2>2, <2>3, <2>5, EntryChanged DEF p
    <2> HIDE DEF changed, filled
    <2>8. /\ DOMAIN filled = {"key", "last", "assemblers"}
          /\ filled.assemblers = changed /\ filled.last = session.last
      BY <1>1, <2>6 DEF IsSession
    <2>9. CASE read.assembler.active
      <3>1. IsSession(filled)
        BY <2>7, <2>8, <2>9 DEF IsSession
      <3> HIDE DEF without
      <3> QED BY <1>2, <1>4, <2>2, <2>9, <3>1, SessionPut
    <2>10. CASE ~read.assembler.active
      <3>1. without = Smb!RemoveFileStreamAssembler(filled, key)
        BY <2>3, <2>8 DEF Smb!RemoveLastReferencedAssembler, Smb!LastReferenced, key
      <3> DEFINE r == Smb!WithoutKey(changed, key)
      <3>2. without = [filled EXCEPT !.assemblers = r]
        BY <2>8, <3>1 DEF Smb!RemoveFileStreamAssembler
      <3>3. IsEntries(r)
        BY <2>7
      <3> HIDE DEF r, without
      <3>4. IsSession(without)
        BY <2>8, <3>2, <3>3 DEF IsSession
      <3> QED BY <1>2, <1>4, <2>2, <2>10, <3>4, SessionPut
    <2> QED BY <2>9, <2>10
  <1> QED BY <1>3, <1>4

LEMMA SmbCleared ==
    ASSUME NEW a, NEW d, IsSmbDisk(d)
    PROVE  IsSmbDisk(Smb!ClearAssembler(a, d).disk)
  <1> DEFINE cache == Smb!Without(d.cache, a.tuple)
             e == [d EXCEPT !.cache = cache]
  <1>1. Smb!ClearAssembler(a, d).disk \in {d, e}
    BY DEF Smb!ClearAssembler, Smb!Result
  <1>2. DOMAIN cache \subseteq DOMAIN d.cache /\ \A k \in DOMAIN cache : cache[k] = d.cache[k]
    BY DEF Smb!Without
  <1> HIDE DEF cache
  <1>3. /\ DOMAIN e = {"files", "cache", "output"} /\ e.files = d.files /\ e.output = d.output
        /\ e.cache = cache
    BY DEF IsSmbDisk
  <1> HIDE DEF e
  <1>4. IsSmbDisk(e)
    BY <1>2, <1>3 DEF IsSmbDisk
  <1> QED BY <1>1, <1>4

LEMMA CloseRequestLeaves ==
    ASSUME SInv, NEW f, f.session \in Smb!KeysOf(smbSessions)
    PROVE  IsAfter(Smb!CloseRequest(f))
  <1> DEFINE session == Smb!SessionOf(f)
             closed == session.assemblers[Smb!Position(session.assemblers, f.id)].assembler
             removed == Smb!RemoveFileStreamAssembler(session, f.id)
             next == [removed EXCEPT !.last = Smb!Put(removed.last, f.tree, f.id)]
             disk2 == Smb!ClearAssembler(closed, smbDisk).disk
  <1>1. IsSession(session) /\ IsSmbDisk(smbDisk)
    BY SessionFound DEF SInv
  <1>2. Smb!CloseRequest(f) =
           IF f.id \notin Smb!KeysOf(session.assemblers) THEN Smb!WithSession(session, smbDisk)
           ELSE Smb!WithSession(next, disk2)
    BY DEF Smb!CloseRequest
  <1>3. IsSmbDisk(disk2)
    BY <1>1, SmbCleared
  <1> HIDE DEF session, disk2
  <1>4. IsSession(removed)
    BY <1>1, SessionLosesAssembler
  <1> HIDE DEF removed
  <1>5. IsSession(next)
    BY <1>4 DEF IsSession
  <1> HIDE DEF next
  <1> QED BY <1>1, <1>2, <1>3, <1>5, SessionPut

(* No published file is made of more than one answer, whatever the sizes of *)
(* the lists are and whatever is missed, repeated or sent at once: an answer*)
(* is added only to an assembler that was not active, which then publishes  *)
(* that one piece, or stays active, or is dropped unpublished.              *)
THEOREM OneAnswerEach == FilesSpec => []PublishedFromOneAnswer
  <1>1. FilesInit => SInv
    <2> SUFFICES ASSUME FilesInit PROVE SInv
      OBVIOUS
    <2> DEFINE E == {}
    <2>1. << >> \in Seq(E) /\ (\A e \in E : IsSession(e)) /\ DOMAIN << >> = {} /\ Len(<< >>) = 0
      OBVIOUS
    <2> HIDE DEF E
    <2>2. IsSessions(<< >>)
      BY <2>1 DEF IsSessions
    <2>3. IsSmbDisk(Smb!EmptyDisk)
      BY <2>1 DEF IsSmbDisk, Smb!EmptyDisk
    <2> QED BY <2>2, <2>3 DEF FilesInit, Smb!Init, SInv
  <1>2. SInv /\ [FilesNext]_<<protocol, smbVars, ftpVars>> => SInv'
    <2> SUFFICES ASSUME SInv, [FilesNext]_<<protocol, smbVars, ftpVars>> PROVE SInv'
      OBVIOUS
    <2>1. CASE UNCHANGED <<smbSessions, smbDisk>>
      <3>1. smbSessions' = smbSessions /\ smbDisk' = smbDisk
        BY <2>1
      <3> QED BY <3>1 DEF SInv
    <2>2. CASE \E f, n : Smb!Handle(f, n)
      <3>1. PICK f, n : Smb!Handle(f, n)
        BY <2>2
      <3>2. IsAfter(Smb!Handled(f, n))
        <4>1. IsAfter(Smb!After(smbSessions, smbDisk))
          BY DEF IsAfter, Smb!After, SInv
        <4> QED BY <4>1, CreateRequestLeaves, CreateResponseLeaves, ReadRequestLeaves,
                   ReadResponseLeaves, CloseRequestLeaves DEF Smb!Handled
      <3>3. smbSessions' = Smb!Handled(f, n).sessions /\ smbDisk' = Smb!Handled(f, n).disk
        BY <3>1 DEF Smb!Handle
      <3> QED BY <3>2, <3>3 DEF IsAfter, SInv
    <2>3. UNCHANGED <<smbSessions, smbDisk>> \/ \E f, n : Smb!Handle(f, n)
      BY DEF FilesNext, smbVars, Smb!Next, Smb!Captured, Smb!Missed, Smb!Repeated
    <2> QED BY <2>1, <2>2, <2>3
  <1>3. SInv => PublishedFromOneAnswer
    <2> SUFFICES ASSUME SInv, NEW i \in DOMAIN smbDisk.output
                 PROVE  Len(Smb!Output(smbDisk)[i].data) = 1
      BY DEF PublishedFromOneAnswer, Smb!PublishedFromOneAnswer
    <2>1. Smb!Output(smbDisk)[i].data = smbDisk.files[smbDisk.output[i].file]
      BY DEF Smb!Output
    <2>2. i \in 1..Len(smbDisk.output)
      BY DEF SInv, IsSmbDisk
    <2> QED BY <2>1, <2>2 DEF SInv, IsSmbDisk
  <1> QED BY <1>1, <1>2, <1>3, PTL DEF FilesSpec

----------------------------------------------------------------------------
(* SMB: the length of a file that one read holds.                           *)

\* What an answer to a creation says of a file in one read: the read's length.
LEMMA EndOfOne ==
    ASSUME NEW f, NEW C, f.reads \in Seq(C), Len(f.reads) = 1
    PROVE  Smb!EndOfFile(f) = 0 + f.reads[1].length
  <1>1. DOMAIN f.reads = {1}
    BY SMT
  <1> DEFINE Of(it, s) == IF s = {} THEN 0 ELSE it[s \ {Smb!Max(s)}] + f.reads[Smb!Max(s)].length
             iter == CHOOSE it : it = [s \in SUBSET (DOMAIN f.reads) |-> Of(it, s)]
             sums == [s \in SUBSET (DOMAIN f.reads) |-> IF s = {} THEN 0 ELSE 0 + f.reads[1].length]
  <1>2. Smb!EndOfFile(f) = iter[DOMAIN f.reads]
    BY DEF Smb!EndOfFile, Smb!FoldLeft, Smb!MapThenFoldSet
  <1>3. Smb!Max({1}) = 1
    <2>1. Max({1}) = 1
      BY DEF Max
    <2> QED BY <2>1, SmbNumbers
  <1>4. sums = [s \in SUBSET (DOMAIN f.reads) |-> Of(sums, s)]
    <2>1. SUBSET (DOMAIN f.reads) = {{}, {1}}
      BY <1>1
    <2>2. \A s \in SUBSET (DOMAIN f.reads) : Of(sums, s) = IF s = {} THEN 0 ELSE 0 + f.reads[1].length
      <3>1. sums[{}] = 0 /\ {1} \ {1} = {}
        BY <2>1
      <3>2. Of(sums, {}) = 0
        OBVIOUS
      <3>3. Of(sums, {1}) = sums[{}] + f.reads[1].length
        BY <1>3, <3>1
      <3> QED BY <2>1, <3>1, <3>2, <3>3
    <2> QED BY <2>2
  <1>5. iter = [s \in SUBSET (DOMAIN f.reads) |-> Of(iter, s)]
    BY <1>4
  <1> HIDE DEF iter
  <1>6. iter[{}] = 0 /\ iter[{1}] = iter[{1} \ {1}] + f.reads[1].length
    <2>1. {} \in SUBSET (DOMAIN f.reads) /\ {1} \in SUBSET (DOMAIN f.reads)
      BY <1>1
    <2> QED BY <1>3, <1>5, <2>1
  <1>7. {1} \ {1} = {}
    OBVIOUS
  <1> QED BY <1>1, <1>2, <1>6, <1>7

----------------------------------------------------------------------------
(* SMB: what an answer does to the disk.                                    *)

\* Files are published under these names; nothing published changes.
Publishes(d, e, names) ==
    /\ Len(d.output) <= Len(e.output)
    /\ \A i \in 1..Len(d.output) :
          /\ e.output[i] = d.output[i]
          /\ e.files[d.output[i].file] = d.files[d.output[i].file]
    /\ \A i \in 1..Len(e.output) : i \notin 1..Len(d.output) => e.output[i].name \in names

\* One file with one piece is published under this name.
PublishesOne(d, e, name, piece) ==
    LET m == Len(d.output) + 1
    IN  /\ Publishes(d, e, {name})
        /\ Len(e.output) = m /\ e.output[m].name = name /\ e.files[e.output[m].file] = <<piece>>

LEMMA PublishesNothing ==
    ASSUME NEW d, NEW names, IsSmbDisk(d)
    PROVE  Publishes(d, d, names)
  <1>1. Len(d.output) \in Nat
    BY DEF IsSmbDisk
  <1> QED BY <1>1 DEF Publishes

\* What is written while a file is made does not touch what was published.
LEMMA ActivationPublishesNothing ==
    ASSUME NEW a, NEW d, IsSmbAssembler(a), ~a.active, IsSmbDisk(d), NEW names
    PROVE  LET r == Smb!TryActivate(a, d)
           IN  /\ r.disk.output = d.output
               /\ \A k \in 1..Len(d.files) : r.disk.files[k] = d.files[k]
               /\ r.assembler.name = a.name /\ r.assembler.remaining = a.remaining
               /\ r.assembler.assembled = a.assembled /\ r.assembler.content = a.content
  <1>1. a.stream = 0
    BY DEF IsSmbAssembler
  <1>2. CASE a.tuple \in DOMAIN d.cache
    <2> DEFINE b == [a EXCEPT !.active = TRUE, !.stream = d.cache[a.tuple], !.open = TRUE]
    <2>1. Smb!TryActivate(a, d) = [assembler |-> b, disk |-> d]
      BY <1>1, <1>2 DEF Smb!TryActivate, Smb!Opened, Smb!Result
    <2>2. /\ b.name = a.name /\ b.remaining = a.remaining
          /\ b.assembled = a.assembled /\ b.content = a.content
      BY DEF IsSmbAssembler
    <2> HIDE DEF b
    <2> QED BY <2>1, <2>2
  <1>3. CASE a.tuple \notin DOMAIN d.cache
    <2> DEFINE n == Len(d.files) + 1
               b == [a EXCEPT !.active = TRUE, !.stream = n, !.open = TRUE]
               grown == Append(d.files, << >>)
               e == [d EXCEPT !.files = grown, !.cache = Smb!Put(d.cache, a.tuple, n)]
    <2>1. Smb!TryActivate(a, d) = [assembler |-> b, disk |-> e]
      BY <1>1, <1>3 DEF Smb!TryActivate, Smb!Opened, Smb!Result
    <2>2. PICK C : d.files \in Seq(C)
      BY DEF IsSmbDisk
    <2>3. \A f \in 1..Len(d.files) : grown[f] = d.files[f]
      <3>1. d.files \in Seq(C \cup {<< >>}) /\ << >> \in C \cup {<< >>}
        BY <2>2, SeqWider
      <3> HIDE DEF grown
      <3> QED BY <3>1, AppendFacts DEF grown
    <2>4. e.files = grown /\ e.output = d.output
      BY DEF IsSmbDisk
    <2>5. /\ b.name = a.name /\ b.remaining = a.remaining
          /\ b.assembled = a.assembled /\ b.content = a.content
      BY DEF IsSmbAssembler
    <2> HIDE DEF b, grown, e
    <2> QED BY <2>1, <2>3, <2>4, <2>5
  <1> QED BY <1>2, <1>3

\* A finished file is published as it is in the window.
LEMMA AnswerPublished ==
    ASSUME NEW b, NEW e, IsSmbDisk(e), NEW n \in Int,
           DOMAIN b = {"tuple", "type", "name", "active", "stream", "open", "position", "window",
                       "content", "remaining", "assembled"},
           b.open, b.position = 0, DOMAIN b.window = {n},
           b.tuple \in DOMAIN e.cache, b.stream = e.cache[b.tuple]
    PROVE  LET r == Smb!FinishAssembling(b, e)
           IN  r.assembler.name = b.name /\ PublishesOne(e, r.disk, b.name, b.window[n])
  <1> DEFINE s == b.stream
             pieces == Smb!InOrder(b.window)
             new == Smb!Overwritten(e.files[s], b.position, pieces)
             changed == [e.files EXCEPT ![s] = new]
             entry == [name |-> b.name, file |-> e.cache[b.tuple]]
             output == Append(e.output, entry)
             w == [e EXCEPT !.files = changed]
             f == [w EXCEPT !.cache = Smb!Without(w.cache, b.tuple), !.output = Append(w.output, entry)]
             c == [b EXCEPT !.position = b.position + Len(pieces)]
             a == [c EXCEPT !.active = FALSE, !.open = FALSE, !.window = << >>]
  <1>1. Smb!FinishAssembling(b, e) = [assembler |-> a, disk |-> f]
    BY DEF Smb!FinishAssembling, Smb!Write, Smb!Result, Smb!Named
  <1>2. a.name = b.name
    OBVIOUS
  <1>3. s \in 1..Len(e.files) /\ Len(e.files[s]) = 0
    BY DEF IsSmbDisk
  <1>4. pieces = <<b.window[n]>>
    <2> DEFINE At(i) == b.window[Smb!NumberAt(b.window, i)]
    <2>1. Smb!Cardinality(DOMAIN b.window) = 1
      BY SmbNumbers, FS_Singleton
    <2>2. pieces = [i \in 1..1 |-> At(i)]
      BY <2>1 DEF Smb!InOrder
    <2>3. Smb!NumberAt(b.window, 1) = n
      <3>1. {k \in DOMAIN b.window : k < n} = {}
        OBVIOUS
      <3>2. Smb!Cardinality({k \in DOMAIN b.window : k < n}) = 1 - 1
        BY <3>1, SmbNumbers, FS_EmptySet
      <3> QED BY <3>2 DEF Smb!NumberAt
    <2>4. At(1) = b.window[n]
      BY <2>3
    <2> HIDE DEF At
    <2> QED BY <2>2, <2>4
  <1> HIDE DEF pieces
  <1>5. new = <<b.window[n]>>
    <2> DEFINE l == Smb!Max({0, 1})
               Of(i) == IF i \in 0 + 1 .. 0 + 1 THEN <<b.window[n]>>[i - 0] ELSE e.files[s][i]
    <2>1. l = 1
      <3>1. Max({0, 1}) \in {0, 1} /\ 1 <= Max({0, 1})
        BY GreaterOfTwo
      <3> QED BY <3>1, SmbNumbers
    <2>2. Len(pieces) = 1 /\ 0 + 1 = 1
      BY <1>4
    <2>3. new = [i \in 1..l |-> Of(i)]
      BY <1>3, <1>4, <2>2 DEF Smb!Overwritten
    <2> HIDE DEF l, new
    <2>4. Of(1) = b.window[n]
      OBVIOUS
    <2> HIDE DEF Of
    <2> QED BY <2>1, <2>3, <2>4
  <1>6. f.files = changed /\ f.output = output
    BY DEF IsSmbDisk
  <1>7. PICK C : e.files \in Seq(C)
    BY DEF IsSmbDisk
  <1> HIDE DEF new, a, f, c, w
  <1>8. changed[s] = new /\ \A i \in 1..Len(e.files) : i # s => changed[i] = e.files[i]
    BY <1>3, <1>7
  <1>9. PICK D : e.output \in Seq(D)
    BY DEF IsSmbDisk
  <1>10. /\ Len(output) = Len(e.output) + 1 /\ Len(e.output) \in Nat
         /\ output[Len(e.output) + 1] = entry /\ \A i \in 1..Len(e.output) : output[i] = e.output[i]
    <2>1. e.output \in Seq(D \cup {entry}) /\ entry \in D \cup {entry}
      BY <1>9, SeqWider
    <2> HIDE DEF entry
    <2> QED BY <2>1, AppendFacts
  <1>11. entry.file = s /\ entry.name = b.name
    OBVIOUS
  <1> HIDE DEF changed, output, entry
  <1>12. \A i \in 1..Len(e.output) : e.output[i].file \in 1..Len(e.files) /\ e.output[i].file # s
    <2>1. \A i \in 1..Len(e.output) :
             e.output[i].file \in 1..Len(e.files) /\ Len(e.files[e.output[i].file]) = 1
      BY DEF IsSmbDisk
    <2> SUFFICES ASSUME NEW i \in 1..Len(e.output)
                 PROVE  e.output[i].file \in 1..Len(e.files) /\ e.output[i].file # s
      OBVIOUS
    <2>2. e.output[i].file \in 1..Len(e.files) /\ Len(e.files[e.output[i].file]) = 1
      BY <2>1
    <2>3. Len(e.files[s]) # 1
      BY <1>3
    <2> HIDE DEF s
    <2> QED BY <2>2, <2>3
  <1>13. Publishes(e, f, {b.name})
    <2>1. ASSUME NEW i \in 1..Len(output), i \notin 1..Len(e.output) PROVE output[i].name \in {b.name}
      <3>1. i = Len(e.output) + 1
        BY <1>10, <2>1
      <3> QED BY <1>10, <1>11, <3>1
    <2>2. \A i \in 1..Len(e.output) :
             output[i] = e.output[i] /\ changed[e.output[i].file] = e.files[e.output[i].file]
      BY <1>8, <1>10, <1>12
    <2> QED BY <1>6, <1>10, <2>1, <2>2 DEF Publishes
  <1>14. LET r == Smb!FinishAssembling(b, e) IN r.assembler = a /\ r.disk = f
    BY <1>1
  <1>15. a.name = b.name
    BY <1>2 DEF a, c
  <1>16. f.files[f.output[Len(e.output) + 1].file] = <<b.window[n]>>
    BY <1>5, <1>6, <1>8, <1>10, <1>11
  <1>17. Len(f.output) = Len(e.output) + 1 /\ f.output[Len(e.output) + 1].name = b.name
    BY <1>6, <1>10, <1>11
  <1> HIDE DEF s
  <1>18. PublishesOne(e, f, b.name, b.window[n])
    BY <1>13, <1>16, <1>17 DEF PublishesOne
  <1> QED BY <1>14, <1>15, <1>18

LEMMA PublishesLater ==
    ASSUME NEW d, IsSmbDisk(d), NEW e, e.output = d.output,
           \A k \in 1..Len(d.files) : e.files[k] = d.files[k],
           NEW g, NEW name
    PROVE  /\ Publishes(e, g, {name}) => Publishes(d, g, {name})
           /\ \A piece : PublishesOne(e, g, name, piece) => PublishesOne(d, g, name, piece)
  <1>1. \A i \in 1..Len(d.output) : d.output[i].file \in 1..Len(d.files)
    BY DEF IsSmbDisk
  <1>2. Publishes(e, g, {name}) => Publishes(d, g, {name})
    BY <1>1 DEF Publishes
  <1> QED BY <1>2 DEF PublishesOne

\* An answer that is added to a fresh assembler, when it is accepted.
LEMMA AnswerInserted ==
    ASSUME NEW b, NEW e, Activated(b, e), IsSmbDisk(e), NEW piece, NEW number \in Int,
           Smb!Accepts(b, piece, number)
    PROVE  LET c == Smb!Inserted(b, piece, number)
               r == Smb!AddData(b, e, piece, number)
               done == c.assembled >= c.content /\ c.content # -1
           IN  /\ c.name = b.name /\ c.assembled = b.assembled + piece.size /\ c.content = b.content
               /\ DOMAIN c.window = {number} /\ c.window[number] = piece
               /\ done => r = Smb!FinishAssembling(c, e)
               /\ ~done => r.disk = e /\ r.assembler.name = b.name
               /\ Smb!FinishAssembling(c, e).assembler.name = b.name
               /\ PublishesOne(e, Smb!FinishAssembling(c, e).disk, b.name, piece)
  <1> DEFINE c == Smb!Inserted(b, piece, number)
             done == c.assembled >= c.content /\ c.content # -1
             r == Smb!AddData(b, e, piece, number)
             fin == Smb!FinishAssembling(c, e)
  <1>1. /\ DOMAIN c = {"tuple", "type", "name", "active", "stream", "open", "position",
                       "window", "content", "remaining", "assembled"}
        /\ c.type = "SMB" /\ c.active /\ c.open /\ c.position = 0
        /\ c.tuple = b.tuple /\ c.stream = b.stream /\ DOMAIN c.window = {number}
        /\ Smb!Spilled(c, e) = [assembler |-> c, disk |-> e]
    BY OneInserted
  <1>2. c.type # "TFTP" /\ c.type \in Smb!EndsByLength
    BY <1>1 DEF Smb!EndsByLength
  <1>3. /\ c.name = b.name /\ c.assembled = b.assembled + piece.size /\ c.content = b.content
        /\ c.window = Smb!Put(b.window, number, piece)
    BY DEF Activated, IsSmbAssembler, Smb!Inserted
  <1>4. c.window[number] = piece
    BY <1>3 DEF Smb!Put
  <1>5. r = IF done THEN Smb!FinishAssembling(c, e)
            ELSE IF c.remaining = 0 THEN [assembler |-> [c EXCEPT !.active = FALSE], disk |-> e]
            ELSE [assembler |-> c, disk |-> e]
    <2> HIDE DEF c
    <2>1. Smb!Spilled(c, e).assembler = c /\ Smb!Spilled(c, e).disk = e
      BY <1>1
    <2> QED BY <1>1, <1>2, <2>1 DEF Smb!AddData, Smb!Result, c
  <1> HIDE DEF c, r
  <1>6. c.tuple \in DOMAIN e.cache /\ c.stream = e.cache[c.tuple]
    BY <1>1 DEF Activated
  <1>7. fin.assembler.name = c.name /\ PublishesOne(e, fin.disk, c.name, c.window[number])
    BY <1>1, <1>6, AnswerPublished
  <1> HIDE DEF fin
  <1>8. ~done => r.disk = e /\ r.assembler.name = b.name
    <2> DEFINE off == [c EXCEPT !.active = FALSE]
    <2>1. off.name = c.name
      BY <1>1
    <2> HIDE DEF off
    <2>2. ASSUME ~done PROVE r \in {[assembler |-> off, disk |-> e], [assembler |-> c, disk |-> e]}
      BY <1>5, <2>2 DEF off
    <2> QED BY <1>3, <2>1, <2>2
  <1>9. done => r = fin
    BY <1>5 DEF fin
  <1> QED BY <1>1, <1>3, <1>4, <1>7, <1>8, <1>9 DEF c, r, fin

\* The assembler is as it was created, and this piece is all that it is for.
TakesAll(a, piece, length) ==
    /\ ~a.active /\ a.remaining = 0 /\ a.assembled = 0 /\ length \in Nat \ {0}
    /\ a.content = length /\ piece.size = length

LEMMA ReadPublishes ==
    ASSUME NEW a, IsSmbAssembler(a), IsSmbDisk(smbDisk), NEW piece, NEW number \in Int, NEW length
    PROVE  LET r == Smb!ReadInto(a, piece, number, length)
           IN  /\ r.assembler.name = a.name /\ Publishes(smbDisk, r.disk, {a.name})
               /\ TakesAll(a, piece, length) =>
                     r.assembler.active = FALSE /\ PublishesOne(smbDisk, r.disk, a.name, piece)
  <1> DEFINE awaiting == [a EXCEPT !.remaining = a.remaining + length]
             active == Smb!TryActivate(awaiting, smbDisk)
             b == active.assembler
             e == active.disk
             r == Smb!ReadInto(a, piece, number, length)
             fits == TakesAll(a, piece, length)
  <1>1. /\ IsSmbAssembler(awaiting) /\ awaiting.active = a.active /\ awaiting.name = a.name
        /\ awaiting.remaining = a.remaining + length
        /\ awaiting.assembled = a.assembled /\ awaiting.content = a.content
    BY DEF IsSmbAssembler
  <1>2. CASE a.active
    <2>1. r = [assembler |-> awaiting, disk |-> smbDisk]
      BY <1>2 DEF Smb!ReadInto, Smb!Result
    <2> HIDE DEF awaiting
    <2>2. r.assembler = awaiting /\ r.disk = smbDisk
      BY <2>1
    <2>3. r.assembler.name = a.name /\ Publishes(smbDisk, r.disk, {a.name})
      BY <1>1, <2>2, PublishesNothing
    <2> HIDE DEF r
    <2> QED BY <1>2, <2>3 DEF r, TakesAll
  <1>3. CASE ~a.active
    <2>1. r = Smb!AddData(b, e, piece, number)
      BY <1>3 DEF Smb!ReadInto
    <2> HIDE DEF awaiting, r
    <2>2. ~awaiting.active
      BY <1>1, <1>3
    <2>3. IsSmbDisk(e) /\ Activated(b, e)
      BY <1>1, <2>2, SmbActivates
    <2>4. /\ e.output = smbDisk.output
          /\ \A k \in 1..Len(smbDisk.files) : e.files[k] = smbDisk.files[k]
          /\ b.name = a.name /\ b.remaining = awaiting.remaining
          /\ b.assembled = a.assembled /\ b.content = a.content
      BY <1>1, <2>2, ActivationPublishesNothing
    <2> HIDE DEF active, b, e
    <2>5. /\ \A g : Publishes(e, g, {a.name}) => Publishes(smbDisk, g, {a.name})
          /\ \A g : PublishesOne(e, g, a.name, piece) => PublishesOne(smbDisk, g, a.name, piece)
      BY <2>4, PublishesLater
    <2>6. CASE ~Smb!Accepts(b, piece, number)
      <3>1. Smb!AddData(b, e, piece, number) = [assembler |-> b, disk |-> e]
        BY <2>6 DEF Smb!AddData, Smb!Result
      <3>2. r.assembler = b /\ r.disk = e
        BY <2>1, <3>1
      <3>3. ~fits
        <4> SUFFICES ASSUME fits PROVE FALSE
          OBVIOUS
        <4>1. b.remaining = 0 + length
          BY <1>1, <2>4 DEF TakesAll
        <4>2. DOMAIN b.window = {}
          <5>1. DOMAIN << >> = {}
            OBVIOUS
          <5> QED BY <2>3, <5>1 DEF Activated
        <4>3. b.active /\ piece.size > 0 /\ number \notin DOMAIN b.window /\ piece.size <= b.remaining
          BY <2>3, <4>1, <4>2 DEF Activated, TakesAll
        <4> QED BY <2>6, <4>3 DEF Smb!Accepts
      <3>4. Publishes(e, r.disk, {a.name})
        BY <2>3, <3>2, PublishesNothing
      <3> QED BY <2>4, <2>5, <3>2, <3>3, <3>4 DEF r
    <2>7. CASE Smb!Accepts(b, piece, number)
      <3> DEFINE c == Smb!Inserted(b, piece, number)
                 fin == Smb!FinishAssembling(c, e)
                 done == c.assembled >= c.content /\ c.content # -1
      <3>1. /\ c.name = b.name /\ c.assembled = b.assembled + piece.size /\ c.content = b.content
            /\ DOMAIN c.window = {number} /\ c.window[number] = piece
            /\ done => r = fin
            /\ ~done => r.disk = e /\ r.assembler.name = b.name
            /\ fin.assembler.name = b.name
            /\ PublishesOne(e, fin.disk, b.name, piece)
        BY <2>1, <2>3, <2>7, AnswerInserted
      <3> HIDE DEF c
      <3>2. fin.assembler.active = FALSE
        <4>1. /\ DOMAIN c = {"tuple", "type", "name", "active", "stream", "open", "position",
                             "window", "content", "remaining", "assembled"}
              /\ c.open /\ c.position = 0 /\ c.tuple = b.tuple /\ c.stream = b.stream
          BY <2>3, OneInserted DEF c
        <4>2. c.tuple \in DOMAIN e.cache /\ c.stream = e.cache[c.tuple]
          BY <2>3, <4>1 DEF Activated
        <4> QED BY <2>3, <3>1, <4>1, <4>2, SmbFinishes
      <3> HIDE DEF fin
      <3>3. fits => done
        BY <2>4, <3>1 DEF TakesAll
      <3>4. CASE done
        <4>1. r.assembler.name = a.name /\ r.assembler.active = FALSE
          BY <2>4, <3>1, <3>2, <3>4
        <4>2. PublishesOne(smbDisk, r.disk, a.name, piece)
          BY <2>4, <2>5, <3>1, <3>4
        <4> QED BY <4>1, <4>2 DEF PublishesOne, r
      <3>5. CASE ~done
        <4>1. Publishes(e, r.disk, {a.name})
          BY <2>3, <3>1, <3>5, PublishesNothing
        <4> QED BY <2>4, <2>5, <3>1, <3>3, <3>5, <4>1 DEF r
      <3> QED BY <3>4, <3>5
    <2> QED BY <2>6, <2>7
  <1> QED BY <1>2, <1>3

----------------------------------------------------------------------------
(* SMB: a session, and what its operations do to its assemblers.            *)

\* The session's assemblers are of files of these, one for each key.
Holds(s, N) ==
    /\ IsSession(s) /\ IsList(s.assemblers)
    /\ \A x \in EntriesOf(s.assemblers) : x.assembler.name \in N /\ x.assembler.name.session = s.key

LEMMA HeldEntry ==
    ASSUME NEW s, NEW N, Holds(s, N), NEW x \in EntriesOf(s.assemblers)
    PROVE  IsEntry(x)
  <1>1. PICK E : s.assemblers \in Seq(E) /\ \A e \in E : IsEntry(e)
    BY DEF Holds, IsSession, IsEntries
  <1> QED BY <1>1, ElementOfSeq DEF EntriesOf

LEMMA TouchFacts ==
    ASSUME NEW q, IsList(q), NEW key
    PROVE  IsList(Touch(q, key)) /\ EntriesOf(Touch(q, key)) = EntriesOf(q)
  <1>1. CASE key \notin KeysOf(q)
    BY <1>1 DEF Touch
  <1>2. CASE key \in KeysOf(q)
    <2> DEFINE x == q[Position(q, key)]
    <2>1. Touch(q, key) = PutFirst(q, x) /\ x.key = key
      BY <1>2, TouchedPut
    <2>2. x \in EntriesOf(q)
      BY <1>2, EntryFound
    <2> HIDE DEF x
    <2>3. IsList(PutFirst(q, x)) /\ EntriesOf(PutFirst(q, x)) = {e \in EntriesOf(q) : e.key # x.key} \cup {x}
      BY PutFacts
    <2>4. \A e \in EntriesOf(q) : e.key = x.key => e = x
      BY <2>2, SameEntry
    <2> QED BY <2>1, <2>2, <2>3, <2>4
  <1> QED BY <1>1, <1>2

\* The list has room for these entries.
HasRoom(S) == \A q : IsList(q) /\ EntriesOf(q) = S => Len(q) <= SmbFilePoolSize

LEMMA HeldAdded ==
    ASSUME NEW s, NEW N, Holds(s, N), NEW a, IsSmbAssembler(a), a.name \in N, a.name.session = s.key,
           NEW tree, NEW id
    PROVE  LET r == Smb!AddFileStreamAssembler(s, a, tree, id)
               entry == [key |-> id, assembler |-> a]
           IN  /\ Holds(r, N) /\ r.key = s.key /\ r.last = Smb!Put(s.last, tree, id)
               /\ LET S == {x \in EntriesOf(s.assemblers) : x.key # id} \cup {entry}
                  IN  HasRoom(S) => EntriesOf(r.assemblers) = S
  <1> DEFINE entry == [key |-> id, assembler |-> a]
             q == AddBounded(s.assemblers, entry, SmbFilePoolSize)
             r == Smb!AddFileStreamAssembler(s, a, tree, id)
  <1>1. r = [s EXCEPT !.last = Smb!Put(s.last, tree, id), !.assemblers = q]
    BY SmbLists DEF Smb!AddFileStreamAssembler
  <1>2. IsSession(r)
    BY SessionGetsAssembler DEF Holds
  <1>3. IsList(s.assemblers) /\ SmbFilePoolSize \in Nat \ {0}
    BY PoolSizesAssumption DEF Holds
  <1>4. entry.key = id /\ entry.assembler = a
    OBVIOUS
  <1> HIDE DEF entry
  <1>5. /\ IsList(PutFirst(s.assemblers, entry))
        /\ EntriesOf(PutFirst(s.assemblers, entry)) =
              {x \in EntriesOf(s.assemblers) : x.key # id} \cup {entry}
    BY <1>3, <1>4, PutFacts
  <1>6. /\ IsList(q) /\ EntriesOf(q) \subseteq EntriesOf(PutFirst(s.assemblers, entry))
        /\ Len(PutFirst(s.assemblers, entry)) <= SmbFilePoolSize => q = PutFirst(s.assemblers, entry)
    BY <1>3, AddBoundedKeeps
  <1> HIDE DEF q
  <1>7. r.key = s.key /\ r.last = Smb!Put(s.last, tree, id) /\ r.assemblers = q
    BY <1>1 DEF Holds, IsSession
  <1> HIDE DEF r
  <1>8. Holds(r, N)
    BY <1>2, <1>4, <1>5, <1>6, <1>7 DEF Holds
  <1> QED BY <1>5, <1>6, <1>7, <1>8 DEF r, entry, HasRoom

LEMMA HeldRemoved ==
    ASSUME NEW s, NEW N, Holds(s, N), NEW id
    PROVE  LET r == Smb!RemoveFileStreamAssembler(s, id)
           IN  /\ Holds(r, N) /\ r.key = s.key /\ r.last = s.last
               /\ EntriesOf(r.assemblers) = {x \in EntriesOf(s.assemblers) : x.key # id}
  <1> DEFINE q == WithoutKey(s.assemblers, id)
             r == Smb!RemoveFileStreamAssembler(s, id)
  <1>1. r = [s EXCEPT !.assemblers = q]
    BY SmbLists DEF Smb!RemoveFileStreamAssembler
  <1>2. IsSession(r)
    BY SessionLosesAssembler DEF Holds
  <1>3. IsList(s.assemblers)
    BY DEF Holds
  <1>4. IsList(q) /\ EntriesOf(q) = {x \in EntriesOf(s.assemblers) : x.key # id}
    BY <1>3, EntryErasedFacts
  <1> HIDE DEF q
  <1>5. r.key = s.key /\ r.last = s.last /\ r.assemblers = q
    BY <1>1 DEF Holds, IsSession
  <1> HIDE DEF r
  <1>6. Holds(r, N)
    BY <1>2, <1>4, <1>5 DEF Holds
  <1> QED BY <1>4, <1>5, <1>6 DEF r

LEMMA HeldTouched ==
    ASSUME NEW s, NEW N, Holds(s, N), NEW tree
    PROVE  LET r == Smb!LastTouched(s, tree)
           IN  /\ Holds(r, N) /\ r.key = s.key /\ r.last = s.last
               /\ EntriesOf(r.assemblers) = EntriesOf(s.assemblers)
               /\ Smb!HasLast(r, tree) <=> tree \in DOMAIN s.last /\ s.last[tree] \in KeysOf(s.assemblers)
               /\ \A x \in EntriesOf(s.assemblers) :
                     tree \in DOMAIN s.last /\ x.key = s.last[tree] =>
                        Smb!LastAssembler(r, tree) = x.assembler
  <1> DEFINE q == Touch(s.assemblers, s.last[tree])
             r == Smb!LastTouched(s, tree)
  <1>1. IsSession(r)
    BY SessionTouched DEF Holds
  <1>2. IsList(s.assemblers)
    BY DEF Holds
  <1>3. IsList(q) /\ EntriesOf(q) = EntriesOf(s.assemblers)
    BY <1>2, TouchFacts
  <1>4. r = IF tree \in DOMAIN s.last THEN [s EXCEPT !.assemblers = q] ELSE s
    BY SmbLists DEF Smb!LastTouched
  <1> HIDE DEF q
  <1>5. r.key = s.key /\ r.last = s.last /\ r.assemblers \in {s.assemblers, q}
    BY <1>4 DEF Holds, IsSession
  <1> HIDE DEF r
  <1>6. IsList(r.assemblers) /\ EntriesOf(r.assemblers) = EntriesOf(s.assemblers)
    BY <1>2, <1>3, <1>5
  <1>7. Holds(r, N)
    BY <1>1, <1>5, <1>6 DEF Holds
  <1>8. KeysOf(r.assemblers) = KeysOf(s.assemblers)
    <2>1. \A u : KeysOf(u) = {x.key : x \in EntriesOf(u)}
      BY DEF KeysOf, EntriesOf
    <2> QED BY <1>6, <2>1
  <1>9. Smb!HasLast(r, tree) <=> tree \in DOMAIN s.last /\ s.last[tree] \in KeysOf(s.assemblers)
    BY <1>5, <1>8, SmbLists DEF Smb!HasLast
  <1>10. ASSUME NEW x \in EntriesOf(s.assemblers), x.key = s.last[tree]
         PROVE  Smb!LastAssembler(r, tree) = x.assembler
    <2> DEFINE key == s.last[tree]
               y == r.assemblers[Position(r.assemblers, key)]
    <2>1. key \in KeysOf(r.assemblers)
      BY <1>8, <1>10, KeysOfEntries
    <2> HIDE DEF key
    <2>2. y \in EntriesOf(r.assemblers) /\ y.key = key
      BY <1>6, <2>1, EntryFound
    <2> HIDE DEF y
    <2>3. y = x
      BY <1>6, <1>10, <2>2, SameEntry DEF key
    <2> QED BY <1>5, <2>3, SmbLists DEF Smb!LastAssembler, y, key
  <1> QED BY <1>5, <1>6, <1>7, <1>9, <1>10 DEF r

\* The entry's assembler changed where it is.
LEMMA HeldChanged ==
    ASSUME NEW s, NEW N, Holds(s, N), NEW tree, Smb!HasLast(s, tree), NEW a,
           a.name = Smb!LastAssembler(s, tree).name
    PROVE  LET r == Smb!WithLast(s, tree, a)
               w == Smb!RemoveLastReferencedAssembler(r, tree)
           IN  /\ IsSmbAssembler(a) => Holds(r, N)
               /\ r.key = s.key /\ r.last = s.last
               /\ Holds(w, N) /\ w.key = s.key /\ w.last = s.last
               /\ EntriesOf(w.assemblers) = {x \in EntriesOf(s.assemblers) : x.key # s.last[tree]}
  <1> DEFINE q == s.assemblers
             key == s.last[tree]
             p == Position(q, key)
             entry == [q[p] EXCEPT !.assembler = a]
             c == [q EXCEPT ![p] = entry]
             r == Smb!WithLast(s, tree, a)
             w == Smb!RemoveLastReferencedAssembler(r, tree)
             v == WithoutKey(c, key)
  <1>1. /\ IsList(q) /\ key \in KeysOf(q) /\ tree \in DOMAIN s.last /\ IsEntries(q)
        /\ \A x \in EntriesOf(q) : x.assembler.name \in N /\ x.assembler.name.session = s.key
        /\ DOMAIN s = {"key", "last", "assemblers"}
    BY SmbLists DEF Holds, IsSession, Smb!HasLast
  <1>2. Smb!LastAssembler(s, tree) = q[p].assembler
    BY SmbLists DEF Smb!LastAssembler
  <1>3. r = [s EXCEPT !.assemblers = c]
    BY SmbLists DEF Smb!WithLast
  <1>4. w = [r EXCEPT !.assemblers = WithoutKey(r.assemblers, Smb!LastReferenced(r, tree))]
    BY SmbLists DEF Smb!RemoveLastReferencedAssembler, Smb!RemoveFileStreamAssembler
  <1> HIDE DEF q, key, r, w
  <1>5. p \in DOMAIN q /\ q[p].key = key /\ q[p] \in EntriesOf(q)
    <2>1. \E i \in DOMAIN q : q[i].key = key
      BY <1>1 DEF KeysOf
    <2> QED BY <2>1 DEF Position, EntriesOf
  <1>6. IsEntry(q[p])
    BY <1>1, EntriesKept, SmbLists
  <1>7. entry.key = key /\ entry.assembler = a /\ (IsSmbAssembler(a) => IsEntry(entry))
    BY <1>5, <1>6 DEF IsEntry
  <1> HIDE DEF entry
  <1>8. /\ IsEntry(entry) => IsEntries(c)
        /\ IsEntries(WithoutKey(c, key))
    <2>1. key \in Smb!KeysOf(q)
      BY <1>1, SmbLists
    <2> QED BY <1>1, <1>7, <2>1, EntryChanged, SmbLists
  <1> HIDE DEF p
  <1>9. DOMAIN c = DOMAIN q /\ c[p] = entry /\ \A i \in DOMAIN q : i # p => c[i] = q[i]
    BY <1>1, <1>5
  <1>10. PICK C : q \in Seq(C)
    BY <1>1 DEF IsList
  <1>11. c \in Seq(C \cup {entry})
    <2>1. q \in Seq(C \cup {entry}) /\ entry \in C \cup {entry}
      BY <1>10, SeqWider
    <2> QED BY <1>5, <2>1
  <1> HIDE DEF c
  <1>12. \A i \in DOMAIN q : c[i].key = q[i].key
    BY <1>5, <1>7, <1>9
  <1>13. IsList(c)
    BY <1>1, <1>9, <1>11, <1>12 DEF IsList, OneEntryPerKey
  <1>14. \A x \in EntriesOf(c) : x = entry \/ (x \in EntriesOf(q) /\ x.key # key)
    <2> SUFFICES ASSUME NEW i \in DOMAIN q, i # p PROVE c[i] = q[i] /\ c[i] \in EntriesOf(q) /\ c[i].key # key
      BY <1>9 DEF EntriesOf
    <2> QED BY <1>1, <1>5, <1>9 DEF EntriesOf, IsList, OneEntryPerKey
  <1>15. \A x \in EntriesOf(q) : x.key # key => x \in EntriesOf(c)
    BY <1>5, <1>9 DEF EntriesOf
  <1>16. r.key = s.key /\ r.last = s.last /\ r.assemblers = c /\ DOMAIN r = {"key", "last", "assemblers"}
    BY <1>1, <1>3
  <1>17. IsList(v) /\ EntriesOf(v) = {x \in EntriesOf(c) : x.key # key}
    BY <1>13, EntryErasedFacts
  <1>18. Smb!LastReferenced(r, tree) = key
    BY <1>1, <1>16 DEF Smb!LastReferenced, key
  <1>19. EntriesOf(v) = {x \in EntriesOf(q) : x.key # key}
    BY <1>7, <1>14, <1>15, <1>17
  <1>20. IsEntries(v)
    BY <1>8
  <1> HIDE DEF v
  <1>21. w.key = s.key /\ w.last = s.last /\ w.assemblers = v /\ DOMAIN w = {"key", "last", "assemblers"}
    BY <1>4, <1>16, <1>18 DEF v
  <1>22. Holds(w, N)
    BY <1>1, <1>17, <1>19, <1>20, <1>21 DEF Holds, IsSession
  <1>23. IsSmbAssembler(a) => Holds(r, N)
    <2>1. \A x \in EntriesOf(c) : x.assembler.name \in N /\ x.assembler.name.session = s.key
      BY <1>1, <1>2, <1>5, <1>7, <1>14
    <2> QED BY <1>7, <1>8, <1>13, <1>16, <2>1 DEF Holds, IsSession
  <1> QED BY <1>16, <1>19, <1>21, <1>22, <1>23 DEF r, w, q, key

----------------------------------------------------------------------------
(* SMB: the sessions, and what each command does to its own.                *)

\* Each session holds assemblers of files of these, and has one of them.
SmbKnown(q, N) ==
    /\ IsSessions(q) /\ IsList(q)
    /\ \A e \in EntriesOf(q) : Holds(e, N) /\ \E g \in N : g.session = e.key

\* The list has room for this file's session beside the others.
SessionRoom(f) ==
    \E T : /\ IsFiniteSet(T) /\ Cardinality(T) <= SmbSessionPoolSize
           /\ KeysOf(smbSessions) \subseteq T /\ f.session \in T

Mates(f, N) == {g \in N : g.session = f.session}

\* A frame about this file concerns its session only.
Concerns(h, f, N) ==
    /\ SmbKnown(h.sessions, N) /\ IsSmbDisk(h.disk) /\ Publishes(smbDisk, h.disk, Mates(f, N))
    /\ SessionRoom(f) =>
          \A e \in EntriesOf(smbSessions) : e.key # f.session => e \in EntriesOf(h.sessions)

LEMMA SmbSessionFound ==
    ASSUME NEW N, SmbKnown(smbSessions, N), NEW f, f.session \in KeysOf(smbSessions)
    PROVE  LET e == Smb!SessionOf(f)
           IN  e \in EntriesOf(smbSessions) /\ e.key = f.session /\ Holds(e, N)
  <1>1. IsList(smbSessions)
    BY DEF SmbKnown
  <1>2. Smb!SessionOf(f) \in EntriesOf(smbSessions) /\ Smb!SessionOf(f).key = f.session
    BY <1>1, EntryFound, SmbLists DEF Smb!SessionOf
  <1> QED BY <1>2 DEF SmbKnown

\* Sessions to which one was put, all or some of them.
LEMMA SmbKnownPut ==
    ASSUME NEW N, SmbKnown(smbSessions, N), NEW f \in N, NEW r, Holds(r, N), r.key = f.session,
           NEW q, IsList(q), EntriesOf(q) \subseteq EntriesOf(PutFirst(smbSessions, r))
    PROVE  SmbKnown(q, N)
  <1>1. IsList(smbSessions)
    BY DEF SmbKnown
  <1>2. EntriesOf(PutFirst(smbSessions, r)) \subseteq EntriesOf(smbSessions) \cup {r}
    BY <1>1, PutFacts
  <1>3. \A e \in EntriesOf(q) : Holds(e, N) /\ \E g \in N : g.session = e.key
    BY <1>2 DEF SmbKnown
  <1>4. IsSessions(q)
    <2>1. PICK C : q \in Seq(C)
      BY DEF IsList
    <2> DEFINE E == EntriesOf(q)
    <2>2. Len(q) \in Nat /\ q = [i \in 1..Len(q) |-> q[i]] /\ \A i \in 1..Len(q) : q[i] \in E
      BY <2>1 DEF EntriesOf
    <2>3. \A e \in E : IsSession(e)
      BY <1>3 DEF Holds
    <2> HIDE DEF E
    <2>4. [i \in 1..Len(q) |-> q[i]] \in Seq(E)
      BY <2>2
    <2> QED BY <2>2, <2>3, <2>4 DEF IsSessions
  <1> QED BY <1>3, <1>4 DEF SmbKnown

LEMMA SmbSessionPut ==
    ASSUME NEW N, SmbKnown(smbSessions, N), NEW f \in N, NEW r, Holds(r, N), r.key = f.session,
           NEW d, IsSmbDisk(d), Publishes(smbDisk, d, Mates(f, N))
    PROVE  LET h == Smb!WithSession(r, d)
           IN  Concerns(h, f, N) /\ r \in EntriesOf(h.sessions) /\ h.disk = d
  <1> DEFINE p == PutFirst(smbSessions, r)
             h == Smb!WithSession(r, d)
  <1>1. h.sessions = p /\ h.disk = d
    BY SmbLists DEF Smb!WithSession, Smb!After, PutFirst
  <1>2. IsList(smbSessions)
    BY DEF SmbKnown
  <1> HIDE DEF p, h
  <1>3. IsList(p) /\ EntriesOf(p) = {e \in EntriesOf(smbSessions) : e.key # r.key} \cup {r}
    BY <1>2, PutFacts DEF p
  <1>4. SmbKnown(p, N)
    BY <1>3, SmbKnownPut DEF p
  <1>5. Concerns(h, f, N)
    BY <1>1, <1>3, <1>4 DEF Concerns
  <1> QED BY <1>1, <1>3, <1>5 DEF h

LEMMA SmbSessionAdded ==
    ASSUME NEW N, SmbKnown(smbSessions, N), IsSmbDisk(smbDisk), NEW f \in N,
           NEW r, Holds(r, N), r.key = f.session
    PROVE  LET h == Smb!After(Smb!AddBounded(smbSessions, r, SmbSessionPoolSize), smbDisk)
           IN  Concerns(h, f, N) /\ r \in EntriesOf(h.sessions) /\ h.disk = smbDisk
  <1> DEFINE p == PutFirst(smbSessions, r)
             a == AddBounded(smbSessions, r, SmbSessionPoolSize)
             h == Smb!After(Smb!AddBounded(smbSessions, r, SmbSessionPoolSize), smbDisk)
  <1>1. h.sessions = a /\ h.disk = smbDisk
    BY SmbLists DEF Smb!After
  <1>2. IsList(smbSessions) /\ SmbSessionPoolSize \in Nat \ {0}
    BY PoolSizesAssumption DEF SmbKnown
  <1> HIDE DEF p, h, a
  <1>3. IsList(p) /\ EntriesOf(p) = {e \in EntriesOf(smbSessions) : e.key # r.key} \cup {r}
    BY <1>2, PutFacts DEF p
  <1>4. /\ IsList(a) /\ EntriesOf(a) \subseteq EntriesOf(p) /\ r \in EntriesOf(a)
        /\ Len(p) <= SmbSessionPoolSize => a = p
    BY <1>2, AddBoundedKeeps DEF a, p
  <1>5. SmbKnown(a, N)
    BY <1>4, SmbKnownPut DEF p
  <1>6. ASSUME SessionRoom(f) PROVE a = p
    <2>1. PICK T : /\ IsFiniteSet(T) /\ Cardinality(T) <= SmbSessionPoolSize
                   /\ KeysOf(smbSessions) \subseteq T /\ f.session \in T
      BY <1>6 DEF SessionRoom
    <2>2. KeysOf(p) \subseteq T
      <3>1. \A u : KeysOf(u) = {x.key : x \in EntriesOf(u)}
        BY DEF KeysOf, EntriesOf
      <3> QED BY <1>3, <2>1, <3>1
    <2>3. Len(p) \in Nat /\ Len(p) <= Cardinality(T) /\ Cardinality(T) \in Nat
      BY <1>3, <2>1, <2>2, ListLength, FS_CardinalityType
    <2> QED BY <1>2, <1>4, <2>1, <2>3
  <1>7. Publishes(smbDisk, smbDisk, Mates(f, N))
    BY PublishesNothing
  <1>8. Concerns(h, f, N)
    BY <1>1, <1>3, <1>5, <1>6, <1>7 DEF Concerns
  <1> QED BY <1>1, <1>4, <1>8 DEF h

\* A waiting file's entry, after this many steps of its exchange.
SmbEntry(g, n) ==
    [key |-> IF n = 1 THEN 0 ELSE g.id,
     assembler |-> [Smb!NewAssembler(Smb!Tuple(g), "SMB", g) EXCEPT
                       !.content = IF n = 1 THEN 0 ELSE g.reads[1].length]]

\* The session of a creation, found or new.
SessionFor(f) ==
    IF f.session \in KeysOf(smbSessions) THEN Smb!SessionOf(f) ELSE Smb!NewSession(f.session)

LEMMA CreateRequestDoes ==
    ASSUME NEW N, SmbKnown(smbSessions, N), IsSmbDisk(smbDisk), NEW f \in N
    PROVE  LET h == Smb!CreateRequest(f)
               e == SessionFor(f)
               S == {x \in EntriesOf(e.assemblers) : x.key # 0} \cup {SmbEntry(f, 1)}
           IN  /\ Concerns(h, f, N) /\ h.disk = smbDisk
               /\ \E r \in EntriesOf(h.sessions) :
                     /\ r.key = f.session /\ r.last = Smb!Put(e.last, f.tree, 0)
                     /\ HasRoom(S) => EntriesOf(r.assemblers) = S
  <1> DEFINE h == Smb!CreateRequest(f)
             e == SessionFor(f)
             new == Smb!NewAssembler(Smb!Tuple(f), "SMB", f)
             r == Smb!AddFileStreamAssembler(e, new, f.tree, 0)
             S == {x \in EntriesOf(e.assemblers) : x.key # 0} \cup {SmbEntry(f, 1)}
  <1>1. Holds(e, N) /\ e.key = f.session
    <2>1. CASE f.session \in KeysOf(smbSessions)
      BY <2>1, SmbSessionFound DEF SessionFor
    <2>2. CASE f.session \notin KeysOf(smbSessions)
      <3> DEFINE s == Smb!NewSession(f.session)
                 E == {}
      <3>1. << >> \in Seq(E) /\ (\A x \in E : IsEntry(x)) /\ DOMAIN << >> = {}
        OBVIOUS
      <3> HIDE DEF E
      <3>2. IsEntries(<< >>) /\ IsList(<< >>) /\ EntriesOf(<< >>) = {}
        BY <3>1 DEF IsEntries, IsList, OneEntryPerKey, EntriesOf
      <3>3. DOMAIN s = {"key", "last", "assemblers"} /\ s.assemblers = << >> /\ s.key = f.session
        BY DEF Smb!NewSession
      <3> HIDE DEF s
      <3>4. Holds(s, N)
        BY <3>2, <3>3 DEF Holds, IsSession
      <3> QED BY <2>2, <3>3, <3>4 DEF SessionFor, s
    <2> QED BY <2>1, <2>2
  <1>2. IsSmbAssembler(new) /\ new.name = f
    BY DEF Smb!NewAssembler, IsSmbAssembler
  <1>3. [key |-> 0, assembler |-> new] = SmbEntry(f, 1)
    <2>1. [new EXCEPT !["content"] = 0] = new
      <3>1. new = [x \in DOMAIN new |-> new[x]] /\ "content" \in DOMAIN new /\ new["content"] = 0
        BY DEF Smb!NewAssembler
      <3> HIDE DEF new
      <3> QED BY <3>1
    <2>2. SmbEntry(f, 1) = [key |-> 0, assembler |-> [new EXCEPT !.content = 0]]
      BY DEF SmbEntry
    <2> QED BY <2>1, <2>2
  <1>4. h = IF f.session \in KeysOf(smbSessions) THEN Smb!WithSession(r, smbDisk)
            ELSE Smb!After(Smb!AddBounded(smbSessions, r, SmbSessionPoolSize), smbDisk)
    BY SmbLists DEF Smb!CreateRequest, SessionFor
  <1> HIDE DEF new, e, h
  <1>5. /\ Holds(r, N) /\ r.key = e.key /\ r.last = Smb!Put(e.last, f.tree, 0)
        /\ HasRoom(S) => EntriesOf(r.assemblers) = S
    BY <1>1, <1>2, <1>3, HeldAdded
  <1> HIDE DEF r, S
  <1>6. Publishes(smbDisk, smbDisk, Mates(f, N))
    BY PublishesNothing
  <1>7. Concerns(h, f, N) /\ h.disk = smbDisk /\ r \in EntriesOf(h.sessions)
    BY <1>1, <1>4, <1>5, <1>6, SmbSessionPut, SmbSessionAdded
  <1> QED BY <1>1, <1>5, <1>7 DEF h, e, S

LEMMA CreateResponseDoes ==
    ASSUME NEW N, SmbKnown(smbSessions, N), IsSmbDisk(smbDisk), NEW f \in N,
           f.session \in KeysOf(smbSessions)
    PROVE  LET h == Smb!CreateResponse(f)
               e == Smb!SessionOf(f)
           IN  /\ Concerns(h, f, N)
               /\ \A x \in EntriesOf(e.assemblers) : f.tree \in DOMAIN e.last /\ e.last[f.tree] = x.key =>
                     LET entry == [key |-> f.id,
                                   assembler |-> [x.assembler EXCEPT !.content = Smb!EndOfFile(f)]]
                         S == {y \in EntriesOf(e.assemblers) : y.key # x.key /\ y.key # f.id} \cup {entry}
                     IN  /\ h.disk = smbDisk
                         /\ \E r \in EntriesOf(h.sessions) :
                               /\ r.key = f.session /\ r.last = Smb!Put(e.last, f.tree, f.id)
                               /\ HasRoom(S) => EntriesOf(r.assemblers) = S
  <1> DEFINE h == Smb!CreateResponse(f)
             e == Smb!SessionOf(f)
             t == Smb!LastTouched(e, f.tree)
             w == Smb!RemoveLastReferencedAssembler(t, f.tree)
             a == [Smb!LastAssembler(t, f.tree) EXCEPT !.content = Smb!EndOfFile(f)]
             r == Smb!AddFileStreamAssembler(w, a, f.tree, f.id)
  <1>1. e.key = f.session /\ Holds(e, N)
    BY SmbSessionFound
  <1>2. h = IF Smb!HasLast(t, f.tree) THEN Smb!WithSession(r, smbDisk) ELSE Smb!WithSession(w, smbDisk)
    BY DEF Smb!CreateResponse
  <1> HIDE DEF e, h
  <1>3. /\ Holds(t, N) /\ t.key = e.key /\ t.last = e.last
        /\ EntriesOf(t.assemblers) = EntriesOf(e.assemblers)
        /\ Smb!HasLast(t, f.tree) <=> f.tree \in DOMAIN e.last /\ e.last[f.tree] \in KeysOf(e.assemblers)
        /\ \A x \in EntriesOf(e.assemblers) :
              f.tree \in DOMAIN e.last /\ x.key = e.last[f.tree] =>
                 Smb!LastAssembler(t, f.tree) = x.assembler
    BY <1>1, HeldTouched
  <1> HIDE DEF t
  <1>4. /\ Holds(w, N) /\ w.key = t.key /\ w.last = t.last
        /\ EntriesOf(w.assemblers) =
              {x \in EntriesOf(t.assemblers) : x.key # Smb!LastReferenced(t, f.tree)}
    BY <1>3, HeldRemoved DEF Smb!RemoveLastReferencedAssembler
  <1> HIDE DEF w
  <1>5. Publishes(smbDisk, smbDisk, Mates(f, N))
    BY PublishesNothing
  <1>6. CASE ~Smb!HasLast(t, f.tree)
    <2>1. Concerns(h, f, N)
      BY <1>1, <1>2, <1>3, <1>4, <1>5, <1>6, SmbSessionPut
    <2>2. \A x \in EntriesOf(e.assemblers) : ~(f.tree \in DOMAIN e.last /\ e.last[f.tree] = x.key)
      BY <1>3, <1>6, KeysOfEntries
    <2> QED BY <2>1, <2>2 DEF h, e
  <1>7. CASE Smb!HasLast(t, f.tree)
    <2> DEFINE key == e.last[f.tree]
    <2>1. f.tree \in DOMAIN e.last /\ key \in KeysOf(e.assemblers) /\ Smb!LastReferenced(t, f.tree) = key
      BY <1>3, <1>7 DEF Smb!LastReferenced
    <2> HIDE DEF key
    <2>2. PICK z \in EntriesOf(e.assemblers) : z.key = key
      <3>1. IsList(e.assemblers)
        BY <1>1 DEF Holds
      <3> QED BY <2>1, <3>1, EntryFound
    <2>3. Smb!LastAssembler(t, f.tree) = z.assembler
      BY <1>3, <2>1, <2>2 DEF key
    <2>4. IsEntry(z) /\ z.assembler.name \in N /\ z.assembler.name.session = e.key
      BY <1>1, HeldEntry DEF Holds
    <2>5. IsSmbAssembler(a) /\ a.name = z.assembler.name
      BY <2>3, <2>4 DEF IsEntry, IsSmbAssembler
    <2>6. a = [z.assembler EXCEPT !.content = Smb!EndOfFile(f)]
      BY <2>3
    <2> HIDE DEF a
    <2> DEFINE entry == [key |-> f.id, assembler |-> a]
               S == {y \in EntriesOf(w.assemblers) : y.key # f.id} \cup {entry}
    <2>7. /\ Holds(r, N) /\ r.key = w.key /\ r.last = Smb!Put(w.last, f.tree, f.id)
          /\ HasRoom(S) => EntriesOf(r.assemblers) = S
      <3>1. a.name \in N /\ a.name.session = w.key /\ IsSmbAssembler(a) /\ Holds(w, N)
        BY <1>3, <1>4, <2>4, <2>5
      <3> QED BY <3>1, HeldAdded
    <2>8. S = {y \in EntriesOf(e.assemblers) : y.key # key /\ y.key # f.id} \cup {entry}
      BY <1>3, <1>4, <2>1
    <2> HIDE DEF r, S
    <2>9. Concerns(h, f, N) /\ r \in EntriesOf(h.sessions) /\ h.disk = smbDisk
      BY <1>1, <1>2, <1>3, <1>4, <1>5, <1>7, <2>7, SmbSessionPut
    <2>10. ASSUME NEW x \in EntriesOf(e.assemblers), e.last[f.tree] = x.key
           PROVE  LET new == [key |-> f.id,
                              assembler |-> [x.assembler EXCEPT !.content = Smb!EndOfFile(f)]]
                      R == {y \in EntriesOf(e.assemblers) : y.key # x.key /\ y.key # f.id} \cup {new}
                  IN  R = S
      <3>1. x = z
        <4>1. IsList(e.assemblers)
          BY <1>1 DEF Holds
        <4> QED BY <2>2, <2>10, <4>1, SameEntry DEF key
      <3> QED BY <2>2, <2>6, <2>8, <3>1
    <2>11. r.key = f.session /\ r.last = Smb!Put(e.last, f.tree, f.id)
      BY <1>1, <1>3, <1>4, <2>7
    <2> QED BY <2>7, <2>9, <2>10, <2>11 DEF h, e
  <1> QED BY <1>6, <1>7

LEMMA ReadRequestDoes ==
    ASSUME NEW N, SmbKnown(smbSessions, N), IsSmbDisk(smbDisk), NEW f \in N,
           f.session \in KeysOf(smbSessions)
    PROVE  LET h == Smb!ReadRequest(f)
               e == Smb!SessionOf(f)
           IN  /\ Concerns(h, f, N) /\ h.disk = smbDisk
               /\ \E r \in EntriesOf(h.sessions) :
                     /\ r.key = f.session /\ r.assemblers = e.assemblers
                     /\ f.id \in KeysOf(e.assemblers) => r.last = Smb!Put(e.last, f.tree, f.id)
  <1> DEFINE h == Smb!ReadRequest(f)
             e == Smb!SessionOf(f)
             r == Smb!TouchFile(e, f.tree, f.id)
  <1>1. e.key = f.session /\ Holds(e, N)
    BY SmbSessionFound
  <1>2. h = Smb!WithSession(r, smbDisk)
    BY DEF Smb!ReadRequest
  <1> HIDE DEF e, h
  <1>3. DOMAIN e = {"key", "last", "assemblers"}
    BY <1>1 DEF Holds, IsSession
  <1>4. /\ DOMAIN r = {"key", "last", "assemblers"} /\ r.key = e.key /\ r.assemblers = e.assemblers
        /\ f.id \in KeysOf(e.assemblers) => r.last = Smb!Put(e.last, f.tree, f.id)
    BY <1>3, SmbLists DEF Smb!TouchFile
  <1> HIDE DEF r
  <1>5. Holds(r, N)
    BY <1>1, <1>4 DEF Holds, IsSession
  <1>6. Publishes(smbDisk, smbDisk, Mates(f, N))
    BY PublishesNothing
  <1>7. Concerns(h, f, N) /\ r \in EntriesOf(h.sessions) /\ h.disk = smbDisk
    BY <1>1, <1>2, <1>4, <1>5, <1>6, SmbSessionPut
  <1> QED BY <1>1, <1>4, <1>7 DEF h, e

LEMMA PublishesMore ==
    ASSUME NEW d, NEW e, NEW A, NEW B, A \subseteq B, Publishes(d, e, A)
    PROVE  Publishes(d, e, B)
  BY DEF Publishes

\* This answer is all of the file that the assembler is for.
Awaits(a, f, i) ==
    TakesAll(a, [file |-> f, read |-> i, size |-> f.reads[i].carried], f.reads[i].length)

LEMMA ReadResponseDoes ==
    ASSUME NEW N, SmbKnown(smbSessions, N), IsSmbDisk(smbDisk), NEW f \in N,
           f.session \in KeysOf(smbSessions), f.id \in Nat, NEW i \in Int
    PROVE  LET h == Smb!ReadResponse(f, i)
               e == Smb!SessionOf(f)
               piece == [file |-> f, read |-> i, size |-> f.reads[i].carried]
           IN  /\ Concerns(h, f, N)
               /\ f.tree \in DOMAIN e.last /\ e.last[f.tree] \notin KeysOf(e.assemblers) =>
                     /\ h.disk = smbDisk
                     /\ \E r \in EntriesOf(h.sessions) :
                           /\ r.key = f.session /\ r.last = e.last
                           /\ EntriesOf(r.assemblers) = EntriesOf(e.assemblers)
               /\ \A x \in EntriesOf(e.assemblers) :
                     f.tree \in DOMAIN e.last /\ e.last[f.tree] = x.key /\ Awaits(x.assembler, f, i) =>
                        /\ PublishesOne(smbDisk, h.disk, x.assembler.name, piece)
                        /\ \E r \in EntriesOf(h.sessions) :
                              /\ r.key = f.session /\ r.last = e.last
                              /\ EntriesOf(r.assemblers) = {y \in EntriesOf(e.assemblers) : y.key # x.key}
  <1> DEFINE h == Smb!ReadResponse(f, i)
             e == Smb!SessionOf(f)
             t == Smb!LastTouched(e, f.tree)
             piece == [file |-> f, read |-> i, size |-> f.reads[i].carried]
             number == Smb!SegmentOf(f, i)
             old == Smb!LastAssembler(t, f.tree)
             read == Smb!ReadInto(old, piece, number, f.reads[i].length)
             filled == Smb!WithLast(t, f.tree, read.assembler)
             w == Smb!RemoveLastReferencedAssembler(filled, f.tree)
  <1>1. e.key = f.session /\ Holds(e, N)
    BY SmbSessionFound
  <1>2. h = IF ~Smb!HasLast(t, f.tree) THEN Smb!WithSession(t, smbDisk)
            ELSE IF read.assembler.active THEN Smb!WithSession(filled, read.disk)
            ELSE Smb!WithSession(w, read.disk)
    BY DEF Smb!ReadResponse
  <1>3. number \in Int
    BY DEF Smb!SegmentOf
  <1>4. piece.size = f.reads[i].carried
    OBVIOUS
  <1> HIDE DEF e, h, number, piece
  <1>5. /\ Holds(t, N) /\ t.key = e.key /\ t.last = e.last
        /\ EntriesOf(t.assemblers) = EntriesOf(e.assemblers)
        /\ Smb!HasLast(t, f.tree) <=> f.tree \in DOMAIN e.last /\ e.last[f.tree] \in KeysOf(e.assemblers)
        /\ \A x \in EntriesOf(e.assemblers) :
              f.tree \in DOMAIN e.last /\ x.key = e.last[f.tree] =>
                 Smb!LastAssembler(t, f.tree) = x.assembler
    BY <1>1, HeldTouched
  <1> HIDE DEF t
  <1>6. CASE ~Smb!HasLast(t, f.tree)
    <2>1. Publishes(smbDisk, smbDisk, Mates(f, N))
      BY PublishesNothing
    <2>2. t.key = f.session /\ h = Smb!WithSession(t, smbDisk)
      BY <1>1, <1>2, <1>5, <1>6
    <2>3. Concerns(h, f, N) /\ t \in EntriesOf(h.sessions) /\ h.disk = smbDisk
      BY <1>5, <2>1, <2>2, SmbSessionPut
    <2>4. \A x \in EntriesOf(e.assemblers) : ~(f.tree \in DOMAIN e.last /\ e.last[f.tree] = x.key)
      BY <1>5, <1>6, KeysOfEntries
    <2> HIDE DEF filled, w, read
    <2> QED BY <1>5, <2>2, <2>3, <2>4 DEF h, e
  <1>7. CASE Smb!HasLast(t, f.tree)
    <2> DEFINE key == e.last[f.tree]
    <2>1. f.tree \in DOMAIN e.last /\ key \in KeysOf(e.assemblers)
      BY <1>5, <1>7
    <2> HIDE DEF key
    <2>2. IsList(e.assemblers)
      BY <1>1 DEF Holds
    <2>3. PICK z \in EntriesOf(e.assemblers) : z.key = key
      BY <2>1, <2>2, EntryFound
    <2>4. old = z.assembler
      BY <1>5, <2>1, <2>3 DEF key
    <2>5. IsEntry(z) /\ z.assembler.name \in N /\ z.assembler.name.session = e.key
      BY <1>1, <2>3, HeldEntry DEF Holds
    <2>6. IsSmbAssembler(old) /\ old.name \in N /\ old.name.session = f.session
      BY <1>1, <2>4, <2>5 DEF IsEntry
    <2> HIDE DEF old
    <2>7. IsSmbDisk(read.disk) /\ read.assembler.active \in BOOLEAN
          /\ (read.assembler.active => IsSmbAssembler(read.assembler))
      BY <2>6, SmbReadInto
    <2>8. /\ read.assembler.name = old.name /\ Publishes(smbDisk, read.disk, {old.name})
          /\ Awaits(old, f, i) =>
                read.assembler.active = FALSE /\ PublishesOne(smbDisk, read.disk, old.name, piece)
      <3>1. IsSmbAssembler(old)
        BY <2>6
      <3>2. /\ read.assembler.name = old.name /\ Publishes(smbDisk, read.disk, {old.name})
            /\ TakesAll(old, piece, f.reads[i].length) =>
                  read.assembler.active = FALSE /\ PublishesOne(smbDisk, read.disk, old.name, piece)
        BY ONLY <1>3, <3>1, IsSmbDisk(smbDisk), ReadPublishes
      <3> QED BY <3>2 DEF Awaits, piece
    <2> HIDE DEF read
    <2>9. Publishes(smbDisk, read.disk, Mates(f, N))
      <3>1. {old.name} \subseteq Mates(f, N)
        BY <2>6 DEF Mates
      <3> QED BY <2>8, <3>1, PublishesMore
    <2>10. /\ IsSmbAssembler(read.assembler) => Holds(filled, N)
           /\ filled.key = t.key /\ filled.last = t.last
           /\ Holds(w, N) /\ w.key = t.key /\ w.last = t.last
           /\ EntriesOf(w.assemblers) = {x \in EntriesOf(t.assemblers) : x.key # t.last[f.tree]}
      BY <1>5, <1>7, <2>8, HeldChanged DEF old
    <2> HIDE DEF filled, w
    <2>11. Concerns(h, f, N)
      <3>1. CASE read.assembler.active
        <4>1. Holds(filled, N) /\ filled.key = f.session /\ h = Smb!WithSession(filled, read.disk)
          BY <1>1, <1>2, <1>5, <1>7, <2>7, <2>10, <3>1
        <4> QED BY <2>7, <2>9, <4>1, SmbSessionPut
      <3>2. CASE ~read.assembler.active
        <4>1. Holds(w, N) /\ w.key = f.session /\ h = Smb!WithSession(w, read.disk)
          BY <1>1, <1>2, <1>5, <1>7, <2>10, <3>2
        <4> QED BY <2>7, <2>9, <4>1, SmbSessionPut
      <3> QED BY <3>1, <3>2
    <2>12. ASSUME NEW x \in EntriesOf(e.assemblers), e.last[f.tree] = x.key, Awaits(x.assembler, f, i)
           PROVE  /\ PublishesOne(smbDisk, h.disk, x.assembler.name, piece)
                  /\ \E r \in EntriesOf(h.sessions) :
                        /\ r.key = f.session /\ r.last = e.last
                        /\ EntriesOf(r.assemblers) = {y \in EntriesOf(e.assemblers) : y.key # x.key}
      <3>1. x = z
        BY <2>2, <2>3, <2>12, SameEntry DEF key
      <3>2. read.assembler.active = FALSE /\ PublishesOne(smbDisk, read.disk, x.assembler.name, piece)
        BY <2>4, <2>8, <2>12, <3>1
      <3>3. Holds(w, N) /\ w.key = f.session /\ h = Smb!WithSession(w, read.disk)
        BY <1>1, <1>2, <1>5, <1>7, <2>10, <3>2
      <3>4. w \in EntriesOf(h.sessions) /\ h.disk = read.disk
        BY <2>7, <2>9, <3>3, SmbSessionPut
      <3>5. w.last = e.last /\ EntriesOf(w.assemblers) = {y \in EntriesOf(e.assemblers) : y.key # x.key}
        BY <1>5, <2>10, <2>12
      <3> QED BY <3>2, <3>3, <3>4, <3>5
    <2> QED BY <2>1, <2>11, <2>12 DEF h, e, piece, key
  <1> QED BY <1>6, <1>7

LEMMA ClearPublishesNothing ==
    ASSUME NEW a, NEW d, IsSmbDisk(d), NEW names
    PROVE  Publishes(d, Smb!ClearAssembler(a, d).disk, names)
  <1> DEFINE e == [d EXCEPT !.cache = Smb!Without(d.cache, a.tuple)]
  <1>1. Smb!ClearAssembler(a, d).disk \in {d, e}
    BY DEF Smb!ClearAssembler, Smb!Result
  <1>2. e.files = d.files /\ e.output = d.output
    BY DEF IsSmbDisk
  <1> HIDE DEF e
  <1>3. Publishes(d, d, names)
    BY PublishesNothing
  <1>4. Publishes(d, e, names)
    BY <1>2, <1>3 DEF Publishes
  <1> QED BY <1>1, <1>3, <1>4

LEMMA CloseRequestDoes ==
    ASSUME NEW N, SmbKnown(smbSessions, N), IsSmbDisk(smbDisk), NEW f \in N,
           f.session \in KeysOf(smbSessions)
    PROVE  LET h == Smb!CloseRequest(f)
               e == Smb!SessionOf(f)
           IN  /\ Concerns(h, f, N)
               /\ f.id \notin KeysOf(e.assemblers) => h.disk = smbDisk /\ e \in EntriesOf(h.sessions)
  <1> DEFINE h == Smb!CloseRequest(f)
             e == Smb!SessionOf(f)
             closed == e.assemblers[Smb!Position(e.assemblers, f.id)].assembler
             w == Smb!RemoveFileStreamAssembler(e, f.id)
             r == [w EXCEPT !.last = Smb!Put(w.last, f.tree, f.id)]
             d == Smb!ClearAssembler(closed, smbDisk).disk
  <1>1. e.key = f.session /\ Holds(e, N)
    BY SmbSessionFound
  <1>2. h = IF f.id \notin KeysOf(e.assemblers) THEN Smb!WithSession(e, smbDisk) ELSE Smb!WithSession(r, d)
    BY SmbLists DEF Smb!CloseRequest
  <1>3. IsSmbDisk(d) /\ Publishes(smbDisk, d, Mates(f, N)) /\ Publishes(smbDisk, smbDisk, Mates(f, N))
    BY SmbCleared, ClearPublishesNothing, PublishesNothing
  <1> HIDE DEF e, d, h
  <1>4. Holds(w, N) /\ w.key = e.key
    BY <1>1, HeldRemoved
  <1> HIDE DEF w
  <1>5. Holds(r, N) /\ r.key = e.key
    <2>1. DOMAIN r = {"key", "last", "assemblers"} /\ r.key = e.key /\ r.assemblers = w.assemblers
      BY <1>4 DEF Holds, IsSession
    <2> HIDE DEF r
    <2> QED BY <1>4, <2>1 DEF Holds, IsSession
  <1> HIDE DEF r
  <1>6. CASE f.id \notin KeysOf(e.assemblers)
    <2>1. h = Smb!WithSession(e, smbDisk)
      BY <1>2, <1>6
    <2>2. Concerns(h, f, N) /\ e \in EntriesOf(h.sessions) /\ h.disk = smbDisk
      BY <1>1, <1>3, <2>1, SmbSessionPut
    <2> QED BY <2>2 DEF h, e
  <1>7. CASE f.id \in KeysOf(e.assemblers)
    <2>1. h = Smb!WithSession(r, d) /\ r.key = f.session
      BY <1>1, <1>2, <1>5, <1>7
    <2>2. Concerns(h, f, N)
      BY <1>3, <1>5, <2>1, SmbSessionPut
    <2> QED BY <1>7, <2>2 DEF h, e
  <1> QED BY <1>6, <1>7

----------------------------------------------------------------------------
(* SMB: what is expected of a session without surprises.                    *)

LEMMA FreshEntry ==
    ASSUME NEW g, NEW n
    PROVE  LET x == SmbEntry(g, n)
           IN  /\ x.key = IF n = 1 THEN 0 ELSE g.id
               /\ x.assembler.name = g /\ IsSmbAssembler(x.assembler)
               /\ ~x.assembler.active /\ x.assembler.remaining = 0 /\ x.assembler.assembled = 0
               /\ x.assembler.content = IF n = 1 THEN 0 ELSE g.reads[1].length
  BY DEF SmbEntry, Smb!NewAssembler, IsSmbAssembler

\* One entry for each of these files leaves the list as long as there are files.
LEMMA RoomForEach ==
    ASSUME NEW W, IsFiniteSet(W), Cardinality(W) <= SmbFilePoolSize, NEW ex
    PROVE  HasRoom({SmbEntry(g, ex[g]) : g \in W})
  <1> SUFFICES ASSUME NEW q, IsList(q), EntriesOf(q) = {SmbEntry(g, ex[g]) : g \in W}
               PROVE  Len(q) <= SmbFilePoolSize
    BY DEF HasRoom
  <1> DEFINE n == Len(q)
             f == [i \in 1..n |-> q[i].assembler.name]
  <1>1. n \in Nat /\ DOMAIN q = 1..n
    BY DEF IsList
  <1>2. \A i \in 1..n : \E g \in W : q[i] = SmbEntry(g, ex[g])
    BY <1>1 DEF EntriesOf
  <1>3. \A i \in 1..n : f[i] \in W /\ q[i] = SmbEntry(f[i], ex[f[i]])
    BY <1>2, FreshEntry
  <1>4. ASSUME NEW i \in 1..n, NEW j \in 1..n, f[i] = f[j] PROVE i = j
    <2>1. q[i] = q[j]
      BY <1>3, <1>4
    <2> QED BY <1>1, <2>1 DEF IsList, OneEntryPerKey
  <1>5. f \in [1..n -> W]
    BY <1>3
  <1> HIDE DEF f, n
  <1>6. f \in Injection(1..n, W)
    BY <1>4, <1>5 DEF Injection, IsInjective
  <1>7. Cardinality(1..n) <= Cardinality(W)
    BY <1>6, FS_Injection
  <1>8. Cardinality(1..n) = n
    <2>1. 1 \in Int /\ n \in Int
      BY <1>1
    <2>2. Cardinality(1..n) = IF 1 > n THEN 0 ELSE n - 1 + 1
      BY <2>1, FS_Interval
    <2> QED BY <1>1, <2>2
  <1>9. Cardinality(W) \in Nat
    BY FS_CardinalityType
  <1> QED BY <1>1, <1>7, <1>8, <1>9, PoolSizesAssumption DEF n

----------------------------------------------------------------------------
(* SMB: each frame of an exchange, in a session without surprises.          *)

\* The entries of these files, after so many steps of each.
EntriesFor(W, ex) == {SmbEntry(g, ex[g]) : g \in W}

\* The other files that wait have an id by now.
OthersNamed(f, W, ex) == \A g \in W : g # f => ex[g] # 1 /\ g.id # 0

\* The files, of which only this one's exchange goes on.
OnlyThis(f, W, ex, ex2) == \A g \in W : g # f => ex2[g] = ex[g]

LEMMA KeysFromEntries == \A q : KeysOf(q) = {x.key : x \in EntriesOf(q)}
  BY DEF KeysOf, EntriesOf

LEMMA CreationSeen ==
    ASSUME NEW N, SmbKnown(smbSessions, N), IsSmbDisk(smbDisk), NEW f \in N, NEW W, NEW ex, NEW ex2,
           EntriesOf(SessionFor(f).assemblers) = EntriesFor(W, ex),
           OthersNamed(f, W, ex), OnlyThis(f, W, ex, ex2), f \in W => ex[f] = 1, ex2[f] = 1,
           IsFiniteSet(W \cup {f}), Cardinality(W \cup {f}) <= SmbFilePoolSize
    PROVE  LET h == Smb!CreateRequest(f)
           IN  /\ h.disk = smbDisk
               /\ \E r \in EntriesOf(h.sessions) :
                     /\ r.key = f.session /\ EntriesOf(r.assemblers) = EntriesFor(W \cup {f}, ex2)
                     /\ f.tree \in DOMAIN r.last /\ r.last[f.tree] = 0
  <1> DEFINE h == Smb!CreateRequest(f)
             e == SessionFor(f)
             S == {x \in EntriesOf(e.assemblers) : x.key # 0} \cup {SmbEntry(f, 1)}
  <1>1. h.disk = smbDisk
    BY CreateRequestDoes
  <1>2. PICK r \in EntriesOf(h.sessions) :
           /\ r.key = f.session /\ r.last = Smb!Put(e.last, f.tree, 0)
           /\ HasRoom(S) => EntriesOf(r.assemblers) = S
    BY CreateRequestDoes
  <1>3. S = EntriesFor(W \cup {f}, ex2)
    <2>1. \A x \in EntriesOf(e.assemblers) : x \in EntriesFor(W, ex)
      OBVIOUS
    <2> HIDE DEF e
    <2>2. ASSUME NEW g \in W, g # f
          PROVE  /\ SmbEntry(g, ex[g]) \in EntriesOf(e.assemblers)
                 /\ SmbEntry(g, ex[g]).key # 0 /\ SmbEntry(g, ex[g]) = SmbEntry(g, ex2[g])
      <3>1. ex2[g] = ex[g] /\ ex[g] # 1 /\ g.id # 0
        BY <2>2 DEF OthersNamed, OnlyThis
      <3>2. SmbEntry(g, ex[g]) \in EntriesOf(e.assemblers)
        BY DEF EntriesFor, e
      <3> QED BY <3>1, <3>2, FreshEntry
    <2>3. f \in W => SmbEntry(f, ex[f]).key = 0
      BY FreshEntry
    <2>4. ASSUME NEW x \in EntriesOf(e.assemblers), x.key # 0 PROVE x \in EntriesFor(W \cup {f}, ex2)
      <3>1. PICK g \in W : x = SmbEntry(g, ex[g])
        BY <2>1 DEF EntriesFor
      <3>2. g # f
        BY <2>3, <2>4, <3>1
      <3> QED BY <2>2, <3>1, <3>2 DEF EntriesFor
    <2>5. SmbEntry(f, 1) \in EntriesFor(W \cup {f}, ex2)
      BY DEF EntriesFor
    <2>6. ASSUME NEW x \in EntriesFor(W \cup {f}, ex2) PROVE x \in S
      <3>1. PICK g \in W \cup {f} : x = SmbEntry(g, ex2[g])
        BY <2>6 DEF EntriesFor
      <3> QED BY <2>2, <3>1
    <2> QED BY <2>4, <2>5, <2>6
  <1>4. HasRoom(EntriesFor(W \cup {f}, ex2))
    BY RoomForEach DEF EntriesFor
  <1>5. f.tree \in DOMAIN r.last /\ r.last[f.tree] = 0
    BY <1>2 DEF Smb!Put
  <1> QED BY <1>1, <1>2, <1>3, <1>4, <1>5

\* An answer to a creation, seen once or again.
LEMMA CreationAnswered ==
    ASSUME NEW N, SmbKnown(smbSessions, N), IsSmbDisk(smbDisk), NEW f \in N,
           f.session \in KeysOf(smbSessions), NEW W, f \in W, NEW ex, NEW ex2,
           EntriesOf(Smb!SessionOf(f).assemblers) = EntriesFor(W, ex),
           OthersNamed(f, W, ex), OnlyThis(f, W, ex, ex2), ex[f] \in {1, 2}, ex2[f] = 2,
           \A g \in W : g # f => g.id # f.id,
           f.tree \in DOMAIN Smb!SessionOf(f).last,
           Smb!SessionOf(f).last[f.tree] = IF ex[f] = 1 THEN 0 ELSE f.id,
           Smb!EndOfFile(f) = f.reads[1].length,
           IsFiniteSet(W), Cardinality(W) <= SmbFilePoolSize
    PROVE  LET h == Smb!CreateResponse(f)
           IN  /\ h.disk = smbDisk
               /\ \E r \in EntriesOf(h.sessions) :
                     /\ r.key = f.session /\ EntriesOf(r.assemblers) = EntriesFor(W, ex2)
                     /\ f.tree \in DOMAIN r.last /\ r.last[f.tree] = f.id
  <1> DEFINE h == Smb!CreateResponse(f)
             e == Smb!SessionOf(f)
             x == SmbEntry(f, ex[f])
             entry == [key |-> f.id, assembler |-> [x.assembler EXCEPT !.content = Smb!EndOfFile(f)]]
             S == {y \in EntriesOf(e.assemblers) : y.key # x.key /\ y.key # f.id} \cup {entry}
  <1>1. x \in EntriesOf(e.assemblers) /\ x.key = e.last[f.tree]
    BY FreshEntry DEF EntriesFor
  <1>2. /\ h.disk = smbDisk
        /\ \E r \in EntriesOf(h.sessions) :
              /\ r.key = f.session /\ r.last = Smb!Put(e.last, f.tree, f.id)
              /\ HasRoom(S) => EntriesOf(r.assemblers) = S
    <2>1. \A z \in EntriesOf(e.assemblers) : f.tree \in DOMAIN e.last /\ e.last[f.tree] = z.key =>
             LET new == [key |-> f.id,
                         assembler |-> [z.assembler EXCEPT !.content = Smb!EndOfFile(f)]]
                 R == {y \in EntriesOf(e.assemblers) : y.key # z.key /\ y.key # f.id} \cup {new}
             IN  /\ h.disk = smbDisk
                 /\ \E r \in EntriesOf(h.sessions) :
                       /\ r.key = f.session /\ r.last = Smb!Put(e.last, f.tree, f.id)
                       /\ HasRoom(R) => EntriesOf(r.assemblers) = R
      BY CreateResponseDoes
    <2>2. f.tree \in DOMAIN e.last
      OBVIOUS
    <2> HIDE DEF h, e, x
    <2> QED BY <1>1, <2>1, <2>2
  <1>3. PICK r \in EntriesOf(h.sessions) :
           /\ r.key = f.session /\ r.last = Smb!Put(e.last, f.tree, f.id)
           /\ HasRoom(S) => EntriesOf(r.assemblers) = S
    BY <1>2
  <1>4. entry = SmbEntry(f, ex2[f])
    <2> DEFINE new == Smb!NewAssembler(Smb!Tuple(f), "SMB", f)
               c == IF ex[f] = 1 THEN 0 ELSE f.reads[1].length
               l == f.reads[1].length
    <2>1. x.assembler = [new EXCEPT !.content = c]
      BY DEF SmbEntry
    <2>2. SmbEntry(f, 2) = [key |-> f.id, assembler |-> [new EXCEPT !.content = l]]
      BY DEF SmbEntry
    <2> HIDE DEF new, c, l, x
    <2>3. [[new EXCEPT !.content = c] EXCEPT !.content = l] = [new EXCEPT !.content = l]
      OBVIOUS
    <2> QED BY <2>1, <2>2, <2>3 DEF l
  <1>5. S = EntriesFor(W, ex2)
    <2>1. x.key = IF ex[f] = 1 THEN 0 ELSE f.id
      BY FreshEntry
    <2> HIDE DEF e, entry
    <2>2. ASSUME NEW g \in W, g # f
          PROVE  LET y == SmbEntry(g, ex[g])
                 IN  /\ y \in EntriesOf(e.assemblers) /\ y = SmbEntry(g, ex2[g])
                     /\ y.key # x.key /\ y.key # f.id
      <3>1. ex2[g] = ex[g] /\ ex[g] # 1 /\ g.id # 0 /\ g.id # f.id
        BY <2>2 DEF OthersNamed, OnlyThis
      <3>2. SmbEntry(g, ex[g]) \in EntriesOf(e.assemblers)
        BY DEF EntriesFor, e
      <3>3. SmbEntry(g, ex[g]).key = g.id
        BY <3>1, FreshEntry
      <3> HIDE DEF x
      <3> QED BY <2>1, <3>1, <3>2, <3>3
    <2>3. \A y \in EntriesOf(e.assemblers) : \E g \in W : y = SmbEntry(g, ex[g])
      BY DEF EntriesFor, e
    <2>4. ASSUME NEW y \in S PROVE y \in EntriesFor(W, ex2)
      <3>1. CASE y = entry
        BY <1>4, <3>1 DEF EntriesFor
      <3>2. CASE y # entry
        <4>1. y \in EntriesOf(e.assemblers) /\ y.key # x.key
          BY <3>2
        <4>2. PICK g \in W : y = SmbEntry(g, ex[g])
          BY <2>3, <4>1
        <4>3. g # f
          BY <4>1, <4>2
        <4> QED BY <2>2, <4>2, <4>3 DEF EntriesFor
      <3> QED BY <3>1, <3>2
    <2>5. ASSUME NEW y \in EntriesFor(W, ex2) PROVE y \in S
      <3>1. PICK g \in W : y = SmbEntry(g, ex2[g])
        BY <2>5 DEF EntriesFor
      <3>2. CASE g = f
        BY <1>4, <3>1, <3>2
      <3>3. CASE g # f
        BY <2>2, <3>1, <3>3
      <3> QED BY <3>2, <3>3
    <2> QED BY <2>4, <2>5
  <1>6. HasRoom(EntriesFor(W, ex2))
    BY RoomForEach DEF EntriesFor
  <1>7. f.tree \in DOMAIN r.last /\ r.last[f.tree] = f.id
    BY <1>3 DEF Smb!Put
  <1> QED BY <1>2, <1>3, <1>5, <1>6, <1>7

\* A read's request, seen once or again.
LEMMA ReadSeen ==
    ASSUME NEW N, SmbKnown(smbSessions, N), IsSmbDisk(smbDisk), NEW f \in N,
           f.session \in KeysOf(smbSessions), NEW W, f \in W, NEW ex, NEW ex2,
           EntriesOf(Smb!SessionOf(f).assemblers) = EntriesFor(W, ex),
           OnlyThis(f, W, ex, ex2), ex[f] \in {2, 3}, ex2[f] = 3
    PROVE  LET h == Smb!ReadRequest(f)
           IN  /\ h.disk = smbDisk
               /\ \E r \in EntriesOf(h.sessions) :
                     /\ r.key = f.session /\ EntriesOf(r.assemblers) = EntriesFor(W, ex2)
                     /\ f.tree \in DOMAIN r.last /\ r.last[f.tree] = f.id
  <1> DEFINE h == Smb!ReadRequest(f)
             e == Smb!SessionOf(f)
  <1>1. h.disk = smbDisk
    BY ReadRequestDoes
  <1>2. PICK r \in EntriesOf(h.sessions) :
           /\ r.key = f.session /\ r.assemblers = e.assemblers
           /\ f.id \in KeysOf(e.assemblers) => r.last = Smb!Put(e.last, f.tree, f.id)
    BY ReadRequestDoes
  <1>3. f.id \in KeysOf(e.assemblers)
    <2>1. SmbEntry(f, ex[f]) \in EntriesOf(e.assemblers) /\ SmbEntry(f, ex[f]).key = f.id
      BY FreshEntry DEF EntriesFor
    <2> QED BY <2>1, KeysOfEntries
  <1>4. EntriesFor(W, ex) = EntriesFor(W, ex2)
    <2>1. \A g \in W : SmbEntry(g, ex[g]) = SmbEntry(g, ex2[g])
      <3> SUFFICES ASSUME NEW g \in W PROVE SmbEntry(g, ex[g]) = SmbEntry(g, ex2[g])
        OBVIOUS
      <3>1. CASE g = f
        <4>1. SmbEntry(f, 2) = SmbEntry(f, 3)
          BY DEF SmbEntry
        <4> QED BY <3>1, <4>1
      <3>2. CASE g # f
        BY <3>2 DEF OnlyThis
      <3> QED BY <3>1, <3>2
    <2> QED BY <2>1 DEF EntriesFor
  <1>5. f.tree \in DOMAIN r.last /\ r.last[f.tree] = f.id
    BY <1>2, <1>3 DEF Smb!Put
  <1> QED BY <1>1, <1>2, <1>4, <1>5

\* The answer to a file's only read: the file is published.
LEMMA AnswerSeen ==
    ASSUME NEW N, SmbKnown(smbSessions, N), IsSmbDisk(smbDisk), NEW f \in N, f.id \in Nat,
           f.session \in KeysOf(smbSessions), NEW W, f \in W, NEW ex, NEW ex2,
           EntriesOf(Smb!SessionOf(f).assemblers) = EntriesFor(W, ex),
           OthersNamed(f, W, ex), OnlyThis(f, W, ex, ex2), ex[f] = 3,
           \A g \in W : g # f => g.id # f.id,
           f.tree \in DOMAIN Smb!SessionOf(f).last, Smb!SessionOf(f).last[f.tree] = f.id,
           f.reads[1].length \in Nat \ {0}, f.reads[1].carried = f.reads[1].length
    PROVE  LET h == Smb!ReadResponse(f, 1)
           IN  /\ PublishesOne(smbDisk, h.disk, f, [file |-> f, read |-> 1, size |-> f.reads[1].length])
               /\ \E r \in EntriesOf(h.sessions) :
                     /\ r.key = f.session /\ EntriesOf(r.assemblers) = EntriesFor(W \ {f}, ex2)
                     /\ f.tree \in DOMAIN r.last /\ r.last[f.tree] = f.id
  <1> DEFINE h == Smb!ReadResponse(f, 1)
             e == Smb!SessionOf(f)
             x == SmbEntry(f, ex[f])
             piece == [file |-> f, read |-> 1, size |-> f.reads[1].carried]
  <1>1. x \in EntriesOf(e.assemblers) /\ x.key = f.id
    BY FreshEntry DEF EntriesFor
  <1>2. Awaits(x.assembler, f, 1) /\ x.assembler.name = f
    <2>1. /\ x.assembler.name = f /\ ~x.assembler.active
          /\ x.assembler.remaining = 0 /\ x.assembler.assembled = 0
          /\ x.assembler.content = f.reads[1].length
      BY FreshEntry
    <2>2. piece.size = f.reads[1].length
      OBVIOUS
    <2> HIDE DEF x, piece
    <2> QED BY <2>1, <2>2 DEF Awaits, TakesAll, piece
  <1>3. /\ PublishesOne(smbDisk, h.disk, f, piece)
        /\ \E r \in EntriesOf(h.sessions) :
              /\ r.key = f.session /\ r.last = e.last
              /\ EntriesOf(r.assemblers) = {y \in EntriesOf(e.assemblers) : y.key # x.key}
    <2>1. \A z \in EntriesOf(e.assemblers) :
             f.tree \in DOMAIN e.last /\ e.last[f.tree] = z.key /\ Awaits(z.assembler, f, 1) =>
                /\ PublishesOne(smbDisk, h.disk, z.assembler.name, piece)
                /\ \E r \in EntriesOf(h.sessions) :
                      /\ r.key = f.session /\ r.last = e.last
                      /\ EntriesOf(r.assemblers) = {y \in EntriesOf(e.assemblers) : y.key # z.key}
      <3>1. PICK i \in Int : i = 1
        OBVIOUS
      <3>2. \A z \in EntriesOf(e.assemblers) :
               f.tree \in DOMAIN e.last /\ e.last[f.tree] = z.key /\ Awaits(z.assembler, f, i) =>
                  /\ PublishesOne(smbDisk, Smb!ReadResponse(f, i).disk, z.assembler.name,
                                  [file |-> f, read |-> i, size |-> f.reads[i].carried])
                  /\ \E r \in EntriesOf(Smb!ReadResponse(f, i).sessions) :
                        /\ r.key = f.session /\ r.last = e.last
                        /\ EntriesOf(r.assemblers) = {y \in EntriesOf(e.assemblers) : y.key # z.key}
        BY ONLY SmbKnown(smbSessions, N), IsSmbDisk(smbDisk), f \in N, f.id \in Nat,
                f.session \in KeysOf(smbSessions), i \in Int, ReadResponseDoes
      <3> HIDE DEF e
      <3> QED BY <3>1, <3>2
    <2>2. f.tree \in DOMAIN e.last /\ e.last[f.tree] = f.id
      OBVIOUS
    <2> HIDE DEF h, e, x, piece
    <2> QED BY <1>1, <1>2, <2>1, <2>2
  <1>4. PICK r \in EntriesOf(h.sessions) :
           /\ r.key = f.session /\ r.last = e.last
           /\ EntriesOf(r.assemblers) = {y \in EntriesOf(e.assemblers) : y.key # x.key}
    BY <1>3
  <1>5. {y \in EntriesOf(e.assemblers) : y.key # x.key} = EntriesFor(W \ {f}, ex2)
    <2>1. ASSUME NEW g \in W, g # f
          PROVE  SmbEntry(g, ex[g]) = SmbEntry(g, ex2[g]) /\ SmbEntry(g, ex[g]).key # x.key
      <3>1. ex2[g] = ex[g] /\ ex[g] # 1 /\ g.id # f.id
        BY <2>1 DEF OthersNamed, OnlyThis
      <3>2. SmbEntry(g, ex[g]).key = g.id
        BY <3>1, FreshEntry
      <3> HIDE DEF x
      <3> QED BY <1>1, <3>1, <3>2
    <2>2. EntriesOf(e.assemblers) = EntriesFor(W, ex)
      OBVIOUS
    <2> HIDE DEF e
    <2>3. ASSUME NEW y \in EntriesOf(e.assemblers), y.key # x.key PROVE y \in EntriesFor(W \ {f}, ex2)
      <3>1. PICK g \in W : y = SmbEntry(g, ex[g])
        BY <2>2 DEF EntriesFor
      <3>2. g # f
        BY <2>3, <3>1
      <3> QED BY <2>1, <3>1, <3>2 DEF EntriesFor
    <2>4. ASSUME NEW y \in EntriesFor(W \ {f}, ex2)
          PROVE  y \in EntriesOf(e.assemblers) /\ y.key # x.key
      <3>1. PICK g \in W \ {f} : y = SmbEntry(g, ex2[g])
        BY <2>4 DEF EntriesFor
      <3>2. y = SmbEntry(g, ex[g]) /\ y.key # x.key
        BY <2>1, <3>1
      <3> QED BY <2>2, <3>1, <3>2 DEF EntriesFor
    <2> QED BY <2>3, <2>4
  <1>6. piece = [file |-> f, read |-> 1, size |-> f.reads[1].length]
    OBVIOUS
  <1> QED BY <1>3, <1>4, <1>5, <1>6

----------------------------------------------------------------------------
(* SMB: a session without surprises, from frame to frame.                   *)

\* The files of a session whose data has not come yet.
WaitingOf(ex, s) == {g \in smbFiles : g.session = s /\ ex[g] \in 1..3}

\* While a file's exchange goes on, its tree referred to it last.
LastSeen(e, l, ex) ==
    ex[l] \in 1..4 => l.tree \in DOMAIN e.last /\ e.last[l.tree] = IF ex[l] = 1 THEN 0 ELSE l.id

\* The session has an assembler for each of its files that wait.
InStep(q, ex, l, s) ==
    \E e \in EntriesOf(q) :
       e.key = s /\ EntriesOf(e.assemblers) = EntriesFor(WaitingOf(ex, s), ex) /\ LastSeen(e, l, ex)

\* A file that one answer holds.
InOneAnswer(f) ==
    f.id \in Nat \ {0} /\ Smb!OneRead(f) /\ \E C : f.reads \in Seq(C) /\ \A r \in C : r.length \in Nat

\* Only this file's exchange goes on, with frame n, and there is room for it.
Alone(f, n, ex, ex2) ==
    /\ f \in smbFiles /\ InOneAnswer(f)
    /\ ex[f] \in {n - 1, n} /\ ex2[f] = n
    /\ \A g \in smbFiles : g # f => ex2[g] = ex[g]
    /\ \A g \in WaitingOf(ex, f.session) :
          g # f => ex[g] = 2 /\ g.id # 0 /\ (n # 1 => g.id # f.id)
    /\ IsFiniteSet(WaitingOf(ex2, f.session)) /\ Cardinality(WaitingOf(ex2, f.session)) <= SmbFilePoolSize

LEMMA OneAnswerHolds ==
    ASSUME NEW f, InOneAnswer(f)
    PROVE  /\ f.id \in Nat /\ f.id # 0
           /\ f.reads[1].length \in Nat \ {0} /\ f.reads[1].carried = f.reads[1].length
           /\ Smb!EndOfFile(f) = f.reads[1].length /\ Smb!LastStep(f) = 5
  <1>1. PICK C : f.reads \in Seq(C) /\ \A r \in C : r.length \in Nat
    BY DEF InOneAnswer
  <1>2. Len(f.reads) = 1 /\ f.reads[1].carried = f.reads[1].length /\ f.reads[1].length > 0
    BY DEF InOneAnswer, Smb!OneRead
  <1>3. Smb!EndOfFile(f) = 0 + f.reads[1].length
    BY <1>1, <1>2, EndOfOne
  <1>4. f.reads[1].length \in Nat
    BY <1>1, <1>2
  <1>5. Smb!LastStep(f) = 5
    BY <1>2 DEF Smb!LastStep
  <1>6. f.id \in Nat \ {0}
    BY DEF InOneAnswer
  <1>7. Smb!EndOfFile(f) = f.reads[1].length
    BY <1>3, <1>4
  <1> QED BY <1>2, <1>4, <1>5, <1>6, <1>7

LEMMA AloneFacts ==
    ASSUME NEW f, NEW n, NEW ex, NEW ex2, Alone(f, n, ex, ex2)
    PROVE  LET W == WaitingOf(ex, f.session)
           IN  /\ OthersNamed(f, W, ex) /\ OnlyThis(f, W, ex, ex2)
               /\ n # 1 => \A g \in W : g # f => g.id # f.id
               /\ n \in 1..3 => WaitingOf(ex2, f.session) = W \cup {f}
               /\ n \in 4..5 => WaitingOf(ex2, f.session) = W \ {f}
  BY DEF Alone, WaitingOf, OthersNamed, OnlyThis

\* The frame that requests the creation of a file.
LEMMA OpeningSeen ==
    ASSUME NEW N, SmbKnown(smbSessions, N), IsSmbDisk(smbDisk), NEW f \in N, NEW ex, NEW ex2,
           Alone(f, 1, ex, ex2),
           EntriesOf(SessionFor(f).assemblers) = EntriesFor(WaitingOf(ex, f.session), ex)
    PROVE  LET h == Smb!CreateRequest(f)
           IN  h.disk = smbDisk /\ InStep(h.sessions, ex2, f, f.session)
  <1> DEFINE h == Smb!CreateRequest(f)
             W == WaitingOf(ex, f.session)
  <1>1. /\ OthersNamed(f, W, ex) /\ OnlyThis(f, W, ex, ex2)
        /\ WaitingOf(ex2, f.session) = W \cup {f}
    BY AloneFacts
  <1>2. ex2[f] = 1 /\ IsFiniteSet(W \cup {f}) /\ Cardinality(W \cup {f}) <= SmbFilePoolSize
    BY <1>1 DEF Alone
  <1>5. f \in W => ex[f] = 1
    BY DEF Alone, WaitingOf
  <1>3. EntriesOf(SessionFor(f).assemblers) = EntriesFor(W, ex)
    OBVIOUS
  <1> HIDE DEF W
  <1>4. /\ h.disk = smbDisk
        /\ \E r \in EntriesOf(h.sessions) :
              /\ r.key = f.session /\ EntriesOf(r.assemblers) = EntriesFor(W \cup {f}, ex2)
              /\ f.tree \in DOMAIN r.last /\ r.last[f.tree] = 0
    <2>1. OthersNamed(f, W, ex)
      BY <1>1
    <2>2. OnlyThis(f, W, ex, ex2)
      BY <1>1
    <2>3. ex2[f] = 1
      BY <1>2
    <2>4. IsFiniteSet(W \cup {f})
      BY <1>2
    <2>5. Cardinality(W \cup {f}) <= SmbFilePoolSize
      BY <1>2
    <2> QED BY ONLY <1>3, <1>5, <2>1, <2>2, <2>3, <2>4, <2>5, SmbKnown(smbSessions, N),
                    IsSmbDisk(smbDisk), f \in N, CreationSeen
  <1> HIDE DEF h
  <1> QED BY <1>1, <1>2, <1>4 DEF InStep, LastSeen, h

\* The expected session is the one the handler finds.
LEMMA InStepFound ==
    ASSUME NEW N, SmbKnown(smbSessions, N), NEW f, NEW ex, NEW l, InStep(smbSessions, ex, l, f.session)
    PROVE  LET e == Smb!SessionOf(f)
           IN  /\ f.session \in KeysOf(smbSessions)
               /\ EntriesOf(e.assemblers) = EntriesFor(WaitingOf(ex, f.session), ex) /\ LastSeen(e, l, ex)
  <1> DEFINE s == Smb!SessionOf(f)
  <1>1. PICK e \in EntriesOf(smbSessions) :
           /\ e.key = f.session /\ LastSeen(e, l, ex)
           /\ EntriesOf(e.assemblers) = EntriesFor(WaitingOf(ex, f.session), ex)
    BY DEF InStep
  <1>2. f.session \in KeysOf(smbSessions)
    BY <1>1, KeysOfEntries
  <1>3. s \in EntriesOf(smbSessions) /\ s.key = f.session
    BY <1>2, SmbSessionFound
  <1>4. IsList(smbSessions)
    BY DEF SmbKnown
  <1> HIDE DEF s
  <1>5. s = e
    BY <1>1, <1>3, <1>4, SameEntry
  <1> QED BY <1>1, <1>2, <1>5 DEF s

\* The answer to the creation, seen once or again.
LEMMA OpenedSeen ==
    ASSUME NEW N, SmbKnown(smbSessions, N), IsSmbDisk(smbDisk), NEW f \in N, NEW ex, NEW ex2,
           Alone(f, 2, ex, ex2), InStep(smbSessions, ex, f, f.session)
    PROVE  LET h == Smb!CreateResponse(f)
           IN  h.disk = smbDisk /\ InStep(h.sessions, ex2, f, f.session)
  <1> DEFINE h == Smb!CreateResponse(f)
             W == WaitingOf(ex, f.session)
  <1>1. /\ OthersNamed(f, W, ex) /\ OnlyThis(f, W, ex, ex2)
        /\ WaitingOf(ex2, f.session) = W \cup {f}
        /\ \A g \in W : g # f => g.id # f.id
    BY AloneFacts
  <1>2. /\ f \in W /\ ex[f] \in {1, 2} /\ ex2[f] = 2
        /\ IsFiniteSet(W \cup {f}) /\ Cardinality(W \cup {f}) <= SmbFilePoolSize
    <2>1. f \in W /\ ex[f] \in {1, 2} /\ ex2[f] = 2
      BY DEF Alone, WaitingOf
    <2> QED BY <1>1, <2>1 DEF Alone
  <1>3. /\ f.session \in KeysOf(smbSessions)
        /\ EntriesOf(Smb!SessionOf(f).assemblers) = EntriesFor(W, ex)
        /\ LastSeen(Smb!SessionOf(f), f, ex)
    BY InStepFound
  <1>4. Smb!EndOfFile(f) = f.reads[1].length
    BY OneAnswerHolds DEF Alone
  <1> HIDE DEF W
  <1>5. W \cup {f} = W
    BY <1>2
  <1>6. /\ h.disk = smbDisk
        /\ \E r \in EntriesOf(h.sessions) :
              /\ r.key = f.session /\ EntriesOf(r.assemblers) = EntriesFor(W, ex2)
              /\ f.tree \in DOMAIN r.last /\ r.last[f.tree] = f.id
    <2>1. f.session \in KeysOf(smbSessions) /\ EntriesOf(Smb!SessionOf(f).assemblers) = EntriesFor(W, ex)
      BY <1>3
    <2>2. OthersNamed(f, W, ex)
      BY <1>1
    <2>3. OnlyThis(f, W, ex, ex2)
      BY <1>1
    <2>4. \A g \in W : g # f => g.id # f.id
      BY <1>1
    <2>5. f.tree \in DOMAIN Smb!SessionOf(f).last
      BY <1>2, <1>3 DEF LastSeen
    <2>6. Smb!SessionOf(f).last[f.tree] = IF ex[f] = 1 THEN 0 ELSE f.id
      BY <1>2, <1>3 DEF LastSeen
    <2>7. IsFiniteSet(W) /\ Cardinality(W) <= SmbFilePoolSize
      BY <1>2, <1>5
    <2>8. f \in W /\ ex[f] \in {1, 2} /\ ex2[f] = 2
      BY <1>2
    <2> QED BY ONLY <1>4, <2>1, <2>2, <2>3, <2>4, <2>5, <2>6, <2>7, <2>8, SmbKnown(smbSessions, N),
                    IsSmbDisk(smbDisk), f \in N, CreationAnswered
  <1> HIDE DEF h
  <1>7. PICK r \in EntriesOf(h.sessions) :
           /\ r.key = f.session /\ EntriesOf(r.assemblers) = EntriesFor(W, ex2)
           /\ f.tree \in DOMAIN r.last /\ r.last[f.tree] = f.id
    BY <1>6
  <1>8. LastSeen(r, f, ex2)
    BY <1>2, <1>7 DEF LastSeen
  <1>9. InStep(h.sessions, ex2, f, f.session)
    BY <1>1, <1>5, <1>7, <1>8 DEF InStep
  <1> QED BY <1>6, <1>9 DEF h

\* The request of the read, seen once or again.
LEMMA RequestSeen ==
    ASSUME NEW N, SmbKnown(smbSessions, N), IsSmbDisk(smbDisk), NEW f \in N, NEW ex, NEW ex2, NEW l,
           Alone(f, 3, ex, ex2), InStep(smbSessions, ex, l, f.session)
    PROVE  LET h == Smb!ReadRequest(f)
           IN  h.disk = smbDisk /\ InStep(h.sessions, ex2, f, f.session)
  <1> DEFINE h == Smb!ReadRequest(f)
             W == WaitingOf(ex, f.session)
  <1>1. OnlyThis(f, W, ex, ex2) /\ WaitingOf(ex2, f.session) = W \cup {f}
    BY AloneFacts
  <1>2. f \in W /\ ex[f] \in {2, 3} /\ ex2[f] = 3
    BY DEF Alone, WaitingOf
  <1>3. /\ f.session \in KeysOf(smbSessions)
        /\ EntriesOf(Smb!SessionOf(f).assemblers) = EntriesFor(W, ex)
    BY InStepFound
  <1> HIDE DEF W
  <1>4. /\ h.disk = smbDisk
        /\ \E r \in EntriesOf(h.sessions) :
              /\ r.key = f.session /\ EntriesOf(r.assemblers) = EntriesFor(W, ex2)
              /\ f.tree \in DOMAIN r.last /\ r.last[f.tree] = f.id
    <2>1. OnlyThis(f, W, ex, ex2)
      BY <1>1
    <2> QED BY ONLY <1>2, <1>3, <2>1, SmbKnown(smbSessions, N), IsSmbDisk(smbDisk), f \in N, ReadSeen
  <1>5. W \cup {f} = W
    BY <1>2
  <1> HIDE DEF h
  <1>7. PICK r \in EntriesOf(h.sessions) :
           /\ r.key = f.session /\ EntriesOf(r.assemblers) = EntriesFor(W, ex2)
           /\ f.tree \in DOMAIN r.last /\ r.last[f.tree] = f.id
    BY <1>4
  <1>8. LastSeen(r, f, ex2)
    BY <1>2, <1>7 DEF LastSeen
  <1>9. InStep(h.sessions, ex2, f, f.session)
    BY <1>1, <1>5, <1>7, <1>8 DEF InStep
  <1> QED BY <1>4, <1>9 DEF h

\* The answer to the read: the first publishes the file, another does nothing.
LEMMA DataSeen ==
    ASSUME NEW N, SmbKnown(smbSessions, N), IsSmbDisk(smbDisk), NEW f \in N, NEW ex, NEW ex2,
           Alone(f, 4, ex, ex2), InStep(smbSessions, ex, f, f.session)
    PROVE  LET h == Smb!ReadResponse(f, 1)
               piece == [file |-> f, read |-> 1, size |-> f.reads[1].length]
           IN  /\ InStep(h.sessions, ex2, f, f.session)
               /\ ex[f] = 3 => PublishesOne(smbDisk, h.disk, f, piece)
               /\ ex[f] = 4 => h.disk = smbDisk
  <1> DEFINE h == Smb!ReadResponse(f, 1)
             W == WaitingOf(ex, f.session)
             e == Smb!SessionOf(f)
  <1>1. /\ OthersNamed(f, W, ex) /\ OnlyThis(f, W, ex, ex2)
        /\ WaitingOf(ex2, f.session) = W \ {f}
        /\ \A g \in W : g # f => g.id # f.id
    BY AloneFacts
  <1>2. ex[f] \in {3, 4} /\ ex2[f] = 4 /\ \A g \in W : g # f => ex[g] = 2
    BY DEF Alone
  <1>3. /\ f.session \in KeysOf(smbSessions)
        /\ EntriesOf(e.assemblers) = EntriesFor(W, ex) /\ LastSeen(e, f, ex)
    BY InStepFound
  <1>4. /\ f.id \in Nat /\ f.reads[1].length \in Nat \ {0}
        /\ f.reads[1].carried = f.reads[1].length
    BY OneAnswerHolds DEF Alone
  <1>5. f.tree \in DOMAIN e.last /\ e.last[f.tree] = f.id
    BY <1>2, <1>3 DEF LastSeen
  <1>6. ASSUME ex[f] = 3
        PROVE  /\ PublishesOne(smbDisk, h.disk, f, [file |-> f, read |-> 1, size |-> f.reads[1].length])
               /\ \E r \in EntriesOf(h.sessions) :
                     /\ r.key = f.session /\ EntriesOf(r.assemblers) = EntriesFor(W \ {f}, ex2)
                     /\ f.tree \in DOMAIN r.last /\ r.last[f.tree] = f.id
    <2>1. f \in W
      BY <1>6 DEF WaitingOf, Alone
    <2>2. EntriesOf(Smb!SessionOf(f).assemblers) = EntriesFor(W, ex)
      BY <1>3
    <2> HIDE DEF W
    <2>3. OthersNamed(f, W, ex)
      BY <1>1
    <2>4. OnlyThis(f, W, ex, ex2)
      BY <1>1
    <2>5. \A g \in W : g # f => g.id # f.id
      BY <1>1
    <2>6. f.session \in KeysOf(smbSessions)
      BY <1>3
    <2>7. f.tree \in DOMAIN Smb!SessionOf(f).last /\ Smb!SessionOf(f).last[f.tree] = f.id
      BY <1>5
    <2> QED BY ONLY <1>4, <1>6, <2>1, <2>2, <2>3, <2>4, <2>5, <2>6, <2>7, SmbKnown(smbSessions, N),
                    IsSmbDisk(smbDisk), f \in N, AnswerSeen
  <1>7. ASSUME ex[f] = 4
        PROVE  /\ h.disk = smbDisk
               /\ \E r \in EntriesOf(h.sessions) :
                     /\ r.key = f.session /\ EntriesOf(r.assemblers) = EntriesFor(W \ {f}, ex2)
                     /\ f.tree \in DOMAIN r.last /\ r.last[f.tree] = f.id
    <2>1. f \notin W
      BY <1>7 DEF WaitingOf
    <2> HIDE DEF W
    <2>2. EntriesFor(W, ex) = EntriesFor(W \ {f}, ex2)
      <3>1. \A g \in W : SmbEntry(g, ex[g]) = SmbEntry(g, ex2[g])
        BY <1>1, <2>1 DEF OnlyThis
      <3> QED BY <2>1, <3>1 DEF EntriesFor
    <2>3. e.last[f.tree] \notin KeysOf(e.assemblers)
      <3>1. KeysOf(e.assemblers) = {x.key : x \in EntriesOf(e.assemblers)}
        BY KeysFromEntries
      <3> HIDE DEF e
      <3>2. SUFFICES ASSUME NEW x \in EntriesOf(e.assemblers) PROVE x.key # f.id
        BY <1>5, <3>1
      <3>3. PICK g \in W : x = SmbEntry(g, ex[g])
        BY <1>3, <3>2 DEF EntriesFor
      <3>4. g # f /\ ex[g] = 2 /\ g.id # f.id
        BY <1>1, <1>2, <2>1
      <3>5. x.key = IF ex[g] = 1 THEN 0 ELSE g.id
        BY <3>3, FreshEntry
      <3> QED BY <3>4, <3>5
    <2>4. /\ h.disk = smbDisk
          /\ \E r \in EntriesOf(h.sessions) :
                /\ r.key = f.session /\ r.last = e.last
                /\ EntriesOf(r.assemblers) = EntriesOf(e.assemblers)
      <3>1. PICK i \in Int : i = 1
        OBVIOUS
      <3>2. f.tree \in DOMAIN e.last /\ e.last[f.tree] \notin KeysOf(e.assemblers) =>
               /\ Smb!ReadResponse(f, i).disk = smbDisk
               /\ \E r \in EntriesOf(Smb!ReadResponse(f, i).sessions) :
                     /\ r.key = f.session /\ r.last = e.last
                     /\ EntriesOf(r.assemblers) = EntriesOf(e.assemblers)
        <4>1. f.id \in Nat /\ f.session \in KeysOf(smbSessions)
          BY <1>3, <1>4
        <4> QED BY ONLY SmbKnown(smbSessions, N), IsSmbDisk(smbDisk), f \in N, <4>1, i \in Int,
                        ReadResponseDoes
      <3> HIDE DEF e
      <3> QED BY <1>5, <2>3, <3>1, <3>2
    <2> HIDE DEF h, e
    <2> QED BY <1>3, <1>5, <2>2, <2>4
  <1> HIDE DEF h, W, e
  <1>8. \E r \in EntriesOf(h.sessions) :
           /\ r.key = f.session /\ EntriesOf(r.assemblers) = EntriesFor(W \ {f}, ex2)
           /\ f.tree \in DOMAIN r.last /\ r.last[f.tree] = f.id
    BY <1>2, <1>6, <1>7
  <1>9. InStep(h.sessions, ex2, f, f.session)
    BY <1>1, <1>2, <1>8 DEF InStep, LastSeen
  <1> QED BY <1>6, <1>7, <1>9 DEF h

\* The request to close the file, seen once or again: its assembler is gone.
LEMMA ClosingSeen ==
    ASSUME NEW N, SmbKnown(smbSessions, N), IsSmbDisk(smbDisk), NEW f \in N, NEW ex, NEW ex2, NEW l,
           Alone(f, 5, ex, ex2), InStep(smbSessions, ex, l, f.session)
    PROVE  LET h == Smb!CloseRequest(f)
           IN  h.disk = smbDisk /\ InStep(h.sessions, ex2, f, f.session)
  <1> DEFINE h == Smb!CloseRequest(f)
             W == WaitingOf(ex, f.session)
             e == Smb!SessionOf(f)
  <1>1. /\ OnlyThis(f, W, ex, ex2) /\ WaitingOf(ex2, f.session) = W \ {f}
        /\ \A g \in W : g # f => g.id # f.id
    BY AloneFacts
  <1>2. ex2[f] = 5 /\ f \notin W /\ \A g \in W : g # f => ex[g] = 2
    BY DEF Alone, WaitingOf
  <1>3. /\ f.session \in KeysOf(smbSessions)
        /\ EntriesOf(e.assemblers) = EntriesFor(W, ex)
    BY InStepFound
  <1>4. e.key = f.session
    BY <1>3, SmbSessionFound
  <1> HIDE DEF W
  <1>5. EntriesFor(W, ex) = EntriesFor(W \ {f}, ex2)
    <2>1. \A g \in W : SmbEntry(g, ex[g]) = SmbEntry(g, ex2[g])
      BY <1>1, <1>2 DEF OnlyThis
    <2> QED BY <1>2, <2>1 DEF EntriesFor
  <1>6. f.id \notin KeysOf(e.assemblers)
    <2>1. KeysOf(e.assemblers) = {x.key : x \in EntriesOf(e.assemblers)}
      BY KeysFromEntries
    <2> HIDE DEF e
    <2>2. SUFFICES ASSUME NEW x \in EntriesOf(e.assemblers) PROVE x.key # f.id
      BY <2>1
    <2>3. PICK g \in W : x = SmbEntry(g, ex[g])
      BY <1>3, <2>2 DEF EntriesFor
    <2>4. g # f /\ ex[g] = 2 /\ g.id # f.id
      BY <1>1, <1>2
    <2>5. x.key = IF ex[g] = 1 THEN 0 ELSE g.id
      BY <2>3, FreshEntry
    <2> QED BY <2>4, <2>5
  <1>7. h.disk = smbDisk /\ e \in EntriesOf(h.sessions)
    BY <1>3, <1>6, CloseRequestDoes
  <1> HIDE DEF h, e
  <1> QED BY <1>1, <1>2, <1>3, <1>4, <1>5, <1>7 DEF InStep, LastSeen, h

----------------------------------------------------------------------------
(* SMB: what a frame does, whichever it is.                                 *)

LEMMA HandledConcerns ==
    ASSUME NEW N, SmbKnown(smbSessions, N), IsSmbDisk(smbDisk), NEW f \in N, f.id \in Nat, NEW n \in Nat
    PROVE  Concerns(Smb!Handled(f, n), f, N)
  <1> DEFINE h == Smb!Handled(f, n)
             i == (n - 2) \div 2
  <1>1. CASE n = 1
    <2>1. Concerns(Smb!CreateRequest(f), f, N)
      BY CreateRequestDoes
    <2> QED BY <1>1, <2>1 DEF Smb!Handled
  <1>2. CASE n # 1 /\ f.session \notin KeysOf(smbSessions)
    <2> DEFINE a == Smb!After(smbSessions, smbDisk)
    <2>1. a.sessions = smbSessions /\ a.disk = smbDisk
      BY DEF Smb!After
    <2>2. h = a
      BY <1>2, SmbLists DEF Smb!Handled
    <2>3. Publishes(smbDisk, smbDisk, Mates(f, N))
      BY PublishesNothing
    <2> HIDE DEF a, h
    <2>4. Concerns(h, f, N)
      BY <2>1, <2>2, <2>3 DEF Concerns
    <2> QED BY <2>4 DEF h
  <1>3. CASE n # 1 /\ f.session \in KeysOf(smbSessions)
    <2>1. i \in Int
      OBVIOUS
    <2>2. f.session \in KeysOf(smbSessions)
      BY <1>3
    <2> HIDE DEF i
    <2>3. Concerns(Smb!CreateResponse(f), f, N)
      BY <2>2, CreateResponseDoes
    <2>4. Concerns(Smb!ReadRequest(f), f, N)
      BY <2>2, ReadRequestDoes
    <2>5. Concerns(Smb!ReadResponse(f, i), f, N)
      BY <2>1, <2>2, ReadResponseDoes
    <2>6. Concerns(Smb!CloseRequest(f), f, N)
      BY <2>2, CloseRequestDoes
    <2>7. h \in {Smb!CreateResponse(f), Smb!ReadRequest(f), Smb!ReadResponse(f, i), Smb!CloseRequest(f)}
      BY <1>3, SmbLists DEF Smb!Handled, i
    <2> QED BY <2>3, <2>4, <2>5, <2>6, <2>7
  <1> QED BY <1>1, <1>2, <1>3

\* The session is as expected, or this is its first frame.
Started(f, n, ex, l) ==
    \/ InStep(smbSessions, ex, l, f.session)
    \/ n = 1 /\ f.session \notin KeysOf(smbSessions) /\ WaitingOf(ex, f.session) = {}

\* The file is published by the answer to its read and by nothing else.
PublishesInTurn(d, e, f, n, ex) ==
    IF n = 4 /\ ex[f] = 3
    THEN PublishesOne(d, e, f, [file |-> f, read |-> 1, size |-> f.reads[1].length])
    ELSE e = d

LEMMA FrameSeen ==
    ASSUME NEW N, SmbKnown(smbSessions, N), IsSmbDisk(smbDisk), NEW f \in N, NEW ex, NEW ex2, NEW l,
           NEW n \in 1..5, Alone(f, n, ex, ex2), Started(f, n, ex, l), n \in {2, 4} => l = f
    PROVE  LET h == Smb!Handled(f, n)
           IN  InStep(h.sessions, ex2, f, f.session) /\ PublishesInTurn(smbDisk, h.disk, f, n, ex)
  <1> DEFINE h == Smb!Handled(f, n)
  <1>1. CASE n = 1
    <2>1. h = Smb!CreateRequest(f)
      BY <1>1 DEF Smb!Handled
    <2>2. EntriesOf(SessionFor(f).assemblers) = EntriesFor(WaitingOf(ex, f.session), ex)
      <3>1. CASE InStep(smbSessions, ex, l, f.session)
        BY <3>1, InStepFound DEF SessionFor
      <3>2. CASE f.session \notin KeysOf(smbSessions) /\ WaitingOf(ex, f.session) = {}
        <4>1. SessionFor(f).assemblers = << >>
          BY <3>2 DEF SessionFor, Smb!NewSession
        <4>2. EntriesOf(<< >>) = {}
          BY DEF EntriesOf
        <4>3. EntriesFor(WaitingOf(ex, f.session), ex) = {}
          BY <3>2 DEF EntriesFor
        <4> QED BY <4>1, <4>2, <4>3
      <3> QED BY <3>1, <3>2 DEF Started
    <2>3. Alone(f, 1, ex, ex2)
      BY <1>1
    <2>4. Smb!CreateRequest(f).disk = smbDisk /\ InStep(Smb!CreateRequest(f).sessions, ex2, f, f.session)
      BY <2>2, <2>3, OpeningSeen
    <2> QED BY <1>1, <2>1, <2>4 DEF PublishesInTurn
  <1>2. CASE n # 1
    <2>1. InStep(smbSessions, ex, l, f.session)
      BY <1>2 DEF Started
    <2>2. f.session \in KeysOf(smbSessions) /\ Smb!LastStep(f) = 5
      BY <2>1, InStepFound, OneAnswerHolds DEF Alone
    <2>3. CASE n = 2
      <3>1. h = Smb!CreateResponse(f)
        BY <2>2, <2>3, SmbLists DEF Smb!Handled
      <3>2. Alone(f, 2, ex, ex2) /\ InStep(smbSessions, ex, f, f.session)
        BY <2>1, <2>3
      <3>3. Smb!CreateResponse(f).disk = smbDisk
            /\ InStep(Smb!CreateResponse(f).sessions, ex2, f, f.session)
        BY <3>2, OpenedSeen
      <3> QED BY <2>3, <3>1, <3>3 DEF PublishesInTurn
    <2>4. CASE n = 3
      <3>1. h = Smb!ReadRequest(f)
        BY <2>2, <2>4, SmbLists DEF Smb!Handled
      <3>2. Alone(f, 3, ex, ex2)
        BY <2>4
      <3>3. Smb!ReadRequest(f).disk = smbDisk /\ InStep(Smb!ReadRequest(f).sessions, ex2, f, f.session)
        BY <2>1, <3>2, RequestSeen
      <3> QED BY <2>4, <3>1, <3>3 DEF PublishesInTurn
    <2>5. CASE n = 4
      <3>1. h = Smb!ReadResponse(f, 1)
        BY <2>2, <2>5, SmbLists DEF Smb!Handled
      <3>2. Alone(f, 4, ex, ex2) /\ InStep(smbSessions, ex, f, f.session)
        BY <2>1, <2>5
      <3> DEFINE piece == [file |-> f, read |-> 1, size |-> f.reads[1].length]
                 r == Smb!ReadResponse(f, 1)
      <3>3. /\ InStep(r.sessions, ex2, f, f.session)
            /\ ex[f] = 3 => PublishesOne(smbDisk, r.disk, f, piece)
            /\ ex[f] = 4 => r.disk = smbDisk
        BY <3>2, DataSeen
      <3>4. ex[f] \in {3, 4}
        BY <3>2 DEF Alone
      <3> HIDE DEF r
      <3>5. PublishesInTurn(smbDisk, r.disk, f, n, ex)
        BY <2>5, <3>3, <3>4 DEF PublishesInTurn
      <3> QED BY <3>1, <3>3, <3>5 DEF r
    <2>6. CASE n = 5
      <3>1. h = Smb!CloseRequest(f)
        BY <2>2, <2>6, SmbLists DEF Smb!Handled
      <3>2. Alone(f, 5, ex, ex2)
        BY <2>6
      <3>3. Smb!CloseRequest(f).disk = smbDisk /\ InStep(Smb!CloseRequest(f).sessions, ex2, f, f.session)
        BY <2>1, <3>2, ClosingSeen
      <3> QED BY <2>6, <3>1, <3>3 DEF PublishesInTurn
    <2> QED BY <1>2, <2>3, <2>4, <2>5, <2>6
  <1> QED BY <1>1, <1>2

----------------------------------------------------------------------------
(* SMB: what was published.                                                 *)

\* The file is published once, with its own data.
PublishedAs(d, f) ==
    \E i \in 1..Len(d.output) :
       /\ \A j \in 1..Len(d.output) : d.output[j].name = f <=> j = i
       /\ d.files[d.output[i].file] = <<[file |-> f, read |-> 1, size |-> f.reads[1].length]>>

Unpublished(d, f) == \A j \in 1..Len(d.output) : d.output[j].name # f

\* A file is published when its data came.
Publication(d, ex, f) ==
    IF ex[f] >= 4 THEN PublishedAs(d, f) ELSE Unpublished(d, f)

LEMMA PublicationKept ==
    ASSUME NEW d, NEW e, IsSmbDisk(d), IsSmbDisk(e), NEW names, Publishes(d, e, names),
           NEW f, f \notin names
    PROVE  /\ PublishedAs(d, f) => PublishedAs(e, f)
           /\ Unpublished(d, f) => Unpublished(e, f)
  <1>1. Len(d.output) \in Nat /\ Len(e.output) \in Nat /\ Len(d.output) <= Len(e.output)
    BY DEF IsSmbDisk, Publishes
  <1>2. \A i \in 1..Len(d.output) :
           /\ e.output[i] = d.output[i]
           /\ e.files[d.output[i].file] = d.files[d.output[i].file]
    BY DEF Publishes
  <1>3. \A i \in 1..Len(e.output) : i \notin 1..Len(d.output) => e.output[i].name # f
    BY DEF Publishes
  <1>4. 1..Len(d.output) \subseteq 1..Len(e.output)
    BY <1>1
  <1>5. Unpublished(d, f) => Unpublished(e, f)
    BY <1>2, <1>3 DEF Unpublished
  <1>6. ASSUME PublishedAs(d, f) PROVE PublishedAs(e, f)
    <2>1. PICK i \in 1..Len(d.output) :
             /\ \A j \in 1..Len(d.output) : d.output[j].name = f <=> j = i
             /\ d.files[d.output[i].file] = <<[file |-> f, read |-> 1, size |-> f.reads[1].length]>>
      BY <1>6 DEF PublishedAs
    <2>2. \A j \in 1..Len(e.output) : e.output[j].name = f <=> j = i
      BY <1>2, <1>3, <2>1
    <2>3. i \in 1..Len(e.output)
         /\ e.files[e.output[i].file] = <<[file |-> f, read |-> 1, size |-> f.reads[1].length]>>
      BY <1>2, <1>4, <2>1
    <2> QED BY <2>2, <2>3 DEF PublishedAs
  <1> QED BY <1>5, <1>6

LEMMA PublicationMade ==
    ASSUME NEW d, NEW e, IsSmbDisk(d), NEW f, Unpublished(d, f),
           PublishesOne(d, e, f, [file |-> f, read |-> 1, size |-> f.reads[1].length])
    PROVE  PublishedAs(e, f)
  <1> DEFINE m == Len(d.output) + 1
  <1>1. /\ Len(d.output) \in Nat /\ Len(e.output) = m /\ e.output[m].name = f
        /\ e.files[e.output[m].file] = <<[file |-> f, read |-> 1, size |-> f.reads[1].length]>>
    BY DEF IsSmbDisk, PublishesOne
  <1>2. \A i \in 1..Len(d.output) : e.output[i].name # f
    BY DEF Unpublished, PublishesOne, Publishes
  <1>3. m \in 1..Len(e.output) /\ \A j \in 1..Len(e.output) : j = m \/ j \in 1..Len(d.output)
    BY <1>1
  <1>4. m \notin 1..Len(d.output)
    BY <1>1
  <1> HIDE DEF m
  <1>5. \A j \in 1..Len(e.output) : e.output[j].name = f <=> j = m
    BY <1>1, <1>2, <1>3, <1>4
  <1> QED BY <1>1, <1>3, <1>5 DEF PublishedAs

----------------------------------------------------------------------------
(* SMB: the inductive invariant.                                            *)

OpenIn(ex, f) == ex[f] \in 2..(Smb!LastStep(f) - 1)

BegunIn(ex) == {f \in smbFiles : ex[f] > 0}

SessionsIn(ex) == {f.session : f \in BegunIn(ex)}

\* Exchanges go on in turn.  No two open files of a session have one id, and
\* none has that of the file that was closed just now.
ExchangesInTurn(ex, l) ==
    /\ ex \in [smbFiles -> Nat] /\ \A f \in smbFiles : ex[f] <= Smb!LastStep(f)
    /\ \A f \in BegunIn(ex) :
          /\ f.session \in DOMAIN l
          /\ l[f.session] \in BegunIn(ex) /\ l[f.session].session = f.session
    /\ \A f, g \in smbFiles :
          /\ f.session = g.session /\ f.id = g.id /\ OpenIn(ex, g)
          /\ OpenIn(ex, f) \/ (l[f.session] = f /\ ex[f] = Smb!LastStep(f))
          => f = g

\* SmbSession's Plain, of these values of its variables.
PlainIn(ex, m, d, s) ==
    /\ s \notin d
    /\ \A f \in BegunIn(ex) : f.session = s => f \notin m /\ Smb!OneRead(f) /\ f.id # 0
    /\ Cardinality(SessionsIn(ex)) <= SmbSessionPoolSize

\* A session without surprises: its files are published when they should be, it
\* has an assembler for each file that waits, and the file of its latest frame is
\* the only one with a request under way.
AsExpected(q, d, ex, l, s) ==
    /\ \A f \in smbFiles : f.session = s => Publication(d, ex, f)
    /\ s \in SessionsIn(ex) =>
          /\ InStep(q, ex, l[s], s)
          /\ \A f \in smbFiles : f.session = s /\ ex[f] \in {1, 3} => f = l[s]
          /\ Cardinality(WaitingOf(ex, s)) <= SmbFilePoolSize

PlainInv ==
    /\ smbFiles \in SmbCaptures /\ ExchangesInTurn(smbExchange, smbLatest)
    /\ SmbKnown(smbSessions, BegunIn(smbExchange)) /\ IsSmbDisk(smbDisk)
    /\ \A s \in {f.session : f \in smbFiles} :
          PlainIn(smbExchange, smbMissed, smbDisorderly, s) =>
             AsExpected(smbSessions, smbDisk, smbExchange, smbLatest, s)

LEMMA CapturedFiles ==
    ASSUME smbFiles \in SmbCaptures
    PROVE  /\ IsFiniteSet(smbFiles)
           /\ \A f \in smbFiles :
                 /\ f.id \in Nat /\ Len(f.reads) \in Nat
                 /\ Smb!LastStep(f) \in Nat /\ Smb!LastStep(f) >= 3
                 /\ Smb!OneRead(f) => Smb!LastStep(f) = 5
                 /\ Smb!OneRead(f) /\ f.id # 0 => InOneAnswer(f)
  <1>1. /\ IsFiniteSet(smbFiles)
        /\ \A f \in smbFiles : f.id \in Nat /\ f.reads \in Seq([length : Nat, carried : Nat])
    BY SmbCapturesAssumption
  <1> SUFFICES ASSUME NEW f \in smbFiles
               PROVE  /\ f.id \in Nat /\ Len(f.reads) \in Nat
                      /\ Smb!LastStep(f) \in Nat /\ Smb!LastStep(f) >= 3
                      /\ Smb!OneRead(f) => Smb!LastStep(f) = 5
                      /\ Smb!OneRead(f) /\ f.id # 0 => InOneAnswer(f)
    BY <1>1
  <1>2. f.id \in Nat /\ Len(f.reads) \in Nat
    BY <1>1
  <1>3. /\ Smb!LastStep(f) \in Nat /\ Smb!LastStep(f) >= 3
        /\ Smb!OneRead(f) => Smb!LastStep(f) = 5
    <2>1. Smb!LastStep(f) = 2 * Len(f.reads) + 3
      BY DEF Smb!LastStep
    <2>2. Smb!OneRead(f) => Len(f.reads) = 1
      BY DEF Smb!OneRead
    <2>3. PICK k \in Nat : k = Len(f.reads)
      BY <1>2
    <2>4. 2 * k + 3 \in Nat /\ 2 * k + 3 >= 3 /\ (k = 1 => 2 * k + 3 = 5)
      OBVIOUS
    <2> QED BY <2>1, <2>2, <2>3, <2>4
  <1> DEFINE C == [length : Nat, carried : Nat]
  <1>4. f.reads \in Seq(C) /\ \A r \in C : r.length \in Nat
    BY <1>1
  <1> HIDE DEF C
  <1>5. Smb!OneRead(f) /\ f.id # 0 => InOneAnswer(f)
    BY <1>2, <1>4 DEF InOneAnswer
  <1> QED BY <1>2, <1>3, <1>5

LEMMA FewBegun ==
    ASSUME smbFiles \in SmbCaptures, NEW ex
    PROVE  /\ IsFiniteSet(SessionsIn(ex)) /\ \A s : IsFiniteSet(WaitingOf(ex, s))
  <1>1. IsFiniteSet(smbFiles)
    BY CapturedFiles
  <1>2. BegunIn(ex) \subseteq smbFiles /\ \A s : WaitingOf(ex, s) \subseteq smbFiles
    BY DEF BegunIn, WaitingOf
  <1>3. IsFiniteSet(BegunIn(ex)) /\ \A s : IsFiniteSet(WaitingOf(ex, s))
    BY <1>1, <1>2, FS_Subset
  <1> DEFINE B == BegunIn(ex)
             S == SessionsIn(ex)
             f == [g \in B |-> g.session]
  <1>4. f \in Surjection(B, S)
    BY DEF Surjection, SessionsIn
  <1> HIDE DEF f, B, S
  <1>5. IsFiniteSet(S)
    BY <1>3, <1>4, FS_Surjection DEF B
  <1> QED BY <1>3, <1>5 DEF S

\* A session without surprises had none before.
LEMMA PlainBefore ==
    ASSUME smbFiles \in SmbCaptures, NEW ex, NEW ex2, BegunIn(ex) \subseteq BegunIn(ex2),
           NEW m, NEW m2, m \subseteq m2, NEW d, NEW d2, d \subseteq d2, NEW s, PlainIn(ex2, m2, d2, s)
    PROVE  PlainIn(ex, m, d, s)
  <1> DEFINE S == SessionsIn(ex)
             T == SessionsIn(ex2)
  <1>1. S \subseteq T
    BY DEF SessionsIn
  <1>2. IsFiniteSet(T) /\ IsFiniteSet(S)
    BY FewBegun
  <1> HIDE DEF S, T
  <1>3. Cardinality(S) <= Cardinality(T) /\ Cardinality(S) \in Nat /\ Cardinality(T) \in Nat
    BY <1>1, <1>2, FS_Subset, FS_CardinalityType
  <1>4. Cardinality(T) <= SmbSessionPoolSize
    BY DEF PlainIn, T
  <1>5. Cardinality(S) <= SmbSessionPoolSize
    BY <1>3, <1>4, PoolSizesAssumption
  <1> QED BY <1>5 DEF PlainIn, S

\* What a frame of w leaves as it was for this session.
LeavesAlone(w, q, ex, l, q2, ex2, l2, s) ==
    /\ w \in smbFiles /\ s # w.session
    /\ \A e \in EntriesOf(q) : e.key # w.session => e \in EntriesOf(q2)
    /\ \A g \in smbFiles : g # w => ex2[g] = ex[g]
    /\ s \in SessionsIn(ex) => l2[s] = l[s]
    /\ \A g \in BegunIn(ex) : l[g.session] \in smbFiles /\ l[g.session].session = g.session

\* A frame of one session leaves the others as expected.
LEMMA OtherSession ==
    ASSUME NEW q, NEW d, NEW ex, NEW l, NEW q2, NEW d2, NEW ex2, NEW l2, NEW w, NEW s,
           LeavesAlone(w, q, ex, l, q2, ex2, l2, s), AsExpected(q, d, ex, l, s),
           IsSmbDisk(d), IsSmbDisk(d2), NEW N, Publishes(d, d2, Mates(w, N))
    PROVE  AsExpected(q2, d2, ex2, l2, s)
  <1>0. /\ w \in smbFiles /\ s # w.session
        /\ \A e \in EntriesOf(q) : e.key # w.session => e \in EntriesOf(q2)
        /\ \A g \in smbFiles : g # w => ex2[g] = ex[g]
        /\ s \in SessionsIn(ex) => l2[s] = l[s]
        /\ \A g \in BegunIn(ex) : l[g.session] \in smbFiles /\ l[g.session].session = g.session
    BY DEF LeavesAlone
  <1>1. \A g \in smbFiles : g.session = s => ex2[g] = ex[g] /\ g \notin Mates(w, N)
    BY <1>0 DEF Mates
  <1>2. ASSUME NEW f \in smbFiles, f.session = s PROVE Publication(d2, ex2, f)
    <2>1. Publication(d, ex, f) /\ ex2[f] = ex[f] /\ f \notin Mates(w, N)
      BY <1>1, <1>2 DEF AsExpected
    <2>2. /\ PublishedAs(d, f) => PublishedAs(d2, f)
          /\ Unpublished(d, f) => Unpublished(d2, f)
      BY <2>1, PublicationKept
    <2> QED BY <2>1, <2>2 DEF Publication
  <1>3. ASSUME s \in SessionsIn(ex2)
        PROVE  /\ InStep(q2, ex2, l2[s], s)
               /\ \A f \in smbFiles : f.session = s /\ ex2[f] \in {1, 3} => f = l2[s]
               /\ Cardinality(WaitingOf(ex2, s)) <= SmbFilePoolSize
    <2>1. s \in SessionsIn(ex)
      BY <1>1, <1>3 DEF SessionsIn, BegunIn
    <2>2. /\ InStep(q, ex, l[s], s) /\ l2[s] = l[s]
          /\ \A f \in smbFiles : f.session = s /\ ex[f] \in {1, 3} => f = l[s]
          /\ Cardinality(WaitingOf(ex, s)) <= SmbFilePoolSize
      BY <1>0, <2>1 DEF AsExpected
    <2>3. WaitingOf(ex2, s) = WaitingOf(ex, s)
      BY <1>1 DEF WaitingOf
    <2>4. EntriesFor(WaitingOf(ex, s), ex) = EntriesFor(WaitingOf(ex, s), ex2)
      <3>1. \A g \in WaitingOf(ex, s) : SmbEntry(g, ex[g]) = SmbEntry(g, ex2[g])
        BY <1>1 DEF WaitingOf
      <3> QED BY <3>1 DEF EntriesFor
    <2>5. l[s] \in smbFiles /\ l[s].session = s
      BY <1>0, <2>1 DEF SessionsIn
    <2>6. ex2[l[s]] = ex[l[s]]
      BY <1>1, <2>5
    <2>7. PICK e \in EntriesOf(q) :
             e.key = s /\ EntriesOf(e.assemblers) = EntriesFor(WaitingOf(ex, s), ex) /\ LastSeen(e, l[s], ex)
      BY <2>2 DEF InStep
    <2>8. LastSeen(e, l2[s], ex2)
      BY <1>0, <2>2, <2>6, <2>7 DEF LastSeen
    <2>9. InStep(q2, ex2, l2[s], s)
      BY <1>0, <2>3, <2>4, <2>7, <2>8 DEF InStep
    <2> QED BY <1>1, <2>2, <2>3, <2>9
  <1> QED BY <1>2, <1>3 DEF AsExpected

\* A frame of a session without surprises.
LEMMA OwnSession ==
    ASSUME NEW N, SmbKnown(smbSessions, N), IsSmbDisk(smbDisk), NEW w \in N,
           NEW ex \in [smbFiles -> Nat], NEW ex2, NEW l, NEW n \in 1..5,
           Alone(w, n, ex, ex2), Started(w, n, ex, l), n \in {2, 4} => l = w,
           \A g \in smbFiles : g.session = w.session => Publication(smbDisk, ex, g),
           \A g \in smbFiles : g.session = w.session /\ g # w => ex[g] \notin {1, 3},
           IsSmbDisk(Smb!Handled(w, n).disk), NEW l2, l2[w.session] = w
    PROVE  LET h == Smb!Handled(w, n) IN AsExpected(h.sessions, h.disk, ex2, l2, w.session)
  <1> DEFINE h == Smb!Handled(w, n)
             s == w.session
  <1>1. InStep(h.sessions, ex2, w, s) /\ PublishesInTurn(smbDisk, h.disk, w, n, ex)
    BY FrameSeen
  <1>2. /\ w \in smbFiles /\ ex[w] \in {n - 1, n} /\ ex2[w] = n
        /\ \A g \in smbFiles : g # w => ex2[g] = ex[g]
        /\ Cardinality(WaitingOf(ex2, s)) <= SmbFilePoolSize
    BY DEF Alone
  <1> HIDE DEF h
  <1>3. ASSUME NEW g \in smbFiles, g.session = s PROVE Publication(h.disk, ex2, g)
    <2>1. Publication(smbDisk, ex, g) /\ ex[g] \in Nat
      BY <1>3
    <2>2. CASE n = 4 /\ ex[w] = 3
      <3>1. PublishesOne(smbDisk, h.disk, w, [file |-> w, read |-> 1, size |-> w.reads[1].length])
        BY <1>1, <2>2 DEF PublishesInTurn
      <3>2. CASE g = w
        <4>1. Unpublished(smbDisk, w)
          BY <2>1, <2>2, <3>2 DEF Publication
        <4>2. PublishedAs(h.disk, w)
          BY <3>1, <4>1, PublicationMade
        <4> QED BY <1>2, <2>2, <3>2, <4>2 DEF Publication
      <3>3. CASE g # w
        <4>1. Publishes(smbDisk, h.disk, {w}) /\ g \notin {w} /\ IsSmbDisk(h.disk)
          BY <3>1, <3>3 DEF PublishesOne, h
        <4>2. /\ PublishedAs(smbDisk, g) => PublishedAs(h.disk, g)
              /\ Unpublished(smbDisk, g) => Unpublished(h.disk, g)
          BY <4>1, PublicationKept
        <4>3. ex2[g] = ex[g]
          BY <1>2, <3>3
        <4> QED BY <2>1, <4>2, <4>3 DEF Publication
      <3> QED BY <3>2, <3>3
    <2>3. CASE ~(n = 4 /\ ex[w] = 3)
      <3>1. h.disk = smbDisk
        BY <1>1, <2>3 DEF PublishesInTurn
      <3>2. ex2[g] >= 4 <=> ex[g] >= 4
        BY <1>2, <2>1, <2>3
      <3> QED BY <2>1, <3>1, <3>2 DEF Publication
    <2> QED BY <2>2, <2>3
  <1>4. \A g \in smbFiles : g.session = s /\ ex2[g] \in {1, 3} => g = l2[s]
    BY <1>2
  <1>5. InStep(h.sessions, ex2, l2[s], s)
    BY <1>1
  <1>6. AsExpected(h.sessions, h.disk, ex2, l2, s)
    BY <1>2, <1>3, <1>4, <1>5 DEF AsExpected
  <1> QED BY <1>6 DEF h

----------------------------------------------------------------------------
(* SMB: the steps.                                                          *)

\* What sending a frame of w changes and needs.
SendsOne(w) ==
    /\ smbFiles' = smbFiles /\ smbDisorderly \subseteq smbDisorderly'
    /\ smbExchange[w] < Smb!LastStep(w)
    /\ smbExchange[w] = 1 =>
          \A g \in smbFiles : g # w /\ g.session = w.session /\ g.id = w.id => ~OpenIn(smbExchange, g)
    /\ smbExchange' \in [smbFiles -> Nat] /\ smbExchange'[w] = smbExchange[w] + 1
    /\ \A g \in smbFiles : g # w => smbExchange'[g] = smbExchange[g]
    /\ DOMAIN smbLatest' = DOMAIN smbLatest \cup {w.session} /\ smbLatest'[w.session] = w
    /\ \A s \in DOMAIN smbLatest : s # w.session => smbLatest'[s] = smbLatest[s]
    /\ w.session \notin smbDisorderly' =>
          /\ \A g \in smbFiles : g # w /\ g.session = w.session => ~Smb!UnderWay(g)
          /\ Cardinality(Smb!Waiting(w.session) \cup {w}) <= SmbFilePoolSize

LEMMA SentSends ==
    ASSUME smbFiles \in SmbCaptures, smbExchange \in [smbFiles -> Nat], NEW w \in smbFiles, Smb!Sent(w)
    PROVE  SendsOne(w)
  <1>1. /\ smbFiles' = smbFiles /\ smbExchange[w] < Smb!LastStep(w)
        /\ smbExchange' = [smbExchange EXCEPT ![w] = smbExchange[w] + 1]
        /\ smbLatest' = Smb!Put(smbLatest, w.session, w)
    BY DEF Smb!Sent
  <1>2. smbExchange[w] = 1 =>
           \A g \in smbFiles : g # w /\ g.session = w.session /\ g.id = w.id => ~OpenIn(smbExchange, g)
    BY DEF Smb!Sent, Smb!Open, OpenIn
  <1>3. /\ smbExchange' \in [smbFiles -> Nat] /\ smbExchange'[w] = smbExchange[w] + 1
        /\ \A g \in smbFiles : g # w => smbExchange'[g] = smbExchange[g]
    BY <1>1
  <1>4. /\ DOMAIN smbLatest' = DOMAIN smbLatest \cup {w.session} /\ smbLatest'[w.session] = w
        /\ \A s \in DOMAIN smbLatest : s # w.session => smbLatest'[s] = smbLatest[s]
    BY <1>1 DEF Smb!Put
  <1> DEFINE A == \E g \in smbFiles : g # w /\ g.session = w.session /\ Smb!UnderWay(g)
             W == Smb!Waiting(w.session) \cup {w}
  <1>5. smbDisorderly' = IF A \/ Cardinality(W) > SmbFilePoolSize
                         THEN smbDisorderly \cup {w.session} ELSE smbDisorderly
    BY SmbNumbers DEF Smb!Sent
  <1>6. IsFiniteSet(W)
    <2>1. IsFiniteSet(smbFiles)
      BY CapturedFiles
    <2>2. W \subseteq smbFiles
      BY DEF Smb!Waiting
    <2> QED BY <2>1, <2>2, FS_Subset
  <1> HIDE DEF W
  <1>7. Cardinality(W) \in Nat
    BY <1>6, FS_CardinalityType
  <1>8. smbDisorderly \subseteq smbDisorderly'
    BY <1>5
  <1>9. w.session \notin smbDisorderly' => ~A /\ Cardinality(W) <= SmbFilePoolSize
    BY <1>5, <1>7, PoolSizesAssumption
  <1> QED BY <1>1, <1>2, <1>3, <1>4, <1>8, <1>9 DEF SendsOne, W

LEMMA StaysInTurn ==
    ASSUME smbFiles \in SmbCaptures, ExchangesInTurn(smbExchange, smbLatest),
           NEW w \in smbFiles, SendsOne(w)
    PROVE  ExchangesInTurn(smbExchange', smbLatest')
  <1> DEFINE ex == smbExchange
             ex2 == smbExchange'
             l == smbLatest
             l2 == smbLatest'
  <1>1. /\ ex2 \in [smbFiles -> Nat] /\ ex2[w] = ex[w] + 1 /\ ex[w] < Smb!LastStep(w)
        /\ \A g \in smbFiles : g # w => ex2[g] = ex[g]
        /\ DOMAIN l2 = DOMAIN l \cup {w.session} /\ l2[w.session] = w
        /\ \A s \in DOMAIN l : s # w.session => l2[s] = l[s]
        /\ ex[w] = 1 => \A g \in smbFiles : g # w /\ g.session = w.session /\ g.id = w.id => ~OpenIn(ex, g)
    BY DEF SendsOne
  <1>2. /\ ex \in [smbFiles -> Nat] /\ \A f \in smbFiles : ex[f] <= Smb!LastStep(f)
        /\ \A f \in BegunIn(ex) :
              /\ f.session \in DOMAIN l
              /\ l[f.session] \in BegunIn(ex) /\ l[f.session].session = f.session
    BY DEF ExchangesInTurn
  <1>3. \A f, g \in smbFiles :
          /\ f.session = g.session /\ f.id = g.id /\ OpenIn(ex, g)
          /\ OpenIn(ex, f) \/ (l[f.session] = f /\ ex[f] = Smb!LastStep(f))
          => f = g
    BY DEF ExchangesInTurn
  <1>4. \A f \in smbFiles : ex[f] \in Nat /\ Smb!LastStep(f) \in Nat /\ Smb!LastStep(f) >= 3
    BY <1>2, CapturedFiles
  <1> HIDE DEF ex, ex2, l, l2
  <1>5. \A f \in smbFiles : ex2[f] <= Smb!LastStep(f)
    BY <1>1, <1>2, <1>4
  <1>6. BegunIn(ex2) = BegunIn(ex) \cup {w}
    BY <1>1, <1>4 DEF BegunIn
  <1>7. ASSUME NEW f \in BegunIn(ex2)
        PROVE  /\ f.session \in DOMAIN l2
               /\ l2[f.session] \in BegunIn(ex2) /\ l2[f.session].session = f.session
    <2>1. CASE f.session = w.session
      BY <1>1, <1>6, <2>1
    <2>2. CASE f.session # w.session
      BY <1>1, <1>2, <1>6, <1>7, <2>2
    <2> QED BY <2>1, <2>2
  <1>8. ASSUME NEW f \in smbFiles, NEW g \in smbFiles,
               f.session = g.session, f.id = g.id, OpenIn(ex2, g),
               OpenIn(ex2, f) \/ (l2[f.session] = f /\ ex2[f] = Smb!LastStep(f)), f # g
        PROVE  FALSE
    <2>1. \A h \in smbFiles : h # w => (OpenIn(ex2, h) <=> OpenIn(ex, h))
      BY <1>1 DEF OpenIn
    <2>2. OpenIn(ex2, w) => ex[w] = 1 \/ OpenIn(ex, w)
      BY <1>1, <1>4 DEF OpenIn
    <2>3. ex2[w] = Smb!LastStep(w) => OpenIn(ex, w)
      BY <1>1, <1>4 DEF OpenIn
    <2>4. CASE f = w
      <3>1. OpenIn(ex, g) /\ (ex[w] = 1 \/ OpenIn(ex, w))
        BY <1>8, <2>1, <2>2, <2>3, <2>4
      <3> QED BY <1>1, <1>3, <1>8, <2>4, <3>1
    <2>5. CASE g = w
      <3>1. OpenIn(ex, f)
        BY <1>1, <1>8, <2>1, <2>5
      <3>2. ex[w] = 1 \/ OpenIn(ex, w)
        BY <1>8, <2>2, <2>5
      <3> QED BY <1>1, <1>3, <1>8, <2>5, <3>1, <3>2
    <2>6. CASE f # w /\ g # w
      <3>1. OpenIn(ex, g)
        BY <1>8, <2>1, <2>6
      <3>2. OpenIn(ex, f) \/ (l[f.session] = f /\ ex[f] = Smb!LastStep(f))
        <4>1. CASE OpenIn(ex2, f)
          BY <2>1, <2>6, <4>1
        <4>2. CASE l2[f.session] = f /\ ex2[f] = Smb!LastStep(f)
          <5>1. f.session # w.session
            BY <1>1, <2>6, <4>2
          <5>2. ex[f] = Smb!LastStep(f) /\ f \in BegunIn(ex)
            BY <1>1, <1>4, <2>6, <4>2 DEF BegunIn
          <5> QED BY <1>1, <1>2, <4>2, <5>1, <5>2
        <4> QED BY <1>8, <4>1, <4>2
      <3> QED BY <1>3, <1>8, <3>1, <3>2
    <2> QED BY <2>4, <2>5, <2>6
  <1> QED BY <1>1, <1>5, <1>7, <1>8 DEF ExchangesInTurn, ex2, l2

\* Sessions known with fewer files are known with more.
LEMMA KnownGrows ==
    ASSUME NEW q, NEW N, NEW M, N \subseteq M, SmbKnown(q, N)
    PROVE  SmbKnown(q, M)
  BY DEF SmbKnown, Holds

LEMMA BegunGrows ==
    ASSUME smbExchange \in [smbFiles -> Nat], NEW w \in smbFiles, SendsOne(w)
    PROVE  BegunIn(smbExchange') = BegunIn(smbExchange) \cup {w}
  <1>1. /\ smbExchange'[w] = smbExchange[w] + 1 /\ smbExchange[w] \in Nat
        /\ \A g \in smbFiles : g # w => smbExchange'[g] = smbExchange[g]
    BY DEF SendsOne
  <1> QED BY <1>1 DEF BegunIn

\* The list has room for a plain session's, whichever session the frame is of.
LEMMA PlainRoom ==
    ASSUME smbFiles \in SmbCaptures, NEW ex, SmbKnown(smbSessions, BegunIn(ex)), NEW w \in BegunIn(ex),
           NEW m, NEW d, NEW s, PlainIn(ex, m, d, s)
    PROVE  SessionRoom(w)
  <1> DEFINE T == SessionsIn(ex)
  <1>1. IsFiniteSet(T) /\ Cardinality(T) <= SmbSessionPoolSize /\ w.session \in T
    BY FewBegun DEF PlainIn, SessionsIn
  <1>2. KeysOf(smbSessions) \subseteq T
    <2>1. \A e \in EntriesOf(smbSessions) : \E g \in BegunIn(ex) : g.session = e.key
      BY DEF SmbKnown
    <2>2. KeysOf(smbSessions) = {e.key : e \in EntriesOf(smbSessions)}
      BY KeysFromEntries
    <2> QED BY <2>1, <2>2 DEF SessionsIn
  <1> HIDE DEF T
  <1> QED BY <1>1, <1>2 DEF SessionRoom

LEMMA PlainInvNext ==
    ASSUME smbFiles' = smbFiles, smbFiles \in SmbCaptures, ExchangesInTurn(smbExchange', smbLatest'),
           SmbKnown(smbSessions', BegunIn(smbExchange')), IsSmbDisk(smbDisk'),
           \A s \in {f.session : f \in smbFiles} :
              PlainIn(smbExchange', smbMissed', smbDisorderly', s) =>
                 AsExpected(smbSessions', smbDisk', smbExchange', smbLatest', s)
    PROVE  PlainInv'
  <1>1. ExchangesInTurn(smbExchange, smbLatest)'
    BY DEF ExchangesInTurn, BegunIn, OpenIn
  <1>2. BegunIn(smbExchange)' = BegunIn(smbExchange')
    BY DEF BegunIn
  <1>3. SmbKnown(smbSessions, BegunIn(smbExchange))'
    BY <1>2
  <1>4. (\A s \in {f.session : f \in smbFiles} :
           PlainIn(smbExchange, smbMissed, smbDisorderly, s) =>
              AsExpected(smbSessions, smbDisk, smbExchange, smbLatest, s))'
    <2> SUFFICES ASSUME NEW s \in {f.session : f \in smbFiles},
                        PlainIn(smbExchange, smbMissed, smbDisorderly, s)'
                 PROVE  AsExpected(smbSessions, smbDisk, smbExchange, smbLatest, s)'
      BY DEF PlainInv
    <2>1. SessionsIn(smbExchange)' = SessionsIn(smbExchange')
      BY DEF SessionsIn, BegunIn
    <2>2. WaitingOf(smbExchange, s)' = WaitingOf(smbExchange', s)
      BY DEF WaitingOf
    <2>3. PlainIn(smbExchange', smbMissed', smbDisorderly', s)
      BY <1>2, <2>1 DEF PlainIn
    <2>4. AsExpected(smbSessions', smbDisk', smbExchange', smbLatest', s)
      BY <2>3
    <2>5. InStep(smbSessions', smbExchange', smbLatest'[s], s) =>
             InStep(smbSessions, smbExchange, smbLatest[s], s)'
      BY <2>2 DEF InStep
    <2> QED BY <2>1, <2>2, <2>4, <2>5 DEF AsExpected
  <1> QED BY <1>1, <1>3, <1>4 DEF PlainInv

LEMMA CapturedExpected ==
    ASSUME PlainInv, NEW w \in smbFiles, Smb!Captured(w)
    PROVE  PlainInv'
  <1> DEFINE ex == smbExchange
             ex2 == smbExchange'
             n == smbExchange[w] + 1
             h == Smb!Handled(w, smbExchange[w] + 1)
             N == BegunIn(smbExchange')
  <1>1. /\ smbFiles \in SmbCaptures /\ ExchangesInTurn(ex, smbLatest) /\ IsSmbDisk(smbDisk)
        /\ SmbKnown(smbSessions, BegunIn(ex))
    BY DEF PlainInv
  <1>2. ex \in [smbFiles -> Nat] /\ n \in Nat
    BY <1>1 DEF ExchangesInTurn
  <1>3. /\ Smb!Sent(w) /\ smbMissed' = smbMissed
        /\ smbSessions' = h.sessions /\ smbDisk' = h.disk
    BY DEF Smb!Captured, Smb!Handle
  <1>4. SendsOne(w)
    BY <1>1, <1>2, <1>3, SentSends
  <1>5. ExchangesInTurn(ex2, smbLatest')
    BY <1>1, <1>4, StaysInTurn
  <1>6. N = BegunIn(ex) \cup {w}
    BY <1>2, <1>4, BegunGrows
  <1>7. w.id \in Nat
    BY <1>1, CapturedFiles
  <1> HIDE DEF h, N, n
  <1>8. SmbKnown(smbSessions, N)
    <2>1. BegunIn(ex) \subseteq N
      BY <1>6
    <2> QED BY <1>1, <2>1, KnownGrows
  <1>9. w \in N
    BY <1>6
  <1>10. Concerns(h, w, N)
    <2>1. Concerns(Smb!Handled(w, n), w, N)
      BY <1>1, <1>2, <1>7, <1>8, <1>9, HandledConcerns
    <2> QED BY <2>1 DEF h, n
  <1>11. SmbKnown(h.sessions, N) /\ IsSmbDisk(h.disk) /\ Publishes(smbDisk, h.disk, Mates(w, N))
    BY <1>10 DEF Concerns
  <1>12. ASSUME NEW s \in {f.session : f \in smbFiles}, PlainIn(ex2, smbMissed', smbDisorderly', s)
         PROVE  AsExpected(h.sessions, h.disk, ex2, smbLatest', s)
    <2>1. PlainIn(ex, smbMissed, smbDisorderly, s)
      <3>1. BegunIn(ex) \subseteq BegunIn(ex2)
        BY <1>6 DEF N
      <3>2. smbDisorderly \subseteq smbDisorderly' /\ smbMissed \subseteq smbMissed'
        BY <1>3, <1>4 DEF SendsOne
      <3> QED BY <1>1, <1>12, <3>1, <3>2, PlainBefore
    <2>2. AsExpected(smbSessions, smbDisk, ex, smbLatest, s)
      BY <2>1 DEF PlainInv
    <2>3. CASE s # w.session
      <3>1. SessionRoom(w)
        <4>1. SmbKnown(smbSessions, BegunIn(ex2)) /\ w \in BegunIn(ex2)
          BY <1>8, <1>9 DEF N
        <4> QED BY <1>1, <1>12, <4>1, PlainRoom
      <3>2. \A e \in EntriesOf(smbSessions) : e.key # w.session => e \in EntriesOf(h.sessions)
        BY <1>10, <3>1 DEF Concerns
      <3>3. \A g \in smbFiles : g # w => ex2[g] = ex[g]
        BY <1>4 DEF SendsOne
      <3>4. \A g \in BegunIn(ex) : /\ g.session \in DOMAIN smbLatest
                                   /\ smbLatest[g.session] \in smbFiles
                                   /\ smbLatest[g.session].session = g.session
        BY <1>1 DEF ExchangesInTurn, BegunIn
      <3>5. s \in SessionsIn(ex) => smbLatest'[s] = smbLatest[s]
        BY <1>4, <2>3, <3>4 DEF SessionsIn, SendsOne
      <3>6. \A g \in BegunIn(ex) :
               smbLatest[g.session] \in smbFiles /\ smbLatest[g.session].session = g.session
        BY <3>4
      <3>7. IsSmbDisk(smbDisk) /\ IsSmbDisk(h.disk) /\ Publishes(smbDisk, h.disk, Mates(w, N))
        BY <1>1, <1>11
      <3> DEFINE l == smbLatest
                 l2 == smbLatest'
      <3>8. /\ AsExpected(smbSessions, smbDisk, ex, l, s) /\ (s \in SessionsIn(ex) => l2[s] = l[s])
            /\ \A g \in BegunIn(ex) : l[g.session] \in smbFiles /\ l[g.session].session = g.session
        BY <2>2, <3>5, <3>6
      <3> HIDE DEF ex, ex2, l, l2
      <3>9. LeavesAlone(w, smbSessions, ex, l, h.sessions, ex2, l2, s)
        BY <2>3, <3>2, <3>3, <3>8 DEF LeavesAlone
      <3>10. AsExpected(h.sessions, h.disk, ex2, l2, s)
        <4>1. AsExpected(smbSessions, smbDisk, ex, l, s)
          BY <3>8
        <4> QED BY ONLY <3>7, <3>9, <4>1, OtherSession
      <3> QED BY <3>10 DEF l2
    <2>4. CASE s = w.session
      <3>1. /\ \A g \in smbFiles : g # w /\ g.session = s => ~Smb!UnderWay(g)
            /\ Cardinality(Smb!Waiting(s) \cup {w}) <= SmbFilePoolSize
        BY <1>4, <1>12, <2>4 DEF SendsOne, PlainIn
      <3>2. \A g \in N : g.session = s => g.id # 0 /\ Smb!OneRead(g)
        BY <1>12 DEF PlainIn, N
      <3>3. \A g \in N : g.session = s => InOneAnswer(g) /\ Smb!LastStep(g) = 5
        BY <1>1, <3>2, CapturedFiles DEF N, BegunIn
      <3>4. /\ \A g \in smbFiles : g # w => ex2[g] = ex[g]
            /\ ex2[w] = n /\ ex[w] < Smb!LastStep(w) /\ smbLatest'[w.session] = w
        BY <1>4 DEF SendsOne, n
      <3>5. n \in 1..5 /\ ex[w] = n - 1 /\ InOneAnswer(w)
        BY <1>2, <1>9, <2>4, <3>3, <3>4 DEF n
      <3>6. \A g \in smbFiles : g.session = s /\ g # w => ex[g] \notin {1, 3}
        <4> SUFFICES ASSUME NEW g \in smbFiles, g.session = s, g # w, ex[g] \in {1, 3} PROVE FALSE
          OBVIOUS
        <4>1. g \in N
          BY <1>6 DEF BegunIn
        <4>2. ~Smb!UnderWay(g) /\ Smb!LastStep(g) = 5
          BY <3>1, <3>3, <4>1
        <4> QED BY <4>2 DEF Smb!UnderWay
      <3>7. \A g \in WaitingOf(ex, s) : g # w => /\ ex[g] = 2 /\ OpenIn(ex, g) /\ g.id # 0
                                                 /\ g \in smbFiles /\ g.session = s
        <4> SUFFICES ASSUME NEW g \in WaitingOf(ex, s), g # w
                     PROVE  /\ ex[g] = 2 /\ OpenIn(ex, g) /\ g.id # 0
                            /\ g \in smbFiles /\ g.session = s
          OBVIOUS
        <4>1. g \in smbFiles /\ g.session = s /\ ex[g] \in 1..3
          BY DEF WaitingOf
        <4>2. g \in N
          BY <1>6, <4>1 DEF BegunIn
        <4>3. ex[g] = 2 /\ Smb!LastStep(g) = 5 /\ g.id # 0
          BY <3>2, <3>3, <3>6, <4>1, <4>2
        <4> QED BY <4>1, <4>3 DEF OpenIn
      <3>8. n # 1 => \A g \in WaitingOf(ex, s) : g # w => g.id # w.id
        <4> SUFFICES ASSUME n # 1, NEW g \in WaitingOf(ex, s), g # w, g.id = w.id PROVE FALSE
          OBVIOUS
        <4>1. OpenIn(ex, g) /\ g \in smbFiles /\ g.session = w.session
          BY <2>4, <3>7
        <4>2. ex[w] # 1
          BY <1>4, <4>1 DEF SendsOne
        <4>3. Smb!LastStep(w) = 5
          BY <1>9, <2>4, <3>3
        <4>4. OpenIn(ex, w)
          BY <3>5, <4>2, <4>3 DEF OpenIn
        <4> QED BY <1>1, <4>1, <4>4 DEF ExchangesInTurn
      <3>9. IsFiniteSet(WaitingOf(ex2, s)) /\ Cardinality(WaitingOf(ex2, s)) <= SmbFilePoolSize
        <4> DEFINE V == WaitingOf(ex2, s)
                   W == Smb!Waiting(s) \cup {w}
        <4>1. V \subseteq W
          <5> SUFFICES ASSUME NEW g \in V, g # w PROVE g \in Smb!Waiting(s)
            OBVIOUS
          <5>1. g \in smbFiles /\ g.session = s /\ ex[g] \in 1..3
            BY <3>4 DEF WaitingOf
          <5>2. Smb!LastStep(g) = 5
            BY <1>6, <3>3, <5>1 DEF BegunIn
          <5> QED BY <5>1, <5>2 DEF Smb!Waiting
        <4>2. IsFiniteSet(smbFiles) /\ W \subseteq smbFiles
          BY <1>1, CapturedFiles DEF Smb!Waiting
        <4>3. Cardinality(W) <= SmbFilePoolSize
          BY <3>1
        <4> HIDE DEF V, W
        <4>4. IsFiniteSet(W)
          BY <4>2, FS_Subset
        <4>5. IsFiniteSet(V) /\ Cardinality(V) <= Cardinality(W)
          BY <4>1, <4>4, FS_Subset
        <4>6. Cardinality(V) \in Nat /\ Cardinality(W) \in Nat
          BY <4>4, <4>5, FS_CardinalityType
        <4> QED BY <4>3, <4>5, <4>6, PoolSizesAssumption DEF V
      <3>10. Alone(w, n, ex, ex2)
        BY <2>4, <3>4, <3>5, <3>7, <3>8, <3>9 DEF Alone
      <3>11. Started(w, n, ex, smbLatest[s])
        <4>1. CASE s \in SessionsIn(ex)
          BY <2>2, <2>4, <4>1 DEF AsExpected, Started
        <4>2. CASE s \notin SessionsIn(ex)
          <5>1. \A g \in smbFiles : g.session = s => ~(ex[g] > 0)
            BY <4>2 DEF SessionsIn, BegunIn
          <5>2. WaitingOf(ex, s) = {}
            BY <5>1 DEF WaitingOf
          <5>3. n = 1
            BY <1>2, <2>4, <5>1 DEF n
          <5>4. s \notin KeysOf(smbSessions)
            <6>1. \A e \in EntriesOf(smbSessions) : \E g \in BegunIn(ex) : g.session = e.key
              BY <1>1 DEF SmbKnown
            <6>2. KeysOf(smbSessions) = {e.key : e \in EntriesOf(smbSessions)}
              BY KeysFromEntries
            <6> QED BY <4>2, <6>1, <6>2 DEF SessionsIn
          <5> QED BY <2>4, <5>2, <5>3, <5>4 DEF Started
        <4> QED BY <4>1, <4>2
      <3>12. n \in {2, 4} => smbLatest[s] = w
        <4> SUFFICES ASSUME n \in {2, 4} PROVE smbLatest[s] = w
          OBVIOUS
        <4>1. ex[w] \in {1, 3}
          BY <3>5
        <4>2. s \in SessionsIn(ex)
          BY <2>4, <4>1 DEF SessionsIn, BegunIn
        <4> QED BY <2>2, <2>4, <4>1, <4>2 DEF AsExpected
      <3>13. \A g \in smbFiles : g.session = w.session => Publication(smbDisk, ex, g)
        BY <2>2, <2>4 DEF AsExpected
      <3>14. IsSmbDisk(Smb!Handled(w, n).disk)
        BY <1>11 DEF h, n
      <3>15. \A g \in smbFiles : g.session = w.session /\ g # w => ex[g] \notin {1, 3}
        BY <2>4, <3>6
      <3>16. smbLatest'[w.session] = w
        BY <3>4
      <3> DEFINE k == Smb!Handled(w, n)
                 l == smbLatest[s]
                 l2 == smbLatest'
      <3>17. Started(w, n, ex, l) /\ (n \in {2, 4} => l = w) /\ l2[w.session] = w
        BY <3>11, <3>12, <3>16
      <3>18. AsExpected(k.sessions, k.disk, ex2, l2, w.session)
        <4> HIDE DEF ex, ex2, l, l2
        <4>1. n \in {2, 4} => l = w
          BY <3>17
        <4>2. n \in 1..5 /\ ex \in [smbFiles -> Nat]
          BY <1>2, <3>5
        <4> QED BY ONLY <1>1, <1>8, <1>9, <3>10, <3>13, <3>14, <3>15, <3>17, <4>1, <4>2, OwnSession
      <3> QED BY <2>4, <3>18 DEF h, n
    <2> QED BY <2>3, <2>4
  <1>13. smbFiles' = smbFiles
    BY <1>4 DEF SendsOne
  <1>14. SmbKnown(smbSessions', BegunIn(smbExchange')) /\ IsSmbDisk(smbDisk')
    BY <1>3, <1>11 DEF N
  <1>15. \A s \in {f.session : f \in smbFiles} :
            PlainIn(smbExchange', smbMissed', smbDisorderly', s) =>
               AsExpected(smbSessions', smbDisk', smbExchange', smbLatest', s)
    BY <1>3, <1>12
  <1> QED BY <1>1, <1>5, <1>13, <1>14, <1>15, PlainInvNext

LEMMA MissedExpected ==
    ASSUME PlainInv, NEW w \in smbFiles, Smb!Missed(w)
    PROVE  PlainInv'
  <1> DEFINE ex == smbExchange
             ex2 == smbExchange'
             l == smbLatest
             l2 == smbLatest'
  <1>1. /\ smbFiles \in SmbCaptures /\ ExchangesInTurn(ex, l) /\ IsSmbDisk(smbDisk)
        /\ SmbKnown(smbSessions, BegunIn(ex))
    BY DEF PlainInv
  <1>2. ex \in [smbFiles -> Nat]
    BY <1>1 DEF ExchangesInTurn
  <1>3. /\ Smb!Sent(w) /\ smbMissed' = smbMissed \cup {w}
        /\ smbSessions' = smbSessions /\ smbDisk' = smbDisk
    BY DEF Smb!Missed
  <1>4. SendsOne(w)
    BY <1>1, <1>2, <1>3, SentSends
  <1>5. ExchangesInTurn(ex2, l2)
    BY <1>1, <1>4, StaysInTurn
  <1>6. BegunIn(ex2) = BegunIn(ex) \cup {w}
    BY <1>2, <1>4, BegunGrows
  <1>7. SmbKnown(smbSessions, BegunIn(ex2))
    <2>1. BegunIn(ex) \subseteq BegunIn(ex2)
      BY <1>6
    <2> QED BY <1>1, <2>1, KnownGrows
  <1>8. ASSUME NEW s \in {f.session : f \in smbFiles}, PlainIn(ex2, smbMissed', smbDisorderly', s)
        PROVE  AsExpected(smbSessions, smbDisk, ex2, l2, s)
    <2>1. AsExpected(smbSessions, smbDisk, ex, l, s)
      <3>1. BegunIn(ex) \subseteq BegunIn(ex2)
        BY <1>6
      <3>2. smbDisorderly \subseteq smbDisorderly' /\ smbMissed \subseteq smbMissed'
        BY <1>3, <1>4 DEF SendsOne
      <3>3. PlainIn(ex, smbMissed, smbDisorderly, s)
        BY <1>1, <1>8, <3>1, <3>2, PlainBefore
      <3> QED BY <3>3 DEF PlainInv
    <2>2. s # w.session
      BY <1>3, <1>6, <1>8 DEF PlainIn
    <2>3. \A g \in smbFiles : g # w => ex2[g] = ex[g]
      BY <1>4 DEF SendsOne
    <2>4. \A g \in BegunIn(ex) : /\ g.session \in DOMAIN l
                                 /\ l[g.session] \in smbFiles /\ l[g.session].session = g.session
      BY <1>1 DEF ExchangesInTurn, BegunIn
    <2>5. s \in SessionsIn(ex) => l2[s] = l[s]
      BY <1>4, <2>2, <2>4 DEF SessionsIn, SendsOne
    <2>6. Publishes(smbDisk, smbDisk, Mates(w, {}))
      BY <1>1, PublishesNothing
    <2> HIDE DEF ex, ex2, l, l2
    <2>7. LeavesAlone(w, smbSessions, ex, l, smbSessions, ex2, l2, s)
      BY <2>2, <2>3, <2>4, <2>5 DEF LeavesAlone
    <2> QED BY <1>1, <2>1, <2>6, <2>7, OtherSession
  <1>9. smbFiles' = smbFiles
    BY <1>4 DEF SendsOne
  <1>10. SmbKnown(smbSessions', BegunIn(smbExchange')) /\ IsSmbDisk(smbDisk')
    BY <1>1, <1>3, <1>7
  <1>11. \A s \in {f.session : f \in smbFiles} :
            PlainIn(smbExchange', smbMissed', smbDisorderly', s) =>
               AsExpected(smbSessions', smbDisk', smbExchange', smbLatest', s)
    BY <1>3, <1>8
  <1> QED BY <1>1, <1>5, <1>9, <1>10, <1>11, PlainInvNext

LEMMA RepeatedExpected ==
    ASSUME PlainInv, NEW w \in smbFiles, Smb!Repeated(w)
    PROVE  PlainInv'
  <1> DEFINE ex == smbExchange
             l == smbLatest
             n == smbExchange[w]
             h == Smb!Handled(w, smbExchange[w])
             N == BegunIn(smbExchange)
  <1>1. /\ smbFiles \in SmbCaptures /\ ExchangesInTurn(ex, l) /\ IsSmbDisk(smbDisk)
        /\ SmbKnown(smbSessions, N)
    BY DEF PlainInv
  <1>2. ex \in [smbFiles -> Nat] /\ n \in Nat /\ n > 0 /\ n <= Smb!LastStep(w)
    BY <1>1 DEF ExchangesInTurn, Smb!Repeated
  <1>3. /\ smbSessions' = h.sessions /\ smbDisk' = h.disk
        /\ smbFiles' = smbFiles /\ smbExchange' = ex /\ smbMissed' = smbMissed /\ smbLatest' = l
    BY DEF Smb!Repeated, Smb!Handle
  <1>4. /\ smbDisorderly \subseteq smbDisorderly'
        /\ w.session \notin smbDisorderly' => l[w.session] = w
    BY DEF Smb!Repeated
  <1>5. w.id \in Nat
    BY <1>1, CapturedFiles
  <1>6. w \in N
    BY <1>2 DEF BegunIn
  <1> HIDE DEF h, N, n
  <1>7. Concerns(h, w, N)
    <2>1. Concerns(Smb!Handled(w, n), w, N)
      BY <1>1, <1>2, <1>5, <1>6, HandledConcerns
    <2> QED BY <2>1 DEF h, n
  <1>8. SmbKnown(h.sessions, N) /\ IsSmbDisk(h.disk) /\ Publishes(smbDisk, h.disk, Mates(w, N))
    BY <1>7 DEF Concerns
  <1>9. ASSUME NEW s \in {f.session : f \in smbFiles}, PlainIn(ex, smbMissed, smbDisorderly', s)
        PROVE  AsExpected(h.sessions, h.disk, ex, l, s)
    <2>1. AsExpected(smbSessions, smbDisk, ex, l, s)
      <3>1. PlainIn(ex, smbMissed, smbDisorderly, s)
        BY <1>4, <1>9 DEF PlainIn
      <3> QED BY <3>1 DEF PlainInv
    <2>2. CASE s # w.session
      <3>1. SessionRoom(w)
        <4>1. SmbKnown(smbSessions, BegunIn(ex)) /\ w \in BegunIn(ex)
          BY <1>1, <1>6 DEF N
        <4> QED BY <1>1, <1>9, <4>1, PlainRoom
      <3>2. \A e \in EntriesOf(smbSessions) : e.key # w.session => e \in EntriesOf(h.sessions)
        BY <1>7, <3>1 DEF Concerns
      <3>3. \A g \in BegunIn(ex) : l[g.session] \in smbFiles /\ l[g.session].session = g.session
        BY <1>1 DEF ExchangesInTurn, BegunIn
      <3> HIDE DEF ex, l
      <3>4. LeavesAlone(w, smbSessions, ex, l, h.sessions, ex, l, s)
        BY <2>2, <3>2, <3>3 DEF LeavesAlone
      <3>5. IsSmbDisk(smbDisk) /\ IsSmbDisk(h.disk) /\ Publishes(smbDisk, h.disk, Mates(w, N))
        BY <1>1, <1>8
      <3> QED BY ONLY <2>1, <3>4, <3>5, OtherSession
    <2>3. CASE s = w.session
      <3>1. l[s] = w
        BY <1>4, <1>9, <2>3 DEF PlainIn
      <3>2. \A g \in N : g.session = s => InOneAnswer(g) /\ Smb!LastStep(g) = 5 /\ g.id # 0
        BY <1>1, <1>9, CapturedFiles DEF N, BegunIn, PlainIn
      <3>3. n \in 1..5 /\ InOneAnswer(w) /\ ex[w] = n
        BY <1>2, <1>6, <2>3, <3>2 DEF n
      <3>4. s \in SessionsIn(ex)
        BY <1>6, <2>3 DEF SessionsIn, N
      <3>5. /\ InStep(smbSessions, ex, w, s)
            /\ \A g \in smbFiles : g.session = s /\ g # w => ex[g] \notin {1, 3}
            /\ Cardinality(WaitingOf(ex, s)) <= SmbFilePoolSize
            /\ \A g \in smbFiles : g.session = s => Publication(smbDisk, ex, g)
        BY <2>1, <3>1, <3>4 DEF AsExpected
      <3>6. \A g \in WaitingOf(ex, s) : g # w => ex[g] = 2 /\ g.id # 0 /\ (n # 1 => g.id # w.id)
        <4> SUFFICES ASSUME NEW g \in WaitingOf(ex, s), g # w
                     PROVE  ex[g] = 2 /\ g.id # 0 /\ (n # 1 => g.id # w.id)
          OBVIOUS
        <4>1. g \in smbFiles /\ g.session = s /\ ex[g] \in 1..3
          BY DEF WaitingOf
        <4>2. ex[g] = 2 /\ g \in N
          BY <3>5, <4>1 DEF N, BegunIn
        <4>3. Smb!LastStep(g) = 5 /\ g.id # 0 /\ Smb!LastStep(w) = 5
          BY <1>6, <2>3, <3>2, <4>1, <4>2
        <4>4. OpenIn(ex, g)
          BY <4>2, <4>3 DEF OpenIn
        <4>5. n # 1 => OpenIn(ex, w) \/ (l[w.session] = w /\ ex[w] = Smb!LastStep(w))
          BY <2>3, <3>1, <3>3, <4>3 DEF OpenIn
        <4>6. n # 1 => g.id # w.id
          BY <1>1, <2>3, <4>1, <4>4, <4>5 DEF ExchangesInTurn
        <4> QED BY <4>2, <4>3, <4>6
      <3>7. IsFiniteSet(WaitingOf(ex, s))
        BY <1>1, FewBegun
      <3>8. Alone(w, n, ex, ex)
        BY <2>3, <3>3, <3>5, <3>6, <3>7 DEF Alone
      <3>9. Started(w, n, ex, w)
        BY <2>3, <3>5 DEF Started
      <3>10. \A g \in smbFiles : g.session = w.session => Publication(smbDisk, ex, g)
        BY <2>3, <3>5
      <3>11. \A g \in smbFiles : g.session = w.session /\ g # w => ex[g] \notin {1, 3}
        BY <2>3, <3>5
      <3>12. IsSmbDisk(Smb!Handled(w, n).disk)
        BY <1>8 DEF h, n
      <3> DEFINE k == Smb!Handled(w, n)
      <3>13. l[w.session] = w /\ n \in 1..5 /\ ex \in [smbFiles -> Nat]
        BY <1>2, <2>3, <3>1, <3>3
      <3>14. AsExpected(k.sessions, k.disk, ex, l, w.session)
        <4> HIDE DEF ex, l
        <4>1. n \in {2, 4} => w = w
          OBVIOUS
        <4> QED BY ONLY <1>1, <1>6, <3>8, <3>9, <3>10, <3>11, <3>12, <3>13, <4>1, OwnSession
      <3> QED BY <2>3, <3>14 DEF h, n
    <2> QED BY <2>2, <2>3
  <1>10. ExchangesInTurn(smbExchange', smbLatest') /\ smbFiles' = smbFiles
    BY <1>1, <1>3
  <1>11. SmbKnown(smbSessions', BegunIn(smbExchange')) /\ IsSmbDisk(smbDisk')
    BY <1>3, <1>8 DEF N
  <1>12. \A s \in {f.session : f \in smbFiles} :
            PlainIn(smbExchange', smbMissed', smbDisorderly', s) =>
               AsExpected(smbSessions', smbDisk', smbExchange', smbLatest', s)
    BY <1>3, <1>9
  <1> QED BY <1>1, <1>10, <1>11, <1>12, PlainInvNext

LEMMA PlainStarts == FilesInit => PlainInv
  <1> SUFFICES ASSUME FilesInit PROVE PlainInv
    OBVIOUS
  <1>1. /\ smbFiles \in SmbCaptures /\ smbExchange = [f \in smbFiles |-> 0]
        /\ smbSessions = << >> /\ smbDisk = Smb!EmptyDisk
    BY DEF FilesInit, Smb!Init
  <1> DEFINE E == {}
  <1>2. << >> \in Seq(E) /\ (\A e \in E : IsSession(e)) /\ DOMAIN << >> = {} /\ Len(<< >>) = 0
    OBVIOUS
  <1> HIDE DEF E
  <1>3. SmbKnown(smbSessions, BegunIn(smbExchange))
    <2>1. EntriesOf(<< >>) = {} /\ OneEntryPerKey(<< >>)
      BY <1>2 DEF EntriesOf, OneEntryPerKey
    <2>2. IsSessions(<< >>) /\ IsList(<< >>)
      BY <1>2, <2>1 DEF IsSessions, IsList
    <2> QED BY <1>1, <2>1, <2>2 DEF SmbKnown
  <1>4. IsSmbDisk(smbDisk) /\ Len(smbDisk.output) = 0
    BY <1>1, <1>2 DEF IsSmbDisk, Smb!EmptyDisk
  <1>5. BegunIn(smbExchange) = {} /\ SessionsIn(smbExchange) = {}
    BY <1>1 DEF BegunIn, SessionsIn
  <1>6. ExchangesInTurn(smbExchange, smbLatest)
    <2>1. \A f \in smbFiles : smbExchange[f] = 0 /\ Smb!LastStep(f) \in Nat /\ Smb!LastStep(f) >= 3
      BY <1>1, CapturedFiles
    <2> QED BY <1>1, <1>5, <2>1 DEF ExchangesInTurn, OpenIn
  <1>7. ASSUME NEW s PROVE AsExpected(smbSessions, smbDisk, smbExchange, smbLatest, s)
    BY <1>1, <1>4, <1>5 DEF AsExpected, Publication, Unpublished
  <1> QED BY <1>1, <1>3, <1>4, <1>6, <1>7 DEF PlainInv

LEMMA PlainPreserved == PlainInv /\ [FilesNext]_<<protocol, smbVars, ftpVars>> => PlainInv'
  <1> SUFFICES ASSUME PlainInv, [FilesNext]_<<protocol, smbVars, ftpVars>> PROVE PlainInv'
    OBVIOUS
  <1>1. CASE UNCHANGED smbVars
    <2>1. /\ smbSessions' = smbSessions /\ smbDisk' = smbDisk /\ smbFiles' = smbFiles
          /\ smbExchange' = smbExchange /\ smbMissed' = smbMissed /\ smbLatest' = smbLatest
          /\ smbDisorderly' = smbDisorderly
      BY <1>1 DEF smbVars
    <2>2. /\ smbFiles \in SmbCaptures /\ ExchangesInTurn(smbExchange', smbLatest')
          /\ SmbKnown(smbSessions', BegunIn(smbExchange')) /\ IsSmbDisk(smbDisk')
      BY <2>1 DEF PlainInv
    <2>3. \A s \in {f.session : f \in smbFiles} :
             PlainIn(smbExchange', smbMissed', smbDisorderly', s) =>
                AsExpected(smbSessions', smbDisk', smbExchange', smbLatest', s)
      BY <2>1 DEF PlainInv
    <2> QED BY <2>1, <2>2, <2>3, PlainInvNext
  <1>2. CASE Smb!Next
    BY <1>2, CapturedExpected, MissedExpected, RepeatedExpected DEF Smb!Next
  <1> QED BY <1>1, <1>2 DEF FilesNext

LEMMA PlainPublished == PlainInv => PlainReadsArePublished
  <1> SUFFICES ASSUME PlainInv, NEW f \in smbFiles, Smb!Plain(f.session), Smb!Read(f)
               PROVE  LET named == {i \in DOMAIN smbDisk.output : smbDisk.output[i].name = f}
                      IN  /\ Smb!Cardinality(named) = 1
                          /\ \A i \in named : Smb!Output(smbDisk)[i].data =
                                <<[file |-> f, read |-> 1, size |-> f.reads[1].length]>>
    BY DEF PlainReadsArePublished, Smb!PlainReadsArePublished
  <1> DEFINE named == {i \in DOMAIN smbDisk.output : smbDisk.output[i].name = f}
             s == f.session
  <1>1. smbFiles \in SmbCaptures /\ smbExchange \in [smbFiles -> Nat] /\ IsSmbDisk(smbDisk)
    BY DEF PlainInv, ExchangesInTurn
  <1>2. \A g \in BegunIn(smbExchange) : g.session = s => g \in Smb!Begun(s)
    BY DEF BegunIn, Smb!Begun
  <1>3. SessionsIn(smbExchange) = Smb!BegunSessions
    BY DEF SessionsIn, BegunIn, Smb!BegunSessions, Smb!Begun
  <1>4. PlainIn(smbExchange, smbMissed, smbDisorderly, s)
    BY <1>2, <1>3, SmbNumbers DEF PlainIn, Smb!Plain
  <1>5. smbExchange[f] >= 4
    <2>1. /\ smbExchange[f] \in Nat /\ smbExchange[f] >= Smb!LastStep(f) - 1
          /\ Smb!LastStep(f) \in Nat /\ Smb!LastStep(f) >= 3
      BY <1>1, CapturedFiles DEF Smb!Read
    <2>2. f \in BegunIn(smbExchange)
      BY <2>1 DEF BegunIn
    <2>3. Smb!LastStep(f) = 5
      BY <1>1, <1>4, <2>2, CapturedFiles DEF PlainIn
    <2> QED BY <2>1, <2>3
  <1>6. PublishedAs(smbDisk, f)
    <2>1. AsExpected(smbSessions, smbDisk, smbExchange, smbLatest, s)
      BY <1>4 DEF PlainInv
    <2> QED BY <1>5, <2>1 DEF AsExpected, Publication
  <1>7. PICK i \in 1..Len(smbDisk.output) :
           /\ \A j \in 1..Len(smbDisk.output) : smbDisk.output[j].name = f <=> j = i
           /\ smbDisk.files[smbDisk.output[i].file] =
                 <<[file |-> f, read |-> 1, size |-> f.reads[1].length]>>
    BY <1>6 DEF PublishedAs
  <1>8. DOMAIN smbDisk.output = 1..Len(smbDisk.output)
    BY <1>1 DEF IsSmbDisk
  <1>9. named = {i}
    BY <1>7, <1>8
  <1>10. Smb!Cardinality(named) = 1
    BY <1>9, SmbNumbers, FS_Singleton
  <1>11. Smb!Output(smbDisk)[i].data = smbDisk.files[smbDisk.output[i].file]
    BY <1>7, <1>8 DEF Smb!Output
  <1> QED BY <1>7, <1>9, <1>10, <1>11

\* Whatever happens in other sessions: in a session whose requests were sent one at a
\* time and captured, each file that was read in one answer is published exactly once,
\* under its own name and with its own data, although its session's files share one
\* temporary file, ids are used again and frames are repeated.
THEOREM PlainReadsPublished == FilesSpec => []PlainReadsArePublished
  <1>1. FilesInit => PlainInv
    BY PlainStarts
  <1>2. PlainInv /\ [FilesNext]_<<protocol, smbVars, ftpVars>> => PlainInv'
    BY PlainPreserved
  <1>3. PlainInv => PlainReadsArePublished
    BY PlainPublished
  <1> QED BY <1>1, <1>2, <1>3, PTL DEF FilesSpec
=============================================================================
