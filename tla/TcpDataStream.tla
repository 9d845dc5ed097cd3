--------------------------- MODULE TcpDataStream ---------------------------
(***************************************************************************)
(* PacketParser/TcpDataStream.cpp: one direction of a TCP session.         *)
(* Segments are kept in a map from their 32-bit sequence number; reading   *)
(* follows the numbers from the first key on, and a VirtualTcpData is a    *)
(* view of the first nPackets entries.  Its reader                         *)
(* (RfbRectangleAssembler::addData) adds a segment, takes what can be read *)
(* and removes what it parsed, all in one call.                            *)
(*                                                                         *)
(* A byte is named by its position in the stream, so that a wrong, missing *)
(* or repeated byte shows.                                                 *)
(***************************************************************************)
EXTENDS Sequences, Sums, FiniteSetsExt, SequencesExt

CONSTANTS
    Modulus,                  \* 2^32
    InitialSequenceNumber,
    Segments,                 \* segments on the wire: [position, length]
    MaxPacketFragments,       \* maxPacketFragments, 6
    MaxTotal                  \* bound: bytes that may be added in all

ASSUME StreamAssumption ==
    /\ Modulus \in Nat \ {0} /\ InitialSequenceNumber \in 0..(Modulus - 1)
    /\ MaxPacketFragments \in Nat \ {0} /\ MaxTotal \in Nat
\* The stream is shorter than the number space, which it may cross the end of.
ASSUME SegmentAssumption ==
    \A s \in Segments :
        s.position \in Nat /\ s.length \in Nat \ {0} /\ s.position + s.length < Modulus

VARIABLES
    dataList,          \* the segments kept, by sequence number
    expected,          \* expectedTcpSequenceNumber
    totalByteCount,
    virtualTcpData,    \* nPackets of the shared view, 0 when there is none
    handed,            \* what the reader was given and has not yet removed
    arrived,           \* history: the positions that were added
    inOrder,           \* history: every segment continued the one before
    readTo,            \* history: how much was read of a stream in order, -1
                       \* when anything but its next bytes was read
    cleared            \* history: Clear was called

vars == <<dataList, expected, totalByteCount, virtualTcpData, handed,
          arrived, inOrder, readTo, cleared>>

SequenceNumbers == 0..(Modulus - 1)
Number(position) == (InitialSequenceNumber + position) % Modulus
Bytes(position, length) == [i \in 1..length |-> position + i - 1]

Init ==
    /\ dataList = << >>
    /\ expected = InitialSequenceNumber
    /\ totalByteCount = 0
    /\ virtualTcpData = 0
    /\ handed = << >> /\ arrived = {}
    /\ inOrder = TRUE /\ readTo = 0 /\ cleared = FALSE

----------------------------------------------------------------------------
FirstKey(list) == Min(DOMAIN list)

\* The map's entries in the order of its keys: the first n of them, the n-th,
\* and the bytes before an entry.
Ahead(list, key) == {k \in DOMAIN list : k < key}
FirstEntries(list, n) == {k \in DOMAIN list : Cardinality(Ahead(list, k)) < n}
KeyAt(list, n) == CHOOSE k \in DOMAIN list : Cardinality(Ahead(list, k)) = n - 1
Lengths(list) == [k \in DOMAIN list |-> Len(list[k])]
BytesBefore(list, key) == SumOf(Ahead(list, key), Lengths(list))

\* The first n entries joined: byte i comes from the entry that i falls into.
FallsInto(list, i, key) ==
    BytesBefore(list, key) < i /\ i <= BytesBefore(list, key) + Len(list[key])
Content(list, n) ==
    LET Source(i) == CHOOSE k \in FirstEntries(list, n) : FallsInto(list, i, k)
    IN  [i \in 1..SumOf(FirstEntries(list, n), Lengths(list)) |->
            list[Source(i)][i - BytesBefore(list, Source(i))]]
AllContent(list) == Content(list, Cardinality(DOMAIN list))

After(number, length) == (number + length) % Modulus

\* Where the entry before this one ends.
EndOfPrevious(list, key) ==
    LET previous == Max({k \in DOMAIN list : k < key})
    IN  After(previous, Len(list[previous]))

\* Mutant: the end of the loop is not tested, the segments are counted.
MutCountPacketsToReadAll(list) == Cardinality(DOMAIN list)
\* The entries from the first on that continue one another.
CountPacketsToRead(list) ==
    Cardinality({last \in DOMAIN list :
        \A key \in DOMAIN list :
            FirstKey(list) < key /\ key <= last => key = EndOfPrevious(list, key)})

\* Mutant: the fall-back for a single segment is taken for several.
MutCountBytesToReadFirstOnly(list) ==
    IF list = << >> THEN 0
    ELSE LET first == FirstKey(list)
         IN  IF first # InitialSequenceNumber /\ first # expected
             THEN Len(list[first])
             ELSE IF expected > first THEN expected - first ELSE 0
CountBytesToRead(list) ==
    IF list = << >> THEN 0
    ELSE LET first == FirstKey(list)
         IN  IF first # InitialSequenceNumber /\ first # expected /\ Cardinality(DOMAIN list) = 1
             THEN Len(list[first])
             ELSE IF expected > first THEN expected - first ELSE 0

\* VirtualTcpData::ByteCount of a view of n packets.
ByteCount(n) ==
    IF dataList = << >> THEN 0
    ELSE LET last == KeyAt(dataList, n)
         IN  (last + Len(dataList[last]) - FirstKey(dataList)) % Modulus

\* VirtualTcpData::TryAppendNextPacket's condition.
CanAppend(n) ==
    /\ CountBytesToRead(dataList) > ByteCount(n)
    /\ CountPacketsToRead(dataList) > n
    /\ n < MaxPacketFragments

\* The loop of AddTcpData: expected moves past every segment that continues
\* it.  It takes each segment at most once: all of them are shorter together
\* than the number space.
Advanced(list, from) ==
    LET at[n \in 0..Cardinality(DOMAIN list)] ==
            IF n = 0 THEN from
            ELSE IF at[n - 1] \in DOMAIN list
                 THEN After(at[n - 1], Len(list[at[n - 1]])) ELSE at[n - 1]
    IN  at[Cardinality(DOMAIN list)]

\* Mutant: every segment moves the expected number, not only the expected one.
MutExpectedAfterAny(list, number) == Advanced(list, number)
ExpectedAfter(list, number) ==
    IF number = expected THEN Advanced(list, expected) ELSE expected

\* QMap::insert.
WithEntry(list, number, bytes) ==
    [key \in DOMAIN list \cup {number} |-> IF key = number THEN bytes ELSE list[key]]

AddTcpData(s) ==
    LET number == Number(s.position)
        list == WithEntry(dataList, number, Bytes(s.position, s.length))
    IN  /\ handed = << >>
        /\ totalByteCount + s.length <= MaxTotal
        /\ IF number \in DOMAIN dataList
           THEN UNCHANGED <<dataList, totalByteCount, expected>>
           ELSE /\ dataList' = list
                /\ totalByteCount' = totalByteCount + s.length
                /\ expected' = ExpectedAfter(list, number)
        /\ inOrder' = (inOrder /\ arrived = 0..(s.position - 1))
        /\ readTo' = IF inOrder' THEN readTo ELSE 0
        /\ arrived' = arrived \cup (s.position..(s.position + s.length - 1))
        /\ UNCHANGED <<virtualTcpData, handed, cleared>>

\* GetAllAvailableTcpData: a view of its own, extended as far as it goes.
GetAllAvailableTcpData ==
    LET n == CHOOSE m \in 1..MaxPacketFragments :
                ~CanAppend(m) /\ \A k \in 1..(m - 1) : CanAppend(k)
    IN  /\ CountBytesToRead(dataList) > 0
        /\ handed' = Content(dataList, n)
        /\ UNCHANGED <<dataList, expected, totalByteCount, virtualTcpData,
                       arrived, inOrder, readTo, cleared>>

\* GetNextVirtualTcpData: the shared view, new or one packet longer; the
\* reader gets nothing when it cannot grow.
GetNextVirtualTcpData ==
    /\ \/ /\ virtualTcpData = 0 /\ CountBytesToRead(dataList) > 0
          /\ virtualTcpData' = 1
       \/ /\ virtualTcpData # 0 /\ CanAppend(virtualTcpData)
          /\ virtualTcpData' = virtualTcpData + 1
    /\ handed' = Content(dataList, virtualTcpData')
    /\ UNCHANGED <<dataList, expected, totalByteCount, arrived, inOrder, readTo, cleared>>

\* Mutant: mid() starts one byte early.
MutRemainderOneEarly(bytes, count) == SubSeq(bytes, count, Len(bytes))
Remainder(bytes, count) == SubSeq(bytes, count + 1, Len(bytes))

\* The loop of RemoveData: whole entries from the front, then the front of one,
\* whose rest is inserted under its own number.
Removed(list, count) ==
    LET whole == {k \in DOMAIN list : BytesBefore(list, k) + Len(list[k]) <= count}
        part == {k \in DOMAIN list \ whole : BytesBefore(list, k) < count}
        Cut(k) == count - BytesBefore(list, k)
        rest == {After(k, Cut(k)) : k \in part}
    IN  [key \in (DOMAIN list \ (whole \cup part)) \cup rest |->
            IF key \in rest
            THEN LET k == CHOOSE p \in part : After(p, Cut(p)) = key
                 IN  Remainder(list[k], Cut(k))
            ELSE list[key]]

\* History: the reader goes on where it was, or reads something else.
ReadAfter(count) ==
    IF ~inOrder THEN 0
    ELSE IF readTo >= 0 /\ SubSeq(handed, 1, count) = Bytes(readTo, count)
         THEN readTo + count ELSE -1

\* Mutant: the view survives.
MutRemoveDataKeepsView(count) ==
    /\ count <= Len(handed)
    /\ dataList' = Removed(dataList, count)
    /\ handed' = Remainder(handed, count)
    /\ readTo' = ReadAfter(count)
    /\ UNCHANGED <<expected, totalByteCount, virtualTcpData, arrived, inOrder, cleared>>
\* The reader removes what it has parsed of what it was given.
RemoveData(count) ==
    /\ count <= Len(handed)
    /\ dataList' = Removed(dataList, count)
    /\ handed' = Remainder(handed, count)
    /\ readTo' = ReadAfter(count)
    /\ virtualTcpData' = 0
    /\ UNCHANGED <<expected, totalByteCount, arrived, inOrder, cleared>>

\* The reader's call returns; what it could not parse stays in the list.
Return ==
    /\ handed # << >>
    /\ handed' = << >>
    /\ UNCHANGED <<dataList, expected, totalByteCount, virtualTcpData,
                   arrived, inOrder, readTo, cleared>>

Clear ==
    /\ dataList # << >>
    /\ dataList' = << >> /\ totalByteCount' = 0 /\ virtualTcpData' = 0
    /\ handed' = << >>
    /\ cleared' = TRUE
    /\ UNCHANGED <<expected, arrived, inOrder, readTo>>

Next ==
    \/ \E s \in Segments : AddTcpData(s)
    \/ GetAllAvailableTcpData
    \/ GetNextVirtualTcpData
    \/ \E count \in 1..Len(handed) : RemoveData(count)
    \/ Return
    \/ Clear

Spec == Init /\ [][Next]_vars

----------------------------------------------------------------------------
\* Everything before the expected number has arrived, in whatever order the
\* segments came, were repeated, read and cleared.
FrontierArrived == 0..(((expected - InitialSequenceNumber) % Modulus) - 1) \subseteq arrived

\* The shared view never counts more packets than the list holds: ByteCount
\* walks the list without testing for its end.
VirtualTcpDataWithinList == virtualTcpData <= Cardinality(DOMAIN dataList)

\* What a reader is given is a piece of the stream: no byte is missing in it,
\* repeated or out of place, although holes are only looked for by comparing
\* keys with ends of segments.
HandedIsGapFree == \A i \in 1..(Len(handed) - 1) : handed[i + 1] = handed[i] + 1

\* What the reader is given comes first in the list, and after each removal
\* what it still holds does, so that the next removal takes the right bytes;
\* unless segments in the list overlap, when a segment that lies inside another
\* comes before the rest of that one.
Overlapping ==
    \E j, k \in DOMAIN dataList : j # k /\ ToSet(dataList[j]) \cap ToSet(dataList[k]) # {}
InFront == handed = << >> \/ IsPrefix(handed, AllContent(dataList))
HandedStaysFirst ==
    [][handed = << >> \/ (InFront /\ ~Overlapping) => InFront']_vars

\* A stream that arrives in order is read in order, and all that arrived and
\* was not read is available, as long as the numbers do not wrap.
InOrderIsRead ==
    inOrder /\ ~cleared /\ InitialSequenceNumber + Cardinality(arrived) < Modulus =>
        readTo >= 0 /\ CountBytesToRead(dataList) = Cardinality(arrived) - readTo

\* Nothing to read from a list with segments means that bytes before its first
\* one are missing.
ZeroMeansMissing ==
    dataList # << >> /\ CountBytesToRead(dataList) = 0 =>
        0..(dataList[FirstKey(dataList)][1] - 1) \ arrived # {}
=============================================================================
