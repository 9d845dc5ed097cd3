--------------------------- MODULE Ipv4Reassembly ---------------------------
(***************************************************************************)
(* IPv4 fragments from capture file to reassembled datagram.               *)
(* MainWindow::loadPcap reads a file record by record; the constructor of  *)
(* each Frame makes its packets at once, and IPv4Packet::GetSubPackets     *)
(* collects fragments in the static pool s_Ipv4Fragments until it can copy *)
(* them together.  The pool outlives the load, its packets do not outlive  *)
(* MainWindow::onClear, and a frame's bytes are libpcap's: they stay until *)
(* the next record is read.                                                *)
(*                                                                         *)
(* A record is an IPv4 packet: [key, offset, more, blocks], the key being  *)
(* the fragment identifier, offset and length counted in blocks of eight   *)
(* bytes, and blocks the contents.                                         *)
(***************************************************************************)
EXTENDS PopularityLists, Sums, FiniteSetsExt

CONSTANTS
    Files,          \* the capture files: sequences of records
    Wild,           \* what the fields of a deleted packet may read as
    HeaderBlocks,   \* m_headerLength
    MaxDatagram,    \* 65535 bytes
    PoolSize,       \* 1024
    MaxLoads,       \* bound: how many files are loaded
    Zero,           \* a block of the new buffer nobody wrote
    Junk            \* a block of freed memory

ASSUME SizeAssumption ==
    /\ HeaderBlocks \in Nat \ {0} /\ MaxDatagram \in Nat
    /\ PoolSize \in Nat \ {0} /\ MaxLoads \in Nat
\* A record holds at least a block of payload: IP headers are well formed.
ASSUME FileAssumption ==
    \A file \in Files :
        /\ Len(file) \in Nat /\ DOMAIN file = 1..Len(file)
        /\ \A i \in DOMAIN file :
              /\ file[i].offset \in Nat /\ file[i].more \in BOOLEAN
              /\ Len(file[i].blocks) \in Nat \ {0}

VARIABLES
    loads,       \* the files opened so far; the last one is being read or was
    next,        \* the record pcap_next_ex returns next, 0 when no file is open
    frames,      \* m_frames, each frame named by its load and its frame number
    buffer,      \* the blocks in libpcap's buffer
    pool,        \* s_Ipv4Fragments: entries [key, packets], packets being frames
    delivered,   \* history: the datagrams reassembled, in order
    keysBefore   \* history: the keys in the pool when the file was opened

vars == <<loads, next, frames, buffer, pool, delivered, keysBefore>>

Frame == (Nat \ {0}) \X (Nat \ {0})
Record(f) == loads[f[1]][f[2]]
Keys == UNION {{file[i].key : i \in DOMAIN file} : file \in Files}
Entry == [key : Keys, packets : Seq(Frame)]
LengthOf(r) == Len(r.blocks)
IsFragment(r) == r.offset # 0 \/ r.more
ElementsOf(s) == {s[i] : i \in DOMAIN s}

Init ==
    /\ loads = << >> /\ next = 0 /\ frames = << >>
    /\ buffer = << >> /\ pool = << >>
    /\ delivered = << >> /\ keysBefore = {}

----------------------------------------------------------------------------
\* loadPcap: the file is opened; pcap_next_ex's buffer is new.
Open(file) ==
    /\ next = 0 /\ Len(loads) < MaxLoads
    /\ loads' = Append(loads, file)
    /\ next' = 1
    /\ buffer' = << >>
    /\ keysBefore' = KeysOf(pool)
    /\ UNCHANGED <<frames, pool, delivered>>

\* pcap_next_ex writes the record over the one before; what a longer record
\* left behind it stays.
Overwritten(blocks) ==
    [i \in 1..(IF Len(blocks) > Len(buffer) THEN Len(blocks) ELSE Len(buffer)) |->
        IF i <= Len(blocks) THEN blocks[i] ELSE buffer[i]]

\* The packet of a frame can be looked at: m_frames or the caller holds it.
Alive(f, current) == f = current \/ f \in ElementsOf(frames)

\* The fields a pooled packet is read with: its own, or anything when deleted.
FieldsOf(f) ==
    [offset |-> Record(f).offset, more |-> Record(f).more, length |-> LengthOf(Record(f))]

\* The bytes a pooled packet's frame points to are whatever libpcap's buffer
\* holds by now.
FrameBlocks(f, current, length, bytes) ==
    [i \in 1..length |->
        IF f[1] = current[1] /\ Alive(f, current) /\ i \in DOMAIN bytes THEN bytes[i] ELSE Junk]

\* The fragments with this identifier, the new one last.
Collected(key, f) ==
    Append(IF key \in KeysOf(pool) THEN pool[Position(pool, key)].packets ELSE << >>, f)

\* completeIpPacketPayloadLength, and whether a fragment says it is the last.
PayloadOf(list, fields) == SumOf(DOMAIN list, [i \in DOMAIN list |-> fields[list[i]].length])
\* Mutant: the fragment that came first decides.
MutHasLastOnlyFirst(list, fields) == ~fields[list[1]].more
HasLast(list, fields) == \E i \in DOMAIN list : ~fields[list[i]].more

\* Mutant: a fragment may reach one block past the end.
MutValidOneMore(list, fields, payload) ==
    \A i \in DOMAIN list : fields[list[i]].offset + fields[list[i]].length <= payload + 1
\* validReassembly: no fragment reaches past the end.
Valid(list, fields, payload) ==
    \A i \in DOMAIN list : fields[list[i]].offset + fields[list[i]].length <= payload

\* Which fragment's copy a block of the result is from: the last one that
\* covers it, 0 when none does.
CopiedFrom(list, fields, b) ==
    LET covering == {i \in DOMAIN list :
                        b >= fields[list[i]].offset
                        /\ b < fields[list[i]].offset + fields[list[i]].length}
    IN  IF covering = {} THEN 0 ELSE Max(covering)

Reassembled(list, fields, payload, current, bytes) ==
    [b \in 0..(payload - 1) |->
        LET i == CopiedFrom(list, fields, b)
        IN  IF i = 0 THEN Zero
            ELSE FrameBlocks(list[i], current, fields[list[i]].length, bytes)
                     [b - fields[list[i]].offset + 1]]

\* Mutant: only a valid reassembly leaves the pool.
MutPoolAfterKeepsInvalid(key, list, complete, valid) ==
    LET added == AddBounded(pool, [key |-> key, packets |-> list], PoolSize)
    IN  IF complete /\ valid THEN WithoutKey(added, key) ELSE added
\* Mutant: the datagram stays in the pool.
MutPoolAfterNoRemove(key, list, complete, valid) ==
    AddBounded(pool, [key |-> key, packets |-> list], PoolSize)
\* TryGetValue, Add and Add again make the entry the first of the pool; a
\* datagram with its last fragment leaves the pool, reassembled or not.
PoolAfter(key, list, complete, valid) ==
    LET added == AddBounded(pool, [key |-> key, packets |-> list], PoolSize)
    IN  IF complete THEN WithoutKey(added, key) ELSE added

\* GetSubPackets for a fragment.
Collect(f, bytes) ==
    LET r == loads[f[1]][f[2]]
        list == Collected(r.key, f)
        dead == {g \in ElementsOf(list) : ~Alive(g, f)}
    IN  \E wild \in [dead -> Wild] :
          LET fields == [g \in ElementsOf(list) |-> IF g \in dead THEN wild[g] ELSE FieldsOf(g)]
              payload == PayloadOf(list, fields)
              complete == HasLast(list, fields)
              valid == /\ HeaderBlocks + payload <= MaxDatagram
                       /\ Valid(list, fields, payload)
          IN  /\ pool' = PoolAfter(r.key, list, complete, valid)
              /\ delivered' =
                    IF complete /\ valid /\ payload > 0
                    THEN Append(delivered,
                           [key |-> r.key, from |-> list, intact |-> dead = {},
                            blocks |-> Reassembled(list, fields, payload, f, bytes)])
                    ELSE delivered

\* One turn of loadPcap's loop: pcap_next_ex, the Frame with all its packets,
\* ParseFrame, push_back.
NextRecord ==
    /\ next # 0 /\ next <= Len(loads[Len(loads)])
    /\ LET f == <<Len(loads), next>>
           bytes == Overwritten(Record(f).blocks)
       IN  /\ buffer' = bytes
           /\ frames' = Append(frames, f)
           /\ next' = next + 1
           /\ IF IsFragment(Record(f)) THEN Collect(f, bytes) ELSE UNCHANGED <<pool, delivered>>
    /\ UNCHANGED <<loads, keysBefore>>

\* pcap_close: the frames' bytes are gone, the frames stay.
Close ==
    /\ next # 0 /\ next > Len(loads[Len(loads)])
    /\ next' = 0
    /\ buffer' = << >>
    /\ UNCHANGED <<loads, frames, pool, delivered, keysBefore>>

\* onClear deletes the frames and with them their packets; not the pool.  The
\* GUI thread that loads a file does not handle the menu meanwhile.
OnClear ==
    /\ next = 0 /\ frames # << >>
    /\ frames' = << >>
    /\ UNCHANGED <<loads, next, buffer, pool, delivered, keysBefore>>

Next ==
    \/ \E file \in Files : Open(file)
    \/ NextRecord
    \/ Close
    \/ OnClear

Spec == Init /\ [][Next]_vars

----------------------------------------------------------------------------
TypeOK ==
    /\ loads \in Seq(Files) /\ Len(loads) <= MaxLoads
    /\ next \in Nat
    /\ next # 0 => loads # << >> /\ next <= Len(loads[Len(loads)]) + 1
    /\ frames \in Seq(Frame)
    /\ pool \in Seq(Entry) /\ Len(pool) <= PoolSize
    /\ \A n \in DOMAIN delivered : delivered[n].from \in Seq(Frame)

\* The fragments that wait in the pool are those of datagrams whose last one
\* has not come: when it comes they leave, reassembled, malformed or too long.
PoolHoldsUnfinished ==
    \A i \in DOMAIN pool : \A f \in ElementsOf(pool[i].packets) : Record(f).more

\* The blocks that a fragment of a datagram stands for.
Extent(f) == Record(f).offset..(Record(f).offset + LengthOf(Record(f)) - 1)
Overlapping(list) ==
    \E i, j \in DOMAIN list : i # j /\ Extent(list[i]) \cap Extent(list[j]) # {}

\* The code tests neither for holes nor for overlaps, it compares a sum of
\* lengths with where fragments end.  That is enough for a datagram without
\* holes as long as no two of its fragments overlap.
Whole(d) ==
    d.intact => \/ Overlapping(d.from)
                \/ UNION {Extent(d.from[i]) : i \in DOMAIN d.from} = DOMAIN d.blocks
DeliveredWhole == \A n \in DOMAIN delivered : Whole(delivered[n])

\* No captured fragment is part of two datagrams, although the pool survives
\* the load and identifiers are used again.
FragmentUsedOnce ==
    \A m, n \in DOMAIN delivered :
        m # n => ElementsOf(delivered[m].from) \cap ElementsOf(delivered[n].from) = {}

\* The identifiers of a file's fragments, the fragments of one of them, and
\* whether they are one datagram, complete and captured in order: each begins
\* where those before it end.
KeysIn(file) == {file[i].key : i \in {j \in DOMAIN file : IsFragment(file[j])}}
FragmentsIn(file, key) == {i \in DOMAIN file : IsFragment(file[i]) /\ file[i].key = key}
Lengths(file, key) == [i \in FragmentsIn(file, key) |-> LengthOf(file[i])]
InOrder(file, key) ==
    LET is == FragmentsIn(file, key)
        length == Lengths(file, key)
        payload == SumOf(is, length)
    IN  /\ \A i \in is : file[i].offset = SumOf({j \in is : j < i}, length)
        /\ \A i \in is : file[i].more = (file[i].offset + length[i] # payload)
        /\ HeaderBlocks + payload <= MaxDatagram

\* A datagram whose fragments were captured in order is reassembled by the end
\* of the file, from exactly these fragments, when no more identifiers are
\* under way than the pool holds and no earlier file left some of its key.
InOrderCompletes ==
    next # 0 /\ next > Len(loads[Len(loads)]) =>
      LET l == Len(loads)
          keys == KeysIn(loads[l])
      IN  Cardinality(keys) <= PoolSize =>
            \A key \in keys \ keysBefore :
                InOrder(loads[l], key) =>
                    \E n \in DOMAIN delivered :
                        ElementsOf(delivered[n].from) = {<<l, i>> : i \in FragmentsIn(loads[l], key)}

\* What a frame's data pointer leads to is the frame's data for as long as the
\* frame is used: a reassembled datagram holds the bytes that were captured.
FrameDataStored ==
    \A n \in DOMAIN delivered :
        LET d == delivered[n]
        IN  d.intact /\ ~Overlapping(d.from) =>
              \A i \in DOMAIN d.from : \A b \in Extent(d.from[i]) :
                  d.blocks[b] = Record(d.from[i]).blocks[b - Record(d.from[i]).offset + 1]
=============================================================================
