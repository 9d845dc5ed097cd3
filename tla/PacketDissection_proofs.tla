----------------------- MODULE PacketDissection_proofs -----------------------
(***************************************************************************)
(* Theorems about PacketDissection: layers nest and are kept in order, for *)
(* frames of any length and whatever the length fields say.                *)
(***************************************************************************)
EXTENDS PacketDissection, SequenceFacts

Classes ==
    {"none", "Ethernet2", "Vlan", "Mpls", "Erspan", "PPPoE", "PPP", "PPPNotRead", "LLC", "HpSwitch",
     "HpSwField", "CiscoHdlc", "Sll", "Sll2", "NullLoopback", "Erf", "IEEE_802_11", "Radiotap", "Prism",
     "Ppi", "PpiOfItself", "Tzsp", "IPv4", "IPv6", "ARP", "TCP", "UDP", "ICMP", "Raw", "Application",
     "NetBiosName", "NetBiosSession", "NetBiosDatagram", "Tpkt", "Capwap", "FTP", "DNS",
     "FTPOnNul", "DNSOfItself", "NetBiosOfWrap"}

PacketSet == [kind : Classes, frame : {"captured", "reassembled"}, start : Int, end : Int, header : Nat]

TypeInv ==
    /\ length \in Nat /\ reassembled \in Nat
    /\ walk \in Seq(PacketSet)
    /\ current \in PacketSet

\* The current packet is the last of the walk, or a HP switch packet with its
\* fields behind it, or the datagram just put together.
At(j) ==
    /\ j \in DOMAIN walk /\ walk[j] = current
    /\ \A i \in DOMAIN walk : i > j => walk[i].kind = "HpSwField" /\ current.start < walk[i].start
    /\ \A i \in DOMAIN walk : i <= j => walk[i].kind # "HpSwField"
    /\ current.kind = "HpSwitch" \/ j = Len(walk)

CurrentInv ==
    /\ current.end < DataLength(current.frame)
    /\ current.frame = "captured" => \A i \in DOMAIN walk : walk[i].frame = "captured"
    /\ current.frame = "reassembled" => reassembled > 0
    /\ current.kind = "PpiOfItself" => current.start <= current.end + 5 /\ SaysEmpty(current)
    /\ \/ \E j \in DOMAIN walk : At(j)
       \/ /\ current.frame = "reassembled" /\ current.kind = "IPv4"
          /\ \A i \in DOMAIN walk : walk[i].frame = "captured" /\ walk[i].kind # "HpSwField"

NestInv ==
    \A i \in DOMAIN walk :
        /\ walk[i].end < DataLength(walk[i].frame)
        /\ walk[i].kind = "HpSwField" => /\ walk[i].start <= walk[i].end
                                         /\ \E j \in 1..(i - 1) : walk[j].kind = "HpSwitch"
        /\ i > 1 /\ walk[i].frame = Enclosing(i).frame =>
              /\ walk[i].start \in Enclosing(i).start .. Enclosing(i).end + 5
              /\ walk[i].kind \in {"HpSwField", "NetBiosSession", "FTP"} \/ walk[i].end <= Enclosing(i).end

OrderInv ==
    reassembled = 0 =>
        \A i, j \in DOMAIN walk : i < j =>
            /\ walk[i].start <= walk[j].start
            /\ ~SaysEmpty(walk[i]) => walk[i].start < walk[j].start

Read == "PPPNotRead" \notin Kinds

\* The walk is in a packet's GetSubPackets.
Walking == current # NoPacket /\ current.kind \notin StuckKinds

IInv ==
    /\ TypeInv
    /\ Read => NestInv /\ OrderInv
    /\ Read /\ Walking => CurrentInv

----------------------------------------------------------------------------
\* Max is the greatest element, of positions that there are.
LEMMA MaxFacts ==
    ASSUME NEW n \in Nat, NEW T \in SUBSET (1..n), T # {}
    PROVE  Max(T) \in T /\ \A j \in T : j <= Max(T)
  <1>1. PICK m \in T : \A j \in T : j <= m
    BY GreatestPosition
  <1>2. \A i, j \in T : i >= j <=> j <= i
    OBVIOUS
  <1>3. \E x \in T : \A y \in T : x >= y
    BY <1>1, <1>2
  <1>4. Max(T) \in T /\ \A y \in T : Max(T) >= y
    BY <1>3 DEF Max
  <1> QED BY <1>2, <1>4

LEMMA MaxIs ==
    ASSUME NEW n \in Nat, NEW T \in SUBSET (1..n), NEW m \in T, \A j \in T : j <= m
    PROVE  Max(T) = m
  <1>1. Max(T) \in T /\ m <= Max(T) /\ Max(T) <= m
    BY MaxFacts
  <1>2. T \subseteq Int
    OBVIOUS
  <1>3. \A x, y \in Int : x <= y /\ y <= x => x = y
    OBVIOUS
  <1> QED BY <1>1, <1>2, <1>3

LEMMA PacketIs ==
    ASSUME NEW k \in Classes, NEW f \in {"captured", "reassembled"}, NEW s \in Int, NEW e \in Int
    PROVE  [kind |-> k, frame |-> f, start |-> s, end |-> e, header |-> 0] \in PacketSet
  BY DEF PacketSet

\* What a constructor makes of a range.
LEMMA SettingEnd ==
    ASSUME NEW q \in PacketSet, NEW value \in Int, NEW size \in Nat,
           NEW p, p = SetPacketEndIndex(q, value, size)
    PROVE  /\ p \in PacketSet
           /\ p.kind = q.kind /\ p.frame = q.frame /\ p.start = q.start
           /\ p.end = q.end \/ (p.end = value /\ q.start <= value /\ value < size)
  BY DEF SetPacketEndIndex, PacketSet

LEMMA Constructing ==
    ASSUME NEW kind \in Classes, NEW frame \in {"captured", "reassembled"},
           NEW start \in Int, NEW end \in Int, NEW size \in Nat,
           NEW p \in Constructed(kind, frame, start, end, size)
    PROVE  /\ p \in PacketSet /\ p.frame = frame /\ p.start = start
           /\ p.kind = kind \/ (kind = "PPP" /\ p.kind = "PPPNotRead")
           /\ kind \notin {"HpSwField", "NetBiosSession", "FTP"} => p.end <= end
           /\ end < size /\ (kind = "NetBiosSession" => start + 4 <= size) => p.end < size
           /\ kind = "HpSwField" /\ start <= end => start <= p.end
           /\ kind = "PpiOfItself" => p.end = end /\ SaysEmpty(p)
  <1> DEFINE q == Packet(kind, frame, start, end)
  <1>0. q \in PacketSet /\ q = [kind |-> kind, frame |-> frame, start |-> start, end |-> end, header |-> 0]
    BY DEF Packet, PacketSet
  <1> HIDE DEF q
  <1>1. CASE kind \in {"IPv4", "IPv6", "UDP"}
    <2>1. p \in Clipped(q, size)
      BY <1>1 DEF Constructed, Elastic, q
    <2>2. CASE p = q
      BY <2>2, <1>0, <1>1
    <2>3. CASE p # q
      <3>1. PICK n \in Lengths : p = SetPacketEndIndex(q, start + n - 1, size) /\ n < end - start + 1
        BY <2>1, <2>3, <1>0 DEF Clipped
      <3>2. n \in Nat
        BY LengthsAssumption
      <3>3. start + n - 1 \in Int /\ start + n - 1 < end
        BY <3>1, <3>2
      <3>4. /\ p \in PacketSet /\ p.kind = q.kind /\ p.frame = q.frame /\ p.start = q.start
            /\ p.end = q.end \/ (p.end = start + n - 1 /\ start + n - 1 < size)
        BY <3>1, <3>3, <1>0, SettingEnd
      <3> QED BY <3>3, <3>4, <1>0, <1>1
    <2> QED BY <2>2, <2>3
  <1>2. CASE kind = "PPP"
    <2>1. p \in PointToPoints(q)
      BY <1>2 DEF Constructed, Elastic, q
    <2>2. CASE p = q
      BY <2>2, <1>2, <1>0
    <2>3. CASE p = [q EXCEPT !.kind = "PPPNotRead"]
      <3>1. p.kind = "PPPNotRead" /\ p.frame = q.frame /\ p.start = q.start /\ p.end = q.end /\ p \in PacketSet
        <4>1. p = [kind |-> "PPPNotRead", frame |-> frame, start |-> start, end |-> end, header |-> 0]
          BY <2>3, <1>0
        <4>2. p \in PacketSet
          <5>1. "PPPNotRead" \in Classes
            BY DEF Classes
          <5> QED BY <4>1, <5>1, PacketIs
        <4> QED BY <4>1, <4>2, <1>0
      <3> QED BY <3>1, <1>2, <1>0
    <2> QED BY <2>1, <2>2, <2>3 DEF PointToPoints
  <1>3. CASE kind = "HpSwField"
    <2>1. p \in HpSwFields(q, size)
      BY <1>3 DEF Constructed, Elastic, q
    <2>2. CASE p = q
      BY <2>2, <1>0, <1>3
    <2>3. CASE p # q
      <3>1. PICK n \in Lengths : p = SetPacketEndIndex(q, start + 1 + n, size)
        BY <2>1, <2>3, <1>0 DEF HpSwFields
      <3>2. n \in Nat
        BY LengthsAssumption
      <3>3. start + 1 + n \in Int /\ start <= start + 1 + n
        BY <3>2
      <3>4. /\ p \in PacketSet /\ p.kind = q.kind /\ p.frame = q.frame /\ p.start = q.start
            /\ p.end = q.end \/ (p.end = start + 1 + n /\ start + 1 + n < size)
        BY <3>1, <3>3, <1>0, SettingEnd
      <3> QED BY <3>3, <3>4, <1>0, <1>3
    <2> QED BY <2>2, <2>3
  <1>4. CASE kind = "NetBiosSession"
    <2>1. p \in NetBiosSessions(q, size)
      BY <1>4 DEF Constructed, Elastic, q
    <2>2. CASE p = [q EXCEPT !.end = start + 3]
      BY <2>2, <1>0, <1>4 DEF PacketSet
    <2>3. CASE p # [q EXCEPT !.end = start + 3]
      <3>1. PICK n \in Lengths :
                /\ p = SetPacketEndIndex([q EXCEPT !.end = start + n + 3], start + n - 1, size)
                /\ n = end - start - 3 \/ start + n + 4 < size
        BY <2>1, <2>3, <1>0 DEF NetBiosSessions
      <3>2. n \in Nat
        BY LengthsAssumption
      <3> DEFINE r == [q EXCEPT !.end = start + n + 3]
      <3>3. /\ r \in PacketSet /\ r.kind = kind /\ r.frame = frame /\ r.start = start
            /\ r.end = start + n + 3 /\ start + n - 1 \in Int
        BY <3>2, <1>0 DEF PacketSet
      <3>4. p = SetPacketEndIndex(r, start + n - 1, size)
        BY <3>1
      <3> HIDE DEF r
      <3>5. /\ p \in PacketSet /\ p.kind = r.kind /\ p.frame = r.frame /\ p.start = r.start
            /\ p.end = r.end \/ (p.end = start + n - 1 /\ start + n - 1 < size)
        BY <3>3, <3>4, SettingEnd
      <3>6. end < size => start + n + 3 < size
        BY <3>1, <3>2
      <3> QED BY <3>3, <3>5, <3>6, <1>4
    <2> QED BY <2>2, <2>3
  <1>5. CASE kind = "FTP"
    <2>1. p \in FtpPackets(q, size)
      BY <1>5 DEF Constructed, Elastic, q
    <2>2. CASE p = q
      BY <2>2, <1>0, <1>5
    <2>3. CASE p # q
      <3>1. PICK n \in Lengths : p = SetPacketEndIndex(q, start + n - 1, size)
        BY <2>1, <2>3, <1>0 DEF FtpPackets
      <3>2. start + n - 1 \in Int
        BY LengthsAssumption
      <3>3. /\ p \in PacketSet /\ p.kind = q.kind /\ p.frame = q.frame /\ p.start = q.start
            /\ p.end = q.end \/ (p.end = start + n - 1 /\ start + n - 1 < size)
        BY <3>1, <3>2, <1>0, SettingEnd
      <3> QED BY <3>2, <3>3, <1>0, <1>5
    <2> QED BY <2>2, <2>3
  <1>6. CASE kind \in Elastic
    <2>1. PICK n \in HeadersSaid(kind, start, size) : p = [q EXCEPT !.header = n]
      BY <1>6 DEF Constructed, Elastic, q
    <2>2. n \in Nat
      BY <1>6, LengthsAssumption DEF HeadersSaid, HeaderLengths, Elastic
    <2>3. p = [kind |-> kind, frame |-> frame, start |-> start, end |-> end, header |-> n]
      BY <2>1, <1>0
    <2>4. p \in PacketSet
      BY <2>2, <2>3 DEF PacketSet
    <2>5. kind = "PpiOfItself" => n = 0
      BY <2>1 DEF HeadersSaid
    <2>6. kind \notin {"PPP", "HpSwField", "NetBiosSession", "FTP"}
      BY <1>6 DEF Elastic
    <2>7. p.kind = kind /\ p.frame = frame /\ p.start = start /\ p.end = end /\ p.header = n
      BY <2>3
    <2>8. SaysEmpty(p) <=> p.kind \in Elastic /\ p.header = 0
      BY DEF SaysEmpty
    <2>9. kind = "PpiOfItself" => SaysEmpty(p)
      BY <1>6, <2>5, <2>7, <2>8
    <2> HIDE DEF q
    <2> QED BY <2>4, <2>6, <2>7, <2>9
  <1>7. CASE /\ kind \notin {"IPv4", "IPv6", "UDP", "PPP", "HpSwField", "NetBiosSession", "FTP"}
             /\ kind \notin Elastic
    <2>1. p = q
      BY <1>7 DEF Constructed, q
    <2>2. kind # "PpiOfItself"
      BY <1>7 DEF Elastic
    <2> QED BY <2>1, <2>2, <1>0, <1>7
  <1> QED BY <1>1, <1>2, <1>3, <1>4, <1>5, <1>6, <1>7

----------------------------------------------------------------------------
\* What a packet must be to be put behind the walk.
Fitting(p) ==
    /\ p.frame = current.frame /\ p.end < DataLength(p.frame)
    /\ p.start \in current.start .. current.end + 5
    /\ p.kind \notin {"HpSwField", "NetBiosSession", "FTP"} => p.end <= current.end
    /\ ~SaysEmpty(current) => current.start < p.start
    /\ p.kind = "HpSwField" => /\ current.kind = "HpSwitch" /\ p.start <= p.end
                               /\ walk # << >> /\ walk[Len(walk)].start < p.start
    /\ p.kind # "HpSwField" => current.kind # "HpSwitch"

LEMMA AppendingNests ==
    ASSUME TypeInv, NestInv, CurrentInv, NEW p \in PacketSet, Fitting(p),
           walk' = Append(walk, p), UNCHANGED <<length, reassembled>>
    PROVE  NestInv'
  <1>0. ASSUME NEW i
        PROVE  /\ walk'[i].kind # "HpSwField" => Enclosing(i)' = walk'[i - 1]
               /\ walk'[i].kind = "HpSwField" =>
                     Enclosing(i)' = walk'[Max({j \in 1..(i - 1) : walk'[j].kind = "HpSwitch"})]
    BY DEF Enclosing
  <1>1. PICK n \in Nat :
        /\ n = Len(walk) /\ DOMAIN walk = 1..n /\ DOMAIN walk' = 1..(n + 1)
        /\ \A i \in 1..n : walk[i] \in PacketSet /\ walk'[i] = walk[i]
        /\ walk'[n + 1] = p /\ walk' \in Seq(PacketSet)
    <2>1. walk \in Seq(PacketSet)
      BY DEF TypeInv
    <2> QED BY <2>1, AppendFacts
  <1>m. PICK m \in Nat : m = n + 1
    BY <1>1
  <1>2. \A frame : DataLength(frame)' = DataLength(frame)
    BY DEF DataLength
  <1>3. ASSUME NEW i \in 1..n
        PROVE  /\ walk[i].kind = "HpSwField" => \E j \in 1..(i - 1) : walk[j].kind = "HpSwitch"
               /\ i > 1 \/ walk[i].kind = "HpSwField" => Enclosing(i)' = Enclosing(i)
    <2> DEFINE T == {j \in 1..(i - 1) : walk[j].kind = "HpSwitch"}
    <2>1. walk[i].kind = "HpSwField" => \E j \in 1..(i - 1) : walk[j].kind = "HpSwitch"
      BY <1>1 DEF NestInv
    <2>2. {j \in 1..(i - 1) : walk[j].kind = "HpSwitch"}' = T
      <3>1. \A j \in 1..(i - 1) : walk'[j] = walk[j]
        BY <1>1
      <3> QED BY <3>1
    <2>3. CASE walk[i].kind = "HpSwField"
      <3>1. i - 1 \in Nat /\ T \in SUBSET (1..(i - 1)) /\ T # {}
        BY <2>1, <2>3, <1>1
      <3>2. Max(T) \in T
        <4> HIDE DEF T
        <4> QED BY <3>1, MaxFacts
      <3>3. Max(T) \in 1..n
        <4>1. \A j \in 1..(i - 1) : j \in 1..n
          OBVIOUS
        <4>2. T \subseteq 1..n
          BY <4>1
        <4> HIDE DEF T
        <4> QED BY <3>2, <4>2
      <3>4. Enclosing(i) = walk[Max(T)] /\ Enclosing(i)' = walk'[Max(T)]
        BY <2>2, <2>3, <1>1 DEF Enclosing
      <3> QED BY <2>1, <3>3, <3>4, <1>1
    <2>4. CASE walk[i].kind # "HpSwField"
      BY <2>4, <1>1 DEF Enclosing
    <2> QED BY <2>3, <2>4
  <1>4. ASSUME NEW i \in 1..n
        PROVE  /\ walk'[i].end < DataLength(walk'[i].frame)
               /\ walk'[i].kind = "HpSwField" =>
                     /\ walk'[i].start <= walk'[i].end
                     /\ \E j \in 1..(i - 1) : walk'[j].kind = "HpSwitch"
               /\ i > 1 /\ walk'[i].frame = Enclosing(i)'.frame =>
                     /\ walk'[i].start \in Enclosing(i)'.start .. Enclosing(i)'.end + 5
                     /\ \/ walk'[i].kind \in {"HpSwField", "NetBiosSession", "FTP"}
                        \/ walk'[i].end <= Enclosing(i)'.end
    <2>1. walk'[i] = walk[i] /\ \A j \in 1..(i - 1) : walk'[j] = walk[j]
      BY <1>1
    <2> QED BY <2>1, <1>1, <1>3 DEF NestInv
  <1>5. p.kind = "HpSwField" => \E j \in 1..n : walk[j].kind = "HpSwitch"
    BY <1>1 DEF Fitting, CurrentInv, At
  <1>6. n + 1 > 1 /\ p.frame = Enclosing(m)'.frame => Enclosing(m)' = current
    <2>1. CASE p.kind = "HpSwField"
      <3>1. PICK j \in 1..n : At(j)
        BY <2>1, <1>1 DEF Fitting, CurrentInv
      <3> DEFINE T == {i \in 1..n : walk[i].kind = "HpSwitch"}
      <3>2. j \in T /\ \A i \in T : i <= j
        BY <3>1, <2>1, <1>1 DEF At, Fitting
      <3>3. Max(T) = j
        <4>1. T \in SUBSET (1..n)
          OBVIOUS
        <4> HIDE DEF T
        <4> QED BY <4>1, <3>2, <1>1, MaxIs
      <3>4. {i \in 1..n : walk'[i].kind = "HpSwitch"} = T
        BY <1>1
      <3>5. Enclosing(m)' = walk'[Max(T)]
        <4>1. walk'[m].kind = "HpSwField" /\ m - 1 = n
          BY <2>1, <1>1, <1>m
        <4>2. Enclosing(m)' = walk'[Max({i \in 1..(m - 1) : walk'[i].kind = "HpSwitch"})]
          BY <4>1, <1>0
        <4> QED BY <3>4, <4>1, <4>2
      <3> QED BY <3>1, <3>3, <3>5, <1>1 DEF At
    <2>2. CASE p.kind # "HpSwField"
      <3>1. Enclosing(m)' = walk'[n]
        <4>1. walk'[m].kind # "HpSwField" /\ m - 1 = n
          BY <2>2, <1>1, <1>m
        <4>2. Enclosing(m)' = walk'[m - 1]
          BY <4>1, <1>0
        <4> QED BY <4>1, <4>2
      <3>2. current.kind # "HpSwitch"
        BY <2>2 DEF Fitting
      <3>3. CASE \E j \in DOMAIN walk : At(j)
        <4>1. n \in 1..n /\ walk[n] = current
          BY <3>2, <3>3, <1>1 DEF At
        <4> QED BY <3>1, <4>1, <1>1
      <3>4. CASE current.frame = "reassembled" /\ \A i \in DOMAIN walk : walk[i].frame = "captured"
        BY <3>1, <3>4, <1>1 DEF Fitting
      <3> QED BY <3>3, <3>4 DEF CurrentInv
    <2> QED BY <2>1, <2>2
  <1>7. /\ p.end < DataLength(p.frame)
        /\ p.kind = "HpSwField" => p.start <= p.end /\ \E j \in 1..n : walk'[j].kind = "HpSwitch"
        /\ n + 1 > 1 /\ p.frame = Enclosing(m)'.frame =>
              /\ p.start \in Enclosing(m)'.start .. Enclosing(m)'.end + 5
              /\ p.kind \in {"HpSwField", "NetBiosSession", "FTP"} \/ p.end <= Enclosing(m)'.end
    BY <1>1, <1>5, <1>6 DEF Fitting
  <1>8. ASSUME NEW i \in 1..(n + 1)
        PROVE  /\ walk'[i].end < DataLength(walk'[i].frame)
               /\ walk'[i].kind = "HpSwField" =>
                     /\ walk'[i].start <= walk'[i].end
                     /\ \E j \in 1..(i - 1) : walk'[j].kind = "HpSwitch"
               /\ i > 1 /\ walk'[i].frame = Enclosing(i)'.frame =>
                     /\ walk'[i].start \in Enclosing(i)'.start .. Enclosing(i)'.end + 5
                     /\ \/ walk'[i].kind \in {"HpSwField", "NetBiosSession", "FTP"}
                        \/ walk'[i].end <= Enclosing(i)'.end
    <2>1. CASE i \in 1..n
      BY <2>1, <1>4
    <2>2. CASE i \notin 1..n
      <3>1. i = n + 1 /\ i - 1 = n /\ i = m
        BY <2>2, <1>1, <1>m
      <3>2. walk'[i] = p
        BY <3>1, <1>1
      <3>3. Enclosing(i)' = Enclosing(m)'
        BY <3>1, Zenon
      <3>4. i > 1 <=> n + 1 > 1
        BY <3>1
      <3>5. p.kind = "HpSwField" => p.start <= p.end /\ \E j \in 1..(i - 1) : walk'[j].kind = "HpSwitch"
        BY <3>1, <1>7
      <3> QED BY <3>2, <3>3, <3>4, <3>5, <1>7
    <2> QED BY <2>1, <2>2
  <1> QED BY <1>1, <1>2, <1>8 DEF NestInv

LEMMA AppendingOrders ==
    ASSUME TypeInv, OrderInv, CurrentInv, NEW p \in PacketSet, Fitting(p),
           walk' = Append(walk, p), UNCHANGED <<length, reassembled>>
    PROVE  OrderInv'
  <1>1. PICK n \in Nat :
        /\ n = Len(walk) /\ DOMAIN walk = 1..n /\ DOMAIN walk' = 1..(n + 1)
        /\ \A i \in 1..n : walk[i] \in PacketSet /\ walk'[i] = walk[i]
        /\ walk'[n + 1] = p
    <2>1. walk \in Seq(PacketSet)
      BY DEF TypeInv
    <2> QED BY <2>1, AppendFacts
  <1>2. SUFFICES ASSUME reassembled = 0
                 PROVE  \A i, j \in 1..(n + 1) : i < j =>
                            /\ walk'[i].start <= walk'[j].start
                            /\ ~SaysEmpty(walk'[i]) => walk'[i].start < walk'[j].start
    BY <1>1 DEF OrderInv
  <1>3. /\ p.start \in Int /\ current.start \in Int
        /\ \A i \in 1..n : walk[i].start \in Int
    BY <1>1 DEF TypeInv, PacketSet
  <1>4. \A i, j \in 1..n : i < j =>
            /\ walk[i].start <= walk[j].start
            /\ ~SaysEmpty(walk[i]) => walk[i].start < walk[j].start
    BY <1>1, <1>2 DEF OrderInv
  <1>5. PICK k \in 1..n : At(k)
    BY <1>1, <1>2, SMT DEF CurrentInv, TypeInv, PacketSet
  <1>6. /\ walk[n].start <= p.start
        /\ ~SaysEmpty(walk[n]) => walk[n].start < p.start
    <2>1. CASE p.kind = "HpSwField"
      BY <2>1, <1>1, <1>3, <1>5 DEF Fitting
    <2>2. CASE p.kind # "HpSwField"
      <3>1. walk[n] = current
        BY <2>2, <1>1, <1>5 DEF Fitting, At
      <3>2. current.start <= p.start /\ (~SaysEmpty(current) => current.start < p.start)
        BY <1>3 DEF Fitting, TypeInv, PacketSet
      <3> QED BY <3>1, <3>2
    <2> QED BY <2>1, <2>2
  <1>7. ASSUME NEW i \in 1..n
        PROVE  /\ walk[i].start <= p.start
               /\ ~SaysEmpty(walk[i]) => walk[i].start < p.start
    <2>1. CASE i = n
      BY <2>1, <1>6
    <2>2. CASE i # n
      <3>1. n \in 1..n /\ i < n
        BY <2>2, <1>1
      <3>2. /\ walk[i].start <= walk[n].start
            /\ ~SaysEmpty(walk[i]) => walk[i].start < walk[n].start
        BY <3>1, <1>4
      <3>3. walk[i].start \in Int /\ walk[n].start \in Int /\ p.start \in Int
        BY <3>1, <1>3
      <3> QED BY <3>2, <3>3, <1>6
    <2> QED BY <2>1, <2>2
  <1> QED
    <2> TAKE i, j \in 1..(n + 1)
    <2> HAVE i < j
    <2>1. i \in 1..n /\ walk'[i] = walk[i]
      BY <1>1
    <2>2. CASE j = n + 1
      BY <2>1, <2>2, <1>1, <1>7
    <2>3. CASE j # n + 1
      <3>1. j \in 1..n /\ walk'[j] = walk[j]
        BY <2>3, <1>1
      <3> QED BY <2>1, <3>1, <1>4
    <2> QED BY <2>2, <2>3

\* The invariant after a packet that is entered, or a field that is added.
LEMMA AppendingKeepsCurrent ==
    ASSUME TypeInv, CurrentInv, NEW p \in PacketSet, Fitting(p), p.kind # "none",
           walk' = Append(walk, p), UNCHANGED <<length, reassembled>>,
           p.kind = "PpiOfItself" => p.start <= p.end + 5 /\ SaysEmpty(p),
           IF p.kind = "HpSwField" THEN UNCHANGED current ELSE current' = p
    PROVE  CurrentInv'
  <1>1. PICK n \in Nat :
        /\ n = Len(walk) /\ DOMAIN walk = 1..n /\ DOMAIN walk' = 1..(n + 1)
        /\ \A i \in 1..n : walk[i] \in PacketSet /\ walk'[i] = walk[i]
        /\ walk'[n + 1] = p /\ Len(walk') = n + 1
    <2>1. walk \in Seq(PacketSet)
      BY DEF TypeInv
    <2> QED BY <2>1, AppendFacts
  <1>2. (current.end < DataLength(current.frame))'
    BY DEF DataLength, CurrentInv, Fitting
  <1>3. p.frame = current.frame
    BY DEF Fitting
  <1>4. current'.frame = "captured" => \A i \in 1..(n + 1) : walk'[i].frame = "captured"
    BY <1>1, <1>3 DEF CurrentInv
  <1>5. CASE p.kind = "HpSwField"
    <2>1. PICK j \in 1..n : At(j)
      BY <1>5, <1>1 DEF Fitting, CurrentInv
    <2>2. current.start < p.start
      BY <1>5 DEF Fitting, Elastic, SaysEmpty
    <2>3. At(j)'
      <3>1. j \in 1..(n + 1) /\ walk'[j] = current' /\ current' = current
        BY <2>1, <1>1, <1>5 DEF At
      <3>2. ASSUME NEW i \in 1..(n + 1), i > j PROVE walk'[i].kind = "HpSwField" /\ current.start < walk'[i].start
        BY <3>2, <2>1, <2>2, <1>1, <1>5 DEF At
      <3>3. ASSUME NEW i \in 1..(n + 1), i <= j PROVE walk'[i].kind # "HpSwField"
        BY <3>3, <2>1, <1>1 DEF At
      <3>4. current.kind = "HpSwitch"
        BY <1>5 DEF Fitting
      <3> QED BY <3>1, <3>2, <3>3, <3>4, <1>1 DEF At
    <2>4. j \in DOMAIN walk'
      BY <1>1
    <2>5. /\ current'.frame = "reassembled" => reassembled' > 0
          /\ current'.kind = "PpiOfItself" => current'.start <= current'.end + 5 /\ SaysEmpty(current)'
      BY <1>5 DEF CurrentInv, SaysEmpty
    <2> QED BY <2>3, <2>4, <2>5, <1>1, <1>2, <1>4 DEF CurrentInv
  <1>6. CASE p.kind # "HpSwField"
    <2>1. \A i \in 1..n : walk[i].kind # "HpSwField"
      BY <1>1, <1>6 DEF CurrentInv, At, Fitting
    <2>2. PICK j \in Nat : j = n + 1
      BY <1>1
    <2>3. At(j)'
      <3>1. j \in 1..(n + 1) /\ walk'[j] = current' /\ j = Len(walk')
        BY <2>2, <1>1, <1>6
      <3>2. ASSUME NEW i \in 1..(n + 1) PROVE walk'[i].kind # "HpSwField" /\ ~(i > j)
        BY <2>1, <2>2, <1>1, <1>6
      <3> QED BY <3>1, <3>2, <1>1 DEF At
    <2>4. j \in DOMAIN walk'
      BY <2>2, <1>1
    <2>5. /\ current'.frame = "reassembled" => reassembled' > 0
          /\ current'.kind = "PpiOfItself" => current'.start <= current'.end + 5 /\ SaysEmpty(current)'
      BY <1>3, <1>6 DEF CurrentInv, SaysEmpty
    <2> QED BY <2>3, <2>4, <2>5, <1>1, <1>2, <1>4 DEF CurrentInv
  <1> QED BY <1>5, <1>6

----------------------------------------------------------------------------
\* The classes of packets that a payload can be.
Payloads == Classes \ ({"none", "HpSwField", "PPPNotRead"} \cup StuckKinds)

\* What holds of the walk stays when no packet is read any more.
LEMMA NotReadStays ==
    ASSUME TypeInv, NEW p \in PacketSet, walk' = Append(walk, p)
    PROVE  /\ ~Read => ~Read'
           /\ p.kind = "PPPNotRead" => ~Read'
  <1>1. walk \in Seq(PacketSet)
    BY DEF TypeInv
  <1>2. /\ Len(walk) \in Nat /\ DOMAIN walk = 1..Len(walk)
        /\ DOMAIN walk' = 1..(Len(walk) + 1)
        /\ \A i \in 1..Len(walk) : walk'[i] = walk[i]
        /\ walk'[Len(walk) + 1] = p
    BY <1>1, AppendFacts
  <1>3. Kinds' = {walk'[i].kind : i \in DOMAIN walk'}
    BY DEF Kinds
  <1>4. \A i \in DOMAIN walk : walk[i].kind \in Kinds'
    BY <1>2, <1>3
  <1>5. p.kind \in Kinds'
    BY <1>2, <1>3
  <1> QED BY <1>4, <1>5 DEF Read, Kinds

LEMMA Appending ==
    ASSUME IInv, Walking, NEW p \in PacketSet, p.kind # "none",
           Read /\ p.kind # "PPPNotRead" => Fitting(p),
           Read /\ p.kind = "PpiOfItself" => p.start <= p.end + 5 /\ SaysEmpty(p),
           walk' = Append(walk, p), UNCHANGED <<length, reassembled>>,
           IF p.kind = "HpSwField" THEN UNCHANGED current ELSE current' = p
    PROVE  IInv'
  <1>1. TypeInv'
    <2>1. walk' \in Seq(PacketSet)
      BY AppendFacts DEF IInv, TypeInv
    <2>2. current' \in PacketSet
      BY DEF IInv, TypeInv
    <2> QED BY <2>1, <2>2 DEF IInv, TypeInv
  <1>2. CASE ~Read'
    BY <1>1, <1>2 DEF IInv
  <1>3. CASE Read'
    <2>1. TypeInv /\ Read /\ p.kind # "PPPNotRead"
      BY <1>3, NotReadStays DEF IInv
    <2>2. NestInv /\ OrderInv /\ CurrentInv /\ Fitting(p)
      BY <2>1 DEF IInv
    <2> QED BY <1>1, <2>1, <2>2, AppendingNests, AppendingOrders, AppendingKeepsCurrent DEF IInv
  <1> QED BY <1>2, <1>3

\* A step that leaves the walk and the lengths alone keeps the nesting.
LEMMA StutterNests ==
    ASSUME UNCHANGED <<length, reassembled, walk>>
    PROVE  NestInv => NestInv'
  <1>1. walk' = walk /\ length' = length /\ reassembled' = reassembled
    OBVIOUS
  <1>2. ASSUME NEW i
        PROVE  Enclosing(i)' = Enclosing(i)
    <2> DEFINE T == {j \in 1..(i - 1) : walk[j].kind = "HpSwitch"}
    <2>1. T' = T
      BY <1>1
    <2>2. Enclosing(i) = IF walk[i].kind = "HpSwField" THEN walk[Max(T)] ELSE walk[i - 1]
      BY DEF Enclosing
    <2>3. Enclosing(i)' = IF walk'[i].kind = "HpSwField" THEN walk'[Max(T')] ELSE walk'[i - 1]
      BY DEF Enclosing
    <2> HIDE DEF T
    <2> QED BY <1>1, <2>1, <2>2, <2>3
  <1>3. \A frame : DataLength(frame)' = DataLength(frame)
    BY <1>1 DEF DataLength
  <1>4. \A i : Enclosing(i)' = Enclosing(i)
    BY <1>2
  <1> QED BY <1>1, <1>3, <1>4 DEF NestInv

\* A constructor that does not return leaves the walk as it is.
LEMMA Sticking ==
    ASSUME IInv, NEW kind, NEW start \in Int, NEW end \in Int,
           NeverReturns(kind, start, end, DataLength(current.frame)),
           current' = Packet(Endless[kind], current.frame, start, end),
           UNCHANGED <<length, reassembled, walk>>
    PROVE  IInv'
  <1>1. Endless[kind] \in StuckKinds /\ Endless[kind] \in Classes
    BY DEF NeverReturns, Endless, StuckKinds, Classes
  <1>2. current' = [kind |-> Endless[kind], frame |-> current.frame, start |-> start, end |-> end, header |-> 0]
    BY DEF Packet
  <1>3. current.frame \in {"captured", "reassembled"}
    BY DEF IInv, TypeInv, PacketSet
  <1>4. current' \in PacketSet /\ current'.kind \in StuckKinds
    BY <1>1, <1>2, <1>3, PacketIs
  <1>5. TypeInv'
    BY <1>4 DEF IInv, TypeInv
  <1>6. Read' <=> Read
    BY DEF Read, Kinds
  <1>7. NestInv => NestInv'
    BY StutterNests
  <1>8. OrderInv => OrderInv'
    BY DEF OrderInv
  <1>9. ~Walking'
    BY <1>4 DEF Walking, StuckKinds
  <1> QED BY <1>5, <1>6, <1>7, <1>8, <1>9 DEF IInv

\* A packet that is entered, in a place that fits.
LEMMA Entering ==
    ASSUME IInv, Walking,
           NEW kind \in Payloads, NEW start \in Int, NEW end \in Int,
           Read => /\ start \in current.start .. current.end + 5
                   /\ end <= current.end
                   /\ ~SaysEmpty(current) => current.start < start
                   /\ kind = "NetBiosSession" => start + 4 <= DataLength(current.frame)
                   /\ current.kind # "HpSwitch",
           Read /\ kind = "PpiOfItself" => start <= end + 5,
           Enter(kind, start, end)
    PROVE  IInv'
  <1>1. /\ current.frame \in {"captured", "reassembled"} /\ DataLength(current.frame) \in Nat
        /\ current.end \in Int
    BY DEF IInv, TypeInv, PacketSet, DataLength
  <1>a. CASE /\ NeverReturns(kind, start, end, DataLength(current.frame))
             /\ current' = Packet(Endless[kind], current.frame, start, end)
             /\ UNCHANGED <<length, reassembled, walk>>
    BY <1>a, Sticking
  <1>b. SUFFICES ASSUME \E p \in Constructed(kind, current.frame, start, end, DataLength(current.frame)) :
                            walk' = Append(walk, p) /\ current' = p /\ UNCHANGED <<length, reassembled>>
                 PROVE  IInv'
    BY <1>a DEF Enter
  <1>2. PICK p \in Constructed(kind, current.frame, start, end, DataLength(current.frame)) :
            walk' = Append(walk, p) /\ current' = p /\ UNCHANGED <<length, reassembled>>
    BY <1>b
  <1>3. kind \in Classes /\ kind \notin {"none", "HpSwField", "PPPNotRead"}
    BY DEF Payloads
  <1>4. /\ p \in PacketSet /\ p.frame = current.frame /\ p.start = start
        /\ p.kind = kind \/ p.kind = "PPPNotRead"
        /\ kind \notin {"NetBiosSession", "FTP"} => p.end <= end
        /\ end < DataLength(current.frame) /\ (kind = "NetBiosSession" => start + 4 <= DataLength(current.frame))
              => p.end < DataLength(current.frame)
        /\ kind = "PpiOfItself" => p.end = end /\ SaysEmpty(p)
    BY <1>1, <1>2, <1>3, Constructing
  <1>5. p.kind \notin {"none", "HpSwField"}
    BY <1>3, <1>4
  <1>6. ASSUME Read, p.kind # "PPPNotRead" PROVE Fitting(p)
    <2>1. current.end < DataLength(current.frame)
      BY <1>6 DEF IInv, CurrentInv
    <2>2. end < DataLength(current.frame)
      BY <1>1, <1>6, <2>1
    <2>3. p.end \in Int /\ p.kind = kind
      BY <1>4, <1>6 DEF PacketSet
    <2>4. p.end < DataLength(p.frame)
      BY <1>4, <1>6, <2>2
    <2>5. kind \notin {"NetBiosSession", "FTP"} => p.end <= current.end
      BY <1>1, <1>4, <1>6, <2>3
    <2> QED BY <1>4, <1>5, <1>6, <2>3, <2>4, <2>5 DEF Fitting
  <1>7. Read /\ p.kind = "PpiOfItself" => p.start <= p.end + 5 /\ SaysEmpty(p)
    BY <1>4
  <1> QED BY <1>2, <1>4, <1>5, <1>6, <1>7, Appending

LEMMA Leaving ==
    ASSUME IInv, Leave
    PROVE  IInv'
  <1>1. NoPacket \in PacketSet
    BY DEF NoPacket, PacketSet, Classes
  <1>2. TypeInv'
    BY <1>1 DEF IInv, TypeInv, Leave
  <1>3. Read' <=> Read
    BY DEF Read, Kinds, Leave
  <1>4. NestInv => NestInv'
    BY StutterNests DEF Leave
  <1>5. OrderInv => OrderInv'
    BY DEF OrderInv, Leave
  <1>6. current' = NoPacket /\ NoPacket' = NoPacket
    BY DEF Leave, NoPacket
  <1> QED BY <1>2, <1>3, <1>4, <1>5, <1>6 DEF IInv, Walking

\* A payload that starts in the packet, or up to five bytes after it.
LEMMA PayloadKeeps ==
    ASSUME IInv, Walking,
           NEW kinds \in SUBSET Payloads, NEW offset \in Int,
           Read => /\ 0 <= offset
                   /\ ~SaysEmpty(current) => 0 < offset
                   /\ "NetBiosSession" \in kinds => current.start + offset + 4 <= DataLength(current.frame)
                   /\ current.kind # "HpSwitch"
                   /\ offset <= Room + 5,
           Payload(kinds, offset)
    PROVE  IInv'
  <1>1. PICK kind \in kinds : Enter(kind, current.start + offset, current.end)
    BY DEF Payload
  <1>2. current.start \in Int /\ current.end \in Int
    BY DEF IInv, TypeInv, PacketSet
  <1>3. kind \in Payloads /\ current.start + offset \in Int
    BY <1>2
  <1>4. Read => current.start + offset <= current.end + 5
    BY <1>2 DEF Room
  <1>5. Read => /\ current.start + offset \in current.start .. current.end + 5
                /\ current.end <= current.end
                /\ ~SaysEmpty(current) => current.start < current.start + offset
                /\ kind = "NetBiosSession" => current.start + offset + 4 <= DataLength(current.frame)
                /\ current.kind # "HpSwitch"
    BY <1>2, <1>3, <1>4
  <1> QED BY <1>1, <1>2, <1>3, <1>4, <1>5, Entering

LEMMA RoomIsInt ==
    ASSUME TypeInv
    PROVE  Room \in Int /\ current.start \in Int /\ current.end \in Int
  BY DEF TypeInv, PacketSet, Room

LEMMA Ipv4IsPayload ==
    ASSUME NEW offset \in Int
    PROVE  Ipv4At(offset) \in SUBSET {"IPv4"}
  BY DEF Ipv4At, IfIpv4Fits

\* Most payloads: behind the start of a packet of a class whose header is not
\* empty.
LEMMA PlainPayload ==
    ASSUME IInv, NEW kinds \in SUBSET (Payloads \ {"NetBiosSession"}), NEW offset \in Int,
           current.kind \notin Elastic \cup StuckKinds \cup {"HpSwitch", "none"},
           0 < offset, offset <= Room + 5,
           Payload(kinds, offset)
    PROVE  IInv'
  <1>1. Walking
    BY DEF Walking, NoPacket, StuckKinds
  <1> QED BY <1>1, PayloadKeeps

\* The plain payloads that there are, but for IPv4.
LEMMA PlainKinds ==
    /\ {"IPv6", "IPv4", "ARP", "Vlan", "Mpls", "Erspan", "PPPoE", "Ethernet2", "LLC", "HpSwitch", "Raw"}
          \in SUBSET (Payloads \ {"NetBiosSession"})
    /\ {"PPP", "CiscoHdlc", "IEEE_802_11", "Radiotap", "Prism", "Ppi", "PpiOfItself", "Sll", "Sll2",
        "NullLoopback", "Erf", "Tzsp"} \in SUBSET (Payloads \ {"NetBiosSession"})
    /\ {"TCP", "UDP", "ICMP", "Application", "FTP", "DNS", "NetBiosName", "NetBiosDatagram", "Tpkt", "Capwap"}
          \in SUBSET (Payloads \ {"NetBiosSession"})
  BY DEF Payloads, Classes, StuckKinds

LEMMA OfEtherTypeKeeps ==
    ASSUME IInv, NEW offset \in {14, 16, 20}, offset <= Room,
           current.kind \notin Elastic \cup StuckKinds \cup {"HpSwitch", "none"},
           OfEtherType(offset)
    PROVE  IInv'
  <1>1. Room \in Int
    BY RoomIsInt DEF IInv
  <1> DEFINE K == {"IPv6", "ARP", "Vlan", "Mpls", "Erspan", "PPPoE", "Ethernet2", "LLC", "Raw"}
                     \cup Ipv4At(offset)
  <1>2. K \in SUBSET (Payloads \ {"NetBiosSession"})
    BY Ipv4IsPayload, PlainKinds
  <1>3. {"Ethernet2"} \in SUBSET (Payloads \ {"NetBiosSession"})
    BY PlainKinds
  <1>4. CASE Payload(K, offset)
    <2> HIDE DEF K
    <2> QED BY <1>1, <1>2, <1>4, PlainPayload
  <1>5. CASE Payload({"Ethernet2"}, offset + 4)
    BY <1>1, <1>3, <1>5, PlainPayload
  <1> QED BY <1>4, <1>5 DEF OfEtherType

\* Classes of the link layer, from which Ethernet types lead on.
LEMMA EthernetKeeps ==
    ASSUME IInv, Ethernet2 \/ Vlan \/ LinuxCookedCapture \/ Mpls \/ Erspan \/ PPPoE
    PROVE  IInv'
  <1>1. Room \in Int /\ TypeInv /\ current.start \in Int
    BY RoomIsInt DEF IInv
  <1>2. CASE Ethernet2
    <2>1. current.kind \notin Elastic \cup StuckKinds \cup {"HpSwitch", "none"}
      BY <1>2 DEF Ethernet2, Elastic, StuckKinds
    <2> QED BY <1>1, <1>2, <2>1, OfEtherTypeKeeps, Leaving DEF Ethernet2
  <1>3. CASE Vlan
    <2>1. current.kind \notin Elastic \cup StuckKinds \cup {"HpSwitch", "none"}
      BY <1>3 DEF Vlan, Elastic, StuckKinds
    <2> DEFINE K == {"IPv6", "ARP", "Vlan", "PPPoE", "LLC", "Raw"} \cup Ipv4At(4)
    <2>2. K \in SUBSET (Payloads \ {"NetBiosSession"})
      BY Ipv4IsPayload, PlainKinds
    <2>3. IF 4 < Room THEN Payload(K, 4) ELSE Leave
      BY <1>3 DEF Vlan
    <2> HIDE DEF K
    <2> QED BY <1>1, <2>1, <2>2, <2>3, PlainPayload, Leaving
  <1>4. CASE LinuxCookedCapture
    <2>1. current.kind \notin Elastic \cup StuckKinds \cup {"HpSwitch", "none"}
      BY <1>4 DEF LinuxCookedCapture, Elastic, StuckKinds
    <2> QED BY <1>1, <1>4, <2>1, OfEtherTypeKeeps, Leaving DEF LinuxCookedCapture
  <1>5. CASE Mpls
    <2>1. current.kind \notin Elastic \cup StuckKinds \cup {"HpSwitch", "none"}
      BY <1>5 DEF Mpls, Elastic, StuckKinds
    <2> DEFINE K == {"Mpls"} \cup Ipv4At(4)
    <2>2. K \in SUBSET (Payloads \ {"NetBiosSession"}) /\ {"Ethernet2"} \in SUBSET (Payloads \ {"NetBiosSession"})
      BY Ipv4IsPayload, PlainKinds
    <2>3. (4 <= Room /\ (Payload(K, 4) \/ Payload({"Ethernet2"}, 8))) \/ Leave
      BY <1>5 DEF Mpls
    <2> HIDE DEF K
    <2> QED BY <1>1, <2>1, <2>2, <2>3, PlainPayload, Leaving
  <1>6. CASE Erspan
    <2>1. current.kind \notin Elastic \cup StuckKinds \cup {"HpSwitch", "none"}
      BY <1>6 DEF Erspan, Elastic, StuckKinds
    <2>2. {"Ethernet2"} \in SUBSET (Payloads \ {"NetBiosSession"})
      BY PlainKinds
    <2>3. PICK header \in {8, 12, 20} : IF header <= Room THEN Payload({"Ethernet2"}, header) ELSE Leave
      BY <1>6 DEF Erspan
    <2> QED BY <1>1, <2>1, <2>2, <2>3, PlainPayload, Leaving
  <1>7. CASE PPPoE
    <2>1. current.kind \notin Elastic \cup StuckKinds \cup {"HpSwitch", "none"}
      BY <1>7 DEF PPPoE, Elastic, StuckKinds
    <2>2. CASE \E n \in Lengths \ {0} :
                  6 + n - 1 <= Room /\ Enter("PPP", current.start + 6, current.start + 6 + n - 1)
      <3>1. PICK n \in Lengths \ {0} :
                  6 + n - 1 <= Room /\ Enter("PPP", current.start + 6, current.start + 6 + n - 1)
        BY <2>2
      <3>2. n \in Nat /\ n > 0
        BY LengthsAssumption
      <3>3. "PPP" \in Payloads
        BY PlainKinds
      <3>4. Walking
        BY <2>1 DEF Walking, NoPacket, StuckKinds
      <3>5. current.end \in Int /\ current.end - current.start = Room
        BY <1>1, RoomIsInt DEF Room
      <3>6. /\ current.start + 6 \in Int /\ current.start + 6 + n - 1 \in Int
            /\ current.start + 6 \in current.start .. current.end + 5
            /\ current.start + 6 + n - 1 <= current.end /\ current.start < current.start + 6
        BY <1>1, <3>1, <3>2, <3>5
      <3> QED BY <2>1, <3>1, <3>3, <3>4, <3>6, Entering
    <2> QED BY <1>7, <2>2, Leaving DEF PPPoE
  <1> QED BY <1>2, <1>3, <1>4, <1>5, <1>6, <1>7

LEMMA LinkKeeps ==
    ASSUME IInv, LogicalLinkControl \/ CiscoHdlc \/ NullLoopback \/ Erf \/ IEEE_802_11 \/ Prism \/ Tzsp
    PROVE  IInv'
  <1>1. Room \in Int /\ current.start \in Int
    BY RoomIsInt DEF IInv
  <1>2. CASE LogicalLinkControl
    <2>1. current.kind \notin Elastic \cup StuckKinds \cup {"HpSwitch", "none"}
      BY <1>2 DEF LogicalLinkControl, Elastic, StuckKinds
    <2> DEFINE K == {"ARP", "Raw"} \cup Ipv4At(8)
    <2>2. /\ K \in SUBSET (Payloads \ {"NetBiosSession"})
          /\ {"HpSwitch"} \in SUBSET (Payloads \ {"NetBiosSession"})
          /\ {"Raw"} \in SUBSET (Payloads \ {"NetBiosSession"})
      BY Ipv4IsPayload, PlainKinds
    <2>3. \/ IF 8 < Room THEN Payload(K, 8) ELSE Leave
          \/ Leave
          \/ IF 10 < Room THEN Payload({"HpSwitch"}, 10) ELSE Leave
          \/ IF 3 < Room THEN Payload({"Raw"}, 3) ELSE Leave
      BY <1>2 DEF LogicalLinkControl
    <2> HIDE DEF K
    <2> QED BY <1>1, <2>1, <2>2, <2>3, PlainPayload, Leaving
  <1>3. CASE CiscoHdlc
    <2>1. current.kind \notin Elastic \cup StuckKinds \cup {"HpSwitch", "none"}
      BY <1>3 DEF CiscoHdlc, Elastic, StuckKinds
    <2> DEFINE K == {"IPv6", "ARP", "Vlan", "PPPoE", "Raw"} \cup Ipv4At(4)
    <2>2. K \in SUBSET (Payloads \ {"NetBiosSession"})
      BY Ipv4IsPayload, PlainKinds
    <2>3. IF 4 < Room THEN Payload(K, 4) ELSE Leave
      BY <1>3 DEF CiscoHdlc
    <2> HIDE DEF K
    <2> QED BY <1>1, <2>1, <2>2, <2>3, PlainPayload, Leaving
  <1>4. CASE NullLoopback
    <2>1. current.kind \notin Elastic \cup StuckKinds \cup {"HpSwitch", "none"}
      BY <1>4 DEF NullLoopback, Elastic, StuckKinds
    <2> DEFINE K == {"IPv6"} \cup Ipv4At(4)
    <2>2. K \in SUBSET (Payloads \ {"NetBiosSession"})
      BY Ipv4IsPayload, PlainKinds
    <2>3. (4 <= Room /\ Payload(K, 4)) \/ Leave
      BY <1>4 DEF NullLoopback
    <2> HIDE DEF K
    <2> QED BY <1>1, <2>1, <2>2, <2>3, PlainPayload, Leaving
  <1>5. CASE Erf
    <2>1. current.kind \notin Elastic \cup StuckKinds \cup {"HpSwitch", "none"}
      BY <1>5 DEF Erf, Elastic, StuckKinds
    <2>2. CASE 16 < Room
      <3>1. PICK header \in {16, 20} :
               \/ Payload({"Ethernet2"}, header + 2)
               \/ Payload({"IPv6", "CiscoHdlc", "PPP", "Raw"} \cup Ipv4At(header), header)
        BY <1>5, <2>2 DEF Erf
      <3> DEFINE K == {"IPv6", "CiscoHdlc", "PPP", "Raw"} \cup Ipv4At(header)
      <3>2. /\ K \in SUBSET (Payloads \ {"NetBiosSession"})
            /\ {"Ethernet2"} \in SUBSET (Payloads \ {"NetBiosSession"})
        BY Ipv4IsPayload, PlainKinds
      <3>3. Payload({"Ethernet2"}, header + 2) \/ Payload(K, header)
        BY <3>1
      <3> HIDE DEF K
      <3> QED BY <1>1, <2>1, <2>2, <3>2, <3>3, PlainPayload
    <2> QED BY <1>5, <2>2, Leaving DEF Erf
  <1>6. CASE IEEE_802_11
    <2>1. current.kind \notin Elastic \cup StuckKinds \cup {"HpSwitch", "none"}
      BY <1>6 DEF IEEE_802_11, Elastic, StuckKinds
    <2>2. Addresses \in Nat
      <3>1. CASE Room < 9
        BY <3>1 DEF Addresses
      <3>2. CASE ~(Room < 9)
        <4> DEFINE x == (Room - 3) \div 6
        <4>1. x \in Nat
          BY <1>1, <3>2
        <4> HIDE DEF x
        <4>2. \E m \in {3, x} : \A y \in {3, x} : m <= y
          BY <4>1
        <4>3. Min({3, x}) \in {3, x}
          BY <4>2 DEF Min
        <4>4. Addresses = Min({3, x})
          BY <3>2 DEF Addresses, x
        <4> QED BY <4>1, <4>3, <4>4
      <3> QED BY <3>1, <3>2
    <2> DEFINE index == 4 + 6 * Addresses
    <2>3. index \in Nat /\ 0 < index
      BY <2>2
    <2>4. \/ \E fourth \in Fourth(index + 2), qos \in {0, 2} :
                IF index + 2 + fourth + qos < Room THEN Payload({"LLC"}, index + 2 + fourth + qos) ELSE Leave
          \/ \E fourth \in Fourth(index + 2) :
                IF index + 2 + fourth < Room THEN Payload({"Raw"}, index + 2 + fourth) ELSE Leave
          \/ IF index < Room THEN Payload({"Raw"}, index) ELSE Leave
      BY <1>6 DEF IEEE_802_11
    <2> HIDE DEF index
    <2>5. {"LLC"} \in SUBSET (Payloads \ {"NetBiosSession"}) /\ {"Raw"} \in SUBSET (Payloads \ {"NetBiosSession"})
      BY PlainKinds
    <2>6. \A fourth \in Fourth(index + 2) : fourth \in {0, 6}
      BY DEF Fourth
    <2>7. CASE \E offset \in Nat, kind \in {"LLC", "Raw"} : 0 < offset /\ offset < Room /\ Payload({kind}, offset)
      BY <1>1, <2>1, <2>5, <2>7, PlainPayload
    <2>8. (\E offset \in Nat, kind \in {"LLC", "Raw"} : 0 < offset /\ offset < Room /\ Payload({kind}, offset))
          \/ Leave
      BY <2>3, <2>4, <2>6
    <2> QED BY <2>7, <2>8, Leaving
  <1>7. CASE Prism
    <2>1. current.kind \notin Elastic \cup StuckKinds \cup {"HpSwitch", "none"}
      BY <1>7 DEF Prism, Elastic, StuckKinds
    <2> DEFINE K == {"IEEE_802_11"}
    <2>2. K \in SUBSET (Payloads \ {"NetBiosSession"})
      BY Ipv4IsPayload, PlainKinds
    <2>3. IF 144 < Room THEN Payload(K, 144) ELSE Leave
      BY <1>7 DEF Prism
    <2> HIDE DEF K
    <2> QED BY <1>1, <2>1, <2>2, <2>3, PlainPayload, Leaving
  <1>8. CASE Tzsp
    <2>1. current.kind \notin Elastic \cup StuckKinds \cup {"HpSwitch", "none"}
      BY <1>8 DEF Tzsp, Elastic, StuckKinds
    <2>2. CASE ~Leave
      <3>1. PICK offset \in Int :
              /\ 5 <= offset /\ offset <= Room
              /\ Payload({"Ethernet2", "PPP", "IEEE_802_11", "Radiotap", "Raw"} \cup Ipv4At(offset), offset)
        BY <1>8, <2>2, LengthsAssumption DEF Tzsp
      <3> DEFINE K == {"Ethernet2", "PPP", "IEEE_802_11", "Radiotap", "Raw"} \cup Ipv4At(offset)
      <3>2. K \in SUBSET (Payloads \ {"NetBiosSession"})
        BY Ipv4IsPayload, PlainKinds
      <3>3. Payload(K, offset)
        BY <3>1
      <3> HIDE DEF K
      <3> QED BY <1>1, <2>1, <3>1, <3>2, <3>3, PlainPayload
    <2> QED BY <2>2, Leaving
  <1> QED BY <1>2, <1>3, <1>4, <1>5, <1>6, <1>7, <1>8

LEMMA NotReadClass ==
    ASSUME IInv, current.kind = "PPPNotRead"
    PROVE  ~Read /\ Walking
  <1>1. Walking
    BY DEF Walking, NoPacket, StuckKinds
  <1>2. SUFFICES ASSUME Read PROVE FALSE
    BY <1>1
  <1>3. CurrentInv
    BY <1>1, <1>2 DEF IInv
  <1>4. PICK j \in DOMAIN walk : walk[j] = current
    BY <1>3 DEF CurrentInv, At
  <1> QED BY <1>2, <1>4 DEF Read, Kinds

LEMMA PPPKeeps ==
    ASSUME IInv, PPP
    PROVE  IInv'
  <1>1. Room \in Int
    BY RoomIsInt DEF IInv
  <1> DEFINE K(offset) == {"Raw"} \cup Ipv4At(offset)
  <1>2. \A offset \in Int : K(offset) \in SUBSET (Payloads \ {"NetBiosSession"})
    BY Ipv4IsPayload, PlainKinds
  <1>3. CASE current.kind = "PPP"
    <2>1. current.kind \notin Elastic \cup StuckKinds \cup {"HpSwitch", "none"}
      BY <1>3 DEF Elastic, StuckKinds
    <2>2. PICK offset \in {2, 4} : IF offset < Room THEN Payload(K(offset), offset) ELSE Leave
      BY <1>3 DEF PPP
    <2>3. K(offset) \in SUBSET (Payloads \ {"NetBiosSession"})
      BY <1>2
    <2> HIDE DEF K
    <2> QED BY <1>1, <2>1, <2>2, <2>3, PlainPayload, Leaving
  <1>4. CASE current.kind = "PPPNotRead"
    <2>1. PICK offset \in UnsetOffsets : IF offset < Room THEN Payload(K(offset), offset) ELSE Leave
      BY <1>4 DEF PPP
    <2>2. offset \in Int
      BY LengthsAssumption
    <2>3. K(offset) \in SUBSET Payloads
      BY <1>2, <2>2
    <2> HIDE DEF K
    <2> QED BY <1>4, <2>1, <2>2, <2>3, NotReadClass, PayloadKeeps, Leaving
  <1> QED BY <1>3, <1>4 DEF PPP

\* The headers that may be empty.
LEMMA ElasticPayload ==
    ASSUME IInv, NEW kinds \in SUBSET (Payloads \ {"NetBiosSession"}), NEW offset \in Nat,
           current.kind \in Elastic, current.header <= offset, offset <= Room + 5,
           Payload(kinds, offset)
    PROVE  IInv'
  <1>1. Walking /\ current.kind # "HpSwitch"
    BY DEF Elastic, Walking, NoPacket, StuckKinds
  <1>2. ~SaysEmpty(current) => 0 < offset
    BY DEF SaysEmpty, IInv, TypeInv, PacketSet
  <1> QED BY <1>1, <1>2, PayloadKeeps

LEMMA LinkTypeIsPayload ==
    ASSUME NEW link \in LinkTypes, NEW start \in Int, NEW size \in Int
    PROVE  OfLinkType(link, start, size) \in SUBSET (Payloads \ {"NetBiosSession"})
  <1>1. IfIpv4Fits(start, size) \in SUBSET {"IPv4"}
    BY DEF IfIpv4Fits
  <1>2. OfLinkType(link, start, size) \in
          SUBSET {"Ethernet2", "IEEE_802_11", "Radiotap", "Raw", "IPv4", "IPv6", "CiscoHdlc", "Prism", "Ppi",
                  "PpiOfItself", "PPP", "Sll", "NullLoopback", "Erf", "Sll2", "Tzsp"}
    BY <1>1 DEF OfLinkType, LinkTypes
  <1> QED BY <1>2, PlainKinds

LEMMA ElasticKeeps ==
    ASSUME IInv, Radiotap \/ Ppi \/ PpiOfItself \/ Capwap
    PROVE  IInv'
  <1>1. Room \in Int /\ current.start \in Int /\ DataLength(current.frame) \in Int
    BY RoomIsInt DEF IInv, TypeInv, DataLength
  <1>h. current.header \in Nat
    BY DEF IInv, TypeInv, PacketSet
  <1>2. CASE Radiotap
    <2>1. current.kind \in Elastic /\ {"IEEE_802_11"} \in SUBSET (Payloads \ {"NetBiosSession"})
      BY <1>2, PlainKinds DEF Radiotap, Elastic
    <2> QED BY <1>1, <1>2, <1>h, <2>1, ElasticPayload, Leaving DEF Radiotap
  <1>3. CASE Ppi
    <2> DEFINE header == current.header
    <2>1. PICK link \in LinkTypes :
             IF header <= Room
             THEN Payload(OfLinkType(link, current.start + header, DataLength(current.frame)), header)
             ELSE Leave
      BY <1>3 DEF Ppi, LinkTypes
    <2>2. current.kind \in Elastic
      BY <1>3 DEF Ppi, Elastic, StuckKinds
    <2>3. current.start + header \in Int
      BY <1>1, <1>h
    <2> DEFINE K == OfLinkType(link, current.start + header, DataLength(current.frame))
    <2>4. K \in SUBSET (Payloads \ {"NetBiosSession"})
      BY <1>1, <2>3, LinkTypeIsPayload
    <2>5. IF header <= Room THEN Payload(K, header) ELSE Leave
      BY <2>1
    <2> HIDE DEF K
    <2> QED BY <1>1, <1>h, <2>2, <2>4, <2>5, ElasticPayload, Leaving
  <1>4. CASE PpiOfItself
    <2>1. Walking /\ current.kind \in Elastic /\ current.kind # "HpSwitch"
      BY <1>4 DEF PpiOfItself, Elastic, Walking, NoPacket, StuckKinds
    <2>2. Read => 0 <= Room + 5
      BY <1>1, <1>4, <2>1, RoomIsInt DEF IInv, CurrentInv, PpiOfItself, Room
    <2>3. {"PpiOfItself"} \in SUBSET (Payloads \ {"NetBiosSession"})
      BY PlainKinds
    <2>4. Read => SaysEmpty(current)
      BY <1>4, <2>1 DEF IInv, CurrentInv, PpiOfItself
    <2> QED BY <1>4, <2>1, <2>2, <2>3, <2>4, PayloadKeeps DEF PpiOfItself
  <1>5. CASE Capwap
    <2>1. (current.header <= Room /\ Payload({"IEEE_802_11"}, current.header)) \/ Leave
      BY <1>5 DEF Capwap
    <2>2. current.kind \in Elastic /\ {"IEEE_802_11"} \in SUBSET (Payloads \ {"NetBiosSession"})
      BY <1>5, PlainKinds DEF Capwap, Elastic
    <2> QED BY <1>1, <1>h, <2>1, <2>2, ElasticPayload, Leaving
  <1> QED BY <1>2, <1>3, <1>4, <1>5

LEMMA TransportKeeps ==
    ASSUME IInv, IPv6 \/ Tcp \/ Udp \/ Tpkt \/ NetBios
    PROVE  IInv'
  <1>1. Room \in Int /\ current.start \in Int /\ current.end \in Int /\ Room = current.end - current.start
    BY RoomIsInt DEF IInv, Room
  <1>2. CASE IPv6
    <2>1. current.kind \notin Elastic \cup StuckKinds \cup {"HpSwitch", "none"}
      BY <1>2 DEF IPv6, Elastic, StuckKinds
    <2>2. Transports \in SUBSET (Payloads \ {"NetBiosSession"})
      BY PlainKinds DEF Transports
    <2> QED BY <1>1, <1>2, <2>1, <2>2, PlainPayload, Leaving DEF IPv6
  <1>3. CASE Tcp
    <2>1. current.kind \in Elastic /\ Walking /\ current.kind # "HpSwitch"
      BY <1>3 DEF Tcp, Elastic, Walking, NoPacket, StuckKinds
    <2> DEFINE offset == current.header
               K == {"Application", "FTP", "Raw"}
                    \cup {k \in {"NetBiosSession"} : current.start + offset + 4 <= DataLength(current.frame)}
                    \cup {k \in {"Tpkt"} : offset + 3 <= Room}
    <2>2. IF offset < Room THEN Payload({"DNS"}, offset + 2) \/ Payload(K, offset) ELSE Leave
      BY <1>3 DEF Tcp
    <2>h. offset \in Nat /\ (~SaysEmpty(current) => 0 < offset)
      BY <2>1 DEF SaysEmpty, IInv, TypeInv, PacketSet
    <2>3. CASE Payload({"DNS"}, offset + 2) /\ offset < Room
      <3>1. {"DNS"} \in SUBSET (Payloads \ {"NetBiosSession"})
        BY PlainKinds
      <3> QED BY <1>1, <2>1, <2>3, <2>h, <3>1, ElasticPayload
    <2>4. CASE Payload(K, offset) /\ offset < Room
      <3>1. K \in SUBSET Payloads
        BY PlainKinds DEF Payloads, Classes, StuckKinds
      <3>2. "NetBiosSession" \in K => current.start + offset + 4 <= DataLength(current.frame)
        OBVIOUS
      <3>3. /\ offset \in Int /\ 0 <= offset /\ offset <= Room + 5
            /\ "NetBiosSession" \in K => current.start + offset + 4 <= DataLength(current.frame)
        BY <1>1, <2>4, <2>h, <3>2
      <3> HIDE DEF K, offset
      <3> QED BY <2>1, <2>4, <2>h, <3>1, <3>3, PayloadKeeps
    <2> QED BY <2>2, <2>3, <2>4, Leaving
  <1>4. CASE Udp
    <2>1. current.kind \notin Elastic \cup StuckKinds \cup {"HpSwitch", "none"}
      BY <1>4 DEF Udp, Elastic, StuckKinds
    <2> DEFINE K == {"Application", "DNS", "NetBiosDatagram", "Capwap", "Raw"}
                    \cup {k \in {"NetBiosName"} : current.start + 20 <= DataLength(current.frame)}
    <2>2. K \in SUBSET (Payloads \ {"NetBiosSession"})
      BY PlainKinds
    <2>3. IF 8 < Room THEN Payload(K, 8) ELSE Leave
      BY <1>4 DEF Udp
    <2> HIDE DEF K
    <2> QED BY <1>1, <2>1, <2>2, <2>3, PlainPayload, Leaving
  <1>5. CASE Tpkt
    <2>1. current.kind \notin Elastic \cup StuckKinds \cup {"HpSwitch", "none"} /\ Walking
      BY <1>5 DEF Tpkt, Elastic, Walking, NoPacket, StuckKinds
    <2>2. CASE ~Leave
      <3>1. PICK n \in 4..(Room + 1) : Enter("Raw", current.start + 4, current.start + n - 1)
        BY <1>5, <2>2 DEF Tpkt
      <3>2. "Raw" \in Payloads
        BY PlainKinds
      <3>3. /\ current.start + 4 \in Int /\ current.start + n - 1 \in Int
            /\ current.start + 4 \in current.start .. current.end + 5
            /\ current.start + n - 1 <= current.end /\ current.start < current.start + 4
        BY <1>1, <3>1
      <3> QED BY <2>1, <3>1, <3>2, <3>3, Entering
    <2> QED BY <2>2, Leaving
  <1>6. CASE NetBios
    <2>1. current.kind \notin Elastic \cup StuckKinds \cup {"HpSwitch", "none"}
      BY <1>6 DEF NetBios, Elastic, StuckKinds
    <2>2. {"Raw"} \in SUBSET (Payloads \ {"NetBiosSession"})
      BY PlainKinds
    <2>3. (\E offset \in Nat : 0 < offset /\ offset < Room /\ Payload({"Raw"}, offset)) \/ Leave
      BY <1>6, LengthsAssumption DEF NetBios
    <2> QED BY <1>1, <2>1, <2>2, <2>3, PlainPayload, Leaving
  <1> QED BY <1>2, <1>3, <1>4, <1>5, <1>6

LEMMA AddingField ==
    ASSUME IInv, current.kind = "HpSwitch", NEW start \in Int, start < current.end,
           Read => /\ walk # << >> /\ walk[Len(walk)].start < start
                   /\ current.start < start,
           NEW p \in Constructed("HpSwField", current.frame, start, current.end, DataLength(current.frame)),
           walk' = Append(walk, p), UNCHANGED <<length, reassembled, current>>
    PROVE  IInv'
  <1>1. /\ Walking /\ current.end \in Int /\ current.start \in Int
        /\ current.frame \in {"captured", "reassembled"} /\ DataLength(current.frame) \in Nat
    BY DEF Walking, NoPacket, StuckKinds, IInv, TypeInv, PacketSet, DataLength
  <1>2. "HpSwField" \in Classes /\ start <= current.end
    BY <1>1 DEF Classes
  <1>3. /\ p \in PacketSet /\ p.frame = current.frame /\ p.start = start /\ p.kind = "HpSwField"
        /\ current.end < DataLength(current.frame) => p.end < DataLength(current.frame)
        /\ start <= p.end
    BY <1>1, <1>2, Constructing
  <1>4. ASSUME Read PROVE Fitting(p)
    <2>1. current.end < DataLength(current.frame)
      BY <1>1, <1>4 DEF IInv, CurrentInv
    <2> QED BY <1>1, <1>2, <1>3, <1>4, <2>1 DEF Fitting
  <1> QED BY <1>1, <1>3, <1>4, Appending

\* A field of a HP switch packet is added behind the packet or the field before.
LEMMA HpSwitchKeeps ==
    ASSUME IInv, HpSwitch
    PROVE  IInv'
  <1>1. /\ current.kind = "HpSwitch" /\ Walking
        /\ current.frame \in {"captured", "reassembled"} /\ DataLength(current.frame) \in Nat
        /\ current.start \in Int /\ current.end \in Int
    BY DEF HpSwitch, Walking, NoPacket, StuckKinds, IInv, TypeInv, PacketSet, DataLength
  <1>2. CASE ~Leave
    <2>1. PICK p \in Constructed("HpSwField", current.frame, FieldPosition, current.end, DataLength(current.frame)) :
              walk' = Append(walk, p) /\ UNCHANGED <<length, reassembled, current>> /\ FieldPosition < current.end
      BY <1>2 DEF HpSwitch
    <2> DEFINE last == walk[Len(walk)]
    <2>2. CASE Read
      <3>1. TypeInv /\ NestInv /\ CurrentInv
        BY <1>1, <2>2 DEF IInv
      <3>2. PICK j \in DOMAIN walk : At(j)
        BY <1>1, <3>1 DEF CurrentInv
      <3>3. Len(walk) \in DOMAIN walk /\ DOMAIN walk = 1..Len(walk) /\ last \in PacketSet /\ walk # << >>
        BY <3>1, <3>2 DEF TypeInv
      <3>4. last.start \in Int /\ last.end \in Int
        BY <3>3 DEF PacketSet
      <3>5. CASE last.kind = "HpSwField"
        <4>1. FieldPosition = last.end + 1
          BY <3>5 DEF FieldPosition
        <4>2. last.start <= last.end
          BY <3>1, <3>3, <3>5 DEF NestInv
        <4>3. current.start < last.start
          BY <3>2, <3>3, <3>5 DEF At
        <4> HIDE DEF last
        <4>4. FieldPosition \in Int /\ last.start < FieldPosition /\ current.start < FieldPosition
          BY <1>1, <3>4, <4>1, <4>2, <4>3
        <4> QED BY <4>4, <3>2, <3>3, <3>4, <3>1, <1>1, <2>1, <2>2, AddingField DEF last
      <3>6. CASE last.kind # "HpSwField"
        <4>1. FieldPosition = current.start + 2
          BY <3>6 DEF FieldPosition
        <4>2. last = current
          BY <3>2, <3>3, <3>6 DEF At
        <4>3. FieldPosition \in Int /\ last.start < FieldPosition /\ current.start < FieldPosition
          BY <1>1, <4>1, <4>2
        <4> QED BY <4>3, <3>3, <1>1, <2>1, <2>2, AddingField
      <3> QED BY <3>5, <3>6
    <2>3. CASE ~Read
      <3>1. FieldPosition \in Int
        <4>1. walk \in Seq(PacketSet)
          BY DEF IInv, TypeInv
        <4>2. DOMAIN walk # {}
          BY <2>3 DEF Read, Kinds
        <4>3. walk[Len(walk)] \in PacketSet
          BY <4>1, <4>2
        <4> QED BY <1>1, <4>3 DEF FieldPosition, PacketSet
      <3> QED BY <1>1, <2>1, <2>3, <3>1, AddingField
    <2> QED BY <2>2, <2>3
  <1> QED BY <1>2, Leaving

\* A datagram that is complete goes on as a frame of its own.
LEMMA Ipv4Keeps ==
    ASSUME IInv, IPv4
    PROVE  IInv'
  <1>1. Room \in Int /\ current.kind = "IPv4" /\ Walking
    BY RoomIsInt DEF IInv, IPv4, Walking, NoPacket, StuckKinds
  <1>2. CASE \E header \in HeaderLengths(5..15) : IF header < Room THEN Payload(Transports, header) ELSE Leave
    <2>1. current.kind \notin Elastic \cup StuckKinds \cup {"HpSwitch", "none"}
      BY <1>1 DEF Elastic, StuckKinds
    <2>2. Transports \in SUBSET (Payloads \ {"NetBiosSession"})
      BY PlainKinds DEF Transports
    <2>3. \A header \in HeaderLengths(5..15) : header \in Int /\ 0 < header
      BY LengthsAssumption DEF HeaderLengths
    <2> QED BY <1>1, <1>2, <2>1, <2>2, <2>3, PlainPayload, Leaving
  <1>3. CASE Leave
    BY <1>3, Leaving
  <1>4. CASE /\ current.frame = "captured"
             /\ \E n \in ReassembledLengths :
                   /\ reassembled' = n
                   /\ current' = Packet("IPv4", "reassembled", 0, n - 1)
                   /\ UNCHANGED <<length, walk>>
    <2>1. PICK n \in ReassembledLengths :
                   /\ reassembled' = n
                   /\ current' = Packet("IPv4", "reassembled", 0, n - 1)
                   /\ UNCHANGED <<length, walk>>
      BY <1>4
    <2>2. n \in Nat /\ n > 0
      BY LengthsAssumption
    <2>3. current' = [kind |-> "IPv4", frame |-> "reassembled", start |-> 0, end |-> n - 1, header |-> 0]
      BY <2>1 DEF Packet
    <2>4. TypeInv'
      <3>1. current' \in PacketSet
        <4>1. "IPv4" \in Classes /\ n - 1 \in Int
          BY <2>2 DEF Classes
        <4> QED BY <2>3, <4>1, PacketIs
      <3> QED BY <2>1, <2>2, <3>1 DEF IInv, TypeInv
    <2>5. Read' <=> Read
      BY <2>1 DEF Read, Kinds
    <2>6. CASE Read
      <3>1. NestInv /\ CurrentInv
        BY <1>1, <2>6 DEF IInv
      <3>2. \A i \in DOMAIN walk : walk[i].frame = "captured"
        BY <1>4, <3>1 DEF CurrentInv
      <3>3. \A i \in DOMAIN walk : walk[i].kind # "HpSwField"
        <4>1. PICK j \in DOMAIN walk : At(j)
          BY <1>4, <3>1 DEF CurrentInv
        <4>2. j = Len(walk) /\ DOMAIN walk = 1..Len(walk) /\ Len(walk) \in Nat
          BY <1>1, <4>1 DEF At, IInv, TypeInv
        <4> QED BY <4>1, <4>2 DEF At
      <3>4. NestInv'
        <4>1. \A i : Enclosing(i)' = Enclosing(i)
          BY <2>1 DEF Enclosing
        <4>2. DataLength("captured")' = DataLength("captured")
          BY <2>1 DEF DataLength
        <4>3. ASSUME NEW i \in DOMAIN walk
              PROVE  /\ walk[i].end < DataLength(walk[i].frame)'
                     /\ walk[i].kind = "HpSwField" => /\ walk[i].start <= walk[i].end
                                                      /\ \E j \in 1..(i - 1) : walk[j].kind = "HpSwitch"
                     /\ i > 1 /\ walk[i].frame = Enclosing(i).frame =>
                           /\ walk[i].start \in Enclosing(i).start .. Enclosing(i).end + 5
                           /\ walk[i].kind \in {"HpSwField", "NetBiosSession", "FTP"} \/ walk[i].end <= Enclosing(i).end
          <5>1. walk[i].end < DataLength(walk[i].frame)'
            BY <2>1, <3>1, <3>2 DEF NestInv, DataLength
          <5> QED BY <5>1, <3>1 DEF NestInv
        <4> QED BY <2>1, <4>1, <4>3 DEF NestInv
      <3>5. OrderInv'
        BY <2>1, <2>2 DEF OrderInv
      <3>6. CurrentInv'
        BY <2>1, <2>2, <2>3, <3>2, <3>3 DEF CurrentInv, DataLength
      <3> QED BY <2>4, <3>4, <3>5, <3>6 DEF IInv
    <2> QED BY <2>4, <2>5, <2>6 DEF IInv
  <1> QED BY <1>2, <1>3, <1>4 DEF IPv4

\* A frame's first packet.
LEMMA FramedKeeps ==
    ASSUME Framed
    PROVE  IInv'
  <1>a. PICK link \in LinkTypes : \E n \in FrameLengths[link] : \E kind \in OfLinkType(link, 0, n) :
            \E root \in Constructed(kind, "captured", 0, n - 1, n) :
                length' = n /\ reassembled' = 0 /\ walk' = <<root>> /\ current' = root
    BY DEF Framed
  <1>b. PICK n \in FrameLengths[link] : \E kind \in OfLinkType(link, 0, n) :
            \E root \in Constructed(kind, "captured", 0, n - 1, n) :
                length' = n /\ reassembled' = 0 /\ walk' = <<root>> /\ current' = root
    BY <1>a
  <1>c. PICK kind \in OfLinkType(link, 0, n) :
            \E root \in Constructed(kind, "captured", 0, n - 1, n) :
                length' = n /\ reassembled' = 0 /\ walk' = <<root>> /\ current' = root
    BY <1>b
  <1>1. PICK root \in Constructed(kind, "captured", 0, n - 1, n) :
            length' = n /\ reassembled' = 0 /\ walk' = <<root>> /\ current' = root
    BY <1>c
  <1>2. n \in Nat /\ n > 0
    BY LengthsAssumption
  <1>3. kind \in Payloads /\ kind # "NetBiosSession"
    BY <1>2, LinkTypeIsPayload
  <1>4. kind \in Classes /\ kind \notin {"none", "HpSwField", "PPPNotRead"}
    BY <1>3 DEF Payloads
  <1>5. /\ root \in PacketSet /\ root.frame = "captured" /\ root.start = 0
        /\ root.kind = kind \/ root.kind = "PPPNotRead"
        /\ root.end < n /\ (kind = "PpiOfItself" => root.end = n - 1 /\ SaysEmpty(root))
    BY <1>2, <1>3, <1>4, Constructing
  <1>6. walk' \in Seq(PacketSet) /\ DOMAIN walk' = {1} /\ Len(walk') = 1 /\ walk'[1] = root
    BY <1>1, <1>5
  <1>7. TypeInv'
    BY <1>1, <1>2, <1>5, <1>6 DEF TypeInv
  <1>8. NestInv'
    BY <1>1, <1>4, <1>5, <1>6 DEF NestInv, DataLength
  <1>9. OrderInv'
    BY <1>6 DEF OrderInv
  <1>10. CurrentInv'
    <2>1. At(1)'
      BY <1>1, <1>4, <1>5, <1>6 DEF At
    <2>2. \E j \in DOMAIN walk' : At(j)'
      BY <2>1, <1>6
    <2>3. current'.end < n /\ current'.frame = "captured" /\ length' = n
      BY <1>1, <1>5
    <2>4. current'.kind = "PpiOfItself" => current'.start <= current'.end + 5 /\ SaysEmpty(current)'
      BY <1>1, <1>2, <1>4, <1>5 DEF SaysEmpty
    <2> QED BY <2>2, <2>3, <2>4, <1>5, <1>6 DEF CurrentInv, DataLength
  <1> QED BY <1>7, <1>8, <1>9, <1>10 DEF IInv

\* The invariant is inductive.
LEMMA StepKeeps ==
    ASSUME IInv, [Next]_vars
    PROVE  IInv'
  <1>1. CASE Ethernet2 \/ Vlan \/ LinuxCookedCapture \/ Mpls \/ Erspan \/ PPPoE
    BY <1>1, EthernetKeeps
  <1>2. CASE LogicalLinkControl \/ CiscoHdlc \/ NullLoopback \/ Erf \/ IEEE_802_11 \/ Prism \/ Tzsp
    BY <1>2, LinkKeeps
  <1>3. CASE PPP
    BY <1>3, PPPKeeps
  <1>4. CASE Radiotap \/ Ppi \/ PpiOfItself \/ Capwap
    BY <1>4, ElasticKeeps
  <1>5. CASE IPv6 \/ Tcp \/ Udp \/ Tpkt \/ NetBios
    BY <1>5, TransportKeeps
  <1>6. CASE HpSwitch
    BY <1>6, HpSwitchKeeps
  <1>7. CASE IPv4
    BY <1>7, Ipv4Keeps
  <1>8. CASE Leaf
    BY <1>8, Leaving DEF Leaf
  <1>9. CASE NextFrame
    BY <1>9, FramedKeeps DEF NextFrame
  <1>10. CASE UNCHANGED vars
    <2>1. TypeInv' /\ (Read' <=> Read)
      BY <1>10 DEF vars, IInv, TypeInv, Read, Kinds
    <2>2. NestInv => NestInv'
      BY <1>10, StutterNests DEF vars
    <2>3. OrderInv => OrderInv'
      BY <1>10 DEF vars, OrderInv
    <2>4. CurrentInv => CurrentInv'
      BY <1>10 DEF vars, CurrentInv, At, DataLength
    <2>5. Walking <=> Walking'
      BY <1>10 DEF vars, Walking, NoPacket, StuckKinds
    <2> QED BY <2>1, <2>2, <2>3, <2>4, <2>5 DEF IInv
  <1>11. CASE GetSubPackets
    <2>1. AnyClass \/ UNCHANGED vars
      BY <1>11 DEF GetSubPackets
    <2> QED BY <2>1, <1>1, <1>2, <1>3, <1>4, <1>5, <1>6, <1>7, <1>8, <1>10 DEF AnyClass, Stuck
  <1> QED BY <1>9, <1>10, <1>11 DEF Next

LEMMA InitHolds ==
    ASSUME Init
    PROVE  IInv
  <1>1. NoPacket \in PacketSet
    BY DEF NoPacket, PacketSet, Classes
  <1>2. walk \in Seq(PacketSet) /\ DOMAIN walk = {} /\ current = NoPacket
    BY DEF Init
  <1>3. TypeInv
    BY <1>1, <1>2 DEF Init, TypeInv
  <1> QED BY <1>2, <1>3 DEF IInv, NestInv, OrderInv, Walking

LEMMA AlwaysIInv == Spec => []IInv
  <1>1. Init => IInv
    BY InitHolds
  <1>2. IInv /\ [Next]_vars => IInv'
    BY StepKeeps
  <1> QED BY <1>1, <1>2, PTL DEF Spec

----------------------------------------------------------------------------
\* Whatever the length fields say, packets end in their frame and start in the
\* packet around them or up to five bytes after it, and but for two kinds they end
\* in it.
THEOREM LayersAreNested == Spec => []LayersNest
  <1>1. IInv => LayersNest
    BY DEF IInv, Read, NestInv, LayersNest
  <1> QED BY <1>1, AlwaysIInv, PTL

\* A frame's list shows the layers in the order in which they are found, and
\* loses no layer whose header is not empty.
THEOREM LayersStayListed == Spec => []LayersKept
  <1>1. ASSUME IInv, reassembled = 0, Read, NEW i \in DOMAIN walk
        PROVE  /\ SaysEmpty(walk[i]) \/ List[walk[i].start] = walk[i]
               /\ \A j \in i..Len(walk) : walk[i].start <= walk[j].start
    <2>1. /\ Len(walk) \in Nat /\ DOMAIN walk = 1..Len(walk)
          /\ \A j \in 1..Len(walk) : walk[j].start \in Int
      <3>1. walk \in Seq(PacketSet)
        BY <1>1 DEF IInv, TypeInv
      <3>2. Len(walk) \in Nat /\ DOMAIN walk = 1..Len(walk) /\ \A j \in 1..Len(walk) : walk[j] \in PacketSet
        BY <3>1
      <3> QED BY <3>2 DEF PacketSet
    <2>2. \A k, j \in 1..Len(walk) : k < j =>
            /\ walk[k].start <= walk[j].start
            /\ ~SaysEmpty(walk[k]) => walk[k].start < walk[j].start
      BY <1>1, <2>1 DEF IInv, OrderInv
    <2>3. \A j \in i..Len(walk) : walk[i].start <= walk[j].start
      <3> TAKE j \in i..Len(walk)
      <3>1. CASE j = i
        BY <3>1, <2>1, <1>1
      <3>2. CASE j # i
        <4>1. i \in 1..Len(walk) /\ j \in 1..Len(walk) /\ i < j
          BY <3>2, <2>1, <1>1
        <4> QED BY <4>1, <2>2
      <3> QED BY <3>1, <3>2
    <2>4. CASE ~SaysEmpty(walk[i])
      <3> DEFINE s == walk[i].start
                 T == {j \in DOMAIN walk : walk[j].start = s}
      <3>1. List[s] = walk[Max(T)]
        BY <1>1 DEF List
      <3>2. i \in T /\ T \in SUBSET (1..Len(walk))
        BY <1>1, <2>1
      <3>3. \A j \in T : j <= i
        <4> SUFFICES ASSUME NEW j \in T, i < j PROVE FALSE
          BY <2>1, <3>2
        <4> QED BY <1>1, <2>1, <2>2, <2>4
      <3>4. Max(T) = i
        <4> HIDE DEF T
        <4> QED BY <2>1, <3>2, <3>3, MaxIs
      <3> QED BY <2>3, <3>1, <3>4
    <2> QED BY <2>3, <2>4
  <1>2. IInv => LayersKept
    BY <1>1 DEF LayersKept, Read
  <1> QED BY <1>2, AlwaysIInv, PTL
=============================================================================
