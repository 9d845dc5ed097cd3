-------------------------- MODULE PacketDissection --------------------------
(***************************************************************************)
(* PacketParser/Frame.cpp and the GetSubPackets functions of               *)
(* PacketParser/Packets: from a frame's bytes to the list of its layers.   *)
(* The walk is a recursion from a packet to the one inside it; each class  *)
(* decides from its header which class comes next and where.  What the     *)
(* bytes say is left open: a header may say anything that its constructor  *)
(* can make of some bytes.                                                 *)
(*                                                                         *)
(* A packet is [kind, frame, start, end, header], with both indices        *)
(* inclusive; header is what the header of some kinds says that it is long.*)
(* A datagram put together from fragments is a frame of its own, whose     *)
(* packets come into the list of the last fragment's frame.  Kinds that    *)
(* have "NotRead", "OfItself", "OnNul" or "OfWrap" in their name stand for *)
(* what constructors leave behind, or do not come out of.                  *)
(***************************************************************************)
EXTENDS Integers, Sequences, FiniteSets, FiniteSetsExt

CONSTANTS
    FrameLengths,       \* from link types to the lengths of frames captured there
    Lengths,            \* what length fields say, and the lengths of lines, names and tags
    HeaderWords,        \* what the bits say that count a header's words of four bytes
    ReassembledLengths, \* of datagrams put together
    UnsetOffsets,       \* what memory holds where PointToPointPacket's and TcpPacket's
                        \* constructors leave protocolStartOffset and m_dataOffsetByteCount unset
    MaxFields,          \* 20 fields of a HP switch packet
    MaxLayers           \* bound: layers counted; a walk that comes there goes on for ever

LinkTypes == {"Ethernet", "IEEE_802_11", "Radiotap", "RawIp", "RawIp6", "Hdlc", "Prism", "Ppi",
              "Ppp", "Sll", "Null", "Erf", "Sll2", "Tzsp", "Other"}

ASSUME LengthsAssumption ==
    /\ FrameLengths \in [LinkTypes -> SUBSET (Nat \ {0})]
    /\ Lengths \subseteq Nat /\ HeaderWords \subseteq 0..31 /\ ReassembledLengths \subseteq Nat \ {0}
    /\ HeaderWords \cap 5..15 # {}
    /\ UnsetOffsets \subseteq Int /\ UnsetOffsets \cap 0..255 # {}
    /\ MaxFields \in Nat /\ MaxLayers \in Nat

VARIABLES
    length,       \* DataLength of the captured frame
    reassembled,  \* DataLength of the datagram put together, 0 for none
    walk,         \* the packets in the order in which GetSubPackets returns them
    current       \* the innermost packet, whose GetSubPackets runs, or none

vars == <<length, reassembled, walk, current>>

NoPacket == [kind |-> "none", frame |-> "captured", start |-> 0, end |-> 0, header |-> 0]

DataLength(frame) == IF frame = "captured" THEN length ELSE reassembled

----------------------------------------------------------------------------
\* Constructors: the packets that may come out, given the range that is asked
\* for and the length of the frame.

Packet(kind, frame, start, end) ==
    [kind |-> kind, frame |-> frame, start |-> start, end |-> end, header |-> 0]

\* Mutant: a packet may end behind the frame.
MutSetPacketEndIndex(p, value, size) == IF value >= p.start THEN [p EXCEPT !.end = value] ELSE p
SetPacketEndIndex(p, value, size) ==
    IF value >= p.start /\ value < size THEN [p EXCEPT !.end = value] ELSE p

\* IPv4, IPv6 and UDP: a length smaller than the packet cuts it.
HeaderOf(kind) == CASE kind = "IPv6" -> 40 [] kind = "IPv4" -> 20 [] kind = "UDP" -> 8
Clipped(p, size) ==
    {p} \cup {SetPacketEndIndex(p, p.start + n - 1, size) :
                 n \in {m \in Lengths : /\ p.start + HeaderOf(p.kind) <= size
                                        /\ m < p.end - p.start + 1
                                        /\ p.kind = "IPv6" => m >= 40}}

\* A field ends where its length says, if that is in the frame.
HpSwFields(p, size) ==
    IF p.start + 1 > p.end THEN {p} ELSE {SetPacketEndIndex(p, p.start + 1 + n, size) : n \in Lengths}

\* NetBIOS session service: a keep-alive, a message that fills the packet or one
\* that another follows; the length in its header does not count the header.
NetBiosSessions(p, size) ==
    {[p EXCEPT !.end = p.start + 3]}
    \cup {SetPacketEndIndex([p EXCEPT !.end = p.start + n + 3], p.start + n - 1, size) :
             n \in {m \in Lengths \ {0} : \/ m = p.end - p.start - 3
                                          \/ (p.end - p.start < 3 \/ m < p.end - p.start - 3)
                                             /\ p.start + m + 4 < size}}

\* PPP: two bytes of protocol, or four with address and control.
PointToPoints(p) ==
    {[p EXCEPT !.kind = "PPPNotRead"]} \cup {q \in {p} : p.start + 1 <= p.end}

\* An FTP reply ends with its last line, which is read up to its end wherever the
\* packet ends; a request is left as it is.
FtpPackets(p, size) ==
    {p} \cup {SetPacketEndIndex(p, p.start + n - 1, size) : n \in {m \in Lengths : m >= 3}}

\* The headers that say themselves how long they are, and may say 0: a byte count,
\* or a count of words.  One that is cut off says 0, or in TCP what its byte held.
Elastic == {"TCP", "Radiotap", "Ppi", "PpiOfItself", "Capwap"}
HeaderLengths(words) == {4 * n : n \in HeaderWords \cap words}
HeadersSaid(kind, start, size) ==
    CASE kind = "TCP" -> IF start + 20 <= size THEN HeaderLengths(0..15) ELSE UnsetOffsets \cap 0..255
      [] kind = "Capwap" -> IF start + 2 < size THEN HeaderLengths(0..31) ELSE {0}
      [] kind = "Radiotap" -> {0} \cup {n \in Lengths : start + 3 < size}
      [] kind = "Ppi" -> {0} \cup {n \in Lengths : start + 7 < size}
      [] kind = "PpiOfItself" -> {0}

Constructed(kind, frame, start, end, size) ==
    LET p == Packet(kind, frame, start, end)
    IN  CASE kind \in {"IPv4", "IPv6", "UDP"} -> Clipped(p, size)
          [] kind = "PPP" -> PointToPoints(p)
          [] kind = "HpSwField" -> HpSwFields(p, size)
          [] kind = "NetBiosSession" -> NetBiosSessions(p, size)
          [] kind = "FTP" -> FtpPackets(p, size)
          [] kind \in Elastic -> {[p EXCEPT !.header = n] : n \in HeadersSaid(kind, start, size)}
          [] OTHER -> {p}

\* Constructors that some bytes keep for ever: an FTP request with a NUL, which
\* ReadLine does not step over; a DNS name that points to itself; a NetBIOS label
\* whose letters are counted in a byte up to a number that it cannot pass.
Endless == [FTP |-> "FTPOnNul", DNS |-> "DNSOfItself",
            NetBiosName |-> "NetBiosOfWrap", NetBiosDatagram |-> "NetBiosOfWrap"]
NeverReturns(kind, start, end, size) ==
    \/ kind = "FTP" /\ start + 3 <= end
    \/ kind = "DNS" /\ start + 12 <= size
    \/ kind = "NetBiosName" /\ start + 12 < size
    \/ kind = "NetBiosDatagram" /\ start + 10 < size

\* IPv4Packet::TryParse may succeed; it looks at the frame's end, not at the
\* packet's.
Ipv4Fits(start, size) == 0 <= start /\ start + 20 <= size
IfIpv4Fits(start, size) == {kind \in {"IPv4"} : Ipv4Fits(start, size)}

\* PacketFactory::TryGetPacket, for a kind of link.  A PPI packet may contain a PPI
\* packet that starts where it starts.
OfLinkType(link, start, size) ==
    CASE link = "Ethernet" -> {"Ethernet2"}
      [] link = "IEEE_802_11" -> {"IEEE_802_11"}
      [] link = "Radiotap" -> {"Radiotap"}
      [] link = "RawIp" -> {"Raw"} \cup IfIpv4Fits(start, size)
      [] link = "RawIp6" -> {"IPv6"}
      [] link = "Hdlc" -> {"CiscoHdlc"}
      [] link = "Prism" -> {"Prism"}
      [] link = "Ppi" -> {"Ppi"} \cup {kind \in {"PpiOfItself"} : start + 7 < size}
      [] link = "Ppp" -> {"PPP"}
      [] link = "Sll" -> {"Sll"}
      [] link = "Null" -> {"NullLoopback"}
      [] link = "Erf" -> {"Erf"}
      [] link = "Sll2" -> {"Sll2"}
      [] link = "Tzsp" -> {kind \in {"Tzsp"} : start + 3 < size} \cup {kind \in {"Raw"} : start + 3 >= size}
      [] link = "Other" -> {"Raw"}

----------------------------------------------------------------------------
\* The Frame's constructor.
Framed ==
    \E link \in LinkTypes : \E n \in FrameLengths[link] : \E kind \in OfLinkType(link, 0, n) :
        \E root \in Constructed(kind, "captured", 0, n - 1, n) :
            /\ length' = n /\ reassembled' = 0
            /\ walk' = <<root>> /\ current' = root

Init == length = 0 /\ reassembled = 0 /\ walk = << >> /\ current = NoPacket

NextFrame == current = NoPacket /\ Framed

\* A packet is found in the current one; its own GetSubPackets runs next, if its
\* constructor returns.
Enter(kind, start, end) ==
    /\ UNCHANGED <<length, reassembled>>
    /\ \/ \E p \in Constructed(kind, current.frame, start, end, DataLength(current.frame)) :
              walk' = Append(walk, p) /\ current' = p
       \/ /\ NeverReturns(kind, start, end, DataLength(current.frame))
          /\ current' = Packet(Endless[kind], current.frame, start, end)
          /\ UNCHANGED walk

\* There is none: the calls return.
Leave == current' = NoPacket /\ UNCHANGED <<length, reassembled, walk>>

\* A payload of one of the kinds, up to the end of the packet.
Payload(kinds, offset) == \E kind \in kinds : Enter(kind, current.start + offset, current.end)

Room == current.end - current.start
Ipv4At(offset) == IfIpv4Fits(current.start + offset, DataLength(current.frame))

\* Ethernet2Packet::GetPacketForType
OfEtherType(offset) ==
    \/ Payload({"IPv6", "ARP", "Vlan", "Mpls", "Erspan", "PPPoE", "Ethernet2", "LLC", "Raw"}
               \cup Ipv4At(offset), offset)
    \/ Payload({"Ethernet2"}, offset + 4)     \* xHayesTunnel

----------------------------------------------------------------------------
\* GetSubPackets, class by class.

Ethernet2 ==
    /\ current.kind = "Ethernet2"
    /\ IF 14 < Room THEN OfEtherType(14) ELSE Leave

Vlan ==
    /\ current.kind = "Vlan"
    /\ IF 4 < Room THEN Payload({"IPv6", "ARP", "Vlan", "PPPoE", "LLC", "Raw"} \cup Ipv4At(4), 4) ELSE Leave

\* At the bottom of the stack an Ethernet packet after a control word, or IPv4.
Mpls ==
    /\ current.kind = "Mpls"
    /\ \/ 4 <= Room /\ (Payload({"Mpls"} \cup Ipv4At(4), 4) \/ Payload({"Ethernet2"}, 8))
       \/ Leave

Erspan ==
    /\ current.kind = "Erspan"
    /\ \E header \in {8, 12, 20} : IF header <= Room THEN Payload({"Ethernet2"}, header) ELSE Leave

PPPoE ==
    /\ current.kind = "PPPoE"
    /\ \/ \E n \in Lengths \ {0} : 6 + n - 1 <= Room /\ Enter("PPP", current.start + 6, current.start + 6 + n - 1)
       \/ Leave

PPP ==
    \/ /\ current.kind = "PPP"
       /\ \E offset \in {2} \cup {n \in {4} : 3 <= Room} :
              IF offset < Room THEN Payload({"Raw"} \cup Ipv4At(offset), offset) ELSE Leave
    \/ /\ current.kind = "PPPNotRead"
       /\ \E offset \in UnsetOffsets :
              IF offset < Room THEN Payload({"Raw"} \cup Ipv4At(offset), offset) ELSE Leave

LogicalLinkControl ==
    /\ current.kind = "LLC"
    /\ \/ IF 8 < Room THEN Payload({"ARP", "Raw"} \cup Ipv4At(8), 8) ELSE Leave
       \/ 8 < Room /\ Leave                         \* no IPv4 header, or one that is refused
       \/ IF 10 < Room THEN Payload({"HpSwitch"}, 10) ELSE Leave
       \/ IF 3 < Room THEN Payload({"Raw"}, 3) ELSE Leave

\* The fields follow one another; they have no sub-packets.
Fields == {i \in DOMAIN walk : walk[i].kind = "HpSwField"}
FieldPosition ==
    IF walk[Len(walk)].kind = "HpSwField" THEN walk[Len(walk)].end + 1 ELSE current.start + 2
HpSwitch ==
    /\ current.kind = "HpSwitch"
    /\ IF FieldPosition < current.end /\ Cardinality(Fields) < MaxFields
       THEN \E field \in Constructed("HpSwField", current.frame, FieldPosition, current.end,
                                     DataLength(current.frame)) :
               walk' = Append(walk, field) /\ UNCHANGED <<length, reassembled, current>>
       ELSE Leave

CiscoHdlc ==
    /\ current.kind = "CiscoHdlc"
    /\ IF 4 < Room THEN Payload({"IPv6", "ARP", "Vlan", "PPPoE", "Raw"} \cup Ipv4At(4), 4) ELSE Leave

LinuxCookedCapture ==
    \/ current.kind = "Sll" /\ IF 16 < Room THEN OfEtherType(16) ELSE Leave
    \/ current.kind = "Sll2" /\ IF 20 <= Room THEN OfEtherType(20) ELSE Leave

NullLoopback ==
    /\ current.kind = "NullLoopback"
    /\ \/ 4 <= Room /\ Payload({"IPv6"} \cup Ipv4At(4), 4)
       \/ Leave

\* The guard does not count the extension header and the padding.
Erf ==
    /\ current.kind = "Erf"
    /\ IF 16 < Room
       THEN \E header \in {16, 20} :
               \/ Payload({"Ethernet2"}, header + 2)
               \/ Payload({"IPv6", "CiscoHdlc", "PPP", "Raw"} \cup Ipv4At(header), header)
       ELSE Leave

\* Data, management and control frames.  A fourth address and, in data frames,
\* the quality of service may come before the payload.
Addresses == IF Room < 9 THEN 0 ELSE Min({3, (Room - 3) \div 6})
Fourth(index) == {0} \cup {n \in {6} : index + 5 <= Room}
IEEE_802_11 ==
    /\ current.kind = "IEEE_802_11"
    /\ LET index == 4 + 6 * Addresses
       IN  \/ \E fourth \in Fourth(index + 2), qos \in {0, 2} :
                 LET offset == index + 2 + fourth + qos
                 IN  IF offset < Room THEN Payload({"LLC"}, offset) ELSE Leave
           \/ \E fourth \in Fourth(index + 2) :
                 LET offset == index + 2 + fourth
                 IN  IF offset < Room THEN Payload({"Raw"}, offset) ELSE Leave
           \/ IF index < Room THEN Payload({"Raw"}, index) ELSE Leave

Radiotap ==
    /\ current.kind = "Radiotap"
    /\ IF current.header < Room THEN Payload({"IEEE_802_11"}, current.header) ELSE Leave

Prism ==
    /\ current.kind = "Prism"
    /\ IF 144 < Room THEN Payload({"IEEE_802_11"}, 144) ELSE Leave

\* A header that was cut off says Null.
Ppi ==
    /\ current.kind = "Ppi"
    /\ LET size == DataLength(current.frame)
       IN  \E link \in IF current.start + 7 < size THEN LinkTypes ELSE {"Null"} :
              /\ ~(current.header = 0 /\ link = "Ppi")
              /\ IF current.header <= Room
                 THEN Payload(OfLinkType(link, current.start + current.header, size), current.header)
                 ELSE Leave

\* A PPI packet of length 0 whose payload is PPI: the same packet again.
PpiOfItself == current.kind = "PpiOfItself" /\ Payload({"PpiOfItself"}, 0)

\* Tags up to the end tag, at the earliest in the fifth byte.
Tzsp ==
    /\ current.kind = "Tzsp"
    /\ \/ \E offset \in Lengths :
              /\ offset \in 5..Room
              /\ Payload({"Ethernet2", "PPP", "IEEE_802_11", "Radiotap", "Raw"} \cup Ipv4At(offset), offset)
       \/ Leave

\* IPv4Packet::TryGetSubPacket
Transports == {"TCP", "UDP", "ICMP", "Raw"}

IPv6 ==
    /\ current.kind = "IPv6"
    /\ IF 40 < Room THEN Payload(Transports, 40) ELSE Leave

\* A fragment waits, or completes its datagram, whose own packets come next.  No
\* more than one datagram is completed in the walk.
IPv4 ==
    /\ current.kind = "IPv4"
    /\ \/ \E header \in HeaderLengths(5..15) : IF header < Room THEN Payload(Transports, header) ELSE Leave
       \/ /\ current.frame = "captured"
          /\ \/ Leave
             \/ \E n \in ReassembledLengths :
                   /\ reassembled' = n
                   /\ current' = Packet("IPv4", "reassembled", 0, n - 1)
                   /\ UNCHANGED <<length, walk>>

\* Mutant: the payload is looked for at the start of the header.
MutTcp ==
    /\ current.kind = "TCP"
    /\ IF current.header < Room THEN Payload({"Application", "Raw"}, 0) ELSE Leave
Tcp ==
    /\ current.kind = "TCP"
    /\ LET offset == current.header
       IN  IF offset < Room
           THEN \/ Payload({"DNS"}, offset + 2)
                \/ Payload({"Application", "FTP", "Raw"}
                           \cup {k \in {"NetBiosSession"} : current.start + offset + 4 <= DataLength(current.frame)}
                           \cup {k \in {"Tpkt"} : offset + 3 <= Room}, offset)
           ELSE Leave

Udp ==
    /\ current.kind = "UDP"
    /\ IF 8 < Room
       THEN Payload({"Application", "DNS", "NetBiosDatagram", "Capwap", "Raw"}
                    \cup {k \in {"NetBiosName"} : current.start + 20 <= DataLength(current.frame)}, 8)
       ELSE Leave

Tpkt ==
    /\ current.kind = "Tpkt"
    /\ \/ \E n \in Lengths : n \in 4..(Room + 1) /\ Enter("Raw", current.start + 4, current.start + n - 1)
       \/ Leave

NetBios ==
    \/ current.kind = "NetBiosName" /\ IF 8 < Room THEN Payload({"Raw"}, 8) ELSE Leave
    \/ current.kind = "NetBiosSession" /\ ((4 < Room /\ Payload({"Raw"}, 4)) \/ Leave)
    \/ /\ current.kind = "NetBiosDatagram"      \* behind two names
       /\ \/ \E n \in Lengths \cup {0} : 18 + n < Room /\ Payload({"Raw"}, 18 + n)
          \/ Leave

\* Mutant: the payload is taken for another CAPWAP packet.
MutCapwap ==
    /\ current.kind = "Capwap"
    /\ (current.header <= Room /\ Payload({"Capwap"}, current.header)) \/ Leave
Capwap ==
    /\ current.kind = "Capwap"
    /\ \/ /\ current.start + 2 < DataLength(current.frame)
          /\ current.header <= Room /\ Payload({"IEEE_802_11"}, current.header)
       \/ Leave

\* Classes without sub-packets.
Leaf == current.kind \in {"Raw", "ARP", "ICMP", "FTP", "DNS", "Application"} /\ Leave

\* A constructor that goes on for ever.
StuckKinds == {"FTPOnNul", "DNSOfItself", "NetBiosOfWrap"}
Stuck == current.kind \in StuckKinds /\ UNCHANGED vars

AnyClass ==
    \/ Ethernet2 \/ Vlan \/ Mpls \/ Erspan \/ PPPoE \/ PPP \/ LogicalLinkControl \/ HpSwitch
    \/ CiscoHdlc \/ LinuxCookedCapture \/ NullLoopback \/ Erf \/ IEEE_802_11 \/ Radiotap \/ Prism
    \/ Ppi \/ PpiOfItself \/ Tzsp \/ IPv6 \/ IPv4 \/ Tcp \/ Udp \/ Tpkt \/ NetBios \/ Capwap
    \/ Leaf \/ Stuck

GetSubPackets == IF Len(walk) < MaxLayers THEN AnyClass ELSE current # NoPacket /\ UNCHANGED vars

Next == GetSubPackets \/ NextFrame

Spec == Init /\ [][Next]_vars /\ WF_vars(GetSubPackets)

----------------------------------------------------------------------------
\* m_packetList: the last packet with a start index is the one that stays.
List == [s \in {walk[i].start : i \in DOMAIN walk} |->
            walk[Max({i \in DOMAIN walk : walk[i].start = s})]]

Kinds == {walk[i].kind : i \in DOMAIN walk}

\* The packet that the i-th one was found in.
Enclosing(i) ==
    IF walk[i].kind = "HpSwField" THEN walk[Max({j \in 1..(i - 1) : walk[j].kind = "HpSwitch"})]
    ELSE walk[i - 1]

\* Whatever the bytes say, a packet ends in the frame, and it ends and starts
\* in the packet around it or a few bytes after; a HP switch field, a NetBIOS
\* message and an FTP reply may end after it, and a PPP header that was not read
\* makes the payload start anywhere.
LayersNest ==
    "PPPNotRead" \notin Kinds =>
        \A i \in DOMAIN walk :
            /\ walk[i].end < DataLength(walk[i].frame)
            /\ i > 1 /\ walk[i].frame = Enclosing(i).frame =>
                  /\ walk[i].start \in Enclosing(i).start .. Enclosing(i).end + 5
                  /\ walk[i].kind \in {"HpSwField", "NetBiosSession", "FTP"} \/ walk[i].end <= Enclosing(i).end

SaysEmpty(p) == p.kind \in Elastic /\ p.header = 0

\* The frame's list shows each layer, in the order of the walk, which is the order
\* in which the handler takes them: only a layer whose header says that it is
\* empty is replaced, if no datagram was put together.
LayersKept ==
    reassembled = 0 /\ "PPPNotRead" \notin Kinds =>
        \A i \in DOMAIN walk :
            /\ SaysEmpty(walk[i]) \/ List[walk[i].start] = walk[i]
            /\ \A j \in i..Len(walk) : walk[i].start <= walk[j].start

\* Taking a frame apart comes to an end, but for four reasons: a PPI packet of
\* length 0 that contains PPI, an FTP request with a NUL, a DNS name that points to
\* itself and a NetBIOS label of 128 bytes or more.
WalkEnds == []<>(current = NoPacket \/ current.kind \in StuckKinds \cup {"PpiOfItself"})
=============================================================================
