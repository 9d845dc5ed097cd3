# Triomon in TLA+

Triomon is a Qt program, ported from NetworkMiner, that opens capture files,
dissects their frames, and shows and stores the sessions and hosts it finds.
This directory models the parts of it in which state, order and concurrency
matter, checks the models with TLC, and proves what matters most with TLAPS.
Paths are relative to `src/`.

1. [Inventory](#inventory)
2. [Modules and how they correspond to the code](#modules)
3. [Runs, bounds and fairness](#runs-bounds-and-fairness)
4. [Proofs](#proofs)
5. [What the models found](#what-the-models-found)
6. [What is only model-checked, and what is not modelled](#limits)
7. [Plan](#plan)

## Inventory

`CMakeLists.txt` builds the library `triomon` from the frame, `PacketHandler`,
`NetworkHost`, `NetworkHostList`, `NetworkPacketList` and about fifty packet
classes, and the program from `main.cpp`, `MainWindow` and `DatabaseManager`.
The other directories are code of the same project that the build does not
reach yet: the reader thread, the stream and file assemblers, the protocol
handlers, the search classes, the sniffers. Both kinds are inventoried; a model says what the code
does, built or not.

| Part | State | Operations | Talks to | What is hard | What makes it right |
|---|---|---|---|---|---|
| Capture-file reader thread (`SharedUtils/Pcap/PcapFileReader`) | file position, bounded queue, two wrapping byte counters, abort flag | `run`, `hasNextPacket`, `getNextPacket`, `abortFileRead`, destructor | client thread, by one mutex and two wait conditions | test and enqueue in different critical sections, wake-ups lost before a wait, end of file, teardown | every packet in one place and in order; the limit; nobody uses what is freed; a wait ends |
| Popularity list (`PacketParser/PopularityList.hpp`) | linked list, map of iterators, pool size | `Add`, `TryGetValue`, `Remove`, `Clear` | its users, by a callback for lost entries and a delegate for growth | two structures kept in step; replacing, expiring, growing and evicting in one call | the structures agree; the pool fits; the most recent stay; each drop announced |
| IPv4 reassembly (`PacketParser/Packets/IPv4Packet.cpp`) | static pool of fragments | `GetSubPackets` | `Frame` (payload pointers), libpcap (buffer), `MainWindow` (life of the frames) | loss, repetition, overlap, reordering; a pool that outlives loads and frames | datagrams made of each fragment once, without holes, of captured bytes |
| Main window (`MainWindow.cpp`) | frames, tables, tree | `loadPcap`, `onClear` | `PacketHandler`, `DatabaseManager` | state that accumulates beside state that is replaced | the window shows the last load |
| Packet handler (`PacketParser/PacketHandler.cpp`) | sessions, hosts | `ParseFrame` | `NetworkHostList` | tunnels: several layers of a kind | a session for each IP frame |
| Host list (`PacketHandlerFramework/NetworkHostList.cpp`) | dictionary by 64-bit key | `Add`, `GetNetworkHost`, `Clear` | `PacketHandler` | IPv6 keys are hashes | one host for each key |
| Database (`DatabaseManager.cpp`) | rows in a DuckDB file | `init`, `insertSession` | `MainWindow` | refused statements, end of the process between two rows | rows are those listed, once each, in order |
| TCP stream (`PacketParser/TcpDataStream.cpp`) | segments by number, expected number, byte total, one shared view | `AddTcpData`, three ways of reading, `RemoveData`, `Clear` | its reader (`RfbRectangleAssembler`) | wrap-around, overlap, retransmission, a view on a list that changes | what is read is a piece of the stream, in order |
| Packet dissection (`PacketParser/Packets`, `Frame.cpp`) | a frame's packets by start index | `GetSubPackets` of each class | `Frame`, IPv4 reassembly | lengths inside the data, layers at one start, sub-packets of another frame | ranges nest, starts do not decrease, the list keeps the layers, the walk ends |
| Application packet formats (RFB, DNS, HTTP, FTP ...) | one packet | constructors | dissection | lengths inside the data | ranges stay inside the packet |
| File assembly (`PacketHandlerFramework/FileTransfer`) | window of 64 pieces, stream, counts | `tryActivate`, `addData`, `finishAssembling`, `clear` | protocol handlers | repetition and disorder beyond the window, activation twice | the file is the pieces, in order, once |
| RFB rectangles | rectangle under way | `addData` | `TcpDataStream` | resuming in the middle | rectangles are cut where the stream says |
| SMB sessions (`PacketParser/PacketHandlers`) | last referred file of a tree, assemblers by file id | `ExtractSmbData` | file assembly, popularity lists | answers matched by order | data goes to the file it was read from |
| TFTP transfers (`PacketHandlerFramework/PacketHandlers`) | assemblers by ports, block sizes | `ExtractData`, `Reset` | file assembly | ports that change, repeated and late blocks | one complete file for each transfer |
| FTP transfers (`PacketHandlerFramework/PacketHandlers`) | sessions, pending transfers | `TryExtractData`, `Reset` | file assembly, popularity lists | three messages on two connections in any order, keys that change | each file is sought on its own connection |
| Other protocol handlers | - | `ExtractData` | main packet handler | little | - |
| Hosts, flows, sessions, protocol finders, fingerprints | counters and tables | look-ups | handlers | little | - |
| Algorithms (`PacketParser/Utils`, Bloom and cuckoo filters, sets) | arrays | search, insert, decode | - | boundaries, widths | equal to their definitions |
| Live capture, PCAP-over-IP, named pipe, log writer | sockets, listener, process, stream | start, stop, accept, time out, write | drivers, Qt's event loop | callbacks after disposal, loops that wait for another's step | a stop ends it; a start begins it again |
| MIME, ZIP and ETL formats, former user interface, key table, bundled headers, tests | - | - | - | none over time | - |

The steps that are hard to test are listed as hazards in `PROJECT.json`, each at
its line and with the properties that watch it. Those without a property say
why.

## Modules

Names of actions and variables are those of the code. `PROJECT.json` gives, for
each definition, the lines it stands for. Definitions whose name begins with
`Mut` are mutants: the same definition with a plausible mistake, kept to show
that each property can fail. They are not part of any specification.

**`PacketChannel`** is what a capture-file reader promises, without threads:
packets are taken from the file, held up to a capacity, given in order, and
discarded when the channel is torn down.

**`PcapFileReader`** is the thread and its callers. A section under `queueMutex`
that does not wait is one action; a `QWaitCondition::wait` splits it into going
to sleep (mutex released) and returning (woken or timed out). `abortRequested`
and the position of the file are also read without the mutex, in actions of
their own (`TestAbort`, `hasNextPacket`'s and `run`'s use of `atEnd`). The
variable `reader` is where `run` is, `client` where the caller of
`hasNextPacket` / `getNextPacket` is, `owner` where the destructor is. A file is
the sequence of its records' lengths, possibly with stray bytes behind it, for
which `atEnd` is false although no record is left. `Channel` is the refinement
mapping: what is queued and what `run` has in its hand is what the channel
holds.

**`PopularityLists`** is the list as a value (entries from most to least
recently used) for modules that use one. **`PopularityList`** is the class: the
list of nodes and the map from keys to nodes are separate variables, so that a
dangling iterator would show. The expiry rule is the constant operator
`Expired`; the growth delegate may answer either way at each call; `lost` is
the sequence of announcements of the last call.

**`Ipv4Reassembly`** covers three files, because the reassembly depends on all
of them: when `MainWindow::loadPcap` reads the next record (`NextRecord`), which
overwrites libpcap's `buffer`; which frames live (`frames`, `OnClear`); and what
`GetSubPackets` does with the static `pool` (`Collect`). Fragments are named by
load and frame number. A pooled packet whose frame was deleted is read as any
member of `Wild`, and bytes that belonged to a closed file as `Junk`: the code
reads freed memory there, and every outcome must be allowed. A datagram longer
than 65535 bytes, a fragment that reaches past the sum of lengths and a missing
last fragment take the paths the code gives them.

**`CaptureSession`** is the program as its user sees it: opening a file, reading
its records one by one into sessions and hosts, listing each session and giving
it to the database, showing the hosts, clearing, and the end of the process at
any point. A record is the sequence of its IP, TCP and UDP layers. The host key
is a constant operator, so that two addresses may share one. Storing a row may
fail; reading may end with an error at any record. Left out is the null address
of an IPv6 header that was cut off, which `NetworkHostList.cpp:43` does not look up.

**`TcpDataStream`** names each byte by its position in the stream, so that a
wrong byte shows in what is read. The loop of `AddTcpData` is the recursive
function `Advanced`, that of `RemoveData` the set expression `Removed`.
`handed` is what the reader was given in its present call.
`SetInitialTcpSequenceNumber` (`PacketParser/TcpDataStream.hpp:47`) has no caller
in the repository and is no action.

**`PacketDissection`** is the recursion by which a frame becomes a list of
layers. `walk` is the sequence of packets in the order in which the nested
`GetSubPackets` return them, `current` the packet whose call runs; there is one
action for each class, and `NextFrame` is `Frame`'s constructor. What a header
says is chosen freely, so a behaviour stands for every frame whose bytes would
say so: `Lengths` are what length fields say and how long lines, names and tags
are, `HeaderWords` what the bits say that count a header's words of four bytes
(IPv4, TCP, CAPWAP). The indices, their guards and their clipping are the code's.
Headers that may say that they have length 0 (`Elastic`) are read by the
constructor, and the packet keeps what they say in `header`. `List` is
`m_packetList`. A datagram that IPv4 reassembly completes is a frame of its own
whose packets come into the list of the last fragment's frame, under their own
indices. A header that was cut off keeps what its constructor left: a PPP packet
(`PPPNotRead`) and a TCP packet have offsets that were never set
(`UnsetOffsets`), a PPI packet has length 0 and link type 0. A PPI header of
length 0 that names PPI is a kind of its own (`PpiOfItself`), and so is each
constructor that some bytes keep for ever (`NeverReturns`, `StuckKinds`), after
which nothing more happens. An FTP packet may move its end (`FtpPackets`) and a DNS
packet may not return, so these two are told apart; `Application` stands for the
other constructors of payloads, which only read (POP3, SMTP, IMAP, IRC, HTTP,
TDS, DHCP, TFTP and the rest).

**`FileStreamAssembler`** is one file under assembly, as operators from the
assembler and the disk to both afterwards, so that the handlers' modules can
compose calls within one action. The disk has numbered files, the temporary
names they are under and the names they were finished with: a stream goes on
writing to its file after that was renamed, and the temporary name depends on
addresses and ports alone, so assemblers share it.

**`TftpTransfer`** is `TftpPacketHandler` with the assemblers it creates:
`Request` and `DataBlock` are what `ExtractData` does with the two kinds of
packet, including the three pairs of ports it looks under and the replacement of
an assembler that waits under another port. The block size that parsing the
request yields (`parsed`) is any number: the loop over the options
(`TftpPacket.cpp:37`) steps twice over each text, so it may read another option's
value or none. **`SmbSession`** is
`SmbCommandPacketHandler` with its list of sessions and each session's list of
files, one operator for each command. **`FtpTransfers`** is `FtpPacketHandler`
up to the creation of an assembler. All three have an environment that sends
what a client and a server would, and a capture that misses frames and repeats
others; the variables marked `history` record what the properties need to say
which captures were orderly.

**`KnuthMorrisPratt`** and **`BoyerMoore`** are the searches, as functions over
positions with the code's tables. **`StreamReassembler`** uses the first to look
for a terminator over pieces; **`CuckooFilter`** has a bucket as the sequence of
the fingerprints that its four bytes hold, and the sign of the int where it
matters: a bucket that is negative is never shifted to 0.

**`FileSessions`** has `SmbSession` and `FtpTransfers` as instances. The two
handlers share no state, so a behaviour is a capture of one protocol and the
other handler stays as it was created. Its assumptions say that no list has room
for nothing, that a transfer has one place in its session, and that ports are
numbers.

**`Sums`** adds up numbers over a set. **`MC*`** give the constants their small
values; `MCTextSearch` also chooses at the start which of two modules runs, as
those share no state. **`*_proofs`** and **`SequenceFacts`** (facts about
sequences, sums and popularity lists as values that several proofs use) hold the
theorems.

How they fit together: `Ipv4Reassembly` builds on `PopularityLists` and `Sums`;
`PcapFileReader` implements `PacketChannel`;
`CaptureSession` composes window, handler, host list and database in one
specification, since they run in one call on one thread and share its state;
`TftpTransfer` and `SmbSession` compose a handler with `FileStreamAssembler`, and
`SmbSession` and `FtpTransfers` build on `PopularityLists`, and `FileSessions`
on these two; `StreamReassembler` builds on both searches.

`PacketParser/Packets/PopularityList.hpp`, a second class of the same name
without a limit, is included by nothing; `IPv4Packet` uses the one modelled.

## Runs, bounds and fairness

| Run | What it checks | Instance | Distinct states |
|---|---|---|---|
| `pcap_reader` | packets are conserved and in order, the limit holds, the byte counters tell the queue's bytes, at most the last packet is missed, nobody uses the destroyed object, the channel is implemented, abort and destructor end, the file is delivered | 4 records, with and without stray bytes, queue of 2, counters modulo 13 | 1,342 |
| `pcap_reader_eof` | *violation*: a reader at the end of its file stops | 3 records | |
| `popularity_list` | list and map agree, the pool fits, the most recent stay, each drop is announced once, the least recently used first | 4 keys, pool growing from 2 to 3, 3 ages | 246 up to symmetry |
| `ipv4_reassembly` | what waits is unfinished, what is delivered is whole, no fragment is used twice, ordered datagrams complete | 12 captures, two loads, pool of 2 | 2,413 |
| `ipv4_frame_data` | *violation*: a datagram holds the bytes captured | as above | |
| `capture_session` | the database follows the table, the window shows the last load, a host is the first address of its key, loads end | 3 files, 3 addresses of which 2 share a key, two loads, one end of the process | 4,508 |
| `tcp_stream` | what is read is a piece of the stream, in order and complete when it arrived so; the view stays within the list | 6 bytes in 7 segments, numbers modulo 9 from 3, views of at most 2 packets, 9 bytes in all | 43,301 |
| `tcp_stream_wrap` | *violation*: nothing to read means something is missing | as above | |
| `packet_dissection` | layers nest, the frame's list keeps all but those whose header says that it is empty, in the order of the walk, and the walk ends but for four causes | 15 kinds of link, one to four lengths each, length fields of 3, 5 or 30, headers of 0, 2, 5 or 6 words, at most 15 layers | 129,375 |
| `tftp_transfer` | a transfer captured completely is published, once and unchanged; no transfer has two files; what is published stays | 7 transfers, window of 2, numbers modulo 4, 6 frames | 615,292 |
| `file_sessions` | SMB: a session without surprises gets its files, and no file is made of two answers; FTP: files are sought on their connection, and a complete transfer is assembled | SMB: 3 captures of 3 files, 1 session and 2 files in the lists, 1 fault; FTP: 3 captures of 3 transfers, lists of 2, 2 faults | 1,268,443 |
| `text_search` | both searches find what occurs; a terminator is noticed with its last byte and what is used ends there; the filter forgets nothing but what it says | 2 bytes, terminators of 1 to 4, streams of 6 in all cuts; 5 items, 2 buckets, 10 inserts | 171,973 |

**Why the bounds are enough.**

- *Reader.* The queue (2) is smaller than the file (4), so that the reader waits
  on a full queue, the client on an empty one, and either may be woken, time
  out or be aborted while more records follow. The counters wrap within the
  file, since the sum of its lengths, 16, exceeds 13. The lengths are distinct
  sums, so that miscounting any packet shows.
- *Popularity list.* Four keys over a pool of three: one insertion can replace,
  expire, grow and evict. Ages 0 to 2 with expiry beyond one tick give lists in
  which a fresh entry stands behind an expired one, which is where expiry from
  the back alone decides. No bound limits the number of operations.
- *IPv4.* Every order of three fragments; a missing last one; a repeated and an
  overlapping one; three datagrams over a pool of two, which evicts; an
  unfragmented packet in between; a datagram beyond the limit of 65535 bytes
  (six blocks here). Two loads, with or without a clear between them, are the
  fewest that let fragments of one file meet those of another and of deleted
  frames. `Wild` has a value that completes a datagram and one that does not.
- *Capture session.* Two loads show accumulation against replacement, before
  and after a clear; one end of the process at any of its steps separates what
  is stored from what is shown. One file has an address with the key of
  another on either side of a session; one has a tunnel; one a frame without
  IP.
- *TCP stream.* The numbers start at 3 of 9, so that the sixth byte is the last
  before the wrap and the expected number wraps. Segments of one to three bytes
  overlap, leave holes and lie inside one another. Nine bytes allow the whole stream with half of it
  repeated. Views of two packets are the fewest that can be extended.
- *Dissection.* The lengths of frames lie on both sides of every header's size
  for each link. Length fields of 3, 5 and 30 are smaller than a header, inside
  and outside the packet. Headers of 0 and 2 words are empty and shorter than the
  least header, 5 is the least of IPv4 and TCP, and 6 has options. Fifteen layers exceed every walk that ends on these
  frames: a walk that comes there goes on for ever, which `WalkEnds` would show.
- *TFTP.* A window of two is full with the third block, and numbers modulo four
  come round within the longest transfer. Six frames are a transfer of three
  blocks with its request, and two repeated, late or another transfer's frames.
  Two transfers use one client port; one has its block size lost in parsing; one
  with blocks of the default size has a size of 0 read from its request; one
  client uses the port that servers are asked at, whose assembler is found with
  the ports of all others.
- *Sessions.* Each list holds fewer than a capture fills. One missed or
  repeated frame in an SMB capture, or two in FTP, are combined with every order
  in which clients and servers may send: repeating a frame after later ones of
  another file is among them.
- *Search.* Needles of four over two bytes include all that overlap themselves,
  which is where the two tables differ from a plain search. Ten inserts into two
  buckets of four overfill the filter; `MAX_KICKS` is 3, so that giving up
  happens.

**Fairness.** `PcapFileReader!FairSpec` is weakly fair to the reader thread, to
the client's calls (`ClientCalls`), and to a destructor under way: threads are
scheduled by the operating system, no section of code blocks while it holds the
mutex, and every wait on a condition is timed (100 ms), so a thread is never disabled for ever.
Fairness to the client's calls includes the next `hasNextPacket`: a client
keeps asking as long as it does not leave (`ClientLeaves`), which it may do at any
time between two calls, as a caller's loop does; `FileIsDelivered` needs that.
Nothing makes the owner abort or destroy.
`CaptureSession` is weakly fair to the steps of a load: one call on the
window's thread, which either goes on or ends with the process. `PacketDissection` is weakly fair
to `GetSubPackets`: it is a recursion within one call of `Frame`'s constructor,
which nothing else can stop, and no fairness makes a further frame come. The
other modules check safety only and assume no fairness.

**Deadlock** is checked for the reader (a destroyed object is its only end), the
popularity list, the capture session and dissection. The IPv4 and TCP models
stop when their bounds on loads or bytes are used up, a capture ends, and a
stream is no longer offered once its terminator is found, so the other runs do
not check it.

## Proofs

The proofs hold for every value of the constants under the modules' named
assumptions: sizes are natural numbers, files are sequences of records, a
terminator is not empty, an IP record carries some payload, the allocator has a
node to give, a TFTP block of full size is not empty, a capture of SMB or FTP
sessions is finite, ids of SMB files are numbers and ports are numbers. Each follows the same
pattern: an inductive invariant `IInv`, `Init => IInv`, a lemma for each
action, `IInv /\ [Next]_vars => IInv'`, and one temporal step.

- **`PcapFileReader_proofs`**: `TypeCorrect`, `NoPacketLost`,
  `QueueStaysBounded`, `NoUseAfterDestroy`, `CountersGiveBytes`,
  `ClientMissesAtMostTheLast`, `ReaderImplementsChannel`.
  `IInv == TypeOK /\ Control /\ NothingLost /\ QueueBounded /\ DestroyedIsUnused`.
  `QueueBounded` is stated with room for the packet that `run` has decided to
  read; the plain bound is not inductive, since the test and the enqueue are in
  different critical sections. `Control` ties the packet in `run`'s hand to
  where `run` is, and the client to where the owner is. `BytesAgree` says that
  the two byte counters differ from the queue's bytes by a multiple of their
  width, which each of them wraps at on its own. `LastBehind` says what a client
  that stopped has left behind. The refinement maps reading a record to `Take`,
  dequeuing to `Give`, draining to `TearDown`, and all else to stuttering.
- **`Utils_proofs`**, about the list: `ListTypeCorrect`, `IndexIsConsistent`,
  `PoolIsRespected`, `MostRecentAreKept`, `DropsAreAnnouncedOnce`, for any
  delegate and expiry rule. `IInv == TypeOK /\ IndexMatchesList /\ WithinPool`;
  the lemmas say that erasing at an iterator, pushing to the front and cutting
  the end keep keys and nodes distinct. `RInv` runs the history of uses beside
  the list: the list's keys are the first ones of it, and it has each key once.
  What is announced in a step is counted from `IInv` alone (`EachOnce`); that it
  is in the order of use, oldest first, needs `RInv` (`LaterUsed`).
- **`Utils_proofs`**, about the searches: `SearchesFind`, `SearchesAreRight`,
  `TerminatorsAreNoticed`, `UsedEndsWithTerminator`, for every alphabet, pattern,
  text, offset and cut into pieces. The model writes each loop of the code as a
  recursive function of the loop's variables. `LoopExists` gives such a function
  its values, by a rank that falls with each turn, and `LoopEnds` says that what
  every turn keeps holds of the turn that stops. With these two lemmas the
  failure table gives the longest prefix that is also an end (`FailureFalls`), and
  `FallenFinds` that falling back along a right table meets the longest match
  that the next byte extends: the same lemma serves the computation of the
  table, which reads the part filled in so far, and the search. Of Boyer and
  Moore's two tables it is shown that the needle cannot occur at an end they move
  over (`OffsetTableMoves`: a suffix or a prefix of the needle would have had to
  agree there, and the table has the least such shift; `ByteTableMoves`), so the
  greater of the two moves is safe and is at least one (`MovedFacts`). For the
  reassembler, `StreamInv` adds that the data stored is all that has arrived
  until a terminator is found. A terminator that is not in the data before the
  new piece begins in the bytes kept of it or in the piece (`FoundFinds`), and
  what is searched again is just long enough.
- **`Ipv4Reassembly_proofs`**: `ReassemblyTypeCorrect`, `PoolWaitsForLast`,
  `NoFragmentTwice`, `DatagramsAreWhole`, `InOrderDatagramsComplete`.
  `FragmentUsedOnce` becomes inductive with the knowledge
  that a fragment that waits or was delivered was read in the past
  (`WaitingArePast`, `DeliveredArePast`: the record being read is in neither),
  that a delivered one does not wait (`DeliveredDoNotWait`), and that one key
  has one entry with fragments of that key only (`OneEntryPerKey`,
  `EntriesMatch`: removing the key's entry removes all that was delivered).
  `NoHoles` counts: intervals that do not overlap, whose lengths add up to the
  end of the last one, fill it. For datagrams in order, `OInv` says where each
  one of the present file is on its way (`OnTheWay`: not begun, waiting with just
  the fragments read so far, or delivered), which needs that no identifier of
  the file gives way before those of earlier files (`NewKeysAhead`) and that the
  frames are there (`FramesHeld`).
- **`CaptureSession_proofs`**: `CaptureTypeCorrect`, `DatabaseIsFaithful`,
  `HostsStayFirst`, `WindowIsCurrent`.
  `DatabaseFollowsTable` needs to know that the row about to be stored was
  listed after everything in the database (`OpenRowIsLast`); otherwise appending
  it could break the order. What the window shows between loads rests on what
  holds during one (`WInv`): every address read has a host (`AllHaveHosts`), and
  the table ends with the sessions listed so far (`TableEndsWith`).
- **`Connections_proofs`**, about the streams: `NothingSkipped`, `ViewStaysInside`,
  `ReaderGetsPieces`, `RemovalTakesTheBytesRead`, `OrderedStreamIsRead`, for every
  set of segments and size of the number space. `FrontierArrived` is not inductive: the
  loop of `AddTcpData` walks over entries that came earlier or are the rest of a
  removal. The invariant says that the bytes of each entry are a piece of the
  stream that has arrived, at the position its number stands for (`AllHeld`;
  segments are shorter than the number space, so there is one such position).
  The loop is a recursive function: `TurnsExist` shows that it has values, by
  the least number of turns without, and `AdvancedReached` that each turn keeps
  the invariant. What is handed to the reader is the first entries joined:
  each byte of it falls into one of them (`FallsIntoOne`), and entries whose
  keys continue one another are consecutive in the stream
  (`ContinuingIsGapFree`).
  A removal takes what a reader saw first: all entries joined are the content
  (`AllContent`), the rest of a cut entry gets a number before the next ones even
  when it wraps (`RestComesFirst`), and what is left is what came behind the bytes
  removed (`RemovedContent`), for lists whose segments are apart (`Apart`). While
  the stream comes in order the list is a queue of it, from the first byte not
  removed to the last one that arrived (`Ordered`): a queue has no overlaps
  (`QueueApart`), its keys are in the order of the bytes before the numbers wrap
  (`KeysOfQueue`), a segment that continues it extends it (`QueueExtended`) and the
  loop stops behind that segment (`AdvancedOver`).
- **`Connections_proofs`**, about the SMB sessions: `OneAnswerEach`,
  `PlainReadsPublished`, for every capture and every size of the lists.
  `SInv` says that an assembler that is listed is as it was created, or
  active with nothing written; all temporary files are empty and all published
  ones have one piece. `PlainReadsArePublished` is about a whole capture, and
  its invariant, `PlainInv`, describes a session that was plain so far
  (`AsExpected`): it has exactly one assembler for each of its files that wait,
  under id 0 until the creation is answered and under the file's id then
  (`EntriesFor`), each as it was created; the file of the latest frame is the one
  its tree referred to last, and the only one with a request under way
  (`LastSeen`, `InStep`); and a file is published once its data came, not before
  (`Publication`). One lemma for each kind of frame, seen for the first time or
  again, leads from one such session to the next (`FrameSeen`). It needs that no
  two open files of a session have one id, nor has an open one that of the file
  just closed (`ExchangesInTurn`): only then does a close that is captured twice
  not remove another's assembler. A frame of another session changes neither the
  session nor its files (`Concerns`, `LeavesAlone`), as a list with room for all
  sessions seen drops none (`SessionRoom`). The proof showed that the property
  must ask for ids other than 0, which no capture of the run had: a file with
  that id waits where the next one to be created does, and is replaced by it.
  One capture has such a file now, without whose exclusion the run fails.
- **`FileTransfers_proofs`**: `PublishedIsFinal`, `OneFileEach`,
  `CompleteTransfersArePublished` for TFTP, `FilesOnTheirConnection` and
  `CompleteTransfersAreAssembled` for FTP, for every capture and every size of
  window and lists.
  - *TFTP.* `TInv` says that each listed assembler writes to a file that nobody
    renamed, under its own temporary name (`Backed`), and holds only pieces of
    the transfers that have its ports. Every operation of the file assembler is
    then an `Onward` step of the disk: files that have been published are
    neither written nor renamed, and only the assembler's own file grows.
    `OneFileForEachTransfer` needs in addition that all pieces of a transfer with
    ports of its own are in the one file of the assembler of those ports
    (`OneLife`). The assembler stays listed, but for a client on the port that
    servers are asked at, where a replacement is excluded instead.
    `CompleteTransferIsPublished` is about a whole capture, so the invariant
    follows a transfer that has been orderly so far: its assembler waits for the
    first block, or has exactly the blocks that came, or its file is published
    (`CaughtUp`). The blocks that left the window are in the file, in their
    order and before those in the window, which is full by then (`Assembling`); an
    orderly block belongs into the window or behind what is written (`InTime`).
    What is written is therefore ascending, and an ascending sequence of all
    blocks of a transfer is its file (`AscendingIsFile`, `WrittenAtEnd`). Steps for
    other transfers leave this one's entries alone (`FoundElsewhere`,
    `CaughtUpKept`), for which the keys and sizes in the tables must be known
    (`KeysKnown`).
  - *FTP.* `FtpKnows` supposes an owner for each pending transfer: the transfer
    that announced it. A session has the pending transfer of its present turn
    (`InTurn`), and what is known of a pending transfer, ports, direction and
    file, is its owner's (`IsPendingOf`). The key of a listener can be that of
    several transfers, so the step that matters is a connection to it: it belongs
    to the pending transfer only because, of those that use this listener, no
    other can still be connected (`Free`, from `FtpEnv`, which is about clients
    and servers alone). When an announcement was missed, none of this is claimed.
    `SureInv` is about a whole capture again. A transfer that is sure and is its
    session's present one `Waits` until it is complete: its pending transfer is
    found through session and list, has exactly what the frames so far said, and
    is the only one like it (`Follows`); and whatever stands before its entry is
    due to transfers newer than it (`Within`). A newer transfer accounts for one
    entry, or for two when another has its ports (`EntriesCount`), so what
    `Entries` counts bounds the place of the entry, and the list, which cuts its
    end, does not cut it (`PlaceKept`). Once complete, the transfer has one
    assembler, and no session seeks its file any more (`Settled`, `Idle`), so no
    later frame adds another. The attempt at this proof showed two captures that
    the history of sure transfers had let pass, both beyond the bounds of the run:
    a whole dialogue that is captured again after the end, which brings a second
    assembler, and a transfer on another's ports, which takes two places in a list.
- **`PacketDissection_proofs`**: `LayersAreNested`, `LayersStayListed`, for every
  set of frame lengths, whatever headers say and memory holds. `Lengths` is any
  set of natural numbers and `HeaderWords` any words that five bits can count, so
  the proof covers every value of every length field. The
  invariant says more than the properties because `GetSubPackets` works on
  `current`: it is the last of the walk, or the HP switch packet whose fields
  end the walk, or the root of a datagram (`CurrentInv`); a start is never
  smaller than that of any layer before, and larger unless that layer's header
  says that it is empty (`OrderInv`). `Constructing` says for each constructor how far it
  may move the end, `Appending` that any packet so constructed may join the
  walk, and one lemma for each group of classes that its payloads are such
  packets. `LayersKept` follows from `OrderInv` without a look at `List`'s history.
- **`SequenceFacts`**: the greatest of some positions, the least of some numbers,
  sums over sets, appending, and the operations of the popularity list as a
  value: which entries they leave, and which stand before which. The library's induction theorems take an operator, which the installed
  provers cannot instantiate; an induction over numbers is therefore the choice
  of a least number without the property, and a sum over a set is the
  cardinality of a set of pairs, about which the library has theorems.

## What the models found

- **The reader thread spins at the end of the file**
  (`SharedUtils/Pcap/PcapFileReader.cpp:91`). `shouldRead` is false once the file
  is at its end, so the `break` commented "EOF or error" is never reached and
  the loop turns, without waiting, until someone aborts it.
- **Reassembled datagrams do not hold the captured bytes**
  (`PacketParser/Packets/IPv4Packet.cpp:153`). Earlier fragments are copied
  through frame pointers into libpcap's buffer, which later records overwrite.
- **A TCP stream stops being readable when its numbers wrap**
  (`PacketParser/TcpDataStream.cpp:106`). Numbers are compared, and the map
  sorted, as if they did not wrap.

The models also show limits of the code on which its text is silent, and state
them as the weaker properties that do hold: a client may miss the last packet of
a file (`MissesAtMostTheLast`); a datagram whose fragments overlap may have holes
(`DeliveredWhole`); the last fragment overtaking another drops the datagram
(`InOrderCompletes` asks for order); a TCP stream is only sure to be read in
order and completely when it arrives so (`InOrderIsRead`); a layer whose header
says that it has length 0 is replaced in the frame's list by what it contains
(`LayersKept`: a TCP, radiotap, PPI or CAPWAP header may say so); an FTP reply
without a line end is read on behind its packet, into a trailer, and its layer
ends there (`FtpPacket.cpp:172`; `LayersNest`); an SMB file in several reads gets only the
first answer's data, requests sent at once mix files up, and a file whose id is 0
is taken for one that is being created (`PlainReadsArePublished` asks for none of
these); a TFTP file is only sure to be found
when its ports are used once, the numbers of its blocks do not wrap, its block
size is the one the handler takes it to have (`Understood`: "blksize 512, tsize 0"
yields 0, with which no data is taken and no last block seen) and no client seen uses port
69 itself, since such a client's assembler is also found with the ports of every
other, and a request repeated after data may bring a second file (`CompleteTransferIsPublished`,
`OneFileForEachTransfer`); an FTP transfer whose announcement was missed may go
to another's connection (`FileOnItsConnection`); a terminator spread over two
pieces is not the one that counts as used when the second piece holds one of its
own (`UsedUpToTerminator`); a look-up in a cuckoo filter with a full bucket whose
oldest fingerprint is 128 or more may not end (`NothingForgotten`).

Taking a frame apart does not come to an end for four causes, which `WalkEnds`
names: a PPI header of length 0 that names PPI is its own payload
(`PpiPacket.cpp:41`); the loop over an FTP request does not step over a NUL
(`FtpPacket.cpp:137`); a DNS name that points to itself is followed
(`DnsPacket.cpp:29`); and a NetBIOS label is counted in a byte (`NetBiosPacket.cpp:65`),
which cannot pass 255, the longest label, nor twice the length of one of 128 bytes
or more, for which `TryParseNetBiosName` counts again. Outside the range checked,
`BoyerMoore::LastIndexOf` with an empty needle never ends; terminators are not empty.

## Limits

*Only model-checked*: all liveness (`AbortStopsReader`, `DestructorReturns`,
`FileIsDelivered`, `LoadEnds`, `WalkEnds`), which is beyond the prover, as is
`ENABLED`; and `NothingForgotten`, as `CuckooFilter` declares a `RECURSIVE`
operator, for which the prover loses its SMT backend, and uses bitwise operators.
All other invariants and action properties that the runs check are theorems.

*Abstracted*: header fields other than those that decide control; text,
formatting and logging; time, except as an ordering of events and as timeouts
that may fire at any moment; the choice of the database's path; messages shown
to the user. `QFile`, `QWaitCondition`, libpcap's buffer and DuckDB's statements
are modelled from how the code uses them.

*Not modelled*: the components that `PROJECT.json` lists as such, each with its
reason.

- Two thirds of the files' lines are DuckDB's public headers under
  `bundle/include`, which declare what the program only calls; most of the rest
  are parsers that turn one payload into one object (`RfbPacket.cpp` is the
  longest), tables, and the port's copy of the former user interface. None has
  behaviour over time, so the mapped share of all lines stays small although
  the parts with state are covered.
- The list of file assemblers is a set of empty functions; the HTTP kinds of
  file end in code that is only a comment; most handlers are not reached by the
  build and refer to classes that do not exist.
- The sniffers, the PCAP-over-IP receiver, the named-pipe reader and the log
  writer have no caller in the repository, or only stubs, and what they would do
  is decided by Qt's event loop, sockets and processes, of which the code says
  too little for a model that would not be invented.
- RFB rectangles are data taken from a stream whose taking is modelled; the
  Huffman decoder and the Bloom filters are functions of one value.

## Plan

Done: everything under [Modules](#modules) and [Proofs](#proofs). What is left,
in this order, is what more could be said of the parts that are modelled:

1. **`ByteStream`**, the abstract specification of a stream (bytes become
   available in order and are consumed), which `TcpDataStream` implements for
   streams in order.
2. **The application layers** of `PacketDissection` that have sub-packets of
   their own once they are in the build, and the HTTP kinds of
   `FileStreamAssembler` once their end is written.
