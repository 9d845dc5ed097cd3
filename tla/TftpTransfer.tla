---------------------------- MODULE TftpTransfer ----------------------------
(***************************************************************************)
(* PacketHandlerFramework/PacketHandlers/TftpPacketHandler.cpp: files      *)
(* assembled from TFTP transfers that a capture shows.  A request goes to  *)
(* port 69; the data blocks come from or go to the port the server chose,  *)
(* so the handler finds a transfer's assembler by trying three pairs of    *)
(* ports.  The capture may miss frames, and has repetitions and late       *)
(* frames.                                                                 *)
(*                                                                         *)
(* Lengths are in parts of a block: a block of the default size has        *)
(* DefaultBlksize parts.                                                   *)
(***************************************************************************)
EXTENDS FileStreamAssembler

CONSTANTS
    Transfers,         \* [kind, clientPort, serverPort, blocks, last, blksize, parsed]:
                       \* blocks of blksize parts, the last one of last parts;
                       \* parsed is the size that parsing the request yields,
                       \* any number: the loop over the options steps twice over
                       \* each text and reads a value from somewhere behind it
    BlockModulus,      \* 2^16
    DefaultBlksize,    \* DEFAULT_BLKSIZE
    DefaultPort,       \* DefaultUdpPortNumber, 69
    MaxFrames          \* bound: frames captured in all

ASSUME TransfersAssumption ==
    \A t \in Transfers : /\ t.kind \in {"read", "write"}
                         /\ t.blocks \in Nat \ {0} /\ t.blksize \in Nat \ {0}
                         /\ t.last \in 0..(t.blksize - 1)
                         /\ t.parsed \in Nat
ASSUME TftpBoundAssumption ==
    MaxFrames \in Nat /\ BlockModulus \in Nat \ {0} /\ DefaultBlksize \in Nat \ {0}

VARIABLES
    list,       \* the list of assemblers: from pairs of ports to assemblers
    blksizes,   \* tftpSessionBlksizeList
    disk,
    seen,       \* history: the frames of each transfer captured, 0 for the request
    orderly,    \* history: so far nothing came that the assembler cannot put right
    whole,      \* history: transfers whose last block ended an orderly capture
    retried,    \* history: transfers whose request was captured after data
    frames

vars == <<list, blksizes, disk, seen, orderly, whole, retried, frames>>

Init ==
    /\ list = << >> /\ blksizes = << >> /\ disk = EmptyDisk
    /\ seen = [t \in Transfers |-> {}]
    /\ orderly = Transfers /\ whole = {} /\ retried = {}
    /\ frames = 0

----------------------------------------------------------------------------
\* The five-tuple of a frame or an assembler: source and destination.
Client(t) == <<"client", t.clientPort>>
Server(port) == <<"server", port>>

RequestTuple(t) == <<Client(t), Server(DefaultPort)>>
DataTuple(t) ==
    IF t.kind = "read" THEN <<Server(t.serverPort), Client(t)>>
    ELSE <<Client(t), Server(t.serverPort)>>

WithPort(endpoint, port) == <<endpoint[1], port>>

\* TryGetTftpFileStreamAssembler: the pairs of ports it tries, in this order.
Candidates(tuple) ==
    <<tuple,
      <<WithPort(tuple[1], DefaultPort), tuple[2]>>,
      <<tuple[1], WithPort(tuple[2], DefaultPort)>>>>

Found(tuple) == \E i \in 1..3 : Candidates(tuple)[i] \in DOMAIN list
FoundTuple(tuple) ==
    LET c == Candidates(tuple)
        is == {i \in 1..3 : c[i] \in DOMAIN list}
    IN  c[CHOOSE i \in is : \A j \in is : i <= j]

\* GetTftpSessionId does not depend on the direction.
SessionId(tuple) == {tuple[1], tuple[2]}
BlksizeOf(tuple) ==
    IF SessionId(tuple) \in DOMAIN blksizes THEN blksizes[SessionId(tuple)] ELSE DefaultBlksize

\* TryCreateNewAssembler: the assembler of the file's direction, from port 69.
NewTuple(t) ==
    IF t.kind = "read" THEN <<Server(DefaultPort), Client(t)>> ELSE RequestTuple(t)

\* The history of a frame: number 0 is the request.  A block of an orderly
\* capture comes after its request, before it is too late for the window, and
\* the last block after all others.
Arrived(t, number) ==
    /\ frames < MaxFrames /\ frames' = frames + 1
    /\ seen' = [seen EXCEPT ![t] = @ \cup {number}]
    /\ LET stillOrderly ==
               IF number = 0 THEN seen[t] \subseteq {0}
               ELSE /\ 0 \in seen[t]
                    /\ Cardinality({m \in seen[t] : m >= number}) <= WindowSize
                    /\ number = t.blocks => 0..(t.blocks - 1) \subseteq seen[t]
       IN  /\ orderly' = IF stillOrderly THEN orderly ELSE orderly \ {t}
           /\ whole' = IF number = t.blocks /\ stillOrderly /\ t \in orderly
                       THEN whole \cup {t} ELSE whole
    /\ retried' = IF number = 0 /\ seen[t] \ {0} # {} THEN retried \cup {t} ELSE retried

\* A request.  When the search finds an assembler (that of an earlier write
\* request) nothing is created.
Request(t) ==
    /\ Arrived(t, 0)
    /\ IF Found(RequestTuple(t))
       THEN UNCHANGED <<list, blksizes>>
       ELSE /\ list' = Put(list, NewTuple(t), NewAssembler(NewTuple(t), "TFTP", t))
            /\ blksizes' = IF t.parsed = DefaultBlksize THEN blksizes
                           ELSE Put(blksizes, SessionId(RequestTuple(t)), t.parsed)
    /\ UNCHANGED disk

Length(t, number) == IF number = t.blocks THEN t.last ELSE t.blksize

\* TftpPacket's data block: no longer than the size it is parsed with.
IsLast(size, blksize) == size < blksize
Piece(t, number, blksize) ==
    [transfer |-> t, number |-> number, size |-> Min({Length(t, number), blksize})]

\* ExtractFileData: an assembler that waits under another port is replaced by
\* one with the frame's ports.
Replaced(tuple, at) ==
    IF ~list[at].active /\ at # tuple
    THEN [list |-> Put(Without(list, at), tuple, NewAssembler(tuple, "TFTP", list[at].name)),
          disk |-> ClearAssembler(list[at], disk).disk]
    ELSE [list |-> list, disk |-> disk]

\* A data block: the assembler found is activated if need be, gets the block
\* and after the last one is finished.
DataBlock(t, number) ==
    LET tuple == DataTuple(t)
        at == FoundTuple(tuple)
        blksize == BlksizeOf(tuple)
        piece == Piece(t, number, blksize)
        moved == Replaced(tuple, at)
        active == IF moved.list[tuple].active
                  THEN Result(moved.list[tuple], moved.disk)
                  ELSE TryActivate(moved.list[tuple], moved.disk)
        added == AddData(active.assembler, active.disk, piece, number % BlockModulus)
        done == IF IsLast(piece.size, blksize)
                THEN FinishAssembling(added.assembler, added.disk) ELSE added
    IN  /\ Arrived(t, number)
        /\ IF Found(tuple) /\ tuple \in DOMAIN moved.list
           THEN /\ list' = Put(moved.list, tuple, done.assembler)
                /\ disk' = done.disk
           ELSE UNCHANGED <<list, disk>>
        /\ UNCHANGED blksizes

\* Reset, between two captures: the negotiated sizes are forgotten.
Reset ==
    /\ frames < MaxFrames /\ frames' = frames + 1
    /\ blksizes # << >> /\ blksizes' = << >>
    /\ orderly' = {t \in orderly : seen[t] = {}}
    /\ UNCHANGED <<list, disk, seen, whole, retried>>

Next ==
    \/ \E t \in Transfers : Request(t) \/ \E number \in 1..t.blocks : DataBlock(t, number)
    \/ Reset

Spec == Init /\ [][Next]_vars

----------------------------------------------------------------------------
\* The transfer's ports were used by no other one in the capture, and its size
\* of block is the one the handler takes it to have: what parsing made of the
\* request, if the server answers from port 69, and the default otherwise.
Separate(t) == \A u \in Transfers : u # t /\ seen[u] # {} => u.clientPort # t.clientPort
Understood(t) == t.blksize = IF t.serverPort = DefaultPort THEN t.parsed ELSE DefaultBlksize
\* No client uses the server's port itself: its assembler would be found with
\* every other client's tuple.
ClientsElsewhere == \A u \in Transfers : seen[u] # {} => u.clientPort # DefaultPort

FileOf(t) == [i \in 1..(IF t.last = 0 THEN t.blocks - 1 ELSE t.blocks) |->
                [transfer |-> t, number |-> i, size |-> Length(t, i)]]
FilesOf(t) == {i \in DOMAIN disk.output :
                  \E j \in DOMAIN Output(disk)[i].data : Output(disk)[i].data[j].transfer = t}

\* A transfer whose blocks were all captured, none later than the window can
\* put right, gives one file of its name with exactly its data, whatever is
\* repeated on the way or comes after it, if its numbers do not wrap and its
\* request was not misread: a size of 0 for the 512 of "blksize 512, tsize 0"
\* makes the handler take no data and see no last block.
CompleteTransferIsPublished ==
    \A t \in whole \ retried :
        Separate(t) /\ ClientsElsewhere /\ Understood(t) /\ t.blocks < BlockModulus =>
            \E i \in DOMAIN disk.output : /\ FilesOf(t) \subseteq {i}
                                          /\ Output(disk)[i] = [name |-> t, data |-> FileOf(t)]

\* A repeated last block finishes its assembler again, but not the file: no
\* transfer has two files, however much was lost, unless its request was
\* repeated or its ports used again.
OneFileForEachTransfer ==
    \A t \in Transfers \ retried : Separate(t) => Cardinality(FilesOf(t)) <= 1

\* What was published is never written to again.
PublishedFilesStay == [][IsPrefix(Output(disk), Output(disk'))]_vars
=============================================================================
