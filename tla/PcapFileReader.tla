--------------------------- MODULE PcapFileReader ---------------------------
(***************************************************************************)
(* SharedUtils/Pcap/PcapFileReader.{hpp,cpp}: a QThread that reads records *)
(* from a capture file into a bounded queue, and the client thread that    *)
(* takes them out.                                                         *)
(*                                                                         *)
(* The threads are the reader thread (run), one client thread that loops   *)
(* hasNextPacket / getNextPacket, and the owner, who may call              *)
(* abortFileRead and who runs the destructor.  A section of code under     *)
(* queueMutex that does not wait is one step; a wait on a QWaitCondition   *)
(* splits the section, because it releases the mutex.  abortRequested and  *)
(* the position of the file are also read without the mutex, each such     *)
(* read in a step of its own.                                              *)
(***************************************************************************)
EXTENDS Sequences, Sums

CONSTANTS
    FileSizes,        \* captured length of each whole record of the file
    PACKET_QUEUE_SIZE,
    CounterMod        \* the byte counters are C++ ints: arithmetic modulo this

ASSUME FileAssumption == FileSizes \in Seq(Nat)
ASSUME QueueAssumption == PACKET_QUEUE_SIZE \in Nat \ {0}
ASSUME CounterAssumption == CounterMod \in Nat \ {0}

VARIABLES
    trailingBytes,     \* TRUE: one to three stray bytes follow the last record
    pos,               \* records the file position has passed
    packetQueue,
    enqueuedByteCount,
    dequeuedByteCount,
    abortRequested,
    reader,            \* where run() is
    packet,            \* run()'s local: the record read and not yet queued, 0 if none
    client,            \* where the client is
    owner,             \* where the owner of the object is
    received,          \* packets getNextPacket returned, in order
    deleted            \* packets the destructor deleted, in order

fileVars  == <<trailingBytes, pos, packet>>
queueVars == <<packetQueue, enqueuedByteCount, dequeuedByteCount>>
vars == <<trailingBytes, pos, packetQueue, enqueuedByteCount, dequeuedByteCount,
          abortRequested, reader, packet, client, owner, received, deleted>>

Whole   == Len(FileSizes)
Records == IF trailingBytes THEN Whole + 1 ELSE Whole

\* QFile::atEnd
atEnd == pos = Records

ReaderStates == {"loop", "lock", "waitNotFull", "notFull", "check", "read",
                 "enqueue", "finished"}
ClientStates == {"idle", "hasWait", "hasWoken", "get", "getWait",
                 "stopped", "left"}
OwnerStates  == {"using", "joining", "draining", "destroyed"}

TypeOK ==
    /\ trailingBytes \in BOOLEAN
    /\ pos \in 0..Records
    /\ packetQueue \in Seq(1..Whole)
    /\ enqueuedByteCount \in 0..(CounterMod - 1)
    /\ dequeuedByteCount \in 0..(CounterMod - 1)
    /\ abortRequested \in BOOLEAN
    /\ reader \in ReaderStates
    /\ packet \in 0..Whole
    /\ client \in ClientStates
    /\ owner \in OwnerStates
    /\ received \in Seq(1..Whole)
    /\ deleted \in Seq(1..Whole)

\* The constructor parses the file header and starts the thread.
Init ==
    /\ trailingBytes \in BOOLEAN
    /\ pos = 0
    /\ packetQueue = << >>
    /\ enqueuedByteCount = 0
    /\ dequeuedByteCount = 0
    /\ abortRequested = FALSE
    /\ reader = "loop"
    /\ packet = 0
    /\ client = "idle"
    /\ owner = "using"
    /\ received = << >>
    /\ deleted = << >>

----------------------------------------------------------------------------
\* QWaitCondition::wakeOne / wakeAll reach a thread only while it waits.

WakeReader(r) == IF r = "waitNotFull" THEN "notFull" ELSE r
WakeClient(c) == CASE c = "hasWait" -> "hasWoken"
                   [] c = "getWait" -> "get"
                   [] OTHER         -> c

----------------------------------------------------------------------------
\* The reader thread.

\* Mutant: a full queue never looks at abortRequested.
MutTestAbortOnlyBeforeRead ==
    /\ reader \in {"loop", "check"}
    /\ reader' = IF reader = "loop" THEN "lock"
                 ELSE IF abortRequested THEN "finished" ELSE "read"
    /\ UNCHANGED <<fileVars, queueVars, abortRequested, client, owner, received, deleted>>

\* while (!abortRequested), and the same test again before reading.
TestAbort ==
    /\ reader \in {"loop", "check"}
    /\ reader' = IF abortRequested THEN "finished"
                 ELSE IF reader = "loop" THEN "lock" ELSE "read"
    /\ UNCHANGED <<fileVars, queueVars, abortRequested, client, owner, received, deleted>>

\* Mutant: the size is compared with <=.
MutShouldReadOneMore == Len(packetQueue) <= PACKET_QUEUE_SIZE /\ ~atEnd
\* When shouldRead is false run() tests abortRequested twice with nothing
\* between the tests: the model keeps the second.
ShouldRead == Len(packetQueue) < PACKET_QUEUE_SIZE /\ ~atEnd
\* Mutant: nothing to read now is taken for the end of the file.
MutStopWhenFull == IF ShouldRead THEN "check" ELSE "finished"
AfterShouldRead == IF ShouldRead THEN "check" ELSE "loop"

\* Under the mutex: wait when the queue is full, else decide to read.
LookAtQueue ==
    /\ reader = "lock"
    /\ reader' = IF Len(packetQueue) >= PACKET_QUEUE_SIZE
                 THEN "waitNotFull" ELSE AfterShouldRead
    /\ UNCHANGED <<fileVars, queueVars, abortRequested, client, owner, received, deleted>>

\* queueNotFull.wait returns, woken or after its 100 ms, and run() decides.
ReturnFromNotFull ==
    /\ reader \in {"waitNotFull", "notFull"}
    /\ reader' = AfterShouldRead
    /\ UNCHANGED <<fileVars, queueVars, abortRequested, client, owner, received, deleted>>

\* readPcapPacket, outside the mutex.  Fewer than four bytes give nullptr,
\* which ends run().
ReadPcapPacket ==
    /\ reader = "read"
    /\ pos' = IF atEnd THEN pos ELSE pos + 1
    /\ IF pos < Whole
       THEN packet' = pos + 1 /\ reader' = "enqueue"
       ELSE packet' = 0       /\ reader' = "finished"
    /\ UNCHANGED <<trailingBytes, queueVars, abortRequested, client, owner, received, deleted>>

\* Mutant: the packet jumps the queue.
MutEnqueueInFront ==
    /\ reader = "enqueue"
    /\ packetQueue' = <<packet>> \o packetQueue
    /\ enqueuedByteCount' = (enqueuedByteCount + FileSizes[packet]) % CounterMod
    /\ packet' = 0
    /\ client' = WakeClient(client)
    /\ reader' = "loop"
    /\ UNCHANGED <<trailingBytes, pos, dequeuedByteCount, abortRequested, owner, received, deleted>>

Enqueue ==
    /\ reader = "enqueue"
    /\ packetQueue' = Append(packetQueue, packet)
    /\ enqueuedByteCount' = (enqueuedByteCount + FileSizes[packet]) % CounterMod
    /\ packet' = 0
    /\ client' = WakeClient(client)
    /\ reader' = "loop"
    /\ UNCHANGED <<trailingBytes, pos, dequeuedByteCount, abortRequested, owner, received, deleted>>

Reader == TestAbort \/ LookAtQueue \/ ReturnFromNotFull \/ ReadPcapPacket \/ Enqueue

----------------------------------------------------------------------------
\* The client thread: while (hasNextPacket()) getNextPacket();

\* Mutant: an empty queue alone makes hasNextPacket answer false.
MutHasNextPacketNoWait ==
    /\ client = "idle"
    /\ owner = "using"
    /\ client' = IF packetQueue # << >> THEN "get" ELSE "stopped"
    /\ UNCHANGED <<fileVars, queueVars, abortRequested, reader, owner, received, deleted>>

\* hasNextPacket up to its wait.
HasNextPacket ==
    /\ client = "idle"
    /\ owner = "using"
    /\ client' = IF packetQueue # << >> THEN "get"
                 ELSE IF atEnd THEN "stopped" ELSE "hasWait"
    /\ UNCHANGED <<fileVars, queueVars, abortRequested, reader, owner, received, deleted>>

\* queueNotEmpty.wait returns, woken or after its 100 ms, and so does hasNextPacket.
ReturnFromHasNext ==
    /\ client \in {"hasWait", "hasWoken"}
    /\ client' = IF packetQueue # << >> \/ ~atEnd THEN "get" ELSE "stopped"
    /\ UNCHANGED <<fileVars, queueVars, abortRequested, reader, owner, received, deleted>>

\* getNextPacket's loop: nothing queued, the file not finished, no abort.
WaitForPacket ==
    /\ client = "get"
    /\ packetQueue = << >> /\ ~atEnd /\ ~abortRequested
    /\ client' = "getWait"
    /\ UNCHANGED <<fileVars, queueVars, abortRequested, reader, owner, received, deleted>>

WaitForPacketTimeout ==
    /\ client = "getWait"
    /\ client' = "get"
    /\ UNCHANGED <<fileVars, queueVars, abortRequested, reader, owner, received, deleted>>

\* getNextPacket returns nullptr; the client asks hasNextPacket again.
GetNothing ==
    /\ client = "get"
    /\ packetQueue = << >> /\ (atEnd \/ abortRequested)
    /\ client' = "idle"
    /\ UNCHANGED <<fileVars, queueVars, abortRequested, reader, owner, received, deleted>>

\* Mutant: dequeuedByteCount is forgotten.
MutGetNextPacketNoCount ==
    /\ client = "get"
    /\ packetQueue # << >>
    /\ received' = Append(received, Head(packetQueue))
    /\ packetQueue' = Tail(packetQueue)
    /\ reader' = WakeReader(reader)
    /\ client' = "idle"
    /\ UNCHANGED <<fileVars, enqueuedByteCount, dequeuedByteCount, abortRequested, owner, deleted>>

GetNextPacket ==
    /\ client = "get"
    /\ packetQueue # << >>
    /\ received' = Append(received, Head(packetQueue))
    /\ packetQueue' = Tail(packetQueue)
    /\ dequeuedByteCount' = (dequeuedByteCount + FileSizes[Head(packetQueue)]) % CounterMod
    /\ reader' = WakeReader(reader)
    /\ client' = "idle"
    /\ UNCHANGED <<fileVars, enqueuedByteCount, abortRequested, owner, deleted>>

\* The user closes the window: the client makes no further call.
ClientLeaves ==
    /\ client = "idle"
    /\ client' = "left"
    /\ UNCHANGED <<fileVars, queueVars, abortRequested, reader, owner, received, deleted>>

ClientCalls == HasNextPacket \/ ReturnFromHasNext \/ WaitForPacket
               \/ WaitForPacketTimeout \/ GetNothing \/ GetNextPacket

----------------------------------------------------------------------------
\* The owner.

\* Mutant: the waiting threads are woken and the flag is not set.
MutAbortWithoutFlag ==
    /\ abortRequested' = abortRequested
    /\ reader' = WakeReader(reader)
    /\ client' = WakeClient(client)

AbortEffect ==
    /\ abortRequested' = TRUE
    /\ reader' = WakeReader(reader)
    /\ client' = WakeClient(client)

AbortFileRead ==
    /\ owner = "using"
    /\ ~abortRequested
    /\ AbortEffect
    /\ UNCHANGED <<fileVars, queueVars, owner, received, deleted>>

\* The destructor calls abortFileRead; no other thread may be in a call.
Destroy ==
    /\ owner = "using"
    /\ client \in {"stopped", "left"}
    /\ AbortEffect
    /\ owner' = "joining"
    /\ UNCHANGED <<fileVars, queueVars, received, deleted>>

\* Mutant: the destructor does not wait for the thread.
MutJoinAtOnce ==
    /\ owner = "joining"
    /\ owner' = "draining"
    /\ UNCHANGED <<fileVars, queueVars, abortRequested, reader, client, received, deleted>>

\* QThread::wait returns once run() has.
Join ==
    /\ owner = "joining"
    /\ reader = "finished"
    /\ owner' = "draining"
    /\ UNCHANGED <<fileVars, queueVars, abortRequested, reader, client, received, deleted>>

\* Mutant: the queue is dropped without deleting its packets.
MutDrainLeaks ==
    /\ owner = "draining"
    /\ packetQueue' = << >>
    /\ owner' = "destroyed"
    /\ UNCHANGED <<fileVars, enqueuedByteCount, dequeuedByteCount, abortRequested,
                   reader, client, received, deleted>>

\* The destructor deletes what the queue holds.
Drain ==
    /\ owner = "draining"
    /\ deleted' = deleted \o packetQueue
    /\ packetQueue' = << >>
    /\ owner' = "destroyed"
    /\ UNCHANGED <<fileVars, enqueuedByteCount, dequeuedByteCount, abortRequested,
                   reader, client, received>>

Teardown == Join \/ Drain

Finished == owner = "destroyed" /\ UNCHANGED vars

Next == Reader \/ ClientCalls \/ ClientLeaves \/ AbortFileRead \/ Destroy \/ Teardown \/ Finished

Spec == Init /\ [][Next]_vars

\* Threads that can run are scheduled, and a timed wait ends: the reader and a
\* client inside the reader's calls make progress.  Nothing forces the owner to
\* abort or to destroy, but a destructor once begun goes on.
FairSpec == /\ Spec
            /\ WF_vars(Reader)
            /\ WF_vars(ClientCalls)
            /\ WF_vars(Teardown)

----------------------------------------------------------------------------
\* Properties.

Hand == IF packet = 0 THEN << >> ELSE <<packet>>
Taken == IF pos <= Whole THEN pos ELSE Whole
SumOfSizes(ps) == SumOf(DOMAIN ps, [i \in DOMAIN ps |-> FileSizes[ps[i]]])

\* Every packet read from the file is in exactly one place - returned, deleted,
\* queued or in run()'s hand - and those places, read in that order, hold the
\* packets of the file in file order: none lost, repeated, reordered or leaked.
NothingLost ==
    received \o deleted \o packetQueue \o Hand = [i \in 1..Taken |-> i]

\* The queue's limit counts the packet run() has decided to read while it held
\* the mutex, although it enqueues that packet in a later critical section.
QueueBounded ==
    Len(packetQueue) + (IF reader \in {"check", "read", "enqueue"} THEN 1 ELSE 0)
        <= PACKET_QUEUE_SIZE

\* getPacketBytesInQueue, the difference of two counters that are never reset
\* and wrap, is the number of bytes the queue holds as long as the reader lives.
BytesInQueueExact ==
    owner # "destroyed" =>
        (enqueuedByteCount - dequeuedByteCount) % CounterMod
            = SumOfSizes(packetQueue) % CounterMod

\* hasNextPacket answers false on an empty queue as soon as the file is at its
\* end, and run() may then hold the last packet, read and not yet queued.  The
\* client misses that one packet at most, and none when stray bytes follow it.
MissesAtMostTheLast ==
    client = "stopped" =>
        \/ Len(received) = Whole
        \/ Len(received) = Whole - 1 /\ ~trailingBytes

\* The object is gone only when no thread can still be using it.
DestroyedIsUnused ==
    owner \in {"draining", "destroyed"} =>
        reader = "finished" /\ client \in {"stopped", "left"} /\ packet = 0

\* abortFileRead ends run() wherever run() is, waits included.
AbortStopsReader == abortRequested ~> (reader = "finished")

\* A destructor that begins ends.
DestructorReturns == (owner = "joining") ~> (owner = "destroyed")

\* A client that keeps asking gets the file, save the packet it may miss,
\* unless someone aborts the read: neither thread sleeps for ever beside a
\* full or an empty queue.
FileIsDelivered ==
    <>(\/ Len(received) >= Whole - 1
      \/ abortRequested
      \/ client = "left")

\* The comment beside the break in run(): a reader at the end of its file stops.
ReaderStopsAtEof == atEnd ~> (reader = "finished")

Channel == INSTANCE PacketChannel
           WITH Packets <- Whole, Capacity <- PACKET_QUEUE_SIZE,
                taken <- Taken, held <- packetQueue \o Hand,
                given <- received, torn <- owner = "destroyed"

\* The threads, the mutex and the timed waits implement the channel.
ImplementsChannel == Channel!Spec
=============================================================================
