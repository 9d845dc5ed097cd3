----------------------- MODULE PcapFileReader_proofs -----------------------
(***************************************************************************)
(* What PcapFileReader guarantees for every capture file, every queue size *)
(* and every interleaving of the reader thread, the client and the owner.  *)
(***************************************************************************)
EXTENDS PcapFileReader, SequenceFacts

(* Where each thread may be, given the others: the part of the inductive    *)
(* invariant that no run states by itself.                                  *)
Control ==
    /\ reader = "enqueue" => packet = pos /\ pos \in 1..Whole
    /\ reader # "enqueue" => packet = 0
    /\ owner # "using" => client \in {"stopped", "left"}
    /\ owner # "destroyed" => deleted = << >>
    /\ owner = "destroyed" => packetQueue = << >>

Room == IF reader \in {"check", "read", "enqueue"} THEN 1 ELSE 0

IInv ==
    /\ TypeOK
    /\ Control
    /\ NothingLost
    /\ QueueBounded
    /\ DestroyedIsUnused

----------------------------------------------------------------------------
(* Counting one record further appends its number.                          *)
LEMMA CountOneMore ==
    ASSUME NEW n \in Nat
    PROVE  [i \in 1..n |-> i] \o <<n + 1>> = [i \in 1..(n + 1) |-> i]
  OBVIOUS

----------------------------------------------------------------------------
LEMMA SizesOfFile ==
    ASSUME trailingBytes \in BOOLEAN
    PROVE  Whole \in Nat /\ Records \in Nat /\ Whole <= Records /\ Records <= Whole + 1
  BY FileAssumption DEF Whole, Records

LEMMA SizeIsNat == \A p \in 1..Whole : FileSizes[p] \in Nat
  BY FileAssumption, ElementOfSeq DEF Whole

LEMMA ModRange == \A a \in Int, m \in Nat \ {0} : a % m \in 0..(m - 1)
  OBVIOUS

(* The initial state satisfies the invariant.                               *)
LEMMA InitIInv == Init => IInv
  <1> SUFFICES ASSUME Init PROVE IInv
    OBVIOUS
  <1> USE SizesOfFile DEF Init
  <1>1. TypeOK
    <2>1. << >> \in Seq(1..Whole)
      BY EmptySeq
    <2>2. 0 \in 0..Records /\ 0 \in 0..Whole /\ 0 \in 0..(CounterMod - 1)
      BY CounterAssumption
    <2> QED BY <2>1, <2>2 DEF TypeOK, ReaderStates, ClientStates, OwnerStates
  <1>2. Control
    BY DEF Control
  <1>3. NothingLost
    <2>1. received \o deleted \o packetQueue \o Hand = << >>
      BY DEF Hand
    <2>2. [i \in 1..Taken |-> i] = << >>
      BY DEF Taken
    <2> QED BY <2>1, <2>2 DEF NothingLost
  <1>4. QueueBounded
    BY QueueAssumption DEF QueueBounded
  <1>5. DestroyedIsUnused
    BY DEF DestroyedIsUnused
  <1> QED BY <1>1, <1>2, <1>3, <1>4, <1>5 DEF IInv

(* Types are preserved by every step.                                       *)
LEMMA TypeStep == IInv /\ [Next]_vars => TypeOK'
  <1> SUFFICES ASSUME IInv, [Next]_vars PROVE TypeOK'
    OBVIOUS
  <1>0. Whole \in Nat /\ Records \in Nat /\ (trailingBytes' = trailingBytes => Records' = Records)
    BY SizesOfFile DEF IInv, TypeOK, Records
  <1> USE <1>0, CounterAssumption DEF IInv, TypeOK, ReaderStates, ClientStates, OwnerStates
  <1>1. CASE TestAbort
    BY <1>1 DEF TestAbort, fileVars, queueVars
  <1>2. CASE LookAtQueue
    BY <1>2 DEF LookAtQueue, AfterShouldRead, fileVars, queueVars
  <1>3. CASE ReturnFromNotFull
    BY <1>3 DEF ReturnFromNotFull, AfterShouldRead, fileVars, queueVars
  <1>4. CASE ReadPcapPacket
    BY <1>4 DEF ReadPcapPacket, atEnd, queueVars
  <1>5. CASE Enqueue
    <2>1. packet \in 1..Whole /\ FileSizes[packet] \in Nat
      BY <1>5, SizeIsNat DEF Enqueue, Control
    <2>2. enqueuedByteCount' \in 0..(CounterMod - 1)
      <3>1. enqueuedByteCount + FileSizes[packet] \in Int
        BY <2>1
      <3>2. (enqueuedByteCount + FileSizes[packet]) % CounterMod \in 0..(CounterMod - 1)
        BY <3>1, ModRange, CounterAssumption
      <3> QED BY <3>2, <1>5 DEF Enqueue
    <2> QED BY <1>5, <2>1, <2>2 DEF Enqueue, WakeClient
  <1>6. CASE HasNextPacket
    BY <1>6 DEF HasNextPacket, fileVars, queueVars
  <1>7. CASE ReturnFromHasNext
    BY <1>7 DEF ReturnFromHasNext, fileVars, queueVars
  <1>8. CASE WaitForPacket \/ WaitForPacketTimeout \/ GetNothing \/ ClientLeaves
    BY <1>8 DEF WaitForPacket, WaitForPacketTimeout, GetNothing, ClientLeaves, fileVars, queueVars
  <1>9. CASE GetNextPacket
    <2>1. Head(packetQueue) \in 1..Whole /\ FileSizes[Head(packetQueue)] \in Nat
      BY <1>9, SizeIsNat DEF GetNextPacket
    <2>2. dequeuedByteCount' \in 0..(CounterMod - 1)
      <3>1. dequeuedByteCount + FileSizes[Head(packetQueue)] \in Int
        BY <2>1
      <3>2. (dequeuedByteCount + FileSizes[Head(packetQueue)]) % CounterMod \in 0..(CounterMod - 1)
        BY <3>1, ModRange, CounterAssumption
      <3> QED BY <3>2, <1>9 DEF GetNextPacket
    <2> QED BY <1>9, <2>1, <2>2 DEF GetNextPacket, WakeReader, fileVars
  <1>10. CASE AbortFileRead \/ Destroy
    BY <1>10 DEF AbortFileRead, Destroy, AbortEffect, WakeReader, WakeClient, fileVars, queueVars
  <1>11. CASE Join
    BY <1>11 DEF Join, fileVars, queueVars
  <1>12. CASE Drain
    BY <1>12 DEF Drain, fileVars
  <1>13. CASE UNCHANGED vars
    BY <1>13 DEF vars
  <1> QED
    BY <1>1, <1>2, <1>3, <1>4, <1>5, <1>6, <1>7, <1>8, <1>9, <1>10, <1>11, <1>12, <1>13
    DEF Next, Reader, ClientCalls, Teardown, Finished

(* Where the threads are relative to one another is preserved, and with it  *)
(* the fact that only a finished reader is destroyed.                       *)
LEMMA ControlStep == IInv /\ [Next]_vars => Control' /\ DestroyedIsUnused'
  <1> SUFFICES ASSUME IInv, [Next]_vars PROVE Control' /\ DestroyedIsUnused'
    OBVIOUS
  <1> USE SizesOfFile DEF IInv, TypeOK, Control, DestroyedIsUnused
  <1>1. CASE TestAbort
    BY <1>1 DEF TestAbort, fileVars, queueVars
  <1>2. CASE LookAtQueue \/ ReturnFromNotFull
    BY <1>2 DEF LookAtQueue, ReturnFromNotFull, AfterShouldRead, fileVars, queueVars
  <1>3. CASE ReadPcapPacket
    BY <1>3 DEF ReadPcapPacket, atEnd, queueVars
  <1>4. CASE Enqueue
    BY <1>4 DEF Enqueue, WakeClient
  <1>5. CASE HasNextPacket \/ ReturnFromHasNext
    BY <1>5 DEF HasNextPacket, ReturnFromHasNext, fileVars, queueVars
  <1>6. CASE WaitForPacket \/ WaitForPacketTimeout \/ GetNothing \/ ClientLeaves
    BY <1>6 DEF WaitForPacket, WaitForPacketTimeout, GetNothing, ClientLeaves, fileVars, queueVars
  <1>7. CASE GetNextPacket
    BY <1>7 DEF GetNextPacket, WakeReader, fileVars
  <1>8. CASE AbortFileRead \/ Destroy
    BY <1>8 DEF AbortFileRead, Destroy, AbortEffect, WakeReader, WakeClient, fileVars, queueVars
  <1>9. CASE Join \/ Drain
    BY <1>9 DEF Join, Drain, fileVars, queueVars
  <1>10. CASE UNCHANGED vars
    BY <1>10 DEF vars
  <1> QED
    BY <1>1, <1>2, <1>3, <1>4, <1>5, <1>6, <1>7, <1>8, <1>9, <1>10
    DEF Next, Reader, ClientCalls, Teardown, Finished

(* The reader decides to read under the mutex and enqueues later: only the  *)
(* reader adds to the queue, so the room it saw is still there.             *)
LEMMA BoundStep == IInv /\ [Next]_vars => QueueBounded'
  <1> SUFFICES ASSUME IInv, [Next]_vars PROVE QueueBounded'
    OBVIOUS
  <1> USE QueueAssumption DEF IInv, TypeOK, QueueBounded, ReaderStates
  <1>1. CASE TestAbort
    BY <1>1 DEF TestAbort, queueVars
  <1>2. CASE LookAtQueue \/ ReturnFromNotFull
    BY <1>2 DEF LookAtQueue, ReturnFromNotFull, AfterShouldRead, ShouldRead, queueVars
  <1>3. CASE ReadPcapPacket
    BY <1>3 DEF ReadPcapPacket, queueVars
  <1>4. CASE Enqueue
    BY <1>4 DEF Enqueue
  <1>5. CASE HasNextPacket \/ ReturnFromHasNext
    BY <1>5 DEF HasNextPacket, ReturnFromHasNext, queueVars
  <1>6. CASE WaitForPacket \/ WaitForPacketTimeout \/ GetNothing \/ ClientLeaves
    BY <1>6 DEF WaitForPacket, WaitForPacketTimeout, GetNothing, ClientLeaves, queueVars
  <1>7. CASE GetNextPacket
    BY <1>7 DEF GetNextPacket, WakeReader
  <1>8. CASE AbortFileRead \/ Destroy
    BY <1>8 DEF AbortFileRead, Destroy, AbortEffect, WakeReader, queueVars
  <1>9. CASE Join \/ Drain
    BY <1>9 DEF Join, Drain, queueVars
  <1>10. CASE UNCHANGED vars
    BY <1>10 DEF vars
  <1> QED
    BY <1>1, <1>2, <1>3, <1>4, <1>5, <1>6, <1>7, <1>8, <1>9, <1>10
    DEF Next, Reader, ClientCalls, Teardown, Finished
----------------------------------------------------------------------------
(* Moving the first element of a sequence to the end of the one before it   *)
(* does not change what the two hold together.                              *)
LEMMA HeadMoves ==
    ASSUME NEW S, NEW r \in Seq(S), NEW q \in Seq(S), q # << >>
    PROVE  Append(r, Head(q)) \o Tail(q) = r \o q
  OBVIOUS

(* A packet changes place, or a new one appears at the end, and nothing     *)
(* else ever happens to the packets.                                        *)
LEMMA NothingLostStep == IInv /\ [Next]_vars => NothingLost'
  <1> SUFFICES ASSUME IInv, [Next]_vars PROVE NothingLost'
    OBVIOUS
  <1> DEFINE Idle == /\ UNCHANGED <<pos, packet, packetQueue, received, deleted>>
  <1>0. /\ received \in Seq(1..Whole) /\ deleted \in Seq(1..Whole)
        /\ packetQueue \in Seq(1..Whole) /\ Hand \in Seq(1..Whole)
        /\ Whole \in Nat /\ pos \in Nat /\ Records \in Nat /\ Whole <= Records
    <2>1. Hand \in Seq(1..Whole)
      <3>1. CASE packet = 0
        BY <3>1, EmptySeq DEF Hand
      <3>2. CASE packet # 0
        <4>1. packet \in 1..Whole
          BY <3>2, SizesOfFile DEF IInv, TypeOK
        <4> QED BY <3>2, <4>1 DEF Hand
      <3> QED BY <3>1, <3>2
    <2>2. pos \in 0..Records
      BY DEF IInv, TypeOK
    <2> QED BY <2>1, <2>2, SizesOfFile DEF IInv, TypeOK
  <1>1. CASE TestAbort \/ LookAtQueue \/ ReturnFromNotFull
    <2>1. Idle
      BY <1>1 DEF TestAbort, LookAtQueue, ReturnFromNotFull, fileVars, queueVars
    <2> QED BY <2>1 DEF IInv, NothingLost, Hand, Taken
  <1>2. CASE ReadPcapPacket
    <2>1. packet = 0 /\ Hand = << >>
      BY <1>2 DEF ReadPcapPacket, IInv, Control, Hand
    <2>2. CASE pos < Whole
      <3>1. Hand' = <<pos + 1>> /\ Taken = pos /\ Taken' = pos + 1
        BY <2>2, <1>0, <1>2, SizesOfFile DEF ReadPcapPacket, Hand, Taken, atEnd
      <3> DEFINE X == received \o deleted \o packetQueue
      <3>2. X \in Seq(1..Whole)
        BY <1>0, ConcatProperties
      <3>3. X = [i \in 1..pos |-> i]
        BY <3>1, <3>2, <2>1, ConcatEmptySeq DEF IInv, NothingLost
      <3>4. X' = X
        BY <1>2 DEF ReadPcapPacket, queueVars
      <3>5. X' \o Hand' = [i \in 1..(pos + 1) |-> i]
        BY <3>1, <3>3, <3>4, <1>0, CountOneMore
      <3> QED BY <3>1, <3>5 DEF NothingLost
    <2>3. CASE ~(pos < Whole)
      <3>1. Hand' = Hand /\ Taken' = Taken
        BY <2>3, <2>1, <1>0, <1>2 DEF ReadPcapPacket, Hand, Taken, atEnd
      <3> QED BY <3>1, <1>2 DEF IInv, NothingLost, ReadPcapPacket, queueVars
    <2> QED BY <2>2, <2>3
  <1>3. CASE Enqueue
    <2> DEFINE X == received \o deleted
    <2>1. packet \in 1..Whole /\ Hand = <<packet>> /\ Hand' = << >> /\ Taken' = Taken
      BY <1>3, <1>0 DEF Enqueue, IInv, Control, Hand, Taken
    <2>2. packetQueue' = packetQueue \o <<packet>>
      BY <1>3, <2>1, <1>0, AppendIsConcat DEF Enqueue
    <2>3. X \in Seq(1..Whole) /\ X' = X /\ packetQueue' \in Seq(1..Whole)
      BY <1>0, <1>3, <2>1, <2>2, ConcatProperties DEF Enqueue
    <2>4. (X \o packetQueue) \o <<packet>> = X \o (packetQueue \o <<packet>>)
      <3> DEFINE S == 1..Whole
      <3>1. <<packet>> \in Seq(S)
        BY <2>1
      <3>2. X \in Seq(S) /\ packetQueue \in Seq(S)
        BY <1>0, <2>3
      <3> HIDE DEF X, S
      <3> QED BY <3>1, <3>2, ConcatAssociative
    <2>5. (X' \o packetQueue') \o << >> = X' \o packetQueue'
      BY <2>3, ConcatEmptySeq, ConcatProperties
    <2> QED BY <2>1, <2>2, <2>3, <2>4, <2>5 DEF IInv, NothingLost
  <1>4. CASE HasNextPacket \/ ReturnFromHasNext \/ WaitForPacket \/ WaitForPacketTimeout
             \/ GetNothing \/ ClientLeaves
    <2>1. Idle
      BY <1>4 DEF HasNextPacket, ReturnFromHasNext, WaitForPacket, WaitForPacketTimeout,
                  GetNothing, ClientLeaves, fileVars, queueVars
    <2> QED BY <2>1 DEF IInv, NothingLost, Hand, Taken
  <1>5. CASE GetNextPacket
    <2>1. deleted = << >> /\ deleted' = << >> /\ Hand' = Hand /\ Taken' = Taken
      BY <1>5 DEF GetNextPacket, IInv, TypeOK, Control, DestroyedIsUnused, Hand, Taken, fileVars
    <2>2. received' \o packetQueue' = received \o packetQueue
      BY <1>5, <1>0, HeadMoves DEF GetNextPacket
    <2>3. received \o << >> = received /\ received' \o << >> = received'
      BY <1>5, <1>0, ConcatEmptySeq DEF GetNextPacket
    <2> QED BY <2>1, <2>2, <2>3 DEF IInv, NothingLost
  <1>6. CASE AbortFileRead \/ Destroy \/ Join
    <2>1. Idle
      BY <1>6 DEF AbortFileRead, Destroy, Join, fileVars, queueVars
    <2> QED BY <2>1 DEF IInv, NothingLost, Hand, Taken
  <1>7. CASE Drain
    <2>1. Hand' = Hand /\ Taken' = Taken /\ received' = received /\ packetQueue' = << >>
          /\ deleted' = deleted \o packetQueue
      BY <1>7 DEF Drain, Hand, Taken, fileVars
    <2>2. deleted \o packetQueue \in Seq(1..Whole)
      BY <1>0, ConcatProperties
    <2>3. received \o (deleted \o packetQueue) = (received \o deleted) \o packetQueue
      <3> DEFINE S == 1..Whole
      <3>1. received \in Seq(S) /\ deleted \in Seq(S) /\ packetQueue \in Seq(S)
        BY <1>0
      <3> HIDE DEF S
      <3> QED BY <3>1, ConcatAssociative
    <2>4. (received \o (deleted \o packetQueue)) \o << >> = received \o (deleted \o packetQueue)
      BY <1>0, <2>2, ConcatProperties, ConcatEmptySeq
    <2> QED BY <2>1, <2>3, <2>4 DEF IInv, NothingLost
  <1>8. CASE UNCHANGED vars
    BY <1>8 DEF IInv, NothingLost, Hand, Taken, vars
  <1> QED
    BY <1>1, <1>2, <1>3, <1>4, <1>5, <1>6, <1>7, <1>8
    DEF Next, Reader, ClientCalls, Teardown, Finished

----------------------------------------------------------------------------
(* The conjunction is inductive.                                            *)
LEMMA Inductive == Spec => []IInv
  <1>1. IInv /\ [Next]_vars => IInv'
    BY TypeStep, ControlStep, BoundStep, NothingLostStep DEF IInv
  <1> QED BY InitIInv, <1>1, PTL DEF Spec

(* Every variable of the reader keeps its type.                             *)
THEOREM TypeCorrect == Spec => []TypeOK
  <1>1. IInv => TypeOK
    BY DEF IInv
  <1> QED BY Inductive, <1>1, PTL

(* However the threads interleave, each packet read from the file is        *)
(* returned, deleted, queued or in run()'s hand, in file order, once.       *)
THEOREM NoPacketLost == Spec => []NothingLost
  <1>1. IInv => NothingLost
    BY DEF IInv
  <1> QED BY Inductive, <1>1, PTL

(* run() tests the size of the queue in one critical section and enqueues   *)
(* in a later one; the limit holds all the same.                            *)
THEOREM QueueStaysBounded == Spec => []QueueBounded
  <1>1. IInv => QueueBounded
    BY DEF IInv
  <1> QED BY Inductive, <1>1, PTL

(* The destructor frees the queue only after run() has returned and while   *)
(* no client is inside a call.                                              *)
THEOREM NoUseAfterDestroy == Spec => []DestroyedIsUnused
  <1>1. IInv => DestroyedIsUnused
    BY DEF IInv
  <1> QED BY Inductive, <1>1, PTL

----------------------------------------------------------------------------
LEMMA HeadTailOfConcat ==
    ASSUME NEW S, NEW q \in Seq(S), NEW h \in Seq(S), q # << >>
    PROVE  /\ q \o h # << >>
           /\ Head(q \o h) = Head(q)
           /\ Tail(q \o h) = Tail(q) \o h
  OBVIOUS

(* A step of the threads is a step of the channel, or changes nothing in it. *)
LEMMA StepRefines == IInv /\ [Next]_vars => [Channel!Next]_(Channel!vars)
  <1> SUFFICES ASSUME IInv, [Next]_vars PROVE [Channel!Next]_(Channel!vars)
    OBVIOUS
  <1> DEFINE Same == UNCHANGED <<Taken, packetQueue \o Hand, received, owner = "destroyed">>
  <1>0. /\ packetQueue \in Seq(1..Whole) /\ received \in Seq(1..Whole)
        /\ Whole \in Nat /\ pos \in 0..Records /\ Whole <= Records
    BY SizesOfFile DEF IInv, TypeOK
  <1>1. CASE TestAbort \/ LookAtQueue \/ ReturnFromNotFull
    <2>1. Same
      BY <1>1 DEF TestAbort, LookAtQueue, ReturnFromNotFull, fileVars, queueVars, Taken, Hand
    <2> QED BY <2>1 DEF Channel!vars
  <1>2. CASE ReadPcapPacket
    <2>1. packet = 0 /\ Hand = << >>
      BY <1>2 DEF ReadPcapPacket, IInv, Control, Hand
    <2>2. CASE pos < Whole
      <3>1. Hand' = <<pos + 1>> /\ Taken = pos /\ Taken' = pos + 1 /\ packetQueue' = packetQueue
        BY <2>2, <1>0, <1>2, SizesOfFile DEF ReadPcapPacket, Hand, Taken, atEnd, queueVars
      <3>2. packetQueue \o Hand = packetQueue
        BY <1>0, <2>1, ConcatEmptySeq
      <3>3. (packetQueue \o Hand)' = Append(packetQueue \o Hand, Taken + 1)
        <4>1. pos + 1 \in 1..Whole
          BY <2>2, <1>0
        <4>2. Append(packetQueue, pos + 1) = packetQueue \o <<pos + 1>>
          BY <4>1, <1>0, AppendIsConcat
        <4> QED BY <4>2, <3>1, <3>2
      <3>4. Len(packetQueue \o Hand) < PACKET_QUEUE_SIZE
        BY <3>2, <1>0, <1>2, QueueAssumption DEF IInv, QueueBounded, ReadPcapPacket
      <3>5. owner # "destroyed"
        BY <1>2 DEF IInv, DestroyedIsUnused, ReadPcapPacket
      <3>6. UNCHANGED <<received, owner>>
        BY <1>2 DEF ReadPcapPacket
      <3>7. Channel!Take
        BY <2>2, <3>1, <3>3, <3>4, <3>5, <3>6 DEF Channel!Take
      <3> QED BY <3>7 DEF Channel!Next
    <2>3. CASE ~(pos < Whole)
      <3>1. Hand' = Hand /\ Taken' = Taken
        BY <2>3, <2>1, <1>0, <1>2 DEF ReadPcapPacket, Hand, Taken, atEnd
      <3>2. Same
        BY <3>1, <1>2 DEF ReadPcapPacket, queueVars
      <3> QED BY <3>2 DEF Channel!vars
    <2> QED BY <2>2, <2>3
  <1>3. CASE Enqueue
    <2>1. packet \in 1..Whole /\ Hand = <<packet>> /\ Hand' = << >>
      BY <1>3, <1>0 DEF Enqueue, IInv, Control, Hand
    <2>2. packetQueue' = packetQueue \o <<packet>> /\ packetQueue' \in Seq(1..Whole)
      BY <1>3, <2>1, <1>0, AppendIsConcat, AppendProperties DEF Enqueue
    <2>3. packetQueue' \o Hand' = packetQueue \o Hand
      BY <2>1, <2>2, ConcatEmptySeq
    <2>4. Same
      BY <2>3, <1>3 DEF Enqueue, Taken
    <2> QED BY <2>4 DEF Channel!vars
  <1>4. CASE HasNextPacket \/ ReturnFromHasNext \/ WaitForPacket \/ WaitForPacketTimeout
             \/ GetNothing \/ ClientLeaves
    <2>1. Same
      BY <1>4 DEF HasNextPacket, ReturnFromHasNext, WaitForPacket, WaitForPacketTimeout,
                  GetNothing, ClientLeaves, fileVars, queueVars, Taken, Hand
    <2> QED BY <2>1 DEF Channel!vars
  <1>5. CASE GetNextPacket
    <2>1. owner = "using" /\ owner' = owner /\ Taken' = Taken /\ Hand' = Hand
      BY <1>5 DEF GetNextPacket, IInv, Control, Taken, Hand, fileVars
    <2>2. Hand \in Seq(1..Whole)
      <3>1. packet \in 0..Whole
        BY DEF IInv, TypeOK
      <3>2. CASE packet = 0
        BY <3>2, EmptySeq DEF Hand
      <3>3. CASE packet # 0
        <4>1. packet \in 1..Whole
          BY <3>1, <3>3, <1>0
        <4> QED BY <4>1, <3>3 DEF Hand
      <3> QED BY <3>2, <3>3
    <2>3. packetQueue # << >> /\ packetQueue' = Tail(packetQueue)
          /\ received' = Append(received, Head(packetQueue))
      BY <1>5 DEF GetNextPacket
    <2>4. /\ packetQueue \o Hand # << >>
          /\ Head(packetQueue \o Hand) = Head(packetQueue)
          /\ Tail(packetQueue \o Hand) = Tail(packetQueue) \o Hand
      BY <2>2, <2>3, <1>0, HeadTailOfConcat
    <2>5. Channel!Give
      BY <2>1, <2>3, <2>4 DEF Channel!Give
    <2> QED BY <2>5 DEF Channel!Next
  <1>6. CASE AbortFileRead \/ Destroy \/ Join
    <2>1. Same
      BY <1>6 DEF AbortFileRead, Destroy, Join, fileVars, queueVars, Taken, Hand
    <2> QED BY <2>1 DEF Channel!vars
  <1>7. CASE Drain
    <2>1. owner = "draining" /\ owner' = "destroyed" /\ packetQueue' = << >>
          /\ Taken' = Taken /\ received' = received /\ Hand' = Hand
      BY <1>7 DEF Drain, Taken, Hand, fileVars
    <2>2. Hand = << >>
      BY <2>1 DEF IInv, DestroyedIsUnused, Hand
    <2>3. packetQueue' \o Hand' = << >>
      BY <2>1, <2>2
    <2>4. Channel!TearDown
      BY <2>1, <2>3 DEF Channel!TearDown
    <2> QED BY <2>4 DEF Channel!Next
  <1>8. CASE UNCHANGED vars
    BY <1>8 DEF vars, Channel!vars, Taken, Hand
  <1> QED
    BY <1>1, <1>2, <1>3, <1>4, <1>5, <1>6, <1>7, <1>8
    DEF Next, Reader, ClientCalls, Teardown, Finished

(* The threads, the mutex and the two condition variables implement the     *)
(* channel that hands out the packets of the file one at a time, in order.  *)
THEOREM ReaderImplementsChannel == Spec => ImplementsChannel
  <1>1. Init => Channel!Init
    <2> SUFFICES ASSUME Init PROVE Channel!Init
      OBVIOUS
    <2>1. packetQueue \o Hand = << >>
      BY DEF Init, Hand
    <2>2. Taken = 0
      BY SizesOfFile DEF Init, Taken
    <2> QED BY <2>1, <2>2 DEF Init, Channel!Init
  <1> QED BY <1>1, StepRefines, Inductive, PTL DEF Spec, Channel!Spec, ImplementsChannel
----------------------------------------------------------------------------
(* The counters wrap: two numbers agree when they differ by a multiple of   *)
(* the modulus.                                                             *)
Agree(a, b) == \E q \in Int : a = b + q * CounterMod

LEMMA Remainder ==
    ASSUME NEW a \in Int
    PROVE  a % CounterMod \in Int /\ Agree(a % CounterMod, a)
  <1>1. \A m \in Nat \ {0} : a % m \in Int /\ a = (a \div m) * m + (a % m) /\ a \div m \in Int
    OBVIOUS
  <1>2. CounterMod \in Nat \ {0}
    BY CounterAssumption
  <1> DEFINE d == a \div CounterMod
             r == a % CounterMod
  <1>3. d \in Int /\ r \in Int /\ a = d * CounterMod + r
    BY <1>1, <1>2
  <1> HIDE DEF d, r
  <1>4. -d \in Int /\ r = a + (-d) * CounterMod
    BY <1>2, <1>3
  <1>5. Agree(r, a)
    BY <1>4 DEF Agree
  <1> QED BY <1>3, <1>5 DEF r

LEMMA AgreeRemainders ==
    ASSUME NEW a \in Int, NEW b \in Int, Agree(a, b)
    PROVE  a % CounterMod = b % CounterMod
  <1>1. PICK q \in Int : a = b + q * CounterMod
    BY DEF Agree
  <1>2. CounterMod \in Nat \ {0}
    BY CounterAssumption
  <1>3. \A m \in Nat \ {0}, x \in Int :
           /\ x % m \in 0..(m - 1) /\ x \div m \in Int
           /\ x = (x \div m) * m + (x % m)
    OBVIOUS
  <1> DEFINE r == a % CounterMod
             s == b % CounterMod
             c == a \div CounterMod
             d == b \div CounterMod
             k == (d + q) - c
  <1>4. /\ r \in 0..(CounterMod - 1) /\ s \in 0..(CounterMod - 1) /\ c \in Int /\ d \in Int
        /\ a = c * CounterMod + r /\ b = d * CounterMod + s
    BY <1>2, <1>3
  <1> HIDE DEF r, s, c, d
  <1>5. k \in Int /\ r - s = k * CounterMod
    BY <1>1, <1>2, <1>4
  <1> HIDE DEF k
  <1>6. \A m \in Nat \ {0}, x \in Int : (x >= 1 => x * m >= m) /\ (x <= -1 => x * m <= -m)
    <2> TAKE m \in Nat \ {0}, x \in Int
    <2>1. ASSUME x >= 1 PROVE x * m >= m
      <3>1. (x - 1) * m >= 0
        BY <2>1
      <3>2. (x - 1) * m = x * m - m
        OBVIOUS
      <3> QED BY <3>1, <3>2
    <2>2. ASSUME x <= -1 PROVE x * m <= -m
      <3>1. (-1 - x) * m >= 0
        BY <2>2
      <3>2. (-1 - x) * m = -m - x * m
        OBVIOUS
      <3> QED BY <3>1, <3>2
    <2> QED BY <2>1, <2>2
  <1>7. k = 0
    BY <1>2, <1>4, <1>5, <1>6
  <1>8. r = s
    BY <1>2, <1>4, <1>5, <1>7
  <1> QED BY <1>8 DEF r, s

LEMMA AgreeArithmetic ==
    ASSUME NEW a \in Int, NEW b \in Int, NEW c \in Int, Agree(a, b)
    PROVE  /\ Agree(a + c, b + c)
           /\ Agree(c - a, c - b)
  <1>1. PICK q \in Int : a = b + q * CounterMod
    BY DEF Agree
  <1>2. CounterMod \in Int
    BY CounterAssumption
  <1>3. a + c = (b + c) + q * CounterMod
    BY <1>1, <1>2
  <1>4. c - a = (c - b) + (-q) * CounterMod /\ -q \in Int
    BY <1>1, <1>2
  <1> QED BY <1>3, <1>4 DEF Agree

LEMMA AgreeTransitive ==
    ASSUME NEW a \in Int, NEW b \in Int, NEW c \in Int, Agree(a, b), Agree(b, c)
    PROVE  Agree(a, c)
  <1>1. PICK q \in Int : a = b + q * CounterMod
    BY DEF Agree
  <1>2. PICK k \in Int : b = c + k * CounterMod
    BY DEF Agree
  <1>3. CounterMod \in Int
    BY CounterAssumption
  <1>4. a = c + (k + q) * CounterMod /\ k + q \in Int
    BY <1>1, <1>2, <1>3
  <1> QED BY <1>4 DEF Agree

(* The bytes of a queue with one packet more, and with one packet less.     *)
LEMMA SizesAppended ==
    ASSUME NEW ps \in Seq(1..Whole), NEW p \in 1..Whole
    PROVE  /\ SumOfSizes(ps) \in Nat
           /\ SumOfSizes(Append(ps, p)) = SumOfSizes(ps) + FileSizes[p]
  <1> DEFINE q == Append(ps, p)
             n == Len(ps)
             f == [i \in DOMAIN ps |-> FileSizes[ps[i]]]
             g == [i \in DOMAIN q |-> FileSizes[q[i]]]
  <1>1. /\ n \in Nat /\ DOMAIN ps = 1..n /\ DOMAIN q = 1..(n + 1)
        /\ q[n + 1] = p /\ \A i \in 1..n : q[i] = ps[i] /\ ps[i] \in 1..Whole
    <2> DEFINE S == 1..Whole
    <2>1. ps \in Seq(S) /\ p \in S
      OBVIOUS
    <2> HIDE DEF S
    <2>2. /\ Append(ps, p) \in Seq(S) /\ Len(ps) \in Nat /\ Len(Append(ps, p)) = Len(ps) + 1
          /\ \A i \in 1..Len(ps) : ps[i] \in S /\ Append(ps, p)[i] = ps[i]
          /\ Append(ps, p)[Len(ps) + 1] = p
      BY ONLY <2>1, AppendFacts
    <2>3. DOMAIN ps = 1..Len(ps) /\ DOMAIN Append(ps, p) = 1..(Len(ps) + 1)
      BY <2>1, <2>2
    <2> QED BY <2>2, <2>3 DEF S
  <1> HIDE DEF q, n
  <1>2. 1..(n + 1) = (1..n) \cup {n + 1} /\ n + 1 \notin 1..n
    BY <1>1
  <1>3. IsFiniteSet(1..n)
    <2>1. 1 \in Int /\ n \in Int
      BY <1>1
    <2> QED BY <2>1, FS_Interval
  <1>4. /\ \A i \in 1..n : f[i] = g[i] /\ f[i] \in Nat
        /\ g[n + 1] = FileSizes[p] /\ FileSizes[p] \in Nat
    BY <1>1, <1>2, SizeIsNat
  <1> HIDE DEF f, g
  <1>5. SumOf(1..n, f) \in Nat /\ SumOf(1..n, f) = SumOf(1..n, g)
    BY <1>3, <1>4, SumType, SumSame
  <1>6. \A i \in (1..n) \cup {n + 1} : g[i] \in Nat
    BY <1>4
  <1>7. SumOf((1..n) \cup {n + 1}, g) = SumOf(1..n, g) + g[n + 1]
    BY <1>2, <1>3, <1>6, SumAdd
  <1> QED BY <1>1, <1>2, <1>4, <1>5, <1>7 DEF SumOfSizes, f, g, q

LEMMA SizesTail ==
    ASSUME NEW ps \in Seq(1..Whole), ps # << >>
    PROVE  /\ SumOfSizes(Tail(ps)) \in Nat
           /\ SumOfSizes(ps) = SumOfSizes(Tail(ps)) + FileSizes[Head(ps)]
  <1> DEFINE q == Tail(ps)
             n == Len(ps) - 1
             f == [i \in DOMAIN q |-> FileSizes[q[i]]]
             g == [i \in DOMAIN ps |-> FileSizes[ps[i]]]
             h == [i \in 1..n |-> i + 1]
  <1>1. /\ n \in Nat /\ DOMAIN ps = 1..(n + 1) /\ DOMAIN q = 1..n
        /\ ps[1] = Head(ps) /\ ps[1] \in 1..Whole
        /\ \A i \in 1..n : q[i] = ps[i + 1] /\ ps[i + 1] \in 1..Whole
    <2> DEFINE S == 1..Whole
    <2>1. ps \in Seq(S) /\ ps # << >>
      OBVIOUS
    <2> HIDE DEF S
    <2>2. /\ Len(ps) \in Nat /\ Len(ps) > 0 /\ DOMAIN ps = 1..Len(ps)
          /\ \A i \in 1..Len(ps) : ps[i] \in S
      BY <2>1
    <2>3. Head(ps) = ps[1] /\ Tail(ps) \in Seq(S) /\ Len(Tail(ps)) = Len(ps) - 1
          /\ \A i \in 1..(Len(ps) - 1) : Tail(ps)[i] = ps[i + 1]
      BY <2>1, HeadTailProperties
    <2>4. DOMAIN Tail(ps) = 1..(Len(ps) - 1)
      BY <2>3
    <2>5. \A m \in Nat : m > 0 => m - 1 \in Nat /\ (m - 1) + 1 = m /\ 1 \in 1..m
                                   /\ \A i \in 1..(m - 1) : i + 1 \in 1..m
      OBVIOUS
    <2> QED BY <2>2, <2>3, <2>4, <2>5 DEF S
  <1> HIDE DEF q, n
  <1>2. 1..(n + 1) = (2..(n + 1)) \cup {1} /\ 1 \notin 2..(n + 1)
    BY <1>1
  <1>3. IsFiniteSet(1..n) /\ IsFiniteSet(2..(n + 1))
    <2>1. 1 \in Int /\ 2 \in Int /\ n \in Int /\ n + 1 \in Int
      BY <1>1
    <2> QED BY <2>1, FS_Interval
  <1>4. h \in Bijection(1..n, 2..(n + 1))
    <2>1. h \in [1..n -> 2..(n + 1)]
      BY <1>1
    <2>2. \A a, b \in 1..n : h[a] = h[b] => a = b
      BY <1>1
    <2>3. \A t \in 2..(n + 1) : \E s \in 1..n : h[s] = t
      <3> TAKE t \in 2..(n + 1)
      <3>1. t - 1 \in 1..n /\ h[t - 1] = t
        BY <1>1
      <3> QED BY <3>1
    <2> HIDE DEF h
    <2> QED BY <2>1, <2>2, <2>3 DEF Bijection, Injection, Surjection, IsInjective
  <1>5. /\ \A i \in 1..n : f[i] \in Nat /\ g[h[i]] = f[i]
        /\ g[1] = FileSizes[Head(ps)] /\ g[1] \in Nat
        /\ \A i \in 2..(n + 1) : g[i] \in Nat
    <2>0. \A i \in 1..(n + 1) : i = 1 \/ (i - 1 \in 1..n /\ (i - 1) + 1 = i)
      BY <1>1
    <2>1. \A i \in 1..(n + 1) : ps[i] \in 1..Whole /\ g[i] \in Nat
      <3>1. \A i \in 1..(n + 1) : ps[i] \in 1..Whole
        BY <2>0, <1>1
      <3> QED BY <3>1, <1>1, SizeIsNat
    <2>2. \A i \in 1..n : h[i] = i + 1 /\ i + 1 \in 1..(n + 1)
      BY <1>1
    <2>3. \A i \in 1..n : f[i] = g[i + 1]
      BY <1>1, <2>2
    <2>4. 1 \in 1..(n + 1) /\ \A i \in 2..(n + 1) : i \in 1..(n + 1)
      BY <1>1
    <2> QED BY <2>1, <2>2, <2>3, <2>4, <1>1
  <1> HIDE DEF f, g, h
  <1>6. SumOf(2..(n + 1), g) = SumOf(1..n, f)
    <2> DEFINE S == 1..n
               T == 2..(n + 1)
    <2>1. IsFiniteSet(S) /\ h \in Bijection(S, T)
      BY <1>3, <1>4
    <2>2. \A i \in S : f[i] \in Nat /\ g[h[i]] = f[i]
      BY <1>5
    <2> HIDE DEF S, T
    <2>3. SumOf(T, g) = SumOf(S, f)
      BY ONLY <2>1, <2>2, SumRenamed
    <2> QED BY <2>3 DEF S, T
  <1>7. SumOf(1..n, f) \in Nat
    BY <1>3, <1>5, SumType
  <1>8. \A i \in (2..(n + 1)) \cup {1} : g[i] \in Nat
    BY <1>5
  <1>9. SumOf((2..(n + 1)) \cup {1}, g) = SumOf(2..(n + 1), g) + g[1]
    BY <1>2, <1>3, <1>8, SumAdd
  <1> QED BY <1>1, <1>2, <1>5, <1>6, <1>7, <1>9 DEF SumOfSizes, f, g, q

(* The difference of the counters agrees with the bytes in the queue.       *)
BytesAgree ==
    owner # "destroyed" => Agree(enqueuedByteCount - dequeuedByteCount, SumOfSizes(packetQueue))

LEMMA BytesStep == IInv /\ BytesAgree /\ [Next]_vars => BytesAgree'
  <1> SUFFICES ASSUME IInv, BytesAgree, [Next]_vars PROVE BytesAgree'
    OBVIOUS
  <1>0. /\ packetQueue \in Seq(1..Whole)
        /\ enqueuedByteCount \in Int /\ dequeuedByteCount \in Int
    BY CounterAssumption DEF IInv, TypeOK
  <1>1. CASE Enqueue
    <2> DEFINE size == FileSizes[packet]
               sum == SumOfSizes(packetQueue)
               total == enqueuedByteCount + size
               wrapped == total % CounterMod
    <2>1. packet \in 1..Whole /\ size \in Nat
      BY <1>1, SizeIsNat DEF Enqueue, IInv, Control
    <2>2. sum \in Nat /\ SumOfSizes(packetQueue') = sum + size
      BY <1>0, <1>1, <2>1, SizesAppended DEF Enqueue
    <2>3. /\ enqueuedByteCount' = wrapped /\ dequeuedByteCount' = dequeuedByteCount
          /\ owner' = owner
      BY <1>1 DEF Enqueue
    <2>4. owner # "destroyed"
      BY <1>1 DEF Enqueue, IInv, DestroyedIsUnused
    <2> HIDE DEF size, sum
    <2>5. total \in Int
      BY <1>0, <2>1
    <2>6. wrapped \in Int /\ Agree(wrapped, total)
      <3> HIDE DEF total
      <3> QED BY <2>5, Remainder
    <2>7. Agree(wrapped + (-dequeuedByteCount), total + (-dequeuedByteCount))
      <3> HIDE DEF total, wrapped
      <3>1. -dequeuedByteCount \in Int
        BY <1>0
      <3> QED BY <3>1, <2>5, <2>6, AgreeArithmetic
    <2>8. Agree(enqueuedByteCount - dequeuedByteCount, sum)
      BY <2>4 DEF BytesAgree, sum
    <2>9. Agree((enqueuedByteCount - dequeuedByteCount) + size, sum + size)
      <3>1. enqueuedByteCount - dequeuedByteCount \in Int /\ sum \in Int /\ size \in Int
        BY <1>0, <2>1, <2>2
      <3> QED BY <3>1, <2>8, AgreeArithmetic
    <2>10. total + (-dequeuedByteCount) = (enqueuedByteCount - dequeuedByteCount) + size
      BY <1>0, <2>1
    <2>11. wrapped + (-dequeuedByteCount) = wrapped - dequeuedByteCount
           /\ wrapped - dequeuedByteCount \in Int
           /\ (enqueuedByteCount - dequeuedByteCount) + size \in Int /\ sum + size \in Int
      BY <1>0, <2>1, <2>2, <2>6
    <2> HIDE DEF wrapped, total
    <2>12. Agree(wrapped - dequeuedByteCount, sum + size)
      BY <2>7, <2>9, <2>10, <2>11, AgreeTransitive
    <2> QED BY <2>2, <2>3, <2>12 DEF BytesAgree
  <1>2. CASE GetNextPacket
    <2> DEFINE size == FileSizes[Head(packetQueue)]
               rest == SumOfSizes(Tail(packetQueue))
               total == dequeuedByteCount + size
               wrapped == total % CounterMod
    <2>1. Head(packetQueue) \in 1..Whole /\ size \in Nat /\ packetQueue # << >>
      <3>1. packetQueue # << >>
        BY <1>2 DEF GetNextPacket
      <3>2. Head(packetQueue) \in 1..Whole
        <4> DEFINE S == 1..Whole
        <4>1. packetQueue \in Seq(S)
          BY <1>0
        <4> HIDE DEF S
        <4>2. Head(packetQueue) \in S
          BY <3>1, <4>1, HeadTailProperties
        <4> QED BY <4>2 DEF S
      <3> QED BY <3>1, <3>2, SizeIsNat
    <2>2. rest \in Nat /\ SumOfSizes(packetQueue) = rest + size
      BY <1>0, <2>1, SizesTail
    <2>3. /\ enqueuedByteCount' = enqueuedByteCount /\ dequeuedByteCount' = wrapped
          /\ owner' = owner /\ packetQueue' = Tail(packetQueue)
      BY <1>2 DEF GetNextPacket
    <2>4. owner # "destroyed"
      BY <1>2 DEF GetNextPacket, IInv, DestroyedIsUnused
    <2> HIDE DEF size, rest
    <2>5. total \in Int
      BY <1>0, <2>1
    <2>6. wrapped \in Int /\ Agree(wrapped, total)
      <3> HIDE DEF total
      <3> QED BY <2>5, Remainder
    <2>7. Agree(enqueuedByteCount - wrapped, enqueuedByteCount - total)
      <3> HIDE DEF total, wrapped
      <3> QED BY <1>0, <2>5, <2>6, AgreeArithmetic
    <2>8. Agree(enqueuedByteCount - dequeuedByteCount, rest + size)
      BY <2>2, <2>4 DEF BytesAgree
    <2>9. Agree((enqueuedByteCount - dequeuedByteCount) + (-size), (rest + size) + (-size))
      <3>1. enqueuedByteCount - dequeuedByteCount \in Int /\ rest + size \in Int /\ -size \in Int
        BY <1>0, <2>1, <2>2
      <3> QED BY <3>1, <2>8, AgreeArithmetic
    <2>10. /\ enqueuedByteCount - total = (enqueuedByteCount - dequeuedByteCount) + (-size)
           /\ (rest + size) + (-size) = rest
      BY <1>0, <2>1, <2>2
    <2>11. enqueuedByteCount - wrapped \in Int /\ enqueuedByteCount - total \in Int /\ rest \in Int
      BY <1>0, <2>2, <2>5, <2>6
    <2> HIDE DEF wrapped, total
    <2>12. Agree(enqueuedByteCount - wrapped, rest)
      BY <2>7, <2>9, <2>10, <2>11, AgreeTransitive
    <2> QED BY <2>3, <2>12 DEF BytesAgree, rest
  <1>3. CASE Drain
    BY <1>3 DEF Drain, BytesAgree
  <1>4. CASE /\ UNCHANGED <<packetQueue, enqueuedByteCount, dequeuedByteCount>>
             /\ owner = "destroyed" => owner' = "destroyed"
    <2>1. /\ packetQueue' = packetQueue /\ enqueuedByteCount' = enqueuedByteCount
          /\ dequeuedByteCount' = dequeuedByteCount
      BY <1>4
    <2> QED BY <1>4, <2>1 DEF BytesAgree
  <1>5. \/ Enqueue \/ GetNextPacket \/ Drain
        \/ /\ UNCHANGED <<packetQueue, enqueuedByteCount, dequeuedByteCount>>
           /\ owner = "destroyed" => owner' = "destroyed"
    BY DEF Next, Reader, ClientCalls, Teardown, Finished, vars, fileVars, queueVars,
           TestAbort, LookAtQueue, ReturnFromNotFull, ReadPcapPacket, HasNextPacket,
           ReturnFromHasNext, WaitForPacket, WaitForPacketTimeout, GetNothing, ClientLeaves,
           AbortFileRead, Destroy, Join
  <1> QED BY <1>1, <1>2, <1>3, <1>4, <1>5

(* However often the counters have wrapped, their difference gives the      *)
(* bytes in the queue.                                                      *)
THEOREM CountersGiveBytes == Spec => []BytesInQueueExact
  <1>1. Init => BytesAgree
    <2> SUFFICES ASSUME Init PROVE BytesAgree
      OBVIOUS
    <2>1. SumOfSizes(packetQueue) = 0
      <3>1. DOMAIN packetQueue = {}
        BY DEF Init
      <3> QED BY <3>1, SumEmpty DEF SumOfSizes
    <2>2. 0 = 0 + 0 * CounterMod
      BY CounterAssumption
    <2> QED BY <2>1, <2>2 DEF Init, BytesAgree, Agree
  <1>2. IInv /\ BytesAgree => BytesInQueueExact
    <2> SUFFICES ASSUME IInv, BytesAgree, owner # "destroyed"
                 PROVE  (enqueuedByteCount - dequeuedByteCount) % CounterMod
                          = SumOfSizes(packetQueue) % CounterMod
      BY DEF BytesInQueueExact
    <2>1. enqueuedByteCount - dequeuedByteCount \in Int
      BY CounterAssumption DEF IInv, TypeOK
    <2>2. SumOfSizes(packetQueue) \in Int
      <3>1. \A i \in DOMAIN packetQueue : FileSizes[packetQueue[i]] \in Nat
        <4>1. \A i \in DOMAIN packetQueue : packetQueue[i] \in 1..Whole
          <5> DEFINE S == 1..Whole
          <5>1. packetQueue \in Seq(S)
            BY DEF IInv, TypeOK
          <5> HIDE DEF S
          <5>2. \A i \in DOMAIN packetQueue : packetQueue[i] \in S
            BY <5>1
          <5> QED BY <5>2 DEF S
        <4> QED BY <4>1, SizeIsNat
      <3>2. IsFiniteSet(DOMAIN packetQueue)
        <4>1. Len(packetQueue) \in Nat /\ DOMAIN packetQueue = 1..Len(packetQueue)
          BY DEF IInv, TypeOK
        <4>2. 1 \in Int /\ Len(packetQueue) \in Int
          BY <4>1
        <4> QED BY <4>1, <4>2, FS_Interval
      <3> DEFINE f == [i \in DOMAIN packetQueue |-> FileSizes[packetQueue[i]]]
      <3>3. \A i \in DOMAIN packetQueue : f[i] \in Nat
        BY <3>1
      <3> HIDE DEF f
      <3>4. SumOf(DOMAIN packetQueue, f) \in Nat
        BY <3>2, <3>3, SumType
      <3> QED BY <3>4 DEF SumOfSizes, f
    <2>3. Agree(enqueuedByteCount - dequeuedByteCount, SumOfSizes(packetQueue))
      BY DEF BytesAgree
    <2> QED BY <2>1, <2>2, <2>3, AgreeRemainders
  <1>3. IInv /\ BytesAgree /\ [Next]_vars => BytesAgree'
    BY BytesStep
  <1> QED BY <1>1, <1>2, <1>3, Inductive, PTL DEF Spec

----------------------------------------------------------------------------
(* What the client leaves behind when hasNextPacket has answered false.     *)
Behind == Len(deleted) + Len(packetQueue) + Len(Hand)

LastBehind ==
    client = "stopped" => atEnd /\ Behind <= 1 /\ (trailingBytes => Behind = 0)

LEMMA HandFacts ==
    ASSUME IInv
    PROVE  Hand \in Seq(1..Whole) /\ Len(Hand) = (IF packet = 0 THEN 0 ELSE 1)
  <1>1. packet \in 0..Whole /\ Whole \in Nat
    BY SizesOfFile DEF IInv, TypeOK
  <1>2. CASE packet = 0
    BY <1>2, EmptySeq DEF Hand
  <1>3. CASE packet # 0
    <2>1. packet \in 1..Whole
      BY <1>1, <1>3
    <2> QED BY <1>3, <2>1 DEF Hand
  <1> QED BY <1>2, <1>3

LEMMA LastBehindStep == IInv /\ LastBehind /\ [Next]_vars => LastBehind'
  <1> SUFFICES ASSUME IInv, LastBehind, [Next]_vars, client' = "stopped"
               PROVE  atEnd' /\ Behind' <= 1 /\ (trailingBytes' => Behind' = 0)
    BY DEF LastBehind
  <1>0. /\ packetQueue \in Seq(1..Whole) /\ deleted \in Seq(1..Whole)
        /\ pos \in 0..Records /\ Whole \in Nat /\ trailingBytes \in BOOLEAN
        /\ Records = IF trailingBytes THEN Whole + 1 ELSE Whole
        /\ Hand \in Seq(1..Whole) /\ Len(Hand) = (IF packet = 0 THEN 0 ELSE 1)
    BY HandFacts, SizesOfFile DEF IInv, TypeOK, Records
  <1>1. CASE HasNextPacket \/ ReturnFromHasNext
    <2>1. packetQueue = << >> /\ atEnd /\ owner = "using"
          /\ UNCHANGED <<trailingBytes, pos, packetQueue, packet, deleted>>
      BY <1>1 DEF HasNextPacket, ReturnFromHasNext, IInv, Control, fileVars, queueVars
    <2>2. deleted = << >>
      BY <2>1 DEF IInv, Control
    <2>3. Behind = Len(Hand) /\ Behind' = Behind /\ atEnd'
      BY <1>0, <2>1, <2>2 DEF Behind, Hand, atEnd, Records
    <2>4. trailingBytes => packet = 0
      <3>1. reader = "enqueue" => packet = pos /\ pos \in 1..Whole
        BY DEF IInv, Control
      <3>2. trailingBytes => pos = Whole + 1
        BY <1>0, <2>1 DEF atEnd
      <3> QED BY <3>1, <3>2, <1>0 DEF IInv, Control
    <2> QED BY <2>1, <2>3, <2>4, <1>0
  <1>2. CASE client = "stopped" /\ ReadPcapPacket
    <2>1. /\ pos = Records /\ pos' = pos /\ packet = 0
          /\ UNCHANGED <<trailingBytes, packetQueue, deleted>>
      BY <1>2 DEF ReadPcapPacket, LastBehind, IInv, Control, atEnd, queueVars
    <2>2. packet' = 0
      BY <1>0, <1>2, <2>1 DEF ReadPcapPacket
    <2>3. Behind' = Behind /\ atEnd'
      BY <2>1, <2>2 DEF Behind, Hand, atEnd, Records
    <2> QED BY <1>2, <2>1, <2>3 DEF LastBehind
  <1>3. CASE client = "stopped" /\ Enqueue
    <2>1. /\ packet \in 1..Whole /\ packet # 0 /\ packetQueue' = Append(packetQueue, packet)
          /\ packet' = 0 /\ UNCHANGED <<trailingBytes, pos, deleted>>
      BY <1>0, <1>3 DEF Enqueue, IInv, Control
    <2>2. Len(packetQueue') = Len(packetQueue) + 1 /\ Len(Hand) = 1 /\ Len(Hand') = 0
      BY <1>0, <2>1 DEF Hand
    <2>3. Behind' = Behind /\ atEnd' = atEnd
      BY <1>0, <2>1, <2>2 DEF Behind, atEnd, Records
    <2> QED BY <1>3, <2>1, <2>3 DEF LastBehind
  <1>4. CASE client = "stopped" /\ Drain
    <2>1. /\ packetQueue' = << >> /\ deleted' = deleted \o packetQueue
          /\ UNCHANGED <<trailingBytes, pos, packet>>
      BY <1>4 DEF Drain, fileVars
    <2>2. Len(deleted') = Len(deleted) + Len(packetQueue) /\ Len(packetQueue') = 0
      BY <1>0, <2>1, ConcatProperties
    <2>3. Behind' = Behind /\ atEnd' = atEnd
      BY <1>0, <2>1, <2>2 DEF Behind, Hand, atEnd, Records
    <2> QED BY <1>4, <2>1, <2>3 DEF LastBehind
  <1>5. CASE client = "stopped" /\ UNCHANGED <<trailingBytes, pos, packet, packetQueue, deleted>>
    <2>1. /\ trailingBytes' = trailingBytes /\ pos' = pos /\ packet' = packet
          /\ packetQueue' = packetQueue /\ deleted' = deleted
      BY <1>5
    <2>2. Behind' = Behind /\ atEnd' = atEnd
      BY <2>1 DEF Behind, Hand, atEnd, Records
    <2> QED BY <1>5, <2>1, <2>2 DEF LastBehind
  <1>6. \/ HasNextPacket \/ ReturnFromHasNext
        \/ client = "stopped" /\ (ReadPcapPacket \/ Enqueue \/ Drain)
        \/ client = "stopped" /\ UNCHANGED <<trailingBytes, pos, packet, packetQueue, deleted>>
    BY DEF Next, Reader, ClientCalls, Teardown, Finished, vars, fileVars, queueVars,
           TestAbort, LookAtQueue, ReturnFromNotFull, ReadPcapPacket, Enqueue, GetNextPacket,
           WaitForPacket, WaitForPacketTimeout, GetNothing, ClientLeaves, WakeClient,
           AbortFileRead, Destroy, AbortEffect, Join, Drain
  <1> QED BY <1>1, <1>2, <1>3, <1>4, <1>5, <1>6

(* A client that stops because hasNextPacket answered false has missed the  *)
(* last packet at most, and nothing when stray bytes follow the last record.*)
THEOREM ClientMissesAtMostTheLast == Spec => []MissesAtMostTheLast
  <1>1. Init => LastBehind
    BY DEF Init, LastBehind
  <1>2. IInv /\ LastBehind => MissesAtMostTheLast
    <2> SUFFICES ASSUME IInv, LastBehind, client = "stopped"
                 PROVE  \/ Len(received) = Whole
                        \/ Len(received) = Whole - 1 /\ ~trailingBytes
      BY DEF MissesAtMostTheLast
    <2>1. /\ received \in Seq(1..Whole) /\ deleted \in Seq(1..Whole)
          /\ packetQueue \in Seq(1..Whole) /\ Hand \in Seq(1..Whole)
          /\ Whole \in Nat /\ pos = Records /\ Behind <= 1 /\ (trailingBytes => Behind = 0)
      BY HandFacts, SizesOfFile DEF IInv, TypeOK, LastBehind, atEnd
    <2>2. Taken = Whole
      BY <2>1, SizesOfFile DEF Taken, IInv, TypeOK
    <2>3. received \o deleted \o packetQueue \o Hand = [i \in 1..Whole |-> i]
      BY <2>2 DEF IInv, NothingLost
    <2>4. Len(received \o deleted \o packetQueue \o Hand) = Whole
      <3>1. Len([i \in 1..Whole |-> i]) = Whole
        BY <2>1
      <3> QED BY <2>3, <3>1
    <2>5. Len(received \o deleted \o packetQueue \o Hand)
            = Len(received) + Len(deleted) + Len(packetQueue) + Len(Hand)
      <3> DEFINE S == 1..Whole
      <3>1. received \in Seq(S) /\ deleted \in Seq(S) /\ packetQueue \in Seq(S) /\ Hand \in Seq(S)
        BY <2>1
      <3> HIDE DEF S
      <3>2. /\ received \o deleted \in Seq(S)
            /\ Len(received \o deleted) = Len(received) + Len(deleted)
        BY <3>1, ConcatProperties
      <3>3. /\ received \o deleted \o packetQueue \in Seq(S)
            /\ Len(received \o deleted \o packetQueue)
                 = Len(received \o deleted) + Len(packetQueue)
        BY <3>1, <3>2, ConcatProperties
      <3>4. Len(received \o deleted \o packetQueue \o Hand)
              = Len(received \o deleted \o packetQueue) + Len(Hand)
        BY <3>1, <3>3, ConcatProperties
      <3> QED BY <3>2, <3>3, <3>4
    <2>6. Len(received) + Behind = Whole /\ Behind \in Nat /\ Len(received) \in Nat
      BY <2>1, <2>4, <2>5 DEF Behind
    <2> QED BY <2>1, <2>6
  <1>3. IInv /\ LastBehind /\ [Next]_vars => LastBehind'
    BY LastBehindStep
  <1> QED BY <1>1, <1>2, <1>3, Inductive, PTL DEF Spec
=============================================================================
