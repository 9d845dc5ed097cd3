----------------------------- MODULE SmbSession -----------------------------
(***************************************************************************)
(* PacketParser/PacketHandlers/SmbCommandPacketHandler: files assembled    *)
(* from the reads of SMB sessions that a capture shows.  A response does   *)
(* not name its file: it is taken to be about the file that its tree       *)
(* referred to last, and a file that is being created waits under id 0.    *)
(* The clients send requests in any order, the servers answer them in any  *)
(* order, and the capture misses some frames and repeats others.           *)
(*                                                                         *)
(* A file's exchange is a number: 0 at first, 1 when its creation was      *)
(* requested, 2 when that was answered, then two for each read, and at     *)
(* last one for the close.  The list of assemblers of the main handler has *)
(* no effect (its functions are stubs); removing closes an assembler.      *)
(***************************************************************************)
EXTENDS FileStreamAssembler, PopularityLists

CONSTANTS
    Captures,          \* sets of files [session, tree, id, reads]: a read has a length and
                       \* the part of it, carried, in the answer's first segment
    SessionPoolSize,   \* smbSessionPopularityList(100)
    FilePoolSize,      \* fileIdAssemblerList(100)
    MaxFaults          \* bound: frames missed or captured again

VARIABLES
    sessions,   \* smbSessionPopularityList: [key, last, assemblers], where last is
                \* lastReferencedFileIdPerTreeId and an entry of assemblers, the
                \* fileIdAssemblerList, is [key, assembler]
    disk,
    files,      \* the files of this capture
    exchange,   \* how far each file's exchange is
    missed,     \* history: files with a frame that was not captured
    latest,     \* history: the file each session's latest frame was about
    disorderly, \* history: sessions with two requests under way at once, with
                \* a frame repeated after later ones, or with more files not
                \* read yet than the list holds
    faults

vars == <<sessions, disk, files, exchange, missed, latest, disorderly, faults>>

Init ==
    /\ sessions = << >> /\ disk = EmptyDisk
    /\ files \in Captures /\ exchange = [f \in files |-> 0]
    /\ missed = {} /\ latest = << >> /\ disorderly = {}
    /\ faults = 0

----------------------------------------------------------------------------
\* SmbSession, as operators from a session to the one after the call.

Tuple(f) == <<"server", f.session>>

NewSession(key) == [key |-> key, last |-> << >>, assemblers |-> << >>]

\* AddFileStreamAssembler
AddFileStreamAssembler(session, assembler, tree, id) ==
    [session EXCEPT !.last = Put(@, tree, id),
                    !.assemblers = AddBounded(@, [key |-> id, assembler |-> assembler], FilePoolSize)]

\* A tree that referred to nothing yet counts as one that is creating a file.
LastReferenced(session, tree) == IF tree \in DOMAIN session.last THEN session.last[tree] ELSE 0

RemoveFileStreamAssembler(session, id) == [session EXCEPT !.assemblers = WithoutKey(@, id)]

RemoveLastReferencedAssembler(session, tree) ==
    RemoveFileStreamAssembler(session, LastReferenced(session, tree))

\* GetLastReferencedFileStreamAssembler: whether there is one, which, and the
\* session with its entry moved to the front.
HasLast(session, tree) ==
    tree \in DOMAIN session.last /\ session.last[tree] \in KeysOf(session.assemblers)
LastAssembler(session, tree) ==
    session.assemblers[Position(session.assemblers, session.last[tree])].assembler
LastTouched(session, tree) ==
    IF tree \in DOMAIN session.last
    THEN [session EXCEPT !.assemblers = Touch(@, session.last[tree])] ELSE session

\* The assembler changes where it is: the entry holds a pointer.
WithLast(session, tree, assembler) ==
    [session EXCEPT !.assemblers[Position(session.assemblers, session.last[tree])].assembler = assembler]

\* Mutant: a read does not name its file.
MutTouchFileNot(session, tree, id) == session
TouchFile(session, tree, id) ==
    IF id \in KeysOf(session.assemblers) THEN [session EXCEPT !.last = Put(@, tree, id)] ELSE session

----------------------------------------------------------------------------
\* ExtractSmbData for each kind of command: from the sessions and the disk to
\* the two afterwards.

After(newSessions, newDisk) == [sessions |-> newSessions, disk |-> newDisk]

\* TryGetValue moves the session to the front; it is then changed in place.
SessionOf(f) == sessions[Position(sessions, f.session)]
WithSession(session, newDisk) ==
    After(PushFront(WithoutKey(sessions, session.key), session), newDisk)

EndOfFile(f) == FoldLeft(LAMBDA sum, read : sum + read.length, 0, f.reads)

CreateRequest(f) ==
    LET known == f.session \in KeysOf(sessions)
        session == IF known THEN SessionOf(f) ELSE NewSession(f.session)
        added == AddFileStreamAssembler(session, NewAssembler(Tuple(f), "SMB", f), f.tree, 0)
    IN  IF known THEN WithSession(added, disk)
        ELSE After(AddBounded(sessions, added, SessionPoolSize), disk)

CreateResponse(f) ==
    LET session == LastTouched(SessionOf(f), f.tree)
        removed == RemoveLastReferencedAssembler(session, f.tree)
    IN  IF HasLast(session, f.tree)
        THEN WithSession(AddFileStreamAssembler(removed,
                 [LastAssembler(session, f.tree) EXCEPT !.content = EndOfFile(f)], f.tree, f.id), disk)
        ELSE WithSession(removed, disk)

ReadRequest(f) == WithSession(TouchFile(SessionOf(f), f.tree, f.id), disk)

\* Mutant: data is added to an active assembler, too.
MutReadIntoAddsAlways(a, piece, number, length) ==
    LET awaiting == [a EXCEPT !.remaining = @ + length]
        active == IF a.active THEN Result(awaiting, disk) ELSE TryActivate(awaiting, disk)
    IN  AddData(active.assembler, active.disk, piece, number)
\* An assembler that is active already gets nothing.
ReadInto(a, piece, number, length) ==
    LET awaiting == [a EXCEPT !.remaining = @ + length]
        active == TryActivate(awaiting, disk)
    IN  IF a.active THEN Result(awaiting, disk)
        ELSE AddData(active.assembler, active.disk, piece, number)

\* The number of the segment is that of its place in the server's stream.
SegmentOf(f, i) == f.id * 10 + i

ReadResponse(f, i) ==
    LET session == LastTouched(SessionOf(f), f.tree)
        piece == [file |-> f, read |-> i, size |-> f.reads[i].carried]
        read == ReadInto(LastAssembler(session, f.tree), piece, SegmentOf(f, i), f.reads[i].length)
        filled == WithLast(session, f.tree, read.assembler)
    IN  IF ~HasLast(session, f.tree) THEN WithSession(session, disk)
        ELSE IF read.assembler.active THEN WithSession(filled, read.disk)
        ELSE WithSession(RemoveLastReferencedAssembler(filled, f.tree), read.disk)

\* The assembler is cleared, which removes the temporary file of its name.
CloseRequest(f) ==
    LET session == SessionOf(f)
        closed == session.assemblers[Position(session.assemblers, f.id)].assembler
    IN  IF f.id \notin KeysOf(session.assemblers) THEN WithSession(session, disk)
        ELSE WithSession([RemoveFileStreamAssembler(session, f.id) EXCEPT !.last = Put(@, f.tree, f.id)],
                         ClearAssembler(closed, disk).disk)

\* The frame that brings the exchange of f to step n.
LastStep(f) == 2 * Len(f.reads) + 3
Handled(f, n) ==
    IF n = 1 THEN CreateRequest(f)
    ELSE IF f.session \notin KeysOf(sessions) THEN After(sessions, disk)
    ELSE IF n = 2 THEN CreateResponse(f)
    ELSE IF n = LastStep(f) THEN CloseRequest(f)
    ELSE IF n % 2 = 1 THEN ReadRequest(f)
    ELSE ReadResponse(f, (n - 2) \div 2)

Handle(f, n) ==
    /\ sessions' = Handled(f, n).sessions
    /\ disk' = Handled(f, n).disk

----------------------------------------------------------------------------
Fault == faults < MaxFaults /\ faults' = faults + 1

\* Its request was sent and the answer has not come.
UnderWay(f) == exchange[f] % 2 = 1 /\ exchange[f] < LastStep(f)
Waiting(s) == {f \in files : f.session = s /\ exchange[f] \in 1..(LastStep(f) - 2)}

\* The next frame of a file's exchange is sent.  The server gives no id to a file
\* that another open file of the session has.
Open(f) == exchange[f] \in 2..(LastStep(f) - 1)
Sent(f) ==
    /\ exchange[f] < LastStep(f)
    /\ exchange[f] = 1 => ~\E g \in files : g # f /\ g.session = f.session /\ g.id = f.id /\ Open(g)
    /\ exchange' = [exchange EXCEPT ![f] = @ + 1]
    /\ latest' = Put(latest, f.session, f)
    /\ disorderly' = IF \/ \E g \in files : g # f /\ g.session = f.session /\ UnderWay(g)
                        \/ Cardinality(Waiting(f.session) \cup {f}) > FilePoolSize
                     THEN disorderly \cup {f.session} ELSE disorderly
    /\ UNCHANGED files

Captured(f) == Sent(f) /\ Handle(f, exchange[f] + 1) /\ UNCHANGED <<missed, faults>>

Missed(f) ==
    /\ Fault /\ Sent(f)
    /\ missed' = missed \cup {f}
    /\ UNCHANGED <<sessions, disk>>

\* The last frame of the exchange is captured again.
Repeated(f) ==
    /\ Fault
    /\ exchange[f] > 0
    /\ Handle(f, exchange[f])
    /\ disorderly' = IF latest[f.session] = f THEN disorderly ELSE disorderly \cup {f.session}
    /\ UNCHANGED <<files, exchange, missed, latest>>

Next == \E f \in files : Captured(f) \/ Missed(f) \/ Repeated(f)

Spec == Init /\ [][Next]_vars

----------------------------------------------------------------------------
Begun(s) == {f \in files : f.session = s /\ exchange[f] > 0}
BegunSessions == {s \in {f.session : f \in files} : Begun(s) # {}}
OneRead(f) == Len(f.reads) = 1 /\ f.reads[1].carried = f.reads[1].length /\ f.reads[1].length > 0
Read(f) == exchange[f] >= LastStep(f) - 1

\* A session whose requests were sent one at a time and captured, for files
\* that one answer holds and whose ids are not 0, under which the files that are
\* being created wait, in a capture of no more sessions than the list holds.
Plain(s) ==
    /\ s \notin disorderly /\ Begun(s) \cap missed = {}
    /\ \A f \in Begun(s) : OneRead(f) /\ f.id # 0
    /\ Cardinality(BegunSessions) <= SessionPoolSize

\* What a session without surprises read is published: each file under its own
\* name with its own data, although its sessions' files share one temporary
\* file, ids are used again on other trees and frames are repeated.
PlainReadsArePublished ==
    \A f \in files : Plain(f.session) /\ Read(f) =>
        LET named == {i \in DOMAIN disk.output : disk.output[i].name = f}
        IN  /\ Cardinality(named) = 1
            /\ \A i \in named : Output(disk)[i].data = <<[file |-> f, read |-> 1, size |-> f.reads[1].length]>>

\* Whatever is missed, repeated or sent at once: no published file is made of
\* more than one answer, so none mixes the data of two files.
PublishedFromOneAnswer == \A i \in DOMAIN disk.output : Len(Output(disk)[i].data) = 1
=============================================================================
