------------------------ MODULE FileStreamAssembler ------------------------
(***************************************************************************)
(* PacketHandlerFramework/FileTransfer/FileStreamAssembler.cpp: one file   *)
(* that is put together from pieces.  Pieces wait in a window, sorted by   *)
(* number, and go to a stream on a temporary file, whose name is made of   *)
(* the addresses and ports only; the finished file is renamed.             *)
(*                                                                         *)
(* The operations are operators from an assembler and the disk to the two  *)
(* after the call: a result has the fields assembler and disk.  A file on  *)
(* the disk has a number, as an open stream goes on writing to its file    *)
(* after the file was renamed.  A piece is a record with at least a size.  *)
(***************************************************************************)
EXTENDS Integers, Sequences, FiniteSets, FiniteSetsExt, SequencesExt

CONSTANT WindowSize    \* 64

ASSUME WindowAssumption == WindowSize \in Nat \ {0}

EmptyDisk == [files |-> << >>, cache |-> << >>, output |-> << >>]

\* stream is the number of the file, 0 for a null pointer; writing to a closed
\* stream does nothing.
NewAssembler(tuple, type, name) ==
    [tuple |-> tuple, type |-> type, name |-> name, active |-> FALSE, stream |-> 0, open |-> FALSE,
     position |-> 0, window |-> << >>, content |-> 0, remaining |-> 0, assembled |-> 0]

\* The types whose file ends with its last byte, of those modelled.
EndsByLength == {"SMB", "FTP"}

Result(a, disk) == [assembler |-> a, disk |-> disk]

Put(f, key, value) == [k \in DOMAIN f \cup {key} |-> IF k = key THEN value ELSE f[k]]
Without(f, key) == [k \in DOMAIN f \ {key} |-> f[k]]

\* QFile(temporary name), open(ReadWrite): nothing is truncated.
Opened(a, disk) ==
    LET new == Len(disk.files) + 1
    IN  IF a.tuple \in DOMAIN disk.cache
        THEN Result([a EXCEPT !.active = TRUE, !.stream = disk.cache[a.tuple], !.open = TRUE], disk)
        ELSE Result([a EXCEPT !.active = TRUE, !.stream = new, !.open = TRUE],
                    [disk EXCEPT !.files = Append(@, << >>), !.cache = Put(@, a.tuple, new)])

\* Mutant: a stream that was closed is opened again.
MutTryActivateReopens(a, disk) ==
    IF a.open THEN Result([a EXCEPT !.active = TRUE], disk)
    ELSE Opened([a EXCEPT !.position = 0], disk)
TryActivate(a, disk) ==
    IF a.stream # 0 THEN Result([a EXCEPT !.active = TRUE], disk) ELSE Opened(a, disk)

\* fileStream->write, over what is there from the stream's position on.
Overwritten(old, position, pieces) ==
    [i \in 1..Max({Len(old), position + Len(pieces)}) |->
        IF i \in position + 1 .. position + Len(pieces) THEN pieces[i - position] ELSE old[i]]
Write(a, disk, pieces) ==
    IF ~a.open THEN Result(a, disk)
    ELSE Result([a EXCEPT !.position = @ + Len(pieces)],
                [disk EXCEPT !.files[a.stream] = Overwritten(@, a.position, pieces)])

\* The window's pieces by their numbers, of which i - 1 are less than the i-th.
NumberAt(window, i) ==
    CHOOSE n \in DOMAIN window : Cardinality({m \in DOMAIN window : m < n}) = i - 1
InOrder(window) == [i \in 1..Cardinality(DOMAIN window) |-> window[NumberAt(window, i)]]

\* What the temporary file becomes: its number under the file's own name, made
\* unique among the files there are.
Named(a, disk) == [name |-> a.name, file |-> disk.cache[a.tuple]]

\* Mutant: the stream stays open.
MutFinishAssemblingKeepsStream(a, disk) ==
    LET flushed == Write(a, disk, InOrder(a.window))
        done == [flushed.assembler EXCEPT !.active = FALSE, !.window = << >>]
    IN  IF a.tuple \in DOMAIN disk.cache
        THEN Result(done, [flushed.disk EXCEPT !.cache = Without(@, a.tuple),
                                               !.output = Append(@, Named(a, disk))])
        ELSE Result(done, flushed.disk)
\* The window goes to the stream, which is closed, and the temporary file, if
\* there still is one of that name, gets a name that no file has.
FinishAssembling(a, disk) ==
    LET flushed == Write(a, disk, InOrder(a.window))
        done == [flushed.assembler EXCEPT !.active = FALSE, !.open = FALSE, !.window = << >>]
    IN  IF a.tuple \in DOMAIN disk.cache
        THEN Result(done, [flushed.disk EXCEPT !.cache = Without(@, a.tuple),
                                               !.output = Append(@, Named(a, disk))])
        ELSE Result(done, flushed.disk)

\* The guards of addData.
Counted(a) == a.type # "TFTP" /\ a.content # -1
Accepts(a, piece, number) ==
    /\ a.active /\ piece.size > 0 /\ number \notin DOMAIN a.window
    /\ Counted(a) => piece.size <= a.remaining

\* Mutant: the piece with the highest number leaves.
MutSpilledLast(a, disk) ==
    IF Cardinality(DOMAIN a.window) <= WindowSize THEN Result(a, disk)
    ELSE LET last == Max(DOMAIN a.window)
         IN  Write([a EXCEPT !.window = Without(@, last)], disk, <<a.window[last]>>)
\* A piece too many in the window: the one with the lowest number leaves.
Spilled(a, disk) ==
    IF Cardinality(DOMAIN a.window) <= WindowSize THEN Result(a, disk)
    ELSE LET first == Min(DOMAIN a.window)
         IN  Write([a EXCEPT !.window = Without(@, first)], disk, <<a.window[first]>>)

Inserted(a, piece, number) ==
    [a EXCEPT !.window = Put(@, number, piece),
              !.assembled = @ + piece.size,
              !.remaining = IF Counted(a) THEN @ - piece.size ELSE @]

\* addData with all it calls.
AddData(a, disk, piece, number) ==
    IF ~Accepts(a, piece, number) THEN Result(a, disk)
    ELSE LET added == Spilled(Inserted(a, piece, number), disk)
             b == added.assembler
         IN  IF b.type \in EndsByLength /\ b.assembled >= b.content /\ b.content # -1
             THEN FinishAssembling(b, added.disk)
             ELSE IF b.type # "TFTP" /\ b.remaining = 0
             THEN Result([b EXCEPT !.active = FALSE], added.disk)
             ELSE added

\* clear: a temporary file of that name is removed, whoever writes to it.
ClearAssembler(a, disk) ==
    IF a.stream = 0 THEN Result([a EXCEPT !.window = << >>], disk)
    ELSE Result([a EXCEPT !.window = << >>, !.stream = 0, !.open = FALSE, !.position = 0],
                [disk EXCEPT !.cache = Without(@, a.tuple)])

\* The files that were finished, in that order.
Output(disk) ==
    [i \in DOMAIN disk.output |->
        [name |-> disk.output[i].name, data |-> disk.files[disk.output[i].file]]]
=============================================================================
