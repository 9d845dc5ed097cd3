------------------------- MODULE StreamReassembler --------------------------
(***************************************************************************)
(* PacketParser/Utils/StreamReassembler.cpp: data comes in pieces and is   *)
(* stored until a terminator has come, which may be spread over pieces.    *)
(* The stream is offered until its terminator is found, and the caller     *)
(* counts what AddData says it has used.                                   *)
(***************************************************************************)
EXTENDS KnuthMorrisPratt, BoyerMoore

CONSTANTS Bytes, Terminators,
          MaxLength     \* bound: bytes that arrive

ASSUME TerminatorAssumption ==
    Terminators \subseteq Seq(Bytes) \ {<< >>} /\ MaxLength \in Nat

VARIABLES
    terminator,       \* DATA_TERMINATOR
    skip,             \* postTerminatorSkipBytes
    dataStream,
    terminatorFound,
    arrived,          \* history: all bytes offered
    newest,           \* history: length of the last piece
    used              \* sum of what AddData returned

streamVars == <<terminator, skip, dataStream, terminatorFound, arrived, newest, used>>

\* More than the terminator must not be kept: AddData would read behind the
\* buffer.
StreamInit ==
    /\ terminator \in Terminators /\ skip \in 0..Len(terminator)
    /\ dataStream = << >> /\ terminatorFound = FALSE
    /\ arrived = << >> /\ newest = 0 /\ used = 0

----------------------------------------------------------------------------
OldBytesToRead == Min({Len(terminator) - 1, Len(dataStream)})

\* Mutant: the terminator is looked for in the new piece alone.
MutFound(buffer) ==
    LET inPiece == ReadTo(terminator, buffer, 0) IN IF inPiece # -1 THEN {inPiece} ELSE {}

\* Where the terminator starts, counted from the start of the piece, or none.
Found(buffer) ==
    LET inPiece == ReadTo(terminator, buffer, 0)
        old == OldBytesToRead
        tail == SubSeq(dataStream, Len(dataStream) - old + 1, Len(dataStream))
        inBoth == ReadTo(terminator, tail \o buffer, 0)
    IN  IF inPiece # -1 THEN {inPiece}
        ELSE IF dataStream # << >> /\ inBoth # -1 THEN {inBoth - old} ELSE {}

\* Mutant: what is used ends where the stored data ends.
MutUsedBytes(index) == index + skip
UsedBytes(index) == index + Len(terminator)

\* What is stored of the piece, counted from its start.
Count(index) == index + skip

AddData(buffer) ==
    LET found == Found(buffer)
        count == IF found = {} THEN Len(buffer) ELSE Count(Min(found))
    IN  /\ used' = used + (IF found = {} THEN Len(buffer) ELSE UsedBytes(Min(found)))
        /\ terminatorFound' = (terminatorFound \/ found # {})
        /\ dataStream' = dataStream \o SubSeq(buffer, 1, count)
        /\ arrived' = arrived \o buffer
        /\ newest' = Len(buffer)
        /\ UNCHANGED <<terminator, skip>>

Pieces == UNION {[1..n -> Bytes] : n \in 0..(MaxLength - Len(arrived))}

StreamNext == ~terminatorFound /\ \E buffer \in Pieces : AddData(buffer)

StreamSpec == StreamInit /\ [][StreamNext]_streamVars

----------------------------------------------------------------------------
\* Reference: where a pattern occurs.
Occurrences(pattern, data) ==
    {i \in 0..(Len(data) - Len(pattern)) : SubSeq(data, i + 1, i + Len(pattern)) = pattern}
FirstFrom(pattern, data, offset) ==
    LET at == {i \in Occurrences(pattern, data) : i >= offset} IN IF at = {} THEN -1 ELSE Min(at)
LastFrom(pattern, data, offset) ==
    LET at == {i \in Occurrences(pattern, data) : i >= offset} IN IF at = {} THEN -1 ELSE Max(at)

\* Both searches find the first occurrence from an offset on, and the last.
SearchesFindOccurrences ==
    \A offset \in 0..Len(arrived) :
        /\ ReadTo(terminator, arrived, offset) = FirstFrom(terminator, arrived, offset)
        /\ IndexOf(arrived, terminator, offset) = FirstFrom(terminator, arrived, offset)
        /\ LastIndexOf(arrived, terminator, offset) = LastFrom(terminator, arrived, offset)

\* However the data is cut into pieces, a terminator in it is noticed with its
\* last byte, and only then.
TerminatorIsNoticed == terminatorFound <=> Occurrences(terminator, arrived) # {}

\* What counts as used ends with the first terminator, or with one that is in
\* the last piece as a whole; all of it is stored up to there, but for the end of
\* the terminator that is not to be kept.
UsedUpToTerminator ==
    /\ ~terminatorFound => used = Len(arrived) /\ dataStream = arrived
    /\ terminatorFound =>
          LET start == used - Len(terminator)
              inPiece == FirstFrom(terminator, arrived, Len(arrived) - newest)
          IN  /\ start = IF inPiece # -1 THEN inPiece ELSE FirstFrom(terminator, arrived, 0)
              /\ dataStream = SubSeq(arrived, 1, Max({start + skip, Len(arrived) - newest}))
=============================================================================
