--------------------------- MODULE PacketChannel ---------------------------
(***************************************************************************)
(* What a capture-file reader promises its client, with no threads in it:  *)
(* the packets of the file come out one at a time, in file order, none     *)
(* twice and none skipped, and at most Capacity of them are held between   *)
(* the file and the client.  The channel may be torn down at any moment:   *)
(* what it then holds is discarded.                                        *)
(***************************************************************************)
EXTENDS Naturals, Sequences

CONSTANTS Packets,   \* number of whole packets in the file
          Capacity   \* how many packets the reader may hold

VARIABLES taken,     \* packets 1..taken have been read from the file
          held,      \* packets read and not yet given to the client
          given,     \* packets the client has got, in the order it got them
          torn       \* the reader has been destroyed

vars == <<taken, held, given, torn>>

Init ==
    /\ taken = 0
    /\ held = << >>
    /\ given = << >>
    /\ torn = FALSE

\* The next packet of the file enters the channel.
Take ==
    /\ ~torn
    /\ taken < Packets
    /\ Len(held) < Capacity
    /\ taken' = taken + 1
    /\ held' = Append(held, taken + 1)
    /\ UNCHANGED <<given, torn>>

\* The oldest packet held goes to the client.
Give ==
    /\ ~torn
    /\ held # << >>
    /\ given' = Append(given, Head(held))
    /\ held' = Tail(held)
    /\ UNCHANGED <<taken, torn>>

\* The reader is destroyed and frees what it holds.
TearDown ==
    /\ ~torn
    /\ torn' = TRUE
    /\ held' = << >>
    /\ UNCHANGED <<taken, given>>

Next == Take \/ Give \/ TearDown

Spec == Init /\ [][Next]_vars
=============================================================================
