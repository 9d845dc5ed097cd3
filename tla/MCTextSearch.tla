---------------------------- MODULE MCTextSearch ----------------------------
(* The stream reassembler, with the searches it is built on, and the cuckoo
   filter: a behaviour uses one of them.

   Terminators: each sequence of one to four of two bytes, so those that overlap
   themselves are among them.
   Filter: two buckets, which more items are put into than fit; fingerprints with
   and without the top bit, 255, and 1 of a small hash code. *)
EXTENDS StreamReassembler

VARIABLES subject, table, inserted, inserts, thrown, hangs

filterVars == <<table, inserted, inserts, thrown, hangs>>

TwoBytes == {"a", "b"}
UpToFour == UNION {[1..n -> TwoBytes] : n \in 1..4}

Item(top, low) == [top |-> top, low |-> low]
HashCodes == {Item(0, 6), Item(2, 0), Item(3, 1), Item(200, 0), Item(255, 1)}

Filter == INSTANCE CuckooFilter WITH
    Items <- HashCodes, TABLE_SIZE <- 2, MAX_KICKS <- 3, MaxInserts <- 10

MCInit ==
    /\ subject \in {"stream", "filter"}
    /\ StreamInit /\ Filter!Init
    /\ subject = "filter" => skip = 0 /\ terminator = <<"a">>

MCNext ==
    \/ subject = "stream" /\ StreamNext /\ UNCHANGED <<subject, filterVars>>
    \/ subject = "filter" /\ Filter!Next /\ UNCHANGED <<subject, streamVars>>

SearchSpec == MCInit /\ [][MCNext]_<<subject, streamVars, filterVars>>

\* No item is forgotten but by an insert that gave up: see CuckooFilter.
NothingForgotten == Filter!NothingForgotten
=============================================================================
