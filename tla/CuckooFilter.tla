---------------------------- MODULE CuckooFilter ----------------------------
(***************************************************************************)
(* PacketParser/Utils/CuckooFilter.hpp: a set of items of which only       *)
(* fingerprints are kept, in buckets of four; a full bucket kicks its      *)
(* oldest fingerprint over to the other bucket of that fingerprint.        *)
(*                                                                         *)
(* A bucket is the four bytes of an int: the sequence of its fingerprints, *)
(* the oldest first.  An int that is negative, a full bucket whose oldest  *)
(* fingerprint has its top bit set, never becomes 0 when it is shifted: a  *)
(* search for a fingerprint that is not in it goes on for ever, or finds   *)
(* the 255 of the sign.                                                    *)
(***************************************************************************)
EXTENDS Integers, Sequences, FiniteSets, Bitwise

CONSTANTS
    Items,        \* hash codes, as [top |-> the highest byte, low |-> the other three]
    TABLE_SIZE,   \* a power of two
    MAX_KICKS,    \* 100 in the code
    MaxInserts    \* bound

VARIABLES
    table,
    inserted,     \* history: the items inserted
    inserts,      \* history: how many times
    thrown,       \* history: how many inserts ended with "Too many kicks"
    hangs         \* an insert does not end

\* HashedItem: the highest byte, or the bit that is the first found when there is
\* none.
Fingerprint(item) == IF item.top # 0 THEN item.top ELSE IF item.low # 0 THEN 1 ELSE 255

Other(index, fingerprint) == index ^^ (fingerprint % TABLE_SIZE)

Hash(item, i) ==
    LET first == item.low % TABLE_SIZE IN IF i = 1 THEN first ELSE Other(first, Fingerprint(item))

InBucket(bucket, fingerprint) == \E k \in DOMAIN bucket : bucket[k] = fingerprint

Negative(bucket) == Len(bucket) = 4 /\ bucket[1] >= 128

\* bucketContains: what it answers, if it does.
Answer(bucket, fingerprint) ==
    IF InBucket(bucket, fingerprint) \/ (Negative(bucket) /\ fingerprint = 255) THEN "yes"
    ELSE IF Negative(bucket) THEN "never" ELSE "no"

\* Mutant: the newest falls out.
MutAppended(bucket, fingerprint) == Append(IF Len(bucket) = 4 THEN SubSeq(bucket, 1, 3) ELSE bucket, fingerprint)

\* append: the oldest of four falls out.
Appended(bucket, fingerprint) == Append(IF Len(bucket) = 4 THEN Tail(bucket) ELSE bucket, fingerprint)

\* kickMove: the table after it, and how it ends.
RECURSIVE KickMove(_, _, _, _)
KickMove(t, fingerprint, index, kicks) ==
    LET bucket == t[index]
        answer == Answer(bucket, fingerprint)
        after == [t EXCEPT ![index] = Appended(bucket, fingerprint)]
    IN  CASE answer = "yes" -> [table |-> t, ends |-> "returns"]
          [] answer = "never" -> [table |-> t, ends |-> "hangs"]
          [] answer = "no" /\ kicks = 0 -> [table |-> t, ends |-> "throws"]
          [] answer = "no" /\ kicks > 0 /\ Len(bucket) < 4 -> [table |-> after, ends |-> "returns"]
          [] answer = "no" /\ kicks > 0 /\ Len(bucket) = 4 ->
                KickMove(after, bucket[1], Other(index, bucket[1]), kicks - 1)

----------------------------------------------------------------------------
Init ==
    /\ table = [index \in 0..(TABLE_SIZE - 1) |-> << >>]
    /\ inserted = {} /\ inserts = 0 /\ thrown = 0 /\ hangs = FALSE

Insert(item) ==
    LET rooms == {i \in 1..2 : Len(table[Hash(item, i)]) < 4}
        room == Hash(item, IF 1 \in rooms THEN 1 ELSE 2)
        moved == KickMove(table, Fingerprint(item), Hash(item, 1), MAX_KICKS)
    IN  /\ inserted' = inserted \cup {item} /\ inserts' = inserts + 1
        /\ \/ /\ rooms # {}
              /\ table' = [table EXCEPT ![room] = Appended(@, Fingerprint(item))]
              /\ UNCHANGED <<thrown, hangs>>
           \/ /\ rooms = {}
              /\ table' = moved.table
              /\ thrown' = thrown + (IF moved.ends = "throws" THEN 1 ELSE 0)
              /\ hangs' = (moved.ends = "hangs")

Next == ~hangs /\ inserts < MaxInserts /\ \E item \in Items : Insert(item)

\* Contains: the second bucket is looked at when the first one says no.
Contains(item) ==
    LET answers == [i \in 1..2 |-> Answer(table[Hash(item, i)], Fingerprint(item))]
    IN  IF answers[1] # "no" THEN answers[1] ELSE answers[2]

----------------------------------------------------------------------------
\* The filter says of no inserted item that it is not there, but for the items of
\* one fingerprint for each insert that gave up; and operations end while no
\* fingerprint with the top bit was inserted.
NothingForgotten ==
    /\ ~hangs => Cardinality({Fingerprint(i) : i \in {j \in inserted : Contains(j) = "no"}}) <= thrown
    /\ (\A i \in inserted : Fingerprint(i) < 128) => ~hangs /\ \A j \in Items : Contains(j) # "never"
=============================================================================
