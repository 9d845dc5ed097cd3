-------------------------- MODULE MCIpv4Reassembly --------------------------
(* Captures of a datagram A of three fragments, in every order, truncated and
   with a repetition, and of B and C, interleaved; an unfragmented packet U and
   a datagram L that is too long. *)
EXTENDS Ipv4Reassembly, TLC

Blocks(key, offset, n) == [i \in 1..n |-> <<key, offset + i - 1>>]
Piece(key, offset, n, more) ==
    [key |-> key, offset |-> offset, more |-> more, blocks |-> Blocks(key, offset, n)]

A == <<Piece("A", 0, 2, TRUE), Piece("A", 2, 1, TRUE), Piece("A", 3, 1, FALSE)>>
B == <<Piece("B", 0, 1, TRUE), Piece("B", 1, 1, FALSE)>>
C == <<Piece("C", 0, 1, TRUE), Piece("C", 1, 2, FALSE)>>
L == <<Piece("L", 0, 3, TRUE), Piece("L", 3, 3, FALSE)>>
U == Piece("A", 0, 1, FALSE)
\* A copy of A's middle whose length reaches into the end.
Longer == Piece("A", 2, 2, TRUE)

Captures ==
    {<<A[p[1]], A[p[2]], A[p[3]]>> : p \in Permutations(1..3)}
    \cup {<<A[1], A[2]>>, <<A[1], A[1], A[2], A[3]>>, <<A[1], Longer, A[3]>>,
          <<A[1], B[1], U, A[2], B[2], A[3]>>,
          <<B[1], A[1], C[1], B[2], C[2]>>,
          <<L[1], L[2]>>}

Fields == {[offset |-> 0, more |-> TRUE, length |-> 2], [offset |-> 1, more |-> FALSE, length |-> 1]}
=============================================================================
