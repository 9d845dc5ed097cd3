-------------------------- MODULE KnuthMorrisPratt --------------------------
(***************************************************************************)
(* PacketParser/Utils/KnuthMorrisPratt.cpp: the first occurrence of a      *)
(* pattern.  Positions are counted from 0, as in the code; sequences start *)
(* at 1.  A pattern is not empty (the code reads its first element).       *)
(***************************************************************************)
EXTENDS Integers, Sequences

\* The partial match of length j after byte t: grown, or tried again after a
\* fall back.  (The pattern is never matched completely before t.)
Fallen(pattern, failure, j, t) ==
    LET Fall[k \in 0..j] == IF pattern[k + 1] = t THEN k + 1
                            ELSE IF k > 0 THEN Fall[failure[k]] ELSE 0
    IN  Fall[j]

\* failure[i] is the code's f[i - 1].
KmpFailureFunction(pattern) ==
    LET Failure[i \in 0..Len(pattern)] ==
            IF i = 0 THEN << >>
            ELSE IF i = 1 THEN <<0>>
            ELSE LET f == Failure[i - 1] IN Append(f, Fallen(pattern, f, f[i - 1], pattern[i]))
    IN  Failure[Len(pattern)]

\* The position at which the pattern starts, or -1.  The loop is at a position
\* and a partial match.
ReadTo(pattern, data, offset) ==
    LET failure == KmpFailureFunction(pattern)
        m == Len(pattern)
        From[at \in (offset..Len(data)) \X (0..(m - 1))] ==
            IF at[1] = Len(data) THEN -1
            ELSE LET k == Fallen(pattern, failure, at[2], data[at[1] + 1])
                 IN  IF k = m THEN at[1] + 1 - m ELSE From[<<at[1] + 1, k>>]
    IN  IF offset > Len(data) THEN -1 ELSE From[<<offset, 0>>]
=============================================================================
