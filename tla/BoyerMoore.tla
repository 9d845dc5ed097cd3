----------------------------- MODULE BoyerMoore -----------------------------
(***************************************************************************)
(* PacketParser/Utils/BoyerMoore.cpp: the first and the last occurrence of *)
(* a needle, by two tables.  Positions are counted from 0, as in the code. *)
(***************************************************************************)
EXTENDS Integers, Sequences, FiniteSetsExt

IsPrefix(needle, p) == \A i \in p..(Len(needle) - 1) : needle[i + 1] = needle[i - p + 1]

SuffixLength(needle, p) ==
    Max({n \in 0..(p + 1) : \A k \in 0..(n - 1) : needle[p - k + 1] = needle[Len(needle) - k]})

\* The last entry of a byte before the last position counts.
ByteTable(needle, b) ==
    LET m == Len(needle)
        at == {i \in 0..(m - 2) : needle[i + 1] = b}
    IN  IF at = {} THEN m ELSE m - 1 - Max(at)

\* Mutant: a suffix that occurs again inside the needle is not looked for.
MutOffsetTable(needle, n) ==
    LET m == Len(needle) IN Min({p \in (m - n)..m : IsPrefix(needle, p)}) + n

\* Prefixes first; then suffixes overwrite them, the last one with a length.
OffsetTable(needle, n) ==
    LET m == Len(needle)
        suffixes == {i \in 0..(m - 2) : SuffixLength(needle, i) = n}
        prefixes == {p \in (m - n)..m : IsPrefix(needle, p)}
    IN  IF suffixes # {} THEN m - 1 - Max(suffixes) + n ELSE Min(prefixes) + n

\* e is the position under the end of the needle, whose last matched bytes agree.
IndexOf(haystack, needle, offset) ==
    LET m == Len(needle)
        size == Len(haystack)
        Agreed(e) == Max({n \in 0..m : \A k \in 0..(n - 1) : needle[m - k] = haystack[e - k + 1]})
        From[e \in (offset + m - 1)..(size + 2 * m)] ==
            IF e >= size THEN -1
            ELSE LET n == Agreed(e)
                 IN  IF n = m THEN e - m + 1
                     ELSE LET table == OffsetTable(needle, n)
                              byte == ByteTable(needle, haystack[e - n + 1])
                          IN  From[e - n + Max({table, byte})]
    IN  IF m = 0 THEN 0 ELSE From[offset + m - 1]

\* The search goes on one byte after each occurrence.
LastIndexOf(haystack, needle, offset) ==
    LET Last[at \in (offset..(Len(haystack) + 1)) \X (-1..Len(haystack))] ==
            LET i == IndexOf(haystack, needle, at[1])
            IN  IF i < 0 THEN at[2]
                ELSE IF i + 1 < Len(haystack) THEN Last[<<i + 1, i>>] ELSE i
    IN  Last[<<offset, -1>>]
=============================================================================
