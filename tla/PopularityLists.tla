-------------------------- MODULE PopularityLists --------------------------
(***************************************************************************)
(* PacketParser/PopularityList.hpp seen as a value: the entries of the     *)
(* linked list, most recently used first.  An entry is a record with at    *)
(* least a field key.                                                      *)
(***************************************************************************)
EXTENDS Integers, Sequences

KeysOf(list) == {list[i].key : i \in DOMAIN list}

\* Where the entry with this key is.
Position(list, key) == CHOOSE i \in DOMAIN list : list[i].key = key

\* std::list::erase at a position, and nothing when the key is absent.
EraseAt(list, i) == SubSeq(list, 1, i - 1) \o SubSeq(list, i + 1, Len(list))
WithoutKey(list, key) ==
    IF key \in KeysOf(list) THEN EraseAt(list, Position(list, key)) ELSE list

\* push_front, and the splice to the front of TryGetValue.
PushFront(list, entry) == <<entry>> \o list
Touch(list, key) ==
    IF key \in KeysOf(list)
    THEN PushFront(EraseAt(list, Position(list, key)), list[Position(list, key)])
    ELSE list

\* Add to a list whose size cannot grow: the entry replaces the one with its
\* key, comes first, and the least recently used entries make room for it.
AddBounded(list, entry, poolSize) ==
    LET longer == PushFront(WithoutKey(list, entry.key), entry)
    IN  IF Len(longer) > poolSize THEN SubSeq(longer, 1, poolSize) ELSE longer
=============================================================================
