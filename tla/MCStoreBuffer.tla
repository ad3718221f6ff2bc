--------------------------- MODULE MCStoreBuffer ---------------------------
EXTENDS StoreBuffer

\* Register words whose bytes all differ, one with every sign bit set.
Low == [l \in Lanes |-> l + 1]
High == [l \in Lanes |-> 130 + l]

MCStore(w, o, a, d) == [word |-> w, offset |-> o, access |-> a, data |-> d]

\* Full overwrites, both halves of a partial overlap and a second word.
MCStores ==
    {MCStore("w1", 0, "WORD", Low), MCStore("w1", 2, "HALF", High),
     MCStore("w1", 0, "BYTE", High), MCStore("w1", 3, "BYTE", Low),
     MCStore("w2", 0, "WORD", High)}
=============================================================================
