---------------------------- MODULE MCDataCache ----------------------------
EXTENDS DataCache

Ram(t, s, w) == [mmio |-> FALSE, tag |-> t, set |-> s, word |-> w]
Low == [l \in Lanes |-> l + 1]
High == [l \in Lanes |-> 130 + l]

LoadAs(i, a, acc, o) == {[write |-> FALSE, addr |-> a, access |-> acc, offset |-> o,
                          data |-> ZeroWord, id |-> i]}
Load(a, acc, o) == UNION {LoadAs(i, a, acc, o) : i \in Ids}
Store(a, acc, o, d) == {[write |-> TRUE, addr |-> a, access |-> acc, offset |-> o,
                         data |-> d, id |-> 0]}

\* Both words of a line that is written, a line that evicts it, a line of the
\* other set, and the MMIO registers.
MCRequests ==
    Load(Ram(0, 0, 0), "WORD", 0) \cup LoadAs(1, Ram(0, 0, 1), "HALF", 2)
    \cup Load(Ram(1, 0, 0), "BYTE_U", 1) \cup Load(Ram(0, 1, 3), "WORD", 0)
    \cup Store(Ram(0, 0, 0), "WORD", 0, Low) \cup Store(Ram(0, 0, 0), "BYTE", 1, High)
    \cup LoadAs(0, MmioAddr(0), "WORD", 0) \cup LoadAs(1, MmioAddr(1), "WORD", 0)
    \cup Store(MmioAddr(1), "WORD", 0, Low) \cup Store(MmioAddr(2), "BYTE", 0, High)

MCFromHosts == {Low, High}
=============================================================================
