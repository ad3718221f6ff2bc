-------------------------- MODULE LoadStoreQueue --------------------------
(* rtl/backend/execute/lsu/LoadStoreQueue.sv: the program-ordered ring of      *)
(* in-flight Loads and Stores.  The queue is a record q; the operators are its *)
(* combinational outputs and the parts of its clocked block.  An address or a  *)
(* datum that is not ready is None.                                            *)
EXTENDS MemAccess, Sequences, FiniteSets

CONSTANT LsqDepth        \* DEPTH

ASSUME LsqDepthAssumption == LsqDepth \in Nat \ {0}

LsqSlots == 0..(LsqDepth - 1)
NotReady == <<>>

EmptySlot == [valid |-> FALSE, isStore |-> FALSE, robTag |-> 0, access |-> "WORD",
              address |-> NotReady, data |-> NotReady]

EmptyLsq == [entries |-> [s \in LsqSlots |-> EmptySlot],
             headPtr |-> 0, tailPtr |-> 0, entryCount |-> 0]

lsqAddPtr(base, increment) == (base + increment) % LsqDepth

\* headEntry_o and headTag_o.
headTag(q, lane) == lsqAddPtr(q.headPtr, lane)
headEntry(q, lane) == IF q.entryCount > lane THEN q.entries[headTag(q, lane)] ELSE EmptySlot

allocReady(q, accepted) == LsqDepth - q.entryCount > accepted

--------------------------------------------------------------------------------
(* The ordering query of a Load that wants to issue.                           *)

\* These masks do not depend on alignment: a word access covers every lane.
queryLoadMask(access, offset) ==
    IF access = "WORD" THEN Lanes
    ELSE {l \in Lanes : l >= offset /\ l < offset + AccessBytes(access)}
olderStoreMask(access, offset) ==
    IF access = "HALF" /\ offset = 3 THEN {} ELSE queryLoadMask(access, offset)

\* The slots from the head up to, and without, the Load's own.
olderSlots(q, tag) ==
    LET distance(s) == (s + LsqDepth - q.headPtr) % LsqDepth
    IN  {s \in LsqSlots : distance(s) < distance(tag) /\ distance(s) < q.entryCount}

overlap(e, load) ==
    IF e.address # NotReady /\ e.address[1].addr = load.addr
    THEN olderStoreMask(e.access, e.address[1].offset)
            \cap queryLoadMask(load.access, load.offset)
    ELSE {}

covers(e, load) ==
    queryLoadMask(load.access, load.offset) \subseteq overlap(e, load) /\ e.data # NotReady

\* An older Store holds the Load back while its address is unknown, when it is
\* an MMIO Store, and when it writes some of the Load's bytes but cannot supply
\* them all now.
blocks(e, load) ==
    /\ e.valid /\ e.isStore
    /\ \/ e.address = NotReady
       \/ e.address[1].addr.mmio
       \/ overlap(e, load) # {} /\ ~covers(e, load)

forwarders(q, tag, load) ==
    {s \in olderSlots(q, tag) :
        /\ q.entries[s].valid /\ q.entries[s].isStore
        /\ covers(q.entries[s], load) /\ ~q.entries[s].address[1].addr.mmio}

issueReady(q, tag, load) ==
    /\ q.entries[tag].valid
    /\ q.entries[tag].isStore \/ \A s \in olderSlots(q, tag) : ~blocks(q.entries[s], load)

issueForwardValid(q, tag, load) ==
    q.entries[tag].valid /\ ~q.entries[tag].isStore /\ forwarders(q, tag, load) # {}

\* Fault: the oldest covering Store supplies the data.
forwarder_Oldest(q, tag, load) ==
    CHOOSE s \in forwarders(q, tag, load) :
        \A u \in forwarders(q, tag, load) \ {s} : s \in olderSlots(q, u)

\* The scan runs from the head, so the last Store that covers the Load remains.
forwarder(q, tag, load) ==
    CHOOSE s \in forwarders(q, tag, load) :
        \A u \in forwarders(q, tag, load) \ {s} : u \in olderSlots(q, s)

issueForwardData(q, tag, load) ==
    LET e == q.entries[forwarder(q, tag, load)]
    IN  formatLoadData(alignStoreData(e.data[1], e.access, e.address[1].offset),
                       load.access, load.offset)

--------------------------------------------------------------------------------
(* The clocked block, one operator per loop.                                   *)

\* A Store whose data register is x0 has its data at once.
AllocateSlot(q, robTag, op) ==
    [q EXCEPT !.entries[q.tailPtr] =
                  [valid |-> TRUE, isStore |-> op.write, robTag |-> robTag,
                   access |-> op.access, address |-> NotReady,
                   data |-> IF op.write /\ op.x0 THEN <<ZeroWord>> ELSE NotReady],
              !.tailPtr = lsqAddPtr(@, 1),
              !.entryCount = @ + 1]

RetireSlots(q, n) ==
    [q EXCEPT !.entries = [s \in LsqSlots |->
                  IF \E lane \in 0..(n - 1) : s = headTag(q, lane) THEN EmptySlot ELSE @[s]],
              !.headPtr = lsqAddPtr(@, n),
              !.entryCount = @ - n]

\* addressValid_i and storeDataValid_i: what the issuing operation discovers.
UpdateSlot(e, address, data) ==
    [e EXCEPT !.address = address, !.data = IF data = NotReady THEN @ ELSE data]

\* Fault: an entry that has an address no longer listens to write-backs.
SnoopSlot_OnlyUnissued(e, data) ==
    IF e.valid /\ e.isStore /\ e.data = NotReady /\ e.address = NotReady
    THEN [e EXCEPT !.data = data] ELSE e

\* dataWakeupValid_i: a write-back of the register a Store is waiting for.
SnoopSlot(e, data) ==
    IF e.valid /\ e.isStore /\ e.data = NotReady THEN [e EXCEPT !.data = data] ELSE e

\* Fault: the tail keeps its place.
RecoverSlots_KeepsTail(q, younger) ==
    [q EXCEPT !.entries = [s \in LsqSlots |->
                  IF @[s].valid /\ @[s].robTag \in younger THEN EmptySlot ELSE @[s]]]

\* recoverValid_i: the killed entries are cleared and the ring closes behind
\* the ones that remain.
RecoverSlots(q, younger) ==
    LET kept == {s \in LsqSlots : q.entries[s].valid /\ q.entries[s].robTag \notin younger}
        retained == Cardinality(kept)
    IN  [q EXCEPT !.entries = [s \in LsqSlots |-> IF s \in kept THEN @[s] ELSE EmptySlot],
                  !.tailPtr = lsqAddPtr(q.headPtr, retained),
                  !.entryCount = retained]
=============================================================================
