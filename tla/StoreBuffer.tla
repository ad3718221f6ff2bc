---------------------------- MODULE StoreBuffer ----------------------------
(* rtl/backend/execute/lsu/StoreBuffer.sv: the FIFO of retired cacheable      *)
(* Stores.  One action is one rising clock edge; its parameters are the       *)
(* inputs sampled by that edge.  There is no flush: a Store in this buffer    *)
(* has retired and can no longer be removed.                                  *)
EXTENDS MemAccess, Sequences

CONSTANTS Depth,       \* DEPTH
          WordAddrs,   \* word addresses in use
          Stores       \* the retiring Stores, one per (address, data, access)

\* Only aligned Stores retire: a misaligned one traps at the head of the ROB.
ASSUME DepthAssumption == Depth \in Nat \ {0}
ASSUME StoresAssumption ==
    Stores \subseteq [word : WordAddrs, offset : Lanes, access : StoreAccess, data : Words]

Slots == 0..(Depth - 1)

VARIABLES entries,     \* the three arrays; a slot outside the FIFO keeps stale data
          headPtr, tailPtr, entryCount

bufferVars == <<entries, headPtr, tailPtr, entryCount>>

\* Fault: the pointer wraps one slot early.
incrementPtr_WrapsEarly(pointer) == IF pointer + 2 >= Depth THEN 0 ELSE pointer + 1

incrementPtr(pointer) == IF pointer = Depth - 1 THEN 0 ELSE pointer + 1

subtractPtr(pointer, decrement) ==
    IF pointer >= decrement THEN pointer - decrement ELSE pointer - decrement + Depth

empty == entryCount = 0
full == entryCount = Depth

\* The entry at distance i from the head, with the same wrap as the pointers.
FromHead(i) == IF headPtr + i >= Depth THEN headPtr + i - Depth ELSE headPtr + i

Contents == [i \in 1..entryCount |-> entries[FromHead(i - 1)]]

--------------------------------------------------------------------------------
(* The combinational query of a younger Load, youngest Store first.            *)

\* Fault: the scan starts at the free slot instead of the youngest Store.
SlotAt_OffByOne(queryOffset) == subtractPtr(tailPtr, queryOffset)

SlotAt(queryOffset) == subtractPtr(tailPtr, queryOffset + 1)

\* Lanes of the Load that the Store queryOffset places from the youngest writes.
SlotMask(queryOffset, load) ==
    LET s == entries[SlotAt(queryOffset)]
    IN  IF queryOffset < entryCount /\ s.word = load.word
        THEN storeByteMask(s.access, s.offset) \cap loadByteMask(load.access, load.offset)
        ELSE {}

queryCoveredMask(load) == UNION {SlotMask(o, load) : o \in Slots}

\* Each covered lane takes its byte from the first writer met, the youngest.
queryRawData(load) ==
    [l \in Lanes |->
        LET writers == {o \in Slots : l \in SlotMask(o, load)}
            first == CHOOSE o \in writers : \A p \in writers : o <= p
            s == entries[SlotAt(first)]
        IN  IF writers = {} THEN 0 ELSE alignStoreData(s.data, s.access, s.offset)[l]]

queryConflict(load) == queryCoveredMask(load) # {}

queryForwardValid(load) ==
    LET loadMask == loadByteMask(load.access, load.offset)
    IN  loadMask # {} /\ loadMask \subseteq queryCoveredMask(load)

queryForwardData(load) == formatLoadData(queryRawData(load), load.access, load.offset)

--------------------------------------------------------------------------------
(* The clocked block.                                                          *)

\* Reset clears the pointers; the arrays power up with arbitrary contents.
BufferInit ==
    /\ entries \in [Slots -> Stores]
    /\ headPtr = 0
    /\ tailPtr = 0
    /\ entryCount = 0

drainFire(drainReady) == ~empty /\ drainReady

\* Fault: the ready output ignores a full buffer.
enqueueReady_IgnoresFull(drainReady) == TRUE

enqueueReady(drainReady) == ~full \/ drainFire(drainReady)

Enqueue(store) ==
    /\ entries' = [entries EXCEPT ![tailPtr] = store]
    /\ tailPtr' = incrementPtr(tailPtr)

\* Fault: a drain re-reads the same head.
Drain_KeepsHead == headPtr' = headPtr

Drain == headPtr' = incrementPtr(headPtr)

\* {enqueueFire, drainFire} = 2'b11, 2'b10 and 2'b01; 2'b00 is a stutter.
EnqueueAndDrain(store) ==
    /\ drainFire(TRUE) /\ enqueueReady(TRUE)
    /\ Enqueue(store) /\ Drain
    /\ entryCount' = entryCount

EnqueueOnly(store) ==
    /\ enqueueReady(FALSE)
    /\ Enqueue(store)
    /\ entryCount' = entryCount + 1
    /\ UNCHANGED headPtr

DrainOnly ==
    /\ drainFire(TRUE)
    /\ Drain
    /\ UNCHANGED <<entries, tailPtr>>
    /\ entryCount' = entryCount - 1

BufferNext ==
    \/ DrainOnly
    \/ \E store \in Stores : EnqueueOnly(store) \/ EnqueueAndDrain(store)

BufferSpec == BufferInit /\ [][BufferNext]_bufferVars

--------------------------------------------------------------------------------
(* Properties.                                                                 *)

\* The pointers address slots of the arrays and the count never exceeds DEPTH.
BufferTypeOK ==
    /\ entries \in [Slots -> Stores]
    /\ headPtr \in Slots
    /\ tailPtr \in Slots
    /\ entryCount \in 0..Depth

\* The three independently updated counters always describe one ring segment:
\* the write pointer is exactly entryCount places after the read pointer, in
\* every mix of enqueue and drain including a full buffer that does both.
PointersAgree == tailPtr = IF entryCount = Depth THEN headPtr ELSE FromHead(entryCount)

\* The Loads that reach the query: a misaligned one traps before it is issued.
Loads == {ld \in [word : WordAddrs, offset : Lanes, access : MemAccess] :
            Aligned(ld.access, ld.offset)}

\* The lanes of word w written so far and their bytes, when Store s drains.
Written(pending, s, w) ==
    LET mask == storeByteMask(s.access, s.offset)
    IN  IF s.word # w THEN pending
        ELSE [mask |-> pending.mask \cup mask,
              data |-> MergeWord(pending.data, mask, alignStoreData(s.data, s.access, s.offset))]

\* What the n oldest Stores leave in word w of the D-cache.
Drains(w) ==
    LET after[n \in 0..entryCount] ==
            IF n = 0 THEN [mask |-> {}, data |-> ZeroWord]
            ELSE Written(after[n - 1], Contents[n], w)
    IN  after

\* The query answers as a drained memory would: it reports a conflict exactly
\* when some buffered Store has a byte of the Load pending, and when it offers
\* data for forwarding, that is the value the Load would read after every
\* buffered Store, oldest first, has been written.
QueryMatchesDrainedMemory ==
    \A ld \in Loads :
        LET pending == Drains(ld.word)[entryCount]
            mask == loadByteMask(ld.access, ld.offset)
        IN  /\ queryConflict(ld) <=> (pending.mask \cap mask # {})
            /\ queryForwardValid(ld) =>
                  /\ mask \subseteq pending.mask
                  /\ queryForwardData(ld)
                        = formatLoadData(pending.data, ld.access, ld.offset)

Queue == INSTANCE StoreQueue WITH queue <- Contents

\* The buffer implements the bounded FIFO queue of committed Stores: nothing
\* accepted is lost, duplicated, overwritten or drained out of order.
IsFifo == Queue!Spec
=============================================================================
