------------------------------- MODULE Rename -------------------------------
(* Register renaming and its recovery: RenameStage, RenameMapTable and         *)
(* PhysicalFreeList under rtl/backend/rename, with the ReorderBuffer that       *)
(* orders their commits, checkpoints and recoveries, the resource accounting    *)
(* of DispatchControl and the retirement rules of BackendCommitStage.           *)
(*                                                                              *)
(* One action is one rising clock edge.  The for-loops over lanes in the code   *)
(* are compositions of one-lane operators on a record of the whole state.       *)
(* Operand values, memory ordering and the issue queue are outside: when an     *)
(* instruction completes, whether it raises an exception, and whether the       *)
(* memory side lets it retire are inputs of the clock.                          *)
EXTENDS Integers, FiniteSets

CONSTANTS ArchNum,    \* ARCH_REGS
          PhysNum,    \* PHYS_REGS
          Depth,      \* ROB_ENTRY_NUM
          Instrs      \* decoded instructions

ArchRegs == 0..(ArchNum - 1)
PhysRegs == 0..(PhysNum - 1)
Tags == 0..(Depth - 1)

\* rd = 0 stands for no destination, as for x0.
ASSUME SizesAssumption ==
    ArchNum \in Nat \ {0} /\ PhysNum \in Nat /\ PhysNum >= ArchNum /\ Depth \in Nat \ {0}
ASSUME InstrsAssumption ==
    Instrs \subseteq [valid : {TRUE}, rd : ArchRegs, rs : ArchRegs, isBranch : BOOLEAN]

VARIABLES
    freeMask,            \* PhysicalFreeList: the set of free registers
    speculativeMap,      \* RenameMapTable: the map dispatch reads and writes
    committedMap,        \* RenameMapTable: the map of retired instructions
    checkpointMap,       \* RenameMapTable: one saved map per ROB tag
    checkpointFreeMask,  \* PhysicalFreeList: one saved free set per ROB tag
    entries,             \* ReorderBuffer ring
    headPtr, tailPtr, entryCount,
    late                 \* the mispredicted branch whose own result is one clock away

vars == <<freeMask, speculativeMap, committedMap, checkpointMap, checkpointFreeMask,
          entries, headPtr, tailPtr, entryCount, late>>

Bubble == [valid |-> FALSE, rd |-> 0, rs |-> 0, isBranch |-> FALSE]

\* The part of rob_entry_t that renaming depends on, with the source operand
\* of renamed_uop_t (rs, srcPhys) that travels with it through the back end.
EntryType == [valid : BOOLEAN, complete : BOOLEAN, exception : BOOLEAN,
              isBranch : BOOLEAN, archRd : ArchRegs, newPhys : PhysRegs,
              oldPhys : PhysRegs, rs : ArchRegs, srcPhys : PhysRegs]

EmptyEntry == [valid |-> FALSE, complete |-> FALSE, exception |-> FALSE,
               isBranch |-> FALSE, archRd |-> 0, newPhys |-> 0,
               oldPhys |-> 0, rs |-> 0, srcPhys |-> 0]

State == [freeMask |-> freeMask, speculativeMap |-> speculativeMap,
          committedMap |-> committedMap, checkpointMap |-> checkpointMap,
          checkpointFreeMask |-> checkpointFreeMask, entries |-> entries,
          headPtr |-> headPtr, tailPtr |-> tailPtr, entryCount |-> entryCount]

\* Fault: the pointer does not wrap.
addPtr_NoWrap(base, increment) == base + increment

addPtr(base, increment) ==
    IF base + increment >= Depth THEN base + increment - Depth ELSE base + increment

\* Distance of a tag from the head, and the tags between head and tail.
Age(s, t) == IF t >= s.headPtr THEN t - s.headPtr ELSE t - s.headPtr + Depth
InFlight(s, t) == Age(s, t) < s.entryCount

--------------------------------------------------------------------------------
(* Dispatch of one lane.                                                       *)

\* Allocation scans from p1 upwards.
allocPhys(free) == CHOOSE p \in free : \A q \in free : p <= q

\* DispatchControl for one lane: a ROB slot, and a register when rd is written.
laneHasResources(s, lane) ==
    s.entryCount < Depth /\ (lane.rd # 0 => s.freeMask # {})

\* renameOldPhys and sourceAPhys: x0 always reads p0.
lookup(s, reg) == IF reg = 0 THEN 0 ELSE s.speculativeMap[reg]

robEntry(s, lane, new) ==
    [valid |-> TRUE, complete |-> FALSE, exception |-> FALSE,
     isBranch |-> lane.isBranch, archRd |-> lane.rd, newPhys |-> new,
     oldPhys |-> lookup(s, lane.rd), rs |-> lane.rs, srcPhys |-> lookup(s, lane.rs)]

\* A branch's checkpoint includes its own destination and the older lane's.
RenameLane(s, lane) ==
    LET new == IF lane.rd = 0 THEN 0 ELSE allocPhys(s.freeMask)
        free == s.freeMask \ {new}
        map == IF lane.rd = 0 THEN s.speculativeMap
               ELSE [s.speculativeMap EXCEPT ![lane.rd] = new]
    IN  [freeMask |-> free,
         speculativeMap |-> map,
         committedMap |-> s.committedMap,
         checkpointMap |-> IF lane.isBranch
                           THEN [s.checkpointMap EXCEPT ![s.tailPtr] = map]
                           ELSE s.checkpointMap,
         checkpointFreeMask |-> IF lane.isBranch
                                THEN [s.checkpointFreeMask EXCEPT ![s.tailPtr] = free]
                                ELSE s.checkpointFreeMask,
         entries |-> [s.entries EXCEPT ![s.tailPtr] = robEntry(s, lane, new)],
         headPtr |-> s.headPtr,
         tailPtr |-> addPtr(s.tailPtr, 1),
         entryCount |-> s.entryCount + 1]

\* What the decoders may present.  Lane 1 never dispatches a branch.
Lane0s == Instrs \cup {Bubble}
Lane1s == {i \in Instrs : ~i.isBranch} \cup {Bubble}

accept0(s, lane0) == lane0.valid /\ laneHasResources(s, lane0)

\* A bubble does not block the next lane; a rejected instruction does.
RenameGroup(s, lane0, lane1) ==
    LET afterLane0 == IF accept0(s, lane0) THEN RenameLane(s, lane0) ELSE s
        accept1 == /\ lane1.valid
                   /\ lane0.valid => accept0(s, lane0)
                   /\ laneHasResources(afterLane0, lane1)
    IN  IF accept1 THEN RenameLane(afterLane0, lane1) ELSE afterLane0

--------------------------------------------------------------------------------
(* Retirement of the head, and completion.                                     *)

\* Fault: the retiring instruction's own register is freed.
freedRegs_NewPhys(e) == IF e.archRd # 0 /\ e.oldPhys # 0 THEN {e.newPhys} ELSE {}

\* freeRegEnable and freeReg: the previous register of rd.
freedRegs(e) == IF e.archRd # 0 /\ e.oldPhys # 0 THEN {e.oldPhys} ELSE {}

\* Fault: the saved free sets miss what retires after they were saved.
freedInCheckpoints_Missed(masks, freed) == masks

\* A freed register also enters every saved free set; one that is saved in the
\* same clock receives it as well.
freedInCheckpoints(masks, freed) == [t \in Tags |-> masks[t] \cup freed]

RetireHead(s) ==
    LET e == s.entries[s.headPtr]
        freed == freedRegs(e)
    IN  [freeMask |-> s.freeMask \cup freed,
         speculativeMap |-> s.speculativeMap,
         committedMap |-> IF e.archRd = 0 THEN s.committedMap
                          ELSE [s.committedMap EXCEPT ![e.archRd] = e.newPhys],
         checkpointMap |-> s.checkpointMap,
         checkpointFreeMask |-> freedInCheckpoints(s.checkpointFreeMask, freed),
         entries |-> [s.entries EXCEPT ![s.headPtr] = EmptyEntry],
         headPtr |-> addPtr(s.headPtr, 1),
         tailPtr |-> s.tailPtr,
         entryCount |-> s.entryCount - 1]

\* commitValid and commitEntry of the ROB, lane 0 or 1.
commitPtr(s, lane) == addPtr(s.headPtr, lane)
commitComplete(s, lane) ==
    /\ s.entryCount > lane
    /\ s.entries[commitPtr(s, lane)].valid
    /\ s.entries[commitPtr(s, lane)].complete

trapValid(s) == commitComplete(s, 0) /\ s.entries[s.headPtr].exception

\* ready holds the lanes that the LSQ, the Store Buffer and the predictor's
\* training queue allow to retire.  At most one branch retires per clock.
retires0(s, ready) ==
    commitComplete(s, 0) /\ ~s.entries[s.headPtr].exception /\ 0 \in ready
retires1(s, ready) ==
    /\ retires0(s, ready) /\ 1 \in ready
    /\ commitComplete(s, 1)
    /\ ~s.entries[commitPtr(s, 1)].exception
    /\ ~(s.entries[s.headPtr].isBranch /\ s.entries[commitPtr(s, 1)].isBranch)

\* before is the state the lanes were chosen in, s the one they leave.
RetireGroup(before, s, ready) ==
    IF retires1(before, ready) THEN RetireHead(RetireHead(s))
    ELSE IF retires0(before, ready) THEN RetireHead(s) ELSE s

\* The entries after the tags in done complete, those in faults with an
\* exception.  Only an entry that was valid before the clock is written.
CompleteEntries(before, after, done, faults) ==
    [t \in Tags |->
        IF t \in done /\ before[t].valid
        THEN [after[t] EXCEPT !.complete = TRUE, !.exception = (t \in faults)]
        ELSE after[t]]

\* At most two results return per clock: those of issued instructions, and the
\* result of a branch that recovery marked complete in the previous clock.
DoneSets ==
    LET issued == {t \in Tags : entries[t].valid /\ ~entries[t].complete}
    IN  {d \in {late \cup i : i \in SUBSET issued} : Cardinality(d) <= 2}

FaultSets(done) == SUBSET (done \ late)

--------------------------------------------------------------------------------
(* The clock edge: flush_i, then recoverValid_i, then the normal case.         *)

Init ==
    /\ freeMask = {p \in PhysRegs : p >= ArchNum}
    /\ speculativeMap = [a \in ArchRegs |-> a]
    /\ committedMap = [a \in ArchRegs |-> a]
    /\ checkpointMap = [t \in Tags |-> [a \in ArchRegs |-> a]]
    /\ checkpointFreeMask = [t \in Tags |-> {p \in PhysRegs : p >= ArchNum}]
    /\ entries = [t \in Tags |-> EmptyEntry]
    /\ headPtr = 0 /\ tailPtr = 0 /\ entryCount = 0
    /\ late = {}

Clock(lane0, lane1, ready) ==
    LET s == RetireGroup(State, RenameGroup(State, lane0, lane1), ready)
    IN  /\ ~trapValid(State)
        /\ freeMask' = s.freeMask
        /\ speculativeMap' = s.speculativeMap
        /\ committedMap' = s.committedMap
        /\ checkpointMap' = s.checkpointMap
        /\ checkpointFreeMask' = s.checkpointFreeMask
        /\ headPtr' = s.headPtr /\ tailPtr' = s.tailPtr /\ entryCount' = s.entryCount
        /\ late' = {}
        /\ \E done \in DoneSets : \E faults \in FaultSets(done) :
              entries' = CompleteEntries(entries, s.entries, done, faults)

recoverYoungerMask(s, tag) == {t \in Tags : InFlight(s, t) /\ Age(s, t) > Age(s, tag)}

restoredMap(tag) == checkpointMap[tag]

\* A mispredicted branch keeps itself and everything older.  Nothing retires.
\* Dispatch is not gated: of what it presents, only the checkpoint that a
\* lane-0 branch takes at the tail is written.
Recover(tag, lane0) ==
    LET younger == recoverYoungerMask(State, tag)
        dispatched == RenameGroup(State, lane0, Bubble)
    IN  /\ ~trapValid(State)
        /\ entries[tag].valid /\ entries[tag].isBranch /\ ~entries[tag].complete
        /\ freeMask' = checkpointFreeMask[tag]
        /\ speculativeMap' = restoredMap(tag)
        /\ checkpointMap' = dispatched.checkpointMap
        /\ checkpointFreeMask' = dispatched.checkpointFreeMask
        /\ tailPtr' = addPtr(headPtr, Age(State, tag) + 1)
        /\ entryCount' = Age(State, tag) + 1
        /\ late' = {tag}
        /\ UNCHANGED <<committedMap, headPtr>>
        /\ \E done \in {d \in DoneSets : tag \notin d} : \E faults \in FaultSets(done) :
              LET completed == CompleteEntries(entries, entries, done, faults)
              IN  entries' = [t \in Tags |->
                      IF t \in younger THEN EmptyEntry
                      ELSE IF t = tag THEN [entries[t] EXCEPT !.complete = TRUE]
                      ELSE completed[t]]

\* Fault: the free list is recomputed from the speculative map.
committedFreeMask_Speculative ==
    PhysRegs \ ({speculativeMap[a] : a \in ArchRegs} \cup {0})

\* An exception at the head of the ROB flushes the back end and restores the
\* committed map; the free list is recomputed from it.
committedFreeMask == PhysRegs \ ({committedMap[a] : a \in ArchRegs} \cup {0})

Trap(lane0) ==
    LET dispatched == RenameGroup(State, lane0, Bubble)
    IN  /\ trapValid(State)
        /\ freeMask' = committedFreeMask
        /\ speculativeMap' = committedMap
        /\ checkpointMap' = dispatched.checkpointMap
        /\ checkpointFreeMask' = dispatched.checkpointFreeMask
        /\ entries' = [t \in Tags |-> EmptyEntry]
        /\ headPtr' = 0 /\ tailPtr' = 0 /\ entryCount' = 0
        /\ late' = {}
        /\ UNCHANGED committedMap

Next ==
    \E lane0 \in Lane0s :
        \/ Trap(lane0)
        \/ \E tag \in Tags : Recover(tag, lane0)
        \/ \E lane1 \in Lane1s, ready \in {{}, {0}, {0, 1}} : Clock(lane0, lane1, ready)

Spec == Init /\ [][Next]_vars

--------------------------------------------------------------------------------
(* Properties.  Each is stated over a state record, so that the proofs can     *)
(* follow it through the lanes of one clock.                                   *)

\* The pointers stay inside the ROB, the count within its depth, and every map,
\* checkpoint and entry names registers that exist.
TypeOK ==
    /\ freeMask \subseteq PhysRegs
    /\ speculativeMap \in [ArchRegs -> PhysRegs]
    /\ committedMap \in [ArchRegs -> PhysRegs]
    /\ checkpointMap \in [Tags -> [ArchRegs -> PhysRegs]]
    /\ checkpointFreeMask \in [Tags -> SUBSET PhysRegs]
    /\ entries \in [Tags -> EntryType]
    /\ headPtr \in Tags /\ tailPtr \in Tags /\ entryCount \in 0..Depth
    /\ late \subseteq Tags

\* t is one of the n oldest in-flight instructions and writes register a.
Writes(s, t, a, n) ==
    InFlight(s, t) /\ Age(s, t) < n /\ s.entries[t].archRd = a /\ a # 0

\* p is the register that architectural register a maps to after the n oldest
\* in-flight instructions: that of the youngest writer of a among them, or the
\* committed one when they contain none.
MapsTo(s, p, a, n) ==
    \/ \E t \in Tags : /\ Writes(s, t, a, n) /\ p = s.entries[t].newPhys
                       /\ \A u \in Tags : Writes(s, u, a, n) => Age(s, u) <= Age(s, t)
    \/ (\A t \in Tags : ~Writes(s, t, a, n)) /\ p = s.committedMap[a]

\* p is held by the committed map or is the destination of one of the n oldest
\* in-flight instructions.
Writer(s, t, n) == InFlight(s, t) /\ Age(s, t) < n /\ s.entries[t].archRd # 0
Held(s, p, n) ==
    \/ \E a \in ArchRegs : s.committedMap[a] = p
    \/ \E t \in Tags : Writer(s, t, n) /\ s.entries[t].newPhys = p

\* No physical register has two owners: committed mappings and in-flight
\* destinations are pairwise different and p0 belongs to x0 alone.
OwnersDistinctIn(s) ==
    /\ s.committedMap[0] = 0
    /\ \A a, b \in ArchRegs : s.committedMap[a] = s.committedMap[b] => a = b
    /\ \A t \in Tags : Writer(s, t, s.entryCount) =>
          /\ \A a \in ArchRegs : s.committedMap[a] # s.entries[t].newPhys
          /\ \A u \in Tags : Writer(s, u, s.entryCount) /\ u # t
                               => s.entries[u].newPhys # s.entries[t].newPhys

\* A register is free exactly when it has no owner: none is handed out twice
\* and none is lost, whatever mix of dispatch, retirement, misprediction and
\* trap came before.
FreeListExactIn(s) == \A p \in PhysRegs : p \in s.freeMask <=> ~Held(s, p, s.entryCount)

\* The speculative map is the committed map overlaid with the destinations of
\* the in-flight instructions in program order.
SpeculativeMapExactIn(s) ==
    \A a \in ArchRegs : MapsTo(s, s.speculativeMap[a], a, s.entryCount)

\* The checkpoint of every in-flight branch is what renaming would have produced
\* had nothing younger been dispatched, although older instructions have since
\* retired and freed registers: a recovery in any later clock is exact.
CheckpointsExactIn(s) ==
    \A t \in Tags : InFlight(s, t) /\ s.entries[t].isBranch =>
        /\ \A a \in ArchRegs : MapsTo(s, s.checkpointMap[t][a], a, Age(s, t) + 1)
        /\ \A p \in PhysRegs :
              p \in s.checkpointFreeMask[t] <=> ~Held(s, p, Age(s, t) + 1)

\* An in-flight instruction's source and the register it will free are the
\* mappings its architectural operands had just before it.
OperandsExactIn(s) ==
    \A t \in Tags : InFlight(s, t) =>
        /\ MapsTo(s, s.entries[t].srcPhys, s.entries[t].rs, Age(s, t))
        /\ MapsTo(s, s.entries[t].oldPhys, s.entries[t].archRd, Age(s, t))

\* valid marks exactly the tags between head and tail.
RingExactIn(s) ==
    /\ s.tailPtr = addPtr(s.headPtr, s.entryCount)
    /\ \A t \in Tags : s.entries[t].valid <=> InFlight(s, t)

\* Every physical register has exactly one owner or is free: none is handed out
\* twice, none leaks, whatever mix of dispatch, retirement, misprediction and trap
\* came before (RenameMapTable, PhysicalFreeList).
OwnershipExact == OwnersDistinctIn(State) /\ FreeListExactIn(State)

\* The speculative map, the operands of every in-flight instruction and every
\* live checkpoint are what program order prescribes, although lanes rename
\* together and older instructions retire after a checkpoint was taken; the valid
\* bits of the ROB agree with its pointers (RenameStage, RenameMapTable, ReorderBuffer).
MappingsExact ==
    /\ RingExactIn(State) /\ SpeculativeMapExactIn(State)
    /\ OperandsExactIn(State) /\ CheckpointsExactIn(State)

\* No register in use is free: neither the source of an in-flight instruction,
\* which a later rename could otherwise take while the old value has a reader,
\* nor a register of the current map, which never aliases two registers.
NoEarlyReuse ==
    /\ \A t \in Tags : InFlight(State, t) => entries[t].srcPhys \notin freeMask
    /\ \A a \in ArchRegs :
          /\ speculativeMap[a] \notin freeMask
          /\ \A b \in ArchRegs : speculativeMap[a] = speculativeMap[b] => a = b
=============================================================================
