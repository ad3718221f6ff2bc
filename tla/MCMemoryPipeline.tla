-------------------------- MODULE MCMemoryPipeline --------------------------
EXTENDS MemoryPipeline

Ram(w) == [mmio |-> FALSE, word |-> w]
ToHost == [mmio |-> TRUE, word |-> 1]
MCAddresses == {Ram(0), ToHost}

Low == [l \in Lanes |-> l + 1]
High == [l \in Lanes |-> 130 + l]

MemOp(w, a, acc, o, d) ==
    [kind |-> "memory", write |-> w, addr |-> a, access |-> acc, offset |-> o,
     data |-> d, x0 |-> d = ZeroWord, late |-> FALSE]
Load(a, acc, o) == MemOp(FALSE, a, acc, o, ZeroWord)
Store(a, acc, o, d) == MemOp(TRUE, a, acc, o, d)

Branch == [kind |-> "branch"]
LW == Load(Ram(0), "WORD", 0)
LB == Load(Ram(0), "BYTE", 1)
SW == Store(Ram(0), "WORD", 0, Low)
SB == Store(Ram(0), "BYTE", 1, High)
LateSB == [SB EXCEPT !.late = TRUE]

\* ROB tags and LSQ slots are names: states that differ by a rotation of them
\* behave alike.  The last answer is read by no action.
RelTag(t) == (t + RobDepth - robHead) % RobDepth
RelSlot(x) == (x + LsqDepth - lsq.headPtr) % LsqDepth
RotatedView ==
    <<[i \in 1..Len(rob) |-> [rob[i] EXCEPT !.lsqTag = RelSlot(@)]],
      [k \in LsqSlots |-> LET e == lsq.entries[lsqAddPtr(lsq.headPtr, k)]
                          IN  IF e.valid THEN [e EXCEPT !.robTag = RelTag(@)] ELSE e],
      lsq.entryCount, RelSlot(lsq.tailPtr),
      [k \in Tags |-> pending[(robHead + k) % RobDepth]],
      IF completion = None THEN None ELSE <<[completion[1] EXCEPT !.tag = RelTag(@)]>>,
      queue, golden, arch, workload,
      {[o EXCEPT !.id = RelTag(@)] : o \in owed}>>

\* Overlapping cached accesses of two sizes.
CachedGroups == {<<LB>>, <<LW>>, <<SW>>, <<LateSB>>, <<SW, LateSB>>}

\* Loads, and then Stores, behind branches, with an access that traps.
Misaligned == Load(Ram(0), "WORD", 2)
KilledLoads == {<<Branch, LB>>, <<Store(Ram(0), "BYTE", 1, ZeroWord), Misaligned>>}
KilledStores == {<<Branch, SB>>, <<Misaligned>>}

\* MMIO between cached accesses, and a Store of x0.
MmioGroups ==
    {<<Store(ToHost, "WORD", 0, Low)>>, <<Load(ToHost, "WORD", 0)>>, <<LateSB>>, <<LB>>,
     <<Store(Ram(0), "WORD", 0, ZeroWord)>>}

MCWorkloads == {CachedGroups, KilledLoads, KilledStores}
MmioWorkloads == {MmioGroups}
=============================================================================
