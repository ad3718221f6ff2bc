---------------------------- MODULE RenameProofs ----------------------------
(* Every clock keeps the renaming invariant: dispatch and retirement of two    *)
(* lanes, completions, recoveries and traps, for every number of architectural *)
(* and physical registers, every ROB depth and every instruction mix.          *)
EXTENDS Rename, WellFoundedInduction, NaturalsInduction, TLAPS

\* The default provers, one after the other, with time to spare.
USE SMTT(30), ZenonT(40)

TypeIn(s) ==
    /\ s.freeMask \subseteq PhysRegs
    /\ s.speculativeMap \in [ArchRegs -> PhysRegs]
    /\ s.committedMap \in [ArchRegs -> PhysRegs]
    /\ s.checkpointMap \in [Tags -> [ArchRegs -> PhysRegs]]
    /\ s.checkpointFreeMask \in [Tags -> SUBSET PhysRegs]
    /\ s.entries \in [Tags -> EntryType]
    /\ s.headPtr \in Tags /\ s.tailPtr \in Tags /\ s.entryCount \in 0..Depth

\* The inductive invariant: the six exactness properties support each other.
IInv(s) ==
    /\ TypeIn(s) /\ RingExactIn(s) /\ OwnersDistinctIn(s) /\ FreeListExactIn(s)
    /\ SpeculativeMapExactIn(s) /\ CheckpointsExactIn(s) /\ OperandsExactIn(s)

--------------------------------------------------------------------------------

\* Allocation returns a free register whenever there is one.
LEMMA AllocIsFree ==
  ASSUME NEW free \in SUBSET PhysRegs, free # {}
  PROVE  allocPhys(free) \in free
<1>1. \E p \in free : \A q \in free : ~(<<q, p>> \in OpToRel(<, Nat))
  <2>1. free \subseteq Nat
    BY SizesAssumption DEF PhysRegs
  <2> QED
    BY <2>1, NatLessThanWellFounded, WFMin, ZenonT(40), SMTT(30)
<1>2. \A p, q \in Nat : q < p => <<q, p>> \in OpToRel(<, Nat)
  BY DEF OpToRel
<1>3. \A p \in free : p \in Nat
  BY SizesAssumption DEF PhysRegs
<1>4. \E p \in free : \A q \in free : p <= q
  <2>1. PICK p \in free : \A q \in free : ~(<<q, p>> \in OpToRel(<, Nat))
    BY <1>1, ZenonT(40), SMTT(30)
  <2>2. \A q \in free : ~(q < p)
    BY <2>1, <1>2, <1>3, ZenonT(40), SMTT(30)
  <2> QED
    BY <2>2, <1>3
<1> QED
  BY <1>4 DEF allocPhys

\* Ages are places in the ring: they differ, and the tail is entryCount old.
LEMMA AgeFacts ==
  ASSUME NEW s, s.headPtr \in Tags, s.entryCount \in 0..Depth
  PROVE  /\ \A t \in Tags : Age(s, t) \in Tags
         /\ \A t, u \in Tags : Age(s, t) = Age(s, u) => t = u
         /\ s.entryCount < Depth =>
              /\ addPtr(s.headPtr, s.entryCount) \in Tags
              /\ Age(s, addPtr(s.headPtr, s.entryCount)) = s.entryCount
BY SizesAssumption DEF Age, Tags, addPtr

LEMMA NextPtr == \A b \in Tags : addPtr(b, 1) \in Tags
BY SizesAssumption DEF addPtr, Tags

\* When the head advances, every other entry becomes one place older.
LEMMA AgeShift ==
  ASSUME NEW s, NEW r, s.headPtr \in Tags, r.headPtr = addPtr(s.headPtr, 1)
  PROVE  /\ \A t \in Tags : t # s.headPtr => Age(r, t) = Age(s, t) - 1
         /\ Age(r, s.headPtr) = Depth - 1
<1>1. /\ s.headPtr \in Int /\ Depth \in Int /\ 0 <= s.headPtr /\ s.headPtr < Depth
      /\ r.headPtr = IF s.headPtr + 1 >= Depth THEN s.headPtr + 1 - Depth ELSE s.headPtr + 1
  BY SizesAssumption DEF addPtr, Tags
<1>2. ASSUME NEW t \in Tags, t # s.headPtr PROVE Age(r, t) = Age(s, t) - 1
  <2>1. t \in Int /\ 0 <= t /\ t < Depth
    BY SizesAssumption DEF Tags
  <2> QED
    BY <1>1, <1>2, <2>1 DEF Age
<1>3. Age(r, s.headPtr) = Depth - 1
  BY <1>1 DEF Age
<1> QED
  BY <1>2, <1>3

\* MapsTo and Held depend only on the n oldest instructions and the committed map.
LEMMA MapsToAgree ==
  ASSUME NEW s, NEW r, NEW p, NEW a, NEW m, NEW n,
         s.committedMap[a] = r.committedMap[a],
         \A t \in Tags : Writes(s, t, a, m) <=> Writes(r, t, a, n),
         \A t \in Tags : Writes(s, t, a, m) => s.entries[t].newPhys = r.entries[t].newPhys,
         \A t, u \in Tags : Writes(s, t, a, m) /\ Writes(s, u, a, m)
                => (Age(s, u) <= Age(s, t) <=> Age(r, u) <= Age(r, t))
  PROVE  MapsTo(s, p, a, m) <=> MapsTo(r, p, a, n)
BY DEF MapsTo

LEMMA HeldAgree ==
  ASSUME NEW s, NEW r, NEW p, NEW m, NEW n,
         s.committedMap = r.committedMap,
         \A t \in Tags : Writer(s, t, m) <=> Writer(r, t, n),
         \A t \in Tags : Writer(s, t, m) => s.entries[t].newPhys = r.entries[t].newPhys
  PROVE  Held(s, p, m) <=> Held(r, p, n)
BY DEF Held

--------------------------------------------------------------------------------

\* Dispatching one lane: the new register leaves the free list for the tail
\* entry, and nothing that describes older instructions changes.
LEMMA RenameLaneInv ==
  ASSUME NEW s, IInv(s), NEW lane \in Instrs, laneHasResources(s, lane)
  PROVE  IInv(RenameLane(s, lane))
<1> DEFINE r == RenameLane(s, lane)
           T == s.tailPtr
           n == s.entryCount
           new == IF lane.rd = 0 THEN 0 ELSE allocPhys(s.freeMask)
           map == IF lane.rd = 0 THEN s.speculativeMap
                  ELSE [s.speculativeMap EXCEPT ![lane.rd] = new]
<1>1. /\ r.freeMask = s.freeMask \ {new} /\ r.speculativeMap = map
      /\ r.committedMap = s.committedMap
      /\ r.checkpointMap = IF lane.isBranch THEN [s.checkpointMap EXCEPT ![T] = map]
                           ELSE s.checkpointMap
      /\ r.checkpointFreeMask =
            IF lane.isBranch THEN [s.checkpointFreeMask EXCEPT ![T] = s.freeMask \ {new}]
            ELSE s.checkpointFreeMask
      /\ r.entries = [s.entries EXCEPT ![T] = robEntry(s, lane, new)]
      /\ r.headPtr = s.headPtr /\ r.tailPtr = addPtr(T, 1) /\ r.entryCount = n + 1
  BY ZenonT(40), SMTT(30) DEF RenameLane
<1>t. TypeIn(s)
  BY DEF IInv
<1>l. lane.rd \in ArchRegs /\ lane.rs \in ArchRegs /\ lane.isBranch \in BOOLEAN
  BY InstrsAssumption, ZenonT(40), SMTT(30)
<1>z. 0 \in ArchRegs /\ 0 \in PhysRegs /\ s.committedMap[0] = 0
  BY SizesAssumption DEF ArchRegs, PhysRegs, IInv, OwnersDistinctIn
<1>2. /\ new \in PhysRegs
      /\ lane.rd # 0 => new \in s.freeMask
      /\ lane.rd = 0 => new = 0
      /\ 0 \notin s.freeMask
  BY <1>t, <1>z, AllocIsFree DEF laneHasResources, IInv, TypeIn, FreeListExactIn, Held
<1>3. /\ T \in Tags /\ n \in 0..Depth /\ n < Depth /\ Age(s, T) = n
      /\ \A t \in Tags : Age(s, t) \in Tags /\ Age(r, t) = Age(s, t)
      /\ \A t, u \in Tags : Age(s, t) = Age(s, u) => t = u
  BY <1>1, <1>t, AgeFacts DEF TypeIn, IInv, RingExactIn, laneHasResources, Age
<1>4. \A t \in Tags : InFlight(r, t) <=> InFlight(s, t) \/ t = T
  BY <1>1, <1>3, SizesAssumption DEF InFlight, Tags
<1>5. ~InFlight(s, T)
  BY <1>3 DEF InFlight
<1>6. /\ \A t \in Tags : t # T => r.entries[t] = s.entries[t]
      /\ r.entries[T] = robEntry(s, lane, new)
  BY <1>1, <1>3, <1>t DEF TypeIn
<1> HIDE DEF r, T, n, new, map
<1>a. \A t, u \in Tags : Age(s, u) <= Age(s, t) <=> Age(r, u) <= Age(r, t)
  BY <1>3
<1>b. \A a \in ArchRegs : s.committedMap[a] = r.committedMap[a]
  BY <1>1
<1>7. ASSUME NEW p, NEW a \in ArchRegs, NEW m \in 0..n
      PROVE  MapsTo(r, p, a, m) <=> MapsTo(s, p, a, m)
  <2>1. \A t \in Tags : Writes(s, t, a, m) <=> Writes(r, t, a, m)
    BY <1>3, <1>4, <1>5, <1>6 DEF Writes
  <2>2. \A t \in Tags : Writes(s, t, a, m) => s.entries[t].newPhys = r.entries[t].newPhys
    BY <1>5, <1>6 DEF Writes
  <2> QED
    BY <2>1, <2>2, <1>a, <1>b, MapsToAgree
<1>8. ASSUME NEW p, NEW m \in 0..n
      PROVE  Held(r, p, m) <=> Held(s, p, m)
  <2>1. \A t \in Tags : Writer(s, t, m) <=> Writer(r, t, m)
    BY <1>3, <1>4, <1>5, <1>6 DEF Writer
  <2>2. \A t \in Tags : Writer(s, t, m) => s.entries[t].newPhys = r.entries[t].newPhys
    BY <1>5, <1>6 DEF Writer
  <2>3. s.committedMap = r.committedMap
    BY <1>1
  <2> QED
    BY <2>1, <2>2, <2>3, HeldAgree, ZenonT(40), SMTT(30)
<1>9. \A p : Held(r, p, n + 1) <=> (Held(s, p, n) \/ (lane.rd # 0 /\ p = new))
  <2>1. \A t \in Tags : Writer(r, t, n + 1) <=>
            (Writer(s, t, n) \/ (t = T /\ lane.rd # 0))
    BY <1>1, <1>3, <1>4, <1>5, <1>6 DEF Writer, InFlight, robEntry, Tags
  <2>2. \A t \in Tags : Writer(s, t, n) => t # T
    BY <1>5 DEF Writer
  <2> QED
    BY <2>1, <2>2, <1>1, <1>3, <1>6 DEF Held, robEntry
<1>10. \A a \in ArchRegs : MapsTo(r, map[a], a, n + 1)
  <2> SUFFICES ASSUME NEW a \in ArchRegs PROVE MapsTo(r, map[a], a, n + 1)
    OBVIOUS
  <2>1. CASE lane.rd # 0 /\ a = lane.rd
    <3>1. map[a] = new
      BY <2>1, <1>t, <1>l DEF map, TypeIn
    <3>2. Writes(r, T, a, n + 1) /\ new = r.entries[T].newPhys
      BY <2>1, <1>1, <1>3, <1>4, <1>6 DEF Writes, robEntry
    <3>3. \A u \in Tags : Writes(r, u, a, n + 1) => Age(r, u) <= Age(r, T)
      BY <1>1, <1>3 DEF Writes, Tags
    <3> QED
      BY <3>1, <3>2, <3>3, <1>3 DEF MapsTo
  <2>2. CASE ~(lane.rd # 0 /\ a = lane.rd)
    <3>1. map[a] = s.speculativeMap[a]
      BY <2>2, <1>t, <1>l DEF map, TypeIn
    <3>2. \A t \in Tags : Writes(s, t, a, n) <=> Writes(r, t, a, n + 1)
      BY <2>2, <1>1, <1>3, <1>4, <1>5, <1>6 DEF Writes, InFlight, robEntry, Tags
    <3>3. \A t \in Tags : Writes(s, t, a, n) => s.entries[t].newPhys = r.entries[t].newPhys
      BY <1>5, <1>6 DEF Writes
    <3>4. MapsTo(s, map[a], a, n)
      BY <3>1 DEF IInv, SpeculativeMapExactIn, n
    <3> QED
      BY <3>2, <3>3, <3>4, <1>a, <1>b, MapsToAgree
  <2> QED
    BY <2>1, <2>2
<1>11. TypeIn(r)
  <2>0. \A a \in ArchRegs : lookup(s, a) \in PhysRegs
    BY <1>t, <1>z DEF lookup, TypeIn
  <2>1. robEntry(s, lane, new) \in EntryType
    BY <2>0, <1>2, <1>l DEF robEntry, EntryType
  <2>2. map \in [ArchRegs -> PhysRegs]
    BY <1>2, <1>l, <1>t DEF map, TypeIn
  <2>3. r.entryCount \in 0..Depth /\ r.tailPtr \in Tags /\ r.headPtr \in Tags
    <3>1. s.headPtr \in Tags
      BY <1>t DEF TypeIn
    <3> QED
      BY <3>1, <1>1, <1>3, NextPtr, SizesAssumption
  <2>4. /\ r.freeMask \in SUBSET PhysRegs /\ r.speculativeMap \in [ArchRegs -> PhysRegs]
        /\ r.committedMap \in [ArchRegs -> PhysRegs]
        /\ r.entries \in [Tags -> EntryType]
    BY <2>1, <2>2, <1>1, <1>t, ZenonT(40), SMTT(30) DEF TypeIn
  <2>5. /\ r.checkpointMap \in [Tags -> [ArchRegs -> PhysRegs]]
        /\ r.checkpointFreeMask \in [Tags -> SUBSET PhysRegs]
    BY <2>2, <2>4, <1>1, <1>t DEF TypeIn
  <2> QED
    BY <2>3, <2>4, <2>5 DEF TypeIn
<1>12. RingExactIn(r)
  <2>0. T = addPtr(s.headPtr, n) /\ s.headPtr \in Tags
    BY <1>t DEF IInv, RingExactIn, TypeIn, T, n
  <2>1. r.tailPtr = addPtr(r.headPtr, r.entryCount)
    BY <2>0, <1>1, <1>3, SizesAssumption DEF addPtr, Tags
  <2>2. \A t \in Tags : r.entries[t].valid <=> InFlight(r, t)
    BY <1>4, <1>6, SMTT(60) DEF robEntry, IInv, RingExactIn
  <2> QED
    BY <2>1, <2>2 DEF RingExactIn
<1>13. lane.rd # 0 => ~Held(s, new, n)
  BY <1>2 DEF IInv, FreeListExactIn, n
<1>14. OwnersDistinctIn(r)
  <2>1. \A t \in Tags : Writer(r, t, n + 1) <=>
            (Writer(s, t, n) \/ (t = T /\ lane.rd # 0))
    BY <1>1, <1>3, <1>4, <1>5, <1>6 DEF Writer, InFlight, robEntry, Tags
  <2>2. \A t \in Tags : Writer(s, t, n) => t # T /\ r.entries[t] = s.entries[t]
    BY <1>5, <1>6 DEF Writer
  <2>3. r.entries[T].newPhys = new
    BY <1>6 DEF robEntry
  <2> QED
    BY <2>1, <2>2, <2>3, <1>1, <1>3, <1>13, SMTT(60) DEF OwnersDistinctIn, IInv, Held, n
<1>15. FreeListExactIn(r)
  <2>1. \A p \in PhysRegs : p \in s.freeMask <=> ~Held(s, p, n)
    BY DEF FreeListExactIn, IInv, n
  <2> QED
    BY <2>1, <1>1, <1>2, <1>9 DEF FreeListExactIn
<1>16. SpeculativeMapExactIn(r)
  BY <1>1, <1>10 DEF SpeculativeMapExactIn
<1>17. CheckpointsExactIn(r)
  <2> SUFFICES ASSUME NEW t \in Tags, InFlight(r, t), r.entries[t].isBranch
               PROVE  /\ \A a \in ArchRegs :
                            MapsTo(r, r.checkpointMap[t][a], a, Age(r, t) + 1)
                      /\ \A p \in PhysRegs :
                            p \in r.checkpointFreeMask[t] <=> ~Held(r, p, Age(r, t) + 1)
    BY DEF CheckpointsExactIn
  <2>1. CASE t = T
    <3>1. /\ lane.isBranch /\ Age(r, t) = n
          /\ r.checkpointMap[t] = map /\ r.checkpointFreeMask[t] = r.freeMask
      BY <2>1, <1>1, <1>3, <1>6, <1>t, SMTT(60) DEF robEntry, TypeIn
    <3> QED
      BY <3>1, <1>1, <1>10, <1>15 DEF FreeListExactIn
  <2>2. CASE t # T
    <3>1. /\ InFlight(s, t) /\ s.entries[t].isBranch /\ Age(r, t) = Age(s, t)
          /\ r.checkpointMap[t] = s.checkpointMap[t]
          /\ r.checkpointFreeMask[t] = s.checkpointFreeMask[t]
      BY <2>2, <1>1, <1>3, <1>4, <1>6, <1>t, ZenonT(40), SMTT(30) DEF TypeIn
    <3>2. Age(s, t) + 1 \in 0..n
      BY <3>1, <1>3 DEF InFlight, Tags, n
    <3> QED
      BY <3>1, <3>2, <1>7, <1>8, ZenonT(40), SMTT(30) DEF IInv, CheckpointsExactIn
  <2> QED
    BY <2>1, <2>2
<1>18. OperandsExactIn(r)
  <2> SUFFICES ASSUME NEW t \in Tags, InFlight(r, t)
               PROVE  /\ MapsTo(r, r.entries[t].srcPhys, r.entries[t].rs, Age(r, t))
                      /\ MapsTo(r, r.entries[t].oldPhys, r.entries[t].archRd, Age(r, t))
    BY DEF OperandsExactIn
  <2>1. CASE t = T
    <3>1. \A a \in ArchRegs : MapsTo(s, lookup(s, a), a, n)
      <4>1. MapsTo(s, 0, 0, n)
        BY <1>z DEF MapsTo, Writes
      <4> QED
        BY <4>1 DEF lookup, IInv, SpeculativeMapExactIn, n
    <3>2. \A a \in ArchRegs : MapsTo(r, lookup(s, a), a, n)
      BY <3>1, <1>3, <1>7
    <3> QED
      BY <3>2, <2>1, <1>3, <1>6, <1>l DEF robEntry
  <2>2. CASE t # T
    <3>1. /\ InFlight(s, t) /\ r.entries[t] = s.entries[t] /\ Age(r, t) = Age(s, t)
          /\ s.entries[t].rs \in ArchRegs /\ s.entries[t].archRd \in ArchRegs
      BY <2>2, <1>3, <1>4, <1>6, <1>t DEF TypeIn, EntryType
    <3>2. Age(s, t) \in 0..n
      BY <3>1, <1>3 DEF InFlight, Tags, n
    <3> QED
      BY <3>1, <3>2, <1>7, ZenonT(40), SMTT(30) DEF IInv, OperandsExactIn
  <2> QED
    BY <2>1, <2>2
<1> QED
  BY <1>11, <1>12, <1>14, <1>15, <1>16, <1>17, <1>18 DEF IInv, r

--------------------------------------------------------------------------------

\* Retiring the head: its destination moves from the in-flight writers to the
\* committed map and the register it replaces becomes free, in the free list and
\* in every checkpoint.
LEMMA RetireHeadInv ==
  ASSUME NEW s, IInv(s), s.entryCount > 0
  PROVE  IInv(RetireHead(s))
<1> DEFINE r == RetireHead(s)
           H == s.headPtr
           e == s.entries[H]
           n == s.entryCount
           freed == IF e.archRd # 0 THEN {e.oldPhys} ELSE {}
<1>t. TypeIn(s)
  BY DEF IInv
<1>e. /\ H \in Tags /\ n \in 1..Depth /\ e \in EntryType
      /\ e.archRd \in ArchRegs /\ e.newPhys \in PhysRegs /\ e.oldPhys \in PhysRegs
      /\ s.committedMap \in [ArchRegs -> PhysRegs]
  BY <1>t DEF TypeIn, EntryType
<1>z. /\ 0 \in ArchRegs /\ 0 \in PhysRegs /\ s.committedMap[0] = 0
      /\ \A a, b \in ArchRegs : s.committedMap[a] = s.committedMap[b] => a = b
  BY SizesAssumption DEF ArchRegs, PhysRegs, IInv, OwnersDistinctIn
<1>2. /\ Age(s, H) = 0 /\ InFlight(s, H)
      /\ \A t \in Tags : Age(s, t) \in Tags
      /\ \A t \in Tags : t # H => Age(s, t) > 0
  BY <1>e, SizesAssumption DEF Age, InFlight, Tags
<1>3. e.archRd # 0 => e.oldPhys = s.committedMap[e.archRd] /\ e.oldPhys # 0
  <2>1. MapsTo(s, e.oldPhys, e.archRd, 0)
    BY <1>e, <1>2 DEF IInv, OperandsExactIn
  <2>2. \A t \in Tags : ~Writes(s, t, e.archRd, 0)
    BY <1>2 DEF Writes, Tags
  <2>3. e.oldPhys = s.committedMap[e.archRd]
    BY <2>1, <2>2, ZenonT(40), SMTT(30) DEF MapsTo
  <2> QED
    BY <2>3, <1>e, <1>z
<1>1. /\ r.freeMask = s.freeMask \cup freed /\ r.speculativeMap = s.speculativeMap
      /\ r.committedMap = IF e.archRd = 0 THEN s.committedMap
                          ELSE [s.committedMap EXCEPT ![e.archRd] = e.newPhys]
      /\ r.checkpointMap = s.checkpointMap
      /\ r.checkpointFreeMask = [t \in Tags |-> s.checkpointFreeMask[t] \cup freed]
      /\ r.entries = [s.entries EXCEPT ![H] = EmptyEntry]
      /\ r.headPtr = addPtr(H, 1) /\ r.tailPtr = s.tailPtr /\ r.entryCount = n - 1
  <2>1. freedRegs(e) = freed
    BY <1>3 DEF freedRegs
  <2> HIDE DEF freed
  <2>2. r.freeMask = s.freeMask \cup freed /\ r.speculativeMap = s.speculativeMap
    BY <2>1 DEF RetireHead
  <2>3. r.committedMap = IF e.archRd = 0 THEN s.committedMap
                         ELSE [s.committedMap EXCEPT ![e.archRd] = e.newPhys]
    BY DEF RetireHead
  <2>4. r.checkpointMap = s.checkpointMap
    BY DEF RetireHead
  <2>5. r.checkpointFreeMask = [t \in Tags |-> s.checkpointFreeMask[t] \cup freed]
    BY <2>1 DEF RetireHead, freedInCheckpoints
  <2>6. r.entries = [s.entries EXCEPT ![H] = EmptyEntry]
    BY DEF RetireHead
  <2>7. r.headPtr = addPtr(H, 1) /\ r.tailPtr = s.tailPtr /\ r.entryCount = n - 1
    BY ZenonT(40), SMTT(30) DEF RetireHead
  <2> HIDE DEF r, H, e, n
  <2> QED
    BY <2>2, <2>3, <2>4, <2>5, <2>6, <2>7
<1> HIDE DEF r, H, e, n, freed
<1>4. /\ \A t \in Tags : t # H => Age(r, t) = Age(s, t) - 1
      /\ Age(r, H) = Depth - 1
  BY <1>1, <1>e, AgeShift, ZenonT(40), SMTT(30) DEF H
<1>5. \A t \in Tags : InFlight(r, t) <=> InFlight(s, t) /\ t # H
  <2>1. r.entryCount = s.entryCount - 1 /\ s.entryCount \in 1..Depth /\ Depth \in Nat
    BY <1>1, <1>e, SizesAssumption DEF n
  <2>2. ~InFlight(r, H)
    BY <2>1, <1>4 DEF InFlight
  <2>3. ASSUME NEW t \in Tags, t # H PROVE InFlight(r, t) <=> InFlight(s, t)
    <3>1. Age(s, t) \in Int /\ Age(r, t) = Age(s, t) - 1
      BY <2>3, <1>2, <1>4 DEF Tags
    <3> QED
      BY <3>1, <2>1 DEF InFlight
  <2> QED
    BY <2>2, <2>3
<1>6. \A t \in Tags : t # H => r.entries[t] = s.entries[t]
  BY <1>1, <1>e, <1>t DEF TypeIn
<1>7. /\ \A a \in ArchRegs : a # e.archRd \/ a = 0 => r.committedMap[a] = s.committedMap[a]
      /\ e.archRd # 0 => r.committedMap[e.archRd] = e.newPhys
  BY <1>1, <1>e
<1>8. /\ e.archRd # 0 => freed = {s.committedMap[e.archRd]}
      /\ e.archRd = 0 => freed = {}
  BY <1>3 DEF freed
<1>w. ASSUME NEW m \in 0..Depth, NEW t \in Tags
      PROVE  /\ Writer(r, t, m) <=> Writer(s, t, m + 1) /\ t # H
             /\ \A a : Writes(r, t, a, m) <=> Writes(s, t, a, m + 1) /\ t # H
  BY <1>2, <1>4, <1>5, <1>6 DEF Writer, Writes, Tags
<1>h. ASSUME NEW m \in 0..Depth
      PROVE  /\ Writer(s, H, m + 1) <=> e.archRd # 0
             /\ \A a : Writes(s, H, a, m + 1) <=> e.archRd # 0 /\ e.archRd = a
  BY <1>2, <1>e DEF Writer, Writes, e, H
<1>9. ASSUME NEW p, NEW a \in ArchRegs, NEW m \in 0..Depth, MapsTo(s, p, a, m + 1)
      PROVE  MapsTo(r, p, a, m)
  <2>1. CASE \A t \in Tags : ~Writes(s, t, a, m + 1)
    <3>1. p = s.committedMap[a] /\ p = r.committedMap[a]
      BY <2>1, <1>9, <1>h, <1>7, <1>e DEF MapsTo
    <3> QED
      BY <2>1, <3>1, <1>w DEF MapsTo
  <2>2. ASSUME NEW t \in Tags, Writes(s, t, a, m + 1), p = s.entries[t].newPhys,
               \A u \in Tags : Writes(s, u, a, m + 1) => Age(s, u) <= Age(s, t)
        PROVE  MapsTo(r, p, a, m)
    <3>1. CASE t = H
      <4>1. \A u \in Tags : ~Writes(r, u, a, m)
        BY <2>2, <3>1, <1>w, <1>2 DEF Tags
      <4>2. r.committedMap[a] = p
        BY <2>2, <3>1, <1>h, <1>7, ZenonT(40), SMTT(30) DEF e, H
      <4> QED
        BY <4>1, <4>2 DEF MapsTo
    <3>2. CASE t # H
      <4>1. Writes(r, t, a, m) /\ p = r.entries[t].newPhys
        BY <2>2, <3>2, <1>w, <1>6
      <4>2. \A u \in Tags : Writes(r, u, a, m) => Age(r, u) <= Age(r, t)
        BY <2>2, <3>2, <1>w, <1>4, <1>2 DEF Tags
      <4> QED
        BY <4>1, <4>2 DEF MapsTo
    <3> QED
      BY <3>1, <3>2
  <2> QED
    BY <2>1, <2>2, <1>9 DEF MapsTo
<1>o. /\ \A t \in Tags : Writer(s, t, n) =>
            /\ \A a \in ArchRegs : s.committedMap[a] # s.entries[t].newPhys
            /\ \A u \in Tags : Writer(s, u, n) /\ u # t
                                 => s.entries[u].newPhys # s.entries[t].newPhys
  BY DEF IInv, OwnersDistinctIn, n
<1>10. ASSUME NEW p, NEW m \in 0..(n - 1)
       PROVE  Held(r, p, m) <=> Held(s, p, m + 1) /\ p \notin freed
  <2>1. \A t \in Tags : Writer(s, t, m + 1) => Writer(s, t, n)
    BY <1>e, <1>2 DEF Writer, Tags
  <2>2. m \in 0..Depth
    BY <1>e, SizesAssumption
  <2>3. ASSUME Held(r, p, m) PROVE Held(s, p, m + 1) /\ p \notin freed
    <3>1. ASSUME NEW a \in ArchRegs, r.committedMap[a] = p
          PROVE  Held(s, p, m + 1) /\ p \notin freed
      <4>1. CASE e.archRd # 0 /\ a = e.archRd
        <5>1. H \in Tags /\ Writer(s, H, m + 1) /\ s.entries[H].newPhys = p
          BY <3>1, <4>1, <2>2, <1>7, <1>e, <1>h, ZenonT(40), SMTT(30) DEF e, H
        <5>2. s.committedMap[e.archRd] # p
          BY <5>1, <4>1, <2>1, <1>o
        <5>3. p \notin freed
          BY <5>2, <4>1, <1>8
        <5> QED
          BY <5>1, <5>3 DEF Held
      <4>2. CASE ~(e.archRd # 0 /\ a = e.archRd)
        BY <3>1, <4>2, <1>7, <1>8, <1>e, <1>z DEF Held
      <4> QED
        BY <4>1, <4>2, ZenonT(40), SMTT(30)
    <3>2. ASSUME NEW t \in Tags, Writer(r, t, m), r.entries[t].newPhys = p
          PROVE  Held(s, p, m + 1) /\ p \notin freed
      BY <3>2, <2>1, <2>2, <1>6, <1>8, <1>e, <1>o, <1>w, ZenonT(40), SMTT(30) DEF Held
    <3> QED
      BY <3>1, <3>2, <2>3 DEF Held
  <2>4. ASSUME Held(s, p, m + 1), p \notin freed PROVE Held(r, p, m)
    <3>1. ASSUME NEW a \in ArchRegs, s.committedMap[a] = p PROVE Held(r, p, m)
      BY <3>1, <2>4, <1>7, <1>8, <1>e, ZenonT(40), SMTT(30) DEF Held
    <3>2. ASSUME NEW t \in Tags, Writer(s, t, m + 1), s.entries[t].newPhys = p
          PROVE  Held(r, p, m)
      BY <3>2, <2>2, <1>6, <1>7, <1>e, <1>h, <1>w, SMTT(60) DEF Held, e, H
    <3> QED
      BY <3>1, <3>2, <2>4 DEF Held
  <2> QED
    BY <2>3, <2>4
<1>11. r.entryCount \in 0..Depth /\ r.entryCount = n - 1 /\ n - 1 \in 0..Depth
  BY <1>1, <1>e, SizesAssumption
<1>12. TypeIn(r)
  <2>1. EmptyEntry \in EntryType
    BY <1>z DEF EmptyEntry, EntryType
  <2>2. freed \subseteq PhysRegs
    BY <1>e DEF freed
  <2>3. r.tailPtr \in Tags /\ r.headPtr \in Tags
    BY <1>1, <1>e, <1>t, NextPtr, ZenonT(40), SMTT(30) DEF TypeIn
  <2>4. /\ r.freeMask \in SUBSET PhysRegs /\ r.speculativeMap \in [ArchRegs -> PhysRegs]
        /\ r.committedMap \in [ArchRegs -> PhysRegs]
        /\ r.entries \in [Tags -> EntryType]
    BY <2>1, <2>2, <1>1, <1>e, <1>t DEF TypeIn
  <2>5. /\ r.checkpointMap \in [Tags -> [ArchRegs -> PhysRegs]]
        /\ r.checkpointFreeMask \in [Tags -> SUBSET PhysRegs]
    BY <2>2, <1>1, <1>t DEF TypeIn
  <2> QED
    BY <2>3, <2>4, <2>5, <1>11, ZenonT(40), SMTT(30) DEF TypeIn
<1>13. RingExactIn(r)
  <2>0. s.tailPtr = addPtr(H, n)
    BY DEF IInv, RingExactIn, H, n
  <2>1. r.tailPtr = addPtr(r.headPtr, r.entryCount)
    BY <2>0, <1>1, <1>e, SizesAssumption, SMTT(60) DEF addPtr, Tags
  <2>2. r.entries[H].valid = FALSE
    BY <1>1, <1>e, <1>t, SMTT(60) DEF TypeIn, EmptyEntry
  <2>3. \A t \in Tags : s.entries[t].valid <=> InFlight(s, t)
    BY DEF IInv, RingExactIn
  <2>4. \A t \in Tags : r.entries[t].valid <=> InFlight(r, t)
    BY <2>2, <2>3, <1>5, <1>6
  <2> QED
    BY <2>1, <2>4 DEF RingExactIn
<1>14. OwnersDistinctIn(r)
  <2>1. \A t \in Tags : Writer(r, t, n - 1) => Writer(s, t, n) /\ t # H
    BY <1>w, <1>11, <1>e
  <2>2. e.archRd # 0 => Writer(s, H, n)
    BY <1>h, <1>11, <1>e
  <2>3. r.committedMap[0] = 0
    BY <1>7, <1>z
  <2>4. ASSUME NEW a \in ArchRegs, NEW b \in ArchRegs, r.committedMap[a] = r.committedMap[b]
        PROVE  a = b
    <3>1. CASE e.archRd = 0
      BY <2>4, <3>1, <1>7, <1>z
    <3>2. CASE e.archRd # 0
      BY <2>2, <2>4, <3>2, <1>7, <1>z, <1>o, <1>e DEF e
    <3> QED
      BY <3>1, <3>2
  <2>5. ASSUME NEW t \in Tags, Writer(r, t, n - 1), NEW a \in ArchRegs
        PROVE  r.committedMap[a] # r.entries[t].newPhys
    <3>1. Writer(s, t, n) /\ t # H /\ r.entries[t] = s.entries[t]
      BY <2>1, <2>5, <1>6
    <3>2. CASE a # e.archRd \/ a = 0
      BY <3>1, <3>2, <1>7, <1>o
    <3>3. CASE e.archRd # 0 /\ a = e.archRd
      BY <2>2, <3>1, <3>3, <1>7, <1>o, <1>e, ZenonT(40), SMTT(30) DEF e
    <3> QED
      BY <3>2, <3>3
  <2>6. ASSUME NEW t \in Tags, Writer(r, t, n - 1), NEW u \in Tags, Writer(r, u, n - 1), u # t
        PROVE  r.entries[u].newPhys # r.entries[t].newPhys
    BY <2>1, <2>6, <1>6, <1>o
  <2> QED
    BY <2>3, <2>4, <2>5, <2>6, <1>1, ZenonT(40), SMTT(30) DEF OwnersDistinctIn
<1>15. FreeListExactIn(r)
  <2>1. \A p \in PhysRegs : Held(r, p, n - 1) <=> Held(s, p, (n - 1) + 1) /\ p \notin freed
    BY <1>10, <1>e
  <2>2. (n - 1) + 1 = n
    BY <1>e
  <2>3. \A p \in PhysRegs : p \in s.freeMask <=> ~Held(s, p, n)
    BY DEF IInv, FreeListExactIn, n
  <2> QED
    BY <2>1, <2>2, <2>3, <1>1, ZenonT(40), SMTT(30) DEF FreeListExactIn
<1>16. SpeculativeMapExactIn(r)
  <2>1. (n - 1) + 1 = n
    BY <1>e
  <2>2. \A a \in ArchRegs : MapsTo(s, s.speculativeMap[a], a, n)
    BY DEF IInv, SpeculativeMapExactIn, n
  <2> QED
    BY <2>1, <2>2, <1>1, <1>9, <1>11 DEF SpeculativeMapExactIn
<1>17. ASSUME NEW t \in Tags, InFlight(r, t)
       PROVE  /\ InFlight(s, t) /\ t # H /\ r.entries[t] = s.entries[t]
              /\ Age(r, t) \in 0..Depth /\ Age(r, t) + 1 \in 0..(n - 1)
              /\ Age(r, t) + 1 \in 0..Depth
              /\ Age(s, t) = Age(r, t) + 1
  <2>1. InFlight(s, t) /\ t # H /\ r.entries[t] = s.entries[t]
    BY <1>17, <1>5, <1>6
  <2>2. Age(s, t) \in Tags /\ Age(s, t) > 0 /\ Age(r, t) = Age(s, t) - 1
    BY <2>1, <1>2, <1>4
  <2>3. Age(s, t) < n
    BY <2>1 DEF InFlight, n
  <2> QED
    BY <2>1, <2>2, <2>3, <1>e, SizesAssumption DEF Tags
<1>18. CheckpointsExactIn(r)
  <2> SUFFICES ASSUME NEW t \in Tags, InFlight(r, t), r.entries[t].isBranch
               PROVE  /\ \A a \in ArchRegs : MapsTo(r, r.checkpointMap[t][a], a, Age(r, t) + 1)
                      /\ \A p \in PhysRegs : p \in r.checkpointFreeMask[t] <=>
                                              ~Held(r, p, Age(r, t) + 1)
    BY DEF CheckpointsExactIn
  <2>1. /\ \A a \in ArchRegs : MapsTo(s, s.checkpointMap[t][a], a, Age(s, t) + 1)
        /\ \A p \in PhysRegs : p \in s.checkpointFreeMask[t] <=> ~Held(s, p, Age(s, t) + 1)
    BY <1>17, ZenonT(40), SMTT(30) DEF IInv, CheckpointsExactIn
  <2>2. Age(s, t) + 1 = (Age(r, t) + 1) + 1
    BY <1>17
  <2>3. /\ r.checkpointMap[t] = s.checkpointMap[t]
        /\ r.checkpointFreeMask[t] = s.checkpointFreeMask[t] \cup freed
    BY <1>1
  <2>4. \A a \in ArchRegs : MapsTo(r, r.checkpointMap[t][a], a, Age(r, t) + 1)
    BY <2>1, <2>2, <2>3, <1>9, <1>17, ZenonT(40), SMTT(30)
  <2>5. \A p \in PhysRegs : Held(r, p, Age(r, t) + 1) <=>
                             Held(s, p, Age(s, t) + 1) /\ p \notin freed
    BY <2>2, <1>10, <1>17
  <2> QED
    BY <2>1, <2>3, <2>4, <2>5, ZenonT(40), SMTT(30)
<1>19. OperandsExactIn(r)
  <2> SUFFICES ASSUME NEW t \in Tags, InFlight(r, t)
               PROVE  /\ MapsTo(r, r.entries[t].srcPhys, r.entries[t].rs, Age(r, t))
                      /\ MapsTo(r, r.entries[t].oldPhys, r.entries[t].archRd, Age(r, t))
    BY DEF OperandsExactIn
  <2>1. s.entries[t].rs \in ArchRegs /\ s.entries[t].archRd \in ArchRegs
    BY <1>t DEF TypeIn, EntryType
  <2>2. /\ MapsTo(s, s.entries[t].srcPhys, s.entries[t].rs, Age(r, t) + 1)
        /\ MapsTo(s, s.entries[t].oldPhys, s.entries[t].archRd, Age(r, t) + 1)
    BY <1>17, ZenonT(40), SMTT(30) DEF IInv, OperandsExactIn
  <2> QED
    BY <2>1, <2>2, <1>9, <1>17
<1> QED
  BY <1>12, <1>13, <1>14, <1>15, <1>16, <1>18, <1>19 DEF IInv, r

--------------------------------------------------------------------------------
(* A whole clock.                                                              *)


\* Two entries that renaming cannot tell apart: only complete and exception differ.
SameRenaming(e, f) ==
    /\ e.valid = f.valid /\ e.isBranch = f.isBranch /\ e.archRd = f.archRd
    /\ e.newPhys = f.newPhys /\ e.oldPhys = f.oldPhys
    /\ e.rs = f.rs /\ e.srcPhys = f.srcPhys

SameButCompletions(r, s) ==
    /\ r.freeMask = s.freeMask /\ r.speculativeMap = s.speculativeMap
    /\ r.committedMap = s.committedMap /\ r.checkpointMap = s.checkpointMap
    /\ r.checkpointFreeMask = s.checkpointFreeMask /\ r.headPtr = s.headPtr
    /\ r.tailPtr = s.tailPtr /\ r.entryCount = s.entryCount
    /\ \A t \in Tags : SameRenaming(r.entries[t], s.entries[t])

\* A completion touches nothing that renaming depends on, even when it reaches
\* an entry that retired in the same clock.
LEMMA CompletionInv ==
  ASSUME NEW s, IInv(s), NEW r, TypeIn(r), SameButCompletions(r, s)
  PROVE  IInv(r)
<1> USE DEF SameButCompletions
<1>1. \A t \in Tags : /\ Age(r, t) = Age(s, t) /\ (InFlight(r, t) <=> InFlight(s, t))
                      /\ r.entries[t].newPhys = s.entries[t].newPhys
  BY DEF Age, InFlight, SameRenaming
<1>2. \A t \in Tags : \A a, n : Writes(s, t, a, n) <=> Writes(r, t, a, n)
  BY <1>1 DEF Writes, SameRenaming
<1>3. \A t \in Tags : \A n : Writer(s, t, n) <=> Writer(r, t, n)
  BY <1>1 DEF Writer, SameRenaming
<1>4. \A p, a, n : MapsTo(s, p, a, n) <=> MapsTo(r, p, a, n)
  BY <1>1, <1>2, MapsToAgree
<1>5. \A p, n : Held(s, p, n) <=> Held(r, p, n)
  BY <1>1, <1>3, HeldAgree
<1>6. RingExactIn(r)
  BY <1>1, ZenonT(40), SMTT(30) DEF IInv, RingExactIn, SameRenaming
<1>7. OwnersDistinctIn(r)
  BY <1>1, <1>3, SMTT(60) DEF IInv, OwnersDistinctIn
<1>8. FreeListExactIn(r)
  BY <1>5, ZenonT(40), SMTT(30) DEF IInv, FreeListExactIn
<1>9. SpeculativeMapExactIn(r)
  <2>1. SpeculativeMapExactIn(s)
    BY DEF IInv
  <2> QED BY <2>1, <1>4 DEF SpeculativeMapExactIn
<1>10. CheckpointsExactIn(r)
  <2>1. SUFFICES ASSUME NEW t \in Tags, InFlight(r, t), r.entries[t].isBranch
                 PROVE  /\ \A a \in ArchRegs : MapsTo(r, r.checkpointMap[t][a], a, Age(r, t) + 1)
                        /\ \A p \in PhysRegs :
                              p \in r.checkpointFreeMask[t] <=> ~Held(r, p, Age(r, t) + 1)
    BY ZenonT(40), SMTT(30) DEF CheckpointsExactIn
  <2>2. InFlight(s, t) /\ s.entries[t].isBranch /\ Age(r, t) = Age(s, t)
    BY <2>1, <1>1 DEF SameRenaming
  <2>3. /\ \A a \in ArchRegs : MapsTo(s, s.checkpointMap[t][a], a, Age(s, t) + 1)
        /\ \A p \in PhysRegs :
              p \in s.checkpointFreeMask[t] <=> ~Held(s, p, Age(s, t) + 1)
    BY <2>2, ZenonT(40), SMTT(30) DEF IInv, CheckpointsExactIn
  <2> QED BY <2>2, <2>3, <1>4, <1>5, ZenonT(40), SMTT(30)
<1>11. OperandsExactIn(r)
  <2> SUFFICES ASSUME NEW t \in Tags, InFlight(r, t)
               PROVE  /\ MapsTo(r, r.entries[t].srcPhys, r.entries[t].rs, Age(r, t))
                      /\ MapsTo(r, r.entries[t].oldPhys, r.entries[t].archRd, Age(r, t))
    BY DEF OperandsExactIn
  <2>1. InFlight(s, t) /\ Age(r, t) = Age(s, t)
    BY <1>1
  <2>2. /\ r.entries[t].srcPhys = s.entries[t].srcPhys /\ r.entries[t].rs = s.entries[t].rs
        /\ r.entries[t].oldPhys = s.entries[t].oldPhys
        /\ r.entries[t].archRd = s.entries[t].archRd
    BY DEF SameRenaming
  <2>3. OperandsExactIn(s)
    BY DEF IInv
  <2>4. /\ MapsTo(s, s.entries[t].srcPhys, s.entries[t].rs, Age(s, t))
        /\ MapsTo(s, s.entries[t].oldPhys, s.entries[t].archRd, Age(s, t))
    BY <2>1, <2>3 DEF OperandsExactIn
  <2> HIDE DEF SameButCompletions
  <2> QED BY <2>1, <2>2, <2>4, <1>4
<1> QED
  BY <1>6, <1>7, <1>8, <1>9, <1>10, <1>11 DEF IInv

\* r is what a recovery at tag makes of s.
IsPrefix(r, s, tag) ==
    /\ InFlight(s, tag) /\ s.entries[tag].isBranch
    /\ r.freeMask = s.checkpointFreeMask[tag]
    /\ r.speculativeMap = s.checkpointMap[tag]
    /\ r.committedMap = s.committedMap /\ r.headPtr = s.headPtr
    /\ r.entryCount = Age(s, tag) + 1 /\ r.tailPtr = addPtr(s.headPtr, Age(s, tag) + 1)
    /\ \A t \in Tags : InFlight(s, t) =>
          /\ r.checkpointMap[t] = s.checkpointMap[t]
          /\ r.checkpointFreeMask[t] = s.checkpointFreeMask[t]
    /\ \A t \in Tags : Age(s, t) <= Age(s, tag) => SameRenaming(r.entries[t], s.entries[t])
    /\ \A t \in Tags : Age(s, t) > Age(s, tag) => ~r.entries[t].valid

\* A recovery leaves the prefix of the ROB that ends with the branch; the
\* branch's checkpoint is the map and the free list of that prefix.
LEMMA PrefixInv ==
  ASSUME NEW s, IInv(s), NEW r, TypeIn(r), NEW tag \in Tags, IsPrefix(r, s, tag)
  PROVE  IInv(r)
<1>0. /\ InFlight(s, tag) /\ s.entries[tag].isBranch
      /\ r.freeMask = s.checkpointFreeMask[tag]
      /\ r.speculativeMap = s.checkpointMap[tag]
      /\ r.committedMap = s.committedMap /\ r.headPtr = s.headPtr
      /\ r.entryCount = Age(s, tag) + 1 /\ r.tailPtr = addPtr(s.headPtr, Age(s, tag) + 1)
  BY ZenonT(40), SMTT(30) DEF IsPrefix
<1>c. \A t \in Tags : InFlight(s, t) =>
         /\ r.checkpointMap[t] = s.checkpointMap[t]
         /\ r.checkpointFreeMask[t] = s.checkpointFreeMask[t]
  BY ZenonT(40), SMTT(30) DEF IsPrefix
<1>k. /\ \A t \in Tags : Age(s, t) <= Age(s, tag) => SameRenaming(r.entries[t], s.entries[t])
      /\ \A t \in Tags : Age(s, t) > Age(s, tag) => ~r.entries[t].valid
  BY ZenonT(40), SMTT(30) DEF IsPrefix
<1> DEFINE k == Age(s, tag) + 1
<1>t. s.headPtr \in Tags /\ s.entryCount \in 0..Depth
  BY ZenonT(40), SMTT(30) DEF IInv, TypeIn
<1>1. \A t \in Tags : Age(r, t) = Age(s, t) /\ Age(s, t) \in Tags
  BY <1>0, <1>t, AgeFacts, ZenonT(40), SMTT(30) DEF Age
<1>2. /\ k \in Nat /\ k <= s.entryCount
      /\ \A t \in Tags : Age(s, t) \in Nat
      /\ \A t \in Tags : Age(s, t) < k <=> Age(s, t) <= Age(s, tag)
  BY <1>0, <1>1, <1>t, SMTT(60) DEF InFlight, Tags
<1>3. /\ r.entryCount = k
      /\ \A t \in Tags : InFlight(r, t) <=> Age(s, t) < k
      /\ \A t \in Tags : InFlight(r, t) => InFlight(s, t)
      /\ \A t \in Tags : InFlight(r, t) => SameRenaming(r.entries[t], s.entries[t])
  BY <1>0, <1>1, <1>2, <1>k, <1>t, SMTT(60) DEF InFlight
<1> HIDE DEF k
<1>4. \A t \in Tags : \A a, m : m \in 0..k => (Writes(s, t, a, m) <=> Writes(r, t, a, m))
  BY <1>1, <1>2, <1>3, SMTT(60) DEF Writes, SameRenaming
<1>5. \A t \in Tags : \A m : m \in 0..k => (Writer(s, t, m) <=> Writer(r, t, m))
  BY <1>1, <1>2, <1>3, SMTT(60) DEF Writer, SameRenaming
<1>6. ASSUME NEW p, NEW a, NEW m \in 0..k PROVE MapsTo(s, p, a, m) <=> MapsTo(r, p, a, m)
  <2>0. \A t \in Tags : Writes(s, t, a, m) => InFlight(r, t)
    BY <1>4, ZenonT(40), SMTT(30) DEF Writes
  <2>1. \A t \in Tags : Writes(s, t, a, m) => s.entries[t].newPhys = r.entries[t].newPhys
    BY <2>0, <1>3 DEF SameRenaming
  <2> QED
    BY <2>1, <1>0, <1>1, <1>4, MapsToAgree, ZenonT(40), SMTT(30)
<1>7. ASSUME NEW p, NEW m \in 0..k PROVE Held(s, p, m) <=> Held(r, p, m)
  <2>1. \A t \in Tags : Writer(s, t, m) => s.entries[t].newPhys = r.entries[t].newPhys
    BY <1>3, <1>5, ZenonT(40), SMTT(30) DEF Writer, SameRenaming
  <2> QED
    BY <2>1, <1>0, <1>5, HeldAgree, ZenonT(40), SMTT(30)
<1>8. k \in 0..k
  BY <1>2
<1>9. RingExactIn(r)
  <2>1. \A t \in Tags : s.entries[t].valid <=> InFlight(s, t)
    BY DEF IInv, RingExactIn
  <2>2. \A t \in Tags : r.entries[t].valid <=> InFlight(r, t)
    BY <2>1, <1>2, <1>3, <1>k DEF SameRenaming
  <2> QED
    BY <2>2, <1>0 DEF RingExactIn
<1>10. OwnersDistinctIn(r)
  <2>1. \A t \in Tags : Writer(r, t, k) =>
           Writer(s, t, s.entryCount) /\ r.entries[t].newPhys = s.entries[t].newPhys
    BY <1>1, <1>2, <1>3, ZenonT(40), SMTT(30) DEF Writer, SameRenaming, InFlight
  <2>2. OwnersDistinctIn(s)
    BY DEF IInv
  <2>3. r.committedMap = s.committedMap /\ r.entryCount = k
    BY <1>0, <1>3, ZenonT(40), SMTT(30)
  <2> QED
    BY <2>1, <2>2, <2>3, ZenonT(40), SMTT(30) DEF OwnersDistinctIn
<1>11. /\ \A a \in ArchRegs : MapsTo(s, s.checkpointMap[tag][a], a, k)
       /\ \A p \in PhysRegs : p \in s.checkpointFreeMask[tag] <=> ~Held(s, p, k)
  BY <1>0, ZenonT(40), SMTT(30) DEF IInv, CheckpointsExactIn, k
<1>12. FreeListExactIn(r)
  BY <1>0, <1>3, <1>7, <1>8, <1>11, ZenonT(40), SMTT(30) DEF FreeListExactIn
<1>13. SpeculativeMapExactIn(r)
  BY <1>0, <1>3, <1>6, <1>8, <1>11, ZenonT(40), SMTT(30) DEF SpeculativeMapExactIn
<1>14. ASSUME NEW t \in Tags, InFlight(r, t)
       PROVE  Age(r, t) = Age(s, t) /\ Age(s, t) \in 0..k /\ Age(s, t) + 1 \in 0..k
  BY <1>14, <1>1, <1>2, <1>3, SMTT(60)
<1>15. CheckpointsExactIn(r)
  <2> SUFFICES ASSUME NEW t \in Tags, InFlight(r, t), r.entries[t].isBranch
               PROVE  /\ \A a \in ArchRegs : MapsTo(r, r.checkpointMap[t][a], a, Age(r, t) + 1)
                      /\ \A p \in PhysRegs : p \in r.checkpointFreeMask[t] <=>
                                              ~Held(r, p, Age(r, t) + 1)
    BY ZenonT(40), SMTT(30) DEF CheckpointsExactIn
  <2>1. /\ \A a \in ArchRegs : MapsTo(s, s.checkpointMap[t][a], a, Age(s, t) + 1)
        /\ \A p \in PhysRegs : p \in s.checkpointFreeMask[t] <=> ~Held(s, p, Age(s, t) + 1)
    BY <1>3, ZenonT(40), SMTT(30) DEF IInv, CheckpointsExactIn, SameRenaming
  <2> QED
    BY <2>1, <1>3, <1>6, <1>7, <1>14, <1>c, ZenonT(40), SMTT(30)
<1>16. OperandsExactIn(r)
  <2> SUFFICES ASSUME NEW t \in Tags, InFlight(r, t)
               PROVE  /\ MapsTo(r, r.entries[t].srcPhys, r.entries[t].rs, Age(r, t))
                      /\ MapsTo(r, r.entries[t].oldPhys, r.entries[t].archRd, Age(r, t))
    BY ZenonT(40), SMTT(30) DEF OperandsExactIn
  <2>1. /\ MapsTo(s, s.entries[t].srcPhys, s.entries[t].rs, Age(s, t))
        /\ MapsTo(s, s.entries[t].oldPhys, s.entries[t].archRd, Age(s, t))
    BY <1>3, ZenonT(40), SMTT(30) DEF IInv, OperandsExactIn
  <2> QED
    BY <2>1, <1>3, <1>6, <1>14, ZenonT(40), SMTT(30) DEF SameRenaming
<1> QED
  BY <1>9, <1>10, <1>12, <1>13, <1>15, <1>16 DEF IInv

--------------------------------------------------------------------------------

\* Both lanes of a dispatch group.  The group never touches a tag that is in
\* flight, so the checkpoints of in-flight branches stay.
LEMMA RenameGroupInv ==
  ASSUME NEW s, IInv(s), NEW lane0 \in Lane0s, NEW lane1 \in Lane1s
  PROVE  /\ IInv(RenameGroup(s, lane0, lane1))
         /\ RenameGroup(s, lane0, lane1).entryCount >= s.entryCount
<1> DEFINE mid == IF accept0(s, lane0) THEN RenameLane(s, lane0) ELSE s
           accept1 == /\ lane1.valid
                      /\ lane0.valid => accept0(s, lane0)
                      /\ laneHasResources(mid, lane1)
<1>1. RenameGroup(s, lane0, lane1) = IF accept1 THEN RenameLane(mid, lane1) ELSE mid
  BY DEF RenameGroup
<1>2. /\ lane0.valid => lane0 \in Instrs
      /\ lane1.valid => lane1 \in Instrs
  BY DEF Lane0s, Lane1s, Bubble
<1>3. \A q, lane : RenameLane(q, lane).entryCount = q.entryCount + 1
  BY ZenonT(40), SMTT(30) DEF RenameLane
<1>4. \A q : IInv(q) => q.entryCount \in Nat
  <2>1. \A q : IInv(q) => q.entryCount \in 0..Depth
    BY ZenonT(40), SMTT(30) DEF IInv, TypeIn
  <2> QED
    BY <2>1, SizesAssumption, SMTT(60)
<1>5. IInv(mid)
  BY <1>2, RenameLaneInv DEF accept0
<1>6. mid.entryCount >= s.entryCount
  BY <1>3, <1>4
<1>7. accept1 => lane1 \in Instrs /\ laneHasResources(mid, lane1)
  BY <1>2
<1> HIDE DEF mid, accept1
<1>8. CASE accept1
  BY <1>1, <1>3, <1>4, <1>5, <1>6, <1>7, <1>8, RenameLaneInv
<1>9. CASE ~accept1
  BY <1>1, <1>5, <1>6, <1>9
<1> QED
  BY <1>8, <1>9

\* A checkpoint taken while recovery or a trap discards the dispatched lane
\* lands on the tag at the tail, which no in-flight branch holds.
LEMMA DiscardedDispatch ==
  ASSUME NEW s, IInv(s), NEW lane0 \in Lane0s, NEW t \in Tags, InFlight(s, t)
  PROVE  /\ RenameGroup(s, lane0, Bubble).checkpointMap[t] = s.checkpointMap[t]
         /\ RenameGroup(s, lane0, Bubble).checkpointFreeMask[t] = s.checkpointFreeMask[t]
<1>1. RenameGroup(s, lane0, Bubble) = IF accept0(s, lane0) THEN RenameLane(s, lane0) ELSE s
  BY DEF RenameGroup, Bubble
<1>2. accept0(s, lane0) => s.entryCount < Depth
  BY DEF accept0, laneHasResources
<1>3. ASSUME s.entryCount < Depth PROVE t # s.tailPtr
  <2>1. /\ s.headPtr \in Tags /\ s.entryCount \in 0..Depth
        /\ s.tailPtr = addPtr(s.headPtr, s.entryCount)
    BY ZenonT(40), SMTT(30) DEF IInv, TypeIn, RingExactIn
  <2>2. Age(s, s.tailPtr) = s.entryCount
    BY <2>1, <1>3, AgeFacts
  <2> QED
    BY <2>1, <2>2, SizesAssumption, SMTT(60) DEF InFlight
<1>4. s.checkpointMap \in [Tags -> [ArchRegs -> PhysRegs]]
      /\ s.checkpointFreeMask \in [Tags -> SUBSET PhysRegs]
  BY ZenonT(40), SMTT(30) DEF IInv, TypeIn
<1> QED
  BY <1>1, <1>2, <1>3, <1>4, SMTT(60) DEF RenameLane

\* The lanes that retire were in the ROB before the clock's dispatch.
LEMMA RetireGroupInv ==
  ASSUME NEW before, before.entryCount \in Nat, NEW s, IInv(s),
         s.entryCount >= before.entryCount, NEW ready
  PROVE  IInv(RetireGroup(before, s, ready))
<1>1. retires1(before, ready) => before.entryCount > 1
  BY DEF retires1, commitComplete
<1>2. retires0(before, ready) => before.entryCount > 0
  BY DEF retires0, commitComplete
<1>3. s.entryCount \in Nat
  <2>1. s.entryCount \in 0..Depth
    BY ZenonT(40), SMTT(30) DEF IInv, TypeIn
  <2> QED
    BY <2>1, SizesAssumption, SMTT(60)
<1>4. s.entryCount > 0 => IInv(RetireHead(s)) /\ RetireHead(s).entryCount = s.entryCount - 1
  BY RetireHeadInv, ZenonT(40), SMTT(30) DEF RetireHead
<1>5. s.entryCount > 1 => IInv(RetireHead(RetireHead(s)))
  BY <1>3, <1>4, RetireHeadInv
<1> QED
  BY <1>1, <1>2, <1>3, <1>4, <1>5 DEF RetireGroup

\* What CompleteEntries leaves alone.
LEMMA CompleteEntriesSame ==
  ASSUME NEW before, NEW after \in [Tags -> EntryType], NEW done, NEW faults
  PROVE  /\ CompleteEntries(before, after, done, faults) \in [Tags -> EntryType]
         /\ \A t \in Tags :
              SameRenaming(CompleteEntries(before, after, done, faults)[t], after[t])
<1>1. \A t \in Tags : CompleteEntries(before, after, done, faults)[t] =
         IF t \in done /\ before[t].valid
         THEN [after[t] EXCEPT !.complete = TRUE, !.exception = (t \in faults)]
         ELSE after[t]
  BY DEF CompleteEntries
<1>2. ASSUME NEW e \in EntryType, NEW b \in BOOLEAN
      PROVE  /\ [e EXCEPT !.complete = TRUE, !.exception = b] \in EntryType
             /\ SameRenaming([e EXCEPT !.complete = TRUE, !.exception = b], e)
  BY ZenonT(40), SMTT(30) DEF EntryType, SameRenaming
<1>3. \A e : SameRenaming(e, e)
  BY DEF SameRenaming
<1>4. \A t \in Tags : /\ CompleteEntries(before, after, done, faults)[t] \in EntryType
                      /\ SameRenaming(CompleteEntries(before, after, done, faults)[t], after[t])
  <2> SUFFICES ASSUME NEW t \in Tags
               PROVE  /\ CompleteEntries(before, after, done, faults)[t] \in EntryType
                      /\ SameRenaming(CompleteEntries(before, after, done, faults)[t], after[t])
    OBVIOUS
  <2>1. after[t] \in EntryType /\ (t \in faults) \in BOOLEAN
    OBVIOUS
  <2> QED
    BY <2>1, <1>1, <1>2, <1>3, ZenonT(40), SMTT(30)
<1>5. CompleteEntries(before, after, done, faults)
        = [t \in Tags |-> CompleteEntries(before, after, done, faults)[t]]
  BY DEF CompleteEntries
<1> QED
  BY <1>4, <1>5

--------------------------------------------------------------------------------

LEMMA InitInv == Init => IInv(State)
<1> SUFFICES ASSUME Init PROVE IInv(State)
  OBVIOUS
<1>1. /\ State.freeMask = {p \in PhysRegs : p >= ArchNum}
      /\ State.speculativeMap = [a \in ArchRegs |-> a]
      /\ State.committedMap = [a \in ArchRegs |-> a]
      /\ State.checkpointMap = [t \in Tags |-> [a \in ArchRegs |-> a]]
      /\ State.checkpointFreeMask = [t \in Tags |-> {p \in PhysRegs : p >= ArchNum}]
      /\ State.entries = [t \in Tags |-> EmptyEntry]
      /\ State.headPtr = 0 /\ State.tailPtr = 0 /\ State.entryCount = 0
  BY ZenonT(40), SMTT(30) DEF Init, State
<1>2. /\ ArchRegs \subseteq PhysRegs /\ 0 \in ArchRegs /\ 0 \in PhysRegs
      /\ 0 \in Tags /\ 0 \in 0..Depth /\ addPtr(0, 0) = 0
  BY SizesAssumption DEF ArchRegs, PhysRegs, Tags, addPtr
<1>3. EmptyEntry \in EntryType /\ EmptyEntry.valid = FALSE
  BY <1>2 DEF EmptyEntry, EntryType
<1>4. TypeIn(State)
  BY <1>1, <1>2, <1>3 DEF TypeIn
<1>5. \A t \in Tags : ~InFlight(State, t)
  BY <1>1 DEF InFlight, Age, Tags
<1>6. \A t \in Tags : \A a, n : ~Writes(State, t, a, n) /\ ~Writer(State, t, n)
  BY <1>5 DEF Writes, Writer
<1>7. \A p, n : Held(State, p, n) <=> p \in ArchRegs
  BY <1>1, <1>6, ZenonT(40), SMTT(30) DEF Held
<1>8. \A p \in PhysRegs : p >= ArchNum <=> p \notin ArchRegs
  BY SizesAssumption DEF ArchRegs, PhysRegs
<1>9. FreeListExactIn(State)
  BY <1>1, <1>7, <1>8 DEF FreeListExactIn
<1>10. SpeculativeMapExactIn(State)
  BY <1>1, <1>6, ZenonT(40), SMTT(30) DEF SpeculativeMapExactIn, MapsTo
<1>11. OwnersDistinctIn(State)
  BY <1>1, <1>2, <1>6, SMTT(60) DEF OwnersDistinctIn
<1>12. CheckpointsExactIn(State) /\ OperandsExactIn(State)
  BY <1>5, ZenonT(40), SMTT(30) DEF CheckpointsExactIn, OperandsExactIn
<1>13. RingExactIn(State)
  BY <1>1, <1>2, <1>3, <1>5 DEF RingExactIn
<1> QED
  BY <1>4, <1>9, <1>10, <1>11, <1>12, <1>13 DEF IInv

LEMMA ClockInv ==
  ASSUME IInv(State), NEW lane0 \in Lane0s, NEW lane1 \in Lane1s, NEW ready,
         Clock(lane0, lane1, ready)
  PROVE  IInv(State')
<1> DEFINE g == RenameGroup(State, lane0, lane1)
           s == RetireGroup(State, g, ready)
<1>1. IInv(g) /\ g.entryCount >= State.entryCount
  BY RenameGroupInv
<1>2. State.entryCount \in Nat
  <2>1. State.entryCount \in 0..Depth
    BY ZenonT(40), SMTT(30) DEF IInv, TypeIn
  <2> QED
    BY <2>1, SizesAssumption, SMTT(60)
<1> HIDE DEF g
<1>3. IInv(s)
  BY <1>1, <1>2, RetireGroupInv, ZenonT(40), SMTT(30)
<1>4. /\ State'.freeMask = s.freeMask /\ State'.speculativeMap = s.speculativeMap
      /\ State'.committedMap = s.committedMap /\ State'.checkpointMap = s.checkpointMap
      /\ State'.checkpointFreeMask = s.checkpointFreeMask
      /\ State'.headPtr = s.headPtr /\ State'.tailPtr = s.tailPtr
      /\ State'.entryCount = s.entryCount
  BY ZenonT(40), SMTT(30) DEF Clock, State, g
<1>p. PICK done, faults : State'.entries = CompleteEntries(entries, s.entries, done, faults)
  BY ZenonT(40), SMTT(30) DEF Clock, State, g
<1> HIDE DEF s
<1>5. TypeIn(s) /\ s.entries \in [Tags -> EntryType]
  BY <1>3, ZenonT(40), SMTT(30) DEF IInv, TypeIn
<1>6. /\ State'.entries \in [Tags -> EntryType]
      /\ \A t \in Tags : SameRenaming(State'.entries[t], s.entries[t])
  BY <1>p, <1>5, CompleteEntriesSame, SMTT(60)
<1>7. TypeIn(State')
  BY <1>4, <1>5, <1>6, ZenonT(40), SMTT(30) DEF TypeIn
<1>8. SameButCompletions(State', s)
  BY <1>4, <1>6, ZenonT(40), SMTT(30) DEF SameButCompletions
<1> QED
  BY <1>3, <1>7, <1>8, CompletionInv

LEMMA RecoverInv ==
  ASSUME IInv(State), NEW tag \in Tags, NEW lane0 \in Lane0s, Recover(tag, lane0)
  PROVE  IInv(State')
<1> DEFINE d == RenameGroup(State, lane0, Bubble)
           k == Age(State, tag) + 1
<1>t. TypeIn(State)
  BY DEF IInv
<1>e. entries \in [Tags -> EntryType] /\ State.entries = entries
  BY <1>t, ZenonT(40), SMTT(30) DEF TypeIn, State
<1>1. InFlight(State, tag) /\ State.entries[tag].isBranch
  BY DEF IInv, RingExactIn, Recover, State
<1>2. IInv(d)
  <2>1. Bubble \in Lane1s
    BY DEF Lane1s
  <2> QED
    BY <2>1, RenameGroupInv
<1>3. \A t \in Tags : InFlight(State, t) =>
         d.checkpointMap[t] = State.checkpointMap[t]
           /\ d.checkpointFreeMask[t] = State.checkpointFreeMask[t]
  BY DiscardedDispatch, ZenonT(40), SMTT(30)
<1>4. /\ State'.freeMask = State.checkpointFreeMask[tag]
      /\ State'.speculativeMap = State.checkpointMap[tag]
      /\ State'.committedMap = State.committedMap
      /\ State'.checkpointMap = d.checkpointMap
      /\ State'.checkpointFreeMask = d.checkpointFreeMask
      /\ State'.headPtr = State.headPtr /\ State'.tailPtr = addPtr(State.headPtr, k)
      /\ State'.entryCount = k
  BY DEF Recover, State, restoredMap
<1>p. PICK done, faults :
        State'.entries = [t \in Tags |->
          IF t \in recoverYoungerMask(State, tag) THEN EmptyEntry
          ELSE IF t = tag THEN [entries[t] EXCEPT !.complete = TRUE]
          ELSE CompleteEntries(entries, entries, done, faults)[t]]
  BY DEF Recover, State
<1> DEFINE c == CompleteEntries(entries, entries, done, faults)
<1>5. State'.entries = [t \in Tags |->
          IF t \in recoverYoungerMask(State, tag) THEN EmptyEntry
          ELSE IF t = tag THEN [entries[t] EXCEPT !.complete = TRUE] ELSE c[t]]
  BY <1>p
<1> HIDE DEF d, c, k
<1>6. c \in [Tags -> EntryType] /\ \A t \in Tags : SameRenaming(c[t], entries[t])
  BY <1>e, CompleteEntriesSame, ZenonT(40), SMTT(30) DEF c
<1>7. EmptyEntry \in EntryType /\ EmptyEntry.valid = FALSE
  BY SizesAssumption DEF EmptyEntry, EntryType, ArchRegs, PhysRegs
<1>8. /\ [entries[tag] EXCEPT !.complete = TRUE] \in EntryType
      /\ SameRenaming([entries[tag] EXCEPT !.complete = TRUE], entries[tag])
  BY <1>e, ZenonT(40), SMTT(30) DEF EntryType, SameRenaming
<1>9. State'.entries \in [Tags -> EntryType]
  BY <1>5, <1>6, <1>7, <1>8, ZenonT(40), SMTT(30)
<1>a. \A t \in Tags : Age(State, t) \in Nat
  <2>1. State.headPtr \in Tags /\ State.entryCount \in 0..Depth
    BY <1>t, ZenonT(40), SMTT(30) DEF TypeIn
  <2>2. \A t \in Tags : Age(State, t) \in Tags
    BY <2>1, AgeFacts, ZenonT(40), SMTT(30)
  <2> QED
    BY <2>2, SizesAssumption, SMTT(60) DEF Tags
<1>10. \A t \in Tags : Age(State, t) <= Age(State, tag)
                        => SameRenaming(State'.entries[t], entries[t])
  <2>1. \A t \in Tags : Age(State, t) <= Age(State, tag)
                          => t \notin recoverYoungerMask(State, tag)
    BY <1>a DEF recoverYoungerMask
  <2> QED
    BY <2>1, <1>5, <1>6, <1>8, ZenonT(40), SMTT(30)
<1>11. \A t \in Tags : Age(State, t) > Age(State, tag) => ~State'.entries[t].valid
  <2> SUFFICES ASSUME NEW t \in Tags, Age(State, t) > Age(State, tag)
               PROVE  ~State'.entries[t].valid
    OBVIOUS
  <2>1. CASE InFlight(State, t)
    BY <2>1, <1>5, <1>7 DEF recoverYoungerMask
  <2>2. CASE ~InFlight(State, t)
    <3>1. t # tag /\ t \notin recoverYoungerMask(State, tag)
      BY <2>2, <1>1 DEF recoverYoungerMask
    <3>2. ~entries[t].valid
      BY <2>2, <1>e, ZenonT(40), SMTT(30) DEF IInv, RingExactIn
    <3> QED
      BY <3>1, <3>2, <1>5, <1>6 DEF SameRenaming
  <2> QED
    BY <2>1, <2>2
<1>12. k \in 0..Depth /\ addPtr(State.headPtr, k) \in Tags
  <2>1. /\ State.headPtr \in Tags /\ State.entryCount \in 0..Depth
        /\ Age(State, tag) < State.entryCount
    BY <1>t, <1>1, ZenonT(40), SMTT(30) DEF TypeIn, InFlight
  <2>2. k \in 0..Depth
    BY <2>1, <1>a, SizesAssumption, SMTT(60) DEF k
  <2> QED
    BY <2>1, <2>2, SizesAssumption, SMTT(60) DEF addPtr, Tags
<1>13. TypeIn(State')
  <2>1. /\ d.checkpointMap \in [Tags -> [ArchRegs -> PhysRegs]]
        /\ d.checkpointFreeMask \in [Tags -> SUBSET PhysRegs]
    BY <1>2, ZenonT(40), SMTT(30) DEF IInv, TypeIn
  <2> QED
    BY <2>1, <1>t, <1>4, <1>9, <1>12, ZenonT(40), SMTT(30) DEF TypeIn
<1>14. IsPrefix(State', State, tag)
  BY <1>1, <1>3, <1>4, <1>e, <1>10, <1>11, ZenonT(40), SMTT(30) DEF IsPrefix, k
<1> QED
  BY <1>13, <1>14, PrefixInv

LEMMA TrapInv ==
  ASSUME IInv(State), NEW lane0 \in Lane0s, Trap(lane0)
  PROVE  IInv(State')
<1> DEFINE d == RenameGroup(State, lane0, Bubble)
           m == State.committedMap
<1>t. TypeIn(State)
  BY DEF IInv
<1>1. IInv(d)
  <2>1. Bubble \in Lane1s
    BY DEF Lane1s
  <2> QED
    BY <2>1, RenameGroupInv
<1>2. /\ State'.freeMask = PhysRegs \ ({m[a] : a \in ArchRegs} \cup {0})
      /\ State'.speculativeMap = m /\ State'.committedMap = m
      /\ State'.checkpointMap = d.checkpointMap
      /\ State'.checkpointFreeMask = d.checkpointFreeMask
      /\ State'.entries = [t \in Tags |-> EmptyEntry]
      /\ State'.headPtr = 0 /\ State'.tailPtr = 0 /\ State'.entryCount = 0
  BY ZenonT(40), SMTT(30) DEF Trap, State, committedFreeMask
<1> HIDE DEF d, m
<1>3. /\ 0 \in ArchRegs /\ 0 \in PhysRegs /\ 0 \in Tags /\ 0 \in 0..Depth
      /\ addPtr(0, 0) = 0
  BY SizesAssumption DEF ArchRegs, PhysRegs, Tags, addPtr
<1>4. EmptyEntry \in EntryType /\ EmptyEntry.valid = FALSE
  BY <1>3, ZenonT(40), SMTT(30) DEF EmptyEntry, EntryType
<1>5. /\ m \in [ArchRegs -> PhysRegs] /\ m[0] = 0
      /\ \A a, b \in ArchRegs : m[a] = m[b] => a = b
  BY <1>t, ZenonT(40), SMTT(30) DEF m, TypeIn, IInv, OwnersDistinctIn
<1>6. TypeIn(State')
  <2>1. /\ d.checkpointMap \in [Tags -> [ArchRegs -> PhysRegs]]
        /\ d.checkpointFreeMask \in [Tags -> SUBSET PhysRegs]
    BY <1>1, ZenonT(40), SMTT(30) DEF IInv, TypeIn
  <2> QED
    BY <2>1, <1>2, <1>3, <1>4, <1>5, ZenonT(40), SMTT(30) DEF TypeIn
<1>7. \A t \in Tags : ~InFlight(State', t)
  BY <1>2 DEF InFlight, Age, Tags
<1>8. \A t \in Tags : \A a, n : ~Writes(State', t, a, n) /\ ~Writer(State', t, n)
  BY <1>7 DEF Writes, Writer
<1>9. \A p, n : Held(State', p, n) <=> \E a \in ArchRegs : m[a] = p
  BY <1>2, <1>8, ZenonT(40), SMTT(30) DEF Held
<1>10. FreeListExactIn(State')
  BY <1>2, <1>3, <1>5, <1>9 DEF FreeListExactIn
<1>11. SpeculativeMapExactIn(State')
  BY <1>2, <1>8, ZenonT(40), SMTT(30) DEF SpeculativeMapExactIn, MapsTo
<1>12. OwnersDistinctIn(State')
  BY <1>2, <1>5, <1>8 DEF OwnersDistinctIn
<1>13. CheckpointsExactIn(State') /\ OperandsExactIn(State')
  BY <1>7, ZenonT(40), SMTT(30) DEF CheckpointsExactIn, OperandsExactIn
<1>14. RingExactIn(State')
  BY <1>2, <1>3, <1>4, <1>7 DEF RingExactIn
<1> QED
  BY <1>6, <1>10, <1>11, <1>12, <1>13, <1>14 DEF IInv

LEMMA NextInv == IInv(State) /\ [Next]_vars => IInv(State')
<1> SUFFICES ASSUME IInv(State), [Next]_vars PROVE IInv(State')
  OBVIOUS
<1>1. ASSUME NEW lane0 \in Lane0s, Trap(lane0) PROVE IInv(State')
  BY <1>1, TrapInv
<1>2. ASSUME NEW lane0 \in Lane0s, NEW lane1 \in Lane1s, NEW ready \in {{}, {0}, {0, 1}},
             Clock(lane0, lane1, ready)
      PROVE  IInv(State')
  BY <1>2, ClockInv
<1>3. ASSUME NEW lane0 \in Lane0s, NEW tag \in Tags, Recover(tag, lane0)
      PROVE  IInv(State')
  BY <1>3, RecoverInv
<1>4. CASE UNCHANGED vars
  <2>1. State' = State
    BY <1>4 DEF State, vars
  <2> QED
    BY <2>1
<1> QED
  BY <1>1, <1>2, <1>3, <1>4 DEF Next

--------------------------------------------------------------------------------

\* Renaming is exact in every reachable state, for any number of registers, any
\* ROB depth and any instructions: one owner per physical register, a free list
\* that neither leaks nor double-frees, maps and branch checkpoints equal to
\* what program order prescribes, through mispredictions and traps.
THEOREM RenamingIsExact ==
  Spec => [](TypeOK /\ OwnershipExact /\ MappingsExact)
<1> DEFINE Inv == IInv(State) /\ late \subseteq Tags
<1>1. Init => Inv
  BY InitInv DEF Init
<1>2. Inv /\ [Next]_vars => Inv'
  <2>1. late \subseteq Tags /\ [Next]_vars => (late \subseteq Tags)'
    BY DEF Next, vars, Clock, Recover, Trap
  <2> QED
    BY <2>1, NextInv
<1>3. Inv => TypeOK /\ OwnershipExact /\ MappingsExact
  <2>1. TypeIn(State) /\ late \subseteq Tags => TypeOK
    BY ZenonT(40), SMTT(30) DEF TypeIn, State, TypeOK
  <2> QED
    BY <2>1 DEF IInv, OwnershipExact, MappingsExact
<1> QED
  BY <1>1, <1>2, <1>3, PTL DEF Spec

\* The types of the maps, the free list, the checkpoints and the ROB.
THEOREM TypesHold == Spec => []TypeOK
  BY RenamingIsExact, PTL

\* Every physical register has exactly one owner or is free.
THEOREM OwnershipStaysExact == Spec => []OwnershipExact
  BY RenamingIsExact, PTL

\* A mapped register is an owned one.
LEMMA MappedIsHeld ==
  ASSUME NEW s, IInv(s), NEW p, NEW a \in ArchRegs, NEW n \in Nat, n <= s.entryCount,
         MapsTo(s, p, a, n)
  PROVE  Held(s, p, s.entryCount)
<1>1. \A t \in Tags : Writes(s, t, a, n) => Writer(s, t, s.entryCount)
  BY DEF Writes, Writer, InFlight
<1> QED
  BY <1>1, ZenonT(40), SMTT(30) DEF MapsTo, Held

\* In every reachable state no register that an in-flight instruction still
\* reads, or that the current map names, is on the free list, and no two
\* architectural registers share a physical one.
THEOREM NoRegisterIsReusedEarly == Spec => []NoEarlyReuse
<1> DEFINE Exact == TypeOK /\ OwnershipExact /\ MappingsExact
<1>1. Exact => NoEarlyReuse
  <2> SUFFICES ASSUME Exact PROVE NoEarlyReuse
    OBVIOUS
  <2>t. TypeIn(State)
    BY ZenonT(40), SMTT(30) DEF TypeOK, TypeIn, State
  <2>i. IInv(State)
    BY <2>t DEF IInv, OwnershipExact, MappingsExact
  <2>n. State.entryCount \in Nat /\ State.entryCount <= State.entryCount
    BY <2>t, SizesAssumption DEF TypeIn
  <2>1. \A p \in PhysRegs : Held(State, p, State.entryCount) => p \notin freeMask
    BY ZenonT(40), SMTT(30) DEF OwnershipExact, FreeListExactIn, State
  <2>2. ASSUME NEW t \in Tags, InFlight(State, t) PROVE entries[t].srcPhys \notin freeMask
    <3>1. entries[t].srcPhys \in PhysRegs /\ entries[t].rs \in ArchRegs
      BY DEF TypeOK, EntryType
    <3>2. MapsTo(State, entries[t].srcPhys, entries[t].rs, Age(State, t))
      BY <2>2, ZenonT(40), SMTT(30) DEF MappingsExact, OperandsExactIn, State
    <3>3. Age(State, t) \in Nat /\ Age(State, t) <= State.entryCount
      <4>1. State.headPtr \in Tags /\ State.entryCount \in 0..Depth
        BY <2>t, ZenonT(40), SMTT(30) DEF TypeIn
      <4>2. Age(State, t) \in Tags /\ Age(State, t) < State.entryCount
        BY <4>1, <2>2, <2>n, AgeFacts, SMTT(60) DEF InFlight
      <4> QED
        BY <4>1, <4>2, SizesAssumption, SMTT(60) DEF Tags
    <3> QED
      BY <3>1, <3>2, <3>3, <2>1, <2>i, MappedIsHeld
  <2>3. ASSUME NEW a \in ArchRegs
        PROVE  /\ MapsTo(State, speculativeMap[a], a, State.entryCount)
               /\ speculativeMap[a] \in PhysRegs
    BY ZenonT(40), SMTT(30) DEF MappingsExact, SpeculativeMapExactIn, State, TypeOK
  <2>4. ASSUME NEW a \in ArchRegs PROVE speculativeMap[a] \notin freeMask
    BY <2>1, <2>3, <2>i, <2>n, MappedIsHeld, ZenonT(40), SMTT(30)
  <2>5. ASSUME NEW a \in ArchRegs, NEW b \in ArchRegs, speculativeMap[a] = speculativeMap[b]
        PROVE  a = b
    <3> DEFINE s == State
               n == State.entryCount
    <3>1. \A t \in Tags, c \in ArchRegs :
             Writes(s, t, c, n) => Writer(s, t, n) /\ s.entries[t].archRd = c
      BY DEF Writes, Writer
    <3>2. OwnersDistinctIn(s)
      BY DEF OwnershipExact
    <3>3. MapsTo(s, speculativeMap[a], a, n) /\ MapsTo(s, speculativeMap[a], b, n)
      BY <2>3, <2>5
    <3> HIDE DEF s
    <3> QED
      BY <3>1, <3>2, <3>3, SMTT(60) DEF MapsTo, OwnersDistinctIn, s
  <2> QED
    BY <2>2, <2>4, <2>5 DEF NoEarlyReuse
<1> QED
  BY <1>1, RenamingIsExact, PTL
=============================================================================
