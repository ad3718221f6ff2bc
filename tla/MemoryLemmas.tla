--------------------------- MODULE MemoryLemmas ---------------------------
(* The invariant of MemoryPipeline and what its parts rest on: the rings of the *)
(* ROB and the LSQ under every operation, the replay of the ROB over memory,    *)
(* the value a Load is given, retirement, the Store Buffer and the memory port, *)
(* MMIO, and what the invariant says.  MemoryProofs shows that it is one.       *)
EXTENDS MemoryPipeline, Integers, TLAPS

\* The default provers, with time to spare: the context of the later steps is long.
USE ZenonT(40), SMTT(30)

Maybe(S) == {<<>>} \cup {<<x>> : x \in S}

RobType ==
    [op : Ops, lsqTag : LsqSlots, state : {"iq", "issued", "complete", "exception"},
     produced : BOOLEAN, result : Maybe(Words)]
SlotType ==
    [valid : BOOLEAN, isStore : BOOLEAN, robTag : Tags, access : MemAccess,
     address : Maybe([addr : Addresses, offset : Lanes]), data : Maybe(Words)]
LsqType ==
    [entries : [LsqSlots -> SlotType], headPtr : LsqSlots, tailPtr : LsqSlots,
     entryCount : 0..LsqDepth]
CompletionType == [tag : Tags, exception : BOOLEAN, result : Maybe(Words)]

\* Only cacheable Stores go through the Store Buffer.
StoreType ==
    [addr : {a \in Addresses : ~a.mmio}, offset : Lanes, access : StoreAccess, data : Words]

Unkilled == <<[killed |-> FALSE]>>
Killed == <<[killed |-> TRUE]>>

Types ==
    /\ rob \in Seq(RobType) /\ Len(rob) <= RobDepth /\ robHead \in Tags
    /\ pending \in [Tags -> {None, Unkilled, Killed}] /\ completion \in Maybe(CompletionType)
    /\ queue \in Seq(StoreType) /\ Len(queue) <= SbDepth
    /\ golden \in [Addresses -> Words] /\ arch \in [Addresses -> Words]
    /\ owed \subseteq [id : Tags, values : SUBSET Words] /\ workload \in Workloads

Misaligned(o) == ~Aligned(o.access, o.offset)

\* Slot e is the one of operation u, which has this ROB tag: it has the address
\* since the issue, and the data as soon as both are there.
Holds(e, u, tag) ==
    /\ e.valid /\ e.isStore = u.op.write /\ e.robTag = tag /\ e.access = u.op.access
    /\ e.address = IF u.state = "iq" \/ Misaligned(u.op) THEN NotReady
                   ELSE <<[addr |-> u.op.addr, offset |-> u.op.offset]>>
    /\ e.data \in {NotReady, <<u.op.data>>}
    /\ u.op.write /\ ~Misaligned(u.op) /\ u.state # "iq" /\ (u.produced \/ u.op.x0)
          => e.data = <<u.op.data>>

\* How far slot x is from the head of q.
Dist(q, x) == (x + LsqDepth - q.headPtr) % LsqDepth

\* Every memory operation of the ROB s, whose head has tag h, has a slot of q.
Slotted(s, h, q) ==
    \A i \in 1..Len(s) : isMem(s[i].op) =>
        /\ Dist(q, s[i].lsqTag) < q.entryCount
        /\ Holds(q.entries[s[i].lsqTag], s[i], (h + (i - 1)) % RobDepth)

\* The slots are in program order, and there is nothing else in q.
Ordered(s, q) ==
    \A i, j \in 1..Len(s) :
        i < j /\ isMem(s[i].op) /\ isMem(s[j].op) => Dist(q, s[i].lsqTag) < Dist(q, s[j].lsqTag)
Onto(s, q) ==
    \A k \in 0..(q.entryCount - 1) :
        \E i \in 1..Len(s) : isMem(s[i].op) /\ Dist(q, s[i].lsqTag) = k
Clean(q) == \A x \in LsqSlots : ~(Dist(q, x) < q.entryCount) => ~q.entries[x].valid

\* q holds exactly the memory operations of s, in the same order.
Linked(s, h, q) ==
    /\ q \in LsqType /\ q.tailPtr = lsqAddPtr(q.headPtr, q.entryCount)
    /\ Slotted(s, h, q) /\ Ordered(s, q) /\ Onto(s, q) /\ Clean(q)

\* What the Load at place i must return.
Value(i) == formatLoadData(MemoryBefore(i)[op(i).addr], op(i).access, op(i).offset)

\* A result that is there is the one of an aligned Load, and right.
Right(i, result) == result # None => IsLoad(i) /\ ~misaligned(i) /\ result = <<Value(i)>>

Awaits(i) == IsMemory(i) /\ rob[i].state = "issued"

\* The register that the operation at place i completes from.
Completes(i, c) ==
    /\ c.tag = TagAt(i) /\ Awaits(i) /\ pending[c.tag] # Unkilled
    /\ c.exception = misaligned(i) /\ Right(i, c.result)

ResultsOK ==
    /\ \A i \in 1..Len(rob) :
          /\ Right(i, rob[i].result)
          /\ rob[i].state = "exception" => IsMemory(i) /\ misaligned(i)
          /\ rob[i].state = "complete" /\ IsMemory(i) => ~misaligned(i)
          /\ Awaits(i) => pending[TagAt(i)] = Unkilled
                            \/ (completion # None /\ completion[1].tag = TagAt(i))
    /\ \A t \in Tags : pending[t] = Unkilled =>
          \E i \in 1..Len(rob) : t = TagAt(i) /\ Awaits(i) /\ IsLoad(i) /\ ~misaligned(i)
    /\ completion # None => \E i \in 1..Len(rob) : Completes(i, completion[1])

OwedOK ==
    \A o \in owed :
        /\ pending[o.id] # None
        /\ \A i \in 1..Len(rob) : o.id = TagAt(i) /\ pending[o.id] = Unkilled => o.values = {Value(i)}

IInv ==
    Types /\ Linked(rob, robHead, lsq) /\ ResultsOK /\ OwedOK /\ RetiredStoresConserved

--------------------------------------------------------------------------------
(* Rings.                                                                      *)

\* A number below twice the depth wraps by at most one subtraction.
LEMMA ModIs ==
  ASSUME NEW D \in Nat \ {0}, NEW x \in Nat, x < 2 * D
  PROVE  x % D = IF x < D THEN x ELSE x - D
<1>1. CASE x < D
  BY <1>1, SMTT(60)
<1>2. CASE ~(x < D)
  <2>1. PICK r \in 0..(D - 1) : x = D + r
    BY <1>2, SMTT(60)
  <2>2. (D + r) % D = r
    BY SMTT(60)
  <2> QED
    BY <1>2, <2>1, <2>2, SMTT(60)
<1> QED
  BY <1>1, <1>2

\* The slot k places after h in a ring of depth D, and the way back.
At(D, h, k) == (h + k) % D
Off(D, h, x) == (x + D - h) % D

Ring(D, h) ==
    /\ \A k \in 0..D : At(D, h, k) \in 0..(D - 1)
    /\ \A k \in 0..(D - 1) : Off(D, h, At(D, h, k)) = k
    /\ \A x \in 0..(D - 1) : Off(D, h, x) \in 0..(D - 1) /\ At(D, h, Off(D, h, x)) = x
    /\ \A n, k \in 0..D : n + k <= D => At(D, At(D, h, n), k) = At(D, h, n + k)
    /\ \A n \in 0..D, x \in 0..(D - 1) :
          Off(D, h, x) >= n => Off(D, At(D, h, n), x) = Off(D, h, x) - n

\* Distances and slots correspond, and a head that moves takes them along.
LEMMA RingIs ==
  ASSUME NEW D \in Nat \ {0}, NEW h \in 0..(D - 1)
  PROVE  Ring(D, h)
<1> DEFINE W(x) == IF x < D THEN x ELSE x - D
<1>1. \A x \in Nat : x < 2 * D => x % D = W(x)
  BY ModIs
<1>2. ASSUME NEW g \in 0..(D - 1), NEW k \in 0..D PROVE At(D, g, k) = W(g + k) /\ W(g + k) \in 0..(D - 1)
  <2>1. g + k \in Nat /\ g + k < 2 * D
    BY SMTT(60)
  <2>2. W(g + k) \in 0..(D - 1)
    BY <2>1, SMTT(60)
  <2> QED
    BY <1>1, <2>1, <2>2 DEF At
<1>3. ASSUME NEW g \in 0..(D - 1), NEW x \in 0..(D - 1)
      PROVE Off(D, g, x) = W(x + D - g) /\ W(x + D - g) \in 0..(D - 1)
  <2>1. x + D - g \in Nat /\ x + D - g < 2 * D
    BY SMTT(60)
  <2>2. W(x + D - g) \in 0..(D - 1)
    BY <2>1, SMTT(60)
  <2> QED
    BY <1>1, <2>1, <2>2 DEF Off
<1>4. ASSUME NEW k \in 0..(D - 1) PROVE Off(D, h, At(D, h, k)) = k
  <2>1. k \in 0..D
    BY SMTT(60)
  <2>2. At(D, h, k) = W(h + k) /\ W(h + k) \in 0..(D - 1)
    BY <1>2, <2>1, SMTT(60)
  <2>3. Off(D, h, W(h + k)) = W(W(h + k) + D - h)
    BY <1>3, <2>2, SMTT(60)
  <2>4. W(W(h + k) + D - h) = k
    BY <2>2, SMTT(60)
  <2> QED
    BY <2>2, <2>3, <2>4
<1>5. ASSUME NEW x \in 0..(D - 1) PROVE At(D, h, Off(D, h, x)) = x
  <2>1. Off(D, h, x) = W(x + D - h) /\ W(x + D - h) \in 0..(D - 1) /\ W(x + D - h) \in 0..D
    BY <1>3, SMTT(60)
  <2>2. At(D, h, W(x + D - h)) = W(h + W(x + D - h))
    BY <1>2, <2>1, SMTT(60)
  <2>3. W(h + W(x + D - h)) = x
    BY <2>1, SMTT(60)
  <2> QED
    BY <2>1, <2>2, <2>3
<1>6. ASSUME NEW n \in 0..D, NEW k \in 0..D, n + k <= D PROVE At(D, At(D, h, n), k) = At(D, h, n + k)
  <2>1. At(D, h, n) = W(h + n) /\ W(h + n) \in 0..(D - 1)
    BY <1>2, SMTT(60)
  <2>2. At(D, W(h + n), k) = W(W(h + n) + k)
    BY <1>2, <2>1, SMTT(60)
  <2>3. n + k \in 0..D
    BY <1>6, SMTT(60)
  <2>4. At(D, h, n + k) = W(h + (n + k))
    BY <1>2, <2>3, SMTT(60)
  <2>5. W(W(h + n) + k) = W(h + (n + k))
    BY <1>6, SMTT(60)
  <2> QED
    BY <2>1, <2>2, <2>4, <2>5
<1>7. ASSUME NEW n \in 0..D, NEW x \in 0..(D - 1), Off(D, h, x) >= n
      PROVE Off(D, At(D, h, n), x) = Off(D, h, x) - n
  <2>1. At(D, h, n) = W(h + n) /\ W(h + n) \in 0..(D - 1)
    BY <1>2, SMTT(60)
  <2>2. Off(D, W(h + n), x) = W(x + D - W(h + n))
    BY <1>3, <2>1, SMTT(60)
  <2>3. Off(D, h, x) = W(x + D - h)
    BY <1>3, SMTT(60)
  <2>4. W(x + D - h) >= n => W(x + D - W(h + n)) = W(x + D - h) - n
    BY SMTT(60)
  <2> QED
    BY <1>7, <2>1, <2>2, <2>3, <2>4
<1> HIDE DEF W
<1>8. \A k \in 0..D : At(D, h, k) \in 0..(D - 1)
  BY <1>2
<1>9. \A x \in 0..(D - 1) : Off(D, h, x) \in 0..(D - 1)
  BY <1>3
<1> QED
  BY <1>4, <1>5, <1>6, <1>7, <1>8, <1>9 DEF Ring

LEMMA LsqFields ==
  ASSUME NEW q \in LsqType
  PROVE  /\ LsqDepth \in Nat \ {0} /\ q.headPtr \in LsqSlots /\ q.tailPtr \in LsqSlots
         /\ q.entries \in [LsqSlots -> SlotType]
         /\ q.entryCount \in Nat /\ q.entryCount <= LsqDepth
         /\ LsqSlots = 0..(LsqDepth - 1)
<1>1. q.entryCount \in 0..LsqDepth /\ LsqDepth \in Nat \ {0}
  BY LsqDepthAssumption DEF LsqType
<1>2. q.entryCount \in Nat /\ q.entryCount <= LsqDepth
  BY <1>1, SMTT(60)
<1> QED
  BY <1>1, <1>2 DEF LsqType, LsqSlots

\* Distances and slots of a queue correspond.
LEMMA DistIs ==
  ASSUME NEW q \in LsqType
  PROVE  /\ \A x \in LsqSlots : Dist(q, x) \in 0..(LsqDepth - 1) /\ headTag(q, Dist(q, x)) = x
         /\ \A k \in 0..(LsqDepth - 1) : headTag(q, k) \in LsqSlots /\ Dist(q, headTag(q, k)) = k
         /\ \A x \in LsqSlots : Dist(q, x) \in Nat
<1>1. Ring(LsqDepth, q.headPtr)
  BY LsqFields, RingIs
<1>2. LsqDepth \in Nat \ {0} /\ LsqSlots = 0..(LsqDepth - 1)
  BY LsqFields
<1>3. \A k \in 0..(LsqDepth - 1) : k \in 0..LsqDepth /\ k \in Nat
  BY <1>2, SMTT(60)
<1> QED
  BY <1>1, <1>2, <1>3 DEF Ring, Dist, headTag, lsqAddPtr, At, Off

LEMMA RobFields ==
  ASSUME NEW s \in Seq(RobType)
  PROVE  /\ Len(s) \in Nat
         /\ \A i \in 1..Len(s) :
               /\ s[i] \in RobType /\ s[i].op \in Ops /\ s[i].lsqTag \in LsqSlots
               /\ s[i].state \in {"iq", "issued", "complete", "exception"}
               /\ s[i].produced \in BOOLEAN /\ s[i].result \in Maybe(Words)
<1>1. Len(s) \in Nat /\ \A i \in 1..Len(s) : s[i] \in RobType
  BY SMTT(60)
<1> QED
  BY <1>1 DEF RobType

LEMMA EmptySlotIs == EmptySlot \in SlotType
<1>1. 0 \in Tags
  BY RobDepthAssumption, SMTT(60) DEF Tags
<1>2. NotReady \in Maybe([addr : Addresses, offset : Lanes]) /\ NotReady \in Maybe(Words)
  BY DEF Maybe, NotReady
<1>3. "WORD" \in MemAccess
  BY DEF MemAccess
<1> HIDE DEF NotReady
<1> QED
  BY <1>1, <1>2, <1>3 DEF EmptySlot, SlotType

--------------------------------------------------------------------------------
(* Dispatch.                                                                   *)

NewSlot(tag, o) ==
    [valid |-> TRUE, isStore |-> o.write, robTag |-> tag, access |-> o.access,
     address |-> NotReady, data |-> IF o.write /\ o.x0 THEN <<ZeroWord>> ELSE NotReady]

LEMMA SlotIs ==
  ASSUME NEW tag \in Tags, NEW o \in MemoryOps
  PROVE  NewSlot(tag, o) \in SlotType
<1>1. o.write \in BOOLEAN /\ o.access \in MemAccess
  BY SMTT(60) DEF MemoryOps
<1>2. ZeroWord \in Words
  BY SMTT(60) DEF ZeroWord, Words, Bytes
<1>3. NotReady \in Maybe([addr : Addresses, offset : Lanes])
  BY DEF Maybe, NotReady
<1>4. (IF o.write /\ o.x0 THEN <<ZeroWord>> ELSE NotReady) \in Maybe(Words)
  BY <1>2 DEF Maybe, NotReady
<1> HIDE DEF NotReady
<1> QED
  BY <1>1, <1>3, <1>4 DEF NewSlot, SlotType

\* The LSQ after an allocation.
Allocated(q, tag, o, a) ==
    /\ a \in LsqType
    /\ a.entries = [q.entries EXCEPT ![q.tailPtr] = NewSlot(tag, o)]
    /\ a.headPtr = q.headPtr /\ a.tailPtr = lsqAddPtr(q.tailPtr, 1)
    /\ a.entryCount = q.entryCount + 1

LEMMA AllocatedIs ==
  ASSUME NEW q \in LsqType, q.entryCount < LsqDepth, NEW tag \in Tags, NEW o \in MemoryOps
  PROVE  Allocated(q, tag, o, AllocateSlot(q, tag, o))
<1> DEFINE a == AllocateSlot(q, tag, o)
<1>2. a.entries = [q.entries EXCEPT ![q.tailPtr] = NewSlot(tag, o)]
  BY SMTT(60) DEF AllocateSlot, NewSlot, LsqType
<1>3. a.headPtr = q.headPtr /\ a.tailPtr = lsqAddPtr(q.tailPtr, 1) /\ a.entryCount = q.entryCount + 1
  BY SMTT(60) DEF AllocateSlot, LsqType
<1>4. lsqAddPtr(q.tailPtr, 1) \in LsqSlots /\ q.entryCount + 1 \in 0..LsqDepth
  <2>1. Ring(LsqDepth, q.tailPtr) /\ LsqDepth \in Nat \ {0} /\ LsqSlots = 0..(LsqDepth - 1)
    BY LsqFields, RingIs
  <2>2. 1 \in 0..LsqDepth /\ q.entryCount + 1 \in 0..LsqDepth
    BY <2>1, LsqFields, SMTT(60)
  <2> QED
    BY <2>1, <2>2 DEF Ring, At, lsqAddPtr
<1>5. [q.entries EXCEPT ![q.tailPtr] = NewSlot(tag, o)] \in [LsqSlots -> SlotType]
  BY SlotIs, LsqFields
<1>6. a \in LsqType
  BY <1>4, <1>5 DEF AllocateSlot, LsqType, NewSlot
<1> QED
  BY <1>2, <1>3, <1>6 DEF Allocated

\* t is s with u behind it.
Appended(s, u, t) ==
    /\ Len(s) \in Nat /\ Len(t) = Len(s) + 1
    /\ \A i \in 1..Len(s) : t[i] = s[i]
    /\ t[Len(s) + 1] = u
    /\ \A i : i \in 1..Len(t) <=> i \in 1..Len(s) \/ i = Len(s) + 1

LEMMA AppendIs ==
  ASSUME NEW T, NEW s \in Seq(T), NEW u
  PROVE  Appended(s, u, Append(s, u))
<1>1. Len(s) \in Nat /\ Len(Append(s, u)) = Len(s) + 1
  BY SMTT(60)
<1>2. \A i : i \in 1..Len(Append(s, u)) <=> i \in 1..Len(s) \/ i = Len(s) + 1
  BY <1>1, SMTT(60)
<1> QED
  BY <1>1, <1>2, SMTT(60) DEF Appended

\* A branch has no slot.
LEMMA BranchLinks ==
  ASSUME NEW s \in Seq(RobType), NEW h, NEW q, Linked(s, h, q), NEW u, ~isMem(u.op)
  PROVE  Linked(Append(s, u), h, q)
<1> DEFINE n == Len(s)
           t == Append(s, u)
<1>1. /\ n \in Nat /\ \A i \in 1..n : t[i] = s[i]
      /\ t[n + 1] = u /\ \A i : i \in 1..Len(t) <=> i \in 1..n \/ i = n + 1
  <2>1. Appended(s, u, t)
    BY AppendIs
  <2> QED
    BY <2>1 DEF Appended
<1>2. Slotted(s, h, q) /\ Ordered(s, q) /\ Onto(s, q)
  BY DEF Linked
<1> HIDE DEF t, n
<1>3. Slotted(t, h, q)
  BY <1>1, <1>2 DEF Slotted, n
<1>4. Ordered(t, q)
  BY <1>1, <1>2 DEF Ordered, n
<1>5. Onto(t, q)
  BY <1>1, <1>2 DEF Onto, n
<1> QED
  BY <1>3, <1>4, <1>5 DEF Linked, t

\* A Load or Store takes the slot at the tail.
LEMMA LaneLinks ==
  ASSUME NEW s \in Seq(RobType), NEW h, NEW q, Linked(s, h, q), NEW o \in MemoryOps,
         q.entryCount < LsqDepth, (h + Len(s)) % RobDepth \in Tags
  PROVE  Linked(Append(s, robEntry(o, q.tailPtr)), h, AllocateSlot(q, (h + Len(s)) % RobDepth, o))
<1> DEFINE n == Len(s)
           u == robEntry(o, q.tailPtr)
           t == Append(s, u)
           tag == (h + n) % RobDepth
           a == AllocateSlot(q, tag, o)
           c == q.entryCount
<1>1. /\ n \in Nat /\ \A i \in 1..n : t[i] = s[i]
      /\ t[n + 1] = u /\ \A i : i \in 1..Len(t) <=> i \in 1..n \/ i = n + 1
  <2>1. Appended(s, u, t)
    BY AppendIs
  <2> HIDE DEF t, u
  <2> QED
    BY <2>1 DEF Appended
<1>2. /\ Slotted(s, h, q) /\ Ordered(s, q) /\ Onto(s, q) /\ Clean(q) /\ q \in LsqType
      /\ q.tailPtr = lsqAddPtr(q.headPtr, c)
  BY DEF Linked
<1>3. /\ LsqDepth \in Nat \ {0} /\ q.headPtr \in LsqSlots /\ q.tailPtr \in LsqSlots
      /\ q.entries \in [LsqSlots -> SlotType] /\ c \in Nat /\ LsqSlots = 0..(LsqDepth - 1)
  BY <1>2, LsqFields
<1>4. /\ a \in LsqType /\ a.entries = [q.entries EXCEPT ![q.tailPtr] = NewSlot(tag, o)]
      /\ a.headPtr = q.headPtr /\ a.tailPtr = lsqAddPtr(q.tailPtr, 1)
      /\ a.entryCount = c + 1
  <2>1. Allocated(q, tag, o, a)
    BY <1>2, AllocatedIs
  <2> HIDE DEF a
  <2> QED
    BY <2>1 DEF Allocated
<1>5. \A x : Dist(a, x) = Dist(q, x)
  BY <1>4 DEF Dist
<1>6. Dist(q, q.tailPtr) = c
  <2>1. c \in 0..(LsqDepth - 1)
    BY <1>3, SMTT(60)
  <2>2. headTag(q, c) = q.tailPtr
    BY <1>2 DEF headTag
  <2> HIDE DEF c
  <2> QED
    BY <2>1, <2>2, <1>2, DistIs
<1>7. u.op = o /\ u.lsqTag = q.tailPtr /\ u.state = "iq" /\ isMem(o)
  BY SMTT(60) DEF robEntry, MemoryOps, isMem
<1>8. /\ a.entries[q.tailPtr] = NewSlot(tag, o)
      /\ \A x \in LsqSlots : x # q.tailPtr => a.entries[x] = q.entries[x]
  BY <1>3, <1>4
<1>9. ASSUME NEW i \in 1..n, isMem(s[i].op)
      PROVE  /\ s[i].lsqTag \in LsqSlots /\ s[i].lsqTag # q.tailPtr /\ Dist(q, s[i].lsqTag) < c
             /\ Dist(q, s[i].lsqTag) \in Nat
  <2>1. s[i] \in RobType
    BY <1>9, SMTT(60)
  <2>2. s[i].lsqTag \in LsqSlots
    BY <2>1 DEF RobType
  <2>3. Dist(q, s[i].lsqTag) < c
    BY <1>2, <1>9 DEF Slotted
  <2>4. Dist(q, s[i].lsqTag) \in Nat
    BY <1>2, <2>2, DistIs
  <2>5. Dist(q, s[i].lsqTag) # c
    BY <2>3, <2>4, <1>3, SMTT(60)
  <2> QED
    BY <2>2, <2>3, <2>4, <2>5, <1>6
<1>10. Holds(NewSlot(tag, o), u, tag)
  <2>1. o.write /\ o.x0 => o.data = ZeroWord
    BY SMTT(60) DEF MemoryOps
  <2>2. /\ NewSlot(tag, o).valid = TRUE /\ NewSlot(tag, o).isStore = o.write
        /\ NewSlot(tag, o).robTag = tag /\ NewSlot(tag, o).access = o.access
        /\ NewSlot(tag, o).address = NotReady
        /\ NewSlot(tag, o).data = IF o.write /\ o.x0 THEN <<ZeroWord>> ELSE NotReady
    BY DEF NewSlot
  <2> HIDE DEF u
  <2> QED
    BY <2>1, <2>2, <1>7 DEF Holds
<1>11. tag = (h + ((n + 1) - 1)) % RobDepth
  <2>1. (n + 1) - 1 = n
    BY <1>1, SMTT(60)
  <2> QED
    BY <2>1
<1> HIDE DEF n, u, t, a, c
<1>12. Slotted(t, h, a)
  <2> SUFFICES ASSUME NEW i \in 1..Len(t), isMem(t[i].op)
               PROVE  /\ Dist(a, t[i].lsqTag) < a.entryCount
                      /\ Holds(a.entries[t[i].lsqTag], t[i], (h + (i - 1)) % RobDepth)
    BY DEF Slotted
  <2>1. CASE i \in 1..n
    <3>1. t[i] = s[i]
      BY <1>1, <2>1
    <3>2. Dist(q, s[i].lsqTag) < c + 1
      BY <1>3, <1>9, <2>1, <3>1, SMTT(60)
    <3>3. a.entries[s[i].lsqTag] = q.entries[s[i].lsqTag]
      BY <1>8, <1>9, <2>1, <3>1
    <3>4. Holds(q.entries[s[i].lsqTag], s[i], (h + (i - 1)) % RobDepth)
      BY <1>2, <2>1, <3>1 DEF Slotted, n
    <3> QED
      BY <3>1, <3>2, <3>3, <3>4, <1>4, <1>5
  <2>2. CASE i = n + 1
    <3>1. c < c + 1
      BY <1>3, SMTT(60)
    <3> QED
      BY <1>1, <1>4, <1>5, <1>6, <1>7, <1>8, <1>10, <1>11, <2>2, <3>1
  <2> QED
    BY <1>1, <2>1, <2>2
<1>13. Ordered(t, a)
  <2> SUFFICES ASSUME NEW i \in 1..Len(t), NEW j \in 1..Len(t), i < j, isMem(t[i].op), isMem(t[j].op)
               PROVE  Dist(a, t[i].lsqTag) < Dist(a, t[j].lsqTag)
    BY DEF Ordered
  <2>1. i \in 1..n
    BY <1>1, SMTT(60)
  <2>2. CASE j \in 1..n
    BY <1>1, <1>2, <1>5, <2>1, <2>2 DEF Ordered, n
  <2>3. CASE j = n + 1
    BY <1>1, <1>5, <1>6, <1>7, <1>9, <2>1, <2>3
  <2> QED
    BY <1>1, <2>2, <2>3
<1>14. Onto(t, a)
  <2> SUFFICES ASSUME NEW k \in 0..(a.entryCount - 1)
               PROVE  \E i \in 1..Len(t) : isMem(t[i].op) /\ Dist(a, t[i].lsqTag) = k
    BY DEF Onto
  <2>1. k \in 0..(c - 1) \/ k = c
    BY <1>3, <1>4, SMTT(60)
  <2>2. CASE k = c
    BY <1>1, <1>5, <1>6, <1>7, <2>2
  <2>3. CASE k \in 0..(c - 1)
    <3>1. PICK i \in 1..n : isMem(s[i].op) /\ Dist(q, s[i].lsqTag) = k
      BY <1>2, <2>3 DEF Onto, c, n
    <3> QED
      BY <1>1, <1>5, <3>1
  <2> QED
    BY <2>1, <2>2, <2>3
<1>15. Clean(a)
  <2> SUFFICES ASSUME NEW x \in LsqSlots, ~(Dist(a, x) < a.entryCount) PROVE ~a.entries[x].valid
    BY DEF Clean
  <2>1. Dist(q, x) \in Nat /\ ~(Dist(q, x) < c + 1)
    BY <1>2, <1>4, <1>5, DistIs
  <2>2. ~(Dist(q, x) < c) /\ Dist(q, x) # c
    BY <2>1, <1>3, SMTT(60)
  <2> QED
    BY <2>2, <1>2, <1>6, <1>8 DEF Clean, c
<1>16. a.tailPtr = lsqAddPtr(a.headPtr, a.entryCount)
  <2>1. Ring(LsqDepth, q.headPtr)
    BY <1>3, RingIs
  <2>2. c \in 0..LsqDepth /\ 1 \in 0..LsqDepth /\ c + 1 <= LsqDepth
    BY <1>3, SMTT(60) DEF c
  <2>3. At(LsqDepth, At(LsqDepth, q.headPtr, c), 1) = At(LsqDepth, q.headPtr, c + 1)
    BY <2>1, <2>2 DEF Ring
  <2> QED
    BY <2>3, <1>2, <1>4 DEF At, lsqAddPtr
<1> QED
  BY <1>4, <1>12, <1>13, <1>14, <1>15, <1>16 DEF Linked, t, a, u, n

--------------------------------------------------------------------------------
(* Retirement.                                                                 *)

\* t is s without its first r members.
Dropped(s, r, t) ==
    /\ t \in Seq(RobType) /\ Len(t) \in Nat /\ Len(t) = Len(s) - r
    /\ \A i \in 1..Len(t) : t[i] = s[i + r] /\ i + r \in 1..Len(s)
    /\ \A j \in 1..Len(s) : j > r => j - r \in 1..Len(t) /\ t[j - r] = s[j]

LEMMA DroppedIs ==
  ASSUME NEW s \in Seq(RobType), NEW r \in Nat, r <= Len(s)
  PROVE  Dropped(s, r, SubSeq(s, r + 1, Len(s)))
<1> DEFINE t == SubSeq(s, r + 1, Len(s))
<1>1. Len(s) \in Nat
  BY SMTT(60)
<1>2. t \in Seq(RobType) /\ Len(t) = Len(s) - r
  BY <1>1, SMTT(60)
<1>3. \A i \in 1..Len(t) : t[i] = s[i + r] /\ i + r \in 1..Len(s)
  BY <1>1, <1>2, SMTT(60)
<1>4. \A j \in 1..Len(s) : j > r => j - r \in 1..Len(t) /\ (j - r) + r = j
  BY <1>1, <1>2, SMTT(60)
<1>5. \A j \in 1..Len(s) : j > r => t[j - r] = s[j]
  <2> HIDE DEF t
  <2> QED
    BY <1>3, <1>4
<1>6. Len(t) \in Nat
  BY <1>1, <1>2, SMTT(60)
<1> QED
  BY <1>2, <1>3, <1>4, <1>5, <1>6 DEF Dropped

\* The fields of the LSQ after m entries have retired.
LEMMA RetiredIs ==
  ASSUME NEW q \in LsqType, NEW m \in Nat, m <= q.entryCount
  PROVE  LET a == RetireSlots(q, m)
         IN  /\ a \in LsqType /\ a.entryCount = q.entryCount - m
             /\ a.headPtr = lsqAddPtr(q.headPtr, m) /\ a.tailPtr = q.tailPtr
             /\ \A x \in LsqSlots :
                   a.entries[x] = IF Dist(q, x) < m THEN EmptySlot ELSE q.entries[x]
             /\ \A x \in LsqSlots : Dist(q, x) >= m => Dist(a, x) = Dist(q, x) - m
<1> DEFINE a == RetireSlots(q, m)
           gone(x) == \E lane \in 0..(m - 1) : x = headTag(q, lane)
           es == [x \in LsqSlots |-> IF gone(x) THEN EmptySlot ELSE q.entries[x]]
<1>1. /\ LsqDepth \in Nat \ {0} /\ q.headPtr \in LsqSlots /\ q.tailPtr \in LsqSlots
      /\ q.entries \in [LsqSlots -> SlotType] /\ q.entryCount \in Nat
      /\ q.entryCount <= LsqDepth /\ LsqSlots = 0..(LsqDepth - 1)
  BY LsqFields
<1>2. a.headPtr = lsqAddPtr(q.headPtr, m) /\ a.tailPtr = q.tailPtr
  BY SMTT(60) DEF RetireSlots, LsqType
<1>3. a.entryCount = q.entryCount - m /\ q.entryCount - m \in 0..LsqDepth
  <2>1. a.entryCount = q.entryCount - m
    BY SMTT(60) DEF RetireSlots, LsqType
  <2> QED
    BY <2>1, <1>1, SMTT(60)
<1>4. a.entries = es
  BY SMTT(60) DEF RetireSlots, LsqType
<1>5. ASSUME NEW x \in LsqSlots PROVE gone(x) <=> Dist(q, x) < m
  <2>1. Dist(q, x) \in 0..(LsqDepth - 1) /\ headTag(q, Dist(q, x)) = x
    BY DistIs
  <2>2. Dist(q, x) < m => Dist(q, x) \in 0..(m - 1)
    BY <2>1, <1>1, SMTT(60)
  <2>3. ASSUME NEW lane \in 0..(m - 1), x = headTag(q, lane) PROVE Dist(q, x) < m
    <3>1. lane \in 0..(LsqDepth - 1) /\ lane < m
      BY <1>1, SMTT(60)
    <3>2. Dist(q, x) = lane
      BY <2>3, <3>1, DistIs
    <3> QED
      BY <3>1, <3>2
  <2> QED
    BY <2>1, <2>2, <2>3
<1>6. Ring(LsqDepth, q.headPtr) /\ m \in 0..LsqDepth
  <2>1. m \in 0..LsqDepth
    BY <1>1, SMTT(60)
  <2> QED
    BY <2>1, <1>1, RingIs
<1>7. lsqAddPtr(q.headPtr, m) \in LsqSlots
  BY <1>1, <1>6 DEF Ring, At, lsqAddPtr
<1>8. \A x \in LsqSlots : a.entries[x] = IF Dist(q, x) < m THEN EmptySlot ELSE q.entries[x]
  <2> HIDE DEF a
  <2> QED
    BY <1>4, <1>5
<1>9. EmptySlot \in SlotType
  BY EmptySlotIs
<1>10. es \in [LsqSlots -> SlotType]
  BY <1>1, <1>9
<1>11. a \in LsqType
  BY <1>1, <1>3, <1>7, <1>10 DEF RetireSlots, LsqType
<1>12. \A x \in LsqSlots : Dist(q, x) >= m => Dist(a, x) = Dist(q, x) - m
  <2> HIDE DEF a
  <2> QED
    BY <1>1, <1>2, <1>6 DEF Ring, Off, At, Dist, lsqAddPtr
<1> QED
  BY <1>2, <1>3, <1>8, <1>11, <1>12

\* The first r operations leave, with the first m slots, which are theirs.
LEMMA RetireLinks ==
  ASSUME NEW s \in Seq(RobType), NEW h \in Tags, NEW q, Linked(s, h, q), Len(s) <= RobDepth,
         NEW r \in Nat, r <= Len(s), NEW m \in Nat, m <= q.entryCount,
         \A i \in 1..Len(s) : isMem(s[i].op) => (i <= r <=> Dist(q, s[i].lsqTag) < m)
  PROVE  Linked(SubSeq(s, r + 1, Len(s)), (h + r) % RobDepth, RetireSlots(q, m))
<1> DEFINE t == SubSeq(s, r + 1, Len(s))
           a == RetireSlots(q, m)
           n == Len(s)
           c == q.entryCount
<1>1. Dropped(s, r, t)
  BY DroppedIs
<1>2. /\ Slotted(s, h, q) /\ Ordered(s, q) /\ Onto(s, q) /\ Clean(q) /\ q \in LsqType
      /\ q.tailPtr = lsqAddPtr(q.headPtr, c)
  BY DEF Linked
<1>3. /\ LsqDepth \in Nat \ {0} /\ q.headPtr \in LsqSlots /\ c \in Nat /\ c <= LsqDepth
      /\ LsqSlots = 0..(LsqDepth - 1)
  BY <1>2, LsqFields
<1>4. /\ a \in LsqType /\ a.entryCount = c - m
      /\ a.headPtr = lsqAddPtr(q.headPtr, m) /\ a.tailPtr = q.tailPtr
      /\ \A x \in LsqSlots : a.entries[x] = IF Dist(q, x) < m THEN EmptySlot ELSE q.entries[x]
      /\ \A x \in LsqSlots : Dist(q, x) >= m => Dist(a, x) = Dist(q, x) - m
  BY <1>2, RetiredIs
<1>5. \A x \in LsqSlots : Dist(q, x) \in Nat
  BY <1>2, DistIs
<1>6. n \in Nat /\ \A i \in 1..n : s[i].lsqTag \in LsqSlots
  BY RobFields
<1> HIDE DEF t, a, n, c
\* Where the operations that remain were, and are.
<1>7. ASSUME NEW i \in 1..Len(t), isMem(t[i].op)
      PROVE  /\ i + r \in 1..n /\ t[i] = s[i + r] /\ isMem(s[i + r].op)
             /\ t[i].lsqTag \in LsqSlots /\ Dist(q, t[i].lsqTag) >= m
             /\ Dist(a, t[i].lsqTag) = Dist(q, t[i].lsqTag) - m
             /\ Dist(q, t[i].lsqTag) < c
             /\ a.entries[t[i].lsqTag] = q.entries[t[i].lsqTag]
  <2>1. i + r \in 1..n /\ t[i] = s[i + r]
    BY <1>1 DEF Dropped, n
  <2>2. Len(t) \in Nat /\ ~(i + r <= r)
    BY <1>1, SMTT(60) DEF Dropped
  <2>3. ~(Dist(q, t[i].lsqTag) < m) /\ t[i].lsqTag \in LsqSlots
    BY <1>6, <1>7, <2>1, <2>2 DEF n
  <2>4. Dist(q, t[i].lsqTag) >= m
    BY <1>5, <2>3, SMTT(60)
  <2>5. Dist(q, t[i].lsqTag) < c
    BY <1>2, <1>7, <2>1 DEF Slotted, n, c
  <2> QED
    BY <1>4, <1>7, <2>1, <2>3, <2>4, <2>5
<1>8. Slotted(t, (h + r) % RobDepth, a)
  <2> SUFFICES ASSUME NEW i \in 1..Len(t), isMem(t[i].op)
               PROVE  /\ Dist(a, t[i].lsqTag) < a.entryCount
                      /\ Holds(a.entries[t[i].lsqTag], t[i], (((h + r) % RobDepth) + (i - 1)) % RobDepth)
    BY DEF Slotted
  <2>1. Dist(a, t[i].lsqTag) < a.entryCount
    <3>1. Dist(q, t[i].lsqTag) \in Nat /\ Dist(q, t[i].lsqTag) < c
      BY <1>5, <1>7
    <3> QED
      BY <3>1, <1>3, <1>4, <1>7, SMTT(60)
  <2>2. Holds(q.entries[t[i].lsqTag], t[i], (h + ((i + r) - 1)) % RobDepth)
    BY <1>2, <1>7 DEF Slotted, n
  <2>3. RobDepth \in Nat \ {0} /\ h \in 0..(RobDepth - 1)
    BY RobDepthAssumption DEF Tags
  <2>4. r \in 0..RobDepth /\ i - 1 \in 0..RobDepth /\ r + (i - 1) <= RobDepth
    BY <2>3, <1>6, <1>7, SMTT(60) DEF n
  <2>5. Ring(RobDepth, h)
    BY <2>3, RingIs
  <2>6. At(RobDepth, At(RobDepth, h, r), i - 1) = At(RobDepth, h, r + (i - 1))
    BY <2>4, <2>5 DEF Ring
  <2>7. r + (i - 1) = (i + r) - 1
    BY SMTT(60)
  <2> QED
    BY <1>7, <2>1, <2>2, <2>6, <2>7 DEF At
<1>9. Ordered(t, a)
  <2> SUFFICES ASSUME NEW i \in 1..Len(t), NEW j \in 1..Len(t), i < j, isMem(t[i].op), isMem(t[j].op)
               PROVE  Dist(a, t[i].lsqTag) < Dist(a, t[j].lsqTag)
    BY DEF Ordered
  <2>1. i + r < j + r
    BY <1>1, SMTT(60) DEF Dropped
  <2>2. Dist(q, t[i].lsqTag) < Dist(q, t[j].lsqTag)
    BY <1>2, <1>7, <2>1 DEF Ordered, n
  <2>3. Dist(q, t[i].lsqTag) \in Nat /\ Dist(q, t[j].lsqTag) \in Nat
    BY <1>5, <1>7
  <2> QED
    BY <1>7, <2>2, <2>3, SMTT(60)
<1>10. Onto(t, a)
  <2> SUFFICES ASSUME NEW k \in 0..(a.entryCount - 1)
               PROVE  \E i \in 1..Len(t) : isMem(t[i].op) /\ Dist(a, t[i].lsqTag) = k
    BY DEF Onto
  <2>1. k + m \in 0..(c - 1) /\ ~(k + m < m) /\ (k + m) - m = k
    BY <1>3, <1>4, SMTT(60) DEF c
  <2>2. PICK j \in 1..n : isMem(s[j].op) /\ Dist(q, s[j].lsqTag) = k + m
    BY <1>2, <2>1 DEF Onto, c, n
  <2>3. ~(j <= r)
    BY <2>1, <2>2 DEF n
  <2>4. j > r
    BY <2>3, <1>6, SMTT(60)
  <2>5. j - r \in 1..Len(t) /\ t[j - r] = s[j]
    BY <1>1, <2>4 DEF Dropped, n
  <2> QED
    BY <1>7, <2>1, <2>2, <2>5
<1>11. Clean(a)
  <2> SUFFICES ASSUME NEW x \in LsqSlots, ~(Dist(a, x) < a.entryCount) PROVE ~a.entries[x].valid
    BY DEF Clean
  <2>1. CASE Dist(q, x) < m
    <3>1. a.entries[x] = EmptySlot
      BY <1>4, <2>1
    <3> QED
      BY <3>1, SMTT(60) DEF EmptySlot
  <2>2. CASE ~(Dist(q, x) < m)
    <3>1. Dist(q, x) >= m /\ Dist(q, x) \in Nat
      BY <1>5, <2>2, SMTT(60)
    <3>2. Dist(a, x) = Dist(q, x) - m /\ a.entries[x] = q.entries[x]
      BY <1>4, <2>2, <3>1
    <3>3. ~(Dist(q, x) < c)
      BY <1>3, <1>4, <3>1, <3>2, SMTT(60)
    <3> QED
      BY <1>2, <3>2, <3>3 DEF Clean, c
  <2> QED
    BY <2>1, <2>2
<1>12. a.tailPtr = lsqAddPtr(a.headPtr, a.entryCount)
  <2>1. Ring(LsqDepth, q.headPtr)
    BY <1>3, RingIs
  <2>2. m \in 0..LsqDepth /\ c - m \in 0..LsqDepth /\ m + (c - m) <= LsqDepth /\ m + (c - m) = c
    BY <1>3, SMTT(60) DEF c
  <2>3. At(LsqDepth, At(LsqDepth, q.headPtr, m), c - m) = At(LsqDepth, q.headPtr, m + (c - m))
    BY <2>1, <2>2 DEF Ring
  <2> QED
    BY <2>2, <2>3, <1>2, <1>4 DEF At, lsqAddPtr
<1> QED
  BY <1>4, <1>8, <1>9, <1>10, <1>11, <1>12 DEF Linked, t, a

--------------------------------------------------------------------------------
(* Recovery.                                                                   *)

\* Facts about numbers that rest on well-founded induction and on finite sets,
\* which are proved at the end: a set of numbers has a least member, and a set
\* that f enumerates has as many members as there are numbers.
Least == \A S \in SUBSET Nat : S # {} => \E k \in S : \A n \in S : k <= n

Enumerates(f, m, S) ==
    /\ \A k \in 0..(m - 1) : f[k] \in S
    /\ \A x \in S : \E k \in 0..(m - 1) : f[k] = x
    /\ \A j, k \in 0..(m - 1) : f[j] = f[k] => j = k
Counting == \A m \in Nat : \A f, S : Enumerates(f, m, S) => Cardinality(S) = m

\* No two operations in flight have the same tag, or the same slot.
LEMMA TagsDiffer ==
  ASSUME NEW h \in Tags, NEW i \in Nat \ {0}, NEW j \in Nat \ {0}, i <= RobDepth, j <= RobDepth,
         (h + (i - 1)) % RobDepth = (h + (j - 1)) % RobDepth
  PROVE  i = j
<1>1. RobDepth \in Nat \ {0} /\ h \in 0..(RobDepth - 1)
  BY RobDepthAssumption DEF Tags
<1>2. i - 1 \in 0..(RobDepth - 1) /\ j - 1 \in 0..(RobDepth - 1)
  BY <1>1, SMTT(60)
<1>3. Ring(RobDepth, h)
  BY <1>1, RingIs
<1>4. Off(RobDepth, h, At(RobDepth, h, i - 1)) = i - 1 /\ Off(RobDepth, h, At(RobDepth, h, j - 1)) = j - 1
  BY <1>2, <1>3 DEF Ring
<1>5. At(RobDepth, h, i - 1) = At(RobDepth, h, j - 1)
  BY DEF At
<1> QED
  BY <1>4, <1>5, SMTT(60)

LEMMA SlotsDiffer ==
  ASSUME NEW s \in Seq(RobType), NEW h, NEW q, Linked(s, h, q),
         NEW i \in 1..Len(s), NEW j \in 1..Len(s), isMem(s[i].op), isMem(s[j].op),
         s[i].lsqTag = s[j].lsqTag
  PROVE  i = j
<1>1. Ordered(s, q) /\ q \in LsqType
  BY DEF Linked
<1>2. Dist(q, s[i].lsqTag) \in Nat /\ s[i].lsqTag \in LsqSlots
  BY <1>1, RobFields, DistIs
<1>3. ~(Dist(q, s[i].lsqTag) < Dist(q, s[j].lsqTag)) /\ ~(Dist(q, s[j].lsqTag) < Dist(q, s[i].lsqTag))
  BY <1>2, SMTT(60)
<1>4. ~(i < j) /\ ~(j < i)
  BY <1>1, <1>3 DEF Ordered
<1> QED
  BY <1>4, RobFields, SMTT(60)

\* A valid slot belongs to an operation in flight.
LEMMA SlotPlace ==
  ASSUME NEW s \in Seq(RobType), NEW h, NEW q, Linked(s, h, q),
         NEW x \in LsqSlots, q.entries[x].valid \/ Dist(q, x) < q.entryCount
  PROVE  \E i \in 1..Len(s) : isMem(s[i].op) /\ s[i].lsqTag = x /\ Dist(q, x) < q.entryCount
<1>1. Onto(s, q) /\ Clean(q) /\ q \in LsqType
  BY DEF Linked
<1>2. Dist(q, x) < q.entryCount /\ Dist(q, x) \in Nat /\ q.entryCount \in Nat
  BY <1>1, LsqFields, DistIs DEF Clean
<1>3. Dist(q, x) \in 0..(q.entryCount - 1)
  BY <1>2, SMTT(60)
<1>4. PICK i \in 1..Len(s) : isMem(s[i].op) /\ Dist(q, s[i].lsqTag) = Dist(q, x)
  BY <1>1, <1>3 DEF Onto
<1>5. s[i].lsqTag \in LsqSlots
  BY RobFields
<1>6. s[i].lsqTag = x
  BY <1>1, <1>4, <1>5, DistIs
<1> QED
  BY <1>2, <1>4, <1>6

\* The tags of the places after b.
TagsAfter(s, h, b) == {(h + (i - 1)) % RobDepth : i \in (b + 1)..Len(s)}

\* x is the slot of an operation up to place b.
KeptAt(s, b, x) == \E i \in 1..b : isMem(s[i].op) /\ s[i].lsqTag = x

\* What recovery keeps is a part of the queue that begins at its head.
LEMMA KeptIs ==
  ASSUME NEW s \in Seq(RobType), NEW h \in Tags, NEW q, Linked(s, h, q), Len(s) <= RobDepth,
         NEW b \in 1..Len(s), NEW x \in LsqSlots
  PROVE  (q.entries[x].valid /\ q.entries[x].robTag \notin TagsAfter(s, h, b))
            <=> KeptAt(s, b, x)
<1>1. Len(s) \in Nat /\ b \in Nat /\ \A i \in 1..b : i \in 1..Len(s)
  BY RobFields, SMTT(60)
<1>2. Slotted(s, h, q)
  BY DEF Linked
<1>3. ASSUME NEW i \in 1..Len(s), isMem(s[i].op), s[i].lsqTag = x
      PROVE  q.entries[x].valid /\ q.entries[x].robTag = (h + (i - 1)) % RobDepth
  BY <1>2, <1>3 DEF Slotted, Holds
<1>4. ASSUME NEW i \in 1..Len(s)
      PROVE  (h + (i - 1)) % RobDepth \in TagsAfter(s, h, b) <=> i \notin 1..b
  <2>1. i \notin 1..b <=> i \in (b + 1)..Len(s)
    BY <1>1, SMTT(60)
  <2>2. ASSUME NEW j \in (b + 1)..Len(s), (h + (i - 1)) % RobDepth = (h + (j - 1)) % RobDepth PROVE i = j
    <3>1. i \in Nat \ {0} /\ j \in Nat \ {0} /\ i <= RobDepth /\ j <= RobDepth
      BY <1>1, RobDepthAssumption, SMTT(60)
    <3> QED
      BY <2>2, <3>1, TagsDiffer
  <2> QED
    BY <2>1, <2>2 DEF TagsAfter
<1>5. ASSUME NEW i \in 1..b, isMem(s[i].op), s[i].lsqTag = x
      PROVE  q.entries[x].valid /\ q.entries[x].robTag \notin TagsAfter(s, h, b)
  BY <1>1, <1>3, <1>4, <1>5
<1>6. ASSUME q.entries[x].valid, q.entries[x].robTag \notin TagsAfter(s, h, b)
      PROVE  \E i \in 1..b : isMem(s[i].op) /\ s[i].lsqTag = x
  <2>1. PICK i \in 1..Len(s) : isMem(s[i].op) /\ s[i].lsqTag = x /\ Dist(q, x) < q.entryCount
    BY <1>6, SlotPlace
  <2>2. i \in 1..b
    BY <1>3, <1>4, <1>6, <2>1
  <2> QED
    BY <2>1, <2>2
<1> QED
  BY <1>5, <1>6 DEF KeptAt

Younger(s, h, q, b, m) ==
    \A x \in LsqSlots :
        (q.entries[x].valid /\ q.entries[x].robTag \notin TagsAfter(s, h, b)) <=> Dist(q, x) < m

\* The memory operations up to place b have the first m slots.
FirstSlots(s, q, b, m) ==
    /\ \A x \in LsqSlots : KeptAt(s, b, x) <=> Dist(q, x) < m
    /\ Cardinality({i \in 1..b : isMem(s[i].op)}) = m

LEMMA KeptPrefix ==
  ASSUME Least, Counting, NEW s \in Seq(RobType), NEW h, NEW q, Linked(s, h, q),
         NEW b \in 0..Len(s)
  PROVE  \E m \in 0..q.entryCount : FirstSlots(s, q, b, m)
<1> DEFINE c == q.entryCount
           Kept(x) == KeptAt(s, b, x)
           F == {k \in 0..c : k = c \/ ~Kept(headTag(q, k))}
<1>1. /\ Slotted(s, h, q) /\ Ordered(s, q) /\ Onto(s, q) /\ Clean(q) /\ q \in LsqType
  BY DEF Linked
<1>2. c \in Nat /\ c <= LsqDepth /\ LsqDepth \in Nat
  BY <1>1, LsqFields
<1>3. Len(s) \in Nat /\ \A i \in 1..b : i \in 1..Len(s)
  BY RobFields, SMTT(60)
<1>4. PICK m \in F : \A k \in F : m <= k
  <2>1. c \in F /\ F \in SUBSET Nat
    BY <1>2, SMTT(60)
  <2> HIDE DEF F
  <2> QED
    BY <2>1 DEF Least
<1>5. m \in 0..c /\ m \in Nat
  BY <1>2, <1>4, SMTT(60)
<1>6. ASSUME NEW k \in Nat, k < m PROVE Kept(headTag(q, k))
  <2>1. k \in 0..c /\ k # c /\ ~(m <= k)
    BY <1>2, <1>5, <1>6, SMTT(60)
  <2> HIDE DEF Kept
  <2> QED
    BY <1>4, <2>1
<1>7. ASSUME NEW x \in LsqSlots PROVE Kept(x) <=> Dist(q, x) < m
  <2>1. Dist(q, x) \in Nat /\ headTag(q, Dist(q, x)) = x
    BY <1>1, DistIs
  <2>2. Dist(q, x) < m => Kept(x)
    BY <1>6, <2>1
  <2>3. ASSUME NEW j \in 1..b, isMem(s[j].op), s[j].lsqTag = x, ~(Dist(q, x) < m) PROVE FALSE
    <3>1. Dist(q, x) < c
      BY <1>1, <1>3, <2>3 DEF Slotted
    <3>2. m # c /\ m \in 0..(c - 1) /\ m \in 0..(LsqDepth - 1)
      BY <1>2, <1>5, <2>1, <2>3, <3>1, SMTT(60)
    <3>3. ~Kept(headTag(q, m))
      BY <1>4, <3>2, SMTT(60)
    <3>4. Dist(q, headTag(q, m)) = m
      BY <1>1, <3>2, DistIs
    <3>5. PICK i \in 1..Len(s) : isMem(s[i].op) /\ Dist(q, s[i].lsqTag) = m
      BY <1>1, <3>2 DEF Onto
    <3>6. s[i].lsqTag \in LsqSlots
      BY RobFields
    <3>7. headTag(q, m) = s[i].lsqTag
      BY <1>1, <3>5, <3>6, DistIs
    <3>8. i \notin 1..b
      BY <3>3, <3>5, <3>7 DEF KeptAt
    <3>9. j < i
      BY <1>3, <3>8, SMTT(60)
    <3>10. Dist(q, x) < m
      BY <1>1, <1>3, <2>3, <3>5, <3>9 DEF Ordered
    <3> QED
      BY <2>3, <3>10
  <2> QED
    BY <2>2, <2>3 DEF KeptAt
<1>8. Cardinality({i \in 1..b : isMem(s[i].op)}) = m
  <2> DEFINE S == {i \in 1..b : isMem(s[i].op)}
             at(k) == CHOOSE i \in S : Dist(q, s[i].lsqTag) = k
             f == [k \in 0..(m - 1) |-> at(k)]
  <2>1. ASSUME NEW k \in 0..(m - 1) PROVE f[k] \in S /\ Dist(q, s[f[k]].lsqTag) = k
    <3>1. k \in 0..(LsqDepth - 1) /\ k < m
      BY <1>2, <1>5, SMTT(60)
    <3>2. headTag(q, k) \in LsqSlots /\ Dist(q, headTag(q, k)) = k
      BY <1>1, <3>1, DistIs
    <3>3. \E i \in S : Dist(q, s[i].lsqTag) = k
      BY <1>7, <3>1, <3>2 DEF KeptAt
    <3>4. at(k) \in S /\ Dist(q, s[at(k)].lsqTag) = k
      BY <3>3
    <3> QED
      BY <3>4
  <2>2. ASSUME NEW i \in S PROVE \E k \in 0..(m - 1) : f[k] = i
    <3>1. i \in 1..Len(s) /\ isMem(s[i].op) /\ s[i].lsqTag \in LsqSlots /\ KeptAt(s, b, s[i].lsqTag)
      BY <1>3, <2>2, RobFields DEF KeptAt
    <3>2. Dist(q, s[i].lsqTag) < m /\ Dist(q, s[i].lsqTag) \in Nat
      BY <1>1, <1>7, <3>1, DistIs
    <3>3. Dist(q, s[i].lsqTag) \in 0..(m - 1)
      BY <1>5, <3>2, SMTT(60)
    <3> DEFINE j == f[Dist(q, s[i].lsqTag)]
    <3>4. j \in S /\ Dist(q, s[j].lsqTag) = Dist(q, s[i].lsqTag)
      BY <2>1, <3>3
    <3> HIDE DEF j
    <3>5. j \in 1..Len(s) /\ isMem(s[j].op) /\ s[j].lsqTag \in LsqSlots
      BY <1>3, <3>4, RobFields
    <3>6. s[j].lsqTag = s[i].lsqTag
      BY <1>1, <3>1, <3>4, <3>5, DistIs
    <3>7. j = i
      BY <3>1, <3>5, <3>6, SlotsDiffer
    <3> QED
      BY <3>3, <3>7 DEF j
  <2> HIDE DEF f, S
  <2>3. Enumerates(f, m, S)
    BY <2>1, <2>2 DEF Enumerates
  <2> QED
    BY <1>5, <2>3 DEF Counting, S
<1> QED
  BY <1>5, <1>7, <1>8 DEF FirstSlots

\* a is q with its first m entries.
Shortened(q, m, a) ==
    /\ a \in LsqType /\ a.entryCount = m /\ a.headPtr = q.headPtr
    /\ a.tailPtr = lsqAddPtr(q.headPtr, m)
    /\ \A x \in LsqSlots : a.entries[x] = IF Dist(q, x) < m THEN q.entries[x] ELSE EmptySlot

LEMMA RecoveredIs ==
  ASSUME Counting, NEW s, NEW h, NEW q \in LsqType, NEW b, NEW m \in 0..q.entryCount,
         Younger(s, h, q, b, m)
  PROVE  Shortened(q, m, RecoverSlots(q, TagsAfter(s, h, b)))
<1> DEFINE killed == TagsAfter(s, h, b)
           a == RecoverSlots(q, killed)
           kept == {x \in LsqSlots : q.entries[x].valid /\ q.entries[x].robTag \notin killed}
           es == [x \in LsqSlots |-> IF x \in kept THEN q.entries[x] ELSE EmptySlot]
           f == [k \in 0..(m - 1) |-> headTag(q, k)]
<1>1. /\ LsqDepth \in Nat \ {0} /\ q.headPtr \in LsqSlots /\ q.tailPtr \in LsqSlots
      /\ q.entries \in [LsqSlots -> SlotType] /\ q.entryCount \in Nat
      /\ q.entryCount <= LsqDepth /\ LsqSlots = 0..(LsqDepth - 1)
  BY LsqFields
<1>2. m \in Nat /\ m \in 0..LsqDepth /\ \A k \in 0..(m - 1) : k \in 0..(LsqDepth - 1) /\ k < m
  BY <1>1, SMTT(60)
<1>3. \A x \in LsqSlots : x \in kept <=> Dist(q, x) < m
  BY DEF Younger
<1> HIDE DEF kept, killed
<1>4. Cardinality(kept) = m
  <2>1. ASSUME NEW k \in 0..(m - 1) PROVE f[k] \in kept /\ Dist(q, f[k]) = k
    <3>1. f[k] = headTag(q, k) /\ k \in 0..(LsqDepth - 1) /\ k < m
      BY <1>2
    <3>2. headTag(q, k) \in LsqSlots /\ Dist(q, headTag(q, k)) = k
      BY <3>1, DistIs
    <3> QED
      BY <1>3, <3>1, <3>2
  <2>2. ASSUME NEW x \in kept PROVE \E k \in 0..(m - 1) : f[k] = x
    <3>1. x \in LsqSlots /\ Dist(q, x) < m
      BY <1>3, <2>2 DEF kept
    <3>2. Dist(q, x) \in Nat /\ headTag(q, Dist(q, x)) = x
      BY <3>1, DistIs
    <3>3. Dist(q, x) \in 0..(m - 1)
      BY <1>2, <3>1, <3>2, SMTT(60)
    <3>4. f[Dist(q, x)] = x
      BY <3>2, <3>3
    <3> QED
      BY <3>3, <3>4
  <2>3. \A j, k \in 0..(m - 1) : f[j] = f[k] => j = k
    <3> HIDE DEF f
    <3> QED
      BY <2>1
  <2>4. Enumerates(f, m, kept)
    <3> HIDE DEF f
    <3> QED
      BY <2>1, <2>2, <2>3 DEF Enumerates
  <2> QED
    BY <1>2, <2>4 DEF Counting
<1>5. a = [q EXCEPT !.entries = [x \in LsqSlots |-> IF x \in kept THEN @[x] ELSE EmptySlot],
                    !.tailPtr = lsqAddPtr(q.headPtr, m), !.entryCount = m]
  BY <1>4 DEF RecoverSlots, kept
<1> HIDE DEF a
<1>6. a.entryCount = m /\ a.headPtr = q.headPtr /\ a.tailPtr = lsqAddPtr(q.headPtr, m) /\ a.entries = es
  <2>1. a = [q EXCEPT !.entries = es, !.tailPtr = lsqAddPtr(q.headPtr, m), !.entryCount = m]
    BY <1>5
  <2> HIDE DEF es
  <2> QED
    BY ONLY <2>1, q \in LsqType, SMTT(60) DEF LsqType
<1>7. \A x \in LsqSlots : a.entries[x] = IF Dist(q, x) < m THEN q.entries[x] ELSE EmptySlot
  BY <1>3, <1>6
<1>8. lsqAddPtr(q.headPtr, m) \in LsqSlots
  <2>1. Ring(LsqDepth, q.headPtr)
    BY <1>1, RingIs
  <2> QED
    BY <2>1, <1>1, <1>2 DEF Ring, At, lsqAddPtr
<1>9. es \in [LsqSlots -> SlotType]
  BY <1>1, EmptySlotIs
<1>10. a \in LsqType
  BY <1>1, <1>2, <1>5, <1>8, <1>9 DEF LsqType
<1> QED
  BY <1>6, <1>7, <1>10 DEF a, killed, Shortened

\* t is the ROB up to the branch at place b, which is marked complete.
CutTo(s, b, t) ==
    /\ t \in Seq(RobType) /\ Len(t) = b
    /\ \A i \in 1..b : t[i].op = s[i].op /\ (isMem(s[i].op) => t[i] = s[i])

LEMMA RecoverLinks ==
  ASSUME Least, Counting, NEW s \in Seq(RobType), NEW h \in Tags, NEW q, Linked(s, h, q),
         Len(s) <= RobDepth, NEW b \in 1..Len(s), NEW t, CutTo(s, b, t)
  PROVE  Linked(t, h, RecoverSlots(q, TagsAfter(s, h, b)))
<1> DEFINE a == RecoverSlots(q, TagsAfter(s, h, b))
<1>1. /\ Slotted(s, h, q) /\ Ordered(s, q) /\ Onto(s, q) /\ Clean(q) /\ q \in LsqType
  BY DEF Linked
<1>2. PICK m \in 0..q.entryCount : Younger(s, h, q, b, m)
  <2>1. b \in 0..Len(s)
    BY RobFields, SMTT(60)
  <2>2. PICK m \in 0..q.entryCount : FirstSlots(s, q, b, m)
    BY <2>1, KeptPrefix
  <2>3. \A x \in LsqSlots : (q.entries[x].valid /\ q.entries[x].robTag \notin TagsAfter(s, h, b))
                              <=> KeptAt(s, b, x)
    BY KeptIs
  <2>4. Younger(s, h, q, b, m)
    BY <2>2, <2>3 DEF Younger, FirstSlots
  <2> QED
    BY <2>4
<1>0. Shortened(q, m, a)
  BY <1>1, <1>2, RecoveredIs
<1> HIDE DEF a
<1>3. /\ a \in LsqType /\ a.entryCount = m /\ a.headPtr = q.headPtr
      /\ a.tailPtr = lsqAddPtr(q.headPtr, m)
      /\ \A x \in LsqSlots : a.entries[x] = IF Dist(q, x) < m THEN q.entries[x] ELSE EmptySlot
  BY <1>0 DEF Shortened
<1>4. \A x : Dist(a, x) = Dist(q, x)
  BY <1>3 DEF Dist
<1>5. \A x \in LsqSlots : Dist(q, x) < m <=> KeptAt(s, b, x)
  BY <1>2, KeptIs DEF Younger
<1>6. Len(s) \in Nat /\ (\A i \in 1..b : i \in 1..Len(s)) /\ \A i \in 1..Len(s) : s[i].lsqTag \in LsqSlots
  <2>1. Len(s) \in Nat /\ \A i \in 1..Len(s) : s[i].lsqTag \in LsqSlots
    BY RobFields
  <2>2. \A i \in 1..b : i \in 1..Len(s)
    BY <2>1, SMTT(60)
  <2> QED
    BY <2>1, <2>2
<1>7. ASSUME NEW i \in 1..Len(t), isMem(t[i].op)
      PROVE  /\ i \in 1..Len(s) /\ t[i] = s[i] /\ isMem(s[i].op) /\ s[i].lsqTag \in LsqSlots
             /\ Dist(q, s[i].lsqTag) < m
  <2>1. i \in 1..b /\ isMem(s[i].op) /\ t[i] = s[i]
    BY <1>7 DEF CutTo
  <2> QED
    BY <1>5, <1>6, <2>1 DEF KeptAt
<1>8. Slotted(t, h, a)
  <2> SUFFICES ASSUME NEW i \in 1..Len(t), isMem(t[i].op)
               PROVE  /\ Dist(a, t[i].lsqTag) < a.entryCount
                      /\ Holds(a.entries[t[i].lsqTag], t[i], (h + (i - 1)) % RobDepth)
    BY DEF Slotted
  <2>1. Holds(q.entries[s[i].lsqTag], s[i], (h + (i - 1)) % RobDepth)
    BY <1>1, <1>7 DEF Slotted
  <2>2. a.entries[s[i].lsqTag] = q.entries[s[i].lsqTag]
    BY <1>3, <1>7
  <2>3. Dist(a, s[i].lsqTag) < a.entryCount
    BY <1>3, <1>4, <1>7
  <2> QED
    BY <1>7, <2>1, <2>2, <2>3
<1>9. Ordered(t, a)
  BY <1>1, <1>4, <1>7 DEF Ordered
<1>10. Onto(t, a)
  <2> SUFFICES ASSUME NEW k \in 0..(a.entryCount - 1)
               PROVE  \E i \in 1..Len(t) : isMem(t[i].op) /\ Dist(a, t[i].lsqTag) = k
    BY DEF Onto
  <2>1. q.entryCount \in Nat /\ q.entryCount <= LsqDepth /\ LsqDepth \in Nat
    BY <1>1, LsqFields
  <2>2. k \in 0..(LsqDepth - 1) /\ k < m
    BY <1>3, <2>1, SMTT(60)
  <2>3. headTag(q, k) \in LsqSlots /\ Dist(q, headTag(q, k)) = k
    BY <1>1, <2>2, DistIs
  <2>4. PICK i \in 1..b : isMem(s[i].op) /\ s[i].lsqTag = headTag(q, k)
    BY <1>5, <2>2, <2>3 DEF KeptAt
  <2> QED
    BY <1>4, <2>3, <2>4 DEF CutTo
<1>11. Clean(a)
  <2> SUFFICES ASSUME NEW x \in LsqSlots, ~(Dist(a, x) < a.entryCount) PROVE ~a.entries[x].valid
    BY DEF Clean
  <2>1. a.entries[x] = EmptySlot
    BY <1>3, <1>4
  <2> QED
    BY <2>1, SMTT(60) DEF EmptySlot
<1> QED
  BY <1>3, <1>8, <1>9, <1>10, <1>11 DEF Linked, a

--------------------------------------------------------------------------------
(* Issue, write-back and completion.                                           *)

LEMMA SomeIsNotNone == \A x : <<x>> # <<>> /\ <<x>>[1] = x
  BY SMTT(60)

\* u is slot e with this address and these data.
Filled(u, e, address, data) ==
    /\ u \in SlotType /\ u.valid = e.valid /\ u.isStore = e.isStore /\ u.robTag = e.robTag
    /\ u.access = e.access /\ u.address = address /\ u.data = data

\* The fields of a slot whose operation discovers its address, or whose data
\* register is written.
LEMMA UpdatedSlotIs ==
  ASSUME NEW e \in SlotType, NEW a \in Maybe([addr : Addresses, offset : Lanes]), NEW d \in Maybe(Words)
  PROVE  Filled(UpdateSlot(e, a, d), e, a, IF d = NotReady THEN e.data ELSE d)
<1> DEFINE u == UpdateSlot(e, a, d)
<1>1. u.valid = e.valid /\ u.isStore = e.isStore /\ u.robTag = e.robTag /\ u.access = e.access
  BY SMTT(60) DEF UpdateSlot, SlotType
<1>2. u.address = a /\ u.data = IF d = NotReady THEN e.data ELSE d
  BY SMTT(60) DEF UpdateSlot, SlotType
<1>3. u \in SlotType
  BY DEF UpdateSlot, SlotType
<1> QED
  BY <1>1, <1>2, <1>3 DEF Filled

LEMMA SnoopedSlotIs ==
  ASSUME NEW e \in SlotType, NEW d \in Maybe(Words)
  PROVE  Filled(SnoopSlot(e, d), e, e.address,
                IF e.valid /\ e.isStore /\ e.data = NotReady THEN d ELSE e.data)
<1> DEFINE u == SnoopSlot(e, d)
<1>1. CASE e.valid /\ e.isStore /\ e.data = NotReady
  <2>1. u = [e EXCEPT !.data = d]
    BY <1>1 DEF SnoopSlot
  <2> HIDE DEF u
  <2>2. u.valid = e.valid /\ u.isStore = e.isStore /\ u.robTag = e.robTag /\ u.access = e.access
    BY <2>1, SMTT(60) DEF SlotType
  <2>3. u.address = e.address /\ u.data = d
    BY <2>1, SMTT(60) DEF SlotType
  <2>4. u \in SlotType
    BY <2>1 DEF SlotType
  <2> QED
    BY <1>1, <2>2, <2>3, <2>4 DEF u, Filled
<1>2. CASE ~(e.valid /\ e.isStore /\ e.data = NotReady)
  <2>1. u = e
    BY <1>2 DEF SnoopSlot
  <2> QED
    BY <1>2, <2>1 DEF Filled
<1> QED
  BY <1>1, <1>2

\* Operation u becomes v, and its slot e becomes f, in a clock in which the
\* operations of fired issue and the data registers of those of wake are written.
StepsTo(u, v, k, fired, wake) ==
    /\ k \in fired => u.state = "iq"
    /\ k \in wake => u.op.write
    /\ v.op = u.op
    /\ v.produced <=> (u.produced \/ k \in wake)
    /\ v.state = "iq" <=> (u.state = "iq" /\ k \notin fired)
FillsTo(e, u, k, fired, wake, a, f) ==
    /\ a = IF k \in fired /\ ~Misaligned(u.op)
           THEN UpdateSlot(e, <<[addr |-> u.op.addr, offset |-> u.op.offset]>>,
                    IF u.op.write /\ (u.produced \/ k \in wake \/ u.op.x0)
                    THEN <<u.op.data>> ELSE NotReady)
           ELSE e
    /\ f = IF k \in wake THEN SnoopSlot(a, <<u.op.data>>) ELSE a

\* A slot stays the one of its operation, through the issue and the write-back.
LEMMA SlotKeeps ==
  ASSUME NEW e \in SlotType, NEW u, NEW v, NEW tag, u.op \in MemoryOps, Holds(e, u, tag),
         NEW k, NEW fired, NEW wake, StepsTo(u, v, k, fired, wake),
         NEW a, NEW f, FillsTo(e, u, k, fired, wake, a, f)
  PROVE  f \in SlotType /\ Holds(f, v, tag)
<1> DEFINE place == <<[addr |-> u.op.addr, offset |-> u.op.offset]>>
           datum == <<u.op.data>>
           found == IF u.op.write /\ (u.produced \/ k \in wake \/ u.op.x0) THEN datum ELSE NotReady
<1>1. /\ place \in Maybe([addr : Addresses, offset : Lanes]) /\ datum \in Maybe(Words)
      /\ found \in Maybe(Words) /\ datum # NotReady
  <2>1. u.op.addr \in Addresses /\ u.op.offset \in Lanes /\ u.op.data \in Words
    BY SMTT(60) DEF MemoryOps
  <2>2. datum # NotReady
    BY SomeIsNotNone DEF NotReady
  <2>3. [addr |-> u.op.addr, offset |-> u.op.offset] \in [addr : Addresses, offset : Lanes]
    BY <2>1, SMTT(60)
  <2> QED
    BY <2>1, <2>2, <2>3 DEF Maybe, NotReady
<1> HIDE DEF place, datum, NotReady
<1>2. /\ e.valid /\ e.isStore = u.op.write /\ e.robTag = tag /\ e.access = u.op.access
      /\ e.address = IF u.state = "iq" \/ Misaligned(u.op) THEN NotReady ELSE place
      /\ e.data \in {NotReady, datum}
      /\ u.op.write /\ ~Misaligned(u.op) /\ u.state # "iq" /\ (u.produced \/ u.op.x0)
            => e.data = datum
  BY DEF Holds, place, datum
\* After the issue.
<1>3. /\ a \in SlotType /\ a.valid = e.valid /\ a.isStore = e.isStore /\ a.robTag = e.robTag
      /\ a.access = e.access
      /\ a.address = IF k \in fired /\ ~Misaligned(u.op) THEN place ELSE e.address
      /\ a.data = IF k \in fired /\ ~Misaligned(u.op) /\ found # NotReady THEN found ELSE e.data
  <2>1. CASE k \in fired /\ ~Misaligned(u.op)
    <3>1. a = UpdateSlot(e, place, found)
      BY <2>1 DEF place, datum, FillsTo
    <3>2. Filled(a, e, place, IF found = NotReady THEN e.data ELSE found)
      <4> HIDE DEF found
      <4> QED
        BY <1>1, <3>1, UpdatedSlotIs
    <3> HIDE DEF found
    <3> QED
      BY <2>1, <3>2 DEF Filled
  <2>2. CASE ~(k \in fired /\ ~Misaligned(u.op))
    BY <2>2 DEF FillsTo
  <2> QED
    BY <2>1, <2>2
\* After the write-back.
<1>4. /\ f \in SlotType /\ f.valid = e.valid /\ f.isStore = e.isStore /\ f.robTag = e.robTag
      /\ f.access = e.access /\ f.address = a.address
      /\ f.data = IF k \in wake /\ a.data = NotReady THEN datum ELSE a.data
  <2>1. CASE k \in wake
    <3>1. f = SnoopSlot(a, datum)
      BY <2>1 DEF datum, FillsTo
    <3>2. a.valid /\ a.isStore
      BY <1>2, <1>3, <2>1 DEF StepsTo
    <3>3. Filled(f, a, a.address, IF a.valid /\ a.isStore /\ a.data = NotReady THEN datum ELSE a.data)
      <4>1. a \in SlotType /\ datum \in Maybe(Words)
        BY <1>1, <1>3
      <4> QED
        BY <4>1, <3>1, SnoopedSlotIs
    <3>4. f.data = IF a.data = NotReady THEN datum ELSE a.data
      BY <3>2, <3>3 DEF Filled
    <3> QED
      BY <1>3, <2>1, <3>3, <3>4 DEF Filled
  <2>2. CASE k \notin wake
    BY <1>3, <2>2 DEF FillsTo
  <2> QED
    BY <2>1, <2>2
<1>5. f.address = IF v.state = "iq" \/ Misaligned(v.op) THEN NotReady ELSE place
  BY <1>2, <1>3, <1>4 DEF StepsTo
<1>6. f.data \in {NotReady, datum}
  BY <1>2, <1>3, <1>4
<1>7. v.op.write /\ ~Misaligned(v.op) /\ v.state # "iq" /\ (v.produced \/ v.op.x0) => f.data = datum
  BY <1>1, <1>2, <1>3, <1>4 DEF StepsTo
<1> QED
  BY <1>2, <1>4, <1>5, <1>6, <1>7 DEF Holds, place, datum, StepsTo

\* v is u with these fields changed.
Changed(v, u, produced, state, result) ==
    /\ v \in RobType /\ v.op = u.op /\ v.lsqTag = u.lsqTag
    /\ v.produced = produced /\ v.state = state /\ v.result = result

LEMMA ChangedIs ==
  ASSUME NEW u \in RobType, NEW p \in BOOLEAN, NEW r \in Maybe(Words),
         NEW st \in {"iq", "issued", "complete", "exception"}
  PROVE  Changed([u EXCEPT !.produced = p, !.state = st, !.result = r], u, p, st, r)
<1> DEFINE v == [u EXCEPT !.produced = p, !.state = st, !.result = r]
<1>1. v.op = u.op /\ v.lsqTag = u.lsqTag /\ v.produced = p /\ v.state = st /\ v.result = r
  BY SMTT(60) DEF RobType
<1>2. v \in RobType
  BY DEF RobType
<1> QED
  BY <1>1, <1>2 DEF Changed

LEMMA SeqIs ==
  ASSUME NEW n \in Nat, NEW T, NEW f \in [1..n -> T]
  PROVE  f \in Seq(T) /\ Len(f) = n
  BY SMTT(60)

\* What one clock may do to the operations in flight.
Allowed(fired, wake, resolved) ==
    /\ fired \subseteq Waiting /\ (\A i, j \in fired : i = j)
    /\ wake \subseteq Unproduced /\ resolved \subseteq Unresolved

NewState(i, fired, resolved) ==
    IF completes(i) THEN IF completion[1].exception THEN "exception" ELSE "complete"
    ELSE IF i \in fired \cup resolved THEN "issued"
    ELSE IF rob[i].state = "issued" /\ ~IsMemory(i) THEN "complete" ELSE rob[i].state
NewResult(i) == IF completes(i) THEN completion[1].result ELSE rob[i].result

Updates(s, fired, wake, resolved) ==
    /\ s \in Seq(RobType) /\ Len(s) = Len(rob)
    /\ \A i \in 1..Len(rob) :
          Changed(s[i], rob[i], rob[i].produced \/ i \in wake, NewState(i, fired, resolved), NewResult(i))

LEMMA UpdatedRobIs ==
  ASSUME Types, NEW fired, NEW wake, NEW resolved
  PROVE  Updates(UpdatedRob(fired, wake, resolved), fired, wake, resolved)
<1> DEFINE E(i) == [rob[i] EXCEPT !.produced = rob[i].produced \/ i \in wake,
                                  !.state = NewState(i, fired, resolved),
                                  !.result = NewResult(i)]
           s == UpdatedRob(fired, wake, resolved)
<1>1. /\ rob \in Seq(RobType) /\ completion \in Maybe(CompletionType)
  BY DEF Types
<1>2. s = [i \in 1..Len(rob) |-> E(i)]
  BY DEF UpdatedRob, NewState, NewResult
<1> HIDE DEF s
<1>3. ASSUME NEW i \in 1..Len(rob)
      PROVE  Changed(E(i), rob[i], rob[i].produced \/ i \in wake, NewState(i, fired, resolved), NewResult(i))
  <2>1. /\ rob[i] \in RobType /\ rob[i].result \in Maybe(Words)
        /\ rob[i].state \in {"iq", "issued", "complete", "exception"}
    BY <1>1, RobFields
  <2>2. completion # None => completion[1].result \in Maybe(Words)
    <3> SUFFICES ASSUME completion # None PROVE completion[1].result \in Maybe(Words)
      BY SMTT(60)
    <3>1. PICK c \in CompletionType : completion = <<c>>
      BY <1>1 DEF Maybe, None
    <3>2. completion[1] = c
      BY <3>1, SomeIsNotNone
    <3> QED
      BY <3>2 DEF CompletionType
  <2>3. NewState(i, fired, resolved) \in {"iq", "issued", "complete", "exception"}
    BY <2>1 DEF NewState
  <2>4. NewResult(i) \in Maybe(Words)
    BY <2>1, <2>2 DEF NewResult, completes
  <2>5. (rob[i].produced \/ i \in wake) \in BOOLEAN
    OBVIOUS
  <2> QED
    BY <2>1, <2>3, <2>4, <2>5, ChangedIs
<1> HIDE DEF E
<1>4. s \in [1..Len(rob) -> RobType] /\ \A i \in 1..Len(rob) : s[i] = E(i)
  BY <1>2, <1>3 DEF Changed
<1>5. Len(rob) \in Nat
  BY <1>1, RobFields
<1>6. s \in Seq(RobType) /\ Len(s) = Len(rob)
  BY <1>4, <1>5, SeqIs
<1> QED
  BY <1>3, <1>4, <1>6 DEF Updates, s

\* The slot of the LSQ after the issue and the write-backs of a clock.
IssuedAt(fired, x) == {i \in fired : rob[i].lsqTag = x /\ ~misaligned(i)}
WokenAt(wake, x) == {i \in wake : rob[i].lsqTag = x}
One(set) == CHOOSE i \in set : TRUE
AddressedAt(fired, wake, x) ==
    IF IssuedAt(fired, x) = {} THEN lsq.entries[x]
    ELSE UpdateSlot(lsq.entries[x],
                    <<[addr |-> op(One(IssuedAt(fired, x))).addr,
                       offset |-> op(One(IssuedAt(fired, x))).offset]>>,
                    discovered(One(IssuedAt(fired, x)), wake))
SlotAfter(fired, wake, x) ==
    IF WokenAt(wake, x) = {} THEN AddressedAt(fired, wake, x)
    ELSE SnoopSlot(AddressedAt(fired, wake, x), <<op(One(WokenAt(wake, x))).data>>)

LEMMA OneIs == \A i : One({i}) = i /\ {i} # {}
  BY SMTT(60) DEF One

\* The slot of the memory operation at place i.
LEMMA SlotAfterIs ==
  ASSUME Types, Linked(rob, robHead, lsq), \A k \in 1..Len(rob) : completes(k) => Awaits(k),
         NEW fired, NEW wake, NEW resolved, Allowed(fired, wake, resolved),
         NEW s, Updates(s, fired, wake, resolved), NEW i \in 1..Len(rob), IsMemory(i),
         NEW tag, Holds(lsq.entries[rob[i].lsqTag], rob[i], tag)
  PROVE  /\ SlotAfter(fired, wake, rob[i].lsqTag) \in SlotType
         /\ Holds(SlotAfter(fired, wake, rob[i].lsqTag), s[i], tag)
<1> DEFINE x == rob[i].lsqTag
           e == lsq.entries[x]
           u == rob[i]
           a == AddressedAt(fired, wake, x)
<1>1. rob \in Seq(RobType) /\ lsq \in LsqType
  BY DEF Types, Linked
<1>2. x \in LsqSlots /\ e \in SlotType /\ u.op \in MemoryOps
  <2>1. x \in LsqSlots /\ u.op \in Ops /\ u.op.kind = "memory"
    BY <1>1, RobFields DEF IsMemory, op
  <2>2. \A o \in Ops : o.kind = "memory" => o \in MemoryOps
    BY SMTT(60) DEF Ops
  <2> QED
    BY <1>1, <2>1, <2>2, LsqFields
<1>3. ASSUME NEW j \in 1..Len(rob), IsMemory(j), rob[j].lsqTag = x PROVE j = i
  BY <1>1, <1>3, SlotsDiffer DEF IsMemory, isMem, op
<1>4. /\ \A j \in fired : j \in 1..Len(rob) /\ IsMemory(j) /\ rob[j].state = "iq"
      /\ \A j \in wake : j \in 1..Len(rob) /\ IsMemory(j) /\ op(j).write
      /\ i \notin resolved
  BY DEF Allowed, Waiting, Unproduced, Unresolved, IsStore
<1>5. IssuedAt(fired, x) = IF i \in fired /\ ~misaligned(i) THEN {i} ELSE {}
  BY <1>3, <1>4 DEF IssuedAt
<1>6. WokenAt(wake, x) = IF i \in wake THEN {i} ELSE {}
  BY <1>3, <1>4 DEF WokenAt
<1>7. misaligned(i) <=> Misaligned(u.op)
  BY DEF misaligned, Misaligned, op
<1>8. a = IF i \in fired /\ ~Misaligned(u.op)
          THEN UpdateSlot(e, <<[addr |-> u.op.addr, offset |-> u.op.offset]>>,
                   IF u.op.write /\ (u.produced \/ i \in wake \/ u.op.x0) THEN <<u.op.data>> ELSE NotReady)
          ELSE e
  <2>1. discovered(i, wake)
          = IF u.op.write /\ (u.produced \/ i \in wake \/ u.op.x0) THEN <<u.op.data>> ELSE NotReady
    BY DEF discovered, IsStore, op
  <2>2. CASE i \in fired /\ ~misaligned(i)
    <3>1. IssuedAt(fired, x) # {} /\ One(IssuedAt(fired, x)) = i
      BY <1>5, <2>2, OneIs
    <3> QED
      BY <1>7, <2>1, <2>2, <3>1 DEF AddressedAt, op
  <2>3. CASE ~(i \in fired /\ ~misaligned(i))
    BY <1>5, <1>7, <2>3 DEF AddressedAt
  <2> QED
    BY <2>2, <2>3
<1>9. SlotAfter(fired, wake, x) = IF i \in wake THEN SnoopSlot(a, <<u.op.data>>) ELSE a
  BY <1>6, OneIs DEF SlotAfter, op
<1>10. /\ s[i].op = u.op /\ (s[i].produced <=> (u.produced \/ i \in wake))
       /\ s[i].state = NewState(i, fired, resolved)
  BY DEF Updates, Changed
<1>11. s[i].state = "iq" <=> (u.state = "iq" /\ i \notin fired)
  <2>1. i \in fired => u.state = "iq"
    BY <1>4
  <2>2. completes(i) => u.state = "issued"
    BY DEF Awaits
  <2> QED
    BY <1>4, <1>10, <2>1, <2>2, SMTT(60) DEF NewState
<1>12. (i \in fired => u.state = "iq") /\ (i \in wake => u.op.write)
  BY <1>4 DEF op
<1> HIDE DEF a, e, u, x
<1>14. Holds(e, u, tag)
  BY DEF e, u, x
<1>15. StepsTo(u, s[i], i, fired, wake)
  BY <1>10, <1>11, <1>12 DEF StepsTo
<1>16. FillsTo(e, u, i, fired, wake, a, SlotAfter(fired, wake, x))
  BY <1>8, <1>9 DEF FillsTo
<1>17. SlotAfter(fired, wake, x) \in SlotType /\ Holds(SlotAfter(fired, wake, x), s[i], tag)
  BY <1>2, <1>14, <1>15, <1>16, SlotKeeps
<1> QED
  BY <1>17 DEF x

\* Issue, write-back and completion keep the LSQ and the ROB together.
LEMMA UpdateLinks ==
  ASSUME Types, Linked(rob, robHead, lsq), \A k \in 1..Len(rob) : completes(k) => Awaits(k),
         NEW fired, NEW wake, NEW resolved, Allowed(fired, wake, resolved),
         NEW s, Updates(s, fired, wake, resolved)
  PROVE  Linked(s, robHead, UpdatedLsq(fired, wake))
<1> DEFINE a == UpdatedLsq(fired, wake)
           es == [x \in LsqSlots |-> SlotAfter(fired, wake, x)]
<1>1. /\ Slotted(rob, robHead, lsq) /\ Ordered(rob, lsq) /\ Onto(rob, lsq) /\ Clean(lsq)
      /\ lsq \in LsqType /\ rob \in Seq(RobType) /\ lsq.tailPtr = lsqAddPtr(lsq.headPtr, lsq.entryCount)
  BY DEF Linked, Types
<1>2. lsq.entries \in [LsqSlots -> SlotType]
  BY <1>1, LsqFields
<1>3. a = [lsq EXCEPT !.entries = es]
  BY DEF UpdatedLsq, SlotAfter, AddressedAt, IssuedAt, WokenAt, One
<1>4. /\ a.headPtr = lsq.headPtr /\ a.tailPtr = lsq.tailPtr /\ a.entryCount = lsq.entryCount
      /\ a.entries = es
  <2> HIDE DEF a, es
  <2>1. lsq \in LsqType
    BY <1>1
  <2> QED
    BY ONLY <1>3, <2>1, SMTT(60) DEF LsqType
<1>5. \A i \in 1..Len(rob) : Changed(s[i], rob[i], rob[i].produced \/ i \in wake, NewState(i, fired, resolved), NewResult(i))
  BY DEF Updates
<1>6. Len(s) = Len(rob) /\ \A i \in 1..Len(rob) : s[i].op = rob[i].op /\ s[i].lsqTag = rob[i].lsqTag
  BY <1>5 DEF Updates, Changed
<1>7. ASSUME NEW i \in 1..Len(rob), isMem(rob[i].op)
      PROVE  /\ es[rob[i].lsqTag] \in SlotType /\ rob[i].lsqTag \in LsqSlots
             /\ Holds(es[rob[i].lsqTag], s[i], (robHead + (i - 1)) % RobDepth)
  <2>1. Holds(lsq.entries[rob[i].lsqTag], rob[i], (robHead + (i - 1)) % RobDepth) /\ IsMemory(i)
    BY <1>1, <1>7 DEF Slotted, isMem, IsMemory, op
  <2>2. rob[i].lsqTag \in LsqSlots
    BY <1>1, RobFields
  <2>3. es[rob[i].lsqTag] = SlotAfter(fired, wake, rob[i].lsqTag)
    BY <2>2
  <2>4. /\ SlotAfter(fired, wake, rob[i].lsqTag) \in SlotType
        /\ Holds(SlotAfter(fired, wake, rob[i].lsqTag), s[i], (robHead + (i - 1)) % RobDepth)
    BY <2>1, SlotAfterIs
  <2> QED
    BY <2>2, <2>3, <2>4
<1>8. ASSUME NEW x \in LsqSlots, \A i \in 1..Len(rob) : isMem(rob[i].op) => rob[i].lsqTag # x
      PROVE  es[x] = lsq.entries[x]
  <2>1. \A i \in fired \cup wake : i \in 1..Len(rob) /\ isMem(rob[i].op)
    BY DEF Allowed, Waiting, Unproduced, IsStore, IsMemory, isMem, op
  <2>2. IssuedAt(fired, x) = {} /\ WokenAt(wake, x) = {}
    BY <1>8, <2>1 DEF IssuedAt, WokenAt
  <2> QED
    BY <2>2 DEF SlotAfter, AddressedAt
<1> HIDE DEF es, a
<1>9. \A x : Dist(a, x) = Dist(lsq, x)
  BY <1>4 DEF Dist
<1>10. es \in [LsqSlots -> SlotType]
  <2>1. ASSUME NEW x \in LsqSlots PROVE es[x] \in SlotType
    BY <1>2, <1>7, <1>8
  <2> QED
    BY <2>1 DEF es
<1>11. a \in LsqType
  BY <1>1, <1>3, <1>10 DEF LsqType
<1>12. Slotted(s, robHead, a)
  <2> SUFFICES ASSUME NEW i \in 1..Len(s), isMem(s[i].op)
               PROVE  /\ Dist(a, s[i].lsqTag) < a.entryCount
                      /\ Holds(a.entries[s[i].lsqTag], s[i], (robHead + (i - 1)) % RobDepth)
    BY DEF Slotted
  <2>1. i \in 1..Len(rob) /\ isMem(rob[i].op) /\ s[i].lsqTag = rob[i].lsqTag
    BY <1>6
  <2>2. Dist(lsq, rob[i].lsqTag) < lsq.entryCount
    BY <1>1, <2>1 DEF Slotted
  <2> QED
    BY <1>4, <1>7, <1>9, <2>1, <2>2
<1>13. Ordered(s, a)
  BY <1>1, <1>6, <1>9 DEF Ordered
<1>14. Onto(s, a)
  BY <1>1, <1>4, <1>6, <1>9 DEF Onto
<1>15. Clean(a)
  <2> SUFFICES ASSUME NEW x \in LsqSlots, ~(Dist(a, x) < a.entryCount) PROVE ~a.entries[x].valid
    BY DEF Clean
  <2>1. ~(Dist(lsq, x) < lsq.entryCount)
    BY <1>4, <1>9
  <2>2. \A i \in 1..Len(rob) : isMem(rob[i].op) => rob[i].lsqTag # x
    BY <1>1, <2>1 DEF Slotted
  <2> QED
    BY <1>1, <1>4, <1>8, <2>1, <2>2 DEF Clean
<1> QED
  BY <1>1, <1>4, <1>11, <1>12, <1>13, <1>14, <1>15 DEF Linked, a

--------------------------------------------------------------------------------
(* A clock for the two rings.                                                  *)

\* The operations of s and new ones behind them.
Joined(s, t) ==
    /\ t \in Seq(RobType) /\ Len(s) \in Nat /\ Len(t) \in Nat /\ Len(s) <= Len(t)
    /\ \A i \in 1..Len(s) : t[i] = s[i] /\ i \in 1..Len(t)
    /\ \A i \in 1..Len(t) : i \in 1..Len(s) \/ (t[i].state = "iq" /\ t[i].result = None)

Entered(u, o, x) ==
    u \in RobType /\ u.op = o /\ u.lsqTag = x /\ u.state = "iq" /\ u.result = None

LEMMA EntryIs ==
  ASSUME NEW o \in Ops, NEW x \in LsqSlots
  PROVE  Entered(robEntry(o, x), o, x)
<1> DEFINE u == robEntry(o, x)
<1>1. u.op = o /\ u.lsqTag = x /\ u.state = "iq" /\ u.result = None
  BY SMTT(60) DEF robEntry
<1>2. (isMem(o) /\ o.write /\ ~o.late) \in BOOLEAN
  BY SMTT(60)
<1>3. None \in Maybe(Words)
  BY DEF Maybe, None
<1> HIDE DEF None
<1>4. u \in RobType
  BY <1>2, <1>3 DEF robEntry, RobType
<1> QED
  BY <1>1, <1>4 DEF Entered

LaneJoins(s, q, o, d) ==
    /\ Joined(s, d.rob) /\ Linked(d.rob, robHead, d.lsq) /\ Len(d.rob) = Len(s) + 1
    /\ d.lsq.entryCount = q.entryCount + (IF isMem(o) THEN 1 ELSE 0)
    /\ d = [rob |-> d.rob, lsq |-> d.lsq]

LEMMA LaneKeeps ==
  ASSUME robHead \in Tags, NEW s \in Seq(RobType), NEW q, Linked(s, robHead, q), NEW o \in Ops,
         isMem(o) => q.entryCount < LsqDepth
  PROVE  LaneJoins(s, q, o, DispatchLane([rob |-> s, lsq |-> q], o))
<1> DEFINE x == IF isMem(o) THEN q.tailPtr ELSE 0
           u == robEntry(o, x)
           tag == (robHead + Len(s)) % RobDepth
           d == DispatchLane([rob |-> s, lsq |-> q], o)
<1> SUFFICES LaneJoins(s, q, o, d)
  BY SMTT(60)
<1>1. /\ d.rob = Append(s, u) /\ d.lsq = IF isMem(o) THEN AllocateSlot(q, tag, o) ELSE q
      /\ d = [rob |-> d.rob, lsq |-> d.lsq]
  BY SMTT(60) DEF DispatchLane
<1>2. q \in LsqType
  BY DEF Linked
<1>3. x \in LsqSlots
  <2>1. 0 \in LsqSlots
    BY LsqDepthAssumption, SMTT(60) DEF LsqSlots
  <2> QED
    BY <1>2, <2>1, LsqFields
<1>4. u \in RobType /\ u.op = o /\ u.lsqTag = x /\ u.state = "iq" /\ u.result = None
  <2>1. Entered(u, o, x)
    BY <1>3, EntryIs
  <2> HIDE DEF u
  <2> QED
    BY <2>1 DEF Entered
<1>5. Appended(s, u, Append(s, u)) /\ Append(s, u) \in Seq(RobType)
  <2>1. Appended(s, u, Append(s, u))
    BY AppendIs
  <2> HIDE DEF u
  <2> QED
    BY <1>4, <2>1, SMTT(60)
<1> HIDE DEF u, x, d
<1>6. Joined(s, d.rob) /\ Len(d.rob) = Len(s) + 1
  <2>1. Len(s) \in Nat /\ Len(d.rob) = Len(s) + 1
    BY <1>1, <1>5 DEF Appended
  <2>2. Len(d.rob) \in Nat /\ Len(s) <= Len(d.rob)
    BY <2>1, SMTT(60)
  <2>3. \A i \in 1..Len(s) : d.rob[i] = s[i] /\ i \in 1..Len(d.rob)
    BY <1>1, <1>5 DEF Appended
  <2>4. \A i \in 1..Len(d.rob) : i \in 1..Len(s) \/ (d.rob[i].state = "iq" /\ d.rob[i].result = None)
    BY <1>1, <1>4, <1>5 DEF Appended
  <2> QED
    BY <1>1, <1>5, <2>1, <2>2, <2>3, <2>4 DEF Joined
<1>7. CASE isMem(o)
  <2>1. o \in MemoryOps
    BY <1>7, SMTT(60) DEF Ops, isMem
  <2>2. tag \in Tags
    <3>1. Len(s) \in Nat /\ RobDepth \in Nat \ {0} /\ robHead \in Nat
      BY RobFields, RobDepthAssumption, SMTT(60) DEF Tags
    <3> QED
      BY <3>1, SMTT(60) DEF Tags
  <2>3. x = q.tailPtr
    BY <1>7 DEF x
  <2>4. d.lsq = AllocateSlot(q, tag, o)
    BY <1>1, <1>7
  <2>5. d.lsq.entryCount = q.entryCount + 1
    <3>1. Allocated(q, tag, o, d.lsq)
      BY <1>2, <1>7, <2>1, <2>2, <2>4, AllocatedIs
    <3> QED
      BY <3>1 DEF Allocated
  <2>6. Linked(Append(s, robEntry(o, q.tailPtr)), robHead, AllocateSlot(q, tag, o))
    BY <1>7, <2>1, <2>2, LaneLinks
  <2>7. Linked(d.rob, robHead, d.lsq)
    BY <1>1, <2>3, <2>4, <2>6 DEF u
  <2> QED
    BY <1>1, <1>6, <1>7, <2>5, <2>7 DEF LaneJoins
<1>8. CASE ~isMem(o)
  <2>1. Linked(Append(s, u), robHead, q)
    BY <1>4, <1>8, BranchLinks
  <2>2. q.entryCount \in Nat
    BY <1>2, LsqFields
  <2>3. q.entryCount = q.entryCount + (IF isMem(o) THEN 1 ELSE 0)
    BY <1>8, <2>2, SMTT(60)
  <2> QED
    BY <1>1, <1>6, <1>8, <2>1, <2>3 DEF LaneJoins
<1> QED
  BY <1>7, <1>8

\* What the dispatch may present, by the occupancy n of the ROB and c of the LSQ.
Fits(ops, n, c) ==
    \/ Len(ops) = 0
    \/ Len(ops) = 1 /\ ops[1] \in Ops /\ n < RobDepth /\ (isMem(ops[1]) => c < LsqDepth)
    \/ /\ Len(ops) = 2 /\ ops[1] \in Ops /\ ops[2] \in Ops /\ n + 1 < RobDepth
       /\ isMem(ops[1]) => c < LsqDepth
       /\ isMem(ops[2]) => c + (IF isMem(ops[1]) THEN 1 ELSE 0) < LsqDepth

LEMMA AcceptedFits ==
  ASSUME Types, Linked(rob, robHead, lsq), NEW g \in workload \cup {<<>>}
  PROVE  Fits(acceptedLanes(g), Len(rob), lsq.entryCount)
<1> DEFINE c == lsq.entryCount
           n == Len(rob)
           lane1 == n < RobDepth /\ (isMem(g[1]) => allocReady(lsq, 0))
           lane2 == /\ lane1 /\ Len(g) = 2 /\ n + 1 < RobDepth
                    /\ isMem(g[2]) => allocReady(lsq, IF isMem(g[1]) THEN 1 ELSE 0)
<1>1. acceptedLanes(g) = IF g = <<>> \/ ~lane1 THEN <<>> ELSE IF lane2 THEN g ELSE <<g[1]>>
  BY DEF acceptedLanes
<1>2. n \in Nat /\ c \in Nat /\ LsqDepth \in Nat
  BY LsqFields, RobFields DEF Types, Linked
<1>3. /\ allocReady(lsq, 0) => c < LsqDepth
      /\ allocReady(lsq, 1) => c + 1 < LsqDepth
      /\ allocReady(lsq, 0) => c + 0 < LsqDepth
  BY <1>2, SMTT(60) DEF allocReady
<1>4. CASE g = <<>> \/ ~lane1
  <2>1. acceptedLanes(g) = <<>>
    BY <1>1, <1>4
  <2>2. Len(<<>>) = 0
    BY SMTT(60)
  <2> QED
    BY <2>1, <2>2 DEF Fits
<1>5. CASE ~(g = <<>> \/ ~lane1)
  <2>1. g \in Seq(Ops) /\ Len(g) \in {1, 2}
    <3>1. g \in workload /\ workload \in Workloads
      BY <1>5 DEF Types
    <3> QED
      BY <3>1, GroupsAssumption
  <2>2. g[1] \in Ops /\ (Len(g) = 2 => g[2] \in Ops)
    BY <2>1, SMTT(60)
  <2>3. CASE lane2
    <3>1. acceptedLanes(g) = g
      BY <1>1, <1>5, <2>3
    <3>2. isMem(g[2]) => c + (IF isMem(g[1]) THEN 1 ELSE 0) < LsqDepth
      BY <1>3, <2>3
    <3> QED
      BY <1>3, <1>5, <2>2, <2>3, <3>1, <3>2 DEF Fits
  <2>4. CASE ~lane2
    <3>1. acceptedLanes(g) = <<g[1]>>
      BY <1>1, <1>5, <2>4
    <3>2. Len(<<g[1]>>) = 1 /\ <<g[1]>>[1] = g[1]
      BY SMTT(60)
    <3> QED
      BY <1>3, <1>5, <2>2, <3>1, <3>2 DEF Fits
  <2> QED
    BY <2>3, <2>4
<1> QED
  BY <1>4, <1>5

LEMMA DispatchLinks ==
  ASSUME robHead \in Tags, NEW s \in Seq(RobType), Len(s) <= RobDepth,
         NEW q, Linked(s, robHead, q), NEW ops, Fits(ops, Len(s), q.entryCount),
         NEW d, d = DispatchGroup([rob |-> s, lsq |-> q], ops)
  PROVE  /\ Joined(s, d.rob) /\ Linked(d.rob, robHead, d.lsq) /\ Len(d.rob) <= RobDepth
<1>1. Len(s) \in Nat /\ RobDepth \in Nat
  BY RobFields, RobDepthAssumption, SMTT(60)
<1>2. CASE Len(ops) = 0
  <2>1. d = [rob |-> s, lsq |-> q]
    BY <1>2, SMTT(60) DEF DispatchGroup
  <2>2. d.rob = s /\ d.lsq = q
    BY <2>1, SMTT(60)
  <2>3. Joined(s, s)
    BY <1>1, SMTT(60) DEF Joined
  <2> QED
    BY <2>2, <2>3
<1>3. CASE Len(ops) = 1
  <2>1. d = DispatchLane([rob |-> s, lsq |-> q], ops[1])
    BY <1>3, SMTT(60) DEF DispatchGroup
  <2>2. ops[1] \in Ops /\ Len(s) < RobDepth /\ (isMem(ops[1]) => q.entryCount < LsqDepth)
    BY <1>3, SMTT(60) DEF Fits
  <2>3. Joined(s, d.rob) /\ Linked(d.rob, robHead, d.lsq) /\ Len(d.rob) = Len(s) + 1
    <3>1. LaneJoins(s, q, ops[1], d)
      BY <2>1, <2>2, LaneKeeps
    <3> QED
      BY <3>1 DEF LaneJoins
  <2>4. Len(s) + 1 <= RobDepth
    BY <1>1, <2>2, SMTT(60)
  <2> QED
    BY <2>3, <2>4
<1>4. CASE Len(ops) = 2
  <2> DEFINE e == DispatchLane([rob |-> s, lsq |-> q], ops[1])
  <2>1. d = DispatchLane(e, ops[2])
    BY <1>4, SMTT(60) DEF DispatchGroup
  <2>2. /\ ops[1] \in Ops /\ ops[2] \in Ops /\ Len(s) + 1 < RobDepth
        /\ isMem(ops[1]) => q.entryCount < LsqDepth
        /\ isMem(ops[2]) => q.entryCount + (IF isMem(ops[1]) THEN 1 ELSE 0) < LsqDepth
    BY <1>4, SMTT(60) DEF Fits
  <2> HIDE DEF e
  <2>3. /\ Joined(s, e.rob) /\ Linked(e.rob, robHead, e.lsq) /\ Len(e.rob) = Len(s) + 1
        /\ e.lsq.entryCount = q.entryCount + (IF isMem(ops[1]) THEN 1 ELSE 0)
        /\ e = [rob |-> e.rob, lsq |-> e.lsq]
    <3>1. LaneJoins(s, q, ops[1], e)
      BY <2>2, LaneKeeps DEF e
    <3> QED
      BY <3>1 DEF LaneJoins
  <2>4. e.rob \in Seq(RobType)
    BY <2>3 DEF Joined
  <2>5. /\ Joined(e.rob, d.rob) /\ Linked(d.rob, robHead, d.lsq) /\ Len(d.rob) = Len(e.rob) + 1
    <3>1. d = DispatchLane([rob |-> e.rob, lsq |-> e.lsq], ops[2])
      BY <2>1, <2>3
    <3>2. isMem(ops[2]) => e.lsq.entryCount < LsqDepth
      BY <2>2, <2>3
    <3>3. LaneJoins(e.rob, e.lsq, ops[2], d)
      BY <2>2, <2>3, <2>4, <3>1, <3>2, LaneKeeps
    <3> QED
      BY <3>3 DEF LaneJoins
  <2>6. Joined(s, d.rob)
    <3>1. Len(s) <= Len(d.rob)
      BY <2>3, <2>5, SMTT(60) DEF Joined
    <3> QED
      BY <2>3, <2>5, <3>1 DEF Joined
  <2>7. (Len(s) + 1) + 1 <= RobDepth
    BY <1>1, <2>2, SMTT(60)
  <2> QED
    BY <2>3, <2>5, <2>6, <2>7
<1> QED
  BY <1>2, <1>3, <1>4 DEF Fits

LEMMA UpToIs ==
  ASSUME Counting, NEW r \in Nat
  PROVE  Cardinality(1..r) = r
<1> DEFINE f == [k \in 0..(r - 1) |-> k + 1]
<1>1. \A k \in 0..(r - 1) : f[k] \in 1..r
  BY SMTT(60)
<1>2. \A x \in 1..r : x - 1 \in 0..(r - 1) /\ f[x - 1] = x
  BY SMTT(60)
<1>3. \A j, k \in 0..(r - 1) : f[j] = f[k] => j = k
  BY SMTT(60)
<1> HIDE DEF f
<1>4. Enumerates(f, r, 1..r)
  BY <1>1, <1>2, <1>3 DEF Enumerates
<1> QED
  BY <1>4 DEF Counting

\* The first r operations retire.
LEMMA PrefixRetires ==
  ASSUME Least, Counting, NEW s \in Seq(RobType), NEW h \in Tags, NEW q, Linked(s, h, q),
         Len(s) <= RobDepth, NEW r \in 0..Len(s)
  PROVE  Linked(SubSeq(s, r + 1, Len(s)), (h + r) % RobDepth,
                RetireSlots(q, Cardinality({i \in 1..r : isMem(s[i].op)})))
<1>1. PICK m \in 0..q.entryCount : FirstSlots(s, q, r, m)
  BY KeptPrefix
<1>2. Len(s) \in Nat /\ \A i \in 1..Len(s) : s[i].lsqTag \in LsqSlots
  BY RobFields
<1>3. r \in Nat /\ r <= Len(s) /\ \A i \in 1..Len(s) : i <= r <=> i \in 1..r
  BY <1>2, SMTT(60)
<1>4. q.entryCount \in Nat /\ q \in LsqType
  BY LsqFields DEF Linked
<1>5. m \in Nat /\ m <= q.entryCount
  BY <1>4, SMTT(60)
<1>6. ASSUME NEW i \in 1..Len(s), isMem(s[i].op)
      PROVE  i <= r <=> Dist(q, s[i].lsqTag) < m
  <2>1. Dist(q, s[i].lsqTag) < m <=> KeptAt(s, r, s[i].lsqTag)
    BY <1>1, <1>2 DEF FirstSlots
  <2>2. ASSUME NEW j \in 1..r, isMem(s[j].op), s[j].lsqTag = s[i].lsqTag PROVE j = i
    <3>1. j \in 1..Len(s)
      BY <1>2, SMTT(60)
    <3> QED
      BY <1>6, <2>2, <3>1, SlotsDiffer
  <2> QED
    BY <1>3, <1>6, <2>1, <2>2 DEF KeptAt
<1>7. Linked(SubSeq(s, r + 1, Len(s)), (h + r) % RobDepth, RetireSlots(q, m))
  BY <1>3, <1>5, <1>6, RetireLinks
<1>8. Cardinality({i \in 1..r : isMem(s[i].op)}) = m
  BY <1>1 DEF FirstSlots
<1> QED
  BY <1>7, <1>8

--------------------------------------------------------------------------------
(* Replaying operations on memory.                                             *)

\* Induction up to a bound, for a set of numbers.
LEMMA InductionTo ==
  ASSUME Least, NEW m \in Nat, NEW S, 0 \in S, \A n \in 1..m : n - 1 \in S => n \in S
  PROVE  \A n \in 0..m : n \in S
<1> SUFFICES ASSUME NEW n \in 0..m, n \notin S PROVE FALSE
  BY SMTT(60)
<1> DEFINE Bad == {k \in 0..m : k \notin S}
<1>1. Bad \in SUBSET Nat /\ Bad # {}
  BY SMTT(60)
<1> HIDE DEF Bad
<1>2. PICK p \in Bad : \A q \in Bad : p <= q
  BY <1>1 DEF Least
<1> USE DEF Bad
<1>3. p \in 1..m
  BY <1>2, SMTT(60)
<1>4. p - 1 \in 0..m /\ ~(p <= p - 1)
  BY <1>3, SMTT(60)
<1>5. p - 1 \in S
  BY <1>2, <1>4, SMTT(60)
<1> QED
  BY <1>2, <1>3, <1>5, SMTT(60)

StoreStep(words, o) == IF o.write THEN Memory!Written(words, o) ELSE words

\* f is the memory after each of the operations.
Runs(f, words, ops) ==
    f[0] = words /\ \A n \in 1..Len(ops) : f[n] = StoreStep(f[n - 1], ops[n])

\* The recursive Replay is a function and unfolds one operation at a time.
LEMMA ReplayRuns ==
  ASSUME Least, NEW words, NEW ops, Len(ops) \in Nat
  PROVE  Runs(Replay(words, ops), words, ops)
<1> DEFINE Step(f, n) == IF n = 0 THEN words
                         ELSE IF ops[n].write THEN Memory!Written(f[n - 1], ops[n]) ELSE f[n - 1]
           N == Len(ops)
           Has == {m \in 0..N : \E f : f = [n \in 0..m |-> Step(f, n)]}
<1>1. 0 \in Has
  <2> DEFINE f == [n \in 0..0 |-> words]
  <2>1. f = [n \in 0..0 |-> Step(f, n)]
    <3>1. \A n \in 0..0 : Step(f, n) = words
      BY SMTT(60)
    <3> HIDE DEF Step
    <3> QED
      BY <3>1, SMTT(60)
  <2>2. \E h : h = [n \in 0..0 |-> Step(h, n)]
    <3> HIDE DEF f, Step
    <3> QED
      BY <2>1
  <2>3. 0 \in 0..N
    BY SMTT(60)
  <2> QED
    BY <2>2, <2>3
<1>2. ASSUME NEW m \in 1..N, m - 1 \in Has PROVE m \in Has
  <2>1. PICK f : f = [n \in 0..(m - 1) |-> Step(f, n)]
    BY <1>2, SMTT(60)
  <2> DEFINE g == [n \in 0..m |-> IF n = m THEN Step(f, m) ELSE f[n]]
  <2>2. ASSUME NEW n \in 0..m PROVE g[n] = Step(g, n)
    <3>0. n # 0 => n - 1 \in 0..m /\ n - 1 # m /\ g[n - 1] = f[n - 1]
      BY SMTT(60)
    <3>1. Step(g, n) = Step(f, n)
      <4> HIDE DEF g
      <4> QED
        BY <3>0
    <3>2. CASE n = m
      <4> HIDE DEF Step
      <4> QED
        BY <3>1, <3>2, SMTT(60)
    <3>3. CASE n # m
      <4>1. n \in 0..(m - 1) /\ g[n] = f[n]
        BY <3>3, SMTT(60)
      <4> HIDE DEF Step, g
      <4>2. f[n] = Step(f, n)
        BY <2>1, <4>1, SMTT(60)
      <4> QED
        BY <3>1, <4>1, <4>2
    <3> QED
      BY <3>2, <3>3
  <2>3. g = [n \in 0..m |-> Step(g, n)]
    <3> HIDE DEF Step
    <3> QED
      BY <2>2, SMTT(60)
  <2>4. \E h : h = [n \in 0..m |-> Step(h, n)]
    <3> HIDE DEF g, Step
    <3> QED
      BY <2>3
  <2>5. m \in 0..N
    BY SMTT(60)
  <2> QED
    BY <2>4, <2>5
<1>3. N \in Has
  <2> HIDE DEF Has
  <2>1. \A n \in 0..N : n \in Has
    BY <1>1, <1>2, InductionTo
  <2> QED
    BY <2>1, SMTT(60)
<1>4. PICK f : f = [n \in 0..N |-> Step(f, n)]
  BY <1>3, SMTT(60)
<1>5. Replay(words, ops) = [n \in 0..N |-> Step(Replay(words, ops), n)]
  BY <1>4 DEF Replay
<1> DEFINE r == Replay(words, ops)
<1>6. \A n \in 0..N : r[n] = Step(r, n)
  <2>1. r = [n \in 0..N |-> Step(r, n)]
    BY <1>5
  <2> HIDE DEF r, Step
  <2> QED
    BY <2>1, SMTT(60)
<1> HIDE DEF r
<1>7. 0 \in 0..N /\ \A n \in 1..N : n \in 0..N /\ n # 0
  BY SMTT(60)
<1>8. r[0] = words /\ \A n \in 1..N : r[n] = StoreStep(r[n - 1], ops[n])
  BY <1>6, <1>7 DEF StoreStep
<1> QED
  BY <1>8 DEF Runs, r

\* Operations that agree, from the same memory, leave the same memory.
Agree(more, ops, m, K) == \A n \in 1..K : more[n] = ops[m + n]
Follows(g, f, m, K) == \A n \in 0..K : g[n] = f[m + n]

LEMMA RunsFollow ==
  ASSUME Least, NEW f, NEW w, NEW ops, Runs(f, w, ops), Len(ops) \in Nat,
         NEW m \in Nat, NEW K \in Nat, m + K <= Len(ops),
         NEW g, NEW more, Runs(g, f[m], more), Len(more) \in Nat, K <= Len(more),
         Agree(more, ops, m, K)
  PROVE  Follows(g, f, m, K)
<1> DEFINE S == {n \in 0..K : g[n] = f[m + n]}
<1>1. 0 \in S
  <2>1. 0 \in 0..K /\ m + 0 = m
    BY SMTT(60)
  <2> QED
    BY <2>1 DEF Runs
<1>2. ASSUME NEW n \in 1..K, n - 1 \in S PROVE n \in S
  <2>1. n \in 0..K /\ n \in 1..Len(more) /\ m + n \in 1..Len(ops) /\ m + (n - 1) = (m + n) - 1
    BY SMTT(60)
  <2>2. g[n] = StoreStep(g[n - 1], more[n]) /\ f[m + n] = StoreStep(f[(m + n) - 1], ops[m + n])
    BY <2>1 DEF Runs
  <2>3. g[n - 1] = f[(m + n) - 1]
    BY <1>2, <2>1
  <2> QED
    BY <2>1, <2>2, <2>3 DEF Agree
<1> HIDE DEF S
<1>3. \A n \in 0..K : n \in S
  BY <1>1, <1>2, InductionTo
<1> QED
  BY <1>3 DEF S, Follows

\* A Store that memory can take.
Storable(o) ==
    o.write => /\ o.addr \in Addresses /\ o.offset \in Lanes /\ o.access \in StoreAccess
               /\ o.data \in Words

LEMMA AlignIs ==
  ASSUME NEW d \in Words, NEW access \in StoreAccess, NEW o \in Lanes
  PROVE  alignStoreData(d, access, o) \in Words
<1>1. CASE access \in {"BYTE", "HALF"}
  <2> DEFINE size == AccessBytes(access)
  <2>1. size \in Nat
    BY <1>1, SMTT(60) DEF AccessBytes
  <2> HIDE DEF size
  <2>2. \A l \in Lanes : (IF l >= o /\ l - o < size THEN d[l - o] ELSE 0) \in Bytes
    BY <2>1, SMTT(60) DEF Words, Lanes, Bytes
  <2>3. alignStoreData(d, access, o) = [l \in Lanes |-> IF l >= o /\ l - o < size THEN d[l - o] ELSE 0]
    BY <1>1 DEF alignStoreData, size
  <2> QED
    BY <2>2, <2>3 DEF Words
<1>2. CASE ~(access \in {"BYTE", "HALF"})
  BY <1>2 DEF alignStoreData
<1> QED
  BY <1>1, <1>2

\* The memory module has the same functions of a byte lane.
LEMMA SameLanes ==
  /\ \A access, o : Memory!storeByteMask(access, o) = storeByteMask(access, o)
  /\ \A d, access, o : Memory!alignStoreData(d, access, o) = alignStoreData(d, access, o)
  /\ \A w, access, o : Memory!formatLoadData(w, access, o) = formatLoadData(w, access, o)
  /\ \A w, mask, d : Memory!MergeWord(w, mask, d) = MergeWord(w, mask, d)
<1>1. Memory!Lanes = Lanes
  BY DEF Memory!Lanes, Lanes
<1>2. \A access : Memory!AccessBytes(access) = AccessBytes(access)
  BY DEF Memory!AccessBytes, AccessBytes
<1>3. \A access, o : Memory!storeByteMask(access, o) = storeByteMask(access, o)
  BY <1>1 DEF Memory!storeByteMask, storeByteMask
<1>4. \A d, access, o : Memory!alignStoreData(d, access, o) = alignStoreData(d, access, o)
  BY <1>1, <1>2 DEF Memory!alignStoreData, alignStoreData
<1>6. \A w, access, o : Memory!formatLoadData(w, access, o) = formatLoadData(w, access, o)
  BY DEF Memory!formatLoadData, formatLoadData, Memory!Lanes, Lanes, Memory!AccessBytes,
     AccessBytes, Memory!SignByte, SignByte
<1>7. \A w, mask, d : Memory!MergeWord(w, mask, d) = MergeWord(w, mask, d)
  BY <1>1 DEF Memory!MergeWord, MergeWord
<1> QED
  BY <1>3, <1>4, <1>6, <1>7

\* The operation writes this byte.
Writes(o, a, l) == o.write /\ o.addr = a /\ l \in storeByteMask(o.access, o.offset)

\* Memory v is w after operation o, which writes the lanes of its mask.
Stepped(w, o, v) ==
    /\ v \in [Addresses -> Words]
    /\ \A a \in Addresses, l \in Lanes :
          v[a][l] = IF Writes(o, a, l) THEN alignStoreData(o.data, o.access, o.offset)[l] ELSE w[a][l]
    /\ \A a \in Addresses : a # o.addr => v[a] = w[a]

LEMMA StepIs ==
  ASSUME NEW w \in [Addresses -> Words], NEW o, Storable(o)
  PROVE  Stepped(w, o, StoreStep(w, o))
<1>1. CASE ~o.write
  BY <1>1 DEF StoreStep, Stepped, Writes
<1>2. CASE o.write
  <2> DEFINE mask == storeByteMask(o.access, o.offset)
             data == alignStoreData(o.data, o.access, o.offset)
             word == MergeWord(w[o.addr], mask, data)
  <2>1. o.addr \in Addresses /\ data \in Words
    BY <1>2, AlignIs DEF Storable
  <2> HIDE DEF mask, data
  <2>2. word \in Words /\ \A l \in Lanes : word[l] = IF l \in mask THEN data[l] ELSE w[o.addr][l]
    BY <2>1 DEF MergeWord, Words
  <2>3. StoreStep(w, o) = [w EXCEPT ![o.addr] = word]
    BY <1>2, SameLanes DEF StoreStep, Memory!Written, mask, data
  <2> HIDE DEF word
  <2>4. StoreStep(w, o) \in [Addresses -> Words]
    BY <2>1, <2>2, <2>3
  <2>5. \A a \in Addresses : StoreStep(w, o)[a] = IF a = o.addr THEN word ELSE w[a]
    BY <2>1, <2>3
  <2> QED
    BY <1>2, <2>2, <2>4, <2>5 DEF mask, data, Writes, Stepped
<1> QED
  BY <1>1, <1>2

LEMMA RunsTyped ==
  ASSUME Least, NEW w \in [Addresses -> Words], NEW f, NEW ops, Runs(f, w, ops), Len(ops) \in Nat,
         \A n \in 1..Len(ops) : Storable(ops[n])
  PROVE  \A n \in 0..Len(ops) : f[n] \in [Addresses -> Words]
<1> DEFINE S == {n \in 0..Len(ops) : f[n] \in [Addresses -> Words]}
<1>1. 0 \in S
  <2>1. 0 \in 0..Len(ops)
    BY SMTT(60)
  <2> QED
    BY <2>1 DEF Runs
<1>2. ASSUME NEW n \in 1..Len(ops), n - 1 \in S PROVE n \in S
  <2>1. n \in 0..Len(ops)
    BY SMTT(60)
  <2>2. f[n] = StoreStep(f[n - 1], ops[n])
    BY DEF Runs
  <2>3. StoreStep(f[n - 1], ops[n]) \in [Addresses -> Words]
    BY <1>2, StepIs DEF Stepped
  <2> QED
    BY <2>1, <2>2, <2>3
<1> HIDE DEF S
<1>3. \A n \in 0..Len(ops) : n \in S
  BY <1>1, <1>2, InductionTo
<1> QED
  BY <1>3 DEF S

\* f is memory after each of a sequence of operations, from w.
Program(f, w, ops) ==
    /\ w \in [Addresses -> Words] /\ Runs(f, w, ops) /\ Len(ops) \in Nat
    /\ \A n \in 1..Len(ops) : Storable(ops[n])

\* No operation from m + 1 to m + K writes this byte: it keeps its value.
Untouched(ops, m, K, a, l) == \A n \in 1..K : ~Writes(ops[m + n], a, l)
Unchanged(f, m, K, a, l) == f[m + K][a][l] = f[m][a][l]

LEMMA RunsKeep ==
  ASSUME Least, NEW w, NEW f, NEW ops, Program(f, w, ops),
         NEW m \in Nat, NEW K \in Nat, m + K <= Len(ops), NEW a \in Addresses, NEW l \in Lanes,
         Untouched(ops, m, K, a, l)
  PROVE  Unchanged(f, m, K, a, l)
<1>0. /\ w \in [Addresses -> Words] /\ Runs(f, w, ops) /\ Len(ops) \in Nat
      /\ \A n \in 1..Len(ops) : Storable(ops[n])
  BY DEF Program
<1> DEFINE S == {n \in 0..K : f[m + n][a][l] = f[m][a][l]}
<1>1. 0 \in S
  <2>1. 0 \in 0..K /\ m + 0 = m
    BY SMTT(60)
  <2> QED
    BY <2>1
<1>2. ASSUME NEW n \in 1..K, n - 1 \in S PROVE n \in S
  <2>1. /\ n \in 0..K /\ m + n \in 1..Len(ops) /\ m + (n - 1) = (m + n) - 1
        /\ (m + n) - 1 \in 0..Len(ops)
    BY <1>0, SMTT(60)
  <2>2. f[m + n] = StoreStep(f[(m + n) - 1], ops[m + n])
    BY <1>0, <2>1 DEF Runs
  <2>3. f[(m + n) - 1] \in [Addresses -> Words]
    BY <1>0, <2>1, RunsTyped
  <2>4. StoreStep(f[(m + n) - 1], ops[m + n])[a][l] = f[(m + n) - 1][a][l]
    <3>1. Stepped(f[(m + n) - 1], ops[m + n], StoreStep(f[(m + n) - 1], ops[m + n]))
      BY <1>0, <2>1, <2>3, StepIs
    <3> QED
      BY <3>1 DEF Stepped, Untouched
  <2>5. f[(m + n) - 1][a][l] = f[m][a][l]
    BY <1>2, <2>1
  <2> QED
    BY <2>1, <2>2, <2>4, <2>5
<1> HIDE DEF S
<1>3. \A n \in 0..K : n \in S
  BY <1>1, <1>2, InductionTo
<1>4. K \in 0..K
  BY SMTT(60)
<1> QED
  BY <1>3, <1>4 DEF S, Unchanged

--------------------------------------------------------------------------------
(* Lanes.                                                                      *)

\* An aligned access has the same mask everywhere.
LEMMA LoadMaskIs ==
  ASSUME NEW access \in MemAccess, NEW o \in Lanes, Aligned(access, o)
  PROVE  /\ queryLoadMask(access, o) = loadByteMask(access, o)
         /\ loadByteMask(access, o) \subseteq Lanes
         /\ \/ AccessBytes(access) = 4 /\ loadByteMask(access, o) = Lanes
            \/ AccessBytes(access) = 2 /\ o \in {0, 2} /\ loadByteMask(access, o) = {o, o + 1}
            \/ AccessBytes(access) = 1 /\ loadByteMask(access, o) = {o}
<1>1. CASE access = "WORD"
  <2>1. AccessBytes(access) = 4
    BY <1>1, SMTT(60) DEF AccessBytes
  <2>2. o = 0
    BY <2>1, SMTT(60) DEF Aligned, Lanes
  <2> QED
    BY <1>1, <2>1, <2>2, SMTT(60) DEF loadByteMask, queryLoadMask
<1>2. CASE access \in {"HALF", "HALF_U"}
  <2>1. AccessBytes(access) = 2
    BY <1>2, SMTT(60) DEF AccessBytes
  <2>2. o \in {0, 2}
    BY <2>1, SMTT(60) DEF Aligned, Lanes
  <2>3. loadByteMask(access, o) = {o, o + 1}
    BY <1>2, <2>2, SMTT(60) DEF loadByteMask
  <2>4. queryLoadMask(access, o) = {l \in Lanes : l >= o /\ l < o + 2}
    BY <1>2, <2>1, SMTT(60) DEF queryLoadMask
  <2>5. {l \in Lanes : l >= o /\ l < o + 2} = {o, o + 1} /\ {o, o + 1} \subseteq Lanes
    BY <2>2, SMTT(60) DEF Lanes
  <2> QED
    BY <2>1, <2>2, <2>3, <2>4, <2>5
<1>3. CASE access \in {"BYTE", "BYTE_U"}
  <2>1. AccessBytes(access) = 1
    BY <1>3, SMTT(60) DEF AccessBytes
  <2>2. loadByteMask(access, o) = {o}
    BY <1>3, SMTT(60) DEF loadByteMask
  <2>3. queryLoadMask(access, o) = {l \in Lanes : l >= o /\ l < o + 1}
    BY <1>3, <2>1, SMTT(60) DEF queryLoadMask
  <2>4. {l \in Lanes : l >= o /\ l < o + 1} = {o} /\ {o} \subseteq Lanes
    BY SMTT(60) DEF Lanes
  <2> QED
    BY <2>1, <2>2, <2>3, <2>4
<1> QED
  BY <1>1, <1>2, <1>3, SMTT(60) DEF MemAccess

LEMMA StoreMaskIs ==
  ASSUME NEW access \in StoreAccess, NEW o \in Lanes, Aligned(access, o)
  PROVE  olderStoreMask(access, o) = storeByteMask(access, o)
<1>1. access \in MemAccess
  BY SMTT(60) DEF StoreAccess, MemAccess
<1>2. queryLoadMask(access, o) = loadByteMask(access, o)
  BY <1>1, LoadMaskIs
<1>3. loadByteMask(access, o) = storeByteMask(access, o)
  BY SMTT(60) DEF StoreAccess, loadByteMask, storeByteMask
<1>4. ~(access = "HALF" /\ o = 3)
  BY SMTT(60) DEF Aligned, AccessBytes
<1> QED
  BY <1>2, <1>3, <1>4 DEF olderStoreMask

\* Formatting an aligned Load looks only at the lanes of its mask.
LEMMA FormatAgrees ==
  ASSUME NEW a \in Words, NEW b \in Words, NEW access \in MemAccess, NEW o \in Lanes, Aligned(access, o),
         \A l \in loadByteMask(access, o) : a[l] = b[l]
  PROVE  formatLoadData(a, access, o) = formatLoadData(b, access, o)
<1> DEFINE size == AccessBytes(access)
           shifted(raw) == [l \in Lanes |-> IF l + o \in Lanes THEN raw[l + o] ELSE 0]
           fill(raw) == IF access \in {"BYTE", "HALF"} THEN SignByte(shifted(raw)[size - 1]) ELSE 0
<1>1. \/ size = 4 /\ loadByteMask(access, o) = Lanes
      \/ size = 2 /\ o \in {0, 2} /\ loadByteMask(access, o) = {o, o + 1}
      \/ size = 1 /\ loadByteMask(access, o) = {o}
  BY LoadMaskIs
<1> HIDE DEF size
<1>2. CASE loadByteMask(access, o) = Lanes
  <2>1. a = b
    BY <1>2, SMTT(60) DEF Words
  <2> QED
    BY <2>1, SMTT(60)
<1>3. CASE size \in {1, 2} /\ \A l \in 0..(size - 1) : l + o \in Lanes /\ a[l + o] = b[l + o]
  <2>1. \A l \in 0..(size - 1) : l \in Lanes /\ shifted(a)[l] = shifted(b)[l]
    BY <1>3, SMTT(60) DEF Lanes
  <2>2. size - 1 \in 0..(size - 1) /\ size # 4
    BY <1>3, SMTT(60)
  <2>3. fill(a) = fill(b)
    BY <2>1, <2>2
  <2>4. \A l \in Lanes : (IF l < size THEN shifted(a)[l] ELSE fill(a))
                          = IF l < size THEN shifted(b)[l] ELSE fill(b)
    <3> HIDE DEF shifted, fill
    <3> SUFFICES ASSUME NEW l \in Lanes, l < size PROVE shifted(a)[l] = shifted(b)[l]
      BY <2>3
    <3>1. l \in 0..(size - 1)
      BY <1>3, SMTT(60) DEF Lanes
    <3> QED
      BY <2>1, <3>1
  <2>5. /\ formatLoadData(a, access, o) = [l \in Lanes |-> IF l < size THEN shifted(a)[l] ELSE fill(a)]
        /\ formatLoadData(b, access, o) = [l \in Lanes |-> IF l < size THEN shifted(b)[l] ELSE fill(b)]
    BY <2>2 DEF formatLoadData, size
  <2> HIDE DEF shifted, fill
  <2> QED
    BY <2>4, <2>5
<1>4. CASE size = 2 /\ o \in {0, 2} /\ loadByteMask(access, o) = {o, o + 1}
  <2>1. \A l \in 0..(size - 1) : l + o \in Lanes /\ l + o \in loadByteMask(access, o)
    BY <1>4, SMTT(60) DEF Lanes
  <2> QED
    BY <1>3, <1>4, <2>1
<1>5. CASE size = 1 /\ loadByteMask(access, o) = {o}
  <2>1. \A l \in 0..(size - 1) : l + o \in Lanes /\ l + o \in loadByteMask(access, o)
    BY <1>5, SMTT(60) DEF Lanes
  <2> QED
    BY <1>3, <1>5, <2>1
<1> QED
  BY <1>1, <1>2, <1>4, <1>5

LEMMA FormatIs ==
  ASSUME NEW w \in Words, NEW access \in MemAccess, NEW o \in Lanes
  PROVE  formatLoadData(w, access, o) \in Words
<1> DEFINE size == AccessBytes(access)
           shifted == [l \in Lanes |-> IF l + o \in Lanes THEN w[l + o] ELSE 0]
           fill == IF access \in {"BYTE", "HALF"} THEN SignByte(shifted[size - 1]) ELSE 0
<1>2. \A b : SignByte(b) \in Bytes
  BY SMTT(60) DEF SignByte, Bytes
<1>3. 0 \in Bytes
  BY SMTT(60) DEF Bytes
<1>1. \A l \in Lanes : shifted[l] \in Bytes
  BY <1>3 DEF Words
<1>4. fill \in Bytes
  BY <1>2, <1>3
<1>5. formatLoadData(w, access, o)
        = IF size = 4 THEN w ELSE [l \in Lanes |-> IF l < size THEN shifted[l] ELSE fill]
  BY DEF formatLoadData
<1> HIDE DEF shifted, fill, size
<1>6. [l \in Lanes |-> IF l < size THEN shifted[l] ELSE fill] \in Words
  BY <1>1, <1>4 DEF Words
<1> QED
  BY <1>5, <1>6

--------------------------------------------------------------------------------
(* What an issuing Load reads.                                                 *)

\* Memory after each of the operations in flight, and of the buffered Stores.
Flight == Replay(arch, InFlight)
Drained == Replay(golden, Buffered)

LEMMA FlightIs ==
  ASSUME Least, Types
  PROVE  /\ Runs(Flight, arch, InFlight) /\ Len(InFlight) = Len(rob) /\ Len(rob) \in Nat
         /\ \A n \in 1..Len(rob) : InFlight[n] = IF IsMemory(n) THEN op(n) ELSE [write |-> FALSE]
         /\ \A n \in 1..Len(InFlight) : Storable(InFlight[n])
         /\ \A n \in 0..Len(rob) : Flight[n] \in [Addresses -> Words]
<1>1. rob \in Seq(RobType) /\ arch \in [Addresses -> Words]
  BY DEF Types
<1>2. Len(rob) \in Nat /\ \A i \in 1..Len(rob) : rob[i].op \in Ops
  BY <1>1, RobFields
<1>3. \A n \in 1..Len(rob) : InFlight[n] = IF IsMemory(n) THEN op(n) ELSE [write |-> FALSE]
  BY DEF InFlight
<1>4. Len(InFlight) = Len(rob)
  <2>1. InFlight \in [1..Len(rob) -> {InFlight[n] : n \in 1..Len(rob)}]
    BY DEF InFlight
  <2> QED
    BY <1>2, <2>1, SeqIs
<1>5. ASSUME NEW n \in 1..Len(rob) PROVE Storable(InFlight[n])
  <2>1. CASE IsMemory(n)
    <3>1. InFlight[n] = op(n) /\ op(n) \in Ops /\ op(n).kind = "memory"
      BY <1>2, <1>3, <2>1 DEF op, IsMemory
    <3>2. op(n) \in MemoryOps
      BY <3>1, SMTT(60) DEF Ops
    <3>3. Storable(op(n))
      BY <3>2, SMTT(60) DEF MemoryOps, Storable
    <3> QED
      BY <3>1, <3>3
  <2>2. CASE ~IsMemory(n)
    <3>1. InFlight[n] = [write |-> FALSE]
      BY <1>3, <2>2
    <3>2. ~InFlight[n].write
      BY <3>1, SMTT(60)
    <3> QED
      BY <3>2 DEF Storable
  <2> QED
    BY <2>1, <2>2
<1>6. Runs(Flight, arch, InFlight)
  BY <1>2, <1>4, ReplayRuns DEF Flight
<1>7. \A n \in 0..Len(rob) : Flight[n] \in [Addresses -> Words]
  BY <1>1, <1>2, <1>4, <1>5, <1>6, RunsTyped
<1> QED
  BY <1>2, <1>3, <1>4, <1>5, <1>6, <1>7

LEMMA DrainedIs ==
  ASSUME Least, Types
  PROVE  /\ Runs(Drained, golden, Buffered) /\ Len(Buffered) = Len(queue) /\ Len(queue) \in Nat
         /\ \A k \in 1..Len(queue) : Buffered[k] = storeRequest(queue[k])
         /\ \A k \in 1..Len(Buffered) : Storable(Buffered[k])
         /\ \A k \in 0..Len(queue) : Drained[k] \in [Addresses -> Words]
<1>1. queue \in Seq(StoreType) /\ golden \in [Addresses -> Words]
  BY DEF Types
<1>2. Len(queue) \in Nat /\ \A k \in 1..Len(queue) : queue[k] \in StoreType
  BY <1>1, SMTT(60)
<1>3. \A k \in 1..Len(queue) : Buffered[k] = storeRequest(queue[k])
  BY DEF Buffered
<1>4. Len(Buffered) = Len(queue)
  <2>1. Buffered \in [1..Len(queue) -> {Buffered[k] : k \in 1..Len(queue)}]
    BY DEF Buffered
  <2> QED
    BY <1>2, <2>1, SeqIs
<1>5. ASSUME NEW k \in 1..Len(queue) PROVE Storable(Buffered[k])
  <2>1. Buffered[k] = storeRequest(queue[k]) /\ queue[k] \in StoreType
    BY <1>2, <1>3
  <2>2. Storable(storeRequest(queue[k]))
    BY <2>1, SMTT(60) DEF storeRequest, StoreType, Storable
  <2> QED
    BY <2>1, <2>2
<1>6. Runs(Drained, golden, Buffered)
  BY <1>2, <1>4, ReplayRuns DEF Drained
<1>7. \A k \in 0..Len(queue) : Drained[k] \in [Addresses -> Words]
  BY <1>1, <1>2, <1>4, <1>5, <1>6, RunsTyped
<1> QED
  BY <1>2, <1>3, <1>4, <1>5, <1>6, <1>7

\* What the slot of the operation at place i holds.
LEMMA PlaceIs ==
  ASSUME Types, Linked(rob, robHead, lsq), NEW i \in 1..Len(rob), IsMemory(i)
  PROVE  /\ op(i) \in MemoryOps /\ rob[i].lsqTag \in LsqSlots /\ Dist(lsq, rob[i].lsqTag) < lsq.entryCount
         /\ Holds(lsq.entries[rob[i].lsqTag], rob[i], (robHead + (i - 1)) % RobDepth)
<1>1. rob \in Seq(RobType) /\ Slotted(rob, robHead, lsq)
  BY DEF Types, Linked
<1>2. op(i) \in Ops /\ op(i).kind = "memory" /\ rob[i].lsqTag \in LsqSlots
  BY <1>1, RobFields DEF op, IsMemory
<1>3. op(i) \in MemoryOps
  BY <1>2, SMTT(60) DEF Ops
<1> QED
  BY <1>1, <1>2, <1>3 DEF Slotted, IsMemory, isMem, op

LEMMA OpIs ==
  ASSUME NEW o \in MemoryOps
  PROVE  /\ o.addr \in Addresses /\ o.access \in MemAccess /\ o.offset \in Lanes /\ o.data \in Words
         /\ o.write \in BOOLEAN /\ o.x0 \in BOOLEAN
         /\ o.write => o.access \in StoreAccess
  BY SMTT(60) DEF MemoryOps

\* Entry e is the one of the aligned Store at place j, which does not hold a
\* Load that may issue back: it supplies all the bytes of it that it writes.
Ahead(e, j, load) ==
    /\ e.valid /\ e.isStore /\ ~misaligned(j) /\ e.access = op(j).access
    /\ e.address = <<[addr |-> op(j).addr, offset |-> op(j).offset]>>
    /\ e.data \in {NotReady, <<op(j).data>>} /\ ~op(j).addr.mmio
    /\ overlap(e, load) = {} \/ covers(e, load)

LEMMA OlderIs ==
  ASSUME Types, Linked(rob, robHead, lsq), NEW i \in 1..Len(rob), IsLoad(i),
         issueReady(lsq, rob[i].lsqTag, op(i)), NEW j \in 1..(i - 1), IsStore(j)
  PROVE  /\ rob[j].lsqTag \in olderSlots(lsq, rob[i].lsqTag)
         /\ Ahead(lsq.entries[rob[j].lsqTag], j, op(i))
<1> DEFINE e == lsq.entries[rob[j].lsqTag]
           load == op(i)
<1>1. rob \in Seq(RobType) /\ Ordered(rob, lsq) /\ IsMemory(j) /\ IsMemory(i)
  BY DEF Types, Linked, IsStore, IsLoad
<1>2. j \in 1..Len(rob) /\ j < i
  BY <1>1, RobFields, SMTT(60)
<1>3. /\ op(j) \in MemoryOps /\ rob[j].lsqTag \in LsqSlots /\ Dist(lsq, rob[j].lsqTag) < lsq.entryCount
      /\ Holds(e, rob[j], (robHead + (j - 1)) % RobDepth)
  BY <1>1, <1>2, PlaceIs
<1>4. Holds(lsq.entries[rob[i].lsqTag], rob[i], (robHead + (i - 1)) % RobDepth)
  BY <1>1, PlaceIs
<1>5. Dist(lsq, rob[j].lsqTag) < Dist(lsq, rob[i].lsqTag)
  BY <1>1, <1>2 DEF Ordered, IsMemory, isMem, op
<1>6. rob[j].lsqTag \in olderSlots(lsq, rob[i].lsqTag)
  BY <1>3, <1>5 DEF olderSlots, Dist
<1>7. e.valid /\ e.isStore /\ e.access = op(j).access /\ e.data \in {NotReady, <<op(j).data>>}
  BY <1>3 DEF Holds, op, IsStore
<1>8. ~lsq.entries[rob[i].lsqTag].isStore
  BY <1>4 DEF Holds, op, IsLoad
<1>9. ~blocks(e, load)
  BY <1>6, <1>8 DEF issueReady
<1>10. e.address # NotReady /\ ~e.address[1].addr.mmio /\ (overlap(e, load) = {} \/ covers(e, load))
  BY <1>7, <1>9 DEF blocks
<1>11. ~misaligned(j) /\ e.address = <<[addr |-> op(j).addr, offset |-> op(j).offset]>>
  BY <1>3, <1>10 DEF Holds, Misaligned, misaligned, op
<1>12. e.address[1] = [addr |-> op(j).addr, offset |-> op(j).offset]
  BY <1>11, SomeIsNotNone
<1>13. e.address[1].addr = op(j).addr
  BY <1>12, SMTT(60)
<1> QED
  BY <1>6, <1>7, <1>10, <1>11, <1>13 DEF Ahead

\* The bytes of the Load that the Store at place j writes.
LEMMA OverlapIs ==
  ASSUME NEW e, NEW j, NEW load, Ahead(e, j, load), op(j) \in MemoryOps, op(j).write,
         load.access \in MemAccess, load.offset \in Lanes, Aligned(load.access, load.offset)
  PROVE  /\ overlap(e, load) = IF op(j).addr = load.addr
                               THEN storeByteMask(op(j).access, op(j).offset)
                                      \cap loadByteMask(load.access, load.offset)
                               ELSE {}
         /\ queryLoadMask(load.access, load.offset) = loadByteMask(load.access, load.offset)
<1>1. queryLoadMask(load.access, load.offset) = loadByteMask(load.access, load.offset)
  BY LoadMaskIs
<1>2. olderStoreMask(op(j).access, op(j).offset) = storeByteMask(op(j).access, op(j).offset)
  <2>1. Aligned(op(j).access, op(j).offset) /\ op(j).access \in StoreAccess /\ op(j).offset \in Lanes
    BY OpIs DEF Ahead, misaligned
  <2> QED
    BY <2>1, StoreMaskIs
<1>3. e.address # NotReady /\ e.address[1] = [addr |-> op(j).addr, offset |-> op(j).offset]
  BY SomeIsNotNone DEF Ahead, NotReady
<1>4. e.address[1].addr = op(j).addr /\ e.address[1].offset = op(j).offset /\ e.access = op(j).access
  BY <1>3, SMTT(60) DEF Ahead
<1> QED
  BY <1>1, <1>2, <1>3, <1>4 DEF overlap

\* A forwarding slot is the one of an older Store.
LEMMA ForwardPlace ==
  ASSUME Types, Linked(rob, robHead, lsq), NEW i \in 1..Len(rob), IsLoad(i),
         NEW x \in forwarders(lsq, rob[i].lsqTag, op(i))
  PROVE  \E j \in 1..(i - 1) : IsStore(j) /\ rob[j].lsqTag = x /\ j \in 1..Len(rob)
<1>1. rob \in Seq(RobType) /\ Ordered(rob, lsq) /\ IsMemory(i) /\ lsq \in LsqType
  BY DEF Types, Linked, IsLoad
<1>2. x \in LsqSlots /\ lsq.entries[x].valid /\ lsq.entries[x].isStore /\ Dist(lsq, x) < Dist(lsq, rob[i].lsqTag)
  BY DEF forwarders, olderSlots, Dist
<1>3. PICK j \in 1..Len(rob) : isMem(rob[j].op) /\ rob[j].lsqTag = x /\ Dist(lsq, x) < lsq.entryCount
  BY <1>1, <1>2, SlotPlace
<1>4. IsMemory(j) /\ Holds(lsq.entries[x], rob[j], (robHead + (j - 1)) % RobDepth)
  BY <1>3, PlaceIs DEF IsMemory, isMem, op
<1>5. IsStore(j)
  BY <1>2, <1>4 DEF Holds, IsStore, op
<1>6. rob[i].lsqTag \in LsqSlots
  BY <1>1, RobFields
<1>7. Dist(lsq, x) \in Nat /\ Dist(lsq, rob[i].lsqTag) \in Nat
  BY <1>1, <1>2, <1>6, DistIs
<1>8. ~(Dist(lsq, rob[i].lsqTag) < Dist(lsq, x)) /\ Dist(lsq, x) # Dist(lsq, rob[i].lsqTag)
  BY <1>2, <1>7, SMTT(60)
<1>9. ~(i < j)
  BY <1>1, <1>3, <1>8 DEF Ordered, IsMemory, isMem, op
<1>10. i # j
  BY <1>3, <1>8
<1>11. j \in 1..(i - 1)
  BY <1>1, <1>9, <1>10, RobFields, SMTT(60)
<1> QED
  BY <1>3, <1>5, <1>11

\* The youngest of them supplies the data.
LEMMA ForwarderIs ==
  ASSUME Least, NEW q \in LsqType, NEW tag, NEW load, forwarders(q, tag, load) # {}
  PROVE  /\ forwarder(q, tag, load) \in forwarders(q, tag, load)
         /\ \A u \in forwarders(q, tag, load) \ {forwarder(q, tag, load)} :
               u \in olderSlots(q, forwarder(q, tag, load))
<1> DEFINE F == forwarders(q, tag, load)
           S == {LsqDepth - Dist(q, x) : x \in F}
<1>1. \A x \in F : x \in LsqSlots /\ Dist(q, x) < q.entryCount
  BY DEF forwarders, olderSlots, Dist
<1>2. \A x \in F : Dist(q, x) \in 0..(LsqDepth - 1)
  BY <1>1, DistIs
<1>3. LsqDepth \in Nat
  BY LsqFields
<1> HIDE DEF F
<1>4. S \in SUBSET Nat /\ S # {}
  BY <1>2, <1>3, SMTT(60) DEF F
<1>5. PICK k \in S : \A n \in S : k <= n
  <2> HIDE DEF S
  <2> QED
    BY <1>4 DEF Least
<1>6. PICK x \in F : k = LsqDepth - Dist(q, x)
  BY <1>5, SMTT(60)
<1>7. ASSUME NEW u \in F \ {x} PROVE u \in olderSlots(q, x)
  <2>1. LsqDepth - Dist(q, x) <= LsqDepth - Dist(q, u)
    BY <1>5, <1>6, SMTT(60)
  <2>2. Dist(q, u) # Dist(q, x)
    BY <1>1, DistIs
  <2>3. Dist(q, u) \in Nat /\ Dist(q, x) \in Nat
    BY <1>2, SMTT(60)
  <2>4. Dist(q, u) < Dist(q, x)
    BY <1>3, <2>1, <2>2, <2>3, SMTT(60)
  <2> QED
    BY <1>1, <2>4 DEF olderSlots, Dist
<1>8. \E y \in F : \A u \in F \ {y} : u \in olderSlots(q, y)
  BY <1>7
<1> QED
  BY <1>8 DEF forwarder, F

\* Bytes that no operation in flight, or no buffered Store, of a stretch writes.
LEMMA FlightKeeps ==
  ASSUME Least, Types, NEW m \in Nat, NEW K \in Nat, m + K <= Len(rob), NEW a \in Addresses,
         NEW l \in Lanes, Untouched(InFlight, m, K, a, l)
  PROVE  Unchanged(Flight, m, K, a, l)
<1>1. Program(Flight, arch, InFlight)
  <2>1. arch \in [Addresses -> Words]
    BY DEF Types
  <2> QED
    BY <2>1, FlightIs DEF Program
<1>2. m + K <= Len(InFlight)
  BY FlightIs
<1> QED
  BY <1>1, <1>2, RunsKeep

LEMMA DrainedKeeps ==
  ASSUME Least, Types, NEW m \in Nat, NEW K \in Nat, m + K <= Len(queue), NEW a \in Addresses,
         NEW l \in Lanes, Untouched(Buffered, m, K, a, l)
  PROVE  Unchanged(Drained, m, K, a, l)
<1>1. Program(Drained, golden, Buffered)
  <2>1. golden \in [Addresses -> Words]
    BY DEF Types
  <2> QED
    BY <2>1, DrainedIs DEF Program
<1>2. m + K <= Len(Buffered)
  BY DrainedIs
<1> QED
  BY <1>1, <1>2, RunsKeep

\* An older Store that writes a byte of the Load is one that can supply it.
LEMMA WriterForwards ==
  ASSUME Least, Types, Linked(rob, robHead, lsq), NEW i \in 1..Len(rob), IsLoad(i), ~misaligned(i),
         issueReady(lsq, rob[i].lsqTag, op(i)), NEW j \in 1..(i - 1),
         NEW l \in loadByteMask(op(i).access, op(i).offset), Writes(InFlight[j], op(i).addr, l)
  PROVE  /\ IsStore(j) /\ j \in 1..Len(rob)
         /\ rob[j].lsqTag \in forwarders(lsq, rob[i].lsqTag, op(i))
<1> DEFINE e == lsq.entries[rob[j].lsqTag]
           load == op(i)
<1>1. rob \in Seq(RobType) /\ IsMemory(i)
  BY DEF Types, IsLoad
<1>2. j \in 1..Len(rob)
  BY <1>1, RobFields, SMTT(60)
<1>3. IsStore(j) /\ InFlight[j] = op(j)
  <2>1. InFlight[j] = IF IsMemory(j) THEN op(j) ELSE [write |-> FALSE]
    BY <1>2, FlightIs
  <2>2. ~[write |-> FALSE].write
    BY SMTT(60)
  <2> QED
    BY <2>1, <2>2 DEF Writes, IsStore
<1>4. op(j) \in MemoryOps /\ op(j).write /\ load \in MemoryOps /\ IsMemory(j)
  BY <1>1, <1>2, <1>3, PlaceIs DEF IsStore
<1>5. rob[j].lsqTag \in olderSlots(lsq, rob[i].lsqTag) /\ Ahead(e, j, load)
  BY <1>3, OlderIs
<1>6. load.access \in MemAccess /\ load.offset \in Lanes /\ Aligned(load.access, load.offset)
  BY <1>4, OpIs DEF misaligned
<1>7. l \in overlap(e, load)
  <2>1. overlap(e, load) = IF op(j).addr = load.addr
                           THEN storeByteMask(op(j).access, op(j).offset)
                                  \cap loadByteMask(load.access, load.offset)
                           ELSE {}
    BY <1>4, <1>5, <1>6, OverlapIs
  <2> HIDE DEF e, load
  <2>2. op(j).addr = load.addr /\ l \in storeByteMask(op(j).access, op(j).offset)
    BY <1>3 DEF Writes, load
  <2>3. l \in loadByteMask(load.access, load.offset)
    BY DEF load
  <2> QED
    BY <2>1, <2>2, <2>3
<1>8. e.valid /\ e.isStore /\ covers(e, load)
  BY <1>5, <1>7 DEF Ahead
<1>9. e.address[1] = [addr |-> op(j).addr, offset |-> op(j).offset] /\ ~op(j).addr.mmio
  BY <1>5, SomeIsNotNone DEF Ahead
<1>10. ~e.address[1].addr.mmio
  BY <1>9, SMTT(60)
<1> QED
  BY <1>2, <1>3, <1>5, <1>8, <1>10 DEF forwarders

\* A Load that no older Store supplies, and no buffered Store conflicts with,
\* finds its value in memory.
LEMMA CacheValue ==
  ASSUME Least, Types, Linked(rob, robHead, lsq), RetiredStoresConserved,
         NEW i \in 1..Len(rob), IsLoad(i), ~misaligned(i), issueReady(lsq, rob[i].lsqTag, op(i)),
         ~forwards(i), ~storeBufferQueryConflict(op(i))
  PROVE  formatLoadData(golden[op(i).addr], op(i).access, op(i).offset) = Value(i)
<1> DEFINE a == op(i).addr
           mask == loadByteMask(op(i).access, op(i).offset)
<1>1. rob \in Seq(RobType) /\ IsMemory(i) /\ golden \in [Addresses -> Words] /\ arch \in [Addresses -> Words]
  BY DEF Types, IsLoad
<1>2. op(i) \in MemoryOps /\ Holds(lsq.entries[rob[i].lsqTag], rob[i], (robHead + (i - 1)) % RobDepth)
  BY <1>1, PlaceIs
<1>3. a \in Addresses /\ op(i).access \in MemAccess /\ op(i).offset \in Lanes
      /\ Aligned(op(i).access, op(i).offset)
  BY <1>2, OpIs DEF misaligned
<1>4. mask \subseteq Lanes
  BY <1>3, LoadMaskIs
<1>5. forwarders(lsq, rob[i].lsqTag, op(i)) = {}
  BY <1>2 DEF forwards, issueForwardValid, Holds, IsLoad, op
<1>6. i - 1 \in Nat /\ 0 \in Nat /\ 0 + (i - 1) = i - 1 /\ 0 + (i - 1) <= Len(rob) /\ i - 1 \in 0..Len(rob)
      /\ \A n \in 1..(i - 1) : 0 + n = n
  BY <1>1, RobFields, SMTT(60)
<1>7. ASSUME NEW l \in mask PROVE Flight[i - 1][a][l] = arch[a][l]
  <2>1. \A n \in 1..(i - 1) : ~Writes(InFlight[0 + n], a, l)
    BY <1>5, <1>6, WriterForwards
  <2>2. l \in Lanes
    BY <1>4
  <2>3. Flight[0 + (i - 1)][a][l] = Flight[0][a][l]
    <3> HIDE DEF a, mask
    <3>1. Untouched(InFlight, 0, i - 1, a, l)
      BY <2>1 DEF Untouched
    <3>2. Unchanged(Flight, 0, i - 1, a, l)
      BY <1>3, <1>6, <2>2, <3>1, FlightKeeps
    <3> QED
      BY <3>2 DEF Unchanged
  <2>4. Flight[0] = arch
    BY FlightIs DEF Runs
  <2> QED
    BY <1>6, <2>3, <2>4
<1>8. Len(queue) \in Nat /\ 0 + Len(queue) = Len(queue) /\ 0 + Len(queue) <= Len(queue)
      /\ \A n \in 1..Len(queue) : 0 + n = n
  BY DrainedIs, SMTT(60)
<1>9. ASSUME NEW l \in mask PROVE Drained[Len(queue)][a][l] = golden[a][l]
  <2>1. ASSUME NEW n \in 1..Len(queue) PROVE ~Writes(Buffered[n], a, l)
    <3>1. Buffered[n] = storeRequest(queue[n])
      BY DrainedIs
    <3>2. ~(queue[n].addr = a /\ l \in storeByteMask(queue[n].access, queue[n].offset))
      BY DEF storeBufferQueryConflict
    <3>3. /\ storeRequest(queue[n]).addr = queue[n].addr
          /\ storeRequest(queue[n]).access = queue[n].access
          /\ storeRequest(queue[n]).offset = queue[n].offset
      BY SMTT(60) DEF storeRequest
    <3> QED
      BY <3>1, <3>2, <3>3 DEF Writes
  <2>2. l \in Lanes
    BY <1>4
  <2>3. \A n \in 1..Len(queue) : ~Writes(Buffered[0 + n], a, l)
    BY <1>8, <2>1
  <2>4. Drained[0 + Len(queue)][a][l] = Drained[0][a][l]
    <3> HIDE DEF a, mask
    <3>1. Untouched(Buffered, 0, Len(queue), a, l)
      BY <2>3 DEF Untouched
    <3>2. Unchanged(Drained, 0, Len(queue), a, l)
      BY <1>3, <1>6, <1>8, <2>2, <3>1, DrainedKeeps
    <3> QED
      BY <3>2 DEF Unchanged
  <2>5. Drained[0] = golden
    BY DrainedIs DEF Runs
  <2> QED
    BY <1>8, <2>4, <2>5
<1>10. arch = Drained[Len(queue)]
  BY DEF RetiredStoresConserved, Drained
<1>11. \A l \in mask : golden[a][l] = Flight[i - 1][a][l]
  BY <1>7, <1>9, <1>10
<1>12. golden[a] \in Words /\ Flight[i - 1][a] \in Words
  BY <1>1, <1>3, <1>6, FlightIs
<1>13. formatLoadData(golden[a], op(i).access, op(i).offset)
         = formatLoadData(Flight[i - 1][a], op(i).access, op(i).offset)
  BY <1>3, <1>11, <1>12, FormatAgrees
<1> QED
  BY <1>13 DEF Value, MemoryBefore, Flight

\* The youngest older Store that covers the Load supplies its value.
LEMMA ForwardValue ==
  ASSUME Least, Types, Linked(rob, robHead, lsq), NEW i \in 1..Len(rob), IsLoad(i), ~misaligned(i),
         issueReady(lsq, rob[i].lsqTag, op(i)), forwards(i)
  PROVE  issueForwardData(lsq, rob[i].lsqTag, op(i)) = Value(i)
<1> DEFINE a == op(i).addr
           mask == loadByteMask(op(i).access, op(i).offset)
           x == forwarder(lsq, rob[i].lsqTag, op(i))
           e == lsq.entries[x]
<1>1. /\ rob \in Seq(RobType) /\ IsMemory(i) /\ lsq \in LsqType /\ arch \in [Addresses -> Words]
      /\ Ordered(rob, lsq)
  BY DEF Types, IsLoad, Linked
<1>2. op(i) \in MemoryOps
  BY <1>1, PlaceIs
<1>3. a \in Addresses /\ op(i).access \in MemAccess /\ op(i).offset \in Lanes
      /\ Aligned(op(i).access, op(i).offset)
  BY <1>2, OpIs DEF misaligned
<1>4. mask \subseteq Lanes
  BY <1>3, LoadMaskIs
<1>5. /\ x \in forwarders(lsq, rob[i].lsqTag, op(i))
      /\ \A u \in forwarders(lsq, rob[i].lsqTag, op(i)) \ {x} : u \in olderSlots(lsq, x)
  <2>1. forwarders(lsq, rob[i].lsqTag, op(i)) # {}
    BY DEF forwards, issueForwardValid
  <2> QED
    BY <1>1, <2>1, ForwarderIs
<1> HIDE DEF x
<1>6. PICK j \in 1..(i - 1) : IsStore(j) /\ rob[j].lsqTag = x /\ j \in 1..Len(rob)
  BY <1>5, ForwardPlace
<1>7. Ahead(e, j, op(i))
  BY <1>6, OlderIs
<1>8. op(j) \in MemoryOps /\ op(j).write /\ IsMemory(j)
  BY <1>6, PlaceIs DEF IsStore
<1>9. covers(e, op(i))
  BY <1>5 DEF forwarders
<1>10. \A l \in mask : op(j).addr = a /\ l \in storeByteMask(op(j).access, op(j).offset)
  <2>1. /\ overlap(e, op(i)) = IF op(j).addr = a
                               THEN storeByteMask(op(j).access, op(j).offset) \cap mask ELSE {}
        /\ queryLoadMask(op(i).access, op(i).offset) = mask
    BY <1>3, <1>7, <1>8, OverlapIs
  <2>2. mask \subseteq overlap(e, op(i))
    BY <1>9, <2>1 DEF covers
  <2> HIDE DEF a, mask, e
  <2> QED
    BY <2>1, <2>2
<1>11. /\ e.data = <<op(j).data>> /\ e.access = op(j).access
       /\ e.address = <<[addr |-> op(j).addr, offset |-> op(j).offset]>>
  BY <1>7, <1>9 DEF Ahead, covers
<1>12. e.data[1] = op(j).data /\ e.address[1].offset = op(j).offset
  <2>1. e.data[1] = op(j).data /\ e.address[1] = [addr |-> op(j).addr, offset |-> op(j).offset]
    BY <1>11, SomeIsNotNone
  <2> QED
    BY <2>1, SMTT(60)
<1> DEFINE w == alignStoreData(op(j).data, op(j).access, op(j).offset)
<1>13. issueForwardData(lsq, rob[i].lsqTag, op(i)) = formatLoadData(w, op(i).access, op(i).offset)
  BY <1>11, <1>12 DEF issueForwardData, x
<1>14. /\ j \in Nat /\ (i - 1) - j \in Nat /\ j + ((i - 1) - j) = i - 1 /\ i - 1 <= Len(rob) /\ i - 1 \in 0..Len(rob)
       /\ j - 1 \in 0..Len(rob)
       /\ \A n \in 1..((i - 1) - j) : j + n \in 1..(i - 1) /\ j < j + n
  BY <1>1, <1>6, RobFields, SMTT(60)
<1>15. ASSUME NEW l \in mask PROVE Flight[i - 1][a][l] = w[l]
  <2>1. ASSUME NEW n \in 1..((i - 1) - j), Writes(InFlight[j + n], a, l) PROVE FALSE
    <3>1. j + n \in 1..(i - 1) /\ j < j + n
      BY <1>14
    <3>2. /\ IsStore(j + n) /\ j + n \in 1..Len(rob)
          /\ rob[j + n].lsqTag \in forwarders(lsq, rob[i].lsqTag, op(i))
      BY <2>1, <3>1, WriterForwards
    <3>3. Dist(lsq, x) < Dist(lsq, rob[j + n].lsqTag)
      BY <1>1, <1>6, <1>8, <3>1, <3>2 DEF Ordered, isMem, IsStore, IsMemory, op
    <3>4. x \in LsqSlots /\ rob[j + n].lsqTag \in LsqSlots
      BY <1>5, <3>2 DEF forwarders, olderSlots
    <3>5. Dist(lsq, x) \in Nat /\ Dist(lsq, rob[j + n].lsqTag) \in Nat
      BY <1>1, <3>4, DistIs
    <3>6. rob[j + n].lsqTag # x
      BY <3>3, <3>5, SMTT(60)
    <3>7. Dist(lsq, rob[j + n].lsqTag) < Dist(lsq, x)
      BY <1>5, <3>2, <3>6 DEF olderSlots, Dist
    <3> QED
      BY <3>3, <3>5, <3>7, SMTT(60)
  <2>2. l \in Lanes
    BY <1>4
  <2>3. Flight[j + ((i - 1) - j)][a][l] = Flight[j][a][l]
    <3> HIDE DEF a, mask
    <3>1. \A n \in 1..((i - 1) - j) : ~Writes(InFlight[j + n], a, l)
      BY <2>1
    <3> QED
      BY <1>3, <1>14, <2>2, <3>1, FlightKeeps DEF Untouched, Unchanged
  <2>4. Flight[j] = StoreStep(Flight[j - 1], op(j)) /\ Storable(op(j))
    BY <1>6, <1>8, FlightIs DEF Runs
  <2>5. Stepped(Flight[j - 1], op(j), Flight[j])
    BY <1>14, <2>4, FlightIs, StepIs
  <2>6. Writes(op(j), a, l)
    BY <1>8, <1>10 DEF Writes
  <2>7. Flight[j][a][l] = w[l]
    BY <1>3, <2>2, <2>5, <2>6 DEF Stepped
  <2> QED
    BY <1>14, <2>3, <2>7
<1>16. w \in Words /\ Flight[i - 1][a] \in Words
  <2>1. op(j).data \in Words /\ op(j).access \in StoreAccess /\ op(j).offset \in Lanes
    BY <1>8, OpIs
  <2> QED
    BY <1>3, <1>14, <2>1, AlignIs, FlightIs
<1>17. formatLoadData(w, op(i).access, op(i).offset)
         = formatLoadData(Flight[i - 1][a], op(i).access, op(i).offset)
  <2> HIDE DEF w
  <2>1. \A l \in mask : w[l] = Flight[i - 1][a][l]
    BY <1>15
  <2> QED
    BY <1>3, <1>16, <2>1, FormatAgrees
<1> QED
  BY <1>13, <1>17 DEF Value, MemoryBefore, Flight

--------------------------------------------------------------------------------
(* Retirement.                                                                 *)

LEMMA TagIs ==
  ASSUME Types
  PROVE  /\ \A i \in 1..Len(rob) : TagAt(i) \in Tags /\ TagAt(i) = (robHead + (i - 1)) % RobDepth
         /\ \A i, j \in 1..Len(rob) : TagAt(i) = TagAt(j) => i = j
<1>1. rob \in Seq(RobType) /\ Len(rob) <= RobDepth /\ robHead \in Tags
  BY DEF Types
<1>2. Len(rob) \in Nat /\ RobDepth \in Nat \ {0} /\ Tags = 0..(RobDepth - 1)
  BY <1>1, RobFields, RobDepthAssumption DEF Tags
<1>3. ASSUME NEW i \in 1..Len(rob) PROVE TagAt(i) \in Tags /\ TagAt(i) = (robHead + (i - 1)) % RobDepth
  <2>1. Ring(RobDepth, robHead)
    BY <1>1, <1>2, RingIs
  <2>2. i - 1 \in 0..RobDepth /\ robHead + i - 1 = robHead + (i - 1)
    BY <1>1, <1>2, SMTT(60)
  <2> QED
    BY <1>2, <2>1, <2>2 DEF Ring, At, TagAt
<1>4. ASSUME NEW i \in 1..Len(rob), NEW j \in 1..Len(rob), TagAt(i) = TagAt(j) PROVE i = j
  <2>1. i \in Nat \ {0} /\ j \in Nat \ {0} /\ i <= RobDepth /\ j <= RobDepth
    BY <1>1, <1>2, SMTT(60)
  <2> QED
    BY <1>1, <1>3, <1>4, <2>1, TagsDiffer
<1> QED
  BY <1>3, <1>4

\* The Store at place k as it leaves the LSQ.
StoreAt(k) ==
    [addr |-> op(k).addr, offset |-> op(k).offset, access |-> op(k).access, data |-> op(k).data]

\* The Store at place k may retire, from this entry of the LSQ.
Retirable(k, e) ==
    /\ IsStore(k) /\ storeOf(e) = StoreAt(k) /\ StoreAt(k).addr \in Addresses
    /\ StoreAt(k) \in [addr : Addresses, offset : Lanes, access : StoreAccess, data : Words]
    /\ e.address[1].addr = op(k).addr

\* The first n operations could retire; k is the place of the Store among them,
\* if there is one, and 0 otherwise.
Committing(lanes, n, k) ==
    /\ n \in 0..2 /\ n <= Len(rob) /\ lanes = 1..n /\ k \in 0..n
    /\ \A i \in 1..n : rob[i].state = "complete" /\ (IsStore(i) <=> i = k)
    /\ commitStore(lanes) = IF k = 0 THEN {} ELSE {k}
    /\ k # 0 => Retirable(k, commitStoreEntry(lanes))

\* A complete Store at the head of the LSQ with its address and its data.
LEMMA RetirableIs ==
  ASSUME Types, Linked(rob, robHead, lsq), ResultsOK, NEW k \in 1..Len(rob), NEW m, NEW ready,
         laneReady(k, m, ready), IsStore(k)
  PROVE  Retirable(k, headEntry(lsq, m))
<1> DEFINE e == headEntry(lsq, m)
<1>1. /\ rob[k].state = "complete" /\ IsMemory(k) /\ e.valid /\ headTag(lsq, m) = rob[k].lsqTag
      /\ e.data # NotReady
  BY DEF laneReady, IsStore
<1>2. ~EmptySlot.valid
  BY SMTT(60) DEF EmptySlot
<1>3. e = lsq.entries[rob[k].lsqTag]
  BY <1>1, <1>2 DEF headEntry
<1>4. op(k) \in MemoryOps /\ Holds(e, rob[k], (robHead + (k - 1)) % RobDepth)
  BY <1>1, <1>3, PlaceIs
<1> HIDE DEF e
<1>5. ~misaligned(k)
  BY <1>1 DEF ResultsOK
<1>6. rob[k].state # "iq" /\ ~Misaligned(rob[k].op)
  BY <1>1, <1>5 DEF misaligned, Misaligned, op
<1>7. /\ e.address = <<[addr |-> op(k).addr, offset |-> op(k).offset]>>
      /\ e.data = <<op(k).data>> /\ e.access = op(k).access
  BY <1>1, <1>4, <1>6 DEF Holds, op
<1>8. e.address[1] = [addr |-> op(k).addr, offset |-> op(k).offset] /\ e.data[1] = op(k).data
  BY <1>7, SomeIsNotNone
<1>9. e.address[1].addr = op(k).addr /\ e.address[1].offset = op(k).offset
  BY <1>8, SMTT(60)
<1>10. storeOf(e) = StoreAt(k)
  BY <1>7, <1>8, <1>9 DEF storeOf, StoreAt
<1>11. op(k).addr \in Addresses /\ op(k).offset \in Lanes /\ op(k).access \in StoreAccess /\ op(k).data \in Words
  BY <1>4, OpIs DEF IsStore
<1>12. /\ StoreAt(k).addr \in Addresses
       /\ StoreAt(k) \in [addr : Addresses, offset : Lanes, access : StoreAccess, data : Words]
  BY <1>11, SMTT(60) DEF StoreAt
<1> QED
  BY <1>9, <1>10, <1>12 DEF Retirable, e

LEMMA NothingCommits ==
  ASSUME Types
  PROVE  Committing({}, 0, 0)
<1>1. Len(rob) \in Nat
  BY RobFields DEF Types
<1>2. 0 \in 0..2 /\ 0 <= Len(rob) /\ {} = 1..0 /\ 0 \in 0..0
  BY <1>1, SMTT(60)
<1> QED
  BY <1>2 DEF Committing, commitStore

\* The candidates of the first pass of the commit stage.
LEMMA CandidatesAre ==
  ASSUME Types, Linked(rob, robHead, lsq), ResultsOK, NEW t
  PROVE  \E n, k \in 0..2 : Committing(candidates(t), n, k)
<1> DEFINE lane1 == laneReady(1, 0, t)
           lane2 == /\ lane1
                    /\ laneReady(2, IF IsMemory(1) THEN 1 ELSE 0, t)
                    /\ ~(IsStore(1) /\ IsStore(2)) /\ (IsMemory(1) \/ IsMemory(2))
           lanes == candidates(t)
<1>1. Len(rob) \in Nat
  BY RobFields DEF Types
<1>2. lanes = {i \in {1, 2} : (i = 1 /\ lane1) \/ (i = 2 /\ lane2)}
  BY DEF candidates
<1>3. 1..0 = {} /\ 1..1 = {1} /\ 1..2 = {1, 2} /\ 0..0 = {0} /\ 0..1 = {0, 1} /\ 0..2 = {0, 1, 2} /\ 1 # 2
      /\ 1 # 0 /\ 2 # 0 /\ 0 \in 0..2 /\ 1 \in 0..2 /\ 2 \in 0..2
  BY SMTT(60)
<1>4. lane1 => 1 <= Len(rob) /\ rob[1].state = "complete" /\ 1 \in 1..Len(rob)
  <2>1. lane1 => 1 <= Len(rob) /\ rob[1].state = "complete"
    BY DEF laneReady
  <2> HIDE DEF lane1
  <2> QED
    BY <1>1, <2>1, SMTT(60)
<1>5. lane2 => 2 <= Len(rob) /\ rob[2].state = "complete" /\ 2 \in 1..Len(rob)
  <2>1. lane2 => 2 <= Len(rob) /\ rob[2].state = "complete"
    BY DEF laneReady
  <2> HIDE DEF lane2
  <2> QED
    BY <1>1, <2>1, SMTT(60)
<1>6. lane1 /\ IsStore(1) => Retirable(1, headEntry(lsq, 0))
  BY <1>4, RetirableIs
<1>7. lane2 /\ IsStore(2) => Retirable(2, headEntry(lsq, IF IsMemory(1) THEN 1 ELSE 0))
  BY <1>5, RetirableIs
<1>8. lane2 => lane1 /\ ~(IsStore(1) /\ IsStore(2))
  OBVIOUS
<1> HIDE DEF lane1, lane2, lanes
<1>9. CASE ~lane1
  <2>1. lanes = {}
    BY <1>2, <1>8, <1>9
  <2>2. Committing(lanes, 0, 0)
    BY <2>1, NothingCommits
  <2> QED
    BY <1>3, <2>2 DEF lanes
<1>10. CASE lane1 /\ ~lane2
  <2>1. lanes = {1}
    BY <1>2, <1>10
  <2>2. CASE IsStore(1)
    <3>1. commitStore(lanes) = {1}
      BY <2>1, <2>2 DEF commitStore
    <3>2. commitStoreEntry(lanes) = headEntry(lsq, 0)
      BY <3>1 DEF commitStoreEntry
    <3>3. Committing(lanes, 1, 1)
      BY <1>3, <1>4, <1>6, <1>10, <2>1, <2>2, <3>1, <3>2 DEF Committing
    <3> QED
      BY <1>3, <3>3 DEF lanes
  <2>3. CASE ~IsStore(1)
    <3>1. commitStore(lanes) = {}
      BY <2>1, <2>3 DEF commitStore
    <3>2. Committing(lanes, 1, 0)
      BY <1>3, <1>4, <1>10, <2>1, <2>3, <3>1 DEF Committing
    <3> QED
      BY <1>3, <3>2 DEF lanes
  <2> QED
    BY <2>2, <2>3
<1>11. CASE lane2
  <2>1. lanes = {1, 2} /\ lane1
    BY <1>2, <1>8, <1>11
  <2>2. CASE IsStore(1)
    <3>1. commitStore(lanes) = {1} /\ ~IsStore(2)
      BY <1>8, <1>11, <2>1, <2>2 DEF commitStore
    <3>2. commitStoreEntry(lanes) = headEntry(lsq, 0)
      BY <3>1 DEF commitStoreEntry
    <3>3. Committing(lanes, 2, 1)
      BY <1>3, <1>4, <1>5, <1>6, <1>11, <2>1, <2>2, <3>1, <3>2 DEF Committing
    <3> QED
      BY <1>3, <3>3 DEF lanes
  <2>3. CASE ~IsStore(1) /\ IsStore(2)
    <3>1. commitStore(lanes) = {2}
      BY <2>1, <2>3 DEF commitStore
    <3>2. commitStoreEntry(lanes) = headEntry(lsq, IF IsMemory(1) THEN 1 ELSE 0)
      BY <1>3, <3>1 DEF commitStoreEntry
    <3>3. Committing(lanes, 2, 2)
      BY <1>3, <1>4, <1>5, <1>7, <1>11, <2>1, <2>3, <3>1, <3>2 DEF Committing
    <3> QED
      BY <1>3, <3>3 DEF lanes
  <2>4. CASE ~IsStore(1) /\ ~IsStore(2)
    <3>1. commitStore(lanes) = {}
      BY <2>1, <2>4 DEF commitStore
    <3>2. Committing(lanes, 2, 0)
      BY <1>3, <1>4, <1>5, <1>11, <2>1, <2>4, <3>1 DEF Committing
    <3> QED
      BY <1>3, <3>2 DEF lanes
  <2> QED
    BY <2>2, <2>3, <2>4
<1> QED
  BY <1>8, <1>9, <1>10, <1>11

\* The Store Buffer and the D-cache see the Store itself.
LEMMA RequestIs ==
  ASSUME NEW w, NEW k, IsStore(k)
  PROVE  StoreStep(w, op(k)) = StoreStep(w, storeRequest(StoreAt(k)))
<1> DEFINE q == storeRequest(StoreAt(k))
<1>1. /\ q.write /\ q.addr = op(k).addr /\ q.offset = op(k).offset /\ q.access = op(k).access
      /\ q.data = op(k).data
  BY SMTT(60) DEF storeRequest, StoreAt
<1>2. op(k).write
  BY DEF IsStore
<1> HIDE DEF q
<1> QED
  BY <1>1, <1>2 DEF StoreStep, Memory!Written, q

\* Memory after the retirement of the first m operations.
LEMMA RetiredFlight ==
  ASSUME Least, Types, NEW lanes, NEW n, NEW k, Committing(lanes, n, k), NEW m \in 0..n
  PROVE  Flight[m] = IF k # 0 /\ k <= m THEN StoreStep(arch, storeRequest(StoreAt(k))) ELSE arch
<1> DEFINE S == StoreStep(arch, storeRequest(StoreAt(k)))
<1>1. n \in 0..2 /\ n <= Len(rob) /\ k \in 0..n /\ \A i \in 1..n : IsStore(i) <=> i = k
  BY DEF Committing
<1>2. Len(rob) \in Nat
  BY FlightIs
<1>3. Flight[0] = arch
  BY FlightIs DEF Runs
<1>4. ASSUME NEW i \in 1..n PROVE Flight[i] = IF i = k THEN StoreStep(Flight[i - 1], op(k)) ELSE Flight[i - 1]
  <2>1. i \in 1..Len(rob)
    BY <1>1, <1>2, SMTT(60)
  <2>2. /\ Flight[i] = StoreStep(Flight[i - 1], InFlight[i])
        /\ InFlight[i] = IF IsMemory(i) THEN op(i) ELSE [write |-> FALSE]
    BY <2>1, FlightIs DEF Runs
  <2>3. CASE i = k
    BY <1>1, <2>2, <2>3 DEF IsStore
  <2>4. CASE i # k
    <3>1. ~InFlight[i].write
      <4>1. ~[write |-> FALSE].write
        BY SMTT(60)
      <4> QED
        BY <1>1, <2>2, <2>4, <4>1 DEF IsStore
    <3> QED
      BY <2>2, <2>4, <3>1 DEF StoreStep
  <2> QED
    BY <2>3, <2>4
<1>5. k # 0 => StoreStep(arch, op(k)) = S
  <2>1. k # 0 => k \in 1..n
    BY <1>1, SMTT(60)
  <2> QED
    BY <1>1, <2>1, RequestIs
<1> HIDE DEF S
<1>6. CASE m = 0
  BY <1>1, <1>3, <1>6, SMTT(60)
<1>7. CASE m = 1
  <2>1. Flight[1] = IF 1 = k THEN StoreStep(Flight[0], op(k)) ELSE Flight[0]
    <3>1. 1 \in 1..n /\ 1 - 1 = 0
      BY <1>1, <1>7, SMTT(60)
    <3> QED
      BY <1>4, <3>1
  <2>2. (k # 0 /\ k <= m) <=> k = 1
    BY <1>1, <1>7, SMTT(60)
  <2> QED
    BY <1>3, <1>5, <1>7, <2>1, <2>2, SMTT(60) DEF S
<1>8. CASE m = 2
  <2>1. Flight[1] = IF 1 = k THEN StoreStep(Flight[0], op(k)) ELSE Flight[0]
    <3>1. 1 \in 1..n /\ 1 - 1 = 0
      BY <1>1, <1>8, SMTT(60)
    <3> QED
      BY <1>4, <3>1
  <2>2. Flight[2] = IF 2 = k THEN StoreStep(Flight[1], op(k)) ELSE Flight[1]
    <3>1. 2 \in 1..n /\ 2 - 1 = 1
      BY <1>1, <1>8, SMTT(60)
    <3> QED
      BY <1>4, <3>1
  <2>3. (k # 0 /\ k <= m) <=> (k = 1 \/ k = 2)
    BY <1>1, <1>8, SMTT(60)
  <2> QED
    BY <1>3, <1>5, <1>8, <2>1, <2>2, <2>3, SMTT(60) DEF S
<1>9. m \in {0, 1, 2}
  BY <1>1, SMTT(60)
<1> QED
  BY <1>6, <1>7, <1>8, <1>9 DEF S

\* The lanes that retire, when the destination of the Store takes it or not.
Retires(lanes, k, acc, r) ==
    /\ retireLanes(lanes, acc) = 1..r
    /\ Flight[r] = IF k # 0 /\ acc THEN StoreStep(arch, storeRequest(StoreAt(k))) ELSE arch

LEMMA RetireIs ==
  ASSUME Least, Types, NEW lanes, NEW n, NEW k, Committing(lanes, n, k), NEW acc
  PROVE  \E r \in 0..n : Retires(lanes, k, acc, r)
<1>1. /\ n \in 0..2 /\ n <= Len(rob) /\ k \in 0..n /\ lanes = 1..n
      /\ commitStore(lanes) = IF k = 0 THEN {} ELSE {k}
  BY DEF Committing
<1>2. n \in 0..n /\ (k # 0 => k - 1 \in 0..n /\ k <= n /\ ~(k <= k - 1))
  BY <1>1, SMTT(60)
<1>3. CASE k = 0
  <2>1. retireLanes(lanes, acc) = 1..n
    BY <1>1, <1>3 DEF retireLanes
  <2>2. Flight[n] = arch
    BY <1>2, <1>3, RetiredFlight
  <2> QED
    BY <1>2, <1>3, <2>1, <2>2 DEF Retires
<1>4. CASE k # 0 /\ acc
  <2>1. retireLanes(lanes, acc) = 1..n
    BY <1>1, <1>4 DEF retireLanes
  <2>2. Flight[n] = StoreStep(arch, storeRequest(StoreAt(k)))
    BY <1>2, <1>4, RetiredFlight
  <2> QED
    BY <1>2, <1>4, <2>1, <2>2 DEF Retires
<1>5. CASE k # 0 /\ ~acc
  <2>1. retireLanes(lanes, acc) = {i \in 1..n : i < k}
    BY <1>1, <1>5 DEF retireLanes
  <2>2. {i \in 1..n : i < k} = 1..(k - 1)
    BY <1>1, <1>5, SMTT(60)
  <2>3. Flight[k - 1] = arch
    BY <1>2, <1>5, RetiredFlight
  <2> QED
    BY <1>2, <1>5, <2>1, <2>2, <2>3 DEF Retires
<1> QED
  BY <1>3, <1>4, <1>5

--------------------------------------------------------------------------------
(* The Store Buffer and memory.                                                *)

\* Memory with the Stores of a buffer applied.
Requests(q) == [j \in 1..Len(q) |-> storeRequest(q[j])]
With(words, q) == Replay(words, Requests(q))[Len(q)]

LEMMA WithRuns ==
  ASSUME Least, NEW w, NEW q, NEW T, q \in Seq(T)
  PROVE  /\ Runs(Replay(w, Requests(q)), w, Requests(q)) /\ Len(Requests(q)) = Len(q) /\ Len(q) \in Nat
         /\ \A j \in 1..Len(q) : Requests(q)[j] = storeRequest(q[j])
<1>1. Len(q) \in Nat
  BY SMTT(60)
<1>2. \A j \in 1..Len(q) : Requests(q)[j] = storeRequest(q[j])
  BY DEF Requests
<1>3. Len(Requests(q)) = Len(q)
  <2>1. Requests(q) \in [1..Len(q) -> {Requests(q)[j] : j \in 1..Len(q)}]
    BY DEF Requests
  <2> QED
    BY <1>1, <2>1, SeqIs
<1>4. Runs(Replay(w, Requests(q)), w, Requests(q))
  BY <1>1, <1>3, ReplayRuns
<1> QED
  BY <1>1, <1>2, <1>3, <1>4

\* A Store that joins the buffer is applied last.
LEMMA WithAppend ==
  ASSUME Least, NEW w, NEW T, NEW q \in Seq(T), NEW s \in T
  PROVE  With(w, Append(q, s)) = StoreStep(With(w, q), storeRequest(s))
<1> DEFINE f == Replay(w, Requests(q))
           g == Replay(w, Requests(Append(q, s)))
           N == Len(q)
<1>1. /\ Append(q, s) \in Seq(T) /\ Len(Append(q, s)) = N + 1 /\ N \in Nat
      /\ Append(q, s)[N + 1] = s /\ \A j \in 1..N : Append(q, s)[j] = q[j] /\ j \in 1..(N + 1)
  BY SMTT(60)
<1>2. Runs(f, w, Requests(q)) /\ Len(Requests(q)) = N /\ \A j \in 1..N : Requests(q)[j] = storeRequest(q[j])
  BY WithRuns
<1>3. /\ Runs(g, w, Requests(Append(q, s))) /\ Len(Requests(Append(q, s))) = N + 1
      /\ \A j \in 1..(N + 1) : Requests(Append(q, s))[j] = storeRequest(Append(q, s)[j])
  BY <1>1, WithRuns
<1> HIDE DEF f, g
<1>4. g[N] = f[N]
  <2>1. /\ 0 \in Nat /\ 0 + N <= N + 1 /\ N + 1 \in Nat /\ N <= N /\ 0 + N = N /\ N \in 0..N
        /\ \A j \in 1..N : 0 + j = j
    BY <1>1, SMTT(60)
  <2>2. g[0] = w
    BY <1>3 DEF Runs
  <2>3. Runs(f, g[0], Requests(q))
    BY <1>2, <2>2
  <2>4. Agree(Requests(q), Requests(Append(q, s)), 0, N)
    BY <1>1, <1>2, <1>3, <2>1 DEF Agree
  <2>5. /\ Len(Requests(q)) \in Nat /\ Len(Requests(Append(q, s))) \in Nat
        /\ 0 + N <= Len(Requests(Append(q, s))) /\ N <= Len(Requests(q))
    BY <1>1, <1>2, <1>3, <2>1
  <2>6. Follows(f, g, 0, N)
    <3> HIDE DEF N
    <3> QED
      BY <1>1, <1>3, <2>1, <2>3, <2>4, <2>5, RunsFollow
  <2> QED
    BY <2>1, <2>6 DEF Follows
<1>5. g[N + 1] = StoreStep(g[N], storeRequest(s))
  <2>1. N + 1 \in 1..(N + 1) /\ (N + 1) - 1 = N
    BY <1>1, SMTT(60)
  <2> QED
    BY <1>1, <1>3, <2>1 DEF Runs
<1> QED
  BY <1>1, <1>4, <1>5 DEF With, f, g

\* The Store that leaves the buffer was applied first.
LEMMA WithTail ==
  ASSUME Least, NEW w, NEW T, NEW q \in Seq(T), q # <<>>
  PROVE  With(StoreStep(w, storeRequest(Head(q))), Tail(q)) = With(w, q)
<1> DEFINE f == Replay(w, Requests(q))
           v == StoreStep(w, storeRequest(Head(q)))
           g == Replay(v, Requests(Tail(q)))
           N == Len(q)
<1>1. /\ Tail(q) \in Seq(T) /\ Len(Tail(q)) = N - 1 /\ N \in Nat \ {0} /\ Head(q) = q[1]
      /\ \A j \in 1..(N - 1) : Tail(q)[j] = q[1 + j]
  BY SMTT(60)
<1>2. Runs(f, w, Requests(q)) /\ Len(Requests(q)) = N /\ \A j \in 1..N : Requests(q)[j] = storeRequest(q[j])
  BY WithRuns
<1>3. /\ Runs(g, v, Requests(Tail(q))) /\ Len(Requests(Tail(q))) = N - 1
      /\ \A j \in 1..(N - 1) : Requests(Tail(q))[j] = storeRequest(Tail(q)[j])
  BY <1>1, WithRuns
<1>4. f[1] = v
  <2>1. 1 \in 1..N /\ 1 - 1 = 0
    BY <1>1, SMTT(60)
  <2> QED
    BY <1>1, <1>2, <2>1 DEF Runs
<1> HIDE DEF f, g, v
<1>5. g[N - 1] = f[N]
  <2>1. /\ 1 \in Nat /\ N - 1 \in Nat /\ 1 + (N - 1) <= N /\ N - 1 <= N - 1 /\ 1 + (N - 1) = N
        /\ N - 1 \in 0..(N - 1) /\ \A j \in 1..(N - 1) : 1 + j \in 1..N
    BY <1>1, SMTT(60)
  <2>2. Runs(g, f[1], Requests(Tail(q)))
    BY <1>3, <1>4
  <2>3. Agree(Requests(Tail(q)), Requests(q), 1, N - 1)
    BY <1>1, <1>2, <1>3, <2>1 DEF Agree
  <2>4. /\ Len(Requests(q)) \in Nat /\ Len(Requests(Tail(q))) \in Nat
        /\ 1 + (N - 1) <= Len(Requests(q)) /\ N - 1 <= Len(Requests(Tail(q)))
    BY <1>1, <1>2, <1>3, <2>1
  <2>5. Follows(g, f, 1, N - 1)
    <3> HIDE DEF N
    <3> QED
      BY <1>2, <2>1, <2>2, <2>3, <2>4, RunsFollow
  <2> QED
    BY <2>1, <2>5 DEF Follows
<1> QED
  BY <1>1, <1>5 DEF With, f, g, v

\* The Loads that memory still owes an answer after resp.
Still(resp) == {o \in owed : resp = None \/ o.id # resp[1]}

LEMMA StoreAccepted ==
  ASSUME NEW resp, response' = resp, NEW req, req.write, req.addr \in Addresses, Memory!Accept(req)
  PROVE  golden' = StoreStep(golden, req) /\ owed' = Still(resp)
<1>1. Memory!AcceptStore(req)
  BY DEF Memory!Accept, Memory!AcceptLoad
<1>2. ~Memory!IsUart(req.addr) /\ ~Memory!IsFromHost(req.addr)
  BY AddressesAssumption
<1>3. golden' = StoreStep(golden, req)
  BY <1>1, <1>2 DEF Memory!AcceptStore, StoreStep
<1>4. owed' = IF resp = None THEN owed ELSE {o \in owed : o.id # resp[1]}
  BY <1>1 DEF Memory!AcceptStore, Memory!StillOwed, Memory!None, None
<1>5. owed' = Still(resp)
  BY <1>4 DEF Still
<1> QED
  BY <1>3, <1>5

\* A Load that is accepted is owed the word of that moment.
Owes(i) == [id |-> TagAt(i),
            values |-> {formatLoadData(golden[op(i).addr], op(i).access, op(i).offset)}]

LEMMA LoadAccepted ==
  ASSUME NEW resp, response' = resp, NEW i, op(i).addr \in Addresses, Memory!Accept(loadRequest(i))
  PROVE  golden' = golden /\ owed' = Still(resp) \cup {Owes(i)}
<1> DEFINE req == loadRequest(i)
<1>1. /\ ~req.write /\ req.id = TagAt(i) /\ req.addr = op(i).addr /\ req.offset = op(i).offset
      /\ req.access = op(i).access
  BY SMTT(60) DEF loadRequest
<1> HIDE DEF req
<1>2. Memory!AcceptLoad(req)
  BY <1>1 DEF Memory!Accept, Memory!AcceptStore, req
<1>3. ~Memory!IsUart(op(i).addr) /\ ~Memory!IsFromHost(op(i).addr)
  BY AddressesAssumption
<1>4. Memory!ReadWords(req.addr) = {golden[op(i).addr]}
  BY <1>1, <1>3 DEF Memory!ReadWords
<1>5. Memory!Answers(req) = {formatLoadData(golden[op(i).addr], op(i).access, op(i).offset)}
  BY <1>1, <1>4, SameLanes DEF Memory!Answers
<1>6. owed' = (IF resp = None THEN owed ELSE {o \in owed : o.id # resp[1]}) \cup {Owes(i)}
  BY <1>1, <1>2, <1>5 DEF Memory!AcceptLoad, Memory!StillOwed, Memory!None, None, Owes
<1>7. (IF resp = None THEN owed ELSE {o \in owed : o.id # resp[1]}) = Still(resp)
  BY DEF Still
<1> QED
  BY <1>2, <1>6, <1>7 DEF Memory!AcceptLoad

LEMMA NothingAccepted ==
  ASSUME NEW resp, response' = resp, Memory!AcceptNothing
  PROVE  golden' = golden /\ owed' = Still(resp)
<1>1. owed' = IF resp = None THEN owed ELSE {o \in owed : o.id # resp[1]}
  BY DEF Memory!AcceptNothing, Memory!StillOwed, Memory!None, None
<1>2. owed' = Still(resp)
  BY <1>1 DEF Still
<1> QED
  BY <1>2 DEF Memory!AcceptNothing

LEMMA MmioIs ==
  ASSUME NEW lanes, NEW n, NEW k, Committing(lanes, n, k)
  PROVE  commitMmio(lanes) <=> (k # 0 /\ op(k).addr.mmio)
<1>1. commitStore(lanes) = (IF k = 0 THEN {} ELSE {k}) /\ (k # 0 => Retirable(k, commitStoreEntry(lanes)))
  BY DEF Committing
<1> QED
  BY <1>1 DEF commitMmio, Retirable

\* What the D-cache port takes in this clock.
PortTakes(cand, lanes, lv, ready, resp, k) ==
    /\ golden' = IF mmioStoreRequest(lanes) /\ ready THEN StoreStep(golden, storeRequest(StoreAt(k)))
                 ELSE IF drainFire(lanes, lv, ready) THEN StoreStep(golden, storeRequest(Head(queue)))
                 ELSE golden
    /\ \A o \in owed' :
          \/ o \in Still(resp)
          \/ selectLoadRequest(lanes, lv) /\ ready /\ \E i \in cand : o = Owes(i)
    /\ Still(resp) \subseteq owed'

LEMMA PortIs ==
  ASSUME Types, NEW lanes, NEW n, NEW k, Committing(lanes, n, k), NEW cand, NEW lv, NEW ready,
         NEW resp, response' = resp, MemoryPort(cand, lanes, lv, ready),
         \A i \in cand : op(i).addr \in Addresses
  PROVE  PortTakes(cand, lanes, lv, ready, resp, k)
<1>1. CASE mmioStoreRequest(lanes) /\ ready
  <2>1. k # 0
    BY <1>1, MmioIs DEF mmioStoreRequest
  <2>2. Retirable(k, commitStoreEntry(lanes))
    BY <2>1 DEF Committing
  <2>3. Memory!Accept(storeRequest(StoreAt(k))) /\ StoreAt(k).addr \in Addresses
    BY <1>1, <2>2 DEF MemoryPort, Retirable
  <2>4. storeRequest(StoreAt(k)).write /\ storeRequest(StoreAt(k)).addr = StoreAt(k).addr
    BY SMTT(60) DEF storeRequest
  <2>5. golden' = StoreStep(golden, storeRequest(StoreAt(k))) /\ owed' = Still(resp)
    BY <2>3, <2>4, StoreAccepted
  <2> QED
    BY <1>1, <2>5 DEF PortTakes
<1>2. CASE ~(mmioStoreRequest(lanes) /\ ready) /\ drainFire(lanes, lv, ready)
  <2>1. Memory!Accept(storeRequest(Head(queue)))
    BY <1>2 DEF MemoryPort
  <2>2. queue \in Seq(StoreType) /\ queue # <<>>
    BY <1>2 DEF Types, drainFire, selectStoreBufferDrain
  <2>3. Head(queue) \in StoreType
    BY <2>2, SMTT(60)
  <2>4. Head(queue).addr \in Addresses
    BY <2>3, SMTT(60) DEF StoreType
  <2>5. storeRequest(Head(queue)).write /\ storeRequest(Head(queue)).addr = Head(queue).addr
    BY SMTT(60) DEF storeRequest
  <2>6. golden' = StoreStep(golden, storeRequest(Head(queue))) /\ owed' = Still(resp)
    BY <2>1, <2>4, <2>5, StoreAccepted
  <2> QED
    BY <1>2, <2>6 DEF PortTakes
<1>3. CASE ~(mmioStoreRequest(lanes) /\ ready) /\ ~drainFire(lanes, lv, ready)
  <2>1. CASE selectLoadRequest(lanes, lv) /\ ready
    <3>1. PICK i \in cand : Memory!Accept(loadRequest(i))
      BY <1>3, <2>1 DEF MemoryPort
    <3>2. golden' = golden /\ owed' = Still(resp) \cup {Owes(i)}
      BY <3>1, LoadAccepted
    <3> QED
      BY <1>3, <2>1, <3>2 DEF PortTakes
  <2>2. CASE ~(selectLoadRequest(lanes, lv) /\ ready)
    <3>1. Memory!AcceptNothing
      BY <1>3, <2>2 DEF MemoryPort
    <3>2. golden' = golden /\ owed' = Still(resp)
      BY <3>1, NothingAccepted
    <3> QED
      BY <1>3, <3>2 DEF PortTakes
  <2> QED
    BY <2>1, <2>2
<1> QED
  BY <1>1, <1>2, <1>3

\* The Store Buffer and memory after the clock: nothing is lost between them,
\* and the observer has the Store that retires.
Flows(k, acc) ==
    /\ golden' \in [Addresses -> Words]
    /\ arch' \in [Addresses -> Words]
    /\ arch' = IF k # 0 /\ acc THEN StoreStep(arch, storeRequest(StoreAt(k))) ELSE arch
    /\ queue' \in Seq(StoreType) /\ Len(queue') <= SbDepth
    /\ arch' = With(golden', queue')

\* The part of the clock that the buffer and the observer see.
Commits(lanes, lv, ready) ==
    /\ Buffer(lanes, drainFire(lanes, lv, ready), ready)
    /\ Retired(lanes, drainFire(lanes, lv, ready), ready)

LEMMA ConcatIs ==
  ASSUME NEW T, NEW q \in Seq(T)
  PROVE  q \o <<>> = q /\ \A s \in T : q \o <<s>> = Append(q, s)
  BY SMTT(60)

LEMMA WordsKept ==
  ASSUME NEW w \in [Addresses -> Words], NEW s,
         s \in [addr : Addresses, offset : Lanes, access : StoreAccess, data : Words]
  PROVE  StoreStep(w, storeRequest(s)) \in [Addresses -> Words]
<1>1. Storable(storeRequest(s))
  BY SMTT(60) DEF storeRequest, Storable
<1> QED
  BY <1>1, StepIs DEF Stepped

LEMMA ConservedIs ==
  /\ RetiredStoresConserved <=> arch = With(golden, queue)
  /\ RetiredStoresConserved' <=> arch' = With(golden', queue')
  BY DEF RetiredStoresConserved, With, Requests, Buffered

LEMMA WithNothing ==
  ASSUME Least, NEW w
  PROVE  With(w, <<>>) = w
<1>1. <<>> \in Seq({}) /\ Len(<<>>) = 0
  BY SMTT(60)
<1>2. Runs(Replay(w, Requests(<<>>)), w, Requests(<<>>))
  BY <1>1, WithRuns
<1> QED
  BY <1>1, <1>2 DEF With, Runs

LEMMA BufferKeeps ==
  ASSUME Least, Types, RetiredStoresConserved, NEW lanes, NEW n, NEW k, Committing(lanes, n, k),
         NEW cand, NEW lv, NEW ready, NEW resp, PortTakes(cand, lanes, lv, ready, resp, k),
         Commits(lanes, lv, ready)
  PROVE  Flows(k, storeAccepted(lanes, drainFire(lanes, lv, ready), ready))
<1> DEFINE drains == drainFire(lanes, lv, ready)
           acc == storeAccepted(lanes, drains, ready)
           sent == mmioStoreRequest(lanes) /\ ready
           s == StoreAt(k)
           left == IF drains THEN Tail(queue) ELSE queue
           more == enqueued(lanes, drains, ready)
<1>1. /\ golden \in [Addresses -> Words] /\ arch \in [Addresses -> Words]
      /\ queue \in Seq(StoreType) /\ Len(queue) <= SbDepth /\ SbDepth \in Nat \ {0}
  BY RobDepthAssumption DEF Types
<1>2. arch = With(golden, queue)
  BY ConservedIs
<1>3. (commitStore(lanes) = IF k = 0 THEN {} ELSE {k}) /\ (k # 0 => Retirable(k, commitStoreEntry(lanes)))
  BY DEF Committing
<1>4. k # 0 => /\ storeOf(commitStoreEntry(lanes)) = s
               /\ s \in [addr : Addresses, offset : Lanes, access : StoreAccess, data : Words]
               /\ s.addr = op(k).addr
  <2>1. s.addr = op(k).addr
    BY SMTT(60) DEF StoreAt
  <2> QED
    BY <1>3, <2>1 DEF Retirable
<1>5. commitMmio(lanes) <=> (k # 0 /\ op(k).addr.mmio)
  BY MmioIs
<1>6. queue' = left \o more
  BY DEF Commits, Buffer
<1>7. more = IF k # 0 /\ ~commitMmio(lanes) /\ acc THEN <<s>> ELSE <<>>
  <2>1. commitStore(lanes) # {} <=> k # 0
    BY <1>3
  <2> QED
    BY <1>4, <2>1 DEF enqueued
<1>8. arch' = IF k # 0 /\ acc THEN StoreStep(arch, storeRequest(s)) ELSE arch
  <2>1. commitStore(lanes) # {} <=> k # 0
    BY <1>3
  <2>2. storeRequest(s).write
    BY SMTT(60) DEF storeRequest
  <2> QED
    BY <1>4, <2>1, <2>2 DEF Commits, Retired, StoreStep
<1>9. drains => queue # <<>>
  BY DEF drainFire, selectStoreBufferDrain
<1>10. sent => queue = <<>> /\ commitMmio(lanes) /\ acc
  BY DEF mmioStoreRequest, storeAccepted
<1>11. golden' = IF sent THEN StoreStep(golden, storeRequest(s))
                 ELSE IF drains THEN StoreStep(golden, storeRequest(Head(queue))) ELSE golden
  BY DEF PortTakes
<1>12. ~commitMmio(lanes) /\ acc => Len(queue) < SbDepth \/ drains
  BY DEF storeAccepted
<1>13. commitMmio(lanes) /\ acc => sent
  BY DEF storeAccepted, mmioStoreRequest
<1> HIDE DEF drains, acc, sent, s, left, more
<1>14. arch' \in [Addresses -> Words]
  BY <1>1, <1>4, <1>8, WordsKept
<1>15. CASE sent
  <2>1. queue = <<>> /\ commitMmio(lanes) /\ k # 0 /\ acc /\ ~drains
    BY <1>5, <1>9, <1>10, <1>15
  <2>2. left = <<>> /\ more = <<>>
    BY <1>7, <2>1 DEF left
  <2>3. queue' = queue
    BY <1>1, <1>6, <2>1, <2>2, ConcatIs
  <2>4. arch = golden
    BY <1>2, <2>1, WithNothing
  <2>5. golden' = arch'
    BY <1>8, <1>11, <1>15, <2>1, <2>4
  <2>6. arch' = With(golden', queue')
    BY <2>1, <2>3, <2>5, WithNothing
  <2> QED
    BY <1>1, <1>8, <1>14, <2>3, <2>5, <2>6 DEF Flows, acc, s, drains
<1>16. CASE ~sent
  <2>1. left \in Seq(StoreType) /\ Len(left) <= SbDepth /\ Len(left) \in Nat
        /\ (Len(queue) < SbDepth \/ drains => Len(left) < SbDepth)
    <3>1. CASE drains
      <4>1. left = Tail(queue) /\ queue # <<>>
        BY <1>9, <3>1 DEF left
      <4>2. Tail(queue) \in Seq(StoreType) /\ Len(Tail(queue)) = Len(queue) - 1 /\ Len(queue) \in Nat \ {0}
        BY <1>1, <4>1, SMTT(60)
      <4> QED
        BY <1>1, <4>1, <4>2, SMTT(60)
    <3>2. CASE ~drains
      <4>1. left = queue
        BY <3>2 DEF left
      <4>2. Len(queue) \in Nat
        BY <1>1, SMTT(60)
      <4> QED
        BY <1>1, <3>2, <4>1, <4>2
    <3> QED
      BY <3>1, <3>2
  <2>2. golden' \in [Addresses -> Words] /\ With(golden', left) = arch
    <3>1. CASE drains
      <4>1. /\ left = Tail(queue) /\ queue # <<>>
            /\ golden' = StoreStep(golden, storeRequest(Head(queue)))
        BY <1>9, <1>11, <1>16, <3>1 DEF left
      <4>2. Head(queue) \in StoreType
        BY <1>1, <4>1, SMTT(60)
      <4>3. Head(queue) \in [addr : Addresses, offset : Lanes, access : StoreAccess, data : Words]
        BY <4>2, SMTT(60) DEF StoreType
      <4> QED
        BY <1>1, <1>2, <4>1, <4>3, WithTail, WordsKept
    <3>2. CASE ~drains
      BY <1>1, <1>2, <1>11, <1>16, <3>2 DEF left
    <3> QED
      BY <3>1, <3>2
  <2>3. CASE k # 0 /\ acc
    <3>1. ~commitMmio(lanes)
      BY <1>13, <1>16, <2>3
    <3>2. more = <<s>> /\ Len(left) < SbDepth /\ arch' = StoreStep(arch, storeRequest(s))
      BY <1>7, <1>8, <1>12, <2>1, <2>3, <3>1
    <3>3. s \in StoreType
      <4>1. /\ s \in [addr : Addresses, offset : Lanes, access : StoreAccess, data : Words]
            /\ ~s.addr.mmio
        BY <1>4, <1>5, <2>3, <3>1
      <4> QED
        BY <4>1, SMTT(60) DEF StoreType
    <3>4. queue' = Append(left, s)
      BY <1>6, <2>1, <3>2, <3>3, ConcatIs
    <3>5. Append(left, s) \in Seq(StoreType) /\ Len(Append(left, s)) <= SbDepth
      BY <1>1, <2>1, <3>2, <3>3, SMTT(60)
    <3>6. With(golden', Append(left, s)) = StoreStep(With(golden', left), storeRequest(s))
      BY <2>1, <3>3, WithAppend
    <3> QED
      BY <1>8, <1>14, <2>2, <3>2, <3>4, <3>5, <3>6 DEF Flows, acc, s, drains
  <2>4. CASE ~(k # 0 /\ acc)
    <3>1. more = <<>> /\ arch' = arch
      BY <1>7, <1>8, <2>4
    <3>2. queue' = left
      BY <1>6, <2>1, <3>1, ConcatIs
    <3> QED
      BY <1>8, <1>14, <2>1, <2>2, <3>1, <3>2 DEF Flows, acc, s, drains
  <2> QED
    BY <2>3, <2>4
<1> QED
  BY <1>15, <1>16

--------------------------------------------------------------------------------
(* The operations that stay in the ROB.                                        *)

\* The operations up to place r retire, the ones after place b are killed, and
\* the ones between move up by r; what joins behind them has not issued.
Carried(r, b, fired) ==
    /\ r \in 0..Len(rob) /\ b \in r..Len(rob)
    /\ rob' \in Seq(RobType) /\ Len(rob') <= RobDepth /\ b - r <= Len(rob')
    /\ robHead' = (robHead + r) % RobDepth
    /\ \A i \in 1..r : rob[i].state = "complete"
    /\ \A i \in (r + 1)..b :
          /\ rob'[i - r].op = rob[i].op /\ rob'[i - r].result = NewResult(i)
          /\ IsMemory(i) => rob'[i - r].state = NewState(i, fired, {})
          /\ ~IsMemory(i) => rob'[i - r].state # "exception"
    /\ \A j \in 1..Len(rob') : j \in 1..(b - r) \/ (rob'[j].state = "iq" /\ rob'[j].result = None)

\* The operation at place i is the one at place j after the clock.
Mirrors(i, j, fired) ==
    /\ i \in 1..Len(rob) /\ j \in 1..Len(rob')
    /\ rob'[j].op = rob[i].op /\ TagAt(j)' = TagAt(i) /\ Value(j)' = Value(i)
    /\ rob'[j].result = NewResult(i)
    /\ IsMemory(i) => rob'[j].state = NewState(i, fired, {})
    /\ ~IsMemory(i) => rob'[j].state # "exception"

LEMMA TagMoves ==
  ASSUME Types, NEW r \in 0..Len(rob), robHead' = (robHead + r) % RobDepth
  PROVE  robHead' \in Tags /\ \A i \in (r + 1)..Len(rob) : TagAt(i - r)' = TagAt(i)
<1>1. rob \in Seq(RobType) /\ Len(rob) <= RobDepth /\ robHead \in Tags
  BY DEF Types
<1>2. Len(rob) \in Nat /\ RobDepth \in Nat \ {0} /\ Tags = 0..(RobDepth - 1)
  BY <1>1, RobFields, RobDepthAssumption DEF Tags
<1>3. Ring(RobDepth, robHead)
  BY <1>1, <1>2, RingIs
<1>4. r \in 0..RobDepth
  BY <1>1, <1>2, SMTT(60)
<1>5. robHead' \in Tags
  BY <1>2, <1>3, <1>4 DEF Ring, At
<1>6. ASSUME NEW i \in (r + 1)..Len(rob) PROVE TagAt(i - r)' = TagAt(i)
  <2>1. i - r - 1 \in 0..RobDepth /\ r + (i - r - 1) <= RobDepth /\ r + (i - r - 1) = i - 1
    BY <1>1, <1>2, SMTT(60)
  <2>2. At(RobDepth, At(RobDepth, robHead, r), i - r - 1) = At(RobDepth, robHead, i - 1)
    <3>1. \A k \in 0..RobDepth :
             r + k <= RobDepth => At(RobDepth, At(RobDepth, robHead, r), k) = At(RobDepth, robHead, r + k)
      BY <1>3, <1>4 DEF Ring
    <3>2. At(RobDepth, At(RobDepth, robHead, r), i - r - 1) = At(RobDepth, robHead, r + (i - r - 1))
      BY <2>1, <3>1
    <3> QED
      BY <2>1, <3>2
  <2>3. robHead' + (i - r) - 1 = robHead' + (i - r - 1) /\ robHead + i - 1 = robHead + (i - 1)
    BY <1>1, <1>2, <1>5, SMTT(60)
  <2>4. TagAt(i - r)' = (robHead' + (i - r) - 1) % RobDepth
    BY DEF TagAt
  <2> QED
    BY <2>2, <2>3, <2>4 DEF TagAt, At
<1> QED
  BY <1>5, <1>6

\* Memory before an operation stays the same while older ones retire.
LEMMA ValueMoves ==
  ASSUME Least, Types, NEW r, NEW b, NEW fired, Carried(r, b, fired), arch' = Flight[r]
  PROVE  \A i \in (r + 1)..b : Value(i - r)' = Value(i)
<1>1. /\ r \in 0..Len(rob) /\ b \in r..Len(rob) /\ rob' \in Seq(RobType) /\ b - r <= Len(rob')
      /\ \A i \in (r + 1)..b : rob'[i - r].op = rob[i].op
  BY DEF Carried
<1>2. Len(rob) \in Nat /\ Len(rob') \in Nat
  BY <1>1, FlightIs, RobFields
<1>3. /\ r \in Nat /\ b - r \in Nat /\ r + (b - r) <= Len(rob)
      /\ \A n \in 1..(b - r) : n \in 1..Len(rob') /\ r + n \in (r + 1)..b /\ (r + n) - r = n /\ r + n \in 1..Len(rob)
  BY <1>1, <1>2, SMTT(60)
<1>4. \A n \in 1..Len(rob') : InFlight'[n] = IF rob'[n].op.kind = "memory" THEN rob'[n].op ELSE [write |-> FALSE]
  BY DEF InFlight, IsMemory, op
<1>5. Len(InFlight') = Len(rob')
  <2>1. InFlight' \in [1..Len(rob') -> {InFlight'[n] : n \in 1..Len(rob')}]
    BY DEF InFlight
  <2> QED
    BY <1>2, <2>1, SeqIs
<1>6. \A n \in 1..Len(rob) : InFlight[n] = IF rob[n].op.kind = "memory" THEN rob[n].op ELSE [write |-> FALSE]
  BY DEF InFlight, IsMemory, op
<1>7. Agree(InFlight', InFlight, r, b - r)
  <2> SUFFICES ASSUME NEW n \in 1..(b - r) PROVE InFlight'[n] = InFlight[r + n]
    BY DEF Agree
  <2>1. n \in 1..Len(rob') /\ r + n \in (r + 1)..b /\ (r + n) - r = n /\ r + n \in 1..Len(rob)
    BY <1>3
  <2>2. rob'[n].op = rob[r + n].op
    BY <1>1, <2>1
  <2> QED
    BY <1>4, <1>6, <2>1, <2>2
<1> DEFINE g == Replay(arch', InFlight')
<1>8. Runs(g, Flight[r], InFlight')
  <2>1. Len(InFlight') \in Nat
    BY <1>2, <1>5
  <2>2. Runs(g, arch', InFlight')
    BY <2>1, ReplayRuns
  <2> QED
    BY <2>2
<1> HIDE DEF g
<1>9. Follows(g, Flight, r, b - r)
  <2>1. /\ Len(InFlight') \in Nat /\ b - r <= Len(InFlight') /\ Len(InFlight) \in Nat
        /\ r + (b - r) <= Len(InFlight)
    BY <1>1, <1>2, <1>3, <1>5, FlightIs
  <2>2. Runs(Flight, arch, InFlight)
    BY FlightIs
  <2> QED
    BY <1>3, <1>7, <1>8, <2>1, <2>2, RunsFollow
<1>10. ASSUME NEW i \in (r + 1)..b PROVE Value(i - r)' = Value(i)
  <2>1. (i - r) - 1 \in 0..(b - r) /\ r + ((i - r) - 1) = i - 1
    BY <1>1, <1>2, SMTT(60)
  <2>2. g[(i - r) - 1] = Flight[i - 1]
    BY <1>9, <2>1 DEF Follows
  <2>3. MemoryBefore(i - r)' = g[(i - r) - 1] /\ MemoryBefore(i) = Flight[i - 1]
    BY DEF MemoryBefore, g, Flight
  <2>4. op(i - r)' = op(i)
    BY <1>1 DEF op
  <2> QED
    BY <2>2, <2>3, <2>4 DEF Value
<1> QED
  BY <1>10

LEMMA MirrorIs ==
  ASSUME Least, Types, NEW r, NEW b, NEW fired, Carried(r, b, fired), arch' = Flight[r]
  PROVE  /\ \A i \in (r + 1)..b : Mirrors(i, i - r, fired)
         /\ \A j \in 1..(b - r) : Mirrors(r + j, j, fired) /\ r + j \in (r + 1)..b
         /\ robHead' \in Tags
<1>1. /\ r \in 0..Len(rob) /\ b \in r..Len(rob) /\ rob' \in Seq(RobType) /\ b - r <= Len(rob')
      /\ robHead' = (robHead + r) % RobDepth
  BY DEF Carried
<1>2. Len(rob) \in Nat /\ Len(rob') \in Nat
  BY <1>1, FlightIs, RobFields
<1>3. ASSUME NEW i \in (r + 1)..b PROVE Mirrors(i, i - r, fired)
  <2>1. i \in (r + 1)..Len(rob) /\ i \in 1..Len(rob) /\ i - r \in 1..Len(rob')
    BY <1>1, <1>2, SMTT(60)
  <2>2. TagAt(i - r)' = TagAt(i)
    BY <1>1, <2>1, TagMoves
  <2>3. Value(i - r)' = Value(i)
    BY ValueMoves
  <2>4. /\ rob'[i - r].op = rob[i].op /\ rob'[i - r].result = NewResult(i)
        /\ IsMemory(i) => rob'[i - r].state = NewState(i, fired, {})
        /\ ~IsMemory(i) => rob'[i - r].state # "exception"
    BY DEF Carried
  <2> QED
    BY <2>1, <2>2, <2>3, <2>4 DEF Mirrors
<1>4. ASSUME NEW j \in 1..(b - r) PROVE Mirrors(r + j, j, fired) /\ r + j \in (r + 1)..b
  <2>1. r + j \in (r + 1)..b /\ (r + j) - r = j
    BY <1>1, <1>2, SMTT(60)
  <2>2. Mirrors(r + j, (r + j) - r, fired)
    BY <1>3, <2>1
  <2> QED
    BY <2>1, <2>2
<1> QED
  BY <1>1, <1>3, <1>4, TagMoves

\* What is known of an operation before the clock is true of it after.
LEMMA MirrorSame ==
  ASSUME NEW i, NEW j, NEW fired, Mirrors(i, j, fired)
  PROVE  /\ IsMemory(j)' <=> IsMemory(i)
         /\ IsLoad(j)' <=> IsLoad(i)
         /\ misaligned(j)' <=> misaligned(i)
         /\ \A x : Right(j, x)' <=> Right(i, x)
<1>1. op(j)' = op(i) /\ Value(j)' = Value(i)
  BY DEF Mirrors, op
<1>2. IsMemory(j)' <=> IsMemory(i)
  BY <1>1 DEF IsMemory
<1>3. IsLoad(j)' <=> IsLoad(i)
  BY <1>1, <1>2 DEF IsLoad
<1>4. misaligned(j)' <=> misaligned(i)
  BY <1>1 DEF misaligned
<1>5. ASSUME NEW x PROVE Right(j, x)' <=> Right(i, x)
  <2>1. Right(j, x)' <=> (x # None => IsLoad(j)' /\ ~misaligned(j)' /\ x = <<Value(j)'>>)
    BY DEF Right, None
  <2> QED
    BY <1>1, <1>3, <1>4, <2>1 DEF Right
<1> QED
  BY <1>2, <1>3, <1>4, <1>5

--------------------------------------------------------------------------------
(* The empty queues.                                                          *)

LEMMA NoPlaces == Len(<<>>) = 0 /\ (\A i \in 1..Len(<<>>) : FALSE) /\ (\A k \in 0..(0 - 1) : FALSE)
  BY SMTT(60)

LEMMA EmptyLinked == Linked(<<>>, 0, EmptyLsq)
<1> DEFINE q == EmptyLsq
           f == [s \in LsqSlots |-> EmptySlot]
<1>1. LsqDepth \in Nat \ {0} /\ LsqSlots = 0..(LsqDepth - 1)
  BY LsqDepthAssumption DEF LsqSlots
<1>2. 0 \in LsqSlots /\ 0 \in 0..LsqDepth
  BY <1>1, SMTT(60)
<1>3. f \in [LsqSlots -> SlotType]
  BY EmptySlotIs
<1>4. q = [entries |-> f, headPtr |-> 0, tailPtr |-> 0, entryCount |-> 0]
  BY DEF EmptyLsq
<1>5. \A x \in LsqSlots : f[x] = EmptySlot
  OBVIOUS
<1> HIDE DEF f
<1>6. q.entries = f /\ q.headPtr = 0 /\ q.tailPtr = 0 /\ q.entryCount = 0
  BY <1>4, SMTT(60)
<1>7. q \in LsqType
  BY <1>2, <1>3, <1>4 DEF LsqType
<1> HIDE DEF q
<1>8. (0 + 0) % LsqDepth = 0
  <2>1. 0 + 0 = 0 /\ 0 \in Nat /\ 0 < LsqDepth /\ 0 < 2 * LsqDepth
    BY <1>1, SMTT(60)
  <2> QED
    BY <1>1, <2>1, ModIs, SMTT(60)
<1>9. q.tailPtr = lsqAddPtr(q.headPtr, q.entryCount)
  BY <1>6, <1>8 DEF lsqAddPtr
<1>10. ~EmptySlot.valid
  BY SMTT(60) DEF EmptySlot
<1>11. Clean(q)
  BY <1>5, <1>6, <1>10 DEF Clean
<1>12. Slotted(<<>>, 0, q) /\ Ordered(<<>>, q)
  BY NoPlaces DEF Slotted, Ordered
<1>13. Onto(<<>>, q)
  BY <1>6, NoPlaces DEF Onto
<1>14. Linked(<<>>, 0, q)
  BY <1>7, <1>9, <1>11, <1>12, <1>13 DEF Linked
<1> QED
  BY <1>14 DEF q

--------------------------------------------------------------------------------
(* MMIO.                                                                       *)

\* What issues in this clock.
FiredOK(fired, killed, resp) ==
    /\ fired \subseteq Waiting /\ (\A i, j \in fired : i = j)
    /\ \A i \in fired :
          /\ combinedLsqIssueReady(i) /\ TagAt(i) \notin killed
          /\ normalCacheLoad(i) => tagFree(TagAt(i))
          /\ ~normalCacheLoad(i) => ~responseCompletes(resp, killed)

MmioStores == \A a \in Addresses : a.mmio /\ golden'[a] # golden[a] => golden = arch
MmioLoads ==
    \A i \in 1..Len(rob) :
        IsLoad(i) /\ op(i).addr.mmio /\ pending[TagAt(i)] = None /\ pending'[TagAt(i)] # None
        => golden = arch /\ \A j \in 1..(i - 1) : ~IsMemory(j)

\* An empty buffer leaves nothing between memory and the program.
LEMMA DrainedMemory ==
  ASSUME Least, IInv, queue = <<>>
  PROVE  golden = arch
<1>1. RetiredStoresConserved
  BY DEF IInv
<1>2. arch = With(golden, queue)
  BY <1>1, ConservedIs
<1>3. With(golden, <<>>) = golden
  BY WithNothing
<1> QED
  BY <1>2, <1>3

\* The Stores of the buffer do not touch MMIO.
LEMMA StoreSpares ==
  ASSUME NEW w \in [Addresses -> Words], NEW s \in StoreType, NEW a \in Addresses, a.mmio
  PROVE  StoreStep(w, storeRequest(s))[a] = w[a]
<1>1. s.addr \in Addresses /\ ~s.addr.mmio
  BY DEF StoreType
<1>2. a # s.addr
  BY <1>1
<1>3. storeRequest(s).addr = s.addr /\ storeRequest(s).write
  BY SMTT(60) DEF storeRequest
<1>4. PICK o : o = storeRequest(s)
  OBVIOUS
<1>5. PICK word : StoreStep(w, o) = [w EXCEPT ![o.addr] = word]
  BY <1>3, <1>4, SameLanes DEF StoreStep, Memory!Written
<1> QED
  BY <1>2, <1>3, <1>4, <1>5

LEMMA PortSpares ==
  ASSUME Least, IInv, NEW cand, NEW lanes, NEW lv, NEW ready, NEW resp, NEW k,
         PortTakes(cand, lanes, lv, ready, resp, k)
  PROVE  MmioStores
<1> SUFFICES ASSUME NEW a \in Addresses, a.mmio, golden'[a] # golden[a] PROVE golden = arch
  BY DEF MmioStores
<1>1. CASE mmioStoreRequest(lanes) /\ ready
  BY <1>1, DrainedMemory DEF mmioStoreRequest
<1>2. CASE ~(mmioStoreRequest(lanes) /\ ready) /\ drainFire(lanes, lv, ready)
  <2>1. golden \in [Addresses -> Words] /\ queue \in Seq(StoreType)
    BY DEF IInv, Types
  <2>2. queue # <<>>
    BY <1>2 DEF drainFire, selectStoreBufferDrain
  <2>3. Head(queue) \in StoreType
    BY <2>1, <2>2, SMTT(60)
  <2>4. golden' = StoreStep(golden, storeRequest(Head(queue)))
    BY <1>2 DEF PortTakes
  <2>5. golden'[a] = golden[a]
    BY <2>1, <2>3, <2>4, StoreSpares
  <2> QED
    BY <2>5
<1>3. CASE ~(mmioStoreRequest(lanes) /\ ready) /\ ~drainFire(lanes, lv, ready)
  BY <1>3 DEF PortTakes
<1> QED
  BY <1>1, <1>2, <1>3

LEMMA LoadsWait ==
  ASSUME Least, IInv, NEW fired, NEW resp, NEW killed, FiredOK(fired, killed, resp),
         PendingLoads(fired, resp, killed)
  PROVE  MmioLoads
<1> SUFFICES ASSUME NEW i \in 1..Len(rob), IsLoad(i), op(i).addr.mmio, pending[TagAt(i)] = None,
                    pending'[TagAt(i)] # None
             PROVE  golden = arch /\ \A j \in 1..(i - 1) : ~IsMemory(j)
  BY DEF MmioLoads
<1>1. Types /\ Linked(rob, robHead, lsq)
  BY DEF IInv
<1>2. TagAt(i) \in Tags
  BY <1>1, TagIs
<1>3. PICK k \in fired : TagAt(k) = TagAt(i) /\ normalCacheLoad(k)
  BY <1>2 DEF PendingLoads, None
<1>4. k \in 1..Len(rob) /\ combinedLsqIssueReady(k)
  BY DEF FiredOK, Waiting
<1>5. k = i
  BY <1>1, <1>3, <1>4, TagIs
<1>6. mmioLoadReady(i)
  BY <1>4, <1>5 DEF combinedLsqIssueReady
<1>7. queue = <<>> /\ headTag(lsq, 0) = rob[i].lsqTag
  BY <1>6 DEF mmioLoadReady
<1>8. golden = arch
  BY <1>7, DrainedMemory
<1>9. lsq \in LsqType /\ Ordered(rob, lsq) /\ rob \in Seq(RobType)
  BY <1>1 DEF Linked, Types
<1>10. Dist(lsq, rob[i].lsqTag) = 0
  <2>1. LsqDepth \in Nat \ {0}
    BY LsqDepthAssumption, SMTT(60)
  <2>2. 0 \in 0..(LsqDepth - 1)
    BY <2>1, SMTT(60)
  <2> QED
    BY <1>7, <1>9, <2>2, DistIs
<1>11. ASSUME NEW j \in 1..(i - 1), IsMemory(j) PROVE FALSE
  <2>1. Len(rob) \in Nat
    BY <1>9, RobFields
  <2>2. j \in 1..Len(rob) /\ j < i
    BY <2>1, SMTT(60)
  <2>3. Dist(lsq, rob[j].lsqTag) < Dist(lsq, rob[i].lsqTag)
    BY <1>9, <1>11, <2>2 DEF Ordered, IsLoad, IsMemory, isMem, op
  <2>4. Dist(lsq, rob[j].lsqTag) \in Nat
    BY <1>9, <2>2, RobFields, DistIs
  <2> QED
    BY <1>10, <2>3, <2>4, SMTT(60)
<1> QED
  BY <1>8, <1>11

--------------------------------------------------------------------------------
(* What the invariant says.                                                    *)

LEMMA LoadsAreRight == IInv => LoadsSeeProgramOrder
  BY DEF IInv, ResultsOK, Right, Value, LoadsSeeProgramOrder

LEMMA DataIsThere ==
  ASSUME IInv
  PROVE  StoreDataArrives
<1> SUFFICES ASSUME NEW i \in 1..Len(rob), IsStore(i), ~misaligned(i), rob[i].state # "iq",
                    rob[i].produced \/ op(i).x0
             PROVE  lsq.entries[rob[i].lsqTag].data = <<op(i).data>>
  BY DEF StoreDataArrives
<1>1. Types /\ Linked(rob, robHead, lsq)
  BY DEF IInv
<1>2. Holds(lsq.entries[rob[i].lsqTag], rob[i], (robHead + (i - 1)) % RobDepth)
  BY <1>1, PlaceIs DEF IsStore
<1> QED
  BY <1>2 DEF Holds, Misaligned, misaligned, IsStore, op

\* Tags and places correspond.
LEMMA PlacesAre ==
  ASSUME Types
  PROVE  /\ \A t \in Tags : Live(t) => PlaceOf(t) \in 1..Len(rob) /\ TagAt(PlaceOf(t)) = t
         /\ \A i \in 1..Len(rob) : PlaceOf(TagAt(i)) = i /\ Live(TagAt(i))
<1>1. rob \in Seq(RobType) /\ Len(rob) <= RobDepth /\ robHead \in Tags
  BY DEF Types
<1>2. Len(rob) \in Nat /\ RobDepth \in Nat \ {0} /\ Tags = 0..(RobDepth - 1)
  BY <1>1, RobFields, RobDepthAssumption DEF Tags
<1>3. Ring(RobDepth, robHead)
  BY <1>1, <1>2, RingIs
<1>4. \A t \in Tags : PlaceOf(t) = 1 + Off(RobDepth, robHead, t)
  BY DEF PlaceOf, Off
<1>5. \A i \in 1..Len(rob) : TagAt(i) = At(RobDepth, robHead, i - 1) /\ TagAt(i) \in Tags
  BY TagIs DEF At
<1>6. ASSUME NEW t \in Tags, Live(t) PROVE PlaceOf(t) \in 1..Len(rob) /\ TagAt(PlaceOf(t)) = t
  <2> DEFINE d == Off(RobDepth, robHead, t)
  <2>1. d \in 0..(RobDepth - 1) /\ At(RobDepth, robHead, d) = t
    BY <1>2, <1>3 DEF Ring
  <2>2. PlaceOf(t) = 1 + d /\ PlaceOf(t) <= Len(rob)
    BY <1>4, <1>6 DEF Live
  <2> HIDE DEF d
  <2>3. 1 + d \in 1..Len(rob) /\ (1 + d) - 1 = d
    BY <1>2, <2>1, <2>2, SMTT(60)
  <2> QED
    BY <1>5, <2>1, <2>2, <2>3
<1>7. ASSUME NEW i \in 1..Len(rob) PROVE PlaceOf(TagAt(i)) = i /\ Live(TagAt(i))
  <2>1. i - 1 \in 0..(RobDepth - 1) /\ 1 + (i - 1) = i /\ i <= Len(rob)
    BY <1>1, <1>2, SMTT(60)
  <2>2. Off(RobDepth, robHead, TagAt(i)) = i - 1
    BY <1>3, <1>5, <2>1 DEF Ring
  <2> QED
    BY <1>4, <1>5, <2>1, <2>2 DEF Live
<1> QED
  BY <1>6, <1>7

LEMMA OwnersAre ==
  ASSUME IInv
  PROVE  ResultsFindTheirOwner
<1> DEFINE loads(t) == pending[t] = <<[killed |-> FALSE]>>
           local(t) == completion # None /\ completion[1].tag = t
           awaits(t) == Live(t) /\ IsMemory(PlaceOf(t)) /\ rob[PlaceOf(t)].state = "issued"
<1>1. Types /\ ResultsOK
  BY DEF IInv
<1>2. ASSUME NEW t \in Tags PROVE loads(t) \/ local(t) => awaits(t)
  <2>1. ASSUME NEW i \in 1..Len(rob), TagAt(i) = t, Awaits(i) PROVE awaits(t)
    BY <1>1, <2>1, PlacesAre DEF Awaits
  <2>2. loads(t) => \E i \in 1..Len(rob) : TagAt(i) = t /\ Awaits(i)
    BY <1>1 DEF ResultsOK, Unkilled
  <2>3. local(t) => \E i \in 1..Len(rob) : TagAt(i) = t /\ Awaits(i)
    BY <1>1 DEF ResultsOK, Completes
  <2> QED
    BY <2>1, <2>2, <2>3
<1>3. ASSUME NEW t \in Tags, awaits(t) PROVE loads(t) \/ local(t)
  <2>1. PICK i \in 1..Len(rob) : TagAt(i) = t /\ Awaits(i)
    BY <1>1, <1>3, PlacesAre DEF Awaits
  <2> QED
    BY <1>1, <2>1 DEF ResultsOK, Unkilled
<1>4. ASSUME NEW t \in Tags PROVE ~(loads(t) /\ local(t))
  BY <1>1 DEF ResultsOK, Completes, Unkilled
<1>5. ASSUME NEW t \in Tags
      PROVE  (IF loads(t) THEN 1 ELSE 0) + (IF local(t) THEN 1 ELSE 0) = IF awaits(t) THEN 1 ELSE 0
  <2> HIDE DEF loads, local, awaits
  <2> QED
    BY <1>2, <1>3, <1>4, SMTT(60)
<1> QED
  BY <1>5 DEF ResultsFindTheirOwner

LEMMA TypesAre ==
  ASSUME IInv
  PROVE  TypeOK
<1>1. Types /\ lsq \in LsqType
  BY DEF IInv, Linked
<1>2. rob \in Seq(RobType)
  BY <1>1 DEF Types
<1>3. \A i \in 1..Len(rob) : rob[i].state \in {"iq", "issued", "complete", "exception"} /\ rob[i].lsqTag \in LsqSlots
  BY <1>2, RobFields
<1>4. lsq.headPtr \in LsqSlots /\ lsq.tailPtr \in LsqSlots /\ lsq.entryCount \in 0..LsqDepth
  BY <1>1 DEF LsqType
<1>5. \A t \in Tags : pending[t] \in {None} \cup {<<[killed |-> k]>> : k \in BOOLEAN}
  BY <1>1 DEF Types, Unkilled, Killed
<1> QED
  BY <1>1, <1>3, <1>4, <1>5 DEF Types, TypeOK

\* As many operations are before place i as slots before its own.
LEMMA MemoryBeforeIs ==
  ASSUME Least, Counting, Types, Linked(rob, robHead, lsq), NEW i \in 1..Len(rob), IsMemory(i)
  PROVE  MemoryUpTo(i - 1) = Dist(lsq, rob[i].lsqTag)
<1> DEFINE b == i - 1
           x == rob[i].lsqTag
           d == Dist(lsq, x)
           c == lsq.entryCount
<1>1. rob \in Seq(RobType) /\ lsq \in LsqType /\ Ordered(rob, lsq) /\ Onto(rob, lsq)
  BY DEF Types, Linked
<1>2. Len(rob) \in Nat
  BY <1>1, RobFields
<1>3. b \in 0..Len(rob) /\ b \in Nat /\ \A j \in 1..Len(rob) : j \in 1..b <=> j < i
  BY <1>2, SMTT(60)
<1>4. \A j \in 1..b : j \in 1..Len(rob)
  BY <1>2, SMTT(60)
<1> HIDE DEF b
<1>5. PICK m \in 0..c : FirstSlots(rob, lsq, b, m)
  BY <1>1, <1>3, KeptPrefix
<1>6. MemoryUpTo(b) = m
  BY <1>5 DEF FirstSlots, MemoryUpTo, IsMemory, isMem, op
<1>7. x \in LsqSlots /\ d < c /\ d \in Nat
  BY <1>1, PlaceIs, DistIs
<1>8. c \in Nat /\ c <= LsqDepth /\ LsqDepth \in Nat \ {0}
  BY <1>1, LsqFields
<1>9. ~(d < m)
  <2>1. ASSUME KeptAt(rob, b, x) PROVE FALSE
    <3>1. PICK j \in 1..b : isMem(rob[j].op) /\ rob[j].lsqTag = x
      BY <2>1 DEF KeptAt
    <3>2. j \in 1..Len(rob) /\ j < i
      BY <1>3, <1>4
    <3>3. j = i
      BY <1>1, <3>1, <3>2, SlotsDiffer DEF IsMemory, isMem, op
    <3> QED
      BY <1>2, <3>2, <3>3, SMTT(60)
  <2> QED
    BY <1>5, <1>7, <2>1 DEF FirstSlots
<1>10. ~(m < d)
  <2> SUFFICES ASSUME m < d PROVE FALSE
    OBVIOUS
  <2> HIDE DEF d, c
  <2>1. m \in Nat /\ m \in 0..(c - 1) /\ m \in 0..(LsqDepth - 1)
    BY <1>5, <1>7, <1>8, SMTT(60)
  <2>2. PICK j \in 1..Len(rob) : isMem(rob[j].op) /\ Dist(lsq, rob[j].lsqTag) = m
    BY <1>1, <2>1 DEF Onto, c
  <2>3. ~(i < j)
    <3>1. ~(d < m)
      BY <1>9
    <3> QED
      BY <1>1, <2>2, <3>1 DEF Ordered, IsMemory, isMem, op, d
  <2>4. j # i
    <3>1. d # m
      BY <1>7, <2>1, SMTT(60)
    <3> QED
      BY <2>2, <3>1 DEF d
  <2>5. j \in 1..b
    BY <1>2, <1>3, <2>3, <2>4, SMTT(60)
  <2>6. KeptAt(rob, b, rob[j].lsqTag) /\ rob[j].lsqTag \in LsqSlots
    BY <1>1, <2>2, <2>5, RobFields DEF KeptAt
  <2>7. m < m
    BY <1>5, <2>2, <2>6 DEF FirstSlots
  <2> QED
    BY <2>1, <2>7, SMTT(60)
<1>11. m = d
  <2> HIDE DEF d, c
  <2> QED
    BY <1>5, <1>7, <1>8, <1>9, <1>10, SMTT(60)
<1> QED
  BY <1>6, <1>11 DEF b

LEMMA CountIs ==
  ASSUME Least, Counting, Types, Linked(rob, robHead, lsq)
  PROVE  lsq.entryCount = MemoryUpTo(Len(rob))
<1> DEFINE c == lsq.entryCount
<1>1. rob \in Seq(RobType) /\ lsq \in LsqType /\ Onto(rob, lsq)
  BY DEF Types, Linked
<1>2. Len(rob) \in Nat /\ Len(rob) \in 0..Len(rob)
  BY <1>1, RobFields, SMTT(60)
<1>3. PICK m \in 0..c : FirstSlots(rob, lsq, Len(rob), m)
  BY <1>1, <1>2, KeptPrefix
<1>4. MemoryUpTo(Len(rob)) = m
  BY <1>3 DEF FirstSlots, MemoryUpTo, IsMemory, isMem, op
<1>5. c \in Nat
  BY <1>1, LsqFields
<1> HIDE DEF c
<1>6. ~(m < c)
  <2> SUFFICES ASSUME m < c PROVE FALSE
    OBVIOUS
  <2>1. m \in Nat /\ m \in 0..(c - 1)
    BY <1>3, <1>5, SMTT(60)
  <2>2. PICK j \in 1..Len(rob) : isMem(rob[j].op) /\ Dist(lsq, rob[j].lsqTag) = m
    BY <1>1, <2>1 DEF Onto, c
  <2>3. KeptAt(rob, Len(rob), rob[j].lsqTag) /\ rob[j].lsqTag \in LsqSlots
    BY <1>1, <2>2, RobFields DEF KeptAt
  <2>4. m < m
    BY <1>3, <2>2, <2>3 DEF FirstSlots
  <2> QED
    BY <2>1, <2>4, SMTT(60)
<1>7. m = c
  BY <1>3, <1>5, <1>6, SMTT(60)
<1> QED
  BY <1>4, <1>7 DEF c

LEMMA RingsMatch ==
  ASSUME Least, Counting, IInv
  PROVE  LsqMatchesRob
<1>1. Types /\ Linked(rob, robHead, lsq)
  BY DEF IInv
<1>2. lsq.entryCount = MemoryUpTo(Len(rob))
  BY <1>1, CountIs
<1>3. lsq \in LsqType /\ lsq.tailPtr = lsqAddPtr(lsq.headPtr, lsq.entryCount)
  BY <1>1 DEF Linked
<1>4. ASSUME NEW i \in 1..Len(rob), IsMemory(i)
      PROVE  /\ headTag(lsq, MemoryUpTo(i - 1)) = rob[i].lsqTag
             /\ headEntry(lsq, MemoryUpTo(i - 1)).valid
             /\ headEntry(lsq, MemoryUpTo(i - 1)).robTag = TagAt(i)
             /\ headEntry(lsq, MemoryUpTo(i - 1)).isStore = IsStore(i)
  <2> DEFINE x == rob[i].lsqTag
             n == MemoryUpTo(i - 1)
  <2>1. n = Dist(lsq, x)
    BY <1>1, <1>4, MemoryBeforeIs
  <2>2. /\ op(i) \in MemoryOps /\ x \in LsqSlots /\ Dist(lsq, x) < lsq.entryCount
        /\ Holds(lsq.entries[x], rob[i], (robHead + (i - 1)) % RobDepth)
    BY <1>1, <1>4, PlaceIs
  <2>3. headTag(lsq, n) = x /\ n \in Nat
    BY <1>3, <2>1, <2>2, DistIs
  <2>4. lsq.entryCount \in Nat
    BY <1>3, LsqFields
  <2> HIDE DEF n
  <2>5. lsq.entryCount > n
    BY <2>1, <2>2, <2>3, <2>4, SMTT(60)
  <2>6. headEntry(lsq, n) = lsq.entries[x]
    BY <2>3, <2>5 DEF headEntry
  <2>7. TagAt(i) = (robHead + (i - 1)) % RobDepth
    BY <1>1, TagIs
  <2>8. lsq.entries[x].valid /\ lsq.entries[x].robTag = TagAt(i) /\ lsq.entries[x].isStore = op(i).write
    BY <2>2, <2>7 DEF Holds, op
  <2>9. op(i).write = IsStore(i)
    <3>1. op(i).write \in BOOLEAN
      BY <2>2, OpIs
    <3> QED
      BY <1>4, <3>1 DEF IsStore
  <2>10. lsq.entries[x].isStore = IsStore(i)
    BY <2>8, <2>9
  <2> QED
    BY <2>3, <2>6, <2>8, <2>10 DEF n
<1>5. TypeOK
  BY TypesAre
<1> QED
  BY <1>2, <1>3, <1>4, <1>5 DEF LsqMatchesRob
=============================================================================
