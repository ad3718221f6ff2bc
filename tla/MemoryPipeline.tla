-------------------------- MODULE MemoryPipeline --------------------------
(* The memory side of the back end: LoadStoreExecutionUnit with the LSQ, the  *)
(* retirement of Loads and Stores by BackendCommitStage, and the arbitration   *)
(* of OoOBackend between Loads, committed Stores and MMIO Stores for the one   *)
(* D-cache port.  The Store Buffer is the queue that StoreBuffer implements    *)
(* and the D-cache is the memory that DataCache implements.                    *)
(*                                                                             *)
(* The ROB is the sequence of in-flight operations with the tag of its head;   *)
(* its other instructions appear as branches.  Which operation the issue queue *)
(* offers, when Store data is produced and when branches resolve are inputs.   *)
(* One action is one rising clock edge.                                        *)
EXTENDS LoadStoreQueue

CONSTANTS RobDepth,      \* ROB_ENTRY_NUM
          SbDepth,       \* STORE_BUFFER_ENTRY_NUM
          Addresses,     \* words in use, of RAM or tohost: what is stored can be read back
          Workloads      \* sets of what the two decoders may present in one clock

ASSUME RobDepthAssumption == RobDepth \in Nat \ {0} /\ SbDepth \in Nat \ {0}

Tags == 0..(RobDepth - 1)

VARIABLES rob, robHead,    \* in-flight operations, oldest first; tag of the first
          lsq,             \* the LSQ
          pending,         \* LSU: accepted cache Loads by ROB tag, or none
          completion,      \* LSU: the completion register
          queue,           \* Store Buffer, oldest first
          golden, owed, response,   \* the D-cache
          arch,            \* observer: memory after every retired Store
          workload         \* the groups of this behaviour

vars == <<rob, robHead, lsq, pending, completion, queue, golden, owed, response, arch, workload>>

Memory == INSTANCE LinearMemory WITH
    Requests <- {}, Ids <- Tags, FromHosts <- {}, uartOwed <- <<>>, uart <- <<>>
None == <<>>

\* A Load or Store, with the word it will compute as its address.  A Store has no
\* unsigned modes; x0 says that its data register is x0, which reads as zero, and
\* late that the register is still to be written.
MemoryOps ==
    {o \in [kind : {"memory"}, write : BOOLEAN, addr : Addresses, access : MemAccess,
            offset : Lanes, data : Words, x0 : BOOLEAN, late : BOOLEAN] :
        (o.write => o.access \in StoreAccess) /\ (o.x0 => o.data = ZeroWord)}
Ops == MemoryOps \cup [kind : {"branch"}]

ASSUME AddressesAssumption ==
    \A a \in Addresses : a.mmio \in BOOLEAN /\ ~Memory!IsUart(a) /\ ~Memory!IsFromHost(a)

\* Lane 1 never dispatches a branch.
ASSUME GroupsAssumption ==
    \A g \in UNION Workloads :
        g \in Seq(Ops) /\ Len(g) \in {1, 2} /\ (Len(g) = 2 => g[2].kind = "memory")

--------------------------------------------------------------------------------
(* The ROB as seen from the memory side.                                       *)

TagAt(i) == (robHead + i - 1) % RobDepth
PlaceOf(tag) == 1 + ((tag + RobDepth - robHead) % RobDepth)
Live(tag) == PlaceOf(tag) <= Len(rob)
isMem(o) == o.kind = "memory"
op(i) == rob[i].op
IsMemory(i) == op(i).kind = "memory"
IsStore(i) == IsMemory(i) /\ op(i).write
IsLoad(i) == IsMemory(i) /\ ~op(i).write

\* state: "iq" waiting to issue, "issued", "complete", "exception".  produced:
\* the Store's data register has been written.  result: what a Load wrote back.
robEntry(o, lsqTag) ==
    [op |-> o, lsqTag |-> lsqTag, state |-> "iq",
     produced |-> isMem(o) /\ o.write /\ ~o.late, result |-> None]

--------------------------------------------------------------------------------
(* BackendCommitStage.                                                         *)

\* A Load or Store retires from the head of the LSQ, a Store with its data.
laneReady(i, memoryOffset, trainReady) ==
    /\ i <= Len(rob) /\ rob[i].state = "complete"
    /\ IsMemory(i) =>
          /\ headEntry(lsq, memoryOffset).valid
          /\ headTag(lsq, memoryOffset) = rob[i].lsqTag
    /\ IsStore(i) =>
          /\ headEntry(lsq, memoryOffset).address # NotReady
          /\ headEntry(lsq, memoryOffset).data # NotReady
    /\ ~IsMemory(i) => trainReady

\* First pass: the lanes that could retire if every Store were accepted.
candidates(trainReady) ==
    LET lane1 == laneReady(1, 0, trainReady)
        lane2 == /\ lane1
                 /\ laneReady(2, IF IsMemory(1) THEN 1 ELSE 0, trainReady)
                 /\ ~(IsStore(1) /\ IsStore(2)) /\ (IsMemory(1) \/ IsMemory(2))
    IN  {i \in {1, 2} : (i = 1 /\ lane1) \/ (i = 2 /\ lane2)}

\* The Store that retires in this clock if its destination takes it.
commitStore(lanes) == {i \in lanes : IsStore(i)}
commitStoreEntry(lanes) ==
    headEntry(lsq, IF 1 \in commitStore(lanes) \/ ~IsMemory(1) THEN 0 ELSE 1)
commitMmio(lanes) ==
    commitStore(lanes) # {} /\ commitStoreEntry(lanes).address[1].addr.mmio

\* Second pass: a Store that is not accepted holds back itself and what follows.
retireLanes(lanes, storeAccepted) ==
    {i \in lanes : storeAccepted \/ \A j \in commitStore(lanes) : i < j}

--------------------------------------------------------------------------------
(* Issue: the LSQ and Store Buffer ordering checks, and the LSU.               *)

storeBufferQueryConflict(load) ==
    \E k \in 1..Len(queue) :
        /\ queue[k].addr = load.addr
        /\ storeByteMask(queue[k].access, queue[k].offset)
              \cap loadByteMask(load.access, load.offset) # {}

forwards(i) == issueForwardValid(lsq, rob[i].lsqTag, op(i))

\* Fault: an MMIO Load is ordered like any other.
mmioLoadReady_Always(i) == TRUE

\* An MMIO Load waits until it is the oldest memory operation of the machine.
mmioLoadReady(i) == queue = <<>> /\ headEntry(lsq, 0).valid /\ headTag(lsq, 0) = rob[i].lsqTag

combinedLsqIssueReady(i) ==
    /\ issueReady(lsq, rob[i].lsqTag, op(i))
    /\ IsLoad(i) => /\ forwards(i) \/ ~storeBufferQueryConflict(op(i))
                    /\ op(i).addr.mmio => mmioLoadReady(i)

misaligned(i) == ~Aligned(op(i).access, op(i).offset)
normalCacheLoad(i) == IsLoad(i) /\ ~forwards(i) /\ ~misaligned(i)

\* killed holds the tags that this clock's recovery or flush kills.
baseIssueReady(i, killed) == combinedLsqIssueReady(i) /\ TagAt(i) \notin killed

tagFree(tag) == pending[tag] = None

\* cand holds the place of the operation on offer, or nothing.
loadReadValid(cand, killed) ==
    \E i \in cand : baseIssueReady(i, killed) /\ normalCacheLoad(i) /\ tagFree(TagAt(i))

\* Fault: recovery does not kill the Load whose answer arrives with it.
responseKilled_Late(resp, killed) == pending[resp[1]][1].killed

\* resp is the tag and data of memoryResponse, or None.
responseKilled(resp, killed) == pending[resp[1]][1].killed \/ resp[1] \in killed
responseCompletes(resp, killed) == resp # None /\ ~responseKilled(resp, killed)

--------------------------------------------------------------------------------
(* The D-cache port.                                                           *)

forceStoreBufferDrain == Len(queue) = SbDepth

mmioStoreRequest(lanes) == commitMmio(lanes) /\ queue = <<>>

loadCacheRequestReady(lanes, ready) == ready /\ ~commitMmio(lanes) /\ ~forceStoreBufferDrain

\* Fault: the port is kept free for an MMIO Store that waits to retire.
selectStoreBufferDrain_Reserved(lanes, loadValid) ==
    queue # <<>> /\ ~commitMmio(lanes) /\ (forceStoreBufferDrain \/ ~loadValid)

selectStoreBufferDrain(lanes, loadValid) ==
    /\ queue # <<>> /\ ~mmioStoreRequest(lanes)
    /\ commitMmio(lanes) \/ forceStoreBufferDrain \/ ~loadValid

selectLoadRequest(lanes, loadValid) ==
    loadValid /\ ~mmioStoreRequest(lanes) /\ ~commitMmio(lanes) /\ ~forceStoreBufferDrain

\* Without a request, memoryRequestReady_i has no effect.
memoryValid(lanes, loadValid) ==
    \/ mmioStoreRequest(lanes) \/ selectStoreBufferDrain(lanes, loadValid)
    \/ selectLoadRequest(lanes, loadValid)

storeOf(e) == [addr |-> e.address[1].addr, offset |-> e.address[1].offset,
               access |-> e.access, data |-> e.data[1]]
storeRequest(s) == [write |-> TRUE, id |-> 0, addr |-> s.addr, offset |-> s.offset,
                    access |-> s.access, data |-> s.data]
loadRequest(i) == [write |-> FALSE, id |-> TagAt(i), addr |-> op(i).addr,
                   offset |-> op(i).offset, access |-> op(i).access,
                   data |-> ZeroWord]

--------------------------------------------------------------------------------
(* The clocked state of the LSU, the Store Buffer and the D-cache.  lanes are  *)
(* the retirement candidates and ready is memoryRequestReady_i.                *)

issueFire(cand, killed, lanes, resp, ready) ==
    {i \in cand : /\ baseIssueReady(i, killed)
                  /\ IF normalCacheLoad(i)
                     THEN tagFree(TagAt(i)) /\ loadCacheRequestReady(lanes, ready)
                     ELSE ~responseCompletes(resp, killed)}

\* Responses return in any order; only one with a pending entry is taken.
Responses ==
    {None} \cup UNION {{<<o.id, v>> : v \in o.values} :
                        o \in {w \in owed : pending[w.id] # None}}

\* Accepted cache Loads cannot be withdrawn: recovery marks them instead.
PendingLoads(fired, resp, killed) ==
    pending' = [t \in Tags |->
        IF \E i \in fired : TagAt(i) = t /\ normalCacheLoad(i) THEN <<[killed |-> FALSE]>>
        ELSE IF resp # None /\ resp[1] = t THEN None
        ELSE IF pending[t] # None /\ t \in killed THEN <<[killed |-> TRUE]>>
        ELSE pending[t]]

\* Stores, forwarded Loads and misaligned accesses complete in one clock.
localResult(i) ==
    IF forwards(i) /\ ~misaligned(i)
    THEN <<issueForwardData(lsq, rob[i].lsqTag, op(i))>> ELSE None
CompletionRegister(fired, resp, killed) ==
    completion' =
        IF responseCompletes(resp, killed)
        THEN <<[tag |-> resp[1], exception |-> FALSE, result |-> <<resp[2]>>]>>
        ELSE IF \E i \in fired : ~normalCacheLoad(i)
        THEN LET i == CHOOSE j \in fired : TRUE
             IN  <<[tag |-> TagAt(i), exception |-> misaligned(i), result |-> localResult(i)]>>
        ELSE None

drainFire(lanes, loadValid, ready) == selectStoreBufferDrain(lanes, loadValid) /\ ready

\* Fault: the Store leaves the buffer without waiting for the port.
MemoryPort_DropsStore(cand, lanes, loadValid, ready) == Memory!AcceptNothing

MemoryPort(cand, lanes, loadValid, ready) ==
    IF mmioStoreRequest(lanes) /\ ready
    THEN Memory!Accept(storeRequest(storeOf(commitStoreEntry(lanes))))
    ELSE IF drainFire(lanes, loadValid, ready)
    THEN Memory!Accept(storeRequest(Head(queue)))
    ELSE IF selectLoadRequest(lanes, loadValid) /\ ready
    THEN \E i \in cand : Memory!Accept(loadRequest(i))
    ELSE Memory!AcceptNothing

\* storeReady_i or mmioStoreReady_i of BackendCommitStage.
storeAccepted(lanes, drains, ready) ==
    IF commitMmio(lanes) THEN queue = <<>> /\ ready ELSE Len(queue) < SbDepth \/ drains

\* What the commit stage puts into the Store Buffer.
enqueued(lanes, drains, ready) ==
    IF commitStore(lanes) # {} /\ ~commitMmio(lanes) /\ storeAccepted(lanes, drains, ready)
    THEN <<storeOf(commitStoreEntry(lanes))>> ELSE <<>>

Buffer(lanes, drains, ready) ==
    queue' = (IF drains THEN Tail(queue) ELSE queue) \o enqueued(lanes, drains, ready)

Retired(lanes, drains, ready) ==
    arch' = IF commitStore(lanes) # {} /\ storeAccepted(lanes, drains, ready)
            THEN Memory!Written(arch, storeRequest(storeOf(commitStoreEntry(lanes))))
            ELSE arch

\* One clock of everything below the ROB and the LSQ.
MemorySide(cand, killed, lanes, loadValid, fired, resp, ready) ==
    \E drains \in {drainFire(lanes, loadValid, ready)} :
        /\ response' = resp
        /\ PendingLoads(fired, resp, killed)
        /\ CompletionRegister(fired, resp, killed)
        /\ MemoryPort(cand, lanes, loadValid, ready)
        /\ Buffer(lanes, drains, ready)
        /\ Retired(lanes, drains, ready)

--------------------------------------------------------------------------------
(* The ROB and the LSQ.                                                        *)

\* The completion register names this entry.  The filter of BackendExecuteStage
\* on tags killed in the previous clock is for the integer units: an operation
\* killed by recovery never enters this register (ResultsFindTheirOwner).
completes(i) == completion # None /\ completion[1].tag = TagAt(i)

\* wake holds the Stores whose data register is written in this clock, resolved
\* the branch that issues; its own result returns in the next clock.
UpdatedRob(fired, wake, resolved) ==
    [i \in 1..Len(rob) |->
        [rob[i] EXCEPT
            !.produced = @ \/ i \in wake,
            !.state = IF completes(i)
                      THEN IF completion[1].exception THEN "exception" ELSE "complete"
                      ELSE IF i \in fired \cup resolved THEN "issued"
                      ELSE IF @ = "issued" /\ ~IsMemory(i) THEN "complete" ELSE @,
            !.result = IF completes(i) THEN completion[1].result ELSE @]]

\* storeDataValid: the data goes with the address if it can be read by now.
discovered(i, wake) ==
    IF IsStore(i) /\ (rob[i].produced \/ i \in wake \/ op(i).x0)
    THEN <<op(i).data>> ELSE NotReady

UpdatedLsq(fired, wake) ==
    [lsq EXCEPT !.entries = [s \in LsqSlots |->
        LET issued == {i \in fired : rob[i].lsqTag = s /\ ~misaligned(i)}
            woken == {i \in wake : rob[i].lsqTag = s}
            one(set) == CHOOSE i \in set : TRUE
            addressed == IF issued = {} THEN @[s]
                         ELSE UpdateSlot(@[s], <<[addr |-> op(one(issued)).addr,
                                                  offset |-> op(one(issued)).offset]>>,
                                         discovered(one(issued), wake))
        IN  IF woken = {} THEN addressed
            ELSE SnoopSlot(addressed, <<op(one(woken)).data>>)]]

\* DispatchControl: lanes are accepted in order, by the occupancy before the
\* clock.  A full issue queue or an empty free list is a clock without a group.
acceptedLanes(group) ==
    LET lane1 == Len(rob) < RobDepth /\ (isMem(group[1]) => allocReady(lsq, 0))
        lane2 == /\ lane1 /\ Len(group) = 2 /\ Len(rob) + 1 < RobDepth
                 /\ isMem(group[2]) => allocReady(lsq, IF isMem(group[1]) THEN 1 ELSE 0)
    IN  IF group = <<>> \/ ~lane1 THEN <<>> ELSE IF lane2 THEN group ELSE <<group[1]>>

\* The lanes join at the tails, memory operations in both rings.
DispatchLane(s, o) ==
    [rob |-> Append(s.rob, robEntry(o, IF isMem(o) THEN s.lsq.tailPtr ELSE 0)),
     lsq |-> IF isMem(o)
             THEN AllocateSlot(s.lsq, (robHead + Len(s.rob)) % RobDepth, o)
             ELSE s.lsq]

DispatchGroup(s, ops) ==
    CASE Len(ops) = 0 -> s
      [] Len(ops) = 1 -> DispatchLane(s, ops[1])
      [] Len(ops) = 2 -> DispatchLane(DispatchLane(s, ops[1]), ops[2])

RetireLanes(s, lanes) ==
    LET n == Cardinality(lanes)
    IN  [rob |-> SubSeq(s.rob, n + 1, Len(s.rob)),
         lsq |-> RetireSlots(s.lsq, Cardinality({i \in lanes : IsMemory(i)}))]

--------------------------------------------------------------------------------
(* The clock edge.                                                             *)

Init ==
    /\ rob = <<>> /\ robHead = 0 /\ lsq = EmptyLsq
    /\ pending = [t \in Tags |-> None] /\ completion = None
    /\ queue = <<>>
    /\ golden = [a \in Addresses |-> ZeroWord] /\ arch = golden
    /\ Memory!Init
    /\ workload \in Workloads

trapValid == rob # <<>> /\ rob[1].state = "exception"

\* Places of operations that may be offered to the LSU, of Stores whose data is
\* still to be produced, and of branches that may resolve.
Waiting == {i \in 1..Len(rob) : IsMemory(i) /\ rob[i].state = "iq"}
Offered == {i \in Waiting : combinedLsqIssueReady(i)}
Unproduced == {i \in 1..Len(rob) : IsStore(i) /\ ~rob[i].produced /\ ~op(i).x0}
Unresolved == {i \in 1..Len(rob) : ~IsMemory(i) /\ rob[i].state = "iq"}
AtMostOne(set) == {{}} \cup {{i} : i \in set}

Clock(cand, resp, lanes, ready) ==
    \E loadValid \in {loadReadValid(cand, {})}, fired \in {issueFire(cand, {}, lanes, resp, ready)} :
     \E  retired \in {retireLanes(lanes, storeAccepted(lanes, drainFire(lanes, loadValid, ready),
                                                    ready))} :
        /\ ~trapValid
        /\ ready \/ memoryValid(lanes, loadValid)
        /\ MemorySide(cand, {}, lanes, loadValid, fired, resp, ready)
        /\ robHead' = (robHead + Cardinality(retired)) % RobDepth
        /\ \E wake \in SUBSET Unproduced, resolved \in AtMostOne(Unresolved),
              accepted \in {acceptedLanes(g) : g \in workload \cup {<<>>}} :
              \E kept \in {[rob |-> UpdatedRob(fired, wake, resolved),
                           lsq |-> UpdatedLsq(fired, wake)]} :
               \E   after \in {RetireLanes(DispatchGroup(kept, accepted), retired)} :
                rob' = after.rob /\ lsq' = after.lsq

\* A mispredicted branch: nothing retires and everything younger is killed.
Recover(branch, cand, resp, ready) ==
    \E killed \in {{TagAt(i) : i \in (branch + 1)..Len(rob)}} :
    \E loadValid \in {loadReadValid(cand, killed)},
       fired \in {issueFire(cand, killed, {}, resp, ready)} :
        /\ ~trapValid
        /\ ready \/ memoryValid({}, loadValid)
        /\ MemorySide(cand, killed, {}, loadValid, fired, resp, ready)
        /\ UNCHANGED robHead
        /\ \E wake \in SUBSET Unproduced :
              \E updated \in {UpdatedRob(fired, wake, {})} :
                  /\ rob' = SubSeq([updated EXCEPT ![branch].state = "complete"], 1, branch)
                  /\ lsq' = RecoverSlots(UpdatedLsq(fired, wake), killed)

\* An exception at the head flushes the ROB and the LSQ, not the Store Buffer.
Trap(resp, ready) ==
    /\ trapValid
    /\ ready \/ memoryValid({}, FALSE)
    /\ MemorySide({}, Tags, {}, FALSE, {}, resp, ready)
    /\ rob' = <<>> /\ robHead' = 0 /\ lsq' = EmptyLsq

Next ==
    /\ UNCHANGED workload
    /\ \E resp \in Responses, ready \in BOOLEAN :
        \/ Trap(resp, ready)
        \/ \E cand \in AtMostOne(Offered) :
            \/ \E branch \in Unresolved : Recover(branch, cand, resp, ready)
            \/ \E lanes \in {candidates(t) : t \in BOOLEAN} : Clock(cand, resp, lanes, ready)

Spec == Init /\ [][Next]_vars

\* A clock in which the oldest operation that may issue is on offer, as the issue
\* queue selects by age, and the D-cache and the training queue keep up.
oldest(set) == {i \in set : \A j \in set : i <= j}
EagerClock ==
    /\ UNCHANGED workload
    /\ \E resp \in Responses :
        /\ owed # {} => resp # None
        /\ \/ Trap(resp, TRUE)
           \/ \E cand \in {oldest(Offered)}, lanes \in {candidates(TRUE)} : Clock(cand, resp, lanes, TRUE)

FairSpec == Spec /\ WF_vars(EagerClock)

--------------------------------------------------------------------------------
(* Properties.                                                                 *)

\* The rings and the Store Buffer never hold more than their capacity, and every
\* register holds a value of its type.
TypeOK ==
    /\ Len(rob) <= RobDepth /\ robHead \in Tags
    /\ \A i \in 1..Len(rob) :
          /\ rob[i].state \in {"iq", "issued", "complete", "exception"}
          /\ rob[i].lsqTag \in LsqSlots
    /\ lsq.headPtr \in LsqSlots /\ lsq.tailPtr \in LsqSlots /\ lsq.entryCount \in 0..LsqDepth
    /\ \A t \in Tags : pending[t] \in {None} \cup {<<[killed |-> k]>> : k \in BOOLEAN}
    /\ Len(queue) <= SbDepth
    /\ golden \in [Addresses -> Words] /\ arch \in [Addresses -> Words]

\* Memory after the first n of a sequence of operations, one at a time.
Replay(words, ops) ==
    LET after[n \in 0..Len(ops)] ==
            IF n = 0 THEN words
            ELSE IF ops[n].write THEN Memory!Written(after[n - 1], ops[n]) ELSE after[n - 1]
    IN  after

\* Memory as the program has left it before the i-th in-flight operation.
InFlight == [i \in 1..Len(rob) |-> IF IsMemory(i) THEN op(i) ELSE [write |-> FALSE]]
MemoryBefore(i) == Replay(arch, InFlight)[i - 1]

\* Every Load that writes a result back has the value a one-at-a-time execution
\* would give it, whether it came from an uncommitted Store, or from memory
\* around other Stores and Loads, and whatever was mispredicted in between.
LoadsSeeProgramOrder ==
    \A i \in 1..Len(rob) : rob[i].result # None =>
        rob[i].result
          = <<formatLoadData(MemoryBefore(i)[op(i).addr], op(i).access, op(i).offset)>>

\* A retired Store is in the Store Buffer or in memory, once and in order:
\* memory with the buffered Stores applied is memory after every retired Store.
Buffered == [k \in 1..Len(queue) |-> storeRequest(queue[k])]
RetiredStoresConserved == arch = Replay(golden, Buffered)[Len(queue)]

\* The LSQ holds exactly the memory operations of the ROB, in the same order,
\* and the two refer to each other, within the capacity of both.
MemoryUpTo(i) == Cardinality({j \in 1..i : IsMemory(j)})
LsqMatchesRob ==
    /\ TypeOK
    /\ lsq.entryCount = MemoryUpTo(Len(rob))
    /\ lsq.tailPtr = lsqAddPtr(lsq.headPtr, lsq.entryCount)
    /\ \A i \in 1..Len(rob) : IsMemory(i) =>
          /\ headTag(lsq, MemoryUpTo(i - 1)) = rob[i].lsqTag
          /\ headEntry(lsq, MemoryUpTo(i - 1)).valid
          /\ headEntry(lsq, MemoryUpTo(i - 1)).robTag = TagAt(i)
          /\ headEntry(lsq, MemoryUpTo(i - 1)).isStore = IsStore(i)

\* Every issued operation has exactly one result on its way, and no result is
\* on its way to an operation that was killed or to the tag's next owner.
ResultsFindTheirOwner ==
    LET underway(t) == (IF pending[t] = <<[killed |-> FALSE]>> THEN 1 ELSE 0)
                       + (IF completion # None /\ completion[1].tag = t THEN 1 ELSE 0)
        awaits(t) == Live(t) /\ IsMemory(PlaceOf(t)) /\ rob[PlaceOf(t)].state = "issued"
    IN  \A t \in Tags : underway(t) = IF awaits(t) THEN 1 ELSE 0

\* The data of an issued Store is never lost: if its register has been written,
\* with the issue, before it or after it, the LSQ has the value.
StoreDataArrives ==
    \A i \in 1..Len(rob) :
        IsStore(i) /\ ~misaligned(i) /\ rob[i].state # "iq"
          /\ (rob[i].produced \/ op(i).x0)
        => lsq.entries[rob[i].lsqTag].data = <<op(i).data>>

\* MMIO is precise: an MMIO Store takes effect when memory is exactly what the
\* program had stored before it, and an MMIO Load is sent when no older memory
\* operation is in flight and every retired Store is in memory.
MmioInOrder ==
    [][ /\ \A a \in Addresses : a.mmio /\ golden'[a] # golden[a] => golden = arch
        /\ \A i \in 1..Len(rob) :
              IsLoad(i) /\ op(i).addr.mmio /\ pending[TagAt(i)] = None /\ pending'[TagAt(i)] # None
              => golden = arch /\ \A j \in 1..(i - 1) : ~IsMemory(j) ]_vars

\* Retirement never stops: the operation at the head of the ROB leaves it, however
\* full the Store Buffer is, and whatever waits for the buffer to drain.
HeadLeaves ==
    \A h \in Tags : (robHead = h /\ rob # <<>>) ~> (robHead # h \/ rob = <<>>)
=============================================================================
