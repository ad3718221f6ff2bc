----------------------------- MODULE DataCache -----------------------------
(* rtl/memory/dcache/DataCache.sv over rtl/memory/backing/dataMem.sv, as       *)
(* rtl/memory/subsystem/MEMStages.sv connects them: a direct-mapped            *)
(* write-through cache with an elastic lookup stage, one miss register and     *)
(* critical-word-first refill over a backing RAM with a registered read port.  *)
(* One action is one clock edge of both.  Performance counters are left out.   *)
(* golden, owed, uartOwed, response and uart are observations, used only to    *)
(* state what the memory promises.                                             *)
EXTENDS MemAccess, Sequences

CONSTANTS Sets,          \* set indices
          LineTags,      \* address tags in use
          WordsPerLine,
          Requests,      \* what the load/store unit may send
          Ids,           \* ROB tags
          FromHosts      \* fromHost_i

\* A line has at least one word.
ASSUME LineAssumption == WordsPerLine \in Nat \ {0}

WordIdx == 0..(WordsPerLine - 1)

\* The words of the backing RAM in use, and the MMIO registers.
RamAddrs == [mmio : {FALSE}, tag : LineTags, set : Sets, word : WordIdx]
MmioAddr(w) == [mmio |-> TRUE, tag |-> 0, set |-> 0, word |-> w]
Addrs == RamAddrs \cup {MmioAddr(1)}

\* A request addresses the RAM or an MMIO register; its data is a register.
ASSUME RequestsAssumption ==
    Requests \subseteq [write : BOOLEAN, addr : RamAddrs \cup {MmioAddr(w) : w \in 0..2},
                       access : MemAccess, offset : Lanes, data : Words, id : Ids]
ASSUME FromHostAssumption == FromHosts \subseteq Words

VARIABLES
    lines,       \* validArray, tagArray and the data banks
    lookup,      \* the lookup stage registers
    mshr,        \* the miss register and the refill state
    ram,         \* dataMem: mem, with toHostReg as one more word
    read,        \* dataMem: the registered read response
    golden, owed, uartOwed, response, uart

vars == <<lines, lookup, mshr, ram, read, golden, owed, uartOwed, response, uart>>

Memory == INSTANCE LinearMemory

--------------------------------------------------------------------------------
(* Combinational signals, in the order of the source.                          *)

incomingAllowedDuringRefill(req) ==
    ~req.write /\ ~req.addr.mmio /\ req.addr.set # mshr.addr.set

lookupHit == lookup.lineValid /\ lookup.arrayTag = lookup.req.addr.tag
cached(write) == lookup.valid /\ lookup.req.write = write /\ ~lookup.req.addr.mmio
mmio(write) == lookup.valid /\ lookup.req.write = write /\ lookup.req.addr.mmio

responding == mshr.state = "RESPONSE"
criticalResponseValid == mshr.valid /\ responding /\ ~mshr.criticalReturned /\ read.valid
lookupMmioResponseValid == mmio(FALSE) /\ lookup.readSent /\ read.valid
lookupLoadHitResponseValid == cached(FALSE) /\ lookupHit

\* dataMem formats what it returns; a refill word is read with MEM_WORD.
memoryResponseData == formatLoadData(read.word, read.access, read.offset)

\* The response output: the critical word of a miss goes first.
responseOut ==
    IF criticalResponseValid
    THEN <<mshr.id, formatLoadData(memoryResponseData, mshr.access, mshr.offset)>>
    ELSE IF lookupMmioResponseValid THEN <<lookup.req.id, memoryResponseData>>
    ELSE IF lookupLoadHitResponseValid
    THEN <<lookup.req.id,
           formatLoadData(lookup.data, lookup.req.access, lookup.req.offset)>>
    ELSE <<>>

lookupResponseFire(ready) ==
    /\ ~criticalResponseValid /\ ready
    /\ lookupMmioResponseValid \/ lookupLoadHitResponseValid

lookupMissAllocate == cached(FALSE) /\ ~lookupHit /\ ~mshr.valid

\* The backing port: refill, then a cached Store, then an MMIO access.
memoryResponseReady(ready) ==
    IF mshr.state = "REQUEST" THEN FALSE
    ELSE IF responding THEN mshr.criticalReturned \/ ready
    ELSE mmio(FALSE) /\ lookup.readSent /\ ready

memoryResponseFire(ready) == read.valid /\ memoryResponseReady(ready)

lastBeat == mshr.count = WordsPerLine - 1
nextWord == (mshr.word + 1) % WordsPerLine
RefillRead(word) == [write |-> FALSE, addr |-> [mshr.addr EXCEPT !.word = word],
                     access |-> "WORD", offset |-> 0, data |-> ZeroWord, id |-> 0]

memoryRequests(ready) ==
    IF mshr.state = "REQUEST" THEN {RefillRead(mshr.word)}
    ELSE IF responding
    THEN IF memoryResponseFire(ready) /\ ~lastBeat THEN {RefillRead(nextWord)} ELSE {}
    ELSE IF cached(TRUE) \/ ((mmio(TRUE) \/ mmio(FALSE)) /\ ~lookup.readSent)
    THEN {lookup.req} ELSE {}

\* dataMem takes a read only when its response register is free or leaving.
memoryFired(ready) ==
    {r \in memoryRequests(ready) : r.write \/ ~read.valid \/ memoryResponseReady(ready)}

memoryRequestFire(ready) == memoryFired(ready) # {}

idleRefill == mshr.state = "IDLE"
lookupStoreFire(ready) == cached(TRUE) /\ memoryRequestFire(ready) /\ idleRefill
lookupMmioRequestFire(ready) ==
    /\ mmio(TRUE) \/ (mmio(FALSE) /\ ~lookup.readSent)
    /\ memoryRequestFire(ready) /\ idleRefill

\* Fault: a hit leaves the stage although its response was not taken.
lookupStageAdvance_DropsHit(ready) ==
    \/ cached(FALSE) /\ lookupHit
    \/ lookupMissAllocate
    \/ lookupStoreFire(ready)
    \/ mmio(TRUE) /\ lookupMmioRequestFire(ready)
    \/ mmio(FALSE) /\ lookup.readSent /\ lookupResponseFire(ready)

\* A lookup entry retires only when its irrevocable action completes.
lookupStageAdvance(ready) ==
    \/ cached(FALSE) /\ lookupHit /\ lookupResponseFire(ready)
    \/ lookupMissAllocate
    \/ lookupStoreFire(ready)
    \/ mmio(TRUE) /\ lookupMmioRequestFire(ready)
    \/ mmio(FALSE) /\ lookup.readSent /\ lookupResponseFire(ready)

requestReady(req, ready) ==
    /\ ~lookup.valid \/ lookupStageAdvance(ready)
    /\ ~lookupMissAllocate
    /\ ~mshr.valid \/ incomingAllowedDuringRefill(req)

arrayStoreWriteEnable(ready) == lookupStoreFire(ready) /\ lookupHit

\* Fault: a narrow Store clears the rest of its word.
mergeStore_WholeWord(word, req) == alignStoreData(req.data, req.access, req.offset)

mergeStore(word, req) ==
    MergeWord(word, storeByteMask(req.access, req.offset),
              alignStoreData(req.data, req.access, req.offset))

\* Fault: the request behind a Store to the same word reads the old array word.
incomingStoreBypass_Never(addr, ready) == FALSE

incomingStoreBypass(addr, ready) == arrayStoreWriteEnable(ready) /\ addr = lookup.req.addr

\* Fault: a request in the lookup stage does not count as busy.
idle_IgnoresLookup == ~mshr.valid /\ idleRefill

idle == ~mshr.valid /\ idleRefill /\ ~lookup.valid

--------------------------------------------------------------------------------
(* The clocked blocks.  The registers of an empty lookup stage, an idle miss   *)
(* register and an empty read register keep old values that no signal reads:   *)
(* they are represented by one value each.                                     *)

NoRequest == [write |-> FALSE, addr |-> MmioAddr(1), access |-> "WORD", offset |-> 0,
              data |-> ZeroWord, id |-> 0]
EmptyLookup == [valid |-> FALSE, req |-> NoRequest, readSent |-> FALSE,
                lineValid |-> FALSE, arrayTag |-> 0, data |-> ZeroWord]
IdleMshr == [valid |-> FALSE, state |-> "IDLE", addr |-> MmioAddr(1), access |-> "WORD",
             offset |-> 0, id |-> 0, word |-> 0, count |-> 0, criticalReturned |-> FALSE]
EmptyRead == [valid |-> FALSE, word |-> ZeroWord, access |-> "WORD", offset |-> 0]

\* Reset invalidates the lines; their tags are arbitrary and their data is not
\* read before a refill.  The memory image is all zeroes.
Init ==
    /\ lines \in [Sets -> [valid : {FALSE}, tag : LineTags, data : {[w \in WordIdx |-> ZeroWord]}]]
    /\ lookup = EmptyLookup /\ mshr = IdleMshr /\ read = EmptyRead
    /\ ram = [a \in Addrs |-> ZeroWord] /\ golden = ram
    /\ owed = {} /\ uartOwed = <<>> /\ response = <<>> /\ uart = <<>>

\* The lookup registers after request req reads the arrays.
Looked(req, ready) ==
    LET line == lines[req.addr.set]
    IN  IF req.addr.mmio
        THEN [EmptyLookup EXCEPT !.valid = TRUE, !.req = req]
        ELSE [valid |-> TRUE, req |-> req, readSent |-> FALSE,
              lineValid |-> line.valid, arrayTag |-> line.tag,
              data |-> IF incomingStoreBypass(req.addr, ready)
                       THEN mergeStore(lookup.data, lookup.req)
                       ELSE line.data[req.addr.word]]

\* accepted is empty or holds the request that fires.
LookupStage(accepted, ready) ==
    IF accepted # {} THEN lookup' = Looked(CHOOSE r \in accepted : TRUE, ready)
    ELSE IF lookupStageAdvance(ready) THEN lookup' = EmptyLookup
    ELSE IF mmio(FALSE) /\ lookupMmioRequestFire(ready)
    THEN lookup' = [lookup EXCEPT !.readSent = TRUE]
    ELSE lookup' = lookup

Allocated == [valid |-> TRUE, state |-> "REQUEST", addr |-> lookup.req.addr,
              access |-> lookup.req.access, offset |-> lookup.req.offset,
              id |-> lookup.req.id, word |-> lookup.req.addr.word,
              count |-> 0, criticalReturned |-> FALSE]

RefillNext(ready) ==
    IF lastBeat THEN IdleMshr
    ELSE [mshr EXCEPT !.criticalReturned = TRUE, !.count = @ + 1, !.word = nextWord,
                      !.state = IF memoryRequestFire(ready) THEN "RESPONSE" ELSE "REQUEST"]

MissRegister(ready) ==
    mshr' = IF lookupMissAllocate THEN Allocated
            ELSE IF mshr.state = "REQUEST" /\ memoryRequestFire(ready)
            THEN [mshr EXCEPT !.state = "RESPONSE"]
            ELSE IF responding /\ memoryResponseFire(ready) THEN RefillNext(ready)
            ELSE mshr

\* The old line is not readable once its banks start to be overwritten.
EvictLine(line) == [line EXCEPT !.valid = FALSE]

Arrays(ready) ==
    lines' =
        IF lookupMissAllocate
        THEN [lines EXCEPT ![lookup.req.addr.set] = EvictLine(@)]
        ELSE IF responding /\ memoryResponseFire(ready)
        THEN [lines EXCEPT ![mshr.addr.set] =
                [valid |-> @.valid \/ lastBeat,
                 tag |-> IF lastBeat THEN mshr.addr.tag ELSE @.tag,
                 data |-> [@.data EXCEPT ![mshr.word] = memoryResponseData]]]
        ELSE IF arrayStoreWriteEnable(ready)
        THEN [lines EXCEPT ![lookup.req.addr.set].data[lookup.req.addr.word] =
                mergeStore(lookup.data, lookup.req)]
        ELSE lines

\* dataMem: a Store writes its bytes, a Load registers the word it addresses.
\* A Store to the UART or to fromhost does not reach the RAM.
BackingStore(req) ==
    /\ ram' = IF Memory!IsUart(req.addr) \/ Memory!IsFromHost(req.addr) THEN ram
              ELSE [ram EXCEPT ![req.addr] = mergeStore(@, req)]
    /\ uart' = IF Memory!IsUart(req.addr) THEN <<req.data[0]>> ELSE <<>>

BackingLoad(req) ==
    \E fromHost \in FromHosts :
        read' = [valid |-> TRUE, access |-> req.access, offset |-> req.offset,
                 word |-> IF Memory!IsFromHost(req.addr) THEN fromHost
                          ELSE IF Memory!IsUart(req.addr) THEN ZeroWord
                          ELSE ram[req.addr]]

Backing(ready) ==
    LET left == IF memoryResponseFire(ready) THEN EmptyRead ELSE read
        stores == {r \in memoryFired(ready) : r.write}
        loads == memoryFired(ready) \ stores
    IN  /\ \/ stores = {} /\ ram' = ram /\ uart' = <<>>
           \/ \E req \in stores : BackingStore(req)
        /\ \/ loads = {} /\ read' = left
           \/ \E req \in loads : BackingLoad(req)

\* The answer of this clock, and the request it accepts, as an observer sees them.
Observe(accepted, ready) ==
    /\ response' = IF ready THEN responseOut ELSE <<>>
    /\ IF accepted = {} THEN Memory!AcceptNothing
       ELSE \E req \in accepted : Memory!Accept(req)

\* The load/store unit never reuses the tag of a Load that is still owed.
mayRequest(req) == req.write \/ \A o \in owed : o.id # req.id

\* offered is empty or holds the request that requestValid_i presents.
Clock(offered, ready) ==
    LET accepted == {r \in offered : requestReady(r, ready)}
    IN  /\ \A r \in offered : mayRequest(r)
        /\ LookupStage(accepted, ready)
        /\ MissRegister(ready)
        /\ Arrays(ready)
        /\ Backing(ready)
        /\ Observe(accepted, ready)

Next == \E offered \in {{}} \cup {{r} : r \in Requests}, ready \in BOOLEAN : Clock(offered, ready)

\* The clock runs for ever and the load/store unit takes a response again and
\* again: its completion register is emptied by the write-back that follows.
Fairness == WF_vars(\E offered \in {{}} \cup {{r} : r \in Requests} : Clock(offered, TRUE))

Spec == Init /\ [][Next]_vars /\ Fairness

--------------------------------------------------------------------------------
(* Properties.                                                                 *)

\* The registers stay in range: the miss register holds an address exactly while
\* the refill runs, and no beat is counted past the end of a line.
TypeOK ==
    /\ lines \in [Sets -> [valid : BOOLEAN, tag : LineTags, data : [WordIdx -> Words]]]
    /\ lookup.valid => lookup.req \in Requests
    /\ mshr.valid => mshr.addr \in RamAddrs
    /\ mshr.valid <=> mshr.state # "IDLE"
    /\ mshr.word \in WordIdx /\ mshr.count \in WordIdx
    /\ ram \in [Addrs -> Words] /\ read.word \in Words

\* The cache over its backing memory implements the memory that takes effect
\* when a request is accepted: every Load is answered once, with its own tag and
\* the value that all earlier accepted Stores and no later one produced, although
\* hits overtake a miss; every UART byte is sent once and in order.
IsLinearMemory == Memory!Spec

\* Every copy of a backing word is current: the words of a readable line, and
\* the word that a lookup registered, however long the stage was held.  A hit
\* returns, and a Store merges into, the word that memory holds now.
\* Every register holds a value of its type.
CopiesAreCurrent ==
    /\ TypeOK
    /\ \A s \in Sets : lines[s].valid =>
          \A w \in WordIdx :
              lines[s].data[w] = ram[[mmio |-> FALSE, tag |-> lines[s].tag, set |-> s, word |-> w]]
    /\ cached(lookup.req.write) /\ lookupHit => lookup.data = ram[lookup.req.addr]

\* idle_o, which FENCE and CSR instructions wait for, means that no accepted
\* Store is still on its way and no accepted Load is unanswered.
IdleMeansDone == idle => ram = golden /\ owed = {} /\ uartOwed = <<>>

\* Every accepted Load is answered: no mix of hits, misses, Stores and MMIO
\* accesses leaves the lookup stage, the miss register and the read register
\* waiting for each other.
EveryLoadAnswered == \A i \in Ids : (\E o \in owed : o.id = i) ~> (\A o \in owed : o.id # i)
=============================================================================
