-------------------------- MODULE DataCacheProofs --------------------------
(* The cache over its backing RAM implements LinearMemory, for every geometry, *)
(* every set of requests and every pattern of back-pressure.  The Store Buffer *)
(* in front of it is a FIFO queue that forwards what it holds.                 *)
EXTENDS DataCache, StoreBuffer, Integers, TLAPS

\* The default provers, one after the other, with time to spare.
USE SMTT(20), ZenonT(40)

ReqType == [write : BOOLEAN, addr : RamAddrs \cup {MmioAddr(w) : w \in 0..2},
            access : MemAccess, offset : Lanes, data : Words, id : Ids]
LookupType == [valid : BOOLEAN, req : ReqType \cup {NoRequest}, readSent : BOOLEAN,
               lineValid : BOOLEAN, arrayTag : LineTags \cup {0}, data : Words]
MshrType == [valid : BOOLEAN, state : {"IDLE", "REQUEST", "RESPONSE"},
             addr : RamAddrs \cup {MmioAddr(1)}, access : MemAccess, offset : Lanes,
             id : Ids \cup {0}, word : WordIdx, count : WordIdx, criticalReturned : BOOLEAN]

\* Words of the line that the refill has brought in, counted from the critical one.
Beat(w) == IF w >= mshr.addr.word THEN w - mshr.addr.word
           ELSE w - mshr.addr.word + WordsPerLine
Place(t, s, w) == [mmio |-> FALSE, tag |-> t, set |-> s, word |-> w]
InLine(addr, w) == Place(addr.tag, addr.set, w)

\* The refill owns its line, which is unreadable, and the requests let in beside
\* it are Loads of other sets.
RefillOK ==
    /\ mshr \in MshrType
    /\ mshr.valid <=> mshr.state # "IDLE"
    /\ ~mshr.valid => ~mshr.criticalReturned
    /\ mshr.valid =>
          /\ mshr.addr \in RamAddrs
          /\ ~lines[mshr.addr.set].valid
          /\ Beat(mshr.word) = mshr.count
          /\ mshr.criticalReturned <=> mshr.count > 0
          /\ \A w \in WordIdx : Beat(w) < mshr.count =>
                lines[mshr.addr.set].data[w] = ram[InLine(mshr.addr, w)]
          /\ lookup.valid =>
                /\ ~lookup.req.write /\ ~lookup.req.addr.mmio
                /\ lookup.req.addr.set # mshr.addr.set

\* What the lookup registered about its line still holds.
LookupOK ==
    /\ lookup \in LookupType
    /\ lookup.valid => lookup.req \in Requests
    /\ lookup.readSent => mmio(FALSE)
    /\ lookup.valid /\ ~lookup.req.addr.mmio =>
          /\ lookup.lineValid = lines[lookup.req.addr.set].valid
          /\ lookup.arrayTag = lines[lookup.req.addr.set].tag
          /\ lookupHit => lookup.data = ram[lookup.req.addr]

LinesOK ==
    /\ lines \in [Sets -> [valid : BOOLEAN, tag : LineTags, data : [WordIdx -> Words]]]
    /\ \A s \in Sets : lines[s].valid =>
          \A w \in WordIdx : lines[s].data[w] = ram[Place(lines[s].tag, s, w)]

\* The read register holds the word that the refill or the MMIO Load waits for.
ReadOK ==
    /\ read \in [valid : BOOLEAN, word : Words, access : MemAccess, offset : Lanes]
    /\ read.valid <=> responding \/ lookup.readSent
    /\ responding =>
          /\ read.access = "WORD" /\ read.offset = 0
          /\ read.word = ram[InLine(mshr.addr, mshr.word)]
    /\ lookup.readSent =>
          /\ read.access = lookup.req.access /\ read.offset = lookup.req.offset
          /\ read.word \in Memory!ReadWords(lookup.req.addr)

\* What an observer is owed is what the lookup stage and the miss register hold.
Reaches(req) == ~Memory!IsUart(req.addr) /\ ~Memory!IsFromHost(req.addr)
Pending == lookup.valid /\ lookup.req.write
LookupOwes ==
    IF lookup.valid /\ ~lookup.req.write
    THEN {[id |-> lookup.req.id, values |-> Memory!Answers(lookup.req)]} ELSE {}
MshrOwes ==
    IF mshr.valid /\ ~mshr.criticalReturned
    THEN {[id |-> mshr.id, values |-> {formatLoadData(ram[mshr.addr], mshr.access, mshr.offset)}]}
    ELSE {}
OwedOK ==
    /\ owed = LookupOwes \cup MshrOwes
    /\ lookup.valid /\ ~lookup.req.write /\ mshr.valid /\ ~mshr.criticalReturned =>
          lookup.req.id # mshr.id
    /\ golden = IF Pending /\ Reaches(lookup.req) THEN Memory!Written(ram, lookup.req) ELSE ram
    /\ uartOwed = IF Pending /\ Memory!IsUart(lookup.req.addr) THEN <<lookup.req.data[0]>> ELSE <<>>

IInv ==
    /\ ram \in [Addrs -> Words]
    /\ LinesOK /\ LookupOK /\ RefillOK /\ ReadOK /\ OwedOK

--------------------------------------------------------------------------------
(* What a clock does, case by case.  The first three cases are the refill's,    *)
(* the others those of an idle refill, by what the lookup stage holds.          *)

RefillWord(word) == [valid |-> TRUE, access |-> "WORD", offset |-> 0,
                     word |-> ram[InLine(mshr.addr, word)]]

\* The fields of a request.
LEMMA ReqFacts ==
  ASSUME NEW req \in Requests
  PROVE  /\ req \in ReqType
         /\ req.write \in BOOLEAN /\ req.addr.mmio \in BOOLEAN
         /\ req.access \in MemAccess /\ req.offset \in Lanes /\ req.data \in Words
         /\ req.id \in Ids
         /\ ~req.addr.mmio => req.addr \in RamAddrs
         /\ req.addr.mmio => \E w \in 0..2 : req.addr = MmioAddr(w)
<1>1. /\ req \in ReqType /\ req.write \in BOOLEAN
      /\ req.access \in MemAccess /\ req.offset \in Lanes /\ req.data \in Words
      /\ req.id \in Ids /\ req.addr \in RamAddrs \cup {MmioAddr(w) : w \in 0..2}
  BY RequestsAssumption, ZenonT(40) DEF ReqType
<1>2. \A a \in RamAddrs : a.mmio = FALSE
  BY ZenonT(40) DEF RamAddrs
<1>3. \A w : MmioAddr(w).mmio = TRUE
  BY ZenonT(40) DEF MmioAddr
<1> QED
  BY <1>1, <1>2, <1>3, ZenonT(40)

\* A refill word is addressed by the miss address and its word.
LEMMA RefillReadAddr ==
  ASSUME IInv, mshr.valid, NEW word \in WordIdx
  PROVE  /\ RefillRead(word).addr = InLine(mshr.addr, word)
         /\ RefillRead(word).addr \in RamAddrs
         /\ ~RefillRead(word).write
         /\ RefillRead(word).access = "WORD" /\ RefillRead(word).offset = 0
BY ZenonT(40) DEF IInv, RefillOK, RefillRead, InLine, Place, RamAddrs

\* dataMem registers the addressed word for a refill.
LEMMA RefillLoad ==
  ASSUME IInv, mshr.valid, NEW word \in WordIdx, BackingLoad(RefillRead(word))
  PROVE  read' = RefillWord(word)
<1>1. /\ ~RefillRead(word).addr.mmio
      /\ RefillRead(word).addr = InLine(mshr.addr, word)
      /\ RefillRead(word).access = "WORD" /\ RefillRead(word).offset = 0
  BY RefillReadAddr, ZenonT(40) DEF RamAddrs
<1> QED
  BY <1>1 DEF BackingLoad, RefillWord, Memory!IsFromHost, Memory!IsUart

\* In the request state only the refill's own read is sent.
LEMMA RequestClock ==
  ASSUME IInv, NEW ready \in BOOLEAN, mshr.state = "REQUEST",
         MissRegister(ready), Arrays(ready), Backing(ready)
  PROVE  /\ mshr' = [mshr EXCEPT !.state = "RESPONSE"]
         /\ read' = RefillWord(mshr.word)
         /\ lines' = lines /\ ram' = ram /\ uart' = <<>>
<1>1. /\ mshr.valid /\ ~responding /\ ~read.valid /\ mshr.word \in WordIdx
      /\ lookup.valid => ~lookup.req.write /\ ~lookup.req.addr.mmio
  BY DEF IInv, RefillOK, MshrType, ReadOK, LookupOK, responding, mmio
<1>2. memoryFired(ready) = {RefillRead(mshr.word)}
  BY <1>1 DEF memoryFired, memoryRequests
<1>3. /\ ~lookupMissAllocate /\ ~memoryResponseFire(ready) /\ ~arrayStoreWriteEnable(ready)
      /\ memoryRequestFire(ready)
  BY <1>1, <1>2 DEF lookupMissAllocate, memoryResponseFire, memoryResponseReady,
     arrayStoreWriteEnable, lookupStoreFire, idleRefill, memoryRequestFire
<1>4. {r \in memoryFired(ready) : r.write} = {} /\ BackingLoad(RefillRead(mshr.word))
  <2>1. ~RefillRead(mshr.word).write
    BY <1>1, RefillReadAddr
  <2> HIDE DEF RefillRead
  <2> QED
    BY <1>2, <2>1 DEF Backing
<1> QED
  BY <1>1, <1>3, <1>4, RefillLoad DEF MissRegister, Arrays, Backing

\* What the beat of a refill does to its line.
BeatLine(line) ==
    [valid |-> line.valid \/ lastBeat, tag |-> IF lastBeat THEN mshr.addr.tag ELSE line.tag,
     data |-> [line.data EXCEPT ![mshr.word] = ram[InLine(mshr.addr, mshr.word)]]]

\* A refill word arrives as memory holds it, whatever mode the Load has.
LEMMA RefillData ==
  ASSUME IInv, responding
  PROVE  memoryResponseData = ram[InLine(mshr.addr, mshr.word)]
<1>1. read.access = "WORD" /\ read.word = ram[InLine(mshr.addr, mshr.word)]
  BY DEF IInv, ReadOK
<1>2. AccessBytes("WORD") = 4
  BY DEF AccessBytes
<1> QED
  BY <1>1, <1>2, ZenonT(40) DEF memoryResponseData, formatLoadData

LEMMA RespondingFacts ==
  ASSUME IInv, NEW ready \in BOOLEAN, responding
  PROVE  /\ mshr.valid /\ mshr.state = "RESPONSE" /\ read.valid /\ mshr.word \in WordIdx
         /\ ~lookupMissAllocate /\ ~arrayStoreWriteEnable(ready)
         /\ memoryResponseReady(ready) <=> mshr.criticalReturned \/ ready
         /\ memoryResponseFire(ready) <=> mshr.criticalReturned \/ ready
BY ZenonT(40) DEF IInv, RefillOK, MshrType, ReadOK, responding, lookupMissAllocate, memoryResponseFire,
   memoryResponseReady, arrayStoreWriteEnable, lookupStoreFire, idleRefill

\* The refill waits for the critical word to be taken.
LEMMA WaitClock ==
  ASSUME IInv, NEW ready \in BOOLEAN, responding, ~mshr.criticalReturned, ~ready,
         MissRegister(ready), Arrays(ready), Backing(ready)
  PROVE  UNCHANGED <<mshr, read, lines, ram>> /\ uart' = <<>>
<1>1. memoryFired(ready) = {}
  BY RespondingFacts DEF memoryFired, memoryRequests
<1> QED
  BY <1>1, RespondingFacts DEF MissRegister, Arrays, Backing

\* A beat that is not the last writes its word and asks for the next.
LEMMA BeatClock ==
  ASSUME IInv, NEW ready \in BOOLEAN, responding, mshr.criticalReturned \/ ready, ~lastBeat,
         nextWord \in WordIdx, MissRegister(ready), Arrays(ready), Backing(ready)
  PROVE  /\ mshr' = [mshr EXCEPT !.criticalReturned = TRUE, !.count = @ + 1, !.word = nextWord,
                                 !.state = "RESPONSE"]
         /\ read' = RefillWord(nextWord)
         /\ lines' = [lines EXCEPT ![mshr.addr.set] = BeatLine(@)]
         /\ ram' = ram /\ uart' = <<>>
<1>1. /\ mshr.valid /\ mshr.state = "RESPONSE" /\ read.valid
      /\ ~lookupMissAllocate /\ memoryResponseReady(ready) /\ memoryResponseFire(ready)
  BY RespondingFacts
<1>2. memoryFired(ready) = {RefillRead(nextWord)}
  BY <1>1 DEF memoryFired, memoryRequests
<1>3. memoryRequestFire(ready)
  BY <1>2 DEF memoryRequestFire
<1>4. {r \in memoryFired(ready) : r.write} = {} /\ BackingLoad(RefillRead(nextWord))
  <2>1. ~RefillRead(nextWord).write
    BY <1>1, RefillReadAddr
  <2> HIDE DEF RefillRead
  <2> QED
    BY <1>2, <2>1 DEF Backing
<1>5. lines' = [lines EXCEPT ![mshr.addr.set] = BeatLine(@)]
  BY <1>1, RefillData, ZenonT(40) DEF Arrays, BeatLine
<1>6. ram' = ram /\ uart' = <<>>
  BY <1>4 DEF Backing
<1>7. mshr' = RefillNext(ready)
  BY <1>1 DEF MissRegister
<1> QED
  BY <1>1, <1>3, <1>4, <1>5, <1>6, <1>7, RefillLoad DEF RefillNext

\* The last beat makes the line readable and frees the miss register.
LEMMA LastBeatClock ==
  ASSUME IInv, NEW ready \in BOOLEAN, responding, mshr.criticalReturned \/ ready, lastBeat,
         MissRegister(ready), Arrays(ready), Backing(ready)
  PROVE  /\ mshr' = IdleMshr /\ read' = EmptyRead
         /\ lines' = [lines EXCEPT ![mshr.addr.set] = BeatLine(@)]
         /\ ram' = ram /\ uart' = <<>>
<1>1. /\ mshr.valid /\ mshr.state = "RESPONSE" /\ read.valid
      /\ ~lookupMissAllocate /\ memoryResponseReady(ready) /\ memoryResponseFire(ready)
  BY RespondingFacts
<1>2. memoryFired(ready) = {}
  BY <1>1 DEF memoryFired, memoryRequests
<1>5. lines' = [lines EXCEPT ![mshr.addr.set] = BeatLine(@)]
  BY <1>1, RefillData, ZenonT(40) DEF Arrays, BeatLine
<1>6. ram' = ram /\ uart' = <<>> /\ read' = EmptyRead
  BY <1>1, <1>2 DEF Backing
<1> QED
  BY <1>1, <1>5, <1>6 DEF RefillNext, MissRegister

LEMMA IdleFacts ==
  ASSUME IInv, NEW ready \in BOOLEAN, ~mshr.valid
  PROVE  /\ idleRefill /\ ~responding /\ mshr.state # "REQUEST"
         /\ read.valid <=> lookup.readSent
         /\ lookup.readSent => mmio(FALSE)
         /\ memoryResponseReady(ready) <=> lookup.readSent /\ ready
         /\ memoryResponseFire(ready) <=> lookup.readSent /\ ready
BY ZenonT(40) DEF IInv, RefillOK, MshrType, ReadOK, LookupOK, responding, idleRefill, memoryResponseFire,
   memoryResponseReady

\* Nothing moves behind an empty lookup stage or a hit.
LEMMA QuietClock ==
  ASSUME IInv, NEW ready \in BOOLEAN, ~mshr.valid, ~lookup.valid \/ (cached(FALSE) /\ lookupHit),
         MissRegister(ready), Arrays(ready), Backing(ready)
  PROVE  UNCHANGED <<mshr, read, lines, ram>> /\ uart' = <<>>
<1>1. ~lookup.readSent /\ ~cached(TRUE) /\ ~mmio(TRUE) /\ ~mmio(FALSE) /\ ~lookupMissAllocate
  BY IdleFacts, ZenonT(40) DEF cached, mmio, lookupMissAllocate
<1>2. memoryFired(ready) = {} /\ ~memoryResponseFire(ready) /\ ~arrayStoreWriteEnable(ready)
  BY <1>1, IdleFacts, ZenonT(40) DEF memoryFired, memoryRequests, arrayStoreWriteEnable, lookupStoreFire
<1> QED
  BY <1>1, <1>2, IdleFacts, ZenonT(40) DEF MissRegister, Arrays, Backing

\* A miss moves to the miss register and evicts its line.
LEMMA AllocateClock ==
  ASSUME IInv, NEW ready \in BOOLEAN, lookupMissAllocate,
         MissRegister(ready), Arrays(ready), Backing(ready)
  PROVE  /\ mshr' = Allocated /\ read' = read /\ ram' = ram /\ uart' = <<>>
         /\ lines' = [lines EXCEPT ![lookup.req.addr.set] = EvictLine(@)]
<1>1. ~mshr.valid /\ ~lookup.readSent /\ ~cached(TRUE) /\ ~mmio(TRUE) /\ ~mmio(FALSE)
  BY IdleFacts, ZenonT(40) DEF cached, mmio, lookupMissAllocate
<1>2. memoryFired(ready) = {} /\ ~memoryResponseFire(ready)
  BY <1>1, IdleFacts, ZenonT(40) DEF memoryFired, memoryRequests
<1> QED
  BY <1>1, <1>2, IdleFacts DEF MissRegister, Arrays, Backing

\* A Store, cached or MMIO, leaves for the backing memory at once.
LEMMA StoreClock ==
  ASSUME IInv, NEW ready \in BOOLEAN, ~mshr.valid, Pending,
         MissRegister(ready), Arrays(ready), Backing(ready)
  PROVE  /\ BackingStore(lookup.req) /\ UNCHANGED <<mshr, read>>
         /\ lines' = IF ~lookup.req.addr.mmio /\ lookupHit
                     THEN [lines EXCEPT ![lookup.req.addr.set].data[lookup.req.addr.word] =
                             mergeStore(lookup.data, lookup.req)]
                     ELSE lines
         /\ arrayStoreWriteEnable(ready) <=> ~lookup.req.addr.mmio /\ lookupHit
         /\ memoryRequestFire(ready)
<1>1. /\ lookup.req.write = TRUE /\ lookup.req.addr.mmio \in BOOLEAN
      /\ ~lookup.readSent /\ ~cached(FALSE) /\ ~mmio(FALSE) /\ ~lookupMissAllocate
      /\ cached(TRUE) <=> ~lookup.req.addr.mmio
      /\ mmio(TRUE) <=> lookup.req.addr.mmio
  <2>1. lookup.valid /\ lookup.req \in Requests /\ lookup.req.write
    BY DEF IInv, LookupOK, Pending
  <2>2. lookup.req.write \in BOOLEAN /\ lookup.req.addr.mmio \in BOOLEAN
    BY <2>1, ReqFacts
  <2>3. lookup.req.write = TRUE
    BY <2>1, <2>2
  <2> QED
    BY <2>1, <2>2, <2>3, IdleFacts DEF cached, mmio, lookupMissAllocate
<1>2. memoryFired(ready) = {lookup.req}
  BY <1>1, IdleFacts, ZenonT(40) DEF memoryFired, memoryRequests
<1>3. /\ ~memoryResponseFire(ready)
      /\ arrayStoreWriteEnable(ready) <=> ~lookup.req.addr.mmio /\ lookupHit
  BY <1>1, <1>2, IdleFacts, ZenonT(40) DEF arrayStoreWriteEnable, lookupStoreFire, memoryRequestFire
<1>4. {r \in memoryFired(ready) : r.write} = {lookup.req}
  BY <1>1, <1>2
<1>5. BackingStore(lookup.req) /\ read' = read
  BY <1>2, <1>3, <1>4 DEF Backing
<1> QED
  BY <1>1, <1>2, <1>3, <1>5, IdleFacts, ZenonT(40) DEF MissRegister, Arrays, memoryRequestFire

\* An MMIO Load is sent to the backing memory once and then waits for its word.
LEMMA MmioLoadClock ==
  ASSUME IInv, NEW ready \in BOOLEAN, ~mshr.valid, mmio(FALSE),
         MissRegister(ready), Arrays(ready), Backing(ready)
  PROVE  /\ UNCHANGED <<mshr, lines, ram>> /\ uart' = <<>>
         /\ ~lookup.readSent => BackingLoad(lookup.req)
         /\ lookup.readSent => read' = IF ready THEN EmptyRead ELSE read
         /\ lookupMmioRequestFire(ready) <=> ~lookup.readSent
<1>1. /\ lookup.req.write = FALSE
      /\ ~cached(TRUE) /\ ~cached(FALSE) /\ ~mmio(TRUE) /\ ~lookupMissAllocate
  BY DEF cached, mmio, lookupMissAllocate
<1>2. memoryFired(ready) = IF lookup.readSent THEN {} ELSE {lookup.req}
  BY <1>1, IdleFacts, ZenonT(40) DEF memoryFired, memoryRequests
<1>3. /\ ~arrayStoreWriteEnable(ready)
      /\ lookupMmioRequestFire(ready) <=> ~lookup.readSent
  BY <1>1, <1>2, IdleFacts, ZenonT(40) DEF arrayStoreWriteEnable, lookupStoreFire, memoryRequestFire, lookupMmioRequestFire
<1>4. {r \in memoryFired(ready) : r.write} = {}
  BY <1>1, <1>2
<1>5. ram' = ram /\ uart' = <<>>
  BY <1>4 DEF Backing
<1>6. ~lookup.readSent => BackingLoad(lookup.req)
  BY <1>2, <1>4 DEF Backing
<1>7. lookup.readSent => read' = IF ready THEN EmptyRead ELSE read
  BY <1>2, <1>4, IdleFacts, ZenonT(40) DEF Backing
<1> QED
  BY <1>1, <1>3, <1>5, <1>6, <1>7, IdleFacts, ZenonT(40) DEF MissRegister, Arrays

--------------------------------------------------------------------------------
(* The lookup stage.                                                           *)

Offers == {{}} \cup {{r} : r \in Requests}

\* The stage takes a request, empties, notes that its MMIO read left, or waits.
Takes(r, ready) ==
    /\ lookup' = Looked(r, ready) /\ ~lookupMissAllocate
    /\ ~lookup.valid \/ lookupStageAdvance(ready)
    /\ ~mshr.valid \/ incomingAllowedDuringRefill(r)
    /\ mayRequest(r) /\ Memory!Accept(r)
Empties(ready) ==
    lookup' = EmptyLookup /\ lookupStageAdvance(ready) /\ Memory!AcceptNothing
Sends(ready) ==
    /\ mmio(FALSE) /\ lookupMmioRequestFire(ready) /\ ~lookupStageAdvance(ready)
    /\ lookup' = [lookup EXCEPT !.readSent = TRUE] /\ Memory!AcceptNothing
Waits(ready) ==
    /\ ~(mmio(FALSE) /\ lookupMmioRequestFire(ready)) /\ ~lookupStageAdvance(ready)
    /\ lookup' = lookup /\ Memory!AcceptNothing

LEMMA LookupClock ==
  ASSUME NEW ready \in BOOLEAN, NEW offered \in Offers, Clock(offered, ready)
  PROVE  (\E r \in Requests : Takes(r, ready)) \/ Empties(ready) \/ Sends(ready) \/ Waits(ready)
<1> DEFINE accepted == {r \in offered : requestReady(r, ready)}
<1>1. /\ \A r \in offered : mayRequest(r)
      /\ LookupStage(accepted, ready) /\ Observe(accepted, ready)
  BY ZenonT(40) DEF Clock
<1>2. ASSUME accepted # {} PROVE \E r \in Requests : Takes(r, ready)
  <2>1. PICK r \in Requests : offered = {r}
    BY <1>2, ZenonT(40) DEF Offers
  <2>2. accepted = {r} /\ requestReady(r, ready) /\ mayRequest(r)
    BY <1>1, <1>2, <2>1
  <2> HIDE DEF accepted
  <2>3. Memory!Accept(r)
    BY <1>1, <2>2, ZenonT(40) DEF Observe
  <2>4. (CHOOSE x \in accepted : TRUE) = r
    BY <2>2
  <2>5. lookup' = Looked(r, ready)
    BY <1>1, <1>2, <2>4, ZenonT(40) DEF LookupStage
  <2> QED
    BY <2>2, <2>3, <2>5, ZenonT(40) DEF Takes, requestReady
<1>3. ASSUME accepted = {} PROVE Empties(ready) \/ Sends(ready) \/ Waits(ready)
  <2> HIDE DEF accepted
  <2>1. Memory!AcceptNothing
    BY <1>1, <1>3, ZenonT(40) DEF Observe
  <2> QED
    BY <1>1, <1>3, <2>1, ZenonT(40) DEF LookupStage, Empties, Sends, Waits
<1> QED
  BY <1>2, <1>3, ZenonT(40)

\* What the stage holds decides whether it can move on.
LoadHit == lookup.valid /\ ~lookup.req.write /\ ~lookup.req.addr.mmio /\ lookupHit

LEMMA LookupKinds ==
  ASSUME IInv
  PROVE  /\ cached(FALSE) <=> lookup.valid /\ ~lookup.req.write /\ ~lookup.req.addr.mmio
         /\ cached(TRUE) <=> lookup.valid /\ lookup.req.write /\ ~lookup.req.addr.mmio
         /\ mmio(FALSE) <=> lookup.valid /\ ~lookup.req.write /\ lookup.req.addr.mmio
         /\ mmio(TRUE) <=> lookup.valid /\ lookup.req.write /\ lookup.req.addr.mmio
<1>1. lookup.valid => lookup.req.write \in BOOLEAN
  BY ReqFacts, ZenonT(40) DEF IInv, LookupOK
<1>2. lookup.valid /\ lookup.req.write => lookup.req.write = TRUE
  BY <1>1
<1>3. lookup.valid /\ ~lookup.req.write => lookup.req.write = FALSE
  BY <1>1
<1> QED
  BY <1>2, <1>3, ZenonT(40) DEF cached, mmio

LEMMA AdvanceInRefill ==
  ASSUME IInv, NEW ready \in BOOLEAN, mshr.valid
  PROVE  lookupStageAdvance(ready) <=> LoadHit /\ ready /\ ~criticalResponseValid
<1>1. ~cached(TRUE) /\ ~mmio(TRUE) /\ ~mmio(FALSE) /\ ~lookupMissAllocate
  BY ZenonT(40) DEF IInv, RefillOK, cached, mmio, lookupMissAllocate
<1> QED
  BY <1>1, LookupKinds, ZenonT(40) DEF lookupStageAdvance, lookupResponseFire, lookupLoadHitResponseValid,
     lookupMmioResponseValid, LoadHit, lookupStoreFire

LEMMA AdvanceInIdle ==
  ASSUME IInv, NEW ready \in BOOLEAN, ~mshr.valid
  PROVE  /\ ~criticalResponseValid
         /\ lookup.valid /\ lookup.req.write /\ memoryRequestFire(ready) => lookupStageAdvance(ready)
         /\ lookupMissAllocate => lookupStageAdvance(ready)
         /\ LoadHit => (lookupStageAdvance(ready) <=> ready)
         /\ mmio(FALSE) => (lookupStageAdvance(ready) <=> lookup.readSent /\ ready)
         /\ ~lookup.valid => ~lookupStageAdvance(ready)
<1>1. idleRefill /\ ~criticalResponseValid /\ (read.valid <=> lookup.readSent)
  BY IdleFacts, ZenonT(40) DEF criticalResponseValid
<1> USE DEF lookupStageAdvance
<1>2. LoadHit => (lookupStageAdvance(ready) <=> ready)
  BY <1>1, LookupKinds, ZenonT(40) DEF lookupResponseFire, lookupLoadHitResponseValid,
     lookupMmioResponseValid, LoadHit, lookupStoreFire, lookupMissAllocate
<1>3. mmio(FALSE) => (lookupStageAdvance(ready) <=> lookup.readSent /\ ready)
  BY <1>1, LookupKinds, ZenonT(40) DEF lookupResponseFire, lookupLoadHitResponseValid,
     lookupMmioResponseValid, lookupStoreFire, lookupMissAllocate
<1>4. ~lookup.valid => ~lookupStageAdvance(ready)
  BY LookupKinds, ZenonT(40) DEF lookupStoreFire, lookupMissAllocate
<1>5. lookup.valid /\ lookup.req.write /\ memoryRequestFire(ready) => lookupStageAdvance(ready)
  BY <1>1, LookupKinds, ZenonT(40) DEF lookupStoreFire, lookupMmioRequestFire
<1> QED
  BY <1>1, <1>2, <1>3, <1>4, <1>5, ZenonT(40)

--------------------------------------------------------------------------------
(* The clock as one of eight events.                                           *)

RefillAsks ==
    /\ mshr.valid /\ mshr.state = "REQUEST" /\ mshr' = [mshr EXCEPT !.state = "RESPONSE"]
    /\ read' = RefillWord(mshr.word) /\ UNCHANGED <<lines, ram>> /\ uart' = <<>>

RefillWaits(ready) ==
    /\ mshr.valid /\ responding /\ ~mshr.criticalReturned /\ ~ready
    /\ UNCHANGED <<mshr, read, lines, ram>> /\ uart' = <<>>

RefillBeat(ready) ==
    /\ mshr.valid /\ responding /\ (mshr.criticalReturned \/ ready) /\ ~lastBeat
    /\ mshr' = [mshr EXCEPT !.criticalReturned = TRUE, !.count = @ + 1, !.word = nextWord,
                            !.state = "RESPONSE"]
    /\ read' = RefillWord(nextWord)
    /\ lines' = [lines EXCEPT ![mshr.addr.set] = BeatLine(@)]
    /\ ram' = ram /\ uart' = <<>>

RefillEnds(ready) ==
    /\ mshr.valid /\ responding /\ (mshr.criticalReturned \/ ready) /\ lastBeat
    /\ mshr' = IdleMshr /\ read' = EmptyRead
    /\ lines' = [lines EXCEPT ![mshr.addr.set] = BeatLine(@)]
    /\ ram' = ram /\ uart' = <<>>

Quiet ==
    /\ ~mshr.valid /\ (~lookup.valid \/ LoadHit)
    /\ UNCHANGED <<mshr, read, lines, ram>> /\ uart' = <<>>

MissLeaves ==
    /\ ~mshr.valid /\ lookupMissAllocate /\ ~lookup.readSent
    /\ mshr' = Allocated /\ UNCHANGED <<read, ram>> /\ uart' = <<>>
    /\ lines' = [lines EXCEPT ![lookup.req.addr.set] = EvictLine(@)]

StoreLeaves(ready) ==
    /\ ~mshr.valid /\ Pending /\ BackingStore(lookup.req) /\ UNCHANGED <<mshr, read>>
    /\ lines' = IF ~lookup.req.addr.mmio /\ lookupHit
                THEN [lines EXCEPT ![lookup.req.addr.set].data[lookup.req.addr.word] =
                        mergeStore(lookup.data, lookup.req)]
                ELSE lines
    /\ arrayStoreWriteEnable(ready) <=> ~lookup.req.addr.mmio /\ lookupHit
    /\ lookupStageAdvance(ready)

MmioLoad(ready) ==
    /\ ~mshr.valid /\ mmio(FALSE) /\ UNCHANGED <<mshr, lines, ram>> /\ uart' = <<>>
    /\ ~lookup.readSent => BackingLoad(lookup.req)
    /\ lookup.readSent => read' = IF ready THEN EmptyRead ELSE read
    /\ lookupMmioRequestFire(ready) <=> ~lookup.readSent

\* The word counter wraps at the end of the line.
LEMMA NextWordWraps ==
  \A n \in WordIdx : (n + 1) % WordsPerLine = IF n + 1 = WordsPerLine THEN 0 ELSE n + 1
<1>1. \A w \in Nat \ {0}, n \in Nat : n < w => n % w = n
  OBVIOUS
<1>2. \A w \in Nat \ {0} : w % w = 0
  OBVIOUS
<1> QED
  BY <1>1, <1>2, LineAssumption DEF WordIdx

LEMMA NextBeat ==
  ASSUME IInv, mshr.valid, ~lastBeat
  PROVE  nextWord \in WordIdx /\ Beat(nextWord) = mshr.count + 1 /\ mshr.count + 1 \in WordIdx
<1>1. /\ mshr.word \in WordIdx /\ mshr.count \in WordIdx /\ mshr.addr.word \in WordIdx
      /\ Beat(mshr.word) = mshr.count /\ mshr.count # WordsPerLine - 1
  BY ZenonT(40) DEF IInv, RefillOK, MshrType, RamAddrs, lastBeat
<1>2. nextWord = IF mshr.word + 1 = WordsPerLine THEN 0 ELSE mshr.word + 1
  BY <1>1, NextWordWraps DEF nextWord
<1> QED
  BY <1>1, <1>2, LineAssumption DEF Beat, WordIdx

LEMMA ClockCase ==
  ASSUME IInv, NEW ready \in BOOLEAN, NEW offered, Clock(offered, ready)
  PROVE  \/ RefillAsks \/ RefillWaits(ready) \/ RefillBeat(ready) \/ RefillEnds(ready)
         \/ Quiet \/ MissLeaves \/ StoreLeaves(ready) \/ MmioLoad(ready)
<1>1. MissRegister(ready) /\ Arrays(ready) /\ Backing(ready)
  BY ZenonT(40) DEF Clock
<1>2. mshr.valid => mshr.state = "REQUEST" \/ responding
  BY ZenonT(40) DEF IInv, RefillOK, MshrType, responding
<1>3. CASE mshr.valid /\ mshr.state = "REQUEST"
  BY <1>1, <1>3, RequestClock, ZenonT(40) DEF RefillAsks
<1>4. CASE mshr.valid /\ responding /\ ~mshr.criticalReturned /\ ~ready
  BY <1>1, <1>4, WaitClock, ZenonT(40) DEF RefillWaits
<1>5. CASE mshr.valid /\ responding /\ (mshr.criticalReturned \/ ready) /\ ~lastBeat
  BY <1>1, <1>5, BeatClock, NextBeat, ZenonT(40) DEF RefillBeat
<1>6. CASE mshr.valid /\ responding /\ (mshr.criticalReturned \/ ready) /\ lastBeat
  BY <1>1, <1>6, LastBeatClock, ZenonT(40) DEF RefillEnds
<1>7. CASE ~mshr.valid
  <2>1. CASE ~lookup.valid \/ LoadHit
    <3>1. ~lookup.valid \/ (cached(FALSE) /\ lookupHit)
      BY <2>1, LookupKinds, ZenonT(40) DEF LoadHit
    <3> QED
      BY <1>1, <1>7, <2>1, <3>1, QuietClock, ZenonT(40) DEF Quiet
  <2>2. CASE lookup.valid /\ ~lookup.req.write /\ ~lookup.req.addr.mmio /\ ~lookupHit
    <3>1. lookupMissAllocate /\ ~lookup.readSent
      BY <1>7, <2>2, LookupKinds, ZenonT(40) DEF lookupMissAllocate, IInv, LookupOK
    <3> QED
      BY <1>1, <1>7, <3>1, AllocateClock, ZenonT(40) DEF MissLeaves
  <2>3. CASE lookup.valid /\ lookup.req.write
    BY <1>1, <1>7, <2>3, StoreClock, AdvanceInIdle, ZenonT(40) DEF StoreLeaves, Pending
  <2>4. CASE lookup.valid /\ ~lookup.req.write /\ lookup.req.addr.mmio
    BY <1>1, <1>7, <2>4, MmioLoadClock, LookupKinds, ZenonT(40) DEF MmioLoad
  <2> QED
    BY <2>1, <2>2, <2>3, <2>4, ZenonT(40) DEF LoadHit
<1> QED
  BY <1>2, <1>3, <1>4, <1>5, <1>6, <1>7, ZenonT(40)

--------------------------------------------------------------------------------
(* The parts of the invariant.                                                 *)

LEMMA PlaceFacts ==
  /\ \A t \in LineTags, s \in Sets, w \in WordIdx :
        /\ Place(t, s, w) \in RamAddrs /\ Place(t, s, w) \in Addrs
        /\ \A v : Place(t, s, w) # MmioAddr(v)
  /\ \A t, s, w, t2, s2, w2 : Place(t, s, w) = Place(t2, s2, w2) => t = t2 /\ s = s2 /\ w = w2
  /\ \A a \in RamAddrs : /\ a = Place(a.tag, a.set, a.word) /\ a \in Addrs
                         /\ a.tag \in LineTags /\ a.set \in Sets /\ a.word \in WordIdx
<1>1. \A t \in LineTags, s \in Sets, w \in WordIdx :
        Place(t, s, w) \in RamAddrs /\ Place(t, s, w) \in Addrs
  BY DEF Place, RamAddrs, Addrs
<1>2. \A t, s, w, v : Place(t, s, w) # MmioAddr(v)
  <2> TAKE t, s, w, v
  <2>1. Place(t, s, w).mmio = FALSE /\ MmioAddr(v).mmio = TRUE
    BY DEF Place, MmioAddr
  <2> QED
    BY <2>1
<1>3. \A t, s, w, t2, s2, w2 : Place(t, s, w) = Place(t2, s2, w2) => t = t2 /\ s = s2 /\ w = w2
  BY DEF Place
<1>4. \A a \in RamAddrs : /\ a = Place(a.tag, a.set, a.word) /\ a \in Addrs
                         /\ a.tag \in LineTags /\ a.set \in Sets /\ a.word \in WordIdx
  <2> TAKE a \in RamAddrs
  <2>1. /\ a = [mmio |-> a.mmio, tag |-> a.tag, set |-> a.set, word |-> a.word] /\ a.mmio = FALSE
        /\ a.tag \in LineTags /\ a.set \in Sets /\ a.word \in WordIdx
    BY ZenonT(40) DEF RamAddrs
  <2> QED
    BY <2>1, ZenonT(40) DEF Place, Addrs
<1> QED
  BY <1>1, <1>2, <1>3, <1>4

LEMMA MergeTyped ==
  ASSUME NEW word \in Words, NEW req \in Requests
  PROVE  mergeStore(word, req) \in Words
<1>1. req.data \in [Lanes -> Bytes] /\ req.offset \in 0..3
  BY ReqFacts DEF Words, Lanes
<1>2. alignStoreData(req.data, req.access, req.offset) \in [Lanes -> Bytes]
  <2>1. \A l \in Lanes : l >= req.offset => l - req.offset \in Lanes
    BY <1>1 DEF Lanes
  <2>2. \A l \in Lanes : (IF l >= req.offset /\ l - req.offset < AccessBytes(req.access)
                          THEN req.data[l - req.offset] ELSE 0) \in Bytes
    <3>1. \A l \in Lanes : l >= req.offset => req.data[l - req.offset] \in Bytes
      BY <1>1, <2>1
    <3>2. 0 \in Bytes
      BY DEF Bytes
    <3> QED
      BY <3>1, <3>2, ZenonT(40)
  <2> QED
    BY <1>1, <2>2, ZenonT(40) DEF alignStoreData
<1> QED
  BY <1>2 DEF mergeStore, MergeWord, Words

\* Which word of the RAM a leaving Store changes, and how.
LEMMA StoreEffect ==
  ASSUME IInv, NEW ready \in BOOLEAN, StoreLeaves(ready)
  PROVE  /\ lookup.req \in Requests /\ lookup.valid
         /\ ram' \in [Addrs -> Words]
         /\ \A a \in Addrs : a # lookup.req.addr => ram'[a] = ram[a]
         /\ Reaches(lookup.req) =>
              /\ lookup.req.addr \in Addrs
              /\ ram'[lookup.req.addr] = mergeStore(ram[lookup.req.addr], lookup.req)
              /\ ram' = Memory!Written(ram, lookup.req)
         /\ ~Reaches(lookup.req) => ram' = ram
<1>1. lookup.req \in Requests /\ lookup.valid /\ ram \in [Addrs -> Words]
  BY DEF StoreLeaves, Pending, IInv, LookupOK
<1>2. ram' = IF ~Reaches(lookup.req) THEN ram
             ELSE [ram EXCEPT ![lookup.req.addr] = mergeStore(@, lookup.req)]
  BY ZenonT(40) DEF StoreLeaves, BackingStore, Reaches
<1>3. ASSUME Reaches(lookup.req) PROVE lookup.req.addr \in Addrs
  <2>1. CASE ~lookup.req.addr.mmio
    BY <1>1, <2>1, ReqFacts, PlaceFacts, ZenonT(40)
  <2>2. CASE lookup.req.addr.mmio
    <3>1. PICK w \in 0..2 : lookup.req.addr = MmioAddr(w)
      BY <1>1, <2>2, ReqFacts, ZenonT(40)
    <3>2. lookup.req.addr.word = w
      BY <3>1 DEF MmioAddr
    <3>3. w = 1
      BY <1>3, <2>2, <3>1, <3>2 DEF Reaches, Memory!IsUart, Memory!IsFromHost
    <3> QED
      BY <3>1, <3>3 DEF Addrs
  <2> QED
    BY <2>1, <2>2
<1>4. ASSUME Reaches(lookup.req)
      PROVE  /\ ram' \in [Addrs -> Words]
             /\ ram'[lookup.req.addr] = mergeStore(ram[lookup.req.addr], lookup.req)
  <2>1. mergeStore(ram[lookup.req.addr], lookup.req) \in Words
    BY <1>1, <1>3, <1>4, MergeTyped
  <2> QED
    BY <1>1, <1>2, <1>3, <1>4, <2>1
<1>5. Reaches(lookup.req) => ram' = Memory!Written(ram, lookup.req)
  BY <1>2, ZenonT(40) DEF Memory!Written, mergeStore, MergeWord, Memory!MergeWord, storeByteMask,
     Memory!storeByteMask, alignStoreData, Memory!alignStoreData, AccessBytes, Memory!AccessBytes,
     Lanes, Memory!Lanes
<1>6. \A a \in Addrs : a # lookup.req.addr => ram'[a] = ram[a]
  BY <1>1, <1>2
<1> QED
  BY <1>1, <1>2, <1>3, <1>4, <1>5, <1>6, ZenonT(40)

\* A refill leaves no word of its line stale.
LEMMA RefilledWords ==
  ASSUME IInv, mshr.valid, NEW w \in WordIdx,
         Beat(w) < mshr.count + 1
  PROVE  [lines[mshr.addr.set].data EXCEPT ![mshr.word] = ram[InLine(mshr.addr, mshr.word)]][w]
           = ram[InLine(mshr.addr, w)]
<1>1. /\ mshr.word \in WordIdx /\ mshr.count \in WordIdx /\ mshr.addr.word \in WordIdx
      /\ Beat(mshr.word) = mshr.count /\ mshr.addr.set \in Sets
  BY ZenonT(40) DEF IInv, RefillOK, MshrType, RamAddrs
<1>2. DOMAIN lines[mshr.addr.set].data = WordIdx
  BY <1>1 DEF IInv, LinesOK
<1>3. w # mshr.word => Beat(w) < mshr.count
  BY <1>1, LineAssumption DEF Beat, WordIdx
<1>4. w # mshr.word => lines[mshr.addr.set].data[w] = ram[InLine(mshr.addr, w)]
  BY <1>3, ZenonT(40) DEF IInv, RefillOK
<1> QED
  BY <1>2, <1>4

\* Every readable line stays a copy of memory.
LEMMA LinesStep ==
  ASSUME IInv, NEW ready \in BOOLEAN,
         \/ RefillAsks \/ RefillWaits(ready) \/ RefillBeat(ready) \/ RefillEnds(ready)
         \/ Quiet \/ MissLeaves \/ StoreLeaves(ready) \/ MmioLoad(ready)
  PROVE  ram' \in [Addrs -> Words] /\ LinesOK'
<1> DEFINE Line == [valid : BOOLEAN, tag : LineTags, data : [WordIdx -> Words]]
           Current(line, s) ==
              line.valid => \A w \in WordIdx : line.data[w] = ram'[Place(line.tag, s, w)]
<1>t. /\ lines \in [Sets -> Line] /\ ram \in [Addrs -> Words]
      /\ \A s \in Sets : lines[s].valid =>
            \A w \in WordIdx : lines[s].data[w] = ram[Place(lines[s].tag, s, w)]
  BY DEF IInv, LinesOK
<1> SUFFICES ram' \in [Addrs -> Words] /\ lines' \in [Sets -> Line] /\ \A s \in Sets : Current(lines'[s], s)
  BY ZenonT(40) DEF LinesOK
<1>1. CASE UNCHANGED <<lines, ram>>
  BY <1>1, <1>t
<1>2. CASE RefillBeat(ready) \/ RefillEnds(ready)
  <2> DEFINE s0 == mshr.addr.set
             data == [lines[s0].data EXCEPT ![mshr.word] = ram[InLine(mshr.addr, mshr.word)]]
  <2>1. /\ ram' = ram /\ lines' = [lines EXCEPT ![s0] = BeatLine(@)] /\ mshr.valid
    BY <1>2, ZenonT(40) DEF RefillBeat, RefillEnds
  <2>2. /\ mshr.addr \in RamAddrs /\ s0 \in Sets /\ mshr.addr.tag \in LineTags
        /\ mshr.word \in WordIdx /\ ~lines[s0].valid /\ mshr.addr.word \in WordIdx /\ mshr.count \in WordIdx
    BY <2>1, PlaceFacts, ZenonT(40) DEF IInv, RefillOK, MshrType
  <2>3. ram[InLine(mshr.addr, mshr.word)] \in Words
    BY <2>2, <1>t, PlaceFacts, ZenonT(40) DEF InLine
  <2>4. BeatLine(lines[s0]) = [valid |-> lines[s0].valid \/ lastBeat,
                               tag |-> IF lastBeat THEN mshr.addr.tag ELSE lines[s0].tag,
                               data |-> data]
    BY ZenonT(40) DEF BeatLine
  <2>5. data \in [WordIdx -> Words]
    BY <2>2, <2>3, <1>t
  <2>6. ASSUME lastBeat, NEW w \in WordIdx PROVE data[w] = ram[Place(mshr.addr.tag, s0, w)]
    <3>1. Beat(w) < mshr.count + 1
      BY <2>2, <2>6, LineAssumption DEF lastBeat, Beat, WordIdx
    <3> QED
      BY <2>1, <3>1, RefilledWords, ZenonT(40) DEF InLine
  <2> HIDE DEF data
  <2>7. BeatLine(lines[s0]) \in Line
    <3>1. lines[s0].valid \in BOOLEAN /\ lines[s0].tag \in LineTags
      BY <1>t, <2>2
    <3>2. (lines[s0].valid \/ lastBeat) \in BOOLEAN
      BY ZenonT(40)
    <3>3. (IF lastBeat THEN mshr.addr.tag ELSE lines[s0].tag) \in LineTags
      BY <2>2, <3>1, ZenonT(40)
    <3> QED
      BY <2>4, <2>5, <3>2, <3>3
  <2>8. Current(BeatLine(lines[s0]), s0)
    <3>1. /\ BeatLine(lines[s0]).valid => lastBeat
          /\ lastBeat => BeatLine(lines[s0]).tag = mshr.addr.tag
          /\ BeatLine(lines[s0]).data = data
      <4>1. /\ BeatLine(lines[s0]).valid = (lines[s0].valid \/ lastBeat)
            /\ BeatLine(lines[s0]).tag = (IF lastBeat THEN mshr.addr.tag ELSE lines[s0].tag)
            /\ BeatLine(lines[s0]).data = data
        BY ZenonT(40) DEF BeatLine, data
      <4> QED
        BY <4>1, <2>2, ZenonT(40)
    <3> QED
      BY <2>1, <2>6, <3>1, ZenonT(40)
  <2> HIDE DEF s0, Line
  <2>9. \A s \in Sets : Current(lines[s], s)
    BY <2>1, <1>t, ZenonT(40)
  <2>10. /\ lines' \in [Sets -> Line]
         /\ \A s \in Sets : lines'[s] = IF s = s0 THEN BeatLine(lines[s0]) ELSE lines[s]
    BY <2>1, <2>2, <2>7, <1>t, SMTT(20)
  <2> HIDE DEF Current
  <2> QED
    BY <2>1, <2>8, <2>9, <2>10, <1>t, ZenonT(40)
<1>3. CASE MissLeaves
  <2>1. lookup.req.addr.set \in Sets
    BY <1>3, ReqFacts, PlaceFacts, LookupKinds, ZenonT(40) DEF MissLeaves, IInv, LookupOK, lookupMissAllocate
  <2>2. ram' = ram /\ lines' = [lines EXCEPT ![lookup.req.addr.set] = EvictLine(@)]
    BY <1>3, ZenonT(40) DEF MissLeaves
  <2>3. \A line \in Line : EvictLine(line) \in Line /\ ~EvictLine(line).valid
    BY ZenonT(40) DEF EvictLine
  <2> HIDE DEF Line
  <2>4. /\ lines' \in [Sets -> Line]
        /\ \A s \in Sets : lines'[s] = lines[s] \/ ~lines'[s].valid
    BY <2>1, <2>2, <2>3, <1>t
  <2> QED
    BY <2>2, <2>4, <1>t
<1>4. CASE StoreLeaves(ready)
  <2> DEFINE a == lookup.req.addr
             merged == mergeStore(lookup.data, lookup.req)
  <2>1. /\ lookup.req \in Requests /\ lookup.valid /\ ram' \in [Addrs -> Words]
        /\ \A b \in Addrs : b # a => ram'[b] = ram[b]
    BY <1>4, StoreEffect
  <2>2. \A s \in Sets : lines[s].tag \in LineTags
    BY <1>t
  <2>3. CASE a.mmio
    <3>1. lines' = lines
      BY <1>4, <2>3, ZenonT(40) DEF StoreLeaves
    <3>2. \A s \in Sets, w \in WordIdx : ram'[Place(lines[s].tag, s, w)] = ram[Place(lines[s].tag, s, w)]
      <4> TAKE s \in Sets, w \in WordIdx
      <4>1. Place(lines[s].tag, s, w) \in Addrs /\ \A v : Place(lines[s].tag, s, w) # MmioAddr(v)
        BY <2>2, PlaceFacts
      <4>2. \E v \in 0..2 : a = MmioAddr(v)
        BY <2>1, <2>3, ReqFacts
      <4> QED
        BY <4>1, <4>2, <2>1, ZenonT(40)
    <3> QED
      BY <2>1, <3>1, <3>2, <1>t
  <2>4. CASE ~a.mmio
    <3>1. /\ a \in RamAddrs /\ a = Place(a.tag, a.set, a.word) /\ a.set \in Sets /\ a.word \in WordIdx
          /\ Reaches(lookup.req)
      BY <2>1, <2>4, ReqFacts, PlaceFacts, ZenonT(40) DEF Reaches, Memory!IsUart, Memory!IsFromHost
    <3>2. /\ lookup.lineValid = lines[a.set].valid /\ lookup.arrayTag = lines[a.set].tag
          /\ lookupHit => lookup.data = ram[a]
      BY <2>1, <2>4, ZenonT(40) DEF IInv, LookupOK
    <3>3. lookupHit <=> lines[a.set].valid /\ lines[a.set].tag = a.tag
      BY <3>2, ZenonT(40) DEF lookupHit
    <3>4. \A s \in Sets, w \in WordIdx :
             lines[s].valid /\ ~(s = a.set /\ w = a.word) =>
                ram'[Place(lines[s].tag, s, w)] = ram[Place(lines[s].tag, s, w)]
      <4> TAKE s \in Sets, w \in WordIdx
      <4>1. Place(lines[s].tag, s, w) \in Addrs
        BY <2>2, PlaceFacts
      <4>2. Place(lines[s].tag, s, w) = a => s = a.set /\ w = a.word
        BY <3>1, PlaceFacts
      <4> QED
        BY <4>1, <4>2, <2>1, ZenonT(40)
    <3>5. CASE ~lookupHit
      <4>1. lines' = lines
        BY <1>4, <3>5, ZenonT(40) DEF StoreLeaves
      <4>2. \A s \in Sets, w \in WordIdx :
             lines[s].valid => ram'[Place(lines[s].tag, s, w)] = ram[Place(lines[s].tag, s, w)]
        <5> TAKE s \in Sets, w \in WordIdx
        <5>1. Place(lines[s].tag, s, w) \in Addrs
          BY <2>2, PlaceFacts
        <5>2. Place(lines[s].tag, s, w) = a => s = a.set /\ lines[s].tag = a.tag
          BY <3>1, PlaceFacts
        <5> QED
          BY <5>1, <5>2, <2>1, <3>3, <3>5, ZenonT(40)
      <4> QED
        BY <2>1, <4>1, <4>2, <1>t, ZenonT(40)
    <3>6. CASE lookupHit
      <4>1. lines' = [lines EXCEPT ![a.set].data[a.word] = merged]
        BY <1>4, <2>4, <3>6, ZenonT(40) DEF StoreLeaves
      <4>2. merged = ram'[a] /\ merged \in Words
        <5>1. merged = ram'[a] /\ a \in Addrs
          BY <1>4, <3>1, <3>2, <3>6, StoreEffect, ZenonT(40)
        <5> QED
          BY <5>1, <2>1
      <4>3. \A s \in Sets : /\ lines'[s].valid = lines[s].valid /\ lines'[s].tag = lines[s].tag
                            /\ \A w \in WordIdx : lines'[s].data[w] =
                                  IF s = a.set /\ w = a.word THEN merged ELSE lines[s].data[w]
        <5> HIDE DEF merged, a
        <5> QED
          BY <4>1, <3>1, <1>t
      <4>4. lines' \in [Sets -> Line]
        <5> HIDE DEF merged, a
        <5> QED
          BY <4>1, <4>2, <3>1, <1>t
      <4>5. ASSUME NEW s \in Sets, lines[s].valid, NEW w \in WordIdx
            PROVE  lines'[s].data[w] = ram'[Place(lines[s].tag, s, w)]
        <5>1. CASE s = a.set /\ w = a.word
          BY <5>1, <4>2, <4>3, <3>1, <3>3, <3>6, ZenonT(40)
        <5>2. CASE ~(s = a.set /\ w = a.word)
          BY <5>2, <4>3, <4>5, <3>4, <1>t
        <5> QED
          BY <5>1, <5>2
      <4> HIDE DEF Line
      <4> QED
        BY <2>1, <4>3, <4>4, <4>5
    <3> QED
      BY <3>5, <3>6
  <2> QED
    BY <2>3, <2>4
<1> QED
  BY <1>1, <1>2, <1>3, <1>4, ZenonT(40) DEF RefillAsks, RefillWaits, Quiet, MmioLoad

Event(ready) ==
    \/ RefillAsks \/ RefillWaits(ready) \/ RefillBeat(ready) \/ RefillEnds(ready)
    \/ Quiet \/ MissLeaves \/ StoreLeaves(ready) \/ MmioLoad(ready)
StageStep(ready) ==
    (\E r \in Requests : Takes(r, ready)) \/ Empties(ready) \/ Sends(ready) \/ Waits(ready)

\* The line of a request that the stage takes keeps its valid bit and its tag in
\* that clock, and its word is registered as it is after the clock.
LEMMA TakenLine ==
  ASSUME IInv, NEW ready \in BOOLEAN, Event(ready), NEW r \in Requests, Takes(r, ready), ~r.addr.mmio
  PROVE  LET line == lines[r.addr.set]
             data == IF incomingStoreBypass(r.addr, ready) THEN mergeStore(lookup.data, lookup.req)
                     ELSE line.data[r.addr.word]
         IN  /\ lines'[r.addr.set].valid = line.valid /\ lines'[r.addr.set].tag = line.tag
             /\ line.valid /\ line.tag = r.addr.tag => data = ram'[r.addr]
<1> DEFINE s == r.addr.set
           data == IF incomingStoreBypass(r.addr, ready) THEN mergeStore(lookup.data, lookup.req)
                   ELSE lines[s].data[r.addr.word]
<1>1. /\ r.addr \in RamAddrs /\ r.addr = Place(r.addr.tag, s, r.addr.word) /\ r.addr \in Addrs
      /\ s \in Sets /\ r.addr.word \in WordIdx
  BY ReqFacts, PlaceFacts, ZenonT(40)
<1>2. lines[s].valid /\ lines[s].tag = r.addr.tag => lines[s].data[r.addr.word] = ram[r.addr]
  <2>1. lines[s].valid => lines[s].data[r.addr.word] = ram[Place(lines[s].tag, s, r.addr.word)]
    BY <1>1, ZenonT(40) DEF IInv, LinesOK
  <2> QED
    BY <1>1, <2>1
<1>3. ASSUME ~Pending PROVE ~incomingStoreBypass(r.addr, ready)
  BY <1>3, LookupKinds, ZenonT(40) DEF incomingStoreBypass, arrayStoreWriteEnable, lookupStoreFire, Pending
<1>4. CASE RefillAsks \/ RefillWaits(ready) \/ Quiet \/ MmioLoad(ready)
  <2>1. ~Pending
    BY <1>4, LookupKinds, ZenonT(40) DEF RefillAsks, RefillWaits, Quiet, MmioLoad, IInv, RefillOK, Pending, LoadHit
  <2>2. lines' = lines /\ ram' = ram
    BY <1>4, ZenonT(40) DEF RefillAsks, RefillWaits, Quiet, MmioLoad
  <2> QED
    BY <1>2, <1>3, <2>1, <2>2, ZenonT(40)
<1>5. CASE RefillBeat(ready) \/ RefillEnds(ready)
  <2>1. /\ mshr.valid /\ ~Pending /\ ram' = ram
        /\ lines' = [lines EXCEPT ![mshr.addr.set] = BeatLine(@)]
    BY <1>5, ZenonT(40) DEF RefillBeat, RefillEnds, IInv, RefillOK, Pending
  <2>2. s # mshr.addr.set
    BY <2>1, ZenonT(40) DEF Takes, incomingAllowedDuringRefill
  <2>3. lines'[s] = lines[s]
    BY <2>1, <2>2, <1>1, ZenonT(40) DEF IInv, LinesOK
  <2> QED
    BY <1>2, <1>3, <2>1, <2>3, ZenonT(40)
<1>6. CASE MissLeaves
  BY <1>6, ZenonT(40) DEF MissLeaves, Takes
<1>7. CASE StoreLeaves(ready)
  <2> DEFINE a == lookup.req.addr
             merged == mergeStore(lookup.data, lookup.req)
  <2>1. /\ lookup.req \in Requests /\ lookup.valid
        /\ \A b \in Addrs : b # a => ram'[b] = ram[b]
        /\ Reaches(lookup.req) => ram'[a] = mergeStore(ram[a], lookup.req)
    BY <1>7, StoreEffect, ZenonT(40)
  <2>2. arrayStoreWriteEnable(ready) <=> ~a.mmio /\ lookupHit
    BY <1>7, ZenonT(40) DEF StoreLeaves
  <2>3. /\ ~a.mmio => a \in RamAddrs /\ a.set \in Sets /\ a.word \in WordIdx /\ Reaches(lookup.req)
        /\ ~a.mmio => lookup.lineValid = lines[a.set].valid /\ lookup.arrayTag = lines[a.set].tag
        /\ ~a.mmio /\ lookupHit => lookup.data = ram[a]
    BY <2>1, ReqFacts, PlaceFacts, ZenonT(40) DEF IInv, LookupOK, Reaches, Memory!IsUart, Memory!IsFromHost
  <2>4. lines'[s].valid = lines[s].valid /\ lines'[s].tag = lines[s].tag
    <3>1. CASE ~a.mmio /\ lookupHit
      <4>1. lines' = [lines EXCEPT ![a.set].data[a.word] = merged]
        BY <1>7, <3>1, ZenonT(40) DEF StoreLeaves
      <4>2. lines \in [Sets -> [valid : BOOLEAN, tag : LineTags, data : [WordIdx -> Words]]]
        BY ZenonT(40) DEF IInv, LinesOK
      <4> HIDE DEF merged, a
      <4> QED
        BY <4>1, <4>2, <1>1
    <3>2. CASE ~(~a.mmio /\ lookupHit)
      BY <1>7, <3>2, ZenonT(40) DEF StoreLeaves
    <3> QED
      BY <3>1, <3>2, ZenonT(40)
  <2>5. ASSUME lines[s].valid, lines[s].tag = r.addr.tag PROVE data = ram'[r.addr]
    <3>1. CASE r.addr = a
      <4>1. ~a.mmio /\ lookupHit
        BY <3>1, <2>3, <2>5, ZenonT(40) DEF lookupHit
      <4>2. incomingStoreBypass(r.addr, ready)
        BY <3>1, <4>1, <2>2, ZenonT(40) DEF incomingStoreBypass
      <4> QED
        BY <3>1, <4>1, <4>2, <2>1, <2>3, ZenonT(40)
    <3>2. CASE r.addr # a
      BY <3>2, <1>1, <1>2, <2>1, <2>5, ZenonT(40) DEF incomingStoreBypass
    <3> QED
      BY <3>1, <3>2
  <2> QED
    BY <2>4, <2>5, ZenonT(40)
<1> QED
  BY <1>4, <1>5, <1>6, <1>7, ZenonT(40) DEF Event

LEMMA LookupStep ==
  ASSUME IInv, NEW ready \in BOOLEAN, Event(ready), StageStep(ready)
  PROVE  LookupOK'
<1>t. /\ lookup \in LookupType
      /\ lookup.valid => lookup.req \in Requests
      /\ lines \in [Sets -> [valid : BOOLEAN, tag : LineTags, data : [WordIdx -> Words]]]
  BY ZenonT(40) DEF IInv, LookupOK, LinesOK
<1>z. ZeroWord \in Words
  BY DEF ZeroWord, Words, Bytes
<1>1. ASSUME NEW r \in Requests, Takes(r, ready) PROVE LookupOK'
  <2>r. lookup' = Looked(r, ready) /\ r \in ReqType
    BY <1>1, ReqFacts, ZenonT(40) DEF Takes
  <2>1. CASE r.addr.mmio
    <3>1. lookup' = [valid |-> TRUE, req |-> r, readSent |-> FALSE,
                     lineValid |-> FALSE, arrayTag |-> 0, data |-> ZeroWord]
      BY <2>r, <2>1, ZenonT(40) DEF Looked, EmptyLookup
    <3> QED
      <4>1. lookup' \in LookupType
        BY <3>1, <2>r, <1>z DEF LookupType
      <4>2. lookup'.req = r /\ lookup'.readSent = FALSE
        BY <3>1, ZenonT(40)
      <4> QED
        BY <4>1, <4>2, <2>1, ZenonT(40) DEF LookupOK
  <2>2. CASE ~r.addr.mmio
    <3> DEFINE line == lines[r.addr.set]
               data == IF incomingStoreBypass(r.addr, ready) THEN mergeStore(lookup.data, lookup.req)
                       ELSE line.data[r.addr.word]
    <3>1. lookup' = [valid |-> TRUE, req |-> r, readSent |-> FALSE,
                     lineValid |-> line.valid, arrayTag |-> line.tag, data |-> data]
      BY <2>r, <2>2, ZenonT(40) DEF Looked
    <3>2. /\ lines'[r.addr.set].valid = line.valid /\ lines'[r.addr.set].tag = line.tag
          /\ line.valid /\ line.tag = r.addr.tag => data = ram'[r.addr]
      BY <1>1, <2>2, TakenLine, ZenonT(40)
    <3>3. r.addr.set \in Sets /\ r.addr.word \in WordIdx
      BY <2>2, ReqFacts, PlaceFacts, ZenonT(40)
    <3>4. data \in Words
      <4>1. incomingStoreBypass(r.addr, ready) => lookup.valid
        BY ZenonT(40) DEF incomingStoreBypass, arrayStoreWriteEnable, lookupStoreFire, cached
      <4>2. lookup.data \in Words
        BY <1>t DEF LookupType
      <4>3. line.data[r.addr.word] \in Words
        BY <1>t, <3>3
      <4> QED
        BY <4>1, <4>2, <4>3, <1>t, MergeTyped, ZenonT(40)
    <3>5. line.valid \in BOOLEAN /\ line.tag \in LineTags \cup {0}
      BY <1>t, <3>3
    <3> HIDE DEF line, data
    <3>6. lookup' \in LookupType
      BY <2>r, <3>1, <3>4, <3>5 DEF LookupType
    <3>7. /\ lookup'.req = r /\ ~lookup'.readSent /\ lookup'.lineValid = line.valid
          /\ lookup'.arrayTag = line.tag /\ lookup'.data = data
      BY <3>1
    <3> QED
      BY <3>2, <3>6, <3>7, ZenonT(40) DEF LookupOK, lookupHit
  <2> QED
    BY <2>1, <2>2
<1>2. CASE Empties(ready)
  BY <1>2, <1>z, ZenonT(40) DEF Empties, EmptyLookup, LookupOK, LookupType
<1>3. CASE Sends(ready)
  <2>1. /\ lookup' = [lookup EXCEPT !.readSent = TRUE]
        /\ lookup.valid /\ ~lookup.req.write /\ lookup.req.addr.mmio /\ lookup.req.write = FALSE
    BY <1>3, LookupKinds, ZenonT(40) DEF Sends, mmio
  <2>2. /\ lookup' \in LookupType /\ lookup'.valid = lookup.valid /\ lookup'.req = lookup.req
    BY <2>1, <1>t, ZenonT(40) DEF LookupType
  <2> QED
    BY <2>1, <2>2, <1>t, ZenonT(40) DEF LookupOK, mmio
<1>4. CASE Waits(ready)
  <2>1. lookup' = lookup /\ ~lookupStageAdvance(ready)
    BY <1>4, ZenonT(40) DEF Waits
  <2>2. CASE RefillAsks \/ RefillWaits(ready) \/ Quiet \/ MmioLoad(ready)
    <3>1. lines' = lines /\ ram' = ram
      BY <2>2, ZenonT(40) DEF RefillAsks, RefillWaits, Quiet, MmioLoad
    <3> QED
      BY <2>1, <3>1 DEF IInv, LookupOK, mmio, lookupHit
  <2>3. CASE RefillBeat(ready) \/ RefillEnds(ready)
    <3>1. mshr.valid /\ ram' = ram /\ lines' = [lines EXCEPT ![mshr.addr.set] = BeatLine(@)]
      BY <2>3, ZenonT(40) DEF RefillBeat, RefillEnds
    <3>2. lookup.valid => ~lookup.req.addr.mmio /\ lookup.req.addr.set # mshr.addr.set
      BY <3>1, ZenonT(40) DEF IInv, RefillOK
    <3>3. lookup.valid => lookup.req.addr.set \in Sets
      BY <3>2, <1>t, ReqFacts, PlaceFacts, ZenonT(40)
    <3>4. lookup.valid => lines'[lookup.req.addr.set] = lines[lookup.req.addr.set]
      BY <3>1, <3>2, <3>3, <1>t, ZenonT(40)
    <3> QED
      BY <2>1, <3>1, <3>4, ZenonT(40) DEF IInv, LookupOK, mmio, lookupHit
  <2>4. ~MissLeaves /\ ~StoreLeaves(ready)
    BY <2>1, AdvanceInIdle, ZenonT(40) DEF MissLeaves, StoreLeaves
  <2> QED
    BY <2>2, <2>3, <2>4, ZenonT(40) DEF Event
<1> QED
  BY <1>1, <1>2, <1>3, <1>4, ZenonT(40) DEF StageStep

\* While a refill runs the stage holds only Loads of other sets.
LEMMA BesideRefill ==
  ASSUME IInv, NEW ready \in BOOLEAN, StageStep(ready), mshr.valid
  PROVE  lookup'.valid => /\ ~lookup'.req.write /\ ~lookup'.req.addr.mmio
                          /\ lookup'.req.addr.set # mshr.addr.set
<1>1. ASSUME NEW r \in Requests, Takes(r, ready)
      PROVE  lookup'.req = r /\ ~r.write /\ ~r.addr.mmio /\ r.addr.set # mshr.addr.set
  <2>1. incomingAllowedDuringRefill(r) /\ lookup' = Looked(r, ready)
    BY <1>1, ZenonT(40) DEF Takes
  <2>2. lookup' = [valid |-> TRUE, req |-> r, readSent |-> FALSE, lineValid |-> lines[r.addr.set].valid,
                   arrayTag |-> lines[r.addr.set].tag,
                   data |-> IF incomingStoreBypass(r.addr, ready) THEN mergeStore(lookup.data, lookup.req)
                            ELSE lines[r.addr.set].data[r.addr.word]]
    BY <2>1, ZenonT(40) DEF Looked, incomingAllowedDuringRefill
  <2>3. lookup'.req = r
    BY <2>2
  <2> QED
    BY <2>1, <2>3, ZenonT(40) DEF incomingAllowedDuringRefill
<1>2. Empties(ready) => ~lookup'.valid
  BY DEF Empties, EmptyLookup
<1>3. ~Sends(ready)
  BY LookupKinds, ZenonT(40) DEF Sends, IInv, RefillOK
<1>4. Waits(ready) => lookup' = lookup
  BY ZenonT(40) DEF Waits
<1> QED
  BY <1>1, <1>2, <1>3, <1>4, ZenonT(40) DEF StageStep, IInv, RefillOK

\* A miss leaves an empty stage behind.
LEMMA MissEmpties ==
  ASSUME IInv, NEW ready \in BOOLEAN, StageStep(ready), MissLeaves
  PROVE  Empties(ready) /\ ~lookup'.valid
<1>1. lookupMissAllocate /\ lookupStageAdvance(ready)
  BY AdvanceInIdle, ZenonT(40) DEF MissLeaves
<1>2. Empties(ready)
  BY <1>1, ZenonT(40) DEF StageStep, Takes, Sends, Waits
<1> QED
  BY <1>2, ZenonT(40) DEF Empties, EmptyLookup

LEMMA RefillStep ==
  ASSUME IInv, NEW ready \in BOOLEAN, Event(ready), StageStep(ready)
  PROVE  RefillOK'
<1>t. mshr \in MshrType /\ (mshr.valid <=> mshr.state # "IDLE")
  BY ZenonT(40) DEF IInv, RefillOK
<1>v. mshr.valid =>
          /\ mshr.addr \in RamAddrs /\ ~lines[mshr.addr.set].valid
          /\ Beat(mshr.word) = mshr.count
          /\ mshr.criticalReturned <=> mshr.count > 0
          /\ \A w \in WordIdx : Beat(w) < mshr.count =>
                lines[mshr.addr.set].data[w] = ram[InLine(mshr.addr, w)]
  BY ZenonT(40) DEF IInv, RefillOK
<1>l. lines \in [Sets -> [valid : BOOLEAN, tag : LineTags, data : [WordIdx -> Words]]]
  BY ZenonT(40) DEF IInv, LinesOK
<1>1. CASE RefillAsks
  <2>1. mshr.valid /\ mshr' = [mshr EXCEPT !.state = "RESPONSE"] /\ lines' = lines /\ ram' = ram
    BY <1>1, ZenonT(40) DEF RefillAsks
  <2>2. /\ mshr' \in MshrType /\ mshr'.valid /\ mshr'.state # "IDLE" /\ mshr'.addr = mshr.addr
        /\ mshr'.word = mshr.word /\ mshr'.count = mshr.count
        /\ mshr'.criticalReturned = mshr.criticalReturned
    BY <2>1, <1>t DEF MshrType
  <2> QED
    BY <2>1, <2>2, <1>v, BesideRefill, ZenonT(40) DEF RefillOK, Beat
<1>2. CASE RefillWaits(ready)
  <2>1. mshr.valid /\ mshr' = mshr /\ lines' = lines /\ ram' = ram
    BY <1>2, ZenonT(40) DEF RefillWaits
  <2> QED
    BY <2>1, <1>t, <1>v, BesideRefill, ZenonT(40) DEF RefillOK, Beat
<1>3. CASE RefillBeat(ready)
  <2> DEFINE s0 == mshr.addr.set
             data == [lines[s0].data EXCEPT ![mshr.word] = ram[InLine(mshr.addr, mshr.word)]]
  <2>1. /\ mshr.valid /\ ram' = ram /\ ~lastBeat
        /\ lines' = [lines EXCEPT ![s0] = BeatLine(@)]
        /\ mshr' = [mshr EXCEPT !.criticalReturned = TRUE, !.count = @ + 1, !.word = nextWord,
                                !.state = "RESPONSE"]
    BY <1>3, ZenonT(40) DEF RefillBeat
  <2>2. nextWord \in WordIdx /\ Beat(nextWord) = mshr.count + 1 /\ mshr.count + 1 \in WordIdx
    BY <2>1, NextBeat
  <2>3. /\ mshr' \in MshrType /\ mshr'.valid /\ mshr'.state # "IDLE" /\ mshr'.addr = mshr.addr
        /\ mshr'.word = nextWord /\ mshr'.count = mshr.count + 1 /\ mshr'.criticalReturned
    BY <2>1, <2>2, <1>t, ZenonT(40) DEF MshrType
  <2>4. mshr.count \in Nat /\ mshr.count + 1 > 0 /\ s0 \in Sets
    <3>1. mshr.count \in WordIdx
      BY <1>t, ZenonT(40) DEF MshrType
    <3> QED
      BY <3>1, <2>1, <1>v, PlaceFacts, LineAssumption DEF WordIdx
  <2>5. ~BeatLine(lines[s0]).valid /\ BeatLine(lines[s0]).data = data
    BY <2>1, <1>v, ZenonT(40) DEF BeatLine
  <2>6. lines'[s0] = BeatLine(lines[s0])
    BY <2>1, <2>4, <1>l, ZenonT(40)
  <2>7. ASSUME NEW w \in WordIdx, Beat(w) < mshr.count + 1 PROVE data[w] = ram[InLine(mshr.addr, w)]
    BY <2>1, <2>7, RefilledWords, ZenonT(40)
  <2>8. \A w : Beat(w)' = Beat(w)
    BY <2>3, ZenonT(40) DEF Beat
  <2> HIDE DEF data, s0
  <2>9. /\ ~lines'[mshr'.addr.set].valid
        /\ \A w \in WordIdx : Beat(w)' < mshr'.count => lines'[mshr'.addr.set].data[w] = ram'[InLine(mshr'.addr, w)]
    <3>1. /\ lines'[mshr'.addr.set] = BeatLine(lines[s0]) /\ mshr'.addr = mshr.addr
          /\ mshr'.count = mshr.count + 1 /\ ram' = ram
      BY <2>1, <2>3, <2>6, ZenonT(40) DEF s0
    <3>2. ASSUME NEW w \in WordIdx, Beat(w)' < mshr'.count
          PROVE  lines'[mshr'.addr.set].data[w] = ram'[InLine(mshr'.addr, w)]
      <4>1. data[w] = ram[InLine(mshr.addr, w)]
        BY <2>7, <2>8, <3>1, <3>2, ZenonT(40)
      <4> QED
        BY <2>5, <3>1, <4>1, ZenonT(40)
    <3> QED
      BY <2>5, <3>1, <3>2, ZenonT(40)
  <2>10. Beat(mshr.word)' = mshr'.count
    BY <2>2, <2>3, ZenonT(40) DEF Beat
  <2>11. lookup'.valid => /\ ~lookup'.req.write /\ ~lookup'.req.addr.mmio
                          /\ lookup'.req.addr.set # mshr'.addr.set
    BY <2>1, <2>3, BesideRefill, ZenonT(40)
  <2>12. mshr'.criticalReturned <=> mshr'.count > 0
    BY <2>3, <2>4
  <2>13. mshr'.addr \in RamAddrs
    BY <2>1, <2>3, <1>v, ZenonT(40)
  <2> QED
    BY <2>3, <2>9, <2>10, <2>11, <2>12, <2>13, ZenonT(40) DEF RefillOK
<1>4. CASE RefillEnds(ready)
  <2>1. mshr' = IdleMshr
    BY <1>4, ZenonT(40) DEF RefillEnds
  <2>2. IdleMshr \in MshrType
    <3>1. 0 \in WordIdx /\ 0 \in Lanes /\ "WORD" \in MemAccess
      BY LineAssumption DEF WordIdx, Lanes, MemAccess
    <3> QED
      BY <3>1 DEF IdleMshr, MshrType
  <2>3. ~IdleMshr.valid /\ IdleMshr.state = "IDLE" /\ ~IdleMshr.criticalReturned
    BY ZenonT(40) DEF IdleMshr
  <2> QED
    BY <2>1, <2>2, <2>3, ZenonT(40) DEF RefillOK
<1>5. CASE Quiet \/ StoreLeaves(ready) \/ MmioLoad(ready)
  <2>1. mshr' = mshr /\ ~mshr.valid
    BY <1>5, ZenonT(40) DEF Quiet, StoreLeaves, MmioLoad
  <2> QED
    BY <2>1, ZenonT(40) DEF IInv, RefillOK
<1>6. CASE MissLeaves
  <2>1. /\ mshr' = Allocated /\ ~lookup'.valid
        /\ lines' = [lines EXCEPT ![lookup.req.addr.set] = EvictLine(@)]
    BY <1>6, MissEmpties, ZenonT(40) DEF MissLeaves
  <2>2. /\ lookup.req \in Requests /\ lookup.req.addr \in RamAddrs
        /\ lookup.req.addr.set \in Sets /\ lookup.req.addr.word \in WordIdx
    BY <1>6, ReqFacts, PlaceFacts, LookupKinds, ZenonT(40) DEF MissLeaves, IInv, LookupOK, lookupMissAllocate
  <2>3. lookup.req.access \in MemAccess /\ lookup.req.offset \in Lanes /\ lookup.req.id \in Ids
    BY <2>2, ReqFacts
  <2>4. 0 \in WordIdx
    BY LineAssumption DEF WordIdx
  <2>5. /\ Allocated.valid /\ Allocated.state = "REQUEST" /\ Allocated.addr = lookup.req.addr
        /\ Allocated.word = lookup.req.addr.word /\ Allocated.count = 0
        /\ Allocated.criticalReturned = FALSE
    BY ZenonT(40) DEF Allocated
  <2>6. Allocated \in MshrType
    BY <2>2, <2>3, <2>4 DEF Allocated, MshrType
  <2>7. ~lines'[lookup.req.addr.set].valid
    <3>1. lines'[lookup.req.addr.set] = EvictLine(lines[lookup.req.addr.set])
      BY <2>1, <2>2, <1>l, ZenonT(40)
    <3>2. lines[lookup.req.addr.set] \in [valid : BOOLEAN, tag : LineTags, data : [WordIdx -> Words]]
      BY <2>2, <1>l
    <3> QED
      BY <3>1, <3>2 DEF EvictLine
  <2>8. Beat(mshr.word)' = 0 /\ \A w \in WordIdx : ~(Beat(w)' < 0)
    BY <2>1, <2>2, <2>5, LineAssumption DEF Beat, WordIdx
  <2> QED
    BY <2>1, <2>2, <2>5, <2>6, <2>7, <2>8 DEF RefillOK
<1> QED
  BY <1>1, <1>2, <1>3, <1>4, <1>5, <1>6, ZenonT(40) DEF Event

\* LinearMemory formats and clears words as the cache does.
LEMMA SameFunctions ==
  /\ Memory!ZeroWord = ZeroWord
  /\ \A raw, access, offset :
        Memory!formatLoadData(raw, access, offset) = formatLoadData(raw, access, offset)
<1>1. Memory!ZeroWord = ZeroWord
  BY ZenonT(40) DEF Memory!ZeroWord, ZeroWord, Memory!Lanes, Lanes
<1>2. \A raw, access, offset :
        Memory!formatLoadData(raw, access, offset) = formatLoadData(raw, access, offset)
  BY ZenonT(40) DEF Memory!formatLoadData, formatLoadData, Memory!Lanes, Lanes, Memory!AccessBytes,
     AccessBytes, Memory!SignByte, SignByte
<1> QED
  BY <1>1, <1>2, ZenonT(40)

\* Only an MMIO Load that stays in the stage has its read under way.
LEMMA ReadSentStep ==
  ASSUME NEW ready \in BOOLEAN, StageStep(ready)
  PROVE  /\ Sends(ready) \/ (Waits(ready) /\ lookup' = lookup) \/ ~lookup'.readSent
         /\ Sends(ready) \/ Waits(ready) => ~lookupStageAdvance(ready)
         /\ (\E r \in Requests : Takes(r, ready)) => ~lookup.valid \/ lookupStageAdvance(ready)
         /\ Sends(ready) => mmio(FALSE) /\ lookupMmioRequestFire(ready)
         /\ Waits(ready) => ~(mmio(FALSE) /\ lookupMmioRequestFire(ready))
<1>1. ASSUME NEW r \in Requests, Takes(r, ready) PROVE ~lookup'.readSent
  <2>1. lookup' = Looked(r, ready)
    BY <1>1, ZenonT(40) DEF Takes
  <2>2. Looked(r, ready).readSent = FALSE
    BY ZenonT(40) DEF Looked, EmptyLookup
  <2> QED
    BY <2>1, <2>2
<1>2. ASSUME Empties(ready) PROVE ~lookup'.readSent
  BY <1>2, ZenonT(40) DEF Empties, EmptyLookup
<1> QED
  BY <1>1, <1>2, ZenonT(40) DEF StageStep, Sends, Waits, Takes

LEMMA ReadStep ==
  ASSUME IInv, NEW ready \in BOOLEAN, Event(ready), StageStep(ready)
  PROVE  ReadOK'
<1> DEFINE ReadType == [valid : BOOLEAN, word : Words, access : MemAccess, offset : Lanes]
<1>t. /\ read \in ReadType /\ (read.valid <=> responding \/ lookup.readSent)
      /\ ram \in [Addrs -> Words] /\ (mshr.valid => mshr.addr \in RamAddrs)
      /\ mshr \in MshrType
      /\ responding => /\ read.access = "WORD" /\ read.offset = 0
                       /\ read.word = ram[InLine(mshr.addr, mshr.word)]
  BY ZenonT(40) DEF IInv, ReadOK, RefillOK
<1>w. mshr.word \in WordIdx
  BY <1>t, ZenonT(40) DEF MshrType
<1>r. ASSUME NEW w \in WordIdx, mshr.valid
      PROVE  RefillWord(w) \in ReadType
  <2>0. InLine(mshr.addr, w) \in Addrs
    BY <1>r, <1>t, PlaceFacts DEF InLine
  <2>1. ram[InLine(mshr.addr, w)] \in Words
    BY <2>0, <1>t
  <2>2. "WORD" \in MemAccess /\ 0 \in Lanes
    BY DEF MemAccess, Lanes
  <2> QED
    BY <2>1, <2>2 DEF RefillWord
<1>f. /\ \A w : /\ RefillWord(w).valid /\ RefillWord(w).access = "WORD" /\ RefillWord(w).offset = 0
                /\ RefillWord(w).word = ram[InLine(mshr.addr, w)]
      /\ EmptyRead \in ReadType /\ ~EmptyRead.valid
  <2>1. "WORD" \in MemAccess /\ 0 \in Lanes /\ ZeroWord \in Words
    BY DEF MemAccess, Lanes, ZeroWord, Words, Bytes
  <2>2. EmptyRead \in ReadType /\ ~EmptyRead.valid
    BY <2>1 DEF EmptyRead
  <2> QED
    BY <2>2, ZenonT(40) DEF RefillWord
<1>n. ASSUME mshr.valid PROVE ~lookup.readSent /\ ~lookup'.readSent
  <2>1. ~mmio(FALSE) /\ ~lookup.readSent
    BY <1>n, ZenonT(40) DEF IInv, LookupOK, RefillOK, mmio
  <2> QED
    BY <2>1, ReadSentStep, ZenonT(40)
<1> HIDE DEF ReadType
<1> SUFFICES /\ read' \in ReadType
             /\ read'.valid <=> responding' \/ lookup'.readSent
             /\ responding' => /\ read'.access = "WORD" /\ read'.offset = 0
                               /\ read'.word = ram'[InLine(mshr'.addr, mshr'.word)]
             /\ lookup'.readSent => /\ read'.access = lookup'.req.access
                                    /\ read'.offset = lookup'.req.offset
                                    /\ read'.word \in Memory!ReadWords(lookup.req.addr)'
  BY ZenonT(40) DEF ReadOK, ReadType
<1>1. CASE RefillAsks
  <2>1. /\ mshr.valid /\ mshr' = [mshr EXCEPT !.state = "RESPONSE"] /\ ram' = ram
        /\ read' = RefillWord(mshr.word)
    BY <1>1, ZenonT(40) DEF RefillAsks
  <2>2. mshr'.state = "RESPONSE" /\ mshr'.addr = mshr.addr /\ mshr'.word = mshr.word
    BY <2>1, <1>t DEF MshrType
  <2> QED
    BY <2>1, <2>2, <1>f, <1>n, <1>r, <1>w, ZenonT(40) DEF responding
<1>2. CASE RefillWaits(ready)
  <2>1. mshr.valid /\ mshr' = mshr /\ read' = read /\ ram' = ram
    BY <1>2, ZenonT(40) DEF RefillWaits
  <2> QED
    BY <2>1, <1>t, <1>n, ZenonT(40) DEF responding
<1>3. CASE RefillBeat(ready)
  <2>1. /\ mshr.valid /\ ram' = ram /\ read' = RefillWord(nextWord) /\ ~lastBeat
        /\ mshr' = [mshr EXCEPT !.criticalReturned = TRUE, !.count = @ + 1, !.word = nextWord,
                                !.state = "RESPONSE"]
    BY <1>3, ZenonT(40) DEF RefillBeat
  <2>2. mshr'.state = "RESPONSE" /\ mshr'.addr = mshr.addr /\ mshr'.word = nextWord
    BY <2>1, <1>t, ZenonT(40) DEF MshrType
  <2>3. nextWord \in WordIdx
    BY <2>1, NextBeat
  <2> QED
    BY <2>1, <2>2, <2>3, <1>f, <1>n, <1>r, ZenonT(40) DEF responding
<1>4. CASE RefillEnds(ready)
  <2>1. mshr.valid /\ mshr' = IdleMshr /\ read' = EmptyRead
    BY <1>4, ZenonT(40) DEF RefillEnds
  <2>2. mshr'.state # "RESPONSE"
    BY <2>1 DEF IdleMshr
  <2> QED
    BY <2>1, <2>2, <1>f, <1>n, ZenonT(40) DEF responding
<1>5. CASE Quiet \/ StoreLeaves(ready)
  <2>1. /\ mshr' = mshr /\ ~mshr.valid /\ read' = read
        /\ ~mmio(FALSE) /\ ~lookup.readSent
    BY <1>5, LookupKinds, ZenonT(40) DEF Quiet, StoreLeaves, Pending, LoadHit, IInv, LookupOK
  <2>2. ~responding
    BY <2>1, IdleFacts, ZenonT(40)
  <2>3. ~lookup'.readSent
    BY <2>1, ReadSentStep, ZenonT(40)
  <2> QED
    BY <2>1, <2>2, <2>3, <1>t, ZenonT(40) DEF responding
<1>6. CASE MissLeaves
  <2>1. mshr' = Allocated /\ read' = read /\ ~mshr.valid /\ ~lookup.readSent
    BY <1>6, ZenonT(40) DEF MissLeaves
  <2>2. mshr'.state # "RESPONSE" /\ ~responding
    BY <2>1, IdleFacts, ZenonT(40) DEF Allocated
  <2>3. ~lookup'.readSent
    <3>1. lookup' = EmptyLookup
      BY <1>6, MissEmpties, ZenonT(40) DEF Empties
    <3> QED
      BY <3>1 DEF EmptyLookup
  <2> QED
    BY <2>1, <2>2, <2>3, <1>t, ZenonT(40) DEF responding
<1>7. CASE MmioLoad(ready)
  <2>1. /\ ~mshr.valid /\ mshr' = mshr /\ mmio(FALSE) /\ lookup.valid /\ ~Pending
        /\ lookupMmioRequestFire(ready) <=> ~lookup.readSent
        /\ lookup.req \in Requests
    BY <1>7, LookupKinds, ZenonT(40) DEF MmioLoad, Pending, IInv, LookupOK
  <2>2. ~responding /\ ~responding'
    BY <2>1, IdleFacts, ZenonT(40) DEF responding
  <2>3. lookupStageAdvance(ready) <=> lookup.readSent /\ ready
    BY <2>1, AdvanceInIdle
  <2>g. golden = ram
    BY <2>1, ZenonT(40) DEF IInv, OwedOK
  <2>4. CASE ~lookup.readSent
    <3>1. Sends(ready)
      BY <2>1, <2>3, <2>4, ZenonT(40) DEF StageStep, Takes, Empties, Waits
    <3>2. lookup' = [lookup EXCEPT !.readSent = TRUE] /\ golden' = golden
      BY <3>1, ZenonT(40) DEF Sends, Memory!AcceptNothing
    <3>3. lookup'.req = lookup.req /\ lookup'.readSent
      <4>1. lookup \in LookupType
        BY ZenonT(40) DEF IInv, LookupOK
      <4> QED
        BY <3>2, <4>1, ZenonT(40) DEF LookupType
    <3>4. PICK fromHost \in FromHosts :
            read' = [valid |-> TRUE, access |-> lookup.req.access, offset |-> lookup.req.offset,
                     word |-> IF Memory!IsFromHost(lookup.req.addr) THEN fromHost
                              ELSE IF Memory!IsUart(lookup.req.addr) THEN ZeroWord
                              ELSE ram[lookup.req.addr]]
      BY <1>7, <2>4, ZenonT(40) DEF MmioLoad, BackingLoad
    <3>5. read'.valid /\ read'.access = lookup.req.access /\ read'.offset = lookup.req.offset
      BY <3>4, ZenonT(40)
    <3>6. read'.word = IF Memory!IsFromHost(lookup.req.addr) THEN fromHost
                       ELSE IF Memory!IsUart(lookup.req.addr) THEN ZeroWord
                       ELSE ram[lookup.req.addr]
      BY <3>4, ZenonT(40)
    <3>7. read'.word \in Memory!ReadWords(lookup.req.addr)'
      <4>1. Memory!ReadWords(lookup.req.addr)' = Memory!ReadWords(lookup.req.addr)
        BY <3>2, <3>3, ZenonT(40) DEF Memory!ReadWords, Memory!IsFromHost, Memory!IsUart
      <4> QED
        BY <4>1, <3>6, <2>g, SameFunctions, ZenonT(40) DEF Memory!ReadWords
    <3>8. read' \in ReadType
      <4>1. lookup.req.access \in MemAccess /\ lookup.req.offset \in Lanes
        BY <2>1, ReqFacts
      <4>2. ~Memory!IsFromHost(lookup.req.addr) /\ ~Memory!IsUart(lookup.req.addr) =>
               lookup.req.addr \in Addrs
        <5>1. PICK w \in 0..2 : lookup.req.addr = MmioAddr(w)
          BY <2>1, ReqFacts, LookupKinds, ZenonT(40)
        <5>2. MmioAddr(w).word = w /\ MmioAddr(w).mmio
          BY DEF MmioAddr
        <5> QED
          BY <5>1, <5>2 DEF Memory!IsUart, Memory!IsFromHost, Addrs
      <4>3. ZeroWord \in Words /\ fromHost \in Words
        BY FromHostAssumption DEF ZeroWord, Words, Bytes
      <4>4. read'.word \in Words
        BY <4>2, <4>3, <3>6, <1>t
      <4> QED
        BY <3>4, <3>6, <4>1, <4>4 DEF ReadType
    <3> QED
      BY <2>2, <3>3, <3>5, <3>7, <3>8, ZenonT(40)
  <2>5. CASE lookup.readSent /\ ~ready
    <3>1. Waits(ready)
      BY <2>1, <2>3, <2>5, ZenonT(40) DEF StageStep, Takes, Empties, Sends
    <3>2. lookup' = lookup /\ golden' = golden /\ read' = read
      BY <1>7, <2>5, <3>1, ZenonT(40) DEF Waits, Memory!AcceptNothing, MmioLoad
    <3>3. /\ read.access = lookup.req.access /\ read.offset = lookup.req.offset
          /\ read.word \in Memory!ReadWords(lookup.req.addr)
      BY <2>5, ZenonT(40) DEF IInv, ReadOK
    <3>4. Memory!ReadWords(lookup.req.addr)' = Memory!ReadWords(lookup.req.addr)
      BY <3>2, ZenonT(40) DEF Memory!ReadWords, Memory!IsFromHost, Memory!IsUart
    <3> QED
      BY <2>2, <2>5, <3>2, <3>3, <3>4, <1>t, ZenonT(40)
  <2>6. CASE lookup.readSent /\ ready
    <3>1. read' = EmptyRead
      BY <1>7, <2>6, ZenonT(40) DEF MmioLoad
    <3>2. ~lookup'.readSent
      BY <2>3, <2>6, ReadSentStep, ZenonT(40)
    <3> QED
      BY <2>2, <3>1, <3>2, <1>f, ZenonT(40)
  <2> QED
    BY <2>4, <2>5, <2>6, ZenonT(40)
<1> QED
  BY <1>1, <1>2, <1>3, <1>4, <1>5, <1>6, <1>7, ZenonT(40) DEF Event

--------------------------------------------------------------------------------
(* What the observer is owed.                                                  *)

\* A clock brings the RAM up to every Store accepted before it, and sends the
\* UART byte it owes.
LEMMA EventMemory ==
  ASSUME IInv, NEW ready \in BOOLEAN, Event(ready)
  PROVE  /\ golden = ram' /\ Memory!StillUart = <<>> /\ Memory!Send
         /\ Pending => lookupStageAdvance(ready)
<1>g. /\ golden = IF Pending /\ Reaches(lookup.req) THEN Memory!Written(ram, lookup.req) ELSE ram
      /\ uartOwed = IF Pending /\ Memory!IsUart(lookup.req.addr) THEN <<lookup.req.data[0]>> ELSE <<>>
  BY ZenonT(40) DEF IInv, OwedOK
<1>n. Memory!None = <<>>
  BY ZenonT(40) DEF Memory!None
<1>1. CASE StoreLeaves(ready)
  <2>1. /\ Reaches(lookup.req) => ram' = Memory!Written(ram, lookup.req)
        /\ ~Reaches(lookup.req) => ram' = ram
    BY <1>1, StoreEffect, ZenonT(40)
  <2>2. /\ Pending /\ lookupStageAdvance(ready)
        /\ uart' = IF Memory!IsUart(lookup.req.addr) THEN <<lookup.req.data[0]>> ELSE <<>>
    BY <1>1, ZenonT(40) DEF StoreLeaves, BackingStore
  <2>3. golden = ram'
    BY <1>g, <2>1, <2>2, ZenonT(40)
  <2>4. CASE Memory!IsUart(lookup.req.addr)
    <3>1. uartOwed = <<lookup.req.data[0]>> /\ uart' = <<lookup.req.data[0]>>
      BY <1>g, <2>2, <2>4, ZenonT(40)
    <3>2. uart' # <<>> /\ Tail(uartOwed) = <<>> /\ uartOwed # <<>> /\ Head(uartOwed) = lookup.req.data[0]
      BY <3>1
    <3> QED
      BY <3>1, <3>2, <2>2, <2>3, <1>n, ZenonT(40) DEF Memory!StillUart, Memory!Send
  <2>5. CASE ~Memory!IsUart(lookup.req.addr)
    BY <2>2, <2>3, <2>5, <1>g, <1>n, ZenonT(40) DEF Memory!StillUart, Memory!Send
  <2> QED
    BY <2>4, <2>5
<1>2. CASE ~StoreLeaves(ready)
  <2>1. ram' = ram /\ uart' = <<>>
    BY <1>2, ZenonT(40) DEF Event, RefillAsks, RefillWaits, RefillBeat, RefillEnds, Quiet, MissLeaves, MmioLoad
  <2>2. ~Pending
    BY <1>2, LookupKinds, ZenonT(40) DEF Event, RefillAsks, RefillWaits, RefillBeat, RefillEnds, Quiet,
       MissLeaves, MmioLoad, Pending, IInv, RefillOK, LoadHit, lookupMissAllocate
  <2> QED
    BY <2>1, <2>2, <1>g, <1>n, ZenonT(40) DEF Memory!StillUart, Memory!Send
<1> QED
  BY <1>1, <1>2

LookupAnswers == ~criticalResponseValid /\ (LoadHit \/ (mmio(FALSE) /\ lookup.readSent))

\* Every response is one that is owed: the critical word of the miss, or the
\* answer of the Load in the lookup stage.
LEMMA ResponseIs ==
  ASSUME IInv
  PROVE  /\ criticalResponseValid =>
              /\ mshr.valid /\ ~mshr.criticalReturned /\ responding
              /\ responseOut = <<mshr.id, formatLoadData(ram[mshr.addr], mshr.access, mshr.offset)>>
         /\ LookupAnswers =>
              /\ lookup.valid /\ ~lookup.req.write
              /\ \E v \in Memory!Answers(lookup.req) : responseOut = <<lookup.req.id, v>>
         /\ ~criticalResponseValid /\ ~LookupAnswers => responseOut = <<>>
<1>1. ASSUME criticalResponseValid
      PROVE  /\ mshr.valid /\ ~mshr.criticalReturned /\ responding
             /\ responseOut = <<mshr.id, formatLoadData(ram[mshr.addr], mshr.access, mshr.offset)>>
  <2>1. mshr.valid /\ ~mshr.criticalReturned /\ responding
    BY <1>1, ZenonT(40) DEF criticalResponseValid
  <2>2. /\ mshr.addr \in RamAddrs /\ Beat(mshr.word) = mshr.count
        /\ mshr.criticalReturned <=> mshr.count > 0
        /\ mshr.word \in WordIdx /\ mshr.count \in WordIdx
    BY <2>1, ZenonT(40) DEF IInv, RefillOK, MshrType
  <2>3. mshr.addr.word \in WordIdx /\ mshr.addr = Place(mshr.addr.tag, mshr.addr.set, mshr.addr.word)
    BY <2>2, PlaceFacts, ZenonT(40)
  <2>4. mshr.word = mshr.addr.word
    BY <2>1, <2>2, <2>3, LineAssumption DEF Beat, WordIdx
  <2>5. memoryResponseData = ram[mshr.addr]
    <3>1. InLine(mshr.addr, mshr.word) = mshr.addr
      BY <2>3, <2>4, ZenonT(40) DEF InLine
    <3> QED
      BY <2>1, <3>1, RefillData, ZenonT(40)
  <2> QED
    BY <1>1, <2>1, <2>5, ZenonT(40) DEF responseOut
<1>2. ASSUME LookupAnswers
      PROVE  /\ lookup.valid /\ ~lookup.req.write
             /\ \E v \in Memory!Answers(lookup.req) : responseOut = <<lookup.req.id, v>>
  <2>1. lookup.valid /\ ~lookup.req.write
    BY <1>2, LookupKinds, ZenonT(40) DEF LookupAnswers, LoadHit
  <2>2. CASE mmio(FALSE) /\ lookup.readSent
    <3>1. read.valid /\ lookupMmioResponseValid
      BY <2>2, ZenonT(40) DEF lookupMmioResponseValid, IInv, ReadOK
    <3>2. /\ read.access = lookup.req.access /\ read.offset = lookup.req.offset
          /\ read.word \in Memory!ReadWords(lookup.req.addr)
      BY <2>2, ZenonT(40) DEF IInv, ReadOK
    <3>3. memoryResponseData \in Memory!Answers(lookup.req)
      BY <3>2, SameFunctions, ZenonT(40) DEF memoryResponseData, Memory!Answers
    <3> QED
      BY <1>2, <2>1, <3>1, <3>3, ZenonT(40) DEF responseOut, LookupAnswers
  <2>3. CASE LoadHit
    <3>1. ~lookupMmioResponseValid /\ lookupLoadHitResponseValid
      BY <2>3, LookupKinds, ZenonT(40) DEF LoadHit, lookupMmioResponseValid, lookupLoadHitResponseValid
    <3>2. lookup.data = ram[lookup.req.addr]
      BY <2>3, ZenonT(40) DEF LoadHit, IInv, LookupOK
    <3>3. golden = ram
      BY <2>3, ZenonT(40) DEF LoadHit, IInv, OwedOK, Pending
    <3>4. Memory!ReadWords(lookup.req.addr) = {golden[lookup.req.addr]}
      BY <2>3, ZenonT(40) DEF LoadHit, Memory!ReadWords, Memory!IsFromHost, Memory!IsUart
    <3>5. formatLoadData(lookup.data, lookup.req.access, lookup.req.offset) \in Memory!Answers(lookup.req)
      BY <3>2, <3>3, <3>4, SameFunctions, ZenonT(40) DEF Memory!Answers
    <3> QED
      BY <1>2, <2>1, <3>1, <3>5, ZenonT(40) DEF responseOut, LookupAnswers
  <2> QED
    BY <1>2, <2>2, <2>3, ZenonT(40) DEF LookupAnswers
<1>3. ~criticalResponseValid /\ ~LookupAnswers => responseOut = <<>>
  BY LookupKinds, ZenonT(40) DEF responseOut, LookupAnswers, LoadHit, lookupMmioResponseValid,
     lookupLoadHitResponseValid
<1> QED
  BY <1>1, <1>2, <1>3, ZenonT(40)

\* A Load leaves the stage with its answer, or as a miss.
LEMMA AnswersLeave ==
  ASSUME IInv, NEW ready \in BOOLEAN, lookup.valid, ~lookup.req.write
  PROVE  /\ LookupAnswers /\ ready => lookupStageAdvance(ready) /\ ~lookupMissAllocate
         /\ lookupStageAdvance(ready) => lookupMissAllocate \/ (LookupAnswers /\ ready)
<1>1. CASE mshr.valid
  <2>1. ~lookupMissAllocate /\ ~mmio(FALSE)
    BY <1>1, LookupKinds, ZenonT(40) DEF lookupMissAllocate, IInv, RefillOK
  <2> QED
    BY <1>1, <2>1, AdvanceInRefill, ZenonT(40) DEF LookupAnswers
<1>2. CASE ~mshr.valid
  <2>1. CASE lookup.req.addr.mmio
    BY <1>2, <2>1, AdvanceInIdle, LookupKinds, ZenonT(40) DEF LookupAnswers, LoadHit, lookupMissAllocate
  <2>2. CASE ~lookup.req.addr.mmio
    BY <1>2, <2>2, AdvanceInIdle, LookupKinds, ZenonT(40) DEF LookupAnswers, LoadHit, lookupMissAllocate
  <2> QED
    BY <2>1, <2>2
<1> QED
  BY <1>1, <1>2

\* The response answers something owed, and settles exactly that.
LEMMA AnswerStep ==
  ASSUME IInv, NEW ready \in BOOLEAN, response' = IF ready THEN responseOut ELSE <<>>
  PROVE  /\ Memory!Answer
         /\ Memory!StillOwed = (IF LookupAnswers /\ ready THEN {} ELSE LookupOwes)
                                 \cup (IF criticalResponseValid /\ ready THEN {} ELSE MshrOwes)
<1>o. /\ owed = LookupOwes \cup MshrOwes
      /\ lookup.valid /\ ~lookup.req.write /\ mshr.valid /\ ~mshr.criticalReturned =>
            lookup.req.id # mshr.id
  BY ZenonT(40) DEF IInv, OwedOK
<1>n. Memory!None = <<>>
  BY ZenonT(40) DEF Memory!None
<1>l. \A o \in LookupOwes : /\ lookup.valid /\ ~lookup.req.write
                            /\ o.id = lookup.req.id /\ o.values = Memory!Answers(lookup.req)
  BY SMT DEF LookupOwes
<1>m. \A o \in MshrOwes : /\ mshr.valid /\ ~mshr.criticalReturned /\ o.id = mshr.id
                          /\ o.values = {formatLoadData(ram[mshr.addr], mshr.access, mshr.offset)}
  BY SMT DEF MshrOwes
<1>1. CASE criticalResponseValid /\ ready
  <2>1. /\ mshr.valid /\ ~mshr.criticalReturned /\ ~LookupAnswers
        /\ response' = <<mshr.id, formatLoadData(ram[mshr.addr], mshr.access, mshr.offset)>>
    BY <1>1, ResponseIs, ZenonT(40) DEF LookupAnswers
  <2> DEFINE v == formatLoadData(ram[mshr.addr], mshr.access, mshr.offset)
             o == [id |-> mshr.id, values |-> {v}]
  <2>2. o \in MshrOwes /\ o.id = mshr.id /\ o.values = {v}
    BY <2>1, ZenonT(40) DEF MshrOwes
  <2>8. response' = <<mshr.id, v>>
    BY <2>1, ZenonT(40)
  <2> HIDE DEF v, o
  <2>3. response' = <<mshr.id, v>> /\ response' # <<>> /\ response'[1] = mshr.id
    BY <2>8
  <2>9. o \in owed /\ v \in o.values /\ response' = <<o.id, v>>
    BY <2>2, <2>3, <1>o
  <2>4. Memory!Answer
    BY <2>9, ZenonT(40) DEF Memory!Answer
  <2>5. Memory!StillOwed = {x \in owed : x.id # mshr.id}
    BY <2>3, <1>n, ZenonT(40) DEF Memory!StillOwed
  <2>6. \A x \in LookupOwes : x.id # mshr.id
    BY <1>l, <1>o, <2>1, ZenonT(40)
  <2>7. Memory!StillOwed = LookupOwes
    BY <2>5, <2>6, <1>m, <1>o, ZenonT(40)
  <2> QED
    BY <1>1, <2>1, <2>4, <2>7, ZenonT(40)
<1>2. CASE LookupAnswers /\ ready
  <2>1. ~criticalResponseValid /\ lookup.valid /\ ~lookup.req.write
    BY <1>2, ResponseIs, ZenonT(40) DEF LookupAnswers
  <2>2. PICK v \in Memory!Answers(lookup.req) : response' = <<lookup.req.id, v>>
    BY <1>2, ResponseIs, ZenonT(40)
  <2> DEFINE o == [id |-> lookup.req.id, values |-> Memory!Answers(lookup.req)]
  <2>3. o \in LookupOwes /\ o.id = lookup.req.id /\ o.values = Memory!Answers(lookup.req)
    BY <2>1, ZenonT(40) DEF LookupOwes
  <2> HIDE DEF o
  <2>4. response' # <<>> /\ response'[1] = lookup.req.id
    BY <2>2
  <2>5. Memory!Answer
    BY <2>2, <2>3, <1>o, ZenonT(40) DEF Memory!Answer
  <2>6. Memory!StillOwed = {x \in owed : x.id # lookup.req.id}
    BY <2>4, <1>n, ZenonT(40) DEF Memory!StillOwed
  <2>7. \A x \in MshrOwes : x.id # lookup.req.id
    BY <1>m, <1>o, <2>1, ZenonT(40)
  <2>8. Memory!StillOwed = MshrOwes
    BY <2>6, <2>7, <1>l, <1>o, ZenonT(40)
  <2> QED
    BY <1>2, <2>1, <2>5, <2>8, ZenonT(40)
<1>3. CASE ~(criticalResponseValid /\ ready) /\ ~(LookupAnswers /\ ready)
  <2>1. response' = <<>>
    BY <1>3, ResponseIs, ZenonT(40)
  <2> QED
    BY <1>3, <2>1, <1>n, <1>o, ZenonT(40) DEF Memory!Answer, Memory!StillOwed
<1> QED
  BY <1>1, <1>2, <1>3, ZenonT(40)

\* The miss register owes the same until its critical word is taken.
LEMMA MshrOwesStep ==
  ASSUME IInv, NEW ready \in BOOLEAN, Event(ready), ~MissLeaves
  PROVE  /\ MshrOwes' = IF criticalResponseValid /\ ready THEN {} ELSE MshrOwes
         /\ mshr'.valid /\ ~mshr'.criticalReturned =>
              mshr'.id = mshr.id /\ mshr.valid /\ ~mshr.criticalReturned
<1>t. mshr \in MshrType
  BY ZenonT(40) DEF IInv, RefillOK
<1>1. CASE RefillAsks
  <2>1. mshr.valid /\ mshr' = [mshr EXCEPT !.state = "RESPONSE"] /\ ram' = ram /\ ~responding
    BY <1>1 DEF RefillAsks, responding
  <2>2. /\ mshr'.valid = mshr.valid /\ mshr'.criticalReturned = mshr.criticalReturned
        /\ mshr'.id = mshr.id /\ mshr'.addr = mshr.addr /\ mshr'.access = mshr.access
        /\ mshr'.offset = mshr.offset
    BY <2>1, <1>t, ZenonT(40) DEF MshrType
  <2> QED
    BY <2>1, <2>2, ZenonT(40) DEF MshrOwes, criticalResponseValid
<1>2. CASE RefillWaits(ready) \/ Quiet \/ StoreLeaves(ready) \/ MmioLoad(ready)
  <2>1. mshr' = mshr /\ (mshr.valid => ~ready /\ ram' = ram)
    BY <1>2, ZenonT(40) DEF RefillWaits, Quiet, StoreLeaves, MmioLoad
  <2> QED
    BY <2>1, ZenonT(40) DEF MshrOwes, criticalResponseValid
<1>3. CASE RefillBeat(ready) \/ RefillEnds(ready)
  <2>1. mshr.valid /\ responding /\ (mshr.criticalReturned \/ ready) /\ read.valid
    BY <1>3, ZenonT(40) DEF RefillBeat, RefillEnds, IInv, ReadOK
  <2>2. ~(mshr'.valid /\ ~mshr'.criticalReturned)
    <3>1. CASE RefillBeat(ready)
      <4>1. mshr' = [mshr EXCEPT !.criticalReturned = TRUE, !.count = @ + 1, !.word = nextWord,
                            !.state = "RESPONSE"]
        BY <3>1, ZenonT(40) DEF RefillBeat
      <4>2. mshr'.criticalReturned = TRUE
        BY <4>1, <1>t, ZenonT(40) DEF MshrType
      <4> QED
        BY <4>2
    <3>2. CASE RefillEnds(ready)
      <4>1. mshr' = IdleMshr
        BY <3>2, ZenonT(40) DEF RefillEnds
      <4> QED
        BY <4>1 DEF IdleMshr
    <3> QED
      BY <1>3, <3>1, <3>2
  <2>3. MshrOwes' = {}
    BY <2>2, ZenonT(40) DEF MshrOwes
  <2>4. ~(criticalResponseValid /\ ready) => MshrOwes = {}
    BY <2>1, ZenonT(40) DEF MshrOwes, criticalResponseValid
  <2> QED
    BY <2>2, <2>3, <2>4, ZenonT(40)
<1> QED
  BY <1>1, <1>2, <1>3, ZenonT(40) DEF Event

LEMMA MissIs ==
  ASSUME IInv, NEW ready \in BOOLEAN, Event(ready), ~MissLeaves
  PROVE  ~lookupMissAllocate
<1> SUFFICES ASSUME lookupMissAllocate PROVE FALSE
  BY ZenonT(40)
<1>1. ~mshr.valid /\ lookup.valid /\ ~lookup.req.write /\ ~lookup.req.addr.mmio /\ ~lookupHit
  BY LookupKinds, ZenonT(40) DEF lookupMissAllocate
<1>2. ~LoadHit /\ ~Pending /\ ~mmio(FALSE)
  BY <1>1, LookupKinds, ZenonT(40) DEF LoadHit, Pending
<1> QED
  BY <1>1, <1>2, ZenonT(40) DEF Event, RefillAsks, RefillWaits, RefillBeat, RefillEnds, Quiet, StoreLeaves, MmioLoad

\* When the stage is left for another request, or empties, nothing in it stays owed.
LEMMA LeavesSettled ==
  ASSUME IInv, NEW ready \in BOOLEAN, Event(ready), ~MissLeaves,
         ~lookup.valid \/ lookupStageAdvance(ready),
         response' = IF ready THEN responseOut ELSE <<>>
  PROVE  Memory!StillOwed = MshrOwes'
<1>1. (IF LookupAnswers /\ ready THEN {} ELSE LookupOwes) = {}
  <2>1. CASE lookup.valid /\ ~lookup.req.write
    BY <2>1, MissIs, AnswersLeave, ZenonT(40)
  <2>2. CASE ~(lookup.valid /\ ~lookup.req.write)
    BY <2>2, ZenonT(40) DEF LookupOwes
  <2> QED
    BY <2>1, <2>2, ZenonT(40)
<1> QED
  BY <1>1, AnswerStep, MshrOwesStep, ZenonT(40)

LEMMA TakesOwed ==
  ASSUME IInv, NEW ready \in BOOLEAN, Event(ready), ~MissLeaves, NEW r \in Requests, Takes(r, ready),
         response' = IF ready THEN responseOut ELSE <<>>
  PROVE  OwedOK'
<1>1. /\ Memory!StillOwed = MshrOwes' /\ golden = ram' /\ Memory!StillUart = <<>>
  BY LeavesSettled, EventMemory, ZenonT(40) DEF Takes
<1>2. lookup'.valid /\ lookup'.req = r
  <2>1. lookup' = Looked(r, ready)
    BY ZenonT(40) DEF Takes
  <2>2. CASE r.addr.mmio
    BY <2>1, <2>2, ZenonT(40) DEF Looked, EmptyLookup
  <2>3. CASE ~r.addr.mmio
    <3> DEFINE d == IF incomingStoreBypass(r.addr, ready) THEN mergeStore(lookup.data, lookup.req)
                    ELSE lines[r.addr.set].data[r.addr.word]
    <3>1. lookup' = [valid |-> TRUE, req |-> r, readSent |-> FALSE,
                     lineValid |-> lines[r.addr.set].valid, arrayTag |-> lines[r.addr.set].tag, data |-> d]
      BY <2>1, <2>3, ZenonT(40) DEF Looked
    <3> HIDE DEF d
    <3> QED
      BY <3>1, ZenonT(40)
  <2> QED
    BY <2>2, <2>3
<1>3. CASE r.write
  <2>1. /\ owed' = Memory!StillOwed
        /\ uartOwed' = IF Memory!IsUart(r.addr) THEN Append(Memory!StillUart, r.data[0]) ELSE Memory!StillUart
        /\ golden' = IF Memory!IsUart(r.addr) \/ Memory!IsFromHost(r.addr) THEN golden
                     ELSE Memory!Written(golden, r)
    BY <1>3, ZenonT(40) DEF Takes, Memory!Accept, Memory!AcceptStore, Memory!AcceptLoad
  <2>2. LookupOwes' = {} /\ Pending'
    BY <1>2, <1>3, ZenonT(40) DEF LookupOwes, Pending
  <2>3. owed' = (LookupOwes \cup MshrOwes)'
    BY <2>1, <2>2, <1>1
  <2>4. golden' = IF Pending' /\ Reaches(lookup.req)' THEN Memory!Written(ram, lookup.req)' ELSE ram'
    BY <2>1, <2>2, <1>1, <1>2, ZenonT(40)
    DEF Reaches, Memory!Written, Memory!IsUart, Memory!IsFromHost
  <2>5. Append(<<>>, r.data[0]) = <<r.data[0]>>
    OBVIOUS
  <2>6. uartOwed' = IF Pending' /\ Memory!IsUart(lookup.req.addr)' THEN <<lookup.req.data[0]>>' ELSE <<>>
    BY <2>1, <2>2, <2>5, <1>1, <1>2, ZenonT(40) DEF Memory!IsUart
  <2> QED
    BY <2>3, <2>4, <2>6, <1>2, <1>3, ZenonT(40) DEF OwedOK
<1>4. CASE ~r.write
  <2>1. /\ owed' = Memory!StillOwed \cup {[id |-> r.id, values |-> Memory!Answers(r)]}
        /\ uartOwed' = Memory!StillUart /\ golden' = golden
    BY <1>4, ZenonT(40) DEF Takes, Memory!Accept, Memory!AcceptStore, Memory!AcceptLoad
  <2>2. Memory!Answers(lookup.req)' = Memory!Answers(r)
    BY <2>1, <1>2, ZenonT(40) DEF Memory!Answers, Memory!ReadWords, Memory!IsUart, Memory!IsFromHost
  <2>3. LookupOwes' = {[id |-> r.id, values |-> Memory!Answers(r)]} /\ ~Pending'
    BY <1>2, <1>4, <2>2, ZenonT(40) DEF LookupOwes, Pending
  <2>4. owed' = (LookupOwes \cup MshrOwes)'
    BY <2>1, <2>3, <1>1
  <2>5. mshr'.valid /\ ~mshr'.criticalReturned => r.id # mshr'.id
    <3> SUFFICES ASSUME mshr'.valid, ~mshr'.criticalReturned PROVE r.id # mshr'.id
      BY ZenonT(40)
    <3>1. mshr'.id = mshr.id /\ mshr.valid /\ ~mshr.criticalReturned
      BY MshrOwesStep, ZenonT(40)
    <3> DEFINE o == [id |-> mshr.id,
                     values |-> {formatLoadData(ram[mshr.addr], mshr.access, mshr.offset)}]
    <3>2. o \in owed /\ o.id = mshr.id
      <4>1. owed = LookupOwes \cup MshrOwes
        BY ZenonT(40) DEF IInv, OwedOK
      <4> QED
        BY <3>1, <4>1, ZenonT(40) DEF MshrOwes
    <3> HIDE DEF o
    <3> QED
      BY <1>4, <3>1, <3>2, ZenonT(40) DEF Takes, mayRequest
  <2> QED
    BY <2>1, <2>3, <2>4, <2>5, <1>1, <1>2, ZenonT(40) DEF OwedOK
<1> QED
  BY <1>3, <1>4

LEMMA MissOwed ==
  ASSUME IInv, NEW ready \in BOOLEAN, Event(ready), MissLeaves, Empties(ready), ~lookup'.valid,
         response' = IF ready THEN responseOut ELSE <<>>
  PROVE  OwedOK'
<1>1. /\ ~mshr.valid /\ lookup.valid /\ ~lookup.req.write /\ ~lookup.req.addr.mmio /\ ~lookupHit
      /\ mshr' = Allocated /\ ram' = ram
  BY LookupKinds, ZenonT(40) DEF MissLeaves, lookupMissAllocate
<1>2. ~criticalResponseValid /\ ~LookupAnswers
  BY <1>1, LookupKinds, ZenonT(40) DEF criticalResponseValid, LookupAnswers, LoadHit
<1>3. golden = ram /\ golden' = golden /\ uartOwed' = <<>> /\ owed' = Memory!StillOwed
  BY <1>1, EventMemory, ZenonT(40) DEF Empties, Memory!AcceptNothing
<1>4. owed' = LookupOwes
  <2>1. MshrOwes = {}
    BY <1>1, ZenonT(40) DEF MshrOwes
  <2> QED
    BY <2>1, <1>2, <1>3, AnswerStep
<1>5. Memory!Answers(lookup.req) =
        {formatLoadData(ram[lookup.req.addr], lookup.req.access, lookup.req.offset)}
  <2>1. Memory!ReadWords(lookup.req.addr) = {ram[lookup.req.addr]}
    BY <1>1, <1>3, ZenonT(40) DEF Memory!ReadWords, Memory!IsUart, Memory!IsFromHost
  <2>2. \A w : Memory!formatLoadData(w, lookup.req.access, lookup.req.offset) =
               formatLoadData(w, lookup.req.access, lookup.req.offset)
    BY SameFunctions, ZenonT(40)
  <2> QED
    BY <2>1, <2>2 DEF Memory!Answers
<1>6. /\ mshr'.valid /\ ~mshr'.criticalReturned /\ mshr'.id = lookup.req.id
      /\ mshr'.addr = lookup.req.addr /\ mshr'.access = lookup.req.access
      /\ mshr'.offset = lookup.req.offset
  BY <1>1, ZenonT(40) DEF Allocated
<1>7. MshrOwes' = LookupOwes
  BY <1>1, <1>5, <1>6, ZenonT(40) DEF MshrOwes, LookupOwes
<1>8. LookupOwes' = {} /\ ~Pending'
  BY ZenonT(40) DEF LookupOwes, Pending
<1> QED
  BY <1>1, <1>3, <1>4, <1>7, <1>8 DEF OwedOK

\* What is owed after a clock is what the two stages still hold.
LEMMA OwedStep ==
  ASSUME IInv, NEW ready \in BOOLEAN, Event(ready), StageStep(ready),
         response' = IF ready THEN responseOut ELSE <<>>
  PROVE  OwedOK'
<1>1. CASE MissLeaves
  BY <1>1, MissEmpties, MissOwed, ZenonT(40)
<1>2. CASE ~MissLeaves /\ \E r \in Requests : Takes(r, ready)
  BY <1>2, TakesOwed, ZenonT(40)
<1>3. CASE ~MissLeaves /\ Empties(ready)
  <2>1. /\ Memory!StillOwed = MshrOwes' /\ golden = ram' /\ Memory!StillUart = <<>>
        /\ lookup' = EmptyLookup /\ Memory!AcceptNothing
    BY <1>3, LeavesSettled, EventMemory, ZenonT(40) DEF Empties
  <2>2. ~lookup'.valid
    BY <2>1, ZenonT(40) DEF EmptyLookup
  <2>3. LookupOwes' = {} /\ ~Pending'
    BY <2>2, ZenonT(40) DEF LookupOwes, Pending
  <2>4. owed' = MshrOwes' /\ golden' = ram' /\ uartOwed' = <<>>
    BY <2>1, ZenonT(40) DEF Memory!AcceptNothing
  <2>5. owed' = (LookupOwes \cup MshrOwes)'
    BY <2>3, <2>4
  <2> QED
    BY <2>2, <2>3, <2>4, <2>5, ZenonT(40) DEF OwedOK
<1>4. CASE ~MissLeaves /\ (Sends(ready) \/ Waits(ready))
  <2>1. ~lookupStageAdvance(ready) /\ Memory!AcceptNothing
    BY <1>4, ZenonT(40) DEF Sends, Waits
  <2>2. lookup'.valid = lookup.valid /\ lookup'.req = lookup.req
    <3>1. lookup \in LookupType
      BY ZenonT(40) DEF IInv, LookupOK
    <3>2. CASE Sends(ready)
      BY <3>1, <3>2, ZenonT(40) DEF Sends, LookupType
    <3>3. CASE Waits(ready)
      BY <3>3, ZenonT(40) DEF Waits
    <3> QED
      BY <1>4, <3>2, <3>3, ZenonT(40)
  <2>3. ~Pending /\ golden = ram' /\ Memory!StillUart = <<>>
    BY <2>1, EventMemory, ZenonT(40)
  <2>4. golden' = golden /\ uartOwed' = <<>> /\ owed' = Memory!StillOwed
    BY <2>1, <2>3, ZenonT(40) DEF Memory!AcceptNothing
  <2>5. (IF LookupAnswers /\ ready THEN {} ELSE LookupOwes) = LookupOwes
    <3>1. CASE lookup.valid /\ ~lookup.req.write
      BY <3>1, <2>1, AnswersLeave, ZenonT(40)
    <3>2. CASE ~(lookup.valid /\ ~lookup.req.write)
      BY <3>2, ZenonT(40) DEF LookupOwes
    <3> QED
      BY <3>1, <3>2, ZenonT(40)
  <2>6. owed' = LookupOwes \cup MshrOwes'
    BY <1>4, <2>4, <2>5, AnswerStep, MshrOwesStep, ZenonT(40)
  <2>7. Memory!Answers(lookup.req)' = Memory!Answers(lookup.req)
    BY <2>2, <2>4, ZenonT(40) DEF Memory!Answers, Memory!ReadWords, Memory!IsUart, Memory!IsFromHost
  <2>8. LookupOwes' = LookupOwes /\ ~Pending'
    BY <2>2, <2>3, <2>7, ZenonT(40) DEF LookupOwes, Pending
  <2>9. lookup.valid /\ ~lookup.req.write /\ mshr'.valid /\ ~mshr'.criticalReturned =>
           lookup.req.id # mshr'.id
    BY <1>4, MshrOwesStep, ZenonT(40) DEF IInv, OwedOK
  <2> QED
    BY <2>2, <2>3, <2>4, <2>6, <2>8, <2>9, ZenonT(40) DEF OwedOK
<1> QED
  BY <1>1, <1>2, <1>3, <1>4, ZenonT(40) DEF StageStep

--------------------------------------------------------------------------------
(* The invariant, and the theorems that follow from it.                        *)

\* A clock keeps the invariant, and is a step of the memory it implements.
LEMMA ClockStep ==
  ASSUME IInv, NEW ready \in BOOLEAN, NEW offered \in Offers, Clock(offered, ready)
  PROVE  IInv' /\ Memory!Next
<1>1. Event(ready)
  BY ClockCase, ZenonT(40) DEF Event
<1>2. StageStep(ready)
  BY LookupClock, ZenonT(40) DEF StageStep
<1>3. response' = IF ready THEN responseOut ELSE <<>>
  BY ZenonT(40) DEF Clock, Observe
<1>4. ram' \in [Addrs -> Words] /\ LinesOK'
  BY <1>1, LinesStep, ZenonT(40) DEF Event
<1>5. LookupOK' /\ RefillOK' /\ ReadOK' /\ OwedOK'
  BY <1>1, <1>2, <1>3, LookupStep, RefillStep, ReadStep, OwedStep, ZenonT(40)
<1>6. IInv'
  BY <1>4, <1>5, ZenonT(40) DEF IInv
<1>7. Memory!Answer /\ Memory!Send
  BY <1>1, <1>3, AnswerStep, EventMemory, ZenonT(40)
<1>8. Memory!AcceptNothing \/ \E req \in Requests : Memory!Accept(req)
  BY <1>2, ZenonT(40) DEF StageStep, Takes, Empties, Sends, Waits
<1> QED
  BY <1>6, <1>7, <1>8, ZenonT(40) DEF Memory!Next

LEMMA InitInv ==
  ASSUME Init
  PROVE  IInv
<1>z. ZeroWord \in Words
  BY DEF ZeroWord, Words, Bytes
<1>w. 0 \in WordIdx
  BY LineAssumption DEF WordIdx
<1>1. ram \in [Addrs -> Words] /\ golden = ram
  BY <1>z DEF Init
<1>2. LinesOK
  <2>1. lines \in [Sets -> [valid : {FALSE}, tag : LineTags, data : {[w \in WordIdx |-> ZeroWord]}]]
    BY ZenonT(40) DEF Init
  <2>2. [w \in WordIdx |-> ZeroWord] \in [WordIdx -> Words]
    BY <1>z
  <2>3. \A s \in Sets : /\ lines[s] \in [valid : BOOLEAN, tag : LineTags, data : [WordIdx -> Words]]
                        /\ ~lines[s].valid
    BY <2>1, <2>2, ZenonT(40)
  <2>4. lines \in [Sets -> [valid : BOOLEAN, tag : LineTags, data : [WordIdx -> Words]]]
    BY <2>1, <2>3
  <2> QED
    BY <2>3, <2>4, ZenonT(40) DEF LinesOK
<1>3. lookup = EmptyLookup /\ ~lookup.valid /\ ~lookup.readSent
  BY ZenonT(40) DEF Init, EmptyLookup
<1>4. lookup \in LookupType
  BY <1>3, <1>z DEF LookupType, EmptyLookup, NoRequest, ReqType, MmioAddr, MemAccess, Lanes
<1>5. LookupOK
  BY <1>3, <1>4, ZenonT(40) DEF LookupOK
<1>6. mshr = IdleMshr /\ ~mshr.valid /\ mshr.state = "IDLE" /\ ~mshr.criticalReturned
  BY ZenonT(40) DEF Init, IdleMshr
<1>7. mshr \in MshrType
  BY <1>6, <1>w DEF MshrType, IdleMshr, MmioAddr, MemAccess, Lanes
<1>8. RefillOK
  BY <1>6, <1>7, ZenonT(40) DEF RefillOK
<1>9. read = EmptyRead /\ ~read.valid /\ ~responding
  BY <1>6 DEF Init, EmptyRead, responding
<1>10. read \in [valid : BOOLEAN, word : Words, access : MemAccess, offset : Lanes]
  BY <1>9, <1>z DEF EmptyRead, MemAccess, Lanes
<1>11. ReadOK
  BY <1>3, <1>9, <1>10, ZenonT(40) DEF ReadOK
<1>12. OwedOK
  <2>1. LookupOwes = {} /\ MshrOwes = {} /\ ~Pending
    BY <1>3, <1>6, ZenonT(40) DEF LookupOwes, MshrOwes, Pending
  <2>2. owed = {} /\ uartOwed = <<>>
    BY ZenonT(40) DEF Init
  <2> QED
    BY <1>1, <1>3, <2>1, <2>2 DEF OwedOK
<1> QED
  BY <1>1, <1>2, <1>5, <1>8, <1>11, <1>12, ZenonT(40) DEF IInv

LEMMA StutterInv ==
  ASSUME IInv, UNCHANGED vars
  PROVE  IInv'
<1>1. /\ lines' = lines /\ lookup' = lookup /\ mshr' = mshr /\ ram' = ram /\ read' = read
      /\ golden' = golden /\ owed' = owed /\ uartOwed' = uartOwed
  BY ZenonT(40) DEF vars
<1>2. ram' \in [Addrs -> Words] /\ LinesOK'
  BY <1>1, ZenonT(40) DEF IInv, LinesOK
<1>3. LookupOK'
  BY <1>1, ZenonT(40) DEF IInv, LookupOK, mmio, lookupHit
<1>4. RefillOK'
  BY <1>1, ZenonT(40) DEF IInv, RefillOK, Beat
<1>5. Memory!ReadWords(lookup.req.addr)' = Memory!ReadWords(lookup.req.addr)
  BY <1>1, ZenonT(40) DEF Memory!ReadWords, Memory!IsUart, Memory!IsFromHost
<1>6. ReadOK'
  BY <1>1, <1>5, ZenonT(40) DEF IInv, ReadOK, responding
<1>7. LookupOwes' = LookupOwes /\ MshrOwes' = MshrOwes /\ Pending' = Pending
  BY <1>1, <1>5, ZenonT(40) DEF LookupOwes, MshrOwes, Pending, Memory!Answers
<1>8. OwedOK'
  BY <1>1, <1>7, ZenonT(40) DEF IInv, OwedOK, Reaches, Memory!IsUart, Memory!IsFromHost, Memory!Written
<1> QED
  BY <1>2, <1>3, <1>4, <1>6, <1>8, ZenonT(40) DEF IInv

LEMMA NextInv ==
  ASSUME IInv, [Next]_vars
  PROVE  IInv' /\ [Memory!Next]_<<golden, owed, uartOwed, response, uart>>
<1>1. CASE Next
  <2>1. PICK offered \in Offers, ready \in BOOLEAN : Clock(offered, ready)
    BY <1>1, ZenonT(40) DEF Next, Offers
  <2> QED
    BY <2>1, ClockStep, ZenonT(40)
<1>2. CASE UNCHANGED vars
  BY <1>2, StutterInv, ZenonT(40) DEF vars
<1> QED
  BY <1>1, <1>2

LEMMA InvMeans ==
  ASSUME IInv
  PROVE  CopiesAreCurrent /\ IdleMeansDone
<1>1. TypeOK
  BY ZenonT(40) DEF IInv, LinesOK, LookupOK, RefillOK, ReadOK, MshrType, TypeOK
<1>2. CopiesAreCurrent
  BY <1>1, ZenonT(40) DEF IInv, LinesOK, LookupOK, Place, CopiesAreCurrent, cached
<1>3. ASSUME idle PROVE ram = golden /\ owed = {} /\ uartOwed = <<>>
  <2>1. ~mshr.valid /\ ~lookup.valid
    BY <1>3, ZenonT(40) DEF idle
  <2>2. LookupOwes = {} /\ MshrOwes = {} /\ ~Pending
    BY <2>1, ZenonT(40) DEF LookupOwes, MshrOwes, Pending
  <2>3. owed = LookupOwes \cup MshrOwes
    BY ZenonT(40) DEF IInv, OwedOK
  <2> QED
    BY <2>2, <2>3 DEF IInv, OwedOK
<1> QED
  BY <1>2, <1>3, ZenonT(40) DEF IdleMeansDone

\* Every readable copy of a backing word is the word memory holds now: those of
\* the lines, and the one a lookup registered, however long a refill, a busy
\* read port or a load/store unit that is not ready holds the stage.
THEOREM CopiesStayCurrent == Spec => []CopiesAreCurrent
<1>1. Init => IInv
  BY InitInv
<1>2. IInv /\ [Next]_vars => IInv'
  BY NextInv
<1>3. IInv => CopiesAreCurrent
  BY InvMeans
<1> QED
  BY <1>1, <1>2, <1>3, PTL DEF Spec

\* idle_o is never raised while an accepted Store has not reached the RAM, an
\* accepted Load is unanswered or a UART byte is unsent.
THEOREM IdleIsDone == Spec => []IdleMeansDone
<1>1. Init => IInv
  BY InitInv
<1>2. IInv /\ [Next]_vars => IInv'
  BY NextInv
<1>3. IInv => IdleMeansDone
  BY InvMeans
<1> QED
  BY <1>1, <1>2, <1>3, PTL DEF Spec

\* The cache with its refill, its lookup stage and its backing RAM implements
\* the memory in which a request takes effect when it is accepted.
THEOREM CacheIsLinearMemory == Spec => IsLinearMemory
<1>1. Init => IInv
  BY InitInv
<1>2. IInv /\ [Next]_vars => IInv' /\ [Memory!Next]_<<golden, owed, uartOwed, response, uart>>
  BY NextInv
<1>3. Init => Memory!Init
  BY ZenonT(40) DEF Init, Memory!Init, Memory!None
<1> QED
  BY <1>1, <1>2, <1>3, PTL DEF Spec, IsLinearMemory, Memory!Spec

--------------------------------------------------------------------------------
(* The Store Buffer, which drains into the cache.  Its ring is a bounded FIFO  *)
(* queue, and its query forwards what a drained memory would hold, for every   *)
(* depth and every set of Stores.                                              *)

\* Well-founded relations, for least members only.
WF == INSTANCE WellFoundedInduction

BufferInv == BufferTypeOK /\ PointersAgree

\* Reset leaves an empty ring with both pointers on slot 0.
LEMMA BufferInitInv == BufferInit => BufferInv
  BY DepthAssumption DEF BufferInit, BufferInv, BufferTypeOK, PointersAgree, Slots, FromHead

\* Every clock keeps the pointers and the count describing one ring segment.
LEMMA BufferNextInv == BufferInv /\ [BufferNext]_bufferVars => BufferInv'
<1> SUFFICES ASSUME BufferInv, [BufferNext]_bufferVars PROVE BufferInv'
  OBVIOUS
<1> USE DepthAssumption DEF BufferInv, BufferTypeOK, PointersAgree, Slots, FromHead, incrementPtr
<1>1. CASE DrainOnly
  BY <1>1 DEF DrainOnly, Drain, drainFire, empty
<1>2. ASSUME NEW store \in Stores, EnqueueOnly(store) PROVE BufferInv'
  BY <1>2 DEF EnqueueOnly, Enqueue, enqueueReady, drainFire, full
<1>3. ASSUME NEW store \in Stores, EnqueueAndDrain(store) PROVE BufferInv'
  BY <1>3 DEF EnqueueAndDrain, Enqueue, Drain, drainFire, empty
<1>4. CASE UNCHANGED bufferVars
  BY <1>4 DEF bufferVars
<1> QED
  BY <1>1, <1>2, <1>3, <1>4 DEF BufferNext

\* The ring stays one segment in every behaviour.
LEMMA BufferAlwaysInv == BufferSpec => []BufferInv
  BY BufferInitInv, BufferNextInv, PTL DEF BufferSpec

\* No pointer leaves the arrays and the count never exceeds DEPTH, for every DEPTH.
THEOREM PointersStayInRange == BufferSpec => []BufferTypeOK
<1>1. BufferInv => BufferTypeOK
  BY DEF BufferInv
<1> QED
  BY <1>1, BufferAlwaysInv, PTL

\* The counters agree in every reachable state, for every Depth and not only the
\* one TLC checks.
THEOREM PointersAlwaysAgree == BufferSpec => []PointersAgree
<1>1. BufferInv => PointersAgree
  BY DEF BufferInv
<1> QED
  BY <1>1, BufferAlwaysInv, PTL

\* The queue a ring holds, as an operator on its three components.
At(h, i) == IF h + i >= Depth THEN h + i - Depth ELSE h + i
Ring(e, h, c) == [i \in 1..c |-> e[At(h, i - 1)]]

\* The ring read from its head is a sequence of Stores as long as its count.
LEMMA RingSeq ==
  ASSUME NEW e \in [Slots -> Stores], NEW h \in Slots, NEW c \in 0..Depth
  PROVE  /\ Ring(e, h, c) \in Seq(Stores)
         /\ Len(Ring(e, h, c)) = c
         /\ \A i \in 1..c : Ring(e, h, c)[i] = e[At(h, i - 1)]
<1>1. \A i \in 1..c : At(h, i - 1) \in Slots
  BY DepthAssumption DEF Slots, At
<1>2. \A i \in 1..c : e[At(h, i - 1)] \in Stores
  BY <1>1
<1>3. c \in Nat
  BY DepthAssumption
<1> QED
  BY <1>2, <1>3 DEF Ring

\* The refinement mapping before and after a step.
LEMMA ContentsIsRing ==
  /\ Contents = Ring(entries, headPtr, entryCount)
  /\ Contents' = Ring(entries', headPtr', entryCount')
BY DEF Contents, Ring, FromHead, At

\* A clock of the ring is a clock of the queue: the head leaves and the new
\* Store is appended behind every Store already accepted.
LEMMA StepIsQueueStep ==
  ASSUME BufferInv, BufferInv', BufferNext
  PROVE  Queue!Clock
<1> USE DepthAssumption
<1> DEFINE q == Ring(entries, headPtr, entryCount)
           r == Ring(entries', headPtr', entryCount')
<1>t. /\ entries \in [Slots -> Stores] /\ headPtr \in Slots /\ entryCount \in 0..Depth
      /\ entries' \in [Slots -> Stores] /\ headPtr' \in Slots /\ entryCount' \in 0..Depth
      /\ tailPtr \in Slots
      /\ tailPtr = IF entryCount = Depth THEN headPtr ELSE At(headPtr, entryCount)
  BY DEF BufferInv, BufferTypeOK, PointersAgree, FromHead, At
<1>c. /\ q \in Seq(Stores) /\ Len(q) = entryCount
      /\ \A i \in 1..entryCount : q[i] = entries[At(headPtr, i - 1)]
  BY <1>t, RingSeq
<1>d. /\ r \in Seq(Stores) /\ Len(r) = entryCount'
      /\ \A i \in 1..entryCount' : r[i] = entries'[At(headPtr', i - 1)]
  BY <1>t, RingSeq, ZenonT(40)
<1>e. \A i \in 1..(entryCount - 1) : q[i + 1] = entries[At(headPtr, i)]
  <2> TAKE i \in 1..(entryCount - 1)
  <2>1. i + 1 \in 1..entryCount /\ (i + 1) - 1 = i
    BY <1>t
  <2> QED
    BY <1>c, <2>1
<1> SUFFICES \E drained \in {0, 1}, accepted \in {<< >>} \cup {<<s>> : s \in Stores} :
                /\ drained <= Len(q)
                /\ Len(q) - drained + Len(accepted) <= Depth
                /\ r = SubSeq(q, drained + 1, Len(q)) \o accepted
  BY ContentsIsRing, ZenonT(40) DEF Queue!Clock
<1> HIDE DEF q, r
<1>1. CASE DrainOnly
  <2>1. /\ entries' = entries /\ entryCount' = entryCount - 1 /\ entryCount > 0
        /\ headPtr' = IF headPtr = Depth - 1 THEN 0 ELSE headPtr + 1
    BY <1>1, <1>t DEF DrainOnly, Drain, drainFire, empty, incrementPtr
  <2>2. \A i \in 1..(entryCount - 1) : At(headPtr', i - 1) = At(headPtr, i)
    BY <2>1, <1>t DEF At, Slots
  <2>3. \A i \in 1..(entryCount - 1) : r[i] = q[i + 1]
    BY <2>1, <2>2, <1>d, <1>e, <1>t, ZenonT(40)
  <2>4. r = SubSeq(q, 2, Len(q)) \o << >>
    BY <2>1, <2>3, <1>c, <1>d, <1>t
  <2>5. 1 <= Len(q) /\ Len(q) - 1 + Len(<< >>) <= Depth
    BY <2>1, <1>c, <1>t
  <2> WITNESS 1 \in {0, 1}, << >> \in {<< >>} \cup {<<s>> : s \in Stores}
  <2> QED
    BY <2>4, <2>5
<1>2. ASSUME NEW store \in Stores, EnqueueOnly(store)
      PROVE  r = SubSeq(q, 1, Len(q)) \o <<store>> /\ Len(q) + 1 <= Depth
  <2>1. /\ entries' = [entries EXCEPT ![tailPtr] = store]
        /\ entryCount' = entryCount + 1 /\ entryCount < Depth /\ headPtr' = headPtr
    BY <1>2, <1>t DEF EnqueueOnly, Enqueue, enqueueReady, drainFire, full
  <2>2. \A i \in 1..entryCount : At(headPtr, i - 1) # tailPtr /\ At(headPtr, i - 1) \in Slots
    BY <2>1, <1>t DEF At, Slots
  <2>3. ASSUME NEW i \in 1..entryCount PROVE r[i] = q[i]
    <3>1. i \in 1..entryCount'
      BY <2>1, <1>t
    <3>2. r[i] = entries'[At(headPtr, i - 1)]
      BY <2>1, <3>1, <1>d, ZenonT(40)
    <3>3. entries'[At(headPtr, i - 1)] = entries[At(headPtr, i - 1)]
      BY <2>1, <2>2, <1>t, ZenonT(40)
    <3> QED
      BY <3>2, <3>3, <1>c, ZenonT(40)
  <2>4. r[entryCount + 1] = store
    BY <2>1, <1>d, <1>t DEF At
  <2> QED
    BY <2>1, <2>3, <2>4, <1>c, <1>d, <1>t
<1>3. ASSUME NEW store \in Stores, EnqueueAndDrain(store)
      PROVE  r = SubSeq(q, 2, Len(q)) \o <<store>> /\ Len(q) >= 1
  <2>1. /\ entries' = [entries EXCEPT ![tailPtr] = store]
        /\ entryCount' = entryCount /\ entryCount > 0
        /\ headPtr' = IF headPtr = Depth - 1 THEN 0 ELSE headPtr + 1
    BY <1>3, <1>t DEF EnqueueAndDrain, Enqueue, Drain, drainFire, empty, incrementPtr
  <2>2. \A i \in 1..(entryCount - 1) :
          /\ At(headPtr', i - 1) = At(headPtr, i)
          /\ At(headPtr, i) # tailPtr /\ At(headPtr, i) \in Slots
    BY <2>1, <1>t DEF At, Slots
  <2>3. \A i \in 1..(entryCount - 1) : r[i] = q[i + 1]
    BY <2>1, <2>2, <1>d, <1>e, <1>t
  <2>4. At(headPtr', entryCount - 1) = tailPtr
    BY <2>1, <1>t DEF At, Slots
  <2>5. r[entryCount] = store
    BY <2>1, <2>4, <1>d, <1>t
  <2> QED
    BY <2>1, <2>3, <2>5, <1>c, <1>d, <1>t
<1>4. ASSUME NEW store \in Stores, EnqueueOnly(store)
      PROVE  \E drained \in {0, 1}, accepted \in {<< >>} \cup {<<s>> : s \in Stores} :
                /\ drained <= Len(q)
                /\ Len(q) - drained + Len(accepted) <= Depth
                /\ r = SubSeq(q, drained + 1, Len(q)) \o accepted
  <2> WITNESS 0 \in {0, 1}, <<store>> \in {<< >>} \cup {<<s>> : s \in Stores}
  <2> QED
    BY <1>2, <1>4, <1>c, <1>t
<1>5. ASSUME NEW store \in Stores, EnqueueAndDrain(store)
      PROVE  \E drained \in {0, 1}, accepted \in {<< >>} \cup {<<s>> : s \in Stores} :
                /\ drained <= Len(q)
                /\ Len(q) - drained + Len(accepted) <= Depth
                /\ r = SubSeq(q, drained + 1, Len(q)) \o accepted
  <2> WITNESS 1 \in {0, 1}, <<store>> \in {<< >>} \cup {<<s>> : s \in Stores}
  <2> QED
    BY <1>3, <1>5, <1>c, <1>t
<1> QED
  BY <1>1, <1>4, <1>5, ZenonT(40) DEF BufferNext

\* Spec implies the abstract queue: no accepted Store is lost, duplicated,
\* overwritten or drained out of order, for every Depth.
THEOREM BufferIsFifo == BufferSpec => IsFifo
<1>1. BufferInit => Queue!Init
  BY DEF BufferInit, Queue!Init, Contents
<1>2. BufferInv /\ BufferInv' /\ [BufferNext]_bufferVars => [Queue!Clock]_Contents
  <2>1. UNCHANGED bufferVars => Contents' = Contents
    BY DEF bufferVars, Contents, FromHead
  <2> QED
    BY <2>1, StepIsQueueStep
<1> QED
  BY <1>1, <1>2, BufferInitInv, BufferNextInv, PTL DEF BufferSpec, IsFifo, Queue!Spec

--------------------------------------------------------------------------------
(* The query.  Both sides are compared with the youngest Store that writes a   *)
(* lane: the query finds it scanning back from the tail, the drain leaves its   *)
(* byte behind.                                                                *)

\* Every set of numbers that is not empty has a least member.
LEMMA LeastMember ==
  ASSUME NEW S, S \subseteq Nat, S # {}
  PROVE  \E p \in S : \A q \in S : p <= q
<1>1. PICK p \in S : \A q \in S : ~(<<q, p>> \in WF!OpToRel(<, Nat))
  BY WF!NatLessThanWellFounded, WF!WFMin, ZenonT(40)
<1>2. \A a, b \in Nat : b < a => <<b, a>> \in WF!OpToRel(<, Nat)
  BY DEF WF!OpToRel
<1>3. \A q \in S : q \in Nat
  OBVIOUS
<1>4. \A q \in S : ~(q < p)
  BY <1>1, <1>2, <1>3, ZenonT(40)
<1> QED
  BY <1>3, <1>4

\* Induction up to a bound, for a set of numbers.
LEMMA InductionTo ==
  ASSUME NEW m \in Nat, NEW S, 0 \in S, \A n \in 1..m : n - 1 \in S => n \in S
  PROVE  \A n \in 0..m : n \in S
<1> SUFFICES ASSUME NEW n \in 0..m, n \notin S PROVE FALSE
  OBVIOUS
<1> DEFINE Bad == {k \in 0..m : k \notin S}
<1>1. Bad \subseteq Nat /\ Bad # {}
  OBVIOUS
<1>2. PICK p \in Bad : \A q \in Bad : p <= q
  BY <1>1, LeastMember, ZenonT(40)
<1>3. p \in 1..m
  BY <1>2
<1>4. p - 1 \in 0..m /\ ~(p <= p - 1)
  BY <1>3
<1>5. p - 1 \in S
  BY <1>2, <1>4
<1> QED
  BY <1>2, <1>3, <1>5

Blank == [mask |-> {}, data |-> ZeroWord]

\* The recursive Drains is a function and unfolds one Store at a time.
LEMMA DrainsUnfolds ==
  ASSUME NEW w, entryCount \in Nat
  PROVE  Drains(w) = [n \in 0..entryCount |->
                        IF n = 0 THEN Blank ELSE Written(Drains(w)[n - 1], Contents[n], w)]
<1> DEFINE Step(f, n) == IF n = 0 THEN Blank ELSE Written(f[n - 1], Contents[n], w)
           Has == {m \in 0..entryCount : \E f : f = [n \in 0..m |-> Step(f, n)]}
<1>1. 0 \in Has
  <2> DEFINE f == [n \in 0..0 |-> Blank]
  <2>1. f = [n \in 0..0 |-> Step(f, n)]
    OBVIOUS
  <2>2. \E h : h = [n \in 0..0 |-> Step(h, n)]
    <3> HIDE DEF f, Step
    <3> QED
      BY <2>1, ZenonT(40)
  <2>3. 0 \in 0..entryCount
    OBVIOUS
  <2> QED
    BY <2>2, <2>3, ZenonT(40)
<1>2. ASSUME NEW m \in 1..entryCount, m - 1 \in Has PROVE m \in Has
  <2>1. PICK f : f = [n \in 0..(m - 1) |-> Step(f, n)]
    BY <1>2
  <2> DEFINE g == [n \in 0..m |-> IF n = m THEN Written(f[m - 1], Contents[m], w) ELSE f[n]]
  <2>2. ASSUME NEW n \in 0..m PROVE g[n] = Step(g, n)
    <3> HIDE DEF Blank
    <3>1. CASE n = m
      <4>1. n # 0 /\ m - 1 \in 0..m /\ m - 1 # m
        BY <3>1
      <4> QED
        BY <4>1, <3>1
    <3>2. CASE n # m
      <4>1. n \in 0..(m - 1) /\ g[n] = f[n]
        BY <3>2
      <4>2. f[n] = Step(f, n)
        BY <2>1, <4>1
      <4>3. n # 0 => n - 1 \in 0..m /\ n - 1 # m /\ g[n - 1] = f[n - 1]
        BY <4>1
      <4> QED
        BY <4>1, <4>2, <4>3
    <3> QED
      BY <3>1, <3>2
  <2>3. g = [n \in 0..m |-> Step(g, n)]
    BY <2>2
  <2>4. \E h : h = [n \in 0..m |-> Step(h, n)]
    <3> HIDE DEF g, Step
    <3> QED
      BY <2>3, ZenonT(40)
  <2>5. m \in 0..entryCount
    OBVIOUS
  <2> QED
    BY <2>4, <2>5, ZenonT(40)
<1>3. entryCount \in Has
  <2> HIDE DEF Has
  <2> QED
    BY <1>1, <1>2, InductionTo
<1>4. PICK f : f = [n \in 0..entryCount |-> Step(f, n)]
  BY <1>3
<1> QED
  BY <1>4, ZenonT(40) DEF Drains, Blank

Mask(k) == storeByteMask(Contents[k].access, Contents[k].offset)
Byte(k) == alignStoreData(Contents[k].data, Contents[k].access, Contents[k].offset)
WritesLane(w, k, l) == Contents[k].word = w /\ l \in Mask(k)

\* The lanes the n oldest Stores write, each with the byte of its last writer.
YoungestWins(w, n) ==
    /\ \A l : l \in Drains(w)[n].mask <=> \E k \in 1..n : WritesLane(w, k, l)
    /\ Drains(w)[n].data = [l \in Lanes |-> Drains(w)[n].data[l]]
    /\ \A l \in Lanes, k \in 1..n :
          WritesLane(w, k, l) /\ (\A j \in (k + 1)..n : ~WritesLane(w, j, l)) =>
            Drains(w)[n].data[l] = Byte(k)[l]

\* Draining leaves in every lane the byte of the youngest Store that writes it.
LEMMA DrainsYoungest ==
  ASSUME NEW w, entryCount \in Nat
  PROVE  \A n \in 0..entryCount : YoungestWins(w, n)
<1> DEFINE S == {n \in 0..entryCount : YoungestWins(w, n)}
<1>d. /\ Drains(w)[0] = Blank
      /\ \A n \in 1..entryCount : Drains(w)[n] = Written(Drains(w)[n - 1], Contents[n], w)
  <2> HIDE DEF Blank
  <2>1. 0 \in 0..entryCount /\ \A n \in 1..entryCount : n \in 0..entryCount /\ n # 0
    OBVIOUS
  <2> QED
    BY <2>1, DrainsUnfolds
<1>1. 0 \in S
  <2>1. YoungestWins(w, 0)
    BY <1>d DEF YoungestWins, Blank, ZeroWord
  <2> QED
    BY <2>1
<1>2. ASSUME NEW n \in 1..entryCount, n - 1 \in S PROVE n \in S
  <2> DEFINE d == Drains(w)[n - 1]
             e == Drains(w)[n]
  <2>1. YoungestWins(w, n - 1)
    BY <1>2
  <2>2. \A k : k \in 1..n <=> k \in 1..(n - 1) \/ k = n
    OBVIOUS
  <2>3. ASSUME Contents[n].word # w PROVE YoungestWins(w, n)
    <3>1. e = d
      BY <1>d, <2>3, ZenonT(40) DEF Written
    <3>2. \A l : ~WritesLane(w, n, l)
      BY <2>3 DEF WritesLane
    <3>3. \A l : l \in e.mask <=> \E k \in 1..n : WritesLane(w, k, l)
      BY <3>1, <3>2, <2>1, <2>2, ZenonT(40) DEF YoungestWins
    <3>4. ASSUME NEW l \in Lanes, NEW k \in 1..n, WritesLane(w, k, l),
                 \A j \in (k + 1)..n : ~WritesLane(w, j, l)
          PROVE  e.data[l] = Byte(k)[l]
      <4>1. k \in 1..(n - 1)
        BY <3>2, <3>4, <2>2
      <4>2. \A j \in (k + 1)..(n - 1) : ~WritesLane(w, j, l)
        BY <3>4
      <4> QED
        BY <3>1, <3>4, <4>1, <4>2, <2>1 DEF YoungestWins
    <3>5. e.data = [l \in Lanes |-> e.data[l]]
      BY <3>1, <2>1 DEF YoungestWins
    <3> QED
      BY <3>3, <3>4, <3>5, ZenonT(40) DEF YoungestWins
  <2>4. ASSUME Contents[n].word = w PROVE YoungestWins(w, n)
    <3>1. /\ e.mask = d.mask \cup Mask(n)
          /\ e.data = [l \in Lanes |-> IF l \in Mask(n) THEN Byte(n)[l] ELSE d.data[l]]
      <4>1. e = [mask |-> d.mask \cup Mask(n), data |-> MergeWord(d.data, Mask(n), Byte(n))]
        BY <1>d, <2>4, ZenonT(40) DEF Written, Mask, Byte
      <4>2. e.mask = d.mask \cup Mask(n) /\ e.data = MergeWord(d.data, Mask(n), Byte(n))
        <5> HIDE DEF d, e
        <5> QED
          BY <4>1, ZenonT(40)
      <4> QED
        BY <4>2, ZenonT(40) DEF MergeWord
    <3>2. \A l : WritesLane(w, n, l) <=> l \in Mask(n)
      BY <2>4 DEF WritesLane
    <3>3. \A l : l \in e.mask <=> \E k \in 1..n : WritesLane(w, k, l)
      BY <3>1, <3>2, <2>1, <2>2, ZenonT(40) DEF YoungestWins
    <3>4. ASSUME NEW l \in Lanes, NEW k \in 1..n, WritesLane(w, k, l),
                 \A j \in (k + 1)..n : ~WritesLane(w, j, l)
          PROVE  e.data[l] = Byte(k)[l]
      <4>1. CASE k = n
        BY <4>1, <3>1, <3>2, <3>4
      <4>2. CASE k # n
        <5>1. k \in 1..(n - 1) /\ n \in (k + 1)..n
          BY <4>2
        <5>2. \A j \in (k + 1)..(n - 1) : ~WritesLane(w, j, l)
          BY <3>4
        <5>3. l \notin Mask(n)
          BY <5>1, <3>2, <3>4
        <5>4. d.data[l] = Byte(k)[l]
          BY <5>1, <5>2, <3>4, <2>1 DEF YoungestWins
        <5> QED
          BY <5>3, <5>4, <3>1
      <4> QED
        BY <4>1, <4>2
    <3>5. e.data = [l \in Lanes |-> e.data[l]]
      <4> HIDE DEF d, e
      <4> QED
        BY <3>1
    <3> QED
      BY <3>3, <3>4, <3>5, ZenonT(40) DEF YoungestWins
  <2> QED
    BY <2>3, <2>4
<1>3. \A n \in 0..entryCount : n \in S
  <2> HIDE DEF S
  <2> QED
    BY <1>1, <1>2, InductionTo
<1> QED
  BY <1>3

\* The query looks at the Stores from the youngest to the oldest.
LEMMA SlotIsContents ==
  ASSUME BufferInv, NEW o \in Nat, o < entryCount
  PROVE  /\ entryCount - o \in 1..entryCount
         /\ entries[SlotAt(o)] = Contents[entryCount - o]
<1> USE DepthAssumption
<1>1. /\ headPtr \in Int /\ 0 <= headPtr /\ headPtr < Depth
      /\ entryCount \in Int /\ entryCount <= Depth /\ Depth \in Int
      /\ tailPtr = IF entryCount = Depth THEN headPtr
                   ELSE IF headPtr + entryCount >= Depth THEN headPtr + entryCount - Depth
                   ELSE headPtr + entryCount
  BY DEF BufferInv, BufferTypeOK, PointersAgree, FromHead, Slots
<1>2. entryCount - o \in 1..entryCount
  BY <1>1
<1>3. SlotAt(o) = FromHead(entryCount - o - 1)
  BY <1>1 DEF SlotAt, subtractPtr, FromHead
<1> QED
  BY <1>2, <1>3 DEF Contents

\* The lanes the query takes from the Store o places from the youngest.
LEMMA SlotMaskIs ==
  ASSUME BufferInv, NEW o \in Nat, NEW ld, NEW l
  PROVE  l \in SlotMask(o, ld) <=>
           /\ o < entryCount /\ WritesLane(ld.word, entryCount - o, l)
           /\ l \in loadByteMask(ld.access, ld.offset)
<1>1. CASE o < entryCount
  BY <1>1, SlotIsContents, ZenonT(40) DEF SlotMask, WritesLane, Mask
<1>2. CASE ~(o < entryCount)
  BY <1>2, ZenonT(40) DEF SlotMask
<1> QED
  BY <1>1, <1>2

\* The covered lanes are the lanes of the Load that some buffered Store writes.
LEMMA CoveredIs ==
  ASSUME BufferInv, NEW ld, NEW l
  PROVE  l \in queryCoveredMask(ld) <=>
           /\ \E k \in 1..entryCount : WritesLane(ld.word, k, l)
           /\ l \in loadByteMask(ld.access, ld.offset)
<1>t. entryCount \in Nat /\ entryCount <= Depth /\ Depth \in Nat
  BY DepthAssumption DEF BufferInv, BufferTypeOK
<1>1. l \in queryCoveredMask(ld) <=> \E o \in Slots : l \in SlotMask(o, ld)
  BY ZenonT(40) DEF queryCoveredMask
<1>2. \A o \in Slots : o \in Nat /\ (o < entryCount => entryCount - o \in 1..entryCount)
  BY <1>t DEF Slots
<1>3. \A k \in 1..entryCount :
        entryCount - k \in Slots /\ entryCount - k < entryCount /\ entryCount - (entryCount - k) = k
  BY <1>t DEF Slots
<1>4. ASSUME NEW o \in Slots, l \in SlotMask(o, ld)
      PROVE  /\ \E k \in 1..entryCount : WritesLane(ld.word, k, l)
             /\ l \in loadByteMask(ld.access, ld.offset)
  BY <1>2, <1>4, SlotMaskIs, ZenonT(40)
<1>5. ASSUME NEW k \in 1..entryCount, WritesLane(ld.word, k, l),
             l \in loadByteMask(ld.access, ld.offset)
      PROVE  l \in SlotMask(entryCount - k, ld)
  BY <1>2, <1>3, <1>5, SlotMaskIs, ZenonT(40)
<1> QED
  BY <1>1, <1>3, <1>4, <1>5, ZenonT(40)

\* A covered lane of the raw data has the byte of its youngest writer.
LEMMA RawIsYoungest ==
  ASSUME BufferInv, NEW ld, NEW l \in Lanes, l \in queryCoveredMask(ld)
  PROVE  \E k \in 1..entryCount :
           /\ WritesLane(ld.word, k, l)
           /\ \A j \in (k + 1)..entryCount : ~WritesLane(ld.word, j, l)
           /\ queryRawData(ld)[l] = Byte(k)[l]
<1> DEFINE writers == {o \in Slots : l \in SlotMask(o, ld)}
           first == CHOOSE o \in writers : \A p \in writers : o <= p
<1>t. entryCount \in Nat /\ entryCount <= Depth /\ Depth \in Nat
  BY DepthAssumption DEF BufferInv, BufferTypeOK
<1>1. writers \subseteq Nat /\ writers # {}
  <2>1. writers # {}
    BY ZenonT(40) DEF queryCoveredMask
  <2> QED
    BY <2>1, <1>t DEF Slots
<1>2. first \in writers /\ \A p \in writers : first <= p
  <2> HIDE DEF writers
  <2>1. \E o \in writers : \A p \in writers : o <= p
    BY <1>1, LeastMember, ZenonT(40)
  <2> QED
    BY <2>1, ZenonT(40)
<1> DEFINE k == entryCount - first
<1>3. first \in Nat /\ first \in Slots /\ l \in SlotMask(first, ld)
  <2> HIDE DEF first
  <2> QED
    BY <1>1, <1>2
<1>4. first < entryCount /\ WritesLane(ld.word, k, l)
  <2> HIDE DEF first
  <2> QED
    BY <1>3, SlotMaskIs, ZenonT(40)
<1>5. l \in loadByteMask(ld.access, ld.offset)
  BY CoveredIs, ZenonT(40)
<1>6. k \in 1..entryCount /\ entries[SlotAt(first)] = Contents[k]
  <2> HIDE DEF first
  <2> QED
    BY <1>3, <1>4, SlotIsContents, ZenonT(40)
<1>7. ASSUME NEW j \in (k + 1)..entryCount, WritesLane(ld.word, j, l) PROVE FALSE
  <2> HIDE DEF first
  <2>1. /\ entryCount - j \in Slots /\ entryCount - j \in Nat /\ entryCount - j < entryCount
        /\ entryCount - (entryCount - j) = j /\ entryCount - j < first
    BY <1>3, <1>4, <1>t DEF Slots
  <2>2. l \in SlotMask(entryCount - j, ld)
    BY <2>1, <1>5, <1>7, SlotMaskIs, ZenonT(40)
  <2>3. first <= entryCount - j
    <3> HIDE DEF k
    <3> QED
      BY <2>1, <2>2, <1>2, ZenonT(40)
  <2> QED
    BY <2>1, <2>3, <1>3, <1>t
<1>8. queryRawData(ld)[l] = Byte(k)[l]
  <2>1. queryRawData(ld)[l] =
          IF writers = {} THEN 0
          ELSE alignStoreData(entries[SlotAt(first)].data, entries[SlotAt(first)].access,
                              entries[SlotAt(first)].offset)[l]
    BY ZenonT(40) DEF queryRawData
  <2> HIDE DEF first, writers, k
  <2> QED
    BY <2>1, <1>1, <1>6, ZenonT(40) DEF Byte
<1> QED
  <2> HIDE DEF first, k
  <2> QED
    BY <1>4, <1>6, <1>7, <1>8, ZenonT(40)

\* Formatting an aligned Load looks only at the lanes of its mask.
LEMMA FormatAgrees ==
  ASSUME NEW ld \in Loads, NEW a, NEW b,
         (\A l \in Lanes : a[l] = b[l]) => a = b,
         \A l \in loadByteMask(ld.access, ld.offset) : a[l] = b[l]
  PROVE  formatLoadData(a, ld.access, ld.offset) = formatLoadData(b, ld.access, ld.offset)
<1> DEFINE o == ld.offset
           size == AccessBytes(ld.access)
           shifted(raw) == [l \in Lanes |-> IF l + o \in Lanes THEN raw[l + o] ELSE 0]
           fill(raw) == IF ld.access \in {"BYTE", "HALF"} THEN SignByte(shifted(raw)[size - 1]) ELSE 0
<1>1. ld.access \in MemAccess /\ o \in 0..3 /\ o % size = 0
  BY DEF Loads, Aligned, Lanes
<1>2. \/ size = 4 /\ loadByteMask(ld.access, o) = Lanes
      \/ size = 2 /\ o \in {0, 2} /\ loadByteMask(ld.access, o) = {o, o + 1}
      \/ size = 1 /\ loadByteMask(ld.access, o) = {o}
  <2>1. CASE ld.access = "WORD"
    <3>1. size = 4
      BY <2>1 DEF AccessBytes
    <3>2. o = 0
      BY <1>1, <3>1
    <3> QED
      BY <2>1, <3>1, <3>2 DEF loadByteMask
  <2>2. CASE ld.access \in {"HALF", "HALF_U"}
    <3>1. size = 2
      BY <2>2 DEF AccessBytes
    <3>2. o \in {0, 2}
      BY <1>1, <3>1
    <3> QED
      BY <2>2, <3>1, <3>2 DEF loadByteMask
  <2>3. CASE ld.access \in {"BYTE", "BYTE_U"}
    BY <2>3 DEF AccessBytes, loadByteMask
  <2> QED
    BY <1>1, <2>1, <2>2, <2>3 DEF MemAccess
<1>3. CASE loadByteMask(ld.access, o) = Lanes
  <2>1. a = b
    BY <1>3
  <2> QED
    BY <2>1
<1>4. CASE size \in {1, 2} /\ \A l \in 0..(size - 1) : l + o \in Lanes /\ a[l + o] = b[l + o]
  <2>1. \A l \in 0..(size - 1) : l \in Lanes /\ shifted(a)[l] = shifted(b)[l]
    BY <1>4 DEF Lanes
  <2>2. size - 1 \in 0..(size - 1) /\ size # 4
    BY <1>4
  <2>3. fill(a) = fill(b)
    BY <2>1, <2>2
  <2>4. \A l \in Lanes : (IF l < size THEN shifted(a)[l] ELSE fill(a))
                          = (IF l < size THEN shifted(b)[l] ELSE fill(b))
    <3> HIDE DEF fill, shifted
    <3>1. \A l \in Lanes : l < size => l \in 0..(size - 1)
      BY <1>4 DEF Lanes
    <3> QED
      BY <2>1, <2>3, <3>1, ZenonT(40)
  <2>5. /\ formatLoadData(a, ld.access, o) = [l \in Lanes |-> IF l < size THEN shifted(a)[l] ELSE fill(a)]
        /\ formatLoadData(b, ld.access, o) = [l \in Lanes |-> IF l < size THEN shifted(b)[l] ELSE fill(b)]
    BY <2>2, ZenonT(40) DEF formatLoadData
  <2> HIDE DEF fill, shifted, size
  <2> QED
    BY <2>4, <2>5, ZenonT(40)
<1> QED
  <2>1. CASE size = 2 /\ o \in {0, 2} /\ loadByteMask(ld.access, o) = {o, o + 1}
    <3>1. \A l \in 0..(size - 1) : l + o \in {o, o + 1} /\ l + o \in Lanes
      BY <2>1 DEF Lanes
    <3> QED
      BY <2>1, <3>1, <1>4
  <2>2. CASE size = 1 /\ loadByteMask(ld.access, o) = {o}
    <3>1. \A l \in 0..(size - 1) : l + o = o /\ l + o \in Lanes
      BY <2>2, <1>1 DEF Lanes
    <3> QED
      BY <2>2, <3>1, <1>4
  <2> QED
    BY <1>2, <1>3, <2>1, <2>2

\* The lanes of an access are lanes of the word.
LEMMA MaskInLanes ==
  ASSUME NEW ld \in Loads
  PROVE  loadByteMask(ld.access, ld.offset) \subseteq Lanes
BY DEF Loads, loadByteMask, Lanes, MemAccess

\* In any state with sound pointers the query answers as the drained memory.
LEMMA QueryIsRight ==
  BufferInv => QueryMatchesDrainedMemory
<1> SUFFICES ASSUME BufferInv, NEW ld \in Loads
             PROVE  LET pending == Drains(ld.word)[entryCount]
                        mask == loadByteMask(ld.access, ld.offset)
                    IN  /\ queryConflict(ld) <=> (pending.mask \cap mask # {})
                        /\ queryForwardValid(ld) =>
                              /\ mask \subseteq pending.mask
                              /\ queryForwardData(ld)
                                    = formatLoadData(pending.data, ld.access, ld.offset)
  BY DEF QueryMatchesDrainedMemory
<1> DEFINE pending == Drains(ld.word)[entryCount]
           mask == loadByteMask(ld.access, ld.offset)
<1>1. YoungestWins(ld.word, entryCount)
  <2>1. entryCount \in Nat /\ entryCount \in 0..entryCount
    BY DepthAssumption DEF BufferInv, BufferTypeOK
  <2> QED
    BY <2>1, DrainsYoungest, ZenonT(40)
<1>2. \A l : l \in queryCoveredMask(ld) <=> l \in pending.mask /\ l \in mask
  BY <1>1, CoveredIs, ZenonT(40) DEF YoungestWins
<1>3. queryConflict(ld) <=> (pending.mask \cap mask # {})
  BY <1>2, ZenonT(40) DEF queryConflict
<1>4. ASSUME queryForwardValid(ld)
      PROVE  /\ mask \subseteq pending.mask
             /\ queryForwardData(ld) = formatLoadData(pending.data, ld.access, ld.offset)
  <2>1. mask \subseteq queryCoveredMask(ld)
    BY <1>4, ZenonT(40) DEF queryForwardValid
  <2>2. ASSUME NEW l \in mask PROVE queryRawData(ld)[l] = pending.data[l]
    <3>1. l \in Lanes /\ l \in queryCoveredMask(ld)
      BY <2>1, <2>2, MaskInLanes, ZenonT(40)
    <3> QED
      BY <3>1, <1>1, RawIsYoungest, ZenonT(40) DEF YoungestWins
  <2>3. pending.data = [l \in Lanes |-> pending.data[l]]
    BY <1>1, ZenonT(40) DEF YoungestWins
  <2>4. (\A l \in Lanes : queryRawData(ld)[l] = pending.data[l]) => queryRawData(ld) = pending.data
    <3> DEFINE writers(l) == {o \in Slots : l \in SlotMask(o, ld)}
               first(l) == CHOOSE o \in writers(l) : \A p \in writers(l) : o <= p
               source(l) == entries[SlotAt(first(l))]
               byte(l) == IF writers(l) = {} THEN 0
                          ELSE alignStoreData(source(l).data, source(l).access, source(l).offset)[l]
    <3>1. queryRawData(ld) = [l \in Lanes |-> byte(l)]
      BY ZenonT(40) DEF queryRawData
    <3> HIDE DEF byte, pending
    <3> QED
      BY <3>1, <2>3, ZenonT(40)
  <2>5. formatLoadData(queryRawData(ld), ld.access, ld.offset)
          = formatLoadData(pending.data, ld.access, ld.offset)
    BY <2>2, <2>4, FormatAgrees, ZenonT(40)
  <2> QED
    BY <2>1, <2>5, <1>2, ZenonT(40) DEF queryForwardData
<1> QED
  BY <1>3, <1>4, ZenonT(40)

\* Store-to-Load forwarding is right for every depth and every mix of Stores: the
\* query reports a conflict exactly when a buffered Store writes a byte of the
\* Load, and the data it forwards is what the Load reads once the buffer drained.
THEOREM ForwardingIsRight == BufferSpec => []QueryMatchesDrainedMemory
  BY QueryIsRight, BufferAlwaysInv, PTL
=============================================================================
