-------------------------- MODULE InstructionCache --------------------------
(***************************************************************************)
(* The blocking, direct-mapped instruction cache and the one-cycle backing *)
(* memory below it (rtl/memory/icache/InstructionCache.sv, insnMem.sv), as *)
(* operators on a record ic of the registers of the cache.                 *)
(*                                                                         *)
(* Addresses count words.  An instruction word is named by the address of  *)
(* backing memory it was read from, so a word in the wrong place shows.    *)
(* The second address of a request is always the one after the first, and  *)
(* lookupTag, refillIndex and refillTag are always written together with   *)
(* the address they are cut from, so none of them is a field of its own.   *)
(***************************************************************************)
EXTENDS Naturals

CONSTANTS WordsPerLine, SetNum, AddrNum

ASSUME CacheAssumption ==
    /\ WordsPerLine \in Nat \ {0} /\ SetNum \in Nat \ {0, 1}
    /\ AddrNum \in Nat \ {0} /\ AddrNum % (WordsPerLine * SetNum) = 0

Addrs == 0 .. AddrNum - 1
NoWord == AddrNum
Beats == 0 .. WordsPerLine - 1
Sets == 0 .. SetNum - 1
Lanes == {0, 1}

lineBase(address) == address - (address % WordsPerLine)

lineIndex(address) == (address \div WordsPerLine) % SetNum

lineTag(address) == address \div (WordsPerLine * SetNum)

laneAddress(pc, lane) == (pc + lane) % AddrNum

EmptyLine == [beat \in Beats |-> NoWord]
UnreadSet == [valid |-> FALSE, tag |-> 0, line |-> EmptyLine]

InitCache ==
    [array |-> [set \in Sets |-> UnreadSet],
     lookupValid |-> FALSE, initialLookupPending |-> FALSE, lookupPc |-> 0,
     read |-> [lane \in Lanes |-> UnreadSet],
     refillActive |-> FALSE, retryPending |-> FALSE, refillLineBase |-> 0,
     secondRefillPending |-> FALSE, secondRefillLineBase |-> 0,
     refillIssuedCount |-> 0, refillReceivedCount |-> 0,
     refillBuffer |-> EmptyLine,
     response |-> NoWord]

-----------------------------------------------------------------------------
(* Combinational outputs. *)

lookupHit(ic, lane) ==
    /\ ic.lookupValid /\ ic.read[lane].valid
    /\ ic.read[lane].tag = lineTag(laneAddress(ic.lookupPc, lane))

responseValid(ic, flush) == ~flush /\ \A lane \in Lanes : lookupHit(ic, lane)

responseInsn(ic, lane) ==
    ic.read[lane].line[laneAddress(ic.lookupPc, lane) % WordsPerLine]

\* The first lookup of an accepted pair, the only one classified as hit or miss.
initialLookup(ic, flush) == ~flush /\ ic.initialLookupPending /\ ic.lookupValid

requestReady(ic, flush, responseReady) ==
    \/ flush
    \/ /\ ~ic.refillActive /\ ~ic.retryPending
       /\ ic.lookupValid => responseValid(ic, flush) /\ responseReady

backingRequestValid(ic, flush) ==
    ~flush /\ ic.refillActive /\ ic.refillIssuedCount < WordsPerLine

backingRequestAddr(ic) == (ic.refillLineBase + ic.refillIssuedCount) % AddrNum

lastBeat(ic) == ic.refillReceivedCount = WordsPerLine - 1

arrayWriteEnable(ic, flush) ==
    ~flush /\ ic.refillActive /\ ic.response # NoWord /\ lastBeat(ic)

refillBufferWithResponse(ic) ==
    [ic.refillBuffer EXCEPT ![ic.refillReceivedCount] = ic.response]

-----------------------------------------------------------------------------
(* One clock edge. *)

CountsReset(ic) ==
    [ic EXCEPT !.refillIssuedCount = 0, !.refillReceivedCount = 0,
               !.refillBuffer = EmptyLine]

Flushed(ic) ==
    [CountsReset(ic) EXCEPT
        !.lookupValid = FALSE, !.initialLookupPending = FALSE,
        !.refillActive = FALSE, !.retryPending = FALSE,
        !.secondRefillPending = FALSE]

\* Fault: the line is installed under the tag of the second, pending line.
InstalledArray_SecondTag(ic) ==
    [ic.array EXCEPT ![lineIndex(ic.refillLineBase)] =
        [valid |-> TRUE,
         tag |-> lineTag(IF ic.secondRefillPending
                         THEN ic.secondRefillLineBase ELSE ic.refillLineBase),
         line |-> refillBufferWithResponse(ic)]]

InstalledArray(ic) ==
    [ic.array EXCEPT ![lineIndex(ic.refillLineBase)] =
        [valid |-> TRUE, tag |-> lineTag(ic.refillLineBase),
         line |-> refillBufferWithResponse(ic)]]

Issued(ic) ==
    [ic EXCEPT !.refillIssuedCount =
        @ + (IF backingRequestValid(ic, FALSE) THEN 1 ELSE 0)]

\* Fault: the end of a refill does not start the retry of the lookup.
NextRefill_NoRetry(ic) ==
    IF ic.secondRefillPending
    THEN [ic EXCEPT !.refillLineBase = ic.secondRefillLineBase,
                    !.secondRefillPending = FALSE]
    ELSE [ic EXCEPT !.refillActive = FALSE]

NextRefill(ic) ==
    IF ic.secondRefillPending
    THEN [ic EXCEPT !.refillLineBase = ic.secondRefillLineBase,
                    !.secondRefillPending = FALSE]
    ELSE [ic EXCEPT !.refillActive = FALSE, !.retryPending = TRUE]

Refilled(ic) ==
    IF ic.response = NoWord THEN Issued(ic)
    ELSE IF lastBeat(ic)
    THEN [NextRefill(CountsReset(ic)) EXCEPT !.array = InstalledArray(ic)]
    ELSE [Issued(ic) EXCEPT !.refillBuffer = refillBufferWithResponse(ic),
                            !.refillReceivedCount = @ + 1]

ArrayRead(ic, pc) == [lane \in Lanes |-> ic.array[lineIndex(laneAddress(pc, lane))]]

Retried(ic) ==
    [ic EXCEPT !.retryPending = FALSE, !.lookupValid = TRUE,
               !.read = ArrayRead(ic, ic.lookupPc)]

\* A miss refills the line of the first address, then the line of the second
\* when it is another one and missed as well.
Missed(ic) ==
    LET base(lane) == lineBase(laneAddress(ic.lookupPc, lane))
        first == IF lookupHit(ic, 0) THEN 1 ELSE 0
    IN [CountsReset(ic) EXCEPT
            !.lookupValid = FALSE, !.refillActive = TRUE,
            !.refillLineBase = base(first),
            !.secondRefillPending =
                first = 0 /\ base(1) # base(0) /\ ~lookupHit(ic, 1),
            !.secondRefillLineBase = IF first = 0 THEN base(1) ELSE 0]

\* Fault: only a consumed response ends the first classification of a lookup.
Classified_WhenConsumed(ic, responseReady) ==
    [ic EXCEPT !.initialLookupPending =
        @ /\ ~(responseValid(ic, FALSE) /\ responseReady)]

Classified(ic, responseReady) ==
    [ic EXCEPT !.initialLookupPending = @ /\ ~initialLookup(ic, FALSE)]

LookedUp(ic, responseReady) ==
    LET seen == Classified(ic, responseReady)
    IN IF responseValid(ic, FALSE)
       THEN [seen EXCEPT !.lookupValid = ~responseReady]
       ELSE [Missed(ic) EXCEPT !.initialLookupPending = seen.initialLookupPending]

\* The registers before a request of this clock is added to them.
Stepped(ic, flush, responseReady) ==
    IF flush THEN Flushed(ic)
    ELSE IF ic.refillActive THEN Refilled(ic)
    ELSE IF ic.retryPending THEN Retried(ic)
    ELSE IF ic.lookupValid THEN LookedUp(ic, responseReady)
    ELSE ic

\* A new request starts its two array reads, or leaves them to the retry when
\* the arrays are being written.
Launched(ic, before, flush, pc) ==
    LET writing == arrayWriteEnable(before, flush)
    IN [ic EXCEPT
            !.lookupValid = ~writing, !.initialLookupPending = TRUE,
            !.retryPending = @ \/ writing, !.lookupPc = pc,
            !.read = IF writing THEN @ ELSE ArrayRead(before, pc)]

\* insnMem: a request is answered in the next clock.
BackingResponse(ic, flush) ==
    IF backingRequestValid(ic, flush) THEN backingRequestAddr(ic) ELSE NoWord

ClockCache(ic, flush, responseReady, requestFire, pc) ==
    LET stepped == Stepped(ic, flush, responseReady)
        launched == IF requestFire THEN Launched(stepped, ic, flush, pc) ELSE stepped
    IN [launched EXCEPT !.response = BackingResponse(ic, flush)]
=============================================================================
