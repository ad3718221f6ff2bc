------------------------------- MODULE Fetch -------------------------------
(***************************************************************************)
(* The fetch path: the fetch controller (rtl/frontend/fetch/               *)
(* DualIfStages.sv), the instruction cache below it, the request context   *)
(* of the branch predictor beside it (BranchPredictionUnit.sv) and the     *)
(* fetch queue after it, wired as in rtl/core/topCPU.sv.                   *)
(*                                                                         *)
(* One action is one rising clock edge.  The back end is an environment    *)
(* that takes up to two packets per clock and may redirect fetch in any    *)
(* clock; the predictor's direction and target are any choice for a word   *)
(* that is a branch or jump.                                               *)
(***************************************************************************)
EXTENDS InstructionCache, FetchQueue

CONSTANTS ControlWords,  \* words that are branches or jumps
          Targets,       \* addresses a prediction or a redirect may name
          ResetPc

ASSUME FetchAssumption ==
    /\ ControlWords \subseteq Addrs /\ ZeroWords \subseteq Addrs \ ControlWords
    /\ Targets \subseteq Addrs /\ ResetPc \in Addrs

VARIABLES
    ic,          \* instruction cache and backing memory
    pc,          \* oldest fetch address without a consumed response
    context,     \* requestContextValid and responsePc of the predictor
    fq,          \* fetch queue
    decodePc,    \* history: the address decode must be given next
    classified   \* history: hit or miss verdicts on the current request

vars == <<ic, pc, context, fq, decodePc, classified>>

after(address) == laneAddress(address, 1)

packet(address, word, next) == [pc |-> address, word |-> word, next |-> next]

Init ==
    /\ ic = InitCache
    /\ pc = ResetPc
    /\ context = [valid |-> FALSE, pc |-> ResetPc]
    /\ fq = InitQueue(packet(ResetPc, NoWord, ResetPc))
    /\ decodePc = ResetPc
    /\ classified = 0

\* The addresses the predictor may let follow a word.
Predicted(address, word) ==
    {after(address)} \cup (IF word \in ControlWords THEN Targets ELSE {})

\* A response is usable when the cache and the predictor answer together.
usable(jump) == responseValid(ic, jump) /\ context.valid

\* The bundles the predictor may make of the response: one packet when the
\* first word is predicted taken, two otherwise.
Bundles ==
    LET first == context.pc
        second == after(first)
        lane(i, next) == packet(laneAddress(first, i), responseInsn(ic, i), next)
    IN IF ~usable(FALSE) THEN {<<>>}
       ELSE {<<lane(0, next)>> : next \in
                (IF responseInsn(ic, 0) \in ControlWords THEN Targets ELSE {})}
            \cup {<<lane(0, second), lane(1, next)>> :
                    next \in Predicted(second, responseInsn(ic, 1))}

consumed(issued, bundle) == bundle # <<>> /\ fetchReady(fq, issued, bundle)

\* Fault: a consumed bundle always falls through.
nextRequestPc_FallsThrough(issued, bundle) ==
    IF consumed(issued, bundle) THEN laneAddress(context.pc, 2) ELSE pc

nextRequestPc(issued, bundle) ==
    IF consumed(issued, bundle) THEN bundle[Len(bundle)].next ELSE pc

queryReady(advance, cancel) == ~context.valid \/ advance \/ cancel

\* Fault: a redirect drops the request that enters in the same clock.
NextContext_CancelOnly(cancel, advance, requestValid, requestPc) ==
    IF cancel THEN [context EXCEPT !.valid = FALSE]
    ELSE IF requestValid THEN [valid |-> TRUE, pc |-> requestPc]
    ELSE [context EXCEPT !.valid = @ /\ ~advance]

NextContext(cancel, advance, requestValid, requestPc) ==
    IF requestValid THEN [valid |-> TRUE, pc |-> requestPc]
    ELSE [context EXCEPT !.valid = @ /\ ~cancel /\ ~advance]

\* The history of verdicts restarts with every request.
NextClassified(flush, requestValid) ==
    IF requestValid THEN 0
    ELSE classified + (IF initialLookup(ic, flush) THEN 1 ELSE 0)

\* A clock without a redirect.
Clock(issued, bundle) ==
    \E taken \in {consumed(issued, bundle)}, requestPc \in {nextRequestPc(issued, bundle)} :
    \E requestValid \in {requestReady(ic, FALSE, taken) /\ queryReady(taken, FALSE)} :
       /\ ic' = ClockCache(ic, FALSE, taken, requestValid, requestPc)
       /\ pc' = requestPc
       /\ context' = NextContext(FALSE, taken, requestValid, requestPc)
       /\ fq' = ClockQueue(fq, issued, bundle)
       /\ decodePc' = IF issued = 0 THEN decodePc ELSE Queued(fq)[issued].next
       /\ classified' = NextClassified(FALSE, requestValid)

\* A clock in which a trap or a mispredicted branch redirects fetch.
Redirect(target) ==
    \E requestValid \in {requestReady(ic, TRUE, TRUE) /\ queryReady(FALSE, TRUE)} :
       /\ ic' = ClockCache(ic, TRUE, TRUE, requestValid, target)
       /\ pc' = target
       /\ context' = NextContext(TRUE, FALSE, requestValid, target)
       /\ fq' = FlushQueue(fq)
       /\ decodePc' = target
       /\ classified' = NextClassified(TRUE, requestValid)

Next ==
    \/ \E bundle \in Bundles, issued \in 0 .. 2 :
        issued <= fq.entryCount /\ Clock(issued, bundle)
    \/ \E target \in Targets : Redirect(target)

Spec == Init /\ [][Next]_vars

\* The clock always ticks: some edge that is not a redirect always follows.
FairSpec ==
    Spec /\ WF_vars(\E bundle \in Bundles, issued \in 0 .. 2 :
                        issued <= fq.entryCount /\ Clock(issued, bundle))

-----------------------------------------------------------------------------
Entries == [valid : BOOLEAN, tag : 0 .. AddrNum, line : [Beats -> Addrs \cup {NoWord}]]
Packets == [pc : Addrs, word : Addrs \cup {NoWord}, next : Addrs]

\* Every register holds a value of its kind; in particular the fetch queue
\* never counts more packets than it has slots, its pointers span exactly the
\* counted packets, and a refill never asks for more beats than a line has.
TypeOK ==
    /\ ic.array \in [Sets -> Entries] /\ ic.read \in [Lanes -> Entries]
    /\ {ic.lookupValid, ic.initialLookupPending, ic.refillActive,
        ic.retryPending, ic.secondRefillPending} \subseteq BOOLEAN
    /\ {ic.lookupPc, ic.refillLineBase, ic.secondRefillLineBase} \subseteq Addrs
    /\ {ic.refillIssuedCount, ic.refillReceivedCount} \subseteq 0 .. WordsPerLine
    /\ ic.refillReceivedCount < WordsPerLine
    /\ ic.response \in Addrs \cup {NoWord}
    /\ ic.refillBuffer \in [Beats -> Addrs \cup {NoWord}]
    /\ pc \in Addrs /\ decodePc \in Addrs
    /\ context \in [valid : BOOLEAN, pc : Addrs]
    /\ fq.entries \in [0 .. Depth - 1 -> Packets] /\ fq.entryCount \in 0 .. Depth
    /\ fq.head \in 0 .. Depth - 1 /\ fq.tail = addPtr(fq.head, fq.entryCount)
    /\ classified \in Nat

\* Every valid line of the instruction cache holds the words its tag and set
\* name, and a lookup that hits delivers the words of the requested pair,
\* whatever redirects cut refills short or replaced lookups
\* (InstructionCache.sv, refill and flush_i).
FetchedWordsAreRight ==
    /\ \A set \in Sets : ic.array[set].valid =>
        \A beat \in Beats : ic.array[set].line[beat] =
            (ic.array[set].tag * SetNum + set) * WordsPerLine + beat
    /\ \A lane \in Lanes : lookupHit(ic, lane) =>
        responseInsn(ic, lane) = laneAddress(ic.lookupPc, lane)

\* The request of the cache, the context of the predictor and the retained pc
\* of the fetch controller always describe one and the same request: both sides
\* have it or neither has, through misses, retries, stalls and redirects
\* (DualIfStages.sv 82-87: "describe the same accepted F0 request"), and every
\* register holds a value of its type.
OneRequestEverywhere ==
    LET stages == {ic.lookupValid, ic.refillActive, ic.retryPending}
    IN /\ TypeOK
       /\ context.valid <=> TRUE \in stages
       /\ context.valid => context.pc = pc /\ ic.lookupPc = pc
       /\ ~(ic.lookupValid /\ ic.refillActive) /\ ~(ic.retryPending /\ ic.lookupValid)
       /\ ~(ic.retryPending /\ ic.refillActive)

\* The first address from a given one on whose word is not zero.
firstWord(address) ==
    LET distance == CHOOSE d \in Addrs :
            /\ laneAddress(address, d) \notin ZeroWords
            /\ \A e \in 0 .. d - 1 : laneAddress(address, e) \in ZeroWords
    IN laneAddress(address, distance)

\* Decode is given every instruction of the predicted path once, in order and
\* with its own word: the queue continues where the last issued packet or
\* redirect left off, each packet follows its predecessor, and fetch goes on
\* after the last one.  Zero words are bubbles (IdStages.sv 16-17) and may be
\* skipped; nothing else may be (DualIfStages.sv 35-36).
StreamIsContiguous ==
    LET q == Queued(fq)
        owed(i) == IF i = 1 THEN decodePc ELSE q[i - 1].next
    IN /\ \A i \in 1 .. Len(q) : q[i].pc = firstWord(owed(i)) /\ q[i].word = q[i].pc
       /\ firstWord(pc) = firstWord(owed(Len(q) + 1))

\* One accepted request is classified as a hit or as a miss once: neither the
\* retry after a refill nor a held response counts again, and no response is
\* delivered unclassified (InstructionCache.sv 156-160).
ClassifiedOnce ==
    /\ classified + (IF ic.initialLookupPending THEN 1 ELSE 0) <= 1
    /\ context.valid => classified + (IF ic.initialLookupPending THEN 1 ELSE 0) = 1

\* Unless fetch is redirected again and again, the queue is never left empty
\* for good: no miss, cross-line miss, retry or full queue stops the stream.
FetchDelivers ==
    []<>(fq.entryCount > 0) \/ []<><<\E target \in Targets : Redirect(target)>>_vars
=============================================================================
