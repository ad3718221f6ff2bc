------------------------------ MODULE Execute ------------------------------
(* From dispatch to completion: the issue queue, the two integer units and the *)
(* steering of BackendExecuteStage between them and the LSU, the physical      *)
(* register file with its ready table, and the kill of wrong-path work.        *)
(*                                                                             *)
(* Values are abstracted to whether they are right: a result is right when all *)
(* operands it was computed from were, and a register is right when the uop    *)
(* that owns it wrote it.  The LSU accepts, answers and kills Loads as         *)
(* MemoryPipeline describes.  Renaming keeps of Rename which registers are     *)
(* mapped, in flight and free, but not the names of the architectural ones.    *)
(* One action is one rising clock edge.                                        *)
EXTENDS IssueQueue

CONSTANTS RobDepth,     \* ROB_ENTRY_NUM
          IqDepth,      \* UNIFIED_IQ_ENTRY_NUM
          Regs,         \* physical registers other than p0
          ArchNum,      \* architectural registers other than x0
          Groups        \* what the two decoders may present in one clock

\* An instruction presented for dispatch says which class it has, whether it
\* writes a register, how many it reads, and whether it will raise an exception.
InstrType ==
    [fuClass : IntegerOrBranch \cup MemoryOrCsr, isStore : BOOLEAN, writes : BOOLEAN,
     sources : 0..2, exception : BOOLEAN]

\* Lane 1 never dispatches a branch.
ASSUME ExecuteAssumption ==
    /\ RobDepth \in Nat \ {0} /\ IqDepth \in Nat \ {0} /\ 0 \notin Regs
    /\ \A g \in Groups : /\ g \in Seq(InstrType) /\ Len(g) \in {1, 2}
                         /\ Len(g) = 2 => g[2].fuClass # "FU_BRANCH"

Tags == 0..(RobDepth - 1)
None == <<>>

VARIABLES rob, robHead,     \* in-flight uops, oldest first; tag of the first
          iq,               \* the issue queue in age order
          primary, secondary,   \* completion registers of the integer units
          memory,           \* completion register of the LSU
          loads,            \* Loads the D-cache owes an answer to
          cacheFallback,    \* cacheFallbackValid and cacheFallbackTag
          filter,           \* recoveryFilterMask, empty when not valid
          readyTable,       \* ready bits of the register file
          right,            \* observer: registers that hold their owner's value
          committed         \* the registers of the committed map

vars == <<rob, robHead, iq, primary, secondary, memory, loads, cacheFallback, filter,
          readyTable, right, committed>>

TagAt(i) == (robHead + i - 1) % RobDepth
PlaceOf(tag) == 1 + ((tag + RobDepth - robHead) % RobDepth)
Live(tag) == PlaceOf(tag) <= Len(rob)
Dests == {rob[i].dest : i \in 1..Len(rob)} \ {0}
freeRegs == Regs \ (committed \cup Dests)
mappedRegs == (committed \cup Dests) \ {rob[i].old : i \in 1..Len(rob)}

--------------------------------------------------------------------------------
(* Completion.  A completion names the register it writes back to, or 0.       *)

allowed(c) == c # None /\ c[1].tag \notin filter

\* Fault: a killed completion waits its turn like any other.
pCompletionReady_KilledWaits == ~allowed(memory)

\* The LSU goes first; a killed result of the primary unit is dropped at once.
pCompletionReady == ~allowed(memory) \/ (primary # None /\ ~allowed(primary))

pReady == primary = None \/ pCompletionReady

\* What the ROB, the register file and the issue queue see of this clock.
delivered ==
    (IF allowed(memory) THEN {memory[1]} ELSE IF allowed(primary) THEN {primary[1]} ELSE {})
      \cup (IF allowed(secondary) THEN {secondary[1]} ELSE {})

wakeupsOf(done) == {c.dest : c \in done} \ {0}

\* Reads of the register file see the write of the same clock.
rightNow(done) ==
    {p \in right : \A c \in done : c.dest # p}
      \cup {c.dest : c \in {d \in done : d.right /\ ~d.dead}} \cup {0}

\* The result of a uop.  A Store needs only its address here.
resultOf(e, good) ==
    [tag |-> e.tag, dest |-> IF e.exception THEN 0 ELSE e.dest, exception |-> e.exception,
     right |-> e.src1 \in good /\ (e.isStore \/ e.src2 \in good), dead |-> FALSE]

--------------------------------------------------------------------------------
(* Steering.  p0 and p1 are the positions of the two candidates, fb that of    *)
(* the fallback; each set has at most one member.                              *)

candidate0IsMemory(p0) == \E k \in p0 : iq[k].fuClass = "FU_MEMORY"

\* Fault: a Load that the D-cache refused is offered to the LSU and to the
\* fallback alike.
memorySourceValid_InFallback(active) == TRUE

\* During fallback the memory uop is not offered to the LSU.
memorySourceValid(active) == ~active

\* What LSQ, LSU and D-cache answer to the memory candidate: lsq says that
\* the ordering checks pass, forward that an older Store supplies the data,
\* request that the cache takes a Load, lsu that nothing else holds it up.
MemoryAnswers(p0) ==
    IF ~candidate0IsMemory(p0)
    THEN {[active |-> FALSE, accepted |-> {}, local |-> TRUE, retry |-> None]}
    ELSE LET k == CHOOSE j \in p0 : TRUE
             load == ~iq[k].isStore
             active(a) == ~a.lsq \/ (load /\ cacheFallback = <<iq[k].tag>>)
             local(a) == ~load \/ a.forward \/ iq[k].exception
             ready(a) == a.lsq /\ a.lsu /\ (local(a) \/ a.request)
         IN  {[active |-> active(a),
               accepted |-> IF ready(a) /\ memorySourceValid(active(a)) THEN {k} ELSE {},
               local |-> local(a),
               retry |-> IF a.lsq /\ load /\ ~a.forward /\ ~a.request
                         THEN <<iq[k].tag>> ELSE None] :
                a \in [lsq : BOOLEAN, forward : BOOLEAN, request : BOOLEAN, lsu : BOOLEAN]}

\* The position that enters the primary unit.
primaryIssue(p0, fb, m) ==
    IF candidate0IsMemory(p0) THEN (IF m.active THEN fb ELSE {}) ELSE p0

\* The secondary unit is always ready.
issuedPositions(p0, p1, fb, m) ==
    (IF pReady THEN primaryIssue(p0, fb, m) ELSE {}) \cup p1
      \cup (IF m.active THEN {} ELSE m.accepted)

\* The branch that resolves in this clock; one with an exception does not.
branchResolved(issued) ==
    {k \in issued : iq[k].fuClass = "FU_BRANCH" /\ ~iq[k].exception}

\* One LSU completion per clock: a uop that needs no cache, or an answer of the
\* cache, if there is none of the former.  killed are the tags recovery kills.
LsuAnswers(m, killed) ==
    IF m.accepted # {} /\ m.local THEN {None}
    ELSE {None} \cup {<<l>> : l \in {x \in loads : x.tag \notin killed}}

--------------------------------------------------------------------------------
(* The clocked state of the execution units.  alive keeps a completion whose   *)
(* uop recovery did not kill and marks the others, for the observer.           *)

marked(c, killed) ==
    IF c = None THEN None ELSE <<[c[1] EXCEPT !.dead = @ \/ c[1].tag \in killed]>>

Units(p0, p1, fb, m, good, killed) ==
    LET enters(ks) == IF ks = {} THEN None ELSE <<resultOf(iq[CHOOSE k \in ks : TRUE], good)>>
    IN  /\ primary' = marked(IF pReady THEN enters(primaryIssue(p0, fb, m)) ELSE primary, killed)
        /\ secondary' = marked(enters(p1), killed)

Lsu(m, answer, good, killed) ==
    LET taken == {resultOf(iq[k], good) : k \in {j \in m.accepted : iq[j].tag \notin killed}}
        answered == IF answer = None THEN {} ELSE {answer[1]}
    IN  /\ memory' = IF m.local /\ taken # {} THEN <<CHOOSE r \in taken : TRUE>> ELSE answer
        /\ loads' = {l \in (loads \ answered) \cup (IF m.local THEN {} ELSE taken) :
                        l.tag \notin killed}

\* Results of this clock in the ROB.
Completed(entries, done) ==
    [i \in 1..Len(entries) |->
        IF \E c \in done : c.tag = TagAt(i)
        THEN [entries[i] EXCEPT !.state =
                IF \E c \in done : c.tag = TagAt(i) /\ c.exception THEN "exception" ELSE "done"]
        ELSE entries[i]]

\* allocated are the destinations of this clock's dispatch.
RegisterFile(done, allocated) ==
    /\ readyTable' = (readyTable \ allocated) \cup wakeupsOf(done)
    /\ right' = ((rightNow(done) \ {0}) \ allocated)
                  \cup {p \in allocated : \E c \in done : c.dest = p /\ c.right /\ ~c.dead}

--------------------------------------------------------------------------------
(* Dispatch of a group that Rename has accepted: o1 and o2 are the operands    *)
(* and destinations of its lanes.                                              *)

\* Fault: lane 1 does not notice that it reads the result of lane 0.
sourceReady_IgnoresLane0(src, lane0Dest, wakeups) ==
    src = 0 \/ src \in readyTable \/ src \in wakeups

sourceReady(src, lane0Dest, wakeups) ==
    src = 0 \/ (src # lane0Dest /\ (src \in readyTable \/ src \in wakeups))

iqEntry(place, instr, o, lane0Dest, wakeups) ==
    [tag |-> TagAt(place), fuClass |-> instr.fuClass, isStore |-> instr.isStore,
     exception |-> instr.exception, dest |-> o.dest, src1 |-> o.src1, src2 |-> o.src2,
     src1Ready |-> sourceReady(o.src1, lane0Dest, wakeups),
     src2Ready |-> sourceReady(o.src2, lane0Dest, wakeups)]

robEntry(instr, o) ==
    [dest |-> o.dest, old |-> o.old, state |-> "iq",
     isBranch |-> instr.fuClass = "FU_BRANCH", isMemory |-> instr.fuClass = "FU_MEMORY"]

\* The ways in which the map and the free list may rename an instruction: old
\* is the register of rd that its destination replaces.
Renamings(instr, free, mapped) ==
    [dest : IF instr.writes THEN free ELSE {0},
     old  : IF instr.writes THEN mapped ELSE {0},
     src1 : IF instr.sources >= 1 THEN mapped \cup {0} ELSE {0},
     src2 : IF instr.sources >= 2 THEN mapped \cup {0} ELSE {0}]

GroupRenamings(g) ==
    LET lane0s == Renamings(g[1], freeRegs, mappedRegs)
        lane1s(o) == Renamings(g[2], freeRegs \ {o.dest}, ((mappedRegs \cup {o.dest}) \ {o.old}) \ {0})
    IN  IF g = <<>> THEN {<<>>}
        ELSE IF Len(g) = 1 THEN {<<o>> : o \in lane0s}
        ELSE UNION {{<<o, q>> : q \in lane1s(o)} : o \in lane0s}

Dispatched(g, os, wakeups) ==
    [l \in 1..Len(g) |->
        iqEntry(Len(rob) + l, g[l], os[l], IF l = 2 THEN os[1].dest ELSE 0, wakeups)]

\* Groups hold the prefixes that DispatchControl can accept.
accepts(g) == Len(rob) + Len(g) <= RobDepth /\ Len(iq) + Len(g) <= IqDepth

--------------------------------------------------------------------------------
(* The clock edge: flush_i, then recoverValid_i, then the normal case.         *)

Init ==
    /\ rob = <<>> /\ robHead = 0 /\ iq = <<>>
    /\ primary = None /\ secondary = None /\ memory = None
    /\ loads = {} /\ cacheFallback = None /\ filter = {}
    /\ committed \in {ps \in SUBSET Regs : Cardinality(ps) = ArchNum}
    /\ readyTable = committed /\ right = committed

trapValid == rob # <<>> /\ rob[1].state = "exception"

\* Retirement takes a prefix of completed uops; the LSQ, the Store Buffer and
\* the predictor may hold it back.
RetireCounts == {n \in 0..2 : n <= Len(rob) /\ \A i \in 1..n : rob[i].state = "done"}

Issued(entries, issued) ==
    [i \in 1..Len(entries) |->
        IF \E k \in issued : iq[k].tag = TagAt(i)
        THEN [entries[i] EXCEPT !.state = "issued"] ELSE entries[i]]

Clock(done, p0, p1, fb, m) ==
    \E w \in {wakeupsOf(done)}, good \in {rightNow(done)},
       issued \in {issuedPositions(p0, p1, fb, m)} :
    \E entries \in {Completed(Issued(rob, issued), done)} :
        /\ ~trapValid
        /\ Units(p0, p1, fb, m, good, {})
        /\ cacheFallback' = m.retry /\ filter' = {}
        /\ \E answer \in LsuAnswers(m, {}) : Lsu(m, answer, good, {})
        /\ \E g \in Groups \cup {<<>>} :
            /\ accepts(g)
            /\ \E os \in GroupRenamings(g), n \in RetireCounts :
                LET allocated == {os[l].dest : l \in 1..Len(g)} \ {0}
                IN  /\ RegisterFile(done, allocated)
                    /\ iq' = NextQueue(iq, issued, {}, w, Dispatched(g, os, w))
                    /\ rob' = SubSeq(entries, n + 1, Len(rob))
                                 \o [l \in 1..Len(g) |-> robEntry(g[l], os[l])]
                    /\ robHead' = (robHead + n) % RobDepth
                    /\ committed' = ((committed \cup {rob[i].dest : i \in 1..n})
                                       \ {rob[i].old : i \in 1..n}) \ {0}

\* Dispatch is not gated in a clock that recovers or traps: of what it presents,
\* only the ready bits of the registers it would have got are written.
AbandonedDests == {ps \in SUBSET freeRegs : Cardinality(ps) <= 2}

\* Fault: the entries that survive miss the wakeups of the recovery clock.
survivors_NoWakeup(issued, killed, w) == NextQueue(iq, issued, killed, {}, <<>>)

survivors(issued, killed, w) == NextQueue(iq, issued, killed, w, <<>>)

\* A mispredicted branch kills what is younger and stays, already complete.
Recover(done, p0, p1, fb, m) ==
    \E w \in {wakeupsOf(done)}, good \in {rightNow(done)},
       issued \in {issuedPositions(p0, p1, fb, m)} :
    \E entries \in {Completed(Issued(rob, issued), done)} :
        /\ ~trapValid
        /\ \E k \in branchResolved(issued) :
            \E place \in {PlaceOf(iq[k].tag)} :
            \E killed \in {{TagAt(i) : i \in (place + 1)..Len(rob)}} :
                /\ Units(p0, p1, fb, m, good, killed)
                /\ cacheFallback' = None /\ filter' = killed
                /\ iq' = survivors(issued, killed, w)
                /\ rob' = [SubSeq(entries, 1, place) EXCEPT ![place].state = "done"]
                /\ \E answer \in LsuAnswers(m, killed) : Lsu(m, answer, good, killed)
        /\ \E ps \in AbandonedDests : RegisterFile(done, ps)
        /\ UNCHANGED <<robHead, committed>>

Trap ==
    /\ trapValid
    /\ rob' = <<>> /\ robHead' = 0 /\ iq' = <<>>
    /\ primary' = None /\ secondary' = None /\ memory' = None
    /\ loads' = {} /\ cacheFallback' = None /\ filter' = {}
    /\ \E ps \in AbandonedDests : RegisterFile(delivered, ps)
    /\ UNCHANGED committed

Next ==
    \/ Trap
    \/ \E done \in {delivered} : \E w \in {wakeupsOf(done)} :
       \E p0 \in {port0(iq, w)}, p1 \in {port1(iq, w)}, fb \in {fallback(iq, w)} :
           \E m \in MemoryAnswers(p0) :
               Clock(done, p0, p1, fb, m) \/ Recover(done, p0, p1, fb, m)

Spec == Init /\ [][Next]_vars

\* What Retire, the D-cache and the LSU owe the uop at the head of the ROB: it
\* retires once it is done, the cache answers its Load, and a memory operation
\* that is offered to the LSU again and again is accepted some time.
HeadRetires == rob # <<>> /\ rob[1].state = "done" /\ Next /\ robHead' # robHead
HeadIsAnswered == \E l \in loads : l.tag = robHead /\ Next /\ l \notin loads'
HeadIsAccepted ==
    /\ rob # <<>> /\ rob[1].isMemory /\ rob[1].state = "iq"
    /\ Next /\ rob'[1].state # "iq"
FairSpec ==
    /\ Spec /\ WF_vars(Next)
    /\ WF_vars(HeadRetires) /\ WF_vars(HeadIsAnswered) /\ SF_vars(HeadIsAccepted)

--------------------------------------------------------------------------------
(* Properties.                                                                 *)

Completions ==
    [tag : Tags, dest : Regs \cup {0}, exception : BOOLEAN, right : BOOLEAN, dead : BOOLEAN]

\* The ROB, the issue queue and the completion registers stay within what the
\* code gives them: dispatch never overfills the ROB or the issue queue.
TypeOK ==
    /\ Len(rob) <= RobDepth /\ robHead \in Tags /\ Len(iq) <= IqDepth
    /\ \A i \in 1..Len(rob) : rob[i].state \in {"iq", "issued", "done", "exception"}
    /\ {primary, secondary, memory} \subseteq {None} \cup {<<c>> : c \in Completions}
    /\ loads \subseteq Completions /\ filter \subseteq Tags
    /\ cacheFallback \in {None} \cup {<<t>> : t \in Tags}
    /\ readyTable \subseteq Regs /\ right \subseteq Regs /\ committed \subseteq Regs

\* Every uop is computed from the results of the uops it depends on: no operand
\* is read before it is written, from a register's previous owner, or from a
\* uop that was killed; and what retires leaves the right value behind.
OperandsAreRight ==
    /\ \A c \in {primary, secondary, memory} : c # None => c[1].right \/ c[1].dead
    /\ \A l \in loads : l.right
    /\ committed \subseteq right

\* Where a uop that has not completed can be: one place in the issue queue, a
\* unit, or the LSU.  A branch that recovered completes ahead of its unit.
Homes(t) ==
    Cardinality({k \in 1..Len(iq) : iq[k].tag = t})
      + Cardinality({l \in loads : l.tag = t})
      + (IF primary # None /\ primary[1].tag = t /\ ~primary[1].dead THEN 1 ELSE 0)
      + (IF secondary # None /\ secondary[1].tag = t /\ ~secondary[1].dead THEN 1 ELSE 0)
      + (IF memory # None /\ memory[1].tag = t THEN 1 ELSE 0)

\* No uop is lost, executed twice or left behind: a uop that has not completed
\* is in exactly one place, and nothing anywhere belongs to a uop that has
\* completed or was killed, which a later uop with the same ROB tag would meet.
\* No structure exceeds its capacity.
EveryUopHasOneHome ==
    TypeOK /\ \A t \in Tags :
        IF Live(t) /\ rob[PlaceOf(t)].state \in {"iq", "issued"} THEN Homes(t) = 1
        ELSE Homes(t) = IF /\ Live(t) /\ rob[PlaceOf(t)].isBranch
                           /\ secondary # None /\ secondary[1].tag = t THEN 1 ELSE 0

\* No wakeup is lost and none is spurious: the issue queue believes a source
\* ready exactly when the register file holds it.
WakeupsMatchRegisterFile ==
    \A k \in 1..Len(iq) :
        /\ iq[k].src1 # 0 => (iq[k].src1Ready <=> iq[k].src1 \in readyTable)
        /\ iq[k].src2 # 0 => (iq[k].src2Ready <=> iq[k].src2 \in readyTable)

\* The head of the ROB always gets through: whatever memory operation blocks
\* port 0, and however often younger branches mispredict, it issues, completes
\* and leaves.
HeadLeaves ==
    \A h \in Tags : (robHead = h /\ rob # <<>>) ~> (robHead # h \/ rob = <<>>)
=============================================================================
