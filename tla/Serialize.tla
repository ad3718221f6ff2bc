----------------------------- MODULE Serialize -----------------------------
(* Serialized instructions, the CSR file and traps: the drained-backend check  *)
(* of OoOBackend at dispatch and its serializing register, the execution of    *)
(* CSR accesses and MRET, and the updates of CSRFile at execute and at retire. *)
(*                                                                             *)
(* The program is any assignment of instruction kinds to the addresses in use; *)
(* addresses are word indices and wrap.  Fetch delivers the predicted stream   *)
(* in order.  Operands become ready at any time, so every order in which the   *)
(* issue queue may issue is covered.  An observer executes the retired         *)
(* instructions one at a time, as the ISA defines them.                        *)
(* One action is one rising clock edge.                                        *)
EXTENDS IssueQueue

CONSTANTS RobDepth,     \* ROB_ENTRY_NUM
          PcNum,        \* addresses in use: 0..PcNum-1
          Kinds,        \* kinds of instructions in the program
          TrapVector,   \* mtvec
          SbDepth,      \* STORE_BUFFER_ENTRY_NUM
          InstretMod    \* 2^64: where minstret wraps

Pcs == 0..(PcNum - 1)

ASSUME SerializeAssumption ==
    /\ RobDepth \in Nat \ {0} /\ PcNum \in Nat \ {0} /\ SbDepth \in Nat \ {0}
    /\ InstretMod \in Nat \ {0} /\ TrapVector \in Pcs
    /\ Kinds \subseteq {"alu", "store", "branch", "mepc", "instret", "fence", "ecall", "mret"}

VARIABLES program,              \* the kind of instruction at each address
          fetchPc,              \* where the next instruction at decode comes from
          rob,                  \* in-flight instructions, oldest first
          serializing,          \* the register of OoOBackend
          undrained,            \* retired Stores that have not reached memory
          mepc, minstret, mie, mpie,    \* CSRFile
          arch                  \* observer: pc and CSRs after the retired instructions

csrs == <<mepc, minstret, mie, mpie>>
vars == <<program, fetchPc, rob, serializing, undrained, mepc, minstret, mie, mpie, arch>>

next(pc) == (pc + 1) % PcNum

\* "mepc" is a CSRRW of mepc that writes 1 and "instret" a CSRR of minstret.
isCsr(kind) == kind \in {"mepc", "instret"}
startsSerialization(kind) == isCsr(kind) \/ kind \in {"fence", "ecall", "mret"}
isControl(kind) == kind \in {"branch", "mret"} \/ isCsr(kind)
CsrData == 1 % PcNum

\* How RenameStage classifies the instruction for the issue queue.
fuClass(kind) ==
    IF isCsr(kind) THEN "FU_CSR"
    ELSE IF kind = "store" THEN "FU_MEMORY"
    ELSE IF kind \in {"branch", "mret"} THEN "FU_BRANCH"
    ELSE "FU_INTEGER"

\* state is "iq", "issued", "complete" or "exception"; predicted is where fetch
\* went on, target where execution goes on, read what a CSR access returned.
robEntry(pc, predicted) ==
    [kind |-> program[pc], pc |-> pc, predicted |-> predicted, target |-> next(pc),
     state |-> "iq", read |-> 0]

--------------------------------------------------------------------------------
(* Dispatch.                                                                   *)

\* Fault: the Store Buffer is not asked.
backendDrained_IgnoresStores == rob = <<>>

\* storeBufferEmpty and memoryIdle_i are one: no retired Store is on its way.
\* An empty ROB implies an empty issue queue and LSQ.
backendDrained == rob = <<>> /\ undrained = 0

\* Fault: CSR accesses do not wait for an empty back end.
laneSupported0_CsrAnytime(kind) ==
    ~serializing /\ (startsSerialization(kind) /\ ~isCsr(kind) => backendDrained)

laneSupported0(kind) == ~serializing /\ (startsSerialization(kind) => backendDrained)

laneSupported1(kind) == ~serializing /\ ~isControl(kind) /\ ~startsSerialization(kind)

\* The entries accepted when decode holds the predicted stream of at most two
\* instructions given by stream, with a slot of the ROB for each.
accepted(stream) ==
    LET lane0 == /\ Len(stream) >= 1 /\ Len(rob) < RobDepth
                 /\ laneSupported0(program[stream[1].pc])
        lane1 == /\ lane0 /\ Len(stream) = 2 /\ Len(rob) + 1 < RobDepth
                 /\ laneSupported1(program[stream[2].pc])
    IN  IF lane1 THEN stream ELSE IF lane0 THEN <<stream[1]>> ELSE <<>>

\* The predictor may send a branch or MRET anywhere it has been before.
Predictions(pc) ==
    IF program[pc] \in {"branch", "mret"} THEN {next(pc), 0} ELSE {next(pc)}
Streams ==
    LET lane0s == {robEntry(fetchPc, p) : p \in Predictions(fetchPc)}
    IN  {<<>>} \cup {<<e>> : e \in lane0s}
          \cup UNION {{<<e, robEntry(e.predicted, p)>> : p \in Predictions(e.predicted)} :
                        e \in lane0s}

fetchAfter(lanes) == IF lanes = <<>> THEN fetchPc ELSE lanes[Len(lanes)].predicted

serializingNext(lanes) ==
    \/ lanes # <<>> /\ startsSerialization(lanes[1].kind)
    \/ serializing /\ rob # <<>>

--------------------------------------------------------------------------------
(* Execution.  ready are the places of rob that wait in the issue queue and    *)
(* whose operands have arrived; no other place is a candidate for a port.      *)

waiting == {i \in 1..Len(rob) : rob[i].state = "iq"}
queueOf(ready) ==
    [i \in 1..Len(rob) |->
        [fuClass |-> fuClass(rob[i].kind), isStore |-> rob[i].kind = "store",
         src1 |-> 1, src1Ready |-> i \in ready, src2 |-> 0, src2Ready |-> TRUE]]
onPort0(ready) == port0(queueOf(ready), {})
onPort1(ready) == port1(queueOf(ready), {})

\* csrReadData_i of the unit behind each port: the CSR file drives the primary
\* unit, the input of the secondary unit is tied to zero.
csrCurrent(kind) == IF kind = "instret" THEN minstret ELSE mepc
csrReadData(i, ready) == IF i \in onPort0(ready) THEN csrCurrent(rob[i].kind) ELSE 0

\* taken says which way the branches of this clock go: back to address 0 or on.
Executed(i, ready, taken) ==
    LET e == rob[i]
    IN  [e EXCEPT
            !.state = "issued",
            !.read = IF isCsr(e.kind) THEN csrReadData(i, ready) ELSE 0,
            !.target = IF e.kind = "mret" THEN csrReadData(i, ready)
                       ELSE IF e.kind = "branch" /\ taken THEN 0 ELSE @]

\* Completion follows issue; the primary unit may have to wait for the LSU.
\* ECALL completes with an exception.
Finished(e) == [e EXCEPT !.state = IF e.kind = "ecall" THEN "exception" ELSE "complete"]
AfterClock(ready, taken, done) ==
    [i \in 1..Len(rob) |->
        IF i \in onPort0(ready) \cup onPort1(ready) THEN Executed(i, ready, taken)
        ELSE IF i \in done THEN Finished(rob[i]) ELSE rob[i]]

\* Fault: only the targets of taken branches are compared.
mispredicted_OnlyTaken(entries) ==
    {i \in 1..Len(rob) : /\ rob[i].state = "iq" /\ entries[i].state = "issued"
                         /\ rob[i].kind \in {"branch", "mret"}
                         /\ entries[i].target # next(rob[i].pc)
                         /\ entries[i].target # rob[i].predicted}

\* The branch or MRET that resolves against its prediction.
mispredicted(entries) ==
    {i \in 1..Len(rob) : /\ rob[i].state = "iq" /\ entries[i].state = "issued"
                         /\ rob[i].kind \in {"branch", "mret"}
                         /\ entries[i].target # rob[i].predicted}

--------------------------------------------------------------------------------
(* Retirement and the CSR file.                                                *)

trapValid == rob # <<>> /\ rob[1].state = "exception"

\* At most one branch and one Store retire per clock; a Store needs room.
RetireCounts ==
    {n \in 0..2 : /\ n <= Len(rob) /\ \A i \in 1..n : rob[i].state = "complete"
                  /\ n = 2 => \A kinds \in {{"branch", "mret"}, {"store"}} :
                                  ~(rob[1].kind \in kinds /\ rob[2].kind \in kinds)
                  /\ (\E i \in 1..n : rob[i].kind = "store") => undrained < SbDepth}

retires(n, kind) == \E i \in 1..n : rob[i].kind = kind
csrWrites(entries) ==
    \E i \in 1..Len(rob) :
        rob[i].kind = "mepc" /\ rob[i].state = "iq" /\ entries[i].state = "issued"

CsrClock(entries, n) ==
    /\ minstret' = (minstret + n) % InstretMod
    /\ IF retires(n, "mret") THEN mie' = mpie /\ mpie' = TRUE /\ mepc' = mepc
       ELSE mie' = mie /\ mpie' = mpie /\ mepc' = IF csrWrites(entries) THEN CsrData ELSE mepc

\* The observer: the ISA's effect of one instruction.
Step(a, e) ==
    [a EXCEPT
        !.pc = IF e.kind = "mret" THEN a.mepc ELSE e.target,
        !.mepc = IF e.kind = "mepc" THEN CsrData ELSE @,
        !.minstret = (@ + 1) % InstretMod,
        !.mie = IF e.kind = "mret" THEN a.mpie ELSE @,
        !.mpie = @ \/ e.kind = "mret"]

\* After the n oldest of the machine.
After(a, n) ==
    IF n = 0 THEN a ELSE IF n = 1 THEN Step(a, rob[1]) ELSE Step(Step(a, rob[1]), rob[2])

--------------------------------------------------------------------------------
(* The clock edge: flush_i, then recovery, then the normal case.               *)

Init ==
    /\ program \in [Pcs -> Kinds]
    /\ fetchPc = 0 /\ rob = <<>> /\ serializing = FALSE /\ undrained = 0
    /\ mepc = 0 /\ minstret = 0 /\ mie = FALSE /\ mpie = FALSE
    /\ arch = [pc |-> 0, mepc |-> 0, minstret |-> 0, mie |-> FALSE, mpie |-> FALSE]

issuedPlaces == {i \in 1..Len(rob) : rob[i].state = "issued"}

\* What execution may make of the ROB in a clock.
Outcomes ==
    {AfterClock(o.ready, o.taken, o.done) :
        o \in [ready : SUBSET waiting, taken : BOOLEAN, done : SUBSET issuedPlaces]}

\* entries is the outcome of this clock.
Clock(entries, stream, n, drains) ==
    \E lanes \in {accepted(stream)} :
        /\ ~trapValid /\ mispredicted(entries) = {}
        /\ rob' = SubSeq(entries, n + 1, Len(rob)) \o lanes
        /\ fetchPc' = fetchAfter(lanes)
        /\ serializing' = serializingNext(lanes)
        /\ undrained' = (undrained + (IF retires(n, "store") THEN 1 ELSE 0)) - drains
        /\ CsrClock(entries, n)
        /\ arch' = After(arch, n)
        /\ UNCHANGED program

\* Nothing retires in a clock that recovers.  Dispatch is not gated: what it
\* presents can still set the serializing register.
Recover(entries, stream, drains) ==
    /\ ~trapValid
    /\ \E i \in mispredicted(entries) :
          /\ rob' = [SubSeq(entries, 1, i) EXCEPT ![i].state = "complete"]
          /\ fetchPc' = entries[i].target
    /\ serializing' = serializingNext(accepted(stream))
    /\ undrained' = undrained - drains
    /\ CsrClock(entries, 0)
    /\ UNCHANGED <<program, arch>>

\* Trap entry writes mepc and the interrupt stack; the retire count is zero.
Trap(drains) ==
    /\ trapValid
    /\ rob' = <<>> /\ serializing' = FALSE /\ fetchPc' = TrapVector
    /\ undrained' = undrained - drains
    /\ mepc' = rob[1].pc /\ mpie' = mie /\ mie' = FALSE /\ UNCHANGED minstret
    /\ arch' = [arch EXCEPT !.pc = TrapVector, !.mepc = arch.pc,
                            !.mpie = arch.mie, !.mie = FALSE]
    /\ UNCHANGED program

Next ==
    \E drains \in 0..(IF undrained > 0 THEN 1 ELSE 0) :
        \/ Trap(drains)
        \/ \E entries \in Outcomes :
              \E stream \in Streams :
                \/ Recover(entries, stream, drains)
                \/ \E n \in RetireCounts : Clock(entries, stream, n, drains)

Spec == Init /\ [][Next]_vars

--------------------------------------------------------------------------------
(* Properties.                                                                 *)

\* The ROB and the Store Buffer stay within their capacity, and every register
\* holds a value of its type.
TypeOK ==
    /\ program \in [Pcs -> Kinds] /\ fetchPc \in Pcs /\ Len(rob) <= RobDepth
    /\ \A i \in 1..Len(rob) :
          /\ rob[i].pc \in Pcs /\ rob[i].predicted \in Pcs /\ rob[i].target \in Pcs
          /\ rob[i].state \in {"iq", "issued", "complete", "exception"}
    /\ serializing \in BOOLEAN /\ undrained \in 0..SbDepth
    /\ mepc \in Pcs /\ minstret \in 0..(InstretMod - 1) /\ mie \in BOOLEAN /\ mpie \in BOOLEAN

\* What retires or traps next is the instruction that a one-at-a-time machine
\* would execute next, across mispredictions, traps and trap returns.
RetiresInProgramOrder == rob # <<>> => rob[1].pc = arch.pc

\* CSR accesses are not speculative: an access returns the value the program has
\* given the CSR so far, and no CSR holds anything that the retired
\* instructions and the one at the head have not done.  Every register holds a value
\* of its type.
CsrsArePrecise ==
    /\ TypeOK
    /\ \A i \in 1..Len(rob) :
          isCsr(rob[i].kind) /\ rob[i].state # "iq" =>
              i = 1 /\ rob[1].read = IF rob[1].kind = "instret" THEN arch.minstret ELSE arch.mepc
    /\ minstret = arch.minstret /\ mie = arch.mie /\ mpie = arch.mpie
    /\ mepc = IF rob # <<>> /\ rob[1].kind = "mepc" /\ rob[1].state # "iq"
              THEN CsrData ELSE arch.mepc

\* A serialized instruction is the oldest of the machine, every Store before it
\* has reached memory, and at most the instruction it dispatched with follows.
SerializedComesFirst ==
    \A i \in 1..Len(rob) : startsSerialization(rob[i].kind) =>
        i = 1 /\ Len(rob) <= 2 /\ undrained = 0 /\ serializing
=============================================================================
