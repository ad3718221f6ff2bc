---------------------------- MODULE LinearMemory ----------------------------
(* What the data memory promises the load/store unit: a request takes effect  *)
(* when it is accepted.  A Store changes memory at once; a Load is owed the    *)
(* value memory had then and is answered exactly once, with its own tag, in    *)
(* any later clock and in any order.  A byte stored to the UART is sent once,  *)
(* in order.                                                                   *)
EXTENDS MemAccess, Sequences

CONSTANTS Requests,      \* what the load/store unit may send
          Ids,           \* ROB tags
          FromHosts      \* what the host may present

VARIABLES golden,        \* memory with every accepted Store applied
          owed,          \* accepted Loads that have not been answered
          uartOwed,      \* bytes accepted for the UART and not sent
          response,      \* the answer of this clock, or none
          uart           \* the byte sent in this clock, or none

None == <<>>

\* The three MMIO registers.  The UART is addressed at its first byte only.
IsFromHost(addr) == addr.mmio /\ addr.word = 0
IsToHost(addr) == addr.mmio /\ addr.word = 1
IsUart(addr) == addr.mmio /\ addr.word = 2

\* A read of the UART returns zero; fromhost is whatever the host presents.
ReadWords(addr) ==
    IF IsFromHost(addr) THEN FromHosts
    ELSE IF IsUart(addr) THEN {ZeroWord} ELSE {golden[addr]}

Answers(req) == {formatLoadData(w, req.access, req.offset) : w \in ReadWords(req.addr)}

Written(words, req) ==
    [words EXCEPT ![req.addr] =
        MergeWord(@, storeByteMask(req.access, req.offset),
                  alignStoreData(req.data, req.access, req.offset))]

Init ==
    /\ owed = {} /\ uartOwed = <<>> /\ response = None /\ uart = None

\* At most one answer, one UART byte and one new request per clock.
Answer ==
    \/ response' = None
    \/ \E o \in owed : \E v \in o.values : response' = <<o.id, v>>

StillOwed == IF response' = None THEN owed ELSE {o \in owed : o.id # response'[1]}

Send ==
    \/ uart' = None
    \/ uartOwed # <<>> /\ uart' = <<Head(uartOwed)>>

StillUart == IF uart' = None THEN uartOwed ELSE Tail(uartOwed)

AcceptNothing == owed' = StillOwed /\ uartOwed' = StillUart /\ golden' = golden

AcceptLoad(req) ==
    /\ ~req.write
    /\ owed' = StillOwed \cup {[id |-> req.id, values |-> Answers(req)]}
    /\ uartOwed' = StillUart /\ golden' = golden

AcceptStore(req) ==
    /\ req.write
    /\ owed' = StillOwed
    /\ uartOwed' = IF IsUart(req.addr) THEN Append(StillUart, req.data[0]) ELSE StillUart
    /\ golden' = IF IsUart(req.addr) \/ IsFromHost(req.addr) THEN golden
                 ELSE Written(golden, req)

Accept(req) == AcceptLoad(req) \/ AcceptStore(req)

Next ==
    /\ Answer /\ Send
    /\ AcceptNothing \/ \E req \in Requests : Accept(req)

Spec == Init /\ [][Next]_<<golden, owed, uartOwed, response, uart>>
=============================================================================
