----------------------------- MODULE FetchQueue -----------------------------
(***************************************************************************)
(* The queue between instruction fetch and decode                          *)
(* (rtl/frontend/fetch/FetchQueue.sv), as operators on a record fq of its  *)
(* registers.  A packet carries its pc, the word fetched for it and the    *)
(* address predicted to follow it; the other prediction fields travel with *)
(* it unchanged and are left out.                                          *)
(***************************************************************************)
EXTENDS Naturals, Sequences

CONSTANTS Depth, ZeroWords

ASSUME QueueAssumption == Depth \in Nat \ {0, 1}

addPtr(base, increment) == (base + increment) % Depth

InitQueue(packet) ==
    [entries |-> [slot \in 0 .. Depth - 1 |-> packet],
     head |-> 0, tail |-> 0, entryCount |-> 0]

\* The packets at the output, oldest first.
Queued(fq) == [i \in 1 .. fq.entryCount |-> fq.entries[addPtr(fq.head, i - 1)]]

\* What the queue takes from a bundle: nothing when its first word is zero, and
\* only the first packet when the second word is zero.
accepted(bundle) ==
    IF bundle = <<>> \/ bundle[1].word \in ZeroWords THEN <<>>
    ELSE IF Len(bundle) = 2 /\ bundle[2].word \in ZeroWords THEN <<bundle[1]>>
    ELSE bundle

dequeueCount(fq, issued) == IF issued > fq.entryCount THEN fq.entryCount ELSE issued

fetchReady(fq, issued, bundle) ==
    Depth - fq.entryCount + dequeueCount(fq, issued) >= Len(accepted(bundle))

ClockQueue(fq, issued, bundle) ==
    LET incoming == IF fetchReady(fq, issued, bundle) THEN accepted(bundle) ELSE <<>>
        position(slot) == ((slot + Depth - fq.tail) % Depth) + 1
    IN [entries |-> [slot \in 0 .. Depth - 1 |->
                        IF position(slot) <= Len(incoming)
                        THEN incoming[position(slot)] ELSE fq.entries[slot]],
        head |-> addPtr(fq.head, dequeueCount(fq, issued)),
        tail |-> addPtr(fq.tail, Len(incoming)),
        entryCount |-> fq.entryCount - dequeueCount(fq, issued) + Len(incoming)]

FlushQueue(fq) == [fq EXCEPT !.head = 0, !.tail = 0, !.entryCount = 0]
=============================================================================
