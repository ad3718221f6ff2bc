----------------------------- MODULE StoreQueue -----------------------------
(* What the Store Buffer promises: the committed Stores it has accepted and   *)
(* not yet handed to the D-cache form one queue of at most Depth Stores.      *)
EXTENDS Naturals, Sequences

CONSTANTS Depth,   \* capacity
          Stores   \* the Stores that may be presented

VARIABLE queue     \* oldest first

Init == queue = << >>

\* One clock: the head may leave, a new Store may join, or both; a full queue
\* takes a Store only in a clock in which its head leaves.
Clock ==
    \E drained \in {0, 1}, accepted \in {<< >>} \cup {<<s>> : s \in Stores} :
        /\ drained <= Len(queue)
        /\ Len(queue) - drained + Len(accepted) <= Depth
        /\ queue' = SubSeq(queue, drained + 1, Len(queue)) \o accepted

Spec == Init /\ [][Clock]_queue
=============================================================================
