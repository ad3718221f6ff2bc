----------------------------- MODULE IssueQueue -----------------------------
(* The unified issue queue: wakeup, selection and the removal of what issues.  *)
(*                                                                             *)
(* The queue is the sequence of its valid entries in age order.  Ages are      *)
(* handed out in dispatch order from a 32-bit counter, so the position in the  *)
(* sequence is what the age comparisons of the selection see as long as the    *)
(* counter has not wrapped.  Which slot an entry occupies plays no part.       *)
(*                                                                             *)
(* An entry is a record with fuClass, isStore, src1, src2, src1Ready and       *)
(* src2Ready; register 0 stands for a source that is not used or is x0.        *)
(* wakeups holds the registers written back in this clock.                     *)
EXTENDS Naturals, Sequences, FiniteSets

MemoryOrCsr == {"FU_MEMORY", "FU_CSR"}
IntegerOrBranch == {"FU_INTEGER", "FU_BRANCH"}

sourceReadyNow(sourcePhys, storedReady, wakeups) ==
    storedReady \/ sourcePhys = 0 \/ sourcePhys \in wakeups

\* A Store may leave the queue before its data is ready.
readyEntry(e, wakeups) ==
    /\ sourceReadyNow(e.src1, e.src1Ready, wakeups)
    /\ e.isStore \/ sourceReadyNow(e.src2, e.src2Ready, wakeups)

readyOf(iq, wakeups, classes) ==
    {k \in 1..Len(iq) : readyEntry(iq[k], wakeups) /\ iq[k].fuClass \in classes}

\* At most one position: the oldest of the candidates.
oldestOf(ks) == {k \in ks : \A j \in ks : k <= j}

\* Port 1 takes the oldest ready integer or branch.  The second pass of the
\* code over the same classes finds nothing that the first did not.
port1(iq, wakeups) == oldestOf(readyOf(iq, wakeups, IntegerOrBranch))

\* Port 0 takes the oldest ready memory operation or CSR access; without one
\* it is filled with the next integer, but not with a second branch.
port0(iq, wakeups) ==
    LET reserved == readyOf(iq, wakeups, MemoryOrCsr)
        taken == port1(iq, wakeups)
        fill == readyOf(iq, wakeups, IF taken = {} THEN IntegerOrBranch ELSE {"FU_INTEGER"})
    IN  IF reserved # {} THEN oldestOf(reserved) ELSE oldestOf(fill \ taken)

\* The integer that takes the primary port when port 0 offers a blocked
\* memory operation.
fallback(iq, wakeups) ==
    oldestOf(readyOf(iq, wakeups, {"FU_INTEGER"})
               \ (port0(iq, wakeups) \cup port1(iq, wakeups)))

Woken(e, wakeups) ==
    [e EXCEPT !.src1Ready = sourceReadyNow(e.src1, @, wakeups),
              !.src2Ready = sourceReadyNow(e.src2, @, wakeups)]

\* What is left after the entries at the positions in issued have gone.
Without(iq, issued) ==
    LET kept == {k \in 1..Len(iq) : k \notin issued}
        nth(n) == CHOOSE k \in kept : Cardinality({j \in kept : j <= k}) = n
    IN  [n \in 1..Cardinality(kept) |-> iq[nth(n)]]

\* The next queue: entries issued or killed leave, the others see the wakeups,
\* and so do the entries that dispatch adds at the end.
NextQueue(iq, issued, killed, wakeups, dispatched) ==
    LET gone == issued \cup {k \in 1..Len(iq) : iq[k].tag \in killed}
        next == Without(iq, gone) \o dispatched
    IN  [k \in 1..Len(next) |-> Woken(next[k], wakeups)]
=============================================================================
