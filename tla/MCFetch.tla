------------------------------ MODULE MCFetch ------------------------------
EXTENDS Fetch

\* Branches and jumps in the first and in the last word of a line.
Controls == {3, 8}
MCTargets == {0, 1, 3, 4, 6, 7, 8, 11, 14, 15}
NoZeros == {}

\* The position of the queue in its ring does not matter, nor do the packets
\* in its free slots.
View == <<ic, pc, context, Queued(fq), fq.tail = addPtr(fq.head, fq.entryCount),
          decodePc, classified>>
=============================================================================
