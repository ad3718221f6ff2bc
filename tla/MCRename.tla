------------------------------ MODULE MCRename ------------------------------
EXTENDS Rename

Instr(rd, rs, branch) == [valid |-> TRUE, rd |-> rd, rs |-> rs, isBranch |-> branch]

\* An operation, a jump that writes its link register, and a branch.
MCInstrs == {Instr(1, 2, FALSE), Instr(2, 1, TRUE), Instr(0, 1, TRUE)}

\* A checkpoint is read only while its branch is in flight and is written again
\* before that, so states that differ in the others are the same state.  ROB tags
\* are names: states that differ by a rotation of them behave alike.
Live(t) == InFlight(State, t) /\ entries[t].isBranch
MCView ==
    <<freeMask, speculativeMap, committedMap, entryCount, Age(State, tailPtr),
      [k \in Tags |->
        LET t == (headPtr + k) % Depth
        IN  <<entries[t], t \in late,
              IF Live(t) THEN <<checkpointMap[t], checkpointFreeMask[t]>> ELSE <<>> >>]>>
=============================================================================
