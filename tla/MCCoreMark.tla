----------------------------- MODULE MCCoreMark -----------------------------
EXTENDS Simulation

CoreMarkRun(s1, s2, s3, n, size) ==
    [program |-> "coremark", seed1 |-> s1, seed2 |-> s2, seed3 |-> s3, seed4 |-> n,
     total |-> size, branch_trace |-> FALSE, pipe_dump |-> TRUE]
Other(name, value, b, p) ==
    [program |-> name, halt |-> value, branch_trace |-> b, pipe_dump |-> p]

\* The five runs that core_main.c knows the CRCs of, the first one as this port
\* builds it, and two smaller ones: with calibration and with unequal seeds.
Port == CoreMarkRun(13333, 13333, 102, 1, 2000)
Performance == CoreMarkRun(0, 0, 0, 1, 2000)
Profile == CoreMarkRun(8, 8, 8, 1, 1200)
Validation6k == CoreMarkRun(1, 0, 0, 1, 6000)
Performance6k == CoreMarkRun(0, 0, 0, 1, 6000)
Small == CoreMarkRun(5, 5, 3, 0, 480)
Unequal == CoreMarkRun(7, 9, 3, 2, 480)

MCConfigs ==
    {Port, Performance, Profile, Validation6k, Performance6k, Small, Unequal}
    \cup {Other("hello", 1, b, p) : b \in BOOLEAN, p \in BOOLEAN}
    \cup {Other("act4", v, FALSE, TRUE) : v \in {1, 3}}

\* Once the loop has ended the data of the program is not read any more, and what
\* it was initialized to depends only on the configuration.
View ==
    <<config, pc, out, printed, elapsed, benchVars,
      IF phase \in {"start", "loop"} THEN <<res, data, locals, original = <<>> >> ELSE <<>> >>
=============================================================================
