----------------------------- MODULE Simulation -----------------------------
(* The test bench of sim_main.cpp around a program: CoreMark, hello.c or an    *)
(* architecture test that ends with a macro of rvmodel_macros.h.  One turn of  *)
(* the loop of main is one clock of the core, in which the program makes one   *)
(* of its steps, or one Store to the UART or to tohost retires.  Clocks in     *)
(* which the program does not move change nothing that is modelled.            *)
EXTENDS CoreMark

VARIABLES phase,        \* where main of sim_main.cpp is
          files,        \* the files that are open
          log,          \* what is in the log file
          toHost,       \* toHostReg of dataMem.sv
          timed_out, exit_code

benchVars == <<phase, files, log, toHost, timed_out, exit_code>>
vars == <<programVars, benchVars>>

Init ==
    /\ ProgramInit
    /\ phase = "start" /\ files = {} /\ log = <<>> /\ toHost = 0
    /\ timed_out = TRUE /\ exit_code = 0

--------------------------------------------------------------------------------
(* The other programs.                                                         *)

hello == config.program = "hello" /\ Says(<<"12345">>)

\* An architecture test may have something to say.
RVMODEL_IO_WRITE_STR ==
    config.program = "act4" /\ \E said \in {<<>>, <<"message">>} : Says(said)

OtherProgram ==
    /\ At("boot")
    /\ hello \/ RVMODEL_IO_WRITE_STR
    /\ Goto("finish")
    /\ UNCHANGED <<config, res, data, locals, elapsed, original>>

\* portable_fini, hello.c and RVMODEL_HALT_PASS write 1, RVMODEL_HALT_FAIL 3.
haltValue == IF config.program = "act4" THEN config.halt ELSE 1

--------------------------------------------------------------------------------
(* main of sim_main.cpp.                                                       *)

Started == "[SIM] started"
Finished == "[SIM] finished"

branchTrace == {f \in {"branch trace"} : config.branch_trace}
pipeDump == {f \in {"pipe dump"} : config.pipe_dump}

\* A file that cannot be opened ends the simulation; the branch trace is left
\* open when it is the pipe dump that fails.
Open ==
    /\ phase = "start"
    /\ \/ /\ files' = {"log"} \cup branchTrace \cup pipeDump
          /\ log' = <<Started>> /\ phase' = "loop" /\ UNCHANGED exit_code
       \/ /\ files' \in {{}} \cup {branchTrace : f \in pipeDump}
          /\ phase' = "exited" /\ exit_code' = 1 /\ UNCHANGED log
    /\ UNCHANGED <<programVars, toHost, timed_out>>

\* Fault: the carriage returns are logged as well.
logged_All(byte) == <<byte>>

\* The byte that uartValid_o marks goes to the console and the log, without CR.
logged(byte) == IF byte = CR THEN <<>> ELSE <<byte>>

Transmit ==
    /\ phase = "loop" /\ out # <<>>
    /\ out' = Tail(out)
    /\ log' = log \o logged(Head(out))
    /\ UNCHANGED <<config, pc, res, data, locals, printed, elapsed, original>>
    /\ UNCHANGED <<phase, files, toHost, timed_out, exit_code>>

Execute ==
    /\ phase = "loop"
    /\ ProgramStep \/ OtherProgram
    /\ UNCHANGED benchVars

\* The value is seen in the turn in which the Store retires, and ends the loop.
ToHost ==
    /\ phase = "loop" /\ At("finish")
    /\ toHost' = haltValue /\ Goto("spin")
    /\ timed_out' = FALSE /\ phase' = "report"
    /\ UNCHANGED <<config, res, data, locals, output, files, log, exit_code>>

\* cycle_count reaches max_cycles, after any number of turns.
LimitReached ==
    /\ phase = "loop"
    /\ phase' = "report"
    /\ UNCHANGED <<programVars, files, log, toHost, timed_out, exit_code>>

result == IF timed_out THEN "TIMEOUT" ELSE IF toHost = 1 THEN "SUCCESS" ELSE "FAIL"

Finish ==
    /\ phase = "report"
    /\ log' = log \o <<Finished, result>>
    /\ exit_code' = IF result = "SUCCESS" THEN 0 ELSE 1
    /\ files' = {} /\ phase' = "exited"
    /\ UNCHANGED <<programVars, toHost, timed_out>>

Exited == phase = "exited" /\ UNCHANGED vars

Next == Open \/ Execute \/ Transmit \/ ToHost \/ LimitReached \/ Finish \/ Exited

Spec == Init /\ [][Next]_vars

\* The simulation keeps stepping until it exits.
FairSpec == Spec /\ ([]<><<TRUE>>_vars \/ <>(phase = "exited"))

--------------------------------------------------------------------------------
(* Properties.                                                                 *)

said(line) == \E k \in DOMAIN printed : printed[k] = line

\* With the parameters that main knows, no CRC is wrong, and the run is called
\* valid exactly when it took more than nine seconds (time_in_secs rounds up),
\* as long as the cycle counter and its rounding do not overflow.
KnownRunsValidate ==
    pc \in {"finish", "spin"} /\ config.program = "coremark" /\ known > 0 =>
        /\ \A line \in {"list crc error", "matrix crc error", "state crc error", "cannot validate"} : ~said(line)
        /\ elapsed + CORE_CLOCK_HZ <= TickModulus =>
              (said("validated") <=> elapsed > 9 * CORE_CLOCK_HZ)

\* The indices of the list differ, so only one order is sorted.
distinctIdx ==
    LET cells == Chain(original.heap, res.list)
    IN  \A j, k \in DOMAIN cells : idxOf(original.heap, cells[j]) = idxOf(original.heap, cells[k]) => j = k

\* The data of the benchmark is what it was: the list after every pass of
\* core_bench_list ("the list is back to original state", core_list_join.c), if
\* the indices differ; the text outside core_bench_state, if both corruptions use
\* the same seed; and the operands outside core_bench_matrix.
DataRestored ==
    original # <<>> =>
          /\ pc = "iterate" /\ distinctIdx => heap = original.heap /\ res.list = 0
          /\ pc # "state" /\ res.seed1 = res.seed2 => text = original.text
          /\ pc \notin {"matrix", "sum"} => [mat EXCEPT !.C = <<>>] = [original.mat EXCEPT !.C = <<>>]

\* Whatever the program printed is in the log without its CRs, up to the byte at
\* which the simulation stopped.
withoutCR(bytes) == SelectSeq(bytes, LAMBDA b : b # CR)
textOf(entries) ==
    SelectSeq(entries, LAMBDA e : e \notin {Started, Finished, "TIMEOUT", "SUCCESS", "FAIL"})
TextIsLogged ==
    log # <<>> => textOf(log) \o withoutCR(out) = withoutCR(bytesOf(printed))

\* The exit code is 0 exactly when the program came to its Store of 1 to tohost.
ExitCodeIsRight ==
    phase = "exited" => (exit_code = 0 <=> pc = "spin" /\ haltValue = 1)

\* A simulation that exits with 0 has logged all the text, and said so.
LogTellsTheOutcome ==
    /\ TextIsLogged /\ ExitCodeIsRight
    /\ phase = "exited" /\ exit_code = 0 => out = <<>> /\ log[Len(log)] = "SUCCESS"

\* The simulation ends, as every loop of the program does.
Finishes == <>(phase = "exited")
=============================================================================
