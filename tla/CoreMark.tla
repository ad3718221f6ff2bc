------------------------------ MODULE CoreMark ------------------------------
(* The CoreMark program as main of core_main.c runs it on this port: one       *)
(* context, static memory, seeds from volatile variables, all three            *)
(* algorithms.  One action is one loop iteration or one straight piece of      *)
(* code; pc names the place.  The three data regions of static_memblk are      *)
(* variables of their own.                                                     *)
EXTENDS CoreList, CoreState, CoreMatrix

CONSTANTS Configs,         \* what runs, for CoreMark the seeds and TOTAL_DATA_SIZE
          CORE_CLOCK_HZ,   \* ticks in a second
          TickModulus,     \* 2^32: the width of CORE_TICKS
          TrialTicks,      \* how long a calibration run may take
          MaxTrial,        \* bound: longer calibration runs take a second or more
          RunTicks         \* how long the measured run may take

VARIABLES config,
          pc,
          res,             \* core_results
          heap, text, mat, \* the regions of the list, the state machine, the matrices
          run,             \* locals of iterate and of the calibration in main
          bench,           \* locals of core_bench_list
          sort,            \* locals of core_list_mergesort
          calc,            \* locals of calc_func and of the algorithm it runs
          out,             \* bytes that ee_printf has still to write to the UART
          printed,         \* observer: the lines printed so far
          elapsed,         \* observer: ticks that the measured run took
          original         \* observer: the regions as they were initialized

data == <<heap, text, mat>>
locals == <<run, bench, sort, calc>>
output == <<out, printed, elapsed, original>>
programVars == <<config, pc, res, data, locals, output>>

--------------------------------------------------------------------------------
(* Output: ee_printf and uart_puts put a CR before every LF.                   *)

CR == "\r"
LF == "\n"

\* The line of the IPC ends with a plain uart_putc('\n'), and the other programs
\* (Simulation) write their text as it is.
lineBytes(line) ==
    IF line \in {"ipc", "12345", "message"} THEN <<line, LF>> ELSE <<line, CR, LF>>
bytesOf(lines) ==
    LET upTo[k \in Nat] == IF k = 0 THEN <<>> ELSE upTo[k - 1] \o lineBytes(lines[k])
    IN  upTo[Len(lines)]

Says(lines) == out' = out \o bytesOf(lines) /\ printed' = printed \o lines
At(label) == pc = label /\ out = <<>>
Goto(label) == pc' = label

--------------------------------------------------------------------------------
(* main up to the first iteration.                                             *)

\* The volatile seeds; seed5 is 0 on this port.
get_seed_32(i) == <<config.seed1, config.seed2, config.seed3, config.seed4, 0>>[i]

\* The default values of main for one seed only.
givenSeeds ==
    LET given == <<get_seed_32(1), get_seed_32(2), get_seed_32(3)>>
    IN  CASE given = <<0, 0, 0>> -> <<0, 0, 102>>
          [] given = <<1, 0, 0>> -> <<13333, 13333, 102>>
          [] OTHER -> given

\* get_seed_32(5) is 0, so all algorithms run and share the memory.
NUM_ALGORITHMS == 3

sorting(list, by, caller) ==
    [by |-> by, caller |-> caller, list |-> NULL, tail |-> NULL, p |-> list, q |-> NULL,
     psize |-> 0, qsize |-> 0, insize |-> 1, nmerges |-> 0, merging |-> FALSE]
Sort(list, by, caller) == sort' = sorting(list, by, caller) /\ Goto("sort")

\* It only writes to the UART.
portable_init == Says(<<"online", "timing", "clock">>)

NoBench == [list |-> NULL]
NoCalc == [cell |-> NULL]

Inserts(s, info, size, i) ==
    \E after \in {core_list_insert_new(s, 0, info, size)} :
        heap' = after.heap /\ run' = [i |-> i, memblock |-> after.memblock]

\* core_list_init makes the head and the tail.
Boot ==
    /\ At("boot") /\ config.program = "coremark"
    /\ \E seeds \in {givenSeeds}, size \in {config.total \div NUM_ALGORITHMS} :
          /\ res' = [seed1 |-> seeds[1], seed2 |-> seeds[2], seed3 |-> seeds[3], size |-> size,
                     list |-> NULL, iterations |-> get_seed_32(4),
                     crc |-> 0, crclist |-> 0, crcmatrix |-> 0, crcstate |-> 0]
          /\ Inserts(headOnly(listSize(size)), [idx |-> LastIdx, data16 |-> TailData],
                     listSize(size), 0)
    /\ portable_init /\ Goto("insert")
    /\ UNCHANGED <<config, text, mat, bench, sort, calc, original, elapsed>>

InsertItem ==
    /\ At("insert") /\ run.i < listSize(res.size)
    /\ Inserts([heap |-> heap, memblock |-> run.memblock], item(res.seed1, run.i),
               listSize(res.size), run.i + 1)
    /\ UNCHANGED <<config, pc, res, text, mat, bench, sort, calc, output>>

IndexList ==
    /\ At("insert") /\ run.i = listSize(res.size)
    /\ heap' = indexed(heap, listSize(res.size), res.seed1)
    /\ Sort(0, "idx", "listed")
    /\ UNCHANGED <<config, res, text, mat, run, bench, calc, output>>

Listed ==
    /\ At("listed")
    /\ res' = [res EXCEPT !.list = bench.list]
    /\ mat' = zeroMatrices(matrixSize(res.size))
    /\ \E seed \in {res.seed1 + 2^16 * res.seed2} :
          run' = [i |-> 0, seed |-> IF seed = 0 THEN 1 ELSE seed]
    /\ Goto("initMatrix")
    /\ UNCHANGED <<config, heap, text, bench, sort, calc, output>>

InitMatrixRow ==
    /\ At("initMatrix") /\ run.i < mat.N
    /\ \E r \in {matrixRow(mat, run.seed, run.i)} :
          mat' = r.mat /\ run' = [i |-> run.i + 1, seed |-> r.seed]
    /\ UNCHANGED <<config, pc, res, heap, text, bench, sort, calc, output>>

MatrixReady ==
    /\ At("initMatrix") /\ run.i = mat.N
    /\ run' = [seed |-> res.seed1]
    /\ Goto("initState")
    /\ UNCHANGED <<config, res, data, bench, sort, calc, output>>

InitText ==
    /\ At("initState")
    /\ \E next \in {pattern(run.seed + 1)} :
          IF fits(text, next, res.size)
          THEN /\ text' = Append(text \o next, Comma)
               /\ run' = [seed |-> run.seed + 1] /\ UNCHANGED <<pc, original>>
          ELSE /\ text' = filled(text, res.size)
               /\ original' = [heap |-> heap, text |-> text', mat |-> mat]
               /\ Goto("initialized") /\ UNCHANGED run
    /\ UNCHANGED <<config, res, heap, mat, bench, sort, calc, out, printed, elapsed>>

restarted(iterations) ==
    [res EXCEPT !.iterations = iterations, !.crc = 0, !.crclist = 0, !.crcmatrix = 0, !.crcstate = 0]
Iterate(iterations, trial) ==
    /\ res' = restarted(iterations)
    /\ run' = [i |-> 0, second |-> FALSE, trial |-> trial]
    /\ Goto("iterate")

\* Without a number of iterations, ten are timed first.
Initialized ==
    /\ At("initialized")
    /\ IF res.iterations = 0 THEN Iterate(10, TRUE) ELSE Iterate(res.iterations, FALSE)
    /\ UNCHANGED <<config, data, bench, sort, calc, output>>

--------------------------------------------------------------------------------
(* core_list_mergesort.  sort.merging separates the loop over the runs of a    *)
(* pass from the merge of two of them.                                         *)

NewMerge ==
    /\ At("sort") /\ ~sort.merging /\ sort.p # NULL
    /\ \E cells \in {Chain(heap, sort.p)} :
          sort' = [sort EXCEPT
              !.nmerges = @ + 1, !.merging = TRUE, !.qsize = sort.insize,
              !.psize = IF Len(cells) < sort.insize THEN Len(cells) ELSE sort.insize,
              !.q = IF Len(cells) > sort.insize THEN cells[sort.insize + 1] ELSE NULL]
    /\ UNCHANGED <<config, pc, res, data, run, bench, calc, output>>

cached(c) == bit(dataOf(heap, c), 7) = 1
compares == sort.psize > 0 /\ sort.qsize > 0 /\ sort.q # NULL
\* calc_func has yet to run for one of the cells that cmp_complex compares.
uncached == {c \in {sort.p, sort.q} : compares /\ sort.by = "data" /\ ~cached(c)}

\* The values that cmp_idx and, once cached, cmp_complex compare.
keyOf(c) == IF sort.by = "idx" THEN idxOf(heap, c) ELSE dataOf(heap, c) % 2^7

takesP == sort.psize > 0 /\ (compares => keyOf(sort.p) <= keyOf(sort.q))

\* cmp_idx regenerates the data of what it compares.
compared == IF compares /\ sort.by = "idx" THEN regenerated(heap, sort.p, sort.q) ELSE heap
Take(e) ==
    /\ heap' = IF sort.tail = NULL THEN compared ELSE [compared EXCEPT !.next[sort.tail] = e]
    /\ sort' = [sort EXCEPT
           !.list = IF sort.tail = NULL THEN e ELSE @, !.tail = e,
           !.p = IF e = sort.p THEN heap.next[e] ELSE @, !.psize = IF e = sort.p THEN @ - 1 ELSE @,
           !.q = IF e = sort.q THEN heap.next[e] ELSE @, !.qsize = IF e = sort.q THEN @ - 1 ELSE @]

moreToMerge == sort.psize > 0 \/ (sort.qsize > 0 /\ sort.q # NULL)
MergeStep ==
    /\ At("sort") /\ sort.merging /\ moreToMerge /\ uncached = {}
    /\ IF takesP THEN Take(sort.p) ELSE Take(sort.q)
    /\ UNCHANGED <<config, pc, res, text, mat, run, bench, calc, output>>

MergeDone ==
    /\ At("sort") /\ sort.merging /\ ~moreToMerge
    /\ sort' = [sort EXCEPT !.p = sort.q, !.merging = FALSE]
    /\ UNCHANGED <<config, pc, res, data, run, bench, calc, output>>

\* Fault: the next pass merges runs of the same size.
nextInsize_Same == sort.insize

nextInsize == 2 * sort.insize

\* A pass of one merge ends the sort; otherwise runs of twice the size follow.
PassDone ==
    /\ At("sort") /\ ~sort.merging /\ sort.p = NULL
    /\ heap' = [heap EXCEPT !.next[sort.tail] = NULL]
    /\ IF sort.nmerges <= 1
       THEN bench' = [bench EXCEPT !.list = sort.list] /\ Goto(sort.caller) /\ UNCHANGED sort
       ELSE /\ sort' = [sorting(sort.list, sort.by, sort.caller) EXCEPT !.insize = nextInsize]
            /\ UNCHANGED <<bench, pc>>
    /\ UNCHANGED <<config, res, text, mat, run, calc, output>>

--------------------------------------------------------------------------------
(* calc_func, called by cmp_complex, with core_bench_state and                 *)
(* core_bench_matrix.                                                          *)

\* Bits 3-6 of the data, replicated.
dtypeOf(d) == 17 * ((d \div 2^3) % 2^4)

\* The end of calc_func: the CRC takes the result, the cell caches it.
Cache(c, r, retval) ==
    /\ res' = [r EXCEPT !.crc = crcu16(retval, r.crc)]
    /\ heap' = [heap EXCEPT !.data16[heap.info[c]] = 2^8 * (@ \div 2^8) + 2^7 + (retval % 2^7)]
    /\ calc' = NoCalc /\ Goto("sort")

CalcFunc ==
    /\ At("sort") /\ sort.merging /\ uncached # {}
    /\ \E c \in {IF sort.p \in uncached THEN sort.p ELSE sort.q} :
       \E d \in {dataOf(heap, c)} :
          \/ /\ d % 2^3 = 0
             /\ calc' = [cell |-> c, step |-> IF dtypeOf(d) < 34 THEN 34 ELSE dtypeOf(d),
                         p |-> 1, second |-> FALSE, final |-> NoCounts, track |-> NoCounts,
                         k |-> 1, crc |-> res.crc]
             /\ Goto("state") /\ UNCHANGED <<res, heap, mat>>
          \/ /\ d % 2^3 = 1
             /\ calc' = [cell |-> c, val |-> dtypeOf(d), op |-> 1, row |-> 0, crc |-> 0,
                         sum |-> NoSum]
             /\ mat' = [mat EXCEPT !.A = matrix_add_const(@, dtypeOf(d))]
             /\ Goto("matrix") /\ UNCHANGED <<res, heap>>
          \/ d % 2^3 > 1 /\ Cache(c, res, d) /\ UNCHANGED mat
    /\ UNCHANGED <<config, text, run, bench, sort, output>>

plus(f, g) == [s \in DOMAIN f |-> f[s] + g[s]]

\* One token of either run of the state machine.
ScanToken ==
    /\ At("state") /\ text[calc.p] # Nul
    /\ \E token \in {core_state_transition(text, calc.p)} :
          calc' = [calc EXCEPT !.p = token.p, !.final[token.state] = @ + 1,
                               !.track = plus(@, token.counts)]
    /\ UNCHANGED <<config, pc, res, data, run, bench, sort, output>>

\* Between the runs the text is corrupted with seed1, after them with seed2.
Corrupt ==
    /\ At("state") /\ text[calc.p] = Nul
    /\ text' = corrupted(text, calc.step, IF calc.second THEN res.seed2 ELSE res.seed1)
    /\ calc' = [calc EXCEPT !.p = 1, !.second = TRUE]
    /\ Goto(IF calc.second THEN "counts" ELSE "state")
    /\ UNCHANGED <<config, res, heap, mat, run, bench, sort, output>>

\* crcstate keeps the first result that is not zero.
Counts ==
    /\ At("counts")
    /\ IF calc.k <= Len(CORE_STATES)
       THEN /\ calc' = [calc EXCEPT !.k = @ + 1,
                   !.crc = crcu32(calc.track[CORE_STATES[calc.k]],
                                  crcu32(calc.final[CORE_STATES[calc.k]], @))]
            /\ UNCHANGED <<pc, res, heap>>
       ELSE Cache(calc.cell, [res EXCEPT !.crcstate = IF @ = 0 THEN calc.crc ELSE @], calc.crc)
    /\ UNCHANGED <<config, text, mat, run, bench, sort, output>>

\* The operations of matrix_test into C, and matrix_add_const back at the end.
Matrix ==
    /\ At("matrix")
    /\ IF calc.op <= 4
       THEN /\ mat' = [mat EXCEPT !.C =
                   CASE calc.op = 1 -> matrix_mul_const(mat.A, calc.val)
                     [] calc.op = 2 -> matrix_mul_vect(mat.N, mat.C, mat.A, mat.B)
                     [] calc.op = 3 -> matrix_mul_matrix(mat.N, mat.A, mat.B)
                     [] calc.op = 4 -> matrix_mul_matrix_bitextract(mat.N, mat.A, mat.B)]
            /\ calc' = [calc EXCEPT !.op = @ + 1, !.row = 0, !.sum = NoSum]
            /\ Goto("sum") /\ UNCHANGED <<res, heap>>
       ELSE \E retval \in {crcu16(calc.crc, res.crc)} :
            /\ mat' = [mat EXCEPT !.A = matrix_add_const(@, -calc.val)]
            /\ Cache(calc.cell, [res EXCEPT !.crcmatrix = IF @ = 0 THEN retval ELSE @], retval)
    /\ UNCHANGED <<config, text, run, bench, sort, output>>

\* matrix_sum, row by row.
Sum ==
    /\ At("sum")
    /\ IF calc.row < mat.N
       THEN /\ calc' = [calc EXCEPT !.row = @ + 1,
                   !.sum = matrix_sum(mat.N, mat.C, calc.row, @, clipOf(calc.val))]
            /\ UNCHANGED pc
       ELSE /\ calc' = [calc EXCEPT !.crc = crcu16(u16(calc.sum.ret), @)]
            /\ Goto("matrix")
    /\ UNCHANGED <<config, res, data, run, bench, sort, output>>

--------------------------------------------------------------------------------
(* core_bench_list and iterate.                                                *)

Bench ==
    /\ At("iterate") /\ run.i < res.iterations
    /\ \E finder_idx \in {IF run.second THEN -1 ELSE 1} :
          bench' = [finder_idx |-> finder_idx, info |-> [idx |-> finder_idx, data16 |-> 0],
                    list |-> res.list, i |-> 0, retval |-> 0, found |-> 0, missed |-> 0,
                    remover |-> NULL, finder |-> NULL]
    /\ Goto("find")
    /\ UNCHANGED <<config, res, data, run, sort, calc, output>>

\* The cell behind a found one moves to the place behind the head.
cachedNext(h, list, found) ==
    LET f == h.next[found]
        unlinked == [h EXCEPT !.next[found] = h.next[f]]
        inserted == [unlinked EXCEPT !.next[f] = unlinked.next[list]]
    IN  IF f = NULL THEN h ELSE [inserted EXCEPT !.next[list] = f]

Find ==
    /\ At("find") /\ bench.i < res.seed3
    /\ \E info \in {[bench.info EXCEPT !.data16 = bench.i % 2^8]} :
       \E this \in {core_list_find(heap, bench.list, info)},
          r \in {core_list_reverse(heap, bench.list)} :
          /\ bench' = [bench EXCEPT
                !.list = r.list, !.i = @ + 1,
                !.info = [info EXCEPT !.idx = IF @ >= 0 THEN @ + 1 ELSE @],
                !.missed = IF this = NULL THEN @ + 1 ELSE @,
                !.found = IF this = NULL THEN @ ELSE @ + 1,
                !.retval = @ + IF this = NULL THEN bit(dataOf(r.heap, r.heap.next[r.list]), 8)
                               ELSE bit(dataOf(heap, this), 0) * bit(dataOf(heap, this), 9)]
          /\ heap' = IF this = NULL THEN r.heap ELSE cachedNext(r.heap, r.list, this)
    /\ UNCHANGED <<config, pc, res, text, mat, run, sort, calc, output>>

Found ==
    /\ At("find") /\ bench.i = res.seed3
    /\ bench' = [bench EXCEPT !.retval = u16(@ + 4 * bench.found - bench.missed)]
    /\ IF bench.finder_idx > 0 THEN Sort(bench.list, "data", "remove")
                                ELSE Goto("remove") /\ UNCHANGED sort
    /\ UNCHANGED <<config, res, data, run, calc, output>>

RemoveOne ==
    /\ At("remove")
    /\ \E second \in {heap.next[bench.list]} :
       \E h \in {core_list_remove(heap, second)} :
       \E finder \in {core_list_find(h, bench.list, bench.info)} :
          /\ heap' = h
          /\ bench' = [bench EXCEPT !.remover = heap.next[second],
                        !.finder = IF finder = NULL THEN second ELSE finder]
    /\ Goto("crc")
    /\ UNCHANGED <<config, res, text, mat, run, sort, calc, output>>

\* Both loops take the data of the head once for every cell they pass.
CrcStep ==
    /\ pc \in {"crc", "crcSorted"} /\ out = <<>> /\ bench.finder # NULL
    /\ bench' = [bench EXCEPT !.retval = crcu16(dataOf(heap, bench.list), @),
                              !.finder = heap.next[@]]
    /\ UNCHANGED <<config, pc, res, data, run, sort, calc, output>>

UndoRemove ==
    /\ At("crc") /\ bench.finder = NULL
    /\ heap' = core_list_undo_remove(heap, bench.remover, heap.next[bench.list])
    /\ Sort(bench.list, "idx", "sorted")
    /\ UNCHANGED <<config, res, text, mat, run, bench, calc, output>>

Sorted ==
    /\ At("sorted")
    /\ bench' = [bench EXCEPT !.finder = heap.next[bench.list]]
    /\ Goto("crcSorted")
    /\ UNCHANGED <<config, res, data, run, sort, calc, output>>

\* An iteration runs the benchmark by index and then by data.
BenchDone ==
    /\ At("crcSorted") /\ bench.finder = NULL
    /\ \E crc \in {crcu16(bench.retval, res.crc)} :
          res' = [res EXCEPT !.crc = crc,
                             !.crclist = IF run.second /\ run.i = 0 THEN crc ELSE @]
    /\ run' = IF run.second THEN [run EXCEPT !.i = @ + 1, !.second = FALSE]
                            ELSE [run EXCEPT !.second = TRUE]
    /\ Goto("iterate")
    /\ UNCHANGED <<config, data, bench, sort, calc, output>>

--------------------------------------------------------------------------------
(* Timing, calibration and the report.                                         *)

time_in_secs(ticks) ==
    IF ticks = 0 THEN 0 ELSE ((ticks + CORE_CLOCK_HZ - 1) % TickModulus) \div CORE_CLOCK_HZ

iterated == At("iterate") /\ run.i = res.iterations

\* Ten times as many iterations until the clock shows a second, then as many as
\* should take ten.
Calibrate ==
    /\ iterated /\ run.trial
    /\ \E t \in TrialTicks : \E secs \in {time_in_secs(t % TickModulus)} :
          IF secs < 1 THEN res.iterations <= MaxTrial /\ Iterate(10 * res.iterations, TRUE)
          ELSE Iterate(res.iterations * (1 + (10 \div secs)), FALSE)
    /\ UNCHANGED <<config, data, bench, sort, calc, output>>

StopTime ==
    /\ iterated /\ ~run.trial
    /\ elapsed' \in RunTicks
    /\ Goto("report")
    /\ UNCHANGED <<config, res, data, locals, out, printed, original>>

list_known_crc == <<54448, 13120, 27257, 59156, 58305>>
matrix_known_crc == <<48722, 4505, 22024, 8151, 1863>>
state_known_crc == <<24135, 14783, 58788, 36410, 36228>>

\* known_id + 1, or 0: the cases 0x8a02, 0x7b05, 0x4eaf, 0xe9f5 and 0x18f2.
seedcrcs == <<35330, 31493, 20143, 59893, 6386>>
seedcrc == crcu16(res.size, crcu16(res.seed3, crcu16(res.seed2, crcu16(res.seed1, 0))))
known == IF \E k \in 1..5 : seedcrcs[k] = seedcrc
         THEN CHOOSE k \in 1..5 : seedcrcs[k] = seedcrc ELSE 0

lines(condition, line) == IF condition THEN <<line>> ELSE <<>>

crcErrors(k) ==
    IF k = 0 THEN <<>>
    ELSE lines(res.crclist # list_known_crc[k], "list crc error")
         \o lines(res.crcmatrix # matrix_known_crc[k], "matrix crc error")
         \o lines(res.crcstate # state_known_crc[k], "state crc error")

\* check_data_types finds no error with the types of core_portme.h.
totalErrors(k, secs) ==
    (IF k = 0 THEN -1 ELSE Len(crcErrors(k))) + (IF secs < 10 THEN 1 ELSE 0)

verdict(total_errors) ==
    IF total_errors = 0 THEN "validated"
    ELSE IF total_errors > 0 THEN "errors" ELSE "cannot validate"

\* The lines of portable_fini; its Store to tohost is ToHost of Simulation.
portable_fini == <<"retired", "ipc", "finished">>

\* The report of main, which ends with portable_fini.
Report ==
    /\ At("report")
    /\ \E k \in {known}, secs \in {time_in_secs(elapsed % TickModulus)} :
          Says(lines(k > 0, "parameters") \o crcErrors(k)
               \o <<"size", "ticks", "secs">> \o lines(secs > 0, "iterations/sec")
               \o lines(secs < 10, "too short")
               \o <<"iterations", "version", "flags", "location", "seedcrc", "crclist",
                    "crcmatrix", "crcstate", "crcfinal", verdict(totalErrors(k, secs))>>
               \o portable_fini)
    /\ Goto("finish")
    /\ UNCHANGED <<config, res, data, locals, elapsed, original>>

ProgramInit ==
    /\ config \in Configs /\ pc = "boot"
    /\ res = <<>> /\ heap = <<>> /\ text = <<>> /\ mat = <<>>
    /\ run = <<>> /\ bench = NoBench /\ sort = <<>> /\ calc = NoCalc
    /\ out = <<>> /\ printed = <<>> /\ elapsed = 0 /\ original = <<>>

ProgramStep ==
    \/ Boot \/ InsertItem \/ IndexList \/ Listed \/ InitMatrixRow \/ MatrixReady \/ InitText
    \/ Initialized
    \/ NewMerge \/ MergeStep \/ MergeDone \/ PassDone
    \/ CalcFunc \/ ScanToken \/ Corrupt \/ Counts \/ Matrix \/ Sum
    \/ Bench \/ Find \/ Found \/ RemoveOne \/ CrcStep \/ UndoRemove \/ Sorted \/ BenchDone
    \/ Calibrate \/ StopTime \/ Report
=============================================================================
