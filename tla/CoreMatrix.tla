----------------------------- MODULE CoreMatrix -----------------------------
(* core_matrix.c.  A matrix is a function of the index i * N + j, an element   *)
(* of A and B (MATDAT) a signed 16-bit value.  Products and sums (MATRES) of   *)
(* the sizes in use stay below 2^31.                                           *)
EXTENDS CoreUtil

Indices(N) == 0..(N * N - 1)
row(N, x) == x \div N
column(N, x) == x % N

\* The largest N whose two operands and result fit by the estimate of 8 bytes.
matrixSize(blksize) == CHOOSE n \in 0..blksize : 8 * n * n < blksize /\ blksize <= 8 * (n + 1) * (n + 1)

zeroMatrices(N) ==
    LET zero == [x \in Indices(N) |-> 0] IN [N |-> N, A |-> zero, B |-> zero, C |-> zero]

\* Row i of the loop of core_init_matrix: order is i * N + j + 1 and start the
\* value of seed before the row.
matrixRow(mat, start, i) ==
    LET N == mat.N
        order(j) == i * N + j + 1
        seed[j \in -1..(N - 1)] == IF j < 0 THEN start ELSE (order(j) * seed[j - 1]) % 65536
        B == [j \in 0..(N - 1) |-> s16(seed[j] + order(j))]
        inRow(x) == row(N, x) = i
    IN  [seed |-> seed[N - 1],
         mat |-> [mat EXCEPT
            !.B = [x \in DOMAIN @ |-> IF inRow(x) THEN B[column(N, x)] ELSE @[x]],
            !.A = [x \in DOMAIN @ |->
                      IF inRow(x) THEN (B[column(N, x)] + order(column(N, x))) % 256 ELSE @[x]]]]

matrix_add_const(A, val) == [x \in DOMAIN A |-> s16(A[x] + val)]

matrix_mul_const(A, val) == [x \in DOMAIN A |-> A[x] * val]

sumOver(f, n) == LET sum[k \in 0..n] == IF k = 0 THEN 0 ELSE sum[k - 1] + f[k - 1] IN sum[n]

\* Only the first N elements of C are written.
matrix_mul_vect(N, C, A, B) ==
    [x \in DOMAIN C |->
        IF x < N THEN sumOver([j \in 0..(N - 1) |-> A[x * N + j] * B[j]], N) ELSE C[x]]

product(N, A, B, Term(_)) ==
    [x \in Indices(N) |->
        sumOver([k \in 0..(N - 1) |-> Term(A[row(N, x) * N + k] * B[k * N + column(N, x)])], N)]

matrix_mul_matrix(N, A, B) == product(N, A, B, LAMBDA t : t)

bit_extract(x, from, to) == (x \div 2^from) % 2^to
matrix_mul_matrix_bitextract(N, A, B) ==
    product(N, A, B, LAMBDA t : bit_extract(t, 2, 4) * bit_extract(t, 5, 7))

\* matrix_big, as a MATDAT: 61440 is 0xf000.
clipOf(val) == s16(or(61440, val))

\* The loop of matrix_sum over row i.
NoSum == [ret |-> 0, tmp |-> 0, prev |-> 0]
matrix_sum(N, C, i, sum, clipval) ==
    LET after[j \in 0..N] ==
            IF j = 0 THEN sum
            ELSE LET s == after[j - 1]
                     cur == C[i * N + j - 1]
                     clipped == s.tmp + cur > clipval
                 IN  [ret |-> s.ret + IF clipped THEN 10 ELSE IF cur > s.prev THEN 1 ELSE 0,
                      tmp |-> IF clipped THEN 0 ELSE s.tmp + cur, prev |-> cur]
    IN  after[N]
=============================================================================
