---------------------------- MODULE HarnessProofs ----------------------------
(* What drives the core and what surrounds it, for every size of it.           *)
(*                                                                             *)
(* The predictor: the folds, the histories and the snapshots are exact, for    *)
(* the core and for the simulator that drives the predictor alone, and the     *)
(* training queue never fills, so the waits of BackendCommitStage and          *)
(* wait_for_commit_port for updateReady never begin.  An entry is followed     *)
(* from the lookup to training: PredictorInv says where the histories before   *)
(* it are kept at each place, and every edge and every call preserves that.    *)
(*                                                                             *)
(* sim_main.cpp and CoreMark: what is undone, and what the exit code says.     *)
EXTENDS CbpAdapter, Integers, TLAPS

\* The default provers, with time to spare.
USE ZenonT(40), SMTT(30)

--------------------------------------------------------------------------------
(* Numbers.                                                                    *)

\* Facts that rest on well-founded induction and on finite sets, which are proved
\* at the end: a set of numbers has a least member, the empty set has none, a set
\* of numbers and the set of their successors are equally large, and a new member
\* adds one.
Least == \A S \in SUBSET Nat : S # {} => \E k \in S : \A n \in S : k <= n

Successors(S) == {i + 1 : i \in S}

Counts ==
    /\ Cardinality({}) = 0
    /\ \A n \in Nat : \A S \in SUBSET (0..n) :
        /\ Cardinality(S) \in Nat
        /\ Cardinality(Successors(S)) = Cardinality(S)
        /\ \A x \in Nat \ S : Cardinality(S \cup {x}) = Cardinality(S) + 1

\* Induction up to a bound, for a set of numbers.
LEMMA InductionTo ==
  ASSUME Least, NEW m \in Nat, NEW S, 0 \in S, \A n \in 1..m : n - 1 \in S => n \in S
  PROVE  \A n \in 0..m : n \in S
<1> SUFFICES ASSUME NEW n \in 0..m, n \notin S PROVE FALSE
  BY SMTT(60)
<1> DEFINE Bad == {k \in 0..m : k \notin S}
<1>1. Bad \in SUBSET Nat /\ Bad # {}
  BY SMTT(60)
<1> HIDE DEF Bad
<1>2. PICK p \in Bad : \A q \in Bad : p <= q
  BY <1>1 DEF Least
<1> USE DEF Bad
<1>3. p \in 1..m
  BY <1>2, SMTT(60)
<1>4. p - 1 \in 0..m /\ ~(p <= p - 1)
  BY <1>3, SMTT(60)
<1>5. p - 1 \in S
  BY <1>2, <1>4, SMTT(60)
<1> QED
  BY <1>2, <1>3, <1>5, SMTT(60)

\* Division with remainder.
LEMMA Divides ==
  ASSUME Least, NEW W \in Nat \ {0}, NEW i \in Nat
  PROVE  \E q \in Nat, r \in 0..(W - 1) : i = W * q + r
<1> DEFINE S == {n \in 0..i : \E q \in Nat, r \in 0..(W - 1) : n = W * q + r}
<1>1. 0 \in S
  <2>1. 0 \in 0..i /\ 0 \in Nat /\ 0 \in 0..(W - 1) /\ 0 = W * 0 + 0
    BY SMTT(60)
  <2> QED
    BY <2>1
<1>2. ASSUME NEW n \in 1..i, n - 1 \in S PROVE n \in S
  <2>1. PICK q \in Nat, r \in 0..(W - 1) : n - 1 = W * q + r
    BY <1>2, SMTT(60)
  <2>2. n \in 0..i
    BY SMTT(60)
  <2>3. CASE r + 1 = W
    <3>1. n = W * (q + 1) + 0 /\ q + 1 \in Nat /\ 0 \in 0..(W - 1)
      BY <2>1, <2>3, SMTT(60)
    <3> QED
      BY <2>2, <3>1
  <2>4. CASE r + 1 # W
    <3>1. n = W * q + (r + 1) /\ r + 1 \in 0..(W - 1)
      BY <2>1, <2>4, SMTT(60)
    <3> QED
      BY <2>2, <3>1
  <2> QED
    BY <2>3, <2>4
<1>3. i \in 0..i
  BY SMTT(60)
<1> HIDE DEF S
<1>4. i \in S
  BY <1>1, <1>2, <1>3, InductionTo
<1> QED
  BY <1>4 DEF S

\* The remainder of the next number.
LEMMA NextRemainder ==
  ASSUME Least, NEW W \in Nat \ {0}, NEW i \in Nat
  PROVE  i % W \in 0..(W - 1) /\ (i + 1) % W = IF (i % W) + 1 = W THEN 0 ELSE (i % W) + 1
<1>1. PICK q \in Nat, r \in 0..(W - 1) : i = W * q + r
  BY Divides
<1>2. (W * q + r) % W = r
  BY SMTT(60)
<1>3. CASE r + 1 = W
  <2>1. (W * (q + 1) + 0) % W = 0
    BY SMTT(60)
  <2>2. i + 1 = W * (q + 1) + 0
    BY <1>1, <1>3, SMTT(60)
  <2>3. i % W = r
    BY <1>1, <1>2
  <2>4. (i + 1) % W = 0
    BY <2>1, <2>2
  <2> HIDE DEF Least
  <2> QED
    BY <1>3, <2>3, <2>4, SMTT(60)
<1>4. CASE r + 1 # W
  <2>0. r + 1 \in 0..(W - 1)
    BY <1>4, SMTT(60)
  <2>1. (W * q + (r + 1)) % W = r + 1
    BY <2>0, SMTT(60)
  <2>2. i + 1 = W * q + (r + 1)
    BY <1>1, SMTT(60)
  <2>3. i % W = r
    BY <1>1, <1>2
  <2>4. (i + 1) % W = r + 1
    BY <2>1, <2>2
  <2> QED
    BY <1>4, <2>3, <2>4, SMTT(60)
<1> QED
  BY <1>3, <1>4

\* The remainder of the number before.
Before(W, j) == (j + W - 1) % W
StepsTo(W, i, j) == (i + 1) % W = j <=> i % W = Before(W, j)

LEMMA LastRemainder ==
  ASSUME Least, NEW W \in Nat \ {0}, NEW i \in Nat, NEW j \in 0..(W - 1)
  PROVE  Before(W, j) \in 0..(W - 1) /\ StepsTo(W, i, j)
<1>1. i % W \in 0..(W - 1) /\ (i + 1) % W = IF (i % W) + 1 = W THEN 0 ELSE (i % W) + 1
  BY NextRemainder
<1>2. (j + W - 1) % W = IF j = 0 THEN W - 1 ELSE j - 1
  <2>1. CASE j = 0
    <3>1. W - 1 \in 0..(W - 1) /\ j + W - 1 = W * 0 + (W - 1)
      BY <2>1, SMTT(60)
    <3>2. (W * 0 + (W - 1)) % W = W - 1
      BY <3>1, SMTT(60)
    <3> QED
      BY <2>1, <3>1, <3>2
  <2>2. CASE j # 0
    <3>1. j - 1 \in 0..(W - 1) /\ j + W - 1 = W * 1 + (j - 1)
      BY <2>2, SMTT(60)
    <3>2. (W * 1 + (j - 1)) % W = j - 1
      BY <3>1, SMTT(60)
    <3> QED
      BY <2>2, <3>1, <3>2
  <2> QED
    BY <2>1, <2>2
<1> DEFINE a == i % W
           b == (i + 1) % W
           c == (j + W - 1) % W
<1> HIDE DEF a, b, c
<1>3. a \in 0..(W - 1) /\ b = (IF a + 1 = W THEN 0 ELSE a + 1) /\ c = (IF j = 0 THEN W - 1 ELSE j - 1)
  BY <1>1, <1>2 DEF a, b, c
<1>4. c \in 0..(W - 1) /\ (b = j <=> a = c)
  BY <1>3, SMTT(60)
<1> QED
  BY <1>4 DEF a, b, c, Before, StepsTo


--------------------------------------------------------------------------------
(* Folds.                                                                      *)

\* The bits of the window that fold j is the parity of.
Ones(h, L, W, j) == {i \in 0..(L - 1) : i % W = j /\ h[i] = 1}

\* The number of ones in fold j of g, and in the fold before it of h.
Moves(g, h, L, W, b, j) ==
    LET new == Cardinality(Ones(g, L, W, j))
        old == Cardinality(Ones(h, L, W, (j + W - 1) % W))
    IN  /\ new \in Nat /\ old \in Nat
        /\ new + (IF L % W = j THEN h[L - 1] ELSE 0) = old + (IF j = 0 THEN b ELSE 0)

\* A shift moves the ones of every fold to the next one, lets the new bit into
\* fold 0 and takes the bit that leaves the window out of its fold.
LEMMA OnesShift ==
  ASSUME Least, Counts, NEW L \in Nat \ {0}, NEW W \in Nat \ {0}, NEW h, NEW g, NEW b \in Bits,
         h[L - 1] \in Bits, g[0] = b, \A i \in 1..(L - 1) : g[i] = h[i - 1], NEW j \in 0..(W - 1)
  PROVE  Moves(g, h, L, W, b, j)
<1> DEFINE p == (j + W - 1) % W
           M == {i \in 0..(L - 2) : i % W = p /\ h[i] = 1}
           A == Ones(h, L, W, p)
           B == Ones(g, L, W, j)
<1>1. ASSUME NEW i \in Nat PROVE (i + 1) % W = j <=> i % W = p
  <2>1. StepsTo(W, i, j)
    BY LastRemainder
  <2> QED
    BY <2>1 DEF StepsTo, Before
<1>2. 0 % W = 0
  <2>1. (W * 0 + 0) % W = 0 /\ W * 0 + 0 = 0
    BY SMTT(60)
  <2> QED
    BY <2>1
<1> HIDE DEF p
<1>3. Successors(M) = {i \in 1..(L - 1) : i % W = j /\ g[i] = 1}
  <2>1. ASSUME NEW i \in 0..(L - 2) PROVE i % W = p /\ h[i] = 1 <=> (i + 1) % W = j /\ g[i + 1] = 1
    <3>1. i \in Nat /\ i + 1 \in 1..(L - 1) /\ (i + 1) - 1 = i
      BY SMTT(60)
    <3> QED
      BY <1>1, <3>1
  <2>2. ASSUME NEW k \in 1..(L - 1) PROVE k - 1 \in 0..(L - 2) /\ (k - 1) + 1 = k
    BY SMTT(60)
  <2>3. ASSUME NEW i \in 0..(L - 2) PROVE i + 1 \in 1..(L - 1)
    BY SMTT(60)
  <2> DEFINE T == {i \in 1..(L - 1) : i % W = j /\ g[i] = 1}
  <2>4. ASSUME NEW x \in Successors(M) PROVE x \in T
    <3>1. PICK i \in M : x = i + 1
      BY <2>4 DEF Successors
    <3> QED
      BY <2>1, <2>3, <3>1
  <2>5. ASSUME NEW x \in T PROVE x \in Successors(M)
    <3>1. x - 1 \in 0..(L - 2) /\ (x - 1) + 1 = x
      BY <2>2, <2>5
    <3>2. x - 1 \in M
      BY <2>1, <2>5, <3>1
    <3> QED
      BY <3>1, <3>2 DEF Successors
  <2> QED
    BY <2>4, <2>5
<1> DEFINE N == Successors(M)
<1>4. M \in SUBSET (0..L) /\ N \in SUBSET (0..L) /\ L \in Nat
  BY <1>3, SMTT(60)
<1>5. 0 \in Nat \ N /\ L - 1 \in Nat \ M
  BY <1>3, SMTT(60)
<1>6. B = IF j = 0 /\ b = 1 THEN N \cup {0} ELSE N
  <2>1. \A i \in 0..(L - 1) : i = 0 \/ i \in 1..(L - 1)
    BY SMTT(60)
  <2>2. \A i \in 1..(L - 1) : i \in 0..(L - 1) /\ i # 0
    BY SMTT(60)
  <2>3. 0 \in 0..(L - 1)
    BY SMTT(60)
  <2>4. \A i : i \in B <=> (i \in N \/ (i = 0 /\ j = 0 /\ b = 1))
    BY <1>2, <1>3, <2>1, <2>2, <2>3 DEF Ones
  <2> HIDE DEF B, N
  <2> QED
    BY <2>4
<1>7. L % W = j <=> (L - 1) % W = p
  <2>1. L - 1 \in Nat /\ (L - 1) + 1 = L
    BY SMTT(60)
  <2> QED
    BY <1>1, <2>1
<1>8. A = IF L % W = j /\ h[L - 1] = 1 THEN M \cup {L - 1} ELSE M
  <2>1. \A i \in 0..(L - 1) : i = L - 1 \/ i \in 0..(L - 2)
    BY SMTT(60)
  <2>2. \A i \in 0..(L - 2) : i \in 0..(L - 1) /\ i # L - 1
    BY SMTT(60)
  <2>3. L - 1 \in 0..(L - 1)
    BY SMTT(60)
  <2>4. \A i : i \in A <=> (i \in M \/ (i = L - 1 /\ L % W = j /\ h[L - 1] = 1))
    BY <1>7, <2>1, <2>2, <2>3 DEF Ones
  <2> HIDE DEF A, M
  <2> QED
    BY <2>4
<1> HIDE DEF A, B, M
<1>9. /\ Cardinality(M) \in Nat /\ Cardinality(N) = Cardinality(M)
      /\ Cardinality(M \cup {L - 1}) = Cardinality(M) + 1
  BY <1>4, <1>5 DEF Counts
<1>10. Cardinality(N \cup {0}) = Cardinality(N) + 1
  BY <1>4, <1>5 DEF Counts
<1>11. Cardinality(B) = IF j = 0 /\ b = 1 THEN Cardinality(M) + 1 ELSE Cardinality(M)
  BY <1>6, <1>9, <1>10
<1>12. Cardinality(A) = IF L % W = j /\ h[L - 1] = 1 THEN Cardinality(M) + 1 ELSE Cardinality(M)
  BY <1>8, <1>9
<1> DEFINE m == Cardinality(M)
           new == Cardinality(B)
           old == Cardinality(A)
           out == h[L - 1]
<1>13. m \in Nat /\ b \in {0, 1} /\ out \in {0, 1}
  BY <1>9, SMTT(60) DEF Bits
<1> HIDE DEF m, new, old, out
<1>14. /\ new \in Nat /\ old \in Nat
       /\ new + (IF L % W = j THEN out ELSE 0) = old + (IF j = 0 THEN b ELSE 0)
  <2>1. new = IF j = 0 /\ b = 1 THEN m + 1 ELSE m
    BY <1>11 DEF new, m
  <2>2. old = IF L % W = j /\ out = 1 THEN m + 1 ELSE m
    BY <1>12 DEF old, out, m
  <2> QED
    BY <1>13, <2>1, <2>2, SMTT(60)
<1> QED
  BY <1>14 DEF new, old, out, A, B, p, Moves

\* The reference fold of a history whose window lies inside it.
FoldBits(W) == [0..(W - 1) -> Bits]

LEMMA FoldType ==
  ASSUME Counts, NEW shape, shape[1] \in Nat \ {0}, shape[2] \in Nat \ {0}, NEW h
  PROVE  foldHistory(h, shape) \in FoldBits(shape[2])
<1>1. ASSUME NEW j \in 0..(shape[2] - 1)
      PROVE  Cardinality({i \in 0..(shape[1] - 1) : i % shape[2] = j /\ h[i] = 1}) % 2 \in Bits
  <2> DEFINE S == {i \in 0..(shape[1] - 1) : i % shape[2] = j /\ h[i] = 1}
  <2>1. shape[1] - 1 \in Nat /\ S \in SUBSET (0..(shape[1] - 1))
    BY SMTT(60)
  <2> HIDE DEF S
  <2>2. Cardinality(S) \in Nat
    BY <2>1 DEF Counts
  <2>3. Cardinality(S) % 2 \in Bits
    BY <2>2, SMTT(60) DEF Bits
  <2> QED
    BY <2>3 DEF S
<1> QED
  BY <1>1 DEF foldHistory, FoldBits

\* One step of the incremental fold is the fold of the shifted history.
LEMMA AdvanceFoldIs ==
  ASSUME Least, Counts, NEW n \in Nat \ {0}, NEW h \in [0..(n - 1) -> Bits], NEW b \in Bits,
         NEW shape, shape[1] \in 1..n, shape[2] \in Nat \ {0}
  PROVE  advanceFold(foldHistory(h, shape), h[shape[1] - 1], b, shape) = foldHistory(Shift(h, b), shape)
<1> DEFINE L == shape[1]
           W == shape[2]
           f == foldHistory(h, shape)
           g == Shift(h, b)
           out == h[L - 1]
<1>1. L \in Nat \ {0} /\ W \in Nat \ {0}
  BY SMTT(60)
<1>2. f = [j \in 0..(W - 1) |-> Cardinality(Ones(h, L, W, j)) % 2]
  BY DEF foldHistory, Ones
<1>3. foldHistory(g, shape) = [j \in 0..(W - 1) |-> Cardinality(Ones(g, L, W, j)) % 2]
  BY DEF foldHistory, Ones
<1>4. DOMAIN h = 0..(n - 1) /\ 0 \in 0..(n - 1)
  BY SMTT(60)
<1>5. g[0] = b /\ \A i \in 1..(L - 1) : g[i] = h[i - 1]
  BY <1>1, <1>4, SMTT(60) DEF Shift
<1>6. out \in Bits
  BY <1>1, SMTT(60)
<1> DEFINE step(j) == (f[(j + W - 1) % W] + (IF j = 0 THEN b ELSE 0) + (IF j = L % W THEN out ELSE 0)) % 2
<1>7. advanceFold(f, out, b, shape) = [j \in DOMAIN f |-> step(j)]
  BY DEF advanceFold
<1>8. DOMAIN f = 0..(W - 1)
  BY <1>2
<1> HIDE DEF f, g, out, L, W
<1>9. ASSUME NEW j \in 0..(W - 1) PROVE step(j) = Cardinality(Ones(g, L, W, j)) % 2
  <2> DEFINE new == Cardinality(Ones(g, L, W, j))
             p == (j + W - 1) % W
             old == Cardinality(Ones(h, L, W, p))
  <2>1. /\ new \in Nat /\ old \in Nat
        /\ new + (IF L % W = j THEN out ELSE 0) = old + (IF j = 0 THEN b ELSE 0)
    <3>1. h[L - 1] \in Bits
      BY <1>6 DEF out
    <3>2. Moves(g, h, L, W, b, j)
      BY <1>1, <1>5, <3>1, OnesShift
    <3> QED
      BY <3>2 DEF Moves, out
  <2>2. p \in 0..(W - 1)
    <3>1. 0 \in Nat
      BY SMTT(60)
    <3>2. Before(W, j) \in 0..(W - 1)
      BY <1>1, <3>1, LastRemainder
    <3> QED
      BY <3>2 DEF Before
  <2> HIDE DEF p, new, old
  <2>3. f[p] = old % 2
    BY <1>2, <2>2 DEF old
  <2> DEFINE i == IF j = 0 THEN b ELSE 0
             o == IF L % W = j THEN out ELSE 0
  <2>4. i \in {0, 1} /\ o \in {0, 1}
    BY <1>6, SMTT(60) DEF Bits
  <2>5. new + o = old + i /\ (IF j = L % W THEN out ELSE 0) = o
    BY <2>1
  <2> HIDE DEF i, o
  <2>6. ((old % 2) + i + o) % 2 = new % 2
    BY <2>1, <2>4, <2>5, SMTT(60)
  <2> QED
    BY <2>3, <2>5, <2>6 DEF p, new, i
<1> HIDE DEF step
<1>10. [j \in DOMAIN f |-> step(j)] = [j \in 0..(W - 1) |-> Cardinality(Ones(g, L, W, j)) % 2]
  BY <1>8, <1>9
<1> QED
  BY <1>3, <1>7, <1>10 DEF f, g, out, L

--------------------------------------------------------------------------------
(* What a direction does to histories and folds.                               *)

Insn == [kind : {"cond", "jump", "other"}, bit : Bits]

\* An entry whose direction is known, and at most two of them.
Told(e) == e.insn \in Insn /\ e.taken \in BOOLEAN
Heard(es) == Len(es) \in {0, 1, 2} /\ \A k \in 1..Len(es) : Told(es[k])

FoldsOf(s) == [sh \in FoldShapes |-> foldHistory(s.history, sh)]

LEMMA ShiftType ==
  ASSUME NEW n \in Nat \ {0}, NEW h \in [0..(n - 1) -> Bits], NEW b \in Bits
  PROVE  Shift(h, b) \in [0..(n - 1) -> Bits]
<1>1. DOMAIN h = 0..(n - 1)
  BY SMTT(60)
<1>2. \A i \in 0..(n - 1) : (IF i = 0 THEN b ELSE h[i - 1]) \in Bits
  BY SMTT(60)
<1> QED
  BY <1>1, <1>2 DEF Shift

LEMMA OutcomeFields ==
  ASSUME NEW s, NEW e
  PROVE  /\ Outcome(s, e).history = IF IsCond(e) THEN Shift(s.history, Bit(e.taken)) ELSE s.history
         /\ Outcome(s, e).path
              = IF IsControl(e) THEN advancePathHistory(s.path, e.insn, e.taken) ELSE s.path
BY SMTT(60) DEF Outcome

\* Histories stay histories.
LEMMA OutcomeType ==
  ASSUME NEW s \in Snapshots, NEW e, Told(e)
  PROVE  Outcome(s, e) \in Snapshots
<1>1. s.history \in [0..(HistoryWidth - 1) -> Bits] /\ s.path \in [0..(PathWidth - 1) -> Bits]
  BY SMTT(60) DEF Snapshots, Histories, Paths
<1>2. Bit(e.taken) \in Bits
  BY SMTT(60) DEF Bit, Bits
<1>3. (e.insn.bit + Bit(e.taken)) % 2 \in Bits
  BY <1>2, SMTT(60) DEF Told, Insn, Bits
<1>4. HistoryWidth \in Nat \ {0} /\ PathWidth \in Nat \ {0}
  BY SizesAssumption
<1>5. Shift(s.history, Bit(e.taken)) \in Histories
  BY <1>1, <1>2, <1>4, ShiftType DEF Histories
<1>6. advancePathHistory(s.path, e.insn, e.taken) \in Paths
  BY <1>1, <1>3, <1>4, ShiftType DEF Paths, advancePathHistory
<1>7. s.history \in Histories /\ s.path \in Paths
  BY <1>1 DEF Histories, Paths
<1> QED
  BY <1>5, <1>6, <1>7, SMTT(60) DEF Outcome, Snapshots

\* One entry: the fold that is stepped is the fold of the history that is shifted.
LEMMA FoldStepIs ==
  ASSUME Least, Counts, NEW s \in Snapshots, NEW e, Told(e), NEW sh \in FoldShapes
  PROVE  FoldStep(foldHistory(s.history, sh), s.history, e, sh) = foldHistory(Outcome(s, e).history, sh)
<1>1. s.history \in [0..(HistoryWidth - 1) -> Bits]
  BY SMTT(60) DEF Snapshots, Histories
<1>2. Bit(e.taken) \in Bits
  BY SMTT(60) DEF Bit, Bits
<1>3. HistoryWidth \in Nat \ {0} /\ sh[1] \in 1..HistoryWidth /\ sh[2] \in Nat \ {0}
  BY SizesAssumption, ShapesFit
<1>4. Outcome(s, e).history = IF IsCond(e) THEN Shift(s.history, Bit(e.taken)) ELSE s.history
  BY OutcomeFields
<1>5. advanceFold(foldHistory(s.history, sh), s.history[sh[1] - 1], Bit(e.taken), sh)
        = foldHistory(Shift(s.history, Bit(e.taken)), sh)
  BY <1>1, <1>2, <1>3, AdvanceFoldIs
<1> QED
  BY <1>4, <1>5 DEF FoldStep

\* Up to two entries in one clock.
LEMMA OutcomesAre ==
  ASSUME Least, Counts, NEW s \in Snapshots, NEW es, Heard(es)
  PROVE  /\ Outcomes(s, es) \in Snapshots
         /\ [sh \in FoldShapes |-> speculativeFoldNext(FoldsOf(s)[sh], s, es, sh)] = FoldsOf(Outcomes(s, es))
<1>1. \A sh \in FoldShapes : FoldsOf(s)[sh] = foldHistory(s.history, sh)
  BY DEF FoldsOf
<1>2. CASE Len(es) = 0
  <2>1. Outcomes(s, es) = s
    BY <1>2, SMTT(60) DEF Outcomes
  <2>2. \A sh \in FoldShapes : speculativeFoldNext(FoldsOf(s)[sh], s, es, sh) = FoldsOf(s)[sh]
    BY <1>2, SMTT(60) DEF speculativeFoldNext
  <2> QED
    BY <1>1, <2>1, <2>2 DEF FoldsOf
<1>3. CASE Len(es) = 1
  <2>1. Told(es[1])
    BY <1>3, SMTT(60) DEF Heard
  <2>2. Outcomes(s, es) = Outcome(s, es[1])
    BY <1>3, SMTT(60) DEF Outcomes
  <2>3. \A sh \in FoldShapes :
          speculativeFoldNext(FoldsOf(s)[sh], s, es, sh) = FoldStep(foldHistory(s.history, sh), s.history, es[1], sh)
    BY <1>1, <1>3, SMTT(60) DEF speculativeFoldNext
  <2>4. Outcome(s, es[1]) \in Snapshots
    BY <2>1, OutcomeType
  <2>5. \A sh \in FoldShapes :
          FoldStep(foldHistory(s.history, sh), s.history, es[1], sh) = foldHistory(Outcome(s, es[1]).history, sh)
    BY <2>1, FoldStepIs
  <2> QED
    BY <2>2, <2>3, <2>4, <2>5 DEF FoldsOf
<1>4. CASE Len(es) = 2
  <2> DEFINE s1 == Outcome(s, es[1])
  <2>1. Told(es[1]) /\ Told(es[2])
    BY <1>4, SMTT(60) DEF Heard
  <2>2. Outcomes(s, es) = Outcome(s1, es[2])
    BY <1>4, SMTT(60) DEF Outcomes
  <2>3. \A sh \in FoldShapes :
          speculativeFoldNext(FoldsOf(s)[sh], s, es, sh)
            = FoldStep(FoldStep(foldHistory(s.history, sh), s.history, es[1], sh), s1.history, es[2], sh)
    BY <1>1, <1>4, SMTT(60) DEF speculativeFoldNext
  <2>4. s1 \in Snapshots
    BY <2>1, OutcomeType
  <2>5. \A sh \in FoldShapes :
          FoldStep(foldHistory(s.history, sh), s.history, es[1], sh) = foldHistory(s1.history, sh)
    BY <2>1, FoldStepIs
  <2> HIDE DEF s1
  <2>6. Outcome(s1, es[2]) \in Snapshots
    BY <2>1, <2>4, OutcomeType
  <2>7. \A sh \in FoldShapes :
          FoldStep(foldHistory(s1.history, sh), s1.history, es[2], sh) = foldHistory(Outcome(s1, es[2]).history, sh)
    BY <2>1, <2>4, FoldStepIs
  <2> QED
    BY <2>2, <2>3, <2>5, <2>6, <2>7 DEF FoldsOf
<1> QED
  BY <1>2, <1>3, <1>4, SMTT(60) DEF Heard

--------------------------------------------------------------------------------
(* The registers of the predictor.                                             *)

\* The histories are histories, and the folds and the lookup in flight are theirs.
Registers ==
    /\ Speculative \in Snapshots /\ Committed \in Snapshots
    /\ foldedHistory = FoldsOf(Speculative)
    /\ lookup.hint \in Hints /\ lookup.snapshot = Speculative
    /\ lookup.snapshot1 = slot1Snapshot(Speculative, lookup.hint)
    /\ lookup.snapshot1 \in Snapshots
    /\ lookup.fold = FoldsOf(lookup.snapshot) /\ lookup.fold1 = FoldsOf(lookup.snapshot1)

\* A known instruction is one.
LEMMA HintIs == ASSUME NEW hint \in Hints PROVE hint \in Insn
BY InsnsAssumption, SMTT(60) DEF Hints, NoHint, Insn, Bits

\* An edge that sets the histories and launches a lookup from them.
LEMMA EdgeSets ==
  ASSUME Least, Counts, NEW s \in Snapshots, NEW hint \in Hints,
         SetSpeculative(s, FoldsOf(s)), Launch(s, FoldsOf(s), hint), Committed' \in Snapshots
  PROVE  Registers' /\ Speculative' = s
<1> DEFINE e == [insn |-> hint, taken |-> FALSE]
           s1 == slot1Snapshot(s, hint)
<1>1. Told(e) /\ e.insn = hint
  BY HintIs, SMTT(60) DEF Told
<1>2. s1 = Outcome(s, e)
  BY DEF slot1Snapshot
<1> HIDE DEF e
<1>3. s1 \in Snapshots
  BY <1>1, <1>2, OutcomeType
<1>4. s = [history |-> s.history, path |-> s.path]
  BY SMTT(60) DEF Snapshots
<1>5. Speculative' = s
  <2>1. globalHistory' = s.history /\ globalPathHistory' = s.path
    BY DEF SetSpeculative
  <2>2. Speculative' = [history |-> s.history, path |-> s.path]
    BY <2>1 DEF Speculative
  <2> QED
    BY <1>4, <2>2
<1>6. foldedHistory' = FoldsOf(s)
  BY DEF SetSpeculative
<1> DEFINE f1 == [shape \in FoldShapes |-> slot1Fold(FoldsOf(s)[shape], s, hint, shape)]
<1>7. f1 = FoldsOf(s1)
  <2>1. ASSUME NEW sh \in FoldShapes
        PROVE  slot1Fold(FoldsOf(s)[sh], s, hint, sh) = foldHistory(s1.history, sh)
    <3>1. FoldsOf(s)[sh] = foldHistory(s.history, sh)
      BY DEF FoldsOf
    <3>2. slot1Fold(FoldsOf(s)[sh], s, hint, sh) = FoldStep(foldHistory(s.history, sh), s.history, e, sh)
      BY <3>1 DEF slot1Fold, e
    <3>3. FoldStep(foldHistory(s.history, sh), s.history, e, sh) = foldHistory(Outcome(s, e).history, sh)
      BY <1>1, FoldStepIs
    <3> QED
      BY <1>2, <3>2, <3>3
  <2>2. f1 = [sh \in FoldShapes |-> foldHistory(s1.history, sh)]
    BY <2>1
  <2> QED
    BY <2>2 DEF FoldsOf
<1> HIDE DEF s1, f1
<1>8. lookup' = [hint |-> hint, snapshot |-> s, snapshot1 |-> s1, fold |-> FoldsOf(s), fold1 |-> f1]
  BY DEF Launch, s1, f1
<1>9. /\ lookup'.hint = hint /\ lookup'.snapshot = s /\ lookup'.snapshot1 = s1
      /\ lookup'.fold = FoldsOf(s) /\ lookup'.fold1 = f1
  BY <1>8, SMTT(60)
<1>10. FoldsOf(Speculative)' = FoldsOf(s) /\ FoldsOf(lookup.snapshot)' = FoldsOf(s)
       /\ FoldsOf(lookup.snapshot1)' = FoldsOf(s1)
  BY <1>5, <1>9 DEF FoldsOf
<1>11. slot1Snapshot(Speculative, lookup.hint)' = s1
  BY <1>5, <1>9 DEF slot1Snapshot, s1
<1> QED
  BY <1>3, <1>5, <1>6, <1>7, <1>9, <1>10, <1>11 DEF Registers

--------------------------------------------------------------------------------
(* The histories after a sequence of entries.                                  *)

\* f is the histories after each of the entries.
Runs(f, s, es) == f[0] = s /\ \A n \in 1..Len(es) : f[n] = Outcome(f[n - 1], es[n])

\* The recursive After is a function and unfolds one entry at a time.
LEMMA AfterRuns ==
  ASSUME Least, NEW s, NEW es, Len(es) \in Nat
  PROVE  Runs(After(s, es), s, es)
<1> DEFINE Step(f, n) == IF n = 0 THEN s ELSE Outcome(f[n - 1], es[n])
           N == Len(es)
           Has == {m \in 0..N : \E f : f = [n \in 0..m |-> Step(f, n)]}
<1>1. 0 \in Has
  <2> DEFINE f == [n \in 0..0 |-> s]
  <2>1. f = [n \in 0..0 |-> Step(f, n)]
    <3>1. \A n \in 0..0 : Step(f, n) = s
      BY SMTT(60)
    <3> HIDE DEF Step
    <3> QED
      BY <3>1, SMTT(60)
  <2>2. \E h : h = [n \in 0..0 |-> Step(h, n)]
    <3> HIDE DEF f, Step
    <3> QED
      BY <2>1
  <2>3. 0 \in 0..N
    BY SMTT(60)
  <2> QED
    BY <2>2, <2>3
<1>2. ASSUME NEW m \in 1..N, m - 1 \in Has PROVE m \in Has
  <2>1. PICK f : f = [n \in 0..(m - 1) |-> Step(f, n)]
    BY <1>2, SMTT(60)
  <2> DEFINE g == [n \in 0..m |-> IF n = m THEN Step(f, m) ELSE f[n]]
  <2>2. ASSUME NEW n \in 0..m PROVE g[n] = Step(g, n)
    <3>0. n # 0 => n - 1 \in 0..m /\ n - 1 # m /\ g[n - 1] = f[n - 1]
      BY SMTT(60)
    <3>1. Step(g, n) = Step(f, n)
      <4> HIDE DEF g
      <4> QED
        BY <3>0
    <3>2. CASE n = m
      <4> HIDE DEF Step
      <4> QED
        BY <3>1, <3>2, SMTT(60)
    <3>3. CASE n # m
      <4>1. n \in 0..(m - 1) /\ g[n] = f[n]
        BY <3>3, SMTT(60)
      <4> HIDE DEF Step, g
      <4>2. f[n] = Step(f, n)
        BY <2>1, <4>1, SMTT(60)
      <4> QED
        BY <3>1, <4>1, <4>2
    <3> QED
      BY <3>2, <3>3
  <2>3. g = [n \in 0..m |-> Step(g, n)]
    <3> HIDE DEF Step
    <3> QED
      BY <2>2, SMTT(60)
  <2>4. \E h : h = [n \in 0..m |-> Step(h, n)]
    <3> HIDE DEF g, Step
    <3> QED
      BY <2>3
  <2>5. m \in 0..N
    BY SMTT(60)
  <2> QED
    BY <2>4, <2>5
<1>3. N \in Has
  <2> HIDE DEF Has
  <2>1. \A n \in 0..N : n \in Has
    BY <1>1, <1>2, InductionTo
  <2> QED
    BY <2>1, SMTT(60)
<1>4. PICK f : f = [n \in 0..N |-> Step(f, n)]
  BY <1>3, SMTT(60)
<1>5. After(s, es) = [n \in 0..N |-> Step(After(s, es), n)]
  BY <1>4 DEF After
<1> DEFINE r == After(s, es)
<1>6. \A n \in 0..N : r[n] = Step(r, n)
  <2>1. r = [n \in 0..N |-> Step(r, n)]
    BY <1>5
  <2> HIDE DEF r, Step
  <2> QED
    BY <2>1, SMTT(60)
<1> HIDE DEF r
<1>7. 0 \in 0..N /\ \A n \in 1..N : n \in 0..N /\ n # 0
  BY SMTT(60)
<1>8. r[0] = s /\ \A n \in 1..N : r[n] = Outcome(r[n - 1], es[n])
  BY <1>6, <1>7
<1> QED
  BY <1>8 DEF Runs, r

\* Entries of which a history takes the same.
Same(e, d) == e.insn = d.insn /\ e.taken = d.taken
Agree(more, es, m, K) == \A n \in 1..K : Same(more[n], es[m + n])
Follows(g, f, m, K) == \A n \in 0..K : g[n] = f[m + n]

LEMMA SameOutcome ==
  ASSUME NEW s, NEW e, NEW d, Same(e, d)
  PROVE  Outcome(s, e) = Outcome(s, d)
BY DEF Same, Outcome, IsCond, IsControl

\* Entries that agree, from the same histories, leave the same histories.
LEMMA RunsFollow ==
  ASSUME Least, NEW f, NEW s, NEW es, Runs(f, s, es), Len(es) \in Nat,
         NEW m \in Nat, NEW K \in Nat, m + K <= Len(es),
         NEW g, NEW more, Runs(g, f[m], more), Len(more) \in Nat, K <= Len(more),
         Agree(more, es, m, K)
  PROVE  Follows(g, f, m, K)
<1> DEFINE S == {n \in 0..K : g[n] = f[m + n]}
<1>1. 0 \in S
  <2>1. 0 \in 0..K /\ m + 0 = m
    BY SMTT(60)
  <2> QED
    BY <2>1 DEF Runs
<1>2. ASSUME NEW n \in 1..K, n - 1 \in S PROVE n \in S
  <2>1. n \in 0..K /\ n \in 1..Len(more) /\ m + n \in 1..Len(es) /\ m + (n - 1) = (m + n) - 1
    BY SMTT(60)
  <2>2. g[n] = Outcome(g[n - 1], more[n]) /\ f[m + n] = Outcome(f[(m + n) - 1], es[m + n])
    BY <2>1 DEF Runs
  <2>3. g[n - 1] = f[(m + n) - 1]
    BY <1>2, <2>1
  <2>4. Outcome(g[n - 1], more[n]) = Outcome(g[n - 1], es[m + n])
    BY SameOutcome DEF Agree
  <2> QED
    BY <2>1, <2>2, <2>3, <2>4
<1> HIDE DEF S
<1>3. \A n \in 0..K : n \in S
  BY <1>1, <1>2, InductionTo
<1> QED
  BY <1>3 DEF S, Follows

\* What a clock retires is committed one after the other.
LEMMA OutcomesFollow ==
  ASSUME NEW f, NEW s, NEW es, Runs(f, s, es), Len(es) \in {0, 1, 2}
  PROVE  Outcomes(s, es) = f[Len(es)]
<1>1. f[0] = s /\ \A n \in 1..Len(es) : f[n] = Outcome(f[n - 1], es[n])
  BY DEF Runs
<1>2. CASE Len(es) = 0
  BY <1>1, <1>2, SMTT(60) DEF Outcomes
<1>3. CASE Len(es) = 1
  <2>1. f[1] = Outcome(f[1 - 1], es[1])
    BY <1>1, <1>3, SMTT(60)
  <2> QED
    BY <1>1, <1>3, <2>1, SMTT(60) DEF Outcomes
<1>4. CASE Len(es) = 2
  <2>1. f[1] = Outcome(f[1 - 1], es[1]) /\ f[2] = Outcome(f[2 - 1], es[2])
    BY <1>1, <1>4, SMTT(60)
  <2>2. 1 - 1 = 0 /\ 2 - 1 = 1
    BY SMTT(60)
  <2>3. Outcomes(s, es) = Outcome(Outcome(s, es[1]), es[2])
    BY <1>4, SMTT(60) DEF Outcomes
  <2>4. f[2] = Outcome(Outcome(s, es[1]), es[2])
    BY <1>1, <2>1, <2>2
  <2> QED
    BY <1>4, <2>3, <2>4
<1> QED
  BY <1>2, <1>3, <1>4, SMTT(60)

\* Histories that were reached are reached again, from what was committed since.
LEMMA Carries ==
  ASSUME Least, NEW C, NEW q, Len(q) \in Nat, NEW C2, NEW q2, Len(q2) \in Nat,
         NEW r \in Nat, NEW m \in Nat, r + m <= Len(q), m <= Len(q2),
         C2 = After(C, q)[r], Agree(q2, q, r, m)
  PROVE  Follows(After(C2, q2), After(C, q), r, m)
<1> DEFINE f == After(C, q)
           g == After(C2, q2)
<1>1. Runs(f, C, q) /\ Runs(g, C2, q2)
  BY AfterRuns
<1>2. Runs(g, f[r], q2)
  BY <1>1
<1> HIDE DEF f, g
<1>3. Follows(g, f, r, m)
  BY <1>1, <1>2, RunsFollow
<1> QED
  BY <1>3 DEF f, g

\* The newest entries of a clock come last.
Ends(q, m, es) ==
    Len(es) \in {0, 1, 2} /\ Len(q) = m + Len(es) /\ \A j \in 1..Len(es) : Same(q[m + j], es[j])

LEMMA Extends ==
  ASSUME Least, NEW C, NEW q, NEW m \in Nat, NEW es, Ends(q, m, es)
  PROVE  After(C, q)[Len(q)] = Outcomes(After(C, q)[m], es)
<1>0. Len(es) \in {0, 1, 2} /\ Len(q) = m + Len(es) /\ \A j \in 1..Len(es) : Same(q[m + j], es[j])
  BY DEF Ends
<1> DEFINE f == After(C, q)
           g == [j \in 0..Len(es) |-> f[m + j]]
<1>1. Len(q) \in Nat /\ Len(es) \in Nat
  BY <1>0, SMTT(60)
<1>2. Runs(f, C, q)
  BY <1>1, AfterRuns
<1> HIDE DEF f
<1>3. 0 \in 0..Len(es) /\ Len(es) \in 0..Len(es) /\ m + 0 = m
  BY <1>1, SMTT(60)
<1>4. g[0] = f[m] /\ g[Len(es)] = f[Len(q)]
  BY <1>0, <1>3
<1>5. ASSUME NEW j \in 1..Len(es) PROVE g[j] = Outcome(g[j - 1], es[j])
  <2>1. m + j \in 1..Len(q) /\ (m + j) - 1 = m + (j - 1) /\ j \in 0..Len(es) /\ j - 1 \in 0..Len(es)
    BY <1>0, <1>1, SMTT(60)
  <2>2. f[m + j] = Outcome(f[m + (j - 1)], q[m + j])
    BY <1>2, <2>1 DEF Runs
  <2>3. g[j] = f[m + j] /\ g[j - 1] = f[m + (j - 1)]
    BY <2>1
  <2>4. Outcome(f[m + (j - 1)], q[m + j]) = Outcome(f[m + (j - 1)], es[j])
    BY <1>0, SameOutcome
  <2> QED
    BY <2>2, <2>3, <2>4
<1> HIDE DEF g
<1>6. Runs(g, f[m], es)
  BY <1>4, <1>5 DEF Runs
<1>7. Outcomes(f[m], es) = g[Len(es)]
  BY <1>0, <1>6, OutcomesFollow
<1> QED
  BY <1>4, <1>7 DEF f

--------------------------------------------------------------------------------
(* The core.                                                                   *)

CoreEntry ==
    [insn : Insn, taken : BOOLEAN, meta : Snapshots, resolved : BOOLEAN, exact : BOOLEAN]

\* What is in flight, oldest first, and the histories before and after each entry.
Flight == rob \o window
Path == After(Committed, Flight)

\* Where the snapshot of an entry is, in the ROB and before.
Saved(k) == IF k <= Len(rob) THEN checkpoints[Tag(k)] ELSE window[k - Len(rob)].meta

Buffers ==
    /\ rob \in Seq(CoreEntry) /\ window \in Seq(CoreEntry)
    /\ Len(rob) <= RobSize /\ Len(window) <= WindowDepth
    /\ robHead \in Tags /\ checkpoints \in [Tags -> Snapshots] /\ synced \in BOOLEAN

\* Only control flow resolves, and the snapshot of an exact entry is exact.
Snapped(k) ==
    /\ ~Flight[k].resolved => IsControl(Flight[k])
    /\ Flight[k].exact /\ IsControl(Flight[k]) => Saved(k) = Path[k - 1]

\* While nothing was missed, the speculative histories are those of the flight.
Following == synced => Speculative = Path[Len(Flight)]

CoreInv == Buffers /\ (\A k \in 1..Len(Flight) : Snapped(k)) /\ Following

\* s is a followed by b.
Joined(s, a, b, T) ==
    /\ s \in Seq(T) /\ Len(s) = Len(a) + Len(b)
    /\ \A k \in 1..Len(a) : s[k] = a[k]
    /\ \A k \in 1..Len(b) : s[Len(a) + k] = b[k]

LEMMA JoinedIs ==
  ASSUME NEW T, NEW a \in Seq(T), NEW b \in Seq(T)
  PROVE  Joined(a \o b, a, b, T)
BY SMTT(60) DEF Joined

LEMMA FlightIs ==
  ASSUME NEW T, rob \in Seq(T), window \in Seq(T)
  PROVE  Joined(Flight, rob, window, T)
BY JoinedIs DEF Flight

\* The ROB with the branch at place k resolved.
LEMMA ResolvedIs ==
  ASSUME rob \in Seq(CoreEntry), NEW k
  PROVE  /\ Resolved(k) \in Seq(CoreEntry) /\ Len(Resolved(k)) = Len(rob)
         /\ \A j \in 1..Len(rob) :
               /\ Resolved(k)[j].insn = rob[j].insn /\ Resolved(k)[j].taken = rob[j].taken
               /\ Resolved(k)[j].exact = rob[j].exact
               /\ ~Resolved(k)[j].resolved => ~rob[j].resolved
<1> DEFINE s == Resolved(k)
<1>1. DOMAIN rob = 1..Len(rob) /\ \A j \in 1..Len(rob) : rob[j] \in CoreEntry
  BY SMTT(60)
<1>2. s = [j \in 1..Len(rob) |-> IF j = k THEN [rob[j] EXCEPT !.resolved = TRUE] ELSE rob[j]]
  BY <1>1 DEF Resolved
<1>3. ASSUME NEW j \in 1..Len(rob)
      PROVE  /\ s[j] \in CoreEntry /\ s[j].insn = rob[j].insn /\ s[j].taken = rob[j].taken
             /\ s[j].exact = rob[j].exact /\ (~s[j].resolved => ~rob[j].resolved)
  <2>0. rob[j] \in CoreEntry
    BY <1>1, SMTT(60)
  <2>1. CASE j = k
    <3>1. s[j] = [rob[j] EXCEPT !.resolved = TRUE]
      BY <1>2, <2>1, SMTT(60)
    <3> HIDE DEF s
    <3> QED
      BY <2>0, <3>1 DEF CoreEntry
  <2>2. CASE j # k
    <3>1. s[j] = rob[j]
      BY <1>2, <2>2, SMTT(60)
    <3> HIDE DEF s
    <3> QED
      BY <2>0, <3>1
  <2> QED
    BY <2>1, <2>2
<1> HIDE DEF s
<1>4. s \in [1..Len(rob) -> CoreEntry]
  BY <1>2, <1>3, SMTT(60)
<1>5. s \in Seq(CoreEntry) /\ Len(s) = Len(rob)
  BY <1>4, SMTT(60)
<1> QED
  BY <1>3, <1>5 DEF s

\* Where everything goes in a clock without redirect.
Queued(T, rb, w, es, d, r) ==
    /\ rob' \in Seq(T) /\ window' \in Seq(T)
    /\ Len(rob') = Len(rb) - r + d /\ Len(window') = Len(w) - d + Len(es)
    /\ \A i \in 1..(Len(rb) - r) : rob'[i] = rb[r + i]
    /\ \A i \in 1..d : rob'[Len(rb) - r + i] = w[i]
    /\ \A i \in 1..(Len(w) - d) : window'[i] = w[d + i]
    /\ \A i \in 1..Len(es) : window'[Len(w) - d + i] = es[i]

LEMMA QueuesMove ==
  ASSUME NEW T, NEW rb \in Seq(T), NEW w \in Seq(T), NEW es \in Seq(T), NEW d \in 0..Len(w), NEW r \in 0..Len(rb),
         window' = SubSeq(w, d + 1, Len(w)) \o es,
         rob' = SubSeq(rb, r + 1, Len(rb)) \o SubSeq(w, 1, d)
  PROVE  Queued(T, rb, w, es, d, r)
<1> DEFINE a == SubSeq(w, d + 1, Len(w))
           b == SubSeq(rb, r + 1, Len(rb))
           c == SubSeq(w, 1, d)
<1>1. a \in Seq(T) /\ Len(a) = Len(w) - d /\ \A i \in 1..Len(a) : a[i] = w[d + i]
  BY SMTT(60)
<1>2. b \in Seq(T) /\ Len(b) = Len(rb) - r /\ \A i \in 1..Len(b) : b[i] = rb[r + i]
  BY SMTT(60)
<1>3. c \in Seq(T) /\ Len(c) = d /\ \A i \in 1..d : c[i] = w[i]
  BY SMTT(60)
<1>4. window' = a \o es /\ rob' = b \o c
  BY SMTT(60)
<1> HIDE DEF a, b, c
<1>5. Joined(window', a, es, T)
  BY <1>1, <1>4, JoinedIs
<1>6. Joined(rob', b, c, T)
  BY <1>2, <1>3, <1>4, JoinedIs
<1>7. /\ rob' \in Seq(T) /\ window' \in Seq(T)
      /\ Len(rob') = Len(rb) - r + d /\ Len(window') = Len(w) - d + Len(es)
  BY <1>1, <1>2, <1>3, <1>5, <1>6 DEF Joined
<1>8. \A i \in 1..(Len(rb) - r) : rob'[i] = rb[r + i]
  BY <1>2, <1>6 DEF Joined
<1>9. \A i \in 1..d : rob'[Len(rb) - r + i] = w[i]
  BY <1>2, <1>3, <1>6 DEF Joined
<1>10. \A i \in 1..(Len(w) - d) : window'[i] = w[d + i]
  BY <1>1, <1>5 DEF Joined
<1>11. \A i \in 1..Len(es) : window'[Len(w) - d + i] = es[i]
  BY <1>1, <1>5 DEF Joined
<1> QED
  BY <1>7, <1>8, <1>9, <1>10, <1>11 DEF Queued

\* A number below three times the depth wraps by at most two subtractions.
Wrap(R, x) == IF x < R THEN x ELSE IF x < 2 * R THEN x - R ELSE x - 2 * R

LEMMA ModIs ==
  ASSUME NEW R \in Nat \ {0}, NEW x \in Nat, x < 3 * R
  PROVE  x % R = Wrap(R, x)
<1> USE DEF Wrap
<1>1. CASE x < R
  BY <1>1, SMTT(60)
<1>2. CASE ~(x < R) /\ x < 2 * R
  <2>1. PICK r \in 0..(R - 1) : x = R + r
    BY <1>2, SMTT(60)
  <2>2. (R + r) % R = r
    BY SMTT(60)
  <2> QED
    BY <1>2, <2>1, <2>2, SMTT(60)
<1>3. CASE ~(x < R) /\ ~(x < 2 * R)
  <2>1. PICK r \in 0..(R - 1) : x = R * 2 + r
    BY <1>3, SMTT(60)
  <2>2. (R * 2 + r) % R = r
    BY SMTT(60)
  <2> QED
    BY <1>3, <2>1, <2>2, SMTT(60)
<1> QED
  BY <1>1, <1>2, <1>3

\* The tag of a place, and the place of a tag behind the last entry.
TagOf(h, p) == (h + p - 1) % RobSize
Behind(h, L, t) == ((t + 2 * RobSize - h - L) % RobSize) + 1

LEMMA TagPlace ==
  ASSUME NEW h \in Tags, NEW L \in 0..RobSize, NEW p \in 1..RobSize
  PROVE  TagOf(h, p) \in Tags /\ Behind(h, L, TagOf(h, p)) = IF p > L THEN p - L ELSE p - L + RobSize
<1> DEFINE R == RobSize
           t == TagOf(h, p)
           x == t + 2 * R - h - L
<1>1. R \in Nat \ {0} /\ h \in 0..(R - 1)
  BY SizesAssumption DEF Tags
<1> HIDE DEF R
<1>2. p \in 1..R /\ L \in 0..R
  BY DEF R
<1>3. h + p - 1 \in Nat /\ h + p - 1 < 3 * R
  BY <1>1, <1>2, SMTT(60)
<1>4. t = (h + p - 1) % R
  BY DEF TagOf, R
<1>5. (h + p - 1) % R = Wrap(R, h + p - 1)
  BY <1>1, <1>3, ModIs
<1> HIDE DEF t
<1>6. t = (IF h + p - 1 < R THEN h + p - 1 ELSE h + p - 1 - R) /\ t \in 0..(R - 1)
  <2>1. h + p - 1 < 2 * R
    BY <1>1, <1>2, SMTT(60)
  <2>2. t = (IF h + p - 1 < R THEN h + p - 1 ELSE h + p - 1 - R)
    <3>1. t = Wrap(R, h + p - 1)
      BY <1>4, <1>5
    <3> QED
      BY <1>1, <1>2, <2>1, <3>1, SMTT(60) DEF Wrap
  <2> QED
    BY <1>1, <1>2, <2>1, <2>2, SMTT(60)
<1>7. x \in Nat /\ x < 3 * R
  BY <1>1, <1>2, <1>6, SMTT(60)
<1> DEFINE y == x % R
<1>9. y = Wrap(R, x)
  BY <1>1, <1>7, ModIs
<1>10. y + 1 = IF p > L THEN p - L ELSE p - L + R
  <2> HIDE DEF y
  <2> QED
    BY <1>1, <1>2, <1>6, <1>9, SMTT(60) DEF Wrap
<1> QED
  BY <1>6, <1>10 DEF t, R, Behind, Tags

\* Retirement moves the head and the places together.
LEMMA TagMoves ==
  ASSUME NEW h \in Tags, NEW r \in 0..RobSize, NEW i \in 1..RobSize, r + i <= RobSize
  PROVE  (h + r) % RobSize \in Tags /\ TagOf((h + r) % RobSize, i) = TagOf(h, r + i)
<1> DEFINE R == RobSize
           g == (h + r) % R
<1>1. R \in Nat \ {0} /\ h \in 0..(R - 1)
  BY SizesAssumption DEF Tags
<1> HIDE DEF R
<1>2. r \in 0..R /\ i \in 1..R /\ r + i <= R
  BY DEF R
<1>3. h + r \in Nat /\ h + r < 3 * R
  BY <1>1, <1>2, SMTT(60)
<1>4. g = Wrap(R, h + r)
  BY <1>1, <1>3, ModIs
<1> HIDE DEF g
<1>5. g \in 0..(R - 1) /\ g = IF h + r < R THEN h + r ELSE h + r - R
  BY <1>1, <1>2, <1>4, SMTT(60) DEF Wrap
<1>6. g + i - 1 \in Nat /\ g + i - 1 < 3 * R /\ h + (r + i) - 1 \in Nat /\ h + (r + i) - 1 < 3 * R
  BY <1>1, <1>2, <1>5, SMTT(60)
<1> DEFINE x == g + i - 1
           y == h + (r + i) - 1
<1>7. x % R = Wrap(R, x)
  BY <1>1, <1>6, ModIs
<1>8. y % R = Wrap(R, y)
  BY <1>1, <1>6, ModIs
<1>9. Wrap(R, x) = Wrap(R, y)
  BY <1>1, <1>2, <1>5, SMTT(60) DEF Wrap
<1>10. x % R = y % R
  BY <1>7, <1>8, <1>9
<1> QED
  BY <1>5, <1>10 DEF g, R, TagOf, Tags

\* Dispatch leaves the snapshots of the entries before it, and adds its own.
LEMMA DispatchIs ==
  ASSUME robHead \in Tags, checkpoints \in [Tags -> Snapshots], Len(rob) \in 0..RobSize,
         NEW es \in Seq(CoreEntry), Len(es) <= RobSize - Len(rob), Dispatch(es)
  PROVE  /\ checkpoints' \in [Tags -> Snapshots]
         /\ \A p \in 1..Len(rob) : checkpoints'[TagOf(robHead, p)] = checkpoints[TagOf(robHead, p)]
         /\ \A j \in 1..Len(es) : IsControl(es[j]) =>
               checkpoints'[TagOf(robHead, Len(rob) + j)] = es[j].meta
<1> DEFINE B(t) == Behind(robHead, Len(rob), t)
           new(t) == IF B(t) \in DOMAIN es /\ IsControl(es[B(t)]) THEN es[B(t)].meta ELSE checkpoints[t]
<1>1. checkpoints' = [t \in Tags |-> new(t)]
  BY DEF Dispatch, Behind
<1>2. DOMAIN es = 1..Len(es) /\ Len(es) \in Nat /\ \A j \in 1..Len(es) : es[j].meta \in Snapshots
  <2>1. DOMAIN es = 1..Len(es) /\ Len(es) \in Nat /\ \A j \in 1..Len(es) : es[j] \in CoreEntry
    BY SMTT(60)
  <2>2. \A e \in CoreEntry : e.meta \in Snapshots
    BY SMTT(60) DEF CoreEntry
  <2> QED
    BY <2>1, <2>2
<1>3. RobSize \in Nat \ {0}
  BY SizesAssumption
<1> HIDE DEF B
<1>4. checkpoints' \in [Tags -> Snapshots]
  <2>1. \A t \in Tags : new(t) \in Snapshots
    BY <1>2
  <2> HIDE DEF new
  <2> QED
    BY <1>1, <2>1, SMTT(60)
<1>5. ASSUME NEW p \in 1..Len(rob) PROVE checkpoints'[TagOf(robHead, p)] = checkpoints[TagOf(robHead, p)]
  <2> DEFINE t == TagOf(robHead, p)
             L == Len(rob)
  <2>1. p \in 1..RobSize /\ ~(p > L)
    BY <1>3, SMTT(60)
  <2>2. t \in Tags /\ B(t) = IF p > L THEN p - L ELSE p - L + RobSize
    BY <2>1, TagPlace DEF B
  <2> HIDE DEF t
  <2>3. B(t) = p - L + RobSize
    BY <2>1, <2>2
  <2>4. B(t) \notin 1..Len(es)
    BY <1>2, <1>3, <2>3, SMTT(60)
  <2>5. new(t) = checkpoints[t]
    BY <1>2, <2>4
  <2> HIDE DEF new
  <2>6. checkpoints'[t] = new(t)
    BY <1>1, <2>2, SMTT(60)
  <2> QED
    BY <2>5, <2>6 DEF t
<1>6. ASSUME NEW j \in 1..Len(es), IsControl(es[j])
      PROVE  checkpoints'[TagOf(robHead, Len(rob) + j)] = es[j].meta
  <2> DEFINE t == TagOf(robHead, Len(rob) + j)
             L == Len(rob)
  <2>1. L + j \in 1..RobSize /\ L + j > L /\ (L + j) - L = j
    BY <1>2, <1>3, SMTT(60)
  <2>2. t \in Tags /\ B(t) = IF L + j > L THEN (L + j) - L ELSE (L + j) - L + RobSize
    BY <2>1, TagPlace DEF B
  <2> HIDE DEF t
  <2>3. B(t) = j
    BY <2>1, <2>2
  <2>5. new(t) = es[j].meta
    BY <1>2, <1>6, <2>3
  <2> HIDE DEF new
  <2>6. checkpoints'[t] = new(t)
    BY <1>1, <2>2, SMTT(60)
  <2> QED
    BY <2>5, <2>6 DEF t
<1> QED
  BY <1>4, <1>5, <1>6

\* A response as the front end takes it: the snapshots are those of the lookup.
Fetched(es) ==
    /\ es \in Seq(CoreEntry) /\ Len(es) \in {0, 1, 2}
    /\ \A j \in 1..Len(es) : ~es[j].resolved => IsControl(es[j])
    /\ Len(es) \in {1, 2} => es[1].meta = lookup.snapshot /\ (es[1].exact => synced)
    /\ Len(es) = 2 => /\ es[2].meta = lookup.snapshot1
                      /\ ~es[1].taken /\ HintFits(es[1].insn)
                      /\ es[2].exact => synced /\ HintSaw(es[1].insn)

Made(e, insn, taken, meta, exact) ==
    /\ e \in CoreEntry /\ e.meta = meta /\ e.exact = exact /\ e.insn = insn /\ e.taken = taken
    /\ ~e.resolved => IsControl(e)

LEMMA EntryIs ==
  ASSUME NEW insn \in Insns, NEW taken \in BOOLEAN, NEW meta \in Snapshots, NEW exact \in BOOLEAN
  PROVE  Made(Entry(insn, taken, meta, exact), insn, taken, meta, exact)
<1> DEFINE e == Entry(insn, taken, meta, exact)
<1>1. insn \in Insn
  BY InsnsAssumption DEF Insn
<1>2. [insn |-> insn].insn = insn
  BY SMTT(60)
<1>3. e = [insn |-> insn, taken |-> taken, meta |-> meta, resolved |-> ~(insn.kind # "other"), exact |-> exact]
  BY <1>2 DEF Entry, IsControl
<1> HIDE DEF e
<1>4. /\ e.meta = meta /\ e.exact = exact /\ e.insn = insn /\ e.taken = taken
      /\ e.resolved = ~(insn.kind # "other")
  BY <1>3, SMTT(60)
<1>5. e \in CoreEntry
  BY <1>1, <1>3 DEF CoreEntry
<1>6. ~e.resolved => IsControl(e)
  BY <1>4 DEF IsControl
<1> QED
  BY <1>4, <1>5, <1>6 DEF e, Made

LEMMA ResponseIs ==
  ASSUME Registers, synced \in BOOLEAN, NEW es \in Responses
  PROVE  Fetched(es)
<1>1. lookup.snapshot \in Snapshots /\ lookup.snapshot1 \in Snapshots
  BY DEF Registers
<1>2. CASE es = <<>>
  BY <1>2, SMTT(60) DEF Fetched
<1> DEFINE H == {h \in Insns : HintFits(h)}
           One(i) == <<Entry(i, TRUE, lookup.snapshot, synced)>>
           Two(i, j, taken) == <<Entry(i, FALSE, lookup.snapshot, synced),
                                 Entry(j, taken, lookup.snapshot1, synced /\ HintSaw(i))>>
           Ones1 == {One(i) : i \in H}
           Twos == {Two(i, j, taken) : i \in H, j \in Insns, taken \in BOOLEAN}
<1>5. Responses = {<<>>} \union Ones1 \union Twos
  BY SMT DEF Responses
<1> HIDE DEF One, Two, Ones1, Twos
<1>6. es = <<>> \/ es \in Ones1 \/ es \in Twos
  BY <1>5
<1>7. CASE es \in Ones1
  <2>0. PICK i \in H : es = One(i)
    BY <1>7 DEF Ones1
  <2> DEFINE e == Entry(i, TRUE, lookup.snapshot, synced)
  <2>1. e \in CoreEntry /\ e.meta = lookup.snapshot /\ e.exact = synced /\ (~e.resolved => IsControl(e))
    <3>1. Made(e, i, TRUE, lookup.snapshot, synced)
      BY <1>1, EntryIs
    <3> HIDE DEF e
    <3> QED
      BY <3>1 DEF Made
  <2> HIDE DEF e
  <2>2. es = <<e>>
    BY <2>0 DEF e, One
  <2>3. es \in Seq(CoreEntry) /\ Len(es) = 1 /\ es[1] = e /\ \A j \in 1..1 : j = 1
    BY <2>1, <2>2, SMTT(60)
  <2> QED
    BY <2>1, <2>3, SMTT(60) DEF Fetched
<1>8. CASE es \in Twos
  <2>a. \E i \in H, j \in Insns, taken \in BOOLEAN : es = Two(i, j, taken)
    BY <1>8, SMT DEF Twos
  <2>0. PICK i \in H, j \in Insns, taken \in BOOLEAN : es = Two(i, j, taken)
    BY <2>a
  <2>b. i \in Insns /\ HintFits(i)
    BY SMTT(60)
  <2> DEFINE e == Entry(i, FALSE, lookup.snapshot, synced)
             x == synced /\ HintSaw(i)
             f == Entry(j, taken, lookup.snapshot1, x)
  <2>1. /\ e \in CoreEntry /\ e.meta = lookup.snapshot /\ e.exact = synced /\ (~e.resolved => IsControl(e))
        /\ e.insn = i /\ e.taken = FALSE
    <3>1. Made(e, i, FALSE, lookup.snapshot, synced)
      BY <1>1, EntryIs
    <3> HIDE DEF e
    <3> QED
      BY <3>1 DEF Made
  <2>2. x \in BOOLEAN
    BY SMTT(60)
  <2>3. f \in CoreEntry /\ f.meta = lookup.snapshot1 /\ f.exact = x /\ (~f.resolved => IsControl(f))
    <3> HIDE DEF x
    <3>1. Made(f, j, taken, lookup.snapshot1, x)
      BY <1>1, <2>2, EntryIs
    <3> HIDE DEF f
    <3> QED
      BY <3>1 DEF Made
  <2> HIDE DEF e, f
  <2>4. es = <<e, f>>
    BY <2>0 DEF e, f, Two
  <2>5. es \in Seq(CoreEntry) /\ Len(es) = 2 /\ es[1] = e /\ es[2] = f /\ \A n \in 1..2 : n = 1 \/ n = 2
    BY <2>1, <2>3, <2>4, SMTT(60)
  <2>6. \A n \in 1..Len(es) : ~es[n].resolved => IsControl(es[n])
    BY <2>1, <2>3, <2>5
  <2>7. es[1].meta = lookup.snapshot /\ (es[1].exact => synced) /\ ~es[1].taken /\ HintFits(es[1].insn)
    BY <2>b, <2>1, <2>5
  <2>8. es[2].meta = lookup.snapshot1 /\ (es[2].exact => synced /\ HintSaw(es[1].insn))
    BY <2>1, <2>3, <2>5
  <2> QED
    BY <2>5, <2>6, <2>7, <2>8, SMTT(60) DEF Fetched
<1> QED
  BY <1>2, <1>6, <1>7, <1>8

\* A response that missed nothing has the histories before each of its entries.
LEMMA ResponseExact ==
  ASSUME Registers, NEW es, Fetched(es), NEW j \in 1..Len(es), es[j].exact
  PROVE  synced /\ es[j].meta = IF j = 1 THEN Speculative ELSE Outcome(Speculative, es[1])
<1>1. lookup.snapshot = Speculative /\ lookup.snapshot1 = slot1Snapshot(Speculative, lookup.hint)
  BY DEF Registers
<1>2. CASE j = 1
  <2>1. Len(es) \in {1, 2}
    BY <1>2, SMTT(60) DEF Fetched
  <2> QED
    BY <1>1, <1>2, <2>1 DEF Fetched
<1>3. CASE j # 1
  <2>1. Len(es) = 2 /\ j = 2
    BY <1>3, SMTT(60) DEF Fetched
  <2>2. /\ es[2].meta = lookup.snapshot1 /\ ~es[1].taken /\ HintFits(es[1].insn)
        /\ synced /\ HintSaw(es[1].insn)
    BY <2>1 DEF Fetched
  <2> DEFINE h == [insn |-> lookup.hint, taken |-> FALSE]
  <2>3. h.insn = lookup.hint /\ h.taken = FALSE
    BY SMTT(60)
  <2>4. slot1Snapshot(Speculative, lookup.hint) = Outcome(Speculative, h)
    BY DEF slot1Snapshot
  <2> HIDE DEF h
  <2>5. Outcome(Speculative, h) = Outcome(Speculative, es[1])
    <3>1. CASE lookup.hint = es[1].insn
      <4>1. es[1].taken = FALSE
        <5>1. es \in Seq(CoreEntry) /\ 1 \in 1..Len(es)
          BY <2>1, SMTT(60) DEF Fetched
        <5>2. es[1] \in CoreEntry
          BY <5>1, SMTT(60)
        <5>3. es[1].taken \in BOOLEAN
          BY <5>2, SMTT(60) DEF CoreEntry
        <5> QED
          BY <2>2, <5>3, SMTT(60)
      <4>2. Same(h, es[1])
        BY <2>3, <3>1, <4>1 DEF Same
      <4> QED
        BY <4>2, SameOutcome
    <3>2. CASE lookup.hint # es[1].insn
      <4>1. es[1].insn.kind = "other" /\ lookup.hint = NoHint
        BY <2>2, <3>2 DEF HintSaw, HintFits
      <4>2. lookup.hint.kind = "other"
        BY <4>1, SMTT(60) DEF NoHint
      <4>3. ~IsCond(h) /\ ~IsControl(h) /\ ~IsCond(es[1]) /\ ~IsControl(es[1])
        BY <2>3, <4>1, <4>2, SMTT(60) DEF IsCond, IsControl
      <4> QED
        BY <4>3 DEF Outcome
    <3> QED
      BY <3>1, <3>2
  <2> QED
    BY <1>1, <1>3, <2>1, <2>2, <2>4, <2>5
<1> QED
  BY <1>2, <1>3

\* Retirement commits the histories that the oldest entries lead to.
LEMMA CommitIs ==
  ASSUME Least, Counts, Committed \in Snapshots, NEW T, rob \in Seq(T), \A e \in T : Told(e),
         NEW q, Len(q) \in Nat, NEW r \in 0..2, r <= Len(rob), r <= Len(q),
         \A i \in 1..r : q[i] = rob[i], CommitHistory(SubSeq(rob, 1, r))
  PROVE  Committed' \in Snapshots /\ Committed' = After(Committed, q)[r]
<1> DEFINE es == SubSeq(rob, 1, r)
           s == Outcomes(Committed, es)
           f == After(Committed, q)
<1>1. es \in Seq(T) /\ Len(es) = r /\ \A i \in 1..r : es[i] = rob[i] /\ es[i] \in T
  BY SMTT(60)
<1> HIDE DEF es
<1>2. Heard(es)
  <2>1. Len(es) \in {0, 1, 2}
    BY <1>1, SMTT(60)
  <2> QED
    BY <1>1, <2>1 DEF Heard
<1>3. s \in Snapshots
  BY <1>2, OutcomesAre
<1>4. Committed' = s
  <2>1. committedHistory' = s.history /\ committedPathHistory' = s.path
    BY DEF CommitHistory, es
  <2> HIDE DEF s
  <2>2. s = [history |-> s.history, path |-> s.path]
    BY <1>3, SMTT(60) DEF Snapshots
  <2>3. Committed' = [history |-> s.history, path |-> s.path]
    BY <2>1 DEF Committed
  <2> QED
    BY <2>2, <2>3
<1>5. s = f[r]
  <2>1. Runs(f, Committed, q)
    BY AfterRuns
  <2> HIDE DEF f
  <2>2. \A n \in 1..r : n \in 1..Len(q)
    BY SMTT(60)
  <2>3. Runs(f, Committed, es)
    BY <1>1, <2>1, <2>2 DEF Runs
  <2>4. Outcomes(Committed, es) = f[Len(es)]
    <3>1. Len(es) \in {0, 1, 2}
      BY <1>2 DEF Heard
    <3> QED
      BY <2>3, <3>1, OutcomesFollow
  <2> QED
    BY <1>1, <2>4
<1> QED
  BY <1>3, <1>4, <1>5

\* An entry after the clock that is entry e from before it.
Like(d, e) == Same(d, e) /\ d.exact = e.exact /\ (~d.resolved => ~e.resolved)

\* After a clock the flight starts r places later, and ends with es.
Shifted(r, m, es) ==
    /\ Len(Flight') = m + Len(es) /\ \A j \in 1..Len(es) : Flight'[m + j] = es[j]
    /\ \A j \in 1..Len(es) : Saved(m + j)' = es[j].meta
    /\ \A i \in 1..m : Like(Flight'[i], Flight[r + i])
    /\ \A i \in 1..m : IsControl(Flight[r + i]) => Saved(i)' = Saved(r + i)

\* The queues of a clock without redirect.
Moving(es, d, r, k) ==
    /\ window' = SubSeq(window, d + 1, Len(window)) \o es
    /\ rob' = SubSeq(Resolved(k), r + 1, Len(rob)) \o SubSeq(window, 1, d)
    /\ robHead' = (robHead + r) % RobSize
    /\ Dispatch(SubSeq(window, 1, d))

\* The two places of a snapshot, before and after a step.
LEMMA SavedIs ==
  ASSUME NEW k
  PROVE  /\ k <= Len(rob) => Saved(k) = checkpoints[Tag(k)]
         /\ ~(k <= Len(rob)) => Saved(k) = window[k - Len(rob)].meta
         /\ k <= Len(rob') => Saved(k)' = checkpoints'[Tag(k)']
         /\ ~(k <= Len(rob')) => Saved(k)' = window'[k - Len(rob')].meta
BY DEF Saved

\* A clock without redirect moves every entry and its snapshot together.
LEMMA FlightMoves ==
  ASSUME Buffers, NEW d \in 0..Len(window), d <= RobSize - Len(rob), NEW r \in 0..Len(rob), NEW k,
         NEW es \in Seq(CoreEntry), Moving(es, d, r, k), Len(window) - d + Len(es) <= WindowDepth,
         synced' \in BOOLEAN, NEW m, m = Len(rob) + Len(window) - r
  PROVE  Buffers' /\ Shifted(r, m, es)
<1> DEFINE rb == Resolved(k)
           w == SubSeq(window, 1, d)
           n == Len(rob)
           l == Len(window)
<1>m. m = n + l - r
  BY SMTT(60)
<1>1. /\ rob \in Seq(CoreEntry) /\ window \in Seq(CoreEntry) /\ n <= RobSize /\ l <= WindowDepth
      /\ robHead \in Tags /\ checkpoints \in [Tags -> Snapshots] /\ synced \in BOOLEAN
  BY DEF Buffers
<1>2. RobSize \in Nat \ {0} /\ n \in Nat /\ l \in Nat /\ Len(es) \in Nat /\ n \in 0..RobSize
  BY <1>1, SizesAssumption, SMTT(60)
<1>3. /\ rb \in Seq(CoreEntry) /\ Len(rb) = n
      /\ \A j \in 1..n : Same(rb[j], rob[j]) /\ rb[j].exact = rob[j].exact
                         /\ (~rb[j].resolved => ~rob[j].resolved)
  BY <1>1, ResolvedIs DEF Same
<1> HIDE DEF rb
<1>4. /\ rob' \in Seq(CoreEntry) /\ window' \in Seq(CoreEntry)
      /\ Len(rob') = n - r + d /\ Len(window') = l - d + Len(es)
      /\ \A i \in 1..(n - r) : rob'[i] = rb[r + i]
      /\ \A i \in 1..d : rob'[n - r + i] = window[i]
      /\ \A i \in 1..(l - d) : window'[i] = window[d + i]
      /\ \A i \in 1..Len(es) : window'[l - d + i] = es[i]
  <2>1. /\ window' = SubSeq(window, d + 1, l) \o es
        /\ rob' = SubSeq(rb, r + 1, Len(rb)) \o SubSeq(window, 1, d)
    BY <1>3 DEF Moving, rb
  <2>2. r \in 0..Len(rb) /\ rb \in Seq(CoreEntry) /\ window \in Seq(CoreEntry)
    BY <1>1, <1>3, SMTT(60)
  <2>3. Queued(CoreEntry, rb, window, es, d, r)
    BY <2>1, <2>2, QueuesMove
  <2> QED
    BY <1>3, <2>3 DEF Queued
<1>5. w \in Seq(CoreEntry) /\ Len(w) = d /\ \A i \in 1..d : w[i] = window[i]
  BY <1>1, SMTT(60)
<1>a. /\ n \in Nat /\ l \in Nat /\ Len(es) \in Nat /\ d \in 0..l /\ r \in 0..n /\ RobSize \in Nat
      /\ n <= RobSize /\ d <= RobSize - n /\ l - d + Len(es) <= WindowDepth
      /\ Len(rob') = n - r + d /\ Len(window') = l - d + Len(es) /\ m = n + l - r
  BY <1>m, <1>1, <1>2, <1>4
<1> HIDE DEF w
<1>6. /\ checkpoints' \in [Tags -> Snapshots]
      /\ \A p \in 1..n : checkpoints'[TagOf(robHead, p)] = checkpoints[TagOf(robHead, p)]
      /\ \A j \in 1..d : IsControl(window[j]) => checkpoints'[TagOf(robHead, n + j)] = window[j].meta
  <2>1. Dispatch(w)
    BY DEF Moving, w
  <2>2. Len(w) <= RobSize - n
    BY <1>5, SMTT(60)
  <2>3. /\ checkpoints' \in [Tags -> Snapshots]
        /\ \A p \in 1..n : checkpoints'[TagOf(robHead, p)] = checkpoints[TagOf(robHead, p)]
        /\ \A j \in 1..Len(w) : IsControl(w[j]) => checkpoints'[TagOf(robHead, n + j)] = w[j].meta
    BY <1>1, <1>2, <1>5, <2>1, <2>2, DispatchIs
  <2> QED
    BY <1>5, <2>3
<1>7. robHead' = (robHead + r) % RobSize /\ robHead' \in Tags
  <2>1. r \in 0..RobSize /\ (r < RobSize => 1 \in 1..RobSize /\ r + 1 <= RobSize)
    BY <1>2, SMTT(60)
  <2>2. robHead' = (robHead + r) % RobSize
    BY DEF Moving
  <2>3. robHead + r \in Nat
    BY <1>1, <1>2, SMTT(60) DEF Tags
  <2>4. (robHead + r) % RobSize \in 0..(RobSize - 1)
    BY <1>2, <2>3, SMTT(60)
  <2> QED
    BY <2>2, <2>4 DEF Tags
<1>8. Buffers'
  <2>1. Len(rob') <= RobSize /\ Len(window') <= WindowDepth
    BY <1>a, SMTT(60)
  <2> QED
    BY <1>1, <1>4, <1>6, <1>7, <2>1 DEF Buffers
<1>9. Joined(Flight, rob, window, CoreEntry) /\ Joined(Flight', rob', window', CoreEntry)
  <2>1. Joined(Flight, rob, window, CoreEntry)
    BY <1>1, FlightIs
  <2>2. Joined(rob' \o window', rob', window', CoreEntry)
    BY <1>4, JoinedIs
  <2> QED
    BY <2>1, <2>2 DEF Flight
<1>10. Len(Flight') = m + Len(es) /\ \A j \in 1..Len(es) : Flight'[m + j] = es[j]
  <2>1. Len(Flight') = Len(rob') + Len(window') /\ \A j \in 1..Len(window') : Flight'[Len(rob') + j] = window'[j]
    BY <1>9 DEF Joined
  <2>2. Len(rob') + Len(window') = m + Len(es)
    BY <1>a, SMTT(60)
  <2>3. ASSUME NEW j \in 1..Len(es) PROVE Flight'[m + j] = es[j]
    <3>1. l - d + j \in 1..Len(window') /\ Len(rob') + (l - d + j) = m + j
      BY <1>a, SMTT(60)
    <3> QED
      BY <1>4, <2>1, <3>1
  <2> QED
    BY <2>1, <2>2, <2>3
<1>11. ASSUME NEW j \in 1..Len(es) PROVE Saved(m + j)' = es[j].meta
  <2>1. ~(m + j <= Len(rob')) /\ (m + j) - Len(rob') = l - d + j
    BY <1>a, SMTT(60)
  <2>2. Saved(m + j)' = window'[(m + j) - Len(rob')].meta
    BY <2>1, SavedIs
  <2> QED
    BY <1>4, <2>1, <2>2
<1>12. ASSUME NEW i \in 1..m
       PROVE  Like(Flight'[i], Flight[r + i]) /\ (IsControl(Flight[r + i]) => Saved(i)' = Saved(r + i))
  <2>1. CASE i <= n - r
    <3>1. i \in 1..(n - r) /\ r + i \in 1..n /\ i \in 1..Len(rob') /\ r + i <= n /\ i <= Len(rob')
      BY <1>a, <2>1, SMTT(60)
    <3>2. Flight'[i] = rb[r + i] /\ Flight[r + i] = rob[r + i]
      BY <1>4, <1>9, <3>1 DEF Joined
    <3>3. Like(Flight'[i], Flight[r + i])
      BY <1>3, <3>1, <3>2 DEF Like
    <3>4. Tag(r + i) = TagOf(robHead, r + i) /\ Tag(i)' = TagOf((robHead + r) % RobSize, i)
      BY <1>7 DEF Tag, TagOf
    <3>5. TagOf((robHead + r) % RobSize, i) = TagOf(robHead, r + i)
      <4>1. r \in 0..RobSize /\ i \in 1..RobSize /\ r + i <= RobSize
        BY <1>a, <3>1, SMTT(60)
      <4> QED
        BY <1>1, <4>1, TagMoves
    <3>6. Saved(i)' = checkpoints'[Tag(i)'] /\ Saved(r + i) = checkpoints[Tag(r + i)]
      BY <3>1, SavedIs
    <3> QED
      BY <1>6, <3>1, <3>3, <3>4, <3>5, <3>6
  <2>2. CASE ~(i <= n - r) /\ i <= n - r + d
    <3> DEFINE j == i - (n - r)
    <3>1. /\ j \in 1..d /\ j \in 1..l /\ i = n - r + j /\ r + i = n + j /\ i \in 1..Len(rob') /\ i <= Len(rob')
          /\ ~(r + i <= n) /\ (r + i) - n = j
      BY <1>a, <2>2, SMTT(60)
    <3> HIDE DEF j
    <3>2. Flight'[i] = window[j] /\ Flight[r + i] = window[j]
      BY <1>4, <1>9, <3>1 DEF Joined
    <3>3. Like(Flight'[i], Flight[r + i])
      BY <3>2 DEF Like, Same
    <3>4. Tag(i)' = TagOf((robHead + r) % RobSize, i)
      BY <1>7 DEF Tag, TagOf
    <3>5. TagOf((robHead + r) % RobSize, i) = TagOf(robHead, n + j)
      <4>1. r \in 0..RobSize /\ i \in 1..RobSize /\ r + i <= RobSize
        BY <1>a, <3>1, SMTT(60)
      <4>2. TagOf((robHead + r) % RobSize, i) = TagOf(robHead, r + i)
        BY <1>1, <4>1, TagMoves
      <4> QED
        BY <3>1, <4>2
    <3>6. Saved(i)' = checkpoints'[Tag(i)'] /\ Saved(r + i) = window[j].meta
      <4>1. Saved(i)' = checkpoints'[Tag(i)'] /\ Saved(r + i) = window[(r + i) - Len(rob)].meta
        BY <3>1, SavedIs
      <4> QED
        BY <3>1, <4>1
    <3> QED
      BY <1>6, <3>1, <3>2, <3>3, <3>4, <3>5, <3>6
  <2>3. CASE ~(i <= n - r + d)
    <3> DEFINE j == i - (n - r + d)
    <3>1. /\ j \in 1..(l - d) /\ d + j \in 1..l /\ i = Len(rob') + j /\ r + i = n + (d + j) /\ j \in 1..Len(window')
          /\ ~(i <= Len(rob')) /\ ~(r + i <= n) /\ i - Len(rob') = j /\ (r + i) - n = d + j
      BY <1>a, <2>3, SMTT(60)
    <3> HIDE DEF j
    <3>2. Flight'[i] = window[d + j] /\ Flight[r + i] = window[d + j]
      BY <1>4, <1>9, <3>1 DEF Joined
    <3>3. Like(Flight'[i], Flight[r + i])
      BY <3>2 DEF Like, Same
    <3>4. Saved(i)' = window'[j].meta /\ Saved(r + i) = window[d + j].meta
      <4>1. Saved(i)' = window'[i - Len(rob')].meta /\ Saved(r + i) = window[(r + i) - Len(rob)].meta
        BY <3>1, SavedIs
      <4> QED
        BY <3>1, <4>1
    <3> QED
      BY <1>4, <3>1, <3>3, <3>4
  <2> QED
    BY <2>1, <2>2, <2>3
<1> QED
  BY <1>8, <1>10, <1>11, <1>12 DEF Shifted

\* Of at most two, the one that is not the first is the second.
LEMMA SecondIs ==
  ASSUME NEW n \in {0, 1, 2}, NEW j \in 1..n, j # 1
  PROVE  j = 2 /\ n = 2
BY SMTT(60)

\* A shifted flight keeps the invariant.
LEMMA MovedKeeps ==
  ASSUME Least, CoreInv, Registers, NEW r \in Nat, NEW m \in Nat, Len(Flight) = r + m,
         NEW es, Fetched(es), Shifted(r, m, es), Buffers',
         Committed' = Path[r], Speculative' = Outcomes(Speculative, es), synced' = synced
  PROVE  CoreInv'
<1>1. Len(Flight') = m + Len(es) /\ \A j \in 1..Len(es) : Flight'[m + j] = es[j] /\ Saved(m + j)' = es[j].meta
  BY DEF Shifted
<1>2. /\ \A i \in 1..m : Like(Flight'[i], Flight[r + i])
      /\ \A i \in 1..m : IsControl(Flight[r + i]) => Saved(i)' = Saved(r + i)
  BY DEF Shifted
<1>3. Len(es) \in {0, 1, 2} /\ Len(es) \in Nat
  BY SMTT(60) DEF Fetched
<1>4. Len(Flight) \in Nat /\ Len(Flight') \in Nat /\ r + m <= Len(Flight) /\ m <= Len(Flight')
  BY <1>1, <1>3, SMTT(60)
<1>5. Agree(Flight', Flight, r, m)
  BY <1>2 DEF Agree, Like
<1>6. Path' = After(Committed', Flight')
  BY DEF Path
<1>7. Follows(Path', Path, r, m)
  <2>1. Committed' = After(Committed, Flight)[r]
    BY DEF Path
  <2>2. Follows(After(Committed', Flight'), After(Committed, Flight), r, m)
    BY <1>4, <1>5, <2>1, Carries
  <2> QED
    BY <1>6, <2>2 DEF Path
<1>8. Path'[m] = Path[r + m]
  <2>1. m \in 0..m
    BY SMTT(60)
  <2> QED
    BY <1>7, <2>1 DEF Follows
<1>9. synced => Speculative = Path'[m]
  BY <1>8 DEF CoreInv, Following
<1>10. Following'
  <2>1. \A j \in 1..Len(es) : Same(Flight'[m + j], es[j])
    BY <1>1 DEF Same
  <2>2. After(Committed', Flight')[Len(Flight')] = Outcomes(After(Committed', Flight')[m], es)
    <3>1. Ends(Flight', m, es)
      BY <1>1, <1>3, <2>1 DEF Ends
    <3> QED
      BY <3>1, Extends, SMTT(60)
  <2>3. Path'[Len(Flight')] = Outcomes(Path'[m], es)
    BY <1>6, <2>2
  <2> QED
    BY <1>9, <2>3 DEF Following
<1>11. ASSUME NEW i \in 1..m PROVE Snapped(i)'
  <2>1. r + i \in 1..Len(Flight) /\ i - 1 \in 0..m /\ r + (i - 1) = (r + i) - 1
    BY SMTT(60)
  <2>2. Snapped(r + i)
    BY <2>1 DEF CoreInv
  <2>3. Like(Flight'[i], Flight[r + i]) /\ (IsControl(Flight[r + i]) => Saved(i)' = Saved(r + i))
    BY <1>2
  <2>4. IsControl(Flight'[i]) <=> IsControl(Flight[r + i])
    BY <2>3 DEF Like, Same, IsControl
  <2>5. Path'[i - 1] = Path[(r + i) - 1]
    BY <1>7, <2>1 DEF Follows
  <2>6. ~Flight'[i].resolved => IsControl(Flight'[i])
    BY <2>2, <2>3, <2>4 DEF Snapped, Like
  <2>7. Flight'[i].exact /\ IsControl(Flight'[i]) => Saved(i)' = Path'[i - 1]
    BY <2>2, <2>3, <2>4, <2>5 DEF Snapped, Like
  <2> QED
    BY <2>6, <2>7 DEF Snapped, IsControl
<1>12. ASSUME NEW j \in 1..Len(es) PROVE Snapped(m + j)'
  <2>1. Flight'[m + j] = es[j] /\ Saved(m + j)' = es[j].meta
    BY <1>1
  <2>2. ~es[j].resolved => IsControl(es[j])
    BY DEF Fetched
  <2>3. ASSUME es[j].exact PROVE es[j].meta = Path'[(m + j) - 1]
    <3>1. synced /\ es[j].meta = IF j = 1 THEN Speculative ELSE Outcome(Speculative, es[1])
      BY <2>3, ResponseExact
    <3>2. CASE j = 1
      <4>1. (m + j) - 1 = m
        BY <3>2, SMTT(60)
      <4> QED
        BY <1>9, <3>1, <3>2, <4>1
    <3>3. CASE j # 1
      <4>1. (m + j) - 1 = m + 1 /\ m + 1 \in 1..Len(Flight') /\ (m + 1) - 1 = m /\ 1 \in 1..Len(es)
        <5>1. Len(Flight') = m + Len(es)
          BY <1>1
        <5>2. j = 2 /\ Len(es) = 2
          BY <1>3, <3>3, SecondIs
        <5>3. (m + 2) - 1 = m + 1 /\ m + 1 \in 1..(m + 2) /\ (m + 1) - 1 = m /\ 1 \in 1..2
          BY SMTT(60)
        <5> QED
          BY <5>1, <5>2, <5>3
      <4>2. Runs(Path', Committed', Flight')
        BY <1>4, <1>6, AfterRuns
      <4>3. Path'[m + 1] = Outcome(Path'[(m + 1) - 1], Flight'[m + 1])
        BY <4>1, <4>2 DEF Runs
      <4>4. Flight'[m + 1] = es[1]
        BY <1>1, <4>1
      <4>5. es[j].meta = Outcome(Speculative, es[1])
        BY <3>1, <3>3
      <4> QED
        BY <1>9, <3>1, <4>1, <4>3, <4>4, <4>5
    <3> QED
      BY <3>2, <3>3
  <2> QED
    BY <2>1, <2>2, <2>3 DEF Snapped, IsControl
<1>13. \A k \in 1..Len(Flight') : Snapped(k)'
  <2>1. ASSUME NEW k \in 1..Len(Flight') PROVE Snapped(k)'
    <3>1. CASE k <= m
      <4>1. k \in 1..m
        BY <3>1, SMTT(60)
      <4> QED
        BY <1>11, <4>1
    <3>2. CASE ~(k <= m)
      <4>1. k - m \in 1..Len(es) /\ m + (k - m) = k
        BY <1>1, <1>3, <3>2, SMTT(60)
      <4> QED
        BY <1>12, <4>1
    <3> QED
      BY <3>1, <3>2
  <2> QED
    BY <2>1
<1> QED
  BY <1>10, <1>13 DEF CoreInv

\* A clock without redirect.
LEMMA AdvanceKeeps ==
  ASSUME Least, Counts, CoreInv, Registers,
         NEW d \in 0..Min2(2, Min2(Len(window), RobSize - Len(rob))), NEW r \in 0..2, CanRetire(r), NEW k,
         NEW es \in Responses, NEW hint \in Hints, Advance(es, d, r, k, hint)
  PROVE  CoreInv' /\ Registers'
<1>1. Buffers
  BY DEF CoreInv
<1>2. /\ rob \in Seq(CoreEntry) /\ window \in Seq(CoreEntry) /\ Len(rob) <= RobSize /\ Len(rob) \in Nat
      /\ Len(window) \in Nat /\ RobSize \in Nat
  BY <1>1, SizesAssumption, SMTT(60) DEF Buffers
<1>3. d \in 0..Len(window) /\ d <= RobSize - Len(rob)
  BY <1>2, SMTT(60) DEF Min2
<1>4. r <= Len(rob) /\ r \in 0..Len(rob)
  BY <1>2, SMTT(60) DEF CanRetire
<1>5. Fetched(es)
  <2>1. synced \in BOOLEAN
    BY <1>1 DEF Buffers
  <2> QED
    BY <2>1, ResponseIs
<1>6. es \in Seq(CoreEntry) /\ Len(es) \in {0, 1, 2} /\ Heard(es)
  <2>1. es \in Seq(CoreEntry) /\ Len(es) \in {0, 1, 2}
    BY <1>5 DEF Fetched
  <2>2. \A e \in CoreEntry : Told(e)
    BY SMTT(60) DEF CoreEntry, Told
  <2>3. \A j \in 1..Len(es) : es[j] \in CoreEntry
    BY <2>1, SMTT(60)
  <2>4. \A j \in 1..Len(es) : Told(es[j])
    BY <2>2, <2>3
  <2> QED
    BY <2>1, <2>4 DEF Heard
<1>7. Moving(es, d, r, k) /\ Len(window) - d + Len(es) <= WindowDepth /\ synced' = synced
  BY DEF Advance, Moving
<1>8. PICK m : m = Len(rob) + Len(window) - r
  BY SMTT(60)
<1>9. Buffers' /\ Shifted(r, m, es)
  <2>1. synced' \in BOOLEAN
    BY <1>1, <1>7 DEF Buffers
  <2> QED
    BY <1>1, <1>3, <1>4, <1>6, <1>7, <1>8, <2>1, FlightMoves
<1>10. m \in Nat /\ r \in Nat /\ Len(Flight) = r + m /\ Len(Flight) \in Nat /\ r <= Len(Flight)
  <2>1. Len(Flight) = Len(rob) + Len(window)
    BY <1>2, FlightIs DEF Joined
  <2> QED
    BY <1>2, <1>4, <1>8, <2>1, SMTT(60)
<1>11. Committed' \in Snapshots /\ Committed' = Path[r]
  <2>1. \A e \in CoreEntry : Told(e)
    BY SMTT(60) DEF CoreEntry, Told
  <2>2. \A i \in 1..r : Flight[i] = rob[i]
    <3>1. \A i \in 1..r : i \in 1..Len(rob)
      BY <1>2, <1>4, SMTT(60)
    <3> QED
      BY <1>2, <3>1, FlightIs DEF Joined
  <2>3. CommitHistory(SubSeq(rob, 1, r))
    BY DEF Advance
  <2>4. Committed \in Snapshots
    BY DEF Registers
  <2> QED
    BY <1>2, <1>4, <1>10, <2>1, <2>2, <2>3, <2>4, CommitIs DEF Path
<1>12. Registers' /\ Speculative' = Outcomes(Speculative, es)
  <2> DEFINE s == Outcomes(Speculative, es)
  <2>1. Speculative \in Snapshots /\ foldedHistory = FoldsOf(Speculative)
    BY DEF Registers
  <2>2. s \in Snapshots /\ [sh \in FoldShapes |-> speculativeFoldNext(FoldsOf(Speculative)[sh], Speculative, es, sh)] = FoldsOf(s)
    BY <1>6, <2>1, OutcomesAre
  <2>3. SetSpeculative(s, FoldsOf(s)) /\ Launch(s, FoldsOf(s), hint)
    BY <2>1, <2>2 DEF Advance
  <2> HIDE DEF s
  <2>4. Registers' /\ Speculative' = s
    BY <1>11, <2>2, <2>3, EdgeSets
  <2> QED
    BY <2>4 DEF s
<1>13. CoreInv'
  BY <1>5, <1>7, <1>9, <1>10, <1>11, <1>12, MovedKeeps
<1> QED
  BY <1>12, <1>13

\* A restart sets the histories to s and the folds to those of s.
LEMMA RestartSets ==
  ASSUME Least, Counts, NEW s \in Snapshots, NEW hint \in Hints, Restart(s, hint), Committed' = Committed, Registers
  PROVE  Registers' /\ Speculative' = s
<1>1. SetSpeculative(s, FoldsOf(s)) /\ Launch(s, FoldsOf(s), hint)
  BY DEF Restart, FoldsOf
<1>2. Committed' \in Snapshots
  BY DEF Registers
<1> QED
  BY <1>1, <1>2, EdgeSets

\* The ROB after a recovery.
Cut(q, s, k, e, T) ==
    q \in Seq(T) /\ Len(q) = k /\ q[k] = e /\ \A i \in 1..(k - 1) : q[i] = s[i]

LEMMA CutIs ==
  ASSUME NEW T, NEW s \in Seq(T), NEW k \in 1..Len(s), NEW e \in T
  PROVE  Cut(Append(SubSeq(s, 1, k - 1), e), s, k, e, T)
<1> DEFINE a == SubSeq(s, 1, k - 1)
<1>1. a \in Seq(T) /\ Len(a) = k - 1 /\ \A i \in 1..(k - 1) : a[i] = s[i]
  BY SMTT(60)
<1> HIDE DEF a
<1>2. /\ Append(a, e) \in Seq(T) /\ Len(Append(a, e)) = k /\ Append(a, e)[k] = e
      /\ \A i \in 1..(k - 1) : Append(a, e)[i] = a[i]
  BY <1>1, SMTT(60)
<1> QED
  BY <1>1, <1>2 DEF a, Cut

\* The flight without the fetch queue is the ROB.
LEMMA RobOnly ==
  ASSUME NEW T, rob' \in Seq(T), window' = <<>>
  PROVE  Flight' = rob'
BY SMTT(60) DEF Flight

\* The mispredicted branch as it resolves.
Fixed(e, taken) == [e EXCEPT !.taken = taken, !.resolved = TRUE]

LEMMA FixedIs ==
  ASSUME NEW e \in CoreEntry, NEW taken \in BOOLEAN
  PROVE  /\ Fixed(e, taken) \in CoreEntry /\ Fixed(e, taken).insn = e.insn /\ Fixed(e, taken).taken = taken
         /\ Fixed(e, taken).resolved /\ Fixed(e, taken).exact = e.exact
         /\ Told([e EXCEPT !.taken = taken]) /\ Same([e EXCEPT !.taken = taken], Fixed(e, taken))
<1> DEFINE d == [e EXCEPT !.taken = taken]
           f == [e EXCEPT !.taken = taken, !.resolved = TRUE]
<1>1. d.insn = e.insn /\ d.taken = taken /\ e.insn \in Insn /\ f.insn = e.insn /\ f.taken = taken
  BY SMTT(60) DEF CoreEntry
<1>2. f \in CoreEntry
  <2>1. d \in CoreEntry
    BY SMTT(60) DEF CoreEntry
  <2>2. f = [d EXCEPT !.resolved = TRUE]
    BY SMTT(60) DEF CoreEntry
  <2> HIDE DEF d, f
  <2>3. [d EXCEPT !.resolved = TRUE] \in CoreEntry
    BY <2>1 DEF CoreEntry
  <2> QED
    BY <2>2, <2>3
<1>3. f.resolved /\ f.exact = e.exact
  BY SMTT(60) DEF CoreEntry
<1> HIDE DEF d, f
<1>4. Told(d) /\ Same(d, f)
  BY <1>1 DEF Told, Same
<1> QED
  BY <1>1, <1>2, <1>3, <1>4 DEF d, f, Fixed

\* The histories before place k of a flight that changes there are what they were.
CutAt(q2, q, k) == Len(q2) = k /\ \A i \in 1..(k - 1) : q2[i] = q[i]
CutPath(g, f, e, k) == (\A i \in 0..(k - 1) : g[i] = f[i]) /\ g[k] = Outcome(f[k - 1], e)

LEMMA CutFollows ==
  ASSUME Least, NEW C, NEW q, Len(q) \in Nat, NEW q2, NEW k \in 1..(Len(q) + 1), CutAt(q2, q, k)
  PROVE  CutPath(After(C, q2), After(C, q), q2[k], k)
<1>0. Len(q2) = k /\ \A i \in 1..(k - 1) : q2[i] = q[i]
  BY DEF CutAt
<1> DEFINE f == After(C, q)
           g == After(C, q2)
<1>1. Len(q2) \in Nat /\ k - 1 \in Nat /\ 0 \in Nat /\ 0 + (k - 1) <= Len(q) /\ k - 1 <= Len(q2) /\ k \in 1..Len(q2)
      /\ k - 1 \in 0..(k - 1)
  BY <1>0, SMTT(60)
<1>2. Runs(f, C, q) /\ Runs(g, C, q2)
  BY <1>1, AfterRuns
<1>3. C = f[0]
  BY <1>2 DEF Runs
<1>4. Agree(q2, q, 0, k - 1)
  <2>1. \A i \in 1..(k - 1) : 0 + i = i
    BY SMTT(60)
  <2> QED
    BY <1>0, <2>1 DEF Agree, Same
<1>5. Follows(g, f, 0, k - 1)
  BY <1>1, <1>3, <1>4, Carries
<1>6. \A i \in 0..(k - 1) : g[i] = f[i]
  <2>1. \A i \in 0..(k - 1) : 0 + i = i
    BY SMTT(60)
  <2> QED
    BY <1>5, <2>1 DEF Follows
<1>7. g[k] = Outcome(g[k - 1], q2[k])
  BY <1>1, <1>2 DEF Runs
<1> QED
  BY <1>1, <1>6, <1>7 DEF CutPath

\* A branch that was mispredicted.
LEMMA RecoverKeeps ==
  ASSUME Least, Counts, CoreInv, Registers, NEW k \in DOMAIN rob, NEW taken \in BOOLEAN, NEW hint \in Hints,
         Recover(k, taken, hint)
  PROVE  CoreInv' /\ Registers'
<1> DEFINE e == rob[k]
           d == Fixed(e, taken)
<1>1. /\ rob \in Seq(CoreEntry) /\ window \in Seq(CoreEntry) /\ Len(rob) <= RobSize
      /\ robHead \in Tags /\ checkpoints \in [Tags -> Snapshots]
  BY DEF CoreInv, Buffers
<1>2. k \in 1..Len(rob) /\ Len(rob) \in Nat /\ e \in CoreEntry /\ k <= Len(rob)
  BY <1>1, SMTT(60)
<1>3. Joined(Flight, rob, window, CoreEntry)
  BY <1>1, FlightIs
<1>4. Len(Flight) \in Nat /\ k \in 1..Len(Flight)
  <2>1. Len(Flight) = Len(rob) + Len(window) /\ Len(window) \in Nat
    BY <1>1, <1>3, SMTT(60) DEF Joined
  <2> QED
    BY <1>2, <2>1, SMTT(60)
<1>5. \A i \in 1..k : Flight[i] = rob[i] /\ Snapped(i) /\ i <= Len(rob)
  <2>1. \A i \in 1..k : i \in 1..Len(rob) /\ i \in 1..Len(Flight) /\ i <= Len(rob)
    BY <1>2, <1>4, SMTT(60)
  <2> QED
    BY <1>3, <2>1 DEF Joined, CoreInv
<1>6. k \in 1..k /\ \A i \in 1..(k - 1) : i \in 1..k /\ i - 1 \in 0..(k - 1)
  BY <1>2, SMTT(60)
<1>7. IsControl(e)
  <2>1. ~e.resolved
    BY DEF Recover
  <2>2. Snapped(k) /\ Flight[k] = rob[k]
    BY <1>5, <1>6
  <2> QED
    BY <2>1, <2>2 DEF Snapped
<1>8. /\ d \in CoreEntry /\ d.insn = e.insn /\ d.taken = taken /\ d.resolved /\ d.exact = e.exact
      /\ Told([e EXCEPT !.taken = taken]) /\ Same([e EXCEPT !.taken = taken], d)
  BY <1>2, FixedIs
<1>9. rob' = Append(SubSeq(rob, 1, k - 1), d) /\ window' = <<>> /\ synced' = e.exact
  BY DEF Recover, Fixed
<1>10. robHead' = robHead /\ checkpoints' = checkpoints /\ Committed' = Committed
  BY DEF Recover, Committed
<1> HIDE DEF d
<1>11. rob' \in Seq(CoreEntry) /\ Len(rob') = k /\ rob'[k] = d /\ \A i \in 1..(k - 1) : rob'[i] = rob[i]
  <2>1. Cut(rob', rob, k, d, CoreEntry)
    BY <1>1, <1>2, <1>8, <1>9, CutIs
  <2> QED
    BY <2>1 DEF Cut
<1>12. Flight' = rob' /\ Len(Flight') = k
  BY <1>9, <1>11, RobOnly
<1>13. Buffers'
  <2>1. Len(rob') <= RobSize
    BY <1>1, <1>2, <1>11, SizesAssumption, SMTT(60)
  <2>2. window' \in Seq(CoreEntry) /\ Len(window') <= WindowDepth
    BY <1>9, SizesAssumption, SMTT(60)
  <2>3. synced' \in BOOLEAN
    BY <1>2, <1>9, SMTT(60) DEF CoreEntry
  <2> QED
    BY <1>1, <1>10, <1>11, <2>1, <2>2, <2>3 DEF Buffers
<1>14. /\ \A i \in 0..(k - 1) : Path'[i] = Path[i]
       /\ Path'[k] = Outcome(Path[k - 1], d)
  <2>1. \A i \in 1..(k - 1) : Flight'[i] = Flight[i]
    BY <1>5, <1>6, <1>11, <1>12
  <2>2. CutAt(Flight', Flight, k)
    BY <1>12, <2>1 DEF CutAt
  <2>3. CutPath(After(Committed, Flight'), After(Committed, Flight), Flight'[k], k)
    <3>1. k \in 1..(Len(Flight) + 1)
      BY <1>4, SMTT(60)
    <3> QED
      BY <1>4, <2>2, <3>1, CutFollows
  <2> QED
    BY <1>10, <1>11, <1>12, <2>3 DEF Path, CutPath
<1>15. \A i \in 1..k : Saved(i)' = Saved(i)
  <2>1. \A i : Tag(i)' = Tag(i)
    BY <1>10 DEF Tag
  <2>2. \A i \in 1..k : i <= Len(rob) /\ i <= Len(rob')
    BY <1>2, <1>11, SMTT(60)
  <2> QED
    BY <1>10, <2>1, <2>2, SavedIs
<1>16. Saved(k) = checkpoints[Tag(k)] /\ Saved(k) \in Snapshots
  <2>1. Saved(k) = checkpoints[Tag(k)]
    BY <1>2, SavedIs
  <2>2. Tag(k) \in Tags
    <3>1. robHead + k - 1 \in Nat /\ RobSize \in Nat \ {0}
      BY <1>1, <1>2, SizesAssumption, SMTT(60) DEF Tags
    <3>2. (robHead + k - 1) % RobSize \in 0..(RobSize - 1)
      BY <3>1, SMTT(60)
    <3> QED
      BY <3>2 DEF Tag, Tags
  <2> QED
    BY <1>1, <2>1, <2>2
<1>17. e.exact => Saved(k) = Path[k - 1]
  <2>1. Snapped(k) /\ Flight[k] = rob[k]
    BY <1>5, <1>6
  <2> QED
    BY <1>7, <2>1 DEF Snapped
<1>18. Registers' /\ Speculative' = Outcome(Saved(k), d)
  <2> DEFINE s == restoredSnapshot(k, taken)
  <2>1. s = Outcome(Saved(k), [e EXCEPT !.taken = taken])
    BY <1>16 DEF restoredSnapshot
  <2>2. s \in Snapshots /\ s = Outcome(Saved(k), d)
    BY <1>8, <1>16, <2>1, OutcomeType, SameOutcome
  <2>3. Restart(s, hint)
    BY DEF Recover
  <2> HIDE DEF s
  <2>4. Registers' /\ Speculative' = s
    BY <1>10, <2>2, <2>3, RestartSets
  <2> QED
    BY <2>2, <2>4
<1>19. Following'
  BY <1>9, <1>12, <1>14, <1>17, <1>18 DEF Following
<1>20. ASSUME NEW i \in 1..Len(Flight') PROVE Snapped(i)'
  <2>1. i \in 1..k
    BY <1>12
  <2>2. CASE i = k
    <3>1. Flight'[k] = d /\ Saved(k)' = Saved(k) /\ Path'[k - 1] = Path[k - 1]
      <4>1. k - 1 \in 0..(k - 1)
        BY <1>2, SMTT(60)
      <4> QED
        BY <1>6, <1>11, <1>12, <1>14, <1>15, <4>1
    <3>2. Snapped(k)'
      BY <1>8, <1>17, <3>1 DEF Snapped
    <3> QED
      BY <2>2, <3>2
  <2>3. CASE i # k
    <3>1. i \in 1..(k - 1)
      BY <1>2, <2>1, <2>3, SMTT(60)
    <3>2. Flight'[i] = Flight[i] /\ Saved(i)' = Saved(i) /\ Path'[i - 1] = Path[i - 1] /\ Snapped(i)
      BY <1>5, <1>6, <1>11, <1>12, <1>14, <1>15, <2>1, <3>1
    <3> QED
      BY <3>2 DEF Snapped, IsControl
  <2> QED
    BY <2>2, <2>3
<1> QED
  BY <1>13, <1>18, <1>19, <1>20 DEF CoreInv

\* With nothing in flight the histories are the committed ones.
LEMMA NothingInFlight ==
  ASSUME Least, rob' = <<>>, window' = <<>>, robHead' \in Tags, checkpoints' \in [Tags -> Snapshots],
         synced' \in BOOLEAN, Speculative' = Committed'
  PROVE  CoreInv'
<1>1. rob' \in Seq(CoreEntry) /\ window' \in Seq(CoreEntry) /\ Len(rob') = 0 /\ Len(window') = 0
  BY SMTT(60)
<1>2. Flight' = <<>> /\ Len(Flight') = 0 /\ Len(Flight') \in Nat /\ 1..Len(Flight') = {}
  BY SMTT(60) DEF Flight
<1>3. Buffers'
  <2>1. Len(rob') <= RobSize /\ Len(window') <= WindowDepth
    BY <1>1, SizesAssumption, SMTT(60)
  <2> QED
    BY <1>1, <2>1 DEF Buffers
<1>4. Runs(After(Committed', Flight'), Committed', Flight')
  BY <1>2, AfterRuns
<1>5. Path'[Len(Flight')] = Committed'
  BY <1>2, <1>4 DEF Runs, Path
<1> QED
  BY <1>2, <1>3, <1>5 DEF CoreInv, Following

\* A trap.
LEMMA TrapKeeps ==
  ASSUME Least, Counts, CoreInv, Registers, NEW hint \in Hints, Trap(hint)
  PROVE  CoreInv' /\ Registers'
<1>1. Committed' = Committed /\ Restart(Committed, hint)
  BY DEF Trap, Committed
<1>2. Committed \in Snapshots
  BY DEF Registers
<1>3. Registers' /\ Speculative' = Committed
  BY <1>1, <1>2, RestartSets
<1>4. 0 \in Tags
  BY SizesAssumption, SMTT(60) DEF Tags
<1>5. rob' = <<>> /\ window' = <<>> /\ robHead' \in Tags /\ checkpoints' \in [Tags -> Snapshots] /\ synced' \in BOOLEAN
  BY <1>4 DEF Trap, CoreInv, Buffers
<1>6. CoreInv'
  BY <1>1, <1>3, <1>5, NothingInFlight
<1> QED
  BY <1>3, <1>6

\* A step of the core.
LEMMA CoreNext ==
  ASSUME Least, Counts, CoreInv, Registers, Next
  PROVE  CoreInv' /\ Registers'
<1>1. CASE \E d \in 0..Min2(2, Min2(Len(window), RobSize - Len(rob))),
              r \in {n \in 0..2 : CanRetire(n)}, k \in {0} \union {j \in DOMAIN rob : CanResolve(j)},
              es \in {e \in Responses : WellFormed(e)}, hint \in Hints : Advance(es, d, r, k, hint)
  <2>1. PICK d \in 0..Min2(2, Min2(Len(window), RobSize - Len(rob))),
             r \in {n \in 0..2 : CanRetire(n)}, k \in {0} \union {j \in DOMAIN rob : CanResolve(j)},
             es \in {e \in Responses : WellFormed(e)}, hint \in Hints : Advance(es, d, r, k, hint)
    BY <1>1
  <2>2. r \in 0..2 /\ CanRetire(r) /\ es \in Responses
    BY SMTT(60)
  <2> QED
    BY <2>1, <2>2, AdvanceKeeps
<1>2. CASE \E k \in DOMAIN rob, taken \in BOOLEAN, hint \in Hints : Recover(k, taken, hint)
  BY <1>2, RecoverKeeps
<1>3. CASE \E hint \in Hints : Trap(hint)
  BY <1>3, TrapKeeps
<1> QED
  BY <1>1, <1>2, <1>3 DEF Next

\* At reset.
LEMMA ZeroFolds ==
  ASSUME Counts, NEW sh \in FoldShapes
  PROVE  foldHistory([i \in 0..(HistoryWidth - 1) |-> 0], sh) = [j \in 0..(sh[2] - 1) |-> 0]
<1> DEFINE z == [i \in 0..(HistoryWidth - 1) |-> 0]
           L == sh[1]
<1>1. L \in 1..HistoryWidth /\ HistoryWidth \in Nat
  BY ShapesFit, SizesAssumption
<1>2. \A i \in 0..(L - 1) : z[i] = 0
  BY <1>1, SMTT(60)
<1> HIDE DEF z, L
<1>3. \A j : {i \in 0..(L - 1) : i % sh[2] = j /\ z[i] = 1} = {}
  BY <1>2, SMTT(60)
<1>4. 0 % 2 = 0
  BY SMTT(60)
<1>5. \A j : Cardinality({i \in 0..(L - 1) : i % sh[2] = j /\ z[i] = 1}) % 2 = 0
  <2>1. Cardinality({}) = 0
    BY DEF Counts
  <2>2. ASSUME NEW j PROVE Cardinality({i \in 0..(L - 1) : i % sh[2] = j /\ z[i] = 1}) % 2 = 0
    <3> DEFINE S == {i \in 0..(L - 1) : i % sh[2] = j /\ z[i] = 1}
    <3>1. S = {}
      BY <1>3
    <3> HIDE DEF S
    <3>2. Cardinality(S) % 2 = 0
      BY <1>4, <2>1, <3>1
    <3> QED
      BY <3>2 DEF S
  <2> QED
    BY <2>2
<1> QED
  BY <1>5 DEF foldHistory, z, L

LEMMA InitIs ==
  ASSUME Least, Counts, Init
  PROVE  CoreInv /\ Registers
<1>1. HistoryWidth \in Nat \ {0} /\ PathWidth \in Nat \ {0} /\ RobSize \in Nat \ {0} /\ WindowDepth \in Nat
  BY SizesAssumption
<1>2. Speculative \in Snapshots /\ Committed = Speculative
  <2>1. globalHistory \in Histories /\ globalPathHistory \in Paths
    BY SMTT(60) DEF Init, Histories, Paths, Bits
  <2>2. Speculative \in Snapshots
    BY <2>1, SMTT(60) DEF Speculative, Snapshots
  <2> QED
    BY <2>2 DEF Init, Speculative, Committed
<1>3. foldedHistory = FoldsOf(Speculative)
  <2>1. Speculative.history = [i \in 0..(HistoryWidth - 1) |-> 0]
    BY SMTT(60) DEF Init, Speculative
  <2>2. \A sh \in FoldShapes : foldHistory(Speculative.history, sh) = [j \in 0..(sh[2] - 1) |-> 0]
    BY <2>1, ZeroFolds
  <2>3. foldedHistory = [s \in FoldShapes |-> [j \in 0..(s[2] - 1) |-> 0]]
    BY DEF Init
  <2> QED
    BY <2>2, <2>3 DEF FoldsOf
<1>4. Registers
  <2>1. lookup = [hint |-> NoHint, snapshot |-> Speculative, snapshot1 |-> Speculative,
                  fold |-> foldedHistory, fold1 |-> foldedHistory]
    BY DEF Init
  <2>2. /\ lookup.hint = NoHint /\ lookup.snapshot = Speculative /\ lookup.snapshot1 = Speculative
        /\ lookup.fold = foldedHistory /\ lookup.fold1 = foldedHistory
    BY <2>1, SMTT(60)
  <2>3. NoHint \in Hints
    BY SMTT(60) DEF Hints
  <2>4. slot1Snapshot(Speculative, NoHint) = Speculative
    <3> DEFINE e == [insn |-> NoHint, taken |-> FALSE]
    <3>1. ~IsCond(e) /\ ~IsControl(e)
      BY SMTT(60) DEF IsCond, IsControl, NoHint
    <3> HIDE DEF e
    <3>2. Outcome(Speculative, e) = [history |-> Speculative.history, path |-> Speculative.path]
      BY <3>1 DEF Outcome
    <3>3. Speculative.history = globalHistory /\ Speculative.path = globalPathHistory
      BY SMTT(60) DEF Speculative
    <3>4. Outcome(Speculative, e) = Speculative
      BY <3>2, <3>3 DEF Speculative
    <3> QED
      BY <3>4 DEF slot1Snapshot, e
  <2> QED
    BY <1>2, <1>3, <2>2, <2>3, <2>4 DEF Registers
<1>5. rob = <<>> /\ window = <<>> /\ robHead = 0 /\ synced = TRUE /\ checkpoints = [t \in Tags |-> Speculative]
  BY DEF Init
<1>6. rob \in Seq(CoreEntry) /\ window \in Seq(CoreEntry) /\ Len(rob) <= RobSize /\ Len(window) <= WindowDepth
  BY <1>1, <1>5, SMTT(60)
<1>7. robHead \in Tags /\ checkpoints \in [Tags -> Snapshots] /\ synced \in BOOLEAN
  BY <1>1, <1>2, <1>5, SMTT(60) DEF Tags
<1>8. Len(Flight) = 0 /\ Len(Flight) \in Nat /\ 1..Len(Flight) = {}
  BY <1>5, SMTT(60) DEF Flight
<1>9. Runs(After(Committed, Flight), Committed, Flight)
  BY <1>8, AfterRuns
<1>10. Path[Len(Flight)] = Committed
  BY <1>8, <1>9 DEF Runs, Path
<1>11. CoreInv
  BY <1>2, <1>6, <1>7, <1>8, <1>10 DEF CoreInv, Following, Buffers
<1> QED
  BY <1>4, <1>11

--------------------------------------------------------------------------------
(* The simulator.                                                              *)

Seqs == 0..(SeqNum - 1)
Slots == 0..(SlotNum - 1)
CbpEntry == [insn : Insn, taken : BOOLEAN, seq_no : Seqs]
Context == [actual_known : BOOLEAN, slot : Slots]

\* The calls, and the one that goes on after a commit.
Resumes == {Idle} \cup [op : {"predicted"}, insn : Insns]
Asking == [op : {"save", "update", "predicted"}, insn : Insns]
Training == [op : {"train"}, entry : CbpEntry, resume : Resumes]
Now == IF call.op = "train" THEN call.resume ELSE call

CbpBuffers ==
    /\ window = <<>> /\ synced = TRUE /\ robHead \in Tags /\ checkpoints \in [Tags -> Snapshots]
    /\ rob \in Seq(CbpEntry) /\ Len(rob) <= RobSize /\ seq_no \in Seqs
    /\ savedMeta \in [Slots -> Snapshots]
    /\ call \in {Idle} \cup Asking \cup Training
    /\ queue \in {0, 1} /\ (call.op # "train" => queue = 0)

\* The age of number s when n is the next one.
AgeOf(n, s) == (n + SeqNum - s) % SeqNum
AgeIs(n, s, a) == a = IF s <= n THEN n - s ELSE n + SeqNum - s

\* Every number in use is young enough, and used once.
Aged ==
    /\ \A k \in 1..Len(rob) : AgeOf(seq_no, rob[k].seq_no) \in 1..InFlight
    /\ \A i, j \in 1..Len(rob) : i # j => rob[i].seq_no # rob[j].seq_no
    /\ call.op = "train" =>
         /\ AgeOf(seq_no, call.entry.seq_no) \in 1..InFlight
         /\ \A k \in 1..Len(rob) : rob[k].seq_no # call.entry.seq_no

\* While an instruction is being predicted, its PC is the one queried last, and
\* there is room for it.
Asked ==
    Now.op # "idle" =>
        /\ predictionPc = Now.insn /\ Len(rob) < RobSize
        /\ \A k \in 1..Len(rob) : AgeOf(seq_no, rob[k].seq_no) < InFlight
        /\ Now.insn.kind = IF Now.op = "update" THEN "jump" ELSE "cond"

\* The histories before and after each branch in flight, and where they are saved.
Road == After(Committed, rob)
Kept ==
    /\ Speculative = Road[Len(rob)]
    /\ \A k \in 1..Len(rob) : IsCond(rob[k]) => savedMeta[meta_slot(rob[k].seq_no)] = Road[k - 1]
    /\ Now.op = "predicted" => savedMeta[meta_slot(seq_no)] = Speculative

\* The contexts: of the branches in flight, of the one being predicted and of the
\* one being trained.
KnownOf(q) == {unique_id(q[k].seq_no) : k \in {j \in 1..Len(q) : IsCond(q[j])}}
Known == KnownOf(rob)
Pending == IF Now.op = "predicted" THEN {unique_id(seq_no)} ELSE {}
Leaving == IF call.op = "train" /\ IsCond(call.entry) THEN {unique_id(call.entry.seq_no)} ELSE {}
Contexts ==
    /\ predictions \in [Known \cup Pending \cup Leaving -> Context]
    /\ \A id \in Known : predictions[id].actual_known

CbpInv == CbpBuffers /\ Aged /\ Asked /\ Kept /\ Contexts

LEMMA AgesAre ==
  ASSUME NEW n \in Seqs, NEW s \in Seqs
  PROVE  AgeIs(n, s, AgeOf(n, s)) /\ AgeOf(n, s) \in Seqs
<1>1. SeqNum \in Nat \ {0} /\ SlotNum \in Nat \ {0}
  BY SlotsSuffice, SMTT(60) DEF SeqNum
<1> HIDE DEF SeqNum
<1> DEFINE R == SeqNum
           x == n + R - s
<1>2. n \in 0..(R - 1) /\ s \in 0..(R - 1)
  BY DEF Seqs
<1>3. x \in Nat /\ x < 3 * R
  BY <1>1, <1>2, SMTT(60)
<1>4. x % R = Wrap(R, x)
  BY <1>1, <1>3, ModIs
<1>5. Wrap(R, x) = (IF s <= n THEN n - s ELSE n + R - s)
  BY <1>1, <1>2, SMTT(60) DEF Wrap
<1>6. (IF s <= n THEN n - s ELSE n + R - s) \in 0..(R - 1)
  BY <1>1, <1>2, SMTT(60)
<1>7. AgeOf(n, s) = (IF s <= n THEN n - s ELSE n + R - s)
  BY <1>4, <1>5 DEF AgeOf
<1> QED
  BY <1>6, <1>7 DEF AgeIs, Seqs

\* The next instruction makes every other one older.
LEMMA AgesGrow ==
  ASSUME NEW n \in Seqs, NEW s \in Seqs
  PROVE  /\ (n + 1) % SeqNum \in Seqs
         /\ AgeOf(n, s) < SeqNum - 1 => AgeOf((n + 1) % SeqNum, s) = AgeOf(n, s) + 1
         /\ AgeOf(n, n) = 0 /\ AgeOf((n + 1) % SeqNum, n) = 1
<1>1. SeqNum \in Nat /\ SeqNum >= 2
  BY SlotsSuffice, SMTT(60) DEF SeqNum
<1> HIDE DEF SeqNum
<1> DEFINE m == (n + 1) % SeqNum
<1>2. n \in 0..(SeqNum - 1) /\ s \in 0..(SeqNum - 1)
  BY DEF Seqs
<1>3. m = IF n + 1 = SeqNum THEN 0 ELSE n + 1
  <2>1. n + 1 \in Nat /\ SeqNum \in Nat \ {0} /\ n + 1 < 3 * SeqNum
    BY <1>1, <1>2, SMTT(60)
  <2>2. m = Wrap(SeqNum, n + 1)
    BY <2>1, ModIs
  <2> QED
    BY <1>1, <1>2, <2>2, SMTT(60) DEF Wrap
<1> HIDE DEF m
<1>4. m \in Seqs /\ m \in 0..(SeqNum - 1)
  BY <1>1, <1>2, <1>3, SMTT(60) DEF Seqs
<1>5. AgeIs(n, s, AgeOf(n, s)) /\ AgeIs(m, s, AgeOf(m, s)) /\ AgeIs(n, n, AgeOf(n, n)) /\ AgeIs(m, n, AgeOf(m, n))
  BY <1>4, AgesAre
<1>6. AgeOf(n, n) = 0 /\ AgeOf(m, n) = 1
  BY <1>1, <1>2, <1>3, <1>5, SMTT(60) DEF AgeIs
<1>7. AgeOf(n, s) < SeqNum - 1 => AgeOf(m, s) = AgeOf(n, s) + 1
  BY <1>1, <1>2, <1>3, <1>5, SMTT(60) DEF AgeIs
<1> QED
  BY <1>4, <1>6, <1>7 DEF m

\* Two numbers less than the slots apart have different slots.
LEMMA SlotsDiffer ==
  ASSUME NEW n \in Seqs, NEW s \in Seqs, AgeOf(n, s) \in 1..(SlotNum - 1)
  PROVE  meta_slot(s) # meta_slot(n)
<1>1. SlotNum \in Nat \ {0} /\ SeqNum = 2 * SlotNum
  BY SlotsSuffice, SMTT(60) DEF SeqNum
<1>2. n \in 0..(2 * SlotNum - 1) /\ s \in 0..(2 * SlotNum - 1)
  BY <1>1 DEF Seqs
<1>3. n \in Nat /\ s \in Nat /\ n < 3 * SlotNum /\ s < 3 * SlotNum
  BY <1>1, <1>2, SMTT(60)
<1>4. n % SlotNum = Wrap(SlotNum, n) /\ s % SlotNum = Wrap(SlotNum, s)
  BY <1>1, <1>3, ModIs
<1>5. AgeIs(n, s, AgeOf(n, s))
  BY AgesAre
<1>6. Wrap(SlotNum, n) # Wrap(SlotNum, s)
  BY <1>1, <1>2, <1>5, SMTT(60) DEF Wrap, AgeIs
<1> QED
  BY <1>4, <1>6 DEF meta_slot

\* An id names one number.
LEMMA IdsDiffer ==
  ASSUME NEW s \in Seqs, NEW t \in Seqs, s # t
  PROVE  unique_id(s) # unique_id(t)
<1>1. PieceNum \in Nat \ {0} /\ SeqNum \in Nat
  BY SlotsSuffice, SMTT(60) DEF SeqNum
<1>2. s \in Nat /\ t \in Nat
  BY <1>1, SMTT(60) DEF Seqs
<1>3. PieceNum * s # PieceNum * t
  BY <1>1, <1>2, SMTT(60)
<1> QED
  BY <1>3 DEF unique_id

LEMMA SlotIs ==
  ASSUME NEW s \in Seqs
  PROVE  meta_slot(s) \in Slots
<1>1. SlotNum \in Nat \ {0} /\ s \in Nat
  BY SlotsSuffice, SMTT(60) DEF SeqNum, Seqs
<1>2. s % SlotNum \in 0..(SlotNum - 1)
  BY <1>1, SMTT(60)
<1> QED
  BY <1>2 DEF meta_slot, Slots

\* What the contexts are of, and which call goes on.
LEMMA KnownIs ==
  ASSUME NEW q, NEW x
  PROVE  x \in KnownOf(q) <=> \E k \in 1..Len(q) : IsCond(q[k]) /\ x = unique_id(q[k].seq_no)
BY DEF KnownOf

LEMMA NowIs ==
  /\ call.op # "train" => Now = call /\ Leaving = {}
  /\ call.op = "train" => Now = call.resume
  /\ call'.op # "train" => Now' = call' /\ Leaving' = {}
  /\ call'.op = "train" => Now' = call'.resume
BY DEF Now, Leaving

LEMMA IdleIs ==
  Idle.op = "idle" /\ "idle" # "train" /\ "idle" # "predicted"
BY SMTT(60) DEF Idle

\* A tick moves the histories by what it is given.
LEMMA TickSets ==
  ASSUME Least, Counts, Registers, NEW es, Heard(es), NEW done, tick(es, done), Committed' \in Snapshots
  PROVE  Registers' /\ Speculative' = Outcomes(Speculative, es)
<1> DEFINE s == Outcomes(Speculative, es)
<1>1. Speculative \in Snapshots /\ foldedHistory = FoldsOf(Speculative)
  BY DEF Registers
<1>2. s \in Snapshots /\ [sh \in FoldShapes |-> speculativeFoldNext(FoldsOf(Speculative)[sh], Speculative, es, sh)] = FoldsOf(s)
  BY <1>1, OutcomesAre
<1>3. SetSpeculative(s, FoldsOf(s)) /\ Launch(s, FoldsOf(s), NoHint)
  BY <1>1, <1>2 DEF tick
<1>4. NoHint \in Hints
  BY SMTT(60) DEF Hints
<1> HIDE DEF s
<1>5. Registers' /\ Speculative' = s
  BY <1>2, <1>3, <1>4, EdgeSets
<1> QED
  BY <1>5 DEF s

\* A tick without a branch.
Quiet ==
    /\ Registers' /\ Speculative' = Speculative /\ Committed' = Committed /\ queue' = 0
    /\ window' = window /\ robHead' = robHead /\ checkpoints' = checkpoints /\ synced' = synced

LEMMA NothingHeard ==
  Heard(<<>>) /\ \A s : Outcomes(s, <<>>) = s
<1>1. Len(<<>>) = 0 /\ 1..0 = {}
  BY SMTT(60)
<1> QED
  BY <1>1, SMTT(60) DEF Heard, Outcomes

LEMMA NothingCommits ==
  ASSUME queue \in {0, 1}, NEW es, tick(es, <<>>)
  PROVE  Committed' = Committed /\ queue' = 0
<1>1. Outcomes(Committed, <<>>) = Committed
  BY NothingHeard
<1>2. committedHistory' = Committed.history /\ committedPathHistory' = Committed.path
  BY <1>1 DEF tick, CommitHistory
<1>3. Committed' = Committed
  BY <1>2, SMTT(60) DEF Committed
<1>4. queue' = 0
  <2>1. queue' = dequeued + enqueued(<<>>)
    BY DEF tick, Train
  <2>2. DOMAIN <<>> = {}
    BY SMTT(60)
  <2>3. enqueued(<<>>) = 0
    BY <2>2 DEF enqueued, Bit
  <2>4. dequeued = 0
    BY SMTT(60) DEF dequeued
  <2> QED
    BY <2>1, <2>3, <2>4, SMTT(60)
<1> QED
  BY <1>3, <1>4

LEMMA QuietTick ==
  ASSUME Least, Counts, Registers, queue \in {0, 1}, tick(<<>>, <<>>)
  PROVE  Quiet
<1>1. Heard(<<>>) /\ Outcomes(Speculative, <<>>) = Speculative
  BY NothingHeard
<1>2. Committed' = Committed /\ queue' = 0
  BY NothingCommits
<1>3. Committed \in Snapshots
  BY DEF Registers
<1>4. Registers' /\ Speculative' = Speculative
  BY <1>1, <1>2, <1>3, TickSets
<1> QED
  BY <1>2, <1>4 DEF Quiet, tick

\* Instructions in flight grow older by one.
LEMMA Older ==
  ASSUME seq_no \in Seqs, seq_no' = (seq_no + 1) % SeqNum, NEW s \in Seqs,
         AgeOf(seq_no, s) \in 1..InFlight, AgeOf(seq_no, s) < InFlight
  PROVE  AgeOf(seq_no', s) \in 1..InFlight
<1>1. InFlight \in Nat /\ InFlight <= SeqNum - 1 /\ SeqNum \in Nat
  BY SlotsSuffice, SMTT(60) DEF SeqNum
<1>2. AgeOf(seq_no, s) < SeqNum - 1
  BY <1>1, SMTT(60)
<1>3. AgeOf(seq_no', s) = AgeOf(seq_no, s) + 1
  BY <1>2, AgesGrow
<1> QED
  BY <1>1, <1>3, SMTT(60)

\* The numbers and the kinds of the branches in flight.
LEMMA EntryFields ==
  ASSUME rob \in Seq(CbpEntry), NEW k \in 1..Len(rob)
  PROVE  rob[k] \in CbpEntry /\ rob[k].seq_no \in Seqs /\ rob[k].insn \in Insn /\ Told(rob[k])
<1>1. rob[k] \in CbpEntry
  BY SMTT(60)
<1>2. \A e \in CbpEntry : e.seq_no \in Seqs /\ e.insn \in Insn /\ e.taken \in BOOLEAN
  BY SMTT(60) DEF CbpEntry
<1> QED
  BY <1>1, <1>2 DEF Told

LEMMA RoomIs ==
  ASSUME rob \in Seq(CbpEntry), roomInWindow
  PROVE  \A k \in 1..Len(rob) : AgeOf(seq_no, rob[k].seq_no) < InFlight
<1>1. DOMAIN rob = 1..Len(rob)
  BY SMTT(60)
<1> QED
  BY <1>1 DEF roomInWindow, age, AgeOf

\* An instruction that is no branch.
LEMMA OtherKeeps ==
  ASSUME CbpInv, OtherInsn
  PROVE  CbpInv'
<1>1. CbpBuffers /\ Aged /\ Asked /\ Kept /\ Contexts
  BY DEF CbpInv
<1>2. /\ call = Idle /\ call' = call /\ seq_no' = (seq_no + 1) % SeqNum /\ rob' = rob /\ savedMeta' = savedMeta
      /\ predictions' = predictions /\ predictionPc' = predictionPc /\ window' = window /\ synced' = synced
      /\ robHead' = robHead /\ checkpoints' = checkpoints /\ queue' = queue
  BY DEF OtherInsn, Number, vars
<1>3. Speculative' = Speculative /\ Committed' = Committed
  BY DEF OtherInsn, vars, histories, Speculative, Committed
<1>4. rob \in Seq(CbpEntry) /\ seq_no \in Seqs
  BY <1>1 DEF CbpBuffers
<1>5. seq_no' \in Seqs
  BY <1>2, <1>4, AgesGrow
<1>6. Now = Idle /\ Now' = Idle /\ Now.op = "idle" /\ Now'.op = "idle" /\ Leaving = {} /\ Leaving' = {}
  BY <1>2, NowIs, IdleIs
<1>7. Pending = {} /\ Pending' = {}
  BY <1>6, IdleIs DEF Pending
<1>8. CbpBuffers'
  BY <1>1, <1>2, <1>5 DEF CbpBuffers
<1>9. Aged'
  <2>1. \A k \in 1..Len(rob) : AgeOf(seq_no, rob[k].seq_no) < InFlight
    BY <1>4, RoomIs DEF OtherInsn
  <2>2. ASSUME NEW k \in 1..Len(rob) PROVE AgeOf(seq_no', rob[k].seq_no) \in 1..InFlight
    <3>1. rob[k].seq_no \in Seqs /\ AgeOf(seq_no, rob[k].seq_no) \in 1..InFlight
      BY <1>1, <1>4, EntryFields DEF Aged
    <3> QED
      BY <1>2, <1>4, <2>1, <3>1, Older
  <2>3. call'.op # "train"
    BY <1>2, IdleIs
  <2> QED
    BY <1>1, <1>2, <2>2, <2>3 DEF Aged
<1>10. Asked'
  BY <1>6 DEF Asked
<1>11. Kept'
  <2>1. Road' = Road
    BY <1>2, <1>3 DEF Road
  <2> QED
    BY <1>1, <1>2, <1>3, <1>6, <2>1, IdleIs DEF Kept, IsCond, meta_slot
<1>12. Contexts'
  BY <1>1, <1>2, <1>6, <1>7 DEF Contexts, Known
<1> QED
  BY <1>8, <1>9, <1>10, <1>11, <1>12 DEF CbpInv

\* The tick that begins a prediction, or the update for a jump.
LEMMA AskKeeps ==
  ASSUME Least, Counts, Registers, CbpInv, call = Idle, roomInWindow, Len(rob) < RobSize, tick(<<>>, <<>>),
         NEW insn \in Insns, predictionPc' = insn, NEW o \in {"save", "update"},
         insn.kind = IF o = "update" THEN "jump" ELSE "cond",
         call' = [op |-> o, insn |-> insn], UNCHANGED <<rob, seq_no, predictions, savedMeta>>
  PROVE  CbpInv' /\ Registers'
<1>1. CbpBuffers /\ Aged /\ Asked /\ Kept /\ Contexts
  BY DEF CbpInv
<1>2. Quiet
  <2>1. queue \in {0, 1}
    BY <1>1 DEF CbpBuffers
  <2> QED
    BY <2>1, QuietTick
<1>3. call'.op = o /\ call'.insn = insn /\ call'.op # "train" /\ call'.op # "idle" /\ call'.op # "predicted"
  BY SMTT(60)
<1>4. rob' = rob /\ seq_no' = seq_no /\ predictions' = predictions /\ savedMeta' = savedMeta
  BY SMTT(60)
<1>5. Now = Idle /\ Now.op = "idle" /\ Leaving = {} /\ Now' = call' /\ Leaving' = {}
  BY <1>3, NowIs, IdleIs
<1>6. Pending = {} /\ Pending' = {}
  BY <1>3, <1>5, IdleIs DEF Pending
<1>7. call' \in Asking
  BY SMTT(60) DEF Asking
<1>8. CbpBuffers'
  <2>1. queue' \in {0, 1} /\ queue' = 0
    BY <1>2, SMTT(60) DEF Quiet
  <2> QED
    BY <1>1, <1>2, <1>4, <1>7, <2>1 DEF CbpBuffers, Quiet
<1>9. Aged'
  BY <1>1, <1>3, <1>4 DEF Aged
<1>10. Asked'
  <2>1. rob \in Seq(CbpEntry)
    BY <1>1 DEF CbpBuffers
  <2>2. \A k \in 1..Len(rob) : AgeOf(seq_no, rob[k].seq_no) < InFlight
    BY <2>1, RoomIs
  <2> QED
    BY <1>3, <1>4, <1>5, <2>2 DEF Asked
<1>11. Kept'
  <2>1. Road' = Road
    BY <1>2, <1>4 DEF Road, Quiet
  <2> QED
    BY <1>1, <1>2, <1>3, <1>4, <1>5, <2>1 DEF Kept, IsCond, meta_slot, Quiet
<1>12. Contexts'
  BY <1>1, <1>4, <1>5, <1>6 DEF Contexts, Known
<1> QED
  BY <1>2, <1>8, <1>9, <1>10, <1>11, <1>12 DEF CbpInv, Quiet

\* The next number is nobody's.
LEMMA FreshId ==
  ASSUME rob \in Seq(CbpEntry), seq_no \in Seqs, Aged
  PROVE  unique_id(seq_no) \notin Known /\ \A k \in 1..Len(rob) : rob[k].seq_no # seq_no
<1>1. ASSUME NEW k \in 1..Len(rob) PROVE rob[k].seq_no \in Seqs /\ rob[k].seq_no # seq_no
  <2>1. rob[k].seq_no \in Seqs
    BY EntryFields
  <2>2. AgeOf(seq_no, rob[k].seq_no) \in 1..InFlight
    BY DEF Aged
  <2>3. AgeOf(seq_no, seq_no) = 0
    BY AgesGrow
  <2>4. AgeOf(seq_no, rob[k].seq_no) # 0
    BY <2>2, SMTT(60)
  <2> QED
    BY <2>1, <2>3, <2>4
<1>2. \A k \in 1..Len(rob) : unique_id(rob[k].seq_no) # unique_id(seq_no)
  BY <1>1, IdsDiffer
<1> QED
  BY <1>1, <1>2, KnownIs DEF Known

LEMMA CallIs ==
  ASSUME call \in {Idle} \cup Asking \cup Training
  PROVE  /\ call.op \in {"save", "update", "predicted"} => call \in Asking /\ call.insn \in Insns
         /\ call.op = "train" => call \in Training /\ call.entry \in CbpEntry /\ call.resume \in Resumes
         /\ call.op \in {"idle", "save", "update", "predicted", "train"}
         /\ call.op = "idle" => call = Idle
<1>1. CASE call = Idle
  BY <1>1, SMTT(60) DEF Idle
<1>2. CASE call \in Asking
  BY <1>2, SMTT(60) DEF Asking
<1>3. CASE call \in Training
  BY <1>3, SMTT(60) DEF Training
<1> QED
  BY <1>1, <1>2, <1>3

LEMMA ResumeIs ==
  ASSUME NEW c \in Resumes
  PROVE  /\ c \in {Idle} \cup Asking /\ c.op \in {"idle", "predicted"}
         /\ c.op = "idle" => c = Idle
<1>1. CASE c = Idle
  BY <1>1, SMTT(60) DEF Idle
<1>2. CASE c \in [op : {"predicted"}, insn : Insns]
  BY <1>2, SMTT(60) DEF Asking
<1> QED
  BY <1>1, <1>2 DEF Resumes

\* The tick that takes the answer.
LEMMA SaveKeeps ==
  ASSUME Least, Counts, Registers, CbpInv, SaveMeta
  PROVE  CbpInv' /\ Registers'
<1> DEFINE u == unique_id(seq_no)
           n == meta_slot(seq_no)
           c == [actual_known |-> FALSE, slot |-> n]
<1>1. CbpBuffers /\ Aged /\ Asked /\ Kept /\ Contexts
  BY DEF CbpInv
<1>2. Quiet
  <2>1. queue \in {0, 1}
    BY <1>1 DEF CbpBuffers
  <2> QED
    BY <2>1, QuietTick DEF SaveMeta
<1>3. rob \in Seq(CbpEntry) /\ seq_no \in Seqs /\ savedMeta \in [Slots -> Snapshots]
  BY <1>1 DEF CbpBuffers
<1>4. call.op = "save" /\ call \in Asking /\ call.insn \in Insns
  <2>1. call.op = "save"
    BY DEF SaveMeta
  <2> QED
    BY <1>1, <2>1, CallIs DEF CbpBuffers
<1>5. call' = [call EXCEPT !.op = "predicted"]
  BY DEF SaveMeta
<1>6. call' \in Asking /\ call'.op = "predicted" /\ call'.insn = call.insn
  BY <1>4, <1>5, SMTT(60) DEF Asking
<1>7. /\ rob' = rob /\ seq_no' = seq_no /\ predictionPc' = predictionPc
      /\ savedMeta' = [savedMeta EXCEPT ![n] = lookup.snapshot]
      /\ predictions' = [id \in DOMAIN predictions \cup {u} |-> IF id = u THEN c ELSE predictions[id]]
  BY DEF SaveMeta
<1>8. /\ Now = call /\ Leaving = {} /\ Now' = call' /\ Leaving' = {} /\ call'.op # "train" /\ call'.op # "idle"
      /\ call.op # "predicted" /\ call.op # "idle" /\ call.op # "update" /\ call'.op # "update"
  <2>1. "save" # "train" /\ "predicted" # "train" /\ "predicted" # "idle" /\ "save" # "predicted" /\ "save" # "idle"
        /\ "save" # "update" /\ "predicted" # "update"
    BY SMTT(60)
  <2> QED
    BY <1>4, <1>6, <2>1, NowIs
<1>9. Pending = {} /\ Pending' = {u}
  BY <1>6, <1>7, <1>8 DEF Pending, unique_id
<1>10. n \in Slots /\ c \in Context
  <2>1. n \in Slots
    BY <1>3, SlotIs
  <2> HIDE DEF n
  <2>2. c \in Context
    BY <2>1, SMTT(60) DEF Context
  <2> QED
    BY <2>1, <2>2 DEF n
<1> HIDE DEF u, n, c
<1>11. lookup.snapshot = Speculative /\ Speculative \in Snapshots
  BY DEF Registers
<1>12. savedMeta' \in [Slots -> Snapshots] /\ savedMeta'[n] = Speculative
       /\ \A x \in Slots : x # n => savedMeta'[x] = savedMeta[x]
  BY <1>3, <1>7, <1>10, <1>11, SMTT(60)
<1>13. CbpBuffers'
  <2>1. queue' \in {0, 1} /\ queue' = 0
    BY <1>2, SMTT(60) DEF Quiet
  <2> QED
    BY <1>1, <1>2, <1>6, <1>7, <1>12, <2>1 DEF CbpBuffers, Quiet
<1>14. Aged'
  BY <1>1, <1>7, <1>8 DEF Aged
<1>15. Asked'
  BY <1>1, <1>6, <1>7, <1>8 DEF Asked
<1>16. Kept'
  <2>1. Road' = Road
    BY <1>2, <1>7 DEF Road, Quiet
  <2>2. ASSUME NEW k \in 1..Len(rob), IsCond(rob[k]) PROVE savedMeta'[meta_slot(rob[k].seq_no)] = Road[k - 1]
    <3>1. rob[k].seq_no \in Seqs
      BY <1>3, EntryFields
    <3>2. AgeOf(seq_no, rob[k].seq_no) \in 1..InFlight
      BY <1>1 DEF Aged
    <3>3. AgeOf(seq_no, rob[k].seq_no) < InFlight
      BY <1>1, <1>8 DEF Asked
    <3>4. AgeOf(seq_no, rob[k].seq_no) \in 1..(SlotNum - 1)
      BY <3>2, <3>3, SlotsSuffice, SMTT(60)
    <3>5. meta_slot(rob[k].seq_no) # n /\ meta_slot(rob[k].seq_no) \in Slots
      BY <1>3, <3>1, <3>4, SlotsDiffer, SlotIs DEF n
    <3>6. savedMeta[meta_slot(rob[k].seq_no)] = Road[k - 1]
      BY <1>1, <2>2 DEF Kept
    <3> QED
      BY <1>12, <3>5, <3>6
  <2>3. savedMeta'[meta_slot(seq_no')] = Speculative
    BY <1>7, <1>12 DEF n
  <2>4. Speculative' = Road'[Len(rob')] /\ Speculative' = Speculative
    BY <1>1, <1>2, <1>7, <2>1 DEF Kept, Quiet
  <2> QED
    BY <1>7, <2>1, <2>2, <2>3, <2>4 DEF Kept, IsCond, meta_slot
<1>17. Contexts'
  <2>1. predictions \in [Known -> Context] /\ \A id \in Known : predictions[id].actual_known
    <3>1. Known \cup Pending \cup Leaving = Known
      BY <1>8, <1>9
    <3> QED
      BY <1>1, <3>1 DEF Contexts
  <2>2. u \notin Known
    BY <1>1, <1>3, FreshId DEF u
  <2>3. Known' = Known
    BY <1>7 DEF Known
  <2>4. predictions' \in [Known \cup {u} -> Context] /\ \A id \in Known : predictions'[id] = predictions[id]
    BY <1>7, <1>10, <2>1, <2>2, SMTT(60)
  <2>5. Known' \cup Pending' \cup Leaving' = Known \cup {u}
    BY <1>8, <1>9, <2>3
  <2> QED
    BY <2>1, <2>3, <2>4, <2>5 DEF Contexts
<1> QED
  BY <1>2, <1>13, <1>14, <1>15, <1>16, <1>17 DEF CbpInv, Quiet

LEMMA ToldContext ==
  ASSUME NEW c \in Context
  PROVE  [c EXCEPT !.actual_known = TRUE] \in Context /\ [c EXCEPT !.actual_known = TRUE].actual_known
<1> DEFINE d == [c EXCEPT !.actual_known = TRUE]
<1>3. d.actual_known = TRUE
  BY DEF Context
<1>4. d \in Context
  BY DEF Context
<1> QED
  BY <1>3, <1>4

\* The direction of the branch becomes known.
LEMMA ResolveKeeps ==
  ASSUME CbpInv, NEW k \in DOMAIN rob, Resolve(k)
  PROVE  CbpInv'
<1> DEFINE v == unique_id(rob[k].seq_no)
<1>1. CbpBuffers /\ Aged /\ Asked /\ Kept /\ Contexts
  BY DEF CbpInv
<1>2. /\ call' = call /\ seq_no' = seq_no /\ rob' = rob /\ savedMeta' = savedMeta
      /\ predictionPc' = predictionPc /\ window' = window /\ synced' = synced
      /\ robHead' = robHead /\ checkpoints' = checkpoints /\ queue' = queue
      /\ predictions' = [predictions EXCEPT ![v].actual_known = TRUE]
  BY DEF Resolve, vars
<1>3. Speculative' = Speculative /\ Committed' = Committed
  BY DEF Resolve, vars, histories, Speculative, Committed
<1>4. Now' = Now /\ Leaving' = Leaving /\ Pending' = Pending /\ Known' = Known /\ Road' = Road
  BY <1>2, <1>3 DEF Now, Leaving, Pending, Known, Road, IsCond, unique_id
<1>5. v \in Known
  <2>1. rob \in Seq(CbpEntry)
    BY <1>1 DEF CbpBuffers
  <2>2. k \in 1..Len(rob)
    BY <2>1, SMTT(60)
  <2>3. IsCond(rob[k])
    BY DEF Resolve
  <2> QED
    BY <2>2, <2>3, KnownIs DEF Known
<1>6. CbpBuffers'
  BY <1>1, <1>2 DEF CbpBuffers
<1>7. Aged' /\ Asked'
  BY <1>1, <1>2, <1>4 DEF Aged, Asked
<1>8. Kept'
  BY <1>1, <1>2, <1>3, <1>4 DEF Kept, IsCond, meta_slot
<1>9. Contexts'
  <2> DEFINE D == Known \cup Pending \cup Leaving
  <2>1. predictions \in [D -> Context] /\ \A id \in Known : predictions[id].actual_known
    BY <1>1 DEF Contexts
  <2>2. v \in D /\ Known \subseteq D
    BY <1>5
  <2> HIDE DEF v, D
  <2>3. predictions[v] \in Context
    BY <2>1, <2>2
  <2> DEFINE c == [predictions[v] EXCEPT !.actual_known = TRUE]
  <2>4. c \in Context /\ c.actual_known
    BY <2>3, ToldContext
  <2> HIDE DEF c
  <2>5. predictions' = [predictions EXCEPT ![v] = c]
    BY <1>2 DEF c
  <2>6. predictions' \in [D -> Context] /\ \A id \in Known : predictions'[id] = IF id = v THEN c ELSE predictions[id]
    BY <2>1, <2>2, <2>4, <2>5, SMTT(60)
  <2>7. \A id \in Known : predictions'[id].actual_known
    BY <2>1, <2>4, <2>6
  <2> QED
    BY <1>4, <2>6, <2>7 DEF Contexts, D
<1> QED
  BY <1>6, <1>7, <1>8, <1>9 DEF CbpInv

\* The second tick of a commit.
LEMMA TrainKeeps ==
  ASSUME Least, Counts, Registers, CbpInv, TrainTick
  PROVE  CbpInv' /\ Registers'
<1> DEFINE v == unique_id(call.entry.seq_no)
<1>1. CbpBuffers /\ Aged /\ Asked /\ Kept /\ Contexts
  BY DEF CbpInv
<1>2. Quiet
  <2>1. queue \in {0, 1}
    BY <1>1 DEF CbpBuffers
  <2> QED
    BY <2>1, QuietTick DEF TrainTick
<1>3. rob \in Seq(CbpEntry) /\ seq_no \in Seqs
  BY <1>1 DEF CbpBuffers
<1>4. call.op = "train" /\ call.entry \in CbpEntry /\ call.resume \in Resumes
  <2>1. call.op = "train"
    BY DEF TrainTick
  <2> QED
    BY <1>1, <2>1, CallIs DEF CbpBuffers
<1>5. /\ call' = call.resume /\ rob' = rob /\ seq_no' = seq_no /\ predictionPc' = predictionPc /\ savedMeta' = savedMeta
      /\ predictions' = erased(call.entry)
  BY DEF TrainTick
<1>6. call' \in {Idle} \cup Asking /\ call'.op \in {"idle", "predicted"}
  BY <1>4, <1>5, ResumeIs
<1>7. call'.op # "train"
  BY <1>6, SMTT(60)
<1>8. Now' = Now /\ Leaving' = {}
  BY <1>4, <1>5, <1>7, NowIs
<1>9. Pending' = Pending /\ Known' = Known /\ Road' = Road
  BY <1>2, <1>5, <1>8 DEF Pending, Known, Road, unique_id, Quiet
<1>10. CbpBuffers'
  <2>1. queue' \in {0, 1} /\ queue' = 0
    BY <1>2, SMTT(60) DEF Quiet
  <2> QED
    BY <1>1, <1>2, <1>5, <1>6, <2>1 DEF CbpBuffers, Quiet
<1>11. Aged'
  BY <1>1, <1>5, <1>7 DEF Aged
<1>12. Asked'
  BY <1>1, <1>5, <1>8 DEF Asked
<1>13. Kept'
  BY <1>1, <1>2, <1>5, <1>8, <1>9 DEF Kept, IsCond, meta_slot, Quiet
<1>14. v \notin Known /\ v \notin Pending
  <2>1. call.entry.seq_no \in Seqs
    BY <1>4, SMTT(60) DEF CbpEntry
  <2>2. \A k \in 1..Len(rob) : rob[k].seq_no # call.entry.seq_no /\ rob[k].seq_no \in Seqs
    BY <1>1, <1>3, <1>4, EntryFields DEF Aged
  <2>3. v \notin Known
    BY <2>1, <2>2, IdsDiffer, KnownIs DEF Known
  <2>4. call.entry.seq_no # seq_no
    <3>1. AgeOf(seq_no, call.entry.seq_no) \in 1..InFlight
      BY <1>1, <1>4 DEF Aged
    <3>2. AgeOf(seq_no, seq_no) = 0
      BY <1>3, AgesGrow
    <3>3. AgeOf(seq_no, call.entry.seq_no) # 0
      BY <3>1, SMTT(60)
    <3> QED
      BY <3>2, <3>3
  <2>5. v # unique_id(seq_no)
    BY <1>3, <2>1, <2>4, IdsDiffer
  <2> QED
    BY <2>3, <2>5 DEF Pending
<1>15. Contexts'
  <2> DEFINE D == Known \cup Pending
  <2>1. predictions \in [D \cup Leaving -> Context] /\ \A id \in Known : predictions[id].actual_known
    <3>1. Known \cup Pending \cup Leaving = D \cup Leaving
      OBVIOUS
    <3> QED
      BY <1>1, <3>1 DEF Contexts
  <2>2. Leaving = IF IsCond(call.entry) THEN {v} ELSE {}
    BY <1>4 DEF Leaving
  <2>3. v \notin D /\ Known \subseteq D
    BY <1>14
  <2>4. predictions' = [id \in {i \in DOMAIN predictions : IsCond(call.entry) => i # v} |-> predictions[id]]
    BY <1>5 DEF erased
  <2>5. Known' \cup Pending' \cup Leaving' = D
    BY <1>8, <1>9
  <2> HIDE DEF D, v
  <2>6. {i \in DOMAIN predictions : IsCond(call.entry) => i # v} = D
    <3>1. DOMAIN predictions = D \cup Leaving
      BY <2>1
    <3> QED
      BY <2>2, <2>3, <3>1
  <2>7. predictions' \in [D -> Context] /\ \A id \in D : predictions'[id] = predictions[id]
    BY <2>1, <2>4, <2>6, SMTT(60)
  <2> QED
    BY <1>9, <2>1, <2>3, <2>5, <2>7 DEF Contexts
<1> QED
  BY <1>2, <1>10, <1>11, <1>12, <1>13, <1>15 DEF CbpInv, Quiet

\* The tick that moves the histories, and the branch that goes into the window.
LEMMA SpecUpdateKeeps ==
  ASSUME Least, Counts, Registers, CbpInv, NEW taken \in BOOLEAN, SpecUpdate(taken)
  PROVE  CbpInv' /\ Registers'
<1> DEFINE u == unique_id(seq_no)
           e == [insn |-> call.insn, taken |-> taken, seq_no |-> seq_no]
           d == [insn |-> [call.insn EXCEPT !.bit = predictionPc.bit], taken |-> taken]
           es == <<d>>
<1>1. CbpBuffers /\ Aged /\ Asked /\ Kept /\ Contexts
  BY DEF CbpInv
<1>2. rob \in Seq(CbpEntry) /\ seq_no \in Seqs /\ savedMeta \in [Slots -> Snapshots] /\ queue \in {0, 1}
  BY <1>1 DEF CbpBuffers
<1>3. call.op \in {"predicted", "update"} /\ call \in Asking /\ call.insn \in Insns
  <2>1. call.op \in {"predicted", "update"}
    BY DEF SpecUpdate
  <2> QED
    BY <1>1, <2>1, CallIs DEF CbpBuffers
<1>4. /\ call.op # "train" /\ call.op # "idle" /\ call' = Idle /\ Idle.op # "train" /\ Idle.op = "idle"
      /\ Idle.op # "predicted"
  <2>1. call.op # "train" /\ call.op # "idle"
    BY <1>3, SMTT(60)
  <2> QED
    BY <2>1, IdleIs DEF SpecUpdate
<1>5. Now = call /\ Leaving = {} /\ Now' = Idle /\ Leaving' = {} /\ Pending' = {}
  BY <1>4, NowIs DEF Pending
<1>6. predictionPc = call.insn /\ Len(rob) < RobSize
      /\ (\A k \in 1..Len(rob) : AgeOf(seq_no, rob[k].seq_no) < InFlight)
      /\ call.insn.kind = IF call.op = "update" THEN "jump" ELSE "cond"
  BY <1>1, <1>4, <1>5 DEF Asked
<1>7. tick(es, <<>>) /\ rob' = Append(rob, e) /\ predictionPc' = predictionPc /\ savedMeta' = savedMeta
      /\ seq_no' = (seq_no + 1) % SeqNum
  BY DEF SpecUpdate, Number
<1>29. predictions' = [id \in DOMAIN predictions |->
          IF id = u THEN [predictions[id] EXCEPT !.actual_known = TRUE] ELSE predictions[id]]
  BY SMTT(60) DEF SpecUpdate
<1>8. call.insn \in Insn
  BY <1>3, InsnsAssumption DEF Insn
<1>9. d.insn = call.insn /\ d.taken = taken
  BY <1>6, <1>8, SMTT(60) DEF Insn
<1>10. Told(d) /\ Same(d, e)
  BY <1>8, <1>9 DEF Told, Same
<1>11. e \in CbpEntry /\ e.seq_no = seq_no /\ e.insn = call.insn
  BY <1>2, <1>8, SMTT(60) DEF CbpEntry
<1> HIDE DEF d, e
<1>12. Len(es) = 1 /\ es[1] = d
  BY SMTT(60)
<1>13. Heard(es)
  BY <1>10, <1>12, SMTT(60) DEF Heard
<1>14. Committed' = Committed /\ queue' = 0
  BY <1>2, <1>7, NothingCommits
<1>15. Committed' \in Snapshots
  BY <1>14 DEF Registers
<1>16. Registers' /\ Speculative' = Outcomes(Speculative, es)
  BY <1>7, <1>13, <1>15, TickSets
<1>17. Outcomes(Speculative, es) = Outcome(Speculative, e)
  <2>1. Outcomes(Speculative, es) = Outcome(Speculative, d)
    BY <1>12, SMTT(60) DEF Outcomes
  <2> QED
    BY <1>10, <2>1, SameOutcome, SMTT(60)
<1> HIDE DEF es
<1>18. PICK m \in Nat : m = Len(rob)
  BY <1>2, SMTT(60)
<1>19. Len(rob') = m + 1 /\ rob'[m + 1] = e /\ (\A i \in 1..m : rob'[i] = rob[i]) /\ rob' \in Seq(CbpEntry)
  BY <1>2, <1>7, <1>11, <1>18, SMTT(60)
<1>20. (\A i \in 0..m : Road'[i] = Road[i]) /\ Road'[m + 1] = Outcome(Road[m], e)
  <2>1. CutAt(rob', rob, m + 1)
    BY <1>18, <1>19, SMTT(60) DEF CutAt
  <2>2. m + 1 \in 1..(Len(rob) + 1) /\ Len(rob) \in Nat
    BY <1>18, SMTT(60)
  <2>3. CutPath(After(Committed, rob'), After(Committed, rob), rob'[m + 1], m + 1)
    BY <2>1, <2>2, CutFollows
  <2>4. Road' = After(Committed, rob')
    BY <1>14 DEF Road
  <2>5. CutPath(Road', Road, e, m + 1)
    BY <1>19, <2>3, <2>4 DEF Road
  <2> HIDE DEF Road
  <2> QED
    BY <2>5, SMTT(60) DEF CutPath
<1>21. CbpBuffers'
  <2>1. queue' \in {0, 1} /\ Len(rob') <= RobSize
    BY <1>6, <1>14, <1>18, <1>19, SizesAssumption, SMTT(60)
  <2>2. seq_no' \in Seqs
    BY <1>2, <1>7, AgesGrow
  <2>3. window' = window /\ synced' = synced /\ robHead' = robHead /\ checkpoints' = checkpoints
    BY <1>7 DEF tick
  <2>4. call' \in {Idle} \cup Asking \cup Training
    BY <1>4
  <2>5. window = <<>> /\ synced = TRUE /\ robHead \in Tags /\ checkpoints \in [Tags -> Snapshots]
    BY <1>1 DEF CbpBuffers
  <2>6. window' = <<>> /\ synced' = TRUE /\ robHead' \in Tags /\ checkpoints' \in [Tags -> Snapshots]
    BY <2>3, <2>5
  <2> QED
    BY <1>2, <1>7, <1>14, <1>19, <2>1, <2>2, <2>4, <2>6 DEF CbpBuffers
<1>22. \A k \in 1..m : rob[k].seq_no # seq_no
  BY <1>1, <1>2, <1>18, FreshId
<1>23. Aged'
  <2>1. ASSUME NEW k \in 1..m PROVE AgeOf(seq_no', rob[k].seq_no) \in 1..InFlight
    <3>1. rob[k].seq_no \in Seqs
      BY <1>2, <1>18, EntryFields
    <3>2. AgeOf(seq_no, rob[k].seq_no) \in 1..InFlight /\ AgeOf(seq_no, rob[k].seq_no) < InFlight
      BY <1>1, <1>6, <1>18 DEF Aged
    <3> QED
      BY <1>2, <1>7, <3>1, <3>2, Older
  <2>2. AgeOf(seq_no', e.seq_no) \in 1..InFlight
    <3>1. AgeOf(seq_no', e.seq_no) = 1
      BY <1>2, <1>7, <1>11, AgesGrow
    <3> QED
      BY <3>1, SlotsSuffice, SMTT(60)
  <2>3. \A k \in 1..(m + 1) : k \in 1..m \/ k = m + 1
    BY SMTT(60)
  <2>4. \A k \in 1..Len(rob') : AgeOf(seq_no', rob'[k].seq_no) \in 1..InFlight
    BY <1>19, <2>1, <2>2, <2>3
  <2>5. \A i, j \in 1..m : i # j => rob[i].seq_no # rob[j].seq_no
    BY <1>1, <1>18 DEF Aged
  <2>6. \A i, j \in 1..Len(rob') : i # j => rob'[i].seq_no # rob'[j].seq_no
    BY <1>11, <1>19, <1>22, <2>3, <2>5
  <2> QED
    BY <1>4, <2>4, <2>6 DEF Aged
<1>24. Asked'
  BY <1>4, <1>5 DEF Asked
<1>25. Kept'
  <2>1. Speculative' = Road'[Len(rob')]
    BY <1>1, <1>16, <1>17, <1>18, <1>19, <1>20 DEF Kept
  <2>2. ASSUME NEW k \in 1..m, IsCond(rob[k]) PROVE savedMeta'[meta_slot(rob[k].seq_no)] = Road'[k - 1]
    <3>1. k - 1 \in 0..m
      BY SMTT(60)
    <3> QED
      BY <1>1, <1>7, <1>18, <1>20, <2>2, <3>1 DEF Kept
  <2>3. IsCond(e) => savedMeta'[meta_slot(e.seq_no)] = Road'[m]
    <3>1. HAVE IsCond(e)
    <3>2. call.insn.kind = "cond"
      BY <1>11, <3>1 DEF IsCond
    <3>3. call.op = "predicted"
      BY <1>3, <1>6, <3>2, SMTT(60)
    <3>4. m \in 0..m
      BY SMTT(60)
    <3> QED
      BY <1>1, <1>5, <1>7, <1>11, <1>18, <1>20, <3>3, <3>4 DEF Kept
  <2>4. \A k \in 1..(m + 1) : k \in 1..m \/ (k = m + 1 /\ k - 1 = m)
    BY SMTT(60)
  <2>5. \A k \in 1..Len(rob') : IsCond(rob'[k]) => savedMeta'[meta_slot(rob'[k].seq_no)] = Road'[k - 1]
    BY <1>19, <2>2, <2>3, <2>4
  <2> QED
    BY <1>4, <1>5, <2>1, <2>5 DEF Kept, IsCond, meta_slot
<1>26. u \notin Known
  BY <1>1, <1>2, FreshId
<1>27. Known' = IF call.op = "predicted" THEN Known \cup {u} ELSE Known
  <2>1. IsCond(e) <=> call.op = "predicted"
    <3>1. IsCond(e) <=> call.insn.kind = "cond"
      BY <1>11 DEF IsCond
    <3> QED
      BY <1>3, <1>6, <3>1, SMTT(60)
  <2>2. \A k \in 1..(m + 1) : k \in 1..m \/ k = m + 1
    BY SMTT(60)
  <2>3. 1..m \subseteq 1..(m + 1) /\ m + 1 \in 1..(m + 1)
    BY SMTT(60)
  <2>4. ASSUME NEW x PROVE x \in Known' <=> x \in Known \/ (IsCond(e) /\ x = u)
    <3>1. x \in Known' <=> \E k \in 1..(m + 1) : IsCond(rob'[k]) /\ x = unique_id(rob'[k].seq_no)
      <4>1. Known' = KnownOf(rob')
        BY DEF Known, KnownOf, IsCond, unique_id
      <4> QED
        BY <1>19, <4>1, KnownIs
    <3>2. x \in Known <=> \E k \in 1..m : IsCond(rob[k]) /\ x = unique_id(rob[k].seq_no)
      BY <1>18, KnownIs DEF Known
    <3> QED
      BY <1>11, <1>19, <2>2, <2>3, <3>1, <3>2
  <2> QED
    BY <2>1, <2>4
<1>28. Contexts'
  <2> DEFINE D == Known \cup Pending
  <2>1. predictions \in [D -> Context] /\ \A id \in Known : predictions[id].actual_known
    <3>1. Known \cup Pending \cup Leaving = D
      BY <1>5
    <3> QED
      BY <1>1, <3>1 DEF Contexts
  <2>2. Pending = IF call.op = "predicted" THEN {u} ELSE {}
    BY <1>5 DEF Pending
  <2>3. Known' = D /\ Known' \cup Pending' \cup Leaving' = D
    BY <1>5, <1>27, <2>2
  <2>4. \A id \in D : id # u => id \in Known
    BY <2>2
  <2> HIDE DEF D, u
  <2>5. \A id \in D : predictions[id] \in Context
    BY <2>1
  <2>6. \A id \in D : /\ [predictions[id] EXCEPT !.actual_known = TRUE] \in Context
                      /\ [predictions[id] EXCEPT !.actual_known = TRUE].actual_known
    BY <2>5, ToldContext
  <2>7. DOMAIN predictions = D
    BY <2>1
  <2>8. predictions' = [id \in D |->
             IF id = u THEN [predictions[id] EXCEPT !.actual_known = TRUE] ELSE predictions[id]]
    BY <1>29, <2>7
  <2>9. \A id \in D : predictions'[id] = IF id = u THEN [predictions[id] EXCEPT !.actual_known = TRUE] ELSE predictions[id]
    BY <2>8
  <2>10. \A id \in D : predictions'[id] \in Context /\ predictions'[id].actual_known
    BY <2>1, <2>4, <2>5, <2>6, <2>9
  <2>11. predictions' \in [D -> Context]
    BY <2>8, <2>10
  <2> QED
    BY <2>3, <2>10, <2>11 DEF Contexts
<1> QED
  BY <1>16, <1>21, <1>23, <1>24, <1>25, <1>28 DEF CbpInv

LEMMA OneIs ==
  ASSUME NEW T, NEW s \in Seq(T), Len(s) >= 1
  PROVE  SubSeq(s, 1, 1) = <<s[1]>>
<1> DEFINE a == SubSeq(s, 1, 1)
<1>1. a \in Seq(T) /\ Len(a) = 1 /\ a[1] = s[1]
  BY SMTT(60)
<1>2. <<s[1]>> \in Seq(T) /\ Len(<<s[1]>>) = 1 /\ <<s[1]>>[1] = s[1]
  BY SMTT(60)
<1> HIDE DEF a
<1>3. a = [i \in 1..1 |-> a[i]]
  BY <1>1, SMTT(60)
<1>4. <<s[1]>> = [i \in 1..1 |-> <<s[1]>>[i]]
  BY <1>2, SMTT(60)
<1>5. [i \in 1..1 |-> a[i]] = [i \in 1..1 |-> <<s[1]>>[i]]
  BY <1>1, <1>2, SMTT(60)
<1> QED
  BY <1>3, <1>4, <1>5 DEF a

\* The tick that hands the oldest branch to the training queue.
LEMMA CommitKeeps ==
  ASSUME Least, Counts, Registers, CbpInv, Commit
  PROVE  CbpInv' /\ Registers'
<1> DEFINE e == rob[1]
<1>1. CbpBuffers /\ Aged /\ Asked /\ Kept /\ Contexts
  BY DEF CbpInv
<1>2. rob \in Seq(CbpEntry) /\ seq_no \in Seqs /\ queue \in {0, 1} /\ call \in {Idle} \cup Asking \cup Training
  BY <1>1 DEF CbpBuffers
<1>3. call \in Resumes /\ call.op # "train"
  <2>1. CASE call = Idle
    BY <2>1, IdleIs DEF Resumes
  <2>2. CASE call.op = "predicted"
    <3>1. call \in Asking
      BY <1>2, <2>2, CallIs
    <3>2. call \in [op : {"predicted"}, insn : Insns]
      BY <2>2, <3>1, SMTT(60) DEF Asking
    <3>3. call.op # "train"
      BY <2>2, SMTT(60)
    <3> QED
      BY <3>2, <3>3 DEF Resumes
  <2> QED
    BY <2>1, <2>2 DEF Commit
<1>4. PICK m \in Nat : Len(rob) = m + 1
  <2>1. rob # <<>>
    BY DEF Commit
  <2>2. Len(rob) \in Nat \ {0}
    BY <1>2, <2>1, SMTT(60)
  <2>3. Len(rob) - 1 \in Nat /\ Len(rob) = (Len(rob) - 1) + 1
    BY <2>2, SMTT(60)
  <2> QED
    BY <2>3
<1>5. Head(rob) = e /\ e \in CbpEntry /\ SubSeq(rob, 1, 1) = <<e>>
  <2>1. Head(rob) = e /\ e \in CbpEntry
    BY <1>2, <1>4, SMTT(60)
  <2>2. Len(rob) >= 1
    BY <1>4, SMTT(60)
  <2>3. SubSeq(rob, 1, 1) = <<rob[1]>>
    BY <1>2, <2>2, OneIs
  <2> QED
    BY <2>1, <2>3
<1>6. /\ tick(<<>>, SubSeq(rob, 1, 1)) /\ rob' = Tail(rob)
      /\ call' = [op |-> "train", entry |-> e, resume |-> call]
      /\ seq_no' = seq_no /\ predictionPc' = predictionPc /\ predictions' = predictions /\ savedMeta' = savedMeta
  BY <1>5 DEF Commit
<1>7. call' \in Training /\ call'.op = "train" /\ call'.entry = e /\ call'.resume = call
  BY <1>3, <1>5, <1>6, SMTT(60) DEF Training
<1>8. Now = call /\ Now' = Now /\ Leaving = {}
  BY <1>3, <1>7, NowIs
<1>9. Len(rob') = m /\ rob' \in Seq(CbpEntry) /\ \A i \in 1..m : rob'[i] = rob[i + 1]
  BY <1>2, <1>4, <1>6, SMTT(60)
<1>10. Committed' \in Snapshots /\ Committed' = Road[1]
  <2>1. CommitHistory(SubSeq(rob, 1, 1))
    BY <1>6 DEF tick
  <2>2. \A x \in CbpEntry : Told(x)
    BY SMTT(60) DEF CbpEntry, Told
  <2>3. 1 \in 0..2 /\ 1 <= Len(rob) /\ Len(rob) \in Nat /\ \A i \in 1..1 : rob[i] = rob[i]
    BY <1>4, SMTT(60)
  <2>4. Committed \in Snapshots
    BY DEF Registers
  <2> QED
    BY <1>2, <2>1, <2>2, <2>3, <2>4, CommitIs DEF Road
<1>11. Registers' /\ Speculative' = Speculative
  <2>1. Heard(<<>>) /\ Outcomes(Speculative, <<>>) = Speculative
    BY NothingHeard
  <2> QED
    BY <1>6, <1>10, <2>1, TickSets
<1>12. \A i \in 0..m : Road'[i] = Road[i + 1]
  <2>1. Agree(rob', rob, 1, m)
    <3>1. \A i \in 1..m : 1 + i = i + 1
      BY SMTT(60)
    <3>2. \A i \in 1..m : rob'[i] = rob[1 + i]
      BY <1>9, <3>1
    <3> QED
      BY <3>2 DEF Agree, Same
  <2>2. 1 \in Nat /\ 1 + m <= Len(rob) /\ m <= Len(rob') /\ Len(rob) \in Nat /\ Len(rob') \in Nat
    BY <1>4, <1>9, SMTT(60)
  <2>3. Committed' = After(Committed, rob)[1]
    BY <1>10 DEF Road
  <2>4. Follows(After(Committed', rob'), After(Committed, rob), 1, m)
    BY <2>1, <2>2, <2>3, Carries
  <2>5. Follows(Road', Road, 1, m)
    BY <2>4 DEF Road
  <2> HIDE DEF Road
  <2>6. \A i \in 0..m : Road'[i] = Road[1 + i]
    BY <2>5 DEF Follows
  <2>7. \A i \in 0..m : 1 + i = i + 1
    BY SMTT(60)
  <2> QED
    BY <2>6, <2>7
<1>13. CbpBuffers'
  <2>1. window' = window /\ synced' = synced /\ robHead' = robHead /\ checkpoints' = checkpoints
    BY <1>6 DEF tick
  <2>2. window = <<>> /\ synced = TRUE /\ robHead \in Tags /\ checkpoints \in [Tags -> Snapshots]
        /\ savedMeta \in [Slots -> Snapshots]
    BY <1>1 DEF CbpBuffers
  <2>3. Len(rob') <= RobSize
    <3>1. Len(rob) <= RobSize
      BY <1>1 DEF CbpBuffers
    <3> QED
      BY <1>4, <1>9, <3>1, SizesAssumption, SMTT(60)
  <2>4. queue' \in {0, 1}
    <3>1. queue = 0
      BY <1>1, <1>3 DEF CbpBuffers
    <3>2. queue' = dequeued + enqueued(<<e>>)
      BY <1>5, <1>6 DEF tick, Train
    <3>3. dequeued = 0
      BY <3>1, SMTT(60) DEF dequeued
    <3>4. enqueued(<<e>>) \in {0, 1}
      BY SMTT(60) DEF enqueued, Bit, IsCond
    <3> QED
      BY <3>2, <3>3, <3>4, SMTT(60)
  <2> QED
    BY <1>2, <1>6, <1>7, <1>9, <2>1, <2>2, <2>3, <2>4 DEF CbpBuffers
<1>14. \A i \in 1..m : i + 1 \in 1..Len(rob) /\ i + 1 # 1
  BY <1>4, SMTT(60)
<1>15. 1 \in 1..Len(rob)
  BY <1>4, SMTT(60)
<1>16. Aged'
  <2>1. \A k \in 1..Len(rob') : AgeOf(seq_no', rob'[k].seq_no) \in 1..InFlight
    BY <1>1, <1>6, <1>9, <1>14 DEF Aged
  <2>2. \A i, j \in 1..Len(rob') : i # j => rob'[i].seq_no # rob'[j].seq_no
    <3>1. \A i, j \in 1..Len(rob) : i # j => rob[i].seq_no # rob[j].seq_no
      BY <1>1 DEF Aged
    <3>2. ASSUME NEW i \in 1..m, NEW j \in 1..m, i # j PROVE rob'[i].seq_no # rob'[j].seq_no
      <4>1. i + 1 # j + 1
        BY <3>2, SMTT(60)
      <4>2. i + 1 \in 1..Len(rob) /\ j + 1 \in 1..Len(rob)
        BY <1>14
      <4>3. rob[i + 1].seq_no # rob[j + 1].seq_no
        BY <3>1, <4>1, <4>2
      <4> QED
        BY <1>9, <4>3
    <3>3. Len(rob') = m
      BY <1>9
    <3> QED
      BY <3>2, <3>3
  <2>3. AgeOf(seq_no', call'.entry.seq_no) \in 1..InFlight
    BY <1>1, <1>6, <1>7, <1>15 DEF Aged
  <2>4. \A k \in 1..Len(rob') : rob'[k].seq_no # call'.entry.seq_no
    BY <1>1, <1>7, <1>9, <1>14, <1>15 DEF Aged
  <2> QED
    BY <2>1, <2>2, <2>3, <2>4 DEF Aged
<1>17. Asked'
  <2>1. Len(rob) < RobSize => Len(rob') < RobSize
    BY <1>4, <1>9, SizesAssumption, SMTT(60)
  <2>2. (\A k \in 1..Len(rob) : AgeOf(seq_no, rob[k].seq_no) < InFlight) =>
            \A k \in 1..Len(rob') : AgeOf(seq_no', rob'[k].seq_no) < InFlight
    BY <1>6, <1>9, <1>14
  <2> QED
    BY <1>1, <1>6, <1>8, <2>1, <2>2 DEF Asked
<1>18. Kept'
  <2>1. Speculative' = Road'[Len(rob')]
    <3>1. m \in 0..m
      BY SMTT(60)
    <3>2. Road'[m] = Road[m + 1]
      BY <1>12, <3>1
    <3>3. Speculative = Road[Len(rob)]
      BY <1>1 DEF Kept
    <3>4. Speculative = Road[m + 1]
      BY <1>4, <3>3, SMTT(60)
    <3> QED
      BY <1>9, <1>11, <3>2, <3>4
  <2>2. ASSUME NEW k \in 1..m, IsCond(rob[k + 1]) PROVE savedMeta[meta_slot(rob[k + 1].seq_no)] = Road'[k - 1]
    <3>1. k - 1 \in 0..m /\ (k - 1) + 1 = k /\ (k + 1) - 1 = k
      BY SMTT(60)
    <3>2. savedMeta[meta_slot(rob[k + 1].seq_no)] = Road[(k + 1) - 1]
      BY <1>1, <1>14, <2>2 DEF Kept
    <3> QED
      BY <1>12, <3>1, <3>2
  <2>3. \A k \in 1..Len(rob') : IsCond(rob'[k]) => savedMeta'[meta_slot(rob'[k].seq_no)] = Road'[k - 1]
    BY <1>6, <1>9, <2>2
  <2>4. Now'.op = "predicted" => savedMeta'[meta_slot(seq_no')] = Speculative'
    BY <1>1, <1>6, <1>8, <1>11 DEF Kept
  <2> QED
    BY <2>1, <2>3, <2>4 DEF Kept, IsCond, meta_slot
<1>19. Contexts'
  <2>1. Pending' = Pending
    BY <1>6, <1>8 DEF Pending, unique_id
  <2>2. Leaving' = IF IsCond(e) THEN {unique_id(e.seq_no)} ELSE {}
    BY <1>7 DEF Leaving, IsCond, unique_id
  <2>3. ASSUME NEW x PROVE x \in Known <=> x \in Known' \/ (IsCond(e) /\ x = unique_id(e.seq_no))
    <3>1. x \in Known' <=> \E k \in 1..m : IsCond(rob'[k]) /\ x = unique_id(rob'[k].seq_no)
      <4>1. Known' = KnownOf(rob')
        BY DEF Known, KnownOf, IsCond, unique_id
      <4> QED
        BY <1>9, <4>1, KnownIs
    <3>2. x \in Known <=> \E k \in 1..Len(rob) : IsCond(rob[k]) /\ x = unique_id(rob[k].seq_no)
      BY KnownIs DEF Known
    <3>3. \A k \in 1..Len(rob) : k = 1 \/ \E i \in 1..m : k = i + 1
      <4>1. \A k \in 1..Len(rob) : k = 1 \/ (k - 1 \in 1..m /\ k = (k - 1) + 1)
        BY <1>4, SMTT(60)
      <4> QED
        BY <4>1
    <3>4. x \in Known' <=> \E k \in 1..m : IsCond(rob[k + 1]) /\ x = unique_id(rob[k + 1].seq_no)
      BY <1>9, <3>1
    <3>5. ASSUME x \in Known PROVE x \in Known' \/ (IsCond(e) /\ x = unique_id(e.seq_no))
      <4>1. PICK k \in 1..Len(rob) : IsCond(rob[k]) /\ x = unique_id(rob[k].seq_no)
        BY <3>2, <3>5
      <4>2. CASE k = 1
        BY <4>1, <4>2
      <4>3. CASE k # 1
        <5>1. PICK i \in 1..m : k = i + 1
          BY <3>3, <4>3
        <5> QED
          BY <3>4, <4>1, <5>1
      <4> QED
        BY <4>2, <4>3
    <3>6. x \in Known' => x \in Known
      BY <1>14, <3>2, <3>4
    <3>7. IsCond(e) /\ x = unique_id(e.seq_no) => x \in Known
      BY <1>15, <3>2
    <3> QED
      BY <3>5, <3>6, <3>7
  <2>4. Known' \cup Pending' \cup Leaving' = Known \cup Pending \cup Leaving /\ Known' \subseteq Known
    BY <1>8, <2>1, <2>2, <2>3
  <2> QED
    BY <1>1, <1>6, <2>4 DEF Contexts
<1> QED
  BY <1>11, <1>13, <1>16, <1>17, <1>18, <1>19 DEF CbpInv

\* A step of the simulator.
LEMMA CbpNext ==
  ASSUME Least, Counts, Registers, CbpInv, driver = "cbp",
         \/ OtherInsn \/ SaveMeta \/ Commit \/ TrainTick
         \/ \E insn \in Insns : Query(insn) \/ Prime(insn)
         \/ \E taken \in BOOLEAN : SpecUpdate(taken)
         \/ \E k \in DOMAIN rob : Resolve(k)
  PROVE  CbpInv' /\ Registers' /\ driver' = driver
<1>1. ASSUME vars' = vars PROVE Registers'
  <2>1. foldedHistory' = foldedHistory /\ lookup' = lookup
        /\ globalHistory' = globalHistory /\ globalPathHistory' = globalPathHistory
        /\ committedHistory' = committedHistory /\ committedPathHistory' = committedPathHistory
    BY <1>1 DEF vars, histories
  <2>2. Speculative' = Speculative /\ Committed' = Committed
    BY <2>1 DEF Speculative, Committed
  <2> QED
    BY <2>1, <2>2 DEF Registers
<1>2. CASE OtherInsn
  BY <1>1, <1>2, OtherKeeps DEF OtherInsn
<1>3. CASE SaveMeta
  BY <1>3, SaveKeeps DEF SaveMeta, tick
<1>4. CASE Commit
  BY <1>4, CommitKeeps DEF Commit, tick
<1>5. CASE TrainTick
  BY <1>5, TrainKeeps DEF TrainTick, tick
<1>6. ASSUME NEW insn \in Insns, Query(insn) PROVE CbpInv' /\ Registers' /\ driver' = driver
  <2>1. "save" # "update" /\ "save" \in {"save", "update"}
    BY SMTT(60)
  <2>2. insn.kind = IF "save" = "update" THEN "jump" ELSE "cond"
    BY <1>6, <2>1 DEF Query
  <2>3. CbpInv' /\ Registers'
    BY <1>6, <2>1, <2>2, AskKeeps DEF Query
  <2> QED
    BY <1>6, <2>3 DEF Query, tick
<1>7. ASSUME NEW insn \in Insns, Prime(insn) PROVE CbpInv' /\ Registers' /\ driver' = driver
  <2>1. "update" \in {"save", "update"}
    BY SMTT(60)
  <2>2. insn.kind = IF "update" = "update" THEN "jump" ELSE "cond"
    BY <1>7 DEF Prime
  <2>3. CbpInv' /\ Registers'
    BY <1>7, <2>1, <2>2, AskKeeps DEF Prime
  <2> QED
    BY <1>7, <2>3 DEF Prime, tick
<1>8. ASSUME NEW taken \in BOOLEAN, SpecUpdate(taken) PROVE CbpInv' /\ Registers' /\ driver' = driver
  BY <1>8, SpecUpdateKeeps DEF SpecUpdate, tick
<1>9. ASSUME NEW k \in DOMAIN rob, Resolve(k) PROVE CbpInv' /\ Registers' /\ driver' = driver
  BY <1>1, <1>9, ResolveKeeps DEF Resolve
<1> QED
  BY <1>2, <1>3, <1>4, <1>5, <1>6, <1>7, <1>8, <1>9

\* Before the first call.
LEMMA CbpInit ==
  ASSUME Least, Counts, AdapterInit
  PROVE  CbpInv
<1>1. CoreInv /\ Registers
  BY InitIs DEF AdapterInit
<1>2. rob = <<>> /\ window = <<>> /\ queue = 0 /\ synced = TRUE /\ Committed = Speculative
  BY DEF AdapterInit, Init, Committed, Speculative
<1>3. call = Idle /\ seq_no = 0 /\ predictions = Empty /\ savedMeta = [n \in 0 .. SlotNum - 1 |-> Speculative]
  BY DEF AdapterInit
<1>4. Len(rob) = 0 /\ Len(rob) \in Nat /\ 1..Len(rob) = {} /\ rob \in Seq(CbpEntry)
  BY <1>2, SMTT(60)
<1>5. call.op = "idle" /\ call.op # "train" /\ call.op # "predicted"
  BY <1>3, IdleIs
<1>6. Now = call /\ Leaving = {}
  BY <1>5, NowIs
<1>7. Known = {} /\ Pending = {}
  <2>1. \A x : x \notin Known
    BY <1>4, KnownIs DEF Known
  <2> QED
    BY <1>5, <1>6, <2>1 DEF Pending
<1>8. CbpBuffers
  <2>1. Len(rob) <= RobSize /\ queue \in {0, 1}
    BY <1>2, <1>4, SizesAssumption, SMTT(60)
  <2>2. seq_no \in Seqs
    BY <1>3, SlotsSuffice, SMTT(60) DEF Seqs, SeqNum
  <2>3. robHead \in Tags /\ checkpoints \in [Tags -> Snapshots]
    BY <1>1 DEF CoreInv, Buffers
  <2>4. savedMeta \in [Slots -> Snapshots]
    BY <1>1, <1>3 DEF Registers, Slots
  <2>5. call \in {Idle} \cup Asking \cup Training
    BY <1>3
  <2> QED
    BY <1>2, <1>4, <2>1, <2>2, <2>3, <2>4, <2>5 DEF CbpBuffers
<1>9. Aged /\ Asked
  BY <1>4, <1>5, <1>6 DEF Aged, Asked
<1>10. Kept
  <2>1. Runs(After(Committed, rob), Committed, rob)
    BY <1>4, AfterRuns
  <2>2. Road[Len(rob)] = Committed
    BY <1>4, <2>1 DEF Runs, Road
  <2> QED
    BY <1>2, <1>4, <1>5, <1>6, <2>2 DEF Kept
<1>11. Contexts
  <2>1. predictions \in [{} -> Context]
    BY <1>3 DEF Empty
  <2>2. Known \cup Pending \cup Leaving = {}
    BY <1>6, <1>7
  <2> QED
    BY <1>7, <2>1, <2>2 DEF Contexts
<1> QED
  BY <1>8, <1>9, <1>10, <1>11 DEF CbpInv

--------------------------------------------------------------------------------
(* Both drivers.                                                               *)

\* The inductive invariant: the registers hold the histories of what is in
\* flight, whoever drives them, and every branch in flight has kept its own.
PredictorInv ==
    /\ Registers /\ driver \in {"core", "cbp"}
    /\ driver = "core" => CoreInv
    /\ driver = "cbp" => CbpInv

LEMMA PredictorInit ==
  ASSUME Least, Counts, AdapterInit
  PROVE  PredictorInv
<1>1. CoreInv /\ Registers
  BY InitIs DEF AdapterInit
<1> QED
  BY <1>1, CbpInit DEF AdapterInit, PredictorInv

\* A step that changes nothing.
LEMMA PredictorStutter ==
  ASSUME PredictorInv, UNCHANGED allVars
  PROVE  PredictorInv'
<1>1. /\ foldedHistory' = foldedHistory /\ lookup' = lookup /\ driver' = driver
      /\ window' = window /\ rob' = rob /\ robHead' = robHead /\ checkpoints' = checkpoints
      /\ queue' = queue /\ synced' = synced
  BY DEF allVars, vars
<1>2. /\ call' = call /\ seq_no' = seq_no /\ predictionPc' = predictionPc
      /\ predictions' = predictions /\ savedMeta' = savedMeta
  BY DEF allVars, adapterVars
<1>3. Speculative' = Speculative /\ Committed' = Committed
  BY DEF allVars, vars, histories, Speculative, Committed
<1>4. Registers'
  BY <1>1, <1>3 DEF PredictorInv, Registers
<1>5. ASSUME CoreInv PROVE CoreInv'
  <2>1. Buffers'
    BY <1>1, <1>5 DEF CoreInv, Buffers
  <2>2. Flight' = Flight
    BY <1>1 DEF Flight
  <2>3. Path' = Path
    BY <1>3, <2>2 DEF Path
  <2>4. ASSUME NEW k PROVE Saved(k)' = Saved(k)
    BY <1>1 DEF Saved, Tag
  <2>5. ASSUME NEW k \in 1..Len(Flight') PROVE Snapped(k)'
    <3>1. Snapped(k)
      BY <1>5, <2>2 DEF CoreInv
    <3> QED
      BY <2>2, <2>3, <2>4, <3>1 DEF Snapped, IsControl
  <2>6. Following'
    BY <1>1, <1>3, <1>5, <2>2, <2>3 DEF CoreInv, Following
  <2> QED
    BY <2>1, <2>5, <2>6 DEF CoreInv
<1>6. ASSUME CbpInv PROVE CbpInv'
  <2>1. CbpBuffers /\ Aged /\ Asked /\ Kept /\ Contexts
    BY <1>6 DEF CbpInv
  <2>2. Now' = Now /\ Leaving' = Leaving /\ Pending' = Pending /\ Known' = Known /\ Road' = Road
    BY <1>1, <1>2, <1>3 DEF Now, Leaving, Pending, Known, Road, IsCond, unique_id
  <2>3. CbpBuffers'
    BY <1>1, <1>2, <2>1 DEF CbpBuffers
  <2>4. Aged' /\ Asked'
    BY <1>1, <1>2, <2>1, <2>2 DEF Aged, Asked
  <2>5. Kept'
    BY <1>1, <1>2, <1>3, <2>1, <2>2 DEF Kept, IsCond, meta_slot
  <2>6. Contexts'
    BY <1>2, <2>1, <2>2 DEF Contexts
  <2> QED
    BY <2>3, <2>4, <2>5, <2>6 DEF CbpInv
<1> QED
  BY <1>1, <1>4, <1>5, <1>6 DEF PredictorInv

LEMMA PredictorNext ==
  ASSUME Least, Counts, PredictorInv, [AdapterNext]_allVars
  PROVE  PredictorInv'
<1>1. CASE UNCHANGED allVars
  BY <1>1, PredictorStutter
<1>2. CASE driver = "core" /\ Next /\ UNCHANGED <<driver, adapterVars>>
  <2>1. CoreInv' /\ Registers'
    BY <1>2, CoreNext DEF PredictorInv
  <2>2. driver' = "core" /\ "core" # "cbp"
    BY <1>2, SMTT(60)
  <2> QED
    BY <2>1, <2>2 DEF PredictorInv
<1>3. CASE /\ driver = "cbp"
           /\ \/ OtherInsn \/ SaveMeta \/ Commit \/ TrainTick
              \/ \E insn \in Insns : Query(insn) \/ Prime(insn)
              \/ \E taken \in BOOLEAN : SpecUpdate(taken)
              \/ \E k \in DOMAIN rob : Resolve(k)
  <2>1. CbpInv' /\ Registers' /\ driver' = driver
    BY <1>3, CbpNext DEF PredictorInv
  <2>2. "core" # "cbp"
    BY SMTT(60)
  <2> QED
    BY <1>3, <2>1, <2>2 DEF PredictorInv
<1> QED
  BY <1>1, <1>2, <1>3 DEF AdapterNext

\* The folds are those of the histories.
LEMMA FoldsAre ==
  ASSUME Least, Counts, PredictorInv
  PROVE  FoldsExact
<1>1. FoldStepExact
  <2> SUFFICES ASSUME NEW h \in [0 .. AlgebraWidth - 1 -> Bits], NEW b \in Bits,
                      NEW shape \in (1 .. AlgebraWidth) \X (2 .. AlgebraWidth)
               PROVE  advanceFold(foldHistory(h, shape), h[shape[1] - 1], b, shape)
                        = foldHistory(Shift(h, b), shape)
    BY DEF FoldStepExact
  <2>1. AlgebraWidth \in Nat \ {0} /\ shape[1] \in 1..AlgebraWidth /\ shape[2] \in Nat \ {0}
    BY SizesAssumption, SMTT(60)
  <2> QED
    BY <2>1, AdvanceFoldIs
<1>2. /\ foldedHistory = FoldsOf(Speculative)
      /\ lookup.fold = FoldsOf(lookup.snapshot) /\ lookup.fold1 = FoldsOf(lookup.snapshot1)
  BY DEF PredictorInv, Registers
<1>3. Speculative.history = globalHistory
  BY SMTT(60) DEF Speculative
<1>4. \A s \in FoldShapes :
        /\ foldedHistory[s] = foldHistory(globalHistory, s)
        /\ lookup.fold[s] = foldHistory(lookup.snapshot.history, s)
        /\ lookup.fold1[s] = foldHistory(lookup.snapshot1.history, s)
  BY <1>2, <1>3 DEF FoldsOf
<1> QED
  BY <1>1, <1>4 DEF FoldsExact

\* The registers have their types.
LEMMA TypesAre ==
  ASSUME Counts, PredictorInv
  PROVE  TypeOK
<1>1. Registers
  BY DEF PredictorInv
<1>2. globalHistory \in Histories /\ globalPathHistory \in Paths
  <2>1. Speculative \in Snapshots
    BY <1>1 DEF Registers
  <2> QED
    BY <2>1, SMTT(60) DEF Speculative, Snapshots
<1>3. committedHistory \in Histories /\ committedPathHistory \in Paths
  <2>1. Committed \in Snapshots
    BY <1>1 DEF Registers
  <2> QED
    BY <2>1, SMTT(60) DEF Committed, Snapshots
<1>4. foldedHistory \in [FoldShapes -> UNION {[0 .. s[2] - 1 -> Bits] : s \in FoldShapes}]
  <2>1. ASSUME NEW s \in FoldShapes PROVE foldHistory(Speculative.history, s) \in [0 .. s[2] - 1 -> Bits]
    <3>1. s[1] \in Nat \ {0} /\ s[2] \in Nat \ {0}
      BY ShapesFit, SizesAssumption, SMTT(60)
    <3> QED
      BY <3>1, FoldType DEF FoldBits
  <2>2. foldedHistory = [s \in FoldShapes |-> foldHistory(Speculative.history, s)]
    BY <1>1 DEF Registers, FoldsOf
  <2>3. \A s \in FoldShapes : foldHistory(Speculative.history, s)
                                \in UNION {[0 .. r[2] - 1 -> Bits] : r \in FoldShapes}
    BY <2>1
  <2> QED
    BY <2>2, <2>3
<1>5. lookup.hint \in Hints /\ lookup.snapshot \in Snapshots /\ lookup.snapshot1 \in Snapshots
  BY <1>1 DEF Registers
<1>6. checkpoints \in [Tags -> Snapshots] /\ Len(window) <= WindowDepth /\ Len(rob) <= RobSize
      /\ robHead \in Tags /\ synced \in BOOLEAN
  <2>1. CASE CoreInv
    BY <2>1 DEF CoreInv, Buffers
  <2>2. CASE CbpInv
    <3>1. window = <<>> /\ synced = TRUE /\ checkpoints \in [Tags -> Snapshots] /\ robHead \in Tags
          /\ Len(rob) <= RobSize
      BY <2>2 DEF CbpInv, CbpBuffers
    <3>2. Len(window) <= WindowDepth /\ synced \in BOOLEAN
      BY <3>1, SizesAssumption, SMTT(60)
    <3> QED
      BY <3>1, <3>2
  <2> QED
    BY <2>1, <2>2 DEF PredictorInv
<1> QED
  BY <1>2, <1>3, <1>4, <1>5, <1>6 DEF TypeOK

\* The speculative histories are the committed ones followed by what is in flight.
LEMMA HistoriesAre ==
  ASSUME Counts, PredictorInv
  PROVE  HistoryExact
<1>1. lookup.snapshot = Speculative
  BY DEF PredictorInv, Registers
<1>2. synced => Speculative = After(Committed, rob \o window)[Len(rob) + Len(window)]
  <2>1. CASE CoreInv
    <3>1. rob \in Seq(CoreEntry) /\ window \in Seq(CoreEntry)
      BY <2>1 DEF CoreInv, Buffers
    <3>2. Len(Flight) = Len(rob) + Len(window)
      BY <3>1, SMTT(60) DEF Flight
    <3>3. synced => Speculative = Path[Len(rob) + Len(window)]
      BY <2>1, <3>2 DEF CoreInv, Following
    <3> QED
      BY <3>3 DEF Path, Flight
  <2>2. CASE CbpInv
    <3>1. rob \in Seq(CbpEntry) /\ window = <<>> /\ Speculative = Road[Len(rob)]
      BY <2>2 DEF CbpInv, CbpBuffers, Kept
    <3>2. rob \o window = rob /\ Len(rob) + Len(window) = Len(rob)
      BY <3>1, SMTT(60)
    <3> QED
      BY <3>1, <3>2 DEF Road
  <2> QED
    BY <2>1, <2>2 DEF PredictorInv
<1> QED
  BY <1>1, <1>2, TypesAre DEF HistoryExact

\* Every branch in flight finds the histories it was predicted with.
LEMMA SlotsAreOwn ==
  ASSUME PredictorInv
  PROVE  TrainsOnOwnPrediction
<1> SUFFICES ASSUME CbpInv, NEW k \in DOMAIN rob, IsCond(rob[k])
             PROVE  savedMeta[meta_slot(rob[k].seq_no)] = After(Committed, rob)[k - 1]
  BY DEF PredictorInv, TrainsOnOwnPrediction
<1>1. rob \in Seq(CbpEntry)
  BY DEF CbpInv, CbpBuffers
<1>2. k \in 1..Len(rob)
  BY <1>1, SMTT(60)
<1> QED
  BY <1>2 DEF CbpInv, Kept, Road

\* What is left between two calls.
LEMMA CallsAreDone ==
  ASSUME PredictorInv
  PROVE  CallsLeaveNothingBehind
<1> DEFINE known == {unique_id(rob[k].seq_no) : k \in {j \in DOMAIN rob : IsCond(rob[j])}}
           pending == {unique_id(seq_no) : p \in {"predicted"} \cap {call.op}}
<1> SUFFICES ASSUME CbpInv, call.op \in {"idle", "predicted"}
             PROVE  /\ queue = 0 /\ DOMAIN predictions = known \cup pending
                    /\ \A id \in known : predictions[id].actual_known
  BY DEF PredictorInv, CallsLeaveNothingBehind
<1>1. CbpBuffers /\ Contexts
  BY DEF CbpInv
<1>2. call.op # "train"
  BY SMTT(60)
<1>3. queue = 0
  BY <1>1, <1>2 DEF CbpBuffers
<1>4. Now = call /\ Leaving = {}
  BY <1>2, NowIs
<1>5. known = Known
  <2>1. rob \in Seq(CbpEntry)
    BY <1>1 DEF CbpBuffers
  <2>2. DOMAIN rob = 1..Len(rob)
    BY <2>1, SMTT(60)
  <2> QED
    BY <2>2 DEF Known, KnownOf
<1>6. pending = Pending
  BY <1>4 DEF Pending
<1> HIDE DEF known, pending
<1>7. Known \cup Pending \cup Leaving = known \cup pending
  BY <1>4, <1>5, <1>6
<1>8. predictions \in [known \cup pending -> Context] /\ \A id \in known : predictions[id].actual_known
  BY <1>1, <1>5, <1>7 DEF Contexts
<1> QED
  BY <1>3, <1>8

--------------------------------------------------------------------------------
(* The training queue.                                                         *)

\* A record leaves on every edge and at most one enters, so at most one is there.
Short == queue \in {0, 1}

LEMMA TrainKeepsShort == ASSUME NEW es, Short, Train(es) PROVE Short'
BY SMTT(60) DEF Short, Train, dequeued, enqueued, Bit

LEMMA EdgeKeepsShort == Short /\ [Next]_vars => Short'
<1> SUFFICES ASSUME Short, [Next]_vars PROVE Short'
  BY SMTT(60)
<1>1. ASSUME NEW es, NEW d, NEW r, NEW k, NEW hint, Advance(es, d, r, k, hint) PROVE Short'
  BY <1>1, TrainKeepsShort, SMTT(60) DEF Advance
<1>2. ASSUME NEW k, NEW taken, NEW hint, Recover(k, taken, hint) PROVE Short'
  BY <1>2, TrainKeepsShort, SMTT(60) DEF Recover
<1>3. ASSUME NEW hint, Trap(hint) PROVE Short'
  BY <1>3, TrainKeepsShort, SMTT(60) DEF Trap
<1>4. CASE UNCHANGED vars
  BY <1>4, SMTT(60) DEF vars, Short
<1> QED BY <1>1, <1>2, <1>3, <1>4, SMTT(60) DEF Next

LEMMA CallKeepsShort == Short /\ [AdapterNext]_allVars => Short'
<1> SUFFICES ASSUME Short, [AdapterNext]_allVars PROVE Short'
  BY SMTT(60)
<1>1. ASSUME NEW es, NEW done, tick(es, done) PROVE Short'
  BY <1>1, TrainKeepsShort, SMTT(60) DEF tick
<1>2. CASE Next \/ UNCHANGED vars
  BY <1>2, EdgeKeepsShort, SMTT(60)
<1>3. CASE OtherInsn \/ \E k \in DOMAIN rob : Resolve(k)
  BY <1>3 DEF OtherInsn, Resolve, vars, Short
<1>4. CASE SaveMeta \/ Commit \/ TrainTick
  BY <1>4, <1>1, SMTT(60) DEF SaveMeta, Commit, TrainTick
<1>5. CASE \E insn \in Insns : Query(insn) \/ Prime(insn)
  BY <1>5, <1>1, SMTT(60) DEF Query, Prime
<1>6. CASE \E taken \in BOOLEAN : SpecUpdate(taken)
  BY <1>6, <1>1, SMTT(60) DEF SpecUpdate
<1> QED BY <1>2, <1>3, <1>4, <1>5, <1>6, SMTT(60) DEF AdapterNext, allVars

\* Training keeps up with retirement: the queue holds at most one record and is
\* always ready for the next (TageUpdateQueue, cbp_rtl_interface.cc).
THEOREM TrainingAlwaysKeepsUp == AdapterSpec => []TrainingKeepsUp
<1>1. AdapterInit => Short
  BY SMTT(60) DEF AdapterInit, Init, Short
<1>2. Short => TrainingKeepsUp
  BY QueueHolds, SMTT(60) DEF Short, TrainingKeepsUp, updateReady
<1> QED BY <1>1, CallKeepsShort, <1>2, PTL DEF AdapterSpec

--------------------------------------------------------------------------------
(* sim_main.cpp and CoreMark: what core_list_undo_remove and the second        *)
(* matrix_add_const undo, for every list and matrix, and what the exit code of *)
(* the simulation says, for every program and every number of clocks.          *)

CONSTANTS Configs, CORE_CLOCK_HZ, TickModulus, TrialTicks, MaxTrial, RunTicks
VARIABLES config, pc, res, heap, text, mat, run, bench, sort, calc, out, printed, elapsed, original,
          phase, files, log, toHost, timed_out, exit_code

Sim == INSTANCE Simulation

\* A block of cells: every cell has a next cell, or none, and a data cell.
HeapType(Cells) ==
    [next : [Cells -> Cells \cup {Sim!NULL}], info : [Cells -> Cells],
     data16 : [Cells -> Nat], idx : [Cells -> Nat]]

\* The fields of the heap after core_list_remove.
LEMMA RemoveFields ==
    ASSUME NEW Cells, NEW h \in HeapType(Cells), NEW c \in Cells,
           NEW ret \in Cells, ret # c, ret = h.next[c]
    PROVE  LET r == Sim!core_list_remove(h, c)
           IN  /\ r.next = [h.next EXCEPT ![c] = h.next[ret], ![ret] = Sim!NULL]
               /\ r.info = [h.info EXCEPT ![c] = h.info[ret], ![ret] = h.info[c]]
               /\ r.data16 = h.data16 /\ r.idx = h.idx
               /\ r \in HeapType(Cells)
<1> DEFINE r == Sim!core_list_remove(h, c)
<1>1. r.next = [h.next EXCEPT ![c] = h.next[ret], ![ret] = Sim!NULL]
  BY SMTT(60) DEF Sim!core_list_remove, HeapType
<1>2. r.info = [h.info EXCEPT ![c] = h.info[ret], ![ret] = h.info[c]]
  BY SMTT(60) DEF Sim!core_list_remove, HeapType
<1>3. r.data16 = h.data16
  BY SMTT(60) DEF Sim!core_list_remove, HeapType
<1>4. r.idx = h.idx
  BY SMTT(60) DEF Sim!core_list_remove, HeapType
<1>5. r \in HeapType(Cells)
  BY DEF Sim!core_list_remove, HeapType
<1> QED BY <1>1, <1>2, <1>3, <1>4, <1>5, SMTT(60)

\* The fields of the heap after core_list_undo_remove.
LEMMA UndoFields ==
    ASSUME NEW Cells, NEW r \in HeapType(Cells), NEW c \in Cells, NEW ret \in Cells, ret # c
    PROVE  LET u == Sim!core_list_undo_remove(r, ret, c)
           IN  /\ u.next = [r.next EXCEPT ![ret] = r.next[c], ![c] = ret]
               /\ u.info = [r.info EXCEPT ![ret] = r.info[c], ![c] = r.info[ret]]
               /\ u.data16 = r.data16 /\ u.idx = r.idx
               /\ u \in HeapType(Cells)
<1> DEFINE u == Sim!core_list_undo_remove(r, ret, c)
<1>1. u.next = [r.next EXCEPT ![ret] = r.next[c], ![c] = ret]
  BY SMTT(60) DEF Sim!core_list_undo_remove, HeapType
<1>2. u.info = [r.info EXCEPT ![ret] = r.info[c], ![c] = r.info[ret]]
  BY SMTT(60) DEF Sim!core_list_undo_remove, HeapType
<1>3. u.data16 = r.data16
  BY SMTT(60) DEF Sim!core_list_undo_remove, HeapType
<1>4. u.idx = r.idx
  BY SMTT(60) DEF Sim!core_list_undo_remove, HeapType
<1>5. u \in HeapType(Cells)
  BY DEF Sim!core_list_undo_remove, HeapType
<1> QED BY <1>1, <1>2, <1>3, <1>4, <1>5, SMTT(60)

\* core_list_undo_remove undoes core_list_remove: of the cell behind item, in any
\* list (core_bench_list removes a cell and puts it back).
THEOREM UndoRestores ==
    ASSUME NEW Cells, NEW h \in HeapType(Cells), NEW c \in Cells,
           h.next[c] \in Cells, h.next[c] # c
    PROVE  Sim!core_list_undo_remove(Sim!core_list_remove(h, c), h.next[c], c) = h
<1> DEFINE ret == h.next[c]
           r == Sim!core_list_remove(h, c)
           u == Sim!core_list_undo_remove(r, ret, c)
<1>1. /\ r.next = [h.next EXCEPT ![c] = h.next[ret], ![ret] = Sim!NULL]
      /\ r.info = [h.info EXCEPT ![c] = h.info[ret], ![ret] = h.info[c]]
      /\ r.data16 = h.data16 /\ r.idx = h.idx
      /\ r \in HeapType(Cells)
  BY RemoveFields, SMTT(60)
<1> HIDE DEF r
<1>2. /\ u.next = [r.next EXCEPT ![ret] = r.next[c], ![c] = ret]
      /\ u.info = [r.info EXCEPT ![ret] = r.info[c], ![c] = r.info[ret]]
      /\ u.data16 = r.data16 /\ u.idx = r.idx
      /\ u \in HeapType(Cells)
  BY <1>1, UndoFields
<1> HIDE DEF u
<1>t. /\ h.next \in [Cells -> Cells \cup {Sim!NULL}] /\ h.info \in [Cells -> Cells]
      /\ ret \in Cells /\ ret # c
  BY SMTT(60) DEF HeapType
<1>3. u.next = h.next
  BY <1>1, <1>2, <1>t, SMTT(60)
<1>4. u.info = h.info
  BY <1>1, <1>2, <1>t, SMTT(60)
<1>5. u = h
  BY <1>1, <1>2, <1>3, <1>4, SMTT(60) DEF HeapType
<1> QED BY <1>5, SMTT(60) DEF u, r

\* Signed 16-bit values.
MATDAT == {a \in Int : 0 <= a + 32768 /\ a < 32768}

LEMMA WrapsBack ==
    ASSUME NEW a \in MATDAT, NEW val \in Int
    PROVE  Sim!s16(a + val) \in Int /\ Sim!s16(Sim!s16(a + val) - val) = a
BY SMTT(60) DEF MATDAT, Sim!s16, Sim!u16

\* matrix_add_const of -val undoes matrix_add_const of val, although both wrap
\* at 16 bits (matrix_test leaves A as it was).
THEOREM AddConstUndone ==
    ASSUME NEW I, NEW A \in [I -> MATDAT], NEW val \in Int
    PROVE  Sim!matrix_add_const(Sim!matrix_add_const(A, val), -val) = A
<1> DEFINE B == Sim!matrix_add_const(A, val)
<1>1. B = [x \in I |-> Sim!s16(A[x] + val)]
  BY SMTT(60) DEF Sim!matrix_add_const
<1>2. \A x \in I : B[x] \in Int /\ Sim!s16(B[x] - val) = A[x]
  BY <1>1, WrapsBack, SMTT(60)
<1>3. Sim!matrix_add_const(B, -val) = [x \in I |-> Sim!s16(B[x] + (-val))]
  BY <1>1, SMTT(60) DEF Sim!matrix_add_const
<1>4. \A x \in I : Sim!s16(B[x] + (-val)) = A[x]
  BY <1>2, \A b \in Int : b + (-val) = b - val, SMTT(60)
<1> QED BY <1>3, <1>4, SMTT(60)

--------------------------------------------------------------------------------
(* The exit code.                                                              *)

Callers == {"listed", "remove", "sorted"}
SortLabels == {"sort", "state", "counts", "matrix", "sum"}

\* core_list_mergesort returns to one of its callers, also from inside calc_func.
ReturnsToCaller ==
    pc \in SortLabels => "caller" \in DOMAIN sort /\ sort.caller \in Callers

\* No step of CoreMark is the Store to tohost.
LEMMA ProgramStepKeeps ==
    ASSUME ReturnsToCaller, Sim!ProgramStep, pc # "spin"
    PROVE  ReturnsToCaller' /\ pc' # "spin" /\ config' = config
<1> USE DEF ReturnsToCaller, SortLabels, Callers, Sim!At, Sim!Goto
<1>1. CASE Sim!Boot BY <1>1, SMTT(60) DEF Sim!Boot
<1>2. CASE Sim!InsertItem BY <1>2, SMTT(60) DEF Sim!InsertItem
<1>3. CASE Sim!IndexList BY <1>3, SMTT(60) DEF Sim!IndexList, Sim!Sort, Sim!sorting
<1>4. CASE Sim!Listed BY <1>4, SMTT(60) DEF Sim!Listed
<1>5. CASE Sim!InitMatrixRow BY <1>5, SMTT(60) DEF Sim!InitMatrixRow
<1>6. CASE Sim!MatrixReady BY <1>6, SMTT(60) DEF Sim!MatrixReady
<1>7. CASE Sim!InitText BY <1>7, SMTT(60) DEF Sim!InitText
<1>8. CASE Sim!Initialized BY <1>8, SMTT(60) DEF Sim!Initialized, Sim!Iterate
<1>9. CASE Sim!NewMerge BY <1>9, SMTT(60) DEF Sim!NewMerge
<1>10. CASE Sim!MergeStep BY <1>10 DEF Sim!MergeStep, Sim!Take
<1>11. CASE Sim!MergeDone BY <1>11, SMTT(60) DEF Sim!MergeDone
<1>12. CASE Sim!PassDone BY <1>12, SMTT(60) DEF Sim!PassDone, Sim!sorting
<1>13. CASE Sim!CalcFunc BY <1>13, SMTT(60) DEF Sim!CalcFunc, Sim!Cache
<1>14. CASE Sim!ScanToken BY <1>14, SMTT(60) DEF Sim!ScanToken
<1>15. CASE Sim!Corrupt BY <1>15, SMTT(60) DEF Sim!Corrupt
<1>16. CASE Sim!Counts BY <1>16, SMTT(60) DEF Sim!Counts, Sim!Cache
<1>17. CASE Sim!Matrix BY <1>17, SMTT(60) DEF Sim!Matrix, Sim!Cache
<1>18. CASE Sim!Sum BY <1>18, SMTT(60) DEF Sim!Sum
<1>19. CASE Sim!Bench BY <1>19, SMTT(60) DEF Sim!Bench
<1>20. CASE Sim!Find BY <1>20, SMTT(60) DEF Sim!Find
<1>21. CASE Sim!Found BY <1>21, SMTT(60) DEF Sim!Found, Sim!Sort, Sim!sorting
<1>22. CASE Sim!RemoveOne BY <1>22, SMTT(60) DEF Sim!RemoveOne
<1>23. CASE Sim!CrcStep BY <1>23, SMTT(60) DEF Sim!CrcStep
<1>24. CASE Sim!UndoRemove BY <1>24, SMTT(60) DEF Sim!UndoRemove, Sim!Sort, Sim!sorting
<1>25. CASE Sim!Sorted BY <1>25, SMTT(60) DEF Sim!Sorted
<1>26. CASE Sim!BenchDone BY <1>26, SMTT(60) DEF Sim!BenchDone
<1>27. CASE Sim!Calibrate BY <1>27, SMTT(60) DEF Sim!Calibrate, Sim!Iterate, Sim!iterated
<1>28. CASE Sim!StopTime BY <1>28, SMTT(60) DEF Sim!StopTime, Sim!iterated
<1>29. CASE Sim!Report BY <1>29 DEF Sim!Report
<1> HIDE DEF ReturnsToCaller, SortLabels, Callers, Sim!At, Sim!Goto
<1>30. CASE \/ Sim!Boot \/ Sim!InsertItem \/ Sim!IndexList \/ Sim!Listed \/ Sim!InitMatrixRow \/ Sim!MatrixReady
            \/ Sim!InitText \/ Sim!Initialized
  BY <1>30, <1>1, <1>2, <1>3, <1>4, <1>5, <1>6, <1>7, <1>8
<1>31. CASE \/ Sim!NewMerge \/ Sim!MergeStep \/ Sim!MergeDone \/ Sim!PassDone
            \/ Sim!CalcFunc \/ Sim!ScanToken \/ Sim!Corrupt \/ Sim!Counts \/ Sim!Matrix \/ Sim!Sum
  BY <1>31, <1>9, <1>10, <1>11, <1>12, <1>13, <1>14, <1>15, <1>16, <1>17, <1>18
<1>32. CASE \/ Sim!Bench \/ Sim!Find \/ Sim!Found \/ Sim!RemoveOne \/ Sim!CrcStep \/ Sim!UndoRemove \/ Sim!Sorted
            \/ Sim!BenchDone
  BY <1>32, <1>19, <1>20, <1>21, <1>22, <1>23, <1>24, <1>25, <1>26
<1>33. CASE Sim!Calibrate \/ Sim!StopTime \/ Sim!Report
  BY <1>33, <1>27, <1>28, <1>29
<1> QED BY <1>30, <1>31, <1>32, <1>33 DEF Sim!ProgramStep

\* The program has come to its Store exactly when the loop has seen the value.
ExitInv ==
    /\ ReturnsToCaller
    /\ timed_out \in BOOLEAN
    /\ pc = "spin" <=> timed_out = FALSE
    /\ timed_out = FALSE => toHost = Sim!haltValue /\ phase \in {"report", "exited"}
    /\ phase = "exited" => (exit_code = 0 <=> timed_out = FALSE /\ toHost = 1)

LEMMA ExitInvInit == Sim!Init => ExitInv
BY SMTT(60) DEF Sim!Init, Sim!ProgramInit, ExitInv, ReturnsToCaller, SortLabels

LEMMA ExitInvStep == ExitInv /\ [Sim!Next]_(Sim!vars) => ExitInv'
<1> SUFFICES ASSUME ExitInv, [Sim!Next]_(Sim!vars) PROVE ExitInv'
  BY SMTT(60)
<1> USE DEF ExitInv, Sim!haltValue
<1>1. ASSUME UNCHANGED Sim!programVars PROVE UNCHANGED <<config, pc, sort>> /\ ReturnsToCaller'
  BY <1>1, SMTT(60) DEF Sim!programVars, Sim!locals, ReturnsToCaller
<1>2. CASE Sim!Open
  BY <1>2, <1>1, SMTT(60) DEF Sim!Open
<1>3. CASE Sim!Execute
  <2>1. UNCHANGED <<phase, toHost, timed_out, exit_code>> /\ pc # "spin"
    BY <1>3, SMTT(60) DEF Sim!Execute, Sim!benchVars
  <2>2. CASE Sim!ProgramStep
    BY <2>1, <2>2, ProgramStepKeeps, SMTT(60)
  <2>3. CASE Sim!OtherProgram
    <3>1. pc' = "finish" /\ config' = config
      BY <2>3, SMTT(60) DEF Sim!OtherProgram, Sim!Goto
    <3> QED BY <3>1, <2>1, SMTT(60) DEF ReturnsToCaller, SortLabels
  <2> QED BY <1>3, <2>2, <2>3 DEF Sim!Execute
<1>4. CASE Sim!Transmit
  BY <1>4, SMTT(60) DEF Sim!Transmit, Sim!locals, ReturnsToCaller
<1>5. CASE Sim!ToHost
  BY <1>5 DEF Sim!ToHost, Sim!Goto, ReturnsToCaller, SortLabels
<1>6. CASE Sim!LimitReached
  BY <1>6, <1>1, SMTT(60) DEF Sim!LimitReached
<1>7. CASE Sim!Finish
  BY <1>7, <1>1, SMTT(60) DEF Sim!Finish, Sim!result
<1>8. CASE UNCHANGED Sim!vars
  BY <1>8, <1>1, SMTT(60) DEF Sim!vars, Sim!benchVars
<1> QED BY <1>2, <1>3, <1>4, <1>5, <1>6, <1>7, <1>8 DEF Sim!Next, Sim!Exited

\* The simulation exits with 0 exactly when the program came to its Store of 1 to
\* tohost, whatever it computes and wherever the limit of clocks strikes
\* (sim_main.cpp, portable_fini, rvmodel_macros.h).
THEOREM ExitCodeAlwaysRight == Sim!Spec => []Sim!ExitCodeIsRight
<1>1. ExitInv => Sim!ExitCodeIsRight
  BY SMTT(60) DEF ExitInv, Sim!ExitCodeIsRight
<1> QED BY ExitInvInit, ExitInvStep, <1>1, PTL DEF Sim!Spec

--------------------------------------------------------------------------------
(* What the numbers rest on.                                                   *)

FST == INSTANCE FiniteSetTheorems

LEMMA LeastIs == Least
<1> SUFFICES ASSUME NEW S \in SUBSET Nat, S # {} PROVE \E k \in S : \A n \in S : k <= n
  BY DEF Least
<1>1. PICK k \in S : \A j \in S : ~(<<j, k>> \in FST!OpToRel(<, Nat))
  BY FST!NatLessThanWellFounded, FST!WFMin
<1>2. \A a, b \in Nat : b < a => <<b, a>> \in FST!OpToRel(<, Nat)
  BY SMTT(60) DEF FST!OpToRel
<1>3. \A j \in S : ~(j < k)
  BY <1>1, <1>2
<1>4. \A j \in S : k <= j
  BY <1>3, SMTT(60)
<1> QED
  BY <1>4

\* The theorems speak of the same cardinality.
LEMMA CardinalityIs == ASSUME NEW S PROVE Cardinality(S) = FST!Cardinality(S)
  BY DEF Cardinality, FST!Cardinality

\* i + 1 and i correspond.
LEMMA SuccessorsMatch ==
  ASSUME NEW S \in SUBSET Nat
  PROVE  FST!ExistsBijection(S, Successors(S))
<1> DEFINE T == Successors(S)
           g == [i \in S |-> i + 1]
<1>1. g \in [S -> T] /\ DOMAIN g = S
  BY DEF Successors
<1>2. \A i \in S : g[i] = i + 1
  OBVIOUS
<1>3. \A i, j \in S : i + 1 = j + 1 => i = j
  BY SMTT(60)
<1>4. \A t \in T : \E i \in S : t = i + 1
  BY DEF Successors
<1> HIDE DEF g, T
<1>5. g \in FST!Injection(S, T)
  BY <1>1, <1>2, <1>3 DEF FST!Injection, FST!IsInjective
<1>6. g \in FST!Surjection(S, T)
  BY <1>1, <1>2, <1>4 DEF FST!Surjection
<1> QED
  BY <1>5, <1>6 DEF FST!ExistsBijection, FST!Bijection, T

LEMMA CountsIs == Counts
<1>1. Cardinality({}) = 0
  BY FST!FS_EmptySet, CardinalityIs
<1>2. ASSUME NEW n \in Nat, NEW S \in SUBSET (0..n)
      PROVE  /\ Cardinality(S) \in Nat
             /\ Cardinality(Successors(S)) = Cardinality(S)
             /\ \A x \in Nat \ S : Cardinality(S \cup {x}) = Cardinality(S) + 1
  <2>1. FST!IsFiniteSet(S)
    <3>1. 0 \in Int /\ n \in Int
      BY SMTT(60)
    <3>2. FST!IsFiniteSet(0..n)
      BY <3>1, FST!FS_Interval
    <3> QED
      BY <3>2, FST!FS_Subset
  <2>2. S \in SUBSET Nat
    BY SMTT(60)
  <2>3. FST!Cardinality(S) \in Nat
    BY <2>1, FST!FS_CardinalityType
  <2>4. FST!Cardinality(Successors(S)) = FST!Cardinality(S)
    BY <2>1, <2>2, SuccessorsMatch, FST!FS_Bijection
  <2>5. \A x \in Nat \ S : FST!Cardinality(S \cup {x}) = FST!Cardinality(S) + 1
    BY <2>1, FST!FS_AddElement
  <2> QED
    BY <2>3, <2>4, <2>5, CardinalityIs
<1> QED
  BY <1>1, <1>2 DEF Counts

--------------------------------------------------------------------------------
(* The theorems.                                                               *)

\* The invariant behind the others: what the predictor, the ROB and the calls of
\* the simulator keep of every branch in flight.
THEOREM PredictorInvHolds == AdapterSpec => []PredictorInv
<1>1. AdapterInit => PredictorInv
  BY LeastIs, CountsIs, PredictorInit
<1>2. PredictorInv /\ [AdapterNext]_allVars => PredictorInv'
  BY LeastIs, CountsIs, PredictorNext
<1> QED
  BY <1>1, <1>2, PTL DEF AdapterSpec

\* The folds that TageFoldedHistory keeps step by step are those of the whole
\* history, for every length, every width and every history, and both lookups in
\* flight were indexed by the folds of their own snapshots.
THEOREM FoldsAlwaysExact == AdapterSpec => []FoldsExact
<1>1. PredictorInv => FoldsExact
  BY LeastIs, CountsIs, FoldsAre
<1> QED
  BY <1>1, PredictorInvHolds, PTL

\* TagePredictor speculates with exactly the control flow before it, through any
\* mix of accepted pairs, dispatch, retirement, recoveries and traps.
THEOREM HistoryAlwaysExact == AdapterSpec => []HistoryExact
<1>1. PredictorInv => HistoryExact
  BY CountsIs, HistoriesAre
<1> QED
  BY <1>1, PredictorInvHolds, PTL

\* A branch trains with the histories it was predicted with, although its slot and
\* its number are used again (cbp_rtl_interface.cc).
THEOREM AlwaysTrainsOnOwnPrediction == AdapterSpec => []TrainsOnOwnPrediction
<1>1. PredictorInv => TrainsOnOwnPrediction
  BY SlotsAreOwn
<1> QED
  BY <1>1, PredictorInvHolds, PTL

\* Between two calls of the simulator nothing of a committed branch is left, and
\* the asserts of the calls to come hold.
THEOREM CallsAlwaysLeaveNothingBehind == AdapterSpec => []CallsLeaveNothingBehind
<1>1. PredictorInv => CallsLeaveNothingBehind
  BY CallsAreDone
<1> QED
  BY <1>1, PredictorInvHolds, PTL
=============================================================================
