-------------------------- MODULE SerializeProofs --------------------------
(* Serialized instructions run alone on a drained machine, retirement follows   *)
(* program order and the CSRs are precise, for every program, every depth of    *)
(* the ROB and the Store Buffer and every order of issue and prediction.        *)
EXTENDS Serialize, SequenceTheorems, TLAPS

\* The default provers, one after the other, with time to spare.
USE SMTT(20), ZenonT(40)

EntryType ==
    [kind : Kinds, pc : Pcs, predicted : Pcs, target : Pcs,
     state : {"iq", "issued", "complete", "exception"}, read : Nat]
ArchType ==
    [pc : Pcs, mepc : Pcs, minstret : 0..(InstretMod - 1), mie : BOOLEAN, mpie : BOOLEAN]

Types ==
    /\ program \in [Pcs -> Kinds] /\ fetchPc \in Pcs
    /\ rob \in Seq(EntryType) /\ Len(rob) <= RobDepth
    /\ serializing \in BOOLEAN /\ undrained \in 0..SbDepth
    /\ mepc \in Pcs /\ minstret \in 0..(InstretMod - 1) /\ mie \in BOOLEAN /\ mpie \in BOOLEAN
    /\ arch \in ArchType

\* Holds of every program.
SInv == Types /\ SerializedComesFirst

\* Where fetch went on after an entry: as predicted until it has executed.
Goes(e) == IF e.state = "iq" THEN e.predicted ELSE e.target

\* Where the i-th entry comes from when the machine starts at a.
From(r, a, i) == IF i = 1 THEN a ELSE Goes(r[i - 1])

\* The first c entries of r are a path from a to f.
Track(r, c, a, f) ==
    /\ \A i \in 1..c : r[i].pc = From(r, a, i)
    /\ f = From(r, a, c + 1)

\* The entries are a path from where the retired instructions lead to where
\* fetch goes on; only a branch can leave the straight line.
Chain ==
    /\ Track(rob, Len(rob), arch.pc, fetchPc)
    /\ \A i \in 1..Len(rob) : rob[i].kind # "branch" => rob[i].predicted = rob[i].target

CsrOK ==
    /\ \A i \in 1..Len(rob) :
          isCsr(rob[i].kind) /\ rob[i].state # "iq" =>
              rob[i].read = IF rob[i].kind = "instret" THEN arch.minstret ELSE arch.mepc
    /\ minstret = arch.minstret /\ mie = arch.mie /\ mpie = arch.mpie
    /\ mepc = IF rob # <<>> /\ rob[1].kind = "mepc" /\ rob[1].state # "iq"
              THEN CsrData ELSE arch.mepc

\* Holds of programs without MRET.
IInv == SInv /\ Chain /\ CsrOK

--------------------------------------------------------------------------------
(* The ports of the issue queue.                                               *)

\* No CSR access issues on port 1, and only one branch or MRET on both.
LEMMA Ports ==
  ASSUME NEW q, NEW w
  PROVE  /\ \A k \in port1(q, w) : q[k].fuClass \in IntegerOrBranch
         /\ \A k \in port0(q, w) \cup port1(q, w) :
               k \in 1..Len(q) /\ readyEntry(q[k], w)
         /\ \A j, k \in port0(q, w) \cup port1(q, w) :
               q[j].fuClass = "FU_BRANCH" /\ q[k].fuClass = "FU_BRANCH" => j = k
<1> DEFINE reserved == readyOf(q, w, MemoryOrCsr)
           taken == port1(q, w)
           fill == readyOf(q, w, IF taken = {} THEN IntegerOrBranch ELSE {"FU_INTEGER"})
<1>1. ASSUME NEW ks, ks \subseteq 1..Len(q), NEW j \in oldestOf(ks), NEW k \in oldestOf(ks)
      PROVE  j = k
  <2>1. j <= k /\ k <= j /\ j \in 1..Len(q) /\ k \in 1..Len(q)
    BY <1>1, ZenonT(40) DEF oldestOf
  <2> QED
    BY <2>1
<1>2. \A c : \A k \in readyOf(q, w, c) : k \in 1..Len(q) /\ readyEntry(q[k], w) /\ q[k].fuClass \in c
  BY ZenonT(40) DEF readyOf
<1>3. \A ks : \A k \in oldestOf(ks) : k \in ks
  BY ZenonT(40) DEF oldestOf
<1>4. taken = oldestOf(readyOf(q, w, IntegerOrBranch))
  BY ZenonT(40) DEF port1
<1>5. port0(q, w) = IF reserved # {} THEN oldestOf(reserved) ELSE oldestOf(fill \ taken)
  BY ZenonT(40) DEF port0
<1>6. "FU_BRANCH" \notin MemoryOrCsr /\ "FU_BRANCH" \notin {"FU_INTEGER"}
  BY DEF MemoryOrCsr
<1>7. \A k \in taken : k \in 1..Len(q) /\ readyEntry(q[k], w) /\ q[k].fuClass \in IntegerOrBranch
  BY <1>2, <1>3, <1>4, ZenonT(40)
<1>13. \A k \in reserved : k \in 1..Len(q) /\ readyEntry(q[k], w) /\ q[k].fuClass \in MemoryOrCsr
  BY <1>2, ZenonT(40)
<1>14. \A k \in fill : k \in 1..Len(q) /\ readyEntry(q[k], w)
  BY <1>2, ZenonT(40)
<1>15. \A k \in port0(q, w) : (reserved # {} /\ k \in reserved) \/ (reserved = {} /\ k \in fill)
  BY <1>3, <1>5, ZenonT(40)
<1>8. \A k \in port0(q, w) : k \in 1..Len(q) /\ readyEntry(q[k], w)
  BY <1>13, <1>14, <1>15, ZenonT(40)
<1>9. \A k \in port0(q, w) : taken # {} => q[k].fuClass # "FU_BRANCH"
  <2> SUFFICES ASSUME NEW k \in port0(q, w), taken # {} PROVE q[k].fuClass # "FU_BRANCH"
    BY ZenonT(40)
  <2>1. CASE reserved # {}
    BY <2>1, <1>6, <1>13, <1>15, ZenonT(40)
  <2>2. CASE reserved = {}
    <3>1. k \in readyOf(q, w, {"FU_INTEGER"})
      BY <2>2, <1>15, ZenonT(40)
    <3> QED
      BY <3>1, <1>2, <1>6, ZenonT(40)
  <2> QED
    BY <2>1, <2>2, ZenonT(40)
<1>10. \A c : readyOf(q, w, c) \subseteq 1..Len(q)
  BY ZenonT(40) DEF readyOf
<1>11. \A j, k \in taken : j = k
  BY <1>1, <1>4, <1>10, ZenonT(40)
<1>12. \A j, k \in port0(q, w) : j = k
  <2>1. reserved \subseteq 1..Len(q) /\ fill \ taken \subseteq 1..Len(q)
    BY <1>10, ZenonT(40)
  <2>2. PICK ks : ks \subseteq 1..Len(q) /\ port0(q, w) = oldestOf(ks)
    BY <2>1, <1>5, ZenonT(40)
  <2> QED
    BY <2>2, <1>1, ZenonT(40)
<1> QED
  BY <1>7, <1>8, <1>9, <1>11, <1>12, ZenonT(40)

--------------------------------------------------------------------------------
(* Execution.                                                                  *)

\* What a clock makes of an entry.
Advances(e, f) ==
    /\ f \in EntryType /\ f.kind = e.kind /\ f.pc = e.pc /\ f.predicted = e.predicted
    /\ \/ f = e
       \/ /\ e.state = "iq" /\ f.state = "issued"
          /\ e.kind \notin {"branch", "mret"} => f.target = e.target
          /\ isCsr(e.kind) => f.read = csrCurrent(e.kind)
       \/ /\ e.state = "issued" /\ f.state \in {"complete", "exception"}
          /\ f.target = e.target /\ f.read = e.read

Advanced(entries) ==
    /\ entries \in Seq(EntryType) /\ Len(entries) = Len(rob)
    /\ \A i \in 1..Len(rob) : Advances(rob[i], entries[i])
    /\ \A i, j \in mispredicted(entries) : i = j

LEMMA Entries ==
  ASSUME Types, NEW i \in 1..Len(rob)
  PROVE  rob[i] \in EntryType
BY DEF Types

\* The values of the CSRs and the addresses.
LEMMA Values ==
  ASSUME Types
  PROVE  /\ \A kind : csrCurrent(kind) \in Nat
         /\ mepc \in Pcs /\ 0 \in Pcs /\ CsrData \in Pcs /\ \A p \in Pcs : p \in Nat /\ next(p) \in Pcs
<1>1. mepc \in Pcs /\ mepc \in Nat /\ minstret \in Nat
  BY SerializeAssumption DEF Types, Pcs
<1>2. \A kind : csrCurrent(kind) \in Nat
  BY <1>1, ZenonT(40) DEF csrCurrent
<1>3. \A n \in Nat : n % PcNum \in 0..(PcNum - 1)
  BY SerializeAssumption
<1>4. 0 \in Pcs /\ CsrData \in Pcs /\ \A p \in Pcs : p \in Nat /\ next(p) \in Pcs
  BY <1>3, SerializeAssumption DEF CsrData, next, Pcs
<1> QED
  BY <1>1, <1>2, <1>4, ZenonT(40)

\* Executing an entry changes its state, its target and what it read.
Becomes(e, f, r, t) ==
    /\ f \in EntryType /\ f.kind = e.kind /\ f.pc = e.pc /\ f.predicted = e.predicted
    /\ f.state = "issued" /\ f.read = r /\ f.target = t

LEMMA ExecutedIs ==
  ASSUME NEW e \in EntryType, NEW r \in Nat, NEW t \in Pcs, NEW f,
         f = [e EXCEPT !.state = "issued", !.read = r, !.target = t]
  PROVE  Becomes(e, f, r, t)
BY ZenonT(40) DEF EntryType, Becomes

LEMMA FinishedIs ==
  ASSUME NEW e \in EntryType
  PROVE  /\ Finished(e) \in EntryType /\ Finished(e).kind = e.kind /\ Finished(e).pc = e.pc
         /\ Finished(e).predicted = e.predicted /\ Finished(e).state \in {"complete", "exception"}
         /\ Finished(e).read = e.read /\ Finished(e).target = e.target
BY DEF EntryType, Finished

\* Which entries leave the issue queue, and where they are in it.
LEMMA OnPorts ==
  ASSUME Types, NEW ready \in SUBSET waiting,
         NEW i \in onPort0(ready) \cup onPort1(ready)
  PROVE  /\ i \in 1..Len(rob) /\ rob[i].state = "iq"
         /\ isCsr(rob[i].kind) => i \in onPort0(ready)
         /\ \A j \in onPort0(ready) \cup onPort1(ready) :
               rob[i].kind \in {"branch", "mret"} /\ rob[j].kind \in {"branch", "mret"} => i = j
<1> DEFINE q == queueOf(ready)
           n == Len(rob)
<1>1. n \in Nat /\ Len(q) = n /\ DOMAIN q = 1..n
  BY DEF Types, queueOf
<1>2. \A k \in 1..n : /\ q[k].fuClass = fuClass(rob[k].kind)
                      /\ q[k].src1 = 1 /\ q[k].src1Ready = (k \in ready)
  BY ZenonT(40) DEF queueOf
<1>3. onPort0(ready) = port0(q, {}) /\ onPort1(ready) = port1(q, {})
  BY ZenonT(40) DEF onPort0, onPort1
<1> HIDE DEF q
<1>4. \A k \in port0(q, {}) \cup port1(q, {}) : k \in 1..n /\ readyEntry(q[k], {})
  BY <1>1, Ports, ZenonT(40)
<1>5. \A k \in port0(q, {}) \cup port1(q, {}) : k \in 1..n /\ k \in ready
  <2>1. 1 # 0
    OBVIOUS
  <2> QED
    BY <1>2, <1>4, <2>1, ZenonT(40) DEF readyEntry, sourceReadyNow
<1>6. rob[i].state = "iq" /\ i \in 1..n
  BY <1>3, <1>5, ZenonT(40) DEF waiting
<1>7. isCsr(rob[i].kind) => i \in onPort0(ready)
  <2>1. isCsr(rob[i].kind) => fuClass(rob[i].kind) \notin IntegerOrBranch
    BY DEF fuClass, IntegerOrBranch
  <2>2. \A k \in port1(q, {}) : q[k].fuClass \in IntegerOrBranch
    BY Ports, ZenonT(40)
  <2> QED
    BY <1>2, <1>3, <1>6, <2>1, <2>2, ZenonT(40)
<1>8. \A k : k \in {"branch", "mret"} => fuClass(k) = "FU_BRANCH"
  BY DEF fuClass, isCsr
<1>9. ASSUME NEW j \in onPort0(ready) \cup onPort1(ready),
             rob[i].kind \in {"branch", "mret"}, rob[j].kind \in {"branch", "mret"}
      PROVE  i = j
  <2>1. q[i].fuClass = "FU_BRANCH" /\ q[j].fuClass = "FU_BRANCH"
    BY <1>2, <1>3, <1>5, <1>8, <1>9, ZenonT(40)
  <2> QED
    BY <1>3, <2>1, Ports, ZenonT(40)
<1> QED
  BY <1>6, <1>7, <1>9, ZenonT(40)

LEMMA Advance ==
  ASSUME Types, NEW ready \in SUBSET waiting, NEW taken \in BOOLEAN,
         NEW done \in SUBSET issuedPlaces
  PROVE  Advanced(AfterClock(ready, taken, done))
<1> DEFINE entries == AfterClock(ready, taken, done)
           on == onPort0(ready) \cup onPort1(ready)
<1>0. entries = [i \in 1..Len(rob) |-> entries[i]]
  BY ZenonT(40) DEF AfterClock
<1>1. \A i \in 1..Len(rob) : entries[i] =
        IF i \in on THEN Executed(i, ready, taken)
        ELSE IF i \in done THEN Finished(rob[i]) ELSE rob[i]
  BY ZenonT(40) DEF AfterClock
<1> HIDE DEF entries
<1>2. ASSUME NEW i \in on
      PROVE  Advances(rob[i], Executed(i, ready, taken)) /\ i \in 1..Len(rob)
  <2> DEFINE e == rob[i]
             r == IF isCsr(e.kind) THEN csrReadData(i, ready) ELSE 0
             t == IF e.kind = "mret" THEN csrReadData(i, ready)
                  ELSE IF e.kind = "branch" /\ taken THEN 0 ELSE e.target
             f == Executed(i, ready, taken)
  <2>1. /\ i \in 1..Len(rob) /\ e.state = "iq" /\ (isCsr(e.kind) => i \in onPort0(ready))
    BY OnPorts, ZenonT(40)
  <2>2. e \in EntryType
    BY <2>1, Entries, ZenonT(40)
  <2>3. f = [e EXCEPT !.state = "issued", !.read = r, !.target = t]
    BY ZenonT(40) DEF Executed
  <2>4. csrReadData(i, ready) \in Nat /\ r \in Nat
    BY Values DEF csrReadData
  <2>5. e.kind = "mret" => csrReadData(i, ready) \in Pcs
    BY Values DEF csrReadData, csrCurrent
  <2>6. t \in Pcs
    BY <2>2, <2>5, Values DEF EntryType
  <2>7. e.kind \notin {"branch", "mret"} => t = e.target
    BY ZenonT(40)
  <2>8. isCsr(e.kind) => r = csrCurrent(e.kind)
    BY <2>1, ZenonT(40) DEF csrReadData
  <2> HIDE DEF e, r, t, f
  <2>9. Becomes(e, f, r, t)
    BY <2>2, <2>3, <2>4, <2>6, ExecutedIs, ZenonT(40)
  <2>10. Advances(e, f)
    BY <2>1, <2>7, <2>8, <2>9, ZenonT(40) DEF Advances, Becomes, e
  <2> QED
    BY <2>1, <2>10, ZenonT(40) DEF e, f
<1>3. ASSUME NEW i \in done
      PROVE  Advances(rob[i], Finished(rob[i])) /\ i \in 1..Len(rob)
  <2>1. i \in 1..Len(rob) /\ rob[i].state = "issued"
    BY ZenonT(40) DEF issuedPlaces
  <2>2. rob[i] \in EntryType
    BY <2>1, Entries, ZenonT(40)
  <2> QED
    BY <2>1, <2>2, FinishedIs, ZenonT(40) DEF Advances
<1>4. \A i \in 1..Len(rob) : Advances(rob[i], rob[i])
  BY Entries, ZenonT(40) DEF Advances
<1>5. \A i \in 1..Len(rob) : Advances(rob[i], entries[i])
  BY <1>1, <1>2, <1>3, <1>4, ZenonT(40)
<1>6. ASSUME NEW i \in mispredicted(entries)
      PROVE  i \in on /\ rob[i].kind \in {"branch", "mret"}
  <2>1. i \in 1..Len(rob) /\ rob[i].state = "iq" /\ entries[i].state = "issued"
        /\ rob[i].kind \in {"branch", "mret"}
    BY ZenonT(40) DEF mispredicted
  <2>2. i \notin done
    <3>1. "iq" # "issued"
      OBVIOUS
    <3> QED
      BY <2>1, <3>1, ZenonT(40) DEF issuedPlaces
  <2>3. "iq" # "issued"
    OBVIOUS
  <2> QED
    BY <1>1, <2>1, <2>2, <2>3, ZenonT(40)
<1>7. \A i, j \in mispredicted(entries) : i = j
  BY <1>6, OnPorts, ZenonT(40)
<1>8. entries \in Seq(EntryType) /\ Len(entries) = Len(rob)
  <2>1. Len(rob) \in Nat
    BY DEF Types
  <2>2. \A i \in 1..Len(rob) : entries[i] \in EntryType
    BY <1>5, ZenonT(40) DEF Advances
  <2>3. entries \in [1..Len(rob) -> EntryType]
    BY <1>0, <2>2, ZenonT(40)
  <2> HIDE DEF entries
  <2> QED
    BY <2>1, <2>3
<1> QED
  BY <1>5, <1>7, <1>8, ZenonT(40) DEF Advanced, entries

LEMMA OutcomesAdvance ==
  ASSUME Types, NEW entries \in Outcomes
  PROVE  Advanced(entries)
<1>1. PICK o \in [ready : SUBSET waiting, taken : BOOLEAN, done : SUBSET issuedPlaces] :
        entries = AfterClock(o.ready, o.taken, o.done)
  BY ZenonT(40) DEF Outcomes
<1>2. o.ready \in SUBSET waiting /\ o.taken \in BOOLEAN /\ o.done \in SUBSET issuedPlaces
  BY ZenonT(40)
<1> QED
  BY <1>1, <1>2, Advance, ZenonT(40)

--------------------------------------------------------------------------------
(* Dispatch.                                                                   *)

\* What dispatch adds: nothing, or one or two entries of the predicted stream,
\* the first of them serialized only on a drained back end.
Admitted(lanes) ==
    \/ lanes = <<>>
    \/ /\ ~serializing /\ Len(rob) < RobDepth
       /\ \E p \in Predictions(fetchPc) :
             /\ startsSerialization(program[fetchPc]) => backendDrained
             /\ \/ lanes = <<robEntry(fetchPc, p)>>
                \/ /\ Len(rob) + 1 < RobDepth /\ ~startsSerialization(program[p])
                   /\ \E r \in Predictions(p) : lanes = <<robEntry(fetchPc, p), robEntry(p, r)>>

LEMMA Dispatches ==
  ASSUME NEW stream \in Streams
  PROVE  Admitted(accepted(stream))
<1> DEFINE lane0 == /\ Len(stream) >= 1 /\ Len(rob) < RobDepth
                    /\ laneSupported0(program[stream[1].pc])
           lane1 == /\ lane0 /\ Len(stream) = 2 /\ Len(rob) + 1 < RobDepth
                    /\ laneSupported1(program[stream[2].pc])
<1>1. accepted(stream) = IF lane1 THEN stream ELSE IF lane0 THEN <<stream[1]>> ELSE <<>>
  BY ZenonT(40) DEF accepted
<1>2. \A p, r : robEntry(p, r).pc = p /\ robEntry(p, r).predicted = r
  BY ZenonT(40) DEF robEntry
<1>3. \/ stream = <<>>
      \/ \E p \in Predictions(fetchPc) :
            \/ stream = <<robEntry(fetchPc, p)>>
            \/ \E r \in Predictions(p) : stream = <<robEntry(fetchPc, p), robEntry(p, r)>>
  <2> DEFINE lane0s == {robEntry(fetchPc, p) : p \in Predictions(fetchPc)}
             pairs(e) == {<<e, robEntry(e.predicted, p)>> : p \in Predictions(e.predicted)}
  <2>1. \/ stream = <<>> \/ \E e \in lane0s : stream = <<e>>
        \/ \E e \in lane0s : stream \in pairs(e)
    BY DEF Streams
  <2>2. ASSUME NEW e \in lane0s, stream = <<e>> \/ stream \in pairs(e)
        PROVE  \E p \in Predictions(fetchPc) :
                  \/ stream = <<robEntry(fetchPc, p)>>
                  \/ \E r \in Predictions(p) : stream = <<robEntry(fetchPc, p), robEntry(p, r)>>
    <3>1. PICK p \in Predictions(fetchPc) : e = robEntry(fetchPc, p)
      BY ZenonT(40)
    <3>2. e.predicted = p
      BY <3>1, <1>2, ZenonT(40)
    <3> QED
      BY <2>2, <3>1, <3>2, ZenonT(40)
  <2> QED
    BY <2>1, <2>2, ZenonT(40)
<1>4. ASSUME stream = <<>> PROVE Admitted(accepted(stream))
  <2>1. ~lane0
    BY <1>4
  <2> QED
    BY <1>1, <2>1, ZenonT(40) DEF Admitted
<1>5. ASSUME NEW p \in Predictions(fetchPc), NEW e, e = robEntry(fetchPc, p),
             \/ stream = <<e>>
             \/ \E r \in Predictions(p) : stream = <<e, robEntry(p, r)>>
      PROVE  Admitted(accepted(stream))
  <2>1. stream[1] = e /\ Len(stream) \in {1, 2}
    <3>1. CASE stream = <<e>>
      BY <3>1
    <3>2. ASSUME NEW f, stream = <<e, f>> 
          PROVE  stream[1] = e /\ Len(stream) \in {1, 2}
      BY <3>2
    <3> QED
      BY <1>5, <3>1, <3>2, ZenonT(40)
  <2>2. e.pc = fetchPc
    BY <1>2, <1>5, ZenonT(40)
  <2>3. CASE ~lane0
    <3>1. accepted(stream) = <<>>
      BY <1>1, <2>3, ZenonT(40)
    <3> QED
      BY <3>1, ZenonT(40) DEF Admitted
  <2>4. ASSUME lane0
        PROVE  /\ ~serializing /\ Len(rob) < RobDepth
               /\ startsSerialization(program[fetchPc]) => backendDrained
    BY <2>1, <2>2, <2>4, ZenonT(40) DEF laneSupported0
  <2>5. CASE lane0 /\ ~lane1
    <3>1. accepted(stream) = <<e>>
      BY <1>1, <2>1, <2>5, ZenonT(40)
    <3> QED
      BY <3>1, <2>4, <2>5, <1>5, ZenonT(40) DEF Admitted
  <2>6. CASE lane0 /\ lane1
    <3>1. accepted(stream) = stream /\ Len(stream) = 2
      BY <1>1, <2>6, ZenonT(40)
    <3>2. PICK r \in Predictions(p) : stream = <<e, robEntry(p, r)>>
      <4>1. stream # <<e>>
        BY <3>1
      <4> QED
        BY <4>1, <1>5, ZenonT(40)
    <3> DEFINE f == robEntry(p, r)
    <3>3. f.pc = p
      BY <1>2, ZenonT(40)
    <3>4. stream = <<e, f>>
      BY <3>2, ZenonT(40)
    <3> HIDE DEF f
    <3>5. stream[2] = f
      BY <3>4
    <3>6. Len(rob) + 1 < RobDepth /\ ~startsSerialization(program[p])
      BY <2>6, <3>3, <3>5, ZenonT(40) DEF laneSupported1
    <3> QED
      BY <3>1, <3>4, <3>6, <2>4, <2>6, <1>5, ZenonT(40) DEF Admitted, f
  <2> QED
    BY <2>3, <2>5, <2>6, ZenonT(40)
<1> QED
  BY <1>3, <1>4, <1>5, ZenonT(40)

Fresh(e, pc, p) ==
    /\ e \in EntryType /\ p \in Pcs /\ e.kind = program[pc] /\ e.pc = pc
    /\ e.predicted = p /\ e.state = "iq"
    /\ program[pc] \notin {"branch", "mret"} => p = e.target

LEMMA EntryIs ==
  ASSUME Types, NEW pc \in Pcs, NEW p \in Predictions(pc)
  PROVE  Fresh(robEntry(pc, p), pc, p)
<1>1. program[pc] \in Kinds /\ next(pc) \in Pcs /\ 0 \in Pcs /\ 0 \in Nat
  BY Values, ZenonT(40) DEF Types
<1>2. p \in Pcs /\ (program[pc] \notin {"branch", "mret"} => p = next(pc))
  BY <1>1, ZenonT(40) DEF Predictions
<1> QED
  BY <1>1, <1>2, ZenonT(40) DEF robEntry, EntryType, Fresh

\* The ROB after n entries left and t was added.
Shifted(r, s, n, t) ==
    /\ Len(r) = (Len(s) - n) + Len(t)
    /\ \A i \in 1..(Len(s) - n) : r[i] = s[n + i]
    /\ \A j \in 1..Len(t) : r[(Len(s) - n) + j] = t[j]

LEMMA Shift ==
  ASSUME NEW S, NEW s \in Seq(S), NEW t \in Seq(S), NEW n \in 0..Len(s)
  PROVE  /\ SubSeq(s, n + 1, Len(s)) \o t \in Seq(S)
         /\ Shifted(SubSeq(s, n + 1, Len(s)) \o t, s, n, t)
<1> DEFINE u == SubSeq(s, n + 1, Len(s))
<1>1. u \in Seq(S) /\ Len(u) = Len(s) - n /\ \A i \in 1..(Len(s) - n) : u[i] = s[n + i]
  BY SMTT(60)
<1> HIDE DEF u
<1>6. u \in Seq(S)
  BY <1>1, ZenonT(40)
<1>3. u \o t \in Seq(S) /\ Len(u \o t) = Len(u) + Len(t)
  BY <1>6, ConcatProperties, ZenonT(40)
<1>4. \A i \in 1..Len(u) : (u \o t)[i] = u[i]
  BY <1>1
<1>5. \A j \in 1..Len(t) : (u \o t)[Len(u) + j] = t[j]
  BY <1>1
<1>2. u \o t \in Seq(S) /\ Shifted(u \o t, s, n, t)
  BY <1>1, <1>3, <1>4, <1>5, ZenonT(40) DEF Shifted
<1> QED
  BY <1>2, ZenonT(40) DEF u

--------------------------------------------------------------------------------
(* A clock.                                                                    *)

LEMMA LanesAre ==
  ASSUME Types, NEW lanes, Admitted(lanes)
  PROVE  /\ lanes \in Seq(EntryType) /\ Len(lanes) \in 0..2 /\ Len(rob) + Len(lanes) <= RobDepth
         /\ lanes # <<>> => ~serializing
         /\ \A j \in 1..Len(lanes) : startsSerialization(lanes[j].kind) => j = 1 /\ backendDrained
         /\ fetchAfter(lanes) \in Pcs
<1> DEFINE Goal == /\ lanes \in Seq(EntryType) /\ Len(lanes) \in 0..2 /\ Len(rob) + Len(lanes) <= RobDepth
                   /\ lanes # <<>> => ~serializing
                   /\ \A j \in 1..Len(lanes) : startsSerialization(lanes[j].kind) => j = 1 /\ backendDrained
                   /\ fetchAfter(lanes) \in Pcs
<1>0. Len(rob) \in Nat /\ Len(rob) <= RobDepth /\ RobDepth \in Nat /\ fetchPc \in Pcs
  BY SerializeAssumption DEF Types
<1>1. CASE lanes = <<>>
  <2>1. lanes \in Seq(EntryType) /\ Len(lanes) = 0 /\ 1..Len(lanes) = {}
    BY <1>1
  <2>2. Len(lanes) \in 0..2 /\ Len(rob) + Len(lanes) <= RobDepth
    BY <1>0, <2>1
  <2> QED
    BY <1>0, <1>1, <2>1, <2>2, ZenonT(40) DEF fetchAfter
<1>2. ASSUME NEW p \in Predictions(fetchPc), NEW e, e = robEntry(fetchPc, p), lanes = <<e>>,
             ~serializing, Len(rob) < RobDepth, startsSerialization(program[fetchPc]) => backendDrained
      PROVE  Goal
  <2>1. e \in EntryType /\ e.kind = program[fetchPc] /\ e.predicted \in Pcs
    <3>1. Fresh(e, fetchPc, p)
      BY <1>0, <1>2, EntryIs, ZenonT(40)
    <3> QED
      BY <3>1, ZenonT(40) DEF Fresh
  <2>2. /\ lanes \in Seq(EntryType) /\ Len(lanes) = 1 /\ lanes # <<>> /\ lanes[Len(lanes)] = e
        /\ \A j \in 1..Len(lanes) : j = 1 /\ lanes[j] = e
    BY <1>2, <2>1
  <2>3. Len(lanes) \in 0..2 /\ Len(rob) + Len(lanes) <= RobDepth
    BY <1>0, <1>2, <2>2
  <2> QED
    BY <1>2, <2>1, <2>2, <2>3, ZenonT(40) DEF fetchAfter
<1>3. ASSUME NEW p \in Predictions(fetchPc), NEW e, e = robEntry(fetchPc, p),
             NEW r \in Predictions(p), NEW f, f = robEntry(p, r), lanes = <<e, f>>,
             ~serializing, Len(rob) + 1 < RobDepth,
             startsSerialization(program[fetchPc]) => backendDrained,
             ~startsSerialization(program[p])
      PROVE  Goal
  <2>1. e \in EntryType /\ e.kind = program[fetchPc] /\ p \in Pcs
    <3>1. Fresh(e, fetchPc, p)
      BY <1>0, <1>3, EntryIs, ZenonT(40)
    <3> QED
      BY <3>1, ZenonT(40) DEF Fresh
  <2>2. f \in EntryType /\ f.kind = program[p] /\ f.predicted \in Pcs
    <3>1. Fresh(f, p, r)
      BY <2>1, <1>3, EntryIs, ZenonT(40)
    <3> QED
      BY <3>1, ZenonT(40) DEF Fresh
  <2>3. /\ lanes \in Seq(EntryType) /\ Len(lanes) = 2 /\ lanes # <<>> /\ lanes[Len(lanes)] = f
        /\ \A j \in 1..Len(lanes) : (j = 1 /\ lanes[j] = e) \/ lanes[j] = f
    BY <1>3, <2>1, <2>2
  <2>4. Len(lanes) \in 0..2 /\ Len(rob) + Len(lanes) <= RobDepth
    BY <1>0, <1>3, <2>3
  <2> QED
    BY <1>3, <2>1, <2>2, <2>3, <2>4, ZenonT(40) DEF fetchAfter
<1> QED
  BY <1>1, <1>2, <1>3, ZenonT(40) DEF Admitted

\* Retirement and execution of the CSRs and of the observer stay in type.
LEMMA StepType ==
  ASSUME Types, NEW a \in ArchType, NEW e \in EntryType
  PROVE  Step(a, e) \in ArchType
<1>1. \A m \in 0..(InstretMod - 1) : (m + 1) % InstretMod \in 0..(InstretMod - 1)
  BY SerializeAssumption
<1>2. a.minstret \in 0..(InstretMod - 1) /\ a.mepc \in Pcs /\ e.target \in Pcs /\ a.mpie \in BOOLEAN
  BY ZenonT(40) DEF ArchType, EntryType
<1>3. /\ (a.minstret + 1) % InstretMod \in 0..(InstretMod - 1) /\ CsrData \in Pcs
      /\ (a.mpie \/ e.kind = "mret") \in BOOLEAN
  BY <1>1, <1>2, Values, ZenonT(40)
<1> QED
  BY <1>2, <1>3, ZenonT(40) DEF Step, ArchType

LEMMA CsrTypes ==
  ASSUME Types, NEW entries, NEW n \in 0..2, CsrClock(entries, n)
  PROVE  /\ mepc' \in Pcs /\ minstret' \in 0..(InstretMod - 1)
         /\ mie' \in BOOLEAN /\ mpie' \in BOOLEAN
<1>1. minstret' = (minstret + n) % InstretMod
  BY ZenonT(40) DEF CsrClock
<1>2. minstret' \in 0..(InstretMod - 1)
  BY <1>1, SerializeAssumption DEF Types
<1>3. mepc' \in Pcs /\ mie' \in BOOLEAN /\ mpie' \in BOOLEAN
  BY Values, ZenonT(40) DEF CsrClock, Types
<1> QED
  BY <1>2, <1>3, ZenonT(40)

\* What retires.
LEMMA Retires ==
  ASSUME Types, NEW n \in RetireCounts
  PROVE  /\ n \in 0..2 /\ n <= Len(rob) /\ \A i \in 1..n : rob[i].state = "complete"
         /\ n \in 0..Len(rob) /\ After(arch, n) \in ArchType
         /\ (n = 0 => ~retires(n, "store")) /\ (retires(n, "store") => undrained < SbDepth)
<1>1. /\ n \in 0..2 /\ n <= Len(rob) /\ \A i \in 1..n : rob[i].state = "complete"
      /\ (\E i \in 1..n : rob[i].kind = "store") => undrained < SbDepth
  BY ZenonT(40) DEF RetireCounts
<1>2. Len(rob) \in Nat /\ arch \in ArchType
  BY DEF Types
<1>3. n \in 0..Len(rob) /\ (n = 0 \/ n = 1 \/ n = 2)
  BY <1>1, <1>2
<1>4. n = 0 => ~retires(n, "store")
  BY DEF retires
<1>5. (n = 1 => 1 \in 1..Len(rob)) /\ (n = 2 => 1 \in 1..Len(rob) /\ 2 \in 1..Len(rob))
  BY <1>1, <1>2
<1>6. After(arch, n) \in ArchType
  BY <1>2, <1>3, <1>5, Entries, StepType, ZenonT(40) DEF After
<1> QED
  BY <1>1, <1>3, <1>4, <1>6, ZenonT(40) DEF retires

Drains == 0..(IF undrained > 0 THEN 1 ELSE 0)

\* The shape of the ROB after a clock without recovery or trap.
LEMMA ClockRob ==
  ASSUME Types, NEW entries, Advanced(entries), NEW lanes, Admitted(lanes), NEW n \in RetireCounts,
         rob' = SubSeq(entries, n + 1, Len(rob)) \o lanes
  PROVE  rob' \in Seq(EntryType) /\ Len(rob') <= RobDepth /\ Shifted(rob', entries, n, lanes)
<1>1. entries \in Seq(EntryType) /\ Len(entries) = Len(rob)
  BY ZenonT(40) DEF Advanced
<1>2. lanes \in Seq(EntryType) /\ Len(lanes) \in 0..2 /\ Len(rob) + Len(lanes) <= RobDepth
  BY LanesAre, ZenonT(40)
<1>3. n \in 0..Len(entries)
  BY <1>1, Retires, ZenonT(40)
<1>4. rob' \in Seq(EntryType) /\ Shifted(rob', entries, n, lanes)
  BY <1>1, <1>2, <1>3, Shift, ZenonT(40)
<1>5. Len(rob') = (Len(rob) - n) + Len(lanes)
  BY <1>1, <1>4, ZenonT(40) DEF Shifted
<1>6. Len(rob) \in Nat /\ Len(lanes) \in Nat /\ RobDepth \in Nat
  BY <1>2, SerializeAssumption DEF Types
<1>7. Len(rob') <= RobDepth
  <2>1. n \in Nat
    BY <1>3
  <2> QED
    BY <2>1, <1>2, <1>5, <1>6
<1> QED
  BY <1>4, <1>7, ZenonT(40)

LEMMA ClockTypes ==
  ASSUME Types, NEW entries, Advanced(entries), NEW stream \in Streams, NEW n \in RetireCounts,
         NEW drains \in Drains, Clock(entries, stream, n, drains)
  PROVE  Types'
<1> DEFINE lanes == accepted(stream)
<1>1. /\ rob' = SubSeq(entries, n + 1, Len(rob)) \o lanes
      /\ fetchPc' = fetchAfter(lanes) /\ serializing' = serializingNext(lanes)
      /\ undrained' = (undrained + (IF retires(n, "store") THEN 1 ELSE 0)) - drains
      /\ CsrClock(entries, n) /\ arch' = After(arch, n) /\ program' = program
  BY ZenonT(40) DEF Clock
<1>2. Admitted(lanes)
  BY Dispatches, ZenonT(40)
<1> HIDE DEF lanes
<1>3. rob' \in Seq(EntryType) /\ Len(rob') <= RobDepth
  BY <1>1, <1>2, ClockRob, ZenonT(40)
<1>4. fetchPc' \in Pcs
  BY <1>1, <1>2, LanesAre, ZenonT(40)
<1>5. n \in 0..2 /\ After(arch, n) \in ArchType /\ (retires(n, "store") => undrained < SbDepth)
  BY Retires, ZenonT(40)
<1>6. undrained' \in 0..SbDepth
  BY <1>1, <1>5, SerializeAssumption DEF Types, Drains
<1>7. serializing' \in BOOLEAN
  BY <1>1, ZenonT(40) DEF serializingNext, Types
<1>8. program' \in [Pcs -> Kinds]
  BY <1>1, ZenonT(40) DEF Types
<1>9. /\ mepc' \in Pcs /\ minstret' \in 0..(InstretMod - 1)
      /\ mie' \in BOOLEAN /\ mpie' \in BOOLEAN
  BY <1>1, <1>5, CsrTypes, ZenonT(40)
<1> QED
  BY <1>1, <1>3, <1>4, <1>5, <1>6, <1>7, <1>8, <1>9, ZenonT(40) DEF Types

LEMMA ClockSerialized ==
  ASSUME SInv, NEW entries, Advanced(entries), NEW stream \in Streams, NEW n \in RetireCounts,
         NEW drains \in Drains, Clock(entries, stream, n, drains)
  PROVE  SerializedComesFirst'
<1> DEFINE lanes == accepted(stream)
           k == Len(rob) - n
<1>t. Types
  BY ZenonT(40) DEF SInv
<1>1. /\ rob' = SubSeq(entries, n + 1, Len(rob)) \o lanes
      /\ serializing' = serializingNext(lanes)
      /\ undrained' = (undrained + (IF retires(n, "store") THEN 1 ELSE 0)) - drains
  BY ZenonT(40) DEF Clock
<1>2. Admitted(lanes)
  BY Dispatches, ZenonT(40)
<1> HIDE DEF lanes
<1>3. Shifted(rob', entries, n, lanes) /\ Len(entries) = Len(rob)
  BY <1>t, <1>1, <1>2, ClockRob, ZenonT(40) DEF Advanced
<1>4. /\ Len(lanes) \in 0..2 /\ (lanes # <<>> => ~serializing) /\ lanes \in Seq(EntryType)
      /\ \A j \in 1..Len(lanes) : startsSerialization(lanes[j].kind) => j = 1 /\ backendDrained
  BY <1>t, <1>2, LanesAre, ZenonT(40)
<1>5. n \in 0..Len(rob) /\ Len(rob) \in Nat /\ n \in Nat
  BY <1>t, Retires DEF Types
<1>6. undrained = 0 /\ n = 0 => undrained' = 0
  <2>1. n = 0 => ~retires(n, "store")
    BY <1>t, Retires, ZenonT(40)
  <2> QED
    BY <1>1, <2>1 DEF Drains
<1>7. /\ Len(rob') = k + Len(lanes)
      /\ \A i \in 1..k : rob'[i] = entries[n + i]
      /\ \A j \in 1..Len(lanes) : rob'[k + j] = lanes[j]
  BY <1>3, ZenonT(40) DEF Shifted
<1>8. ASSUME NEW i \in 1..k, startsSerialization(rob'[i].kind)
      PROVE  i = 1 /\ Len(rob') <= 2 /\ undrained' = 0 /\ serializing'
  <2>1. n + i \in 1..Len(rob) /\ rob'[i] = entries[n + i]
    BY <1>5, <1>7
  <2>2. startsSerialization(rob[n + i].kind)
    BY <1>8, <2>1, ZenonT(40) DEF Advanced, Advances
  <2>3. n + i = 1 /\ Len(rob) <= 2 /\ undrained = 0 /\ serializing
    BY <2>1, <2>2, ZenonT(40) DEF SInv, SerializedComesFirst
  <2>4. n = 0 /\ i = 1 /\ rob # <<>>
    BY <1>5, <2>1, <2>3
  <2>5. lanes = <<>>
    BY <1>4, <2>3, ZenonT(40)
  <2>6. Len(rob') <= 2
    BY <1>5, <1>7, <2>3, <2>4, <2>5
  <2> QED
    BY <1>1, <1>6, <2>3, <2>4, <2>6, ZenonT(40) DEF serializingNext
<1>9. ASSUME NEW j \in 1..Len(lanes), startsSerialization(lanes[j].kind)
      PROVE  k + j = 1 /\ Len(rob') <= 2 /\ undrained' = 0 /\ serializing'
  <2>1. j = 1 /\ rob = <<>> /\ undrained = 0
    BY <1>4, <1>9, ZenonT(40) DEF backendDrained
  <2>2. Len(rob) = 0
    BY <2>1
  <2>3. n = 0 /\ k = 0 /\ Len(rob') <= 2 /\ k + j = 1
    BY <1>4, <1>5, <1>7, <2>1, <2>2
  <2>4. lanes # <<>>
    BY <1>4
  <2> QED
    BY <1>1, <1>6, <1>9, <2>1, <2>3, <2>4, ZenonT(40) DEF serializingNext
<1> HIDE DEF k
<1>10. ASSUME NEW i \in 1..Len(rob'), startsSerialization(rob'[i].kind)
       PROVE  i = 1 /\ Len(rob') <= 2 /\ undrained' = 0 /\ serializing'
  <2>0. k \in Nat
    BY <1>5 DEF k
  <2>1. CASE i \in 1..k
    BY <1>8, <1>10, <2>1, ZenonT(40)
  <2>2. CASE i \notin 1..k
    <3> DEFINE j == i - k
    <3>1. j \in 1..Len(lanes) /\ i = k + j
      BY <1>4, <1>7, <2>0, <2>2
    <3> HIDE DEF j
    <3>2. startsSerialization(lanes[j].kind)
      BY <1>7, <1>10, <3>1, ZenonT(40)
    <3> QED
      BY <1>9, <3>1, <3>2, ZenonT(40)
  <2> QED
    BY <2>1, <2>2, ZenonT(40)
<1> QED
  BY <1>10, ZenonT(40) DEF SerializedComesFirst

\* The ROB after a recovery: what is younger than the branch is gone, and the
\* branch is complete.
Cut(r, s, i) ==
    /\ r \in Seq(EntryType) /\ Len(r) = i
    /\ \A j \in 1..(i - 1) : r[j] = s[j]
    /\ r[i] \in EntryType /\ r[i].state = "complete"
    /\ r[i].kind = s[i].kind /\ r[i].pc = s[i].pc /\ r[i].predicted = s[i].predicted
    /\ r[i].target = s[i].target /\ r[i].read = s[i].read

LEMMA CutIs ==
  ASSUME NEW s \in Seq(EntryType), NEW i \in 1..Len(s)
  PROVE  Cut([SubSeq(s, 1, i) EXCEPT ![i].state = "complete"], s, i)
<1> DEFINE u == SubSeq(s, 1, i)
           e == [s[i] EXCEPT !.state = "complete"]
           r == [u EXCEPT ![i] = e]
<1>1. u \in Seq(EntryType) /\ Len(u) = i /\ \A j \in 1..i : u[j] = s[j]
  BY SMTT(60)
<1>2. i \in Nat /\ i \in 1..i /\ s[i] \in EntryType
  OBVIOUS
<1>3. u[i] = s[i]
  BY <1>1, <1>2, ZenonT(40)
<1>4. /\ e \in EntryType /\ e.state = "complete"
      /\ e.kind = s[i].kind /\ e.pc = s[i].pc /\ e.predicted = s[i].predicted
      /\ e.target = s[i].target /\ e.read = s[i].read
  BY <1>2, ZenonT(40) DEF EntryType
<1>5. [SubSeq(s, 1, i) EXCEPT ![i].state = "complete"] = r
  BY <1>3, ZenonT(40)
<1> HIDE DEF u, e
<1>6. r \in Seq(EntryType) /\ Len(r) = i
  BY <1>1, <1>2, <1>4
<1>7. r[i] = e
  BY <1>1, <1>2
<1>8. \A j \in 1..(i - 1) : r[j] = s[j]
  BY <1>1, <1>2
<1> HIDE DEF r
<1>9. Cut(r, s, i)
  BY <1>4, <1>6, <1>7, <1>8, ZenonT(40) DEF Cut
<1> QED
  BY <1>5, <1>9, ZenonT(40)

LEMMA RecoverRob ==
  ASSUME Types, NEW entries, Advanced(entries), NEW i \in mispredicted(entries)
  PROVE  /\ i \in 1..Len(rob) /\ i \in 1..Len(entries)
         /\ Cut([SubSeq(entries, 1, i) EXCEPT ![i].state = "complete"], entries, i)
         /\ rob[i].kind \in {"branch", "mret"} /\ entries[i].target \in Pcs
         /\ rob[i].state = "iq" /\ entries[i].state = "issued"
<1>1. i \in 1..Len(rob) /\ rob[i].kind \in {"branch", "mret"}
      /\ rob[i].state = "iq" /\ entries[i].state = "issued"
  BY ZenonT(40) DEF mispredicted
<1>2. entries \in Seq(EntryType) /\ Len(entries) = Len(rob) /\ Advances(rob[i], entries[i])
  BY <1>1, ZenonT(40) DEF Advanced
<1>3. i \in 1..Len(entries)
  BY <1>1, <1>2, ZenonT(40)
<1>4. entries[i].target \in Pcs
  BY <1>2, ZenonT(40) DEF Advances, EntryType
<1> QED
  BY <1>1, <1>2, <1>3, <1>4, CutIs, ZenonT(40)

LEMMA RecoverSInv ==
  ASSUME SInv, NEW entries, Advanced(entries), NEW stream \in Streams,
         NEW drains \in Drains, Recover(entries, stream, drains)
  PROVE  SInv'
<1>t. Types
  BY ZenonT(40) DEF SInv
<1>1. PICK i \in mispredicted(entries) :
        /\ rob' = [SubSeq(entries, 1, i) EXCEPT ![i].state = "complete"]
        /\ fetchPc' = entries[i].target
  BY ZenonT(40) DEF Recover
<1>2. /\ serializing' = serializingNext(accepted(stream))
      /\ undrained' = undrained - drains /\ CsrClock(entries, 0)
      /\ program' = program /\ arch' = arch
  BY ZenonT(40) DEF Recover
<1>3. /\ i \in 1..Len(rob) /\ Cut(rob', entries, i)
      /\ rob[i].kind \in {"branch", "mret"} /\ entries[i].target \in Pcs
  BY <1>t, <1>1, RecoverRob, ZenonT(40)
<1>4. rob' \in Seq(EntryType) /\ Len(rob') = i
  BY <1>3, ZenonT(40) DEF Cut
<1>5. Len(rob) \in Nat /\ Len(rob) <= RobDepth /\ RobDepth \in Nat
  BY <1>t, SerializeAssumption DEF Types
<1>6. Len(rob') <= RobDepth /\ Len(rob') <= Len(rob)
  BY <1>3, <1>4, <1>5
<1>7. undrained' \in 0..SbDepth /\ (undrained = 0 => undrained' = 0)
  BY <1>t, <1>2, SerializeAssumption DEF Types, Drains
<1>8. serializing' \in BOOLEAN
  BY <1>t, <1>2, ZenonT(40) DEF serializingNext, Types
<1>9. /\ mepc' \in Pcs /\ minstret' \in 0..(InstretMod - 1)
      /\ mie' \in BOOLEAN /\ mpie' \in BOOLEAN
  <2>1. 0 \in 0..2
    OBVIOUS
  <2> QED
    BY <1>t, <1>2, <2>1, CsrTypes, ZenonT(40)
<1>10. Types'
  <2>1. fetchPc' \in Pcs
    BY <1>1, <1>3, ZenonT(40)
  <2>2. program' \in [Pcs -> Kinds] /\ arch' \in ArchType
    BY <1>t, <1>2, ZenonT(40) DEF Types
  <2> QED
    BY <1>4, <1>6, <1>7, <1>8, <1>9, <2>1, <2>2, ZenonT(40) DEF Types
<1>11. ASSUME NEW j \in 1..Len(rob'), startsSerialization(rob'[j].kind)
       PROVE  j = 1 /\ Len(rob') <= 2 /\ undrained' = 0 /\ serializing'
  <2>1. j \in 1..Len(rob) /\ (j = i \/ j \in 1..(i - 1))
    BY <1>3, <1>4, <1>5
  <2>2. rob'[j].kind = entries[j].kind
    BY <1>3, <2>1, ZenonT(40) DEF Cut
  <2>3. entries[j].kind = rob[j].kind
    BY <2>1, ZenonT(40) DEF Advanced, Advances
  <2>4. j = 1 /\ Len(rob) <= 2 /\ undrained = 0 /\ serializing
    BY <1>11, <2>1, <2>2, <2>3, ZenonT(40) DEF SInv, SerializedComesFirst
  <2>5. rob # <<>>
    BY <2>1
  <2>6. Len(rob') <= 2
    BY <1>3, <1>4, <1>5, <2>4
  <2> QED
    BY <1>2, <1>7, <2>4, <2>5, <2>6, ZenonT(40) DEF serializingNext
<1> QED
  BY <1>10, <1>11, ZenonT(40) DEF SInv, SerializedComesFirst

LEMMA TrapSInv ==
  ASSUME SInv, NEW drains \in Drains, Trap(drains)
  PROVE  SInv'
<1>t. Types
  BY ZenonT(40) DEF SInv
<1>1. /\ rob # <<>> /\ rob' = <<>> /\ serializing' = FALSE /\ fetchPc' = TrapVector
      /\ undrained' = undrained - drains
      /\ mepc' = rob[1].pc /\ mpie' = mie /\ mie' = FALSE /\ minstret' = minstret
      /\ arch' = [arch EXCEPT !.pc = TrapVector, !.mepc = arch.pc,
                              !.mpie = arch.mie, !.mie = FALSE]
      /\ program' = program
  BY ZenonT(40) DEF Trap, trapValid
<1>2. TrapVector \in Pcs
  BY SerializeAssumption
<1>3. 1 \in 1..Len(rob)
  BY <1>t, <1>1 DEF Types
<1>4. rob[1] \in EntryType
  BY <1>t, <1>3, Entries, ZenonT(40)
<1>5. rob[1].pc \in Pcs
  BY <1>4, ZenonT(40) DEF EntryType
<1>6. arch' \in ArchType
  BY <1>t, <1>1, <1>2, ZenonT(40) DEF Types, ArchType
<1>7. undrained' \in 0..SbDepth
  BY <1>t, <1>1, SerializeAssumption DEF Types, Drains
<1>8. rob' \in Seq(EntryType) /\ Len(rob') <= RobDepth /\ 1..Len(rob') = {}
  BY <1>1, SerializeAssumption
<1>9. Types'
  BY <1>t, <1>1, <1>2, <1>5, <1>6, <1>7, <1>8, ZenonT(40) DEF Types
<1>10. SerializedComesFirst'
  BY <1>8, ZenonT(40) DEF SerializedComesFirst
<1> QED
  BY <1>9, <1>10, ZenonT(40) DEF SInv

LEMMA InitSInv ==
  ASSUME Init
  PROVE  SInv
<1>1. 0 \in Pcs /\ 0 \in 0..(InstretMod - 1) /\ 0 \in 0..SbDepth
  BY SerializeAssumption DEF Pcs
<1>2. rob \in Seq(EntryType) /\ Len(rob) <= RobDepth /\ 1..Len(rob) = {}
  BY SerializeAssumption DEF Init
<1>3. arch \in ArchType
  BY <1>1, ZenonT(40) DEF Init, ArchType
<1>4. Types
  BY <1>1, <1>2, <1>3, ZenonT(40) DEF Init, Types
<1> QED
  BY <1>2, <1>4, ZenonT(40) DEF SInv, SerializedComesFirst

LEMMA StutterSInv ==
  ASSUME SInv, UNCHANGED vars
  PROVE  SInv'
BY ZenonT(40) DEF SInv, Types, SerializedComesFirst, vars

LEMMA NextSInv ==
  ASSUME SInv, [Next]_vars
  PROVE  SInv'
<1>t. Types
  BY ZenonT(40) DEF SInv
<1>1. ASSUME NEW drains \in Drains, NEW entries \in Outcomes, NEW stream \in Streams,
             Recover(entries, stream, drains) \/ \E n \in RetireCounts : Clock(entries, stream, n, drains)
      PROVE  SInv'
  <2>1. Advanced(entries)
    BY <1>t, OutcomesAdvance, ZenonT(40)
  <2> QED
    BY <1>t, <1>1, <2>1, RecoverSInv, ClockTypes, ClockSerialized, ZenonT(40) DEF SInv
<1>2. CASE Next
  BY <1>1, <1>2, TrapSInv, ZenonT(40) DEF Next, Drains
<1> QED
  BY <1>2, StutterSInv, ZenonT(40)

\* A serialized instruction starts on a drained machine, for every program,
\* MRET included, and every size.
THEOREM SerializedStaysFirst == Spec => []SerializedComesFirst
<1>1. Init => SInv
  BY InitSInv, ZenonT(40)
<1>2. SInv /\ [Next]_vars => SInv'
  BY NextSInv, ZenonT(40)
<1>3. SInv => SerializedComesFirst
  BY ZenonT(40) DEF SInv
<1> QED
  BY <1>1, <1>2, <1>3, PTL DEF Spec

--------------------------------------------------------------------------------
(* Paths.                                                                      *)

LEMMA TrackSame ==
  ASSUME NEW q, NEW c \in Nat, NEW a, NEW f, Track(q, c, a, f), NEW r,
         \A i \in 1..c : r[i].pc = q[i].pc /\ Goes(r[i]) = Goes(q[i])
  PROVE  Track(r, c, a, f)
<1>1. ASSUME NEW i \in 1..(c + 1) PROVE From(r, a, i) = From(q, a, i)
  <2>1. i # 1 => i - 1 \in 1..c
    OBVIOUS
  <2> QED
    BY <2>1, ZenonT(40) DEF From
<1>2. c + 1 \in 1..(c + 1) /\ \A i \in 1..c : i \in 1..(c + 1)
  OBVIOUS
<1> QED
  BY <1>1, <1>2, ZenonT(40) DEF Track

\* Without its first k entries it is still a path.
LEMMA TrackSheds ==
  ASSUME NEW q, NEW c \in Nat, NEW a, NEW f, Track(q, c, a, f), NEW k \in 0..c,
         NEW r, \A i \in 1..(c - k) : r[i] = q[k + i], NEW b, b = From(q, a, k + 1)
  PROVE  Track(r, c - k, b, f)
<1>1. ASSUME NEW i \in 1..((c - k) + 1) PROVE From(r, b, i) = From(q, a, k + i)
  <2>1. CASE i = 1
    BY <2>1, ZenonT(40) DEF From
  <2>2. CASE i # 1
    <3>1. i - 1 \in 1..(c - k) /\ k + (i - 1) = (k + i) - 1 /\ k + i # 1
      BY <2>2
    <3>2. r[i - 1] = q[(k + i) - 1]
      BY <3>1
    <3> QED
      BY <2>2, <3>1, <3>2, ZenonT(40) DEF From
  <2> QED
    BY <2>1, <2>2, ZenonT(40)
<1>2. ASSUME NEW i \in 1..(c - k) PROVE r[i].pc = From(r, b, i)
  <2>1. i \in 1..((c - k) + 1) /\ k + i \in 1..c
    OBVIOUS
  <2> QED
    BY <1>1, <2>1, ZenonT(40) DEF Track
<1>3. f = From(r, b, (c - k) + 1)
  <2>1. (c - k) + 1 \in 1..((c - k) + 1) /\ k + ((c - k) + 1) = c + 1
    OBVIOUS
  <2> QED
    BY <1>1, <2>1, ZenonT(40) DEF Track
<1> QED
  BY <1>2, <1>3, ZenonT(40) DEF Track

\* It goes on with an entry for the address it leads to.
LEMMA TrackGrows ==
  ASSUME NEW q, NEW c \in Nat, NEW a, NEW f, Track(q, c, a, f), NEW w, q[c + 1] = w, w.pc = f
  PROVE  Track(q, c + 1, a, Goes(w))
<1>1. ASSUME NEW i \in 1..(c + 1) PROVE q[i].pc = From(q, a, i)
  <2>1. i = c + 1 \/ i \in 1..c
    OBVIOUS
  <2> QED
    BY <2>1, ZenonT(40) DEF Track
<1>2. Goes(w) = From(q, a, (c + 1) + 1)
  <2>1. (c + 1) + 1 # 1 /\ ((c + 1) + 1) - 1 = c + 1
    OBVIOUS
  <2> QED
    BY <2>1, ZenonT(40) DEF From
<1> QED
  BY <1>1, <1>2, ZenonT(40) DEF Track

\* It may end with any of its entries.
LEMMA TrackEnds ==
  ASSUME NEW q, NEW c \in Nat, NEW a, NEW f, Track(q, c, a, f), NEW i \in 1..c,
         NEW r, r[i].pc = q[i].pc,
         \A j \in 1..(i - 1) : r[j].pc = q[j].pc /\ Goes(r[j]) = Goes(q[j])
  PROVE  Track(r, i, a, Goes(r[i]))
<1>1. i \in Nat /\ i - 1 \in Nat /\ (i - 1) + 1 = i /\ i + 1 # 1 /\ (i + 1) - 1 = i
  OBVIOUS
<1>2. ASSUME NEW j \in 1..i PROVE From(r, a, j) = From(q, a, j)
  <2>1. j # 1 => j - 1 \in 1..(i - 1)
    OBVIOUS
  <2> QED
    BY <2>1, ZenonT(40) DEF From
<1>3. \A j \in 1..i : j \in 1..c /\ (j = i \/ j \in 1..(i - 1))
  OBVIOUS
<1>4. \A j \in 1..i : r[j].pc = From(r, a, j)
  BY <1>2, <1>3, ZenonT(40) DEF Track
<1>5. Goes(r[i]) = From(r, a, i + 1)
  BY <1>1, ZenonT(40) DEF From
<1> QED
  BY <1>4, <1>5, ZenonT(40) DEF Track

--------------------------------------------------------------------------------
(* Program order, in programs without MRET.                                    *)

NoMret == "mret" \notin Kinds

\* An entry that is not mispredicted leads where it led before.
LEMMA Leads ==
  ASSUME NoMret, Types, Chain, NEW entries, Advanced(entries), NEW i \in 1..Len(rob),
         i \notin mispredicted(entries)
  PROVE  /\ Goes(entries[i]) = Goes(rob[i]) /\ entries[i].pc = rob[i].pc
         /\ entries[i].kind # "branch" => entries[i].predicted = entries[i].target
<1> DEFINE e == rob[i]
           f == entries[i]
<1>1. Advances(e, f)
  BY ZenonT(40) DEF Advanced
<1>2. e \in EntryType
  BY Entries, ZenonT(40)
<1>3. e.kind # "mret"
  BY <1>2, ZenonT(40) DEF EntryType, NoMret
<1>4. e.kind # "branch" => e.predicted = e.target
  BY ZenonT(40) DEF Chain
<1>5. e.state = "iq" /\ f.state = "issued" /\ e.kind = "branch" => f.target = e.predicted
  BY ZenonT(40) DEF mispredicted
<1> HIDE DEF e, f
<1>6. CASE f = e
  BY <1>1, <1>4, <1>6, ZenonT(40) DEF Goes, e, f
<1>7. CASE /\ e.state = "iq" /\ f.state = "issued"
           /\ e.kind \notin {"branch", "mret"} => f.target = e.target
  <2>1. "iq" # "issued"
    OBVIOUS
  <2>2. f.target = e.predicted
    BY <1>3, <1>4, <1>5, <1>7, ZenonT(40)
  <2>3. Goes(f) = f.target /\ Goes(e) = e.predicted
    BY <1>7, <2>1, ZenonT(40) DEF Goes
  <2> QED
    BY <1>1, <2>2, <2>3, ZenonT(40) DEF Advances, e, f
<1>8. CASE e.state = "issued" /\ f.state \in {"complete", "exception"} /\ f.target = e.target
  <2>1. "issued" # "iq" /\ "complete" # "iq" /\ "exception" # "iq"
    OBVIOUS
  <2>2. Goes(f) = f.target /\ Goes(e) = e.target
    BY <1>8, <2>1, ZenonT(40) DEF Goes
  <2> QED
    BY <1>1, <1>4, <1>8, <2>2, ZenonT(40) DEF Advances, e, f
<1> QED
  BY <1>1, <1>6, <1>7, <1>8, ZenonT(40) DEF Advances

\* The observer goes on where the last retired instruction leads.
LEMMA RetiredPc ==
  ASSUME NoMret, Types, NEW n \in RetireCounts
  PROVE  After(arch, n).pc = From(rob, arch.pc, n + 1)
<1>1. n \in 0..2 /\ n <= Len(rob) /\ \A i \in 1..n : rob[i].state = "complete"
  BY Retires, ZenonT(40)
<1>2. "complete" # "iq" /\ arch \in ArchType /\ Len(rob) \in Nat
  BY DEF Types
<1>3. ASSUME NEW a \in ArchType, NEW i \in 1..n PROVE Step(a, rob[i]).pc = Goes(rob[i])
  <2>1. i \in 1..Len(rob)
    BY <1>1, <1>2
  <2>2. rob[i] \in EntryType /\ rob[i].state = "complete"
    BY <1>1, <2>1, Entries, ZenonT(40)
  <2>3. rob[i].kind # "mret"
    BY <2>2, ZenonT(40) DEF EntryType, NoMret
  <2> QED
    BY <2>2, <2>3, <1>2, ZenonT(40) DEF Step, Goes, ArchType
<1>4. CASE n = 0
  <2>1. n + 1 = 1
    BY <1>4
  <2> QED
    BY <1>4, <2>1, ZenonT(40) DEF After, From
<1>5. CASE n = 1
  <2>1. n + 1 # 1 /\ (n + 1) - 1 = 1 /\ 1 \in 1..n /\ n # 0
    BY <1>5
  <2> QED
    BY <1>2, <1>3, <1>5, <2>1, ZenonT(40) DEF After, From
<1>6. CASE n = 2
  <2>1. n + 1 # 1 /\ (n + 1) - 1 = 2 /\ 1 \in 1..n /\ 2 \in 1..n /\ n # 0 /\ n # 1 /\ 1 \in 1..Len(rob)
    BY <1>1, <1>2, <1>6
  <2>2. Step(arch, rob[1]) \in ArchType
    BY <1>2, <2>1, Entries, StepType, ZenonT(40)
  <2> QED
    BY <1>3, <1>6, <2>1, <2>2, ZenonT(40) DEF After, From
<1> QED
  BY <1>1, <1>4, <1>5, <1>6

\* What dispatch appends waits in the issue queue.
LEMMA LanesWait ==
  ASSUME Types, NEW lanes, Admitted(lanes)
  PROVE  \A j \in 1..Len(lanes) : lanes[j].state = "iq"
<1>0. fetchPc \in Pcs
  BY ZenonT(40) DEF Types
<1>1. CASE lanes = <<>>
  BY <1>1
<1>2. ASSUME NEW p \in Predictions(fetchPc), lanes = <<robEntry(fetchPc, p)>>
      PROVE  \A j \in 1..Len(lanes) : lanes[j].state = "iq"
  <2>2. Fresh(robEntry(fetchPc, p), fetchPc, p)
    BY <1>0, EntryIs, ZenonT(40)
  <2>1. robEntry(fetchPc, p).state = "iq"
    BY <2>2, ZenonT(40) DEF Fresh
  <2> QED
    BY <1>2, <2>1
<1>3. ASSUME NEW p \in Predictions(fetchPc), NEW s \in Predictions(p),
             lanes = <<robEntry(fetchPc, p), robEntry(p, s)>>
      PROVE  \A j \in 1..Len(lanes) : lanes[j].state = "iq"
  <2>1. Fresh(robEntry(fetchPc, p), fetchPc, p)
    BY <1>0, EntryIs, ZenonT(40)
  <2>2. p \in Pcs
    BY <2>1, ZenonT(40) DEF Fresh
  <2>3. Fresh(robEntry(p, s), p, s)
    BY <2>2, EntryIs, ZenonT(40)
  <2>4. robEntry(fetchPc, p).state = "iq" /\ robEntry(p, s).state = "iq"
    BY <2>1, <2>3, ZenonT(40) DEF Fresh
  <2> QED
    BY <1>3, <2>4
<1> QED
  BY <1>1, <1>2, <1>3, ZenonT(40) DEF Admitted

\* What dispatch appends goes on from where fetch was.
LEMMA LanesTrack ==
  ASSUME NoMret, Types, NEW lanes, Admitted(lanes), NEW r, NEW c \in Nat, NEW a,
         Track(r, c, a, fetchPc), \A j \in 1..Len(lanes) : r[c + j] = lanes[j]
  PROVE  /\ Track(r, c + Len(lanes), a, fetchAfter(lanes))
         /\ \A j \in 1..Len(lanes) : lanes[j].kind # "branch" => lanes[j].predicted = lanes[j].target
<1>0. fetchPc \in Pcs /\ \A pc \in Pcs : program[pc] # "mret"
  BY ZenonT(40) DEF Types, NoMret
<1>1. CASE lanes = <<>>
  <2>1. Len(lanes) = 0 /\ c + Len(lanes) = c /\ 1..Len(lanes) = {}
    BY <1>1
  <2> QED
    BY <1>1, <2>1, ZenonT(40) DEF fetchAfter
<1>2. ASSUME NEW p \in Predictions(fetchPc), lanes = <<robEntry(fetchPc, p)>>
      PROVE  /\ Track(r, c + Len(lanes), a, fetchAfter(lanes))
             /\ \A j \in 1..Len(lanes) : lanes[j].kind # "branch" => lanes[j].predicted = lanes[j].target
  <2>1. Fresh(lanes[1], fetchPc, p) /\ Len(lanes) = 1 /\ lanes # <<>>
    BY <1>0, <1>2, EntryIs
  <2>2. 1 \in 1..Len(lanes) /\ \A j \in 1..Len(lanes) : j = 1
    BY <2>1
  <2>3. /\ lanes[1].pc = fetchPc /\ lanes[1].predicted = p /\ lanes[1].state = "iq"
        /\ lanes[1].kind # "branch" => lanes[1].predicted = lanes[1].target
    BY <1>0, <2>1, ZenonT(40) DEF Fresh
  <2>4. Track(r, c + 1, a, Goes(lanes[1]))
    BY <2>2, <2>3, TrackGrows, ZenonT(40)
  <2>5. fetchAfter(lanes) = Goes(lanes[1])
    BY <2>1, <2>3, ZenonT(40) DEF fetchAfter, Goes
  <2> QED
    BY <2>1, <2>2, <2>3, <2>4, <2>5, ZenonT(40)
<1>3. ASSUME NEW p \in Predictions(fetchPc), NEW s \in Predictions(p),
             lanes = <<robEntry(fetchPc, p), robEntry(p, s)>>
      PROVE  /\ Track(r, c + Len(lanes), a, fetchAfter(lanes))
             /\ \A j \in 1..Len(lanes) : lanes[j].kind # "branch" => lanes[j].predicted = lanes[j].target
  <2>10. Fresh(robEntry(fetchPc, p), fetchPc, p)
    BY <1>0, EntryIs, ZenonT(40)
  <2>0. Fresh(robEntry(fetchPc, p), fetchPc, p) /\ p \in Pcs
    BY <2>10, ZenonT(40) DEF Fresh
  <2>9. Fresh(robEntry(p, s), p, s)
    BY <2>0, EntryIs, ZenonT(40)
  <2>1. /\ lanes[1] = robEntry(fetchPc, p) /\ lanes[2] = robEntry(p, s)
        /\ Len(lanes) = 2 /\ lanes # <<>>
    BY <1>3
  <2>2. 1 \in 1..Len(lanes) /\ 2 \in 1..Len(lanes) /\ \A j \in 1..Len(lanes) : j = 1 \/ j = 2
    BY <2>1
  <2>3. /\ lanes[1].pc = fetchPc /\ lanes[1].predicted = p /\ lanes[1].state = "iq"
        /\ lanes[1].kind # "branch" => lanes[1].predicted = lanes[1].target
        /\ lanes[2].pc = p /\ lanes[2].predicted = s /\ lanes[2].state = "iq"
        /\ lanes[2].kind # "branch" => lanes[2].predicted = lanes[2].target
    BY <1>0, <2>0, <2>9, <2>1, ZenonT(40) DEF Fresh
  <2>4. Track(r, c + 1, a, Goes(lanes[1]))
    BY <2>2, <2>3, TrackGrows, ZenonT(40)
  <2>5. Goes(lanes[1]) = p /\ fetchAfter(lanes) = Goes(lanes[2])
    BY <2>1, <2>3, ZenonT(40) DEF fetchAfter, Goes
  <2>6. c + 1 \in Nat /\ (c + 1) + 1 = c + 2
    OBVIOUS
  <2>7. r[(c + 1) + 1] = lanes[2] /\ lanes[2].pc = Goes(lanes[1])
    BY <2>2, <2>3, <2>5, <2>6, ZenonT(40)
  <2>8. Track(r, (c + 1) + 1, a, Goes(lanes[2]))
    <3> DEFINE d == c + 1
    <3>1. d \in Nat /\ Track(r, d, a, Goes(lanes[1])) /\ r[d + 1] = lanes[2]
      BY <2>4, <2>6, <2>7, ZenonT(40)
    <3> HIDE DEF d
    <3>2. Track(r, d + 1, a, Goes(lanes[2]))
      BY <3>1, <2>7, TrackGrows, ZenonT(40)
    <3> QED
      BY <3>2, ZenonT(40) DEF d
  <2>11. Track(r, c + Len(lanes), a, fetchAfter(lanes))
    BY <2>1, <2>5, <2>6, <2>8, ZenonT(40)
  <2> QED
    BY <2>2, <2>3, <2>11, ZenonT(40)
<1> QED
  BY <1>1, <1>2, <1>3, ZenonT(40) DEF Admitted

LEMMA ClockChain ==
  ASSUME NoMret, Types, Chain, NEW entries, Advanced(entries), NEW stream \in Streams,
         NEW n \in RetireCounts, NEW drains \in Drains, Clock(entries, stream, n, drains)
  PROVE  Chain'
<1> DEFINE lanes == accepted(stream)
           c == Len(rob)
<1>1. /\ rob' = SubSeq(entries, n + 1, Len(rob)) \o lanes /\ mispredicted(entries) = {}
      /\ fetchPc' = fetchAfter(lanes) /\ arch' = After(arch, n)
  BY ZenonT(40) DEF Clock
<1>2. Admitted(lanes)
  BY Dispatches, ZenonT(40)
<1>3. Shifted(rob', entries, n, lanes)
  BY <1>1, <1>2, ClockRob, ZenonT(40)
<1>4. Len(entries) = c /\ c \in Nat /\ n \in 0..c /\ Len(lanes) \in Nat
  <2>1. n \in 0..c /\ Len(entries) = c
    BY Retires, ZenonT(40) DEF Advanced
  <2>2. Len(lanes) \in 0..2
    BY <1>2, LanesAre, ZenonT(40)
  <2> QED
    BY <2>1, <2>2 DEF Types
<1>5. \A i \in 1..c : /\ entries[i].pc = rob[i].pc /\ Goes(entries[i]) = Goes(rob[i])
                      /\ entries[i].kind # "branch" => entries[i].predicted = entries[i].target
  BY <1>1, Leads, ZenonT(40)
<1>6. Track(entries, c, arch.pc, fetchPc)
  BY <1>4, <1>5, TrackSame, ZenonT(40) DEF Chain
<1>7. arch'.pc = From(entries, arch.pc, n + 1)
  <2>1. arch'.pc = From(rob, arch.pc, n + 1)
    BY <1>1, RetiredPc, ZenonT(40)
  <2>2. n + 1 # 1 => (n + 1) - 1 \in 1..c
    BY <1>4
  <2> QED
    BY <2>1, <2>2, <1>5, ZenonT(40) DEF From
<1> HIDE DEF lanes, c
<1>8. /\ Len(rob') = (c - n) + Len(lanes) /\ \A i \in 1..(c - n) : rob'[i] = entries[n + i]
      /\ \A j \in 1..Len(lanes) : rob'[(c - n) + j] = lanes[j]
  BY <1>3, <1>4, ZenonT(40) DEF Shifted
<1>9. Track(rob', c - n, arch'.pc, fetchPc)
  BY <1>4, <1>6, <1>7, <1>8, TrackSheds, ZenonT(40)
<1>10. c - n \in Nat
  BY <1>4
<1>11. /\ Track(rob', (c - n) + Len(lanes), arch'.pc, fetchAfter(lanes))
       /\ \A j \in 1..Len(lanes) : lanes[j].kind # "branch" => lanes[j].predicted = lanes[j].target
  BY <1>2, <1>8, <1>9, <1>10, LanesTrack, ZenonT(40)
<1>12. ASSUME NEW i \in 1..Len(rob') PROVE rob'[i].kind # "branch" => rob'[i].predicted = rob'[i].target
  <2>1. CASE i \in 1..(c - n)
    <3>1. n + i \in 1..c
      BY <2>1, <1>4
    <3>2. rob'[i] = entries[n + i]
      BY <2>1, <1>8, ZenonT(40)
    <3> QED
      BY <3>1, <3>2, <1>5, ZenonT(40)
  <2>2. CASE i \notin 1..(c - n)
    <3>1. i - (c - n) \in 1..Len(lanes) /\ (c - n) + (i - (c - n)) = i
      BY <2>2, <1>4, <1>8
    <3>2. rob'[i] = lanes[i - (c - n)]
      BY <3>1, <1>8, ZenonT(40)
    <3> QED
      BY <3>1, <3>2, <1>11, ZenonT(40)
  <2> QED
    BY <2>1, <2>2, ZenonT(40)
<1> QED
  BY <1>1, <1>8, <1>11, <1>12, ZenonT(40) DEF Chain

LEMMA RecoverChain ==
  ASSUME NoMret, Types, Chain, NEW entries, Advanced(entries), NEW stream \in Streams,
         NEW drains \in Drains, Recover(entries, stream, drains)
  PROVE  Chain'
<1>1. PICK i \in mispredicted(entries) :
        /\ rob' = [SubSeq(entries, 1, i) EXCEPT ![i].state = "complete"]
        /\ fetchPc' = entries[i].target
  BY ZenonT(40) DEF Recover
<1>2. arch' = arch /\ \A j \in mispredicted(entries) : j = i
  BY ZenonT(40) DEF Recover, Advanced
<1>13. Len(rob) \in Nat
  BY DEF Types
<1>3. /\ i \in 1..Len(rob) /\ Cut(rob', entries, i) /\ Len(rob) \in Nat
      /\ rob[i].kind \in {"branch", "mret"} /\ entries[i].state = "issued"
  BY <1>1, <1>13, RecoverRob, ZenonT(40)
<1>4. \A j \in 1..(i - 1) : j \in 1..Len(rob) /\ j # i
  BY <1>3
<1>5. \A j \in 1..(i - 1) : /\ entries[j].pc = rob[j].pc /\ Goes(entries[j]) = Goes(rob[j])
                            /\ entries[j].kind # "branch" => entries[j].predicted = entries[j].target
  BY <1>2, <1>4, Leads, ZenonT(40)
<1>6. entries[i].pc = rob[i].pc /\ rob[i].kind = "branch" /\ entries[i].kind = "branch"
  <2>1. Advances(rob[i], entries[i]) /\ rob[i] \in EntryType
    BY <1>3, Entries, ZenonT(40) DEF Advanced
  <2>2. rob[i].kind # "mret"
    BY <2>1, ZenonT(40) DEF EntryType, NoMret
  <2> QED
    BY <1>3, <2>1, <2>2, ZenonT(40) DEF Advances
<1>7. /\ Len(rob') = i /\ rob'[i].pc = rob[i].pc /\ rob'[i].kind = "branch"
      /\ rob'[i].state = "complete" /\ rob'[i].target = entries[i].target
      /\ \A j \in 1..(i - 1) : rob'[j] = entries[j]
  BY <1>3, <1>6, ZenonT(40) DEF Cut
<1>8. Track(rob', i, arch.pc, Goes(rob'[i]))
  <2>1. Track(rob, Len(rob), arch.pc, fetchPc)
    BY ZenonT(40) DEF Chain
  <2>2. \A j \in 1..(i - 1) : rob'[j].pc = rob[j].pc /\ Goes(rob'[j]) = Goes(rob[j])
    BY <1>5, <1>7, ZenonT(40)
  <2>3. rob'[i].pc = rob[i].pc
    BY <1>7, ZenonT(40)
  <2> QED
    BY <1>3, <2>1, <2>2, <2>3, TrackEnds, ZenonT(40)
<1>9. "complete" # "iq"
  OBVIOUS
<1>10. Goes(rob'[i]) = fetchPc'
  BY <1>1, <1>7, <1>9, ZenonT(40) DEF Goes
<1>11. \A j \in 1..i : j = i \/ j \in 1..(i - 1)
  BY <1>3
<1>12. \A j \in 1..Len(rob') : rob'[j].kind # "branch" => rob'[j].predicted = rob'[j].target
  BY <1>5, <1>7, <1>11, ZenonT(40)
<1> QED
  BY <1>2, <1>7, <1>8, <1>10, <1>12, ZenonT(40) DEF Chain

--------------------------------------------------------------------------------
(* The CSR file, in programs without MRET.                                     *)

\* Adding one twice is adding two, also where the counter wraps.
LEMMA TwoSteps ==
  ASSUME NEW M \in Nat \ {0}, NEW m \in 0..(M - 1)
  PROVE  /\ (m + 0) % M = m
         /\ (((m + 1) % M) + 1) % M = (m + 2) % M
<1>1. CASE m + 1 < M
  <2>1. (m + 1) % M = m + 1 /\ (m + 0) % M = m
    BY <1>1
  <2>2. (m + 1) + 1 = m + 2
    OBVIOUS
  <2> QED
    BY <2>1, <2>2, ZenonT(40)
<1>2. CASE m + 1 = M
  <2>1. (m + 1) % M = 0 /\ (m + 0) % M = m
    BY <1>2
  <2>2. (m + 2) % M = 1 % M
    <3>1. m + 2 = M + 1
      BY <1>2
    <3>2. (M + 1) % M = 1 % M
      <4>1. CASE M = 1
        BY <4>1
      <4>2. CASE M > 1
        BY <4>2
      <4> QED
        BY <4>1, <4>2
    <3> QED
      BY <3>1, <3>2, ZenonT(40)
  <2>3. 0 + 1 = 1
    OBVIOUS
  <2> QED
    BY <2>1, <2>2, <2>3, ZenonT(40)
<1> QED
  BY <1>1, <1>2

\* What an instruction other than MRET does to them.
Did(b, a, e) ==
    /\ b.minstret = (a.minstret + 1) % InstretMod /\ b.mie = a.mie /\ b.mpie = a.mpie
    /\ b.mepc = (IF e.kind = "mepc" THEN CsrData ELSE a.mepc) /\ b \in ArchType

\* What the retired instructions do to the CSRs.
LEMMA RetiredCsrs ==
  ASSUME NoMret, SInv, NEW n \in RetireCounts
  PROVE  /\ After(arch, n).minstret = (arch.minstret + n) % InstretMod
         /\ After(arch, n).mie = arch.mie /\ After(arch, n).mpie = arch.mpie
         /\ After(arch, n).mepc =
               IF n # 0 /\ rob[1].kind = "mepc" THEN CsrData ELSE arch.mepc
<1>t. Types /\ SerializedComesFirst
  BY ZenonT(40) DEF SInv
<1>1. n \in 0..2 /\ n <= Len(rob)
  BY <1>t, Retires, ZenonT(40)
<1>2. arch \in ArchType /\ Len(rob) \in Nat /\ InstretMod \in Nat \ {0}
  BY <1>t, SerializeAssumption DEF Types
<1>3. arch.minstret \in 0..(InstretMod - 1)
  BY <1>2, ZenonT(40) DEF ArchType
<1>4. ASSUME NEW a \in ArchType, NEW i \in 1..n
      PROVE  Did(Step(a, rob[i]), a, rob[i])
  <2>1. i \in 1..Len(rob)
    BY <1>1, <1>2
  <2>2. rob[i] \in EntryType
    BY <1>t, <2>1, Entries, ZenonT(40)
  <2>3. rob[i].kind # "mret"
    BY <2>2, ZenonT(40) DEF EntryType, NoMret
  <2>4. Step(a, rob[i]) \in ArchType
    BY <1>t, <2>2, StepType, ZenonT(40)
  <2>5. (a.mpie \/ rob[i].kind = "mret") = a.mpie
    BY <2>3, ZenonT(40) DEF ArchType
  <2> QED
    BY <2>3, <2>4, <2>5, ZenonT(40) DEF Step, ArchType, Did
<1>5. CASE n = 0
  BY <1>2, <1>3, <1>5, TwoSteps, ZenonT(40) DEF After
<1>6. CASE n = 1
  <2>1. 1 \in 1..n /\ n # 0
    BY <1>6
  <2>2. After(arch, n) = Step(arch, rob[1])
    BY <1>6, <2>1, ZenonT(40) DEF After
  <2>3. Did(After(arch, n), arch, rob[1])
    BY <1>2, <1>4, <2>1, <2>2, ZenonT(40)
  <2> QED
    BY <1>6, <2>1, <2>3, ZenonT(40) DEF Did
<1>7. CASE n = 2
  <2>1. 1 \in 1..n /\ 2 \in 1..n /\ n # 0 /\ n # 1 /\ 2 \in 1..Len(rob) /\ 2 # 1
    BY <1>1, <1>2, <1>7
  <2>2. After(arch, n) = Step(Step(arch, rob[1]), rob[2])
    BY <1>7, <2>1, ZenonT(40) DEF After
  <2>6. Did(Step(arch, rob[1]), arch, rob[1])
    BY <1>2, <1>4, <2>1, ZenonT(40)
  <2>3. Step(arch, rob[1]) \in ArchType
    BY <2>6, ZenonT(40) DEF Did
  <2>7. Did(After(arch, n), Step(arch, rob[1]), rob[2])
    BY <1>4, <2>1, <2>2, <2>3, ZenonT(40)
  <2>4. rob[2].kind # "mepc"
    BY <1>t, <2>1, ZenonT(40) DEF SerializedComesFirst, startsSerialization, isCsr
  <2>5. /\ After(arch, n).mie = arch.mie /\ After(arch, n).mpie = arch.mpie
        /\ After(arch, n).mepc = IF rob[1].kind = "mepc" THEN CsrData ELSE arch.mepc
        /\ After(arch, n).minstret = (((arch.minstret + 1) % InstretMod) + 1) % InstretMod
    BY <2>4, <2>6, <2>7, ZenonT(40) DEF Did
  <2> QED
    BY <1>2, <1>3, <1>7, <2>1, <2>5, TwoSteps, ZenonT(40)
<1> QED
  BY <1>1, <1>5, <1>6, <1>7

\* The j-th entry of the ROB after a step that retires n: the same instruction
\* as before or one that has just been dispatched.
Like(f, e) == f.kind = e.kind /\ f.read = e.read /\ (f.state = "iq" <=> e.state = "iq")
Comes(entries, n, j) ==
    \/ n + j \in 1..Len(rob) /\ Like(rob'[j], entries[n + j])
    \/ n + j \notin 1..Len(rob) /\ rob'[j].state = "iq"

LEMMA CsrStep ==
  ASSUME NoMret, IInv, NEW entries, Advanced(entries), NEW n \in RetireCounts,
         CsrClock(entries, n), arch' = After(arch, n),
         Len(rob') \in Nat, rob' # <<>> => Len(rob') > 0,
         \A j \in 1..Len(rob') : Comes(entries, n, j),
         rob # <<>> /\ n = 0 => rob' # <<>>
  PROVE  CsrOK'
<1>t. Types /\ SerializedComesFirst /\ SInv /\ CsrOK
  BY ZenonT(40) DEF IInv, SInv
<1>1. n \in 0..2 /\ n <= Len(rob) /\ \A i \in 1..n : rob[i].state = "complete"
  BY <1>t, Retires, ZenonT(40)
<1>2. Len(rob) \in Nat /\ (rob # <<>> => 1 \in 1..Len(rob)) /\ (1 \in 1..Len(rob) => rob # <<>>)
  BY <1>t DEF Types
<1>3. \A i \in 1..Len(rob) : rob[i] \in EntryType /\ rob[i].kind # "mret"
  BY <1>t, Entries, ZenonT(40) DEF EntryType, NoMret
<1>4. ~retires(n, "mret")
  <2>1. \A i \in 1..n : i \in 1..Len(rob)
    BY <1>1, <1>2
  <2> QED
    BY <1>3, <2>1, ZenonT(40) DEF retires
<1>5. /\ minstret' = (minstret + n) % InstretMod /\ mie' = mie /\ mpie' = mpie
      /\ mepc' = IF csrWrites(entries) THEN CsrData ELSE mepc
  BY <1>4, ZenonT(40) DEF CsrClock
<1>6. minstret' = arch'.minstret /\ mie' = arch'.mie /\ mpie' = arch'.mpie
  BY <1>t, <1>5, RetiredCsrs, ZenonT(40) DEF CsrOK
<1>7. arch'.mepc = IF n # 0 /\ rob[1].kind = "mepc" THEN CsrData ELSE arch.mepc
  BY <1>t, RetiredCsrs, ZenonT(40)
<1>8. \A i \in 1..Len(rob) : isCsr(rob[i].kind) => i = 1
  BY <1>t, ZenonT(40) DEF SerializedComesFirst, startsSerialization
<1>9. \A i \in 1..Len(rob) : rob[i].kind = "mepc" => i = 1
  BY <1>8, ZenonT(40) DEF isCsr
<1>10. \A i \in 1..Len(rob) : Advances(rob[i], entries[i])
  BY ZenonT(40) DEF Advanced
<1>11. csrWrites(entries) <=> /\ rob # <<>> /\ rob[1].kind = "mepc"
                              /\ rob[1].state = "iq" /\ entries[1].state = "issued"
  BY <1>2, <1>9, ZenonT(40) DEF csrWrites
<1>s. "iq" # "issued" /\ "complete" # "iq" /\ "exception" # "iq" /\ "issued" # "complete"
  OBVIOUS
<1>12. ASSUME NEW j \in 1..Len(rob'), isCsr(rob'[j].kind), rob'[j].state # "iq"
       PROVE  /\ j = 1 /\ n = 0 /\ rob # <<>> /\ Like(rob'[1], entries[1])
  <2>1. n + j \in 1..Len(rob) /\ Like(rob'[j], entries[n + j])
    BY <1>12, ZenonT(40) DEF Comes
  <2>2. isCsr(rob[n + j].kind)
    BY <1>10, <1>12, <2>1, ZenonT(40) DEF Like, Advances
  <2>3. n + j = 1
    BY <1>8, <2>1, <2>2, ZenonT(40)
  <2>4. n = 0 /\ j = 1
    BY <1>1, <2>3
  <2> QED
    BY <1>2, <2>1, <2>3, <2>4, ZenonT(40)
<1>13. \A j \in 1..Len(rob') : isCsr(rob'[j].kind) /\ rob'[j].state # "iq" =>
          rob'[j].read = IF rob'[j].kind = "instret" THEN arch'.minstret ELSE arch'.mepc
  <2> SUFFICES ASSUME NEW j \in 1..Len(rob'), isCsr(rob'[j].kind), rob'[j].state # "iq"
               PROVE  rob'[j].read = IF rob'[j].kind = "instret" THEN arch'.minstret ELSE arch'.mepc
    BY ZenonT(40)
  <2>1. j = 1 /\ n = 0 /\ rob # <<>> /\ Like(rob'[1], entries[1]) /\ 1 \in 1..Len(rob)
    BY <1>12, <1>2, ZenonT(40)
  <2>2. arch' = arch
    BY <2>1, ZenonT(40) DEF After
  <2>3. Advances(rob[1], entries[1])
    BY <1>10, <2>1, ZenonT(40)
  <2>4. /\ rob'[1].read = entries[1].read /\ rob'[1].kind = rob[1].kind
        /\ entries[1].state # "iq" /\ isCsr(rob[1].kind)
    BY <2>1, <2>3, ZenonT(40) DEF Like, Advances
  <2>5. entries[1].read = IF rob[1].kind = "instret" THEN arch.minstret ELSE arch.mepc
    <3>1. CASE rob[1].state # "iq"
      <4>1. entries[1].read = rob[1].read
        BY <2>3, <3>1, ZenonT(40) DEF Advances
      <4> QED
        BY <1>t, <2>1, <2>4, <3>1, <4>1, ZenonT(40) DEF CsrOK
    <3>2. CASE rob[1].state = "iq"
      <4>1. entries[1].read = csrCurrent(rob[1].kind)
        BY <2>3, <2>4, <3>2, <1>s, ZenonT(40) DEF Advances
      <4>2. minstret = arch.minstret /\ mepc = arch.mepc
        BY <1>t, <3>2, ZenonT(40) DEF CsrOK
      <4> QED
        BY <4>1, <4>2, ZenonT(40) DEF csrCurrent
    <3> QED
      BY <3>1, <3>2, ZenonT(40)
  <2> QED
    BY <2>1, <2>2, <2>4, <2>5, ZenonT(40)
<1>14. mepc' = IF rob' # <<>> /\ rob'[1].kind = "mepc" /\ rob'[1].state # "iq"
               THEN CsrData ELSE arch'.mepc
  <2>0. rob' # <<>> => 1 \in 1..Len(rob')
    OBVIOUS
  <2>9. isCsr("mepc")
    BY ZenonT(40) DEF isCsr
  <2>1. CASE rob # <<>> /\ rob[1].kind = "mepc" /\ n = 0
    <3>1. 1 \in 1..Len(rob) /\ 1 \in 1..Len(rob') /\ n + 1 = 1 /\ rob' # <<>>
      BY <1>2, <2>0, <2>1
    <3>2. Like(rob'[1], entries[1]) /\ Advances(rob[1], entries[1])
      BY <1>10, <3>1, ZenonT(40) DEF Comes
    <3>3. rob'[1].kind = "mepc" /\ (rob'[1].state = "iq" <=> entries[1].state = "iq")
      BY <2>1, <3>2, ZenonT(40) DEF Like, Advances
    <3>4. arch'.mepc = arch.mepc
      BY <1>7, <2>1, ZenonT(40)
    <3>5. CASE rob[1].state = "iq"
      <4>1. mepc = arch.mepc
        BY <1>t, <3>5, ZenonT(40) DEF CsrOK
      <4>2. entries[1].state = "iq" \/ entries[1].state = "issued"
        BY <3>2, <3>5, <1>s, ZenonT(40) DEF Advances
      <4>3. csrWrites(entries) <=> entries[1].state = "issued"
        BY <1>11, <2>1, <3>5, ZenonT(40)
      <4> QED
        BY <1>5, <3>1, <3>3, <3>4, <4>1, <4>2, <4>3, <1>s, ZenonT(40)
    <3>6. CASE rob[1].state # "iq"
      <4>1. mepc = CsrData
        BY <1>t, <2>1, <3>6, ZenonT(40) DEF CsrOK
      <4>2. entries[1].state # "iq"
        BY <3>2, <3>6, <1>s, ZenonT(40) DEF Advances
      <4>3. ~csrWrites(entries)
        BY <1>11, <3>6, ZenonT(40)
      <4> QED
        BY <1>5, <3>1, <3>3, <4>1, <4>2, <4>3, ZenonT(40)
    <3> QED
      BY <3>5, <3>6, ZenonT(40)
  <2>2. CASE ~(rob # <<>> /\ rob[1].kind = "mepc" /\ n = 0)
    <3>1. ~(rob' # <<>> /\ rob'[1].kind = "mepc" /\ rob'[1].state # "iq")
      <4> SUFFICES ASSUME rob' # <<>>, rob'[1].kind = "mepc", rob'[1].state # "iq" PROVE FALSE
        BY ZenonT(40)
      <4>1. n = 0 /\ rob # <<>> /\ Like(rob'[1], entries[1])
        BY <1>12, <2>0, <2>9, ZenonT(40)
      <4>2. Advances(rob[1], entries[1])
        BY <1>2, <1>10, <4>1, ZenonT(40)
      <4>3. rob[1].kind = "mepc"
        BY <4>1, <4>2, ZenonT(40) DEF Like, Advances
      <4> QED
        BY <2>2, <4>1, <4>3, ZenonT(40)
    <3>2. n # 0 => rob # <<>> /\ rob[1].state = "complete"
      <4>1. n # 0 => 1 \in 1..n /\ 1 \in 1..Len(rob)
        BY <1>1, <1>2
      <4> QED
        BY <1>1, <1>2, <4>1, ZenonT(40)
    <3>3. ~csrWrites(entries)
      BY <1>11, <2>2, <3>2, <1>s, ZenonT(40)
    <3>4. mepc = arch'.mepc
      BY <1>t, <1>7, <2>2, <3>2, <1>s, ZenonT(40) DEF CsrOK
    <3> QED
      BY <1>5, <3>1, <3>3, <3>4, ZenonT(40)
  <2> QED
    BY <2>1, <2>2, ZenonT(40)
<1> QED
  BY <1>6, <1>13, <1>14, ZenonT(40) DEF CsrOK

LEMMA ClockCsr ==
  ASSUME NoMret, IInv, NEW entries, Advanced(entries), NEW stream \in Streams,
         NEW n \in RetireCounts, NEW drains \in Drains, Clock(entries, stream, n, drains)
  PROVE  CsrOK'
<1> DEFINE lanes == accepted(stream)
           c == Len(rob)
<1>t. Types /\ Chain
  BY ZenonT(40) DEF IInv, SInv
<1>1. /\ rob' = SubSeq(entries, n + 1, Len(rob)) \o lanes
      /\ CsrClock(entries, n) /\ arch' = After(arch, n)
  BY ZenonT(40) DEF Clock
<1>2. Admitted(lanes)
  BY Dispatches, ZenonT(40)
<1>3. Shifted(rob', entries, n, lanes) /\ rob' \in Seq(EntryType)
  BY <1>t, <1>1, <1>2, ClockRob, ZenonT(40)
<1>4. c \in Nat /\ n \in 0..c /\ Len(entries) = c /\ Len(lanes) \in Nat
  <2>1. n \in 0..c /\ Len(entries) = c
    BY <1>t, Retires, ZenonT(40) DEF Advanced
  <2>2. Len(lanes) \in 0..2
    BY <1>t, <1>2, LanesAre, ZenonT(40)
  <2> QED
    BY <1>t, <2>1, <2>2 DEF Types
<1>5. \A j \in 1..Len(lanes) : lanes[j].state = "iq"
  BY <1>t, <1>2, LanesWait, ZenonT(40)
<1> HIDE DEF lanes, c
<1>6. /\ Len(rob') = (c - n) + Len(lanes) /\ \A i \in 1..(c - n) : rob'[i] = entries[n + i]
      /\ \A j \in 1..Len(lanes) : rob'[(c - n) + j] = lanes[j]
  BY <1>3, <1>4, ZenonT(40) DEF Shifted
<1>7. ASSUME NEW j \in 1..Len(rob') PROVE Comes(entries, n, j)
  <2>1. CASE j \in 1..(c - n)
    <3>1. n + j \in 1..c
      BY <2>1, <1>4
    <3> QED
      BY <2>1, <3>1, <1>6, ZenonT(40) DEF Comes, Like, c
  <2>2. CASE j \notin 1..(c - n)
    <3>1. j - (c - n) \in 1..Len(lanes) /\ (c - n) + (j - (c - n)) = j /\ n + j \notin 1..c
      BY <2>2, <1>4, <1>6
    <3> QED
      BY <3>1, <1>5, <1>6, ZenonT(40) DEF Comes, c
  <2> QED
    BY <2>1, <2>2, ZenonT(40)
<1>8. Len(rob') \in Nat /\ (rob' # <<>> => Len(rob') > 0)
  BY <1>3
<1>9. rob # <<>> /\ n = 0 => rob' # <<>>
  <2>1. rob # <<>> => c > 0
    BY <1>t DEF Types, c
  <2>2. c > 0 /\ n = 0 => Len(rob') > 0
    BY <1>4, <1>6
  <2>3. rob' = <<>> => ~(Len(rob') > 0)
    OBVIOUS
  <2> QED
    BY <2>1, <2>2, <2>3, ZenonT(40)
<1> QED
  BY <1>1, <1>7, <1>8, <1>9, CsrStep, ZenonT(40)

LEMMA RecoverCsr ==
  ASSUME NoMret, IInv, NEW entries, Advanced(entries), NEW stream \in Streams,
         NEW drains \in Drains, Recover(entries, stream, drains)
  PROVE  CsrOK'
<1>t. Types
  BY ZenonT(40) DEF IInv, SInv
<1>1. PICK i \in mispredicted(entries) :
        rob' = [SubSeq(entries, 1, i) EXCEPT ![i].state = "complete"]
  BY ZenonT(40) DEF Recover
<1>2. arch' = arch /\ CsrClock(entries, 0)
  BY ZenonT(40) DEF Recover
<1>3. Len(rob) \in Nat
  BY <1>t DEF Types
<1>4. i \in 1..Len(rob) /\ Cut(rob', entries, i) /\ entries[i].state = "issued"
  BY <1>t, <1>1, RecoverRob, ZenonT(40)
<1>5. 0 \in RetireCounts
  <2>1. 0 \in 0..2 /\ 0 <= Len(rob) /\ 1..0 = {} /\ 0 # 2
    BY <1>3
  <2> QED
    BY <2>1, ZenonT(40) DEF RetireCounts
<1>6. arch' = After(arch, 0)
  BY <1>2, ZenonT(40) DEF After
<1>s. "complete" # "iq" /\ "issued" # "iq"
  OBVIOUS
<1>7. ASSUME NEW j \in 1..Len(rob') PROVE Comes(entries, 0, j)
  <2>1. Len(rob') = i
    BY <1>4, ZenonT(40) DEF Cut
  <2>2. 0 + j = j /\ j \in 1..Len(rob) /\ (j = i \/ j \in 1..(i - 1))
    BY <1>3, <1>4, <2>1
  <2>3. Like(rob'[j], entries[j])
    BY <1>4, <2>2, <1>s, ZenonT(40) DEF Cut, Like
  <2> QED
    BY <2>2, <2>3, ZenonT(40) DEF Comes
<1>8. Len(rob') = i /\ Len(rob') \in Nat /\ Len(rob') > 0 /\ rob' # <<>>
  <2>1. Len(rob') = i /\ rob' \in Seq(EntryType)
    BY <1>4, ZenonT(40) DEF Cut
  <2> QED
    BY <1>3, <1>4, <2>1
<1> QED
  BY <1>2, <1>5, <1>6, <1>7, <1>8, CsrStep, ZenonT(40)

\* Trap entry leaves what the ISA defines, and an empty machine.
LEMMA TrapOrder ==
  ASSUME IInv, NEW drains \in Drains, Trap(drains)
  PROVE  Chain' /\ CsrOK'
<1>t. Types /\ Chain /\ CsrOK
  BY ZenonT(40) DEF IInv, SInv
<1>1. /\ rob # <<>> /\ rob' = <<>> /\ fetchPc' = TrapVector /\ rob[1].state = "exception"
      /\ mepc' = rob[1].pc /\ mpie' = mie /\ mie' = FALSE /\ minstret' = minstret
      /\ arch' = [arch EXCEPT !.pc = TrapVector, !.mepc = arch.pc,
                              !.mpie = arch.mie, !.mie = FALSE]
  BY ZenonT(40) DEF Trap, trapValid
<1>2. arch \in ArchType
  BY <1>t, ZenonT(40) DEF Types
<1>3. /\ arch'.pc = TrapVector /\ arch'.mepc = arch.pc /\ arch'.mpie = arch.mie
      /\ arch'.mie = FALSE /\ arch'.minstret = arch.minstret
  BY <1>1, <1>2, ZenonT(40) DEF ArchType
<1>4. Len(rob') = 0 /\ 1..Len(rob') = {} /\ Len(rob') + 1 = 1 /\ 1 \in 1..Len(rob)
  BY <1>t, <1>1 DEF Types
<1>5. rob[1].pc = arch.pc
  BY <1>t, <1>4, ZenonT(40) DEF Chain, Track, From
<1>6. Chain'
  BY <1>1, <1>3, <1>4, ZenonT(40) DEF Chain, Track, From
<1>7. CsrOK'
  BY <1>t, <1>1, <1>3, <1>4, <1>5, ZenonT(40) DEF CsrOK
<1> QED
  BY <1>6, <1>7, ZenonT(40)

LEMMA InitOrder ==
  ASSUME Init
  PROVE  IInv
<1>1. /\ rob = <<>> /\ fetchPc = 0 /\ mepc = 0 /\ minstret = 0 /\ mie = FALSE /\ mpie = FALSE
      /\ arch = [pc |-> 0, mepc |-> 0, minstret |-> 0, mie |-> FALSE, mpie |-> FALSE]
  BY ZenonT(40) DEF Init
<1>2. arch.pc = 0 /\ arch.mepc = 0 /\ arch.minstret = 0 /\ arch.mie = FALSE /\ arch.mpie = FALSE
  BY <1>1
<1>3. Len(rob) = 0 /\ 1..Len(rob) = {} /\ Len(rob) + 1 = 1
  BY <1>1
<1> QED
  BY <1>1, <1>2, <1>3, InitSInv, ZenonT(40) DEF IInv, Chain, Track, From, CsrOK

LEMMA NextOrder ==
  ASSUME NoMret, IInv, [Next]_vars
  PROVE  IInv'
<1>t. SInv /\ Types /\ Chain /\ CsrOK
  BY ZenonT(40) DEF IInv, SInv
<1>1. SInv'
  BY <1>t, NextSInv, ZenonT(40)
<1>2. ASSUME NEW drains \in Drains, NEW entries \in Outcomes, NEW stream \in Streams,
             Recover(entries, stream, drains) \/ \E n \in RetireCounts : Clock(entries, stream, n, drains)
      PROVE  Chain' /\ CsrOK'
  <2>1. Advanced(entries)
    BY <1>t, OutcomesAdvance, ZenonT(40)
  <2> QED
    BY <1>t, <1>2, <2>1, RecoverChain, RecoverCsr, ClockChain, ClockCsr, ZenonT(40)
<1>3. CASE Next
  BY <1>1, <1>2, <1>3, TrapOrder, ZenonT(40) DEF Next, Drains, IInv
<1>4. CASE UNCHANGED vars
  <2>1. /\ rob' = rob /\ fetchPc' = fetchPc /\ arch' = arch
        /\ mepc' = mepc /\ minstret' = minstret /\ mie' = mie /\ mpie' = mpie
    BY <1>4, ZenonT(40) DEF vars
  <2> QED
    BY <1>t, <1>1, <2>1, ZenonT(40) DEF IInv, Chain, CsrOK
<1> QED
  BY <1>3, <1>4, ZenonT(40)

--------------------------------------------------------------------------------
(* The theorems.  MRET is left out because its target is read from the         *)
(* secondary unit, whose CSR input is tied to zero: with MRET in the program   *)
(* retirement does leave program order.                                        *)

\* Without MRET, what retires or traps next is what a one-at-a-time machine
\* would execute next, across mispredictions, serialization and traps.
THEOREM OrderIsKept ==
  ASSUME "mret" \notin Kinds
  PROVE  Spec => []RetiresInProgramOrder
<1>1. Init => IInv
  BY InitOrder, ZenonT(40)
<1>2. IInv /\ [Next]_vars => IInv'
  BY NextOrder, ZenonT(40) DEF NoMret
<1>3. IInv => RetiresInProgramOrder
  <2> SUFFICES ASSUME IInv, rob # <<>> PROVE rob[1].pc = arch.pc
    BY ZenonT(40) DEF RetiresInProgramOrder
  <2>1. 1 \in 1..Len(rob)
    BY DEF IInv, SInv, Types
  <2> QED
    BY <2>1, ZenonT(40) DEF IInv, Chain, Track, From
<1> QED
  BY <1>1, <1>2, <1>3, PTL DEF Spec

\* Without MRET, a CSR access returns what the program has given the CSR so
\* far, and the CSRs hold the effect of the retired instructions and the one at
\* the head, also where minstret wraps.
THEOREM CsrsStayPrecise ==
  ASSUME "mret" \notin Kinds
  PROVE  Spec => []CsrsArePrecise
<1>1. Init => IInv
  BY InitOrder, ZenonT(40)
<1>2. IInv /\ [Next]_vars => IInv'
  BY NextOrder, ZenonT(40) DEF NoMret
<1>3. IInv => CsrsArePrecise
  <2> SUFFICES ASSUME IInv PROVE CsrsArePrecise
    BY ZenonT(40)
  <2>t. Types /\ SerializedComesFirst /\ CsrOK
    BY ZenonT(40) DEF IInv, SInv
  <2>1. \A i \in 1..Len(rob) :
           /\ rob[i].pc \in Pcs /\ rob[i].predicted \in Pcs /\ rob[i].target \in Pcs
           /\ rob[i].state \in {"iq", "issued", "complete", "exception"}
    BY <2>t, Entries, ZenonT(40) DEF EntryType
  <2>2. TypeOK
    BY <2>t, <2>1, ZenonT(40) DEF Types, TypeOK
  <2>3. \A i \in 1..Len(rob) : isCsr(rob[i].kind) => i = 1
    BY <2>t, ZenonT(40) DEF SerializedComesFirst, startsSerialization
  <2> QED
    BY <2>t, <2>2, <2>3, ZenonT(40) DEF CsrsArePrecise, CsrOK
<1> QED
  BY <1>1, <1>2, <1>3, PTL DEF Spec
=============================================================================
