--------------------------- MODULE MemoryProofs ---------------------------
(* Loads see memory in program order, no retired Store is lost, the LSQ is the *)
(* memory part of the ROB, every answer finds its Load and MMIO is precise, for *)
(* every depth of the ROB, the LSQ and the Store Buffer, every set of addresses *)
(* and every program.                                                          *)
EXTENDS MemoryLemmas

\* The default provers, as in MemoryLemmas.
USE ZenonT(40), SMTT(30)

--------------------------------------------------------------------------------
(* Results.                                                                    *)

\* The answer of this clock is to a Load that was accepted.
RespOK(resp) == resp # None => \E o \in owed : resp[1] = o.id /\ resp[2] \in o.values
Arrives(resp, t) == resp # None /\ resp[1] = t

KilledAfter(b, killed) == \A i \in 1..Len(rob) : TagAt(i) \in killed <=> i > b

\* The accepted Loads after the clock.
PendingThen(fired, resp, killed) ==
    /\ pending' \in [Tags -> {None, Unkilled, Killed}]
    /\ \A i \in fired : normalCacheLoad(i) => pending'[TagAt(i)] = Unkilled
    /\ \A t \in Tags : pending'[t] = Unkilled =>
          \/ \E i \in fired : TagAt(i) = t /\ normalCacheLoad(i)
          \/ pending[t] = Unkilled /\ t \notin killed /\ ~Arrives(resp, t)
    /\ \A t \in Tags : pending[t] = Unkilled /\ t \notin killed /\ ~Arrives(resp, t) => pending'[t] = Unkilled
    /\ \A t \in Tags : pending[t] # None /\ ~Arrives(resp, t) => pending'[t] # None

LEMMA KilledDiffer == Unkilled # Killed /\ Unkilled # None /\ Killed # None
<1>1. Unkilled[1] = [killed |-> FALSE] /\ Killed[1] = [killed |-> TRUE]
  BY DEF Unkilled, Killed
<1>2. ~Unkilled[1].killed /\ Killed[1].killed
  BY <1>1, SMTT(60)
<1>3. Unkilled # Killed
  BY <1>2
<1> QED
  BY <1>3, SomeIsNotNone DEF Unkilled, Killed, None

LEMMA PendingIs ==
  ASSUME Types, NEW fired, NEW resp, NEW killed, fired \subseteq Waiting, PendingLoads(fired, resp, killed)
  PROVE  PendingThen(fired, resp, killed)
<1> DEFINE sent(t) == \E i \in fired : TagAt(i) = t /\ normalCacheLoad(i)
<1>1. pending \in [Tags -> {None, Unkilled, Killed}]
  BY DEF Types
<1>2. pending' = [t \in Tags |->
        IF sent(t) THEN Unkilled
        ELSE IF Arrives(resp, t) THEN None
        ELSE IF pending[t] # None /\ t \in killed THEN Killed
        ELSE pending[t]]
  BY DEF PendingLoads, Unkilled, Killed, Arrives
<1>3. \A i \in fired : TagAt(i) \in Tags
  BY TagIs DEF Waiting
<1>4. \A i \in fired : normalCacheLoad(i) => sent(TagAt(i))
  OBVIOUS
<1> HIDE DEF sent
<1>5. \A t \in Tags : pending[t] \in {None, Unkilled, Killed}
  BY <1>1
<1>6. pending' \in [Tags -> {None, Unkilled, Killed}]
  BY <1>2, <1>5
<1>7. \A t \in Tags : pending'[t] = IF sent(t) THEN Unkilled
        ELSE IF Arrives(resp, t) THEN None
        ELSE IF pending[t] # None /\ t \in killed THEN Killed
        ELSE pending[t]
  BY <1>2
<1>8. \A i \in fired : normalCacheLoad(i) => pending'[TagAt(i)] = Unkilled
  BY <1>3, <1>4, <1>7
<1>9. \A t \in Tags : pending'[t] = Unkilled =>
          sent(t) \/ (pending[t] = Unkilled /\ t \notin killed /\ ~Arrives(resp, t))
  BY <1>7, KilledDiffer
<1>10. \A t \in Tags : pending[t] = Unkilled /\ t \notin killed /\ ~Arrives(resp, t) => pending'[t] = Unkilled
  BY <1>7
<1>11. \A t \in Tags : pending[t] # None /\ ~Arrives(resp, t) => pending'[t] # None
  BY <1>7, KilledDiffer
<1> QED
  BY <1>6, <1>8, <1>9, <1>10, <1>11 DEF PendingThen, sent

\* The completion register names the one operation that completes from it.
LEMMA CompletesIs ==
  ASSUME Types, ResultsOK, NEW i \in 1..Len(rob), completes(i)
  PROVE  Completes(i, completion[1])
<1>1. completion # None /\ completion[1].tag = TagAt(i)
  BY DEF completes
<1>2. PICK j \in 1..Len(rob) : Completes(j, completion[1])
  BY <1>1 DEF ResultsOK
<1>3. j = i
  BY <1>1, <1>2, TagIs DEF Completes
<1> QED
  BY <1>2, <1>3

\* What goes on for an operation that is issued, or issues now.
LEMMA StaysIs ==
  ASSUME Least, Types, ResultsOK, NEW r, NEW b, NEW fired, Carried(r, b, fired), arch' = Flight[r],
         NEW killed, KilledAfter(b, killed), NEW resp, FiredOK(fired, killed, resp),
         NEW i \in 1..Len(rob), (Awaits(i) /\ ~completes(i) /\ TagAt(i) \notin killed) \/ i \in fired
  PROVE  i \in (r + 1)..b /\ Mirrors(i, i - r, fired) /\ Awaits(i - r)'
<1>1. IsMemory(i) /\ TagAt(i) \notin killed /\ rob[i].state # "complete" /\ ~completes(i)
      /\ (rob[i].state = "issued" \/ i \in fired)
  <2>1. CASE i \in fired
    <3>1. IsMemory(i) /\ TagAt(i) \notin killed /\ rob[i].state = "iq"
      BY <2>1 DEF FiredOK, Waiting
    <3>2. ~completes(i)
      BY <3>1, CompletesIs DEF Completes, Awaits
    <3> QED
      BY <2>1, <3>1, <3>2
  <2>2. CASE i \notin fired
    BY <2>2 DEF Awaits
  <2> QED
    BY <2>1, <2>2
<1>2. i \in (r + 1)..b
  <2>1. r \in 0..Len(rob) /\ b \in r..Len(rob) /\ \A k \in 1..r : rob[k].state = "complete"
    BY DEF Carried
  <2>2. Len(rob) \in Nat
    BY RobFields DEF Types
  <2>3. i \notin 1..r
    BY <1>1, <2>1
  <2>4. ~(i > b)
    BY <1>1 DEF KilledAfter
  <2> QED
    BY <2>1, <2>2, <2>3, <2>4, SMTT(60)
<1>3. Mirrors(i, i - r, fired)
  BY <1>2, MirrorIs
<1>4. NewState(i, fired, {}) = "issued"
  BY <1>1 DEF NewState
<1>5. IsMemory(i - r)' /\ rob'[i - r].state = "issued"
  BY <1>1, <1>3, <1>4, MirrorSame DEF Mirrors
<1>6. Awaits(i - r)'
  BY <1>5 DEF Awaits
<1> QED
  BY <1>2, <1>3, <1>6

\* The Load at place i awaits the answer on tag t, and still does after the clock.
StillPends(i, t, r, b, fired) ==
    /\ i \in 1..Len(rob) /\ TagAt(i) = t /\ IsLoad(i) /\ ~misaligned(i) /\ i \in (r + 1)..b
    /\ Mirrors(i, i - r, fired) /\ Awaits(i - r)'

LEMMA PendingPlace ==
  ASSUME Least, Types, ResultsOK, NEW r, NEW b, NEW fired, Carried(r, b, fired), arch' = Flight[r],
         NEW killed, KilledAfter(b, killed), NEW resp, FiredOK(fired, killed, resp),
         NEW t \in Tags, pending[t] = Unkilled, t \notin killed
  PROVE  \E i : StillPends(i, t, r, b, fired)
<1>1. PICK i \in 1..Len(rob) : t = TagAt(i) /\ Awaits(i) /\ IsLoad(i) /\ ~misaligned(i)
  BY DEF ResultsOK
<1>2. ~completes(i)
  <2>1. ASSUME completes(i) PROVE FALSE
    <3>1. Completes(i, completion[1])
      BY <2>1, CompletesIs
    <3> QED
      BY <1>1, <3>1 DEF Completes
  <2> QED
    BY <2>1
<1>3. i \in (r + 1)..b /\ Mirrors(i, i - r, fired) /\ Awaits(i - r)'
  BY <1>1, <1>2, StaysIs
<1> QED
  BY <1>1, <1>3 DEF StillPends

LEMMA ValueIs ==
  ASSUME Least, Types, Linked(rob, robHead, lsq), NEW i \in 1..Len(rob), IsMemory(i)
  PROVE  Value(i) \in Words
<1>1. op(i) \in MemoryOps
  BY PlaceIs
<1>2. op(i).addr \in Addresses /\ op(i).access \in MemAccess /\ op(i).offset \in Lanes
  BY <1>1, OpIs
<1>3. i - 1 \in 0..Len(rob)
  BY FlightIs, SMTT(60)
<1>4. Flight[i - 1][op(i).addr] \in Words
  BY <1>2, <1>3, FlightIs
<1> QED
  BY <1>2, <1>4, FormatIs DEF Value, MemoryBefore, Flight

\* A forwarded Load has its value at once.
LEMMA LocalIs ==
  ASSUME Least, Types, Linked(rob, robHead, lsq), NEW i \in 1..Len(rob), IsMemory(i),
         combinedLsqIssueReady(i)
  PROVE  Right(i, localResult(i)) /\ localResult(i) \in Maybe(Words)
<1>1. CASE forwards(i) /\ ~misaligned(i)
  <2>1. Holds(lsq.entries[rob[i].lsqTag], rob[i], (robHead + (i - 1)) % RobDepth)
    BY PlaceIs
  <2>2. IsLoad(i)
    BY <1>1, <2>1 DEF forwards, issueForwardValid, Holds, IsLoad, op
  <2>3. issueForwardData(lsq, rob[i].lsqTag, op(i)) = Value(i)
    BY <1>1, <2>2, ForwardValue DEF combinedLsqIssueReady
  <2>4. localResult(i) = <<Value(i)>>
    BY <1>1, <2>3 DEF localResult
  <2> QED
    BY <1>1, <2>2, <2>4, ValueIs DEF Right, Maybe
<1>2. CASE ~(forwards(i) /\ ~misaligned(i))
  <2>1. localResult(i) = None
    BY <1>2 DEF localResult
  <2> QED
    BY <2>1 DEF Right, Maybe, None
<1> QED
  BY <1>1, <1>2

\* The completion register after the clock.
Local(i) == [tag |-> TagAt(i), exception |-> misaligned(i), result |-> localResult(i)]
Returned(resp) == [tag |-> resp[1], exception |-> FALSE, result |-> <<resp[2]>>]

LEMMA CompletionCases ==
  ASSUME NEW fired, NEW resp, NEW killed, \A i, j \in fired : i = j,
         CompletionRegister(fired, resp, killed)
  PROVE  \/ responseCompletes(resp, killed) /\ completion' = <<Returned(resp)>>
         \/ \E i \in fired : ~normalCacheLoad(i) /\ completion' = <<Local(i)>>
         \/ (\A i \in fired : normalCacheLoad(i)) /\ completion' = None
<1>1. CASE responseCompletes(resp, killed)
  BY <1>1 DEF CompletionRegister, Returned
<1>2. CASE ~responseCompletes(resp, killed) /\ \E i \in fired : ~normalCacheLoad(i)
  <2>1. PICK i \in fired : ~normalCacheLoad(i)
    BY <1>2, SMTT(60)
  <2>2. fired = {i}
    BY <2>1
  <2>3. (CHOOSE j \in fired : TRUE) = i
    BY <2>2, SMTT(60)
  <2>4. completion' = LET j == CHOOSE j \in fired : TRUE IN <<Local(j)>>
    BY <1>2 DEF CompletionRegister, Local
  <2>5. completion' = <<Local(i)>>
    BY <2>3, <2>4
  <2> QED
    BY <2>1, <2>5
<1>3. CASE ~responseCompletes(resp, killed) /\ ~\E i \in fired : ~normalCacheLoad(i)
  BY <1>3 DEF CompletionRegister
<1> QED
  BY <1>1, <1>2, <1>3

LEMMA CompletionMoves ==
  ASSUME NEW i, NEW j, NEW fired, Mirrors(i, j, fired), Awaits(j)', NEW c,
         completion' = <<c>>, c.tag = TagAt(i), pending'[c.tag] # Unkilled,
         c.exception = misaligned(i), Right(i, c.result)
  PROVE  j \in 1..Len(rob') /\ Completes(j, completion[1])'
<1>1. completion'[1] = c
  BY SomeIsNotNone
<1>2. op(j)' = op(i) /\ TagAt(j)' = TagAt(i) /\ j \in 1..Len(rob')
  BY DEF Mirrors, op
<1>3. misaligned(j)' = misaligned(i)
  BY <1>2 DEF misaligned
<1>4. Right(j, c.result)'
  BY MirrorSame
<1>5. Right(j, completion[1].result)'
  BY <1>1, <1>4 DEF Right
<1> QED
  BY <1>1, <1>2, <1>3, <1>5 DEF Completes

LEMMA CompletionKeeps ==
  ASSUME Least, Types, Linked(rob, robHead, lsq), ResultsOK, OwedOK,
         NEW r, NEW b, NEW fired, Carried(r, b, fired), arch' = Flight[r],
         NEW killed, KilledAfter(b, killed), NEW resp, FiredOK(fired, killed, resp), RespOK(resp),
         PendingThen(fired, resp, killed), CompletionRegister(fired, resp, killed)
  PROVE  /\ completion' \in Maybe(CompletionType)
         /\ completion' # None => \E j \in 1..Len(rob') : Completes(j, completion[1])'
<1>1. CASE responseCompletes(resp, killed) /\ completion' = <<Returned(resp)>>
  <2> DEFINE t == resp[1]
             c == Returned(resp)
  <2>1. resp # None /\ ~pending[t][1].killed /\ t \notin killed
    BY <1>1 DEF responseCompletes, responseKilled
  <2>2. PICK o \in owed : t = o.id /\ resp[2] \in o.values
    BY <2>1 DEF RespOK
  <2>3. t \in Tags
    <3>1. o \in [id : Tags, values : SUBSET Words]
      BY DEF Types
    <3>2. o.id \in Tags
      BY <3>1, SMTT(60)
    <3> QED
      BY <2>2, <3>2
  <2>4. pending[t] = Unkilled
    <3>1. pending[t] # None
      BY <2>2 DEF OwedOK
    <3>2. pending[t] \in {None, Unkilled, Killed}
      BY <2>3 DEF Types
    <3>3. Killed[1].killed
      <4>1. Killed[1] = [killed |-> TRUE]
        BY DEF Killed
      <4> QED
        BY <4>1, SMTT(60)
    <3> QED
      BY <2>1, <3>1, <3>2, <3>3
  <2>13. PICK i : StillPends(i, t, r, b, fired)
    BY <2>1, <2>3, <2>4, PendingPlace
  <2>5. /\ i \in 1..Len(rob) /\ TagAt(i) = t /\ IsLoad(i) /\ ~misaligned(i)
        /\ Mirrors(i, i - r, fired) /\ Awaits(i - r)'
    BY <2>13 DEF StillPends
  <2>6. resp[2] = Value(i)
    BY <2>2, <2>4, <2>5 DEF OwedOK
  <2>7. pending'[t] # Unkilled
    <3>1. \A k \in fired : normalCacheLoad(k) => pending[TagAt(k)] = None
      BY DEF FiredOK, tagFree
    <3>2. Arrives(resp, t)
      BY <2>1 DEF Arrives
    <3> QED
      BY <2>3, <2>4, <3>1, <3>2, KilledDiffer DEF PendingThen
  <2>8. c.tag = t /\ c.exception = FALSE /\ c.result = <<resp[2]>>
    BY SMTT(60) DEF Returned
  <2> HIDE DEF c, t
  <2>9. c.exception = misaligned(i)
    <3>1. misaligned(i) = FALSE
      BY <2>5 DEF misaligned
    <3> QED
      BY <2>8, <3>1
  <2>10. Right(i, c.result)
    BY <2>5, <2>6, <2>8 DEF Right
  <2>11. i - r \in 1..Len(rob') /\ Completes(i - r, completion[1])'
    BY <1>1, <2>5, <2>7, <2>8, <2>9, <2>10, CompletionMoves DEF c
  <2>12. c \in CompletionType
    <3>1. <<resp[2]>> \in Maybe(Words)
      BY <2>5, <2>6, ValueIs DEF Maybe, IsLoad
    <3> QED
      BY <2>3, <3>1 DEF CompletionType, c, Returned, t
  <2> QED
    BY <1>1, <2>11, <2>12 DEF Maybe, c
<1>2. ASSUME NEW i \in fired, ~normalCacheLoad(i), completion' = <<Local(i)>>
      PROVE  /\ completion' \in Maybe(CompletionType)
             /\ completion' # None => \E j \in 1..Len(rob') : Completes(j, completion[1])'
  <2> DEFINE c == Local(i)
  <2>1. i \in 1..Len(rob) /\ IsMemory(i) /\ rob[i].state = "iq" /\ combinedLsqIssueReady(i)
    BY DEF FiredOK, Waiting
  <2>2. Mirrors(i, i - r, fired) /\ Awaits(i - r)'
    BY <2>1, StaysIs
  <2>3. Right(i, localResult(i)) /\ localResult(i) \in Maybe(Words)
    BY <2>1, LocalIs
  <2>4. c.tag = TagAt(i) /\ c.exception = misaligned(i) /\ c.result = localResult(i)
    BY SMTT(60) DEF Local
  <2>5. TagAt(i) \in Tags
    BY <2>1, TagIs
  <2>6. pending'[TagAt(i)] # Unkilled
    <3>1. ~\E k \in fired : TagAt(k) = TagAt(i) /\ normalCacheLoad(k)
      BY <1>2 DEF FiredOK
    <3>2. pending[TagAt(i)] # Unkilled
      <4>1. ASSUME pending[TagAt(i)] = Unkilled PROVE FALSE
        <5>1. PICK k \in 1..Len(rob) : TagAt(i) = TagAt(k) /\ Awaits(k)
          BY <2>5, <4>1 DEF ResultsOK
        <5>2. k = i
          BY <2>1, <5>1, TagIs
        <5> QED
          BY <2>1, <5>1, <5>2 DEF Awaits
      <4> QED
        BY <4>1
    <3> QED
      BY <2>5, <3>1, <3>2 DEF PendingThen
  <2> HIDE DEF c
  <2>7. i - r \in 1..Len(rob') /\ Completes(i - r, completion[1])'
    BY <1>2, <2>2, <2>3, <2>4, <2>6, CompletionMoves DEF c
  <2>8. c \in CompletionType
    <3>1. misaligned(i) \in BOOLEAN
      BY DEF misaligned
    <3> QED
      BY <2>3, <2>5, <3>1 DEF CompletionType, c, Local
  <2> QED
    BY <1>2, <2>7, <2>8 DEF Maybe, c
<1>3. CASE completion' = None
  BY <1>3 DEF Maybe, None
<1>4. \A i, j \in fired : i = j
  BY DEF FiredOK
<1> QED
  BY <1>1, <1>2, <1>3, <1>4, CompletionCases

\* What ResultsOK says of the operation at place j.
ResultAt(j) ==
    /\ Right(j, rob[j].result)
    /\ rob[j].state = "exception" => IsMemory(j) /\ misaligned(j)
    /\ rob[j].state = "complete" /\ IsMemory(j) => ~misaligned(j)
    /\ Awaits(j) => pending[TagAt(j)] = Unkilled
                      \/ (completion # None /\ completion[1].tag = TagAt(j))

LEMMA ResultMoves ==
  ASSUME NEW i, NEW j, NEW fired, Mirrors(i, j, fired), NEW x, x = rob'[j].result, Right(i, x)
  PROVE  Right(j, rob[j].result)'
<1>1. Right(j, x)'
  BY MirrorSame
<1> QED
  BY <1>1 DEF Right

\* An operation that has issued has its result on its way after the clock.
LEMMA AwaitsKeeps ==
  ASSUME Types, ResultsOK, NEW i \in 1..Len(rob), IsMemory(i), NEW fired, NEW resp, NEW killed,
         FiredOK(fired, killed, resp), PendingThen(fired, resp, killed),
         CompletionRegister(fired, resp, killed), TagAt(i) \notin killed,
         NewState(i, fired, {}) = "issued"
  PROVE  pending'[TagAt(i)] = Unkilled \/ (completion' # None /\ completion'[1].tag = TagAt(i))
<1>1. ~completes(i) /\ (i \in fired \/ rob[i].state = "issued")
  <2>1. "issued" # "exception" /\ "issued" # "complete"
    BY SMTT(60)
  <2> QED
    BY <2>1 DEF NewState
<1>2. \A k, j \in fired : k = j
  BY DEF FiredOK
<1>3. CASE i \in fired /\ normalCacheLoad(i)
  BY <1>3 DEF PendingThen
<1>4. CASE i \in fired /\ ~normalCacheLoad(i)
  <2>1. ~responseCompletes(resp, killed)
    BY <1>4 DEF FiredOK
  <2>2. PICK k \in fired : completion' = <<Local(k)>>
    BY <1>2, <1>4, <2>1, CompletionCases
  <2>3. completion' # None /\ completion'[1] = Local(i)
    BY <1>2, <1>4, <2>2, SomeIsNotNone DEF None
  <2>4. Local(i).tag = TagAt(i)
    BY SMTT(60) DEF Local
  <2> QED
    BY <2>3, <2>4
<1>5. CASE rob[i].state = "issued"
  <2> DEFINE t == TagAt(i)
  <2>1. pending[t] = Unkilled /\ t \in Tags
    BY <1>1, <1>5, TagIs DEF ResultsOK, Awaits, completes
  <2>2. CASE ~Arrives(resp, t)
    BY <2>1, <2>2 DEF PendingThen
  <2>3. CASE Arrives(resp, t)
    <3>1. ~Unkilled[1].killed
      <4>1. Unkilled[1] = [killed |-> FALSE]
        BY DEF Unkilled
      <4> QED
        BY <4>1, SMTT(60)
    <3>2. responseCompletes(resp, killed)
      BY <2>1, <2>3, <3>1 DEF responseCompletes, responseKilled, Arrives
    <3>3. completion' = <<Returned(resp)>>
      BY <3>2 DEF CompletionRegister, Returned
    <3>4. completion' # None /\ completion'[1] = Returned(resp)
      BY <3>3, SomeIsNotNone DEF None
    <3>5. Returned(resp).tag = resp[1]
      BY SMTT(60) DEF Returned
    <3> QED
      BY <2>3, <3>4, <3>5 DEF Arrives
  <2> QED
    BY <2>2, <2>3
<1> QED
  BY <1>1, <1>3, <1>4, <1>5

LEMMA PlaceKeeps ==
  ASSUME Types, ResultsOK, NEW i, NEW j, NEW fired, Mirrors(i, j, fired), NEW resp, NEW killed,
         FiredOK(fired, killed, resp), PendingThen(fired, resp, killed),
         CompletionRegister(fired, resp, killed), TagAt(i) \notin killed
  PROVE  ResultAt(j)'
<1>1. /\ i \in 1..Len(rob) /\ TagAt(j)' = TagAt(i) /\ rob'[j].result = NewResult(i)
      /\ IsMemory(i) => rob'[j].state = NewState(i, fired, {})
      /\ ~IsMemory(i) => rob'[j].state # "exception"
  BY DEF Mirrors
<1>2. (IsMemory(j)' <=> IsMemory(i)) /\ (misaligned(j)' <=> misaligned(i))
  BY MirrorSame
<1>3. /\ Right(i, rob[i].result) /\ (rob[i].state = "exception" => IsMemory(i) /\ misaligned(i))
      /\ rob[i].state = "complete" /\ IsMemory(i) => ~misaligned(i)
  BY <1>1 DEF ResultsOK
<1>4. completes(i) => completion[1].exception = misaligned(i) /\ Right(i, completion[1].result)
  BY <1>1, CompletesIs DEF Completes
<1>5. Right(j, rob[j].result)'
  <2>1. PICK x : x = rob'[j].result
    BY SMTT(60)
  <2>2. Right(i, NewResult(i))
    BY <1>3, <1>4 DEF NewResult
  <2>3. Right(i, x)
    BY <1>1, <2>1, <2>2
  <2> QED
    BY <2>1, <2>3, ResultMoves
<1>6. /\ "exception" # "issued" /\ "exception" # "complete" /\ "issued" # "complete"
  BY SMTT(60)
<1>7. IsMemory(i) /\ NewState(i, fired, {}) = "exception" => misaligned(i)
  BY <1>3, <1>4, <1>6 DEF NewState
<1>8. IsMemory(i) /\ NewState(i, fired, {}) = "complete" => ~misaligned(i)
  BY <1>3, <1>4, <1>6 DEF NewState
<1>9. Awaits(j)' => pending'[TagAt(j)'] = Unkilled \/ (completion' # None /\ completion'[1].tag = TagAt(j)')
  <2>1. Awaits(j)' => IsMemory(i) /\ NewState(i, fired, {}) = "issued"
    BY <1>1, <1>2 DEF Awaits
  <2> QED
    BY <1>1, <2>1, AwaitsKeeps
<1>10. /\ rob'[j].state = "exception" => IsMemory(j)' /\ misaligned(j)'
       /\ rob'[j].state = "complete" /\ IsMemory(j)' => ~misaligned(j)'
  BY <1>1, <1>2, <1>7, <1>8
<1> QED
  BY <1>5, <1>9, <1>10 DEF ResultAt, None

LEMMA ResultsKeep ==
  ASSUME Least, Types, Linked(rob, robHead, lsq), ResultsOK, OwedOK,
         NEW r, NEW b, NEW fired, Carried(r, b, fired), arch' = Flight[r],
         NEW killed, KilledAfter(b, killed), NEW resp, FiredOK(fired, killed, resp), RespOK(resp),
         PendingThen(fired, resp, killed), CompletionRegister(fired, resp, killed)
  PROVE  ResultsOK' /\ completion' \in Maybe(CompletionType)
<1>1. ASSUME NEW j \in 1..Len(rob') PROVE ResultAt(j)'
  <2>1. CASE j \in 1..(b - r)
    <3>1. Mirrors(r + j, j, fired) /\ r + j \in (r + 1)..b
      BY <2>1, MirrorIs
    <3>2. r + j \in 1..Len(rob) /\ ~(r + j > b)
      <4>1. r \in 0..Len(rob) /\ b \in r..Len(rob)
        BY DEF Carried
      <4>2. Len(rob) \in Nat
        BY FlightIs
      <4> QED
        BY <2>1, <3>1, <4>1, <4>2, SMTT(60)
    <3>3. TagAt(r + j) \notin killed
      BY <3>2 DEF KilledAfter
    <3> QED
      BY <3>1, <3>3, PlaceKeeps
  <2>2. CASE rob'[j].state = "iq" /\ rob'[j].result = None
    <3>1. "iq" # "exception" /\ "iq" # "complete" /\ "iq" # "issued"
      BY SMTT(60)
    <3> QED
      BY <2>2, <3>1 DEF ResultAt, Right, Awaits, None
  <2> QED
    BY <2>1, <2>2 DEF Carried
<1>2. ASSUME NEW t \in Tags, pending'[t] = Unkilled
      PROVE \E j \in 1..Len(rob') : t = TagAt(j)' /\ Awaits(j)' /\ IsLoad(j)' /\ ~misaligned(j)'
  <2>1. PICK i \in 1..Len(rob) : /\ TagAt(i) = t /\ IsLoad(i) /\ ~misaligned(i)
                                 /\ Mirrors(i, i - r, fired) /\ Awaits(i - r)'
    <3>1. CASE \E i \in fired : TagAt(i) = t /\ normalCacheLoad(i)
      <4>1. PICK i \in fired : TagAt(i) = t /\ normalCacheLoad(i)
        BY <3>1, SMTT(60)
      <4>2. i \in 1..Len(rob)
        BY DEF FiredOK, Waiting
      <4>3. Mirrors(i, i - r, fired) /\ Awaits(i - r)'
        BY <4>2, StaysIs
      <4> QED
        BY <4>1, <4>2, <4>3 DEF normalCacheLoad
    <3>2. CASE pending[t] = Unkilled /\ t \notin killed
      <4>1. PICK i : StillPends(i, t, r, b, fired)
        BY <3>2, PendingPlace
      <4> QED
        BY <4>1 DEF StillPends
    <3> QED
      BY <1>2, <3>1, <3>2 DEF PendingThen
  <2>2. i - r \in 1..Len(rob') /\ TagAt(i - r)' = TagAt(i)
    BY <2>1 DEF Mirrors
  <2>3. IsLoad(i - r)' /\ ~misaligned(i - r)'
    BY <2>1, MirrorSame
  <2> QED
    BY <2>1, <2>2, <2>3
<1>3. /\ completion' \in Maybe(CompletionType)
      /\ completion' # None => \E j \in 1..Len(rob') : Completes(j, completion[1])'
  BY CompletionKeeps
<1>4. ResultsOK'
  BY <1>1, <1>2, <1>3 DEF ResultsOK, ResultAt, None
<1> QED
  BY <1>3, <1>4

\* The Loads that memory owes an answer after the clock.
OwedStep(fired, resp) ==
    \A o \in owed' : o \in Still(resp) \/ \E i \in fired : normalCacheLoad(i) /\ o = Owes(i)

LEMMA OwedIs ==
  ASSUME NEW cand, \A i, j \in cand : i = j, NEW killed, NEW lanes, NEW lv, lv => loadReadValid(cand, killed),
         NEW ready, NEW resp, NEW k, PortTakes(cand, lanes, lv, ready, resp, k),
         NEW fired, fired = issueFire(cand, killed, lanes, resp, ready)
  PROVE  OwedStep(fired, resp)
<1> SUFFICES ASSUME NEW o \in owed', o \notin Still(resp)
             PROVE  \E i \in fired : normalCacheLoad(i) /\ o = Owes(i)
  BY DEF OwedStep
<1>1. PICK i \in cand : o = Owes(i)
  BY DEF PortTakes
<1>2. selectLoadRequest(lanes, lv) /\ ready
  BY DEF PortTakes
<1>3. lv /\ ~commitMmio(lanes) /\ ~forceStoreBufferDrain
  BY <1>2 DEF selectLoadRequest
<1>4. baseIssueReady(i, killed) /\ normalCacheLoad(i) /\ tagFree(TagAt(i))
  BY <1>1, <1>3 DEF loadReadValid
<1>5. loadCacheRequestReady(lanes, ready)
  BY <1>2, <1>3 DEF loadCacheRequestReady
<1>6. i \in fired
  BY <1>1, <1>4, <1>5 DEF issueFire
<1> QED
  BY <1>1, <1>4, <1>6

LEMMA TagsDifferThen ==
  ASSUME robHead' \in Tags, rob' \in Seq(RobType), Len(rob') <= RobDepth,
         NEW i \in 1..Len(rob'), NEW j \in 1..Len(rob'), TagAt(i)' = TagAt(j)'
  PROVE  i = j
<1>1. Len(rob') \in Nat /\ RobDepth \in Nat \ {0}
  BY RobFields, RobDepthAssumption
<1>2. i \in Nat \ {0} /\ j \in Nat \ {0} /\ i <= RobDepth /\ j <= RobDepth
  BY <1>1, SMTT(60)
<1>3. robHead' + i - 1 = robHead' + (i - 1) /\ robHead' + j - 1 = robHead' + (j - 1)
  BY <1>1, <1>2, SMTT(60) DEF Tags
<1>4. (robHead' + (i - 1)) % RobDepth = (robHead' + (j - 1)) % RobDepth
  BY <1>3 DEF TagAt
<1> QED
  BY <1>2, <1>4, TagsDiffer

LEMMA OwedKeeps ==
  ASSUME Least, Types, Linked(rob, robHead, lsq), ResultsOK, OwedOK, RetiredStoresConserved,
         NEW r, NEW b, NEW fired, Carried(r, b, fired), arch' = Flight[r],
         NEW killed, KilledAfter(b, killed), NEW resp, FiredOK(fired, killed, resp),
         PendingThen(fired, resp, killed), OwedStep(fired, resp)
  PROVE  OwedOK' /\ owed' \subseteq [id : Tags, values : SUBSET Words]
<1>1. rob' \in Seq(RobType) /\ Len(rob') <= RobDepth /\ robHead' \in Tags
  BY MirrorIs DEF Carried
<1>2. ASSUME NEW o \in Still(resp)
      PROVE  /\ o \in [id : Tags, values : SUBSET Words] /\ pending'[o.id] # None
             /\ \A j \in 1..Len(rob') : o.id = TagAt(j)' /\ pending'[o.id] = Unkilled => o.values = {Value(j)'}
  <2> DEFINE t == o.id
  <2>1. o \in owed /\ ~Arrives(resp, t)
    BY DEF Still, Arrives
  <2>2. o \in [id : Tags, values : SUBSET Words]
    BY <2>1 DEF Types
  <2>3. t \in Tags
    BY <2>2, SMTT(60)
  <2>4. pending[t] # None
    BY <2>1 DEF OwedOK
  <2>5. pending'[t] # None
    BY <2>1, <2>3, <2>4 DEF PendingThen
  <2>6. ASSUME NEW j \in 1..Len(rob'), t = TagAt(j)', pending'[t] = Unkilled PROVE o.values = {Value(j)'}
    <3>1. \A k \in fired : normalCacheLoad(k) => pending[TagAt(k)] = None
      BY DEF FiredOK, tagFree
    <3>2. pending[t] = Unkilled /\ t \notin killed
      BY <2>3, <2>4, <2>6, <3>1 DEF PendingThen
    <3>3. PICK i : StillPends(i, t, r, b, fired)
      BY <2>3, <3>2, PendingPlace
    <3>4. i \in 1..Len(rob) /\ TagAt(i) = t /\ Mirrors(i, i - r, fired)
      BY <3>3 DEF StillPends
    <3>5. TagAt(i - r)' = t /\ i - r \in 1..Len(rob') /\ Value(i - r)' = Value(i)
      BY <3>4 DEF Mirrors
    <3>6. i - r = j
      BY <1>1, <2>6, <3>5, TagsDifferThen
    <3>7. o.values = {Value(i)}
      BY <2>1, <3>2, <3>4 DEF OwedOK
    <3> QED
      BY <3>5, <3>6, <3>7
  <2> QED
    BY <2>2, <2>5, <2>6
<1>3. ASSUME NEW i \in fired, normalCacheLoad(i)
      PROVE  /\ Owes(i) \in [id : Tags, values : SUBSET Words] /\ pending'[Owes(i).id] # None
             /\ \A j \in 1..Len(rob') : Owes(i).id = TagAt(j)' => Owes(i).values = {Value(j)'}
  <2>1. i \in 1..Len(rob) /\ IsMemory(i) /\ combinedLsqIssueReady(i) /\ IsLoad(i) /\ ~forwards(i) /\ ~misaligned(i)
    BY <1>3 DEF FiredOK, Waiting, normalCacheLoad
  <2>2. formatLoadData(golden[op(i).addr], op(i).access, op(i).offset) = Value(i)
    BY <2>1, CacheValue DEF combinedLsqIssueReady
  <2>3. Owes(i) = [id |-> TagAt(i), values |-> {Value(i)}]
    BY <2>2 DEF Owes
  <2>4. Owes(i).id = TagAt(i) /\ Owes(i).values = {Value(i)}
    BY <2>3, SMTT(60)
  <2>5. TagAt(i) \in Tags /\ Value(i) \in Words
    BY <2>1, TagIs, ValueIs
  <2>6. Owes(i) \in [id : Tags, values : SUBSET Words]
    <3>1. {Value(i)} \in SUBSET Words
      BY <2>5
    <3>2. [id |-> TagAt(i), values |-> {Value(i)}] \in [id : Tags, values : SUBSET Words]
      BY <2>5, <3>1, SMTT(60)
    <3> QED
      BY <2>3, <3>2
  <2>7. pending'[TagAt(i)] # None
    BY <1>3, KilledDiffer DEF PendingThen
  <2>8. TagAt(i - r)' = TagAt(i) /\ i - r \in 1..Len(rob') /\ Value(i - r)' = Value(i)
    <3>1. Mirrors(i, i - r, fired)
      BY <2>1, StaysIs
    <3> QED
      BY <3>1 DEF Mirrors
  <2>9. ASSUME NEW j \in 1..Len(rob'), TagAt(i) = TagAt(j)' PROVE Value(i) = Value(j)'
    <3>1. i - r = j
      BY <1>1, <2>8, <2>9, TagsDifferThen
    <3> QED
      BY <2>8, <3>1
  <2> QED
    BY <2>4, <2>6, <2>7, <2>9
<1>4. ASSUME NEW o \in owed'
      PROVE  /\ o \in [id : Tags, values : SUBSET Words] /\ pending'[o.id] # None
             /\ \A j \in 1..Len(rob') : o.id = TagAt(j)' /\ pending'[o.id] = Unkilled => o.values = {Value(j)'}
  <2>1. CASE o \in Still(resp)
    BY <1>2, <2>1
  <2>2. CASE \E i \in fired : normalCacheLoad(i) /\ o = Owes(i)
    BY <1>3, <2>2
  <2> QED
    BY <2>1, <2>2 DEF OwedStep
<1>5. owed' \subseteq [id : Tags, values : SUBSET Words]
  BY <1>4
<1>6. OwedOK'
  BY <1>4 DEF OwedOK, None
<1> QED
  BY <1>5, <1>6

--------------------------------------------------------------------------------
(* The clock below the ROB.                                                    *)

LEMMA RespIs ==
  ASSUME NEW resp \in Responses
  PROVE  RespOK(resp)
<1> SUFFICES ASSUME resp # None PROVE \E o \in owed : resp[1] = o.id /\ resp[2] \in o.values
  BY DEF RespOK
<1>1. PICK o \in owed : \E v \in o.values : resp = <<o.id, v>>
  BY DEF Responses
<1>2. PICK v \in o.values : resp = <<o.id, v>>
  BY <1>1
<1>3. resp[1] = o.id /\ resp[2] = v
  BY <1>2, SMTT(60)
<1> QED
  BY <1>3

LEMMA FiredIs ==
  ASSUME Types, Linked(rob, robHead, lsq), NEW cand \in AtMostOne(Offered), NEW killed, NEW lanes,
         NEW resp, NEW ready, NEW fired, fired = issueFire(cand, killed, lanes, resp, ready)
  PROVE  /\ \A i, j \in cand : i = j
         /\ \A i \in cand : op(i).addr \in Addresses
         /\ FiredOK(fired, killed, resp)
<1>1. cand \subseteq Offered /\ \A i, j \in cand : i = j
  BY DEF AtMostOne
<1>2. \A i \in cand : i \in 1..Len(rob) /\ IsMemory(i)
  BY <1>1 DEF Offered, Waiting
<1>3. \A i \in cand : op(i).addr \in Addresses
  BY <1>2, PlaceIs, OpIs
<1>4. fired \subseteq cand /\ fired \subseteq Waiting
  BY <1>1 DEF issueFire, Offered
<1>5. \A i \in fired :
          /\ combinedLsqIssueReady(i) /\ TagAt(i) \notin killed
          /\ normalCacheLoad(i) => tagFree(TagAt(i))
          /\ ~normalCacheLoad(i) => ~responseCompletes(resp, killed)
  BY DEF issueFire, baseIssueReady
<1>6. FiredOK(fired, killed, resp)
  BY <1>1, <1>4, <1>5 DEF FiredOK
<1> QED
  BY <1>1, <1>3, <1>6

LEMMA FiredRight ==
  ASSUME IInv, NEW cand \in AtMostOne(Offered), NEW killed, NEW lanes, NEW resp, NEW ready
  PROVE  FiredOK(issueFire(cand, killed, lanes, resp, ready), killed, resp)
<1>1. PICK fired : fired = issueFire(cand, killed, lanes, resp, ready)
  OBVIOUS
<1>2. /\ \A i, j \in cand : i = j
      /\ \A i \in cand : op(i).addr \in Addresses
      /\ FiredOK(fired, killed, resp)
  BY <1>1, FiredIs DEF IInv
<1> QED
  BY <1>1, <1>2

LEMMA SideIs ==
  ASSUME NEW cand, NEW killed, NEW lanes, NEW lv, NEW fired, NEW resp, NEW ready,
         MemorySide(cand, killed, lanes, lv, fired, resp, ready)
  PROVE  /\ response' = resp /\ PendingLoads(fired, resp, killed) /\ CompletionRegister(fired, resp, killed)
         /\ MemoryPort(cand, lanes, lv, ready) /\ Commits(lanes, lv, ready)
  BY DEF MemorySide, Commits

Accepts(lanes, lv, ready) == storeAccepted(lanes, drainFire(lanes, lv, ready), ready)

\* One clock of the LSU, the Store Buffer and the D-cache, for what stays in the ROB.
LEMMA SideKeeps ==
  ASSUME Least, IInv, UNCHANGED workload, NEW lanes, NEW n, NEW k, Committing(lanes, n, k),
         NEW cand \in AtMostOne(Offered), NEW resp \in Responses, NEW ready, NEW killed,
         NEW lv, lv => loadReadValid(cand, killed),
         NEW fired, fired = issueFire(cand, killed, lanes, resp, ready),
         MemorySide(cand, killed, lanes, lv, fired, resp, ready),
         NEW r, NEW b, Carried(r, b, fired), KilledAfter(b, killed),
         Retires(lanes, k, Accepts(lanes, lv, ready), r)
  PROVE  Types' /\ ResultsOK' /\ OwedOK' /\ RetiredStoresConserved'
<1>1. Types /\ Linked(rob, robHead, lsq) /\ ResultsOK /\ OwedOK /\ RetiredStoresConserved
  BY DEF IInv
<1>2. /\ response' = resp /\ PendingLoads(fired, resp, killed) /\ CompletionRegister(fired, resp, killed)
      /\ MemoryPort(cand, lanes, lv, ready) /\ Commits(lanes, lv, ready)
  BY SideIs
<1>3. /\ \A i, j \in cand : i = j
      /\ \A i \in cand : op(i).addr \in Addresses
      /\ FiredOK(fired, killed, resp)
  BY <1>1, FiredIs
<1>4. PortTakes(cand, lanes, lv, ready, resp, k)
  BY <1>1, <1>2, <1>3, PortIs
<1>5. Flows(k, Accepts(lanes, lv, ready))
  BY <1>1, <1>2, <1>4, BufferKeeps DEF Accepts
<1>6. arch' = Flight[r]
  BY <1>5 DEF Flows, Retires
<1>7. PendingThen(fired, resp, killed)
  BY <1>1, <1>2, <1>3, PendingIs DEF FiredOK
<1>8. OwedStep(fired, resp)
  BY <1>3, <1>4, OwedIs
<1>9. RespOK(resp)
  BY RespIs
<1>10. ResultsOK' /\ completion' \in Maybe(CompletionType)
  BY <1>1, <1>2, <1>3, <1>6, <1>7, <1>9, ResultsKeep
<1>11. OwedOK' /\ owed' \subseteq [id : Tags, values : SUBSET Words]
  BY <1>1, <1>3, <1>6, <1>7, <1>8, OwedKeeps
<1>12. RetiredStoresConserved'
  <2>1. arch' = With(golden', queue')
    BY <1>5 DEF Flows
  <2> QED
    BY <2>1 DEF RetiredStoresConserved, With, Requests, Buffered
<1>13. rob' \in Seq(RobType) /\ Len(rob') <= RobDepth /\ robHead' \in Tags
  <2>1. /\ rob' \in Seq(RobType) /\ Len(rob') <= RobDepth
        /\ r \in 0..Len(rob) /\ robHead' = (robHead + r) % RobDepth
    BY DEF Carried
  <2>2. robHead' \in Tags
    BY <1>1, <2>1, TagMoves
  <2> QED
    BY <2>1, <2>2
<1>14. pending' \in [Tags -> {None, Unkilled, Killed}]
  BY <1>7 DEF PendingThen
<1>15. /\ queue' \in Seq(StoreType) /\ Len(queue') <= SbDepth
       /\ golden' \in [Addresses -> Words] /\ arch' \in [Addresses -> Words]
  BY <1>5 DEF Flows
<1>16. workload' \in Workloads
  BY <1>1 DEF Types
<1>17. Types'
  BY <1>10, <1>11, <1>13, <1>14, <1>15, <1>16 DEF Types, None, Unkilled, Killed, Maybe,
     CompletionType, StoreType, RobType
<1> QED
  BY <1>10, <1>11, <1>12, <1>17

--------------------------------------------------------------------------------
(* The clock of the ROB and the LSQ.                                           *)

LEMMA CompletionsAwait ==
  ASSUME Types, ResultsOK
  PROVE  \A k \in 1..Len(rob) : completes(k) => Awaits(k)
  BY CompletesIs DEF Completes

\* The state after the clock does not name the branch that resolves.
LEMMA StateIs ==
  ASSUME Types, ResultsOK, NEW fired, NEW wake, NEW resolved, Allowed(fired, wake, resolved),
         NEW i \in 1..Len(rob)
  PROVE  /\ IsMemory(i) => NewState(i, fired, resolved) = NewState(i, fired, {})
         /\ ~IsMemory(i) => NewState(i, fired, resolved) # "exception"
<1>1. IsMemory(i) => i \notin resolved
  BY DEF Allowed, Unresolved
<1>2. completes(i) => IsMemory(i)
  BY CompletionsAwait DEF Awaits
<1>3. rob[i].state = "exception" => IsMemory(i)
  BY DEF ResultsOK
<1>4. "issued" # "exception" /\ "complete" # "exception"
  BY SMTT(60)
<1>5. IsMemory(i) => NewState(i, fired, resolved) = NewState(i, fired, {})
  BY <1>1 DEF NewState
<1>6. ~IsMemory(i) => NewState(i, fired, resolved) # "exception"
  BY <1>2, <1>3, <1>4 DEF NewState
<1> QED
  BY <1>5, <1>6

LEMMA LsqCount ==
  ASSUME NEW fired, NEW wake, lsq \in LsqType
  PROVE  UpdatedLsq(fired, wake).entryCount = lsq.entryCount
<1> DEFINE E == [s \in LsqSlots |->
        LET issued == {i \in fired : rob[i].lsqTag = s /\ ~misaligned(i)}
            woken == {i \in wake : rob[i].lsqTag = s}
            one(set) == CHOOSE i \in set : TRUE
            addressed == IF issued = {} THEN lsq.entries[s]
                         ELSE UpdateSlot(lsq.entries[s], <<[addr |-> op(one(issued)).addr,
                                                  offset |-> op(one(issued)).offset]>>,
                                         discovered(one(issued), wake))
        IN  IF woken = {} THEN addressed
            ELSE SnoopSlot(addressed, <<op(one(woken)).data>>)]
<1>1. UpdatedLsq(fired, wake) = [lsq EXCEPT !.entries = E]
  BY DEF UpdatedLsq
<1> HIDE DEF E
<1>2. [lsq EXCEPT !.entries = E].entryCount = lsq.entryCount
  BY SMTT(60) DEF LsqType
<1> QED
  BY <1>1, <1>2

\* The dispatched ROB t, whose first places are those of the ROB now.
Advanced(t, q, fired, resolved) ==
    /\ t \in Seq(RobType) /\ Len(rob) <= Len(t) /\ Len(t) <= RobDepth /\ Linked(t, robHead, q)
    /\ \A i \in 1..Len(rob) :
          /\ i \in 1..Len(t) /\ t[i].op = rob[i].op
          /\ t[i].state = NewState(i, fired, resolved) /\ t[i].result = NewResult(i)
    /\ \A i \in 1..Len(t) : i \in 1..Len(rob) \/ (t[i].state = "iq" /\ t[i].result = None)

LEMMA DispatchAdvances ==
  ASSUME IInv, NEW fired, NEW wake, NEW resolved, Allowed(fired, wake, resolved),
         NEW g \in workload \cup {<<>>}, NEW d,
         d = DispatchGroup([rob |-> UpdatedRob(fired, wake, resolved), lsq |-> UpdatedLsq(fired, wake)],
                           acceptedLanes(g))
  PROVE  Advanced(d.rob, d.lsq, fired, resolved)
<1> DEFINE s == UpdatedRob(fired, wake, resolved)
           q == UpdatedLsq(fired, wake)
<1>1. Types /\ Linked(rob, robHead, lsq) /\ ResultsOK
  BY DEF IInv
<1>2. Updates(s, fired, wake, resolved)
  BY <1>1, UpdatedRobIs
<1>3. s \in Seq(RobType) /\ Len(s) = Len(rob)
  BY <1>2 DEF Updates
<1>4. \A k \in 1..Len(rob) : completes(k) => Awaits(k)
  BY <1>1, CompletionsAwait
<1>5. q.entryCount = lsq.entryCount
  BY <1>1, LsqCount DEF Linked
<1>6. robHead \in Tags /\ Len(rob) <= RobDepth
  BY <1>1 DEF Types
<1>7. Fits(acceptedLanes(g), Len(rob), lsq.entryCount)
  BY <1>1, AcceptedFits
<1> HIDE DEF s, q
<1>8. Linked(s, robHead, q)
  BY <1>1, <1>2, <1>4, UpdateLinks DEF q
<1>9. d = DispatchGroup([rob |-> s, lsq |-> q], acceptedLanes(g))
  BY DEF s, q
<1>10. Fits(acceptedLanes(g), Len(s), q.entryCount) /\ Len(s) <= RobDepth
  BY <1>3, <1>5, <1>6, <1>7
<1>11. Joined(s, d.rob) /\ Linked(d.rob, robHead, d.lsq) /\ Len(d.rob) <= RobDepth
  BY <1>3, <1>6, <1>8, <1>9, <1>10, DispatchLinks
<1>12. d.rob \in Seq(RobType) /\ Len(rob) <= Len(d.rob)
  BY <1>3, <1>11 DEF Joined
<1>13. ASSUME NEW i \in 1..Len(rob)
       PROVE  /\ i \in 1..Len(d.rob) /\ d.rob[i].op = rob[i].op
              /\ d.rob[i].state = NewState(i, fired, resolved) /\ d.rob[i].result = NewResult(i)
  <2>1. d.rob[i] = s[i] /\ i \in 1..Len(d.rob)
    BY <1>3, <1>11 DEF Joined
  <2>2. s[i].op = rob[i].op /\ s[i].state = NewState(i, fired, resolved) /\ s[i].result = NewResult(i)
    BY <1>2 DEF Updates, Changed
  <2> QED
    BY <2>1, <2>2
<1>14. \A i \in 1..Len(d.rob) : i \in 1..Len(rob) \/ (d.rob[i].state = "iq" /\ d.rob[i].result = None)
  BY <1>3, <1>11 DEF Joined
<1> QED
  BY <1>11, <1>12, <1>13, <1>14 DEF Advanced

\* What is left when the first r places of t retire.
LEMMA CutIs ==
  ASSUME NEW t \in Seq(RobType), NEW r \in 0..Len(t)
  PROVE  /\ SubSeq(t, r + 1, Len(t)) \in Seq(RobType)
         /\ Len(SubSeq(t, r + 1, Len(t))) = Len(t) - r
         /\ \A j \in 1..(Len(t) - r) : SubSeq(t, r + 1, Len(t))[j] = t[r + j]
<1>1. Len(t) \in Nat /\ r \in Nat /\ r <= Len(t)
  BY RobFields, SMTT(60)
<1>2. SubSeq(t, r + 1, Len(t)) \in Seq(RobType)
  BY <1>1, SMTT(60)
<1>3. Len(SubSeq(t, r + 1, Len(t))) = Len(t) - r
  BY <1>1, SMTT(60)
<1>4. ASSUME NEW j \in 1..(Len(t) - r) PROVE SubSeq(t, r + 1, Len(t))[j] = t[r + j]
  BY <1>1, SMTT(60)
<1> QED
  BY <1>2, <1>3, <1>4

LEMMA RetireCarries ==
  ASSUME Least, Counting, IInv, NEW fired, NEW wake, NEW resolved, Allowed(fired, wake, resolved),
         NEW d, Advanced(d.rob, d.lsq, fired, resolved),
         NEW r \in 0..Len(rob), \A i \in 1..r : rob[i].state = "complete",
         robHead' = (robHead + Cardinality(1..r)) % RobDepth,
         rob' = RetireLanes(d, 1..r).rob, lsq' = RetireLanes(d, 1..r).lsq
  PROVE  Carried(r, Len(rob), fired) /\ Linked(rob', robHead', lsq')
<1> DEFINE t == d.rob
<1>1. Types /\ ResultsOK
  BY DEF IInv
<1>2. /\ t \in Seq(RobType) /\ Len(rob) <= Len(t) /\ Len(t) <= RobDepth /\ Linked(t, robHead, d.lsq)
      /\ robHead \in Tags /\ rob \in Seq(RobType)
  BY <1>1 DEF Advanced, Types
<1>3. Len(rob) \in Nat /\ Len(t) \in Nat
  BY <1>2, RobFields
<1>4. r \in Nat /\ r \in 0..Len(t) /\ Len(rob) \in r..Len(rob) /\ Len(rob) - r <= Len(t) - r /\ Len(t) - r <= RobDepth
  BY <1>2, <1>3, RobDepthAssumption, SMTT(60)
<1>5. Cardinality(1..r) = r
  BY <1>4, UpToIs
<1>6. /\ rob' = SubSeq(t, r + 1, Len(t))
      /\ lsq' = RetireSlots(d.lsq, Cardinality({i \in 1..r : IsMemory(i)}))
  <2> DEFINE c == Cardinality({i \in 1..r : IsMemory(i)})
  <2>1. RetireLanes(d, 1..r) = [rob |-> SubSeq(t, r + 1, Len(t)), lsq |-> RetireSlots(d.lsq, c)]
    BY <1>5 DEF RetireLanes
  <2>2. RetireLanes(d, 1..r).rob = SubSeq(t, r + 1, Len(t)) /\ RetireLanes(d, 1..r).lsq = RetireSlots(d.lsq, c)
    <3> HIDE DEF c, t
    <3> QED
      BY <2>1, SMTT(60)
  <2> QED
    BY <2>2
<1>7. robHead' = (robHead + r) % RobDepth
  BY <1>5
<1> HIDE DEF t
<1>8. /\ rob' \in Seq(RobType) /\ Len(rob') = Len(t) - r
      /\ \A j \in 1..(Len(t) - r) : rob'[j] = t[r + j]
  BY <1>2, <1>4, <1>6, CutIs
<1>9. \A i \in 1..Len(rob) : i \in 1..Len(t) /\ t[i].op = rob[i].op
        /\ t[i].state = NewState(i, fired, resolved) /\ t[i].result = NewResult(i)
  BY DEF Advanced, t
<1>10. ASSUME NEW i \in (r + 1)..Len(rob)
       PROVE  /\ rob'[i - r].op = rob[i].op /\ rob'[i - r].result = NewResult(i)
              /\ IsMemory(i) => rob'[i - r].state = NewState(i, fired, {})
              /\ ~IsMemory(i) => rob'[i - r].state # "exception"
  <2>1. i - r \in 1..(Len(t) - r) /\ i \in 1..Len(rob) /\ r + (i - r) = i
    BY <1>2, <1>3, <1>4, SMTT(60)
  <2>2. rob'[i - r] = t[i]
    BY <1>8, <2>1
  <2>3. /\ IsMemory(i) => NewState(i, fired, resolved) = NewState(i, fired, {})
        /\ ~IsMemory(i) => NewState(i, fired, resolved) # "exception"
    BY <1>1, <2>1, StateIs
  <2> QED
    BY <1>9, <2>1, <2>2, <2>3
<1>11. ASSUME NEW j \in 1..Len(rob')
       PROVE  j \in 1..(Len(rob) - r) \/ (rob'[j].state = "iq" /\ rob'[j].result = None)
  <2>1. j \in 1..(Len(t) - r) /\ r + j \in 1..Len(t) /\ (r + j \in 1..Len(rob) => j \in 1..(Len(rob) - r))
    BY <1>2, <1>3, <1>4, <1>8, SMTT(60)
  <2>2. r + j \in 1..Len(rob) \/ (t[r + j].state = "iq" /\ t[r + j].result = None)
    BY <2>1 DEF Advanced, t
  <2> QED
    BY <1>8, <2>1, <2>2
<1>12. Carried(r, Len(rob), fired)
  BY <1>4, <1>7, <1>8, <1>10, <1>11 DEF Carried
<1>13. {i \in 1..r : IsMemory(i)} = {i \in 1..r : isMem(t[i].op)}
  <2>1. \A i \in 1..r : i \in 1..Len(rob)
    BY <1>3, <1>4, SMTT(60)
  <2>2. \A i \in 1..r : IsMemory(i) <=> isMem(t[i].op)
    BY <1>9, <2>1 DEF IsMemory, op, isMem
  <2> QED
    BY <2>2
<1>14. Linked(SubSeq(t, r + 1, Len(t)), (robHead + r) % RobDepth,
              RetireSlots(d.lsq, Cardinality({i \in 1..r : isMem(t[i].op)})))
  BY <1>2, <1>4, PrefixRetires DEF t
<1> QED
  BY <1>6, <1>7, <1>12, <1>13, <1>14

ClockEdge(cand, lanes, lv, fired, retired, resp, ready) ==
    /\ MemorySide(cand, {}, lanes, lv, fired, resp, ready)
    /\ robHead' = (robHead + Cardinality(retired)) % RobDepth
    /\ \E wake \in SUBSET Unproduced, resolved \in AtMostOne(Unresolved),
          accepted \in {acceptedLanes(g) : g \in workload \cup {<<>>}} :
          \E kept \in {[rob |-> UpdatedRob(fired, wake, resolved), lsq |-> UpdatedLsq(fired, wake)]} :
             \E after \in {RetireLanes(DispatchGroup(kept, accepted), retired)} :
                rob' = after.rob /\ lsq' = after.lsq

LEMMA ClockIs ==
  ASSUME NEW cand, NEW lanes, NEW resp, NEW ready, Clock(cand, resp, lanes, ready)
  PROVE  ClockEdge(cand, lanes, loadReadValid(cand, {}), issueFire(cand, {}, lanes, resp, ready),
                   retireLanes(lanes, Accepts(lanes, loadReadValid(cand, {}), ready)), resp, ready)
  BY DEF Clock, ClockEdge, Accepts

LEMMA AtMostOneIs ==
  ASSUME NEW S, NEW x \in AtMostOne(S)
  PROVE  x \subseteq S
  BY DEF AtMostOne

LEMMA EdgeKeeps ==
  ASSUME Least, Counting, IInv, UNCHANGED workload, NEW resp \in Responses, NEW ready,
         NEW cand \in AtMostOne(Offered), NEW z, NEW lanes, lanes = candidates(z),
         NEW lv, lv => loadReadValid(cand, {}),
         NEW fired, fired = issueFire(cand, {}, lanes, resp, ready),
         NEW retired, retired = retireLanes(lanes, Accepts(lanes, lv, ready)),
         ClockEdge(cand, lanes, lv, fired, retired, resp, ready)
  PROVE  Types' /\ Linked(rob', robHead', lsq') /\ ResultsOK' /\ OwedOK' /\ RetiredStoresConserved'
<1>1. Types /\ Linked(rob, robHead, lsq) /\ ResultsOK
  BY DEF IInv
<1>0. /\ \A i, j \in cand : i = j
      /\ \A i \in cand : op(i).addr \in Addresses
      /\ FiredOK(fired, {}, resp)
  BY <1>1, FiredIs
<1>2. /\ MemorySide(cand, {}, lanes, lv, fired, resp, ready)
      /\ robHead' = (robHead + Cardinality(retired)) % RobDepth
  BY DEF ClockEdge
<1>5. PICK n, k \in 0..2 : Committing(lanes, n, k)
  BY <1>1, CandidatesAre
<1>6. PICK r \in 0..n : Retires(lanes, k, Accepts(lanes, lv, ready), r)
  BY <1>1, <1>5, RetireIs
<1>7. retired = 1..r
  BY <1>6 DEF Retires
<1>3. PICK wake \in SUBSET Unproduced, resolved \in AtMostOne(Unresolved),
           accepted \in {acceptedLanes(g) : g \in workload \cup {<<>>}} :
          \E kept \in {[rob |-> UpdatedRob(fired, wake, resolved), lsq |-> UpdatedLsq(fired, wake)]} :
             \E after \in {RetireLanes(DispatchGroup(kept, accepted), retired)} :
                rob' = after.rob /\ lsq' = after.lsq
  BY DEF ClockEdge
<1>4. PICK g \in workload \cup {<<>>} : accepted = acceptedLanes(g)
  OBVIOUS
<1>8. PICK d :
        /\ d = DispatchGroup([rob |-> UpdatedRob(fired, wake, resolved), lsq |-> UpdatedLsq(fired, wake)],
                             acceptedLanes(g))
        /\ rob' = RetireLanes(d, retired).rob /\ lsq' = RetireLanes(d, retired).lsq
  BY <1>3, <1>4
<1>10. Allowed(fired, wake, resolved)
  <2>1. resolved \subseteq Unresolved
    BY AtMostOneIs
  <2>2. fired \subseteq Waiting /\ \A i, j \in fired : i = j
    BY <1>0 DEF FiredOK
  <2> QED
    BY <2>1, <2>2 DEF Allowed
<1>11. Advanced(d.rob, d.lsq, fired, resolved)
  BY <1>8, <1>10, DispatchAdvances
<1>12. r \in 0..Len(rob) /\ \A i \in 1..r : rob[i].state = "complete"
  <2>1. n \in 0..2 /\ n <= Len(rob) /\ \A i \in 1..n : rob[i].state = "complete"
    BY <1>5 DEF Committing
  <2>2. Len(rob) \in Nat
    BY <1>1, RobFields DEF Types
  <2>3. r \in 0..Len(rob) /\ \A i \in 1..r : i \in 1..n
    BY <2>1, <2>2, SMTT(60)
  <2> QED
    BY <2>1, <2>3
<1>13. /\ robHead' = (robHead + Cardinality(1..r)) % RobDepth
       /\ rob' = RetireLanes(d, 1..r).rob /\ lsq' = RetireLanes(d, 1..r).lsq
  BY <1>2, <1>7, <1>8
<1>14. Carried(r, Len(rob), fired) /\ Linked(rob', robHead', lsq')
  BY <1>10, <1>11, <1>12, <1>13, RetireCarries
<1>15. KilledAfter(Len(rob), {})
  <2>1. Len(rob) \in Nat
    BY <1>1, RobFields DEF Types
  <2>2. \A i \in 1..Len(rob) : ~(i > Len(rob))
    BY <2>1, SMTT(60)
  <2> QED
    BY <2>2 DEF KilledAfter
<1>16. Types' /\ ResultsOK' /\ OwedOK' /\ RetiredStoresConserved'
  BY <1>2, <1>5, <1>6, <1>14, <1>15, SideKeeps
<1> QED
  BY <1>14, <1>16

Holding == Types' /\ Linked(rob', robHead', lsq') /\ ResultsOK' /\ OwedOK' /\ RetiredStoresConserved'

LEMMA HoldingIs == Holding => IInv'
<1>1. Linked(rob', robHead', lsq') => Linked(rob, robHead, lsq)'
  BY DEF Linked
<1> QED
  BY <1>1 DEF Holding, IInv

LEMMA ClockKeeps ==
  ASSUME Least, Counting, IInv, UNCHANGED workload, NEW resp \in Responses, NEW ready,
         NEW cand \in AtMostOne(Offered), NEW z, NEW lanes, lanes = candidates(z),
         Clock(cand, resp, lanes, ready)
  PROVE  Holding
<1>1. ClockEdge(cand, lanes, loadReadValid(cand, {}), issueFire(cand, {}, lanes, resp, ready),
                retireLanes(lanes, Accepts(lanes, loadReadValid(cand, {}), ready)), resp, ready)
  BY ClockIs
<1> QED
  BY <1>1, EdgeKeeps DEF Holding

--------------------------------------------------------------------------------
(* Recovery.                                                                   *)

\* The branch at place b completes and everything after it goes.
LEMMA BranchCut ==
  ASSUME NEW s \in Seq(RobType), NEW b \in 1..Len(s), NEW t,
         t = SubSeq([s EXCEPT ![b].state = "complete"], 1, b)
  PROVE  /\ t \in Seq(RobType) /\ Len(t) = b
         /\ \A i \in 1..b : t[i].op = s[i].op /\ t[i].result = s[i].result
                            /\ (i # b => t[i] = s[i]) /\ (i = b => t[i].state = "complete")
<1> DEFINE v == [s[b] EXCEPT !.state = "complete"]
           u == [s EXCEPT ![b] = v]
<1>1. Len(s) \in Nat /\ s[b] \in RobType
  BY RobFields
<1>2. v.op = s[b].op /\ v.result = s[b].result /\ v.state = "complete"
  BY <1>1, SMTT(60) DEF RobType
<1>3. v \in RobType
  BY <1>1 DEF RobType
<1>4. t = SubSeq(u, 1, b)
  OBVIOUS
<1> HIDE DEF v
<1>5. u \in Seq(RobType) /\ Len(u) = Len(s)
  BY <1>1, <1>3, SMTT(60)
<1>6. \A i \in 1..Len(s) : u[i] = IF i = b THEN v ELSE s[i]
  BY <1>1, SMTT(60)
<1> HIDE DEF u
<1>7. t \in Seq(RobType) /\ Len(t) = b
  <2>1. b \in 1..Len(u) /\ Len(u) \in Nat
    BY <1>1, <1>5, SMTT(60)
  <2>2. SubSeq(u, 1, b) \in Seq(RobType)
    BY <1>5, <2>1, SMTT(60)
  <2>3. Len(SubSeq(u, 1, b)) = b
    BY <1>5, <2>1, SMTT(60)
  <2> QED
    BY <1>4, <2>2, <2>3
<1>8. ASSUME NEW i \in 1..b PROVE t[i] = u[i] /\ i \in 1..Len(s)
  BY <1>1, <1>4, <1>5, SMTT(60)
<1> QED
  BY <1>2, <1>6, <1>7, <1>8

RecoverTags(b) == {TagAt(i) : i \in (b + 1)..Len(rob)}

LEMMA RecoverTagsAre ==
  ASSUME Types, NEW b \in 1..Len(rob), NEW s, Len(s) = Len(rob)
  PROVE  RecoverTags(b) = TagsAfter(s, robHead, b) /\ KilledAfter(b, RecoverTags(b))
<1>1. Len(rob) \in Nat
  BY RobFields DEF Types
<1>2. \A i \in (b + 1)..Len(rob) : i \in 1..Len(rob)
  BY <1>1, SMTT(60)
<1>3. \A i \in 1..Len(rob) : i > b <=> i \in (b + 1)..Len(rob)
  BY <1>1, SMTT(60)
<1>4. RecoverTags(b) = TagsAfter(s, robHead, b)
  <2>1. \A i \in (b + 1)..Len(rob) : TagAt(i) = (robHead + (i - 1)) % RobDepth
    BY <1>2, TagIs
  <2> QED
    BY <2>1 DEF RecoverTags, TagsAfter
<1>5. KilledAfter(b, RecoverTags(b))
  BY <1>2, <1>3, TagIs DEF KilledAfter, RecoverTags
<1> QED
  BY <1>4, <1>5

LEMMA HeadStays ==
  ASSUME Types
  PROVE  robHead = (robHead + 0) % RobDepth
<1>1. robHead \in 0..(RobDepth - 1) /\ RobDepth \in Nat \ {0}
  BY RobDepthAssumption DEF Types, Tags
<1>2. robHead + 0 \in Nat /\ robHead + 0 < RobDepth /\ robHead + 0 = robHead /\ robHead + 0 < 2 * RobDepth
  BY <1>1, SMTT(60)
<1> QED
  BY <1>1, <1>2, ModIs, SMTT(60)

LEMMA RecoverCarries ==
  ASSUME Least, Counting, IInv, NEW b \in Unresolved, NEW fired, NEW wake, Allowed(fired, wake, {}),
         UNCHANGED robHead,
         rob' = SubSeq([UpdatedRob(fired, wake, {}) EXCEPT ![b].state = "complete"], 1, b),
         lsq' = RecoverSlots(UpdatedLsq(fired, wake), RecoverTags(b))
  PROVE  Carried(0, b, fired) /\ Linked(rob', robHead', lsq')
<1> DEFINE s == UpdatedRob(fired, wake, {})
           q == UpdatedLsq(fired, wake)
<1>1. Types /\ Linked(rob, robHead, lsq) /\ ResultsOK
  BY DEF IInv
<1>2. Updates(s, fired, wake, {})
  BY <1>1, UpdatedRobIs
<1>3. s \in Seq(RobType) /\ Len(s) = Len(rob)
  BY <1>2 DEF Updates
<1>4. robHead \in Tags /\ Len(rob) <= RobDepth /\ rob \in Seq(RobType)
  BY <1>1 DEF Types
<1>5. b \in 1..Len(rob) /\ ~IsMemory(b)
  BY DEF Unresolved
<1>6. \A k \in 1..Len(rob) : completes(k) => Awaits(k)
  BY <1>1, CompletionsAwait
<1> HIDE DEF s, q
<1>7. Linked(s, robHead, q)
  BY <1>1, <1>2, <1>6, UpdateLinks DEF q
<1>8. PICK t : t = SubSeq([s EXCEPT ![b].state = "complete"], 1, b) /\ t = rob'
  BY DEF s
<1>9. b \in 1..Len(s)
  BY <1>3, <1>5
<1>10. /\ t \in Seq(RobType) /\ Len(t) = b
       /\ \A i \in 1..b : t[i].op = s[i].op /\ t[i].result = s[i].result
                          /\ (i # b => t[i] = s[i]) /\ (i = b => t[i].state = "complete")
  BY <1>3, <1>8, <1>9, BranchCut
<1>11. Len(rob) \in Nat /\ \A i \in 1..b : i \in 1..Len(rob)
  BY <1>4, <1>5, RobFields, SMTT(60)
<1>12. \A i \in 1..Len(rob) : /\ s[i].op = rob[i].op /\ s[i].state = NewState(i, fired, {})
                              /\ s[i].result = NewResult(i)
  BY <1>2 DEF Updates, Changed
<1>13. CutTo(s, b, t)
  <2>1. ~isMem(s[b].op)
    BY <1>5, <1>12 DEF IsMemory, isMem, op
  <2> QED
    BY <1>10, <2>1 DEF CutTo
<1>14. Linked(t, robHead, RecoverSlots(q, TagsAfter(s, robHead, b)))
  BY <1>3, <1>4, <1>7, <1>9, <1>13, RecoverLinks
<1>15. lsq' = RecoverSlots(q, TagsAfter(s, robHead, b))
  BY <1>1, <1>3, <1>5, RecoverTagsAre DEF q
<1>16. Linked(rob', robHead', lsq')
  BY <1>8, <1>14, <1>15
<1>17. ASSUME NEW i \in 1..b
       PROVE  /\ t[i].op = rob[i].op /\ t[i].result = NewResult(i)
              /\ IsMemory(i) => t[i].state = NewState(i, fired, {})
              /\ ~IsMemory(i) => t[i].state # "exception"
  <2>1. i \in 1..Len(rob)
    BY <1>11
  <2>2. ~IsMemory(i) => NewState(i, fired, {}) # "exception"
    BY <1>1, <2>1, StateIs
  <2>3. "complete" # "exception"
    BY SMTT(60)
  <2> QED
    BY <1>5, <1>10, <1>12, <2>1, <2>2, <2>3
<1>18. /\ 0 \in 0..Len(rob) /\ b \in 0..Len(rob) /\ b - 0 <= b /\ b <= RobDepth
       /\ \A i \in (0 + 1)..b : i \in 1..b /\ i - 0 = i
       /\ \A i \in 1..0 : FALSE
       /\ \A j \in 1..b : j \in 1..(b - 0)
  BY <1>4, <1>5, <1>11, RobDepthAssumption, SMTT(60)
<1>19. robHead' = (robHead + 0) % RobDepth
  BY <1>1, HeadStays
<1>20. Carried(0, b, fired)
  <2>1. /\ rob' \in Seq(RobType) /\ Len(rob') <= RobDepth /\ b - 0 <= Len(rob')
        /\ \A j \in 1..Len(rob') : j \in 1..(b - 0)
    BY <1>8, <1>10, <1>18
  <2>2. ASSUME NEW i \in (0 + 1)..b
        PROVE  /\ rob'[i - 0].op = rob[i].op /\ rob'[i - 0].result = NewResult(i)
               /\ IsMemory(i) => rob'[i - 0].state = NewState(i, fired, {})
               /\ ~IsMemory(i) => rob'[i - 0].state # "exception"
    <3>1. i \in 1..b /\ i - 0 = i
      BY <1>18
    <3> QED
      BY <1>8, <1>17, <3>1
  <2> QED
    BY <1>18, <1>19, <2>1, <2>2 DEF Carried
<1> QED
  BY <1>16, <1>20

RecoverEdge(b, cand, killed, lv, fired, resp, ready) ==
    /\ MemorySide(cand, killed, {}, lv, fired, resp, ready)
    /\ UNCHANGED robHead
    /\ \E wake \in SUBSET Unproduced :
          \E updated \in {UpdatedRob(fired, wake, {})} :
              /\ rob' = SubSeq([updated EXCEPT ![b].state = "complete"], 1, b)
              /\ lsq' = RecoverSlots(UpdatedLsq(fired, wake), killed)

LEMMA RecoverIs ==
  ASSUME NEW b, NEW cand, NEW resp, NEW ready, Recover(b, cand, resp, ready)
  PROVE  RecoverEdge(b, cand, RecoverTags(b), loadReadValid(cand, RecoverTags(b)),
                     issueFire(cand, RecoverTags(b), {}, resp, ready), resp, ready)
  BY DEF Recover, RecoverEdge, RecoverTags

\* Nothing commits in a clock of recovery.
LEMMA NothingRetires ==
  ASSUME Least, Types, NEW acc
  PROVE  Committing({}, 0, 0) /\ Retires({}, 0, acc, 0)
<1>1. Committing({}, 0, 0)
  BY NothingCommits
<1>2. PICK r \in 0..0 : Retires({}, 0, acc, r)
  BY <1>1, RetireIs
<1>3. r = 0
  BY SMTT(60)
<1> QED
  BY <1>1, <1>2, <1>3

LEMMA RecoverEdgeKeeps ==
  ASSUME Least, Counting, IInv, UNCHANGED workload, NEW resp \in Responses, NEW ready,
         NEW cand \in AtMostOne(Offered), NEW b \in Unresolved, NEW killed, killed = RecoverTags(b),
         NEW lv, lv => loadReadValid(cand, killed),
         NEW fired, fired = issueFire(cand, killed, {}, resp, ready),
         RecoverEdge(b, cand, killed, lv, fired, resp, ready)
  PROVE  Types' /\ Linked(rob', robHead', lsq') /\ ResultsOK' /\ OwedOK' /\ RetiredStoresConserved'
<1>1. Types /\ Linked(rob, robHead, lsq) /\ ResultsOK
  BY DEF IInv
<1>2. FiredOK(fired, killed, resp)
  BY FiredRight
<1>3. MemorySide(cand, killed, {}, lv, fired, resp, ready) /\ UNCHANGED robHead
  BY DEF RecoverEdge
<1>4. PICK wake \in SUBSET Unproduced :
        /\ rob' = SubSeq([UpdatedRob(fired, wake, {}) EXCEPT ![b].state = "complete"], 1, b)
        /\ lsq' = RecoverSlots(UpdatedLsq(fired, wake), RecoverTags(b))
  BY DEF RecoverEdge
<1>5. Allowed(fired, wake, {})
  BY <1>2 DEF Allowed, FiredOK
<1>6. Carried(0, b, fired) /\ Linked(rob', robHead', lsq')
  BY <1>3, <1>4, <1>5, RecoverCarries
<1>7. KilledAfter(b, killed)
  BY <1>1, RecoverTagsAre DEF Unresolved
<1>8. Committing({}, 0, 0) /\ Retires({}, 0, Accepts({}, lv, ready), 0)
  BY <1>1, NothingRetires
<1>9. Types' /\ ResultsOK' /\ OwedOK' /\ RetiredStoresConserved'
  BY <1>3, <1>6, <1>7, <1>8, SideKeeps
<1> QED
  BY <1>6, <1>9

LEMMA RecoverKeeps ==
  ASSUME Least, Counting, IInv, UNCHANGED workload, NEW resp \in Responses, NEW ready,
         NEW cand \in AtMostOne(Offered), NEW b \in Unresolved, Recover(b, cand, resp, ready)
  PROVE  Holding
<1>1. RecoverEdge(b, cand, RecoverTags(b), loadReadValid(cand, RecoverTags(b)),
                  issueFire(cand, RecoverTags(b), {}, resp, ready), resp, ready)
  BY RecoverIs
<1> QED
  BY <1>1, RecoverEdgeKeeps DEF Holding

--------------------------------------------------------------------------------
(* A trap, and the start.                                                      *)

LEMMA TrapKeeps ==
  ASSUME Least, IInv, UNCHANGED workload, NEW resp \in Responses, NEW ready, Trap(resp, ready)
  PROVE  Holding
<1> DEFINE acc == Accepts({}, FALSE, ready)
<1>1. Types /\ Linked(rob, robHead, lsq) /\ ResultsOK /\ OwedOK /\ RetiredStoresConserved
  BY DEF IInv
<1>2. MemorySide({}, Tags, {}, FALSE, {}, resp, ready) /\ rob' = <<>> /\ robHead' = 0 /\ lsq' = EmptyLsq
  BY DEF Trap
<1>3. /\ response' = resp /\ PendingLoads({}, resp, Tags) /\ CompletionRegister({}, resp, Tags)
      /\ MemoryPort({}, {}, FALSE, ready) /\ Commits({}, FALSE, ready)
  BY <1>2, SideIs
<1>4. Committing({}, 0, 0)
  BY <1>1, NothingCommits
<1>5. PortTakes({}, {}, FALSE, ready, resp, 0)
  BY <1>1, <1>3, <1>4, PortIs
<1>6. Flows(0, acc)
  BY <1>1, <1>3, <1>4, <1>5, BufferKeeps DEF Accepts
<1> HIDE DEF acc
<1>7. PendingThen({}, resp, Tags)
  BY <1>1, <1>3, PendingIs
<1>8. completion' = None
  <2>1. RespOK(resp)
    BY RespIs
  <2>2. resp # None => resp[1] \in Tags
    <3>1. SUFFICES ASSUME resp # None PROVE resp[1] \in Tags
      OBVIOUS
    <3>2. PICK o \in owed : resp[1] = o.id
      BY <2>1, <3>1 DEF RespOK
    <3>3. o \in [id : Tags, values : SUBSET Words]
      BY <1>1 DEF Types
    <3>4. o.id \in Tags
      BY <3>3, SMTT(60)
    <3> QED
      BY <3>2, <3>4
  <2>3. ~responseCompletes(resp, Tags)
    BY <2>2 DEF responseCompletes, responseKilled
  <2> QED
    BY <1>3, <2>3 DEF CompletionRegister
<1>9. \A t \in Tags : pending'[t] # Unkilled
  BY <1>7 DEF PendingThen
<1>10. \A j \in 1..Len(rob') : FALSE
  BY <1>2, NoPlaces
<1>11. ResultsOK'
  BY <1>8, <1>9, <1>10 DEF ResultsOK, None, Unkilled
<1>12. ASSUME NEW o \in owed'
       PROVE  o \in [id : Tags, values : SUBSET Words] /\ pending'[o.id] # None
  <2>1. o \in Still(resp)
    BY <1>5 DEF PortTakes
  <2>2. o \in owed /\ ~Arrives(resp, o.id)
    BY <2>1 DEF Still, Arrives
  <2>3. o \in [id : Tags, values : SUBSET Words]
    BY <1>1, <2>2 DEF Types
  <2>4. o.id \in Tags
    BY <2>3, SMTT(60)
  <2>5. pending[o.id] # None
    BY <1>1, <2>2 DEF OwedOK
  <2> QED
    BY <1>7, <2>2, <2>3, <2>4, <2>5 DEF PendingThen
<1>13. OwedOK' /\ owed' \subseteq [id : Tags, values : SUBSET Words]
  BY <1>10, <1>12 DEF OwedOK, None
<1>14. RetiredStoresConserved'
  <2>1. arch' = With(golden', queue')
    BY <1>6 DEF Flows
  <2> QED
    BY <2>1 DEF RetiredStoresConserved, With, Requests, Buffered
<1>15. rob' \in Seq(RobType) /\ Len(rob') <= RobDepth /\ robHead' \in Tags
  <2>1. <<>> \in Seq(RobType) /\ Len(<<>>) <= RobDepth /\ 0 \in Tags
    BY RobDepthAssumption, SMTT(60) DEF Tags
  <2> QED
    BY <1>2, <2>1
<1>16. pending' \in [Tags -> {None, Unkilled, Killed}] /\ completion' \in Maybe(CompletionType)
  <2>1. None \in Maybe(CompletionType)
    BY DEF None, Maybe
  <2> QED
    BY <1>7, <1>8, <2>1 DEF PendingThen
<1>17. /\ queue' \in Seq(StoreType) /\ Len(queue') <= SbDepth
       /\ golden' \in [Addresses -> Words] /\ arch' \in [Addresses -> Words]
  BY <1>6 DEF Flows
<1>18. workload' \in Workloads
  BY <1>1 DEF Types
<1>19. Types'
  BY <1>13, <1>15, <1>16, <1>17, <1>18 DEF Types, None, Unkilled, Killed, Maybe,
     CompletionType, StoreType, RobType
<1>20. Linked(rob', robHead', lsq')
  BY <1>2, EmptyLinked
<1> QED
  BY <1>11, <1>13, <1>14, <1>19, <1>20 DEF Holding

LEMMA InitIs ==
  ASSUME Least, Init
  PROVE  IInv
<1>1. /\ rob = <<>> /\ robHead = 0 /\ lsq = EmptyLsq
      /\ pending = [t \in Tags |-> None] /\ completion = None /\ queue = <<>>
      /\ golden = [a \in Addresses |-> ZeroWord] /\ arch = golden
      /\ workload \in Workloads
  BY DEF Init
<1>2. owed = {}
  BY DEF Init, Memory!Init
<1>3. /\ <<>> \in Seq(RobType) /\ <<>> \in Seq(StoreType) /\ 0 \in Tags
      /\ Len(<<>>) <= RobDepth /\ Len(<<>>) <= SbDepth
  BY RobDepthAssumption, SMTT(60) DEF Tags
<1>4. ZeroWord \in Words
  BY SMTT(60) DEF ZeroWord, Words, Bytes
<1>5. golden \in [Addresses -> Words] /\ arch \in [Addresses -> Words]
  BY <1>1, <1>4
<1>6. pending \in [Tags -> {None, Unkilled, Killed}] /\ completion \in Maybe(CompletionType)
  BY <1>1 DEF Maybe, None
<1>7. Types
  BY <1>1, <1>2, <1>3, <1>5, <1>6 DEF Types
<1>8. Linked(rob, robHead, lsq)
  BY <1>1, EmptyLinked
<1>9. \A i \in 1..Len(rob) : FALSE
  BY <1>1, NoPlaces
<1>10. \A t \in Tags : pending[t] # Unkilled
  BY <1>1, KilledDiffer
<1>11. ResultsOK /\ OwedOK
  BY <1>1, <1>2, <1>9, <1>10 DEF ResultsOK, OwedOK
<1>12. RetiredStoresConserved
  BY <1>1, WithNothing, ConservedIs
<1> QED
  BY <1>7, <1>8, <1>11, <1>12 DEF IInv

LEMMA NextKeeps ==
  ASSUME Least, Counting, IInv, [Next]_vars
  PROVE  IInv'
<1>1. CASE UNCHANGED vars
  <2>1. /\ rob' = rob /\ robHead' = robHead /\ lsq' = lsq /\ pending' = pending /\ completion' = completion
        /\ queue' = queue /\ golden' = golden /\ owed' = owed /\ arch' = arch /\ workload' = workload
    BY <1>1 DEF vars
  <2>2. Types'
    BY <2>1 DEF IInv, Types
  <2>3. Linked(rob, robHead, lsq)'
    BY <2>1 DEF IInv, Linked
  <2>4. \A i : /\ (IsMemory(i)' <=> IsMemory(i)) /\ (IsLoad(i)' <=> IsLoad(i))
              /\ (misaligned(i)' <=> misaligned(i)) /\ TagAt(i)' = TagAt(i)
    BY <2>1 DEF IsMemory, IsLoad, misaligned, TagAt, op
  <2>5. \A i : Value(i)' = Value(i)
    BY <2>1 DEF Value, MemoryBefore, InFlight, IsMemory, op
  <2>6. \A i, x : Right(i, x)' <=> Right(i, x)
    BY <2>4, <2>5 DEF Right, None
  <2>7. \A i : (Awaits(i)' <=> Awaits(i)) /\ \A c : Completes(i, c)' <=> Completes(i, c)
    BY <2>1, <2>4, <2>6 DEF Awaits, Completes, Unkilled, misaligned, op
  <2>8. ResultsOK'
    BY <2>1, <2>4, <2>6, <2>7 DEF IInv, ResultsOK, Unkilled, None
  <2>9. OwedOK'
    BY <2>1, <2>4, <2>5 DEF IInv, OwedOK, Unkilled, None
  <2>10. RetiredStoresConserved'
    BY <2>1 DEF IInv, RetiredStoresConserved, Buffered
  <2> QED
    BY <2>2, <2>3, <2>8, <2>9, <2>10 DEF IInv
<1>2. CASE Next
  <2>1. UNCHANGED workload
    BY <1>2 DEF Next
  <2>2. PICK resp \in Responses, ready \in BOOLEAN :
          \/ Trap(resp, ready)
          \/ \E cand \in AtMostOne(Offered) :
              \/ \E b \in Unresolved : Recover(b, cand, resp, ready)
              \/ \E lanes \in {candidates(z) : z \in BOOLEAN} : Clock(cand, resp, lanes, ready)
    BY <1>2 DEF Next
  <2>3. CASE Trap(resp, ready)
    BY <2>1, <2>3, TrapKeeps, HoldingIs
  <2>4. CASE \E cand \in AtMostOne(Offered) : \E b \in Unresolved : Recover(b, cand, resp, ready)
    BY <2>1, <2>4, RecoverKeeps, HoldingIs
  <2>5. CASE \E cand \in AtMostOne(Offered) :
               \E lanes \in {candidates(z) : z \in BOOLEAN} : Clock(cand, resp, lanes, ready)
    BY <2>1, <2>5, ClockKeeps, HoldingIs
  <2> QED
    BY <2>2, <2>3, <2>4, <2>5
<1> QED
  BY <1>1, <1>2

--------------------------------------------------------------------------------
(* The steps of MMIO.                                                         *)

LEMMA SideMmio ==
  ASSUME Least, IInv, NEW lanes, NEW n, NEW k, Committing(lanes, n, k),
         NEW cand \in AtMostOne(Offered), NEW resp, NEW ready, NEW killed, NEW lv,
         NEW fired, fired = issueFire(cand, killed, lanes, resp, ready),
         MemorySide(cand, killed, lanes, lv, fired, resp, ready)
  PROVE  MmioStores /\ MmioLoads
<1>1. Types /\ Linked(rob, robHead, lsq)
  BY DEF IInv
<1>2. /\ response' = resp /\ PendingLoads(fired, resp, killed) /\ CompletionRegister(fired, resp, killed)
      /\ MemoryPort(cand, lanes, lv, ready) /\ Commits(lanes, lv, ready)
  BY SideIs
<1>3. /\ \A i, j \in cand : i = j
      /\ \A i \in cand : op(i).addr \in Addresses
      /\ FiredOK(fired, killed, resp)
  BY <1>1, FiredIs
<1>4. PortTakes(cand, lanes, lv, ready, resp, k)
  BY <1>1, <1>2, <1>3, PortIs
<1>5. MmioStores
  BY <1>4, PortSpares
<1>6. MmioLoads
  BY <1>2, <1>3, LoadsWait
<1> QED
  BY <1>5, <1>6

LEMMA StepMmio ==
  ASSUME Least, IInv, Next
  PROVE  MmioStores /\ MmioLoads
<1>1. PICK resp \in Responses, ready \in BOOLEAN :
          \/ Trap(resp, ready)
          \/ \E cand \in AtMostOne(Offered) :
              \/ \E b \in Unresolved : Recover(b, cand, resp, ready)
              \/ \E lanes \in {candidates(z) : z \in BOOLEAN} : Clock(cand, resp, lanes, ready)
  BY DEF Next
<1>2. Types /\ Linked(rob, robHead, lsq) /\ ResultsOK
  BY DEF IInv
<1>3. Committing({}, 0, 0)
  BY <1>2, NothingCommits
<1>4. CASE Trap(resp, ready)
  <2>1. MemorySide({}, Tags, {}, FALSE, {}, resp, ready)
    BY <1>4 DEF Trap
  <2>2. {} \in AtMostOne(Offered) /\ {} = issueFire({}, Tags, {}, resp, ready)
    BY DEF AtMostOne, issueFire
  <2> QED
    BY <1>3, <2>1, <2>2, SideMmio
<1>5. ASSUME NEW cand \in AtMostOne(Offered), NEW b \in Unresolved, Recover(b, cand, resp, ready)
      PROVE  MmioStores /\ MmioLoads
  <2>1. RecoverEdge(b, cand, RecoverTags(b), loadReadValid(cand, RecoverTags(b)),
                    issueFire(cand, RecoverTags(b), {}, resp, ready), resp, ready)
    BY <1>5, RecoverIs
  <2>2. MemorySide(cand, RecoverTags(b), {}, loadReadValid(cand, RecoverTags(b)),
                   issueFire(cand, RecoverTags(b), {}, resp, ready), resp, ready)
    BY <2>1 DEF RecoverEdge
  <2> QED
    BY <1>3, <2>2, SideMmio
<1>6. ASSUME NEW cand \in AtMostOne(Offered), NEW z, NEW lanes, lanes = candidates(z),
             Clock(cand, resp, lanes, ready)
      PROVE  MmioStores /\ MmioLoads
  <2>1. ClockEdge(cand, lanes, loadReadValid(cand, {}), issueFire(cand, {}, lanes, resp, ready),
                  retireLanes(lanes, Accepts(lanes, loadReadValid(cand, {}), ready)), resp, ready)
    BY <1>6, ClockIs
  <2>2. MemorySide(cand, {}, lanes, loadReadValid(cand, {}), issueFire(cand, {}, lanes, resp, ready), resp, ready)
    BY <2>1 DEF ClockEdge
  <2>3. PICK n, k \in 0..2 : Committing(lanes, n, k)
    BY <1>2, <1>6, CandidatesAre
  <2> QED
    BY <2>2, <2>3, SideMmio
<1> QED
  BY <1>1, <1>4, <1>5, <1>6

--------------------------------------------------------------------------------
(* Least members and cardinalities.  Their theorems are brought in only here:  *)
(* the provers meet them in every proof that follows.                          *)

FST == INSTANCE FiniteSetTheorems

LEMMA LeastIs == Least
<1> SUFFICES ASSUME NEW S \in SUBSET Nat, S # {} PROVE \E k \in S : \A n \in S : k <= n
  BY DEF Least
<1>1. PICK k \in S : \A j \in S : ~(<<j, k>> \in FST!OpToRel(<, Nat))
  BY FST!NatLessThanWellFounded, FST!WFMin
<1>2. \A a, b \in Nat : b < a => <<b, a>> \in FST!OpToRel(<, Nat)
  BY SMTT(60) DEF FST!OpToRel
<1>3. \A j \in S : ~(j < k)
  BY <1>1, <1>2
<1>4. \A j \in S : k <= j
  BY <1>3, SMTT(60)
<1> QED
  BY <1>4

\* The theorems speak of the same cardinality.
LEMMA CardinalityIs == ASSUME NEW S PROVE Cardinality(S) = FST!Cardinality(S)
  BY DEF Cardinality, FST!Cardinality

LEMMA CountingIs == Counting
<1> SUFFICES ASSUME NEW m \in Nat, NEW f, NEW S, Enumerates(f, m, S) PROVE Cardinality(S) = m
  BY DEF Counting
<1> DEFINE g == [k \in 1..m |-> f[k - 1]]
<1>1. /\ \A k \in 0..(m - 1) : f[k] \in S
      /\ \A x \in S : \E k \in 0..(m - 1) : f[k] = x
      /\ \A j, k \in 0..(m - 1) : f[j] = f[k] => j = k
  BY DEF Enumerates
<1>2. \A k \in 1..m : k - 1 \in 0..(m - 1) /\ g[k] = f[k - 1]
  BY SMTT(60)
<1>3. g \in [1..m -> S]
  BY <1>1, <1>2
<1>4. \A k \in 0..(m - 1) : k + 1 \in 1..m /\ (k + 1) - 1 = k
  BY SMTT(60)
<1>5. \A j, k \in 1..m : j - 1 = k - 1 => j = k
  BY SMTT(60)
<1> HIDE DEF g
<1>6. ASSUME NEW j \in 1..m, NEW k \in 1..m, g[j] = g[k] PROVE j = k
  <2>1. j - 1 \in 0..(m - 1) /\ k - 1 \in 0..(m - 1) /\ f[j - 1] = f[k - 1]
    BY <1>2, <1>6
  <2>2. j - 1 = k - 1
    BY <1>1, <2>1
  <2> QED
    BY <1>5, <2>2
<1>7. ASSUME NEW x \in S PROVE \E k \in 1..m : g[k] = x
  <2>1. PICK k \in 0..(m - 1) : f[k] = x
    BY <1>1
  <2>2. k + 1 \in 1..m /\ (k + 1) - 1 = k
    BY <1>4
  <2>3. g[k + 1] = x
    BY <1>2, <2>1, <2>2
  <2> QED
    BY <2>2, <2>3
<1>8. DOMAIN g = 1..m
  BY <1>3
<1>9. g \in FST!Injection(1..m, S)
  BY <1>3, <1>6, <1>8 DEF FST!Injection, FST!IsInjective
<1>10. g \in FST!Surjection(1..m, S)
  BY <1>3, <1>7 DEF FST!Surjection
<1>11. FST!ExistsBijection(1..m, S)
  BY <1>9, <1>10 DEF FST!ExistsBijection, FST!Bijection
<1>12. FST!Cardinality(S) = m
  BY <1>11, FST!FS_CountingElements
<1> QED
  BY <1>12, CardinalityIs

--------------------------------------------------------------------------------
(* The theorems.                                                               *)

\* The invariant that makes the others inductive: slots and places correspond,
\* results and answers under way are right, memory and buffer are what retired.
THEOREM InvariantHolds == Spec => []IInv
<1>1. Init => IInv
  BY LeastIs, InitIs
<1>2. IInv /\ [Next]_vars => IInv'
  BY LeastIs, CountingIs, NextKeeps
<1> QED
  BY <1>1, <1>2, PTL DEF Spec

\* Every Load that writes a result back has the value a one-at-a-time execution
\* would give it, whatever was forwarded, reordered, answered late or killed.
THEOREM LoadsInProgramOrder == Spec => []LoadsSeeProgramOrder
<1>1. IInv => LoadsSeeProgramOrder
  BY LoadsAreRight
<1> QED
  BY <1>1, InvariantHolds, PTL

\* No retired Store is lost, doubled or reordered between the commit stage, the
\* Store Buffer and memory.
THEOREM StoresConserved == Spec => []RetiredStoresConserved
<1>1. IInv => RetiredStoresConserved
  BY DEF IInv
<1> QED
  BY <1>1, InvariantHolds, PTL

\* The LSQ is the memory part of the ROB, in order, within both capacities.
THEOREM LsqFollowsRob == Spec => []LsqMatchesRob
<1>1. IInv => LsqMatchesRob
  BY LeastIs, CountingIs, RingsMatch
<1> QED
  BY <1>1, InvariantHolds, PTL

\* Every issued operation has exactly one result on its way, and a killed one
\* has none, although tags are used again while old answers are outstanding.
THEOREM AnswersFindTheirOwner == Spec => []ResultsFindTheirOwner
<1>1. IInv => ResultsFindTheirOwner
  BY OwnersAre
<1> QED
  BY <1>1, InvariantHolds, PTL

\* The LSQ has the data of every issued Store whose register has been written.
THEOREM StoreDataIsThere == Spec => []StoreDataArrives
<1>1. IInv => StoreDataArrives
  BY DataIsThere
<1> QED
  BY <1>1, InvariantHolds, PTL

\* An MMIO Store takes effect, and an MMIO Load is sent, only when everything
\* before it in program order has reached memory.
THEOREM MmioIsPrecise == Spec => MmioInOrder
<1>1. IInv /\ [Next]_vars =>
        [/\ \A a \in Addresses : a.mmio /\ golden'[a] # golden[a] => golden = arch
         /\ \A i \in 1..Len(rob) :
              IsLoad(i) /\ op(i).addr.mmio /\ pending[TagAt(i)] = None /\ pending'[TagAt(i)] # None
              => golden = arch /\ \A j \in 1..(i - 1) : ~IsMemory(j)]_vars
  <2>1. ASSUME IInv, Next PROVE MmioStores /\ MmioLoads
    BY <2>1, LeastIs, StepMmio
  <2> QED
    BY <2>1 DEF MmioStores, MmioLoads
<1> QED
  BY <1>1, InvariantHolds, PTL DEF Spec, MmioInOrder
=============================================================================
