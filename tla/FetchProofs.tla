---------------------------- MODULE FetchProofs ----------------------------
(* The cache, the predictor's context, the fetch controller and the queue hold *)
(* one stream of right words, for every geometry of the cache and the queue,   *)
(* every program and every sequence of predictions and redirects.              *)
EXTENDS Fetch, Integers, TLAPS

\* The default provers, one after the other, with time to spare.
USE SMTT(20), ZenonT(40)

CacheType ==
    [array : [Sets -> Entries], lookupValid : BOOLEAN, initialLookupPending : BOOLEAN,
     lookupPc : Addrs, read : [Lanes -> Entries], refillActive : BOOLEAN, retryPending : BOOLEAN,
     refillLineBase : Addrs, secondRefillPending : BOOLEAN, secondRefillLineBase : Addrs,
     refillIssuedCount : 0 .. WordsPerLine, refillReceivedCount : Beats,
     refillBuffer : [Beats -> Addrs \cup {NoWord}], response : Addrs \cup {NoWord}]

\* The words that a line with this tag has in this set.
Right(entry, set) ==
    entry.valid => \A beat \in Beats :
        entry.line[beat] = (entry.tag * SetNum + set) * WordsPerLine + beat

ArrayOK == \A set \in Sets : Right(ic.array[set], set)

\* What a lookup read is a line of the set of its address.
ReadOK ==
    ic.lookupValid => \A lane \in Lanes :
        Right(ic.read[lane], lineIndex(laneAddress(ic.lookupPc, lane)))

\* Lines start at multiples of their length.  The backing memory answers the
\* beat that is received next, and nobody else.
RefillOK ==
    /\ ic.refillLineBase % WordsPerLine = 0 /\ ic.secondRefillLineBase % WordsPerLine = 0
    /\ ~ic.refillActive => ic.response = NoWord
    /\ ic.refillActive =>
          /\ ic.response = NoWord => ic.refillIssuedCount = 0 /\ ic.refillReceivedCount = 0
          /\ ic.response # NoWord =>
                /\ ic.response = ic.refillLineBase + ic.refillReceivedCount
                /\ ic.refillIssuedCount = ic.refillReceivedCount + 1
          /\ \A beat \in Beats : beat < ic.refillReceivedCount =>
                ic.refillBuffer[beat] = ic.refillLineBase + beat

\* One stage has the request, and all agree on its address.
StageOK ==
    /\ context \in [valid : BOOLEAN, pc : Addrs] /\ pc \in Addrs
    /\ context.valid <=> ic.lookupValid \/ ic.refillActive \/ ic.retryPending
    /\ context.valid => context.pc = pc /\ ic.lookupPc = pc
    /\ ~(ic.lookupValid /\ ic.refillActive) /\ ~(ic.retryPending /\ ic.lookupValid)
    /\ ~(ic.retryPending /\ ic.refillActive)

CountOK == classified \in Nat /\ ClassifiedOnce

QueueType ==
    [entries : [0 .. Depth - 1 -> Packets], head : 0 .. Depth - 1, tail : 0 .. Depth - 1,
     entryCount : 0 .. Depth]
QueueOK == fq \in QueueType /\ fq.tail = addPtr(fq.head, fq.entryCount)

IInv ==
    /\ ic \in CacheType /\ decodePc \in Addrs
    /\ ArrayOK /\ ReadOK /\ RefillOK /\ StageOK /\ CountOK /\ QueueOK

--------------------------------------------------------------------------------
(* Arithmetic on addresses.                                                     *)

\* Quotient and remainder are what they should be, and nothing else is.
LEMMA Divides ==
  ASSUME NEW m \in Nat \ {0}, NEW n \in Nat
  PROVE  /\ n \div m \in Nat /\ n % m \in 0 .. m - 1
         /\ n = m * (n \div m) + (n % m)
<1>1. n % m \in 0 .. m - 1
  OBVIOUS
<1>2. n \div m \in Int
  OBVIOUS
<1>3. n = m * (n \div m) + (n % m)
  <2>1. \A x \in Nat \ {0} : \A y \in Nat : y - x * (y \div x) = (y % x)
    BY Z3T(20)
  <2> DEFINE d == n \div m
             e == n % m
  <2>2. n - m * d = e /\ d \in Int /\ e \in Int
    BY <2>1, <1>1, <1>2
  <2> HIDE DEF d, e
  <2>3. n = m * d + e
    BY <2>2
  <2> QED
    BY <2>3 DEF d, e
<1>4. ~(n \div m < 0)
  <2> SUFFICES ASSUME 0 - (n \div m) >= 1 PROVE FALSE
    BY <1>2
  <2> QED
    BY <1>1, <1>2, <1>3
<1> QED
  BY <1>1, <1>2, <1>3, <1>4

LEMMA SmallProduct ==
  ASSUME NEW m \in Nat, NEW k \in Int, k >= 1
  PROVE  m * k >= m
<1>1. m * k = m + m * (k - 1) /\ k - 1 \in Nat
  OBVIOUS
<1>2. m * (k - 1) >= 0
  BY <1>1
<1> QED
  BY <1>1, <1>2

LEMMA DivUnique ==
  ASSUME NEW m \in Nat \ {0}, NEW q \in Nat, NEW r \in 0 .. m - 1, NEW n \in Nat, n = m * q + r
  PROVE  n \div m = q /\ n % m = r
<1> DEFINE d == n \div m
           e == n % m
<1>1. d \in Nat /\ e \in 0 .. m - 1 /\ n = m * d + e
  BY Divides, ZenonT(40)
<1> HIDE DEF d, e
<1>2. m * (d - q) = r - e /\ m * (q - d) = e - r
  BY <1>1
<1>3. ~(d - q >= 1)
  BY <1>1, <1>2, SmallProduct
<1>4. ~(q - d >= 1)
  BY <1>1, <1>2, SmallProduct
<1>5. d = q
  BY <1>1, <1>3, <1>4
<1> QED
  BY <1>1, <1>5 DEF d, e

\* An address is its tag, its set and its beat.
LEMMA AddressSplits ==
  ASSUME NEW a \in Nat
  PROVE  /\ lineTag(a) \in Nat /\ lineIndex(a) \in Sets /\ a % WordsPerLine \in Beats
         /\ (lineTag(a) * SetNum + lineIndex(a)) * WordsPerLine + (a % WordsPerLine) = a
<1> DEFINE q == a \div WordsPerLine
           b == a % WordsPerLine
           t == q \div SetNum
           i == q % SetNum
<1>1. WordsPerLine \in Nat \ {0} /\ SetNum \in Nat \ {0}
  BY CacheAssumption
<1>2. q \in Nat /\ b \in 0 .. WordsPerLine - 1 /\ a = WordsPerLine * q + b
  BY <1>1, Divides, ZenonT(40)
<1>3. t \in Nat /\ i \in 0 .. SetNum - 1 /\ q = SetNum * t + i
  BY <1>1, <1>2, Divides, ZenonT(40)
<1>4. lineIndex(a) = i /\ lineTag(a) = a \div (WordsPerLine * SetNum)
  BY DEF lineIndex, lineTag
<1> HIDE DEF q, b, t, i
<1>5. WordsPerLine * SetNum \in Nat \ {0}
  BY <1>1
<1>6. WordsPerLine * i + b \in 0 .. (WordsPerLine * SetNum - 1)
  <2>1. SetNum - i >= 1 /\ SetNum - i \in Int
    BY <1>1, <1>3
  <2>2. WordsPerLine * (SetNum - i) >= WordsPerLine
    BY <2>1, <1>1, SmallProduct
  <2>3. WordsPerLine * (SetNum - i) = WordsPerLine * SetNum - WordsPerLine * i
    BY <1>1, <1>3
  <2>4. WordsPerLine * i \in Nat
    BY <1>1, <1>3
  <2> QED
    BY <2>2, <2>3, <2>4, <1>1, <1>2, <1>5
<1>7. a = (WordsPerLine * SetNum) * t + (WordsPerLine * i + b)
  BY <1>1, <1>2, <1>3
<1>8. a \div (WordsPerLine * SetNum) = t
  BY <1>3, <1>5, <1>6, <1>7, DivUnique
<1>9. (t * SetNum + i) * WordsPerLine + b = a
  BY <1>1, <1>2, <1>3
<1>10. lineTag(a) = t
  BY <1>4, <1>8
<1>11. (lineTag(a) * SetNum + lineIndex(a)) * WordsPerLine + b = a /\ lineTag(a) \in Nat
       /\ lineIndex(a) \in 0 .. SetNum - 1 /\ b \in 0 .. WordsPerLine - 1
  BY <1>2, <1>3, <1>4, <1>9, <1>10
<1> QED
  BY <1>11, ZenonT(40) DEF b, Sets, Beats

\* A line starts at a multiple of its length and ends inside the memory.
LEMMA LineFits ==
  ASSUME NEW a \in Addrs, a % WordsPerLine = 0, NEW k \in Beats
  PROVE  a + k \in Addrs
<1> DEFINE W == WordsPerLine
           M == W * SetNum
           x == a \div W
           y == AddrNum \div M
<1>1. W \in Nat \ {0} /\ SetNum \in Nat \ {0} /\ AddrNum \in Nat /\ AddrNum % M = 0 /\ a \in Nat
      /\ a < AddrNum
  BY CacheAssumption DEF Addrs
<1>2. M \in Nat \ {0}
  BY <1>1
<1>9. /\ x \in Nat /\ a = W * x + (a % W) /\ a % W = 0
      /\ y \in Nat /\ AddrNum = M * y + (AddrNum % M)
  BY <1>1, <1>2, Divides, ZenonT(40)
<1> HIDE DEF x, y
<1>3. x \in Nat /\ a = W * x
  BY <1>1, <1>9
<1>4. y \in Nat /\ AddrNum = M * y
  BY <1>1, <1>2, <1>9
<1>5. AddrNum = W * (SetNum * y)
  BY <1>1, <1>4
<1>6. W * (SetNum * y - x) = AddrNum - a /\ SetNum * y - x \in Int
  BY <1>1, <1>3, <1>4, <1>5
<1>7. SetNum * y - x >= 1
  <2> SUFFICES ASSUME SetNum * y - x <= 0 PROVE FALSE
    BY <1>6
  <2>1. W * (x - SetNum * y) >= 0
    BY <1>1, <1>3, <1>4, <1>6
  <2>2. W * (x - SetNum * y) = a - AddrNum
    BY <1>1, <1>3, <1>4, <1>5
  <2> QED
    BY <2>1, <2>2, <1>1
<1>8. AddrNum - a >= W
  BY <1>1, <1>6, <1>7, SmallProduct
<1> QED
  BY <1>1, <1>8 DEF Beats, Addrs

LEMMA AddressFacts ==
  ASSUME NEW a \in Addrs
  PROVE  /\ lineTag(a) \in 0 .. AddrNum /\ lineIndex(a) \in Sets
         /\ lineBase(a) \in Addrs /\ lineBase(a) % WordsPerLine = 0
<1> DEFINE M == WordsPerLine * SetNum
           t == a \div M
           x == a \div WordsPerLine
           e == a % WordsPerLine
<1>1. /\ WordsPerLine \in Nat \ {0} /\ SetNum \in Nat \ {0} /\ AddrNum \in Nat
      /\ a \in Nat /\ a < AddrNum
  BY CacheAssumption DEF Addrs
<1>2. M \in Nat \ {0}
  BY <1>1
<1>3. /\ t \in Nat /\ a = M * t + (a % M) /\ a % M \in 0 .. M - 1
      /\ x \in Nat /\ a = WordsPerLine * x + e /\ e \in 0 .. WordsPerLine - 1
  BY <1>1, <1>2, Divides, ZenonT(40)
<1>4. lineTag(a) = t /\ lineBase(a) = a - e
  BY DEF lineTag, lineBase
<1> HIDE DEF M, t, x, e
<1>5. t * M >= t
  BY <1>2, <1>3, SmallProduct
<1>6. t <= a
  BY <1>2, <1>3, <1>5
<1>7. lineBase(a) \in Nat /\ lineBase(a) <= a /\ lineBase(a) = WordsPerLine * x + 0
  <2>1. WordsPerLine * x \in Nat
    BY <1>1, <1>3
  <2> QED
    BY <2>1, <1>1, <1>3, <1>4
<1>8. lineBase(a) % WordsPerLine = 0
  <2>1. 0 \in 0 .. WordsPerLine - 1
    BY <1>1
  <2> DEFINE b == lineBase(a)
  <2>2. b \in Nat /\ b = WordsPerLine * x + 0 /\ x \in Nat /\ WordsPerLine \in Nat \ {0}
    BY <1>1, <1>3, <1>7, ZenonT(40)
  <2> HIDE DEF b
  <2>3. b % WordsPerLine = 0
    BY <2>1, <2>2, DivUnique
  <2> QED
    BY <2>3 DEF b
<1> QED
  BY <1>1, <1>3, <1>4, <1>6, <1>7, <1>8, AddressSplits DEF Addrs

LEMMA LaneFacts ==
  ASSUME NEW a \in Addrs, NEW lane \in Nat
  PROVE  laneAddress(a, lane) \in Addrs /\ laneAddress(a, 0) = a
<1>1. AddrNum \in Nat \ {0} /\ a \in Nat /\ a < AddrNum
  BY CacheAssumption DEF Addrs
<1>2. (a + lane) % AddrNum \in 0 .. AddrNum - 1
  BY <1>1, Divides
<1>3. a + 0 = AddrNum * 0 + a /\ a \in 0 .. AddrNum - 1 /\ a + 0 \in Nat
  BY <1>1
<1>4. (a + 0) % AddrNum = a
  BY <1>1, <1>3, DivUnique
<1> QED
  BY <1>2, <1>4 DEF laneAddress, Addrs

\* A refill asks for the words of its line.
LEMMA BackingAddress ==
  ASSUME NEW a \in Addrs, a % WordsPerLine = 0, NEW k \in Beats
  PROVE  a + k \in Addrs /\ (a + k) % AddrNum = a + k
<1>1. a + k \in Addrs
  BY LineFits
<1>2. AddrNum \in Nat \ {0} /\ a + k \in Nat /\ a + k = AddrNum * 0 + (a + k)
      /\ a + k \in 0 .. AddrNum - 1
  BY <1>1, CacheAssumption DEF Addrs
<1>3. (a + k) % AddrNum = a + k
  <2> DEFINE n == a + k
  <2> HIDE DEF n
  <2>1. AddrNum \in Nat \ {0} /\ n \in Nat /\ n = AddrNum * 0 + n /\ n \in 0 .. AddrNum - 1
    BY <1>2 DEF n
  <2>2. n % AddrNum = n
    BY <2>1, DivUnique
  <2> QED
    BY <2>2 DEF n
<1> QED
  BY <1>1, <1>3

--------------------------------------------------------------------------------
(* What a clock does to the cache, by the stage that has the request.          *)

SameBases == /\ ic'.refillLineBase = ic.refillLineBase
             /\ ic'.secondRefillLineBase = ic.secondRefillLineBase

\* A request enters and reads the arrays.
Launch(p) ==
    /\ ic'.lookupValid = TRUE /\ ic'.initialLookupPending = TRUE /\ ic'.lookupPc = p
    /\ ic'.array = ic.array /\ ic'.read = ArrayRead(ic, p)
    /\ ic'.refillActive = FALSE /\ ic'.retryPending = FALSE /\ ic'.response = NoWord /\ SameBases

\* The request stays.  It is classified if this is its first lookup.
Stays == /\ ic'.lookupPc = ic.lookupPc
         /\ ic'.initialLookupPending = (ic.initialLookupPending /\ ~ic.lookupValid)

Holds ==
    /\ Stays /\ ic.lookupValid /\ ic'.lookupValid = TRUE
    /\ ic'.array = ic.array /\ ic'.read = ic.read
    /\ ic'.refillActive = FALSE /\ ic'.retryPending = FALSE /\ ic'.response = NoWord /\ SameBases

Misses ==
    /\ Stays /\ ic.lookupValid /\ ic'.lookupValid = FALSE /\ ic'.array = ic.array
    /\ ic'.refillActive = TRUE /\ ic'.retryPending = FALSE /\ ic'.response = NoWord
    /\ ic'.refillIssuedCount = 0 /\ ic'.refillReceivedCount = 0
    /\ ic'.refillLineBase % WordsPerLine = 0 /\ ic'.secondRefillLineBase % WordsPerLine = 0

Retries ==
    /\ Stays /\ ic.retryPending /\ ic'.lookupValid = TRUE
    /\ ic'.array = ic.array /\ ic'.read = ArrayRead(ic, ic.lookupPc)
    /\ ic'.refillActive = FALSE /\ ic'.retryPending = FALSE /\ ic'.response = NoWord /\ SameBases

Asks ==
    /\ Stays /\ ic.refillActive /\ ic.response = NoWord
    /\ ic'.lookupValid = ic.lookupValid /\ ic'.array = ic.array
    /\ ic'.refillActive = TRUE /\ ic'.retryPending = ic.retryPending /\ SameBases
    /\ ic'.refillIssuedCount = 1 /\ ic'.refillReceivedCount = ic.refillReceivedCount
    /\ ic'.refillBuffer = ic.refillBuffer /\ ic'.response = ic.refillLineBase

Receives ==
    /\ Stays /\ ic.refillActive /\ ic.response # NoWord
    /\ ic'.lookupValid = ic.lookupValid /\ ic'.array = ic.array
    /\ ic'.refillActive = TRUE /\ ic'.retryPending = ic.retryPending /\ SameBases
    /\ ic'.refillIssuedCount = ic.refillIssuedCount + 1
    /\ ic'.refillReceivedCount = ic.refillReceivedCount + 1
    /\ ic'.refillBuffer = refillBufferWithResponse(ic)
    /\ ic'.response = ic.refillLineBase + ic.refillIssuedCount

Installs ==
    /\ Stays /\ ic.refillActive /\ ic.response # NoWord /\ lastBeat(ic)
    /\ ic'.lookupValid = ic.lookupValid /\ ic'.array = InstalledArray(ic)
    /\ ic'.refillActive = ic.secondRefillPending
    /\ ic'.retryPending = (ic.retryPending \/ ~ic.secondRefillPending)
    /\ ic'.response = NoWord
    /\ ic'.refillIssuedCount = 0 /\ ic'.refillReceivedCount = 0
    /\ ic'.refillLineBase = IF ic.secondRefillPending THEN ic.secondRefillLineBase
                            ELSE ic.refillLineBase
    /\ ic'.secondRefillLineBase = ic.secondRefillLineBase

LEMMA CacheValues ==
  /\ EmptyLine \in [Beats -> Addrs \cup {NoWord}]
  /\ 0 \in Beats /\ 0 \in 0 .. WordsPerLine /\ NoWord \notin Addrs
<1>1. WordsPerLine \in Nat \ {0} /\ AddrNum \in Nat
  BY CacheAssumption
<1> QED
  BY <1>1 DEF EmptyLine, Beats, NoWord, Addrs

LEMMA ResetType ==
  ASSUME NEW c \in CacheType
  PROVE  CountsReset(c) \in CacheType
BY CacheValues, ZenonT(40) DEF CountsReset, CacheType

LEMMA ReadsEntries ==
  ASSUME NEW c \in CacheType, NEW p \in Addrs
  PROVE  /\ ArrayRead(c, p) \in [Lanes -> Entries]
         /\ \A lane \in Lanes : ArrayRead(c, p)[lane] = c.array[lineIndex(laneAddress(p, lane))]
<1>1. c.array \in [Sets -> Entries]
  BY ZenonT(40) DEF CacheType
<1>2. \A lane \in Lanes : lineIndex(laneAddress(p, lane)) \in Sets
  BY LaneFacts, AddressFacts DEF Lanes
<1> QED
  BY <1>1, <1>2, ZenonT(40) DEF ArrayRead

\* What a request leaves in the registers, after whatever else the clock did.
Entered(r, s, c, p) ==
    /\ r \in CacheType
    /\ r.lookupValid = TRUE /\ r.initialLookupPending = TRUE /\ r.lookupPc = p
    /\ r.read = ArrayRead(c, p) /\ r.array = s.array /\ r.response = NoWord
    /\ r.refillActive = s.refillActive /\ r.retryPending = s.retryPending
    /\ r.refillLineBase = s.refillLineBase /\ r.secondRefillLineBase = s.secondRefillLineBase

\* A request that enters a cache which is not writing its arrays.
LEMMA LaunchFields ==
  ASSUME NEW c \in CacheType, NEW s \in CacheType, NEW p \in Addrs, NEW flush,
         ~arrayWriteEnable(c, flush), NEW r, r = [Launched(s, c, flush, p) EXCEPT !.response = NoWord]
  PROVE  Entered(r, s, c, p)
<1> DEFINE read == ArrayRead(c, p)
<1>1. read \in [Lanes -> Entries]
  BY ReadsEntries
<1>2. s.retryPending \in BOOLEAN
  BY ZenonT(40) DEF CacheType
<1> HIDE DEF read
<1>3. r = [s EXCEPT !.lookupValid = TRUE, !.initialLookupPending = TRUE,
                    !.retryPending = s.retryPending, !.lookupPc = p, !.read = read,
                    !.response = NoWord]
  <2>1. Launched(s, c, flush, p) =
          [s EXCEPT !.lookupValid = ~arrayWriteEnable(c, flush), !.initialLookupPending = TRUE,
                    !.retryPending = s.retryPending \/ arrayWriteEnable(c, flush), !.lookupPc = p,
                    !.read = IF arrayWriteEnable(c, flush) THEN s.read ELSE read]
    BY ZenonT(40) DEF Launched, read, CacheType
  <2>2. /\ (~arrayWriteEnable(c, flush)) = TRUE
        /\ (s.retryPending \/ arrayWriteEnable(c, flush)) = s.retryPending
        /\ (IF arrayWriteEnable(c, flush) THEN s.read ELSE read) = read
    BY <1>2
  <2> QED
    BY <2>1, <2>2, ZenonT(40)
<1>4. r \in CacheType
  BY <1>1, <1>2, <1>3, ZenonT(40) DEF CacheType
<1>5. /\ r.lookupValid = TRUE /\ r.initialLookupPending = TRUE /\ r.lookupPc = p
      /\ r.read = read /\ r.array = s.array /\ r.response = NoWord
      /\ r.refillActive = s.refillActive /\ r.retryPending = s.retryPending
      /\ r.refillLineBase = s.refillLineBase /\ r.secondRefillLineBase = s.secondRefillLineBase
  BY <1>3, ZenonT(40) DEF CacheType
<1> QED
  BY <1>4, <1>5, ZenonT(40) DEF read, Entered

\* A redirect: whatever the cache was doing is dropped.
LEMMA FlushClock ==
  ASSUME ic \in CacheType, NEW p \in Addrs, NEW ready, ic' = ClockCache(ic, TRUE, ready, TRUE, p)
  PROVE  ic' \in CacheType /\ Launch(p)
<1> DEFINE s == Flushed(ic)
<1>1. ~arrayWriteEnable(ic, TRUE) /\ BackingResponse(ic, TRUE) = NoWord
  BY ZenonT(40) DEF arrayWriteEnable, BackingResponse, backingRequestValid
<1>2. s = [ic EXCEPT !.refillIssuedCount = 0, !.refillReceivedCount = 0, !.refillBuffer = EmptyLine,
                     !.lookupValid = FALSE, !.initialLookupPending = FALSE,
                     !.refillActive = FALSE, !.retryPending = FALSE, !.secondRefillPending = FALSE]
  BY ZenonT(40) DEF Flushed, CountsReset
<1>3. ic' = [Launched(s, ic, TRUE, p) EXCEPT !.response = NoWord]
  BY <1>1, ZenonT(40) DEF ClockCache, Stepped
<1> HIDE DEF s
<1>4. s \in CacheType
  BY <1>2, CacheValues, ZenonT(40) DEF CacheType
<1>5. /\ s.array = ic.array /\ s.refillActive = FALSE /\ s.retryPending = FALSE
      /\ s.refillLineBase = ic.refillLineBase /\ s.secondRefillLineBase = ic.secondRefillLineBase
  BY <1>2, ZenonT(40) DEF CacheType
<1>6. Entered(ic', s, ic, p)
  BY <1>1, <1>3, <1>4, LaunchFields, ZenonT(40)
<1> QED
  BY <1>5, <1>6, ZenonT(40) DEF Launch, SameBases, Entered

\* Outside a refill the arrays are not written and the memory is not asked.
LEMMA NoRefill ==
  ASSUME ~ic.refillActive
  PROVE  ~arrayWriteEnable(ic, FALSE) /\ BackingResponse(ic, FALSE) = NoWord
BY ZenonT(40) DEF arrayWriteEnable, BackingResponse, backingRequestValid

\* The first request, and the one that follows a response in the same clock.
LEMMA FreeClock ==
  ASSUME ic \in CacheType, ~ic.refillActive, ~ic.retryPending, ~ic.lookupValid,
         NEW p \in Addrs, NEW ready, ic' = ClockCache(ic, FALSE, ready, TRUE, p)
  PROVE  ic' \in CacheType /\ Launch(p)
<1>1. ic.refillActive = FALSE /\ ic.retryPending = FALSE
  BY DEF CacheType
<1>2. ic' = [Launched(ic, ic, FALSE, p) EXCEPT !.response = NoWord]
  BY NoRefill, ZenonT(40) DEF ClockCache, Stepped
<1>3. Entered(ic', ic, ic, p)
  BY <1>2, NoRefill, LaunchFields, ZenonT(40)
<1> QED
  BY <1>1, <1>3, ZenonT(40) DEF Launch, SameBases, Entered

LEMMA ResponseClock ==
  ASSUME ic \in CacheType, ~ic.refillActive, ~ic.retryPending, ic.lookupValid,
         responseValid(ic, FALSE), NEW p \in Addrs, ic' = ClockCache(ic, FALSE, TRUE, TRUE, p)
  PROVE  ic' \in CacheType /\ Launch(p)
<1> DEFINE s == LookedUp(ic, TRUE)
           pending == ic.initialLookupPending /\ ~initialLookup(ic, FALSE)
<1>1. ic.refillActive = FALSE /\ ic.retryPending = FALSE
  BY DEF CacheType
<1>2. ic' = [Launched(s, ic, FALSE, p) EXCEPT !.response = NoWord]
  BY NoRefill, ZenonT(40) DEF ClockCache, Stepped
<1>3. s = [[ic EXCEPT !.initialLookupPending = pending] EXCEPT !.lookupValid = FALSE]
  BY ZenonT(40) DEF LookedUp, Classified, CacheType
<1>4. pending \in BOOLEAN
  OBVIOUS
<1> HIDE DEF s, pending
<1>5. s \in CacheType
  BY <1>3, <1>4, ZenonT(40) DEF CacheType
<1>6. /\ s.array = ic.array /\ s.refillActive = ic.refillActive /\ s.retryPending = ic.retryPending
      /\ s.refillLineBase = ic.refillLineBase /\ s.secondRefillLineBase = ic.secondRefillLineBase
  BY <1>3, ZenonT(40) DEF CacheType
<1>7. Entered(ic', s, ic, p)
  BY <1>2, <1>5, NoRefill, LaunchFields, ZenonT(40)
<1> QED
  BY <1>1, <1>6, <1>7, ZenonT(40) DEF Launch, SameBases, Entered

LEMMA HoldClock ==
  ASSUME ic \in CacheType, ~ic.refillActive, ~ic.retryPending, ic.lookupValid,
         responseValid(ic, FALSE), NEW p, ic' = ClockCache(ic, FALSE, FALSE, FALSE, p)
  PROVE  ic' \in CacheType /\ Holds
<1> DEFINE pending == ic.initialLookupPending /\ ~initialLookup(ic, FALSE)
<1>1. ic.refillActive = FALSE /\ ic.retryPending = FALSE
  BY DEF CacheType
<1>2. pending \in BOOLEAN /\ pending = (ic.initialLookupPending /\ ~ic.lookupValid)
  BY DEF initialLookup
<1>3. ic' = [LookedUp(ic, FALSE) EXCEPT !.response = NoWord]
  BY NoRefill, ZenonT(40) DEF ClockCache, Stepped
<1>4. LookedUp(ic, FALSE) = [[ic EXCEPT !.initialLookupPending = pending] EXCEPT !.lookupValid = TRUE]
  BY ZenonT(40) DEF LookedUp, Classified, CacheType
<1> HIDE DEF pending
<1>5. ic' = [ic EXCEPT !.initialLookupPending = pending, !.lookupValid = TRUE, !.response = NoWord]
  BY <1>3, <1>4, ZenonT(40)
<1>6. ic' \in CacheType
  BY <1>2, <1>5, ZenonT(40) DEF CacheType
<1>7. /\ ic'.lookupPc = ic.lookupPc /\ ic'.initialLookupPending = pending
      /\ ic'.lookupValid = TRUE /\ ic'.array = ic.array /\ ic'.read = ic.read
      /\ ic'.refillActive = ic.refillActive /\ ic'.retryPending = ic.retryPending
      /\ ic'.response = NoWord /\ ic'.refillLineBase = ic.refillLineBase
      /\ ic'.secondRefillLineBase = ic.secondRefillLineBase
  BY <1>5, ZenonT(40) DEF CacheType
<1> QED
  BY <1>1, <1>2, <1>6, <1>7, ZenonT(40) DEF Holds, Stays, SameBases

LEMMA MissClock ==
  ASSUME ic \in CacheType, ~ic.refillActive, ~ic.retryPending, ic.lookupValid,
         ~responseValid(ic, FALSE), NEW ready, NEW p, ic' = ClockCache(ic, FALSE, ready, FALSE, p)
  PROVE  ic' \in CacheType /\ Misses
<1> DEFINE pending == ic.initialLookupPending /\ ~initialLookup(ic, FALSE)
           base(lane) == lineBase(laneAddress(ic.lookupPc, lane))
           first == IF lookupHit(ic, 0) THEN 1 ELSE 0
           b1 == base(first)
           sp == (first = 0 /\ base(1) # base(0) /\ ~lookupHit(ic, 1))
           b2 == IF first = 0 THEN base(1) ELSE 0
<1>1. ic.refillActive = FALSE /\ ic.retryPending = FALSE /\ ic.lookupPc \in Addrs
  BY ZenonT(40) DEF CacheType
<1>2. pending \in BOOLEAN /\ pending = (ic.initialLookupPending /\ ~ic.lookupValid)
  BY DEF initialLookup
<1>3. sp \in BOOLEAN
  OBVIOUS
<1>4. /\ base(0) \in Addrs /\ base(0) % WordsPerLine = 0
      /\ base(1) \in Addrs /\ base(1) % WordsPerLine = 0
  BY <1>1, LaneFacts, AddressFacts
<1>5. 0 \in Addrs /\ 0 % WordsPerLine = 0
  BY CacheAssumption DEF Addrs
<1>6. b1 \in Addrs /\ b1 % WordsPerLine = 0 /\ b2 \in Addrs /\ b2 % WordsPerLine = 0
  BY <1>4, <1>5, ZenonT(40)
<1>7. Missed(ic) = [CountsReset(ic) EXCEPT !.lookupValid = FALSE, !.refillActive = TRUE,
                      !.refillLineBase = b1, !.secondRefillPending = sp, !.secondRefillLineBase = b2]
  BY ZenonT(40) DEF Missed
<1>8. Classified(ic, ready).initialLookupPending = pending
  BY ZenonT(40) DEF Classified, CacheType
<1>9. ic' = [[Missed(ic) EXCEPT !.initialLookupPending = pending] EXCEPT !.response = NoWord]
  BY <1>8, NoRefill, ZenonT(40) DEF ClockCache, Stepped, LookedUp
<1> HIDE DEF pending, b1, b2, sp
<1>10. ic' = [ic EXCEPT !.refillIssuedCount = 0, !.refillReceivedCount = 0,
                        !.refillBuffer = EmptyLine, !.lookupValid = FALSE, !.refillActive = TRUE,
                        !.refillLineBase = b1, !.secondRefillPending = sp,
                        !.secondRefillLineBase = b2, !.initialLookupPending = pending,
                        !.response = NoWord]
  BY <1>7, <1>9, ZenonT(40) DEF CountsReset
<1>11. ic' \in CacheType
  <2> DEFINE r == CountsReset(ic)
             m == [r EXCEPT !.lookupValid = FALSE, !.refillActive = TRUE, !.refillLineBase = b1,
                            !.secondRefillPending = sp, !.secondRefillLineBase = b2]
  <2>1. r \in CacheType
    BY ResetType
  <2>2. ic' = [m EXCEPT !.initialLookupPending = pending, !.response = NoWord]
    BY <1>7, <1>9, ZenonT(40)
  <2> HIDE DEF r
  <2>3. m \in CacheType
    BY <2>1, <1>3, <1>6, ZenonT(40) DEF CacheType
  <2> HIDE DEF m
  <2> QED
    BY <2>2, <2>3, <1>2, ZenonT(40) DEF CacheType
<1>12. /\ ic'.lookupPc = ic.lookupPc /\ ic'.initialLookupPending = pending
       /\ ic'.lookupValid = FALSE /\ ic'.array = ic.array
       /\ ic'.refillActive = TRUE /\ ic'.retryPending = ic.retryPending
       /\ ic'.refillIssuedCount = 0 /\ ic'.refillReceivedCount = 0
       /\ ic'.response = NoWord /\ ic'.refillLineBase = b1 /\ ic'.secondRefillLineBase = b2
  BY <1>10, ZenonT(40) DEF CacheType
<1> QED
  BY <1>1, <1>2, <1>6, <1>11, <1>12, ZenonT(40) DEF Misses, Stays

LEMMA RetryClock ==
  ASSUME ic \in CacheType, ~ic.refillActive, ic.retryPending, ~ic.lookupValid,
         NEW ready, NEW p, ic' = ClockCache(ic, FALSE, ready, FALSE, p)
  PROVE  ic' \in CacheType /\ Retries
<1> DEFINE read == ArrayRead(ic, ic.lookupPc)
<1>1. ic.refillActive = FALSE /\ ic.lookupPc \in Addrs /\ ic.initialLookupPending \in BOOLEAN
  BY ZenonT(40) DEF CacheType
<1>2. read \in [Lanes -> Entries]
  BY <1>1, ReadsEntries, ZenonT(40)
<1>3. ic' = [ic EXCEPT !.retryPending = FALSE, !.lookupValid = TRUE, !.read = read,
                       !.response = NoWord]
  BY NoRefill, ZenonT(40) DEF ClockCache, Stepped, Retried
<1> HIDE DEF read
<1>4. ic' \in CacheType
  BY <1>2, <1>3, ZenonT(40) DEF CacheType
<1>5. /\ ic'.lookupPc = ic.lookupPc /\ ic'.initialLookupPending = ic.initialLookupPending
      /\ ic'.lookupValid = TRUE /\ ic'.array = ic.array /\ ic'.read = read
      /\ ic'.refillActive = ic.refillActive /\ ic'.retryPending = FALSE
      /\ ic'.response = NoWord /\ ic'.refillLineBase = ic.refillLineBase
      /\ ic'.secondRefillLineBase = ic.secondRefillLineBase
  BY <1>3, ZenonT(40) DEF CacheType
<1>6. ic'.initialLookupPending = (ic.initialLookupPending /\ ~ic.lookupValid)
  BY <1>1, <1>5, ZenonT(40)
<1> QED
  BY <1>1, <1>4, <1>5, <1>6, ZenonT(40) DEF Retries, Stays, SameBases, read

\* In a refill: the first word is asked for.
LEMMA AskClock ==
  ASSUME ic \in CacheType, RefillOK, ic.refillActive, ~ic.lookupValid, ic.response = NoWord,
         NEW ready, NEW p, ic' = ClockCache(ic, FALSE, ready, FALSE, p)
  PROVE  ic' \in CacheType /\ Asks
<1>1. /\ ic.refillActive = TRUE /\ ic.initialLookupPending \in BOOLEAN
      /\ ic.refillLineBase \in Addrs
  BY ZenonT(40) DEF CacheType
<1>2. ic.refillIssuedCount = 0 /\ ic.refillLineBase % WordsPerLine = 0
  BY ZenonT(40) DEF RefillOK
<1>3. 0 < WordsPerLine /\ 0 \in Beats /\ 1 \in 0 .. WordsPerLine
  BY CacheAssumption DEF Beats
<1>4. ic.refillLineBase + 0 = ic.refillLineBase
  BY <1>1, CacheAssumption DEF Addrs
<1>5. backingRequestValid(ic, FALSE) /\ BackingResponse(ic, FALSE) = ic.refillLineBase
  <2>1. backingRequestValid(ic, FALSE)
    BY <1>2, <1>3, ZenonT(40) DEF backingRequestValid
  <2> QED
    BY <2>1, <1>1, <1>2, <1>3, <1>4, BackingAddress, ZenonT(40) DEF BackingResponse, backingRequestAddr
<1>6. Issued(ic) = [ic EXCEPT !.refillIssuedCount = 1]
  <2>1. Issued(ic) = [ic EXCEPT !.refillIssuedCount = ic.refillIssuedCount + 1]
    BY <1>5, ZenonT(40) DEF Issued, CacheType
  <2>2. ic.refillIssuedCount + 1 = 1
    BY <1>2
  <2> QED
    BY <2>1, <2>2, ZenonT(40)
<1>7. ic' = [ic EXCEPT !.refillIssuedCount = 1, !.response = ic.refillLineBase]
  BY <1>5, <1>6, ZenonT(40) DEF ClockCache, Stepped, Refilled
<1>8. ic' \in CacheType
  BY <1>1, <1>3, <1>7, ZenonT(40) DEF CacheType
<1>9. /\ ic'.lookupPc = ic.lookupPc /\ ic'.initialLookupPending = ic.initialLookupPending
      /\ ic'.lookupValid = ic.lookupValid /\ ic'.array = ic.array
      /\ ic'.refillActive = ic.refillActive /\ ic'.retryPending = ic.retryPending
      /\ ic'.refillIssuedCount = 1 /\ ic'.refillReceivedCount = ic.refillReceivedCount
      /\ ic'.refillBuffer = ic.refillBuffer /\ ic'.response = ic.refillLineBase
      /\ ic'.refillLineBase = ic.refillLineBase
      /\ ic'.secondRefillLineBase = ic.secondRefillLineBase
  BY <1>7, ZenonT(40) DEF CacheType
<1>10. ic'.initialLookupPending = (ic.initialLookupPending /\ ~ic.lookupValid)
  BY <1>1, <1>9, ZenonT(40)
<1> QED
  BY <1>1, <1>8, <1>9, <1>10, ZenonT(40) DEF Asks, Stays, SameBases

\* A word arrives and the next one is asked for.
LEMMA ReceiveClock ==
  ASSUME ic \in CacheType, RefillOK, ic.refillActive, ~ic.lookupValid, ic.response # NoWord,
         ~lastBeat(ic), NEW ready, NEW p, ic' = ClockCache(ic, FALSE, ready, FALSE, p)
  PROVE  ic' \in CacheType /\ Receives
<1> DEFINE n == ic.refillIssuedCount
           m == ic.refillReceivedCount
           buffer == refillBufferWithResponse(ic)
           next == ic.refillLineBase + n
<1>1. /\ ic.refillActive = TRUE /\ ic.initialLookupPending \in BOOLEAN
      /\ ic.refillLineBase \in Addrs /\ m \in Beats /\ ic.response \in Addrs \cup {NoWord}
      /\ ic.refillBuffer \in [Beats -> Addrs \cup {NoWord}]
  BY ZenonT(40) DEF CacheType
<1>2. n = m + 1 /\ ic.refillLineBase % WordsPerLine = 0
  BY ZenonT(40) DEF RefillOK
<1>3. /\ n \in Beats /\ n < WordsPerLine /\ n + 1 \in 0 .. WordsPerLine /\ m + 1 \in Beats
  BY <1>1, <1>2, CacheAssumption DEF Beats, lastBeat
<1>4. backingRequestValid(ic, FALSE)
  BY <1>3, ZenonT(40) DEF backingRequestValid
<1>5. BackingResponse(ic, FALSE) = next /\ next \in Addrs
  BY <1>4, <1>1, <1>2, <1>3, BackingAddress, ZenonT(40) DEF BackingResponse, backingRequestAddr
<1>6. buffer \in [Beats -> Addrs \cup {NoWord}]
  BY <1>1, ZenonT(40) DEF refillBufferWithResponse
<1>7. Issued(ic) = [ic EXCEPT !.refillIssuedCount = n + 1]
  BY <1>4, ZenonT(40) DEF Issued, CacheType
<1>8. Stepped(ic, FALSE, ready) = [Issued(ic) EXCEPT !.refillBuffer = buffer, !.refillReceivedCount = @ + 1]
  BY ZenonT(40) DEF Stepped, Refilled
<1>9. ClockCache(ic, FALSE, ready, FALSE, p) = [Stepped(ic, FALSE, ready) EXCEPT !.response = next]
  BY <1>5, ZenonT(40) DEF ClockCache
<1> HIDE DEF buffer, next
<1>10. [ic EXCEPT !.refillIssuedCount = n + 1].refillReceivedCount = m
  BY ZenonT(40) DEF CacheType
<1>11. ic' = [ic EXCEPT !.refillIssuedCount = n + 1, !.refillBuffer = buffer,
                        !.refillReceivedCount = m + 1, !.response = next]
  BY <1>7, <1>8, <1>9, <1>10, ZenonT(40)
<1>12. ic' \in CacheType
  BY <1>3, <1>5, <1>6, <1>11, ZenonT(40) DEF CacheType
<1>13. /\ ic'.lookupPc = ic.lookupPc /\ ic'.initialLookupPending = ic.initialLookupPending
       /\ ic'.lookupValid = ic.lookupValid /\ ic'.array = ic.array
       /\ ic'.refillActive = ic.refillActive /\ ic'.retryPending = ic.retryPending
       /\ ic'.refillIssuedCount = n + 1 /\ ic'.refillReceivedCount = m + 1
       /\ ic'.refillBuffer = buffer /\ ic'.response = next
       /\ ic'.refillLineBase = ic.refillLineBase
       /\ ic'.secondRefillLineBase = ic.secondRefillLineBase
  BY <1>11, ZenonT(40) DEF CacheType
<1>14. ic'.initialLookupPending = (ic.initialLookupPending /\ ~ic.lookupValid)
  BY <1>1, <1>13, ZenonT(40)
<1> QED
  BY <1>1, <1>12, <1>13, <1>14, ZenonT(40) DEF Receives, Stays, SameBases, buffer, next

\* The last word arrives: the line is written, and the second line or the retry
\* of the lookup follows.
LEMMA InstallClock ==
  ASSUME ic \in CacheType, RefillOK, ic.refillActive, ~ic.lookupValid, ic.response # NoWord,
         lastBeat(ic), NEW ready, NEW p, ic' = ClockCache(ic, FALSE, ready, FALSE, p)
  PROVE  ic' \in CacheType /\ Installs
<1> DEFINE r == CountsReset(ic)
           array == InstalledArray(ic)
<1>1. /\ ic.refillActive = TRUE /\ ic.initialLookupPending \in BOOLEAN
      /\ ic.refillLineBase \in Addrs /\ ic.secondRefillLineBase \in Addrs
      /\ ic.refillReceivedCount \in Beats /\ ic.response \in Addrs \cup {NoWord}
      /\ ic.refillBuffer \in [Beats -> Addrs \cup {NoWord}] /\ ic.array \in [Sets -> Entries]
      /\ ic.secondRefillPending \in BOOLEAN /\ ic.retryPending \in BOOLEAN
  BY ZenonT(40) DEF CacheType
<1>2. ~backingRequestValid(ic, FALSE)
  <2>1. ic.refillIssuedCount = ic.refillReceivedCount + 1
    BY ZenonT(40) DEF RefillOK
  <2>2. ic.refillIssuedCount = WordsPerLine
    BY <2>1, CacheAssumption DEF lastBeat
  <2> QED
    BY <2>2, CacheAssumption DEF backingRequestValid
<1>3. array \in [Sets -> Entries]
  <2>1. refillBufferWithResponse(ic) \in [Beats -> Addrs \cup {NoWord}]
    BY <1>1, ZenonT(40) DEF refillBufferWithResponse
  <2>2. lineTag(ic.refillLineBase) \in 0 .. AddrNum /\ lineIndex(ic.refillLineBase) \in Sets
    BY <1>1, AddressFacts
  <2> QED
    BY <1>1, <2>1, <2>2, ZenonT(40) DEF InstalledArray, Entries
<1>4. ic' = [[NextRefill(r) EXCEPT !.array = array] EXCEPT !.response = NoWord]
  BY <1>2, ZenonT(40) DEF ClockCache, Stepped, Refilled, BackingResponse
<1>5. /\ r \in CacheType
      /\ r.secondRefillPending = ic.secondRefillPending
      /\ r.secondRefillLineBase = ic.secondRefillLineBase
      /\ r.lookupPc = ic.lookupPc /\ r.initialLookupPending = ic.initialLookupPending
      /\ r.lookupValid = ic.lookupValid /\ r.refillActive = ic.refillActive
      /\ r.retryPending = ic.retryPending /\ r.refillLineBase = ic.refillLineBase
      /\ r.refillIssuedCount = 0 /\ r.refillReceivedCount = 0
  <2>1. r \in CacheType
    BY ResetType
  <2> QED
    BY <2>1, ZenonT(40) DEF CountsReset, CacheType
<1> HIDE DEF r, array
<1>10. ic'.initialLookupPending = ic.initialLookupPending =>
          ic'.initialLookupPending = (ic.initialLookupPending /\ ~ic.lookupValid)
  BY <1>1, ZenonT(40)
<1>6. CASE ic.secondRefillPending
  <2>1. ic' = [r EXCEPT !.refillLineBase = ic.secondRefillLineBase, !.secondRefillPending = FALSE,
                        !.array = array, !.response = NoWord]
    BY <1>4, <1>5, <1>6, ZenonT(40) DEF NextRefill
  <2>2. ic' \in CacheType
    BY <1>1, <1>3, <1>5, <2>1, ZenonT(40) DEF CacheType
  <2>3. /\ ic'.lookupPc = ic.lookupPc /\ ic'.initialLookupPending = ic.initialLookupPending
        /\ ic'.lookupValid = ic.lookupValid /\ ic'.array = array
        /\ ic'.refillActive = ic.refillActive /\ ic'.retryPending = ic.retryPending
        /\ ic'.refillIssuedCount = 0 /\ ic'.refillReceivedCount = 0 /\ ic'.response = NoWord
        /\ ic'.refillLineBase = ic.secondRefillLineBase
        /\ ic'.secondRefillLineBase = ic.secondRefillLineBase
    BY <1>5, <2>1, ZenonT(40) DEF CacheType
  <2>4. ic.secondRefillPending = TRUE /\ (ic.retryPending \/ ~ic.secondRefillPending) = ic.retryPending
    BY <1>1, <1>6
  <2> QED
    BY <1>1, <1>6, <1>10, <2>2, <2>3, <2>4, ZenonT(40) DEF Installs, Stays, array
<1>7. CASE ~ic.secondRefillPending
  <2>1. ic' = [r EXCEPT !.refillActive = FALSE, !.retryPending = TRUE,
                        !.array = array, !.response = NoWord]
    BY <1>4, <1>5, <1>7, ZenonT(40) DEF NextRefill
  <2>2. ic' \in CacheType
    BY <1>3, <1>5, <2>1, ZenonT(40) DEF CacheType
  <2>3. /\ ic'.lookupPc = ic.lookupPc /\ ic'.initialLookupPending = ic.initialLookupPending
        /\ ic'.lookupValid = ic.lookupValid /\ ic'.array = array
        /\ ic'.refillActive = FALSE /\ ic'.retryPending = TRUE
        /\ ic'.refillIssuedCount = 0 /\ ic'.refillReceivedCount = 0 /\ ic'.response = NoWord
        /\ ic'.refillLineBase = ic.refillLineBase
        /\ ic'.secondRefillLineBase = ic.secondRefillLineBase
    BY <1>5, <2>1, ZenonT(40) DEF CacheType
  <2>4. ic.secondRefillPending = FALSE /\ (ic.retryPending \/ ~ic.secondRefillPending) = TRUE
    BY <1>1, <1>7
  <2> QED
    BY <1>1, <1>7, <1>10, <2>2, <2>3, <2>4, ZenonT(40) DEF Installs, Stays, array
<1> QED
  BY <1>6, <1>7, ZenonT(40)

--------------------------------------------------------------------------------
(* The response, and the bundle made of it.                                    *)

\* A lookup that hits delivers the word of its address.
LEMMA HitIsRight ==
  ASSUME ic \in CacheType, ReadOK, NEW lane \in Lanes, lookupHit(ic, lane)
  PROVE  responseInsn(ic, lane) = laneAddress(ic.lookupPc, lane)
<1> DEFINE a == laneAddress(ic.lookupPc, lane)
           e == ic.read[lane]
<1>1. a \in Nat
  <2>1. ic.lookupPc \in Addrs
    BY ZenonT(40) DEF CacheType
  <2>2. lane \in Nat
    BY DEF Lanes
  <2>3. a \in Addrs
    BY <2>1, <2>2, LaneFacts, ZenonT(40)
  <2> QED
    BY <2>3 DEF Addrs
<1>2. e.valid /\ e.tag = lineTag(a) /\ ic.lookupValid
  BY ZenonT(40) DEF lookupHit
<1>3. Right(e, lineIndex(a))
  BY <1>2, ZenonT(40) DEF ReadOK
<1>4. /\ a % WordsPerLine \in Beats
      /\ (lineTag(a) * SetNum + lineIndex(a)) * WordsPerLine + (a % WordsPerLine) = a
  BY <1>1, AddressSplits, ZenonT(40)
<1>5. e.line[a % WordsPerLine] =
        (lineTag(a) * SetNum + lineIndex(a)) * WordsPerLine + (a % WordsPerLine)
  BY <1>2, <1>3, <1>4, ZenonT(40) DEF Right
<1> QED
  BY <1>4, <1>5, ZenonT(40) DEF responseInsn

Lane(i, next) == packet(laneAddress(pc, i), laneAddress(pc, i), next)

\* A bundle has the right words at consecutive addresses, whatever is predicted
\* to follow it.
LEMMA BundleFacts ==
  ASSUME ic \in CacheType, ReadOK, StageOK, NEW bundle \in Bundles
  PROVE  \/ bundle = <<>> /\ ~responseValid(ic, FALSE)
         \/ /\ responseValid(ic, FALSE) /\ ic.lookupValid /\ context.valid
            /\ \E next \in Addrs : bundle \in {<<Lane(0, next)>>, <<Lane(0, after(pc)), Lane(1, next)>>}
<1>1. CASE ~usable(FALSE)
  <2>1. bundle = <<>>
    BY <1>1 DEF Bundles
  <2>2. ~responseValid(ic, FALSE)
    BY <1>1, ZenonT(40) DEF usable, responseValid, lookupHit, StageOK, Lanes
  <2> QED
    BY <2>1, <2>2, ZenonT(40)
<1>2. CASE usable(FALSE)
  <2> DEFINE one(next) == <<packet(laneAddress(context.pc, 0), responseInsn(ic, 0), next)>>
             two(next) == <<packet(laneAddress(context.pc, 0), responseInsn(ic, 0), after(context.pc)),
                            packet(laneAddress(context.pc, 1), responseInsn(ic, 1), next)>>
             firsts == IF responseInsn(ic, 0) \in ControlWords THEN Targets ELSE {}
             seconds == Predicted(after(context.pc), responseInsn(ic, 1))
  <2>1. responseValid(ic, FALSE) /\ context.valid /\ lookupHit(ic, 0) /\ lookupHit(ic, 1)
    BY <1>2 DEF usable, responseValid, Lanes
  <2>2. ic.lookupValid /\ context.pc = pc /\ ic.lookupPc = pc /\ pc \in Addrs
    BY <2>1, ZenonT(40) DEF lookupHit, StageOK
  <2>3. 0 \in Lanes /\ 1 \in Lanes
    BY DEF Lanes
  <2>4. responseInsn(ic, 0) = laneAddress(pc, 0) /\ responseInsn(ic, 1) = laneAddress(pc, 1)
    BY <2>1, <2>2, <2>3, HitIsRight, ZenonT(40)
  <2>5. bundle \in {one(next) : next \in firsts} \cup {two(next) : next \in seconds}
    BY <1>2, ZenonT(40) DEF Bundles
  <2>6. firsts \subseteq Addrs
    BY FetchAssumption
  <2>7. seconds \subseteq Addrs
    BY <2>2, FetchAssumption, LaneFacts DEF Predicted, after
  <2>8. PICK next \in Addrs : bundle = one(next) \/ bundle = two(next)
    <3> HIDE DEF one, two, firsts, seconds
    <3> QED
      BY <2>5, <2>6, <2>7
  <2>9. one(next) = <<Lane(0, next)>> /\ two(next) = <<Lane(0, after(pc)), Lane(1, next)>>
    BY <2>2, <2>4, ZenonT(40) DEF Lane
  <2> HIDE DEF one, two
  <2> QED
    BY <2>1, <2>2, <2>8, <2>9, ZenonT(40)
<1> QED
  BY <1>1, <1>2, ZenonT(40)

\* Where fetch goes on.
LEMMA NextRequest ==
  ASSUME ic \in CacheType, ReadOK, StageOK, NEW bundle \in Bundles, NEW issued
  PROVE  nextRequestPc(issued, bundle) \in Addrs
<1>1. pc \in Addrs /\ after(pc) \in Addrs
  BY LaneFacts DEF StageOK, after
<1>2. CASE ~consumed(issued, bundle)
  BY <1>1, <1>2, ZenonT(40) DEF nextRequestPc
<1>3. CASE consumed(issued, bundle)
  <2>1. bundle # <<>>
    BY <1>3, ZenonT(40) DEF consumed
  <2>2. PICK next \in Addrs : bundle \in {<<Lane(0, next)>>, <<Lane(0, after(pc)), Lane(1, next)>>}
    BY <2>1, BundleFacts, ZenonT(40)
  <2>3. bundle[Len(bundle)] \in {Lane(0, next), Lane(1, next)}
    <3>1. CASE bundle = <<Lane(0, next)>>
      BY <3>1
    <3>2. CASE bundle = <<Lane(0, after(pc)), Lane(1, next)>>
      BY <3>2
    <3> QED
      BY <2>2, <3>1, <3>2, ZenonT(40)
  <2>4. bundle[Len(bundle)].next = next
    BY <2>3 DEF Lane, packet
  <2> QED
    BY <1>3, <2>4, ZenonT(40) DEF nextRequestPc
<1> QED
  BY <1>2, <1>3

--------------------------------------------------------------------------------
(* A clock of the fetch path, by what happens to the request.                  *)

\* The request is answered, or there is none, and the next one enters.
Proceeds(issued, bundle, p) ==
    /\ p = nextRequestPc(issued, bundle) /\ p \in Addrs /\ Launch(p) /\ pc' = p
    /\ context' = [valid |-> TRUE, pc |-> p] /\ classified' = 0
    /\ consumed(issued, bundle) \/ bundle = <<>>

\* The request waits for the queue or for the cache.
Lingers(issued, bundle) ==
    /\ ~consumed(issued, bundle) /\ pc' = pc /\ context' = context
    /\ Holds \/ Misses \/ Retries \/ Asks \/ Receives \/ Installs
    /\ classified' = classified + (IF ic.initialLookupPending /\ ic.lookupValid THEN 1 ELSE 0)

Moves(issued, bundle) ==
    /\ ic' \in CacheType
    /\ (\E p \in Addrs : Proceeds(issued, bundle, p)) \/ Lingers(issued, bundle)

LEMMA ClockIs ==
  ASSUME NEW issued, NEW bundle, Clock(issued, bundle), NEW taken, taken = consumed(issued, bundle),
         NEW p, p = nextRequestPc(issued, bundle),
         NEW fire, fire = (requestReady(ic, FALSE, taken) /\ queryReady(taken, FALSE))
  PROVE  /\ ic' = ClockCache(ic, FALSE, taken, fire, p) /\ pc' = p
         /\ context' = NextContext(FALSE, taken, fire, p)
         /\ classified' = NextClassified(FALSE, fire)
BY ZenonT(40) DEF Clock

LEMMA LaunchMoves ==
  ASSUME IInv, NEW bundle \in Bundles, NEW issued, Clock(issued, bundle),
         requestReady(ic, FALSE, consumed(issued, bundle)), queryReady(consumed(issued, bundle), FALSE),
         ~ic.refillActive, ~ic.retryPending, ic.lookupValid => consumed(issued, bundle),
         consumed(issued, bundle) \in BOOLEAN
  PROVE  Moves(issued, bundle)
<1> DEFINE p == nextRequestPc(issued, bundle)
           taken == consumed(issued, bundle)
<1>i. ic \in CacheType /\ ReadOK /\ StageOK
  BY ZenonT(40) DEF IInv
<1>1. p \in Addrs
  BY <1>i, NextRequest, ZenonT(40)
<1>2. /\ ic' = ClockCache(ic, FALSE, taken, TRUE, p) /\ pc' = p
      /\ context' = NextContext(FALSE, taken, TRUE, p)
      /\ classified' = NextClassified(FALSE, TRUE)
  <2>1. (requestReady(ic, FALSE, taken) /\ queryReady(taken, FALSE)) = TRUE
    BY ZenonT(40)
  <2> QED
    BY <2>1, ClockIs, ZenonT(40)
<1>3. context' = [valid |-> TRUE, pc |-> p] /\ classified' = 0
  BY <1>2, ZenonT(40) DEF NextContext, NextClassified
<1>4. taken \/ bundle = <<>>
  BY <1>i, BundleFacts, ZenonT(40)
<1>5. ic' \in CacheType /\ Launch(p)
  <2>1. CASE ~ic.lookupValid
    BY <2>1, <1>i, <1>1, <1>2, FreeClock, ZenonT(40)
  <2>2. CASE ic.lookupValid
    <3>1. taken = TRUE /\ bundle # <<>>
      BY <2>2, ZenonT(40) DEF consumed
    <3>2. responseValid(ic, FALSE)
      BY <3>1, <1>i, BundleFacts, ZenonT(40)
    <3> QED
      BY <2>2, <3>1, <3>2, <1>i, <1>1, <1>2, ResponseClock, ZenonT(40)
  <2> QED
    BY <2>1, <2>2
<1> QED
  BY <1>1, <1>2, <1>3, <1>4, <1>5, ZenonT(40) DEF Moves, Proceeds

LEMMA WaitMoves ==
  ASSUME IInv, NEW bundle \in Bundles, NEW issued, Clock(issued, bundle), context.valid,
         ~consumed(issued, bundle), ~requestReady(ic, FALSE, FALSE)
  PROVE  Moves(issued, bundle)
<1>i. ic \in CacheType /\ ReadOK /\ StageOK /\ RefillOK
  BY ZenonT(40) DEF IInv
<1>1. /\ consumed(issued, bundle) = FALSE /\ nextRequestPc(issued, bundle) = pc
      /\ (requestReady(ic, FALSE, FALSE) /\ queryReady(FALSE, FALSE)) = FALSE
  BY ZenonT(40) DEF nextRequestPc, consumed
<1>2. /\ ic' = ClockCache(ic, FALSE, FALSE, FALSE, pc) /\ pc' = pc
      /\ context' = NextContext(FALSE, FALSE, FALSE, pc)
      /\ classified' = NextClassified(FALSE, FALSE)
  BY <1>1, ClockIs, ZenonT(40)
<1>3. context' = context
  <2>1. context \in [valid : BOOLEAN, pc : Addrs]
    BY <1>i, ZenonT(40) DEF StageOK
  <2> QED
    BY <1>2, <2>1 DEF NextContext
<1>4. classified' = classified + (IF ic.initialLookupPending /\ ic.lookupValid THEN 1 ELSE 0)
  BY <1>2, ZenonT(40) DEF NextClassified, initialLookup
<1>5. ic' \in CacheType /\ (Holds \/ Misses \/ Retries \/ Asks \/ Receives \/ Installs)
  <2>1. CASE ic.lookupValid /\ responseValid(ic, FALSE)
    BY <1>i, <1>2, <2>1, HoldClock, ZenonT(40) DEF StageOK
  <2>2. CASE ic.lookupValid /\ ~responseValid(ic, FALSE)
    BY <1>i, <1>2, <2>2, MissClock, ZenonT(40) DEF StageOK
  <2>3. CASE ic.retryPending
    BY <1>i, <1>2, <2>3, RetryClock, ZenonT(40) DEF StageOK
  <2>4. CASE ic.refillActive
    <3>1. ~ic.lookupValid
      BY <1>i, <2>4, ZenonT(40) DEF StageOK
    <3> QED
      BY <1>i, <1>2, <2>4, <3>1, AskClock, ReceiveClock, InstallClock, ZenonT(40)
  <2> QED
    BY <1>i, <2>1, <2>2, <2>3, <2>4, ZenonT(40) DEF StageOK
<1> QED
  BY <1>1, <1>2, <1>3, <1>4, <1>5, ZenonT(40) DEF Moves, Lingers

LEMMA ClockMoves ==
  ASSUME IInv, NEW bundle \in Bundles, NEW issued, Clock(issued, bundle)
  PROVE  Moves(issued, bundle)
<1> DEFINE taken == consumed(issued, bundle)
<1>i. ic \in CacheType /\ ReadOK /\ StageOK
  BY ZenonT(40) DEF IInv
<1>b. taken \in BOOLEAN
  BY DEF consumed, fetchReady
<1>1. CASE taken
  <2>1. bundle # <<>>
    BY <1>1, ZenonT(40) DEF consumed
  <2>2. responseValid(ic, FALSE) /\ ic.lookupValid
    BY <2>1, <1>i, BundleFacts, ZenonT(40)
  <2>3. ~ic.refillActive /\ ~ic.retryPending
    BY <2>2, <1>i, ZenonT(40) DEF StageOK
  <2>4. requestReady(ic, FALSE, taken) /\ queryReady(taken, FALSE)
    BY <1>1, <2>2, <2>3, ZenonT(40) DEF requestReady, queryReady
  <2> QED
    BY <1>1, <1>b, <2>3, <2>4, LaunchMoves, ZenonT(40)
<1>2. CASE ~taken /\ ~context.valid
  <2>1. ~ic.refillActive /\ ~ic.retryPending /\ ~ic.lookupValid
    BY <1>2, <1>i, ZenonT(40) DEF StageOK
  <2>2. requestReady(ic, FALSE, taken) /\ queryReady(taken, FALSE)
    BY <1>2, <2>1, ZenonT(40) DEF requestReady, queryReady
  <2> QED
    BY <1>b, <2>1, <2>2, LaunchMoves, ZenonT(40)
<1>3. CASE ~taken /\ context.valid
  <2>1. ic.lookupValid \/ ic.refillActive \/ ic.retryPending
    BY <1>3, <1>i, ZenonT(40) DEF StageOK
  <2>2. ~requestReady(ic, FALSE, FALSE)
    BY <2>1, ZenonT(40) DEF requestReady
  <2> QED
    BY <1>3, <2>2, WaitMoves, ZenonT(40)
<1> QED
  BY <1>1, <1>2, <1>3, ZenonT(40)

--------------------------------------------------------------------------------
(* The invariant of the cache and of the request.                              *)

CacheInv == ArrayOK /\ ReadOK /\ RefillOK /\ StageOK /\ CountOK

\* Reading the arrays gives lines of the sets of the two addresses.
LEMMA ReadRight ==
  ASSUME IInv, NEW p \in Addrs, NEW lane \in Lanes
  PROVE  Right(ArrayRead(ic, p)[lane], lineIndex(laneAddress(p, lane)))
<1>1. lane \in Nat
  BY DEF Lanes
<1>2. lineIndex(laneAddress(p, lane)) \in Sets
  BY <1>1, LaneFacts, AddressFacts, ZenonT(40)
<1>3. ArrayRead(ic, p)[lane] = ic.array[lineIndex(laneAddress(p, lane))]
  BY ReadsEntries, ZenonT(40) DEF IInv
<1> QED
  BY <1>2, <1>3, ZenonT(40) DEF IInv, ArrayOK

LEMMA LaunchInv ==
  ASSUME IInv, ic' \in CacheType, NEW p \in Addrs, Launch(p), pc' = p,
         context' = [valid |-> TRUE, pc |-> p], classified' = 0
  PROVE  CacheInv'
<1>1. ArrayOK'
  BY ZenonT(40) DEF IInv, ArrayOK, Launch
<1>2. ReadOK'
  BY ReadRight, ZenonT(40) DEF ReadOK, Launch
<1>3. RefillOK'
  BY ZenonT(40) DEF IInv, RefillOK, Launch, SameBases
<1>4. context'.valid = TRUE /\ context'.pc = p /\ context' \in [valid : BOOLEAN, pc : Addrs]
  BY ZenonT(40)
<1>5. StageOK'
  BY <1>4, ZenonT(40) DEF StageOK, Launch
<1>6. CountOK'
  BY DEF CountOK, ClassifiedOnce, Launch
<1> QED
  BY <1>1, <1>2, <1>3, <1>5, <1>6, ZenonT(40) DEF CacheInv

\* The line that a refill installs has the words of its tag and its set.
LEMMA InstalledRight ==
  ASSUME IInv, Installs
  PROVE  ArrayOK'
<1> DEFINE b == ic.refillLineBase
           m == ic.refillReceivedCount
           buffer == refillBufferWithResponse(ic)
           entry == [valid |-> TRUE, tag |-> lineTag(b), line |-> buffer]
<1>1. /\ b \in Addrs /\ m \in Beats /\ ic.array \in [Sets -> Entries]
      /\ ic.refillBuffer \in [Beats -> Addrs \cup {NoWord}]
      /\ b % WordsPerLine = 0 /\ ic.response = b + m /\ m = WordsPerLine - 1
      /\ \A beat \in Beats : beat < m => ic.refillBuffer[beat] = b + beat
      /\ ic'.array = [ic.array EXCEPT ![lineIndex(b)] = entry]
      /\ \A set \in Sets : Right(ic.array[set], set)
  BY ZenonT(40) DEF IInv, CacheType, RefillOK, ArrayOK, Installs, lastBeat, InstalledArray
<1>2. \A beat \in Beats : buffer[beat] = IF beat = m THEN ic.response ELSE ic.refillBuffer[beat]
  BY <1>1, ZenonT(40) DEF refillBufferWithResponse
<1> HIDE DEF buffer
<1>3. \A beat \in Beats : beat = m \/ beat < m
  BY <1>1, CacheAssumption DEF Beats
<1>4. \A beat \in Beats : buffer[beat] = b + beat
  BY <1>1, <1>2, <1>3, ZenonT(40)
<1>5. lineIndex(b) \in Sets /\ (lineTag(b) * SetNum + lineIndex(b)) * WordsPerLine = b
  <2>1. b \in Nat
    BY <1>1 DEF Addrs
  <2> DEFINE x == (lineTag(b) * SetNum + lineIndex(b)) * WordsPerLine
  <2>2. lineIndex(b) \in Sets /\ x + 0 = b
    BY <1>1, <2>1, AddressSplits, ZenonT(40)
  <2>3. x \in Int
    <3>1. lineTag(b) \in Nat /\ lineIndex(b) \in Nat /\ SetNum \in Nat /\ WordsPerLine \in Nat
      <4>1. lineTag(b) \in Nat /\ lineIndex(b) \in Sets
        BY <2>1, AddressSplits, ZenonT(40)
      <4>2. SetNum \in Nat /\ WordsPerLine \in Nat /\ Sets \subseteq Nat
        BY CacheAssumption DEF Sets
      <4> QED
        BY <4>1, <4>2, ZenonT(40)
    <3> DEFINE t == lineTag(b)
               i == lineIndex(b)
    <3> HIDE DEF t, i
    <3>2. (t * SetNum + i) * WordsPerLine \in Int
      BY <3>1 DEF t, i
    <3> QED
      BY <3>2 DEF t, i
  <2> HIDE DEF x
  <2>4. x = b
    BY <2>2, <2>3
  <2> QED
    BY <2>2, <2>4, ZenonT(40) DEF x
<1>6. Right(entry, lineIndex(b))
  BY <1>4, <1>5, ZenonT(40) DEF Right
<1> HIDE DEF entry
<1>7. ASSUME NEW set \in Sets PROVE Right(ic'.array[set], set)
  <2>1. ic'.array[set] = IF set = lineIndex(b) THEN entry ELSE ic.array[set]
    BY <1>1, ZenonT(40)
  <2> QED
    BY <1>1, <1>6, <2>1, ZenonT(40)
<1> QED
  BY <1>7, ZenonT(40) DEF ArrayOK

LEMMA LingerInv ==
  ASSUME IInv, ic' \in CacheType, NEW issued, NEW bundle, Lingers(issued, bundle)
  PROVE  CacheInv'
<1>e. Holds \/ Misses \/ Retries \/ Asks \/ Receives \/ Installs
  BY ZenonT(40) DEF Lingers
<1>s. /\ pc' = pc /\ context' = context
      /\ context.valid <=> ic.lookupValid \/ ic.refillActive \/ ic.retryPending
      /\ ~(ic.lookupValid /\ ic.refillActive) /\ ~(ic.retryPending /\ ic.lookupValid)
      /\ ~(ic.retryPending /\ ic.refillActive)
  BY ZenonT(40) DEF Lingers, IInv, StageOK
<1>v. context.valid
  BY <1>e, <1>s, ZenonT(40) DEF Holds, Misses, Retries, Asks, Receives, Installs
<1>1. ArrayOK'
  BY <1>e, InstalledRight, ZenonT(40) DEF IInv, ArrayOK, Holds, Misses, Retries, Asks, Receives
<1>2. ReadOK'
  <2>1. CASE Holds
    BY <2>1, ZenonT(40) DEF IInv, ReadOK, Holds, Stays
  <2>2. CASE Retries
    <3>1. ic.lookupPc \in Addrs
      BY ZenonT(40) DEF IInv, CacheType
    <3> QED
      BY <2>2, <3>1, ReadRight, ZenonT(40) DEF ReadOK, Retries, Stays
  <2>3. CASE Misses \/ Asks \/ Receives \/ Installs
    BY <2>3, <1>s, ZenonT(40) DEF ReadOK, Misses, Asks, Receives, Installs
  <2> QED
    BY <1>e, <2>1, <2>2, <2>3, ZenonT(40)
<1>3. RefillOK'
  <2>1. CASE Holds \/ Retries
    BY <2>1, ZenonT(40) DEF IInv, RefillOK, Holds, Retries, SameBases
  <2>t. /\ ic.refillReceivedCount \in Beats /\ ic.refillLineBase \in Addrs
        /\ ic.refillBuffer \in [Beats -> Addrs \cup {NoWord}]
    BY ZenonT(40) DEF IInv, CacheType
  <2>z. \A beat \in Beats : ~(beat < 0)
    BY CacheAssumption DEF Beats
  <2>2. CASE Misses
    BY <2>2, <2>z, ZenonT(40) DEF RefillOK, Misses
  <2>3. CASE Installs
    BY <2>3, <2>z, ZenonT(40) DEF IInv, RefillOK, Installs
  <2>4. CASE Asks
    <3>1. ic.refillReceivedCount = 0 /\ 1 = ic.refillReceivedCount + 1
          /\ ic.refillLineBase = ic.refillLineBase + ic.refillReceivedCount
      <4>1. ic.refillReceivedCount = 0
        BY <2>4, ZenonT(40) DEF IInv, RefillOK, Asks
      <4> QED
        BY <4>1, <2>t, CacheAssumption DEF Addrs
    <3>2. ic.refillLineBase # NoWord
      BY <2>t, CacheValues
    <3> QED
      BY <2>4, <3>1, <3>2, <2>z, ZenonT(40) DEF IInv, RefillOK, Asks, SameBases
  <2>5. CASE Receives
    <3> DEFINE b == ic.refillLineBase
               m == ic.refillReceivedCount
    <3>1. /\ ic.response = b + m /\ ic.refillIssuedCount = m + 1 /\ ic'.response = b + (m + 1)
          /\ ic'.refillIssuedCount = (m + 1) + 1 /\ ic'.refillReceivedCount = m + 1
          /\ ic'.refillLineBase = b /\ ic'.refillActive = TRUE
          /\ ic'.refillBuffer = [ic.refillBuffer EXCEPT ![m] = ic.response]
          /\ ic'.secondRefillLineBase = ic.secondRefillLineBase
          /\ b % WordsPerLine = 0 /\ ic.secondRefillLineBase % WordsPerLine = 0
          /\ \A beat \in Beats : beat < m => ic.refillBuffer[beat] = b + beat
      BY <2>5, ZenonT(40) DEF IInv, RefillOK, Receives, SameBases, refillBufferWithResponse
    <3>2. m + 1 \in Beats
      BY <3>1, ZenonT(40) DEF CacheType
    <3>3. b + (m + 1) # NoWord
      BY <3>1, <3>2, <2>t, LineFits, CacheValues
    <3>4. \A beat \in Beats : beat < m + 1 => beat = m \/ beat < m
      BY <2>t, CacheAssumption DEF Beats
    <3>5. \A beat \in Beats : beat < m + 1 => ic'.refillBuffer[beat] = b + beat
      BY <3>1, <3>4, <2>t, ZenonT(40)
    <3> QED
      BY <3>1, <3>3, <3>5, ZenonT(40) DEF RefillOK
  <2> QED
    BY <1>e, <2>1, <2>2, <2>3, <2>4, <2>5, ZenonT(40)
<1>4. StageOK'
  <2>1. ic'.lookupPc = ic.lookupPc
    BY <1>e, ZenonT(40) DEF Holds, Misses, Retries, Asks, Receives, Installs, Stays
  <2>2. /\ ic'.lookupValid \/ ic'.refillActive \/ ic'.retryPending
        /\ ~(ic'.lookupValid /\ ic'.refillActive) /\ ~(ic'.retryPending /\ ic'.lookupValid)
        /\ ~(ic'.retryPending /\ ic'.refillActive)
    BY <1>e, <1>s, ZenonT(40) DEF Holds, Misses, Retries, Asks, Receives, Installs
  <2> QED
    BY <1>s, <1>v, <2>1, <2>2, ZenonT(40) DEF StageOK, IInv
<1>5. CountOK'
  <2> DEFINE seen == ic.initialLookupPending /\ ic.lookupValid
  <2>1. /\ ic'.initialLookupPending = (ic.initialLookupPending /\ ~ic.lookupValid)
        /\ classified' = classified + (IF seen THEN 1 ELSE 0)
    BY <1>e, ZenonT(40) DEF Holds, Misses, Retries, Asks, Receives, Installs, Stays, Lingers
  <2>2. classified \in Nat /\ classified + (IF ic.initialLookupPending THEN 1 ELSE 0) = 1
    BY <1>v, ZenonT(40) DEF IInv, CountOK, ClassifiedOnce
  <2>3. classified' + (IF ic'.initialLookupPending THEN 1 ELSE 0) = 1 /\ classified' \in Nat
    <3>1. CASE seen
      <4>1. /\ (IF ic.initialLookupPending THEN 1 ELSE 0) = 1
            /\ (IF ic'.initialLookupPending THEN 1 ELSE 0) = 0
            /\ classified' = classified + 1
        BY <2>1, <3>1, ZenonT(40)
      <4>2. classified + 1 = 1
        BY <4>1, <2>2, ZenonT(40)
      <4>3. classified' = 1
        BY <4>1, <4>2, ZenonT(40)
      <4> QED
        BY <4>1, <4>3
    <3>2. CASE ~seen
      <4>1. classified' = classified
        BY <2>1, <2>2, <3>2
      <4>2. (IF ic'.initialLookupPending THEN 1 ELSE 0) = (IF ic.initialLookupPending THEN 1 ELSE 0)
        BY <2>1, <3>2, ZenonT(40)
      <4> QED
        BY <4>1, <4>2, <2>2, ZenonT(40)
    <3> QED
      BY <3>1, <3>2
  <2> DEFINE sum == classified + (IF ic.initialLookupPending THEN 1 ELSE 0)
  <2>4. sum' = 1
    BY <2>3, ZenonT(40)
  <2> HIDE DEF sum
  <2>5. sum' <= 1
    BY <2>4
  <2> QED
    BY <2>3, <2>4, <2>5, ZenonT(40) DEF CountOK, ClassifiedOnce, sum
<1> QED
  BY <1>1, <1>2, <1>3, <1>4, <1>5, ZenonT(40) DEF CacheInv

--------------------------------------------------------------------------------
(* The fetch queue.                                                            *)

Slots == 0 .. Depth - 1

\* Pointers wrap once.
Wrap(x) == IF x < Depth THEN x ELSE x - Depth

LEMMA Wraps ==
  ASSUME NEW x \in Nat, x < 2 * Depth
  PROVE  x % Depth = Wrap(x) /\ Wrap(x) \in Slots
<1>1. Depth \in Nat \ {0}
  BY QueueAssumption
<1>2. CASE x < Depth
  <2>1. x = Depth * 0 + x /\ x \in 0 .. Depth - 1 /\ 0 \in Nat
    BY <1>1, <1>2
  <2>2. x % Depth = x
    BY <1>1, <2>1, DivUnique
  <2> QED
    BY <1>2, <2>1, <2>2, ZenonT(40) DEF Wrap, Slots
<1>3. CASE ~(x < Depth)
  <2> DEFINE r == x - Depth
  <2>1. x = Depth * 1 + r /\ r \in 0 .. Depth - 1 /\ 1 \in Nat
    BY <1>1, <1>3
  <2> HIDE DEF r
  <2>2. x % Depth = r
    BY <1>1, <2>1, DivUnique
  <2> QED
    BY <1>3, <2>1, <2>2, ZenonT(40) DEF Wrap, Slots, r
<1> QED
  BY <1>2, <1>3, ZenonT(40)

LEMMA AddPtrIs ==
  ASSUME NEW a \in Slots, NEW k \in 0 .. Depth
  PROVE  addPtr(a, k) = Wrap(a + k) /\ addPtr(a, k) \in Slots
<1>1. a + k \in Nat /\ a + k < 2 * Depth
  BY QueueAssumption DEF Slots
<1> QED
  BY <1>1, Wraps, ZenonT(40) DEF addPtr

\* The distance of a slot from the tail, counted from one.
Position(slot, t) == IF slot >= t THEN slot - t + 1 ELSE slot - t + Depth + 1

LEMMA PositionIs ==
  ASSUME NEW slot \in Slots, NEW t \in Slots
  PROVE  ((slot + Depth - t) % Depth) + 1 = Position(slot, t) /\ Position(slot, t) \in 1 .. Depth
<1> DEFINE x == slot + Depth - t
<1>1. x \in Nat /\ x < 2 * Depth
  BY QueueAssumption DEF Slots
<1>2. Wrap(x) + 1 = Position(slot, t) /\ Position(slot, t) \in 1 .. Depth
  BY QueueAssumption DEF Slots, Wrap, Position
<1> HIDE DEF x
<1>3. x % Depth = Wrap(x)
  BY <1>1, Wraps, ZenonT(40)
<1> QED
  BY <1>2, <1>3, ZenonT(40) DEF x

\* The ring after k packets left and n came: c were in it.
Turned(h, t, c, k, n, h2, c2) ==
  /\ h2 \in Slots /\ c2 \in 0 .. Depth /\ n \in 0 .. Depth
  /\ Wrap(t + n) = Wrap(h2 + c2)
  /\ \A i \in 1 .. c - k : /\ i \in 1 .. c2 /\ k + i \in 1 .. c
                          /\ Wrap(h2 + (i - 1)) = Wrap(h + (k + i - 1))
                          /\ ~(Position(Wrap(h2 + (i - 1)), t) <= n)
  /\ \A j \in 1 .. n : /\ c - k + j \in 1 .. c2
                       /\ Position(Wrap(h2 + ((c - k + j) - 1)), t) = j

LEMMA Ring ==
  ASSUME NEW h \in Slots, NEW t \in Slots, NEW c \in 0 .. Depth, t = Wrap(h + c),
         NEW k \in 0 .. c, NEW n \in Nat, n <= Depth - c + k,
         NEW h2, h2 = Wrap(h + k), NEW c2, c2 = c - k + n
  PROVE  Turned(h, t, c, k, n, h2, c2)
<1>1. Depth \in Nat \ {0, 1}
  BY QueueAssumption
<1>2. h2 \in Slots /\ c2 \in 0 .. Depth /\ n \in 0 .. Depth
  BY <1>1 DEF Slots, Wrap
<1>3. Wrap(t + n) = Wrap(h2 + c2)
  BY <1>1 DEF Slots, Wrap
<1>4. ASSUME NEW i \in 1 .. c - k
      PROVE  /\ i \in 1 .. c2 /\ k + i \in 1 .. c
             /\ Wrap(h2 + (i - 1)) = Wrap(h + (k + i - 1))
             /\ ~(Position(Wrap(h2 + (i - 1)), t) <= n)
  <2>1. i \in 1 .. c2 /\ k + i \in 1 .. c
    BY <1>1 DEF Slots
  <2>2. Wrap(h2 + (i - 1)) = Wrap(h + (k + i - 1))
    BY <1>1 DEF Slots, Wrap
  <2>3. ~(Position(Wrap(h2 + (i - 1)), t) <= n)
    BY <1>1 DEF Slots, Wrap, Position
  <2> QED
    BY <2>1, <2>2, <2>3
<1>5. ASSUME NEW j \in 1 .. n
      PROVE  /\ c - k + j \in 1 .. c2
             /\ Position(Wrap(h2 + ((c - k + j) - 1)), t) = j
  BY <1>1 DEF Slots, Wrap, Position
<1> QED
  BY <1>2, <1>3, <1>4, <1>5, ZenonT(40) DEF Turned

\* What the queue takes in a clock.
Incoming(issued, bundle) == IF fetchReady(fq, issued, bundle) THEN accepted(bundle) ELSE <<>>

LEMMA IncomingFacts ==
  ASSUME IInv, NEW bundle \in Bundles, NEW issued \in 0 .. 2, issued <= fq.entryCount
  PROVE  /\ Incoming(issued, bundle) \in Seq(Packets)
         /\ Len(Incoming(issued, bundle)) <= Depth - fq.entryCount + issued
<1>q. fq.entryCount \in 0 .. Depth /\ Depth \in Nat
  BY QueueAssumption, ZenonT(40) DEF IInv, QueueOK, QueueType
<1>1. bundle \in Seq(Packets)
  <2>1. CASE bundle = <<>>
    BY <2>1
  <2>2. ASSUME NEW next \in Addrs,
               bundle \in {<<Lane(0, next)>>, <<Lane(0, after(pc)), Lane(1, next)>>}
        PROVE  bundle \in Seq(Packets)
    <3>1. laneAddress(pc, 0) \in Addrs /\ laneAddress(pc, 1) \in Addrs /\ after(pc) \in Addrs
      BY LaneFacts DEF IInv, StageOK, after
    <3>2. Lane(0, next) \in Packets /\ Lane(1, next) \in Packets /\ Lane(0, after(pc)) \in Packets
      BY <2>2, <3>1, ZenonT(40) DEF Lane, packet, Packets
    <3>3. <<Lane(0, next)>> \in Seq(Packets) /\ <<Lane(0, after(pc)), Lane(1, next)>> \in Seq(Packets)
      <4> DEFINE a == Lane(0, next)
                 b == Lane(0, after(pc))
                 d == Lane(1, next)
      <4> HIDE DEF a, b, d
      <4>1. a \in Packets /\ b \in Packets /\ d \in Packets
        BY <3>2 DEF a, b, d
      <4>2. <<a>> \in Seq(Packets) /\ <<b, d>> \in Seq(Packets)
        BY <4>1
      <4> QED
        BY <4>2, ZenonT(40) DEF a, b, d
    <3> QED
      BY <2>2, <3>3, ZenonT(40)
  <2> QED
    BY <2>1, <2>2, BundleFacts, ZenonT(40) DEF IInv
<1>2. accepted(bundle) \in Seq(Packets)
  <2>1. accepted(bundle) = <<>> \/ (bundle # <<>> /\ accepted(bundle) = <<bundle[1]>>)
          \/ accepted(bundle) = bundle
    BY ZenonT(40) DEF accepted
  <2>2. bundle # <<>> => bundle[1] \in Packets
    BY <1>1
  <2>3. <<>> \in Seq(Packets) /\ \A e \in Packets : <<e>> \in Seq(Packets)
    OBVIOUS
  <2> QED
    BY <1>1, <2>1, <2>2, <2>3, ZenonT(40)
<1>3. dequeueCount(fq, issued) = issued
  <2>1. ~(issued > fq.entryCount)
    BY <1>q
  <2> QED
    BY <2>1, ZenonT(40) DEF dequeueCount
<1>4. CASE fetchReady(fq, issued, bundle)
  <2>1. Depth - fq.entryCount + issued >= Len(accepted(bundle))
    BY <1>3, <1>4, ZenonT(40) DEF fetchReady
  <2>2. Len(accepted(bundle)) \in Nat
    BY <1>2
  <2>3. Len(accepted(bundle)) <= Depth - fq.entryCount + issued
    BY <2>1, <2>2, <1>q
  <2> QED
    BY <1>2, <1>4, <2>3, ZenonT(40) DEF Incoming
<1>5. CASE ~fetchReady(fq, issued, bundle)
  <2>1. Incoming(issued, bundle) = <<>>
    BY <1>5, ZenonT(40) DEF Incoming
  <2> QED
    BY <2>1, <1>q
<1> QED
  BY <1>4, <1>5

\* A clock drops the packets that were issued and appends those that come in.
LEMMA QueueStep ==
  ASSUME IInv, NEW bundle \in Bundles, NEW issued \in 0 .. 2, issued <= fq.entryCount,
         fq' = ClockQueue(fq, issued, bundle)
  PROVE  /\ QueueOK'
         /\ fq'.entryCount = fq.entryCount - issued + Len(Incoming(issued, bundle))
         /\ \A i \in 1 .. fq.entryCount - issued : Queued(fq)'[i] = Queued(fq)[issued + i]
         /\ \A j \in 1 .. Len(Incoming(issued, bundle)) :
               Queued(fq)'[fq.entryCount - issued + j] = Incoming(issued, bundle)[j]
<1> DEFINE in == Incoming(issued, bundle)
           n == Len(in)
           c == fq.entryCount
           h == fq.head
           t == fq.tail
           e == fq.entries
           pos(slot) == ((slot + Depth - t) % Depth) + 1
           e2 == [slot \in Slots |-> IF pos(slot) <= n THEN in[pos(slot)] ELSE e[slot]]
           h2 == addPtr(h, issued)
           t2 == addPtr(t, n)
           c2 == c - issued + n
<1>1. /\ h \in Slots /\ t \in Slots /\ c \in 0 .. Depth
      /\ t = addPtr(h, c) /\ e \in [Slots -> Packets]
  BY ZenonT(40) DEF IInv, QueueOK, QueueType, Slots
<1>2. in \in Seq(Packets) /\ n \in Nat /\ n <= Depth - c + issued
  BY IncomingFacts
<1>k. issued \in 0 .. c /\ issued \in 0 .. Depth
  BY <1>1, QueueAssumption
<1>3. fq' = [entries |-> e2, head |-> h2, tail |-> t2, entryCount |-> c2]
  <2>1. ~(issued > c)
    BY <1>1
  <2>2. dequeueCount(fq, issued) = issued
    BY <2>1, ZenonT(40) DEF dequeueCount
  <2> QED
    BY <2>2, ZenonT(40) DEF ClockQueue, Incoming, Slots
<1>4. /\ Queued(fq)' = [i \in 1 .. fq'.entryCount |-> fq'.entries[addPtr(fq'.head, i - 1)]]
      /\ Queued(fq) = [i \in 1 .. c |-> e[addPtr(h, i - 1)]]
  BY ZenonT(40) DEF Queued
<1> HIDE DEF in, n, e2, h2, t2, c2, c, h, t, e
<1>5. fq'.entries = e2 /\ fq'.head = h2 /\ fq'.tail = t2 /\ fq'.entryCount = c2
  BY <1>3
<1>6. t = Wrap(h + c) /\ h2 = Wrap(h + issued) /\ c2 = c - issued + n
  BY <1>1, <1>k, AddPtrIs, ZenonT(40) DEF h2, c2
<1>7. /\ h2 \in Slots /\ c2 \in 0 .. Depth /\ n \in 0 .. Depth
      /\ Wrap(t + n) = Wrap(h2 + c2)
      /\ \A i \in 1 .. c - issued :
            /\ i \in 1 .. c2 /\ issued + i \in 1 .. c
            /\ Wrap(h2 + (i - 1)) = Wrap(h + (issued + i - 1))
            /\ ~(Position(Wrap(h2 + (i - 1)), t) <= n)
      /\ \A j \in 1 .. n : /\ c - issued + j \in 1 .. c2
                           /\ Position(Wrap(h2 + ((c - issued + j) - 1)), t) = j
  <2>1. Turned(h, t, c, issued, n, h2, c2)
    BY <1>1, <1>2, <1>k, <1>6, Ring, ZenonT(40)
  <2> QED
    BY <2>1, ZenonT(40) DEF Turned
<1>8. t2 = addPtr(h2, c2) /\ t2 \in Slots
  BY <1>1, <1>7, AddPtrIs, ZenonT(40) DEF t2
<1>9. \A slot \in Slots : pos(slot) = Position(slot, t) /\ pos(slot) \in 1 .. Depth
  BY <1>1, PositionIs, ZenonT(40)
<1> HIDE DEF pos
<1>10. e2 \in [Slots -> Packets]
  <2>1. ASSUME NEW slot \in Slots
        PROVE  (IF pos(slot) <= n THEN in[pos(slot)] ELSE e[slot]) \in Packets
    <3>1. pos(slot) \in 1 .. Depth
      BY <1>9
    <3>2. e[slot] \in Packets
      BY <1>1, ZenonT(40)
    <3>3. ASSUME pos(slot) <= n PROVE in[pos(slot)] \in Packets
      BY <3>1, <3>3, <1>2 DEF n
    <3> QED
      BY <3>2, <3>3, ZenonT(40)
  <2> QED
    BY <2>1, ZenonT(40) DEF e2
<1>11. QueueOK'
  <2>1. fq' \in QueueType
    BY <1>3, <1>7, <1>8, <1>10 DEF QueueType, Slots
  <2> QED
    BY <2>1, <1>5, <1>8, ZenonT(40) DEF QueueOK
<1>12. ASSUME NEW i \in 1 .. c2
       PROVE  /\ addPtr(h2, i - 1) = Wrap(h2 + (i - 1)) /\ addPtr(h2, i - 1) \in Slots
              /\ Queued(fq)'[i] = e2[addPtr(h2, i - 1)]
  <2>0. c2 \in 0 .. Depth
    BY <1>7, ZenonT(40)
  <2>1. i - 1 \in 0 .. Depth
    BY <2>0, QueueAssumption
  <2> QED
    BY <2>1, <1>4, <1>5, <1>7, AddPtrIs, ZenonT(40)
<1>13. ASSUME NEW i \in 1 .. c - issued PROVE Queued(fq)'[i] = Queued(fq)[issued + i]
  <2> DEFINE s == addPtr(h2, i - 1)
             k == issued + i
  <2>1. /\ i \in 1 .. c2 /\ k \in 1 .. c /\ Wrap(h2 + (i - 1)) = Wrap(h + (k - 1))
        /\ ~(Position(Wrap(h2 + (i - 1)), t) <= n)
    BY <1>7
  <2>2. /\ s = Wrap(h2 + (i - 1)) /\ s \in Slots /\ Queued(fq)'[i] = e2[s]
    BY <2>1, <1>12, ZenonT(40)
  <2> HIDE DEF s, k
  <2>0. k \in 1 .. c /\ c \in 0 .. Depth
    BY <2>1, <1>1, ZenonT(40)
  <2>3. k - 1 \in 0 .. Depth
    BY <2>0, QueueAssumption
  <2>4. s = addPtr(h, k - 1)
    BY <2>1, <2>2, <2>3, <1>1, AddPtrIs, ZenonT(40)
  <2>5. e2[s] = e[s]
    BY <2>1, <2>2, <1>9, ZenonT(40) DEF e2
  <2>6. Queued(fq)[k] = e[addPtr(h, k - 1)]
    BY <2>1, <1>4, ZenonT(40)
  <2> QED
    BY <2>2, <2>4, <2>5, <2>6, ZenonT(40) DEF k
<1>14. ASSUME NEW j \in 1 .. n PROVE Queued(fq)'[c - issued + j] = in[j]
  <2> DEFINE i == c - issued + j
             s == addPtr(h2, i - 1)
  <2>0. n \in Nat
    BY <1>2, ZenonT(40)
  <2>5. j <= n
    BY <2>0
  <2>7. /\ \A l \in 1 .. n : c - issued + l \in 1 .. c2
        /\ \A l \in 1 .. n : Position(Wrap(h2 + ((c - issued + l) - 1)), t) = l
    BY <1>7, ZenonT(40)
  <2>8. i \in 1 .. c2
    BY <2>7, ZenonT(40)
  <2>9. Position(Wrap(h2 + (i - 1)), t) = j
    BY <2>7, ZenonT(40)
  <2>6. i \in 1 .. c2 /\ Position(Wrap(h2 + (i - 1)), t) = j
    BY <2>8, <2>9, ZenonT(40)
  <2>1. i \in 1 .. c2 /\ Position(Wrap(h2 + (i - 1)), t) = j /\ j <= n
    BY <2>6, <2>5, ZenonT(40)
  <2>2. /\ s = Wrap(h2 + (i - 1)) /\ s \in Slots /\ Queued(fq)'[i] = e2[s]
    BY <2>1, <1>12, ZenonT(40)
  <2> HIDE DEF s, i
  <2>3. pos(s) = j
    BY <2>1, <2>2, <1>9, ZenonT(40)
  <2>4. e2[s] = in[j]
    BY <2>1, <2>2, <2>3, ZenonT(40) DEF e2
  <2> QED
    BY <2>2, <2>4, ZenonT(40) DEF i
<1> QED
  BY <1>5, <1>11, <1>13, <1>14, ZenonT(40) DEF c2, in, n, c

\* What is queued are packets.
LEMMA QueuedPackets ==
  ASSUME IInv, NEW i \in 1 .. fq.entryCount
  PROVE  Queued(fq)[i] \in Packets
<1>1. /\ fq.head \in Slots /\ fq.entryCount \in 0 .. Depth /\ fq.entries \in [Slots -> Packets]
  BY ZenonT(40) DEF IInv, QueueOK, QueueType, Slots
<1>2. i - 1 \in 0 .. Depth
  BY <1>1, QueueAssumption
<1>3. addPtr(fq.head, i - 1) \in Slots
  BY <1>1, <1>2, AddPtrIs, ZenonT(40)
<1>4. Queued(fq)[i] = fq.entries[addPtr(fq.head, i - 1)]
  BY ZenonT(40) DEF Queued
<1> QED
  BY <1>1, <1>3, <1>4, ZenonT(40)

LEMMA ClockInv ==
  ASSUME IInv, NEW bundle \in Bundles, NEW issued \in 0 .. 2, issued <= fq.entryCount,
         Clock(issued, bundle)
  PROVE  IInv'
<1>1. ic' \in CacheType /\ CacheInv'
  <2>1. Moves(issued, bundle)
    BY ClockMoves, ZenonT(40)
  <2>2. ic' \in CacheType
    BY <2>1, ZenonT(40) DEF Moves
  <2>3. ASSUME NEW p \in Addrs, Proceeds(issued, bundle, p) PROVE CacheInv'
    BY <2>2, <2>3, LaunchInv, ZenonT(40) DEF Proceeds
  <2>4. ASSUME Lingers(issued, bundle) PROVE CacheInv'
    BY <2>2, <2>4, LingerInv, ZenonT(40)
  <2> QED
    BY <2>1, <2>2, <2>3, <2>4, ZenonT(40) DEF Moves
<1>2. QueueOK'
  <2>1. fq' = ClockQueue(fq, issued, bundle)
    BY ZenonT(40) DEF Clock
  <2> QED
    BY <2>1, QueueStep, ZenonT(40)
<1>3. decodePc' \in Addrs
  <2>1. decodePc' = IF issued = 0 THEN decodePc ELSE Queued(fq)[issued].next
    BY ZenonT(40) DEF Clock
  <2>2. ASSUME issued # 0 PROVE Queued(fq)[issued].next \in Addrs
    <3>1. fq.entryCount \in 0 .. Depth /\ Depth \in Nat
      BY QueueAssumption, ZenonT(40) DEF IInv, QueueOK, QueueType
    <3>2. issued \in 1 .. fq.entryCount
      BY <2>2, <3>1
    <3>3. Queued(fq)[issued] \in Packets
      BY <3>2, QueuedPackets, ZenonT(40)
    <3> QED
      BY <3>3, ZenonT(40) DEF Packets
  <2>3. decodePc \in Addrs
    BY ZenonT(40) DEF IInv
  <2> QED
    BY <2>1, <2>2, <2>3, ZenonT(40)
<1> QED
  BY <1>1, <1>2, <1>3, ZenonT(40) DEF IInv, CacheInv

LEMMA RedirectInv ==
  ASSUME IInv, NEW target \in Targets, Redirect(target)
  PROVE  IInv'
<1>1. target \in Addrs
  BY FetchAssumption
<1>2. (requestReady(ic, TRUE, TRUE) /\ queryReady(FALSE, TRUE)) = TRUE
  BY ZenonT(40) DEF requestReady, queryReady
<1>3. /\ ic' = ClockCache(ic, TRUE, TRUE, TRUE, target) /\ pc' = target
      /\ context' = NextContext(TRUE, FALSE, TRUE, target)
      /\ fq' = FlushQueue(fq) /\ decodePc' = target
      /\ classified' = NextClassified(TRUE, TRUE)
  BY <1>2, ZenonT(40) DEF Redirect
<1>4. context' = [valid |-> TRUE, pc |-> target] /\ classified' = 0
  BY <1>3, ZenonT(40) DEF NextContext, NextClassified
<1>5. ic \in CacheType
  BY ZenonT(40) DEF IInv
<1>6. ic' \in CacheType /\ Launch(target)
  BY <1>1, <1>3, <1>5, FlushClock, ZenonT(40)
<1>7. CacheInv'
  BY <1>1, <1>3, <1>4, <1>6, LaunchInv, ZenonT(40)
<1>8. QueueOK'
  <2>1. fq \in QueueType
    BY ZenonT(40) DEF IInv, QueueOK
  <2>2. 0 \in Slots /\ 0 \in 0 .. Depth
    BY QueueAssumption DEF Slots
  <2>3. addPtr(0, 0) = 0
    <3>1. Wrap(0 + 0) = 0
      BY QueueAssumption DEF Wrap
    <3> QED
      BY <2>2, <3>1, AddPtrIs, ZenonT(40)
  <2>4. fq' \in QueueType /\ fq'.head = 0 /\ fq'.tail = 0 /\ fq'.entryCount = 0
    BY <1>3, <2>1, <2>2, ZenonT(40) DEF FlushQueue, QueueType, Slots
  <2> QED
    BY <2>3, <2>4, ZenonT(40) DEF QueueOK
<1> QED
  BY <1>1, <1>3, <1>6, <1>7, <1>8, ZenonT(40) DEF IInv, CacheInv

LEMMA InitInv ==
  ASSUME Init
  PROVE  IInv
<1>1. /\ ResetPc \in Addrs /\ 0 \in Addrs /\ 0 \in 0 .. WordsPerLine /\ 0 \in Beats
      /\ 0 \in 0 .. AddrNum /\ 0 % WordsPerLine = 0
  BY FetchAssumption, CacheAssumption DEF Addrs, Beats
<1>2. /\ EmptyLine \in [Beats -> Addrs \cup {NoWord}] /\ UnreadSet \in Entries /\ UnreadSet.valid = FALSE
  BY <1>1, ZenonT(40) DEF EmptyLine, UnreadSet, Entries
<1>3. /\ [set \in Sets |-> UnreadSet] \in [Sets -> Entries]
      /\ [lane \in Lanes |-> UnreadSet] \in [Lanes -> Entries]
  BY <1>2, ZenonT(40)
<1>4. ic \in CacheType
  BY <1>1, <1>2, <1>3, ZenonT(40) DEF Init, InitCache, CacheType
<1>5. /\ ic.array = [set \in Sets |-> UnreadSet] /\ ic.lookupValid = FALSE
      /\ ic.refillActive = FALSE /\ ic.retryPending = FALSE /\ ic.initialLookupPending = FALSE
      /\ ic.response = NoWord /\ ic.refillLineBase = 0 /\ ic.secondRefillLineBase = 0
  BY ZenonT(40) DEF Init, InitCache
<1>6. ArrayOK
  BY <1>2, <1>5, ZenonT(40) DEF ArrayOK, Right
<1>7. ReadOK /\ RefillOK
  BY <1>1, <1>5, ZenonT(40) DEF ReadOK, RefillOK
<1>8. context.valid = FALSE /\ context \in [valid : BOOLEAN, pc : Addrs] /\ pc \in Addrs /\ decodePc \in Addrs
  BY <1>1, ZenonT(40) DEF Init
<1>9. StageOK
  BY <1>5, <1>8, ZenonT(40) DEF StageOK
<1>10. CountOK
  BY <1>5, <1>8 DEF Init, CountOK, ClassifiedOnce
<1>11. QueueOK
  <2>1. packet(ResetPc, NoWord, ResetPc) \in Packets
    BY <1>1, ZenonT(40) DEF packet, Packets
  <2>2. 0 \in Slots /\ 0 \in 0 .. Depth
    BY QueueAssumption DEF Slots
  <2>3. addPtr(0, 0) = 0
    <3>1. Wrap(0 + 0) = 0
      BY QueueAssumption DEF Wrap
    <3> QED
      BY <2>2, <3>1, AddPtrIs, ZenonT(40)
  <2>4. [slot \in 0 .. Depth - 1 |-> packet(ResetPc, NoWord, ResetPc)] \in [0 .. Depth - 1 -> Packets]
    BY <2>1, ZenonT(40)
  <2>5. fq \in QueueType /\ fq.head = 0 /\ fq.tail = 0 /\ fq.entryCount = 0
    BY <2>2, <2>4, ZenonT(40) DEF Init, InitQueue, QueueType, Slots
  <2> QED
    BY <2>3, <2>5, ZenonT(40) DEF QueueOK
<1> QED
  BY <1>4, <1>6, <1>7, <1>8, <1>9, <1>10, <1>11, ZenonT(40) DEF IInv

LEMMA StutterInv ==
  ASSUME IInv, UNCHANGED vars
  PROVE  IInv'
<1>1. /\ ic' = ic /\ pc' = pc /\ context' = context /\ fq' = fq
      /\ decodePc' = decodePc /\ classified' = classified
  BY DEF vars
<1>2. ArrayOK' /\ ReadOK' /\ RefillOK'
  BY <1>1, ZenonT(40) DEF IInv, ArrayOK, ReadOK, RefillOK
<1>3. StageOK' /\ QueueOK'
  BY <1>1, ZenonT(40) DEF IInv, StageOK, QueueOK
<1>4. CountOK'
  BY <1>1, ZenonT(40) DEF IInv, CountOK, ClassifiedOnce
<1> QED
  BY <1>1, <1>2, <1>3, <1>4, ZenonT(40) DEF IInv

LEMMA NextInv ==
  ASSUME IInv, [Next]_vars
  PROVE  IInv'
BY ClockInv, RedirectInv, StutterInv, ZenonT(40) DEF Next

LEMMA InvMeans ==
  ASSUME IInv
  PROVE  FetchedWordsAreRight /\ OneRequestEverywhere /\ ClassifiedOnce
<1>1. FetchedWordsAreRight
  BY HitIsRight, ZenonT(40) DEF IInv, ArrayOK, Right, FetchedWordsAreRight
<1>2. TypeOK
  <2>1. /\ ic.array \in [Sets -> Entries] /\ ic.read \in [Lanes -> Entries]
        /\ {ic.lookupValid, ic.initialLookupPending, ic.refillActive,
            ic.retryPending, ic.secondRefillPending} \subseteq BOOLEAN
        /\ {ic.lookupPc, ic.refillLineBase, ic.secondRefillLineBase} \subseteq Addrs
        /\ ic.response \in Addrs \cup {NoWord}
        /\ ic.refillBuffer \in [Beats -> Addrs \cup {NoWord}]
        /\ ic.refillIssuedCount \in 0 .. WordsPerLine /\ ic.refillReceivedCount \in Beats
    BY ZenonT(40) DEF IInv, CacheType
  <2>2. /\ {ic.refillIssuedCount, ic.refillReceivedCount} \subseteq 0 .. WordsPerLine
        /\ ic.refillReceivedCount < WordsPerLine
    BY <2>1, CacheAssumption DEF Beats
  <2>3. /\ fq.entries \in [0 .. Depth - 1 -> Packets] /\ fq.entryCount \in 0 .. Depth
        /\ fq.head \in 0 .. Depth - 1 /\ fq.tail = addPtr(fq.head, fq.entryCount)
    BY ZenonT(40) DEF IInv, QueueOK, QueueType
  <2> QED
    BY <2>1, <2>2, <2>3, ZenonT(40) DEF TypeOK, IInv, StageOK, CountOK
<1>3. TRUE \in {ic.lookupValid, ic.refillActive, ic.retryPending} <=>
        ic.lookupValid \/ ic.refillActive \/ ic.retryPending
  <2>1. ic.lookupValid \in BOOLEAN /\ ic.refillActive \in BOOLEAN /\ ic.retryPending \in BOOLEAN
    BY ZenonT(40) DEF IInv, CacheType
  <2> QED
    BY <2>1, ZenonT(40)
<1>4. OneRequestEverywhere
  BY <1>2, <1>3, ZenonT(40) DEF OneRequestEverywhere, IInv, StageOK
<1> QED
  BY <1>1, <1>4, ZenonT(40) DEF IInv, CountOK

LEMMA AlwaysInv == Spec => []IInv
<1>1. Init => IInv
  BY InitInv, ZenonT(40)
<1>2. IInv /\ [Next]_vars => IInv'
  BY NextInv, ZenonT(40)
<1> QED
  BY <1>1, <1>2, PTL DEF Spec

\* Every valid line of the instruction cache holds the words of its tag and its
\* set, and a lookup that hits delivers the words of the requested pair, for
\* every cache geometry, program and sequence of redirects.
THEOREM WordsStayRight == Spec => []FetchedWordsAreRight
<1>1. IInv => FetchedWordsAreRight
  BY InvMeans, ZenonT(40)
<1> QED
  BY <1>1, AlwaysInv, PTL

\* The cache, the predictor's context and the fetch controller always hold one
\* and the same request, in exactly one stage of the cache, and no register
\* leaves its range.
THEOREM RequestIsShared == Spec => []OneRequestEverywhere
<1>1. IInv => OneRequestEverywhere
  BY InvMeans, ZenonT(40)
<1> QED
  BY <1>1, AlwaysInv, PTL

\* Every accepted request is classified as a hit or as a miss once.
THEOREM RequestsClassifiedOnce == Spec => []ClassifiedOnce
<1>1. IInv => ClassifiedOnce
  BY InvMeans, ZenonT(40)
<1> QED
  BY <1>1, AlwaysInv, PTL

--------------------------------------------------------------------------------
(* The stream.  The queue drops a pair whose first word is zero, and with it a   *)
(* second word that is not (FetchQueue.sv), so the stream is whole only in a     *)
(* program without zero words; that is the hypothesis of the theorem.            *)

\* The address that the i-th of these packets must have when d is owed first.
Owed(q, d, i) == IF i = 1 THEN d ELSE q[i - 1].next

\* The first c packets of q are the path from d up to a.
Path(q, c, d, a) ==
    /\ \A i \in 1 .. c : q[i].pc = Owed(q, d, i) /\ q[i].word = q[i].pc
    /\ a = Owed(q, d, c + 1)

StreamInv == Path(Queued(fq), fq.entryCount, decodePc, pc)

\* Without its first k packets it is still a path, from the address after them.
LEMMA PathSheds ==
  ASSUME NEW q, NEW c \in Nat, NEW d, NEW a, Path(q, c, d, a),
         NEW k \in 0 .. c, NEW r, \A i \in 1 .. c - k : r[i] = q[k + i],
         NEW f, f = Owed(q, d, k + 1)
  PROVE  Path(r, c - k, f, a)
<1>1. ASSUME NEW i \in 1 .. c - k + 1
      PROVE  Owed(r, f, i) = Owed(q, d, k + i)
  <2>1. CASE i = 1
    BY <2>1 DEF Owed
  <2>2. CASE i # 1
    <3>1. /\ i - 1 \in 1 .. c - k /\ k + (i - 1) = (k + i) - 1 /\ k + i # 1
      BY <2>2
    <3>2. r[i - 1] = q[(k + i) - 1]
      BY <3>1
    <3> QED
      BY <2>2, <3>1, <3>2, ZenonT(40) DEF Owed
  <2> QED
    BY <2>1, <2>2, ZenonT(40)
<1>2. ASSUME NEW i \in 1 .. c - k
      PROVE  r[i].pc = Owed(r, f, i) /\ r[i].word = r[i].pc
  <2>1. i \in 1 .. c - k + 1 /\ k + i \in 1 .. c
    OBVIOUS
  <2> QED
    BY <1>1, <2>1, ZenonT(40) DEF Path
<1>3. a = Owed(r, f, (c - k) + 1)
  <2>1. (c - k) + 1 \in 1 .. c - k + 1 /\ k + ((c - k) + 1) = c + 1
    OBVIOUS
  <2> QED
    BY <1>1, <2>1, ZenonT(40) DEF Path
<1> QED
  BY <1>2, <1>3, ZenonT(40) DEF Path

\* The path goes on with a packet for the address it leads to.
LEMMA PathGrows ==
  ASSUME NEW q, NEW c \in Nat, NEW d, NEW a, Path(q, c, d, a),
         NEW w, q[c + 1] = w, w.pc = a, w.word = a
  PROVE  Path(q, c + 1, d, w.next)
<1>1. ASSUME NEW i \in 1 .. c + 1
      PROVE  q[i].pc = Owed(q, d, i) /\ q[i].word = q[i].pc
  <2>1. i = c + 1 \/ i \in 1 .. c
    OBVIOUS
  <2> QED
    BY <2>1, ZenonT(40) DEF Path
<1>2. w.next = Owed(q, d, (c + 1) + 1)
  <2>1. (c + 1) + 1 # 1 /\ ((c + 1) + 1) - 1 = c + 1
    OBVIOUS
  <2> QED
    BY <2>1, ZenonT(40) DEF Owed
<1> QED
  BY <1>1, <1>2, ZenonT(40) DEF Path

LEMMA ClockStream ==
  ASSUME ZeroWords = {}, IInv, StreamInv, NEW bundle \in Bundles, NEW issued \in 0 .. 2,
         issued <= fq.entryCount, Clock(issued, bundle)
  PROVE  StreamInv'
<1> DEFINE q == Queued(fq)
           r == Queued(fq)'
           c == fq.entryCount
           m == c - issued
           f == decodePc'
           in == Incoming(issued, bundle)
<1>1. fq' = ClockQueue(fq, issued, bundle) /\ pc' = nextRequestPc(issued, bundle)
  BY ZenonT(40) DEF Clock
<1>2. /\ fq'.entryCount = m + Len(in)
      /\ \A i \in 1 .. m : r[i] = q[issued + i]
      /\ \A j \in 1 .. Len(in) : r[m + j] = in[j]
  BY <1>1, QueueStep, ZenonT(40)
<1>3. c \in Nat /\ issued \in 0 .. c /\ m \in Nat
  <2>1. c \in 0 .. Depth /\ Depth \in Nat
    BY QueueAssumption, ZenonT(40) DEF IInv, QueueOK, QueueType
  <2> QED
    BY <2>1
<1>4. f = Owed(q, decodePc, issued + 1)
  <2>1. f = IF issued = 0 THEN decodePc ELSE q[issued].next
    BY ZenonT(40) DEF Clock
  <2>2. (issued + 1) - 1 = issued /\ (issued + 1 = 1 <=> issued = 0)
    OBVIOUS
  <2> QED
    BY <2>1, <2>2, ZenonT(40) DEF Owed
<1>5. Path(q, c, decodePc, pc)
  BY ZenonT(40) DEF StreamInv
<1> HIDE DEF q, c, f
<1>6. Path(r, m, f, pc)
  BY <1>2, <1>3, <1>4, <1>5, PathSheds, ZenonT(40)
<1> HIDE DEF r, m, in
<1>7. ASSUME ~consumed(issued, bundle) PROVE in = <<>> /\ pc' = pc
  BY <1>1, <1>7, ZenonT(40) DEF consumed, Incoming, accepted, nextRequestPc, in
<1>8. CASE ~consumed(issued, bundle)
  <2>1. fq'.entryCount = m
    BY <1>2, <1>3, <1>7, <1>8
  <2> QED
    BY <1>6, <1>7, <1>8, <2>1, ZenonT(40) DEF StreamInv, r, f
<1>9. CASE consumed(issued, bundle)
  <2>1. PICK next \in Addrs : bundle \in {<<Lane(0, next)>>, <<Lane(0, after(pc)), Lane(1, next)>>}
    BY <1>9, BundleFacts, ZenonT(40) DEF consumed, IInv
  <2>2. in = bundle /\ pc' = bundle[Len(bundle)].next
    BY <1>1, <1>9, ZenonT(40) DEF consumed, Incoming, accepted, nextRequestPc, in
  <2>3. /\ \A n : Lane(0, n).pc = pc /\ Lane(0, n).word = pc /\ Lane(0, n).next = n
        /\ \A n : Lane(1, n).pc = after(pc) /\ Lane(1, n).word = after(pc) /\ Lane(1, n).next = n
    BY LaneFacts, ZenonT(40) DEF IInv, StageOK, Lane, packet, after
  <2>4. CASE bundle = <<Lane(0, next)>>
    <3> DEFINE w == Lane(0, next)
    <3>1. w.pc = pc /\ w.word = pc /\ w.next = next
      BY <2>3, ZenonT(40)
    <3> HIDE DEF w
    <3>2. bundle = <<w>>
      BY <2>4, ZenonT(40) DEF w
    <3>3. Len(in) = 1 /\ in[1] = w /\ bundle[Len(bundle)] = w
      BY <2>2, <3>2
    <3>4. r[m + 1] = w
      BY <1>2, <3>3
    <3>5. Path(r, m + 1, f, w.next)
      BY <1>3, <1>6, <3>1, <3>4, PathGrows, ZenonT(40)
    <3>6. fq'.entryCount = m + 1 /\ pc' = w.next
      BY <1>2, <2>2, <3>3, ZenonT(40)
    <3> QED
      BY <3>5, <3>6, ZenonT(40) DEF StreamInv, r, f
  <2>5. CASE bundle = <<Lane(0, after(pc)), Lane(1, next)>>
    <3> DEFINE v == Lane(0, after(pc))
               w == Lane(1, next)
    <3>1. v.pc = pc /\ v.word = pc /\ v.next = after(pc) /\ w.pc = after(pc) /\ w.word = after(pc)
      BY <2>3, ZenonT(40)
    <3> HIDE DEF v, w
    <3>2. bundle = <<v, w>>
      BY <2>5, ZenonT(40) DEF v, w
    <3>3. Len(in) = 2 /\ in[1] = v /\ in[2] = w /\ bundle[Len(bundle)] = w
      BY <2>2, <3>2
    <3>4. r[m + 1] = v /\ r[m + 2] = w
      BY <1>2, <3>3
    <3>5. Path(r, m + 1, f, after(pc))
      BY <1>3, <1>6, <3>1, <3>4, PathGrows, ZenonT(40)
    <3>6. m + 1 \in Nat /\ (m + 1) + 1 = m + 2
      BY <1>3
    <3>7. Path(r, m + 2, f, w.next)
      BY <3>1, <3>4, <3>5, <3>6, PathGrows, ZenonT(40)
    <3>8. fq'.entryCount = m + 2 /\ pc' = w.next
      BY <1>2, <2>2, <3>3, ZenonT(40)
    <3> QED
      BY <3>7, <3>8, ZenonT(40) DEF StreamInv, r, f
  <2> QED
    BY <2>1, <2>4, <2>5, ZenonT(40)
<1> QED
  BY <1>8, <1>9, ZenonT(40)

\* An empty queue is a path from an address to itself.
LEMMA EmptyPath ==
  ASSUME NEW q, NEW d
  PROVE  Path(q, 0, d, d)
<1>1. 0 + 1 = 1 /\ \A i \in 1 .. 0 : FALSE
  OBVIOUS
<1> QED
  BY <1>1, ZenonT(40) DEF Path, Owed

LEMMA StreamSteps ==
  ASSUME ZeroWords = {}, IInv, StreamInv, [Next]_vars
  PROVE  StreamInv'
<1>1. ASSUME NEW target \in Targets, Redirect(target) PROVE StreamInv'
  <2>1. pc' = target /\ decodePc' = target /\ fq' = FlushQueue(fq)
    BY <1>1, ZenonT(40) DEF Redirect
  <2>2. fq'.entryCount = 0
    BY <2>1, ZenonT(40) DEF FlushQueue, IInv, QueueOK, QueueType
  <2> QED
    BY <2>1, <2>2, EmptyPath, ZenonT(40) DEF StreamInv
<1>2. ASSUME UNCHANGED vars PROVE StreamInv'
  BY <1>2, ZenonT(40) DEF vars, StreamInv, Queued
<1> QED
  BY <1>1, <1>2, ClockStream, ZenonT(40) DEF Next

\* In a program without zero words the next word is at the address itself.
LEMMA NoBubbles ==
  ASSUME ZeroWords = {}, NEW a \in Addrs
  PROVE  firstWord(a) = a
<1> DEFINE First(d) == /\ laneAddress(a, d) \notin ZeroWords
                       /\ \A e \in 0 .. d - 1 : laneAddress(a, e) \in ZeroWords
<1>1. 0 \in Addrs
  BY CacheAssumption DEF Addrs
<1>2. First(0)
  <2>1. \A e \in 0 .. 0 - 1 : FALSE
    OBVIOUS
  <2> QED
    BY <2>1, ZenonT(40)
<1>3. ASSUME NEW d \in Addrs, First(d) PROVE d = 0
  <2>1. d # 0 => 0 \in 0 .. d - 1
    BY DEF Addrs
  <2> QED
    BY <1>3, <2>1, ZenonT(40)
<1>4. (CHOOSE d \in Addrs : First(d)) = 0
  BY <1>1, <1>2, <1>3, ZenonT(40)
<1> QED
  BY <1>4, LaneFacts, ZenonT(40) DEF firstWord

LEMMA PathIsStream ==
  ASSUME ZeroWords = {}, IInv, StreamInv
  PROVE  StreamIsContiguous
<1> DEFINE q == Queued(fq)
           c == fq.entryCount
           owed(i) == IF i = 1 THEN decodePc ELSE q[i - 1].next
<1>1. c \in Nat
  <2>1. c \in 0 .. Depth /\ Depth \in Nat
    BY QueueAssumption, ZenonT(40) DEF IInv, QueueOK, QueueType
  <2> QED
    BY <2>1
<1>2. Len(q) = c
  BY <1>1 DEF Queued
<1>3. /\ \A i \in 1 .. c : q[i].pc = owed(i) /\ q[i].word = q[i].pc
      /\ pc = owed(c + 1)
  BY ZenonT(40) DEF StreamInv, Path, Owed
<1>4. \A i \in 1 .. c : q[i].pc \in Addrs
  BY QueuedPackets, ZenonT(40) DEF Packets
<1>5. pc \in Addrs
  BY ZenonT(40) DEF IInv, StageOK
<1>6. \A i \in 1 .. c : q[i].pc = firstWord(owed(i))
  BY <1>3, <1>4, NoBubbles, ZenonT(40)
<1>7. firstWord(pc) = firstWord(owed(c + 1))
  BY <1>3, ZenonT(40)
<1> QED
  BY <1>2, <1>3, <1>6, <1>7, ZenonT(40) DEF StreamIsContiguous

\* In a program without zero words decode is given every instruction of the
\* predicted path once, in order and with its own word, for every geometry of
\* the cache and the queue, whatever is predicted, stalled, missed or redirected.
THEOREM StreamStaysContiguous ==
  ASSUME ZeroWords = {}
  PROVE  Spec => []StreamIsContiguous
<1>1. Init => StreamInv
  <2> SUFFICES ASSUME Init PROVE StreamInv
    OBVIOUS
  <2>1. pc = decodePc /\ fq.entryCount = 0
    BY ZenonT(40) DEF Init, InitQueue
  <2> QED
    BY <2>1, EmptyPath, ZenonT(40) DEF StreamInv
<1>2. StreamInv /\ IInv /\ [Next]_vars => StreamInv'
  BY StreamSteps, ZenonT(40)
<1>3. StreamInv /\ IInv => StreamIsContiguous
  BY PathIsStream, ZenonT(40)
<1> QED
  BY <1>1, <1>2, <1>3, AlwaysInv, PTL DEF Spec
=============================================================================
