--------------------------- MODULE ExecuteProofs ---------------------------
(* Every uop is computed from the right operands, is in exactly one place until *)
(* it completes and misses no wakeup, for every depth of the ROB and the issue *)
(* queue, every number of registers and every mix of instructions.             *)
EXTENDS Execute, Integers, TLAPS

\* The default provers, with time to spare: the context of the later steps is long.
USE ZenonT(40), SMTT(30)

RegsOr0 == Regs \cup {0}
RobType ==
    [dest : RegsOr0, old : RegsOr0, state : {"iq", "issued", "done", "exception"},
     isBranch : BOOLEAN, isMemory : BOOLEAN]
IqType ==
    [tag : Tags, fuClass : IntegerOrBranch \cup MemoryOrCsr, isStore : BOOLEAN,
     exception : BOOLEAN, dest : RegsOr0, src1 : RegsOr0, src2 : RegsOr0,
     src1Ready : BOOLEAN, src2Ready : BOOLEAN]

Types == TypeOK /\ rob \in Seq(RobType) /\ iq \in Seq(IqType)

\* The uop with a tag.
Uop(t) == rob[PlaceOf(t)]

\* Register p is in the map with which the uop at place i has been renamed.
Mapped(p, i) ==
    /\ p \in committed \/ \E t \in Tags : Live(t) /\ PlaceOf(t) < i /\ Uop(t).dest = p
    /\ \A t \in Tags : Live(t) /\ PlaceOf(t) < i => Uop(t).old # p

\* No two uops share a destination, none writes a committed register, and each
\* replaces a register that was mapped.  A register is ready exactly when it is
\* right, and the committed ones are.
RegsOK ==
    /\ right = readyTable /\ committed \subseteq right
    /\ \A t \in Tags : Live(t) => /\ Uop(t).dest \notin committed
                                  /\ Uop(t).old # 0 => Mapped(Uop(t).old, PlaceOf(t))
    /\ \A t, u \in Tags :
          Live(t) /\ Live(u) /\ Uop(t).dest # 0 /\ Uop(t).dest = Uop(u).dest => t = u

\* An entry of the issue queue belongs to a uop that waits in it.
Queued(e) ==
    /\ Live(e.tag) /\ Uop(e.tag).state = "iq" /\ e.dest = Uop(e.tag).dest
    /\ Uop(e.tag).isBranch = (e.fuClass = "FU_BRANCH")
    /\ e.src1 # 0 => Mapped(e.src1, PlaceOf(e.tag))
    /\ e.src2 # 0 => Mapped(e.src2, PlaceOf(e.tag))

QueueOK ==
    /\ \A k \in 1..Len(iq) : Queued(iq[k])
    /\ \A j, k \in 1..Len(iq) : iq[j].tag = iq[k].tag => j = k

\* A completion belongs to a uop that waits for it, or is the one of a branch
\* that has recovered, or was killed by the recovery of the clock before.
Holds(c) ==
    /\ Live(c.tag) /\ c.right /\ ~c.dead
    /\ c.dest = IF c.exception THEN 0 ELSE Uop(c.tag).dest
Held(c) == Holds(c) /\ Uop(c.tag).state = "issued"
HeldBranch(c) == Holds(c) /\ Uop(c.tag).state = "done" /\ Uop(c.tag).isBranch /\ ~c.exception
Dead(c) == c.dead /\ c.tag \in filter

Of(u) == IF u = None THEN {} ELSE {u[1]}

UnitsOK ==
    /\ \A c \in Of(primary) : Held(c) \/ Dead(c)
    /\ \A c \in Of(secondary) : Held(c) \/ HeldBranch(c) \/ Dead(c)
    /\ \A c \in Of(memory) \cup loads : Held(c)
    /\ \A t \in filter : ~Live(t)

\* No two of them belong to the same uop.
ApartOK ==
    /\ \A c \in Of(primary) : \A d \in Of(secondary) \cup Of(memory) \cup loads : c.tag # d.tag
    /\ \A c \in Of(secondary) : \A d \in Of(memory) \cup loads : c.tag # d.tag
    /\ \A c \in Of(memory) : \A d \in loads : c.tag # d.tag
    /\ \A c, d \in loads : c.tag = d.tag => c = d

\* A uop that waits is somewhere, and one that is done has written its result or
\* is a branch about to write it.
PlacesOK ==
    \A t \in Tags : Live(t) =>
        /\ Uop(t).state = "iq" => \E k \in 1..Len(iq) : iq[k].tag = t
        /\ Uop(t).state = "issued" =>
              \E c \in Of(primary) \cup Of(secondary) \cup Of(memory) \cup loads : c.tag = t
        /\ Uop(t).state = "done" /\ Uop(t).dest # 0 /\ Uop(t).dest \notin right =>
              \E c \in Of(secondary) : c.tag = t

IInv ==
    /\ Types /\ RegsOK /\ QueueOK /\ UnitsOK /\ ApartOK /\ PlacesOK
    /\ WakeupsMatchRegisterFile

--------------------------------------------------------------------------------
(* The ring of ROB tags.                                                       *)

Wrap(x) == IF x < RobDepth THEN x ELSE x - RobDepth

\* A number below twice the depth wraps by at most one subtraction.
LEMMA Wraps ==
  ASSUME NEW x \in Nat, x < 2 * RobDepth
  PROVE  x % RobDepth = Wrap(x) /\ Wrap(x) \in Tags
<1>1. RobDepth \in Nat \ {0}
  BY ExecuteAssumption, SMTT(60)
<1>2. CASE x < RobDepth
  BY <1>1, <1>2, SMTT(60) DEF Wrap, Tags
<1>3. CASE ~(x < RobDepth)
  <2>1. x % RobDepth = x - RobDepth
    <3>1. PICK r \in 0..(RobDepth - 1) : x = RobDepth + r
      BY <1>1, <1>3, SMTT(60)
    <3>2. (RobDepth + r) % RobDepth = r
      BY <1>1, SMTT(60)
    <3> QED
      BY <1>1, <3>1, <3>2, SMTT(60)
  <2> QED
    BY <1>1, <1>3, <2>1, SMTT(60) DEF Wrap, Tags
<1> QED
  BY <1>2, <1>3

\* The tag i places after h, and the place of t in the ring that starts at h.
TagOf(h, i) == Wrap(h + (i - 1))
Place(h, t) == 1 + Wrap(t + (RobDepth - h))

RingFrom(h) ==
    /\ \A i \in 1..RobDepth : /\ (h + (i - 1)) % RobDepth = TagOf(h, i)
                              /\ TagOf(h, i) \in Tags /\ Place(h, TagOf(h, i)) = i
    /\ \A t \in Tags : /\ 1 + ((t + (RobDepth - h)) % RobDepth) = Place(h, t)
                       /\ Place(h, t) \in 1..RobDepth /\ TagOf(h, Place(h, t)) = t

\* Tags and places of the ring correspond one to one.
LEMMA PlacesAre ==
  ASSUME NEW h \in Tags
  PROVE  RingFrom(h)
<1>1. RobDepth \in Nat \ {0}
  BY ExecuteAssumption, SMTT(60)
<1>2. \A i \in 1..RobDepth : h + (i - 1) \in Nat /\ h + (i - 1) < 2 * RobDepth
  BY <1>1, SMTT(60) DEF Tags
<1>3. \A t \in Tags : t + (RobDepth - h) \in Nat /\ t + (RobDepth - h) < 2 * RobDepth
  BY <1>1, SMTT(60) DEF Tags
<1>4. \A i \in 1..RobDepth : (h + (i - 1)) % RobDepth = TagOf(h, i) /\ TagOf(h, i) \in Tags
  BY <1>2, Wraps DEF TagOf
<1>5. \A i \in 1..RobDepth : Place(h, TagOf(h, i)) = i
  BY <1>1, SMTT(60) DEF Tags, TagOf, Place, Wrap
<1>6. \A t \in Tags : 1 + ((t + (RobDepth - h)) % RobDepth) = Place(h, t)
  BY <1>3, Wraps DEF Place
<1>7. \A t \in Tags : Place(h, t) \in 1..RobDepth /\ TagOf(h, Place(h, t)) = t
  BY <1>1, SMTT(60) DEF Tags, TagOf, Place, Wrap
<1> QED
  BY <1>4, <1>5, <1>6, <1>7 DEF RingFrom

\* When the head moves by n, so do the places of the uops that stay.
Turns(h, n, g) ==
    /\ g \in Tags
    /\ \A t \in Tags : Place(g, t) = IF Place(h, t) > n THEN Place(h, t) - n
                                     ELSE Place(h, t) - n + RobDepth
    /\ \A i \in 1..(RobDepth - n) : TagOf(g, i) = TagOf(h, n + i)

\* When n uops leave, the head moves by n around the ring.
LEMMA HeadMoves ==
  ASSUME NEW h \in Tags, NEW n \in 0..RobDepth, NEW g, g = (h + n) % RobDepth
  PROVE  Turns(h, n, g)
<1>1. RobDepth \in Nat \ {0}
  BY ExecuteAssumption, SMTT(60)
<1>2. g = Wrap(h + n) /\ g \in Tags
  <2>1. h + n \in Nat /\ h + n < 2 * RobDepth
    BY <1>1, SMTT(60) DEF Tags
  <2> QED
    BY <2>1, Wraps
<1>3. \A t \in Tags : Place(g, t) = IF Place(h, t) > n THEN Place(h, t) - n
                                    ELSE Place(h, t) - n + RobDepth
  BY <1>1, <1>2, SMTT(60) DEF Tags, Place, Wrap
<1>4. \A i \in 1..(RobDepth - n) : TagOf(g, i) = TagOf(h, n + i)
  BY <1>1, <1>2, SMTT(60) DEF Tags, TagOf, Wrap
<1> QED
  BY <1>2, <1>3, <1>4 DEF Turns

\* The tag at a place and the place of a tag are inverse to each other.
LEMMA Ring ==
  ASSUME robHead \in Tags
  PROVE  /\ \A i \in 1..RobDepth : TagAt(i) \in Tags /\ PlaceOf(TagAt(i)) = i
         /\ \A t \in Tags : PlaceOf(t) \in 1..RobDepth /\ TagAt(PlaceOf(t)) = t
<1>0. RingFrom(robHead)
  BY PlacesAre
<1>1. \A i \in 1..RobDepth : TagAt(i) = TagOf(robHead, i) /\ TagOf(robHead, i) \in Tags
  BY <1>0 DEF TagAt, RingFrom
<1>2. \A t \in Tags : PlaceOf(t) = Place(robHead, t) /\ Place(robHead, t) \in 1..RobDepth
  BY <1>0 DEF PlaceOf, RingFrom
<1>3. ASSUME NEW i \in 1..RobDepth PROVE PlaceOf(TagAt(i)) = i
  <2>1. TagAt(i) = TagOf(robHead, i) /\ TagAt(i) \in Tags
    BY <1>1
  <2>2. PlaceOf(TagAt(i)) = Place(robHead, TagAt(i))
    BY <1>2, <2>1
  <2> QED
    BY <1>0, <2>1, <2>2 DEF RingFrom
<1>4. ASSUME NEW t \in Tags PROVE TagAt(PlaceOf(t)) = t
  <2>1. PlaceOf(t) = Place(robHead, t) /\ PlaceOf(t) \in 1..RobDepth
    BY <1>2
  <2>2. TagAt(PlaceOf(t)) = TagOf(robHead, PlaceOf(t))
    BY <1>1, <2>1
  <2> QED
    BY <1>0, <2>1, <2>2 DEF RingFrom
<1> QED
  BY <1>1, <1>2, <1>3, <1>4

\* The ring after n uops have retired.
Turned(n) ==
    /\ robHead' \in Tags
    /\ \A t \in Tags : /\ PlaceOf(t)' \in 1..RobDepth
                       /\ PlaceOf(t) > n => PlaceOf(t)' = PlaceOf(t) - n
                       /\ ~(PlaceOf(t) > n) => PlaceOf(t)' = PlaceOf(t) - n + RobDepth
    /\ \A i \in 1..(RobDepth - n) : TagAt(i)' = TagAt(n + i)

\* The places shift down by n.
LEMMA RingTurns ==
  ASSUME robHead \in Tags, NEW n \in 0..RobDepth, robHead' = (robHead + n) % RobDepth
  PROVE  Turned(n)
<1>0. RobDepth \in Nat
  BY ExecuteAssumption, SMTT(60)
<1>1. Turns(robHead, n, robHead')
  BY HeadMoves
<1>2. robHead' \in Tags
  BY <1>1 DEF Turns
<1>7. RingFrom(robHead) /\ RingFrom(robHead')
  BY <1>2, PlacesAre
<1>3. ASSUME NEW t \in Tags
      PROVE  PlaceOf(t) = Place(robHead, t) /\ PlaceOf(t)' = Place(robHead', t)
             /\ PlaceOf(t)' \in 1..RobDepth
  BY <1>7 DEF PlaceOf, RingFrom
<1>4. \A i \in 1..(RobDepth - n) : i \in 1..RobDepth /\ n + i \in 1..RobDepth
  BY <1>0, SMTT(60)
<1>5. \A i \in 1..(RobDepth - n) :
        TagAt(n + i) = TagOf(robHead, n + i) /\ TagAt(i)' = TagOf(robHead', i)
  BY <1>4, <1>7 DEF TagAt, RingFrom
<1>6. \A t \in Tags : /\ PlaceOf(t)' \in 1..RobDepth
                      /\ PlaceOf(t) > n => PlaceOf(t)' = PlaceOf(t) - n
                      /\ ~(PlaceOf(t) > n) => PlaceOf(t)' = PlaceOf(t) - n + RobDepth
  BY <1>1, <1>3 DEF Turns
<1> QED
  BY <1>1, <1>2, <1>5, <1>6 DEF Turns, Turned

--------------------------------------------------------------------------------
(* The issue queue.                                                            *)

\* A nonempty set of positions has an oldest one; in a finite one every member
\* has a rank, and every rank up to the size of the set is that of one member.
\* Both are proved with the theorems on cardinalities, below.
Rank(kept, k) == Cardinality({j \in kept : j <= k})
Ranked(kept) ==
    /\ \A k \in kept : Rank(kept, k) \in 1..Cardinality(kept)
    /\ \A j, k \in kept : Rank(kept, j) = Rank(kept, k) => j = k
    /\ \A m \in 1..Cardinality(kept) : \E k \in kept : Rank(kept, k) = m
Ranking ==
    /\ \A ks \in SUBSET Nat : ks # {} => oldestOf(ks) # {}
    /\ \A n \in Nat : \A kept \in SUBSET (1..n) :
          Cardinality(kept) \in Nat /\ Cardinality(kept) <= n /\ Ranked(kept)

\* There is at most one oldest position.
LEMMA OldestIs ==
  ASSUME NEW ks, ks \subseteq Nat, NEW j \in oldestOf(ks), NEW k \in oldestOf(ks)
  PROVE  j = k /\ j \in ks
<1>1. j <= k /\ k <= j /\ j \in ks /\ k \in ks
  BY DEF oldestOf
<1> QED
  BY <1>1, SMTT(60)

\* The three candidates: ready, one per port, different, and a branch only on
\* port 1.
Chosen(q, w, p0, p1, fb) ==
    /\ \A k \in p0 \cup p1 \cup fb : k \in 1..Len(q) /\ readyEntry(q[k], w)
    /\ \A j, k \in p0 : j = k
    /\ \A j, k \in p1 : j = k
    /\ \A j, k \in fb : j = k
    /\ \A j \in p0 : j \notin p1 /\ j \notin fb /\ q[j].fuClass # "FU_BRANCH"
    /\ \A j \in fb : j \notin p1 /\ q[j].fuClass = "FU_INTEGER"

\* What the selection of IssueQueue offers to the two ports.
LEMMA Candidates ==
  ASSUME Ranking, NEW q, Len(q) \in Nat, NEW w
  PROVE  Chosen(q, w, port0(q, w), port1(q, w), fallback(q, w))
<1> DEFINE p0 == port0(q, w)
           p1 == port1(q, w)
           fb == fallback(q, w)
           reserved == readyOf(q, w, MemoryOrCsr)
           both == readyOf(q, w, IntegerOrBranch)
           fill == readyOf(q, w, IF p1 = {} THEN IntegerOrBranch ELSE {"FU_INTEGER"})
           ints == readyOf(q, w, {"FU_INTEGER"})
<1>1. \A c : \A k \in readyOf(q, w, c) : k \in 1..Len(q) /\ readyEntry(q[k], w) /\ q[k].fuClass \in c
  BY DEF readyOf
<1>2. 1..Len(q) \subseteq Nat
  BY SMTT(60)
<1>3. reserved \subseteq Nat /\ both \subseteq Nat /\ fill \subseteq Nat /\ ints \subseteq Nat
  BY <1>1, <1>2
<1>4. p1 = oldestOf(both) /\ fb = oldestOf(ints \ (p0 \cup p1))
  BY DEF port1, fallback
<1>5. p0 = IF reserved # {} THEN oldestOf(reserved) ELSE oldestOf(fill \ p1)
  BY DEF port0
<1>6. "FU_BRANCH" \notin MemoryOrCsr /\ "FU_BRANCH" # "FU_INTEGER" /\ MemoryOrCsr \cap IntegerOrBranch = {}
  BY SMTT(60) DEF MemoryOrCsr, IntegerOrBranch
<1>7. p1 = {} => fill = {}
  <2>1. p1 = {} => fill = both
    OBVIOUS
  <2>2. both # {} => oldestOf(both) # {}
    BY <1>3 DEF Ranking
  <2> QED
    BY <1>4, <2>1, <2>2
<1>8. p1 # {} => \A k \in fill : q[k].fuClass = "FU_INTEGER"
  <2>1. p1 # {} => fill = ints
    OBVIOUS
  <2>2. \A k \in ints : q[k].fuClass \in {"FU_INTEGER"}
    BY <1>1
  <2> QED
    BY <2>1, <2>2
<1>9. \A k \in p1 : k \in both
  BY <1>4 DEF oldestOf
<1>10. \A k \in fb : k \in ints /\ k \notin p0 /\ k \notin p1
  BY <1>4 DEF oldestOf
<1>11. \A k \in p0 : (k \in reserved) \/ (k \in fill /\ k \notin p1)
  BY <1>5 DEF oldestOf
<1>12. \A k \in p0 : k \notin p1 /\ q[k].fuClass # "FU_BRANCH"
  <2> SUFFICES ASSUME NEW k \in p0 PROVE k \notin p1 /\ q[k].fuClass # "FU_BRANCH"
    OBVIOUS
  <2>1. CASE k \in reserved
    <3>1. q[k].fuClass \in MemoryOrCsr
      BY <1>1, <2>1
    <3>2. k \in p1 => q[k].fuClass \in IntegerOrBranch
      BY <1>1, <1>9
    <3> QED
      BY <1>6, <3>1, <3>2
  <2>2. CASE k \in fill /\ k \notin p1
    <3>1. p1 # {}
      BY <1>7, <2>2
    <3> QED
      BY <1>6, <1>8, <2>2, <3>1
  <2> QED
    BY <1>11, <2>1, <2>2
<1>13. \A j, k \in p1 : j = k
  BY <1>3, <1>4, OldestIs
<1>14. \A j, k \in fb : j = k
  <2>1. PICK ks : ks \subseteq Nat /\ fb = oldestOf(ks)
    BY <1>3, <1>4
  <2> QED
    BY <2>1, OldestIs
<1>15. \A j, k \in p0 : j = k
  <2>1. fill \ p1 \subseteq Nat
    BY <1>3
  <2>2. PICK ks : ks \subseteq Nat /\ p0 = oldestOf(ks)
    BY <1>3, <1>5, <2>1
  <2> QED
    BY <2>2, OldestIs
<1>16. \A k \in p0 \cup p1 \cup fb : \E c : k \in readyOf(q, w, c)
  BY <1>9, <1>10, <1>11
<1>17. \A k \in p0 \cup p1 \cup fb : k \in 1..Len(q) /\ readyEntry(q[k], w)
  BY <1>1, <1>16
<1>18. \A k \in fb : q[k].fuClass = "FU_INTEGER"
  <2>1. \A k \in ints : q[k].fuClass \in {"FU_INTEGER"}
    BY <1>1
  <2> QED
    BY <1>10, <2>1
<1> QED
  BY <1>10, <1>12, <1>13, <1>14, <1>15, <1>17, <1>18 DEF Chosen

\* What Without leaves: the entries that stay, each once.
Left(r, q, gone) ==
    /\ DOMAIN r = 1..Len(r) /\ Len(r) \in Nat /\ Len(r) <= Len(q)
    /\ \A m \in 1..Len(r) : \E k \in 1..Len(q) : k \notin gone /\ r[m] = q[k]
    /\ \A k \in 1..Len(q) : k \notin gone => \E m \in 1..Len(r) : r[m] = q[k]
    /\ (\A j, k \in 1..Len(q) : q[j].tag = q[k].tag => j = k) =>
          \A j, k \in 1..Len(r) : r[j].tag = r[k].tag => j = k

\* Removing positions keeps the others, each once and in order.
LEMMA WithoutIs ==
  ASSUME Ranking, NEW S, NEW q \in Seq(S), NEW gone
  PROVE  Left(Without(q, gone), q, gone) /\ Without(q, gone) \in Seq(S)
<1> DEFINE n == Len(q)
           kept == {k \in 1..n : k \notin gone}
           c == Cardinality(kept)
           rank(k) == Cardinality({j \in kept : j <= k})
           nth(m) == CHOOSE k \in kept : rank(k) = m
           r == Without(q, gone)
<1>1. r = [m \in 1..c |-> q[nth(m)]]
  BY DEF Without
<1>2. n \in Nat /\ \A k \in 1..n : q[k] \in S
  BY SMTT(60)
<1>3. kept \in SUBSET (1..n)
  BY SMTT(60)
<1>4. /\ c \in Nat /\ c <= n /\ \A k \in kept : rank(k) \in 1..c
      /\ \A j, k \in kept : rank(j) = rank(k) => j = k
      /\ \A m \in 1..c : \E k \in kept : rank(k) = m
  <2>1. Cardinality(kept) \in Nat /\ Cardinality(kept) <= n /\ Ranked(kept)
    BY <1>2, <1>3 DEF Ranking
  <2> QED
    BY <2>1 DEF Ranked, Rank
<1>5. \A k \in kept : k \in 1..n /\ k \notin gone
  BY SMTT(60)
<1>6. \A k \in 1..n : k \notin gone => k \in kept
  BY SMTT(60)
<1> HIDE DEF kept, c, rank, n, r
<1>7. \A m \in 1..c : nth(m) \in kept /\ rank(nth(m)) = m
  BY <1>4
<1> HIDE DEF nth
<1>8. r \in [1..c -> S] /\ \A m \in 1..c : r[m] = q[nth(m)]
  BY <1>1, <1>2, <1>5, <1>7, SMTT(60)
<1>9. r \in Seq(S) /\ Len(r) = c /\ DOMAIN r = 1..c
  BY <1>4, <1>8, SMTT(60)
<1>10. \A m \in 1..c : \E k \in 1..n : k \notin gone /\ r[m] = q[k]
  BY <1>5, <1>7, <1>8
<1>11. ASSUME NEW k \in 1..n, k \notin gone PROVE \E m \in 1..c : r[m] = q[k]
  <2>1. k \in kept /\ rank(k) \in 1..c
    BY <1>4, <1>6, <1>11
  <2>2. nth(rank(k)) = k
    BY <1>4, <1>7, <2>1
  <2> QED
    BY <1>8, <2>1, <2>2
<1>12. ASSUME \A i, k \in 1..n : q[i].tag = q[k].tag => i = k,
              NEW i \in 1..c, NEW k \in 1..c, r[i].tag = r[k].tag
       PROVE  i = k
  <2>1. nth(i) \in 1..n /\ nth(k) \in 1..n /\ r[i] = q[nth(i)] /\ r[k] = q[nth(k)]
    BY <1>5, <1>7, <1>8
  <2>2. nth(i) = nth(k)
    BY <1>12, <2>1
  <2> QED
    BY <1>7, <2>2
<1> QED
  BY <1>4, <1>9, <1>10, <1>11, <1>12 DEF Left, n, r

Joined(s, u, d) ==
    /\ Len(s) = Len(u) + Len(d)
    /\ \A i \in 1..Len(u) : i \in 1..Len(s) /\ s[i] = u[i]
    /\ \A l \in 1..Len(d) : Len(u) + l \in 1..Len(s) /\ s[Len(u) + l] = d[l]
    /\ \A i \in 1..Len(s) : i \in 1..Len(u) \/ \E l \in 1..Len(d) : i = Len(u) + l

\* Where the elements of a concatenation come from.
LEMMA ConcatIs ==
  ASSUME NEW S, NEW u \in Seq(S), NEW d \in Seq(S)
  PROVE  u \o d \in Seq(S) /\ Joined(u \o d, u, d)
<1> DEFINE s == u \o d
           m == Len(u)
           n == Len(d)
<1>1. /\ s \in Seq(S) /\ Len(s) = m + n
      /\ \A i \in 1..(m + n) : s[i] = IF i <= m THEN u[i] ELSE d[i - m]
  BY SMTT(60)
<1>2. m \in Nat /\ n \in Nat
  BY SMTT(60)
<1> HIDE DEF s, m, n
<1>3. /\ \A i \in 1..m : i \in 1..(m + n) /\ i <= m
      /\ \A l \in 1..n : m + l \in 1..(m + n) /\ ~(m + l <= m) /\ (m + l) - m = l
      /\ \A i \in 1..(m + n) : i \in 1..m \/ (i - m \in 1..n /\ i = m + (i - m))
  BY <1>2, SMTT(60)
<1>4. \A i \in 1..m : i \in 1..Len(s) /\ s[i] = u[i]
  BY <1>1, <1>3
<1>5. ASSUME NEW l \in 1..n PROVE m + l \in 1..Len(s) /\ s[m + l] = d[l]
  <2>1. m + l \in 1..(m + n) /\ ~(m + l <= m) /\ (m + l) - m = l
    BY <1>3
  <2> QED
    BY <1>1, <2>1
<1>6. \A i \in 1..Len(s) : i \in 1..m \/ \E l \in 1..n : i = m + l
  BY <1>1, <1>3
<1> QED
  BY <1>1, <1>4, <1>5, <1>6 DEF Joined, s, m, n

\* Sequences with distinct tags, none of them shared, join to one.
Tagged(q) == \A j, k \in 1..Len(q) : q[j].tag = q[k].tag => j = k

\* Joining queues without a common tag keeps tags distinct.
LEMMA JoinedTags ==
  ASSUME NEW s, NEW u, NEW d, Joined(s, u, d), Tagged(u), Tagged(d),
         \A j \in 1..Len(u) : \A k \in 1..Len(d) : u[j].tag # d[k].tag
  PROVE  Tagged(s)
<1> SUFFICES ASSUME NEW i \in 1..Len(s), NEW k \in 1..Len(s), s[i].tag = s[k].tag PROVE i = k
  BY DEF Tagged
<1>1. i \in 1..Len(u) \/ \E l \in 1..Len(d) : i = Len(u) + l
  BY DEF Joined
<1>2. k \in 1..Len(u) \/ \E l \in 1..Len(d) : k = Len(u) + l
  BY DEF Joined
<1>3. \A j \in 1..Len(u) : s[j] = u[j]
  BY DEF Joined
<1>4. \A l \in 1..Len(d) : s[Len(u) + l] = d[l]
  BY DEF Joined
<1>5. CASE i \in 1..Len(u) /\ k \in 1..Len(u)
  BY <1>3, <1>5 DEF Tagged
<1>6. ASSUME NEW l \in 1..Len(d), i = Len(u) + l, k \in 1..Len(u) PROVE FALSE
  BY <1>3, <1>4, <1>6
<1>7. ASSUME NEW l \in 1..Len(d), k = Len(u) + l, i \in 1..Len(u) PROVE FALSE
  BY <1>3, <1>4, <1>7
<1>8. ASSUME NEW l \in 1..Len(d), i = Len(u) + l, NEW o \in 1..Len(d), k = Len(u) + o PROVE i = k
  BY <1>4, <1>8 DEF Tagged
<1> QED
  BY <1>1, <1>2, <1>5, <1>6, <1>7, <1>8

\* The queue after a clock: the entries that stay and the dispatched ones, woken.
QueueAfter(r, q, gone, w, d) ==
    /\ r \in Seq(IqType) /\ Len(r) <= Len(q) + Len(d)
    /\ \A m \in 1..Len(r) : \/ \E k \in 1..Len(q) : k \notin gone /\ r[m] = Woken(q[k], w)
                            \/ \E l \in 1..Len(d) : r[m] = Woken(d[l], w)
    /\ \A k \in 1..Len(q) : k \notin gone => \E m \in 1..Len(r) : r[m] = Woken(q[k], w)
    /\ \A l \in 1..Len(d) : \E m \in 1..Len(r) : r[m] = Woken(d[l], w)
    /\ Tagged(r)

\* A wakeup changes the ready bits only.
Wakes(e, w, f) ==
    /\ f \in IqType /\ f.tag = e.tag /\ f.fuClass = e.fuClass /\ f.isStore = e.isStore
    /\ f.exception = e.exception /\ f.dest = e.dest /\ f.src1 = e.src1 /\ f.src2 = e.src2
    /\ f.src1Ready = sourceReadyNow(e.src1, e.src1Ready, w)
    /\ f.src2Ready = sourceReadyNow(e.src2, e.src2Ready, w)

\* A wakeup changes only the ready bits of an entry.
LEMMA WokenIs ==
  ASSUME NEW e \in IqType, NEW w
  PROVE  Wakes(e, w, Woken(e, w))
<1>1. \A s, b : b \in BOOLEAN => sourceReadyNow(s, b, w) \in BOOLEAN
  BY DEF sourceReadyNow
<1>2. e.src1Ready \in BOOLEAN /\ e.src2Ready \in BOOLEAN
  BY DEF IqType
<1> QED
  BY <1>1, <1>2 DEF Wakes, Woken, IqType

AreWoken(r, s, w) ==
    /\ r \in Seq(IqType) /\ Len(r) = Len(s)
    /\ \A k \in 1..Len(s) : r[k] = Woken(s[k], w) /\ r[k].tag = s[k].tag

\* So does a wakeup of the whole queue.
LEMMA AllWoken ==
  ASSUME NEW s \in Seq(IqType), NEW w
  PROVE  AreWoken([k \in 1..Len(s) |-> Woken(s[k], w)], s, w)
<1> DEFINE r == [k \in 1..Len(s) |-> Woken(s[k], w)]
<1>1. \A k \in 1..Len(s) : s[k] \in IqType
  BY SMTT(60)
<1>2. \A k \in 1..Len(s) : Woken(s[k], w) \in IqType /\ Woken(s[k], w).tag = s[k].tag
  BY <1>1, WokenIs DEF Wakes
<1>3. r \in [1..Len(s) -> IqType] /\ \A k \in 1..Len(s) : r[k] = Woken(s[k], w)
  BY <1>2
<1>4. Len(s) \in Nat
  BY SMTT(60)
<1>5. r \in Seq(IqType) /\ Len(r) = Len(s)
  BY <1>3, <1>4, SMTT(60)
<1> QED
  BY <1>2, <1>3, <1>5 DEF AreWoken

\* The next queue: what was not issued or killed, and what was dispatched.
LEMMA NextQueueIs ==
  ASSUME Ranking, NEW q \in Seq(IqType), NEW issued, NEW killed, NEW w, NEW d \in Seq(IqType),
         NEW gone, gone = issued \cup {k \in 1..Len(q) : q[k].tag \in killed},
         Tagged(q), Tagged(d),
         \A j \in 1..Len(q) : \A k \in 1..Len(d) : q[j].tag # d[k].tag
  PROVE  QueueAfter(NextQueue(q, issued, killed, w, d), q, gone, w, d)
<1> DEFINE u == Without(q, gone)
           s == u \o d
           r == NextQueue(q, issued, killed, w, d)
<1>1. r = [k \in 1..Len(s) |-> Woken(s[k], w)]
  BY DEF NextQueue
<1>2. Left(u, q, gone) /\ u \in Seq(IqType)
  BY WithoutIs
<1> HIDE DEF u
<1>3. s \in Seq(IqType) /\ Joined(s, u, d)
  BY <1>2, ConcatIs
<1> HIDE DEF s, r
<1>4. /\ r \in Seq(IqType) /\ Len(r) = Len(s)
      /\ \A k \in 1..Len(s) : r[k] = Woken(s[k], w) /\ r[k].tag = s[k].tag
  <2>1. AreWoken(r, s, w)
    BY <1>1, <1>3, AllWoken
  <2> QED
    BY <2>1 DEF AreWoken
<1>5. Len(r) <= Len(q) + Len(d)
  <2>1. Len(u) \in Nat /\ Len(d) \in Nat /\ Len(q) \in Nat
    BY <1>2, SMTT(60)
  <2>2. Len(s) = Len(u) + Len(d) /\ Len(u) <= Len(q)
    BY <1>2, <1>3 DEF Left, Joined
  <2> QED
    BY <1>4, <2>1, <2>2, SMTT(60)
<1>6. Tagged(s)
  <2>1. Tagged(u)
    BY <1>2 DEF Left, Tagged
  <2>2. ASSUME NEW j \in 1..Len(u), NEW k \in 1..Len(d) PROVE u[j].tag # d[k].tag
    <3>1. PICK i \in 1..Len(q) : u[j] = q[i]
      BY <1>2 DEF Left
    <3> QED
      BY <3>1
  <2> QED
    BY <1>3, <2>1, <2>2, JoinedTags
<1>7. Tagged(r)
  BY <1>4, <1>6 DEF Tagged
<1>8. ASSUME NEW m \in 1..Len(r)
      PROVE  \/ \E k \in 1..Len(q) : k \notin gone /\ r[m] = Woken(q[k], w)
             \/ \E l \in 1..Len(d) : r[m] = Woken(d[l], w)
  <2>1. m \in 1..Len(s) /\ r[m] = Woken(s[m], w)
    BY <1>4
  <2>2. CASE m \in 1..Len(u)
    <3>1. s[m] = u[m]
      BY <1>3, <2>2 DEF Joined
    <3>2. PICK k \in 1..Len(q) : k \notin gone /\ u[m] = q[k]
      BY <1>2, <2>2 DEF Left
    <3> QED
      BY <2>1, <3>1, <3>2
  <2>3. CASE \E l \in 1..Len(d) : m = Len(u) + l
    <3>1. PICK l \in 1..Len(d) : m = Len(u) + l
      BY <2>3
    <3>2. s[m] = d[l]
      BY <1>3, <3>1 DEF Joined
    <3> QED
      BY <2>1, <3>2
  <2> QED
    BY <1>3, <2>1, <2>2, <2>3 DEF Joined
<1>9. ASSUME NEW k \in 1..Len(q), k \notin gone PROVE \E m \in 1..Len(r) : r[m] = Woken(q[k], w)
  <2>1. PICK m \in 1..Len(u) : u[m] = q[k]
    BY <1>2, <1>9 DEF Left
  <2>2. m \in 1..Len(s) /\ s[m] = u[m]
    BY <1>3 DEF Joined
  <2> QED
    BY <1>4, <2>1, <2>2
<1>10. ASSUME NEW l \in 1..Len(d) PROVE \E m \in 1..Len(r) : r[m] = Woken(d[l], w)
  <2>1. Len(u) + l \in 1..Len(s) /\ s[Len(u) + l] = d[l]
    BY <1>3 DEF Joined
  <2> QED
    BY <1>4, <2>1
<1> QED
  BY <1>4, <1>5, <1>7, <1>8, <1>9, <1>10 DEF QueueAfter, r

--------------------------------------------------------------------------------
(* The state and its parts.                                                    *)

\* What the types say of the ROB, the queue and the ring.
LEMMA Parts ==
  ASSUME Types
  PROVE  /\ RobDepth \in Nat \ {0} /\ Len(rob) \in Nat /\ Len(rob) <= RobDepth /\ robHead \in Tags
         /\ Len(iq) \in Nat /\ Len(iq) <= IqDepth
         /\ \A i \in 1..Len(rob) : rob[i] \in RobType /\ i \in 1..RobDepth
         /\ \A k \in 1..Len(iq) : iq[k] \in IqType /\ iq[k].tag \in Tags
         /\ \A i \in 1..RobDepth : TagAt(i) \in Tags /\ PlaceOf(TagAt(i)) = i
         /\ \A t \in Tags : PlaceOf(t) \in 1..RobDepth /\ TagAt(PlaceOf(t)) = t
<1>1. RobDepth \in Nat \ {0} /\ Len(rob) \in Nat /\ Len(iq) \in Nat
  BY ExecuteAssumption, SMTT(60) DEF Types
<1>2. Len(rob) <= RobDepth /\ Len(iq) <= IqDepth /\ robHead \in Tags
  BY DEF Types, TypeOK
<1>3. \A i \in 1..Len(rob) : rob[i] \in RobType /\ i \in 1..RobDepth
  BY <1>1, <1>2, SMTT(60) DEF Types
<1>4. \A k \in 1..Len(iq) : iq[k] \in IqType
  BY SMTT(60) DEF Types
<1>5. \A k \in 1..Len(iq) : iq[k].tag \in Tags
  BY <1>4 DEF IqType
<1> QED
  BY <1>1, <1>2, <1>3, <1>4, <1>5, Ring

\* Unit registers hold at most one completion.
Unit(u) == u \in {None} \cup {<<c>> : c \in Completions}

\* A completion register is empty or holds one completion.
LEMMA UnitIs ==
  ASSUME NEW u, Unit(u)
  PROVE  /\ \A c \in Of(u) : c \in Completions /\ u = <<c>> /\ u # None /\ u[1] = c
         /\ u # None => u[1] \in Of(u)
         /\ \A c, d \in Of(u) : c = d
<1>1. CASE u = None
  BY <1>1 DEF Of
<1>2. ASSUME NEW c \in Completions, u = <<c>>
      PROVE  u # None /\ u[1] = c
  BY <1>2, SMTT(60) DEF None
<1>3. CASE u # None
  <2>1. PICK c \in Completions : u = <<c>>
    BY <1>3 DEF Unit
  <2>2. u[1] = c /\ Of(u) = {c}
    BY <1>2, <1>3, <2>1 DEF Of
  <2> QED
    BY <1>3, <2>1, <2>2
<1> QED
  BY <1>1, <1>3

\* The completion registers and the Loads hold completions.
LEMMA UnitsAre ==
  ASSUME Types
  PROVE  /\ Unit(primary) /\ Unit(secondary) /\ Unit(memory)
         /\ \A c \in Of(primary) \cup Of(secondary) \cup Of(memory) \cup loads :
               c \in Completions /\ c.tag \in Tags
<1>1. Unit(primary) /\ Unit(secondary) /\ Unit(memory) /\ loads \subseteq Completions
  BY DEF Types, TypeOK, Unit
<1>2. \A c \in Of(primary) \cup Of(secondary) \cup Of(memory) \cup loads : c \in Completions
  BY <1>1, UnitIs
<1>3. \A c \in Completions : c.tag \in Tags
  BY DEF Completions
<1> QED
  BY <1>1, <1>2, <1>3

\* What is delivered belongs to a uop that waits for it, or is the result of a
\* branch that has recovered.
Given(c) ==
    /\ c \in Completions /\ c.tag \in Tags /\ Live(c.tag) /\ c.right /\ ~c.dead
    /\ Held(c) \/ (c \in Of(secondary) /\ HeldBranch(c))

\* What is delivered is right and belongs to a live uop; what is not waits.
LEMMA DeliveredIs ==
  ASSUME Types, UnitsOK, ApartOK
  PROVE  /\ \A c \in delivered : Given(c) /\ c \in Of(primary) \cup Of(secondary) \cup Of(memory)
         /\ \A c \in Of(memory) : c \in delivered
         /\ \A c \in Of(secondary) : Live(c.tag) => c \in delivered
         /\ \A c \in Of(primary) : Live(c.tag) => c \in delivered \/ ~pReady
         /\ ~pReady => /\ primary # None /\ Held(primary[1]) /\ primary[1] \in Of(primary)
                       /\ \A d \in delivered : d.tag # primary[1].tag
<1>1. Unit(primary) /\ Unit(secondary) /\ Unit(memory)
  BY UnitsAre
<1>2. \A c \in Of(primary) \cup Of(secondary) \cup Of(memory) \cup loads : c \in Completions /\ c.tag \in Tags
  BY UnitsAre
<1>3. \A t \in filter : ~Live(t)
  BY DEF UnitsOK
<1>4. ASSUME NEW u, Unit(u)
      PROVE  /\ allowed(u) => u[1] \in Of(u) /\ u[1].tag \notin filter
             /\ \A c \in Of(u) : c = u[1] /\ (Live(c.tag) => allowed(u))
  BY <1>3, <1>4, UnitIs DEF allowed
<1>5. \A c \in delivered :
        \/ allowed(memory) /\ c = memory[1]
        \/ ~allowed(memory) /\ allowed(primary) /\ c = primary[1]
        \/ allowed(secondary) /\ c = secondary[1]
  BY DEF delivered
<1>6. ASSUME NEW c \in delivered
      PROVE  /\ c \in Of(primary) \cup Of(secondary) \cup Of(memory) /\ c.tag \notin filter
             /\ c \in Of(primary) \/ c \in Of(secondary) \/ c \in Of(memory)
  BY <1>1, <1>4, <1>5
<1>7. ASSUME NEW c \in delivered PROVE Given(c)
  <2>1. ~Dead(c)
    BY <1>6 DEF Dead
  <2>2. Held(c) \/ (c \in Of(secondary) /\ HeldBranch(c))
    BY <1>6, <2>1 DEF UnitsOK
  <2> QED
    BY <1>2, <1>6, <2>2 DEF Given, Held, HeldBranch, Holds
<1>8. ASSUME NEW c \in Of(memory) PROVE c \in delivered
  <2>1. Live(c.tag)
    BY DEF UnitsOK, Held, Holds
  <2>2. allowed(memory) /\ c = memory[1]
    BY <1>1, <1>4, <2>1
  <2> QED
    BY <2>2 DEF delivered
<1>9. ASSUME NEW c \in Of(secondary), Live(c.tag) PROVE c \in delivered
  <2>1. allowed(secondary) /\ c = secondary[1]
    BY <1>1, <1>4, <1>9
  <2> QED
    BY <2>1 DEF delivered
<1>10. ASSUME NEW c \in Of(primary), Live(c.tag), c \notin delivered PROVE ~pReady
  <2>1. allowed(primary) /\ c = primary[1] /\ primary # None
    BY <1>1, <1>4, <1>10 DEF allowed
  <2>2. allowed(memory)
    BY <1>10, <2>1 DEF delivered
  <2> QED
    BY <2>1, <2>2 DEF pReady, pCompletionReady
<1>11. ASSUME ~pReady
       PROVE  /\ primary # None /\ Held(primary[1]) /\ primary[1] \in Of(primary)
              /\ \A d \in delivered : d.tag # primary[1].tag
  <2>1. primary # None /\ allowed(memory) /\ allowed(primary)
    BY <1>11 DEF pReady, pCompletionReady
  <2>2. primary[1] \in Of(primary) /\ primary[1].tag \notin filter
    BY <1>1, <1>4, <2>1
  <2>3. Held(primary[1])
    BY <2>2 DEF UnitsOK, Dead
  <2>4. \A d \in delivered : d \in Of(memory) \/ d \in Of(secondary)
    BY <1>1, <1>4, <1>5, <2>1
  <2>5. \A d \in delivered : d.tag # primary[1].tag
    BY <2>2, <2>4 DEF ApartOK
  <2> QED
    BY <2>1, <2>2, <2>3, <2>5
<1> QED
  BY <1>6, <1>7, <1>8, <1>9, <1>10, <1>11

--------------------------------------------------------------------------------
(* The register file.                                                          *)

\* All results of a clock are right.
AllRight(done) == \A c \in done : c.right /\ ~c.dead

\* A register is ready exactly when it is right, before and after.
LEMMA RegistersAre ==
  ASSUME NEW done, AllRight(done), right = readyTable, right \subseteq Regs,
         NEW allocated, 0 \notin allocated, RegisterFile(done, allocated)
  PROVE  /\ right' = (right \ allocated) \cup wakeupsOf(done) /\ right' = readyTable'
<1> USE DEF AllRight
<1>1. 0 \notin Regs
  BY ExecuteAssumption
<1>2. readyTable' = (readyTable \ allocated) \cup wakeupsOf(done)
  BY DEF RegisterFile
<1>3. \A p : p \in wakeupsOf(done) <=> p # 0 /\ \E c \in done : c.dest = p
  BY DEF wakeupsOf
<1>4. \A p : p \in rightNow(done) <=>
         \/ p \in right /\ \A c \in done : c.dest # p
         \/ \E c \in done : c.right /\ ~c.dead /\ c.dest = p
         \/ p = 0
  BY DEF rightNow
<1>5. \A p : p \in rightNow(done) <=> p \in right \/ p \in wakeupsOf(done) \/ p = 0
  BY <1>3, <1>4
<1>6. \A p : p \in right' <=>
         \/ p \in rightNow(done) /\ p # 0 /\ p \notin allocated
         \/ p \in allocated /\ \E c \in done : c.dest = p /\ c.right /\ ~c.dead
  BY DEF RegisterFile
<1>7. ASSUME NEW p
      PROVE  p \in right' <=> (p \in right /\ p \notin allocated) \/ p \in wakeupsOf(done)
  <2>1. p \in allocated => p # 0
    OBVIOUS
  <2>2. p \in right => p # 0
    BY <1>1
  <2>3. p \in rightNow(done) <=> p \in right \/ p \in wakeupsOf(done) \/ p = 0
    BY <1>5
  <2>4. p \in wakeupsOf(done) <=> p # 0 /\ \E c \in done : c.dest = p /\ c.right /\ ~c.dead
    BY <1>3
  <2> QED
    BY <1>6, <2>1, <2>2, <2>3, <2>4
<1>8. right' = (right \ allocated) \cup wakeupsOf(done)
  BY <1>7
<1> QED
  BY <1>2, <1>8

\* The sources of a ready entry are right.
LEMMA ReadyIsRight ==
  ASSUME NEW done, \A c \in done : c.right /\ ~c.dead, right = readyTable,
         NEW e \in IqType, readyEntry(e, wakeupsOf(done)),
         e.src1 # 0 => (e.src1Ready <=> e.src1 \in readyTable),
         e.src2 # 0 => (e.src2Ready <=> e.src2 \in readyTable)
  PROVE  /\ e.src1 \in rightNow(done) /\ (e.isStore \/ e.src2 \in rightNow(done))
<1>1. \A p : p \in wakeupsOf(done) => \E c \in done : c.dest = p
  BY DEF wakeupsOf
<1>2. \A p : (\E c \in done : c.dest = p) \/ p \in right \/ p = 0 => p \in rightNow(done)
  BY DEF rightNow
<1> QED
  BY <1>1, <1>2 DEF readyEntry, sourceReadyNow

--------------------------------------------------------------------------------
(* Issue.                                                                      *)

\* What enters the primary unit, the secondary unit and the LSU: ready entries,
\* at most one each, all different, and no branch outside of the secondary unit.
Issues(ks, p1, acc, w) ==
    /\ \A k \in ks \cup p1 \cup acc : k \in 1..Len(iq) /\ readyEntry(iq[k], w)
    /\ \A j, k \in ks : j = k
    /\ \A j, k \in p1 : j = k
    /\ \A j, k \in acc : j = k
    /\ \A k \in ks : k \notin p1 /\ k \notin acc /\ iq[k].fuClass # "FU_BRANCH"
    /\ \A k \in acc : k \notin p1 /\ iq[k].fuClass # "FU_BRANCH"

\* What the LSU may answer to the candidate of port 0.
LEMMA AnswerIs ==
  ASSUME Types, NEW p0, p0 \subseteq 1..Len(iq), NEW m \in MemoryAnswers(p0)
  PROVE  /\ m.accepted = {} \/ \E k \in p0 : m.accepted = {k} /\ candidate0IsMemory(p0)
         /\ m.accepted # {} => ~m.active
         /\ m.retry \in {None} \cup {<<t>> : t \in Tags}
         /\ m.local \in BOOLEAN /\ m.active \in BOOLEAN
<1>1. CASE ~candidate0IsMemory(p0)
  <2>1. m = [active |-> FALSE, accepted |-> {}, local |-> TRUE, retry |-> None]
    BY <1>1 DEF MemoryAnswers
  <2> QED
    BY <2>1
<1>2. CASE candidate0IsMemory(p0)
  <2> DEFINE k == CHOOSE j \in p0 : TRUE
             load == ~iq[k].isStore
             active(a) == ~a.lsq \/ (load /\ cacheFallback = <<iq[k].tag>>)
             local(a) == ~load \/ a.forward \/ iq[k].exception
             ready(a) == a.lsq /\ a.lsu /\ (local(a) \/ a.request)
  <2>1. k \in p0
    BY <1>2 DEF candidate0IsMemory
  <2>2. iq[k].tag \in Tags
    BY <2>1, Parts
  <2>3. PICK a \in [lsq : BOOLEAN, forward : BOOLEAN, request : BOOLEAN, lsu : BOOLEAN] :
          m = [active |-> active(a),
               accepted |-> IF ready(a) /\ memorySourceValid(active(a)) THEN {k} ELSE {},
               local |-> local(a),
               retry |-> IF a.lsq /\ load /\ ~a.forward /\ ~a.request
                         THEN <<iq[k].tag>> ELSE None]
    BY <1>2 DEF MemoryAnswers
  <2> HIDE DEF k
  <2>4. active(a) \in BOOLEAN /\ local(a) \in BOOLEAN
    OBVIOUS
  <2> HIDE DEF load, active, local, ready
  <2>5. /\ m.active = active(a) /\ m.local = local(a)
        /\ m.accepted = IF ready(a) /\ memorySourceValid(active(a)) THEN {k} ELSE {}
        /\ m.retry = IF a.lsq /\ load /\ ~a.forward /\ ~a.request THEN <<iq[k].tag>> ELSE None
    BY <2>3
  <2> QED
    BY <1>2, <2>1, <2>2, <2>4, <2>5 DEF memorySourceValid
<1> QED
  BY <1>1, <1>2

\* What issues is ready, at most one uop each way, and a branch only on port 1.
LEMMA IssueIs ==
  ASSUME Types, NEW w, NEW p0, NEW p1, NEW fb, Chosen(iq, w, p0, p1, fb), NEW m \in MemoryAnswers(p0)
  PROVE  /\ Issues(primaryIssue(p0, fb, m), p1, m.accepted, w)
         /\ issuedPositions(p0, p1, fb, m) =
               (IF pReady THEN primaryIssue(p0, fb, m) ELSE {}) \cup p1 \cup m.accepted
<1>1. p0 \subseteq 1..Len(iq)
  BY DEF Chosen
<1>2. /\ m.accepted = {} \/ \E k \in p0 : m.accepted = {k} /\ candidate0IsMemory(p0)
      /\ m.accepted # {} => ~m.active
  BY <1>1, AnswerIs
<1>3. \A k \in m.accepted : k \in p0
  BY <1>2
<1>4. /\ \A k \in primaryIssue(p0, fb, m) : (k \in p0 \/ k \in fb) /\ m.accepted = {}
      /\ \A j, k \in primaryIssue(p0, fb, m) : (j \in p0 /\ k \in p0) \/ (j \in fb /\ k \in fb)
  BY <1>2 DEF primaryIssue
<1>5. "FU_INTEGER" # "FU_BRANCH"
  BY SMTT(60)
<1>6. Issues(primaryIssue(p0, fb, m), p1, m.accepted, w)
  BY <1>2, <1>3, <1>4, <1>5 DEF Issues, Chosen
<1>7. (IF m.active THEN {} ELSE m.accepted) = m.accepted
  BY <1>2
<1> QED
  BY <1>6, <1>7 DEF issuedPositions

--------------------------------------------------------------------------------
(* The units.                                                                  *)

\* A unit holds the result of a uop, and a clock later still does.
Result(c, e) ==
    /\ c \in Completions /\ c.tag = e.tag /\ c.exception = e.exception
    /\ c.dest = (IF e.exception THEN 0 ELSE e.dest) /\ c.right /\ ~c.dead
Kept(c, b, killed) ==
    /\ c \in Completions /\ c.tag = b.tag /\ c.dest = b.dest /\ c.exception = b.exception
    /\ c.right = b.right /\ (c.dead <=> b.dead \/ b.tag \in killed)

\* A ready entry with right sources gives a right result.
LEMMA ResultIs ==
  ASSUME NEW e \in IqType, NEW good, e.src1 \in good, e.isStore \/ e.src2 \in good
  PROVE  Result(resultOf(e, good), e)
<1>1. (e.src1 \in good /\ (e.isStore \/ e.src2 \in good)) = TRUE
  OBVIOUS
<1>2. 0 \in RegsOr0
  BY DEF RegsOr0
<1> QED
  BY <1>1, <1>2 DEF IqType, RegsOr0, resultOf, Result, Completions

MarkedFrom(v, u, killed) ==
    /\ Unit(v)
    /\ \A b \in Of(u) : \E c \in Of(v) : Kept(c, b, killed)
    /\ \A c \in Of(v) : \E b \in Of(u) : Kept(c, b, killed)

\* A recovery marks the completions of what it kills and changes nothing else.
LEMMA MarkedIs ==
  ASSUME NEW u, Unit(u), NEW killed
  PROVE  MarkedFrom(marked(u, killed), u, killed)
<1>1. CASE u = None
  BY <1>1 DEF marked, MarkedFrom, Of, Unit
<1>2. CASE u # None
  <2> DEFINE b == u[1]
             c == [b EXCEPT !.dead = @ \/ b.tag \in killed]
  <2>1. b \in Completions /\ Of(u) = {b}
    BY <1>2, UnitIs DEF Of
  <2>2. marked(u, killed) = <<c>>
    BY <1>2 DEF marked
  <2> HIDE DEF b
  <2>3. Kept(c, b, killed)
    BY <2>1 DEF Kept, Completions
  <2> HIDE DEF c
  <2>4. c \in Completions
    BY <2>3 DEF Kept
  <2>5. Unit(<<c>>)
    BY <2>4 DEF Unit
  <2>6. Of(<<c>>) = {c}
    BY SMTT(60) DEF Of, None
  <2> QED
    BY <2>1, <2>2, <2>3, <2>5, <2>6 DEF MarkedFrom
<1> QED
  BY <1>1, <1>2

\* A register filled from the entries at ks.
FilledFrom(u, ks) ==
    /\ Unit(u)
    /\ \A k \in ks : \E c \in Of(u) : Result(c, iq[k])
    /\ \A c \in Of(u) : \E k \in ks : Result(c, iq[k])

\* What a completion register holds after the edge.
LEMMA EntersIs ==
  ASSUME NEW ks, NEW good, \A j, k \in ks : j = k, \A k \in ks : Result(resultOf(iq[k], good), iq[k])
  PROVE  FilledFrom(IF ks = {} THEN None ELSE <<resultOf(iq[CHOOSE k \in ks : TRUE], good)>>, ks)
<1>1. CASE ks = {}
  BY <1>1 DEF FilledFrom, Of, Unit
<1>2. CASE ks # {}
  <2> DEFINE k == CHOOSE j \in ks : TRUE
             c == resultOf(iq[k], good)
  <2>1. k \in ks
    BY <1>2
  <2> HIDE DEF k
  <2>2. Result(c, iq[k])
    BY <2>1
  <2> HIDE DEF c
  <2>3. Unit(<<c>>)
    BY <2>2 DEF Result, Unit
  <2>4. Of(<<c>>) = {c}
    BY SMTT(60) DEF Of, None
  <2>5. \A j \in ks : j = k
    BY <2>1
  <2>6. FilledFrom(<<c>>, ks)
    BY <2>1, <2>2, <2>3, <2>4, <2>5 DEF FilledFrom
  <2> QED
    BY <1>2, <2>6 DEF k, c
<1> QED
  BY <1>1, <1>2

\* The result of the entry at k after the kill of a recovery.
New(c, k, killed) ==
    /\ c \in Completions /\ c.tag = iq[k].tag /\ c.exception = iq[k].exception
    /\ c.dest = (IF iq[k].exception THEN 0 ELSE iq[k].dest) /\ c.right
    /\ c.dead <=> c.tag \in killed

\* The units after a clock in which the entries at ks and p1 enter the two of
\* them.
IntegerUnits(ks, p1, killed) ==
    /\ Unit(primary') /\ Unit(secondary')
    /\ \A c \in Of(primary') : \/ \E k \in ks : New(c, k, killed)
                               \/ ~pReady /\ Kept(c, primary[1], killed)
    /\ \A c \in Of(secondary') : \E k \in p1 : New(c, k, killed)
    /\ \A k \in ks : \E c \in Of(primary') : c.tag = iq[k].tag
    /\ \A k \in p1 : \E c \in Of(secondary') : c.tag = iq[k].tag
    /\ ~pReady => \E c \in Of(primary') : c.tag = primary[1].tag

AtMostOne(ks) == \A j, k \in ks : j = k
Results(ks, good) == \A k \in ks : Result(resultOf(iq[k], good), iq[k])

\* The two integer units after the edge.
LEMMA UnitsStep ==
  ASSUME NEW p0, NEW p1, NEW fb, NEW m, NEW good, NEW killed, NEW ks,
         ks = IF pReady THEN primaryIssue(p0, fb, m) ELSE {},
         AtMostOne(primaryIssue(p0, fb, m)), AtMostOne(p1),
         Results(primaryIssue(p0, fb, m), good), Results(p1, good),
         Unit(primary), Units(p0, p1, fb, m, good, killed)
  PROVE  IntegerUnits(ks, p1, killed)
<1> DEFINE enters(K) == IF K = {} THEN None ELSE <<resultOf(iq[CHOOSE k \in K : TRUE], good)>>
           ps == primaryIssue(p0, fb, m)
           u == IF pReady THEN enters(ps) ELSE primary
           v == enters(p1)
<1>1. primary' = marked(u, killed) /\ secondary' = marked(v, killed)
  BY DEF Units
<1>2. FilledFrom(enters(ps), ps) /\ FilledFrom(v, p1)
  <2>1. (\A k \in ps : Result(resultOf(iq[k], good), iq[k])) /\ \A j, k \in ps : j = k
    BY DEF Results, AtMostOne
  <2>2. (\A k \in p1 : Result(resultOf(iq[k], good), iq[k])) /\ \A j, k \in p1 : j = k
    BY DEF Results, AtMostOne
  <2>3. FilledFrom(enters(ps), ps)
    BY <2>1, EntersIs
  <2>4. FilledFrom(v, p1)
    BY <2>2, EntersIs
  <2> QED
    BY <2>3, <2>4
<1> HIDE DEF enters, v, ps
<1>3. Unit(u) /\ Unit(v)
  BY <1>2 DEF FilledFrom
<1>4. MarkedFrom(primary', u, killed) /\ MarkedFrom(secondary', v, killed)
  BY <1>1, <1>3, MarkedIs
<1>5. ASSUME NEW b, NEW k, Result(b, iq[k]), NEW c, Kept(c, b, killed)
      PROVE  New(c, k, killed) /\ c.tag = iq[k].tag
  BY <1>5 DEF Result, Kept, New
<1>6. \A c, b : Kept(c, b, killed) => c.tag = b.tag
  BY DEF Kept
<1>10. ASSUME NEW x, NEW y, MarkedFrom(x, y, killed), NEW K, FilledFrom(y, K)
       PROVE  /\ \A c \in Of(x) : \E k \in K : New(c, k, killed)
              /\ \A k \in K : \E c \in Of(x) : c.tag = iq[k].tag
  <2>1. ASSUME NEW c \in Of(x) PROVE \E k \in K : New(c, k, killed)
    <3>1. PICK b \in Of(y) : Kept(c, b, killed)
      BY <1>10 DEF MarkedFrom
    <3>2. PICK k \in K : Result(b, iq[k])
      BY <1>10 DEF FilledFrom
    <3> QED
      BY <1>5, <3>1, <3>2
  <2>2. ASSUME NEW k \in K PROVE \E c \in Of(x) : c.tag = iq[k].tag
    <3>1. PICK b \in Of(y) : Result(b, iq[k])
      BY <1>10 DEF FilledFrom
    <3>2. PICK c \in Of(x) : Kept(c, b, killed)
      BY <1>10 DEF MarkedFrom
    <3> QED
      BY <1>5, <3>1, <3>2
  <2> QED
    BY <2>1, <2>2
<1>7. /\ \A c \in Of(secondary') : \E k \in p1 : New(c, k, killed)
      /\ \A k \in p1 : \E c \in Of(secondary') : c.tag = iq[k].tag
  BY <1>2, <1>4, <1>10
<1>8. CASE pReady
  <2>1. ks = ps /\ u = enters(ps)
    BY <1>8 DEF ps
  <2>2. FilledFrom(u, ks)
    BY <1>2, <2>1
  <2>3. /\ \A c \in Of(primary') : \E k \in ks : New(c, k, killed)
        /\ \A k \in ks : \E c \in Of(primary') : c.tag = iq[k].tag
    BY <1>4, <1>10, <2>2
  <2> QED
    BY <1>4, <1>7, <1>8, <2>3 DEF IntegerUnits, MarkedFrom
<1>9. CASE ~pReady
  <2>1. ks = {} /\ u = primary
    BY <1>9
  <2>2. primary # None
    BY <1>9 DEF pReady
  <2>3. Of(u) = {primary[1]}
    BY <2>1, <2>2 DEF Of
  <2>4. /\ \A c \in Of(primary') : Kept(c, primary[1], killed)
        /\ \E c \in Of(primary') : Kept(c, primary[1], killed)
    BY <1>4, <2>3 DEF MarkedFrom
  <2> QED
    BY <1>4, <1>6, <1>7, <1>9, <2>1, <2>4 DEF IntegerUnits, MarkedFrom
<1> QED
  BY <1>8, <1>9

\* The LSU after a clock in which it accepts the entry at acc.
MemoryUnit(acc, killed) ==
    /\ Unit(memory') /\ loads' \subseteq Completions
    /\ \A c \in Of(memory') \cup loads' :
          /\ c.tag \notin killed
          /\ c \in loads \/ \E k \in acc : New(c, k, killed)
    /\ \A c \in Of(memory') : c \in loads' => \E k \in acc : New(c, k, killed)
    /\ \A c \in Of(memory') : \A d \in loads' : c \in loads \/ d \in loads
    /\ \A c, d \in loads' : c \in loads \/ d \in loads \/ c = d
    /\ \A k \in acc : iq[k].tag \notin killed =>
          \E c \in Of(memory') \cup loads' : c.tag = iq[k].tag
    /\ \A l \in loads : l.tag \notin killed => \E c \in Of(memory') \cup loads' : c.tag = l.tag

\* The LSU after the edge.
LEMMA LsuStep ==
  ASSUME NEW m, NEW good, NEW killed, m.local \in BOOLEAN,
         AtMostOne(m.accepted), Results(m.accepted, good),
         loads \subseteq Completions,
         NEW answer \in LsuAnswers(m, killed), Lsu(m, answer, good, killed)
  PROVE  MemoryUnit(m.accepted, killed)
<1> DEFINE taken == {resultOf(iq[k], good) : k \in {j \in m.accepted : iq[j].tag \notin killed}}
           answered == IF answer = None THEN {} ELSE {answer[1]}
<1>1. /\ memory' = IF m.local /\ taken # {} THEN <<CHOOSE r \in taken : TRUE>> ELSE answer
      /\ loads' = {l \in (loads \ answered) \cup (IF m.local THEN {} ELSE taken) :
                      l.tag \notin killed}
  BY DEF Lsu
<1>2. \A c \in taken : /\ \E k \in m.accepted : New(c, k, killed)
                       /\ c.tag \notin killed /\ c \in Completions
  <2> SUFFICES ASSUME NEW k \in m.accepted, iq[k].tag \notin killed, NEW c, c = resultOf(iq[k], good)
               PROVE  New(c, k, killed) /\ c.tag \notin killed /\ c \in Completions
    OBVIOUS
  <2>1. Result(c, iq[k])
    BY DEF Results
  <2> QED
    BY <2>1 DEF Result, New
<1>3. \A c, d \in taken : c = d
  BY DEF AtMostOne
<1>4. \A k \in m.accepted : iq[k].tag \notin killed => \E c \in taken : c.tag = iq[k].tag
  <2> SUFFICES ASSUME NEW k \in m.accepted, iq[k].tag \notin killed
               PROVE  \E c \in taken : c.tag = iq[k].tag
    OBVIOUS
  <2>1. resultOf(iq[k], good) \in taken
    OBVIOUS
  <2>2. resultOf(iq[k], good).tag = iq[k].tag
    BY DEF Result, Results
  <2> QED
    BY <2>1, <2>2
<1>5. /\ Unit(answer) /\ \A c \in Of(answer) : c \in loads /\ c.tag \notin killed
      /\ answered = Of(answer) /\ (taken # {} /\ m.local => answer = None)
  <2>1. CASE answer = None
    BY <2>1 DEF Unit, Of
  <2>2. CASE answer # None
    <3>1. PICK l \in loads : l.tag \notin killed /\ answer = <<l>>
      BY <2>2 DEF LsuAnswers
    <3>2. answer[1] = l
      BY <3>1, SMTT(60)
    <3>3. ~(taken # {} /\ m.local)
      BY <2>2 DEF LsuAnswers
    <3>4. l \in Completions
      BY <3>1
    <3> QED
      BY <2>2, <3>1, <3>2, <3>3, <3>4 DEF Unit, Of
  <2> QED
    BY <2>1, <2>2
<1> HIDE DEF taken, answered
<1>6. CASE m.local /\ taken # {}
  <2> DEFINE r == CHOOSE x \in taken : TRUE
  <2>1. r \in taken
    BY <1>6
  <2>2. memory' = <<r>>
    BY <1>1, <1>6
  <2> HIDE DEF r
  <2>3. Of(memory') = {r}
    BY <2>2, SMTT(60) DEF Of, None
  <2>4. Unit(memory')
    BY <1>2, <2>1, <2>2 DEF Unit
  <2>5. answered = {}
    BY <1>5, <1>6 DEF Of
  <2>6. \A l : l \in loads' <=> l \in loads /\ l.tag \notin killed
    BY <1>1, <1>6, <2>5
  <2>7. \A c \in taken : c = r
    BY <1>3, <2>1
  <2>8. loads' \subseteq Completions
    BY <2>6
  <2> QED
    BY <1>2, <1>4, <2>1, <2>3, <2>4, <2>6, <2>7, <2>8 DEF MemoryUnit
<1>7. CASE ~(m.local /\ taken # {})
  <2>1. memory' = answer
    BY <1>1, <1>7
  <2>2. \A l : l \in loads' <=> /\ (l \in loads /\ l \notin Of(answer)) \/ (~m.local /\ l \in taken)
                                /\ l.tag \notin killed
    BY <1>1, <1>5
  <2>3. loads' \subseteq Completions
    BY <1>2, <2>2
  <2>4. \A c \in Of(memory') \cup loads' :
          /\ c.tag \notin killed
          /\ c \in loads \/ \E k \in m.accepted : New(c, k, killed)
    BY <1>2, <1>5, <2>1, <2>2
  <2>5. \A c \in Of(memory') : c \in loads /\ (c \in loads' => \E k \in m.accepted : New(c, k, killed))
    BY <1>2, <1>5, <2>1, <2>2
  <2>6. \A c, d \in loads' : c \in loads \/ d \in loads \/ c = d
    BY <1>3, <2>2
  <2>7. ASSUME NEW k \in m.accepted, iq[k].tag \notin killed
        PROVE  \E c \in Of(memory') \cup loads' : c.tag = iq[k].tag
    <3>1. PICK c \in taken : c.tag = iq[k].tag
      BY <1>4, <2>7
    <3>2. ~m.local
      BY <1>7, <3>1
    <3> QED
      BY <2>2, <2>7, <3>1, <3>2
  <2>8. \A l \in loads : l.tag \notin killed => \E c \in Of(memory') \cup loads' : c.tag = l.tag
    BY <2>1, <2>2
  <2> QED
    BY <1>5, <2>1, <2>3, <2>4, <2>5, <2>6, <2>7, <2>8 DEF MemoryUnit
<1> QED
  BY <1>6, <1>7

--------------------------------------------------------------------------------
(* The ROB entries after issue and completion.                                 *)

Updated(r, issued, done) ==
    /\ r \in Seq(RobType) /\ Len(r) = Len(rob)
    /\ \A i \in 1..Len(rob) :
          /\ r[i].dest = rob[i].dest /\ r[i].old = rob[i].old
          /\ r[i].isBranch = rob[i].isBranch
          /\ (\E c \in done : c.tag = TagAt(i)) =>
                r[i].state = IF \E c \in done : c.tag = TagAt(i) /\ c.exception
                             THEN "exception" ELSE "done"
          /\ ~(\E c \in done : c.tag = TagAt(i)) =>
                r[i].state = IF \E k \in issued : iq[k].tag = TagAt(i)
                             THEN "issued" ELSE rob[i].state

\* f is the entry e in state x.
InState(f, e, x) ==
    /\ f \in RobType /\ f.state = x
    /\ f.dest = e.dest /\ f.old = e.old /\ f.isBranch = e.isBranch

\* Issue and completion change only the states of ROB entries.
LEMMA UpdatedIs ==
  ASSUME Types, NEW issued, NEW done
  PROVE  Updated(Completed(Issued(rob, issued), done), issued, done)
<1> DEFINE s == Issued(rob, issued)
           r == Completed(s, done)
           atIssue(i) == IF \E k \in issued : iq[k].tag = TagAt(i) THEN "issued" ELSE rob[i].state
           atDone(i) == IF \E c \in done : c.tag = TagAt(i) /\ c.exception THEN "exception" ELSE "done"
<1>1. Len(rob) \in Nat /\ \A i \in 1..Len(rob) : rob[i] \in RobType
  BY Parts
<1>2. ASSUME NEW e \in RobType, NEW x \in {"iq", "issued", "done", "exception"}
      PROVE  InState([e EXCEPT !.state = x], e, x) /\ InState(e, e, e.state)
  BY DEF RobType, InState
<1>3. /\ s \in [1..Len(rob) -> RobType]
      /\ \A i \in 1..Len(rob) :
            /\ s[i].state = atIssue(i) /\ s[i].dest = rob[i].dest /\ s[i].old = rob[i].old
            /\ s[i].isBranch = rob[i].isBranch
  <2>1. ASSUME NEW i \in 1..Len(rob)
        PROVE  /\ s[i] \in RobType
               /\ s[i].state = atIssue(i) /\ s[i].dest = rob[i].dest /\ s[i].old = rob[i].old
               /\ s[i].isBranch = rob[i].isBranch
    <3>1. s[i] = IF \E k \in issued : iq[k].tag = TagAt(i)
                 THEN [rob[i] EXCEPT !.state = "issued"] ELSE rob[i]
      BY DEF Issued
    <3>2. InState([rob[i] EXCEPT !.state = "issued"], rob[i], "issued") /\ InState(rob[i], rob[i], rob[i].state)
      BY <1>1, <1>2
    <3>3. InState(s[i], rob[i], atIssue(i))
      BY <3>1, <3>2
    <3> QED
      BY <3>3 DEF InState
  <2>2. s = [i \in 1..Len(rob) |-> s[i]]
    BY DEF Issued
  <2> HIDE DEF s, atIssue
  <2>3. s \in [1..Len(rob) -> RobType]
    BY <2>1, <2>2
  <2> QED
    BY <2>1, <2>3
<1> HIDE DEF s
<1>4. Len(s) = Len(rob)
  BY <1>1, <1>3, SMTT(60)
<1>5. ASSUME NEW i \in 1..Len(rob)
      PROVE  /\ r[i] \in RobType
             /\ r[i].state = IF \E c \in done : c.tag = TagAt(i) THEN atDone(i) ELSE s[i].state
             /\ r[i].dest = s[i].dest /\ r[i].old = s[i].old
             /\ r[i].isBranch = s[i].isBranch
  <2>1. r[i] = IF \E c \in done : c.tag = TagAt(i)
               THEN [s[i] EXCEPT !.state = atDone(i)] ELSE s[i]
    BY <1>4 DEF Completed
  <2>2. s[i] \in RobType
    BY <1>3
  <2>3. atDone(i) \in {"iq", "issued", "done", "exception"}
    OBVIOUS
  <2> HIDE DEF atDone, r
  <2>4. /\ InState([s[i] EXCEPT !.state = atDone(i)], s[i], atDone(i))
        /\ InState(s[i], s[i], s[i].state)
    BY <1>2, <2>2, <2>3
  <2>5. InState(r[i], s[i], IF \E c \in done : c.tag = TagAt(i) THEN atDone(i) ELSE s[i].state)
    BY <2>1, <2>4
  <2> QED
    BY <2>5 DEF InState
<1>6. r = [i \in 1..Len(rob) |-> r[i]]
  BY <1>4 DEF Completed
<1> HIDE DEF r, atIssue, atDone
<1>7. r \in [1..Len(rob) -> RobType]
  BY <1>5, <1>6
<1>8. r \in Seq(RobType) /\ Len(r) = Len(rob)
  BY <1>1, <1>7, SMTT(60)
<1>9. \A i \in 1..Len(rob) :
        /\ r[i].dest = rob[i].dest /\ r[i].old = rob[i].old
        /\ r[i].isBranch = rob[i].isBranch
        /\ (\E c \in done : c.tag = TagAt(i)) => r[i].state = atDone(i)
        /\ ~(\E c \in done : c.tag = TagAt(i)) => r[i].state = atIssue(i)
  BY <1>3, <1>5
<1> QED
  BY <1>8, <1>9 DEF Updated, r, s, atIssue, atDone

\* What a done uop writes is right once the clock's results are written.
DoneIsRight(done) ==
    \A t \in Tags : Live(t) /\ Uop(t).state = "done" /\ Uop(t).dest # 0 =>
        Uop(t).dest \in right \cup wakeupsOf(done)

\* The result of a uop that is done is right, or is written in this clock.
LEMMA DoneAreRight ==
  ASSUME IInv
  PROVE  DoneIsRight(delivered)
<1> SUFFICES ASSUME NEW t \in Tags, Live(t), Uop(t).state = "done", Uop(t).dest # 0,
                    Uop(t).dest \notin right
             PROVE  Uop(t).dest \in wakeupsOf(delivered)
  BY DEF DoneIsRight
<1>1. PICK c \in Of(secondary) : c.tag = t
  BY DEF IInv, PlacesOK
<1>2. Types /\ UnitsOK /\ ApartOK
  BY DEF IInv
<1>3. c \in delivered /\ Given(c)
  BY <1>1, <1>2, DeliveredIs
<1>4. HeldBranch(c)
  <2>1. "issued" # "done"
    BY SMTT(60)
  <2> QED
    BY <1>1, <1>3, <2>1 DEF Given, Held
<1>5. c.dest = Uop(t).dest
  BY <1>1, <1>4 DEF HeldBranch, Holds
<1> QED
  BY <1>3, <1>5 DEF wakeupsOf

\* One uop in this clock: e is its new entry, b holds the tag of the branch that
\* recovers, if one does.
Advances(e, t, issued, b, done) ==
    /\ e.dest = Uop(t).dest /\ e.old = Uop(t).old /\ e.isBranch = Uop(t).isBranch
    /\ e.state = "iq" => \E k \in 1..Len(iq) : k \notin issued /\ iq[k].tag = t
    /\ \A k \in 1..Len(iq) : iq[k].tag = t /\ k \notin issued => e.state = "iq"
    /\ \A k \in issued : iq[k].tag = t /\ t \notin b => e.state = "issued"
    /\ ~pReady /\ primary[1].tag = t => e.state = "issued"
    /\ \A l \in loads : l.tag = t => e.state = "issued"
    /\ e.state = "issued" => \/ \E k \in issued : iq[k].tag = t
                             \/ ~pReady /\ primary[1].tag = t
                             \/ \E l \in loads : l.tag = t
    /\ e.state = "done" /\ e.dest # 0 => t \in b \/ e.dest \in right \cup wakeupsOf(done)
    /\ t \in b => e.state = "done"

\* How the ROB entry of a live uop goes on in a clock.
LEMMA UopAdvances ==
  ASSUME IInv, NEW issued \in SUBSET (1..Len(iq)), NEW r, Updated(r, issued, delivered),
         NEW t \in Tags, Live(t)
  PROVE  Advances(r[PlaceOf(t)], t, issued, {}, delivered)
<1> DEFINE i == PlaceOf(t)
           e == r[i]
<1>0. Types /\ UnitsOK /\ ApartOK /\ QueueOK /\ PlacesOK
  BY DEF IInv
<1>1. i \in 1..Len(rob) /\ TagAt(i) = t
  <2>1. i \in 1..RobDepth /\ TagAt(i) = t /\ RobDepth \in Nat /\ Len(rob) \in Nat
    BY <1>0, Parts
  <2>2. i <= Len(rob)
    BY DEF Live
  <2> HIDE DEF i
  <2> QED
    BY <2>1, <2>2, SMTT(60)
<1>2. rob[i] = Uop(t)
  BY DEF Uop
<1> HIDE DEF i
<1>3. /\ e.dest = Uop(t).dest /\ e.old = Uop(t).old /\ e.isBranch = Uop(t).isBranch
      /\ (\E c \in delivered : c.tag = t) =>
            e.state = IF \E c \in delivered : c.tag = t /\ c.exception THEN "exception" ELSE "done"
      /\ ~(\E c \in delivered : c.tag = t) =>
            e.state = IF \E k \in issued : iq[k].tag = t THEN "issued" ELSE Uop(t).state
  BY <1>1, <1>2 DEF Updated
<1> HIDE DEF e
<1>4. /\ "iq" # "issued" /\ "iq" # "done" /\ "iq" # "exception" /\ "issued" # "done"
      /\ "issued" # "exception" /\ "done" # "exception"
  BY SMTT(60)
<1>5. ASSUME NEW c \in delivered, c.tag = t
      PROVE  /\ Uop(t).state = "issued" \/ (Uop(t).state = "done" /\ ~c.exception)
             /\ c.dest = IF c.exception THEN 0 ELSE Uop(t).dest
  <2>1. Held(c) \/ HeldBranch(c)
    BY <1>0, DeliveredIs DEF Given
  <2> QED
    BY <1>5, <2>1 DEF Held, HeldBranch, Holds
<1>6. \A k \in 1..Len(iq) : iq[k].tag = t => Uop(t).state = "iq"
  BY <1>0 DEF QueueOK, Queued
<1>7. \A l \in loads : l.tag = t => Uop(t).state = "issued" /\ \A c \in delivered : c.tag # t
  <2>1. \A l \in loads : l.tag = t => Uop(t).state = "issued"
    BY <1>0 DEF UnitsOK, Held
  <2>2. \A c \in delivered : c \in Of(primary) \/ c \in Of(secondary) \/ c \in Of(memory)
    BY <1>0, DeliveredIs
  <2>3. \A l \in loads : \A c \in delivered : c.tag # l.tag
    BY <1>0, <2>2 DEF ApartOK
  <2> QED
    BY <2>1, <2>3
<1>8. ~pReady /\ primary[1].tag = t => Uop(t).state = "issued" /\ \A c \in delivered : c.tag # t
  BY <1>0, DeliveredIs DEF Held
<1>9. ASSUME \A c \in delivered : c.tag # t
      PROVE  e.state = IF \E k \in issued : iq[k].tag = t THEN "issued" ELSE Uop(t).state
  BY <1>3, <1>9
<1>10. \A k \in 1..Len(iq) : iq[k].tag = t => \A c \in delivered : c.tag # t
  BY <1>4, <1>5, <1>6
<1>11. \A j, k \in 1..Len(iq) : iq[j].tag = t /\ iq[k].tag = t => j = k
  BY <1>0 DEF QueueOK
<1>12. e.state = "iq" => \E k \in 1..Len(iq) : k \notin issued /\ iq[k].tag = t
  <2> SUFFICES ASSUME e.state = "iq" PROVE \E k \in 1..Len(iq) : k \notin issued /\ iq[k].tag = t
    OBVIOUS
  <2>1. ~(\E k \in issued : iq[k].tag = t) /\ Uop(t).state = "iq"
    BY <1>3, <1>4
  <2>2. \E k \in 1..Len(iq) : iq[k].tag = t
    BY <1>0, <2>1 DEF PlacesOK
  <2> QED
    BY <2>1, <2>2
<1>13. \A k \in 1..Len(iq) : iq[k].tag = t /\ k \notin issued => e.state = "iq"
  BY <1>6, <1>9, <1>10, <1>11
<1>14. \A k \in issued : iq[k].tag = t => e.state = "issued"
  BY <1>9, <1>10
<1>15. ~pReady /\ primary[1].tag = t => e.state = "issued"
  BY <1>4, <1>6, <1>8, <1>9
<1>16. \A l \in loads : l.tag = t => e.state = "issued"
  BY <1>4, <1>6, <1>7, <1>9
<1>17. ASSUME e.state = "issued", ~\E k \in issued : iq[k].tag = t
       PROVE  (~pReady /\ primary[1].tag = t) \/ \E l \in loads : l.tag = t
  <2>1. Uop(t).state = "issued" /\ \A c \in delivered : c.tag # t
    BY <1>3, <1>4, <1>17
  <2>2. PICK c \in Of(primary) \cup Of(secondary) \cup Of(memory) \cup loads : c.tag = t
    BY <1>0, <2>1 DEF PlacesOK
  <2>3. c \notin Of(memory) /\ c \notin Of(secondary)
    BY <1>0, <2>1, <2>2, DeliveredIs
  <2>4. CASE c \in Of(primary)
    <3>1. ~pReady
      BY <1>0, <2>1, <2>2, <2>4, DeliveredIs
    <3>2. primary[1] = c
      BY <2>4 DEF Of
    <3> QED
      BY <2>2, <3>1, <3>2
  <2> QED
    BY <2>2, <2>3, <2>4
<1>18. ASSUME e.state = "done", e.dest # 0 PROVE e.dest \in right \cup wakeupsOf(delivered)
  <2>1. CASE \E c \in delivered : c.tag = t
    <3>1. PICK c \in delivered : c.tag = t
      BY <2>1
    <3>2. ~c.exception
      BY <1>3, <1>4, <1>18, <3>1
    <3>3. c.dest = e.dest
      BY <1>3, <1>5, <3>1, <3>2
    <3>4. e.dest \in wakeupsOf(delivered)
      BY <1>18, <3>1, <3>3 DEF wakeupsOf
    <3> QED
      BY <3>4
  <2>2. CASE ~\E c \in delivered : c.tag = t
    <3>1. Uop(t).state = "done"
      BY <1>3, <1>4, <1>18, <2>2
    <3> QED
      BY <1>3, <1>18, <3>1, DoneAreRight DEF DoneIsRight
  <2> QED
    BY <2>1, <2>2
<1> QED
  BY <1>3, <1>12, <1>13, <1>14, <1>15, <1>16, <1>17, <1>18 DEF Advances, e, i

--------------------------------------------------------------------------------
(* A clock edge, for Clock and Recover alike: n uops retire, the killed ones    *)
(* leave, the others move to the entries r, and the uops d are dispatched.     *)

AllAdvance(r, issued, b) ==
    \A t \in Tags : Live(t) => Advances(r[PlaceOf(t)], t, issued, b, delivered)
Retires(n) == \A t \in Tags : Live(t) /\ ~(PlaceOf(t) > n) => Uop(t).state = "done"
Branches(b, p1) ==
    \A t \in b :
        /\ \E k \in p1 : iq[k].tag = t
        /\ \A k \in 1..Len(iq) : iq[k].tag = t =>
              k \in p1 /\ iq[k].fuClass = "FU_BRANCH" /\ ~iq[k].exception

Stays(t, n, killed) == Live(t) /\ PlaceOf(t) > n /\ t \notin killed
Survives(t, r, n) == Live(t)' /\ Uop(t)' = r[PlaceOf(t)] /\ PlaceOf(t)' = PlaceOf(t) - n
Joins(t, l, n, d) ==
    /\ ~Live(t)
    /\ Live(t)' /\ Uop(t)' = d[l] /\ PlaceOf(t)' = (Len(rob) - n) + l

Rolled(r, n, killed, d) ==
    /\ robHead' \in Tags
    /\ \A t \in Tags : Stays(t, n, killed) => Survives(t, r, n)
    /\ \A t \in killed : t \in Tags /\ Live(t) /\ ~Live(t)'
    /\ \A t \in killed : \A u \in Tags : Live(u) /\ u \notin killed => PlaceOf(u) < PlaceOf(t)
    /\ \A l \in 1..Len(d) : TagAt(Len(rob) + l) \in Tags
    /\ \A t \in Tags : \A l \in 1..Len(d) : t = TagAt(Len(rob) + l) => Joins(t, l, n, d)
    /\ \A t \in Tags : Live(t)' =>
          Stays(t, n, killed) \/ \E l \in 1..Len(d) : t = TagAt(Len(rob) + l)

\* A uop that was not done stays, unless it is killed.
LEMMA WaitingStays ==
  ASSUME NEW r, NEW n, NEW killed, NEW d, Rolled(r, n, killed, d), Retires(n),
         NEW t \in Tags, Live(t), Uop(t).state # "done", t \notin killed
  PROVE  Stays(t, n, killed) /\ Survives(t, r, n)
<1>1. Stays(t, n, killed)
  BY DEF Retires, Stays
<1> QED
  BY <1>1 DEF Rolled

\* What enters a unit or the LSU is held for its uop, or killed with it.
Enters(c, k, b, killed) ==
    /\ c.tag \in Tags /\ Live(c.tag) /\ Uop(c.tag).state = "iq" /\ c.tag = iq[k].tag
    /\ c.tag \in killed => Dead(c)'
    /\ c.tag \notin killed /\ c.tag \notin b => Held(c)'
    /\ c.tag \notin killed /\ c.tag \in b /\ iq[k].fuClass = "FU_BRANCH" /\ ~iq[k].exception =>
          HeldBranch(c)'

\* A uop that issues is waited for, unless it is killed.
LEMMA NewIsHeld ==
  ASSUME IInv, NEW r, NEW issued, NEW b, AllAdvance(r, issued, b), NEW n, Retires(n),
         NEW killed, NEW d, Rolled(r, n, killed, d), filter' = killed,
         NEW k \in issued, k \in 1..Len(iq), NEW c, New(c, k, killed)
  PROVE  Enters(c, k, b, killed)
<1> DEFINE t == c.tag
<1>1. /\ t = iq[k].tag /\ c.exception = iq[k].exception /\ c.right
      /\ c.dest = (IF iq[k].exception THEN 0 ELSE iq[k].dest) /\ (c.dead <=> t \in killed)
  BY DEF New
<1>2. t \in Tags
  BY <1>1, Parts DEF IInv
<1>3. /\ Live(t) /\ Uop(t).state = "iq" /\ iq[k].dest = Uop(t).dest
      /\ Uop(t).isBranch = (iq[k].fuClass = "FU_BRANCH")
  <2>1. Queued(iq[k])
    BY DEF IInv, QueueOK
  <2> QED
    BY <1>1, <2>1 DEF Queued
<1> HIDE DEF t
<1>4. t \in killed => Dead(c)'
  BY <1>1 DEF Dead, t
<1>5. ASSUME t \notin killed
      PROVE  /\ Live(t)' /\ Uop(t)' = r[PlaceOf(t)]
             /\ Advances(r[PlaceOf(t)], t, issued, b, delivered)
  <2>1. Uop(t).state # "done"
    BY <1>3, SMTT(60)
  <2>2. Survives(t, r, n)
    BY <1>2, <1>3, <1>5, <2>1, WaitingStays
  <2> QED
    BY <1>2, <1>3, <2>2 DEF Survives, AllAdvance
<1>6. ASSUME t \notin killed PROVE Holds(c)'
  <2>1. Uop(t)'.dest = iq[k].dest
    BY <1>3, <1>5, <1>6 DEF Advances
  <2>2. c.dest = IF c.exception THEN 0 ELSE Uop(t)'.dest
    BY <1>1, <2>1
  <2> QED
    BY <1>1, <1>5, <1>6, <2>2 DEF Holds, t
<1>7. ASSUME t \notin killed, t \notin b PROVE Held(c)'
  <2>1. Uop(t)'.state = "issued"
    BY <1>1, <1>5, <1>7 DEF Advances
  <2> QED
    BY <1>6, <1>7, <2>1 DEF Held, t
<1>8. ASSUME t \notin killed, t \in b, iq[k].fuClass = "FU_BRANCH", ~iq[k].exception
      PROVE  HeldBranch(c)'
  <2>1. Uop(t)'.state = "done" /\ Uop(t)'.isBranch
    BY <1>3, <1>5, <1>8 DEF Advances
  <2> QED
    BY <1>1, <1>6, <1>8, <2>1 DEF HeldBranch, t
<1> QED
  BY <1>1, <1>2, <1>3, <1>4, <1>7, <1>8 DEF Enters, t

\* What stays in a unit or the LSU is still held, or killed.
LEMMA KeptIsHeld ==
  ASSUME NEW r, NEW issued, NEW b, AllAdvance(r, issued, b), NEW n, Retires(n),
         NEW killed, NEW d, Rolled(r, n, killed, d),
         NEW c, c.tag \in Tags, Held(c), c \in loads \/ (~pReady /\ c = primary[1])
  PROVE  c.tag \notin killed => Held(c)'
<1> DEFINE t == c.tag
<1> SUFFICES ASSUME t \notin killed PROVE Held(c)'
  OBVIOUS
<1>1. Live(t) /\ Uop(t).state = "issued" /\ c.right /\ ~c.dead
      /\ c.dest = IF c.exception THEN 0 ELSE Uop(t).dest
  BY DEF Held, Holds
<1>2. Uop(t).state # "done"
  BY <1>1, SMTT(60)
<1>3. Survives(t, r, n) /\ Advances(r[PlaceOf(t)], t, issued, b, delivered)
  BY <1>1, <1>2, WaitingStays DEF AllAdvance
<1>4. Uop(t)'.state = "issued" /\ Uop(t)'.dest = Uop(t).dest /\ Live(t)'
  BY <1>3 DEF Survives, Advances
<1> QED
  BY <1>1, <1>4 DEF Held, Holds

\* Where what a unit or the LSU holds has come from.
FromQueue(c, ks) == Uop(c.tag).state = "iq" /\ \E k \in ks : c.tag = iq[k].tag
FromPrimary(c) == ~pReady /\ c.tag = primary[1].tag /\ Uop(c.tag).state = "issued"
FromLoads(c) == c \in loads /\ Uop(c.tag).state = "issued"

\* The units and the LSU after the edge.
UnitsThen(ks, p1, acc) ==
    /\ \A c \in Of(primary') : (Held(c)' \/ Dead(c)') /\ (FromQueue(c, ks) \/ FromPrimary(c))
    /\ \A c \in Of(secondary') : (Held(c)' \/ HeldBranch(c)' \/ Dead(c)') /\ FromQueue(c, p1)
    /\ \A c \in Of(memory') \cup loads' : Held(c)' /\ (FromQueue(c, acc) \/ FromLoads(c))

\* Every completion after the edge is new or was there before.
LEMMA UnitsAfter ==
  ASSUME IInv, NEW ks, NEW p1, NEW acc, NEW w, Issues(ks, p1, acc, w),
         NEW r, NEW b, AllAdvance(r, ks \cup p1 \cup acc, b), Branches(b, p1),
         NEW n, Retires(n), NEW killed, NEW d, Rolled(r, n, killed, d), filter' = killed,
         IntegerUnits(ks, p1, killed), MemoryUnit(acc, killed)
  PROVE  UnitsThen(ks, p1, acc)
<1> DEFINE issued == ks \cup p1 \cup acc
<1>1. ASSUME NEW k \in issued, NEW c, New(c, k, killed)
      PROVE  /\ k \in 1..Len(iq) /\ Uop(c.tag).state = "iq" /\ c.tag = iq[k].tag
             /\ c.tag \in killed => Dead(c)'
             /\ c.tag \notin killed /\ c.tag \notin b => Held(c)'
             /\ c.tag \notin killed /\ c.tag \in b => k \in p1 /\ HeldBranch(c)'
  <2>1. k \in 1..Len(iq)
    BY DEF Issues
  <2>2. c.tag = iq[k].tag
    BY <1>1 DEF New
  <2>3. c.tag \in b => k \in p1 /\ iq[k].fuClass = "FU_BRANCH" /\ ~iq[k].exception
    BY <2>1, <2>2 DEF Branches
  <2>4. AllAdvance(r, issued, b)
    OBVIOUS
  <2> HIDE DEF issued
  <2>5. Enters(c, k, b, killed)
    BY <1>1, <2>1, <2>4, NewIsHeld
  <2> QED
    BY <2>1, <2>2, <2>3, <2>5 DEF Enters
<1>2. /\ \A k \in ks : k \notin p1
      /\ \A k \in acc : k \notin p1
  BY DEF Issues
<1>3. ASSUME NEW c \in Of(primary')
      PROVE  (Held(c)' \/ Dead(c)') /\ (FromQueue(c, ks) \/ FromPrimary(c))
  <2>1. CASE \E k \in ks : New(c, k, killed)
    <3>1. PICK k \in ks : New(c, k, killed)
      BY <2>1
    <3>2. k \in issued
      OBVIOUS
    <3> HIDE DEF issued
    <3> QED
      BY <1>1, <1>2, <3>1, <3>2 DEF FromQueue
  <2>2. CASE ~pReady /\ Kept(c, primary[1], killed)
    <3>0. PICK p : p = primary[1]
      OBVIOUS
    <3>1. Held(p) /\ p \in Of(primary)
      BY <2>2, <3>0, DeliveredIs DEF IInv
    <3>2. p.tag \in Tags
      BY <3>1, UnitsAre DEF IInv
    <3>3. p.tag \notin killed => Held(p)'
      BY <2>2, <3>0, <3>1, <3>2, KeptIsHeld
    <3>4. FromPrimary(c)
      BY <2>2, <3>0, <3>1 DEF FromPrimary, Held, Kept
    <3>5. /\ c.tag = p.tag /\ c.dest = p.dest /\ c.exception = p.exception
          /\ c.right = p.right /\ (c.dead <=> p.dead \/ p.tag \in killed)
      BY <2>2, <3>0 DEF Kept
    <3>6. CASE p.tag \in killed
      BY <3>4, <3>5, <3>6 DEF Dead
    <3>7. CASE p.tag \notin killed
      <4>1. Held(c)'
        BY <3>3, <3>5, <3>7 DEF Held, Holds
      <4> QED
        BY <3>4, <4>1
    <3> QED
      BY <3>6, <3>7
  <2> QED
    BY <2>1, <2>2 DEF IntegerUnits
<1>4. ASSUME NEW c \in Of(secondary')
      PROVE  (Held(c)' \/ HeldBranch(c)' \/ Dead(c)') /\ FromQueue(c, p1)
  <2>1. PICK k \in p1 : New(c, k, killed)
    BY DEF IntegerUnits
  <2>2. k \in issued
    OBVIOUS
  <2> HIDE DEF issued
  <2> QED
    BY <1>1, <2>1, <2>2 DEF FromQueue
<1>5. ASSUME NEW c \in Of(memory') \cup loads'
      PROVE  Held(c)' /\ (FromQueue(c, acc) \/ FromLoads(c))
  <2>1. c.tag \notin killed /\ (c \in loads \/ \E k \in acc : New(c, k, killed))
    BY DEF MemoryUnit
  <2>2. CASE c \in loads
    <3>1. Held(c) /\ c.tag \in Tags
      BY <2>2, UnitsAre DEF IInv, UnitsOK
    <3>2. Held(c)'
      BY <2>1, <2>2, <3>1, KeptIsHeld
    <3> QED
      BY <2>2, <3>1, <3>2 DEF FromLoads, Held
  <2>3. CASE \E k \in acc : New(c, k, killed)
    <3>1. PICK k \in acc : New(c, k, killed)
      BY <2>3
    <3>2. k \in issued /\ k \notin p1
      BY <1>2
    <3> HIDE DEF issued
    <3> QED
      BY <1>1, <2>1, <3>1, <3>2 DEF FromQueue
  <2> QED
    BY <2>1, <2>2, <2>3
<1> QED
  BY <1>3, <1>4, <1>5 DEF UnitsThen

\* UnitsOK is kept.
LEMMA UnitsKept ==
  ASSUME NEW ks, NEW p1, NEW acc, UnitsThen(ks, p1, acc),
         NEW r, NEW n, NEW killed, NEW d, Rolled(r, n, killed, d), filter' = killed
  PROVE  UnitsOK'
BY DEF UnitsThen, UnitsOK, Rolled, Of

\* ApartOK is kept.
LEMMA ApartKept ==
  ASSUME IInv, NEW ks, NEW p1, NEW acc, NEW w, Issues(ks, p1, acc, w), UnitsThen(ks, p1, acc),
         NEW killed, MemoryUnit(acc, killed)
  PROVE  ApartOK'
<1>0. "iq" # "issued"
  BY SMTT(60)
<1>1. \A j, k \in 1..Len(iq) : iq[j].tag = iq[k].tag => j = k
  BY DEF IInv, QueueOK
<1>2. \A k \in ks : k \in 1..Len(iq) /\ k \notin p1 /\ k \notin acc
  BY DEF Issues
<1>3. \A k \in p1 \cup acc : k \in 1..Len(iq)
  BY DEF Issues
<1>4. \A k \in acc : k \notin p1
  BY DEF Issues
<1>5. ASSUME NEW c, NEW e, FromQueue(c, ks), FromQueue(e, p1) \/ FromQueue(e, acc) PROVE c.tag # e.tag
  BY <1>1, <1>2, <1>3, <1>5 DEF FromQueue
<1>6. ASSUME NEW c, NEW e, FromQueue(c, p1), FromQueue(e, acc) PROVE c.tag # e.tag
  BY <1>1, <1>3, <1>4, <1>6 DEF FromQueue
<1>7. ASSUME NEW c, NEW e, NEW K, FromQueue(c, K), FromPrimary(e) \/ FromLoads(e) PROVE c.tag # e.tag
  BY <1>0, <1>7 DEF FromQueue, FromPrimary, FromLoads
<1>8. ASSUME NEW c, NEW e, FromPrimary(c), FromLoads(e) PROVE c.tag # e.tag
  <2>1. primary[1] \in Of(primary)
    BY <1>8, DeliveredIs DEF IInv, FromPrimary
  <2>2. primary[1].tag # e.tag
    BY <1>8, <2>1 DEF IInv, ApartOK, FromLoads
  <2> QED
    BY <1>8, <2>2 DEF FromPrimary
<1>9. ASSUME NEW c, NEW e, FromLoads(c), FromLoads(e), c.tag = e.tag PROVE c = e
  BY <1>9 DEF FromLoads, IInv, ApartOK
<1>10. ASSUME NEW c \in Of(primary'), NEW e \in Of(secondary') PROVE c.tag # e.tag
  BY <1>5, <1>7, <1>10 DEF UnitsThen
<1>11. ASSUME NEW c \in Of(primary'), NEW e \in Of(memory') \cup loads' PROVE c.tag # e.tag
  <2>1. (FromQueue(c, ks) \/ FromPrimary(c)) /\ (FromQueue(e, acc) \/ FromLoads(e))
    BY <1>11 DEF UnitsThen
  <2>2. CASE FromPrimary(c) /\ FromQueue(e, acc)
    <3>1. e.tag # c.tag
      BY <1>7, <2>2
    <3> QED
      BY <3>1
  <2> QED
    BY <1>5, <1>7, <1>8, <2>1, <2>2
<1>12. ASSUME NEW c \in Of(secondary'), NEW e \in Of(memory') \cup loads' PROVE c.tag # e.tag
  <2>1. FromQueue(c, p1) /\ (FromQueue(e, acc) \/ FromLoads(e))
    BY <1>12 DEF UnitsThen
  <2> QED
    BY <1>6, <1>7, <2>1
<1>13. ASSUME NEW c \in Of(memory') \cup loads', NEW e \in Of(memory') \cup loads', c.tag = e.tag,
              c \in loads \/ e \in loads
       PROVE  c = e /\ c \in loads
  <2>1. (FromQueue(c, acc) \/ FromLoads(c)) /\ (FromQueue(e, acc) \/ FromLoads(e))
    BY <1>13 DEF UnitsThen
  <2>2. \A x \in loads : FromLoads(x)
    BY DEF IInv, UnitsOK, Held, FromLoads
  <2>3. FromLoads(c) /\ FromLoads(e)
    <3>1. CASE c \in loads
      <4>1. FromLoads(c) /\ ~FromQueue(e, acc)
        BY <1>7, <1>13, <2>2, <3>1
      <4> QED
        BY <2>1, <4>1
    <3>2. CASE e \in loads
      <4>1. FromLoads(e) /\ ~FromQueue(c, acc)
        BY <1>7, <1>13, <2>2, <3>2
      <4> QED
        BY <2>1, <4>1
    <3> QED
      BY <1>13, <3>1, <3>2
  <2> QED
    BY <1>9, <1>13, <2>3 DEF FromLoads
<1>14. ASSUME NEW c \in Of(memory'), NEW e \in loads' PROVE c.tag # e.tag
  <2> SUFFICES ASSUME c.tag = e.tag PROVE FALSE
    OBVIOUS
  <2>1. c \in loads \/ e \in loads
    BY <1>14 DEF MemoryUnit
  <2>2. c = e /\ c \in loads
    BY <1>13, <1>14, <2>1
  <2>3. PICK k \in acc : New(c, k, killed)
    BY <1>14, <2>2 DEF MemoryUnit
  <2>4. Uop(c.tag).state = "iq"
    <3>1. Queued(iq[k])
      BY <1>3 DEF IInv, QueueOK
    <3>2. c.tag = iq[k].tag
      BY <2>3 DEF New
    <3> QED
      BY <3>1, <3>2 DEF Queued
  <2>5. Uop(c.tag).state = "issued"
    BY <2>2 DEF IInv, UnitsOK, Held
  <2> QED
    BY <1>0, <2>4, <2>5
<1>15. ASSUME NEW c \in loads', NEW e \in loads', c.tag = e.tag PROVE c = e
  <2>1. c \in loads \/ e \in loads \/ c = e
    BY <1>15 DEF MemoryUnit
  <2> QED
    BY <1>13, <1>15, <2>1
<1> QED
  BY <1>10, <1>11, <1>12, <1>14, <1>15 DEF ApartOK, Of

--------------------------------------------------------------------------------
(* The map.                                                                    *)

\* A live uop has a place in the ROB.
LEMMA LivePlace ==
  ASSUME Types, NEW t \in Tags, Live(t)
  PROVE  PlaceOf(t) \in 1..Len(rob) /\ PlaceOf(t) \in Nat /\ Uop(t) = rob[PlaceOf(t)]
<1>1. PlaceOf(t) \in 1..RobDepth /\ RobDepth \in Nat /\ Len(rob) \in Nat
  BY Parts
<1>2. PlaceOf(t) <= Len(rob)
  BY DEF Live
<1>3. PlaceOf(t) \in 1..Len(rob) /\ PlaceOf(t) \in Nat
  BY <1>1, <1>2, SMTT(60)
<1> QED
  BY <1>3 DEF Uop

\* A register that is mapped, or that a uop writes, is not free.
LEMMA MappedNotFree ==
  ASSUME Types
  PROVE  /\ \A t \in Tags : Live(t) => Uop(t).dest \notin freeRegs
         /\ \A p : \A i : Mapped(p, i) => p \notin freeRegs
         /\ \A p \in freeRegs : p # 0
<1>1. \A p \in freeRegs : p # 0
  BY ExecuteAssumption DEF freeRegs
<1>2. ASSUME NEW t \in Tags, Live(t), Uop(t).dest \in freeRegs PROVE FALSE
  <2>1. PlaceOf(t) \in 1..Len(rob) /\ Uop(t) = rob[PlaceOf(t)]
    BY <1>2, LivePlace
  <2>2. Uop(t).dest \in Dests
    BY <1>1, <1>2, <2>1 DEF Dests
  <2> QED
    BY <1>2, <2>2 DEF freeRegs
<1>3. ASSUME NEW p, NEW i, Mapped(p, i) PROVE p \notin freeRegs
  BY <1>2, <1>3 DEF Mapped, freeRegs
<1> QED
  BY <1>1, <1>2, <1>3

\* The registers that the free list and the committed map agree on at dispatch.
LEMMA MappedAtDispatch ==
  ASSUME Types, NEW p \in mappedRegs
  PROVE  Mapped(p, Len(rob) + 1) /\ p \in Regs /\ p # 0 /\ p \notin freeRegs
<1>1. \A t \in Tags : Live(t) => PlaceOf(t) \in 1..Len(rob) /\ Uop(t) = rob[PlaceOf(t)]
  BY LivePlace
<1>2. \A i \in 1..Len(rob) : TagAt(i) \in Tags /\ PlaceOf(TagAt(i)) = i /\ rob[i] \in RobType
  BY Parts
<1>3. Len(rob) \in Nat
  BY Parts
<1>4. \A i \in 1..Len(rob) : i < Len(rob) + 1 /\ i <= Len(rob)
  BY <1>3, SMTT(60)
<1>5. \A i \in 1..Len(rob) : Live(TagAt(i)) /\ Uop(TagAt(i)) = rob[i]
  BY <1>2, <1>4 DEF Live, Uop
<1>6. /\ p \in committed \/ p \in Dests
      /\ \A i \in 1..Len(rob) : rob[i].old # p
  BY DEF mappedRegs
<1>7. p \in Dests => \E t \in Tags : Live(t) /\ PlaceOf(t) < Len(rob) + 1 /\ Uop(t).dest = p
  <2> SUFFICES ASSUME NEW i \in 1..Len(rob), p = rob[i].dest
               PROVE  \E t \in Tags : Live(t) /\ PlaceOf(t) < Len(rob) + 1 /\ Uop(t).dest = p
    BY DEF Dests
  <2>1. PlaceOf(TagAt(i)) < Len(rob) + 1
    BY <1>2, <1>4
  <2>2. TagAt(i) \in Tags /\ Live(TagAt(i)) /\ Uop(TagAt(i)).dest = p
    BY <1>2, <1>5
  <2> QED
    BY <2>1, <2>2
<1>8. Mapped(p, Len(rob) + 1)
  BY <1>1, <1>6, <1>7 DEF Mapped
<1>9. p \in Regs
  <2>1. committed \subseteq Regs
    BY DEF Types, TypeOK
  <2>2. \A i \in 1..Len(rob) : rob[i].dest # 0 => rob[i].dest \in Regs
    BY <1>2 DEF RobType, RegsOr0
  <2> QED
    BY <1>6, <2>1, <2>2 DEF Dests
<1>10. p # 0
  BY <1>9, ExecuteAssumption
<1> QED
  BY <1>8, <1>9, <1>10, MappedNotFree

\* The committed map after n uops have retired.
CommitsTo(n) ==
    \A p : p \in committed' <=>
        /\ p # 0
        /\ p \in committed \/ \E u \in Tags : Live(u) /\ ~(PlaceOf(u) > n) /\ Uop(u).dest = p
        /\ \A u \in Tags : Live(u) /\ ~(PlaceOf(u) > n) => Uop(u).old # p

\* A register that was mapped still is, as far as the uops that stay go.
Carried(p, i, n, killed) ==
    /\ p \in committed' \/ \E u \in Tags : Live(u)' /\ PlaceOf(u)' < i - n /\ Uop(u)'.dest = p
    /\ \A u \in Tags : Stays(u, n, killed) /\ PlaceOf(u)' < i - n => Uop(u)'.old # p

\* Retirement and recovery carry a mapped register on.
LEMMA CarriedIs ==
  ASSUME Types, NEW r, NEW n \in Nat, NEW killed, NEW d, Rolled(r, n, killed, d),
         NEW issued, NEW b, AllAdvance(r, issued, b), CommitsTo(n),
         NEW i \in Nat, i > n, \A u \in Tags : Live(u) /\ PlaceOf(u) < i => u \notin killed,
         NEW p, p # 0, Mapped(p, i)
  PROVE  Carried(p, i, n, killed)
<1>1. \A u \in Tags : Live(u) => PlaceOf(u) \in Nat
  BY LivePlace
<1>2. ASSUME NEW u \in Tags, Stays(u, n, killed)
      PROVE  /\ Live(u) /\ Live(u)' /\ PlaceOf(u)' = PlaceOf(u) - n
             /\ Uop(u)'.dest = Uop(u).dest /\ Uop(u)'.old = Uop(u).old
  <2>1. Live(u) /\ Survives(u, r, n)
    BY <1>2 DEF Rolled, Stays
  <2>2. Advances(r[PlaceOf(u)], u, issued, b, delivered)
    BY <2>1 DEF AllAdvance
  <2>3. r[PlaceOf(u)].dest = Uop(u).dest /\ r[PlaceOf(u)].old = Uop(u).old
    BY <2>2 DEF Advances
  <2> QED
    BY <2>1, <2>3 DEF Survives
<1>3. ASSUME NEW u \in Tags, Stays(u, n, killed) PROVE PlaceOf(u)' < i - n <=> PlaceOf(u) < i
  <2>1. PlaceOf(u)' = PlaceOf(u) - n /\ PlaceOf(u) \in Nat
    BY <1>1, <1>2, <1>3
  <2> QED
    BY <2>1, SMTT(60)
<1>4. \A u \in Tags : Live(u) /\ ~(PlaceOf(u) > n) => PlaceOf(u) < i
  <2> SUFFICES ASSUME NEW u \in Tags, Live(u), ~(PlaceOf(u) > n) PROVE PlaceOf(u) < i
    OBVIOUS
  <2>1. PlaceOf(u) \in Nat
    BY <1>1
  <2> QED
    BY <2>1, SMTT(60)
<1>5. \A u \in Tags : Live(u) /\ PlaceOf(u) < i => Uop(u).old # p
  BY DEF Mapped
<1>6. \A u \in Tags : Live(u) /\ ~(PlaceOf(u) > n) => Uop(u).old # p
  BY <1>4, <1>5
<1>7. p \in committed' \/ \E u \in Tags : Live(u)' /\ PlaceOf(u)' < i - n /\ Uop(u)'.dest = p
  <2>1. CASE p \in committed
    BY <1>6, <2>1 DEF CommitsTo
  <2>2. CASE \E u \in Tags : Live(u) /\ PlaceOf(u) < i /\ Uop(u).dest = p
    <3>1. PICK u \in Tags : Live(u) /\ PlaceOf(u) < i /\ Uop(u).dest = p
      BY <2>2
    <3>2. CASE ~(PlaceOf(u) > n)
      BY <1>6, <3>1, <3>2 DEF CommitsTo
    <3>3. CASE PlaceOf(u) > n
      <4>1. Stays(u, n, killed)
        BY <3>1, <3>3 DEF Stays
      <4> QED
        BY <1>2, <1>3, <3>1, <4>1
    <3> QED
      BY <3>2, <3>3
  <2> QED
    BY <2>1, <2>2 DEF Mapped
<1>8. \A u \in Tags : Stays(u, n, killed) /\ PlaceOf(u)' < i - n => Uop(u)'.old # p
  BY <1>2, <1>3, <1>5
<1> QED
  BY <1>7, <1>8 DEF Carried

\* A lane of a dispatched group and its sources: mapped, or written by an older
\* lane, and not replaced by one.
SourceOf(p, l, d) ==
    /\ p \in mappedRegs \/ \E j \in 1..(l - 1) : d[j].dest = p
    /\ \A j \in 1..(l - 1) : d[j].old # p
ReadyThen(src, bit, allocated, w) ==
    src # 0 => (sourceReadyNow(src, bit, w) <=> (src \in readyTable /\ src \notin allocated) \/ src \in w)
Lane(l, d, dq, allocated, w) ==
    /\ dq[l].tag = TagAt(Len(rob) + l) /\ d[l].state = "iq" /\ dq[l].dest = d[l].dest
    /\ d[l].isBranch = (dq[l].fuClass = "FU_BRANCH")
    /\ d[l].dest # 0 => d[l].dest \in allocated
    /\ \A j \in 1..Len(d) : d[l].dest # 0 /\ d[l].dest = d[j].dest => l = j
    /\ dq[l].src1 # 0 => SourceOf(dq[l].src1, l, d)
    /\ dq[l].src2 # 0 => SourceOf(dq[l].src2, l, d)
    /\ d[l].old # 0 => SourceOf(d[l].old, l, d)
    /\ ReadyThen(dq[l].src1, dq[l].src1Ready, allocated, w)
    /\ ReadyThen(dq[l].src2, dq[l].src2Ready, allocated, w)
Lanes(d, dq, allocated, w) ==
    /\ Len(d) \in Nat /\ Len(dq) = Len(d) /\ allocated \subseteq freeRegs
    /\ \A l \in 1..Len(d) : Lane(l, d, dq, allocated, w)

\* The uops that stay keep their sources mapped.
LEMMA StaysMapped ==
  ASSUME Types, NEW r, NEW n \in Nat, NEW killed, NEW d, Len(d) \in Nat, Rolled(r, n, killed, d),
         NEW issued, NEW b, AllAdvance(r, issued, b), CommitsTo(n),
         NEW t \in Tags, Stays(t, n, killed), NEW p, p # 0, Mapped(p, PlaceOf(t))
  PROVE  Mapped(p, PlaceOf(t))'
<1>1. PICK i : i = PlaceOf(t)
  OBVIOUS
<1>2. i \in 1..Len(rob) /\ i \in Nat /\ i > n /\ Len(rob) \in Nat /\ Live(t)
  BY <1>1, LivePlace, Parts DEF Stays
<1>3. PlaceOf(t)' = i - n
  BY <1>1 DEF Rolled, Survives
<1>4. \A u \in Tags : Live(u) /\ PlaceOf(u) < i => u \notin killed
  <2> SUFFICES ASSUME NEW u \in killed, Live(u), PlaceOf(u) < i PROVE FALSE
    OBVIOUS
  <2>1. i < PlaceOf(u) /\ u \in Tags
    BY <1>1, <1>2 DEF Rolled, Stays
  <2>2. PlaceOf(u) \in Nat
    BY <2>1, LivePlace
  <2> QED
    BY <1>2, <2>1, <2>2, SMTT(60)
<1>5. Carried(p, i, n, killed)
  BY <1>1, <1>2, <1>4, CarriedIs
<1>6. \A u \in Tags : Live(u)' /\ PlaceOf(u)' < i - n => Stays(u, n, killed)
  <2> SUFFICES ASSUME NEW u \in Tags, NEW l \in 1..Len(d), u = TagAt(Len(rob) + l), PlaceOf(u)' < i - n
               PROVE  FALSE
    BY DEF Rolled
  <2>1. PlaceOf(u)' = (Len(rob) - n) + l
    BY DEF Rolled, Joins
  <2> QED
    BY <1>2, <2>1, SMTT(60)
<1>7. /\ p \in committed' \/ \E u \in Tags : Live(u)' /\ PlaceOf(u)' < PlaceOf(t)' /\ Uop(u)'.dest = p
      /\ \A u \in Tags : Live(u)' /\ PlaceOf(u)' < PlaceOf(t)' => Uop(u)'.old # p
  BY <1>3, <1>5, <1>6 DEF Carried
<1> QED
  BY <1>7 DEF Mapped

\* And so do the uops that are dispatched.
LEMMA LaneMapped ==
  ASSUME IInv, NEW r, NEW n \in Nat, n <= Len(rob), NEW killed, NEW d, Rolled(r, n, killed, d),
         NEW issued, NEW b, AllAdvance(r, issued, b), CommitsTo(n),
         NEW dq, NEW allocated, NEW w, Lanes(d, dq, allocated, w),
         NEW l \in 1..Len(d), killed = {}, NEW p, p # 0, SourceOf(p, l, d), NEW t, t = TagAt(Len(rob) + l)
  PROVE  Mapped(p, PlaceOf(t))'
<1> DEFINE i == Len(rob) + 1
<1>1. Types /\ Len(rob) \in Nat /\ Len(d) \in Nat
  BY Parts DEF IInv, Lanes
<1>2. t \in Tags /\ PlaceOf(t)' = (Len(rob) - n) + l
  BY DEF Rolled, Joins
<1>3. ASSUME NEW u \in Tags, Stays(u, n, killed) PROVE PlaceOf(u)' < i - n /\ PlaceOf(u)' \in Nat
  <2>1. PlaceOf(u)' = PlaceOf(u) - n /\ PlaceOf(u) \in 1..Len(rob) /\ PlaceOf(u) > n
    BY <1>1, <1>3, LivePlace DEF Stays, Rolled, Survives
  <2> QED
    BY <1>1, <2>1, SMTT(60)
<1>4. \A x \in Int : x < i - n => x < (Len(rob) - n) + l
  BY <1>1, SMTT(60)
<1>5. ASSUME NEW j \in 1..Len(d), NEW u \in Tags, u = TagAt(Len(rob) + j)
      PROVE  Live(u)' /\ Uop(u)' = d[j] /\ PlaceOf(u)' = (Len(rob) - n) + j
  BY <1>5 DEF Rolled, Joins
<1>6. ASSUME NEW j \in 1..Len(d), (Len(rob) - n) + j < (Len(rob) - n) + l PROVE j \in 1..(l - 1)
  BY <1>1, <1>6, SMTT(60)
<1>7. ASSUME NEW j \in 1..(l - 1) PROVE j \in 1..Len(d) /\ (Len(rob) - n) + j < (Len(rob) - n) + l
  BY <1>1, SMTT(60)
<1>8. \A u \in Tags : Live(u)' /\ PlaceOf(u)' < PlaceOf(t)' =>
        Stays(u, n, killed) \/ \E j \in 1..(l - 1) : Uop(u)' = d[j]
  <2> SUFFICES ASSUME NEW u \in Tags, Live(u)', PlaceOf(u)' < PlaceOf(t)', ~Stays(u, n, killed)
               PROVE  \E j \in 1..(l - 1) : Uop(u)' = d[j]
    OBVIOUS
  <2>1. PICK j \in 1..Len(d) : u = TagAt(Len(rob) + j)
    BY DEF Rolled
  <2>2. PlaceOf(u)' = (Len(rob) - n) + j /\ Uop(u)' = d[j]
    BY <1>5, <2>1
  <2> QED
    BY <1>2, <1>6, <2>2
<1>9. CASE p \in mappedRegs
  <2>1. Mapped(p, i) /\ i \in Nat /\ i > n
    <3>1. Mapped(p, i)
      BY <1>1, <1>9, MappedAtDispatch
    <3>2. i \in Nat /\ i > n
      BY <1>1, SMTT(60)
    <3> QED
      BY <3>1, <3>2
  <2> HIDE DEF i
  <2>2. Carried(p, i, n, killed)
    <3>1. \A u \in Tags : Live(u) /\ PlaceOf(u) < i => u \notin killed
      OBVIOUS
    <3> QED
      BY <1>1, <2>1, <3>1, CarriedIs
  <2>3. ASSUME NEW u \in Tags, Live(u)', PlaceOf(u)' < i - n PROVE PlaceOf(u)' < PlaceOf(t)'
    <3>1. u \in Tags /\ robHead' \in Tags
      BY DEF Rolled
    <3>2. PlaceOf(u)' \in Int
      <4>1. robHead' \in Int /\ u \in Int /\ RobDepth \in Nat \ {0}
        BY <3>1, ExecuteAssumption, SMTT(60) DEF Tags
      <4> QED
        BY <4>1, SMTT(60) DEF PlaceOf
    <3> QED
      BY <1>2, <1>4, <2>3, <3>2
  <2>4. p \in committed' \/ \E u \in Tags : Live(u)' /\ PlaceOf(u)' < PlaceOf(t)' /\ Uop(u)'.dest = p
    BY <2>2, <2>3 DEF Carried
  <2>5. \A u \in Tags : Stays(u, n, killed) => Uop(u)'.old # p
    BY <1>3, <2>2 DEF Carried, i
  <2>6. \A u \in Tags : Live(u)' /\ PlaceOf(u)' < PlaceOf(t)' => Uop(u)'.old # p
    BY <1>8, <2>5 DEF SourceOf
  <2> QED
    BY <2>4, <2>6 DEF Mapped
<1>10. CASE \E j \in 1..(l - 1) : d[j].dest = p
  <2>1. PICK j \in 1..(l - 1) : d[j].dest = p
    BY <1>10
  <2>2. j \in 1..Len(d) /\ (Len(rob) - n) + j < (Len(rob) - n) + l
    BY <1>7
  <2>7. PICK u \in Tags : u = TagAt(Len(rob) + j)
    BY <2>2 DEF Rolled
  <2>8. Live(u)' /\ Uop(u)' = d[j] /\ PlaceOf(u)' = (Len(rob) - n) + j
    BY <1>5, <2>2, <2>7
  <2>3. \E v \in Tags : Live(v)' /\ PlaceOf(v)' < PlaceOf(t)' /\ Uop(v)'.dest = p
    BY <1>2, <2>1, <2>2, <2>8
  <2>4. p \in freeRegs
    <3>1. Lane(j, d, dq, allocated, w) /\ allocated \subseteq freeRegs
      BY <2>2 DEF Lanes
    <3> QED
      BY <2>1, <3>1 DEF Lane
  <2>5. ASSUME NEW v \in Tags, Stays(v, n, killed) PROVE Uop(v)'.old # p
    <3>1. Live(v) /\ Uop(v)' = r[PlaceOf(v)]
      BY <2>5 DEF Rolled, Survives, Stays
    <3>2. r[PlaceOf(v)].old = Uop(v).old
      BY <3>1 DEF AllAdvance, Advances
    <3>3. Uop(v).old # 0 => Mapped(Uop(v).old, PlaceOf(v))
      BY <3>1 DEF IInv, RegsOK
    <3>4. Uop(v).old # p
      BY <1>1, <2>4, <3>3, MappedNotFree
    <3> QED
      BY <3>1, <3>2, <3>4
  <2>6. \A v \in Tags : Live(v)' /\ PlaceOf(v)' < PlaceOf(t)' => Uop(v)'.old # p
    BY <1>8, <2>5 DEF SourceOf
  <2> QED
    BY <2>3, <2>6 DEF Mapped
<1> QED
  BY <1>9, <1>10 DEF SourceOf

--------------------------------------------------------------------------------
(* The queue, the places of the uops and the registers after the edge.          *)

\* Every entry of the next queue is an old one that stays or a dispatched one.
Entries(issued, killed, w, dq) ==
    /\ iq' \in Seq(IqType) /\ Tagged(iq')
    /\ \A m \in 1..Len(iq') :
          \/ \E k \in 1..Len(iq) : k \notin issued /\ iq[k].tag \notin killed /\ Wakes(iq[k], w, iq'[m])
          \/ \E l \in 1..Len(dq) : Wakes(dq[l], w, iq'[m])
    /\ \A k \in 1..Len(iq) : k \notin issued /\ iq[k].tag \notin killed =>
          \E m \in 1..Len(iq') : iq'[m].tag = iq[k].tag
    /\ \A l \in 1..Len(dq) : \E m \in 1..Len(iq') : iq'[m].tag = dq[l].tag

\* Where the entries of the next issue queue come from.
LEMMA EntriesAre ==
  ASSUME Ranking, Types, QueueOK, NEW issued, NEW killed, NEW w, NEW dq \in Seq(IqType), Tagged(dq),
         \A l \in 1..Len(dq) : ~Live(dq[l].tag), iq' = NextQueue(iq, issued, killed, w, dq)
  PROVE  Entries(issued, killed, w, dq) /\ Len(iq') <= Len(iq) + Len(dq)
<1> DEFINE gone == issued \cup {k \in 1..Len(iq) : iq[k].tag \in killed}
<1>1. iq \in Seq(IqType) /\ Tagged(iq)
  BY DEF Types, QueueOK, Tagged
<1>2. \A j \in 1..Len(iq) : \A k \in 1..Len(dq) : iq[j].tag # dq[k].tag
  BY DEF QueueOK, Queued
<1>3. QueueAfter(iq', iq, gone, w, dq)
  BY <1>1, <1>2, NextQueueIs
<1>4. \A k \in 1..Len(iq) : k \notin gone <=> k \notin issued /\ iq[k].tag \notin killed
  OBVIOUS
<1> HIDE DEF gone
<1>5. \A k \in 1..Len(iq) : Wakes(iq[k], w, Woken(iq[k], w))
  BY Parts, WokenIs
<1>6. \A l \in 1..Len(dq) : Wakes(dq[l], w, Woken(dq[l], w))
  <2>1. \A l \in 1..Len(dq) : dq[l] \in IqType
    BY SMTT(60)
  <2> QED
    BY <2>1, WokenIs
<1>7. \A e, f : Wakes(e, w, f) => f.tag = e.tag
  BY DEF Wakes
<1>8. ASSUME NEW m \in 1..Len(iq')
      PROVE  \/ \E k \in 1..Len(iq) : k \notin issued /\ iq[k].tag \notin killed /\ Wakes(iq[k], w, iq'[m])
             \/ \E l \in 1..Len(dq) : Wakes(dq[l], w, iq'[m])
  <2>1. \/ \E k \in 1..Len(iq) : k \notin gone /\ iq'[m] = Woken(iq[k], w)
        \/ \E l \in 1..Len(dq) : iq'[m] = Woken(dq[l], w)
    BY <1>3 DEF QueueAfter
  <2> QED
    BY <1>4, <1>5, <1>6, <2>1
<1>9. ASSUME NEW k \in 1..Len(iq), k \notin issued, iq[k].tag \notin killed
      PROVE  \E m \in 1..Len(iq') : iq'[m].tag = iq[k].tag
  <2>1. PICK m \in 1..Len(iq') : iq'[m] = Woken(iq[k], w)
    BY <1>3, <1>4, <1>9 DEF QueueAfter
  <2> QED
    BY <1>5, <1>7, <2>1
<1>10. ASSUME NEW l \in 1..Len(dq) PROVE \E m \in 1..Len(iq') : iq'[m].tag = dq[l].tag
  <2>1. PICK m \in 1..Len(iq') : iq'[m] = Woken(dq[l], w)
    BY <1>3 DEF QueueAfter
  <2> QED
    BY <1>6, <1>7, <2>1
<1>11. iq' \in Seq(IqType) /\ Tagged(iq') /\ Len(iq') <= Len(iq) + Len(dq)
  BY <1>3 DEF QueueAfter
<1> QED
  BY <1>8, <1>9, <1>10, <1>11 DEF Entries

\* What the lemmas below have in common.
Edge(r, n, killed, issued, b, d, dq, allocated) ==
    /\ IInv /\ n \in Nat /\ n <= Len(rob) /\ (Len(d) > 0 => killed = {})
    /\ Rolled(r, n, killed, d) /\ Retires(n) /\ AllAdvance(r, issued, b) /\ CommitsTo(n)
    /\ Lanes(d, dq, allocated, wakeupsOf(delivered))
    /\ Entries(issued, killed, wakeupsOf(delivered), dq)
    /\ right' = (right \ allocated) \cup wakeupsOf(delivered) /\ right' = readyTable'

\* What a uop that stays or enters reads is mapped after the edge.
LEMMA EdgeMapped ==
  ASSUME NEW r, NEW n, NEW killed, NEW issued, NEW b, NEW d, NEW dq, NEW allocated,
         Edge(r, n, killed, issued, b, d, dq, allocated)
  PROVE  /\ \A t \in Tags : \A p : Stays(t, n, killed) /\ p # 0 /\ Mapped(p, PlaceOf(t)) =>
               Mapped(p, PlaceOf(t))'
         /\ \A t \in Tags : \A l \in 1..Len(d) : \A p :
               t = TagAt(Len(rob) + l) /\ p # 0 /\ SourceOf(p, l, d) => Mapped(p, PlaceOf(t))'
<1>1. /\ IInv /\ Types /\ n \in Nat /\ n <= Len(rob) /\ Len(d) \in Nat
      /\ Rolled(r, n, killed, d) /\ AllAdvance(r, issued, b) /\ CommitsTo(n)
      /\ Lanes(d, dq, allocated, wakeupsOf(delivered))
  BY DEF Edge, IInv, Lanes
<1>2. ASSUME NEW t \in Tags, NEW p, Stays(t, n, killed), p # 0, Mapped(p, PlaceOf(t))
      PROVE  Mapped(p, PlaceOf(t))'
  BY <1>1, <1>2, StaysMapped
<1>3. ASSUME NEW t \in Tags, NEW l \in 1..Len(d), NEW p, t = TagAt(Len(rob) + l), p # 0, SourceOf(p, l, d)
      PROVE  Mapped(p, PlaceOf(t))'
  <2>1. Len(d) > 0
    BY <1>1, SMTT(60)
  <2>2. killed = {}
    BY <2>1 DEF Edge
  <2> QED
    BY <1>1, <1>3, <2>2, LaneMapped
<1> QED
  BY <1>2, <1>3

\* QueueOK is kept.
LEMMA QueueKept ==
  ASSUME NEW r, NEW n, NEW killed, NEW issued, NEW b, NEW d, NEW dq, NEW allocated,
         Edge(r, n, killed, issued, b, d, dq, allocated)
  PROVE  QueueOK'
<1> DEFINE w == wakeupsOf(delivered)
<1>1. /\ Rolled(r, n, killed, d) /\ Retires(n) /\ AllAdvance(r, issued, b)
      /\ Lanes(d, dq, allocated, w) /\ Entries(issued, killed, w, dq)
      /\ Types /\ QueueOK
  BY DEF Edge, IInv
<1>2. ASSUME NEW k \in 1..Len(iq), k \notin issued, iq[k].tag \notin killed, NEW f, Wakes(iq[k], w, f)
      PROVE  Queued(f)'
  <2> DEFINE t == f.tag
  <2>1. /\ t = iq[k].tag /\ f.fuClass = iq[k].fuClass /\ f.dest = iq[k].dest
        /\ f.src1 = iq[k].src1 /\ f.src2 = iq[k].src2
    BY <1>2 DEF Wakes
  <2>2. t \in Tags /\ t \notin killed
    BY <1>1, <1>2, <2>1, Parts
  <2>3. /\ Live(t) /\ Uop(t).state = "iq" /\ f.dest = Uop(t).dest
        /\ Uop(t).isBranch = (f.fuClass = "FU_BRANCH")
        /\ f.src1 # 0 => Mapped(f.src1, PlaceOf(t))
        /\ f.src2 # 0 => Mapped(f.src2, PlaceOf(t))
    BY <1>1, <2>1 DEF QueueOK, Queued
  <2>4. Uop(t).state # "done"
    BY <2>3, SMTT(60)
  <2>5. Stays(t, n, killed) /\ Survives(t, r, n)
    BY <1>1, <2>2, <2>3, <2>4, WaitingStays
  <2>6. Advances(r[PlaceOf(t)], t, issued, b, delivered)
    BY <1>1, <2>2, <2>3 DEF AllAdvance
  <2>7. /\ r[PlaceOf(t)].state = "iq" /\ r[PlaceOf(t)].dest = Uop(t).dest
        /\ r[PlaceOf(t)].isBranch = Uop(t).isBranch
    BY <1>2, <2>1, <2>6 DEF Advances
  <2>8. /\ Live(t)' /\ Uop(t)'.state = "iq" /\ f.dest = Uop(t)'.dest
        /\ Uop(t)'.isBranch = (f.fuClass = "FU_BRANCH")
    BY <2>3, <2>5, <2>7 DEF Survives
  <2>9. /\ f.src1 # 0 => Mapped(f.src1, PlaceOf(t))'
        /\ f.src2 # 0 => Mapped(f.src2, PlaceOf(t))'
    BY <2>2, <2>3, <2>5, EdgeMapped
  <2> QED
    BY <2>8, <2>9 DEF Queued
<1>3. ASSUME NEW l \in 1..Len(dq), NEW f, Wakes(dq[l], w, f) PROVE Queued(f)'
  <2> DEFINE t == f.tag
  <2>1. /\ t = dq[l].tag /\ f.fuClass = dq[l].fuClass /\ f.dest = dq[l].dest
        /\ f.src1 = dq[l].src1 /\ f.src2 = dq[l].src2
    BY <1>3 DEF Wakes
  <2>2. l \in 1..Len(d) /\ Lane(l, d, dq, allocated, w)
    BY <1>1 DEF Lanes
  <2>3. t = TagAt(Len(rob) + l) /\ t \in Tags
    BY <1>1, <2>1, <2>2 DEF Lane, Rolled
  <2>4. Joins(t, l, n, d)
    BY <1>1, <2>2, <2>3 DEF Rolled
  <2>5. /\ Live(t)' /\ Uop(t)'.state = "iq" /\ f.dest = Uop(t)'.dest
        /\ Uop(t)'.isBranch = (f.fuClass = "FU_BRANCH")
    BY <2>1, <2>2, <2>4 DEF Joins, Lane
  <2>6. /\ f.src1 # 0 => SourceOf(f.src1, l, d)
        /\ f.src2 # 0 => SourceOf(f.src2, l, d)
    BY <2>1, <2>2 DEF Lane
  <2>7. /\ f.src1 # 0 => Mapped(f.src1, PlaceOf(t))'
        /\ f.src2 # 0 => Mapped(f.src2, PlaceOf(t))'
    BY <2>2, <2>3, <2>6, EdgeMapped
  <2> QED
    BY <2>5, <2>7 DEF Queued
<1> HIDE DEF w
<1>4. ASSUME NEW m \in 1..Len(iq') PROVE Queued(iq[m])'
  <2>0. PICK f : f = iq'[m]
    OBVIOUS
  <2>1. Queued(f)'
    BY <1>1, <1>2, <1>3, <2>0 DEF Entries
  <2> QED
    BY <2>0, <2>1 DEF Queued
<1>5. \A j, k \in 1..Len(iq') : iq'[j].tag = iq'[k].tag => j = k
  BY <1>1 DEF Entries, Tagged
<1> QED
  BY <1>4, <1>5 DEF QueueOK

\* PlacesOK is kept.
LEMMA PlacesKept ==
  ASSUME NEW r, NEW n, NEW killed, NEW issued, NEW b, NEW d, NEW dq, NEW allocated,
         Edge(r, n, killed, issued, b, d, dq, allocated),
         NEW ks, NEW p1, NEW acc, issued = ks \cup p1 \cup acc, Branches(b, p1),
         IntegerUnits(ks, p1, killed), MemoryUnit(acc, killed)
  PROVE  PlacesOK'
<1> DEFINE w == wakeupsOf(delivered)
<1>1. /\ Rolled(r, n, killed, d) /\ AllAdvance(r, issued, b)
      /\ Lanes(d, dq, allocated, w) /\ Entries(issued, killed, w, dq) /\ Types
      /\ right' = (right \ allocated) \cup w
  BY DEF Edge, IInv
<1> HIDE DEF w
<1>2. SUFFICES ASSUME NEW t \in Tags, Live(t)'
      PROVE  /\ Uop(t)'.state = "iq" => \E k \in 1..Len(iq') : iq'[k].tag = t
             /\ Uop(t)'.state = "issued" =>
                   \E c \in Of(primary') \cup Of(secondary') \cup Of(memory') \cup loads' : c.tag = t
             /\ Uop(t)'.state = "done" /\ Uop(t)'.dest # 0 /\ Uop(t)'.dest \notin right' =>
                   \E c \in Of(secondary') : c.tag = t
  BY DEF PlacesOK, Of
<1>3. CASE Stays(t, n, killed)
  <2> DEFINE e == r[PlaceOf(t)]
  <2>1. Live(t) /\ t \notin killed /\ Uop(t)' = e
    BY <1>1, <1>3 DEF Rolled, Survives, Stays
  <2>2. Advances(e, t, issued, b, delivered)
    BY <1>1, <2>1 DEF AllAdvance
  <2> HIDE DEF e
  <2>3. ASSUME e.state = "iq" PROVE \E k \in 1..Len(iq') : iq'[k].tag = t
    <3>1. PICK k \in 1..Len(iq) : k \notin issued /\ iq[k].tag = t
      BY <2>2, <2>3 DEF Advances
    <3> QED
      BY <1>1, <2>1, <3>1 DEF Entries
  <2>4. ASSUME e.state = "issued"
        PROVE  \E c \in Of(primary') \cup Of(secondary') \cup Of(memory') \cup loads' : c.tag = t
    <3>1. \/ \E k \in issued : iq[k].tag = t
          \/ ~pReady /\ primary[1].tag = t
          \/ \E l \in loads : l.tag = t
      BY <2>2, <2>4 DEF Advances
    <3>2. CASE \E k \in issued : iq[k].tag = t
      <4>1. PICK k \in issued : iq[k].tag = t
        BY <3>2
      <4>2. CASE k \in ks
        BY <4>1, <4>2 DEF IntegerUnits
      <4>3. CASE k \in p1
        BY <4>1, <4>3 DEF IntegerUnits
      <4>4. CASE k \in acc
        BY <2>1, <4>1, <4>4 DEF MemoryUnit
      <4> QED
        BY <4>2, <4>3, <4>4
    <3>3. CASE ~pReady /\ primary[1].tag = t
      BY <3>3 DEF IntegerUnits
    <3>4. CASE \E l \in loads : l.tag = t
      BY <2>1, <3>4 DEF MemoryUnit
    <3> QED
      BY <3>1, <3>2, <3>3, <3>4
  <2>5. ASSUME e.state = "done", e.dest # 0, e.dest \notin right' PROVE \E c \in Of(secondary') : c.tag = t
    <3>1. e.dest \notin allocated
      <4>1. e.dest = Uop(t).dest
        BY <2>2 DEF Advances
      <4>2. Uop(t).dest \notin freeRegs
        BY <1>1, <2>1, MappedNotFree
      <4> QED
        BY <1>1, <4>1, <4>2 DEF Lanes
    <3>2. e.dest \notin right \cup wakeupsOf(delivered)
      BY <1>1, <2>5, <3>1 DEF w
    <3>3. t \in b
      BY <2>2, <2>5, <3>2 DEF Advances
    <3>4. PICK k \in p1 : iq[k].tag = t
      BY <3>3 DEF Branches
    <3> QED
      BY <3>4 DEF IntegerUnits
  <2> QED
    BY <2>1, <2>3, <2>4, <2>5
<1>4. ASSUME NEW l \in 1..Len(d), t = TagAt(Len(rob) + l)
      PROVE  Uop(t)'.state = "iq" /\ \E k \in 1..Len(iq') : iq'[k].tag = t
  <2>1. Joins(t, l, n, d) /\ Lane(l, d, dq, allocated, w) /\ l \in 1..Len(dq)
    BY <1>1, <1>4 DEF Rolled, Lanes
  <2>2. Uop(t)'.state = "iq" /\ dq[l].tag = t
    BY <1>4, <2>1 DEF Joins, Lane
  <2> QED
    BY <1>1, <2>1, <2>2 DEF Entries
<1>5. "iq" # "issued" /\ "iq" # "done"
  BY SMTT(60)
<1> QED
  BY <1>1, <1>2, <1>3, <1>4, <1>5 DEF Rolled

\* A wakeup reaches the register file and the queue in the same clock.
LEMMA WakeupsKept ==
  ASSUME NEW r, NEW n, NEW killed, NEW issued, NEW b, NEW d, NEW dq, NEW allocated,
         Edge(r, n, killed, issued, b, d, dq, allocated)
  PROVE  WakeupsMatchRegisterFile'
<1> DEFINE w == wakeupsOf(delivered)
           Matches(src, bit) == src # 0 => (bit <=> src \in readyTable')
<1>1. /\ Lanes(d, dq, allocated, w) /\ Entries(issued, killed, w, dq) /\ Types /\ QueueOK
      /\ WakeupsMatchRegisterFile /\ right = readyTable
      /\ readyTable' = (right \ allocated) \cup w
  BY DEF Edge, IInv, RegsOK
<1> HIDE DEF w
<1>2. \A p : p \in readyTable' <=> (p \in readyTable /\ p \notin allocated) \/ p \in w
  BY <1>1
<1>3. ASSUME NEW src, NEW bit, src # 0 => src \notin allocated, src # 0 => (bit <=> src \in readyTable)
      PROVE  Matches(src, sourceReadyNow(src, bit, w))
  BY <1>2, <1>3 DEF sourceReadyNow
<1>4. ASSUME NEW src, NEW bit, ReadyThen(src, bit, allocated, w)
      PROVE  Matches(src, sourceReadyNow(src, bit, w))
  BY <1>2, <1>4 DEF ReadyThen
<1>5. ASSUME NEW k \in 1..Len(iq), NEW f, Wakes(iq[k], w, f)
      PROVE  Matches(f.src1, f.src1Ready) /\ Matches(f.src2, f.src2Ready)
  <2>1. Queued(iq[k])
    BY <1>1 DEF QueueOK
  <2>2. /\ iq[k].src1 # 0 => iq[k].src1 \notin allocated
        /\ iq[k].src2 # 0 => iq[k].src2 \notin allocated
    BY <1>1, <2>1, MappedNotFree DEF Queued, Lanes
  <2>3. /\ iq[k].src1 # 0 => (iq[k].src1Ready <=> iq[k].src1 \in readyTable)
        /\ iq[k].src2 # 0 => (iq[k].src2Ready <=> iq[k].src2 \in readyTable)
    BY <1>1 DEF WakeupsMatchRegisterFile
  <2> HIDE DEF Matches
  <2>4. /\ Matches(iq[k].src1, sourceReadyNow(iq[k].src1, iq[k].src1Ready, w))
        /\ Matches(iq[k].src2, sourceReadyNow(iq[k].src2, iq[k].src2Ready, w))
    BY <1>3, <2>2, <2>3
  <2> QED
    BY <1>5, <2>4 DEF Wakes
<1>6. ASSUME NEW l \in 1..Len(dq), NEW f, Wakes(dq[l], w, f)
      PROVE  Matches(f.src1, f.src1Ready) /\ Matches(f.src2, f.src2Ready)
  <2>1. Lane(l, d, dq, allocated, w)
    BY <1>1 DEF Lanes
  <2> HIDE DEF Matches
  <2>2. /\ Matches(dq[l].src1, sourceReadyNow(dq[l].src1, dq[l].src1Ready, w))
        /\ Matches(dq[l].src2, sourceReadyNow(dq[l].src2, dq[l].src2Ready, w))
    BY <1>4, <2>1 DEF Lane
  <2> QED
    BY <1>6, <2>2 DEF Wakes
<1>7. ASSUME NEW m \in 1..Len(iq')
      PROVE  Matches(iq'[m].src1, iq'[m].src1Ready) /\ Matches(iq'[m].src2, iq'[m].src2Ready)
  <2> HIDE DEF Matches
  <2> QED
    BY <1>1, <1>5, <1>6 DEF Entries
<1> QED
  BY <1>7 DEF WakeupsMatchRegisterFile

\* RegsOK is kept.
LEMMA RegsKept ==
  ASSUME NEW r, NEW n, NEW killed, NEW issued, NEW b, NEW d, NEW dq, NEW allocated,
         Edge(r, n, killed, issued, b, d, dq, allocated)
  PROVE  RegsOK'
<1> DEFINE w == wakeupsOf(delivered)
<1>1. /\ Rolled(r, n, killed, d) /\ Retires(n) /\ AllAdvance(r, issued, b) /\ CommitsTo(n)
      /\ Lanes(d, dq, allocated, w) /\ IInv /\ Types /\ RegsOK
      /\ right' = (right \ allocated) \cup w /\ right' = readyTable'
  BY DEF Edge, IInv
<1>2. allocated \subseteq freeRegs /\ \A p \in freeRegs : p \notin committed /\ p # 0
  BY <1>1, MappedNotFree DEF Lanes, freeRegs
<1>3. \A t \in Tags : Live(t) => Uop(t).dest \notin allocated
  BY <1>1, <1>2, MappedNotFree
<1>4. ASSUME NEW t \in Tags, Stays(t, n, killed)
      PROVE  /\ Live(t) /\ PlaceOf(t) > n
             /\ Uop(t)'.dest = Uop(t).dest /\ Uop(t)'.old = Uop(t).old
  <2>1. Live(t) /\ PlaceOf(t) > n /\ Uop(t)' = r[PlaceOf(t)]
    BY <1>1, <1>4 DEF Rolled, Stays, Survives
  <2>2. Advances(r[PlaceOf(t)], t, issued, b, delivered)
    BY <1>1, <2>1 DEF AllAdvance
  <2> QED
    BY <2>1, <2>2 DEF Advances
<1>5. ASSUME NEW t \in Tags, NEW l \in 1..Len(d), t = TagAt(Len(rob) + l)
      PROVE  /\ Uop(t)' = d[l] /\ Lane(l, d, dq, allocated, w)
             /\ Uop(t)'.dest # 0 => Uop(t)'.dest \in allocated
  <2>1. Uop(t)' = d[l] /\ Lane(l, d, dq, allocated, w)
    BY <1>1, <1>5 DEF Rolled, Joins, Lanes
  <2> QED
    BY <2>1 DEF Lane
<1>6. \A t \in Tags : Live(t)' => Stays(t, n, killed) \/ \E l \in 1..Len(d) : t = TagAt(Len(rob) + l)
  BY <1>1 DEF Rolled
<1>7. ASSUME NEW p \in committed' PROVE p \in right'
  <2>1. CASE p \in committed
    BY <1>1, <1>2, <2>1 DEF RegsOK
  <2>2. CASE p \notin committed
    <3>1. PICK u \in Tags : Live(u) /\ ~(PlaceOf(u) > n) /\ Uop(u).dest = p
      BY <1>1, <1>7, <2>2 DEF CommitsTo
    <3>2. Uop(u).state = "done" /\ p # 0
      BY <1>1, <1>7, <3>1 DEF Retires, CommitsTo
    <3>3. p \in right \cup w
      BY <1>1, <3>1, <3>2, DoneAreRight DEF DoneIsRight
    <3> QED
      BY <1>1, <1>3, <3>1, <3>3
  <2> QED
    BY <2>1, <2>2
<1> HIDE DEF w
<1>8. \A t, u \in Tags :
        Live(t) /\ Live(u) /\ Uop(t).dest # 0 /\ Uop(t).dest = Uop(u).dest => t = u
  BY <1>1 DEF RegsOK
<1>9. ASSUME NEW t \in Tags, Live(t)' PROVE Uop(t)'.dest \notin committed'
  <2> SUFFICES ASSUME Uop(t)'.dest \in committed' PROVE FALSE
    OBVIOUS
  <2>1. PICK p : p = Uop(t)'.dest
    OBVIOUS
  <2>2. p # 0 /\ (p \in committed \/ \E u \in Tags : Live(u) /\ ~(PlaceOf(u) > n) /\ Uop(u).dest = p)
    BY <1>1, <2>1 DEF CommitsTo
  <2>3. CASE Stays(t, n, killed)
    <3>1. Live(t) /\ PlaceOf(t) > n /\ p = Uop(t).dest
      BY <1>4, <2>1, <2>3
    <3>2. p \notin committed
      BY <1>1, <3>1 DEF RegsOK
    <3> QED
      BY <1>8, <2>2, <3>1, <3>2
  <2>4. CASE \E l \in 1..Len(d) : t = TagAt(Len(rob) + l)
    <3>1. p \in allocated
      BY <1>5, <2>1, <2>2, <2>4
    <3> QED
      BY <1>2, <1>3, <2>2, <3>1
  <2> QED
    BY <1>6, <1>9, <2>3, <2>4
<1>10. ASSUME NEW t \in Tags, Live(t)', Uop(t)'.old # 0 PROVE Mapped(Uop(t).old, PlaceOf(t))'
  <2>1. PICK p : p = Uop(t)'.old
    OBVIOUS
  <2>2. Mapped(p, PlaceOf(t))'
    <3>1. CASE Stays(t, n, killed)
      <4>1. Live(t) /\ p = Uop(t).old
        BY <1>4, <2>1, <3>1
      <4>2. Mapped(p, PlaceOf(t)) /\ p # 0
        BY <1>1, <1>10, <2>1, <4>1 DEF RegsOK
      <4> QED
        BY <3>1, <4>2, EdgeMapped
    <3>2. CASE \E l \in 1..Len(d) : t = TagAt(Len(rob) + l)
      <4>1. PICK l \in 1..Len(d) : t = TagAt(Len(rob) + l)
        BY <3>2
      <4>2. SourceOf(p, l, d) /\ p # 0
        BY <1>5, <1>10, <2>1, <4>1, ZenonT(90) DEF Lane
      <4> QED
        BY <4>1, <4>2, EdgeMapped
    <3> QED
      BY <1>6, <1>10, <3>1, <3>2
  <2> QED
    BY <2>1, <2>2 DEF Mapped
<1>11. ASSUME NEW t \in Tags, NEW u \in Tags, Live(t)', Live(u)', Uop(t)'.dest # 0,
              Uop(t)'.dest = Uop(u)'.dest
       PROVE  t = u
  <2>1. CASE Stays(t, n, killed) /\ Stays(u, n, killed)
    BY <1>4, <1>8, <1>11, <2>1
  <2>2. ASSUME NEW x \in Tags, NEW y \in Tags, Stays(x, n, killed), Uop(x)'.dest # 0, Uop(x)'.dest = Uop(y)'.dest,
               NEW l \in 1..Len(d), y = TagAt(Len(rob) + l)
        PROVE  FALSE
    <3>1. Uop(y)'.dest \in allocated
      BY <1>5, <2>2
    <3>2. Live(x) /\ Uop(x)'.dest = Uop(x).dest
      BY <1>4, <2>2
    <3> QED
      BY <1>3, <2>2, <3>1, <3>2
  <2>3. ASSUME NEW l \in 1..Len(d), t = TagAt(Len(rob) + l), NEW j \in 1..Len(d), u = TagAt(Len(rob) + j)
        PROVE  t = u
    <3>1. Uop(t)' = d[l] /\ Lane(l, d, dq, allocated, w) /\ Uop(u)' = d[j]
      BY <1>5, <2>3
    <3>2. l = j
      BY <1>11, <3>1 DEF Lane
    <3> QED
      BY <2>3, <3>2
  <2>4. /\ Stays(t, n, killed) \/ \E l \in 1..Len(d) : t = TagAt(Len(rob) + l)
        /\ Stays(u, n, killed) \/ \E l \in 1..Len(d) : u = TagAt(Len(rob) + l)
    BY <1>6, <1>11
  <2>5. Uop(u)'.dest # 0 /\ Uop(u)'.dest = Uop(t)'.dest
    BY <1>11
  <2> QED
    BY <1>11, <2>1, <2>2, <2>3, <2>4, <2>5
<1> QED
  BY <1>1, <1>7, <1>9, <1>10, <1>11 DEF RegsOK

--------------------------------------------------------------------------------
(* The normal clock.                                                           *)

\* The ROB after n uops have retired and the uops d have been dispatched.
LEMMA ClockRolls ==
  ASSUME Types, NEW r \in Seq(RobType), Len(r) = Len(rob), NEW n \in Nat, n <= Len(rob),
         NEW d \in Seq(RobType), Len(rob) + Len(d) <= RobDepth,
         rob' = SubSeq(r, n + 1, Len(rob)) \o d, robHead' = (robHead + n) % RobDepth
  PROVE  /\ Rolled(r, n, {}, d) /\ rob' \in Seq(RobType) /\ Len(rob') <= RobDepth
<1> DEFINE L == Len(rob)
           u == SubSeq(r, n + 1, L)
<1>1. L \in Nat /\ Len(d) \in Nat /\ RobDepth \in Nat \ {0} /\ L <= RobDepth /\ robHead \in Tags
  <2>1. Len(d) \in Nat
    BY SMTT(60)
  <2> QED
    BY <2>1, Parts
<1>2. n \in 0..RobDepth
  BY <1>1, SMTT(60)
<1>3. Turned(n)
  BY <1>1, <1>2, RingTurns
<1>4. u \in Seq(RobType) /\ Len(u) = L - n /\ \A i \in 1..(L - n) : u[i] = r[n + i]
  <2>1. \A i \in (n + 1)..L : r[i] \in RobType
    <3>1. \A i \in (n + 1)..L : i \in 1..Len(r)
      BY <1>1, SMTT(60)
    <3> QED
      BY <3>1, SMTT(60)
  <2>2. n + 1 \in Int /\ L \in Int
    BY <1>1, SMTT(60)
  <2>3. /\ u \in Seq(RobType) /\ Len(u) = IF n + 1 <= L THEN L - (n + 1) + 1 ELSE 0
        /\ \A i \in 1..(L - (n + 1) + 1) : u[i] = r[(n + 1) + i - 1]
    BY <2>1, <2>2, SMTT(60)
  <2>4. (IF n + 1 <= L THEN L - (n + 1) + 1 ELSE 0) = L - n
    BY <1>1, SMTT(60)
  <2>5. L - (n + 1) + 1 = L - n /\ \A i \in 1..(L - n) : (n + 1) + i - 1 = n + i
    BY <1>1, SMTT(60)
  <2> HIDE DEF u
  <2>6. \A i \in 1..(L - n) : u[i] = r[n + i]
    BY <2>3, <2>5, SMTT(60)
  <2> QED
    BY <2>3, <2>4, <2>6
<1> HIDE DEF u
<1>5. rob' \in Seq(RobType) /\ Joined(rob', u, d)
  <2>1. rob' = u \o d
    BY DEF u
  <2>2. u \o d \in Seq(RobType) /\ Joined(u \o d, u, d)
    BY <1>4, ConcatIs
  <2> QED
    BY <2>1, <2>2
<1>6. Len(rob') = (L - n) + Len(d)
  BY <1>4, <1>5 DEF Joined
<1>7. Len(rob') <= RobDepth
  BY <1>1, <1>6, SMTT(60)
<1>8. ASSUME NEW t \in Tags, Stays(t, n, {}) PROVE Survives(t, r, n)
  <2>1. PlaceOf(t) \in 1..L /\ PlaceOf(t) > n
    BY <1>8, LivePlace DEF Stays
  <2>2. PlaceOf(t)' = PlaceOf(t) - n
    BY <1>3, <2>1 DEF Turned
  <2>3. PICK i : i = PlaceOf(t) - n
    OBVIOUS
  <2>4. i \in 1..(L - n) /\ n + i = PlaceOf(t) /\ i <= Len(rob')
    BY <1>1, <1>6, <2>1, <2>3, SMTT(60)
  <2>5. rob'[i] = r[PlaceOf(t)]
    <3>1. rob'[i] = u[i]
      BY <1>4, <1>5, <2>4 DEF Joined
    <3>2. u[i] = r[n + i]
      BY <1>4, <2>4
    <3> QED
      BY <2>4, <3>1, <3>2
  <2> QED
    BY <2>2, <2>3, <2>4, <2>5 DEF Survives, Live, Uop
<1>9. ASSUME NEW l \in 1..Len(d)
      PROVE  L + l \in 1..RobDepth /\ L + l > n /\ ~(L + l <= L) /\ (L + l) - n = (L - n) + l
             /\ (L - n) + l <= (L - n) + Len(d)
  BY <1>1, SMTT(60)
<1>10. \A l \in 1..Len(d) : TagAt(L + l) \in Tags /\ PlaceOf(TagAt(L + l)) = L + l
  BY <1>9, Parts
<1>11. ASSUME NEW t \in Tags, NEW l \in 1..Len(d), t = TagAt(L + l) PROVE Joins(t, l, n, d)
  <2>1. PlaceOf(t) = L + l
    BY <1>10, <1>11
  <2>2. ~Live(t)
    BY <1>9, <2>1 DEF Live
  <2>3. PlaceOf(t)' = (L - n) + l
    BY <1>3, <1>9, <2>1 DEF Turned
  <2>4. rob'[(L - n) + l] = d[l]
    BY <1>4, <1>5 DEF Joined
  <2> QED
    BY <1>6, <1>9, <2>2, <2>3, <2>4 DEF Joins, Live, Uop
<1>12. ASSUME NEW t \in Tags, Live(t)'
       PROVE  Stays(t, n, {}) \/ \E l \in 1..Len(d) : t = TagAt(L + l)
  <2>1. PlaceOf(t)' <= (L - n) + Len(d)
    BY <1>6, <1>12 DEF Live
  <2>2. PlaceOf(t) \in 1..RobDepth /\ TagAt(PlaceOf(t)) = t
    BY Parts
  <2>3. /\ PlaceOf(t) > n => PlaceOf(t)' = PlaceOf(t) - n
        /\ ~(PlaceOf(t) > n) => PlaceOf(t)' = PlaceOf(t) - n + RobDepth
    BY <1>3 DEF Turned
  <2>4. PlaceOf(t) > n
    BY <1>1, <2>1, <2>2, <2>3, SMTT(60)
  <2>5. PlaceOf(t) <= L \/ PlaceOf(t) - L \in 1..Len(d)
    BY <1>1, <2>1, <2>2, <2>3, <2>4, SMTT(60)
  <2>6. L + (PlaceOf(t) - L) = PlaceOf(t)
    BY <1>1, <2>2, SMTT(60)
  <2> QED
    BY <2>2, <2>4, <2>5, <2>6 DEF Stays, Live
<1>13. robHead' \in Tags
  BY <1>3 DEF Turned
<1> QED
  BY <1>5, <1>7, <1>8, <1>10, <1>11, <1>12, <1>13 DEF Rolled

\* Only uops that are done retire, and the committed registers follow.
LEMMA RetirementIs ==
  ASSUME Types, NEW n \in RetireCounts,
         committed' = ((committed \cup {rob[i].dest : i \in 1..n}) \ {rob[i].old : i \in 1..n}) \ {0}
  PROVE  n \in Nat /\ n <= Len(rob) /\ Retires(n) /\ CommitsTo(n)
<1>1. n \in Nat /\ n <= Len(rob) /\ \A i \in 1..n : rob[i].state = "done"
  BY SMTT(60) DEF RetireCounts
<1>2. Len(rob) \in Nat
  BY Parts
<1>3. ASSUME NEW t \in Tags, Live(t), ~(PlaceOf(t) > n) PROVE PlaceOf(t) \in 1..n /\ Uop(t) = rob[PlaceOf(t)]
  <2>1. PlaceOf(t) \in 1..Len(rob) /\ Uop(t) = rob[PlaceOf(t)]
    BY <1>3, LivePlace
  <2>2. PlaceOf(t) \in 1..n
    BY <1>1, <1>2, <1>3, <2>1, SMTT(60)
  <2> QED
    BY <2>1, <2>2
<1>4. ASSUME NEW i \in 1..n
      PROVE  /\ TagAt(i) \in Tags /\ Live(TagAt(i)) /\ ~(PlaceOf(TagAt(i)) > n)
             /\ Uop(TagAt(i)) = rob[i]
  <2>1. i \in 1..Len(rob) /\ i <= Len(rob) /\ ~(i > n)
    BY <1>1, <1>2, SMTT(60)
  <2>2. TagAt(i) \in Tags /\ PlaceOf(TagAt(i)) = i
    BY <2>1, Parts
  <2> QED
    BY <2>1, <2>2 DEF Live, Uop
<1>5. Retires(n)
  BY <1>1, <1>3 DEF Retires
<1>6. ASSUME NEW p
      PROVE  /\ (\E i \in 1..n : rob[i].dest = p) <=>
                   \E u \in Tags : Live(u) /\ ~(PlaceOf(u) > n) /\ Uop(u).dest = p
             /\ (\A i \in 1..n : rob[i].old # p) <=>
                   \A u \in Tags : Live(u) /\ ~(PlaceOf(u) > n) => Uop(u).old # p
  BY <1>3, <1>4
<1>7. \A p : p \in committed' <=>
        /\ p # 0 /\ (p \in committed \/ \E i \in 1..n : rob[i].dest = p)
        /\ \A i \in 1..n : rob[i].old # p
  OBVIOUS
<1> QED
  BY <1>1, <1>5, <1>6, <1>7 DEF CommitsTo

\* The renaming of a lane.
Renamed(o, free, mapped) ==
    /\ o.dest \in free \cup {0} /\ o.old \in mapped \cup {0}
    /\ o.src1 \in mapped \cup {0} /\ o.src2 \in mapped \cup {0}

\* The map that lane 1 reads.
mappedByLane0(o) == ((mappedRegs \cup {o.dest}) \ {o.old}) \ {0}

GroupOf(g, os) ==
    /\ Len(g) \in {0, 1, 2} /\ \A l \in 1..Len(g) : g[l] \in InstrType
    /\ Len(g) # 0 => Renamed(os[1], freeRegs, mappedRegs)
    /\ Len(g) = 2 => Renamed(os[2], freeRegs \ {os[1].dest}, mappedByLane0(os[1]))

\* What the renaming of one lane may give it.
LEMMA RenamingsAre ==
  ASSUME NEW instr, NEW free, NEW mapped, NEW o \in Renamings(instr, free, mapped)
  PROVE  Renamed(o, free, mapped)
<1>1. /\ o.dest \in IF instr.writes THEN free ELSE {0}
      /\ o.old \in IF instr.writes THEN mapped ELSE {0}
      /\ o.src1 \in IF instr.sources >= 1 THEN mapped \cup {0} ELSE {0}
      /\ o.src2 \in IF instr.sources >= 2 THEN mapped \cup {0} ELSE {0}
  BY DEF Renamings
<1> QED
  BY <1>1 DEF Renamed

\* What the renaming of a group gives its lanes.
LEMMA GroupIs ==
  ASSUME NEW g \in Groups \cup {<<>>}, NEW os \in GroupRenamings(g)
  PROVE  GroupOf(g, os)
<1>1. CASE g = <<>>
  <2>1. Len(g) = 0
    BY <1>1, SMTT(60)
  <2>2. Len(g) \in {0, 1, 2} /\ Len(g) # 2 /\ \A l \in 1..Len(g) : g[l] \in InstrType
    BY <2>1, SMTT(60)
  <2> QED
    BY <2>1, <2>2 DEF GroupOf
<1>2. CASE g # <<>>
  <2>1. g \in Seq(InstrType) /\ Len(g) \in {1, 2}
    BY <1>2, ExecuteAssumption
  <2>2. \A l \in 1..Len(g) : g[l] \in InstrType
    BY <2>1, SMTT(60)
  <2> DEFINE lane1s(o) == Renamings(g[2], freeRegs \ {o.dest}, mappedByLane0(o))
  <2>3. CASE Len(g) = 1
    <3>1. PICK o \in Renamings(g[1], freeRegs, mappedRegs) : os = <<o>>
      BY <1>2, <2>3 DEF GroupRenamings
    <3>2. os[1] = o
      BY <3>1, SMTT(60)
    <3>3. 1 # 2 /\ 1 # 0
      BY SMTT(60)
    <3> QED
      BY <2>1, <2>2, <2>3, <3>1, <3>2, <3>3, RenamingsAre DEF GroupOf
  <2>4. CASE Len(g) = 2
    <3>1. 2 # 1 /\ 2 # 0
      BY SMTT(60)
    <3>2. os \in UNION {{<<o, q>> : q \in lane1s(o)} : o \in Renamings(g[1], freeRegs, mappedRegs)}
      BY <1>2, <2>4, <3>1 DEF GroupRenamings, mappedByLane0
    <3> HIDE DEF lane1s
    <3>7. PICK o \in Renamings(g[1], freeRegs, mappedRegs) : \E q \in lane1s(o) : os = <<o, q>>
      BY <3>2
    <3>3. PICK q \in lane1s(o) : os = <<o, q>>
      BY <3>7
    <3>4. os[1] = o /\ os[2] = q
      BY <3>3, SMTT(60)
    <3>5. Renamed(o, freeRegs, mappedRegs)
      BY <3>3, RenamingsAre
    <3>6. Renamed(q, freeRegs \ {o.dest}, mappedByLane0(o))
      BY <3>3, RenamingsAre DEF lane1s
    <3> QED
      BY <2>1, <2>2, <2>4, <3>1, <3>4, <3>5, <3>6 DEF GroupOf
  <2> QED
    BY <2>1, <2>3, <2>4
<1> QED
  BY <1>1, <1>2

\* The entries of a lane in the ROB and the issue queue.
LaneEntry(e, f, instr, o, tag, lane0Dest, w) ==
    /\ e \in RobType /\ f \in IqType
    /\ e.dest = o.dest /\ e.old = o.old /\ e.state = "iq"
    /\ e.isBranch = (instr.fuClass = "FU_BRANCH")
    /\ f.tag = tag /\ f.fuClass = instr.fuClass /\ f.dest = o.dest
    /\ f.src1 = o.src1 /\ f.src2 = o.src2
    /\ f.src1Ready = sourceReady(o.src1, lane0Dest, w)
    /\ f.src2Ready = sourceReady(o.src2, lane0Dest, w)

\* The issue-queue entry of a lane.
LEMMA LaneEntryIs ==
  ASSUME NEW instr \in InstrType, NEW o, NEW i, TagAt(i) \in Tags, NEW lane0Dest, NEW w,
         o.dest \in RegsOr0, o.old \in RegsOr0, o.src1 \in RegsOr0, o.src2 \in RegsOr0
  PROVE  LaneEntry(robEntry(instr, o), iqEntry(i, instr, o, lane0Dest, w), instr, o, TagAt(i), lane0Dest, w)
<1>1. /\ instr.fuClass \in IntegerOrBranch \cup MemoryOrCsr /\ instr.isStore \in BOOLEAN
      /\ instr.exception \in BOOLEAN
  BY DEF InstrType
<1>2. /\ sourceReady(o.src1, lane0Dest, w) \in BOOLEAN
      /\ sourceReady(o.src2, lane0Dest, w) \in BOOLEAN
  BY DEF sourceReady
<1>3. (instr.fuClass = "FU_BRANCH") \in BOOLEAN /\ (instr.fuClass = "FU_MEMORY") \in BOOLEAN
  OBVIOUS
<1>4. robEntry(instr, o) \in RobType
  BY <1>3 DEF robEntry, RobType
<1>5. iqEntry(i, instr, o, lane0Dest, w) \in IqType
  BY <1>1, <1>2 DEF iqEntry, IqType
<1> QED
  BY <1>4, <1>5 DEF LaneEntry, robEntry, iqEntry

Presented(g, os, w, d, dq, allocated) ==
    /\ d = [l \in 1..Len(g) |-> robEntry(g[l], os[l])] /\ dq = Dispatched(g, os, w)
    /\ allocated = {os[l].dest : l \in 1..Len(g)} \ {0}

\* They have tags that are not in use.
Fresh(g, d, dq) ==
    /\ d \in Seq(RobType) /\ dq \in Seq(IqType) /\ Len(d) = Len(g) /\ Len(dq) = Len(g)
    /\ Tagged(dq) /\ \A l \in 1..Len(dq) : ~Live(dq[l].tag)

\* The ROB and issue-queue entries that a group presents.
LEMMA DispatchIs ==
  ASSUME Types, NEW g, NEW os, GroupOf(g, os), accepts(g), NEW w,
         NEW d, NEW dq, NEW allocated, Presented(g, os, w, d, dq, allocated)
  PROVE  Lanes(d, dq, allocated, w) /\ Fresh(g, d, dq)
<1> USE DEF Presented
<1> DEFINE L == Len(rob)
           lane0Dest(l) == IF l = 2 THEN os[1].dest ELSE 0
<1>1. /\ Len(g) \in {0, 1, 2} /\ Len(g) \in Nat /\ L \in Nat /\ L + Len(g) <= RobDepth
      /\ RobDepth \in Nat
  <2>1. Len(g) \in {0, 1, 2}
    BY DEF GroupOf
  <2>2. L \in Nat /\ RobDepth \in Nat
    BY Parts
  <2>3. L + Len(g) <= RobDepth
    BY DEF accepts
  <2> HIDE DEF L
  <2> QED
    BY <2>1, <2>2, <2>3, SMTT(60)
<1>2. \A l \in 1..Len(g) : L + l \in 1..RobDepth /\ ~(L + l <= L)
  BY <1>1, SMTT(60)
<1>3. \A l \in 1..Len(g) : TagAt(L + l) \in Tags /\ PlaceOf(TagAt(L + l)) = L + l
  BY <1>2, Parts
<1>4. /\ \A p \in mappedRegs : p \in Regs /\ p # 0 /\ p \notin freeRegs
      /\ \A p \in freeRegs : p \in Regs /\ p # 0
  BY MappedAtDispatch, MappedNotFree DEF freeRegs
<1>5. \A l \in 1..Len(g) : l = 1 \/ (l = 2 /\ Len(g) = 2)
  BY <1>1, SMTT(60)
<1>6. \A l \in 1..Len(g) : Len(g) # 0
  BY <1>1, SMTT(60)
<1>7. ASSUME NEW l \in 1..Len(g) PROVE Renamed(os[1], freeRegs, mappedRegs)
  BY <1>6 DEF GroupOf
<1>8. ASSUME NEW l \in 1..Len(g), l = 2
      PROVE  Renamed(os[2], freeRegs \ {os[1].dest}, mappedByLane0(os[1]))
  <2>1. Len(g) = 2
    BY <1>1, <1>8, SMTT(60)
  <2> QED
    BY <2>1 DEF GroupOf
<1>9. ASSUME NEW l \in 1..Len(g)
      PROVE  /\ os[l].dest \in RegsOr0 /\ os[l].old \in RegsOr0
             /\ os[l].src1 \in RegsOr0 /\ os[l].src2 \in RegsOr0
             /\ os[l].dest # 0 => os[l].dest \in freeRegs
  <2>1. CASE l = 1
    BY <1>4, <1>7, <2>1 DEF Renamed, RegsOr0
  <2>2. CASE l = 2
    <3>1. Renamed(os[2], freeRegs \ {os[1].dest}, mappedByLane0(os[1])) /\ Renamed(os[1], freeRegs, mappedRegs)
      BY <1>7, <1>8, <2>2
    <3>2. \A p \in mappedByLane0(os[1]) : p \in Regs
      BY <1>4, <3>1 DEF Renamed, mappedByLane0
    <3> QED
      BY <1>4, <2>2, <3>1, <3>2 DEF Renamed, RegsOr0
  <2> QED
    BY <1>5, <2>1, <2>2
<1>10. ASSUME NEW l \in 1..Len(g)
       PROVE  LaneEntry(d[l], dq[l], g[l], os[l], TagAt(L + l), lane0Dest(l), w)
  <2>1. d[l] = robEntry(g[l], os[l]) /\ dq[l] = iqEntry(L + l, g[l], os[l], lane0Dest(l), w)
    BY DEF Dispatched
  <2>2. g[l] \in InstrType
    BY DEF GroupOf
  <2> HIDE DEF lane0Dest, L
  <2> QED
    BY <1>3, <1>9, <2>1, <2>2, LaneEntryIs
<1>11. d = [l \in 1..Len(g) |-> d[l]] /\ dq = [l \in 1..Len(g) |-> dq[l]]
  BY DEF Dispatched
<1>12. d \in [1..Len(g) -> RobType] /\ dq \in [1..Len(g) -> IqType]
  BY <1>10, <1>11 DEF LaneEntry
<1>13. d \in Seq(RobType) /\ dq \in Seq(IqType) /\ Len(d) = Len(g) /\ Len(dq) = Len(g)
  BY <1>1, <1>12, SMTT(60)
<1>14. \A p : p \in allocated <=> p # 0 /\ \E l \in 1..Len(g) : os[l].dest = p
  OBVIOUS
<1>15. allocated \subseteq freeRegs
  BY <1>9, <1>14
<1>16. ASSUME NEW l \in 1..Len(g)
       PROVE  /\ dq[l].tag = TagAt(L + l) /\ d[l].state = "iq" /\ dq[l].dest = d[l].dest
              /\ d[l].isBranch = (dq[l].fuClass = "FU_BRANCH")
              /\ d[l].dest = os[l].dest /\ d[l].old = os[l].old
              /\ dq[l].src1 = os[l].src1 /\ dq[l].src2 = os[l].src2
              /\ dq[l].src1Ready = sourceReady(os[l].src1, lane0Dest(l), w)
              /\ dq[l].src2Ready = sourceReady(os[l].src2, lane0Dest(l), w)
  <2> HIDE DEF lane0Dest, L
  <2> QED
    BY <1>10 DEF LaneEntry
<1>17. Tagged(dq) /\ \A l \in 1..Len(dq) : ~Live(dq[l].tag)
  <2>1. ASSUME NEW j \in 1..Len(g), NEW k \in 1..Len(g), dq[j].tag = dq[k].tag PROVE j = k
    <3>2. dq[j].tag = TagAt(L + j) /\ dq[k].tag = TagAt(L + k)
      BY <1>16
    <3>1. L + j = L + k
      BY <1>3, <2>1, <3>2
    <3> QED
      BY <1>1, <3>1, SMTT(60)
  <2>2. ASSUME NEW l \in 1..Len(g) PROVE ~Live(dq[l].tag)
    <3>1. dq[l].tag = TagAt(L + l)
      BY <1>16
    <3> QED
      BY <1>2, <1>3, <3>1 DEF Live
  <2> QED
    BY <1>13, <2>1, <2>2 DEF Tagged
<1>18. ASSUME NEW l \in 1..Len(g), NEW p, p # 0,
              p \in mappedRegs \/ (l = 2 /\ p \in mappedByLane0(os[1])),
              l = 2 => p \in mappedByLane0(os[1])
       PROVE  /\ SourceOf(p, l, d)
              /\ ReadyThen(p, sourceReady(p, lane0Dest(l), w), allocated, w)
  <2>1. CASE l = 1
    <3>1. 1..(l - 1) = {} /\ 1 # 2
      BY <2>1, SMTT(60)
    <3>2. p \in mappedRegs /\ p \notin allocated
      BY <1>4, <1>15, <1>18, <2>1, <3>1
    <3>3. SourceOf(p, l, d)
      BY <3>1, <3>2 DEF SourceOf
    <3>4. lane0Dest(l) = 0
      BY <2>1, <3>1
    <3>5. ReadyThen(p, sourceReady(p, lane0Dest(l), w), allocated, w)
      BY <1>18, <3>2, <3>4 DEF ReadyThen, sourceReady, sourceReadyNow
    <3> QED
      BY <3>3, <3>5
  <2>2. CASE l = 2
    <3>1. 1..(l - 1) = {1} /\ 1 \in 1..Len(g)
      BY <1>1, <2>2, SMTT(60)
    <3>2. p \in mappedRegs \cup {os[1].dest} /\ p # os[1].old
      BY <1>18, <2>2 DEF mappedByLane0
    <3>3. d[1].dest = os[1].dest /\ d[1].old = os[1].old
      BY <1>16, <3>1
    <3>4. SourceOf(p, l, d)
      BY <3>1, <3>2, <3>3 DEF SourceOf
    <3>5. lane0Dest(l) = os[1].dest
      BY <2>2
    <3>6. p = os[1].dest => p \in allocated
      BY <1>14, <1>18, <3>1
    <3>7. p # os[1].dest => p \notin allocated
      BY <1>4, <1>15, <3>2
    <3>8. ReadyThen(p, sourceReady(p, lane0Dest(l), w), allocated, w)
      BY <1>18, <3>5, <3>6, <3>7 DEF ReadyThen, sourceReady, sourceReadyNow
    <3> QED
      BY <3>4, <3>8
  <2> QED
    BY <1>5, <2>1, <2>2
<1>19. ASSUME NEW l \in 1..Len(g), NEW p, p # 0, p \in {os[l].src1, os[l].src2, os[l].old}
       PROVE  /\ p \in mappedRegs \/ (l = 2 /\ p \in mappedByLane0(os[1]))
              /\ l = 2 => p \in mappedByLane0(os[1])
  <2>1. CASE l = 1
    <3>1. 1 # 2
      BY SMTT(60)
    <3> QED
      BY <1>7, <1>19, <2>1, <3>1 DEF Renamed
  <2>2. CASE l = 2
    <3>1. Renamed(os[l], freeRegs \ {os[1].dest}, mappedByLane0(os[1]))
      BY <1>8, <2>2
    <3>2. p \in mappedByLane0(os[1])
      BY <1>19, <3>1 DEF Renamed
    <3> QED
      BY <2>2, <3>2
  <2> QED
    BY <1>5, <2>1, <2>2
<1> HIDE DEF lane0Dest
<1>20. ASSUME NEW l \in 1..Len(g), NEW p, p # 0, p \in {os[l].src1, os[l].src2, os[l].old}
       PROVE  /\ SourceOf(p, l, d)
              /\ ReadyThen(p, sourceReady(p, lane0Dest(l), w), allocated, w)
  BY <1>18, <1>19, <1>20
<1>21. \A p, bit : p = 0 => ReadyThen(p, bit, allocated, w)
  BY DEF ReadyThen
<1>22. ASSUME NEW l \in 1..Len(g), NEW j \in 1..Len(g), os[l].dest # 0, os[l].dest = os[j].dest PROVE l = j
  <2>1. ASSUME NEW i \in 1..Len(g), i = 2, os[2].dest # 0 PROVE os[2].dest # os[1].dest
    BY <1>8, <2>1 DEF Renamed
  <2> QED
    BY <1>5, <1>22, <2>1
<1>23. ASSUME NEW l \in 1..Len(g) PROVE Lane(l, d, dq, allocated, w)
  <2>1. d[l].dest # 0 => d[l].dest \in allocated
    BY <1>14, <1>16
  <2>2. ASSUME NEW j \in 1..Len(d), d[l].dest # 0, d[l].dest = d[j].dest PROVE l = j
    <3>1. j \in 1..Len(g)
      BY <1>13
    <3>2. d[l].dest = os[l].dest /\ d[j].dest = os[j].dest
      BY <1>16, <3>1
    <3> QED
      BY <1>22, <2>2, <3>1, <3>2
  <2>3. /\ dq[l].src1 # 0 => SourceOf(dq[l].src1, l, d)
        /\ dq[l].src2 # 0 => SourceOf(dq[l].src2, l, d)
        /\ d[l].old # 0 => SourceOf(d[l].old, l, d)
    BY <1>16, <1>20
  <2>4. /\ ReadyThen(dq[l].src1, dq[l].src1Ready, allocated, w)
        /\ ReadyThen(dq[l].src2, dq[l].src2Ready, allocated, w)
    BY <1>16, <1>20, <1>21, ZenonT(90)
  <2> QED
    BY <1>16, <2>1, <2>2, <2>3, <2>4 DEF Lane
<1> QED
  BY <1>1, <1>13, <1>15, <1>17, <1>23 DEF Lanes, Fresh

--------------------------------------------------------------------------------
(* The step as a whole.                                                        *)

\* What issues and what the units hold afterwards.
Executes(ks, p1, acc, issued, killed) ==
    /\ Issues(ks, p1, acc, wakeupsOf(delivered)) /\ issued = ks \cup p1 \cup acc
    /\ IntegerUnits(ks, p1, killed) /\ MemoryUnit(acc, killed)

\* What the units and the LSU do in one clock.
LEMMA ExecuteStep ==
  ASSUME Ranking, IInv, NEW w, w = wakeupsOf(delivered), NEW good, good = rightNow(delivered),
         NEW p0, p0 = port0(iq, w), NEW p1, p1 = port1(iq, w), NEW fb, fb = fallback(iq, w),
         NEW m \in MemoryAnswers(p0), NEW killed, Units(p0, p1, fb, m, good, killed),
         NEW answer \in LsuAnswers(m, killed), Lsu(m, answer, good, killed),
         NEW ks, ks = IF pReady THEN primaryIssue(p0, fb, m) ELSE {}
  PROVE  /\ Executes(ks, p1, m.accepted, issuedPositions(p0, p1, fb, m), killed)
         /\ m.retry \in {None} \cup {<<t>> : t \in Tags}
<1> DEFINE acc == m.accepted
           ps == primaryIssue(p0, fb, m)
<1>1. Types /\ UnitsOK /\ ApartOK /\ right = readyTable /\ WakeupsMatchRegisterFile
  BY DEF IInv, RegsOK
<1>2. Chosen(iq, w, p0, p1, fb)
  <2>1. Len(iq) \in Nat
    BY <1>1, Parts
  <2> QED
    BY <2>1, Candidates
<1>3. /\ Issues(ps, p1, acc, w)
      /\ issuedPositions(p0, p1, fb, m) = (IF pReady THEN ps ELSE {}) \cup p1 \cup acc
  BY <1>1, <1>2, IssueIs, SMTT(60)
<1>12. issuedPositions(p0, p1, fb, m) = ks \cup p1 \cup acc
  BY <1>3
<1> HIDE DEF ps
<1>4. ks \subseteq ps
  BY DEF ps
<1>5. Issues(ks, p1, acc, w)
  BY <1>3, <1>4 DEF Issues
<1>6. p0 \subseteq 1..Len(iq)
  BY <1>2 DEF Chosen
<1>7. m.local \in BOOLEAN /\ m.retry \in {None} \cup {<<t>> : t \in Tags}
  BY <1>1, <1>6, AnswerIs
<1>8. \A c \in delivered : c.right /\ ~c.dead
  BY <1>1, DeliveredIs DEF Given
<1>9. ASSUME NEW k \in ps \cup p1 \cup acc PROVE Result(resultOf(iq[k], good), iq[k])
  <2>1. k \in 1..Len(iq) /\ readyEntry(iq[k], wakeupsOf(delivered))
    BY <1>3 DEF Issues
  <2>2. iq[k] \in IqType
    BY <1>1, <2>1, Parts
  <2>3. /\ iq[k].src1 # 0 => (iq[k].src1Ready <=> iq[k].src1 \in readyTable)
        /\ iq[k].src2 # 0 => (iq[k].src2Ready <=> iq[k].src2 \in readyTable)
    BY <1>1, <2>1 DEF WakeupsMatchRegisterFile
  <2>4. iq[k].src1 \in good /\ (iq[k].isStore \/ iq[k].src2 \in good)
    BY <1>1, <1>8, <2>1, <2>2, <2>3, ReadyIsRight
  <2> QED
    BY <2>2, <2>4, ResultIs
<1>10. IntegerUnits(ks, p1, killed)
  <2>1. AtMostOne(ps) /\ AtMostOne(p1)
    BY <1>3 DEF Issues, AtMostOne
  <2>2. Results(ps, good) /\ Results(p1, good)
    BY <1>9 DEF Results
  <2>3. Unit(primary)
    BY <1>1, UnitsAre
  <2> QED
    BY <2>1, <2>2, <2>3, UnitsStep DEF ps
<1>11. MemoryUnit(acc, killed)
  <2>1. AtMostOne(acc)
    BY <1>3 DEF Issues, AtMostOne
  <2>2. Results(acc, good)
    BY <1>9 DEF Results
  <2>3. loads \subseteq Completions
    BY <1>1, UnitsAre
  <2> QED
    BY <1>7, <2>1, <2>2, <2>3, LsuStep, SMTT(60)
<1> QED
  BY <1>5, <1>7, <1>10, <1>11, <1>12 DEF Executes

\* Wakeups name physical registers.
LEMMA WakeupsAreRegs ==
  ASSUME IInv
  PROVE  wakeupsOf(delivered) \subseteq Regs
<1>1. \A c \in delivered : c \in Completions
  BY DeliveredIs DEF IInv, Given
<1>2. \A c \in Completions : c.dest \in Regs \cup {0}
  BY DEF Completions
<1> QED
  BY <1>1, <1>2 DEF wakeupsOf

\* What an edge leaves in the registers that the lemmas above do not speak of.
Bounds(killed) ==
    /\ filter' = killed /\ killed \subseteq Tags /\ rob' \in Seq(RobType) /\ Len(rob') <= RobDepth
    /\ Len(iq') <= IqDepth /\ cacheFallback' \in {None} \cup {<<t>> : t \in Tags}

\* Every edge keeps the invariant.
LEMMA EdgeKeeps ==
  ASSUME NEW r, NEW n, NEW killed, NEW issued, NEW b, NEW d, NEW dq, NEW allocated,
         Edge(r, n, killed, issued, b, d, dq, allocated),
         NEW ks, NEW p1, NEW acc, Executes(ks, p1, acc, issued, killed), Branches(b, p1),
         Bounds(killed)
  PROVE  IInv'
<1> USE DEF Bounds
<1>1. /\ IInv /\ Rolled(r, n, killed, d) /\ Retires(n) /\ AllAdvance(r, issued, b)
      /\ Entries(issued, killed, wakeupsOf(delivered), dq)
      /\ right' = (right \ allocated) \cup wakeupsOf(delivered) /\ right' = readyTable'
  BY DEF Edge
<1>2. /\ Issues(ks, p1, acc, wakeupsOf(delivered)) /\ issued = ks \cup p1 \cup acc
      /\ IntegerUnits(ks, p1, killed) /\ MemoryUnit(acc, killed)
  BY DEF Executes
<1>3. UnitsThen(ks, p1, acc)
  BY <1>1, <1>2, UnitsAfter
<1>4. UnitsOK'
  BY <1>1, <1>3, UnitsKept
<1>5. ApartOK'
  BY <1>1, <1>2, <1>3, ApartKept
<1>6. QueueOK' /\ WakeupsMatchRegisterFile' /\ RegsOK'
  BY QueueKept, WakeupsKept, RegsKept
<1>7. PlacesOK'
  BY <1>2, PlacesKept
<1>8. TypeOK'
  <2>1. robHead' \in Tags
    BY <1>1 DEF Rolled
  <2>2. \A i \in 1..Len(rob') : rob'[i].state \in {"iq", "issued", "done", "exception"}
    <3>1. \A i \in 1..Len(rob') : rob'[i] \in RobType
      BY SMTT(60)
    <3> QED
      BY <3>1 DEF RobType
  <2>3. Unit(primary') /\ Unit(secondary') /\ Unit(memory') /\ loads' \subseteq Completions
    BY <1>2 DEF IntegerUnits, MemoryUnit
  <2>4. right' \subseteq Regs
    <3>1. right \subseteq Regs
      BY <1>1 DEF IInv, Types, TypeOK
    <3> QED
      BY <1>1, <3>1, WakeupsAreRegs
  <2>5. readyTable' \subseteq Regs /\ committed' \subseteq Regs
    BY <1>1, <1>6, <2>4 DEF RegsOK
  <2> QED
    BY <2>1, <2>2, <2>3, <2>4, <2>5 DEF TypeOK, Unit, Tags, Completions, None
<1>9. Types'
  BY <1>1, <1>8 DEF Types, Entries, RobType, IqType, RegsOr0, Tags
<1> QED
  BY <1>4, <1>5, <1>6, <1>7, <1>9 DEF IInv

\* The part of a clock that renames and dispatches g and retires n uops.
Dispatches(g, os, n, issued, r, w) ==
    /\ RegisterFile(delivered, {os[l].dest : l \in 1..Len(g)} \ {0})
    /\ iq' = NextQueue(iq, issued, {}, w, Dispatched(g, os, w))
    /\ rob' = SubSeq(r, n + 1, Len(rob)) \o [l \in 1..Len(g) |-> robEntry(g[l], os[l])]
    /\ robHead' = (robHead + n) % RobDepth
    /\ committed' = ((committed \cup {rob[i].dest : i \in 1..n})
                       \ {rob[i].old : i \in 1..n}) \ {0}

\* What the issue queue offers in a clock with the wakeups w.
Selected(w, p0, p1, fb) ==
    /\ w = wakeupsOf(delivered) /\ p0 = port0(iq, w) /\ p1 = port1(iq, w) /\ fb = fallback(iq, w)

\* A clock without a trap or a recovery keeps the invariant.
LEMMA ClockKeeps ==
  ASSUME Ranking, IInv, NEW w, NEW p0, NEW p1, NEW fb, Selected(w, p0, p1, fb),
         NEW m \in MemoryAnswers(p0), Clock(delivered, p0, p1, fb, m)
  PROVE  IInv'
<1> USE DEF Selected
<1>1. PICK v \in {wakeupsOf(delivered)}, good \in {rightNow(delivered)},
           issued \in {issuedPositions(p0, p1, fb, m)} :
      \E e \in {Completed(Issued(rob, issued), delivered)} :
        /\ ~trapValid
        /\ Units(p0, p1, fb, m, good, {})
        /\ cacheFallback' = m.retry /\ filter' = {}
        /\ \E answer \in LsuAnswers(m, {}) : Lsu(m, answer, good, {})
        /\ \E g \in Groups \cup {<<>>} :
            accepts(g) /\ \E os \in GroupRenamings(g), n \in RetireCounts :
                             Dispatches(g, os, n, issued, e, v)
  BY DEF Clock, Dispatches
<1>2. PICK r \in {Completed(Issued(rob, issued), delivered)} :
        /\ Units(p0, p1, fb, m, good, {})
        /\ cacheFallback' = m.retry /\ filter' = {}
        /\ \E answer \in LsuAnswers(m, {}) : Lsu(m, answer, good, {})
        /\ \E g \in Groups \cup {<<>>} :
            accepts(g) /\ \E os \in GroupRenamings(g), n \in RetireCounts :
                             Dispatches(g, os, n, issued, r, v)
  BY <1>1
<1>3. PICK answer \in LsuAnswers(m, {}) : Lsu(m, answer, good, {})
  BY <1>2
<1>4. PICK g \in Groups \cup {<<>>} :
        accepts(g) /\ \E os \in GroupRenamings(g), n \in RetireCounts :
                         Dispatches(g, os, n, issued, r, v)
  BY <1>2
<1>40. PICK os \in GroupRenamings(g), n \in RetireCounts : Dispatches(g, os, n, issued, r, v)
  BY <1>4
<1>41. v = w /\ accepts(g)
  BY <1>1, <1>4
<1>5. /\ RegisterFile(delivered, {os[l].dest : l \in 1..Len(g)} \ {0})
      /\ iq' = NextQueue(iq, issued, {}, w, Dispatched(g, os, w))
      /\ rob' = SubSeq(r, n + 1, Len(rob)) \o [l \in 1..Len(g) |-> robEntry(g[l], os[l])]
      /\ robHead' = (robHead + n) % RobDepth
      /\ committed' = ((committed \cup {rob[i].dest : i \in 1..n})
                         \ {rob[i].old : i \in 1..n}) \ {0}
  BY <1>40, <1>41 DEF Dispatches
<1>6. PICK d : d = [l \in 1..Len(g) |-> robEntry(g[l], os[l])]
  OBVIOUS
<1>7. PICK dq : dq = Dispatched(g, os, w)
  OBVIOUS
<1>8. PICK allocated : allocated = {os[l].dest : l \in 1..Len(g)} \ {0}
  OBVIOUS
<1>9. PICK ks : ks = IF pReady THEN primaryIssue(p0, fb, m) ELSE {}
  OBVIOUS
<1>10. Types /\ QueueOK /\ UnitsOK /\ ApartOK /\ right = readyTable /\ right \subseteq Regs
  BY DEF IInv, RegsOK, Types, TypeOK
<1>11. good = rightNow(delivered) /\ issued = issuedPositions(p0, p1, fb, m)
  BY <1>1
<1>12. /\ Executes(ks, p1, m.accepted, issued, {})
       /\ m.retry \in {None} \cup {<<t>> : t \in Tags}
  BY <1>2, <1>3, <1>9, <1>11, ExecuteStep
<1>13. GroupOf(g, os)
  BY <1>4, <1>5, GroupIs
<1>14. /\ Lanes(d, dq, allocated, w) /\ d \in Seq(RobType) /\ dq \in Seq(IqType)
       /\ Len(d) = Len(g) /\ Len(dq) = Len(g) /\ Tagged(dq)
       /\ \A l \in 1..Len(dq) : ~Live(dq[l].tag)
  <2>1. Types
    BY <1>10
  <2>2. Presented(g, os, w, d, dq, allocated)
    BY <1>6, <1>7, <1>8 DEF Presented
  <2>3. Lanes(d, dq, allocated, w) /\ Fresh(g, d, dq)
    BY <1>13, <1>41, <2>1, <2>2, DispatchIs
  <2> QED
    BY <2>3 DEF Fresh
<1>15. Updated(r, issued, delivered)
  <2>1. Updated(Completed(Issued(rob, issued), delivered), issued, delivered)
    BY <1>10, UpdatedIs
  <2>2. r = Completed(Issued(rob, issued), delivered)
    BY <1>2
  <2> QED
    BY <2>1, <2>2
<1>16. issued \in SUBSET (1..Len(iq))
  BY <1>12 DEF Executes, Issues
<1>17. AllAdvance(r, issued, {})
  BY <1>15, <1>16, UopAdvances DEF AllAdvance
<1>18. n \in Nat /\ n <= Len(rob) /\ Retires(n) /\ CommitsTo(n)
  BY <1>5, <1>10, RetirementIs
<1>19. /\ Rolled(r, n, {}, d) /\ rob' \in Seq(RobType) /\ Len(rob') <= RobDepth
  <2>1. r \in Seq(RobType) /\ Len(r) = Len(rob)
    BY <1>15 DEF Updated
  <2>2. Len(rob) + Len(d) <= RobDepth
    BY <1>4, <1>14 DEF accepts
  <2>3. rob' = SubSeq(r, n + 1, Len(rob)) \o d /\ robHead' = (robHead + n) % RobDepth
    BY <1>5, <1>6
  <2> QED
    BY <1>10, <1>14, <1>18, <2>1, <2>2, <2>3, ClockRolls
<1>20. Entries(issued, {}, w, dq) /\ Len(iq') <= Len(iq) + Len(dq)
  <2>1. iq' = NextQueue(iq, issued, {}, w, dq)
    BY <1>5, <1>7
  <2> QED
    BY <1>10, <1>14, <2>1, EntriesAre
<1>21. right' = (right \ allocated) \cup w /\ right' = readyTable'
  <2>1. AllRight(delivered)
    BY <1>10, DeliveredIs DEF Given, AllRight
  <2>2. RegisterFile(delivered, allocated) /\ 0 \notin allocated
    BY <1>5, <1>8
  <2> QED
    BY <1>10, <2>1, <2>2, RegistersAre
<1>22. Edge(r, n, {}, issued, {}, d, dq, allocated)
  BY <1>14, <1>17, <1>18, <1>19, <1>20, <1>21 DEF Edge
<1>23. Len(iq') <= IqDepth
  <2>1. Len(iq) + Len(dq) <= IqDepth
    BY <1>4, <1>14 DEF accepts
  <2>2. iq' \in Seq(IqType) /\ Len(iq) \in Nat /\ dq \in Seq(IqType) /\ IqDepth \in Nat
    BY <1>10, <1>14, <1>20, Parts, ExecuteAssumption DEF Entries
  <2> QED
    BY <1>20, <2>1, <2>2, SMTT(60)
<1>24. Branches({}, p1) /\ Bounds({})
  BY <1>2, <1>12, <1>19, <1>23 DEF Branches, Bounds
<1> QED
  BY <1>12, <1>22, <1>24, EdgeKeeps

--------------------------------------------------------------------------------
(* A clock that recovers.                                                      *)

\* The ROB is cut behind the branch, and what is cut off is what is killed.
CutAt(place, e, r, killed) ==
    /\ killed = {TagAt(i) : i \in (place + 1)..Len(rob)}
    /\ r = [e EXCEPT ![place].state = "done"]
    /\ rob' = [SubSeq(e, 1, place) EXCEPT ![place].state = "done"] /\ robHead' = robHead

\* The uops up to the branch stay where they are.
LEMMA RecoverRolls ==
  ASSUME Types, NEW e \in Seq(RobType), Len(e) = Len(rob), NEW place \in 1..Len(rob),
         NEW killed, NEW r, CutAt(place, e, r, killed)
  PROVE  /\ Rolled(r, 0, killed, <<>>) /\ killed \subseteq Tags
         /\ rob' \in Seq(RobType) /\ Len(rob') <= RobDepth
<1> DEFINE L == Len(rob)
           s == SubSeq(e, 1, place)
<1> USE DEF CutAt
<1>1. /\ L \in Nat /\ L <= RobDepth /\ RobDepth \in Nat /\ robHead \in Tags /\ place \in Nat
      /\ place <= L /\ place >= 1
  <2>1. L \in Nat /\ L <= RobDepth /\ RobDepth \in Nat /\ robHead \in Tags
    BY Parts
  <2> QED
    BY <2>1, SMTT(60)
<1>2. \A t \in Tags : PlaceOf(t) \in 1..RobDepth /\ TagAt(PlaceOf(t)) = t
  BY Parts
<1>3. \A i \in 1..RobDepth : TagAt(i) \in Tags /\ PlaceOf(TagAt(i)) = i
  BY Parts
<1>4. \A t \in Tags : PlaceOf(t)' = PlaceOf(t)
  BY DEF PlaceOf
<1>5. s \in Seq(RobType) /\ Len(s) = place /\ \A i \in 1..place : s[i] = e[i]
  BY <1>1, SMTT(60)
<1>6. /\ rob' \in Seq(RobType) /\ Len(rob') = place
      /\ \A i \in 1..place : rob'[i] = r[i]
  <2>1. \A x \in RobType : [x EXCEPT !.state = "done"] \in RobType
    BY DEF RobType
  <2>2. s[place] \in RobType /\ DOMAIN s = 1..place /\ e[place] \in RobType /\ DOMAIN e = 1..L
    BY <1>1, <1>5, SMTT(60)
  <2>3. PICK x : x = [s[place] EXCEPT !.state = "done"]
    OBVIOUS
  <2>4. x \in RobType /\ x = [e[place] EXCEPT !.state = "done"] /\ place \in 1..place
    <3>1. place \in 1..place
      BY <1>1, SMTT(60)
    <3> QED
      BY <1>5, <2>1, <2>2, <2>3, <3>1
  <2>5. rob' = [s EXCEPT ![place] = x] /\ r = [e EXCEPT ![place] = x]
    BY <2>3, <2>4
  <2> HIDE DEF s
  <2>6. rob' \in Seq(RobType) /\ Len(rob') = place
    <3>1. place \in 1..Len(s)
      BY <1>5, <2>4
    <3>2. s \in Seq(RobType) /\ x \in RobType
      BY <1>5, <2>4
    <3>3. [s EXCEPT ![place] = x] \in Seq(RobType) /\ Len([s EXCEPT ![place] = x]) = Len(s)
      BY <3>1, <3>2, SMTT(60)
    <3> QED
      BY <1>5, <2>5, <3>3
  <2>7. ASSUME NEW i \in 1..place PROVE rob'[i] = r[i]
    <3>1. i \in 1..L
      BY <1>1, SMTT(60)
    <3> QED
      BY <1>5, <2>2, <2>4, <2>5, <3>1
  <2> QED
    BY <2>6, <2>7
<1>7. \A t \in Tags : Live(t)' <=> PlaceOf(t) <= place
  BY <1>4, <1>6 DEF Live
<1>8. \A t \in Tags : Live(t) <=> PlaceOf(t) <= L
  BY DEF Live
<1>9. \A t \in Tags : t \in killed <=> PlaceOf(t) > place /\ PlaceOf(t) <= L
  <2>1. ASSUME NEW t \in Tags, t \in killed PROVE PlaceOf(t) > place /\ PlaceOf(t) <= L
    <3>1. PICK i \in (place + 1)..L : t = TagAt(i)
      BY <2>1
    <3>2. i \in 1..RobDepth /\ i > place /\ i <= L
      BY <1>1, SMTT(60)
    <3> QED
      BY <1>3, <3>1, <3>2
  <2>2. ASSUME NEW t \in Tags, PlaceOf(t) > place, PlaceOf(t) <= L PROVE t \in killed
    <3>1. PlaceOf(t) \in (place + 1)..L
      BY <1>1, <1>2, <2>2, SMTT(60)
    <3> QED
      BY <1>2, <3>1
  <2> QED
    BY <2>1, <2>2
<1>10. \A t \in killed : t \in Tags
  <2>1. SUFFICES ASSUME NEW i \in (place + 1)..L PROVE TagAt(i) \in Tags
    OBVIOUS
  <2>2. i \in 1..RobDepth
    BY <1>1, SMTT(60)
  <2> QED
    BY <1>3, <2>2
<1>11. \A t \in Tags : Stays(t, 0, killed) <=> PlaceOf(t) <= place
  <2>1. SUFFICES ASSUME NEW t \in Tags PROVE Stays(t, 0, killed) <=> PlaceOf(t) <= place
    BY SMTT(60)
  <2>2. PICK i : i = PlaceOf(t)
    OBVIOUS
  <2>3. i \in 1..RobDepth
    BY <1>2, <2>2
  <2>4. i <= L /\ i > 0 /\ ~(i > place /\ i <= L) <=> i <= place
    BY <1>1, <2>3, SMTT(60)
  <2> QED
    BY <1>8, <1>9, <2>2, <2>4 DEF Stays
<1>12. ASSUME NEW t \in Tags, Stays(t, 0, killed) PROVE Survives(t, r, 0)
  <2>1. PICK i : i = PlaceOf(t)
    OBVIOUS
  <2>2. i \in 1..place /\ i - 0 = i
    BY <1>1, <1>2, <1>11, <1>12, <2>1, SMTT(60)
  <2> QED
    BY <1>4, <1>6, <1>7, <1>11, <1>12, <2>1, <2>2 DEF Survives, Uop
<1>13. \A t \in killed : t \in Tags /\ Live(t) /\ ~Live(t)'
  <2>1. ASSUME NEW t \in Tags, PlaceOf(t) > place PROVE ~(PlaceOf(t) <= place)
    <3>1. PICK i : i = PlaceOf(t)
      OBVIOUS
    <3>2. i \in 1..RobDepth
      BY <1>2, <3>1
    <3> QED
      BY <1>1, <2>1, <3>1, <3>2, SMTT(60)
  <2> QED
    BY <1>7, <1>8, <1>9, <1>10, <2>1
<1>14. ASSUME NEW t \in killed, NEW u \in Tags, Live(u), u \notin killed
       PROVE  PlaceOf(u) < PlaceOf(t)
  <2>1. PlaceOf(t) \in 1..RobDepth /\ PlaceOf(u) \in 1..RobDepth
    BY <1>2, <1>10
  <2>2. PlaceOf(t) > place /\ ~(PlaceOf(u) > place /\ PlaceOf(u) <= L) /\ PlaceOf(u) <= L
    BY <1>8, <1>9, <1>10, <1>14
  <2> QED
    BY <1>1, <2>1, <2>2, SMTT(60)
<1>15. \A l \in 1..Len(<<>>) : FALSE
  BY SMTT(60)
<1>16. Len(rob') <= RobDepth
  BY <1>1, <1>6, SMTT(60)
<1>17. Rolled(r, 0, killed, <<>>)
  BY <1>1, <1>7, <1>11, <1>12, <1>13, <1>14, <1>15 DEF Rolled
<1> QED
  BY <1>6, <1>10, <1>16, <1>17

\* The branch that recovers leaves the issue queue already complete.
LEMMA BranchAdvances ==
  ASSUME IInv, NEW issued \in SUBSET (1..Len(iq)), NEW e, Updated(e, issued, delivered),
         NEW k \in issued, NEW t0, t0 = iq[k].tag,
         NEW r, r = [e EXCEPT ![PlaceOf(t0)].state = "done"]
  PROVE  AllAdvance(r, issued, {t0})
<1>0. Types /\ UnitsOK /\ ApartOK /\ QueueOK
  BY DEF IInv
<1>1. e \in Seq(RobType) /\ Len(e) = Len(rob) /\ DOMAIN e = 1..Len(rob)
  <2>1. e \in Seq(RobType) /\ Len(e) = Len(rob)
    BY DEF Updated
  <2> QED
    BY <2>1, SMTT(60)
<1>2. k \in 1..Len(iq) /\ t0 \in Tags /\ Live(t0) /\ Uop(t0).state = "iq"
  BY <1>0, Parts DEF QueueOK, Queued
<1>3. SUFFICES ASSUME NEW t \in Tags, Live(t)
      PROVE  Advances(r[PlaceOf(t)], t, issued, {t0}, delivered)
  BY DEF AllAdvance
<1>4. Advances(e[PlaceOf(t)], t, issued, {}, delivered)
  BY <1>3, UopAdvances
<1>5. PlaceOf(t) \in 1..Len(rob) /\ PlaceOf(t0) \in 1..Len(rob)
  BY <1>0, <1>2, <1>3, LivePlace
<1>6. CASE t # t0
  <2>1. PlaceOf(t) # PlaceOf(t0)
    BY <1>0, <1>2, <1>3, <1>6, Parts
  <2>2. r[PlaceOf(t)] = e[PlaceOf(t)]
    BY <1>1, <1>5, <2>1
  <2>3. PICK y : y = e[PlaceOf(t)]
    OBVIOUS
  <2>4. Advances(y, t, issued, {}, delivered) /\ t \notin {} /\ t \notin {t0}
    BY <1>4, <1>6, <2>3
  <2>5. Advances(y, t, issued, {t0}, delivered)
    BY <2>4 DEF Advances
  <2> QED
    BY <2>2, <2>3, <2>5
<1>7. CASE t = t0
  <2>1. PICK x : x = e[PlaceOf(t)]
    OBVIOUS
  <2>2. PICK y : y = r[PlaceOf(t)]
    OBVIOUS
  <2>3. x \in RobType
    BY <1>1, <1>5, <2>1, SMTT(60)
  <2>4. y = [x EXCEPT !.state = "done"]
    BY <1>1, <1>5, <1>7, <2>1, <2>2
  <2>5. y.state = "done" /\ y.dest = x.dest /\ y.old = x.old /\ y.isBranch = x.isBranch
    BY <2>3, <2>4 DEF RobType
  <2>6. \A j \in 1..Len(iq) : iq[j].tag = t => j \in issued
    BY <1>0, <1>2, <1>7 DEF QueueOK
  <2>7. ~(~pReady /\ primary[1].tag = t)
    BY <1>0, <1>2, <1>7, DeliveredIs DEF Held
  <2>8. \A l \in loads : l.tag # t
    BY <1>0, <1>2, <1>7 DEF Held, UnitsOK
  <2>9. "done" # "iq" /\ "done" # "issued"
    BY SMTT(60)
  <2>10. y.dest = Uop(t).dest /\ y.old = Uop(t).old /\ y.isBranch = Uop(t).isBranch
    BY <1>4, <2>1, <2>5 DEF Advances
  <2>11. t \in {t0}
    BY <1>7
  <2>12. Advances(y, t, issued, {t0}, delivered)
    BY <2>5, <2>6, <2>7, <2>8, <2>9, <2>10, <2>11 DEF Advances
  <2> QED
    BY <2>2, <2>12
<1> QED
  BY <1>6, <1>7

\* The part of such a clock that the branch at the given place decides.
Recovers(p0, p1, fb, m, w, good, issued, e, place, killed) ==
    /\ Units(p0, p1, fb, m, good, killed)
    /\ cacheFallback' = None /\ filter' = killed
    /\ iq' = survivors(issued, killed, w)
    /\ rob' = [SubSeq(e, 1, place) EXCEPT ![place].state = "done"]
    /\ \E answer \in LsuAnswers(m, killed) : Lsu(m, answer, good, killed)

\* A clock with a recovery keeps the invariant.
LEMMA RecoverKeeps ==
  ASSUME Ranking, IInv, NEW w, NEW p0, NEW p1, NEW fb, Selected(w, p0, p1, fb),
         NEW m \in MemoryAnswers(p0), Recover(delivered, p0, p1, fb, m)
  PROVE  IInv'
<1> USE DEF Selected
<1>1. PICK v \in {wakeupsOf(delivered)}, good \in {rightNow(delivered)},
           issued \in {issuedPositions(p0, p1, fb, m)} :
      \E x \in {Completed(Issued(rob, issued), delivered)} :
        /\ ~trapValid
        /\ \E k \in branchResolved(issued) :
            \E place \in {PlaceOf(iq[k].tag)} :
            \E killed \in {{TagAt(i) : i \in (place + 1)..Len(rob)}} :
                Recovers(p0, p1, fb, m, v, good, issued, x, place, killed)
        /\ \E ps \in AbandonedDests : RegisterFile(delivered, ps)
        /\ UNCHANGED <<robHead, committed>>
  BY DEF Recover, Recovers
<1>2. PICK e \in {Completed(Issued(rob, issued), delivered)} :
        /\ \E k \in branchResolved(issued) :
            \E place \in {PlaceOf(iq[k].tag)} :
            \E killed \in {{TagAt(i) : i \in (place + 1)..Len(rob)}} :
                Recovers(p0, p1, fb, m, v, good, issued, e, place, killed)
        /\ \E ps \in AbandonedDests : RegisterFile(delivered, ps)
        /\ UNCHANGED <<robHead, committed>>
  BY <1>1
<1>3. PICK k \in branchResolved(issued) :
            \E place \in {PlaceOf(iq[k].tag)} :
            \E killed \in {{TagAt(i) : i \in (place + 1)..Len(rob)}} :
                Recovers(p0, p1, fb, m, v, good, issued, e, place, killed)
  BY <1>2
<1>4. PICK place \in {PlaceOf(iq[k].tag)} :
            \E killed \in {{TagAt(i) : i \in (place + 1)..Len(rob)}} :
                Recovers(p0, p1, fb, m, v, good, issued, e, place, killed)
  BY <1>3
<1>5. PICK killed \in {{TagAt(i) : i \in (place + 1)..Len(rob)}} :
                Recovers(p0, p1, fb, m, v, good, issued, e, place, killed)
  BY <1>4
<1>6. PICK ps \in AbandonedDests : RegisterFile(delivered, ps)
  BY <1>2
<1>7. PICK t0 : t0 = iq[k].tag
  OBVIOUS
<1>8. PICK r : r = [e EXCEPT ![place].state = "done"]
  OBVIOUS
<1>9. PICK ks : ks = IF pReady THEN primaryIssue(p0, fb, m) ELSE {}
  OBVIOUS
<1>10. Types /\ QueueOK /\ UnitsOK /\ ApartOK /\ right = readyTable /\ right \subseteq Regs
  BY DEF IInv, RegsOK, Types, TypeOK
<1>11. /\ v = w /\ good = rightNow(delivered) /\ issued = issuedPositions(p0, p1, fb, m)
       /\ e = Completed(Issued(rob, issued), delivered)
       /\ place = PlaceOf(t0) /\ killed = {TagAt(i) : i \in (place + 1)..Len(rob)}
       /\ robHead' = robHead /\ committed' = committed
  BY <1>1, <1>2, <1>4, <1>5, <1>7
<1>12. /\ Units(p0, p1, fb, m, good, killed) /\ cacheFallback' = None /\ filter' = killed
       /\ iq' = survivors(issued, killed, w)
       /\ rob' = [SubSeq(e, 1, place) EXCEPT ![place].state = "done"]
       /\ \E answer \in LsuAnswers(m, killed) : Lsu(m, answer, good, killed)
  BY <1>5, <1>11 DEF Recovers
<1>13. PICK answer \in LsuAnswers(m, killed) : Lsu(m, answer, good, killed)
  BY <1>12
<1>14. Executes(ks, p1, m.accepted, issued, killed)
  BY <1>9, <1>11, <1>12, <1>13, ExecuteStep
<1>15. issued \in SUBSET (1..Len(iq)) /\ Issues(ks, p1, m.accepted, w)
       /\ issued = ks \cup p1 \cup m.accepted
  BY <1>14 DEF Executes, Issues
<1>16. k \in issued /\ iq[k].fuClass = "FU_BRANCH" /\ ~iq[k].exception
  BY <1>3 DEF branchResolved
<1>17. k \in p1 /\ k \in 1..Len(iq)
  BY <1>15, <1>16 DEF Issues
<1>18. Branches({t0}, p1)
  <2>1. \A j \in 1..Len(iq) : iq[j].tag = t0 => j = k
    BY <1>7, <1>10, <1>17 DEF QueueOK
  <2> QED
    BY <1>7, <1>16, <1>17, <2>1 DEF Branches
<1>19. Updated(e, issued, delivered)
  <2>1. Updated(Completed(Issued(rob, issued), delivered), issued, delivered)
    BY <1>10, UpdatedIs
  <2> QED
    BY <1>11, <2>1
<1>20. AllAdvance(r, issued, {t0})
  <2>1. r = [e EXCEPT ![PlaceOf(t0)].state = "done"]
    BY <1>8, <1>11
  <2> QED
    BY <1>7, <1>15, <1>16, <1>19, <2>1, BranchAdvances
<1>21. /\ Rolled(r, 0, killed, <<>>) /\ killed \subseteq Tags
       /\ rob' \in Seq(RobType) /\ Len(rob') <= RobDepth
  <2>1. e \in Seq(RobType) /\ Len(e) = Len(rob)
    BY <1>19 DEF Updated
  <2>2. place \in 1..Len(rob)
    <3>1. t0 \in Tags /\ Live(t0)
      BY <1>7, <1>10, <1>17, Parts DEF QueueOK, Queued
    <3> QED
      BY <1>10, <1>11, <3>1, LivePlace
  <2>3. CutAt(place, e, r, killed)
    BY <1>8, <1>11, <1>12 DEF CutAt
  <2> QED
    BY <1>10, <2>1, <2>2, <2>3, RecoverRolls
<1>22. <<>> \in Seq(IqType) /\ Len(<<>>) = 0 /\ \A l \in 1..Len(<<>>) : FALSE
  BY SMTT(60)
<1>23. Entries(issued, killed, w, <<>>) /\ Len(iq') <= Len(iq) + Len(<<>>)
  <2>1. iq' = NextQueue(iq, issued, killed, w, <<>>)
    BY <1>12 DEF survivors
  <2>2. Tagged(<<>>)
    BY <1>22 DEF Tagged
  <2>3. PICK dq : dq = <<>>
    OBVIOUS
  <2>4. /\ dq \in Seq(IqType) /\ Tagged(dq) /\ iq' = NextQueue(iq, issued, killed, w, dq)
        /\ \A l \in 1..Len(dq) : ~Live(dq[l].tag)
    BY <1>22, <2>1, <2>2, <2>3
  <2>5. Entries(issued, killed, w, dq) /\ Len(iq') <= Len(iq) + Len(dq)
    BY <1>10, <2>4, EntriesAre
  <2> QED
    BY <2>3, <2>5
<1>24. Len(iq') <= IqDepth
  <2>1. iq' \in Seq(IqType) /\ Len(iq) \in Nat /\ IqDepth \in Nat /\ Len(iq) <= IqDepth
    BY <1>10, <1>23, Parts, ExecuteAssumption DEF Entries
  <2> QED
    BY <1>22, <1>23, <2>1, SMTT(60)
<1>25. ps \subseteq freeRegs /\ 0 \notin ps
  <2>1. freeRegs \subseteq Regs /\ 0 \notin Regs
    BY ExecuteAssumption DEF freeRegs
  <2> QED
    BY <1>6, <2>1 DEF AbandonedDests
<1>26. right' = (right \ ps) \cup w /\ right' = readyTable'
  <2>1. AllRight(delivered)
    BY <1>10, DeliveredIs DEF Given, AllRight
  <2> QED
    BY <1>6, <1>10, <1>25, <2>1, RegistersAre
<1>27. \A t \in Tags : PlaceOf(t) > 0
  <2>1. \A t \in Tags : PlaceOf(t) \in 1..RobDepth
    BY <1>10, Parts
  <2> QED
    BY <2>1, ExecuteAssumption, SMTT(60)
<1>28. Retires(0) /\ CommitsTo(0)
  <2>1. 0 \notin committed
    BY <1>10, ExecuteAssumption DEF IInv, RegsOK
  <2> QED
    BY <1>11, <1>27, <2>1 DEF Retires, CommitsTo
<1>29. Lanes(<<>>, <<>>, ps, w) /\ 0 \in Nat /\ 0 <= Len(rob) /\ ~(Len(<<>>) > 0)
  <2>1. 0 \in Nat /\ ~(0 > 0)
    BY SMTT(60)
  <2>2. Len(rob) \in Nat
    BY <1>10, Parts
  <2>3. 0 <= Len(rob)
    BY <2>2, SMTT(60)
  <2> QED
    BY <1>22, <1>25, <2>1, <2>3 DEF Lanes
<1>30. Edge(r, 0, killed, issued, {t0}, <<>>, <<>>, ps)
  BY <1>20, <1>21, <1>23, <1>26, <1>28, <1>29 DEF Edge
<1>31. Bounds(killed)
  BY <1>12, <1>21, <1>24 DEF Bounds
<1> QED
  BY <1>14, <1>18, <1>30, <1>31, EdgeKeeps

--------------------------------------------------------------------------------
(* Nothing is in flight at reset and after a trap.                             *)

Idle ==
    /\ rob = <<>> /\ robHead = 0 /\ iq = <<>>
    /\ primary = None /\ secondary = None /\ memory = None
    /\ loads = {} /\ cacheFallback = None /\ filter = {}
    /\ right = readyTable /\ right \subseteq Regs /\ committed \subseteq right

\* A machine with nothing in flight satisfies the invariant.
LEMMA IdleIsOK == Idle => IInv
<1>1. SUFFICES ASSUME Idle PROVE IInv
  BY SMTT(60)
<1>2. 0 \in Tags
  BY ExecuteAssumption, SMTT(60) DEF Tags
<1>3. /\ Len(rob) = 0 /\ Len(iq) = 0 /\ rob \in Seq(RobType) /\ iq \in Seq(IqType)
      /\ 0 <= RobDepth /\ 0 <= IqDepth
  <2>1. rob = <<>> /\ iq = <<>>
    BY <1>1 DEF Idle
  <2> QED
    BY <2>1, ExecuteAssumption, SMTT(60)
<1>4. \A i \in 1..0 : FALSE
  BY SMTT(60)
<1>5. TypeOK
  BY <1>1, <1>2, <1>3, <1>4 DEF Idle, TypeOK
<1>6. Types
  BY <1>3, <1>5 DEF Types
<1>7. \A t \in Tags : ~Live(t)
  <2>1. SUFFICES ASSUME NEW t \in Tags PROVE ~Live(t)
    BY SMTT(60)
  <2>2. PICK i : i = PlaceOf(t)
    OBVIOUS
  <2>3. i \in 1..RobDepth /\ RobDepth \in Nat
    BY <1>6, <2>2, Parts
  <2>4. ~(i <= 0)
    BY <2>3, SMTT(60)
  <2> QED
    BY <1>3, <2>2, <2>4 DEF Live
<1>8. RegsOK /\ PlacesOK
  BY <1>1, <1>7 DEF Idle, RegsOK, PlacesOK
<1>9. QueueOK /\ WakeupsMatchRegisterFile
  BY <1>3, <1>4 DEF QueueOK, WakeupsMatchRegisterFile
<1>10. Of(primary) = {} /\ Of(secondary) = {} /\ Of(memory) = {} /\ loads = {} /\ filter = {}
  BY <1>1 DEF Idle, Of
<1>11. UnitsOK /\ ApartOK
  BY <1>10 DEF UnitsOK, ApartOK
<1> QED
  BY <1>6, <1>8, <1>9, <1>11 DEF IInv

\* Reset establishes the invariant.
LEMMA InitKeeps == Init => IInv
<1>1. Init => Idle
  BY DEF Init, Idle
<1> QED
  BY <1>1, IdleIsOK

\* A trap keeps the invariant.
LEMMA TrapKeeps ==
  ASSUME IInv, Trap
  PROVE  IInv'
<1>1. PICK ps \in AbandonedDests : RegisterFile(delivered, ps)
  BY DEF Trap
<1>2. Types /\ UnitsOK /\ ApartOK /\ right = readyTable /\ right \subseteq Regs /\ committed \subseteq right
  BY DEF IInv, RegsOK, Types, TypeOK
<1>3. ps \subseteq freeRegs /\ 0 \notin ps /\ \A p \in committed : p \notin ps
  <2>1. freeRegs \subseteq Regs /\ 0 \notin Regs /\ \A p \in committed : p \notin freeRegs
    BY ExecuteAssumption DEF freeRegs
  <2> QED
    BY <1>1, <2>1 DEF AbandonedDests
<1>4. right' = (right \ ps) \cup wakeupsOf(delivered) /\ right' = readyTable'
  <2>1. AllRight(delivered)
    BY <1>2, DeliveredIs DEF Given, AllRight
  <2> QED
    BY <1>1, <1>2, <1>3, <2>1, RegistersAre
<1>5. wakeupsOf(delivered) \subseteq Regs
  BY WakeupsAreRegs
<1>6. committed' = committed
  BY DEF Trap
<1>7. right' \subseteq Regs /\ committed' \subseteq right'
  BY <1>2, <1>3, <1>4, <1>5, <1>6
<1>8. Idle'
  BY <1>4, <1>7 DEF Trap, Idle, None
<1> QED
  BY <1>8, IdleIsOK, PTL

\* Every step keeps the invariant.
LEMMA NextKeeps ==
  ASSUME Ranking, IInv, [Next]_vars
  PROVE  IInv'
<1>1. CASE Trap
  BY <1>1, TrapKeeps
<1>2. CASE \E done \in {delivered} : \E w \in {wakeupsOf(done)} :
           \E p0 \in {port0(iq, w)}, p1 \in {port1(iq, w)}, fb \in {fallback(iq, w)} :
               \E m \in MemoryAnswers(p0) :
                   Clock(done, p0, p1, fb, m) \/ Recover(done, p0, p1, fb, m)
  <2>1. PICK done \in {delivered} : \E w \in {wakeupsOf(done)} :
           \E p0 \in {port0(iq, w)}, p1 \in {port1(iq, w)}, fb \in {fallback(iq, w)} :
               \E m \in MemoryAnswers(p0) :
                   Clock(done, p0, p1, fb, m) \/ Recover(done, p0, p1, fb, m)
    BY <1>2
  <2>2. PICK w \in {wakeupsOf(done)} :
           \E p0 \in {port0(iq, w)}, p1 \in {port1(iq, w)}, fb \in {fallback(iq, w)} :
               \E m \in MemoryAnswers(p0) :
                   Clock(done, p0, p1, fb, m) \/ Recover(done, p0, p1, fb, m)
    BY <2>1
  <2>3. PICK p0 \in {port0(iq, w)}, p1 \in {port1(iq, w)}, fb \in {fallback(iq, w)} :
               \E m \in MemoryAnswers(p0) :
                   Clock(done, p0, p1, fb, m) \/ Recover(done, p0, p1, fb, m)
    BY <2>2
  <2>4. PICK m \in MemoryAnswers(p0) : Clock(done, p0, p1, fb, m) \/ Recover(done, p0, p1, fb, m)
    BY <2>3
  <2>5. /\ Selected(w, p0, p1, fb)
        /\ Clock(delivered, p0, p1, fb, m) \/ Recover(delivered, p0, p1, fb, m)
    BY <2>1, <2>2, <2>3, <2>4 DEF Selected
  <2>6. CASE Clock(delivered, p0, p1, fb, m)
    BY <2>5, <2>6, ClockKeeps
  <2>7. CASE Recover(delivered, p0, p1, fb, m)
    BY <2>5, <2>7, RecoverKeeps
  <2> QED
    BY <2>5, <2>6, <2>7
<1>3. CASE UNCHANGED vars
  <2>1. /\ rob' = rob /\ robHead' = robHead /\ iq' = iq /\ primary' = primary
        /\ secondary' = secondary /\ memory' = memory /\ loads' = loads
        /\ cacheFallback' = cacheFallback /\ filter' = filter
        /\ readyTable' = readyTable /\ right' = right /\ committed' = committed
    BY <1>3 DEF vars
  <2>2. Types' /\ WakeupsMatchRegisterFile'
    BY <2>1, SMTT(60) DEF IInv, Types, TypeOK, WakeupsMatchRegisterFile, None, Tags,
       Completions
  <2>8. /\ \A t : Live(t)' = Live(t) /\ PlaceOf(t)' = PlaceOf(t) /\ Uop(t)' = Uop(t)
        /\ RegsOK /\ QueueOK
    BY <2>1 DEF IInv, Live, Uop, PlaceOf
  <2>9. /\ \A p, i : Mapped(p, i)' = Mapped(p, i)
        /\ \A e : Queued(e)' = Queued(e)
    <3>1. \A p, i : Mapped(p, i)' = Mapped(p, i)
      BY <2>1, <2>8 DEF Mapped
    <3> QED
      BY <2>1, <2>8, <3>1 DEF Queued
  <2>3. RegsOK'
    BY <2>1, <2>8, <2>9 DEF RegsOK
  <2>4. QueueOK'
    BY <2>1, <2>8, <2>9 DEF QueueOK
  <2>5. ApartOK'
    BY <2>1, SMTT(60) DEF IInv, ApartOK, Of
  <2>7. UnitsOK'
    <3>1. \A c : Held(c)' = Held(c) /\ HeldBranch(c)' = HeldBranch(c) /\ Dead(c)' = Dead(c)
      BY <2>1 DEF Held, HeldBranch, Holds, Dead, Live, Uop, PlaceOf
    <3>2. \A t : Live(t)' = Live(t)
      BY <2>1 DEF Live, PlaceOf
    <3>3. Of(primary)' = Of(primary) /\ Of(secondary)' = Of(secondary) /\ Of(memory)' = Of(memory)
      BY <2>1 DEF Of
    <3>4. UnitsOK
      BY DEF IInv
    <3> QED
      BY <2>1, <3>1, <3>2, <3>3, <3>4 DEF UnitsOK
  <2>6. PlacesOK'
    BY <2>1, SMTT(60) DEF IInv, PlacesOK, Of, Live, Uop, PlaceOf
  <2> QED
    BY <2>2, <2>3, <2>4, <2>5, <2>6, <2>7 DEF IInv
<1> QED
  BY <1>1, <1>2, <1>3 DEF Next

--------------------------------------------------------------------------------
(* Cardinalities.  Their theorems are brought in only here, where they are      *)
(* needed: the provers meet them in every proof that follows.                   *)

FST == INSTANCE FiniteSetTheorems

\* The theorems speak of the same cardinality.
LEMMA CardinalityIs == ASSUME NEW S PROVE Cardinality(S) = FST!Cardinality(S)
  BY DEF Cardinality, FST!Cardinality

\* A nonempty set of positions has an oldest one.
LEMMA OldestExists ==
  ASSUME NEW ks, ks \subseteq Nat, ks # {}
  PROVE  oldestOf(ks) # {}
<1>1. PICK k \in ks : \A j \in ks : ~(<<j, k>> \in FST!OpToRel(<, Nat))
  BY FST!NatLessThanWellFounded, FST!WFMin
<1>4. \A a, b \in Nat : b < a => <<b, a>> \in FST!OpToRel(<, Nat)
  BY SMTT(60) DEF FST!OpToRel
<1>2. \A j \in ks : ~(j < k)
  BY <1>1, <1>4
<1>3. \A j \in ks : k <= j
  BY <1>2, SMTT(60)
<1> QED
  BY <1>3 DEF oldestOf

\* The ranks of the members of a set of positions.
LEMMA RanksAre ==
  ASSUME NEW n \in Nat, NEW kept \in SUBSET (1..n)
  PROVE  Cardinality(kept) \in Nat /\ Cardinality(kept) <= n /\ Ranked(kept)
<1> DEFINE c == FST!Cardinality(kept)
           low(k) == {j \in kept : j <= k}
           rank == [k \in kept |-> FST!Cardinality(low(k))]
<1>1. FST!IsFiniteSet(1..n) /\ FST!Cardinality(1..n) = n
  <2>1. FST!IsFiniteSet(1..n) /\ FST!Cardinality(1..n) = IF 1 > n THEN 0 ELSE (n - 1) + 1
    BY FST!FS_Interval, SMTT(60)
  <2> QED
    BY <2>1, SMTT(60)
<1>2. FST!IsFiniteSet(kept) /\ c <= n
  BY <1>1, FST!FS_Subset
<1>3. c \in Nat
  BY <1>2, FST!FS_CardinalityType
<1>0. \A i \in kept : i \in Nat
  BY SMTT(60)
<1>4. ASSUME NEW k \in kept PROVE FST!IsFiniteSet(low(k)) /\ FST!Cardinality(low(k)) \in 1..c
  <2>1. low(k) \in SUBSET kept /\ k \in low(k)
    BY <1>0, SMTT(60)
  <2> HIDE DEF low
  <2>2. FST!IsFiniteSet(low(k)) /\ FST!Cardinality(low(k)) <= c
    BY <1>2, <2>1, FST!FS_Subset, SMTT(60)
  <2>3. FST!Cardinality(low(k)) \in Nat /\ FST!Cardinality(low(k)) # 0
    BY <2>1, <2>2, FST!FS_CardinalityType, FST!FS_EmptySet, SMTT(60)
  <2> QED
    BY <1>3, <2>2, <2>3, SMTT(60)
<1>5. ASSUME NEW j \in kept, NEW k \in kept, j < k
      PROVE  FST!Cardinality(low(j)) # FST!Cardinality(low(k))
  <2>0. (\A i \in kept : i <= j => i <= k) /\ k <= k /\ ~(k <= j)
    BY <1>0, <1>5, SMTT(60)
  <2>1. low(j) \in SUBSET low(k) /\ k \in low(k) /\ k \notin low(j)
    BY <2>0
  <2>2. FST!IsFiniteSet(low(k))
    BY <1>4, SMTT(60)
  <2> HIDE DEF low
  <2>3. FST!Cardinality(low(k)) = FST!Cardinality(low(j)) => low(k) = low(j)
    BY <2>1, <2>2, FST!FS_Subset, SMTT(60)
  <2> QED
    BY <2>1, <2>3, SMTT(60)
<1>6. \A j, k \in kept : FST!Cardinality(low(j)) = FST!Cardinality(low(k)) => j = k
  <2> HIDE DEF low
  <2>1. \A j, k \in kept : j = k \/ j < k \/ k < j
    BY SMTT(60)
  <2> QED
    BY <1>5, <2>1
<1>7. rank \in FST!Injection(kept, 1..c)
  <2> HIDE DEF low
  <2>1. rank \in [kept -> 1..c]
    BY <1>4, SMTT(60)
  <2>2. \A j, k \in kept : rank[j] = rank[k] => j = k
    BY <1>6, SMTT(60)
  <2> HIDE DEF rank
  <2>3. DOMAIN rank = kept
    BY <2>1, SMTT(60)
  <2> QED
    BY <2>1, <2>2, <2>3 DEF FST!Injection, FST!IsInjective
<1>8. FST!IsFiniteSet(1..c) /\ FST!Cardinality(1..c) = c
  <2>1. FST!IsFiniteSet(1..c) /\ FST!Cardinality(1..c) = IF 1 > c THEN 0 ELSE (c - 1) + 1
    BY <1>3, FST!FS_Interval, SMTT(60)
  <2> QED
    BY <1>3, <2>1, SMTT(60)
<1>9. rank \in FST!Surjection(kept, 1..c)
  <2> HIDE DEF rank, c
  <2> QED
    BY <1>7, <1>8, FST!FS_Injection DEF c
<1>10. ASSUME NEW m \in 1..c PROVE \E k \in kept : FST!Cardinality(low(k)) = m
  <2> HIDE DEF low
  <2>1. \E k \in kept : rank[k] = m
    BY <1>9 DEF FST!Surjection
  <2> QED
    BY <2>1
<1> HIDE DEF low
<1>11. /\ c \in Nat /\ c <= n /\ \A k \in kept : FST!Cardinality(low(k)) \in 1..c
       /\ \A m \in 1..c : \E k \in kept : FST!Cardinality(low(k)) = m
  BY <1>2, <1>3, <1>4, <1>10
<1>12. c = Cardinality(kept) /\ \A k : FST!Cardinality(low(k)) = Rank(kept, k)
  BY CardinalityIs DEF low, c, Rank
<1> HIDE DEF c
<1> QED
  BY <1>6, <1>11, <1>12 DEF Ranked

\* The facts about sets of positions that the lemmas above assume.
LEMMA Ranks == Ranking
<1>1. \A ks \in SUBSET Nat : ks # {} => oldestOf(ks) # {}
  BY OldestExists
<1>2. \A n \in Nat : \A kept \in SUBSET (1..n) :
        Cardinality(kept) \in Nat /\ Cardinality(kept) <= n /\ Ranked(kept)
  BY RanksAre
<1> QED
  BY <1>1, <1>2 DEF Ranking

--------------------------------------------------------------------------------
(* What the invariant says.                                                    *)

Num(b) == IF b THEN 1 ELSE 0
In(u, t) == \E c \in Of(u) : c.tag = t /\ ~c.dead
InQueue(t) == \E k \in 1..Len(iq) : iq[k].tag = t
InLoads(t) == \E l \in loads : l.tag = t

\* A set of at most one element.
LEMMA FewOf ==
  ASSUME NEW S, \A x, y \in S : x = y
  PROVE  Cardinality(S) = Num(S # {})
<1>1. CASE S = {}
  <2>1. Cardinality({}) = 0
    BY CardinalityIs, FST!FS_EmptySet
  <2> QED
    BY <1>1, <2>1 DEF Num
<1>2. CASE S # {}
  <2>1. PICK x : x \in S
    BY <1>2
  <2>2. S = {x}
    BY <2>1
  <2>3. Cardinality({x}) = 1
    BY CardinalityIs, FST!FS_Singleton
  <2> QED
    BY <1>2, <2>2, <2>3 DEF Num
<1> QED
  BY <1>1, <1>2

\* Every place holds at most one part of a uop, so that Homes counts the places.
LEMMA HomesAre ==
  ASSUME IInv, NEW t \in Tags
  PROVE  Homes(t) = Num(InQueue(t)) + Num(InLoads(t)) + Num(In(primary, t))
                      + Num(In(secondary, t)) + Num(In(memory, t))
<1>1. Types /\ QueueOK /\ UnitsOK /\ ApartOK
  BY DEF IInv
<1>2. Cardinality({k \in 1..Len(iq) : iq[k].tag = t}) = Num(InQueue(t))
  <2>1. \A j, k \in {i \in 1..Len(iq) : iq[i].tag = t} : j = k
    BY <1>1 DEF QueueOK
  <2>2. Cardinality({k \in 1..Len(iq) : iq[k].tag = t})
          = Num({k \in 1..Len(iq) : iq[k].tag = t} # {})
    BY <2>1, FewOf, SMTT(60)
  <2>3. InQueue(t) = ({k \in 1..Len(iq) : iq[k].tag = t} # {})
    BY DEF InQueue
  <2> QED
    BY <2>2, <2>3
<1>3. Cardinality({l \in loads : l.tag = t}) = Num(InLoads(t))
  <2>1. \A j, k \in {l \in loads : l.tag = t} : j = k
    BY <1>1 DEF ApartOK
  <2>2. Cardinality({l \in loads : l.tag = t}) = Num({l \in loads : l.tag = t} # {})
    BY <2>1, FewOf, SMTT(60)
  <2>3. InLoads(t) = ({l \in loads : l.tag = t} # {})
    BY DEF InLoads
  <2> QED
    BY <2>2, <2>3
<1>4. (IF primary # None /\ primary[1].tag = t /\ ~primary[1].dead THEN 1 ELSE 0) = Num(In(primary, t))
  BY DEF In, Of, Num
<1>5. (IF secondary # None /\ secondary[1].tag = t /\ ~secondary[1].dead THEN 1 ELSE 0)
        = Num(In(secondary, t))
  BY DEF In, Of, Num
<1>6. (IF memory # None /\ memory[1].tag = t THEN 1 ELSE 0) = Num(In(memory, t))
  <2>1. \A c \in Of(memory) : ~c.dead
    BY <1>1 DEF UnitsOK, Held, Holds
  <2> QED
    BY <2>1 DEF In, Of, Num
<1> QED
  BY <1>2, <1>3, <1>4, <1>5, <1>6 DEF Homes

\* A place is taken only by a uop that is live and in the state that goes with it.
LEMMA HomesOf ==
  ASSUME IInv, NEW t \in Tags
  PROVE  /\ InQueue(t) => Live(t) /\ Uop(t).state = "iq"
         /\ InLoads(t) \/ In(primary, t) \/ In(memory, t) => Live(t) /\ Uop(t).state = "issued"
         /\ In(secondary, t) => /\ Live(t)
                                /\ \/ Uop(t).state = "issued"
                                   \/ Uop(t).state = "done" /\ Uop(t).isBranch
         /\ Live(t) /\ secondary # None /\ secondary[1].tag = t => In(secondary, t)
<1>1. QueueOK /\ UnitsOK
  BY DEF IInv
<1>2. InQueue(t) => Live(t) /\ Uop(t).state = "iq"
  BY <1>1 DEF InQueue, QueueOK, Queued
<1>3. InLoads(t) \/ In(primary, t) \/ In(memory, t) => Live(t) /\ Uop(t).state = "issued"
  BY <1>1 DEF InLoads, In, UnitsOK, Held, Holds, Dead
<1>4. In(secondary, t) => Live(t) /\ (Uop(t).state = "issued" \/ (Uop(t).state = "done" /\ Uop(t).isBranch))
  BY <1>1 DEF In, UnitsOK, Held, HeldBranch, Holds, Dead
<1>5. ASSUME Live(t), secondary # None, secondary[1].tag = t PROVE In(secondary, t)
  <2>1. secondary[1] \in Of(secondary)
    BY <1>5 DEF Of
  <2>2. ~secondary[1].dead
    BY <1>1, <1>5, <2>1 DEF UnitsOK, Held, HeldBranch, Holds, Dead
  <2> QED
    BY <1>5, <2>1, <2>2 DEF In
<1> QED
  BY <1>2, <1>3, <1>4, <1>5

\* A uop that waits has one home, any other none, but for a recovered branch.
LEMMA OneHome ==
  ASSUME IInv, NEW t \in Tags
  PROVE  IF Live(t) /\ rob[PlaceOf(t)].state \in {"iq", "issued"} THEN Homes(t) = 1
         ELSE Homes(t) = IF /\ Live(t) /\ rob[PlaceOf(t)].isBranch
                            /\ secondary # None /\ secondary[1].tag = t THEN 1 ELSE 0
<1> DEFINE q == InQueue(t)
           l == InLoads(t)
           p == In(primary, t)
           s == In(secondary, t)
           m == In(memory, t)
           st == Uop(t).state
<1>1. Types /\ PlacesOK /\ UnitsOK /\ ApartOK
  BY DEF IInv
<1>2. /\ q => Live(t) /\ st = "iq"
      /\ l \/ p \/ m => Live(t) /\ st = "issued"
      /\ s => Live(t) /\ (st = "issued" \/ (st = "done" /\ Uop(t).isBranch))
      /\ Live(t) /\ secondary # None /\ secondary[1].tag = t => s
  BY HomesOf
<1>3. s => secondary # None /\ secondary[1].tag = t
  BY DEF In, Of
<1>4. Homes(t) = Num(q) + Num(l) + Num(p) + Num(s) + Num(m)
  BY HomesAre
<1>5. Live(t) /\ st = "iq" => q
  BY <1>1 DEF PlacesOK, InQueue
<1>6. Live(t) /\ st = "issued" => l \/ p \/ s \/ m
  <2>1. SUFFICES ASSUME Live(t), st = "issued" PROVE l \/ p \/ s \/ m
    BY SMTT(60)
  <2>2. PICK c \in Of(primary) \cup Of(secondary) \cup Of(memory) \cup loads : c.tag = t
    BY <1>1, <2>1 DEF PlacesOK
  <2>3. c \in loads \/ ~c.dead
    BY <1>1, <2>1, <2>2 DEF UnitsOK, Held, HeldBranch, Holds, Dead
  <2> QED
    BY <2>2, <2>3 DEF In, InLoads
<1>7. /\ ~(l /\ p) /\ ~(l /\ s) /\ ~(l /\ m) /\ ~(p /\ s) /\ ~(p /\ m) /\ ~(s /\ m)
  BY <1>1 DEF ApartOK, In, InLoads
<1>8. Num(TRUE) = 1 /\ Num(FALSE) = 0 /\ \A b \in BOOLEAN : Num(b) = IF b THEN 1 ELSE 0
  BY DEF Num
<1>9. Uop(t) = rob[PlaceOf(t)] /\ "iq" # "issued" /\ "done" # "iq" /\ "done" # "issued"
  BY DEF Uop
<1> HIDE DEF q, l, p, s, m
<1>10. CASE Live(t) /\ st \in {"iq", "issued"}
  <2>1. CASE st = "iq"
    <3>1. q /\ ~l /\ ~p /\ ~s /\ ~m
      BY <1>2, <1>5, <1>9, <1>10, <2>1
    <3>2. Num(q) = 1 /\ Num(l) = 0 /\ Num(p) = 0 /\ Num(s) = 0 /\ Num(m) = 0
      BY <3>1 DEF Num
    <3>3. Homes(t) = 1
      BY <1>4, <3>2, SMTT(60)
    <3> QED
      BY <1>9, <1>10, <3>3
  <2>2. CASE st = "issued"
    <3>1. ~q
      BY <1>2, <1>9, <2>2
    <3>2. \/ l /\ ~p /\ ~s /\ ~m
          \/ ~l /\ p /\ ~s /\ ~m
          \/ ~l /\ ~p /\ s /\ ~m
          \/ ~l /\ ~p /\ ~s /\ m
      BY <1>6, <1>7, <1>10, <2>2
    <3>3. Homes(t) = 1
      BY <1>4, <3>1, <3>2, SMTT(60) DEF Num
    <3> QED
      BY <1>9, <1>10, <3>3
  <2> QED
    BY <1>10, <2>1, <2>2
<1>11. CASE ~(Live(t) /\ st \in {"iq", "issued"})
  <2>1. ~q /\ ~l /\ ~p /\ ~m
    BY <1>2, <1>11
  <2>2. s <=> Live(t) /\ rob[PlaceOf(t)].isBranch /\ secondary # None /\ secondary[1].tag = t
    BY <1>2, <1>3, <1>9, <1>11
  <2>3. Homes(t) = Num(s)
    BY <1>4, <2>1, SMTT(60) DEF Num
  <2> QED
    BY <1>9, <1>11, <2>2, <2>3 DEF Num
<1> QED
  BY <1>10, <1>11

--------------------------------------------------------------------------------
(* The theorems.                                                               *)

\* The inductive invariant holds for every depth of the queues, every register
\* file and every set of instruction groups.
THEOREM InvariantHolds == Spec => []IInv
<1>1. Init => IInv
  BY InitKeeps, SMTT(60)
<1>2. IInv /\ [Next]_vars => IInv'
  BY Ranks, NextKeeps
<1> QED
  BY <1>1, <1>2, PTL DEF Spec

\* No uop reads an operand before it is written, from the register's previous
\* owner or from a killed uop, whichever of the two issue ports, the fallback or
\* the LSU it goes through; and what Retire commits holds the right value.
THEOREM OperandsAreAlwaysRight == Spec => []OperandsAreRight
<1>1. IInv => OperandsAreRight
  <2>1. SUFFICES ASSUME IInv PROVE OperandsAreRight
    BY SMTT(60)
  <2>2. UnitsOK /\ RegsOK
    BY <2>1 DEF IInv
  <2>3. /\ \A c \in Of(primary) \cup Of(secondary) \cup Of(memory) : c.right \/ c.dead
        /\ \A c \in loads : c.right
    BY <2>2 DEF UnitsOK, Held, HeldBranch, Holds, Dead
  <2>4. \A u \in {primary, secondary, memory} : u # None => u[1].right \/ u[1].dead
    BY <2>3 DEF Of
  <2> QED
    BY <2>2, <2>3, <2>4 DEF OperandsAreRight, RegsOK
<1> QED
  BY <1>1, InvariantHolds, PTL

\* No uop is lost, duplicated or left behind by dispatch, issue, execution, a
\* recovery or a trap, and neither the ROB nor the issue queue overflows.
THEOREM EveryUopAlwaysHasOneHome == Spec => []EveryUopHasOneHome
<1>1. IInv => EveryUopHasOneHome
  <2>1. SUFFICES ASSUME IInv PROVE EveryUopHasOneHome
    BY SMTT(60)
  <2>2. TypeOK
    BY <2>1 DEF IInv, Types
  <2> QED
    BY <2>1, <2>2, OneHome DEF EveryUopHasOneHome
<1> QED
  BY <1>1, InvariantHolds, PTL

\* The ready bits that the issue queue keeps beside each source agree with the
\* register file in every clock: no wakeup is lost and none is spurious.
THEOREM WakeupsAlwaysMatch == Spec => []WakeupsMatchRegisterFile
<1>1. IInv => WakeupsMatchRegisterFile
  BY DEF IInv
<1> QED
  BY <1>1, InvariantHolds, PTL
=============================================================================
