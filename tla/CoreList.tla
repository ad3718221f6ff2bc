------------------------------ MODULE CoreList ------------------------------
(* The linked list of core_list_join.c and its operations.  A heap is the      *)
(* block of list_head and list_data cells: next and info of a header, data16   *)
(* and idx of a data cell.  A pointer is the number of its cell, or NULL.      *)
EXTENDS CoreUtil

NULL == -1

\* The data words of the fake head and tail, 0x8080 and 0xffff.
HeadData == 32896
TailData == 65535
LastIdx == 32767

\* The cells of a list, first to last.  Of at most n cells the first half is
\* followed first, which keeps the recursion shallow.
Chain(h, list) ==
    LET upTo[n \in 0..Cardinality(DOMAIN h.next), c \in DOMAIN h.next \cup {NULL}] ==
            IF c = NULL THEN <<>>
            ELSE IF n = 1 THEN <<c>>
            ELSE LET front == upTo[n \div 2, c]
                 IN  front \o upTo[n - (n \div 2), h.next[front[Len(front)]]]
    IN  upTo[Cardinality(DOMAIN h.next), list]

\* The same cells in the order of a sequence.
linked(h, cells) ==
    [h EXCEPT !.next = [c \in DOMAIN @ |->
        IF \E k \in 1..Len(cells) : cells[k] = c
        THEN LET k == CHOOSE n \in 1..Len(cells) : cells[n] = c
             IN  IF k = Len(cells) THEN NULL ELSE cells[k + 1]
        ELSE @[c]]]

\* memblock and datablock advance together, so one pointer stands for both.
core_list_insert_new(s, point, info, size) ==
    IF s.memblock + 1 >= size THEN s
    ELSE LET new == s.memblock
         IN  [memblock |-> new + 1,
              heap |-> [s.heap EXCEPT !.next[new] = s.heap.next[point], !.next[point] = new,
                                      !.data16[new] = info.data16, !.idx[new] = info.idx]]

\* Removes the cell behind item and leaves its data in item.
core_list_remove(h, item) ==
    LET ret == h.next[item]
    IN  [h EXCEPT !.info[item] = h.info[ret], !.info[ret] = h.info[item],
                  !.next[item] = h.next[ret], !.next[ret] = NULL]

\* Fault: the cell is linked back without its data.
core_list_undo_remove_NoSwap(h, removed, modified) ==
    [h EXCEPT !.next[removed] = h.next[modified], !.next[modified] = removed]

core_list_undo_remove(h, removed, modified) ==
    [h EXCEPT !.info[removed] = h.info[modified], !.info[modified] = h.info[removed],
              !.next[removed] = h.next[modified], !.next[modified] = removed]

dataOf(h, c) == h.data16[h.info[c]]
idxOf(h, c) == h.idx[h.info[c]]

\* By index when info.idx is not negative, else by the low byte of the data.
core_list_find(h, list, info) ==
    LET cells == Chain(h, list)
        matches == {k \in 1..Len(cells) :
                       IF info.idx >= 0 THEN idxOf(h, cells[k]) = info.idx
                       ELSE dataOf(h, cells[k]) % 2^8 = info.data16}
    IN  IF matches = {} THEN NULL ELSE cells[CHOOSE k \in matches : \A m \in matches : k <= m]

core_list_reverse(h, list) ==
    LET cells == Chain(h, list)
        reversed == [k \in 1..Len(cells) |-> cells[Len(cells) + 1 - k]]
    IN  [heap |-> linked(h, reversed), list |-> reversed[1]]

\* regenerates the low byte of both data words from the high byte.
regenerated(h, a, b) ==
    [h EXCEPT !.data16 = [c \in DOMAIN @ |->
        IF c \in {h.info[a], h.info[b]} THEN 257 * (@[c] \div 2^8) ELSE @[c]]]

listSize(blksize) == (blksize \div 20) - 2

\* The block with the fake head alone.
headOnly(size) ==
    LET zero == [c \in 0..(size - 1) |-> 0]
    IN  [memblock |-> 1,
         heap |-> [next |-> [c \in DOMAIN zero |-> NULL], info |-> [c \in DOMAIN zero |-> c],
                   data16 |-> [zero EXCEPT ![0] = HeadData], idx |-> zero]]

\* The i-th item: the low byte is the data, the high byte rebuilds it.
item(seed, i) ==
    [idx |-> LastIdx, data16 |-> 257 * (8 * (xor(seed, i) % 16) + (i % 8))]

\* Indexes all but the head and the tail: the first fifth in order, then mixed.
indexed(h, size, seed) ==
    LET order == Chain(h, 0)
        index(i) == IF i < size \div 5 THEN i
                    ELSE or(((i + 1) % 8) * 256, xor(i, seed)) % 2^14
        places(c) == {i \in 1..(Len(order) - 2) : order[i + 1] = c}
    IN  [h EXCEPT !.idx = [c \in DOMAIN @ |->
            IF places(c) = {} THEN @[c] ELSE index(CHOOSE i \in places(c) : TRUE)]]
=============================================================================
