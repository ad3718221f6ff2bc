------------------------------ MODULE CoreUtil ------------------------------
(* The integer types of core_portme.h and the helpers of core_util.c.  16-bit  *)
(* values are kept as bit patterns, 0..2^16 - 1; s16 is the signed reading.    *)
EXTENDS Integers, Sequences, FiniteSets

u16(x) == x % 65536
s16(x) == LET u == u16(x) IN IF u < 32768 THEN u ELSE u - 65536
bit(x, k) == (x \div 2^k) % 2

\* The binary operators ^ and | of C on 16-bit patterns.
bitwise(a, b, Sets(_, _)) ==
    LET from[k \in 0..16] ==
            IF k = 16 THEN 0
            ELSE from[k + 1] + IF Sets(bit(a, k), bit(b, k)) THEN 2^k ELSE 0
    IN  from[0]
xor(a, b) == bitwise(a, b, LAMBDA x, y : x # y)
or(a, b) == bitwise(a, b, LAMBDA x, y : x + y > 0)

\* One turn of the loop of crcu8: 16386 is 0x4002.  As functions, so that TLC
\* evaluates an argument once.
crcBit[b \in Nat, crc \in Nat] ==
    IF b # crc % 2 THEN 2^15 + xor(crc, 16386) \div 2 ELSE crc \div 2
crcu8[data \in Nat, crc \in Nat] ==
    LET after[k \in 0..8] == IF k = 0 THEN crc ELSE crcBit[bit(data, k - 1), after[k - 1]]
    IN  after[8]
crcu16(newval, crc) == crcu8[newval \div 2^8, crcu8[newval % 2^8, crc]]
crcu32(newval, crc) == crcu16(u16(newval \div 2^16), crcu16(u16(newval), crc))
=============================================================================
