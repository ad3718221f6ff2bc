----------------------------- MODULE MemAccess -----------------------------
(* Byte lanes of the memory path: the access modes of mem_access_t and the   *)
(* mask, alignment and formatting functions that the Store Buffer, the LSQ    *)
(* and the D-cache each carry a copy of.  A word is a function from the four  *)
(* lanes to bytes, lane 0 least significant; a mask is a set of lanes.        *)
EXTENDS Naturals

Lanes == 0..3
Bytes == 0..255
Words == [Lanes -> Bytes]

\* mem_access_t.
MemAccess == {"BYTE", "HALF", "WORD", "BYTE_U", "HALF_U"}
StoreAccess == {"BYTE", "HALF", "WORD"}

ZeroWord == [l \in Lanes |-> 0]

\* Bytes an access of this mode covers.
AccessBytes(access) ==
    CASE access \in {"BYTE", "BYTE_U"} -> 1
      [] access \in {"HALF", "HALF_U"} -> 2
      [] OTHER -> 4

\* The mask is empty for an access that would leave its word.
loadByteMask(access, byteOffset) ==
    CASE access \in {"BYTE", "BYTE_U"} -> {byteOffset}
      [] access \in {"HALF", "HALF_U"} ->
            IF byteOffset = 3 THEN {} ELSE {byteOffset, byteOffset + 1}
      [] OTHER -> IF byteOffset = 0 THEN Lanes ELSE {}

\* A Store has no unsigned modes: every mode but BYTE and HALF is a word.  The
\* copy in dataMem differs for a misaligned word, which the LSU never sends.
storeByteMask(access, byteOffset) ==
    CASE access = "BYTE" -> {byteOffset}
      [] access = "HALF" ->
            IF byteOffset = 3 THEN {} ELSE {byteOffset, byteOffset + 1}
      [] OTHER -> IF byteOffset = 0 THEN Lanes ELSE {}

\* The register's low bytes shifted up to their lanes, zeroes elsewhere.
alignStoreData(data, access, byteOffset) ==
    IF access \in {"BYTE", "HALF"}
    THEN [l \in Lanes |->
            IF l >= byteOffset /\ l - byteOffset < AccessBytes(access)
            THEN data[l - byteOffset] ELSE 0]
    ELSE data

SignByte(byte) == IF byte >= 128 THEN 255 ELSE 0

\* The addressed bytes shifted down and sign- or zero-extended.
formatLoadData(raw, access, byteOffset) ==
    LET shifted == [l \in Lanes |->
                        IF l + byteOffset \in Lanes THEN raw[l + byteOffset] ELSE 0]
        size == AccessBytes(access)
        fill == IF access \in {"BYTE", "HALF"} THEN SignByte(shifted[size - 1]) ELSE 0
    IN  IF size = 4 THEN raw
        ELSE [l \in Lanes |-> IF l < size THEN shifted[l] ELSE fill]

\* The word after the masked lanes take the new bytes.
MergeWord(old, mask, new) ==
    [l \in Lanes |-> IF l \in mask THEN new[l] ELSE old[l]]

\* Natural alignment, which the LSU checks before an access leaves it.
Aligned(access, byteOffset) == byteOffset % AccessBytes(access) = 0
=============================================================================
