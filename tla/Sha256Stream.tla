---------------------------- MODULE Sha256Stream ----------------------------
(***************************************************************************)
(* SHA-256 over a stream (src/sha256.rs): update fills a buffer of one     *)
(* block and compresses it, and the whole blocks that follow, as soon as   *)
(* they are complete; finalize pads what is left in the buffer in place.   *)
(***************************************************************************)
EXTENDS Integers, Sequences

CONSTANTS
    Bits, Block, Field,   \* 8, 64 and 8 in the code (see Sha256Message)
    Chunks,               \* what update may be called with
    MaxBytes              \* bound: bytes fed to one instance

Byte == 0 .. (2 ^ Bits - 1)
Mark == 2 ^ (Bits - 1)

ASSUME SizesAssumption ==
    /\ Bits \in Nat \ {0} /\ Field \in Nat /\ MaxBytes \in Nat
    /\ Block \in Nat /\ Field < Block

ASSUME ChunksAssumption == Chunks \subseteq Seq(Byte)

VARIABLES
    compressed,   \* the blocks compressed so far, end to end: they stand for
                  \* the eight words of state, a function of them
    buffer,       \* one block; what lies beyond buffer_len is left over
    buffer_len,
    bit_count,    \* a u64 in the code: it wraps
    finished      \* finalize has consumed the instance

vars == <<compressed, buffer, buffer_len, bit_count, finished>>
-----------------------------------------------------------------------------
Modulus == 2 ^ (Bits * Field)

\* buffer with data written over it after the first at bytes.
Overlay(old, at, data) ==
    [i \in 1..Block |-> IF i - at \in 1..Len(data) THEN data[i - at] ELSE old[i]]

Rest(data, n) == SubSeq(data, n + 1, Len(data))

Init ==
    /\ compressed = <<>>
    /\ buffer = [i \in 1..Block |-> 0]
    /\ buffer_len = 0 /\ bit_count = 0
    /\ finished = FALSE

\* Mutation of Update: a buffer just compressed still counts as full.
UpdateKeepsFull(data) ==
    LET room == Block - buffer_len
        take == IF Len(data) < room THEN Len(data) ELSE room
        full == buffer_len + take = Block
        rest == Rest(data, take)
    IN  /\ ~finished
        /\ Len(rest) < Block
        /\ bit_count' = (bit_count + Bits * Len(data)) % Modulus
        /\ compressed' = compressed \o
              (IF full THEN Overlay(buffer, buffer_len, SubSeq(data, 1, take)) ELSE <<>>)
        /\ buffer' = Overlay(Overlay(buffer, buffer_len, SubSeq(data, 1, take)), 0, rest)
        /\ buffer_len' = IF rest # <<>> THEN Len(rest) ELSE buffer_len + take
        /\ UNCHANGED finished

\* A started buffer is filled up first, and compressed once full; then whole
\* blocks go straight from the data; what remains starts the buffer anew.
Update(data) ==
    LET room == Block - buffer_len
        take == IF buffer_len = 0 THEN 0
                ELSE IF Len(data) < room THEN Len(data) ELSE room
        filled == Overlay(buffer, buffer_len, SubSeq(data, 1, take))
        full == buffer_len + take = Block
        rest == Rest(data, take)
        whole == Len(rest) - (Len(rest) % Block)
        tail == Rest(rest, whole)
    IN  /\ ~finished
        /\ bit_count' = (bit_count + Bits * Len(data)) % Modulus
        /\ compressed' = compressed \o (IF full THEN filled ELSE <<>>)
                                    \o SubSeq(rest, 1, whole)
        /\ buffer' = Overlay(filled, 0, tail)
        /\ buffer_len' = IF tail # <<>> THEN Len(tail)
                         ELSE IF full THEN 0 ELSE buffer_len + take
        /\ UNCHANGED finished

\* bit_count.to_be_bytes()
LengthBytes ==
    [i \in 1..Field |-> (bit_count \div 2 ^ (Bits * (Field - i))) % (2 ^ Bits)]

\* The bytes of b from the first on, up to the last, set to zero.
Zeroed(b, first, last) ==
    [i \in 1..Block |-> IF i \in first..last THEN 0 ELSE b[i]]

\* Mutation of Finalize: the length is thought to fit where the mark is.
FinalizeTight ==
    LET marked == Overlay(buffer, buffer_len, <<Mark>>)
        spills == buffer_len > Block - Field
        start == IF spills THEN 0 ELSE buffer_len + 1
        closing == Overlay(Zeroed(marked, start + 1, Block - Field),
                           Block - Field, LengthBytes)
    IN  /\ ~finished
        /\ compressed' = compressed
              \o (IF spills THEN Zeroed(marked, buffer_len + 2, Block) ELSE <<>>) \o closing
        /\ finished' = TRUE
        /\ UNCHANGED <<buffer, buffer_len, bit_count>>

\* The length goes into the last bytes of a block: without room for it the
\* block is compressed and one of padding alone follows.
Finalize ==
    LET marked == Overlay(buffer, buffer_len, <<Mark>>)
        used == buffer_len + 1
        spills == used > Block - Field
        spilt == Zeroed(marked, used + 1, Block)
        start == IF spills THEN 0 ELSE used
        closing == Overlay(Zeroed(marked, start + 1, Block - Field),
                           Block - Field, LengthBytes)
    IN  /\ ~finished
        /\ compressed' = compressed \o (IF spills THEN spilt ELSE <<>>) \o closing
        /\ finished' = TRUE
        /\ UNCHANGED <<buffer, buffer_len, bit_count>>

Next ==
    \/ \E data \in Chunks :
          Len(compressed) + buffer_len + Len(data) <= MaxBytes /\ Update(data)
    \/ Finalize
    \/ finished /\ UNCHANGED vars

Spec == Init /\ [][Next]_vars
-----------------------------------------------------------------------------
(* Properties.                                                             *)

\* The buffer is never left full: finalize writes its mark at buffer_len
\* without a check (sha256.rs:72), and only whole blocks are compressed.
BufferHasRoom ==
    /\ buffer_len \in 0..(Block - 1)
    /\ Len(compressed) % Block = 0
    /\ bit_count \in 0..(Modulus - 1)

\* What the instance has been fed: the blocks compressed and the part of the
\* buffer in use, in this order.
Fed == IF finished THEN <<>> ELSE compressed \o SubSeq(buffer, 1, buffer_len)

Whole == INSTANCE Sha256Message WITH
    message <- Fed,
    digest  <- IF finished THEN compressed ELSE <<>>

\* However the data is cut into calls of update, the digest is that of the
\* whole: no byte is lost, doubled or moved at a block boundary, and the padding
\* is right at every length (sha256.rs tests: "streaming_matches_one_shot").
HashesTheWhole == Whole!MSpec
=============================================================================
