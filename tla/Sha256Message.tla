--------------------------- MODULE Sha256Message ---------------------------
(***************************************************************************)
(* What the streaming interface of src/sha256.rs promises: however the     *)
(* data is cut into calls of update, finalize compresses the whole of it,  *)
(* padded once.                                                            *)
(*                                                                         *)
(* Sizes are parameters: the code has bytes of 8 bits, blocks of 64 bytes  *)
(* and a length of 8 bytes.  The compression function is left out: the     *)
(* digest is a function of the bytes compressed, so these stand for it.    *)
(***************************************************************************)
EXTENDS Integers, Sequences

CONSTANTS
    Bits,      \* bits in a byte
    Block,     \* bytes in a block
    Field,     \* bytes of the length at the end of the padding
    Chunks     \* what update may be called with

Mark == 2 ^ (Bits - 1)

VARIABLES
    message,   \* the bytes fed so far
    digest     \* the bytes compressed for the digest, none before finalize

mvars == <<message, digest>>

\* A count of bits as the bytes of a big-endian integer, which wraps.
BigEndian(count) ==
    [i \in 1..Field |-> (count \div 2 ^ (Bits * (Field - i))) % (2 ^ Bits)]

Zeros(k) == [i \in 1..k |-> 0]

\* The message, one bit set, the least number of zeros that fills the last
\* block, and the length of the message in bits.
Fills(n, k) == (n + 1 + k + Field) % Block = 0
Padded(m, k) == m \o <<Mark>> \o Zeros(k) \o BigEndian(Bits * Len(m))

MInit == message = <<>> /\ digest = <<>>

MUpdate(data) ==
    /\ digest = <<>>
    /\ message' = message \o data
    /\ UNCHANGED digest

MFinalize ==
    /\ digest = <<>>
    /\ \E k \in 0..(Block - 1) :
          Fills(Len(message), k) /\ digest' = Padded(message, k)
    /\ message' = <<>>

MNext == (\E data \in Chunks : MUpdate(data)) \/ MFinalize

MSpec == MInit /\ [][MNext]_mvars
=============================================================================
