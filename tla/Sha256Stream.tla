----------------------------- MODULE Sha256Stream -----------------------------
(***************************************************************************)
(* How sha256_update and sha256_finalize cut the input into blocks.  The   *)
(* compression function is not modelled: instead of the state that it      *)
(* makes, hcomps holds the bytes that it was applied to, block by block.   *)
(***************************************************************************)
EXTENDS Integers, SequencesExt

CONSTANTS
    BlockSize,      \* SHA256_CHUNK_SZ: 64
    LengthSize,     \* the bytes of the length at the end of the last block: 8
    Messages,       \* what may be hashed: sequences of bytes
    Stale           \* what the stack holds in a buffer that was not written

\* 0x80, and the number of values of a byte.
Marker == 128
ByteRange == 256
Byte == 0..(ByteRange - 1)

ASSUME SizesOK ==
    /\ LengthSize \in Nat \ {0}
    /\ BlockSize \in Nat /\ BlockSize > LengthSize

ASSUME MessagesOK == Messages \subseteq Seq(Byte) /\ Stale \notin Byte

VARIABLES
    message,        \* what is being hashed
    given,          \* how many of its bytes sha256_update has been called with
    ptr,            \* those of the call under way that are left, from ptr on
    data_size,      \* sha256_compute_data
    last_chunk,
    chunk_size,
    hcomps,         \* the bytes compressed so far
    rounds,         \* how often sha256_calculate_chunk was called
    pc              \* "ready", "update" or "final"

vars == <<message, given, ptr, data_size, last_chunk, chunk_size, hcomps, rounds, pc>>

Init ==
    /\ message \in Messages
    /\ given = 0
    /\ ptr = <<>>
    /\ data_size = 0
    /\ last_chunk = [i \in 1..BlockSize |-> Stale]
    /\ chunk_size = 0
    /\ hcomps = <<>>
    /\ rounds = 0
    /\ pc = "ready"

-----------------------------------------------------------------------------
\* sha256_calculate_chunk of one block.
Compress(block) ==
    /\ hcomps' = hcomps \o block
    /\ rounds' = rounds + 1

\* sha256_compute_data_init, on a buffer that is left as it was.
Again ==
    /\ pc = "final"
    /\ message' \in Messages
    /\ given' = 0
    /\ data_size' = 0
    /\ chunk_size' = 0
    /\ hcomps' = <<>>
    /\ rounds' = 0
    /\ pc' = "ready"
    /\ UNCHANGED <<ptr, last_chunk>>

\* memcpy(last_chunk + chunk_size, bytes, ...)
Copied(bytes) ==
    [i \in 1..BlockSize |->
        IF i > chunk_size /\ i <= chunk_size + Len(bytes) THEN bytes[i - chunk_size] ELSE last_chunk[i]]

\* Variants, here and below: what a plausible slip in the code would do.
\* A buffer that is filled to the last byte is kept.
FillsOver(size) == size + chunk_size > BlockSize

\* The first test of sha256_update.
Fills(size) == size + chunk_size >= BlockSize

\* sha256_update is called with the next bytes of the message, as many as anybody
\* likes.  When they fill the buffer, the block is the buffer and the first of them.
Update(size) ==
    LET bytes == SubSeq(message, given + 1, given + size)
        room == BlockSize - chunk_size
    IN  /\ pc = "ready"
        /\ given' = given + size
        /\ data_size' = data_size + size
        /\ pc' = "update"
        /\ \/ /\ Fills(size)
              /\ Compress(Copied(SubSeq(bytes, 1, room)))
              /\ ptr' = SubSeq(bytes, room + 1, size)
              /\ chunk_size' = 0
           \/ /\ ~Fills(size)
              /\ ptr' = bytes
              /\ UNCHANGED <<chunk_size, hcomps, rounds>>
        /\ UNCHANGED <<message, last_chunk>>

\* The loop: whole blocks are compressed where they lie.
UpdateBlock ==
    /\ pc = "update"
    /\ Len(ptr) >= BlockSize
    /\ Compress(SubSeq(ptr, 1, BlockSize))
    /\ ptr' = SubSeq(ptr, BlockSize + 1, Len(ptr))
    /\ UNCHANGED <<message, given, data_size, last_chunk, chunk_size, pc>>

\* The rest overwrites the buffer from its start.
UpdateRestAtStart ==
    /\ pc = "update"
    /\ Len(ptr) < BlockSize
    /\ last_chunk' = [i \in 1..BlockSize |-> IF i <= Len(ptr) THEN ptr[i] ELSE last_chunk[i]]
    /\ chunk_size' = chunk_size + Len(ptr)
    /\ ptr' = <<>>
    /\ pc' = "ready"
    /\ UNCHANGED <<message, given, data_size, hcomps, rounds>>

\* The rest is kept in the buffer.
UpdateRest ==
    /\ pc = "update"
    /\ Len(ptr) < BlockSize
    /\ last_chunk' = Copied(ptr)
    /\ chunk_size' = chunk_size + Len(ptr)
    /\ ptr' = <<>>
    /\ pc' = "ready"
    /\ UNCHANGED <<message, given, data_size, hcomps, rounds>>

\* The byte k of a number of LengthSize bytes, the highest first.
BigEndian(number, k) == (number \div ByteRange^(LengthSize - k)) % ByteRange

\* The length is written over the last bytes of a block.
WithLength(block) ==
    [i \in 1..BlockSize |->
        IF i <= BlockSize - LengthSize THEN block[i]
        ELSE BigEndian(data_size * 8, i - (BlockSize - LengthSize))]

\* chunk_size is compared before the marker is counted.
SpillsLate == chunk_size > BlockSize - LengthSize

\* No room for the length behind the marker, which chunk_size counts by now.
Spills == chunk_size + 1 > BlockSize - LengthSize

Zeros == [i \in 1..BlockSize |-> 0]

\* last_chunk with the marker behind the bytes it holds, and zeros behind that.
Marked ==
    [i \in 1..BlockSize |->
        IF i <= chunk_size THEN last_chunk[i] ELSE IF i = chunk_size + 1 THEN Marker ELSE 0]

\* sha256_finalize, when the message has been given in full.
Finalize ==
    LET last == WithLength(IF Spills THEN Zeros ELSE Marked)
    IN  /\ pc = "ready"
        /\ given = Len(message)
        /\ last_chunk' = last
        /\ \/ /\ Spills
              /\ hcomps' = hcomps \o Marked \o last
              /\ rounds' = rounds + 2
           \/ /\ ~Spills
              /\ Compress(last)
        /\ chunk_size' = chunk_size + 1
        /\ pc' = "final"
        /\ UNCHANGED <<message, given, ptr, data_size>>

Next ==
    \/ \E size \in 0..(Len(message) - given) : Update(size)
    \/ UpdateBlock \/ UpdateRest
    \/ Finalize \/ Again

Spec == Init /\ [][Next]_vars
-----------------------------------------------------------------------------
(* Properties.                                                             *)

\* What a buffer may hold: bytes, those of a length among them, and what was there.
Cell == Byte \cup {Stale} \cup {BigEndian(Len(m) * 8, k) : m \in Messages, k \in 1..LengthSize}

\* The shape of the state.  Between two calls the buffer has room for a byte at
\* least: sha256_finalize writes its marker without a test.
TypeOK ==
    /\ message \in Messages
    /\ given \in 0..Len(message)
    /\ ptr \in Seq(Byte)
    /\ data_size = given
    /\ last_chunk \in [1..BlockSize -> Cell]
    /\ chunk_size \in 0..BlockSize
    /\ hcomps \in Seq(Cell)
    /\ rounds \in Nat /\ Len(hcomps) = rounds * BlockSize
    /\ pc \in {"ready", "update", "final"}
    /\ pc # "final" => chunk_size < BlockSize
    /\ pc # "update" => ptr = <<>>

\* Wherever the calls cut the message, what was compressed, what the buffer holds
\* and what is left of the call are together the bytes given, in order, each of
\* them once: none is lost, repeated or kept back at the border of a block.
NothingLost ==
    pc # "final" =>
        /\ Len(hcomps) + chunk_size + Len(ptr) = given
        /\ \A i \in 1..Len(hcomps) : hcomps[i] = message[i]
        /\ \A i \in 1..chunk_size : last_chunk[i] = message[Len(hcomps) + i]
        /\ \A i \in 1..Len(ptr) : ptr[i] = message[Len(hcomps) + chunk_size + i]

\* Byte i of a message of n bytes that was padded to size bytes as the standard
\* says: the marker, zeros, and the length in bits.
PaddedByte(m, size, i) ==
    IF i <= Len(m) THEN m[i]
    ELSE IF i = Len(m) + 1 THEN Marker
    ELSE IF i <= size - LengthSize THEN 0
    ELSE BigEndian(Len(m) * 8, i - (size - LengthSize))

\* What is compressed is the padded message, in whole blocks and no more of them
\* than needed, whether the message ends before, at or behind the place of the
\* length; nothing of an earlier message or of the stack is among it.
HashesThePadded ==
    pc = "final" =>
        /\ Len(hcomps) >= Len(message) + 1 + LengthSize
        /\ Len(hcomps) < Len(message) + 1 + LengthSize + BlockSize
        /\ \A i \in 1..Len(hcomps) : hcomps[i] = PaddedByte(message, Len(hcomps), i)
=============================================================================
