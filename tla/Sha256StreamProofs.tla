-------------------------- MODULE Sha256StreamProofs --------------------------
(***************************************************************************)
(* Theorems about Sha256Stream: for every size of a block and of the       *)
(* length, every set of messages and every way to cut them into calls.     *)
(***************************************************************************)
EXTENDS Sha256Stream, SequenceTheorems, TLAPS

\* While a call is under way either nothing is kept from before it, or what is
\* kept and what is left do not fill the buffer.
RestFits == pc = "update" => chunk_size = 0 \/ chunk_size + Len(ptr) < BlockSize

StreamInv == TypeOK /\ RestFits /\ NothingLost /\ HashesThePadded

-----------------------------------------------------------------------------
(* Operators.                                                              *)

\* A function on 1..n is a sequence of length n.
LEMMA FunctionIsSeq ==
  ASSUME NEW S, NEW n \in Nat, NEW f \in [1..n -> S]
  PROVE  f \in Seq(S) /\ Len(f) = n
  OBVIOUS

\* The sizes, as facts of arithmetic.
LEMMA Sizes == BlockSize \in Nat /\ LengthSize \in Nat /\ LengthSize > 0 /\ BlockSize > LengthSize
  BY SizesOK

\* What a message is.
LEMMA MessageTyped ==
  ASSUME message \in Messages
  PROVE  /\ message \in Seq(Byte) /\ Len(message) \in Nat
         /\ \A i \in 1..Len(message) : message[i] \in Byte
  BY MessagesOK, LenProperties, ElementOfSeq

\* A byte may be in a buffer.
LEMMA ByteIsCell == Byte \subseteq Cell
  BY DEF Cell

\* The buffer with bytes copied behind those that it holds.
LEMMA CopiedCells ==
  ASSUME TypeOK, NEW bytes \in Seq(Byte), chunk_size + Len(bytes) <= BlockSize
  PROVE  /\ Copied(bytes) \in [1..BlockSize -> Cell]
         /\ \A i \in 1..chunk_size : Copied(bytes)[i] = last_chunk[i]
         /\ \A i \in 1..Len(bytes) : Copied(bytes)[chunk_size + i] = bytes[i]
<1>1. /\ chunk_size \in Nat /\ BlockSize \in Nat /\ Len(bytes) \in Nat
      /\ last_chunk \in [1..BlockSize -> Cell]
  BY Sizes, LenProperties DEF TypeOK
<1>2. \A i \in 1..Len(bytes) : bytes[i] \in Cell
  BY ByteIsCell, ElementOfSeq
<1>3. \A i \in 1..BlockSize :
        i > chunk_size /\ i <= chunk_size + Len(bytes) => i - chunk_size \in 1..Len(bytes)
  BY <1>1
<1>4. Copied(bytes) \in [1..BlockSize -> Cell]
  BY <1>1, <1>2, <1>3 DEF Copied
<1>5. \A i \in 1..chunk_size : Copied(bytes)[i] = last_chunk[i]
  BY <1>1 DEF Copied
<1>6. ASSUME NEW i \in 1..Len(bytes)
      PROVE  Copied(bytes)[chunk_size + i] = bytes[i]
  <2>1. /\ chunk_size + i \in 1..BlockSize
        /\ chunk_size + i > chunk_size /\ chunk_size + i <= chunk_size + Len(bytes)
        /\ (chunk_size + i) - chunk_size = i
    BY <1>1
  <2> QED BY <2>1 DEF Copied
<1> QED BY <1>4, <1>5, <1>6

\* Compressing a block puts it behind what was compressed.
LEMMA CompressAppends ==
  ASSUME TypeOK, NEW block \in [1..BlockSize -> Cell], Compress(block)
  PROVE  /\ hcomps' \in Seq(Cell)
         /\ Len(hcomps') = Len(hcomps) + BlockSize
         /\ rounds' \in Nat /\ Len(hcomps') = rounds' * BlockSize
         /\ \A i \in 1..Len(hcomps) : hcomps'[i] = hcomps[i]
         /\ \A i \in 1..BlockSize : hcomps'[Len(hcomps) + i] = block[i]
<1>1. /\ BlockSize \in Nat /\ hcomps \in Seq(Cell) /\ Len(hcomps) \in Nat
      /\ rounds \in Nat /\ Len(hcomps) = rounds * BlockSize
  BY Sizes, LenProperties DEF TypeOK
<1>2. block \in Seq(Cell) /\ Len(block) = BlockSize
  BY <1>1, FunctionIsSeq
<1>3. hcomps' = hcomps \o block /\ rounds' = rounds + 1
  BY DEF Compress
<1>4. /\ hcomps' \in Seq(Cell)
      /\ Len(hcomps') = Len(hcomps) + BlockSize
      /\ \A i \in 1..Len(hcomps) + BlockSize :
            hcomps'[i] = IF i <= Len(hcomps) THEN hcomps[i] ELSE block[i - Len(hcomps)]
  BY <1>1, <1>2, <1>3, ConcatProperties
<1>5. \A i \in 1..Len(hcomps) : hcomps'[i] = hcomps[i]
  BY <1>1, <1>4
<1>6. ASSUME NEW i \in 1..BlockSize
      PROVE  hcomps'[Len(hcomps) + i] = block[i]
  <2>1. /\ Len(hcomps) + i \in 1..Len(hcomps) + BlockSize
        /\ ~(Len(hcomps) + i <= Len(hcomps)) /\ (Len(hcomps) + i) - Len(hcomps) = i
    BY <1>1
  <2> QED BY <1>4, <2>1
<1>7. (rounds + 1) * BlockSize = rounds * BlockSize + BlockSize
  BY <1>1
<1> QED BY <1>1, <1>3, <1>4, <1>5, <1>6, <1>7

\* The next bytes of the message.
LEMMA NextBytes ==
  ASSUME TypeOK, NEW size \in 0..(Len(message) - given)
  PROVE  LET bytes == SubSeq(message, given + 1, given + size)
         IN  /\ bytes \in Seq(Byte) /\ Len(bytes) = size
             /\ \A i \in 1..size : bytes[i] = message[given + i]
<1>1. message \in Seq(Byte) /\ Len(message) \in Nat /\ given \in Nat /\ given <= Len(message)
  BY MessageTyped DEF TypeOK
<1>2. \A i \in (given + 1)..(given + size) : message[i] \in Byte
  BY <1>1, MessageTyped DEF TypeOK
<1>3. /\ SubSeq(message, given + 1, given + size) \in Seq(Byte)
      /\ Len(SubSeq(message, given + 1, given + size))
            = IF given + 1 <= given + size THEN (given + size) - (given + 1) + 1 ELSE 0
      /\ \A i \in 1..((given + size) - (given + 1) + 1) :
            SubSeq(message, given + 1, given + size)[i] = message[(given + 1) + i - 1]
  BY <1>1, <1>2, SubSeqProperties
<1> QED BY <1>1, <1>3

\* The first n elements of a sequence, and those behind them.
LEMMA Cut ==
  ASSUME NEW S, NEW s \in Seq(S), NEW n \in 0..Len(s)
  PROVE  /\ SubSeq(s, 1, n) \in Seq(S) /\ Len(SubSeq(s, 1, n)) = n
         /\ \A i \in 1..n : SubSeq(s, 1, n)[i] = s[i]
         /\ SubSeq(s, n + 1, Len(s)) \in Seq(S) /\ Len(SubSeq(s, n + 1, Len(s))) = Len(s) - n
         /\ \A i \in 1..(Len(s) - n) : SubSeq(s, n + 1, Len(s))[i] = s[n + i]
<1>1. Len(s) \in Nat /\ \A i \in 1..Len(s) : s[i] \in S
  BY LenProperties, ElementOfSeq
<1>2. \A i \in 1..n : s[i] \in S
  BY <1>1
<1>3. \A i \in (n + 1)..Len(s) : s[i] \in S
  BY <1>1
<1>4. /\ SubSeq(s, 1, n) \in Seq(S) /\ Len(SubSeq(s, 1, n)) = (IF 1 <= n THEN n - 1 + 1 ELSE 0)
      /\ \A i \in 1..(n - 1 + 1) : SubSeq(s, 1, n)[i] = s[1 + i - 1]
  BY <1>2, SubSeqProperties
<1>5. /\ SubSeq(s, n + 1, Len(s)) \in Seq(S)
      /\ Len(SubSeq(s, n + 1, Len(s))) = (IF n + 1 <= Len(s) THEN Len(s) - (n + 1) + 1 ELSE 0)
      /\ \A i \in 1..(Len(s) - (n + 1) + 1) : SubSeq(s, n + 1, Len(s))[i] = s[(n + 1) + i - 1]
  BY <1>1, <1>3, SubSeqProperties
<1> QED BY <1>1, <1>4, <1>5

-----------------------------------------------------------------------------
(* The invariant.                                                          *)

LEMMA InitInv == Init => StreamInv
<1> SUFFICES ASSUME Init PROVE StreamInv
  OBVIOUS
<1>1. <<>> \in Seq(Cell) /\ <<>> \in Seq(Byte) /\ Len(<<>>) = 0
  OBVIOUS
<1>2. /\ message \in Messages /\ given = 0 /\ ptr = <<>> /\ data_size = 0 /\ chunk_size = 0
      /\ last_chunk = [i \in 1..BlockSize |-> Stale]
      /\ hcomps = <<>> /\ rounds = 0 /\ pc = "ready"
  BY DEF Init
<1>3. Len(message) \in Nat /\ BlockSize \in Nat /\ BlockSize > 0
  BY <1>2, MessageTyped, Sizes
<1>4. last_chunk \in [1..BlockSize -> Cell]
  BY <1>2 DEF Cell
<1>5. 0 * BlockSize = 0
  BY <1>3
<1>6. TypeOK
  BY <1>1, <1>2, <1>3, <1>4, <1>5 DEF TypeOK
<1>7. RestFits /\ HashesThePadded
  BY <1>2 DEF RestFits, HashesThePadded
<1>8. NothingLost
  BY <1>1, <1>2, <1>3 DEF NothingLost
<1> QED BY <1>6, <1>7, <1>8 DEF StreamInv

\* A call that fills the buffer.
LEMMA UpdateFills ==
  ASSUME StreamInv, NEW size \in 0..(Len(message) - given), Update(size), Fills(size)
  PROVE  StreamInv'
<1> DEFINE bytes == SubSeq(message, given + 1, given + size)
           room == BlockSize - chunk_size
           first == SubSeq(bytes, 1, room)
<1>1. /\ TypeOK /\ NothingLost /\ pc = "ready"
      /\ message \in Messages /\ Len(message) \in Nat /\ given \in 0..Len(message)
      /\ chunk_size \in Nat /\ chunk_size < BlockSize /\ BlockSize \in Nat
      /\ Len(hcomps) \in Nat /\ last_chunk \in [1..BlockSize -> Cell]
      /\ ptr = <<>> /\ data_size = given
  BY MessageTyped, Sizes, LenProperties DEF StreamInv, TypeOK, Update
<1>2. /\ bytes \in Seq(Byte) /\ Len(bytes) = size
      /\ \A i \in 1..size : bytes[i] = message[given + i]
  BY <1>1, NextBytes
<1>3. room \in 0..size /\ room \in Nat /\ chunk_size + room = BlockSize
  BY <1>1 DEF Fills
<1>4. /\ first \in Seq(Byte) /\ Len(first) = room
      /\ \A i \in 1..room : first[i] = bytes[i]
      /\ SubSeq(bytes, room + 1, size) \in Seq(Byte)
      /\ Len(SubSeq(bytes, room + 1, size)) = size - room
      /\ \A i \in 1..(size - room) : SubSeq(bytes, room + 1, size)[i] = bytes[room + i]
  <2> HIDE DEF room, bytes
  <2> QED BY <1>2, <1>3, Cut DEF first
<1>5. /\ Compress(Copied(first)) /\ ptr' = SubSeq(bytes, room + 1, size) /\ chunk_size' = 0
      /\ given' = given + size /\ data_size' = data_size + size /\ pc' = "update"
      /\ message' = message /\ last_chunk' = last_chunk
  BY DEF Update
<1> HIDE DEF bytes, first, room
<1>6. /\ Copied(first) \in [1..BlockSize -> Cell]
      /\ \A i \in 1..chunk_size : Copied(first)[i] = last_chunk[i]
      /\ \A i \in 1..room : Copied(first)[chunk_size + i] = first[i]
  <2>1. TypeOK /\ first \in Seq(Byte) /\ Len(first) = room /\ chunk_size + Len(first) <= BlockSize
    BY <1>1, <1>3, <1>4
  <2> QED BY <2>1, CopiedCells
<1>7. /\ hcomps' \in Seq(Cell) /\ Len(hcomps') = Len(hcomps) + BlockSize
      /\ \A i \in 1..Len(hcomps) : hcomps'[i] = hcomps[i]
      /\ \A i \in 1..BlockSize : hcomps'[Len(hcomps) + i] = Copied(first)[i]
  BY <1>1, <1>5, <1>6, CompressAppends
<1>8. /\ Len(hcomps) + chunk_size = given
      /\ \A i \in 1..Len(hcomps) : hcomps[i] = message[i]
      /\ \A i \in 1..chunk_size : last_chunk[i] = message[Len(hcomps) + i]
  <2>1. Len(ptr) = 0
    BY <1>1
  <2> QED BY <1>1, <2>1 DEF NothingLost
<1>counts. /\ BlockSize \in Nat /\ Len(hcomps) \in Nat /\ chunk_size \in Nat /\ size \in Nat
           /\ Len(hcomps) + chunk_size = given /\ Len(hcomps') = Len(hcomps) + BlockSize
           /\ room \in 0..size /\ chunk_size + room = BlockSize
  BY <1>1, <1>3, <1>7, <1>8
<1>9. \A i \in 1..Len(hcomps') : hcomps'[i] = message[i]
  <2> SUFFICES ASSUME NEW i \in 1..Len(hcomps') PROVE hcomps'[i] = message[i]
    OBVIOUS
  <2>1. CASE i <= Len(hcomps)
    BY <1>1, <1>7, <1>8, <2>1
  <2>2. CASE i > Len(hcomps) /\ i <= given
    <3>1. PICK j \in 1..chunk_size : Len(hcomps) + j = i
      <4>1. i - Len(hcomps) \in 1..chunk_size /\ Len(hcomps) + (i - Len(hcomps)) = i
        BY <1>1, <1>7, <1>8, <2>2
      <4> QED BY <4>1
    <3>2. j \in 1..BlockSize
      BY <1>1, <3>1
    <3>3. hcomps'[Len(hcomps) + j] = Copied(first)[j] /\ Copied(first)[j] = last_chunk[j]
      BY <1>6, <1>7, <3>2
    <3>4. last_chunk[j] = message[Len(hcomps) + j]
      BY <1>8
    <3> QED BY <3>1, <3>3, <3>4
  <2>3. CASE i > given
    <3>1. PICK j \in 1..room : given + j = i
      <4>1. i - given \in 1..room /\ given + (i - given) = i
        BY <1>counts, <2>3
      <4> QED BY <4>1
    <3>2. /\ chunk_size + j \in 1..BlockSize /\ j \in 1..size
          /\ Len(hcomps) + (chunk_size + j) = i
      BY <1>counts, <3>1
    <3>3. hcomps'[Len(hcomps) + (chunk_size + j)] = Copied(first)[chunk_size + j]
      BY <1>7, <3>2
    <3>4. Copied(first)[chunk_size + j] = first[j] /\ first[j] = bytes[j]
      BY <1>4, <1>6
    <3>5. bytes[j] = message[given + j]
      BY <1>2, <3>2
    <3> QED BY <3>1, <3>2, <3>3, <3>4, <3>5
  <2> QED BY <1>1, <1>7, <2>1, <2>2, <2>3
<1>10. TypeOK'
  <2>1. /\ given' \in 0..Len(message') /\ data_size' = given' /\ chunk_size' \in 0..BlockSize
        /\ chunk_size' < BlockSize
    BY <1>1, <1>5
  <2>2. rounds' \in Nat /\ Len(hcomps') = rounds' * BlockSize
    BY <1>1, <1>5, <1>6, CompressAppends
  <2> QED BY <1>1, <1>4, <1>5, <1>7, <2>1, <2>2 DEF TypeOK
<1>11. RestFits' /\ HashesThePadded'
  BY <1>5 DEF RestFits, HashesThePadded
<1>12. NothingLost'
  <2>0. Len(ptr') = size - room /\ chunk_size' = 0 /\ given' = given + size
    BY <1>4, <1>5
  <2>1. Len(hcomps') + chunk_size' + Len(ptr') = given'
    BY <1>counts, <2>0
  <2>2. ASSUME NEW i \in 1..Len(ptr')
        PROVE  ptr'[i] = message'[Len(hcomps') + chunk_size' + i]
    <3>1. /\ i \in 1..(size - room) /\ room + i \in 1..size
          /\ Len(hcomps') + chunk_size' + i = given + (room + i)
      BY <1>counts, <2>0
    <3>2. ptr'[i] = bytes[room + i] /\ bytes[room + i] = message[given + (room + i)]
      BY <1>2, <1>4, <1>5, <3>1
    <3> QED BY <1>5, <3>1, <3>2
  <2>3. \A i \in 1..chunk_size' : last_chunk'[i] = message'[Len(hcomps') + i]
    BY <1>5
  <2> QED BY <1>5, <1>9, <2>1, <2>2, <2>3 DEF NothingLost
<1> QED BY <1>10, <1>11, <1>12 DEF StreamInv

\* A call that does not.
LEMMA UpdateKeeps ==
  ASSUME StreamInv, NEW size \in 0..(Len(message) - given), Update(size), ~Fills(size)
  PROVE  StreamInv'
<1> DEFINE bytes == SubSeq(message, given + 1, given + size)
<1>1. /\ TypeOK /\ NothingLost /\ pc = "ready"
      /\ Len(message) \in Nat /\ given \in 0..Len(message)
      /\ chunk_size \in Nat /\ BlockSize \in Nat /\ Len(hcomps) \in Nat /\ Len(ptr) = 0
  BY MessageTyped, Sizes, LenProperties DEF StreamInv, TypeOK, Update
<1>2. /\ bytes \in Seq(Byte) /\ Len(bytes) = size
      /\ \A i \in 1..size : bytes[i] = message[given + i]
  BY <1>1, NextBytes
<1>3. /\ ptr' = bytes /\ given' = given + size /\ data_size' = data_size + size /\ pc' = "update"
      /\ UNCHANGED <<message, last_chunk, chunk_size, hcomps, rounds>>
  BY DEF Update
<1> HIDE DEF bytes
<1>4. TypeOK'
  BY <1>1, <1>2, <1>3 DEF TypeOK, Fills
<1>5. RestFits' /\ HashesThePadded'
  BY <1>1, <1>2, <1>3 DEF RestFits, HashesThePadded, Fills
<1>6. NothingLost'
  <2>1. /\ Len(hcomps) + chunk_size = given
        /\ \A i \in 1..Len(hcomps) : hcomps[i] = message[i]
        /\ \A i \in 1..chunk_size : last_chunk[i] = message[Len(hcomps) + i]
    BY <1>1 DEF NothingLost
  <2>2. Len(hcomps') + chunk_size' + Len(ptr') = given'
    BY <1>1, <1>2, <1>3, <2>1
  <2>3. ASSUME NEW i \in 1..Len(ptr')
        PROVE  ptr'[i] = message'[Len(hcomps') + chunk_size' + i]
    BY <1>2, <1>3, <2>1
  <2> QED BY <1>3, <2>1, <2>2, <2>3 DEF NothingLost
<1> QED BY <1>4, <1>5, <1>6 DEF StreamInv

\* A round of the loop.
LEMMA UpdateBlockInv == ASSUME StreamInv, UpdateBlock PROVE StreamInv'
<1> DEFINE block == SubSeq(ptr, 1, BlockSize)
<1>1. /\ TypeOK /\ NothingLost /\ RestFits /\ pc = "update"
      /\ Len(message) \in Nat /\ given \in 0..Len(message)
      /\ chunk_size \in Nat /\ BlockSize \in Nat /\ Len(hcomps) \in Nat
      /\ ptr \in Seq(Byte) /\ Len(ptr) \in Nat /\ BlockSize \in 0..Len(ptr)
  BY MessageTyped, Sizes, LenProperties DEF StreamInv, TypeOK, UpdateBlock
<1>2. chunk_size = 0
  BY <1>1 DEF RestFits
<1>3. /\ block \in Seq(Byte) /\ Len(block) = BlockSize
      /\ \A i \in 1..BlockSize : block[i] = ptr[i]
      /\ SubSeq(ptr, BlockSize + 1, Len(ptr)) \in Seq(Byte)
      /\ Len(SubSeq(ptr, BlockSize + 1, Len(ptr))) = Len(ptr) - BlockSize
      /\ \A i \in 1..(Len(ptr) - BlockSize) :
            SubSeq(ptr, BlockSize + 1, Len(ptr))[i] = ptr[BlockSize + i]
  BY <1>1, Cut
<1>4. /\ Compress(block) /\ ptr' = SubSeq(ptr, BlockSize + 1, Len(ptr))
      /\ UNCHANGED <<message, given, data_size, last_chunk, chunk_size, pc>>
  BY DEF UpdateBlock
<1> HIDE DEF block
<1>5. block \in [1..BlockSize -> Cell]
  BY <1>3, LenProperties, ByteIsCell
<1>6. /\ hcomps' \in Seq(Cell) /\ Len(hcomps') = Len(hcomps) + BlockSize
      /\ \A i \in 1..Len(hcomps) : hcomps'[i] = hcomps[i]
      /\ \A i \in 1..BlockSize : hcomps'[Len(hcomps) + i] = block[i]
  BY <1>1, <1>4, <1>5, CompressAppends
<1>7. TypeOK'
  <2>1. rounds' \in Nat /\ Len(hcomps') = rounds' * BlockSize
    BY <1>1, <1>4, <1>5, CompressAppends
  <2> QED BY <1>1, <1>3, <1>4, <1>6, <2>1 DEF TypeOK
<1>8. RestFits' /\ HashesThePadded'
  BY <1>1, <1>2, <1>4 DEF RestFits, HashesThePadded
<1>9. /\ Len(hcomps) + Len(ptr) = given
      /\ \A i \in 1..Len(hcomps) : hcomps[i] = message[i]
      /\ \A i \in 1..Len(ptr) : ptr[i] = message[Len(hcomps) + i]
  BY <1>1, <1>2 DEF NothingLost
<1>10. \A i \in 1..Len(hcomps') : hcomps'[i] = message[i]
  <2> SUFFICES ASSUME NEW i \in 1..Len(hcomps') PROVE hcomps'[i] = message[i]
    OBVIOUS
  <2>1. CASE i <= Len(hcomps)
    BY <1>1, <1>6, <1>9, <2>1
  <2>2. CASE i > Len(hcomps)
    <3>1. PICK j \in 1..BlockSize : Len(hcomps) + j = i
      <4>1. i - Len(hcomps) \in 1..BlockSize /\ Len(hcomps) + (i - Len(hcomps)) = i
        BY <1>1, <1>6, <2>2
      <4> QED BY <4>1
    <3>2. hcomps'[Len(hcomps) + j] = block[j] /\ block[j] = ptr[j]
      BY <1>3, <1>6
    <3>3. ptr[j] = message[Len(hcomps) + j]
      BY <1>1, <1>9
    <3> QED BY <3>1, <3>2, <3>3
  <2> QED BY <1>1, <1>6, <2>1, <2>2
<1>11. NothingLost'
  <2>1. Len(hcomps') + chunk_size' + Len(ptr') = given'
    <3>1. /\ Len(ptr') = Len(ptr) - BlockSize /\ Len(hcomps') = Len(hcomps) + BlockSize
          /\ chunk_size' = 0 /\ given' = given
      BY <1>2, <1>3, <1>4, <1>6
    <3>2. Len(hcomps) + Len(ptr) = given /\ Len(hcomps) \in Nat /\ Len(ptr) \in Nat /\ BlockSize \in Nat
      BY <1>1, <1>9
    <3> QED BY <3>1, <3>2
  <2>2. ASSUME NEW i \in 1..Len(ptr')
        PROVE  ptr'[i] = message'[Len(hcomps') + chunk_size' + i]
    <3>1. /\ i \in 1..(Len(ptr) - BlockSize) /\ BlockSize + i \in 1..Len(ptr)
          /\ Len(hcomps') + chunk_size' + i = Len(hcomps) + (BlockSize + i)
      BY <1>1, <1>2, <1>3, <1>4, <1>6
    <3>2. ptr'[i] = ptr[BlockSize + i] /\ ptr[BlockSize + i] = message[Len(hcomps) + (BlockSize + i)]
      BY <1>3, <1>4, <1>9, <3>1
    <3> QED BY <1>4, <3>1, <3>2
  <2>3. \A i \in 1..chunk_size' : last_chunk'[i] = message'[Len(hcomps') + i]
    BY <1>2, <1>4
  <2> QED BY <1>4, <1>10, <2>1, <2>2, <2>3 DEF NothingLost
<1> QED BY <1>7, <1>8, <1>11 DEF StreamInv

\* The rest of a call goes into the buffer.
LEMMA UpdateRestInv == ASSUME StreamInv, UpdateRest PROVE StreamInv'
<1>1. /\ TypeOK /\ NothingLost /\ RestFits /\ pc = "update"
      /\ Len(message) \in Nat /\ given \in 0..Len(message)
      /\ chunk_size \in 0..BlockSize /\ chunk_size < BlockSize /\ BlockSize \in Nat
      /\ Len(hcomps) \in Nat
      /\ ptr \in Seq(Byte) /\ Len(ptr) \in Nat /\ Len(ptr) < BlockSize
  BY MessageTyped, Sizes, LenProperties DEF StreamInv, TypeOK, UpdateRest
<1>2. chunk_size + Len(ptr) < BlockSize
  BY <1>1 DEF RestFits
<1>3. /\ last_chunk' = Copied(ptr) /\ chunk_size' = chunk_size + Len(ptr) /\ ptr' = <<>>
      /\ pc' = "ready" /\ UNCHANGED <<message, given, data_size, hcomps, rounds>>
  BY DEF UpdateRest
<1>4. /\ last_chunk' \in [1..BlockSize -> Cell]
      /\ \A i \in 1..chunk_size : last_chunk'[i] = last_chunk[i]
      /\ \A i \in 1..Len(ptr) : last_chunk'[chunk_size + i] = ptr[i]
  <2>1. chunk_size + Len(ptr) <= BlockSize
    BY <1>1, <1>2
  <2> QED BY <1>1, <1>3, <2>1, CopiedCells
<1>5. ptr' \in Seq(Byte) /\ Len(ptr') = 0
  BY <1>3
<1>6. TypeOK'
  <2>1. chunk_size' \in 0..BlockSize /\ chunk_size' < BlockSize
    BY <1>1, <1>2, <1>3
  <2> QED BY <1>1, <1>3, <1>4, <1>5, <2>1 DEF TypeOK
<1>7. RestFits' /\ HashesThePadded'
  BY <1>3 DEF RestFits, HashesThePadded
<1>8. /\ Len(hcomps) + chunk_size + Len(ptr) = given
      /\ \A i \in 1..Len(hcomps) : hcomps[i] = message[i]
      /\ \A i \in 1..chunk_size : last_chunk[i] = message[Len(hcomps) + i]
      /\ \A i \in 1..Len(ptr) : ptr[i] = message[Len(hcomps) + chunk_size + i]
  BY <1>1 DEF NothingLost
<1>9. ASSUME NEW i \in 1..(chunk_size + Len(ptr))
      PROVE  last_chunk'[i] = message[Len(hcomps) + i]
  <2>1. CASE i <= chunk_size
    BY <1>1, <1>4, <1>8, <2>1
  <2>2. CASE i > chunk_size
    <3>1. PICK j \in 1..Len(ptr) : chunk_size + j = i
      <4>1. i - chunk_size \in 1..Len(ptr) /\ chunk_size + (i - chunk_size) = i
        BY <1>1, <2>2
      <4> QED BY <4>1
    <3>2. last_chunk'[chunk_size + j] = ptr[j]
      BY <1>4
    <3>3. ptr[j] = message[Len(hcomps) + chunk_size + j]
      BY <1>8
    <3>4. Len(hcomps) + chunk_size + j = Len(hcomps) + i
      BY <1>1, <3>1
    <3> QED BY <3>1, <3>2, <3>3, <3>4
  <2> QED BY <1>1, <2>1, <2>2
<1>10. NothingLost'
  <2>1. Len(hcomps') + chunk_size' + Len(ptr') = given'
    BY <1>1, <1>3, <1>5, <1>8
  <2> QED BY <1>3, <1>5, <1>8, <1>9, <2>1 DEF NothingLost
<1> QED BY <1>6, <1>7, <1>10 DEF StreamInv

\* The next message.
LEMMA AgainInv == ASSUME StreamInv, Again PROVE StreamInv'
<1>1. /\ TypeOK /\ pc = "final" /\ BlockSize \in Nat /\ BlockSize > 0
      /\ message' \in Messages /\ given' = 0 /\ data_size' = 0 /\ chunk_size' = 0
      /\ hcomps' = <<>> /\ rounds' = 0 /\ pc' = "ready" /\ ptr' = ptr /\ last_chunk' = last_chunk
  BY Sizes DEF StreamInv, Again
<1>2. Len(message') \in Nat
  BY <1>1, MessagesOK, LenProperties
<1>3. <<>> \in Seq(Cell) /\ <<>> \in Seq(Byte) /\ Len(<<>>) = 0
  OBVIOUS
<1>4. ptr = <<>> /\ last_chunk \in [1..BlockSize -> Cell]
  BY <1>1 DEF TypeOK
<1>5. 0 * BlockSize = 0
  BY <1>1
<1>6. TypeOK'
  BY <1>1, <1>2, <1>3, <1>4, <1>5 DEF TypeOK
<1>7. RestFits' /\ HashesThePadded'
  BY <1>1 DEF RestFits, HashesThePadded
<1>8. NothingLost'
  BY <1>1, <1>3, <1>4 DEF NothingLost
<1> QED BY <1>6, <1>7, <1>8 DEF StreamInv

\* The buffer with the marker, and a block with the length.
LEMMA LastBlocks ==
  ASSUME TypeOK, given = Len(message)
  PROVE  /\ Marked \in [1..BlockSize -> Cell]
         /\ Zeros \in [1..BlockSize -> Cell]
         /\ \A block \in [1..BlockSize -> Cell] : WithLength(block) \in [1..BlockSize -> Cell]
<1>1. /\ BlockSize \in Nat /\ LengthSize \in Nat /\ BlockSize > LengthSize
      /\ last_chunk \in [1..BlockSize -> Cell] /\ chunk_size \in Nat
      /\ message \in Messages /\ data_size = Len(message)
  BY Sizes DEF TypeOK
<1>2. 0 \in Cell /\ Marker \in Cell
  BY ByteIsCell DEF Byte, ByteRange, Marker
<1>3. Marked \in [1..BlockSize -> Cell]
  BY <1>1, <1>2 DEF Marked
<1>4. Zeros \in [1..BlockSize -> Cell]
  BY <1>2 DEF Zeros
<1>5. ASSUME NEW block \in [1..BlockSize -> Cell]
      PROVE  WithLength(block) \in [1..BlockSize -> Cell]
  <2>1. \A k \in 1..LengthSize : BigEndian(data_size * 8, k) \in Cell
    BY <1>1 DEF Cell
  <2>2. ASSUME NEW i \in 1..BlockSize, ~(i <= BlockSize - LengthSize)
        PROVE  i - (BlockSize - LengthSize) \in 1..LengthSize
    BY <1>1, <2>2
  <2> QED BY <2>1, <2>2 DEF WithLength
<1> QED BY <1>3, <1>4, <1>5

\* What is known when the message has been given.
LEMMA Given ==
  ASSUME StreamInv, Finalize
  PROVE  /\ TypeOK /\ pc = "ready" /\ given = Len(message) /\ data_size = Len(message)
         /\ BlockSize \in Nat /\ LengthSize \in Nat /\ LengthSize > 0 /\ BlockSize > LengthSize
         /\ chunk_size \in Nat /\ chunk_size < BlockSize /\ Len(hcomps) \in Nat
         /\ Len(message) \in Nat /\ Len(message) = Len(hcomps) + chunk_size
         /\ \A i \in 1..Len(hcomps) : hcomps[i] = message[i]
         /\ \A i \in 1..chunk_size : Marked[i] = message[Len(hcomps) + i]
<1>1. /\ TypeOK /\ NothingLost /\ pc = "ready" /\ given = Len(message) /\ data_size = given
      /\ BlockSize \in Nat /\ LengthSize \in Nat /\ LengthSize > 0 /\ BlockSize > LengthSize
      /\ chunk_size \in Nat /\ chunk_size < BlockSize /\ Len(hcomps) \in Nat
      /\ Len(message) \in Nat /\ Len(ptr) = 0
  BY MessageTyped, Sizes, LenProperties DEF StreamInv, TypeOK, Finalize
<1>2. /\ Len(hcomps) + chunk_size + Len(ptr) = given
      /\ \A i \in 1..Len(hcomps) : hcomps[i] = message[i]
      /\ \A i \in 1..chunk_size : last_chunk[i] = message[Len(hcomps) + i]
  BY <1>1 DEF NothingLost
<1>3. Len(message) = Len(hcomps) + chunk_size
  BY <1>1, <1>2
<1>4. \A i \in 1..chunk_size : Marked[i] = last_chunk[i]
  BY <1>1 DEF Marked
<1> QED BY <1>1, <1>2, <1>3, <1>4

\* The length fits into the block of the marker.
LEMMA FinalizeOne == ASSUME StreamInv, Finalize, ~Spills PROVE StreamInv'
<1> DEFINE last == WithLength(Marked)
           room == BlockSize - LengthSize
<1>1. /\ TypeOK /\ pc = "ready" /\ given = Len(message) /\ data_size = Len(message)
      /\ \A i \in 1..Len(hcomps) : hcomps[i] = message[i]
      /\ \A i \in 1..chunk_size : Marked[i] = message[Len(hcomps) + i]
  BY Given
<1>2. /\ BlockSize \in Nat /\ LengthSize \in Nat /\ LengthSize > 0 /\ BlockSize > LengthSize
      /\ chunk_size \in Nat /\ chunk_size < BlockSize /\ Len(hcomps) \in Nat
      /\ Len(message) \in Nat /\ Len(message) = Len(hcomps) + chunk_size
      /\ chunk_size + 1 <= room /\ room \in Nat /\ room + LengthSize = BlockSize
  BY Given DEF Spills
<1>3. /\ Compress(last) /\ last_chunk' = last /\ chunk_size' = chunk_size + 1 /\ pc' = "final"
      /\ message' = message /\ given' = given /\ ptr' = ptr /\ data_size' = data_size
  BY DEF Finalize
<1>4. last \in [1..BlockSize -> Cell]
  BY <1>1, LastBlocks
<1>5. /\ \A k \in 1..BlockSize : k <= room => last[k] = Marked[k]
      /\ \A k \in 1..BlockSize : ~(k <= room) => last[k] = BigEndian(Len(message) * 8, k - room)
  BY <1>1 DEF WithLength
<1>6. /\ Marked[chunk_size + 1] = Marker
      /\ \A k \in 1..BlockSize : k > chunk_size + 1 => Marked[k] = 0
  BY <1>2 DEF Marked
<1> HIDE DEF last, room
<1>7. /\ hcomps' \in Seq(Cell) /\ Len(hcomps') = Len(hcomps) + BlockSize
      /\ \A i \in 1..Len(hcomps) : hcomps'[i] = hcomps[i]
      /\ \A i \in 1..BlockSize : hcomps'[Len(hcomps) + i] = last[i]
  BY <1>1, <1>3, <1>4, CompressAppends
<1>8. TypeOK'
  <2>1. rounds' \in Nat /\ Len(hcomps') = rounds' * BlockSize
    BY <1>1, <1>3, <1>4, CompressAppends
  <2>2. chunk_size' \in 0..BlockSize
    BY <1>2, <1>3
  <2> QED BY <1>1, <1>3, <1>4, <1>7, <2>1, <2>2 DEF TypeOK
<1>9. RestFits' /\ NothingLost'
  BY <1>3 DEF RestFits, NothingLost
<1>10. /\ Len(hcomps') >= Len(message) + 1 + LengthSize
       /\ Len(hcomps') < Len(message) + 1 + LengthSize + BlockSize
  BY <1>2, <1>7
<1>11. ASSUME NEW i \in 1..Len(hcomps')
       PROVE  hcomps'[i] = PaddedByte(message, Len(hcomps'), i)
  <2>1. CASE i <= Len(hcomps)
    <3>1. hcomps'[i] = message[i] /\ i <= Len(message)
      BY <1>1, <1>2, <1>7, <2>1
    <3> QED BY <3>1 DEF PaddedByte
  <2>2. CASE ~(i <= Len(hcomps))
    <3>1. PICK k \in 1..BlockSize : Len(hcomps) + k = i
      <4>1. i - Len(hcomps) \in 1..BlockSize /\ Len(hcomps) + (i - Len(hcomps)) = i
        BY <1>2, <1>7, <2>2
      <4> QED BY <4>1
    <3>2. hcomps'[i] = last[k]
      BY <1>7, <3>1
    <3>3. CASE k <= chunk_size
      <4>1. i <= Len(message) /\ k <= room
        BY <1>2, <3>1, <3>3
      <4>2. last[k] = message[i]
        BY <1>1, <1>2, <1>5, <3>1, <3>3, <4>1
      <4> QED BY <3>2, <4>1, <4>2 DEF PaddedByte
    <3>4. CASE k = chunk_size + 1
      <4>1. ~(i <= Len(message)) /\ i = Len(message) + 1 /\ k <= room
        BY <1>2, <3>1, <3>4
      <4>2. last[k] = Marker
        BY <1>5, <1>6, <3>4, <4>1
      <4> QED BY <3>2, <4>1, <4>2 DEF PaddedByte
    <3>5. CASE k > chunk_size + 1 /\ k <= room
      <4>1. ~(i <= Len(message)) /\ i # Len(message) + 1 /\ i <= Len(hcomps') - LengthSize
        BY <1>2, <1>7, <3>1, <3>5
      <4>2. last[k] = 0
        BY <1>5, <1>6, <3>5
      <4> QED BY <3>2, <4>1, <4>2 DEF PaddedByte
    <3>6. CASE k > chunk_size + 1 /\ ~(k <= room)
      <4> Len(hcomps') = Len(hcomps) + BlockSize
        BY <1>7
      <4>1. /\ ~(i <= Len(message)) /\ i # Len(message) + 1 /\ ~(i <= Len(hcomps') - LengthSize)
            /\ i - (Len(hcomps') - LengthSize) = k - room
        BY <1>2, <3>1, <3>6
      <4>2. last[k] = BigEndian(Len(message) * 8, k - room)
        BY <1>5, <3>6
      <4> QED BY <3>2, <4>1, <4>2 DEF PaddedByte
    <3> QED BY <1>2, <3>3, <3>4, <3>5, <3>6
  <2> QED BY <2>1, <2>2
<1>12. HashesThePadded'
  BY <1>3, <1>10, <1>11 DEF HashesThePadded
<1> QED BY <1>8, <1>9, <1>12 DEF StreamInv

\* The length goes into a block of its own.
LEMMA FinalizeTwo == ASSUME StreamInv, Finalize, Spills PROVE StreamInv'
<1> DEFINE last == WithLength(Zeros)
           room == BlockSize - LengthSize
<1>1. /\ TypeOK /\ pc = "ready" /\ given = Len(message) /\ data_size = Len(message)
      /\ \A i \in 1..Len(hcomps) : hcomps[i] = message[i]
      /\ \A i \in 1..chunk_size : Marked[i] = message[Len(hcomps) + i]
  BY Given
<1>2. /\ BlockSize \in Nat /\ LengthSize \in Nat /\ LengthSize > 0 /\ BlockSize > LengthSize
      /\ chunk_size \in Nat /\ chunk_size < BlockSize /\ Len(hcomps) \in Nat
      /\ Len(message) \in Nat /\ Len(message) = Len(hcomps) + chunk_size
      /\ chunk_size + 1 > room /\ room \in Nat /\ room + LengthSize = BlockSize
  BY Given DEF Spills
<1>3. /\ hcomps' = hcomps \o Marked \o last /\ rounds' = rounds + 2
      /\ last_chunk' = last /\ chunk_size' = chunk_size + 1 /\ pc' = "final"
      /\ message' = message /\ given' = given /\ ptr' = ptr /\ data_size' = data_size
  BY DEF Finalize
<1>4. last \in [1..BlockSize -> Cell] /\ Marked \in [1..BlockSize -> Cell]
  BY <1>1, LastBlocks
<1>5. /\ \A k \in 1..BlockSize : k <= room => last[k] = 0
      /\ \A k \in 1..BlockSize : ~(k <= room) => last[k] = BigEndian(Len(message) * 8, k - room)
  BY <1>1 DEF WithLength, Zeros
<1>6. /\ Marked[chunk_size + 1] = Marker
      /\ \A k \in 1..BlockSize : k > chunk_size + 1 => Marked[k] = 0
  BY <1>2 DEF Marked
<1> HIDE DEF last, room
<1> DEFINE one == hcomps \o Marked
<1>7. /\ last \in Seq(Cell) /\ Len(last) = BlockSize
      /\ Marked \in Seq(Cell) /\ Len(Marked) = BlockSize
  BY <1>2, <1>4, FunctionIsSeq
<1>8. /\ one \in Seq(Cell) /\ Len(one) = Len(hcomps) + BlockSize
      /\ \A i \in 1..(Len(hcomps) + BlockSize) :
            one[i] = IF i <= Len(hcomps) THEN hcomps[i] ELSE Marked[i - Len(hcomps)]
  <2>1. hcomps \in Seq(Cell)
    BY <1>1 DEF TypeOK
  <2> QED BY <1>7, <2>1, ConcatProperties
<1>9. hcomps' = one \o last
  BY <1>3
<1> HIDE DEF one
<1>10. /\ hcomps' \in Seq(Cell) /\ Len(hcomps') = (Len(hcomps) + BlockSize) + BlockSize
       /\ \A i \in 1..((Len(hcomps) + BlockSize) + BlockSize) :
             hcomps'[i] = IF i <= Len(hcomps) + BlockSize THEN one[i]
                          ELSE last[i - (Len(hcomps) + BlockSize)]
  BY <1>7, <1>8, <1>9, ConcatProperties
<1>11. TypeOK'
  <2>1. rounds \in Nat /\ Len(hcomps) = rounds * BlockSize
    BY <1>1 DEF TypeOK
  <2>2. (rounds + 2) * BlockSize = rounds * BlockSize + BlockSize + BlockSize
    BY <1>2, <2>1
  <2>3. Len(hcomps') = rounds' * BlockSize
    BY <1>3, <1>10, <2>1, <2>2
  <2>4. chunk_size' \in 0..BlockSize /\ rounds' \in Nat
    BY <1>2, <1>3, <2>1
  <2> QED BY <1>1, <1>3, <1>4, <1>10, <2>3, <2>4 DEF TypeOK
<1>12. RestFits' /\ NothingLost'
  BY <1>3 DEF RestFits, NothingLost
<1>13. /\ Len(hcomps') >= Len(message) + 1 + LengthSize
       /\ Len(hcomps') < Len(message) + 1 + LengthSize + BlockSize
  BY <1>2, <1>10
<1>14. ASSUME NEW i \in 1..Len(hcomps')
       PROVE  hcomps'[i] = PaddedByte(message, Len(hcomps'), i)
  <2>size. Len(hcomps') = (Len(hcomps) + BlockSize) + BlockSize
    BY <1>10
  <2>1. CASE i <= Len(hcomps)
    <3>1. /\ i <= Len(message) /\ i <= Len(hcomps) + BlockSize
          /\ i \in 1..Len(hcomps) /\ i \in 1..(Len(hcomps) + BlockSize)
      BY <1>2, <2>size, <2>1
    <3>2. hcomps'[i] = message[i]
      <4>1. hcomps'[i] = one[i]
        BY <1>10, <3>1
      <4>2. one[i] = hcomps[i]
        BY <1>8, <2>1, <3>1
      <4> QED BY <1>1, <3>1, <4>1, <4>2
    <3> QED BY <3>1, <3>2 DEF PaddedByte
  <2>2. CASE ~(i <= Len(hcomps)) /\ i <= Len(hcomps) + BlockSize
    <3>1. PICK k \in 1..BlockSize : Len(hcomps) + k = i /\ i - Len(hcomps) = k
      <4>1. i - Len(hcomps) \in 1..BlockSize /\ Len(hcomps) + (i - Len(hcomps)) = i
        BY <1>2, <2>size, <2>2
      <4> QED BY <4>1
    <3>2. hcomps'[i] = Marked[k]
      <4>1. hcomps'[i] = one[i]
        BY <1>10, <2>2
      <4>2. one[i] = Marked[i - Len(hcomps)]
        <5>1. i \in 1..(Len(hcomps) + BlockSize)
          BY <1>2, <2>size, <2>2
        <5> QED BY <1>8, <2>2, <5>1
      <4> QED BY <3>1, <4>1, <4>2
    <3>3. CASE k <= chunk_size
      <4>1. i <= Len(message)
        BY <1>2, <3>1, <3>3
      <4>2. Marked[k] = message[i]
        BY <1>1, <1>2, <3>1, <3>3
      <4> QED BY <3>2, <4>1, <4>2 DEF PaddedByte
    <3>4. CASE k = chunk_size + 1
      <4>1. ~(i <= Len(message)) /\ i = Len(message) + 1
        BY <1>2, <3>1, <3>4
      <4> QED BY <1>6, <3>2, <3>4, <4>1 DEF PaddedByte
    <3>5. CASE k > chunk_size + 1
      <4>1. ~(i <= Len(message)) /\ i # Len(message) + 1 /\ i <= Len(hcomps') - LengthSize
        BY <1>2, <2>size, <3>1, <3>5
      <4> QED BY <1>6, <3>2, <3>5, <4>1 DEF PaddedByte
    <3> QED BY <1>2, <3>3, <3>4, <3>5
  <2>3. CASE ~(i <= Len(hcomps) + BlockSize)
    <3>1. PICK k \in 1..BlockSize : (Len(hcomps) + BlockSize) + k = i /\ i - (Len(hcomps) + BlockSize) = k
      <4>1. /\ i - (Len(hcomps) + BlockSize) \in 1..BlockSize
            /\ (Len(hcomps) + BlockSize) + (i - (Len(hcomps) + BlockSize)) = i
        BY <1>2, <2>size, <2>3
      <4> QED BY <4>1
    <3>2. hcomps'[i] = last[k]
      BY <1>10, <2>3, <3>1
    <3>3. ~(i <= Len(message)) /\ i # Len(message) + 1
      BY <1>2, <3>1
    <3>4. CASE k <= room
      <4>1. i <= Len(hcomps') - LengthSize
        BY <1>2, <2>size, <3>1, <3>4
      <4> QED BY <1>5, <3>2, <3>3, <3>4, <4>1 DEF PaddedByte
    <3>5. CASE ~(k <= room)
      <4>1. ~(i <= Len(hcomps') - LengthSize) /\ i - (Len(hcomps') - LengthSize) = k - room
        BY <1>2, <2>size, <3>1, <3>5
      <4>2. last[k] = BigEndian(Len(message) * 8, k - room)
        BY <1>5, <3>5
      <4> QED BY <3>2, <3>3, <4>1, <4>2 DEF PaddedByte
    <3> QED BY <3>4, <3>5
  <2> QED BY <2>1, <2>2, <2>3
<1>15. HashesThePadded'
  BY <1>3, <1>13, <1>14 DEF HashesThePadded
<1> QED BY <1>11, <1>12, <1>15 DEF StreamInv

\* Every step keeps the invariant.
LEMMA NextInv == StreamInv /\ [Next]_vars => StreamInv'
<1> SUFFICES ASSUME StreamInv, [Next]_vars PROVE StreamInv'
  OBVIOUS
<1>1. ASSUME NEW size \in 0..(Len(message) - given), Update(size) PROVE StreamInv'
  BY <1>1, UpdateFills, UpdateKeeps
<1>2. CASE UpdateBlock
  BY <1>2, UpdateBlockInv
<1>3. CASE UpdateRest
  BY <1>3, UpdateRestInv
<1>4. CASE Finalize
  BY <1>4, FinalizeOne, FinalizeTwo
<1>5. CASE Again
  BY <1>5, AgainInv
<1>6. CASE UNCHANGED vars
  BY <1>6 DEF vars, StreamInv, TypeOK, RestFits, NothingLost, HashesThePadded
<1> QED BY <1>1, <1>2, <1>3, <1>4, <1>5, <1>6 DEF Next

\* The invariant holds throughout.
THEOREM StreamInvariant == Spec => []StreamInv
<1> QED BY InitInv, NextInv, PTL DEF Spec

-----------------------------------------------------------------------------
(* Theorems.                                                               *)

\* sha256_update and sha256_finalize keep within the buffer, which has room for
\* the marker after every call, and count the blocks right.
THEOREM TypeCorrect == Spec => []TypeOK
<1>1. StreamInv => TypeOK
  BY DEF StreamInv
<1> QED BY <1>1, StreamInvariant, PTL

\* However the calls of sha256_update cut a message, no byte of it is lost, repeated
\* or moved at the border of a block.
THEOREM CutsDoNotMatter == Spec => []NothingLost
<1>1. StreamInv => NothingLost
  BY DEF StreamInv
<1> QED BY <1>1, StreamInvariant, PTL

\* What sha256_finalize leaves compressed is the message with the padding of the
\* standard, in one last block or in two.
THEOREM PaddedRight == Spec => []HashesThePadded
<1>1. StreamInv => HashesThePadded
  BY DEF StreamInv
<1> QED BY <1>1, StreamInvariant, PTL
=============================================================================
