---------------------------- MODULE BpkgLoadProofs ----------------------------
(***************************************************************************)
(* What bpkg_load makes of a file, for every file and for one that is      *)
(* written as packages are.                                                *)
(***************************************************************************)
EXTENDS BpkgLoad, SequenceLemmas

-----------------------------------------------------------------------------
(* Any file.                                                               *)

\* The blank lines that are taken are the first ones.
LEMMA AfterBlanksIs ==
    ASSUME NEW lines \in Seq(Lines)
    PROVE  /\ AfterBlanks(lines) \in Seq(Lines)
           /\ lines # <<>> /\ lines[1].tag # "blank" => AfterBlanks(lines) = lines
<1> DEFINE I == {i \in 1..Len(lines) : lines[i].tag # "blank"}
           k == IF I # {} THEN Min(I) ELSE 0
<1>1. AfterBlanks(lines) = IF k = 0 THEN <<>> ELSE From(lines, k)
  BY DEF AfterBlanks, SelectInSeq, From
<1>2. I \in SUBSET Nat
  OBVIOUS
<1>3. I # {} => Min(I) \in I /\ \A y \in I : Min(I) <= y
  BY <1>2, MinIs
<1>4. k # 0 => k \in 1..(Len(lines) + 1)
  BY <1>3
<1>5. AfterBlanks(lines) \in Seq(Lines)
  <2>1. CASE k = 0
    BY <1>1, <2>1
  <2>2. CASE k # 0
    BY <1>1, <1>4, <2>2, FromIs
  <2> QED BY <2>1, <2>2
<1>6. ASSUME lines # <<>>, lines[1].tag # "blank"
      PROVE  AfterBlanks(lines) = lines
  <2>1. 1 \in I
    BY <1>6
  <2>2. k = 1
    BY <1>3, <2>1
  <2>3. From(lines, 1) = lines
    BY SubSeqFull DEF From
  <2> QED BY <1>1, <2>2, <2>3
<1> QED BY <1>5, <1>6

\* What is left after a header line is a sequence of lines.
LEMMA ScanIs ==
    ASSUME NEW lines \in Seq(Lines), NEW tag, tag # "eof"
    PROVE  Scan(lines, tag) \in Seq(Lines)
<1>1. CASE lines = <<>>
  BY <1>1 DEF Scan, Tag
<1>2. CASE lines # <<>>
  <2>1. Tail(lines) \in Seq(Lines)
    BY <1>2, HeadTailProperties
  <2>2. AfterBlanks(Tail(lines)) \in Seq(Lines)
    BY <2>1, AfterBlanksIs
  <2>3. Rubbish \in Lines
    <3> DEFINE t == <<"title">>
    <3>1. t \in Texts
      BY TextsOK, Zenon
    <3> HIDE DEF t
    <3>2. [tag |-> "rubbish", n |-> 0, text |-> t] \in [tag : Tags, n : Nat, text : Texts]
      BY <3>1 DEF Tags
    <3> QED BY <3>2 DEF Rubbish, Title, Line, Lines, t
  <2>4. <<Rubbish>> \o Tail(lines) \in Seq(Lines)
    BY <2>1, <2>3, ConcatProperties
  <2> QED BY <2>2, <2>4 DEF Scan
<1> QED BY <1>1, <1>2

\* The number on a header line.
LEMMA NumberIs ==
    ASSUME NEW lines \in Seq(Lines), NEW tag, tag # "eof"
    PROVE  ScannedNumber(lines, tag) \in Nat
<1>1. CASE lines = <<>>
  BY <1>1 DEF ScannedNumber, Tag
<1>2. CASE lines # <<>>
  <2>1. 1 \in 1..Len(lines)
    BY <1>2, EmptySeq
  <2>2. lines[1] \in Lines
    BY <2>1, ElementOfSeq
  <2> QED BY <2>2 DEF ScannedNumber, Lines
<1> QED BY <1>1, <1>2

\* The three ways the section of the chunks may go.
LEMMA LoadChunksCases ==
    ASSUME NEW obj, NEW lines
    PROVE  LET n == ScannedNumber(lines, "nchunks")
               body == Scan(lines, "nchunks")
           IN  /\ body = <<>> => LoadChunks(obj, lines) = Loaded(WithChunks(obj, n, Null, <<>>))
               /\ body # <<>> /\ Len(body) <= n => LoadChunks(obj, lines) = LoadCrash
               /\ body # <<>> /\ ~(Len(body) <= n) =>
                    LoadChunks(obj, lines) = Loaded(WithChunks(obj, n,
                        [i \in 1..n |-> IF Fields(body[i + 1]) = 0 THEN Unset ELSE body[i + 1].text],
                        [i \in 1..n |-> IF Fields(body[i + 1]) = 3 THEN 1 ELSE Unset]))
  BY Zenon DEF LoadChunks

\* The four ways the section of the hashes may go.
LEMMA LoadHashesCases ==
    ASSUME NEW obj, NEW lines
    PROVE  LET n == obj.len_hash
               met == MeetsChunks(n, lines)
           IN  /\ met # {} => LoadHashes(obj, lines) \in {LeftOpen(obj), LoadCrash}
               /\ met = {} /\ lines = <<>> => LoadHashes(obj, lines) = LoadChunks(obj, <<>>)
               /\ met = {} /\ lines # <<>> /\ Len(lines) <= n => LoadHashes(obj, lines) = LoadCrash
               /\ met = {} /\ lines # <<>> /\ ~(Len(lines) <= n) =>
                    LoadHashes(obj, lines) =
                        LoadChunks(WithHashes(obj, [i \in 1..n |-> Hash(lines[i + 1])]),
                                   SubSeq(lines, n + 2, Len(lines)))
<1> DEFINE n == obj.len_hash
           met == MeetsChunks(n, lines)
<1>1. met # {} => lines # <<>>
  BY DEF MeetsChunks
<1>2. met # {} => LoadHashes(obj, lines) \in {LeftOpen(obj), LoadCrash}
  BY <1>1, Zenon DEF LoadHashes
<1>3. met = {} /\ lines = <<>> => LoadHashes(obj, lines) = LoadChunks(obj, <<>>)
  BY Zenon DEF LoadHashes
<1>4. met = {} /\ lines # <<>> /\ Len(lines) <= n => LoadHashes(obj, lines) = LoadCrash
  BY Zenon DEF LoadHashes
<1>5. met = {} /\ lines # <<>> /\ ~(Len(lines) <= n) =>
        LoadHashes(obj, lines) =
            LoadChunks(WithHashes(obj, [i \in 1..n |-> Hash(lines[i + 1])]),
                       SubSeq(lines, n + 2, Len(lines)))
  BY Zenon DEF LoadHashes
<1> QED BY <1>2, <1>3, <1>4, <1>5

\* An object has every field of NoObject.
Object(id, fn, lh, h, lc, ch, cs) ==
    [identifier |-> id, filename |-> fn, len_hash |-> lh, hashes |-> h,
     len_chunk |-> lc, chunks_hash |-> ch, chunks_size |-> cs]

HasFields(obj) ==
    obj = Object(obj.identifier, obj.filename, obj.len_hash, obj.hashes,
                 obj.len_chunk, obj.chunks_hash, obj.chunks_size)

\* What setting the fields of the chunks makes of an object.
LEMMA ChunksSet ==
    ASSUME NEW obj, HasFields(obj), NEW n, NEW ch, NEW cs
    PROVE  WithChunks(obj, n, ch, cs) =
                Object(obj.identifier, obj.filename, obj.len_hash, obj.hashes, n, ch, cs)
<1>1. PICK a, b, c, d, e, f, g : obj = Object(a, b, c, d, e, f, g)
  BY DEF HasFields
<1>2. /\ obj.identifier = a /\ obj.filename = b /\ obj.len_hash = c /\ obj.hashes = d
      /\ obj.len_chunk = e /\ obj.chunks_hash = f /\ obj.chunks_size = g
  BY <1>1 DEF Object
<1> DEFINE p == [obj EXCEPT !.len_chunk = n]
           q == [p EXCEPT !.chunks_hash = ch]
           r == [q EXCEPT !.chunks_size = cs]
<1>3. r = WithChunks(obj, n, ch, cs)
  BY DEF WithChunks
<1>4. p = Object(a, b, c, d, n, f, g)
  BY <1>1 DEF Object
<1> HIDE DEF p
<1>5. q = Object(a, b, c, d, n, ch, g)
  BY <1>4 DEF Object
<1> HIDE DEF q
<1>6. r = Object(a, b, c, d, n, ch, cs)
  BY <1>5 DEF Object
<1> QED BY <1>2, <1>3, <1>6

\* What setting the hashes makes of it.
LEMMA HashesSet ==
    ASSUME NEW obj, HasFields(obj), NEW h
    PROVE  WithHashes(obj, h) =
                Object(obj.identifier, obj.filename, obj.len_hash, h,
                       obj.len_chunk, obj.chunks_hash, obj.chunks_size)
<1>1. PICK a, b, c, d, e, f, g : obj = Object(a, b, c, d, e, f, g)
  BY DEF HasFields
<1>2. /\ obj.identifier = a /\ obj.filename = b /\ obj.len_hash = c /\ obj.hashes = d
      /\ obj.len_chunk = e /\ obj.chunks_hash = f /\ obj.chunks_size = g
  BY <1>1 DEF Object
<1>3. [obj EXCEPT !.hashes = h] = Object(a, b, c, h, e, f, g)
  BY <1>1 DEF Object
<1> QED BY <1>2, <1>3 DEF WithHashes

\* The section of the chunks leaves the names and the hashes as they are.
LEMMA LoadChunksKeeps ==
    ASSUME NEW obj, HasFields(obj), NEW lines
    PROVE  LET o == LoadChunks(obj, lines).obj
           IN  /\ o.identifier \in {Unset, obj.identifier}
               /\ o.chunks_hash # Null => o.hashes = obj.hashes
               /\ lines = <<>> => o.chunks_hash = Null
<1> DEFINE n == ScannedNumber(lines, "nchunks")
           body == Scan(lines, "nchunks")
           result == LoadChunks(obj, lines)
<1>1. CASE body = <<>>
  <2>1. result = Loaded(WithChunks(obj, n, Null, <<>>))
    BY <1>1, LoadChunksCases
  <2>2. WithChunks(obj, n, Null, <<>>) =
            Object(obj.identifier, obj.filename, obj.len_hash, obj.hashes, n, Null, <<>>)
    BY ChunksSet
  <2> QED BY <2>1, <2>2 DEF Loaded, Object
<1>2. CASE body # <<>> /\ Len(body) <= n
  <2>1. result = LoadCrash
    BY <1>2, LoadChunksCases
  <2> QED BY <2>1 DEF LoadCrash, NoObject
<1>3. CASE body # <<>> /\ ~(Len(body) <= n)
  <2> DEFINE ch == [i \in 1..n |-> IF Fields(body[i + 1]) = 0 THEN Unset ELSE body[i + 1].text]
             cs == [i \in 1..n |-> IF Fields(body[i + 1]) = 3 THEN 1 ELSE Unset]
  <2>1. result = Loaded(WithChunks(obj, n, ch, cs))
    BY <1>3, LoadChunksCases
  <2>2. lines # <<>>
    BY <1>3 DEF Scan, Tag
  <2> HIDE DEF ch, cs, n, result
  <2>3. WithChunks(obj, n, ch, cs) =
            Object(obj.identifier, obj.filename, obj.len_hash, obj.hashes, n, ch, cs)
    BY ChunksSet
  <2>4. result = Loaded(Object(obj.identifier, obj.filename, obj.len_hash, obj.hashes, n, ch, cs))
    BY <2>1, <2>3, Zenon
  <2>5. result.obj.identifier = obj.identifier /\ result.obj.hashes = obj.hashes
    BY <2>4 DEF Loaded, Object
  <2> QED BY <2>2, <2>5 DEF result
<1> QED BY <1>1, <1>2, <1>3

\* What bpkg_load starts from.
LEMMA NamesSet ==
    ASSUME NEW id, NEW fn, NEW n
    PROVE  WithNames(NoObject, id, fn, n) = Object(id, fn, n, Null, 0, Null, <<>>)
<1>1. NoObject = Object(Unset, Unset, 0, Null, 0, Null, <<>>)
  BY DEF NoObject, Object
<1> DEFINE p == [NoObject EXCEPT !.identifier = id]
           q == [p EXCEPT !.filename = fn]
           r == [q EXCEPT !.len_hash = n]
<1>2. r = WithNames(NoObject, id, fn, n)
  BY DEF WithNames
<1>3. p = Object(id, Unset, 0, Null, 0, Null, <<>>)
  BY <1>1 DEF Object
<1> HIDE DEF p
<1>4. q = Object(id, fn, 0, Null, 0, Null, <<>>)
  BY <1>3 DEF Object
<1> HIDE DEF q
<1>5. r = Object(id, fn, n, Null, 0, Null, <<>>)
  BY <1>4 DEF Object
<1> QED BY <1>2, <1>5

\* A list of hashes, of which those of blank lines are not valid any more.
LEMMA HashesIsASeq ==
    ASSUME NEW lines \in Seq(Lines), NEW n \in Nat, ~(Len(lines) <= n)
    PROVE  [i \in 1..n |-> Hash(lines[i + 1])] \in Seq(Texts \cup {Unset, Freed})
<1> DEFINE h == [i \in 1..n |-> Hash(lines[i + 1])]
<1>1. \A i \in 1..n : lines[i + 1] \in Lines
  OBVIOUS
<1>2. \A i \in 1..n : Hash(lines[i + 1]) \in Texts \cup {Unset, Freed}
  BY <1>1 DEF Hash, Lines
<1>3. h \in [1..n -> Texts \cup {Unset, Freed}]
  BY <1>2
<1> QED BY <1>3

\* The section of the hashes leaves the names as they are, and a list of chunks is
\* only read where there is one of hashes.
LEMMA LoadHashesKeeps ==
    ASSUME NEW id, NEW fn, NEW n \in Nat, NEW lines \in Seq(Lines)
    PROVE  LET o == LoadHashes(Object(id, fn, n, Null, 0, Null, <<>>), lines).obj
           IN  /\ o.identifier \in {Unset, id}
               /\ o.chunks_hash # Null => o.hashes # Null
<1> DEFINE obj == Object(id, fn, n, Null, 0, Null, <<>>)
           met == MeetsChunks(n, lines)
           result == LoadHashes(obj, lines)
<1>1. /\ HasFields(obj) /\ obj.identifier = id /\ obj.len_hash = n
      /\ obj.chunks_hash = Null
  BY DEF Object, HasFields
<1>2. /\ met # {} => result \in {LeftOpen(obj), LoadCrash}
      /\ met = {} /\ lines = <<>> => result = LoadChunks(obj, <<>>)
      /\ met = {} /\ lines # <<>> /\ Len(lines) <= n => result = LoadCrash
      /\ met = {} /\ lines # <<>> /\ ~(Len(lines) <= n) =>
            result = LoadChunks(WithHashes(obj, [i \in 1..n |-> Hash(lines[i + 1])]),
                                SubSeq(lines, n + 2, Len(lines)))
  <2> HIDE DEF obj
  <2> QED BY <1>1, LoadHashesCases
<1> SUFFICES /\ result.obj.identifier \in {Unset, id}
             /\ result.obj.chunks_hash # Null => result.obj.hashes # Null
  OBVIOUS
<1> HIDE DEF obj, result
<1>3. CASE result = LeftOpen(obj)
  BY <1>1, <1>3 DEF LeftOpen
<1>4. CASE result = LoadCrash
  BY <1>4 DEF LoadCrash, NoObject
<1>5. CASE result = LoadChunks(obj, <<>>)
  BY <1>1, <1>5, LoadChunksKeeps
<1>6. CASE met = {} /\ lines # <<>> /\ ~(Len(lines) <= n)
  <2> DEFINE h == [i \in 1..n |-> Hash(lines[i + 1])]
             o == WithHashes(obj, h)
             rest == SubSeq(lines, n + 2, Len(lines))
  <2>1. h \in Seq(Texts \cup {Unset, Freed})
    BY <1>6, HashesIsASeq
  <2>2. h # Null
    BY <2>1, TextsOK
  <2>3. result = LoadChunks(o, rest)
    BY <1>2, <1>6
  <2> HIDE DEF h, rest
  <2>4. o = Object(obj.identifier, obj.filename, obj.len_hash, h,
                   obj.len_chunk, obj.chunks_hash, obj.chunks_size)
    BY <1>1, HashesSet
  <2> HIDE DEF o
  <2>5. HasFields(o) /\ o.identifier = id /\ o.hashes = h
    BY <1>1, <2>4 DEF HasFields, Object
  <2>6. /\ result.obj.identifier \in {Unset, id}
        /\ result.obj.chunks_hash # Null => result.obj.hashes = h
    BY <2>3, <2>5, LoadChunksKeeps
  <2> QED BY <2>2, <2>6
<1> QED BY <1>2, <1>3, <1>4, <1>5, <1>6

\* For every file: an identifier is the word on the first line, and an object with
\* a list of chunks has one of hashes.
LEMMA LoadOfAny ==
    ASSUME NEW file \in Seq(Lines)
    PROVE  LET o == Load(file).obj
           IN  /\ o.identifier # Unset => file # <<>> /\ o.identifier = file[1].text
               /\ o.chunks_hash # Null => o.hashes # Null
<1> DEFINE named == Scan(file, "ident")
           sized == Scan(named, "filename")
           counted == Scan(sized, "size")
           id == Scanned(file, "ident", Unset)
           fn == Scanned(named, "filename", Unset)
           n == ScannedNumber(counted, "nhashes")
           lines == Scan(counted, "nhashes")
<1>1. named \in Seq(Lines)
  BY ScanIs
<1>2. sized \in Seq(Lines)
  BY <1>1, ScanIs
<1>3. counted \in Seq(Lines)
  BY <1>2, ScanIs
<1>4. lines \in Seq(Lines)
  BY <1>3, ScanIs
<1>5. n \in Nat
  BY <1>3, NumberIs
<1>6. id # Unset => file # <<>> /\ id = file[1].text
  BY DEF Scanned, Tag
<1>7. Load(file) = LoadHashes(WithNames(NoObject, id, fn, n), lines)
  BY DEF Load
<1> HIDE DEF id, fn, n, lines
<1>8. Load(file) = LoadHashes(Object(id, fn, n, Null, 0, Null, <<>>), lines)
  BY <1>7, NamesSet
<1> QED BY <1>4, <1>5, <1>6, <1>8, LoadHashesKeeps

-----------------------------------------------------------------------------
(* A file that is written as packages are.                                 *)

IsPackage(p) ==
    /\ p.identifier \in Texts /\ p.filename \in Texts
    /\ p.hashes \in Seq(Texts) /\ p.chunks \in Seq(Texts)

\* A line whose text is one of Texts.
LEMMA LineIs ==
    ASSUME NEW tag \in Tags, NEW n \in Nat, NEW text \in Texts
    PROVE  /\ Line(tag, n, text) \in Lines
           /\ Line(tag, n, text).tag = tag
           /\ Line(tag, n, text).n = n
           /\ Line(tag, n, text).text = text
  BY DEF Line, Lines

\* A title is a line.
LEMMA TitleIs ==
    ASSUME NEW tag \in Tags
    PROVE  Title(tag) \in Lines /\ Title(tag).tag = tag
<1> DEFINE t == <<"title">>
<1>1. t \in Texts
  BY TextsOK, Zenon
<1>2. Title(tag) = Line(tag, 0, t)
  BY DEF Title
<1> HIDE DEF t
<1> QED BY <1>1, <1>2, LineIs

\* Which line is where: the five of the header, the hashes, the two that introduce
\* the chunks, and these.
Layout(p, W, H, K) ==
    /\ H \in Nat /\ K \in Nat /\ W \in Seq(Lines) /\ Len(W) = 7 + H + K
    /\ W[1].tag = "ident" /\ W[1].text = p.identifier
    /\ W[2].tag = "filename" /\ W[2].text = p.filename
    /\ W[3].tag = "size"
    /\ W[4].tag = "nhashes" /\ W[4].n = H
    /\ W[5].tag = "hashes"
    /\ \A i \in 1..H : W[5 + i].tag = "hash" /\ W[5 + i].text = p.hashes[i]
    /\ W[6 + H].tag = "nchunks" /\ W[6 + H].n = K
    /\ W[7 + H].tag = "chunks"
    /\ \A i \in 1..K : /\ W[7 + H + i].tag = "chunk" /\ W[7 + H + i].n = 3
                       /\ W[7 + H + i].text = p.chunks[i]

LEMMA WrittenIs ==
    ASSUME NEW p, IsPackage(p)
    PROVE  Layout(p, Written(p), Len(p.hashes), Len(p.chunks))
<1> DEFINE H == Len(p.hashes)
           K == Len(p.chunks)
           a1 == Line("ident", 0, p.identifier)
           a2 == Line("filename", 0, p.filename)
           a3 == Line("size", 0, <<>>)
           a4 == Line("nhashes", H, <<>>)
           a5 == Title("hashes")
           c1 == Line("nchunks", K, <<>>)
           c2 == Title("chunks")
           A == <<a1, a2, a3, a4, a5>>
           B == [i \in DOMAIN p.hashes |-> Line("hash", 0, p.hashes[i])]
           C == <<c1, c2>>
           D == [i \in DOMAIN p.chunks |-> Line("chunk", 3, p.chunks[i])]
<1>1. /\ H \in Nat /\ DOMAIN p.hashes = 1..H /\ \A i \in 1..H : p.hashes[i] \in Texts
      /\ K \in Nat /\ DOMAIN p.chunks = 1..K /\ \A i \in 1..K : p.chunks[i] \in Texts
  BY LenProperties DEF IsPackage
<1>2. Written(p) = ((A \o B) \o C) \o D
  BY DEF Written
<1>3. /\ a1 \in Lines /\ a1.tag = "ident" /\ a1.text = p.identifier
      /\ a2 \in Lines /\ a2.tag = "filename" /\ a2.text = p.filename
  BY LineIs DEF IsPackage, Tags
<1>4. /\ a3 \in Lines /\ a3.tag = "size"
      /\ a4 \in Lines /\ a4.tag = "nhashes" /\ a4.n = H
      /\ c1 \in Lines /\ c1.tag = "nchunks" /\ c1.n = K
  <2>1. <<>> \in Texts
    BY TextsOK
  <2> QED BY <1>1, <2>1, LineIs DEF Tags
<1>5. /\ a5 \in Lines /\ a5.tag = "hashes"
      /\ c2 \in Lines /\ c2.tag = "chunks"
  BY TitleIs DEF Tags
<1>6. /\ B \in Seq(Lines) /\ Len(B) = H
      /\ \A i \in 1..H : B[i].tag = "hash" /\ B[i].text = p.hashes[i]
  <2>1. \A i \in 1..H : /\ Line("hash", 0, p.hashes[i]) \in Lines
                        /\ Line("hash", 0, p.hashes[i]).tag = "hash"
                        /\ Line("hash", 0, p.hashes[i]).text = p.hashes[i]
    BY <1>1, LineIs DEF Tags
  <2>2. B \in [1..H -> Lines] /\ \A i \in 1..H : B[i] = Line("hash", 0, p.hashes[i])
    BY <1>1, <2>1
  <2> HIDE DEF B
  <2>3. B \in Seq(Lines) /\ Len(B) = H
    BY <1>1, <2>2
  <2> QED BY <2>1, <2>2, <2>3
<1>7. /\ D \in Seq(Lines) /\ Len(D) = K
      /\ \A i \in 1..K : D[i].tag = "chunk" /\ D[i].n = 3 /\ D[i].text = p.chunks[i]
  <2>1. \A i \in 1..K : /\ Line("chunk", 3, p.chunks[i]) \in Lines
                        /\ Line("chunk", 3, p.chunks[i]).tag = "chunk"
                        /\ Line("chunk", 3, p.chunks[i]).n = 3
                        /\ Line("chunk", 3, p.chunks[i]).text = p.chunks[i]
    BY <1>1, LineIs DEF Tags
  <2>2. D \in [1..K -> Lines] /\ \A i \in 1..K : D[i] = Line("chunk", 3, p.chunks[i])
    BY <1>1, <2>1
  <2> HIDE DEF D
  <2>3. D \in Seq(Lines) /\ Len(D) = K
    BY <1>1, <2>2
  <2> QED BY <2>1, <2>2, <2>3
<1> HIDE DEF a1, a2, a3, a4, a5, c1, c2, B, D, H, K
<1>8. /\ A \in Seq(Lines) /\ Len(A) = 5
      /\ A[1] = a1 /\ A[2] = a2 /\ A[3] = a3 /\ A[4] = a4 /\ A[5] = a5
      /\ C \in Seq(Lines) /\ Len(C) = 2 /\ C[1] = c1 /\ C[2] = c2
  BY <1>3, <1>4, <1>5
<1> HIDE DEF A, C
<1> DEFINE AB == A \o B
           ABC == AB \o C
           W == ABC \o D
<1>9. /\ AB \in Seq(Lines) /\ Len(AB) = 5 + H
      /\ \A i \in 1..5 : AB[i] = A[i]
      /\ \A i \in 1..H : AB[5 + i] = B[i]
  <2>1. /\ AB \in Seq(Lines) /\ Len(AB) = Len(A) + Len(B)
        /\ \A i \in 1..Len(A) : AB[i] = A[i]
        /\ \A i \in 1..Len(B) : AB[Len(A) + i] = B[i]
    <3>1. A \in Seq(Lines) /\ B \in Seq(Lines)
      BY <1>6, <1>8
    <3> QED BY <3>1, ConcatIs
  <2> QED BY <1>6, <1>8, <2>1
<1> HIDE DEF AB
<1>10. /\ ABC \in Seq(Lines) /\ Len(ABC) = 7 + H
       /\ \A i \in 1..(5 + H) : ABC[i] = AB[i]
       /\ \A i \in 1..2 : ABC[(5 + H) + i] = C[i]
  <2>1. 5 + H \in Nat /\ (5 + H) + 2 = 7 + H
    BY <1>1
  <2>2. /\ ABC \in Seq(Lines) /\ Len(ABC) = Len(AB) + Len(C)
        /\ \A i \in 1..Len(AB) : ABC[i] = AB[i]
        /\ \A i \in 1..Len(C) : ABC[Len(AB) + i] = C[i]
    <3>1. AB \in Seq(Lines) /\ C \in Seq(Lines)
      BY <1>8, <1>9
    <3> QED BY <3>1, ConcatIs
  <2> QED BY <1>8, <1>9, <2>1, <2>2
<1> HIDE DEF ABC
<1>11. /\ W \in Seq(Lines) /\ Len(W) = 7 + H + K
       /\ \A i \in 1..(7 + H) : W[i] = ABC[i]
       /\ \A i \in 1..K : W[(7 + H) + i] = D[i]
  <2>1. 7 + H \in Nat
    BY <1>1
  <2>2. /\ W \in Seq(Lines) /\ Len(W) = Len(ABC) + Len(D)
        /\ \A i \in 1..Len(ABC) : W[i] = ABC[i]
        /\ \A i \in 1..Len(D) : W[Len(ABC) + i] = D[i]
    <3>1. ABC \in Seq(Lines) /\ D \in Seq(Lines)
      BY <1>7, <1>10
    <3> QED BY <3>1, ConcatIs
  <2> QED BY <1>7, <1>10, <2>1, <2>2
<1>12. W = Written(p)
  BY <1>2 DEF AB, ABC
<1> HIDE DEF W
<1>13. W[1] = a1 /\ W[2] = a2 /\ W[3] = a3 /\ W[4] = a4 /\ W[5] = a5
  <2>1. \A i \in 1..5 : i \in 1..(5 + H) /\ i \in 1..(7 + H)
    BY <1>1
  <2>2. \A i \in 1..5 : W[i] = A[i]
    BY <1>9, <1>10, <1>11, <2>1
  <2> QED BY <1>8, <2>2
<1>14. \A i \in 1..H : W[5 + i] = B[i]
  <2>1. \A i \in 1..H : 5 + i \in 1..(5 + H) /\ 5 + i \in 1..(7 + H)
    BY <1>1
  <2> QED BY <1>9, <1>10, <1>11, <2>1
<1>15. W[6 + H] = c1 /\ W[7 + H] = c2
  <2>1. (5 + H) + 1 = 6 + H /\ (5 + H) + 2 = 7 + H /\ 6 + H \in 1..(7 + H) /\ 7 + H \in 1..(7 + H)
    BY <1>1
  <2>2. ABC[(5 + H) + 1] = C[1] /\ ABC[(5 + H) + 2] = C[2]
    BY <1>10
  <2> QED BY <1>8, <1>11, <2>1, <2>2
<1> SUFFICES Layout(p, W, H, K)
  BY <1>12 DEF H, K
<1>16. /\ W[1].tag = "ident" /\ W[1].text = p.identifier
       /\ W[2].tag = "filename" /\ W[2].text = p.filename
  BY <1>3, <1>13
<1>17. /\ W[3].tag = "size" /\ W[4].tag = "nhashes" /\ W[4].n = H /\ W[5].tag = "hashes"
  BY <1>4, <1>5, <1>13
<1>18. /\ W[6 + H].tag = "nchunks" /\ W[6 + H].n = K /\ W[7 + H].tag = "chunks"
  BY <1>4, <1>5, <1>15
<1>19. \A i \in 1..H : W[5 + i].tag = "hash" /\ W[5 + i].text = p.hashes[i]
  BY <1>6, <1>14
<1>20. \A i \in 1..K : /\ W[7 + H + i].tag = "chunk" /\ W[7 + H + i].n = 3
                       /\ W[7 + H + i].text = p.chunks[i]
  BY <1>7, <1>11
<1> QED BY <1>1, <1>11, <1>16, <1>17, <1>18, <1>19, <1>20 DEF Layout

\* A header line that is the one asked for.
LEMMA ScanOwn ==
    ASSUME NEW lines, NEW tag, Tag(lines) = tag
    PROVE  Scan(lines, tag) = AfterBlanks(Tail(lines))
<1>1. {Tag(lines), tag} # {"nhashes", "nchunks"}
  OBVIOUS
<1> QED BY <1>1, Zenon DEF Scan

\* The same with another line behind it.
LEMMA Scanning ==
    ASSUME NEW W \in Seq(Lines), NEW k \in 1..Len(W), k < Len(W), NEW tag,
           W[k].tag = tag, W[k + 1].tag # "blank"
    PROVE  /\ Scan(From(W, k), tag) = From(W, k + 1)
           /\ Tag(From(W, k)) = tag
           /\ From(W, k)[1] = W[k]
<1>1. Len(W) \in Nat /\ k \in 1..(Len(W) + 1) /\ k + 1 \in 1..(Len(W) + 1)
      /\ 2 \in 1..(Len(W) + 2 - k) /\ 1 \in 1..(Len(W) + 1 - k)
      /\ 1 \in 1..(Len(W) + 1 - (k + 1)) /\ k + 1 <= Len(W)
      /\ k + 1 - 1 = k /\ (k + 1) + 1 - 1 = k + 1 /\ k + 2 - 1 = k + 1
  OBVIOUS
<1>2. From(W, k) \in Seq(Lines) /\ From(W, k) # <<>> /\ From(W, k)[1] = W[k]
  BY <1>1, FromIs
<1>3. From(W, k + 1) \in Seq(Lines) /\ From(W, k + 1) # <<>> /\ From(W, k + 1)[1] = W[k + 1]
  <2> DEFINE m == k + 1
  <2>1. Len(W) \in Nat /\ m \in 1..(Len(W) + 1) /\ 1 \in 1..(Len(W) + 1 - m) /\ m <= Len(W) /\ m + 1 - 1 = m
    BY <1>1
  <2> HIDE DEF m
  <2>2. /\ From(W, m) \in Seq(Lines)
        /\ \A i \in 1..(Len(W) + 1 - m) : From(W, m)[i] = W[m + i - 1]
        /\ m <= Len(W) => From(W, m) # <<>>
    BY <2>1, FromIs
  <2>3. From(W, m)[1] = W[m]
    BY <2>1, <2>2
  <2> QED BY <2>1, <2>2, <2>3 DEF m
<1>4. Tail(From(W, k)) = From(From(W, k), 2)
  BY <1>2, TailIsFrom
<1>5. From(From(W, k), 2) = From(W, k + 2 - 1)
  BY <1>1, FromFrom
<1>6. AfterBlanks(From(W, k + 1)) = From(W, k + 1)
  BY <1>3, AfterBlanksIs
<1>7. Tag(From(W, k)) = tag
  BY <1>2 DEF Tag
<1>8. Scan(From(W, k), tag) = AfterBlanks(Tail(From(W, k)))
  BY <1>7, ScanOwn
<1> QED BY <1>1, <1>2, <1>4, <1>5, <1>6, <1>7, <1>8

\* bpkg_load makes of a package's file the object that stands for it.
THEOREM LoadsWritten ==
    ASSUME NEW p, IsPackage(p)
    PROVE  Load(Written(p)) = Loaded(ObjectOf(p))
<1> DEFINE W == Written(p)
           H == Len(p.hashes)
           K == Len(p.chunks)
<1>1. Layout(p, W, H, K)
  BY WrittenIs
<1> HIDE DEF W, H, K
<1>a. H \in Nat /\ K \in Nat /\ W \in Seq(Lines) /\ Len(W) = 7 + H + K
  BY <1>1 DEF Layout
<1>b. /\ W[1].tag = "ident" /\ W[1].text = p.identifier
      /\ W[2].tag = "filename" /\ W[2].text = p.filename
      /\ W[3].tag = "size"
      /\ W[4].tag = "nhashes" /\ W[4].n = H
      /\ W[5].tag = "hashes"
  BY <1>1 DEF Layout
<1>c. \A i \in 1..H : W[5 + i].tag = "hash" /\ W[5 + i].text = p.hashes[i]
  BY <1>1 DEF Layout
<1>d. W[6 + H].tag = "nchunks" /\ W[6 + H].n = K /\ W[7 + H].tag = "chunks"
  BY <1>1 DEF Layout
<1>e. \A i \in 1..K : /\ W[7 + H + i].tag = "chunk" /\ W[7 + H + i].n = 3
                       /\ W[7 + H + i].text = p.chunks[i]
  BY <1>1 DEF Layout
<1>2. W = From(W, 1)
  BY <1>a, SubSeqFull DEF From
<1>3. /\ Scan(From(W, 1), "ident") = From(W, 2) /\ Tag(From(W, 1)) = "ident"
      /\ From(W, 1)[1] = W[1]
  <2>1. 1 \in 1..Len(W) /\ 1 < Len(W) /\ W[1].tag = "ident" /\ W[1 + 1].tag # "blank"
    BY <1>a, <1>b
  <2>2. /\ Scan(From(W, 1), "ident") = From(W, 1 + 1) /\ Tag(From(W, 1)) = "ident"
        /\ From(W, 1)[1] = W[1]
    BY <1>a, <2>1, Scanning
  <2> QED BY <2>2
<1>4. /\ Scan(From(W, 2), "filename") = From(W, 3) /\ Tag(From(W, 2)) = "filename"
      /\ From(W, 2)[1] = W[2]
  <2>1. 2 \in 1..Len(W) /\ 2 < Len(W) /\ W[2].tag = "filename" /\ W[2 + 1].tag # "blank"
    BY <1>a, <1>b
  <2>2. /\ Scan(From(W, 2), "filename") = From(W, 2 + 1) /\ Tag(From(W, 2)) = "filename"
        /\ From(W, 2)[1] = W[2]
    BY <1>a, <2>1, Scanning
  <2> QED BY <2>2
<1>5. /\ Scan(From(W, 3), "size") = From(W, 4) /\ Tag(From(W, 3)) = "size"
      /\ From(W, 3)[1] = W[3]
  <2>1. 3 \in 1..Len(W) /\ 3 < Len(W) /\ W[3].tag = "size" /\ W[3 + 1].tag # "blank"
    BY <1>a, <1>b
  <2>2. /\ Scan(From(W, 3), "size") = From(W, 3 + 1) /\ Tag(From(W, 3)) = "size"
        /\ From(W, 3)[1] = W[3]
    BY <1>a, <2>1, Scanning
  <2> QED BY <2>2
<1>6. /\ Scan(From(W, 4), "nhashes") = From(W, 5) /\ Tag(From(W, 4)) = "nhashes"
      /\ From(W, 4)[1] = W[4]
  <2>1. 4 \in 1..Len(W) /\ 4 < Len(W) /\ W[4].tag = "nhashes" /\ W[4 + 1].tag # "blank"
    BY <1>a, <1>b
  <2>2. /\ Scan(From(W, 4), "nhashes") = From(W, 4 + 1) /\ Tag(From(W, 4)) = "nhashes"
        /\ From(W, 4)[1] = W[4]
    BY <1>a, <2>1, Scanning
  <2> QED BY <2>2
<1> DEFINE obj == Object(p.identifier, p.filename, H, Null, 0, Null, <<>>)
           lines == From(W, 5)
<1>7. Load(W) = LoadHashes(obj, lines)
  <2>1. Scanned(W, "ident", Unset) = p.identifier
    BY <1>b, <1>2, <1>3 DEF Scanned
  <2>2. Scanned(From(W, 2), "filename", Unset) = p.filename
    BY <1>b, <1>4 DEF Scanned
  <2>3. ScannedNumber(From(W, 4), "nhashes") = H
    BY <1>b, <1>6 DEF ScannedNumber
  <2>4. Scan(W, "ident") = From(W, 2)
    BY <1>2, <1>3
  <2>5. Load(W) = LoadHashes(WithNames(NoObject, Scanned(W, "ident", Unset),
                                Scanned(Scan(W, "ident"), "filename", Unset),
                                ScannedNumber(Scan(Scan(Scan(W, "ident"), "filename"), "size"), "nhashes")),
                             Scan(Scan(Scan(Scan(W, "ident"), "filename"), "size"), "nhashes"))
    BY Zenon DEF Load
  <2>6. Load(W) = LoadHashes(WithNames(NoObject, p.identifier, p.filename, H), lines)
    BY <1>4, <1>5, <1>6, <2>1, <2>2, <2>3, <2>4, <2>5
  <2> QED BY <2>6, NamesSet
<1>8. /\ lines \in Seq(Lines) /\ Len(lines) = 3 + H + K /\ lines # <<>>
      /\ \A i \in 1..(3 + H + K) : lines[i] = W[5 + i - 1]
  <2>1. 5 \in 1..(Len(W) + 1) /\ Len(W) + 1 - 5 = 3 + H + K /\ 5 <= Len(W)
    BY <1>a
  <2>2. /\ lines \in Seq(Lines) /\ Len(lines) = Len(W) + 1 - 5 /\ lines # <<>>
        /\ \A i \in 1..(Len(W) + 1 - 5) : lines[i] = W[5 + i - 1]
    BY <1>a, <2>1, FromIs
  <2> QED BY <2>1, <2>2
<1> HIDE DEF lines
<1>9. \A i \in 1..H : lines[i + 1] = W[5 + i]
  <2>1. \A i \in 1..H : i + 1 \in 1..(3 + H + K) /\ 5 + (i + 1) - 1 = 5 + i
    BY <1>a
  <2> QED BY <1>8, <2>1
<1> DEFINE h == [i \in 1..H |-> Hash(lines[i + 1])]
           rest == SubSeq(lines, H + 2, Len(lines))
<1>10. h = p.hashes
  <2>1. \A i \in 1..H : Hash(lines[i + 1]) = p.hashes[i]
    BY <1>c, <1>9 DEF Hash
  <2>2. p.hashes = [i \in 1..H |-> p.hashes[i]]
    BY DEF IsPackage, H
  <2> QED BY <2>1, <2>2
<1>11. rest = From(W, 6 + H)
  <2>1. 5 \in 1..Len(W) /\ H + 2 \in 1..(Len(W) + 2 - 5) /\ 5 + (H + 2) - 1 = 6 + H
    BY <1>a
  <2> DEFINE m == H + 2
  <2>2. m \in 1..(Len(W) + 2 - 5)
    BY <2>1
  <2> HIDE DEF m
  <2>3. From(From(W, 5), m) = From(W, 5 + m - 1)
    BY <1>a, <2>1, <2>2, FromFrom
  <2> QED BY <2>1, <2>3 DEF From, m, lines
<1>12. MeetsChunks(H, lines) = {}
  <2> SUFFICES ASSUME NEW i \in 2..(H + 1), i <= Len(lines), lines[i].tag = "nchunks" PROVE FALSE
    BY DEF MeetsChunks
  <2>1. i - 1 \in 1..H /\ (i - 1) + 1 = i
    BY <1>a
  <2>2. lines[(i - 1) + 1] = W[5 + (i - 1)] /\ W[5 + (i - 1)].tag = "hash"
    BY <1>c, <1>9, <2>1
  <2> QED BY <2>1, <2>2
<1>13. HasFields(obj) /\ obj.len_hash = H /\ obj.identifier = p.identifier /\ obj.filename = p.filename
       /\ obj.len_chunk = 0 /\ obj.chunks_hash = Null /\ obj.chunks_size = <<>>
  BY DEF Object, HasFields
<1>14. ~(Len(lines) <= H)
  BY <1>a, <1>8
<1> HIDE DEF obj, h, rest
<1>15. LoadHashes(obj, lines) = LoadChunks(WithHashes(obj, p.hashes), rest)
  <2>1. /\ MeetsChunks(obj.len_hash, lines) = {} /\ lines # <<>> /\ ~(Len(lines) <= obj.len_hash)
    BY <1>8, <1>12, <1>13, <1>14
  <2>2. LoadHashes(obj, lines) =
            LoadChunks(WithHashes(obj, [i \in 1..obj.len_hash |-> Hash(lines[i + 1])]),
                       SubSeq(lines, obj.len_hash + 2, Len(lines)))
    BY <2>1, LoadHashesCases
  <2> QED BY <1>10, <1>13, <2>2 DEF h, rest
<1> DEFINE o == WithHashes(obj, p.hashes)
<1>16. o = Object(p.identifier, p.filename, H, p.hashes, 0, Null, <<>>)
  BY <1>13, HashesSet
<1> HIDE DEF o
<1>17. HasFields(o) /\ o.identifier = p.identifier /\ o.filename = p.filename
       /\ o.len_hash = H /\ o.hashes = p.hashes
  BY <1>16 DEF Object, HasFields
<1>18. /\ Tag(rest) = "nchunks" /\ rest[1] = W[6 + H]
       /\ Scan(rest, "nchunks") = From(W, 7 + H)
  <2> DEFINE k == 6 + H
  <2>1. k \in 1..Len(W) /\ k < Len(W) /\ k + 1 = 7 + H
    BY <1>a
  <2>2. W[k].tag = "nchunks" /\ W[k + 1].tag # "blank"
    BY <1>d, <2>1
  <2> HIDE DEF k
  <2>3. /\ Scan(From(W, k), "nchunks") = From(W, k + 1)
        /\ Tag(From(W, k)) = "nchunks"
        /\ From(W, k)[1] = W[k]
    BY <1>a, <2>1, <2>2, Scanning
  <2> QED BY <1>11, <2>1, <2>3 DEF k
<1>19. ScannedNumber(rest, "nchunks") = K
  BY <1>d, <1>18 DEF ScannedNumber
<1> DEFINE body == From(W, 7 + H)
<1>20. /\ body # <<>> /\ ~(Len(body) <= K)
       /\ \A i \in 1..K : body[i + 1] = W[7 + H + i]
  <2> DEFINE k == 7 + H
  <2>1. k \in 1..(Len(W) + 1) /\ k <= Len(W) /\ Len(W) + 1 - k = K + 1 /\ k \in Nat
    BY <1>a
  <2> HIDE DEF k
  <2>2. /\ Len(From(W, k)) = Len(W) + 1 - k
        /\ \A i \in 1..(Len(W) + 1 - k) : From(W, k)[i] = W[k + i - 1]
        /\ From(W, k) # <<>>
    <3>1. W \in Seq(Lines)
      BY <1>a
    <3> QED BY <2>1, <3>1, FromIs
  <2>3. \A i \in 1..K : i + 1 \in 1..(K + 1) /\ k + (i + 1) - 1 = k + i
    BY <1>a, <2>1
  <2>4. \A i \in 1..K : From(W, k)[i + 1] = W[k + i]
    BY <2>1, <2>2, <2>3
  <2>5. ~(Len(From(W, k)) <= K)
    BY <1>a, <2>1, <2>2
  <2> QED BY <2>2, <2>4, <2>5 DEF k
<1> DEFINE ch == [i \in 1..K |-> IF Fields(body[i + 1]) = 0 THEN Unset ELSE body[i + 1].text]
           cs == [i \in 1..K |-> IF Fields(body[i + 1]) = 3 THEN 1 ELSE Unset]
<1>21. \A i \in 1..K : Fields(body[i + 1]) = 3 /\ body[i + 1].text = p.chunks[i]
  BY <1>e, <1>20 DEF Fields
<1>22. ch = p.chunks
  <2>1. p.chunks = [i \in 1..K |-> p.chunks[i]]
    BY DEF IsPackage, K
  <2> QED BY <1>21, <2>1
<1>23. cs = [i \in DOMAIN p.chunks |-> 1]
  <2>1. DOMAIN p.chunks = 1..K
    BY DEF IsPackage, K
  <2> QED BY <1>21, <2>1
<1>24. LoadChunks(o, rest) = Loaded(WithChunks(o, K, ch, cs))
  <2>1. Scan(rest, "nchunks") = body
    BY <1>18
  <2> HIDE DEF body
  <2> QED BY <1>19, <1>20, <2>1, LoadChunksCases
<1> HIDE DEF ch, cs
<1>25. WithChunks(o, K, ch, cs) = Object(p.identifier, p.filename, H, p.hashes, K, ch, cs)
  BY <1>17, ChunksSet
<1>26. Object(p.identifier, p.filename, H, p.hashes, K, ch, cs) = ObjectOf(p)
  BY <1>22, <1>23 DEF Object, ObjectOf, H, K
<1> QED BY <1>7, <1>15, <1>24, <1>25, <1>26 DEF W, o
=============================================================================
