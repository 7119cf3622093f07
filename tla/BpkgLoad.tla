------------------------------- MODULE BpkgLoad -------------------------------
(***************************************************************************)
(* bpkg_load: what it makes of the lines of a package file.                *)
(*                                                                         *)
(* A line is [tag, n, text]: what it starts with, the number that follows, *)
(* or for the line of a chunk how many of its three fields there are, and  *)
(* the first word of the rest.  Hashes stand for the contents that were    *)
(* hashed, as in MerkleTree.                                               *)
(***************************************************************************)
EXTENDS Naturals, SequencesExt

CONSTANTS
    Null,       \* a pointer that is NULL
    Unset,      \* memory as malloc returned it
    Freed,      \* memory that was given back
    Texts       \* the words of a line: names, and the contents a hash stands for

ASSUME TextsOK ==
    /\ {<<>>, <<"title">>} \subseteq Texts
    /\ Unset \notin Texts /\ Freed \notin Texts
    /\ Unset # 1
    /\ Null \notin Seq(Texts \cup {Unset, Freed})

\* What a line may start with: whatever is none of the others is rubbish.
Tags == {"ident", "filename", "size", "nhashes", "hashes", "hash",
         "nchunks", "chunks", "chunk", "blank", "rubbish"}

Lines == [tag : Tags, n : Nat, text : Texts]

Line(tag, n, text) == [tag |-> tag, n |-> n, text |-> text]
Title(tag) == Line(tag, 0, <<"title">>)
Rubbish == Title("rubbish")

Tag(lines) == IF lines = <<>> THEN "eof" ELSE lines[1].tag

-----------------------------------------------------------------------------
(* Reading.                                                                *)

\* The white space at the end of a format takes the lines that are blank too.
AfterBlanks(lines) ==
    LET k == SelectInSeq(lines, LAMBDA l : l.tag # "blank")
    IN  IF k = 0 THEN <<>> ELSE SubSeq(lines, k, Len(lines))

\* The lines left after an fscanf for one header line.  Another line is not
\* touched, except that its first letter is gone when it is the one asked for.
Scan(lines, tag) ==
    CASE Tag(lines) = tag -> AfterBlanks(Tail(lines))
      [] {Tag(lines), tag} = {"nhashes", "nchunks"} -> <<Rubbish>> \o Tail(lines)
      [] OTHER -> lines

\* What it stores, if anything.
Scanned(lines, tag, default) == IF Tag(lines) = tag THEN lines[1].text ELSE default
ScannedNumber(lines, tag) == IF Tag(lines) = tag THEN lines[1].n ELSE 0

\* bpkg_obj as bpkg_load sets it up.  The fields of chunks_size that are set go
\* with those of chunks_offset, but for a line that has no third field.
NoObject == [identifier |-> Unset, filename |-> Unset,
             len_hash |-> 0, hashes |-> Null,
             len_chunk |-> 0, chunks_hash |-> Null, chunks_size |-> <<>>]

\* How bpkg_load ends: with the file closed, or left open, or not at all.
Loaded(obj) == [obj |-> obj, end |-> "closed"]
LeftOpen(obj) == [obj |-> obj, end |-> "left open"]
LoadCrash == [obj |-> NoObject, end |-> "crash"]

-----------------------------------------------------------------------------
(* The sections.                                                           *)

\* Variants, here and below: what a plausible slip in the code would do.
\* The commas are counted.
FieldsOfCommas(line) == IF line.tag = "chunk" THEN line.n - 1 ELSE 0

\* The fields of a chunk's line: any other line has no comma.
Fields(line) == IF line.tag = "chunk" THEN line.n ELSE 1

\* An object, its names and its lists.
WithNames(obj, identifier, filename, n) ==
    [obj EXCEPT !.identifier = identifier, !.filename = filename, !.len_hash = n]
WithHashes(obj, hashes) == [obj EXCEPT !.hashes = hashes]
WithChunks(obj, n, hashes, sizes) ==
    [obj EXCEPT !.len_chunk = n, !.chunks_hash = hashes, !.chunks_size = sizes]

\* The chunks: their number, a title that is skipped, a line for each.  At the
\* end of the file the clean-up frees the entry that was to be read, not set yet.
LoadChunks(obj, lines) ==
    LET n == ScannedNumber(lines, "nchunks")
        body == Scan(lines, "nchunks")
    IN  CASE body = <<>> -> Loaded(WithChunks(obj, n, Null, <<>>))
          [] body # <<>> /\ Len(body) <= n -> LoadCrash
          [] OTHER -> Loaded(WithChunks(obj, n,
                [i \in 1..n |-> IF Fields(body[i + 1]) = 0 THEN Unset ELSE body[i + 1].text],
                [i \in 1..n |-> IF Fields(body[i + 1]) = 3 THEN 1 ELSE Unset]))

\* A blank line has no word to store: its entry is freed, and kept.
Hash(line) == IF line.tag = "blank" THEN Freed ELSE line.text

\* The line with the number of chunks, met among the first n hashes.
MeetsChunks(n, lines) ==
    {i \in 2..(n + 1) : i <= Len(lines) /\ lines[i].tag = "nchunks"}

\* The loop is left where bpkg_load returns.
LoadHashesOn(obj, lines) ==
    LET n == obj.len_hash
    IN  CASE MeetsChunks(n, lines) # {} ->
                 LET met == CHOOSE i \in MeetsChunks(n, lines) : \A j \in MeetsChunks(n, lines) : i <= j
                 IN  LoadChunks(obj, SubSeq(lines, met, Len(lines)))
          [] lines = <<>> -> LoadChunks(obj, <<>>)
          [] MeetsChunks(n, lines) = {} /\ lines # <<>> /\ Len(lines) <= n -> LoadCrash
          [] OTHER -> LoadChunks(WithHashes(obj, [i \in 1..n |-> Hash(lines[i + 1])]),
                                 SubSeq(lines, n + 2, Len(lines)))

\* The hashes: a title that is skipped, a line for each.  At the end of the file
\* the clean-up frees the entry that was to be read, not set yet; where the chunks
\* begin too early, it frees a second time the entry of a line that was blank, and
\* the file stays open.
LoadHashes(obj, lines) ==
    LET n == obj.len_hash
        met == MeetsChunks(n, lines)
    IN  CASE met # {} ->
                 IF \E i \in met : \A j \in 2..(i - 1) : lines[j].tag # "blank"
                 THEN LeftOpen(obj) ELSE LoadCrash
          [] lines = <<>> -> LoadChunks(obj, <<>>)
          [] met = {} /\ lines # <<>> /\ Len(lines) <= n -> LoadCrash
          [] OTHER -> LoadChunks(WithHashes(obj, [i \in 1..n |-> Hash(lines[i + 1])]),
                                 SubSeq(lines, n + 2, Len(lines)))

\* bpkg_load of a path that cannot be opened: a name is made up for the data.
LoadNothing == Loaded([NoObject EXCEPT !.filename = <<"made up">>])

\* bpkg_load of a file.
Load(file) ==
    LET named == Scan(file, "ident")
        sized == Scan(named, "filename")
        counted == Scan(sized, "size")
        obj == WithNames(NoObject, Scanned(file, "ident", Unset), Scanned(named, "filename", Unset),
                         ScannedNumber(counted, "nhashes"))
    IN  LoadHashes(obj, Scan(counted, "nhashes"))

\* bpkg_obj_destroy frees every entry of the lists it finds, set or not.
DestroyCrashes(obj) ==
    \/ obj.hashes # Null /\ Freed \in Range(obj.hashes)
    \/ Unset \in Range(obj.chunks_size)
    \* chunks_offset was allocated, and none of its entries set
    \/ obj.chunks_hash = Null /\ obj.len_chunk > 0

-----------------------------------------------------------------------------
(* The format, and what loading promises for it.                           *)

\* A package: its names, the hashes of the internal nodes and of the chunks.
\* The file that holds it, as those in resources/pkgs do.
Written(p) ==
    <<Line("ident", 0, p.identifier), Line("filename", 0, p.filename), Line("size", 0, <<>>),
      Line("nhashes", Len(p.hashes), <<>>), Title("hashes")>>
    \o [i \in DOMAIN p.hashes |-> Line("hash", 0, p.hashes[i])]
    \o <<Line("nchunks", Len(p.chunks), <<>>), Title("chunks")>>
    \o [i \in DOMAIN p.chunks |-> Line("chunk", 3, p.chunks[i])]

\* The object that stands for a package.
ObjectOf(p) ==
    [identifier |-> p.identifier, filename |-> p.filename,
     len_hash |-> Len(p.hashes), hashes |-> p.hashes,
     len_chunk |-> Len(p.chunks), chunks_hash |-> p.chunks,
     chunks_size |-> [i \in DOMAIN p.chunks |-> 1]]
=============================================================================
