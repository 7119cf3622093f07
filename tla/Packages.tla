------------------------------- MODULE Packages -------------------------------
(***************************************************************************)
(* The registry of packages: add_package, from the test for the file to    *)
(* the entry in the array, and remove_package.                             *)
(*                                                                         *)
(* The files are not the program's: what a file holds is decided whenever  *)
(* it is opened, since it may be replaced at any time before.              *)
(***************************************************************************)
EXTENDS BpkgLoad, FiniteSets

CONSTANTS
    BpkgFiles,      \* what a package file may hold, as sequences of lines
    DataFiles,      \* what a data file may hold, as sequences of contents
    Contents,       \* the contents a chunk may have
    Made,           \* the packages as they are made: [identifier, filename, hashes, chunks]
    NoFile,         \* no file, or one that cannot be opened
    MaxPackages     \* bound: no further package is added

VARIABLES
    packages,   \* all_packages->packages: [identifier, status]; its length is size
    adding,     \* add_package under way: where it is and what it has read
    opened,     \* the package file is open
    leaked      \* descriptors that nothing will ever close

ASSUME MaxPackagesOK == MaxPackages \in Nat

ASSUME FilesOK ==
    /\ BpkgFiles \subseteq Seq(Lines)
    /\ NoFile \notin Seq(Lines) /\ NoFile \notin DataFiles

packagesVars == <<packages, adding, opened, leaked>>

NotAdding == [at |-> "none", file |-> NoFile, data |-> NoFile, leaves |-> <<>>, obj |-> NoObject]

PackagesInit ==
    /\ packages = <<>>
    /\ adding = NotAdding
    /\ opened = FALSE
    /\ leaked = 0

\* The process ends, and the kernel closes what it had open.
ForgetPackages == packages' = <<>> /\ adding' = NotAdding /\ opened' = FALSE /\ leaked' = 0

-----------------------------------------------------------------------------
(* bpkg_get_completed_chunks, its tree in one step: MerkleTree and PkgChk   *)
(* have the steps, RowsCover says what its root stands for and              *)
(* PerfectTreesAnswer for which numbers of chunks there is one.             *)

Perfect(n) == \E h \in 0..n : n = 2^h

\* How packages are made: of one chunk at least, and the first of the hashes is that
\* of all the data where the tree is perfect.
ASSUME MadeOK ==
    \A p \in Made :
        /\ p.identifier \in Texts /\ p.filename \in Texts
        /\ p.hashes \in Seq(Texts) /\ p.chunks \in Seq(Texts)
        /\ p.chunks # <<>> /\ \A i \in DOMAIN p.chunks : p.chunks[i] = <<p.chunks[i][1]>>
        /\ Perfect(Len(p.chunks)) /\ p.hashes # <<>> => p.hashes[1] = FlattenSeq(p.chunks)

\* hashes[0] can be read.
HasRootHash(obj) == obj.hashes \notin {Null, <<>>} /\ obj.hashes[1] # Freed

\* The tree, or the comparison of its root, ends the process.
TreeCrashes(obj) ==
    \/ Unset \in Range(obj.chunks_size)
    \/ ~Perfect(obj.len_chunk)
    \/ ~HasRootHash(obj)

\* The number of hashes returned: every chunk when the root matches, otherwise
\* every pair of a chunk and a leaf that are equal.
Matches(obj, leaves) ==
    IF FlattenSeq(leaves) = obj.hashes[1] THEN obj.len_chunk
    ELSE Cardinality({ij \in (1..obj.len_chunk) \X (1..obj.len_chunk) :
                         obj.chunks_hash[ij[1]] = leaves[ij[2]]})

-----------------------------------------------------------------------------
(* add_package.                                                            *)

\* access: the file is there.
AddFound ==
    /\ adding.at = "none"
    /\ adding' = [NotAdding EXCEPT !.at = "found"]
    /\ UNCHANGED <<packages, opened, leaked>>

\* fopen, which needs a descriptor, and the file may be gone by now.
AddOpen(free) ==
    /\ adding.at = "found"
    /\ \E file \in IF free THEN BpkgFiles \cup {NoFile} ELSE {NoFile} :
        /\ adding' = [adding EXCEPT !.at = "open", !.file = file]
        /\ opened' = (file # NoFile)
    /\ UNCHANGED <<packages, leaked>>

LoadOf(file) == IF file = NoFile THEN LoadNothing ELSE Load(file)

\* The names are copied from the object, set or not.
LoadFails ==
    LET result == LoadOf(adding.file)
    IN  result.end = "crash" \/ Unset \in {result.obj.identifier, result.obj.filename}

AddLoad ==
    /\ adding.at = "open"
    /\ ~LoadFails
    /\ adding' = [adding EXCEPT !.at = "loaded", !.obj = LoadOf(adding.file).obj]
    /\ opened' = FALSE
    /\ leaked' = IF LoadOf(adding.file).end = "left open" THEN leaked + 1 ELSE leaked
    /\ UNCHANGED packages

AddLoadCrash ==
    /\ adding.at = "open"
    /\ LoadFails
    /\ UNCHANGED packagesVars

\* The data file is read through a descriptor that stays open.  A package without
\* a list of chunks, or without its data, has no completed chunks.
AddRead(free) ==
    /\ adding.at = "loaded"
    /\ \/ /\ adding' = [adding EXCEPT !.at = "read"]
          /\ UNCHANGED leaked
       \/ /\ adding.obj.chunks_hash # Null
          /\ free
          /\ ~TreeCrashes(adding.obj)
          /\ leaked' = leaked + 1
          /\ \E data \in DataFiles, buffer \in Contents :
                adding' = [adding EXCEPT !.at = "read", !.data = data,
                    !.leaves = [i \in 1..adding.obj.len_chunk |->
                        <<IF i <= Len(data) THEN data[i] ELSE buffer>>]]
    /\ UNCHANGED <<packages, opened>>

AddReadCrash(free) ==
    /\ adding.at = "loaded"
    /\ adding.obj.chunks_hash # Null
    /\ free
    /\ TreeCrashes(adding.obj)
    /\ UNCHANGED packagesVars

Completed == IF adding.data = NoFile THEN 0 ELSE Matches(adding.obj, adding.leaves)

\* Variants, here and below: what a plausible slip in the code would do.
\* Any hash that was returned makes the package complete.
StatusOfSome == IF Completed > 0 THEN 1 ELSE 0

\* Complete when there are as many hashes as chunks.
Status == IF Completed = adding.obj.len_chunk THEN 1 ELSE 0

\* The object is destroyed and the package appended.
AddStore ==
    /\ adding.at = "read"
    /\ ~DestroyCrashes(adding.obj)
    /\ packages' = Append(packages, [identifier |-> adding.obj.identifier, status |-> Status])
    /\ adding' = NotAdding
    /\ UNCHANGED <<opened, leaked>>

AddStoreCrash ==
    /\ adding.at = "read"
    /\ DestroyCrashes(adding.obj)
    /\ UNCHANGED packagesVars

-----------------------------------------------------------------------------
(* remove_package.                                                         *)

Has(ident) == \E i \in DOMAIN packages : packages[i].identifier = ident

FirstOf(ident) ==
    CHOOSE i \in DOMAIN packages :
        /\ packages[i].identifier = ident
        /\ \A j \in 1..(i - 1) : packages[j].identifier # ident

\* The loop begins one entry late.
ShiftedLate(i) ==
    [k \in 1..(Len(packages) - 1) |-> IF k <= i THEN packages[k] ELSE packages[k + 1]]

\* The loop that moves the entries behind i down, and the array one shorter.
Shifted(i) ==
    [k \in 1..(Len(packages) - 1) |-> IF k < i THEN packages[k] ELSE packages[k + 1]]

RemovePackage(ident) ==
    /\ packages' = IF Has(ident) THEN Shifted(FirstOf(ident)) ELSE packages
    /\ UNCHANGED <<adding, opened, leaked>>

-----------------------------------------------------------------------------
(* Properties.                                                             *)

PackagesTypeOK ==
    /\ \A i \in DOMAIN packages : packages[i].status \in {0, 1}
    /\ Len(packages) <= MaxPackages
    /\ adding.at \in {"none", "found", "open", "loaded", "read"}
    /\ opened => adding.at = "open"
    /\ leaked \in Nat

WellFormed(file) == \E p \in Made : file = Written(p)

\* bpkg_load makes of a package's file the package: each hash and each chunk in
\* its place, none missed at a border between two sections.
LoadedAsWritten ==
    adding.at \in {"loaded", "read"} =>
        \A p \in Made : adding.file = Written(p) => adding.obj = ObjectOf(p)

\* Whatever the file, an object with a list of chunks has one of hashes: the queries
\* test for the first and read hashes[0] (pkgchk.c:377, :426).
ChunksImplyHashes ==
    adding.obj.chunks_hash # Null => adding.obj.hashes # Null

\* A package from a well-formed file is listed as complete whenever its data file
\* held, as it was added, every chunk in its place.  The converse is what
\* package.c:45 is after, and it holds up to places only, and only where the chunks,
\* and what the file held, were all different.  Of a file that is not well formed
\* nothing is said: without a chunks section zero of zero are complete (pkgchk.c:148).
CompletedMeansComplete ==
    [][ Len(packages') > Len(packages) /\ WellFormed(adding.file) =>
          LET complete == Last(packages').status = 1
              chunks == adding.obj.chunks_hash
          IN  /\ adding.data # NoFile /\ adding.leaves = chunks => complete
              /\ complete /\ IsInjective(chunks) /\ IsInjective(adding.leaves)
                    => adding.data # NoFile /\ Range(adding.leaves) = Range(chunks)
      ]_packages

\* The identifiers that a package file may hold, on its first line.
Identifiers == {file[1].text : file \in BpkgFiles \ {<<>>}}

R == INSTANCE Registry WITH list <- packages, Idents <- Identifiers

\* The array implements the list of Registry: entries leave oldest first and
\* keep their order and their status.
ImplementsRegistry == R!Spec
=============================================================================
