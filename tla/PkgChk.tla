-------------------------------- MODULE PkgChk --------------------------------
(***************************************************************************)
(* The package checker: pkgmain runs one query over a package and its data *)
(* file, one process after another.  What outlives a process is the data   *)
(* file, which grows as chunks arrive and which -file_check creates.       *)
(***************************************************************************)
EXTENDS MerkleTree

CONSTANTS
    Packages,   \* what bpkg_load may return: [loaded, chunks, hashes]
    Contents,   \* the contents a chunk may have
    Files,      \* what a package's data file may hold, as sequences of chunks
    Hashes,     \* the hashes a user may ask -hashes_of for
    NoFile      \* the data file does not exist

ASSUME PackagesOK ==
    /\ Packages \subseteq
          [loaded : BOOLEAN, chunks : Seq(Seq(Contents)), hashes : Seq(Seq(Contents))]
    /\ \A p \in Packages : Files[p] \subseteq Seq(Contents)
    /\ Hashes \subseteq Seq(Contents)
    /\ NoFile \notin Seq(Contents)

\* What pkgmake writes into a package: one hash less than there are chunks, and, when
\* the chunks make a perfect tree, the hash of the whole first and of the internal
\* nodes no other.
FromMake(p) ==
    /\ \A i \in DOMAIN p.chunks : Len(p.chunks[i]) = 1
    /\ Len(p.chunks) <= 1 => p.hashes = <<>>
    /\ Len(p.chunks) > 1 /\ Perfect(Len(p.chunks)) =>
        /\ p.hashes # <<>>
        /\ p.hashes[1] = FlattenSeq(p.chunks)
        /\ \A hash \in Range(p.hashes) : \E h, k \in 1..Len(p.chunks) :
              k * Pow2[h - 1] <= Len(p.chunks) /\ hash = FlattenSeq(Run(p.chunks, h, k))

VARIABLES
    pkg,        \* bpkg_obj: chunks_hash, hashes (root first) and whether the
                \* file was parsed; without it both lists are NULL
    file,       \* the data file
    flag,       \* the query being answered, or answered last
    arg,        \* the hash given to -hashes_of
    pc,         \* "ready", "read" (nodes made, data not read yet), "tree" (in or
                \* after build_merkle_tree), "answered" or "crashed"
    again,      \* -hashes_of is at its second tree, made from chunks_hash
    answer      \* bpkg_query.hashes

vars == <<pkg, file, flag, arg, pc, again, answer, treeVars>>

Flags == {"none", "all_hashes", "file_check", "chunk_check", "min_hashes", "hashes_of",
          "test_tree", "test_data"}

Init ==
    /\ pkg \in Packages
    /\ file = NoFile
    /\ flag = "none"
    /\ arg = <<>>
    /\ pc = "ready"
    /\ again = FALSE
    /\ answer = <<>>
    /\ NoTree

-----------------------------------------------------------------------------
(* Helpers.                                                                *)

\* Between two processes.
AtRest == pc \in {"ready", "answered", "crashed"}

\* A process starts with nothing that an earlier one left in memory.
Fresh == arg' = <<>> /\ again' = FALSE /\ answer' = <<>>

Answer(hashes) ==
    /\ pc' = "answered"
    /\ answer' = hashes
    /\ UNCHANGED <<pkg, file, flag, arg, again, treeVars>>

Crash ==
    /\ pc' = "crashed"
    /\ UNCHANGED <<pkg, file, flag, arg, again, answer, treeVars>>

\* hash_exists
HashExists(hash) == hash \in Range(pkg.hashes) \cup Range(pkg.chunks)

\* The comparison with hashes[0] reads past the array of a package without
\* internal hashes, which the address sanitizer of the build stops.
RootListed == pkg.hashes # <<>>
RootMatches == Root = pkg.hashes[1]

\* The nested loops of bpkg_get_completed_chunks: every pair of a package's chunk
\* and a leaf that are equal is one hash of the answer.
MatchingPairs ==
    LET Pair(i, j) == IF pkg.chunks[i] = rows[1][j] THEN <<rows[1][j]>> ELSE <<>>
    IN  FlattenSeq([i \in DOMAIN pkg.chunks |-> FlattenSeq([j \in DOMAIN rows[1] |-> Pair(i, j)])])

\* Variants, here and below: what a plausible slip in the code would do.
\* The right subtree of an incomplete node is not visited.
CompleteSubtreesLeft ==
    LET Visit[h \in DOMAIN rows] ==
            [k \in DOMAIN rows[h] |->
                (IF h = 1 THEN <<>> ELSE Visit[h - 1][2 * k - 1]) \o
                IF HashExists(rows[h][k]) THEN <<rows[h][k]>> ELSE <<>>]
    IN  Visit[Len(rows)][1]

\* get_root_complete_subtree: left subtree, node, right subtree, without the right
\* subtree of a node that is taken.  The marks that such a node sets on its children
\* are never read: its left child was visited before, its right child will not be.
CompleteSubtrees ==
    LET Visit[h \in DOMAIN rows] ==
            [k \in DOMAIN rows[h] |->
                (IF h = 1 THEN <<>> ELSE Visit[h - 1][2 * k - 1]) \o
                IF HashExists(rows[h][k]) THEN <<rows[h][k]>>
                ELSE IF h = 1 THEN <<>> ELSE Visit[h - 1][2 * k]]
    IN  Visit[Len(rows)][1]

\* in_order_traversal finds node k of level h.  When several nodes match it keeps
\* the last; they stand for the same chunks.
Finds(h, k) ==
    /\ h \in DOMAIN rows
    /\ k \in DOMAIN rows[h]
    /\ rows[h][k] = arg

NotFound == \A h \in DOMAIN rows : \A k \in DOMAIN rows[h] : ~Finds(h, k)

-----------------------------------------------------------------------------
(* The data file, between two processes.                                   *)

\* Chunks arrive, in any order, or the file goes away or is replaced.
DataChanges ==
    /\ AtRest
    /\ file' \in (Files[pkg] \cup {NoFile}) \ {file}
    /\ flag' = "none"
    /\ pc' = "ready"
    /\ Fresh
    /\ FreeTree
    /\ UNCHANGED pkg

-----------------------------------------------------------------------------
(* A process starts: main, up to what reads the data file.                 *)

\* -all_hashes: the internal hashes, then the chunks' hashes.
AllHashes ==
    /\ AtRest
    /\ flag' = "all_hashes"
    /\ pc' = "answered"
    /\ arg' = <<>> /\ again' = FALSE
    /\ answer' = IF pkg.loaded THEN pkg.hashes \o pkg.chunks ELSE <<>>
    /\ FreeTree
    /\ UNCHANGED <<pkg, file>>

\* -file_check: a file that is missing is created, empty.
FileCheck ==
    /\ AtRest
    /\ flag' = "file_check"
    /\ file' = IF file = NoFile THEN <<>> ELSE file
    /\ pc' = "answered"
    /\ Fresh
    /\ FreeTree
    /\ UNCHANGED pkg

\* -file_check without the directory: the clean-up reads what it has just freed.
FileCheckFails ==
    /\ AtRest
    /\ file = NoFile
    /\ flag' = "file_check"
    /\ pc' = "crashed"
    /\ Fresh
    /\ FreeTree
    /\ UNCHANGED <<pkg, file>>

\* -chunk_check and -test_data of a package that was not parsed.
NothingToCheck ==
    /\ AtRest
    /\ ~pkg.loaded
    /\ flag' \in {"chunk_check", "test_data"}
    /\ pc' = "answered"
    /\ Fresh
    /\ FreeTree
    /\ UNCHANGED <<pkg, file>>

\* The other queries make a leaf for each chunk, to be filled from the file.
Query ==
    /\ AtRest
    /\ flag' \in {"chunk_check", "min_hashes", "hashes_of"}
    /\ flag' = "chunk_check" => pkg.loaded
    /\ arg' \in IF flag' = "hashes_of" THEN Hashes ELSE {<<>>}
    /\ again' = FALSE
    /\ answer' = <<>>
    /\ pc' = "read"
    /\ FreeTree
    /\ UNCHANGED <<pkg, file>>

\* -test_tree and -test_data make the leaves from chunks_hash.
TestTree ==
    /\ AtRest
    /\ flag' \in {"test_tree", "test_data"}
    /\ flag' = "test_data" => pkg.loaded
    /\ pc' = "tree"
    /\ Fresh
    /\ StartTree(pkg.chunks)
    /\ UNCHANGED <<pkg, file>>

-----------------------------------------------------------------------------
(* read_data and the tree.                                                 *)

\* The data file cannot be opened.
NoData ==
    /\ pc = "read"
    /\ file = NoFile
    /\ Answer(<<>>)

\* Leaves are made up to the end of the file.
ReadDataToEof ==
    /\ pc = "read"
    /\ file # NoFile
    /\ StartTree([i \in 1..Len(file) |-> <<file[i]>>])
    /\ pc' = "tree"
    /\ UNCHANGED <<pkg, file, flag, arg, again, answer>>

\* One leaf for each chunk of the package.  Past the end of the file fread leaves
\* the buffer as malloc returned it, and whatever is there is hashed.
ReadData ==
    /\ pc = "read"
    /\ file # NoFile
    /\ \E buffer \in Contents :
        StartTree([i \in 1..Len(pkg.chunks) |-> <<IF i <= Len(file) THEN file[i] ELSE buffer>>])
    /\ pc' = "tree"
    /\ UNCHANGED <<pkg, file, flag, arg, again, answer>>

BuildStep ==
    /\ pc = "tree"
    /\ Build
    /\ pc' = IF tree' = "crash" THEN "crashed" ELSE pc
    /\ UNCHANGED <<pkg, file, flag, arg, again, answer>>

Ready(query) == pc = "tree" /\ tree = "built" /\ flag = query

-----------------------------------------------------------------------------
(* The queries.                                                            *)

\* Every tree is scanned, whether its root matches or not.
ChunkCheckScans ==
    /\ Ready("chunk_check")
    /\ HasRoot
    /\ RootListed
    /\ Answer(MatchingPairs)

\* -chunk_check: a matching root answers for every chunk.
ChunkCheck ==
    /\ Ready("chunk_check")
    /\ HasRoot
    /\ RootListed
    /\ Answer(IF RootMatches THEN pkg.chunks ELSE MatchingPairs)

\* The root of an empty tree is dereferenced, or hashes[0] is out of bounds.
ChunkCheckCrash ==
    /\ Ready("chunk_check")
    /\ ~HasRoot \/ ~RootListed
    /\ Crash

\* -min_hashes: a matching root answers for the whole tree.
MinHashes ==
    /\ Ready("min_hashes")
    /\ HasRoot => RootListed
    /\ Answer(IF ~HasRoot THEN <<>>
              ELSE IF RootMatches THEN <<pkg.hashes[1]>>
              ELSE CompleteSubtrees)

MinHashesCrash ==
    /\ Ready("min_hashes")
    /\ HasRoot /\ ~RootListed
    /\ Crash

\* The children of the node, whatever their level.
HashesOfChildren ==
    /\ Ready("hashes_of")
    /\ \E h \in DOMAIN rows, k \in 1..Len(rows[1]) :
        /\ Finds(h, k)
        /\ Answer(IF h = 1 THEN Leaves(h, k)
                  ELSE <<rows[h - 1][2 * k - 1], rows[h - 1][2 * k]>>)

\* -hashes_of: the chunks under the node that has the hash.
HashesOf ==
    /\ Ready("hashes_of")
    /\ \E h \in DOMAIN rows, k \in 1..Len(rows[1]) :
        /\ Finds(h, k)
        /\ Answer(Leaves(h, k))

\* No node has it, and the variable for the node was never set.  When it happens
\* to be NULL, a tree is built from the package's own hashes...
HashesOfRebuild ==
    /\ Ready("hashes_of")
    /\ NotFound
    /\ ~again
    /\ again' = TRUE
    /\ StartTree(pkg.chunks)
    /\ UNCHANGED <<pkg, file, flag, arg, pc, answer>>

\* ... and when that has no such node either, and its variable is NULL too, the
\* answer is empty.
HashesOfNothing ==
    /\ Ready("hashes_of")
    /\ NotFound
    /\ again
    /\ Answer(<<>>)

\* When the variable is not NULL it points nowhere.
HashesOfCrash ==
    /\ Ready("hashes_of")
    /\ NotFound
    /\ Crash

\* -test_tree prints the root, which an empty tree has not.
PrintRoot ==
    /\ Ready("test_tree")
    /\ HasRoot
    /\ Answer(<<Root>>)

PrintRootCrash ==
    /\ Ready("test_tree")
    /\ ~HasRoot
    /\ Crash

\* -test_data prints the tree and frees the list of leaves, which
\* build_merkle_tree has freed already.
TestDataCrash ==
    /\ Ready("test_data")
    /\ Crash

-----------------------------------------------------------------------------
Next ==
    \/ DataChanges
    \/ AllHashes \/ FileCheck \/ FileCheckFails \/ NothingToCheck \/ Query \/ TestTree
    \/ NoData \/ ReadData \/ BuildStep
    \/ ChunkCheck \/ ChunkCheckCrash
    \/ MinHashes \/ MinHashesCrash
    \/ HashesOf \/ HashesOfRebuild \/ HashesOfNothing \/ HashesOfCrash
    \/ PrintRoot \/ PrintRootCrash \/ TestDataCrash

Spec == Init /\ [][Next]_vars
-----------------------------------------------------------------------------
(* Properties.                                                             *)

\* The shape of the state: among others, a tree has one leaf for each chunk of
\* the package, however long the data file is.
TypeOK ==
    /\ pkg \in Packages
    /\ file = NoFile \/ file \in Seq(Contents)
    /\ flag \in Flags
    /\ arg \in Seq(Contents)
    /\ pc \in {"ready", "read", "tree", "answered", "crashed"}
    /\ again \in BOOLEAN
    /\ answer \in Seq(Seq(Contents))
    /\ rows \in Seq(Seq(Seq(Contents)))
    /\ rows # <<>> => Len(rows[1]) = Len(pkg.chunks)
    /\ num_nodes \in Nat /\ level \in Nat /\ warned \in BOOLEAN
    /\ tree \in {"none", "building", "built", "crash"}
    /\ tree = "none" <=> rows = <<>>

Answered(query) == pc = "answered" /\ flag = query /\ tree = "built"

\* -chunk_check names the package's chunks that the data file has, none of the
\* others, and a file that is complete gives each chunk once: the number that
\* add_package compares with len_chunk.
ChunkCheckRight ==
    Answered("chunk_check") =>
        /\ Range(answer) = Range(pkg.chunks) \cap Range(rows[1])
        /\ rows[1] = pkg.chunks => answer = pkg.chunks

\* The hashes of the package.
Known == Range(pkg.hashes) \cup Range(pkg.chunks)

\* Node j of level g is an ancestor of node k of level h, or that node itself.
Above(g, j, h, k) == (j - 1) * Pow2[g - h] < k /\ k <= j * Pow2[g - h]

\* Node k of level h has a proper ancestor whose hash is the package's.
UnderComplete(h, k) ==
    \E g \in (h + 1)..Len(rows) : \E j \in DOMAIN rows[g] : Above(g, j, h, k) /\ rows[g][j] \in Known

\* -min_hashes names no hash that the package has not, and misses no subtree that
\* is complete and not part of a larger one, wherever in the tree it is.
MinHashesRight ==
    Answered("min_hashes") =>
        /\ Range(answer) \subseteq Known
        /\ \A h \in DOMAIN rows : \A k \in DOMAIN rows[h] :
              rows[h][k] \in Known /\ ~UnderComplete(h, k) => rows[h][k] \in Range(answer)

\* -hashes_of, when it answers at all: it names chunks which, joined, are what the
\* hash stands for, and a hash of the package is never unknown, since the tree of
\* the package's own hashes has it.
HashesOfRight ==
    Answered("hashes_of") =>
        /\ answer # <<>> => FlattenSeq(answer) = arg /\ Range(answer) \subseteq Range(rows[1])
        /\ arg \in Known => answer # <<>>

\* The queries come to an answer for a package whose chunks make a perfect tree of
\* at least two leaves, whatever its data file holds.  Three cases are left: the tree
\* of the data was freed twice (pkgchk.c:955), the data file can be neither found nor
\* created (pkgchk.c:290), or no node has the hash asked for (pkgchk.c:693), which
\* cannot be with a hash of the package and the data it was made of.
PerfectTreesAnswer ==
    pc = "crashed" =>
        \/ Len(pkg.chunks) < 2 \/ ~Perfect(Len(pkg.chunks))
        \/ flag = "test_data"
        \/ flag = "file_check" /\ file = NoFile
        \/ flag = "hashes_of" /\ ~(arg \in Known /\ rows[1] = pkg.chunks)

\* -min_hashes gives subtree roots: no chunk lies under two of them.
MinHashesMinimal ==
    Answered("min_hashes") => Len(FlattenSeq(answer)) <= Len(pkg.chunks)

\* All chunks returned means that the data file, when it is long enough for all,
\* is complete.
AllChunksMeansComplete ==
    /\ Answered("chunk_check")
    /\ Len(file) >= Len(pkg.chunks)
    /\ Len(answer) = Len(pkg.chunks)
    => rows[1] = pkg.chunks
=============================================================================
