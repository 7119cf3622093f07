------------------------------ MODULE MerkleTree ------------------------------
(***************************************************************************)
(* build_merkle_tree: the bottom-up construction of the tree over the      *)
(* chunks of a package, one step for each level.                           *)
(*                                                                         *)
(* A hash is modelled by what was hashed: a leaf's is the sequence of the  *)
(* one chunk content it was computed from, and an internal node's is what  *)
(* its children's hashes stand for, joined in order.  Two hashes are equal *)
(* exactly when they stand for the same contents, as with SHA-256 free of  *)
(* collisions.                                                             *)
(***************************************************************************)
EXTENDS Naturals, SequencesExt

VARIABLES
    rows,       \* the levels made so far, leaves first; rows[h][k] is the
                \* computed_hash of node k of level h
    num_nodes,  \* num_nodes of build_merkle_tree
    level,      \* its level, the expected height counting down
    warned,     \* verify_level found a level of the wrong size
    tree        \* "none", "building", "built" or "crash"

treeVars == <<rows, num_nodes, level, warned, tree>>

\* pow(2, n)
Pow2[n \in Nat] == IF n = 0 THEN 1 ELSE 2 * Pow2[n - 1]

\* (size_t)log2(n) + 1.  For n = 0 the conversion is undefined, and no level
\* is ever compared with the result.
Height(n) == IF n = 0 THEN 0 ELSE (CHOOSE p \in 0..n : Pow2[p] <= n /\ n < Pow2[p + 1]) + 1

\* current_nodes
Current == Last(rows)

NoTree ==
    /\ rows = <<>>
    /\ num_nodes = 0
    /\ level = 0
    /\ warned = FALSE
    /\ tree = "none"

\* The memory of a process goes with it.
FreeTree == rows' = <<>> /\ num_nodes' = 0 /\ level' = 0 /\ warned' = FALSE /\ tree' = "none"

\* build_merkle_tree is entered with one node for each chunk.
StartTree(leaves) ==
    /\ rows' = <<leaves>>
    /\ num_nodes' = Len(leaves)
    /\ level' = Height(Len(leaves))
    /\ warned' = FALSE
    /\ tree' = "building"

\* Variants, here and below: what a plausible slip in the code would do.
\* The children joined in the wrong order.
ParentCrossed(j) == Current[2 * j] \o Current[2 * j - 1]

\* The computed_hash of parent j of the next level.
Parent(j) == Current[2 * j - 1] \o Current[2 * j]

\* Rounded the other way.
NextSizeDown == (Len(Current) - 1) \div 2

\* next_level_size
NextSize == (Len(Current) + 1) \div 2

\* The number of nodes just left.
AddedOld == Len(Current)

\* What a round adds to num_nodes.
Added == NextSize

\* The size of the level below.
PerfectSizeBelow == Pow2[level - 1]

\* verify_level: the size that the next level has in a perfect tree.
PerfectSize == Pow2[level - 2]

\* One round of the loop: nodes 2j - 1 and 2j become the children of parent j,
\* and verify_level compares the new level's size with a perfect tree's.
BuildLevel ==
    /\ tree = "building"
    /\ Len(Current) > 1
    /\ Len(Current) % 2 = 0
    /\ rows' = Append(rows, [j \in 1..NextSize |-> Parent(j)])
    /\ num_nodes' = num_nodes + Added
    /\ warned' = (warned \/ NextSize # PerfectSize)
    /\ level' = level - 1
    /\ UNCHANGED tree

\* The last node of an odd level has no right sibling: its parent's right child
\* is set to NULL, and the next statement reads that child's hash.
BuildOdd ==
    /\ tree = "building"
    /\ Len(Current) > 1
    /\ Len(Current) % 2 = 1
    /\ tree' = "crash"
    /\ UNCHANGED <<rows, num_nodes, level, warned>>

\* The loop stops one level early.
BuildDoneEarly ==
    /\ tree = "building"
    /\ Len(Current) <= 2
    /\ tree' = "built"
    /\ UNCHANGED <<rows, num_nodes, level, warned>>

\* One node is left, the root, or none at all.  verify_tree's verdict is unused.
BuildDone ==
    /\ tree = "building"
    /\ Len(Current) <= 1
    /\ tree' = "built"
    /\ UNCHANGED <<rows, num_nodes, level, warned>>

Build == BuildLevel \/ BuildOdd \/ BuildDone

\* tree->root
HasRoot == Current # <<>>
Root == Current[1]

\* traverse_subtree_hashes: the leaves under node k of level h, left to right.
Leaves(h, k) ==
    LET Under[g \in 1..h] ==
            [j \in DOMAIN rows[g] |->
                IF g = 1 THEN <<rows[1][j]>> ELSE Under[g - 1][2 * j - 1] \o Under[g - 1][2 * j]]
    IN  Under[h][k]

-----------------------------------------------------------------------------
(* Properties.                                                             *)

\* The numbers of leaves that make a perfect tree.
Perfect(n) == \E h \in 0..n : n = Pow2[h]

\* The leaves, of all in s, that are under node k of level h of a perfect tree.
Run(s, h, k) == SubSeq(s, (k - 1) * Pow2[h - 1] + 1, k * Pow2[h - 1])

\* num_nodes counts every node exactly once, at every level: two nodes for each
\* leaf but for those that still wait for a parent.
NodesCounted == tree # "none" => num_nodes + Len(Current) = 2 * Len(rows[1])

\* A node stands for the run of chunks that its place in the tree says, in
\* the order of the file: neither joined crosswise, nor skipped, nor repeated.
RowsCover ==
    \A h \in DOMAIN rows : \A k \in DOMAIN rows[h] :
        rows[h][k] = FlattenSeq(Run(rows[1], h, k))

\* The message about a level of the wrong size comes with the first level
\* already, for each chunk count that cannot give a perfect tree, and for no other.
WarningIsRight ==
    Len(rows) > 1 => (warned <=> ~Perfect(Len(rows[1])))

\* A tree that is finished is perfect: of the height and with the number of nodes
\* that verify_tree, whose answer is dropped, would have asked for.
BuiltIsPerfect ==
    tree = "built" /\ Len(rows[1]) > 0 =>
        /\ Len(rows) = Height(Len(rows[1]))
        /\ num_nodes = Pow2[Height(Len(rows[1]))] - 1
=============================================================================
