------------------------------ MODULE MCPkgChk ------------------------------
(***************************************************************************)
(* Instances of PkgChk for TLC.                                            *)
(***************************************************************************)
EXTENDS PkgChk

\* The package that pkgmake makes of a data file: the chunks' hashes, and those of
\* the internal nodes, from the root down, as far as they pair up.
PkgMake(data) ==
    LET leaves == [i \in DOMAIN data |-> <<data[i]>>]
        Upper[row \in Seq(Seq(Contents))] ==
            IF Len(row) <= 1 THEN <<>>
            ELSE LET up == [j \in 1..(Len(row) \div 2) |-> row[2 * j - 1] \o row[2 * j]]
                 IN  Upper[up] \o up
    IN  [loaded |-> TRUE, chunks |-> leaves, hashes |-> Upper[leaves]]

\* bpkg_load of a path that does not exist.
NotLoaded == [loaded |-> FALSE, chunks |-> <<>>, hashes |-> <<>>]

\* Eight chunks, all different, any of which may be wrong in the file.
Eight == <<"1", "2", "3", "4", "5", "6", "7", "8">>

MCContents == {"a", "b", "c", "x"} \cup Range(Eight)

\* Distinct chunks, repeated chunks, repeated subtrees; perfect trees and others.
MCPackages == {NotLoaded} \cup
    {PkgMake(data) : data \in {
        <<>>, <<"a">>, <<"a", "b">>, <<"a", "a">>, <<"a", "b", "c">>,
        <<"a", "b", "c", "b">>, <<"a", "a", "b", "b">>, <<"a", "b", "a", "b">>,
        <<"a", "a", "a", "b">>, <<"a", "b", "c", "a", "b", "c">>, Eight}}

\* Files shorter than the package, as long, and longer; every mixture of right,
\* misplaced and wrong chunks.
MCFiles ==
    [p \in MCPackages |->
        LET N == Len(p.chunks)
        IN  IF N > 4
            THEN {[i \in 1..N |-> IF i \in good THEN p.chunks[i][1] ELSE "x"] : good \in SUBSET (1..N)}
            ELSE BoundedSeq({c[1] : c \in Range(p.chunks)} \cup {"x"}, N)
                    \cup {<<"a", "b", "c", "b", "a">>}]

MCHashes == {<<"a">>, <<"a", "b">>, <<"c", "b">>, <<"a", "b", "c", "b">>, <<"x">>,
             <<"3", "4">>, <<"5", "6", "7", "8">>}

ASSUME MadeByPkgmake == \A p \in Packages : FromMake(p)

\* Single packages, and files of their length that hold right chunks and wrong ones.
EightPackage == {PkgMake(Eight)}
TwoPackage == {PkgMake(<<"a", "b">>)}
=============================================================================
