--------------------------- MODULE MCSha256Stream ---------------------------
(***************************************************************************)
(* An instance of Sha256Stream for TLC: a block of six bytes, the last two *)
(* for the length.                                                         *)
(***************************************************************************)
EXTENDS Sha256Stream

\* Every length up to three blocks and a half, all bytes different, so that one
\* that is lost, repeated or misplaced shows; one message of bytes that look like
\* padding, one whose length in bits does not fit one byte.
MCMessages ==
    {[i \in 1..n |-> i] : n \in 0..20}
    \cup {<<128, 0, 0, 128>>, [i \in 1..33 |-> 7]}
=============================================================================
