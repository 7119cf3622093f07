------------------------------- MODULE Registry -------------------------------
(***************************************************************************)
(* What the registry of packages promises to the user of btide: a list in  *)
(* the order of adding, from which one package at a time is taken, the     *)
(* oldest that has the identifier asked for.  What is listed about a       *)
(* package never changes.  Packages is shown to implement it.              *)
(***************************************************************************)
EXTENDS Naturals, SequencesExt

CONSTANTS Idents,       \* identifiers of packages
          MaxPackages   \* how many are ever listed at a time

VARIABLE list           \* the packages, [identifier, status], oldest first

Init == list = <<>>

\* A package joins at the end; one identifier may be listed several times.
Add(ident, status) ==
    /\ Len(list) < MaxPackages
    /\ list' = Append(list, [identifier |-> ident, status |-> status])

\* The oldest package of that identifier leaves; the others keep their order.
Take(ident) ==
    \E i \in DOMAIN list :
        /\ list[i].identifier = ident
        /\ \A j \in 1..(i - 1) : list[j].identifier # ident
        /\ list' = RemoveAt(list, i)

\* The process ends, and its memory with it.
Forget == list' = <<>>

Next ==
    \/ \E ident \in Idents : Take(ident) \/ \E status \in {0, 1} : Add(ident, status)
    \/ Forget

Spec == Init /\ [][Next]_list
=============================================================================
