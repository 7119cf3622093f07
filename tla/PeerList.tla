------------------------------ MODULE PeerList ------------------------------
(***************************************************************************)
(* What the peer table of btide promises to its callers: a bounded list of *)
(* connections in the order in which they joined.  A connection joins at   *)
(* most once, never when the list is full, and one that has left, or was   *)
(* turned away, does not come back.  PeerTable is shown to implement it.   *)
(***************************************************************************)
EXTENDS Naturals, SequencesExt

CONSTANTS Conns,      \* connections, inbound and outbound
          MaxPeers    \* config->max_peers

VARIABLES list,       \* the connections listed, oldest first
          spent       \* the connections that joined or were turned away

vars == <<list, spent>>

Init == list = <<>> /\ spent = {}

\* A connection that was never seen before joins at the end.
Join(c) ==
    /\ c \notin spent
    /\ Len(list) < MaxPeers
    /\ list' = Append(list, c)
    /\ spent' = spent \cup {c}

\* A connection is turned away: refused by the network or for want of room.
TurnAway(c) ==
    /\ c \notin spent
    /\ spent' = spent \cup {c}
    /\ UNCHANGED list

\* One connection leaves; the others keep their order.
Leave(i) ==
    /\ i \in 1..Len(list)
    /\ list' = RemoveAt(list, i)
    /\ UNCHANGED spent

Next ==
    \/ \E c \in Conns : Join(c) \/ TurnAway(c)
    \/ \E i \in 1..Len(list) : Leave(i)

Spec == Init /\ [][Next]_vars
=============================================================================
