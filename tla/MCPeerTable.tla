---------------------------- MODULE MCPeerTable ----------------------------
(***************************************************************************)
(* Instances of PeerTable for TLC.                                         *)
(***************************************************************************)
EXTENDS PeerTable

CONSTANTS o1, o2, i1, i2, i3, i4, i5, target

\* Two attempts to CONNECT to one target; inbound connections from other ports.
MixedAddr == [c \in Conns |-> IF c \in {o1, o2} THEN target ELSE c]

\* Inbound connections only, each from a port of its own.
InboundAddr == [c \in Conns |-> c]

\* What the kernel knew of a connection it no longer keeps is never read again,
\* nor is the socket of a peer_obj that was freed.
StateView ==
    <<size, peers, heap, object, [c \in Conns |-> IF object[c] = "live" THEN socket[c] ELSE 0],
      fds, [c \in Conns |-> IF c \in Held \/ remote[c] = "new" THEN remote[c] ELSE "closed"],
      unread \cap Held, backlog, thread, fault, met>>

\* Nothing is claimed of what follows once CONNECT and accept met in add_peer.
AddsApart == "adds" \notin met

InboundSymmetry == Permutations(Conns)
DialSymmetry == Permutations({o1, o2})

\* Five peers were accepted one after another, before the monitor first looked.
FivePeers == <<i1, i2, i3, i4, i5>>

FiveListed ==
    /\ size = 5 /\ peers = 5
    /\ heap = [b \in 1..5 |-> [live |-> b = 5, cells |-> IF b = 5 THEN FivePeers ELSE <<>>]]
    /\ object = [c \in Conns |-> "live"]
    /\ socket = [c \in Conns |-> CHOOSE f \in Fds : FivePeers[f - FirstFd + 1] = c]
    /\ fds = [f \in Fds |-> FivePeers[f - FirstFd + 1]]
    /\ remote = [c \in Conns |-> "open"]
    /\ unread = {} /\ backlog = {}
    /\ thread = [t \in Threads |-> IF t = "monitor" THEN Polling(0) ELSE Rest]
    /\ fault = "none"
    /\ met = {}

FiveSpec == FiveListed /\ [][Next]_vars
=============================================================================
