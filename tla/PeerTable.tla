------------------------------ MODULE PeerTable ------------------------------
(***************************************************************************)
(* The peer table of btide (all_peers) and the three threads that use it:  *)
(* the command loop (CONNECT, DISCONNECT, PEERS), accept_connections and   *)
(* check_disconnection.  peers_mutex is declared and never taken, so the   *)
(* threads interleave at every access to what they share.  A step is one   *)
(* load or store of shared memory in the order of the build (gcc -O0), or  *)
(* one system or library call, with the private work around it.            *)
(*                                                                         *)
(* The build runs under the address sanitizer: an access to freed or       *)
(* foreign memory ends the process, freed memory is not handed out again,  *)
(* and realloc always moves.  The kernel is modelled as far as the program *)
(* can tell: the descriptor table (lowest free number first), the listen   *)
(* queue, and what recv with MSG_PEEK says of each connection.             *)
(***************************************************************************)
EXTENDS Integers, SequencesExt

CONSTANTS
    Conns,      \* the TCP connections of a run; each is set up at most once
    AddrOf,     \* [Conns -> addresses]: the far end's "address:port"
    Targets,    \* the addresses the user may CONNECT to: listening ports
    MaxPeers,   \* config->max_peers
    FirstFd,    \* lowest descriptor left once the server listens (4: 0-2, server)
    LastFd,     \* highest descriptor the process may open
    Null,       \* no connection; no address; an array cell that was never written
    Commands,   \* what the user types: of "connect", "disconnect", "peers", "quit"
    FarEnds     \* what far ends do: of "send", "closed", "reset"

ASSUME ConstantsOK ==
    /\ MaxPeers \in Nat \ {0}
    /\ FirstFd \in Nat
    /\ LastFd \in Nat
    /\ Null \notin Conns
    /\ FarEnds \subseteq {"send", "closed", "reset"}

Fds == FirstFd .. LastFd
Addresses == {AddrOf[c] : c \in Conns}

VARIABLES
    size,       \* all_peers->size
    peers,      \* all_peers->peers: which allocation, 0 for NULL
    heap,       \* every allocation of the array, in order: [live, cells]
    object,     \* each connection's peer_obj: "none", "live" or "freed"
    socket,     \* peer_obj->socket
    fds,        \* descriptor -> connection it refers to, or Null
    remote,     \* what the kernel knows of each connection's far end: "new" (no
                \* connection yet), "open", "closed" (end of file), "reset" (an
                \* error is waiting for recv) or "dead" (recv reported the error)
    unread,     \* connections with received bytes that nobody has consumed
    backlog,    \* inbound connections waiting for accept
    thread,     \* each thread's place and registers
    fault,      \* the thread that the sanitizer stopped the process in, or "none"
    met         \* history: "operations" once two threads were inside the table's
                \* functions together, "command" once the command loop was one
                \* of them, "adds" once both were inside add_peer

table == <<size, peers, heap>>
objects == <<object, socket>>
kernel == <<fds, remote, unread, backlog>>
vars == <<table, objects, kernel, thread, fault, met>>

Threads == {"main", "accept", "monitor"}
Adders == {"main", "accept"}

(* A thread's registers.  op is the function or the statement it is in, pc   *)
(* the access that comes next; i counts a loop, at is the monitor's outer    *)
(* one; n is a number at hand: a size, an index or a socket; base and to are *)
(* array addresses that were loaded, to read from and to store to; conn is a *)
(* peer_obj, addr what CONNECT or DISCONNECT was given.                      *)
Rest == [pc |-> "rest", op |-> "none", i |-> 0, at |-> 0, n |-> 0,
         base |-> 0, to |-> 0, conn |-> Null, addr |-> Null]
Polling(i) == [Rest EXCEPT !.pc = "test", !.op = "poll", !.i = i, !.at = i]

Init ==
    /\ size = 0 /\ peers = 0 /\ heap = <<>>
    /\ object = [c \in Conns |-> "none"]
    /\ socket = [c \in Conns |-> 0]
    /\ fds = [f \in Fds |-> Null]
    /\ remote = [c \in Conns |-> "new"]
    /\ unread = {}
    /\ backlog = {}
    /\ thread = [t \in Threads |-> IF t = "monitor" THEN Polling(0) ELSE Rest]
    /\ fault = "none"
    /\ met = {}

-----------------------------------------------------------------------------
(* Helpers.                                                                *)

\* The threads end with the process.
Running == fault = "none" /\ thread["main"].pc \notin {"exited", "killed"}

At(t, pc) == Running /\ thread[t].pc = pc
In(t, op) == thread[t].op = op

\* Thread t goes on with registers r, and the shared state stays as it is.
Become(t, r) == thread' = [thread EXCEPT ![t] = r]
Private == UNCHANGED <<table, objects, kernel, fault>>

\* A mutant: after a removal the monitor's index steps back, as if to meet the
\* shift, also behind entry 0.
ReturnedBack(t) == IF t = "monitor" THEN Polling(thread[t].at - 1) ELSE Rest

\* The function returns: the monitor goes on with its next entry.
Returned(t) == IF t = "monitor" THEN Polling(thread[t].at + 1) ELSE Rest

Scan(t, op, n) == [thread[t] EXCEPT !.pc = "test", !.op = op, !.i = 0, !.n = n, !.conn = Null]

Crash(t) ==
    /\ fault' = t
    /\ UNCHANGED <<table, objects, kernel, thread>>

\* The kernel hands out the lowest descriptor that is free.
LowestFree(f) ==
    /\ f \in Fds
    /\ fds[f] = Null
    /\ \A g \in Fds : fds[g] = Null => f <= g

\* The connections the kernel still keeps for this process.
Held == (backlog \cup {fds[f] : f \in Fds}
            \cup (IF thread["monitor"].pc = "recv" THEN {thread["monitor"].conn} ELSE {})) \ {Null}

\* Cell k of the allocation b may be accessed; a peer_obj may be read.
InArray(b, k) == b \in DOMAIN heap /\ heap[b].live /\ k \in DOMAIN heap[b].cells
Alive(c) == c # Null /\ object[c] = "live"

\* The connection that a number refers to.
Behind(n) == IF n \in Fds THEN fds[n] ELSE Null

\* close() of descriptor number f.
Close(f) == fds' = [g \in Fds |-> IF g = f THEN Null ELSE fds[g]]

-----------------------------------------------------------------------------
(* The loops over the table: i < size, peers, peers[i], and what it points  *)
(* to.  find_peer ("connect", "look", "disconnect"), print_peers ("print",  *)
(* and "printed" for the second look at the entry), the monitor ("poll",    *)
(* "gone"), remove_peer ("remove" and, for its inner loop, "shift").  What  *)
(* was found is read once more by "listed" (the socket connect_peer         *)
(* returns), "send", "hangup", "drop", "close" and "free".                  *)

ByAddress == {"connect", "look", "disconnect"}
BySocket == {"remove", "gone"}
Scans == ByAddress \cup BySocket \cup {"print"}

\* Mutants: the shift reads one cell too many, or stops one too early.
EndOver(t) == size
EndShort(t) == IF In(t, "shift") THEN size - 2 ELSE size

End(t) == IF In(t, "shift") THEN size - 1 ELSE size

TestOn(t) ==
    /\ At(t, "test")
    /\ thread[t].i < End(t)
    /\ Become(t, [thread[t] EXCEPT !.pc = "array"])
    /\ Private

\* The loop is over: find_peer and remove_peer found nothing, the monitor
\* sleeps and starts again, the shift is done.
TestOver(t) ==
    /\ At(t, "test")
    /\ thread[t].i >= End(t)
    /\ \/ In(t, "connect") /\ Become(t, [Rest EXCEPT !.pc = "socket", !.addr = thread[t].addr])
       \/ In(t, "shift") /\ Become(t, [thread[t] EXCEPT !.pc = "decrement"])
       \/ In(t, "poll") /\ Become(t, Polling(0))
       \/ thread[t].op \in Scans \ {"connect"} /\ Become(t, Returned(t))
    /\ Private

\* The address of the array: to read a cell, for realloc, to store a cell.
LoadArray(t) ==
    /\ \/ At(t, "array") /\ Become(t, [thread[t] EXCEPT !.base = peers,
                                       !.pc = IF In(t, "shift") THEN "slot" ELSE "cell"])
       \/ At(t, "old") /\ Become(t, [thread[t] EXCEPT !.base = peers, !.pc = "realloc"])
       \/ At(t, "slot") /\ Become(t, [thread[t] EXCEPT !.to = peers,
                                      !.pc = IF In(t, "shift") THEN "cell" ELSE "index"])
    /\ Private

\* peers[i], in the shift peers[j + 1].
LoadCell(t) ==
    /\ At(t, "cell")
    /\ LET me == thread[t]
           k == IF In(t, "shift") THEN me.i + 2 ELSE me.i + 1
       IN  IF ~InArray(me.base, k)
           THEN Crash(t)
           ELSE /\ Become(t, [me EXCEPT !.conn = heap[me.base].cells[k], !.base = 0,
                                        !.pc = IF In(t, "shift") THEN "store" ELSE "look"])
                /\ Private

\* The peer_obj was freed, or the pointer never set.
LookDead(t) ==
    /\ At(t, "look")
    /\ ~Alive(thread[t].conn)
    /\ Crash(t)

\* The entry is the one the loop looks for.
Sought(t) ==
    LET me == thread[t]
    IN  \/ me.op \in ByAddress /\ AddrOf[me.conn] = me.addr
        \/ me.op \in BySocket /\ socket[me.conn] = me.n

LookOn(t) ==
    /\ At(t, "look")
    /\ thread[t].op \in (Scans \ {"print"}) \cup {"printed"}
    /\ Alive(thread[t].conn)
    /\ ~Sought(t)
    /\ Become(t, [thread[t] EXCEPT !.pc = "test", !.i = @ + 1, !.conn = Null,
                                   !.op = IF @ = "printed" THEN "print" ELSE @])
    /\ Private

\* find_peer returns an index, remove_peer has its entry, print_peers the address.
LookFound(t) ==
    LET Go(op, pc) == Become(t, [thread[t] EXCEPT !.op = op, !.pc = pc, !.conn = Null])
    IN  /\ At(t, "look")
        /\ Alive(thread[t].conn)
        /\ Sought(t) \/ In(t, "print")
        /\ \/ In(t, "connect") /\ Go("listed", "array")
           \/ In(t, "look") /\ Go("disconnect", "empty")
           \/ In(t, "disconnect") /\ Go("send", "array")
           \/ In(t, "remove") /\ Go("close", "array")
           \/ In(t, "print") /\ Go("printed", "array")
        /\ Private

\* ->socket of an entry, as the argument of recv, send or close.
LookSocket(t) ==
    /\ At(t, "look")
    /\ thread[t].op \in {"poll", "send", "hangup", "close"}
    /\ Alive(thread[t].conn)
    /\ Become(t, [thread[t] EXCEPT !.pc = "call", !.n = socket[thread[t].conn]])
    /\ Private

-----------------------------------------------------------------------------
(* add_peer, in the command loop and in the accept thread; conn is the new   *)
(* peer_obj.                                                                 *)

\* A mutant: the caller's test is trusted.
AddRoomUntested(t) ==
    /\ At(t, "room")
    /\ Become(t, [thread[t] EXCEPT !.pc = "count"])
    /\ Private

\* size == max_peers is one load.
AddRoom(t) ==
    /\ At(t, "room")
    /\ Become(t, [thread[t] EXCEPT !.pc = IF size = MaxPeers THEN "refuse" ELSE "count"])
    /\ Private

\* No room, or no memory: the socket is closed and the peer_obj, which nobody
\* else knows of, is freed; nothing tells the caller.
AddRefuse(t) ==
    /\ At(t, "refuse")
    /\ Close(socket[thread[t].conn])
    /\ object' = [object EXCEPT ![thread[t].conn] = "freed"]
    /\ Become(t, Rest)
    /\ UNCHANGED <<table, socket, remote, unread, backlog, fault>>

\* A mutant: room for size cells.
AddCountShort(t) ==
    /\ At(t, "count")
    /\ Become(t, [thread[t] EXCEPT !.pc = "old", !.n = size])
    /\ Private

\* size + 1, the second argument of realloc; the build evaluates it first.
AddCount(t) ==
    /\ At(t, "count")
    /\ Become(t, [thread[t] EXCEPT !.pc = "old", !.n = size + 1])
    /\ Private

\* realloc to n cells.  No cells at all give back the old array and NULL; a
\* negative number, or an array that was freed, ends the process.
Realloc(t) ==
    /\ At(t, "realloc")
    /\ LET me == thread[t]
           old == IF me.base = 0 THEN <<>> ELSE heap[me.base].cells
           freed == [b \in DOMAIN heap |->
                        IF b = me.base THEN [live |-> FALSE, cells |-> <<>>] ELSE heap[b]]
           cells == [k \in 1..me.n |-> IF k \in DOMAIN old THEN old[k] ELSE Null]
       IN  IF me.n < 0 \/ (me.base # 0 /\ ~heap[me.base].live)
           THEN Crash(t)
           ELSE /\ IF me.n = 0 /\ me.base # 0
                   THEN /\ heap' = freed
                        /\ Become(t, [me EXCEPT !.pc = "publish", !.base = 0])
                   ELSE /\ heap' = Append(freed, [live |-> TRUE, cells |-> cells])
                        /\ Become(t, [me EXCEPT !.pc = "publish", !.base = Len(heap) + 1])
                /\ UNCHANGED <<size, peers, objects, kernel, fault>>

\* The result is stored ...
AddPublish(t) ==
    /\ At(t, "publish")
    /\ peers' = thread[t].base
    /\ Become(t, [thread[t] EXCEPT !.pc = "null", !.base = 0])
    /\ UNCHANGED <<size, heap, objects, kernel, fault>>

\* A mutant: the new entry is counted before it is stored.
AddNullCounts(t) ==
    /\ At(t, "null")
    /\ size' = size + 1
    /\ Become(t, [thread[t] EXCEPT !.pc = IF peers = 0 THEN "refuse" ELSE "slot"])
    /\ UNCHANGED <<peers, heap, objects, kernel, fault>>

\* ... and loaded again for the comparison with NULL.
AddNull(t) ==
    /\ At(t, "null")
    /\ Become(t, [thread[t] EXCEPT !.pc = IF peers = 0 THEN "refuse" ELSE "slot"])
    /\ Private

AddIndex(t) ==
    /\ At(t, "index")
    /\ Become(t, [thread[t] EXCEPT !.pc = "store", !.n = size])
    /\ Private

\* peers[n] = conn, and in the shift peers[j] = peers[j + 1].
StoreCell(t) ==
    /\ At(t, "store")
    /\ LET me == thread[t]
           k == IF In(t, "add") THEN me.n + 1 ELSE me.i + 1
       IN  IF ~InArray(me.to, k)
           THEN Crash(t)
           ELSE /\ heap' = [heap EXCEPT ![me.to].cells[k] = me.conn]
                /\ Become(t, IF In(t, "add")
                             THEN [me EXCEPT !.pc = "increment", !.to = 0]
                             ELSE [me EXCEPT !.pc = "test", !.i = @ + 1, !.to = 0, !.conn = Null])
                /\ UNCHANGED <<size, peers, objects, kernel, fault>>

\* size++ and size-- are a load ...
AddIncrement(t) ==
    /\ At(t, "increment")
    /\ Become(t, [thread[t] EXCEPT !.pc = "size", !.n = size + 1])
    /\ Private

RemoveDecrement(t) ==
    /\ At(t, "decrement")
    /\ Become(t, [thread[t] EXCEPT !.pc = "size", !.n = size - 1])
    /\ Private

\* ... and a store.
StoreSize(t) ==
    /\ At(t, "size")
    /\ size' = thread[t].n
    /\ Become(t, Returned(t))
    /\ UNCHANGED <<peers, heap, objects, kernel, fault>>

AddPeer(t) ==
    \/ AddRoom(t) \/ AddRefuse(t) \/ AddCount(t) \/ Realloc(t) \/ AddPublish(t)
    \/ AddNull(t) \/ AddIndex(t) \/ AddIncrement(t)

-----------------------------------------------------------------------------
(* remove_peer, once its loop has found the socket: close, free, shift.     *)

RemoveClose(t) ==
    /\ At(t, "call")
    /\ In(t, "close")
    /\ Close(thread[t].n)
    /\ Become(t, [thread[t] EXCEPT !.op = "free", !.pc = "array", !.conn = Null])
    /\ UNCHANGED <<table, objects, remote, unread, backlog, fault>>

RemoveFree(t) ==
    /\ At(t, "look")
    /\ In(t, "free")
    /\ Alive(thread[t].conn)
    /\ object' = [object EXCEPT ![thread[t].conn] = "freed"]
    /\ Become(t, [thread[t] EXCEPT !.op = "shift", !.pc = "test", !.conn = Null])
    /\ UNCHANGED <<table, socket, kernel, fault>>

RemovePeer(t) == RemoveClose(t) \/ RemoveFree(t) \/ RemoveDecrement(t)

-----------------------------------------------------------------------------
(* The command loop.                                                       *)

Ready(command) == At("main", "rest") /\ command \in Commands

\* A mutant: CONNECT does not ask whether the address is listed.
ConnectUnasked(a) ==
    /\ Ready("connect")
    /\ a \in Targets
    /\ \E c \in Conns : AddrOf[c] = a /\ remote[c] = "new"
    /\ size # MaxPeers
    /\ Become("main", [Rest EXCEPT !.pc = "socket", !.addr = a])
    /\ Private

\* connect_peer finds room, by one load; otherwise CONNECT changes nothing.  A
\* run has a bounded number of attempts.
Connect(a) ==
    /\ Ready("connect")
    /\ a \in Targets
    /\ \E c \in Conns : AddrOf[c] = a /\ remote[c] = "new"
    /\ size # MaxPeers
    /\ Become("main", [Scan("main", "connect", 0) EXCEPT !.addr = a])
    /\ Private

\* The address is listed: connect_peer returns the socket of that entry.
ConnectListed ==
    /\ At("main", "look")
    /\ In("main", "listed")
    /\ Alive(thread["main"].conn)
    /\ Become("main", Rest)
    /\ Private

\* socket(), which fails without a free descriptor or memory; connect() blocks.
ConnectSocket ==
    /\ At("main", "socket")
    /\ \/ \E f \in Fds, c \in Conns :
            /\ LowestFree(f)
            /\ AddrOf[c] = thread["main"].addr
            /\ remote[c] = "new"
            /\ fds' = [fds EXCEPT ![f] = c]
            /\ Become("main", [Rest EXCEPT !.pc = "connecting", !.conn = c, !.n = f])
       \/ /\ Become("main", Rest)
          /\ UNCHANGED fds
    /\ UNCHANGED <<table, objects, remote, unread, backlog, fault>>

\* connect() succeeds, and there is a new peer_obj.  Once it is in add_peer,
\* connect_peer will return the socket whatever add_peer does with it.
ConnectDone ==
    /\ At("main", "connecting")
    /\ LET me == thread["main"]
       IN  /\ remote' = [remote EXCEPT ![me.conn] = "open"]
           /\ object' = [object EXCEPT ![me.conn] = "live"]
           /\ socket' = [socket EXCEPT ![me.conn] = me.n]
           /\ Become("main", [Rest EXCEPT !.pc = "room", !.op = "add", !.conn = me.conn])
    /\ UNCHANGED <<table, fds, unread, backlog, fault>>

\* A mutant: the socket stays open.
ConnectRefusedKeepsSocket ==
    /\ At("main", "connecting")
    /\ \E how \in {"closed", "reset"} : remote' = [remote EXCEPT ![thread["main"].conn] = how]
    /\ Become("main", Rest)
    /\ UNCHANGED <<table, objects, fds, unread, backlog, fault>>

\* connect() fails: the socket is closed and -1 returned.  A recv that found the
\* number meanwhile sees the end or an error.
ConnectRefused ==
    /\ At("main", "connecting")
    /\ \E how \in {"closed", "reset"} : remote' = [remote EXCEPT ![thread["main"].conn] = how]
    /\ Close(thread["main"].n)
    /\ Become("main", Rest)
    /\ UNCHANGED <<table, objects, unread, backlog, fault>>

\* DISCONNECT: main asks find_peer first, and disconnect_peer again.
Disconnect(a) ==
    /\ Ready("disconnect")
    /\ a \in Addresses
    /\ Become("main", [Scan("main", "look", 0) EXCEPT !.addr = a])
    /\ Private

DisconnectEmpty ==
    /\ At("main", "empty")
    /\ Become("main", IF size = 0 THEN Rest
                      ELSE [Scan("main", "disconnect", 0) EXCEPT !.addr = thread["main"].addr])
    /\ Private

\* The DSN packet.  A reset is reported once, by recv or by send; after that send
\* raises SIGPIPE, which nothing handles.
DisconnectSend ==
    /\ At("main", "call")
    /\ In("main", "send")
    /\ LET c == Behind(thread["main"].n)
       IN  IF c # Null /\ remote[c] = "dead"
           THEN Become("main", [Rest EXCEPT !.pc = "killed"]) /\ UNCHANGED remote
           ELSE /\ Become("main", [thread["main"] EXCEPT !.op = "hangup", !.pc = "look"])
                /\ remote' = [d \in Conns |-> IF d = c /\ remote[d] = "reset" THEN "dead" ELSE remote[d]]
    /\ UNCHANGED <<table, objects, fds, unread, backlog, fault>>

\* The first of two calls of close: the peer_obj is kept at hand ...
DisconnectClose ==
    /\ At("main", "call")
    /\ In("main", "hangup")
    /\ Close(thread["main"].n)
    /\ Become("main", [thread["main"] EXCEPT !.op = "drop", !.pc = "look"])
    /\ UNCHANGED <<table, objects, remote, unread, backlog, fault>>

\* ... and its socket is looked for by remove_peer.
DisconnectRemove ==
    /\ At("main", "look")
    /\ In("main", "drop")
    /\ Alive(thread["main"].conn)
    /\ Become("main", [Scan("main", "remove", socket[thread["main"].conn]) EXCEPT !.addr = Null])
    /\ Private

Peers ==
    /\ Ready("peers")
    /\ size # 0
    /\ Become("main", Scan("main", "print", 0))
    /\ Private

\* exit(0); destroy_peers is behind the endless loop and never runs.
Quit ==
    /\ Ready("quit")
    /\ Become("main", [Rest EXCEPT !.pc = "exited"])
    /\ Private

Typed == Peers \/ Quit \/ \E a \in Addresses : Connect(a) \/ Disconnect(a)

Command ==
    \/ ConnectListed \/ ConnectSocket \/ ConnectDone \/ ConnectRefused
    \/ DisconnectEmpty \/ DisconnectSend \/ DisconnectClose \/ DisconnectRemove

-----------------------------------------------------------------------------
(* The accept thread: accept() returns a connection and adds its peer.     *)
(* Without a free descriptor accept() fails and the loop tries again.      *)

AcceptConnect(c) ==
    /\ At("accept", "rest")
    /\ c \in backlog
    /\ backlog' = backlog \ {c}
    /\ \E f \in Fds :
        /\ LowestFree(f)
        /\ fds' = [fds EXCEPT ![f] = c]
        /\ socket' = [socket EXCEPT ![c] = f]
    /\ object' = [object EXCEPT ![c] = "live"]
    /\ Become("accept", [Rest EXCEPT !.pc = "room", !.op = "add", !.conn = c])
    /\ UNCHANGED <<table, remote, unread, fault>>

-----------------------------------------------------------------------------
(* The monitor thread.                                                     *)

\* recv begins: it keeps the connection it finds, whatever becomes of the
\* number meanwhile.  A number that was closed, or that connect() has not come
\* to yet, is an error at once.
MonitorRecv ==
    /\ At("monitor", "call")
    /\ In("monitor", "poll")
    /\ LET c == Behind(thread["monitor"].n)
       IN  \/ /\ c # Null => remote[c] = "new"
             /\ Become("monitor", Returned("monitor"))
          \/ /\ c # Null
             /\ Become("monitor", [thread["monitor"] EXCEPT !.pc = "recv", !.conn = c])
    /\ Private

\* recv peeks at a byte and leaves it there: the peer counts as connected.
MonitorPeek ==
    /\ At("monitor", "recv")
    /\ thread["monitor"].conn \in unread
    /\ Become("monitor", Returned("monitor"))
    /\ Private

\* recv returns -1, once, for a connection that was reset: nothing is done.
MonitorError ==
    /\ At("monitor", "recv")
    /\ LET c == thread["monitor"].conn
       IN  /\ c \notin unread
           /\ remote[c] = "reset"
           /\ remote' = [remote EXCEPT ![c] = "dead"]
    /\ Become("monitor", Returned("monitor"))
    /\ UNCHANGED <<table, objects, fds, unread, backlog, fault>>

\* recv returns 0: the entry that now holds the socket number is looked for.
MonitorEof ==
    /\ At("monitor", "recv")
    /\ LET me == thread["monitor"]
       IN  /\ me.conn \notin unread
           /\ remote[me.conn] \in {"closed", "dead"}
           /\ Become("monitor", Scan("monitor", "gone", me.n))
    /\ Private

\* It is found, and remove_peer, which takes a socket, is given its index.
MonitorRemove ==
    /\ At("monitor", "look")
    /\ In("monitor", "gone")
    /\ Alive(thread["monitor"].conn)
    /\ Sought("monitor")
    /\ Become("monitor", Scan("monitor", "remove", thread["monitor"].i))
    /\ Private

Monitor == MonitorRecv \/ MonitorPeek \/ MonitorError \/ MonitorEof \/ MonitorRemove

-----------------------------------------------------------------------------
(* The network and the far ends.                                           *)

\* A far end dials in from a port that no connection of its holds any more.
RemoteConnect(c) ==
    /\ Running
    /\ AddrOf[c] \notin Targets
    /\ remote[c] = "new"
    /\ \A d \in Held : AddrOf[d] # AddrOf[c]
    /\ remote' = [remote EXCEPT ![c] = "open"]
    /\ backlog' = backlog \cup {c}
    /\ UNCHANGED <<table, objects, fds, unread, thread, fault>>

\* The far end sends bytes, a DSN packet for one.
RemoteSend(c) ==
    /\ Running
    /\ "send" \in FarEnds
    /\ c \in Held \ unread
    /\ remote[c] = "open"
    /\ unread' = unread \cup {c}
    /\ UNCHANGED <<table, objects, fds, remote, backlog, thread, fault>>

\* The far end closes in good order, or resets the connection.
RemoteEnd(c) ==
    /\ Running
    /\ c \in Held
    /\ remote[c] = "open"
    /\ \E how \in FarEnds \ {"send"} : remote' = [remote EXCEPT ![c] = how]
    /\ UNCHANGED <<table, objects, fds, unread, backlog, thread, fault>>

Network == \E c \in Conns : RemoteConnect(c) \/ RemoteSend(c) \/ RemoteEnd(c)

-----------------------------------------------------------------------------
\* The statements that several functions have in common.
Access(t) ==
    \/ TestOn(t) \/ TestOver(t) \/ LoadArray(t) \/ LoadCell(t) \/ LookDead(t)
    \/ LookOn(t) \/ LookFound(t) \/ LookSocket(t) \/ StoreCell(t) \/ StoreSize(t)

MainStep == Access("main") \/ AddPeer("main") \/ RemovePeer("main") \/ Command
AcceptStep == Access("accept") \/ AddPeer("accept") \/ \E c \in Conns : AcceptConnect(c)
MonitorStep == Access("monitor") \/ RemovePeer("monitor") \/ Monitor

\* Inside a function of peer.c that uses the table, from the return of the call
\* that blocked: what peers_mutex could have kept apart.  The loop of
\* check_disconnection, which reads the table by itself, is not inside one.
Inside(t) == thread[t].op \notin {"none", "poll"}

Meeting(ts) == \E s, t \in ts : s # t /\ Inside(s) /\ Inside(t)

Together ==
    (IF Meeting(Threads) THEN {"operations"} ELSE {})
    \cup (IF Meeting({"main", "accept"}) \/ Meeting({"main", "monitor"}) THEN {"command"} ELSE {})
    \cup (IF \A t \in Adders : In(t, "add") THEN {"adds"} ELSE {})

Next ==
    /\ Typed \/ MainStep \/ AcceptStep \/ MonitorStep \/ Network
    /\ met' = met \cup Together'

\* The scheduler runs every thread that can run.  Users and far ends owe nothing.
Fairness == WF_vars(MainStep /\ Next) /\ WF_vars(AcceptStep /\ Next) /\ WF_vars(MonitorStep /\ Next)

Spec == Init /\ [][Next]_vars
FairSpec == Spec /\ Fairness

-----------------------------------------------------------------------------
(* Properties.                                                             *)

OpCodes == Scans \cup {"none", "poll", "add", "printed", "listed", "send", "hangup",
                       "drop", "close", "free", "shift"}
Places == {"rest", "exited", "killed", "connecting", "recv", "socket", "empty", "test",
           "array", "cell", "look", "call", "room", "refuse", "count", "old", "realloc",
           "publish", "null", "slot", "index", "store", "increment", "decrement", "size"}
Cells == Conns \cup {Null}
Registers == [pc : Places, op : OpCodes, i : Nat, at : Nat, n : Int,
              base : 0..Len(heap), to : 0..Len(heap),
              conn : Cells, addr : Addresses \cup {Null}]

\* The shape of the state.
TypeOK ==
    /\ size \in Int
    /\ heap \in Seq([live : BOOLEAN, cells : Seq(Cells)])
    /\ peers \in 0..Len(heap)
    /\ object \in [Conns -> {"none", "live", "freed"}]
    /\ socket \in [Conns -> Int]
    /\ fds \in [Fds -> Cells]
    /\ remote \in [Conns -> {"new", "open", "closed", "reset", "dead"}]
    /\ unread \subseteq Conns
    /\ backlog \subseteq Conns
    /\ thread \in [Threads -> Registers]
    /\ fault \in Threads \cup {"none"}
    /\ met \subseteq {"operations", "command", "adds"}

\* The array, wherever realloc has put it, and what the table lists.
Array == IF heap # <<>> /\ heap[Len(heap)].live THEN heap[Len(heap)].cells ELSE <<>>
Listed == {Array[k] : k \in (1..size) \cap DOMAIN Array}

\* While remove_peer shifts, the cell that is written next counts no more.
Hole == IF \E t \in Threads : In(t, "shift")
        THEN thread[CHOOSE t \in Threads : In(t, "shift")].i + 1
        ELSE size + 1
Listing == [k \in 1..(IF Hole > size THEN size ELSE size - 1) |->
                Array[IF k < Hole THEN k ELSE k + 1]]

\* A thread has closed, or is about to close, the socket of an entry that the
\* table still lists.
Removing ==
    \E t \in Threads : \/ thread[t].op \in {"drop", "close", "free"}
                       \/ t = "main" /\ In(t, "remove")

\* The table exceeds max_peers only after CONNECT and accept were inside add_peer
\* at the same time (peer.c:18-37): neither the test before connect(), nor
\* removals that lose an update of size, take it there.
Capacity == "adds" \notin met => size <= MaxPeers

\* As long as no command was inside the table's functions together with another
\* thread, the accept thread accesses only memory that is there: the array it
\* reallocates and the cell it stores to, whatever the monitor removes meanwhile.
AcceptIsSafe == "command" \notin met => fault # "accept"

\* As long as no two threads were inside the functions together, they access only
\* memory that is there.  The loop of check_disconnection is the exception: it
\* reads the table from outside (btide.c:116-117), and needs no other meeting.
OnlyTheLoopFaults ==
    "operations" \notin met /\ fault # "none" => fault = "monitor" /\ In("monitor", "poll")

\* As long as no two threads were inside the functions together, every entry that
\* is counted was written before, and its peer_obj is still there.
EntriesPublished ==
    "operations" \notin met => LET list == Listing IN \A k \in DOMAIN list : Alive(list[k])

\* Entries and descriptors agree whenever nobody removes: an entry's socket is
\* open and still refers to the connection the entry was made for, no two entries
\* share one, and no descriptor is open but those of the entries, the one inside
\* connect() and the one that add_peer was given: whatever returned early gave its
\* socket back.
Ledger ==
    "operations" \notin met /\ ~Removing =>
        LET list == Listing
        IN  /\ \A k \in DOMAIN list : fds[socket[list[k]]] = list[k]
            /\ \A j, k \in DOMAIN list : socket[list[j]] = socket[list[k]] => j = k
            /\ \A f \in Fds : fds[f] # Null =>
                  \/ \E k \in DOMAIN list : list[k] = fds[f]
                  \/ \E t \in Adders : thread[t].conn = fds[f]
                          /\ (thread[t].pc = "connecting" \/ In(t, "add"))

\* CONNECT to a listed address is refused, and the address is still missing from
\* the table when the connection is added: no target is listed twice before two
\* threads meet inside the functions.
TargetsListedOnce ==
    "operations" \notin met =>
        LET list == Listing
        IN  \A j, k \in DOMAIN list :
                AddrOf[list[j]] \in Targets /\ AddrOf[list[j]] = AddrOf[list[k]] => j = k

\* Until two threads meet inside the functions, the table behaves as the bounded
\* list its callers rely on: it is joined when size is stored, left at free().
Connections == INSTANCE PeerList WITH
    list <- Listing,
    spent <- {c \in Conns : object[c] # "none" /\ ~\E t \in Adders : In(t, "add") /\ thread[t].conn = c}

ImplementsPeerList ==
    /\ Connections!Init
    /\ []["operations" \notin met' => Connections!Next \/ UNCHANGED Connections!vars]_vars

\* The monitor removes a peer only if that peer's far end is gone.
EvictsOnlyTheDead ==
    [][\A c \in Conns : thread'["monitor"] # thread["monitor"]
            /\ object[c] = "live" /\ object'[c] = "freed" => remote[c] # "open"]_vars

\* The monitor comes back to every peer for as long as the peer is listed.
EveryPeerIsProbed ==
    \A c \in Conns :
        []<>(c \notin Listed \/ (At("monitor", "recv") /\ thread["monitor"].conn = c) \/ ~Running)

\* When CONNECT reports that a connection is established, its peer is listed.
EstablishedIsListed ==
    [][In("main", "add") /\ thread'["main"] = Rest => thread["main"].conn \in Listed']_vars

\* The close in remove_peer is given a number that is closed already, or that is
\* still the one of the peer it removes.
ClosesItsOwn ==
    [][\A t \in Threads : At(t, "call") /\ In(t, "close") /\ thread'[t] # thread[t]
            => Behind(thread[t].n) \in {Null, thread[t].conn}]_vars
=============================================================================
