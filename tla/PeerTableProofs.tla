--------------------------- MODULE PeerTableProofs ---------------------------
(***************************************************************************)
(* Proofs about PeerTable, for any set of connections and any bounds.      *)
(***************************************************************************)
EXTENDS PeerTable, TLAPS

-----------------------------------------------------------------------------
(* Types.                                                                  *)

\* What a thread's registers may hold.
LEMMA Reading ==
    ASSUME TypeOK, NEW t \in Threads
    PROVE  /\ thread[t] \in Registers
           /\ thread[t].pc \in Places /\ thread[t].op \in OpCodes
           /\ thread[t].i \in Nat /\ thread[t].at \in Nat /\ thread[t].n \in Int
           /\ thread[t].base \in 0..Len(heap) /\ thread[t].to \in 0..Len(heap)
           /\ thread[t].conn \in Conns \cup {Null} /\ thread[t].addr \in Addresses \cup {Null}
BY DEF TypeOK, Registers, Cells

\* The registers that a thread starts, sleeps and scans with.
LEMMA RestTyped ==
    ASSUME heap \in Seq([live : BOOLEAN, cells : Seq(Cells)])
    PROVE  /\ Rest \in Registers
           /\ \A k \in Nat : Polling(k) \in Registers
<1>1. Len(heap) \in Nat
  OBVIOUS
<1>2. {"rest", "test"} \subseteq Places /\ {"none", "poll"} \subseteq OpCodes
  BY DEF Places, OpCodes
<1>3. Rest \in Registers
  BY <1>1, <1>2 DEF Rest, Registers, Cells
<1>4. ASSUME NEW k \in Nat
      PROVE  Polling(k) \in Registers
  BY <1>2, <1>3, <1>4 DEF Polling, Registers
<1> QED BY <1>3, <1>4

\* A step that only changes the registers of one thread.
LEMMA BecomeTyped ==
    ASSUME TypeOK, NEW t \in Threads, NEW r \in Registers, Become(t, r), Private,
           met' \subseteq {"operations", "command", "adds"}
    PROVE  TypeOK'
<1>1. /\ UNCHANGED <<size, peers, heap, object, socket, fds, remote, unread, backlog, fault>>
      /\ thread' = [thread EXCEPT ![t] = r]
  BY DEF Private, Become, table, objects, kernel
<1>2. Registers' = Registers
  BY <1>1 DEF Registers
<1>3. thread' \in [Threads -> Registers]
  BY <1>1 DEF TypeOK
<1> QED BY <1>1, <1>2, <1>3 DEF TypeOK

\* Registers that change together.
LEMMA UpdatesTyped ==
    ASSUME NEW r \in Registers
    PROVE  /\ \A pc \in Places : [r EXCEPT !.pc = pc] \in Registers
           /\ \A pc \in Places, n \in Int : [r EXCEPT !.pc = pc, !.n = n] \in Registers
           /\ \A pc \in Places, b \in 0..Len(heap) : [r EXCEPT !.base = b, !.pc = pc] \in Registers
           /\ \A pc \in Places, b \in 0..Len(heap) : [r EXCEPT !.pc = pc, !.base = b] \in Registers
           /\ \A pc \in Places, b \in 0..Len(heap) : [r EXCEPT !.to = b, !.pc = pc] \in Registers
           /\ \A pc \in Places, c \in Cells, b \in 0..Len(heap) :
                [r EXCEPT !.conn = c, !.base = b, !.pc = pc] \in Registers
           /\ \A pc \in Places, i \in Nat, b \in 0..Len(heap), c \in Cells :
                [r EXCEPT !.pc = pc, !.i = i, !.to = b, !.conn = c] \in Registers
           /\ \A pc \in Places, i \in Nat, c \in Cells, op \in OpCodes :
                [r EXCEPT !.pc = pc, !.i = i, !.conn = c, !.op = op] \in Registers
           /\ \A pc \in Places, op \in OpCodes, c \in Cells :
                [r EXCEPT !.op = op, !.pc = pc, !.conn = c] \in Registers
           /\ \A pc \in Places, op \in OpCodes : [r EXCEPT !.op = op, !.pc = pc] \in Registers
           /\ \A pc \in Places, op \in OpCodes, i \in Nat, n \in Int, c \in Cells :
                [r EXCEPT !.pc = pc, !.op = op, !.i = i, !.n = n, !.conn = c] \in Registers
           /\ \A pc \in Places, op \in OpCodes, c \in Cells :
                [r EXCEPT !.pc = pc, !.op = op, !.conn = c] \in Registers
           /\ \A pc \in Places, n \in Int, c \in Cells :
                [r EXCEPT !.pc = pc, !.conn = c, !.n = n] \in Registers
           /\ \A pc \in Places, c \in Cells : [r EXCEPT !.pc = pc, !.conn = c] \in Registers
           /\ \A pc \in Places, a \in Addresses \cup {Null} :
                [r EXCEPT !.pc = pc, !.addr = a] \in Registers
           /\ \A a \in Addresses \cup {Null} : [r EXCEPT !.addr = a] \in Registers
BY DEF Registers

\* What an array holds.
LEMMA CellTyped ==
    ASSUME heap \in Seq([live : BOOLEAN, cells : Seq(Cells)]), NEW b, NEW k, InArray(b, k)
    PROVE  /\ b \in 1..Len(heap)
           /\ heap[b] \in [live : BOOLEAN, cells : Seq(Cells)]
           /\ heap[b].cells \in Seq(Cells) /\ k \in 1..Len(heap[b].cells)
           /\ heap[b].cells[k] \in Cells
<1>1. b \in 1..Len(heap)
  BY DEF InArray
<1>2. \A S : heap \in Seq(S) => heap[b] \in S
  BY <1>1
<1>3. heap[b] \in [live : BOOLEAN, cells : Seq(Cells)] /\ heap[b].cells \in Seq(Cells)
  BY <1>2
<1>4. k \in 1..Len(heap[b].cells)
  BY <1>3 DEF InArray
<1> QED BY <1>1, <1>2, <1>3, <1>4

\* A function of the table begins its loop, or returns.
LEMMA ScanTyped ==
    ASSUME TypeOK, NEW t \in Threads, NEW op \in OpCodes, NEW n \in Int
    PROVE  Scan(t, op, n) \in Registers /\ Returned(t) \in Registers
<1>1. thread[t] \in Registers /\ "test" \in Places /\ Null \in Cells /\ 0 \in Nat
  BY Reading DEF Places, Cells
<1>2. thread[t].at + 1 \in Nat
  BY Reading
<1>3. Scan(t, op, n) \in Registers
  BY <1>1, UpdatesTyped DEF Scan
<1> QED BY <1>2, <1>3, RestTyped DEF Returned, TypeOK

LEMMA AccessTyped ==
    ASSUME TypeOK, NEW t \in Threads, Access(t), met' \subseteq {"operations", "command", "adds"}
    PROVE  TypeOK'
<1> DEFINE me == thread[t]
<1>r. /\ me \in Registers
      /\ me.i \in Nat /\ me.at \in Nat /\ me.n \in Int
      /\ me.base \in 0..Len(heap) /\ me.to \in 0..Len(heap)
      /\ me.conn \in Cells /\ me.addr \in Addresses \cup {Null}
      /\ me.op \in OpCodes
  BY Reading DEF Cells
<1>z. /\ Rest \in Registers
      /\ \A k \in Nat : Polling(k) \in Registers
      /\ Returned(t) \in Registers
  BY RestTyped, ScanTyped DEF TypeOK, OpCodes
<1>t. /\ heap \in Seq([live : BOOLEAN, cells : Seq(Cells)])
      /\ peers \in 0..Len(heap)
      /\ socket \in [Conns -> Int]
      /\ Len(heap) \in Nat /\ 0 \in 0..Len(heap) /\ me.i + 1 \in Nat
  BY <1>r DEF TypeOK
<1>p. /\ {"array", "socket", "decrement", "slot", "cell", "realloc", "index", "store", "look",
          "test", "empty", "call", "increment"} \subseteq Places
      /\ {"listed", "disconnect", "send", "close", "print", "printed"} \subseteq OpCodes
      /\ Null \in Cells
  BY DEF Places, OpCodes, Scans, ByAddress, BySocket, Cells
<1>1. CASE TestOn(t)
  <2>1. [me EXCEPT !.pc = "array"] \in Registers
    BY <1>r, <1>p, UpdatesTyped
  <2> QED BY <1>1, <2>1, BecomeTyped DEF TestOn
<1>2. CASE TestOver(t)
  <2>1. [Rest EXCEPT !.pc = "socket", !.addr = me.addr] \in Registers
    BY <1>r, <1>z, <1>p, UpdatesTyped
  <2>2. [me EXCEPT !.pc = "decrement"] \in Registers
    BY <1>r, <1>p, UpdatesTyped
  <2>3. Polling(0) \in Registers
    BY <1>z
  <2> HIDE DEF me
  <2>4. Private /\ \E r \in Registers : Become(t, r)
    BY <1>2, <1>z, <2>1, <2>2, <2>3 DEF TestOver, me
  <2> QED BY <2>4, BecomeTyped
<1>3. CASE LoadArray(t)
  <2>1. \A pc \in Places : [me EXCEPT !.base = peers, !.pc = pc] \in Registers
    BY <1>t, <1>r, UpdatesTyped
  <2>2. \A pc \in Places : [me EXCEPT !.to = peers, !.pc = pc] \in Registers
    BY <1>t, <1>r, UpdatesTyped
  <2> QED BY <1>3, <1>p, <2>1, <2>2, BecomeTyped DEF LoadArray
<1>c. CASE Crash(t)
  BY <1>c DEF Crash, TypeOK, table, objects, kernel, Registers
<1>4. CASE LoadCell(t) /\ ~Crash(t)
  <2> DEFINE k == IF In(t, "shift") THEN me.i + 2 ELSE me.i + 1
  <2>1. InArray(me.base, k)
    BY <1>4 DEF LoadCell
  <2>3. heap[me.base].cells[k] \in Cells
    BY <1>t, <2>1, CellTyped
  <2>4. \A pc \in Places : [me EXCEPT !.conn = heap[me.base].cells[k], !.base = 0, !.pc = pc] \in Registers
    BY <1>t, <1>r, <2>3, UpdatesTyped
  <2>5. Private /\ \E pc \in {"store", "look"} :
            Become(t, [me EXCEPT !.conn = heap[me.base].cells[k], !.base = 0, !.pc = pc])
    BY <1>4, <2>1 DEF LoadCell
  <2> QED BY <1>p, <2>4, <2>5, BecomeTyped
<1>5. CASE LookDead(t)
  BY <1>5, <1>c DEF LookDead
<1>6. CASE LookOn(t)
  <2>1. \A op \in OpCodes : [me EXCEPT !.pc = "test", !.i = @ + 1, !.conn = Null, !.op = op] \in Registers
    BY <1>r, <1>t, <1>p, UpdatesTyped
  <2> QED BY <1>6, <1>r, <1>p, <2>1, BecomeTyped DEF LookOn
<1>7. CASE LookFound(t)
  <2>1. \A op \in OpCodes, pc \in Places : [me EXCEPT !.op = op, !.pc = pc, !.conn = Null] \in Registers
    BY <1>r, <1>p, UpdatesTyped
  <2> QED BY <1>7, <1>p, <2>1, BecomeTyped DEF LookFound
<1>8. CASE LookSocket(t)
  <2>1. socket[me.conn] \in Int
    BY <1>8, <1>r, <1>t DEF LookSocket, Alive, Cells
  <2>2. [me EXCEPT !.pc = "call", !.n = socket[me.conn]] \in Registers
    BY <1>r, <1>p, <2>1, UpdatesTyped
  <2> QED BY <1>8, <2>2, BecomeTyped DEF LookSocket
<1>9. CASE StoreCell(t) /\ ~Crash(t)
  <2> DEFINE k == IF In(t, "add") THEN me.n + 1 ELSE me.i + 1
             b == me.to
             cells == heap[b].cells
             after == [me EXCEPT !.pc = "increment", !.to = 0]
             again == [me EXCEPT !.pc = "test", !.i = @ + 1, !.to = 0, !.conn = Null]
  <2>1. /\ InArray(me.to, k)
        /\ heap' = [heap EXCEPT ![me.to].cells[k] = me.conn]
        /\ Become(t, after) \/ Become(t, again)
        /\ UNCHANGED <<size, peers, objects, kernel, fault>>
    BY <1>9 DEF StoreCell
  <2>2. /\ cells \in Seq(Cells) /\ k \in 1..Len(cells) /\ b \in 1..Len(heap)
        /\ heap[b] \in [live : BOOLEAN, cells : Seq(Cells)]
    BY <1>t, <2>1, CellTyped
  <2>7. after \in Registers /\ again \in Registers
    <3>1. \A pc \in Places : [me EXCEPT !.pc = pc, !.to = 0] \in Registers
      BY <1>r, <1>t DEF Registers
    <3> QED BY <1>r, <1>p, <1>t, <3>1, UpdatesTyped
  <2>6. heap' \in Seq([live : BOOLEAN, cells : Seq(Cells)]) /\ Len(heap') = Len(heap)
    <3> DEFINE stored == [cells EXCEPT ![k] = me.conn]
    <3>1. stored \in Seq(Cells)
      BY <1>r, <2>2
    <3>2. heap' = [heap EXCEPT ![b] = [heap[b] EXCEPT !.cells = stored]]
      BY <2>1
    <3> HIDE DEF stored, b, k, me
    <3>3. [heap[b] EXCEPT !.cells = stored] \in [live : BOOLEAN, cells : Seq(Cells)]
      BY <2>2, <3>1
    <3> QED BY <1>t, <2>2, <3>2, <3>3
  <2>8. Registers' = Registers
    BY <2>6 DEF Registers
  <2>9. thread' \in [Threads -> Registers]
    BY <2>1, <2>7 DEF Become, TypeOK
  <2>10. peers' \in 0..Len(heap')
    BY <1>t, <2>1, <2>6
  <2> HIDE DEF me, b, k, cells, after, again
  <2> QED BY <2>1, <2>6, <2>8, <2>9, <2>10 DEF TypeOK, objects, kernel
<1>10. CASE StoreSize(t)
  <2>1. thread' \in [Threads -> Registers]
    BY <1>10, <1>z DEF StoreSize, Become, TypeOK
  <2>2. size' \in Int /\ UNCHANGED <<peers, heap, objects, kernel, fault>>
    BY <1>10, <1>r DEF StoreSize
  <2> QED BY <2>1, <2>2 DEF TypeOK, Registers, objects, kernel
<1> QED BY <1>1, <1>2, <1>3, <1>c, <1>4, <1>5, <1>6, <1>7, <1>8, <1>9, <1>10 DEF Access

LEMMA AddPeerTyped ==
    ASSUME TypeOK, NEW t \in Threads, AddPeer(t), met' \subseteq {"operations", "command", "adds"}
    PROVE  TypeOK'
<1> DEFINE me == thread[t]
<1>r. /\ me \in Registers /\ me.n \in Int /\ me.base \in 0..Len(heap) /\ me.conn \in Cells
      /\ Rest \in Registers
  BY Reading, RestTyped DEF Cells, TypeOK
<1>t. /\ heap \in Seq([live : BOOLEAN, cells : Seq(Cells)])
      /\ size \in Int /\ size + 1 \in Int /\ Len(heap) \in Nat /\ 0 \in 0..Len(heap)
  BY DEF TypeOK
<1>p. /\ {"refuse", "count", "old", "publish", "null", "slot", "store", "size"} \subseteq Places
      /\ Null \in Cells
  BY DEF Places, Cells
<1>1. CASE AddRoom(t)
  <2>1. \A pc \in Places : [me EXCEPT !.pc = pc] \in Registers
    BY <1>r, UpdatesTyped
  <2> QED BY <1>1, <1>p, <2>1, BecomeTyped DEF AddRoom
<1>2. CASE AddRefuse(t)
  <2>1. fds' \in [Fds -> Cells]
    BY <1>2, <1>p DEF AddRefuse, Close, TypeOK
  <2>2. object' \in [Conns -> {"none", "live", "freed"}]
    BY <1>2 DEF AddRefuse, TypeOK
  <2>3. thread' \in [Threads -> Registers] /\ Registers' = Registers
    BY <1>2, <1>r DEF AddRefuse, Become, TypeOK, Registers, table
  <2> QED BY <1>2, <2>1, <2>2, <2>3 DEF AddRefuse, TypeOK, table
<1>3. CASE AddCount(t)
  <2>1. [me EXCEPT !.pc = "old", !.n = size + 1] \in Registers
    BY <1>r, <1>t, <1>p, UpdatesTyped
  <2> QED BY <1>3, <2>1, BecomeTyped DEF AddCount
<1>4. CASE Realloc(t)
  <2> DEFINE old == IF me.base = 0 THEN <<>> ELSE heap[me.base].cells
             freed == [b \in DOMAIN heap |->
                        IF b = me.base THEN [live |-> FALSE, cells |-> <<>>] ELSE heap[b]]
             cells == [k \in 1..me.n |-> IF k \in DOMAIN old THEN old[k] ELSE Null]
             H == [live : BOOLEAN, cells : Seq(Cells)]
  <2>1. CASE Crash(t)
    BY <2>1 DEF Crash, TypeOK, table, objects, kernel, Registers
  <2>2. CASE ~Crash(t)
    <3>1. /\ me.n >= 0
          /\ \/ heap' = freed /\ Become(t, [me EXCEPT !.pc = "publish", !.base = 0])
             \/ /\ heap' = Append(freed, [live |-> TRUE, cells |-> cells])
                /\ Become(t, [me EXCEPT !.pc = "publish", !.base = Len(heap) + 1])
          /\ UNCHANGED <<size, peers, objects, kernel, fault>>
      BY <1>4, <1>r, <2>2 DEF Realloc
    <3>2. old \in Seq(Cells)
      <4>1. CASE me.base = 0
        BY <4>1
      <4>2. CASE me.base # 0
        <5>1. heap[me.base] \in H
          <6> HIDE DEF H
          <6>1. heap \in Seq(H) /\ me.base \in 1..Len(heap)
            BY <1>t, <1>r, <4>2 DEF H
          <6> QED BY <6>1
        <5> QED BY <4>2, <5>1
      <4> QED BY <4>1, <4>2
    <3>3. cells \in Seq(Cells)
      <4>1. me.n \in Nat
        BY <1>r, <3>1
      <4> HIDE DEF me, old
      <4>2. \A k \in 1..me.n : cells[k] \in Cells
        BY <1>p, <3>2
      <4> QED BY <4>1, <4>2
    <3>4. [live |-> FALSE, cells |-> <<>>] \in H /\ [live |-> TRUE, cells |-> cells] \in H
      BY <3>3
    <3>5. freed \in Seq(H) /\ Len(freed) = Len(heap)
      <4> HIDE DEF H
      <4>1. heap \in Seq(H)
        BY <1>t DEF H
      <4>2. DOMAIN heap = 1..Len(heap)
        BY <4>1
      <4>3. \A b \in 1..Len(heap) : freed[b] \in H
        BY <3>4, <4>1, <4>2
      <4> QED BY <1>t, <4>2, <4>3
    <3>6. heap' \in Seq(H) /\ Len(heap') \in Nat /\ Len(heap') >= Len(heap)
      <4> HIDE DEF H, freed, cells
      <4>1. CASE heap' = freed
        BY <1>t, <3>5, <4>1
      <4>2. CASE heap' = Append(freed, [live |-> TRUE, cells |-> cells])
        BY <1>t, <3>4, <3>5, <4>2
      <4> QED BY <3>1, <4>1, <4>2
    <3>7. thread' \in [Threads -> Registers']
      <4>1. Registers \subseteq Registers'
        BY <1>t, <3>6 DEF Registers
      <4>2. Registers' = [pc : Places, op : OpCodes, i : Nat, at : Nat, n : Int,
                          base : 0..Len(heap'), to : 0..Len(heap'),
                          conn : Cells, addr : Addresses \cup {Null}]
        BY DEF Registers
      <4>3. \A b \in 0..Len(heap') : [me EXCEPT !.pc = "publish", !.base = b] \in Registers'
        <5>1. me \in Registers'
          BY <1>r, <4>1
        <5> HIDE DEF me
        <5> QED BY <1>p, <4>2, <5>1
      <4>4. 0 \in 0..Len(heap') /\ (heap' = Append(freed, [live |-> TRUE, cells |-> cells])
                                        => Len(heap) + 1 \in 0..Len(heap'))
        <5> HIDE DEF freed, cells
        <5> QED BY <1>t, <3>4, <3>5, <3>6
      <4>5. \E r \in Registers' : Become(t, r)
        BY <3>1, <4>3, <4>4
      <4> QED BY <4>1, <4>5 DEF Become, TypeOK
    <3>8. peers' \in 0..Len(heap')
      BY <1>t, <3>1, <3>6 DEF TypeOK
    <3> QED BY <3>1, <3>6, <3>7, <3>8 DEF TypeOK, objects, kernel
  <2> QED BY <2>1, <2>2
<1>5. CASE AddPublish(t)
  <2>1. [me EXCEPT !.pc = "null", !.base = 0] \in Registers
    BY <1>r, <1>t, <1>p, UpdatesTyped
  <2>2. thread' \in [Threads -> Registers] /\ Registers' = Registers
    BY <1>5, <2>1 DEF AddPublish, Become, TypeOK, Registers
  <2> QED BY <1>5, <1>r, <2>2 DEF AddPublish, TypeOK, objects, kernel
<1>6. CASE AddNull(t)
  <2>1. \A pc \in Places : [me EXCEPT !.pc = pc] \in Registers
    BY <1>r, UpdatesTyped
  <2> QED BY <1>6, <1>p, <2>1, BecomeTyped DEF AddNull
<1>7. CASE AddIndex(t)
  <2>1. [me EXCEPT !.pc = "store", !.n = size] \in Registers
    BY <1>r, <1>t, <1>p, UpdatesTyped
  <2> QED BY <1>7, <2>1, BecomeTyped DEF AddIndex
<1>8. CASE AddIncrement(t)
  <2>1. [me EXCEPT !.pc = "size", !.n = size + 1] \in Registers
    BY <1>r, <1>t, <1>p, UpdatesTyped
  <2> QED BY <1>8, <2>1, BecomeTyped DEF AddIncrement
<1> QED BY <1>1, <1>2, <1>3, <1>4, <1>5, <1>6, <1>7, <1>8 DEF AddPeer

LEMMA RemovePeerTyped ==
    ASSUME TypeOK, NEW t \in Threads, RemovePeer(t), met' \subseteq {"operations", "command", "adds"}
    PROVE  TypeOK'
<1> DEFINE me == thread[t]
<1>r. me \in Registers /\ size - 1 \in Int
  BY Reading DEF TypeOK
<1>p. /\ {"array", "test", "size"} \subseteq Places /\ {"free", "shift"} \subseteq OpCodes
      /\ Null \in Cells
  BY DEF Places, OpCodes, Cells
<1>u. \A pc \in Places, op \in OpCodes : [me EXCEPT !.op = op, !.pc = pc, !.conn = Null] \in Registers
  BY <1>r, <1>p, UpdatesTyped
<1>1. CASE RemoveClose(t)
  <2>1. fds' \in [Fds -> Cells]
    BY <1>1, <1>p DEF RemoveClose, Close, TypeOK
  <2>2. thread' \in [Threads -> Registers] /\ Registers' = Registers
    BY <1>1, <1>u, <1>p DEF RemoveClose, Become, TypeOK, Registers, table
  <2> QED BY <1>1, <2>1, <2>2 DEF RemoveClose, TypeOK, table, objects
<1>2. CASE RemoveFree(t)
  <2>1. object' \in [Conns -> {"none", "live", "freed"}]
    BY <1>2 DEF RemoveFree, TypeOK
  <2>2. thread' \in [Threads -> Registers] /\ Registers' = Registers
    BY <1>2, <1>u, <1>p DEF RemoveFree, Become, TypeOK, Registers, table
  <2> QED BY <1>2, <2>1, <2>2 DEF RemoveFree, TypeOK, table, kernel
<1>3. CASE RemoveDecrement(t)
  <2>1. [me EXCEPT !.pc = "size", !.n = size - 1] \in Registers
    BY <1>r, <1>p, UpdatesTyped
  <2> QED BY <1>3, <2>1, BecomeTyped DEF RemoveDecrement
<1> QED BY <1>1, <1>2, <1>3 DEF RemovePeer

LEMMA TypedTyped ==
    ASSUME TypeOK, Typed, met' \subseteq {"operations", "command", "adds"}
    PROVE  TypeOK'
<1>p. /\ {"connect", "look", "print"} \subseteq OpCodes /\ "exited" \in Places
      /\ "main" \in Threads /\ 0 \in Int /\ Rest \in Registers
  BY RestTyped DEF Places, OpCodes, Scans, ByAddress, Threads, TypeOK
<1>s. \A op \in {"connect", "look", "print"} : Scan("main", op, 0) \in Registers
  BY <1>p, ScanTyped
<1>1. \A op \in {"connect", "look"}, a \in Addresses : [Scan("main", op, 0) EXCEPT !.addr = a] \in Registers
  BY <1>s, UpdatesTyped
<1>2. [Rest EXCEPT !.pc = "exited"] \in Registers
  BY <1>p, UpdatesTyped
<1>3. Private /\ \E r \in Registers : Become("main", r)
  BY <1>s, <1>1, <1>2 DEF Typed, Peers, Quit, Connect, Disconnect
<1> QED BY <1>3, <1>p, BecomeTyped

LEMMA CommandTyped ==
    ASSUME TypeOK, Command, met' \subseteq {"operations", "command", "adds"}
    PROVE  TypeOK'
<1> DEFINE me == thread["main"]
<1>r. /\ me \in Registers /\ me.conn \in Cells /\ me.addr \in Addresses \cup {Null}
      /\ Rest \in Registers /\ "main" \in Threads /\ me.n \in Int
  BY Reading, RestTyped DEF Cells, TypeOK, Threads
<1>p. /\ {"connecting", "killed", "look", "room"} \subseteq Places
      /\ {"disconnect", "hangup", "drop", "remove", "add"} \subseteq OpCodes
      /\ Null \in Cells /\ 0 \in Int
  BY DEF Places, OpCodes, Scans, ByAddress, BySocket, Cells
<1>1. CASE ConnectListed
  BY <1>1, <1>r, BecomeTyped DEF ConnectListed
<1>2. CASE ConnectSocket
  <2>1. ASSUME NEW f \in Fds, NEW c \in Conns, fds' = [fds EXCEPT ![f] = c],
               Become("main", [Rest EXCEPT !.pc = "connecting", !.conn = c, !.n = f])
        PROVE  fds' \in [Fds -> Cells] /\ thread' \in [Threads -> Registers]
    <3>1. c \in Cells /\ f \in Int
      BY ConstantsOK DEF Fds, Cells
    <3>2. [Rest EXCEPT !.pc = "connecting", !.conn = c, !.n = f] \in Registers
      BY <1>r, <1>p, <3>1, UpdatesTyped
    <3> QED BY <2>1, <3>1, <3>2 DEF Become, TypeOK
  <2>2. ASSUME Become("main", Rest), UNCHANGED fds
        PROVE  fds' \in [Fds -> Cells] /\ thread' \in [Threads -> Registers]
    BY <1>r, <2>2 DEF Become, TypeOK
  <2>3. fds' \in [Fds -> Cells] /\ thread' \in [Threads -> Registers]
    BY <1>2, <2>1, <2>2 DEF ConnectSocket
  <2> QED BY <1>2, <2>3 DEF ConnectSocket, TypeOK, Registers, table, objects
<1>3. CASE ConnectDone
  <2> SUFFICES ASSUME ConnectDone
               PROVE  TypeOK'
    BY <1>3
  <2>1. remote' \in [Conns -> {"new", "open", "closed", "reset", "dead"}]
    BY DEF ConnectDone, TypeOK
  <2>2. object' \in [Conns -> {"none", "live", "freed"}] /\ socket' \in [Conns -> Int]
    BY <1>r DEF ConnectDone, TypeOK
  <2>3. [Rest EXCEPT !.pc = "room", !.op = "add", !.conn = me.conn] \in Registers
    BY <1>r, <1>p, UpdatesTyped
  <2>4. thread' \in [Threads -> Registers]
    BY <2>3 DEF ConnectDone, Become, TypeOK
  <2> QED BY <2>1, <2>2, <2>4 DEF ConnectDone, TypeOK, Registers, table
<1>4. CASE ConnectRefused
  <2>1. remote' \in [Conns -> {"new", "open", "closed", "reset", "dead"}]
    BY <1>4 DEF ConnectRefused, TypeOK
  <2>2. fds' \in [Fds -> Cells]
    BY <1>4, <1>p DEF ConnectRefused, Close, TypeOK
  <2>3. thread' \in [Threads -> Registers]
    BY <1>4, <1>r DEF ConnectRefused, Become, TypeOK
  <2> QED BY <1>4, <2>1, <2>2, <2>3 DEF ConnectRefused, TypeOK, Registers, table, objects
<1>5. CASE DisconnectEmpty
  <2>1. Scan("main", "disconnect", 0) \in Registers
    BY <1>r, <1>p, ScanTyped
  <2>2. [Scan("main", "disconnect", 0) EXCEPT !.addr = me.addr] \in Registers
    BY <1>r, <2>1, UpdatesTyped
  <2>3. Private /\ \E r \in Registers : Become("main", r)
    BY <1>5, <1>r, <2>2 DEF DisconnectEmpty
  <2> QED BY <1>r, <2>3, BecomeTyped
<1>6. CASE DisconnectSend
  <2>1. remote' \in [Conns -> {"new", "open", "closed", "reset", "dead"}]
    BY <1>6 DEF DisconnectSend, TypeOK
  <2>2. [Rest EXCEPT !.pc = "killed"] \in Registers /\ [me EXCEPT !.op = "hangup", !.pc = "look"] \in Registers
    BY <1>r, <1>p, UpdatesTyped
  <2>3. thread' \in [Threads -> Registers]
    BY <1>6, <2>2 DEF DisconnectSend, Become, TypeOK
  <2> QED BY <1>6, <2>1, <2>3 DEF DisconnectSend, TypeOK, Registers, table, objects
<1>7. CASE DisconnectClose
  <2>1. fds' \in [Fds -> Cells]
    BY <1>7, <1>p DEF DisconnectClose, Close, TypeOK
  <2>2. [me EXCEPT !.op = "drop", !.pc = "look"] \in Registers
    BY <1>r, <1>p, UpdatesTyped
  <2>3. thread' \in [Threads -> Registers]
    BY <1>7, <2>2 DEF DisconnectClose, Become, TypeOK
  <2> QED BY <1>7, <2>1, <2>3 DEF DisconnectClose, TypeOK, Registers, table, objects
<1>8. CASE DisconnectRemove
  <2>1. socket[me.conn] \in Int
    BY <1>8, <1>r DEF DisconnectRemove, Alive, Cells, TypeOK
  <2>2. Scan("main", "remove", socket[me.conn]) \in Registers
    BY <1>r, <1>p, <2>1, ScanTyped
  <2>3. [Scan("main", "remove", socket[me.conn]) EXCEPT !.addr = Null] \in Registers
    BY <2>2, UpdatesTyped
  <2> QED BY <1>8, <1>r, <2>3, BecomeTyped DEF DisconnectRemove
<1> QED BY <1>1, <1>2, <1>3, <1>4, <1>5, <1>6, <1>7, <1>8 DEF Command

LEMMA AcceptTyped ==
    ASSUME TypeOK, NEW c \in Conns, AcceptConnect(c), met' \subseteq {"operations", "command", "adds"}
    PROVE  TypeOK'
<1>1. PICK f \in Fds : fds' = [fds EXCEPT ![f] = c] /\ socket' = [socket EXCEPT ![c] = f]
  BY DEF AcceptConnect
<1>2. f \in Nat /\ c \in Cells
  BY ConstantsOK DEF Fds, Cells
<1>3. fds' \in [Fds -> Cells] /\ socket' \in [Conns -> Int]
  BY <1>1, <1>2 DEF TypeOK
<1>4. object' \in [Conns -> {"none", "live", "freed"}] /\ backlog' \subseteq Conns
  BY DEF AcceptConnect, TypeOK
<1>5. [Rest EXCEPT !.pc = "room", !.op = "add", !.conn = c] \in Registers
  BY <1>2, RestTyped, UpdatesTyped DEF TypeOK, Places, OpCodes
<1>6. thread' \in [Threads -> Registers]
  BY <1>5 DEF AcceptConnect, Become, TypeOK
<1> QED BY <1>3, <1>4, <1>6 DEF AcceptConnect, TypeOK, Registers, table

LEMMA MonitorTyped ==
    ASSUME TypeOK, Monitor, met' \subseteq {"operations", "command", "adds"}
    PROVE  TypeOK'
<1> DEFINE me == thread["monitor"]
<1>m. "monitor" \in Threads /\ "none" \in OpCodes /\ 0 \in Int
  BY DEF Threads, OpCodes
<1>r. /\ me \in Registers /\ me.n \in Int /\ me.i \in Int /\ me.conn \in Cells
      /\ "monitor" \in Threads /\ Returned("monitor") \in Registers
  BY <1>m, Reading, ScanTyped DEF Cells
<1>p. "recv" \in Places /\ {"gone", "remove"} \subseteq OpCodes
  BY DEF Places, OpCodes, Scans, BySocket
<1>1. CASE MonitorRecv
  <2> DEFINE c == Behind(me.n)
  <2>1. c \in Cells
    BY DEF Behind, TypeOK, Cells
  <2>2. CASE Become("monitor", Returned("monitor"))
    BY <1>1, <1>r, <2>2, BecomeTyped DEF MonitorRecv
  <2>3. CASE c # Null /\ Become("monitor", [me EXCEPT !.pc = "recv", !.conn = c])
    <3>1. [me EXCEPT !.pc = "recv", !.conn = c] \in Registers
      BY <1>r, <1>p, <2>1, <2>3, UpdatesTyped
    <3> QED BY <1>1, <1>r, <2>3, <3>1, BecomeTyped DEF MonitorRecv
  <2> QED BY <1>1, <2>2, <2>3 DEF MonitorRecv
<1>2. CASE MonitorPeek
  BY <1>2, <1>r, BecomeTyped DEF MonitorPeek
<1>3. CASE MonitorError
  <2>1. remote' \in [Conns -> {"new", "open", "closed", "reset", "dead"}]
    BY <1>3 DEF MonitorError, TypeOK
  <2>2. thread' \in [Threads -> Registers]
    BY <1>3, <1>r DEF MonitorError, Become, TypeOK
  <2> QED BY <1>3, <2>1, <2>2 DEF MonitorError, TypeOK, Registers, table, objects
<1>4. CASE MonitorEof
  <2>1. Scan("monitor", "gone", me.n) \in Registers
    BY <1>r, <1>p, ScanTyped
  <2> QED BY <1>4, <1>r, <2>1, BecomeTyped DEF MonitorEof
<1>5. CASE MonitorRemove
  <2>1. Scan("monitor", "remove", me.i) \in Registers
    BY <1>r, <1>p, ScanTyped
  <2> QED BY <1>5, <1>r, <2>1, BecomeTyped DEF MonitorRemove
<1> QED BY <1>1, <1>2, <1>3, <1>4, <1>5 DEF Monitor

LEMMA NetworkTyped ==
    ASSUME TypeOK, Network, met' \subseteq {"operations", "command", "adds"}
    PROVE  TypeOK'
<1> PICK c \in Conns : RemoteConnect(c) \/ RemoteSend(c) \/ RemoteEnd(c)
  BY DEF Network
<1>1. CASE RemoteConnect(c)
  <2>1. remote' \in [Conns -> {"new", "open", "closed", "reset", "dead"}] /\ backlog' \subseteq Conns
    BY <1>1 DEF RemoteConnect, TypeOK
  <2> QED BY <1>1, <2>1 DEF RemoteConnect, TypeOK, Registers, table, objects
<1>2. CASE RemoteSend(c)
  BY <1>2 DEF RemoteSend, TypeOK, Registers, table, objects
<1>3. CASE RemoteEnd(c)
  <2>1. remote' \in [Conns -> {"new", "open", "closed", "reset", "dead"}]
    BY <1>3, ConstantsOK DEF RemoteEnd, TypeOK
  <2> QED BY <1>3, <2>1 DEF RemoteEnd, TypeOK, Registers, table, objects
<1> QED BY <1>1, <1>2, <1>3

LEMMA NextTyped ==
    ASSUME TypeOK, [Next]_vars
    PROVE  TypeOK'
<1>1. CASE UNCHANGED vars
  BY <1>1 DEF vars, table, objects, kernel, TypeOK, Registers
<1>2. CASE Next
  <2>1. met' \subseteq {"operations", "command", "adds"}
    BY <1>2 DEF Next, Together, TypeOK
  <2>2. {"main", "accept", "monitor"} \subseteq Threads
    BY DEF Threads
  <2>3. CASE Typed
    BY <2>1, <2>3, TypedTyped
  <2>4. CASE MainStep
    BY <2>1, <2>2, <2>4, AccessTyped, AddPeerTyped, RemovePeerTyped, CommandTyped DEF MainStep
  <2>5. CASE AcceptStep
    BY <2>1, <2>2, <2>5, AccessTyped, AddPeerTyped, AcceptTyped DEF AcceptStep
  <2>6. CASE MonitorStep
    BY <2>1, <2>2, <2>6, AccessTyped, RemovePeerTyped, MonitorTyped DEF MonitorStep
  <2>7. CASE Network
    BY <2>1, <2>7, NetworkTyped
  <2> QED BY <1>2, <2>3, <2>4, <2>5, <2>6, <2>7 DEF Next
<1> QED BY <1>1, <1>2

LEMMA InitTyped ==
    ASSUME Init
    PROVE  TypeOK
<1>1. heap \in Seq([live : BOOLEAN, cells : Seq(Cells)])
  BY DEF Init
<1>2. thread \in [Threads -> Registers]
  BY <1>1, RestTyped DEF Init
<1> QED BY <1>1, <1>2 DEF Init, TypeOK, Cells

\* The state keeps its shape: the registers hold what they may, and an address
\* of the array is that of an allocation that was made.
THEOREM TypeCorrect == Spec => []TypeOK
<1>1. Init => TypeOK
  BY InitTyped
<1>2. TypeOK /\ [Next]_vars => TypeOK'
  BY NextTyped
<1> QED BY <1>1, <1>2, PTL DEF Spec

-----------------------------------------------------------------------------
(* What each step does to the thread that takes it, field by field.        *)

\* Thread t goes to a place in a function; the other threads stay.
Goes(t, op, pc) ==
    /\ thread'[t].op = op /\ thread'[t].pc = pc
    /\ \A u \in Threads \ {t} : thread'[u] = thread[u]

\* It leaves the table's functions.
Leaves(t) ==
    /\ IF t = "monitor" THEN Goes(t, "poll", "test") ELSE Goes(t, "none", "rest")
    /\ thread'[t].i \in Nat /\ thread'[t].n = 0 /\ thread'[t].conn = Null

\* All but the registers stays.
Quiet ==
    /\ size' = size /\ peers' = peers /\ heap' = heap /\ object' = object /\ socket' = socket
    /\ fds' = fds /\ remote' = remote /\ backlog' = backlog /\ fault' = fault

\* What goes with Become.
LEMMA BecomeIs ==
    ASSUME TypeOK, NEW t \in Threads, NEW r, Become(t, r)
    PROVE  /\ thread'[t] = r
           /\ \A u \in Threads \ {t} : thread'[u] = thread[u]
           /\ thread[t] \in Registers
BY DEF Become, TypeOK

LEMMA PrivateIs ==
    ASSUME Private
    PROVE  Quiet
BY DEF Private, Quiet, table, objects, kernel

LEMMA ReturnedIs ==
    ASSUME TypeOK, NEW t \in Threads, Become(t, Returned(t))
    PROVE  Leaves(t)
<1>1. thread'[t] = Returned(t) /\ \A u \in Threads \ {t} : thread'[u] = thread[u]
  BY BecomeIs
<1>2. thread[t].at + 1 \in Nat
  BY Reading
<1>3. CASE t = "monitor"
  BY <1>1, <1>2, <1>3 DEF Returned, Leaves, Goes, Polling, Rest
<1>4. CASE t # "monitor"
  BY <1>1, <1>4 DEF Returned, Leaves, Goes, Rest
<1> QED BY <1>3, <1>4

LEMMA ScanIs ==
    ASSUME TypeOK, NEW t \in Threads, NEW op, NEW n, Become(t, Scan(t, op, n))
    PROVE  Goes(t, op, "test") /\ thread'[t].i = 0 /\ thread'[t].n = n /\ thread'[t].conn = Null
<1>1. thread'[t] = [thread[t] EXCEPT !.pc = "test", !.op = op, !.i = 0, !.n = n, !.conn = Null]
  BY BecomeIs DEF Scan
<1>2. thread[t] \in Registers /\ \A u \in Threads \ {t} : thread'[u] = thread[u]
  BY BecomeIs
<1> QED BY <1>1, <1>2 DEF Goes, Registers

\* The same for CONNECT and DISCONNECT, which look for an address.
LEMMA ScanAddrIs ==
    ASSUME TypeOK, NEW t \in Threads, NEW op, NEW n, NEW a, Become(t, [Scan(t, op, n) EXCEPT !.addr = a])
    PROVE  /\ Goes(t, op, "test") /\ thread'[t].i = 0 /\ thread'[t].n = n /\ thread'[t].conn = Null
           /\ thread'[t].addr = a
<1>1. PICK r : r = [thread[t] EXCEPT !.pc = "test", !.op = op, !.i = 0, !.n = n, !.conn = Null]
  OBVIOUS
<1>2. thread'[t] = [r EXCEPT !.addr = a]
  BY <1>1, BecomeIs DEF Scan
<1>3. thread[t] \in Registers /\ \A u \in Threads \ {t} : thread'[u] = thread[u]
  BY BecomeIs
<1>4. /\ r.op = op /\ r.pc = "test" /\ r.i = 0 /\ r.n = n /\ r.conn = Null
      /\ DOMAIN r = {"pc", "op", "i", "at", "n", "base", "to", "conn", "addr"}
      /\ r = [x \in DOMAIN r |-> r[x]]
  BY <1>1, <1>3 DEF Registers
<1>5. /\ thread'[t].op = op /\ thread'[t].pc = "test" /\ thread'[t].i = 0 /\ thread'[t].n = n
      /\ thread'[t].conn = Null /\ thread'[t].addr = a
  BY <1>2, <1>4
<1> QED BY <1>3, <1>5 DEF Goes

LEMMA RestIs ==
    ASSUME TypeOK, NEW t \in Adders, Become(t, Rest)
    PROVE  Leaves(t)
<1>1. t \in Threads /\ t # "monitor"
  BY DEF Adders, Threads
<1> QED BY <1>1, BecomeIs DEF Leaves, Goes, Rest

LEMMA TestOnIs ==
    ASSUME TypeOK, NEW t \in Threads, TestOn(t)
    PROVE  /\ At(t, "test") /\ thread[t].i < End(t) /\ Quiet
           /\ Goes(t, thread[t].op, "array")
           /\ thread'[t].i = thread[t].i /\ thread'[t].n = thread[t].n /\ thread'[t].base = thread[t].base /\ thread'[t].to = thread[t].to /\ thread'[t].conn = thread[t].conn /\ thread'[t].addr = thread[t].addr
BY BecomeIs, PrivateIs DEF TestOn, Goes, Registers

LEMMA TestOverIs ==
    ASSUME TypeOK, NEW t \in Threads, TestOver(t)
    PROVE  /\ At(t, "test") /\ thread[t].i >= End(t) /\ Quiet
           /\ \/ /\ In(t, "connect")
                 /\ Goes(t, "none", "socket") /\ thread'[t].addr = thread[t].addr
              \/ /\ In(t, "shift")
                 /\ Goes(t, "shift", "decrement") /\ thread'[t].i = thread[t].i /\ thread'[t].n = thread[t].n /\ thread'[t].to = thread[t].to /\ thread'[t].conn = thread[t].conn
              \/ In(t, "poll") /\ Goes(t, "poll", "test")
              \/ thread[t].op \in Scans \ {"connect"} /\ Leaves(t)
<1>1. At(t, "test") /\ thread[t].i >= End(t) /\ Quiet
  BY PrivateIs DEF TestOver
<1>2. ASSUME In(t, "connect"), Become(t, [Rest EXCEPT !.pc = "socket", !.addr = thread[t].addr])
      PROVE  Goes(t, "none", "socket") /\ thread'[t].addr = thread[t].addr
  <2>1. /\ thread'[t] = [Rest EXCEPT !.pc = "socket", !.addr = thread[t].addr]
        /\ thread[t] \in Registers /\ \A u \in Threads \ {t} : thread'[u] = thread[u]
    BY <1>2, BecomeIs
  <2> QED BY <1>2, <2>1 DEF Goes, Rest
<1>3. ASSUME In(t, "shift"), Become(t, [thread[t] EXCEPT !.pc = "decrement"])
      PROVE  Goes(t, "shift", "decrement") /\ thread'[t].i = thread[t].i /\ thread'[t].n = thread[t].n /\ thread'[t].to = thread[t].to /\ thread'[t].conn = thread[t].conn
  <2>1. /\ thread'[t] = [thread[t] EXCEPT !.pc = "decrement"]
        /\ thread[t] \in Registers /\ \A u \in Threads \ {t} : thread'[u] = thread[u]
    BY <1>3, BecomeIs
  <2> QED BY <1>3, <2>1 DEF Goes, Registers, In
<1>4. ASSUME In(t, "poll"), Become(t, Polling(0))
      PROVE  Goes(t, "poll", "test")
  <2>1. /\ thread'[t] = Polling(0)
        /\ thread[t] \in Registers /\ \A u \in Threads \ {t} : thread'[u] = thread[u]
    BY <1>4, BecomeIs
  <2> QED BY <1>4, <2>1 DEF Goes, Polling, Rest
<1> QED BY <1>1, <1>2, <1>3, <1>4, ReturnedIs DEF TestOver

LEMMA LoadArrayIs ==
    ASSUME TypeOK, NEW t \in Threads, LoadArray(t)
    PROVE  /\ Running /\ Quiet /\ thread'[t].i = thread[t].i /\ thread'[t].n = thread[t].n /\ thread'[t].conn = thread[t].conn /\ thread'[t].addr = thread[t].addr
           /\ \/ /\ At(t, "array") /\ Goes(t, thread[t].op, IF In(t, "shift") THEN "slot" ELSE "cell")
                 /\ thread'[t].base = peers /\ thread'[t].to = thread[t].to
              \/ /\ At(t, "old") /\ Goes(t, thread[t].op, "realloc")
                 /\ thread'[t].base = peers /\ thread'[t].to = thread[t].to
              \/ /\ At(t, "slot") /\ Goes(t, thread[t].op, IF In(t, "shift") THEN "cell" ELSE "index")
                 /\ thread'[t].to = peers /\ thread'[t].base = thread[t].base
<1>1. ASSUME NEW pc, Become(t, [thread[t] EXCEPT !.base = peers, !.pc = pc])
      PROVE  /\ Goes(t, thread[t].op, pc) /\ thread'[t].base = peers
             /\ thread'[t].i = thread[t].i /\ thread'[t].n = thread[t].n /\ thread'[t].conn = thread[t].conn /\ thread'[t].addr = thread[t].addr /\ thread'[t].to = thread[t].to
  <2>1. /\ thread'[t] = [thread[t] EXCEPT !.base = peers, !.pc = pc]
        /\ thread[t] \in Registers /\ \A u \in Threads \ {t} : thread'[u] = thread[u]
    BY <1>1, BecomeIs
  <2> QED BY <1>1, <2>1 DEF Goes, Registers
<1>2. ASSUME NEW pc, Become(t, [thread[t] EXCEPT !.to = peers, !.pc = pc])
      PROVE  /\ Goes(t, thread[t].op, pc) /\ thread'[t].to = peers
             /\ thread'[t].i = thread[t].i /\ thread'[t].n = thread[t].n /\ thread'[t].conn = thread[t].conn /\ thread'[t].addr = thread[t].addr /\ thread'[t].base = thread[t].base
  <2>1. /\ thread'[t] = [thread[t] EXCEPT !.to = peers, !.pc = pc]
        /\ thread[t] \in Registers /\ \A u \in Threads \ {t} : thread'[u] = thread[u]
    BY <1>2, BecomeIs
  <2> QED BY <1>2, <2>1 DEF Goes, Registers
<1>3. Running /\ Quiet
  BY PrivateIs DEF LoadArray, At
<1> QED BY <1>1, <1>2, <1>3 DEF LoadArray

LEMMA CrashIs ==
    ASSUME NEW t \in Threads, Crash(t)
    PROVE  /\ fault' = t /\ thread' = thread
           /\ size' = size /\ peers' = peers /\ heap' = heap /\ object' = object
           /\ socket' = socket /\ fds' = fds /\ remote' = remote /\ backlog' = backlog
BY DEF Crash, table, objects, kernel

LEMMA LoadCellIs ==
    ASSUME TypeOK, NEW t \in Threads, LoadCell(t)
    PROVE  LET k == IF In(t, "shift") THEN thread[t].i + 2 ELSE thread[t].i + 1
           IN  /\ At(t, "cell")
               /\ \/ Crash(t) /\ ~InArray(thread[t].base, k)
                  \/ /\ InArray(thread[t].base, k)
                     /\ Goes(t, thread[t].op, IF In(t, "shift") THEN "store" ELSE "look")
                     /\ thread'[t].conn = heap[thread[t].base].cells[k]
                     /\ thread'[t].i = thread[t].i /\ thread'[t].n = thread[t].n /\ thread'[t].to = thread[t].to /\ thread'[t].addr = thread[t].addr
                     /\ Quiet
<1> DEFINE k == IF In(t, "shift") THEN thread[t].i + 2 ELSE thread[t].i + 1
<1>1. ASSUME NEW pc, NEW c,
             Become(t, [thread[t] EXCEPT !.conn = c, !.base = 0, !.pc = pc])
      PROVE  Goes(t, thread[t].op, pc) /\ thread'[t].conn = c /\ thread'[t].i = thread[t].i /\ thread'[t].n = thread[t].n /\ thread'[t].to = thread[t].to /\ thread'[t].addr = thread[t].addr
  <2>1. /\ thread'[t] = [thread[t] EXCEPT !.conn = c, !.base = 0, !.pc = pc]
        /\ thread[t] \in Registers /\ \A u \in Threads \ {t} : thread'[u] = thread[u]
    BY <1>1, BecomeIs
  <2> QED BY <1>1, <2>1 DEF Goes, Registers
<1>2. /\ At(t, "cell")
      /\ \/ Crash(t) /\ ~InArray(thread[t].base, k)
         \/ /\ InArray(thread[t].base, k)
            /\ Become(t, [thread[t] EXCEPT !.conn = heap[thread[t].base].cells[k], !.base = 0,
                                           !.pc = IF In(t, "shift") THEN "store" ELSE "look"])
            /\ Private
  BY DEF LoadCell
<1> HIDE DEF k
<1>3. /\ At(t, "cell")
      /\ \/ Crash(t) /\ ~InArray(thread[t].base, k)
         \/ /\ InArray(thread[t].base, k)
            /\ Goes(t, thread[t].op, IF In(t, "shift") THEN "store" ELSE "look")
            /\ thread'[t].conn = heap[thread[t].base].cells[k]
            /\ thread'[t].i = thread[t].i /\ thread'[t].n = thread[t].n /\ thread'[t].to = thread[t].to /\ thread'[t].addr = thread[t].addr
            /\ Quiet
  BY <1>1, <1>2, PrivateIs
<1> QED BY <1>3 DEF k

LEMMA LookOnIs ==
    ASSUME TypeOK, NEW t \in Threads, LookOn(t)
    PROVE  /\ At(t, "look") /\ Alive(thread[t].conn) /\ ~Sought(t) /\ Quiet
           /\ thread[t].op \in (Scans \ {"print"}) \cup {"printed"}
           /\ Goes(t, IF In(t, "printed") THEN "print" ELSE thread[t].op, "test")
           /\ thread'[t].i = thread[t].i + 1
           /\ thread'[t].n = thread[t].n /\ thread'[t].addr = thread[t].addr
<1>1. /\ thread'[t] = [thread[t] EXCEPT !.pc = "test", !.i = @ + 1, !.conn = Null,
                                   !.op = IF @ = "printed" THEN "print" ELSE @]
      /\ thread[t] \in Registers /\ \A u \in Threads \ {t} : thread'[u] = thread[u]
  BY BecomeIs DEF LookOn
<1> QED BY <1>1, PrivateIs DEF LookOn, Goes, Registers, In

LEMMA LookFoundIs ==
    ASSUME TypeOK, NEW t \in Threads, LookFound(t)
    PROVE  /\ At(t, "look") /\ Alive(thread[t].conn) /\ Quiet
           /\ thread'[t].i = thread[t].i /\ thread'[t].n = thread[t].n /\ thread'[t].addr = thread[t].addr
           /\ \/ In(t, "connect") /\ Goes(t, "listed", "array")
              \/ In(t, "look") /\ Goes(t, "disconnect", "empty")
              \/ In(t, "disconnect") /\ Goes(t, "send", "array")
              \/ In(t, "remove") /\ Sought(t) /\ Goes(t, "close", "array")
              \/ In(t, "print") /\ Goes(t, "printed", "array")
<1>1. ASSUME NEW op, NEW pc, Become(t, [thread[t] EXCEPT !.op = op, !.pc = pc, !.conn = Null])
      PROVE  Goes(t, op, pc) /\ thread'[t].i = thread[t].i /\ thread'[t].n = thread[t].n /\ thread'[t].addr = thread[t].addr
  <2>1. /\ thread'[t] = [thread[t] EXCEPT !.op = op, !.pc = pc, !.conn = Null]
        /\ thread[t] \in Registers /\ \A u \in Threads \ {t} : thread'[u] = thread[u]
    BY <1>1, BecomeIs
  <2> QED BY <1>1, <2>1 DEF Goes, Registers
<1> QED BY <1>1, PrivateIs DEF LookFound, In

LEMMA LookSocketIs ==
    ASSUME TypeOK, NEW t \in Threads, LookSocket(t)
    PROVE  /\ At(t, "look") /\ Alive(thread[t].conn) /\ Quiet
           /\ thread[t].op \in {"poll", "send", "hangup", "close"}
           /\ Goes(t, thread[t].op, "call")
           /\ thread'[t].n = socket[thread[t].conn]
           /\ thread'[t].i = thread[t].i /\ thread'[t].conn = thread[t].conn /\ thread'[t].addr = thread[t].addr
<1>1. /\ thread'[t] = [thread[t] EXCEPT !.pc = "call", !.n = socket[thread[t].conn]]
      /\ thread[t] \in Registers /\ \A u \in Threads \ {t} : thread'[u] = thread[u]
  BY BecomeIs DEF LookSocket
<1> QED BY <1>1, PrivateIs DEF LookSocket, Goes, Registers, In

LEMMA StoreCellIs ==
    ASSUME TypeOK, NEW t \in Threads, StoreCell(t)
    PROVE  LET k == IF In(t, "add") THEN thread[t].n + 1 ELSE thread[t].i + 1
           IN  /\ At(t, "store")
               /\ \/ Crash(t) /\ ~InArray(thread[t].to, k)
                  \/ /\ InArray(thread[t].to, k)
                     /\ heap' = [heap EXCEPT ![thread[t].to].cells[k] = thread[t].conn]
                     /\ \/ In(t, "add") /\ Goes(t, "add", "increment") /\ thread'[t].n = thread[t].n /\ thread'[t].conn = thread[t].conn
                        \/ /\ ~In(t, "add") /\ Goes(t, thread[t].op, "test")
                           /\ thread'[t].i = thread[t].i + 1 /\ thread'[t].n = thread[t].n
                     /\ size' = size /\ peers' = peers /\ object' = object /\ socket' = socket
                     /\ fds' = fds /\ remote' = remote /\ backlog' = backlog /\ fault' = fault
<1> DEFINE k == IF In(t, "add") THEN thread[t].n + 1 ELSE thread[t].i + 1
<1>1. ASSUME Become(t, [thread[t] EXCEPT !.pc = "increment", !.to = 0])
      PROVE  Goes(t, thread[t].op, "increment") /\ thread'[t].n = thread[t].n /\ thread'[t].conn = thread[t].conn
  <2>1. /\ thread'[t] = [thread[t] EXCEPT !.pc = "increment", !.to = 0]
        /\ thread[t] \in Registers /\ \A u \in Threads \ {t} : thread'[u] = thread[u]
    BY <1>1, BecomeIs
  <2> QED BY <1>1, <2>1 DEF Goes, Registers
<1>2. ASSUME Become(t, [thread[t] EXCEPT !.pc = "test", !.i = @ + 1, !.to = 0, !.conn = Null])
      PROVE  Goes(t, thread[t].op, "test") /\ thread'[t].i = thread[t].i + 1 /\ thread'[t].n = thread[t].n
  <2>1. /\ thread'[t] = [thread[t] EXCEPT !.pc = "test", !.i = @ + 1, !.to = 0, !.conn = Null]
        /\ thread[t] \in Registers /\ \A u \in Threads \ {t} : thread'[u] = thread[u]
    BY <1>2, BecomeIs
  <2> QED BY <1>2, <2>1 DEF Goes, Registers
<1>3. /\ At(t, "store")
      /\ \/ Crash(t) /\ ~InArray(thread[t].to, k)
         \/ /\ InArray(thread[t].to, k)
            /\ heap' = [heap EXCEPT ![thread[t].to].cells[k] = thread[t].conn]
            /\ Become(t, IF In(t, "add")
                             THEN [thread[t] EXCEPT !.pc = "increment", !.to = 0]
                             ELSE [thread[t] EXCEPT !.pc = "test", !.i = @ + 1, !.to = 0, !.conn = Null])
            /\ UNCHANGED <<size, peers, objects, kernel, fault>>
  BY DEF StoreCell
<1>4. In(t, "add") => thread[t].op = "add"
  BY DEF In
<1> HIDE DEF k
<1>5. /\ At(t, "store")
      /\ \/ Crash(t) /\ ~InArray(thread[t].to, k)
         \/ /\ InArray(thread[t].to, k)
            /\ heap' = [heap EXCEPT ![thread[t].to].cells[k] = thread[t].conn]
            /\ \/ In(t, "add") /\ Goes(t, "add", "increment") /\ thread'[t].n = thread[t].n /\ thread'[t].conn = thread[t].conn
               \/ /\ ~In(t, "add") /\ Goes(t, thread[t].op, "test")
                  /\ thread'[t].i = thread[t].i + 1 /\ thread'[t].n = thread[t].n
            /\ size' = size /\ peers' = peers /\ object' = object /\ socket' = socket
            /\ fds' = fds /\ remote' = remote /\ backlog' = backlog /\ fault' = fault
  BY <1>1, <1>2, <1>3, <1>4 DEF objects, kernel
<1> QED BY <1>5 DEF k

LEMMA StoreSizeIs ==
    ASSUME TypeOK, NEW t \in Threads, StoreSize(t)
    PROVE  /\ At(t, "size") /\ size' = thread[t].n /\ Leaves(t)
           /\ peers' = peers /\ heap' = heap /\ object' = object /\ socket' = socket
           /\ fds' = fds /\ remote' = remote /\ backlog' = backlog /\ fault' = fault
BY ReturnedIs DEF StoreSize, objects, kernel

\* add_peer.  A fault of realloc is the sanitizer's.
LEMMA AddRoomIs ==
    ASSUME TypeOK, NEW t \in Threads, AddRoom(t)
    PROVE  /\ At(t, "room") /\ Quiet
           /\ Goes(t, thread[t].op, IF size = MaxPeers THEN "refuse" ELSE "count")
           /\ thread'[t].conn = thread[t].conn
<1>1. /\ thread'[t] = [thread[t] EXCEPT !.pc = IF size = MaxPeers THEN "refuse" ELSE "count"]
      /\ thread[t] \in Registers /\ \A u \in Threads \ {t} : thread'[u] = thread[u]
  BY BecomeIs DEF AddRoom
<1> QED BY <1>1, PrivateIs DEF AddRoom, Goes, Registers

LEMMA AddRefuseIs ==
    ASSUME TypeOK, NEW t \in Adders, AddRefuse(t)
    PROVE  /\ At(t, "refuse") /\ Leaves(t) /\ Close(socket[thread[t].conn])
           /\ object' = [object EXCEPT ![thread[t].conn] = "freed"]
           /\ size' = size /\ peers' = peers /\ heap' = heap /\ socket' = socket
           /\ remote' = remote /\ backlog' = backlog /\ fault' = fault
BY RestIs DEF AddRefuse, table

LEMMA AddCountIs ==
    ASSUME TypeOK, NEW t \in Threads, AddCount(t)
    PROVE  /\ At(t, "count") /\ Quiet
           /\ Goes(t, thread[t].op, "old")
           /\ thread'[t].n = size + 1 /\ thread'[t].conn = thread[t].conn
<1>1. /\ thread'[t] = [thread[t] EXCEPT !.pc = "old", !.n = size + 1]
      /\ thread[t] \in Registers /\ \A u \in Threads \ {t} : thread'[u] = thread[u]
  BY BecomeIs DEF AddCount
<1> QED BY <1>1, PrivateIs DEF AddCount, Goes, Registers

LEMMA ReallocIs ==
    ASSUME TypeOK, NEW t \in Threads, Realloc(t)
    PROVE  LET me == thread[t]
               old == IF me.base = 0 THEN <<>> ELSE heap[me.base].cells
               freed == [b \in DOMAIN heap |->
                            IF b = me.base THEN [live |-> FALSE, cells |-> <<>>] ELSE heap[b]]
               cells == [k \in 1..me.n |-> IF k \in DOMAIN old THEN old[k] ELSE Null]
           IN  /\ At(t, "realloc")
               /\ \/ Crash(t) /\ (me.n < 0 \/ (me.base # 0 /\ ~heap[me.base].live))
                  \/ /\ me.n >= 0 /\ (me.base # 0 => heap[me.base].live)
                     /\ Goes(t, me.op, "publish") /\ thread'[t].conn = me.conn
                     /\ \/ me.n = 0 /\ me.base # 0 /\ heap' = freed /\ thread'[t].base = 0
                        \/ /\ me.n # 0 \/ me.base = 0
                           /\ heap' = Append(freed, [live |-> TRUE, cells |-> cells])
                           /\ thread'[t].base = Len(heap) + 1
                     /\ size' = size /\ peers' = peers /\ object' = object /\ socket' = socket
                     /\ fds' = fds /\ remote' = remote /\ backlog' = backlog /\ fault' = fault
<1> DEFINE me == thread[t]
           old == IF me.base = 0 THEN <<>> ELSE heap[me.base].cells
           freed == [b \in DOMAIN heap |->
                        IF b = me.base THEN [live |-> FALSE, cells |-> <<>>] ELSE heap[b]]
           cells == [k \in 1..me.n |-> IF k \in DOMAIN old THEN old[k] ELSE Null]
<1>1. ASSUME NEW b, Become(t, [thread[t] EXCEPT !.pc = "publish", !.base = b])
      PROVE  Goes(t, thread[t].op, "publish") /\ thread'[t].conn = thread[t].conn /\ thread'[t].base = b
  <2>1. /\ thread'[t] = [thread[t] EXCEPT !.pc = "publish", !.base = b]
        /\ thread[t] \in Registers /\ \A u \in Threads \ {t} : thread'[u] = thread[u]
    BY <1>1, BecomeIs
  <2> QED BY <2>1 DEF Goes, Registers
<1>2. /\ At(t, "realloc")
      /\ IF me.n < 0 \/ (me.base # 0 /\ ~heap[me.base].live)
         THEN Crash(t)
         ELSE /\ IF me.n = 0 /\ me.base # 0
                 THEN /\ heap' = freed
                      /\ Become(t, [thread[t] EXCEPT !.pc = "publish", !.base = 0])
                 ELSE /\ heap' = Append(freed, [live |-> TRUE, cells |-> cells])
                      /\ Become(t, [thread[t] EXCEPT !.pc = "publish", !.base = Len(heap) + 1])
              /\ UNCHANGED <<size, peers, objects, kernel, fault>>
  BY DEF Realloc
<1>3. me.n \in Int
  BY Reading
<1> DEFINE bad == me.n < 0 \/ (me.base # 0 /\ ~heap[me.base].live)
           empty == me.n = 0 /\ me.base # 0
           stays == /\ size' = size /\ peers' = peers /\ object' = object /\ socket' = socket
                    /\ fds' = fds /\ remote' = remote /\ backlog' = backlog /\ fault' = fault
<1> HIDE DEF freed, cells
<1>5. CASE bad
  BY <1>2, <1>5
<1>6. CASE ~bad /\ empty
  <2>1. stays
    BY <1>2, <1>6 DEF objects, kernel
  <2>2. heap' = freed /\ Become(t, [thread[t] EXCEPT !.pc = "publish", !.base = 0])
    BY <1>2, <1>6
  <2>3. Goes(t, thread[t].op, "publish") /\ thread'[t].conn = thread[t].conn /\ thread'[t].base = 0
    BY <1>1, <2>2
  <2>4. me.n >= 0 /\ heap[me.base].live
    BY <1>3, <1>6
  <2> QED BY <1>2, <1>6, <2>1, <2>2, <2>3, <2>4 DEF freed, cells
<1>7. CASE ~bad /\ ~empty
  <2>1. stays
    BY <1>2, <1>7 DEF objects, kernel
  <2>2. /\ heap' = Append(freed, [live |-> TRUE, cells |-> cells])
        /\ Become(t, [thread[t] EXCEPT !.pc = "publish", !.base = Len(heap) + 1])
    BY <1>2, <1>7
  <2>3. Goes(t, thread[t].op, "publish") /\ thread'[t].conn = thread[t].conn /\ thread'[t].base = Len(heap) + 1
    BY <1>1, <2>2
  <2>4. me.n >= 0 /\ (me.base # 0 => heap[me.base].live) /\ (me.n # 0 \/ me.base = 0)
    BY <1>3, <1>7
  <2> QED BY <1>2, <2>1, <2>2, <2>3, <2>4 DEF freed, cells
<1> QED BY <1>5, <1>6, <1>7

LEMMA AddPublishIs ==
    ASSUME TypeOK, NEW t \in Threads, AddPublish(t)
    PROVE  /\ At(t, "publish") /\ Goes(t, thread[t].op, "null")
           /\ peers' = thread[t].base /\ thread'[t].conn = thread[t].conn
           /\ size' = size /\ heap' = heap /\ object' = object /\ socket' = socket
           /\ fds' = fds /\ remote' = remote /\ backlog' = backlog /\ fault' = fault
<1>1. /\ thread'[t] = [thread[t] EXCEPT !.pc = "null", !.base = 0]
      /\ thread[t] \in Registers /\ \A u \in Threads \ {t} : thread'[u] = thread[u]
  BY BecomeIs DEF AddPublish
<1> QED BY <1>1 DEF AddPublish, Goes, Registers, objects, kernel

LEMMA AddNullIs ==
    ASSUME TypeOK, NEW t \in Threads, AddNull(t)
    PROVE  /\ At(t, "null") /\ Quiet
           /\ Goes(t, thread[t].op, IF peers = 0 THEN "refuse" ELSE "slot")
           /\ thread'[t].conn = thread[t].conn
<1>1. /\ thread'[t] = [thread[t] EXCEPT !.pc = IF peers = 0 THEN "refuse" ELSE "slot"]
      /\ thread[t] \in Registers /\ \A u \in Threads \ {t} : thread'[u] = thread[u]
  BY BecomeIs DEF AddNull
<1> QED BY <1>1, PrivateIs DEF AddNull, Goes, Registers

LEMMA AddIndexIs ==
    ASSUME TypeOK, NEW t \in Threads, AddIndex(t)
    PROVE  /\ At(t, "index") /\ Quiet
           /\ Goes(t, thread[t].op, "store") /\ thread'[t].n = size
           /\ thread'[t].to = thread[t].to /\ thread'[t].conn = thread[t].conn
<1>1. /\ thread'[t] = [thread[t] EXCEPT !.pc = "store", !.n = size]
      /\ thread[t] \in Registers /\ \A u \in Threads \ {t} : thread'[u] = thread[u]
  BY BecomeIs DEF AddIndex
<1> QED BY <1>1, PrivateIs DEF AddIndex, Goes, Registers

LEMMA AddIncrementIs ==
    ASSUME TypeOK, NEW t \in Threads, AddIncrement(t)
    PROVE  /\ At(t, "increment") /\ Quiet
           /\ Goes(t, thread[t].op, "size") /\ thread'[t].n = size + 1
           /\ thread'[t].conn = thread[t].conn
<1>1. /\ thread'[t] = [thread[t] EXCEPT !.pc = "size", !.n = size + 1]
      /\ thread[t] \in Registers /\ \A u \in Threads \ {t} : thread'[u] = thread[u]
  BY BecomeIs DEF AddIncrement
<1> QED BY <1>1, PrivateIs DEF AddIncrement, Goes, Registers

\* remove_peer.
LEMMA RemoveCloseIs ==
    ASSUME TypeOK, NEW t \in Threads, RemoveClose(t)
    PROVE  /\ At(t, "call") /\ In(t, "close") /\ Goes(t, "free", "array")
           /\ Close(thread[t].n) /\ thread'[t].i = thread[t].i
           /\ size' = size /\ peers' = peers /\ heap' = heap /\ object' = object
           /\ socket' = socket /\ remote' = remote /\ backlog' = backlog /\ fault' = fault
<1>1. /\ thread'[t] = [thread[t] EXCEPT !.op = "free", !.pc = "array", !.conn = Null]
      /\ thread[t] \in Registers /\ \A u \in Threads \ {t} : thread'[u] = thread[u]
  BY BecomeIs DEF RemoveClose
<1> QED BY <1>1 DEF RemoveClose, Goes, Registers, table, objects

LEMMA RemoveFreeIs ==
    ASSUME TypeOK, NEW t \in Threads, RemoveFree(t)
    PROVE  /\ At(t, "look") /\ In(t, "free") /\ Goes(t, "shift", "test")
           /\ Alive(thread[t].conn) /\ thread'[t].i = thread[t].i
           /\ object' = [object EXCEPT ![thread[t].conn] = "freed"]
           /\ size' = size /\ peers' = peers /\ heap' = heap /\ fds' = fds
           /\ socket' = socket /\ remote' = remote /\ backlog' = backlog /\ fault' = fault
<1>1. /\ thread'[t] = [thread[t] EXCEPT !.op = "shift", !.pc = "test", !.conn = Null]
      /\ thread[t] \in Registers /\ \A u \in Threads \ {t} : thread'[u] = thread[u]
  BY BecomeIs DEF RemoveFree
<1> QED BY <1>1 DEF RemoveFree, Goes, Registers, table, kernel

LEMMA RemoveDecrementIs ==
    ASSUME TypeOK, NEW t \in Threads, RemoveDecrement(t)
    PROVE  /\ At(t, "decrement") /\ Quiet
           /\ Goes(t, thread[t].op, "size") /\ thread'[t].n = size - 1
           /\ thread'[t].i = thread[t].i
<1>1. /\ thread'[t] = [thread[t] EXCEPT !.pc = "size", !.n = size - 1]
      /\ thread[t] \in Registers /\ \A u \in Threads \ {t} : thread'[u] = thread[u]
  BY BecomeIs DEF RemoveDecrement
<1> QED BY <1>1, PrivateIs DEF RemoveDecrement, Goes, Registers

\* What the user types.
LEMMA TypedIs ==
    ASSUME TypeOK, Typed
    PROVE  /\ At("main", "rest") /\ Quiet
           /\ \/ /\ size # MaxPeers /\ Goes("main", "connect", "test")
                 /\ thread'["main"].i = 0 /\ thread'["main"].addr \in Targets
              \/ Goes("main", "look", "test") /\ thread'["main"].i = 0
              \/ Goes("main", "print", "test") /\ thread'["main"].i = 0
              \/ Goes("main", "none", "exited") /\ thread'["main"].conn = Null
<1>1. "main" \in Threads
  BY DEF Threads
<1>5. ASSUME Become("main", [Rest EXCEPT !.pc = "exited"])
      PROVE  Goes("main", "none", "exited") /\ thread'["main"].conn = Null
  <2>1. /\ thread'["main"] = [Rest EXCEPT !.pc = "exited"]
        /\ \A u \in Threads \ {"main"} : thread'[u] = thread[u]
    BY <1>1, <1>5, BecomeIs
  <2> QED BY <2>1 DEF Goes, Rest
<1>6. At("main", "rest") /\ Quiet
  BY PrivateIs DEF Typed, Peers, Quit, Connect, Disconnect, Ready
<1>7. \/ Become("main", Scan("main", "print", 0))
      \/ Become("main", [Rest EXCEPT !.pc = "exited"])
      \/ \E a \in Targets : size # MaxPeers /\ Become("main", [Scan("main", "connect", 0) EXCEPT !.addr = a])
      \/ \E a \in Addresses : Become("main", [Scan("main", "look", 0) EXCEPT !.addr = a])
  BY DEF Typed, Peers, Quit, Connect, Disconnect
<1> QED BY <1>1, <1>5, <1>6, <1>7, ScanIs, ScanAddrIs

\* The rest of CONNECT and DISCONNECT.
LEMMA ConnectListedIs ==
    ASSUME TypeOK, ConnectListed
    PROVE  At("main", "look") /\ In("main", "listed") /\ Quiet /\ Leaves("main")
BY PrivateIs, RestIs DEF ConnectListed, Adders

LEMMA ConnectSocketIs ==
    ASSUME TypeOK, ConnectSocket
    PROVE  /\ At("main", "socket")
           /\ size' = size /\ peers' = peers /\ heap' = heap /\ object' = object
           /\ socket' = socket /\ remote' = remote /\ backlog' = backlog /\ fault' = fault
           /\ \/ \E f \in Fds, c \in Conns :
                   /\ LowestFree(f) /\ AddrOf[c] = thread["main"].addr /\ remote[c] = "new"
                   /\ fds' = [fds EXCEPT ![f] = c]
                   /\ Goes("main", "none", "connecting")
                   /\ thread'["main"].conn = c /\ thread'["main"].n = f
              \/ Leaves("main") /\ fds' = fds
<1>1. "main" \in Threads /\ "main" \in Adders
  BY DEF Threads, Adders
<1>2. ASSUME NEW f, NEW c, Become("main", [Rest EXCEPT !.pc = "connecting", !.conn = c, !.n = f])
      PROVE  Goes("main", "none", "connecting") /\ thread'["main"].conn = c /\ thread'["main"].n = f
  <2>1. /\ thread'["main"] = [Rest EXCEPT !.pc = "connecting", !.conn = c, !.n = f]
        /\ \A u \in Threads \ {"main"} : thread'[u] = thread[u]
    BY <1>1, <1>2, BecomeIs
  <2> QED BY <2>1 DEF Goes, Rest
<1>3. /\ At("main", "socket")
      /\ size' = size /\ peers' = peers /\ heap' = heap /\ object' = object
      /\ socket' = socket /\ remote' = remote /\ backlog' = backlog /\ fault' = fault
  BY DEF ConnectSocket, table, objects
<1>4. \/ \E f \in Fds, c \in Conns :
           /\ LowestFree(f) /\ AddrOf[c] = thread["main"].addr /\ remote[c] = "new"
           /\ fds' = [fds EXCEPT ![f] = c]
           /\ Become("main", [Rest EXCEPT !.pc = "connecting", !.conn = c, !.n = f])
      \/ Become("main", Rest) /\ fds' = fds
  BY DEF ConnectSocket
<1> QED BY <1>1, <1>2, <1>3, <1>4, RestIs

LEMMA ConnectDoneIs ==
    ASSUME TypeOK, ConnectDone
    PROVE  /\ At("main", "connecting") /\ Goes("main", "add", "room")
           /\ thread'["main"].conn = thread["main"].conn
           /\ remote' = [remote EXCEPT ![thread["main"].conn] = "open"]
           /\ object' = [object EXCEPT ![thread["main"].conn] = "live"]
           /\ socket' = [socket EXCEPT ![thread["main"].conn] = thread["main"].n]
           /\ size' = size /\ peers' = peers /\ heap' = heap
           /\ fds' = fds /\ backlog' = backlog /\ fault' = fault
<1>1. /\ thread'["main"] = [Rest EXCEPT !.pc = "room", !.op = "add", !.conn = thread["main"].conn]
      /\ \A u \in Threads \ {"main"} : thread'[u] = thread[u]
  BY BecomeIs DEF ConnectDone, Threads
<1>2. Goes("main", "add", "room") /\ thread'["main"].conn = thread["main"].conn
  BY <1>1 DEF Goes, Rest
<1> QED BY <1>2 DEF ConnectDone, table

LEMMA ConnectRefusedIs ==
    ASSUME TypeOK, ConnectRefused
    PROVE  /\ At("main", "connecting") /\ Leaves("main") /\ Close(thread["main"].n)
           /\ \E how \in {"closed", "reset"} : remote' = [remote EXCEPT ![thread["main"].conn] = how]
           /\ size' = size /\ peers' = peers /\ heap' = heap /\ object' = object
           /\ socket' = socket /\ backlog' = backlog /\ fault' = fault
BY RestIs DEF ConnectRefused, Adders, table, objects

LEMMA DisconnectEmptyIs ==
    ASSUME TypeOK, DisconnectEmpty
    PROVE  /\ At("main", "empty") /\ Quiet
           /\ \/ Leaves("main")
              \/ Goes("main", "disconnect", "test") /\ thread'["main"].i = 0
<1>1. "main" \in Threads /\ "main" \in Adders
  BY DEF Threads, Adders
<1>2. \/ Become("main", Rest)
      \/ Become("main", [Scan("main", "disconnect", 0) EXCEPT !.addr = thread["main"].addr])
  BY DEF DisconnectEmpty
<1> QED BY <1>1, <1>2, PrivateIs, RestIs, ScanAddrIs DEF DisconnectEmpty

LEMMA DisconnectSendIs ==
    ASSUME TypeOK, DisconnectSend
    PROVE  /\ At("main", "call") /\ In("main", "send")
           /\ \/ Goes("main", "none", "killed") /\ thread'["main"].conn = Null
              \/ /\ Goes("main", "hangup", "look")
                 /\ thread'["main"].conn = thread["main"].conn
           /\ \A c \in Conns : remote'[c] = "new" <=> remote[c] = "new"
           /\ size' = size /\ peers' = peers /\ heap' = heap /\ object' = object
           /\ socket' = socket /\ fds' = fds /\ backlog' = backlog /\ fault' = fault
<1>1. "main" \in Threads
  BY DEF Threads
<1>2. ASSUME Become("main", [Rest EXCEPT !.pc = "killed"])
      PROVE  Goes("main", "none", "killed") /\ thread'["main"].conn = Null
  <2>1. /\ thread'["main"] = [Rest EXCEPT !.pc = "killed"]
        /\ \A u \in Threads \ {"main"} : thread'[u] = thread[u]
    BY <1>1, <1>2, BecomeIs
  <2> QED BY <2>1 DEF Goes, Rest
<1>3. ASSUME Become("main", [thread["main"] EXCEPT !.op = "hangup", !.pc = "look"])
      PROVE  Goes("main", "hangup", "look") /\ thread'["main"].conn = thread["main"].conn
  <2>1. /\ thread'["main"] = [thread["main"] EXCEPT !.op = "hangup", !.pc = "look"]
        /\ thread["main"] \in Registers /\ \A u \in Threads \ {"main"} : thread'[u] = thread[u]
    BY <1>1, <1>3, BecomeIs
  <2> QED BY <2>1 DEF Goes, Registers
<1>4. \A c \in Conns : remote'[c] = "new" <=> remote[c] = "new"
  BY DEF DisconnectSend, TypeOK
<1> QED BY <1>2, <1>3, <1>4 DEF DisconnectSend, table, objects

LEMMA DisconnectCloseIs ==
    ASSUME TypeOK, DisconnectClose
    PROVE  /\ At("main", "call") /\ In("main", "hangup") /\ Goes("main", "drop", "look")
           /\ Close(thread["main"].n) /\ thread'["main"].conn = thread["main"].conn
           /\ size' = size /\ peers' = peers /\ heap' = heap /\ object' = object
           /\ socket' = socket /\ remote' = remote /\ backlog' = backlog /\ fault' = fault
<1>1. /\ thread'["main"] = [thread["main"] EXCEPT !.op = "drop", !.pc = "look"]
      /\ thread["main"] \in Registers /\ \A u \in Threads \ {"main"} : thread'[u] = thread[u]
  BY BecomeIs DEF DisconnectClose, Threads
<1> QED BY <1>1 DEF DisconnectClose, Goes, Registers, table, objects

LEMMA DisconnectRemoveIs ==
    ASSUME TypeOK, DisconnectRemove
    PROVE  /\ At("main", "look") /\ In("main", "drop") /\ Alive(thread["main"].conn) /\ Quiet
           /\ Goes("main", "remove", "test") /\ thread'["main"].i = 0
           /\ thread'["main"].n = socket[thread["main"].conn]
<1>1. "main" \in Threads
  BY DEF Threads
<1>n. PICK n : n = socket[thread["main"].conn]
  OBVIOUS
<1>2. Become("main", [Scan("main", "remove", n) EXCEPT !.addr = Null])
  BY <1>n DEF DisconnectRemove
<1>3. Goes("main", "remove", "test") /\ thread'["main"].i = 0 /\ thread'["main"].n = n
  BY <1>1, <1>2, ScanAddrIs
<1> QED BY <1>n, <1>3, PrivateIs DEF DisconnectRemove

\* accept().
LEMMA AcceptConnectIs ==
    ASSUME TypeOK, NEW c \in Conns, AcceptConnect(c)
    PROVE  /\ At("accept", "rest") /\ Goes("accept", "add", "room") /\ thread'["accept"].conn = c
           /\ c \in backlog /\ backlog' = backlog \ {c}
           /\ \E f \in Fds : /\ LowestFree(f) /\ fds' = [fds EXCEPT ![f] = c]
                             /\ socket' = [socket EXCEPT ![c] = f]
           /\ object' = [object EXCEPT ![c] = "live"]
           /\ size' = size /\ peers' = peers /\ heap' = heap /\ remote' = remote /\ fault' = fault
<1>1. /\ thread'["accept"] = [Rest EXCEPT !.pc = "room", !.op = "add", !.conn = c]
      /\ \A u \in Threads \ {"accept"} : thread'[u] = thread[u]
  BY BecomeIs DEF AcceptConnect, Threads
<1>2. Goes("accept", "add", "room") /\ thread'["accept"].conn = c
  BY <1>1 DEF Goes, Rest
<1> QED BY <1>2 DEF AcceptConnect, table

-----------------------------------------------------------------------------
(* Where a thread may be: in which functions, and at which access of each. *)

OpsOf(t) ==
    IF t = "main" THEN OpCodes \ {"poll", "gone"}
    ELSE IF t = "accept" THEN {"none", "add"}
    ELSE {"poll", "gone", "remove", "close", "free", "shift"}

AddPlaces == {"room", "refuse", "count", "old", "realloc", "publish", "null", "slot", "index",
              "store", "increment", "size"}
ShiftPlaces == {"test", "array", "slot", "cell", "store", "decrement", "size"}
FoundPlaces == {"array", "cell", "look", "call"}

PlacesOf(op) ==
    IF op = "none" THEN {"rest", "exited", "killed", "socket", "connecting"}
    ELSE IF op = "add" THEN AddPlaces
    ELSE IF op = "shift" THEN ShiftPlaces
    ELSE IF op = "poll" THEN FoundPlaces \cup {"test", "recv"}
    ELSE IF op = "drop" THEN {"look"}
    ELSE IF op = "disconnect" THEN {"empty", "test", "array", "cell", "look"}
    ELSE IF op \in Scans THEN {"test", "array", "cell", "look"}
    ELSE FoundPlaces

Control(t) == thread[t].op \in OpsOf(t) /\ thread[t].pc \in PlacesOf(thread[t].op)

\* What a step has to show: thread t is at its new place, the others stayed.
LEMMA ControlGoes ==
    ASSUME \A u \in Threads : Control(u), NEW t \in Threads, NEW op, NEW pc, Goes(t, op, pc),
           op \in OpsOf(t), pc \in PlacesOf(op)
    PROVE  \A u \in Threads : Control(u)'
<1>1. Control(t)'
  BY DEF Goes, Control, OpsOf
<1>2. ASSUME NEW u \in Threads \ {t}
      PROVE  Control(u)'
  <2>1. thread'[u] = thread[u] /\ Control(u)
    BY <1>2 DEF Goes
  <2> QED BY <2>1 DEF Control, OpsOf
<1> QED BY <1>1, <1>2

LEMMA ControlLeaves ==
    ASSUME \A u \in Threads : Control(u), NEW t \in Threads, Leaves(t)
    PROVE  \A u \in Threads : Control(u)'
<1>1. CASE t = "monitor"
  <2>1. Goes(t, "poll", "test") /\ "poll" \in OpsOf(t) /\ "test" \in PlacesOf("poll")
    BY <1>1 DEF Leaves, OpsOf, PlacesOf
  <2> QED BY <2>1, ControlGoes
<1>2. CASE t # "monitor"
  <2>1. Goes(t, "none", "rest") /\ "none" \in OpsOf(t) /\ "rest" \in PlacesOf("none")
    BY <1>2 DEF Leaves, OpsOf, PlacesOf, OpCodes, Threads
  <2> QED BY <2>1, ControlGoes
<1> QED BY <1>1, <1>2

LEMMA ControlSame ==
    ASSUME \A u \in Threads : Control(u), thread' = thread
    PROVE  \A u \in Threads : Control(u)'
BY DEF Control, OpsOf

\* The functions a thread may be in at a given place.
LEMMA ControlPlaces ==
    ASSUME NEW t \in Threads, Control(t)
    PROVE  /\ thread[t].pc = "test" => thread[t].op \in Scans \cup {"poll", "shift"}
           /\ thread[t].pc \in {"room", "refuse", "count", "old", "realloc", "publish", "null",
                                "index", "increment"} => thread[t].op = "add"
           /\ thread[t].pc \in {"slot", "store", "size"} => thread[t].op \in {"add", "shift"}
           /\ thread[t].pc = "decrement" => thread[t].op = "shift"
           /\ thread[t].pc = "recv" => thread[t].op = "poll"
           /\ thread[t].pc \in {"array", "cell"} => thread[t].op \notin {"none", "add", "drop"}
           /\ thread[t].pc = "empty" => thread[t].op = "disconnect"
           /\ thread[t].pc \in {"rest", "socket", "connecting", "exited", "killed"}
                => thread[t].op = "none"
           /\ thread[t].op = "add" => t \in Adders /\ thread[t].pc \in AddPlaces
           /\ thread[t].op = "shift" => t \in {"main", "monitor"} /\ thread[t].pc \in ShiftPlaces
           /\ thread[t].op \in {"remove", "close", "free"} => t \in {"main", "monitor"}
           /\ thread[t].op = "none" => t \in Adders
           /\ t = "accept" => thread[t].op \in {"none", "add"}
           /\ t = "monitor" => thread[t].op \in {"poll", "gone", "remove", "close", "free", "shift"}
           /\ t = "main" => thread[t].op \notin {"poll", "gone"}
           /\ thread[t].op \in OpCodes
BY DEF Control, PlacesOf, OpsOf, AddPlaces, ShiftPlaces, FoundPlaces, Adders, Threads,
       Scans, ByAddress, BySocket, OpCodes

LEMMA AccessControl ==
    ASSUME TypeOK, \A u \in Threads : Control(u), NEW t \in Threads, Access(t)
    PROVE  \A u \in Threads : Control(u)'
<1> DEFINE op == thread[t].op
<1>c. Control(t) /\ op \in OpsOf(t) /\ thread[t].pc \in PlacesOf(op)
  BY DEF Control
<1>s. Scans = {"connect", "look", "disconnect", "remove", "gone", "print"}
  BY DEF Scans, ByAddress, BySocket
<1>1. CASE TestOn(t)
  <2>1. Goes(t, op, "array") /\ thread[t].pc = "test"
    BY <1>1, TestOnIs DEF At
  <2>2. "array" \in PlacesOf(op)
    BY <1>c, <2>1, ControlPlaces, <1>s DEF PlacesOf, FoundPlaces, ShiftPlaces
  <2> QED BY <1>c, <2>1, <2>2, ControlGoes
<1>2. CASE TestOver(t)
  <2>1. CASE In(t, "connect") /\ Goes(t, "none", "socket")
    <3>1. "none" \in OpsOf(t) /\ "socket" \in PlacesOf("none")
      BY <1>c, <2>1, <1>s DEF In, OpsOf, PlacesOf, OpCodes
    <3> QED BY <2>1, <3>1, ControlGoes
  <2>2. CASE In(t, "shift") /\ Goes(t, "shift", "decrement")
    <3>1. "shift" \in OpsOf(t) /\ "decrement" \in PlacesOf("shift")
      BY <1>c, <2>2 DEF In, PlacesOf, ShiftPlaces
    <3> QED BY <2>2, <3>1, ControlGoes
  <2>3. CASE In(t, "poll") /\ Goes(t, "poll", "test")
    <3>1. "poll" \in OpsOf(t) /\ "test" \in PlacesOf("poll")
      BY <1>c, <2>3 DEF In, PlacesOf
    <3> QED BY <2>3, <3>1, ControlGoes
  <2> QED BY <1>2, <2>1, <2>2, <2>3, TestOverIs, ControlLeaves
<1>3. CASE LoadArray(t)
  <2>1. PICK pc \in {"slot", "cell", "realloc", "index"} :
            /\ Goes(t, op, pc)
            /\ \/ thread[t].pc = "array" /\ pc = IF op = "shift" THEN "slot" ELSE "cell"
               \/ thread[t].pc = "old" /\ pc = "realloc"
               \/ thread[t].pc = "slot" /\ pc = IF op = "shift" THEN "cell" ELSE "index"
    BY <1>3, LoadArrayIs DEF At, In
  <2>2. pc \in PlacesOf(op)
    BY <1>c, <2>1, <1>s, ControlPlaces DEF PlacesOf, FoundPlaces, ShiftPlaces, AddPlaces
  <2> QED BY <1>c, <2>1, <2>2, ControlGoes
<1>c1. CASE Crash(t)
  BY <1>c1, CrashIs, ControlSame
<1>4. CASE LoadCell(t) /\ ~Crash(t)
  <2>1. thread[t].pc = "cell" /\ Goes(t, op, IF op = "shift" THEN "store" ELSE "look")
    BY <1>4, LoadCellIs DEF At, In
  <2>2. (IF op = "shift" THEN "store" ELSE "look") \in PlacesOf(op)
    BY <1>c, <2>1, <1>s, ControlPlaces DEF PlacesOf, FoundPlaces, ShiftPlaces
  <2> QED BY <1>c, <2>1, <2>2, ControlGoes
<1>5. CASE LookDead(t)
  BY <1>5, <1>c1 DEF LookDead
<1>6. CASE LookOn(t)
  <2>1. /\ op \in (Scans \ {"print"}) \cup {"printed"}
        /\ Goes(t, IF op = "printed" THEN "print" ELSE op, "test")
    BY <1>6, LookOnIs DEF In
  <2>2. /\ (IF op = "printed" THEN "print" ELSE op) \in OpsOf(t)
        /\ "test" \in PlacesOf(IF op = "printed" THEN "print" ELSE op)
    BY <1>c, <2>1, <1>s DEF OpsOf, PlacesOf, OpCodes
  <2> QED BY <2>1, <2>2, ControlGoes
<1>7. CASE LookFound(t)
  <2>1. PICK to, pc : /\ Goes(t, to, pc)
                      /\ \/ op = "connect" /\ to = "listed" /\ pc = "array"
                         \/ op = "look" /\ to = "disconnect" /\ pc = "empty"
                         \/ op = "disconnect" /\ to = "send" /\ pc = "array"
                         \/ op = "remove" /\ to = "close" /\ pc = "array"
                         \/ op = "print" /\ to = "printed" /\ pc = "array"
    BY <1>7, LookFoundIs DEF In
  <2>2. to \in OpsOf(t) /\ pc \in PlacesOf(to)
    BY <1>c, <2>1, <1>s DEF OpsOf, PlacesOf, OpCodes, FoundPlaces
  <2> QED BY <2>1, <2>2, ControlGoes
<1>8. CASE LookSocket(t)
  <2>1. op \in {"poll", "send", "hangup", "close"} /\ Goes(t, op, "call")
    BY <1>8, LookSocketIs
  <2>2. "call" \in PlacesOf(op)
    BY <2>1, <1>s DEF PlacesOf, FoundPlaces
  <2> QED BY <1>c, <2>1, <2>2, ControlGoes
<1>9. CASE StoreCell(t) /\ ~Crash(t)
  <2>1. /\ thread[t].pc = "store"
        /\ \/ op = "add" /\ Goes(t, "add", "increment")
           \/ op # "add" /\ Goes(t, op, "test")
    BY <1>9, StoreCellIs DEF At, In
  <2>2. /\ op = "add" => "increment" \in PlacesOf(op)
        /\ op # "add" => "test" \in PlacesOf(op)
    BY <1>c, <2>1, ControlPlaces DEF PlacesOf, AddPlaces, ShiftPlaces
  <2> QED BY <1>c, <2>1, <2>2, ControlGoes
<1>10. CASE StoreSize(t)
  BY <1>10, StoreSizeIs, ControlLeaves
<1> QED BY <1>1, <1>2, <1>3, <1>c1, <1>4, <1>5, <1>6, <1>7, <1>8, <1>9, <1>10 DEF Access

LEMMA AddPeerControl ==
    ASSUME TypeOK, \A u \in Threads : Control(u), NEW t \in Adders, AddPeer(t)
    PROVE  \A u \in Threads : Control(u)'
<1> DEFINE op == thread[t].op
<1>t. t \in Threads /\ Control(t) /\ op \in OpsOf(t)
  BY DEF Adders, Threads, Control
<1>1. CASE AddRefuse(t)
  BY <1>1, <1>t, AddRefuseIs, ControlLeaves
<1>2. CASE Crash(t)
  BY <1>2, <1>t, CrashIs, ControlSame
<1>3. CASE ~AddRefuse(t) /\ ~Crash(t)
  <2>1. PICK pc \in AddPlaces :
            Goes(t, op, pc) /\ thread[t].pc \in {"room", "count", "realloc", "publish", "null",
                                                 "index", "increment"}
    <3>1. CASE AddRoom(t)
      BY <3>1, <1>t, AddRoomIs DEF At, AddPlaces
    <3>2. CASE AddCount(t)
      BY <3>2, <1>t, AddCountIs DEF At, AddPlaces
    <3>3. CASE Realloc(t)
      BY <3>3, <1>t, <1>3, ReallocIs DEF At, AddPlaces
    <3>4. CASE AddPublish(t)
      BY <3>4, <1>t, AddPublishIs DEF At, AddPlaces
    <3>5. CASE AddNull(t)
      BY <3>5, <1>t, AddNullIs DEF At, AddPlaces
    <3>6. CASE AddIndex(t)
      BY <3>6, <1>t, AddIndexIs DEF At, AddPlaces
    <3>7. CASE AddIncrement(t)
      BY <3>7, <1>t, AddIncrementIs DEF At, AddPlaces
    <3> QED BY <1>3, <3>1, <3>2, <3>3, <3>4, <3>5, <3>6, <3>7 DEF AddPeer
  <2>2. op = "add" /\ pc \in PlacesOf(op)
    BY <1>t, <2>1, ControlPlaces DEF PlacesOf
  <2> QED BY <1>t, <2>1, <2>2, ControlGoes
<1> QED BY <1>1, <1>2, <1>3

LEMMA RemovePeerControl ==
    ASSUME TypeOK, \A u \in Threads : Control(u), NEW t \in Threads, RemovePeer(t)
    PROVE  \A u \in Threads : Control(u)'
<1>t. Control(t) /\ thread[t].op \in OpsOf(t)
  BY DEF Control
<1>1. CASE RemoveClose(t)
  <2>1. In(t, "close") /\ Goes(t, "free", "array")
    BY <1>1, RemoveCloseIs
  <2>2. "free" \in OpsOf(t) /\ "array" \in PlacesOf("free")
    BY <1>t, <2>1 DEF In, OpsOf, PlacesOf, OpCodes, FoundPlaces, Scans, ByAddress, BySocket
  <2> QED BY <2>1, <2>2, ControlGoes
<1>2. CASE RemoveFree(t)
  <2>1. In(t, "free") /\ Goes(t, "shift", "test")
    BY <1>2, RemoveFreeIs
  <2>2. "shift" \in OpsOf(t) /\ "test" \in PlacesOf("shift")
    BY <1>t, <2>1 DEF In, OpsOf, PlacesOf, OpCodes, ShiftPlaces
  <2> QED BY <2>1, <2>2, ControlGoes
<1>3. CASE RemoveDecrement(t)
  <2>1. thread[t].op = "shift" /\ Goes(t, thread[t].op, "size")
    BY <1>3, <1>t, RemoveDecrementIs, ControlPlaces DEF At
  <2>2. "size" \in PlacesOf("shift")
    BY DEF PlacesOf, ShiftPlaces
  <2> QED BY <1>t, <2>1, <2>2, ControlGoes
<1> QED BY <1>1, <1>2, <1>3 DEF RemovePeer

LEMMA MainControl ==
    ASSUME TypeOK, \A u \in Threads : Control(u), Typed \/ Command
    PROVE  \A u \in Threads : Control(u)'
<1>t. "main" \in Threads
  BY DEF Threads
<1>o. /\ {"none", "connect", "look", "print", "add", "disconnect", "hangup", "drop", "remove"}
            \subseteq OpsOf("main")
      /\ {"exited", "connecting", "killed"} \subseteq PlacesOf("none")
      /\ "room" \in PlacesOf("add")
      /\ "look" \in PlacesOf("hangup") /\ "look" \in PlacesOf("drop")
      /\ \A op \in {"connect", "look", "print", "disconnect", "remove"} : "test" \in PlacesOf(op)
  BY DEF OpsOf, PlacesOf, OpCodes, AddPlaces, FoundPlaces, Scans, ByAddress, BySocket
<1>1. CASE Typed
  BY <1>1, <1>t, <1>o, TypedIs, ControlGoes
<1>2. CASE ConnectListed
  BY <1>2, <1>t, ConnectListedIs, ControlLeaves
<1>3. CASE ConnectSocket
  BY <1>3, <1>t, <1>o, ConnectSocketIs, ControlGoes, ControlLeaves
<1>4. CASE ConnectDone
  BY <1>4, <1>t, <1>o, ConnectDoneIs, ControlGoes
<1>5. CASE ConnectRefused
  BY <1>5, <1>t, ConnectRefusedIs, ControlLeaves
<1>6. CASE DisconnectEmpty
  BY <1>6, <1>t, <1>o, DisconnectEmptyIs, ControlGoes, ControlLeaves
<1>7. CASE DisconnectSend
  BY <1>7, <1>t, <1>o, DisconnectSendIs, ControlGoes
<1>8. CASE DisconnectClose
  BY <1>8, <1>t, <1>o, DisconnectCloseIs, ControlGoes
<1>9. CASE DisconnectRemove
  BY <1>9, <1>t, <1>o, DisconnectRemoveIs, ControlGoes
<1> QED BY <1>1, <1>2, <1>3, <1>4, <1>5, <1>6, <1>7, <1>8, <1>9 DEF Command

LEMMA AcceptControl ==
    ASSUME TypeOK, \A u \in Threads : Control(u), NEW c \in Conns, AcceptConnect(c)
    PROVE  \A u \in Threads : Control(u)'
<1>1. "accept" \in Threads /\ "add" \in OpsOf("accept") /\ "room" \in PlacesOf("add")
  BY DEF Threads, OpsOf, PlacesOf, AddPlaces
<1> QED BY <1>1, AcceptConnectIs, ControlGoes

\* The monitor, outside remove_peer.
LEMMA MonitorIs ==
    ASSUME TypeOK, Control("monitor"), Monitor
    PROVE  /\ size' = size /\ peers' = peers /\ heap' = heap /\ object' = object
           /\ socket' = socket /\ fds' = fds /\ backlog' = backlog /\ fault' = fault
           /\ \A c \in Conns : remote'[c] = "new" <=> remote[c] = "new"
           /\ Running
           /\ \/ In("monitor", "poll") /\ Leaves("monitor")
              \/ In("monitor", "poll") /\ Goes("monitor", "poll", "recv")
              \/ In("monitor", "poll") /\ Goes("monitor", "gone", "test") /\ thread'["monitor"].i = 0
              \/ /\ At("monitor", "look") /\ In("monitor", "gone")
                 /\ Goes("monitor", "remove", "test") /\ thread'["monitor"].i = 0
<1>t. "monitor" \in Threads /\ thread["monitor"] \in Registers
  BY Reading DEF Threads
<1>p. Running /\ (thread["monitor"].pc = "recv" => thread["monitor"].op = "poll")
  BY <1>t, ControlPlaces DEF Monitor, MonitorRecv, MonitorPeek, MonitorError, MonitorEof, MonitorRemove, At
<1>q. /\ size' = size /\ peers' = peers /\ heap' = heap /\ object' = object
      /\ socket' = socket /\ fds' = fds /\ backlog' = backlog /\ fault' = fault
  BY DEF Monitor, MonitorRecv, MonitorPeek, MonitorError, MonitorEof, MonitorRemove, Private,
         table, objects, kernel
<1>r. \A c \in Conns : remote'[c] = "new" <=> remote[c] = "new"
  <2>1. CASE MonitorError
    BY <2>1 DEF MonitorError, TypeOK
  <2>2. CASE ~MonitorError
    BY <2>2 DEF Monitor, MonitorRecv, MonitorPeek, MonitorEof, MonitorRemove, Private, kernel
  <2> QED BY <2>1, <2>2
<1>1. CASE MonitorRecv
  <2>1. ASSUME NEW c, Become("monitor", [thread["monitor"] EXCEPT !.pc = "recv", !.conn = c])
        PROVE  Goes("monitor", thread["monitor"].op, "recv")
    <3>1. /\ thread'["monitor"] = [thread["monitor"] EXCEPT !.pc = "recv", !.conn = c]
          /\ \A u \in Threads \ {"monitor"} : thread'[u] = thread[u]
      BY <1>t, <2>1, BecomeIs
    <3> QED BY <1>t, <3>1 DEF Goes, Registers
  <2>2. In("monitor", "poll")
    BY <1>1 DEF MonitorRecv
  <2> QED BY <1>1, <1>t, <1>p, <1>q, <1>r, <2>1, <2>2, ReturnedIs DEF MonitorRecv, In
<1>2. CASE MonitorPeek
  BY <1>2, <1>t, <1>p, <1>q, <1>r, ReturnedIs DEF MonitorPeek, In, At
<1>3. CASE MonitorError
  BY <1>3, <1>t, <1>p, <1>q, <1>r, ReturnedIs DEF MonitorError, In, At
<1>4. CASE MonitorEof
  <2>1. Become("monitor", Scan("monitor", "gone", thread["monitor"].n)) /\ In("monitor", "poll")
    BY <1>4, <1>p DEF MonitorEof, In, At
  <2>2. Goes("monitor", "gone", "test") /\ thread'["monitor"].i = 0
    BY <1>t, <2>1, ScanIs
  <2> QED BY <1>p, <1>q, <1>r, <2>1, <2>2
<1>5. CASE MonitorRemove
  <2>1. /\ Become("monitor", Scan("monitor", "remove", thread["monitor"].i))
        /\ At("monitor", "look") /\ In("monitor", "gone")
    BY <1>5 DEF MonitorRemove
  <2>2. Goes("monitor", "remove", "test") /\ thread'["monitor"].i = 0
    BY <1>t, <2>1, ScanIs
  <2> QED BY <1>p, <1>q, <1>r, <2>1, <2>2
<1> QED BY <1>1, <1>2, <1>3, <1>4, <1>5 DEF Monitor

LEMMA MonitorControl ==
    ASSUME TypeOK, \A u \in Threads : Control(u), Monitor
    PROVE  \A u \in Threads : Control(u)'
<1>1. /\ "monitor" \in Threads /\ {"poll", "gone", "remove"} \subseteq OpsOf("monitor")
      /\ "recv" \in PlacesOf("poll") /\ "test" \in PlacesOf("gone") /\ "test" \in PlacesOf("remove")
  BY DEF Threads, OpsOf, PlacesOf, Scans, BySocket
<1> QED BY <1>1, MonitorIs, ControlGoes, ControlLeaves

\* What the far ends do is seen by recv alone.
LEMMA NetworkIs ==
    ASSUME Network
    PROVE  /\ thread' = thread /\ size' = size /\ peers' = peers /\ heap' = heap
           /\ object' = object /\ socket' = socket /\ fds' = fds /\ fault' = fault /\ Running
BY DEF Network, RemoteConnect, RemoteSend, RemoteEnd, table, objects, kernel

LEMMA NextControl ==
    ASSUME TypeOK, \A u \in Threads : Control(u), [Next]_vars
    PROVE  \A u \in Threads : Control(u)'
<1>0. {"main", "accept", "monitor"} \subseteq Threads /\ {"main", "accept"} \subseteq Adders
  BY DEF Threads, Adders
<1>1. CASE UNCHANGED vars
  BY <1>1, ControlSame DEF vars
<1>2. CASE Typed
  BY <1>2, MainControl
<1>3. CASE MainStep
  BY <1>0, <1>3, AccessControl, AddPeerControl, RemovePeerControl, MainControl DEF MainStep
<1>4. CASE AcceptStep
  BY <1>0, <1>4, AccessControl, AddPeerControl, AcceptControl DEF AcceptStep
<1>5. CASE MonitorStep
  BY <1>0, <1>5, AccessControl, RemovePeerControl, MonitorControl DEF MonitorStep
<1>6. CASE Network
  BY <1>6, NetworkIs, ControlSame
<1> QED BY <1>1, <1>2, <1>3, <1>4, <1>5, <1>6 DEF Next

LEMMA InitControl ==
    ASSUME Init
    PROVE  \A u \in Threads : Control(u)
BY DEF Init, Control, OpsOf, PlacesOf, OpCodes, Rest, Polling, Threads

-----------------------------------------------------------------------------
(* The history: which threads have been inside the functions together.     *)

Meets ==
    /\ "operations" \notin met => ~Meeting(Threads) /\ "command" \notin met
    /\ "command" \notin met =>
          ~Meeting({"main", "accept"}) /\ ~Meeting({"main", "monitor"}) /\ "adds" \notin met
    /\ "adds" \notin met => ~\A t \in Adders : In(t, "add")

LEMMA NextMeets ==
    ASSUME TypeOK, Meets, [Next]_vars
    PROVE  Meets' /\ met \subseteq met'
<1>0. /\ Meeting({"main", "accept"}) \/ Meeting({"main", "monitor"}) => Meeting(Threads)
      /\ (\A t \in Adders : In(t, "add")) => Meeting({"main", "accept"})
  BY DEF Meeting, Threads, Adders, In, Inside
<1>1. CASE UNCHANGED vars
  BY <1>1 DEF vars, Meets, Meeting, Inside, In
<1>2. CASE Next
  <2>1. met' = met \cup Together'
    BY <1>2 DEF Next
  <2>2. /\ (Meeting({"main", "accept"}) \/ Meeting({"main", "monitor"}) => Meeting(Threads))'
        /\ ((\A t \in Adders : In(t, "add")) => Meeting({"main", "accept"}))'
    BY DEF Meeting, Threads, Adders, In, Inside
  <2>3. met' = met \cup (IF Meeting(Threads)' THEN {"operations"} ELSE {})
                   \cup (IF Meeting({"main", "accept"})' \/ Meeting({"main", "monitor"})' THEN {"command"} ELSE {})
                   \cup (IF \A t \in Adders : In(t, "add")' THEN {"adds"} ELSE {})
    BY <2>1 DEF Together
  <2> QED BY <2>2, <2>3 DEF Meets
<1> QED BY <1>1, <1>2

LEMMA InitMeets ==
    ASSUME Init
    PROVE  Meets
BY DEF Init, Meets, Meeting, Inside, In, Adders, Threads, Rest, Polling

-----------------------------------------------------------------------------
(* Capacity.                                                               *)

\* What thread t knows of the bound: room is left while it adds, and what it is
\* about to store in size does not exceed max_peers.
Bounded(t) ==
    /\ In(t, "shift") /\ thread[t].pc = "size" => thread[t].n < MaxPeers
    /\ In(t, "add") /\ thread[t].pc \notin {"room", "refuse"} => size < MaxPeers
    /\ In(t, "add") /\ thread[t].pc = "size" => thread[t].n <= MaxPeers

WithinBounds == size <= MaxPeers /\ \A t \in Threads : Bounded(t)

\* A step that leaves size alone need only keep what its own thread knows.
LEMMA BoundedGoes ==
    ASSUME WithinBounds, NEW t \in Threads, size' = size, Bounded(t)',
           \A u \in Threads \ {t} : thread'[u] = thread[u]
    PROVE  WithinBounds'
<1>1. ASSUME NEW u \in Threads \ {t}
      PROVE  Bounded(u)'
  BY <1>1 DEF WithinBounds, Bounded, In
<1> QED BY <1>1 DEF WithinBounds

\* So does one that takes its thread elsewhere.
LEMMA BoundedElsewhere ==
    ASSUME WithinBounds, NEW t \in Threads, size' = size, NEW op, NEW pc, Goes(t, op, pc),
           op \notin {"add", "shift"} \/ (op = "add" /\ pc = "room") \/ (op = "shift" /\ pc = "test")
    PROVE  WithinBounds'
<1>1. Bounded(t)'
  BY DEF Goes, Bounded, In
<1> QED BY <1>1, BoundedGoes DEF Goes

LEMMA BoundedLeaves ==
    ASSUME WithinBounds, NEW t \in Threads, size' = size, Leaves(t)
    PROVE  WithinBounds'
BY BoundedElsewhere DEF Leaves

LEMMA BoundedAccess ==
    ASSUME TypeOK, \A u \in Threads : Control(u), WithinBounds, "adds" \notin met, Meets,
           NEW t \in Threads, Access(t)
    PROVE  WithinBounds'
<1> DEFINE op == thread[t].op
<1>c. Control(t) /\ Bounded(t) /\ size \in Int /\ MaxPeers \in Int
  BY ConstantsOK DEF WithinBounds, TypeOK
<1>1. CASE TestOn(t)
  <2>1. Goes(t, op, "array") /\ size' = size /\ thread[t].pc = "test"
    BY <1>1, TestOnIs DEF Quiet, At
  <2>2. Bounded(t)'
    BY <1>c, <2>1, ControlPlaces DEF Goes, Bounded, In, Scans, ByAddress, BySocket
  <2> QED BY <2>1, <2>2, BoundedGoes DEF Goes
<1>2. CASE TestOver(t)
  <2>1. size' = size
    BY <1>2, TestOverIs DEF Quiet
  <2>2. CASE In(t, "shift") /\ Goes(t, "shift", "decrement")
    <3>1. Bounded(t)'
      BY <2>2 DEF Goes, Bounded, In
    <3> QED BY <2>1, <2>2, <3>1, BoundedGoes DEF Goes
  <2> QED BY <1>2, <2>1, <2>2, TestOverIs, BoundedElsewhere, BoundedLeaves
<1>3. CASE LoadArray(t)
  <2>1. PICK pc \in {"slot", "cell", "realloc", "index"} :
            Goes(t, op, pc) /\ size' = size /\ (thread[t].pc \in {"array", "old", "slot"})
    BY <1>3, LoadArrayIs DEF Quiet, At
  <2>2. Bounded(t)'
    BY <1>c, <2>1 DEF Goes, Bounded, In
  <2> QED BY <2>1, <2>2, BoundedGoes DEF Goes
<1>c1. CASE Crash(t)
  BY <1>c1, CrashIs DEF WithinBounds, Bounded, In
<1>4. CASE LoadCell(t) /\ ~Crash(t)
  <2>1. /\ thread[t].pc = "cell" /\ size' = size
        /\ Goes(t, op, IF In(t, "shift") THEN "store" ELSE "look")
    BY <1>4, LoadCellIs DEF Quiet, At
  <2>2. op # "add"
    BY <1>c, <2>1, ControlPlaces
  <2>3. Bounded(t)'
    BY <2>1, <2>2 DEF Goes, Bounded, In
  <2> QED BY <2>1, <2>3, BoundedGoes DEF Goes
<1>5. CASE LookDead(t)
  BY <1>5, <1>c1 DEF LookDead
<1>6. CASE LookOn(t)
  <2>1. /\ size' = size /\ op \in (Scans \ {"print"}) \cup {"printed"}
        /\ Goes(t, IF In(t, "printed") THEN "print" ELSE op, "test")
    BY <1>6, LookOnIs DEF Quiet
  <2>2. (IF In(t, "printed") THEN "print" ELSE op) \notin {"add", "shift"}
    BY <2>1 DEF Scans, ByAddress, BySocket
  <2> QED BY <2>1, <2>2, BoundedElsewhere
<1>7. CASE LookFound(t)
  <2>1. /\ size' = size
        /\ \E to \in {"listed", "disconnect", "send", "close", "printed"} : \E pc : Goes(t, to, pc)
    BY <1>7, LookFoundIs DEF Quiet
  <2> QED BY <2>1, BoundedElsewhere
<1>8. CASE LookSocket(t)
  <2>1. size' = size /\ op \in {"poll", "send", "hangup", "close"} /\ Goes(t, op, "call")
    BY <1>8, LookSocketIs DEF Quiet
  <2> QED BY <2>1, BoundedElsewhere
<1>9. CASE StoreCell(t) /\ ~Crash(t)
  <2>1. /\ thread[t].pc = "store" /\ size' = size
        /\ \/ op = "add" /\ Goes(t, "add", "increment")
           \/ op # "add" /\ Goes(t, op, "test")
    BY <1>9, StoreCellIs DEF At, In
  <2>2. CASE op = "add" /\ Goes(t, "add", "increment")
    <3>1. Bounded(t)'
      BY <1>c, <2>1, <2>2 DEF Goes, Bounded, In
    <3> QED BY <2>1, <2>2, <3>1, BoundedGoes DEF Goes
  <2> QED BY <2>1, <2>2, BoundedElsewhere
<1>10. CASE StoreSize(t)
  <2>1. thread[t].pc = "size" /\ size' = thread[t].n /\ Leaves(t)
    BY <1>10, StoreSizeIs DEF At
  <2>2. op \in {"add", "shift"}
    BY <1>c, <2>1, ControlPlaces
  <2>3. Bounded(t)'
    BY <2>1 DEF Leaves, Goes, Bounded, In
  <2>4. thread[t].n \in Int
    BY Reading
  <2>5. size' <= MaxPeers
    BY <1>c, <2>1, <2>2, <2>4 DEF Bounded, In
  <2>6. ASSUME NEW u \in Threads \ {t}
        PROVE  Bounded(u)'
    <3>1. thread'[u] = thread[u] /\ Bounded(u)
      BY <2>1 DEF Leaves, Goes, WithinBounds
    <3>2. CASE op = "shift"
      BY <1>c, <2>1, <2>4, <3>1, <3>2 DEF Bounded, In
    <3>3. CASE op = "add"
      <4>1. ~In(u, "add")
        <5>1. t \in Adders
          BY <1>c, <3>3, ControlPlaces
        <5>2. u \in Adders /\ In(u, "add") => \A a \in Adders : In(a, "add")
          BY <5>1, <3>3, <2>6 DEF Adders, In
        <5>3. Control(u)
          BY <2>6
        <5> QED BY <5>2, <5>3, <2>6, ControlPlaces DEF Meets, In
      <4> QED BY <3>1, <4>1 DEF Bounded, In
    <3> QED BY <2>2, <3>2, <3>3
  <2> QED BY <2>3, <2>5, <2>6 DEF WithinBounds
<1> QED BY <1>1, <1>2, <1>3, <1>c1, <1>4, <1>5, <1>6, <1>7, <1>8, <1>9, <1>10 DEF Access

LEMMA BoundedAddPeer ==
    ASSUME TypeOK, \A u \in Threads : Control(u), WithinBounds, NEW t \in Adders, AddPeer(t)
    PROVE  WithinBounds'
<1> DEFINE op == thread[t].op
<1>c. /\ t \in Threads /\ Control(t) /\ Bounded(t) /\ size \in Int /\ size <= MaxPeers
      /\ MaxPeers \in Int
  BY ConstantsOK DEF WithinBounds, TypeOK, Adders, Threads
<1>1. CASE AddRoom(t)
  <2>1. /\ size' = size /\ Goes(t, op, IF size = MaxPeers THEN "refuse" ELSE "count")
        /\ thread[t].pc = "room"
    BY <1>1, <1>c, AddRoomIs DEF Quiet, At
  <2>2. op = "add"
    BY <1>c, <2>1, ControlPlaces
  <2>3. Bounded(t)'
    BY <1>c, <2>1, <2>2 DEF Goes, Bounded, In
  <2> QED BY <1>c, <2>1, <2>3, BoundedGoes DEF Goes
<1>2. CASE AddRefuse(t)
  BY <1>2, <1>c, AddRefuseIs, BoundedLeaves
<1>3. CASE Crash(t)
  BY <1>3, <1>c, CrashIs DEF WithinBounds, Bounded, In
<1>4. CASE ~AddRoom(t) /\ ~AddRefuse(t) /\ ~Crash(t)
  <2>1. PICK pc \in {"old", "publish", "null", "slot", "refuse", "store", "size"} :
            /\ Goes(t, op, pc) /\ size' = size
            /\ thread[t].pc \in {"count", "realloc", "publish", "null", "index", "increment"}
            /\ pc = "size" => thread'[t].n = size + 1
    <3>2. CASE AddCount(t)
      BY <3>2, <1>c, AddCountIs DEF At, Quiet
    <3>3. CASE Realloc(t)
      BY <3>3, <1>c, <1>4, ReallocIs DEF At
    <3>4. CASE AddPublish(t)
      BY <3>4, <1>c, AddPublishIs DEF At
    <3>5. CASE AddNull(t)
      BY <3>5, <1>c, AddNullIs DEF At, Quiet
    <3>6. CASE AddIndex(t)
      BY <3>6, <1>c, AddIndexIs DEF At, Quiet
    <3>7. CASE AddIncrement(t)
      BY <3>7, <1>c, AddIncrementIs DEF At, Quiet
    <3> QED BY <1>4, <3>2, <3>3, <3>4, <3>5, <3>6, <3>7 DEF AddPeer
  <2>2. op = "add"
    BY <1>c, <2>1, ControlPlaces
  <2>3. Bounded(t)'
    BY <1>c, <2>1, <2>2 DEF Goes, Bounded, In
  <2> QED BY <1>c, <2>1, <2>3, BoundedGoes DEF Goes
<1> QED BY <1>1, <1>2, <1>3, <1>4

LEMMA BoundedRemovePeer ==
    ASSUME TypeOK, \A u \in Threads : Control(u), WithinBounds, NEW t \in Threads, RemovePeer(t)
    PROVE  WithinBounds'
<1>c. Control(t) /\ size \in Int /\ size <= MaxPeers /\ MaxPeers \in Int
  BY ConstantsOK DEF WithinBounds, TypeOK
<1>1. CASE RemoveClose(t)
  BY <1>1, RemoveCloseIs, BoundedElsewhere
<1>2. CASE RemoveFree(t)
  BY <1>2, RemoveFreeIs, BoundedElsewhere
<1>3. CASE RemoveDecrement(t)
  <2>1. /\ size' = size /\ Goes(t, thread[t].op, "size") /\ thread'[t].n = size - 1
        /\ thread[t].pc = "decrement"
    BY <1>3, RemoveDecrementIs DEF Quiet, At
  <2>2. thread[t].op = "shift"
    BY <1>c, <2>1, ControlPlaces
  <2>3. Bounded(t)'
    BY <1>c, <2>1, <2>2 DEF Goes, Bounded, In
  <2> QED BY <2>1, <2>3, BoundedGoes DEF Goes
<1> QED BY <1>1, <1>2, <1>3 DEF RemovePeer

LEMMA BoundedMain ==
    ASSUME TypeOK, WithinBounds, Typed \/ Command
    PROVE  WithinBounds'
<1>t. "main" \in Threads
  BY DEF Threads
<1>1. CASE Typed
  BY <1>1, <1>t, TypedIs, BoundedElsewhere DEF Quiet
<1>2. CASE ConnectListed
  BY <1>2, <1>t, ConnectListedIs, BoundedLeaves DEF Quiet
<1>3. CASE ConnectSocket
  BY <1>3, <1>t, ConnectSocketIs, BoundedElsewhere, BoundedLeaves
<1>4. CASE ConnectDone
  BY <1>4, <1>t, ConnectDoneIs, BoundedElsewhere
<1>5. CASE ConnectRefused
  BY <1>5, <1>t, ConnectRefusedIs, BoundedLeaves
<1>6. CASE DisconnectEmpty
  BY <1>6, <1>t, DisconnectEmptyIs, BoundedElsewhere, BoundedLeaves DEF Quiet
<1>7. CASE DisconnectSend
  BY <1>7, <1>t, DisconnectSendIs, BoundedElsewhere
<1>8. CASE DisconnectClose
  BY <1>8, <1>t, DisconnectCloseIs, BoundedElsewhere
<1>9. CASE DisconnectRemove
  BY <1>9, <1>t, DisconnectRemoveIs, BoundedElsewhere DEF Quiet
<1> QED BY <1>1, <1>2, <1>3, <1>4, <1>5, <1>6, <1>7, <1>8, <1>9 DEF Command

LEMMA BoundedNext ==
    ASSUME TypeOK, \A u \in Threads : Control(u), Meets, "adds" \notin met, WithinBounds, [Next]_vars
    PROVE  WithinBounds'
<1>0. {"main", "accept", "monitor"} \subseteq Threads /\ {"main", "accept"} \subseteq Adders
  BY DEF Threads, Adders
<1>1. CASE UNCHANGED vars
  BY <1>1 DEF vars, table, WithinBounds, Bounded, In
<1>2. CASE Typed
  BY <1>2, BoundedMain
<1>3. CASE MainStep
  BY <1>0, <1>3, BoundedAccess, BoundedAddPeer, BoundedRemovePeer, BoundedMain DEF MainStep
<1>4. CASE AcceptStep
  <2>1. CASE \E c \in Conns : AcceptConnect(c)
    BY <1>0, <2>1, AcceptConnectIs, BoundedElsewhere
  <2> QED BY <1>0, <1>4, <2>1, BoundedAccess, BoundedAddPeer DEF AcceptStep
<1>5. CASE MonitorStep
  <2>1. CASE Monitor
    BY <1>0, <2>1, MonitorIs, BoundedElsewhere, BoundedLeaves
  <2> QED BY <1>0, <1>5, <2>1, BoundedAccess, BoundedRemovePeer DEF MonitorStep
<1>6. CASE Network
  BY <1>6, NetworkIs DEF WithinBounds, Bounded, In
<1> QED BY <1>1, <1>2, <1>3, <1>4, <1>5, <1>6 DEF Next

\* add_peer's own test, the test before connect() and every removal keep the
\* table within max_peers, up to the moment at which CONNECT and accept are
\* inside add_peer together (peer.c:18-37): then both may pass the test.
THEOREM NeverOverCapacity == Spec => []Capacity
<1> DEFINE Inv == /\ TypeOK /\ Meets /\ \A u \in Threads : Control(u)
                  /\ "adds" \notin met => WithinBounds
<1>1. Init => Inv
  <2> SUFFICES ASSUME Init PROVE Inv
    OBVIOUS
  <2>1. WithinBounds
    BY ConstantsOK DEF Init, WithinBounds, Bounded, In, Rest, Polling
  <2> QED BY <2>1, InitTyped, InitMeets, InitControl
<1>2. Inv /\ [Next]_vars => Inv'
  <2> SUFFICES ASSUME Inv, [Next]_vars PROVE Inv'
    OBVIOUS
  <2>1. TypeOK' /\ Meets' /\ met \subseteq met' /\ \A u \in Threads : Control(u)'
    BY NextTyped, NextMeets, NextControl
  <2>2. "adds" \notin met' => WithinBounds'
    BY <2>1, BoundedNext
  <2> QED BY <2>1, <2>2
<1>3. Inv => Capacity
  BY DEF WithinBounds, Capacity
<1> QED BY <1>1, <1>2, <1>3, PTL DEF Spec

-----------------------------------------------------------------------------
(* The accept thread accesses only memory that is there.                   *)

\* The allocation b is there, and has k cells or more.
Room(b, k) == b # 0 /\ heap[b].live /\ k <= Len(heap[b].cells)

\* What a thread that adds knows: nobody else moves the array, and size does not
\* grow while it is at work.
AdderKnows(t) ==
    LET me == thread[t]
    IN  In(t, "add") =>
            /\ me.pc \in {"old", "realloc"} => me.n >= size + 1
            /\ me.pc = "realloc" => me.base = peers
            /\ me.pc = "publish" => Room(me.base, size + 1)
            /\ me.pc \in {"null", "slot", "index", "store", "increment"} => Room(peers, size + 1)
            /\ me.pc \in {"index", "store"} => me.to = peers
            /\ me.pc = "store" => me.n >= 0 /\ me.n + 1 <= Len(heap[peers].cells)
            /\ me.pc = "size" => me.n >= size + 1 /\ Room(peers, me.n)

\* What a thread that removes knows: its entry is still counted.
RemoverKnows(t) ==
    LET me == thread[t]
    IN  /\ (In(t, "remove") /\ me.pc # "test") \/ me.op \in {"close", "free", "shift"} => size >= 1
        /\ In(t, "shift") /\ me.pc = "size" => me.n >= 0 /\ me.n < size

Publishing == \E t \in Threads : In(t, "add") /\ thread[t].pc = "publish"

Sound ==
    /\ size >= 0
    /\ ~Publishing => (peers = 0 /\ size = 0) \/ Room(peers, size)
    /\ \A t \in Threads : AdderKnows(t) /\ RemoverKnows(t)

LEMMA HeapTyped ==
    ASSUME TypeOK
    PROVE  /\ Len(heap) \in Nat /\ DOMAIN heap = 1..Len(heap)
           /\ \A b \in 1..Len(heap) : /\ heap[b].live \in BOOLEAN /\ heap[b].cells \in Seq(Cells)
                                      /\ Len(heap[b].cells) \in Nat
                                      /\ DOMAIN heap[b].cells = 1..Len(heap[b].cells)
<1>1. \A S : heap \in Seq(S) => /\ Len(heap) \in Nat /\ DOMAIN heap = 1..Len(heap)
                                /\ \A b \in 1..Len(heap) : heap[b] \in S
  OBVIOUS
<1>2. /\ Len(heap) \in Nat /\ DOMAIN heap = 1..Len(heap)
      /\ \A b \in 1..Len(heap) : heap[b] \in [live : BOOLEAN, cells : Seq(Cells)]
  BY <1>1 DEF TypeOK
<1>3. \A b \in 1..Len(heap) : heap[b].live \in BOOLEAN /\ heap[b].cells \in Seq(Cells)
  BY <1>2
<1>4. \A c \in Seq(Cells) : Len(c) \in Nat /\ DOMAIN c = 1..Len(c)
  OBVIOUS
<1> QED BY <1>2, <1>3, <1>4

\* More room than asked for will do.
LEMMA RoomLess ==
    ASSUME TypeOK, NEW b \in 0..Len(heap), NEW j \in Int, NEW k \in Int, j <= k, Room(b, k)
    PROVE  Room(b, j)
<1>1. b \in 1..Len(heap) /\ Len(heap[b].cells) \in Nat
  BY HeapTyped DEF Room
<1> QED BY <1>1 DEF Room

\* The cells that a store changes are counted as before.
LEMMA StoreRoom ==
    ASSUME TypeOK, NEW b, NEW k, NEW c, InArray(b, k), heap' = [heap EXCEPT ![b].cells[k] = c]
    PROVE  /\ \A a \in 0..Len(heap) : a # 0 => /\ heap'[a].live = heap[a].live
                                               /\ Len(heap'[a].cells) = Len(heap[a].cells)
           /\ Len(heap') = Len(heap)
<1>1. /\ b \in 1..Len(heap) /\ heap[b] \in [live : BOOLEAN, cells : Seq(Cells)]
      /\ heap[b].cells \in Seq(Cells) /\ k \in 1..Len(heap[b].cells)
  BY CellTyped DEF TypeOK
<1>3. Len(heap) \in Nat /\ DOMAIN heap = 1..Len(heap)
  BY HeapTyped
<1>4. heap' = [heap EXCEPT ![b] = [heap[b] EXCEPT !.cells = [heap[b].cells EXCEPT ![k] = c]]]
  OBVIOUS
<1>5. PICK r : r = [heap[b] EXCEPT !.cells = [heap[b].cells EXCEPT ![k] = c]]
  OBVIOUS
<1>6. r.live = heap[b].live /\ r.cells = [heap[b].cells EXCEPT ![k] = c]
  BY <1>1, <1>5
<1>7. Len(r.cells) = Len(heap[b].cells)
  BY <1>1, <1>6
<1>8. heap' = [heap EXCEPT ![b] = r]
  BY <1>4, <1>5
<1>9. DOMAIN heap' = 1..Len(heap) /\ \A a \in 1..Len(heap) : heap'[a] = IF a = b THEN r ELSE heap[a]
  BY <1>3, <1>8
<1>10. Len(heap') = Len(heap)
  BY <1>3, <1>9
<1> QED BY <1>3, <1>6, <1>7, <1>9, <1>10

\* A step that leaves the table alone need only keep what its own thread knows.
LEMMA SoundGoes ==
    ASSUME TypeOK, Sound, NEW t \in Threads, size' = size, peers' = peers, heap' = heap,
           \A u \in Threads \ {t} : thread'[u] = thread[u],
           AdderKnows(t)', RemoverKnows(t)',
           ~(In(t, "add") /\ thread[t].pc = "publish"),
           ~(In(t, "add") /\ thread[t].pc = "publish")'
    PROVE  Sound'
<1>1. ASSUME NEW u \in Threads \ {t}
      PROVE  /\ thread'[u] = thread[u] /\ AdderKnows(u)' /\ RemoverKnows(u)'
  BY <1>1 DEF Sound, AdderKnows, RemoverKnows, Room, In
<1>2. Publishing' <=> Publishing
  BY <1>1 DEF Publishing, In
<1> QED BY <1>1, <1>2 DEF Sound, Room

\* So does one that takes its thread where nothing is known.
LEMMA SoundElsewhere ==
    ASSUME TypeOK, Sound, NEW t \in Threads, size' = size, peers' = peers, heap' = heap,
           ~(In(t, "add") /\ thread[t].pc = "publish"),
           NEW op, NEW pc, Goes(t, op, pc),
           \/ op \notin {"add", "remove", "close", "free", "shift"}
           \/ op = "add" /\ pc \in {"room", "refuse", "count"}
           \/ op = "remove" /\ pc = "test"
           \/ op # "add" /\ pc # "size" /\ size >= 1
    PROVE  Sound'
<1>1. AdderKnows(t)' /\ RemoverKnows(t)'
  BY DEF Goes, AdderKnows, RemoverKnows, In
<1>2. ~(In(t, "add") /\ thread[t].pc = "publish")'
  BY DEF Goes, In
<1> QED BY <1>1, <1>2, SoundGoes DEF Goes

LEMMA SoundLeaves ==
    ASSUME TypeOK, Sound, NEW t \in Threads, size' = size, peers' = peers, heap' = heap, Leaves(t),
           ~(In(t, "add") /\ thread[t].pc = "publish")
    PROVE  Sound'
BY SoundElsewhere DEF Leaves

LEMMA SoundCrash ==
    ASSUME Sound, NEW t \in Threads, Crash(t)
    PROVE  Sound'
BY CrashIs DEF Sound, AdderKnows, RemoverKnows, Room, Publishing, In

\* While main is inside the functions nobody else is; the accept thread and the
\* monitor may be inside together.
LEMMA Alone ==
    ASSUME Meets, "command" \notin met, \A w \in Threads : Control(w),
           NEW t \in Threads, NEW u \in Threads, t # u, Inside(t), Inside(u)
    PROVE  {t, u} = {"accept", "monitor"}
BY DEF Meets, Meeting, Threads

LEMMA SoundAccess ==
    ASSUME TypeOK, \A u \in Threads : Control(u), Sound, "command" \notin met, Meets,
           NEW t \in Threads, Access(t)
    PROVE  Sound' /\ (fault' = "accept" => fault = "accept")
<1> DEFINE op == thread[t].op
<1>c. /\ Control(t) /\ AdderKnows(t) /\ RemoverKnows(t) /\ size \in Int /\ peers \in 0..Len(heap)
      /\ thread[t].i \in Nat /\ thread[t].n \in Int
  BY Reading DEF Sound, TypeOK
<1>s. \A x \in Scans : x \in {"connect", "look", "disconnect", "remove", "gone", "print"}
  BY DEF Scans, ByAddress, BySocket
<1>1. CASE TestOn(t)
  <2>1. /\ Goes(t, op, "array") /\ thread[t].pc = "test" /\ thread[t].i < End(t) /\ Quiet
    BY <1>1, TestOnIs DEF At
  <2>2. op # "add"
    BY <1>c, <1>s, <2>1, ControlPlaces
  <2>3. op = "remove" => size >= 1
    BY <1>c, <2>1 DEF End, In
  <2>4. op \in {"close", "free", "shift"} => size >= 1
    BY <1>c DEF RemoverKnows
  <2> QED BY <2>1, <2>2, <2>3, <2>4, SoundElsewhere DEF Quiet, In
<1>2. CASE TestOver(t)
  <2>1. Quiet /\ thread[t].pc = "test"
    BY <1>2, TestOverIs DEF At
  <2>2. CASE In(t, "shift") /\ Goes(t, "shift", "decrement")
    <3>1. size >= 1
      BY <1>c, <2>2 DEF RemoverKnows, In
    <3> QED BY <2>1, <2>2, <3>1, SoundElsewhere DEF Quiet
  <2> QED BY <1>2, <2>1, <2>2, TestOverIs, SoundElsewhere, SoundLeaves DEF Quiet
<1>3. CASE LoadArray(t)
  <2>1. PICK pc : /\ Goes(t, op, pc) /\ Quiet /\ thread'[t].n = thread[t].n
                  /\ \/ thread[t].pc = "array" /\ pc \in {"slot", "cell"}
                     \/ thread[t].pc = "old" /\ pc = "realloc" /\ thread'[t].base = peers
                     \/ /\ thread[t].pc = "slot" /\ thread'[t].to = peers
                        /\ pc = IF op = "shift" THEN "cell" ELSE "index"
    BY <1>3, LoadArrayIs DEF At, In
  <2>2. CASE op = "add"
    <3>1. thread[t].pc # "array" /\ pc # "cell"
      BY <1>c, <2>1, <2>2, ControlPlaces
    <3>2. AdderKnows(t)' /\ RemoverKnows(t)'
      BY <1>c, <2>1, <2>2, <3>1 DEF Goes, AdderKnows, RemoverKnows, In, Quiet, Room
    <3> QED BY <2>1, <3>2, SoundGoes DEF Goes, In, Quiet
  <2>3. CASE op # "add"
    <3>1. op \in {"remove", "close", "free", "shift"} => size >= 1
      BY <1>c, <2>1 DEF RemoverKnows, In
    <3> QED BY <2>1, <2>3, <3>1, SoundElsewhere DEF In, Quiet
  <2> QED BY <2>2, <2>3 DEF Quiet
<1>4. CASE LoadCell(t)
  <2>1. thread[t].pc = "cell" /\ op \notin {"none", "add", "drop"}
    BY <1>4, <1>c, LoadCellIs, ControlPlaces DEF At
  <2>2. t # "accept"
    BY <1>c, <2>1, ControlPlaces
  <2>3. op \in {"remove", "close", "free", "shift"} => size >= 1
    BY <1>c, <2>1 DEF RemoverKnows, In
  <2>4. CASE Crash(t)
    BY <2>2, <2>4, SoundCrash, CrashIs
  <2>5. CASE ~Crash(t)
    <3>1. Quiet /\ Goes(t, op, IF In(t, "shift") THEN "store" ELSE "look")
      BY <1>4, <2>5, LoadCellIs
    <3> QED BY <2>1, <2>3, <3>1, SoundElsewhere DEF Quiet, In
  <2> QED BY <2>4, <2>5
<1>5. CASE LookDead(t)
  <2>1. t # "accept"
    BY <1>5, <1>c DEF LookDead, At, Control, OpsOf, PlacesOf, AddPlaces
  <2> QED BY <1>5, <2>1, SoundCrash, CrashIs DEF LookDead
<1>6. CASE LookOn(t)
  <2>1. /\ Quiet /\ thread[t].pc = "look" /\ op \in (Scans \ {"print"}) \cup {"printed"}
        /\ Goes(t, IF In(t, "printed") THEN "print" ELSE op, "test")
    BY <1>6, LookOnIs DEF At
  <2> QED BY <1>s, <2>1, SoundElsewhere DEF Quiet, In
<1>7. CASE LookFound(t)
  <2>1. /\ Quiet /\ thread[t].pc = "look"
        /\ \E to, pc : /\ Goes(t, to, pc) /\ pc # "size"
                       /\ \/ to \in {"listed", "disconnect", "send", "printed"}
                          \/ op = "remove" /\ to = "close"
    BY <1>7, LookFoundIs DEF At, In
  <2>2. op = "remove" => size >= 1
    BY <1>c, <2>1 DEF RemoverKnows, In
  <2> QED BY <2>1, <2>2, SoundElsewhere DEF Quiet
<1>8. CASE LookSocket(t)
  <2>1. /\ Quiet /\ thread[t].pc = "look" /\ op \in {"poll", "send", "hangup", "close"}
        /\ Goes(t, op, "call")
    BY <1>8, LookSocketIs DEF At
  <2>2. op = "close" => size >= 1
    BY <1>c DEF RemoverKnows
  <2> QED BY <2>1, <2>2, SoundElsewhere DEF Quiet
<1>9. CASE StoreCell(t)
  <2> DEFINE k == IF In(t, "add") THEN thread[t].n + 1 ELSE thread[t].i + 1
  <2>1. thread[t].pc = "store" /\ (op = "add" \/ op = "shift")
    BY <1>9, <1>c, StoreCellIs, ControlPlaces DEF At
  <2>2. CASE Crash(t) /\ ~InArray(thread[t].to, k)
    <3>1. t # "accept"
      <4>1. ASSUME op = "add"
            PROVE  InArray(thread[t].to, k)
        <5>1. /\ peers # 0 /\ heap[peers].live /\ thread[t].to = peers /\ In(t, "add")
              /\ thread[t].n >= 0 /\ thread[t].n + 1 <= Len(heap[peers].cells)
          BY <1>c, <2>1, <4>1 DEF AdderKnows, Room, In
        <5>2. peers \in 1..Len(heap)
          BY <1>c, <5>1, HeapTyped
        <5>3. DOMAIN heap = 1..Len(heap) /\ DOMAIN heap[peers].cells = 1..Len(heap[peers].cells)
          BY <5>2, HeapTyped
        <5>4. Len(heap[peers].cells) \in Nat
          BY <5>2, HeapTyped
        <5> QED BY <1>c, <5>1, <5>2, <5>3, <5>4 DEF InArray
      <4> QED BY <1>c, <2>1, <2>2, <4>1, ControlPlaces
    <3> QED BY <2>2, <3>1, SoundCrash, CrashIs
  <2>3. CASE ~(Crash(t) /\ ~InArray(thread[t].to, k))
    <3>1. /\ InArray(thread[t].to, k)
          /\ heap' = [heap EXCEPT ![thread[t].to].cells[k] = thread[t].conn]
          /\ \/ In(t, "add") /\ Goes(t, "add", "increment")
             \/ ~In(t, "add") /\ Goes(t, op, "test")
          /\ size' = size /\ peers' = peers /\ fault' = fault
      BY <1>9, <2>3, StoreCellIs
    <3>2. \A b \in 0..Len(heap) : b # 0 => /\ heap'[b].live = heap[b].live
                                           /\ Len(heap'[b].cells) = Len(heap[b].cells)
      BY <3>1, StoreRoom
    <3> HIDE DEF k
    <3>3. \A b \in 0..Len(heap) : \A j : Room(b, j)' <=> Room(b, j)
      BY <3>2 DEF Room
    <3>4. ASSUME NEW u \in Threads \ {t}
          PROVE  AdderKnows(u)' /\ RemoverKnows(u)'
      <4>1. thread'[u] = thread[u] /\ AdderKnows(u) /\ RemoverKnows(u)
        BY <3>1 DEF Goes, Sound
      <4>2. thread[u].base \in 0..Len(heap)
        BY Reading
      <4>3. Room(peers, size + 1) => Len(heap'[peers].cells) = Len(heap[peers].cells)
        BY <1>c, <3>2 DEF Room
      <4>4. RemoverKnows(u)'
        BY <3>1, <4>1 DEF RemoverKnows, In
      <4>5. /\ Room(thread[u].base, size + 1) => Room(thread[u].base, size + 1)'
            /\ Room(peers, size + 1) => Room(peers, size + 1)'
            /\ Room(peers, thread[u].n) => Room(peers, thread[u].n)'
        BY <1>c, <3>1, <3>2, <4>1, <4>2 DEF Room
      <4>6. AdderKnows(u)'
        BY <3>1, <4>1, <4>3, <4>5 DEF AdderKnows, In
      <4> QED BY <4>4, <4>6
    <3>5. RemoverKnows(t)'
      BY <1>c, <2>1, <3>1 DEF RemoverKnows, Goes, In
    <3>6. AdderKnows(t)'
      <4>1. op = "add" => Room(peers, size + 1)
        BY <1>c, <2>1 DEF AdderKnows, In
      <4>2. Room(peers, size + 1) => Room(peers, size + 1)'
        BY <1>c, <3>1, <3>2 DEF Room
      <4> QED BY <3>1, <2>1, <4>1, <4>2 DEF AdderKnows, Goes, In
    <3>7. Publishing' <=> Publishing
      BY <2>1, <3>1 DEF Publishing, Goes, In
    <3>8. Room(peers, size) => Room(peers, size)'
      BY <1>c, <3>1, <3>2 DEF Room
    <3> QED BY <3>1, <3>4, <3>5, <3>6, <3>7, <3>8 DEF Sound
  <2> QED BY <2>2, <2>3
<1>10. CASE StoreSize(t)
  <2>1. /\ thread[t].pc = "size" /\ size' = thread[t].n /\ Leaves(t)
        /\ peers' = peers /\ heap' = heap /\ fault' = fault
    BY <1>10, StoreSizeIs DEF At
  <2>2. op \in {"add", "shift"}
    BY <1>c, <2>1, ControlPlaces
  <2>3. AdderKnows(t)' /\ RemoverKnows(t)'
    BY <2>1 DEF Leaves, Goes, AdderKnows, RemoverKnows, In
  <2>4. Publishing' <=> Publishing
    BY <2>1 DEF Publishing, Leaves, Goes, In
  <2>5. CASE op = "add"
    <3>1. thread[t].n >= size + 1 /\ Room(peers, thread[t].n) /\ size >= 0
      BY <1>c, <2>1, <2>5 DEF AdderKnows, In, Sound
    <3>2. ASSUME NEW u \in Threads \ {t}
          PROVE  AdderKnows(u)' /\ RemoverKnows(u)'
      <4>1. thread'[u] = thread[u] /\ RemoverKnows(u) /\ Control(u) /\ thread[u].n \in Int
        BY <2>1, Reading DEF Leaves, Goes, Sound
      <4>2. ~In(u, "add")
        BY <1>c, <2>5, <4>1, ControlPlaces DEF Meets, Adders, In
      <4> QED BY <1>c, <2>1, <3>1, <4>1, <4>2 DEF AdderKnows, RemoverKnows, In
    <3>3. Room(peers, size)'
      BY <2>1, <3>1 DEF Room
    <3>4. size' >= 0
      BY <1>c, <2>1, <3>1
    <3> QED BY <2>1, <2>3, <3>2, <3>3, <3>4 DEF Sound
  <2>6. CASE op = "shift"
    <3>1. thread[t].n >= 0 /\ thread[t].n < size /\ size >= 1
      BY <1>c, <2>1, <2>6 DEF RemoverKnows, In
    <3>2. ASSUME NEW u \in Threads \ {t}
          PROVE  AdderKnows(u)' /\ RemoverKnows(u)'
      <4>1. /\ thread'[u] = thread[u] /\ AdderKnows(u) /\ Control(u) /\ thread[u].n \in Int
            /\ thread[u].base \in 0..Len(heap)
        BY <2>1, Reading DEF Leaves, Goes, Sound
      <4>2. t \in {"main", "monitor"} /\ Inside(t)
        BY <1>c, <2>6, ControlPlaces DEF Inside
      <4>3. thread[u].op \notin {"remove", "close", "free", "shift"}
        <5>1. thread[u].op \in {"remove", "close", "free", "shift"} => Inside(u) /\ u \in {"main", "monitor"}
          BY <4>1, ControlPlaces DEF Inside
        <5> QED BY <4>2, <5>1, <3>2, Alone
      <4>4. \A b \in 0..Len(heap) : Room(b, size + 1) => Room(b, size + 1)'
        <5>1. \A b \in 0..Len(heap) : Room(b, size + 1) => Room(b, size' + 1)
          BY <1>c, <2>1, <3>1, RoomLess
        <5> QED BY <2>1, <5>1 DEF Room
      <4>5. AdderKnows(u)'
        <5>1. \A k : Room(peers, k)' <=> Room(peers, k)
          BY <2>1 DEF Room
        <5> QED BY <1>c, <2>1, <3>1, <4>1, <4>4, <5>1 DEF AdderKnows, In
      <4> QED BY <4>1, <4>3, <4>5 DEF RemoverKnows, In
    <3>3. ~Publishing' => Room(peers, size)'
      <4> SUFFICES ASSUME ~Publishing
                   PROVE  Room(peers, size)'
        BY <2>4
      <4>1. Room(peers, size)
        BY <3>1 DEF Sound
      <4>2. Room(peers, size')
        BY <1>c, <2>1, <3>1, <4>1, RoomLess
      <4> QED BY <2>1, <4>2 DEF Room
    <3>4. size' >= 0
      BY <2>1, <3>1
    <3> QED BY <2>1, <2>3, <3>2, <3>3, <3>4 DEF Sound
  <2> QED BY <2>2, <2>5, <2>6
<1> QED BY <1>1, <1>2, <1>3, <1>4, <1>5, <1>6, <1>7, <1>8, <1>9, <1>10 DEF Access, Quiet

\* What Realloc leaves: one more allocation, of the size asked for.
LEMMA ReallocRoom ==
    ASSUME TypeOK, NEW t \in Threads, Realloc(t), thread[t].n >= 1,
           thread[t].base # 0 => heap[thread[t].base].live
    PROVE  /\ Goes(t, thread[t].op, "publish") /\ thread'[t].conn = thread[t].conn
           /\ thread'[t].base = Len(heap) + 1 /\ Len(heap') = Len(heap) + 1
           /\ heap'[Len(heap) + 1].live /\ Len(heap'[Len(heap) + 1].cells) = thread[t].n
           /\ \A k \in 1..thread[t].n :
                heap'[Len(heap) + 1].cells[k]
                    = IF thread[t].base # 0 /\ k <= Len(heap[thread[t].base].cells)
                      THEN heap[thread[t].base].cells[k] ELSE Null
           /\ size' = size /\ peers' = peers /\ object' = object /\ socket' = socket
           /\ fds' = fds /\ remote' = remote /\ backlog' = backlog /\ fault' = fault
<1> DEFINE me == thread[t]
           old == IF me.base = 0 THEN <<>> ELSE heap[me.base].cells
           freed == [b \in DOMAIN heap |->
                        IF b = me.base THEN [live |-> FALSE, cells |-> <<>>] ELSE heap[b]]
           cells == [k \in 1..me.n |-> IF k \in DOMAIN old THEN old[k] ELSE Null]
           new == [live |-> TRUE, cells |-> cells]
<1>1. me.n \in Int /\ me.base \in 0..Len(heap)
  BY Reading
<1>2. /\ Goes(t, me.op, "publish") /\ thread'[t].conn = me.conn
      /\ thread'[t].base = Len(heap) + 1 /\ heap' = Append(freed, new)
      /\ size' = size /\ peers' = peers /\ object' = object /\ socket' = socket
      /\ fds' = fds /\ remote' = remote /\ backlog' = backlog /\ fault' = fault
  <2>1. \/ me.n < 0 \/ (me.base # 0 /\ ~heap[me.base].live)
        \/ /\ Goes(t, me.op, "publish") /\ thread'[t].conn = me.conn
           /\ \/ me.n = 0 /\ me.base # 0 /\ heap' = freed /\ thread'[t].base = 0
              \/ heap' = Append(freed, new) /\ thread'[t].base = Len(heap) + 1
           /\ size' = size /\ peers' = peers /\ object' = object /\ socket' = socket
           /\ fds' = fds /\ remote' = remote /\ backlog' = backlog /\ fault' = fault
    BY ReallocIs
  <2> HIDE DEF freed, new
  <2> QED BY <1>1, <2>1
<1>3. DOMAIN old = 1..Len(old) /\ Len(old) \in Nat
      /\ Len(old) = IF me.base = 0 THEN 0 ELSE Len(heap[me.base].cells)
  BY <1>1, HeapTyped
<1>4. cells \in Seq(UNION {{cells[k]} : k \in 1..me.n}) /\ Len(cells) = me.n
  <2> HIDE DEF old
  <2>1. me.n \in Nat
    BY <1>1
  <2>2. \A k \in 1..me.n : cells[k] \in UNION {{cells[j]} : j \in 1..me.n}
    OBVIOUS
  <2> HIDE DEF cells
  <2>3. DOMAIN cells = 1..me.n /\ cells = [k \in 1..me.n |-> cells[k]]
    BY DEF cells
  <2> QED BY <2>1, <2>2, <2>3
<1>5. freed \in Seq({freed[b] : b \in 1..Len(heap)}) /\ Len(freed) = Len(heap)
  <2>1. DOMAIN heap = 1..Len(heap) /\ Len(heap) \in Nat
    BY HeapTyped
  <2>2. DOMAIN freed = 1..Len(heap) /\ freed = [b \in 1..Len(heap) |-> freed[b]]
    BY <2>1
  <2> HIDE DEF freed
  <2> QED BY <2>1, <2>2
<1>6. Len(heap) \in Nat
  BY HeapTyped
<1>7. Len(heap') = Len(heap) + 1 /\ heap'[Len(heap) + 1] = new
  <2> HIDE DEF freed, new
  <2> QED BY <1>2, <1>5, <1>6
<1>8. heap'[Len(heap) + 1].live /\ Len(heap'[Len(heap) + 1].cells) = me.n
  <2> HIDE DEF cells
  <2> QED BY <1>4, <1>7
<1>9. ASSUME NEW k \in 1..me.n
      PROVE  heap'[Len(heap) + 1].cells[k]
                 = IF me.base # 0 /\ k <= Len(heap[me.base].cells) THEN heap[me.base].cells[k] ELSE Null
  <2>1. heap'[Len(heap) + 1].cells[k] = IF k \in DOMAIN old THEN old[k] ELSE Null
    BY <1>7
  <2>2. k \in DOMAIN old <=> me.base # 0 /\ k <= Len(heap[me.base].cells)
    BY <1>1, <1>3
  <2> QED BY <2>1, <2>2
<1> QED BY <1>2, <1>7, <1>8, <1>9

LEMMA SoundAddPeer ==
    ASSUME TypeOK, \A u \in Threads : Control(u), Sound, "command" \notin met, Meets,
           NEW t \in Adders, AddPeer(t)
    PROVE  Sound' /\ fault' = fault
<1> DEFINE op == thread[t].op
<1>c. /\ t \in Threads /\ Control(t) /\ AdderKnows(t) /\ size \in Int /\ size >= 0
      /\ peers \in 0..Len(heap) /\ thread[t].n \in Int /\ thread[t].base \in 0..Len(heap)
  BY Reading DEF Sound, TypeOK, Adders, Threads
<1>a. ASSUME op = "add", NEW u \in Threads \ {t}
      PROVE  ~In(u, "add") /\ AdderKnows(u)
  <2>1. In(u, "add") => u \in Adders
    BY ControlPlaces DEF In
  <2> QED BY <1>a, <2>1 DEF Meets, Adders, In, Sound
<1>1. CASE AddRoom(t)
  <2>1. /\ Quiet /\ Goes(t, op, IF size = MaxPeers THEN "refuse" ELSE "count")
        /\ thread[t].pc = "room"
    BY <1>1, <1>c, AddRoomIs DEF At
  <2>2. op = "add"
    BY <1>c, <2>1, ControlPlaces
  <2> QED BY <1>c, <2>1, <2>2, SoundElsewhere DEF Quiet
<1>2. CASE AddRefuse(t)
  BY <1>2, <1>c, AddRefuseIs, SoundLeaves DEF At
<1>3. CASE AddCount(t)
  <2>1. /\ Quiet /\ Goes(t, op, "old") /\ thread'[t].n = size + 1 /\ thread[t].pc = "count"
    BY <1>3, <1>c, AddCountIs DEF At
  <2>2. AdderKnows(t)' /\ RemoverKnows(t)'
    BY <1>c, <2>1, ControlPlaces DEF Goes, AdderKnows, RemoverKnows, In, Quiet
  <2> QED BY <1>c, <2>1, <2>2, SoundGoes DEF Goes, Quiet, In
<1>4. CASE Realloc(t)
  <2>1. thread[t].pc = "realloc"
    BY <1>4, <1>c, ReallocIs DEF At
  <2>2. op = "add"
    BY <1>c, <2>1, ControlPlaces
  <2>3. thread[t].n >= size + 1 /\ thread[t].base = peers
    BY <1>c, <2>1, <2>2 DEF AdderKnows, In
  <2>4. ~Publishing
    BY <1>a, <2>1, <2>2 DEF Publishing
  <2>5. peers # 0 => heap[peers].live
    BY <2>4 DEF Sound, Room
  <2>6. /\ Goes(t, op, "publish") /\ thread'[t].base = Len(heap) + 1
        /\ heap'[Len(heap) + 1].live /\ Len(heap'[Len(heap) + 1].cells) = thread[t].n
        /\ size' = size /\ peers' = peers /\ fault' = fault
    BY <1>c, <1>4, <2>3, <2>5, ReallocRoom
  <2>7. Len(heap) \in Nat
    BY HeapTyped
  <2>8. AdderKnows(t)' /\ RemoverKnows(t)'
    BY <1>c, <2>2, <2>3, <2>6, <2>7 DEF Goes, AdderKnows, RemoverKnows, Room, In
  <2>9. ASSUME NEW u \in Threads \ {t}
        PROVE  AdderKnows(u)' /\ RemoverKnows(u)'
    <3>1. thread'[u] = thread[u] /\ RemoverKnows(u) /\ ~In(u, "add")
      BY <1>a, <2>2, <2>6 DEF Goes, Sound
    <3> QED BY <2>6, <3>1 DEF AdderKnows, RemoverKnows, In
  <2>10. Publishing'
    BY <1>c, <2>2, <2>6 DEF Publishing, Goes, In
  <2> QED BY <1>c, <2>6, <2>8, <2>9, <2>10 DEF Sound
<1>5. CASE AddPublish(t)
  <2>1. /\ Goes(t, op, "null") /\ peers' = thread[t].base /\ thread[t].pc = "publish"
        /\ size' = size /\ heap' = heap /\ fault' = fault
    BY <1>5, <1>c, AddPublishIs DEF At
  <2>2. op = "add"
    BY <1>c, <2>1, ControlPlaces
  <2>3. Room(thread[t].base, size + 1)
    BY <1>c, <2>1, <2>2 DEF AdderKnows, In
  <2>4. Room(peers, size + 1)' /\ Room(peers, size)'
    <3>1. Room(thread[t].base, size)
      BY <1>c, <2>3, RoomLess
    <3> QED BY <2>1, <2>3, <3>1 DEF Room
  <2>5. AdderKnows(t)' /\ RemoverKnows(t)'
    BY <2>1, <2>2, <2>4 DEF Goes, AdderKnows, RemoverKnows, In
  <2>6. ASSUME NEW u \in Threads \ {t}
        PROVE  AdderKnows(u)' /\ RemoverKnows(u)'
    <3>1. thread'[u] = thread[u] /\ RemoverKnows(u) /\ ~In(u, "add")
      BY <1>a, <2>1, <2>2 DEF Goes, Sound
    <3> QED BY <2>1, <3>1 DEF AdderKnows, RemoverKnows, In
  <2> QED BY <1>c, <2>1, <2>4, <2>5, <2>6 DEF Sound
<1>6. CASE AddNull(t)
  <2>1. /\ Quiet /\ Goes(t, op, IF peers = 0 THEN "refuse" ELSE "slot") /\ thread[t].pc = "null"
    BY <1>6, <1>c, AddNullIs DEF At
  <2>2. AdderKnows(t)' /\ RemoverKnows(t)'
    BY <1>c, <2>1, ControlPlaces DEF Goes, AdderKnows, RemoverKnows, In, Quiet, Room
  <2> QED BY <1>c, <2>1, <2>2, SoundGoes DEF Goes, Quiet, In
<1>7. CASE AddIndex(t)
  <2>1. /\ Quiet /\ Goes(t, op, "store") /\ thread'[t].n = size /\ thread[t].pc = "index"
        /\ thread'[t].to = thread[t].to
    BY <1>7, <1>c, AddIndexIs DEF At
  <2>2. op = "add"
    BY <1>c, <2>1, ControlPlaces
  <2>3. Room(peers, size + 1) /\ thread[t].to = peers
    BY <1>c, <2>1, <2>2 DEF AdderKnows, In
  <2>4. AdderKnows(t)' /\ RemoverKnows(t)'
    BY <1>c, <2>1, <2>2, <2>3 DEF Goes, AdderKnows, RemoverKnows, In, Quiet, Room
  <2> QED BY <1>c, <2>1, <2>4, SoundGoes DEF Goes, Quiet, In
<1>8. CASE AddIncrement(t)
  <2>1. /\ Quiet /\ Goes(t, op, "size") /\ thread'[t].n = size + 1 /\ thread[t].pc = "increment"
    BY <1>8, <1>c, AddIncrementIs DEF At
  <2>2. op = "add"
    BY <1>c, <2>1, ControlPlaces
  <2>3. Room(peers, size + 1)
    BY <1>c, <2>1, <2>2 DEF AdderKnows, In
  <2>4. AdderKnows(t)' /\ RemoverKnows(t)'
    BY <1>c, <2>1, <2>2, <2>3 DEF Goes, AdderKnows, RemoverKnows, In, Quiet, Room
  <2> QED BY <1>c, <2>1, <2>4, SoundGoes DEF Goes, Quiet, In
<1> QED BY <1>1, <1>2, <1>3, <1>4, <1>5, <1>6, <1>7, <1>8, <1>c, AddRefuseIs DEF AddPeer, Quiet

LEMMA SoundRemovePeer ==
    ASSUME TypeOK, \A u \in Threads : Control(u), Sound, NEW t \in Threads, RemovePeer(t)
    PROVE  Sound' /\ fault' = fault
<1>c. Control(t) /\ RemoverKnows(t) /\ size \in Int
  BY DEF Sound, TypeOK
<1>1. CASE RemoveClose(t)
  <2>1. size >= 1
    BY <1>1, <1>c, RemoveCloseIs DEF RemoverKnows, In
  <2> QED BY <1>1, <2>1, RemoveCloseIs, SoundElsewhere DEF In, At
<1>2. CASE RemoveFree(t)
  <2>1. size >= 1
    BY <1>2, <1>c, RemoveFreeIs DEF RemoverKnows, In
  <2> QED BY <1>2, <2>1, RemoveFreeIs, SoundElsewhere DEF In, At
<1>3. CASE RemoveDecrement(t)
  <2>1. /\ Quiet /\ Goes(t, thread[t].op, "size") /\ thread'[t].n = size - 1
        /\ thread[t].pc = "decrement"
    BY <1>3, RemoveDecrementIs DEF At
  <2>2. thread[t].op = "shift"
    BY <1>c, <2>1, ControlPlaces
  <2>3. AdderKnows(t)' /\ RemoverKnows(t)'
    BY <1>c, <2>1, <2>2 DEF Goes, AdderKnows, RemoverKnows, In, Quiet
  <2> QED BY <2>1, <2>2, <2>3, SoundGoes DEF Goes, Quiet, In
<1> QED BY <1>1, <1>2, <1>3 DEF RemovePeer

LEMMA SoundMain ==
    ASSUME TypeOK, \A u \in Threads : Control(u), Sound, Typed \/ Command
    PROVE  Sound' /\ fault' = fault
<1>t. "main" \in Threads /\ Control("main")
  BY DEF Threads
<1>p. thread["main"].pc \in {"rest", "look", "socket", "connecting", "empty", "call"}
        => ~(In("main", "add") /\ thread["main"].pc = "publish")
  OBVIOUS
<1>1. CASE Typed
  BY <1>1, <1>t, <1>p, TypedIs, SoundElsewhere DEF Quiet, At
<1>2. CASE ConnectListed
  BY <1>2, <1>t, <1>p, ConnectListedIs, SoundLeaves DEF Quiet, At
<1>3. CASE ConnectSocket
  BY <1>3, <1>t, <1>p, ConnectSocketIs, SoundElsewhere, SoundLeaves DEF At
<1>4. CASE ConnectDone
  BY <1>4, <1>t, <1>p, ConnectDoneIs, SoundElsewhere DEF At
<1>5. CASE ConnectRefused
  BY <1>5, <1>t, <1>p, ConnectRefusedIs, SoundLeaves DEF At
<1>6. CASE DisconnectEmpty
  BY <1>6, <1>t, <1>p, DisconnectEmptyIs, SoundElsewhere, SoundLeaves DEF Quiet, At
<1>7. CASE DisconnectSend
  BY <1>7, <1>t, <1>p, DisconnectSendIs, SoundElsewhere DEF At
<1>8. CASE DisconnectClose
  BY <1>8, <1>t, <1>p, DisconnectCloseIs, SoundElsewhere DEF At
<1>9. CASE DisconnectRemove
  BY <1>9, <1>t, <1>p, DisconnectRemoveIs, SoundElsewhere DEF Quiet, At
<1> QED BY <1>1, <1>2, <1>3, <1>4, <1>5, <1>6, <1>7, <1>8, <1>9 DEF Command

LEMMA SoundNext ==
    ASSUME TypeOK, \A u \in Threads : Control(u), Meets, "command" \notin met, Sound,
           fault # "accept", [Next]_vars
    PROVE  Sound' /\ fault' # "accept"
<1>0. {"main", "accept", "monitor"} \subseteq Threads /\ {"main", "accept"} \subseteq Adders
  BY DEF Threads, Adders
<1>1. CASE UNCHANGED vars
  BY <1>1 DEF vars, table, Sound, AdderKnows, RemoverKnows, Room, Publishing, In
<1>2. CASE Typed
  BY <1>2, SoundMain
<1>3. CASE MainStep
  BY <1>0, <1>3, SoundAccess, SoundAddPeer, SoundRemovePeer, SoundMain DEF MainStep
<1>4. CASE AcceptStep
  <2>1. CASE \E c \in Conns : AcceptConnect(c)
    BY <1>0, <2>1, AcceptConnectIs, SoundElsewhere DEF At
  <2> QED BY <1>0, <1>4, <2>1, SoundAccess, SoundAddPeer DEF AcceptStep
<1>5. CASE MonitorStep
  <2>1. CASE Monitor
    <3>1. ~In("monitor", "add")
      BY <1>0, ControlPlaces DEF In
    <3> QED BY <1>0, <2>1, <3>1, MonitorIs, SoundElsewhere, SoundLeaves
  <2> QED BY <1>0, <1>5, <2>1, SoundAccess, SoundRemovePeer DEF MonitorStep
<1>6. CASE Network
  BY <1>6, NetworkIs DEF Sound, AdderKnows, RemoverKnows, Room, Publishing, In
<1> QED BY <1>1, <1>2, <1>3, <1>4, <1>5, <1>6 DEF Next

\* The monitor may remove peers while accept_connect adds one: the size that
\* add_peer loads only shrinks meanwhile, nobody else moves the array, and the
\* accept thread accesses only what is there.  This ends when a command and
\* another thread are inside the functions together.
THEOREM AcceptAlwaysSafe == Spec => []AcceptIsSafe
<1> DEFINE Inv == /\ TypeOK /\ Meets /\ \A u \in Threads : Control(u)
                  /\ "command" \notin met => Sound /\ fault # "accept"
<1>1. Init => Inv
  <2> SUFFICES ASSUME Init PROVE Inv
    OBVIOUS
  <2>1. Sound /\ fault # "accept"
    BY DEF Init, Sound, AdderKnows, RemoverKnows, Publishing, Room, In, Rest, Polling
  <2> QED BY <2>1, InitTyped, InitMeets, InitControl
<1>2. Inv /\ [Next]_vars => Inv'
  <2> SUFFICES ASSUME Inv, [Next]_vars PROVE Inv'
    OBVIOUS
  <2>1. TypeOK' /\ Meets' /\ met \subseteq met' /\ \A u \in Threads : Control(u)'
    BY NextTyped, NextMeets, NextControl
  <2>2. "command" \notin met' => Sound' /\ fault' # "accept"
    BY <2>1, SoundNext
  <2> QED BY <2>1, <2>2
<1>3. Inv => AcceptIsSafe
  BY DEF AcceptIsSafe
<1> QED BY <1>1, <1>2, <1>3, PTL DEF Spec
=============================================================================
