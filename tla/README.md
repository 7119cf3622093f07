# ByteTide: specifications, model checks and proofs

ByteTide is two C programs. `btide` keeps a table of TCP peers and a registry of
packages and obeys a user's commands; `pkgmain` answers questions about one
package (`.bpkg`) and its data file by building a Merkle tree over the file's
chunks. This directory holds TLA+ modules that model them, the TLC
configurations that check the models, and TLAPS proofs about them.
Paths below are relative to `src/`, the repository.

## 1. Inventory

| component | state it keeps | operations | hard part |
|---|---|---|---|
| peer table (`src/peer.c`) | `all_peers`: array, `size`, `max_peers`; one `peer_obj` and one descriptor per peer | `add_peer`, `remove_peer`, `find_peer`, `connect_peer`, `accept_connect`, `disconnect_peer`, `check_peer_disconnect`, `destroy_peers` | three threads and no lock (`peers_mutex` is never taken); `connect`, `accept` and `recv` block between a read and its use; descriptor numbers are reused |
| btide threads (`src/btide.c`) | the command line buffer, the loop variables | `main`, `accept_connections`, `check_disconnection`, `command_handler`, `make_server` | fairness of a monitor that blocks; accept with no descriptor left; the end of the input repeats the last command; missing arguments |
| package registry (`src/package.c`) | `all_packages`; each entry's `status`, `identifier`, `loaded_bpkg` | `add_package`, `remove_package`, `print_packages`, `destroy_all_packages` | `status` is computed once, `loaded_bpkg` dangles, every `read_data` leaks a descriptor |
| Merkle tree (`src/tree/merkletree.c`) | nodes with `computed_hash`, `value` (a mark), links | `build_merkle_tree`, `verify_level`, `read_data` and the traversals | odd levels, off-by-one level sizes, order of marking and visiting, short reads |
| package queries (`src/chk/pkgchk.c`, `src/pkgmain.c`) | `bpkg_obj`, `bpkg_query`; the data file survives between processes | the five queries, `-test_tree`, `-test_data` | repeated chunks, partly complete files, uninitialized locals |
| bpkg parser (`bpkg_load`) | `bpkg_obj` | one | files that are cut short, counts that are wrong |
| configuration (`src/config.c`) | `config_obj` | `load_config`, `check_config_obj` | 16-bit port, a `stat` buffer that was not filled |
| SHA-256 (`src/crypt/sha256.c`) | `sha256_compute_data` | `init`, `update`, `finalize`, `output_hex` | the block boundary |

How they interact: `main` of `btide` calls the peer table from the command loop;
the accept thread and the monitor call it concurrently through the same global.
ADDPACKAGE calls `bpkg_load` and `bpkg_get_completed_chunks`, which build a tree
with `read_data` and SHA-256; the descriptors it leaks are those that `accept`
needs. `pkgmain` runs one query per process over the same files.

What makes each correct:

* peer table: bounded by `max_peers`; no access to memory that is gone; each
  entry's descriptor open and its own, and no descriptor leaked; an address listed
  once; only dead peers removed by the monitor. Without a lock much of this holds
  only as long as the threads keep apart, and the properties say how far;
* Merkle tree: each node stands for the chunks that its place says; the count and
  the warning are right; a tree that is finished is perfect;
* queries: exactly the chunks that the file has, every complete subtree and none
  twice, the chunks under a given hash; no crash on a well-formed package;
* registry: a list, oldest first; COMPLETED means complete at the moment of adding;
* parser: a well-formed file is loaded as it was written, a spoiled one never gives
  an object that the queries misread;
* configuration: what is served is what the file says, and within the limits;
* the program: sound commands, in any order and at the end of the input too, do not
  end it;
* SHA-256: the result does not depend on how the input is cut into updates.

The hazards, each at its line with the properties that cover it, are in
`PROJECT.json`.

## 2. Modules

| module | what it is |
|---|---|
| `PeerList` | abstract specification: a bounded list of connections, each of which joins at most once, leaves at most once, while the others keep their order |
| `PeerTable` | the peer table, the command loop, the accept thread, the monitor and the kernel, one memory access or one call at a time |
| `MCPeerTable` | instances of `PeerTable` for TLC |
| `PeerTableProofs` | TLAPS proofs about `PeerTable` |
| `MerkleTree` | `build_merkle_tree`, one step per level, and the traversal under a node |
| `PkgChk` | `pkgmain`'s processes over one package and its data file; extends `MerkleTree` |
| `MCPkgChk` | packages and data files for TLC |
| `PkgChkProofs` | TLAPS proofs about `MerkleTree` and `PkgChk` |
| `Config` | the start of `btide`: `load_config`, `check_config_obj`, `make_server`, and the directory that outlives a start |
| `BpkgLoad` | `bpkg_load` and `bpkg_obj_destroy` as operators on the lines of a package file |
| `BpkgLoadProofs` | TLAPS proof that `bpkg_load` reads what was written |
| `Registry` | abstract specification: packages listed in the order of adding, the oldest of an identifier taken first |
| `Packages` | `add_package` in five steps, and `remove_package`; extends `BpkgLoad`, implements `Registry` |
| `Shell` | `btide` as a whole, from its start to its end: extends `Config` and `Packages` by the command loop and the accept thread |
| `MCShell` | configurations, package files, data files and typed lines for TLC |
| `ConfigProofs` | lemmas about a start, for `ShellProofs` |
| `ShellProofs` | TLAPS proofs about `Shell` and its parts, including that `Packages` implements `Registry` |
| `Sha256Stream` | `sha256_update` and `sha256_finalize` over blocks of any size |
| `MCSha256Stream` | messages for TLC |
| `Sha256StreamProofs` | TLAPS proofs about `Sha256Stream` |
| `SequenceLemmas` | lemmas that several proofs need: least elements, induction and recursion over numbers, parts of sequences, `FlattenSeq` |

### PeerTable

`peers_mutex` is declared and never taken, so nothing keeps the three threads
apart. A step is one load or store of what they share (`size`, the address of the
array, a cell of it, a field of a `peer_obj`) or one call (`close`, `free`,
`realloc`, `accept`, `connect`, `recv`, `send`), in the order of the build, which does not
optimise (`Makefile:2`). `size++` is a load (`AddIncrement`) and a store
(`StoreSize`); `peers[i]->socket` is three steps (`LoadArray`, `LoadCell`, `LookSocket`);
`realloc` is five (`AddCount` loads the size, `LoadArray` the old address, `Realloc`,
`AddPublish` stores the new address, `AddNull` loads it for the test).

A thread's place is `op`, the function or statement it is in, and `pc`, the access
that comes next. The loops over the table in `find_peer`, `remove_peer` (both),
`print_peers`, `check_peer_disconnect` and `check_disconnection` are the same accesses, so
they share their actions (`TestOn`, `TestOver`, `LoadArray`, `LoadCell`, `LookOn`,
`LookFound`), and `op` says which loop it is. The monitor's second scan after `recv` is `op` "gone", and
`remove_peer` is "remove", "close", "free" and "shift", by whichever thread. The
monitor passes the *index* of the entry to `remove_peer` (`MonitorRemove`), which looks for
a *socket* of that number, as the code does.

`heap` has every allocation of the array in order; the sanitizer's `realloc` always
moves and freed memory is not handed out again, so an address loaded before is one of
freed memory. `object` says which `peer_obj` are live. An access to what is not there ends
the process (`fault` names the thread): the build has the address sanitizer. `fds` is the
process's descriptor table; the lowest free number is handed out, as POSIX says,
because the program's faults depend on which numbers come back. `remote` is what the
kernel knows of the far end of a connection, `unread` says that bytes wait that nobody will
consume (the monitor peeks, and nothing else reads), `backlog` is the listen queue. `recv`
keeps the connection that it found even if the number is closed and given to another
one meanwhile.

`met` is history, no part of the code: it records whether two threads were ever inside
the table's functions together ("operations"), whether the command loop was one of them
("command"), and whether CONNECT and accept were both inside `add_peer` ("adds"). A
thread is inside from the return of the call that blocked it until its function
returns; the loop of `check_disconnection`, which reads the table from outside, is not.
The code does go wrong when threads meet there, and the properties say what is kept,
and until when:

* `Capacity`: two adders can both pass the test at `peer.c:18`, and from then on
  `size == max_peers` may never hold. Nothing else takes the table past `max_peers`:
  no meeting of an adder with removals, in spite of the updates of `size` that are
  lost (`peer.c:37` against `:57`), no table that fills during `connect()`.
* `AcceptIsSafe`: accept and the monitor meet all the time. As long as
  no command meets them inside, the accept thread never touches memory that is gone, although the monitor
  closes, frees and shifts below it.
* `OnlyTheLoopFaults`, `EntriesPublished`, `Ledger`, `TargetsListedOnce`,
  `ImplementsPeerList`: until two threads meet inside the functions. What still runs
  beside a function then is the loop of the monitor with its registers, `connect()`,
  `recv` on a number that is closed and reused, and the far ends.

### MerkleTree and PkgChk

A hash is what was hashed: a leaf's is the one-element sequence of its chunk's
content, and an internal node's is the concatenation of its children's. Two hashes
are equal exactly when they stand for the same contents, so SHA-256 is taken to be
free of collisions. Repeated contents do make equal hashes, in the model and in
the code. The one identification that this adds is between trees of different
shape over the same contents; within one tree, and between a tree and its package,
equal contents are at equal heights.

`rows` are the levels of the tree. `BuildLevel` is one round of the `while`;
`BuildOdd` is the round on a level with a last node that has no sibling, whose
`parent->right->computed_hash` (`merkletree.c:174`) reads through a null pointer.
`CompleteSubtrees` follows `get_root_complete_subtree` in its order: left child,
the node, right child unless the node was taken. The marks that the code sets on
the children of such a node have no counterpart: its left child was visited before,
and its right child will not be. `Pow2` is `pow(2, n)` by its recursion, so that
TLC and the proofs use the same definition.

`PkgChk` runs processes one after another: a query is chosen, leaves are made and
filled by `ReadData`, the tree is built, the query answers or crashes. The data
file changes only between processes, in any way. Uninitialized values are
nondeterministic: the buffer after a short read, and `root_hash` in `-hashes_of`
(null or garbage). What a package holds is a constant; `FromMake` says what the
packages that `pkgmake` writes have in common. Where a property needs it, the theorem
has it as a hypothesis, and the run checks it of its twelve packages
(`MadeByPkgmake`).

### Config

A line of the configuration is a key and a value; the value is a number, or
`Unreadable` where `sscanf` finds none, and then the field keeps what it had. `%hu`
keeps 16 bits of the port, so that the test for more than 65535 (`PortOK`) never fails. `disk` is what the configured path is: it survives the
process, so that a start which makes the directory is followed by starts that find
it. After `mkdir` the code tests a `stat` buffer that was never filled:
`DirectoryMade` goes either way. Exit codes are the program's.

### BpkgLoad and Packages

A package file is a sequence of lines, each with its kind, a number and its first
word. `Load` follows `bpkg_load` from header to header with the rest of the lines
in hand: what a failing `fscanf` leaves, the blank lines that white space in a
format takes, the titles that are skipped whatever they are, the places where the
function returns from the middle. Memory that was not set or that was given back
is a value (`Unset`, `Freed`), and its use ends the process: the build has the
address sanitizer (`Makefile:2`), which fills memory from `malloc` with bytes that
are no pointer. Hashes stand for contents, as in `MerkleTree`.

`Packages` splits `add_package` where something else can happen: `access` finds the
file, `fopen` opens it, `bpkg_load` reads it, `read_data` reads the data file, the
entry is stored. What a file holds is chosen when it is opened: nobody holds it
still between two steps or two commands. The tree is one step here. That rests on
`MerkleTree` and `PkgChk`, which have its steps: `RowsCover` says that the root is
the hash of all leaves in order, `PerfectTreesAnswer` for which packages there is a
root. The descriptor of `read_data` is counted in `leaked` and never comes back.
An entry is its identifier and its status: `loaded_bpkg` points to freed memory from
the start, and nothing reads it. `R` maps the array to `Registry`'s list.

### Shell

`line` is the buffer of the command loop, which outlives the command: `strtok`
writes into it, and at the end of the input the loop goes on with what is left.
Before the first line it is taken to hold no command. Peers are only a number here,
`conns`, with what CONNECT, DISCONNECT, accept and the monitor may do to it;
`PeerTable` has them in full, with what the threads do to each other, of which nothing is said here. The
monitor removes a peer only when an index reaches a descriptor number (`MonitorRemove`). What the
parts share are descriptors: `Free` counts peers, leaked data files and the package file that is
open. A process may end by a command, at its start, or in the middle of a command
(`Crash`), after which another one is started on the same disk.

### Sha256Stream

The state of the compression function is left out: in its place `hcomps` holds the
bytes that it was applied to. `Update` is the head of `sha256_update`, with the
block that the buffer completes, `UpdateBlock` a round of its loop, `UpdateRest` its
end; the caller cuts the message as it likes. `Again` hashes another message in a
buffer that still holds bytes of the one before.

## 3. Runs

Passing runs:

| run | module, configuration | question and bounds |
|---|---|---|
| `peers` | `MCPeerTable`, `PeerTable.cfg` | the two adders and the two removers. Three connections, two of them attempts to CONNECT to one target and one inbound, `max_peers` 2, three descriptors; the user connects and disconnects, far ends close. |
| `peers_far` | `MCPeerTable`, `PeerFar.cfg` | the accept thread beside a monitor that removes. Two inbound connections, `max_peers` 2, three descriptors; far ends send, close and reset, the user disconnects, looks and quits. |
| `pkgchk` | `MCPkgChk`, `PkgChk.cfg` | tree and queries. Twelve packages of 0 to 8 chunks (distinct, repeated, repeated subtrees, odd counts, one that was not loaded); for up to four chunks every file of right, misplaced and wrong chunks up to that length and one that is longer, for six and eight every subset of right chunks. |
| `btide` | `MCShell`, `Shell.cfg` | `btide` from start to end, many times over. Fifteen configurations (the limits and one beyond each, also above 16 bits; lines missing, repeated, unreadable, unknown); some sixty package files (five sound or nearly so, and one spoiled in every place: cut, line missing, blank or twice, counts too small or too large, fields missing); eight data files; fifteen lines that may be typed. At most two packages are listed. `Fds` is 9: five descriptors for peers and data files, so that they run out both ways, and the fewest with which the monitor can remove a peer. |
| `sha256` | `MCSha256Stream`, `Sha256.cfg` | blocks of 6 bytes with a length of 2. Every length from 0 to 20 bytes, that is past three blocks, one message of five blocks and a half whose length in bits needs both bytes, one that looks like padding; every way to cut them into calls; every message after every other. |

Runs that find a violation; each states what the repository says of itself, and
`PROJECT.json` ("findings") quotes the line:

| run | what happens |
|---|---|
| `peers_evict` | five inbound peers: the fifth ends, index 4 is passed for a socket, and the first peer, alive on descriptor 4, is closed |
| `peers_probe` | a silent peer keeps the monitor in `recv`, the peers behind it are never probed again |
| `peers_told` | the table fills during `connect()`: the socket is closed and "Connection established" printed |
| `pkg_min` | one wrong chunk in eight: a subtree's root is returned with subtrees that lie inside it |
| `pkg_full` | chunks a and b, file a and a: two matches, which is the number of chunks |
| `race_close` | the second `close` of DISCONNECT hits a peer that was accepted after the first |
| `port` | the port 73616 is served as 8080, past the test that refuses ports above 65535 |

Bounds of the peer runs. With descriptors from 4 on, as in the program, an index
reaches one only at the fifth peer, and then the monitor's removals begin. `peers` and
`peers_far` let descriptors start at 1, so that this happens at the second peer already:
entry 1 ends, and the peer on descriptor 1 is removed. `peers_evict` has the numbers
as they are, five peers on descriptors 4 to 8, from the state in which they were just accepted
(`FiveListed`; with no other thread in between, accept gets there). `max_peers` 2 with a
third connection is the least with a refusal, and with two adders that pass the test at
once. Three connections also give a descriptor that is closed and reused during `recv`, a pending `connect()` while the
table fills, and an array that moves twice. In `peers`, states behind a meeting in
`add_peer` are not explored (`AddsApart`): every property of that run is conditional on
there having been none.

`StateView`, the view of both runs, forgets `remote` and `unread` of connections that no
queue, descriptor or `recv` refers to any more, except that a connection that is not `new`
cannot be made again, and the `socket` of a `peer_obj` that was freed. No action
and no property reads these. Symmetry exchanges the two attempts in `peers`, the two
inbound connections in `peers_far`: nothing distinguishes them, and all properties are
safety properties.

What the `btide` run shows, in short. `ServesItsConfig`: what is served is within
the limits, and it is the last value that counts, however many lines without one
follow; of ports beyond 16 bits `port` shows that they are served as something else.
`RefusedOnce`: the test of an unfilled `stat` buffer can refuse a start, but only
the start that made the directory. `LoadedAsWritten` and `ChunksImplyHashes`: sound
files are loaded exactly, and no spoiled file gives chunks without hashes.
`SoundSessionsSurvive`: three commands alone can end `btide` before its time, and
the property names them with their conditions. `CompletedMeansComplete`: COMPLETED is
right for well-formed files without repeated chunks, up to the places of the
chunks (`pkg_full` shows why no more). `EofChangesNothing`: the endless repetition of the last command
at the end of the input changes nothing, because `strtok` has cut its argument off.
`QueueServed`: as long as two descriptors are left, a connection in the queue is taken;
peers and leaked data files are what they run out of, and then it waits.

Deadlock checking is off in the peer runs, because the program may be over
(`QUIT`, `SIGPIPE`, a fault) or wait for far ends that do nothing. In `PkgChk` a
new process can always start, in `Shell` too, and in `Sha256Stream` another message
can follow: there deadlock is checked.

### Fairness

`FairSpec`, for `peers_probe`, assumes weak fairness of the steps of each of the three
threads: the kernel's scheduler runs a thread that can run. `recv` of the monitor has no
step while the peer is silent, so fairness demands nothing of it; the return of
`connect()` is a step of the command loop, for it ends by success, refusal or timeout.
Nothing is assumed of users or far ends. `Shell` assumes weak fairness of `Accept`
alone, for the same reason; `QueueServed` needs no more.

## 4. Proofs

`PeerTableProofs`, for every set of connections, every `max_peers` > 0 and every
descriptor range (`ConstantsOK`), of the whole specification, with three threads that
interleave at every access:

* `TypeCorrect`: the type invariant. It is inductive by itself.
* `NeverOverCapacity`: `Capacity`. The difficulty is that `size` is written from
  registers that were loaded long before. The invariant, `WithinBounds`, says of each
  thread what it knows (`Bounded`): beyond the test for room, `size` is below
  `max_peers` until the adder itself stores it, for another adder is not inside; what an
  adder is about to store is at most `max_peers`, what a remover is about to store is less.
  It needs `Control` (which `pc` goes with which `op`) and `Meets` (`met` has "adds" once
  both are inside).
* `AcceptAlwaysSafe`: `AcceptIsSafe`. The invariant, `Sound`, says that the array that
  `peers` refers to is live and has `size` cells, except between `realloc` and the store of
  the new address; and what the accept thread's registers owe to it: the addresses it
  loaded are the present ones, for nobody else moves the array, and the array has a cell
  more than `size`, whatever the monitor removes meanwhile, for a removal only lowers
  `size` (`RemoverKnows`: it found an entry, so that there is one to take away).

The proofs first state for each action what it does to every variable (`TestOnIs`,
`StoreCellIs`, `ReallocIs`, ... `NetworkIs`), and the invariants then go by these.

`PkgChkProofs`, for any packages and files (`PackagesOK`):

* Of the tree: `NodesAreCounted`, `NodesCoverTheirRuns`, `WarningsAreRight`,
  `BuiltTreesArePerfect`. The invariant, `TreeInv`, says of the levels that each has
  a node for every two below (`Joined`), that the size of level h times 2^(h-1) is
  the number of leaves (`Sized`), and that node k of it stands for the k-th run of
  2^(h-1) leaves (`Covers`). A new level keeps this because two runs side by side are
  one of twice the length (`RunsJoin`) and the concatenation of both concatenations
  is that of the whole (`FlattenConcat`). `level` is tied to the number of levels
  by the height that `log2` gives; that height is unique (`HeightUnique`), hence a
  number of leaves that is a power of two makes every level the expected size, and
  any other fails at the first (`SizeOfPerfect`). At the end one node is left,
  so that the number of leaves is a power of two itself.
* `TypeCorrect`: the tree, its process and the answers, for which the traversals
  have to be computed. `Leaves` is the run of a node (`LeavesAre`): its recursive
  function is the one that gives each node its run, by induction on the level.
* `MinHashesAreRight`: for every package, whoever wrote it. What the visit of a node
  must have found (`Found`) holds by induction on the level: each node below it that
  the package has, unless a proper ancestor up to there was taken instead.
* `ChunkChecksAreRight`, `HashesOfAreRight`, `PerfectTreesAreAnswered`: under the
  hypothesis that the packages are `pkgmake`'s. The root equals the first hash just
  when the leaves are the chunks, because sequences of one-chunk hashes that
  concatenate to the same are the same (`FlattenInjective`). A hash of the package is
  in the tree of the package's own hashes (`KnownIsFound`). A level of an odd number
  of nodes, more than one, is in no perfect tree (`OddIsNoLevel`).

`BpkgLoadProofs`, for any texts (`TextsOK`):

* `LoadsWritten`: the object that `bpkg_load` makes of a file written from a package
  with any number of hashes and chunks is that package's. Each section is read
  line by line from a known offset of the file; the induction is over the lines
  of the section that are still to come.
* The lemma `LoadOfAny` says what holds of the load of any file at all, spoiled
  or not: an object with chunks has hashes.

`ShellProofs`, for any configurations, package files, data files, typed lines and
limits (`ConfigFilesOK`, `FilesOK`, `MadeOK`, `MaxPackagesOK`, `FdsOK`, `TypedOK`),
with the lemmas of `ConfigProofs`:

* `TypeCorrect`, `ConfigServed`, `RefusedAtMostOnce`, `PackagesLoad`,
  `ChunksHaveHashes`, `SessionsSurvive`: the invariants of the `btide` run, from one
  inductive invariant, `ShellInv`. Its parts and why they are there: `ConfigInv` holds
  the values that were read against the lines read so far, for the served values
  are those of the last line of each key; `Idle`, since a start finds nothing of
  the process before it; `AddingLine`, since `add_package` stores without testing
  for room again and the test was the command's; `AddingHolds`, for what is stored depends
  on what was read three steps earlier; `InputEnds`, the point of
  `EofChangesNothing`; `Counts`, the descriptors.
* `EndIsQuiet`: the action property `EofChangesNothing`. It rests on `Harmless`: what
  `strtok` leaves in the buffer has no argument left.
* `ArrayIsTheList`: `ImplementsRegistry`. The entry stored is an `Add`, the shift a
  `Take`, the end of a process a `Forget`, and all other steps of the whole
  program, also those of the start and of the peers, leave the list alone.
* `CompleteMeansRead`: `CompletedMeansComplete`. The first half is that a matching root
  answers for all chunks; the second counts: as many matching pairs as there are
  chunks, with both sides free of repetitions, make the two sets equal.

`Sha256StreamProofs`, for blocks and lengths of any size with the length shorter than
the block, and any messages (`SizesOK`, `MessagesOK`):

* `TypeCorrect`: the buffer is never overrun, and after every call it has room for
  the marker that `sha256_finalize` writes without a test.
* `CutsDoNotMatter` (`NothingLost`) and `PaddedRight` (`HashesThePadded`). The invariant,
  `StreamInv`, adds to the three properties that what is left of a call lies behind
  an empty buffer, or fits into it (`RestFits`): without it the rest of a call could
  be copied over bytes that wait. From `NothingLost` in a state where all bytes are
  given, the padded message follows by cases on where the message ends in its block.

The proofs need induction over sequences, levels and lines, and the induction
theorems of the library cannot be instantiated by the provers. `SequenceLemmas`
derives what is needed without an operator as a parameter: a set of numbers that has 0
and is closed under the successor has all of them (`SetInduction`, from the least
element of the complement), and a function iterated from a first value exists
(`Recursion`). A recursive function is handled by giving the function that solves
its equation and showing that no other does (`VisitIs`, `LeavesAre`, `Pow2Is`).

Left to TLC: liveness under fairness (`QueueServed`), which the prover cannot do, and of
`PeerTable` the properties until the first meeting (`EntriesPublished`, `Ledger`,
`TargetsListedOnce`, `OnlyTheLoopFaults`, `ImplementsPeerList`). Every other property of a passing run is a theorem.
What no theorem says, because it is the abstraction itself: that SHA-256 has no
collisions, that the samples' writer, `pkgmake`, makes packages as in `FromMake`, and
that the tree may be one step in `Packages`.

## 5. Not modelled

* `print_packages`, `bpkg_print_all`, `print_tree`: they only print.
* `destroy_peers` and the end of `main`: unreachable behind the endless loop.
* `get_leaf_nodes`, `traverse_subtree`, `find_subtree_chunks`,
  `get_root_from_hash`: nothing calls them.
* Failures of `malloc`, and memory that is leaked.
* `-file_check` looks in `resources/pkgs/` and `read_data` next to the `.bpkg`: the
  model takes them to be the same directory, as they are for the samples.
* The compression function of SHA-256, which is bit arithmetic without branches, and
  the hexadecimal output; a call of `sha256_update` with nearly 2^32 bytes.
* The chunk offsets, which the code ignores.
* In `bpkg_load`, lines longer than the buffer, and a header without a value, for
  which `fscanf` takes the next word of the file; numbers beyond an `int` there and
  in the configuration.
* The parsing of `pkgmain`'s own arguments, and its listing of the package.
* The programs under `resources/getting_started`, which no build target uses, the
  scripts and the sample files.

## 6. Plan

Done: every module of the table above, with its run; a theorem for every safety property of
a passing run but the five named in section 4.

Open; all of it is proof:

1. That the tree may be one step in `Packages`: the answer of `ChunkCheck` for the
   leaves that were read, as the function of package and leaves that `Packages` uses.
2. A bound on the answers of `-min_hashes` for packages without repeated subtrees.
   `pkg_min` shows that the roots are not disjoint; how many there may be is not stated.
3. The five properties of `PeerTable` that hold until the first meeting, from an
   invariant of a thread that is alone inside.
