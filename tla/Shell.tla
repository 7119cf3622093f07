--------------------------------- MODULE Shell ---------------------------------
(***************************************************************************)
(* btide as a whole: it starts (Config), then obeys the lines that the user *)
(* types (this module), keeping packages (Packages) and, in less detail     *)
(* than PeerTable, peers.  What the parts share are descriptors.            *)
(***************************************************************************)
EXTENDS Config, Packages

CONSTANTS
    Typed,      \* the lines a user may type: [word, blank, arg], the argument
                \* as the sequence of its parts
    NoArg,      \* nothing but blanks after the word
    Fds         \* the limit of descriptors

\* 0, 1, 2 and the listening socket.
OwnFds == 4

ASSUME FdsOK == Fds \in Nat /\ Fds > OwnFds

ASSUME TypedOK ==
    \A l \in Typed :
        /\ l = [word |-> l.word, blank |-> l.blank, arg |-> l.arg]
        /\ l.blank \in BOOLEAN

VARIABLES
    line,       \* the buffer of the command loop
    at,         \* the command loop: "prompt" or "handle"
    eof,        \* the end of the input has been reached
    conns,      \* the number of peers in the table
    waiting     \* a connection is in the listen queue

shellVars == <<line, at, eof, conns, waiting>>
vars == <<configVars, packagesVars, shellVars>>

\* Before the first line the buffer holds what the stack held: no command.
Garbage == [word |-> "garbage", blank |-> FALSE, arg |-> NoArg]

Free == OwnFds + conns + leaked + (IF opened THEN 1 ELSE 0) < Fds

Init ==
    /\ ConfigInit
    /\ PackagesInit
    /\ line = Garbage
    /\ at = "prompt"
    /\ eof = FALSE
    /\ conns = 0
    /\ waiting = FALSE

ForgetShell ==
    line' = Garbage /\ at' = "prompt" /\ eof' = FALSE /\ conns' = 0 /\ waiting' = FALSE

-----------------------------------------------------------------------------
\* Steps of the start; what a process that crashed left to look at goes.
Booting ==
    /\ Boot
    /\ IF boot = "crashed" THEN ForgetPackages /\ ForgetShell
                           ELSE UNCHANGED <<packagesVars, shellVars>>

-----------------------------------------------------------------------------
(* The command loop.                                                       *)

Running == boot = "up"
Stays == UNCHANGED configVars

\* btide ends in the middle of a command, by the sanitizer of the build or a signal.
Crash ==
    /\ boot' = "crashed"
    /\ waiting' = FALSE
    /\ UNCHANGED <<cfile, at_line, config, disk, code, made, line, at, eof, conns>>

\* fgets reads a line.  The user adds no more than MaxPackages packages.
ReadCommand ==
    /\ Running /\ at = "prompt"
    /\ ~eof
    /\ line' \in Typed
    /\ line'.word = "ADDPACKAGE" => Len(packages) < MaxPackages
    /\ at' = "handle"
    /\ UNCHANGED <<eof, conns, waiting, packagesVars>>
    /\ Stays

\* fgets finds the end of the input: nobody looks, and the buffer is as it was.
EndOfInput ==
    /\ Running /\ at = "prompt"
    /\ eof' = TRUE
    /\ at' = "handle"
    /\ UNCHANGED <<line, conns, waiting, packagesVars>>
    /\ Stays

\* command_handler: a command that takes arguments is known by the blank behind
\* it, one that takes none by its end, and QUIT by its first four letters.
TakesArguments == {"CONNECT", "DISCONNECT", "ADDPACKAGE", "REMPACKAGE"}
TakesNone == {"PEERS", "PACKAGES"}

IsCommand(word) ==
    /\ Running /\ at = "handle"
    /\ line.word = word
    /\ line.blank <=> word \in TakesArguments

\* Variants, here and below: what a plausible slip in the code would do.
\* The tokens are cut off in a copy.
TokenizedCopy == line

\* strtok ends the first word of the buffer where the blank was.
Tokenized == [line EXCEPT !.blank = FALSE, !.arg = NoArg]

\* The command is done.
Done ==
    /\ at' = "prompt"
    /\ line' = IF line.word \in TakesArguments /\ line.blank THEN Tokenized ELSE line
    /\ UNCHANGED eof
    /\ Stays

\* PEERS and PACKAGES only print, and so does a line that is no command.
PrintOrInvalid ==
    /\ Running /\ at = "handle"
    /\ line.word # "QUIT"
    /\ line.word \in TakesArguments => ~line.blank
    /\ Done
    /\ UNCHANGED <<conns, waiting, packagesVars>>

Quit ==
    /\ Running /\ at = "handle"
    /\ line.word = "QUIT"
    /\ Exit(0)
    /\ UNCHANGED <<cfile, at_line, config, disk, made>>
    /\ ForgetPackages /\ ForgetShell

\* The argument has an address and a port.
NamesPeer == line.arg # NoArg /\ Len(line.arg) = 2

MissingPeer ==
    /\ IsCommand("CONNECT") \/ IsCommand("DISCONNECT")
    /\ ~NamesPeer
    /\ Done
    /\ UNCHANGED <<conns, waiting, packagesVars>>

\* CONNECT: the peer may be listed, or refuse, or there is no room for it.
Connect ==
    /\ IsCommand("CONNECT")
    /\ NamesPeer
    /\ \/ UNCHANGED conns
       \/ conns < config.max_peers /\ Free /\ conns' = conns + 1
    /\ Done
    /\ UNCHANGED <<waiting, packagesVars>>

\* DISCONNECT: the peer may not be listed.
Disconnect ==
    /\ IsCommand("DISCONNECT")
    /\ NamesPeer
    /\ \/ UNCHANGED conns
       \/ conns > 0 /\ conns' = conns - 1
    /\ Done
    /\ UNCHANGED <<waiting, packagesVars>>

\* send to a far end that has reset raises SIGPIPE, for which there is no handler.
DisconnectKilled ==
    /\ IsCommand("DISCONNECT")
    /\ NamesPeer
    /\ conns > 0
    /\ UNCHANGED packagesVars
    /\ Crash

\* ADDPACKAGE without an argument, or of a file that is not there.
NothingToAdd ==
    /\ IsCommand("ADDPACKAGE")
    /\ adding.at = "none"
    /\ Done
    /\ UNCHANGED <<conns, waiting, packagesVars>>

\* ADDPACKAGE, up to the entry.
Add ==
    /\ IsCommand("ADDPACKAGE")
    /\ line.arg # NoArg
    /\ AddFound \/ AddOpen(Free) \/ AddLoad \/ AddRead(Free)
    /\ UNCHANGED shellVars
    /\ Stays

Added ==
    /\ IsCommand("ADDPACKAGE")
    /\ AddStore
    /\ Done
    /\ UNCHANGED <<conns, waiting>>

AddCrash ==
    /\ IsCommand("ADDPACKAGE")
    /\ AddLoadCrash \/ AddReadCrash(Free) \/ AddStoreCrash
    /\ Crash

\* REMPACKAGE compares without a test whether there is an argument.
RemPackage ==
    /\ IsCommand("REMPACKAGE")
    /\ line.arg # NoArg \/ packages = <<>>
    /\ RemovePackage(line.arg)
    /\ Done
    /\ UNCHANGED <<conns, waiting>>

\* The comparison comes before the test for an empty registry.
RemPackageCrashAlways ==
    /\ IsCommand("REMPACKAGE")
    /\ line.arg = NoArg
    /\ UNCHANGED packagesVars
    /\ Crash

\* There is something to compare the missing argument with.
RemPackageCrash ==
    /\ IsCommand("REMPACKAGE")
    /\ line.arg = NoArg /\ packages # <<>>
    /\ UNCHANGED packagesVars
    /\ Crash

-----------------------------------------------------------------------------
(* The accept thread, a far end that connects, and the monitor.            *)

RemoteConnect ==
    /\ Running
    /\ ~waiting
    /\ waiting' = TRUE
    /\ UNCHANGED <<line, at, eof, conns, packagesVars>>
    /\ Stays

\* A connection is taken only when there is room for it.
AcceptWithRoom ==
    /\ Running
    /\ waiting
    /\ Free
    /\ conns < config.max_peers
    /\ waiting' = FALSE
    /\ conns' = conns + 1
    /\ UNCHANGED <<line, at, eof, packagesVars>>
    /\ Stays

\* A connection is listed whether there is room or not.
AcceptUntested ==
    /\ Running
    /\ waiting
    /\ Free
    /\ waiting' = FALSE
    /\ conns' = conns + 1
    /\ UNCHANGED <<line, at, eof, packagesVars>>
    /\ Stays

\* accept takes the lowest free descriptor, and without one fails and is called
\* again.  A connection for which the table has no room is closed.
Accept ==
    /\ Running
    /\ waiting
    /\ Free
    /\ waiting' = FALSE
    /\ conns' = IF conns < config.max_peers THEN conns + 1 ELSE conns
    /\ UNCHANGED <<line, at, eof, packagesVars>>
    /\ Stays

\* check_disconnection finds a peer gone and passes its index to remove_peer, which
\* removes the peer with that number for a socket.  There is one only when the index
\* reaches the sockets, the lowest of which is OwnFds.
MonitorRemove ==
    /\ Running
    /\ conns > OwnFds
    /\ conns' = conns - 1
    /\ UNCHANGED <<line, at, eof, waiting, packagesVars>>
    /\ Stays

-----------------------------------------------------------------------------
Next ==
    \/ Booting
    \/ ReadCommand \/ EndOfInput
    \/ PrintOrInvalid \/ Quit
    \/ MissingPeer \/ Connect \/ Disconnect \/ DisconnectKilled
    \/ NothingToAdd \/ Add \/ Added \/ AddCrash
    \/ RemPackage \/ RemPackageCrash
    \/ RemoteConnect \/ Accept \/ MonitorRemove

\* The accept thread runs when it can.
Spec == Init /\ [][Next]_vars /\ WF_vars(Accept)
-----------------------------------------------------------------------------
(* Properties.                                                             *)

TypeOK ==
    /\ ConfigTypeOK
    /\ PackagesTypeOK
    /\ line \in Typed \cup {Garbage} \cup {[l EXCEPT !.blank = FALSE, !.arg = NoArg] : l \in Typed}
    /\ at \in {"prompt", "handle"}
    /\ eof \in BOOLEAN /\ waiting \in BOOLEAN
    /\ conns = 0 \/ conns \in 1..config.max_peers
    /\ OwnFds + conns + leaked + (IF opened THEN 1 ELSE 0) <= Fds
    /\ adding.at # "none" => line.word = "ADDPACKAGE"

\* The file that is added is one that was made as packages are, of a number of
\* chunks that gives a perfect tree of at least two leaves.
Sound(file) ==
    \E p \in Made : file = Written(p) /\ Perfect(Len(p.chunks)) /\ p.hashes # <<>>

\* Only three commands can end btide before its time: REMPACKAGE without an argument
\* while there are packages (btide.c:285), ADDPACKAGE of a file that is not sound or
\* could not be opened any more, and DISCONNECT of a peer that has reset the
\* connection (peer.c:241).  No order of other commands does.  What the threads do to
\* each other's memory is left to PeerTable.
SoundSessionsSurvive ==
    boot = "crashed" =>
        \/ line.word = "REMPACKAGE" /\ line.arg = NoArg /\ packages # <<>>
        \/ line.word = "ADDPACKAGE" /\ ~Sound(adding.file)
        \/ line.word = "DISCONNECT" /\ conns > 0

\* The end of the input (btide.c:192) repeats what is left of the last line, for
\* ever, but that changes nothing: strtok has cut off the arguments of every
\* command that could, so that nothing is added, removed or opened twice.
EofChangesNothing ==
    [][ eof => UNCHANGED <<packages, leaked, boot>> ]_vars

\* As long as two descriptors are left, one of which ADDPACKAGE may hold for a
\* while, an inbound connection is taken off the queue, whatever the user does.
\* Peers and the data files that read_data leaves open (merkletree.c:86) are what
\* they run out of.
QueueServed ==
    (Running /\ waiting) ~> (~waiting \/ OwnFds + conns + leaked + 1 >= Fds)
=============================================================================
