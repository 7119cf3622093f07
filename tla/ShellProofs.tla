------------------------------ MODULE ShellProofs ------------------------------
(***************************************************************************)
(* btide as a whole: what holds in every state of it, whatever the user    *)
(* types, the files hold and the far ends do; and that its registry is the *)
(* list that Registry promises.                                            *)
(***************************************************************************)
EXTENDS Shell, BpkgLoadProofs, ConfigProofs, FiniteSetTheorems

-----------------------------------------------------------------------------
(* The invariant.                                                          *)

\* A line that would add, remove, connect or end nothing if it were obeyed again.
Harmless ==
    /\ line.word # "QUIT"
    /\ line.word \in TakesArguments => ~line.blank

\* Between two runs of btide nothing is kept but the directory.
Forgotten ==
    /\ packages = <<>> /\ adding = NotAdding /\ opened = FALSE /\ leaked = 0
    /\ line = Garbage /\ at = "prompt" /\ eof = FALSE /\ conns = 0 /\ waiting = FALSE

Idle == boot \notin {"up", "crashed"} => Forgotten

\* While add_package is under way the command loop is inside its line, and as long as
\* it is there is room for one more package.
AddingLine ==
    /\ adding.at # "none" => at = "handle" /\ line.word = "ADDPACKAGE" /\ line.blank
    /\ at = "handle" /\ line.word = "ADDPACKAGE" /\ line.blank => Len(packages) < MaxPackages

\* What add_package has read so far: the file, what bpkg_load made of it, and the
\* leaves of a tree that could be built.
AddingHolds ==
    /\ adding.at \in {"none", "found"} => adding.file = NoFile
    /\ adding.at \in {"none", "found", "open"} => adding.obj = NoObject
    /\ adding.at \notin {"read"} => adding.data = NoFile /\ adding.leaves = <<>>
    /\ adding.at = "open" => adding.file \in BpkgFiles \cup {NoFile} /\ (opened <=> adding.file # NoFile)
    /\ adding.at \in {"loaded", "read"} =>
        /\ adding.file \in BpkgFiles
        /\ ~LoadFails
        /\ adding.obj = Load(adding.file).obj
    /\ adding.data # NoFile =>
        /\ ~TreeCrashes(adding.obj)
        /\ Singles(adding.leaves, adding.obj.len_chunk)

\* The end of the input comes to a loop that waits for a line, and the line that is
\* left in the buffer is harmless by then.
InputEnds ==
    /\ eof => boot = "up"
    /\ at = "prompt" \/ eof => Harmless

Listed == packages \in Seq([identifier : Identifiers, status : {0, 1}])

\* add_package under way, field by field.
Under(where, file, data, leaves, obj) ==
    [at |-> where, file |-> file, data |-> data, leaves |-> leaves, obj |-> obj]

AddingFields == adding = Under(adding.at, adding.file, adding.data, adding.leaves, adding.obj)

\* The lines that the buffer may hold.
Buffers == Typed \cup {Garbage} \cup {[l EXCEPT !.blank = FALSE, !.arg = NoArg] : l \in Typed}

\* The peers, and the descriptors that are taken.
Slot == IF opened THEN 1 ELSE 0

Counts ==
    /\ conns \in Nat /\ leaked \in Nat /\ opened \in BOOLEAN
    /\ conns = 0 \/ conns <= config.max_peers
    /\ OwnFds + conns + leaked + Slot <= Fds

ShellTypes ==
    /\ line \in Buffers /\ at \in {"prompt", "handle"} /\ eof \in BOOLEAN /\ waiting \in BOOLEAN
    /\ Len(packages) <= MaxPackages
    /\ adding.at \in {"none", "found", "open", "loaded", "read"}
    /\ opened => adding.at = "open"

ShellInv ==
    /\ ConfigInv
    /\ ShellTypes
    /\ Counts
    /\ Listed
    /\ Idle
    /\ AddingFields
    /\ AddingLine
    /\ AddingHolds
    /\ InputEnds
    /\ SoundSessionsSurvive

-----------------------------------------------------------------------------
(* Lines and records.                                                      *)

\* What a line in the buffer looks like.
Typing(word, blank, arg) == [word |-> word, blank |-> blank, arg |-> arg]

LineShape(l) == l = Typing(l.word, l.blank, l.arg)

LEMMA SetsBlank ==
    ASSUME NEW x, NEW y, NEW z, NEW b
    PROVE  [Typing(x, y, z) EXCEPT !.blank = b] = Typing(x, b, z)
  BY DEF Typing

LEMMA SetsArg ==
    ASSUME NEW x, NEW y, NEW z, NEW n
    PROVE  [Typing(x, y, z) EXCEPT !.arg = n] = Typing(x, y, n)
  BY DEF Typing

LEMMA TypingIs ==
    ASSUME NEW x, NEW y, NEW z
    PROVE  Typing(x, y, z).word = x /\ Typing(x, y, z).blank = y /\ Typing(x, y, z).arg = z
  BY DEF Typing

\* What strtok leaves of a line.
LEMMA CutOff ==
    ASSUME NEW l, LineShape(l)
    PROVE  LET c == [l EXCEPT !.blank = FALSE, !.arg = NoArg]
           IN  LineShape(c) /\ c.word = l.word /\ c.blank = FALSE /\ c.arg = NoArg
<1> DEFINE x == l.word
           y == l.blank
           z == l.arg
           no == FALSE
           p == [l EXCEPT !.blank = no]
           c == [p EXCEPT !.arg = NoArg]
<1>1. l = Typing(x, y, z)
  BY DEF LineShape
<1>2. c = [l EXCEPT !.blank = FALSE, !.arg = NoArg]
  OBVIOUS
<1> HIDE DEF x, y, z, no
<1>3. p = Typing(x, no, z)
  BY <1>1, SetsBlank
<1> HIDE DEF p
<1>4. c = Typing(x, no, NoArg)
  BY <1>3, SetsArg
<1> HIDE DEF c
<1>5. c.word = x /\ c.blank = no /\ c.arg = NoArg
  BY <1>4, TypingIs
<1>6. LineShape(c)
  BY <1>4, <1>5 DEF LineShape
<1>7. c.blank = FALSE
  BY <1>5, Zenon DEF no
<1> QED BY <1>2, <1>5, <1>6, <1>7, Zenon DEF x

LEMMA BufferIs ==
    ASSUME NEW l \in Buffers
    PROVE  LineShape(l) /\ l.blank \in BOOLEAN /\ (l.blank => l \in Typed)
<1>1. CASE l \in Typed
  BY <1>1, TypedOK DEF LineShape, Typing
<1>2. CASE l = Garbage
  BY <1>2 DEF Garbage, LineShape, Typing
<1>3. CASE l \in {[m EXCEPT !.blank = FALSE, !.arg = NoArg] : m \in Typed}
  <2>1. PICK m \in Typed : l = [m EXCEPT !.blank = FALSE, !.arg = NoArg]
    BY <1>3
  <2>2. LineShape(m)
    BY TypedOK DEF LineShape, Typing
  <2>3. LineShape(l) /\ l.blank = FALSE
    BY <2>1, <2>2, CutOff
  <2> QED BY <2>3
<1> QED BY <1>1, <1>2, <1>3 DEF Buffers

\* The buffer after a command that takes arguments.
LEMMA TokenizedIs ==
    ASSUME line \in Buffers, line.blank
    PROVE  Tokenized \in Buffers /\ Tokenized.word = line.word /\ Tokenized.blank = FALSE
<1>1. LineShape(line) /\ line \in Typed
  BY BufferIs
<1>2. Tokenized.word = line.word /\ Tokenized.blank = FALSE
  BY <1>1, CutOff DEF Tokenized
<1>3. Tokenized \in Buffers
  BY <1>1 DEF Tokenized, Buffers
<1> QED BY <1>2, <1>3

\* What setting the fields of add_package under way makes of it.
LEMMA FieldsAre ==
    ASSUME NEW w, NEW f, NEW d, NEW s, NEW o
    PROVE  LET a == Under(w, f, d, s, o)
           IN  a.at = w /\ a.file = f /\ a.data = d /\ a.leaves = s /\ a.obj = o
  BY DEF Under

LEMMA SetsAt ==
    ASSUME NEW w, NEW f, NEW d, NEW s, NEW o, NEW w2
    PROVE  [Under(w, f, d, s, o) EXCEPT !.at = w2] = Under(w2, f, d, s, o)
  BY DEF Under

LEMMA SetsFile ==
    ASSUME NEW w, NEW f, NEW d, NEW s, NEW o, NEW f2
    PROVE  [Under(w, f, d, s, o) EXCEPT !.file = f2] = Under(w, f2, d, s, o)
  BY DEF Under

LEMMA SetsObj ==
    ASSUME NEW w, NEW f, NEW d, NEW s, NEW o, NEW o2
    PROVE  [Under(w, f, d, s, o) EXCEPT !.obj = o2] = Under(w, f, d, s, o2)
  BY DEF Under

LEMMA SetsData ==
    ASSUME NEW w, NEW f, NEW d, NEW s, NEW o, NEW d2
    PROVE  [Under(w, f, d, s, o) EXCEPT !.data = d2] = Under(w, f, d2, s, o)
  BY DEF Under

LEMMA SetsLeaves ==
    ASSUME NEW w, NEW f, NEW d, NEW s, NEW o, NEW s2
    PROVE  [Under(w, f, d, s, o) EXCEPT !.leaves = s2] = Under(w, f, d, s2, o)
  BY DEF Under

-----------------------------------------------------------------------------
(* The kinds of steps.                                                     *)

\* What a step that leaves the start of btide, or the packages, alone keeps.
LEMMA ConfigStays == ConfigInv /\ UNCHANGED configVars => ConfigInv'
  BY DEF ConfigInv, ConfigTypeOK, ReadSoFar, LastValue, Said, PeersOK, PortOK, RefusedOnce, configVars

LEMMA PackagesStay ==
    ASSUME UNCHANGED packagesVars
    PROVE  /\ packages' = packages /\ adding' = adding /\ opened' = opened /\ leaked' = leaked
           /\ Slot' = Slot
           /\ Listed => Listed'
           /\ AddingFields => AddingFields'
           /\ AddingHolds => AddingHolds'
<1>1. packages' = packages /\ adding' = adding /\ opened' = opened /\ leaked' = leaked
  BY DEF packagesVars
<1>2. LoadFails' = LoadFails
  BY <1>1 DEF LoadFails
<1> QED BY <1>1, <1>2 DEF Slot, Listed, AddingFields, AddingHolds

\* Every part of the invariant that has to do with the running program, for a step
\* that does not crash.
LEMMA RunningKeeps ==
    ASSUME ShellInv, boot = "up", UNCHANGED configVars,
           ShellTypes', Counts', Listed', AddingFields', AddingLine', AddingHolds',
           at' = "prompt" \/ eof' => Harmless'
    PROVE  ShellInv'
<1>1. ConfigInv'
  BY ConfigStays DEF ShellInv
<1>2. boot' = "up"
  BY DEF configVars
<1>3. Idle' /\ SoundSessionsSurvive' /\ InputEnds'
  BY <1>2 DEF Idle, SoundSessionsSurvive, InputEnds
<1> QED BY <1>1, <1>3 DEF ShellInv

\* One more peer, where there is a descriptor for it, or fewer.
LEMMA RoomForOne ==
    ASSUME NEW own \in Int, NEW m \in Int, NEW n \in Int, NEW left \in Int, NEW s \in Int, NEW max \in Int,
           own + m + left + s <= max,
           n <= m \/ (own + m + left + s < max /\ n = m + 1)
    PROVE  own + n + left + s <= max
  OBVIOUS

\* A step of the command loop or of the accept thread that has nothing to do with
\* the packages.
LEMMA ShellStepKeeps ==
    ASSUME ShellInv, boot = "up", UNCHANGED configVars, UNCHANGED packagesVars,
           line' \in Buffers, at' \in {"prompt", "handle"}, eof' \in BOOLEAN, waiting' \in BOOLEAN,
           conns' \in Nat, conns' = 0 \/ conns' <= config.max_peers,
           conns' <= conns \/ (Free /\ conns' = conns + 1),
           AddingLine',
           at' = "prompt" \/ eof' => Harmless'
    PROVE  ShellInv'
<1>1. /\ packages' = packages /\ adding' = adding /\ opened' = opened /\ leaked' = leaked
      /\ Slot' = Slot /\ Listed' /\ AddingFields' /\ AddingHolds'
  BY PackagesStay DEF ShellInv
<1>2. config' = config
  BY DEF configVars
<1>3. Counts'
  <2>1. Counts /\ Slot \in {0, 1} /\ OwnFds \in Nat /\ Fds \in Nat
    BY FdsOK DEF ShellInv, Slot, OwnFds
  <2>2. /\ conns \in Nat /\ leaked \in Nat /\ OwnFds + conns + leaked + Slot <= Fds
    BY <2>1 DEF Counts
  <2>4. Free <=> OwnFds + conns + leaked + Slot < Fds
    BY Zenon DEF Free, Slot
  <2>3. OwnFds + conns' + leaked + Slot <= Fds
    <3>1. Slot \in Int /\ leaked \in Int /\ conns \in Int /\ conns' \in Int /\ OwnFds \in Int /\ Fds \in Int
      BY <2>1, <2>2
    <3>2. conns' <= conns \/ (OwnFds + conns + leaked + Slot < Fds /\ conns' = conns + 1)
      BY <2>4
    <3> QED BY <2>2, <3>1, <3>2, RoomForOne
  <2> QED BY <1>1, <1>2, <2>1, <2>2, <2>3 DEF Counts
<1>4. ShellTypes'
  BY <1>1 DEF ShellInv, ShellTypes
<1> QED BY <1>1, <1>3, <1>4, RunningKeeps

\* A command that ends btide before its time.
LEMMA CrashKeeps ==
    ASSUME ShellInv, boot = "up", eof = FALSE, at = "handle", Crash, UNCHANGED packagesVars,
           \/ line.word = "REMPACKAGE" /\ line.arg = NoArg /\ packages # <<>>
           \/ line.word = "ADDPACKAGE" /\ ~Sound(adding.file)
           \/ line.word = "DISCONNECT" /\ conns > 0
    PROVE  ShellInv'
<1>1. /\ packages' = packages /\ adding' = adding /\ opened' = opened /\ leaked' = leaked
      /\ Slot' = Slot /\ Listed' /\ AddingFields' /\ AddingHolds'
  BY PackagesStay DEF ShellInv
<1>2. /\ boot' = "crashed" /\ waiting' = FALSE
      /\ cfile' = cfile /\ at_line' = at_line /\ config' = config /\ disk' = disk /\ code' = code /\ made' = made
      /\ line' = line /\ at' = at /\ eof' = eof /\ conns' = conns
  BY DEF Crash
<1>3. ConfigInv'
  <2>1. ConfigTypeOK'
    BY <1>2 DEF ShellInv, ConfigInv, ConfigTypeOK
  <2> QED BY <1>2, <2>1 DEF ShellInv, ConfigInv, RefusedOnce
<1>4. Counts' /\ ShellTypes' /\ AddingLine'
  BY <1>1, <1>2 DEF ShellInv, Counts, ShellTypes, AddingLine
<1>5. Idle'
  BY <1>2 DEF Idle
<1>6. InputEnds'
  BY <1>2 DEF InputEnds
<1>7. SoundSessionsSurvive'
  BY <1>1, <1>2 DEF SoundSessionsSurvive, Sound
<1> QED BY <1>1, <1>3, <1>4, <1>5, <1>6, <1>7 DEF ShellInv

\* A process that has nothing yet, or nothing any more.
LEMMA ForgottenInv == ConfigInv /\ Forgotten /\ boot # "crashed" => ShellInv
<1> SUFFICES ASSUME ConfigInv, Forgotten, boot # "crashed" PROVE ShellInv
  OBVIOUS
<1>1. adding = Under("none", NoFile, NoFile, <<>>, NoObject)
  BY DEF Forgotten, NotAdding, Under
<1>2. /\ adding.at = "none" /\ adding.file = NoFile /\ adding.data = NoFile
      /\ adding.leaves = <<>> /\ adding.obj = NoObject
  BY <1>1, FieldsAre
<1>3. AddingFields
  BY <1>1, <1>2 DEF AddingFields
<1>4. AddingLine /\ AddingHolds
  BY <1>2 DEF AddingLine, AddingHolds, Forgotten
<1>5. Counts
  <2>1. conns = 0 /\ leaked = 0 /\ opened = FALSE
    BY DEF Forgotten
  <2>2. Slot = 0
    BY <2>1 DEF Slot
  <2>3. OwnFds + conns + leaked + Slot <= Fds
    BY <2>1, <2>2, FdsOK DEF OwnFds
  <2> QED BY <2>1, <2>3 DEF Counts
<1>6. Listed
  BY EmptySeq DEF Forgotten, Listed
<1>7. ShellTypes
  <2>1. Len(packages) <= MaxPackages
    BY MaxPackagesOK, EmptySeq DEF Forgotten
  <2>2. line \in Buffers
    BY DEF Forgotten, Buffers
  <2> QED BY <1>2, <2>1, <2>2 DEF Forgotten, ShellTypes
<1>8. InputEnds
  BY DEF Forgotten, InputEnds, Harmless, Garbage
<1>9. Idle /\ SoundSessionsSurvive
  BY DEF Idle, SoundSessionsSurvive
<1> QED BY <1>3, <1>4, <1>5, <1>6, <1>7, <1>8, <1>9 DEF ShellInv

LEMMA InitInv == Init => ShellInv
  BY ConfigInitInv, ForgottenInv DEF Init, PackagesInit, Forgotten, ConfigInit

\* The end of a process, and the steps of a start.
LEMMA ForgetKeeps ==
    ASSUME ConfigInv', ForgetPackages, ForgetShell, boot' # "crashed"
    PROVE  ShellInv'
<1>1. (ConfigInv /\ Forgotten /\ boot # "crashed" => ShellInv)'
  BY ForgottenInv, PTL
<1>2. Forgotten'
  BY DEF Forgotten, ForgetPackages, ForgetShell
<1> QED BY <1>1, <1>2

LEMMA BootingKeeps == ASSUME ShellInv, Booting PROVE ShellInv'
<1>1. ConfigInv'
  BY BootKeeps DEF ShellInv, Booting
<1>2. boot # "up" /\ boot' # "crashed"
  BY DEF Booting, Boot, Start, StartWithout, DiskChanges, ReadLine, Reading, BadLine, LastLine,
         DirectoryThere, DirectoryMade, DirectoryRefused, OutOfLimits, MakeServer, Exit
<1>3. CASE boot = "crashed"
  BY <1>1, <1>2, <1>3, ForgetKeeps DEF Booting
<1>4. CASE boot # "crashed"
  <2>1. Forgotten
    BY <1>2, <1>4 DEF ShellInv, Idle
  <2>2. ForgetPackages /\ ForgetShell
    BY <1>4, <2>1 DEF Booting, Forgotten, ForgetPackages, ForgetShell, packagesVars, shellVars
  <2> QED BY <1>1, <1>2, <2>2, ForgetKeeps
<1> QED BY <1>3, <1>4

-----------------------------------------------------------------------------
(* The steps of the command loop.                                          *)

\* A command that is done leaves a line that is harmless.
LEMMA DoneIs ==
    ASSUME ShellInv, Done, line.word # "QUIT"
    PROVE  /\ at' = "prompt" /\ line' \in Buffers /\ eof' = eof /\ eof' \in BOOLEAN
           /\ UNCHANGED configVars
           /\ Harmless'
<1>1. line \in Buffers /\ eof \in BOOLEAN
  BY DEF ShellInv, ShellTypes
<1>2. CASE line.word \in TakesArguments /\ line.blank
  <2>1. line' = Tokenized
    BY <1>2 DEF Done
  <2>2. line' \in Buffers /\ line'.word = line.word /\ line'.blank = FALSE
    BY <1>1, <1>2, <2>1, TokenizedIs
  <2> QED BY <1>1, <2>2 DEF Done, Stays, Harmless
<1>3. CASE ~(line.word \in TakesArguments /\ line.blank)
  BY <1>1, <1>3 DEF Done, Stays, Harmless
<1> QED BY <1>2, <1>3

\* What the invariant says that every step of the running program needs.
LEMMA RunningIs ==
    ASSUME ShellInv
    PROVE  /\ line \in Buffers /\ at \in {"prompt", "handle"} /\ eof \in BOOLEAN /\ waiting \in BOOLEAN
           /\ conns \in Nat /\ (conns = 0 \/ conns <= config.max_peers)
           /\ AddingLine /\ InputEnds /\ config.max_peers \in Int
  BY DEF ShellInv, ShellTypes, Counts, ConfigInv, Configs

LEMMA ReadCommandKeeps == ASSUME ShellInv, ReadCommand PROVE ShellInv'
<1>1. /\ boot = "up" /\ eof = FALSE /\ at = "prompt" /\ line' \in Typed /\ at' = "handle"
      /\ eof' = eof /\ conns' = conns /\ waiting' = waiting
      /\ UNCHANGED packagesVars /\ UNCHANGED configVars
      /\ line'.word = "ADDPACKAGE" => Len(packages) < MaxPackages
  BY RunningIs DEF ReadCommand, Running, Stays
<1>2. line' \in Buffers
  BY <1>1 DEF Buffers
<1>3. AddingLine'
  BY <1>1, RunningIs DEF AddingLine, packagesVars
<1> QED BY <1>1, <1>2, <1>3, RunningIs, ShellStepKeeps

LEMMA EndOfInputKeeps == ASSUME ShellInv, EndOfInput PROVE ShellInv'
<1>1. /\ boot = "up" /\ at = "prompt" /\ eof' = TRUE /\ at' = "handle"
      /\ line' = line /\ conns' = conns /\ waiting' = waiting
      /\ UNCHANGED packagesVars /\ UNCHANGED configVars
  BY DEF EndOfInput, Running, Stays
<1>2. Harmless /\ Harmless'
  BY <1>1, RunningIs DEF InputEnds, Harmless
<1>3. AddingLine'
  BY <1>1, <1>2, RunningIs DEF AddingLine, packagesVars, Harmless, TakesArguments
<1> QED BY <1>1, <1>2, <1>3, RunningIs, ShellStepKeeps

\* A command that is done, and that changed nothing but the number of peers.
LEMMA DoneKeeps ==
    ASSUME ShellInv, boot = "up", Done, line.word # "QUIT", UNCHANGED <<waiting, packagesVars>>,
           adding.at = "none",
           conns' \in Nat, conns' = 0 \/ conns' <= config.max_peers,
           conns' <= conns \/ (Free /\ conns' = conns + 1)
    PROVE  ShellInv'
<1>1. /\ at' = "prompt" /\ line' \in Buffers /\ eof' \in BOOLEAN /\ UNCHANGED configVars /\ Harmless'
      /\ waiting' = waiting /\ UNCHANGED packagesVars
  BY DoneIs
<1>2. AddingLine'
  BY <1>1 DEF AddingLine, packagesVars
<1> QED BY <1>1, <1>2, RunningIs, ShellStepKeeps

\* Only the line of ADDPACKAGE is handled in more than one step.
LEMMA OtherLine ==
    ASSUME ShellInv, line.word # "ADDPACKAGE" \/ ~line.blank
    PROVE  adding.at = "none"
  BY RunningIs DEF AddingLine

LEMMA PrintOrInvalidKeeps == ASSUME ShellInv, PrintOrInvalid PROVE ShellInv'
<1>1. /\ boot = "up" /\ Done /\ line.word # "QUIT" /\ UNCHANGED <<waiting, packagesVars>> /\ conns' = conns
      /\ line.word # "ADDPACKAGE" \/ ~line.blank
  BY DEF PrintOrInvalid, Running, TakesArguments
<1> QED BY <1>1, OtherLine, RunningIs, DoneKeeps

\* What a command that is recognised tells of the line.
LEMMA CommandIs ==
    ASSUME NEW word \in TakesArguments, ShellInv, IsCommand(word)
    PROVE  /\ boot = "up" /\ at = "handle" /\ line.word = word /\ line.blank /\ line.word # "QUIT"
           /\ eof = FALSE
           /\ word # "ADDPACKAGE" => adding.at = "none"
<1>1. boot = "up" /\ at = "handle" /\ line.word = word /\ line.blank
  BY DEF IsCommand, Running
<1>2. eof = FALSE
  BY <1>1, RunningIs DEF InputEnds, Harmless
<1>3. word # "QUIT"
  BY DEF TakesArguments
<1> QED BY <1>1, <1>2, <1>3, OtherLine

LEMMA MissingPeerKeeps == ASSUME ShellInv, MissingPeer PROVE ShellInv'
<1>1. boot = "up" /\ line.word # "QUIT" /\ adding.at = "none"
  BY CommandIs DEF MissingPeer, TakesArguments
<1>2. Done /\ UNCHANGED <<waiting, packagesVars>> /\ conns' = conns
  BY DEF MissingPeer
<1> QED BY <1>1, <1>2, RunningIs, DoneKeeps

LEMMA ConnectKeeps == ASSUME ShellInv, Connect PROVE ShellInv'
<1>1. boot = "up" /\ line.word # "QUIT" /\ adding.at = "none"
  BY CommandIs DEF Connect, TakesArguments
<1>2. /\ Done /\ UNCHANGED <<waiting, packagesVars>>
      /\ conns' = conns \/ (conns < config.max_peers /\ Free /\ conns' = conns + 1)
  BY DEF Connect
<1> QED BY <1>1, <1>2, RunningIs, DoneKeeps

LEMMA DisconnectKeeps == ASSUME ShellInv, Disconnect PROVE ShellInv'
<1>1. boot = "up" /\ line.word # "QUIT" /\ adding.at = "none"
  BY CommandIs DEF Disconnect, TakesArguments
<1>2. /\ Done /\ UNCHANGED <<waiting, packagesVars>>
      /\ conns' = conns \/ (conns > 0 /\ conns' = conns - 1)
  BY DEF Disconnect
<1> QED BY <1>1, <1>2, RunningIs, DoneKeeps

LEMMA NothingToAddKeeps == ASSUME ShellInv, NothingToAdd PROVE ShellInv'
<1>1. boot = "up" /\ line.word # "QUIT"
  BY CommandIs DEF NothingToAdd, TakesArguments
<1>2. Done /\ UNCHANGED <<waiting, packagesVars>> /\ conns' = conns /\ adding.at = "none"
  BY DEF NothingToAdd
<1> QED BY <1>1, <1>2, RunningIs, DoneKeeps

LEMMA DisconnectKilledKeeps == ASSUME ShellInv, DisconnectKilled PROVE ShellInv'
<1>1. boot = "up" /\ eof = FALSE /\ at = "handle" /\ line.word = "DISCONNECT"
  BY CommandIs DEF DisconnectKilled, TakesArguments
<1> QED BY <1>1, CrashKeeps DEF DisconnectKilled

LEMMA RemPackageCrashKeeps == ASSUME ShellInv, RemPackageCrash PROVE ShellInv'
<1>1. boot = "up" /\ eof = FALSE /\ at = "handle" /\ line.word = "REMPACKAGE"
  BY CommandIs DEF RemPackageCrash, TakesArguments
<1> QED BY <1>1, CrashKeeps DEF RemPackageCrash

LEMMA QuitKeeps == ASSUME ShellInv, Quit PROVE ShellInv'
<1>1. /\ UNCHANGED <<cfile, at_line, config, disk, made>> /\ boot' = "off" /\ code' = 0
      /\ ForgetPackages /\ ForgetShell
  BY DEF Quit, Exit
<1>2. ConfigInv /\ disk \in {"absent", "directory", "file", "barred"} /\ made \in BOOLEAN
  BY DEF ShellInv, ConfigInv, ConfigTypeOK
<1>3. RefusedOnce'
  BY <1>1 DEF RefusedOnce
<1>4. ConfigInv'
  BY <1>1, <1>2, <1>3, OtherKeeps
<1> QED BY <1>1, <1>4, ForgetKeeps

-----------------------------------------------------------------------------
(* The accept thread and the monitor.                                      *)

LEMMA RemoteConnectKeeps == ASSUME ShellInv, RemoteConnect PROVE ShellInv'
<1>1. /\ boot = "up" /\ waiting' = TRUE /\ UNCHANGED configVars /\ UNCHANGED packagesVars
      /\ line' = line /\ at' = at /\ eof' = eof /\ conns' = conns
  BY DEF RemoteConnect, Running, Stays
<1>2. AddingLine' /\ (at' = "prompt" \/ eof' => Harmless')
  BY <1>1, RunningIs DEF AddingLine, packagesVars, InputEnds, Harmless
<1> QED BY <1>1, <1>2, RunningIs, ShellStepKeeps

LEMMA AcceptKeeps == ASSUME ShellInv, Accept PROVE ShellInv'
<1>1. /\ boot = "up" /\ waiting' = FALSE /\ UNCHANGED configVars /\ UNCHANGED packagesVars
      /\ line' = line /\ at' = at /\ eof' = eof /\ Free
      /\ conns' = IF conns < config.max_peers THEN conns + 1 ELSE conns
  BY DEF Accept, Running, Stays
<1>2. AddingLine' /\ (at' = "prompt" \/ eof' => Harmless')
  BY <1>1, RunningIs DEF AddingLine, packagesVars, InputEnds, Harmless
<1>3. /\ conns' \in Nat /\ (conns' = 0 \/ conns' <= config.max_peers)
      /\ conns' <= conns \/ (Free /\ conns' = conns + 1)
  BY <1>1, RunningIs
<1> QED BY <1>1, <1>2, <1>3, RunningIs, ShellStepKeeps

LEMMA MonitorRemoveKeeps == ASSUME ShellInv, MonitorRemove PROVE ShellInv'
<1>1. /\ boot = "up" /\ UNCHANGED configVars /\ UNCHANGED packagesVars
      /\ line' = line /\ at' = at /\ eof' = eof /\ waiting' = waiting
      /\ conns > OwnFds /\ conns' = conns - 1
  BY DEF MonitorRemove, Running, Stays
<1>2. AddingLine' /\ (at' = "prompt" \/ eof' => Harmless')
  BY <1>1, RunningIs DEF AddingLine, packagesVars, InputEnds, Harmless
<1>3. conns' \in Nat /\ conns' <= conns /\ (conns' = 0 \/ conns' <= config.max_peers)
  <2>1. /\ conns \in Nat /\ OwnFds = 4
        /\ conns = 0 \/ conns <= config.max_peers
    BY RunningIs DEF OwnFds
  <2>2. config.max_peers \in Int
    BY DEF ShellInv, ConfigInv, Configs
  <2> QED BY <1>1, <2>1, <2>2
<1> QED BY <1>1, <1>2, <1>3, RunningIs, ShellStepKeeps

-----------------------------------------------------------------------------
(* ADDPACKAGE.                                                             *)

\* bpkg_load of the file of a package.
LEMMA MadeLoads ==
    ASSUME NEW p \in Made
    PROVE  Load(Written(p)).obj = ObjectOf(p) /\ Load(Written(p)).end = "closed"
<1>1. IsPackage(p)
  BY MadeOK DEF IsPackage
<1>2. Load(Written(p)) = Loaded(ObjectOf(p))
  BY <1>1, LoadsWritten
<1> QED BY <1>2 DEF Loaded

\* A file that cannot be opened gives no identifier.
LEMMA NothingFails ==
    ASSUME adding.file = NoFile
    PROVE  LoadFails
<1>1. LoadOf(adding.file) = LoadNothing
  BY DEF LoadOf
<1>2. LoadNothing.obj.identifier = Unset
  BY DEF LoadNothing, Loaded, NoObject
<1> QED BY <1>1, <1>2 DEF LoadFails

\* The fields of add_package under way, before a step.
LEMMA AddingIs ==
    ASSUME ShellInv
    PROVE  /\ adding = Under(adding.at, adding.file, adding.data, adding.leaves, adding.obj)
           /\ AddingHolds /\ Counts /\ Listed /\ ShellTypes
           /\ OwnFds \in Int /\ Fds \in Int
  BY FdsOK DEF ShellInv, AddingFields, OwnFds

\* What remains to be shown of a step of add_package before its last one.
LEMMA AddStepKeeps ==
    ASSUME ShellInv, IsCommand("ADDPACKAGE"), UNCHANGED shellVars, Stays, packages' = packages,
           adding'.at \in {"found", "open", "loaded", "read"}, opened' => adding'.at = "open",
           Counts', AddingFields', AddingHolds'
    PROVE  ShellInv'
<1>1. boot = "up" /\ at = "handle" /\ line.word = "ADDPACKAGE" /\ line.blank /\ eof = FALSE
  BY CommandIs DEF TakesArguments
<1>2. line' = line /\ at' = at /\ eof' = eof /\ waiting' = waiting
  BY DEF shellVars
<1>3. AddingLine'
  BY <1>1, <1>2, RunningIs DEF AddingLine
<1>4. ShellTypes' /\ Listed'
  BY <1>2, AddingIs DEF ShellTypes, Listed
<1> QED BY <1>1, <1>2, <1>3, <1>4, RunningKeeps DEF Stays

LEMMA FoundKeeps ==
    ASSUME ShellInv, IsCommand("ADDPACKAGE"), UNCHANGED shellVars, Stays, AddFound
    PROVE  ShellInv'
<1>1. NotAdding = Under("none", NoFile, NoFile, <<>>, NoObject)
  BY DEF NotAdding, Under
<1>2. adding' = Under("found", NoFile, NoFile, <<>>, NoObject)
  BY <1>1, SetsAt DEF AddFound
<1>3. /\ adding'.at = "found" /\ adding'.file = NoFile /\ adding'.data = NoFile
      /\ adding'.leaves = <<>> /\ adding'.obj = NoObject
  BY <1>2, FieldsAre
<1>4. AddingFields'
  BY <1>2, <1>3 DEF AddingFields
<1>5. AddingHolds'
  BY <1>3 DEF AddingHolds
<1>6. packages' = packages /\ opened' = opened /\ leaked' = leaked /\ adding.at = "none"
  BY DEF AddFound
<1>7. conns' = conns /\ config' = config
  BY DEF shellVars, Stays, configVars
<1>8. Counts' /\ ~opened'
  BY <1>6, <1>7, AddingIs DEF Counts, Slot, ShellTypes
<1> QED BY <1>3, <1>4, <1>5, <1>6, <1>8, AddStepKeeps

LEMMA OpenKeeps ==
    ASSUME ShellInv, IsCommand("ADDPACKAGE"), UNCHANGED shellVars, Stays, AddOpen(Free)
    PROVE  ShellInv'
<1>1. /\ adding.at = "found" /\ packages' = packages /\ leaked' = leaked
      /\ conns' = conns /\ config' = config
  BY DEF AddOpen, shellVars, Stays, configVars
<1>2. PICK file \in BpkgFiles \cup {NoFile} :
          /\ adding' = [adding EXCEPT !.at = "open", !.file = file]
          /\ opened' = (file # NoFile)
          /\ Free \/ file = NoFile
  BY DEF AddOpen
<1>3. adding = Under("found", NoFile, NoFile, <<>>, NoObject) /\ ~opened /\ Counts
  BY <1>1, AddingIs DEF AddingHolds, ShellTypes
<1>4. adding' = Under("open", file, NoFile, <<>>, NoObject)
  <2> DEFINE a == [adding EXCEPT !.at = "open"]
             b == [a EXCEPT !.file = file]
  <2>1. a = Under("open", NoFile, NoFile, <<>>, NoObject)
    BY <1>3, SetsAt
  <2>2. adding' = b
    BY <1>2
  <2> HIDE DEF a
  <2>3. b = Under("open", file, NoFile, <<>>, NoObject)
    BY <2>1, SetsFile
  <2> QED BY <2>2, <2>3
<1>5. /\ adding'.at = "open" /\ adding'.file = file /\ adding'.data = NoFile
      /\ adding'.leaves = <<>> /\ adding'.obj = NoObject
  BY <1>4, FieldsAre
<1>6. AddingFields'
  BY <1>4, <1>5 DEF AddingFields
<1>7. AddingHolds'
  BY <1>2, <1>5 DEF AddingHolds
<1>8. Counts'
  <2>1. CASE file = NoFile
    <3>1. opened' = FALSE /\ opened = FALSE
      BY <1>2, <1>3, <2>1 DEF Counts
    <3> QED BY <1>1, <1>3, <3>1 DEF Counts, Slot
  <2>2. CASE file # NoFile
    <3>1. opened' = TRUE /\ Slot = 0 /\ Slot' = 1
      BY <1>2, <1>3, <2>2 DEF Slot
    <3>2. Free
      BY <1>2, <2>2
    <3>3. OwnFds + conns + leaked + Slot < Fds
      BY <3>2, Zenon DEF Free, Slot
    <3>4. conns \in Int /\ leaked \in Int
      BY <1>3 DEF Counts
    <3>5. OwnFds + conns + leaked + 1 <= Fds
      BY <3>1, <3>3, <3>4, AddingIs
    <3> QED BY <1>1, <1>3, <3>1, <3>5 DEF Counts
  <2> QED BY <2>1, <2>2
<1> QED BY <1>1, <1>5, <1>6, <1>7, <1>8, AddStepKeeps

LEMMA LoadKeeps ==
    ASSUME ShellInv, IsCommand("ADDPACKAGE"), UNCHANGED shellVars, Stays, AddLoad
    PROVE  ShellInv'
<1>1. /\ adding.at = "open" /\ ~LoadFails /\ packages' = packages /\ opened' = FALSE
      /\ leaked' = IF LoadOf(adding.file).end = "left open" THEN leaked + 1 ELSE leaked
      /\ conns' = conns /\ config' = config
  BY DEF AddLoad, shellVars, Stays, configVars
<1>2. adding = Under("open", adding.file, NoFile, <<>>, NoObject) /\ Counts
      /\ adding.file \in BpkgFiles \cup {NoFile} /\ (opened <=> adding.file # NoFile)
  BY <1>1, AddingIs DEF AddingHolds
<1>3. adding.file # NoFile /\ adding.file \in BpkgFiles
  BY <1>1, <1>2, NothingFails
<1>4. LoadOf(adding.file) = Load(adding.file)
  BY <1>3 DEF LoadOf
<1> DEFINE file == adding.file
           obj == Load(file).obj
<1>5. adding' = Under("loaded", file, NoFile, <<>>, obj)
  <2> DEFINE a == [adding EXCEPT !.at = "loaded"]
             b == [a EXCEPT !.obj = obj]
  <2>1. adding' = b
    BY <1>4 DEF AddLoad
  <2> HIDE DEF file, obj
  <2>2. a = Under("loaded", file, NoFile, <<>>, NoObject)
    <3>1. adding = Under("open", file, NoFile, <<>>, NoObject)
      BY <1>2 DEF file
    <3> QED BY <3>1, SetsAt
  <2> HIDE DEF a
  <2>3. b = Under("loaded", file, NoFile, <<>>, obj)
    BY <2>2, SetsObj
  <2> QED BY <2>1, <2>3
<1>6. /\ adding'.at = "loaded" /\ adding'.file = file /\ adding'.data = NoFile
      /\ adding'.leaves = <<>> /\ adding'.obj = obj
  <2> HIDE DEF file, obj
  <2> QED BY <1>5, FieldsAre
<1>7. AddingFields'
  BY <1>5, <1>6 DEF AddingFields
<1>8. ~LoadFails'
  BY <1>1, <1>6 DEF LoadFails
<1>9. AddingHolds'
  <2> HIDE DEF obj
  <2>1. adding'.obj = Load(adding'.file).obj /\ adding'.file \in BpkgFiles
    BY <1>3, <1>6 DEF obj
  <2> HIDE DEF file
  <2> QED BY <1>6, <1>8, <2>1 DEF AddingHolds
<1>10. Counts'
  <2>1. opened = TRUE /\ Slot = 1 /\ Slot' = 0
    BY <1>1, <1>2, <1>3 DEF Slot, Counts
  <2>2. leaked \in Nat /\ leaked' \in Nat /\ conns \in Nat /\ leaked' <= leaked + 1
    <3>1. leaked \in Nat /\ conns \in Nat
      BY <1>2 DEF Counts
    <3>2. leaked' = leaked + 1 \/ leaked' = leaked
      BY <1>1, Zenon
    <3> QED BY <3>1, <3>2
  <2>3. OwnFds + conns + leaked + 1 <= Fds
    BY <1>2, <2>1 DEF Counts
  <2>4. OwnFds + conns + leaked' + 0 <= Fds
    BY <2>2, <2>3, AddingIs
  <2> QED BY <1>1, <1>2, <2>1, <2>2, <2>4 DEF Counts
<1> QED BY <1>1, <1>6, <1>7, <1>9, <1>10, AddStepKeeps

LEMMA ReadDataKeeps ==
    ASSUME ShellInv, IsCommand("ADDPACKAGE"), UNCHANGED shellVars, Stays, AddRead(Free)
    PROVE  ShellInv'
<1> DEFINE file == adding.file
           obj == adding.obj
<1>1. /\ adding.at = "loaded" /\ packages' = packages /\ opened' = opened
      /\ conns' = conns /\ config' = config
  BY DEF AddRead, shellVars, Stays, configVars
<1>2. /\ adding = Under("loaded", file, NoFile, <<>>, obj)
      /\ Counts /\ ~opened
      /\ file \in BpkgFiles /\ ~LoadFails /\ obj = Load(file).obj
  BY <1>1, AddingIs DEF AddingHolds, ShellTypes
<1> HIDE DEF file, obj
<1>3. SUFFICES ASSUME NEW d, NEW s,
                      adding' = Under("read", file, d, s, obj),
                      d # NoFile => ~TreeCrashes(obj) /\ Singles(s, obj.len_chunk),
                      leaked' \in Nat, leaked' = leaked \/ (Free /\ leaked' = leaked + 1)
               PROVE  ShellInv'
  <2>1. CASE adding' = [adding EXCEPT !.at = "read"] /\ UNCHANGED leaked
    <3>1. adding' = Under("read", file, NoFile, <<>>, obj)
      BY <1>2, <2>1, SetsAt
    <3>2. leaked' \in Nat
      BY <1>2, <2>1 DEF Counts
    <3> QED BY <1>3, <2>1, <3>1, <3>2
  <2>2. ASSUME NEW data \in DataFiles, NEW buffer \in Contents, Free, ~TreeCrashes(obj),
               leaked' = leaked + 1,
               adding' = [adding EXCEPT !.at = "read", !.data = data,
                    !.leaves = [i \in 1..obj.len_chunk |-> <<IF i <= Len(data) THEN data[i] ELSE buffer>>]]
        PROVE  ShellInv'
    <3> DEFINE leaf(i) == IF i <= Len(data) THEN data[i] ELSE buffer
               n == obj.len_chunk
               s == [i \in 1..n |-> <<leaf(i)>>]
               a == [adding EXCEPT !.at = "read"]
               b == [a EXCEPT !.data = data]
               c == [b EXCEPT !.leaves = s]
    <3>1. adding' = c
      BY <2>2
    <3>2. Singles(s, n)
      <4> HIDE DEF leaf, n
      <4>1. \A i \in 1..n : s[i] = <<leaf(i)>> /\ s[i][1] = leaf(i)
        OBVIOUS
      <4> QED BY <4>1 DEF Singles
    <3> HIDE DEF s
    <3>3. a = Under("read", file, NoFile, <<>>, obj)
      BY <1>2, SetsAt
    <3> HIDE DEF a
    <3>4. b = Under("read", file, data, <<>>, obj)
      BY <3>3, SetsData
    <3> HIDE DEF b
    <3>5. c = Under("read", file, data, s, obj)
      BY <3>4, SetsLeaves
    <3>6. leaked' \in Nat
      <4>1. leaked \in Nat
        BY <1>2 DEF Counts
      <4>2. leaked' = leaked + 1
        BY <2>2, Zenon
      <4> QED BY <4>1, <4>2
    <3> QED BY <1>3, <2>2, <3>1, <3>2, <3>5, <3>6
  <2> QED BY <2>1, <2>2 DEF AddRead, obj
<1>5. /\ adding'.at = "read" /\ adding'.file = file /\ adding'.data = d
      /\ adding'.leaves = s /\ adding'.obj = obj
  BY <1>3, FieldsAre
<1>6. AddingFields'
  BY <1>3, <1>5 DEF AddingFields
<1>7. ~LoadFails'
  BY <1>2, <1>5 DEF LoadFails, file
<1>8. AddingHolds'
  BY <1>2, <1>3, <1>5, <1>7 DEF AddingHolds
<1>9. Counts'
  <2>1. opened = FALSE /\ Slot = 0 /\ Slot' = 0
    BY <1>1, <1>2 DEF Slot, Counts
  <2>2. Free <=> OwnFds + conns + leaked + Slot < Fds
    BY Zenon DEF Free, Slot
  <2>3. OwnFds + conns + leaked + Slot <= Fds /\ conns \in Nat /\ leaked \in Nat
    BY <1>2 DEF Counts
  <2>4. OwnFds + conns + leaked' + 0 <= Fds
    BY <1>3, <2>1, <2>2, <2>3, AddingIs
  <2> QED BY <1>1, <1>2, <1>3, <2>1, <2>4 DEF Counts
<1> QED BY <1>1, <1>2, <1>5, <1>6, <1>8, <1>9, AddStepKeeps

LEMMA AddKeeps == ASSUME ShellInv, Add PROVE ShellInv'
  BY FoundKeeps, OpenKeeps, LoadKeeps, ReadDataKeeps, Zenon DEF Add

\* A file that is sound loads, has a tree, and its object can be destroyed.
LEMMA SoundIs ==
    ASSUME NEW file, Sound(file)
    PROVE  /\ file # NoFile
           /\ Load(file).end # "crash"
           /\ Unset \notin {Load(file).obj.identifier, Load(file).obj.filename}
           /\ ~TreeCrashes(Load(file).obj)
           /\ ~DestroyCrashes(Load(file).obj)
<1>1. PICK p \in Made : file = Written(p) /\ Perfect(Len(p.chunks)) /\ p.hashes # <<>>
  BY DEF Sound
<1>2. /\ IsPackage(p)
      /\ p.identifier \in Texts /\ p.filename \in Texts /\ p.hashes \in Seq(Texts) /\ p.chunks \in Seq(Texts)
  BY MadeOK DEF IsPackage
<1> DEFINE o == Load(file).obj
<1>3. o = ObjectOf(p) /\ Load(file).end = "closed"
  BY <1>1, MadeLoads
<1>4. /\ o.identifier = p.identifier /\ o.filename = p.filename /\ o.hashes = p.hashes
      /\ o.len_chunk = Len(p.chunks) /\ o.chunks_hash = p.chunks
      /\ o.chunks_size = [i \in DOMAIN p.chunks |-> 1]
  BY <1>3 DEF ObjectOf
<1> HIDE DEF o
<1>5. file # NoFile
  <2>1. Written(p) \in Seq(Lines)
    BY <1>2, WrittenIs DEF Layout
  <2> QED BY <1>1, <2>1, FilesOK
<1>6. Unset \notin {o.identifier, o.filename}
  BY <1>2, <1>4, TextsOK
<1>7. Unset \notin Range(o.chunks_size)
  <2>1. \A i \in DOMAIN o.chunks_size : o.chunks_size[i] = 1
    BY <1>4
  <2>2. Unset # 1
    BY TextsOK
  <2> QED BY <2>1, <2>2 DEF Range
<1>8. o.hashes # Null /\ o.chunks_hash # Null
  <2>1. \A s \in Seq(Texts) : s \in Seq(Texts \cup {Unset, Freed})
    OBVIOUS
  <2>2. Null \notin Seq(Texts \cup {Unset, Freed})
    BY TextsOK
  <2> QED BY <1>2, <1>4, <2>1, <2>2
<1>9. Freed \notin Range(o.hashes) /\ o.hashes[1] # Freed
  <2>1. Freed \notin Texts
    BY TextsOK
  <2>2. \A i \in DOMAIN o.hashes : o.hashes[i] \in Texts
    BY <1>2, <1>4
  <2>3. 1 \in DOMAIN o.hashes
    BY <1>1, <1>2, <1>4
  <2> QED BY <2>1, <2>2, <2>3 DEF Range
<1>10. ~TreeCrashes(o)
  <2>1. HasRootHash(o)
    BY <1>1, <1>4, <1>8, <1>9 DEF HasRootHash
  <2> QED BY <1>1, <1>4, <1>7, <2>1 DEF TreeCrashes
<1>11. ~DestroyCrashes(o)
  BY <1>7, <1>8, <1>9 DEF DestroyCrashes
<1> QED BY <1>3, <1>5, <1>6, <1>10, <1>11 DEF o

\* ADDPACKAGE ends btide only of a file that is not sound.
LEMMA AddCrashKeeps == ASSUME ShellInv, AddCrash PROVE ShellInv'
<1>1. boot = "up" /\ eof = FALSE /\ at = "handle" /\ line.word = "ADDPACKAGE"
  BY CommandIs DEF AddCrash, TakesArguments
<1>2. Crash /\ UNCHANGED packagesVars
  BY DEF AddCrash, AddLoadCrash, AddReadCrash, AddStoreCrash
<1>3. ASSUME Sound(adding.file) PROVE FALSE
  <2> DEFINE file == adding.file
  <2>1. /\ file # NoFile
        /\ Load(file).end # "crash"
        /\ Unset \notin {Load(file).obj.identifier, Load(file).obj.filename}
        /\ ~TreeCrashes(Load(file).obj)
        /\ ~DestroyCrashes(Load(file).obj)
    BY <1>3, SoundIs
  <2>2. adding.at \in {"loaded", "read"} => adding.obj = Load(file).obj
    BY AddingIs DEF AddingHolds
  <2> HIDE DEF file
  <2>3. CASE AddLoadCrash
    <3>1. LoadOf(adding.file) = Load(file)
      BY <2>1 DEF LoadOf, file
    <3> QED BY <2>1, <2>3, <3>1 DEF AddLoadCrash, LoadFails
  <2>4. CASE AddReadCrash(Free)
    BY <2>1, <2>2, <2>4 DEF AddReadCrash
  <2>5. CASE AddStoreCrash
    BY <2>1, <2>2, <2>5 DEF AddStoreCrash
  <2> QED BY <2>3, <2>4, <2>5 DEF AddCrash
<1> QED BY <1>1, <1>2, <1>3, CrashKeeps

\* A package that has been read has an identifier of one of the files.
LEMMA ReadIs ==
    ASSUME ShellInv, adding.at = "read"
    PROVE  adding.obj.identifier \in Identifiers
<1>1. adding.file \in BpkgFiles /\ ~LoadFails /\ adding.obj = Load(adding.file).obj
  BY AddingIs DEF AddingHolds
<1>2. adding.file \in Seq(Lines) /\ adding.file # NoFile
  BY <1>1, FilesOK
<1>3. adding.obj.identifier # Unset
  BY <1>1, <1>2 DEF LoadFails, LoadOf
<1>4. adding.file # <<>> /\ adding.obj.identifier = adding.file[1].text
  BY <1>1, <1>2, <1>3, LoadOfAny
<1> QED BY <1>1, <1>4 DEF Identifiers

\* One package of the registry.
Package == [identifier : Identifiers, status : {0, 1}]

LEMMA AddedIs ==
    ASSUME ShellInv, AddStore
    PROVE  /\ packages' = Append(packages, [identifier |-> adding.obj.identifier, status |-> Status])
           /\ packages \in Seq(Package) /\ packages' \in Seq(Package) /\ Len(packages') = Len(packages) + 1
           /\ Len(packages) < MaxPackages
           /\ adding.obj.identifier \in Identifiers /\ Status \in {0, 1}
           /\ adding.at = "read"
<1>1. adding.at = "read" /\ packages \in Seq(Package)
  BY AddingIs DEF AddStore, Listed, Package
<1>2. adding.obj.identifier \in Identifiers /\ Status \in {0, 1}
  BY <1>1, ReadIs DEF Status
<1> DEFINE e == [identifier |-> adding.obj.identifier, status |-> Status]
<1>3. e \in Package
  BY <1>2 DEF Package
<1>4. packages' = Append(packages, e)
  BY DEF AddStore
<1> HIDE DEF e
<1>5. packages' \in Seq(Package) /\ Len(packages') = Len(packages) + 1
  BY <1>1, <1>3, <1>4
<1>6. Len(packages) < MaxPackages
  BY <1>1, RunningIs DEF AddingLine
<1> QED BY <1>1, <1>2, <1>4, <1>5, <1>6 DEF e

LEMMA AddedKeeps == ASSUME ShellInv, Added PROVE ShellInv'
<1>1. boot = "up" /\ eof = FALSE /\ at = "handle" /\ line.word # "QUIT"
  BY CommandIs DEF Added, TakesArguments
<1>2. /\ at' = "prompt" /\ line' \in Buffers /\ eof' \in BOOLEAN /\ UNCHANGED configVars /\ Harmless'
      /\ waiting' = waiting /\ conns' = conns
  BY <1>1, DoneIs DEF Added
<1>3. /\ adding' = NotAdding /\ opened' = opened /\ leaked' = leaked /\ adding.at = "read"
  BY DEF Added, AddStore
<1>4. adding' = Under("none", NoFile, NoFile, <<>>, NoObject)
  BY <1>3 DEF NotAdding, Under
<1>5. /\ adding'.at = "none" /\ adding'.file = NoFile /\ adding'.data = NoFile
      /\ adding'.leaves = <<>> /\ adding'.obj = NoObject
  BY <1>4, FieldsAre
<1>6. AddingFields' /\ AddingHolds'
  BY <1>4, <1>5 DEF AddingFields, AddingHolds
<1>7. AddingLine'
  BY <1>2, <1>5 DEF AddingLine
<1>8. packages' \in Seq(Package) /\ Len(packages') <= MaxPackages
  <2>1. packages \in Seq(Package) /\ packages' \in Seq(Package)
        /\ Len(packages') = Len(packages) + 1 /\ Len(packages) < MaxPackages
    BY AddedIs DEF Added
  <2>2. Len(packages) \in Nat
    BY <2>1
  <2> QED BY <2>1, <2>2, MaxPackagesOK
<1>9. Listed'
  BY <1>8 DEF Listed, Package
<1>10. Counts' /\ ~opened'
  <2>1. config' = config /\ ~opened /\ Counts
    BY <1>2, <1>3, AddingIs DEF configVars, ShellTypes
  <2> QED BY <1>2, <1>3, <2>1 DEF Counts, Slot
<1>11. ShellTypes'
  <2>1. waiting' \in BOOLEAN
    BY <1>2, RunningIs
  <2> QED BY <1>2, <1>5, <1>8, <1>10, <2>1 DEF ShellTypes
<1> QED BY <1>1, <1>2, <1>6, <1>7, <1>9, <1>10, <1>11, RunningKeeps

-----------------------------------------------------------------------------
(* REMPACKAGE.                                                             *)

\* The loop that looks for the package finds the first one.
LEMMA FirstOfIs ==
    ASSUME NEW ident, packages \in Seq(Package), Has(ident)
    PROVE  /\ FirstOf(ident) \in DOMAIN packages
           /\ packages[FirstOf(ident)].identifier = ident
           /\ \A j \in 1..(FirstOf(ident) - 1) : packages[j].identifier # ident
<1> DEFINE T == {i \in DOMAIN packages : packages[i].identifier = ident}
<1>1. DOMAIN packages = 1..Len(packages) /\ Len(packages) \in Nat
  OBVIOUS
<1>2. T \in SUBSET Nat /\ T # {}
  BY <1>1 DEF Has
<1>3. PICK x \in T : \A y \in T : x <= y
  <2> HIDE DEF T
  <2> QED BY <1>2, LeastElement
<1>4. \A j \in 1..(x - 1) : packages[j].identifier # ident
  <2> TAKE j \in 1..(x - 1)
  <2>1. j \in DOMAIN packages /\ j < x
    BY <1>1, <1>3
  <2> QED BY <1>3, <2>1
<1> QED BY <1>3, <1>4 DEF FirstOf

\* What the loop that moves the entries down leaves is the sequence without the entry.
LEMMA ShiftedIs ==
    ASSUME packages \in Seq(Package), NEW i \in DOMAIN packages
    PROVE  /\ Shifted(i) = RemoveAt(packages, i)
           /\ Shifted(i) \in Seq(Package) /\ Len(Shifted(i)) = Len(packages) - 1
<1> DEFINE s == packages
           n == Len(packages)
           e(k) == IF k < i THEN s[k] ELSE s[k + 1]
<1>1. n \in Nat /\ i \in 1..n /\ \A k \in 1..n : s[k] \in Package
  OBVIOUS
<1>2. /\ SubSeq(s, 1, i - 1) \in Seq(Package) /\ Len(SubSeq(s, 1, i - 1)) = i - 1
      /\ \A k \in 1..(i - 1) : SubSeq(s, 1, i - 1)[k] = s[k]
  <2>1. \A k \in 1..(i - 1) : s[k] \in Package
    BY <1>1
  <2>2. i - 1 \in Int /\ 1 \in Int
    BY <1>1
  <2>3. /\ SubSeq(s, 1, i - 1) \in Seq(Package)
        /\ Len(SubSeq(s, 1, i - 1)) = IF 1 <= i - 1 THEN i - 1 - 1 + 1 ELSE 0
        /\ \A k \in 1..(i - 1 - 1 + 1) : SubSeq(s, 1, i - 1)[k] = s[1 + k - 1]
    BY <2>1, <2>2, SubSeqProperties
  <2> QED BY <1>1, <2>3
<1>3. /\ From(s, i + 1) \in Seq(Package) /\ Len(From(s, i + 1)) = n - i
      /\ \A k \in 1..(n - i) : From(s, i + 1)[k] = s[i + k]
  <2> DEFINE m == i + 1
  <2>1. m \in 1..(Len(s) + 1)
    BY <1>1
  <2> HIDE DEF m
  <2>2. /\ From(s, m) \in Seq(Package)
        /\ Len(From(s, m)) = Len(s) + 1 - m
        /\ \A k \in 1..(Len(s) + 1 - m) : From(s, m)[k] = s[m + k - 1]
    BY <2>1, FromIs
  <2> QED BY <1>1, <2>2 DEF m
<1> DEFINE a == SubSeq(s, 1, i - 1)
           b == From(s, i + 1)
<1>4. RemoveAt(packages, i) = a \o b
  BY DEF RemoveAt, From
<1>5. /\ a \in Seq(Package) /\ b \in Seq(Package) /\ Len(a) = i - 1 /\ Len(b) = n - i
      /\ \A k \in 1..(i - 1) : a[k] = s[k]
      /\ \A k \in 1..(n - i) : b[k] = s[i + k]
  BY <1>2, <1>3
<1> HIDE DEF a, b
<1>6. /\ a \o b \in Seq(Package) /\ Len(a \o b) = Len(a) + Len(b)
      /\ \A k \in 1..Len(a) : (a \o b)[k] = a[k]
      /\ \A k \in 1..Len(b) : (a \o b)[Len(a) + k] = b[k]
  <2>1. a \in Seq(Package) /\ b \in Seq(Package)
    BY <1>5
  <2> QED BY <2>1, ConcatIs
<1>7. /\ Shifted(i) \in Seq(Package) /\ Len(Shifted(i)) = n - 1
      /\ \A k \in 1..(n - 1) : Shifted(i)[k] = e(k)
  <2>1. Shifted(i) = [k \in 1..(n - 1) |-> e(k)]
    BY DEF Shifted
  <2>2. \A k \in 1..(n - 1) : e(k) \in Package
    BY <1>1
  <2>3. n - 1 \in Nat
    BY <1>1
  <2> HIDE DEF e, n
  <2> QED BY <2>1, <2>2, <2>3
<1>8. \A k \in 1..(n - 1) : Shifted(i)[k] = (a \o b)[k]
  <2> TAKE k \in 1..(n - 1)
  <2>1. CASE k < i
    <3>1. k \in 1..Len(a) /\ k \in 1..(i - 1)
      BY <1>1, <1>5, <2>1
    <3> QED BY <1>5, <1>6, <1>7, <2>1, <3>1
  <2>2. CASE ~(k < i)
    <3>1. k - Len(a) \in 1..Len(b) /\ Len(a) + (k - Len(a)) = k /\ i + (k - Len(a)) = k + 1
          /\ k - Len(a) \in 1..(n - i)
      BY <1>1, <1>5, <2>2
    <3>2. (a \o b)[k] = b[k - Len(a)]
      BY <1>6, <3>1
    <3>3. b[k - Len(a)] = s[k + 1]
      BY <1>5, <3>1
    <3> QED BY <1>7, <2>2, <3>2, <3>3
  <2> QED BY <2>1, <2>2
<1>9. Len(a \o b) = n - 1
  <2>1. Len(a \o b) = (i - 1) + (n - i)
    BY <1>5, <1>6
  <2> HIDE DEF n
  <2> QED BY <1>1, <2>1
<1>10. Shifted(i) = a \o b
  BY <1>6, <1>7, <1>8, <1>9, SeqEqual
<1> QED BY <1>4, <1>7, <1>10

LEMMA RemPackageKeeps == ASSUME ShellInv, RemPackage PROVE ShellInv'
<1>1. boot = "up" /\ at = "handle" /\ line.word # "QUIT" /\ adding.at = "none"
  BY CommandIs DEF RemPackage, TakesArguments
<1>2. /\ at' = "prompt" /\ line' \in Buffers /\ eof' \in BOOLEAN /\ UNCHANGED configVars /\ Harmless'
      /\ waiting' = waiting /\ conns' = conns
  BY <1>1, DoneIs DEF RemPackage
<1>3. adding' = adding /\ opened' = opened /\ leaked' = leaked
  BY DEF RemPackage, RemovePackage
<1>4. packages \in Seq(Package) /\ Len(packages) \in Nat /\ Len(packages) <= MaxPackages
  BY AddingIs DEF Listed, Package, ShellTypes
<1>5. packages' \in Seq(Package) /\ Len(packages') <= MaxPackages
  <2>1. CASE Has(line.arg)
    <3>1. packages' = Shifted(FirstOf(line.arg))
      BY <2>1 DEF RemPackage, RemovePackage
    <3>2. FirstOf(line.arg) \in DOMAIN packages
      BY <1>4, <2>1, FirstOfIs
    <3>3. packages' \in Seq(Package) /\ Len(packages') = Len(packages) - 1
      BY <1>4, <3>1, <3>2, ShiftedIs
    <3> QED BY <1>4, <3>3, MaxPackagesOK
  <2>2. CASE ~Has(line.arg)
    <3>1. packages' = packages
      BY <2>2 DEF RemPackage, RemovePackage
    <3> QED BY <1>4, <3>1
  <2> QED BY <2>1, <2>2
<1>6. LoadFails' = LoadFails
  BY <1>3 DEF LoadFails
<1>7. AddingFields' /\ AddingHolds'
  BY <1>3, <1>6, AddingIs DEF AddingFields, AddingHolds, ShellInv
<1>8. AddingLine'
  BY <1>1, <1>2, <1>3 DEF AddingLine
<1>9. Counts'
  <2>1. config' = config /\ Counts
    BY <1>2, AddingIs DEF configVars
  <2> QED BY <1>2, <1>3, <2>1 DEF Counts, Slot
<1>10. ShellTypes' /\ Listed'
  <2>1. waiting' \in BOOLEAN
    BY <1>2, RunningIs
  <2> QED BY <1>2, <1>3, <1>5, <2>1, AddingIs DEF ShellTypes, Listed, Package
<1> QED BY <1>1, <1>2, <1>7, <1>8, <1>9, <1>10, RunningKeeps

-----------------------------------------------------------------------------
(* The invariant holds, and with it what the runs check.                   *)

LEMMA NextKeeps == ShellInv /\ [Next]_vars => ShellInv'
<1> SUFFICES ASSUME ShellInv, [Next]_vars PROVE ShellInv'
  OBVIOUS
<1>1. CASE UNCHANGED vars
  <2>1. UNCHANGED configVars /\ UNCHANGED packagesVars /\ UNCHANGED shellVars
    BY <1>1 DEF vars
  <2>2. ConfigInv'
    BY <2>1, ConfigStays DEF ShellInv
  <2>3. /\ packages' = packages /\ adding' = adding /\ opened' = opened /\ leaked' = leaked
        /\ Slot' = Slot /\ Listed' /\ AddingFields' /\ AddingHolds'
    BY <2>1, PackagesStay DEF ShellInv
  <2>4. boot' = boot /\ config' = config
        /\ line' = line /\ at' = at /\ eof' = eof /\ conns' = conns /\ waiting' = waiting
    BY <2>1 DEF configVars, shellVars
  <2>5. ShellTypes' /\ Counts' /\ AddingLine' /\ InputEnds'
    BY <2>3, <2>4 DEF ShellInv, ShellTypes, Counts, AddingLine, InputEnds, Harmless
  <2>6. Idle' /\ SoundSessionsSurvive'
    BY <2>3, <2>4 DEF ShellInv, Idle, Forgotten, SoundSessionsSurvive, Sound
  <2> QED BY <2>2, <2>3, <2>5, <2>6 DEF ShellInv
<1>2. CASE Next
  BY <1>2, BootingKeeps, ReadCommandKeeps, EndOfInputKeeps, PrintOrInvalidKeeps, QuitKeeps,
     MissingPeerKeeps, ConnectKeeps, DisconnectKeeps, DisconnectKilledKeeps,
     NothingToAddKeeps, AddKeeps, AddedKeeps, AddCrashKeeps, RemPackageKeeps, RemPackageCrashKeeps,
     RemoteConnectKeeps, AcceptKeeps, MonitorRemoveKeeps, Zenon DEF Next
<1> QED BY <1>1, <1>2

LEMMA ShellInvariant == Spec => []ShellInv
  BY InitInv, NextKeeps, PTL DEF Spec

\* Every variable of btide keeps to its range: the peers to max_peers, the
\* descriptors to the limit, add_package to the line that it serves.
THEOREM TypeCorrect == Spec => []TypeOK
<1>1. ShellInv => TypeOK
  <2> SUFFICES ASSUME ShellInv PROVE TypeOK
    OBVIOUS
  <2>1. ConfigTypeOK
    BY DEF ShellInv, ConfigInv
  <2>2. \A i \in DOMAIN packages : packages[i].status \in {0, 1}
    <3>1. packages \in Seq(Package)
      BY AddingIs DEF Listed, Package
    <3>2. \A i \in DOMAIN packages : packages[i] \in Package
      BY <3>1
    <3> QED BY <3>2 DEF Package
  <2>3. PackagesTypeOK
    BY <2>2, AddingIs DEF PackagesTypeOK, ShellTypes, Counts
  <2>4. conns = 0 \/ conns \in 1..config.max_peers
    BY RunningIs
  <2>5. OwnFds + conns + leaked + (IF opened THEN 1 ELSE 0) <= Fds
    BY AddingIs, Zenon DEF Counts, Slot
  <2>6. adding.at # "none" => line.word = "ADDPACKAGE"
    BY RunningIs DEF AddingLine
  <2>7. line \in Buffers /\ at \in {"prompt", "handle"} /\ eof \in BOOLEAN /\ waiting \in BOOLEAN
    BY RunningIs
  <2> QED BY <2>1, <2>3, <2>4, <2>5, <2>6, <2>7, Zenon DEF TypeOK, Buffers
<1> QED BY <1>1, ShellInvariant, PTL

\* What btide serves is what the whole configuration says: its last max_peers, and
\* its last port if that is one of 16 bits (config.c:35, 73-81).
THEOREM ConfigServed == Spec => []ServesItsConfig
<1>1. ShellInv => ServesItsConfig
  BY ServesIt DEF ShellInv
<1> QED BY <1>1, ShellInvariant, PTL

\* No two starts in a row are refused because stat was not called again.
THEOREM RefusedAtMostOnce == Spec => []RefusedOnce
<1>1. ShellInv => RefusedOnce
  BY DEF ShellInv, ConfigInv
<1> QED BY <1>1, ShellInvariant, PTL

\* The object of a well-formed file is the package, of any number of hashes and chunks.
THEOREM PackagesLoad == Spec => []LoadedAsWritten
<1>1. ShellInv => LoadedAsWritten
  <2> SUFFICES ASSUME ShellInv, adding.at \in {"loaded", "read"}, NEW p \in Made, adding.file = Written(p)
               PROVE  adding.obj = ObjectOf(p)
    BY DEF LoadedAsWritten
  <2>1. adding.obj = Load(adding.file).obj
    BY AddingIs DEF AddingHolds
  <2> QED BY <2>1, MadeLoads
<1> QED BY <1>1, ShellInvariant, PTL

\* No file makes bpkg_load return chunks without hashes.
THEOREM ChunksHaveHashes == Spec => []ChunksImplyHashes
<1>1. ShellInv => ChunksImplyHashes
  <2> SUFFICES ASSUME ShellInv PROVE ChunksImplyHashes
    OBVIOUS
  <2>1. CASE adding.at \in {"loaded", "read"}
    <3>1. adding.file \in Seq(Lines) /\ adding.obj = Load(adding.file).obj
      BY <2>1, AddingIs, FilesOK DEF AddingHolds
    <3> QED BY <3>1, LoadOfAny DEF ChunksImplyHashes
  <2>2. CASE adding.at \in {"none", "found", "open"}
    <3>1. adding.obj = NoObject
      BY <2>2, AddingIs DEF AddingHolds
    <3> QED BY <3>1 DEF ChunksImplyHashes, NoObject
  <2> QED BY <2>1, <2>2, AddingIs DEF ShellTypes
<1> QED BY <1>1, ShellInvariant, PTL

\* Nothing but the three commands ends btide before its time, in any order of commands.
THEOREM SessionsSurvive == Spec => []SoundSessionsSurvive
<1>1. ShellInv => SoundSessionsSurvive
  BY DEF ShellInv
<1> QED BY <1>1, ShellInvariant, PTL

-----------------------------------------------------------------------------
(* What a step may never do.                                               *)

\* At the end of the input the command loop runs on, and nothing is added, removed,
\* opened or ended by the line that is left in its buffer.
THEOREM EndIsQuiet == Spec => EofChangesNothing
<1>1. ShellInv /\ [Next]_vars => [eof => UNCHANGED <<packages, leaked, boot>>]_vars
  <2> SUFFICES ASSUME ShellInv, Next, eof PROVE UNCHANGED <<packages, leaked, boot>>
    BY DEF vars
  <2>1. boot = "up" /\ Harmless
    BY RunningIs DEF InputEnds
  <2>2. \A word \in TakesArguments : ~IsCommand(word)
    BY CommandIs
  <2>3. "CONNECT" \in TakesArguments /\ "DISCONNECT" \in TakesArguments
        /\ "ADDPACKAGE" \in TakesArguments /\ "REMPACKAGE" \in TakesArguments
    BY DEF TakesArguments
  <2>4. ~Booting
    BY <2>1 DEF Booting, Boot, Start, StartWithout, DiskChanges, ReadLine, Reading, BadLine, LastLine,
         DirectoryThere, DirectoryMade, DirectoryRefused, OutOfLimits, MakeServer
  <2>5. ~ReadCommand /\ ~Quit
    BY <2>1 DEF ReadCommand, Quit, Harmless
  <2>6. ~MissingPeer /\ ~Connect /\ ~Disconnect /\ ~DisconnectKilled
    BY <2>2, <2>3 DEF MissingPeer, Connect, Disconnect, DisconnectKilled
  <2>7. ~NothingToAdd /\ ~Add /\ ~Added /\ ~AddCrash /\ ~RemPackage /\ ~RemPackageCrash
    BY <2>2, <2>3 DEF NothingToAdd, Add, Added, AddCrash, RemPackage, RemPackageCrash
  <2>8. EndOfInput \/ PrintOrInvalid \/ RemoteConnect \/ Accept \/ MonitorRemove
    BY <2>4, <2>5, <2>6, <2>7, Zenon DEF Next
  <2> QED BY <2>8 DEF EndOfInput, PrintOrInvalid, RemoteConnect, Accept, MonitorRemove, Done, Stays, configVars, packagesVars
<1> QED BY <1>1, ShellInvariant, PTL DEF Spec, EofChangesNothing

\* What a step may do to the registry.
LEMMA RegistryStep ==
    ASSUME ShellInv, [Next]_vars
    PROVE  \/ packages' = packages
           \/ packages' = <<>>
           \/ AddStore
           \/ RemovePackage(line.arg)
<1>1. CASE UNCHANGED vars
  BY <1>1 DEF vars, packagesVars
<1>2. CASE Booting \/ Quit
  BY <1>2 DEF Booting, Quit, ForgetPackages, packagesVars
<1>3. CASE Added \/ RemPackage
  BY <1>3 DEF Added, RemPackage
<1>4. CASE ReadCommand \/ EndOfInput \/ PrintOrInvalid \/ MissingPeer \/ Connect \/ Disconnect \/ DisconnectKilled
  BY <1>4 DEF ReadCommand, EndOfInput, PrintOrInvalid, MissingPeer, Connect, Disconnect, DisconnectKilled, packagesVars
<1>5. CASE NothingToAdd \/ RemPackageCrash \/ RemoteConnect \/ Accept \/ MonitorRemove
  BY <1>5 DEF NothingToAdd, RemPackageCrash, RemoteConnect, Accept, MonitorRemove, packagesVars
<1>6. CASE Add
  BY <1>6, Zenon DEF Add, AddFound, AddOpen, AddLoad, AddRead
<1>7. CASE AddCrash
  BY <1>7 DEF AddCrash, AddLoadCrash, AddReadCrash, AddStoreCrash, packagesVars
<1> QED BY <1>1, <1>2, <1>3, <1>4, <1>5, <1>6, <1>7, Zenon DEF Next

LEMMA RegistryRefined == ShellInv /\ [Next]_vars => [R!Next]_packages
<1> SUFFICES ASSUME ShellInv, [Next]_vars, packages' # packages PROVE R!Next
  OBVIOUS
<1>1. CASE packages' = <<>>
  BY <1>1 DEF R!Next, R!Forget
<1>2. CASE AddStore
  <2>1. /\ packages' = Append(packages, [identifier |-> adding.obj.identifier, status |-> Status])
        /\ Len(packages) < MaxPackages /\ adding.obj.identifier \in Identifiers /\ Status \in {0, 1}
    BY <1>2, AddedIs
  <2> DEFINE ident == adding.obj.identifier
             status == Status
  <2>2. packages' = Append(packages, [identifier |-> ident, status |-> status])
        /\ Len(packages) < MaxPackages /\ ident \in Identifiers /\ status \in {0, 1}
    BY <2>1
  <2> HIDE DEF ident, status
  <2>3. R!Add(ident, status)
    BY <2>2 DEF R!Add
  <2> QED BY <2>2, <2>3 DEF R!Next
<1>3. CASE RemovePackage(line.arg)
  <2> DEFINE ident == line.arg
             i == FirstOf(ident)
  <2>1. packages \in Seq(Package) /\ Has(ident) /\ packages' = Shifted(i)
    BY <1>3, AddingIs DEF RemovePackage, Listed, Package
  <2>2. /\ i \in DOMAIN packages /\ packages[i].identifier = ident
        /\ \A j \in 1..(i - 1) : packages[j].identifier # ident
    BY <2>1, FirstOfIs
  <2> HIDE DEF i
  <2>3. packages' = R!RemoveAt(packages, i)
    <3>1. packages' = RemoveAt(packages, i)
      BY <2>1, <2>2, ShiftedIs
    <3> QED BY <3>1 DEF RemoveAt, R!RemoveAt
  <2>4. ident \in Identifiers
    <3>1. packages[i] \in Package
      BY <2>1, <2>2
    <3> QED BY <2>2, <3>1 DEF Package
  <2> HIDE DEF ident
  <2>5. R!Take(ident)
    BY <2>2, <2>3 DEF R!Take
  <2> QED BY <2>4, <2>5 DEF R!Next
<1> QED BY <1>1, <1>2, <1>3, RegistryStep

\* The array of packages is the list that Registry promises: packages join at the end,
\* the oldest of an identifier leaves, and what is listed of the others never changes.
THEOREM ArrayIsTheList == Spec => ImplementsRegistry
<1>1. Init => R!Init
  BY DEF Init, PackagesInit, R!Init
<1> QED BY <1>1, RegistryRefined, ShellInvariant, PTL DEF Spec, ImplementsRegistry, R!Spec

-----------------------------------------------------------------------------
(* Completeness.                                                           *)

\* Two lists of n different contents of which n pairs are equal have the same contents.
LEMMA AllMatched ==
    ASSUME NEW n \in Nat, NEW c, NEW l, DOMAIN c = 1..n, DOMAIN l = 1..n,
           IsInjective(c), IsInjective(l),
           Cardinality({ij \in (1..n) \X (1..n) : c[ij[1]] = l[ij[2]]}) = n
    PROVE  Range(l) = Range(c)
<1> DEFINE M == {ij \in (1..n) \X (1..n) : c[ij[1]] = l[ij[2]]}
           f == [ij \in M |-> ij[1]]
           g == [ij \in M |-> ij[2]]
<1>1. IsFiniteSet(1..n) /\ Cardinality(1..n) = n
  <2>1. IsFiniteSet(1..n) /\ Cardinality(1..n) = IF 1 > n THEN 0 ELSE n - 1 + 1
    BY FS_Interval
  <2> QED BY <2>1
<1>2. \A x \in M : x \in (1..n) \X (1..n) /\ x = <<x[1], x[2]>> /\ x[1] \in 1..n /\ x[2] \in 1..n /\ c[x[1]] = l[x[2]]
  OBVIOUS
<1>3. f \in Injection(M, 1..n)
  <2>1. \A x, y \in M : x[1] = y[1] => x = y
    <3> SUFFICES ASSUME NEW x \in M, NEW y \in M, x[1] = y[1] PROVE x = y
      OBVIOUS
    <3>1. l[x[2]] = l[y[2]]
      BY <1>2
    <3>2. x[2] = y[2]
      BY <1>2, <3>1 DEF IsInjective
    <3> HIDE DEF M
    <3> QED BY <1>2, <3>2
  <2> HIDE DEF M
  <2>2. f \in [M -> 1..n]
    BY <1>2
  <2> QED BY <2>1, <2>2 DEF Injection, IsInjective
<1>4. g \in Injection(M, 1..n)
  <2>1. \A x, y \in M : x[2] = y[2] => x = y
    <3> SUFFICES ASSUME NEW x \in M, NEW y \in M, x[2] = y[2] PROVE x = y
      OBVIOUS
    <3>1. c[x[1]] = c[y[1]]
      BY <1>2
    <3>2. x[1] = y[1]
      BY <1>2, <3>1 DEF IsInjective
    <3> HIDE DEF M
    <3> QED BY <1>2, <3>2
  <2> HIDE DEF M
  <2>2. g \in [M -> 1..n]
    BY <1>2
  <2> QED BY <2>1, <2>2 DEF Injection, IsInjective
<1>5. Cardinality(M) = Cardinality(1..n)
  BY <1>1
<1> HIDE DEF M, f, g
<1>6. f \in Surjection(M, 1..n) /\ g \in Surjection(M, 1..n)
  BY <1>1, <1>3, <1>4, <1>5, FS_Injection
<1>7. \A i \in 1..n : \E x \in M : x[1] = i
  BY <1>6 DEF Surjection, f
<1>8. \A j \in 1..n : \E x \in M : x[2] = j
  BY <1>6 DEF Surjection, g
<1>9. \A i \in 1..n : \E j \in 1..n : c[i] = l[j]
  BY <1>2, <1>7
<1>10. \A j \in 1..n : \E i \in 1..n : c[i] = l[j]
  BY <1>2, <1>8
<1>11. Range(c) = {c[i] : i \in 1..n} /\ Range(l) = {l[j] : j \in 1..n}
  BY DEF Range
<1> QED BY <1>9, <1>10, <1>11

\* A package that is listed as complete, and one that is not.
THEOREM CompleteMeansRead == Spec => CompletedMeansComplete
<1> DEFINE Listing ==
        Len(packages') > Len(packages) /\ WellFormed(adding.file) =>
          LET complete == Last(packages').status = 1
              chunks == adding.obj.chunks_hash
          IN  /\ adding.data # NoFile /\ adding.leaves = chunks => complete
              /\ complete /\ IsInjective(chunks) /\ IsInjective(adding.leaves)
                    => adding.data # NoFile /\ Range(adding.leaves) = Range(chunks)
<1>1. ASSUME ShellInv, [Next]_vars, Len(packages') > Len(packages), WellFormed(adding.file)
      PROVE  Listing
  <2>1. AddStore
    <3>1. packages \in Seq(Package) /\ Len(packages) \in Nat
      BY <1>1, AddingIs DEF Listed, Package
    <3>2. CASE packages' = packages
      BY <1>1, <3>1, <3>2
    <3>3. CASE packages' = <<>>
      BY <1>1, <3>1, <3>3
    <3>4. CASE RemovePackage(line.arg)
      <4>1. CASE Has(line.arg)
        <5>1. Len(packages') = Len(packages) - 1
          BY <3>1, <3>4, <4>1, FirstOfIs, ShiftedIs DEF RemovePackage
        <5> QED BY <1>1, <3>1, <5>1
      <4>2. CASE ~Has(line.arg)
        BY <1>1, <3>1, <3>4, <4>2 DEF RemovePackage
      <4> QED BY <4>1, <4>2
    <3> QED BY <1>1, <3>2, <3>3, <3>4, RegistryStep
  <2>2. PICK p \in Made : adding.file = Written(p)
    BY <1>1 DEF WellFormed
  <2> DEFINE obj == adding.obj
             leaves == adding.leaves
             chunks == p.chunks
             n == Len(p.chunks)
  <2>3. /\ obj = ObjectOf(p) /\ adding.at = "read"
        /\ adding.data # NoFile => ~TreeCrashes(obj) /\ Singles(leaves, obj.len_chunk)
    <3>1. adding.at = "read"
      BY <2>1 DEF AddStore
    <3>2. obj = Load(adding.file).obj
      BY <1>1, <3>1, AddingIs DEF AddingHolds
    <3>3. obj = ObjectOf(p)
      BY <2>2, <3>2, MadeLoads
    <3>4. adding.data # NoFile => ~TreeCrashes(obj) /\ Singles(leaves, obj.len_chunk)
      BY <1>1, AddingIs DEF AddingHolds
    <3> QED BY <3>1, <3>3, <3>4
  <2>4. obj.hashes = p.hashes /\ obj.len_chunk = n /\ obj.chunks_hash = chunks
    BY <2>3 DEF ObjectOf
  <2>5. /\ n \in Nat /\ n # 0 /\ Singles(chunks, n) /\ DOMAIN chunks = 1..n
        /\ Perfect(n) /\ p.hashes # <<>> => p.hashes[1] = FlattenSeq(chunks)
    <3>1. /\ p.chunks \in Seq(Texts) /\ p.chunks # <<>>
          /\ \A i \in DOMAIN p.chunks : p.chunks[i] = <<p.chunks[i][1]>>
          /\ Perfect(Len(p.chunks)) /\ p.hashes # <<>> => p.hashes[1] = FlattenSeq(p.chunks)
      BY MadeOK
    <3>2. n \in Nat /\ n # 0 /\ DOMAIN chunks = 1..n /\ chunks = [i \in 1..n |-> chunks[i]]
      BY <3>1
    <3>3. \A i \in 1..n : chunks[i] = <<chunks[i][1]>>
      BY <3>1, <3>2
    <3>4. Singles(chunks, n)
      <4> HIDE DEF chunks, n
      <4> QED BY <3>2, <3>3 DEF Singles
    <3> QED BY <3>1, <3>2, <3>4
  <2>6. adding.data # NoFile => obj.hashes[1] = FlattenSeq(chunks) /\ Singles(leaves, n)
    BY <2>3, <2>4, <2>5 DEF TreeCrashes, HasRootHash
  <2>7. Last(packages').status = Status
    <3> DEFINE e == [identifier |-> obj.identifier, status |-> Status]
    <3>1. packages' = Append(packages, e) /\ packages \in Seq(Package)
      BY <1>1, <2>1, AddedIs
    <3>2. e.status = Status
      OBVIOUS
    <3> HIDE DEF e
    <3>3. Last(packages') = e
      BY <3>1 DEF Last
    <3> QED BY <3>2, <3>3
  <2> HIDE DEF obj, leaves, chunks, n
  <2>8. Status = 1 <=> Completed = n
    BY <2>4 DEF Status, obj
  <2>9. Completed = IF adding.data = NoFile THEN 0 ELSE Matches(obj, leaves)
    BY DEF Completed, obj, leaves
  <2>10. ASSUME adding.data # NoFile, leaves = chunks
         PROVE  Status = 1
    <3>1. Matches(obj, leaves) = n
      BY <2>4, <2>6, <2>10 DEF Matches
    <3> QED BY <2>8, <2>9, <2>10, <3>1
  <2>11. ASSUME Status = 1, IsInjective(chunks), IsInjective(leaves)
         PROVE  adding.data # NoFile /\ Range(leaves) = Range(chunks)
    <3>1. adding.data # NoFile
      BY <2>5, <2>8, <2>9, <2>11
    <3>2. Matches(obj, leaves) = n
      BY <2>8, <2>9, <2>11, <3>1
    <3>3. CASE FlattenSeq(leaves) = obj.hashes[1]
      <4>1. FlattenSeq(leaves) = FlattenSeq(chunks) /\ Singles(leaves, n) /\ Singles(chunks, n) /\ n \in Nat /\ n # 0
        BY <2>5, <2>6, <3>1, <3>3
      <4>2. leaves = chunks
        BY <4>1, FlattenInjective
      <4> QED BY <3>1, <4>2
    <3>4. CASE FlattenSeq(leaves) # obj.hashes[1]
      <4>1. Cardinality({ij \in (1..n) \X (1..n) : chunks[ij[1]] = leaves[ij[2]]}) = n
        BY <2>4, <3>2, <3>4 DEF Matches
      <4>2. DOMAIN leaves = 1..n
        <5>1. Singles(leaves, n)
          BY <2>6, <3>1
        <5> QED BY <5>1 DEF Singles
      <4>3. Range(leaves) = Range(chunks)
        BY <2>5, <2>11, <4>1, <4>2, AllMatched
      <4> QED BY <3>1, <4>3
    <3> QED BY <3>3, <3>4
  <2> QED BY <2>4, <2>7, <2>10, <2>11 DEF obj, leaves
<1>2. ShellInv /\ [Next]_vars => [Listing]_packages
  BY <1>1
<1> QED BY <1>2, ShellInvariant, PTL DEF Spec, CompletedMeansComplete
=============================================================================
