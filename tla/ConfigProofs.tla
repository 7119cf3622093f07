----------------------------- MODULE ConfigProofs -----------------------------
(***************************************************************************)
(* How btide starts: what each step of a start keeps.                      *)
(***************************************************************************)
EXTENDS Config, SequenceLemmas

\* A line as ConfigFiles has them.
ConfigLine == [key : Keys \cup {"other"}, val : Int \cup {Unreadable}]

\* The keys read so far were understood, and config_obj holds the last value that
\* each of them gave; a start that came this far has read to the end, found or made
\* the directory, and passed the limits.
ReadSoFar ==
    /\ \A i \in 1..at_line : cfile[i].key \in Keys
    /\ config.max_peers = LastValue("max_peers", at_line)
    /\ config.port = LastValue("port", at_line) % PortRange

Ports == {p \in Nat : p < PortRange}
Configs == [dir : BOOLEAN, max_peers : Int, port : Ports]

ConfigInv ==
    /\ ConfigTypeOK
    /\ cfile \in Seq(ConfigLine)
    /\ config \in Configs
    /\ boot \in {"reading", "loaded", "checked", "up"} => ReadSoFar
    /\ boot \in {"loaded", "checked", "up"} => at_line = Len(cfile)
    /\ boot \in {"checked", "up"} => disk = "directory"
    /\ boot = "up" => PeersOK /\ PortOK
    /\ RefusedOnce

\* What one more line adds to the last value of a key.
LEMMA OneMoreLine ==
    ASSUME NEW key, NEW n \in Nat
    PROVE  LastValue(key, n + 1) =
              IF cfile[n + 1].key = key /\ cfile[n + 1].val # Unreadable
              THEN cfile[n + 1].val ELSE LastValue(key, n)
<1>1. CASE cfile[n + 1].key = key /\ cfile[n + 1].val # Unreadable
  <2>1. n + 1 \in Said(key, n + 1) /\ Said(key, n + 1) \in SUBSET Nat
    BY <1>1 DEF Said
  <2>2. \A y \in Said(key, n + 1) : y <= n + 1
    BY DEF Said
  <2>3. Max(Said(key, n + 1)) = n + 1
    <3> DEFINE T == Said(key, n + 1)
    <3>1. T \in SUBSET Nat /\ n + 1 \in T /\ \A y \in T : y <= n + 1
      BY <2>1, <2>2
    <3> HIDE DEF T
    <3>2. Max(T) = n + 1
      BY <3>1, MaxIs
    <3> QED BY <3>2 DEF T
  <2> QED BY <1>1, <2>1, <2>3 DEF LastValue
<1>2. CASE ~(cfile[n + 1].key = key /\ cfile[n + 1].val # Unreadable)
  <2>1. Said(key, n + 1) = Said(key, n)
    <3>1. \A i \in 1..(n + 1) : i = n + 1 \/ i \in 1..n
      OBVIOUS
    <3>2. \A i \in 1..n : i \in 1..(n + 1)
      OBVIOUS
    <3> QED BY <1>2, <3>1, <3>2 DEF Said
  <2> QED BY <1>2, <2>1 DEF LastValue
<1> QED BY <1>1, <1>2

\* Before the first line nothing is said.
LEMMA NothingSaid ==
    ASSUME NEW key
    PROVE  LastValue(key, 0) = 0
<1>1. Said(key, 0) = {}
  BY DEF Said
<1> QED BY <1>1 DEF LastValue

\* What config_obj holds after its memset.
LEMMA NoConfigIs ==
    NoConfig \in Configs /\ NoConfig.dir = FALSE /\ NoConfig.max_peers = 0 /\ NoConfig.port = 0
  BY DEF NoConfig, Configs, Ports, PortRange

LEMMA ConfigInitInv == ConfigInit => ConfigInv
<1> SUFFICES ASSUME ConfigInit PROVE ConfigInv
  OBVIOUS
<1>1. cfile \in Seq(ConfigLine) /\ Len(cfile) = 0 /\ cfile = <<>>
  BY EmptySeq DEF ConfigInit
<1>2. config \in Configs /\ config.dir = FALSE
  BY NoConfigIs DEF ConfigInit
<1>3. boot = "off" /\ code = -1 /\ made = FALSE /\ at_line = 0
      /\ disk \in {"absent", "directory", "file", "barred"}
  BY DEF ConfigInit
<1>4. ConfigTypeOK
  <2>1. at_line \in 0..Len(cfile)
    BY <1>1, <1>3
  <2>2. config.dir \in BOOLEAN /\ made \in BOOLEAN
    BY <1>2, <1>3
  <2>3. boot \in {"off", "reading", "loaded", "checked", "up", "crashed"} /\ code \in {-1, 0, 1, 3, 4, 5}
    BY <1>3
  <2> QED BY <1>1, <1>3, <2>1, <2>2, <2>3 DEF ConfigTypeOK
<1>5. RefusedOnce
  BY <1>3 DEF RefusedOnce
<1> QED BY <1>1, <1>2, <1>3, <1>4, <1>5 DEF ConfigInv

\* Any start, at its beginning.
LEMMA StartKeeps == ASSUME ConfigInv, Start \/ StartWithout \/ DiskChanges PROVE ConfigInv'
<1>1. cfile' \in Seq(ConfigLine) /\ cfile' \in ConfigFiles \cup {<<>>}
  <2>1. <<>> \in Seq(ConfigLine)
    BY EmptySeq
  <2> QED BY <2>1, ConfigFilesOK DEF ConfigLine, Start, StartWithout, DiskChanges
<1>2. at_line' = 0 /\ config' = NoConfig /\ made' = FALSE /\ 0 \in 0..Len(cfile')
  BY <1>1 DEF Start, StartWithout, DiskChanges
<1>3. config' \in Configs /\ config'.dir = FALSE /\ config'.max_peers = 0 /\ config'.port = 0
  BY <1>2, NoConfigIs
<1>4. boot' \in {"reading", "off"} /\ code' \in {-1, 0, 1}
      /\ disk' \in {"absent", "directory", "file", "barred"}
  BY DEF ConfigInv, ConfigTypeOK, Start, StartWithout, DiskChanges, Exit
<1>5. ReadSoFar'
  <2>1. LastValue("max_peers", 0)' = 0 /\ LastValue("port", 0)' = 0
    <3>1. Said("max_peers", 0)' = {} /\ Said("port", 0)' = {}
      BY DEF Said
    <3> QED BY <3>1 DEF LastValue
  <2>2. \A i \in 1..at_line' : cfile'[i].key \in Keys
    BY <1>2
  <2>3. LastValue("max_peers", at_line)' = 0 /\ LastValue("port", at_line)' = 0
    BY <1>2, <2>1 DEF LastValue, Said
  <2> QED BY <1>3, <2>2, <2>3 DEF ReadSoFar, PortRange
<1>6. ConfigTypeOK'
  BY <1>1, <1>2, <1>3, <1>4 DEF ConfigTypeOK
<1>7. RefusedOnce'
  BY <1>3 DEF RefusedOnce
<1> QED BY <1>1, <1>2, <1>3, <1>4, <1>5, <1>6, <1>7 DEF ConfigInv

\* What setting one of the fields of config_obj leaves.
LEMMA SetsDir ==
    ASSUME NEW c \in Configs, NEW v \in BOOLEAN
    PROVE  LET d == [c EXCEPT !.dir = v]
           IN  d \in Configs /\ d.max_peers = c.max_peers /\ d.port = c.port
  BY DEF Configs

LEMMA SetsMaxPeers ==
    ASSUME NEW c \in Configs, NEW v \in Int
    PROVE  LET d == [c EXCEPT !.max_peers = v]
           IN  d \in Configs /\ d.max_peers = v /\ d.port = c.port
  BY DEF Configs

LEMMA SetsPort ==
    ASSUME NEW c \in Configs, NEW v \in Ports
    PROVE  LET d == [c EXCEPT !.port = v]
           IN  d \in Configs /\ d.max_peers = c.max_peers /\ d.port = v
  BY DEF Configs

\* A line that is understood.
LEMMA ReadKeeps == ASSUME ConfigInv, ReadLine PROVE ConfigInv'
<1> DEFINE l == NextLine
           n == at_line
<1>1. /\ n \in Nat /\ n < Len(cfile) /\ n + 1 \in 1..Len(cfile)
      /\ cfile \in Seq(ConfigLine) /\ cfile' = cfile /\ at_line' = n + 1
      /\ boot = "reading" /\ boot' = boot /\ disk' = disk /\ code' = code /\ made' = made
  BY DEF ConfigInv, ConfigTypeOK, ReadLine, Reading
<1>2. l \in ConfigLine /\ l.key \in Keys /\ l = cfile[n + 1]
  BY <1>1, ElementOfSeq DEF NextLine, ReadLine, Keys
<1>3. /\ l.val = Unreadable \/ l.val \in Int
      /\ config \in Configs /\ ReadSoFar
  BY <1>1, <1>2 DEF ConfigLine, ConfigInv
<1>4. /\ config' \in Configs
      /\ config'.max_peers = IF l.key = "max_peers" /\ l.val # Unreadable THEN l.val
                             ELSE config.max_peers
      /\ config'.port = IF l.key = "port" /\ l.val # Unreadable THEN l.val % PortRange
                        ELSE config.port
  <2>1. CASE l.key = "directory" /\ config' = [config EXCEPT !.dir = Parsed(l, config.dir)]
    <3> DEFINE v == Parsed(l, config.dir)
    <3>1. config.dir \in BOOLEAN
      BY <1>3 DEF Configs
    <3>2. v \in BOOLEAN
      BY <2>1, <3>1, Zenon DEF Parsed
    <3> HIDE DEF v
    <3> QED BY <1>3, <2>1, <3>2, SetsDir DEF v
  <2>2. CASE l.key = "max_peers" /\ config' = [config EXCEPT !.max_peers = Parsed(l, config.max_peers)]
    <3> DEFINE v == Parsed(l, config.max_peers)
    <3>1. v = IF l.val # Unreadable THEN l.val ELSE config.max_peers
      BY <2>2 DEF Parsed
    <3>2. config.max_peers \in Int
      BY <1>3 DEF Configs
    <3> HIDE DEF v, l
    <3>3. v \in Int
      BY <1>3, <3>1, <3>2
    <3> QED BY <1>3, <2>2, <3>1, <3>3, SetsMaxPeers DEF v
  <2>3. CASE l.key = "port" /\ config' = [config EXCEPT !.port = Parsed(l, config.port)]
    <3> DEFINE v == Parsed(l, config.port)
    <3>1. v = IF l.val # Unreadable THEN l.val % PortRange ELSE config.port
      BY <2>3 DEF Parsed
    <3>2. config.port \in Ports
      BY <1>3 DEF Configs
    <3> HIDE DEF v, l
    <3>3. v \in Ports
      BY <1>3, <3>1, <3>2 DEF PortRange, Ports
    <3> QED BY <1>3, <2>3, <3>1, <3>3, SetsPort DEF v
  <2> QED BY <2>1, <2>2, <2>3 DEF ReadLine
<1>5. ReadSoFar'
  <2>1. \A i \in 1..(n + 1) : cfile[i].key \in Keys
    BY <1>1, <1>2, <1>3 DEF ReadSoFar
  <2>2. /\ LastValue("max_peers", n + 1) =
              IF l.key = "max_peers" /\ l.val # Unreadable THEN l.val ELSE LastValue("max_peers", n)
        /\ LastValue("port", n + 1) =
              IF l.key = "port" /\ l.val # Unreadable THEN l.val ELSE LastValue("port", n)
    BY <1>1, <1>2, OneMoreLine
  <2>3. /\ LastValue("max_peers", at_line)' = LastValue("max_peers", n + 1)
        /\ LastValue("port", at_line)' = LastValue("port", n + 1)
    BY <1>1 DEF LastValue, Said
  <2> QED BY <1>1, <1>3, <1>4, <2>1, <2>2, <2>3 DEF ReadSoFar
<1>6. ConfigTypeOK'
  BY <1>1, <1>4 DEF ConfigInv, ConfigTypeOK, Configs
<1> QED BY <1>1, <1>4, <1>5, <1>6 DEF ConfigInv, RefusedOnce

\* The other steps of a start: what was read stays, and only where the directory was
\* made does a start end with 3 when it is there.
LEMMA OtherKeeps ==
    ASSUME ConfigInv,
           cfile' = cfile, at_line' = at_line, config' = config,
           boot' \in {"off", "loaded", "checked", "up"}, code' \in {-1, 0, 1, 3, 4, 5},
           disk' \in {"absent", "directory", "file", "barred"}, made' \in BOOLEAN,
           boot' \in {"loaded", "checked", "up"} =>
                boot \in {"reading", "loaded", "checked"} /\ at_line = Len(cfile),
           boot' \in {"checked", "up"} => disk' = "directory",
           boot' = "up" => PeersOK /\ PortOK,
           RefusedOnce'
    PROVE  ConfigInv'
<1>1. ReadSoFar => ReadSoFar'
  BY DEF ReadSoFar, LastValue, Said
<1>2. ConfigTypeOK'
  BY DEF ConfigInv, ConfigTypeOK
<1>3. (PeersOK /\ PortOK)' <=> (PeersOK /\ PortOK)
  BY DEF PeersOK, PortOK
<1> QED BY <1>1, <1>2, <1>3 DEF ConfigInv

LEMMA BadLineKeeps == ASSUME ConfigInv, BadLine PROVE ConfigInv'
<1>1. /\ UNCHANGED <<cfile, at_line, config, disk, made>> /\ boot' = "off" /\ code' = 0
      /\ disk \in {"absent", "directory", "file", "barred"} /\ made \in BOOLEAN
  BY DEF BadLine, Exit, ConfigInv, ConfigTypeOK
<1>2. RefusedOnce'
  BY <1>1 DEF RefusedOnce
<1> QED BY <1>1, <1>2, OtherKeeps

LEMMA LastLineKeeps == ASSUME ConfigInv, LastLine PROVE ConfigInv'
<1>1. /\ UNCHANGED <<cfile, at_line, config, disk, code, made>> /\ boot' = "loaded"
      /\ boot = "reading" /\ at_line = Len(cfile)
      /\ disk \in {"absent", "directory", "file", "barred"} /\ made \in BOOLEAN
      /\ code \in {-1, 0, 1, 3, 4, 5}
  BY DEF LastLine, ConfigInv, ConfigTypeOK
<1>2. RefusedOnce'
  BY <1>1 DEF RefusedOnce
<1> QED BY <1>1, <1>2, OtherKeeps

LEMMA DirectoryThereKeeps == ASSUME ConfigInv, DirectoryThere PROVE ConfigInv'
<1>1. /\ UNCHANGED <<cfile, at_line, config, disk, code, made>> /\ boot' = "checked"
      /\ boot = "loaded" /\ at_line = Len(cfile) /\ disk = "directory"
      /\ made \in BOOLEAN /\ code \in {-1, 0, 1, 3, 4, 5}
  BY DEF DirectoryThere, ConfigInv, ConfigTypeOK
<1>2. RefusedOnce'
  BY <1>1 DEF RefusedOnce
<1> QED BY <1>1, <1>2, OtherKeeps

LEMMA DirectoryMadeKeeps == ASSUME ConfigInv, DirectoryMade PROVE ConfigInv'
<1>1. /\ UNCHANGED <<cfile, at_line, config>> /\ disk' = "directory"
      /\ boot = "loaded" /\ at_line = Len(cfile)
      /\ made \in BOOLEAN /\ code \in {-1, 0, 1, 3, 4, 5}
  BY DEF DirectoryMade, ConfigInv, ConfigTypeOK
<1>2. CASE boot' = "checked" /\ UNCHANGED <<code, made>>
  <2>1. RefusedOnce'
    BY <1>2 DEF RefusedOnce
  <2> QED BY <1>1, <1>2, <2>1, OtherKeeps
<1>3. CASE Exit(3) /\ made' = TRUE
  <2>1. boot' = "off" /\ code' = 3 /\ made' = TRUE
    BY <1>3 DEF Exit
  <2>2. RefusedOnce'
    BY <2>1 DEF RefusedOnce
  <2> QED BY <1>1, <2>1, <2>2, OtherKeeps
<1> QED BY <1>2, <1>3 DEF DirectoryMade

LEMMA DirectoryRefusedKeeps == ASSUME ConfigInv, DirectoryRefused PROVE ConfigInv'
<1>1. /\ UNCHANGED <<cfile, at_line, config, disk, made>> /\ boot' = "off" /\ code' = 3
      /\ disk \in {"absent", "directory", "file", "barred"} /\ made \in BOOLEAN
      /\ ~config.dir \/ disk \in {"file", "barred"}
  BY DEF DirectoryRefused, Exit, ConfigInv, ConfigTypeOK
<1>2. RefusedOnce'
  BY <1>1 DEF RefusedOnce
<1> QED BY <1>1, <1>2, OtherKeeps

LEMMA OutOfLimitsKeeps == ASSUME ConfigInv, OutOfLimits PROVE ConfigInv'
<1>1. /\ UNCHANGED <<cfile, at_line, config, disk, made>> /\ boot' = "off" /\ code' \in {1, 4, 5}
      /\ disk \in {"absent", "directory", "file", "barred"} /\ made \in BOOLEAN
  BY DEF OutOfLimits, Exit, ConfigInv, ConfigTypeOK
<1>2. RefusedOnce'
  BY <1>1 DEF RefusedOnce
<1> QED BY <1>1, <1>2, OtherKeeps

LEMMA MakeServerKeeps == ASSUME ConfigInv, MakeServer PROVE ConfigInv'
<1>1. /\ UNCHANGED <<cfile, at_line, config, disk, code, made>> /\ boot' = "up"
      /\ boot = "checked" /\ at_line = Len(cfile) /\ disk = "directory"
      /\ made \in BOOLEAN /\ code \in {-1, 0, 1, 3, 4, 5} /\ PeersOK /\ PortOK
  BY DEF MakeServer, ConfigInv, ConfigTypeOK
<1>2. RefusedOnce'
  BY <1>1 DEF RefusedOnce
<1> QED BY <1>1, <1>2, OtherKeeps

\* Every step of a start.
LEMMA BootKeeps == ConfigInv /\ Boot => ConfigInv'
  BY StartKeeps, ReadKeeps, BadLineKeeps, LastLineKeeps, DirectoryThereKeeps, DirectoryMadeKeeps,
     DirectoryRefusedKeeps, OutOfLimitsKeeps, MakeServerKeeps, Zenon DEF Boot

\* What is served is what the configuration says.
LEMMA ServesIt == ConfigInv => ServesItsConfig
<1> SUFFICES ASSUME ConfigInv, boot = "up" PROVE ServesItsConfig
  BY Zenon DEF ServesItsConfig
<1>1. ReadSoFar /\ at_line = Len(cfile) /\ disk = "directory" /\ PeersOK /\ PortOK
      /\ config \in Configs
  BY DEF ConfigInv
<1>2. \A i \in DOMAIN cfile : cfile[i].key \in Keys
  BY <1>1 DEF ReadSoFar, ConfigInv
<1>3. config.max_peers = LastValue("max_peers", Len(cfile)) /\ config.max_peers \in 1..2048
  BY <1>1 DEF ReadSoFar, PeersOK
<1>4. config.port \in 1025..(PortRange - 1)
  <2>1. config.port \in Nat /\ config.port < PortRange
    BY <1>1 DEF Configs, Ports
  <2>2. 1024 < config.port
    BY <1>1 DEF PortOK
  <2>3. PortRange \in Nat
    BY DEF PortRange
  <2> QED BY <2>1, <2>2, <2>3
<1>5. ASSUME NEW written, written = LastValue("port", Len(cfile)), written \in 0..(PortRange - 1)
      PROVE  config.port = written
  <2>1. config.port = written % PortRange
    BY <1>1, <1>5 DEF ReadSoFar
  <2>2. written % PortRange = written
    <3>1. PortRange \in Nat /\ PortRange > 0
      BY DEF PortRange
    <3> QED BY <3>1, <1>5
  <2> QED BY <2>1, <2>2
<1> QED BY <1>1, <1>2, <1>3, <1>4, <1>5 DEF ServesItsConfig
=============================================================================
