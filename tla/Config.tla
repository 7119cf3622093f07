-------------------------------- MODULE Config --------------------------------
(***************************************************************************)
(* How btide starts: load_config reads the configuration line by line,     *)
(* check_config_obj refuses what cannot be used, make_server binds.  What  *)
(* outlives a start is the directory on the disk.                          *)
(***************************************************************************)
EXTENDS Integers, SequencesExt

CONSTANTS
    ConfigFiles,    \* what the configuration may say: sequences of lines
    Unreadable      \* the val of a line without a number, or without a name

\* The range of a uint16_t.
PortRange == 65536

Keys == {"directory", "max_peers", "port"}

ASSUME ConfigFilesOK == ConfigFiles \subseteq Seq([key : Keys \cup {"other"}, val : Int \cup {Unreadable}])

VARIABLES
    cfile,      \* the configuration: its lines [key, val]; "other" is any other key
    at_line,    \* the number of lines that load_config has read
    config,     \* config_obj
    disk,       \* what the configured path is: "absent" (mkdir would make it),
                \* "directory", "file" or "barred" (absent, and mkdir fails)
    boot,       \* "off", "reading", "loaded", "checked", "up", or "crashed"
    code,       \* the exit code of the process that ended; -1 for none
    made        \* that process had made the directory before it exited with 3

configVars == <<cfile, at_line, config, disk, boot, code, made>>

\* config_obj after its memset: no directory, numbers zero.
NoConfig == [dir |-> FALSE, max_peers |-> 0, port |-> 0]

ConfigInit ==
    /\ cfile = <<>>
    /\ at_line = 0
    /\ config = NoConfig
    /\ disk \in {"absent", "directory", "file", "barred"}
    /\ boot = "off"
    /\ code = -1
    /\ made = FALSE

Exit(c) ==
    /\ boot' = "off"
    /\ code' = c

-----------------------------------------------------------------------------
\* btide is started, on a configuration that somebody wrote.
Start ==
    /\ boot \in {"off", "crashed"}
    /\ cfile' \in ConfigFiles
    /\ at_line' = 0
    /\ config' = NoConfig
    /\ boot' = "reading"
    /\ code' = -1
    /\ made' = FALSE
    /\ UNCHANGED disk

\* Without a configuration, or with the name of one that is not there.
StartWithout ==
    /\ boot \in {"off", "crashed"}
    /\ cfile' = <<>> /\ at_line' = 0 /\ config' = NoConfig /\ made' = FALSE
    /\ \E c \in {0, 1} : Exit(c)
    /\ UNCHANGED disk

\* Variants, here and below: what a plausible slip in the code would do.
\* A number that was read before is kept.
ParsedFirst(line, old) ==
    IF line.val = Unreadable \/ (line.key # "directory" /\ old # 0) THEN old
    ELSE IF line.key = "directory" THEN TRUE
    ELSE IF line.key = "port" THEN line.val % PortRange ELSE line.val

\* sscanf: without a number or a name the field keeps its value, and %hu keeps
\* the lowest 16 bits of a number.
Parsed(line, old) ==
    IF line.val = Unreadable THEN old
    ELSE IF line.key = "directory" THEN TRUE
    ELSE IF line.key = "port" THEN line.val % PortRange ELSE line.val

Reading == boot = "reading" /\ at_line < Len(cfile)
NextLine == cfile[at_line + 1]

ReadLine ==
    /\ Reading
    /\ \/ /\ NextLine.key = "directory"
          /\ config' = [config EXCEPT !.dir = Parsed(NextLine, @)]
       \/ /\ NextLine.key = "max_peers"
          /\ config' = [config EXCEPT !.max_peers = Parsed(NextLine, @)]
       \/ /\ NextLine.key = "port"
          /\ config' = [config EXCEPT !.port = Parsed(NextLine, @)]
    /\ at_line' = at_line + 1
    /\ UNCHANGED <<cfile, disk, boot, code, made>>

\* Any other line, a blank one too, and btide returns from main.
BadLine ==
    /\ Reading
    /\ NextLine.key \notin Keys
    /\ Exit(0)
    /\ UNCHANGED <<cfile, at_line, config, disk, made>>

LastLine ==
    /\ boot = "reading"
    /\ at_line = Len(cfile)
    /\ boot' = "loaded"
    /\ UNCHANGED <<cfile, at_line, config, disk, code, made>>

-----------------------------------------------------------------------------
(* check_config_obj.                                                       *)

DirectoryThere ==
    /\ boot = "loaded"
    /\ config.dir /\ disk = "directory"
    /\ boot' = "checked"
    /\ UNCHANGED <<cfile, at_line, config, disk, code, made>>

\* stat is not called again: it is what the stack holds that is tested.
DirectoryMade ==
    /\ boot = "loaded"
    /\ config.dir /\ disk = "absent"
    /\ disk' = "directory"
    /\ \/ boot' = "checked" /\ UNCHANGED <<code, made>>
       \/ Exit(3) /\ made' = TRUE
    /\ UNCHANGED <<cfile, at_line, config>>

\* The result of the first stat is thrown away.
DirectoryRefusedOften ==
    /\ boot = "loaded"
    /\ Exit(3)
    /\ UNCHANGED <<cfile, at_line, config, disk, made>>

\* mkdir fails, as it does for an empty name, or the name is a file's.
DirectoryRefused ==
    /\ boot = "loaded"
    /\ ~config.dir \/ disk \in {"file", "barred"}
    /\ Exit(3)
    /\ UNCHANGED <<cfile, at_line, config, disk, made>>

PeersOK == config.max_peers \in 1..2048
PortOK == 1024 < config.port /\ config.port <= 65535

\* The limits, then make_server, which fails when the port is taken.
OutOfLimits ==
    /\ boot = "checked"
    /\ \/ ~PeersOK /\ Exit(4)
       \/ PeersOK /\ ~PortOK /\ Exit(5)
       \/ PeersOK /\ PortOK /\ Exit(1)
    /\ UNCHANGED <<cfile, at_line, config, disk, made>>

MakeServer ==
    /\ boot = "checked"
    /\ PeersOK /\ PortOK
    /\ boot' = "up"
    /\ UNCHANGED <<cfile, at_line, config, disk, code, made>>

\* Between two starts somebody moves directories and files about.
DiskChanges ==
    /\ boot \in {"off", "crashed"}
    /\ disk' \in {"absent", "directory", "file", "barred"} \ {disk}
    /\ cfile' = <<>> /\ at_line' = 0 /\ config' = NoConfig
    /\ boot' = "off" /\ code' = -1 /\ made' = FALSE

Boot ==
    \/ Start \/ StartWithout \/ DiskChanges
    \/ ReadLine \/ BadLine \/ LastLine
    \/ DirectoryThere \/ DirectoryMade \/ DirectoryRefused
    \/ OutOfLimits \/ MakeServer

-----------------------------------------------------------------------------
(* Properties.                                                             *)

ConfigTypeOK ==
    /\ cfile \in ConfigFiles \cup {<<>>}
    /\ at_line \in 0..Len(cfile)
    /\ config.dir \in BOOLEAN
    /\ disk \in {"absent", "directory", "file", "barred"}
    /\ boot \in {"off", "reading", "loaded", "checked", "up", "crashed"}
    /\ code \in {-1, 0, 1, 3, 4, 5}
    /\ made \in BOOLEAN

\* The lines among the first n that give a value for a key.
Said(key, n) == {i \in 1..n : cfile[i].key = key /\ cfile[i].val # Unreadable}

\* The last such value, if there is one.
LastValue(key, n) == IF Said(key, n) = {} THEN 0 ELSE cfile[Max(Said(key, n))].val

\* What btide serves is what the whole configuration says: each line was
\* understood, the last value of max_peers and of port counts, whatever came
\* before it and however many lines without a value follow, and it is one that may
\* be served.  Of a port outside the 16 bits it claims only that some port above
\* 1024 is served: WidePort is about those.
ServesItsConfig ==
    boot = "up" =>
        /\ \A i \in DOMAIN cfile : cfile[i].key \in Keys
        /\ config.max_peers = LastValue("max_peers", Len(cfile))
        /\ config.max_peers \in 1..2048
        /\ LET written == LastValue("port", Len(cfile))
           IN  written \in 0..(PortRange - 1) => config.port = written
        /\ config.port \in 1025..(PortRange - 1)
        /\ disk = "directory"

\* A port above 65535 is refused: check_config_obj tests for it and says "port not
\* in range" (config.c:79-80), but the field it tests has 16 bits.
WidePort == boot = "up" => LastValue("port", Len(cfile)) <= 65535

\* A start that exits with 3 although the directory is there made the directory
\* itself: whatever the unfilled stat buffer said (config.c:67), no later start
\* is refused for the same reason.
RefusedOnce ==
    boot = "off" /\ code = 3 /\ config.dir /\ disk = "directory" => made
=============================================================================
