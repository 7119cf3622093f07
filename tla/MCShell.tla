------------------------------- MODULE MCShell -------------------------------
(***************************************************************************)
(* An instance of Shell for TLC.                                           *)
(***************************************************************************)
EXTENDS Shell

Says(key, val) == [key |-> key, val |-> val]

\* A configuration of these three lines.
Config3(peers, port) == <<Says("directory", 0), Says("max_peers", peers), Says("port", port)>>

\* Two that serve, a port above 16 bits among them; the limits and one beyond each,
\* also above 16 bits; lines that are missing, repeated, without a value, or unknown.
MCConfigFiles ==
    {Config3(2048, 1025),
     <<Says("port", 80), Says("max_peers", 1), Says("directory", 0), Says("port", 65536 + 8080), Says("port", Unreadable)>>}
    \cup {Config3(n, 8080) : n \in {-1, 0, 2049}}
    \cup {Config3(1, p) : p \in {0, 1024, 65536, 65536 + 1024}}
    \cup {<<>>, <<Says("max_peers", 1), Says("port", 8080)>>,
          <<Says("directory", Unreadable), Says("max_peers", 1), Says("port", 8080)>>,
          <<Says("directory", 0), Says("port", 8080)>>,
          Config3(1, 8080) \o <<Says("port", 80)>>,
          Config3(1, 8080) \o <<Says("other", 0)>>}

\* Packages of one, two, three and four chunks; one with repeated chunks.
MCMade ==
    {[identifier |-> <<"i">>, filename |-> <<"f">>, hashes |-> <<<<"a", "b">>>>, chunks |-> <<<<"a">>, <<"b">>>>],
     [identifier |-> <<"j">>, filename |-> <<"f">>, hashes |-> <<<<"b", "b">>>>, chunks |-> <<<<"b">>, <<"b">>>>],
     [identifier |-> <<"j">>, filename |-> <<"f">>, hashes |-> <<>>, chunks |-> <<<<"a">>>>],
     [identifier |-> <<"i">>, filename |-> <<"f">>, hashes |-> <<<<"a", "b">>>>, chunks |-> <<<<"a">>, <<"b">>, <<"a">>>>],
     [identifier |-> <<"j">>, filename |-> <<"f">>,
      hashes |-> <<<<"a", "b", "c", "a">>, <<"a", "b">>, <<"c", "a">>>>,
      chunks |-> <<<<"a">>, <<"b">>, <<"c">>, <<"a">>>>]}

\* The package whose file is spoiled in every way below.
Small == Written([identifier |-> <<"i">>, filename |-> <<"f">>, hashes |-> <<<<"a", "b">>>>,
                  chunks |-> <<<<"a">>, <<"b">>>>])
Blank == Line("blank", 0, <<>>)

\* Cut short anywhere, a line missing, blank, or twice, a count that is too small
\* or too large, a chunk's line with fewer fields, or at the end without any.
Spoiled ==
    {SubSeq(Small, 1, n) : n \in 0..Len(Small)}
    \cup {RemoveAt(Small, i) : i \in DOMAIN Small}
    \cup {ReplaceAt(Small, i, Blank) : i \in DOMAIN Small}
    \cup {InsertAt(Small, i, Small[i]) : i \in DOMAIN Small}
    \cup {InsertAt(Small, i, Blank) : i \in DOMAIN Small}
    \cup {[Small EXCEPT ![i].n = n] : i \in {j \in DOMAIN Small : Small[j].tag \in {"nhashes", "nchunks"}}, n \in 0..3}
    \cup {[Small EXCEPT ![i].n = n] : i \in {j \in DOMAIN Small : Small[j].tag = "chunk"}, n \in 1..2}
    \cup {[Small EXCEPT ![Len(Small)].n = 0]}
    \cup {ReplaceAt([Small EXCEPT ![4].n = 2], 6, Blank)}

MCBpkgFiles == {Written(p) : p \in MCMade} \cup Spoiled

MCTexts == Seq(STRING)

MCDataFiles == {<<>>, <<"a">>, <<"a", "b">>, <<"b", "b">>, <<"a", "a">>, <<"b", "a">>,
                <<"a", "b", "c", "a">>, <<"a", "b", "c", "x">>}

Types(word, blank, arg) == [word |-> word, blank |-> blank, arg |-> arg]

MCTyped ==
    {Types("QUIT", FALSE, NoArg), Types("other", FALSE, NoArg),
     Types("CONNECT", TRUE, <<"host", "port">>), Types("CONNECT", TRUE, <<"host">>), Types("CONNECT", TRUE, NoArg),
     Types("DISCONNECT", TRUE, <<"host", "port">>), Types("DISCONNECT", TRUE, NoArg),
     Types("PEERS", FALSE, NoArg), Types("PEERS", TRUE, NoArg), Types("PACKAGES", FALSE, NoArg),
     Types("ADDPACKAGE", TRUE, <<"file">>), Types("ADDPACKAGE", TRUE, NoArg),
     Types("REMPACKAGE", TRUE, <<"i">>), Types("REMPACKAGE", TRUE, <<"j">>), Types("REMPACKAGE", TRUE, NoArg)}
=============================================================================
