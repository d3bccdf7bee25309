------------------------------- MODULE Config -------------------------------
(***************************************************************************)
(* What a node makes of topology.conf: Config::load and the accessors of    *)
(* cpp/src/Config.cpp, load in python/config_loader.py, and the checks of   *)
(* start-up that rest on them.                                              *)
(*                                                                          *)
(* A configuration is the sequence of its lines without comments and blank  *)
(* ones.  A line is its keyword and its other tokens; of a node line these  *)
(* are the id and pairs <<key, value>> (a token without "=" is skipped by   *)
(* both parsers and left out).                                              *)
(***************************************************************************)
EXTENDS Integers, Sequences, FiniteSets, FiniteSetsExt

Lines(cfg, kw) == {i \in DOMAIN cfg : cfg[i].kw = kw}

(* The value of the last pair with that key. *)
Attribute(line, key, default) ==
  LET at == {k \in 2..Len(line.args) : line.args[k][1] = key}
  IN  IF at = {} THEN default ELSE line.args[Max(at)][2]

(* static_cast<uint16_t>(atoi), int(): a port that is 0 counts as missing. *)
Port(code, line) ==
  LET p == Attribute(line, "port", 0) IN IF code = "cpp" THEN p % 65536 ELSE p

(* A line that load throws on. *)
Refused(code, line) ==
  \/ line.kw \notin {"node", "edge", "partition", "param"}
  \/ line.kw = "node" /\ (\/ line.args = <<>>
                          \/ Attribute(line, "host", "") = ""
                          \/ Port(code, line) = 0)
  \/ line.kw \in {"edge", "partition", "param"} /\ Len(line.args) # 2

Parses(code, cfg) == \A i \in DOMAIN cfg : ~Refused(code, cfg[i])

NodeIds(cfg) == {cfg[i].args[1] : i \in Lines(cfg, "node")}

(* The last line about a node is the one that counts. *)
Entry(cfg, n) == cfg[Max({i \in Lines(cfg, "node") : cfg[i].args[1] = n})]

(* An edge is one of both its ends, declared nodes or not. *)
NeighborsOf(cfg, n) ==
  {m \in UNION {{cfg[i].args[1], cfg[i].args[2]} : i \in Lines(cfg, "edge")} :
     \E i \in Lines(cfg, "edge") : cfg[i].args \in {<<n, m>>, <<m, n>>}}

(* The Python loader takes "True" and "YES" too. *)
IsRoot(code, cfg, n) ==
  Attribute(Entry(cfg, n), "root", "no") \in
    {"true", "1", "yes"} \cup (IF code = "python" THEN {"True", "TRUE", "Yes", "YES"} ELSE {})

(* rootId: whichever root the unordered_map gives first. *)
RootIds(code, cfg) == {n \in NodeIds(cfg) : IsRoot(code, cfg, n)}

(* partitionPath: the last partition line of a node, "" for none. *)
PartitionPath(cfg, n) ==
  LET at == {i \in Lines(cfg, "partition") : cfg[i].args[1] = n}
  IN  IF at = {} THEN "" ELSE cfg[Max(at)].args[2]

(* A process gets to its gRPC server: the id is in the file, its partition  *)
(* is not one that load throws on (bad: the paths of files that lack the    *)
(* columns Loads of PartitionStore wants; a missing file is an empty        *)
(* partition), and every neighbour is declared, of which run() makes a      *)
(* stub.                                                                    *)
Starts(code, cfg, bad, n) ==
  /\ Parses(code, cfg)
  /\ n \in NodeIds(cfg)
  /\ PartitionPath(cfg, n) \notin bad
  /\ NeighborsOf(cfg, n) \subseteq NodeIds(cfg)
=============================================================================
