---------------------------- MODULE MCAlgorithms ----------------------------
(***************************************************************************)
(* The pure algorithms of the ring, each checked against a reference over *)
(* bounded inputs: bisect_right (PyBisect) and FNV-1a (Fnv1a).            *)
(*                                                                         *)
(* Checks PyBisect's bisect_right against a reference definition over     *)
(* every bounded input the ring can hand it: a table sorted by hash in    *)
(* which equal hashes only ever belong to the same node (bisect.insort    *)
(* raises before it could build anything else), probed with a node's      *)
(* tuple (insort) or with (key_hash, None) (get_node_for_key).            *)
(***************************************************************************)
EXTENDS PyBisect, Fnv1a, FiniteSets, TLC

CONSTANTS Ids, None, Hashes, MaxLen,
  DemoNodes,     \* demo --nodes
  DemoReplicas,  \* demo --virtual-nodes
  DemoKeys       \* demo --keys (at most 1000: the numbered keys)

ASSUME DemoKeys \in 0..1000

\* One state per input checked: a bisect case, an FNV-1a test vector, or
\* the demo's ring.
VARIABLE input

\* The tables self.ring can hold.
Tables ==
  {t \in UNION {[1..n -> Hashes \X Ids] : n \in 0..MaxLen} :
     \A i, j \in DOMAIN t :
       /\ i < j => t[i][1] <= t[j][1]
       /\ t[i][1] = t[j][1] => t[i][2] = t[j][2]}

\* Probes: every hash from below the least to above the greatest.
Probes == (UNION {{h - 1, h, h + 1} : h \in Hashes}) \X (Ids \cup {None})

\* The reference: a probe tied with a tuple of another node raises;
\* otherwise the answer is the number of entries whose hash is <= its own.
BisectReference(t, p) ==
  IF \E i \in DOMAIN t : t[i][1] = p[1] /\ t[i][2] # p[2] THEN Raised
  ELSE Cardinality({i \in DOMAIN t : t[i][1] <= p[1]})

\* Published FNV-1a 32-bit test vectors: "", "a" and "foobar".
Fnv1aVectors ==
  {[bytes |-> <<>>, hash |-> <<\h811C, \h9DC5>>],
   [bytes |-> <<97>>, hash |-> <<\hE40C, \h292C>>],
   [bytes |-> <<102, 111, 111, 98, 97, 114>>, hash |-> <<\hBF9C, \hF968>>]}

Inputs ==
  [kind : {"bisect"}, table : Tables, probe : Probes]
    \cup [kind : {"vector"}, vector : Fnv1aVectors]
    \cup {[kind |-> "demo"]}

Init == input \in Inputs

Next == UNCHANGED input

Spec == Init /\ [][Next]_input

-----------------------------------------------------------------------------
\* For every reachable table and probe, the binary search agrees with the
\* reference: it raises exactly when an entry of another node sits at the
\* probe's hash (so a lookup that hits a position raises however the
\* search runs), and otherwise lands after every entry <= the probe.
BisectMatchesReference ==
  input.kind = "bisect" =>
    BisectRight(input.table, input.probe) = BisectReference(input.table, input.probe)

\* Both copies of the FNV-1a loop, the one Node uses for replica positions
\* and the one the ring uses for keys, compute FNV-1a: the xor comes
\* before the multiplication and the product wraps at 32 bits.  Were the
\* two copies to differ, keys and positions would be hashed apart.
Fnv1aMatchesReference ==
  input.kind = "vector" =>
    /\ HashStringFnv1a(input.vector.bytes) = input.vector.hash
    /\ HashKeyFnv1a(input.vector.bytes) = input.vector.hash

\* The positions `demo --hash fnv1a --nodes DemoNodes --virtual-nodes
\* DemoReplicas` gives its nodes, one per (node, replica).
DemoPositions ==
  [s \in (0..(DemoNodes - 1)) \X (0..(DemoReplicas - 1)) |->
     HashStringFnv1a(ReplicaId(NodeId(s[1]), s[2]))]

\* The hashes of generate_test_keys(DemoKeys).
DemoKeyHashes == {HashKeyFnv1a(k) : k \in Range(GenerateTestKeys(DemoKeys))}

\* Every (node, replica) of the demo has a position of its own, and no
\* test key hashes onto a position.
DemoRingCollisionFree ==
  /\ Cardinality(Range(DemoPositions)) = Cardinality(DOMAIN DemoPositions)
  /\ Range(DemoPositions) \cap DemoKeyHashes = {}

\* For the CLI's own ids and keys, fnv1a never produces the collisions on
\* which add_node raises TypeError mid-update (a replica on the position
\* of another replica, of the same node or of another) or get_node_for_key
\* raises TypeError (a test key's hash on a position).
DemoPositionsDistinct == input.kind = "demo" => DemoRingCollisionFree

=============================================================================
