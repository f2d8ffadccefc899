------------------------------ MODULE HashRing ------------------------------
(***************************************************************************)
(* ConsistentHashRing (src/python/consistent_hash_lab/ring.py) together    *)
(* with the replica-position generation of Node (node.py).                 *)
(*                                                                         *)
(* State is the ring object's three fields:                                *)
(*   ring          self.ring, the list of (hash_value, node) tuples kept   *)
(*                 sorted by bisect.insort; a node is its node_id here,    *)
(*                 since Node equality and hashing are by node_id alone;   *)
(*   nodes         self.nodes, node_id -> the registered Node, of which    *)
(*                 only `replicas` is ever read by the ring;               *)
(*   hash_to_node  self.hash_to_node, hash_value -> node_id.               *)
(* Hashing (sha256 or fnv1a) is abstracted: the code only compares hash   *)
(* values, so what matters is their order and their collisions.  The      *)
(* hashes of the replica strings "<node_id>-<replica>" are a function      *)
(* chosen in Init from NodeHashes and never changed, so every order and    *)
(* every collision of positions the set allows is explored; the hashes of  *)
(* the keys are the constant KeyHash, and a key universe with a key at     *)
(* every point of interest observes all placements at once.               *)
(*                                                                         *)
(* Tuple comparison and bisect are modelled exactly, in PyBisect.         *)
(***************************************************************************)
EXTENDS Integers, SequencesExt, PyBisect

CONSTANTS
  NodeIds,        \* node_id strings (model values)
  Keys,           \* key strings (model values)
  KeySeq,         \* the key list passed to get_key_distribution
  ReplicaChoices, \* values the caller passes as Node(..., replicas=r)
  MaxReplicas,    \* bound on the replica indices that are hashed
  HashSpace,      \* stand-in for the hash function's output range
  NodeHashes,     \* candidate hashes of the strings "<node_id>-<replica>"
  KeyHash,        \* _hash_key: the hash of each key
  HashFunction,   \* the hash_function name given to ConsistentHashRing
  None            \* Python None

ASSUME ReplicaChoices \subseteq 0..MaxReplicas
ASSUME NodeHashes \subseteq [NodeIds \X (0..MaxReplicas - 1) -> HashSpace]
ASSUME KeyHash \in [Keys -> HashSpace]
ASSUME KeySeq \in Seq(Keys)
ASSUME None \notin NodeIds

VARIABLES
  ring,          \* self.ring
  nodes,         \* self.nodes (node_id -> replicas)
  hash_to_node,  \* self.hash_to_node
  nodeHash,      \* hash of "<node_id>-<replica>" under HashFunction
  result         \* how the last call ended: returned or raised

vars == <<ring, nodes, hash_to_node, nodeHash, result>>

\* The names _hash_string and _hash_key accept; any other raises ValueError.
SupportedHashFunctions == {"sha256", "fnv1a"}

\* Returned: "ok" (value or None from add), "None" (remove of an unknown
\* id); raised: "ValueError", "TypeError".
Outcomes == {"ok", "None", "ValueError", "TypeError"}

\* Mutation of Delete: the entry is set to None instead of deleted.
DeleteSetsNone(f, x) == [f EXCEPT ![x] = None]

\* f with key x deleted (Python `del f[x]`).
Delete(f, x) == Restrict(f, DOMAIN f \ {x})

-----------------------------------------------------------------------------
\* Mutation of HashValues: range(1, replicas), the last replica is lost.
HashValuesSkipsLast(id, r) == [i \in 1..(r - 1) |-> nodeHash[<<id, i - 1>>]]

(* Node.get_hash_values: the hashes of replicas 0 .. replicas-1, in order. *)
HashValues(id, r) == [i \in 1..r |-> nodeHash[<<id, i - 1>>]]

-----------------------------------------------------------------------------
\* Mutation of AddReplica: hash_to_node is not written.
AddReplicaNoIndex(id, s, h) ==
  LET at == BisectRight(s.ring, <<h, id>>)
  IN IF s.raised THEN s
     ELSE [ring   |-> IF at = Raised THEN s.ring
                      ELSE InsertAt(s.ring, at + 1, <<h, id>>),
           h2n    |-> s.h2n,
           raised |-> at = Raised]

(* add_node, one iteration of its loop: hash_to_node[h] = node, then      *)
(* bisect.insort(ring, (h, node)); once an insort raises, the loop is     *)
(* over and what was written so far stays written.                        *)
AddReplica(id, s, h) ==
  LET at == BisectRight(s.ring, <<h, id>>)
  IN IF s.raised THEN s
     ELSE [ring   |-> IF at = Raised THEN s.ring
                      ELSE InsertAt(s.ring, at + 1, <<h, id>>),
           h2n    |-> (h :> id) @@ s.h2n,
           raised |-> at = Raised]

\* add_node(Node(id, replicas=r)) for an id not yet registered: the node
\* is registered first, then its hashes are computed (raising ValueError
\* for an unsupported hash name) and inserted one by one.
AddNode(id, r) ==
  /\ id \notin DOMAIN nodes
  /\ nodes' = (id :> r) @@ nodes
  /\ IF HashFunction \in SupportedHashFunctions
       THEN LET s == FoldLeft(LAMBDA acc, h : AddReplica(id, acc, h),
                              [ring |-> ring, h2n |-> hash_to_node,
                               raised |-> FALSE],
                              HashValues(id, r))
            IN /\ ring' = s.ring
               /\ hash_to_node' = s.h2n
               /\ result' = IF s.raised THEN "TypeError" ELSE "ok"
       ELSE /\ result' = "ValueError"
            /\ UNCHANGED <<ring, hash_to_node>>
  /\ UNCHANGED nodeHash

\* add_node of an id already registered: ValueError before any mutation.
AddDuplicateNode(id) ==
  /\ id \in DOMAIN nodes
  /\ result' = "ValueError"
  /\ UNCHANGED <<ring, nodes, hash_to_node, nodeHash>>

\* Mutation of RemoveReplica: the tuple stays in the ring.
RemoveReplicaKeepsTuple(id, s, h) ==
  IF h \in DOMAIN s.h2n THEN [s EXCEPT !.h2n = Delete(s.h2n, h)] ELSE s

(* remove_node, one iteration of its loop: only a hash still present in   *)
(* hash_to_node is deleted from it and from the ring, where list.remove   *)
(* drops the first tuple == (h, node), its ValueError being swallowed.    *)
RemoveReplica(id, s, h) ==
  IF h \in DOMAIN s.h2n
    THEN [ring |-> RemoveFirst(s.ring, <<h, id>>), h2n |-> Delete(s.h2n, h)]
    ELSE s

\* remove_node(id) of a registered id: the hashes are recomputed from the
\* registered Node (raising ValueError before any mutation for an
\* unsupported hash name), removed, and the node unregistered.
RemoveNode(id) ==
  /\ id \in DOMAIN nodes
  /\ IF HashFunction \in SupportedHashFunctions
       THEN LET s == FoldLeft(LAMBDA acc, h : RemoveReplica(id, acc, h),
                              [ring |-> ring, h2n |-> hash_to_node],
                              HashValues(id, nodes[id]))
            IN /\ ring' = s.ring
               /\ hash_to_node' = s.h2n
               /\ nodes' = Delete(nodes, id)
               /\ result' = "ok"
       ELSE /\ result' = "ValueError"
            /\ UNCHANGED <<ring, nodes, hash_to_node>>
  /\ UNCHANGED nodeHash

\* remove_node of an unknown id returns None and changes nothing.
RemoveAbsentNode(id) ==
  /\ id \notin DOMAIN nodes
  /\ result' = "None"
  /\ UNCHANGED <<ring, nodes, hash_to_node, nodeHash>>

-----------------------------------------------------------------------------
(* Queries: they change no state, so they are operators evaluated in     *)
(* every state.  A raised exception is the string naming it.              *)

\* Mutation of WrapIndex: past the end clamps to the last position.
WrapIndexClamps(at) == IF at >= Len(ring) THEN Len(ring) - 1 ELSE at

\* The 0-based index get_node_for_key reads: past the end wraps to 0.
WrapIndex(at) == IF at >= Len(ring) THEN 0 ELSE at

GetNodeForKey(k) ==
  IF ring = <<>> THEN None
  ELSE IF HashFunction \notin SupportedHashFunctions THEN "ValueError"
  ELSE LET at == BisectRight(ring, <<KeyHash[k], None>>)
       IN IF at = Raised THEN "TypeError" ELSE ring[WrapIndex(at) + 1][2]

\* get_key_distribution(ks): node_id -> the keys it owns, in input order,
\* duplicates kept; keys without an owner are left out.
GetKeyDistribution(ks) ==
  LET owners == {GetNodeForKey(ks[i]) : i \in DOMAIN ks} \ {None}
  IN [n \in owners |-> SelectSeq(ks, LAMBDA k : GetNodeForKey(k) = n)]

\* get_key_distribution raises if any of its lookups raises.
DistributionRaises(ks) ==
  \E i \in DOMAIN ks : GetNodeForKey(ks[i]) \in {"TypeError", "ValueError"}

\* The key -> node_id reverse mapping get_moved_keys builds from a
\* distribution (a key appears under one node_id only).
KeyToNode(d) ==
  [k \in UNION {ToSet(d[n]) : n \in DOMAIN d} |->
     CHOOSE n \in DOMAIN d : \E i \in DOMAIN d[n] : d[n][i] = k]

\* dict.get(k): the value, or None.
Get(f, k) == IF k \in DOMAIN f THEN f[k] ELSE None

\* Mutation of GetMovedKeys: only the keys of the old snapshot are compared.
GetMovedKeysOldOnly(old, new) ==
  LET o == KeyToNode(old)
      n == KeyToNode(new)
  IN {k \in DOMAIN o : Get(o, k) # Get(n, k)}

\* get_moved_keys(old, new): the keys of either snapshot whose owner
\* differs, a key missing from one snapshot counting as owned by None.
GetMovedKeys(old, new) ==
  LET o == KeyToNode(old)
      n == KeyToNode(new)
  IN {k \in DOMAIN o \cup DOMAIN n : Get(o, k) # Get(n, k)}

-----------------------------------------------------------------------------
Init ==
  /\ ring = <<>>
  /\ nodes = <<>>
  /\ hash_to_node = <<>>
  /\ nodeHash \in NodeHashes
  /\ result = "ok"

Next ==
  \E id \in NodeIds :
    \/ \E r \in ReplicaChoices : AddNode(id, r)
    \/ AddDuplicateNode(id)
    \/ RemoveNode(id)
    \/ RemoveAbsentNode(id)

Spec == Init /\ [][Next]_vars

-----------------------------------------------------------------------------
(***************************************************************************)
(* Properties                                                              *)
(***************************************************************************)

TypeOK ==
  /\ ring \in Seq(HashSpace \X NodeIds)
  /\ DOMAIN nodes \subseteq NodeIds
  /\ \A n \in DOMAIN nodes : nodes[n] \in ReplicaChoices
  /\ DOMAIN hash_to_node \subseteq HashSpace
  /\ \A h \in DOMAIN hash_to_node : hash_to_node[h] \in NodeIds
  /\ nodeHash \in NodeHashes
  /\ result \in Outcomes

\* The positions in the table, as a set.
Positions == {ring[i] : i \in DOMAIN ring}

\* Spec 3 / 7: the registry and the position table agree after every call,
\* whatever sequence of adds, failed adds and removes led there: each
\* registered node has exactly `replicas` positions, each the hash of one
\* of its own replicas, no position belongs to an unregistered node, and
\* no two entries share a position.
RegistryAgreement ==
  /\ \A n \in DOMAIN nodes :
       Cardinality({i \in DOMAIN ring : ring[i][2] = n}) = nodes[n]
  /\ \A i \in DOMAIN ring :
       /\ ring[i][2] \in DOMAIN nodes
       /\ \E j \in 1..nodes[ring[i][2]] :
            ring[i][1] = HashValues(ring[i][2], nodes[ring[i][2]])[j]
  /\ \A i, j \in DOMAIN ring : i # j => ring[i][1] # ring[j][1]

\* hash_to_node, the index remove_node trusts to decide which tuples to
\* delete, names exactly the positions in the table and their owners.
HashIndexAgreement ==
  /\ DOMAIN hash_to_node = {p[1] : p \in Positions}
  /\ \A p \in Positions : hash_to_node[p[1]] = p[2]

\* Spec 4.3 lookup rule, stated on the set of positions: the owner of a
\* key hash h is the owner of the least position strictly greater than h,
\* or of the least position overall when none is; None on an empty table.
ClockwiseOwner(h) ==
  LET Least(S) == CHOOSE p \in S : \A q \in S : p[1] <= q[1]
      above    == {p \in Positions : p[1] > h}
  IN IF Positions = {} THEN None
     ELSE IF above # {} THEN Least(above)[2]
     ELSE Least(Positions)[2]

\* get_node_for_key's binary search over the table that the sequence of
\* insorts and removes has produced returns, for every key, the clockwise
\* owner of the spec: sortedness, the bisect_right bounds, the tie rule
\* and the wrap-around all have to be right.
LookupIsClockwiseSuccessor ==
  \A k \in Keys : GetNodeForKey(k) = ClockwiseOwner(KeyHash[k])

\* The ownership a caller observes through get_node_for_key.
Abs == INSTANCE AbstractRing
         WITH members <- DOMAIN nodes,
              owner   <- [k \in Keys |-> GetNodeForKey(k)]

\* The ring implements AbstractRing: every add or remove moves only the
\* keys consistent hashing allows (to the joining node; away from the
\* leaving one), an empty ring owns nothing, a populated one owns every
\* key, and no failed call changes ownership.
RefinesAbstract == Abs!AbstractSpec

\* get_moved_keys applied to the get_key_distribution snapshots taken
\* before and after any call reports exactly the keys of KeySeq whose
\* owner changed, including keys that had, or now have, no owner.
MovementReport ==
  [][~DistributionRaises(KeySeq) /\ ~DistributionRaises(KeySeq)' =>
       \A before \in {GetKeyDistribution(KeySeq)},
          after  \in {GetKeyDistribution(KeySeq)'} :
         GetMovedKeys(before, after)
           = {k \in ToSet(KeySeq) : GetNodeForKey(k) # GetNodeForKey(k)'}]_vars

=============================================================================
