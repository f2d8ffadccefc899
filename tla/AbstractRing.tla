---------------------------- MODULE AbstractRing ----------------------------
(***************************************************************************)
(* What a consistent hash ring promises its callers (spec.md sections 4.3  *)
(* and 8), with no positions, hashes or search in sight: a set of member   *)
(* nodes and, for each key of a fixed universe, the member that owns it.   *)
(*                                                                         *)
(*  - A key is owned by a member whenever there is one, by nobody (None)   *)
(*    when the ring is empty.                                              *)
(*  - Join(n): a key either keeps its owner or moves to the new node n.    *)
(*  - Leave(n): only the keys n owned change owner; every other key keeps  *)
(*    its owner.                                                           *)
(*  - Nothing else changes ownership: between topology changes the owner   *)
(*    of every key is fixed (lookups are deterministic).                   *)
(*                                                                         *)
(* HashRing is shown to implement this module (HashRing!RefinesAbstract).  *)
(***************************************************************************)
EXTENDS FiniteSets

CONSTANTS
  NodeIds,  \* identities a node may have
  Keys,     \* the key universe whose ownership is observed
  None      \* "no owner": get_node_for_key on an empty ring

VARIABLES
  members,  \* ids of the nodes currently in the ring
  owner     \* owner[k]: the member that owns key k, or None

avars == <<members, owner>>

\* Who may own a key when the members are ms.
Owners(ms) == IF ms = {} THEN {None} ELSE ms

AbstractTypeOK ==
  /\ members \subseteq NodeIds
  /\ owner \in [Keys -> Owners(members)]

AbstractInit ==
  /\ members = {}
  /\ owner = [k \in Keys |-> None]

\* A node joins; each key keeps its owner or moves to n.
Join(n) ==
  /\ n \notin members
  /\ members' = members \cup {n}
  /\ owner' \in [Keys -> Owners(members')]
  /\ \A k \in Keys : owner'[k] \in {owner[k], n}

\* A node leaves; only the keys n owned move.
Leave(n) ==
  /\ n \in members
  /\ members' = members \ {n}
  /\ owner' \in [Keys -> Owners(members')]
  /\ \A k \in Keys : owner[k] # n => owner'[k] = owner[k]

AbstractNext ==
  \/ \E n \in NodeIds : Join(n)
  \/ \E n \in NodeIds : Leave(n)

AbstractSpec == AbstractInit /\ [][AbstractNext]_avars

=============================================================================
