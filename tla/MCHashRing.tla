----------------------------- MODULE MCHashRing -----------------------------
(***************************************************************************)
(* Instantiates HashRing for TLC.  Three nodes of up to two replicas give  *)
(* up to six positions.  The hash of each key is fixed and the keys sit at *)
(* every point of interest of the hash space, so each state shows the      *)
(* owner of every placement a key can have; the replica hashes are chosen *)
(* in Init from a set that fixes which orders and collisions are explored: *)
(*   DistinctNodeHashes  every order of six distinct positions (odd        *)
(*                       values), keys on every even value, i.e. in every  *)
(*                       gap: the no-collision world of the strong hash;   *)
(*   the others          let one kind of collision happen, one per config. *)
(***************************************************************************)
EXTENDS HashRing, TLC

CONSTANTS n1, n2, n3, k0, k1, k2, k3, k4, k5, k6

ReplicaSlots == NodeIds \X (0..MaxReplicas - 1)

\* Six distinct positions, in every order.
DistinctNodeHashes ==
  {f \in [ReplicaSlots -> {1, 3, 5, 7, 9, 11}] : IsInjective(f)}

\* One key in every gap between the odd positions, none on a position.
GapKeyHash ==
  (k0 :> 0) @@ (k1 :> 2) @@ (k2 :> 4) @@ (k3 :> 6)
    @@ (k4 :> 8) @@ (k5 :> 10) @@ (k6 :> 12)

\* get_key_distribution's input: every key once, one key twice.
GapKeySeq == <<k0, k1, k2, k3, k4, k5, k6, k3>>

GapHashSpace == 0..12

\* Two nodes, one replica each, two distinct positions in either order.
TwoNodeHashes == {f \in [ReplicaSlots -> {1, 3}] : IsInjective(f)}

\* Keys on both positions and in every gap around them.
TieKeyHash == (k0 :> 0) @@ (k1 :> 1) @@ (k2 :> 2) @@ (k3 :> 3) @@ (k4 :> 4)

TieKeySeq == <<k0, k1, k2, k3, k4>>

\* Replicas of one node may share a position; different nodes never do.
SelfCollidingNodeHashes ==
  {f \in [ReplicaSlots -> {1, 3, 5}] :
     \A s, t \in ReplicaSlots : f[s] = f[t] => s[1] = t[1]}

\* Any positions, so two nodes may share one.
AnyNodeHashes == [ReplicaSlots -> {1, 3}]

\* Keys in the gaps of positions drawn from {1, 3, 5}.
SmallGapKeyHash == (k0 :> 0) @@ (k1 :> 2) @@ (k2 :> 4) @@ (k3 :> 6)

SmallGapKeySeq == <<k0, k1, k2, k3>>

NodeSymmetry == Permutations(NodeIds)

=============================================================================
