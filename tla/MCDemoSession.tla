---------------------------- MODULE MCDemoSession ----------------------------
(***************************************************************************)
(* Instantiates DemoSession for TLC, with the key and hash sets of         *)
(* MCHashRing.                                                             *)
(***************************************************************************)
EXTENDS DemoSession, MCHashRing

\* Three nodes of one replica at three distinct positions.
OneReplicaNodeHashes ==
  {f \in [ReplicaSlots -> {1, 3, 5}] : IsInjective(f)}

\* Two nodes of two replicas at four distinct positions, in every order.
TwoReplicaNodeHashes ==
  {f \in [ReplicaSlots -> {1, 3, 5, 7}] : IsInjective(f)}

\* Three nodes of one replica at any of three positions: different nodes
\* may share one (the 32-bit fnv1a world).
OneReplicaAnyHashes == [ReplicaSlots -> {1, 3, 5}]

\* Keys in the gaps of positions drawn from {1, 3, 5, 7}.
FourGapKeyHash == SmallGapKeyHash @@ (k4 :> 8)

FourGapKeySeq == <<k0, k1, k2, k3, k4>>

\* demo --keys 0: generate_test_keys(0) is the empty list.
NoKeySeq == <<>>

=============================================================================
