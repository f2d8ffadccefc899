\* demo --keys 0 --interactive.
SPECIFICATION DemoSpec
CONSTANTS
  NodeIds = {n1, n2}
  Keys = {k0, k1, k2, k3}
  n1 = n1  n2 = n2  n3 = n3
  k0 = k0  k1 = k1  k2 = k2  k3 = k3  k4 = k4  k5 = k5  k6 = k6
  None = None
  KeySeq <- NoKeySeq
  KeyHash <- SmallGapKeyHash
  ReplicaChoices = {1}
  MaxReplicas = 1
  HashSpace <- GapHashSpace
  NodeHashes <- OneReplicaNodeHashes
  HashFunction = "sha256"
  VirtualNodes = 1
SYMMETRY NodeSymmetry
INVARIANT NeverCrashes
