\* demo --virtual-nodes 2 --interactive: the interactive add re-creates a
\* removed node with one replica.
SPECIFICATION DemoSpec
CONSTANTS
  NodeIds = {n1, n2}
  Keys = {k0, k1, k2, k3, k4}
  n1 = n1  n2 = n2  n3 = n3
  k0 = k0  k1 = k1  k2 = k2  k3 = k3  k4 = k4  k5 = k5  k6 = k6
  None = None
  KeySeq <- FourGapKeySeq
  KeyHash <- FourGapKeyHash
  ReplicaChoices = {1, 2}
  MaxReplicas = 2
  HashSpace <- GapHashSpace
  NodeHashes <- TwoReplicaNodeHashes
  HashFunction = "sha256"
  VirtualNodes = 2
SYMMETRY NodeSymmetry
INVARIANT StatusMatchesMembership
