\* Replicas of two different nodes hash to the same position.
SPECIFICATION Spec
CONSTANTS
  NodeIds = {n1, n2}
  Keys = {k0, k1, k2, k3}
  n1 = n1  n2 = n2  n3 = n3
  k0 = k0  k1 = k1  k2 = k2  k3 = k3  k4 = k4  k5 = k5  k6 = k6
  None = None
  KeySeq <- SmallGapKeySeq
  KeyHash <- SmallGapKeyHash
  ReplicaChoices = {1}
  MaxReplicas = 1
  HashSpace <- GapHashSpace
  NodeHashes <- AnyNodeHashes
  HashFunction = "sha256"
INVARIANT HashIndexAgreement
