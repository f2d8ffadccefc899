\* A key whose hash equals a position: spec 4.3 says the next position owns it.
SPECIFICATION Spec
CONSTANTS
  NodeIds = {n1, n2}
  Keys = {k0, k1, k2, k3, k4}
  n1 = n1  n2 = n2  n3 = n3
  k0 = k0  k1 = k1  k2 = k2  k3 = k3  k4 = k4  k5 = k5  k6 = k6
  None = None
  KeySeq <- TieKeySeq
  KeyHash <- TieKeyHash
  ReplicaChoices = {1}
  MaxReplicas = 1
  HashSpace <- GapHashSpace
  NodeHashes <- TwoNodeHashes
  HashFunction = "sha256"
INVARIANT LookupIsClockwiseSuccessor
