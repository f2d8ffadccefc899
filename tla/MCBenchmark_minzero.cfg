\* benchmark --min-nodes 0: the first ring has no node.
SPECIFICATION BenchSpec
CONSTANTS
  NodeIds = {n1, n2, n3}
  Keys = {k0, k1, k2, k3, k4, k5, k6}
  n1 = n1  n2 = n2  n3 = n3
  k0 = k0  k1 = k1  k2 = k2  k3 = k3  k4 = k4  k5 = k5  k6 = k6
  None = None
  KeySeq <- GapKeySeq
  KeyHash <- GapKeyHash
  ReplicaChoices = {2}
  MaxReplicas = 2
  HashSpace <- GapHashSpace
  NodeHashes <- DistinctNodeHashes
  HashFunction = "sha256"
  BenchIds <- BenchOrder
  MinNodes = 0
  MaxNodes = 3
  VirtualNodes = 2
INVARIANT BenchNeverCrashes
