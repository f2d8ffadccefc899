\* No hash collisions: every order of positions, a key in every gap.
SPECIFICATION Spec
CONSTANTS
  NodeIds = {n1, n2, n3}
  Keys = {k0, k1, k2, k3, k4, k5, k6}
  n1 = n1  n2 = n2  n3 = n3
  k0 = k0  k1 = k1  k2 = k2  k3 = k3  k4 = k4  k5 = k5  k6 = k6
  None = None
  KeySeq <- GapKeySeq
  KeyHash <- GapKeyHash
  ReplicaChoices = {1, 2}
  MaxReplicas = 2
  HashSpace <- GapHashSpace
  NodeHashes <- DistinctNodeHashes
  HashFunction = "sha256"
SYMMETRY NodeSymmetry
INVARIANT TypeOK RegistryAgreement HashIndexAgreement LookupIsClockwiseSuccessor
PROPERTY RefinesAbstract MovementReport
