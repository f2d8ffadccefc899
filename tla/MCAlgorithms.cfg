\* bisect_right over every table of up to four entries, two nodes, hashes 1..3;
\* FNV-1a on its test vectors and on demo --hash fnv1a --nodes 100
\* --virtual-nodes 100 --keys 1000.
SPECIFICATION Spec
CONSTANTS
  Ids = {a1, a2}
  None = None
  Hashes = {1, 2, 3}
  MaxLen = 4
  DemoNodes = 100
  DemoReplicas = 100
  DemoKeys = 1000
INVARIANT BisectMatchesReference DemoPositionsDistinct Fnv1aMatchesReference
