------------------------------ MODULE Benchmark ------------------------------
(***************************************************************************)
(* The `benchmark` command of demo.py.  For each node count num_nodes from *)
(* min_nodes to max_nodes it builds a fresh ConsistentHashRing() (sha256), *)
(* adds node-00 .. node-<num_nodes - 1> with `virtual_nodes` replicas      *)
(* each, distributes the test keys, prints a row of statistics and the     *)
(* movement from the previous row's distribution, and keeps this           *)
(* distribution as the previous one.                                       *)
(*                                                                         *)
(* The hashes of the replica strings (nodeHash) are fixed for the whole    *)
(* run, as sha256 is: every ring of the loop places node-<i> at the same   *)
(* positions.  Of the statistics, only what can raise is kept: the         *)
(* average divides by the number of nodes that own a key.                  *)
(***************************************************************************)
EXTENDS HashRing

CONSTANTS
  BenchIds,       \* <<node-00, node-01, ...>>: the ids the loop creates
  MinNodes,       \* --min-nodes
  MaxNodes,       \* --max-nodes
  VirtualNodes    \* --virtual-nodes

ASSUME HashFunction = "sha256"   \* ConsistentHashRing() takes the default
ASSUME BenchIds \in Seq(NodeIds) /\ IsInjective(BenchIds)
ASSUME MinNodes \in Nat /\ MaxNodes \in Nat /\ MaxNodes <= Len(BenchIds)
ASSUME VirtualNodes \in ReplicaChoices

VARIABLES
  phase,   \* "loop" (next iteration), "adding", "done" or "crashed"
  num,     \* num_nodes of the current iteration
  added,   \* nodes added to this iteration's ring so far
  prev,    \* prev_distribution: None, or the last iteration's distribution
  row      \* the last row printed: its node count and the moved keys

benchVars == <<vars, phase, num, added, prev, row>>

NoRow == [nodes |-> 0, moved |-> {}]

-----------------------------------------------------------------------------
\* ring = ConsistentHashRing(): a fresh, empty ring for num_nodes nodes.
NewRing ==
  /\ phase = "loop"
  /\ ring' = <<>>
  /\ nodes' = <<>>
  /\ hash_to_node' = <<>>
  /\ result' = "ok"
  /\ phase' = "adding"
  /\ added' = 0
  /\ UNCHANGED <<nodeHash, num, prev, row>>

\* ring.add_node(Node(f"node-{i:02d}", replicas=virtual_nodes)).
BenchAddNode ==
  /\ phase = "adding"
  /\ added < num
  /\ AddNode(BenchIds[added + 1], VirtualNodes)
  /\ added' = added + 1
  /\ phase' = IF result' = "ok" THEN "adding" ELSE "crashed"
  /\ UNCHANGED <<num, prev, row>>

\* The movement column: get_moved_keys from the previous distribution,
\* computed only when prev_distribution is truthy (not None, not {}).
Movement(d) ==
  IF prev # None /\ DOMAIN prev # {} THEN GetMovedKeys(prev, d) ELSE {}

\* Mutation of Measure: prev_distribution is only set on the first row.
MeasureKeepsFirst ==
  /\ phase = "adding"
  /\ added = num
  /\ LET d == GetKeyDistribution(KeySeq)
     IN IF DistributionRaises(KeySeq) \/ DOMAIN d = {}
          THEN /\ phase' = "crashed"
               /\ UNCHANGED <<prev, num, row>>
          ELSE /\ row' = [nodes |-> num, moved |-> Movement(d)]
               /\ prev' = IF prev = None THEN d ELSE prev
               /\ num' = num + 1
               /\ phase' = IF num + 1 > MaxNodes THEN "done" ELSE "loop"
  /\ UNCHANGED <<vars, added>>

\* Mutation of Measure: the loop runs to max_nodes + 1 (range(min, max + 2)).
MeasurePastMax ==
  /\ phase = "adding"
  /\ added = num
  /\ LET d == GetKeyDistribution(KeySeq)
     IN IF DistributionRaises(KeySeq) \/ DOMAIN d = {}
          THEN /\ phase' = "crashed"
               /\ UNCHANGED <<prev, num, row>>
          ELSE /\ row' = [nodes |-> num, moved |-> Movement(d)]
               /\ prev' = d
               /\ num' = num + 1
               /\ phase' = IF num > MaxNodes THEN "done" ELSE "loop"
  /\ UNCHANGED <<vars, added>>

\* The rest of the iteration: the distribution (get_key_distribution may
\* raise), avg_keys = sum(key_counts) / len(key_counts), which raises
\* ZeroDivisionError when no node owns a key, the movement, the row, and
\* prev_distribution = distribution.
Measure ==
  /\ phase = "adding"
  /\ added = num
  /\ LET d == GetKeyDistribution(KeySeq)
     IN IF DistributionRaises(KeySeq) \/ DOMAIN d = {}
          THEN /\ phase' = "crashed"
               /\ UNCHANGED <<prev, num, row>>
          ELSE /\ row' = [nodes |-> num, moved |-> Movement(d)]
               /\ prev' = d
               /\ num' = num + 1
               /\ phase' = IF num + 1 > MaxNodes THEN "done" ELSE "loop"
  /\ UNCHANGED <<vars, added>>

\* The table has been printed, or an exception ended the command.
Terminated ==
  /\ phase \in {"done", "crashed"}
  /\ UNCHANGED benchVars

-----------------------------------------------------------------------------
BenchInit ==
  /\ Init
  /\ phase = IF MinNodes <= MaxNodes THEN "loop" ELSE "done"
  /\ num = MinNodes
  /\ added = 0
  /\ prev = None
  /\ row = NoRow

BenchNext == NewRing \/ BenchAddNode \/ Measure \/ Terminated

BenchSpec == BenchInit /\ [][BenchNext]_benchVars

-----------------------------------------------------------------------------
(***************************************************************************)
(* Properties                                                              *)
(***************************************************************************)

BenchTypeOK ==
  /\ TypeOK
  /\ phase \in {"loop", "adding", "done", "crashed"}
  /\ num \in MinNodes..(MaxNodes + 1)
  /\ phase \in {"loop", "adding"} => num <= MaxNodes
  /\ added \in 0..num
  /\ row.moved \subseteq Keys

\* Each row's movement, between two rings built independently one node
\* apart, is exactly the set of test keys the one extra node owns: the
\* keys of every other node stay where they were in the previous row.
MovementIsNewNodesShare ==
  phase \in {"loop", "done"} /\ row.nodes > MinNodes =>
    row.moved = {k \in ToSet(KeySeq) : GetNodeForKey(k) = BenchIds[row.nodes]}

\* The benchmark prints its whole table without an uncaught exception.
BenchNeverCrashes == phase # "crashed"

=============================================================================
