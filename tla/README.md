# TLA+ models of consistent_hash_lab

Model-checking project for `src/python/consistent_hash_lab`: a consistent
hash ring (`ring.py`), its nodes (`node.py`) and a CLI demo that drives them
(`demo.py`).

## 1. Inventory

### Components

| Component | Source | State | Operations |
|---|---|---|---|
| `ConsistentHashRing` | `ring.py` | `ring`: list of `(hash_value, Node)` kept sorted by `bisect.insort`; `nodes`: `node_id -> Node`; `hash_to_node`: `hash_value -> Node`; `hash_function` name | `add_node`, `remove_node`, `get_node_for_key`, `get_key_distribution`, `get_moved_keys`, `get_ring_state`, `_hash_key`, `__len__`, `__str__` |
| `Node` | `node.py` | `node_id`, `replicas`, `weight` (inert) | `get_hash_values` (hashes of `"<id>-<i>"`, i < replicas), `_hash_string`, `__eq__`/`__hash__` by `node_id` |
| Hash functions | `node.py`, `ring.py` | none | sha256 (256-bit), fnv1a (32-bit); any other name raises `ValueError` when first used |
| CLI demo | `demo.py` | the ring, the key list, the original distribution | `demo`, `interactive_mode` (add / remove / status / quit), `benchmark`, rendering helpers |

### How they interact

The demo and the tests are the ring's callers. The ring asks each `Node` for
its replica hashes (passing its own hash function name), inserts each
`(hash, node)` tuple into its sorted list, and indexes the hash in
`hash_to_node`. `remove_node` asks the registered `Node` again for its
hashes and deletes only the ones still in `hash_to_node`. Lookups
binary-search the list with the tuple `(key_hash, None)` and wrap to index 0
past the end. Distributions group keys by lookup result; `get_moved_keys`
compares two distributions.

Everything is single-threaded and synchronous: nothing runs concurrently,
nothing is persisted, there are no messages or timeouts. What is hard is:

* **Python tuple comparison.** At equal hashes, `<` on the tuples compares
  the second components. Two different `Node`s, or `None` and a `Node`,
  cannot be ordered, so the comparison raises `TypeError`. Such ties are
  very rare with sha256 but possible with 32-bit fnv1a.
* **Partial failure.** `add_node` registers the node before it computes
  the hashes, and writes `hash_to_node` before each insort. An exception
  in the middle leaves the ring half updated.
* **A redundant index.** `remove_node` trusts `hash_to_node` instead of
  the table. Once the two disagree, tuples are never removed.
* **Circular lookup.** The `bisect_right` bounds, the tie rule and the wrap
  to index 0 must agree with the clockwise rule in the spec.
* **Long call sequences.** Adds, failed adds, removes and re-adds must keep
  the registry, the table and the index in agreement.

### What makes each component correct

* Ring: the registry and the table agree: each node has exactly
  `replicas` positions, there are no orphan positions, and positions are
  unique (spec §3, §7). `hash_to_node` matches the table. A lookup returns
  the clockwise successor, with the spec's tie rule and wrap (§4.3). Adding
  a node moves keys only to it; removing one moves only its keys (§8). A
  failed call changes nothing. `get_moved_keys` reports exactly the keys
  whose owner changed.
* Node: positions depend only on `node_id` and the replica index. Identity
  is `node_id`.
* Demo: the movement it prints for each add or remove is that operation's
  true movement. Its statistics never divide by zero.

`PROJECT.json` lists the hazards: the places where the code is exposed, and
the properties that cover each one.

## 2. Modules

| Module | Models | Notes |
|---|---|---|
| `PyBisect` | tuple `<` at `ring.py:57,105` with `Node.__eq__`; `bisect_right` / `insort` search | pure operators; `BisectFrom` is the CPython loop, written as a RECURSIVE operator |
| `Fnv1a` | FNV-1a exactly as both copies compute it (`node.py:65-72`, `ring.py:179-186`), and the strings the CLI hashes: `f"node-{i:02d}"`, `f"{node_id}-{replica}"`, `f"key_{i:04d}"` | a 32-bit value is the pair of its 16-bit halves, because TLC's integers are narrower than 2^32; `MulPrime` is the product with its carry, and `% 2^16` of the high half is the `& 0xFFFFFFFF`; strings are byte sequences; `Decimal` is `str(n)`, written as a RECURSIVE operator |
| `MCAlgorithms` | checks the pure algorithms against references: `PyBisect` on every table of at most 4 entries, `Fnv1a` on its published test vectors and on the demo's own ids and keys | one variable, `input`: each state is one input checked |
| `HashRing` | `ConsistentHashRing` and `Node.get_hash_values` | variables `ring`, `nodes`, `hash_to_node` (the object's fields), `nodeHash` (replica hashes, chosen in Init, never changed), `result` (how the last call ended) |
| `AbstractRing` | what the ring promises (spec §4.3, §8): members and the owner of each key | `HashRing` refines it |
| `MCHashRing` | TLC instantiation: node and key model values, hash sets | one `.cfg` per question |
| `DemoSession` | `demo.py`: `demo()` setup and `interactive_mode` | extends `HashRing`; adds `phase`, `original` (`original_distribution`), `originalNodes` (history: the ids at the start of the session), `report` (the last movement printed) |
| `Benchmark` | `demo.py`: `benchmark` | extends `HashRing`; adds `phase`, `num` (`num_nodes`), `added`, `prev` (`prev_distribution`), `row` (the last row printed) |
| `MCDemoSession`, `MCBenchmark` | TLC instantiations | reuse the hash and key sets of `MCHashRing` |

### How `HashRing` corresponds to the code

* `AddNode(id, r)` is `add_node(Node(id, replicas=r))` for a new id. It
  registers the node, then (if the hash name is supported) folds
  `AddReplica` over `get_hash_values`. Each `AddReplica` writes
  `hash_to_node[h]`, then runs insort. A raising insort stops the loop and
  keeps what was already written; `result` becomes `"TypeError"`. An
  unsupported name gives `"ValueError"` after the registration.
* `AddDuplicateNode(id)` is the `ValueError` raised at line 46, before any
  write.
* `RemoveNode(id)` folds `RemoveReplica` over the registered node's hashes.
  Only a hash still present in `hash_to_node` is deleted from the index and
  from the table (`list.remove` of the first equal tuple, whose
  `ValueError` is swallowed). Then the node is unregistered.
  `RemoveAbsentNode` is the `None` return.
* `GetNodeForKey`, `GetKeyDistribution` and `GetMovedKeys` are operators:
  these calls change no state, so every state is checked with every key.
* Hashing is abstract. The ring only compares hash values, so a model
  hash is a small integer. Replica hashes are drawn in Init from
  `NodeHashes`; key hashes are the constant `KeyHash`, with one key at every
  point of interest.

### How the demo modules correspond to the code

Both modules compose `HashRing`. A command of the CLI is one action, and
the ring call inside it is the `HashRing` action itself. So every failure
path of the ring is inherited. An exception that `demo.py` does not catch
sets `phase` to `"crashed"`, which is a final state. The ring call, the
snapshots and the prints all reach it in the order the code runs them.

* `SetupAddNode` is one iteration of `demo()`'s loop of initial nodes,
  with `replicas=virtual_nodes`.
* `FinishSetup(interactive)` stands for three steps of `demo()`:
  * it computes and shows the initial distribution;
  * without `--interactive` the command then ends;
  * otherwise `interactive_mode` takes `original_distribution`.
* `Quit`, `Status`, `RejectAdd`, `RejectRemove`, `CmdAdd` and `CmdRemove`
  are the branches of the command loop.
* `Changed` is what add and remove share:
  1. the before snapshot;
  2. the ring call;
  3. the after snapshot;
  4. `get_moved_keys` and the percentage.
* `Printable` is that percentage: it raises `ZeroDivisionError` on an
  empty key list.
* Command parsing and unknown commands change nothing. They are stuttering
  steps and are left out. Interactive ids are any of `NodeIds`, so they
  may coincide with the initial ones, as `node-00` typed at the prompt
  does.
* `Benchmark` has four actions:
  * `NewRing` is `ConsistentHashRing()`;
  * `BenchAddNode` adds `BenchIds[added+1]`;
  * `Measure` is the rest of an iteration. It computes the distribution,
    then the average, which divides by the number of owners. Then it takes
    the movement, guarded by `if prev_distribution`, prints the row, and
    sets `prev_distribution`;
  * `Terminated` is the printed table.
* `nodeHash` is fixed for the whole run, so the separately built rings
  place each node at the same positions, as sha256 does.

## 3. Runs

| Run | Config | Expect | What it shows |
|---|---|---|---|
| `ring_core` | `MCHashRing.cfg` | pass | No collisions (the sha256 world). 3 nodes, 1 or 2 replicas each, every order of 6 distinct positions, keys in all 7 gaps. Checks `TypeOK`, `RegistryAgreement`, `HashIndexAgreement`, `LookupIsClockwiseSuccessor`, `RefinesAbstract` (minimal disruption) and `MovementReport`. 8,640 distinct states, about 2 min. |
| `algorithms_reference` | `MCAlgorithms.cfg` | pass | `BisectMatchesReference`: `bisect_right` equals the reference on 1,935 table/probe pairs, and a probe tied with another node's tuple always raises, whatever path the search takes. `Fnv1aMatchesReference`: both FNV-1a copies give the published values for `""`, `"a"` and `"foobar"`; swapping xor and multiply (FNV-1) breaks it. `DemoPositionsDistinct`: with `demo --hash fnv1a --nodes 100 --virtual-nodes 100 --keys 1000`, the 10,000 replicas sit on 10,000 distinct positions and none of the 1,000 test keys hashes onto one. So the collisions of `cross_node_collision` and `key_tie` do not arise from the CLI's own ids at these sizes, and a 16-bit mask would make them arise. Interactive ids can still collide (see the `cross_node_collision` finding). 1,939 distinct states, about 15 s. |
| `key_tie` | `MCHashRing_tie.cfg` | violation | A key whose hash equals a position: the lookup raises `TypeError` instead of returning the next position (§4.3). |
| `replica_self_collision` | `MCHashRing_selfcollision.cfg` | violation | Add a node whose two replicas collide, then remove it: an orphan tuple remains, and keys stay owned by the removed node. |
| `unsupported_hash` | `MCHashRing_unsupported.cfg` | violation | `"md5"`: the ring is built, and `add_node` registers a node without positions. |
| `cross_node_collision` | `MCHashRing_crosscollision.cfg` | violation | Two nodes on one position: insort raises after `hash_to_node` was redirected. |
| `zero_replicas` | `MCHashRing_zeroreplicas.cfg` | violation | `replicas=0`: a member with no positions, and no key has an owner. |
| `demo_session` | `MCDemoSession.cfg` | pass | `demo --hash fnv1a --virtual-nodes 1 --interactive`, with three ids of one replica at any of three positions, so nodes may share one. Covers 0 to 3 initial nodes, then any sequence of add, remove, status, rejected commands and quit. Checks `ImpactIsExact`: the printed impact of an add is the keys the new node owns, and of a remove, the keys the removed node owned. Checks `StatusMatchesMembership`: status reports no movement whenever the ids are back to the original ones. Checks `NoCommandOnHalfUpdatedRing`: while the CLI runs, the registry, the table and the index agree. A failed `add_node` is never caught, so no command runs on a half-updated ring; with a `try/except` around the ring call (the mutant), one does. 2,106 distinct states. |
| `demo_virtual_nodes` | `MCDemoSession_virtualnodes.cfg` | violation | `--virtual-nodes 2`: remove `n1`, add `n1` back (with one replica, `demo.py:196`), then status. The ids are the original ones, yet keys are reported moved. Reproduced in Python: 71 of 1000 keys with 4 nodes of 3 replicas. |
| `demo_no_keys` | `MCDemoSession_nokeys.cfg` | violation | `--keys 0`: the first status divides by `len(test_keys)` = 0 (`demo.py:178`); add and remove do the same. |
| `benchmark_rows` | `MCBenchmark.cfg` | pass | `benchmark --min-nodes 1 --max-nodes 3 --virtual-nodes 2`, every order of six distinct positions. Checks `BenchTypeOK` and `MovementIsNewNodesShare`: each row's movement is exactly the keys of the node the larger ring adds. 9,360 distinct states. |
| `benchmark_min_zero` | `MCBenchmark_minzero.cfg` | violation | `--min-nodes 0`: the first ring is empty, and `avg_keys` divides by `len(key_counts)` = 0 (`demo.py:277`). |

Every property of a passing run has a mutant in `PROJECT.json`: a plausible
bug in the mapped code that TLC must catch.

### Bounds and why they are enough

* Three nodes is the smallest number where a removal can hand keys to a
  node other than "the only one left". It is also the smallest where an
  addition splits one arc among several.
* Two replicas give interleaved arcs of one node, and removals that delete
  several tuples.
* Six distinct positions in all 720 orders (120 up to node symmetry) cover
  every arrangement. Keys on all 7 gaps cover every placement, including
  below the first position and above the last (the wrap).
* Each violation config is the smallest that admits its collision.
* `algorithms_reference`: the FNV check uses the CLI's real strings:
  `--nodes` up to 100, covering every two-digit id, and 100 replicas,
  where the replica suffix reaches two digits. The 1,000 keys are the
  most `generate_test_keys` numbers; above 1,000 its keys are random.
  These 11,000 hashes take about 10 s to compute.
* `demo_session`: one replica (`--virtual-nodes 1`, and interactive adds
  always use 1). Three ids take any of three positions: every
  arrangement, and every collision between nodes. There are keys in all
  four gaps. A self-collision needs two replicas; `replica_self_collision`
  covers it. A remove and re-add of an
  initial node, or of a node added during the session, takes 4 steps
  after setup; the depth is 10.
* `benchmark_rows`: three rows, so a row can be compared against a
  distribution two rows old. This is the case where a stale
  `prev_distribution` differs from the right one.

Node symmetry is sound: node ids are model values, compared only for
equality, and every hash set is closed under renaming them. `MCBenchmark`
has no symmetry, because the loop adds the ids in a fixed order.

### Fairness and liveness

No run has fairness or liveness properties. Each ring operation is a
synchronous call that either returns or raises. Nothing waits on anything,
so there is nothing that must eventually happen. The interactive loop
runs until the user types quit, and no fairness can be assumed of a user.
The benchmark loop is a `for` over a `range` and cannot fail to end, so a
termination property would hold whatever the code did. The deadlock check
covers the loop instead: the only final states are `"done"` and
`"crashed"`, and their `Terminated` step is the only one enabled there.

## 4. Not modelled, and why

* The sha256 digest is out of TLC's reach. In `HashRing` both digests are
  abstract: only the order and the collisions of their outputs affect the
  ring, and the hash sets enumerate those. FNV-1a itself is modelled in
  `Fnv1a`.
* `get_ring_state`, `__len__`, `__str__`, and `Node.__str__`/`__repr__`:
  read-only or formatting.
* `weight`: inert metadata (spec §9).
* `generate_test_keys` above 1,000 keys, which draws random strings. The
  numbered branch is modelled in `Fnv1a`. In the ring models the key list
  is the constant `KeySeq`.
* `show_key_distribution`, `show_ring_state` and the console output:
  rendering. `show_key_distribution`'s divisions are guarded and raise
  nothing.
* Command parsing (`strip().lower()`, `split()`, usage messages): a
  malformed command changes nothing.
* `__init__.py`: version and author strings.

## 5. Plan

Done:
1. The ring's state machine (`HashRing`).
2. Its lookup algorithm (`PyBisect`, with a reference check).
3. The abstract ring and the refinement.
4. One violation run for each collision or validation gap.
5. The CLI as a client of the ring (`DemoSession`, `Benchmark`), with the
   movement it prints and its uncaught exceptions.
6. The CLI in the collision world (`demo_session`): a partial failure of
   the ring is never seen by a later command.
7. FNV-1a with its 32-bit arithmetic (`Fnv1a`), checked on test vectors
   and on the demo's real ids and keys (`algorithms_reference`).

Next:

1. Self-collision cycles: each add/remove of a node whose replicas
   collide leaves one more orphan tuple. This was reproduced in Python and
   is listed as a hazard. The `replica_self_collision` run stops at the
   first orphan. A bounded run that counts orphans would need a cap on the
   cycles, and it would restate the same finding.
2. The `Node.replicas` attribute mutated after `add_node` (hazard at
   `ring.py:73`). No caller in the repository does this, so it stays a
   hazard without a property unless a caller appears.
3. Larger `DemoPositionsDistinct` bounds. Checked in Python, the demo's own
   ids stay collision-free up to `--virtual-nodes 3000`. TLC would need
   minutes per 10,000 more hashes.
