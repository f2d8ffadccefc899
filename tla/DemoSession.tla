----------------------------- MODULE DemoSession -----------------------------
(***************************************************************************)
(* The `demo` command of demo.py with its interactive mode: the CLI as a   *)
(* client of the ring.  `demo` adds the initial nodes, each with           *)
(* `virtual_nodes` replicas, then either ends or enters interactive_mode,  *)
(* which snapshots the original distribution of the test keys and loops    *)
(* over the commands add <id>, remove <id>, status and quit.  Each         *)
(* command that changes the ring takes a distribution before and after     *)
(* the call and prints the moved keys and their share of the test keys.    *)
(*                                                                         *)
(* An exception raised by the ring, or a ZeroDivisionError in the          *)
(* percentage, is not caught anywhere in demo.py: the command ends and the *)
(* process exits ("crashed").  Rendering (tables, bars, statistics) is     *)
(* left out, except show_key_distribution's guard, which raises nothing.   *)
(* Command parsing is left out: an unparsable command prints a message and *)
(* changes nothing, which is a stuttering step.                            *)
(***************************************************************************)
EXTENDS HashRing

CONSTANTS
  VirtualNodes    \* --virtual-nodes: replicas of each initial node

ASSUME VirtualNodes \in ReplicaChoices /\ 1 \in ReplicaChoices

VARIABLES
  phase,          \* "setup", "interactive", "done" or "crashed"
  original,       \* original_distribution of interactive_mode
  originalNodes,  \* history: the node ids when interactive_mode began
  report          \* the last movement printed: the command and the keys

demoVars == <<vars, phase, original, originalNodes, report>>

Phases == {"setup", "interactive", "done", "crashed"}

NoReport == [cmd |-> "none", moved |-> {}]

\* The program stops on an uncaught exception; nothing else changes.
Crash ==
  /\ phase' = "crashed"
  /\ UNCHANGED <<vars, original, originalNodes, report>>

\* The printed count of moved keys, or a ZeroDivisionError when the key
\* list is empty: movement_percentage = len(moved_keys) / len(test_keys).
Printable(cmd, moved) ==
  IF KeySeq = <<>> THEN phase' = "crashed" /\ UNCHANGED report
  ELSE /\ report' = [cmd |-> cmd, moved |-> moved]
       /\ UNCHANGED phase

-----------------------------------------------------------------------------
\* demo(): one iteration of the loop adding the initial nodes
\* node-00, node-01, ..., each with replicas=virtual_nodes.
SetupAddNode(id) ==
  /\ phase = "setup"
  /\ AddNode(id, VirtualNodes)
  /\ phase' = IF result' = "ok" THEN "setup" ELSE "crashed"
  /\ UNCHANGED <<original, originalNodes, report>>

\* demo() after its loop: the initial distribution is computed (and shown),
\* then the command ends, or interactive_mode snapshots the distribution.
FinishSetup(interactive) ==
  /\ phase = "setup"
  /\ IF DistributionRaises(KeySeq) THEN Crash
     ELSE /\ phase' = IF interactive THEN "interactive" ELSE "done"
          /\ original' = IF interactive THEN GetKeyDistribution(KeySeq)
                                        ELSE original
          /\ originalNodes' = IF interactive THEN DOMAIN nodes
                                             ELSE originalNodes
          /\ UNCHANGED <<vars, report>>

\* quit / q
Quit ==
  /\ phase = "interactive"
  /\ phase' = "done"
  /\ UNCHANGED <<vars, original, originalNodes, report>>

\* Mutation of Status: original_distribution is refreshed by each status.
StatusRefreshesOriginal ==
  /\ phase = "interactive"
  /\ IF DistributionRaises(KeySeq) THEN Crash
     ELSE LET current == GetKeyDistribution(KeySeq)
          IN /\ Printable("status", GetMovedKeys(original, current))
             /\ original' = current
             /\ UNCHANGED <<vars, originalNodes>>

\* status / s: movement of the current distribution from the original.
Status ==
  /\ phase = "interactive"
  /\ IF DistributionRaises(KeySeq) THEN Crash
     ELSE /\ Printable("status",
                       GetMovedKeys(original, GetKeyDistribution(KeySeq)))
          /\ UNCHANGED <<vars, original, originalNodes>>

\* add <id> for an id already in ring.nodes: "Node <id> already exists",
\* and the ring is not called.
RejectAdd(id) ==
  /\ phase = "interactive"
  /\ id \in DOMAIN nodes
  /\ report' = [cmd |-> "error", moved |-> {}]
  /\ UNCHANGED <<vars, phase, original, originalNodes>>

\* remove <id> for an id not in ring.nodes: "Node <id> not found", and the
\* ring is not called.
RejectRemove(id) ==
  /\ phase = "interactive"
  /\ id \notin DOMAIN nodes
  /\ report' = [cmd |-> "error", moved |-> {}]
  /\ UNCHANGED <<vars, phase, original, originalNodes>>

\* Mutation of Changed: the ring call is wrapped in try/except, and an
\* exception is printed as an error and the session goes on.
ChangedCatches(cmd, call) ==
  IF DistributionRaises(KeySeq) THEN Crash
  ELSE /\ call
       /\ UNCHANGED <<original, originalNodes>>
       /\ IF result' # "ok" \/ DistributionRaises(KeySeq)'
            THEN /\ report' = [cmd |-> "error", moved |-> {}]
                 /\ UNCHANGED phase
            ELSE Printable(cmd, GetMovedKeys(GetKeyDistribution(KeySeq),
                                             GetKeyDistribution(KeySeq)'))

\* The ring call of an add or remove command between its two snapshots;
\* `call` is the HashRing action.  An exception from either snapshot or
\* from the call ends the program.
Changed(cmd, call) ==
  IF DistributionRaises(KeySeq) THEN Crash
  ELSE /\ call
       /\ UNCHANGED <<original, originalNodes>>
       /\ IF result' # "ok" \/ DistributionRaises(KeySeq)'
            THEN /\ phase' = "crashed"
                 /\ UNCHANGED report
            ELSE Printable(cmd, GetMovedKeys(GetKeyDistribution(KeySeq),
                                             GetKeyDistribution(KeySeq)'))

\* Mutation of CmdAdd: the "before" snapshot is taken after the add.
CmdAddSnapshotAfter(id) ==
  /\ phase = "interactive"
  /\ id \notin DOMAIN nodes
  /\ AddNode(id, 1)
  /\ UNCHANGED <<original, originalNodes>>
  /\ Printable("add", GetMovedKeys(GetKeyDistribution(KeySeq)',
                                   GetKeyDistribution(KeySeq)'))

\* add <id> for a new id: Node(id, replicas=1), whatever virtual_nodes is.
CmdAdd(id) ==
  /\ phase = "interactive"
  /\ id \notin DOMAIN nodes
  /\ Changed("add", AddNode(id, 1))

\* remove <id> for a registered id (remove_node then returns the Node,
\* which is truthy, so the "Failed to remove" branch is dead).
CmdRemove(id) ==
  /\ phase = "interactive"
  /\ id \in DOMAIN nodes
  /\ Changed("remove", RemoveNode(id))

\* After quit or a crash the program has ended.
Terminated ==
  /\ phase \in {"done", "crashed"}
  /\ UNCHANGED demoVars

-----------------------------------------------------------------------------
DemoInit ==
  /\ Init
  /\ phase = "setup"
  /\ original = <<>>
  /\ originalNodes = {}
  /\ report = NoReport

DemoNext ==
  \/ \E id \in NodeIds : SetupAddNode(id)
  \/ \E interactive \in BOOLEAN : FinishSetup(interactive)
  \/ Quit
  \/ Status
  \/ \E id \in NodeIds :
       RejectAdd(id) \/ RejectRemove(id) \/ CmdAdd(id) \/ CmdRemove(id)
  \/ Terminated

DemoSpec == DemoInit /\ [][DemoNext]_demoVars

-----------------------------------------------------------------------------
(***************************************************************************)
(* Properties                                                              *)
(***************************************************************************)

\* The owner of every key, as get_node_for_key returns it.
Owner == [k \in Keys |-> GetNodeForKey(k)]

\* The impact an add or remove command prints is exactly the consistent-
\* hashing movement: after `add <id>`, the test keys the new node now
\* owns; after `remove <id>`, the test keys the removed node owned.
ImpactIsExact ==
  [][phase' = "interactive" /\ report'.cmd \in {"add", "remove"} =>
       \A before \in {Owner}, after \in {Owner'} :
         LET owned(o, ids) == {k \in ToSet(KeySeq) : o[k] \in ids}
         IN report'.moved = owned(after, DOMAIN nodes' \ DOMAIN nodes)
                              \cup owned(before, DOMAIN nodes \ DOMAIN nodes')
    ]_demoVars

\* Ownership depends on the membership only: whenever the session's node
\* ids are again those it started with, however many adds and removes led
\* there, status reports that no key moved.
StatusMatchesMembership ==
  phase = "interactive" /\ report.cmd = "status" /\ DOMAIN nodes = originalNodes
    => report.moved = {}

\* A half-done add_node (the node registered and hash_to_node redirected,
\* its tuple not inserted) is never seen by a later command or by the
\* end of setup: every exception of the ring ends the program, so as long
\* as the CLI runs, registry, table and index agree.
NoCommandOnHalfUpdatedRing ==
  phase # "crashed" => RegistryAgreement /\ HashIndexAgreement

\* No command ends the program with an uncaught exception.
NeverCrashes == phase # "crashed"

=============================================================================
