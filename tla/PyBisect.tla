------------------------------ MODULE PyBisect ------------------------------
(***************************************************************************)
(* The ordering the ring relies on: Python's `<` on the tuples             *)
(* (hash_value, node) that ConsistentHashRing keeps in self.ring, and the  *)
(* binary search of bisect.bisect_right / bisect.insort over them          *)
(* (src/python/consistent_hash_lab/ring.py lines 57 and 105).  A node is   *)
(* its node_id (Node.__eq__ compares node_id only); a lookup probes with   *)
(* (key_hash, None).                                                       *)
(*                                                                         *)
(* Tuples compare by their first component and, when the hashes are       *)
(* equal, by their second: equal objects (the same node_id) compare as not *)
(* less, anything else raises TypeError, because Node defines __eq__ but   *)
(* no ordering and None cannot be ordered against a Node.                  *)
(***************************************************************************)
EXTENDS Integers, Sequences

\* The result of a search whose comparison raised TypeError.
Raised == -1

\* Mutation of TupleLess: equal tuples compare as less (bisect_left).
TupleLessLeft(x, e) ==
  CASE x[1] < e[1] -> "lt"
    [] x[1] > e[1] -> "ge"
    [] x[2] = e[2] -> "lt"
    [] OTHER       -> "raise"

\* x < e for x = (hash, node-or-None) and e = (hash, node): "lt", "ge",
\* or "raise".
TupleLess(x, e) ==
  CASE x[1] < e[1] -> "lt"
    [] x[1] > e[1] -> "ge"
    [] x[2] = e[2] -> "ge"
    [] OTHER       -> "raise"

\* bisect_right's loop over a (indices 0-based as in Python):
\*   while lo < hi: mid = (lo+hi)//2
\*                  if x < a[mid]: hi = mid else: lo = mid+1
RECURSIVE BisectFrom(_, _, _, _)
BisectFrom(a, x, lo, hi) ==
  IF lo >= hi THEN lo
  ELSE LET mid == (lo + hi) \div 2
           c   == TupleLess(x, a[mid + 1])
       IN CASE c = "raise" -> Raised
            [] c = "lt"    -> BisectFrom(a, x, lo, mid)
            [] OTHER       -> BisectFrom(a, x, mid + 1, hi)

BisectRight(a, x) == BisectFrom(a, x, 0, Len(a))

=============================================================================
