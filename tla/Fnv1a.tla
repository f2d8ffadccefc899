------------------------------- MODULE Fnv1a -------------------------------
(***************************************************************************)
(* The fast hash strategy, 32-bit FNV-1a, as Node._hash_string (node.py)   *)
(* and ConsistentHashRing._hash_key (ring.py) each compute it, and the     *)
(* strings the CLI feeds it: the node ids and replica ids of demo.py and   *)
(* node.py, and the test keys of generate_test_keys.  A string is the      *)
(* sequence of its bytes (value.encode(); every character used is ASCII).  *)
(*                                                                         *)
(* TLC's integers are narrower than 2^32, so a 32-bit value is the pair    *)
(* <<hi, lo>> of its 16-bit halves, and the multiplication is done on the  *)
(* halves with its carry; the `& 0xFFFFFFFF` of the code is the reduction  *)
(* of the high half mod 2^16.  sha256 is not modelled here.                *)
(***************************************************************************)
EXTENDS Integers, SequencesExt, Bitwise

Half == 2^16

\* hash_value = 2166136261, the FNV offset basis 0x811C9DC5.
OffsetBasis == <<\h811C, \h9DC5>>

\* Mutation of MulPrime: the product is masked to 16 bits (& 0xFFFF).
MulPrimeLow16(w) == <<0, (w[2] * \h0193) % Half>>

\* hash_value *= 16777619; hash_value &= 0xFFFFFFFF.  The prime is
\* 0x01000193 = 0x0100 * 2^16 + 0x0193; of the product of the halves only
\* what lands below 2^32 is kept.
MulPrime(w) ==
  LET low == w[2] * \h0193
  IN <<(w[1] * \h0193 + w[2] * \h0100 + low \div Half) % Half, low % Half>>

\* hash_value ^= byte: a byte only touches the low half.
XorByte(w, b) == <<w[1], w[2] ^^ b>>

\* Mutation of HashKeyFnv1a: multiply before xor (FNV-1, not FNV-1a).
HashKeyFnv1(key) ==
  FoldLeft(LAMBDA h, b : XorByte(MulPrime(h), b), OffsetBasis, key)

\* Node._hash_string(value, "fnv1a"): xor then multiply, for each byte.
HashStringFnv1a(value) ==
  FoldLeft(LAMBDA h, b : MulPrime(XorByte(h, b)), OffsetBasis, value)

\* ConsistentHashRing._hash_key(key) with hash_function "fnv1a": the same
\* loop, written a second time in ring.py.
HashKeyFnv1a(key) ==
  FoldLeft(LAMBDA h, b : MulPrime(XorByte(h, b)), OffsetBasis, key)

-----------------------------------------------------------------------------
(* The strings, built the way the f-strings build them.                   *)

\* str(n) of a non-negative int: its decimal digits, no padding.
RECURSIVE Decimal(_)
Decimal(n) == IF n < 10 THEN <<48 + n>> ELSE Decimal(n \div 10) \o <<48 + (n % 10)>>

\* The format spec {n:0wd}: zero-padded to at least w digits.
ZeroPad(n, w) == [j \in 1..(w - Len(Decimal(n))) |-> 48] \o Decimal(n)

\* demo(): Node(f"node-{i:02d}", ...).
NodeId(i) == <<110, 111, 100, 101, 45>> \o ZeroPad(i, 2)

\* get_hash_values: replica_id = f"{self.node_id}-{replica}".
ReplicaId(nodeId, replica) == nodeId \o <<45>> \o Decimal(replica)

\* generate_test_keys(count) for count <= 1000: f"{prefix}_{i:04d}" with
\* prefix "key", for i in range(count).
GenerateTestKeys(count) == [i \in 1..count |-> <<107, 101, 121, 95>> \o ZeroPad(i - 1, 4)]

=============================================================================
