----------------------------- MODULE MCBenchmark -----------------------------
(***************************************************************************)
(* Instantiates Benchmark for TLC, with the key and hash sets of           *)
(* MCHashRing.  No symmetry: the loop adds the ids in a fixed order.       *)
(***************************************************************************)
EXTENDS Benchmark, MCHashRing

\* node-00, node-01, node-02
BenchOrder == <<n1, n2, n3>>

=============================================================================
