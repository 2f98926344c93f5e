----------------------------- MODULE MCMcpWrites -----------------------------
(* Constants for model-checking McpWrites. *)
EXTENDS McpWritesRefinement, TLC

CONSTANTS c1, c2, c3, k1, a1, a2, r1, r2

\* Calls are interchangeable, and so are arguments.
Symmetry == Permutations(Calls) \cup Permutations(Args)
=============================================================================
