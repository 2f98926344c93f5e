------------------------- MODULE MCIdempotencyGuard -------------------------
(* Constants for model-checking IdempotencyGuard. *)
EXTENDS IdempotencyGuard, TLC

CONSTANTS p1, p2, p3, p4, b1, b2

\* Requests are interchangeable, and so are the bodies.
Symmetry == Permutations(Requests) \cup Permutations(Bodies)
=============================================================================
