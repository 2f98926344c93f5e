-------------------------- MODULE MCReviewedActions --------------------------
(* Constants for model-checking ReviewedActions. *)
EXTENDS ReviewedActionsRefinement, TLC

CONSTANTS p1, p2, r1, r2, r3, r4, message, proposal

\* Requests are interchangeable, and so are the ids not yet used.
Symmetry2 == Permutations({p1, p2}) \cup Permutations({r1, r2}) \cup Permutations({r3, r4})
=============================================================================
