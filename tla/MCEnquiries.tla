----------------------------- MODULE MCEnquiries -----------------------------
(* Constants for model-checking Enquiries. *)
EXTENDS Enquiries, TLC

CONSTANTS m1, m2, p1, p2, p3, p4

\* Messages and requests are interchangeable.
Symmetry == Permutations(Messages) \cup Permutations(Requests)
=============================================================================
