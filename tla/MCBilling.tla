------------------------------ MODULE MCBilling ------------------------------
(* Constants for model-checking Billing. *)
EXTENDS Billing, TLC

CONSTANTS p1, p2, p3

\* Requests are interchangeable.
Symmetry == Permutations(Requests)
=============================================================================
