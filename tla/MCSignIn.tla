------------------------------- MODULE MCSignIn -------------------------------
(* Constants for model-checking SignIn. *)
EXTENDS SignIn, TLC

CONSTANTS u1, u2, p1, p2, p3, p4, link, pc, g1, g2, g3

\* Requests and users are interchangeable.
Symmetry == Permutations(Users) \cup Permutations(Requests)
=============================================================================
