--------------------------- MODULE MCClientRecords ---------------------------
(* Constants for model-checking ClientRecords. *)
EXTENDS ClientRecords, TLC

CONSTANTS p1, p2, p3, c1, c2, c3, c4, x1, x2, l1

\* Requests, clients there are, clients to come and records are interchangeable.
Symmetry == Permutations(Requests) \cup Permutations(Founders)
                \cup Permutations(Clients \ Founders) \cup Permutations(Records)
=============================================================================
