------------------------------ MODULE MCCalendar ------------------------------
(* Constants for model-checking Calendar. *)
EXTENDS Calendar, TLC

CONSTANTS old, new, p1, p2, p3

\* Requests are interchangeable.
Symmetry == Permutations(Requests)
=============================================================================
