---------------------- MODULE ReviewedActionsRefinement ----------------------
(* The engine implements OneShotApproval. *)
EXTENDS ReviewedActions

\* What a status means to the user.
Phase(s) ==
    CASE s = "unused"    -> "none"
      [] s = "pending"   -> "waiting"
      [] s = "executing" -> "taken"
      [] OTHER           -> "over"

Approval == INSTANCE OneShotApproval WITH
    Queues <- Types,
    phase  <- [r \in Reviews |-> Phase(status[r])],
    queue  <- actionType,
    since  <- createdAt,
    ran    <- [r \in Reviews |-> ranBy[r] # {}]

\* Whatever the overlap of requests, failures and late clocks, the table behaves
\* like reviews that are offered, taken once or dropped, and run once, with one
\* thing only for a yes to mean.
ImplementsOneShotApproval == Approval!Spec
=============================================================================
