------------------------ MODULE McpWritesRefinement ------------------------
(* The reviews of the write tools behave as OneShotApproval promises. *)
EXTENDS McpWrites

\* What the status of a review means to whoever is asked to confirm it.
ReviewPhase(s) ==
    CASE s \in {"none", "previewed"} -> "none"
      [] s = "pending"               -> "waiting"
      [] s = "executing"             -> "taken"
      [] OTHER                       -> "over"

\* One queue, in which one review waits at a time; a review is run by the commit that
\* makes its change.
Approval == INSTANCE OneShotApproval WITH
    Queues <- {"write"},
    phase  <- [r \in Reviews |-> ReviewPhase(review[r].status)],
    queue  <- [r \in Reviews |-> "write"],
    since  <- [r \in Reviews |-> 0],
    ran    <- [r \in Reviews |-> \E s \in saved : s.key = r]

\* However calls overlap, are lost or come again, a change that was previewed is offered,
\* taken by one yes or dropped, made once, and then over.
ConfirmationsAreOneShot == Approval!Spec
=============================================================================
