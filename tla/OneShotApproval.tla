--------------------------- MODULE OneShotApproval ---------------------------
(***************************************************************************)
(* What the review engine promises, without requests, locks or statements: *)
(* a review is offered, taken by one yes or dropped, run at most once, and *)
(* then over.  Offering a review and taking one both clear its queue, and  *)
(* only the latest offer can be taken, so a yes can mean one thing only.   *)
(***************************************************************************)
EXTENDS Naturals

CONSTANTS Reviews, Queues

VARIABLES
    phase,   \* "none", "waiting", "taken" or "over"
    queue,
    since,   \* when it was offered
    ran

Waiting     == {r \in Reviews : phase[r] = "waiting"}
InQueue(q)  == {r \in Waiting : queue[r] = q}
Dropping(S) == [r \in Reviews |-> IF r \in S THEN "over" ELSE phase[r]]

Init ==
    /\ phase \in [Reviews -> {"none", "waiting"}]
    /\ queue \in [Reviews -> Queues] /\ since \in [Reviews -> Nat]
    /\ ran = [r \in Reviews |-> FALSE]

\* A review is put up; its queue is cleared, and possibly others.
Offer(r, q, also) ==
    /\ phase[r] = "none"
    /\ phase' = [Dropping(InQueue(q) \cup also) EXCEPT ![r] = "waiting"]
    /\ queue' = [queue EXCEPT ![r] = q]
    /\ since'[r] \in Nat /\ since' = [since EXCEPT ![r] = since'[r]]
    /\ UNCHANGED ran

Take(r) ==
    /\ phase[r] = "waiting"
    /\ \A s \in InQueue(queue[r]) \ {r} : since[s] < since[r]
    /\ phase' = [Dropping(InQueue(queue[r])) EXCEPT ![r] = "taken"]
    /\ UNCHANGED <<queue, since, ran>>

Drop(S) ==
    /\ phase' = Dropping(S)
    /\ UNCHANGED <<queue, since, ran>>

Run(r) ==
    /\ phase[r] = "taken"
    /\ ~ran[r]
    /\ ran' = [ran EXCEPT ![r] = TRUE]
    /\ UNCHANGED <<phase, queue, since>>

Finish(r) ==
    /\ phase[r] = "taken"
    /\ phase' = [phase EXCEPT ![r] = "over"]
    /\ UNCHANGED <<queue, since, ran>>

Next ==
    \/ \E S \in SUBSET Waiting : Drop(S)
    \/ \E r \in Reviews : Take(r) \/ Run(r) \/ Finish(r)
    \/ \E r \in Reviews, q \in Queues : \E also \in SUBSET Waiting : Offer(r, q, also)

Spec == Init /\ [][Next]_<<phase, queue, since, ran>>
=============================================================================
