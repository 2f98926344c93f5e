--------------------------- MODULE ReviewedActions ---------------------------
(***************************************************************************)
(* The review engine of the backend (backend/src/lib/executionEngine.ts),  *)
(* for one user: every risky action is first put up as a review and runs   *)
(* only when a later request, a yes, claims that review.                   *)
(*                                                                         *)
(* The table voice_pending_actions is kept as one function per column      *)
(* (status, actionType, createdAt, expiresAt).  Requests are processes;    *)
(* one step of a request is one statement it sends to PostgreSQL at READ   *)
(* COMMITTED.  Rows an open transaction has changed are locked: held[p]    *)
(* keeps the new status of such rows until the transaction of p commits.   *)
(* Nobody else sees that status before, and a statement that would change  *)
(* a row locked by another transaction waits.                              *)
(*                                                                         *)
(* The words a queue uses of its own (sending, sent, replaced) are         *)
(* identified with executing, completed and cancelled.  Payloads are left  *)
(* out; that one no longer parses is a choice made where it is parsed.     *)
(***************************************************************************)
EXTENDS Integers, FiniteSets

CONSTANTS
    Reviews,          \* ids a row can get; bounds how many reviews exist
    Requests,         \* HTTP requests; bounds how many are made
    Types,            \* action types, one queue each
    StandaloneTypes,  \* STANDALONE_REVIEW_TYPES
    Legacy,           \* rows written before the advisory lock shipped
    Lifetime,         \* lifetimeMs of a review, in ticks
    MaxTime,          \* bound of the clock
    NoReview,         \* null
    AnyReview         \* undefined: a client that takes no part in the binding

ASSUME ConstantsAssumption ==
    /\ StandaloneTypes \subseteq Types
    /\ Legacy \subseteq Reviews
    /\ Lifetime \in Nat \ {0}
    /\ MaxTime \in Nat \ {0}
    /\ NoReview \notin Reviews
    /\ AnyReview \notin Reviews \cup {NoReview}
    /\ Types # {}

VARIABLES
    clock, safeMode,
    status, actionType, createdAt, expiresAt,   \* voice_pending_actions
    request,   \* what each request is doing
    held,      \* row locks and uncommitted statuses of each request
    ranBy      \* history: the requests whose handler ran for a review

table == <<status, actionType, createdAt, expiresAt>>
vars  == <<clock, safeMode, table, request, held, ranBy>>

Statuses == {"unused", "pending", "executing", "completed", "failed",
             "cancelled", "expired"}

\* Steps during which a request is inside a transaction that took the lock.
LockedSteps == {"supersede", "scan", "withdraw", "create",
                "select", "claim", "tie"}
Steps == LockedSteps \cup
         {"idle", "check", "see", "lock", "execute", "resolve",
          "expire", "find", "cancel", "done"}

\* A request before it arrives.
Idle == [op |-> "none", step |-> "idle", type |-> CHOOSE t \in Types : TRUE,
         heard |-> AnyReview, target |-> NoReview, candidates |-> {},
         now |-> 0, lockedAt |-> 0, answer |-> "none"]

At(p, step) == request[p].step = step

-----------------------------------------------------------------------------
(* Rows and locks. *)

Waiting(t) == {r \in Reviews : status[r] = "pending" /\ actionType[r] = t}

\* Waiting rows the open transaction of p has not changed itself.
StillWaiting(p) == {r \in Waiting(request[p].type) : held[p][r] = "free"}

\* The lock left out, and a session's lock that outlives its transaction.
HoldsLock_left_out(p, t) == FALSE
HoldsLock_of_session(p, t) ==
    request[p].type = t /\ request[p].step \in LockedSteps \cup {"done"} /\ request[p].lockedAt > 0

\* pg_advisory_xact_lock(user, action type) is kept until the transaction ends.
HoldsLock(p, t) == request[p].type = t /\ request[p].step \in LockedSteps

\* What the transaction of p leaves in the table when it commits.
Committed(p) ==
    [r \in Reviews |-> IF held[p][r] = "free" THEN status[r] ELSE held[p][r]]

Unlocked(p) == [held EXCEPT ![p] = [r \in Reviews |-> "free"]]

\* p's statement gives the rows in S the status new; they stay locked.
Sweep(p, S, new) ==
    [held EXCEPT ![p] = [r \in Reviews |-> IF r \in S THEN new ELSE held[p][r]]]

\* The sweep forgets to ask for pending rows.
Overdue_any_status(p) ==
    {r \in Reviews : /\ status[r] # "unused" /\ actionType[r] = request[p].type
                     /\ expiresAt[r] <= request[p].now}

\* Rows of p's queue whose time ran out.
Overdue(p) == {r \in Waiting(request[p].type) : expiresAt[r] <= request[p].now}
Live(p)    == StillWaiting(p) \ Overdue(p)
\* ORDER BY createdAt ASC.
Newest_ascending(p) == {r \in Live(p) : \A s \in Live(p) : createdAt[s] >= createdAt[r]}

\* Candidates of ORDER BY createdAt DESC; among equals a random id decides.
Newest(p)  == {r \in Live(p) : \A s \in Live(p) : createdAt[s] <= createdAt[r]}

\* Only the stand-alone type withdraws.
OtherQueues_one_way(t) == IF t \in StandaloneTypes THEN Types \ {t} ELSE {}

\* The queues a preparation of type t withdraws besides its own.
OtherQueues(t) == IF t \in StandaloneTypes THEN Types \ {t} ELSE StandaloneTypes

\* Rows the next statement of p changes, or waits for.
Touches(p) ==
    CASE request[p].step \in {"supersede", "claim", "tie"} -> Waiting(request[p].type)
      [] request[p].step \in {"select", "expire"}          -> Overdue(p)
      [] request[p].step \in {"withdraw", "cancel"}        -> request[p].candidates
      [] OTHER                                             -> {}

\* The requests p has to wait for: lock holders, and owners of row locks.
BlockedBy(p) ==
    {q \in Requests \ {p} :
        \/ At(p, "lock") /\ HoldsLock(q, request[p].type)
        \/ \E r \in Touches(p) : held[q][r] # "free"}

Runs(p, step) == At(p, step) /\ BlockedBy(p) = {}

Becomes(p, q) == request' = [request EXCEPT ![p] = q]

\* p goes on with the step named.
Goto(p, step) == Becomes(p, [request[p] EXCEPT !.step = step])

\* p answers; its open transaction, if it has one, has ended.
Reply(p, answer) ==
    /\ Becomes(p, [request[p] EXCEPT !.step = "done", !.answer = answer])
    /\ held' = Unlocked(p)

-----------------------------------------------------------------------------
(* A request arrives. *)

Arrive(p, op, t, first) ==
    /\ At(p, "idle")
    /\ Becomes(p, [Idle EXCEPT !.op = op, !.type = t, !.step = first, !.now = clock])
    /\ UNCHANGED <<clock, safeMode, table, held, ranBy>>

\* The expiry of a review is reckoned from here, before the transaction.
ArrivePrepare(p, t) == Arrive(p, "prepare", t, "lock")
ArriveCancel(p, t)  == Arrive(p, "cancel", t, "expire")
\* hasReviewedActionPending, peekReviewedAction, reviewedActionById: they
\* expire what is overdue and read.
ArriveRead(p, t)    == Arrive(p, "read", t, "expire")

\* A yes, with the review its device displayed last.
ArriveClaim(p, t, heard) ==
    /\ At(p, "idle")
    /\ heard \in Reviews => status[heard] # "unused"
    /\ Becomes(p, [Idle EXCEPT !.op = "claim", !.type = t, !.step = "check",
                               !.now = clock, !.heard = heard])
    /\ UNCHANGED <<clock, safeMode, table, held, ranBy>>

\* A cancel of one review, by the id that was handed out for it.
ArriveCancelById(p, r) ==
    /\ At(p, "idle")
    /\ status[r] # "unused"
    /\ Becomes(p, [Idle EXCEPT !.op = "cancel", !.type = actionType[r],
                               !.step = "cancel", !.now = clock, !.candidates = {r}])
    /\ UNCHANGED <<clock, safeMode, table, held, ranBy>>

-----------------------------------------------------------------------------
(* prepareReviewedAction. *)

\* The clock is read once, when the request arrives.
NowUnderLock_early(p) == request[p].now

\* The clock of a claim is read once the lock is held; that of a preparation
\* is the one read before its transaction began.
NowUnderLock(p) == IF request[p].op = "claim" THEN clock ELSE request[p].now

TakeLock(p) ==
    /\ Runs(p, "lock")
    /\ Becomes(p, [request[p] EXCEPT
            !.step = IF request[p].op = "prepare" THEN "supersede" ELSE "select",
            !.now = NowUnderLock(p),
            !.lockedAt = clock])
    /\ UNCHANGED <<clock, safeMode, table, held, ranBy>>

\* The reviews of the same queue are cancelled.
Supersede(p) ==
    /\ Runs(p, "supersede")
    /\ held' = Sweep(p, Waiting(request[p].type), "cancelled")
    /\ Goto(p, "scan")
    /\ UNCHANGED <<clock, safeMode, table, ranBy>>

\* The second sweep: its snapshot is taken when the statement starts, so a
\* row committed while it waits for a lock is not among its candidates.
Scan(p) ==
    /\ Runs(p, "scan")
    /\ Becomes(p, [request[p] EXCEPT
            !.step = "withdraw",
            !.candidates = {r \in Reviews :
                              /\ status[r] = "pending"
                              /\ actionType[r] \in OtherQueues(request[p].type)}])
    /\ UNCHANGED <<clock, safeMode, table, held, ranBy>>

\* Once it has the row locks it looks at each candidate again.
Withdraw(p) ==
    /\ Runs(p, "withdraw")
    /\ held' = Sweep(p, {r \in request[p].candidates : status[r] = "pending"}, "cancelled")
    /\ Goto(p, "create")
    /\ UNCHANGED <<clock, safeMode, table, ranBy>>

\* The new row and the sweeps become visible together.
Create(p) ==
    /\ Runs(p, "create")
    /\ \E r \in Reviews :
         /\ status[r] = "unused"
         /\ status' = [Committed(p) EXCEPT ![r] = "pending"]
         /\ actionType' = [actionType EXCEPT ![r] = request[p].type]
         /\ createdAt' = [createdAt EXCEPT ![r] = clock]
         /\ expiresAt' = [expiresAt EXCEPT ![r] = request[p].now + Lifetime]
         /\ Becomes(p, [request[p] EXCEPT !.step = "done", !.answer = "prepared",
                                          !.target = r])
    /\ held' = Unlocked(p)
    /\ UNCHANGED <<clock, safeMode, ranBy>>

-----------------------------------------------------------------------------
(* claimReviewedAction. *)

\* assertNotInSafeMode: a plain read, before the transaction.
CheckSafeMode(p) ==
    /\ Runs(p, "check")
    /\ IF safeMode THEN Reply(p, "stopped") ELSE Goto(p, "see") /\ UNCHANGED held
    /\ UNCHANGED <<clock, safeMode, table, ranBy>>

\* seenBeforeLock: any one of those waiting, there is no ORDER BY.
SeeWaiting(p) ==
    LET seen == {r \in Waiting(request[p].type) : expiresAt[r] > clock} IN
    /\ Runs(p, "see")
    /\ \E r \in IF seen = {} THEN {NoReview} ELSE seen :
         Becomes(p, [request[p] EXCEPT !.step = "lock", !.target = r])
    /\ UNCHANGED <<clock, safeMode, table, held, ranBy>>

\* The answer is decided the wrong way round.
LostRace_inverted(seen, after) == seen # NoReview /\ after[seen] = "expired"

LostRace(seen, after) == seen # NoReview /\ after[seen] # "expired"

\* Nothing is left to claim.  The overdue rows expire; a review seen before
\* the lock that did not expire was taken or cancelled: "raced".
FindNothing(p) ==
    LET after == [r \in Reviews |-> IF r \in Overdue(p) THEN "expired" ELSE status[r]]
        seen  == request[p].target
    IN
    /\ Runs(p, "select")
    /\ Live(p) = {}
    /\ status' = after
    /\ Reply(p, IF LostRace(seen, after) THEN "raced" ELSE "none")
    /\ UNCHANGED <<clock, safeMode, actionType, createdAt, expiresAt, ranBy>>

\* Approval binding: a client that says what it displayed approves just that.
Heard(p, r) == request[p].heard \in {AnyReview, r}

RefuseUnheard(p) ==
    /\ Runs(p, "select")
    /\ \E r \in Newest(p) : ~Heard(p, r)
    /\ status' = [r \in Reviews |-> IF r \in Overdue(p) THEN "expired" ELSE status[r]]
    /\ Reply(p, "unheard")
    /\ UNCHANGED <<clock, safeMode, actionType, createdAt, expiresAt, ranBy>>

\* The newest review is the one to claim, unless another ties with it.
SelectNewest(p) ==
    /\ Runs(p, "select")
    /\ \E r \in Newest(p) :
         /\ Heard(p, r)
         /\ Becomes(p, [request[p] EXCEPT
                 !.step = IF Newest(p) = {r} THEN "claim" ELSE "tie",
                 !.target = r])
    /\ held' = Sweep(p, Overdue(p), "expired")
    /\ UNCHANGED <<clock, safeMode, table, ranBy>>

\* Tied reviews fail, what is older is cancelled, nothing runs.
FailTied(p) ==
    LET tied == {r \in StillWaiting(p) : createdAt[r] = createdAt[request[p].target]} IN
    /\ Runs(p, "tie")
    /\ status' = [r \in Reviews |->
                    IF r \in tied THEN "failed"
                    ELSE IF r \in StillWaiting(p) THEN "cancelled"
                    ELSE Committed(p)[r]]
    /\ Reply(p, "invalid")
    /\ UNCHANGED <<clock, safeMode, actionType, createdAt, expiresAt, ranBy>>

\* The condition of the claiming update, evaluated when it gets the row.
Claimable(p) ==
    LET r == request[p].target IN status[r] = "pending" /\ expiresAt[r] > request[p].now

\* The claim leaves the row as it was; a word no other code knows.
ClaimedStatus_unchanged == "pending"
ClaimedStatus_unknown == "claimed"

ClaimedStatus == "executing"

\* Any other row of the queue is a stale duplicate and is cancelled.
Claim(p) ==
    LET r == request[p].target IN
    /\ Runs(p, "claim")
    /\ Claimable(p)
    /\ status' = [s \in Reviews |->
                    IF s = r THEN ClaimedStatus
                    ELSE IF s \in StillWaiting(p) THEN "cancelled"
                    ELSE Committed(p)[s]]
    /\ Goto(p, "execute")
    /\ held' = Unlocked(p)
    /\ UNCHANGED <<clock, safeMode, actionType, createdAt, expiresAt, ranBy>>

LoseClaim(p) ==
    /\ Runs(p, "claim")
    /\ ~Claimable(p)
    /\ status' = Committed(p)
    /\ Reply(p, "raced")
    /\ UNCHANGED <<clock, safeMode, actionType, createdAt, expiresAt, ranBy>>

\* resolveReviewedAction: by id, whatever the row says.
ResolveAs(p, new) == status' = [status EXCEPT ![request[p].target] = new]

\* The stored payload no longer parses.
RejectPayload(p) ==
    /\ Runs(p, "execute")
    /\ ResolveAs(p, "failed")
    /\ Reply(p, "invalid")
    /\ UNCHANGED <<clock, safeMode, actionType, createdAt, expiresAt, ranBy>>

\* The service that owns the queue carries the action out ...
Execute(p) ==
    /\ Runs(p, "execute")
    /\ ranBy' = [ranBy EXCEPT ![request[p].target] = @ \cup {p}]
    /\ Goto(p, "resolve")
    /\ UNCHANGED <<clock, safeMode, table, held>>

\* ... and reports how it went: complete(succeeded).
Complete(p, succeeded) ==
    /\ Runs(p, "resolve")
    /\ ResolveAs(p, IF succeeded THEN "completed" ELSE "failed")
    /\ Reply(p, IF succeeded THEN "executed" ELSE "failed")
    /\ UNCHANGED <<clock, safeMode, actionType, createdAt, expiresAt, ranBy>>

-----------------------------------------------------------------------------
(* Cancelling and reading. *)

\* expireReviewedActions, a statement and a transaction of its own.
ExpireOverdue(p) ==
    /\ Runs(p, "expire")
    /\ status' = [r \in Reviews |-> IF r \in Overdue(p) THEN "expired" ELSE status[r]]
    /\ IF request[p].op = "cancel"
         THEN Goto(p, "find") /\ UNCHANGED held
         ELSE Reply(p, "read")
    /\ UNCHANGED <<clock, safeMode, actionType, createdAt, expiresAt, ranBy>>

FindWaiting(p) ==
    LET found == Waiting(request[p].type) IN
    /\ Runs(p, "find")
    /\ IF found = {}
         THEN Reply(p, "nothing")
         ELSE /\ Becomes(p, [request[p] EXCEPT !.step = "cancel", !.candidates = found])
              /\ UNCHANGED held
    /\ UNCHANGED <<clock, safeMode, table, ranBy>>

\* The update without its condition on the status.
StillCancellable_unconditional(p, S) == S

\* Of the rows found, those still pending when the update gets them.
StillCancellable(p, S) == {r \in S : status[r] = "pending"}

CancelFound(p) ==
    LET rows == StillCancellable(p, request[p].candidates) IN
    /\ Runs(p, "cancel")
    /\ status' = [r \in Reviews |-> IF r \in rows THEN "cancelled" ELSE status[r]]
    /\ Reply(p, IF rows = {} THEN "nothing" ELSE "cancelled")
    /\ UNCHANGED <<clock, safeMode, actionType, createdAt, expiresAt, ranBy>>

-----------------------------------------------------------------------------
(* Failures, the clock and the administrator. *)

\* A statement fails, the transaction runs into its time limit, PostgreSQL
\* picks it as a deadlock victim, or the server dies: what is uncommitted is
\* rolled back, what is committed stays.
Fail(p) ==
    /\ request[p].step \notin {"idle", "done"}
    /\ Reply(p, "error")
    /\ UNCHANGED <<clock, safeMode, table, ranBy>>

\* Requests that wait for one another in a ring.
Deadlocked(p) ==
    \E ring \in SUBSET Requests :
        /\ p \in ring
        /\ \A q \in ring : BlockedBy(q) \cap ring # {}

DeadlockVictim(p) == Deadlocked(p) /\ Fail(p)

Tick ==
    /\ clock < MaxTime
    /\ clock' = clock + 1
    /\ UNCHANGED <<safeMode, table, request, held, ranBy>>

\* PUT /company/safe-mode
SwitchSafeMode ==
    /\ safeMode' = ~safeMode
    /\ UNCHANGED <<clock, table, request, held, ranBy>>

-----------------------------------------------------------------------------
\* Rows written before the lock shipped may share a queue, even a createdAt.
Init ==
    /\ clock = 1
    /\ safeMode = FALSE
    /\ status = [r \in Reviews |-> IF r \in Legacy THEN "pending" ELSE "unused"]
    /\ actionType \in [Reviews -> Types]
    /\ createdAt \in [Reviews -> 0..1]
    /\ \A r \in Reviews \ Legacy :
         actionType[r] = Idle.type /\ createdAt[r] = 0
    /\ expiresAt = [r \in Reviews |-> createdAt[r] + Lifetime]
    /\ request = [p \in Requests |-> Idle]
    /\ held = [p \in Requests |-> [r \in Reviews |-> "free"]]
    /\ ranBy = [r \in Reviews |-> {}]

Arrival(p) ==
    \/ \E t \in Types : ArrivePrepare(p, t) \/ ArriveCancel(p, t) \/ ArriveRead(p, t)
    \/ \E t \in Types, h \in Reviews \cup {NoReview, AnyReview} : ArriveClaim(p, t, h)
    \/ \E r \in Reviews : ArriveCancelById(p, r)

\* The next statement of a request.
Step(p) ==
    \/ TakeLock(p) \/ Supersede(p) \/ Scan(p) \/ Withdraw(p) \/ Create(p)
    \/ CheckSafeMode(p) \/ SeeWaiting(p)
    \/ FindNothing(p) \/ RefuseUnheard(p) \/ SelectNewest(p)
    \/ FailTied(p) \/ Claim(p) \/ LoseClaim(p)
    \/ RejectPayload(p) \/ Execute(p) \/ \E ok \in BOOLEAN : Complete(p, ok)
    \/ ExpireOverdue(p) \/ FindWaiting(p) \/ CancelFound(p)

Next ==
    \/ \E p \in Requests : Arrival(p) \/ Step(p) \/ Fail(p)
    \/ Tick
    \/ SwitchSafeMode

Spec == Init /\ [][Next]_vars

\* A request that can go on does, and PostgreSQL breaks a ring of waits.
Fairness == \A p \in Requests : WF_vars(Step(p)) /\ WF_vars(DeadlockVictim(p))

FairSpec == Spec /\ Fairness

-----------------------------------------------------------------------------
(* What the engine promises. *)

Ops     == {"none", "prepare", "claim", "cancel", "read"}
Answers == {"none", "prepared", "stopped", "raced", "unheard", "invalid",
            "executed", "failed", "nothing", "cancelled", "read", "error"}

Request == [op : Ops, step : Steps, type : Types,
            heard : Reviews \cup {NoReview, AnyReview},
            target : Reviews \cup {NoReview}, candidates : SUBSET Reviews,
            now : 0..MaxTime, lockedAt : 0..MaxTime, answer : Answers]

\* The type invariant: what each column and each request can hold.
TypeOK ==
    /\ clock \in 1..MaxTime
    /\ safeMode \in BOOLEAN
    /\ status \in [Reviews -> Statuses]
    /\ actionType \in [Reviews -> Types]
    /\ createdAt \in [Reviews -> 0..MaxTime]
    /\ expiresAt \in [Reviews -> 0..(MaxTime + Lifetime)]
    /\ request \in [Requests -> Request]
    /\ held \in [Requests -> [Reviews -> {"free", "cancelled", "expired"}]]
    /\ ranBy \in [Reviews -> SUBSET Requests]

\* "There is only ever one thing a yes can mean per user and action type": two
\* reviews of one queue wait side by side only if both predate the lock, however
\* the preparations that made them overlapped.
OneWaitingPerQueue ==
    \A r, s \in Reviews :
        (status[r] = "pending" /\ status[s] = "pending" /\ actionType[r] = actionType[s])
        => r = s \/ {r, s} \subseteq Legacy

\* Of any number of simultaneous or repeated confirmations at most one carries
\* the review out.
ExecutedAtMostOnce ==
    \A r \in Reviews : \A p, q \in ranBy[r] : p = q

\* A review that was replaced, withdrawn, cancelled or expired has not run and
\* never will, whatever claim was under way when that happened.
WithdrawnNeverRuns ==
    \A r \in Reviews :
        ranBy[r] # {} => status[r] \in {"executing", "completed", "failed"}

\* A yes that waited for the lock does not carry out a review that expired
\* while it waited.
NotClaimedLate ==
    \A p \in Requests :
        At(p, "execute") => expiresAt[request[p].target] > request[p].lockedAt

\* A cancel that says it cancelled leaves none of the reviews it found to be
\* carried out later, even when confirmations were under way.
CancelToldTheTruth ==
    \A p \in Requests :
        request[p].answer = "cancelled" =>
            \A r \in request[p].candidates :
                ranBy[r] = {} /\ status[r] \in {"cancelled", "expired", "failed"}

\* What a yes is told: "none" only if it never saw a review waiting or that
\* review expired, "raced" only about a review that no longer waits, and success
\* only if this very request ran it.
YesToldTheTruth ==
    \A p \in Requests :
        LET r == request[p].target IN
        request[p].op = "claim" =>
            /\ At(p, "done") /\ request[p].answer = "none"
                 => r = NoReview \/ status[r] = "expired"
            /\ request[p].answer = "raced" => status[r] \notin {"unused", "pending"}
            /\ request[p].answer = "executed" => status[r] = "completed" /\ ranBy[r] = {p}

\* Whoever acts on a review is told what became of it, whichever request was faster.
ToldTheTruth == CancelToldTheTruth /\ YesToldTheTruth

\* One row's move from one committed state to the next.
RowMoves(r) ==
    \/ status'[r] = status[r]
    \/ status[r] = "unused" /\ status'[r] = "pending"
    \/ status[r] = "pending" /\ status'[r] \in {"executing", "cancelled", "expired", "failed"}
    \/ status[r] = "executing" /\ status'[r] \in {"completed", "failed"}

\* A review moves only along its life line; once resolved it stays as it is,
\* although the resolving update names the row and not its status.
LifeLine == [][\A r \in Reviews : RowMoves(r)]_vars

\* A preparation withdraws what an earlier one put up for another queue, if one
\* of the two stands alone: the yes means the last thing read out.  (Earlier:
\* created before this preparation arrived; for overlapping ones see below.)
LastPreparedStandsAlone ==
    \A p, q \in Requests :
        LET r == request[q].target IN
        (/\ request[p].answer = "prepared" /\ request[q].answer = "prepared"
         /\ request[q].type # request[p].type
         /\ {request[p].type, request[q].type} \cap StandaloneTypes # {}
         /\ createdAt[r] < request[p].now)
        => status[r] # "pending"

\* Every request is answered: locks are released, and rings of waits broken.
EveryRequestEnds ==
    \A p \in Requests : ~At(p, "idle") ~> At(p, "done")

-----------------------------------------------------------------------------
(* What the comments say and the code does not keep. *)

\* Would the review still be accepted if a yes came now?
Alive(r) == status[r] = "pending" /\ expiresAt[r] > clock

\* "A stand-alone review and any other one never wait side by side."
NeverSideBySide ==
    \A r, s \in Reviews \ Legacy :
        Alive(r) /\ Alive(s) /\ actionType[r] \in StandaloneTypes => actionType[s] = actionType[r]
=============================================================================
