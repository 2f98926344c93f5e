------------------------------ MODULE McpWrites ------------------------------
(***************************************************************************)
(* The write tools of the MCP gateway (backend/src/modules/mcp/            *)
(* writeTools.ts) for one person and one connection: direct writes under   *)
(* an idempotency key, and changes that are previewed, confirmed and only  *)
(* then made; with the emergency stop (lib/safeMode.ts) that holds them    *)
(* back.                                                                   *)
(*                                                                         *)
(* Every change is one to the same business record, known by its revision; *)
(* other people edit that record too.  A confirmation's key is the review. *)
(* The review queue is used as OneShotApproval describes it (checked of the *)
(* engine in ReviewedActions): putting one up, claiming and cancelling are *)
(* one step each, and one review waits at a time.                          *)
(***************************************************************************)
EXTENDS Integers, FiniteSets

CONSTANTS
    Calls,        \* tool calls; bounds how many are made
    DirectKeys,   \* idempotency keys chosen by the client
    Args,         \* what a direct write asks for
    Reviews,      \* confirmation ids; bounds how many previews are made
    Retention,    \* MCP_IDEMPOTENCY_HOURS, in ticks
    MaxTime,      \* bound of the clock
    MaxRevision,  \* bound of the edits made elsewhere
    Nothing

ASSUME McpAssumption ==
    /\ IsFiniteSet(Calls)
    /\ DirectKeys \cap Reviews = {}
    /\ Retention \in Nat \ {0}
    /\ MaxTime \in Nat \ {0}
    /\ MaxRevision \in Nat
    /\ Nothing \notin Calls \cup Args \cup Reviews \cup DirectKeys

VARIABLES
    clock,
    safeMode,
    revision,   \* of the business record
    review,     \* voice_pending_actions of this queue
    key,        \* idempotency_records in the namespace "mcp:"
    call,       \* what each tool call is doing
    saved       \* history: the changes that committed

mcpVars == <<clock, safeMode, revision, review, key, call, saved>>

Keys == DirectKeys \cup Reviews

IdleCall == [step |-> "idle", key |-> Nothing, args |-> Nothing, attempt |-> 1,
             expiresAt |-> 0, outcome |-> "none", answer |-> "none"]

CallAt(c, step)   == call[c].step = step
CallBecomes(c, q) == call' = [call EXCEPT ![c] = q]
CallGoto(c, step) == CallBecomes(c, [call[c] EXCEPT !.step = step])
Reply(c, a)   == CallBecomes(c, [call[c] EXCEPT !.step = "done", !.answer = a])
Direct(c)     == call[c].key \in DirectKeys

\* The transaction that holds the company row FOR SHARE (and, for a reviewed
\* change, the record's row FOR UPDATE).
InTransaction(c) == call[c].step \in {"run", "verify", "commit"}
RowLocked        == \E c \in Calls : CallAt(c, "commit")

-----------------------------------------------------------------------------
(* prepare and cancel *)

\* The stop is checked and the record is shown as it is ...
Preview(r) ==
    /\ ~safeMode
    /\ review[r].status = "none"
    /\ review' = [review EXCEPT ![r] = [status |-> "previewed", revision |-> revision]]
    /\ UNCHANGED <<clock, safeMode, revision, key, call, saved>>

\* ... and put up for review; the one before is replaced.
PutUp(r) ==
    /\ review[r].status = "previewed"
    /\ review' = [s \in Reviews |->
            IF s = r THEN [review[s] EXCEPT !.status = "pending"]
            ELSE IF review[s].status = "pending" THEN [review[s] EXCEPT !.status = "replaced"]
            ELSE review[s]]
    /\ UNCHANGED <<clock, safeMode, revision, key, call, saved>>

\* cancel_action, or its time ran out.
Withdraw(r, how) ==
    /\ review[r].status = "pending"
    /\ review' = [review EXCEPT ![r].status = how]
    /\ UNCHANGED <<clock, safeMode, revision, key, call, saved>>

-----------------------------------------------------------------------------
(* onceOnly *)

Arrive(c, k, a) ==
    /\ CallAt(c, "idle")
    /\ CallBecomes(c, [IdleCall EXCEPT !.step = "insert", !.key = k, !.args = a,
                                      !.expiresAt = clock + Retention])
    /\ UNCHANGED <<clock, safeMode, revision, review, key, saved>>

\* runWriteTool: a direct write says what it wants, a confirmation which
\* review.  A wrong typed name ends a confirmation here and consumes nothing.
ArriveDirect(c, k, a) == Arrive(c, k, a)
ArriveConfirm(c, r)   == review[r].status \notin {"none", "previewed"} /\ Arrive(c, r, Nothing)

First(c) == IF Direct(c) THEN "stop" ELSE "own"

Insert(c) ==
    /\ CallAt(c, "insert")
    /\ key[call[c].key] = Nothing
    /\ key' = [key EXCEPT ![call[c].key] =
                 [id |-> c, args |-> call[c].args, status |-> "in_progress",
                  outcome |-> "none", expiresAt |-> call[c].expiresAt]]
    /\ CallGoto(c, First(c))
    /\ UNCHANGED <<clock, safeMode, revision, review, saved>>

\* P2002.  The row is read by a statement of its own, next.
InsertTaken(c) ==
    /\ CallAt(c, "insert")
    /\ key[call[c].key] # Nothing
    /\ CallGoto(c, "look")
    /\ UNCHANGED <<clock, safeMode, revision, review, key, saved>>

Retry(c) ==
    IF call[c].attempt = 3
      THEN Reply(c, "in_progress")
      ELSE CallBecomes(c, [call[c] EXCEPT !.step = "insert", !.attempt = @ + 1])

\* Retention ends for whatever the record says.
Forgotten_any_status(k) == key[k].expiresAt <= clock

\* Only a finished answer expires.
Forgotten(k) == key[k].status = "completed" /\ key[k].expiresAt <= clock

LookMissing(c) ==
    /\ CallAt(c, "look")
    /\ key[call[c].key] = Nothing
    /\ Retry(c)
    /\ UNCHANGED <<clock, safeMode, revision, review, key, saved>>

\* Conditional on the row and its expiry, so a statement later changes nothing.
LookForgotten(c) ==
    LET k == call[c].key IN
    /\ CallAt(c, "look")
    /\ key[k] # Nothing
    /\ Forgotten(k)
    /\ key' = [key EXCEPT ![k] = Nothing]
    /\ Retry(c)
    /\ UNCHANGED <<clock, safeMode, revision, review, saved>>

\* The stored answer, whatever is asked now.
SameCall_any(c) == TRUE
SameCall(c) == key[call[c].key].args = call[c].args

LookSeen(c) ==
    LET k == call[c].key IN
    /\ CallAt(c, "look")
    /\ key[k] # Nothing
    /\ ~Forgotten(k)
    /\ Reply(c, IF ~SameCall(c) THEN "key_reused"
                ELSE IF key[k].status \in {"unknown", "in_progress"} THEN key[k].status
                ELSE key[k].outcome)
    /\ UNCHANGED <<clock, safeMode, revision, review, key, saved>>

\* The work is over: its outcome is next stored under the key ...
Finish(c, outcome) == [call[c] EXCEPT !.step = "store", !.outcome = outcome]

Store(c) ==
    LET k == call[c].key IN
    /\ CallAt(c, "store")
    /\ key' = [key EXCEPT ![k] =
                 IF @ = Nothing THEN @
                 ELSE IF call[c].outcome = "unknown" THEN [@ EXCEPT !.status = "unknown"]
                 ELSE [@ EXCEPT !.status = "completed", !.outcome = call[c].outcome]]
    /\ Reply(c, call[c].outcome)
    /\ UNCHANGED <<clock, safeMode, revision, review, saved>>

\* ... or the key is given back: nothing was changed.
Release(c, a) == [call[c] EXCEPT !.step = "release", !.answer = a]

GiveBack(c) ==
    LET k == call[c].key IN
    /\ CallAt(c, "release")
    /\ key' = [key EXCEPT ![k] =
                 IF @ # Nothing /\ @.status = "in_progress" THEN Nothing ELSE @]
    /\ CallGoto(c, "done")
    /\ UNCHANGED <<clock, safeMode, revision, review, saved>>

\* A statement before begin() fails: nothing changed, whatever it was.
FailBeforeStart(c) ==
    /\ call[c].step \in {"stop", "open", "own", "claim"}
    /\ CallBecomes(c, Release(c, "error"))
    /\ UNCHANGED <<clock, safeMode, revision, review, key, saved>>

-----------------------------------------------------------------------------
(* runDirect *)

\* assertNotInSafeMode, and once more under the FOR SHARE lock.
StopCheck(c, next) ==
    /\ IF safeMode THEN CallBecomes(c, Release(c, "stopped")) ELSE CallGoto(c, next)
    /\ UNCHANGED <<clock, safeMode, revision, review, key, saved>>

DirectStop(c) == CallAt(c, "stop") /\ StopCheck(c, "open")
DirectOpen(c) == CallAt(c, "open") /\ StopCheck(c, "run")

\* begin(), and the owning service: it makes its changes in the ambient
\* transaction, or refuses.
DirectRun(c, outcome) ==
    /\ CallAt(c, "run")
    /\ ~RowLocked
    /\ IF outcome = "changed" THEN CallGoto(c, "commit") ELSE CallBecomes(c, Finish(c, "refused"))
    /\ UNCHANGED <<clock, safeMode, revision, review, key, saved>>

\* It throws: everything is rolled back, NothingChanged.
DirectThrows(c) ==
    /\ CallAt(c, "run") \/ (CallAt(c, "commit") /\ Direct(c))
    /\ CallBecomes(c, Release(c, "write_failed"))
    /\ UNCHANGED <<clock, safeMode, revision, review, key, saved>>

-----------------------------------------------------------------------------
(* confirm *)

\* ownReview
OwnReview(c) ==
    /\ CallAt(c, "own")
    /\ CallBecomes(c, IF review[call[c].key].status = "pending"
                    THEN [call[c] EXCEPT !.step = "claim"] ELSE Finish(c, "used"))
    /\ UNCHANGED <<clock, safeMode, revision, review, key, saved>>

\* claimReviewedAction, bound to this review.
ClaimReview(c) ==
    LET r == call[c].key IN
    /\ CallAt(c, "claim")
    /\ IF safeMode
         THEN CallBecomes(c, Release(c, "stopped")) /\ UNCHANGED review
         ELSE IF review[r].status # "pending"
         THEN CallBecomes(c, Finish(c, "used")) /\ UNCHANGED review
         ELSE CallGoto(c, "recheck") /\ review' = [review EXCEPT ![r].status = "executing"]
    /\ UNCHANGED <<clock, safeMode, revision, key, saved>>

Resolve(c, status) == review' = [review EXCEPT ![call[c].key].status = status]

\* The digest of the preview.
AsPreviewed(r) == review[r].revision = revision

\* Permission, capability switch and preview are decided again.
Recheck(c, permitted) ==
    /\ CallAt(c, "recheck")
    /\ IF permitted /\ AsPreviewed(call[c].key)
         THEN CallGoto(c, "again") /\ UNCHANGED review
         ELSE CallBecomes(c, Finish(c, "refused")) /\ Resolve(c, "failed")
    /\ UNCHANGED <<clock, safeMode, revision, key, saved>>

\* The recheck throws; failing the review is tried, its failure ignored.
RecheckThrows(c, resolved) ==
    /\ CallAt(c, "recheck")
    /\ CallBecomes(c, Release(c, "error"))
    /\ IF resolved THEN Resolve(c, "failed") ELSE UNCHANGED review
    /\ UNCHANGED <<clock, safeMode, revision, key, saved>>

\* The emergency stop refuses: nothing changed, and failing the review is tried.
Refuse(c) ==
    /\ CallBecomes(c, Release(c, "stopped"))
    /\ Resolve(c, "failed") \/ UNCHANGED review

StopAgain(c) ==
    /\ CallAt(c, "again")
    /\ IF safeMode THEN Refuse(c)
       ELSE UNCHANGED review /\ CallGoto(c, "lock")
    /\ UNCHANGED <<clock, safeMode, revision, key, saved>>

\* The owning service's transaction: first the stop, FOR SHARE ...
ServiceLock(c) ==
    /\ CallAt(c, "lock")
    /\ IF safeMode THEN Refuse(c) ELSE UNCHANGED review /\ CallGoto(c, "verify")
    /\ UNCHANGED <<clock, safeMode, revision, key, saved>>

\* expected_revision, the revision previewed.
Expected(r) == review[r].revision = revision

\* ... then the record FOR UPDATE, and its revision compared again.
ServiceVerify(c) ==
    /\ CallAt(c, "verify")
    /\ ~RowLocked
    /\ CallBecomes(c, IF Expected(call[c].key)
                    THEN [call[c] EXCEPT !.step = "commit"]
                    ELSE [call[c] EXCEPT !.step = "resolve", !.outcome = "refused"])
    /\ UNCHANGED <<clock, safeMode, revision, review, key, saved>>

\* The outcome is stored as it is.
Verdict_raw(outcome) == outcome
Verdict(outcome) == IF outcome = "changed" THEN "completed" ELSE "failed"

\* claimed.complete(result.ok)
ResolveReview(c) ==
    /\ CallAt(c, "resolve")
    /\ Resolve(c, Verdict(call[c].outcome))
    /\ CallGoto(c, "store")
    /\ UNCHANGED <<clock, safeMode, revision, key, saved>>

\* Started, and not known to have been rolled back.
Undecided(c) == Finish(c, "unknown")

\* Something throws after begin(), an audit entry for instance, or the commit
\* fails: the outcome is unknown.
OutcomeLost(c) ==
    /\ \/ CallAt(c, "commit")
       \/ ~Direct(c) /\ call[c].step \in {"lock", "verify", "resolve"}
    /\ CallBecomes(c, Undecided(c))
    /\ UNCHANGED <<clock, safeMode, revision, review, key, saved>>

-----------------------------------------------------------------------------
(* The transaction commits: the change is visible, its locks are free. *)

Change(c) == [key |-> call[c].key, by |-> c, at |-> clock, on |-> revision,
              previewed |-> IF Direct(c) THEN revision ELSE review[call[c].key].revision]

\* It may commit without being heard to.
Commit(c, heard) ==
    /\ CallAt(c, "commit")
    /\ saved' = saved \cup {Change(c)}
    /\ revision' = revision + 1
    /\ CallBecomes(c, IF ~heard THEN Undecided(c)
                  ELSE IF Direct(c) THEN Finish(c, "changed")
                  ELSE [call[c] EXCEPT !.step = "resolve", !.outcome = "changed"])
    /\ UNCHANGED <<clock, safeMode, review, key>>

-----------------------------------------------------------------------------
(* The environment. *)

\* The switch does not wait for the writes under way.
StopMayCommit_at_once == TRUE
\* PUT /company/safe-mode takes the company row FOR UPDATE.
StopMayCommit == \A c \in Calls : ~InTransaction(c)

SwitchSafeMode ==
    /\ StopMayCommit
    /\ safeMode' = ~safeMode
    /\ UNCHANGED <<clock, revision, review, key, call, saved>>

\* Somebody edits the record in Secretary.
EditElsewhere ==
    /\ ~RowLocked
    /\ revision < MaxRevision
    /\ revision' = revision + 1
    /\ UNCHANGED <<clock, safeMode, review, key, call, saved>>

\* The server dies, or a statement of onceOnly itself fails.
Die(c) ==
    /\ call[c].step \notin {"idle", "done"}
    /\ Reply(c, "lost")
    /\ UNCHANGED <<clock, safeMode, revision, review, key, saved>>

\* No call is under way for as long as the retention.
Tick ==
    /\ clock < MaxTime
    /\ \A c \in Calls : call[c].step \in {"idle", "done"} \/ clock + 1 < call[c].expiresAt
    /\ clock' = clock + 1
    /\ UNCHANGED <<safeMode, revision, review, key, call, saved>>

McpInit ==
    /\ clock = 1
    /\ safeMode = FALSE
    /\ revision = 0
    /\ review = [r \in Reviews |-> [status |-> "none", revision |-> 0]]
    /\ key = [k \in Keys |-> Nothing]
    /\ call = [c \in Calls |-> IdleCall]
    /\ saved = {}

CallStep(c) ==
    \/ \E k \in DirectKeys, a \in Args : ArriveDirect(c, k, a)
    \/ \E r \in Reviews : ArriveConfirm(c, r)
    \/ Insert(c) \/ InsertTaken(c)
    \/ LookMissing(c) \/ LookForgotten(c) \/ LookSeen(c) \/ Store(c) \/ GiveBack(c) \/ FailBeforeStart(c)
    \/ DirectStop(c) \/ DirectOpen(c) \/ DirectThrows(c)
    \/ \E outcome \in {"changed", "refused"} : DirectRun(c, outcome)
    \/ OwnReview(c) \/ ClaimReview(c) \/ StopAgain(c)
    \/ \E b \in BOOLEAN : Recheck(c, b) \/ RecheckThrows(c, b) \/ Commit(c, b)
    \/ ServiceLock(c) \/ ServiceVerify(c) \/ ResolveReview(c) \/ OutcomeLost(c)

McpNext ==
    \/ \E c \in Calls : CallStep(c) \/ Die(c)
    \/ \E r \in Reviews : Preview(r) \/ PutUp(r) \/ \E how \in {"cancelled", "expired"} : Withdraw(r, how)
    \/ SwitchSafeMode \/ EditElsewhere \/ Tick

McpSpec == McpInit /\ [][McpNext]_mcpVars

-----------------------------------------------------------------------------
ReviewStatuses == {"none", "previewed", "pending", "executing", "completed", "failed",
                   "cancelled", "replaced", "expired"}
Outcomes == {"none", "changed", "refused", "used", "unknown"}
Answers == Outcomes \cup {"in_progress", "key_reused", "stopped", "write_failed", "error", "lost"}
CallSteps == {"idle", "insert", "look", "stop", "open", "run", "own", "claim", "recheck", "again",
              "lock", "verify", "commit", "resolve", "store", "release", "done"}
Revisions == 0..(MaxRevision + Cardinality(Calls))

Review == [status : ReviewStatuses, revision : Revisions]
Record == [id : Calls, args : Args \cup {Nothing}, status : {"in_progress", "unknown", "completed"},
           outcome : Outcomes, expiresAt : 0..(MaxTime + Retention)]
Call == [step : CallSteps, key : Keys \cup {Nothing}, args : Args \cup {Nothing}, attempt : 1..3,
         expiresAt : 0..(MaxTime + Retention), outcome : Outcomes, answer : Answers]
Saved == [key : Keys, by : Calls, at : 1..MaxTime, on : Revisions, previewed : Revisions]

ASSUME NothingAssumption == Nothing \notin Record

\* The type invariant: reviews, key records, calls and what they saved.
McpTypeOK ==
    /\ clock \in 1..MaxTime
    /\ safeMode \in BOOLEAN
    /\ revision \in Revisions
    /\ review \in [Reviews -> Review]
    /\ key \in [Keys -> Record \cup {Nothing}]
    /\ call \in [Calls -> Call]
    /\ saved \subseteq Saved

\* A change is made once per confirmation, ever, and once per idempotency key
\* until its finished answer expires; one whose outcome was never stored is not
\* made again at all.
SavedOnce ==
    \A s, t \in saved :
        s # t /\ s.key = t.key /\ s.at <= t.at =>
            /\ s.key \in DirectKeys
            /\ call[s.by].answer = "changed"
            /\ call[s.by].expiresAt <= t.at

\* No change commits while the emergency stop is on, however far the write had
\* come when it was switched on.
NothingSavedInSafeMode == [][saved' # saved => ~safeMode]_mcpVars

\* A reviewed change is made to the revision of the record that its preview
\* showed, whatever is edited elsewhere between preview, yes and change.
AppliedAsPreviewed == \A s \in saved : s.key \in Reviews => s.previewed = s.on

\* A change is made once, and to what was previewed.
SavedOnceAsPreviewed == SavedOnce /\ AppliedAsPreviewed

\* What the client is told is so: "failed and nothing was saved" and the stop
\* only if this call saved nothing, and "done" only if this very change,
\* with these arguments, was saved under the key.
AnswerMatchesWhatWasSaved ==
    \A c \in Calls :
        /\ call[c].answer \in {"write_failed", "stopped", "error", "key_reused"} =>
             \A s \in saved : s.by # c
        /\ call[c].answer = "changed" =>
             \E s \in saved : s.key = call[c].key /\ call[s.by].args = call[c].args

\* The answer to a confirmation and the state of its review agree, for the
\* first call and every replay: done means completed, refused means failed.
AnswerMatchesReview ==
    \A c \in Calls :
        call[c].key \in Reviews =>
            /\ call[c].answer = "changed" => review[call[c].key].status = "completed"
            /\ call[c].answer = "refused" => review[call[c].key].status = "failed"

\* Answer, saved change and review agree.
ToldTheTruth == AnswerMatchesWhatWasSaved /\ AnswerMatchesReview

\* "An unknown outcome is reconciled, never repeated": a key under which
\* something may have been saved is not freed, and a stored outcome does not
\* change.
OutcomesAreKept ==
    [][\A k \in Keys :
        key[k] # Nothing /\ key'[k] # key[k] =>
            IF key'[k] = Nothing
              THEN \/ key[k].status = "completed" /\ key[k].expiresAt <= clock
                   \/ key[k].status = "in_progress" /\ \A s \in saved : s.by # key[k].id
              ELSE key[k].status = "in_progress" /\ key'[k].id = key[k].id]_mcpVars

\* What a step may never do: save although the company was stopped, or free a key
\* under which something may have been saved.
NoUnsafeStep == NothingSavedInSafeMode /\ OutcomesAreKept
=============================================================================
