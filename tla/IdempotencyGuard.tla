-------------------------- MODULE IdempotencyGuard --------------------------
(***************************************************************************)
(* Write idempotency over HTTP (backend/src/middleware/idempotency.ts) and  *)
(* the emergency-stop gate behind it (lib/safeMode.ts), as requireAuth      *)
(* chains them, for the requests that carry one key in one company.        *)
(*                                                                         *)
(* record is the row of idempotency_records under that key.  A request     *)
(* takes one step per statement; what the route's handler does is one      *)
(* step with any outcome.  The answer reaches the caller before the finish *)
(* listener writes it down.                                                *)
(***************************************************************************)
EXTENDS Integers, FiniteSets

CONSTANTS
    Requests,   \* requests carrying the key; bounds how many are made
    Bodies,     \* method, path and body: what the fingerprint is taken of
    Retention,  \* RETENTION_HOURS, in ticks
    MaxTime,    \* bound of the clock
    Faults,     \* may statements fail and the server die?
    NoRecord

ASSUME GuardAssumption ==
    /\ Retention \in Nat \ {0}
    /\ MaxTime \in Nat \ {0}
    /\ Faults \in BOOLEAN
    /\ NoRecord \notin Requests

VARIABLES
    clock,
    safeMode,   \* companies.safe_mode_since is set
    record,
    request

vars == <<clock, safeMode, record, request>>

Outcomes == {"ok", "refused", "failed", "blank", "stopped"}
Running  == {"insert", "look", "free", "gate", "work", "finish"}

Idle == [step |-> "idle", body |-> NoRecord, attempt |-> 1,
         expiresAt |-> 0, claimedAt |-> 0, stale |-> NoRecord, seenStop |-> FALSE,
         outcome |-> "none", answer |-> "none", of |-> NoRecord]

At(p, step)   == request[p].step = step
Becomes(p, q) == request' = [request EXCEPT ![p] = q]
Goto(p, step) == Becomes(p, [request[p] EXCEPT !.step = step])
Answer(p, a)  == Becomes(p, [request[p] EXCEPT !.step = "done", !.answer = a])

\* A request claimed the key, or went on without it.
Claimed(p) == request[p].claimedAt > 0

-----------------------------------------------------------------------------
\* requireAuth: the stop is read with the user, before the guard.
Arrive(p, b) ==
    /\ At(p, "idle")
    /\ Becomes(p, [Idle EXCEPT !.step = "insert", !.body = b, !.seenStop = safeMode,
                               !.expiresAt = clock + Retention])
    /\ UNCHANGED <<clock, safeMode, record>>

Row(p) == [id |-> p, body |-> request[p].body, status |-> "in_progress",
           response |-> "none", expiresAt |-> request[p].expiresAt]

ClaimKey(p) ==
    /\ At(p, "insert")
    /\ record = NoRecord
    /\ record' = Row(p)
    /\ Becomes(p, [request[p] EXCEPT !.step = "gate", !.claimedAt = clock])
    /\ UNCHANGED <<clock, safeMode>>

\* The insert fails on the unique key; every other error is taken for that.
InsertRefused(p) ==
    /\ At(p, "insert")
    /\ record # NoRecord \/ Faults
    /\ Goto(p, "look")
    /\ UNCHANGED <<clock, safeMode, record>>

\* The row was inserted and the connection broke before it was confirmed.
InsertUnheard(p) ==
    /\ Faults
    /\ At(p, "insert")
    /\ record = NoRecord
    /\ record' = Row(p)
    /\ Goto(p, "look")
    /\ UNCHANGED <<clock, safeMode>>

\* Two attempts; after the second the request goes on without the key.
Retry(p) ==
    Becomes(p, [request[p] EXCEPT !.attempt = 2, !.stale = NoRecord,
                                  !.step = IF request[p].attempt = 1 THEN "insert" ELSE "gate"])

Expired(r) == r.expiresAt <= clock

\* The fingerprint is not compared.
SameRequest_any(p) == TRUE
SameRequest(p) == record.body = request[p].body

LookMissing(p) ==
    /\ At(p, "look")
    /\ record = NoRecord
    /\ Retry(p)
    /\ UNCHANGED <<clock, safeMode, record>>

LookExpired(p) ==
    /\ At(p, "look")
    /\ record # NoRecord
    /\ Expired(record)
    /\ Becomes(p, [request[p] EXCEPT !.step = "free", !.stale = record.id])
    /\ UNCHANGED <<clock, safeMode, record>>

LookReused(p) ==
    /\ At(p, "look")
    /\ record # NoRecord
    /\ ~Expired(record)
    /\ ~SameRequest(p)
    /\ Answer(p, "key_reused")
    /\ UNCHANGED <<clock, safeMode, record>>

\* The first attempt's answer, or that there is none yet.
LookSeen(p) ==
    /\ At(p, "look")
    /\ record # NoRecord
    /\ ~Expired(record)
    /\ SameRequest(p)
    /\ Becomes(p, [request[p] EXCEPT
            !.step = "done", !.of = record.id,
            !.answer = IF record.status = "completed" THEN record.response ELSE "in_progress"])
    /\ UNCHANGED <<clock, safeMode, record>>

\* The record of the key is deleted, whichever it is by now.
Stale_by_key(p) == record # NoRecord
Stale(p) == record # NoRecord /\ record.id = request[p].stale

\* Delete by id: a row that took its place meanwhile is left alone.
FreeExpired(p) ==
    /\ At(p, "free")
    /\ record' = IF Stale(p) THEN NoRecord ELSE record
    /\ Retry(p)
    /\ UNCHANGED <<clock, safeMode>>

-----------------------------------------------------------------------------
\* safeModeGate, for a route that is not on the allow-list.
GateRefuses(p) ==
    /\ At(p, "gate")
    /\ request[p].seenStop
    /\ Becomes(p, [request[p] EXCEPT !.step = "finish", !.seenStop = FALSE,
                               !.outcome = "stopped", !.answer = "stopped"])
    /\ UNCHANGED <<clock, safeMode, record>>

GatePasses(p) ==
    /\ At(p, "gate")
    /\ ~request[p].seenStop
    /\ Goto(p, "work")
    /\ UNCHANGED <<clock, safeMode, record>>

\* The route's handler works and answers: done (2xx), refused (4xx), failed
\* (5xx), or with something else than JSON.
Work(p, outcome) ==
    /\ At(p, "work")
    /\ Becomes(p, [request[p] EXCEPT !.step = "finish", !.outcome = outcome, !.answer = outcome])
    /\ UNCHANGED <<clock, safeMode, record>>

\* A refusal by the emergency stop is kept, too.
Keepable_stopped(outcome)  == outcome \in {"ok", "refused", "stopped"}

\* Only an answer below 500 that is not the emergency stop's is kept.
Keepable(outcome) == outcome \in {"ok", "refused"}

\* The finish listener: by key, whoever's row it is.
Finish(p) ==
    /\ At(p, "finish")
    /\ record' =
         IF ~Claimed(p) \/ record = NoRecord THEN record
         ELSE IF Keepable(request[p].outcome)
                THEN [record EXCEPT !.status = "completed", !.response = request[p].outcome]
         ELSE IF record.status = "in_progress" THEN NoRecord ELSE record
    /\ Goto(p, "done")
    /\ UNCHANGED <<clock, safeMode>>

\* Its failure is swallowed.
FinishLost(p) ==
    /\ Faults
    /\ At(p, "finish")
    /\ Goto(p, "done")
    /\ UNCHANGED <<clock, safeMode, record>>

\* The server dies; nobody finishes what was under way.
Crash ==
    /\ Faults
    /\ \E p \in Requests : request[p].step \in Running
    /\ request' = [p \in Requests |->
            IF request[p].step \in Running
              THEN [request[p] EXCEPT !.step = "lost"] ELSE request[p]]
    /\ UNCHANGED <<clock, safeMode, record>>

\* No request is under way for as long as the retention.
Tick ==
    /\ clock < MaxTime
    /\ \A p \in Requests : request[p].step \in Running => clock + 1 < request[p].expiresAt
    /\ clock' = clock + 1
    /\ UNCHANGED <<safeMode, record, request>>

SwitchSafeMode ==
    /\ safeMode' = ~safeMode
    /\ UNCHANGED <<clock, record, request>>

Init ==
    /\ clock = 1
    /\ safeMode = FALSE
    /\ record = NoRecord
    /\ request = [p \in Requests |-> Idle]

Step(p) ==
    \/ ClaimKey(p) \/ InsertRefused(p) \/ InsertUnheard(p)
    \/ LookMissing(p) \/ LookExpired(p) \/ LookReused(p) \/ LookSeen(p) \/ FreeExpired(p)
    \/ GateRefuses(p) \/ GatePasses(p)
    \/ \E outcome \in Outcomes \ {"stopped"} : Work(p, outcome)
    \/ Finish(p) \/ FinishLost(p)

Next ==
    \/ \E p \in Requests : Step(p) \/ \E b \in Bodies : Arrive(p, b)
    \/ Crash \/ Tick \/ SwitchSafeMode

Spec == Init /\ [][Next]_vars

-----------------------------------------------------------------------------
Record == [id : Requests, body : Bodies, status : {"in_progress", "completed"},
           response : {"none", "ok", "refused"}, expiresAt : 0..(MaxTime + Retention)]

ASSUME NoRecordAssumption == NoRecord \notin Record

Answers == Outcomes \cup {"none", "key_reused", "in_progress"}

Request == [step : Running \cup {"idle", "done", "lost"}, body : Bodies \cup {NoRecord},
            attempt : 1..2, expiresAt : 0..(MaxTime + Retention), claimedAt : 0..MaxTime,
            stale : Requests \cup {NoRecord}, seenStop : BOOLEAN,
            outcome : Outcomes \cup {"none"}, answer : Answers, of : Requests \cup {NoRecord}]

\* The type invariant: the row, and what a request can be doing.
TypeOK ==
    /\ clock \in 1..MaxTime
    /\ safeMode \in BOOLEAN
    /\ record \in Record \cup {NoRecord}
    /\ request \in [Requests -> Request]

\* "The key performs its work at most once", for the requests that claimed it:
\* two of them succeed only if the retention of the first one ended before the
\* second one began, whatever was lost or died in between.
WorkedOncePerRetention ==
    \A p, q \in Requests :
        (/\ p # q /\ Claimed(p) /\ Claimed(q)
         /\ request[p].outcome = "ok" /\ request[q].outcome = "ok")
        => \/ request[p].expiresAt <= request[q].claimedAt
           \/ request[q].expiresAt <= request[p].claimedAt

\* "Every later attempt receives the first attempt's answer": a replayed answer
\* was given to the same request before, by whoever then did the work.
ReplayIsTheFirstAnswer ==
    \A p \in Requests :
        LET q == request[request[p].of] IN
        request[p].of # NoRecord /\ request[p].answer # "in_progress" =>
            /\ q.body = request[p].body
            /\ q.answer = request[p].answer
            /\ q.outcome \in {"ok", "refused"}

\* A refusal by the emergency stop and a 5xx are never what a retry gets to
\* hear: once the stop is lifted, or the fault is gone, the retry is carried out.
RetryAfterRefusalIsFree ==
    \A p \in Requests :
        (/\ request[p].step = "done" /\ request[p].outcome \in {"failed", "stopped"}
         /\ record # NoRecord /\ record.id = p)
        => record.status = "in_progress"

\* What a retry is answered: the first attempt's answer if there was one, and the work
\* itself if there was only a refusal.
RetriesAreAnswered == ReplayIsTheFirstAnswer /\ RetryAfterRefusalIsFree

-----------------------------------------------------------------------------
(* What the comments say and the code does not keep. *)

\* "The server then guarantees that the key performs its work at most once":
\* no two requests with the key both succeed before its retention ends.
AtMostOncePerKey ==
    \A p, q \in Requests :
        p # q /\ request[p].outcome = "ok" /\ request[q].outcome = "ok"
        => \/ request[p].expiresAt <= request[q].expiresAt - Retention
           \/ request[q].expiresAt <= request[p].expiresAt - Retention
=============================================================================
