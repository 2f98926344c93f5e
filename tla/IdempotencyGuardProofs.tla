----------------------- MODULE IdempotencyGuardProofs -----------------------
(* Theorems about the idempotency guard, for every number of requests. *)
EXTENDS IdempotencyGuard, TLAPS

\* The requests that hold the key and have not answered and finished yet.
Holding(p) == Claimed(p) /\ request[p].step \in {"gate", "work", "finish"}

\* The row of p is the one in the table.
Keeps(p) == record # NoRecord /\ record.id = p

-----------------------------------------------------------------------------
(* The inductive invariant. *)

\* What is under way has a body and time left, and no answer before its work.
UnderWay ==
    \A p \in Requests :
        /\ request[p].step # "idle" => request[p].body \in Bodies
        /\ request[p].step \in Running => clock < request[p].expiresAt
        /\ request[p].step \in Running \ {"finish"} => request[p].outcome = "none"
        /\ request[p].step = "finish" => request[p].answer = request[p].outcome
        /\ request[p].step \in Running => request[p].of = NoRecord
        /\ request[p].step = "idle" => ~Claimed(p) /\ request[p] = Idle

\* A claim is made once, on the way from the insert to the work.
ClaimedInTime ==
    \A p \in Requests :
        Claimed(p) => /\ request[p].step \in {"gate", "work", "finish", "done", "lost"}
                      /\ request[p].claimedAt <= clock

\* The row is that of the request that inserted it.
RowOfItsRequest ==
    record # NoRecord =>
        /\ record.body = request[record.id].body
        /\ record.expiresAt = request[record.id].expiresAt
        /\ request[record.id].step # "idle"

\* A completed row says what its request answered for good.
RowTellsTheAnswer ==
    record # NoRecord /\ record.status = "completed" =>
        LET q == request[record.id] IN
        /\ q.step = "done"
        /\ q.outcome \in {"ok", "refused"}
        /\ q.answer = q.outcome /\ record.response = q.outcome

\* Who holds the key has its row in the table, still in progress.
HolderKeepsRow ==
    \A p \in Requests : Holding(p) => Keeps(p) /\ record.status = "in_progress"

\* Success is remembered for the whole retention.
SuccessRemembered ==
    \A p \in Requests :
        Claimed(p) /\ request[p].outcome = "ok" => Keeps(p) \/ request[p].expiresAt <= clock

\* Who is about to work came after the retention of whoever succeeded.
WorksAfterRetention ==
    \A p, q \in Requests :
        (/\ p # q /\ Claimed(p) /\ request[p].outcome = "ok"
         /\ Claimed(q) /\ request[q].step \in {"gate", "work"})
        => request[p].expiresAt <= request[q].claimedAt

\* What is about to be deleted had run out when it was looked at.
FreesTheExpired ==
    \A p \in Requests :
        request[p].step = "free" =>
            /\ request[p].stale \in Requests
            /\ request[request[p].stale].step # "idle"
            /\ request[request[p].stale].expiresAt <= clock

Inv == /\ TypeOK
       /\ UnderWay /\ ClaimedInTime
       /\ RowOfItsRequest /\ RowTellsTheAnswer /\ HolderKeepsRow
       /\ SuccessRemembered /\ WorksAfterRetention /\ FreesTheExpired
       /\ WorkedOncePerRetention /\ ReplayIsTheFirstAnswer
-----------------------------------------------------------------------------
(* Typing. *)

LEMMA BecomesEffect ==
  ASSUME TypeOK, NEW p \in Requests, NEW q, Becomes(p, q)
  PROVE  request'[p] = q /\ \A o \in Requests : o # p => request'[o] = request[o]
  BY DEF TypeOK, Becomes

LEMMA BecomesType ==
  ASSUME TypeOK, NEW p \in Requests, NEW q \in Request, Becomes(p, q)
  PROVE  request' \in [Requests -> Request]
  BY DEF TypeOK, Becomes

LEMMA IdleType == Idle \in Request
  BY GuardAssumption DEF Idle, Request, Outcomes, Answers

LEMMA TypeInit == Init => TypeOK
<1> USE GuardAssumption
<1> SUFFICES ASSUME Init PROVE TypeOK
  OBVIOUS
<1>1. clock \in 1..MaxTime
  BY DEF Init
<1> QED
  BY <1>1, IdleType DEF Init, TypeOK

LEMMA TypeStep ==
  ASSUME TypeOK, UnderWay, [Next]_vars
  PROVE  TypeOK'
<1> USE GuardAssumption
<1>1. ASSUME NEW p \in Requests, NEW b \in Bodies, Arrive(p, b) PROVE TypeOK'
  <2>1. clock + Retention \in 0..(MaxTime + Retention)
    BY DEF TypeOK
  <2>2. [Idle EXCEPT !.step = "insert", !.body = b, !.seenStop = safeMode,
                     !.expiresAt = clock + Retention] \in Request
    BY <2>1, IdleType DEF Request, Running, TypeOK
  <2> QED
    BY <1>1, <2>2, BecomesType DEF Arrive, TypeOK
<1>2. ASSUME NEW p \in Requests, ClaimKey(p) \/ InsertUnheard(p) PROVE TypeOK'
  <2>1. request[p] \in Request /\ request[p].body \in Bodies /\ clock \in 0..MaxTime
    BY <1>2 DEF TypeOK, UnderWay, ClaimKey, InsertUnheard, At
  <2>2. Row(p) \in Record
    BY <2>1 DEF Row, Record, Request
  <2>3. /\ [request[p] EXCEPT !.step = "gate", !.claimedAt = clock] \in Request
        /\ [request[p] EXCEPT !.step = "look"] \in Request
    BY <2>1 DEF Request, Running
  <2> QED
    BY <1>2, <2>2, <2>3, BecomesType DEF ClaimKey, InsertUnheard, Goto, TypeOK
<1>3. ASSUME NEW p \in Requests, Retry(p) PROVE request' \in [Requests -> Request]
  <2>1. request[p] \in Request
    BY DEF TypeOK
  <2>2. ASSUME NEW s \in {"insert", "gate"}
        PROVE  [request[p] EXCEPT !.attempt = 2, !.stale = NoRecord, !.step = s] \in Request
    <3>1. 2 \in 1..2 /\ s \in Running
      BY DEF Running
    <3> QED
      BY <2>1, <3>1 DEF Request
  <2>3. CASE request[p].attempt = 1
    BY <1>3, <2>2, <2>3, BecomesType DEF Retry
  <2>4. CASE request[p].attempt # 1
    BY <1>3, <2>2, <2>4, BecomesType DEF Retry
  <2> QED
    BY <2>3, <2>4
<1>4. ASSUME NEW p \in Requests, LookMissing(p) \/ FreeExpired(p) PROVE TypeOK'
  BY <1>3, <1>4 DEF LookMissing, FreeExpired, TypeOK
<1>5. ASSUME NEW p \in Requests,
             \/ LookExpired(p) \/ LookReused(p) \/ LookSeen(p) \/ InsertRefused(p)
             \/ GateRefuses(p) \/ GatePasses(p)
             \/ (\E outcome \in Outcomes \ {"stopped"} : Work(p, outcome)) \/ FinishLost(p)
      PROVE  TypeOK'
  <2>1. request[p] \in Request
    BY DEF TypeOK
  <2>2. ASSUME record # NoRecord PROVE record \in Record
    BY <2>2 DEF TypeOK
  <2>3. CASE LookExpired(p)
    <3>1. [request[p] EXCEPT !.step = "free", !.stale = record.id] \in Request
      BY <2>1, <2>2, <2>3 DEF LookExpired, Request, Record, Running
    <3> QED
      BY <2>3, <3>1, BecomesType DEF LookExpired, TypeOK
  <2>4. CASE LookReused(p)
    <3>1. [request[p] EXCEPT !.step = "done", !.answer = "key_reused"] \in Request
      BY <2>1 DEF Request, Answers
    <3> QED
      BY <2>4, <3>1, BecomesType DEF LookReused, Answer, TypeOK
  <2>5. CASE LookSeen(p)
    <3>1. \A a \in Answers, q \in Requests :
             [request[p] EXCEPT !.step = "done", !.of = q, !.answer = a] \in Request
      BY <2>1 DEF Request
    <3>2. record.id \in Requests /\ record.response \in Answers /\ "in_progress" \in Answers
      BY <2>2, <2>5 DEF LookSeen, Record, Answers, Outcomes
    <3> QED
      BY <2>5, <3>1, <3>2, BecomesType DEF LookSeen, TypeOK
  <2>6. CASE InsertRefused(p) \/ GatePasses(p) \/ FinishLost(p)
    <3>1. \A s \in {"look", "work", "done"} : [request[p] EXCEPT !.step = s] \in Request
      BY <2>1 DEF Request, Running
    <3> QED
      BY <2>6, <3>1, BecomesType DEF InsertRefused, GatePasses, FinishLost, Goto, TypeOK
  <2>7. CASE GateRefuses(p)
    <3>1. [request[p] EXCEPT !.step = "finish", !.seenStop = FALSE,
                             !.outcome = "stopped", !.answer = "stopped"] \in Request
      BY <2>1 DEF Request, Running, Outcomes, Answers
    <3> QED
      BY <2>7, <3>1, BecomesType DEF GateRefuses, TypeOK
  <2>8. ASSUME NEW a \in Outcomes, Work(p, a) PROVE TypeOK'
    <3>1. [request[p] EXCEPT !.step = "finish", !.outcome = a, !.answer = a] \in Request
      BY <2>1 DEF Request, Running, Outcomes, Answers
    <3> QED
      BY <2>8, <3>1, BecomesType DEF Work, TypeOK
  <2> QED
    BY <1>5, <2>3, <2>4, <2>5, <2>6, <2>7, <2>8
<1>6. ASSUME NEW p \in Requests, Finish(p) PROVE TypeOK'
  <2>1. request[p] \in Request
    BY DEF TypeOK
  <2>2. [request[p] EXCEPT !.step = "done"] \in Request
    BY <2>1 DEF Request
  <2>3. record' \in Record \cup {NoRecord}
    BY <1>6 DEF Finish, Keepable, TypeOK, Record
  <2> QED
    BY <1>6, <2>2, <2>3, BecomesType DEF Finish, Goto, TypeOK
<1>7. CASE Crash
  <2>1. \A p \in Requests : [request[p] EXCEPT !.step = "lost"] \in Request
    BY DEF TypeOK, Request
  <2> QED
    BY <1>7, <2>1 DEF Crash, TypeOK
<1>8. CASE Tick
  BY <1>8 DEF Tick, TypeOK
<1>9. CASE SwitchSafeMode
  BY <1>9 DEF SwitchSafeMode, TypeOK
<1>10. CASE UNCHANGED vars
  BY <1>10 DEF vars, TypeOK
<1> QED
  BY <1>1, <1>2, <1>4, <1>5, <1>6, <1>7, <1>8, <1>9, <1>10 DEF Next, Step

-----------------------------------------------------------------------------
(* Each step keeps the invariant. *)

LEMMA RowFields ==
  ASSUME TypeOK, record # NoRecord
  PROVE  record.id \in Requests /\ record.status \in {"in_progress", "completed"}
  BY DEF TypeOK, Record

LEMMA RequestFields ==
  ASSUME TypeOK, NEW p \in Requests
  PROVE  request[p] \in Request /\ request[p].of \in Requests \cup {NoRecord}
  BY DEF TypeOK, Request

\* The facts of a replayed answer, of request o.
Replayed(o) ==
    /\ request[request[o].of].body = request[o].body
    /\ request[request[o].of].answer = request[o].answer
    /\ request[request[o].of].outcome \in {"ok", "refused"}

\* What a request asks and has claimed stays, and what came of it.
SameTerms(p) ==
    /\ request'[p].body = request[p].body
    /\ request'[p].expiresAt = request[p].expiresAt
    /\ request'[p].claimedAt = request[p].claimedAt

SameWork(p) ==
    /\ SameTerms(p)
    /\ request'[p].outcome = request[p].outcome /\ request'[p].answer = request[p].answer
    /\ request'[p].of = request[p].of

\* What was answered and done is not taken back.
LEMMA ReplayFrame ==
  ASSUME Inv, NEW p \in Requests,
         \A o \in Requests : o # p => request'[o] = request[o],
         request'[p].body = request[p].body, request'[p].of = request[p].of,
         request'[p].answer = request[p].answer, request'[p].outcome = request[p].outcome
  PROVE  ReplayIsTheFirstAnswer'
<1> SUFFICES ASSUME NEW o \in Requests,
                    request'[o].of # NoRecord, request'[o].answer # "in_progress"
             PROVE  Replayed(o)'
  BY DEF ReplayIsTheFirstAnswer, Replayed
<1>1. \A q \in Requests : /\ request'[q].body = request[q].body /\ request'[q].of = request[q].of
                           /\ request'[q].answer = request[q].answer
                           /\ request'[q].outcome = request[q].outcome
  OBVIOUS
<1>2. request[o].of \in Requests /\ Replayed(o)
  BY <1>1, RequestFields DEF Inv, ReplayIsTheFirstAnswer, Replayed
<1> QED
  BY <1>1, <1>2 DEF Replayed

\* A step of p that touches neither the row nor the clock.
LEMMA QuietFrame ==
  ASSUME Inv, TypeOK', NEW p \in Requests,
         request[p].step \in Running,
         UNCHANGED <<clock, record>>,
         \A o \in Requests : o # p => request'[o] = request[o],
         SameTerms(p),
         request'[p].step # "idle",
         request'[p].step \in Running => request'[p].of = NoRecord,
         request'[p].step \in Running \ {"finish"} => request'[p].outcome = "none",
         request'[p].step = "finish" => request'[p].answer = request'[p].outcome,
         request[p].step = "finish" => /\ request'[p].outcome = request[p].outcome
                                       /\ request'[p].answer = request[p].answer,
         Claimed(p) /\ request'[p].step # "done" =>
             request[p].step \in {"gate", "work"} /\ request'[p].step \in {"work", "finish"},
         request'[p].outcome = "ok" => request[p].step \in {"work", "finish"},
         request'[p].step = "free" => Keeps(request'[p].stale) /\ record.expiresAt <= clock,
         \/ request'[p].of = NoRecord
         \/ request'[p].answer = "in_progress"
         \/ request'[p].of \in Requests \ {p} /\ Replayed(p)'
  PROVE  Inv'
<1> USE DEF SameTerms
<1>0. TypeOK /\ request[p] \in Request /\ (record # NoRecord => record.id \in Requests)
  BY RowFields, RequestFields DEF Inv
<1>2. UnderWay'
  BY DEF Inv, UnderWay, Running, Claimed
<1>3. ClaimedInTime'
  BY DEF Inv, ClaimedInTime, Claimed
<1>4. RowOfItsRequest'
  BY <1>0 DEF Inv, RowOfItsRequest
<1>5. RowTellsTheAnswer'
  BY <1>0 DEF Inv, RowTellsTheAnswer, Running
<1>6. HolderKeepsRow'
  BY DEF Inv, HolderKeepsRow, Holding, Claimed, Keeps
<1>7. SuccessRemembered'
  BY DEF Inv, SuccessRemembered, HolderKeepsRow, Holding, Claimed, Keeps
<1>8. WorksAfterRetention'
  <2> SUFFICES ASSUME NEW o \in Requests, NEW q \in Requests, o # q,
                      Claimed(o)', request'[o].outcome = "ok",
                      Claimed(q)', request'[q].step \in {"gate", "work"}
               PROVE  request'[o].expiresAt <= request'[q].claimedAt
    BY DEF WorksAfterRetention
  <2>1. Holding(q)
    BY DEF Holding, Claimed
  <2>2. CASE o # p
    BY <2>2 DEF Inv, WorksAfterRetention, Claimed
  <2>3. CASE o = p
    <3>1. Holding(p)
      BY <2>3 DEF Holding, Claimed
    <3> QED
      BY <2>1, <2>3, <3>1 DEF Inv, HolderKeepsRow, Keeps
  <2> QED
    BY <2>2, <2>3
<1>9. FreesTheExpired'
  BY <1>0 DEF Inv, FreesTheExpired, RowOfItsRequest, Keeps
<1>10. WorkedOncePerRetention'
  <2> SUFFICES ASSUME NEW o \in Requests, NEW q \in Requests, o # q,
                      Claimed(o)', request'[o].outcome = "ok",
                      Claimed(q)', request'[q].outcome = "ok"
               PROVE  \/ request'[o].expiresAt <= request'[q].claimedAt
                      \/ request'[q].expiresAt <= request'[o].claimedAt
    BY DEF WorkedOncePerRetention
  <2>1. /\ o # p => Claimed(o) /\ request[o].outcome = "ok"
        /\ q # p => Claimed(q) /\ request[q].outcome = "ok"
    BY DEF Claimed
  <2>2. Claimed(p)' => Claimed(p)
    BY DEF Claimed
  <2>3. CASE p \notin {o, q}
    BY <2>1, <2>3 DEF Inv, WorkedOncePerRetention
  <2>4. CASE p \in {o, q} /\ request[p].step = "work"
    BY <2>1, <2>2, <2>4 DEF Inv, WorksAfterRetention
  <2>5. CASE p \in {o, q} /\ request[p].step = "finish"
    BY <2>1, <2>2, <2>5 DEF Inv, WorkedOncePerRetention
  <2> QED
    BY <2>3, <2>4, <2>5
<1>11. ReplayIsTheFirstAnswer'
  <2> SUFFICES ASSUME NEW o \in Requests,
                      request'[o].of # NoRecord, request'[o].answer # "in_progress"
               PROVE  Replayed(o)'
    BY DEF ReplayIsTheFirstAnswer, Replayed
  <2>1. CASE o = p
    BY <2>1
  <2>2. CASE o # p
    <3>1. request[o].of \in Requests /\ Replayed(o)
      BY <1>0, <2>2, RequestFields DEF Inv, ReplayIsTheFirstAnswer, Replayed
    <3>2. request[p].step = "finish" \/ request[p].outcome = "none"
      BY DEF Inv, UnderWay
    <3> QED
      BY <2>2, <3>1, <3>2 DEF Replayed
  <2> QED
    BY <2>1, <2>2
<1> QED
  BY <1>2, <1>3, <1>4, <1>5, <1>6, <1>7, <1>8, <1>9, <1>10, <1>11 DEF Inv

LEMMA LookStep ==
  ASSUME Inv, TypeOK', NEW p \in Requests,
         \/ InsertRefused(p) \/ LookMissing(p) \/ LookExpired(p) \/ LookReused(p) \/ LookSeen(p)
  PROVE  Inv'
<1>0. TypeOK /\ request[p] \in Request
  BY RequestFields DEF Inv
<1>1. /\ request[p].step \in {"insert", "look"} /\ UNCHANGED <<clock, record>>
      /\ request[p].step \in Running
  BY DEF InsertRefused, LookMissing, LookExpired, LookReused, LookSeen, At, Running
<1>2. ~Claimed(p) /\ request[p].outcome = "none" /\ request[p].of = NoRecord
  BY <1>1 DEF Inv, ClaimedInTime, UnderWay
<1>3. CASE InsertRefused(p)
  <2>1. /\ request'[p] = [request[p] EXCEPT !.step = "look"]
        /\ \A o \in Requests : o # p => request'[o] = request[o]
    BY <1>0, <1>3, BecomesEffect DEF InsertRefused, Goto
  <2> QED
    BY <1>0, <1>1, <1>2, <2>1, QuietFrame DEF Request, SameTerms
<1>4. CASE LookMissing(p)
  <2>1. PICK s \in {"insert", "gate"} :
              request' = [request EXCEPT ![p] =
                  [request[p] EXCEPT !.attempt = 2, !.stale = NoRecord, !.step = s]]
    BY <1>4 DEF LookMissing, Retry, Becomes
  <2>2. /\ request'[p] = [request[p] EXCEPT !.attempt = 2, !.stale = NoRecord, !.step = s]
        /\ \A o \in Requests : o # p => request'[o] = request[o]
    BY <1>0, <2>1, BecomesEffect DEF Becomes
  <2>3. request'[p].step = s /\ SameWork(p)
    BY <1>0, <2>2 DEF Request, SameWork, SameTerms
  <2> QED
    BY <1>1, <1>2, <2>2, <2>3, QuietFrame DEF SameWork, SameTerms
<1>5. CASE LookExpired(p)
  <2>1. /\ request'[p] = [request[p] EXCEPT !.step = "free", !.stale = record.id]
        /\ \A o \in Requests : o # p => request'[o] = request[o]
    BY <1>0, <1>5, BecomesEffect DEF LookExpired
  <2>2. Keeps(record.id) /\ record.expiresAt <= clock
    BY <1>5 DEF LookExpired, Keeps, Expired
  <2>3. request'[p].step = "free" /\ request'[p].stale = record.id /\ SameWork(p)
    BY <1>0, <2>1 DEF Request, SameWork, SameTerms
  <2> QED
    BY <1>1, <1>2, <2>1, <2>2, <2>3, QuietFrame DEF SameWork, SameTerms
<1>6. CASE LookReused(p)
  <2>1. /\ request'[p] = [request[p] EXCEPT !.step = "done", !.answer = "key_reused"]
        /\ \A o \in Requests : o # p => request'[o] = request[o]
    BY <1>0, <1>6, BecomesEffect DEF LookReused, Answer
  <2> QED
    BY <1>0, <1>1, <1>2, <2>1, QuietFrame DEF Request, Running, SameTerms
\* The row says what its request answered, and that request did the work.
<1>7. CASE LookSeen(p)
  <2>1. PICK a : /\ a = IF record.status = "completed" THEN record.response ELSE "in_progress"
                 /\ Becomes(p, [request[p] EXCEPT !.step = "done", !.of = record.id, !.answer = a])
    BY <1>7 DEF LookSeen
  <2>2. /\ request'[p] = [request[p] EXCEPT !.step = "done", !.of = record.id, !.answer = a]
        /\ \A o \in Requests : o # p => request'[o] = request[o]
    BY <1>0, <2>1, BecomesEffect
  <2>3. record # NoRecord /\ record.id \in Requests
        /\ record.status \in {"in_progress", "completed"}
    BY <1>0, <1>7, RowFields DEF LookSeen
  <2>4. CASE record.status = "completed"
    <3>1. /\ request[record.id].step = "done" /\ record.id # p
          /\ request[record.id].outcome \in {"ok", "refused"}
          /\ request[record.id].answer = a
          /\ request[record.id].body = record.body
      BY <1>1, <2>1, <2>3, <2>4 DEF Inv, RowTellsTheAnswer, RowOfItsRequest
    <3>2. record.body = request[p].body
      BY <1>7 DEF LookSeen, SameRequest
    <3>3. request'[p].of = record.id /\ request'[p].answer = a /\ request'[p].body = request[p].body
      BY <1>0, <2>2 DEF Request
    <3>4. Replayed(p)' /\ request'[p].of \in Requests \ {p}
      BY <2>2, <2>3, <3>1, <3>2, <3>3 DEF Replayed
    <3> QED
      BY <1>0, <1>1, <1>2, <2>2, <3>4, QuietFrame DEF Request, Running, SameTerms
  <2>5. CASE record.status = "in_progress"
    <3>1. request'[p].answer = "in_progress"
      BY <1>0, <2>1, <2>2, <2>5 DEF Request
    <3> QED
      BY <1>0, <1>1, <1>2, <2>2, <3>1, QuietFrame DEF Request, Running, SameTerms
  <2> QED
    BY <2>3, <2>4, <2>5
<1> QED
  BY <1>3, <1>4, <1>5, <1>6, <1>7

LEMMA GateStep ==
  ASSUME Inv, TypeOK', NEW p \in Requests,
         GateRefuses(p) \/ GatePasses(p) \/ FinishLost(p)
         \/ (\E outcome \in Outcomes \ {"stopped"} : Work(p, outcome))
  PROVE  Inv'
<1>0. TypeOK /\ request[p] \in Request
  BY RequestFields DEF Inv
<1>1. /\ request[p].step \in {"gate", "work", "finish"} /\ UNCHANGED <<clock, record>>
      /\ request[p].step \in Running
      /\ FinishLost(p) <=> request[p].step = "finish"
  BY DEF GateRefuses, GatePasses, Work, FinishLost, At, Running
<1>2. request[p].of = NoRecord /\ (request[p].step # "finish" => request[p].outcome = "none")
  BY <1>1 DEF Inv, UnderWay
<1>3. CASE GateRefuses(p)
  <2>1. /\ request'[p] = [request[p] EXCEPT !.step = "finish", !.seenStop = FALSE,
                                             !.outcome = "stopped", !.answer = "stopped"]
        /\ \A o \in Requests : o # p => request'[o] = request[o]
    BY <1>0, <1>3, BecomesEffect DEF GateRefuses
  <2>2. request[p].step = "gate"
    BY <1>3 DEF GateRefuses, At
  <2>3. /\ request'[p].step = "finish" /\ SameTerms(p) /\ request'[p].of = request[p].of
        /\ request'[p].outcome = "stopped" /\ request'[p].answer = "stopped"
    BY <1>0, <2>1 DEF Request, SameTerms
  <2> QED
    BY <1>1, <1>2, <2>1, <2>2, <2>3, QuietFrame DEF SameTerms
<1>4. CASE GatePasses(p)
  <2>1. /\ request'[p] = [request[p] EXCEPT !.step = "work"]
        /\ \A o \in Requests : o # p => request'[o] = request[o]
    BY <1>0, <1>4, BecomesEffect DEF GatePasses, Goto
  <2>2. request[p].step = "gate"
    BY <1>4 DEF GatePasses, At
  <2> QED
    BY <1>0, <1>1, <1>2, <2>1, <2>2, QuietFrame DEF Request, SameTerms
<1>5. ASSUME NEW a, Work(p, a) PROVE Inv'
  <2>1. /\ request'[p] = [request[p] EXCEPT !.step = "finish", !.outcome = a, !.answer = a]
        /\ \A o \in Requests : o # p => request'[o] = request[o]
    BY <1>0, <1>5, BecomesEffect DEF Work
  <2>2. request[p].step = "work"
    BY <1>5 DEF Work, At
  <2>3. /\ request'[p].step = "finish" /\ SameTerms(p) /\ request'[p].of = request[p].of
        /\ request'[p].outcome = a /\ request'[p].answer = a
    BY <1>0, <2>1 DEF Request, SameTerms
  <2> QED
    BY <1>1, <1>2, <2>1, <2>2, <2>3, QuietFrame DEF SameTerms
<1>6. CASE FinishLost(p)
  <2>1. /\ request'[p] = [request[p] EXCEPT !.step = "done"]
        /\ \A o \in Requests : o # p => request'[o] = request[o]
    BY <1>0, <1>6, BecomesEffect DEF FinishLost, Goto
  <2>2. request[p].step = "finish"
    BY <1>6 DEF FinishLost, At
  <2> QED
    BY <1>0, <1>1, <1>2, <2>1, <2>2, QuietFrame DEF Request, Running, SameTerms
<1> QED
  BY <1>3, <1>4, <1>5, <1>6

\* The row of p comes into an empty table.
LEMMA InsertStep ==
  ASSUME Inv, TypeOK', NEW p \in Requests, ClaimKey(p) \/ InsertUnheard(p)
  PROVE  Inv'
<1> DEFINE claimed == ClaimKey(p)
<1>0. /\ TypeOK /\ request[p] \in Request /\ request[p].step = "insert"
      /\ record = NoRecord /\ record' = Row(p) /\ clock' = clock
  BY RequestFields DEF Inv, ClaimKey, InsertUnheard, At
<1>1. /\ request'[p] = IF claimed THEN [request[p] EXCEPT !.step = "gate", !.claimedAt = clock]
                                  ELSE [request[p] EXCEPT !.step = "look"]
      /\ \A o \in Requests : o # p => request'[o] = request[o]
  BY <1>0, BecomesEffect DEF ClaimKey, InsertUnheard, Goto
<1>2. /\ claimed => request'[p].step = "gate" /\ request'[p].claimedAt = clock
      /\ ~claimed => request'[p].step = "look" /\ request'[p].claimedAt = request[p].claimedAt
      /\ request'[p].body = request[p].body /\ request'[p].expiresAt = request[p].expiresAt
      /\ request'[p].outcome = request[p].outcome /\ request'[p].of = request[p].of
      /\ request'[p].answer = request[p].answer
  BY <1>0, <1>1 DEF Request
<1>3. /\ ~Claimed(p) /\ request[p].outcome = "none" /\ request[p].of = NoRecord
      /\ request[p].body \in Bodies /\ clock < request[p].expiresAt
      /\ clock \in 1..MaxTime
  BY <1>0 DEF Inv, ClaimedInTime, UnderWay, Running, TypeOK
<1>4. /\ record' # NoRecord /\ record'.id = p /\ record'.status = "in_progress"
      /\ record'.body = request[p].body /\ record'.expiresAt = request[p].expiresAt
  <2>1. Row(p) # NoRecord
    <3>1. Row(p) \in Record
      BY <1>0, <1>3 DEF Row, Record, Request
    <3> QED
      BY <3>1, NoRecordAssumption
  <2> QED
    BY <1>0, <2>1 DEF Row
<1>5. UnderWay'
  <2> SUFFICES ASSUME NEW o \in Requests
               PROVE  /\ request'[o].step # "idle" => request'[o].body \in Bodies
                      /\ request'[o].step \in Running => clock' < request'[o].expiresAt
                      /\ request'[o].step \in Running \ {"finish"} => request'[o].outcome = "none"
                      /\ request'[o].step = "finish" => request'[o].answer = request'[o].outcome
                      /\ request'[o].step \in Running => request'[o].of = NoRecord
                      /\ request'[o].step = "idle" => ~Claimed(o)' /\ request'[o] = Idle
    BY DEF UnderWay
  <2>1. CASE o = p
    BY <1>0, <1>2, <1>3, <2>1
  <2>2. CASE o # p
    BY <1>0, <1>1, <2>2 DEF Inv, UnderWay, Claimed
  <2> QED
    BY <2>1, <2>2
<1>6. ClaimedInTime'
  <2>1. (request'[p].step = "gate" /\ request'[p].claimedAt <= clock) \/ ~Claimed(p)'
    BY <1>2, <1>3 DEF Claimed
  <2> QED
    BY <1>0, <1>1, <2>1 DEF Inv, ClaimedInTime, Claimed
<1>7. RowOfItsRequest' /\ RowTellsTheAnswer'
  BY <1>2, <1>4 DEF RowOfItsRequest, RowTellsTheAnswer
\* Nobody held the key, and whoever succeeded with it did so long ago.
<1>8. HolderKeepsRow'
  BY <1>0, <1>1, <1>2, <1>3, <1>4 DEF Inv, HolderKeepsRow, Holding, Claimed, Keeps
<1>9. SuccessRemembered'
  BY <1>0, <1>1, <1>2, <1>3 DEF Inv, SuccessRemembered, Claimed, Keeps
<1>10. WorksAfterRetention'
  BY <1>0, <1>1, <1>2, <1>3
  DEF Inv, WorksAfterRetention, SuccessRemembered, HolderKeepsRow, Holding, Claimed, Keeps
<1>11. FreesTheExpired'
  <2>1. request'[p].step # "free"
    BY <1>2
  <2>2. \A o \in Requests : /\ request'[o].expiresAt = request[o].expiresAt
                            /\ request[o].step # "idle" => request'[o].step # "idle"
    BY <1>1, <1>2
  <2> QED
    BY <1>0, <1>1, <2>1, <2>2 DEF Inv, FreesTheExpired
<1>12. WorkedOncePerRetention'
  BY <1>1, <1>2, <1>3 DEF Inv, WorkedOncePerRetention, Claimed
<1>13. ReplayIsTheFirstAnswer'
  BY <1>1, <1>2, ReplayFrame
<1> QED
  BY <1>5, <1>6, <1>7, <1>8, <1>9, <1>10, <1>11, <1>12, <1>13 DEF Inv

\* A step of p on the row that adds nothing to what p has done.
LEMMA RowFrame ==
  ASSUME Inv, NEW p \in Requests,
         request[p].step \in Running, clock' = clock, SameWork(p),
         \A o \in Requests : o # p => request'[o] = request[o],
         \/ request'[p].step = "done"
         \/ request'[p].step \in {"insert", "gate"} /\ ~Claimed(p) /\ request[p].step = "free"
  PROVE  /\ UnderWay' /\ ClaimedInTime' /\ WorksAfterRetention' /\ FreesTheExpired'
         /\ WorkedOncePerRetention' /\ ReplayIsTheFirstAnswer'
<1> USE DEF SameWork, SameTerms
<1>1. UnderWay'
  <2>1. /\ request[p].body \in Bodies /\ clock < request[p].expiresAt
        /\ request[p].of = NoRecord
        /\ request[p].step = "free" => request[p].outcome = "none"
    BY DEF Inv, UnderWay, Running
  <2>2. request'[p].step \in {"insert", "gate", "done"}
    OBVIOUS
  <2> SUFFICES ASSUME NEW o \in Requests
               PROVE  /\ request'[o].step # "idle" => request'[o].body \in Bodies
                      /\ request'[o].step \in Running => clock' < request'[o].expiresAt
                      /\ request'[o].step \in Running \ {"finish"} => request'[o].outcome = "none"
                      /\ request'[o].step = "finish" => request'[o].answer = request'[o].outcome
                      /\ request'[o].step \in Running => request'[o].of = NoRecord
                      /\ request'[o].step = "idle" => ~Claimed(o)' /\ request'[o] = Idle
    BY DEF UnderWay
  <2>3. CASE o = p
    BY <2>1, <2>2, <2>3 DEF Running
  <2>4. CASE o # p
    BY <2>4 DEF Inv, UnderWay, Claimed
  <2> QED
    BY <2>3, <2>4
<1>2. ClaimedInTime' /\ WorksAfterRetention' /\ WorkedOncePerRetention'
  BY DEF Inv, ClaimedInTime, WorksAfterRetention, WorkedOncePerRetention, Claimed
<1>3. FreesTheExpired'
  <2>1. \A o \in Requests : /\ request'[o].expiresAt = request[o].expiresAt
                            /\ request[o].step # "idle" => request'[o].step # "idle"
    OBVIOUS
  <2> QED
    BY <2>1 DEF Inv, FreesTheExpired
<1>4. ReplayIsTheFirstAnswer'
  BY ReplayFrame
<1> QED
  BY <1>1, <1>2, <1>3, <1>4

\* An expired row is deleted, unless another one took its place.
LEMMA FreeStep ==
  ASSUME Inv, TypeOK', NEW p \in Requests, FreeExpired(p)
  PROVE  Inv'
<1>0. /\ TypeOK /\ request[p] \in Request /\ request[p].step = "free" /\ clock' = clock
      /\ request[p].step \in Running
  BY RequestFields DEF Inv, FreeExpired, At, Running
<1>1. PICK s \in {"insert", "gate"} :
            request' = [request EXCEPT ![p] =
                [request[p] EXCEPT !.attempt = 2, !.stale = NoRecord, !.step = s]]
  BY DEF FreeExpired, Retry, Becomes
<1>2. /\ request'[p] = [request[p] EXCEPT !.attempt = 2, !.stale = NoRecord, !.step = s]
      /\ \A o \in Requests : o # p => request'[o] = request[o]
  BY <1>0, <1>1, BecomesEffect DEF Becomes
<1>3. request'[p].step = s /\ SameWork(p)
  BY <1>0, <1>2 DEF Request, SameWork, SameTerms
<1>4. ~Claimed(p) /\ request[p].outcome = "none" /\ request[p].of = NoRecord
  BY <1>0 DEF Inv, ClaimedInTime, UnderWay
<1>5. CASE record' = record
  BY <1>0, <1>2, <1>3, <1>4, <1>5, QuietFrame DEF SameWork
\* The row that goes is not that of a holder, for it has expired.
<1>6. CASE record # NoRecord /\ record' = NoRecord /\ record.id = request[p].stale
  <2>1. record.id \in Requests /\ request[record.id].expiresAt <= clock
    BY <1>0, <1>6 DEF Inv, FreesTheExpired
  <2>2. \A o \in Requests : ~Holding(o)
    <3> SUFFICES ASSUME NEW o \in Requests, Holding(o) PROVE FALSE
      OBVIOUS
    <3>1. record.id = o /\ clock < request[o].expiresAt
      BY DEF Inv, HolderKeepsRow, Keeps, UnderWay, Holding, Running
    <3>2. request[o] \in Request /\ clock \in 1..MaxTime
      BY <1>0, RequestFields DEF TypeOK
    <3> QED
      BY <2>1, <3>1, <3>2 DEF Request
  <2>3. RowOfItsRequest' /\ RowTellsTheAnswer'
    BY <1>6 DEF RowOfItsRequest, RowTellsTheAnswer
  <2>4. HolderKeepsRow'
    BY <1>2, <1>3, <1>4, <2>2 DEF HolderKeepsRow, Holding, SameWork, SameTerms, Claimed
  <2>5. SuccessRemembered'
    BY <1>0, <1>2, <1>3, <1>4, <1>6, <2>1
    DEF Inv, SuccessRemembered, Keeps, SameWork, SameTerms, Claimed
  <2> QED
    BY <1>0, <1>2, <1>3, <1>4, <2>3, <2>4, <2>5, RowFrame DEF Inv
<1> QED
  BY <1>5, <1>6 DEF FreeExpired, Stale

\* The finish listener of a holder finds its own row.
LEMMA FinishStep ==
  ASSUME Inv, TypeOK', NEW p \in Requests, Finish(p)
  PROVE  Inv'
<1>0. /\ TypeOK /\ request[p] \in Request /\ request[p].step = "finish" /\ clock' = clock
      /\ request[p].step \in Running
  BY RequestFields DEF Inv, Finish, At, Running
<1>1. /\ request'[p] = [request[p] EXCEPT !.step = "done"]
      /\ \A o \in Requests : o # p => request'[o] = request[o]
  BY <1>0, BecomesEffect DEF Finish, Goto
<1>2. request'[p].step = "done" /\ SameWork(p)
  BY <1>0, <1>1 DEF Request, SameWork, SameTerms
<1>3. request[p].answer = request[p].outcome /\ request[p].of = NoRecord
  BY <1>0 DEF Inv, UnderWay
<1>4. CASE record' = record
  BY <1>0, <1>1, <1>2, <1>3, <1>4, QuietFrame DEF SameWork, Running
<1>5. CASE Claimed(p)
  <2>1. /\ record # NoRecord /\ record.id = p /\ record.status = "in_progress"
        /\ record \in Record
    BY <1>0, <1>5 DEF Inv, HolderKeepsRow, Holding, Keeps, TypeOK
  <2>2. \A o \in Requests : Holding(o) => o = p
    BY <2>1 DEF Inv, HolderKeepsRow, Keeps
  <2>3. CASE Keepable(request[p].outcome)
    <3>1. record' = [record EXCEPT !.status = "completed", !.response = request[p].outcome]
      BY <1>5, <2>1, <2>3 DEF Finish
    <3>2. /\ record'.id = p /\ record'.status = "completed" /\ record'.response = request[p].outcome
          /\ record'.body = record.body /\ record'.expiresAt = record.expiresAt
      BY <2>1, <3>1 DEF Record
    <3>3. record' # NoRecord
      <4>1. record' \in Record
        BY <2>1, <2>3, <3>1 DEF Record, Keepable
      <4> QED
        BY <4>1, NoRecordAssumption
    <3>4. RowTellsTheAnswer'
      BY <1>2, <1>3, <2>3, <3>2 DEF RowTellsTheAnswer, SameWork, Keepable
    <3>5. HolderKeepsRow' /\ SuccessRemembered'
      <4>1. \A o \in Requests : Claimed(o)' => Claimed(o)
        BY <1>1, <1>2 DEF SameWork, SameTerms, Claimed
      <4>2. HolderKeepsRow'
        BY <1>1, <1>2, <2>2, <4>1 DEF HolderKeepsRow, Holding
      <4>3. SuccessRemembered'
        BY <1>0, <1>1, <1>2, <2>1, <3>2, <3>3, <4>1
        DEF Inv, SuccessRemembered, Keeps, SameWork, SameTerms
      <4> QED
        BY <4>2, <4>3
    <3>6. RowOfItsRequest'
      BY <1>2, <2>1, <3>2 DEF Inv, RowOfItsRequest, SameWork, SameTerms
    <3> QED
      BY <1>0, <1>1, <1>2, <3>4, <3>5, <3>6, RowFrame DEF Inv
  <2>4. CASE ~Keepable(request[p].outcome)
    <3>1. record' = NoRecord
      BY <1>5, <2>1, <2>4 DEF Finish
    <3>2. request[p].outcome # "ok"
      BY <2>4 DEF Keepable
    <3>3. HolderKeepsRow'
      BY <1>1, <1>2, <2>2 DEF HolderKeepsRow, Holding, Claimed
    <3>4. SuccessRemembered'
      BY <1>0, <1>1, <1>2, <2>1, <3>2 DEF Inv, SuccessRemembered, Keeps, SameWork, SameTerms, Claimed
    <3>5. RowOfItsRequest' /\ RowTellsTheAnswer'
      BY <3>1 DEF RowOfItsRequest, RowTellsTheAnswer
    <3> QED
      BY <1>0, <1>1, <1>2, <3>3, <3>4, <3>5, RowFrame DEF Inv
  <2> QED
    BY <2>3, <2>4
<1> QED
  BY <1>4, <1>5 DEF Finish

\* A request that arrives has done nothing, and nobody knows of it.
LEMMA ArriveStep ==
  ASSUME Inv, TypeOK', NEW p \in Requests, NEW b \in Bodies, Arrive(p, b)
  PROVE  Inv'
<1>0. /\ TypeOK /\ request[p].step = "idle" /\ UNCHANGED <<clock, record>>
      /\ clock \in 1..MaxTime
  BY DEF Inv, TypeOK, Arrive, At
<1>1. /\ request'[p] = [Idle EXCEPT !.step = "insert", !.body = b, !.seenStop = safeMode,
                                     !.expiresAt = clock + Retention]
      /\ \A o \in Requests : o # p => request'[o] = request[o]
  BY <1>0, BecomesEffect DEF Arrive
<1>2. /\ request'[p].step = "insert" /\ request'[p].body = b
      /\ request'[p].expiresAt = clock + Retention /\ request'[p].claimedAt = 0
      /\ request'[p].outcome = "none" /\ request'[p].of = NoRecord
  BY <1>1 DEF Idle
<1>3. clock < clock + Retention
  BY <1>0, GuardAssumption
<1>4. ~Claimed(p)' /\ request[p].outcome = "none" /\ request[p].expiresAt = 0
  <2>1. request[p] = Idle
    BY <1>0 DEF Inv, UnderWay
  <2> QED
    BY <1>2, <2>1 DEF Claimed, Idle
<1>5. record # NoRecord => record.id \in Requests \ {p}
  BY <1>0, RowFields DEF Inv, RowOfItsRequest
<1>6. UnderWay'
  BY <1>0, <1>1, <1>2, <1>3, <1>4 DEF Inv, UnderWay, Claimed
<1>7. ClaimedInTime' /\ HolderKeepsRow' /\ SuccessRemembered'
  BY <1>0, <1>1, <1>4
  DEF Inv, ClaimedInTime, HolderKeepsRow, SuccessRemembered, Holding, Claimed, Keeps
<1>8. WorksAfterRetention' /\ WorkedOncePerRetention'
  BY <1>1, <1>4 DEF Inv, WorksAfterRetention, WorkedOncePerRetention, Claimed
<1>9. RowOfItsRequest' /\ RowTellsTheAnswer'
  BY <1>0, <1>1, <1>5 DEF Inv, RowOfItsRequest, RowTellsTheAnswer
<1>10. FreesTheExpired'
  <2> SUFFICES ASSUME NEW o \in Requests, request'[o].step = "free"
               PROVE  /\ request'[o].stale \in Requests
                      /\ request'[request'[o].stale].step # "idle"
                      /\ request'[request'[o].stale].expiresAt <= clock'
    BY DEF FreesTheExpired
  <2>1. o # p /\ request'[o] = request[o]
    BY <1>1, <1>2
  \* A row that was seen expired is not that of a request yet to come.
  <2>2. /\ request[o].stale \in Requests
        /\ request[request[o].stale].step # "idle"
        /\ request[request[o].stale].expiresAt <= clock
    BY <2>1 DEF Inv, FreesTheExpired
  <2>3. request[o].stale # p
    BY <1>0, <1>4, <2>1, <2>2 DEF Inv, FreesTheExpired
  <2> QED
    BY <1>0, <1>1, <2>1, <2>2, <2>3
<1>11. ReplayIsTheFirstAnswer'
  <2> SUFFICES ASSUME NEW o \in Requests,
                      request'[o].of # NoRecord, request'[o].answer # "in_progress"
               PROVE  Replayed(o)'
    BY DEF ReplayIsTheFirstAnswer, Replayed
  <2>1. o # p /\ request'[o] = request[o] /\ request[o].of \in Requests
    BY <1>0, <1>1, <1>2, RequestFields
  <2>2. Replayed(o) /\ request[o].of # p
    BY <1>4, <2>1 DEF Inv, ReplayIsTheFirstAnswer, Replayed
  <2> QED
    BY <1>1, <2>1, <2>2 DEF Replayed
<1> QED
  BY <1>6, <1>7, <1>8, <1>9, <1>10, <1>11 DEF Inv

\* A dead server answers nobody; the row stays as it was.
LEMMA CrashStep ==
  ASSUME Inv, TypeOK', Crash
  PROVE  Inv'
<1>0. TypeOK /\ UNCHANGED <<clock, record>>
  BY DEF Inv, Crash
<1>1. \A o \in Requests :
         /\ request'[o].body = request[o].body /\ request'[o].of = request[o].of
         /\ request'[o].expiresAt = request[o].expiresAt
         /\ request'[o].claimedAt = request[o].claimedAt
         /\ request'[o].outcome = request[o].outcome /\ request'[o].answer = request[o].answer
         /\ IF request[o].step \in Running THEN request'[o].step = "lost"
                                          ELSE request'[o] = request[o]
  BY <1>0 DEF Crash, TypeOK, Request
<1>2. UnderWay' /\ ClaimedInTime'
  BY <1>0, <1>1 DEF Inv, UnderWay, ClaimedInTime, Claimed, Running
<1>3. RowOfItsRequest'
  BY <1>0, <1>1, RowFields DEF Inv, RowOfItsRequest
<1>4. RowTellsTheAnswer'
  BY <1>0, <1>1, RowFields DEF Inv, RowTellsTheAnswer, Running
<1>5. HolderKeepsRow' /\ WorksAfterRetention' /\ FreesTheExpired'
  BY <1>1 DEF HolderKeepsRow, WorksAfterRetention, FreesTheExpired, Holding, Running
<1>6. SuccessRemembered' /\ WorkedOncePerRetention'
  BY <1>0, <1>1 DEF Inv, SuccessRemembered, WorkedOncePerRetention, Claimed, Keeps
<1>7. ReplayIsTheFirstAnswer'
  <2> SUFFICES ASSUME NEW o \in Requests,
                      request'[o].of # NoRecord, request'[o].answer # "in_progress"
               PROVE  Replayed(o)'
    BY DEF ReplayIsTheFirstAnswer, Replayed
  <2>1. request[o].of \in Requests /\ Replayed(o)
    BY <1>0, <1>1, RequestFields DEF Inv, ReplayIsTheFirstAnswer, Replayed
  <2> QED
    BY <1>1, <2>1 DEF Replayed
<1> QED
  BY <1>2, <1>3, <1>4, <1>5, <1>6, <1>7 DEF Inv

\* Time passes, though not for longer than a request under way has.
LEMMA TickStep ==
  ASSUME Inv, TypeOK', Tick
  PROVE  Inv'
<1>0. /\ UNCHANGED <<record, request>> /\ clock' = clock + 1 /\ clock \in 1..MaxTime
      /\ \A p \in Requests : request[p].step \in Running => clock' < request[p].expiresAt
  BY DEF Inv, TypeOK, Tick
<1>1. \A p \in Requests : request[p].expiresAt \in Nat /\ request[p].claimedAt \in Nat
  BY GuardAssumption DEF Inv, TypeOK, Request
<1>2. UnderWay' /\ ClaimedInTime' /\ FreesTheExpired'
  BY <1>0, <1>1 DEF Inv, UnderWay, ClaimedInTime, FreesTheExpired, Claimed
<1>3. RowOfItsRequest' /\ RowTellsTheAnswer' /\ HolderKeepsRow'
  BY <1>0 DEF Inv, RowOfItsRequest, RowTellsTheAnswer, HolderKeepsRow, Holding, Claimed, Keeps
<1>4. SuccessRemembered'
  BY <1>0, <1>1 DEF Inv, SuccessRemembered, Claimed, Keeps
<1>5. WorksAfterRetention' /\ WorkedOncePerRetention' /\ ReplayIsTheFirstAnswer'
  BY <1>0 DEF Inv, WorksAfterRetention, WorkedOncePerRetention, ReplayIsTheFirstAnswer, Claimed
<1> QED
  BY <1>2, <1>3, <1>4, <1>5 DEF Inv

LEMMA InvInit == Init => Inv
<1> SUFFICES ASSUME Init PROVE Inv
  OBVIOUS
<1>1. /\ record = NoRecord /\ \A p \in Requests : request[p] = Idle
      /\ \A p \in Requests : /\ ~Claimed(p) /\ request[p].step = "idle"
                             /\ request[p].of = NoRecord
  BY DEF Init, Idle, Claimed
<1>2. UnderWay
  BY <1>1 DEF UnderWay, Running
<1>3. /\ ClaimedInTime /\ RowOfItsRequest /\ RowTellsTheAnswer /\ HolderKeepsRow
      /\ SuccessRemembered /\ WorksAfterRetention /\ FreesTheExpired
      /\ WorkedOncePerRetention /\ ReplayIsTheFirstAnswer
  BY <1>1 DEF ClaimedInTime, RowOfItsRequest, RowTellsTheAnswer, HolderKeepsRow, Holding,
              SuccessRemembered, WorksAfterRetention, FreesTheExpired,
              WorkedOncePerRetention, ReplayIsTheFirstAnswer
<1> QED
  BY <1>2, <1>3, TypeInit DEF Inv

LEMMA InvStep ==
  ASSUME Inv, [Next]_vars
  PROVE  Inv'
<1>0. TypeOK'
  BY TypeStep DEF Inv
<1>1. ASSUME NEW p \in Requests, Step(p) PROVE Inv'
  BY <1>0, <1>1, InsertStep, LookStep, FreeStep, GateStep, FinishStep DEF Step
<1>2. ASSUME NEW p \in Requests, NEW b \in Bodies, Arrive(p, b) PROVE Inv'
  BY <1>0, <1>2, ArriveStep
<1>3. CASE Crash \/ Tick
  BY <1>0, <1>3, CrashStep, TickStep
<1>4. CASE SwitchSafeMode \/ UNCHANGED vars
  <2>1. UNCHANGED <<clock, record, request>>
    BY <1>4 DEF SwitchSafeMode, vars
  <2> QED
    BY <1>0, <2>1
    DEF Inv, UnderWay, ClaimedInTime, RowOfItsRequest, RowTellsTheAnswer, HolderKeepsRow,
        Holding, Claimed, Keeps, SuccessRemembered, WorksAfterRetention, FreesTheExpired,
        WorkedOncePerRetention, ReplayIsTheFirstAnswer
<1> QED
  BY <1>1, <1>2, <1>3, <1>4 DEF Next

LEMMA InvAlways == Spec => []Inv
<1>1. Inv /\ [Next]_vars => Inv'
  BY InvStep
<1> QED
  BY <1>1, InvInit, PTL DEF Spec

-----------------------------------------------------------------------------
(* What the guard promises, for any number of requests and any retention. *)

\* The row and every request are what their types say.
THEOREM GuardTypeCorrect == Spec => []TypeOK
<1>1. Inv => TypeOK
  BY DEF Inv
<1> QED
  BY <1>1, InvAlways, PTL

\* Of the requests that hold the key in turn, two succeed only if the retention
\* of the first was over when the second claimed it.
THEOREM HoldersWorkOnce == Spec => []WorkedOncePerRetention
<1>1. Inv => WorkedOncePerRetention
  BY DEF Inv
<1> QED
  BY <1>1, InvAlways, PTL

\* A replay is the first answer, and a refusal by the stop or a 5xx is never kept.
THEOREM RetriesHearTheFirstAnswer == Spec => []RetriesAreAnswered
<1>1. Inv => RetriesAreAnswered
  <2> SUFFICES ASSUME Inv PROVE RetryAfterRefusalIsFree
    BY DEF Inv, RetriesAreAnswered
  <2>1. record # NoRecord => record.status \in {"in_progress", "completed"}
    BY RowFields DEF Inv
  <2> QED
    BY <2>1 DEF Inv, RowTellsTheAnswer, RetryAfterRefusalIsFree
<1> QED
  BY <1>1, InvAlways, PTL
=============================================================================
