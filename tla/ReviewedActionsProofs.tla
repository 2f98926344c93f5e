------------------------ MODULE ReviewedActionsProofs ------------------------
(* Theorems about the review engine, for every number of requests and rows. *)
EXTENDS ReviewedActionsRefinement, TLAPS

LEMMA IdleType == Idle \in Request
<1>1. (CHOOSE t \in Types : TRUE) \in Types
  BY ConstantsAssumption
<1> QED
  BY <1>1, ConstantsAssumption DEF Idle, Request, Ops, Steps, Answers

\* What the actions do to the record of a request keeps it a request.
LEMMA StepUpdate ==
  ASSUME NEW q \in Request, NEW s \in Steps
  PROVE  [q EXCEPT !.step = s] \in Request
  BY DEF Request

LEMMA AnswerUpdate ==
  ASSUME NEW q \in Request, NEW s \in Steps, NEW a \in Answers
  PROVE  [q EXCEPT !.step = s, !.answer = a] \in Request
  BY DEF Request

LEMMA LockUpdate ==
  ASSUME NEW q \in Request, NEW s \in Steps, NEW n \in 0..MaxTime, NEW l \in 0..MaxTime
  PROVE  [q EXCEPT !.step = s, !.now = n, !.lockedAt = l] \in Request
  BY DEF Request

LEMMA CandidatesUpdate ==
  ASSUME NEW q \in Request, NEW s \in Steps, NEW c \in SUBSET Reviews
  PROVE  [q EXCEPT !.step = s, !.candidates = c] \in Request
  BY DEF Request

LEMMA TargetUpdate ==
  ASSUME NEW q \in Request, NEW s \in Steps, NEW t \in Reviews \cup {NoReview}
  PROVE  [q EXCEPT !.step = s, !.target = t] \in Request
  BY DEF Request

LEMMA PreparedUpdate ==
  ASSUME NEW q \in Request, NEW t \in Reviews
  PROVE  [q EXCEPT !.step = "done", !.answer = "prepared", !.target = t] \in Request
  BY DEF Request, Steps, Answers

LEMMA ArrivalUpdate ==
  ASSUME NEW q \in Request, NEW o \in Ops, NEW y \in Types, NEW s \in Steps,
         NEW n \in 0..MaxTime
  PROVE  [q EXCEPT !.op = o, !.type = y, !.step = s, !.now = n] \in Request
  BY DEF Request

LEMMA YesUpdate ==
  ASSUME NEW q \in Request, NEW y \in Types, NEW n \in 0..MaxTime,
         NEW h \in Reviews \cup {NoReview, AnyReview}
  PROVE  [q EXCEPT !.op = "claim", !.type = y, !.step = "check", !.now = n, !.heard = h]
           \in Request
  BY DEF Request, Ops, Steps

LEMMA CancelUpdate ==
  ASSUME NEW q \in Request, NEW y \in Types, NEW n \in 0..MaxTime, NEW c \in SUBSET Reviews
  PROVE  [q EXCEPT !.op = "cancel", !.type = y, !.step = "cancel", !.now = n,
                   !.candidates = c] \in Request
  BY DEF Request, Ops, Steps

LEMMA RequestFields ==
  ASSUME TypeOK, NEW p \in Requests
  PROVE  /\ request[p] \in Request
         /\ request[p].type \in Types
         /\ request[p].target \in Reviews \cup {NoReview}
         /\ request[p].candidates \in SUBSET Reviews
         /\ request[p].now \in 0..MaxTime
         /\ request[p].step \in Steps
         /\ request[p].answer \in Answers
  BY DEF TypeOK, Request

LEMMA BecomesType ==
  ASSUME TypeOK, NEW p \in Requests, NEW q \in Request, Becomes(p, q)
  PROVE  request' \in [Requests -> Request]
  BY DEF TypeOK, Becomes

LEMMA GotoType ==
  ASSUME TypeOK, NEW p \in Requests, NEW s \in Steps, Goto(p, s)
  PROVE  request' \in [Requests -> Request]
<1>1. [request[p] EXCEPT !.step = s] \in Request
  BY StepUpdate, RequestFields
<1> QED
  BY <1>1, BecomesType DEF Goto

HeldType == [Requests -> [Reviews -> {"free", "cancelled", "expired"}]]

LEMMA LockTypes ==
  ASSUME TypeOK, NEW p \in Requests, NEW S, NEW new \in {"cancelled", "expired"}
  PROVE  Unlocked(p) \in HeldType /\ Sweep(p, S, new) \in HeldType
  BY DEF TypeOK, HeldType, Unlocked, Sweep

LEMMA ReplyType ==
  ASSUME TypeOK, NEW p \in Requests, NEW a \in Answers, Reply(p, a)
  PROVE  request' \in [Requests -> Request] /\ held' \in HeldType
<1>1. "done" \in Steps
  BY DEF Steps
<1>2. [request[p] EXCEPT !.step = "done", !.answer = a] \in Request
  BY <1>1, AnswerUpdate, RequestFields
<1> QED
  BY <1>2, BecomesType, LockTypes DEF Reply

LEMMA CommittedType ==
  ASSUME TypeOK, NEW p \in Requests
  PROVE  Committed(p) \in [Reviews -> Statuses]
  BY DEF TypeOK, Committed, Statuses

LEMMA TypeInit == Init => TypeOK
<1> USE ConstantsAssumption
<1> SUFFICES ASSUME Init PROVE TypeOK
  OBVIOUS
<1>1. clock \in 1..MaxTime /\ safeMode \in BOOLEAN
  <2>1. clock = 1 /\ 1 \in 1..MaxTime
    BY DEF Init
  <2>2. safeMode \in BOOLEAN
    BY DEF Init
  <2> QED
    BY <2>1, <2>2
<1>2. status \in [Reviews -> Statuses] /\ actionType \in [Reviews -> Types]
  BY DEF Init, Statuses
<1>3. createdAt \in [Reviews -> 0..MaxTime]
  <2>1. createdAt \in [Reviews -> 0..1] /\ 0..1 \subseteq 0..MaxTime
    BY DEF Init
  <2> QED
    BY <2>1
<1>4. expiresAt \in [Reviews -> 0..(MaxTime + Lifetime)]
  BY <1>3 DEF Init
<1>5. request \in [Requests -> Request]
  BY IdleType DEF Init
<1>6. held \in [Requests -> [Reviews -> {"free", "cancelled", "expired"}]]
      /\ ranBy \in [Reviews -> SUBSET Requests]
  BY DEF Init
<1> QED
  BY <1>1, <1>2, <1>3, <1>4, <1>5, <1>6 DEF TypeOK

LEMMA TypeStep ==
  ASSUME TypeOK, [Next]_vars
  PROVE  TypeOK'
<1> USE ConstantsAssumption
<1>0. ASSUME NEW p \in Requests
      PROVE  request[p] \in Request /\ "done" \in Steps
  BY RequestFields DEF Steps
<1>1. ASSUME NEW p \in Requests, Arrival(p) PROVE TypeOK'
  <2>0. Idle \in Request /\ clock \in 0..MaxTime
    BY IdleType DEF TypeOK
  <2>1. request' \in [Requests -> Request]
    <3>1. ASSUME NEW t \in Types, ArrivePrepare(p, t) \/ ArriveCancel(p, t) \/ ArriveRead(p, t)
          PROVE  request' \in [Requests -> Request]
      <4>1. PICK op \in Ops, s \in Steps : Arrive(p, op, t, s)
        BY <3>1 DEF ArrivePrepare, ArriveCancel, ArriveRead, Ops, Steps
      <4> QED
        BY <2>0, <4>1, ArrivalUpdate, BecomesType DEF Arrive
    <3>2. ASSUME NEW t \in Types, NEW h \in Reviews \cup {NoReview, AnyReview},
                 ArriveClaim(p, t, h)
          PROVE  request' \in [Requests -> Request]
      BY <2>0, <3>2, YesUpdate, BecomesType DEF ArriveClaim
    <3>3. ASSUME NEW r \in Reviews, ArriveCancelById(p, r)
          PROVE  request' \in [Requests -> Request]
      <4>1. actionType[r] \in Types /\ {r} \in SUBSET Reviews
        BY DEF TypeOK
      <4>2. [Idle EXCEPT !.op = "cancel", !.type = actionType[r], !.step = "cancel",
                         !.now = clock, !.candidates = {r}] \in Request
        BY <2>0, <4>1, CancelUpdate
      <4> QED
        BY <3>3, <4>2, BecomesType DEF ArriveCancelById
    <3> QED
      BY <1>1, <3>1, <3>2, <3>3 DEF Arrival
  <2> QED
    BY <1>1, <2>1 DEF Arrival, ArrivePrepare, ArriveCancel, ArriveRead, Arrive,
                     ArriveClaim, ArriveCancelById, TypeOK, table
<1>2. ASSUME NEW p \in Requests, TakeLock(p) PROVE TypeOK'
  <2>1. {"supersede", "select"} \subseteq Steps
    BY DEF Steps, LockedSteps
  <2>2. NowUnderLock(p) \in 0..MaxTime /\ clock \in 0..MaxTime
    BY RequestFields DEF NowUnderLock, TypeOK
  <2>3. request' \in [Requests -> Request]
    BY <1>0, <1>2, <2>1, <2>2, LockUpdate, BecomesType DEF TakeLock
  <2> QED
    BY <1>2, <2>3 DEF TakeLock, TypeOK, table
<1>3. ASSUME NEW p \in Requests, Supersede(p) PROVE TypeOK'
  <2>1. request' \in [Requests -> Request] /\ held' \in HeldType
    BY <1>3, GotoType, LockTypes DEF Supersede, Steps, LockedSteps
  <2> QED
    BY <1>3, <2>1 DEF Supersede, TypeOK, table, HeldType
<1>4. ASSUME NEW p \in Requests, Scan(p) PROVE TypeOK'
  <2>1. "withdraw" \in Steps
    BY DEF Steps, LockedSteps
  <2>2. request' \in [Requests -> Request]
    BY <1>0, <1>4, <2>1, CandidatesUpdate, BecomesType DEF Scan
  <2> QED
    BY <1>4, <2>2 DEF Scan, TypeOK, table
<1>5. ASSUME NEW p \in Requests, Withdraw(p) PROVE TypeOK'
  <2>1. request' \in [Requests -> Request] /\ held' \in HeldType
    BY <1>5, GotoType, LockTypes DEF Withdraw, Steps, LockedSteps
  <2> QED
    BY <1>5, <2>1 DEF Withdraw, TypeOK, table, HeldType
<1>6. ASSUME NEW p \in Requests, Create(p) PROVE TypeOK'
  <2>1. PICK r \in Reviews :
            /\ status' = [Committed(p) EXCEPT ![r] = "pending"]
            /\ actionType' = [actionType EXCEPT ![r] = request[p].type]
            /\ createdAt' = [createdAt EXCEPT ![r] = clock]
            /\ expiresAt' = [expiresAt EXCEPT ![r] = request[p].now + Lifetime]
            /\ Becomes(p, [request[p] EXCEPT !.step = "done", !.answer = "prepared",
                                             !.target = r])
    BY <1>6 DEF Create
  <2>2. status' \in [Reviews -> Statuses] /\ actionType' \in [Reviews -> Types]
    BY <2>1, CommittedType, RequestFields DEF TypeOK, Statuses
  <2>3. createdAt' \in [Reviews -> 0..MaxTime]
    BY <2>1 DEF TypeOK
  <2>4. expiresAt' \in [Reviews -> 0..(MaxTime + Lifetime)]
    <3>1. request[p].now + Lifetime \in 0..(MaxTime + Lifetime)
      BY RequestFields
    <3> QED
      BY <2>1, <3>1 DEF TypeOK
  <2>5. request' \in [Requests -> Request]
    BY <1>0, <2>1, PreparedUpdate, BecomesType
  <2>6. held' \in HeldType
    BY <1>6, LockTypes DEF Create
  <2> QED
    BY <1>6, <2>2, <2>3, <2>4, <2>5, <2>6 DEF Create, TypeOK, HeldType
<1>7. ASSUME NEW p \in Requests, CheckSafeMode(p) PROVE TypeOK'
  <2>1. request' \in [Requests -> Request] /\ held' \in HeldType
    BY <1>7, GotoType, ReplyType DEF CheckSafeMode, Steps, Answers, TypeOK, HeldType
  <2> QED
    BY <1>7, <2>1 DEF CheckSafeMode, TypeOK, table, HeldType
<1>8. ASSUME NEW p \in Requests, SeeWaiting(p) PROVE TypeOK'
  <2>1. "lock" \in Steps
    BY DEF Steps
  <2>2. PICK r \in Reviews \cup {NoReview} :
           Becomes(p, [request[p] EXCEPT !.step = "lock", !.target = r])
    BY <1>8 DEF SeeWaiting, Waiting
  <2>3. request' \in [Requests -> Request]
    BY <1>0, <2>1, <2>2, TargetUpdate, BecomesType
  <2> QED
    BY <1>8, <2>3 DEF SeeWaiting, TypeOK, table
<1>9. ASSUME NEW p \in Requests, FindNothing(p) PROVE TypeOK'
  <2>1. request' \in [Requests -> Request] /\ held' \in HeldType
    BY <1>9, ReplyType DEF FindNothing, Answers
  <2>2. status' \in [Reviews -> Statuses]
    BY <1>9 DEF FindNothing, TypeOK, Statuses
  <2> QED
    BY <1>9, <2>1, <2>2 DEF FindNothing, TypeOK, HeldType
<1>10. ASSUME NEW p \in Requests, RefuseUnheard(p) PROVE TypeOK'
  <2>1. request' \in [Requests -> Request] /\ held' \in HeldType
    BY <1>10, ReplyType DEF RefuseUnheard, Answers
  <2>2. status' \in [Reviews -> Statuses]
    BY <1>10 DEF RefuseUnheard, TypeOK, Statuses
  <2> QED
    BY <1>10, <2>1, <2>2 DEF RefuseUnheard, TypeOK, HeldType
<1>11. ASSUME NEW p \in Requests, SelectNewest(p) PROVE TypeOK'
  <2>1. {"claim", "tie"} \subseteq Steps
    BY DEF Steps, LockedSteps
  <2>2. PICK r \in Reviews : Becomes(p, [request[p] EXCEPT
               !.step = IF Newest(p) = {r} THEN "claim" ELSE "tie",
               !.target = r])
    BY <1>11 DEF SelectNewest, Newest, Live, StillWaiting, Waiting
  <2>3. request' \in [Requests -> Request]
    BY <1>0, <2>1, <2>2, TargetUpdate, BecomesType
  <2>4. held' \in HeldType
    BY <1>11, LockTypes DEF SelectNewest
  <2> QED
    BY <1>11, <2>3, <2>4 DEF SelectNewest, TypeOK, table, HeldType
<1>12. ASSUME NEW p \in Requests, FailTied(p) PROVE TypeOK'
  <2>1. request' \in [Requests -> Request] /\ held' \in HeldType
    BY <1>12, ReplyType DEF FailTied, Answers
  <2>2. status' \in [Reviews -> Statuses]
    BY <1>12, CommittedType DEF FailTied, Statuses
  <2> QED
    BY <1>12, <2>1, <2>2 DEF FailTied, TypeOK, HeldType
<1>13. ASSUME NEW p \in Requests, Claim(p) PROVE TypeOK'
  <2>1. request' \in [Requests -> Request] /\ held' \in HeldType
    BY <1>13, GotoType, LockTypes DEF Claim, Steps
  <2>2. status' \in [Reviews -> Statuses]
    BY <1>13, CommittedType DEF Claim, ClaimedStatus, Statuses
  <2> QED
    BY <1>13, <2>1, <2>2 DEF Claim, TypeOK, HeldType
<1>14. ASSUME NEW p \in Requests, LoseClaim(p) PROVE TypeOK'
  <2>1. request' \in [Requests -> Request] /\ held' \in HeldType
    BY <1>14, ReplyType DEF LoseClaim, Answers
  <2> QED
    BY <1>14, <2>1, CommittedType DEF LoseClaim, TypeOK, HeldType
<1>15. ASSUME NEW p \in Requests, RejectPayload(p) PROVE TypeOK'
  <2>1. request' \in [Requests -> Request] /\ held' \in HeldType
    BY <1>15, ReplyType DEF RejectPayload, Answers
  <2> QED
    BY <1>15, <2>1 DEF RejectPayload, ResolveAs, TypeOK, Statuses, HeldType
<1>16. ASSUME NEW p \in Requests, Execute(p) PROVE TypeOK'
  <2>1. request' \in [Requests -> Request]
    BY <1>16, GotoType DEF Execute, Steps
  <2>2. ranBy' \in [Reviews -> SUBSET Requests]
    BY <1>16 DEF Execute, TypeOK
  <2> QED
    BY <1>16, <2>1, <2>2 DEF Execute, TypeOK, table
<1>17. ASSUME NEW p \in Requests, NEW ok \in BOOLEAN, Complete(p, ok) PROVE TypeOK'
  <2>1. request' \in [Requests -> Request] /\ held' \in HeldType
    BY <1>17, ReplyType DEF Complete, Answers
  <2> QED
    BY <1>17, <2>1 DEF Complete, ResolveAs, TypeOK, Statuses, HeldType
<1>18. ASSUME NEW p \in Requests, ExpireOverdue(p) PROVE TypeOK'
  <2>1. request' \in [Requests -> Request] /\ held' \in HeldType
    BY <1>18, GotoType, ReplyType DEF ExpireOverdue, Steps, Answers, TypeOK, HeldType
  <2>2. status' \in [Reviews -> Statuses]
    BY <1>18 DEF ExpireOverdue, TypeOK, Statuses
  <2> QED
    BY <1>18, <2>1, <2>2 DEF ExpireOverdue, TypeOK, HeldType
<1>19. ASSUME NEW p \in Requests, FindWaiting(p) PROVE TypeOK'
  <2>1. "cancel" \in Steps /\ Waiting(request[p].type) \in SUBSET Reviews
    BY DEF Steps, Waiting
  <2>2. request' \in [Requests -> Request] /\ held' \in HeldType
    BY <1>0, <1>19, <2>1, CandidatesUpdate, BecomesType, ReplyType
    DEF FindWaiting, Answers, TypeOK, HeldType
  <2> QED
    BY <1>19, <2>2 DEF FindWaiting, TypeOK, table, HeldType
<1>20. ASSUME NEW p \in Requests, CancelFound(p) PROVE TypeOK'
  <2>1. request' \in [Requests -> Request] /\ held' \in HeldType
    BY <1>20, ReplyType DEF CancelFound, Answers
  <2>2. status' \in [Reviews -> Statuses]
    BY <1>20 DEF CancelFound, TypeOK, Statuses
  <2> QED
    BY <1>20, <2>1, <2>2 DEF CancelFound, TypeOK, HeldType
<1>21. ASSUME NEW p \in Requests, Fail(p) PROVE TypeOK'
  <2>1. request' \in [Requests -> Request] /\ held' \in HeldType
    BY <1>21, ReplyType DEF Fail, Answers
  <2> QED
    BY <1>21, <2>1 DEF Fail, TypeOK, table, HeldType
<1>22. CASE Tick
  BY <1>22 DEF Tick, TypeOK, table
<1>23. CASE SwitchSafeMode
  BY <1>23 DEF SwitchSafeMode, TypeOK, table
<1>24. CASE UNCHANGED vars
  BY <1>24 DEF vars, table, TypeOK
<1> QED
  BY <1>1, <1>2, <1>3, <1>4, <1>5, <1>6, <1>7, <1>8, <1>9, <1>10, <1>11, <1>12,
     <1>13, <1>14, <1>15, <1>16, <1>17, <1>18, <1>19, <1>20, <1>21, <1>22, <1>23, <1>24
  DEF Next, Step

\* Every column holds what its type says and every request is a request.
THEOREM TypeCorrect == Spec => []TypeOK
<1>1. Init => TypeOK
  BY TypeInit
<1>2. TypeOK /\ [Next]_vars => TypeOK'
  BY TypeStep
<1> QED
  BY <1>1, <1>2, PTL DEF Spec

-----------------------------------------------------------------------------
(* The inductive invariant. *)

\* One transaction at a time holds the lock of a queue.
LockExclusive ==
    \A p, q \in Requests :
        request[p].step \in LockedSteps /\ request[q].step \in LockedSteps
        /\ request[p].type = request[q].type => p = q

\* A locked row is pending, has one owner, and the owner is in a transaction.
RowLocks ==
    \A p \in Requests, r \in Reviews :
        held[p][r] # "free" =>
            /\ status[r] = "pending"
            /\ request[p].step \in {"scan", "withdraw", "create", "claim", "tie"}
            /\ \A q \in Requests : held[q][r] # "free" => q = p

\* From its first sweep on a preparation has every waiting row of its queue.
Swept ==
    \A p \in Requests, r \in Reviews :
        /\ request[p].step \in {"scan", "withdraw", "create"}
        /\ status[r] = "pending" /\ actionType[r] = request[p].type
        => held[p][r] # "free"

\* What a claim selected is a row of its queue, and keeps being one.
Selected ==
    \A p \in Requests :
        request[p].step \in {"claim", "tie"} =>
            /\ request[p].target \in Reviews
            /\ status[request[p].target] # "unused"
            /\ actionType[request[p].target] = request[p].type

\* A claim belongs to the one request that won it, and has not run before.
Claimed ==
    \A p \in Requests :
        request[p].step \in {"execute", "resolve"} =>
            /\ request[p].target \in Reviews
            /\ status[request[p].target] = "executing"
            /\ \A q \in Requests :
                  request[q].step \in {"execute", "resolve"}
                  /\ request[q].target = request[p].target => q = p
            /\ request[p].step = "execute" => ranBy[request[p].target] = {}

Inv == /\ TypeOK
       /\ LockExclusive /\ RowLocks /\ Swept
       /\ Selected /\ Claimed
       /\ OneWaitingPerQueue /\ ExecutedAtMostOnce /\ WithdrawnNeverRuns
-----------------------------------------------------------------------------
(* How a step of one request leaves the invariant intact. *)

\* What the requests other than p are doing and hold.
Others(p) == \A o \in Requests : o # p => request'[o] = request[o] /\ held'[o] = held[o]

Free(p)  == \A r \in Reviews : held[p][r] = "free"
Alone(p, r) == \A o \in Requests : o # p => held[o][r] = "free"

\* The rows a step of p resolves: waiting ones nobody else has locked, or the
\* one it had claimed.
Resolves(p) ==
    \A r \in Reviews :
        \/ status'[r] = status[r]
        \/ /\ status[r] = "pending" /\ Alone(p, r)
           /\ status'[r] \in {"cancelled", "expired", "failed"}
        \/ /\ status[r] = "executing" /\ r = request[p].target
           /\ request[p].step \in {"execute", "resolve"}
           /\ status'[r] \in {"completed", "failed"}

LEMMA BecomesEffect ==
  ASSUME TypeOK, NEW p \in Requests, NEW q, Becomes(p, q)
  PROVE  request'[p] = q /\ \A o \in Requests : o # p => request'[o] = request[o]
  BY DEF TypeOK, Becomes

LEMMA GotoEffect ==
  ASSUME TypeOK, NEW p \in Requests, NEW s \in Steps, Goto(p, s)
  PROVE  /\ request'[p].step = s
         /\ request'[p].type = request[p].type
         /\ request'[p].target = request[p].target
         /\ \A o \in Requests : o # p => request'[o] = request[o]
<1>1. /\ request'[p] = [request[p] EXCEPT !.step = s]
      /\ \A o \in Requests : o # p => request'[o] = request[o]
  BY BecomesEffect DEF Goto
<1> QED
  BY <1>1, RequestFields DEF Request

LEMMA UnlockedEffect ==
  ASSUME TypeOK, NEW p \in Requests, held' = Unlocked(p)
  PROVE  Free(p)' /\ \A o \in Requests : o # p => held'[o] = held[o]
  BY DEF TypeOK, Unlocked, Free

LEMMA SweepEffect ==
  ASSUME TypeOK, NEW p \in Requests, NEW S, NEW new, held' = Sweep(p, S, new)
  PROVE  /\ \A r \in Reviews : held'[p][r] = IF r \in S THEN new ELSE held[p][r]
         /\ \A o \in Requests : o # p => held'[o] = held[o]
  BY DEF TypeOK, Sweep

LEMMA ReplyEffect ==
  ASSUME TypeOK, NEW p \in Requests, NEW a \in Answers, Reply(p, a)
  PROVE  request'[p].step = "done" /\ Free(p)' /\ Others(p)
<1>1. /\ request'[p] = [request[p] EXCEPT !.step = "done", !.answer = a]
      /\ \A o \in Requests : o # p => request'[o] = request[o]
  BY BecomesEffect DEF Reply
<1>2. request'[p].step = "done"
  BY <1>1, RequestFields DEF Request
<1> QED
  BY <1>1, <1>2, UnlockedEffect DEF Reply, Others

\* A statement that runs found its rows free of the locks of others.
LEMMA UnblockedRows ==
  ASSUME NEW p \in Requests, NEW s, Runs(p, s)
  PROVE  /\ s \in {"supersede", "claim", "tie"} =>
              \A r \in Waiting(request[p].type) : Alone(p, r)
         /\ s \in {"select", "expire"} => \A r \in Overdue(p) : Alone(p, r)
         /\ s \in {"withdraw", "cancel"} => \A r \in request[p].candidates : Alone(p, r)
         /\ s = "lock" => \A o \in Requests : o # p => ~HoldsLock(o, request[p].type)
         /\ request[p].step = s
<1>0. request[p].step = s /\ BlockedBy(p) = {}
  BY DEF Runs, At
<1>1. \A r \in Touches(p) : Alone(p, r)
  BY <1>0 DEF BlockedBy, Alone
<1>2. request[p].step \in {"supersede", "claim", "tie"} => Touches(p) = Waiting(request[p].type)
  BY DEF Touches
<1>3. request[p].step \in {"select", "expire"} => Touches(p) = Overdue(p)
  BY DEF Touches
<1>4. request[p].step \in {"withdraw", "cancel"} => Touches(p) = request[p].candidates
  BY DEF Touches
<1>5. request[p].step = "lock" => \A o \in Requests : o # p => ~HoldsLock(o, request[p].type)
  BY <1>0 DEF BlockedBy, At
<1> QED
  BY <1>0, <1>1, <1>2, <1>3, <1>4, <1>5

\* Outside its transaction a request holds no row.
LEMMA FreeOutside ==
  ASSUME Inv, NEW p \in Requests,
         request[p].step \notin {"scan", "withdraw", "create", "claim", "tie"}
  PROVE  Free(p)
  BY DEF Inv, RowLocks, Free

\* What the transaction of p holds becomes resolved when it commits.
LEMMA CommittedRows ==
  ASSUME Inv, NEW p \in Requests, NEW r \in Reviews
  PROVE  \/ Committed(p)[r] = status[r]
         \/ /\ status[r] = "pending" /\ Alone(p, r)
            /\ Committed(p)[r] \in {"cancelled", "expired"}
<1>1. held[p][r] \in {"free", "cancelled", "expired"}
  BY DEF Inv, TypeOK
<1>2. held[p][r] # "free" => status[r] = "pending" /\ Alone(p, r)
  BY DEF Inv, RowLocks, Alone
<1> QED
  BY <1>1, <1>2 DEF Committed

\* A step that leaves the locked part, or was never in it, and resolves rows.
LEMMA EndFrame ==
  ASSUME Inv, TypeOK', NEW p \in Requests, Others(p), Free(p)', Resolves(p),
         request'[p].step \notin LockedSteps \cup {"execute", "resolve"},
         UNCHANGED <<actionType, ranBy>>
  PROVE  Inv'
<1>1. LockExclusive'
  BY DEF Inv, LockExclusive, Others
<1>2. RowLocks'
  <2> SUFFICES ASSUME NEW o \in Requests, NEW r \in Reviews, held'[o][r] # "free"
               PROVE  /\ status'[r] = "pending"
                      /\ request'[o].step \in {"scan", "withdraw", "create", "claim", "tie"}
                      /\ \A q \in Requests : held'[q][r] # "free" => q = o
    BY DEF RowLocks
  <2>1. o # p /\ held[o][r] # "free" /\ request'[o] = request[o]
    BY DEF Free, Others
  <2>2. status[r] = "pending" /\ ~Alone(p, r)
    BY <2>1 DEF Inv, RowLocks, Alone
  <2>3. status'[r] = "pending"
    BY <2>2 DEF Resolves
  <2>4. \A q \in Requests : held'[q][r] # "free" => q # p /\ held[q][r] # "free"
    BY DEF Free, Others
  <2> QED
    BY <2>1, <2>3, <2>4 DEF Inv, RowLocks
<1>3. Swept'
  <2> SUFFICES ASSUME NEW o \in Requests, NEW r \in Reviews,
                      request'[o].step \in {"scan", "withdraw", "create"},
                      status'[r] = "pending", actionType'[r] = request'[o].type
               PROVE  held'[o][r] # "free"
    BY DEF Swept
  <2>1. o # p
    BY DEF LockedSteps
  <2>2. status[r] = "pending"
    BY DEF Resolves
  <2> QED
    BY <2>1, <2>2 DEF Inv, Swept, Others
<1>4. Selected'
  <2> SUFFICES ASSUME NEW o \in Requests, request'[o].step \in {"claim", "tie"}
               PROVE  /\ request'[o].target \in Reviews
                      /\ status'[request'[o].target] # "unused"
                      /\ actionType'[request'[o].target] = request'[o].type
    BY DEF Selected
  <2>1. o # p
    BY DEF LockedSteps
  <2>2. request'[o] = request[o]
    BY <2>1 DEF Others
  <2>3. \A r \in Reviews : status[r] # "unused" => status'[r] # "unused"
    BY DEF Resolves
  <2> QED
    BY <2>2, <2>3 DEF Inv, Selected
<1>5. Claimed'
  <2> SUFFICES ASSUME NEW o \in Requests, request'[o].step \in {"execute", "resolve"}
               PROVE  /\ request'[o].target \in Reviews
                      /\ status'[request'[o].target] = "executing"
                      /\ \A q \in Requests :
                            request'[q].step \in {"execute", "resolve"}
                            /\ request'[q].target = request'[o].target => q = o
                      /\ request'[o].step = "execute" => ranBy'[request'[o].target] = {}
    BY DEF Claimed
  <2>1. o # p /\ request'[o] = request[o]
    BY DEF Others
  <2>2. /\ request[o].target \in Reviews /\ status[request[o].target] = "executing"
        /\ \A q \in Requests :
              request[q].step \in {"execute", "resolve"}
              /\ request[q].target = request[o].target => q = o
        /\ request[o].step = "execute" => ranBy[request[o].target] = {}
    BY <2>1 DEF Inv, Claimed
  <2>3. status'[request[o].target] = "executing"
    BY <2>1, <2>2 DEF Resolves
  <2>4. \A q \in Requests : request'[q].step \in {"execute", "resolve"} => request'[q] = request[q]
    BY DEF Others
  <2> QED
    BY <2>1, <2>2, <2>3, <2>4
<1>6. OneWaitingPerQueue'
  BY DEF Inv, OneWaitingPerQueue, Resolves
<1>7. ExecutedAtMostOnce' /\ WithdrawnNeverRuns'
  BY DEF Inv, ExecutedAtMostOnce, WithdrawnNeverRuns, Resolves
<1> QED
  BY <1>1, <1>2, <1>3, <1>4, <1>5, <1>6, <1>7 DEF Inv

\* A step that changes the record of p outside the special steps, and no row.
LEMMA QuietFrame ==
  ASSUME Inv, TypeOK', NEW p \in Requests, Free(p),
         \A o \in Requests : o # p => request'[o] = request[o],
         request'[p].step \notin LockedSteps \cup {"execute", "resolve"},
         UNCHANGED <<status, actionType, held, ranBy>>
  PROVE  Inv'
  BY EndFrame DEF Others, Free, Resolves

\* The end of a request: it replies, and rows were resolved.
LEMMA ReplyFrame ==
  ASSUME Inv, TypeOK', NEW p \in Requests, NEW a \in Answers, Reply(p, a), Resolves(p),
         UNCHANGED <<actionType, ranBy>>
  PROVE  Inv'
<1>1. request'[p].step = "done" /\ Free(p)' /\ Others(p)
  BY ReplyEffect DEF Inv
<1> QED
  BY <1>1, EndFrame DEF LockedSteps

LEMMA ArrivalStep ==
  ASSUME Inv, TypeOK', NEW p \in Requests, Arrival(p)
  PROVE  Inv'
<1>1. /\ request[p].step = "idle"
      /\ UNCHANGED <<status, actionType, held, ranBy>>
  BY DEF Arrival, ArrivePrepare, ArriveCancel, ArriveRead, Arrive, ArriveClaim,
         ArriveCancelById, At, table
<1>2. /\ request'[p].step \in {"lock", "expire", "check", "cancel"}
      /\ \A o \in Requests : o # p => request'[o] = request[o]
  <2>0. TypeOK /\ Idle \in Request
    BY IdleType DEF Inv
  <2>1. ASSUME NEW t \in Types, NEW op, NEW s \in {"lock", "expire"}, Arrive(p, op, t, s)
        PROVE  <1>2!:
    <3>1. /\ request'[p] = [Idle EXCEPT !.op = op, !.type = t, !.step = s, !.now = clock]
          /\ \A o \in Requests : o # p => request'[o] = request[o]
      BY <2>0, <2>1, BecomesEffect DEF Arrive
    <3> QED
      BY <2>0, <3>1 DEF Request
  <2>2. ASSUME NEW t \in Types, NEW h, ArriveClaim(p, t, h)
        PROVE  <1>2!:
    <3>1. /\ request'[p] = [Idle EXCEPT !.op = "claim", !.type = t, !.step = "check",
                                        !.now = clock, !.heard = h]
          /\ \A o \in Requests : o # p => request'[o] = request[o]
      BY <2>0, <2>2, BecomesEffect DEF ArriveClaim
    <3> QED
      BY <2>0, <3>1 DEF Request
  <2>3. ASSUME NEW r \in Reviews, ArriveCancelById(p, r)
        PROVE  <1>2!:
    <3>1. /\ request'[p] = [Idle EXCEPT !.op = "cancel", !.type = actionType[r],
                                        !.step = "cancel", !.now = clock, !.candidates = {r}]
          /\ \A o \in Requests : o # p => request'[o] = request[o]
      BY <2>0, <2>3, BecomesEffect DEF ArriveCancelById
    <3> QED
      BY <2>0, <3>1 DEF Request
  <2> QED
    BY <2>1, <2>2, <2>3 DEF Arrival, ArrivePrepare, ArriveCancel, ArriveRead
<1>3. Free(p)
  BY <1>1, FreeOutside
<1> QED
  BY <1>1, <1>2, <1>3, QuietFrame DEF LockedSteps

\* The steps that end outside the locked part.
LEMMA OutsideStep ==
  ASSUME Inv, TypeOK', NEW p \in Requests,
         \/ CheckSafeMode(p) \/ SeeWaiting(p) \/ FindWaiting(p) \/ Fail(p)
  PROVE  Inv'
<1>0. TypeOK /\ request[p] \in Request
  BY RequestFields DEF Inv
<1>1. CASE CheckSafeMode(p)
  <2>1. request[p].step = "check" /\ UNCHANGED <<status, actionType, ranBy>> /\ Resolves(p)
    BY <1>1 DEF CheckSafeMode, Runs, At, table, Resolves
  <2>2. CASE Reply(p, "stopped")
    BY <2>1, <2>2, ReplyFrame DEF Answers
  <2>3. CASE Goto(p, "see") /\ UNCHANGED held
    BY <1>0, <2>1, <2>3, GotoEffect, FreeOutside, QuietFrame DEF Steps, LockedSteps
  <2> QED
    BY <1>1, <2>2, <2>3 DEF CheckSafeMode
<1>2. CASE SeeWaiting(p)
  <2>1. request[p].step = "see" /\ UNCHANGED <<status, actionType, held, ranBy>>
    BY <1>2 DEF SeeWaiting, Runs, At, table
  <2>2. PICK r : Becomes(p, [request[p] EXCEPT !.step = "lock", !.target = r])
    BY <1>2 DEF SeeWaiting
  <2>3. /\ request'[p].step = "lock"
        /\ \A o \in Requests : o # p => request'[o] = request[o]
    <3>1. /\ request'[p] = [request[p] EXCEPT !.step = "lock", !.target = r]
          /\ \A o \in Requests : o # p => request'[o] = request[o]
      BY <1>0, <2>2, BecomesEffect
    <3> QED
      BY <1>0, <3>1 DEF Request
  <2> QED
    BY <2>1, <2>3, FreeOutside, QuietFrame DEF LockedSteps
<1>3. CASE FindWaiting(p)
  <2>1. request[p].step = "find" /\ UNCHANGED <<status, actionType, ranBy>> /\ Resolves(p)
    BY <1>3 DEF FindWaiting, Runs, At, table, Resolves
  <2>2. CASE Reply(p, "nothing")
    BY <2>1, <2>2, ReplyFrame DEF Answers
  <2>3. ASSUME NEW c, Becomes(p, [request[p] EXCEPT !.step = "cancel", !.candidates = c]),
               UNCHANGED held
        PROVE  Inv'
    <3>1. /\ request'[p].step = "cancel"
          /\ \A o \in Requests : o # p => request'[o] = request[o]
      BY <1>0, <2>3, BecomesEffect DEF Request
    <3> QED
      BY <2>1, <2>3, <3>1, FreeOutside, QuietFrame DEF LockedSteps
  <2> QED
    BY <1>3, <2>2, <2>3 DEF FindWaiting
<1>4. CASE Fail(p)
  <2>1. UNCHANGED <<status, actionType, ranBy>> /\ Resolves(p)
    BY <1>4 DEF Fail, table, Resolves
  <2> QED
    BY <1>4, <2>1, ReplyFrame DEF Fail, Answers
<1> QED
  BY <1>1, <1>2, <1>3, <1>4

\* The steps that resolve rows and end the request, or its expiry sweep.
LEMMA ResolvingStep ==
  ASSUME Inv, TypeOK', NEW p \in Requests,
         \/ FindNothing(p) \/ RefuseUnheard(p) \/ FailTied(p) \/ LoseClaim(p)
         \/ RejectPayload(p) \/ (\E ok \in BOOLEAN : Complete(p, ok))
         \/ ExpireOverdue(p) \/ CancelFound(p)
  PROVE  Inv' /\ Resolves(p)
<1>0. TypeOK /\ request[p] \in Request /\ status \in [Reviews -> Statuses]
  BY RequestFields DEF Inv, TypeOK
<1>1. CASE FindNothing(p)
  <2>1. \A r \in Overdue(p) : Alone(p, r) /\ status[r] = "pending"
    BY <1>1, UnblockedRows DEF FindNothing, Overdue, Waiting
  <2>2. Resolves(p)
    BY <1>1, <2>1 DEF FindNothing, Resolves
  <2> QED
    BY <1>1, <2>2, ReplyFrame DEF FindNothing, Answers
<1>2. CASE RefuseUnheard(p)
  <2>1. \A r \in Overdue(p) : Alone(p, r) /\ status[r] = "pending"
    BY <1>2, UnblockedRows DEF RefuseUnheard, Overdue, Waiting
  <2>2. Resolves(p)
    BY <1>2, <2>1 DEF RefuseUnheard, Resolves
  <2> QED
    BY <1>2, <2>2, ReplyFrame DEF RefuseUnheard, Answers
<1>3. CASE FailTied(p)
  <2>1. \A r \in StillWaiting(p) : Alone(p, r) /\ status[r] = "pending"
    BY <1>3, UnblockedRows DEF FailTied, StillWaiting, Waiting
  <2>2. Resolves(p)
    BY <1>3, <2>1, CommittedRows DEF FailTied, Resolves
  <2> QED
    BY <1>3, <2>2, ReplyFrame DEF FailTied, Answers
<1>4. CASE LoseClaim(p)
  <2>1. Resolves(p)
    BY <1>4, CommittedRows DEF LoseClaim, Resolves
  <2> QED
    BY <1>4, <2>1, ReplyFrame DEF LoseClaim, Answers
<1>5. CASE RejectPayload(p)
  <2>1. status[request[p].target] = "executing" /\ request[p].step = "execute"
    BY <1>5 DEF RejectPayload, Runs, At, Inv, Claimed
  <2>2. Resolves(p)
    BY <1>0, <1>5, <2>1 DEF RejectPayload, ResolveAs, Resolves
  <2> QED
    BY <1>5, <2>2, ReplyFrame DEF RejectPayload, Answers
<1>6. ASSUME NEW ok \in BOOLEAN, Complete(p, ok) PROVE Inv' /\ Resolves(p)
  <2>1. status[request[p].target] = "executing" /\ request[p].step = "resolve"
    BY <1>6 DEF Complete, Runs, At, Inv, Claimed
  <2>2. Resolves(p)
    BY <1>0, <1>6, <2>1 DEF Complete, ResolveAs, Resolves
  <2> QED
    BY <1>6, <2>2, ReplyFrame DEF Complete, Answers
<1>7. CASE ExpireOverdue(p)
  <2>1. \A r \in Overdue(p) : Alone(p, r) /\ status[r] = "pending"
    BY <1>7, UnblockedRows DEF ExpireOverdue, Overdue, Waiting
  <2>2. Resolves(p) /\ request[p].step = "expire"
    BY <1>7, <2>1 DEF ExpireOverdue, Resolves, Runs, At
  <2>3. CASE Reply(p, "read")
    BY <1>7, <2>2, <2>3, ReplyFrame DEF ExpireOverdue, Answers
  <2>4. CASE Goto(p, "find") /\ UNCHANGED held
    <3>1. /\ request'[p].step = "find" /\ Others(p)
      BY <1>0, <2>4, GotoEffect DEF Steps, Others
    <3>2. Free(p)'
      BY <2>2, <2>4, FreeOutside DEF Free
    <3> QED
      BY <1>7, <2>2, <3>1, <3>2, EndFrame DEF ExpireOverdue, LockedSteps
  <2> QED
    BY <1>7, <2>2, <2>3, <2>4 DEF ExpireOverdue
<1>8. CASE CancelFound(p)
  <2>1. \A r \in request[p].candidates : Alone(p, r)
    BY <1>8, UnblockedRows DEF CancelFound
  <2>2. Resolves(p)
    BY <1>8, <2>1 DEF CancelFound, StillCancellable, Resolves
  <2> QED
    BY <1>8, <2>2, ReplyFrame DEF CancelFound, Answers
<1> QED
  BY <1>1, <1>2, <1>3, <1>4, <1>5, <1>6, <1>7, <1>8

\* Taking the lock, and the reads and sweeps of a preparation under it.
LEMMA LockedStep ==
  ASSUME Inv, TypeOK', NEW p \in Requests,
         TakeLock(p) \/ Supersede(p) \/ Scan(p) \/ Withdraw(p) \/ SelectNewest(p)
  PROVE  Inv'
<1>0. TypeOK /\ request[p] \in Request
  BY RequestFields DEF Inv
<1>1. /\ UNCHANGED <<status, actionType, ranBy>>
      /\ \A o \in Requests : o # p => request'[o] = request[o] /\ held'[o] = held[o]
      /\ request'[p].type = request[p].type
      /\ request'[p].step \in LockedSteps
      /\ \/ request[p].step \in LockedSteps
         \/ \A o \in Requests : o # p => ~HoldsLock(o, request[p].type)
      /\ \A r \in Reviews :
            /\ held'[p][r] # "free" => status[r] = "pending" /\ Alone(p, r)
            /\ held[p][r] # "free" => held'[p][r] # "free"
            /\ held'[p][r] # "free" =>
                  request'[p].step \in {"scan", "withdraw", "create", "claim", "tie"}
            /\ /\ request'[p].step \in {"scan", "withdraw", "create"}
               /\ status[r] = "pending" /\ actionType[r] = request[p].type
               => held'[p][r] # "free"
      /\ request'[p].step \in {"claim", "tie"} =>
            /\ request'[p].target \in Reviews
            /\ status[request'[p].target] # "unused"
            /\ actionType[request'[p].target] = request[p].type
  <2>0. \A r \in Reviews : held[p][r] # "free" =>
            /\ status[r] = "pending" /\ Alone(p, r)
            /\ request[p].step \in {"scan", "withdraw", "create", "claim", "tie"}
    BY DEF Inv, RowLocks, Alone
  <2>1. CASE TakeLock(p)
    <3>1. /\ request'[p] = [request[p] EXCEPT
                !.step = IF request[p].op = "prepare" THEN "supersede" ELSE "select",
                !.now = NowUnderLock(p), !.lockedAt = clock]
          /\ \A o \in Requests : o # p => request'[o] = request[o]
      BY <1>0, <2>1, BecomesEffect DEF TakeLock
    <3>2. /\ request'[p].step \in {"supersede", "select"}
          /\ request'[p].type = request[p].type
      BY <1>0, <3>1 DEF Request
    <3>3. \A o \in Requests : o # p => ~HoldsLock(o, request[p].type)
      BY <2>1, UnblockedRows DEF TakeLock
    <3>4. request[p].step = "lock" /\ UNCHANGED <<status, actionType, held, ranBy>>
      BY <2>1 DEF TakeLock, Runs, At, table
    <3> QED
      BY <2>0, <3>1, <3>2, <3>3, <3>4 DEF LockedSteps
  <2>2. CASE Supersede(p)
    <3>1. /\ request'[p].step = "scan" /\ request'[p].type = request[p].type
          /\ \A o \in Requests : o # p => request'[o] = request[o]
      BY <1>0, <2>2, GotoEffect DEF Supersede, Steps, LockedSteps
    <3>2. /\ \A r \in Reviews : held'[p][r] =
                IF r \in Waiting(request[p].type) THEN "cancelled" ELSE held[p][r]
          /\ \A o \in Requests : o # p => held'[o] = held[o]
      BY <1>0, <2>2, SweepEffect DEF Supersede
    <3>3. \A r \in Waiting(request[p].type) : Alone(p, r) /\ status[r] = "pending"
      BY <2>2, UnblockedRows DEF Supersede, Waiting
    <3>4. request[p].step = "supersede" /\ UNCHANGED <<status, actionType, ranBy>>
      BY <2>2 DEF Supersede, Runs, At, table
    <3> QED
      BY <2>0, <3>1, <3>2, <3>3, <3>4 DEF LockedSteps, Waiting
  <2>3. CASE Scan(p)
    <3>1. PICK c : Becomes(p, [request[p] EXCEPT !.step = "withdraw", !.candidates = c])
      BY <2>3 DEF Scan
    <3>2. /\ request'[p] = [request[p] EXCEPT !.step = "withdraw", !.candidates = c]
          /\ \A o \in Requests : o # p => request'[o] = request[o]
      BY <1>0, <3>1, BecomesEffect
    <3>3. request'[p].step = "withdraw" /\ request'[p].type = request[p].type
      BY <1>0, <3>2 DEF Request
    <3>4. request[p].step = "scan" /\ UNCHANGED <<status, actionType, held, ranBy>>
      BY <2>3 DEF Scan, Runs, At, table
    <3> QED
      BY <2>0, <3>2, <3>3, <3>4 DEF LockedSteps, Inv, Swept
  <2>4. CASE Withdraw(p)
    <3>1. /\ request'[p].step = "create" /\ request'[p].type = request[p].type
          /\ \A o \in Requests : o # p => request'[o] = request[o]
      BY <1>0, <2>4, GotoEffect DEF Withdraw, Steps, LockedSteps
    <3>2. /\ \A r \in Reviews : held'[p][r] =
                IF r \in {s \in request[p].candidates : status[s] = "pending"}
                THEN "cancelled" ELSE held[p][r]
          /\ \A o \in Requests : o # p => held'[o] = held[o]
      BY <1>0, <2>4, SweepEffect DEF Withdraw
    <3>3. \A r \in request[p].candidates : Alone(p, r)
      BY <2>4, UnblockedRows DEF Withdraw
    <3>4. request[p].step = "withdraw" /\ UNCHANGED <<status, actionType, ranBy>>
      BY <2>4 DEF Withdraw, Runs, At, table
    <3> QED
      BY <2>0, <3>1, <3>2, <3>3, <3>4 DEF LockedSteps, Inv, Swept
  <2>5. CASE SelectNewest(p)
    <3>1. PICK r \in Newest(p) : Becomes(p, [request[p] EXCEPT
                !.step = IF Newest(p) = {r} THEN "claim" ELSE "tie", !.target = r])
      BY <2>5 DEF SelectNewest
    <3>2. r \in Reviews /\ status[r] = "pending" /\ actionType[r] = request[p].type
      BY <3>1 DEF Newest, Live, StillWaiting, Waiting
    <3>3. /\ request'[p] = [request[p] EXCEPT
                !.step = IF Newest(p) = {r} THEN "claim" ELSE "tie", !.target = r]
          /\ \A o \in Requests : o # p => request'[o] = request[o]
      BY <1>0, <3>1, BecomesEffect
    <3>4. /\ request'[p].step \in {"claim", "tie"} /\ request'[p].type = request[p].type
          /\ request'[p].target = r
      BY <1>0, <3>3 DEF Request
    <3>5. /\ \A s \in Reviews : held'[p][s] = IF s \in Overdue(p) THEN "expired" ELSE held[p][s]
          /\ \A o \in Requests : o # p => held'[o] = held[o]
      BY <1>0, <2>5, SweepEffect DEF SelectNewest
    <3>6. \A s \in Overdue(p) : Alone(p, s) /\ status[s] = "pending"
      BY <2>5, UnblockedRows DEF SelectNewest, Overdue, Waiting
    <3>7. request[p].step = "select" /\ UNCHANGED <<status, actionType, ranBy>>
      BY <2>5 DEF SelectNewest, Runs, At, table
    <3> QED
      BY <2>0, <3>2, <3>3, <3>4, <3>5, <3>6, <3>7 DEF LockedSteps
  <2> QED
    BY <2>1, <2>2, <2>3, <2>4, <2>5
<1>2. LockExclusive'
  BY <1>1 DEF Inv, LockExclusive, HoldsLock
<1>3. RowLocks'
  <2> SUFFICES ASSUME NEW o \in Requests, NEW r \in Reviews, held'[o][r] # "free"
               PROVE  /\ status'[r] = "pending"
                      /\ request'[o].step \in {"scan", "withdraw", "create", "claim", "tie"}
                      /\ \A q \in Requests : held'[q][r] # "free" => q = o
    BY DEF RowLocks
  <2>1. CASE o = p
    BY <1>1, <2>1 DEF Alone
  <2>2. CASE o # p
    <3>1. held[o][r] # "free" /\ request'[o] = request[o]
      BY <1>1, <2>2
    <3>2. held'[p][r] = "free"
      BY <1>1, <2>2, <3>1 DEF Alone
    <3> QED
      BY <1>1, <3>1, <3>2 DEF Inv, RowLocks
  <2> QED
    BY <2>1, <2>2
<1>4. Swept'
  BY <1>1 DEF Inv, Swept
<1>5. Selected'
  BY <1>1 DEF Inv, Selected
<1>6. Claimed'
  BY <1>1 DEF Inv, Claimed, LockedSteps
<1>7. OneWaitingPerQueue' /\ ExecutedAtMostOnce' /\ WithdrawnNeverRuns'
  BY <1>1 DEF Inv, OneWaitingPerQueue, ExecutedAtMostOnce, WithdrawnNeverRuns
<1> QED
  BY <1>2, <1>3, <1>4, <1>5, <1>6, <1>7 DEF Inv

\* A preparation commits: what it swept is cancelled, its row is the only one.
LEMMA CreateStep ==
  ASSUME Inv, TypeOK', NEW p \in Requests, Create(p)
  PROVE  Inv' /\ \E r \in Reviews :
                    /\ status[r] = "unused" /\ status'[r] = "pending"
                    /\ \A s \in Reviews : s # r => status'[s] = Committed(p)[s]
<1>0. TypeOK /\ request[p] \in Request /\ request[p].step = "create"
  BY RequestFields DEF Inv, Create, Runs, At
<1>1. PICK n \in Reviews :
         /\ status[n] = "unused"
         /\ status' = [Committed(p) EXCEPT ![n] = "pending"]
         /\ actionType' = [actionType EXCEPT ![n] = request[p].type]
         /\ Becomes(p, [request[p] EXCEPT !.step = "done", !.answer = "prepared", !.target = n])
  BY DEF Create
<1>2. /\ status'[n] = "pending" /\ actionType'[n] = request[p].type
      /\ \A s \in Reviews : s # n => status'[s] = Committed(p)[s] /\ actionType'[s] = actionType[s]
  BY <1>0, <1>1 DEF Committed, TypeOK
<1>3. /\ request'[p].step = "done"
      /\ \A o \in Requests : o # p => request'[o] = request[o]
  <2>1. /\ request'[p] = [request[p] EXCEPT !.step = "done", !.answer = "prepared", !.target = n]
        /\ \A o \in Requests : o # p => request'[o] = request[o]
    BY <1>0, <1>1, BecomesEffect
  <2> QED
    BY <1>0, <2>1 DEF Request
<1>4. /\ \A r \in Reviews : held'[p][r] = "free"
      /\ \A o \in Requests : o # p => held'[o] = held[o]
      /\ ranBy' = ranBy
  BY <1>0, UnlockedEffect DEF Create, Free
\* Nothing of the queue is left waiting but the new row.
<1>5. \A s \in Reviews : s # n /\ status'[s] = "pending" =>
          status[s] = "pending" /\ actionType[s] # request[p].type
  <2> SUFFICES ASSUME NEW s \in Reviews, s # n, status'[s] = "pending"
               PROVE  status[s] = "pending" /\ actionType[s] # request[p].type
    OBVIOUS
  <2>1. status[s] = "pending" /\ held[p][s] = "free"
    <3>1. held[p][s] \in {"free", "cancelled", "expired"}
      BY <1>0 DEF TypeOK
    <3> QED
      BY <1>2, <3>1 DEF Committed
  <2> QED
    BY <1>0, <2>1 DEF Inv, Swept
<1>6. \A r \in Reviews : status[r] = "executing" => status'[r] = "executing"
  BY <1>1, <1>2, CommittedRows
<1>7. \A r \in Reviews : status[r] # "unused" =>
          status'[r] # "unused" /\ actionType'[r] = actionType[r]
  BY <1>1, <1>2, CommittedRows
<1>8. LockExclusive'
  BY <1>3 DEF Inv, LockExclusive, LockedSteps
<1>9. RowLocks'
  <2> SUFFICES ASSUME NEW o \in Requests, NEW r \in Reviews, held'[o][r] # "free"
               PROVE  /\ status'[r] = "pending"
                      /\ request'[o].step \in {"scan", "withdraw", "create", "claim", "tie"}
                      /\ \A q \in Requests : held'[q][r] # "free" => q = o
    BY DEF RowLocks
  <2>1. o # p /\ held[o][r] # "free" /\ request'[o] = request[o]
    BY <1>3, <1>4
  <2>2. status[r] = "pending" /\ held[p][r] = "free" /\ r # n
    BY <1>1, <2>1 DEF Inv, RowLocks
  <2>3. status'[r] = "pending"
    BY <1>2, <2>2 DEF Committed
  <2> QED
    BY <1>4, <2>1, <2>3 DEF Inv, RowLocks
<1>10. Swept'
  <2> SUFFICES ASSUME NEW o \in Requests, NEW r \in Reviews,
                      request'[o].step \in {"scan", "withdraw", "create"},
                      status'[r] = "pending", actionType'[r] = request'[o].type
               PROVE  held'[o][r] # "free"
    BY DEF Swept
  <2>1. o # p /\ request'[o] = request[o] /\ held'[o] = held[o]
    BY <1>3, <1>4
  <2>2. request[o].type # request[p].type
    BY <1>0, <2>1 DEF Inv, LockExclusive, LockedSteps
  <2>3. r # n
    BY <1>2, <2>1, <2>2
  <2>4. status[r] = "pending" /\ actionType[r] = request[o].type
    BY <1>2, <1>5, <2>1, <2>3
  <2> QED
    BY <2>1, <2>4 DEF Inv, Swept
<1>11. Selected'
  BY <1>3, <1>7 DEF Inv, Selected
<1>12. Claimed'
  BY <1>3, <1>4, <1>6 DEF Inv, Claimed
<1>13. OneWaitingPerQueue'
  BY <1>2, <1>5 DEF Inv, OneWaitingPerQueue
<1>14. ExecutedAtMostOnce'
  BY <1>4 DEF Inv, ExecutedAtMostOnce
<1>15. WithdrawnNeverRuns'
  BY <1>1, <1>2, <1>4, CommittedRows DEF Inv, WithdrawnNeverRuns
<1>16. Inv'
  BY <1>8, <1>9, <1>10, <1>11, <1>12, <1>13, <1>14, <1>15 DEF Inv
<1> QED
  BY <1>1, <1>2, <1>16

\* A claim commits: its row is executing, what is left of the queue resolved.
LEMMA ClaimStep ==
  ASSUME Inv, TypeOK', NEW p \in Requests, Claim(p)
  PROVE  Inv' /\ LET c == request[p].target IN
                    /\ status[c] = "pending" /\ status'[c] = "executing"
                    /\ \A r \in Reviews : r # c =>
                          \/ status'[r] = status[r]
                          \/ status[r] = "pending" /\ status'[r] \in {"cancelled", "expired"}
<1> DEFINE c == request[p].target
<1>0. TypeOK /\ request[p] \in Request /\ request[p].step = "claim" /\ c \in Reviews
  BY RequestFields DEF Inv, Claim, Runs, At, Selected
<1>1. status[c] = "pending" /\ status'[c] = "executing" /\ ranBy' = ranBy /\ actionType' = actionType
  BY <1>0 DEF Claim, Claimable, ClaimedStatus
<1>2. \A r \in Reviews : r # c =>
          \/ status'[r] = status[r]
          \/ status[r] = "pending" /\ Alone(p, r) /\ status'[r] \in {"cancelled", "expired"}
  <2> SUFFICES ASSUME NEW r \in Reviews, r # c
               PROVE  \/ status'[r] = status[r]
                      \/ status[r] = "pending" /\ Alone(p, r) /\ status'[r] \in {"cancelled", "expired"}
    OBVIOUS
  <2>1. r \in StillWaiting(p) => status[r] = "pending" /\ Alone(p, r) /\ status'[r] = "cancelled"
    BY UnblockedRows DEF Claim, StillWaiting, Waiting
  <2>2. r \notin StillWaiting(p) => status'[r] = Committed(p)[r]
    BY DEF Claim
  <2> QED
    BY <2>1, <2>2, CommittedRows
<1>3. Alone(p, c)
  BY <1>0, <1>1, UnblockedRows DEF Claim, Waiting, Inv, Selected
<1>4. /\ request'[p].step = "execute" /\ request'[p].target = c
      /\ \A o \in Requests : o # p => request'[o] = request[o]
  BY <1>0, GotoEffect DEF Claim, Steps
<1>5. /\ \A r \in Reviews : held'[p][r] = "free"
      /\ \A o \in Requests : o # p => held'[o] = held[o]
  BY <1>0, UnlockedEffect DEF Claim, Free
<1>6. LockExclusive'
  BY <1>4 DEF Inv, LockExclusive, LockedSteps
<1>7. RowLocks'
  <2> SUFFICES ASSUME NEW o \in Requests, NEW r \in Reviews, held'[o][r] # "free"
               PROVE  /\ status'[r] = "pending"
                      /\ request'[o].step \in {"scan", "withdraw", "create", "claim", "tie"}
                      /\ \A q \in Requests : held'[q][r] # "free" => q = o
    BY DEF RowLocks
  <2>1. o # p /\ held[o][r] # "free" /\ request'[o] = request[o]
    BY <1>4, <1>5
  <2>2. status'[r] = "pending"
    BY <1>2, <1>3, <2>1 DEF Alone, Inv, RowLocks
  <2> QED
    BY <1>5, <2>1, <2>2 DEF Inv, RowLocks
<1>8. Swept'
  <2> SUFFICES ASSUME NEW o \in Requests, NEW r \in Reviews,
                      request'[o].step \in {"scan", "withdraw", "create"},
                      status'[r] = "pending", actionType'[r] = request'[o].type
               PROVE  held'[o][r] # "free"
    BY DEF Swept
  <2>1. o # p /\ request'[o] = request[o] /\ held'[o] = held[o]
    BY <1>4, <1>5
  <2>2. status[r] = "pending" /\ actionType[r] = request[o].type
    BY <1>1, <1>2, <2>1
  <2> QED
    BY <2>1, <2>2 DEF Inv, Swept
<1>9. Selected'
  <2>1. \A r \in Reviews : status[r] # "unused" => status'[r] # "unused"
    BY <1>1, <1>2
  <2> QED
    BY <1>1, <1>4, <2>1 DEF Inv, Selected
<1>10. Claimed'
  <2> SUFFICES ASSUME NEW o \in Requests, request'[o].step \in {"execute", "resolve"}
               PROVE  /\ request'[o].target \in Reviews
                      /\ status'[request'[o].target] = "executing"
                      /\ \A q \in Requests :
                            request'[q].step \in {"execute", "resolve"}
                            /\ request'[q].target = request'[o].target => q = o
                      /\ request'[o].step = "execute" => ranBy'[request'[o].target] = {}
    BY DEF Claimed
  \* Nobody else was working on the row: it was still waiting.
  <2>1. \A q \in Requests : q # p /\ request[q].step \in {"execute", "resolve"} =>
            /\ request[q].target \in Reviews /\ request[q].target # c
            /\ status[request[q].target] = "executing"
            /\ status'[request[q].target] = "executing"
    BY <1>1, <1>2 DEF Inv, Claimed
  <2>2. ranBy[c] = {}
    BY <1>0, <1>1 DEF Inv, WithdrawnNeverRuns
  <2>3. CASE o = p
    BY <1>0, <1>1, <1>4, <2>1, <2>2, <2>3
  <2>4. CASE o # p
    BY <1>1, <1>4, <2>1, <2>4 DEF Inv, Claimed
  <2> QED
    BY <2>3, <2>4
<1>11. OneWaitingPerQueue'
  BY <1>1, <1>2 DEF Inv, OneWaitingPerQueue
<1>12. ExecutedAtMostOnce'
  BY <1>1 DEF Inv, ExecutedAtMostOnce
<1>13. WithdrawnNeverRuns'
  BY <1>1, <1>2 DEF Inv, WithdrawnNeverRuns
<1>14. Inv'
  BY <1>6, <1>7, <1>8, <1>9, <1>10, <1>11, <1>12, <1>13 DEF Inv
<1> QED
  BY <1>1, <1>2, <1>14

\* The handler runs: for the first time, and for the one that holds the claim.
LEMMA ExecuteStep ==
  ASSUME Inv, TypeOK', NEW p \in Requests, Execute(p)
  PROVE  Inv'
<1> DEFINE c == request[p].target
<1>0. TypeOK /\ request[p].step = "execute"
  BY DEF Inv, Execute, Runs, At
<1>1. /\ c \in Reviews /\ status[c] = "executing" /\ ranBy[c] = {}
      /\ \A q \in Requests : request[q].step \in {"execute", "resolve"}
                             /\ request[q].target = c => q = p
  BY <1>0 DEF Inv, Claimed
<1>2. /\ request'[p].step = "resolve"
      /\ request'[p].type = request[p].type /\ request'[p].target = c
      /\ \A o \in Requests : o # p => request'[o] = request[o]
  BY <1>0, GotoEffect DEF Execute, Steps
<1>3. UNCHANGED <<status, actionType, held>>
  BY DEF Execute, table
<1>4. ranBy'[c] = {p} /\ \A r \in Reviews : r # c => ranBy'[r] = ranBy[r]
  BY <1>0, <1>1 DEF Execute, TypeOK
<1>5. LockExclusive'
  BY <1>2 DEF Inv, LockExclusive, LockedSteps
<1>6. RowLocks'
  BY <1>0, <1>2, <1>3 DEF Inv, RowLocks
<1>7. Swept' /\ Selected'
  BY <1>2, <1>3 DEF Inv, Swept, Selected
<1>8. Claimed'
  <2> SUFFICES ASSUME NEW o \in Requests, request'[o].step \in {"execute", "resolve"}
               PROVE  /\ request'[o].target \in Reviews
                      /\ status'[request'[o].target] = "executing"
                      /\ \A q \in Requests :
                            request'[q].step \in {"execute", "resolve"}
                            /\ request'[q].target = request'[o].target => q = o
                      /\ request'[o].step = "execute" => ranBy'[request'[o].target] = {}
    BY DEF Claimed
  <2>1. CASE o = p
    BY <1>0, <1>1, <1>2, <1>3, <2>1
  <2>2. CASE o # p
    <3>1. request[o].step \in {"execute", "resolve"} /\ request[o].target # c
      BY <1>1, <1>2, <2>2
    <3> QED
      BY <1>0, <1>2, <1>3, <1>4, <2>2, <3>1 DEF Inv, Claimed
  <2> QED
    BY <2>1, <2>2
<1>9. OneWaitingPerQueue'
  BY <1>3 DEF Inv, OneWaitingPerQueue
<1>10. ExecutedAtMostOnce' /\ WithdrawnNeverRuns'
  BY <1>1, <1>3, <1>4 DEF Inv, ExecutedAtMostOnce, WithdrawnNeverRuns
<1> QED
  BY <1>5, <1>6, <1>7, <1>8, <1>9, <1>10 DEF Inv

LEMMA InvInit == Init => Inv
<1> SUFFICES ASSUME Init PROVE Inv
  OBVIOUS
<1>1. TypeOK
  BY TypeInit
<1>2. \A p \in Requests : request[p].step = "idle"
  BY DEF Init, Idle
<1>3. \A p \in Requests, r \in Reviews : held[p][r] = "free"
  BY DEF Init
<1>4. \A r \in Reviews : ranBy[r] = {} /\ (status[r] = "pending" => r \in Legacy)
  BY DEF Init
<1>5. LockExclusive /\ RowLocks /\ Swept /\ Selected /\ Claimed
  BY <1>2, <1>3 DEF LockExclusive, RowLocks, Swept, Selected, Claimed, LockedSteps
<1>6. OneWaitingPerQueue /\ ExecutedAtMostOnce /\ WithdrawnNeverRuns
  BY <1>4 DEF OneWaitingPerQueue, ExecutedAtMostOnce, WithdrawnNeverRuns
<1> QED
  BY <1>1, <1>5, <1>6 DEF Inv

LEMMA InvStep ==
  ASSUME Inv, [Next]_vars
  PROVE  Inv' /\ \A r \in Reviews : RowMoves(r)
<1>0. TypeOK'
  BY TypeStep DEF Inv
<1>1. ASSUME NEW p \in Requests, Arrival(p) PROVE Inv' /\ \A r \in Reviews : RowMoves(r)
  <2>1. status' = status
    BY <1>1 DEF Arrival, ArrivePrepare, ArriveCancel, ArriveRead, Arrive, ArriveClaim,
               ArriveCancelById, table
  <2> QED
    BY <1>0, <1>1, <2>1, ArrivalStep DEF RowMoves
<1>2. ASSUME NEW p \in Requests,
             TakeLock(p) \/ Supersede(p) \/ Scan(p) \/ Withdraw(p) \/ SelectNewest(p)
      PROVE  Inv' /\ \A r \in Reviews : RowMoves(r)
  <2>1. status' = status
    BY <1>2 DEF TakeLock, Supersede, Scan, Withdraw, SelectNewest, table
  <2> QED
    BY <1>0, <1>2, <2>1, LockedStep DEF RowMoves
<1>3. ASSUME NEW p \in Requests,
             CheckSafeMode(p) \/ SeeWaiting(p) \/ FindWaiting(p) \/ Fail(p)
      PROVE  Inv' /\ \A r \in Reviews : RowMoves(r)
  <2>1. status' = status
    BY <1>3 DEF CheckSafeMode, SeeWaiting, FindWaiting, Fail, table
  <2> QED
    BY <1>0, <1>3, <2>1, OutsideStep DEF RowMoves
<1>4. ASSUME NEW p \in Requests,
             \/ FindNothing(p) \/ RefuseUnheard(p) \/ FailTied(p) \/ LoseClaim(p)
             \/ RejectPayload(p) \/ (\E ok \in BOOLEAN : Complete(p, ok))
             \/ ExpireOverdue(p) \/ CancelFound(p)
      PROVE  Inv' /\ \A r \in Reviews : RowMoves(r)
  BY <1>0, <1>4, ResolvingStep DEF RowMoves, Resolves
<1>5. ASSUME NEW p \in Requests, Create(p) PROVE Inv' /\ \A r \in Reviews : RowMoves(r)
  BY <1>0, <1>5, CreateStep, CommittedRows DEF RowMoves
<1>6. ASSUME NEW p \in Requests, Claim(p) PROVE Inv' /\ \A r \in Reviews : RowMoves(r)
  BY <1>0, <1>6, ClaimStep DEF RowMoves
<1>7. ASSUME NEW p \in Requests, Execute(p) PROVE Inv' /\ \A r \in Reviews : RowMoves(r)
  <2>1. status' = status
    BY <1>7 DEF Execute, table
  <2> QED
    BY <1>0, <1>7, <2>1, ExecuteStep DEF RowMoves
<1>8. ASSUME UNCHANGED <<table, request, held, ranBy>>
      PROVE  Inv' /\ \A r \in Reviews : RowMoves(r)
  <2>1. LockExclusive' /\ RowLocks' /\ Swept' /\ Selected' /\ Claimed'
    BY <1>8 DEF Inv, LockExclusive, RowLocks, Swept, Selected, Claimed, table
  <2>2. OneWaitingPerQueue' /\ ExecutedAtMostOnce' /\ WithdrawnNeverRuns'
    BY <1>8 DEF Inv, OneWaitingPerQueue, ExecutedAtMostOnce, WithdrawnNeverRuns, table
  <2> QED
    BY <1>0, <1>8, <2>1, <2>2 DEF Inv, RowMoves, table
<1>9. Tick \/ SwitchSafeMode \/ UNCHANGED vars => UNCHANGED <<table, request, held, ranBy>>
  BY DEF Tick, SwitchSafeMode, vars, table
<1> QED
  BY <1>1, <1>2, <1>3, <1>4, <1>5, <1>6, <1>7, <1>8, <1>9 DEF Next, Step

LEMMA InvAlways == Spec => []Inv
<1>1. Inv /\ [Next]_vars => Inv'
  BY InvStep
<1> QED
  BY <1>1, InvInit, PTL DEF Spec

\* However preparations overlap, at most one review of a queue waits.
THEOREM OneThingAYesCanMean == Spec => []OneWaitingPerQueue
<1>1. Inv => OneWaitingPerQueue
  BY DEF Inv
<1> QED
  BY <1>1, InvAlways, PTL

\* However confirmations race, a review runs at most once.
THEOREM OneExecution == Spec => []ExecutedAtMostOnce
<1>1. Inv => ExecutedAtMostOnce
  BY DEF Inv
<1> QED
  BY <1>1, InvAlways, PTL

\* What was replaced, withdrawn, cancelled or expired never runs.
THEOREM WithdrawnStaysUnrun == Spec => []WithdrawnNeverRuns
<1>1. Inv => WithdrawnNeverRuns
  BY DEF Inv
<1> QED
  BY <1>1, InvAlways, PTL

\* A review moves along its life line only, and stays resolved.
THEOREM RowsFollowLifeLine == Spec => LifeLine
<1>1. Inv /\ [Next]_vars => [\A r \in Reviews : RowMoves(r)]_vars
  BY InvStep
<1> QED
  BY <1>1, InvAlways, PTL DEF Spec, LifeLine
-----------------------------------------------------------------------------
(* What a request may rely on: the invariant behind what its user is told. *)

\* The step a request is at belongs to what it does, and it has not answered yet.
InItsCourse(p) ==
    /\ At(p, "idle") => request[p].op = "none"
    /\ request[p].step \in {"supersede", "scan", "withdraw", "create"} => request[p].op = "prepare"
    /\ request[p].step \in {"check", "see", "select", "claim", "tie", "execute", "resolve"}
         => request[p].op = "claim"
    /\ request[p].step \in {"find", "cancel"} => request[p].op = "cancel"
    /\ At(p, "lock") => request[p].op \in {"prepare", "claim"}
    /\ At(p, "expire") => request[p].op \in {"cancel", "read"}
    /\ ~At(p, "done") => request[p].answer = "none"

\* A claim reads the clock under the lock, and goes by what it read.
InTime(p) ==
    /\ request[p].now <= clock
    /\ request[p].step \in {"select", "claim", "tie"} => request[p].now = request[p].lockedAt
    /\ At(p, "claim") => expiresAt[request[p].target] > request[p].now
    /\ At(p, "execute") => expiresAt[request[p].target] > request[p].lockedAt

\* What a claim saw before the lock was a row of its queue.
SeenInQueue(p) ==
    request[p].op = "claim" /\ request[p].step \in {"lock", "select"} /\ request[p].target # NoReview
    => status[request[p].target] # "unused" /\ actionType[request[p].target] = request[p].type

\* A claim is about the newest row that waits, and locks rows of its queue only.
NewestChosen(p) ==
    /\ At(p, "claim") =>
         \A s \in Waiting(request[p].type) :
            s # request[p].target => createdAt[s] < createdAt[request[p].target]
    /\ request[p].step \in {"claim", "tie"} =>
         \A r \in Reviews : held[p][r] # "free" => actionType[r] = request[p].type

RunByItself(p) == At(p, "resolve") => ranBy[request[p].target] = {p}

\* Has not run, and unless it still waits never will.
Unrun(r) == ranBy[r] = {} /\ status[r] \in {"pending", "cancelled", "expired", "failed"}

\* As long as one of the rows a cancel found waits, none of them has been claimed.
NoneClaimed(p) ==
    At(p, "cancel") =>
        /\ \A r \in request[p].candidates : status[r] # "unused" /\ actionType[r] = request[p].type
        /\ (\E r \in request[p].candidates : status[r] = "pending")
             => \A r \in request[p].candidates : Unrun(r)

CancelTold(p) ==
    request[p].answer = "cancelled" =>
        \A r \in request[p].candidates :
            ranBy[r] = {} /\ status[r] \in {"cancelled", "expired", "failed"}

YesTold(p) ==
    LET r == request[p].target IN
    request[p].op = "claim" =>
        /\ At(p, "done") /\ request[p].answer = "none" => r = NoReview \/ status[r] = "expired"
        /\ request[p].answer = "raced" => r \in Reviews /\ status[r] \notin {"unused", "pending"}
        /\ request[p].answer = "executed" => r \in Reviews /\ status[r] = "completed" /\ ranBy[r] = {p}

\* What waits in a queue a preparation withdraws, from before it arrived.
Earlier(p) ==
    {r \in Reviews : /\ status[r] = "pending" /\ createdAt[r] < request[p].now
                     /\ actionType[r] \in OtherQueues(request[p].type)}

\* A preparation finds all of that, locks it, and once it is done none is left.
EarlierWithdrawn(p) ==
    /\ At(p, "withdraw") => Earlier(p) \subseteq request[p].candidates
    /\ At(p, "create") => \A r \in Earlier(p) : held[p][r] # "free"
    /\ request[p].answer = "prepared" =>
         /\ Earlier(p) = {}
         /\ request[p].target \in Reviews /\ status[request[p].target] # "unused"
         /\ actionType[request[p].target] = request[p].type

Reliable(p) ==
    /\ InItsCourse(p) /\ InTime(p) /\ SeenInQueue(p) /\ NewestChosen(p) /\ RunByItself(p)
    /\ NoneClaimed(p) /\ CancelTold(p) /\ YesTold(p) /\ EarlierWithdrawn(p)

\* Rows from before the lock live as long as rows of today.
LegacyRows ==
    \A r \in Legacy : status[r] # "unused" /\ expiresAt[r] = createdAt[r] + Lifetime

AllReliable == LegacyRows /\ \A p \in Requests : Reliable(p)

-----------------------------------------------------------------------------
(* A step of one request keeps what the others rely on. *)

Acts(p) == Arrival(p) \/ Step(p) \/ Fail(p)

\* What a step of p can do to the table.
RowChange(p) ==
    /\ \A r \in Reviews : RowMoves(r)
    /\ \A r \in Reviews : status[r] # "unused" =>
         actionType'[r] = actionType[r] /\ createdAt'[r] = createdAt[r] /\ expiresAt'[r] = expiresAt[r]
    /\ \A r \in Reviews : status[r] = "unused" /\ status'[r] # "unused" =>
         At(p, "create") /\ actionType'[r] = request[p].type /\ createdAt'[r] = clock
    /\ \A r, s \in Reviews :
         status'[r] = "executing" /\ status[r] # "executing" /\ status'[s] = "pending"
         => actionType[s] # actionType[r]
    /\ \A r \in Reviews : ranBy'[r] = ranBy[r] \/ (At(p, "execute") /\ r = request[p].target)
    /\ clock' = clock

LEMMA StepRows ==
  ASSUME Inv, NEW p \in Requests, Acts(p)
  PROVE  RowChange(p)
<1>0. TypeOK /\ TypeOK' /\ Inv' /\ \A r \in Reviews : RowMoves(r)
  BY InvStep, TypeStep DEF Inv, Next, Acts
<1>1. CASE Create(p)
  <2>1. PICK n \in Reviews :
          /\ status[n] = "unused"
          /\ status' = [Committed(p) EXCEPT ![n] = "pending"]
          /\ actionType' = [actionType EXCEPT ![n] = request[p].type]
          /\ createdAt' = [createdAt EXCEPT ![n] = clock]
          /\ expiresAt' = [expiresAt EXCEPT ![n] = request[p].now + Lifetime]
    BY <1>1 DEF Create
  <2>2. /\ actionType'[n] = request[p].type /\ createdAt'[n] = clock /\ status'[n] = "pending"
        /\ \A r \in Reviews : r # n =>
             /\ actionType'[r] = actionType[r] /\ createdAt'[r] = createdAt[r]
             /\ expiresAt'[r] = expiresAt[r] /\ status'[r] = Committed(p)[r]
    BY <1>0, <2>1 DEF TypeOK, Committed
  <2>3. \A r \in Reviews : status'[r] = "executing" => status[r] = "executing"
    BY <2>2, CommittedRows
  <2>4. \A r \in Reviews : r # n /\ status[r] = "unused" => status'[r] = "unused"
    BY <2>2, CommittedRows
  <2>5. At(p, "create") /\ clock' = clock /\ ranBy' = ranBy
    BY <1>1 DEF Create, Runs
  <2> QED
    BY <1>0, <2>1, <2>2, <2>3, <2>4, <2>5 DEF RowChange
<1>2. CASE Claim(p)
  <2> DEFINE c == request[p].target
  <2>1. /\ status[c] = "pending" /\ status'[c] = "executing"
        /\ \A r \in Reviews : r # c =>
             \/ status'[r] = status[r]
             \/ status[r] = "pending" /\ status'[r] \in {"cancelled", "expired"}
    BY <1>0, <1>2, ClaimStep
  <2>2. UNCHANGED <<clock, actionType, createdAt, expiresAt, ranBy>>
    BY <1>2 DEF Claim
  <2>3. c \in Reviews /\ actionType[c] = request[p].type
    BY <1>2 DEF Claim, Runs, At, Inv, Selected
  <2>4. ASSUME NEW s \in Reviews, status'[s] = "pending", actionType[s] = request[p].type PROVE FALSE
    <3>1. s # c /\ status[s] = "pending"
      BY <2>1, <2>4
    <3>2. status'[s] = IF s \in StillWaiting(p) THEN "cancelled" ELSE Committed(p)[s]
      BY <1>2, <3>1 DEF Claim
    <3>3. held[p][s] \in {"free", "cancelled", "expired"}
      BY <1>0 DEF TypeOK
    <3> QED
      BY <2>4, <3>1, <3>2, <3>3 DEF StillWaiting, Waiting, Committed
  <2> QED
    BY <1>0, <2>1, <2>2, <2>3, <2>4 DEF RowChange
<1>3. CASE Execute(p)
  <2>1. \A r \in Reviews : ranBy'[r] = ranBy[r] \/ r = request[p].target
    BY <1>0, <1>3 DEF Execute, TypeOK
  <2>2. At(p, "execute") /\ UNCHANGED <<clock, table>>
    BY <1>3 DEF Execute, Runs
  <2> QED
    BY <1>0, <2>1, <2>2 DEF RowChange, table
<1>4. CASE \/ FindNothing(p) \/ RefuseUnheard(p) \/ FailTied(p) \/ LoseClaim(p)
           \/ RejectPayload(p) \/ (\E ok \in BOOLEAN : Complete(p, ok))
           \/ ExpireOverdue(p) \/ CancelFound(p)
  <2>1. Resolves(p)
    BY <1>0, <1>4, ResolvingStep
  <2>2. UNCHANGED <<clock, actionType, createdAt, expiresAt, ranBy>>
    BY <1>4 DEF FindNothing, RefuseUnheard, FailTied, LoseClaim, RejectPayload, Complete,
               ExpireOverdue, CancelFound
  <2> QED
    BY <1>0, <2>1, <2>2 DEF RowChange, Resolves
<1>5. CASE \/ Arrival(p) \/ TakeLock(p) \/ Supersede(p) \/ Scan(p) \/ Withdraw(p)
           \/ CheckSafeMode(p) \/ SeeWaiting(p) \/ SelectNewest(p) \/ FindWaiting(p) \/ Fail(p)
  <2>1. UNCHANGED <<clock, table, ranBy>>
    BY <1>5 DEF Arrival, ArrivePrepare, ArriveCancel, ArriveRead, Arrive, ArriveClaim, ArriveCancelById,
               TakeLock, Supersede, Scan, Withdraw, CheckSafeMode, SeeWaiting, SelectNewest,
               FindWaiting, Fail, table
  <2> QED
    BY <1>0, <2>1 DEF RowChange, table
<1> QED
  BY <1>1, <1>2, <1>3, <1>4, <1>5 DEF Acts, Step

LEMMA OthersRely ==
  ASSUME Inv, NEW p \in Requests, RowChange(p), NEW o \in Requests, o # p, Reliable(o),
         request'[o] = request[o], held'[o] = held[o]
  PROVE  Reliable(o)'
<1>0. TypeOK /\ request[o] \in Request /\ clock \in Nat /\ clock' = clock
  BY RequestFields DEF Inv, TypeOK, RowChange
<1>1. InItsCourse(o)'
  BY DEF Reliable, InItsCourse, At
<1>2. InTime(o)'
  <2>1. request[o].step \in {"claim", "execute"} =>
          request[o].target \in Reviews /\ status[request[o].target] # "unused"
    BY DEF Inv, Selected, Claimed
  <2> QED
    BY <1>0, <2>1 DEF Reliable, InTime, At, RowChange
<1>3. SeenInQueue(o)'
  <2>1. request[o].target \in Reviews \cup {NoReview}
    BY <1>0, RequestFields
  <2> QED
    BY <2>1 DEF Reliable, SeenInQueue, RowChange, RowMoves
<1>4. NewestChosen(o)'
  <2>1. ASSUME At(o, "claim"), NEW s \in Waiting(request[o].type)', s # request[o].target
        PROVE  createdAt'[s] < createdAt'[request[o].target]
    <3>1. s \in Reviews /\ status'[s] = "pending" /\ actionType'[s] = request[o].type
      BY <2>1 DEF Waiting
    <3>2. status[s] # "unused"
      <4>1. At(p, "create") => request[p].type # request[o].type
        BY <2>1 DEF Inv, LockExclusive, LockedSteps, At
      <4> QED
        BY <3>1, <4>1 DEF RowChange
    <3>3. status[s] = "pending" /\ actionType[s] = request[o].type /\ createdAt'[s] = createdAt[s]
      BY <3>1, <3>2 DEF RowChange, RowMoves
    <3>4. createdAt[s] < createdAt[request[o].target]
      BY <2>1, <3>1, <3>3 DEF Reliable, NewestChosen, Waiting
    <3>5. request[o].target \in Reviews /\ status[request[o].target] # "unused"
      BY <2>1 DEF Inv, Selected, At
    <3> QED
      BY <3>3, <3>4, <3>5 DEF RowChange
  <2>2. ASSUME request[o].step \in {"claim", "tie"}, NEW r \in Reviews, held[o][r] # "free"
        PROVE  actionType'[r] = request[o].type
    <3>1. status[r] = "pending" /\ actionType[r] = request[o].type
      BY <2>2 DEF Inv, RowLocks, Reliable, NewestChosen
    <3> QED
      BY <3>1 DEF RowChange
  <2> QED
    BY <2>1, <2>2 DEF NewestChosen, At
\* Nobody but the holder of a claim runs it, and only what is being executed is run.
<1>5. \A r \in Reviews : status[r] # "executing" => ranBy'[r] = ranBy[r]
  BY DEF RowChange, Inv, Claimed, At
<1>6. RunByItself(o)'
  BY DEF Reliable, RunByItself, RowChange, Inv, Claimed, At
<1>7. NoneClaimed(o)'
  <2> SUFFICES ASSUME At(o, "cancel")
               PROVE  /\ \A r \in request[o].candidates : status'[r] # "unused" /\ actionType'[r] = request[o].type
                      /\ (\E r \in request[o].candidates : status'[r] = "pending")
                           => \A r \in request[o].candidates : Unrun(r)'
    BY DEF NoneClaimed, At
  <2>1. request[o].candidates \subseteq Reviews
    BY <1>0, RequestFields
  <2>2. \A r \in request[o].candidates : status[r] # "unused" /\ actionType[r] = request[o].type
    BY DEF Reliable, NoneClaimed
  <2>3. \A r \in request[o].candidates : status'[r] # "unused" /\ actionType'[r] = request[o].type
    BY <2>1, <2>2 DEF RowChange, RowMoves
  <2>4. ASSUME NEW r \in request[o].candidates, status'[r] = "pending",
               NEW s \in request[o].candidates
        PROVE  Unrun(s)'
    <3>1. status[r] = "pending"
      BY <2>1, <2>2, <2>4 DEF RowChange, RowMoves
    <3>2. Unrun(s)
      BY <3>1 DEF Reliable, NoneClaimed
    <3>3. status'[s] # "executing"
      <4>1. status[s] # "executing" /\ actionType[r] = actionType[s]
        BY <2>2, <3>2 DEF Unrun
      <4> QED
        BY <2>1, <2>4, <4>1 DEF RowChange
    <3> QED
      BY <1>5, <2>1, <3>2, <3>3 DEF Unrun, RowChange, RowMoves
  <2> QED
    BY <2>3, <2>4
<1>8. CancelTold(o)'
  <2>1. request[o].candidates \subseteq Reviews
    BY <1>0, RequestFields
  <2> QED
    BY <1>5, <2>1 DEF Reliable, CancelTold, RowChange, RowMoves
<1>9. YesTold(o)'
  <2>1. request[o].target \in Reviews \cup {NoReview}
    BY <1>0, RequestFields
  <2> QED
    BY <1>5, <2>1 DEF Reliable, YesTold, RowChange, RowMoves, At
<1>10. EarlierWithdrawn(o)'
  <2>1. Earlier(o)' \subseteq Earlier(o)
    <3> SUFFICES ASSUME NEW r \in Reviews, status'[r] = "pending", createdAt'[r] < request[o].now,
                        actionType'[r] \in OtherQueues(request[o].type)
                 PROVE  r \in Earlier(o)
      BY DEF Earlier
    <3>1. request[o].now <= clock /\ request[o].now \in Nat
      BY <1>0 DEF Reliable, InTime, Request
    <3>2. status[r] # "unused"
      BY <1>0, <3>1 DEF RowChange
    <3> QED
      BY <3>2 DEF Earlier, RowChange, RowMoves
  <2>2. request[o].answer = "prepared" =>
          /\ request[o].target \in Reviews /\ status'[request[o].target] # "unused"
          /\ actionType'[request[o].target] = request[o].type
    BY DEF Reliable, EarlierWithdrawn, RowChange, RowMoves
  <2> QED
    BY <2>1, <2>2 DEF Reliable, EarlierWithdrawn, At
<1> QED
  BY <1>1, <1>2, <1>3, <1>4, <1>6, <1>7, <1>8, <1>9, <1>10 DEF Reliable

\* What a request keeps to itself as it goes on and as it answers.
SameButStep(p) ==
    /\ request'[p].op = request[p].op /\ request'[p].type = request[p].type
    /\ request'[p].target = request[p].target /\ request'[p].candidates = request[p].candidates
    /\ request'[p].now = request[p].now /\ request'[p].lockedAt = request[p].lockedAt

LEMMA GotoFields ==
  ASSUME TypeOK, NEW p \in Requests, NEW s \in Steps, Goto(p, s)
  PROVE  SameButStep(p) /\ request'[p].step = s /\ request'[p].answer = request[p].answer
<1>1. request'[p] = [request[p] EXCEPT !.step = s]
  BY BecomesEffect DEF Goto
<1> QED
  BY <1>1, RequestFields DEF Request, SameButStep

LEMMA ReplyFields ==
  ASSUME TypeOK, NEW p \in Requests, NEW a \in Answers, Reply(p, a)
  PROVE  SameButStep(p) /\ request'[p].step = "done" /\ request'[p].answer = a
<1>1. request'[p] = [request[p] EXCEPT !.step = "done", !.answer = a]
  BY BecomesEffect DEF Reply
<1> QED
  BY <1>1, RequestFields DEF Request, SameButStep

\* An answer that promises nothing.
LEMMA PlainReply ==
  ASSUME TypeOK, NEW p \in Requests, Reliable(p), clock' = clock,
         NEW a \in Answers \ {"none", "prepared", "cancelled", "raced", "executed"}, Reply(p, a)
  PROVE  Reliable(p)'
<1>1. SameButStep(p) /\ request'[p].step = "done" /\ request'[p].answer = a
  BY ReplyFields
<1> QED
  BY <1>1 DEF Reliable, SameButStep, InItsCourse, InTime, SeenInQueue, NewestChosen, RunByItself,
              NoneClaimed, CancelTold, YesTold, EarlierWithdrawn, At

LEMMA ReliableArrival ==
  ASSUME Inv, NEW p \in Requests, Arrival(p)
  PROVE  Reliable(p)'
<1>0. TypeOK /\ Idle \in Request /\ clock \in Nat
  BY IdleType DEF Inv, TypeOK
<1>1. ASSUME NEW t \in Types, ArrivePrepare(p, t) \/ ArriveCancel(p, t) \/ ArriveRead(p, t)
      PROVE  Reliable(p)'
  <2>1. PICK op \in {"prepare", "cancel", "read"}, s \in {"lock", "expire"} :
          /\ \/ op = "prepare" /\ s = "lock"
             \/ op \in {"cancel", "read"} /\ s = "expire"
          /\ Arrive(p, op, t, s)
    BY <1>1 DEF ArrivePrepare, ArriveCancel, ArriveRead
  <2>2. request'[p] = [Idle EXCEPT !.op = op, !.type = t, !.step = s, !.now = clock]
    BY <1>0, <2>1, BecomesEffect DEF Arrive
  <2>3. /\ request'[p].op = op /\ request'[p].step = s /\ request'[p].now = clock
        /\ request'[p].answer = "none" /\ clock' = clock
    BY <1>0, <2>1, <2>2 DEF Idle, Arrive
  <2> QED
    BY <1>0, <2>1, <2>3 DEF Reliable, InItsCourse, InTime, SeenInQueue, NewestChosen, RunByItself,
              NoneClaimed, CancelTold, YesTold, EarlierWithdrawn, At
<1>2. ASSUME NEW t \in Types, NEW h \in Reviews \cup {NoReview, AnyReview}, ArriveClaim(p, t, h)
      PROVE  Reliable(p)'
  <2>1. request'[p] = [Idle EXCEPT !.op = "claim", !.type = t, !.step = "check",
                                   !.now = clock, !.heard = h]
    BY <1>0, <1>2, BecomesEffect DEF ArriveClaim
  <2>2. /\ request'[p].op = "claim" /\ request'[p].step = "check" /\ request'[p].now = clock
        /\ request'[p].answer = "none" /\ clock' = clock
    BY <1>0, <1>2, <2>1 DEF Idle, ArriveClaim
  <2> QED
    BY <1>0, <2>2 DEF Reliable, InItsCourse, InTime, SeenInQueue, NewestChosen, RunByItself,
              NoneClaimed, CancelTold, YesTold, EarlierWithdrawn, At
<1>3. ASSUME NEW r \in Reviews, ArriveCancelById(p, r)
      PROVE  Reliable(p)'
  <2>1. request'[p] = [Idle EXCEPT !.op = "cancel", !.type = actionType[r], !.step = "cancel",
                                   !.now = clock, !.candidates = {r}]
    BY <1>0, <1>3, BecomesEffect DEF ArriveCancelById
  <2>2. /\ request'[p].op = "cancel" /\ request'[p].step = "cancel" /\ request'[p].now = clock
        /\ request'[p].answer = "none" /\ request'[p].candidates = {r}
        /\ request'[p].type = actionType[r] /\ clock' = clock
        /\ UNCHANGED <<status, actionType, ranBy>>
    BY <1>0, <1>3, <2>1 DEF Idle, ArriveCancelById, table
  <2>3. status[r] # "unused"
    BY <1>3 DEF ArriveCancelById
  <2>4. NoneClaimed(p)'
    BY <2>2, <2>3 DEF NoneClaimed, Unrun, Inv, WithdrawnNeverRuns
  <2> QED
    BY <1>0, <2>2, <2>4 DEF Reliable, InItsCourse, InTime, SeenInQueue, NewestChosen, RunByItself,
              CancelTold, YesTold, EarlierWithdrawn, At
<1> QED
  BY <1>1, <1>2, <1>3 DEF Arrival

LEMMA ReliablePreparing ==
  ASSUME Inv, NEW p \in Requests, Reliable(p),
         TakeLock(p) \/ Supersede(p) \/ Scan(p) \/ Withdraw(p) \/ Create(p)
  PROVE  Reliable(p)'
<1>0. /\ TypeOK /\ TypeOK' /\ request[p] \in Request /\ clock \in Nat
      /\ request[p].now \in Nat /\ request[p].now <= clock
  <2>1. TypeOK'
    BY TypeStep DEF Inv, Next, Step
  <2> QED
    BY <2>1, RequestFields DEF Inv, TypeOK, Reliable, InTime
<1> USE DEF At
<1>1. CASE TakeLock(p)
  <2>1. PICK s : /\ request[p].op = "prepare" => s = "supersede"
                 /\ request[p].op # "prepare" => s = "select"
                 /\ Becomes(p, [request[p] EXCEPT !.step = s, !.now = NowUnderLock(p), !.lockedAt = clock])
    BY <1>1 DEF TakeLock
  <2>2. /\ request[p].step = "lock" /\ UNCHANGED <<clock, status, actionType>>
    BY <1>1 DEF TakeLock, Runs, table
  <2>3. request'[p] = [request[p] EXCEPT !.step = s, !.now = NowUnderLock(p), !.lockedAt = clock]
    BY <1>0, <2>1, BecomesEffect
  <2>4. /\ request'[p].step = s /\ request'[p].now = NowUnderLock(p) /\ request'[p].lockedAt = clock
        /\ request'[p].op = request[p].op /\ request'[p].target = request[p].target
        /\ request'[p].type = request[p].type /\ request'[p].answer = request[p].answer
    BY <1>0, <2>3 DEF Request
  <2>5. /\ request[p].op = "claim" => NowUnderLock(p) = clock
        /\ request[p].op # "claim" => NowUnderLock(p) = request[p].now
    BY DEF NowUnderLock
  <2>6. request[p].op \in {"prepare", "claim"} /\ request[p].answer = "none"
    BY <2>2 DEF Reliable, InItsCourse
  <2> QED
    BY <1>0, <2>1, <2>2, <2>4, <2>5, <2>6
    DEF Reliable, InItsCourse, InTime, SeenInQueue, NewestChosen, RunByItself,
        NoneClaimed, CancelTold, YesTold, EarlierWithdrawn
<1>2. CASE Supersede(p)
  <2>1. /\ request[p].step = "supersede" /\ clock' = clock /\ request'[p].step = "scan"
        /\ SameButStep(p) /\ request'[p].answer = request[p].answer
    BY <1>0, <1>2, GotoFields DEF Supersede, Runs, Steps, LockedSteps
  <2> QED
    BY <1>0, <2>1
    DEF Reliable, SameButStep, InItsCourse, InTime, SeenInQueue, NewestChosen, RunByItself,
        NoneClaimed, CancelTold, YesTold, EarlierWithdrawn
<1>3. CASE Scan(p)
  <2> DEFINE found == {r \in Reviews : /\ status[r] = "pending"
                                       /\ actionType[r] \in OtherQueues(request[p].type)}
  <2>1. /\ request[p].step = "scan" /\ UNCHANGED <<clock, status, actionType, createdAt>>
        /\ Becomes(p, [request[p] EXCEPT !.step = "withdraw", !.candidates = found])
    BY <1>3 DEF Scan, Runs, table
  <2>2. request'[p] = [request[p] EXCEPT !.step = "withdraw", !.candidates = found]
    BY <1>0, <2>1, BecomesEffect
  <2>3. /\ request'[p].step = "withdraw" /\ request'[p].now = request[p].now
        /\ request'[p].op = request[p].op /\ request'[p].candidates = found
        /\ request'[p].type = request[p].type /\ request'[p].answer = request[p].answer
    BY <1>0, <2>2 DEF Request
  <2>4. EarlierWithdrawn(p)'
    <3>1. Earlier(p)' \subseteq found
      BY <2>1, <2>3 DEF Earlier
    <3> QED
      BY <2>1, <2>3, <3>1 DEF EarlierWithdrawn, Reliable, InItsCourse
  <2> QED
    BY <1>0, <2>1, <2>3, <2>4
    DEF Reliable, InItsCourse, InTime, SeenInQueue, NewestChosen, RunByItself,
        NoneClaimed, CancelTold, YesTold
<1>4. CASE Withdraw(p)
  <2>1. /\ request[p].step = "withdraw" /\ UNCHANGED <<clock, status, actionType, createdAt>>
        /\ request'[p].step = "create"
        /\ SameButStep(p) /\ request'[p].answer = request[p].answer
    BY <1>0, <1>4, GotoFields DEF Withdraw, Runs, Steps, LockedSteps, table
  <2>2. Earlier(p)' = Earlier(p) /\ Earlier(p) \subseteq request[p].candidates
    BY <2>1 DEF Earlier, SameButStep, Reliable, EarlierWithdrawn
  <2>3. \A r \in Earlier(p) : held'[p][r] = "cancelled"
    <3>1. \A r \in Reviews : r \in request[p].candidates /\ status[r] = "pending" => held'[p][r] = "cancelled"
      BY <1>0, <1>4, SweepEffect DEF Withdraw
    <3> QED
      BY <2>2, <3>1 DEF Earlier
  <2>4. EarlierWithdrawn(p)'
    BY <2>1, <2>2, <2>3 DEF EarlierWithdrawn, Reliable, InItsCourse
  <2> QED
    BY <1>0, <2>1, <2>4
    DEF Reliable, SameButStep, InItsCourse, InTime, SeenInQueue, NewestChosen, RunByItself,
        NoneClaimed, CancelTold, YesTold
<1>5. CASE Create(p)
  <2>1. PICK n \in Reviews :
          /\ status' = [Committed(p) EXCEPT ![n] = "pending"]
          /\ actionType' = [actionType EXCEPT ![n] = request[p].type]
          /\ createdAt' = [createdAt EXCEPT ![n] = clock]
          /\ Becomes(p, [request[p] EXCEPT !.step = "done", !.answer = "prepared", !.target = n])
    BY <1>5 DEF Create
  <2>2. request'[p] = [request[p] EXCEPT !.step = "done", !.answer = "prepared", !.target = n]
    BY <1>0, <2>1, BecomesEffect
  <2>3. /\ request'[p].step = "done" /\ request'[p].now = request[p].now
        /\ request'[p].op = request[p].op /\ request'[p].target = n
        /\ request'[p].type = request[p].type /\ request'[p].answer = "prepared"
    BY <1>0, <2>2 DEF Request
  <2>4. request[p].step = "create" /\ clock' = clock
    BY <1>5 DEF Create, Runs
  <2>5. /\ actionType'[n] = request[p].type /\ createdAt'[n] = clock /\ status'[n] = "pending"
        /\ \A r \in Reviews : r # n =>
             /\ actionType'[r] = actionType[r] /\ createdAt'[r] = createdAt[r]
             /\ status'[r] = Committed(p)[r]
    BY <1>0, <2>1 DEF TypeOK, Committed
  <2>6. ASSUME NEW r \in Reviews, status'[r] = "pending", createdAt'[r] < request[p].now,
               actionType'[r] \in OtherQueues(request[p].type)
        PROVE  FALSE
    <3>1. r # n
      BY <1>0, <2>5, <2>6
    <3>2. status[r] = "pending" /\ held[p][r] = "free"
      <4>1. held[p][r] \in {"free", "cancelled", "expired"}
        BY <1>0 DEF TypeOK
      <4> QED
        BY <2>5, <2>6, <3>1, <4>1 DEF Committed
    <3>3. r \in Earlier(p)
      BY <2>5, <2>6, <3>1, <3>2 DEF Earlier
    <3> QED
      BY <2>4, <3>2, <3>3 DEF Reliable, EarlierWithdrawn
  <2>7. EarlierWithdrawn(p)'
    <3>1. Earlier(p)' = {}
      BY <2>3, <2>6 DEF Earlier
    <3> QED
      BY <2>3, <2>5, <3>1 DEF EarlierWithdrawn
  <2> QED
    BY <1>0, <2>3, <2>4, <2>7
    DEF Reliable, InItsCourse, InTime, SeenInQueue, NewestChosen, RunByItself,
        NoneClaimed, CancelTold, YesTold
<1> QED
  BY <1>1, <1>2, <1>3, <1>4, <1>5

LEMMA ReliableClaiming ==
  ASSUME Inv, LegacyRows, NEW p \in Requests, Reliable(p),
         \/ CheckSafeMode(p) \/ SeeWaiting(p) \/ FindNothing(p) \/ RefuseUnheard(p) \/ SelectNewest(p)
         \/ FailTied(p) \/ Claim(p) \/ LoseClaim(p)
  PROVE  Reliable(p)'
<1>0. /\ TypeOK /\ request[p] \in Request /\ clock \in Nat
      /\ request[p].now \in Nat /\ request[p].now <= clock
  BY RequestFields DEF Inv, TypeOK, Reliable, InTime
<1> USE DEF At
<1>1. CASE CheckSafeMode(p)
  <2>1. request[p].step = "check" /\ clock' = clock
    BY <1>1 DEF CheckSafeMode, Runs
  <2>2. CASE Reply(p, "stopped")
    BY <1>0, <2>1, <2>2, PlainReply DEF Answers
  <2>3. CASE Goto(p, "see")
    <3>1. SameButStep(p) /\ request'[p].step = "see" /\ request'[p].answer = request[p].answer
      BY <1>0, <2>3, GotoFields DEF Steps
    <3> QED
      BY <1>0, <2>1, <3>1
      DEF Reliable, SameButStep, InItsCourse, InTime, SeenInQueue, NewestChosen, RunByItself,
          NoneClaimed, CancelTold, YesTold, EarlierWithdrawn
  <2> QED
    BY <1>1, <2>2, <2>3 DEF CheckSafeMode
<1>2. CASE SeeWaiting(p)
  <2>1. /\ request[p].step = "see" /\ UNCHANGED <<clock, status, actionType>>
    BY <1>2 DEF SeeWaiting, Runs, table
  <2>2. PICK r : /\ r = NoReview \/ r \in Waiting(request[p].type)
                 /\ Becomes(p, [request[p] EXCEPT !.step = "lock", !.target = r])
    BY <1>2 DEF SeeWaiting
  <2>3. request'[p] = [request[p] EXCEPT !.step = "lock", !.target = r]
    BY <1>0, <2>2, BecomesEffect
  <2>4. /\ request'[p].step = "lock" /\ request'[p].now = request[p].now
        /\ request'[p].op = request[p].op /\ request'[p].target = r
        /\ request'[p].type = request[p].type /\ request'[p].answer = request[p].answer
    BY <1>0, <2>3 DEF Request
  <2>5. request[p].op = "claim" /\ request[p].answer = "none"
    BY <2>1 DEF Reliable, InItsCourse
  <2> QED
    BY <1>0, <2>1, <2>2, <2>4, <2>5
    DEF Reliable, Waiting, InItsCourse, InTime, SeenInQueue, NewestChosen, RunByItself,
        NoneClaimed, CancelTold, YesTold, EarlierWithdrawn
<1>3. CASE FindNothing(p)
  <2> DEFINE after == [r \in Reviews |-> IF r \in Overdue(p) THEN "expired" ELSE status[r]]
             seen == request[p].target
  <2>1. /\ request[p].step = "select" /\ Live(p) = {} /\ status' = after
        /\ UNCHANGED <<clock, actionType>>
    BY <1>3 DEF FindNothing, Runs
  <2>2. PICK a : /\ Reply(p, a)
                 /\ \/ a = "raced" /\ LostRace(seen, after)
                    \/ a = "none" /\ ~LostRace(seen, after)
    BY <1>3 DEF FindNothing
  <2>3. SameButStep(p) /\ request'[p].step = "done" /\ request'[p].answer = a
    BY <1>0, <2>2, ReplyFields DEF Answers
  <2>4. seen # NoReview => status[seen] # "unused" /\ actionType[seen] = request[p].type
    BY <1>0, <2>1, RequestFields DEF Reliable, InItsCourse, SeenInQueue
  \* A row it saw and that still waits would be live, or overdue.
  <2>5. seen # NoReview => status'[seen] # "pending" /\ status'[seen] # "unused"
    <3>1. seen # NoReview => seen \in Reviews
      BY <1>0, RequestFields
    <3>2. Free(p)
      BY <2>1, FreeOutside
    <3> QED
      BY <2>1, <2>4, <3>1, <3>2 DEF Live, StillWaiting, Waiting, Overdue, Free
  <2>6. YesTold(p)'
    <3>1. a = "raced" => seen \in Reviews /\ status'[seen] \notin {"unused", "pending"}
      BY <1>0, <2>2, <2>5, RequestFields DEF LostRace
    <3>2. a = "none" => seen = NoReview \/ status'[seen] = "expired"
      BY <2>1, <2>2 DEF LostRace
    <3> QED
      BY <2>2, <2>3, <3>1, <3>2 DEF YesTold, SameButStep
  <2> QED
    BY <1>0, <2>1, <2>2, <2>3, <2>6
    DEF Reliable, SameButStep, InItsCourse, InTime, SeenInQueue, NewestChosen, RunByItself,
        NoneClaimed, CancelTold, EarlierWithdrawn
<1>4. CASE RefuseUnheard(p)
  BY <1>0, <1>4, PlainReply DEF RefuseUnheard, Answers
<1>5. CASE SelectNewest(p)
  <2>1. PICK r \in Newest(p), s \in {"claim", "tie"} :
          /\ (s = "claim" /\ Newest(p) = {r}) \/ s = "tie"
          /\ Becomes(p, [request[p] EXCEPT !.step = s, !.target = r])
    BY <1>5 DEF SelectNewest
  <2>2. /\ request[p].step = "select" /\ held' = Sweep(p, Overdue(p), "expired")
        /\ UNCHANGED <<clock, status, actionType, createdAt, expiresAt>>
    BY <1>5 DEF SelectNewest, Runs, table
  <2>3. request'[p] = [request[p] EXCEPT !.step = s, !.target = r]
    BY <1>0, <2>1, BecomesEffect
  <2>4. /\ request'[p].step = s /\ request'[p].now = request[p].now
        /\ request'[p].op = request[p].op /\ request'[p].target = r
        /\ request'[p].lockedAt = request[p].lockedAt
        /\ request'[p].type = request[p].type /\ request'[p].answer = request[p].answer
    BY <1>0, <2>3 DEF Request
  <2>5. /\ r \in Live(p) /\ r \in Reviews /\ status[r] = "pending" /\ actionType[r] = request[p].type
        /\ r \notin Overdue(p)
    BY <2>1 DEF Newest, Live, StillWaiting, Waiting
  <2>6. request[p].op = "claim" /\ request[p].answer = "none" /\ request[p].now = request[p].lockedAt
    BY <2>2 DEF Reliable, InItsCourse, InTime
  <2>7. \A o \in Reviews : expiresAt[o] \in Nat /\ createdAt[o] \in Nat
    BY ConstantsAssumption, <1>0 DEF TypeOK
  <2>8. InTime(p)'
    <3>1. expiresAt[r] > request[p].now
      BY <1>0, <2>5, <2>7 DEF Overdue, Waiting
    <3> QED
      BY <1>0, <2>1, <2>2, <2>4, <2>6, <3>1 DEF InTime
  <2>9. ASSUME s = "claim", NEW o \in Waiting(request[p].type), o # r
        PROVE  createdAt[o] < createdAt[r]
    <3>0. Newest(p) = {r} /\ o \in Reviews
      BY <2>1, <2>9 DEF Waiting
    <3>1. CASE o \in Overdue(p)
      <4>1. {o, r} \subseteq Legacy
        BY <2>5, <2>9, <3>0 DEF Inv, OneWaitingPerQueue, Waiting
      <4>2. expiresAt[o] = createdAt[o] + Lifetime /\ expiresAt[r] = createdAt[r] + Lifetime
        BY <4>1 DEF LegacyRows
      <4>3. expiresAt[o] <= request[p].now /\ request[p].now < expiresAt[r]
        BY <1>0, <2>5, <2>7, <3>1 DEF Overdue, Waiting
      <4> QED
        BY <1>0, <2>5, <2>7, <3>0, <4>2, <4>3, ConstantsAssumption
    <3>2. CASE o \notin Overdue(p)
      <4>1. Free(p)
        BY <2>2, FreeOutside
      <4>2. o \in Live(p)
        BY <2>9, <3>0, <3>2, <4>1 DEF Live, StillWaiting, Free
      <4>3. createdAt[o] <= createdAt[r] /\ o \notin Newest(p)
        BY <2>1, <2>9, <3>0, <4>2 DEF Newest
      <4>4. createdAt[o] # createdAt[r]
        BY <2>1, <4>2, <4>3 DEF Newest
      <4> QED
        BY <2>5, <2>7, <3>0, <4>3, <4>4
    <3> QED
      BY <3>1, <3>2
  <2>10. NewestChosen(p)'
    <3>1. s = "claim" => \A o \in Reviews :
             /\ o # r /\ status'[o] = "pending" /\ actionType'[o] = request[p].type
             => createdAt'[o] < createdAt'[r]
      BY <2>2, <2>9 DEF Waiting
    <3>2. \A o \in Reviews : held'[p][o] # "free" => actionType'[o] = request[p].type
      <4>1. Free(p)
        BY <2>2, FreeOutside
      <4> QED
        BY <1>0, <2>2, <4>1, SweepEffect DEF Free, Overdue, Waiting
    <3> QED
      BY <2>4, <3>1, <3>2 DEF NewestChosen, Waiting
  <2> QED
    BY <1>0, <2>1, <2>4, <2>6, <2>8, <2>10
    DEF Reliable, InItsCourse, SeenInQueue, RunByItself,
        NoneClaimed, CancelTold, YesTold, EarlierWithdrawn
<1>6. CASE FailTied(p)
  BY <1>0, <1>6, PlainReply DEF FailTied, Answers
<1>7. CASE Claim(p)
  <2>1. /\ request[p].step = "claim" /\ UNCHANGED <<clock, expiresAt>>
        /\ SameButStep(p) /\ request'[p].step = "execute" /\ request'[p].answer = request[p].answer
    BY <1>0, <1>7, GotoFields DEF Claim, Runs, Steps
  <2> QED
    BY <1>0, <2>1
    DEF Reliable, SameButStep, InItsCourse, InTime, SeenInQueue, NewestChosen, RunByItself,
        NoneClaimed, CancelTold, YesTold, EarlierWithdrawn
<1>8. CASE LoseClaim(p)
  <2>1. /\ request[p].step = "claim" /\ clock' = clock /\ ~Claimable(p) /\ status' = Committed(p)
        /\ SameButStep(p) /\ request'[p].step = "done" /\ request'[p].answer = "raced"
    BY <1>0, <1>8, ReplyFields DEF LoseClaim, Runs, Answers
  <2>2. /\ request[p].target \in Reviews /\ status[request[p].target] # "unused"
        /\ status[request[p].target] # "pending"
    BY <2>1 DEF Claimable, Inv, Selected, Reliable, InTime
  <2>3. status'[request[p].target] \notin {"unused", "pending"}
    BY <2>1, <2>2, CommittedRows
  <2> QED
    BY <1>0, <2>1, <2>2, <2>3
    DEF Reliable, SameButStep, InItsCourse, InTime, SeenInQueue, NewestChosen, RunByItself,
        NoneClaimed, CancelTold, YesTold, EarlierWithdrawn
<1> QED
  BY <1>1, <1>2, <1>3, <1>4, <1>5, <1>6, <1>7, <1>8

LEMMA ReliableEnd ==
  ASSUME Inv, NEW p \in Requests, Reliable(p),
         \/ RejectPayload(p) \/ Execute(p) \/ (\E ok \in BOOLEAN : Complete(p, ok))
         \/ ExpireOverdue(p) \/ FindWaiting(p) \/ CancelFound(p) \/ Fail(p)
  PROVE  Reliable(p)'
<1>0. /\ TypeOK /\ request[p] \in Request /\ clock \in Nat
      /\ request[p].now \in Nat /\ request[p].now <= clock
  BY RequestFields DEF Inv, TypeOK, Reliable, InTime
<1> USE DEF At
<1>1. CASE RejectPayload(p)
  BY <1>0, <1>1, PlainReply DEF RejectPayload, Answers
<1>2. CASE Execute(p)
  <2>1. /\ request[p].step = "execute" /\ clock' = clock
        /\ SameButStep(p) /\ request'[p].step = "resolve" /\ request'[p].answer = request[p].answer
    BY <1>0, <1>2, GotoFields DEF Execute, Runs, Steps
  <2>2. request[p].target \in Reviews /\ ranBy[request[p].target] = {}
    BY <2>1 DEF Inv, Claimed
  <2>3. ranBy'[request[p].target] = {p}
    BY <1>0, <1>2, <2>2 DEF Execute, TypeOK
  <2> QED
    BY <1>0, <2>1, <2>3
    DEF Reliable, SameButStep, InItsCourse, InTime, SeenInQueue, NewestChosen, RunByItself,
        NoneClaimed, CancelTold, YesTold, EarlierWithdrawn
<1>3. ASSUME NEW ok \in BOOLEAN, Complete(p, ok) PROVE Reliable(p)'
  <2>1. CASE ~ok
    BY <1>0, <1>3, <2>1, PlainReply DEF Complete, Answers
  <2>2. CASE ok
    <3>1. /\ request[p].step = "resolve" /\ UNCHANGED <<clock, ranBy>>
          /\ status' = [status EXCEPT ![request[p].target] = "completed"]
          /\ Reply(p, "executed")
      BY <1>3, <2>2 DEF Complete, Runs, ResolveAs
    <3>2. SameButStep(p) /\ request'[p].step = "done" /\ request'[p].answer = "executed"
      BY <1>0, <3>1, ReplyFields DEF Answers
    <3>3. /\ request[p].target \in Reviews /\ status'[request[p].target] = "completed"
          /\ ranBy'[request[p].target] = {p}
      BY <1>0, <3>1 DEF Inv, Claimed, TypeOK, Reliable, RunByItself
    <3> QED
      BY <1>0, <3>1, <3>2, <3>3
      DEF Reliable, SameButStep, InItsCourse, InTime, SeenInQueue, NewestChosen, RunByItself,
          NoneClaimed, CancelTold, YesTold, EarlierWithdrawn
  <2> QED
    BY <2>1, <2>2
<1>4. CASE ExpireOverdue(p)
  <2>1. request[p].step = "expire" /\ clock' = clock
    BY <1>4 DEF ExpireOverdue, Runs
  <2>2. CASE Reply(p, "read")
    BY <1>0, <2>1, <2>2, PlainReply DEF Answers
  <2>3. CASE request[p].op = "cancel" /\ Goto(p, "find")
    <3>1. SameButStep(p) /\ request'[p].step = "find" /\ request'[p].answer = request[p].answer
      BY <1>0, <2>3, GotoFields DEF Steps
    <3> QED
      BY <1>0, <2>1, <2>3, <3>1
      DEF Reliable, SameButStep, InItsCourse, InTime, SeenInQueue, NewestChosen, RunByItself,
          NoneClaimed, CancelTold, YesTold, EarlierWithdrawn
  <2> QED
    BY <1>4, <2>2, <2>3 DEF ExpireOverdue
<1>5. CASE FindWaiting(p)
  <2>1. request[p].step = "find" /\ UNCHANGED <<clock, status, actionType, ranBy>>
    BY <1>5 DEF FindWaiting, Runs, table
  <2>2. CASE Reply(p, "nothing")
    BY <1>0, <2>1, <2>2, PlainReply DEF Answers
  <2>3. CASE Becomes(p, [request[p] EXCEPT !.step = "cancel", !.candidates = Waiting(request[p].type)])
    <3>1. request'[p] = [request[p] EXCEPT !.step = "cancel", !.candidates = Waiting(request[p].type)]
      BY <1>0, <2>3, BecomesEffect
    <3>2. /\ request'[p].step = "cancel" /\ request'[p].now = request[p].now
          /\ request'[p].op = request[p].op /\ request'[p].candidates = Waiting(request[p].type)
          /\ request'[p].type = request[p].type /\ request'[p].answer = request[p].answer
      BY <1>0, <3>1 DEF Request
    <3>3. NoneClaimed(p)'
      BY <2>1, <3>2 DEF NoneClaimed, Unrun, Waiting, Inv, WithdrawnNeverRuns
    <3> QED
      BY <1>0, <2>1, <3>2, <3>3
      DEF Reliable, InItsCourse, InTime, SeenInQueue, NewestChosen, RunByItself,
          CancelTold, YesTold, EarlierWithdrawn
  <2> QED
    BY <1>5, <2>2, <2>3 DEF FindWaiting
<1>6. CASE CancelFound(p)
  <2> DEFINE rows == {r \in request[p].candidates : status[r] = "pending"}
  <2>1. /\ request[p].step = "cancel" /\ UNCHANGED <<clock, ranBy>>
        /\ status' = [r \in Reviews |-> IF r \in rows THEN "cancelled" ELSE status[r]]
    BY <1>6 DEF CancelFound, StillCancellable, Runs
  <2>2. CASE Reply(p, "nothing")
    BY <1>0, <2>1, <2>2, PlainReply DEF Answers
  <2>3. CASE rows # {} /\ Reply(p, "cancelled")
    <3>1. SameButStep(p) /\ request'[p].step = "done" /\ request'[p].answer = "cancelled"
      BY <1>0, <2>3, ReplyFields DEF Answers
    <3>2. \A r \in request[p].candidates : Unrun(r) /\ r \in Reviews
      BY <1>0, <2>1, <2>3, RequestFields DEF Reliable, NoneClaimed
    <3>3. CancelTold(p)'
      BY <2>1, <3>1, <3>2 DEF CancelTold, SameButStep, Unrun
    <3> QED
      BY <1>0, <2>1, <3>1, <3>3
      DEF Reliable, SameButStep, InItsCourse, InTime, SeenInQueue, NewestChosen, RunByItself,
          NoneClaimed, YesTold, EarlierWithdrawn
  <2> QED
    BY <1>6, <2>2, <2>3 DEF CancelFound, StillCancellable
<1>7. CASE Fail(p)
  BY <1>0, <1>7, PlainReply DEF Fail, Answers
<1> QED
  BY <1>1, <1>2, <1>3, <1>4, <1>5, <1>6, <1>7

\* A step of p changes no other request's record or locks.
LEMMA OthersUntouched ==
  ASSUME TypeOK, NEW p \in Requests, Acts(p)
  PROVE  \A o \in Requests : o # p => request'[o] = request[o] /\ held'[o] = held[o]
<1>1. \E q : Becomes(p, q)
  BY DEF Acts, Arrival, Step, Fail, ArrivePrepare, ArriveCancel, ArriveRead, Arrive, ArriveClaim,
         ArriveCancelById, TakeLock, Supersede, Scan, Withdraw, Create, CheckSafeMode, SeeWaiting,
         FindNothing, RefuseUnheard, SelectNewest, FailTied, Claim, LoseClaim, RejectPayload,
         Execute, Complete, ExpireOverdue, FindWaiting, CancelFound, Goto, Reply
<1>2. \/ held' = held \/ held' = Unlocked(p)
      \/ \E S, new : held' = Sweep(p, S, new)
  BY DEF Acts, Arrival, Step, Fail, ArrivePrepare, ArriveCancel, ArriveRead, Arrive, ArriveClaim,
         ArriveCancelById, TakeLock, Supersede, Scan, Withdraw, Create, CheckSafeMode, SeeWaiting,
         FindNothing, RefuseUnheard, SelectNewest, FailTied, Claim, LoseClaim, RejectPayload,
         Execute, Complete, ExpireOverdue, FindWaiting, CancelFound, Reply
<1> QED
  BY <1>1, <1>2, BecomesEffect, UnlockedEffect, SweepEffect

LEMMA ReliableInit == Init => AllReliable
<1> SUFFICES ASSUME Init PROVE AllReliable
  OBVIOUS
<1>1. TypeOK /\ Idle \in Request
  BY TypeInit, IdleType
<1>2. LegacyRows
  BY <1>1, ConstantsAssumption DEF Init, LegacyRows
<1>3. ASSUME NEW p \in Requests PROVE Reliable(p)
  <2>1. /\ request[p].op = "none" /\ request[p].step = "idle" /\ request[p].answer = "none"
        /\ request[p].now = 0 /\ clock = 1
    BY DEF Init, Idle
  <2> QED
    BY <2>1
    DEF Reliable, InItsCourse, InTime, SeenInQueue, NewestChosen, RunByItself,
        NoneClaimed, CancelTold, YesTold, EarlierWithdrawn, At
<1> QED
  BY <1>2, <1>3 DEF AllReliable

LEMMA ReliableStep ==
  ASSUME Inv, AllReliable, [Next]_vars
  PROVE  AllReliable'
<1>0. TypeOK /\ ConstantsAssumption
  BY ConstantsAssumption DEF Inv
<1>1. ASSUME NEW p \in Requests, Acts(p) PROVE AllReliable'
  <2>1. RowChange(p)
    BY <1>1, StepRows
  <2>2. LegacyRows'
    BY <1>0, <2>1 DEF AllReliable, LegacyRows, RowChange, RowMoves
  <2>3. Reliable(p)'
    BY <1>1, ReliableArrival, ReliablePreparing, ReliableClaiming, ReliableEnd
    DEF AllReliable, Acts, Step
  <2>4. \A o \in Requests : o # p => request'[o] = request[o] /\ held'[o] = held[o]
    BY <1>0, <1>1, OthersUntouched
  <2> QED
    BY <2>1, <2>2, <2>3, <2>4, OthersRely DEF AllReliable
<1>2. CASE Tick \/ SwitchSafeMode \/ UNCHANGED vars
  <2>1. UNCHANGED <<table, request, held, ranBy>> /\ clock' \in {clock, clock + 1} /\ clock \in Nat
    BY <1>0, <1>2 DEF Tick, SwitchSafeMode, vars, table, TypeOK
  <2>2. \A p \in Requests : request[p].now \in Nat
    BY <1>0, RequestFields
  <2>3. ASSUME NEW p \in Requests PROVE Reliable(p)'
    <3>1. InTime(p)'
      BY <2>1, <2>2 DEF AllReliable, Reliable, InTime, At, table
    <3>2. /\ InItsCourse(p)' /\ SeenInQueue(p)' /\ NewestChosen(p)' /\ RunByItself(p)'
          /\ NoneClaimed(p)' /\ CancelTold(p)' /\ YesTold(p)'
      BY <2>1 DEF AllReliable, Reliable, InItsCourse, SeenInQueue, NewestChosen, RunByItself,
              NoneClaimed, Unrun, CancelTold, YesTold, At, table, Waiting
    <3>3. EarlierWithdrawn(p)'
      <4>1. Earlier(p)' = Earlier(p)
        BY <2>1 DEF Earlier, table
      <4> QED
        BY <2>1, <4>1 DEF AllReliable, Reliable, EarlierWithdrawn, At, table
    <3> QED
      BY <3>1, <3>2, <3>3 DEF Reliable
  <2>4. LegacyRows'
    BY <2>1 DEF AllReliable, LegacyRows, table
  <2> QED
    BY <2>3, <2>4 DEF AllReliable
<1> QED
  BY <1>1, <1>2 DEF Next, Acts

LEMMA ReliableAlways == Spec => [](Inv /\ AllReliable)
<1>1. Inv /\ AllReliable /\ [Next]_vars => (Inv /\ AllReliable)'
  BY InvStep, ReliableStep
<1>2. Init => Inv /\ AllReliable
  BY InvInit, ReliableInit
<1> QED
  BY <1>1, <1>2, PTL DEF Spec

-----------------------------------------------------------------------------
(* What the user of the engine may rely on. *)

\* A review that ran out while a yes waited for the lock is not carried out.
THEOREM NothingLateIsClaimed == Spec => []NotClaimedLate
<1>1. AllReliable => NotClaimedLate
  BY DEF AllReliable, Reliable, InTime, NotClaimedLate
<1> QED
  BY <1>1, ReliableAlways, PTL

\* A cancel, a refusal and a success each say what became of the review.
THEOREM AnswersAreTrue == Spec => []ToldTheTruth
<1>1. AllReliable => CancelToldTheTruth
  BY DEF AllReliable, Reliable, CancelTold, CancelToldTheTruth
<1>2. AllReliable => YesToldTheTruth
  BY DEF AllReliable, Reliable, YesTold, YesToldTheTruth
<1> QED
  BY <1>1, <1>2, ReliableAlways, PTL DEF ToldTheTruth

\* What is prepared withdraws what other queues it excludes had waiting before.
THEOREM TheLastOneStandsAlone == Spec => []LastPreparedStandsAlone
<1>1. Inv /\ AllReliable => LastPreparedStandsAlone
  <2> SUFFICES ASSUME Inv, AllReliable, NEW p \in Requests, NEW q \in Requests,
                      request[p].answer = "prepared", request[q].answer = "prepared",
                      request[q].type # request[p].type,
                      {request[p].type, request[q].type} \cap StandaloneTypes # {},
                      createdAt[request[q].target] < request[p].now,
                      status[request[q].target] = "pending"
               PROVE  FALSE
    BY DEF LastPreparedStandsAlone
  <2>1. /\ request[q].target \in Reviews
        /\ actionType[request[q].target] = request[q].type
    BY DEF AllReliable, Reliable, EarlierWithdrawn
  <2>2. request[p].type \in Types /\ request[q].type \in Types
    BY RequestFields DEF Inv
  <2>3. request[q].type \in OtherQueues(request[p].type)
    BY <2>2 DEF OtherQueues
  <2> QED
    BY <2>1, <2>3 DEF AllReliable, Reliable, EarlierWithdrawn, Earlier
<1> QED
  BY <1>1, ReliableAlways, PTL

-----------------------------------------------------------------------------
(* The engine implements OneShotApproval: its steps offer, take, run, finish *)
(* or drop a review, or change nothing a user could tell.                    *)

phase == [r \in Reviews |-> Phase(status[r])]
ran   == [r \in Reviews |-> ranBy[r] # {}]

LEMMA Phases ==
  ASSUME TypeOK, NEW r \in Reviews
  PROVE  /\ phase[r] = Phase(status[r]) /\ status[r] \in Statuses
         /\ phase[r] = "none" <=> status[r] = "unused"
         /\ phase[r] = "waiting" <=> status[r] = "pending"
         /\ phase[r] = "taken" <=> status[r] = "executing"
         /\ status[r] \in {"completed", "failed", "cancelled", "expired"} => phase[r] = "over"
  BY DEF phase, Phase, TypeOK, Statuses

LEMMA AbstractWaiting ==
  ASSUME TypeOK
  PROVE  /\ Approval!Waiting = {r \in Reviews : status[r] = "pending"}
         /\ \A t \in Types : Approval!InQueue(t) = Waiting(t)
<1>1. Approval!Waiting = {r \in Reviews : phase[r] = "waiting"}
  BY DEF Approval!Waiting, phase
<1>2. Approval!Waiting = {r \in Reviews : status[r] = "pending"}
  BY <1>1, Phases
<1> QED
  BY <1>2 DEF Approval!InQueue, Waiting

\* Rows that leave the queue without being claimed.
LEMMA RowsDropped ==
  ASSUME TypeOK, TypeOK', UNCHANGED <<actionType, createdAt, ranBy>>,
         \A r \in Reviews :
            \/ status'[r] = status[r]
            \/ status[r] = "pending" /\ status'[r] \in {"cancelled", "expired", "failed"}
  PROVE  Approval!Next
<1> DEFINE S == {r \in Reviews : status[r] = "pending" /\ status'[r] # "pending"}
<1>1. S \in SUBSET Approval!Waiting
  BY AbstractWaiting
<1>2. \A r \in Reviews : Phase(status'[r]) = IF r \in S THEN "over" ELSE Phase(status[r])
  BY DEF Phase
<1>3. Approval!Drop(S)
  BY <1>2 DEF Approval!Drop, Approval!Dropping
<1> QED
  BY <1>1, <1>3 DEF Approval!Next

\* A claimed row that its request resolves.
LEMMA RowFinished ==
  ASSUME TypeOK, TypeOK', NEW c \in Reviews, NEW new \in {"completed", "failed"},
         status[c] = "executing", status' = [status EXCEPT ![c] = new],
         UNCHANGED <<actionType, createdAt, ranBy>>
  PROVE  Approval!Next
<1>1. \A r \in Reviews : Phase(status'[r]) = IF r = c THEN "over" ELSE Phase(status[r])
  BY DEF Phase, TypeOK
<1>2. Phase(status[c]) = "taken"
  BY DEF Phase
<1>3. [r \in Reviews |-> Phase(status'[r])] = [phase EXCEPT ![c] = "over"]
  BY <1>1 DEF phase
<1>4. Approval!Finish(c)
  BY <1>2, <1>3 DEF Approval!Finish, phase
<1> QED
  BY <1>4 DEF Approval!Next

\* A claim takes the newest review of its queue, and drops what is left of it.
LEMMA RowTaken ==
  ASSUME Inv, AllReliable, TypeOK', NEW p \in Requests, Claim(p)
  PROVE  Approval!Next
<1> DEFINE c == request[p].target
           t == request[p].type
<1>0. /\ TypeOK /\ c \in Reviews /\ actionType[c] = t /\ t \in Types
      /\ UNCHANGED <<actionType, createdAt, ranBy>> /\ At(p, "claim")
  BY RequestFields DEF Inv, Claim, Runs, At, Selected
<1>1. status[c] = "pending" /\ status'[c] = "executing"
  BY <1>0, ClaimStep
<1>2. ASSUME NEW r \in Reviews, r # c
      PROVE  /\ r \in Waiting(t) => status'[r] \in {"cancelled", "expired"}
             /\ r \notin Waiting(t) => status'[r] = status[r]
  <2>1. status'[r] = IF r \in StillWaiting(p) THEN "cancelled" ELSE Committed(p)[r]
    BY <1>2 DEF Claim
  <2>2. held[p][r] \in {"free", "cancelled", "expired"}
    BY <1>0 DEF TypeOK
  <2>3. held[p][r] # "free" => r \in Waiting(t)
    BY <1>0 DEF Inv, RowLocks, AllReliable, Reliable, NewestChosen, Waiting, At
  <2> QED
    BY <2>1, <2>2, <2>3 DEF StillWaiting, Committed
<1>3. c \in Waiting(t) /\ Approval!InQueue(t) = Waiting(t)
  BY <1>0, <1>1, AbstractWaiting DEF Waiting
<1>4. \A s \in Waiting(t) \ {c} : createdAt[s] < createdAt[c]
  BY <1>0 DEF AllReliable, Reliable, NewestChosen
<1> HIDE DEF c, t
<1>5. \A r \in Reviews :
        Phase(status'[r]) = IF r = c THEN "taken" ELSE IF r \in Waiting(t) THEN "over" ELSE Phase(status[r])
  BY <1>1, <1>2 DEF Phase
<1>6. [r \in Reviews |-> Phase(status'[r])]
        = [[r \in Reviews |-> IF r \in Waiting(t) THEN "over" ELSE phase[r]] EXCEPT ![c] = "taken"]
  BY <1>0, <1>5 DEF phase
<1>7. Approval!Dropping(Waiting(t)) = [r \in Reviews |-> IF r \in Waiting(t) THEN "over" ELSE phase[r]]
  BY DEF Approval!Dropping, phase
<1>8. phase[c] = "waiting"
  BY <1>0, <1>1, Phases
<1>9. Approval!Take(c)
  BY <1>0, <1>3, <1>4, <1>6, <1>7, <1>8 DEF Approval!Take, phase
<1> QED
  BY <1>0, <1>9 DEF Approval!Next

\* A preparation commits: its review is offered, its queue cleared, and what
\* else it withdrew dropped.
LEMMA RowOffered ==
  ASSUME Inv, TypeOK', NEW p \in Requests, Create(p)
  PROVE  Approval!Next
<1> DEFINE t == request[p].type
           also == {r \in Reviews : held[p][r] # "free"}
<1>0. TypeOK /\ At(p, "create") /\ t \in Types /\ ranBy' = ranBy
  BY RequestFields DEF Inv, Create, Runs
<1>1. PICK n \in Reviews :
        /\ status[n] = "unused"
        /\ status' = [Committed(p) EXCEPT ![n] = "pending"]
        /\ actionType' = [actionType EXCEPT ![n] = t]
        /\ createdAt' = [createdAt EXCEPT ![n] = clock]
  BY DEF Create
<1>2. status'[n] = "pending" /\ \A r \in Reviews : r # n => status'[r] = Committed(p)[r]
  BY <1>0, <1>1 DEF TypeOK, Committed
<1>3. also \in SUBSET Approval!Waiting /\ Approval!InQueue(t) = Waiting(t) /\ Waiting(t) \subseteq also
  BY <1>0, AbstractWaiting DEF Inv, RowLocks, Swept, Waiting, At
<1>4. ASSUME NEW r \in Reviews, r # n
      PROVE  Phase(status'[r]) = IF r \in also THEN "over" ELSE Phase(status[r])
  <2>1. held[p][r] \in {"free", "cancelled", "expired"}
    BY <1>0 DEF TypeOK
  <2> QED
    BY <1>2, <1>4, <2>1 DEF Committed, Phase
<1>5. Waiting(t) \cup also = also
  BY <1>3
<1> HIDE DEF also, t
<1>6. [r \in Reviews |-> Phase(status'[r])]
        = [[r \in Reviews |-> IF r \in also THEN "over" ELSE phase[r]] EXCEPT ![n] = "waiting"]
  BY <1>2, <1>4 DEF Phase, phase
<1>7. Approval!Dropping(also) = [r \in Reviews |-> IF r \in also THEN "over" ELSE phase[r]]
  BY DEF Approval!Dropping, phase
<1>8. phase[n] = "none"
  BY <1>0, <1>1, Phases
<1>9. createdAt'[n] \in Nat /\ createdAt' = [createdAt EXCEPT ![n] = createdAt'[n]]
  BY <1>0, <1>1 DEF TypeOK
<1>10. Approval!Offer(n, t, also)
  BY <1>0, <1>1, <1>3, <1>5, <1>6, <1>7, <1>8, <1>9 DEF Approval!Offer, phase
<1> QED
  BY <1>0, <1>3, <1>10 DEF Approval!Next

\* The handler runs, once.
LEMMA RowRun ==
  ASSUME Inv, TypeOK', NEW p \in Requests, Execute(p)
  PROVE  Approval!Next
<1>1. PICK c \in Reviews : c = request[p].target
  BY DEF Inv, Claimed, Execute, Runs, At
<1>2. /\ TypeOK /\ status[c] = "executing" /\ ranBy[c] = {}
      /\ UNCHANGED <<status, actionType, createdAt>>
  BY <1>1 DEF Inv, Claimed, Execute, Runs, At, table
<1>3. ranBy'[c] = {p} /\ \A r \in Reviews : r # c => ranBy'[r] = ranBy[r]
  BY <1>1, <1>2 DEF Execute, TypeOK
<1>4. [r \in Reviews |-> ranBy'[r] # {}] = [ran EXCEPT ![c] = TRUE]
  BY <1>2, <1>3 DEF ran
<1>5. phase[c] = "taken" /\ ~ran[c]
  BY <1>2, Phases DEF ran
<1>6. Approval!Run(c)
  BY <1>2, <1>4, <1>5 DEF Approval!Run, phase, ran
<1> QED
  BY <1>6 DEF Approval!Next

LEMMA RefinesInit == Init => Approval!Init
<1> SUFFICES ASSUME Init PROVE Approval!Init
  OBVIOUS
<1>1. TypeOK
  BY TypeInit
<1>2. [r \in Reviews |-> Phase(status[r])] \in [Reviews -> {"none", "waiting"}]
  BY DEF Init, Phase
<1>3. actionType \in [Reviews -> Types] /\ createdAt \in [Reviews -> Nat]
  BY <1>1 DEF TypeOK
<1>4. [r \in Reviews |-> ranBy[r] # {}] = [r \in Reviews |-> FALSE]
  BY DEF Init
<1> QED
  BY <1>2, <1>3, <1>4 DEF Approval!Init

LEMMA RefinesStep ==
  ASSUME Inv, AllReliable, [Next]_vars
  PROVE  Approval!Next \/ UNCHANGED <<phase, actionType, createdAt, ran>>
<1>0. TypeOK /\ TypeOK'
  BY TypeStep DEF Inv
<1>1. ASSUME UNCHANGED <<status, actionType, createdAt, ranBy>>
      PROVE  UNCHANGED <<phase, actionType, createdAt, ran>>
  BY <1>1 DEF phase, ran
<1>2. ASSUME NEW p \in Requests, Arrival(p) \/ Fail(p) PROVE UNCHANGED <<status, actionType, createdAt, ranBy>>
  BY <1>2 DEF Fail, Arrival, ArrivePrepare, ArriveCancel, ArriveRead, Arrive, ArriveClaim, ArriveCancelById, table
<1>3. ASSUME NEW p \in Requests,
             \/ TakeLock(p) \/ Supersede(p) \/ Scan(p) \/ Withdraw(p) \/ CheckSafeMode(p)
             \/ SeeWaiting(p) \/ SelectNewest(p) \/ FindWaiting(p)
      PROVE  UNCHANGED <<status, actionType, createdAt, ranBy>>
  BY <1>3 DEF TakeLock, Supersede, Scan, Withdraw, CheckSafeMode, SeeWaiting, SelectNewest, FindWaiting, table
<1>4. ASSUME NEW p \in Requests,
             \/ FindNothing(p) \/ RefuseUnheard(p) \/ FailTied(p) \/ LoseClaim(p)
             \/ ExpireOverdue(p) \/ CancelFound(p)
      PROVE  Approval!Next
  <2>1. Resolves(p) /\ request[p].step \notin {"execute", "resolve"}
    BY <1>0, <1>4, ResolvingStep
    DEF FindNothing, RefuseUnheard, FailTied, LoseClaim, ExpireOverdue, CancelFound, Runs, At
  <2>2. UNCHANGED <<actionType, createdAt, ranBy>>
    BY <1>4 DEF FindNothing, RefuseUnheard, FailTied, LoseClaim, ExpireOverdue, CancelFound
  <2> QED
    BY <1>0, <2>1, <2>2, RowsDropped DEF Resolves
<1>5. ASSUME NEW p \in Requests, RejectPayload(p) \/ \E ok \in BOOLEAN : Complete(p, ok)
      PROVE  Approval!Next
  <2>1. PICK new \in {"completed", "failed"} : ResolveAs(p, new)
    BY <1>5 DEF RejectPayload, Complete
  <2>2. request[p].target \in Reviews /\ status[request[p].target] = "executing"
    BY <1>5 DEF RejectPayload, Complete, Runs, At, Inv, Claimed
  <2>3. UNCHANGED <<actionType, createdAt, ranBy>>
    BY <1>5 DEF RejectPayload, Complete
  <2> QED
    BY <1>0, <2>1, <2>2, <2>3, RowFinished DEF ResolveAs
<1>6. Tick \/ SwitchSafeMode \/ UNCHANGED vars => UNCHANGED <<status, actionType, createdAt, ranBy>>
  BY DEF Tick, SwitchSafeMode, vars, table
<1> QED
  BY <1>0, <1>1, <1>2, <1>3, <1>4, <1>5, <1>6, RowTaken, RowOffered, RowRun DEF Next, Step

\* The table of reviews, behind requests, locks, statements and failures,
\* behaves like reviews that are offered, taken by one yes or dropped, run once,
\* and then over.
THEOREM EngineIsOneShotApproval == Spec => ImplementsOneShotApproval
<1>1. Init => Approval!Init
  BY RefinesInit
<1>2. Inv /\ AllReliable /\ [Next]_vars =>
        [Approval!Next]_<<[r \in Reviews |-> Phase(status[r])], actionType, createdAt,
                          [r \in Reviews |-> ranBy[r] # {}]>>
  BY RefinesStep DEF phase, ran
<1> QED
  BY <1>1, <1>2, ReliableAlways, PTL DEF Spec, ImplementsOneShotApproval, Approval!Spec
=============================================================================
