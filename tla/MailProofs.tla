----------------------------- MODULE MailProofs -----------------------------
(***************************************************************************)
(* Theorems about the mail: what is sent (Outbound), for every number of   *)
(* letters and requests, and the copies of an inbox (MailMirror), for      *)
(* every number of messages and syncs.  The two share no variable and no   *)
(* theorem; each part stands for itself.                                   *)
(***************************************************************************)
EXTENDS Outbound, MailMirror, SequenceTheorems, TLAPS

-----------------------------------------------------------------------------
(***************************************************************************)
(* What is sent: the letters and requests of Outbound.                     *)
(***************************************************************************)

(* The inductive invariant. *)

\* A request that has begun has a letter, what is written down after the call has left,
\* a reply is noted and a quote recorded, and nobody is told before the end.
InOrder ==
    \A p \in Requests :
        LET r == request[p] IN
        /\ r.step # "idle" => r.letter \in Letters
        /\ r.step \in {"note", "record", "audit"} => r.heard
        /\ r.step = "note" => IsReply(p)
        /\ r.step = "record" => KindOf(p) = "quote"
        /\ r.step # "done" => r.answer = "none"

\* A reply that was acknowledged is noted, unless its note is lost; one told as sent is
\* audited, or is a reply to an email.
Traced ==
    \A p \in Requests :
        LET r == request[p] IN
        /\ r.step = "audit" /\ IsReply(p) => p \in replies \cup lost
        /\ r.answer = "sent" =>
             \/ p \in audits
             \/ KindOf(p) = "email_reply" /\ p \in replies \cup lost

\* What was told before a review is over, and left a trace the review has or will have.
SeenBefore ==
    \A p \in Requests :
        LET r == request[p] IN
        /\ \A q \in r.before : request[q].step = "done"
        /\ r.step = "review" =>
             \A q \in Same(p, r.before) : q \in audits \/ (IsReply(p) /\ q \in r.notes)

Inv == TypeOK /\ InOrder /\ Traced /\ SeenBefore /\ ToldAsHeard /\ RepeatIsSaid

\* What the invariant says of one request.
InOrderAt(p) ==
    LET r == request[p] IN
    /\ r.step # "idle" => r.letter \in Letters
    /\ r.step \in {"note", "record", "audit"} => r.heard
    /\ r.step = "note" => IsReply(p)
    /\ r.step = "record" => KindOf(p) = "quote"
    /\ r.step # "done" => r.answer = "none"
TracedAt(p) ==
    LET r == request[p] IN
    /\ r.step = "audit" /\ IsReply(p) => p \in replies \cup lost
    /\ r.answer = "sent" =>
         \/ p \in audits
         \/ KindOf(p) = "email_reply" /\ p \in replies \cup lost
SeenBeforeAt(p) ==
    LET r == request[p] IN
    /\ \A q \in r.before : request[q].step = "done"
    /\ r.step = "review" =>
         \A q \in Same(p, r.before) : q \in audits \/ (IsReply(p) /\ q \in r.notes)
ToldAsHeardAt(p) ==
    /\ request[p].answer = "sent" => p \in arrived
    /\ request[p].answer = "failed" /\ request[p].letter # None /\ KindOf(p) = "email_reply"
         => ~request[p].heard
RepeatIsSaidAt(p) ==
    At(p, "asked") /\ KindOf(p) # "quote" /\ Same(p, request[p].before) # {}
    => request[p].said
Works(p) == InOrderAt(p) /\ TracedAt(p) /\ SeenBeforeAt(p) /\ ToldAsHeardAt(p) /\ RepeatIsSaidAt(p)

LEMMA InvOfEach == Inv <=> TypeOK /\ \A p \in Requests : Works(p)
BY DEF Inv, InOrder, Traced, SeenBefore, ToldAsHeard, RepeatIsSaid,
       Works, InOrderAt, TracedAt, SeenBeforeAt, ToldAsHeardAt, RepeatIsSaidAt

-----------------------------------------------------------------------------
(* The beginning. *)

LEMMA InitInv == Init => Inv
<1> SUFFICES ASSUME Init PROVE Inv
  OBVIOUS
<1>1. Idle \in Request
  BY DEF Idle, Request
<1>2. TypeOK
  BY <1>1, OutboundAssumption DEF Init, TypeOK, Idle, QuoteStatuses
<1>3. ASSUME NEW p \in Requests PROVE Works(p)
  BY <1>3 DEF Init, Idle, Works, InOrderAt, TracedAt, SeenBeforeAt, ToldAsHeardAt,
              RepeatIsSaidAt, At, IsReply, Same
<1> QED BY <1>2, <1>3, InvOfEach

-----------------------------------------------------------------------------
(* Who writes what. *)

\* What a request that acts leaves in the record.
LEMMA OneTurn ==
    ASSUME NEW p \in Requests, NEW r, TypeOK, Becomes(p, r), r \in Request
    PROVE  /\ request' \in [Requests -> Request]
           /\ request'[p] = r
           /\ \A q \in Requests \ {p} : request'[q] = request[q]
BY DEF TypeOK, Becomes

\* The record of a request that is over.
LEMMA OverRecord ==
    ASSUME NEW p \in Requests, TypeOK, NEW heard \in BOOLEAN,
           NEW answer \in {"none", "sent", "failed"}, End(p, heard, answer)
    PROVE  \E r \in Request :
             /\ Becomes(p, r)
             /\ r.letter = request[p].letter /\ r.step = "done" /\ r.notes = {}
             /\ r.heard = heard /\ r.before = {} /\ r.answer = answer
<1> DEFINE r == [Idle EXCEPT !.letter = request[p].letter, !.step = "done",
                             !.heard = heard, !.answer = answer]
<1>1. request[p].letter \in Letters \cup {None}
  BY DEF TypeOK, Request
<1>2. r \in Request
  BY <1>1 DEF Idle, Request
<1>3. /\ r.letter = request[p].letter /\ r.step = "done" /\ r.notes = {}
      /\ r.heard = heard /\ r.before = {} /\ r.answer = answer
  BY DEF Idle
<1>4. Becomes(p, r)
  BY DEF End
<1> QED BY <1>2, <1>3, <1>4

\* What is out, and what is known of it, is not taken back; a note that goes is lost.
Grows ==
    /\ arrived \subseteq arrived' /\ audits \subseteq audits'
    /\ replies \cup lost \subseteq replies' \cup lost'
OthersStay(p) == \A q \in Requests \ {p} : request'[q] = request[q]

\* While one request takes a step, what is known of the others stays true: what they
\* saw before their review is over, and what is over does not act.
LEMMA TheOthers ==
    ASSUME NEW p \in Requests, NEW q \in Requests, Inv, q # p,
           request[p].step # "done", OthersStay(p), Grows
    PROVE  Works(q)'
<1>1. Works(q) /\ TypeOK
  BY InvOfEach
<1>2. request'[q] = request[q]
  BY DEF OthersStay
<1>3. \A b \in request[q].before : b # p /\ request'[b] = request[b]
  BY <1>1 DEF Works, SeenBeforeAt, OthersStay, TypeOK, Request
<1>4. Same(q, request[q].before)' = Same(q, request[q].before)
  BY <1>2, <1>3 DEF Same
<1>5. (KindOf(q))' = KindOf(q) /\ (IsReply(q))' = IsReply(q)
  BY <1>2 DEF KindOf, IsReply
<1>6. InOrderAt(q)'
  BY <1>1, <1>2, <1>5 DEF Works, InOrderAt
<1>7. TracedAt(q)'
  BY <1>1, <1>2, <1>5 DEF Works, TracedAt, Grows
<1>8. SeenBeforeAt(q)'
  BY <1>1, <1>2, <1>3, <1>4, <1>5 DEF Works, SeenBeforeAt, Grows
<1>9. ToldAsHeardAt(q)'
  BY <1>1, <1>2, <1>5 DEF Works, ToldAsHeardAt, Grows
<1>10. RepeatIsSaidAt(q)'
  BY <1>1, <1>2, <1>4, <1>5 DEF Works, RepeatIsSaidAt, At
<1> QED BY <1>6, <1>7, <1>8, <1>9, <1>10 DEF Works

\* A request that is over keeps nothing but its letter and its answer.
LEMMA OverWorks ==
    ASSUME NEW p \in Requests, NEW r \in Request, Becomes(p, r), TypeOK,
           r.step = "done", r.before = {}, r.letter \in Letters,
           r.answer = "sent" => /\ p \in arrived'
                                /\ p \in audits' \/ (Kind[r.letter] = "email_reply"
                                                      /\ p \in replies' \cup lost'),
           r.answer = "failed" /\ Kind[r.letter] = "email_reply" => ~r.heard
    PROVE  Works(p)'
<1>1. request'[p] = r
  BY OneTurn
<1> QED BY <1>1 DEF Works, InOrderAt, TracedAt, SeenBeforeAt, ToldAsHeardAt,
                    RepeatIsSaidAt, At, KindOf, Same

-----------------------------------------------------------------------------
(* The review. *)

LEMMA ReviewTurn ==
    ASSUME NEW p \in Requests, NEW l \in Letters, Inv, Review(p, l)
    PROVE  TypeOK' /\ OthersStay(p) /\ Grows /\ Works(p)'
<1> DEFINE r == [Idle EXCEPT !.letter = l, !.step = "review",
                             !.notes = replies \cap Thread(Kind[l]), !.before = Told]
<1>1. TypeOK /\ \A q \in Requests : Works(q)
  BY InvOfEach
<1>2. Thread(Kind[l]) \subseteq Requests /\ Told \subseteq Requests
  BY DEF Thread, Told
<1>3. r \in Request
  BY <1>2 DEF Idle, Request
<1>4. /\ r.letter = l /\ r.step = "review" /\ r.notes = replies \cap Thread(Kind[l])
      /\ r.before = Told /\ r.heard = FALSE /\ r.answer = "none" /\ r.said = FALSE
  BY DEF Idle
<1>5. Becomes(p, r)
  BY DEF Review
<1> HIDE DEF r
<1>6. /\ request' \in [Requests -> Request] /\ request'[p] = r
      /\ \A q \in Requests \ {p} : request'[q] = request[q]
  BY <1>1, <1>3, <1>5, OneTurn
<1>7. UNCHANGED <<arrived, replies, audits, quote, delivered, faults, lost>>
  BY DEF Review, stored
<1>8. TypeOK'
  BY <1>1, <1>4, <1>6, <1>7 DEF TypeOK
<1>9. \A q \in Told : request[q].answer = "sent" /\ request[q].step = "done"
  BY <1>1 DEF Told, Works, InOrderAt
<1>10. request[p].step = "idle"
  BY DEF Review, At
<1>11. \A q \in Told : q \in Requests /\ q # p /\ request'[q] = request[q]
  BY <1>2, <1>6, <1>9, <1>10
<1>12. ASSUME NEW q \in Told, request[q].letter = l
       PROVE  q \in audits \/ (Kind[l] \in {"email_reply", "whatsapp_reply"} /\ q \in r.notes)
  <2>1. CASE q \in audits
    BY <2>1
  <2>2. CASE q \notin audits
    <3>1. q \in Requests /\ TracedAt(q)
      BY <1>1, <1>2 DEF Works
    <3>2. KindOf(q) = "email_reply" /\ q \in replies \cup lost
      BY <1>9, <2>2, <3>1 DEF TracedAt
    <3>3. q \in replies
      BY <2>2, <3>2 DEF Told
    <3>4. q \in Thread(Kind[l])
      BY <1>12, <3>1, OutboundAssumption DEF Thread, KindOf
    <3> QED BY <1>4, <1>12, <3>2, <3>3, <3>4 DEF KindOf
  <2> QED BY <2>1, <2>2
<1>13. SeenBeforeAt(p)'
  <2>1. \A q \in r.before : request'[q].step = "done"
    BY <1>4, <1>9, <1>11
  <2>2. \A q \in r.before : request'[q].letter = request'[p].letter => request[q].letter = l
    BY <1>4, <1>6, <1>11
  <2> QED BY <1>4, <1>6, <1>7, <1>12, <2>1, <2>2 DEF SeenBeforeAt, Same, IsReply, KindOf
<1>14. InOrderAt(p)' /\ TracedAt(p)' /\ ToldAsHeardAt(p)' /\ RepeatIsSaidAt(p)'
  BY <1>4, <1>6 DEF InOrderAt, TracedAt, ToldAsHeardAt, RepeatIsSaidAt, At
<1> QED BY <1>6, <1>7, <1>8, <1>13, <1>14 DEF Works, OthersStay, Grows

LEMMA AskTurn ==
    ASSUME NEW p \in Requests, Inv, Ask(p)
    PROVE  TypeOK' /\ OthersStay(p) /\ Grows /\ Works(p)'
<1> DEFINE saying == Same(p, Traces(p)) # {}
           r == [request[p] EXCEPT !.step = "asked", !.notes = {}, !.said = saying]
<1>1. TypeOK /\ Works(p) /\ request[p] \in Request
  BY InvOfEach DEF TypeOK
<1>2. request[p].step = "review" /\ Becomes(p, r)
  BY DEF Ask, At
<1>3. saying \in BOOLEAN
  OBVIOUS
<1>4. saying <=> Same(p, Traces(p)) # {}
  OBVIOUS
<1> HIDE DEF saying
<1>5. r \in Request
  BY <1>1, <1>3 DEF Request
<1>6. /\ r.letter = request[p].letter /\ r.step = "asked" /\ r.notes = {}
      /\ r.before = request[p].before /\ r.heard = request[p].heard
      /\ r.answer = request[p].answer /\ r.said = saying
  BY <1>1 DEF Request
<1> HIDE DEF r
<1>7. /\ request' \in [Requests -> Request] /\ request'[p] = r
      /\ \A q \in Requests \ {p} : request'[q] = request[q]
  BY <1>1, <1>2, <1>5, OneTurn
<1>8. UNCHANGED <<arrived, replies, audits, quote, delivered, faults, lost>>
  BY DEF Ask, stored
<1>9. TypeOK'
  BY <1>1, <1>6, <1>7, <1>8 DEF TypeOK
<1>10. \A b \in request[p].before : b \in Requests /\ b # p /\ request[b].step = "done"
                                    /\ request'[b] = request[b]
  BY <1>1, <1>2, <1>7 DEF Works, SeenBeforeAt, Request
<1>11. ASSUME NEW b \in request[p].before, request[b].letter = request[p].letter,
              KindOf(p) # "quote"
       PROVE  saying
  <2>1. b \in audits \/ (IsReply(p) /\ b \in request[p].notes)
    BY <1>1, <1>2, <1>11 DEF Works, SeenBeforeAt, Same
  <2>2. KindOf(p) \in {"email_reply", "whatsapp_reply", "mail"}
    BY <1>1, <1>2, <1>11, OutboundAssumption DEF Works, InOrderAt, KindOf
  <2>3. b \in Traces(p)
    BY <2>1, <2>2 DEF Traces, IsReply
  <2> QED BY <1>4, <1>11, <2>3 DEF Same
<1>12. RepeatIsSaidAt(p)'
  BY <1>6, <1>7, <1>10, <1>11 DEF RepeatIsSaidAt, At, Same, KindOf
<1>13. SeenBeforeAt(p)'
  BY <1>6, <1>7, <1>10 DEF SeenBeforeAt
<1>14. InOrderAt(p)' /\ TracedAt(p)' /\ ToldAsHeardAt(p)'
  BY <1>1, <1>2, <1>6, <1>7 DEF Works, InOrderAt, TracedAt, ToldAsHeardAt
<1> QED BY <1>7, <1>8, <1>9, <1>12, <1>13, <1>14 DEF Works, OthersStay, Grows

-----------------------------------------------------------------------------
(* The confirmed call. *)

\* A step of the call that is not the last leaves a record that has told nobody anything.
LEMMA OnItsWay ==
    ASSUME NEW p \in Requests, NEW r \in Request, Becomes(p, r), Inv,
           r.letter = request[p].letter, r.letter \in Letters, r.before \subseteq request[p].before,
           request[p].step # "done",
           r.step \in {"send", "note", "record", "audit"}, r.answer = "none",
           r.step # "send" => r.heard,
           r.step = "note" => IsReply(p), r.step = "record" => KindOf(p) = "quote",
           r.step = "audit" /\ IsReply(p) => p \in replies' \cup lost'
    PROVE  Works(p)'
<1>1. request'[p] = r
  BY OneTurn DEF Inv
<1>2. \A q \in Requests \ {p} : request'[q] = request[q]
  BY OneTurn DEF Inv
<1>3. (KindOf(p))' = KindOf(p) /\ (IsReply(p))' = IsReply(p)
  BY <1>1 DEF KindOf, IsReply
<1>4. \A q \in r.before : request'[q].step = "done"
  <2>1. SeenBeforeAt(p)
    BY InvOfEach DEF Works
  <2> QED BY <1>2, <2>1 DEF SeenBeforeAt, Request
<1>5. SeenBeforeAt(p)'
  BY <1>1, <1>4 DEF SeenBeforeAt
<1> QED BY <1>1, <1>3, <1>5 DEF Works, InOrderAt, TracedAt, ToldAsHeardAt, RepeatIsSaidAt, At

LEMMA ConfirmTurn ==
    ASSUME NEW p \in Requests, Inv, Confirm(p)
    PROVE  TypeOK' /\ OthersStay(p) /\ Grows /\ Works(p)'
<1> DEFINE r == [request[p] EXCEPT !.step = "send", !.status = quote, !.before = {},
                                   !.said = FALSE, !.notes = replies \cap Thread(KindOf(p))]
<1>1. TypeOK /\ Works(p) /\ request[p] \in Request
  BY InvOfEach DEF TypeOK
<1>2. request[p].step = "asked" /\ Becomes(p, r)
  BY DEF Confirm, At
<1>3. replies \cap Thread(KindOf(p)) \subseteq Requests
  BY DEF Thread
<1>4. r \in Request
  BY <1>1, <1>3 DEF Request, TypeOK
<1>5. /\ r.letter = request[p].letter /\ r.step = "send" /\ r.before = {}
      /\ r.notes = replies \cap Thread(KindOf(p))
      /\ r.heard = request[p].heard /\ r.answer = request[p].answer
  BY <1>1 DEF Request
<1> HIDE DEF r
<1>6. /\ request' \in [Requests -> Request] /\ request'[p] = r
      /\ \A q \in Requests \ {p} : request'[q] = request[q]
  BY <1>1, <1>2, <1>4, OneTurn
<1>7. UNCHANGED <<arrived, replies, audits, quote, delivered, faults, lost>>
  BY DEF Confirm, stored
<1>8. TypeOK'
  BY <1>1, <1>5, <1>6, <1>7 DEF TypeOK
<1>9. r.letter \in Letters /\ r.answer = "none"
  BY <1>1, <1>2, <1>5 DEF Works, InOrderAt
<1>10. Works(p)'
  BY <1>2, <1>4, <1>5, <1>9, OnItsWay
<1> QED BY <1>6, <1>7, <1>8, <1>10 DEF OthersStay, Grows

LEMMA SendTurn ==
    ASSUME NEW p \in Requests, Inv, Send(p)
    PROVE  TypeOK' /\ OthersStay(p) /\ Grows /\ Works(p)'
<1>1. TypeOK /\ Works(p) /\ request[p] \in Request
  BY InvOfEach DEF TypeOK
<1>2. request[p].step = "send" /\ request[p].letter \in Letters /\ request[p].answer = "none"
  BY <1>1 DEF Send, At, Works, InOrderAt
<1>3. UNCHANGED <<replies, audits, delivered, quote, faults, lost>>
  BY DEF Send
<1>4. PICK outcome \in Outcomes :
        /\ arrived' = IF outcome[1] THEN arrived \cup {p} ELSE arrived
        /\ IF outcome[2] THEN Becomes(p, [request[p] EXCEPT !.step = Afterwards(p), !.heard = TRUE])
                         ELSE End(p, FALSE, "failed")
  BY DEF Send
<1>5. arrived \subseteq arrived' /\ arrived' \subseteq arrived \cup {p}
  BY <1>4
<1>6. Grows
  BY <1>3, <1>5 DEF Grows
<1>7. CASE outcome[2]
  <2> DEFINE r == [request[p] EXCEPT !.step = Afterwards(p), !.heard = TRUE]
  <2>1. Afterwards(p) \in {"note", "record", "audit"}
        /\ (Afterwards(p) = "note" => IsReply(p))
        /\ (Afterwards(p) = "record" => KindOf(p) = "quote")
        /\ (Afterwards(p) = "audit" => ~IsReply(p))
    BY DEF Afterwards
  <2>2. r \in Request /\ Becomes(p, r)
    BY <1>1, <1>4, <1>7, <2>1 DEF Request
  <2>3. /\ r.letter = request[p].letter /\ r.step = Afterwards(p) /\ r.before = request[p].before
        /\ r.notes = request[p].notes /\ r.heard = TRUE /\ r.answer = request[p].answer
    BY <1>1 DEF Request
  <2> HIDE DEF r
  <2>4. /\ request' \in [Requests -> Request] /\ request'[p] = r
        /\ \A q \in Requests \ {p} : request'[q] = request[q]
    BY <1>1, <2>2, OneTurn
  <2>5. p \in arrived'
    <3>1. outcome \in {<<TRUE, TRUE>>, <<TRUE, FALSE>>, <<FALSE, FALSE>>}
      BY DEF Outcomes
    <3>2. outcome = <<FALSE, FALSE>> => ~outcome[2]
      OBVIOUS
    <3>3. outcome = <<TRUE, TRUE>> => outcome[1]
      OBVIOUS
    <3>4. outcome = <<TRUE, FALSE>> => ~outcome[2]
      OBVIOUS
    <3>5. outcome[1]
      BY <1>7, <3>1, <3>2, <3>3, <3>4, Zenon
    <3> QED BY <1>4, <3>5
  <2>6. TypeOK'
    BY <1>1, <1>3, <1>5, <2>3, <2>4, <2>5 DEF TypeOK
  <2>7. Works(p)'
    BY <1>2, <2>1, <2>2, <2>3, OnItsWay
  <2> QED BY <1>6, <2>4, <2>6, <2>7 DEF OthersStay
<1>8. CASE ~outcome[2]
  <2>1. End(p, FALSE, "failed")
    BY <1>4, <1>8
  <2>2. PICK r \in Request :
          /\ Becomes(p, r)
          /\ r.letter = request[p].letter /\ r.step = "done" /\ r.notes = {}
          /\ r.heard = FALSE /\ r.before = {} /\ r.answer = "failed"
    BY <1>1, <2>1, OverRecord
  <2>3. /\ request' \in [Requests -> Request] /\ request'[p] = r
        /\ \A q \in Requests \ {p} : request'[q] = request[q]
    BY <1>1, <2>2, OneTurn
  <2>4. TypeOK'
    BY <1>1, <1>3, <1>5, <2>2, <2>3 DEF TypeOK
  <2>5. Works(p)'
    BY <1>1, <1>2, <2>2, OverWorks
  <2> QED BY <1>6, <2>3, <2>4, <2>5 DEF OthersStay
<1> QED BY <1>7, <1>8

LEMMA NoteTurn ==
    ASSUME NEW p \in Requests, Inv, Note(p)
    PROVE  TypeOK' /\ OthersStay(p) /\ Grows /\ Works(p)'
<1> DEFINE r == [request[p] EXCEPT !.step = "audit", !.notes = {}]
<1>1. TypeOK /\ Works(p) /\ request[p] \in Request
  BY InvOfEach DEF TypeOK
<1>2. /\ request[p].step = "note" /\ request[p].letter \in Letters
      /\ request[p].answer = "none" /\ request[p].heard /\ p \in arrived
  BY <1>1 DEF Note, At, Works, InOrderAt, TypeOK
<1>3. UNCHANGED <<arrived, audits, delivered, quote>> /\ Becomes(p, r)
  BY DEF Note
<1>4. r \in Request
  BY <1>1 DEF Request
<1>5. /\ r.letter = request[p].letter /\ r.step = "audit" /\ r.before = request[p].before
      /\ r.notes = {} /\ r.heard = request[p].heard /\ r.answer = request[p].answer
  BY <1>1 DEF Request
<1> HIDE DEF r
<1>6. /\ request' \in [Requests -> Request] /\ request'[p] = r
      /\ \A q \in Requests \ {p} : request'[q] = request[q]
  BY <1>1, <1>3, <1>4, OneTurn
<1>7. /\ replies \cup lost \subseteq replies' \cup lost' /\ p \in replies' \cup lost'
      /\ replies' \cup lost' \subseteq replies \cup lost \cup request[p].notes \cup {p}
      /\ faults' \in 0..MaxFaults
  <2>1. CASE /\ replies' = (replies \ Thread(KindOf(p))) \cup request[p].notes \cup {p}
             /\ lost' = lost \cup (replies \ replies')
             /\ UNCHANGED faults
    BY <1>1, <2>1 DEF TypeOK
  <2>2. CASE /\ WriteFails
             /\ lost' = lost \cup {p}
             /\ UNCHANGED replies
    BY <1>1, <2>2, OutboundAssumption DEF TypeOK, WriteFails
  <2> QED BY <2>1, <2>2 DEF Note
<1>8. TypeOK'
  BY <1>1, <1>2, <1>3, <1>5, <1>6, <1>7 DEF TypeOK
<1>9. Works(p)'
  BY <1>2, <1>3, <1>4, <1>5, <1>7, OnItsWay
<1> QED BY <1>3, <1>6, <1>7, <1>8, <1>9 DEF OthersStay, Grows

LEMMA RecordTurn ==
    ASSUME NEW p \in Requests, Inv, Record(p)
    PROVE  TypeOK' /\ OthersStay(p) /\ Grows /\ Works(p)'
<1>1. TypeOK /\ Works(p) /\ request[p] \in Request
  BY InvOfEach DEF TypeOK
<1>2. /\ request[p].step = "record" /\ request[p].letter \in Letters /\ KindOf(p) = "quote"
      /\ request[p].answer = "none" /\ request[p].heard /\ p \in arrived
  BY <1>1 DEF Record, At, Works, InOrderAt, TypeOK
<1>3. UNCHANGED <<arrived, replies, audits, lost>>
  BY DEF Record
<1>4. Grows
  BY <1>3 DEF Grows
<1>5. CASE /\ delivered' = delivered \cup {p}
           /\ quote' = IF request[p].status = "draft" THEN "sent" ELSE quote
           /\ Goto(p, "audit")
           /\ UNCHANGED faults
  <2> DEFINE r == [request[p] EXCEPT !.step = "audit"]
  <2>1. r \in Request /\ Becomes(p, r)
    BY <1>1, <1>5 DEF Request, Goto
  <2>2. /\ r.letter = request[p].letter /\ r.step = "audit" /\ r.before = request[p].before
        /\ r.notes = request[p].notes /\ r.heard = request[p].heard
        /\ r.answer = request[p].answer
    BY <1>1 DEF Request
  <2> HIDE DEF r
  <2>3. /\ request' \in [Requests -> Request] /\ request'[p] = r
        /\ \A q \in Requests \ {p} : request'[q] = request[q]
    BY <1>1, <2>1, OneTurn
  <2>4. quote' \in QuoteStatuses
    BY <1>1, <1>5 DEF TypeOK, QuoteStatuses
  <2>5. TypeOK'
    BY <1>1, <1>2, <1>3, <1>5, <2>2, <2>3, <2>4 DEF TypeOK
  <2>6. ~IsReply(p)
    BY <1>2 DEF IsReply
  <2>7. Works(p)'
    BY <1>2, <2>1, <2>2, <2>6, OnItsWay
  <2> QED BY <1>4, <2>3, <2>5, <2>7 DEF OthersStay
<1>6. CASE /\ WriteFails
           /\ End(p, TRUE, "failed")
           /\ UNCHANGED <<delivered, quote>>
  <2>1. PICK r \in Request :
          /\ Becomes(p, r)
          /\ r.letter = request[p].letter /\ r.step = "done" /\ r.notes = {}
          /\ r.heard = TRUE /\ r.before = {} /\ r.answer = "failed"
    BY <1>1, <1>6, OverRecord
  <2>2. /\ request' \in [Requests -> Request] /\ request'[p] = r
        /\ \A q \in Requests \ {p} : request'[q] = request[q]
    BY <1>1, <2>1, OneTurn
  <2>3. faults' \in 0..MaxFaults
    BY <1>1, <1>6, OutboundAssumption DEF TypeOK, WriteFails
  <2>4. TypeOK'
    BY <1>1, <1>2, <1>3, <1>6, <2>1, <2>2, <2>3 DEF TypeOK
  <2>5. Kind[r.letter] = "quote"
    BY <1>2, <2>1 DEF KindOf
  <2>6. Works(p)'
    BY <1>1, <1>2, <2>1, <2>5, OverWorks
  <2> QED BY <1>4, <2>2, <2>4, <2>6 DEF OthersStay
<1> QED BY <1>5, <1>6 DEF Record

LEMMA AuditTurn ==
    ASSUME NEW p \in Requests, Inv, Audit(p)
    PROVE  TypeOK' /\ OthersStay(p) /\ Grows /\ Works(p)'
<1>1. TypeOK /\ Works(p) /\ request[p] \in Request
  BY InvOfEach DEF TypeOK
<1>2. /\ request[p].step = "audit" /\ request[p].letter \in Letters
      /\ request[p].heard /\ p \in arrived /\ (IsReply(p) => p \in replies \cup lost)
  BY <1>1 DEF Audit, At, Works, InOrderAt, TracedAt, TypeOK
<1>3. UNCHANGED <<arrived, replies, delivered, quote, lost>>
  BY DEF Audit
<1>4. PICK answer \in {"sent", "failed"} :
        /\ End(p, TRUE, answer)
        /\ \/ audits' = audits \cup {p} /\ answer = "sent" /\ UNCHANGED faults
           \/ WriteFails /\ answer = Unaudited(p) /\ UNCHANGED audits
  BY DEF Audit, Unaudited
<1>5. PICK r \in Request :
        /\ Becomes(p, r)
        /\ r.letter = request[p].letter /\ r.step = "done" /\ r.notes = {}
        /\ r.heard = TRUE /\ r.before = {} /\ r.answer = answer
  <2>1. answer \in {"none", "sent", "failed"} /\ TRUE \in BOOLEAN
    OBVIOUS
  <2> QED BY <1>1, <1>4, <2>1, OverRecord
<1>6. /\ request' \in [Requests -> Request] /\ request'[p] = r
      /\ \A q \in Requests \ {p} : request'[q] = request[q]
  BY <1>1, <1>5, OneTurn
<1>7. /\ audits \subseteq audits' /\ audits' \subseteq audits \cup {p}
      /\ faults' \in 0..MaxFaults
  BY <1>1, <1>4, OutboundAssumption DEF TypeOK, WriteFails
<1>8. TypeOK'
  BY <1>1, <1>2, <1>3, <1>5, <1>6, <1>7 DEF TypeOK
<1>9. answer = "sent" => p \in audits' \/ (KindOf(p) = "email_reply" /\ p \in replies' \cup lost')
  BY <1>2, <1>3, <1>4 DEF Unaudited, IsReply
<1>10. answer = "failed" => KindOf(p) # "email_reply"
  BY <1>4 DEF Unaudited
<1>11. Works(p)'
  BY <1>1, <1>2, <1>3, <1>5, <1>9, <1>10, OverWorks DEF KindOf
<1> QED BY <1>3, <1>6, <1>7, <1>8, <1>11 DEF OthersStay, Grows

LEMMA DieTurn ==
    ASSUME NEW p \in Requests, Inv, Die(p)
    PROVE  TypeOK' /\ OthersStay(p) /\ Grows /\ Works(p)'
<1>1. TypeOK /\ Works(p) /\ request[p] \in Request
  BY InvOfEach DEF TypeOK
<1>2. /\ request[p].step \notin {"idle", "done"} /\ request[p].letter \in Letters
      /\ request[p].heard \in BOOLEAN /\ (request[p].heard => p \in arrived)
  BY <1>1 DEF Die, Works, InOrderAt, TypeOK, Request
<1>3. UNCHANGED <<arrived, replies, audits, delivered, quote, faults, lost>>
  BY DEF Die, stored
<1>4. PICK heard \in BOOLEAN : heard = request[p].heard
  BY <1>2
<1>5. End(p, heard, "none")
  BY <1>4 DEF Die
<1>6. PICK r \in Request :
        /\ Becomes(p, r)
        /\ r.letter = request[p].letter /\ r.step = "done" /\ r.notes = {}
        /\ r.heard = heard /\ r.before = {} /\ r.answer = "none"
  BY <1>1, <1>5, OverRecord
<1>7. /\ request' \in [Requests -> Request] /\ request'[p] = r
      /\ \A q \in Requests \ {p} : request'[q] = request[q]
  BY <1>1, <1>6, OneTurn
<1>8. TypeOK'
  BY <1>1, <1>2, <1>3, <1>4, <1>6, <1>7 DEF TypeOK
<1>9. Works(p)'
  BY <1>1, <1>2, <1>6, OverWorks
<1> QED BY <1>3, <1>7, <1>8, <1>9 DEF OthersStay, Grows

-----------------------------------------------------------------------------
(* The whole. *)

LEMMA InvIsKept ==
    ASSUME Inv, [Next]_vars
    PROVE  Inv'
<1>1. ASSUME NEW p \in Requests, request[p].step # "done",
             TypeOK', OthersStay(p), Grows, Works(p)'
      PROVE  Inv'
  <2>1. ASSUME NEW q \in Requests PROVE Works(q)'
    <3>1. CASE q = p
      BY <1>1, <3>1
    <3>2. CASE q # p
      BY <1>1, <3>2, TheOthers
    <3> QED BY <3>1, <3>2
  <2> QED BY <1>1, <2>1 DEF Inv, InOrder, Traced, SeenBefore, ToldAsHeard, RepeatIsSaid, Works,
               InOrderAt, TracedAt, SeenBeforeAt, ToldAsHeardAt, RepeatIsSaidAt
<1>2. ASSUME NEW p \in Requests, NEW l \in Letters, Review(p, l) PROVE Inv'
  BY <1>1, <1>2, ReviewTurn DEF Review, At
<1>3. ASSUME NEW p \in Requests, Ask(p) PROVE Inv'
  BY <1>1, <1>3, AskTurn DEF Ask, At
<1>4. ASSUME NEW p \in Requests, Confirm(p) PROVE Inv'
  BY <1>1, <1>4, ConfirmTurn DEF Confirm, At
<1>5. ASSUME NEW p \in Requests, Send(p) PROVE Inv'
  BY <1>1, <1>5, SendTurn DEF Send, At
<1>6. ASSUME NEW p \in Requests, Note(p) PROVE Inv'
  BY <1>1, <1>6, NoteTurn DEF Note, At
<1>7. ASSUME NEW p \in Requests, Record(p) PROVE Inv'
  BY <1>1, <1>7, RecordTurn DEF Record, At
<1>8. ASSUME NEW p \in Requests, Audit(p) PROVE Inv'
  BY <1>1, <1>8, AuditTurn DEF Audit, At
<1>9. ASSUME NEW p \in Requests, Die(p) PROVE Inv'
  BY <1>1, <1>9, DieTurn DEF Die
<1>10. ASSUME NEW status \in QuoteStatuses, ChangeQuote(status) PROVE Inv'
  <2>1. UNCHANGED <<arrived, replies, audits, delivered, request, faults, lost>> /\ quote' = status
    BY <1>10 DEF ChangeQuote
  <2>2. TypeOK'
    BY <2>1, <1>10 DEF Inv, TypeOK
  <2>3. InOrder' /\ Traced' /\ SeenBefore' /\ ToldAsHeard' /\ RepeatIsSaid'
    BY <2>1 DEF Inv, InOrder, Traced, SeenBefore, ToldAsHeard, RepeatIsSaid,
                At, IsReply, KindOf, Same
  <2> QED BY <2>2, <2>3 DEF Inv
<1>11. CASE UNCHANGED vars
  BY <1>11 DEF Inv, TypeOK, InOrder, Traced, SeenBefore, ToldAsHeard, RepeatIsSaid,
               At, IsReply, KindOf, Same, vars
<1> QED BY <1>2, <1>3, <1>4, <1>5, <1>6, <1>7, <1>8, <1>9, <1>10, <1>11 DEF Next, Step

LEMMA InvAlways == Spec => []Inv
BY InitInv, InvIsKept, PTL DEF Spec

\* What has been noted, recorded or audited has left the company, however the calls
\* interleave, their writes fail and the server dies (gmailConnectorService.ts,
\* whatsappBusinessConnectorService.ts, documentDeliveryService.ts).
THEOREM LettersHaveLeft == Spec => []TypeOK
BY InvAlways, PTL DEF Inv

\* sendGmailReply and its like: what is told as sent has arrived, and a reply to an
\* email that the provider acknowledged is never told as failed, for any number of
\* requests and any number of failed notes and audits.
THEOREM SentIsSent == Spec => []ToldAsHeard
BY InvAlways, PTL DEF Inv

\* recentReplyOrAudited: a review that begins after the same letter was told as sent
\* says so, unless neither a note nor an audit of it is left.
THEOREM RepeatsAreSaid == Spec => []RepeatIsSaid
BY InvAlways, PTL DEF Inv

-----------------------------------------------------------------------------
(***************************************************************************)
(* What is copied: the inbox and the syncs of MailMirror.                  *)
(***************************************************************************)

(* The inductive invariant of the mirror. *)

Entry == [message : Messages, kind : {"added", "out", "in"}]
Source == [cursor : Positions \cup {Nothing}, page : Positions \cup {Nothing},
           due : BOOLEAN, syncing : BOOLEAN]
Sync == [step : {"idle", "history", "profile", "remove", "import", "create", "save"},
         full : BOOLEAN, from : Positions \cup {Nothing}, upto : Positions \cup {Nothing},
         more : BOOLEAN, removed : SUBSET Messages, visit : SUBSET Messages,
         remote : SUBSET Messages, wanted : SUBSET Messages,
         message : Messages \cup {Nothing}, alone : BOOLEAN]

MirrorTypes ==
    /\ place \in [Messages -> {"nowhere", "inbox", "elsewhere"}]
    /\ log \in Seq(Entry)
    /\ floor \in Positions /\ failures \in 0..MaxFailures
    /\ held \subseteq Messages /\ doubtful \subseteq Messages
    /\ source \in Source
    /\ source.cursor = Nothing => source.page = Nothing
    /\ sync \in [Workers -> Sync]

\* The message changed after the position p of the history.
Changed(m, p) == \E i \in p + 1..Len(log) : log[i].message = m

\* Gmail: the last change of a message says where it is, and it arrives only once.
LastChange(m, l) ==
    /\ l \in 1..Len(log) /\ log[l].message = m
    /\ \A j \in l + 1..Len(log) : log[j].message # m
HistoryTells(m) ==
    /\ place[m] = "nowhere" => ~Changed(m, 0)
    /\ Changed(m, 0) => \E l \in 1..Len(log) :
         LastChange(m, l) /\ (place[m] = "inbox" <=> log[l].kind # "out")
    /\ \A i, j \in 1..Len(log) :
         log[i].message = m /\ log[j].message = m /\ log[j].kind = "added" => j <= i

\* About what a sync knows, s.  It has what its step needs, and follows the history only
\* from a cursor.
Prepared(s) ==
    /\ s.step \in {"profile", "save"} => s.full
    /\ s.step \in {"history", "remove"} => ~s.full
    /\ s.step = "history" => s.from \in Positions
    /\ s.step \in {"remove", "import", "create", "save"} => s.upto \in Positions
    /\ s.step = "create" => s.message \in Messages
    /\ s.step # "idle" /\ ~s.full => source.cursor # Nothing /\ s.visit = {}
    /\ s.step \in {"history", "profile"} => s.remote = {} /\ s.wanted = {}
    /\ s.full => s.wanted \subseteq s.remote
    /\ s.remote \cap s.visit = {}

\* Every message is in doubt while syncs run beside each other.
AloneOrInDoubt(w) ==
    sync[w].step # "idle" => IF sync[w].alone THEN Active = {w} ELSE doubtful = Messages

Creates(s, m) == s.step = "create" /\ s.message = m

\* A full sync that runs alone has listed what was in the inbox, and has or wants a copy of
\* it, of all that has not changed since it began.
ListsAll(s) ==
    s.alone /\ s.full =>
        /\ s.step \in {"import", "create", "save"} /\ source.cursor # Nothing => Reached <= s.upto
        /\ s.step \in {"import", "create"} =>
             \A m \in Messages \ s.visit :
                 ~Changed(m, s.upto) =>
                     /\ m \in s.remote <=> place[m] = "inbox"
                     /\ m \in s.remote => m \in held \cup s.wanted \/ Creates(s, m)
        /\ s.step = "save" => \A m \in Messages : ~Changed(m, s.upto) => Mirrored(m)

\* One that follows the history has, or will have, brought all up to the end of its page.
Follows(s) ==
    s.alone /\ ~s.full =>
        /\ s.step = "history" => s.from = Reached
        /\ s.step = "remove" =>
             \A m \in Messages \ doubtful :
                 /\ m \in s.removed => Changed(m, Reached) /\ m \notin s.wanted
                 /\ ~Changed(m, s.upto) =>
                      IF m \in s.removed THEN place[m] # "inbox"
                      ELSE IF m \in s.wanted THEN place[m] = "inbox"
                      ELSE Mirrored(m)
        /\ s.step \in {"import", "create"} =>
             \A m \in Messages \ doubtful :
                 ~Changed(m, s.upto) =>
                     IF m \in s.wanted \/ Creates(s, m) THEN place[m] = "inbox" ELSE Mirrored(m)

\* A copy about to be created is of a message that has changed.
CreatesTheNew(s) ==
    s.alone /\ s.step = "create" /\ s.message \notin doubtful /\ source.cursor # Nothing =>
        Changed(s.message, Reached)

\* What has not changed since the position reached is mirrored, also while a sync goes on.
BroughtUp ==
    source.cursor # Nothing =>
        \A m \in Messages \ doubtful : ~Changed(m, Reached) => Mirrored(m)

Sound(s) == Prepared(s) /\ ListsAll(s) /\ Follows(s) /\ CreatesTheNew(s)

MirrorInv ==
    /\ MirrorTypes
    /\ \A m \in Messages : HistoryTells(m)
    /\ \A w \in Workers : Sound(sync[w]) /\ AloneOrInDoubt(w)
    /\ BroughtUp

-----------------------------------------------------------------------------
(* The beginning. *)

LEMMA MirrorInvInit == MirrorInit => MirrorInv
<1> SUFFICES ASSUME MirrorInit PROVE MirrorInv
  OBVIOUS
<1>1. log = <<>> /\ Len(log) = 0 /\ Positions = {0} /\ log \in Seq(Entry)
  BY DEF MirrorInit, Positions
<1>2. IdleSync \in Sync
  BY DEF IdleSync, Sync
<1>3. MirrorTypes
  BY <1>1, <1>2, MailMirrorAssumption DEF MirrorInit, MirrorTypes, Source
<1>4. \A m \in Messages : HistoryTells(m)
  BY <1>1 DEF HistoryTells, Changed
<1>5. \A w \in Workers : sync[w] = IdleSync
  BY DEF MirrorInit
<1>6. Sound(IdleSync)
  BY DEF IdleSync, Sound, Prepared, ListsAll, Follows, CreatesTheNew
<1>7. \A w \in Workers : AloneOrInDoubt(w)
  BY <1>5 DEF IdleSync, AloneOrInDoubt
<1>8. BroughtUp
  BY DEF MirrorInit, BroughtUp
<1> QED BY <1>3, <1>4, <1>5, <1>6, <1>7, <1>8 DEF MirrorInv

-----------------------------------------------------------------------------
(* The steps of a sync under way. *)

\* What the invariant says of one sync.
LEMMA MirrorParts ==
    ASSUME MirrorInv, NEW w \in Workers
    PROVE  /\ MirrorTypes /\ BroughtUp /\ sync[w] \in Sync
           /\ Prepared(sync[w]) /\ ListsAll(sync[w]) /\ Follows(sync[w]) /\ CreatesTheNew(sync[w])
           /\ AloneOrInDoubt(w)
BY DEF MirrorInv, MirrorTypes, Sound

\* A sync that does not run alone, or does not run, has nothing to show.
LEMMA NothingToShow ==
    ASSUME NEW s \in Sync, s.step = "idle" \/ ~s.alone
    PROVE  ListsAll(s)' /\ Follows(s)' /\ CreatesTheNew(s)'
BY DEF ListsAll, Follows, CreatesTheNew

\* A sync goes on.  While it runs alone, nobody else does; otherwise all is in doubt.
LEMMA SyncTurn ==
    ASSUME NEW w \in Workers, NEW s \in Sync, MirrorInv, SyncBecomes(w, s),
           ~SyncAt(w, "idle"), s.step # "idle", s.alone = sync[w].alone,
           UNCHANGED <<place, log, floor, source, failures>>,
           held' \subseteq Messages, doubtful \subseteq doubtful', doubtful' \subseteq Messages,
           Prepared(s), ListsAll(s)', Follows(s)', CreatesTheNew(s)', BroughtUp'
    PROVE  MirrorInv'
<1>1. MirrorTypes
  BY MirrorParts
<1>2. sync' \in [Workers -> Sync] /\ sync'[w] = s /\ \A v \in Workers \ {w} : sync'[v] = sync[v]
  BY <1>1 DEF MirrorTypes, SyncBecomes
<1>3. MirrorTypes'
  BY <1>1, <1>2 DEF MirrorTypes, Positions, Source, Sync
<1>4. \A m \in Messages : HistoryTells(m)'
  BY DEF MirrorInv, HistoryTells, LastChange, Changed
<1>5. Active' = Active /\ w \in Active
  BY <1>2 DEF Active, SyncAt
<1>6. ASSUME NEW v \in Workers PROVE AloneOrInDoubt(v)'
  <2>1. AloneOrInDoubt(v)
    BY MirrorParts
  <2>2. sync'[v].alone = sync[v].alone /\ (sync'[v].step = "idle" <=> sync[v].step = "idle")
    BY <1>2 DEF SyncAt
  <2> QED BY <1>5, <2>1, <2>2 DEF AloneOrInDoubt
<1>7. ASSUME NEW v \in Workers \ {w} PROVE Sound(sync[v])'
  <2>1. sync'[v] = sync[v] /\ sync[v] \in Sync /\ Prepared(sync[v]) /\ AloneOrInDoubt(v)
    BY <1>2, MirrorParts
  <2>2. sync[v].step = "idle" \/ ~sync[v].alone
    BY <1>5, <2>1 DEF AloneOrInDoubt
  <2>3. Prepared(sync[v])'
    BY <2>1 DEF Prepared, Positions
  <2>4. ListsAll(sync[v])' /\ Follows(sync[v])' /\ CreatesTheNew(sync[v])'
    BY <2>1, <2>2 DEF ListsAll, Follows, CreatesTheNew
  <2> QED BY <2>3, <2>4 DEF Sound
<1>8. Sound(sync[w])'
  <2>1. Prepared(s)'
    BY DEF Prepared, Positions
  <2> QED BY <1>2, <2>1 DEF Sound, Prepared, ListsAll, Follows, CreatesTheNew
<1> QED BY <1>3, <1>4, <1>6, <1>7, <1>8 DEF MirrorInv

\* The copies removed have left since the position reached.
LEMMA TakeAwayTurn ==
    ASSUME NEW w \in Workers, MirrorInv, TakeAway(w)
    PROVE  MirrorInv'
<1>1. /\ MirrorTypes /\ BroughtUp /\ sync[w] \in Sync /\ sync[w].step = "remove"
      /\ Prepared(sync[w]) /\ Follows(sync[w]) /\ AloneOrInDoubt(w)
  BY MirrorParts DEF TakeAway, SyncAt
<1>2. PICK s \in Sync :
        /\ SyncBecomes(w, s) /\ s.step = "import" /\ s.full = sync[w].full /\ s.alone = sync[w].alone
        /\ s.upto = sync[w].upto /\ s.wanted = sync[w].wanted /\ s.visit = sync[w].visit
        /\ s.remote = sync[w].remote
  <2> DEFINE s == [sync[w] EXCEPT !.step = "import", !.removed = {}]
  <2>1. s \in Sync
    BY <1>1 DEF Sync
  <2>2. /\ s.step = "import" /\ s.full = sync[w].full /\ s.alone = sync[w].alone
        /\ s.upto = sync[w].upto /\ s.wanted = sync[w].wanted /\ s.visit = sync[w].visit
        /\ s.remote = sync[w].remote
    BY <1>1 DEF Sync
  <2> QED BY <2>1, <2>2 DEF TakeAway
<1>3. /\ UNCHANGED <<place, log, floor, source, failures, doubtful>>
      /\ held' = held \ sync[w].removed /\ held' \subseteq Messages
  BY <1>1 DEF TakeAway, mailbox, MirrorTypes
<1>4. Prepared(s)
  BY <1>1, <1>2 DEF Prepared
<1>5. ~s.full /\ s.step = "import"
  BY <1>1, <1>2 DEF Prepared
<1>6. ListsAll(s)' /\ CreatesTheNew(s)'
  BY <1>5 DEF ListsAll, CreatesTheNew
<1>7. Follows(s)'
  BY <1>1, <1>2, <1>3, <1>5 DEF Follows, Changed, Mirrored, Reached, Creates
<1>8. BroughtUp'
  <2>1. CASE s.alone
    BY <1>1, <1>2, <1>3, <1>5, <2>1 DEF Follows, BroughtUp, Changed, Mirrored, Reached
  <2>2. CASE ~s.alone
    BY <1>1, <1>2, <1>3, <2>2 DEF AloneOrInDoubt, BroughtUp
  <2> QED BY <2>1, <2>2
<1> QED BY <1>1, <1>2, <1>3, <1>4, <1>5, <1>6, <1>7, <1>8, SyncTurn DEF SyncAt, MirrorTypes

\* The position is read first, so that nothing listed is older.
LEMMA ProfileTurn ==
    ASSUME NEW w \in Workers, MirrorInv, Profile(w)
    PROVE  MirrorInv'
<1>1. /\ MirrorTypes /\ BroughtUp /\ sync[w] \in Sync /\ sync[w].step = "profile"
      /\ Prepared(sync[w]) /\ Len(log) \in Positions
  <2>1. Len(log) \in Positions
    BY MirrorParts DEF MirrorTypes, Positions
  <2> QED BY <2>1, MirrorParts DEF Profile, SyncAt
<1>2. PICK s \in Sync :
        /\ SyncBecomes(w, s) /\ s.step = "import" /\ s.full = sync[w].full /\ s.alone = sync[w].alone
        /\ s.upto = Len(log) /\ s.visit = Messages
        /\ s.wanted = sync[w].wanted /\ s.remote = sync[w].remote
  <2> DEFINE s == [sync[w] EXCEPT !.step = "import", !.upto = Len(log), !.visit = Messages]
  <2>1. s \in Sync
    BY <1>1 DEF Sync
  <2>2. /\ s.step = "import" /\ s.full = sync[w].full /\ s.alone = sync[w].alone
        /\ s.upto = Len(log) /\ s.visit = Messages
        /\ s.wanted = sync[w].wanted /\ s.remote = sync[w].remote
    BY <1>1 DEF Sync
  <2> QED BY <2>1, <2>2 DEF Profile
<1>3. UNCHANGED <<place, log, floor, source, failures, doubtful, held>>
  BY DEF Profile, mailbox
<1>4. Prepared(s) /\ s.full
  BY <1>1, <1>2 DEF Prepared
<1>5. Follows(s)' /\ CreatesTheNew(s)'
  BY <1>2, <1>4 DEF Follows, CreatesTheNew
<1>6. ListsAll(s)'
  <2>1. source.cursor # Nothing => Reached \in Positions
    BY <1>1 DEF MirrorTypes, Source, Reached
  <2> QED BY <1>2, <1>3, <2>1 DEF ListsAll, Reached, Positions
<1>7. BroughtUp'
  BY <1>1, <1>3 DEF BroughtUp, Changed, Mirrored, Reached
<1> QED BY <1>1, <1>2, <1>3, <1>4, <1>5, <1>6, <1>7, SyncTurn DEF SyncAt, MirrorTypes

LEMMA ListTurn ==
    ASSUME NEW w \in Workers, NEW m \in Messages, MirrorInv, List(w, m)
    PROVE  MirrorInv'
<1>1. /\ MirrorTypes /\ BroughtUp /\ sync[w] \in Sync /\ sync[w].step = "import"
      /\ m \in sync[w].visit /\ Prepared(sync[w]) /\ ListsAll(sync[w])
  BY MirrorParts DEF List, SyncAt
<1>2. PICK found \in SUBSET Messages : found = IF place[m] = "inbox" THEN {m} ELSE {}
  OBVIOUS
<1>3. PICK s \in Sync :
        /\ SyncBecomes(w, s) /\ s.step = "import" /\ s.full = sync[w].full /\ s.alone = sync[w].alone
        /\ s.upto = sync[w].upto /\ s.visit = sync[w].visit \ {m}
        /\ s.remote = sync[w].remote \cup found /\ s.wanted = sync[w].wanted \cup found
  <2> DEFINE s == [sync[w] EXCEPT !.visit = @ \ {m}, !.remote = @ \cup found, !.wanted = @ \cup found]
  <2>1. s \in Sync
    BY <1>1 DEF Sync
  <2>2. /\ s.step = "import" /\ s.full = sync[w].full /\ s.alone = sync[w].alone
        /\ s.upto = sync[w].upto /\ s.visit = sync[w].visit \ {m}
        /\ s.remote = sync[w].remote \cup found /\ s.wanted = sync[w].wanted \cup found
    BY <1>1 DEF Sync
  <2>3. SyncBecomes(w, s)
    BY <1>2 DEF List
  <2> QED BY <2>1, <2>2, <2>3
<1>4. UNCHANGED <<place, log, floor, source, failures, doubtful, held>>
  BY DEF List, mailbox
<1>5. Prepared(s) /\ s.full
  <2>1. found \subseteq {m}
    BY <1>2
  <2> QED BY <1>1, <1>3, <2>1 DEF Prepared
<1>6. Follows(s)' /\ CreatesTheNew(s)'
  BY <1>3, <1>5 DEF Follows, CreatesTheNew
<1>7. ListsAll(s)'
  <2>1. (m \in found <=> place[m] = "inbox") /\ \A x \in Messages \ {m} : x \notin found
    BY <1>2
  <2>2. source.cursor # Nothing /\ s.alone => Reached <= sync[w].upto
    BY <1>1, <1>3, <1>5 DEF ListsAll
  <2>3. ASSUME NEW x \in Messages \ s.visit, s.alone, ~Changed(x, sync[w].upto)
        PROVE  (x \in s.remote <=> place[x] = "inbox") /\ (x \in s.remote => x \in held \cup s.wanted)
    <3>1. CASE x = m
      BY <1>1, <1>3, <1>5, <2>1, <3>1 DEF Prepared
    <3>2. CASE x # m
      BY <1>1, <1>3, <1>5, <2>1, <2>3, <3>2 DEF ListsAll, Creates
    <3> QED BY <3>1, <3>2
  <2> QED BY <1>3, <1>4, <2>2, <2>3 DEF ListsAll, Reached, Changed
<1>8. BroughtUp'
  BY <1>1, <1>4 DEF BroughtUp, Changed, Mirrored, Reached
<1> QED BY <1>1, <1>3, <1>4, <1>5, <1>6, <1>7, <1>8, SyncTurn DEF SyncAt, MirrorTypes

\* What the listing did not find was not in the inbox then.
LEMMA PruneTurn ==
    ASSUME NEW w \in Workers, MirrorInv, Prune(w)
    PROVE  MirrorInv'
<1>1. /\ MirrorTypes /\ BroughtUp /\ sync[w] \in Sync /\ sync[w].step = "import" /\ sync[w].full
      /\ sync[w].visit = {} /\ sync[w].wanted = {} /\ Prepared(sync[w]) /\ ListsAll(sync[w])
      /\ AloneOrInDoubt(w)
  BY MirrorParts DEF Prune, SyncAt
<1>2. PICK s \in Sync :
        /\ SyncBecomes(w, s) /\ s.step = "save" /\ s.full /\ s.alone = sync[w].alone
        /\ s.upto = sync[w].upto /\ s.wanted = {} /\ s.remote = {} /\ s.visit = {}
  <2> DEFINE s == [sync[w] EXCEPT !.step = "save", !.remote = {}]
  <2>1. s \in Sync
    BY <1>1 DEF Sync
  <2>2. /\ s.step = "save" /\ s.full /\ s.alone = sync[w].alone
        /\ s.upto = sync[w].upto /\ s.wanted = {} /\ s.remote = {} /\ s.visit = {}
    BY <1>1 DEF Sync
  <2> QED BY <2>1, <2>2 DEF Prune
<1>3. /\ UNCHANGED <<place, log, floor, source, failures, doubtful>>
      /\ held' = held \cap sync[w].remote /\ held' \subseteq Messages
  BY <1>1 DEF Prune, mailbox, MirrorTypes
<1>4. Prepared(s)
  BY <1>1, <1>2 DEF Prepared
<1>5. Follows(s)' /\ CreatesTheNew(s)'
  BY <1>2 DEF Follows, CreatesTheNew
<1>6. sync[w].alone => \A m \in Messages : ~Changed(m, sync[w].upto) =>
        (m \in sync[w].remote <=> place[m] = "inbox") /\ (m \in sync[w].remote => m \in held)
  BY <1>1 DEF ListsAll, Creates
<1>7. ListsAll(s)'
  BY <1>1, <1>2, <1>3, <1>6 DEF ListsAll, Reached, Changed, Mirrored
<1>8. BroughtUp'
  <2>1. CASE s.alone /\ source.cursor # Nothing
    <3>1. Reached <= sync[w].upto
      BY <1>1, <1>2, <2>1 DEF ListsAll
    <3>2. Reached \in Positions /\ sync[w].upto \in Positions /\ Len(log) \in Nat
      BY <1>1, <2>1 DEF MirrorTypes, Source, Reached, Prepared
    <3>3. \A m \in Messages : Changed(m, sync[w].upto) => Changed(m, Reached)
      BY <3>1, <3>2 DEF Changed, Positions
    <3> QED BY <1>1, <1>2, <1>3, <1>6, <2>1, <3>3 DEF BroughtUp, Changed, Mirrored, Reached
  <2>2. CASE ~s.alone
    BY <1>1, <1>2, <1>3, <2>2 DEF AloneOrInDoubt, BroughtUp
  <2>3. CASE source.cursor = Nothing
    BY <1>3, <2>3 DEF BroughtUp
  <2> QED BY <2>1, <2>2, <2>3
<1> QED BY <1>1, <1>2, <1>3, <1>4, <1>5, <1>7, <1>8, SyncTurn DEF SyncAt, MirrorTypes

\* Only what is in the inbox now, and has no copy yet, gets one.
LEMMA FetchTurn ==
    ASSUME NEW w \in Workers, NEW m \in Messages, MirrorInv, Fetch(w, m)
    PROVE  MirrorInv'
<1>1. /\ MirrorTypes /\ BroughtUp /\ sync[w] \in Sync /\ sync[w].step = "import" /\ m \in sync[w].wanted
      /\ Prepared(sync[w]) /\ ListsAll(sync[w]) /\ Follows(sync[w])
  BY MirrorParts DEF Fetch, SyncAt
<1>2. UNCHANGED <<place, log, floor, source, failures, doubtful, held>>
  BY DEF Fetch, mailbox
<1>3. PICK s \in Sync :
        /\ SyncBecomes(w, s) /\ s.full = sync[w].full /\ s.alone = sync[w].alone
        /\ s.upto = sync[w].upto /\ s.visit = sync[w].visit
        /\ s.remote = sync[w].remote /\ s.wanted = sync[w].wanted \ {m}
        /\ IF m \notin held /\ place[m] = "inbox" THEN s.step = "create" /\ s.message = m
           ELSE s.step = "import"
  <2>1. CASE m \notin held /\ place[m] = "inbox"
    <3> DEFINE s == [sync[w] EXCEPT !.step = "create", !.message = m, !.wanted = @ \ {m}]
    <3>1. s \in Sync
      BY <1>1 DEF Sync
    <3>2. /\ s.full = sync[w].full /\ s.alone = sync[w].alone
          /\ s.upto = sync[w].upto /\ s.visit = sync[w].visit
          /\ s.remote = sync[w].remote /\ s.wanted = sync[w].wanted \ {m}
          /\ s.step = "create" /\ s.message = m
      BY <1>1 DEF Sync
    <3>3. SyncBecomes(w, s)
      BY <2>1 DEF Fetch
    <3> HIDE DEF s
    <3> QED BY <2>1, <3>1, <3>2, <3>3
  <2>2. CASE ~(m \notin held /\ place[m] = "inbox")
    <3> DEFINE s == [sync[w] EXCEPT !.wanted = @ \ {m}]
    <3>1. s \in Sync
      BY <1>1 DEF Sync
    <3>2. /\ s.full = sync[w].full /\ s.alone = sync[w].alone
          /\ s.upto = sync[w].upto /\ s.visit = sync[w].visit
          /\ s.remote = sync[w].remote /\ s.wanted = sync[w].wanted \ {m}
          /\ s.step = "import"
      BY <1>1 DEF Sync
    <3>3. SyncBecomes(w, s)
      BY <2>2 DEF Fetch
    <3> HIDE DEF s
    <3> QED BY <2>2, <3>1, <3>2, <3>3
  <2> QED BY <2>1, <2>2
<1>4. Prepared(s) /\ s.step \in {"import", "create"}
  BY <1>1, <1>3 DEF Prepared
<1>5. ListsAll(s)'
  BY <1>1, <1>2, <1>3, <1>4 DEF ListsAll, Reached, Changed, Creates, Mirrored, Prepared
<1>6. Follows(s)'
  BY <1>1, <1>2, <1>3, <1>4 DEF Follows, Reached, Changed, Creates, Mirrored, Prepared
<1>7. CreatesTheNew(s)'
  BY <1>1, <1>2, <1>3 DEF CreatesTheNew, BroughtUp, Changed, Mirrored, Reached
<1>8. BroughtUp'
  BY <1>1, <1>2 DEF BroughtUp, Changed, Mirrored, Reached
<1> QED BY <1>1, <1>2, <1>3, <1>4, <1>5, <1>6, <1>7, <1>8, SyncTurn DEF SyncAt, MirrorTypes

LEMMA CreateTurn ==
    ASSUME NEW w \in Workers, MirrorInv, Create(w)
    PROVE  MirrorInv'
<1>1. /\ MirrorTypes /\ BroughtUp /\ sync[w] \in Sync /\ sync[w].step = "create"
      /\ Prepared(sync[w]) /\ ListsAll(sync[w]) /\ Follows(sync[w]) /\ CreatesTheNew(sync[w])
      /\ AloneOrInDoubt(w)
  BY MirrorParts DEF Create, SyncAt
<1>2. PICK s \in Sync :
        /\ SyncBecomes(w, s) /\ s.step = "import" /\ s.full = sync[w].full /\ s.alone = sync[w].alone
        /\ s.upto = sync[w].upto /\ s.wanted = sync[w].wanted /\ s.visit = sync[w].visit
        /\ s.remote = sync[w].remote
  <2> DEFINE s == [sync[w] EXCEPT !.step = "import", !.message = Nothing]
  <2>1. s \in Sync
    BY <1>1 DEF Sync
  <2>2. /\ s.step = "import" /\ s.full = sync[w].full /\ s.alone = sync[w].alone
        /\ s.upto = sync[w].upto /\ s.wanted = sync[w].wanted /\ s.visit = sync[w].visit
        /\ s.remote = sync[w].remote
    BY <1>1 DEF Sync
  <2> QED BY <2>1, <2>2 DEF Create
<1>3. PICK m \in Messages : m = sync[w].message
  BY <1>1 DEF Prepared
<1>4. /\ UNCHANGED <<place, log, floor, source, failures, doubtful>>
      /\ held' = held \cup {m} /\ held' \subseteq Messages
  BY <1>1, <1>3 DEF Create, mailbox, MirrorTypes
<1>5. Prepared(s)
  BY <1>1, <1>2 DEF Prepared
<1>6. ListsAll(s)'
  BY <1>1, <1>2, <1>3, <1>4 DEF ListsAll, Reached, Changed, Creates, Mirrored
<1>7. Follows(s)'
  BY <1>1, <1>2, <1>3, <1>4 DEF Follows, Reached, Changed, Creates, Mirrored
<1>8. CreatesTheNew(s)'
  BY <1>2 DEF CreatesTheNew
<1>9. BroughtUp'
  <2>1. CASE s.alone
    BY <1>1, <1>2, <1>3, <1>4, <2>1 DEF CreatesTheNew, BroughtUp, Changed, Mirrored, Reached
  <2>2. CASE ~s.alone
    BY <1>1, <1>2, <1>4, <2>2 DEF AloneOrInDoubt, BroughtUp
  <2> QED BY <2>1, <2>2
<1> QED BY <1>1, <1>2, <1>4, <1>5, <1>6, <1>7, <1>8, <1>9, SyncTurn DEF SyncAt, MirrorTypes

-----------------------------------------------------------------------------
(* A page of the history. *)

\* What a page from one position to another says.
PageSays(p, upto, batch) ==
    /\ \A m \in Messages :
         m \in Leaving(batch) <=>
           \E i \in p + 1..upto : log[i].message = m /\ log[i].kind = "out"
    /\ \A m \in Messages :
         m \in Coming(batch) <=>
           m \notin Leaving(batch) /\ \E i \in p + 1..upto : log[i].message = m
    /\ \A m \in Messages : \A i, j \in p + 1..upto :
         /\ i < j /\ log[i].message = m /\ log[i].kind = "out"
         /\ log[j].message = m /\ log[j].kind = "in"
         => m \in Bounced(batch)
    /\ Leaving(batch) \subseteq Messages /\ Coming(batch) \subseteq Messages

LEMMA PageTells ==
    ASSUME log \in Seq(Entry), NEW p \in Positions, NEW upto \in p..Len(log), NEW batch,
           batch = SubSeq(log, p + 1, upto)
    PROVE  PageSays(p, upto, batch)
<1>1. /\ p \in Nat /\ upto \in Nat /\ p <= upto /\ upto <= Len(log) /\ Len(log) \in Nat
      /\ \A i \in 1..Len(log) : log[i] \in Entry
  BY DEF Positions
<1>2. /\ batch \in Seq(Entry) /\ Len(batch) = upto - p
      /\ \A i \in 1..upto - p : batch[i] = log[p + i]
  <2>1. \A i \in p + 1..upto : log[i] \in Entry
    BY <1>1
  <2>2. /\ batch \in Seq(Entry)
        /\ Len(batch) = IF p + 1 <= upto THEN upto - (p + 1) + 1 ELSE 0
        /\ \A i \in 1..upto - (p + 1) + 1 : batch[i] = log[p + 1 + i - 1]
    BY <1>1, <2>1, SubSeqProperties
  <2> QED BY <1>1, <2>2
<1>3. DOMAIN batch = 1..upto - p
  BY <1>1, <1>2
<1>4. ASSUME NEW e PROVE e \in ToSet(batch) <=> \E i \in p + 1..upto : e = log[i]
  <2>1. e \in ToSet(batch) <=> \E i \in 1..upto - p : e = batch[i]
    BY <1>3 DEF ToSet
  <2>2. ASSUME NEW i \in 1..upto - p, e = batch[i] PROVE \E j \in p + 1..upto : e = log[j]
    <3>1. p + i \in p + 1..upto /\ e = log[p + i]
      BY <1>1, <1>2, <2>2
    <3> QED BY <3>1
  <2>3. ASSUME NEW j \in p + 1..upto, e = log[j] PROVE \E i \in 1..upto - p : e = batch[i]
    <3>1. j - p \in 1..upto - p /\ p + (j - p) = j
      BY <1>1
    <3>2. e = batch[j - p]
      BY <1>2, <2>3, <3>1
    <3> QED BY <3>1, <3>2
  <2> QED BY <2>1, <2>2, <2>3
<1>5. \A m : m \in Leaving(batch) <=>
               \E i \in p + 1..upto : log[i].message = m /\ log[i].kind = "out"
  BY <1>4 DEF Leaving
<1>6. \A m : m \in Coming(batch) <=>
               m \notin Leaving(batch) /\ \E i \in p + 1..upto : log[i].message = m
  BY <1>4 DEF Coming
<1>7. ASSUME NEW m \in Messages, NEW i \in p + 1..upto, NEW j \in p + 1..upto, i < j,
             log[i].message = m, log[i].kind = "out", log[j].message = m, log[j].kind = "in"
      PROVE  m \in Bounced(batch)
  <2>1. log[i] \in Entry /\ log[j] \in Entry
    BY <1>1
  <2>2. log[i] = [message |-> m, kind |-> "out"] /\ log[j] = [message |-> m, kind |-> "in"]
    BY <1>7, <2>1 DEF Entry
  <2>3. i - p \in 1..upto - p /\ j - p \in 1..upto - p /\ i - p < j - p
    BY <1>1, <1>7
  <2>4. batch[i - p] = log[i] /\ batch[j - p] = log[j]
    <3>1. p + (i - p) = i /\ p + (j - p) = j
      BY <1>1
    <3> QED BY <1>2, <2>3, <3>1
  <2> QED BY <1>3, <2>2, <2>3, <2>4 DEF Bounced
<1>8. Leaving(batch) \subseteq Messages /\ Coming(batch) \subseteq Messages
  <2>1. \A i \in p + 1..upto : log[i].message \in Messages
    BY <1>1 DEF Entry
  <2> QED BY <1>5, <1>6, <2>1
<1> QED BY <1>5, <1>6, <1>7, <1>8 DEF PageSays

\* A message that has not changed since the page is where the page saw it go, unless it
\* went and came back within.
LEMMA PageIsRight ==
    ASSUME MirrorTypes, NEW m \in Messages, HistoryTells(m), NEW p \in Positions,
           NEW upto \in p..Len(log), NEW batch, batch = SubSeq(log, p + 1, upto),
           m \notin Bounced(batch), ~Changed(m, upto)
    PROVE  /\ m \in Leaving(batch) => place[m] # "inbox"
           /\ m \in Coming(batch) => place[m] = "inbox"
           /\ m \notin Leaving(batch) \cup Coming(batch) => ~Changed(m, p)
<1>1. /\ log \in Seq(Entry) /\ p \in Nat /\ upto \in Nat /\ p <= upto /\ upto <= Len(log)
      /\ Len(log) \in Nat /\ \A i \in 1..Len(log) : log[i] \in Entry
  BY DEF MirrorTypes, Positions
<1>2. PageSays(p, upto, batch)
  BY <1>1, PageTells
<1>3. ASSUME NEW i \in p + 1..upto, log[i].message = m
      PROVE  \E l \in i..upto :
               log[l].message = m /\ (place[m] = "inbox" <=> log[l].kind # "out")
  <2>1. i \in 1..Len(log) /\ Changed(m, 0)
    BY <1>1, <1>3 DEF Changed
  <2>2. PICK l \in 1..Len(log) : LastChange(m, l) /\ (place[m] = "inbox" <=> log[l].kind # "out")
    BY <2>1 DEF HistoryTells
  <2>3. i <= l
    BY <1>1, <1>3, <2>1, <2>2 DEF LastChange
  <2>4. l <= upto
    BY <1>1, <2>2 DEF LastChange, Changed
  <2>5. l \in i..upto
    BY <1>1, <2>3, <2>4
  <2> QED BY <2>2, <2>5 DEF LastChange
<1>4. ASSUME m \in Leaving(batch) PROVE place[m] # "inbox"
  <2>1. PICK i \in p + 1..upto : log[i].message = m /\ log[i].kind = "out"
    BY <1>4, <1>2 DEF PageSays
  <2>2. PICK l \in i..upto : log[l].message = m /\ (place[m] = "inbox" <=> log[l].kind # "out")
    BY <1>3, <2>1
  <2>3. i \in 1..Len(log) /\ l \in 1..Len(log) /\ l \in p + 1..upto
    BY <1>1
  <2>4. log[l].kind \in {"added", "out", "in"}
    BY <1>1, <2>3 DEF Entry
  <2>5. CASE log[l].kind = "added"
    <3>1. l <= i
      BY <2>1, <2>2, <2>3, <2>5 DEF HistoryTells
    <3>2. l = i
      BY <1>1, <3>1
    <3> QED BY <2>1, <2>5, <3>2
  <2>6. CASE log[l].kind = "in"
    <3>1. i # l
      BY <2>1, <2>6
    <3>2. i < l
      BY <1>1, <3>1
    <3> QED BY <1>2, <2>1, <2>2, <2>3, <2>6, <3>2 DEF PageSays
  <2> QED BY <2>2, <2>4, <2>5, <2>6
<1>5. ASSUME m \in Coming(batch) PROVE place[m] = "inbox"
  <2>1. /\ \E i \in p + 1..upto : log[i].message = m
        /\ \A i \in p + 1..upto : log[i].message = m => log[i].kind # "out"
    BY <1>5, <1>2 DEF PageSays
  <2>2. PICK i \in p + 1..upto : log[i].message = m
    BY <2>1
  <2>3. PICK l \in i..upto : log[l].message = m /\ (place[m] = "inbox" <=> log[l].kind # "out")
    BY <1>3, <2>2
  <2>4. l \in p + 1..upto
    BY <1>1
  <2> QED BY <2>1, <2>3, <2>4
<1>6. ASSUME m \notin Leaving(batch) \cup Coming(batch) PROVE ~Changed(m, p)
  <2>1. \A i \in p + 1..upto : log[i].message # m
    BY <1>6, <1>2 DEF PageSays
  <2>2. \A i \in p + 1..Len(log) : i \in p + 1..upto \/ i \in upto + 1..Len(log)
    BY <1>1
  <2> QED BY <2>1, <2>2 DEF Changed
<1> QED BY <1>4, <1>5, <1>6

LEMMA HistoryTurn ==
    ASSUME NEW w \in Workers, MirrorInv, History(w)
    PROVE  MirrorInv'
<1>1. /\ MirrorTypes /\ BroughtUp /\ sync[w] \in Sync /\ sync[w].step = "history"
      /\ Prepared(sync[w]) /\ Follows(sync[w]) /\ AloneOrInDoubt(w)
  BY MirrorParts DEF History, SyncAt
<1>2. UNCHANGED <<place, log, floor, source, failures, held>>
  BY DEF History, mailbox
<1>3. CASE sync[w].from < floor
  <2>1. PICK s \in Sync :
          /\ SyncBecomes(w, s) /\ s.step = "profile" /\ s.full /\ s.alone = sync[w].alone
          /\ s.remote = sync[w].remote /\ s.wanted = sync[w].wanted /\ s.visit = sync[w].visit
    <3> DEFINE s == [sync[w] EXCEPT !.step = "profile", !.full = TRUE, !.from = Nothing]
    <3>1. s \in Sync
      BY <1>1 DEF Sync
    <3>2. /\ s.step = "profile" /\ s.full /\ s.alone = sync[w].alone
          /\ s.remote = sync[w].remote /\ s.wanted = sync[w].wanted /\ s.visit = sync[w].visit
      BY <1>1 DEF Sync
    <3> QED BY <1>3, <3>1, <3>2 DEF History
  <2>2. Prepared(s)
    BY <1>1, <2>1 DEF Prepared
  <2>3. ListsAll(s)' /\ Follows(s)' /\ CreatesTheNew(s)'
    BY <2>1 DEF ListsAll, Follows, CreatesTheNew
  <2>4. UNCHANGED doubtful
    BY <1>3 DEF History
  <2>5. BroughtUp'
    BY <1>1, <1>2, <2>4 DEF BroughtUp, Changed, Mirrored, Reached
  <2> QED BY <1>1, <1>2, <2>1, <2>2, <2>3, <2>4, <2>5, SyncTurn DEF SyncAt, MirrorTypes
<1>4. CASE ~(sync[w].from < floor)
  <2>1. PICK p \in Positions : p = sync[w].from
    BY <1>1 DEF Prepared
  <2>2. PICK upto \in p..Len(log) :
          LET batch == SubSeq(log, p + 1, upto) IN
          /\ SyncBecomes(w, [sync[w] EXCEPT !.step = "remove", !.from = Nothing,
                                            !.upto = upto, !.more = upto < Len(log),
                                            !.removed = Leaving(batch),
                                            !.wanted = Coming(batch)])
          /\ doubtful' = doubtful \cup Bounced(batch)
    BY <1>4, <2>1 DEF History
  <2>3. PICK batch : batch = SubSeq(log, p + 1, upto)
    OBVIOUS
  <2>4. /\ log \in Seq(Entry) /\ Len(log) \in Nat /\ upto \in Positions
        /\ Leaving(batch) \subseteq Messages /\ Coming(batch) \subseteq Messages
    <3>1. log \in Seq(Entry) /\ Len(log) \in Nat
      BY <1>1 DEF MirrorTypes
    <3>2. Leaving(batch) \subseteq Messages /\ Coming(batch) \subseteq Messages
      BY <2>3, <3>1, PageTells DEF PageSays
    <3> QED BY <3>1, <3>2 DEF Positions
  <2>5. PICK s \in Sync :
          /\ SyncBecomes(w, s) /\ s.step = "remove" /\ s.full = sync[w].full
          /\ s.alone = sync[w].alone /\ s.upto = upto /\ s.removed = Leaving(batch)
          /\ s.wanted = Coming(batch) /\ s.visit = sync[w].visit /\ s.remote = sync[w].remote
    <3>1. PICK more : more = (upto < Len(log)) /\ more \in BOOLEAN
      <4>1. (upto < Len(log)) \in BOOLEAN
        OBVIOUS
      <4> QED BY <4>1, Zenon
    <3> DEFINE s == [sync[w] EXCEPT !.step = "remove", !.from = Nothing, !.upto = upto,
                                    !.more = more, !.removed = Leaving(batch),
                                    !.wanted = Coming(batch)]
    <3>2. s \in Sync
      BY <1>1, <2>4, <3>1 DEF Sync
    <3>3. /\ s.step = "remove" /\ s.full = sync[w].full
          /\ s.alone = sync[w].alone /\ s.upto = upto /\ s.removed = Leaving(batch)
          /\ s.wanted = Coming(batch) /\ s.visit = sync[w].visit /\ s.remote = sync[w].remote
      BY <1>1 DEF Sync
    <3>4. SyncBecomes(w, s)
      BY <2>2, <2>3, <3>1, Zenon
    <3> QED BY <3>2, <3>3, <3>4
  <2>6. doubtful' = doubtful \cup Bounced(batch) /\ doubtful' \subseteq Messages
    BY <1>1, <2>2, <2>3 DEF MirrorTypes, Bounced
  <2>7. Prepared(s)
    BY <1>1, <2>4, <2>5 DEF Prepared
  <2>8. ListsAll(s)' /\ CreatesTheNew(s)'
    BY <1>1, <2>5 DEF ListsAll, CreatesTheNew, Prepared
  <2>9. BroughtUp'
    BY <1>1, <1>2, <2>6 DEF BroughtUp, Changed, Mirrored, Reached
  <2>10. ASSUME s.alone, NEW m \in Messages, m \notin doubtful, m \notin Bounced(batch)
         PROVE  /\ m \in s.removed => Changed(m, Reached) /\ m \notin s.wanted
                /\ ~Changed(m, s.upto) =>
                     IF m \in s.removed THEN place[m] # "inbox"
                     ELSE IF m \in s.wanted THEN place[m] = "inbox"
                     ELSE Mirrored(m)
    <3>1. p = Reached /\ source.cursor # Nothing
      BY <1>1, <2>1, <2>5, <2>10 DEF Follows, Prepared
    <3>2. m \in s.removed => Changed(m, Reached) /\ m \notin s.wanted
      <4>1. \A i \in p + 1..upto : i \in p + 1..Len(log)
        BY <2>4 DEF Positions
      <4>2. m \in Leaving(batch) =>
              m \notin Coming(batch) /\ \E i \in p + 1..upto : log[i].message = m
        <5>1. PageSays(p, upto, batch)
          BY <2>3, <2>4, PageTells
        <5> QED BY <5>1 DEF PageSays
      <4> QED BY <2>5, <3>1, <4>1, <4>2 DEF Changed
    <3>3. ASSUME ~Changed(m, upto)
          PROVE  /\ m \in Leaving(batch) => place[m] # "inbox"
                 /\ m \in Coming(batch) => place[m] = "inbox"
                 /\ m \notin Leaving(batch) \cup Coming(batch) => ~Changed(m, p)
      <4>1. HistoryTells(m)
        BY DEF MirrorInv
      <4> QED BY <1>1, <2>3, <2>10, <3>3, <4>1, PageIsRight
    <3>4. ~Changed(m, p) => Mirrored(m)
      BY <1>1, <2>10, <3>1 DEF BroughtUp
    <3> QED BY <2>5, <3>2, <3>3, <3>4
  <2>11. Follows(s)'
    BY <1>1, <1>2, <2>5, <2>6, <2>10 DEF Follows, Changed, Mirrored, Reached
  <2> QED BY <1>1, <1>2, <2>5, <2>6, <2>7, <2>8, <2>9, <2>11, SyncTurn DEF SyncAt, MirrorTypes
<1> QED BY <1>3, <1>4

-----------------------------------------------------------------------------
(* A sync ends. *)

\* What an end leaves: nobody else ran, or all is in doubt.
LEMMA EndTurn ==
    ASSUME NEW w \in Workers, MirrorInv, SyncBecomes(w, IdleSync), ~SyncAt(w, "idle"),
           UNCHANGED <<place, log, floor, held>>, failures' \in 0..MaxFailures,
           source' \in Source, source'.cursor = Nothing => source'.page = Nothing,
           source.cursor # Nothing => source'.cursor # Nothing,
           doubtful' \subseteq Messages, doubtful' = doubtful \/ sync[w].alone, BroughtUp'
    PROVE  MirrorInv'
<1>1. MirrorTypes /\ IdleSync \in Sync
  BY MirrorParts DEF IdleSync, Sync
<1>2. /\ sync' \in [Workers -> Sync] /\ sync'[w] = IdleSync
      /\ \A v \in Workers \ {w} : sync'[v] = sync[v]
  BY <1>1 DEF MirrorTypes, SyncBecomes
<1>3. MirrorTypes'
  BY <1>1, <1>2 DEF MirrorTypes, Positions, Source, Sync
<1>4. \A m \in Messages : HistoryTells(m)'
  BY DEF MirrorInv, HistoryTells, LastChange, Changed
<1>5. w \in Active /\ IdleSync.step = "idle"
  BY DEF Active, IdleSync
<1>6. ASSUME NEW v \in Workers \ {w}, sync[v].step # "idle"
      PROVE  ~sync[v].alone /\ ~sync[w].alone /\ doubtful = Messages
  <2>1. v \in Active
    BY <1>6 DEF Active, SyncAt
  <2>2. AloneOrInDoubt(v) /\ AloneOrInDoubt(w)
    BY MirrorParts
  <2> QED BY <1>5, <1>6, <2>1, <2>2 DEF AloneOrInDoubt, SyncAt
<1>7. ASSUME NEW v \in Workers PROVE AloneOrInDoubt(v)' /\ Sound(sync[v])'
  <2>1. CASE v = w
    BY <1>2, <1>5, <2>1 DEF AloneOrInDoubt, Sound, Prepared, ListsAll, Follows, CreatesTheNew, IdleSync
  <2>2. CASE v # w /\ sync[v].step = "idle"
    <3>1. sync'[v] = sync[v] /\ Prepared(sync[v])
      BY <1>2, <2>2, MirrorParts
    <3> QED BY <2>2, <3>1 DEF AloneOrInDoubt, Sound, Prepared, ListsAll, Follows, CreatesTheNew
  <2>3. CASE v # w /\ sync[v].step # "idle"
    <3>1. sync'[v] = sync[v] /\ Prepared(sync[v]) /\ ~sync[v].alone /\ doubtful' = Messages
      BY <1>2, <1>6, <2>3, MirrorParts
    <3>2. Prepared(sync[v])'
      BY <3>1 DEF Prepared, Positions
    <3> QED BY <3>1, <3>2 DEF AloneOrInDoubt, Sound, ListsAll, Follows, CreatesTheNew
  <2> QED BY <2>1, <2>2, <2>3
<1> QED BY <1>3, <1>4, <1>7 DEF MirrorInv

\* The position saved is one up to which all has been brought.
LEMMA SaveTurn ==
    ASSUME NEW w \in Workers, MirrorInv, Save(w)
    PROVE  MirrorInv'
<1>1. /\ MirrorTypes /\ sync[w] \in Sync /\ Prepared(sync[w]) /\ ListsAll(sync[w])
      /\ Follows(sync[w]) /\ AloneOrInDoubt(w)
  BY MirrorParts
<1>2. /\ \/ sync[w].step = "save" /\ sync[w].full
         \/ sync[w].step = "import" /\ ~sync[w].full /\ sync[w].wanted = {}
      /\ sync[w].upto \in Positions /\ sync[w].upto # Nothing
  BY <1>1, MailMirrorAssumption DEF Save, Imported, SyncAt, Prepared, Positions
<1>3. PICK cursor \in Positions, page \in Positions \cup {Nothing} :
        /\ Position(sync[w]) = [cursor |-> cursor, page |-> page]
        /\ sync[w].upto = IF page = Nothing THEN cursor ELSE page
  <2>1. CASE sync[w].full \/ ~sync[w].more
    BY <1>2, <2>1 DEF Position
  <2>2. CASE ~sync[w].full /\ sync[w].more
    <3>1. source.cursor \in Positions
      BY <1>1, <1>2, <2>2 DEF Prepared, MirrorTypes, Source
    <3> QED BY <1>2, <2>2, <3>1 DEF Position
  <2> QED BY <2>1, <2>2
<1>4. /\ UNCHANGED <<place, log, floor, held, failures>> /\ SyncBecomes(w, IdleSync)
      /\ source' = [cursor |-> cursor, page |-> page, due |-> FALSE, syncing |-> FALSE]
      /\ doubtful' = IF sync[w].full /\ sync[w].alone THEN {} ELSE doubtful
  BY <1>3 DEF Save, mailbox
<1>5. source' \in Source /\ source'.cursor = cursor /\ source'.page = page
  BY <1>4 DEF Source
<1>6. cursor # Nothing /\ Reached' = sync[w].upto
  BY <1>3, <1>5, MailMirrorAssumption DEF Reached, Positions
<1>7. doubtful' \subseteq Messages /\ (doubtful' = doubtful \/ sync[w].alone)
  BY <1>1, <1>4 DEF MirrorTypes
<1>8. BroughtUp'
  <2>1. ASSUME NEW m \in Messages, m \notin doubtful', ~Changed(m, sync[w].upto) PROVE Mirrored(m)
    <3>1. sync[w].alone
      BY <1>1, <1>2, <1>4, <2>1 DEF AloneOrInDoubt
    <3>2. CASE sync[w].full
      BY <1>1, <1>2, <2>1, <3>1, <3>2 DEF ListsAll
    <3>3. CASE ~sync[w].full
      BY <1>1, <1>2, <1>4, <2>1, <3>1, <3>3 DEF Follows, Creates
    <3> QED BY <3>2, <3>3
  <2> QED BY <1>4, <1>6, <2>1 DEF BroughtUp, Changed, Mirrored
<1> QED BY <1>1, <1>2, <1>4, <1>5, <1>6, <1>7, <1>8, EndTurn DEF SyncAt, MirrorTypes

\* A sync that failed or died leaves the position where it was.
LEMMA SyncFailTurn ==
    ASSUME NEW w \in Workers, MirrorInv, Fail(w)
    PROVE  MirrorInv'
<1>1. MirrorTypes /\ BroughtUp
  BY MirrorParts
<1>2. /\ UNCHANGED <<place, log, floor, held, doubtful>> /\ SyncBecomes(w, IdleSync)
      /\ ~SyncAt(w, "idle") /\ failures' \in 0..MaxFailures
  BY <1>1, MailMirrorAssumption DEF Fail, mailbox, Active, MirrorTypes
<1>3. source' \in Source /\ source'.cursor = source.cursor /\ source'.page = source.page
  <2>1. source' = source \/ source' = [source EXCEPT !.due = FALSE, !.syncing = FALSE]
    BY DEF Fail
  <2> QED BY <1>1, <2>1 DEF MirrorTypes, Source
<1>4. BroughtUp'
  BY <1>1, <1>2, <1>3 DEF BroughtUp, Changed, Mirrored, Reached
<1> QED BY <1>1, <1>2, <1>3, <1>4, EndTurn DEF MirrorTypes

-----------------------------------------------------------------------------
(* A sync begins. *)

LEMMA BeginsTurn ==
    ASSUME NEW w \in Workers, NEW full \in BOOLEAN, MirrorInv, Begins(w, full),
           source' \in Source, source'.cursor = source.cursor, source'.page = source.page
    PROVE  MirrorInv'
<1>1. MirrorTypes /\ BroughtUp /\ sync[w].step = "idle"
  BY MirrorParts DEF Begins, SyncAt
<1>2. UNCHANGED <<place, log, floor, held, failures>>
  BY DEF Begins, mailbox
<1>3. PICK alone \in BOOLEAN : alone <=> Active = {}
  OBVIOUS
<1>4. /\ alone => doubtful' = doubtful
      /\ ~alone => doubtful' = Messages
  BY <1>3 DEF Begins
<1>5. source.cursor # Nothing => Reached \in Positions
  BY <1>1 DEF MirrorTypes, Source, Reached
<1>6. PICK s \in Sync :
        /\ sync'[w] = s /\ (s.alone <=> alone)
        /\ s.visit = {} /\ s.remote = {} /\ s.wanted = {}
        /\ IF full \/ source.cursor = Nothing THEN s.step = "profile" /\ s.full
           ELSE s.step = "history" /\ ~s.full /\ s.from = Reached
  <2>1. IdleSync \in Sync
    BY DEF IdleSync, Sync
  <2>2. CASE full \/ source.cursor = Nothing
    <3>1. PICK from \in Positions \cup {Nothing} :
            from = IF full THEN Nothing ELSE IF source.page = Nothing THEN source.cursor ELSE source.page
      BY <1>1 DEF MirrorTypes, Source
    <3> DEFINE s == [IdleSync EXCEPT !.step = "profile", !.full = TRUE, !.from = from, !.alone = alone]
    <3>2. s \in Sync
      BY <2>1 DEF Sync
    <3>3. /\ s.alone = alone /\ s.visit = {} /\ s.remote = {} /\ s.wanted = {}
          /\ s.step = "profile" /\ s.full
      BY DEF IdleSync
    <3>4. sync'[w] = s
      BY <1>3, <2>2, <3>1 DEF Begins
    <3> QED BY <2>2, <3>2, <3>3, <3>4
  <2>3. CASE ~full /\ source.cursor # Nothing
    <3> DEFINE s == [IdleSync EXCEPT !.step = "history", !.full = FALSE, !.from = Reached,
                                     !.alone = alone]
    <3>1. s \in Sync
      BY <1>5, <2>1, <2>3 DEF Sync
    <3>2. /\ s.alone = alone /\ s.visit = {} /\ s.remote = {} /\ s.wanted = {}
          /\ s.step = "history" /\ ~s.full /\ s.from = Reached
      BY DEF IdleSync
    <3>3. sync'[w] = s
      BY <1>3, <2>3 DEF Begins, Reached
    <3> QED BY <2>3, <3>1, <3>2, <3>3
  <2> QED BY <2>2, <2>3
<1>7. ASSUME NEW v \in Workers, v # w
      PROVE  /\ sync'[v] \in Sync /\ ~sync'[v].alone
             /\ sync'[v].step = sync[v].step /\ (Prepared(sync[v]))'
  <2>1. sync'[v] = [sync[v] EXCEPT !.alone = FALSE] /\ sync[v] \in Sync /\ Prepared(sync[v])
    BY <1>7, MirrorParts DEF Begins
  <2>2. sync'[v] \in Sync /\ ~sync'[v].alone /\ sync'[v].step = sync[v].step
    BY <2>1 DEF Sync
  <2>3. Prepared(sync[v])'
    BY <1>2, <2>1, <2>2 DEF Prepared, Positions, Sync
  <2> QED BY <2>2, <2>3
<1>8. sync' \in [Workers -> Sync]
  BY <1>6, <1>7 DEF Begins
<1>9. MirrorTypes'
  BY <1>1, <1>2, <1>4, <1>8 DEF MirrorTypes, Positions, Source, Sync
<1>10. \A m \in Messages : HistoryTells(m)'
  BY <1>2 DEF MirrorInv, HistoryTells, LastChange, Changed
<1>11. BroughtUp'
  BY <1>1, <1>2, <1>4 DEF BroughtUp, Changed, Mirrored, Reached
<1>12. Sound(sync[w])'
  <2>1. Prepared(s)'
    BY <1>2, <1>5, <1>6 DEF Prepared, Positions
  <2>2. ListsAll(s)' /\ Follows(s)' /\ CreatesTheNew(s)'
    BY <1>6 DEF ListsAll, Follows, CreatesTheNew, Reached
  <2> QED BY <1>6, <2>1, <2>2 DEF Sound, Prepared, ListsAll, Follows, CreatesTheNew
<1>13. ASSUME NEW v \in Workers, v # w PROVE Sound(sync[v])' /\ AloneOrInDoubt(v)'
  <2>1. ListsAll(sync[v])' /\ Follows(sync[v])' /\ CreatesTheNew(sync[v])'
    BY <1>7, <1>13 DEF ListsAll, Follows, CreatesTheNew
  <2>2. sync[v].step # "idle" => doubtful' = Messages
    BY <1>3, <1>4 DEF Active, SyncAt
  <2>3. AloneOrInDoubt(v)'
    BY <1>7, <1>13, <2>2 DEF AloneOrInDoubt
  <2> QED BY <1>7, <1>13, <2>1, <2>3 DEF Sound
<1>14. AloneOrInDoubt(w)'
  <2>1. CASE alone
    <3>1. \A v \in Workers : sync[v].step = "idle"
      BY <1>3, <2>1 DEF Active, SyncAt
    <3>2. Active' = {w}
      BY <1>6, <1>7, <3>1 DEF Active, SyncAt
    <3> QED BY <1>6, <2>1, <3>2 DEF AloneOrInDoubt
  <2>2. CASE ~alone
    BY <1>4, <1>6, <2>2 DEF AloneOrInDoubt
  <2> QED BY <2>1, <2>2
<1> QED BY <1>9, <1>10, <1>11, <1>12, <1>13, <1>14 DEF MirrorInv

LEMMA LeaseOrAskTurn ==
    ASSUME NEW w \in Workers, NEW full \in BOOLEAN, MirrorInv, Lease(w) \/ AskSync(w, full)
    PROVE  MirrorInv'
<1>1. source \in Source
  BY MirrorParts DEF MirrorTypes
<1>2. CASE Lease(w)
  <2>1. source' \in Source /\ source'.cursor = source.cursor /\ source'.page = source.page
    BY <1>1, <1>2 DEF Lease, Source
  <2> QED BY <1>2, <2>1, BeginsTurn DEF Lease
<1>3. CASE AskSync(w, full)
  BY <1>1, <1>3, BeginsTurn DEF AskSync
<1> QED BY <1>2, <1>3

-----------------------------------------------------------------------------
(* The mailbox changes under the syncs. *)

\* One more entry in the history: its message has changed, the others have not.
LEMMA OneMoreEntry ==
    ASSUME log \in Seq(Entry), NEW e \in Entry, log' = Append(log, e)
    PROVE  /\ Len(log') = Len(log) + 1 /\ log' \in Seq(Entry) /\ Len(log) \in Nat
           /\ log'[Len(log) + 1] = e /\ \A i \in 1..Len(log) : log'[i] = log[i]
           /\ Positions \subseteq Positions'
           /\ \A p \in Positions : Changed(e.message, p)'
           /\ \A m \in Messages, p \in Positions :
                m # e.message => (Changed(m, p)' <=> Changed(m, p))
<1>1. /\ Len(log') = Len(log) + 1 /\ log' \in Seq(Entry) /\ Len(log) \in Nat
      /\ log'[Len(log) + 1] = e /\ \A i \in 1..Len(log) : log'[i] = log[i]
  BY AppendProperties
<1>2. ASSUME NEW p \in Positions PROVE Changed(e.message, p)'
  <2>1. Len(log) + 1 \in p + 1..Len(log')
    BY <1>1 DEF Positions
  <2> QED BY <1>1, <2>1 DEF Changed
<1>3. ASSUME NEW m \in Messages, NEW p \in Positions, m # e.message
      PROVE  Changed(m, p)' <=> Changed(m, p)
  <2>1. \A i : i \in p + 1..Len(log') <=> i \in p + 1..Len(log) \/ i = Len(log) + 1
    BY <1>1 DEF Positions
  <2>2. \A i \in p + 1..Len(log) : log'[i] = log[i]
    BY <1>1 DEF Positions
  <2> QED BY <1>1, <1>3, <2>1, <2>2 DEF Changed
<1> QED BY <1>1, <1>2, <1>3 DEF Positions

\* What Gmail tells of its history stays so: a message arrives, goes, comes back.
LEMMA HistoryGoesOn ==
    ASSUME NEW m \in Messages, NEW to, NEW e \in Entry, MirrorTypes, HistoryTells(m),
           e.message = m, log' = Append(log, e), place'[m] = to, to # "nowhere",
           to = "inbox" <=> e.kind # "out", e.kind = "added" => place[m] = "nowhere"
    PROVE  HistoryTells(m)'
<1>1. log \in Seq(Entry)
  BY DEF MirrorTypes
<1>2. /\ Len(log') = Len(log) + 1 /\ Len(log) \in Nat
      /\ log'[Len(log) + 1] = e /\ \A i \in 1..Len(log) : log'[i] = log[i]
  BY <1>1, OneMoreEntry
<1>3. PICK n \in 1..Len(log') : n = Len(log) + 1 /\ log'[n] = e /\ LastChange(m, n)'
  <2>1. PICK n \in 1..Len(log') : n = Len(log) + 1
    BY <1>2
  <2> QED BY <1>2, <2>1 DEF LastChange
<1>4. ASSUME NEW i \in 1..Len(log'), NEW j \in 1..Len(log'), log'[i].message = m,
             log'[j].message = m, log'[j].kind = "added"
      PROVE  j <= i
  <2>1. CASE j = Len(log) + 1
    <3>1. ~Changed(m, 0)
      BY <1>2, <1>4, <2>1 DEF HistoryTells
    <3>2. \A x \in 1..Len(log) : log[x].message # m
      BY <3>1 DEF Changed
    <3> QED BY <1>2, <1>4, <2>1, <3>2
  <2>2. CASE j # Len(log) + 1 /\ i # Len(log) + 1
    <3>1. i \in 1..Len(log) /\ j \in 1..Len(log)
      BY <1>2, <2>2
    <3> QED BY <1>2, <1>4, <3>1 DEF HistoryTells
  <2>3. CASE j # Len(log) + 1 /\ i = Len(log) + 1
    BY <1>2, <2>3
  <2> QED BY <2>1, <2>2, <2>3
<1>5. \E l \in 1..Len(log') :
        LastChange(m, l)' /\ (place'[m] = "inbox" <=> log'[l].kind # "out")
  BY <1>3
<1> QED BY <1>4, <1>5 DEF HistoryTells

LEMMA HistoryOfOthers ==
    ASSUME NEW m \in Messages, NEW e \in Entry, MirrorTypes, HistoryTells(m),
           e.message # m, log' = Append(log, e), place'[m] = place[m]
    PROVE  HistoryTells(m)'
<1>1. log \in Seq(Entry)
  BY DEF MirrorTypes
<1>2. /\ Len(log') = Len(log) + 1 /\ Len(log) \in Nat
      /\ log'[Len(log) + 1] = e /\ \A i \in 1..Len(log) : log'[i] = log[i]
  BY <1>1, OneMoreEntry
<1>3. Changed(m, 0)' <=> Changed(m, 0)
  <2>1. 0 \in Positions
    BY <1>2 DEF Positions
  <2> QED BY <1>1, <2>1, OneMoreEntry
<1>4. ASSUME NEW l \in 1..Len(log), LastChange(m, l) PROVE LastChange(m, l)'
  <2>1. ASSUME NEW j \in l + 1..Len(log') PROVE log'[j].message # m
    <3>1. j \in l + 1..Len(log) \/ j = Len(log) + 1
      BY <1>2
    <3> QED BY <1>2, <1>4, <3>1 DEF LastChange
  <2> QED BY <1>2, <1>4, <2>1 DEF LastChange
<1>5. Changed(m, 0)' => \E l \in 1..Len(log') :
        LastChange(m, l)' /\ (place'[m] = "inbox" <=> log'[l].kind # "out")
  <2> SUFFICES ASSUME Changed(m, 0)'
               PROVE  \E l \in 1..Len(log') :
                        LastChange(m, l)' /\ (place'[m] = "inbox" <=> log'[l].kind # "out")
    OBVIOUS
  <2>1. PICK l \in 1..Len(log) : LastChange(m, l) /\ (place[m] = "inbox" <=> log[l].kind # "out")
    BY <1>3 DEF HistoryTells
  <2>2. l \in 1..Len(log') /\ log'[l] = log[l]
    BY <1>2
  <2> QED BY <1>4, <2>1, <2>2
<1>6. ASSUME NEW i \in 1..Len(log'), NEW j \in 1..Len(log'), log'[i].message = m,
             log'[j].message = m, log'[j].kind = "added"
      PROVE  j <= i
  <2>1. i \in 1..Len(log) /\ j \in 1..Len(log)
    BY <1>2, <1>6
  <2> QED BY <1>2, <1>6, <2>1 DEF HistoryTells
<1> QED BY <1>3, <1>5, <1>6 DEF HistoryTells

LEMMA ChangeTurn ==
    ASSUME NEW m \in Messages, NEW from, NEW to, NEW kind, MirrorInv, Change(m, from, to, kind),
           \/ from = "nowhere" /\ to = "inbox" /\ kind = "added"
           \/ from = "inbox" /\ to = "elsewhere" /\ kind = "out"
           \/ from = "elsewhere" /\ to = "inbox" /\ kind = "in"
    PROVE  MirrorInv'
<1>1. /\ MirrorTypes /\ BroughtUp /\ log \in Seq(Entry)
      /\ \A w \in Workers : sync[w] \in Sync /\ Sound(sync[w])
      /\ UNCHANGED <<floor, held, source, sync, failures, doubtful>>
  BY DEF MirrorInv, MirrorTypes, Change
<1>2. PICK e \in Entry : e.message = m /\ e.kind = kind /\ log' = Append(log, e)
  <2>1. [message |-> m, kind |-> kind] \in Entry
    BY DEF Entry
  <2> QED BY <2>1 DEF Change
<1>3. /\ place' \in [Messages -> {"nowhere", "inbox", "elsewhere"}] /\ place'[m] = to
      /\ place[m] = from /\ \A x \in Messages : x # m => place'[x] = place[x]
  BY <1>1 DEF Change, MirrorTypes
<1>4. /\ Len(log') = Len(log) + 1 /\ log' \in Seq(Entry) /\ Positions \subseteq Positions'
      /\ \A p \in Positions : Changed(m, p)'
      /\ \A x \in Messages, p \in Positions : x # m => (Changed(x, p)' <=> Changed(x, p))
  BY <1>1, <1>2, OneMoreEntry
<1>5. MirrorTypes'
  <2>1. source' \in Source' /\ \A w \in Workers : sync'[w] \in Sync'
    BY <1>1, <1>4 DEF MirrorTypes, Source, Sync
  <2>2. sync' \in [Workers -> Sync']
    BY <1>1, <2>1 DEF MirrorTypes
  <2> QED BY <1>1, <1>3, <1>4, <2>1, <2>2 DEF MirrorTypes, Entry
<1>6. ASSUME NEW x \in Messages PROVE HistoryTells(x)'
  <2>1. HistoryTells(x)
    BY DEF MirrorInv
  <2> QED BY <1>1, <1>2, <1>3, <2>1, HistoryGoesOn, HistoryOfOthers
<1>7. \A x \in Messages, p \in Positions :
        ~Changed(x, p)' => /\ ~Changed(x, p) /\ place'[x] = place[x]
                           /\ (Mirrored(x)' <=> Mirrored(x))
  BY <1>1, <1>3, <1>4 DEF Mirrored
<1>8. Reached' = Reached /\ (source.cursor # Nothing => Reached \in Positions)
  BY <1>1 DEF Reached, MirrorTypes, Source
<1>9. BroughtUp'
  BY <1>1, <1>7, <1>8 DEF BroughtUp
<1>10. ASSUME NEW w \in Workers PROVE Sound(sync[w])' /\ AloneOrInDoubt(w)'
  <2>1. PICK s \in Sync : s = sync[w]
    BY <1>1
  <2>2. Prepared(s) /\ ListsAll(s) /\ Follows(s) /\ CreatesTheNew(s) /\ AloneOrInDoubt(w)
    BY <1>1, <2>1 DEF MirrorInv, Sound
  <2>3. Prepared(s)'
    BY <1>1, <1>4, <2>2 DEF Prepared
  <2>4. ListsAll(s)'
    BY <1>1, <1>7, <1>8, <2>2 DEF ListsAll, Prepared, Creates
  <2>5. Follows(s)'
    <3>1. \A x \in Messages : Changed(x, Reached) /\ source.cursor # Nothing => Changed(x, Reached)'
      BY <1>4, <1>8
    <3> QED BY <1>1, <1>7, <1>8, <2>2, <3>1 DEF Follows, Prepared, Creates
  <2>6. CreatesTheNew(s)'
    BY <1>1, <1>4, <1>8, <2>2 DEF CreatesTheNew, Prepared
  <2>7. AloneOrInDoubt(w)'
    BY <1>1, <2>2 DEF AloneOrInDoubt, Active, SyncAt
  <2> QED BY <1>1, <2>1, <2>3, <2>4, <2>5, <2>6, <2>7
          DEF Sound, Prepared, ListsAll, Follows, CreatesTheNew
<1> QED BY <1>5, <1>6, <1>9, <1>10 DEF MirrorInv

\* The history expires, the timer fires, or nothing happens.
LEMMA MailboxRests ==
    ASSUME MirrorInv, UNCHANGED <<place, log, held, sync, failures, doubtful>>,
           floor' \in Positions, source' \in Source,
           source'.cursor = source.cursor, source'.page = source.page
    PROVE  MirrorInv'
<1>1. MirrorTypes /\ \A w \in Workers : Sound(sync[w]) /\ AloneOrInDoubt(w)
  BY DEF MirrorInv
<1>2. MirrorTypes'
  BY <1>1 DEF MirrorTypes, Positions, Source, Sync
<1>3. \A m \in Messages : HistoryTells(m)'
  BY DEF MirrorInv, HistoryTells, LastChange, Changed
<1>4. Reached' = Reached
  BY DEF Reached
<1>5. BroughtUp'
  BY <1>4 DEF MirrorInv, BroughtUp, Changed, Mirrored
<1>6. ASSUME NEW w \in Workers PROVE Sound(sync[w])' /\ AloneOrInDoubt(w)'
  <2>1. Prepared(sync[w]) /\ ListsAll(sync[w]) /\ Follows(sync[w]) /\ CreatesTheNew(sync[w])
    BY <1>1 DEF Sound
  <2>2. Prepared(sync[w])'
    BY <2>1 DEF Prepared, Positions
  <2>3. ListsAll(sync[w])'
    BY <1>4, <2>1 DEF ListsAll, Changed, Mirrored, Creates
  <2>4. Follows(sync[w])'
    BY <1>4, <2>1 DEF Follows, Changed, Mirrored, Creates
  <2>5. CreatesTheNew(sync[w])'
    BY <1>4, <2>1 DEF CreatesTheNew, Changed
  <2>6. AloneOrInDoubt(w)'
    BY <1>1 DEF AloneOrInDoubt, Active, SyncAt
  <2> QED BY <2>2, <2>3, <2>4, <2>5, <2>6 DEF Sound
<1> QED BY <1>2, <1>3, <1>5, <1>6 DEF MirrorInv

-----------------------------------------------------------------------------
(* Every step keeps the invariant. *)

LEMMA MirrorInvStep == MirrorInv /\ [MirrorNext]_mirrorVars => MirrorInv'
<1> SUFFICES ASSUME MirrorInv, [MirrorNext]_mirrorVars PROVE MirrorInv'
  OBVIOUS
<1>1. MirrorTypes
  BY DEF MirrorInv
<1>2. CASE \E m \in Messages :
             \/ Change(m, "nowhere", "inbox", "added")
             \/ Change(m, "inbox", "elsewhere", "out")
             \/ Change(m, "elsewhere", "inbox", "in")
  BY <1>2, ChangeTurn
<1>3. CASE Expire
  <2>1. floor' \in Positions
    BY <1>1, <1>3 DEF Expire, MirrorTypes, Positions
  <2> QED BY <1>1, <1>3, <2>1, MailboxRests DEF Expire, MirrorTypes
<1>4. CASE Tick
  <2>1. source' \in Source /\ source'.cursor = source.cursor /\ source'.page = source.page
    BY <1>1, <1>4 DEF Tick, MirrorTypes, Source
  <2>2. UNCHANGED <<place, log, floor, held, sync, failures, doubtful>>
    BY <1>4 DEF Tick, mailbox
  <2> QED BY <1>1, <2>1, <2>2, MailboxRests DEF MirrorTypes
<1>5. CASE \/ \E w \in Servers : Lease(w)
           \/ \E w \in Callers, full \in BOOLEAN : AskSync(w, full)
  BY <1>5, LeaseOrAskTurn DEF Workers
<1>6. CASE \E w \in Workers : SyncStep(w) \/ Fail(w)
  BY <1>6, HistoryTurn, TakeAwayTurn, ProfileTurn, PruneTurn, CreateTurn, SaveTurn, ListTurn,
     FetchTurn, SyncFailTurn DEF SyncStep
<1>7. CASE UNCHANGED mirrorVars
  BY <1>1, <1>7, MailboxRests DEF mirrorVars, mailbox, MirrorTypes
<1> QED BY <1>2, <1>3, <1>4, <1>5, <1>6, <1>7 DEF MirrorNext, Mailbox

\* The inductive invariant always holds.
THEOREM MirrorInvHolds == MirrorSpec => []MirrorInv
BY MirrorInvInit, MirrorInvStep, PTL DEF MirrorSpec

-----------------------------------------------------------------------------
(* What the run checks of the mirror, for every instance. *)

\* A position kept, or held by a sync, is one that Gmail gave.
THEOREM MirrorTypesHold == MirrorSpec => []MirrorTypeOK
<1>1. MirrorInv => MirrorTypeOK
  BY DEF MirrorInv, MirrorTypes, MirrorTypeOK, Source, Sync
<1> QED BY <1>1, MirrorInvHolds, PTL

\* performIncrementalSync, performFullSync: "reconcile the whole provider history". Whatever
\* failed or died on the way, between syncs a message that has not changed since the
\* position reached has a copy exactly when it is in the inbox.
THEOREM AlwaysCaughtUp == MirrorSpec => []CaughtUp
<1>1. MirrorInv => CaughtUp
  BY DEF MirrorInv, BroughtUp, Changed, CaughtUp
<1> QED BY <1>1, MirrorInvHolds, PTL

\* The same between the steps of a sync that runs alone: reading a page, removing and
\* creating copies and listing the inbox disturb no message that has not changed since.
THEOREM AlwaysBroughtUp == MirrorSpec => []BroughtUp
<1>1. MirrorInv => BroughtUp
  BY DEF MirrorInv
<1> QED BY <1>1, MirrorInvHolds, PTL

=============================================================================
