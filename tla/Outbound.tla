------------------------------- MODULE Outbound -------------------------------
(***************************************************************************)
(* What leaves the company after a review and a yes: replies to a received *)
(* email or WhatsApp message, new emails, and a quote's PDF                *)
(* (gmailConnectorService.ts, whatsappBusinessConnectorService.ts,         *)
(* documentDeliveryService.ts, lib/repeatedSend.ts in backend/src).        *)
(*                                                                         *)
(* A step is one call or one statement.  A letter is what is said and to   *)
(* whom; the email replies all answer one received email, the WhatsApp     *)
(* replies one received message, and they are noted on its row.  A         *)
(* fingerprint stands for its letter, and everything happens within the    *)
(* half hour a review looks back.                                          *)
(***************************************************************************)
EXTENDS Naturals, FiniteSets

CONSTANTS
    Letters,    \* what can be said
    Kind,       \* of a letter: "email_reply", "whatsapp_reply", "mail", "quote"
    Requests,   \* requests; bounds how many are made
    None,       \* no letter
    MaxFaults   \* bounds the failures of notes, records and audits

ASSUME OutboundAssumption ==
    /\ Kind \in [Letters -> {"email_reply", "whatsapp_reply", "mail", "quote"}]
    /\ None \notin Letters
    /\ MaxFaults \in Nat

VARIABLES
    arrived,    \* the requests whose letter reached its recipient
    replies,    \* the requests noted on the received messages (sourceMetadata.replies)
    audits,     \* the requests audited as a success, with the fingerprint
    delivered,  \* the requests with a record of the delivery
    quote,      \* the quote's status
    request,    \* what each request is doing
    faults,     \* failed writes so far
    lost        \* history: the requests whose note failed or another reply wrote over

vars == <<arrived, replies, audits, delivered, quote, request, faults, lost>>
stored == <<arrived, replies, audits, delivered, quote>>

Idle == [letter |-> None, step |-> "idle", notes |-> {}, status |-> "none",
         heard |-> FALSE, before |-> {}, said |-> FALSE, answer |-> "none"]

At(p, step)   == request[p].step = step
Becomes(p, r) == request' = [request EXCEPT ![p] = r]
Goto(p, step) == Becomes(p, [request[p] EXCEPT !.step = step])
End(p, heard, answer) ==
    Becomes(p, [Idle EXCEPT !.letter = request[p].letter, !.step = "done",
                            !.heard = heard, !.answer = answer])
KindOf(p)     == Kind[request[p].letter]

IsReply(p) == KindOf(p) \in {"email_reply", "whatsapp_reply"}
Same(p, qs) == {q \in qs : request[q].letter = request[p].letter}

\* The requests that answer the same received message.
Thread(kind) == {q \in Requests : request[q].letter # None /\ KindOf(q) = kind}

\* Told as sent, unless its note was lost and its audit failed too.
Told == {q \in Requests : request[q].answer = "sent"} \ (lost \ audits)

-----------------------------------------------------------------------------
(* The review                                                                *)

\* The received message is read, with the replies noted on it.
Review(p, letter) ==
    /\ At(p, "idle")
    /\ Becomes(p, [Idle EXCEPT !.letter = letter, !.step = "review",
                               !.notes = replies \cap Thread(Kind[letter]), !.before = Told])
    /\ UNCHANGED <<stored, faults, lost>>

\* Only the notes are looked at.
Traces_noted(p) == request[p].notes
\* recentReplyOrAudited: the notes just read, and the audit.  A new email has the
\* audit alone; a document is never compared.
Traces(p) ==
    CASE IsReply(p)          -> request[p].notes \cup audits
      [] KindOf(p) = "mail"  -> audits
      [] KindOf(p) = "quote" -> {}

\* "You already sent exactly this a few minutes ago."
Ask(p) ==
    /\ At(p, "review")
    /\ Becomes(p, [request[p] EXCEPT !.step = "asked", !.notes = {},
                                     !.said = Same(p, Traces(p)) # {}])
    /\ UNCHANGED <<stored, faults, lost>>

-----------------------------------------------------------------------------
(* The confirmed call                                                        *)

\* Everything is read again, and overwritten until the end.
Confirm(p) ==
    /\ At(p, "asked")
    /\ Becomes(p, [request[p] EXCEPT !.step = "send", !.status = quote, !.before = {}, !.said = FALSE,
                                     !.notes = replies \cap Thread(KindOf(p))])
    /\ UNCHANGED <<stored, faults, lost>>

Afterwards(p) ==
    IF IsReply(p) THEN "note" ELSE IF KindOf(p) = "quote" THEN "record" ELSE "audit"

\* An answer without a message id is believed.
Outcomes_unchecked == BOOLEAN \X BOOLEAN
\* The provider takes it and is heard, takes it and is not, or does not take it; an
\* answer without a message id is not one.
Outcomes == {<<TRUE, TRUE>>, <<TRUE, FALSE>>, <<FALSE, FALSE>>}

Send(p) ==
    /\ At(p, "send")
    /\ \E outcome \in Outcomes :
         /\ arrived' = IF outcome[1] THEN arrived \cup {p} ELSE arrived
         /\ IF outcome[2] THEN Becomes(p, [request[p] EXCEPT !.step = Afterwards(p), !.heard = TRUE])
                          ELSE End(p, FALSE, "failed")
    /\ UNCHANGED <<replies, audits, delivered, quote, faults, lost>>

WriteFails == faults < MaxFaults /\ faults' = faults + 1

\* The notes read before the reply left are written back with one more; "a failed
\* note must not make a sent reply look unsent".
Note(p) ==
    /\ At(p, "note")
    /\ \/ /\ replies' = (replies \ Thread(KindOf(p))) \cup request[p].notes \cup {p}
          /\ Becomes(p, [request[p] EXCEPT !.step = "audit", !.notes = {}])
          /\ lost' = lost \cup (replies \ replies')
          /\ UNCHANGED faults
       \/ /\ WriteFails
          /\ Becomes(p, [request[p] EXCEPT !.step = "audit", !.notes = {}])
          /\ lost' = lost \cup {p}
          /\ UNCHANGED replies
    /\ UNCHANGED <<arrived, audits, delivered, quote>>

\* sendDocument: the record of the delivery and, if the quote was a draft when it
\* was loaded, its status.
Record(p) ==
    /\ At(p, "record")
    /\ \/ /\ delivered' = delivered \cup {p}
          /\ quote' = IF request[p].status = "draft" THEN "sent" ELSE quote
          /\ Goto(p, "audit")
          /\ UNCHANGED faults
       \/ /\ WriteFails
          /\ End(p, TRUE, "failed")
          /\ UNCHANGED <<delivered, quote>>
    /\ UNCHANGED <<arrived, replies, audits, lost>>

\* A failed audit is an error whatever was sent.
Unaudited_told(p) == "failed"
\* "Nothing after this point may report the reply as failed": so it is for a reply
\* to an email; elsewhere the failed audit is what the caller is told.
Unaudited(p) == IF KindOf(p) = "email_reply" THEN "sent" ELSE "failed"

Audit(p) ==
    /\ At(p, "audit")
    /\ \/ /\ audits' = audits \cup {p}
          /\ End(p, TRUE, "sent")
          /\ UNCHANGED faults
       \/ /\ WriteFails
          /\ End(p, TRUE, Unaudited(p))
          /\ UNCHANGED audits
    /\ UNCHANGED <<arrived, replies, delivered, quote, lost>>

\* The server dies: nobody is told anything.
Die(p) ==
    /\ request[p].step \notin {"idle", "done"}
    /\ End(p, request[p].heard, "none")
    /\ UNCHANGED <<stored, faults, lost>>

\* changeQuoteStatus, by somebody else meanwhile.
ChangeQuote(status) ==
    /\ quote # status
    /\ quote' = status
    /\ UNCHANGED <<arrived, replies, audits, delivered, request, faults, lost>>

-----------------------------------------------------------------------------
QuoteStatuses == {"draft", "sent", "accepted"}

Init ==
    /\ arrived = {} /\ replies = {} /\ audits = {} /\ delivered = {}
    /\ quote = "draft"
    /\ request = [p \in Requests |-> Idle]
    /\ faults = 0
    /\ lost = {}

Step(p) == Ask(p) \/ Confirm(p) \/ Send(p) \/ Note(p) \/ Record(p) \/ Audit(p)

Next ==
    \/ \E p \in Requests : (\E l \in Letters : Review(p, l)) \/ Step(p) \/ Die(p)
    \/ \E status \in QuoteStatuses : ChangeQuote(status)

Spec == Init /\ [][Next]_vars

-----------------------------------------------------------------------------
Request == [letter : Letters \cup {None},
            step : {"idle", "review", "asked", "send", "note", "record", "audit", "done"},
            notes : SUBSET Requests, status : QuoteStatuses \cup {"none"}, heard : BOOLEAN,
            before : SUBSET Requests, said : BOOLEAN, answer : {"none", "sent", "failed"}]

\* The type invariant: whatever was noted, recorded or audited has left.
TypeOK ==
    /\ arrived \subseteq Requests /\ request \in [Requests -> Request]
    /\ replies \cup audits \cup delivered \cup lost \subseteq arrived
    /\ quote \in QuoteStatuses /\ faults \in 0..MaxFaults
    /\ \A p \in Requests : /\ request[p].notes \subseteq arrived
                           /\ request[p].heard => p \in arrived

\* "Nothing after this point may report the reply as failed, or the owner would be
\* invited to send it a second time": what is told as sent has arrived, and a reply
\* to an email that the provider acknowledged is never told as failed.
ToldAsHeard ==
    \A p \in Requests :
        /\ request[p].answer = "sent" => p \in arrived
        /\ request[p].answer = "failed" /\ request[p].letter # None /\ KindOf(p) = "email_reply"
             => ~request[p].heard

\* "When a message is put up for review, a send of the same text to the same
\* recipients shortly before is found and said": a review begun after the same
\* reply or email was told as sent says so, although the note or the audit of it
\* could not be written.  Excepted is a reply that has neither: its note failed, or
\* another reply to the same message, sent from an older copy of the notes, wrote
\* over it, and its audit failed as well.
RepeatIsSaid ==
    \A p \in Requests :
        At(p, "asked") /\ KindOf(p) # "quote" /\ Same(p, request[p].before) # {}
        => request[p].said
=============================================================================
