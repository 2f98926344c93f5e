------------------------------ MODULE Enquiries ------------------------------
(***************************************************************************)
(* Messages received from customers and the Communication Log records they *)
(* become (backend/src/services/communicationService.ts), worked on by     *)
(* several requests at once.                                               *)
(*                                                                         *)
(* A step is one statement at READ COMMITTED, or one transaction whose     *)
(* statements keep every row they depend on locked until it commits; the   *)
(* transaction that resolves many messages does not, and takes two steps.  *)
(* A record is named by the request that created it.  Texts, clients and   *)
(* due dates are left out: only whether something still waits is kept.     *)
(***************************************************************************)
EXTENDS Naturals, FiniteSets

CONSTANTS
    Messages,   \* messages at the provider
    Requests,   \* requests; bounds how many are made
    None        \* no message, no record

ASSUME EnquiriesAssumption == None \notin Messages \cup Requests

VARIABLES
    intake,     \* of a message: status, needed (resolutionNeeded), record
    record,     \* of a request that converted: of (the message), needed (followUpNeeded)
    request,    \* what each request is doing
    decided,    \* history: was the last decision about a message to keep it open?
    extractions,\* history: how often a message was extracted
    crossed     \* history: messages that changed behind a bulk yes which had looked at them

vars == <<intake, record, request, decided, extractions, crossed>>
history == <<decided, extractions, crossed>>

Idle == [op |-> "none", step |-> "idle", message |-> None, needed |-> FALSE,
         shown |-> {}, records |-> {}, held |-> {}]

At(p, op, step) == request[p].op = op /\ request[p].step = step
Becomes(p, q)   == request' = [request EXCEPT ![p] = q]
Done(p)         == Becomes(p, [Idle EXCEPT !.op = request[p].op, !.step = "done"])

Exists(m)    == intake[m].status \notin {"none", "deleted"}
RecordsOf(m) == {r \in Requests : record[r].of = m}
\* The messages whose intake points at record r.
LinkedTo(r)  == {m \in Messages : Exists(m) /\ intake[m].record = r}

\* No bulk transaction has the message's row.
RowFree(m) == \A q \in Requests : m \notin request[q].held

\* The messages, of ms, that a bulk yes has read and not marked yet, and those that it
\* left alone when it marked the others.
Unmarked(ms) == {m \in ms : \E q \in Requests : request[q].step = "mark" /\ m \in request[q].shown}
LeftOut(ms)  == {m \in ms : \E q \in Requests : /\ request[q].step = "close"
                                                /\ m \in request[q].shown \ request[q].held}

-----------------------------------------------------------------------------
\* The same message again starts over.
Unseen_redelivered(m) == TRUE
\* The unique key: a message delivered again finds its intake.  A message is named by its
\* intake: one that was deleted here and is back at Gmail is another of Messages.
Unseen(m) == intake[m].status = "none"

\* receiveWebhook, importMessageReferences
Receive(m) ==
    /\ Unseen(m)
    /\ intake' = [intake EXCEPT ![m] = [status |-> "new", needed |-> TRUE, record |-> None]]
    /\ decided' = [decided EXCEPT ![m] = TRUE]
    /\ UNCHANGED <<record, request, extractions, crossed>>

-----------------------------------------------------------------------------
(* extractCommunicationIntake: the status is read first, the write is        *)
(* unconditional.                                                            *)

Extract(p, m) ==
    /\ At(p, "none", "idle")
    /\ intake[m].status \in {"new", "extracted"}
    /\ Becomes(p, [Idle EXCEPT !.op = "extract", !.step = "write", !.message = m])
    /\ UNCHANGED <<intake, record, history>>

ExtractWrite(p) ==
    LET m == request[p].message IN
    /\ At(p, "extract", "write")
    /\ Exists(m) /\ RowFree(m)
    /\ intake' = [intake EXCEPT ![m].status = "extracted"]
    /\ extractions' = [extractions EXCEPT ![m] = @ + 1]
    /\ Done(p)
    /\ UNCHANGED <<record, decided, crossed>>

-----------------------------------------------------------------------------
(* convertCommunicationIntake: checks and previews outside, then one         *)
(* transaction.                                                              *)

Convert(p, m) ==
    /\ At(p, "none", "idle")
    /\ intake[m].status = "extracted"
    /\ Becomes(p, [Idle EXCEPT !.op = "convert", !.step = "commit", !.message = m,
                               !.needed = intake[m].needed])
    /\ UNCHANGED <<intake, record, history>>

\* The claim takes any intake.
Claimable_any(m) == Exists(m)
\* "Claim the extracted intake inside the same transaction".
Claimable(m) == intake[m].status = "extracted"

\* The follow-up as it was when the conversion was previewed.
FollowUp_previewed(p) == request[p].needed
\* The follow-up as the claimed row has it.
FollowUp(p) == intake[request[p].message].needed

ConvertCommit(p) ==
    LET m == request[p].message IN
    /\ At(p, "convert", "commit")
    /\ RowFree(m)
    /\ Done(p)
    /\ IF Claimable(m)
         THEN /\ record' = [record EXCEPT ![p] = [of |-> m, needed |-> FollowUp(p)]]
              /\ intake' = [intake EXCEPT ![m].status = "converted", ![m].record = p]
              /\ crossed' = crossed \cup Unmarked({m})
         ELSE UNCHANGED <<intake, record, crossed>>
    /\ UNCHANGED <<decided, extractions>>

-----------------------------------------------------------------------------
(* One message, decided: from its intake or from its record.                 *)

Decide(ms, needed) ==
    /\ decided' = [m \in Messages |-> IF m \in ms THEN needed ELSE decided[m]]
    /\ crossed' = crossed \cup (IF needed THEN LeftOut(ms) ELSE {})
    /\ UNCHANGED extractions

Answered(p, op) ==
    /\ At(p, "none", "idle")
    /\ Becomes(p, [Idle EXCEPT !.op = op, !.step = "done"])

\* updateCommunicationIntakeResolution: the intake, then the record it names.
Resolve(p, m, needed) ==
    /\ Answered(p, "resolve")
    /\ Exists(m) /\ RowFree(m)
    /\ intake' = [intake EXCEPT ![m].needed = needed]
    /\ record' = [r \in Requests |->
                    IF r = intake[m].record THEN [record[r] EXCEPT !.needed = needed] ELSE record[r]]
    /\ Decide({m}, needed)

\* The intakes that name the record follow it.
Followers(r) == LinkedTo(r)

\* updateCommunicationRecord: the record, then the intakes that name it.
UpdateRecord(p, r, needed) ==
    /\ Answered(p, "update")
    /\ record[r].of # None
    /\ \A m \in LinkedTo(r) : RowFree(m)
    /\ record' = [record EXCEPT ![r].needed = needed]
    /\ intake' = [m \in Messages |->
                    IF m \in Followers(r) THEN [intake[m] EXCEPT !.needed = needed] ELSE intake[m]]
    /\ Decide({record[r].of}, needed)

-----------------------------------------------------------------------------
(* resolveCommunicationIntakes                                               *)

\* The preview shows the messages that wait; the yes will name exactly these.
Preview(p) ==
    /\ At(p, "none", "idle")
    /\ \E ms \in SUBSET {m \in Messages : Exists(m) /\ intake[m].needed} :   \* one channel, or all
         /\ ms # {}
         /\ Becomes(p, [Idle EXCEPT !.op = "bulk", !.step = "yes", !.shown = ms])
    /\ UNCHANGED <<intake, record, history>>

\* The candidates and their records are read before the transaction ...
Yes(p) ==
    LET batch == {m \in request[p].shown : Exists(m) /\ intake[m].needed} IN
    /\ At(p, "bulk", "yes")
    /\ IF batch = {} THEN Done(p)
       ELSE Becomes(p, [request[p] EXCEPT
              !.step = "mark", !.shown = batch,
              !.records = {intake[m].record : m \in batch} \ {None}])
    /\ UNCHANGED <<intake, record, history>>

\* ... its first statement takes the messages that still wait ...
Mark(p) ==
    LET still == {m \in request[p].shown : Exists(m) /\ intake[m].needed} IN
    /\ At(p, "bulk", "mark")
    /\ \A m \in still : RowFree(m)
    /\ Becomes(p, [request[p] EXCEPT !.step = "close", !.held = still])
    /\ UNCHANGED <<intake, record, history>>

\* ... its second closes the records read before, and it commits.
Close(p) ==
    /\ At(p, "bulk", "close")
    /\ intake' = [m \in Messages |->
                    IF m \in request[p].held THEN [intake[m] EXCEPT !.needed = FALSE] ELSE intake[m]]
    /\ record' = [r \in Requests |->
                    IF r \in request[p].records THEN [record[r] EXCEPT !.needed = FALSE] ELSE record[r]]
    /\ decided' = [m \in Messages |-> decided[m] /\ m \notin request[p].held]
    /\ Done(p)
    /\ UNCHANGED <<extractions, crossed>>

-----------------------------------------------------------------------------
\* deleteGmailIntake, the local half: the record is preserved.
Delete(p, m) ==
    /\ Answered(p, "delete")
    /\ Exists(m) /\ RowFree(m)
    /\ intake' = [intake EXCEPT ![m].status = "deleted"]
    /\ crossed' = crossed \cup Unmarked({m})
    /\ UNCHANGED <<record, decided, extractions>>

\* A statement fails, a deadlock is broken or the server dies: rolled back.
Fail(p) ==
    /\ request[p].step \notin {"idle", "done"}
    /\ Done(p)
    /\ UNCHANGED <<intake, record, history>>

-----------------------------------------------------------------------------
Statuses == {"none", "new", "extracted", "converted", "deleted"}

\* Some messages are already there, some of them extracted.
Init ==
    /\ intake \in [Messages -> {[status |-> s, needed |-> s # "none", record |-> None] :
                                 s \in {"none", "new", "extracted"}}]
    /\ record = [p \in Requests |-> [of |-> None, needed |-> FALSE]]
    /\ request = [p \in Requests |-> Idle]
    /\ decided = [m \in Messages |-> intake[m].needed]
    /\ extractions = [m \in Messages |-> IF intake[m].status = "extracted" THEN 1 ELSE 0]
    /\ crossed = {}

Arrival(p) ==
    \/ \E m \in Messages : Extract(p, m) \/ Convert(p, m) \/ Delete(p, m)
    \/ \E m \in Messages, needed \in BOOLEAN : Resolve(p, m, needed)
    \/ \E r \in Requests, needed \in BOOLEAN : UpdateRecord(p, r, needed)
    \/ Preview(p)

Step(p) == ExtractWrite(p) \/ ConvertCommit(p) \/ Yes(p) \/ Mark(p) \/ Close(p)

Next ==
    \/ \E m \in Messages : Receive(m)
    \/ \E p \in Requests : Arrival(p) \/ Step(p) \/ Fail(p)

Spec == Init /\ [][Next]_vars

-----------------------------------------------------------------------------
Intake  == [status : Statuses, needed : BOOLEAN, record : Requests \cup {None}]
Record  == [of : Messages \cup {None}, needed : BOOLEAN]
Request == [op : {"none", "extract", "convert", "resolve", "update", "bulk", "delete"},
            step : {"idle", "write", "commit", "yes", "mark", "close", "done"},
            message : Messages \cup {None}, needed : BOOLEAN,
            shown : SUBSET Messages, records : SUBSET Requests, held : SUBSET Messages]

\* The type invariant: a link names a record of that very message, and one
\* delivered again does not start over.
TypeOK ==
    /\ intake \in [Messages -> Intake] /\ record \in [Requests -> Record]
    /\ request \in [Requests -> Request]
    /\ decided \in [Messages -> BOOLEAN] /\ extractions \in [Messages -> Nat]
    /\ crossed \subseteq Messages
    /\ \A m \in Messages :
         /\ intake[m].record \in {None} \cup RecordsOf(m)
         /\ intake[m].status = "new" => extractions[m] = 0
         /\ intake[m].status = "converted" => intake[m].record # None
    /\ \A p \in Requests : request[p].held \subseteq request[p].shown

\* The enquiry is in the list of what waits (listEnquiries).
Listed(m) ==
    \/ intake[m].status \in {"new", "extracted"} /\ intake[m].needed
    \/ \E r \in RecordsOf(m) : record[r].needed

\* "It does not infer ...; before CRM conversion resolutionNeeded is authoritative;
\* after conversion followUpNeeded": whichever table answers, an enquiry waits in
\* the list exactly when the last decision about it was to keep it open, however
\* conversions, reopenings and bulk resolutions overlap.  Excepted are a message with two
\* records, one converted or deleted after a bulk yes has read it and before it is marked,
\* and one that a bulk yes found resolved and that is reopened before its second statement.
ListedAsDecided ==
    \A m \in Messages \ crossed :
        (Exists(m) \/ RecordsOf(m) # {}) /\ Cardinality(RecordsOf(m)) <= 1
        => (Listed(m) <=> decided[m])

\* A conversion uses up an extraction: a message never has more records than
\* times it was extracted, so two confirmations of one extraction make one.
OnePerExtraction ==
    \A m \in Messages : Cardinality(RecordsOf(m)) <= extractions[m]

-----------------------------------------------------------------------------
(* What the comments say and the code does not keep. *)

\* "Two concurrent confirmations cannot both create a client and communication
\* record for the same original message."
ConvertedOnce == \A m \in Messages : Cardinality(RecordsOf(m)) <= 1

\* "Linked Communication Log follow-ups are closed with them, as for a single message":
\* a resolved message has no follow-up open.
FollowUpsClosedWithThem ==
    \A m \in Messages :
        Exists(m) /\ ~intake[m].needed /\ intake[m].record # None => ~record[intake[m].record].needed
=============================================================================
