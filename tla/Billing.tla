------------------------------- MODULE Billing -------------------------------
(***************************************************************************)
(* One invoice (backend/src/services/invoiceService.ts) and one quote      *)
(* (quoteService.ts) that several requests work on at once.                *)
(*                                                                         *)
(* A step is one statement at READ COMMITTED.  The lines of a document are *)
(* what it adds up to: a line stands for the list of lines one request     *)
(* wrote, with its total in whole pence.  An invoice's transactions begin  *)
(* with SELECT ... FOR UPDATE on its row; a quote's do not.  updatedAt is  *)
(* a counter: two changes never fall into one millisecond.                 *)
(***************************************************************************)
EXTENDS Integers, FiniteSets, FiniteSetsExt

CONSTANTS
    Requests,   \* requests; bounds how many are made
    Prices,     \* totals a list of lines can have; amounts paid, if positive
    Original,   \* who wrote the lines the documents were created with
    AnyRevision \* no expected_revision

ASSUME BillingAssumption ==
    /\ IsFiniteSet(Requests)
    /\ Prices \subseteq Nat
    /\ Original \notin Requests
    /\ AnyRevision \notin Nat

VARIABLES
    invoice,    \* status, lines, payments, revision (updatedAt)
    quote,      \* status, lines
    request,    \* what each request is doing
    shown       \* history: the document each revision stood for

vars == <<invoice, quote, request, shown>>

Idle == [op |-> "none", step |-> "idle", price |-> 0, target |-> "none",
         expected |-> AnyRevision, candidates |-> {}, deleted |-> {},
         answer |-> "none"]

At(p, op, step) == request[p].op = op /\ request[p].step = step
Becomes(p, q)   == request' = [request EXCEPT ![p] = q]
Goto(p, step)   == Becomes(p, [request[p] EXCEPT !.step = step])

\* p answers; its transaction is over.
Reply(p, answer) ==
    Becomes(p, [request[p] EXCEPT !.step = "done", !.answer = answer,
                                  !.candidates = {}, !.deleted = {}])

Total(lines)      == MapThenSumSet(LAMBDA l : l.price, lines)
Paid(payments)    == MapThenSumSet(LAMBDA l : l.price, payments)
\* totals(): never below zero.
Balance(document) ==
    LET rest == Total(document.lines) - Paid(document.payments)
    IN  IF rest > 0 THEN rest ELSE 0

\* The transaction does not lock the invoice's row.
RowFree_unlocked(p) == TRUE
\* FOR UPDATE: p gets the invoice's row when no other transaction has it.
RowFree(p) ==
    \A q \in Requests \ {p} :
        ~(request[q].op \in {"edit", "status", "pay"} /\ request[q].step \in {"scan", "delete", "write"})

\* Every commit of a change moves the revision.
Moves(new) ==
    /\ invoice' = [new EXCEPT !.revision = invoice.revision + 1]
    /\ shown' = [shown EXCEPT ![invoice.revision + 1] = [lines |-> new.lines, payments |-> new.payments]]

-----------------------------------------------------------------------------
(* Lines are replaced: a DELETE, whose snapshot is taken when it starts and  *)
(* which waits for rows another transaction is deleting, then INSERTs.       *)

Scan(p, op, document) ==
    /\ At(p, op, "scan")
    /\ Becomes(p, [request[p] EXCEPT !.step = "delete", !.candidates = document.lines])
    /\ UNCHANGED <<invoice, quote, shown>>

Delete(p, op, document) ==
    /\ At(p, op, "delete")
    /\ \A q \in Requests \ {p} :
         request[q].op = op => request[q].deleted \cap request[p].candidates = {}
    /\ Becomes(p, [request[p] EXCEPT !.step = "write",
                                     !.deleted = request[p].candidates \cap document.lines])
    /\ UNCHANGED <<invoice, quote, shown>>

Replaced(p, document) ==
    [document EXCEPT !.lines = (@ \ request[p].deleted) \cup {[by |-> p, price |-> request[p].price]}]

-----------------------------------------------------------------------------
(* updateInvoice *)

\* The status is looked at before the transaction ...
EditInvoice(p, price) ==
    /\ At(p, "none", "idle")
    /\ IF invoice.status = "draft"
         THEN Becomes(p, [Idle EXCEPT !.op = "edit", !.step = "lock", !.price = price])
         ELSE Becomes(p, [Idle EXCEPT !.op = "edit", !.step = "done", !.answer = "not_editable"])
    /\ UNCHANGED <<invoice, quote, shown>>

\* The first look is believed.
StillDraft_unchecked == TRUE
StillDraft == invoice.status = "draft"

\* ... and again under the row lock.
EditLock(p) ==
    /\ At(p, "edit", "lock")
    /\ RowFree(p)
    /\ IF StillDraft THEN Goto(p, "scan") ELSE Reply(p, "not_editable")
    /\ UNCHANGED <<invoice, quote, shown>>

EditWrite(p) ==
    /\ At(p, "edit", "write")
    /\ Moves(Replaced(p, invoice))
    /\ Reply(p, "saved")
    /\ UNCHANGED quote

-----------------------------------------------------------------------------
(* changeInvoiceStatus *)

\* With expected_revision, the revision its caller was shown.
ChangeStatus(p, target, expected) ==
    /\ At(p, "none", "idle")
    /\ Becomes(p, [Idle EXCEPT !.op = "status", !.step = "lock", !.target = target,
                               !.expected = expected])
    /\ UNCHANGED <<invoice, quote, shown>>

Transitions == {<<"draft", "issued">>, <<"draft", "void">>, <<"issued", "void">>}

Allowed(from, to) == from = to \/ <<from, to>> \in Transitions

\* The revision is not compared.
AsExpected_ignored(p) == TRUE
AsExpected(p) == request[p].expected \in {AnyRevision, invoice.revision}

StatusLock(p) ==
    /\ At(p, "status", "lock")
    /\ RowFree(p)
    /\ IF ~AsExpected(p) THEN Reply(p, "changed")
       ELSE IF ~Allowed(invoice.status, request[p].target) THEN Reply(p, "invalid")
       ELSE Goto(p, "write")
    /\ UNCHANGED <<invoice, quote, shown>>

StatusWrite(p) ==
    /\ At(p, "status", "write")
    /\ Moves([invoice EXCEPT !.status = request[p].target])
    /\ Reply(p, "saved")
    /\ UNCHANGED quote

-----------------------------------------------------------------------------
(* addPayment *)

Payable(amount) == invoice.status = "issued" /\ amount <= Balance(invoice)

\* Checked and previewed before the transaction ...
AddPayment(p, amount) ==
    /\ At(p, "none", "idle")
    /\ Becomes(p, [Idle EXCEPT !.op = "pay", !.price = amount,
                               !.step = IF Payable(amount) THEN "lock" ELSE "done",
                               !.answer = IF Payable(amount) THEN "none" ELSE "refused"])
    /\ UNCHANGED <<invoice, quote, shown>>

\* The preview is believed.
StillPayable_unchecked(amount) == TRUE
StillPayable(amount) == Payable(amount)

\* ... and again under the row lock.
PayLock(p) ==
    /\ At(p, "pay", "lock")
    /\ RowFree(p)
    /\ IF StillPayable(request[p].price) THEN Goto(p, "write") ELSE Reply(p, "refused")
    /\ UNCHANGED <<invoice, quote, shown>>

PaidStatus == "paid"

\* The payment, and with the last one the status, in one transaction.
PayWrite(p) ==
    LET after == [invoice EXCEPT !.payments = @ \cup {[by |-> p, price |-> request[p].price]}] IN
    /\ At(p, "pay", "write")
    /\ Moves(IF Balance(after) = 0 THEN [after EXCEPT !.status = PaidStatus] ELSE after)
    /\ Reply(p, "saved")
    /\ UNCHANGED quote

-----------------------------------------------------------------------------
(* updateQuote and changeQuoteStatus: whatever its status, no lock. *)

EditQuote(p, price) ==
    /\ At(p, "none", "idle")
    /\ Becomes(p, [Idle EXCEPT !.op = "requote", !.step = "scan", !.price = price])
    /\ UNCHANGED <<invoice, quote, shown>>

QuoteWrite(p) ==
    /\ At(p, "requote", "write")
    /\ quote' = Replaced(p, quote)
    /\ Reply(p, "saved")
    /\ UNCHANGED <<invoice, shown>>

ChangeQuoteStatus(p, status) ==
    /\ At(p, "none", "idle")
    /\ quote' = [quote EXCEPT !.status = status]
    /\ Becomes(p, [Idle EXCEPT !.op = "quote_status", !.step = "done", !.answer = "saved"])
    /\ UNCHANGED <<invoice, shown>>

-----------------------------------------------------------------------------
\* A statement fails or the server dies: the transaction is rolled back.
Fail(p) ==
    /\ request[p].step \notin {"idle", "done"}
    /\ Reply(p, "error")
    /\ UNCHANGED <<invoice, quote, shown>>

InvoiceStatuses == {"draft", "issued", "paid", "void"}
QuoteStatuses   == {"draft", "sent", "accepted", "rejected", "expired"}
Revisions       == 0..Cardinality(Requests)

\* createInvoice, createQuote
Init ==
    \E price \in Prices :
        /\ invoice = [status |-> "draft", lines |-> {[by |-> Original, price |-> price]},
                      payments |-> {}, revision |-> 0]
        /\ quote = [status |-> "draft", lines |-> {[by |-> Original, price |-> price]}]
        /\ request = [p \in Requests |-> Idle]
        /\ shown = [v \in Revisions |-> [lines |-> invoice.lines, payments |-> {}]]

Arrival(p) ==
    \/ \E price \in Prices : EditInvoice(p, price) \/ EditQuote(p, price)
    \/ \E amount \in Prices \ {0} : AddPayment(p, amount)
    \/ \E target \in {"draft", "issued", "void"}, v \in 0..invoice.revision \cup {AnyRevision} :
         ChangeStatus(p, target, v)
    \/ \E status \in QuoteStatuses : ChangeQuoteStatus(p, status)

Step(p) ==
    \/ EditLock(p) \/ Scan(p, "edit", invoice) \/ Delete(p, "edit", invoice) \/ EditWrite(p)
    \/ StatusLock(p) \/ StatusWrite(p) \/ PayLock(p) \/ PayWrite(p)
    \/ Scan(p, "requote", quote) \/ Delete(p, "requote", quote) \/ QuoteWrite(p)

Next == \E p \in Requests : Arrival(p) \/ Step(p) \/ Fail(p)

Spec == Init /\ [][Next]_vars

-----------------------------------------------------------------------------
Lines == [by : Requests \cup {Original}, price : Prices]

Request ==
    [op : {"none", "edit", "status", "pay", "requote", "quote_status"},
     step : {"idle", "lock", "scan", "delete", "write", "done"},
     price : Prices \cup {0}, target : InvoiceStatuses \cup {"none"},
     expected : Revisions \cup {AnyRevision},
     candidates : SUBSET Lines, deleted : SUBSET Lines,
     answer : {"none", "saved", "not_editable", "changed", "invalid", "refused", "error"}]

\* Both documents, and what the requests hold of them.
DocumentTypes ==
    /\ invoice \in [status : InvoiceStatuses, lines : SUBSET Lines,
                    payments : SUBSET Lines, revision : Revisions]
    /\ quote \in [status : QuoteStatuses, lines : SUBSET Lines]
    /\ request \in [Requests -> Request]
    /\ \A p \in Requests : request[p].deleted \subseteq request[p].candidates
    /\ shown \in [Revisions -> [lines : SUBSET Lines, payments : SUBSET Lines]]

\* "Leaving old lines behind would silently add them to the total": the lines of
\* the invoice are always one submitted list.
InvoiceIsOneList == Cardinality(invoice.lines) = 1

\* The type invariant, with the one list of lines an invoice is made of although edits
\* that each replace it overlap.
TypeOK == DocumentTypes /\ InvoiceIsOneList

\* Payments never exceed what the invoice adds up to, and an invoice is paid
\* exactly when they reach it, however edits, payments and voids overlap.  (One
\* that adds up to nothing stays issued: no payment fits it.)
PaidWhenSettled ==
    /\ Paid(invoice.payments) <= Total(invoice.lines)
    /\ invoice.status = "paid" => Paid(invoice.payments) = Total(invoice.lines)
    /\ invoice.status = "issued" =>
         Paid(invoice.payments) < Total(invoice.lines) \/ Total(invoice.lines) = 0
    /\ invoice.status = "draft" => invoice.payments = {}

\* "Once an invoice is issued, the client has a copy of it": its lines never
\* change again, not even by an edit that began while it was a draft.
IssuedIsFrozen == [][invoice.status # "draft" => invoice'.lines = invoice.lines]_vars

\* An invoice is issued once, and what is paid or void stays so.
InvoiceLifeLine ==
    [][\/ invoice'.status = invoice.status
       \/ invoice.status = "draft" /\ invoice'.status \in {"issued", "void"}
       \/ invoice.status = "issued" /\ invoice'.status \in {"paid", "void"}]_vars

\* No payment is recorded of an invoice that is a draft, paid or void by then, though it
\* was previewed while the invoice was issued.
PaidOnlyWhileIssued ==
    [][invoice'.payments # invoice.payments => invoice.status = "issued"]_vars

\* What was issued, paid or voided is so for good.
IssuedForGood == IssuedIsFrozen /\ InvoiceLifeLine /\ PaidOnlyWhileIssued

\* With an expected revision, a status change is made to the very document that
\* revision showed, payments included: "an approved void must not act on an
\* invoice whose payments and balance have changed since".
ChangedAsShown ==
    [][\A p \in Requests :
        (/\ At(p, "status", "write") /\ request'[p].answer = "saved"
         /\ request[p].expected # AnyRevision)
        => /\ shown[request[p].expected].lines = invoice'.lines
           /\ shown[request[p].expected].payments = invoice'.payments]_vars

-----------------------------------------------------------------------------
\* "Replaces the full item set when items are supplied": the lines of the quote
\* are one submitted list.
QuoteIsOneList == Cardinality(quote.lines) = 1
=============================================================================
