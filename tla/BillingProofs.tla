---------------------------- MODULE BillingProofs ----------------------------
(* Theorems about invoices, for any number of requests and any prices. *)
EXTENDS Billing, TLAPS, WellFoundedInduction, FiniteSetTheorems

-----------------------------------------------------------------------------
(* What Total adds up to: lines are summed in whatever order, each once. *)

\* Induction on numbers and on finite sets, as the least counterexample.
LEMMA LeastNumber ==
  ASSUME NEW T, T \subseteq Nat, T # {}
  PROVE  \E n \in T : \A m \in T : n <= m
<1>1. PICK n \in T : \A m \in T : ~(<<m, n>> \in OpToRel(<, Nat))
  BY NatLessThanWellFounded, WFMin
<1>2. \A m \in T : ~(m < n)
  BY <1>1 DEF OpToRel
<1> QED
  BY <1>2

LEMMA LeastSet ==
  ASSUME NEW S, IsFiniteSet(S), NEW T, T \subseteq SUBSET S, T # {}
  PROVE  \E s \in T : \A t \in T : t \subseteq s => t = s
<1>1. IsWellFoundedOn(StrictSubsetOrdering(S), SUBSET S)
  BY FS_StrictSubsetOrderingWellFounded, FS_FiniteSubsetsOfFinite
<1>2. PICK s \in T : \A t \in T : ~(<<t, s>> \in StrictSubsetOrdering(S))
  BY <1>1, WFMin
<1> QED
  BY <1>2 DEF StrictSubsetOrdering

\* The line a sum takes first, and the function the sum of S is defined by.
First(s) == CHOOSE l \in s : TRUE
Rest(s)  == s \ {First(s)}
IsSum(S, sum) ==
    sum = [s \in SUBSET S |-> IF s = {} THEN 0 ELSE First(s).price + sum[Rest(s)]]

Priced(S) == IsFiniteSet(S) /\ \A l \in S : l.price \in Nat

LEMMA FirstOf ==
  ASSUME NEW s, s # {}
  PROVE  First(s) \in s /\ Rest(s) \subseteq s /\ Rest(s) # s
  BY DEF First, Rest

LEMMA PartPriced ==
  ASSUME NEW S, Priced(S), NEW s \in SUBSET S
  PROVE  Priced(s)
  BY FS_Subset DEF Priced

\* There is such a function: by induction on the size of the sets it is given for.
LEMMA SumExists ==
  ASSUME NEW S, Priced(S)
  PROVE  \E sum : sum \in [SUBSET S -> Nat] /\ IsSum(S, sum)
<1> DEFINE Small(n) == {s \in SUBSET S : Cardinality(s) <= n}
           Sums(n, sum) ==
               /\ sum \in [Small(n) -> Nat]
               /\ \A s \in Small(n) :
                     sum[s] = IF s = {} THEN 0 ELSE First(s).price + sum[Rest(s)]
           Bad == {n \in Nat : ~\E sum : Sums(n, sum)}
<1>0. \A s \in SUBSET S : IsFiniteSet(s) /\ Cardinality(s) \in Nat
  BY FS_Subset, FS_CardinalityType DEF Priced
<1>1. Bad = {}
  <2> SUFFICES ASSUME Bad # {} PROVE FALSE
    OBVIOUS
  <2>1. PICK n \in Bad : \A m \in Bad : n <= m
    BY LeastNumber
  <2>2. CASE n = 0
    <3>1. \A s \in Small(0) : s = {}
      BY <1>0, FS_EmptySet
    <3>2. Sums(0, [s \in Small(0) |-> 0])
      BY <3>1
    <3> QED
      BY <2>1, <2>2, <3>2
  <2>3. CASE n # 0
    <3>0. n \in Nat
      BY <2>1
    <3> HIDE DEF Bad
    <3>1. n - 1 \in Nat /\ n - 1 \notin Bad
      BY <2>1, <2>3, <3>0
    <3> USE DEF Bad
    <3>2. PICK g : Sums(n - 1, g)
      BY <3>1
    <3> DEFINE h == [s \in Small(n) |-> IF s = {} THEN 0 ELSE First(s).price + g[Rest(s)]]
    <3>3. ASSUME NEW s \in Small(n), s # {}
          PROVE  Rest(s) \in Small(n - 1) /\ First(s).price \in Nat
      <4>1. First(s) \in s /\ IsFiniteSet(s) /\ Cardinality(s) \in Nat
        BY <1>0, <3>3, FirstOf
      <4>2. Cardinality(Rest(s)) = Cardinality(s) - 1
        BY <4>1, FS_RemoveElement DEF Rest
      <4>3. Cardinality(Rest(s)) <= n - 1
        BY <4>1, <4>2, <3>1
      <4> QED
        BY <4>1, <4>3 DEF Rest, Priced
    <3>4. h \in [Small(n) -> Nat]
      <4>1. \A s \in Small(n) : s # {} => g[Rest(s)] \in Nat /\ First(s).price \in Nat
        BY <3>2, <3>3
      <4>2. \A s \in Small(n) : (IF s = {} THEN 0 ELSE First(s).price + g[Rest(s)]) \in Nat
        BY <4>1
      <4> QED
        BY <4>2
    <3>5. \A s \in Small(n - 1) : s \in Small(n) /\ h[s] = g[s]
      <4>1. \A s \in Small(n - 1) : s \in Small(n)
        BY <1>0, <3>1
      <4> QED
        BY <3>2, <4>1
    <3>6. \A s \in Small(n) : h[s] = IF s = {} THEN 0 ELSE First(s).price + h[Rest(s)]
      BY <3>3, <3>5
    <3>7. Sums(n, h)
      BY <3>4, <3>6
    <3> QED
      BY <2>1, <3>7
  <2> QED
    BY <2>2, <2>3
<1>2. Cardinality(S) \in Nat /\ Small(Cardinality(S)) = SUBSET S
  BY <1>0, FS_Subset DEF Priced
<1>3. PICK sum : Sums(Cardinality(S), sum)
  BY <1>1, <1>2
<1> QED
  BY <1>2, <1>3 DEF IsSum

\* There is only one.
LEMMA SumUnique ==
  ASSUME NEW S, Priced(S), NEW g, IsSum(S, g), NEW U \in SUBSET S, NEW h, IsSum(U, h)
  PROVE  \A s \in SUBSET U : h[s] = g[s]
<1> DEFINE Bad == {s \in SUBSET U : h[s] # g[s]}
<1>1. SUFFICES ASSUME Bad # {} PROVE FALSE
  OBVIOUS
<1>2. IsFiniteSet(U)
  BY FS_Subset DEF Priced
<1>3. PICK s \in Bad : \A t \in Bad : t \subseteq s => t = s
  <2>1. Bad \subseteq SUBSET U
    OBVIOUS
  <2> HIDE DEF Bad
  <2> QED
    BY <1>1, <1>2, <2>1, LeastSet
<1>4. /\ h[s] = IF s = {} THEN 0 ELSE First(s).price + h[Rest(s)]
      /\ g[s] = IF s = {} THEN 0 ELSE First(s).price + g[Rest(s)]
  BY <1>3 DEF IsSum
<1>5. s # {} => Rest(s) \in SUBSET U /\ Rest(s) \notin Bad
  BY <1>3, FirstOf
<1> QED
  BY <1>3, <1>4, <1>5

LEMMA TotalIs ==
  ASSUME NEW S, Priced(S), NEW sum, IsSum(S, sum)
  PROVE  \A s \in SUBSET S : Total(s) = sum[s]
<1> SUFFICES ASSUME NEW s \in SUBSET S PROVE Total(s) = sum[s]
  OBVIOUS
<1> DEFINE own == CHOOSE f : IsSum(s, f)
<1>1. Total(s) = own[s]
  BY Zenon DEF Total, MapThenSumSet, MapThenFoldSet, IsSum, First, Rest
<1>2. Priced(s)
  BY PartPriced
<1>3. IsSum(s, own)
  BY <1>2, SumExists
<1> HIDE DEF own
<1> QED
  BY <1>1, <1>3, SumUnique

\* The sum of a set of lines: nothing, or its first line and the rest.
LEMMA TotalFirst ==
  ASSUME NEW S, Priced(S)
  PROVE  /\ Total(S) \in Nat
         /\ Total(S) = IF S = {} THEN 0 ELSE First(S).price + Total(Rest(S))
<1>1. PICK sum : sum \in [SUBSET S -> Nat] /\ IsSum(S, sum)
  BY SumExists
<1>2. \A s \in SUBSET S : Total(s) = sum[s]
  BY <1>1, TotalIs
<1>3. Rest(S) \in SUBSET S
  BY DEF Rest
<1>4. Total(S) = sum[S] /\ Total(Rest(S)) = sum[Rest(S)]
  BY <1>2, <1>3
<1>5. sum[S] = IF S = {} THEN 0 ELSE First(S).price + sum[Rest(S)]
  BY <1>1 DEF IsSum
<1>6. sum[S] \in Nat
  BY <1>1
<1> QED
  BY <1>4, <1>5, <1>6

\* ... or any of its lines and the others: the order of lines does not matter.
LEMMA TotalAny ==
  ASSUME NEW S, Priced(S), NEW x \in S
  PROVE  Total(S) = x.price + Total(S \ {x})
<1> DEFINE Bad == {s \in SUBSET S : \E y \in s : Total(s) # y.price + Total(s \ {y})}
<1>1. SUFFICES ASSUME Bad # {} PROVE FALSE
  OBVIOUS
<1>2. PICK s \in Bad : \A t \in Bad : t \subseteq s => t = s
  <2>1. Bad \subseteq SUBSET S /\ IsFiniteSet(S)
    BY DEF Priced
  <2> HIDE DEF Bad
  <2> QED
    BY <1>1, <2>1, LeastSet
<1>3. PICK y \in s : Total(s) # y.price + Total(s \ {y})
  BY <1>2
<1> DEFINE c == First(s)
<1>4. s \in SUBSET S /\ s # {} /\ c \in s
  BY <1>2, <1>3, FirstOf
<1>5. Total(s) = c.price + Total(s \ {c})
  BY <1>4, PartPriced, TotalFirst DEF Rest
<1>6. y # c
  BY <1>3, <1>5
<1>7. Total(s \ {c}) = y.price + Total((s \ {c}) \ {y})
  <2>1. s \ {c} \in SUBSET S /\ s \ {c} \notin Bad
    BY <1>2, <1>4
  <2> QED
    BY <1>6, <2>1
<1>8. Total(s \ {y}) = c.price + Total((s \ {y}) \ {c})
  <2>1. s \ {y} \in SUBSET S /\ s \ {y} \notin Bad
    BY <1>2, <1>4
  <2> QED
    BY <1>4, <1>6, <2>1
<1>9. (s \ {c}) \ {y} = (s \ {y}) \ {c}
  OBVIOUS
<1>10. c.price \in Nat /\ y.price \in Nat /\ Total((s \ {c}) \ {y}) \in Nat
  <2>1. (s \ {c}) \ {y} \in SUBSET S
    BY <1>4
  <2> QED
    BY <1>4, <2>1, PartPriced, TotalFirst DEF Priced
<1>11. Total((s \ {y}) \ {c}) = Total((s \ {c}) \ {y})
  BY <1>9
<1>12. Total(s) = c.price + (y.price + Total((s \ {c}) \ {y}))
  BY <1>5, <1>7
<1>13. Total(s \ {y}) = c.price + Total((s \ {c}) \ {y})
  BY <1>8, <1>11
<1> HIDE DEF c, Bad
<1>14. c.price + (y.price + Total((s \ {c}) \ {y})) = y.price + (c.price + Total((s \ {c}) \ {y}))
  BY <1>10
<1> QED
  BY <1>3, <1>12, <1>13, <1>14

LEMMA TotalOne ==
  ASSUME NEW l, l.price \in Nat
  PROVE  Total({l}) = l.price /\ Total({}) = 0
<1>1. Priced({l}) /\ Priced({}) /\ {l} \ {l} = {}
  BY FS_Singleton, FS_EmptySet DEF Priced
<1> QED
  BY <1>1, TotalAny, TotalFirst

LEMMA TotalAdd ==
  ASSUME NEW S, Priced(S), NEW l, l.price \in Nat, l \notin S
  PROVE  Priced(S \cup {l}) /\ Total(S \cup {l}) = Total(S) + l.price
<1>1. Priced(S \cup {l})
  BY FS_AddElement DEF Priced
<1>2. Total(S \cup {l}) = l.price + Total((S \cup {l}) \ {l}) /\ (S \cup {l}) \ {l} = S
  BY <1>1, TotalAny
<1> QED
  BY <1>1, <1>2, TotalFirst

-----------------------------------------------------------------------------
(* The inductive invariant. *)

Changes == {"edit", "status", "pay"}

\* Has the invoice's row, and has saved a change of it.
Holds(q) == q.op \in Changes /\ q.step \in {"scan", "delete", "write"}
Saved(q) == q.op \in Changes /\ q.answer = "saved"

\* FOR UPDATE: the invoice's row has one holder.
OneHolder == \A p, q \in Requests : Holds(request[p]) /\ Holds(request[q]) => p = q

\* What a holder has looked at is still so ...
Sees(q) ==
    /\ q.op = "edit" =>
         /\ invoice.status = "draft"
         /\ q.step = "delete" => q.candidates = invoice.lines
         /\ q.step = "write" => q.deleted = invoice.lines
    /\ q.op = "status" =>
         /\ q.step = "write"
         /\ Allowed(invoice.status, q.target)
         /\ q.expected \in {AnyRevision, invoice.revision}
    /\ q.op = "pay" => q.step = "write" /\ Payable(q.price)

\* ... and what it was asked is sound.
Fits(q) ==
    /\ q.step # "done" => q.answer = "none"
    /\ q.op = "none" <=> q.step = "idle"
    /\ q.step # "write" => q.deleted = {}
    /\ q.op \in {"edit", "requote", "pay"} /\ q.step # "done" => q.price \in Prices
    /\ q.op = "pay" => q.price # 0
    /\ q.op = "status" => q.target \in {"draft", "issued", "void"}
    /\ Holds(q) => Sees(q)

AllFit == \A p \in Requests : Fits(request[p])

Kept == \E l \in Lines : invoice.lines = {l}

\* A payment is in the invoice when its request has saved it.
PaymentsSaved ==
    /\ IsFiniteSet(invoice.payments)
    /\ \A l \in invoice.payments : l.by \in Requests /\ Saved(request[l.by])

Savers == {p \in Requests : Saved(request[p])}

\* Every revision is the change of one request.
OneRevisionEach == invoice.revision = Cardinality(Savers)

ShownNow == shown[invoice.revision] = [lines |-> invoice.lines, payments |-> invoice.payments]

Inv ==
    /\ DocumentTypes /\ OneHolder /\ AllFit /\ Kept /\ PaymentsSaved
    /\ OneRevisionEach /\ ShownNow /\ PaidWhenSettled

-----------------------------------------------------------------------------
(* What an invoice adds up to. *)

LEMMA PaidIsTotal == \A S : Paid(S) = Total(S)
  BY Zenon DEF Paid, Total

LEMMA LinesPriced ==
  ASSUME NEW S, S \subseteq Lines, IsFiniteSet(S)
  PROVE  Priced(S) /\ Total(S) \in Nat /\ Paid(S) \in Nat
<1>1. Priced(S)
  BY BillingAssumption DEF Lines, Priced
<1> QED
  BY <1>1, TotalFirst, PaidIsTotal

LEMMA InvoiceAddsUp ==
  ASSUME Inv
  PROVE  Total(invoice.lines) \in Nat /\ Paid(invoice.payments) \in Nat
<1>1. invoice.lines \subseteq Lines /\ invoice.payments \subseteq Lines
  BY DEF Inv, DocumentTypes
<1>2. IsFiniteSet(invoice.lines) /\ IsFiniteSet(invoice.payments)
  BY FS_Singleton DEF Inv, Kept, PaymentsSaved
<1> QED
  BY <1>1, <1>2, LinesPriced

-----------------------------------------------------------------------------
(* Two kinds of steps: those that leave the invoice alone ... *)

LEMMA QuietStep ==
  ASSUME Inv, NEW p \in Requests, NEW q \in Request, Becomes(p, q),
         q.deleted \subseteq q.candidates, UNCHANGED <<invoice, shown>>,
         quote' \in [status : QuoteStatuses, lines : SUBSET Lines],
         Fits(q), ~Saved(request[p]), ~Saved(q),
         Holds(q) => Holds(request[p]) \/ RowFree(p)
  PROVE  Inv'
<1> USE DEF Becomes
<1>1. /\ request \in [Requests -> Request]
      /\ request'[p] = q
      /\ \A o \in Requests : o # p => request'[o] = request[o]
  BY DEF Inv, DocumentTypes
<1>2. DocumentTypes'
  <2>1. request' \in [Requests -> Request]
    BY <1>1
  <2>2. \A o \in Requests : request'[o].deleted \subseteq request'[o].candidates
    BY <1>1 DEF Inv, DocumentTypes
  <2> QED
    BY <2>1, <2>2 DEF Inv, DocumentTypes
<1>3. OneHolder'
  <2>1. ASSUME NEW o \in Requests, o # p, Holds(q), Holds(request[o]) PROVE FALSE
    BY <2>1 DEF Inv, OneHolder, RowFree, Holds, Changes
  <2>2. \A o \in Requests, r \in Requests :
          o # p /\ r # p /\ Holds(request[o]) /\ Holds(request[r]) => o = r
    BY DEF Inv, OneHolder
  <2> QED
    BY <1>1, <2>1, <2>2 DEF OneHolder
<1>4. AllFit'
  <2> SUFFICES ASSUME NEW o \in Requests PROVE Fits(request[o])'
    BY DEF AllFit
  <2>1. CASE o = p
    BY <1>1, <2>1 DEF Fits, Sees, Payable, Balance
  <2>2. CASE o # p
    <3>1. Fits(request[o])
      BY DEF Inv, AllFit
    <3> QED
      BY <1>1, <2>2, <3>1 DEF Fits, Sees, Payable, Balance
  <2> QED
    BY <2>1, <2>2
<1>5. \A o \in Requests : Saved(request[o])' <=> Saved(request[o])
  BY <1>1 DEF Saved
<1>6. PaymentsSaved'
  BY <1>5 DEF Inv, PaymentsSaved
<1>7. OneRevisionEach'
  <2>1. Savers' = Savers
    BY <1>5 DEF Savers
  <2> QED
    BY <2>1 DEF Inv, OneRevisionEach
<1>8. Kept' /\ ShownNow' /\ PaidWhenSettled'
  BY DEF Inv, Kept, ShownNow, PaidWhenSettled
<1> QED
  BY <1>2, <1>3, <1>4, <1>6, <1>7, <1>8 DEF Inv

LEMMA ReplyStep ==
  ASSUME Inv, NEW p \in Requests, NEW answer \in {"not_editable", "changed", "invalid", "refused", "error"},
         request[p].step \notin {"idle", "done"}, Reply(p, answer), UNCHANGED <<invoice, quote, shown>>
  PROVE  Inv'
<1> DEFINE q == [request[p] EXCEPT !.step = "done", !.answer = answer,
                                  !.candidates = {}, !.deleted = {}]
<1>1. request[p] \in Request /\ Fits(request[p])
  BY DEF Inv, DocumentTypes, AllFit
<1>2. /\ q \in Request /\ q.op = request[p].op /\ q.step = "done" /\ q.answer = answer
      /\ q.candidates = {} /\ q.deleted = {} /\ q.price = request[p].price
      /\ q.target = request[p].target
  BY <1>1 DEF Request
<1>3. Becomes(p, q)
  BY DEF Reply
<1>4. ~Saved(request[p]) /\ ~Saved(q) /\ ~Holds(q) /\ Fits(q)
  BY <1>1, <1>2 DEF Fits, Saved, Holds
<1>5. quote' \in [status : QuoteStatuses, lines : SUBSET Lines]
  BY DEF Inv, DocumentTypes
<1> HIDE DEF q
<1> QED
  BY <1>2, <1>3, <1>4, <1>5, QuietStep

\* ... and the commits of its holder.
LEMMA ChangeStep ==
  ASSUME Inv, NEW p \in Requests, Holds(request[p]), Reply(p, "saved"), UNCHANGED quote,
         NEW new, Moves(new), new.revision = invoice.revision,
         new \in [status : InvoiceStatuses, lines : SUBSET Lines,
                  payments : SUBSET Lines, revision : Revisions],
         \E l \in Lines : new.lines = {l},
         IsFiniteSet(new.payments), \A l \in new.payments : l \in invoice.payments \/ l.by = p,
         PaidWhenSettled'
  PROVE  Inv'
<1> DEFINE q == [request[p] EXCEPT !.step = "done", !.answer = "saved",
                                  !.candidates = {}, !.deleted = {}]
<1>1. request \in [Requests -> Request] /\ request[p] \in Request /\ Fits(request[p])
  BY DEF Inv, DocumentTypes, AllFit
<1>2. /\ q \in Request /\ q.op = request[p].op /\ q.step = "done" /\ q.answer = "saved"
      /\ q.candidates = {} /\ q.deleted = {} /\ q.price = request[p].price
      /\ q.target = request[p].target
  BY <1>1 DEF Request
<1> HIDE DEF q
<1>3. request'[p] = q /\ \A o \in Requests : o # p => request'[o] = request[o]
  BY <1>1 DEF Reply, Becomes, q
<1>4. ~Saved(request[p]) /\ Saved(q) /\ ~Holds(q)
  BY <1>1, <1>2 DEF Fits, Saved, Holds
<1>5. \A o \in Requests : o # p => ~Holds(request[o])
  BY DEF Inv, OneHolder
<1>6. \A o \in Requests : Saved(request[o])' <=> o = p \/ Saved(request[o])
  BY <1>3, <1>4 DEF Saved
<1>7. IsFiniteSet(Savers) /\ p \notin Savers /\ Savers' = Savers \cup {p}
  <2>1. Savers \subseteq Requests
    BY DEF Savers
  <2> QED
    BY <1>4, <1>6, <2>1, FS_Subset, BillingAssumption DEF Savers
<1>8. OneRevisionEach' /\ invoice.revision + 1 \in Revisions
  <2>1. Cardinality(Savers') = Cardinality(Savers) + 1 /\ Cardinality(Savers) \in Nat
    BY <1>7, FS_AddElement, FS_CardinalityType
  <2>2. Cardinality(Savers') <= Cardinality(Requests) /\ Cardinality(Requests) \in Nat
    <3>1. Savers' \subseteq Requests
      BY DEF Savers
    <3> QED
      BY <3>1, FS_Subset, FS_CardinalityType, BillingAssumption
  <2>3. invoice'.revision = invoice.revision + 1
    BY DEF Moves
  <2> QED
    BY <2>1, <2>2, <2>3 DEF Inv, OneRevisionEach, Revisions
<1>9. /\ invoice' \in [status : InvoiceStatuses, lines : SUBSET Lines,
                        payments : SUBSET Lines, revision : Revisions]
      /\ invoice'.revision = invoice.revision + 1
      /\ invoice'.lines = new.lines /\ invoice'.payments = new.payments
      /\ invoice'.status = new.status
  BY <1>8 DEF Moves
<1>10. /\ shown' \in [Revisions -> [lines : SUBSET Lines, payments : SUBSET Lines]]
       /\ shown'[invoice.revision + 1] = [lines |-> new.lines, payments |-> new.payments]
  BY <1>8 DEF Moves, Inv, DocumentTypes
<1>11. DocumentTypes'
  <2>1. request' \in [Requests -> Request]
    BY <1>1, <1>2 DEF Reply, Becomes, q
  <2>2. \A o \in Requests : request'[o].deleted \subseteq request'[o].candidates
    BY <1>2, <1>3 DEF Inv, DocumentTypes
  <2> QED
    BY <1>9, <1>10, <2>1, <2>2 DEF Inv, DocumentTypes
<1>12. \A o \in Requests : ~Holds(request'[o])
  BY <1>3, <1>4, <1>5
<1>13. OneHolder'
  BY <1>12 DEF OneHolder
<1>14. AllFit'
  <2> SUFFICES ASSUME NEW o \in Requests PROVE Fits(request[o])'
    BY DEF AllFit
  <2>1. ~Holds(request[o])'
    BY <1>12 DEF Holds
  <2>2. CASE o = p
    BY <1>1, <1>2, <1>3, <2>1, <2>2 DEF Fits, Holds
  <2>3. CASE o # p
    <3>1. Fits(request[o]) /\ request'[o] = request[o]
      BY <1>3, <2>3 DEF Inv, AllFit
    <3> QED
      BY <2>1, <3>1 DEF Fits
  <2> QED
    BY <2>2, <2>3
<1>15. PaymentsSaved'
  BY <1>6, <1>9 DEF Inv, PaymentsSaved
<1>16. Kept' /\ ShownNow'
  BY <1>9, <1>10 DEF Kept, ShownNow
<1> QED
  BY <1>8, <1>11, <1>13, <1>14, <1>15, <1>16 DEF Inv

-----------------------------------------------------------------------------
(* Every step keeps the invariant. *)

LEMMA InvInit == Init => Inv
<1> SUFFICES ASSUME Init PROVE Inv
  OBVIOUS
<1>1. PICK price \in Prices :
        /\ invoice = [status |-> "draft", lines |-> {[by |-> Original, price |-> price]},
                      payments |-> {}, revision |-> 0]
        /\ quote = [status |-> "draft", lines |-> {[by |-> Original, price |-> price]}]
        /\ request = [p \in Requests |-> Idle]
        /\ shown = [v \in Revisions |-> [lines |-> invoice.lines, payments |-> {}]]
  BY DEF Init
<1> DEFINE l == [by |-> Original, price |-> price]
<1>2. l \in Lines /\ l.price \in Nat
  BY BillingAssumption DEF Lines
<1>3. 0 \in Revisions
  BY FS_CardinalityType, BillingAssumption DEF Revisions
<1>4. Idle \in Request /\ ~Saved(Idle) /\ ~Holds(Idle) /\ Fits(Idle) /\ Idle.deleted = {}
  BY DEF Idle, Request, InvoiceStatuses, Saved, Holds, Changes, Fits
<1>5. \A p \in Requests : request[p] = Idle
  BY <1>1
<1>6. /\ invoice.status = "draft" /\ invoice.lines = {l} /\ invoice.payments = {}
      /\ invoice.revision = 0
  BY <1>1
<1>7. DocumentTypes
  <2>1. request \in [Requests -> Request] /\ \A p \in Requests : request[p].deleted \subseteq request[p].candidates
    BY <1>1, <1>4, <1>5
  <2>2. invoice \in [status : InvoiceStatuses, lines : SUBSET Lines,
                     payments : SUBSET Lines, revision : Revisions]
    BY <1>1, <1>2, <1>3 DEF InvoiceStatuses
  <2>3. quote \in [status : QuoteStatuses, lines : SUBSET Lines]
    BY <1>1, <1>2 DEF QuoteStatuses
  <2>4. shown \in [Revisions -> [lines : SUBSET Lines, payments : SUBSET Lines]]
    BY <1>1, <1>2, <1>6
  <2> QED
    BY <2>1, <2>2, <2>3, <2>4 DEF DocumentTypes
<1>8. OneHolder /\ AllFit
  BY <1>4, <1>5 DEF OneHolder, AllFit
<1>9. Kept /\ PaymentsSaved
  BY <1>2, <1>6, FS_EmptySet DEF Kept, PaymentsSaved
<1>10. OneRevisionEach
  <2>1. Savers = {}
    BY <1>4, <1>5 DEF Savers
  <2> QED
    BY <1>6, <2>1, FS_EmptySet DEF OneRevisionEach
<1>11. ShownNow
  BY <1>1, <1>3, <1>6 DEF ShownNow
<1>12. PaidWhenSettled
  <2>1. Total(invoice.lines) = l.price /\ Paid(invoice.payments) = 0
    <3> HIDE DEF l
    <3> QED
      BY <1>2, <1>6, TotalOne, PaidIsTotal
  <2> HIDE DEF l
  <2> QED
    BY <1>2, <1>6, <2>1 DEF PaidWhenSettled
<1> QED
  BY <1>7, <1>8, <1>9, <1>10, <1>11, <1>12 DEF Inv

\* Requests arrive.
LEMMA ArrivalStep ==
  ASSUME Inv, NEW p \in Requests, Arrival(p)
  PROVE  Inv'
<1>1. /\ request[p] \in Request /\ Fits(request[p]) /\ invoice.revision \in Revisions
      /\ quote \in [status : QuoteStatuses, lines : SUBSET Lines]
  BY DEF Inv, DocumentTypes, AllFit
<1>2. request[p].op = "none" => ~Saved(request[p])
  BY DEF Saved, Changes
<1>3. 0..invoice.revision \subseteq Revisions
  <2>1. Cardinality(Requests) \in Nat
    BY FS_CardinalityType, BillingAssumption
  <2> QED
    BY <1>1, <2>1 DEF Revisions
<1>4. ASSUME NEW r \in Request, Becomes(p, r), At(p, "none", "idle"), ~Saved(r), ~Holds(r), Fits(r),
             r.deleted = {}, UNCHANGED <<invoice, shown>>,
             quote' \in [status : QuoteStatuses, lines : SUBSET Lines]
      PROVE  Inv'
  BY <1>1, <1>2, <1>4, QuietStep DEF At
<1> USE DEF Idle, Request, InvoiceStatuses, Saved, Holds, Fits, Changes
<1>5. ASSUME NEW price \in Prices, EditInvoice(p, price) PROVE Inv'
  <2>1. CASE invoice.status = "draft"
    <3> DEFINE r == [Idle EXCEPT !.op = "edit", !.step = "lock", !.price = price]
    <3>1. r \in Request /\ ~Saved(r) /\ ~Holds(r) /\ Fits(r) /\ r.deleted = {}
      OBVIOUS
    <3> QED
      BY <1>1, <1>4, <1>5, <2>1, <3>1 DEF EditInvoice
  <2>2. CASE invoice.status # "draft"
    <3> DEFINE r == [Idle EXCEPT !.op = "edit", !.step = "done", !.answer = "not_editable"]
    <3>1. r \in Request /\ ~Saved(r) /\ ~Holds(r) /\ Fits(r) /\ r.deleted = {}
      OBVIOUS
    <3> QED
      BY <1>1, <1>4, <1>5, <2>2, <3>1 DEF EditInvoice
  <2> QED
    BY <2>1, <2>2
<1>6. ASSUME NEW price \in Prices, EditQuote(p, price) PROVE Inv'
  <2> DEFINE r == [Idle EXCEPT !.op = "requote", !.step = "scan", !.price = price]
  <2>1. r \in Request /\ ~Saved(r) /\ ~Holds(r) /\ Fits(r) /\ r.deleted = {}
    OBVIOUS
  <2> QED
    BY <1>1, <1>4, <1>6, <2>1 DEF EditQuote
<1>7. ASSUME NEW amount \in Prices \ {0}, AddPayment(p, amount) PROVE Inv'
  <2> DEFINE step   == IF Payable(amount) THEN "lock" ELSE "done"
             answer == IF Payable(amount) THEN "none" ELSE "refused"
             r      == [Idle EXCEPT !.op = "pay", !.price = amount, !.step = step, !.answer = answer]
  <2>1. Becomes(p, r) /\ At(p, "none", "idle") /\ UNCHANGED <<invoice, quote, shown>>
    BY <1>7 DEF AddPayment
  <2>2. \/ step = "lock" /\ answer = "none"
        \/ step = "done" /\ answer = "refused"
    OBVIOUS
  <2> HIDE DEF step, answer
  <2>3. r \in Request /\ ~Saved(r) /\ ~Holds(r) /\ Fits(r) /\ r.deleted = {}
    BY <2>2
  <2> QED
    BY <1>1, <1>4, <2>1, <2>3
<1>8. ASSUME NEW target \in {"draft", "issued", "void"},
             NEW v \in 0..invoice.revision \cup {AnyRevision}, ChangeStatus(p, target, v)
      PROVE  Inv'
  <2> DEFINE r == [Idle EXCEPT !.op = "status", !.step = "lock", !.target = target, !.expected = v]
  <2>1. r \in Request /\ ~Saved(r) /\ ~Holds(r) /\ Fits(r) /\ r.deleted = {}
    BY <1>3
  <2> QED
    BY <1>1, <1>4, <1>8, <2>1 DEF ChangeStatus
<1>9. ASSUME NEW status \in QuoteStatuses, ChangeQuoteStatus(p, status) PROVE Inv'
  <2> DEFINE r == [Idle EXCEPT !.op = "quote_status", !.step = "done", !.answer = "saved"]
  <2>1. r \in Request /\ ~Saved(r) /\ ~Holds(r) /\ Fits(r) /\ r.deleted = {}
    OBVIOUS
  <2>2. quote' \in [status : QuoteStatuses, lines : SUBSET Lines]
    BY <1>1, <1>9 DEF ChangeQuoteStatus
  <2> QED
    BY <1>4, <1>9, <2>1, <2>2 DEF ChangeQuoteStatus
<1> QED
  BY <1>5, <1>6, <1>7, <1>8, <1>9 DEF Arrival

\* A request takes the invoice's row, or looks at something under its lock.
LEMMA GotoStep ==
  ASSUME Inv, NEW p \in Requests, NEW q \in Request, Becomes(p, q), UNCHANGED <<invoice, quote, shown>>,
         request[p].step \notin {"idle", "done", "write"}, q.step \notin {"idle", "done"},
         q.step = "write" \/ q.deleted = request[p].deleted, q.op = request[p].op, q.price = request[p].price, q.target = request[p].target,
         q.answer = request[p].answer, q.deleted \subseteq q.candidates,
         RowFree(p) \/ Holds(request[p]), Holds(q) => Sees(q)
  PROVE  Inv'
<1>1. Fits(request[p]) /\ quote' \in [status : QuoteStatuses, lines : SUBSET Lines]
  BY DEF Inv, AllFit, DocumentTypes
<1>2. Fits(q) /\ ~Saved(request[p]) /\ ~Saved(q)
  BY <1>1 DEF Fits, Saved
<1> QED
  BY <1>1, <1>2, QuietStep

LEMMA EditStep ==
  ASSUME Inv, NEW p \in Requests,
         EditLock(p) \/ Scan(p, "edit", invoice) \/ Delete(p, "edit", invoice) \/ EditWrite(p)
  PROVE  Inv'
<1>1. /\ request[p] \in Request /\ Fits(request[p]) /\ invoice.lines \subseteq Lines
      /\ request[p].deleted \subseteq request[p].candidates
  BY DEF Inv, DocumentTypes, AllFit
<1>2. CASE EditLock(p)
  <2>1. CASE StillDraft
    <3> DEFINE q == [request[p] EXCEPT !.step = "scan"]
    <3>1. Becomes(p, q) /\ At(p, "edit", "lock") /\ RowFree(p) /\ UNCHANGED <<invoice, quote, shown>>
      BY <1>2, <2>1 DEF EditLock, Goto
    <3>2. /\ q \in Request /\ q.step = "scan" /\ q.op = "edit" /\ q.price = request[p].price
          /\ q.target = request[p].target /\ q.answer = request[p].answer
          /\ q.deleted = request[p].deleted /\ q.candidates = request[p].candidates
      BY <1>1, <3>1 DEF Request, At
    <3> HIDE DEF q
    <3>3. Sees(q)
      BY <2>1, <3>2 DEF Sees, StillDraft
    <3> QED
      BY <1>1, <3>1, <3>2, <3>3, GotoStep DEF At
  <2>2. CASE ~StillDraft
    BY <1>2, <2>2, ReplyStep DEF EditLock, At
  <2> QED
    BY <2>1, <2>2
<1>3. CASE Scan(p, "edit", invoice)
  <2> DEFINE q == [request[p] EXCEPT !.step = "delete", !.candidates = invoice.lines]
  <2>1. Becomes(p, q) /\ At(p, "edit", "scan") /\ UNCHANGED <<invoice, quote, shown>>
    BY <1>3 DEF Scan
  <2>2. /\ q \in Request /\ q.step = "delete" /\ q.op = "edit" /\ q.price = request[p].price
        /\ q.target = request[p].target /\ q.answer = request[p].answer
        /\ q.deleted = request[p].deleted /\ q.candidates = invoice.lines
    BY <1>1, <2>1 DEF Request, At
  <2> HIDE DEF q
  <2>3. Holds(request[p])
    BY <2>1 DEF Holds, Changes, At
  <2>4. Sees(q)
    BY <1>1, <2>1, <2>2, <2>3 DEF Sees, Fits, At
  <2>5. request[p].deleted = {}
    BY <1>1, <2>1 DEF Fits, At
  <2> QED
    BY <1>1, <2>1, <2>2, <2>3, <2>4, <2>5, GotoStep DEF At
<1>4. CASE Delete(p, "edit", invoice)
  <2> DEFINE q == [request[p] EXCEPT !.step = "write",
                                     !.deleted = request[p].candidates \cap invoice.lines]
  <2>1. Becomes(p, q) /\ At(p, "edit", "delete") /\ UNCHANGED <<invoice, quote, shown>>
    BY <1>4 DEF Delete
  <2>2. /\ q \in Request /\ q.step = "write" /\ q.op = "edit" /\ q.price = request[p].price
        /\ q.target = request[p].target /\ q.answer = request[p].answer
        /\ q.deleted = request[p].candidates \cap invoice.lines /\ q.candidates = request[p].candidates
    BY <1>1, <2>1 DEF Request, At
  <2> HIDE DEF q
  <2>3. Holds(request[p])
    BY <2>1 DEF Holds, Changes, At
  <2>4. Sees(q)
    BY <1>1, <2>1, <2>2, <2>3 DEF Sees, Fits, At
  <2> QED
    BY <1>1, <2>1, <2>2, <2>3, <2>4, GotoStep DEF At
<1>5. CASE EditWrite(p)
  <2> DEFINE l == [by |-> p, price |-> request[p].price]
             new == [invoice EXCEPT !.lines = (@ \ request[p].deleted) \cup {l}]
  <2>1. At(p, "edit", "write") /\ Moves(new) /\ Reply(p, "saved") /\ UNCHANGED quote
    BY <1>5 DEF EditWrite, Replaced
  <2>2. Holds(request[p])
    BY <2>1 DEF Holds, Changes, At
  <2>3. invoice.status = "draft" /\ request[p].deleted = invoice.lines
    BY <1>1, <2>1, <2>2 DEF Fits, Sees, At
  <2>4. l \in Lines /\ l.price \in Nat
    BY <1>1, <2>1, BillingAssumption DEF Lines, Fits, At
  <2>5. /\ new \in [status : InvoiceStatuses, lines : SUBSET Lines,
                     payments : SUBSET Lines, revision : Revisions]
        /\ new.lines = {l} /\ new.payments = invoice.payments /\ new.revision = invoice.revision
        /\ new.status = invoice.status
    BY <2>3, <2>4 DEF Inv, DocumentTypes
  <2>6. new.payments = {} /\ IsFiniteSet(new.payments)
    BY <2>3, <2>5, FS_EmptySet DEF Inv, PaidWhenSettled
  <2> HIDE DEF new
  <2>7. invoice'.lines = {l} /\ invoice'.payments = {} /\ invoice'.status = "draft"
    BY <2>1, <2>3, <2>5, <2>6 DEF Moves
  <2> HIDE DEF l
  <2>8. Total(invoice'.lines) = l.price /\ Paid(invoice'.payments) = 0
    BY <2>4, <2>7, TotalOne, PaidIsTotal
  <2>9. PaidWhenSettled'
    BY <2>4, <2>7, <2>8 DEF PaidWhenSettled
  <2> QED
    BY <2>1, <2>2, <2>4, <2>5, <2>6, <2>9, ChangeStep
<1> QED
  BY <1>2, <1>3, <1>4, <1>5

LEMMA StatusStep ==
  ASSUME Inv, NEW p \in Requests, StatusLock(p) \/ StatusWrite(p)
  PROVE  Inv'
<1>1. request[p] \in Request /\ Fits(request[p]) /\ request[p].deleted \subseteq request[p].candidates
  BY DEF Inv, DocumentTypes, AllFit
<1>2. CASE StatusLock(p)
  <2>1. CASE AsExpected(p) /\ Allowed(invoice.status, request[p].target)
    <3> DEFINE q == [request[p] EXCEPT !.step = "write"]
    <3>1. Becomes(p, q) /\ At(p, "status", "lock") /\ RowFree(p) /\ UNCHANGED <<invoice, quote, shown>>
      BY <1>2, <2>1 DEF StatusLock, Goto
    <3>2. /\ q \in Request /\ q.step = "write" /\ q.op = "status" /\ q.price = request[p].price
          /\ q.target = request[p].target /\ q.answer = request[p].answer
          /\ q.expected = request[p].expected
          /\ q.deleted = request[p].deleted /\ q.candidates = request[p].candidates
      BY <1>1, <3>1 DEF Request, At
    <3> HIDE DEF q
    <3>3. Sees(q)
      BY <2>1, <3>2 DEF Sees, AsExpected
    <3> QED
      BY <1>1, <3>1, <3>2, <3>3, GotoStep DEF At
  <2>2. CASE ~(AsExpected(p) /\ Allowed(invoice.status, request[p].target))
    BY <1>2, <2>2, ReplyStep DEF StatusLock, At
  <2> QED
    BY <2>1, <2>2
<1>3. CASE StatusWrite(p)
  <2> DEFINE new == [invoice EXCEPT !.status = request[p].target]
  <2>1. At(p, "status", "write") /\ Moves(new) /\ Reply(p, "saved") /\ UNCHANGED quote
    BY <1>3 DEF StatusWrite
  <2>2. Holds(request[p])
    BY <2>1 DEF Holds, Changes, At
  <2>3. Allowed(invoice.status, request[p].target) /\ request[p].target \in {"draft", "issued", "void"}
    BY <1>1, <2>1, <2>2 DEF Fits, Sees, At
  <2>4. /\ new \in [status : InvoiceStatuses, lines : SUBSET Lines,
                     payments : SUBSET Lines, revision : Revisions]
        /\ new.lines = invoice.lines /\ new.payments = invoice.payments
        /\ new.revision = invoice.revision /\ new.status = request[p].target
    BY <2>3 DEF Inv, DocumentTypes, InvoiceStatuses
  <2>5. /\ \E l \in Lines : new.lines = {l}
        /\ IsFiniteSet(new.payments)
    BY <2>4 DEF Inv, Kept, PaymentsSaved
  <2> HIDE DEF new
  <2>6. /\ invoice'.lines = invoice.lines /\ invoice'.payments = invoice.payments
        /\ invoice'.status = request[p].target
    BY <2>1, <2>4 DEF Moves
  <2>7. Paid({}) = 0
    <3>1. LET l == [price |-> 0] IN l.price \in Nat
      OBVIOUS
    <3> QED
      BY <3>1, TotalOne, PaidIsTotal
  <2>8. PaidWhenSettled'
    BY <2>3, <2>6, <2>7, InvoiceAddsUp DEF PaidWhenSettled, Allowed, Transitions, Inv
  <2> QED
    BY <2>1, <2>2, <2>4, <2>5, <2>8, ChangeStep
<1> QED
  BY <1>2, <1>3

LEMMA PayStep ==
  ASSUME Inv, NEW p \in Requests, PayLock(p) \/ PayWrite(p)
  PROVE  Inv'
<1>1. request[p] \in Request /\ Fits(request[p]) /\ request[p].deleted \subseteq request[p].candidates
  BY DEF Inv, DocumentTypes, AllFit
<1>2. CASE PayLock(p)
  <2>1. CASE StillPayable(request[p].price)
    <3> DEFINE q == [request[p] EXCEPT !.step = "write"]
    <3>1. Becomes(p, q) /\ At(p, "pay", "lock") /\ RowFree(p) /\ UNCHANGED <<invoice, quote, shown>>
      BY <1>2, <2>1 DEF PayLock, Goto
    <3>2. /\ q \in Request /\ q.step = "write" /\ q.op = "pay" /\ q.price = request[p].price
          /\ q.target = request[p].target /\ q.answer = request[p].answer
          /\ q.deleted = request[p].deleted /\ q.candidates = request[p].candidates
      BY <1>1, <3>1 DEF Request, At
    <3> HIDE DEF q
    <3>3. Sees(q)
      BY <2>1, <3>2 DEF Sees, StillPayable
    <3> QED
      BY <1>1, <3>1, <3>2, <3>3, GotoStep DEF At
  <2>2. CASE ~StillPayable(request[p].price)
    BY <1>2, <2>2, ReplyStep DEF PayLock, At
  <2> QED
    BY <2>1, <2>2
<1>3. CASE PayWrite(p)
  <2> DEFINE l     == [by |-> p, price |-> request[p].price]
             after == [invoice EXCEPT !.payments = @ \cup {l}]
             new   == IF Balance(after) = 0 THEN [after EXCEPT !.status = PaidStatus] ELSE after
  <2>1. At(p, "pay", "write") /\ Moves(new) /\ Reply(p, "saved") /\ UNCHANGED quote
    BY <1>3 DEF PayWrite
  <2>2. Holds(request[p])
    BY <2>1 DEF Holds, Changes, At
  <2>3. Payable(request[p].price) /\ request[p].price \in Nat /\ request[p].price # 0
        /\ request[p].price \in Prices /\ ~Saved(request[p])
    BY <1>1, <2>1, <2>2, BillingAssumption DEF Fits, Sees, At, Saved
  <2>4. l \in Lines /\ l.price = request[p].price /\ l.by = p /\ l \notin invoice.payments
    BY <2>3 DEF Lines, Inv, PaymentsSaved
  <2>5. /\ after \in [status : InvoiceStatuses, lines : SUBSET Lines,
                       payments : SUBSET Lines, revision : Revisions]
        /\ after.lines = invoice.lines /\ after.payments = invoice.payments \cup {l}
        /\ after.revision = invoice.revision /\ after.status = invoice.status
    BY <2>4 DEF Inv, DocumentTypes
  <2> HIDE DEF after, l
  <2>6. /\ new \in [status : InvoiceStatuses, lines : SUBSET Lines,
                     payments : SUBSET Lines, revision : Revisions]
        /\ new.lines = after.lines /\ new.payments = after.payments
        /\ new.revision = after.revision
        /\ Balance(after) = 0 => new.status = "paid"
        /\ Balance(after) # 0 => new.status = after.status
    <3>1. CASE Balance(after) = 0
      BY <2>5, <3>1 DEF PaidStatus, InvoiceStatuses
    <3>2. CASE Balance(after) # 0
      BY <2>5, <3>2
    <3> QED
      BY <3>1, <3>2
  <2> HIDE DEF new
  <2>7. /\ \E k \in Lines : new.lines = {k}
        /\ IsFiniteSet(new.payments)
        /\ \A k \in new.payments : k \in invoice.payments \/ k.by = p
    BY <2>4, <2>5, <2>6, FS_AddElement DEF Inv, Kept, PaymentsSaved
  <2>8. Paid(after.payments) = Paid(invoice.payments) + request[p].price
    <3>1. Priced(invoice.payments)
      BY LinesPriced DEF Inv, DocumentTypes, PaymentsSaved
    <3> QED
      BY <2>3, <2>4, <2>5, <3>1, TotalAdd, PaidIsTotal
  <2>9. invoice.status = "issued" /\ request[p].price <= Balance(invoice)
    BY <2>3 DEF Payable
  <2>10. Paid(after.payments) <= Total(after.lines)
         /\ (Balance(after) = 0 <=> Paid(after.payments) = Total(after.lines))
    BY <2>3, <2>5, <2>8, <2>9, InvoiceAddsUp DEF Balance
  <2>11. /\ invoice'.lines = new.lines /\ invoice'.payments = new.payments
         /\ invoice'.status = new.status
    BY <2>1, <2>6 DEF Moves
  <2>12. PaidWhenSettled'
    BY <2>3, <2>5, <2>6, <2>8, <2>9, <2>10, <2>11, InvoiceAddsUp DEF PaidWhenSettled
  <2> QED
    BY <2>1, <2>2, <2>5, <2>6, <2>7, <2>12, ChangeStep
<1> QED
  BY <1>2, <1>3

\* The quote's steps, and failures, leave the invoice alone.
LEMMA QuoteStep ==
  ASSUME Inv, NEW p \in Requests,
         Scan(p, "requote", quote) \/ Delete(p, "requote", quote) \/ QuoteWrite(p)
  PROVE  Inv'
<1>1. /\ request[p] \in Request /\ Fits(request[p])
      /\ quote \in [status : QuoteStatuses, lines : SUBSET Lines]
  BY DEF Inv, DocumentTypes, AllFit
<1>2. CASE Scan(p, "requote", quote)
  <2> DEFINE q == [request[p] EXCEPT !.step = "delete", !.candidates = quote.lines]
  <2>1. Becomes(p, q) /\ At(p, "requote", "scan") /\ UNCHANGED <<invoice, quote, shown>>
    BY <1>2 DEF Scan
  <2>2. /\ q \in Request /\ q.step = "delete" /\ q.op = "requote" /\ q.price = request[p].price
        /\ q.target = request[p].target /\ q.answer = request[p].answer
        /\ q.deleted = request[p].deleted /\ q.candidates = quote.lines
    BY <1>1, <2>1 DEF Request, At
  <2> HIDE DEF q
  <2>3. Fits(q) /\ ~Holds(q) /\ ~Saved(request[p]) /\ ~Saved(q) /\ q.deleted = {}
    BY <1>1, <2>1, <2>2 DEF Fits, Holds, Saved, Changes, At
  <2> QED
    BY <1>1, <2>1, <2>2, <2>3, QuietStep
<1>3. CASE Delete(p, "requote", quote)
  <2> DEFINE q == [request[p] EXCEPT !.step = "write",
                                     !.deleted = request[p].candidates \cap quote.lines]
  <2>1. Becomes(p, q) /\ At(p, "requote", "delete") /\ UNCHANGED <<invoice, quote, shown>>
    BY <1>3 DEF Delete
  <2>2. /\ q \in Request /\ q.step = "write" /\ q.op = "requote" /\ q.price = request[p].price
        /\ q.target = request[p].target /\ q.answer = request[p].answer
        /\ q.deleted = request[p].candidates \cap quote.lines /\ q.candidates = request[p].candidates
    BY <1>1, <2>1 DEF Request, At
  <2> HIDE DEF q
  <2>3. Fits(q) /\ ~Holds(q) /\ ~Saved(request[p]) /\ ~Saved(q) /\ q.deleted \subseteq q.candidates
    BY <1>1, <2>1, <2>2 DEF Fits, Holds, Saved, Changes, At
  <2> QED
    BY <1>1, <2>1, <2>2, <2>3, QuietStep
<1>4. CASE QuoteWrite(p)
  <2> DEFINE q == [request[p] EXCEPT !.step = "done", !.answer = "saved",
                                    !.candidates = {}, !.deleted = {}]
  <2>1. Becomes(p, q) /\ At(p, "requote", "write") /\ UNCHANGED <<invoice, shown>>
    BY <1>4 DEF QuoteWrite, Reply
  <2>2. /\ q \in Request /\ q.step = "done" /\ q.op = "requote" /\ q.candidates = {} /\ q.deleted = {}
    BY <1>1, <2>1 DEF Request, At
  <2> HIDE DEF q
  <2>3. Fits(q) /\ ~Holds(q) /\ ~Saved(request[p]) /\ ~Saved(q)
    BY <1>1, <2>1, <2>2 DEF Fits, Holds, Saved, Changes, At
  <2>4. quote' \in [status : QuoteStatuses, lines : SUBSET Lines]
    <3>1. [by |-> p, price |-> request[p].price] \in Lines
      BY <1>1, <2>1 DEF Fits, At, Lines
    <3> QED
      BY <1>1, <1>4, <3>1 DEF QuoteWrite, Replaced
  <2> QED
    BY <2>1, <2>2, <2>3, <2>4, QuietStep
<1> QED
  BY <1>2, <1>3, <1>4

LEMMA InvStep == Inv /\ [Next]_vars => Inv'
<1> SUFFICES ASSUME Inv, [Next]_vars PROVE Inv'
  OBVIOUS
<1>1. CASE Next
  <2>1. PICK p \in Requests : Arrival(p) \/ Step(p) \/ Fail(p)
    BY <1>1 DEF Next
  <2>2. Fail(p) => Inv'
    BY ReplyStep DEF Fail
  <2>3. Step(p) => Inv'
    BY EditStep, StatusStep, PayStep, QuoteStep DEF Step
  <2> QED
    BY <2>1, <2>2, <2>3, ArrivalStep
<1>2. CASE UNCHANGED vars
  <2> USE <1>2 DEF vars
  <2>1. DocumentTypes' /\ OneHolder' /\ Kept' /\ ShownNow' /\ PaidWhenSettled'
    BY DEF Inv, DocumentTypes, OneHolder, Kept, ShownNow, PaidWhenSettled
  <2>2. AllFit'
    BY DEF Inv, AllFit, Fits, Sees, Payable, Balance
  <2>3. PaymentsSaved' /\ OneRevisionEach'
    BY DEF Inv, PaymentsSaved, OneRevisionEach, Savers
  <2> QED
    BY <2>1, <2>2, <2>3 DEF Inv
<1> QED
  BY <1>1, <1>2

THEOREM InvAlways == Spec => []Inv
  BY InvInit, InvStep, PTL DEF Spec

-----------------------------------------------------------------------------
(* What invoices promise. *)

\* However edits that each replace the lines overlap, an invoice is made of one list
\* of lines: nobody's old lines add up with somebody's new ones.
THEOREM InvoiceIsOneListAlways == Spec => []TypeOK
<1>1. Inv => TypeOK
  BY FS_Singleton DEF Inv, Kept, TypeOK, InvoiceIsOneList
<1> QED
  BY <1>1, InvAlways, PTL

\* An invoice is paid exactly when its payments reach its total, and never beyond.
THEOREM PaidExactlyWhenSettled == Spec => []PaidWhenSettled
<1>1. Inv => PaidWhenSettled
  BY DEF Inv
<1> QED
  BY <1>1, InvAlways, PTL

\* What each of the three commits does to the invoice.
LEMMA WhatCommits ==
  ASSUME Inv, NEW p \in Requests
  PROVE  /\ EditWrite(p) =>
              /\ invoice.status = "draft" /\ invoice'.status = "draft"
              /\ invoice'.payments = invoice.payments /\ request'[p].answer = "saved"
         /\ StatusWrite(p) =>
              /\ Allowed(invoice.status, invoice'.status)
              /\ invoice'.lines = invoice.lines /\ invoice'.payments = invoice.payments
              /\ request[p].expected \in {AnyRevision, invoice.revision}
         /\ PayWrite(p) =>
              /\ invoice.status = "issued" /\ invoice'.status \in {"issued", "paid"}
              /\ invoice'.lines = invoice.lines
<1>1. /\ Fits(request[p])
      /\ invoice \in [status : InvoiceStatuses, lines : SUBSET Lines,
                      payments : SUBSET Lines, revision : Revisions]
      /\ request \in [Requests -> Request] /\ request[p] \in Request
  BY DEF Inv, DocumentTypes, AllFit
<1>2. ASSUME EditWrite(p)
      PROVE  /\ invoice.status = "draft" /\ invoice'.status = "draft"
             /\ invoice'.payments = invoice.payments /\ request'[p].answer = "saved"
  <2>1. invoice.status = "draft"
    BY <1>1, <1>2 DEF EditWrite, At, Fits, Sees, Holds, Changes
  <2>2. invoice'.status = invoice.status /\ invoice'.payments = invoice.payments
    BY <1>1, <1>2 DEF EditWrite, Replaced, Moves
  <2>3. request'[p].answer = "saved"
    BY <1>1, <1>2 DEF EditWrite, Reply, Becomes, Request
  <2> QED
    BY <2>1, <2>2, <2>3
<1>3. ASSUME StatusWrite(p)
      PROVE  /\ Allowed(invoice.status, invoice'.status)
             /\ invoice'.lines = invoice.lines /\ invoice'.payments = invoice.payments
             /\ request[p].expected \in {AnyRevision, invoice.revision}
  <2>1. /\ Allowed(invoice.status, request[p].target)
        /\ request[p].expected \in {AnyRevision, invoice.revision}
    BY <1>1, <1>3 DEF StatusWrite, At, Fits, Sees, Holds, Changes
  <2>2. /\ invoice'.status = request[p].target
        /\ invoice'.lines = invoice.lines /\ invoice'.payments = invoice.payments
    BY <1>1, <1>3 DEF StatusWrite, Moves
  <2> QED
    BY <2>1, <2>2
<1>4. ASSUME PayWrite(p)
      PROVE  /\ invoice.status = "issued" /\ invoice'.status \in {"issued", "paid"}
             /\ invoice'.lines = invoice.lines
  <2>1. invoice.status = "issued"
    BY <1>1, <1>4 DEF PayWrite, At, Fits, Sees, Payable, Holds, Changes
  <2> DEFINE after == [invoice EXCEPT !.payments = @ \cup {[by |-> p, price |-> request[p].price]}]
  <2>2. \/ Moves(after)
        \/ Moves([after EXCEPT !.status = "paid"])
    BY <1>4 DEF PayWrite, PaidStatus
  <2>3. after.status = invoice.status /\ after.lines = invoice.lines
        /\ [after EXCEPT !.status = "paid"].status = "paid"
        /\ [after EXCEPT !.status = "paid"].lines = invoice.lines
    BY <1>1
  <2>4. invoice'.lines = invoice.lines /\ invoice'.status \in {invoice.status, "paid"}
    BY <1>1, <2>2, <2>3 DEF Moves
  <2> QED
    BY <2>1, <2>4
<1> QED
  BY <1>2, <1>3, <1>4

\* Nothing else changes the invoice.
LEMMA OnlyCommits ==
  ASSUME [Next]_vars
  PROVE  invoice' = invoice \/ \E p \in Requests : EditWrite(p) \/ StatusWrite(p) \/ PayWrite(p)
  BY DEF Next, Arrival, Step, Fail, EditInvoice, EditQuote, AddPayment, ChangeStatus, ChangeQuoteStatus,
         EditLock, Scan, Delete, StatusLock, PayLock, QuoteWrite, vars

\* An issued invoice's lines never change again, its status only moves on, and a payment is
\* recorded only while it is issued.
THEOREM IssuedStaysAsItIs == Spec => IssuedForGood
<1>1. ASSUME Inv, [Next]_vars
      PROVE  /\ invoice.status # "draft" => invoice'.lines = invoice.lines
             /\ \/ invoice'.status = invoice.status
                \/ invoice.status = "draft" /\ invoice'.status \in {"issued", "void"}
                \/ invoice.status = "issued" /\ invoice'.status \in {"paid", "void"}
             /\ invoice'.payments # invoice.payments => invoice.status = "issued"
  BY <1>1, OnlyCommits, WhatCommits DEF Allowed, Transitions
<1> QED
  BY <1>1, InvAlways, PTL
  DEF Spec, IssuedForGood, IssuedIsFrozen, InvoiceLifeLine, PaidOnlyWhileIssued

\* A status change with an expected revision is made to the document that revision showed.
THEOREM ChangedToWhatWasShown == Spec => ChangedAsShown
<1> DEFINE Was(p) == /\ shown[request[p].expected].lines = invoice'.lines
                     /\ shown[request[p].expected].payments = invoice'.payments
<1>1. ASSUME Inv, [Next]_vars, NEW p \in Requests, At(p, "status", "write"),
             request'[p].answer = "saved", request[p].expected # AnyRevision
      PROVE  Was(p)
  <2>1. request \in [Requests -> Request] /\ request[p] \in Request /\ request[p].answer = "none"
    BY <1>1 DEF Inv, DocumentTypes, AllFit, Fits, At
  <2>2. request' # request
    BY <1>1, <2>1
  <2>3. PICK o \in Requests : Arrival(o) \/ Step(o) \/ Fail(o)
    BY <1>1, <2>2 DEF Next, vars
  <2>4. o = p
    <3>1. \E r : Becomes(o, r)
      BY <2>3 DEF Arrival, Step, Fail, EditInvoice, EditQuote, AddPayment, ChangeStatus,
                  ChangeQuoteStatus, EditLock, Scan, Delete, EditWrite, StatusLock, StatusWrite,
                  PayLock, PayWrite, QuoteWrite, Goto, Reply
    <3> QED
      BY <1>1, <2>1, <3>1 DEF Becomes
  <2>5. StatusWrite(p)
    <3>1. CASE Fail(p)
      BY <1>1, <2>1, <3>1 DEF Fail, Reply, Becomes, Request
    <3>2. CASE Arrival(p) \/ Step(p)
      BY <1>1, <3>2 DEF At, Arrival, Step, EditInvoice, EditQuote, AddPayment, ChangeStatus,
                  ChangeQuoteStatus, EditLock, Scan, Delete, EditWrite, StatusLock,
                  PayLock, PayWrite, QuoteWrite
    <3> QED
      BY <2>3, <2>4, <3>1, <3>2
  <2> QED
    BY <1>1, <2>5, WhatCommits DEF Inv, ShownNow
<1>2. ASSUME Inv, [Next]_vars
      PROVE  \A p \in Requests :
                (/\ At(p, "status", "write") /\ request'[p].answer = "saved"
                 /\ request[p].expected # AnyRevision) => Was(p)
  BY <1>1, <1>2
<1> QED
  BY <1>2, InvAlways, PTL DEF Spec, ChangedAsShown
=============================================================================
