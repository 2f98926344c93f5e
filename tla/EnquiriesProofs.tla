---------------------------- MODULE EnquiriesProofs ----------------------------
(* Theorems about enquiries, for every number of messages and requests. *)
EXTENDS Enquiries, FiniteSetTheorems, TLAPS

-----------------------------------------------------------------------------
(* The inductive invariant. *)

\* The step a request is at, and what it holds.
Claims(q) ==
    /\ q.step \in {"write", "commit"} => q.message \in Messages
    /\ q.step = "write" => q.op = "extract"
    /\ q.step = "commit" => q.op = "convert"
    /\ q.step \in {"yes", "mark", "close"} => q.op = "bulk"
    /\ q.held # {} => q.step = "close"

\* Only who has committed a conversion has a record.
RecordWhenDone ==
    \A p \in Requests : Claims(request[p]) /\ (request[p].step # "done" => record[p].of = None)

\* A message that has not come has nothing, and one with a record names one.
Linked ==
    \A m \in Messages :
        /\ intake[m].status = "none" => extractions[m] = 0 /\ RecordsOf(m) = {}
        /\ RecordsOf(m) # {} => intake[m].record # None

\* An extraction is there for the next conversion or was used for a record.
Extracted ==
    \A m \in Messages :
        /\ IsFiniteSet(RecordsOf(m))
        /\ intake[m].status # "extracted" => Cardinality(RecordsOf(m)) <= extractions[m]
        /\ intake[m].status = "extracted" => Cardinality(RecordsOf(m)) + 1 <= extractions[m]

\* A row is held by one bulk yes, and stays.
HeldByOne ==
    /\ \A p, q \in Requests : p # q => request[p].held \cap request[q].held = {}
    /\ \A p \in Requests : \A m \in request[p].held : Exists(m)

Single(m) == \A r, s \in RecordsOf(m) : r = s

\* Message and record say what was decided.
Agrees ==
    \A m \in Messages \ crossed :
        Single(m) => /\ Exists(m) => intake[m].needed = decided[m]
                     /\ \A r \in RecordsOf(m) : record[r].needed = decided[m]

\* What a bulk yes is about to write is what was decided, or what it decides.
Bulk(q) == q.step \in {"mark", "close"}
LeftAlone(q, m) == q.step = "close" /\ m \notin q.held

Sees(q) ==
    Bulk(q) =>
        /\ \A m \in q.shown : intake[m].status # "none"
        /\ \A m \in q.shown \ crossed : Single(m) =>
             /\ LeftAlone(q, m) => ~decided[m]
             /\ ~LeftAlone(q, m) => Exists(m) /\ RecordsOf(m) \subseteq q.records
        /\ \A r \in q.records : record[r].of \in q.shown

BulkSees == \A p \in Requests : Sees(request[p])

Inv == TypeOK /\ RecordWhenDone /\ Linked /\ Extracted /\ HeldByOne /\ Agrees /\ BulkSees

-----------------------------------------------------------------------------
(* Fields and frames. *)

\* The part of the type invariant that is not about requests.
DataType ==
    /\ intake \in [Messages -> Intake] /\ record \in [Requests -> Record]
    /\ decided \in [Messages -> BOOLEAN] /\ extractions \in [Messages -> Nat]
    /\ crossed \subseteq Messages
    /\ \A m \in Messages :
         /\ intake[m].record \in {None} \cup RecordsOf(m)
         /\ intake[m].status = "new" => extractions[m] = 0
         /\ intake[m].status = "converted" => intake[m].record # None

LEMMA MessageFields ==
  ASSUME TypeOK, NEW m \in Messages
  PROVE  /\ intake[m] \in Intake /\ intake[m].status \in Statuses /\ intake[m].needed \in BOOLEAN
         /\ intake[m].record \in Requests \cup {None} /\ decided[m] \in BOOLEAN
         /\ extractions[m] \in Nat
         /\ intake[m].record # None => intake[m].record \in RecordsOf(m)
  BY DEF TypeOK, Intake, RecordsOf

LEMMA RequestFields ==
  ASSUME TypeOK, NEW p \in Requests
  PROVE  /\ request[p] \in Request
         /\ request[p].shown \subseteq Messages /\ request[p].records \subseteq Requests
         /\ request[p].held \subseteq request[p].shown /\ request[p].needed \in BOOLEAN
         /\ request[p].message \in Messages \cup {None}
  BY DEF TypeOK, Request

LEMMA RecordFields ==
  ASSUME TypeOK, NEW r \in Requests
  PROVE  /\ record[r] \in Record /\ record[r].of \in Messages \cup {None}
         /\ record[r].needed \in BOOLEAN
  BY DEF TypeOK, Record

\* The one record of a message is the one it names.
LEMMA SingleIsNamed ==
  ASSUME TypeOK, Linked, NEW m \in Messages, Single(m), NEW r \in RecordsOf(m)
  PROVE  intake[m].record = r
  BY MessageFields DEF Single, Linked

LEMMA RecordsOfOne ==
  ASSUME TypeOK, NEW r \in Requests, NEW m \in Messages
  PROVE  r \in RecordsOf(m) <=> record[r].of = m
  BY DEF RecordsOf

LEMMA BecomesEffect ==
  ASSUME TypeOK, NEW p \in Requests, NEW r \in Request, Becomes(p, r)
  PROVE  /\ request' \in [Requests -> Request] /\ request'[p] = r
         /\ \A o \in Requests : o # p => request'[o] = request[o]
  BY DEF TypeOK, Becomes

\* A step of a request that holds nothing after it keeps the invariant when the data
\* does and no bulk yes of another is deceived.
LEMMA FreeStep ==
  ASSUME Inv, NEW p \in Requests, NEW r \in Request, Becomes(p, r),
         Claims(r), r.held = {}, ~Bulk(r), r.step # "done" => record'[p].of = None,
         \A o \in Requests : o # p => record'[o].of = record[o].of,
         record[p].of # None => record'[p].of = record[p].of,
         crossed \subseteq crossed',
         \A q \in Requests : \A m \in request[q].held : q # p => Exists(m)',
         \A q \in Requests : \A m \in request[q].shown \ crossed' :
             q # p /\ Bulk(request[q]) =>
                 /\ LeftAlone(request[q], m) /\ decided'[m] => decided[m]
                 /\ ~LeftAlone(request[q], m) /\ Exists(m) =>
                       Exists(m)' /\ RecordsOf(m)' = RecordsOf(m),
         \A m \in Messages : intake'[m].status = "none" => intake[m].status = "none",
         \A m \in Messages : Single(m)' => Single(m),
         DataType', Linked', Extracted', Agrees'
  PROVE  Inv'
<1>1. /\ request' \in [Requests -> Request] /\ request'[p] = r
      /\ \A o \in Requests : o # p => request'[o] = request[o]
  BY BecomesEffect DEF Inv
<1>2. TypeOK'
  <2>1. \A o \in Requests : request'[o].held \subseteq request'[o].shown
    BY <1>1 DEF Inv, TypeOK
  <2> QED
    BY <1>1, <2>1 DEF TypeOK, DataType
<1>3. RecordWhenDone'
  BY <1>1 DEF Inv, RecordWhenDone, Claims
<1>4. HeldByOne'
  BY <1>1 DEF Inv, HeldByOne
<1>5. ASSUME NEW o \in Requests PROVE Sees(request[o])'
  <2>1. CASE o = p
    BY <1>1, <2>1 DEF Sees, Bulk
  <2>2. CASE o # p /\ Bulk(request[o])
    <3>1. Sees(request[o]) /\ request'[o] = request[o]
          /\ request[o].shown \subseteq Messages /\ request[o].records \subseteq Requests
      BY <1>1, <2>2, RequestFields DEF Inv, BulkSees
    <3>2. \A s \in request[o].records : record'[s].of \in request[o].shown
      <4>1. \A s \in request[o].records : record[s].of \in request[o].shown
        BY <2>2, <3>1 DEF Sees
      <4> QED
        BY <3>1, <4>1, EnquiriesAssumption
    <3>3. ASSUME NEW m \in request[o].shown \ crossed', Single(m)'
          PROVE  /\ LeftAlone(request[o], m) => ~decided'[m]
                 /\ ~LeftAlone(request[o], m) => Exists(m)' /\ RecordsOf(m)' \subseteq request[o].records
      <4>1. Single(m) /\ m \in Messages /\ m \notin crossed
        BY <3>1, <3>3
      <4>2. /\ LeftAlone(request[o], m) => ~decided[m]
            /\ ~LeftAlone(request[o], m) => Exists(m) /\ RecordsOf(m) \subseteq request[o].records
        BY <2>2, <3>1, <3>3, <4>1 DEF Sees
      <4> QED
        BY <2>2, <3>3, <4>1, <4>2
    <3>4. \A m \in request[o].shown : intake'[m].status # "none"
      BY <2>2, <3>1 DEF Sees
    <3> QED
      BY <3>1, <3>2, <3>3, <3>4 DEF Sees, LeftAlone
  <2>3. CASE o # p /\ ~Bulk(request[o])
    BY <1>1, <2>3 DEF Sees, Bulk
  <2> QED
    BY <2>1, <2>2, <2>3
<1> QED
  BY <1>2, <1>3, <1>4, <1>5 DEF Inv, BulkSees

LEMMA DoneRecord ==
  ASSUME TypeOK, NEW p \in Requests, Done(p)
  PROVE  \E r \in Request : /\ Becomes(p, r) /\ Claims(r) /\ r.held = {} /\ ~Bulk(r)
                            /\ r.step = "done"
<1> DEFINE r == [Idle EXCEPT !.op = request[p].op, !.step = "done"]
<1>1. request[p].op \in {"none", "extract", "convert", "resolve", "update", "bulk", "delete"}
  BY DEF TypeOK, Request
<1>2. r \in Request /\ r.step = "done" /\ r.held = {}
  BY <1>1 DEF Idle, Request
<1>3. Becomes(p, r)
  BY DEF Done
<1> HIDE DEF r
<1>4. Claims(r) /\ ~Bulk(r)
  BY <1>2 DEF Claims, Bulk
<1> QED
  BY <1>2, <1>3, <1>4

LEMMA AnsweredRecord ==
  ASSUME TypeOK, NEW p \in Requests,
         NEW op \in {"none", "extract", "convert", "resolve", "update", "bulk", "delete"},
         Answered(p, op)
  PROVE  \E r \in Request : /\ Becomes(p, r) /\ Claims(r) /\ r.held = {} /\ ~Bulk(r)
                            /\ r.step = "done"
<1> DEFINE r == [Idle EXCEPT !.op = op, !.step = "done"]
<1>1. r \in Request /\ r.step = "done" /\ r.held = {}
  BY DEF Idle, Request
<1>2. Becomes(p, r)
  BY DEF Answered
<1> HIDE DEF r
<1>3. Claims(r) /\ ~Bulk(r)
  BY <1>1 DEF Claims, Bulk
<1> QED
  BY <1>1, <1>2, <1>3

LEMMA DataStays ==
  ASSUME Inv, UNCHANGED <<intake, record, history>>
  PROVE  /\ DataType' /\ Linked' /\ Extracted' /\ Agrees'
         /\ \A m \in Messages : /\ RecordsOf(m)' = RecordsOf(m) /\ Exists(m)' = Exists(m)
                                /\ Single(m)' = Single(m)
<1>1. UNCHANGED <<intake, record, decided, extractions, crossed>>
  BY DEF history
<1>2. \A m \in Messages : /\ RecordsOf(m)' = RecordsOf(m) /\ Exists(m)' = Exists(m)
                          /\ Single(m)' = Single(m)
  BY <1>1 DEF RecordsOf, Exists, Single
<1>3. DataType'
  BY <1>1, <1>2 DEF Inv, TypeOK, DataType
<1> QED
  BY <1>1, <1>2, <1>3 DEF Inv, Linked, Extracted, Agrees

LEMMA QuietStep ==
  ASSUME Inv, NEW p \in Requests, NEW r \in Request, Becomes(p, r), UNCHANGED <<intake, record, history>>,
         Claims(r), r.held = {}, ~Bulk(r), r.step = "done" \/ request[p].step # "done"
  PROVE  Inv'
<1>1. /\ DataType' /\ Linked' /\ Extracted' /\ Agrees'
      /\ \A m \in Messages : /\ RecordsOf(m)' = RecordsOf(m) /\ Exists(m)' = Exists(m)
                             /\ Single(m)' = Single(m)
  BY DataStays
<1>2. record' = record /\ decided' = decided /\ crossed' = crossed
  BY DEF history
<1>3. r.step # "done" => record'[p].of = None
  BY <1>2 DEF Inv, RecordWhenDone
<1>4. \A q \in Requests : request[q].held \subseteq Messages /\ request[q].shown \subseteq Messages
  BY RequestFields DEF Inv
<1>5. \A q \in Requests : \A m \in request[q].held : Exists(m)'
  BY <1>1, <1>4 DEF Inv, HeldByOne
<1> QED
  BY <1>1, <1>2, <1>3, <1>4, <1>5, FreeStep DEF history

-----------------------------------------------------------------------------
(* The steps that write nothing. *)

LEMMA ArriveStep ==
  ASSUME Inv, NEW p \in Requests,
         Preview(p) \/ \E m \in Messages : Extract(p, m) \/ Convert(p, m)
  PROVE  Inv'
<1>1. At(p, "none", "idle") /\ UNCHANGED <<intake, record, history>>
  BY DEF Preview, Extract, Convert
<1>2. ASSUME NEW m \in Messages, Extract(p, m) PROVE Inv'
  <2> DEFINE r == [Idle EXCEPT !.op = "extract", !.step = "write", !.message = m]
  <2>1. r \in Request /\ r.op = "extract" /\ r.step = "write" /\ r.message = m /\ r.held = {}
    BY DEF Idle, Request
  <2>2. Becomes(p, r)
    BY <1>2 DEF Extract
  <2> HIDE DEF r
  <2>3. Claims(r) /\ ~Bulk(r)
    BY <2>1 DEF Claims, Bulk
  <2> QED
    BY <1>1, <2>1, <2>2, <2>3, QuietStep DEF At
<1>3. ASSUME NEW m \in Messages, Convert(p, m) PROVE Inv'
  <2> DEFINE r == [Idle EXCEPT !.op = "convert", !.step = "commit", !.message = m,
                               !.needed = intake[m].needed]
  <2>1. intake[m].needed \in BOOLEAN
    BY MessageFields DEF Inv
  <2>2. r \in Request /\ r.op = "convert" /\ r.step = "commit" /\ r.message = m /\ r.held = {}
    BY <2>1 DEF Idle, Request
  <2>3. Becomes(p, r)
    BY <1>3 DEF Convert
  <2> HIDE DEF r
  <2>4. Claims(r) /\ ~Bulk(r)
    BY <2>2 DEF Claims, Bulk
  <2> QED
    BY <1>1, <2>2, <2>3, <2>4, QuietStep DEF At
<1>4. CASE Preview(p)
  <2>1. PICK ms \in SUBSET Messages :
          Becomes(p, [Idle EXCEPT !.op = "bulk", !.step = "yes", !.shown = ms])
    BY <1>4 DEF Preview
  <2> DEFINE r == [Idle EXCEPT !.op = "bulk", !.step = "yes", !.shown = ms]
  <2>2. r \in Request /\ r.op = "bulk" /\ r.step = "yes" /\ r.held = {}
    BY DEF Idle, Request
  <2>3. Becomes(p, r)
    BY <2>1
  <2> HIDE DEF r
  <2>4. Claims(r) /\ ~Bulk(r)
    BY <2>2 DEF Claims, Bulk
  <2> QED
    BY <1>1, <2>2, <2>3, <2>4, QuietStep DEF At
<1> QED
  BY <1>2, <1>3, <1>4

LEMMA FailStep ==
  ASSUME Inv, NEW p \in Requests, Fail(p)
  PROVE  Inv'
<1>1. PICK r \in Request : /\ Becomes(p, r) /\ Claims(r) /\ r.held = {} /\ ~Bulk(r)
                           /\ r.step = "done"
  BY DoneRecord DEF Fail, Inv
<1> QED
  BY <1>1, QuietStep DEF Fail

\* A bulk yes that goes on: the data stays, and what it has seen is so.
LEMMA BulkStep ==
  ASSUME Inv, NEW p \in Requests, NEW r \in Request, Becomes(p, r), UNCHANGED <<intake, record, history>>,
         Claims(r), r.step # "done", request[p].step # "done", Sees(r), r.held \subseteq r.shown,
         \A m \in r.held : Exists(m) /\ RowFree(m)
  PROVE  Inv'
<1>1. /\ request' \in [Requests -> Request] /\ request'[p] = r
      /\ \A o \in Requests : o # p => request'[o] = request[o]
  BY BecomesEffect DEF Inv
<1>2. /\ DataType' /\ Linked' /\ Extracted' /\ Agrees'
      /\ \A m \in Messages : /\ RecordsOf(m)' = RecordsOf(m) /\ Exists(m)' = Exists(m)
                             /\ Single(m)' = Single(m)
  BY DataStays
<1>3. record' = record /\ decided' = decided /\ crossed' = crossed
  BY DEF history
<1>4. TypeOK'
  <2>1. \A o \in Requests : request'[o].held \subseteq request'[o].shown
    BY <1>1 DEF Inv, TypeOK
  <2> QED
    BY <1>1, <1>2, <2>1 DEF TypeOK, DataType
<1>5. RecordWhenDone'
  BY <1>1, <1>3 DEF Inv, RecordWhenDone, Claims
<1>6. HeldByOne'
  <2>1. \A q \in Requests : request[q].held \subseteq Messages /\ r.held \subseteq Messages
    BY RequestFields DEF Inv, Request
  <2>2. \A q \in Requests : q # p => r.held \cap request[q].held = {}
    BY DEF RowFree
  <2>3. \A q \in Requests : \A m \in request'[q].held : Exists(m)'
    BY <1>1, <1>2, <2>1 DEF Inv, HeldByOne
  <2>4. \A q, o \in Requests : q # o => request'[q].held \cap request'[o].held = {}
    BY <1>1, <2>2 DEF Inv, HeldByOne
  <2> QED
    BY <2>3, <2>4 DEF HeldByOne
<1>7. ASSUME NEW o \in Requests PROVE Sees(request[o])'
  <2>1. PICK q \in Request : q = request'[o]
    BY <1>1
  <2>2. Sees(q) /\ q.shown \subseteq Messages
    BY <1>1, <2>1 DEF Inv, BulkSees, Request
  <2>3. Sees(q)'
    BY <1>2, <1>3, <2>2 DEF Sees, history
  <2> QED
    BY <2>1, <2>3 DEF Sees, Bulk, LeftAlone
<1> QED
  BY <1>2, <1>4, <1>5, <1>6, <1>7 DEF Inv, BulkSees

LEMMA YesStep ==
  ASSUME Inv, NEW p \in Requests, Yes(p)
  PROVE  Inv'
<1> DEFINE batch == {m \in request[p].shown : Exists(m) /\ intake[m].needed}
           r == [request[p] EXCEPT !.step = "mark", !.shown = batch,
                    !.records = {intake[m].record : m \in batch} \ {None}]
<1>1. CASE batch = {}
  <2>1. PICK q \in Request : /\ Becomes(p, q) /\ Claims(q) /\ q.held = {} /\ ~Bulk(q)
                             /\ q.step = "done"
    BY <1>1, DoneRecord DEF Yes, Inv
  <2> QED
    BY <2>1, QuietStep DEF Yes
<1>2. CASE batch # {}
  <2>1. /\ request[p] \in Request /\ request[p].op = "bulk" /\ request[p].step = "yes"
        /\ request[p].held = {} /\ batch \subseteq Messages
    BY RequestFields DEF Yes, At, Inv, RecordWhenDone, Claims
  <2>2. {intake[m].record : m \in batch} \ {None} \subseteq Requests
    BY <2>1, MessageFields DEF Inv
  <2>3. /\ r \in Request /\ r.op = "bulk" /\ r.step = "mark" /\ r.held = {} /\ r.shown = batch
        /\ r.records = {intake[m].record : m \in batch} \ {None}
    BY <2>1, <2>2 DEF Request
  <2>4. Becomes(p, r) /\ UNCHANGED <<intake, record, history>>
    BY <1>2 DEF Yes
  <2> HIDE DEF r
  <2>5. Claims(r)
    BY <2>3 DEF Claims
  <2>6. ASSUME NEW m \in batch, Single(m) PROVE Exists(m) /\ RecordsOf(m) \subseteq r.records
    <3>1. \A s \in RecordsOf(m) : s = intake[m].record /\ s # None
      BY <2>1, <2>6, SingleIsNamed, EnquiriesAssumption DEF Inv, RecordsOf
    <3> QED
      BY <2>3, <3>1
  <2>7. ASSUME NEW s \in r.records PROVE record[s].of \in batch
    <3>1. PICK m \in batch : s = intake[m].record /\ s # None
      BY <2>3, <2>7
    <3> QED
      BY <2>1, <3>1, MessageFields DEF Inv, RecordsOf
  <2>8. Sees(r)
    BY <2>3, <2>6, <2>7 DEF Sees, LeftAlone, Exists
  <2> HIDE DEF batch
  <2> QED
    BY <2>1, <2>3, <2>4, <2>5, <2>8, BulkStep
<1> QED
  BY <1>1, <1>2

LEMMA MarkStep ==
  ASSUME Inv, NEW p \in Requests, Mark(p)
  PROVE  Inv'
<1> DEFINE still == {m \in request[p].shown : Exists(m) /\ intake[m].needed}
           r == [request[p] EXCEPT !.step = "close", !.held = still]
<1>1. /\ request[p] \in Request /\ request[p].op = "bulk" /\ request[p].step = "mark"
      /\ request[p].shown \subseteq Messages /\ Sees(request[p])
  BY RequestFields DEF Mark, At, Inv, BulkSees
<1>2. still \subseteq request[p].shown /\ \A m \in still : Exists(m) /\ RowFree(m)
  BY DEF Mark
<1>3. /\ r \in Request /\ r.op = "bulk" /\ r.step = "close" /\ r.held = still
      /\ r.shown = request[p].shown /\ r.records = request[p].records
  BY <1>1, <1>2 DEF Request
<1>4. Becomes(p, r) /\ UNCHANGED <<intake, record, history>>
  BY DEF Mark
<1> HIDE DEF r
<1>5. Claims(r)
  BY <1>3 DEF Claims
<1>6. \A m \in request[p].shown \ crossed :
        Single(m) /\ Exists(m) /\ m \notin still => ~decided[m]
  BY <1>1 DEF Inv, Agrees
<1>7. Sees(r)
  BY <1>1, <1>3, <1>6 DEF Sees, Bulk, LeftAlone
<1> HIDE DEF still
<1> QED
  BY <1>1, <1>2, <1>3, <1>4, <1>5, <1>7, BulkStep

-----------------------------------------------------------------------------
(* The steps that write. *)

LEMMA ReceiveStep ==
  ASSUME Inv, NEW m \in Messages, Receive(m)
  PROVE  Inv'
<1> DEFINE new == [status |-> "new", needed |-> TRUE, record |-> None]
<1>1. intake[m].status = "none" /\ ~Exists(m) /\ RecordsOf(m) = {} /\ extractions[m] = 0
  BY DEF Receive, Unseen, Exists, Inv, Linked
<1>2. /\ intake' = [intake EXCEPT ![m] = new] /\ decided' = [decided EXCEPT ![m] = TRUE]
      /\ UNCHANGED <<record, request, extractions, crossed>>
  BY DEF Receive
<1>3. new \in Intake /\ new.status = "new" /\ new.needed = TRUE /\ new.record = None
  BY DEF Intake, Statuses
<1> HIDE DEF new
<1>4. /\ intake' \in [Messages -> Intake] /\ decided' \in [Messages -> BOOLEAN]
      /\ intake'[m] = new /\ decided'[m] = TRUE
      /\ \A h \in Messages : h # m => intake'[h] = intake[h] /\ decided'[h] = decided[h]
      /\ \A h \in Messages : RecordsOf(h)' = RecordsOf(h) /\ Single(h)' = Single(h)
  BY <1>2, <1>3 DEF Inv, TypeOK, RecordsOf, Single
<1>5. \A h \in Messages : h # m => Exists(h)' = Exists(h)
  BY <1>4 DEF Exists
<1>6. TypeOK'
  BY <1>1, <1>2, <1>3, <1>4 DEF Inv, TypeOK
<1>7. RecordWhenDone'
  BY <1>2 DEF Inv, RecordWhenDone, Claims
<1>8. Linked' /\ Extracted'
  BY <1>1, <1>2, <1>3, <1>4 DEF Inv, Linked, Extracted
<1>9. HeldByOne'
  <2>1. \A q \in Requests : request[q].held \subseteq Messages /\ m \notin request[q].held
    BY <1>1, RequestFields DEF Inv, HeldByOne
  <2> QED
    BY <1>2, <1>5, <2>1 DEF Inv, HeldByOne
<1>10. Agrees'
  <2> SUFFICES ASSUME NEW h \in Messages \ crossed, Single(h)
               PROVE  /\ Exists(h)' => intake'[h].needed = decided'[h]
                      /\ \A s \in RecordsOf(h) : record[s].needed = decided'[h]
    BY <1>2, <1>4 DEF Agrees
  <2>1. CASE h = m
    BY <1>1, <1>3, <1>4, <2>1
  <2>2. CASE h # m
    BY <1>4, <1>5, <2>2 DEF Inv, Agrees
  <2> QED
    BY <2>1, <2>2
<1>11. ASSUME NEW o \in Requests PROVE Sees(request[o])'
  <2>1. Sees(request[o]) /\ request[o].shown \subseteq Messages
    BY RequestFields DEF Inv, BulkSees
  <2>2. CASE Bulk(request[o])
    <3>1. \A h \in request[o].shown : h # m
      BY <1>1, <2>1, <2>2 DEF Sees
    <3> QED
      BY <1>2, <1>4, <1>5, <2>1, <2>2, <3>1 DEF Sees, LeftAlone
  <2>3. CASE ~Bulk(request[o])
    BY <1>2, <2>3 DEF Sees, Bulk
  <2> QED
    BY <2>2, <2>3
<1> QED
  BY <1>6, <1>7, <1>8, <1>9, <1>10, <1>11 DEF Inv, BulkSees

LEMMA ExtractWriteStep ==
  ASSUME Inv, NEW p \in Requests, ExtractWrite(p)
  PROVE  Inv'
<1>1. PICK r \in Request : /\ Becomes(p, r) /\ Claims(r) /\ r.held = {} /\ ~Bulk(r)
                           /\ r.step = "done"
  BY DoneRecord DEF ExtractWrite, Inv
<1>2. PICK m \in Messages : m = request[p].message
  BY DEF ExtractWrite, At, Inv, RecordWhenDone, Claims
<1>3. /\ Exists(m) /\ RowFree(m)
      /\ intake' = [intake EXCEPT ![m] = [intake[m] EXCEPT !.status = "extracted"]]
      /\ extractions' = [extractions EXCEPT ![m] = extractions[m] + 1]
      /\ UNCHANGED <<record, decided, crossed>>
  BY <1>2 DEF ExtractWrite
<1>4. /\ [intake[m] EXCEPT !.status = "extracted"] \in Intake
      /\ [intake[m] EXCEPT !.status = "extracted"].status = "extracted"
      /\ [intake[m] EXCEPT !.status = "extracted"].needed = intake[m].needed
      /\ [intake[m] EXCEPT !.status = "extracted"].record = intake[m].record
  BY MessageFields DEF Inv, Intake, Statuses
<1>5. /\ intake' \in [Messages -> Intake] /\ extractions' \in [Messages -> Nat]
      /\ intake'[m].status = "extracted" /\ intake'[m].needed = intake[m].needed
      /\ intake'[m].record = intake[m].record /\ extractions'[m] = extractions[m] + 1
      /\ \A h \in Messages : h # m => intake'[h] = intake[h] /\ extractions'[h] = extractions[h]
      /\ \A h \in Messages : RecordsOf(h)' = RecordsOf(h) /\ Single(h)' = Single(h)
  <2>1. extractions[m] + 1 \in Nat
    BY MessageFields DEF Inv
  <2> QED
    BY <1>3, <1>4, <2>1 DEF Inv, TypeOK, RecordsOf, Single
<1>6. \A h \in Messages : Exists(h)' = Exists(h)
  BY <1>3, <1>5 DEF Exists
<1>7. DataType'
  BY <1>3, <1>5 DEF Inv, TypeOK, DataType
<1>8. Linked'
  BY <1>3, <1>5 DEF Inv, Linked
<1>9. Extracted'
  <2> SUFFICES ASSUME NEW h \in Messages
               PROVE  /\ IsFiniteSet(RecordsOf(h)')
                      /\ intake'[h].status # "extracted" => Cardinality(RecordsOf(h)') <= extractions'[h]
                      /\ intake'[h].status = "extracted" => Cardinality(RecordsOf(h)') + 1 <= extractions'[h]
    BY DEF Extracted
  <2>1. /\ IsFiniteSet(RecordsOf(h)) /\ Cardinality(RecordsOf(h)) \in Nat /\ extractions[h] \in Nat
        /\ intake[h].status # "extracted" => Cardinality(RecordsOf(h)) <= extractions[h]
        /\ intake[h].status = "extracted" => Cardinality(RecordsOf(h)) + 1 <= extractions[h]
    BY FS_CardinalityType, MessageFields DEF Inv, Extracted
  <2>2. CASE h = m
    BY <1>5, <2>1, <2>2
  <2>3. CASE h # m
    BY <1>5, <2>1, <2>3
  <2> QED
    BY <2>2, <2>3
<1>10. Agrees'
  BY <1>3, <1>5, <1>6 DEF Inv, Agrees
<1>11. \A q \in Requests : request[q].held \subseteq Messages /\ request[q].shown \subseteq Messages
  BY RequestFields DEF Inv
<1>12. \A q \in Requests : \A h \in request[q].held : Exists(h)'
  BY <1>6, <1>11 DEF Inv, HeldByOne
<1> QED
  BY <1>1, <1>3, <1>5, <1>6, <1>7, <1>8, <1>9, <1>10, <1>11, <1>12, FreeStep

LEMMA ConvertStep ==
  ASSUME Inv, NEW p \in Requests, ConvertCommit(p)
  PROVE  Inv'
<1>1. PICK r \in Request : /\ Becomes(p, r) /\ Claims(r) /\ r.held = {} /\ ~Bulk(r)
                           /\ r.step = "done"
  BY DoneRecord DEF ConvertCommit, Inv
<1>2. PICK m \in Messages : m = request[p].message
  BY DEF ConvertCommit, At, Inv, RecordWhenDone, Claims
<1>3. CASE ~Claimable(m)
  <2>1. UNCHANGED <<intake, record, history>>
    BY <1>2, <1>3 DEF ConvertCommit, history
  <2> QED
    BY <1>1, <2>1, QuietStep
<1>4. CASE Claimable(m)
  <2>1. /\ intake[m].status = "extracted" /\ Exists(m) /\ RowFree(m) /\ record[p].of = None
    BY <1>2, <1>4 DEF Claimable, ConvertCommit, At, Exists, Inv, RecordWhenDone
  <2> DEFINE new == [of |-> m, needed |-> intake[m].needed]
             row == [intake[m] EXCEPT !.status = "converted", !.record = p]
  <2>2. /\ record' = [record EXCEPT ![p] = new]
        /\ crossed' = crossed \cup Unmarked({m})
        /\ UNCHANGED <<decided, extractions>>
    BY <1>2, <1>4 DEF ConvertCommit, FollowUp
  <2>3. intake' = [intake EXCEPT ![m] = row]
    BY <1>2, <1>4 DEF ConvertCommit, Inv, TypeOK
  <2>4. /\ new \in Record /\ new.of = m /\ new.needed = intake[m].needed
        /\ row \in Intake /\ row.status = "converted" /\ row.record = p
        /\ row.needed = intake[m].needed
    BY MessageFields DEF Inv, Record, Intake, Statuses
  <2> HIDE DEF new, row
  <2>5. /\ record' \in [Requests -> Record] /\ intake' \in [Messages -> Intake]
        /\ record'[p] = new /\ \A o \in Requests : o # p => record'[o] = record[o]
        /\ intake'[m] = row /\ \A h \in Messages : h # m => intake'[h] = intake[h]
    BY <2>2, <2>3, <2>4 DEF Inv, TypeOK
  <2>6. /\ RecordsOf(m)' = RecordsOf(m) \cup {p}
        /\ \A h \in Messages : p \notin RecordsOf(h)
        /\ \A h \in Messages : h # m => RecordsOf(h)' = RecordsOf(h)
    BY <2>1, <2>4, <2>5, EnquiriesAssumption DEF RecordsOf
  <2>7. \A h \in Messages : /\ h # m => Exists(h)' = Exists(h) /\ Single(h)' = Single(h)
                            /\ Single(h)' => Single(h)
    BY <2>5, <2>6 DEF Exists, Single
  <2>8. Exists(m)'
    BY <2>4, <2>5 DEF Exists
  <2>9. Unmarked({m}) \subseteq {m}
    BY DEF Unmarked
  <2>10. DataType'
    <3>1. ASSUME NEW h \in Messages
          PROVE  /\ intake'[h].record \in {None} \cup RecordsOf(h)'
                 /\ intake'[h].status = "new" => extractions'[h] = 0
                 /\ intake'[h].status = "converted" => intake'[h].record # None
      BY <2>2, <2>4, <2>5, <2>6, EnquiriesAssumption DEF Inv, TypeOK
    <3> QED
      BY <2>2, <2>5, <2>9, <3>1 DEF Inv, TypeOK, DataType
  <2>11. Linked'
    BY <2>2, <2>4, <2>5, <2>6, EnquiriesAssumption DEF Inv, Linked
  <2>12. Extracted'
    <3> SUFFICES ASSUME NEW h \in Messages
                 PROVE  /\ IsFiniteSet(RecordsOf(h)')
                        /\ intake'[h].status # "extracted" => Cardinality(RecordsOf(h)') <= extractions'[h]
                        /\ intake'[h].status = "extracted" => Cardinality(RecordsOf(h)') + 1 <= extractions'[h]
      BY DEF Extracted
    <3>1. CASE h = m
      <4>1. /\ IsFiniteSet(RecordsOf(m)) /\ Cardinality(RecordsOf(m)) + 1 <= extractions[m]
        BY <2>1 DEF Inv, Extracted
      <4>2. IsFiniteSet(RecordsOf(m)') /\ Cardinality(RecordsOf(m)') = Cardinality(RecordsOf(m)) + 1
        BY <2>6, <4>1, FS_AddElement
      <4> QED
        BY <2>2, <2>4, <2>5, <3>1, <4>1, <4>2
    <3>2. CASE h # m
      BY <2>2, <2>5, <2>6, <3>2 DEF Inv, Extracted
    <3> QED
      BY <3>1, <3>2
  <2>13. Agrees'
    <3> SUFFICES ASSUME NEW h \in Messages \ crossed', Single(h)'
                 PROVE  /\ Exists(h)' => intake'[h].needed = decided'[h]
                        /\ \A s \in RecordsOf(h)' : record'[s].needed = decided'[h]
      BY DEF Agrees
    <3>1. Single(h) /\ h \notin crossed
      BY <2>2, <2>7
    <3>2. CASE h = m
      <4>1. intake[m].needed = decided[m]
        BY <2>1, <3>1, <3>2 DEF Inv, Agrees
      <4>2. \A s \in RecordsOf(m)' : s = p
        BY <2>6, <3>2 DEF Single
      <4> QED
        BY <2>2, <2>4, <2>5, <3>2, <4>1, <4>2
    <3>3. CASE h # m
      <4>1. \A s \in RecordsOf(h)' : s \in RecordsOf(h) /\ record'[s] = record[s]
        BY <2>5, <2>6, <3>3 DEF RecordsOf
      <4> QED
        BY <2>2, <2>5, <2>7, <3>1, <3>3, <4>1 DEF Inv, Agrees
    <3> QED
      BY <3>2, <3>3
  <2>14. ASSUME NEW q \in Requests, NEW h \in request[q].shown \ crossed',
                q # p, Bulk(request[q])
         PROVE  /\ LeftAlone(request[q], h) /\ decided'[h] => decided[h]
                /\ ~LeftAlone(request[q], h) /\ Exists(h) => Exists(h)' /\ RecordsOf(h)' = RecordsOf(h)
    <3>1. h = m /\ ~LeftAlone(request[q], h) => h \in Unmarked({m})
      BY <2>1, <2>14 DEF Unmarked, Bulk, LeftAlone, RowFree
    <3>2. h \in Messages /\ h \notin Unmarked({m})
      BY <2>2, <2>14, RequestFields DEF Inv
    <3> QED
      BY <2>2, <2>6, <2>7, <3>1, <3>2
  <2>15. \A q \in Requests : \A h \in request[q].held : Exists(h)'
    <3>1. \A q \in Requests : request[q].held \subseteq Messages /\ m \notin request[q].held
      BY <2>1, RequestFields DEF Inv, RowFree
    <3> QED
      BY <2>7, <3>1 DEF Inv, HeldByOne
  <2>16. \A h \in Messages : intake'[h].status = "none" => intake[h].status = "none"
    BY <2>4, <2>5
  <2>17. \A o \in Requests : o # p => record'[o].of = record[o].of
    BY <2>5
  <2> QED
    BY <1>1, <2>1, <2>2, <2>7, <2>10, <2>11, <2>12, <2>13, <2>14, <2>15, <2>16, <2>17, FreeStep
<1> QED
  BY <1>3, <1>4

\* One message is decided, and its only record with it.
LEMMA DecidedStep ==
  ASSUME Inv, NEW p \in Requests, NEW r \in Request, Becomes(p, r), Claims(r), r.held = {}, ~Bulk(r),
         r.step = "done", NEW m \in Messages, NEW needed \in BOOLEAN,
         decided' \in [Messages -> BOOLEAN], decided'[m] = needed,
         \A h \in Messages : h # m => decided'[h] = decided[h],
         crossed' = crossed \cup (IF needed THEN LeftOut({m}) ELSE {}), UNCHANGED extractions,
         intake' \in [Messages -> Intake], record' \in [Requests -> Record],
         \A h \in Messages : /\ intake'[h].status = intake[h].status
                             /\ intake'[h].record = intake[h].record
                             /\ h # m => intake'[h].needed = intake[h].needed,
         \A s \in Requests : /\ record'[s].of = record[s].of
                             /\ record[s].of # m => record'[s].needed = record[s].needed,
         Single(m) => /\ Exists(m) => intake'[m].needed = decided'[m]
                      /\ \A s \in RecordsOf(m) : record'[s].needed = decided'[m]
  PROVE  Inv'
<1>1. /\ decided' \in [Messages -> BOOLEAN] /\ decided'[m] = needed
      /\ \A h \in Messages : h # m => decided'[h] = decided[h]
      /\ crossed' = crossed \cup (IF needed THEN LeftOut({m}) ELSE {}) /\ UNCHANGED extractions
  OBVIOUS
<1>2. \A h \in Messages : /\ RecordsOf(h)' = RecordsOf(h) /\ Single(h)' = Single(h)
                          /\ Exists(h)' = Exists(h)
  BY DEF RecordsOf, Single, Exists
<1>3. LeftOut({m}) \subseteq {m}
  BY DEF LeftOut
<1>4. DataType'
  BY <1>1, <1>2, <1>3 DEF Inv, TypeOK, DataType
<1>5. Linked' /\ Extracted'
  BY <1>1, <1>2 DEF Inv, Linked, Extracted
<1>6. Agrees'
  <2> SUFFICES ASSUME NEW h \in Messages \ crossed', Single(h)
               PROVE  /\ Exists(h) => intake'[h].needed = decided'[h]
                      /\ \A s \in RecordsOf(h) : record'[s].needed = decided'[h]
    BY <1>2 DEF Agrees
  <2>1. CASE h = m
    BY <1>1, <2>1
  <2>2. CASE h # m
    <3>1. \A s \in RecordsOf(h) : record'[s].needed = record[s].needed
      BY <2>2 DEF RecordsOf
    <3> QED
      BY <1>1, <2>2, <3>1 DEF Inv, Agrees
  <2> QED
    BY <2>1, <2>2
<1>7. ASSUME NEW q \in Requests, NEW h \in request[q].shown \ crossed', q # p, Bulk(request[q]),
             LeftAlone(request[q], h), decided'[h]
      PROVE  decided[h]
  <2>1. h = m => h \in LeftOut({m})
    BY <1>7 DEF LeftOut, LeftAlone
  <2>2. h \in Messages
    BY RequestFields DEF Inv
  <2> QED
    BY <1>1, <1>7, <2>1, <2>2
<1>8. \A q \in Requests : \A h \in request[q].held : Exists(h)'
  <2>1. \A q \in Requests : request[q].held \subseteq Messages
    BY RequestFields DEF Inv
  <2> QED
    BY <1>2, <2>1 DEF Inv, HeldByOne
<1>9. ASSUME NEW q \in Requests, NEW h \in request[q].shown \ crossed', q # p, Bulk(request[q])
      PROVE  /\ LeftAlone(request[q], h) /\ decided'[h] => decided[h]
             /\ ~LeftAlone(request[q], h) /\ Exists(h) => Exists(h)' /\ RecordsOf(h)' = RecordsOf(h)
  <2>1. h \in Messages
    BY RequestFields DEF Inv
  <2> QED
    BY <1>2, <1>7, <1>9, <2>1
<1>10. /\ crossed \subseteq crossed' /\ r.step # "done" => record'[p].of = None
       /\ \A o \in Requests : o # p => record'[o].of = record[o].of
       /\ record'[p].of = record[p].of
       /\ \A h \in Messages : Single(h)' => Single(h)
  BY <1>1, <1>2
<1> QED
  BY <1>4, <1>5, <1>6, <1>8, <1>9, <1>10, FreeStep

LEMMA ResolveStep ==
  ASSUME Inv, NEW p \in Requests, NEW m \in Messages, NEW needed \in BOOLEAN, Resolve(p, m, needed)
  PROVE  Inv'
<1>1. PICK r \in Request : /\ Becomes(p, r) /\ Claims(r) /\ r.held = {} /\ ~Bulk(r)
                           /\ r.step = "done"
  BY AnsweredRecord DEF Resolve, Inv
<1>2. /\ intake' = [intake EXCEPT ![m] = [intake[m] EXCEPT !.needed = needed]]
      /\ decided' \in [Messages -> BOOLEAN] /\ decided'[m] = needed
      /\ \A h \in Messages : h # m => decided'[h] = decided[h]
      /\ crossed' = crossed \cup (IF needed THEN LeftOut({m}) ELSE {}) /\ UNCHANGED extractions
  BY DEF Resolve, Decide, Inv, TypeOK
<1>3. /\ [intake[m] EXCEPT !.needed = needed] \in Intake
      /\ [intake[m] EXCEPT !.needed = needed].status = intake[m].status
      /\ [intake[m] EXCEPT !.needed = needed].record = intake[m].record
      /\ [intake[m] EXCEPT !.needed = needed].needed = needed
  BY MessageFields DEF Inv, Intake
<1>4. /\ intake' \in [Messages -> Intake]
      /\ intake'[m].status = intake[m].status /\ intake'[m].record = intake[m].record
      /\ intake'[m].needed = needed
      /\ \A h \in Messages : h # m => intake'[h] = intake[h]
  BY <1>2, <1>3 DEF Inv, TypeOK
<1>5. ASSUME NEW s \in Requests
      PROVE  /\ record'[s] \in Record /\ record'[s].of = record[s].of
             /\ s # intake[m].record => record'[s].needed = record[s].needed
             /\ s = intake[m].record => record'[s].needed = needed
  <2>1. CASE s = intake[m].record
    <3>1. record'[s] = [record[s] EXCEPT !.needed = needed]
      BY <2>1 DEF Resolve
    <3> QED
      BY <2>1, <3>1, RecordFields DEF Inv, Record
  <2>2. CASE s # intake[m].record
    <3>1. record'[s] = record[s]
      BY <2>2 DEF Resolve
    <3> QED
      BY <2>2, <3>1, RecordFields DEF Inv
  <2> QED
    BY <2>1, <2>2
<1>6. record' \in [Requests -> Record]
  <2>1. \E f : record' = [s \in Requests |-> f[s]]
    BY DEF Resolve
  <2> QED
    BY <1>5, <2>1
<1>7. \A s \in Requests : record[s].of # m => s # intake[m].record
  BY MessageFields, EnquiriesAssumption DEF Inv, RecordsOf
<1>8. Single(m) => \A s \in RecordsOf(m) : record'[s].needed = needed
  BY <1>5, SingleIsNamed DEF Inv, RecordsOf
<1>9. \A h \in Messages : /\ intake'[h].status = intake[h].status
                          /\ intake'[h].record = intake[h].record
                          /\ h # m => intake'[h].needed = intake[h].needed
  BY <1>4
<1>10. \A s \in Requests : /\ record'[s].of = record[s].of
                           /\ record[s].of # m => record'[s].needed = record[s].needed
  BY <1>5, <1>7
<1>11. Single(m) => /\ Exists(m) => intake'[m].needed = decided'[m]
                    /\ \A s \in RecordsOf(m) : record'[s].needed = decided'[m]
  BY <1>2, <1>4, <1>8
<1> QED
  BY <1>1, <1>2, <1>4, <1>6, <1>9, <1>10, <1>11, DecidedStep

LEMMA UpdateStep ==
  ASSUME Inv, NEW p \in Requests, NEW s \in Requests, NEW needed \in BOOLEAN, UpdateRecord(p, s, needed)
  PROVE  Inv'
<1>1. PICK r \in Request : /\ Becomes(p, r) /\ Claims(r) /\ r.held = {} /\ ~Bulk(r)
                           /\ r.step = "done"
  BY AnsweredRecord DEF UpdateRecord, Inv
<1>2. PICK m \in Messages : m = record[s].of
  BY RecordFields DEF UpdateRecord, Inv
<1>3. /\ record' = [record EXCEPT ![s] = [record[s] EXCEPT !.needed = needed]]
      /\ decided' \in [Messages -> BOOLEAN] /\ decided'[m] = needed
      /\ \A h \in Messages : h # m => decided'[h] = decided[h]
      /\ crossed' = crossed \cup (IF needed THEN LeftOut({m}) ELSE {}) /\ UNCHANGED extractions
  BY <1>2 DEF UpdateRecord, Decide, Inv, TypeOK
<1>4. /\ [record[s] EXCEPT !.needed = needed] \in Record
      /\ [record[s] EXCEPT !.needed = needed].of = record[s].of
      /\ [record[s] EXCEPT !.needed = needed].needed = needed
  BY RecordFields DEF Inv, Record
<1>5. /\ record' \in [Requests -> Record]
      /\ record'[s].of = record[s].of /\ record'[s].needed = needed
      /\ \A o \in Requests : o # s => record'[o] = record[o]
  BY <1>3, <1>4 DEF Inv, TypeOK
<1>6. Followers(s) \subseteq {m} /\ (Exists(m) /\ intake[m].record = s => m \in Followers(s))
  BY <1>2, MessageFields, EnquiriesAssumption DEF Inv, Followers, LinkedTo, RecordsOf
<1>7. ASSUME NEW h \in Messages
      PROVE  /\ intake'[h] \in Intake /\ intake'[h].status = intake[h].status
             /\ intake'[h].record = intake[h].record
             /\ h # m => intake'[h].needed = intake[h].needed
             /\ h \in Followers(s) => intake'[h].needed = needed
  <2>1. CASE h \in Followers(s)
    <3>1. intake'[h] = [intake[h] EXCEPT !.needed = needed]
      BY <2>1 DEF UpdateRecord
    <3> QED
      BY <1>6, <2>1, <3>1, MessageFields DEF Inv, Intake
  <2>2. CASE h \notin Followers(s)
    <3>1. intake'[h] = intake[h]
      BY <2>2 DEF UpdateRecord
    <3> QED
      BY <2>2, <3>1, MessageFields DEF Inv
  <2> QED
    BY <2>1, <2>2
<1>8. intake' \in [Messages -> Intake]
  <2>1. intake' = [h \in Messages |-> intake'[h]]
    <3>1. intake' = [h \in Messages |->
            IF h \in Followers(s) THEN [intake[h] EXCEPT !.needed = needed] ELSE intake[h]]
      BY DEF UpdateRecord
    <3> QED
      BY <3>1, Zenon
  <2> QED
    BY <1>7, <2>1
<1>9. ASSUME Single(m)
      PROVE  /\ Exists(m) => intake'[m].needed = needed
             /\ \A o \in RecordsOf(m) : record'[o].needed = needed
  <2>1. s \in RecordsOf(m)
    BY <1>2 DEF RecordsOf
  <2>2. intake[m].record = s /\ \A o \in RecordsOf(m) : o = s
    BY <1>9, <2>1, SingleIsNamed DEF Inv, Single
  <2> QED
    BY <1>5, <1>6, <1>7, <2>2
<1>10. \A h \in Messages : /\ intake'[h].status = intake[h].status
                           /\ intake'[h].record = intake[h].record
                           /\ h # m => intake'[h].needed = intake[h].needed
  BY <1>7
<1>11. \A o \in Requests : /\ record'[o].of = record[o].of
                           /\ record[o].of # m => record'[o].needed = record[o].needed
  BY <1>2, <1>5
<1>12. Single(m) => /\ Exists(m) => intake'[m].needed = decided'[m]
                    /\ \A o \in RecordsOf(m) : record'[o].needed = decided'[m]
  BY <1>3, <1>9
<1> QED
  BY <1>1, <1>3, <1>5, <1>8, <1>10, <1>11, <1>12, DecidedStep

LEMMA DeleteStep ==
  ASSUME Inv, NEW p \in Requests, NEW m \in Messages, Delete(p, m)
  PROVE  Inv'
<1>1. PICK r \in Request : /\ Becomes(p, r) /\ Claims(r) /\ r.held = {} /\ ~Bulk(r)
                           /\ r.step = "done"
  BY AnsweredRecord DEF Delete, Inv
<1>2. /\ Exists(m) /\ RowFree(m)
      /\ intake' = [intake EXCEPT ![m] = [intake[m] EXCEPT !.status = "deleted"]]
      /\ crossed' = crossed \cup Unmarked({m})
      /\ UNCHANGED <<record, decided, extractions>>
  BY DEF Delete
<1>3. /\ [intake[m] EXCEPT !.status = "deleted"] \in Intake
      /\ [intake[m] EXCEPT !.status = "deleted"].status = "deleted"
      /\ [intake[m] EXCEPT !.status = "deleted"].record = intake[m].record
  BY MessageFields DEF Inv, Intake, Statuses
<1>4. /\ intake' \in [Messages -> Intake]
      /\ intake'[m].status = "deleted" /\ intake'[m].record = intake[m].record
      /\ \A h \in Messages : h # m => intake'[h] = intake[h]
      /\ \A h \in Messages : RecordsOf(h)' = RecordsOf(h) /\ Single(h)' = Single(h)
  BY <1>2, <1>3 DEF Inv, TypeOK, RecordsOf, Single
<1>5. ~Exists(m)' /\ \A h \in Messages : h # m => Exists(h)' = Exists(h)
  BY <1>4 DEF Exists
<1>6. Unmarked({m}) \subseteq {m}
  BY DEF Unmarked
<1>7. DataType'
  BY <1>2, <1>4, <1>6 DEF Inv, TypeOK, DataType
<1>8. Linked'
  BY <1>2, <1>4 DEF Inv, Linked
<1>9. Extracted'
  <2>1. \A h \in Messages : Cardinality(RecordsOf(h)) \in Nat /\ extractions[h] \in Nat
    BY FS_CardinalityType, MessageFields DEF Inv, Extracted
  <2> QED
    BY <1>2, <1>4, <2>1 DEF Inv, Extracted
<1>10. Agrees'
  BY <1>2, <1>4, <1>5 DEF Inv, Agrees
<1>11. ASSUME NEW q \in Requests, NEW h \in request[q].shown \ crossed', q # p, Bulk(request[q])
       PROVE  /\ LeftAlone(request[q], h) /\ decided'[h] => decided[h]
              /\ ~LeftAlone(request[q], h) /\ Exists(h) => Exists(h)' /\ RecordsOf(h)' = RecordsOf(h)
  <2>1. h = m /\ ~LeftAlone(request[q], h) => h \in Unmarked({m})
    BY <1>2, <1>11 DEF Unmarked, Bulk, LeftAlone, RowFree
  <2>2. h \in Messages /\ h \notin Unmarked({m})
    BY <1>2, <1>11, RequestFields DEF Inv
  <2> QED
    BY <1>2, <1>4, <1>5, <2>1, <2>2
<1>12. \A q \in Requests : \A h \in request[q].held : Exists(h)'
  <2>1. \A q \in Requests : request[q].held \subseteq Messages /\ m \notin request[q].held
    BY <1>2, RequestFields DEF Inv, RowFree
  <2> QED
    BY <1>5, <2>1 DEF Inv, HeldByOne
<1> QED
  BY <1>1, <1>2, <1>4, <1>5, <1>7, <1>8, <1>9, <1>10, <1>11, <1>12, FreeStep

LEMMA CloseStep ==
  ASSUME Inv, NEW p \in Requests, Close(p)
  PROVE  Inv'
<1>1. PICK r \in Request : /\ Becomes(p, r) /\ Claims(r) /\ r.held = {} /\ ~Bulk(r)
                           /\ r.step = "done"
  BY DoneRecord DEF Close, Inv
<1>2. PICK held \in SUBSET Messages, records \in SUBSET Requests, shown \in SUBSET Messages :
        held = request[p].held /\ records = request[p].records /\ shown = request[p].shown
  BY RequestFields DEF Inv
<1>3. /\ held \subseteq shown
      /\ \A m \in shown \ crossed : Single(m) =>
           /\ m \in held => RecordsOf(m) \subseteq records
           /\ m \notin held => ~decided[m]
      /\ \A s \in records : record[s].of \in shown
  <2>1. Sees(request[p]) /\ request[p].step = "close" /\ held \subseteq shown
    BY <1>2, RequestFields DEF Inv, BulkSees, Close, At
  <2> QED
    BY <1>2, <2>1 DEF Sees, Bulk, LeftAlone
<1>4. UNCHANGED <<extractions, crossed>>
  BY DEF Close
<1>5. ASSUME NEW m \in Messages
      PROVE  /\ intake'[m] \in Intake /\ intake'[m].status = intake[m].status
             /\ intake'[m].record = intake[m].record
             /\ m \in held => intake'[m].needed = FALSE
             /\ m \notin held => intake'[m].needed = intake[m].needed
  <2>1. CASE m \in held
    <3>1. intake'[m] = [intake[m] EXCEPT !.needed = FALSE]
      BY <1>2, <2>1 DEF Close
    <3> QED
      BY <2>1, <3>1, MessageFields DEF Inv, Intake
  <2>2. CASE m \notin held
    <3>1. intake'[m] = intake[m]
      BY <1>2, <2>2 DEF Close
    <3> QED
      BY <2>2, <3>1, MessageFields DEF Inv
  <2> QED
    BY <2>1, <2>2
<1>6. ASSUME NEW s \in Requests
      PROVE  /\ record'[s] \in Record /\ record'[s].of = record[s].of
             /\ s \in records => record'[s].needed = FALSE
             /\ s \notin records => record'[s].needed = record[s].needed
  <2>1. CASE s \in records
    <3>1. record'[s] = [record[s] EXCEPT !.needed = FALSE]
      BY <1>2, <2>1 DEF Close
    <3> QED
      BY <2>1, <3>1, RecordFields DEF Inv, Record
  <2>2. CASE s \notin records
    <3>1. record'[s] = record[s]
      BY <1>2, <2>2 DEF Close
    <3> QED
      BY <2>2, <3>1, RecordFields DEF Inv
  <2> QED
    BY <2>1, <2>2
<1>7. /\ intake' \in [Messages -> Intake] /\ record' \in [Requests -> Record]
      /\ decided' \in [Messages -> BOOLEAN]
  <2>1. intake' = [m \in Messages |->
                     IF m \in request[p].held THEN [intake[m] EXCEPT !.needed = FALSE] ELSE intake[m]]
    BY DEF Close
  <2>2. intake' = [m \in Messages |-> intake'[m]]
    BY <2>1, Zenon
  <2>3. record' = [x \in Requests |->
                     IF x \in request[p].records THEN [record[x] EXCEPT !.needed = FALSE] ELSE record[x]]
    BY DEF Close
  <2>4. record' = [x \in Requests |-> record'[x]]
    BY <2>3, Zenon
  <2>5. decided' \in [Messages -> BOOLEAN]
    BY DEF Close
  <2> QED
    BY <1>5, <1>6, <2>2, <2>4, <2>5
<1>8. \A m \in Messages : /\ m \in held => decided'[m] = FALSE
                          /\ m \notin held => decided'[m] = decided[m]
  <2> SUFFICES ASSUME NEW m \in Messages
               PROVE  /\ m \in held => decided'[m] = FALSE
                      /\ m \notin held => decided'[m] = decided[m]
    OBVIOUS
  <2>1. decided'[m] = (decided[m] /\ m \notin held) /\ decided[m] \in BOOLEAN
    BY <1>2, MessageFields DEF Close, Inv
  <2> QED
    BY <2>1
<1>9. \A m \in Messages : /\ RecordsOf(m)' = RecordsOf(m) /\ Exists(m)' = Exists(m)
                          /\ Single(m)' = Single(m)
  BY <1>5, <1>6 DEF RecordsOf, Exists, Single
<1>10. DataType' /\ Linked' /\ Extracted'
  <2>1. DataType'
    BY <1>4, <1>5, <1>7, <1>9 DEF Inv, TypeOK, DataType
  <2>2. Linked'
    BY <1>4, <1>5, <1>9 DEF Inv, Linked
  <2>3. Extracted'
    BY <1>4, <1>5, <1>9 DEF Inv, Extracted
  <2> QED
    BY <2>1, <2>2, <2>3
<1>11. Agrees'
  <2> SUFFICES ASSUME NEW m \in Messages \ crossed, Single(m)
               PROVE  /\ Exists(m) => intake'[m].needed = decided'[m]
                      /\ \A s \in RecordsOf(m) : record'[s].needed = decided'[m]
    BY <1>4, <1>9 DEF Agrees
  <2>1. /\ Exists(m) => intake[m].needed = decided[m]
        /\ \A s \in RecordsOf(m) : record[s].needed = decided[m]
    BY DEF Inv, Agrees
  <2>2. CASE m \in held
    <3>1. RecordsOf(m) \subseteq records /\ RecordsOf(m) \subseteq Requests
      BY <1>3, <2>2 DEF RecordsOf
    <3> QED
      BY <1>5, <1>6, <1>8, <2>2, <3>1
  <2>3. CASE m \notin held
    <3>1. ASSUME NEW s \in RecordsOf(m) PROVE record'[s].needed = decided[m]
      <4>1. s \in Requests /\ record[s].of = m
        BY DEF RecordsOf
      <4>2. CASE s \in records
        <5>1. m \in shown /\ ~decided[m] /\ decided[m] \in BOOLEAN
          BY <1>3, <2>3, <4>1, <4>2, MessageFields DEF Inv
        <5> QED
          BY <1>6, <4>1, <4>2, <5>1
      <4>3. CASE s \notin records
        BY <1>6, <2>1, <4>1, <4>3
      <4> QED
        BY <4>2, <4>3
    <3> QED
      BY <1>5, <1>8, <2>1, <2>3, <3>1
  <2> QED
    BY <2>2, <2>3
<1>12. \A q \in Requests : request[q].held \subseteq Messages /\ request[q].shown \subseteq Messages
  BY RequestFields DEF Inv
<1>13. \A q \in Requests : \A h \in request[q].held : Exists(h)'
  BY <1>9, <1>12 DEF Inv, HeldByOne
<1>14. \A q \in Requests : \A h \in request[q].shown :
         /\ decided'[h] => decided[h]
         /\ Exists(h) => Exists(h)' /\ RecordsOf(h)' = RecordsOf(h)
  BY <1>8, <1>9, <1>12
<1>15. \A h \in Messages : intake'[h].status = "none" => intake[h].status = "none"
  BY <1>5
<1>16. \A o \in Requests : record'[o].of = record[o].of
  BY <1>6
<1> QED
  BY <1>1, <1>4, <1>9, <1>10, <1>11, <1>13, <1>14, <1>15, <1>16, FreeStep

-----------------------------------------------------------------------------
(* The invariant holds. *)

LEMMA InvInit == Init => Inv
<1> SUFFICES ASSUME Init PROVE Inv
  OBVIOUS
<1>1. ASSUME NEW m \in Messages
      PROVE  /\ intake[m] \in Intake /\ intake[m].status \in {"none", "new", "extracted"}
             /\ intake[m].record = None /\ intake[m].needed \in BOOLEAN
             /\ extractions[m] = IF intake[m].status = "extracted" THEN 1 ELSE 0
             /\ decided[m] = intake[m].needed
  <2>1. intake[m] \in {[status |-> s, needed |-> s # "none", record |-> None] :
                                 s \in {"none", "new", "extracted"}}
    BY DEF Init
  <2>2. PICK s \in {"none", "new", "extracted"} :
          intake[m] = [status |-> s, needed |-> s # "none", record |-> None]
    BY <2>1
  <2> QED
    BY <2>2 DEF Init, Intake, Statuses
<1>2. Idle \in Request /\ Idle.step = "idle" /\ Idle.held = {}
  BY DEF Idle, Request
<1>3. /\ record \in [Requests -> Record] /\ request \in [Requests -> Request] /\ crossed = {}
      /\ \A p \in Requests : record[p].of = None /\ request[p] = Idle
  BY <1>2 DEF Init, Record
<1>4. \A m \in Messages : RecordsOf(m) = {}
  BY <1>3, EnquiriesAssumption DEF RecordsOf
<1>5. /\ intake \in [Messages -> Intake] /\ decided \in [Messages -> BOOLEAN]
      /\ extractions \in [Messages -> Nat]
  BY <1>1 DEF Init
<1>6. TypeOK
  BY <1>1, <1>2, <1>3, <1>4, <1>5 DEF TypeOK
<1>7. RecordWhenDone /\ Linked /\ HeldByOne /\ Agrees /\ BulkSees
  BY <1>1, <1>2, <1>3, <1>4
  DEF RecordWhenDone, Claims, Linked, HeldByOne, Agrees, BulkSees, Sees, Bulk, LeftAlone
<1>8. Extracted
  BY <1>1, <1>4, FS_EmptySet DEF Extracted
<1> QED
  BY <1>6, <1>7, <1>8 DEF Inv

LEMMA InvStep == Inv /\ [Next]_vars => Inv'
<1> SUFFICES ASSUME Inv, [Next]_vars PROVE Inv'
  OBVIOUS
<1>1. ASSUME NEW p \in Requests, Arrival(p) PROVE Inv'
  BY <1>1, ArriveStep, DeleteStep, ResolveStep, UpdateStep DEF Arrival
<1>2. ASSUME NEW p \in Requests, Step(p) PROVE Inv'
  BY <1>2, ExtractWriteStep, ConvertStep, YesStep, MarkStep, CloseStep DEF Step
<1>3. CASE UNCHANGED vars
  BY <1>3
  DEF Inv, vars, TypeOK, RecordWhenDone, Claims, Linked, Extracted, HeldByOne, Agrees, BulkSees,
      Sees, Bulk, LeftAlone, Single, Exists, RecordsOf
<1> QED
  BY <1>1, <1>2, <1>3, ReceiveStep, FailStep DEF Next

LEMMA InvAlways == Spec => []Inv
  BY InvInit, InvStep, PTL DEF Spec

-----------------------------------------------------------------------------
(* What holds of enquiries, for any number of messages and requests. *)

\* Every row and request is what its type says, a message names only a record of its own,
\* and one delivered again does not start over.
THEOREM EnquiryTypeCorrect == Spec => []TypeOK
<1>1. Inv => TypeOK
  BY DEF Inv
<1> QED
  BY <1>1, InvAlways, PTL

\* A message never has more records than it had extractions, however many confirmations
\* of one overlap.
THEOREM ConversionsUseExtractions == Spec => []OnePerExtraction
<1>1. ASSUME Inv, NEW m \in Messages PROVE Cardinality(RecordsOf(m)) <= extractions[m]
  <2>1. Cardinality(RecordsOf(m)) \in Nat /\ extractions[m] \in Nat
    BY <1>1, FS_CardinalityType, MessageFields DEF Inv, Extracted
  <2> QED
    BY <1>1, <2>1 DEF Inv, Extracted
<1>2. Inv => OnePerExtraction
  BY <1>1 DEF OnePerExtraction
<1> QED
  BY <1>2, InvAlways, PTL

\* A set of at most one element.
LEMMA AtMostOne ==
  ASSUME NEW S, IsFiniteSet(S), Cardinality(S) <= 1, NEW a \in S, NEW b \in S
  PROVE  a = b
<1> SUFFICES ASSUME a # b PROVE FALSE
  OBVIOUS
<1>1. IsFiniteSet(S \ {a}) /\ Cardinality(S \ {a}) = Cardinality(S) - 1
  BY FS_RemoveElement
<1>2. Cardinality(S) \in Nat /\ Cardinality(S \ {a}) \in Nat /\ Cardinality(S \ {a}) # 0
  BY <1>1, FS_CardinalityType, FS_EmptySet
<1> QED
  BY <1>1, <1>2

\* An enquiry with at most one record is listed as waiting exactly when the last decision
\* about it was to keep it open, unless it was converted or deleted after a bulk yes had read
\* it and before it was marked, or found resolved by one and reopened before it committed.
THEOREM WaitingIsWhatWasDecided == Spec => []ListedAsDecided
<1>1. ASSUME Inv, NEW m \in Messages \ crossed, Exists(m) \/ RecordsOf(m) # {},
             Cardinality(RecordsOf(m)) <= 1
      PROVE  Listed(m) <=> decided[m]
  <2>1. Single(m)
    BY <1>1, AtMostOne DEF Inv, Extracted, Single
  <2>2. /\ Exists(m) => intake[m].needed = decided[m]
        /\ \A r \in RecordsOf(m) : record[r].needed = decided[m]
    BY <1>1, <2>1 DEF Inv, Agrees
  <2>3. CASE RecordsOf(m) = {}
    <3>1. intake[m].status \in {"new", "extracted"}
      <4>1. intake[m].record = None /\ intake[m].status \in Statuses
        BY <1>1, <2>3, MessageFields DEF Inv
      <4> QED
        BY <1>1, <2>3, <4>1 DEF Inv, TypeOK, Exists, Statuses
    <3> QED
      BY <1>1, <2>2, <2>3, <3>1 DEF Listed
  <2>4. CASE RecordsOf(m) # {}
    <3>1. CASE intake[m].status \in {"new", "extracted"}
      BY <2>2, <2>4, <3>1 DEF Listed, Exists
    <3>2. CASE intake[m].status \notin {"new", "extracted"}
      BY <2>2, <2>4, <3>2 DEF Listed
    <3> QED
      BY <3>1, <3>2
  <2> QED
    BY <2>3, <2>4
<1>2. Inv => ListedAsDecided
  BY <1>1 DEF ListedAsDecided
<1> QED
  BY <1>2, InvAlways, PTL
================================================================================
