-------------------------- MODULE ClientRecordsProofs --------------------------
(* Theorems about clients, their merging and deletion, and the leads that became  *)
(* clients, for every number of clients, records, leads and requests.             *)
EXTENDS ClientRecords, FiniteSetTheorems, TLAPS

-----------------------------------------------------------------------------
(* The inductive invariant. *)

\* The requests that saved something.
Saves == {q \in Requests : request[q].answer = "saved"}

\* A client's row is updated at most once by each request that saves.
Counted == \A c \in Clients : client[c].revision <= Cardinality(Saves)

\* A merge is recorded at the very end of its request.
MergesAreOver ==
    \A m \in Requests : merge[m].status # "none" =>
        request[m].step = "done" /\ merge[m].into \in Clients /\ merge[m].from \in Clients

\* What a request of each kind names, and how far it has come.
Kind(r) ==
    /\ r.step = "idle" <=> r.op = "none"
    /\ r.op \in {"link", "merge", "unmerge", "edit", "archive", "delete"} => r.client \in Clients
    /\ r.op \in {"merge", "unmerge"} => r.into \in Clients
    /\ r.op = "link" => r.record \in Records
    /\ r.op = "unmerge" => r.of \in Requests
    /\ r.op \in {"convert", "edit_lead"} => r.lead \in Leads
    /\ r.answer = "saved" => r.step = "done"

\* The merge that is undone was once recorded.
OfItsKind(p) ==
    /\ Kind(request[p])
    /\ request[p].op = "unmerge" => merge[request[p].of].status # "none"

\* The lead's row is locked.
Converting(p) == request[p].op = "convert" /\ request[p].step \in {"match", "save"}

\* Nothing is lost with the client.
Unneeded(c) ==
    /\ \A r \in Records : link[r] # c
    /\ \A l \in Leads : lead[l].client # c
    /\ \A m \in Requests : merge[m].status = "merged" /\ request[m].moved # {} =>
                             c # merge[m].into /\ c # merge[m].from

\* What a request has under its locks stays as it found it.
HoldsWell(p) ==
    /\ \A c \in Clients : HeldForUpdate(p, c) \/ HeldKeyShare(p, c) => Exists(c)
    /\ At(p, "delete", "remove") => /\ Unneeded(request[p].client)
                                    /\ client[request[p].client].revision = request[p].shown
    /\ Converting(p) => lead[request[p].lead].status # "converted"

\* Locks exclude each other.
Apart(p, q) ==
    /\ \A c \in Clients : HeldForUpdate(p, c) => ~HeldForUpdate(q, c) /\ ~HeldKeyShare(q, c)
    /\ Converting(p) /\ Converting(q) => request[p].lead # request[q].lead

\* The lead of a saved edit may be open again.
Edited(l) ==
    \E e \in Requests : request[e].op = "edit_lead" /\ request[e].lead = l /\ request[e].answer = "saved"

\* A lead that was converted is so still, or was edited since.
ConvertedStands ==
    \A p \in Requests :
        request[p].op = "convert" /\ request[p].answer = "saved" =>
            lead[request[p].lead].status = "converted" \/ Edited(request[p].lead)

Inv == /\ TypeOK /\ Counted /\ MergesAreOver
       /\ \A p \in Requests : OfItsKind(p) /\ HoldsWell(p)
       /\ \A p, q \in Requests : p # q => Apart(p, q)
       /\ ConvertedStands /\ NoneNeededIsDeleted /\ ConvertedOnce

-----------------------------------------------------------------------------
(* The beginning. *)

LEMMA IdleRequest == Idle \in Request
BY DEF Idle, Request, Operations, Steps, Answers

LEMMA InitInv == Init => Inv
<1> SUFFICES ASSUME Init PROVE Inv
  OBVIOUS
<1>1. Cardinality(Requests) \in Nat
  BY RecordsAssumption, FS_CardinalityType
<1>2. 0 \in Revisions
  BY <1>1 DEF Revisions
<1>3. TypeOK
  BY <1>2, IdleRequest, RecordsAssumption
     DEF Init, TypeOK, Client, States, Lead, Merge, Unmerged
<1>4. \A p \in Requests : request[p] = Idle /\ merge[p] = Unmerged
  BY DEF Init
<1>5. Idle.step = "idle" /\ Idle.op = "none" /\ Idle.answer = "none"
  BY DEF Idle
<1>6. Counted
  <2>1. Saves = {}
    BY <1>4, <1>5 DEF Saves
  <2>2. \A c \in Clients : client[c].revision = 0
    BY DEF Init
  <2> QED BY <2>1, <2>2, FS_EmptySet DEF Counted
<1>7. MergesAreOver
  BY <1>4 DEF MergesAreOver, Unmerged
<1>8. \A p \in Requests : OfItsKind(p) /\ HoldsWell(p)
  BY <1>4, <1>5 DEF OfItsKind, Kind, HoldsWell, HeldForUpdate, HeldKeyShare, At, Converting
<1>9. \A p, q \in Requests : p # q => Apart(p, q)
  BY <1>4, <1>5 DEF Apart, HeldForUpdate, HeldKeyShare, At, Converting
<1>10. ConvertedStands /\ ConvertedOnce
  BY <1>4, <1>5 DEF ConvertedStands, ConvertedOnce
<1>11. NoneNeededIsDeleted
  BY <1>4 DEF Init, NoneNeededIsDeleted, MergesStayUndoable, ConvertedClientExists, Unmerged
<1> QED BY <1>3, <1>6, <1>7, <1>8, <1>9, <1>10, <1>11 DEF Inv

-----------------------------------------------------------------------------
(* Steps that write to the request only. *)

LEMMA OneTurn ==
    ASSUME NEW p \in Requests, NEW r \in Request, TypeOK, Becomes(p, r)
    PROVE  /\ request' \in [Requests -> Request]
           /\ request'[p] = r
           /\ \A q \in Requests \ {p} : request'[q] = request[q]
BY DEF TypeOK, Becomes

\* The row locks a request has depend on nothing else.
LEMMA LocksAreOnesOwn ==
    ASSUME NEW q \in Requests, request'[q] = request[q]
    PROVE  /\ Converting(q)' = Converting(q)
           /\ \A c \in Clients : /\ HeldForUpdate(q, c)' = HeldForUpdate(q, c)
                                 /\ HeldKeyShare(q, c)' = HeldKeyShare(q, c)
BY DEF Converting, HeldForUpdate, HeldKeyShare, At

\* A request without a lock.
Unlocked(r) == /\ r.step \notin {"recheck", "remove", "match", "save"}
               /\ r.step = "commit" => r.moved = {}

LEMMA NothingHeld ==
    ASSUME NEW p \in Requests, NEW r, request'[p] = r, Unlocked(r)
    PROVE  /\ HoldsWell(p)'
           /\ ~Converting(p)'
           /\ \A c \in Clients : ~HeldForUpdate(p, c)' /\ ~HeldKeyShare(p, c)'
BY DEF Unlocked, HoldsWell, Converting, HeldForUpdate, HeldKeyShare, At

Elsewhere == UNCHANGED <<client, link, lead, merge>>

LEMMA RequestTurn ==
    ASSUME NEW p \in Requests, NEW r \in Request, Inv, Becomes(p, r), Elsewhere,
           request[p].step # "done", r.answer # "saved", OfItsKind(p)', HoldsWell(p)',
           \A q \in Requests \ {p} : Apart(p, q)' /\ Apart(q, p)'
    PROVE  Inv'
<1>1. TypeOK /\ \A q \in Requests : OfItsKind(q) /\ HoldsWell(q)
  BY DEF Inv
<1>2. /\ request' \in [Requests -> Request] /\ request'[p] = r
      /\ \A q \in Requests \ {p} : request'[q] = request[q]
  BY <1>1, OneTurn
<1>3. TypeOK'
  BY <1>1, <1>2 DEF TypeOK, Elsewhere
<1>4. request[p].answer # "saved" /\ merge[p].status = "none"
  BY <1>1 DEF OfItsKind, Kind, Inv, MergesAreOver, TypeOK, Merge
<1>5. Saves' = Saves
  BY <1>2, <1>4 DEF Saves
<1>6. Counted'
  BY <1>5 DEF Inv, Counted, Elsewhere
<1>7. MergesAreOver'
  BY <1>2, <1>4 DEF Inv, MergesAreOver, Elsewhere
<1>8. \A m \in Requests : merge[m].status = "merged" => request'[m].moved = request[m].moved
  BY <1>2, <1>4
<1>9. ASSUME NEW q \in Requests \ {p} PROVE OfItsKind(q)' /\ HoldsWell(q)'
  <2>1. request'[q] = request[q]
    BY <1>2
  <2>2. OfItsKind(q)'
    BY <1>1, <2>1 DEF OfItsKind, Kind, Elsewhere
  <2>3. HoldsWell(q)'
    BY <1>1, <1>8, <2>1, LocksAreOnesOwn DEF HoldsWell, Elsewhere, Exists, Unneeded, At
  <2> QED BY <2>2, <2>3
<1>10. ASSUME NEW q \in Requests \ {p}, NEW s \in Requests \ {p}, q # s PROVE Apart(q, s)'
  <2>1. request'[q] = request[q] /\ request'[s] = request[s] /\ Apart(q, s)
    BY <1>2, <1>10 DEF Inv
  <2> QED BY <2>1 DEF Apart, Converting, HeldForUpdate, HeldKeyShare, At
<1>11. \A l \in Leads : Edited(l) => Edited(l)'
  BY <1>2, <1>4 DEF Edited
<1>12. ConvertedStands'
  <2>1. ASSUME NEW q \in Requests, NEW l \in Leads, request'[q].op = "convert",
               request'[q].answer = "saved", request'[q].lead = l
        PROVE  lead'[l].status = "converted" \/ Edited(l)'
    <3>1. q # p /\ request'[q] = request[q]
      BY <1>2, <2>1
    <3> QED BY <1>11, <2>1, <3>1 DEF Inv, ConvertedStands, Elsewhere
  <2>2. \A q \in Requests : request'[q].op = "convert" /\ request'[q].answer = "saved" =>
                              request'[q].lead \in Leads
    BY <1>1, <1>2 DEF OfItsKind, Kind
  <2> QED BY <2>1, <2>2 DEF ConvertedStands, Edited
<1>13. NoneNeededIsDeleted'
  BY <1>8 DEF Inv, NoneNeededIsDeleted, MergesStayUndoable, ConvertedClientExists, Exists, Elsewhere
<1>14. ConvertedOnce'
  BY <1>2, <1>4 DEF Inv, ConvertedOnce
<1> QED BY <1>3, <1>6, <1>7, <1>9, <1>10, <1>12, <1>13, <1>14 DEF Inv

\* A step after which the request has no lock.
LEMMA FreeTurn ==
    ASSUME NEW p \in Requests, NEW r \in Request, Inv, Becomes(p, r), Elsewhere,
           request[p].step # "done", r.answer # "saved", OfItsKind(p)', Unlocked(r)
    PROVE  Inv'
<1>1. request'[p] = r
  BY OneTurn DEF Inv
<1>2. HoldsWell(p)' /\ \A q \in Requests \ {p} : Apart(p, q)' /\ Apart(q, p)'
  BY <1>1, NothingHeld DEF Apart
<1> QED BY <1>2, RequestTurn

\* What a reply leaves.
LEMMA ReplyRecord ==
    ASSUME NEW p \in Requests, TypeOK,
           NEW a \in Answers, Reply(p, a)
    PROVE  \E r \in Request :
             /\ Becomes(p, r) /\ r.step = "done" /\ r.answer = a
             /\ r.op = request[p].op /\ r.client = request[p].client /\ r.into = request[p].into
             /\ r.record = request[p].record /\ r.lead = request[p].lead /\ r.of = request[p].of
             /\ r.moved = request[p].moved
<1> DEFINE r == [request[p] EXCEPT !.step = "done", !.answer = a]
<1>1. request[p] \in Request
  BY DEF TypeOK
<1>2. r \in Request
  <2>1. "done" \in Steps
    BY DEF Steps
  <2> QED BY <1>1, <2>1 DEF Request
<1>3. /\ r.step = "done" /\ r.answer = a
      /\ r.op = request[p].op /\ r.client = request[p].client /\ r.into = request[p].into
      /\ r.record = request[p].record /\ r.lead = request[p].lead /\ r.of = request[p].of
      /\ r.moved = request[p].moved
  BY <1>1 DEF Request
<1> QED BY <1>2, <1>3 DEF Reply

\* A request that is refused or fails without having written.
LEMMA ReplyTurn ==
    ASSUME NEW p \in Requests, Inv, Running(p), Elsewhere,
           NEW a \in Answers \ {"saved"}, Reply(p, a)
    PROVE  Inv'
<1>1. TypeOK /\ OfItsKind(p)
  BY DEF Inv
<1>2. PICK r \in Request :
             /\ Becomes(p, r) /\ r.step = "done" /\ r.answer = a
             /\ r.op = request[p].op /\ r.client = request[p].client /\ r.into = request[p].into
             /\ r.record = request[p].record /\ r.lead = request[p].lead /\ r.of = request[p].of
             /\ r.moved = request[p].moved
  BY <1>1, ReplyRecord
<1>3. request'[p] = r
  BY <1>1, <1>2, OneTurn
<1>4. OfItsKind(p)'
  BY <1>1, <1>2, <1>3 DEF OfItsKind, Kind, Running, Elsewhere
<1> QED BY <1>2, <1>4, FreeTurn DEF Running, Unlocked

LEMMA RolledBackTurn ==
    ASSUME NEW p \in Requests, Inv, Running(p), Elsewhere, RolledBack(p)
    PROVE  Inv'
<1> DEFINE r == [request[p] EXCEPT !.step = "done", !.answer = "error", !.moved = {}]
<1>1. TypeOK /\ OfItsKind(p) /\ request[p] \in Request
  BY DEF Inv, TypeOK
<1>2. r \in Request /\ Becomes(p, r)
  <2>1. "done" \in Steps /\ "error" \in Answers
    BY DEF Steps, Answers
  <2> QED BY <1>1, <2>1 DEF Request, RolledBack
<1>3. /\ r.step = "done" /\ r.answer = "error"
      /\ r.op = request[p].op /\ r.client = request[p].client /\ r.into = request[p].into
      /\ r.record = request[p].record /\ r.lead = request[p].lead /\ r.of = request[p].of
  BY <1>1 DEF Request
<1> HIDE DEF r
<1>4. request'[p] = r
  BY <1>1, <1>2, OneTurn
<1>5. OfItsKind(p)'
  BY <1>1, <1>3, <1>4 DEF OfItsKind, Kind, Running, Elsewhere
<1> QED BY <1>2, <1>3, <1>5, FreeTurn DEF Running, Unlocked

-----------------------------------------------------------------------------
(* Arrivals. *)

LEMMA ArrivalTurn ==
    ASSUME NEW p \in Requests, NEW q \in Request, Inv, At(p, "none", "idle"), Elsewhere,
           q.step \in {"write", "snapshot", "relink", "lock"}, q.answer = "none", q.moved = {},
           q.op # "none", Kind(q), q.op = "unmerge" => merge[q.of].status # "none",
           Becomes(p, q) \/ Becomes(p, [q EXCEPT !.step = "done", !.answer = "refused"])
    PROVE  Inv'
<1>1. TypeOK /\ request[p].step = "idle"
  BY DEF Inv, At
<1>2. CASE Becomes(p, q)
  <2>1. request'[p] = q
    BY <1>1, <1>2, OneTurn
  <2>2. OfItsKind(p)'
    BY <2>1 DEF OfItsKind, Kind, Elsewhere
  <2> QED BY <1>1, <1>2, <2>2, FreeTurn DEF Unlocked
<1>3. CASE Becomes(p, [q EXCEPT !.step = "done", !.answer = "refused"])
  <2> DEFINE r == [q EXCEPT !.step = "done", !.answer = "refused"]
  <2>1. r \in Request
    <3>1. "done" \in Steps /\ "refused" \in Answers
      BY DEF Steps, Answers
    <3> QED BY <3>1 DEF Request
  <2>2. /\ r.step = "done" /\ r.answer = "refused" /\ r.op = q.op /\ r.client = q.client
        /\ r.into = q.into /\ r.record = q.record /\ r.lead = q.lead /\ r.of = q.of
    BY DEF Request
  <2>3. Becomes(p, r)
    BY <1>3
  <2> HIDE DEF r
  <2>4. request'[p] = r
    BY <1>1, <2>1, <2>3, OneTurn
  <2>5. OfItsKind(p)'
    BY <2>2, <2>4 DEF OfItsKind, Kind, Elsewhere
  <2> QED BY <1>1, <2>1, <2>2, <2>3, <2>5, FreeTurn DEF Unlocked
<1> QED BY <1>2, <1>3

LEMMA LinkRecordTurn ==
    ASSUME NEW p \in Requests, NEW r \in Records, NEW c \in Clients, NEW activeOnly \in BOOLEAN,
           Inv, LinkRecord(p, r, c, activeOnly)
    PROVE  Inv'
<1> DEFINE q == [Idle EXCEPT !.op = "link", !.step = "write", !.record = r, !.client = c]
<1>1. q \in Request
  <2>1. "link" \in Operations /\ "write" \in Steps
    BY DEF Operations, Steps
  <2> QED BY <2>1, IdleRequest DEF Request
<1>2. /\ q.op = "link" /\ q.step = "write" /\ q.record = r /\ q.client = c
      /\ q.answer = "none" /\ q.moved = {}
  BY DEF Idle
<1>3. Kind(q)
  BY <1>2 DEF Kind
<1>4. /\ At(p, "none", "idle") /\ Elsewhere
      /\ Becomes(p, q) \/ Becomes(p, [q EXCEPT !.step = "done", !.answer = "refused"])
  BY DEF LinkRecord, Begin, Elsewhere
<1> HIDE DEF q
<1> QED BY <1>1, <1>2, <1>3, <1>4, ArrivalTurn

LEMMA MergeClientsTurn ==
    ASSUME NEW p \in Requests, NEW into \in Clients, NEW from \in Clients,
           Inv, MergeClients(p, into, from)
    PROVE  Inv'
<1>1. PICK active \in BOOLEAN : active = Active(from)
  BY DEF Active
<1> DEFINE q == [Idle EXCEPT !.op = "merge", !.step = "snapshot", !.client = from, !.into = into,
                             !.wasActive = active]
<1>2. q \in Request
  <2>1. "merge" \in Operations /\ "snapshot" \in Steps
    BY DEF Operations, Steps
  <2> QED BY <2>1, IdleRequest DEF Request
<1>3. /\ q.op = "merge" /\ q.step = "snapshot" /\ q.client = from /\ q.into = into
      /\ q.answer = "none" /\ q.moved = {}
  BY DEF Idle
<1>4. Kind(q)
  BY <1>3 DEF Kind
<1>5. /\ At(p, "none", "idle") /\ Elsewhere
      /\ Becomes(p, q) \/ Becomes(p, [q EXCEPT !.step = "done", !.answer = "refused"])
  BY <1>1 DEF MergeClients, Begin, Elsewhere
<1> HIDE DEF q
<1> QED BY <1>2, <1>3, <1>4, <1>5, ArrivalTurn

LEMMA UnmergeClientsTurn ==
    ASSUME NEW p \in Requests, NEW m \in Requests, Inv, UnmergeClients(p, m)
    PROVE  Inv'
<1> DEFINE q == [Idle EXCEPT !.op = "unmerge", !.step = "relink", !.of = m,
                             !.client = merge[m].from, !.into = merge[m].into]
<1>1. merge[m].from \in Clients /\ merge[m].into \in Clients /\ merge[m].status # "none"
  BY DEF UnmergeClients, Inv, MergesAreOver
<1>2. q \in Request
  <2>1. "unmerge" \in Operations /\ "relink" \in Steps
    BY DEF Operations, Steps
  <2> QED BY <1>1, <2>1, IdleRequest DEF Request
<1>3. /\ q.op = "unmerge" /\ q.step = "relink" /\ q.client \in Clients /\ q.into \in Clients
      /\ q.of = m /\ q.answer = "none" /\ q.moved = {}
  BY <1>1 DEF Idle
<1>4. Kind(q)
  BY <1>3 DEF Kind
<1>5. /\ At(p, "none", "idle") /\ Elsewhere
      /\ Becomes(p, q) \/ Becomes(p, [q EXCEPT !.step = "done", !.answer = "refused"])
  BY DEF UnmergeClients, Begin, Elsewhere
<1> HIDE DEF q
<1> QED BY <1>1, <1>2, <1>3, <1>4, <1>5, ArrivalTurn

LEMMA EditClientTurn ==
    ASSUME NEW p \in Requests, NEW c \in Clients, Inv, EditClient(p, c)
    PROVE  Inv'
<1> DEFINE q == [Idle EXCEPT !.op = "edit", !.step = "write", !.client = c]
<1>1. q \in Request
  <2>1. "edit" \in Operations /\ "write" \in Steps
    BY DEF Operations, Steps
  <2> QED BY <2>1, IdleRequest DEF Request
<1>2. /\ q.op = "edit" /\ q.step = "write" /\ q.client = c /\ q.answer = "none" /\ q.moved = {}
  BY DEF Idle
<1>3. Kind(q)
  BY <1>2 DEF Kind
<1>4. /\ At(p, "none", "idle") /\ Elsewhere
      /\ Becomes(p, q) \/ Becomes(p, [q EXCEPT !.step = "done", !.answer = "refused"])
  BY DEF EditClient, Begin, Elsewhere
<1> HIDE DEF q
<1> QED BY <1>1, <1>2, <1>3, <1>4, ArrivalTurn

LEMMA ArchiveClientTurn ==
    ASSUME NEW p \in Requests, NEW c \in Clients, NEW v \in Revisions \cup {AnyRevision},
           Inv, ArchiveClient(p, c, v)
    PROVE  Inv'
<1> DEFINE q == [Idle EXCEPT !.op = "archive", !.step = "write", !.client = c, !.shown = v]
<1>1. q \in Request
  <2>1. "archive" \in Operations /\ "write" \in Steps
    BY DEF Operations, Steps
  <2> QED BY <2>1, IdleRequest DEF Request
<1>2. /\ q.op = "archive" /\ q.step = "write" /\ q.client = c /\ q.answer = "none" /\ q.moved = {}
  BY DEF Idle
<1>3. Kind(q)
  BY <1>2 DEF Kind
<1>4. /\ At(p, "none", "idle") /\ Elsewhere
      /\ Becomes(p, q) \/ Becomes(p, [q EXCEPT !.step = "done", !.answer = "refused"])
  BY DEF ArchiveClient, Begin, Elsewhere
<1> HIDE DEF q
<1> QED BY <1>1, <1>2, <1>3, <1>4, ArrivalTurn

LEMMA DeleteClientTurn ==
    ASSUME NEW p \in Requests, NEW c \in Clients, NEW v \in Revisions, Inv, DeleteClient(p, c, v)
    PROVE  Inv'
<1> DEFINE q == [Idle EXCEPT !.op = "delete", !.step = "lock", !.client = c, !.shown = v]
<1>1. q \in Request
  <2>1. "delete" \in Operations /\ "lock" \in Steps
    BY DEF Operations, Steps
  <2> QED BY <2>1, IdleRequest DEF Request
<1>2. /\ q.op = "delete" /\ q.step = "lock" /\ q.client = c /\ q.answer = "none" /\ q.moved = {}
  BY DEF Idle
<1>3. Kind(q)
  BY <1>2 DEF Kind
<1>4. /\ At(p, "none", "idle") /\ Elsewhere
      /\ Becomes(p, q) \/ Becomes(p, [q EXCEPT !.step = "done", !.answer = "refused"])
  BY DEF DeleteClient, Begin, Elsewhere
<1> HIDE DEF q
<1> QED BY <1>1, <1>2, <1>3, <1>4, ArrivalTurn

LEMMA ConvertLeadTurn ==
    ASSUME NEW p \in Requests, NEW l \in Leads, Inv, ConvertLead(p, l) \/ UpdateLead(p, l)
    PROVE  Inv'
<1>1. PICK op \in {"convert", "edit_lead"}, step \in {"lock", "write"} :
        LET q == [Idle EXCEPT !.op = op, !.step = step, !.lead = l] IN
        /\ At(p, "none", "idle") /\ Elsewhere
        /\ Becomes(p, q) \/ Becomes(p, [q EXCEPT !.step = "done", !.answer = "refused"])
  BY DEF ConvertLead, UpdateLead, Begin, Elsewhere
<1> DEFINE q == [Idle EXCEPT !.op = op, !.step = step, !.lead = l]
<1>2. q \in Request
  <2>1. op \in Operations /\ step \in Steps
    BY DEF Operations, Steps
  <2> QED BY <2>1, IdleRequest DEF Request
<1>3. /\ q.op = op /\ q.step = step /\ q.lead = l /\ q.answer = "none" /\ q.moved = {}
  BY DEF Idle
<1>4. Kind(q)
  BY <1>3 DEF Kind
<1>5. Becomes(p, q) \/ Becomes(p, [q EXCEPT !.step = "done", !.answer = "refused"])
  BY <1>1
<1> HIDE DEF q
<1> QED BY <1>1, <1>2, <1>3, <1>4, <1>5, ArrivalTurn

-----------------------------------------------------------------------------
(* Looking at rows and locking them. *)

LEMMA MergeSnapshotTurn ==
    ASSUME NEW p \in Requests, Inv, MergeSnapshot(p)
    PROVE  Inv'
<1> DEFINE r == [request[p] EXCEPT !.step = "relink",
                       !.ids = {x \in Records : link[x] = request[p].client}]
<1>1. TypeOK /\ OfItsKind(p) /\ request[p] \in Request /\ At(p, "merge", "snapshot")
  BY DEF Inv, TypeOK, MergeSnapshot
<1>2. r \in Request
  <2>1. "relink" \in Steps
    BY DEF Steps
  <2> QED BY <1>1, <2>1 DEF Request
<1>3. /\ r.step = "relink" /\ r.answer = request[p].answer /\ r.op = request[p].op
      /\ r.client = request[p].client /\ r.into = request[p].into /\ r.of = request[p].of
  BY <1>1 DEF Request
<1>4. Becomes(p, r) /\ Elsewhere
  BY DEF MergeSnapshot, Elsewhere
<1> HIDE DEF r
<1>5. request'[p] = r
  BY <1>1, <1>2, <1>4, OneTurn
<1>6. OfItsKind(p)' /\ r.answer # "saved"
  BY <1>1, <1>3, <1>4, <1>5 DEF OfItsKind, Kind, At, Elsewhere
<1> QED BY <1>1, <1>2, <1>3, <1>4, <1>6, FreeTurn DEF Unlocked, At

\* The records are pointed at a client that is there and that nobody holds.
LEMMA RelinkTurn ==
    ASSUME NEW p \in Requests, NEW ids \in SUBSET Records, NEW from, NEW to, Inv,
           Relink(p, ids, from, to),
           \/ At(p, "merge", "relink") /\ to = request[p].into
           \/ At(p, "unmerge", "relink") /\ to = request[p].client
    PROVE  Inv'
<1> DEFINE rows == {x \in ids : link[x] = from}
           r == [request[p] EXCEPT !.step = "commit", !.moved = rows]
<1>1. TypeOK /\ OfItsKind(p) /\ request[p] \in Request /\ Elsewhere /\ Running(p)
  BY DEF Inv, TypeOK, Relink, Elsewhere, Running, At
<1>2. CASE rows # {} /\ ~Exists(to)
  <2>1. Reply(p, "error") /\ "error" \in Answers \ {"saved"}
    BY <1>2 DEF Relink, Answers
  <2> QED BY <1>1, <2>1, ReplyTurn
<1>3. CASE ~(rows # {} /\ ~Exists(to))
  <2>1. Becomes(p, r) /\ (rows # {} => NotHeld(p, to) /\ Exists(to))
    BY <1>3 DEF Relink
  <2>2. r \in Request
    <3>1. "commit" \in Steps
      BY DEF Steps
    <3> QED BY <1>1, <3>1 DEF Request
  <2>3. /\ r.step = "commit" /\ r.answer = request[p].answer /\ r.op = request[p].op
        /\ r.client = request[p].client /\ r.into = request[p].into /\ r.record = request[p].record
        /\ r.of = request[p].of /\ r.lead = request[p].lead /\ r.moved = rows
    BY <1>1 DEF Request
  <2> HIDE DEF r, rows
  <2>4. request'[p] = r /\ \A q \in Requests \ {p} : request'[q] = request[q]
    BY <1>1, <2>1, <2>2, OneTurn
  <2>5. OfItsKind(p)' /\ r.answer # "saved"
    BY <1>1, <2>3, <2>4 DEF OfItsKind, Kind, At, Elsewhere
  <2>6. /\ ~Converting(p)' /\ \A c \in Clients : /\ ~HeldForUpdate(p, c)'
                                                 /\ HeldKeyShare(p, c)' => c = to /\ rows # {}
    BY <2>3, <2>4 DEF Converting, HeldForUpdate, HeldKeyShare, At
  <2>7. HoldsWell(p)'
    BY <1>1, <2>1, <2>3, <2>4, <2>6 DEF HoldsWell, At, Exists, Elsewhere
  <2>8. ASSUME NEW q \in Requests \ {p} PROVE Apart(p, q)' /\ Apart(q, p)'
    <3>1. \A c \in Clients : HeldForUpdate(q, c)' = HeldForUpdate(q, c)
      BY <2>4 DEF HeldForUpdate, At
    <3>2. \A c \in Clients : HeldForUpdate(q, c)' => ~HeldKeyShare(p, c)'
      BY <2>1, <2>6, <3>1 DEF NotHeld
    <3> QED BY <2>6, <3>2 DEF Apart
  <2> QED BY <1>1, <2>1, <2>2, <2>5, <2>7, <2>8, RequestTurn DEF Running
<1> QED BY <1>2, <1>3

LEMMA MergeRelinkTurn ==
    ASSUME NEW p \in Requests, Inv, MergeRelink(p)
    PROVE  Inv'
<1>1. request[p].ids \in SUBSET Records
  BY DEF Inv, TypeOK, Request
<1> QED BY <1>1, RelinkTurn DEF MergeRelink

LEMMA UnmergeRelinkTurn ==
    ASSUME NEW p \in Requests, Inv, UnmergeRelink(p)
    PROVE  Inv'
<1>1. request[p].of \in Requests
  BY DEF Inv, OfItsKind, Kind, UnmergeRelink, At
<1>2. merge[request[p].of].ids \in SUBSET Records
  BY <1>1 DEF Inv, TypeOK, Merge
<1> QED BY <1>2, RelinkTurn DEF UnmergeRelink

\* A deletion or a conversion goes on, alone with what it has locked.
LEMMA LockTurn ==
    ASSUME NEW p \in Requests, Inv, Elsewhere, NEW c \in Clients \cup {Nobody}, NEW step \in Steps,
           Becomes(p, [request[p] EXCEPT !.step = step, !.client = c]),
           \/ request[p].op = "delete" /\ step \in {"recheck", "remove"} /\ c \in Clients
           \/ request[p].op = "convert" /\ step = "match"
           \/ request[p].op = "convert" /\ step = "save",
           Running(p),
           step = "match" \/ c = Nobody \/ (Exists(c) /\ Lockable(p, c)),
           step = "remove" => Unneeded(c) /\ client[c].revision = request[p].shown,
           step \in {"match", "save"} => /\ LeadFree(p, request[p].lead)
                                         /\ lead[request[p].lead].status # "converted"
    PROVE  Inv'
<1> DEFINE r == [request[p] EXCEPT !.step = step, !.client = c]
<1>1. TypeOK /\ OfItsKind(p)
  BY DEF Inv
<1>2. /\ r \in Request
      /\ r.step = step /\ r.client = c /\ r.op = request[p].op /\ r.into = request[p].into
      /\ r.record = request[p].record /\ r.lead = request[p].lead /\ r.of = request[p].of
      /\ r.shown = request[p].shown /\ r.answer = request[p].answer
  <2>1. request[p] \in Request
    BY <1>1 DEF TypeOK
  <2> QED BY <2>1 DEF Request
<1>3. Becomes(p, r)
  OBVIOUS
<1> HIDE DEF r
<1>4. request'[p] = r /\ \A q \in Requests \ {p} : request'[q] = request[q]
  BY <1>1, <1>2, <1>3, OneTurn
<1>5. OfItsKind(p)' /\ r.answer # "saved"
  BY <1>1, <1>2, <1>4 DEF OfItsKind, Kind, Running, Elsewhere
<1>6. \A d \in Clients : /\ ~HeldKeyShare(p, d)'
                         /\ HeldForUpdate(p, d)' => d = c /\ Exists(c) /\ Lockable(p, c)
  BY <1>2, <1>4, RecordsAssumption DEF HeldForUpdate, HeldKeyShare, At
<1>7. \A m \in Requests : merge[m].status = "merged" => m # p
  BY DEF Inv, MergesAreOver, TypeOK, Merge, Running
<1>8. HoldsWell(p)'
  <2>1. \A d \in Clients : HeldForUpdate(p, d)' \/ HeldKeyShare(p, d)' => Exists(d)'
    BY <1>6 DEF Exists, Elsewhere
  <2>2. At(p, "delete", "remove")' => step = "remove"
    BY <1>2, <1>4 DEF At
  <2>3. step = "remove" => Unneeded(c)'
    BY <1>4, <1>7 DEF Unneeded, Elsewhere
  <2>4. step = "remove" => client'[c].revision = request'[p].shown
    BY <1>2, <1>4 DEF Elsewhere
  <2>5. Converting(p)' => lead'[request'[p].lead].status # "converted"
    BY <1>2, <1>4 DEF Converting, Elsewhere
  <2>6. At(p, "delete", "remove")' => Unneeded(request[p].client)'
    BY <1>2, <1>4, <2>2, <2>3 DEF Unneeded
  <2> QED BY <1>2, <1>4, <2>1, <2>2, <2>4, <2>5, <2>6 DEF HoldsWell
<1>9. ASSUME NEW q \in Requests \ {p} PROVE Apart(p, q)' /\ Apart(q, p)'
  <2>1. /\ Converting(q)' = Converting(q) /\ request'[q].lead = request[q].lead
        /\ \A d \in Clients : /\ HeldForUpdate(q, d)' = HeldForUpdate(q, d)
                              /\ HeldKeyShare(q, d)' = HeldKeyShare(q, d)
    BY <1>4, LocksAreOnesOwn
  <2>2. \A d \in Clients : HeldForUpdate(p, d)' => ~HeldForUpdate(q, d)' /\ ~HeldKeyShare(q, d)'
    BY <1>6, <2>1 DEF Lockable, NotHeld
  <2>3. Converting(p)' /\ Converting(q)' => request'[p].lead # request'[q].lead
    BY <1>2, <1>4, <2>1 DEF Converting, LeadFree
  <2> QED BY <1>6, <2>2, <2>3 DEF Apart
<1> QED BY <1>1, <1>2, <1>3, <1>5, <1>8, <1>9, RequestTurn DEF Running

LEMMA DeleteLockTurn ==
    ASSUME NEW p \in Requests, Inv, DeleteLock(p)
    PROVE  Inv'
<1>1. TypeOK /\ OfItsKind(p) /\ request[p] \in Request /\ At(p, "delete", "lock") /\ Running(p)
  BY DEF Inv, TypeOK, DeleteLock, Running, At
<1>2. request[p].client \in Clients /\ Lockable(p, request[p].client) /\ Elsewhere
  BY <1>1 DEF OfItsKind, Kind, At, DeleteLock, Elsewhere
<1>3. CASE Exists(request[p].client)
  <2>1. Becomes(p, [request[p] EXCEPT !.step = "recheck"])
    BY <1>3 DEF DeleteLock, Goto
  <2>2. Becomes(p, [request[p] EXCEPT !.step = "recheck", !.client = request[p].client])
    BY <1>1, <2>1 DEF Becomes, Request
  <2>3. "recheck" \in Steps
    BY DEF Steps
  <2> QED BY <1>1, <1>2, <1>3, <2>2, <2>3, LockTurn DEF At
<1>4. CASE ~Exists(request[p].client)
  <2>1. Reply(p, "stale") /\ "stale" \in Answers \ {"saved"}
    BY <1>4 DEF DeleteLock, Answers
  <2> QED BY <1>1, <1>2, <2>1, ReplyTurn
<1> QED BY <1>3, <1>4

\* No blocker: nothing depends on the client.
LEMMA NoBlockerUnneeded ==
    ASSUME NEW c \in Clients, Inv, Blockers(c) = {}
    PROVE  Unneeded(c)
BY DEF Blockers, Unneeded

LEMMA DeleteRecheckTurn ==
    ASSUME NEW p \in Requests, Inv, DeleteRecheck(p)
    PROVE  Inv'
<1>1. TypeOK /\ OfItsKind(p) /\ request[p] \in Request /\ At(p, "delete", "recheck") /\ Running(p)
  BY DEF Inv, TypeOK, DeleteRecheck, Running, At
<1> DEFINE c == request[p].client
<1>2. c \in Clients /\ Elsewhere /\ HeldForUpdate(p, c)
  BY <1>1 DEF OfItsKind, Kind, At, DeleteRecheck, Elsewhere, HeldForUpdate
<1>3. Exists(c) /\ Lockable(p, c)
  BY <1>2 DEF Inv, HoldsWell, Apart, Lockable, NotHeld
<1>4. CASE Blockers(c) = {} /\ AsShown(p)
  <2>1. Becomes(p, [request[p] EXCEPT !.step = "remove"])
    BY <1>4 DEF DeleteRecheck, Goto
  <2>2. Becomes(p, [request[p] EXCEPT !.step = "remove", !.client = c])
    BY <1>1, <2>1 DEF Becomes, Request
  <2>3. "remove" \in Steps
    BY DEF Steps
  <2>4. Unneeded(c) /\ client[c].revision = request[p].shown
    BY <1>2, <1>4, NoBlockerUnneeded DEF AsShown
  <2> QED BY <1>1, <1>2, <1>3, <2>2, <2>3, <2>4, LockTurn DEF At
<1>5. CASE ~(Blockers(c) = {} /\ AsShown(p))
  <2>1. PICK a \in {"blocked", "stale"} : Reply(p, a)
    BY <1>5 DEF DeleteRecheck
  <2>2. a \in Answers \ {"saved"}
    BY DEF Answers
  <2> QED BY <1>1, <1>2, <2>1, <2>2, ReplyTurn
<1> QED BY <1>4, <1>5

LEMMA ConvertLockTurn ==
    ASSUME NEW p \in Requests, NEW matched \in Clients \cup {Nobody}, Inv, ConvertLock(p, matched)
    PROVE  Inv'
<1>1. TypeOK /\ OfItsKind(p) /\ request[p] \in Request /\ At(p, "convert", "lock") /\ Running(p)
  BY DEF Inv, TypeOK, ConvertLock, Running, At
<1>2. LeadFree(p, request[p].lead) /\ Elsewhere
  BY DEF ConvertLock, Elsewhere
<1>3. CASE lead[request[p].lead].status = "converted"
  <2>1. Reply(p, "refused") /\ "refused" \in Answers \ {"saved"}
    BY <1>3 DEF ConvertLock, Answers
  <2> QED BY <1>1, <1>2, <2>1, ReplyTurn
<1>4. CASE lead[request[p].lead].status # "converted" /\ matched = Nobody
  <2>1. Becomes(p, [request[p] EXCEPT !.client = matched, !.step = "save"])
    BY <1>4 DEF ConvertLock
  <2>2. Becomes(p, [request[p] EXCEPT !.step = "save", !.client = matched])
    BY <1>1, <2>1 DEF Becomes, Request
  <2>3. "save" \in Steps
    BY DEF Steps
  <2> QED BY <1>1, <1>2, <1>4, <2>2, <2>3, LockTurn DEF At
<1>5. CASE lead[request[p].lead].status # "converted" /\ matched # Nobody
  <2>1. Becomes(p, [request[p] EXCEPT !.client = matched, !.step = "match"])
    BY <1>5 DEF ConvertLock
  <2>2. Becomes(p, [request[p] EXCEPT !.step = "match", !.client = matched])
    BY <1>1, <2>1 DEF Becomes, Request
  <2>3. "match" \in Steps
    BY DEF Steps
  <2> QED BY <1>1, <1>2, <1>5, <2>2, <2>3, LockTurn DEF At
<1> QED BY <1>3, <1>4, <1>5

LEMMA ConvertMatchTurn ==
    ASSUME NEW p \in Requests, NEW stillMatches \in BOOLEAN, Inv, ConvertMatch(p, stillMatches)
    PROVE  Inv'
<1>1. TypeOK /\ OfItsKind(p) /\ request[p] \in Request /\ At(p, "convert", "match") /\ Running(p)
  BY DEF Inv, TypeOK, ConvertMatch, Running, At
<1>2. PICK c \in {request[p].client, Nobody} :
        /\ Becomes(p, [request[p] EXCEPT !.step = "save", !.client = c])
        /\ c = Nobody \/ (Exists(c) /\ Lockable(p, c))
  BY DEF ConvertMatch
<1>3. Elsewhere /\ c \in Clients \cup {Nobody} /\ "save" \in Steps
  BY <1>1 DEF ConvertMatch, Elsewhere, Request, Steps
<1>4. lead[request[p].lead].status # "converted" /\ LeadFree(p, request[p].lead)
  BY <1>1 DEF Inv, HoldsWell, Apart, Converting, LeadFree, At
<1> QED BY <1>1, <1>2, <1>3, <1>4, LockTurn DEF At

LEMMA FailTurn ==
    ASSUME NEW p \in Requests, Inv, Fail(p)
    PROVE  Inv'
BY RolledBackTurn DEF Fail, Elsewhere

-----------------------------------------------------------------------------
(* Steps that save. *)

\* Whoever saves holds nothing any more; the tables it leaves must suit the requests
\* that still hold rows.
LEMMA SavedTurn ==
    ASSUME NEW p \in Requests, Inv, Running(p), Saved(p),
           client' \in [Clients -> [state : States, revision : Nat]],
           \A c \in Clients : client'[c].revision <= client[c].revision + 1,
           link' \in [Records -> Clients \cup {Nobody}],
           lead' \in [Leads -> Lead],
           merge' \in [Requests -> Merge],
           \A m \in Requests :
               /\ merge[m].status # "none" => merge'[m].status # "none"
               /\ merge'[m].status # "none" => /\ m = p \/ merge[m].status # "none"
                                               /\ merge'[m].into \in Clients
                                               /\ merge'[m].from \in Clients,
           \A q \in Requests \ {p} :
               /\ \A c \in Clients : HeldForUpdate(q, c) \/ HeldKeyShare(q, c) => Exists(c)'
               /\ At(q, "delete", "remove") =>
                     \A c \in Clients : c = request[q].client =>
                         Unneeded(c)' /\ client'[c].revision = client[c].revision
               /\ Converting(q) => \A l \in Leads : l = request[q].lead => lead'[l].status # "converted",
           \A l \in Leads : lead[l].status = "converted" =>
               \/ lead'[l].status = "converted"
               \/ request[p].op = "edit_lead" /\ request[p].lead = l,
           request[p].op = "convert" => \A l \in Leads : l = request[p].lead =>
               lead[l].status # "converted" /\ lead'[l].status = "converted",
           NoneNeededIsDeleted'
    PROVE  Inv'
<1>1. TypeOK /\ OfItsKind(p)
  BY DEF Inv
<1>2. PICK r \in Request :
             /\ Becomes(p, r) /\ r.step = "done" /\ r.answer = "saved"
             /\ r.op = request[p].op /\ r.client = request[p].client /\ r.into = request[p].into
             /\ r.record = request[p].record /\ r.lead = request[p].lead /\ r.of = request[p].of
             /\ r.moved = request[p].moved
  <2>1. "saved" \in Answers
    BY DEF Answers
  <2> QED BY <1>1, <2>1, ReplyRecord DEF Saved
<1>3. /\ request' \in [Requests -> Request] /\ request'[p] = r
      /\ \A q \in Requests \ {p} : request'[q] = request[q]
  BY <1>1, <1>2, OneTurn
<1>4. request[p].answer # "saved" /\ merge[p].status = "none"
  BY <1>1 DEF OfItsKind, Kind, Inv, MergesAreOver, TypeOK, Merge, Running
<1>5. /\ Cardinality(Saves)' = Cardinality(Saves) + 1
      /\ Cardinality(Saves)' \in Nat /\ Cardinality(Saves)' <= Cardinality(Requests)
      /\ Cardinality(Saves) \in Nat
  <2>1. Saves' = Saves \cup {p} /\ p \notin Saves
    BY <1>2, <1>3, <1>4 DEF Saves
  <2>2. Saves \subseteq Requests /\ Saves' \subseteq Requests
    BY DEF Saves
  <2>3. IsFiniteSet(Saves) /\ Cardinality(Saves) \in Nat
    BY <2>2, RecordsAssumption, FS_Subset, FS_CardinalityType
  <2>4. Cardinality(Saves \cup {p}) = Cardinality(Saves) + 1
    BY <2>1, <2>3, FS_AddElement
  <2>5. Cardinality(Saves') <= Cardinality(Requests)
    BY <2>2, RecordsAssumption, FS_Subset
  <2> QED BY <2>1, <2>3, <2>4, <2>5
<1>6. Counted'
  <2>1. \A c \in Clients : client[c].revision \in Nat
    BY <1>1, RecordsAssumption, FS_CardinalityType DEF TypeOK, Client, Revisions
  <2> QED BY <1>5, <2>1 DEF Inv, Counted
<1>7. TypeOK'
  <2>1. \A c \in Clients : client'[c].revision \in Revisions
    <3>1. Cardinality(Requests) \in Nat
      BY RecordsAssumption, FS_CardinalityType
    <3> QED BY <1>5, <1>6, <3>1 DEF Counted, Revisions
  <2>2. client' \in [Clients -> Client]
    BY <2>1 DEF Client
  <2> QED BY <1>3, <2>2 DEF TypeOK
<1>8. MergesAreOver'
  BY <1>2, <1>3 DEF Inv, MergesAreOver
<1>9. ASSUME NEW q \in Requests PROVE OfItsKind(q)'
  <2>1. OfItsKind(q)
    BY DEF Inv
  <2>2. Kind(request'[q])
    BY <1>2, <1>3, <2>1 DEF OfItsKind, Kind, Running
  <2>3. request'[q].op = "unmerge" => merge'[request'[q].of].status # "none"
    BY <1>2, <1>3, <2>1 DEF OfItsKind, Kind
  <2> QED BY <2>2, <2>3 DEF OfItsKind
<1>10. /\ HoldsWell(p)' /\ ~Converting(p)'
       /\ \A c \in Clients : ~HeldForUpdate(p, c)' /\ ~HeldKeyShare(p, c)'
  BY <1>2, <1>3, NothingHeld DEF Unlocked
<1>11. ASSUME NEW q \in Requests \ {p} PROVE HoldsWell(q)'
  <2>1. request'[q] = request[q] /\ OfItsKind(q) /\ HoldsWell(q)
    BY <1>3 DEF Inv
  <2>2. \A c \in Clients : HeldForUpdate(q, c)' \/ HeldKeyShare(q, c)' => Exists(c)'
    BY <2>1, LocksAreOnesOwn
  <2>3. ASSUME At(q, "delete", "remove")'
        PROVE  Unneeded(request[q].client)' /\ client'[request'[q].client].revision = request'[q].shown
    <3>1. At(q, "delete", "remove") /\ request[q].client \in Clients
      BY <2>1, <2>3 DEF At, OfItsKind, Kind
    <3>2. PICK c \in Clients : c = request[q].client
      BY <3>1
    <3>3. Unneeded(c)' /\ client'[c].revision = client[c].revision
      BY <3>1, <3>2
    <3>4. request'[q].client = c
      BY <2>1, <3>2
    <3>5. Unneeded(request[q].client)'
      BY <3>3, <3>4 DEF Unneeded
    <3> QED BY <2>1, <3>1, <3>2, <3>3, <3>5 DEF HoldsWell
  <2>4. Converting(q)' => lead'[request'[q].lead].status # "converted"
    BY <2>1 DEF Converting, OfItsKind, Kind
  <2> QED BY <2>2, <2>3, <2>4 DEF HoldsWell
<1>12. ASSUME NEW q \in Requests, NEW s \in Requests, q # s PROVE Apart(q, s)'
  <2>1. CASE q # p /\ s # p
    <3>1. request'[q] = request[q] /\ request'[s] = request[s] /\ Apart(q, s)
      BY <1>3, <1>12, <2>1 DEF Inv
    <3> QED BY <3>1 DEF Apart, Converting, HeldForUpdate, HeldKeyShare, At
  <2>2. CASE q = p \/ s = p
    BY <1>10, <2>2 DEF Apart
  <2> QED BY <2>1, <2>2
<1>13. \A l \in Leads : Edited(l) => Edited(l)'
  BY <1>3, <1>4 DEF Edited
<1>14. ConvertedStands'
  <2>1. ASSUME NEW q \in Requests, NEW l \in Leads, request'[q].op = "convert",
               request'[q].answer = "saved", request'[q].lead = l
        PROVE  lead'[l].status = "converted" \/ Edited(l)'
    <3>1. CASE q = p
      BY <1>2, <1>3, <2>1, <3>1
    <3>2. CASE q # p
      <4>1. lead[l].status = "converted" \/ Edited(l)
        BY <1>3, <2>1, <3>2 DEF Inv, ConvertedStands
      <4>2. request[p].op = "edit_lead" /\ request[p].lead = l => Edited(l)'
        BY <1>2, <1>3 DEF Edited
      <4> QED BY <1>13, <4>1, <4>2
    <3> QED BY <3>1, <3>2
  <2>2. \A q \in Requests : request'[q].op = "convert" => request'[q].lead \in Leads
    BY <1>9 DEF OfItsKind, Kind
  <2> QED BY <2>1, <2>2 DEF ConvertedStands, Edited
<1>15. ConvertedOnce'
  <2>1. ASSUME NEW q \in Requests, NEW s \in Requests, q # s, request'[q].lead = request'[s].lead,
               request'[q].op = "convert", request'[q].answer = "saved",
               request'[s].op = "convert", request'[s].answer = "saved", NEW l \in Leads,
               l = request'[q].lead
        PROVE  Edited(l)'
    <3>1. CASE q # p /\ s # p
      <4>1. Edited(l)
        BY <1>3, <2>1, <3>1 DEF Inv, ConvertedOnce, Edited
      <4> QED BY <1>13, <4>1
    <3>2. CASE q = p
      <4>1. lead[l].status # "converted"
        BY <1>2, <1>3, <2>1, <3>2
      <4>2. lead[l].status = "converted" \/ Edited(l)
        BY <1>3, <2>1, <3>2 DEF Inv, ConvertedStands
      <4> QED BY <1>13, <4>1, <4>2
    <3>3. CASE s = p
      <4>1. lead[l].status # "converted"
        BY <1>2, <1>3, <2>1, <3>3
      <4>2. lead[l].status = "converted" \/ Edited(l)
        BY <1>3, <2>1, <3>3 DEF Inv, ConvertedStands
      <4> QED BY <1>13, <4>1, <4>2
    <3> QED BY <3>1, <3>2, <3>3
  <2>2. \A q \in Requests : request'[q].op = "convert" => request'[q].lead \in Leads
    BY <1>9 DEF OfItsKind, Kind
  <2> QED BY <2>1, <2>2 DEF ConvertedOnce, Edited
<1> QED BY <1>6, <1>7, <1>8, <1>9, <1>10, <1>11, <1>12, <1>14, <1>15 DEF Inv

\* The facts every writer starts from.
LEMMA AtWork ==
    ASSUME NEW p \in Requests, Inv, Running(p)
    PROVE  /\ TypeOK /\ OfItsKind(p) /\ HoldsWell(p) /\ request[p] \in Request
           /\ client \in [Clients -> [state : States, revision : Nat]]
           /\ merge[p].status = "none"
           /\ \A m \in Requests : merge[m].status # "none" =>
                                     merge[m].into \in Clients /\ merge[m].from \in Clients
<1>1. TypeOK /\ OfItsKind(p) /\ HoldsWell(p) /\ request[p] \in Request
  BY DEF Inv, TypeOK
<1>2. client \in [Clients -> [state : States, revision : Nat]]
  <2>1. Revisions \subseteq Nat
    BY RecordsAssumption, FS_CardinalityType DEF Revisions
  <2> QED BY <1>1, <2>1 DEF TypeOK, Client
<1>3. merge[p].status = "none"
  BY <1>1 DEF Inv, MergesAreOver, TypeOK, Merge, Running
<1> QED BY <1>1, <1>2, <1>3 DEF Inv, MergesAreOver

\* What the record of a request keeps when it saves.
LEMMA SavedKeeps ==
    ASSUME NEW p \in Requests, TypeOK, Saved(p)
    PROVE  /\ \A q \in Requests : request'[q].moved = request[q].moved
           /\ \A q \in Requests \ {p} : request'[q] = request[q]
BY DEF Saved, Reply, Becomes, TypeOK, Request

\* An update of a client's row.
LEMMA UpdatedRow ==
    ASSUME NEW c \in Clients, NEW state \in States,
           client \in [Clients -> [state : States, revision : Nat]], client' = Updated(c, state)
    PROVE  /\ client' \in [Clients -> [state : States, revision : Nat]]
           /\ client'[c].state = state /\ client'[c].revision = client[c].revision + 1
           /\ \A d \in Clients \ {c} : client'[d] = client[d]
BY DEF Updated

LEMMA LinkWriteTurn ==
    ASSUME NEW p \in Requests, Inv, LinkWrite(p)
    PROVE  Inv'
<1>1. Running(p)
  BY DEF LinkWrite, Running, At
<1>2. /\ TypeOK /\ OfItsKind(p) /\ client \in [Clients -> [state : States, revision : Nat]]
      /\ \A m \in Requests : merge[m].status # "none" =>
                                merge[m].into \in Clients /\ merge[m].from \in Clients
  BY <1>1, AtWork
<1>3. At(p, "link", "write") /\ UNCHANGED <<client, lead, merge>>
  BY DEF LinkWrite
<1>4. PICK c \in Clients, x \in Records : c = request[p].client /\ x = request[p].record
  BY <1>2, <1>3 DEF OfItsKind, Kind, At
<1>5. CASE ~Exists(c)
  <2>1. Reply(p, "error") /\ Elsewhere /\ "error" \in Answers \ {"saved"}
    BY <1>3, <1>4, <1>5 DEF LinkWrite, Elsewhere, Answers
  <2> QED BY <1>1, <2>1, ReplyTurn
<1>6. CASE Exists(c)
  <2>1. Saved(p) /\ link' = [link EXCEPT ![x] = c] /\ NotHeld(p, c)
    BY <1>4, <1>6 DEF LinkWrite
  <2>2. \A q \in Requests : request'[q].moved = request[q].moved
    BY <1>2, <2>1, SavedKeeps
  <2>3. link' \in [Records -> Clients \cup {Nobody}]
    BY <1>2, <2>1 DEF TypeOK
  <2>4. ASSUME NEW q \in Requests \ {p}
        PROVE  /\ \A d \in Clients : HeldForUpdate(q, d) \/ HeldKeyShare(q, d) => Exists(d)'
               /\ At(q, "delete", "remove") =>
                     \A d \in Clients : d = request[q].client =>
                         Unneeded(d)' /\ client'[d].revision = client[d].revision
               /\ Converting(q) => \A l \in Leads : l = request[q].lead => lead'[l].status # "converted"
    <3>1. HoldsWell(q)
      BY DEF Inv
    <3>2. ASSUME At(q, "delete", "remove"), NEW d \in Clients, d = request[q].client PROVE Unneeded(d)'
      <4>1. HeldForUpdate(q, d) /\ d # c
        BY <2>1, <3>2 DEF HeldForUpdate, NotHeld
      <4>2. Unneeded(d)
        BY <3>1, <3>2 DEF HoldsWell
      <4>3. \A r \in Records : link'[r] # d
        BY <1>2, <2>1, <4>1, <4>2 DEF Unneeded, TypeOK
      <4> QED BY <1>3, <2>2, <4>2, <4>3 DEF Unneeded
    <3> QED BY <1>3, <3>1, <3>2 DEF HoldsWell, Exists
  <2>5. NoneNeededIsDeleted'
    BY <1>3, <2>2 DEF Inv, NoneNeededIsDeleted, MergesStayUndoable, ConvertedClientExists, Exists
  <2> QED BY <1>1, <1>2, <1>3, <2>1, <2>3, <2>4, <2>5, SavedTurn DEF TypeOK, At
<1> QED BY <1>5, <1>6

\* A row is updated that nobody else holds and that stays.
LEMMA UpdateTurn ==
    ASSUME NEW p \in Requests, Inv, Running(p), NEW c \in Clients, NEW state \in {"active", "archived"},
           Exists(c), NotHeld(p, c), client' = Updated(c, state), Saved(p),
           request[p].op # "convert", UNCHANGED <<link, lead, merge>>
    PROVE  Inv'
<1>1. /\ TypeOK /\ OfItsKind(p) /\ client \in [Clients -> [state : States, revision : Nat]]
      /\ \A m \in Requests : merge[m].status # "none" =>
                                merge[m].into \in Clients /\ merge[m].from \in Clients
  BY AtWork
<1>2. /\ client' \in [Clients -> [state : States, revision : Nat]]
      /\ client'[c].state = state /\ client'[c].revision = client[c].revision + 1
      /\ \A d \in Clients \ {c} : client'[d] = client[d]
  BY <1>1, UpdatedRow DEF States
<1>3. \A q \in Requests : request'[q].moved = request[q].moved
  BY <1>1, SavedKeeps
<1>4. \A d : Exists(d) => d \notin Clients \/ Exists(d)'
  BY <1>2 DEF Exists
<1>5. \A d \in Clients : client'[d].revision <= client[d].revision + 1
  BY <1>1, <1>2
<1>6. ASSUME NEW q \in Requests \ {p}
      PROVE  /\ \A d \in Clients : HeldForUpdate(q, d) \/ HeldKeyShare(q, d) => Exists(d)'
             /\ At(q, "delete", "remove") =>
                   \A d \in Clients : d = request[q].client =>
                       Unneeded(d)' /\ client'[d].revision = client[d].revision
             /\ Converting(q) => \A l \in Leads : l = request[q].lead => lead'[l].status # "converted"
  <2>1. HoldsWell(q)
    BY DEF Inv
  <2>2. ASSUME At(q, "delete", "remove"), NEW d \in Clients, d = request[q].client
        PROVE  Unneeded(d)' /\ client'[d].revision = client[d].revision
    <3>1. HeldForUpdate(q, d) /\ d # c
      BY <2>2 DEF HeldForUpdate, NotHeld
    <3>2. Unneeded(d)
      BY <2>1, <2>2 DEF HoldsWell
    <3> QED BY <1>2, <1>3, <3>1, <3>2 DEF Unneeded
  <2> QED BY <1>4, <2>1, <2>2 DEF HoldsWell
<1>7. NoneNeededIsDeleted'
  <2>1. \A l \in Leads : lead[l].client \in Clients \cup {Nobody}
    BY <1>1 DEF TypeOK, Lead
  <2> QED BY <1>1, <1>3, <1>4, <2>1 DEF Inv, NoneNeededIsDeleted, MergesStayUndoable, ConvertedClientExists
<1> QED BY <1>1, <1>2, <1>5, <1>6, <1>7, SavedTurn DEF TypeOK

LEMMA EditWriteTurn ==
    ASSUME NEW p \in Requests, Inv, EditWrite(p)
    PROVE  Inv'
<1>1. Running(p) /\ At(p, "edit", "write") /\ UNCHANGED <<link, lead, merge>>
  BY DEF EditWrite, Running, At
<1>2. request[p].client \in Clients
  BY <1>1, AtWork DEF OfItsKind, Kind, At
<1>3. CASE ~Exists(request[p].client)
  <2>1. Reply(p, "error") /\ Elsewhere /\ "error" \in Answers \ {"saved"}
    BY <1>1, <1>3 DEF EditWrite, Elsewhere, Answers
  <2> QED BY <1>1, <2>1, ReplyTurn
<1>4. CASE Exists(request[p].client)
  <2>1. /\ NotHeld(p, request[p].client) /\ Saved(p)
        /\ client' = Updated(request[p].client, client[request[p].client].state)
    BY <1>4 DEF EditWrite
  <2>2. client[request[p].client].state \in {"active", "archived"}
    BY <1>4 DEF Exists
  <2> QED BY <1>1, <1>2, <1>4, <2>1, <2>2, UpdateTurn DEF At
<1> QED BY <1>3, <1>4

LEMMA ArchiveWriteTurn ==
    ASSUME NEW p \in Requests, Inv, ArchiveWrite(p)
    PROVE  Inv'
<1>1. Running(p) /\ At(p, "archive", "write") /\ UNCHANGED <<link, lead, merge>>
  BY DEF ArchiveWrite, Running, At
<1>2. request[p].client \in Clients
  BY <1>1, AtWork DEF OfItsKind, Kind, At
<1>3. CASE UNCHANGED client /\ Reply(p, "changed")
  <2>1. Elsewhere /\ "changed" \in Answers \ {"saved"}
    BY <1>1, <1>3 DEF Elsewhere, Answers
  <2> QED BY <1>1, <1>3, <2>1, ReplyTurn
<1>4. CASE /\ Active(request[p].client) /\ Saved(p)
           /\ client' = Updated(request[p].client, "archived")
  <2>1. Exists(request[p].client) /\ NotHeld(p, request[p].client)
    BY <1>4 DEF Exists, Active, ArchiveWrite, Lockable
  <2> QED BY <1>1, <1>2, <1>4, <2>1, UpdateTurn DEF At
<1> QED BY <1>3, <1>4 DEF ArchiveWrite

\* A merge or its undoing commits: records are pointed at "to", "row" is updated.
LEMMA CommitTurn ==
    ASSUME NEW p \in Requests, Inv, Running(p), request[p].step = "commit",
           NEW to \in Clients, NEW row \in Clients, NEW state \in {"active", "archived"},
           HeldKeyShare(p, to) \/ request[p].moved = {},
           Exists(row), NotHeld(p, row), Saved(p), request[p].op \notin {"convert", "edit_lead"},
           client' = Updated(row, state), link' = Moved(p, to), UNCHANGED lead,
           merge' \in [Requests -> Merge],
           \A m \in Requests : merge[m].status # "none" => merge'[m].status # "none",
           \A m \in Requests : merge'[m].status # "none" =>
               /\ m = p \/ merge[m].status # "none"
               /\ merge'[m].into \in Clients /\ merge'[m].from \in Clients,
           \A m \in Requests : merge'[m].status = "merged" =>
               \/ merge'[m] = merge[m]
               \/ m = p /\ merge'[m].into = to /\ merge'[m].from = row
    PROVE  Inv'
<1>1. /\ TypeOK /\ OfItsKind(p) /\ HoldsWell(p)
      /\ client \in [Clients -> [state : States, revision : Nat]]
      /\ merge[p].status = "none"
      /\ \A m \in Requests : merge[m].status # "none" =>
                                merge[m].into \in Clients /\ merge[m].from \in Clients
  BY AtWork
<1>2. /\ client' \in [Clients -> [state : States, revision : Nat]]
      /\ client'[row].state = state /\ client'[row].revision = client[row].revision + 1
      /\ \A d \in Clients \ {row} : client'[d] = client[d]
  BY <1>1, UpdatedRow DEF States
<1>3. \A q \in Requests : request'[q].moved = request[q].moved
  BY <1>1, SavedKeeps
<1>4. \A d \in Clients : Exists(d) => Exists(d)'
  BY <1>2 DEF Exists
<1>5. \A d \in Clients : client'[d].revision <= client[d].revision + 1
  BY <1>1, <1>2
<1>6. link' \in [Records -> Clients \cup {Nobody}]
  BY <1>1 DEF Moved, TypeOK
<1>7. \A x \in Records : \/ link'[x] = link[x]
                         \/ link'[x] = to /\ request[p].moved # {}
  BY DEF Moved
<1>8. request[p].moved # {} => HeldKeyShare(p, to) /\ Exists(to)
  BY <1>1 DEF HoldsWell
<1>9. ASSUME NEW q \in Requests \ {p}
      PROVE  /\ \A d \in Clients : HeldForUpdate(q, d) \/ HeldKeyShare(q, d) => Exists(d)'
             /\ At(q, "delete", "remove") =>
                   \A d \in Clients : d = request[q].client =>
                       Unneeded(d)' /\ client'[d].revision = client[d].revision
             /\ Converting(q) => \A l \in Leads : l = request[q].lead => lead'[l].status # "converted"
  <2>1. HoldsWell(q)
    BY DEF Inv
  <2>2. ASSUME At(q, "delete", "remove"), NEW d \in Clients, d = request[q].client
        PROVE  Unneeded(d)' /\ client'[d].revision = client[d].revision
    <3>1. HeldForUpdate(q, d) /\ d # row
      BY <2>2 DEF HeldForUpdate, NotHeld
    <3>2. request[p].moved # {} => d # to
      BY <1>8, <3>1 DEF Inv, Apart
    <3>3. Unneeded(d)
      BY <2>1, <2>2 DEF HoldsWell
    <3>4. \A x \in Records : link'[x] # d
      BY <1>7, <3>2, <3>3 DEF Unneeded
    <3>5. \A m \in Requests : merge'[m].status = "merged" /\ request'[m].moved # {} =>
                                  d # merge'[m].into /\ d # merge'[m].from
      BY <1>3, <3>1, <3>2, <3>3 DEF Unneeded
    <3> QED BY <1>2, <3>1, <3>3, <3>4, <3>5 DEF Unneeded
  <2> QED BY <1>4, <2>1, <2>2 DEF HoldsWell
<1>10. NoneNeededIsDeleted'
  <2>1. \A l \in Leads : lead[l].client \in Clients \cup {Nobody}
    BY <1>1 DEF TypeOK, Lead
  <2>2. ConvertedClientExists'
    BY <1>4, <2>1 DEF Inv, NoneNeededIsDeleted, ConvertedClientExists
  <2>3. ASSUME NEW m \in Requests, merge'[m].status = "merged", request'[m].moved # {}
        PROVE  /\ client'[merge'[m].into].state \in {"active", "archived"}
               /\ client'[merge'[m].from].state \in {"active", "archived"}
    <3>1. CASE merge'[m] = merge[m]
      <4>1. /\ Exists(merge[m].into) /\ Exists(merge[m].from)
            /\ merge[m].into \in Clients /\ merge[m].from \in Clients
        BY <1>1, <1>3, <2>3, <3>1 DEF Inv, NoneNeededIsDeleted, MergesStayUndoable
      <4> QED BY <1>4, <3>1, <4>1 DEF Exists
    <3>2. CASE m = p /\ merge'[m].into = to /\ merge'[m].from = row
      BY <1>3, <1>4, <1>8, <2>3, <3>2 DEF Exists
    <3> QED BY <2>3, <3>1, <3>2
  <2>4. MergesStayUndoable'
    BY <2>3 DEF MergesStayUndoable, Exists
  <2> QED BY <2>2, <2>4 DEF NoneNeededIsDeleted
<1> QED BY <1>1, <1>2, <1>5, <1>6, <1>9, <1>10, SavedTurn DEF TypeOK

LEMMA MergeCommitTurn ==
    ASSUME NEW p \in Requests, Inv, MergeCommit(p)
    PROVE  Inv'
<1>1. Running(p) /\ At(p, "merge", "commit") /\ UNCHANGED lead /\ NotHeld(p, request[p].client)
  BY DEF MergeCommit, Running, At
<1>2. /\ request[p].client \in Clients /\ request[p].into \in Clients
      /\ TypeOK /\ request[p] \in Request /\ merge[p].status = "none"
      /\ \A m \in Requests : merge[m].status # "none" =>
                                merge[m].into \in Clients /\ merge[m].from \in Clients
  BY <1>1, AtWork DEF OfItsKind, Kind, At
<1>3. CASE ~Exists(request[p].client)
  <2>1. RolledBack(p) /\ Elsewhere
    BY <1>1, <1>3 DEF MergeCommit, Elsewhere
  <2> QED BY <1>1, <2>1, RolledBackTurn
<1>4. CASE Exists(request[p].client)
  <2> DEFINE mine == [status |-> "merged", into |-> request[p].into, from |-> request[p].client,
                      ids |-> request[p].ids, wasActive |-> request[p].wasActive]
  <2>1. /\ client' = Updated(request[p].client, "archived") /\ link' = Moved(p, request[p].into)
        /\ merge' = [merge EXCEPT ![p] = mine] /\ Saved(p)
    BY <1>4 DEF MergeCommit
  <2>2. mine \in Merge
    BY <1>2 DEF Merge, Request
  <2>3. mine.status = "merged" /\ mine.into = request[p].into /\ mine.from = request[p].client
    OBVIOUS
  <2> HIDE DEF mine
  <2>4. /\ merge' \in [Requests -> Merge] /\ merge'[p] = mine
        /\ \A m \in Requests \ {p} : merge'[m] = merge[m]
    BY <1>2, <2>1, <2>2 DEF TypeOK
  <2>5. HeldKeyShare(p, request[p].into) \/ request[p].moved = {}
    BY <1>1 DEF HeldKeyShare
  <2> QED BY <1>1, <1>2, <1>4, <2>1, <2>3, <2>4, <2>5, CommitTurn DEF At
<1> QED BY <1>3, <1>4

LEMMA UnmergeCommitTurn ==
    ASSUME NEW p \in Requests, Inv, UnmergeCommit(p)
    PROVE  Inv'
<1>1. Running(p) /\ At(p, "unmerge", "commit") /\ UNCHANGED lead /\ NotHeld(p, request[p].client)
  BY DEF UnmergeCommit, Running, At
<1>2. /\ request[p].client \in Clients /\ request[p].of \in Requests
      /\ merge[request[p].of].status # "none" /\ TypeOK /\ merge[p].status = "none"
      /\ \A m \in Requests : merge[m].status # "none" =>
                                merge[m].into \in Clients /\ merge[m].from \in Clients
  BY <1>1, AtWork DEF OfItsKind, Kind, At
<1>3. CASE ~Exists(request[p].client)
  <2>1. RolledBack(p) /\ Elsewhere
    BY <1>1, <1>3 DEF UnmergeCommit, Elsewhere
  <2> QED BY <1>1, <2>1, RolledBackTurn
<1>4. CASE Exists(request[p].client)
  <2>1. PICK m \in Requests, state \in {"active", "archived"} :
          m = request[p].of /\ state = Reactivated(m)
    BY <1>2 DEF Reactivated
  <2>2. /\ client' = Updated(request[p].client, state) /\ link' = Moved(p, request[p].client)
        /\ merge' = [merge EXCEPT ![m].status = "unmerged"] /\ Saved(p)
    BY <1>4, <2>1 DEF UnmergeCommit
  <2>3. /\ merge' \in [Requests -> Merge]
        /\ merge'[m].status = "unmerged" /\ merge'[m].into = merge[m].into
        /\ merge'[m].from = merge[m].from
        /\ \A n \in Requests \ {m} : merge'[n] = merge[n]
    BY <1>2, <2>2 DEF TypeOK, Merge
  <2>4. HeldKeyShare(p, request[p].client) \/ request[p].moved = {}
    BY <1>1 DEF HeldKeyShare
  <2> QED BY <1>1, <1>2, <1>4, <2>1, <2>2, <2>3, <2>4, CommitTurn DEF At
<1> QED BY <1>3, <1>4

\* Only the client that nothing depends on goes.
LEMMA DeleteRemoveTurn ==
    ASSUME NEW p \in Requests, Inv, DeleteRemove(p)
    PROVE  Inv' /\ \A x \in Records : link[x] # Nobody => link'[x] # Nobody
<1>1. Running(p) /\ At(p, "delete", "remove") /\ UNCHANGED <<lead, merge>> /\ Saved(p)
  BY DEF DeleteRemove, Running, At
<1>2. /\ TypeOK /\ OfItsKind(p) /\ HoldsWell(p)
      /\ client \in [Clients -> [state : States, revision : Nat]]
      /\ \A m \in Requests : merge[m].status # "none" =>
                                merge[m].into \in Clients /\ merge[m].from \in Clients
  BY <1>1, AtWork
<1>3. PICK c \in Clients : c = request[p].client
  BY <1>1, <1>2 DEF OfItsKind, Kind, At
<1>4. Unneeded(c) /\ HeldForUpdate(p, c)
  BY <1>1, <1>2, <1>3 DEF HoldsWell, HeldForUpdate
<1>5. /\ client' \in [Clients -> [state : States, revision : Nat]]
      /\ \A d \in Clients \ {c} : client'[d] = client[d]
      /\ client'[c].revision = client[c].revision
  <2>1. client' = [client EXCEPT ![c].state = "deleted"]
    BY <1>3 DEF DeleteRemove
  <2>2. "deleted" \in States
    BY DEF States
  <2> QED BY <1>2, <2>1, <2>2
<1>6. \A x \in Records : link'[x] = link[x]
  BY <1>3, <1>4 DEF DeleteRemove, Unneeded
<1>7. link' \in [Records -> Clients \cup {Nobody}]
  <2>1. link' = [x \in Records |-> link'[x]]
    BY <1>3 DEF DeleteRemove
  <2> QED BY <1>2, <1>6, <2>1 DEF TypeOK
<1>8. \A q \in Requests : request'[q].moved = request[q].moved
  BY <1>1, <1>2, SavedKeeps
<1>9. \A d \in Clients : client'[d].revision <= client[d].revision + 1
  BY <1>2, <1>5
<1>10. ASSUME NEW q \in Requests \ {p}
      PROVE  /\ \A d \in Clients : HeldForUpdate(q, d) \/ HeldKeyShare(q, d) => Exists(d)'
             /\ At(q, "delete", "remove") =>
                   \A d \in Clients : d = request[q].client =>
                       Unneeded(d)' /\ client'[d].revision = client[d].revision
             /\ Converting(q) => \A l \in Leads : l = request[q].lead => lead'[l].status # "converted"
  <2>1. HoldsWell(q) /\ ~HeldForUpdate(q, c) /\ ~HeldKeyShare(q, c)
    BY <1>4 DEF Inv, Apart
  <2>2. \A d \in Clients : HeldForUpdate(q, d) \/ HeldKeyShare(q, d) => Exists(d)'
    BY <1>5, <2>1 DEF HoldsWell, Exists
  <2>3. ASSUME At(q, "delete", "remove"), NEW d \in Clients, d = request[q].client
        PROVE  Unneeded(d)' /\ client'[d].revision = client[d].revision
    <3>1. d # c /\ Unneeded(d)
      BY <2>1, <2>3 DEF HeldForUpdate, HoldsWell
    <3> QED BY <1>1, <1>5, <1>6, <1>8, <3>1 DEF Unneeded
  <2> QED BY <1>1, <2>1, <2>2, <2>3 DEF HoldsWell
<1>11. NoneNeededIsDeleted'
  <2>1. \A l \in Leads : lead[l].client \in Clients \cup {Nobody} /\ lead[l].client # c
    BY <1>2, <1>4 DEF TypeOK, Lead, Unneeded
  <2>2. ConvertedClientExists'
    BY <1>1, <1>5, <2>1 DEF Inv, NoneNeededIsDeleted, ConvertedClientExists, Exists
  <2>3. MergesStayUndoable'
    BY <1>1, <1>2, <1>4, <1>5, <1>8
       DEF Inv, NoneNeededIsDeleted, MergesStayUndoable, Exists, Unneeded
  <2> QED BY <2>2, <2>3 DEF NoneNeededIsDeleted
<1>12. Inv'
  BY <1>1, <1>2, <1>5, <1>7, <1>9, <1>10, <1>11, SavedTurn DEF TypeOK, At
<1> QED BY <1>6, <1>12

\* The lead is converted to a client that is held, or to one that was not there.
LEMMA ConvertSaveTurn ==
    ASSUME NEW p \in Requests, Inv, ConvertSave(p)
    PROVE  Inv'
<1>1. /\ Running(p) /\ At(p, "convert", "save") /\ UNCHANGED <<link, merge>> /\ Saved(p)
      /\ Converting(p)
  BY DEF ConvertSave, Running, At, Converting
<1>2. /\ TypeOK /\ OfItsKind(p) /\ HoldsWell(p) /\ request[p] \in Request
      /\ client \in [Clients -> [state : States, revision : Nat]]
      /\ \A m \in Requests : merge[m].status # "none" =>
                                merge[m].into \in Clients /\ merge[m].from \in Clients
  BY <1>1, AtWork
<1>3. PICK l \in Leads : l = request[p].lead
  BY <1>1, <1>2 DEF OfItsKind, Kind, At
<1>4. PICK c \in Clients :
        /\ Converted(l, c)
        /\ \/ c = request[p].client /\ UNCHANGED client
           \/ client[c].state = "unborn" /\ client' = [client EXCEPT ![c].state = "active"]
  BY <1>2, <1>3 DEF ConvertSave, Request
<1>5. /\ client' \in [Clients -> [state : States, revision : Nat]]
      /\ \A d \in Clients : /\ client'[d].revision = client[d].revision
                            /\ Exists(d) => Exists(d)'
      /\ Exists(c)'
      /\ HeldForUpdate(p, c) \/ client[c].state = "unborn"
  <2>1. CASE c = request[p].client /\ UNCHANGED client
    <3>1. HeldForUpdate(p, c) /\ Exists(c)
      BY <1>1, <1>2, <2>1 DEF HeldForUpdate, HoldsWell
    <3> QED BY <1>2, <2>1, <3>1 DEF Exists
  <2>2. CASE client[c].state = "unborn" /\ client' = [client EXCEPT ![c].state = "active"]
    <3>1. "active" \in States
      BY DEF States
    <3>2. client' \in [Clients -> [state : States, revision : Nat]]
      BY <1>2, <2>2, <3>1
    <3>3. /\ client'[c].state = "active" /\ client'[c].revision = client[c].revision
          /\ \A d \in Clients \ {c} : client'[d] = client[d]
      BY <1>2, <2>2
    <3> QED BY <2>2, <3>2, <3>3 DEF Exists
  <2> QED BY <1>4, <2>1, <2>2
<1>6. /\ lead' \in [Leads -> Lead] /\ lead'[l].status = "converted" /\ lead'[l].client = c
      /\ \A x \in Leads \ {l} : lead'[x] = lead[x]
  <2> DEFINE row == [status |-> "converted", client |-> c]
  <2>1. row \in Lead /\ row.status = "converted" /\ row.client = c
    BY DEF Lead
  <2>2. lead' = [lead EXCEPT ![l] = row]
    BY <1>4 DEF Converted
  <2> HIDE DEF row
  <2> QED BY <1>2, <2>1, <2>2 DEF TypeOK
<1>7. lead[l].status # "converted"
  BY <1>1, <1>2, <1>3 DEF HoldsWell
<1>8. \A q \in Requests : request'[q].moved = request[q].moved
  BY <1>1, <1>2, SavedKeeps
<1>9. \A d \in Clients : client'[d].revision <= client[d].revision + 1
  BY <1>2, <1>5
<1>10. ASSUME NEW q \in Requests \ {p}
      PROVE  /\ \A d \in Clients : HeldForUpdate(q, d) \/ HeldKeyShare(q, d) => Exists(d)'
             /\ At(q, "delete", "remove") =>
                   \A d \in Clients : d = request[q].client =>
                       Unneeded(d)' /\ client'[d].revision = client[d].revision
             /\ Converting(q) => \A x \in Leads : x = request[q].lead => lead'[x].status # "converted"
  <2>1. HoldsWell(q)
    BY DEF Inv
  <2>2. ASSUME At(q, "delete", "remove"), NEW d \in Clients, d = request[q].client
        PROVE  Unneeded(d)' /\ client'[d].revision = client[d].revision
    <3>1. HeldForUpdate(q, d) /\ Exists(d) /\ Unneeded(d)
      BY <2>1, <2>2 DEF HeldForUpdate, HoldsWell
    <3>2. d # c
      BY <1>5, <3>1 DEF Inv, Apart, Exists
    <3> QED BY <1>1, <1>5, <1>6, <1>8, <3>1, <3>2 DEF Unneeded
  <2>3. Converting(q) => request[q].lead # l
    BY <1>1, <1>3 DEF Inv, Apart
  <2> QED BY <1>5, <1>6, <2>1, <2>2, <2>3 DEF HoldsWell
<1>11. NoneNeededIsDeleted'
  <2>1. \A x \in Leads : lead[x].client \in Clients \cup {Nobody}
    BY <1>2 DEF TypeOK, Lead
  <2>2. ConvertedClientExists'
    <3>1. ASSUME NEW x \in Leads, lead'[x].client # Nobody
          PROVE  client'[lead'[x].client].state \in {"active", "archived"}
      <4>1. CASE x = l
        BY <1>5, <1>6, <4>1 DEF Exists
      <4>2. CASE x # l
        <5>1. lead'[x] = lead[x] /\ lead[x].client \in Clients /\ Exists(lead[x].client)
          BY <1>6, <2>1, <3>1, <4>2 DEF Inv, NoneNeededIsDeleted, ConvertedClientExists
        <5> QED BY <1>5, <5>1 DEF Exists
      <4> QED BY <4>1, <4>2
    <3> QED BY <3>1 DEF ConvertedClientExists, Exists
  <2>3. MergesStayUndoable'
    BY <1>1, <1>2, <1>5, <1>8 DEF Inv, NoneNeededIsDeleted, MergesStayUndoable
  <2> QED BY <2>2, <2>3 DEF NoneNeededIsDeleted
<1> QED BY <1>1, <1>2, <1>3, <1>5, <1>6, <1>7, <1>9, <1>10, <1>11, SavedTurn DEF TypeOK, At

LEMMA UpdateLeadWriteTurn ==
    ASSUME NEW p \in Requests, Inv, UpdateLeadWrite(p)
    PROVE  Inv'
<1>1. /\ Running(p) /\ At(p, "edit_lead", "write") /\ UNCHANGED <<client, link, merge>> /\ Saved(p)
      /\ lead' = [lead EXCEPT ![request[p].lead].status = "open"]
  BY DEF UpdateLeadWrite, Running, At
<1>2. /\ TypeOK /\ OfItsKind(p) /\ client \in [Clients -> [state : States, revision : Nat]]
      /\ \A m \in Requests : merge[m].status # "none" =>
                                merge[m].into \in Clients /\ merge[m].from \in Clients
  BY <1>1, AtWork
<1>3. request[p].lead \in Leads
  BY <1>1, <1>2 DEF OfItsKind, Kind, At
<1>4. /\ lead' \in [Leads -> Lead] /\ lead'[request[p].lead].status = "open"
      /\ \A l \in Leads : lead'[l].client = lead[l].client
      /\ \A l \in Leads \ {request[p].lead} : lead'[l] = lead[l]
  BY <1>1, <1>2, <1>3 DEF TypeOK, Lead
<1>5. \A q \in Requests : request'[q].moved = request[q].moved
  BY <1>1, <1>2, SavedKeeps
<1>6. ASSUME NEW q \in Requests \ {p}
      PROVE  /\ \A d \in Clients : HeldForUpdate(q, d) \/ HeldKeyShare(q, d) => Exists(d)'
             /\ At(q, "delete", "remove") =>
                   \A d \in Clients : d = request[q].client =>
                       Unneeded(d)' /\ client'[d].revision = client[d].revision
             /\ Converting(q) => \A l \in Leads : l = request[q].lead => lead'[l].status # "converted"
  <2>1. HoldsWell(q)
    BY DEF Inv
  <2>2. \A d : Unneeded(d) => Unneeded(d)'
    BY <1>1, <1>4, <1>5 DEF Unneeded
  <2>3. Converting(q) => \A l \in Leads : l = request[q].lead => lead'[l].status # "converted"
    BY <1>4, <2>1 DEF HoldsWell
  <2> QED BY <1>1, <2>1, <2>2, <2>3 DEF HoldsWell, Exists
<1>7. NoneNeededIsDeleted'
  BY <1>1, <1>4, <1>5 DEF Inv, NoneNeededIsDeleted, MergesStayUndoable, ConvertedClientExists, Exists
<1> QED BY <1>1, <1>2, <1>4, <1>6, <1>7, SavedTurn DEF TypeOK, At

-----------------------------------------------------------------------------
(* The theorems. *)

\* The revision a preview shows is one the row has had.
LEMMA ArrivalKept ==
    ASSUME NEW p \in Requests, Inv, Arrival(p)
    PROVE  Inv'
<1>1. CASE \E c \in Clients : EditClient(p, c)
  BY <1>1, EditClientTurn
<1>2. CASE \E c \in Clients, r \in Records, activeOnly \in BOOLEAN : LinkRecord(p, r, c, activeOnly)
  BY <1>2, LinkRecordTurn
<1>3. CASE \E c, into \in Clients : MergeClients(p, into, c)
  BY <1>3, MergeClientsTurn
<1>4. CASE \E c \in Clients : \E v \in 0..client[c].revision : ArchiveClient(p, c, v) \/ DeleteClient(p, c, v)
  <2>1. PICK c \in Clients : \E v \in 0..client[c].revision : ArchiveClient(p, c, v) \/ DeleteClient(p, c, v)
    BY <1>4
  <2>2. PICK v \in 0..client[c].revision : ArchiveClient(p, c, v) \/ DeleteClient(p, c, v)
    BY <2>1
  <2>3. v \in Revisions
    <3>1. client[c].revision \in Revisions
      BY DEF Inv, TypeOK, Client
    <3>2. Cardinality(Requests) \in Nat
      BY RecordsAssumption, FS_CardinalityType
    <3> QED BY <2>2, <3>1, <3>2 DEF Revisions
  <2> QED BY <2>2, <2>3, ArchiveClientTurn, DeleteClientTurn
<1>5. CASE \E c \in Clients : ArchiveClient(p, c, AnyRevision)
  BY <1>5, ArchiveClientTurn
<1>6. CASE \E m \in Requests : UnmergeClients(p, m)
  BY <1>6, UnmergeClientsTurn
<1>7. CASE \E l \in Leads : ConvertLead(p, l) \/ UpdateLead(p, l)
  BY <1>7, ConvertLeadTurn
<1> QED BY <1>1, <1>2, <1>3, <1>4, <1>5, <1>6, <1>7 DEF Arrival

LEMMA StepKept ==
    ASSUME NEW p \in Requests, Inv, Step(p)
    PROVE  Inv'
<1>1. CASE LinkWrite(p) \/ EditWrite(p) \/ ArchiveWrite(p)
  BY <1>1, LinkWriteTurn, EditWriteTurn, ArchiveWriteTurn
<1>2. CASE MergeSnapshot(p) \/ MergeRelink(p) \/ MergeCommit(p) \/ UnmergeRelink(p) \/ UnmergeCommit(p)
  BY <1>2, MergeSnapshotTurn, MergeRelinkTurn, MergeCommitTurn, UnmergeRelinkTurn, UnmergeCommitTurn
<1>3. CASE DeleteLock(p) \/ DeleteRecheck(p) \/ DeleteRemove(p)
  BY <1>3, DeleteLockTurn, DeleteRecheckTurn, DeleteRemoveTurn
<1>4. CASE \/ \E c \in Clients \cup {Nobody} : ConvertLock(p, c)
           \/ \E b \in BOOLEAN : ConvertMatch(p, b)
  BY <1>4, ConvertLockTurn, ConvertMatchTurn
<1>5. CASE ConvertSave(p) \/ UpdateLeadWrite(p)
  BY <1>5, ConvertSaveTurn, UpdateLeadWriteTurn
<1> QED BY <1>1, <1>2, <1>3, <1>4, <1>5 DEF Step

LEMMA InvIsKept == Inv /\ [Next]_vars => Inv'
<1> SUFFICES ASSUME Inv, [Next]_vars PROVE Inv'
  OBVIOUS
<1>1. CASE Next
  BY <1>1, ArrivalKept, StepKept, FailTurn DEF Next
<1>2. CASE UNCHANGED vars
  BY <1>2 DEF vars, Inv, TypeOK, Counted, Saves, MergesAreOver, OfItsKind, Kind, HoldsWell, Apart,
              Converting, HeldForUpdate, HeldKeyShare, At, Exists, Unneeded, ConvertedStands, Edited,
              NoneNeededIsDeleted, MergesStayUndoable, ConvertedClientExists, ConvertedOnce
<1> QED BY <1>1, <1>2

LEMMA InvHolds == Spec => []Inv
BY InitInv, InvIsKept, PTL DEF Spec

\* The tables and requests are well formed, and no client's row is updated more often
\* than there are requests.
THEOREM RecordsTypeCorrect == Spec => []TypeOK
<1>1. Inv => TypeOK
  BY DEF Inv
<1> QED BY <1>1, InvHolds, PTL

\* However deletions, merges and conversions overlap, no client is deleted that a
\* standing merge moved records of or to, or that a lead was converted to.
THEOREM NeededClientsStay == Spec => []NoneNeededIsDeleted
<1>1. Inv => NoneNeededIsDeleted
  BY DEF Inv
<1> QED BY <1>1, InvHolds, PTL

\* A lead is converted twice only if it was edited in between.
THEOREM ALeadIsConvertedOnce == Spec => []ConvertedOnce
<1>1. Inv => ConvertedOnce
  BY DEF Inv
<1> QED BY <1>1, InvHolds, PTL

\* Only a removal clears the client of a record, and what it removes nothing points at.
LEMMA LinksStay ==
    ASSUME Inv, Next, NEW x \in Records, link[x] # Nobody
    PROVE  link'[x] # Nobody
<1>1. PICK p \in Requests : Arrival(p) \/ Step(p) \/ Fail(p)
  BY DEF Next
<1>2. TypeOK /\ OfItsKind(p)
  BY DEF Inv
<1>3. CASE UNCHANGED link
  BY <1>3
<1>4. CASE LinkWrite(p)
  <2>1. request[p].client \in Clients
    BY <1>2, <1>4 DEF LinkWrite, At, OfItsKind, Kind
  <2>2. link' = link \/ link' = [link EXCEPT ![request[p].record] = request[p].client]
    BY <1>4 DEF LinkWrite
  <2> QED BY <1>2, <2>1, <2>2, RecordsAssumption DEF TypeOK
<1>5. CASE MergeCommit(p) \/ UnmergeCommit(p)
  <2>1. request[p].client \in Clients /\ request[p].into \in Clients
    BY <1>2, <1>5 DEF MergeCommit, UnmergeCommit, At, OfItsKind, Kind
  <2>2. PICK to \in Clients : link' = link \/ link' = Moved(p, to)
    BY <1>5, <2>1 DEF MergeCommit, UnmergeCommit
  <2>3. link'[x] \in {link[x], to}
    BY <2>2 DEF Moved
  <2> QED BY <2>3, RecordsAssumption
<1>6. CASE DeleteRemove(p)
  BY <1>6, DeleteRemoveTurn
<1>7. CASE Arrival(p)
  <2>1. UNCHANGED link
    BY <1>7 DEF Arrival, EditClient, LinkRecord, MergeClients, ArchiveClient, DeleteClient,
                UnmergeClients, ConvertLead, UpdateLead, Begin
  <2> QED BY <2>1
<1>8. CASE Fail(p)
  BY <1>8 DEF Fail
<1>9. CASE \/ EditWrite(p) \/ ArchiveWrite(p) \/ MergeSnapshot(p) \/ MergeRelink(p) \/ UnmergeRelink(p)
           \/ DeleteLock(p) \/ DeleteRecheck(p) \/ ConvertSave(p) \/ UpdateLeadWrite(p)
           \/ \E c \in Clients \cup {Nobody} : ConvertLock(p, c)
           \/ \E b \in BOOLEAN : ConvertMatch(p, b)
  <2>1. UNCHANGED link
    BY <1>9 DEF EditWrite, ArchiveWrite, MergeSnapshot, MergeRelink, UnmergeRelink, Relink, DeleteLock,
                DeleteRecheck, ConvertSave, UpdateLeadWrite, ConvertLock, ConvertMatch
  <2> QED BY <2>1
<1> QED BY <1>1, <1>4, <1>5, <1>6, <1>7, <1>8, <1>9 DEF Step

\* A deletion takes the client as its preview showed it, and no record loses its client,
\* whatever is linked, merged or edited meanwhile.
THEOREM DeletionsKeepTheirPreview == Spec => DeletionIsAsPreviewed
<1>1. ASSUME Inv, NEW p \in Requests, At(p, "delete", "remove")
      PROVE  client[request[p].client].revision = request[p].shown
  BY <1>1 DEF Inv, HoldsWell
<1>2. Inv /\ [Next]_vars => [\A p \in Requests :
        At(p, "delete", "remove") /\ request'[p].answer = "saved" =>
            client[request[p].client].revision = request[p].shown]_vars
  BY <1>1
<1>3. Inv /\ [Next]_vars => [\A r \in Records : link[r] # Nobody => link'[r] # Nobody]_vars
  BY LinksStay
<1> QED BY <1>2, <1>3, InvHolds, PTL DEF Spec, DeletionIsAsPreviewed, DeletedAsPreviewed, NothingUnlinked

=============================================================================
