---------------------------- MODULE ClientRecords ----------------------------
(***************************************************************************)
(* Clients and what hangs on them: merging two clients and undoing it      *)
(* (backend/src/services/dataQualityService.ts), archiving and editing     *)
(* (clientService.ts), permanent deletion (crmPermanentDeletionService.ts),*)
(* linking records to a client, and converting and editing leads           *)
(* (leadService.ts).                                                       *)
(*                                                                         *)
(* A step is one statement at READ COMMITTED.  The nine kinds of linked    *)
(* record are one; updatedAt is a counter.  A row of clients is held FOR   *)
(* UPDATE by a deletion or a conversion, and FOR KEY SHARE by a merge that *)
(* pointed records at it; what a merge moved is seen when it commits.      *)
(***************************************************************************)
EXTENDS Integers, FiniteSets

CONSTANTS
    Requests,   \* requests; bounds how many are made, and names merge records
    Clients,    \* client ids
    Founders,   \* the clients there are to begin with
    Records,    \* jobs, quotes, invoices, tasks, contacts, ...
    Leads,
    Nobody,
    AnyRevision \* no expected_revision

ASSUME RecordsAssumption ==
    /\ IsFiniteSet(Requests)
    /\ Founders \subseteq Clients
    /\ Nobody \notin Clients
    /\ AnyRevision \notin Nat

VARIABLES
    client,     \* state and revision (updatedAt)
    link,       \* the client of each record
    lead,       \* status and convertedClientId
    merge,      \* client_merge_records, by the request that wrote it
    request     \* what each request is doing

vars == <<client, link, lead, merge, request>>

Idle == [op |-> "none", step |-> "idle", client |-> Nobody, into |-> Nobody,
         record |-> Nobody, lead |-> Nobody, of |-> Nobody, wasActive |-> FALSE,
         ids |-> {}, moved |-> {}, shown |-> AnyRevision, answer |-> "none"]

At(p, op, step) == request[p].op = op /\ request[p].step = step
Becomes(p, q)   == request' = [request EXCEPT ![p] = q]
Goto(p, step)   == Becomes(p, [request[p] EXCEPT !.step = step])
Reply(p, a)     == Becomes(p, [request[p] EXCEPT !.step = "done", !.answer = a])
Saved(p)        == Reply(p, "saved")
Running(p)      == request[p].step \notin {"idle", "done"}

\* A request is looked at first; it goes on with q or is refused.
Begin(p, allowed, q) ==
    /\ At(p, "none", "idle")
    /\ Becomes(p, IF allowed THEN q ELSE [q EXCEPT !.step = "done", !.answer = "refused"])
    /\ UNCHANGED <<client, link, lead, merge>>

Exists(c) == client[c].state \in {"active", "archived"}
Active(c) == client[c].state = "active"

\* Every update of a client's row moves its revision.
Updated(c, state) == [client EXCEPT ![c] = [state |-> state, revision |-> @.revision + 1]]

-----------------------------------------------------------------------------
(* Row locks. *)

HeldForUpdate(p, c) ==
    /\ request[p].client = c
    /\ At(p, "delete", "recheck") \/ At(p, "delete", "remove") \/ At(p, "convert", "save")

HeldKeyShare(p, c) ==
    \/ At(p, "merge", "commit") /\ request[p].into = c /\ request[p].moved # {}
    \/ At(p, "unmerge", "commit") /\ request[p].client = c /\ request[p].moved # {}

\* The deletion does not lock the client.
NotHeld_unlocked(p, c) == TRUE
\* p need not wait to point a record at c, or to update c ...
NotHeld(p, c) == \A q \in Requests \ {p} : ~HeldForUpdate(q, c)
\* ... or to lock it FOR UPDATE.
Lockable(p, c) == NotHeld(p, c) /\ \A q \in Requests \ {p} : ~HeldKeyShare(q, c)

\* p need not wait to update these records.
RowsFree(p, rows) ==
    \A q \in Requests \ {p} : request[q].step = "commit" => request[q].moved \cap rows = {}

\* The conversion does not lock the lead.
LeadFree_unlocked(p, l) == TRUE
LeadFree(p, l) ==
    \A q \in Requests \ {p} :
        ~(request[q].lead = l /\ request[q].op = "convert" /\ request[q].step \in {"match", "save"})

-----------------------------------------------------------------------------
(* Records: created for a client, or pointed at another one. *)

\* Jobs, quotes and the like ask for any client, tasks and contacts for an active one.
LinkRecord(p, r, c, activeOnly) ==
    /\ link[r] = Nobody => \A q \in Requests : request[q].record # r
    /\ Begin(p, IF activeOnly THEN Active(c) ELSE Exists(c),
                [Idle EXCEPT !.op = "link", !.step = "write", !.record = r, !.client = c])

\* The foreign key holds the client while it is checked.
LinkWrite(p) ==
    LET c == request[p].client  r == request[p].record IN
    /\ At(p, "link", "write")
    /\ NotHeld(p, c) /\ RowsFree(p, {r})
    /\ IF Exists(c) THEN link' = [link EXCEPT ![r] = c] /\ Saved(p)
                    ELSE UNCHANGED link /\ Reply(p, "error")
    /\ UNCHANGED <<client, lead, merge>>

-----------------------------------------------------------------------------
(* mergeClients and unmergeClients *)

MergeClients(p, into, from) ==
    /\ into # from
    /\ Begin(p, Exists(into) /\ Exists(from),
             [Idle EXCEPT !.op = "merge", !.step = "snapshot", !.client = from, !.into = into,
                          !.wasActive = Active(from)])

MergeSnapshot(p) ==
    /\ At(p, "merge", "snapshot")
    /\ Becomes(p, [request[p] EXCEPT !.step = "relink",
                       !.ids = {r \in Records : link[r] = request[p].client}])
    /\ UNCHANGED <<client, link, lead, merge>>

\* updateMany of those of ids that still point at "from".
Relink(p, ids, from, to) ==
    LET rows == {r \in ids : link[r] = from} IN
    /\ RowsFree(p, rows)
    /\ rows # {} => NotHeld(p, to)
    /\ IF rows # {} /\ ~Exists(to) THEN Reply(p, "error")
       ELSE Becomes(p, [request[p] EXCEPT !.step = "commit", !.moved = rows])
    /\ UNCHANGED <<client, link, lead, merge>>

Moved(p, to) == [r \in Records |-> IF r \in request[p].moved THEN to ELSE link[r]]

\* The row to update is gone: everything is rolled back.
RolledBack(p) == Becomes(p, [request[p] EXCEPT !.step = "done", !.answer = "error", !.moved = {}])

MergeRelink(p) ==
    /\ At(p, "merge", "relink")
    /\ Relink(p, request[p].ids, request[p].client, request[p].into)

\* The duplicate is archived and the merge record written.
MergeCommit(p) ==
    LET q == request[p] IN
    /\ At(p, "merge", "commit")
    /\ NotHeld(p, q.client)
    /\ IF Exists(q.client)
         THEN /\ client' = Updated(q.client, "archived")
              /\ link' = Moved(p, q.into)
              /\ merge' = [merge EXCEPT ![p] = [status |-> "merged", into |-> q.into, from |-> q.client,
                                                ids |-> q.ids, wasActive |-> q.wasActive]]
              /\ Saved(p)
         ELSE UNCHANGED <<client, link, merge>> /\ RolledBack(p)
    /\ UNCHANGED lead

UnmergeClients(p, m) ==
    /\ merge[m].status # "none"
    /\ Begin(p, merge[m].status = "merged" /\ Exists(merge[m].into) /\ Exists(merge[m].from),
             [Idle EXCEPT !.op = "unmerge", !.step = "relink", !.of = m,
                          !.client = merge[m].from, !.into = merge[m].into])

UnmergeRelink(p) ==
    /\ At(p, "unmerge", "relink")
    /\ Relink(p, merge[request[p].of].ids, request[p].into, request[p].client)

\* The status of the merge is written to the client.
Reactivated_raw(m) == merge[m].status
Reactivated(m) == IF merge[m].wasActive THEN "active" ELSE "archived"

UnmergeCommit(p) ==
    LET q == request[p] IN
    /\ At(p, "unmerge", "commit")
    /\ NotHeld(p, q.client)
    /\ IF Exists(q.client)
         THEN /\ client' = Updated(q.client, Reactivated(q.of))
              /\ link' = Moved(p, q.client)
              /\ merge' = [merge EXCEPT ![q.of].status = "unmerged"]
              /\ Saved(p)
         ELSE UNCHANGED <<client, link, merge>> /\ RolledBack(p)
    /\ UNCHANGED lead

-----------------------------------------------------------------------------
(* updateClient and archiveClient *)

EditClient(p, c) ==
    Begin(p, Active(c), [Idle EXCEPT !.op = "edit", !.step = "write", !.client = c])

EditWrite(p) ==
    LET c == request[p].client IN
    /\ At(p, "edit", "write")
    /\ NotHeld(p, c)
    /\ IF Exists(c) THEN client' = Updated(c, client[c].state) /\ Saved(p)
                    ELSE UNCHANGED client /\ Reply(p, "error")
    /\ UNCHANGED <<link, lead, merge>>

ArchiveClient(p, c, expected) ==
    Begin(p, Active(c), [Idle EXCEPT !.op = "archive", !.step = "write", !.client = c, !.shown = expected])

\* Looked at again FOR UPDATE.
ArchiveWrite(p) ==
    LET c == request[p].client IN
    /\ At(p, "archive", "write")
    /\ Lockable(p, c)
    /\ IF Active(c) /\ request[p].shown \in {AnyRevision, client[c].revision}
         THEN client' = Updated(c, "archived") /\ Saved(p)
         ELSE UNCHANGED client /\ Reply(p, "changed")
    /\ UNCHANGED <<link, lead, merge>>

-----------------------------------------------------------------------------
(* Permanent deletion of a client *)

\* Merge records are not counted.
Blockers_without_merges(c) ==
    {r \in Records : link[r] = c} \cup {l \in Leads : lead[l].client = c}

\* What depends on the client; merge records count when they are undone, too.
Blockers(c) ==
    {r \in Records : link[r] = c}
        \cup {l \in Leads : lead[l].client = c}
        \cup {m \in Requests : merge[m].status # "none" /\ c \in {merge[m].into, merge[m].from}}

DeleteClient(p, c, shown) ==
    Begin(p, Exists(c) /\ Blockers(c) = {},
          [Idle EXCEPT !.op = "delete", !.step = "lock", !.client = c, !.shown = shown])

DeleteLock(p) ==
    LET c == request[p].client IN
    /\ At(p, "delete", "lock")
    /\ Lockable(p, c)
    /\ IF Exists(c) THEN Goto(p, "recheck") ELSE Reply(p, "stale")
    /\ UNCHANGED <<client, link, lead, merge>>

\* With no dependencies, the digest tells previews apart by the revision.
AsShown(p) == request[p].shown = client[request[p].client].revision

\* The preview once more, under the lock.
DeleteRecheck(p) ==
    /\ At(p, "delete", "recheck")
    /\ IF Blockers(request[p].client) # {} THEN Reply(p, "blocked")
       ELSE IF ~AsShown(p) THEN Reply(p, "stale")
       ELSE Goto(p, "remove")
    /\ UNCHANGED <<client, link, lead, merge>>

\* Contacts, tasks and the like are unlinked by the database (SET NULL).
DeleteRemove(p) ==
    LET c == request[p].client IN
    /\ At(p, "delete", "remove")
    /\ client' = [client EXCEPT ![c].state = "deleted"]
    /\ link' = [r \in Records |-> IF link[r] = c THEN Nobody ELSE link[r]]
    /\ Saved(p)
    /\ UNCHANGED <<lead, merge>>

-----------------------------------------------------------------------------
(* convertLead and updateLead *)

ConvertLead(p, l) == Begin(p, TRUE, [Idle EXCEPT !.op = "convert", !.step = "lock", !.lead = l])

\* Under the lead's row lock: some client with its e-mail address, or none.
ConvertLock(p, matched) ==
    LET l == request[p].lead IN
    /\ At(p, "convert", "lock")
    /\ LeadFree(p, l)
    /\ matched \in {Nobody} \cup {c \in Clients : Exists(c)}
    /\ IF lead[l].status = "converted" THEN Reply(p, "refused")
       ELSE Becomes(p, [request[p] EXCEPT !.client = matched,
                            !.step = IF matched = Nobody THEN "save" ELSE "match"])
    /\ UNCHANGED <<client, link, lead, merge>>

\* Read again under the client's lock; its address may have changed.
ConvertMatch(p, stillMatches) ==
    LET c == request[p].client IN
    /\ At(p, "convert", "match")
    /\ Lockable(p, c)
    /\ Becomes(p, [request[p] EXCEPT !.step = "save",
                       !.client = IF stillMatches /\ Exists(c) THEN c ELSE Nobody])
    /\ UNCHANGED <<client, link, lead, merge>>

Converted(l, c) == lead' = [lead EXCEPT ![l] = [status |-> "converted", client |-> c]]

ConvertSave(p) ==
    /\ At(p, "convert", "save")
    /\ IF request[p].client # Nobody
         THEN Converted(request[p].lead, request[p].client) /\ UNCHANGED client
         ELSE \E c \in Clients :
                /\ client[c].state = "unborn"
                /\ client' = [client EXCEPT ![c].state = "active"]
                /\ Converted(request[p].lead, c)
    /\ Saved(p)
    /\ UNCHANGED <<link, merge>>

\* The status of a converted lead is not changed ...
UpdateLead(p, l) ==
    Begin(p, lead[l].status # "converted",
          [Idle EXCEPT !.op = "edit_lead", !.step = "write", !.lead = l])

\* ... if it was one when the request looked.
UpdateLeadWrite(p) ==
    LET l == request[p].lead IN
    /\ At(p, "edit_lead", "write")
    /\ LeadFree(p, l)
    /\ lead' = [lead EXCEPT ![l].status = "open"]
    /\ Saved(p)
    /\ UNCHANGED <<client, link, merge>>

-----------------------------------------------------------------------------
\* A statement fails or the server dies: the transaction is rolled back.
Fail(p) ==
    /\ Running(p)
    /\ RolledBack(p)
    /\ UNCHANGED <<client, link, lead, merge>>

Unmerged == [status |-> "none", into |-> Nobody, from |-> Nobody, ids |-> {}, wasActive |-> FALSE]

\* Clients with the records they were given; leads that are open.
Init ==
    /\ client = [c \in Clients |-> [state |-> IF c \in Founders THEN "active" ELSE "unborn", revision |-> 0]]
    /\ link \in [Records -> Founders \cup {Nobody}]
    /\ lead = [l \in Leads |-> [status |-> "open", client |-> Nobody]]
    /\ merge = [m \in Requests |-> Unmerged]
    /\ request = [p \in Requests |-> Idle]

Arrival(p) ==
    \/ \E c \in Clients :
         \/ EditClient(p, c)
         \/ \E r \in Records, activeOnly \in BOOLEAN : LinkRecord(p, r, c, activeOnly)
         \/ \E into \in Clients : MergeClients(p, into, c)
         \/ \E v \in 0..client[c].revision : ArchiveClient(p, c, v) \/ DeleteClient(p, c, v)
         \/ ArchiveClient(p, c, AnyRevision)
    \/ \E m \in Requests : UnmergeClients(p, m)
    \/ \E l \in Leads : ConvertLead(p, l) \/ UpdateLead(p, l)

Step(p) ==
    \/ LinkWrite(p) \/ EditWrite(p) \/ ArchiveWrite(p)
    \/ MergeSnapshot(p) \/ MergeRelink(p) \/ MergeCommit(p) \/ UnmergeRelink(p) \/ UnmergeCommit(p)
    \/ DeleteLock(p) \/ DeleteRecheck(p) \/ DeleteRemove(p)
    \/ \E c \in Clients \cup {Nobody} : ConvertLock(p, c)
    \/ \E b \in BOOLEAN : ConvertMatch(p, b)
    \/ ConvertSave(p) \/ UpdateLeadWrite(p)

Next == \E p \in Requests : Arrival(p) \/ Step(p) \/ Fail(p)

Spec == Init /\ [][Next]_vars

-----------------------------------------------------------------------------
States == {"unborn", "active", "archived", "deleted"}

Revisions == 0..Cardinality(Requests)
Client  == [state : States, revision : Revisions]
Lead    == [status : {"open", "converted"}, client : Clients \cup {Nobody}]
Merge   == [status : {"none", "merged", "unmerged"}, into : Clients \cup {Nobody},
            from : Clients \cup {Nobody}, ids : SUBSET Records, wasActive : BOOLEAN]
Operations == {"none", "link", "merge", "unmerge", "edit", "archive", "delete", "convert", "edit_lead"}
Steps   == {"idle", "write", "snapshot", "relink", "commit", "lock", "recheck", "remove",
            "match", "save", "done"}
Answers == {"none", "refused", "saved", "error", "changed", "blocked", "stale"}
Request == [op : Operations, step : Steps,
            client : Clients \cup {Nobody}, into : Clients \cup {Nobody},
            record : Records \cup {Nobody}, lead : Leads \cup {Nobody},
            of : Requests \cup {Nobody}, wasActive : BOOLEAN,
            ids : SUBSET Records, moved : SUBSET Records,
            shown : Revisions \cup {AnyRevision}, answer : Answers]

\* The type invariant: the four tables, no row updated more often than there are
\* requests, and what requests hold.
TypeOK ==
    /\ client \in [Clients -> Client]
    /\ link \in [Records -> Clients \cup {Nobody}]
    /\ lead \in [Leads -> Lead]
    /\ merge \in [Requests -> Merge]
    /\ request \in [Requests -> Request]

\* A merge that moved something can be undone for as long as it stands: both of
\* its clients are there.
MergesStayUndoable ==
    \A m \in Requests :
        merge[m].status = "merged" /\ request[m].moved # {} =>
            Exists(merge[m].into) /\ Exists(merge[m].from)

\* "Left pointing at a record that no longer exists": the client a lead was
\* converted to is never deleted, however deletion and conversion overlap.
ConvertedClientExists ==
    \A l \in Leads : lead[l].client # Nobody => Exists(lead[l].client)

\* No deletion takes a client that a merge or a conversion still speaks of, although
\* neither has a foreign key.
NoneNeededIsDeleted == MergesStayUndoable /\ ConvertedClientExists

\* "A record linked during the deletion is either counted or fails its own
\* insert": no record ever loses its client, whatever is linked or merged while
\* a client is deleted.
NothingUnlinked ==
    [][\A r \in Records : link[r] # Nobody => link'[r] # Nobody]_vars

\* A client is only deleted as the revision its preview showed, whoever edited,
\* archived, merged or unmerged it since.
DeletedAsPreviewed ==
    [][\A p \in Requests :
        At(p, "delete", "remove") /\ request'[p].answer = "saved" =>
            client[request[p].client].revision = request[p].shown]_vars

\* A deletion takes the client that was shown and nothing that came to it since.
DeletionIsAsPreviewed == DeletedAsPreviewed /\ NothingUnlinked

\* "Two conversions of one lead cannot both create a client": a second one is
\* only saved if an edit of that lead was saved, which may have reopened it.
ConvertedOnce ==
    \A p, q \in Requests :
        (/\ p # q /\ request[p].lead = request[q].lead
         /\ \A x \in {p, q} : request[x].op = "convert" /\ request[x].answer = "saved")
        => \E e \in Requests :
             request[e].op = "edit_lead" /\ request[e].lead = request[p].lead /\ request[e].answer = "saved"

-----------------------------------------------------------------------------
(* What the comments say and the code does not keep. *)

\* "All supported client-linked operational records move to the primary client
\* in the same transaction": a saved merge leaves nothing at the duplicate.
MergeMovesEverything ==
    [][\A p \in Requests :
        At(p, "merge", "commit") /\ request'[p].answer = "saved" =>
            \A r \in Records : link'[r] # request[p].client]_vars

\* "Typing a different status here would orphan that client, so it is refused
\* outright": a converted lead stays converted.
ConvertedForGood ==
    [][\A l \in Leads : lead[l].status = "converted" => lead'[l].status = "converted"]_vars
=============================================================================
