------------------------------- MODULE Calendar -------------------------------
(***************************************************************************)
(* Writing to the owner's Google calendar after a review and a yes, and    *)
(* the copy of it the agenda is read from: googleCalendarWriteService.ts,  *)
(* syncGoogleCalendar of googleCalendarConnectorService.ts and the event   *)
(* writes of connectors/googleCalendarAdapter.ts (backend/src).            *)
(*                                                                         *)
(* A step is one call of Google or one statement.  Google numbers every    *)
(* change; the number is the event's etag, and a sync token is the number  *)
(* of the last change it covers.  An event is its latest version: what the *)
(* versions say, recurring events, several calendars and the pages of a    *)
(* long answer are left out.  A yes may be given, or retried, by any       *)
(* number of requests at a time.                                           *)
(***************************************************************************)
EXTENDS Naturals, FiniteSets

CONSTANTS
    Existing,   \* the events of the calendar at the start
    Ids,        \* the ids a review may choose for a new event
    Requests,   \* confirmed calls and syncs; bounds how many are made
    None,       \* no event
    MaxChanges  \* bounds the changes at Google

Events == Existing \cup Ids

ASSUME CalendarAssumption ==
    /\ Existing \cap Ids = {} /\ None \notin Events
    /\ MaxChanges \in Nat \ {0}

VARIABLES
    google,     \* the events at Google: the number of the last change, 0 before the first
    clock,      \* the number of the last change
    copy,       \* externalCalendarEvent: the etag stored, 0 without a row
    token,      \* eventSyncToken, 0 for none
    reviewed,   \* what was read back to the person, with the etag it showed
    request,    \* what each request is doing
    written,    \* history: what a yes changed at Google, with the version it fell on
    behind,     \* history: the events whose row a sync will not repair: an answer that was not
                \* the latest was written over it, or it was thrown away beside another sync
    ended       \* history: the events that have been deleted at Google at some time

vars == <<google, clock, copy, token, reviewed, request, written, behind, ended>>

Idle == [step |-> "idle", op |-> "none", event |-> None, etag |-> 0, row |-> FALSE,
         seen |-> [e \in {} |-> 0], upto |-> 0, answer |-> "none"]

At(p, step)     == request[p].step = step
Becomes(p, r)   == request' = [request EXCEPT ![p] = r]
Goto(p, step)   == Becomes(p, [request[p] EXCEPT !.step = step])
\* The versions a call of Google has answered with.
Seen(p, step, seen) == Becomes(p, [request[p] EXCEPT !.step = step, !.seen = seen])
Answer(p, answer) ==
    Becomes(p, [request[p] EXCEPT !.step = "done", !.row = FALSE, !.seen = Idle.seen, !.upto = 0,
                                  !.answer = answer])
Review(p)       == [op |-> request[p].op, event |-> request[p].event, etag |-> request[p].etag]
Live(versions, e) == versions[e].at # 0 /\ ~versions[e].gone

-----------------------------------------------------------------------------
(* Google                                                                    *)

Changed(e, gone) ==
    /\ clock < MaxChanges
    /\ clock' = clock + 1
    /\ google' = [google EXCEPT ![e] = [at |-> clock + 1, gone |-> gone]]
    /\ ended' = IF gone THEN ended \cup {e} ELSE ended

\* Somebody edits or deletes an event in Google Calendar, or puts a deleted one back.
Elsewhere(e, gone) ==
    /\ google[e].at # 0
    /\ google[e].gone => ~gone
    /\ Changed(e, gone)
    /\ UNCHANGED <<copy, token, reviewed, request, written, behind>>

-----------------------------------------------------------------------------
(* The review                                                                *)

\* createCalendarEvent without a yes: the id of the event is chosen here.
ReviewNew(e) ==
    /\ \A r \in reviewed : r.event # e
    /\ reviewed' = reviewed \cup {[op |-> "create", event |-> e, etag |-> 0]}
    /\ UNCHANGED <<google, clock, copy, token, request, written, behind, ended>>

\* moveCalendarEvent and cancelCalendarEvent without a yes: the event is found in the
\* copy and its version fetched.
ReviewChange(op, e) ==
    /\ Live(copy, e) /\ Live(google, e)
    /\ reviewed' = reviewed \cup {[op |-> op, event |-> e, etag |-> google[e].at]}
    /\ UNCHANGED <<google, clock, copy, token, request, written, behind, ended>>

\* Each yes carries what was reviewed.
Called(review, step, answer) ==
    [Idle EXCEPT !.op = review.op, !.event = review.event, !.etag = review.etag,
                 !.row = step = "live", !.step = step, !.answer = answer]

\* findEvent by the row's id.  A cancellation of an event the copy knows as deleted is
\* done; a move of one is not found.
Find(review) ==
    IF review.op = "create" THEN Called(review, "insert", "none")
    ELSE IF Live(copy, review.event) THEN Called(review, "live", "none")
    ELSE Called(review, "done", IF review.op = "cancel" THEN "done" ELSE "failed")

Confirm(p, review) ==
    /\ At(p, "idle")
    /\ review \in reviewed
    /\ Becomes(p, Find(review))
    /\ UNCHANGED <<google, clock, copy, token, reviewed, written, behind, ended>>

-----------------------------------------------------------------------------
(* The confirmed calls                                                       *)

Written(p, e) == written' = written \cup {[review |-> Review(p), on |-> google[e].at]}
Unwritten == UNCHANGED <<google, clock, written, ended>>

\* events.insert with "an id chosen at review, so a retried confirmation finds the event
\* it already created": done and heard, done and not heard, or 409 for an id that was used.
Insert(p) ==
    LET e == request[p].event IN
    /\ At(p, "insert")
    /\ \/ /\ google[e].at = 0
          /\ Changed(e, FALSE)
          /\ Written(p, e)
          /\ \/ Seen(p, "stage", [x \in {e} |-> google'[e]])
             \/ Answer(p, "failed")
       \/ /\ google[e].at # 0
          /\ Goto(p, "fetch")
          /\ Unwritten
       \/ Answer(p, "failed") /\ Unwritten
    /\ UNCHANGED <<copy, token, reviewed, behind>>

\* The event of that id, deleted or not; one with another title is an error.
Fetch(p) ==
    LET e == request[p].event IN
    /\ At(p, "fetch")
    /\ \/ Seen(p, "stage", [x \in {e} |-> google[e]])
       \/ Answer(p, "failed")
    /\ UNCHANGED <<google, clock, copy, token, reviewed, written, behind, ended>>

\* CALENDAR_EVENT_NOT_FOUND: the event is deleted.
NotFound(p) == ~Live(google, request[p].event)

\* liveEvent, and the comparison with the version that was reviewed.
LiveEvent(p) ==
    LET e == request[p].event IN
    /\ At(p, "live")
    /\ \/ /\ NotFound(p)
          /\ IF request[p].op = "cancel" THEN Goto(p, "remove") ELSE Answer(p, "failed")
       \/ /\ Live(google, e)
          /\ IF google[e].at = request[p].etag THEN Goto(p, "write") ELSE Answer(p, "refused")
       \/ Answer(p, "failed")
    /\ UNCHANGED <<google, clock, copy, token, reviewed, written, behind, ended>>

\* The version was compared a moment ago.
Matches_compared(p) == TRUE
\* If-Match: the write falls on the version that was reviewed or is answered with 412.
Matches(p) == google[request[p].event].at = request[p].etag

\* events.patch and events.delete.
Write(p) ==
    LET e == request[p].event  cancel == request[p].op = "cancel" IN
    /\ At(p, "write")
    /\ \/ /\ Live(google, e) /\ Matches(p)
          /\ Changed(e, cancel)
          /\ Written(p, e)
          /\ \/ IF cancel THEN Goto(p, "remove") ELSE Seen(p, "stage", [x \in {e} |-> google'[e]])
             \/ Answer(p, "failed")
       \/ /\ Live(google, e) /\ ~Matches(p)
          /\ Answer(p, "refused")
          /\ Unwritten
       \/ Answer(p, "failed") /\ Unwritten
    /\ UNCHANGED <<copy, token, reviewed, behind>>

Syncing(p) == request[p].step \in {"list", "apply"}
\* Nothing will fetch the event's last change again.
Covered(e) == \/ google[e].at <= token
              \/ \E q \in Requests : Syncing(q) /\ google[e].at <= request[q].upto

\* A row that is written holds the latest version, or the next sync brings it, or it has
\* fallen behind.
Store(e, row) ==
    /\ copy' = [copy EXCEPT ![e] = row]
    /\ behind' = IF row = google[e] THEN behind \ {e}
                 ELSE IF Covered(e) THEN behind \cup {e} ELSE behind

\* stage: the row as Google answered, never deleted; a failure is passed over.
Stage(p) ==
    /\ At(p, "stage")
    /\ \E e \in DOMAIN request[p].seen :
         \/ Store(e, [at |-> request[p].seen[e].at, gone |-> FALSE])
         \/ UNCHANGED <<copy, behind>>
    /\ Answer(p, "done")
    /\ UNCHANGED <<google, clock, token, reviewed, written, ended>>

\* Upserted, as it is in stage.
RowLeft_upserted(p) == TRUE
\* The row found before the call of Google is still there.
RowLeft(p) == request[p].row

\* The row of a cancelled event, whatever became of the event meanwhile; a failure is told.
Remove(p) ==
    LET e == request[p].event IN
    /\ At(p, "remove")
    /\ \/ /\ RowLeft(p)
          /\ copy' = [copy EXCEPT ![e].gone = TRUE]
          /\ behind' = IF ~google[e].gone /\ Covered(e) THEN behind \cup {e} ELSE behind
          /\ Answer(p, "done")
       \/ UNCHANGED <<copy, behind>> /\ Answer(p, "failed")
    /\ UNCHANGED <<google, clock, token, reviewed, written, ended>>

-----------------------------------------------------------------------------
(* syncGoogleCalendar                                                        *)

Sync(p) ==
    /\ At(p, "idle")
    /\ Becomes(p, [Idle EXCEPT !.op = "sync", !.step = "list", !.upto = token])
    /\ UNCHANGED <<google, clock, copy, token, reviewed, written, behind, ended>>

\* A token Google no longer knows: the copy and the token go, in one transaction, and
\* with the rows what names them.
Expired(p) ==
    /\ At(p, "list") /\ request[p].upto # 0
    /\ copy' = [e \in Events |-> [at |-> 0, gone |-> FALSE]]
    /\ token' = 0
    /\ reviewed' = {r \in reviewed : r.op = "create"}
    /\ behind' = {e \in Events : \E q \in Requests \ {p} : Syncing(q) /\ google[e].at # 0}
    /\ request' = [q \in Requests |-> [request[q] EXCEPT !.row = FALSE,
                                                          !.upto = IF q = p THEN 0 ELSE @]]
    /\ UNCHANGED <<google, clock, written, ended>>

\* Only what is in the calendar.
Listed_live(p) == {e \in Events : google[e].at > request[p].upto /\ ~google[e].gone}
\* What has changed since the token, deleted events too (showDeleted).
Listed(p) == {e \in Events : google[e].at > request[p].upto}

List(p) ==
    /\ At(p, "list")
    /\ Becomes(p, [request[p] EXCEPT !.step = "apply", !.seen = [e \in Listed(p) |-> google[e]],
                                     !.upto = clock])
    /\ UNCHANGED <<google, clock, copy, token, reviewed, written, behind, ended>>

\* applyEvents, one event after the other: a deleted one only where there is a row.
Apply(p) ==
    LET seen == request[p].seen IN
    /\ At(p, "apply")
    /\ \E e \in DOMAIN seen :
         /\ IF seen[e].gone /\ copy[e].at = 0 THEN UNCHANGED <<copy, behind>> ELSE Store(e, seen[e])
         /\ Becomes(p, [request[p] EXCEPT !.seen = [x \in DOMAIN seen \ {e} |-> seen[x]]])
    /\ UNCHANGED <<google, clock, token, reviewed, written, ended>>

\* The next token, once everything is applied.
SaveToken(p) ==
    /\ At(p, "apply") /\ request[p].seen = Idle.seen
    /\ token' = request[p].upto
    /\ Answer(p, "done")
    /\ UNCHANGED <<google, clock, copy, reviewed, written, behind, ended>>

\* The server dies, Google does not answer or a statement fails.
Fail(p) ==
    /\ request[p].step \notin {"idle", "done"}
    /\ Answer(p, "failed")
    /\ UNCHANGED <<google, clock, copy, token, reviewed, written, behind, ended>>

-----------------------------------------------------------------------------
Init ==
    /\ google = [e \in Events |-> [at |-> IF e \in Existing THEN 1 ELSE 0, gone |-> FALSE]]
    /\ clock = 1
    /\ copy = google
    /\ token = 1
    /\ reviewed = {}
    /\ request = [p \in Requests |-> Idle]
    /\ written = {} /\ behind = {} /\ ended = {}

Step(p) ==
    \/ Insert(p) \/ Fetch(p) \/ LiveEvent(p) \/ Write(p) \/ Stage(p) \/ Remove(p)
    \/ Expired(p) \/ List(p) \/ Apply(p) \/ SaveToken(p) \/ Fail(p)

Next ==
    \/ \E e \in Events, gone \in BOOLEAN : Elsewhere(e, gone)
    \/ \E e \in Ids : ReviewNew(e)
    \/ \E op \in {"move", "cancel"}, e \in Events : ReviewChange(op, e)
    \/ \E p \in Requests : Sync(p) \/ Step(p) \/ (\E review \in reviewed : Confirm(p, review))

Spec == Init /\ [][Next]_vars

-----------------------------------------------------------------------------
Version == [at : 0..MaxChanges, gone : BOOLEAN]
Reviews == [op : {"create", "move", "cancel"}, event : Events, etag : 0..MaxChanges]
Request == [step : {"idle", "insert", "fetch", "live", "write", "stage", "remove",
                    "list", "apply", "done"},
            op : {"none", "create", "move", "cancel", "sync"}, event : Events \cup {None},
            etag : 0..MaxChanges, row : BOOLEAN,
            seen : UNION {[es -> Version] : es \in SUBSET Events}, upto : 0..MaxChanges,
            answer : {"none", "done", "failed", "refused"}]

\* The type invariant: the copy and the token know no version Google has not made, and
\* no row is deleted that was never stored.
TypeOK ==
    /\ clock \in 1..MaxChanges /\ token \in 0..clock
    /\ google \in [Events -> Version] /\ copy \in [Events -> Version]
    /\ \A e \in Events : /\ google[e].at <= clock /\ copy[e].at <= google[e].at
                         /\ copy[e].gone => copy[e].at # 0
    /\ reviewed \subseteq Reviews /\ request \in [Requests -> Request]
    /\ written \subseteq [review : Reviews, on : 0..MaxChanges]
    /\ behind \subseteq Events /\ ended \subseteq Events

\* "The yes then writes exactly what was reviewed": however often a yes is repeated and
\* its answer lost, a review makes one change, to the version it showed or, for a new
\* event, to none before it.
MadeOnceAsReviewed ==
    /\ \A w \in written : w.on = w.review.etag
    /\ \A v, w \in written : v.review = w.review => v = w

\* What a yes is told: one refused because the event changed finds another version than
\* the one reviewed; after one told as done the change reviewed was made, and a cancelled
\* event has gone at Google, also where only the copy or a failed call says so, and stays so
\* unless somebody puts it back.
ToldAsItWas ==
    \A p \in Requests :
        LET r == request[p] IN
        /\ r.answer = "refused" => google[r.event].at # r.etag
        /\ r.answer = "done" /\ r.op = "cancel" => r.event \in ended
        /\ r.answer = "done" /\ r.op \in {"create", "move"} => \E w \in written : w.review = Review(p)

\* The yes: made once, as reviewed, and told as it was.
OnceAndAsReviewed == MadeOnceAsReviewed /\ ToldAsItWas

\* "The next synchronisation repairs the copy": once the token covers an event's last
\* change the row shows it, although staging it failed, the change was made elsewhere
\* while a sync was under way or the copy was thrown away.  Excepted, until it is next
\* written, is a row over which an answer other than the latest was written when the
\* token, or that of a sync under way, was already past the latest, and one that was
\* thrown away beside a sync that will still save its token.
CopyKeepsUp ==
    \A e \in Events :
        google[e].at <= token /\ token # 0 /\ google[e].at # 0 /\ e \notin behind
        => IF google[e].gone THEN ~Live(copy, e) ELSE copy[e] = google[e]
=============================================================================
