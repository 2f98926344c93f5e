------------------------------ MODULE MailMirror ------------------------------
(***************************************************************************)
(* The copies of a Gmail inbox (backend/src/services/                      *)
(* gmailConnectorService.ts, its sync) kept up to date by background syncs *)
(* (connectorBackgroundSyncService.ts) and by syncs somebody asks for.     *)
(*                                                                         *)
(* A step is one call to Gmail or one statement.  Gmail's history is a     *)
(* sequence of changes and a history id is a position in it; the inbox     *)
(* listing sees each message at some moment.  A message that is archived,  *)
(* trashed or deleted has left the inbox.  Syncs with a query or a page    *)
(* token of the caller's own, which never move the cursor, are left out,   *)
(* and so is how a sync ended: lastSyncStatus only says if one goes on.    *)
(***************************************************************************)
EXTENDS Naturals, Sequences, SequencesExt

CONSTANTS
    Messages,   \* messages of the mailbox
    Servers,    \* server processes with a background scheduler
    Callers,    \* requests that sync when asked
    Nothing,    \* no cursor, no page token, no message
    MaxChanges, \* bounds the changes of the mailbox
    MaxFailures \* bounds failures and deaths of a sync

ASSUME MailMirrorAssumption ==
    /\ Servers \cap Callers = {}
    /\ Nothing \notin Messages \cup Nat
    /\ MaxChanges \in Nat /\ MaxFailures \in Nat

VARIABLES
    place,      \* Gmail: where each message is
    log,        \* Gmail: the history of changes
    floor,      \* Gmail: history ids before it have expired
    held,       \* the messages imported (communication_intakes)
    source,     \* cursor (syncCursor), page (syncPageToken), due, syncing (lastSyncStatus)
    sync,       \* what each server's sweep and each caller is doing
    failures,   \* syncs that failed or died so far
    doubtful    \* history: messages a sync may have mistaken since the last sound full sync

mailbox == <<place, log, floor>>
mirrorVars == <<mailbox, held, source, sync, failures, doubtful>>

Workers == Servers \cup Callers

IdleSync == [step |-> "idle", full |-> FALSE, from |-> Nothing, upto |-> Nothing, more |-> FALSE,
             removed |-> {}, visit |-> {}, remote |-> {}, wanted |-> {}, message |-> Nothing,
             alone |-> FALSE]

SyncAt(w, step)   == sync[w].step = step
SyncBecomes(w, s) == sync' = [sync EXCEPT ![w] = s]
Active        == {w \in Workers : ~SyncAt(w, "idle")}

-----------------------------------------------------------------------------
(* The mailbox                                                               *)

Change(m, from, to, kind) ==
    /\ Len(log) < MaxChanges
    /\ place[m] = from
    /\ place' = [place EXCEPT ![m] = to]
    /\ log' = Append(log, [message |-> m, kind |-> kind])
    /\ UNCHANGED <<floor, held, source, sync, failures, doubtful>>

\* Gmail keeps its history for a while only.
Expire ==
    /\ floor < Len(log)
    /\ floor' = Len(log)
    /\ UNCHANGED <<place, log, held, source, sync, failures, doubtful>>

-----------------------------------------------------------------------------
(* runConnectorBackgroundSyncOnce, syncGmailMessages                         *)

\* The source has not been synced for an interval.
Tick ==
    /\ ~source.due
    /\ source' = [source EXCEPT !.due = TRUE]
    /\ UNCHANGED <<mailbox, held, sync, failures, doubtful>>

\* A source another sync has, or had when it died, is left alone.
Leasable_unless_syncing == source.due /\ ~source.syncing
\* The lease looks at the age of the last sync only.
Leasable == source.due

\* The source is read; with a cursor the history is followed, without one, or
\* when asked to, everything is listed.
Begins(w, full) ==
    LET alone == Active = {} IN
    /\ SyncAt(w, "idle")
    /\ sync' = [v \in Workers |->
          IF v = w THEN [IdleSync EXCEPT
                !.step = IF full \/ source.cursor = Nothing THEN "profile" ELSE "history",
                !.full = full \/ source.cursor = Nothing,
                !.from = IF full THEN Nothing
                         ELSE IF source.page = Nothing THEN source.cursor
                         ELSE source.page,
                !.alone = alone]
          ELSE [sync[v] EXCEPT !.alone = FALSE]]
    /\ doubtful' = IF alone THEN doubtful ELSE Messages
    /\ UNCHANGED <<mailbox, held, failures>>

Lease(w) ==
    /\ Leasable
    /\ source' = [source EXCEPT !.due = FALSE, !.syncing = TRUE]
    /\ Begins(w, FALSE)

AskSync(w, full) ==
    /\ UNCHANGED source
    /\ Begins(w, full)

-----------------------------------------------------------------------------
(* performIncrementalSync                                                    *)

\* Inbox labels only: what left the inbox stays.
Leaving_unread(batch) == {}
\* Messages deleted, or with the inbox label removed.
Leaving(batch) == {e.message : e \in {e \in ToSet(batch) : e.kind = "out"}}
\* Messages added, or with the inbox label added, that the page never saw leave.
Coming(batch)  == {e.message : e \in ToSet(batch)} \ Leaving(batch)
\* Messages that left and came back within the page.
Bounced(batch) ==
    {m \in Messages : \E i, j \in DOMAIN batch :
        i < j /\ batch[i] = [message |-> m, kind |-> "out"] /\ batch[j] = [message |-> m, kind |-> "in"]}

\* One page of the history; an expired cursor falls back to a full sync.
History(w) ==
    /\ SyncAt(w, "history")
    /\ IF sync[w].from < floor
         THEN /\ SyncBecomes(w, [sync[w] EXCEPT !.step = "profile", !.full = TRUE, !.from = Nothing])
              /\ UNCHANGED doubtful
         ELSE \E upto \in sync[w].from..Len(log) :
                LET batch == SubSeq(log, sync[w].from + 1, upto) IN
                /\ batch # <<>> \/ upto = Len(log)
                /\ SyncBecomes(w, [sync[w] EXCEPT !.step = "remove", !.from = Nothing,
                                                  !.upto = upto, !.more = upto < Len(log),
                                                  !.removed = Leaving(batch),
                                                  !.wanted = Coming(batch)])
                /\ doubtful' = doubtful \cup Bounced(batch)
    /\ UNCHANGED <<mailbox, held, source, failures>>

\* removeImportedMessageReferences
TakeAway(w) ==
    /\ SyncAt(w, "remove")
    /\ held' = held \ sync[w].removed
    /\ SyncBecomes(w, [sync[w] EXCEPT !.step = "import", !.removed = {}])
    /\ UNCHANGED <<mailbox, source, failures, doubtful>>

-----------------------------------------------------------------------------
(* performFullSync                                                           *)

\* The history id is read before anything is listed.
Profile(w) ==
    /\ SyncAt(w, "profile")
    /\ SyncBecomes(w, [sync[w] EXCEPT !.step = "import", !.upto = Len(log), !.visit = Messages])
    /\ UNCHANGED <<mailbox, held, source, failures, doubtful>>

List(w, m) ==
    LET found == IF place[m] = "inbox" THEN {m} ELSE {} IN
    /\ SyncAt(w, "import") /\ m \in sync[w].visit
    /\ SyncBecomes(w, [sync[w] EXCEPT !.visit = @ \ {m}, !.remote = @ \cup found, !.wanted = @ \cup found])
    /\ UNCHANGED <<mailbox, held, source, failures, doubtful>>

\* Copies the listing did not find are removed.
Prune(w) ==
    /\ SyncAt(w, "import") /\ sync[w].full
    /\ sync[w].visit = {} /\ sync[w].wanted = {}
    /\ held' = held \cap sync[w].remote
    /\ SyncBecomes(w, [sync[w] EXCEPT !.step = "save", !.remote = {}])
    /\ UNCHANGED <<mailbox, source, failures, doubtful>>

-----------------------------------------------------------------------------
(* importMessageReferences: an existing copy is skipped, the message is      *)
(* fetched, one that is not in the inbox now is skipped, a copy is created.  *)

Fetch(w, m) ==
    /\ SyncAt(w, "import") /\ m \in sync[w].wanted
    /\ SyncBecomes(w, IF m \notin held /\ place[m] = "inbox"
                    THEN [sync[w] EXCEPT !.step = "create", !.message = m, !.wanted = @ \ {m}]
                    ELSE [sync[w] EXCEPT !.wanted = @ \ {m}])
    /\ UNCHANGED <<mailbox, held, source, failures, doubtful>>

\* The unique key skips one that another sync created meanwhile.
Create(w) ==
    /\ SyncAt(w, "create")
    /\ held' = held \cup {sync[w].message}
    /\ SyncBecomes(w, [sync[w] EXCEPT !.step = "import", !.message = Nothing])
    /\ UNCHANGED <<mailbox, source, failures, doubtful>>

Imported(w) ==
    \/ SyncAt(w, "save")
    \/ SyncAt(w, "import") /\ ~sync[w].full /\ sync[w].wanted = {}

\* The first id not read.
Position_next(s) == [cursor |-> s.upto + 1, page |-> Nothing]
\* The cursor moves with the last page only; until then the page token does.
Position(s) ==
    IF s.full THEN [cursor |-> s.upto, page |-> Nothing]
    ELSE IF s.more THEN [cursor |-> source.cursor, page |-> s.upto]
    ELSE [cursor |-> s.upto, page |-> Nothing]

Save(w) ==
    LET position == Position(sync[w]) IN
    /\ Imported(w)
    /\ source' = [cursor |-> position.cursor, page |-> position.page,
                  due |-> FALSE, syncing |-> FALSE]
    /\ doubtful' = IF sync[w].full /\ sync[w].alone THEN {} ELSE doubtful
    /\ SyncBecomes(w, IdleSync)
    /\ UNCHANGED <<mailbox, held, failures>>

\* A call or a statement fails, and says so; or the process dies, and does not.
Fail(w) ==
    /\ failures < MaxFailures /\ w \in Active
    /\ failures' = failures + 1
    /\ source' \in {source, [source EXCEPT !.due = FALSE, !.syncing = FALSE]}
    /\ SyncBecomes(w, IdleSync)
    /\ UNCHANGED <<mailbox, held, doubtful>>

-----------------------------------------------------------------------------
\* A mailbox with some mail, connected but never synced.
MirrorInit ==
    /\ place \in [Messages -> {"nowhere", "inbox"}]
    /\ log = <<>> /\ floor = 0
    /\ held = {}
    /\ source = [cursor |-> Nothing, page |-> Nothing, due |-> TRUE, syncing |-> FALSE]
    /\ sync = [w \in Workers |-> IdleSync]
    /\ failures = 0
    /\ doubtful = {}

Mailbox ==
    \/ \E m \in Messages :
         \/ Change(m, "nowhere", "inbox", "added")
         \/ Change(m, "inbox", "elsewhere", "out")
         \/ Change(m, "elsewhere", "inbox", "in")
    \/ Expire

SyncStep(w) ==
    \/ History(w) \/ TakeAway(w) \/ Profile(w) \/ Prune(w) \/ Create(w) \/ Save(w)
    \/ \E m \in Messages : List(w, m) \/ Fetch(w, m)

MirrorNext ==
    \/ Mailbox \/ Tick
    \/ \E w \in Servers : Lease(w)
    \/ \E w \in Callers, full \in BOOLEAN : AskSync(w, full)
    \/ \E w \in Workers : SyncStep(w) \/ Fail(w)

\* The timer fires, a sweep leases what is due, and a sync goes on unless it
\* fails.  Nobody has to ask for one.
Fairness ==
    /\ WF_mirrorVars(Tick)
    /\ \A w \in Servers : WF_mirrorVars(Lease(w))
    /\ \A w \in Workers : WF_mirrorVars(SyncStep(w))

MirrorSpec     == MirrorInit /\ [][MirrorNext]_mirrorVars
FairMirrorSpec == MirrorSpec /\ Fairness

-----------------------------------------------------------------------------
Positions == 0..Len(log)

\* The type invariant: a position kept or held is one Gmail gave.
MirrorTypeOK ==
    /\ held \subseteq Messages /\ doubtful \subseteq Messages
    /\ floor \in Positions /\ failures \in 0..MaxFailures
    /\ source.cursor \in Positions \cup {Nothing}
    /\ source.page \in Positions \cup {Nothing}
    /\ \A w \in Workers :
         /\ sync[w].from \in Positions \cup {Nothing}
         /\ sync[w].upto \in Positions \cup {Nothing}
         /\ sync[w].wanted \subseteq Messages

Mirrored(m) == m \in held <=> place[m] = "inbox"

\* How far the copies have been brought.
Reached == IF source.page = Nothing THEN source.cursor ELSE source.page

\* "Reconcile the whole provider history": between syncs, a message that has not
\* changed since the position reached has a copy exactly when it is in the inbox,
\* whatever failed or died on the way.  Excepted are messages that syncs beside
\* each other, or a page in which a message left and came back, may have mistaken,
\* until a full sync that ran alone has put them right.
CaughtUp ==
    Active = {} /\ source.cursor # Nothing =>
        \A m \in Messages \ doubtful :
            (\A i \in Reached + 1..Len(log) : log[i].message # m) => Mirrored(m)

\* Once the mailbox rests, the copies come to agree with it, with the same
\* exceptions: a sync that died holding the lease is made up for.
EventuallyMirrored == <>[](\A m \in Messages \ doubtful : Mirrored(m))

=============================================================================
