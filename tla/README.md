# Formal models of the VCUBF backend

TLA+ modules that model the parts of this repository in which several requests,
a clock, a stop switch or a crash can meet, TLC configurations that check them
on small instances, and TLAPS proofs of the safety of all of them. Paths below are
relative to the repository; `services/…`, `lib/…`, `modules/…` are under
`backend/src/`.

## 1. The system

VCUBF is a secretary for a trades company: an Express + Prisma + PostgreSQL
backend, a React frontend, a Windows companion for voice, and connectors to
Google and WhatsApp. All lasting state is in PostgreSQL, reached at READ
COMMITTED; the backend keeps almost nothing in memory. Nothing in the code
assumes one process, so every statement of every request can fall between any
two statements of another. That is where the difficulty is.

| Part | State | Operations | What is hard |
|---|---|---|---|
| Reviewed-action engine, `lib/executionEngine.ts` | `voice_pending_actions` | prepare, peek/poll, confirm (claim), cancel, expire, resolve | overlapping preparations, confirmations and cancels; expiry while waiting for a lock; crash between claim and resolution |
| Emergency stop, `lib/safeMode.ts`, `modules/company/routes.ts` | `companies.safe_mode_since` | switch on/off, plain check, gate, check under the row lock | a stop that commits while a write has already looked |
| Idempotency guard, `middleware/idempotency.ts` | `idempotency_records` | claim key, look, replay, free, keep or release | retries, two holders, retention, crash, answers kept that should not be |
| MCP gateway, `modules/mcp/writeTools.ts` | its own keys, one review, the business row | preview, put up, confirm, cancel, direct write | unheard answers, edits between preview and yes, outcome lost after commit |
| MCP sign-in, `modules/mcp/oauth.ts` | clients, grants | register, authorize, exchange, rotate, revoke | replay of a code or refresh token beside its rotation |
| Sign-in, `modules/auth/*`, `middleware/auth.ts` | users (`auth_version`), reset tokens, pairings | log in, change and reset password, pair a device | one-time tickets, rows read before slow hashing and written after it |
| Invoices and quotes, `services/invoiceService.ts`, `quoteService.ts` | documents, lines, payments | correct, change status, pay | lines replaced in parallel, issue beside correction, payment beside void |
| Clients, `services/clientService.ts`, `dataQualityService.ts`, `crmPermanentDeletionService.ts` | clients, linked records, merge records | edit, archive, merge, undo a merge, delete | links made while a client is merged or deleted |
| Leads, `services/leadService.ts` | leads | edit, convert | double conversion, edit beside conversion |
| Jobs, tasks, contacts | rows linked to a client | create, edit | the client they looked at may be gone |
| Communications, `communicationService.ts` | intakes, records | receive, extract, convert, resolve one or many, delete | one decision kept in two tables, conversions and bulk resolutions that overlap |
| Replies, emails and documents, `gmailConnectorService.ts`, `whatsappBusinessConnectorService.ts`, `documentDeliveryService.ts`, `lib/repeatedSend.ts` | notes on the message, audit, delivery records, the quote's status | review, send | the provider takes it and nobody hears, what follows the sending fails, notes read before and written after it |
| Mail sync, `connectorBackgroundSyncService.ts`, sync of `gmailConnectorService.ts` | `connector_sources` (lease, cursor, page token), intakes | sweep, lease, follow the history, list everything | a sync that dies or is overtaken, a cursor that moves too early, history that expired |
| Calendar, `googleCalendarWriteService.ts`, `googleCalendarConnectorService.ts` | copies of events, sync token | create, move, cancel, sync | a repeated yes, edits at Google meanwhile, answers stored out of order |
| Agents, `agents/*` | proposals (rows of the engine), modes | propose, approve | goes through the engine |
| Commands, `modules/command/*`, `lib/commandExecutor.ts` | voice state | parse, resolve, execute | text processing; confirmations go through the engine |
| Adapters, record services, frontend, companion | — | calls, CRUD, pages | nothing that steps can interleave wrongly in |

How they interact: a request passes `requireAuth`, which reads the user and the
stop, chains the idempotency guard and then the stop's gate. The routes call
services. Risky actions are prepared as reviews by the voice, agent, connector
and MCP code and run by the engine's `runWithApprovalBinding` /
`claimReviewedAction` when a later request says yes. MCP calls have keys of
their own and open their transactions with `whileNotInSafeMode`, which every
nested service joins (the ambient transaction of `db.ts`).

What makes each part correct:

- **Engine**: one thing only a yes can mean; run at most once; nothing
  withdrawn, expired or cancelled runs; everybody is told what happened.
- **Guard**: the work of a key is done once per retention; a replay is the
  answer the work gave; what changed nothing can be retried.
- **Gateway**: a change is saved once, as previewed, never under a stop, and no
  answer says something that did not happen.
- **Billing**: an invoice is paid exactly when settled, frozen once issued,
  made of one list of lines, and paid only while it is issued.
- **Client records**: no record loses its client, a merge can be undone, a lead
  becomes one client which stays.
- **Enquiries**: what is in the list is what was decided last; one extraction
  becomes one record.
- **Sending**: what is told as sent has arrived, what was acknowledged is not
  told as failed, a repetition is pointed out before it is sent.
- **Mail**: between syncs the copies agree with the inbox as far as it was read,
  and in the end they agree with it.
- **Calendar**: a yes changes the version it was shown, once; the copy shows
  what the token covers.
- **Access**: a ticket gives access once, and access rests on the password the
  account has now.

## 2. The modules

| Module | Models | Composes |
|---|---|---|
| `ReviewedActions` | the engine for one user | |
| `OneShotApproval` | abstract: offered, taken by one yes or dropped, run once, over | |
| `ReviewedActionsRefinement` | the refinement mapping between the two | both |
| `IdempotencyGuard` | the HTTP guard with the stop's gate behind it, one key | |
| `McpWrites` | the write tools with their keys, the review queue, the stop and one business record | |
| `McpWritesRefinement` | the mapping of that queue to `OneShotApproval` | both |
| `Billing` | one invoice and one quote | |
| `ClientRecords` | clients, linked records, merges, deletions, leads | |
| `Enquiries` | received messages and the records they become | |
| `MailMirror` | a Gmail inbox, its history, the sweeps of the servers, the syncs asked for, the copies | |
| `Outbound` | reviewed replies, emails and a quote's PDF, the provider, what is noted afterwards | |
| `Calendar` | a Google calendar, confirmed writes to it, the copy and its sync | |
| `SignIn` | accounts, sessions, password resets, device pairings, the gateway's OAuth grants | |
| `MC…` | constants and symmetry of each for TLC | |
| `ReviewedActionsProofs`, `IdempotencyGuardProofs`, `BillingProofs`, `ClientRecordsProofs`, `EnquiriesProofs`, `CalendarProofs` | the inductive invariant, its lemmas and the theorems of section 5 | the module each is named after; the first also `ReviewedActionsRefinement` |
| `MailProofs` | the same for sending and for the copies of the inbox | `Outbound`, `MailMirror` |
| `GatewayProofs` | the same for access and for the write tools behind it | `SignIn`, `McpWritesRefinement` |

`MailProofs` and `GatewayProofs` each hold two specifications that share no
variable and no lemma: they lie side by side and nothing is proved about both at
once. That is why `MailMirror` and `McpWrites` name their specifications
`MirrorSpec` and `McpSpec`, with `MirrorInit`, `McpTypeOK` and so on.

### Conventions

A request is a process in a function (`request`, `call`); `step` is the
statement it sends next, so one action is one statement at READ COMMITTED with
the code that runs up to the next one. A transaction's uncommitted effects stay
in the request's record (`held`, `moved`, `candidates`) and reach the table in
the action that commits; a statement that would wait for a lock is disabled.
`Fail` (a failed statement, the transaction's time limit or a dead process)
rolls an open transaction back at any point. A call of a provider is a step of
its own, between two statements: it may be done and heard, done and not heard,
or not done. Payloads, names, texts, audit rows
and permissions are left out; a choice that depends on them is nondeterministic.

### ReviewedActions

| Code | Model |
|---|---|
| `prepareReviewedAction` (lock, sweep, withdraw, create) | `ArrivePrepare`, `TakeLock`, `Supersede`, `Scan`, `Withdraw`, `Create` |
| `claimReviewedAction` | `ArriveClaim`, `CheckSafeMode`, `SeeWaiting`, `TakeLock`, then `FindNothing`, `RefuseUnheard`, `SelectNewest`, `FailTied`, `Claim` or `LoseClaim` |
| its handler and `resolveReviewedAction` | `RejectPayload`, `Execute`, `Complete` |
| `cancelReviewedAction`, `…ById` | `ArriveCancel`, `ArriveCancelById`, `FindWaiting`, `CancelFound` |
| `hasReviewedActionPending`, `peek…` | `ArriveRead`, `ExpireOverdue` |
| `PUT /company/safe-mode` | `SwitchSafeMode` |

`OneShotApproval` is the abstract specification: `Offer`, `Take`, `Drop`, `Run`,
`Finish`. Only the newest offer of a queue can be taken (`since` is refined by
`createdAt`), which is how the comment of `claimReviewedAction` says a yes is
understood; two of the same instant are refused (`FailTied`).

Points a reader may stumble on: `createdAt`'s default is the time of `Create`,
while the clock that decides about expiry in a claim is read after the lock;
`LoseClaim` can tell a yes "raced" although the row was expired by a poll in
between, as in the code; a crash after `Claim` leaves the row `executing` for
good; the stop is read before the transaction, so a stop that commits after
`CheckSafeMode` does not prevent the claim (that is what the code does; tools
that must not save under a stop check once more, see `McpWrites`). The statuses
`sending`, `sent` and `replaced` of single queues are identified with
`executing`, `completed` and `cancelled`.

### IdempotencyGuard

`Arrive` is `requireAuth`; `ClaimKey`, `InsertRefused` and `InsertUnheard` the
insert; `LookMissing`, `LookExpired`, `LookReused`, `LookSeen` what is decided
from the record found; `FreeExpired` its deletion by id and `Retry` the one more
attempt; `GateRefuses`/`GatePasses` the stop's gate; `Work` the route;
`Finish`/`FinishLost` the listener that writes the answer down after the caller
has it. `Tick` assumes that no request is under way as long as the retention,
which is 24 hours.

### McpWrites

`Preview` and `PutUp` are `prepare`, `Withdraw` is `cancel`, `Insert…Store` and
`Release` are `onceOnly`, `Direct…` is `runDirect`, `ClaimReview…ResolveReview`
is `confirm`, and `Service…`/`Commit` the service it calls, with the company's
row `FOR SHARE`: `StopMayCommit` is why a stop has to wait. The service is the status change of an
invoice with an expected revision. A wrong typed name and an invalid input
consume nothing and are left out. In `McpWritesRefinement` a review put up is an
offer, `ClaimReview` takes it and the commit of its change runs it, so that a
confirmation promises the same here as in the engine.

### Billing

The lines of a document stand for the list one request wrote, with its total in
whole pence (the rounding of `lib/money.ts` is not modelled). `Delete` splits
READ COMMITTED's `DELETE` into the scan that sees what is committed and the
removal. Invoice transactions start with `FOR UPDATE` (`RowFree`), quote
transactions do not. `updatedAt` is a counter: two changes never share a
millisecond. An issued invoice with total zero stays issued, as in the code.

### ClientRecords

The nine kinds of linked record are one. `MergeSnapshot`, `MergeRelink` and
`MergeCommit` are the merge's transaction; `LinkRecord`/`LinkWrite` any request
that looks at a client and then writes a row that names it; `DeleteLock`,
`DeleteRecheck`, `DeleteRemove` the permanent deletion, `FOR UPDATE` on the
client; `ConvertLock`, `ConvertMatch`, `ConvertSave` the conversion;
`UpdateLead`/`UpdateLeadWrite` the edit of a lead. Whether a client has the
lead's address is a choice. The emergency stop around the deletion is the one
modelled in `McpWrites`. Leads and merge records name clients without a foreign
key (`schema.prisma`), which is why their integrity is worth checking.

### Enquiries

| Code (`communicationService.ts`) | Model |
|---|---|
| `receiveWebhook`, `importMessageReferences` | `Receive`, with the unique key (`Unseen`) |
| `extractCommunicationIntake` | `Extract` reads the status, `ExtractWrite` writes unconditionally |
| `convertCommunicationIntake` | `Convert` (preview and checks), `ConvertCommit` (the claim and the record) |
| `updateCommunicationIntakeResolution`, `updateCommunicationRecord` | `Resolve`, `UpdateRecord`, each with the other table (`Followers`) |
| `resolveCommunicationIntakes` | `Preview`, `Yes` (candidates read), `Mark` (its first `updateMany`, rows locked), `Close` (its second, and the commit) |
| `deleteGmailIntake` | `Delete` |

The decision about a message lives in `resolutionNeeded` until it is converted
and in `followUpNeeded` of its record afterwards, and the list of what waits
looks at both; the history variable `decided` is what the last caller asked for.
`crossed` marks what a bulk yes gets wrong: a message converted or deleted after the
yes has read it and before its first statement (`Unmarked`), whose record the second
statement misses or, the message gone, closes all the same, and one found resolved by
the first statement and reopened before the second (`LeftOut`), whose record is closed
as well. Every other order of a decision and a yes is judged.

A message is named by its intake: one that was deleted here and is imported again
(its unique key went with the row) is another member of `Messages`.

### MailMirror

`log` is Gmail's history and a history id a position in it. `Tick` makes the
source older than the interval, `Lease` is the conditional update of a sweep,
`AskSync` a sync somebody asks for. `History` … `TakeAway` is a page of
`performIncrementalSync`, `Profile`, `List`, `Prune` the full sync, `Fetch` and
`Create` what both import, `Save` the row of the source at the end. `Fail` is a
failure, which is written down, or the death of the process, which is not; the
lease looks only at the age of the last sync, so both are made up for.
`doubtful` collects what the code can get wrong (two syncs beside each other; a
message that left and came back within a page) until a full sync that ran alone.

### Outbound

`Review` reads the received message and `Ask` looks for the same text among its
notes and the audits (`recentReplyOrAudited`); `Confirm` reads everything again;
`Send` is the provider; `Note`, `Record` and `Audit` are what the code writes
after it, each of which can fail (`WriteFails`) with what the code does then:
an email reply is told as sent whatever fails afterwards, anything else is not.
A quote's status is the one that was read before the mail was sent. The audits
are those of the half hour in which a repetition is looked for.

### Calendar

Google numbers the changes of a calendar: the number is the `etag` and, as a
sync token, what a list covers. `ReviewNew` and `ReviewChange` are the calls
without a yes, `Confirm` the yes, `Insert`/`Fetch` the creation under an id that
was chosen at review, `LiveEvent`/`Write` a move or a cancellation with
`If-Match`, `Stage` and `Remove` the copy's row afterwards. `Sync`, `Expired`
(410), `List`, `Apply` (one event at a time) and `SaveToken` are
`syncGoogleCalendar`. At Google anybody may edit an event, delete it or put a deleted
one back (`Elsewhere`); `ended` remembers which were deleted at some time. `behind`
collects the events whose row no sync will repair: an answer that was not the latest, or
the deletion of an event put back since, was written over a row whose last change a
token, or a sync under way, already covers (`Covered`), or the row was thrown away by a
410 beside another sync. A write of the latest version takes the event out again.

### SignIn

| Code | Model |
|---|---|
| `POST /login` | `LogIn` (row read, password compared), `SignIt` |
| `POST /change-password` | `ChangePassword`, `WritePassword` |
| `POST /request-password-reset`, `/reset-password` | `RequestReset`, `MakeReset`, `MailReset`; `ReadReset`, `Reset` |
| `updateEmployee`, `isActive` | `SetActive` |
| `resetEmployeePassword` | `ResetEmployeePassword`, `WritePassword` |
| `POST /desktop-bootstrap`, `/desktop-login` | `Bootstrap` (the token presented is accepted), `MakeBootstrap` (the version read again), `DesktopLogIn` |
| device pairing: start, approve, token | `StartPairing`; `Approve`, `WriteApproval`; `Collect`, `ClaimPairing`, `SignDevice` |
| `oauth.ts`: authorize | `Consent`, `BindClient`, `IssueCode` |
| `oauth.ts`: token, both grant types | `Exchange`, then `RevokeChain` for a grant used before, or `Consume`, `UserStillMatches`, `IssueTokens` |
| `requireAuth`, `requireMcpAuth`, `verifyDesktopBootstrapToken` | `Accepted` |

A password is the `authVersion` it came with, since every change of it
increments the version in the same statement. A reset token, a pairing, a code
and a refresh token are tickets; `taken` counts how often each was exchanged,
`ended` names the chains a replay has ended while nothing of them was under way;
`unseen` marks a desktop sign-in that missed a change between its two reads.

## 3. What the runs check

| Run | Bounds | States | Shows |
|---|---|---|---|
| `review_oneshot` | 2 requests, 4 reviews of which 2 predate the lock, 2 types, one stand-alone, reviews live 2 ticks, clock 1–2 | 870 k | typing; the engine implements `OneShotApproval`; `OneWaitingPerQueue`, `ExecutedAtMostOnce`, `WithdrawnNeverRuns`, `NotClaimedLate`, `ToldTheTruth`, `LastPreparedStandsAlone`, `LifeLine` |
| `review_progress` | the same, lifetime and clock 1, fairness, no symmetry | 514 k | `EveryRequestEnds` |
| `guard_retry` | 3 requests, 2 bodies, retention 1, clock 1–2, faults | 2.3 M | typing; `WorkedOncePerRetention`, `RetriesAreAnswered` |
| `mcp_writes` | 3 calls, 1 chosen key, 1 review, 2 arguments, 1 edit elsewhere, retention 1, clock 1–2 | 2.5 M | typing; `SavedOnceAsPreviewed`, `ToldTheTruth`, `NoUnsafeStep` |
| `billing` | 3 requests, totals and payments 0–2 | 145 k | typing, with one list of lines per invoice; `PaidWhenSettled`, `IssuedForGood`, `ChangedAsShown` |
| `records` | 3 requests, 2 clients and 2 to come, 2 records, 1 lead | 221 k | typing; `NoneNeededIsDeleted`, `ConvertedOnce`, `DeletionIsAsPreviewed` |
| `enquiries` | 2 messages, 4 requests | 53 k | typing; `ListedAsDecided`, `OnePerExtraction` |
| `mail_mirror` | 1 message, 1 server, 1 caller, 3 changes of the mailbox, 1 failure or death, fairness | 808 k | typing; `CaughtUp`, `EventuallyMirrored` |
| `outbound` | 2 answers to one email, a WhatsApp answer, an email, a quote, 3 requests, 2 failed writes | 786 k | typing; `ToldAsHeard`, `RepeatIsSaid` |
| `calendar` | 1 event and 1 to come, 3 requests, 3 changes | 1.9 M | typing; `OnceAndAsReviewed`, `CopyKeepsUp` |
| `sign_in` | 2 users, 4 requests, 1 reset, 1 pairing, 3 grants, 3 passwords | 363 k | typing; `TakenOnce`, `RestsOnThePassword` |
| `billing_quotes` | 2 requests, totals 1–2 | — | violated: `QuoteIsOneList` |

Several of these are conjunctions of two named parts, which the modules define
and comment one by one: `ToldTheTruth` is `CancelToldTruth` and `YesToldTruth` in
the engine, `AnswerMatchesWhatWasSaved` and `AnswerMatchesReview` in the gateway;
`RetriesAreAnswered` is `ReplayIsTheFirstAnswer` and `RetryAfterRefusalIsFree`;
`SavedOnceAsPreviewed` is `SavedOnce` and `AppliedAsPreviewed`; `NoUnsafeStep`
is `NothingSavedInSafeMode` and `OutcomesAreKept`; `IssuedForGood` is
`IssuedIsFrozen`, `InvoiceLifeLine` and `PaidOnlyWhileIssued`; `NoneNeededIsDeleted` is
`MergesStayUndoable` and `ConvertedClientExists`; `DeletionIsAsPreviewed` is
`DeletedAsPreviewed` and `NothingUnlinked`; `TakenOnce` is `AccessOncePerTicket`
and `OneUsableGrantPerCode`; `OnceAndAsReviewed` is `MadeOnceAsReviewed` and
`ToldAsItWas`.

Why these bounds are enough to mean something: each hazard listed in
`PROJECT.json` needs two or three actors (the one that looked, the one that came
between, the one that believes the result), one value to be confused with
another, and one tick past a deadline. The instances have these, and every
property is shown to fail in its run when a definition is replaced by a
plausible bug (`mutants`).

Bounds in the models: `Requests`, `Calls` and `Reviews` bound how many requests
and rows there are; `MaxTime` the clock; `MaxRevision` edits made elsewhere; `MaxChanges` what happens
at Google; `MaxVersion` changes of a password; `MaxFaults` and
`MaxFailures` failures; a request makes one call. Since all of them are used up in the end, runs stop,
and deadlock is not checked (`CHECK_DEADLOCK FALSE`): that a request cannot be
stuck for ever is what `EveryRequestEnds` says.

Symmetry is only over requests, over ids not told apart by the initial state
and over equal data, and never in a run that checks liveness.

Fairness. In `review_progress`: `WF(Step(p))`, because a statement that need not
wait is executed and its continuation scheduled; and `WF(DeadlockVictim(p))`,
because PostgreSQL breaks every ring of waits. In `mail_mirror`: `WF` of `Tick`,
because time passes; of `Lease(w)`, because `startConnectorBackgroundSync` sets a
timer in every process and each sweep leases whatever is due; and of `SyncStep(w)`,
because a sync that does not fail goes on. So `EventuallyMirrored` is about a
connector that is enabled, in a company that has a manager and is not stopped,
with a provider that answers in the end; failures are bounded and the mailbox comes
to rest because its changes are. No fairness is assumed of arrivals, of
failures, of the switch or of syncs that somebody asks for.

## 4. Where the code and its comments part

One is a run. Two overlapping corrections of a quote leave both lists of items
(`quoteService.ts:305`, `billing_quotes`, `QuoteIsOneList`); the invoice's code
locks its row for exactly this reason (`invoiceService.ts:82`).

Seven more are stated at the end of their modules, each with a configuration of its own
under which TLC finds it violated within seconds:

| Definition | Configuration | What happens | The comment |
|---|---|---|---|
| `ReviewedActions!NeverSideBySide` | `ReviewedActions_standalone.cfg` | preparations of a stand-alone review and of another one take different advisory locks (`executionEngine.ts:227`); overlapping, they leave both waiting | line 232: "A stand-alone review and any other one never wait side by side" |
| `IdempotencyGuard!AtMostOncePerKey` | `IdempotencyGuard_keyless.cfg` | after two attempts that each meet the key and then find its record gone, the request runs without the key (`idempotency.ts:116`) beside its next holder | line 11: "guarantees that the key performs its work at most once" |
| `ClientRecords!MergeMovesEverything` | `ClientRecords_merge.cfg` | a record linked after the merge's snapshot (`dataQualityService.ts:380`) stays with the archived client | line 231: "all supported client-linked operational records move to the primary client in the same transaction" |
| `ClientRecords!ConvertedForGood` | `ClientRecords_reopened.cfg` | an edit of a lead that looked before the conversion reopens it (`leadService.ts:171`) | line 152: "would orphan that client, so it is refused outright" |
| `Enquiries!ConvertedOnce` | `Enquiries_twice.cfg` | an extraction that looked before the conversion puts the message back to extracted (`communicationService.ts:700`), and it is converted again | line 857: "cannot both create a client and communication record for the same original message" |
| `Enquiries!FollowUpsClosedWithThem` | `Enquiries_bulk.cfg` | the records to close are collected before the transaction (`communicationService.ts:1063`); the follow-up of a message converted since stays open though the message is resolved | line 1008: "Linked Communication Log follow-ups are closed with them, as for a single message" |
| `SignIn!ChangedPasswordRevokes` | `SignIn_desktop.cfg` | the desktop's sign-in reads the version a second time (`modules/auth/routes.ts:206`); a password changed since the check leaves it signed in | `docs/USER_GUIDE.md:13`: "Changing the password invalidates previously issued sign-in tokens" |

The hazards in `PROJECT.json` at these lines name no property of a passing run: what holds
beside them (`LastPreparedStandsAlone`, `WorkedOncePerRetention`, `OnePerExtraction`,
`ListedAsDecided`, `RestsOnThePassword`) would not catch them.

What the models also reach, and the properties therefore except or do not say:

- the engine reads the stop before its transaction, so a stop that commits after
  the read does not keep the claim from running;
- a merge that moved nothing can name a client that is deleted at that moment,
  and a merge can be undone twice;
- a WhatsApp reply, a new email or a document that was acknowledged is told as
  failed when the write after it fails; for email replies the code prevents this
  (`gmailConnectorService.ts:1368`);
- the notes on a received message are written back from a copy read before the
  sending, so one of two replies loses its note; if its audit failed too, a
  repetition of it is not noticed;
- a quote accepted while its mail was being sent is put back to sent
  (`documentDeliveryService.ts:186`);
- a message that a bulk yes found resolved and that is reopened before the second
  statement of its transaction waits, with a record that is closed;
- an issued invoice that is partly paid can be voided; its payments stay with it;
- a message that leaves the inbox and comes back within one page of the history
  has no copy until a full sync, and neither do the messages two overlapping
  syncs get wrong between them;
- an older answer of Google can be written over a newer row of the calendar's copy, a
  cancellation over the row of an event put back since, and of two syncs beside each
  other, one of which finds its token expired, one can save a token that covers rows the
  other has deleted;
- a move that is repeated after its answer was lost is told that the event has
  changed and nothing was done, although its first yes changed it;
- a change of a password that was checked before a reset is written after it;
- a replayed code or refresh token ends its chain, except for the grant an
  exchange is just about to create (`oauth.ts:479`).

## 5. What is proved

Every theorem is about its module's specification, for any sets of requests, rows
and ids and any bounds, from that module's named assumptions alone. The assumptions
say that markers such as `None` or `Nothing` are not ids or rows, that disjoint kinds
of ids are disjoint, that bounds are positive and, where requests are counted
(`Billing`, `ClientRecords`, `McpWrites`), that there are finitely many; TLC evaluates
each of them in the runs. All safety invariants and action properties that the passing
runs check are theorems, with the exceptions that their definitions state: the theorem
`HoldersWorkOnce` is about requests that claimed the key, `WaitingIsWhatWasDecided` about
messages with at most one record and not in `crossed`, `AcceptedRestsOnThePassword` about
tokens that rest on a password and did not miss a change of it between two reads
(`unseen`). Section 4 says what becomes of the sentences without these exceptions.

| Module | Theorem | States |
|---|---|---|
| `ReviewedActionsProofs` | `TypeCorrect`, `OneThingAYesCanMean`, `OneExecution`, `WithdrawnStaysUnrun`, `RowsFollowLifeLine` | `TypeOK`, `OneWaitingPerQueue`, `ExecutedAtMostOnce`, `WithdrawnNeverRuns`, `LifeLine` |
| | `NothingLateIsClaimed`, `AnswersAreTrue`, `TheLastOneStandsAlone` | `NotClaimedLate`, `ToldTheTruth`, `LastPreparedStandsAlone` |
| | `EngineIsOneShotApproval` | `ImplementsOneShotApproval`: every behaviour of the engine is one of `OneShotApproval` |
| `IdempotencyGuardProofs` | `GuardTypeCorrect`, `HoldersWorkOnce`, `RetriesHearTheFirstAnswer` | `TypeOK`, `WorkedOncePerRetention`, `RetriesAreAnswered` |
| `BillingProofs` | `InvoiceIsOneListAlways`, `PaidExactlyWhenSettled`, `IssuedStaysAsItIs`, `ChangedToWhatWasShown` | `TypeOK`, `PaidWhenSettled`, `IssuedForGood`, `ChangedAsShown` |
| `ClientRecordsProofs` | `RecordsTypeCorrect`, `NeededClientsStay`, `ALeadIsConvertedOnce`, `DeletionsKeepTheirPreview` | `TypeOK`, `NoneNeededIsDeleted`, `ConvertedOnce`, `DeletionIsAsPreviewed` |
| `EnquiriesProofs` | `EnquiryTypeCorrect`, `ConversionsUseExtractions`, `WaitingIsWhatWasDecided` | `TypeOK`, `OnePerExtraction`, `ListedAsDecided` |
| `MailProofs` | `LettersHaveLeft`, `SentIsSent`, `RepeatsAreSaid` | of `Outbound`: `TypeOK`, `ToldAsHeard`, `RepeatIsSaid` |
| | `MirrorTypesHold`, `AlwaysCaughtUp`, `AlwaysBroughtUp` | of `MailMirror`: `MirrorTypeOK`, `CaughtUp`, and `BroughtUp`, which says the same in the middle of a sync |
| `CalendarProofs` | `CopyTypeCorrect`, `AYesIsOneChange`, `TheCopyKeepsUp` | `TypeOK`, `OnceAndAsReviewed`, `CopyKeepsUp` |
| `GatewayProofs` | `AccessTypeCorrect`, `TicketsWorkOnce`, `AcceptedRestsOnThePassword` | of `SignIn`: `TypeOK`, `TakenOnce`, `RestsOnThePassword` |
| | `McpTypesHold`, `SavedOnceHolds`, `TruthIsTold`, `NoStepIsUnsafe` | of `McpWrites`: `McpTypeOK`, `SavedOnceAsPreviewed`, `ToldTheTruth`, `NoUnsafeStep` |
| | `ConfirmationsAreApprovals` | `ConfirmationsAreOneShot`: every behaviour of the write tools is one of `OneShotApproval` |

None of the properties is inductive. Each proof begins with an invariant that is
(`Inv`, `McpInv`, `MirrorInv`); what it adds is what the code relies on without saying so. All of
them were first checked by TLC on the instances of section 3. Their shape is the
same: `Init => Inv`, one lemma per action (or per group of actions with the same
frame) for `Inv /\ [Next]_vars => Inv'`, and a theorem per property by temporal
reasoning.

**Engine.** `LockExclusive`: two requests are never both past the advisory lock
of one queue. `RowLocks`: a row some transaction has changed is pending, and only
that transaction has it. `Swept`: past its sweep, a preparation holds every row of
its queue that is still pending, so when its own row is created nothing else is
left. `Selected`, `Claimed`: what a claim is about to take is a row of its queue,
and a request that executes or resolves a review is the only one to do so.
`BlockedBy` gives that a statement only touches rows nobody else holds
(`UnblockedRows`), so a commit changes exactly the rows its transaction swept
(`CommittedRows`). What the requests are told needs a second layer on top, and
the refinement a third: every action is mapped to `Offer`, `Take`, `Drop`, `Run`,
`Finish` or a stutter of `OneShotApproval`.

**Guard.** The row is that of the request that inserted it (`RowOfItsRequest`),
who holds the key keeps its row (`HolderKeepsRow`), a success stays for the whole
retention (`SuccessRemembered`), and what is about to be deleted had run out when
it was looked at (`FreesTheExpired`); ids are never reused, so a deletion by id
cannot hit the next holder's row.

**Gateway writes.** While a call holds its key, the key's row is its own and in
progress (`KeepsItsRow`), and a review it goes on with is the one it claimed
(`ReviewIsClaimed`). `SaveStands` says what follows from a saved change: the row it
was saved under stays until its answer has expired (`RowStands`), its caller goes on
to an answer that can only be the true one (`SaverGoesOn`), and it was made to what
was previewed (`AsReviewed`). That only one call is between its last check and its
commit (`OneCommits`) comes from the lock on the business row; that a stop cannot
commit beside it comes from the lock on the company's row. `RowTells` ties an answer
that is replayed to what its own caller was told. The refinement adds
`OneReviewWaits`: a preview withdraws what waited before it puts up its own.

**Billing.** Under the row lock the invoice has one holder (`OneHolder`) who sees
it as it is; `Kept` is the one list of lines, `OneRevisionEach` counts revisions by
the requests that saved, and `PaymentsSaved` ties payments to their requests. That
a sum does not depend on the order (the lemma `TotalAny`) needs induction over finite sets,
which the library's theorems do not offer to these provers; it is proved from a
smallest counterexample (`FS_` facts about cardinality instead).

**Client records.** Row locks exclude each other (`Apart`); what is held is there,
a client at `remove` has nothing that depends on it and the revision it was shown,
and a lead that is being converted is not converted yet (`HoldsWell`). Two lemmas
carry all steps: `RequestTurn`, for those that write to their own request only, and
`SavedTurn`, which says what the tables left by a saving step owe to the requests
that still hold rows. `ConvertedStands` (a converted lead is so still, or was
edited) gives `ConvertedOnce`.

**Enquiries.** An extraction is there for the next conversion or was used
(`Extracted`); message and record say what was decided (`Agrees`); a bulk yes writes
what was decided or decides it (`BulkSees`), except for the messages in `crossed`: one it
has read is there with its records until it is marked, and one it left alone when it
marked the others (`LeftAlone`) was decided to be closed.

**Sending.** Steps follow in order (`InOrder`), an acknowledged reply is noted
unless its note is lost (`Traced`), and what was told before a review has left a
trace in the notes or audits it will look at (`SeenBefore`).

**Mirror.** `HistoryTells`: the last entry of the history about a message says
whether it is in the inbox, and it arrives only once. The invariant keeps that such a
last entry exists, so that no induction over the history is needed. A sync that runs
alone has seen everything up to the position it will save: the full one lists the
inbox after it has read the position (`ListsAll`), the incremental one has its page
still before it or applied (`Follows`), and what it is about to create is new
(`CreatesTheNew`). A sync that does not run alone has its messages in `doubtful`
(`AloneOrInDoubt`). `BroughtUp` is `CaughtUp` without the words "between syncs":
only in this form is it inductive.

**Calendar.** What a request has seen was so at Google (`HasSeen`), the events a
token covers are shown (`CoveredIsShown`), and a sync that has asked will show the
latest version unless a later one exists (`WillShow`); a change falls on the version
reviewed, which is then past (`Made`); what a cancellation is told as gone has been
deleted at Google, though it may be back (`ended`).

**Sign-in.** A ticket's status tells whether it was exchanged (`StatusTells`); a
code lives on in one place, a usable grant or an exchange under way
(`OnePlacePerCode`), and one that a replay has ended lives on nowhere (`EndedIsOver`).

The proofs changed the models where these were wrong for instances TLC had not
been given: guards of two `CASE` expressions overlapped, so that TLA+ leaves open
which arm is meant (`Find` in `Calendar`, `LookSeen` in `McpWrites`; now in the
order in which the code asks); `Calendar`'s history variable forgot a sync that had
begun before another (with five requests the property failed); the number of
requests was not said to be finite where it is counted; and nothing said that the
mark of a missing key is not itself a record (`NothingAssumption`).

## 6. Only model-checked, and not modelled

Only checked by TLC: liveness (`EveryRequestEnds`, `EventuallyMirrored`), which needs
fairness and ENABLED and is out of the prover's reach; and what is refuted,
`QuoteIsOneList` and the seven other definitions of section 4. Conversely,
`ConfirmationsAreOneShot`, `BroughtUp` and the inductive invariants are theorems that no run lists; TLC was used on them while they were found
(the refinement with two calls and two reviews, `MirrorInv` also with two messages and
with five changes).

Not modelled:

- the frontend and the generated translations: they keep nothing the server
  trusts. The Windows companion: audio and timers on one event loop;
- parsing, grammars and the voice commands' texts: what they confirm goes
  through the engine. The devices' control is one field, written last by whoever
  comes last;
- agents and proposals: a proposal is a review of the engine; what is left is the
  towers' modes and, for website proposals, one conditional update;
- the sync of Google contacts, which has a cursor but neither leases nor pages
  of history, and the approval of an unknown WhatsApp sender, one transaction
  that locks the sender and compares the revision that was shown; the contact or
  client it finds is looked at without a lock, as `LinkRecord` does;
- the other tools of the gateway and its drafts, which are put up and confirmed
  the way the one in `McpWrites` is; registration of clients, PKCE and scopes;
- roles: that two administrators may deactivate each other
  (`employeeService.ts:301`) is a race of one check and one update;
- the first setup, made once and kept single by the key of one row, and the PC's
  key, which is one read and one signature;
- prices, costs, rounding, metrics, formatting, PDF, validation and audit texts;
- services that validate, write one row and list it.

Each component and its status is in `PROJECT.json`.

## 7. Plan

Done: the engine with its refinement and first proofs, the guard, the gateway,
billing, client records; then enquiries, the mail sync, sending, the calendar and
access.

The safety of all ten modules is proved, and both queues of reviews, the engine's and
the gateway's, implement `OneShotApproval`. Open, in the order of what they would say:

1. the hazards in `PROJECT.json` that no property covers. Where section 4
   names them, code and comment disagree; they become properties once the code is changed
   or the comment says what is meant. The roles of administrators and the dictated
   numbers of the companion would need modules of their own;
2. the liveness of the other modules: a call of the gateway that dies leaves its key in
   progress for good, so that such a property has to speak of calls and not of keys;
3. the sync of Google contacts and the drafts of the gateway, which follow `MailMirror`
   and `McpWrites` closely enough to be found there first.

## 8. Running

In this directory: `tlc -workers 2 -config Billing.cfg MCBilling.tla`
(and so on for the runs in `PROJECT.json` and the configurations of section 4),
`tlapm ReviewedActionsProofs.tla` (and so on for the modules `…Proofs`).
