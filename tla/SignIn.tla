-------------------------------- MODULE SignIn --------------------------------
(***************************************************************************)
(* How a person, a paired PC and a connected AI client get and keep their  *)
(* access: modules/auth/routes.ts, modules/auth/devicePairing.ts,          *)
(* middleware/auth.ts and the grants of modules/mcp/oauth.ts (backend/src).*)
(*                                                                         *)
(* A step is one statement; bcrypt runs between two of them.  A password   *)
(* is the version of the account it came with, since every change of it    *)
(* increments authVersion in the same statement.  Each user is of a        *)
(* company of its own, and one AI client is registered.  A ticket that has *)
(* expired is refused; it is refused, or not, without a clock.             *)
(***************************************************************************)
EXTENDS Naturals, FiniteSets

CONSTANTS
    Users,                      \* each signed in at the start
    Requests,                   \* requests; bounds how many are made
    Resets, Pairings, Grants,   \* the one-time tickets; bound how many are made
    None,                       \* no user, no ticket
    MaxVersion                  \* bounds the changes of a password

Tickets == Resets \cup Pairings \cup Grants

ASSUME SignInAssumption ==
    /\ None \notin Users \cup Tickets
    /\ Resets \cap Pairings = {} /\ Resets \cap Grants = {} /\ Pairings \cap Grants = {}
    /\ MaxVersion \in Nat \ {0}

VARIABLES
    account,    \* isActive and authVersion of each user
    reset,      \* the password reset tokens
    pairing,    \* the device pairings
    grant,      \* the gateway's codes and refresh tokens, and the code each stems from
    binding,    \* the company the AI client is bound to
    sessions,   \* the access tokens signed, with the password that was checked for each, and
                \* whether a change of it went unseen on the way to the desktop's
    request,    \* what each request is doing
    taken,      \* history: how often each ticket was exchanged
    ended       \* history: the codes whose every descendant a replay has ended

vars == <<account, reset, pairing, grant, binding, sessions, request, taken, ended>>
history == <<taken, ended>>

Idle == [step |-> "idle", user |-> None, version |-> 0, on |-> None]

At(p, step)   == request[p].step = step
Becomes(p, r) == request' = [request EXCEPT ![p] = r]
Goto(p, step) == Becomes(p, [request[p] EXCEPT !.step = step])
Done(p)       == Becomes(p, [Idle EXCEPT !.step = "done"])
Begin(p, step, user, on) ==
    /\ At(p, "idle")
    /\ Becomes(p, [step |-> step, user |-> user, on |-> on,
                   version |-> IF user \in Users THEN account[user].version ELSE 0])
Taken(t)      == taken' = [taken EXCEPT ![t] = @ + 1]
Token(user, version, proof, unseen) ==
    [user |-> user, version |-> version, proof |-> proof, unseen |-> unseen]
Sign(user, version, proof) == sessions' = sessions \cup {Token(user, version, proof, FALSE)}

\* requireAuth, requireMcpAuth, verifyDesktopBootstrapToken: the account is active
\* and its version the token's.  (Which routes a token opens is left out.)
Accepted(s) == account[s.user].active /\ account[s.user].version = s.version
SignedIn(user) == \E s \in sessions : s.user = user /\ Accepted(s)

-----------------------------------------------------------------------------
(* The password                                                              *)

\* POST /login: the row is read and the password compared; then the token is signed
\* for the version that was read.
LogIn(p, u) ==
    /\ account[u].active
    /\ Begin(p, "sign", u, None)
    /\ UNCHANGED <<account, reset, pairing, grant, binding, sessions, history>>

SignIt(p) ==
    /\ At(p, "sign")
    /\ Sign(request[p].user, request[p].version, request[p].version)
    /\ Done(p)
    /\ UNCHANGED <<account, reset, pairing, grant, binding, history>>

\* POST /change-password: the current password is compared with the row just read,
\* and the new one is written whatever the row has become.
ChangePassword(p, u) ==
    /\ SignedIn(u)
    /\ Begin(p, "change", u, None)
    /\ UNCHANGED <<account, reset, pairing, grant, binding, sessions, history>>

NewPassword(u) == account' = [account EXCEPT ![u].version = @ + 1]

WritePassword(p) ==
    /\ At(p, "change")
    /\ account[request[p].user].version < MaxVersion
    /\ NewPassword(request[p].user)
    /\ Done(p)
    /\ UNCHANGED <<reset, pairing, grant, binding, sessions, history>>

\* resetEmployeePassword, by somebody who manages accounts: the row is read, the
\* temporary password hashed, and written like a changed one.
ResetEmployeePassword(p, u) ==
    /\ account[u].active
    /\ Begin(p, "change", u, None)
    /\ UNCHANGED <<account, reset, pairing, grant, binding, sessions, history>>

\* POST /request-password-reset: earlier tokens go, a new one is made and mailed; it
\* goes too when it cannot be mailed.
RequestReset(p, u) ==
    /\ account[u].active
    /\ reset' = [t \in Resets |-> IF reset[t].user = u THEN [reset[t] EXCEPT !.status = "gone"] ELSE reset[t]]
    /\ Begin(p, "make", u, None)
    /\ UNCHANGED <<account, pairing, grant, binding, sessions, history>>

MakeReset(p) ==
    /\ At(p, "make")
    /\ \E t \in Resets :
         /\ reset[t].status = "none"
         /\ reset' = [reset EXCEPT ![t] = [status |-> "open", user |-> request[p].user]]
         /\ Becomes(p, [request[p] EXCEPT !.step = "mail", !.on = t])
    /\ UNCHANGED <<account, pairing, grant, binding, sessions, history>>

MailReset(p) ==
    /\ At(p, "mail")
    /\ \/ UNCHANGED reset
       \/ reset' = [reset EXCEPT ![request[p].on].status = "gone"]
    /\ Done(p)
    /\ UNCHANGED <<account, pairing, grant, binding, sessions, history>>

\* POST /reset-password: the token is read, and its expiry judged here only.
ReadReset(p, t) ==
    /\ reset[t].status = "open"
    /\ account[reset[t].user].active
    /\ Begin(p, "reset", reset[t].user, t)
    /\ UNCHANGED <<account, reset, pairing, grant, binding, sessions, history>>

\* updateMany where usedAt is null.
Unused(t) == reset[t].status = "open"

\* The claim, the new password and the end of the other tokens, in one transaction.
Reset(p) ==
    LET t == request[p].on  u == request[p].user IN
    /\ At(p, "reset")
    /\ IF Unused(t)
       THEN /\ account[u].version < MaxVersion
            /\ reset' = [r \in Resets |-> IF r = t \/ (reset[r].user = u /\ reset[r].status = "open")
                                          THEN [reset[r] EXCEPT !.status = "used"] ELSE reset[r]]
            /\ NewPassword(u)
            /\ Taken(t)
       ELSE UNCHANGED <<reset, account, taken>>
    /\ Done(p)
    /\ UNCHANGED <<pairing, grant, binding, sessions, ended>>

\* updateEmployee, by somebody who manages accounts.
SetActive(u, active) ==
    /\ account' = [account EXCEPT ![u].active = active]
    /\ account' # account
    /\ UNCHANGED <<reset, pairing, grant, binding, sessions, request, history>>

-----------------------------------------------------------------------------
(* A paired PC                                                               *)

StartPairing(d) ==
    /\ pairing[d].status = "none"
    /\ pairing' = [pairing EXCEPT ![d].status = "pending"]
    /\ UNCHANGED <<account, reset, grant, binding, sessions, request, history>>

\* POST /approve: the status is read, and then the row is written with no condition.
Approve(p, d, u) ==
    /\ SignedIn(u)
    /\ pairing[d].status = "pending"
    /\ Begin(p, "approve", u, d)
    /\ UNCHANGED <<account, reset, pairing, grant, binding, sessions, history>>

WriteApproval(p) ==
    /\ At(p, "approve")
    /\ pairing' = [pairing EXCEPT ![request[p].on].status = "approved",
                                  ![request[p].on].user = request[p].user]
    /\ Done(p)
    /\ UNCHANGED <<account, reset, grant, binding, sessions, history>>

\* POST /token: the PC asks with its secret until the pairing is approved.
Collect(p, d) ==
    /\ pairing[d].status = "approved"
    /\ Begin(p, "claim", pairing[d].user, d)
    /\ UNCHANGED <<account, reset, pairing, grant, binding, sessions, history>>

\* An approved pairing is believed not to have been consumed.
Collectable_approved(d) == pairing[d].status = "approved"
\* updateMany where the status is approved and consumedAt is null.
Collectable(d) == pairing[d].status = "approved" /\ ~pairing[d].consumed

ClaimPairing(p) ==
    LET d == request[p].on IN
    /\ At(p, "claim")
    /\ IF Collectable(d)
       THEN /\ pairing' = [pairing EXCEPT ![d].status = "consumed", ![d].consumed = TRUE]
            /\ Taken(d)
            /\ Goto(p, "device")
       ELSE Done(p) /\ UNCHANGED <<pairing, taken>>
    /\ UNCHANGED <<account, reset, grant, binding, sessions, ended>>

\* The user is read as it is now, active or not; no password was asked for (proof 0).
SignDevice(p) ==
    LET u == request[p].user IN
    /\ At(p, "device")
    /\ Sign(u, account[u].version, 0)
    /\ Done(p)
    /\ UNCHANGED <<account, reset, pairing, grant, binding, history>>

\* POST /desktop-bootstrap: the PC's launcher presents a token that is accepted ...
Bootstrap(p, s) ==
    /\ Accepted(s)
    /\ Begin(p, "bootstrap", s.user, s)
    /\ UNCHANGED <<account, reset, pairing, grant, binding, sessions, history>>

\* ... the account's version is read again, and the browser gets a token of that.
MakeBootstrap(p) ==
    /\ At(p, "bootstrap")
    /\ Becomes(p, [request[p] EXCEPT !.step = "desktop", !.version = account[request[p].user].version])
    /\ UNCHANGED <<account, reset, pairing, grant, binding, sessions, history>>

\* POST /desktop-login, with the browser's token (verifyDesktopBootstrapToken).
DesktopLogIn(p) ==
    LET s == request[p].on
        t == Token(s.user, request[p].version, s.proof, s.unseen \/ request[p].version # s.version) IN
    /\ At(p, "desktop")
    /\ sessions' = IF Accepted(t) THEN sessions \cup {t} ELSE sessions
    /\ Done(p)
    /\ UNCHANGED <<account, reset, pairing, grant, binding, history>>

-----------------------------------------------------------------------------
(* A connected AI client                                                     *)

\* POST /oauth/authorize: the person signs in on the consent page.
Consent(p, u) ==
    /\ account[u].active
    /\ Begin(p, "bind", u, None)
    /\ UNCHANGED <<account, reset, pairing, grant, binding, sessions, history>>

\* The client is bound to whoever approves last.
Bindable_any(u) == TRUE
\* updateMany where companyId is null or the person's own: the first approval binds.
Bindable(u) == binding \in {None, u}

BindClient(p) ==
    LET u == request[p].user IN
    /\ At(p, "bind")
    /\ IF Bindable(u) THEN binding' = u /\ Goto(p, "code")
                      ELSE UNCHANGED binding /\ Done(p)
    /\ UNCHANGED <<account, reset, pairing, grant, sessions, history>>

Create(g, u, version, code) ==
    /\ ~grant[g].exists
    /\ grant' = [grant EXCEPT ![g] = [exists |-> TRUE, user |-> u, version |-> version,
                                      code |-> code, used |-> FALSE, revoked |-> FALSE]]

IssueCode(p) ==
    /\ At(p, "code")
    /\ \E g \in Grants : Create(g, request[p].user, request[p].version, g)
    /\ Done(p)
    /\ UNCHANGED <<account, reset, pairing, binding, sessions, history>>

\* POST /oauth/token, with a code or a refresh token: one that was used before ends
\* every grant of its client and user.
Exchange(p, g) ==
    /\ grant[g].exists
    /\ Begin(p, IF grant[g].used THEN "revoke" ELSE "consume", grant[g].user, g)
    /\ UNCHANGED <<account, reset, pairing, grant, binding, sessions, history>>

\* The exchanges between the use of a grant and the creation of the next one.
Underway(code) ==
    {q \in Requests : request[q].step \in {"match", "issue"} /\ grant[request[q].on].code = code}

RevokeChain(p) ==
    LET chain == {g \in Grants : grant[g].exists /\ grant[g].user = request[p].user} IN
    /\ At(p, "revoke")
    /\ grant' = [g \in Grants |-> IF g \in chain THEN [grant[g] EXCEPT !.revoked = TRUE] ELSE grant[g]]
    /\ ended' = ended \cup {code \in {grant[g].code : g \in chain} : Underway(code) = {}}
    /\ Done(p)
    /\ UNCHANGED <<account, reset, pairing, binding, sessions, taken>>

\* "Exactly once, and only while it is still valid": or it has expired.
Consumable(g) == ~grant[g].used /\ ~grant[g].revoked

Consume(p) ==
    LET g == request[p].on IN
    /\ At(p, "consume")
    /\ \/ /\ Consumable(g)
          /\ grant' = [grant EXCEPT ![g].used = TRUE]
          /\ Taken(g)
          /\ Goto(p, "match")
       \/ Done(p) /\ UNCHANGED <<grant, taken>>
    /\ UNCHANGED <<account, reset, pairing, binding, sessions, ended>>

UserStillMatches(p) ==
    LET g == request[p].on IN
    /\ At(p, "match")
    /\ IF Accepted(grant[g]) THEN Goto(p, "issue") ELSE Done(p)
    /\ UNCHANGED <<account, reset, pairing, grant, binding, sessions, history>>

\* Tokens are signed for the account as it is.
IssuedVersion_now(g) == account[grant[g].user].version
\* Tokens are signed for the account as it was when the connection was approved.
IssuedVersion(g) == grant[g].version

\* The next refresh token, of the version the grant carries, and the access token.
IssueTokens(p) ==
    LET g == request[p].on IN
    /\ At(p, "issue")
    /\ \E next \in Grants : Create(next, grant[g].user, IssuedVersion(g), grant[g].code)
    /\ Sign(grant[g].user, IssuedVersion(g), grant[grant[g].code].version)
    /\ Done(p)
    /\ UNCHANGED <<account, reset, pairing, binding, history>>

\* The server dies, or a statement fails: nothing is undone.
Fail(p) ==
    /\ request[p].step \notin {"idle", "done"}
    /\ Done(p)
    /\ UNCHANGED <<account, reset, pairing, grant, binding, sessions, history>>

-----------------------------------------------------------------------------
Init ==
    /\ account = [u \in Users |-> [active |-> TRUE, version |-> 1]]
    /\ reset = [t \in Resets |-> [status |-> "none", user |-> None]]
    /\ pairing = [d \in Pairings |-> [status |-> "none", user |-> None, consumed |-> FALSE]]
    /\ grant = [g \in Grants |-> [exists |-> FALSE, user |-> None, version |-> 0, code |-> None,
                                  used |-> FALSE, revoked |-> FALSE]]
    /\ binding = None
    /\ sessions = {Token(u, 1, 1, FALSE) : u \in Users}
    /\ request = [p \in Requests |-> Idle]
    /\ taken = [t \in Tickets |-> 0]
    /\ ended = {}

Arrival(p) ==
    \/ \E u \in Users : \/ LogIn(p, u) \/ ChangePassword(p, u) \/ ResetEmployeePassword(p, u)
                        \/ RequestReset(p, u) \/ Consent(p, u)
                        \/ \E d \in Pairings : Approve(p, d, u)
    \/ \E t \in Resets : ReadReset(p, t)
    \/ \E d \in Pairings : Collect(p, d)
    \/ \E g \in Grants : Exchange(p, g)
    \/ \E s \in sessions : Bootstrap(p, s)

Step(p) ==
    \/ SignIt(p) \/ WritePassword(p) \/ MakeReset(p) \/ MailReset(p) \/ Reset(p)
    \/ WriteApproval(p) \/ ClaimPairing(p) \/ SignDevice(p)
    \/ MakeBootstrap(p) \/ DesktopLogIn(p)
    \/ BindClient(p) \/ IssueCode(p) \/ RevokeChain(p)
    \/ Consume(p) \/ UserStillMatches(p) \/ IssueTokens(p)

Next ==
    \/ \E p \in Requests : Arrival(p) \/ Step(p) \/ Fail(p)
    \/ \E u \in Users, active \in BOOLEAN : SetActive(u, active)
    \/ \E d \in Pairings : StartPairing(d)

Spec == Init /\ [][Next]_vars

-----------------------------------------------------------------------------
Versions == 1..MaxVersion
Account  == [active : BOOLEAN, version : Versions]
ResetRow == [status : {"none", "open", "used", "gone"}, user : Users \cup {None}]
Pairing  == [status : {"none", "pending", "approved", "consumed"}, user : Users \cup {None},
             consumed : BOOLEAN]
Grant    == [exists : BOOLEAN, user : Users \cup {None}, version : Versions \cup {0},
             code : Grants \cup {None}, used : BOOLEAN, revoked : BOOLEAN]
Session  == [user : Users, version : Versions, proof : Versions \cup {0}, unseen : BOOLEAN]
Request  == [step : {"idle", "sign", "change", "make", "mail", "reset", "approve", "claim",
                     "device", "bootstrap", "desktop", "bind", "code", "revoke", "consume",
                     "match", "issue", "done"},
             user : Users \cup {None}, version : Versions \cup {0},
             on : Tickets \cup {None} \cup Session]

\* The type invariant: a grant is of the company its client is bound to, "and nobody
\* from another company can approve it afterwards".
TypeOK ==
    /\ account \in [Users -> Account] /\ reset \in [Resets -> ResetRow]
    /\ pairing \in [Pairings -> Pairing] /\ grant \in [Grants -> Grant]
    /\ binding \in Users \cup {None} /\ sessions \subseteq Session
    /\ request \in [Requests -> Request]
    /\ taken \in [Tickets -> Nat] /\ ended \subseteq Grants
    /\ \A t \in Resets : reset[t].status = "none" <=> reset[t].user = None
    /\ \A g \in Grants : grant[g].exists => grant[g].user = binding /\ grant[g].user # None
    /\ \A s \in sessions : s.version <= account[s.user].version

\* A link mailed once, a pairing approved once, a code and a refresh token each give
\* access once, although the same ticket is presented by two requests at a time or
\* a late approval puts a consumed pairing back to approved.
AccessOncePerTicket == \A t \in Tickets : taken[t] <= 1

\* One approval keeps one usable grant, and none once one of its grants came back:
\* "a code presented twice may have been intercepted: end what it produced".
\* Excepted is a chain one of whose exchanges was between the use of a grant and
\* the creation of the next when the replay was answered.
OneUsableGrantPerCode ==
    \A code \in Grants :
        LET usable == {g \in Grants : grant[g].exists /\ grant[g].code = code
                                      /\ ~grant[g].used /\ ~grant[g].revoked}
        IN  Cardinality(usable) <= (IF code \in ended THEN 0 ELSE 1)

\* What works once works once.
TakenOnce == AccessOncePerTicket /\ OneUsableGrantPerCode

\* A token that is accepted rests on the password the account has now, wherever a
\* change of it fell between the sign-in, the approval of an AI client, the renewals
\* of its tokens, the desktop's sign-in and their answers.  A paired PC shows no
\* password; excepted is a change between the desktop's token and its second read.
RestsOnThePassword ==
    \A s \in sessions : Accepted(s) /\ s.proof # 0 /\ ~s.unseen => s.proof = account[s.user].version

-----------------------------------------------------------------------------
(* What the comments say and the code does not keep. *)

\* "Changing the password invalidates previously issued sign-in tokens, so other active
\* sessions must sign in again" (docs/USER_GUIDE.md): also when it meets a desktop sign-in.
ChangedPasswordRevokes ==
    \A s \in sessions : Accepted(s) /\ s.proof # 0 => s.proof = account[s.user].version
=============================================================================
