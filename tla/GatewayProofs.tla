---------------------------- MODULE GatewayProofs ----------------------------
(***************************************************************************)
(* Theorems about the MCP gateway and what it rests on: access (SignIn),   *)
(* for every number of users, requests and tickets, and the write tools    *)
(* (McpWrites), for every number of calls, keys and reviews.  The two      *)
(* share no variable and no theorem; each part stands for itself.          *)
(***************************************************************************)
EXTENDS SignIn, McpWritesRefinement, FiniteSetTheorems, TLAPS

-----------------------------------------------------------------------------
(***************************************************************************)
(* Sign-in: the accounts, tickets and tokens of SignIn.                    *)
(***************************************************************************)

\* What a request that is doing q relies on.  It is of a user and goes by a version of the
\* account that was, and what it works on is there.
Works(q) ==
    /\ q.step \notin {"idle", "done"} =>
         q.user \in Users /\ q.version \in 1..account[q.user].version
    /\ q.step = "mail" => q.on \in Resets /\ reset[q.on].status # "none"
    /\ q.step = "reset" => q.on \in Resets
    /\ q.step \in {"approve", "claim"} => q.on \in Pairings
    /\ q.step \in {"bootstrap", "desktop"} => q.on \in sessions /\ q.user = q.on.user
    /\ q.step = "code" => q.user = binding
    /\ q.step \in {"revoke", "consume", "match", "issue"} => q.on \in Grants /\ grant[q.on].exists
    /\ q.step \in {"match", "issue"} => grant[q.on].used

Usable(g) == grant[g].exists /\ ~grant[g].used /\ ~grant[g].revoked
Exchanging(p) == request[p].step \in {"match", "issue"}
CodeOf(p) == grant[request[p].on].code

-----------------------------------------------------------------------------
(* The inductive invariant. *)

AllWork == \A p \in Requests : Works(request[p])

ApprovedBySomebody ==
    \A d \in Pairings : pairing[d].status = "approved" => pairing[d].user \in Users

\* The status of a ticket tells whether it was exchanged.
StatusTells ==
    /\ \A t \in Tickets : taken[t] <= 1
    /\ \A t \in Resets : reset[t].status \in {"none", "open"} => taken[t] = 0
    /\ \A d \in Pairings : ~pairing[d].consumed => taken[d] = 0
    /\ \A g \in Grants : ~grant[g].exists \/ ~grant[g].used => taken[g] = 0

\* A grant stems from a code, whose version it has.
StemsFromACode ==
    \A g \in Grants : grant[g].exists =>
        LET code == grant[g].code IN
        /\ code \in Grants /\ grant[code].exists /\ grant[code].code = code
        /\ grant[g].version = grant[code].version
        /\ grant[g].version \in 1..account[grant[g].user].version

\* A code lives on in one place: a usable grant, or an exchange under way.
OnePlacePerCode ==
    /\ \A g, h \in Grants : Usable(g) /\ Usable(h) /\ grant[g].code = grant[h].code => g = h
    /\ \A p, q \in Requests : Exchanging(p) /\ Exchanging(q) /\ CodeOf(p) = CodeOf(q) => p = q
    /\ \A g \in Grants, p \in Requests : ~(Usable(g) /\ Exchanging(p) /\ grant[g].code = CodeOf(p))

\* A code that was ended lives on nowhere.
EndedIsOver ==
    /\ \A code \in ended : grant[code].exists
    /\ \A g \in Grants : Usable(g) => grant[g].code \notin ended
    /\ \A p \in Requests : Exchanging(p) => CodeOf(p) \notin ended

ProofIsVersion == \A s \in sessions : s.proof # 0 /\ ~s.unseen => s.proof = s.version

Chains == StemsFromACode /\ OnePlacePerCode /\ EndedIsOver

Inv == TypeOK /\ AllWork /\ ApprovedBySomebody /\ StatusTells /\ Chains /\ ProofIsVersion

-----------------------------------------------------------------------------
(* The record a request becomes. *)

Steps == {"idle", "sign", "change", "make", "mail", "reset", "approve", "claim", "device",
          "bootstrap", "desktop", "bind", "code", "revoke", "consume", "match", "issue", "done"}

LEMMA BecomesEffect ==
  ASSUME TypeOK, NEW p \in Requests, NEW r, Becomes(p, r)
  PROVE  request'[p] = r /\ \A o \in Requests : o # p => request'[o] = request[o]
  BY DEF TypeOK, Becomes

LEMMA RequestFields ==
  ASSUME TypeOK, NEW p \in Requests
  PROVE  /\ request[p] \in Request
         /\ request[p].step \in Steps /\ request[p].user \in Users \cup {None}
         /\ request[p].version \in Versions \cup {0}
         /\ request[p].on \in Tickets \cup {None} \cup Session
  BY DEF TypeOK, Request, Steps

LEMMA DoneRecord ==
  ASSUME NEW p \in Requests, Done(p)
  PROVE  \E r \in Request : Becomes(p, r) /\ r.step = "done"
  BY DEF Done, Idle, Request

LEMMA GotoRecord ==
  ASSUME TypeOK, NEW p \in Requests, NEW step \in Steps, Goto(p, step)
  PROVE  \E r \in Request : /\ Becomes(p, r) /\ r.step = step /\ r.user = request[p].user
                            /\ r.version = request[p].version /\ r.on = request[p].on
<1> DEFINE r == [request[p] EXCEPT !.step = step]
<1>1. r \in Request /\ r.step = step /\ r.user = request[p].user
      /\ r.version = request[p].version /\ r.on = request[p].on
  BY RequestFields DEF Request, Steps
<1> QED
  BY <1>1 DEF Goto

LEMMA BeginRecord ==
  ASSUME TypeOK, NEW p \in Requests, NEW step \in Steps, NEW user \in Users,
         NEW on \in Tickets \cup {None} \cup Session, Begin(p, step, user, on)
  PROVE  \E r \in Request : /\ Becomes(p, r) /\ r.step = step /\ r.user = user /\ r.on = on
                            /\ r.version = account[user].version
                            /\ r.version \in 1..account[user].version
<1> DEFINE r == [step |-> step, user |-> user, on |-> on, version |-> account[user].version]
<1>1. account[user].version \in Versions /\ MaxVersion \in Nat
  BY SignInAssumption DEF TypeOK, Account
<1>2. r \in Request
  BY <1>1 DEF Request, Steps
<1>3. Becomes(p, r)
  BY DEF Begin
<1> QED
  BY <1>1, <1>2, <1>3 DEF Versions

-----------------------------------------------------------------------------
(* Who writes what. *)

Moves(p) == Arrival(p) \/ Step(p) \/ Fail(p)

LEMMA AccountWriters ==
  ASSUME NEW p \in Requests, Moves(p)
  PROVE  UNCHANGED account \/ WritePassword(p) \/ Reset(p)
  BY DEF Moves, Arrival, Step, Fail, LogIn, ChangePassword, ResetEmployeePassword, RequestReset,
         Consent, Approve, ReadReset, Collect, Exchange, Bootstrap, SignIt, MakeReset, MailReset,
         WriteApproval, ClaimPairing, SignDevice, MakeBootstrap, DesktopLogIn, BindClient,
         IssueCode, RevokeChain, Consume, UserStillMatches, IssueTokens

LEMMA ResetWriters ==
  ASSUME NEW p \in Requests, Moves(p)
  PROVE  \/ UNCHANGED reset \/ MakeReset(p) \/ MailReset(p) \/ Reset(p)
         \/ \E u \in Users : RequestReset(p, u)
  BY DEF Moves, Arrival, Step, Fail, LogIn, ChangePassword, ResetEmployeePassword,
         Consent, Approve, ReadReset, Collect, Exchange, Bootstrap, SignIt, WritePassword,
         WriteApproval, ClaimPairing, SignDevice, MakeBootstrap, DesktopLogIn, BindClient,
         IssueCode, RevokeChain, Consume, UserStillMatches, IssueTokens

LEMMA PairingWriters ==
  ASSUME NEW p \in Requests, Moves(p)
  PROVE  UNCHANGED pairing \/ WriteApproval(p) \/ ClaimPairing(p)
  BY DEF Moves, Arrival, Step, Fail, LogIn, ChangePassword, ResetEmployeePassword, RequestReset,
         Consent, Approve, ReadReset, Collect, Exchange, Bootstrap, SignIt, WritePassword,
         MakeReset, MailReset, Reset, SignDevice, MakeBootstrap, DesktopLogIn, BindClient,
         IssueCode, RevokeChain, Consume, UserStillMatches, IssueTokens

LEMMA GrantWriters ==
  ASSUME NEW p \in Requests, Moves(p)
  PROVE  \/ UNCHANGED <<grant, ended>> \/ IssueCode(p) \/ RevokeChain(p)
         \/ Consume(p) \/ IssueTokens(p)
  BY DEF Moves, history, Arrival, Step, Fail, LogIn, ChangePassword, ResetEmployeePassword,
         RequestReset, Consent, Approve, ReadReset, Collect, Exchange, Bootstrap, SignIt,
         WritePassword, MakeReset, MailReset, Reset, WriteApproval, ClaimPairing, SignDevice,
         MakeBootstrap, DesktopLogIn, BindClient, UserStillMatches

LEMMA BindingWriters ==
  ASSUME NEW p \in Requests, Moves(p)
  PROVE  UNCHANGED binding \/ BindClient(p)
  BY DEF Moves, Arrival, Step, Fail, LogIn, ChangePassword, ResetEmployeePassword, RequestReset,
         Consent, Approve, ReadReset, Collect, Exchange, Bootstrap, SignIt, WritePassword,
         MakeReset, MailReset, Reset, WriteApproval, ClaimPairing, SignDevice, MakeBootstrap,
         DesktopLogIn, IssueCode, RevokeChain, Consume, UserStillMatches, IssueTokens

LEMMA SessionWriters ==
  ASSUME NEW p \in Requests, Moves(p)
  PROVE  UNCHANGED sessions \/ SignIt(p) \/ SignDevice(p) \/ DesktopLogIn(p) \/ IssueTokens(p)
  BY DEF Moves, Arrival, Step, Fail, LogIn, ChangePassword, ResetEmployeePassword, RequestReset,
         Consent, Approve, ReadReset, Collect, Exchange, Bootstrap, WritePassword, MakeReset,
         MailReset, Reset, WriteApproval, ClaimPairing, MakeBootstrap, BindClient,
         IssueCode, RevokeChain, Consume, UserStillMatches

LEMMA TakenWriters ==
  ASSUME NEW p \in Requests, Moves(p)
  PROVE  UNCHANGED taken \/ Reset(p) \/ ClaimPairing(p) \/ Consume(p)
  BY DEF Moves, history, Arrival, Step, Fail, LogIn, ChangePassword, ResetEmployeePassword,
         RequestReset, Consent, Approve, ReadReset, Collect, Exchange, Bootstrap, SignIt,
         WritePassword, MakeReset, MailReset, WriteApproval, SignDevice, MakeBootstrap,
         DesktopLogIn, BindClient, IssueCode, RevokeChain, UserStillMatches, IssueTokens

-----------------------------------------------------------------------------
(* The data only grows: what a request found there, it finds there again. *)

AccountGrows == /\ account' \in [Users -> Account]
                /\ \A u \in Users : account[u].version <= account'[u].version

ResetGrows == /\ reset' \in [Resets -> ResetRow]
              /\ \A t \in Resets : reset'[t].status = "none" <=> reset'[t].user = None
              /\ \A t \in Resets : reset[t].status # "none" => reset'[t].status # "none"

PairingGrows == /\ pairing' \in [Pairings -> Pairing]
                /\ ApprovedBySomebody'

BindingGrows == /\ binding' \in Users \cup {None}
                /\ binding # None => binding' = binding

GrantGrows ==
    /\ grant' \in [Grants -> Grant]
    /\ \A g \in Grants : grant'[g].exists /\ ~grant[g].exists =>
                           grant'[g].user = binding /\ binding \in Users
    /\ \A g \in Grants : grant[g].exists =>
         /\ grant'[g].exists /\ grant'[g].user = grant[g].user /\ grant'[g].code = grant[g].code
         /\ grant'[g].version = grant[g].version
         /\ grant[g].used => grant'[g].used

SessionsGrow == /\ sessions' \subseteq Session
                /\ sessions \subseteq sessions'
                /\ \A s \in sessions' : s.version <= account'[s.user].version
                /\ ProofIsVersion'

LEMMA AccountFields ==
  ASSUME TypeOK, NEW u \in Users
  PROVE  /\ account[u] \in Account /\ account[u].active \in BOOLEAN
         /\ account[u].version \in Nat /\ account[u].version \in Versions
         /\ account[u].version >= 1 /\ MaxVersion \in Nat
  BY SignInAssumption DEF TypeOK, Account, Versions

LEMMA AtWork ==
  ASSUME TypeOK, AllWork, NEW p \in Requests, request[p].step \notin {"idle", "done"}
  PROVE  /\ request[p].user \in Users /\ request[p].version \in Versions
         /\ request[p].version \in 1..account[request[p].user].version
<1>1. Works(request[p])
  BY DEF AllWork
<1>2. request[p].user \in Users /\ request[p].version \in 1..account[request[p].user].version
  BY <1>1 DEF Works
<1> QED
  BY <1>2, AccountFields DEF Versions

LEMMA PasswordGrows ==
  ASSUME TypeOK, NEW u \in Users, account[u].version < MaxVersion, NewPassword(u)
  PROVE  AccountGrows
<1>1. account[u].version + 1 \in Versions /\ account[u].version <= account[u].version + 1
  BY AccountFields DEF Versions
<1>2. \A v \in Users : account[v].version <= account[v].version /\ account[v] \in Account
  BY AccountFields
<1>3. account' = [account EXCEPT ![u] = [account[u] EXCEPT !.version = account[u].version + 1]]
  BY DEF NewPassword
<1>4. [account[u] EXCEPT !.version = account[u].version + 1] \in Account
  BY <1>1, <1>2 DEF Account
<1>5. account'[u].version = account[u].version + 1 /\ \A v \in Users : v # u => account'[v] = account[v]
  BY <1>2, <1>3 DEF TypeOK, Account
<1> QED
  BY <1>1, <1>2, <1>3, <1>4, <1>5 DEF AccountGrows, TypeOK

LEMMA AccountStays ==
  ASSUME TypeOK, UNCHANGED account
  PROVE  AccountGrows
  BY AccountFields DEF AccountGrows, TypeOK

LEMMA AccountStep ==
  ASSUME TypeOK, AllWork, NEW p \in Requests, Moves(p)
  PROVE  AccountGrows
<1>1. CASE WritePassword(p)
  BY <1>1, AtWork, PasswordGrows DEF WritePassword, At
<1>2. CASE Reset(p)
  BY <1>2, AtWork, PasswordGrows, AccountStays DEF Reset, At
<1> QED
  BY <1>1, <1>2, AccountWriters, AccountStays

LEMMA ResetStep ==
  ASSUME TypeOK, AllWork, NEW p \in Requests, Moves(p)
  PROVE  ResetGrows
<1>1. \A t \in Resets : reset[t] \in ResetRow /\ (reset[t].status = "none" <=> reset[t].user = None)
  BY DEF TypeOK
<1>2. ASSUME NEW t \in Resets, NEW u \in Users,
             reset' = [reset EXCEPT ![t] = [status |-> "open", user |-> u]]
      PROVE  ResetGrows
  BY <1>1, <1>2, SignInAssumption DEF ResetGrows, ResetRow, TypeOK
<1>3. ASSUME NEW S \in SUBSET Resets, NEW status \in {"used", "gone"},
             reset' = [t \in Resets |-> IF t \in S THEN [reset[t] EXCEPT !.status = status]
                                                   ELSE reset[t]],
             \A t \in S : reset[t].status # "none"
      PROVE  ResetGrows
  <2>1. \A t \in Resets :
          /\ t \in S => reset'[t] = [reset[t] EXCEPT !.status = status]
          /\ t \notin S => reset'[t] = reset[t]
    BY <1>3
  <2>2. \A t \in S : /\ [reset[t] EXCEPT !.status = status] \in ResetRow
                     /\ [reset[t] EXCEPT !.status = status].status = status
                     /\ [reset[t] EXCEPT !.status = status].user = reset[t].user
    BY <1>1 DEF ResetRow
  <2>3. ASSUME NEW t \in Resets PROVE reset'[t] \in ResetRow
    <3>1. CASE t \in S
      <4>1. [reset[t] EXCEPT !.status = status] \in ResetRow
        BY <2>2, <3>1
      <4> QED
        BY <2>1, <3>1, <4>1
    <3>2. CASE t \notin S
      BY <1>1, <2>1, <3>2
    <3> QED
      BY <3>1, <3>2
  <2>4. reset' \in [Resets -> ResetRow]
    BY <1>3, <2>3
  <2> QED
    BY <1>1, <1>3, <2>1, <2>2, <2>4 DEF ResetGrows
<1>4. CASE MakeReset(p)
  <2>1. request[p].user \in Users
    BY <1>4, AtWork DEF MakeReset, At
  <2> QED
    BY <1>2, <1>4, <2>1 DEF MakeReset
<1>5. CASE MailReset(p)
  <2>1. request[p].on \in Resets /\ reset[request[p].on].status # "none"
    BY <1>5 DEF MailReset, At, AllWork, Works
  <2>2. CASE UNCHANGED reset
    BY <1>1, <2>2 DEF ResetGrows, TypeOK
  <2>3. CASE reset' = [reset EXCEPT ![request[p].on].status = "gone"]
    <3>1. PICK t \in Resets : t = request[p].on /\ reset[t].status # "none"
      BY <2>1
    <3>2. reset' = [reset EXCEPT ![t] = [reset[t] EXCEPT !.status = "gone"]]
      BY <2>3, <3>1
    <3>3. [reset[t] EXCEPT !.status = "gone"] \in ResetRow
          /\ [reset[t] EXCEPT !.status = "gone"].status = "gone"
          /\ [reset[t] EXCEPT !.status = "gone"].user = reset[t].user
      BY <1>1 DEF ResetRow
    <3> HIDE DEF ResetRow
    <3> QED
      BY <1>1, <3>1, <3>2, <3>3 DEF ResetGrows, TypeOK
  <2> QED
    BY <1>5, <2>2, <2>3 DEF MailReset
<1>6. CASE Reset(p)
  <2>1. request[p].on \in Resets /\ request[p].user \in Users
    BY <1>6, AtWork DEF Reset, At, AllWork, Works
  <2>2. CASE Unused(request[p].on)
    <3> DEFINE S == {t \in Resets : t = request[p].on \/ (reset[t].user = request[p].user
                                                          /\ reset[t].status = "open")}
    <3>1. reset' = [t \in Resets |-> IF t \in S THEN [reset[t] EXCEPT !.status = "used"]
                                                ELSE reset[t]]
      BY <1>6, <2>2 DEF Reset
    <3>2. S \in SUBSET Resets /\ \A t \in S : reset[t].status # "none"
      BY <2>2 DEF Unused
    <3> HIDE DEF S
    <3> QED
      BY <1>3, <3>1, <3>2
  <2>3. CASE ~Unused(request[p].on)
    BY <1>1, <1>6, <2>3 DEF Reset, ResetGrows, TypeOK
  <2> QED
    BY <2>2, <2>3
<1>7. ASSUME NEW u \in Users, RequestReset(p, u) PROVE ResetGrows
  <2> DEFINE S == {t \in Resets : reset[t].user = u}
  <2>1. reset' = [t \in Resets |-> IF t \in S THEN [reset[t] EXCEPT !.status = "gone"]
                                              ELSE reset[t]]
    BY <1>7 DEF RequestReset
  <2>2. S \in SUBSET Resets /\ \A t \in S : reset[t].status # "none"
    BY <1>1, SignInAssumption
  <2> HIDE DEF S
  <2> QED
    BY <1>3, <2>1, <2>2
<1>8. CASE UNCHANGED reset
  BY <1>1, <1>8 DEF ResetGrows, TypeOK
<1> QED
  BY <1>4, <1>5, <1>6, <1>7, <1>8, ResetWriters

LEMMA PairingStep ==
  ASSUME TypeOK, AllWork, ApprovedBySomebody, NEW p \in Requests, Moves(p)
  PROVE  PairingGrows
<1>1. \A d \in Pairings : pairing[d] \in Pairing
  BY DEF TypeOK
<1>2. CASE WriteApproval(p)
  <2>1. request[p].on \in Pairings /\ request[p].user \in Users
    BY <1>2, AtWork DEF WriteApproval, At, AllWork, Works
  <2>2. PICK d \in Pairings, u \in Users : d = request[p].on /\ u = request[p].user
    BY <2>1
  <2>3. pairing' = [pairing EXCEPT ![d] = [pairing[d] EXCEPT !.status = "approved", !.user = u]]
    BY <1>2, <2>2 DEF WriteApproval, TypeOK
  <2>4. /\ [pairing[d] EXCEPT !.status = "approved", !.user = u] \in Pairing
        /\ [pairing[d] EXCEPT !.status = "approved", !.user = u].user = u
    BY <1>1 DEF Pairing
  <2> QED
    BY <2>3, <2>4 DEF PairingGrows, ApprovedBySomebody, TypeOK
<1>3. CASE ClaimPairing(p)
  <2>1. request[p].on \in Pairings
    BY <1>3 DEF ClaimPairing, At, AllWork, Works
  <2>2. PICK d \in Pairings : d = request[p].on
    BY <2>1
  <2>3. CASE Collectable(d)
    <3>1. pairing' = [pairing EXCEPT ![d] = [pairing[d] EXCEPT !.status = "consumed",
                                                               !.consumed = TRUE]]
      BY <1>3, <2>2, <2>3 DEF ClaimPairing, TypeOK
    <3>2. /\ [pairing[d] EXCEPT !.status = "consumed", !.consumed = TRUE] \in Pairing
          /\ [pairing[d] EXCEPT !.status = "consumed", !.consumed = TRUE].status = "consumed"
      BY <1>1 DEF Pairing
    <3> QED
      BY <3>1, <3>2 DEF PairingGrows, ApprovedBySomebody, TypeOK
  <2>4. CASE ~Collectable(d)
    BY <1>3, <2>2, <2>4 DEF ClaimPairing, PairingGrows, ApprovedBySomebody, TypeOK
  <2> QED
    BY <2>3, <2>4
<1>4. CASE UNCHANGED pairing
  BY <1>4 DEF PairingGrows, ApprovedBySomebody, TypeOK
<1> QED
  BY <1>2, <1>3, <1>4, PairingWriters

LEMMA BindingStep ==
  ASSUME TypeOK, AllWork, NEW p \in Requests, Moves(p)
  PROVE  BindingGrows
<1>1. CASE BindClient(p)
  <2>1. request[p].user \in Users
    BY <1>1, AtWork DEF BindClient, At
  <2> QED
    BY <1>1, <2>1 DEF BindClient, Bindable, BindingGrows, TypeOK
<1> QED
  BY <1>1, BindingWriters DEF BindingGrows, TypeOK

LEMMA GrantFields ==
  ASSUME TypeOK, NEW g \in Grants
  PROVE  /\ grant[g] \in Grant
         /\ grant[g].exists \in BOOLEAN /\ grant[g].user \in Users \cup {None}
         /\ grant[g].version \in Versions \cup {0} /\ grant[g].code \in Grants \cup {None}
         /\ grant[g].used \in BOOLEAN /\ grant[g].revoked \in BOOLEAN
         /\ grant[g].exists => grant[g].user = binding /\ binding \in Users
  BY DEF TypeOK, Grant

\* A new grant ...
LEMMA CreateEffect ==
  ASSUME TypeOK, NEW g \in Grants, NEW u \in Users, u = binding, NEW version \in Versions,
         NEW code \in Grants, Create(g, u, version, code)
  PROVE  /\ GrantGrows
         /\ ~grant[g].exists
         /\ grant'[g].exists /\ grant'[g].user = u /\ grant'[g].code = code
         /\ grant'[g].version = version /\ ~grant'[g].used /\ ~grant'[g].revoked
         /\ \A h \in Grants : h # g => grant'[h] = grant[h]
<1> DEFINE new == [exists |-> TRUE, user |-> u, version |-> version, code |-> code,
                   used |-> FALSE, revoked |-> FALSE]
<1>1. new \in Grant
  BY DEF Grant
<1>2. grant' = [grant EXCEPT ![g] = new] /\ ~grant[g].exists
  BY DEF Create
<1>3. /\ grant'[g] = new
      /\ \A h \in Grants : h # g => grant'[h] = grant[h]
      /\ grant' \in [Grants -> Grant]
  BY <1>1, <1>2 DEF TypeOK
<1> QED
  BY <1>2, <1>3, GrantFields DEF GrantGrows

\* ... one that is used ...
LEMMA UseEffect ==
  ASSUME TypeOK, NEW g \in Grants, grant' = [grant EXCEPT ![g].used = TRUE]
  PROVE  /\ GrantGrows
         /\ grant'[g].used /\ grant'[g].exists = grant[g].exists /\ grant'[g].code = grant[g].code
         /\ \A h \in Grants : h # g => grant'[h] = grant[h]
<1>1. grant[g] \in Grant
  BY GrantFields
<1>2. grant' = [grant EXCEPT ![g] = [grant[g] EXCEPT !.used = TRUE]]
  OBVIOUS
<1>3. [grant[g] EXCEPT !.used = TRUE] \in Grant
  BY <1>1 DEF Grant
<1>4. /\ grant'[g] = [grant[g] EXCEPT !.used = TRUE]
      /\ \A h \in Grants : h # g => grant'[h] = grant[h]
      /\ grant' \in [Grants -> Grant]
  BY <1>2, <1>3 DEF TypeOK
<1>5. /\ grant'[g].used /\ grant'[g].exists = grant[g].exists /\ grant'[g].code = grant[g].code
      /\ grant'[g].user = grant[g].user /\ grant'[g].version = grant[g].version
  BY <1>1, <1>4 DEF Grant
<1> QED
  BY <1>4, <1>5, GrantFields DEF GrantGrows

\* ... and those that are revoked.
LEMMA RevokeEffect ==
  ASSUME TypeOK, NEW p \in Requests, RevokeChain(p)
  PROVE  /\ GrantGrows
         /\ \A g \in Grants :
              /\ grant'[g].exists = grant[g].exists /\ grant'[g].user = grant[g].user
              /\ grant'[g].code = grant[g].code /\ grant'[g].version = grant[g].version
              /\ grant'[g].used = grant[g].used
              /\ grant[g].revoked => grant'[g].revoked
              /\ grant[g].exists /\ grant[g].user = request[p].user => grant'[g].revoked
<1> DEFINE chain == {g \in Grants : grant[g].exists /\ grant[g].user = request[p].user}
<1>1. grant' = [g \in Grants |-> IF g \in chain THEN [grant[g] EXCEPT !.revoked = TRUE] ELSE grant[g]]
  BY DEF RevokeChain
<1>2. chain \subseteq Grants
      /\ \A g \in Grants : grant[g].exists /\ grant[g].user = request[p].user => g \in chain
  OBVIOUS
<1> HIDE DEF chain
<1>3. ASSUME NEW g \in Grants
      PROVE  /\ grant'[g] \in Grant
             /\ grant'[g].exists = grant[g].exists /\ grant'[g].user = grant[g].user
             /\ grant'[g].code = grant[g].code /\ grant'[g].version = grant[g].version
             /\ grant'[g].used = grant[g].used
             /\ grant[g].revoked => grant'[g].revoked
             /\ g \in chain => grant'[g].revoked
  <2>1. grant[g] \in Grant
    BY GrantFields
  <2>2. CASE g \in chain
    <3>1. grant'[g] = [grant[g] EXCEPT !.revoked = TRUE]
      BY <1>1, <2>2
    <3> QED
      BY <2>1, <3>1 DEF Grant
  <2>3. CASE g \notin chain
    <3>1. grant'[g] = grant[g]
      BY <1>1, <2>3
    <3> QED
      BY <2>1, <2>3, <3>1
  <2> QED
    BY <2>2, <2>3
<1>4. grant' \in [Grants -> Grant]
  BY <1>1, <1>3
<1> QED
  BY <1>2, <1>3, <1>4 DEF GrantGrows

\* What is exchanged is there, and its code's.
LEMMA AtExchange ==
  ASSUME TypeOK, AllWork, NEW p \in Requests,
         request[p].step \in {"revoke", "consume", "match", "issue"}
  PROVE  /\ request[p].on \in Grants /\ grant[request[p].on].exists
         /\ grant[request[p].on].user = binding /\ binding \in Users
         /\ Exchanging(p) => grant[request[p].on].used
  BY GrantFields DEF AllWork, Works, Exchanging

LEMMA CodeFields ==
  ASSUME TypeOK, StemsFromACode, NEW g \in Grants, grant[g].exists
  PROVE  /\ grant[g].code \in Grants /\ grant[grant[g].code].exists
         /\ grant[grant[g].code].code = grant[g].code
         /\ grant[grant[g].code].version = grant[g].version
         /\ grant[g].version \in 1..account[grant[g].user].version
         /\ grant[g].version \in Versions
<1>1. grant[g].version \in 1..account[grant[g].user].version /\ grant[g].user \in Users
  BY GrantFields DEF StemsFromACode
<1>2. grant[g].version \in Versions
  BY <1>1, AccountFields DEF Versions
<1> QED
  BY <1>2 DEF StemsFromACode

LEMMA GrantStep ==
  ASSUME TypeOK, AllWork, StemsFromACode, NEW p \in Requests, Moves(p)
  PROVE  GrantGrows
<1>1. CASE IssueCode(p)
  <2>1. request[p].user \in Users /\ request[p].version \in Versions /\ request[p].user = binding
    BY <1>1, AtWork DEF IssueCode, At, AllWork, Works
  <2>2. PICK g \in Grants : Create(g, request[p].user, request[p].version, g)
    BY <1>1 DEF IssueCode
  <2> QED
    BY <2>1, <2>2, CreateEffect
<1>2. CASE IssueTokens(p)
  <2> DEFINE g == request[p].on
  <2>1. g \in Grants /\ grant[g].exists /\ grant[g].user = binding /\ binding \in Users
    BY <1>2, AtExchange DEF IssueTokens, At
  <2>2. grant[g].version \in Versions /\ grant[g].code \in Grants
    BY <2>1, CodeFields
  <2>3. PICK next \in Grants : Create(next, grant[g].user, grant[g].version, grant[g].code)
    BY <1>2 DEF IssueTokens, IssuedVersion
  <2> HIDE DEF g
  <2> QED
    BY <2>1, <2>2, <2>3, CreateEffect
<1>3. CASE Consume(p)
  <2>1. request[p].on \in Grants
    BY <1>3, AtExchange DEF Consume, At
  <2>2. CASE UNCHANGED grant
    BY <2>2, GrantFields DEF GrantGrows, TypeOK
  <2> QED
    BY <1>3, <2>1, <2>2, UseEffect DEF Consume
<1>4. CASE RevokeChain(p)
  BY <1>4, RevokeEffect
<1>5. CASE UNCHANGED <<grant, ended>>
  BY <1>5, GrantFields DEF GrantGrows, TypeOK
<1> QED
  BY <1>1, <1>2, <1>3, <1>4, <1>5, GrantWriters

LEMMA SessionFields ==
  ASSUME TypeOK, NEW s \in sessions
  PROVE  /\ s \in Session /\ s.user \in Users /\ s.version \in Versions
         /\ s.proof \in Versions \cup {0} /\ s.unseen \in BOOLEAN
         /\ s.version <= account[s.user].version
  BY DEF TypeOK, Session

LEMMA TokenEffect ==
  ASSUME TypeOK, ProofIsVersion, AccountGrows, NEW t \in Session, sessions' = sessions \cup {t},
         t.version <= account[t.user].version,
         t.proof # 0 /\ ~t.unseen => t.proof = t.version
  PROVE  SessionsGrow
<1>1. sessions' \subseteq Session /\ sessions \subseteq sessions'
  BY DEF TypeOK
<1>2. ASSUME NEW s \in sessions' PROVE s.version <= account'[s.user].version
  <2>1. s.user \in Users /\ s.version \in Nat /\ s.version <= account[s.user].version
    BY SignInAssumption DEF TypeOK, Session, Versions
  <2>2. account[s.user].version \in Nat /\ account'[s.user].version \in Nat
        /\ account[s.user].version <= account'[s.user].version
    BY <2>1, SignInAssumption DEF AccountGrows, TypeOK, Account, Versions
  <2> QED
    BY <2>1, <2>2
<1>3. ProofIsVersion'
  BY DEF ProofIsVersion
<1> QED
  BY <1>1, <1>2, <1>3 DEF SessionsGrow

LEMMA SignEffect ==
  ASSUME TypeOK, ProofIsVersion, AccountGrows,
         NEW user \in Users, NEW version \in Versions, version <= account[user].version,
         NEW proof \in Versions \cup {0}, NEW unseen, unseen = TRUE \/ unseen = FALSE,
         sessions' = sessions \cup {Token(user, version, proof, unseen)},
         proof # 0 /\ ~unseen => proof = version
  PROVE  SessionsGrow
<1> DEFINE t == Token(user, version, proof, unseen)
<1>1. /\ t \in Session /\ t.user = user /\ t.version = version
      /\ t.proof = proof /\ t.unseen = unseen
  BY DEF Token, Session
<1> HIDE DEF t
<1>2. sessions' = sessions \cup {t}
  BY DEF t
<1> QED
  BY <1>1, <1>2, TokenEffect

LEMMA SessionsStay ==
  ASSUME TypeOK, ProofIsVersion, AccountGrows, UNCHANGED sessions
  PROVE  SessionsGrow
<1>1. ASSUME NEW s \in sessions PROVE s.version <= account'[s.user].version
  <2>1. s.user \in Users /\ s.version \in Nat /\ s.version <= account[s.user].version
    BY SignInAssumption DEF TypeOK, Session, Versions
  <2>2. account[s.user].version \in Nat /\ account'[s.user].version \in Nat
        /\ account[s.user].version <= account'[s.user].version
    BY <2>1, SignInAssumption DEF AccountGrows, TypeOK, Account, Versions
  <2> QED
    BY <2>1, <2>2
<1> QED
  BY <1>1 DEF SessionsGrow, ProofIsVersion, TypeOK

LEMMA SessionsStep ==
  ASSUME TypeOK, AllWork, StemsFromACode, ProofIsVersion, NEW p \in Requests, Moves(p)
  PROVE  SessionsGrow
<1>0. AccountGrows
  BY AccountStep
<1>1. CASE SignIt(p)
  <2>1. request[p].user \in Users /\ request[p].version \in Versions
        /\ request[p].version <= account[request[p].user].version
    BY <1>1, AtWork DEF SignIt, At
  <2> QED
    BY <1>0, <1>1, <2>1, SignEffect DEF SignIt, Sign
<1>2. CASE SignDevice(p)
  <2>1. request[p].user \in Users
    BY <1>2, AtWork DEF SignDevice, At
  <2>2. account[request[p].user].version \in Versions
        /\ account[request[p].user].version <= account[request[p].user].version
    BY <2>1, AccountFields
  <2> QED
    BY <1>0, <1>2, <2>1, <2>2, SignEffect DEF SignDevice, Sign
<1>3. CASE DesktopLogIn(p)
  <2> DEFINE s == request[p].on
             v == request[p].version
  <2>1. s \in sessions /\ request[p].user = s.user
    BY <1>3 DEF DesktopLogIn, At, AllWork, Works
  <2>2. v \in Versions /\ s.user \in Users /\ v <= account[s.user].version
    BY <1>3, <2>1, AtWork DEF DesktopLogIn, At
  <2>3. s.proof \in Versions \cup {0} /\ ((s.unseen \/ v # s.version) = TRUE \/ (s.unseen \/ v # s.version) = FALSE)
        /\ (s.proof # 0 /\ ~s.unseen => s.proof = s.version)
    BY <2>1, SessionFields DEF ProofIsVersion
  <2>4. \/ UNCHANGED sessions
        \/ sessions' = sessions \cup {Token(s.user, v, s.proof, s.unseen \/ v # s.version)}
    BY <1>3 DEF DesktopLogIn
  <2> HIDE DEF s, v
  <2>5. CASE sessions' = sessions \cup {Token(s.user, v, s.proof, s.unseen \/ v # s.version)}
    BY <1>0, <2>2, <2>3, <2>5, SignEffect
  <2> QED
    BY <1>0, <2>4, <2>5, SessionsStay
<1>4. CASE IssueTokens(p)
  <2> DEFINE g == request[p].on
  <2>1. g \in Grants /\ grant[g].exists /\ grant[g].user = binding /\ binding \in Users
    BY <1>4, AtExchange DEF IssueTokens, At
  <2>2. grant[g].version \in Versions /\ grant[grant[g].code].version = grant[g].version
        /\ grant[g].version <= account[grant[g].user].version
    BY <2>1, CodeFields
  <2>3. sessions' = sessions \cup
            {Token(grant[g].user, grant[g].version, grant[grant[g].code].version, FALSE)}
    BY <1>4 DEF IssueTokens, Sign, IssuedVersion
  <2> HIDE DEF g
  <2> QED
    BY <1>0, <2>1, <2>2, <2>3, SignEffect
<1> QED
  BY <1>0, <1>1, <1>2, <1>3, <1>4, SessionWriters, SessionsStay

-----------------------------------------------------------------------------
(* Every request relies on what is there. *)

Grows == AccountGrows /\ ResetGrows /\ BindingGrows /\ GrantGrows /\ SessionsGrow

\* A request does what it may, and comes to an exchange of a grant by consuming it.
Turns(p) ==
    \E r \in Request :
        /\ Becomes(p, r)
        /\ Works(r)'
        /\ r.step \in {"match", "issue"} =>
             \/ Consume(p) /\ r.on = request[p].on /\ UNCHANGED ended
                /\ Consumable(request[p].on) /\ grant' = [grant EXCEPT ![request[p].on].used = TRUE]
             \/ Exchanging(p) /\ r.on = request[p].on /\ UNCHANGED <<grant, ended>>

LEMMA VersionStays ==
  ASSUME TypeOK, AccountGrows, NEW u \in Users, NEW v \in 1..account[u].version
  PROVE  v \in 1..account'[u].version
<1>1. account[u].version \in Nat /\ account'[u].version \in Nat
      /\ account[u].version <= account'[u].version
  BY SignInAssumption DEF AccountGrows, TypeOK, Account, Versions
<1> QED
  BY <1>1

LEMMA StillWorks ==
  ASSUME TypeOK, Grows, NEW r \in Request, Works(r)
  PROVE  Works(r)'
<1>1. r.step \notin {"idle", "done"} => r.user \in Users /\ r.version \in 1..account'[r.user].version
  BY VersionStays DEF Works, Grows
<1>2. r.step = "code" => r.user = binding'
  BY SignInAssumption DEF Works, Grows, BindingGrows
<1> QED
  BY <1>1, <1>2 DEF Works, Grows, ResetGrows, SessionsGrow, GrantGrows

LEMMA DoneTurns ==
  ASSUME NEW p \in Requests, Done(p)
  PROVE  Turns(p)
<1>1. PICK r \in Request : Becomes(p, r) /\ r.step = "done"
  BY DoneRecord
<1>2. Works(r)'
  BY <1>1 DEF Works
<1> QED
  BY <1>1, <1>2 DEF Turns

LEMMA BeginTurns ==
  ASSUME TypeOK, Grows, NEW p \in Requests,
         NEW step \in Steps \ {"mail", "code", "desktop", "match", "issue"},
         NEW user \in Users, NEW on \in Tickets \cup {None} \cup Session, Begin(p, step, user, on),
         step = "reset" => on \in Resets,
         step \in {"approve", "claim"} => on \in Pairings,
         step = "bootstrap" => on \in sessions /\ user = on.user,
         step \in {"revoke", "consume"} => on \in Grants /\ grant[on].exists
  PROVE  Turns(p)
<1>1. PICK r \in Request : /\ Becomes(p, r) /\ r.step = step /\ r.user = user /\ r.on = on
                           /\ r.version \in 1..account[user].version
  BY BeginRecord
<1>2. r.version \in 1..account'[user].version
  BY <1>1, VersionStays DEF Grows
<1>3. Works(r)'
  BY <1>1, <1>2 DEF Works, Grows, ResetGrows, SessionsGrow, GrantGrows
<1> QED
  BY <1>1, <1>3 DEF Turns

LEMMA ArrivalTurns ==
  ASSUME TypeOK, ApprovedBySomebody, Grows, NEW p \in Requests, Arrival(p)
  PROVE  Turns(p)
<1>1. ASSUME NEW u \in Users, LogIn(p, u) \/ ChangePassword(p, u) \/ ResetEmployeePassword(p, u)
                              \/ RequestReset(p, u) \/ Consent(p, u)
      PROVE  Turns(p)
  <2>1. PICK step \in {"sign", "change", "make", "bind"} : Begin(p, step, u, None)
    BY <1>1 DEF LogIn, ChangePassword, ResetEmployeePassword, RequestReset, Consent
  <2> QED
    BY <2>1, BeginTurns DEF Steps
<1>2. ASSUME NEW u \in Users, NEW d \in Pairings, Approve(p, d, u) PROVE Turns(p)
  <2>1. Begin(p, "approve", u, d)
    BY <1>2 DEF Approve
  <2> QED
    BY <2>1, BeginTurns DEF Steps, Tickets
<1>3. ASSUME NEW t \in Resets, ReadReset(p, t) PROVE Turns(p)
  <2>1. Begin(p, "reset", reset[t].user, t) /\ reset[t].status = "open"
    BY <1>3 DEF ReadReset
  <2>2. reset[t].user \in Users
    BY <2>1 DEF TypeOK, ResetRow
  <2> QED
    BY <2>1, <2>2, BeginTurns DEF Steps, Tickets
<1>4. ASSUME NEW d \in Pairings, Collect(p, d) PROVE Turns(p)
  <2>1. Begin(p, "claim", pairing[d].user, d) /\ pairing[d].user \in Users
    BY <1>4 DEF Collect, ApprovedBySomebody
  <2> QED
    BY <2>1, BeginTurns DEF Steps, Tickets
<1>5. ASSUME NEW g \in Grants, Exchange(p, g) PROVE Turns(p)
  <2>1. grant[g].exists /\ grant[g].user \in Users
    BY <1>5, GrantFields DEF Exchange
  <2>2. PICK step \in {"revoke", "consume"} : Begin(p, step, grant[g].user, g)
    BY <1>5 DEF Exchange
  <2> QED
    BY <2>1, <2>2, BeginTurns DEF Steps, Tickets
<1>6. ASSUME NEW s \in sessions, Bootstrap(p, s) PROVE Turns(p)
  <2>1. Begin(p, "bootstrap", s.user, s) /\ s.user \in Users /\ s \in Session
    BY <1>6, SessionFields DEF Bootstrap
  <2> QED
    BY <2>1, BeginTurns DEF Steps
<1> QED
  BY <1>1, <1>2, <1>3, <1>4, <1>5, <1>6 DEF Arrival

LEMMA StepTurns ==
  ASSUME TypeOK, AllWork, Grows, NEW p \in Requests, Step(p)
  PROVE  Turns(p)
<1>1. CASE \/ SignIt(p) \/ WritePassword(p) \/ MailReset(p) \/ Reset(p) \/ WriteApproval(p)
           \/ SignDevice(p) \/ DesktopLogIn(p) \/ IssueCode(p) \/ RevokeChain(p) \/ IssueTokens(p)
  <2>1. Done(p)
    BY <1>1 DEF SignIt, WritePassword, MailReset, Reset, WriteApproval, SignDevice, DesktopLogIn,
                IssueCode, RevokeChain, IssueTokens
  <2> QED
    BY <2>1, DoneTurns
<1>2. CASE MakeReset(p)
  <2>1. PICK t \in Resets :
          /\ reset' = [reset EXCEPT ![t] = [status |-> "open", user |-> request[p].user]]
          /\ Becomes(p, [request[p] EXCEPT !.step = "mail", !.on = t])
    BY <1>2 DEF MakeReset
  <2>2. /\ request[p].user \in Users /\ request[p].version \in Versions
        /\ request[p].version \in 1..account[request[p].user].version
    BY <1>2, AtWork DEF MakeReset, At
  <2>3. request[p].version \in 1..account'[request[p].user].version
    BY <2>2, VersionStays DEF Grows
  <2> DEFINE q == [request[p] EXCEPT !.step = "mail", !.on = t]
  <2>4. q \in Request /\ q.step = "mail" /\ q.on = t /\ q.user = request[p].user
        /\ q.version = request[p].version
    BY <2>1, RequestFields DEF Request, Tickets
  <2>5. Becomes(p, q)
    BY <2>1
  <2> HIDE DEF q
  <2>6. PICK r \in Request : r = q
    BY <2>4
  <2>7. reset'[t].status = "open"
    BY <2>1 DEF TypeOK
  <2>8. Works(r)'
    BY <2>2, <2>3, <2>4, <2>6, <2>7 DEF Works
  <2> QED
    BY <2>4, <2>5, <2>6, <2>8 DEF Turns
<1>3. CASE ClaimPairing(p)
  <2>1. CASE Goto(p, "device")
    <3>1. /\ request[p].user \in Users /\ request[p].version \in 1..account[request[p].user].version
      BY <1>3, AtWork DEF ClaimPairing, At
    <3>2. PICK r \in Request : /\ Becomes(p, r) /\ r.step = "device" /\ r.user = request[p].user
                               /\ r.version = request[p].version
      BY <2>1, GotoRecord DEF Steps
    <3>3. r.version \in 1..account'[r.user].version
      BY <3>1, <3>2, VersionStays DEF Grows
    <3>4. Works(r)'
      BY <3>1, <3>2, <3>3 DEF Works
    <3> QED
      BY <3>2, <3>4 DEF Turns
  <2> QED
    BY <1>3, <2>1, DoneTurns DEF ClaimPairing
<1>4. CASE MakeBootstrap(p)
  <2> DEFINE v == account[request[p].user].version
             q == [request[p] EXCEPT !.step = "desktop", !.version = v]
  <2>1. request[p].user \in Users /\ request[p].on \in sessions
        /\ request[p].user = request[p].on.user
    BY <1>4, AtWork DEF MakeBootstrap, At, AllWork, Works
  <2>2. v \in Versions /\ v \in 1..v
    BY <2>1, AccountFields DEF Versions
  <2> HIDE DEF v
  <2>3. q \in Request /\ q.step = "desktop" /\ q.on = request[p].on /\ q.user = request[p].user
        /\ q.version = v
    BY <2>2, RequestFields DEF Request, Steps
  <2>4. Becomes(p, q)
    BY <1>4 DEF MakeBootstrap, v
  <2>5. v \in 1..account'[request[p].user].version
    BY <2>1, <2>2, VersionStays DEF Grows, v
  <2> HIDE DEF q
  <2>6. PICK r \in Request : r = q
    BY <2>3
  <2>7. Works(r)'
    BY <2>1, <2>3, <2>5, <2>6 DEF Works, Grows, SessionsGrow
  <2> QED
    BY <2>3, <2>4, <2>6, <2>7 DEF Turns
<1>5. CASE BindClient(p)
  <2>1. CASE Goto(p, "code") /\ binding' = request[p].user
    <3>1. /\ request[p].user \in Users /\ request[p].version \in 1..account[request[p].user].version
      BY <1>5, AtWork DEF BindClient, At
    <3>2. PICK r \in Request : /\ Becomes(p, r) /\ r.step = "code" /\ r.user = request[p].user
                               /\ r.version = request[p].version
      BY <2>1, GotoRecord DEF Steps
    <3>3. r.version \in 1..account'[r.user].version
      BY <3>1, <3>2, VersionStays DEF Grows
    <3>4. Works(r)'
      BY <2>1, <3>1, <3>2, <3>3 DEF Works
    <3> QED
      BY <3>2, <3>4 DEF Turns
  <2> QED
    BY <1>5, <2>1, DoneTurns DEF BindClient
<1>6. CASE Consume(p)
  <2>1. CASE /\ Goto(p, "match") /\ Consumable(request[p].on)
             /\ grant' = [grant EXCEPT ![request[p].on].used = TRUE]
    <3>1. /\ request[p].user \in Users /\ request[p].version \in 1..account[request[p].user].version
          /\ request[p].on \in Grants /\ grant[request[p].on].exists
      BY <1>6, AtWork, AtExchange DEF Consume, At
    <3>2. PICK r \in Request : /\ Becomes(p, r) /\ r.step = "match" /\ r.user = request[p].user
                               /\ r.version = request[p].version /\ r.on = request[p].on
      BY <2>1, GotoRecord DEF Steps
    <3>3. r.version \in 1..account'[r.user].version
      BY <3>1, <3>2, VersionStays DEF Grows
    <3>4. grant'[r.on].used /\ grant'[r.on].exists
      BY <2>1, <3>1, <3>2, UseEffect
    <3>5. Works(r)'
      BY <3>1, <3>2, <3>3, <3>4 DEF Works
    <3> QED
      BY <1>6, <2>1, <3>2, <3>5 DEF Turns, Consume
  <2> QED
    BY <1>6, <2>1, DoneTurns DEF Consume
<1>7. CASE UserStillMatches(p)
  <2>1. CASE Goto(p, "issue")
    <3>1. /\ request[p].user \in Users /\ request[p].version \in 1..account[request[p].user].version
          /\ request[p].on \in Grants /\ grant[request[p].on].exists /\ Exchanging(p)
          /\ grant[request[p].on].used
      BY <1>7, AtWork, AtExchange DEF UserStillMatches, At, Exchanging
    <3>2. PICK r \in Request : /\ Becomes(p, r) /\ r.step = "issue" /\ r.user = request[p].user
                               /\ r.version = request[p].version /\ r.on = request[p].on
      BY <2>1, GotoRecord DEF Steps
    <3>3. r.version \in 1..account'[r.user].version
      BY <3>1, <3>2, VersionStays DEF Grows
    <3>4. UNCHANGED <<grant, ended>>
      BY <1>7 DEF UserStillMatches, history
    <3>5. Works(r)'
      BY <3>1, <3>2, <3>3, <3>4 DEF Works
    <3> QED
      BY <3>1, <3>2, <3>4, <3>5 DEF Turns
  <2> QED
    BY <1>7, <2>1, DoneTurns DEF UserStillMatches
<1> QED
  BY <1>1, <1>2, <1>3, <1>4, <1>5, <1>6, <1>7 DEF Step

LEMMA AllTurn ==
  ASSUME TypeOK, AllWork, ApprovedBySomebody, Grows, NEW p \in Requests, Moves(p)
  PROVE  Turns(p)
  BY ArrivalTurns, StepTurns, DoneTurns DEF Moves, Fail

LEMMA WorkStep ==
  ASSUME TypeOK, AllWork, Grows, NEW p \in Requests, Turns(p)
  PROVE  request' \in [Requests -> Request] /\ AllWork'
<1>1. PICK r \in Request : Becomes(p, r) /\ Works(r)'
  BY DEF Turns
<1>2. /\ request' \in [Requests -> Request] /\ request'[p] = r
      /\ \A o \in Requests : o # p => request'[o] = request[o]
  BY <1>1 DEF TypeOK, Becomes
<1>3. ASSUME NEW o \in Requests PROVE Works(request[o])'
  <2>1. PICK q \in Request : q = request'[o]
    BY <1>2
  <2>2. Works(q)'
    <3>1. CASE o = p
      BY <1>1, <1>2, <2>1, <3>1
    <3>2. CASE o # p
      BY <1>2, <2>1, <3>2, StillWorks DEF AllWork
    <3> QED
      BY <3>1, <3>2
  <2> QED
    BY <2>1, <2>2 DEF Works
<1> QED
  BY <1>2, <1>3 DEF AllWork

-----------------------------------------------------------------------------
(* A ticket is exchanged once. *)

\* An exchange of t marks t; whatever else is not marked was not marked before.
LEMMA TakenEffect ==
  ASSUME TypeOK, StatusTells, NEW t \in Tickets, taken[t] = 0, Taken(t),
         \A r \in Resets : reset'[r].status \in {"none", "open"} =>
                             r # t /\ reset[r].status \in {"none", "open"},
         \A d \in Pairings : ~pairing'[d].consumed => d # t /\ ~pairing[d].consumed,
         \A g \in Grants : ~grant'[g].exists \/ ~grant'[g].used =>
                             g # t /\ (~grant[g].exists \/ ~grant[g].used)
  PROVE  taken' \in [Tickets -> Nat] /\ StatusTells'
<1>1. /\ taken' \in [Tickets -> Nat] /\ taken'[t] = 1
      /\ \A o \in Tickets : o # t => taken'[o] = taken[o]
  BY DEF TypeOK, Taken
<1> QED
  BY <1>1 DEF StatusTells, Tickets

LEMMA TakenStays ==
  ASSUME TypeOK, StatusTells, UNCHANGED taken,
         \A r \in Resets : reset'[r].status \in {"none", "open"} => reset[r].status \in {"none", "open"},
         \A d \in Pairings : ~pairing'[d].consumed => ~pairing[d].consumed,
         \A g \in Grants : ~grant'[g].exists \/ ~grant'[g].used => ~grant[g].exists \/ ~grant[g].used
  PROVE  taken' \in [Tickets -> Nat] /\ StatusTells'
  BY DEF TypeOK, StatusTells

LEMMA ResetStatus ==
  ASSUME TypeOK, AllWork, NEW p \in Requests, Moves(p),
         NEW r \in Resets, reset'[r].status \in {"none", "open"}
  PROVE  reset[r].status \in {"none", "open"}
<1>1. CASE MakeReset(p)
  <2>1. PICK t \in Resets : reset[t].status = "none" /\
                            reset' = [reset EXCEPT ![t] = [status |-> "open", user |-> request[p].user]]
    BY <1>1 DEF MakeReset
  <2> QED
    BY <2>1 DEF TypeOK
<1>2. CASE MailReset(p)
  <2>1. request[p].on \in Resets
    BY <1>2 DEF MailReset, At, AllWork, Works
  <2>2. CASE reset' = [reset EXCEPT ![request[p].on].status = "gone"]
    <3>1. CASE r = request[p].on
      BY <2>2, <3>1 DEF TypeOK, ResetRow
    <3>2. CASE r # request[p].on
      BY <2>1, <2>2, <3>2 DEF TypeOK
    <3> QED
      BY <3>1, <3>2
  <2> QED
    BY <1>2, <2>2 DEF MailReset
<1>3. CASE Reset(p)
  <2>1. CASE reset'[r] = [reset[r] EXCEPT !.status = "used"]
    BY <2>1 DEF TypeOK, ResetRow
  <2> QED
    BY <1>3, <2>1 DEF Reset
<1>4. ASSUME NEW u \in Users, RequestReset(p, u) PROVE reset[r].status \in {"none", "open"}
  <2>1. CASE reset'[r] = [reset[r] EXCEPT !.status = "gone"]
    BY <2>1 DEF TypeOK, ResetRow
  <2>2. reset'[r] = [reset[r] EXCEPT !.status = "gone"] \/ reset'[r] = reset[r]
    BY <1>4 DEF RequestReset
  <2> QED
    BY <2>1, <2>2
<1> QED
  BY <1>1, <1>2, <1>3, <1>4, ResetWriters

LEMMA PairingStatus ==
  ASSUME TypeOK, AllWork, NEW p \in Requests, Moves(p),
         NEW d \in Pairings, ~pairing'[d].consumed
  PROVE  ~pairing[d].consumed
<1>1. CASE WriteApproval(p)
  <2>1. PICK e \in Pairings, u \in Users : e = request[p].on /\ u = request[p].user
    BY <1>1, AtWork DEF WriteApproval, At, AllWork, Works
  <2>2. pairing' = [pairing EXCEPT ![e] = [pairing[e] EXCEPT !.status = "approved", !.user = u]]
    BY <1>1, <2>1 DEF WriteApproval, TypeOK
  <2> QED
    BY <2>2 DEF TypeOK, Pairing
<1>2. CASE ClaimPairing(p)
  <2>1. PICK e \in Pairings : e = request[p].on
    BY <1>2 DEF ClaimPairing, At, AllWork, Works
  <2>2. CASE pairing' = [pairing EXCEPT ![e] = [pairing[e] EXCEPT !.status = "consumed",
                                                                  !.consumed = TRUE]]
    BY <2>2 DEF TypeOK, Pairing
  <2>3. \/ UNCHANGED pairing
        \/ pairing' = [pairing EXCEPT ![e] = [pairing[e] EXCEPT !.status = "consumed",
                                                                !.consumed = TRUE]]
    BY <1>2, <2>1 DEF ClaimPairing, TypeOK
  <2> QED
    BY <2>2, <2>3
<1> QED
  BY <1>1, <1>2, PairingWriters

LEMMA TicketStep ==
  ASSUME TypeOK, AllWork, StatusTells, Grows, NEW p \in Requests, Moves(p)
  PROVE  taken' \in [Tickets -> Nat] /\ StatusTells'
<1>1. /\ \A r \in Resets : reset'[r].status \in {"none", "open"} => reset[r].status \in {"none", "open"}
      /\ \A d \in Pairings : ~pairing'[d].consumed => ~pairing[d].consumed
      /\ \A g \in Grants : ~grant'[g].exists \/ ~grant'[g].used => ~grant[g].exists \/ ~grant[g].used
  BY ResetStatus, PairingStatus DEF Grows, GrantGrows
<1>2. CASE UNCHANGED taken
  BY <1>1, <1>2, TakenStays
<1>3. CASE Reset(p) /\ ~UNCHANGED taken
  <2>1. PICK t \in Resets : t = request[p].on
    BY <1>3 DEF Reset, At, AllWork, Works
  <2>2. Unused(t) /\ Taken(t) /\ reset'[t] = [reset[t] EXCEPT !.status = "used"]
    BY <1>3, <2>1 DEF Reset
  <2>3. reset'[t].status = "used" /\ taken[t] = 0 /\ t \in Tickets
    BY <2>2 DEF Unused, StatusTells, Tickets, TypeOK, ResetRow
  <2> QED
    BY <1>1, <2>2, <2>3, TakenEffect, SignInAssumption
<1>4. CASE ClaimPairing(p) /\ ~UNCHANGED taken
  <2>1. PICK d \in Pairings : d = request[p].on
    BY <1>4 DEF ClaimPairing, At, AllWork, Works
  <2>2. /\ Collectable(d) /\ Taken(d)
        /\ pairing' = [pairing EXCEPT ![d] = [pairing[d] EXCEPT !.status = "consumed", !.consumed = TRUE]]
    BY <1>4, <2>1 DEF ClaimPairing, TypeOK
  <2>3. pairing'[d].consumed /\ taken[d] = 0 /\ d \in Tickets
    BY <2>2 DEF Collectable, StatusTells, Tickets, TypeOK, Pairing
  <2> QED
    BY <1>1, <2>2, <2>3, TakenEffect, SignInAssumption
<1>5. CASE Consume(p) /\ ~UNCHANGED taken
  <2>1. PICK g \in Grants : g = request[p].on /\ grant[g].exists
    BY <1>5, AtExchange DEF Consume, At
  <2>2. Consumable(g) /\ Taken(g) /\ grant' = [grant EXCEPT ![g].used = TRUE]
    BY <1>5, <2>1 DEF Consume
  <2>3. grant'[g].used /\ grant'[g].exists /\ taken[g] = 0 /\ g \in Tickets
    BY <2>1, <2>2, UseEffect DEF Consumable, StatusTells, Tickets
  <2> QED
    BY <1>1, <2>2, <2>3, TakenEffect, SignInAssumption
<1> QED
  BY <1>2, <1>3, <1>4, <1>5, TakenWriters

-----------------------------------------------------------------------------
(* One approval of an AI client lives on in one place. *)

LEMMA VersionsStay ==
  ASSUME TypeOK, StemsFromACode, AccountGrows, NEW g \in Grants, grant[g].exists
  PROVE  grant[g].version \in 1..account'[grant[g].user].version
<1>1. grant[g].user \in Users
  BY GrantFields
<1> QED
  BY <1>1, CodeFields, VersionStays

\* The code of an exchange is a code.
LEMMA ExchangeCode ==
  ASSUME TypeOK, AllWork, StemsFromACode, NEW p \in Requests, Exchanging(p)
  PROVE  /\ request[p].on \in Grants /\ grant[request[p].on].exists /\ grant[request[p].on].used
         /\ CodeOf(p) \in Grants /\ grant[CodeOf(p)].exists
<1>1. request[p].on \in Grants /\ grant[request[p].on].exists /\ grant[request[p].on].used
  BY AtExchange DEF Exchanging
<1> QED
  BY <1>1, CodeFields DEF CodeOf

\* The grants stay, and no exchange begins.
LEMMA ChainsStay ==
  ASSUME TypeOK, AllWork, Chains, AccountGrows, UNCHANGED <<grant, ended>>,
         \A q \in Requests : request'[q].step \in {"match", "issue"} =>
                               Exchanging(q) /\ request'[q].on = request[q].on
  PROVE  Chains' /\ ended' \subseteq Grants
<1>1. StemsFromACode'
  BY VersionsStay DEF StemsFromACode, Chains
<1>2. \A q \in Requests : Exchanging(q)' => Exchanging(q) /\ CodeOf(q)' = CodeOf(q)
  BY DEF Exchanging, CodeOf
<1>3. \A g \in Grants : Usable(g)' = Usable(g)
  BY DEF Usable
<1> QED
  BY <1>1, <1>2, <1>3 DEF Chains, OnePlacePerCode, EndedIsOver, TypeOK

\* Who is done exchanges nothing; the others do what they did.
LEMMA DoneExchanges ==
  ASSUME TypeOK, NEW p \in Requests, Done(p)
  PROVE  /\ ~Exchanging(p)'
         /\ \A q \in Requests : q # p => request'[q] = request[q]
<1>1. PICK r \in Request : Becomes(p, r) /\ r.step = "done"
  BY DoneRecord
<1> QED
  BY <1>1, BecomesEffect DEF Exchanging

LEMMA IssueCodeChains ==
  ASSUME TypeOK, AllWork, Chains, Grows, NEW p \in Requests, IssueCode(p)
  PROVE  Chains' /\ ended' \subseteq Grants
<1>1. request[p].user \in Users /\ request[p].version \in Versions /\ request[p].user = binding
      /\ request[p].version \in 1..account[request[p].user].version
  BY AtWork DEF IssueCode, At, AllWork, Works
<1>2. PICK c \in Grants : Create(c, request[p].user, request[p].version, c)
  BY DEF IssueCode
<1>3. /\ ~grant[c].exists
      /\ grant'[c].exists /\ grant'[c].user = request[p].user /\ grant'[c].code = c
      /\ grant'[c].version = request[p].version /\ ~grant'[c].used /\ ~grant'[c].revoked
      /\ \A h \in Grants : h # c => grant'[h] = grant[h]
  BY <1>1, <1>2, CreateEffect
<1>4. UNCHANGED ended /\ ~Exchanging(p)' /\ \A q \in Requests : q # p => request'[q] = request[q]
  BY DoneExchanges DEF IssueCode, history
<1>5. \A g \in Grants : grant[g].exists => g # c /\ grant[g].code # c
  BY <1>3, CodeFields DEF Chains
<1>6. ASSUME NEW q \in Requests, Exchanging(q)'
      PROVE  Exchanging(q) /\ CodeOf(q)' = CodeOf(q) /\ CodeOf(q) # c
  <2>1. q # p /\ request'[q] = request[q] /\ Exchanging(q)
    BY <1>4, <1>6 DEF Exchanging
  <2>2. request[q].on \in Grants /\ grant[request[q].on].exists
    BY <2>1, ExchangeCode DEF Chains
  <2> QED
    BY <1>3, <1>5, <2>1, <2>2 DEF CodeOf
<1>7. StemsFromACode'
  <2> SUFFICES ASSUME NEW g \in Grants, grant'[g].exists
               PROVE  LET code == grant'[g].code IN
                      /\ code \in Grants /\ grant'[code].exists /\ grant'[code].code = code
                      /\ grant'[g].version = grant'[code].version
                      /\ grant'[g].version \in 1..account'[grant'[g].user].version
    BY DEF StemsFromACode
  <2>1. CASE g = c
    <3>1. request[p].version \in 1..account'[request[p].user].version
      BY <1>1, VersionStays DEF Grows
    <3> QED
      BY <1>3, <2>1, <3>1
  <2>2. CASE g # c
    <3>1. grant'[g] = grant[g] /\ grant[g].exists
      BY <1>3, <2>2
    <3>2. grant[g].version \in 1..account'[grant[g].user].version
      BY <3>1, VersionsStay DEF Chains, Grows
    <3> QED
      BY <1>3, <1>5, <3>1, <3>2, CodeFields DEF Chains
  <2> QED
    BY <2>1, <2>2
<1>8. ASSUME NEW g \in Grants, Usable(g)', g # c
      PROVE  Usable(g) /\ grant'[g].code = grant[g].code /\ grant[g].code # c
  <2>1. grant'[g] = grant[g]
    BY <1>3, <1>8
  <2> QED
    BY <1>5, <1>8, <2>1 DEF Usable
<1>9. OnePlacePerCode'
  BY <1>3, <1>6, <1>8 DEF OnePlacePerCode, Chains
<1>10. EndedIsOver' /\ ended' \subseteq Grants
  <2>1. c \notin ended
    BY <1>3 DEF EndedIsOver, Chains
  <2> QED
    BY <1>3, <1>4, <1>6, <1>8, <2>1 DEF EndedIsOver, Chains, TypeOK
<1> QED
  BY <1>7, <1>9, <1>10 DEF Chains

LEMMA IssueTokensChains ==
  ASSUME TypeOK, AllWork, Chains, Grows, NEW p \in Requests, IssueTokens(p)
  PROVE  Chains' /\ ended' \subseteq Grants
<1>1. Exchanging(p)
  BY DEF IssueTokens, At, Exchanging
<1>2. PICK g \in Grants : g = request[p].on
  BY <1>1, ExchangeCode DEF Chains
<1>3. /\ grant[g].exists /\ grant[g].used /\ grant[g].user = binding /\ binding \in Users
      /\ CodeOf(p) = grant[g].code
  BY <1>1, <1>2, AtExchange DEF Exchanging, CodeOf
<1>4. PICK c \in Grants : c = grant[g].code
  BY <1>3, CodeFields DEF Chains
<1>5. /\ grant[c].exists /\ grant[c].code = c /\ grant[c].version = grant[g].version
      /\ grant[g].version \in Versions
  BY <1>3, <1>4, CodeFields DEF Chains
<1>6. PICK next \in Grants : Create(next, grant[g].user, grant[g].version, c)
  BY <1>2, <1>4 DEF IssueTokens, IssuedVersion
<1>7. /\ ~grant[next].exists
      /\ grant'[next].exists /\ grant'[next].user = grant[g].user /\ grant'[next].code = c
      /\ grant'[next].version = grant[g].version /\ ~grant'[next].used /\ ~grant'[next].revoked
      /\ \A h \in Grants : h # next => grant'[h] = grant[h]
  BY <1>3, <1>5, <1>6, CreateEffect
<1>8. UNCHANGED ended /\ ~Exchanging(p)' /\ \A q \in Requests : q # p => request'[q] = request[q]
  BY DoneExchanges DEF IssueTokens, history
<1>9. ASSUME NEW q \in Requests, Exchanging(q)'
      PROVE  q # p /\ Exchanging(q) /\ CodeOf(q)' = CodeOf(q)
  <2>1. q # p /\ request'[q] = request[q] /\ Exchanging(q)
    BY <1>8, <1>9 DEF Exchanging
  <2>2. request[q].on \in Grants /\ grant[request[q].on].exists
    BY <2>1, ExchangeCode DEF Chains
  <2>3. grant'[request[q].on] = grant[request[q].on]
    BY <1>7, <2>2
  <2> QED
    BY <2>1, <2>3 DEF CodeOf
<1>10. StemsFromACode'
  <2> SUFFICES ASSUME NEW h \in Grants, grant'[h].exists
               PROVE  LET code == grant'[h].code IN
                      /\ code \in Grants /\ grant'[code].exists /\ grant'[code].code = code
                      /\ grant'[h].version = grant'[code].version
                      /\ grant'[h].version \in 1..account'[grant'[h].user].version
    BY DEF StemsFromACode
  <2>1. CASE h = next
    <3>1. grant[g].version \in 1..account'[grant[g].user].version
      BY <1>3, VersionsStay DEF Chains, Grows
    <3> QED
      BY <1>5, <1>7, <2>1, <3>1
  <2>2. CASE h # next
    <3>1. grant'[h] = grant[h] /\ grant[h].exists
      BY <1>7, <2>2
    <3>2. grant[h].version \in 1..account'[grant[h].user].version
      BY <3>1, VersionsStay DEF Chains, Grows
    <3>3. grant[h].code \in Grants /\ grant'[grant[h].code] = grant[grant[h].code]
      BY <1>7, <3>1, CodeFields DEF Chains
    <3> QED
      BY <3>1, <3>2, <3>3, CodeFields DEF Chains
  <2> QED
    BY <2>1, <2>2
<1>11. ASSUME NEW h \in Grants, Usable(h)'
       PROVE  h = next \/ (Usable(h) /\ grant'[h].code = grant[h].code /\ grant[h].code # c)
  <2>1. CASE h # next
    <3>1. grant'[h] = grant[h] /\ Usable(h)
      BY <1>7, <1>11, <2>1 DEF Usable
    <3> QED
      BY <1>1, <1>3, <1>4, <3>1 DEF Chains, OnePlacePerCode
  <2> QED
    BY <2>1
<1>12. \A q \in Requests : Exchanging(q)' => Exchanging(q) /\ CodeOf(q)' = CodeOf(q) /\ CodeOf(q) # c
  BY <1>1, <1>3, <1>4, <1>9 DEF Chains, OnePlacePerCode
<1>13. OnePlacePerCode'
  BY <1>7, <1>11, <1>12 DEF OnePlacePerCode, Chains
<1>14. EndedIsOver' /\ ended' \subseteq Grants
  <2>1. c \notin ended
    BY <1>1, <1>3, <1>4 DEF EndedIsOver, Chains
  <2> QED
    BY <1>7, <1>8, <1>11, <1>12, <2>1 DEF EndedIsOver, Chains, TypeOK
<1> QED
  BY <1>10, <1>13, <1>14 DEF Chains

LEMMA ConsumeChains ==
  ASSUME TypeOK, AllWork, Chains, Grows, NEW p \in Requests, UNCHANGED ended,
         At(p, "consume"), Consumable(request[p].on),
         grant' = [grant EXCEPT ![request[p].on].used = TRUE],
         request'[p].on = request[p].on,
         \A q \in Requests : q # p => request'[q] = request[q]
  PROVE  Chains' /\ ended' \subseteq Grants
<1>1. PICK g \in Grants : g = request[p].on /\ grant[g].exists
  BY AtExchange DEF At
<1>2. Usable(g)
  BY <1>1 DEF Usable, Consumable
<1>3. /\ grant'[g].used
      /\ \A h \in Grants : h # g => grant'[h] = grant[h]
      /\ \A h \in Grants : /\ grant'[h].exists = grant[h].exists
                           /\ grant'[h].code = grant[h].code
                           /\ grant[h].exists => grant'[h].version = grant[h].version
                                                 /\ grant'[h].user = grant[h].user
  <2>1. grant' = [grant EXCEPT ![g].used = TRUE]
    BY <1>1
  <2> QED
    BY <2>1, UseEffect DEF GrantGrows
<1>4. StemsFromACode'
  <2>1. \A h \in Grants : grant[h].exists =>
          grant'[h].version = grant[h].version /\ grant'[h].user = grant[h].user
          /\ grant[h].version \in 1..account'[grant[h].user].version
          /\ grant[h].code \in Grants /\ grant[grant[h].code].exists
    BY <1>3, VersionsStay, CodeFields DEF Chains, Grows
  <2> SUFFICES ASSUME NEW h \in Grants, grant[h].exists
               PROVE  LET code == grant'[h].code IN
                      /\ code \in Grants /\ grant'[code].exists /\ grant'[code].code = code
                      /\ grant'[h].version = grant'[code].version
                      /\ grant'[h].version \in 1..account'[grant'[h].user].version
    BY <1>3 DEF StemsFromACode
  <2>2. PICK code \in Grants : code = grant[h].code
    BY <2>1
  <2>3. /\ grant[code].exists /\ grant[code].code = code /\ grant[h].version = grant[code].version
    BY <2>2, CodeFields DEF Chains
  <2>4. /\ grant'[h].code = code /\ grant'[code].exists /\ grant'[code].code = code
        /\ grant'[h].version = grant'[code].version
    BY <1>3, <2>2, <2>3
  <2>5. grant'[h].version \in 1..account'[grant'[h].user].version
    BY <1>3, <2>1
  <2> QED
    BY <2>4, <2>5
<1>5. \A h \in Grants : Usable(h)' => h # g /\ Usable(h) /\ grant'[h].code = grant[h].code
  BY <1>3 DEF Usable
<1>6. \A h \in Grants : Usable(h)' => grant'[h].code # grant[g].code
  BY <1>2, <1>5 DEF OnePlacePerCode, Chains
<1>7. CodeOf(p)' = grant[g].code
  BY <1>1, <1>3 DEF CodeOf
<1>8. ASSUME NEW q \in Requests, q # p, Exchanging(q)'
      PROVE  Exchanging(q) /\ CodeOf(q)' = CodeOf(q) /\ CodeOf(q) # grant[g].code
  <2>1. request'[q] = request[q] /\ Exchanging(q)
    BY <1>8 DEF Exchanging
  <2>2. request[q].on \in Grants
    BY <2>1, ExchangeCode DEF Chains
  <2>3. CodeOf(q)' = CodeOf(q)
    BY <1>3, <2>1, <2>2 DEF CodeOf
  <2> QED
    BY <1>2, <2>1, <2>3 DEF Chains, OnePlacePerCode
<1>9. OnePlacePerCode'
  <2>1. \A q, r \in Requests : Exchanging(q)' /\ Exchanging(r)' /\ CodeOf(q)' = CodeOf(r)' => q = r
    BY <1>7, <1>8 DEF OnePlacePerCode, Chains
  <2>2. \A h \in Grants, q \in Requests : ~(Usable(h)' /\ Exchanging(q)' /\ grant'[h].code = CodeOf(q)')
    BY <1>5, <1>6, <1>7, <1>8 DEF OnePlacePerCode, Chains
  <2>3. \A h, i \in Grants : Usable(h)' /\ Usable(i)' /\ grant'[h].code = grant'[i].code => h = i
    BY <1>5 DEF OnePlacePerCode, Chains
  <2> QED
    BY <2>1, <2>2, <2>3 DEF OnePlacePerCode
<1>10. EndedIsOver' /\ ended' \subseteq Grants
  <2>1. \A q \in Requests : Exchanging(q)' => CodeOf(q)' \notin ended
    BY <1>2, <1>7, <1>8 DEF EndedIsOver, Chains
  <2> QED
    BY <1>3, <1>5, <2>1 DEF EndedIsOver, Chains, TypeOK
<1> QED
  BY <1>4, <1>9, <1>10 DEF Chains

LEMMA RevokeChains ==
  ASSUME TypeOK, AllWork, Chains, Grows, NEW p \in Requests, RevokeChain(p)
  PROVE  Chains' /\ ended' \subseteq Grants
<1>1. \A g \in Grants :
        /\ grant'[g].exists = grant[g].exists /\ grant'[g].user = grant[g].user
        /\ grant'[g].code = grant[g].code /\ grant'[g].version = grant[g].version
        /\ grant'[g].used = grant[g].used
        /\ grant[g].revoked => grant'[g].revoked
        /\ grant[g].exists /\ grant[g].user = request[p].user => grant'[g].revoked
  BY RevokeEffect
<1>2. ~Exchanging(p)' /\ \A q \in Requests : q # p => request'[q] = request[q]
  BY DoneExchanges DEF RevokeChain
<1>3. ASSUME NEW q \in Requests, Exchanging(q)' PROVE Exchanging(q) /\ CodeOf(q)' = CodeOf(q)
  <2>1. request'[q] = request[q] /\ Exchanging(q)
    BY <1>2, <1>3 DEF Exchanging
  <2>2. request[q].on \in Grants
    BY <2>1, ExchangeCode DEF Chains
  <2> QED
    BY <1>1, <2>1, <2>2 DEF CodeOf
<1>4. \A g \in Grants : Usable(g)' => Usable(g) /\ grant'[g].code = grant[g].code
                                      /\ grant[g].user # request[p].user
  BY <1>1 DEF Usable
<1>5. StemsFromACode'
  <2>1. \A g \in Grants : grant[g].exists =>
          grant[g].code \in Grants /\ grant[g].version \in 1..account'[grant[g].user].version
    BY VersionsStay, CodeFields DEF Chains, Grows
  <2> QED
    BY <1>1, <2>1 DEF StemsFromACode, Chains
<1>6. OnePlacePerCode'
  BY <1>3, <1>4 DEF OnePlacePerCode, Chains
<1>7. ASSUME NEW code \in ended', code \notin ended
      PROVE  \E g \in Grants : /\ grant[g].exists /\ grant[g].user = request[p].user
                               /\ code = grant[g].code /\ Underway(code) = {}
  BY <1>7 DEF RevokeChain
<1>8. ASSUME NEW code \in ended' PROVE code \in Grants /\ grant'[code].exists
  <2>1. CASE code \in ended
    BY <1>1, <2>1 DEF EndedIsOver, Chains, TypeOK
  <2>2. CASE code \notin ended
    <3>1. PICK g \in Grants : grant[g].exists /\ code = grant[g].code
      BY <1>7, <2>2
    <3> QED
      BY <1>1, <3>1, CodeFields DEF Chains
  <2> QED
    BY <2>1, <2>2
<1>9. ASSUME NEW h \in Grants, Usable(h)' PROVE grant'[h].code \notin ended'
  <2>1. Usable(h) /\ grant'[h].code = grant[h].code /\ grant[h].user # request[p].user
        /\ grant[h].exists
    BY <1>4, <1>9 DEF Usable
  <2>2. grant[h].code \notin ended
    BY <2>1 DEF EndedIsOver, Chains
  <2>3. ASSUME NEW g \in Grants, grant[g].exists PROVE grant[g].user # request[p].user
    BY <2>1, <2>3, GrantFields
  <2> QED
    BY <1>7, <2>1, <2>2, <2>3
<1>10. ASSUME NEW q \in Requests, Exchanging(q)' PROVE CodeOf(q)' \notin ended'
  <2>1. Exchanging(q) /\ CodeOf(q)' = CodeOf(q) /\ CodeOf(q) \notin ended
    BY <1>3, <1>10 DEF EndedIsOver, Chains
  <2>2. q \in Underway(CodeOf(q))
    BY <2>1 DEF Underway, CodeOf, Exchanging
  <2> QED
    BY <1>7, <2>1, <2>2
<1>11. EndedIsOver' /\ ended' \subseteq Grants
  BY <1>8, <1>9, <1>10 DEF EndedIsOver
<1> QED
  BY <1>5, <1>6, <1>11 DEF Chains

LEMMA ChainStep ==
  ASSUME TypeOK, AllWork, Chains, Grows, NEW p \in Requests, Moves(p), Turns(p)
  PROVE  Chains' /\ ended' \subseteq Grants
<1>1. PICK r \in Request :
        /\ Becomes(p, r)
        /\ r.step \in {"match", "issue"} =>
             \/ Consume(p) /\ r.on = request[p].on /\ UNCHANGED ended
                /\ Consumable(request[p].on) /\ grant' = [grant EXCEPT ![request[p].on].used = TRUE]
             \/ Exchanging(p) /\ r.on = request[p].on /\ UNCHANGED <<grant, ended>>
  BY DEF Turns
<1>2. request'[p] = r /\ \A q \in Requests : q # p => request'[q] = request[q]
  BY <1>1, BecomesEffect
<1>3. CASE Consume(p)
  <2>1. CASE ~(r.step \in {"match", "issue"})
    <3>1. At(p, "consume") /\ UNCHANGED ended
      BY <1>3 DEF Consume
    <3>2. CASE UNCHANGED grant
      BY <1>2, <2>1, <3>1, <3>2, ChainsStay DEF Exchanging, Grows
    <3>3. CASE Goto(p, "match")
      <4>1. request'[p] = [request[p] EXCEPT !.step = "match"]
        BY <3>3 DEF Goto, Becomes, TypeOK
      <4>2. r.step = "match"
        BY <1>2, <4>1, RequestFields DEF Request
      <4> QED
        BY <2>1, <4>2
    <3> QED
      BY <1>3, <3>2, <3>3 DEF Consume
  <2>2. CASE r.step \in {"match", "issue"}
    <3>1. At(p, "consume") /\ UNCHANGED ended /\ ~Exchanging(p)
      BY <1>3 DEF Consume, At, Exchanging
    <3> QED
      BY <1>1, <1>2, <2>2, <3>1, ConsumeChains
  <2> QED
    BY <2>1, <2>2
<1>4. CASE UNCHANGED <<grant, ended>> /\ ~Consume(p)
  BY <1>1, <1>2, <1>4, ChainsStay DEF Exchanging, Grows
<1> QED
  BY <1>3, <1>4, IssueCodeChains, IssueTokensChains, RevokeChains, GrantWriters

-----------------------------------------------------------------------------
(* The invariant holds. *)

LEMMA InvInit == Init => Inv
<1> SUFFICES ASSUME Init PROVE Inv
  OBVIOUS
<1>1. /\ \A u \in Users : account[u] = [active |-> TRUE, version |-> 1]
      /\ 1 \in Versions /\ 1 <= 1
  BY SignInAssumption DEF Init, Versions
<1>2. sessions \subseteq Session
      /\ \A s \in sessions : s.user \in Users /\ s.version = 1 /\ s.proof = 1
  <2> SUFFICES ASSUME NEW s \in sessions
               PROVE  s \in Session /\ s.user \in Users /\ s.version = 1 /\ s.proof = 1
    OBVIOUS
  <2>1. PICK u \in Users : s = Token(u, 1, 1, FALSE)
    BY DEF Init
  <2> QED
    BY <1>1, <2>1 DEF Token, Session
<1>3. Idle \in Request /\ Idle.step = "idle"
  BY DEF Idle, Request
<1>4. /\ account \in [Users -> Account] /\ reset \in [Resets -> ResetRow]
      /\ pairing \in [Pairings -> Pairing] /\ grant \in [Grants -> Grant]
      /\ taken \in [Tickets -> Nat] /\ request \in [Requests -> Request] /\ ended = {}
  BY <1>1, <1>3 DEF Init, Account, ResetRow, Pairing, Grant
<1>5. /\ \A t \in Resets : reset[t].status = "none" /\ reset[t].user = None
      /\ \A d \in Pairings : pairing[d].status = "none"
      /\ \A g \in Grants : ~grant[g].exists
      /\ \A t \in Tickets : taken[t] = 0
      /\ \A q \in Requests : request[q].step = "idle"
      /\ binding = None
  BY <1>3 DEF Init
<1>6. TypeOK
  <2>1. \A s \in sessions : s.version <= account[s.user].version
    BY <1>1, <1>2
  <2> QED
    BY <1>2, <1>4, <1>5, <2>1 DEF TypeOK
<1>7. AllWork
  BY <1>5 DEF AllWork, Works
<1>8. StatusTells
  BY <1>5 DEF StatusTells, Tickets
<1>9. Chains
  BY <1>4, <1>5 DEF Chains, StemsFromACode, OnePlacePerCode, EndedIsOver, Usable, Exchanging
<1>10. ApprovedBySomebody /\ ProofIsVersion
  BY <1>2, <1>5 DEF ApprovedBySomebody, ProofIsVersion
<1> QED
  BY <1>6, <1>7, <1>8, <1>9, <1>10 DEF Inv

LEMMA TypeNext ==
  ASSUME TypeOK, Grows, request' \in [Requests -> Request],
         taken' \in [Tickets -> Nat], ended' \subseteq Grants, PairingGrows
  PROVE  TypeOK'
<1>1. ASSUME NEW g \in Grants, grant'[g].exists
      PROVE  grant'[g].user = binding' /\ grant'[g].user # None
  <2>1. CASE grant[g].exists
    BY <2>1, GrantFields, SignInAssumption DEF Grows, GrantGrows, BindingGrows
  <2>2. CASE ~grant[g].exists
    BY <1>1, <2>2, SignInAssumption DEF Grows, GrantGrows, BindingGrows
  <2> QED
    BY <2>1, <2>2
<1> QED
  BY <1>1 DEF TypeOK, Grows, AccountGrows, ResetGrows, PairingGrows, BindingGrows, GrantGrows,
              SessionsGrow

LEMMA RequestStep ==
  ASSUME Inv, NEW p \in Requests, Moves(p)
  PROVE  Inv'
<1>1. Grows /\ PairingGrows
  BY AccountStep, ResetStep, PairingStep, BindingStep, GrantStep, SessionsStep
  DEF Inv, Chains, Grows
<1>2. Turns(p)
  BY <1>1, AllTurn DEF Inv
<1>3. request' \in [Requests -> Request] /\ AllWork'
  BY <1>1, <1>2, WorkStep DEF Inv
<1>4. taken' \in [Tickets -> Nat] /\ StatusTells'
  BY <1>1, TicketStep DEF Inv
<1>5. Chains' /\ ended' \subseteq Grants
  BY <1>1, <1>2, ChainStep DEF Inv
<1>6. TypeOK'
  BY <1>1, <1>3, <1>4, <1>5, TypeNext DEF Inv
<1> QED
  BY <1>1, <1>3, <1>4, <1>5, <1>6 DEF Inv, Grows, PairingGrows, SessionsGrow

\* An account is switched on or off.
LEMMA ActiveStep ==
  ASSUME Inv, NEW u \in Users, NEW active \in BOOLEAN, SetActive(u, active)
  PROVE  Inv'
<1>1. account[u] \in Account /\ TypeOK
  BY AccountFields DEF Inv
<1>2. account' = [account EXCEPT ![u] = [account[u] EXCEPT !.active = active]]
  BY DEF SetActive
<1>3. [account[u] EXCEPT !.active = active] \in Account
      /\ [account[u] EXCEPT !.active = active].version = account[u].version
  BY <1>1 DEF Account
<1>4. account' \in [Users -> Account] /\ \A v \in Users : account'[v].version = account[v].version
  BY <1>1, <1>2, <1>3 DEF TypeOK
<1>5. UNCHANGED <<reset, pairing, grant, binding, sessions, request, taken, ended>>
  BY DEF SetActive, history
<1>6. TypeOK'
  <2>1. \A s \in sessions : s.version <= account'[s.user].version
    BY <1>1, <1>4, SessionFields
  <2> QED
    BY <1>1, <1>4, <1>5, <2>1 DEF TypeOK
<1>7. AllWork'
  BY <1>4, <1>5 DEF Inv, AllWork, Works
<1>8. Chains'
  <2>1. \A g \in Grants : grant[g].exists => grant[g].user \in Users
    BY <1>1, GrantFields
  <2>2. StemsFromACode'
    BY <1>4, <1>5, <2>1 DEF Inv, Chains, StemsFromACode
  <2> QED
    BY <1>5, <2>2 DEF Inv, Chains, OnePlacePerCode, EndedIsOver, Usable, Exchanging, CodeOf
<1> QED
  BY <1>5, <1>6, <1>7, <1>8 DEF Inv, ApprovedBySomebody, StatusTells, ProofIsVersion

\* A PC asks to be paired.
LEMMA StartStep ==
  ASSUME Inv, NEW d \in Pairings, StartPairing(d)
  PROVE  Inv'
<1>1. pairing[d] \in Pairing
  BY DEF Inv, TypeOK
<1>2. pairing' = [pairing EXCEPT ![d] = [pairing[d] EXCEPT !.status = "pending"]]
  BY DEF StartPairing
<1>3. /\ [pairing[d] EXCEPT !.status = "pending"] \in Pairing
      /\ [pairing[d] EXCEPT !.status = "pending"].status = "pending"
      /\ [pairing[d] EXCEPT !.status = "pending"].consumed = pairing[d].consumed
  BY <1>1 DEF Pairing
<1>4. /\ pairing' \in [Pairings -> Pairing]
      /\ \A e \in Pairings : /\ pairing'[e].consumed = pairing[e].consumed
                             /\ pairing'[e].status = "approved" => pairing'[e] = pairing[e]
  BY <1>2, <1>3 DEF Inv, TypeOK
<1>5. UNCHANGED <<account, reset, grant, binding, sessions, request, taken, ended>>
  BY DEF StartPairing, history
<1>6. TypeOK' /\ AllWork' /\ ApprovedBySomebody' /\ StatusTells'
  BY <1>4, <1>5 DEF Inv, TypeOK, AllWork, Works, ApprovedBySomebody, StatusTells
<1> QED
  BY <1>5, <1>6
  DEF Inv, Chains, StemsFromACode, OnePlacePerCode, EndedIsOver, Usable, Exchanging, CodeOf,
      ProofIsVersion

LEMMA InvStep == Inv /\ [Next]_vars => Inv'
<1> SUFFICES ASSUME Inv, [Next]_vars PROVE Inv'
  OBVIOUS
<1>1. ASSUME NEW p \in Requests, Arrival(p) \/ Step(p) \/ Fail(p) PROVE Inv'
  BY <1>1, RequestStep DEF Moves
<1>2. CASE UNCHANGED vars
  BY <1>2
  DEF Inv, vars, TypeOK, AllWork, Works, ApprovedBySomebody, StatusTells, Chains,
      StemsFromACode, OnePlacePerCode, EndedIsOver, Usable, Exchanging, CodeOf, ProofIsVersion
<1> QED
  BY <1>1, <1>2, ActiveStep, StartStep DEF Next

LEMMA InvAlways == Spec => []Inv
  BY InvInit, InvStep, PTL DEF Spec

-----------------------------------------------------------------------------
(* What holds of access, for any number of users, requests and tickets. *)

\* Every row, ticket, token and request is what its type says, a grant is of the company
\* its AI client is bound to, and no token is of a version that has not been.
THEOREM AccessTypeCorrect == Spec => []TypeOK
<1>1. Inv => TypeOK
  BY DEF Inv
<1> QED
  BY <1>1, InvAlways, PTL

\* A link, a pairing, a code and a refresh token each give access once, one approval of an
\* AI client keeps at most one usable grant, and none after a replay ended it while none of
\* its exchanges was under way.
THEOREM TicketsWorkOnce == Spec => []TakenOnce
<1>1. ASSUME Inv PROVE OneUsableGrantPerCode
  <2> SUFFICES ASSUME NEW code \in Grants
               PROVE  Cardinality({g \in Grants : grant[g].exists /\ grant[g].code = code
                                                  /\ ~grant[g].used /\ ~grant[g].revoked})
                      <= (IF code \in ended THEN 0 ELSE 1)
    BY DEF OneUsableGrantPerCode
  <2> DEFINE usable == {g \in Grants : grant[g].exists /\ grant[g].code = code
                                       /\ ~grant[g].used /\ ~grant[g].revoked}
  <2>1. code \in ended => usable = {}
    BY <1>1 DEF Inv, Chains, EndedIsOver, Usable
  <2>2. \A g, h \in usable : g = h
    BY <1>1 DEF Inv, Chains, OnePlacePerCode, Usable
  <2> HIDE DEF usable
  <2>3. usable = {} \/ \E g \in usable : usable = {g}
    BY <2>2
  <2>4. Cardinality(usable) = 0 \/ (usable # {} /\ Cardinality(usable) = 1)
    BY <2>3, FS_EmptySet, FS_Singleton
  <2>5. Cardinality(usable) <= (IF code \in ended THEN 0 ELSE 1)
    BY <2>1, <2>4
  <2> QED
    BY <2>5 DEF usable
<1>2. Inv => TakenOnce
  BY <1>1 DEF Inv, StatusTells, AccessOncePerTicket, TakenOnce
<1> QED
  BY <1>2, InvAlways, PTL

\* A token that is accepted and rests on a password rests on the one its account has now,
\* but for a desktop sign-in that read its account again after the change.
THEOREM AcceptedRestsOnThePassword == Spec => []RestsOnThePassword
<1>1. Inv => RestsOnThePassword
  BY DEF Inv, ProofIsVersion, Accepted, RestsOnThePassword
<1> QED
  BY <1>1, InvAlways, PTL

-----------------------------------------------------------------------------
(***************************************************************************)
(* Write tools: the calls, keys and reviews of McpWrites.                  *)
(***************************************************************************)

(* The inductive invariant of the write tools. *)

\* The call has inserted its key and neither stored its outcome nor given it back.
Holding == {"stop", "open", "run", "own", "claim", "recheck", "again", "lock", "verify",
            "commit", "resolve", "store", "release"}
Holds(c) == call[c].step \in Holding

\* About a call c as q describes it.  It has claimed its review and not changed anything
\* yet.
Confirming(q) ==
    /\ q.step \in {"recheck", "again", "lock", "verify", "commit"}
    /\ q.key \in Reviews

\* It goes one way, for a direct write or a confirmation, has time left and answers at the
\* end; its transaction keeps the emergency stop off.
GoesOn(q) ==
    /\ q.step # "idle" => q.key \in Keys
    /\ q.step \notin {"release", "done"} => q.answer = "none"
    /\ q.step = "release" => q.answer \in {"write_failed", "stopped", "error"}
    /\ q.step \in {"stop", "open", "run"} => q.key \in DirectKeys
    /\ q.step \in {"own", "claim", "recheck", "again", "lock", "verify", "resolve"} => q.key \in Reviews
    /\ q.step = "store" => q.outcome \in {"changed", "refused", "used", "unknown"}
    /\ q.step = "resolve" => q.outcome \in {"changed", "refused"}
    /\ q.step \notin {"idle", "done"} => clock < q.expiresAt
    /\ q.step \in {"run", "verify", "commit"} => ~safeMode

\* While it holds its key, its row is in the table, in progress.
KeepsItsRow(c, q) ==
    q.step \in Holding =>
        key[q.key] = [id |-> c, args |-> q.args, status |-> "in_progress",
                      outcome |-> "none", expiresAt |-> q.expiresAt]

\* The review it claimed is executing, and nothing was saved for it before; when it is
\* about to commit, the revision is the one the preview showed.
ReviewIsClaimed(q) ==
    /\ Confirming(q) \/ q.step = "resolve" => review[q.key].status = "executing"
    /\ Confirming(q) => \A s \in saved : s.key # q.key
    /\ Confirming(q) /\ q.step = "commit" => review[q.key].revision = revision

\* What it is about to store, and what it answers, is so.
TellsTheTruth(c, q) ==
    /\ q.answer \in {"write_failed", "stopped", "error", "key_reused"} => \A s \in saved : s.by # c
    /\ q.answer = "changed" => \E s \in saved : s.key = q.key /\ call[s.by].args = q.args
    /\ q.step \in {"store", "resolve"} /\ q.outcome = "changed" =>
         \E s \in saved : s.key = q.key /\ s.by = c
    /\ q.key \in Reviews =>
         /\ q.answer = "changed" \/ (q.step = "store" /\ q.outcome = "changed") =>
              review[q.key].status = "completed"
         /\ q.answer = "refused" \/ (q.step = "store" /\ q.outcome = "refused") =>
              review[q.key].status = "failed"

Fits(c, q) == GoesOn(q) /\ KeepsItsRow(c, q) /\ ReviewIsClaimed(q) /\ TellsTheTruth(c, q)

\* A row is that of the call that inserted it, and a completed one says what it answered.
RowTells(k) ==
    key[k] # Nothing =>
        LET r == key[k]
            q == call[r.id]
        IN
        /\ q.key = k /\ q.args = r.args /\ q.expiresAt = r.expiresAt
        /\ q.step \in Holding \cup {"done"}
        /\ r.status # "completed" => r.outcome = "none"
        /\ r.status = "completed" =>
             /\ q.step = "done" /\ q.answer = r.outcome
             /\ r.outcome \in {"changed", "refused", "used"}

\* The row under which a change was saved stays until its finished answer has expired.
RowStands(s) ==
    \/ key[s.key] # Nothing /\ key[s.key].id = s.by
    \/ /\ CallAt(s.by, "done") /\ call[s.by].answer = "changed"
       /\ call[s.by].expiresAt <= clock

\* Who has saved goes on to say so, or that it does not know, or is lost.
SaverGoesOn(s) ==
    LET q == call[s.by] IN
    /\ q.key = s.key
    /\ s.at <= clock /\ s.at < q.expiresAt
    /\ q.step \in {"resolve", "store", "done"}
    /\ q.step = "resolve" => q.outcome = "changed"
    /\ q.step = "store" => q.outcome \in {"changed", "unknown"}
    /\ q.step = "done" => q.answer \in {"changed", "unknown", "lost"}

\* A reviewed change is the one that was previewed, and its review waits no more.
AsReviewed(s) ==
    s.key \in Reviews =>
        /\ s.previewed = s.on
        /\ review[s.key].status \in {"executing", "completed"}

SaveStands(s) == RowStands(s) /\ SaverGoesOn(s) /\ AsReviewed(s)

\* The record is locked by one call at a time.
OneCommits == \A c, d \in Calls : CallAt(c, "commit") /\ CallAt(d, "commit") => c = d

\* Every revision is an edit elsewhere, of which there are few, or a call's own.
Savers == {c \in Calls : \E s \in saved : s.by = c}
RevisionsAreCounted == revision <= MaxRevision + Cardinality(Savers)

McpInv ==
    /\ McpTypeOK
    /\ \A c \in Calls : Fits(c, call[c])
    /\ \A k \in Keys : RowTells(k)
    /\ \A s \in saved : SaveStands(s)
    /\ OneCommits /\ RevisionsAreCounted /\ SavedOnce

-----------------------------------------------------------------------------
(* The beginning. *)

LEMMA IdleIsACall == IdleCall \in Call
BY McpAssumption DEF IdleCall, Call, CallSteps, Outcomes, Answers

LEMMA McpInvInit == McpInit => McpInv
<1> SUFFICES ASSUME McpInit PROVE McpInv
  OBVIOUS
<1>1. Cardinality(Calls) \in Nat
  BY McpAssumption, FS_CardinalityType
<1>2. 0 \in Revisions
  BY <1>1, McpAssumption DEF Revisions
<1>3. IdleCall \in Call
  BY IdleIsACall
<1>4. [status |-> "none", revision |-> 0] \in Review
  BY <1>2 DEF Review, ReviewStatuses
<1>5. McpTypeOK
  <2>1. clock \in 1..MaxTime
    BY McpAssumption DEF McpInit
  <2> QED BY <1>2, <1>3, <1>4, <2>1 DEF McpInit, McpTypeOK
<1>6. \A c \in Calls : Fits(c, call[c])
  <2>1. ASSUME NEW c \in Calls PROVE Fits(c, IdleCall)
    <3>1. IdleCall.key \notin Reviews
      BY McpAssumption DEF IdleCall
    <3> QED BY <3>1 DEF IdleCall, Fits, GoesOn, KeepsItsRow, Holding, ReviewIsClaimed, Confirming,
                        TellsTheTruth
  <2> QED BY <2>1 DEF McpInit
<1>7. \A k \in Keys : RowTells(k)
  BY DEF McpInit, RowTells
<1>8. OneCommits
  BY DEF McpInit, OneCommits, CallAt, IdleCall
<1>9. RevisionsAreCounted
  <2>1. Savers = {} /\ Cardinality({}) = 0
    BY FS_EmptySet DEF McpInit, Savers
  <2> QED BY <2>1, McpAssumption DEF McpInit, RevisionsAreCounted
<1> QED BY <1>5, <1>6, <1>7, <1>8, <1>9 DEF McpInit, McpInv, SavedOnce

-----------------------------------------------------------------------------
(* What the step of a call leaves as it was. *)

\* What the invariant says of a call and of a change saved.
LEMMA McpParts ==
    ASSUME McpInv
    PROVE  /\ McpTypeOK
           /\ \A c \in Calls : call[c] \in Call /\ Fits(c, call[c])
           /\ \A s \in saved : s \in Saved /\ s.by \in Calls /\ s.key \in Keys
BY DEF McpInv, McpTypeOK, Saved

\* While one call takes a step and saves nothing, what is known of the others stays true:
\* nobody else holds its key, and a review that is decided stays so.
LEMMA CallTurn ==
    ASSUME NEW c \in Calls, McpInv,
           call' \in [Calls -> Call], \A d \in Calls \ {c} : call'[d] = call[d],
           call[c].step # "done", call'[c].key \in Keys,
           call[c].step # "idle" =>
               /\ call'[c].key = call[c].key /\ call'[c].args = call[c].args
               /\ call'[c].expiresAt = call[c].expiresAt,
           call'[c].step = "commit" => \A d \in Calls \ {c} : call[d].step # "commit",
           UNCHANGED <<clock, safeMode, revision, saved>>,
           key' \in [Keys -> Record \cup {Nothing}],
           \A k \in Keys : k # call'[c].key => key'[k] = key[k],
           review' \in [Reviews -> Review],
           \A r \in Reviews : review'[r].revision = review[r].revision,
           \A r \in Reviews : r # call'[c].key => review'[r] = review[r],
           \A r \in Reviews : review[r].status \in {"completed", "failed"} => review'[r] = review[r],
           UNCHANGED <<key, review>> \/ \A d \in Calls \ {c} : Holds(d) => call[d].key # call'[c].key,
           Fits(c, call[c])',
           \A k \in Keys : k = call'[c].key => RowTells(k)',
           \A s \in saved : s.by = c => SaverGoesOn(s)',
           \A s \in saved : s.by = c \/ s.key = call'[c].key => RowStands(s)',
           \A s \in saved : s.key \in Reviews => review'[s.key].status \in {"executing", "completed"}
    PROVE  McpInv'
<1>1. /\ McpTypeOK
      /\ \A d \in Calls : call[d] \in Call /\ Fits(d, call[d])
      /\ \A s \in saved : s \in Saved /\ s.by \in Calls /\ s.key \in Keys
  BY McpParts
<1>2. McpTypeOK'
  BY <1>1 DEF McpTypeOK
<1>3. \A s \in saved : s.by = c => call[c].step \in {"resolve", "store"} /\ call[c].answer = "none"
  BY <1>1 DEF McpInv, SaveStands, SaverGoesOn, Fits, GoesOn
<1>4. \A s \in saved : call'[s.by].args = call[s.by].args
  BY <1>1, <1>3
<1>5. ASSUME NEW d \in Calls \ {c} PROVE Fits(d, call[d])'
  <2>1. call'[d] = call[d] /\ Fits(d, call[d])
    BY <1>1
  <2>2. GoesOn(call[d])'
    BY <2>1 DEF Fits, GoesOn
  <2>3. KeepsItsRow(d, call[d])'
    <3>1. Holds(d) => call[d].key \in Keys
      BY <2>1 DEF Fits, GoesOn, Holds, Holding
    <3>2. Holds(d) => key'[call[d].key] = key[call[d].key]
      BY <3>1
    <3> QED BY <2>1, <3>2 DEF Fits, KeepsItsRow, Holds
  <2>4. ReviewIsClaimed(call[d])'
    <3>1. Confirming(call[d]) \/ call[d].step = "resolve" => Holds(d) /\ call[d].key \in Reviews
      BY <2>1 DEF Fits, GoesOn, Confirming, Holds, Holding
    <3>2. Confirming(call[d]) \/ call[d].step = "resolve" => review'[call[d].key] = review[call[d].key]
      BY <3>1
    <3> QED BY <2>1, <3>2 DEF Fits, ReviewIsClaimed, Confirming
  <2>5. TellsTheTruth(d, call[d])'
    BY <1>4, <2>1 DEF Fits, TellsTheTruth
  <2> QED BY <2>2, <2>3, <2>4, <2>5 DEF Fits
<1>6. ASSUME NEW k \in Keys PROVE RowTells(k)'
  <2>1. CASE k = call'[c].key
    BY <2>1
  <2>2. CASE k # call'[c].key /\ key[k] # Nothing
    <3>1. key'[k] = key[k] /\ RowTells(k) /\ key[k].id \in Calls
      BY <1>1, <2>2 DEF McpInv, McpTypeOK, Record
    <3>2. key[k].id # c
      BY <2>2, <3>1 DEF RowTells, Holding
    <3> QED BY <3>1, <3>2 DEF RowTells
  <2>3. CASE k # call'[c].key /\ key[k] = Nothing
    BY <2>3 DEF RowTells
  <2> QED BY <2>1, <2>2, <2>3
<1>7. ASSUME NEW s \in saved PROVE SaveStands(s)'
  <2>1. SaveStands(s) /\ s.by \in Calls /\ s.key \in Keys
    BY <1>1 DEF McpInv
  <2>2. RowStands(s)'
    BY <2>1 DEF SaveStands, RowStands, CallAt
  <2>3. SaverGoesOn(s)'
    BY <2>1 DEF SaveStands, SaverGoesOn
  <2>4. AsReviewed(s)'
    BY <2>1 DEF SaveStands, AsReviewed
  <2> QED BY <2>2, <2>3, <2>4 DEF SaveStands
<1>8. OneCommits'
  BY DEF McpInv, OneCommits, CallAt
<1>9. RevisionsAreCounted'
  <2>1. Savers' = Savers
    BY DEF Savers
  <2> QED BY <2>1 DEF McpInv, RevisionsAreCounted
<1>10. SavedOnce'
  <2>1. ASSUME NEW s \in saved, NEW t \in saved, s # t, s.key = t.key, s.at <= t.at
        PROVE  /\ s.key \in DirectKeys /\ call'[s.by].answer = "changed"
               /\ call'[s.by].expiresAt <= t.at
    <3>1. s.key \in DirectKeys /\ call[s.by].answer = "changed" /\ call[s.by].expiresAt <= t.at
      BY <2>1 DEF McpInv, SavedOnce
    <3>2. s.by \in Calls \ {c}
      BY <1>1, <1>3, <3>1
    <3> QED BY <3>1, <3>2
  <2> QED BY <2>1 DEF SavedOnce
<1> QED BY <1>2, <1>5, <1>6, <1>7, <1>8, <1>9, <1>10 DEF McpInv

-----------------------------------------------------------------------------
(* The shapes of a call's steps. *)

\* The call still is the one that came.
SameCallAs(c, q) ==
    q.key = call[c].key /\ q.args = call[c].args /\ q.expiresAt = call[c].expiresAt

LEMMA GotoShape ==
    ASSUME NEW c \in Calls, McpTypeOK, NEW step \in CallSteps, CallGoto(c, step)
    PROVE  \E q \in Call : /\ CallBecomes(c, q) /\ SameCallAs(c, q) /\ q.step = step
                           /\ q.outcome = call[c].outcome /\ q.answer = call[c].answer
<1> DEFINE q == [call[c] EXCEPT !.step = step]
<1>1. call[c] \in Call
  BY DEF McpTypeOK
<1>2. /\ q \in Call /\ SameCallAs(c, q) /\ q.step = step
      /\ q.outcome = call[c].outcome /\ q.answer = call[c].answer
  BY <1>1 DEF Call, SameCallAs
<1> QED BY <1>2 DEF CallGoto

LEMMA ReplyShape ==
    ASSUME NEW c \in Calls, McpTypeOK, NEW a \in Answers, Reply(c, a)
    PROVE  \E q \in Call : /\ CallBecomes(c, q) /\ SameCallAs(c, q) /\ q.step = "done"
                           /\ q.outcome = call[c].outcome /\ q.answer = a
<1> DEFINE q == [call[c] EXCEPT !.step = "done", !.answer = a]
<1>1. call[c] \in Call /\ "done" \in CallSteps
  BY DEF McpTypeOK, CallSteps
<1>2. /\ q \in Call /\ SameCallAs(c, q) /\ q.step = "done"
      /\ q.outcome = call[c].outcome /\ q.answer = a
  BY <1>1 DEF Call, SameCallAs
<1> QED BY <1>2 DEF Reply

\* The work is over and its outcome will be stored, or resolves the review first.
Ends(c, step, outcome) == [call[c] EXCEPT !.step = step, !.outcome = outcome]

LEMMA OutcomeShape ==
    ASSUME NEW c \in Calls, McpTypeOK, NEW step \in {"store", "resolve"}, NEW outcome \in Outcomes,
           CallBecomes(c, Ends(c, step, outcome))
    PROVE  \E q \in Call : /\ CallBecomes(c, q) /\ SameCallAs(c, q) /\ q.step = step
                           /\ q.outcome = outcome /\ q.answer = call[c].answer
<1> DEFINE q == Ends(c, step, outcome)
<1>1. call[c] \in Call /\ step \in CallSteps
  BY DEF McpTypeOK, CallSteps
<1>2. /\ q \in Call /\ SameCallAs(c, q) /\ q.step = step
      /\ q.outcome = outcome /\ q.answer = call[c].answer
  BY <1>1 DEF Ends, Call, SameCallAs
<1> QED BY <1>2

LEMMA ReleaseShape ==
    ASSUME NEW c \in Calls, McpTypeOK, NEW a \in Answers, CallBecomes(c, Release(c, a))
    PROVE  \E q \in Call : /\ CallBecomes(c, q) /\ SameCallAs(c, q) /\ q.step = "release"
                           /\ q.outcome = call[c].outcome /\ q.answer = a
<1> DEFINE q == [call[c] EXCEPT !.step = "release", !.answer = a]
<1>1. call[c] \in Call /\ "release" \in CallSteps
  BY DEF McpTypeOK, CallSteps
<1>2. /\ q \in Call /\ SameCallAs(c, q) /\ q.step = "release"
      /\ q.outcome = call[c].outcome /\ q.answer = a
  BY <1>1 DEF Call, SameCallAs
<1> QED BY <1>2 DEF Release

\* It tries to insert its key again, or gives up.
LEMMA RetryShape ==
    ASSUME NEW c \in Calls, McpTypeOK, Retry(c)
    PROVE  \E q \in Call : /\ CallBecomes(c, q) /\ SameCallAs(c, q)
                           /\ \/ q.step = "insert" /\ q.answer = call[c].answer
                              \/ q.step = "done" /\ q.answer = "in_progress"
<1>1. CASE call[c].attempt = 3
  <2>1. "in_progress" \in Answers /\ Reply(c, "in_progress")
    BY <1>1 DEF Retry, Answers
  <2> QED BY <2>1, ReplyShape
<1>2. CASE call[c].attempt # 3
  <2> DEFINE q == [call[c] EXCEPT !.step = "insert", !.attempt = @ + 1]
  <2>1. call[c] \in Call /\ "insert" \in CallSteps
    BY DEF McpTypeOK, CallSteps
  <2>2. call[c].attempt + 1 \in 1..3
    BY <1>2, <2>1 DEF Call
  <2>3. q \in Call /\ SameCallAs(c, q) /\ q.step = "insert" /\ q.answer = call[c].answer
    BY <2>1, <2>2 DEF Call, SameCallAs
  <2> QED BY <1>2, <2>3 DEF Retry
<1> QED BY <1>1, <1>2

-----------------------------------------------------------------------------
(* Steps that write nothing but the call. *)

\* What such a step leaves.
LEMMA QuietTurn ==
    ASSUME NEW c \in Calls, NEW q \in Call, McpInv, CallBecomes(c, q),
           call[c].step = "idle" \/ SameCallAs(c, q),
           call[c].step # "done", q.step # "idle",
           q.step = "commit" => ~RowLocked,
           UNCHANGED <<clock, safeMode, revision, review, key, saved>>,
           Fits(c, q), Holds(c) => q.step \in Holding \cup {"done"},
           \A s \in saved : s.by = c =>
               \/ q.step = "store" /\ q.outcome \in {"changed", "unknown"}
               \/ q.step = "done" /\ q.answer \in {"changed", "unknown", "lost"}
    PROVE  McpInv'
<1>1. /\ McpTypeOK
      /\ \A d \in Calls : call[d] \in Call /\ Fits(d, call[d])
      /\ \A s \in saved : s \in Saved /\ s.by \in Calls /\ s.key \in Keys
  BY McpParts
<1>2. call' \in [Calls -> Call] /\ call'[c] = q /\ \A d \in Calls \ {c} : call'[d] = call[d]
  BY <1>1 DEF McpTypeOK, CallBecomes
<1>3. q.key \in Keys
  BY DEF Fits, GoesOn
<1>4. \A d \in Calls \ {c} : q.step = "commit" => call[d].step # "commit"
  BY DEF RowLocked, CallAt
<1>5. \A s \in saved : s.by = c =>
        /\ call[c].step \in {"resolve", "store"} /\ call[c].key = s.key
        /\ s.at <= clock /\ s.at < call[c].expiresAt
  BY <1>1 DEF McpInv, SaveStands, SaverGoesOn, Fits, GoesOn
<1>6. \A s \in saved : call'[s.by].args = call[s.by].args
  BY <1>1, <1>2, <1>5 DEF SameCallAs
<1>7. Fits(c, call[c])'
  BY <1>2, <1>6 DEF Fits, GoesOn, KeepsItsRow, ReviewIsClaimed, Confirming, TellsTheTruth
<1>8. \A k \in Keys : k = q.key => RowTells(k)'
  <2>1. ASSUME NEW k \in Keys, key[k] # Nothing PROVE RowTells(k)'
    <3>1. RowTells(k) /\ key[k].id \in Calls
      BY <1>1, <2>1 DEF McpInv, McpTypeOK, Record
    <3>2. CASE key[k].id = c
      <4>1. call[c].step \in Holding /\ call[c].key = k
        BY <2>1, <3>1, <3>2 DEF RowTells
      <4>2. key[k].status = "in_progress"
        <5>1. KeepsItsRow(c, call[c])
          BY <1>1 DEF Fits
        <5> QED BY <4>1, <5>1 DEF KeepsItsRow
      <4> QED BY <1>2, <3>1, <3>2, <4>1, <4>2 DEF RowTells, SameCallAs, Holds, Holding
    <3>3. CASE key[k].id # c
      BY <1>2, <3>1, <3>3 DEF RowTells
    <3> QED BY <3>2, <3>3
  <2> QED BY <2>1 DEF RowTells
<1>9. \A s \in saved : s.by = c => SaverGoesOn(s)'
  BY <1>2, <1>5 DEF SaverGoesOn, SameCallAs
<1>10. ASSUME NEW s \in saved PROVE RowStands(s)'
  <2>1. RowStands(s)
    BY DEF McpInv, SaveStands
  <2>2. CASE s.by = c
    BY <1>5, <2>1, <2>2 DEF RowStands, CallAt
  <2>3. CASE s.by # c
    BY <1>1, <1>2, <2>1, <2>3 DEF RowStands, CallAt
  <2> QED BY <2>2, <2>3
<1>11. \A s \in saved : s.key \in Reviews => review[s.key].status \in {"executing", "completed"}
  BY DEF McpInv, SaveStands, AsReviewed
<1> QED BY <1>1, <1>2, <1>3, <1>4, <1>7, <1>8, <1>9, <1>10, <1>11, CallTurn
       DEF SameCallAs, McpTypeOK

\* Who has not got so far has saved nothing, and answered nothing either.
LEMMA NothingSavedYet ==
    ASSUME NEW c \in Calls, McpInv, call[c].step \notin {"resolve", "store", "done"}
    PROVE  \A s \in saved : s.by # c
BY DEF McpInv, SaveStands, SaverGoesOn

\* Who holds its key has its row.
LEMMA HoldersRow ==
    ASSUME NEW c \in Calls, McpInv, Holds(c)
    PROVE  /\ call[c].key \in Keys /\ key[call[c].key] \in Record /\ key[call[c].key] # Nothing
           /\ key[call[c].key].id = c /\ key[call[c].key].args = call[c].args
           /\ key[call[c].key].status = "in_progress" /\ key[call[c].key].outcome = "none"
           /\ key[call[c].key].expiresAt = call[c].expiresAt
<1>1. call[c] \in Call /\ Fits(c, call[c])
  BY McpParts
<1>2. call[c].key \in Keys
  BY <1>1 DEF Fits, GoesOn, Holds, Holding
<1>3. key[call[c].key] = [id |-> c, args |-> call[c].args, status |-> "in_progress",
                          outcome |-> "none", expiresAt |-> call[c].expiresAt]
  BY <1>1 DEF Fits, KeepsItsRow, Holds
<1>4. key[call[c].key] \in Record
  <2>1. "in_progress" \in {"in_progress", "unknown", "completed"} /\ "none" \in Outcomes
    BY DEF Outcomes
  <2> QED BY <1>1, <1>3, <2>1 DEF Call, Record
<1> QED BY <1>2, <1>3, <1>4, NothingAssumption

\* Two calls do not hold the same key.
LEMMA OneHolder ==
    ASSUME NEW c \in Calls, NEW d \in Calls, McpInv, Holds(c), Holds(d), call[c].key = call[d].key
    PROVE  c = d
<1>1. key[call[c].key].id = c
  BY HoldersRow
<1>2. key[call[d].key].id = d
  BY HoldersRow
<1> QED BY <1>1, <1>2

LEMMA ArriveTurn ==
    ASSUME NEW c \in Calls, McpInv, NEW k \in Keys, NEW a \in Args \cup {Nothing}, Arrive(c, k, a)
    PROVE  McpInv'
<1>1. call[c].step = "idle" /\ McpTypeOK
  BY McpParts DEF Arrive, CallAt
<1>2. clock \in 1..MaxTime /\ Retention \in Nat \ {0} /\ MaxTime \in Nat
  BY <1>1, McpAssumption DEF McpTypeOK
<1>3. PICK q \in Call :
        /\ CallBecomes(c, q)
        /\ q.step = "insert" /\ q.key = k /\ q.answer = "none" /\ clock < q.expiresAt
  <2> DEFINE q == [IdleCall EXCEPT !.step = "insert", !.key = k, !.args = a,
                                   !.expiresAt = clock + Retention]
  <2>1. clock + Retention \in 0..(MaxTime + Retention) /\ clock < clock + Retention
    BY <1>2
  <2>2. "insert" \in CallSteps
    BY DEF CallSteps
  <2>3. IdleCall \in Call /\ IdleCall.answer = "none"
    BY IdleIsACall DEF IdleCall
  <2>4. q \in Call
    BY <2>1, <2>2, <2>3 DEF Call
  <2>5. q.step = "insert" /\ q.key = k /\ q.answer = "none" /\ clock < q.expiresAt
    BY <2>1, <2>3 DEF Call
  <2> QED BY <2>4, <2>5 DEF Arrive
<1>4. Fits(c, q)
  BY <1>3 DEF Fits, GoesOn, KeepsItsRow, Holding, ReviewIsClaimed, Confirming, TellsTheTruth
<1>5. \A s \in saved : s.by # c
  BY <1>1, NothingSavedYet
<1> QED BY <1>1, <1>3, <1>4, <1>5, QuietTurn DEF Arrive, Holds, Holding

\* The key is taken: what a call that does not hold it goes on to do.
LEMMA WaitsOrAnswers ==
    ASSUME NEW c \in Calls, NEW q \in Call, McpInv, CallBecomes(c, q), SameCallAs(c, q),
           call[c].step \in {"insert", "look"}, q.step \in {"insert", "look", "done"},
           q.step # "done" => q.answer = "none", TellsTheTruth(c, q),
           UNCHANGED <<clock, safeMode, revision, review, key, saved>>
    PROVE  McpInv'
<1>1. Fits(c, call[c])
  BY McpParts
<1>2. Fits(c, q)
  BY <1>1 DEF Fits, GoesOn, KeepsItsRow, Holding, ReviewIsClaimed, Confirming, SameCallAs
<1>3. \A s \in saved : s.by # c
  BY NothingSavedYet
<1> QED BY <1>2, <1>3, QuietTurn DEF Holds, Holding

LEMMA InsertTakenTurn ==
    ASSUME NEW c \in Calls, McpInv, InsertTaken(c)
    PROVE  McpInv'
<1>1. McpTypeOK /\ Fits(c, call[c]) /\ call[c].step = "insert" /\ "look" \in CallSteps
  BY McpParts DEF InsertTaken, CallAt, CallSteps
<1>2. PICK q \in Call : /\ CallBecomes(c, q) /\ SameCallAs(c, q) /\ q.step = "look"
                        /\ q.answer = call[c].answer
  BY <1>1, GotoShape DEF InsertTaken
<1>3. q.answer = "none"
  BY <1>1, <1>2 DEF Fits, GoesOn
<1> QED BY <1>1, <1>2, <1>3, WaitsOrAnswers DEF InsertTaken, TellsTheTruth

LEMMA LookMissingTurn ==
    ASSUME NEW c \in Calls, McpInv, LookMissing(c)
    PROVE  McpInv'
<1>1. McpTypeOK /\ Fits(c, call[c]) /\ call[c].step = "look"
  BY McpParts DEF LookMissing, CallAt
<1>2. PICK q \in Call : /\ CallBecomes(c, q) /\ SameCallAs(c, q)
                        /\ \/ q.step = "insert" /\ q.answer = call[c].answer
                           \/ q.step = "done" /\ q.answer = "in_progress"
  BY <1>1, RetryShape DEF LookMissing
<1>3. TellsTheTruth(c, q) /\ (q.step # "done" => q.answer = "none")
  BY <1>1, <1>2 DEF Fits, GoesOn, TellsTheTruth
<1> QED BY <1>1, <1>2, <1>3, WaitsOrAnswers DEF LookMissing

\* A stored answer is that of the call that stored it, which told the truth.
LEMMA LookSeenTurn ==
    ASSUME NEW c \in Calls, McpInv, LookSeen(c)
    PROVE  McpInv'
<1>1. McpTypeOK /\ Fits(c, call[c]) /\ call[c].step = "look" /\ call[c].key \in Keys
  BY McpParts DEF LookSeen, CallAt, Fits, GoesOn
<1>2. PICK r \in Record : r = key[call[c].key]
  BY <1>1 DEF LookSeen, McpTypeOK
<1>3. PICK a \in Answers :
        /\ a = IF ~SameCall(c) THEN "key_reused"
               ELSE IF r.status \in {"unknown", "in_progress"} THEN r.status ELSE r.outcome
        /\ Reply(c, a)
  <2>1. "key_reused" \in Answers /\ Outcomes \subseteq Answers
        /\ r.status \in {"in_progress", "unknown", "completed"} /\ r.outcome \in Outcomes
    BY <1>2 DEF Answers, Record
  <2>2. {"in_progress", "unknown"} \subseteq Answers
    BY DEF Answers, Outcomes
  <2> QED BY <1>2, <2>1, <2>2 DEF LookSeen
<1>4. PICK q \in Call : CallBecomes(c, q) /\ SameCallAs(c, q) /\ q.step = "done" /\ q.answer = a
  BY <1>1, <1>3, ReplyShape
<1>5. \A s \in saved : s.by # c
  BY <1>1, NothingSavedYet
<1>6. a \in {"changed", "refused"} =>
        /\ r.args = call[c].args /\ r.status = "completed" /\ r.outcome = a
  BY <1>2, <1>3 DEF SameCall, Record
<1>7. a \in {"changed", "refused"} =>
        /\ r.id \in Calls /\ call[r.id].key = call[c].key /\ call[r.id].args = call[c].args
        /\ call[r.id].answer = a
  <2>1. RowTells(call[c].key) /\ key[call[c].key] # Nothing /\ r.id \in Calls
    BY <1>1, <1>2 DEF McpInv, LookSeen, Record
  <2> QED BY <1>2, <1>6, <2>1 DEF RowTells
<1>8. TellsTheTruth(c, q)
  <2>1. ASSUME a \in {"changed", "refused"} PROVE TellsTheTruth(r.id, call[r.id])
    BY <1>7, <2>1, McpParts DEF Fits
  <2> QED BY <1>4, <1>5, <1>7, <2>1 DEF TellsTheTruth, SameCallAs
<1> QED BY <1>1, <1>4, <1>8, WaitsOrAnswers DEF LookSeen

\* A call that holds its key gives up with an answer that nothing was changed.
LEMMA ReleasedQuietly ==
    ASSUME NEW c \in Calls, McpInv, Holds(c), call[c].step \notin {"resolve", "store", "release"},
           NEW a \in {"write_failed", "stopped", "error"}, CallBecomes(c, Release(c, a)),
           UNCHANGED <<clock, safeMode, revision, review, key, saved>>
    PROVE  McpInv'
<1>1. McpTypeOK /\ Fits(c, call[c]) /\ a \in Answers
  BY McpParts DEF Answers
<1>2. PICK q \in Call : CallBecomes(c, q) /\ SameCallAs(c, q) /\ q.step = "release" /\ q.answer = a
  BY <1>1, ReleaseShape
<1>3. \A s \in saved : s.by # c
  BY NothingSavedYet DEF Holds, Holding
<1>4. GoesOn(q)
  BY <1>1, <1>2 DEF Fits, GoesOn, SameCallAs, Holds, Holding
<1>5. KeepsItsRow(c, q)
  BY <1>1, <1>2 DEF Fits, KeepsItsRow, SameCallAs, Holds
<1>6. ReviewIsClaimed(q) /\ TellsTheTruth(c, q)
  BY <1>2, <1>3 DEF ReviewIsClaimed, Confirming, TellsTheTruth
<1> QED BY <1>2, <1>3, <1>4, <1>5, <1>6, QuietTurn DEF Fits, Holds, Holding

\* It has an outcome to store: refused or used without a change, or unknown.
LEMMA FinishedQuietly ==
    ASSUME NEW c \in Calls, McpInv, Holds(c), call[c].step \notin {"store", "release"},
           NEW outcome \in {"refused", "used", "unknown"}, CallBecomes(c, Finish(c, outcome)),
           outcome = "refused" => call[c].key \in DirectKeys,
           outcome = "unknown" \/ call[c].step # "resolve",
           UNCHANGED <<clock, safeMode, revision, review, key, saved>>
    PROVE  McpInv'
<1>1. McpTypeOK /\ Fits(c, call[c]) /\ outcome \in Outcomes
  BY McpParts DEF Outcomes
<1>2. PICK q \in Call : /\ CallBecomes(c, q) /\ SameCallAs(c, q) /\ q.step = "store"
                        /\ q.outcome = outcome /\ q.answer = call[c].answer
  BY <1>1, OutcomeShape DEF Finish, Ends
<1>3. call[c].step # "resolve" => \A s \in saved : s.by # c
  BY NothingSavedYet DEF Holds, Holding
<1>4. q.answer = "none"
  BY <1>1, <1>2 DEF Fits, GoesOn, Holds, Holding
<1>5. GoesOn(q)
  BY <1>1, <1>2, <1>4 DEF Fits, GoesOn, SameCallAs, Holds, Holding
<1>6. KeepsItsRow(c, q)
  BY <1>1, <1>2 DEF Fits, KeepsItsRow, SameCallAs, Holds
<1>7. ReviewIsClaimed(q)
  BY <1>2 DEF ReviewIsClaimed, Confirming
<1>8. TellsTheTruth(c, q)
  <2>1. q.outcome = "refused" => q.key \notin Reviews
    BY <1>2, McpAssumption DEF SameCallAs
  <2> QED BY <1>2, <1>4, <2>1 DEF TellsTheTruth
<1> QED BY <1>2, <1>3, <1>5, <1>6, <1>7, <1>8, QuietTurn DEF Fits, Holds, Holding

\* It goes on: through the transaction only while the stop is off, and to its commit only as
\* the one who locks the record, a confirmed change to the revision previewed.
LEMMA GoesOnQuietly ==
    ASSUME NEW c \in Calls, McpInv, Holds(c), call[c].step \notin {"resolve", "store", "release"},
           NEW step \in {"open", "run", "claim", "lock", "verify", "again", "commit"},
           CallGoto(c, step),
           step \in {"open", "run"} => call[c].key \in DirectKeys,
           step = "claim" => call[c].key \in Reviews,
           step \in {"run", "verify", "commit"} => ~safeMode,
           step \in {"again", "lock", "verify"} => Confirming(call[c]),
           step = "commit" =>
               /\ ~RowLocked
               /\ call[c].key \in Reviews =>
                    Confirming(call[c]) /\ review[call[c].key].revision = revision,
           UNCHANGED <<clock, safeMode, revision, review, key, saved>>
    PROVE  McpInv'
<1>1. McpTypeOK /\ Fits(c, call[c]) /\ step \in CallSteps
  BY McpParts DEF CallSteps
<1>2. PICK q \in Call : /\ CallBecomes(c, q) /\ SameCallAs(c, q) /\ q.step = step
                        /\ q.answer = call[c].answer
  BY <1>1, GotoShape
<1>3. \A s \in saved : s.by # c
  BY NothingSavedYet DEF Holds, Holding
<1>4. q.answer = "none"
  BY <1>1, <1>2 DEF Fits, GoesOn, Holds, Holding
<1>5. GoesOn(q)
  BY <1>1, <1>2, <1>4 DEF Fits, GoesOn, SameCallAs, Holds, Holding, Confirming
<1>6. KeepsItsRow(c, q)
  BY <1>1, <1>2 DEF Fits, KeepsItsRow, SameCallAs, Holds
<1>7. ReviewIsClaimed(q)
  BY <1>1, <1>2 DEF Fits, ReviewIsClaimed, Confirming, SameCallAs
<1>8. TellsTheTruth(c, q)
  BY <1>2, <1>4 DEF TellsTheTruth
<1> QED BY <1>2, <1>3, <1>5, <1>6, <1>7, <1>8, QuietTurn DEF Fits, Holds, Holding

LEMMA FailBeforeStartTurn ==
    ASSUME NEW c \in Calls, McpInv, FailBeforeStart(c)
    PROVE  McpInv'
BY ReleasedQuietly DEF FailBeforeStart, Holds, Holding

LEMMA DirectStopTurn ==
    ASSUME NEW c \in Calls, McpInv, DirectStop(c) \/ DirectOpen(c)
    PROVE  McpInv'
<1>1. Fits(c, call[c]) /\ call[c].step \in {"stop", "open"}
  BY McpParts DEF DirectStop, DirectOpen, CallAt
<1>2. PICK next \in {"open", "run"} : StopCheck(c, next)
  BY DEF DirectStop, DirectOpen
<1>3. call[c].key \in DirectKeys
  BY <1>1 DEF Fits, GoesOn
<1>4. CASE safeMode
  BY <1>1, <1>2, <1>4, ReleasedQuietly DEF StopCheck, Holds, Holding
<1>5. CASE ~safeMode
  BY <1>1, <1>2, <1>3, <1>5, GoesOnQuietly DEF StopCheck, Holds, Holding
<1> QED BY <1>4, <1>5

LEMMA DirectRunTurn ==
    ASSUME NEW c \in Calls, McpInv, NEW outcome \in {"changed", "refused"}, DirectRun(c, outcome)
    PROVE  McpInv'
<1>1. Fits(c, call[c]) /\ call[c].step = "run"
  BY McpParts DEF DirectRun, CallAt
<1>2. call[c].key \in DirectKeys /\ call[c].key \notin Reviews /\ ~safeMode
  BY <1>1, McpAssumption DEF Fits, GoesOn
<1>3. CASE outcome = "changed"
  BY <1>1, <1>2, <1>3, GoesOnQuietly DEF DirectRun, Holds, Holding
<1>4. CASE outcome # "changed"
  BY <1>1, <1>2, <1>4, FinishedQuietly DEF DirectRun, Holds, Holding
<1> QED BY <1>3, <1>4

LEMMA DirectThrowsTurn ==
    ASSUME NEW c \in Calls, McpInv, DirectThrows(c)
    PROVE  McpInv'
BY ReleasedQuietly DEF DirectThrows, CallAt, Holds, Holding

LEMMA OwnReviewTurn ==
    ASSUME NEW c \in Calls, McpInv, OwnReview(c)
    PROVE  McpInv'
<1>1. Fits(c, call[c]) /\ call[c].step = "own"
  BY McpParts DEF OwnReview, CallAt
<1>2. call[c].key \in Reviews
  BY <1>1 DEF Fits, GoesOn
<1>3. CASE review[call[c].key].status = "pending"
  BY <1>1, <1>2, <1>3, GoesOnQuietly DEF OwnReview, CallGoto, Holds, Holding
<1>4. CASE review[call[c].key].status # "pending"
  BY <1>1, <1>2, <1>4, FinishedQuietly DEF OwnReview, Holds, Holding
<1> QED BY <1>3, <1>4

LEMMA OutcomeLostTurn ==
    ASSUME NEW c \in Calls, McpInv, OutcomeLost(c)
    PROVE  McpInv'
BY FinishedQuietly DEF OutcomeLost, Undecided, CallAt, Holds, Holding

\* Whoever dies keeps its row, in progress for good.
LEMMA DieTurn ==
    ASSUME NEW c \in Calls, McpInv, Die(c)
    PROVE  McpInv'
<1>1. McpTypeOK /\ Fits(c, call[c]) /\ "lost" \in Answers
  BY McpParts DEF Answers
<1>2. PICK q \in Call : CallBecomes(c, q) /\ SameCallAs(c, q) /\ q.step = "done" /\ q.answer = "lost"
  BY <1>1, ReplyShape DEF Die
<1>3. call[c].step # "idle" /\ call[c].step # "done"
  BY DEF Die
<1>4. Fits(c, q)
  BY <1>1, <1>2, <1>3
     DEF Fits, GoesOn, KeepsItsRow, Holding, ReviewIsClaimed, Confirming, TellsTheTruth, SameCallAs
<1> QED BY <1>2, <1>3, <1>4, QuietTurn DEF Die, Holds, Holding

-----------------------------------------------------------------------------
(* Steps that claim a review or resolve it. *)

\* Nothing was saved for a review that waits, or that one is about to change, or has
\* refused to.
LEMMA NothingSavedForIt ==
    ASSUME NEW c \in Calls, McpInv, Holds(c), call[c].key \in Reviews,
           \/ review[call[c].key].status = "pending"
           \/ Confirming(call[c])
           \/ call[c].step = "resolve" /\ call[c].outcome = "refused"
    PROVE  \A s \in saved : s.key # call[c].key
<1>1. Fits(c, call[c]) /\ \A s \in saved : s.by \in Calls /\ Fits(s.by, call[s.by])
  BY McpParts
<1>2. CASE review[call[c].key].status = "pending"
  BY <1>2 DEF McpInv, SaveStands, AsReviewed
<1>3. CASE Confirming(call[c])
  BY <1>1, <1>3 DEF Fits, ReviewIsClaimed
<1>4. CASE call[c].step = "resolve" /\ call[c].outcome = "refused"
  <2> SUFFICES ASSUME NEW s \in saved, s.key = call[c].key PROVE FALSE
    OBVIOUS
  <2>1. RowStands(s) /\ SaverGoesOn(s)
    BY DEF McpInv, SaveStands
  <2>2. s.by # c
    BY <1>4, <2>1 DEF SaverGoesOn
  <2>3. key[call[c].key].id = c
    BY HoldersRow
  <2>4. call[s.by].answer = "changed" /\ call[s.by].key = call[c].key
    BY <2>1, <2>2, <2>3 DEF RowStands, SaverGoesOn
  <2>5. review[call[c].key].status = "completed"
    BY <1>1, <2>4 DEF Fits, TellsTheTruth
  <2>6. review[call[c].key].status = "executing"
    BY <1>1, <1>4 DEF Fits, ReviewIsClaimed
  <2> QED BY <2>5, <2>6
<1> QED BY <1>2, <1>3, <1>4

LEMMA ReviewTurn ==
    ASSUME NEW c \in Calls, NEW q \in Call, NEW status \in ReviewStatuses, McpInv,
           Holds(c), call[c].step \notin {"store", "release"}, call[c].key \in Reviews,
           CallBecomes(c, q), SameCallAs(c, q), GoesOn(q), q.step \in {"recheck", "store", "release"},
           Resolve(c, status), review[call[c].key].status \in {"pending", "executing"},
           q.step = "recheck" => status = "executing",
           q.step = "store" => q.outcome \in {"changed", "refused"} /\ status = Verdict(q.outcome),
           \/ /\ q.step = "store" /\ q.outcome = "changed"
              /\ call[c].step = "resolve" /\ call[c].outcome = "changed"
           \/ (q.step = "store" => q.outcome = "refused") /\ \A s \in saved : s.key # call[c].key,
           UNCHANGED <<clock, safeMode, revision, key, saved>>
    PROVE  McpInv'
<1>1. /\ McpTypeOK
      /\ \A d \in Calls : call[d] \in Call /\ Fits(d, call[d])
      /\ \A s \in saved : s \in Saved /\ s.by \in Calls /\ s.key \in Keys
  BY McpParts
<1>2. call' \in [Calls -> Call] /\ call'[c] = q /\ \A d \in Calls \ {c} : call'[d] = call[d]
  BY <1>1 DEF McpTypeOK, CallBecomes
<1>3. /\ q.key = call[c].key /\ q.args = call[c].args /\ q.expiresAt = call[c].expiresAt
      /\ q.key \in Keys /\ q.step \in Holding /\ call[c].step \in Holding
  BY <1>1 DEF SameCallAs, Keys, Holding, Holds
<1>4. /\ review' \in [Reviews -> Review]
      /\ \A r \in Reviews : review'[r].revision = review[r].revision
      /\ \A r \in Reviews \ {q.key} : review'[r] = review[r]
      /\ review'[q.key].status = status
  BY <1>1, <1>3 DEF Resolve, McpTypeOK, Review
<1>5. \A d \in Calls \ {c} : Holds(d) => call[d].key # q.key
  BY <1>3, OneHolder
<1>6. \A s \in saved : s.by = c =>
        /\ q.step = "store" /\ q.outcome = "changed" /\ call[c].step = "resolve"
        /\ call[c].key = s.key /\ s.at <= clock /\ s.at < call[c].expiresAt
  BY <1>1, <1>3 DEF McpInv, SaveStands, SaverGoesOn
<1>7. Fits(c, call[c])'
  <2>1. GoesOn(call[c])'
    BY <1>2 DEF GoesOn
  <2>2. KeepsItsRow(c, call[c])'
    BY <1>1, <1>2, <1>3 DEF Fits, KeepsItsRow
  <2>3. ReviewIsClaimed(call[c])'
    BY <1>2, <1>3, <1>4 DEF ReviewIsClaimed, Confirming
  <2>4. q.answer \in {"none", "write_failed", "stopped", "error"}
    BY DEF GoesOn
  <2>5. q.step = "store" /\ q.outcome = "changed" => \E s \in saved : s.key = q.key /\ s.by = c
    BY <1>1, <1>3 DEF Fits, TellsTheTruth
  <2>6. q.step # "store" => \A s \in saved : s.by # c
    BY <1>6
  <2>7. q.answer # "none" => q.step = "release"
    BY DEF GoesOn
  <2>8. TellsTheTruth(c, call[c])'
    BY <1>2, <1>3, <1>4, <2>4, <2>5, <2>6, <2>7 DEF TellsTheTruth, Verdict
  <2> QED BY <2>1, <2>2, <2>3, <2>8 DEF Fits
<1>8. \A k \in Keys : k = q.key => RowTells(k)'
  <2>1. key[q.key].id = c /\ key[q.key].status = "in_progress" /\ RowTells(q.key) /\ key[q.key] # Nothing
    BY <1>3, HoldersRow DEF McpInv
  <2> QED BY <1>2, <1>3, <2>1 DEF RowTells
<1>9. \A s \in saved : s.by = c => SaverGoesOn(s)'
  BY <1>2, <1>3, <1>6 DEF SaverGoesOn
<1>10. ASSUME NEW s \in saved PROVE RowStands(s)'
  <2>1. RowStands(s)
    BY DEF McpInv, SaveStands
  <2>2. CASE s.by = c
    BY <1>6, <2>1, <2>2 DEF RowStands, CallAt
  <2>3. CASE s.by # c
    BY <1>1, <1>2, <2>1, <2>3 DEF RowStands, CallAt
  <2> QED BY <2>2, <2>3
<1>11. \A s \in saved : s.key \in Reviews => review'[s.key].status \in {"executing", "completed"}
  <2>1. \A s \in saved : s.key \in Reviews => review[s.key].status \in {"executing", "completed"}
    BY DEF McpInv, SaveStands, AsReviewed
  <2>2. \A s \in saved : s.key = q.key => status = "completed"
    BY <1>3 DEF Verdict
  <2> QED BY <1>4, <2>1, <2>2
<1>12. \A r \in Reviews : review[r].status \in {"completed", "failed"} => review'[r] = review[r]
  BY <1>3, <1>4
<1>13. /\ call[c].step # "done" /\ q.step # "commit"
       /\ key' \in [Keys -> Record \cup {Nothing}] /\ \A k \in Keys : key'[k] = key[k]
  BY <1>1, <1>3 DEF McpTypeOK, Holding
<1> QED BY <1>2, <1>3, <1>4, <1>5, <1>7, <1>8, <1>9, <1>10, <1>11, <1>12, <1>13, CallTurn

\* A claimed review fails with the call that gives its key back.
LEMMA RefuseTurn ==
    ASSUME NEW c \in Calls, McpInv, Confirming(call[c]), call[c].step # "commit",
           NEW a \in {"stopped", "error"}, CallBecomes(c, Release(c, a)), Resolve(c, "failed"),
           UNCHANGED <<clock, safeMode, revision, key, saved>>
    PROVE  McpInv'
<1>1. McpTypeOK /\ Fits(c, call[c]) /\ a \in Answers /\ "failed" \in ReviewStatuses
  BY McpParts DEF Answers, ReviewStatuses
<1>2. PICK q \in Call : CallBecomes(c, q) /\ SameCallAs(c, q) /\ q.step = "release" /\ q.answer = a
  BY <1>1, ReleaseShape
<1>3. GoesOn(q)
  BY <1>1, <1>2 DEF Fits, GoesOn, SameCallAs, Confirming
<1>4. Holds(c) /\ call[c].key \in Reviews /\ call[c].step \notin {"store", "release"}
  BY DEF Holds, Holding, Confirming
<1>5. review[call[c].key].status = "executing"
  BY <1>1 DEF Fits, ReviewIsClaimed
<1>6. \A s \in saved : s.key # call[c].key
  BY <1>4, NothingSavedForIt
<1> QED BY <1>1, <1>2, <1>3, <1>4, <1>5, <1>6, ReviewTurn

LEMMA ClaimReviewTurn ==
    ASSUME NEW c \in Calls, McpInv, ClaimReview(c)
    PROVE  McpInv'
<1>1. McpTypeOK /\ Fits(c, call[c]) /\ call[c].step = "claim"
  BY McpParts DEF ClaimReview, CallAt
<1>2. Holds(c) /\ call[c].key \in Reviews
  BY <1>1 DEF Fits, GoesOn, Holds, Holding
<1>3. CASE safeMode
  BY <1>1, <1>2, <1>3, ReleasedQuietly DEF ClaimReview
<1>4. CASE ~safeMode /\ review[call[c].key].status # "pending"
  BY <1>1, <1>2, <1>4, FinishedQuietly DEF ClaimReview
<1>5. CASE ~safeMode /\ review[call[c].key].status = "pending"
  <2>1. "recheck" \in CallSteps /\ "executing" \in ReviewStatuses /\ CallGoto(c, "recheck")
        /\ Resolve(c, "executing") /\ UNCHANGED <<clock, safeMode, revision, key, saved>>
    BY <1>5 DEF ClaimReview, Resolve, CallSteps, ReviewStatuses
  <2>2. PICK q \in Call : /\ CallBecomes(c, q) /\ SameCallAs(c, q) /\ q.step = "recheck"
                          /\ q.answer = call[c].answer
    BY <1>1, <2>1, GotoShape
  <2>3. GoesOn(q)
    BY <1>1, <1>2, <2>2 DEF Fits, GoesOn, SameCallAs, Keys
  <2>4. \A s \in saved : s.key # call[c].key
    BY <1>2, <1>5, NothingSavedForIt
  <2> QED BY <1>1, <1>2, <1>5, <2>1, <2>2, <2>3, <2>4, ReviewTurn
<1> QED BY <1>3, <1>4, <1>5

LEMMA RecheckTurn ==
    ASSUME NEW c \in Calls, McpInv, NEW permitted \in BOOLEAN, Recheck(c, permitted)
    PROVE  McpInv'
<1>1. McpTypeOK /\ Fits(c, call[c]) /\ call[c].step = "recheck"
  BY McpParts DEF Recheck, CallAt
<1>2. Holds(c) /\ call[c].key \in Reviews /\ Confirming(call[c])
  BY <1>1 DEF Fits, GoesOn, Holds, Holding, Confirming
<1>3. CASE permitted /\ AsPreviewed(call[c].key)
  BY <1>1, <1>2, <1>3, GoesOnQuietly DEF Recheck
<1>4. CASE ~(permitted /\ AsPreviewed(call[c].key))
  <2>1. /\ "failed" \in ReviewStatuses /\ "refused" \in Outcomes /\ Verdict("refused") = "failed"
        /\ CallBecomes(c, Ends(c, "store", "refused"))
        /\ Resolve(c, "failed") /\ UNCHANGED <<clock, safeMode, revision, key, saved>>
    BY <1>4 DEF Recheck, Finish, Ends, ReviewStatuses, Outcomes, Verdict
  <2>2. PICK q \in Call : /\ CallBecomes(c, q) /\ SameCallAs(c, q) /\ q.step = "store"
                          /\ q.outcome = "refused" /\ q.answer = call[c].answer
    BY <1>1, <2>1, OutcomeShape
  <2>3. GoesOn(q)
    BY <1>1, <1>2, <2>2 DEF Fits, GoesOn, SameCallAs, Keys
  <2>4. review[call[c].key].status = "executing" /\ \A s \in saved : s.key # call[c].key
    BY <1>1, <1>2 DEF Fits, ReviewIsClaimed
  <2> QED BY <1>1, <1>2, <2>1, <2>2, <2>3, <2>4, ReviewTurn
<1> QED BY <1>3, <1>4

LEMMA RecheckThrowsTurn ==
    ASSUME NEW c \in Calls, McpInv, NEW resolved \in BOOLEAN, RecheckThrows(c, resolved)
    PROVE  McpInv'
<1>1. Fits(c, call[c]) /\ call[c].step = "recheck"
  BY McpParts DEF RecheckThrows, CallAt
<1>2. Holds(c) /\ Confirming(call[c])
  BY <1>1 DEF Fits, GoesOn, Holds, Holding, Confirming
<1>3. CASE resolved
  BY <1>1, <1>2, <1>3, RefuseTurn DEF RecheckThrows
<1>4. CASE ~resolved
  BY <1>1, <1>2, <1>4, ReleasedQuietly DEF RecheckThrows
<1> QED BY <1>3, <1>4

\* The stop is checked twice more before the change.
LEMMA ServiceTurn ==
    ASSUME NEW c \in Calls, McpInv, StopAgain(c) \/ ServiceLock(c)
    PROVE  McpInv'
<1>1. Fits(c, call[c]) /\ call[c].step \in {"again", "lock"}
  BY McpParts DEF StopAgain, ServiceLock, CallAt
<1>2. Holds(c) /\ Confirming(call[c])
  BY <1>1 DEF Fits, GoesOn, Holds, Holding, Confirming
<1>3. CASE safeMode
  <2>1. /\ CallBecomes(c, Release(c, "stopped")) /\ UNCHANGED <<clock, safeMode, revision, key, saved>>
        /\ Resolve(c, "failed") \/ UNCHANGED review
    BY <1>3 DEF StopAgain, ServiceLock, Refuse
  <2> QED BY <1>1, <1>2, <2>1, RefuseTurn, ReleasedQuietly
<1>4. CASE ~safeMode
  <2>1. PICK step \in {"lock", "verify"} :
          CallGoto(c, step) /\ UNCHANGED <<clock, safeMode, revision, review, key, saved>>
    BY <1>4 DEF StopAgain, ServiceLock
  <2> QED BY <1>1, <1>2, <1>4, <2>1, GoesOnQuietly
<1> QED BY <1>3, <1>4

LEMMA ServiceVerifyTurn ==
    ASSUME NEW c \in Calls, McpInv, ServiceVerify(c)
    PROVE  McpInv'
<1>1. McpTypeOK /\ Fits(c, call[c]) /\ call[c].step = "verify"
  BY McpParts DEF ServiceVerify, CallAt
<1>2. Holds(c) /\ Confirming(call[c]) /\ ~safeMode
  BY <1>1 DEF Fits, GoesOn, Holds, Holding, Confirming
<1>3. CASE Expected(call[c].key)
  <2>1. CallGoto(c, "commit")
    BY <1>3 DEF ServiceVerify, CallGoto
  <2> QED BY <1>1, <1>2, <1>3, <2>1, GoesOnQuietly DEF ServiceVerify, Expected
<1>4. CASE ~Expected(call[c].key)
  <2>1. /\ "refused" \in Outcomes
        /\ CallBecomes(c, Ends(c, "resolve", "refused"))
    BY <1>4 DEF ServiceVerify, Ends, Outcomes
  <2>2. PICK q \in Call : /\ CallBecomes(c, q) /\ SameCallAs(c, q) /\ q.step = "resolve"
                          /\ q.outcome = "refused" /\ q.answer = call[c].answer
    BY <1>1, <2>1, OutcomeShape
  <2>3. GoesOn(q) /\ q.answer = "none"
    BY <1>1, <1>2, <2>2 DEF Fits, GoesOn, SameCallAs, Confirming
  <2>4. KeepsItsRow(c, q)
    BY <1>1, <1>2, <2>2 DEF Fits, KeepsItsRow, SameCallAs, Holds
  <2>5. ReviewIsClaimed(q)
    BY <1>1, <1>2, <2>2 DEF Fits, ReviewIsClaimed, Confirming, SameCallAs
  <2>6. TellsTheTruth(c, q)
    BY <2>2, <2>3 DEF TellsTheTruth
  <2>7. \A s \in saved : s.by # c
    BY <1>1, NothingSavedYet
  <2> QED BY <1>1, <2>2, <2>3, <2>4, <2>5, <2>6, <2>7, QuietTurn
         DEF ServiceVerify, Fits, Holds, Holding
<1> QED BY <1>3, <1>4

LEMMA ResolveReviewTurn ==
    ASSUME NEW c \in Calls, McpInv, ResolveReview(c)
    PROVE  McpInv'
<1>1. /\ McpTypeOK /\ Fits(c, call[c]) /\ call[c].step = "resolve" /\ "store" \in CallSteps
      /\ {"completed", "failed"} \subseteq ReviewStatuses
  BY McpParts DEF ResolveReview, CallAt, CallSteps, ReviewStatuses
<1>2. Holds(c) /\ call[c].key \in Reviews /\ call[c].outcome \in {"changed", "refused"}
  BY <1>1 DEF Fits, GoesOn, Holds, Holding
<1>3. PICK status \in ReviewStatuses : status = Verdict(call[c].outcome)
  BY <1>1 DEF Verdict
<1>4. PICK q \in Call : /\ CallBecomes(c, q) /\ SameCallAs(c, q) /\ q.step = "store"
                        /\ q.outcome = call[c].outcome /\ q.answer = call[c].answer
  BY <1>1, GotoShape DEF ResolveReview
<1>5. GoesOn(q)
  BY <1>1, <1>2, <1>4 DEF Fits, GoesOn, SameCallAs, Keys
<1>6. review[call[c].key].status = "executing"
  BY <1>1 DEF Fits, ReviewIsClaimed
<1>7. call[c].outcome = "refused" => \A s \in saved : s.key # call[c].key
  BY <1>1, <1>2, NothingSavedForIt
<1>8. Resolve(c, status) /\ UNCHANGED <<clock, safeMode, revision, key, saved>>
  BY <1>3 DEF ResolveReview
<1> QED BY <1>1, <1>2, <1>3, <1>4, <1>5, <1>6, <1>7, <1>8, ReviewTurn

-----------------------------------------------------------------------------
(* Steps that write the record of a key. *)

SetsRow(k, v) == key' = [key EXCEPT ![k] = v]

\* v says what the call c, once it is as q describes it, has to do with the key.
IsInProgress(c, q, v) ==
    v = [id |-> c, args |-> q.args, status |-> "in_progress",
         outcome |-> "none", expiresAt |-> q.expiresAt]
RowFits(c, q, v) ==
    /\ q.step \in Holding => IsInProgress(c, q, v)
    /\ v # Nothing =>
         /\ v.id = c /\ v.args = q.args /\ v.expiresAt = q.expiresAt
         /\ q.step \in Holding \cup {"done"}
         /\ v.status # "completed" => v.outcome = "none"
         /\ v.status = "completed" =>
              /\ q.step = "done" /\ q.answer = v.outcome
              /\ v.outcome \in {"changed", "refused", "used"}

\* A change saved under the key was answered long ago, or is the call's own.
SavesFit(c, q, k, v) ==
    /\ \A s \in saved : s.by = c =>
         q.step = "done" /\ q.answer \in {"changed", "unknown", "lost"} /\ v # Nothing
    /\ \A s \in saved : s.key = k /\ s.by # c =>
         CallAt(s.by, "done") /\ call[s.by].answer = "changed" /\ call[s.by].expiresAt <= clock

\* Its row is written by the call that holds the key, or by one that finds it free.
LEMMA KeyTurn ==
    ASSUME NEW c \in Calls, NEW q \in Call, NEW k \in Keys, NEW v \in Record \cup {Nothing}, McpInv,
           CallBecomes(c, q), SameCallAs(c, q), k = call[c].key, SetsRow(k, v),
           call[c].step \notin {"idle", "done"}, q.step \notin {"idle", "commit"},
           UNCHANGED <<clock, safeMode, revision, review, saved>>,
           \A d \in Calls \ {c} : Holds(d) => call[d].key # k,
           GoesOn(q), ReviewIsClaimed(q), TellsTheTruth(c, q),
           RowFits(c, q, v), SavesFit(c, q, k, v)
    PROVE  McpInv'
<1>1. /\ McpTypeOK
      /\ \A d \in Calls : call[d] \in Call /\ Fits(d, call[d])
      /\ \A s \in saved : s \in Saved /\ s.by \in Calls /\ s.key \in Keys
  BY McpParts
<1>2. call' \in [Calls -> Call] /\ call'[c] = q /\ \A d \in Calls \ {c} : call'[d] = call[d]
  BY <1>1 DEF McpTypeOK, CallBecomes
<1>3. /\ key' \in [Keys -> Record \cup {Nothing}] /\ key'[k] = v
      /\ \A x \in Keys : x # k => key'[x] = key[x]
  BY <1>1 DEF McpTypeOK, SetsRow
<1>4. q.key = k /\ q.args = call[c].args /\ q.expiresAt = call[c].expiresAt
  BY DEF SameCallAs
<1>5. \A s \in saved : s.by = c =>
        /\ call[c].step \in {"resolve", "store"} /\ s.key = k
        /\ s.at <= clock /\ s.at < call[c].expiresAt
  BY <1>1 DEF McpInv, SaveStands, SaverGoesOn, Fits, GoesOn, SavesFit
<1>6. \A s \in saved : call'[s.by].args = call[s.by].args
  BY <1>1, <1>2, <1>4
<1>7. Fits(c, call[c])'
  <2>1. KeepsItsRow(c, call[c])'
    BY <1>2, <1>3, <1>4 DEF KeepsItsRow, RowFits, IsInProgress
  <2> QED BY <1>2, <1>6, <2>1 DEF Fits, GoesOn, ReviewIsClaimed, Confirming, TellsTheTruth
<1>8. RowTells(k)'
  BY <1>2, <1>3, <1>4 DEF RowTells, RowFits
<1>9. \A s \in saved : s.by = c => SaverGoesOn(s)'
  BY <1>2, <1>4, <1>5 DEF SaverGoesOn, SavesFit
<1>10. ASSUME NEW s \in saved, s.by = c \/ s.key = k PROVE RowStands(s)'
  <2>1. CASE s.by = c
    BY <1>3, <1>5, <2>1 DEF RowStands, SavesFit, RowFits
  <2>2. CASE s.by # c
    BY <1>1, <1>2, <1>10, <2>2 DEF RowStands, CallAt, SavesFit
  <2> QED BY <2>1, <2>2
<1>11. \A s \in saved : s.key \in Reviews => review[s.key].status \in {"executing", "completed"}
  BY DEF McpInv, SaveStands, AsReviewed
<1>12. review' \in [Reviews -> Review] /\ \A r \in Reviews : review'[r] = review[r]
  BY <1>1 DEF McpTypeOK
<1> QED BY <1>2, <1>3, <1>4, <1>7, <1>8, <1>9, <1>10, <1>11, <1>12, CallTurn

LEMMA InsertTurn ==
    ASSUME NEW c \in Calls, McpInv, Insert(c)
    PROVE  McpInv'
<1>1. /\ McpTypeOK /\ call[c] \in Call /\ Fits(c, call[c]) /\ call[c].step = "insert"
      /\ call[c].key \in Keys /\ key[call[c].key] = Nothing
  BY McpParts DEF Insert, CallAt, Fits, GoesOn
<1>2. PICK k \in Keys : k = call[c].key
  BY <1>1
<1>3. PICK step \in {"stop", "own"} :
        CallGoto(c, step) /\ (step = "stop" => k \in DirectKeys) /\ (step = "own" => k \in Reviews)
  BY <1>2 DEF Insert, First, Direct, Keys
<1>4. PICK q \in Call : /\ CallBecomes(c, q) /\ SameCallAs(c, q) /\ q.step = step
                        /\ q.answer = call[c].answer
  <2>1. step \in CallSteps
    BY DEF CallSteps
  <2> QED BY <1>1, <1>3, <2>1, GotoShape
<1>5. PICK v \in Record :
        v = [id |-> c, args |-> q.args, status |-> "in_progress",
             outcome |-> "none", expiresAt |-> q.expiresAt]
  <2>1. "in_progress" \in {"in_progress", "unknown", "completed"} /\ "none" \in Outcomes
    BY DEF Outcomes
  <2> QED BY <2>1 DEF Call, Record
<1>6. SetsRow(k, v) /\ v # Nothing
  BY <1>2, <1>4, <1>5, NothingAssumption DEF Insert, SameCallAs, SetsRow
<1>7. v.id = c /\ v.args = q.args /\ v.status = "in_progress" /\ v.outcome = "none"
      /\ v.expiresAt = q.expiresAt
  BY <1>5
<1>8. \A s \in saved : s.by # c
  BY <1>1, NothingSavedYet
<1>9. \A d \in Calls \ {c} : Holds(d) => call[d].key # k
  BY <1>1, <1>2, HoldersRow
<1>10. q.answer = "none" /\ q.step \in Holding
  BY <1>1, <1>4 DEF Fits, GoesOn, Holding
<1>11. GoesOn(q)
  BY <1>1, <1>2, <1>3, <1>4, <1>10 DEF Fits, GoesOn, SameCallAs
<1>12. ReviewIsClaimed(q) /\ TellsTheTruth(c, q)
  BY <1>4, <1>10 DEF ReviewIsClaimed, Confirming, TellsTheTruth
<1>13. \A s \in saved : s.key = k =>
         CallAt(s.by, "done") /\ call[s.by].answer = "changed" /\ call[s.by].expiresAt <= clock
  BY <1>1, <1>2 DEF McpInv, SaveStands, RowStands
<1>14. RowFits(c, q, v)
  BY <1>5, <1>7, <1>10 DEF RowFits, IsInProgress
<1>15. SavesFit(c, q, k, v)
  BY <1>8, <1>13 DEF SavesFit
<1>16. q.step \notin {"idle", "commit"} /\ UNCHANGED <<clock, safeMode, revision, review, saved>>
  BY <1>4 DEF Insert
<1> QED BY <1>1, <1>2, <1>4, <1>6, <1>9, <1>11, <1>12, <1>14, <1>15, <1>16, KeyTurn

\* Only a finished answer is forgotten, when it has expired.
LEMMA LookForgottenTurn ==
    ASSUME NEW c \in Calls, McpInv, LookForgotten(c)
    PROVE  McpInv'
<1>1. /\ McpTypeOK /\ Fits(c, call[c]) /\ call[c].step = "look" /\ call[c].key \in Keys
      /\ \A s \in saved : s.by \in Calls
  BY McpParts DEF LookForgotten, CallAt, Fits, GoesOn
<1>2. PICK k \in Keys : k = call[c].key
  BY <1>1
<1>3. /\ key[k] # Nothing /\ key[k].status = "completed" /\ key[k].expiresAt <= clock
      /\ SetsRow(k, Nothing) /\ RowTells(k)
  BY <1>2 DEF LookForgotten, Forgotten, McpInv, SetsRow
<1>4. PICK q \in Call : /\ CallBecomes(c, q) /\ SameCallAs(c, q)
                        /\ \/ q.step = "insert" /\ q.answer = call[c].answer
                           \/ q.step = "done" /\ q.answer = "in_progress"
  BY <1>1, RetryShape DEF LookForgotten
<1>5. \A s \in saved : s.by # c
  BY <1>1, NothingSavedYet
<1>6. \A d \in Calls \ {c} : Holds(d) => call[d].key # k
  BY <1>3, HoldersRow
<1>7. GoesOn(q) /\ ReviewIsClaimed(q) /\ TellsTheTruth(c, q)
  BY <1>1, <1>4 DEF Fits, GoesOn, SameCallAs, ReviewIsClaimed, Confirming, TellsTheTruth
<1>8. ASSUME NEW s \in saved, s.key = k
      PROVE  CallAt(s.by, "done") /\ call[s.by].answer = "changed" /\ call[s.by].expiresAt <= clock
  <2>1. RowStands(s) /\ SaverGoesOn(s)
    BY DEF McpInv, SaveStands
  <2> QED BY <1>3, <1>8, <2>1 DEF RowStands, SaverGoesOn, RowTells, CallAt
<1>9. q.step \notin Holding \cup {"idle", "commit"}
  BY <1>4 DEF Holding
<1>10. RowFits(c, q, Nothing) /\ SavesFit(c, q, k, Nothing)
  BY <1>5, <1>8, <1>9 DEF RowFits, SavesFit
<1>11. Nothing \in Record \cup {Nothing} /\ UNCHANGED <<clock, safeMode, revision, review, saved>>
  BY DEF LookForgotten
<1> QED BY <1>1, <1>2, <1>3, <1>4, <1>6, <1>7, <1>9, <1>10, <1>11, KeyTurn

\* What is stored under the key is what the call answers.
LEMMA StoreTurn ==
    ASSUME NEW c \in Calls, McpInv, Store(c)
    PROVE  McpInv'
<1>1. McpTypeOK /\ call[c] \in Call /\ Fits(c, call[c]) /\ call[c].step = "store" /\ Holds(c)
  BY McpParts DEF Store, CallAt, Holds, Holding
<1>2. PICK k \in Keys, r \in Record :
        /\ k = call[c].key /\ r = key[k] /\ r # Nothing
        /\ r.id = c /\ r.args = call[c].args /\ r.expiresAt = call[c].expiresAt /\ r.outcome = "none"
  BY <1>1, HoldersRow
<1>3. PICK a \in {"changed", "refused", "used", "unknown"} : a = call[c].outcome
  BY <1>1 DEF Fits, GoesOn
<1>4. PICK q \in Call : CallBecomes(c, q) /\ SameCallAs(c, q) /\ q.step = "done" /\ q.answer = a
  <2>1. a \in Answers /\ Reply(c, a)
    BY <1>3 DEF Store, Answers, Outcomes
  <2> QED BY <1>1, <2>1, ReplyShape
<1>5. PICK v \in Record :
        /\ SetsRow(k, v) /\ v # Nothing
        /\ v.id = c /\ v.args = r.args /\ v.expiresAt = r.expiresAt
        /\ a = "unknown" => v.status = "unknown" /\ v.outcome = "none"
        /\ a # "unknown" => v.status = "completed" /\ v.outcome = a
  <2>1. CASE a = "unknown"
    <3> DEFINE v == [r EXCEPT !.status = "unknown"]
    <3>1. /\ v \in Record /\ v.id = c /\ v.args = r.args /\ v.expiresAt = r.expiresAt
          /\ v.status = "unknown" /\ v.outcome = "none"
      BY <1>2 DEF Record
    <3>2. SetsRow(k, v)
      BY <1>1, <1>2, <1>3, <2>1 DEF Store, McpTypeOK, SetsRow
    <3> HIDE DEF v
    <3> QED BY <2>1, <3>1, <3>2, NothingAssumption
  <2>2. CASE a # "unknown"
    <3> DEFINE v == [r EXCEPT !.status = "completed", !.outcome = a]
    <3>1. a \in Outcomes
      BY DEF Outcomes
    <3>2. /\ v \in Record /\ v.id = c /\ v.args = r.args /\ v.expiresAt = r.expiresAt
          /\ v.status = "completed" /\ v.outcome = a
      BY <1>2, <3>1 DEF Record
    <3>3. SetsRow(k, v)
      BY <1>1, <1>2, <1>3, <2>2 DEF Store, McpTypeOK, SetsRow
    <3> HIDE DEF v
    <3> QED BY <2>2, <3>2, <3>3, NothingAssumption
  <2> QED BY <2>1, <2>2
<1>6. ASSUME NEW s \in saved, s.by = c PROVE a \in {"changed", "unknown"}
  BY <1>1, <1>3, <1>6 DEF McpInv, SaveStands, SaverGoesOn
<1>7. ASSUME NEW s \in saved, s.key = k, s.by # c
      PROVE  CallAt(s.by, "done") /\ call[s.by].answer = "changed" /\ call[s.by].expiresAt <= clock
  BY <1>2, <1>7 DEF McpInv, SaveStands, RowStands
<1>8. \A d \in Calls \ {c} : Holds(d) => call[d].key # k
  BY <1>1, <1>2, OneHolder
<1>9. GoesOn(q) /\ ReviewIsClaimed(q)
  BY <1>2, <1>4 DEF GoesOn, ReviewIsClaimed, Confirming, SameCallAs
<1>10. TellsTheTruth(c, q)
  <2>1. TellsTheTruth(c, call[c])
    BY <1>1 DEF Fits
  <2> QED BY <1>1, <1>3, <1>4, <2>1 DEF TellsTheTruth, SameCallAs
<1>11. q.step \notin Holding \cup {"idle", "commit"}
  BY <1>4 DEF Holding
<1>12. RowFits(c, q, v)
  BY <1>2, <1>3, <1>4, <1>5, <1>11 DEF RowFits, SameCallAs
<1>13. SavesFit(c, q, k, v)
  BY <1>4, <1>5, <1>6, <1>7 DEF SavesFit
<1>14. UNCHANGED <<clock, safeMode, revision, review, saved>>
  BY DEF Store
<1> QED BY <1>1, <1>2, <1>4, <1>5, <1>8, <1>9, <1>10, <1>11, <1>12, <1>13, <1>14, KeyTurn

\* A key is given back by a call that has saved nothing.
LEMMA GiveBackTurn ==
    ASSUME NEW c \in Calls, McpInv, GiveBack(c)
    PROVE  McpInv'
<1>1. McpTypeOK /\ Fits(c, call[c]) /\ call[c].step = "release" /\ Holds(c) /\ "done" \in CallSteps
  BY McpParts DEF GiveBack, CallAt, Holds, Holding, CallSteps
<1>2. PICK k \in Keys :
        /\ k = call[c].key /\ key[k] # Nothing /\ key[k].id = c /\ key[k].status = "in_progress"
  BY <1>1, HoldersRow
<1>3. SetsRow(k, Nothing)
  BY <1>2 DEF GiveBack, SetsRow
<1>4. PICK q \in Call : /\ CallBecomes(c, q) /\ SameCallAs(c, q) /\ q.step = "done"
                        /\ q.answer = call[c].answer
  BY <1>1, GotoShape DEF GiveBack
<1>5. \A s \in saved : s.by # c
  BY <1>1, NothingSavedYet
<1>6. \A d \in Calls \ {c} : Holds(d) => call[d].key # k
  BY <1>1, <1>2, OneHolder
<1>7. GoesOn(q) /\ ReviewIsClaimed(q)
  BY <1>2, <1>4 DEF GoesOn, ReviewIsClaimed, Confirming, SameCallAs
<1>8. TellsTheTruth(c, q)
  <2>1. q.answer \in {"write_failed", "stopped", "error"}
    BY <1>1, <1>4 DEF Fits, GoesOn
  <2> QED BY <1>4, <1>5, <2>1 DEF TellsTheTruth
<1>9. \A s \in saved : s.key = k =>
        CallAt(s.by, "done") /\ call[s.by].answer = "changed" /\ call[s.by].expiresAt <= clock
  BY <1>2, <1>5 DEF McpInv, SaveStands, RowStands
<1>10. q.step \notin Holding \cup {"idle", "commit"}
  BY <1>4 DEF Holding
<1>11. RowFits(c, q, Nothing) /\ SavesFit(c, q, k, Nothing)
  BY <1>5, <1>9, <1>10 DEF RowFits, SavesFit
<1>12. Nothing \in Record \cup {Nothing} /\ UNCHANGED <<clock, safeMode, revision, review, saved>>
  BY DEF GiveBack
<1> QED BY <1>1, <1>2, <1>3, <1>4, <1>6, <1>7, <1>8, <1>10, <1>11, <1>12, KeyTurn

-----------------------------------------------------------------------------
(* The step that saves. *)

\* A call about to commit has its row to itself, and for a review it is the first.
LEMMA BeforeCommit ==
    ASSUME NEW c \in Calls, McpInv, call[c].step = "commit"
    PROVE  /\ call[c] \in Call /\ call[c].key \in Keys /\ call[c].answer = "none"
           /\ clock < call[c].expiresAt /\ ~safeMode
           /\ key[call[c].key] # Nothing /\ key[call[c].key].id = c
           /\ key[call[c].key].status = "in_progress"
           /\ \A s \in saved : s.by # c
           /\ \A d \in Calls \ {c} : Holds(d) => call[d].key # call[c].key
           /\ \A d \in Calls \ {c} : call[d].step # "commit"
           /\ call[c].key \in Reviews =>
                /\ review[call[c].key].status = "executing"
                /\ review[call[c].key].revision = revision
                /\ \A s \in saved : s.key # call[c].key
<1>1. McpTypeOK /\ call[c] \in Call /\ Fits(c, call[c]) /\ Holds(c)
  BY McpParts DEF Holds, Holding
<1>2. GoesOn(call[c]) /\ ReviewIsClaimed(call[c])
  BY <1>1 DEF Fits
<1>3. call[c].key \in Keys /\ call[c].answer = "none" /\ clock < call[c].expiresAt /\ ~safeMode
  BY <1>2 DEF GoesOn
<1>4. \A d \in Calls \ {c} : call[d].step # "commit"
  BY DEF McpInv, OneCommits, CallAt
<1>5. call[c].key \in Reviews => Confirming(call[c])
  BY DEF Confirming
<1>6. call[c].key \in Reviews =>
        /\ review[call[c].key].status = "executing"
        /\ review[call[c].key].revision = revision
        /\ \A s \in saved : s.key # call[c].key
  BY <1>2, <1>5 DEF ReviewIsClaimed
<1> QED BY <1>1, <1>3, <1>4, <1>6, HoldersRow, OneHolder, NothingSavedYet

\* There is room for its revision, and it is counted.
LEMMA CommitCounts ==
    ASSUME NEW c \in Calls, NEW t, McpInv, saved' = saved \cup {t}, t.by = c,
           revision' = revision + 1, \A s \in saved : s.by # c
    PROVE  revision' \in Revisions /\ RevisionsAreCounted'
<1>1. Savers \subseteq Calls /\ c \notin Savers /\ Savers' = Savers \cup {c}
  BY DEF Savers
<1>2. /\ IsFiniteSet(Calls) /\ IsFiniteSet(Savers)
      /\ Savers' \subseteq Calls
  BY <1>1, McpAssumption, FS_Subset
<1>3. /\ Cardinality(Savers) \in Nat /\ Cardinality(Calls) \in Nat
      /\ Cardinality(Savers') = Cardinality(Savers) + 1
  BY <1>1, <1>2, FS_CardinalityType, FS_AddElement
<1>4. Cardinality(Savers') <= Cardinality(Calls)
  BY <1>2, FS_Subset
<1>5. revision \in Nat /\ revision <= MaxRevision + Cardinality(Savers)
  BY <1>3, McpAssumption DEF McpInv, McpTypeOK, Revisions, RevisionsAreCounted
<1>6. revision' \in Nat /\ revision' <= MaxRevision + Cardinality(Savers')
      /\ revision' <= MaxRevision + Cardinality(Calls)
  BY <1>3, <1>4, <1>5, McpAssumption
<1>7. revision' \in Revisions
  BY <1>3, <1>6, McpAssumption DEF Revisions
<1> QED BY <1>6, <1>7 DEF RevisionsAreCounted

\* What the call does next, and what it has saved.
LEMMA CommitShape ==
    ASSUME NEW c \in Calls, NEW heard \in BOOLEAN, McpInv, Commit(c, heard)
    PROVE  /\ \E q \in Call :
                /\ CallBecomes(c, q) /\ SameCallAs(c, q) /\ q.answer = call[c].answer
                /\ \/ q.step = "store" /\ q.outcome = "unknown"
                   \/ q.step = "store" /\ q.outcome = "changed" /\ call[c].key \in DirectKeys
                   \/ q.step = "resolve" /\ q.outcome = "changed" /\ call[c].key \in Reviews
           /\ \E t \in Saved :
                /\ saved' = saved \cup {t}
                /\ t.key = call[c].key /\ t.by = c /\ t.at = clock /\ t.on = revision
                /\ call[c].key \in Reviews => t.previewed = review[call[c].key].revision
<1>1. McpTypeOK /\ call[c].step = "commit" /\ call[c] \in Call
  BY McpParts DEF Commit, CallAt
<1>2. call[c].key \in Keys
  BY <1>1, BeforeCommit
<1>3. "unknown" \in Outcomes /\ "changed" \in Outcomes
  BY DEF Outcomes
<1>4. \/ CallBecomes(c, Ends(c, "store", "unknown"))
      \/ CallBecomes(c, Ends(c, "store", "changed")) /\ call[c].key \in DirectKeys
      \/ CallBecomes(c, Ends(c, "resolve", "changed")) /\ call[c].key \in Reviews
  <2>1. CASE ~heard
    BY <2>1 DEF Commit, Undecided, Finish, Ends
  <2>2. CASE heard /\ Direct(c)
    BY <2>2 DEF Commit, Finish, Ends, Direct
  <2>3. CASE heard /\ ~Direct(c)
    BY <1>2, <2>3 DEF Commit, Ends, Direct, Keys
  <2> QED BY <2>1, <2>2, <2>3
<1>5. \E q \in Call :
        /\ CallBecomes(c, q) /\ SameCallAs(c, q) /\ q.answer = call[c].answer
        /\ \/ q.step = "store" /\ q.outcome = "unknown"
           \/ q.step = "store" /\ q.outcome = "changed" /\ call[c].key \in DirectKeys
           \/ q.step = "resolve" /\ q.outcome = "changed" /\ call[c].key \in Reviews
  BY <1>1, <1>3, <1>4, OutcomeShape
<1>6. \E t \in Saved :
        /\ saved' = saved \cup {t}
        /\ t.key = call[c].key /\ t.by = c /\ t.at = clock /\ t.on = revision
        /\ call[c].key \in Reviews => t.previewed = review[call[c].key].revision
  <2>1. PICK seen \in Revisions :
          seen = (IF Direct(c) THEN revision ELSE review[call[c].key].revision)
    <3>1. revision \in Revisions
      BY <1>1 DEF McpTypeOK
    <3>2. CASE ~Direct(c)
      <4>1. review[call[c].key] \in Review
        BY <1>1, <1>2, <3>2 DEF McpTypeOK, Direct, Keys
      <4> QED BY <3>2, <4>1 DEF Review
    <3> QED BY <3>1, <3>2
  <2> DEFINE t == [key |-> call[c].key, by |-> c, at |-> clock, on |-> revision, previewed |-> seen]
  <2>2. t \in Saved
    BY <1>1, <1>2 DEF Saved, McpTypeOK
  <2>3. saved' = saved \cup {t}
    BY <2>1 DEF Commit, Change
  <2>4. call[c].key \in Reviews => t.previewed = review[call[c].key].revision
    BY <2>1, McpAssumption DEF Direct
  <2>5. t.key = call[c].key /\ t.by = c /\ t.at = clock /\ t.on = revision
    OBVIOUS
  <2> HIDE DEF t
  <2> QED BY <2>2, <2>3, <2>4, <2>5
<1> QED BY <1>5, <1>6

\* No other call notices.
LEMMA CommitOthers ==
    ASSUME NEW c \in Calls, NEW t, NEW d \in Calls \ {c}, McpInv, Fits(d, call[d]),
           call[c].step = "commit", t.by = c, t.key = call[c].key, saved' = saved \cup {t},
           call'[d] = call[d], \A s \in saved : call'[s.by].args = call[s.by].args,
           UNCHANGED <<clock, safeMode, review, key>>
    PROVE  Fits(d, call[d])'
<1>1. call[d].step # "commit" /\ (Holds(d) => call[d].key # t.key)
  BY BeforeCommit
<1>2. GoesOn(call[d])'
  BY DEF Fits, GoesOn
<1>3. KeepsItsRow(d, call[d])'
  BY DEF Fits, KeepsItsRow
<1>4. ReviewIsClaimed(call[d])'
  <2>1. Confirming(call[d]) => Holds(d)
    BY DEF Confirming, Holds, Holding
  <2> QED BY <1>1, <2>1 DEF Fits, ReviewIsClaimed, Confirming
<1>5. TellsTheTruth(d, call[d])'
  BY DEF Fits, TellsTheTruth
<1> QED BY <1>2, <1>3, <1>4, <1>5 DEF Fits

LEMMA CommitTurn ==
    ASSUME NEW c \in Calls, NEW heard \in BOOLEAN, McpInv, Commit(c, heard)
    PROVE  McpInv'
<1>1. /\ McpTypeOK /\ call[c].step = "commit"
      /\ \A d \in Calls : call[d] \in Call /\ Fits(d, call[d])
      /\ \A s \in saved : s \in Saved /\ s.by \in Calls /\ s.key \in Keys
      /\ revision' = revision + 1 /\ UNCHANGED <<clock, safeMode, review, key>>
  BY McpParts DEF Commit, CallAt
<1>2. PICK k \in Keys : k = call[c].key
  BY <1>1, BeforeCommit
<1>3. /\ call[c].answer = "none" /\ clock < call[c].expiresAt /\ ~safeMode
      /\ key[k] # Nothing /\ key[k].id = c /\ key[k].status = "in_progress"
      /\ \A s \in saved : s.by # c
      /\ \A d \in Calls \ {c} : call[d].step # "commit"
      /\ k \in Reviews =>
           /\ review[k].status = "executing" /\ review[k].revision = revision
           /\ \A s \in saved : s.key # k
  BY <1>1, <1>2, BeforeCommit
<1>4. PICK q \in Call :
        /\ CallBecomes(c, q) /\ SameCallAs(c, q) /\ q.answer = "none"
        /\ \/ q.step = "store" /\ q.outcome = "unknown"
           \/ q.step = "store" /\ q.outcome = "changed" /\ k \in DirectKeys
           \/ q.step = "resolve" /\ q.outcome = "changed" /\ k \in Reviews
  BY <1>2, <1>3, CommitShape
<1>5. PICK t \in Saved :
        /\ saved' = saved \cup {t}
        /\ t.key = k /\ t.by = c /\ t.at = clock /\ t.on = revision
        /\ k \in Reviews => t.previewed = review[k].revision
  BY <1>2, CommitShape
<1>6. /\ call' \in [Calls -> Call] /\ call'[c] = q /\ \A d \in Calls \ {c} : call'[d] = call[d]
      /\ q.key = k /\ q.args = call[c].args /\ q.expiresAt = call[c].expiresAt
  BY <1>1, <1>2, <1>4 DEF McpTypeOK, CallBecomes, SameCallAs
<1>7. \A s \in saved : call'[s.by] = call[s.by]
  BY <1>1, <1>3, <1>6
<1>8. revision' \in Revisions /\ RevisionsAreCounted'
  BY <1>1, <1>3, <1>5, CommitCounts
<1>9. McpTypeOK'
  BY <1>1, <1>5, <1>6, <1>8 DEF McpTypeOK
<1>10. Fits(c, call[c])'
  <2>1. GoesOn(q)'
    BY <1>1, <1>2, <1>3, <1>4, <1>6 DEF GoesOn
  <2>2. KeepsItsRow(c, q)'
    <3>1. KeepsItsRow(c, call[c]) /\ call[c].step \in Holding
      BY <1>1 DEF Fits, Holding
    <3> QED BY <1>1, <1>2, <1>6, <3>1 DEF KeepsItsRow
  <2>3. ReviewIsClaimed(q)'
    BY <1>1, <1>3, <1>4, <1>6 DEF ReviewIsClaimed, Confirming
  <2>4. TellsTheTruth(c, q)'
    <3>1. k \in DirectKeys => k \notin Reviews
      BY McpAssumption
    <3> QED BY <1>4, <1>5, <1>6, <3>1 DEF TellsTheTruth
  <2> QED BY <1>6, <2>1, <2>2, <2>3, <2>4 DEF Fits, GoesOn, KeepsItsRow, ReviewIsClaimed, Confirming,
                                             TellsTheTruth
<1>11. ASSUME NEW d \in Calls, d # c PROVE Fits(d, call[d])'
  BY <1>1, <1>2, <1>5, <1>6, <1>7, <1>11, CommitOthers
<1>12. ASSUME NEW x \in Keys PROVE RowTells(x)'
  <2>1. RowTells(x) /\ (key[x] # Nothing => key[x].id \in Calls)
    BY <1>1 DEF McpInv, McpTypeOK, Record
  <2>2. CASE key[x] # Nothing /\ key[x].id = c
    <3>1. x = k
      BY <1>2, <2>1, <2>2 DEF RowTells
    <3> QED BY <1>1, <1>3, <1>4, <1>6, <2>1, <2>2, <3>1 DEF RowTells, Holding
  <2>3. CASE key[x] # Nothing /\ key[x].id # c
    BY <1>1, <1>6, <2>1, <2>3 DEF RowTells
  <2>4. CASE key[x] = Nothing
    BY <1>1, <2>4 DEF RowTells
  <2> QED BY <2>2, <2>3, <2>4
<1>13. ASSUME NEW s \in saved PROVE SaveStands(s)'
  BY <1>1, <1>7 DEF McpInv, SaveStands, RowStands, SaverGoesOn, AsReviewed, CallAt
<1>14. SaveStands(t)'
  <2>1. RowStands(t)'
    BY <1>1, <1>3, <1>5 DEF RowStands
  <2>2. SaverGoesOn(t)'
    BY <1>1, <1>2, <1>3, <1>4, <1>5, <1>6 DEF SaverGoesOn, McpTypeOK
  <2>3. AsReviewed(t)'
    BY <1>1, <1>3, <1>5 DEF AsReviewed
  <2> QED BY <2>1, <2>2, <2>3 DEF SaveStands
<1>15. OneCommits'
  BY <1>3, <1>4, <1>6 DEF OneCommits, CallAt
<1>16. SavedOnce'
  <2>1. ASSUME NEW s \in saved, s.key = k
        PROVE  /\ k \in DirectKeys /\ s.at < call[s.by].expiresAt
               /\ call[s.by].answer = "changed" /\ call[s.by].expiresAt <= clock
    <3>1. RowStands(s) /\ SaverGoesOn(s)
      BY DEF McpInv, SaveStands
    <3> QED BY <1>2, <1>3, <2>1, <3>1 DEF RowStands, SaverGoesOn, Keys
  <2>2. \A s \in saved : s.key = k => call[s.by].expiresAt \in Nat /\ s.at \in Nat /\ clock \in Nat
    BY <1>1 DEF Saved, Call, McpTypeOK, McpAssumption
  <2>3. \A s \in saved : s.key = k => s.at < clock
    BY <2>1, <2>2
  <2>4. ASSUME NEW r \in saved', NEW s \in saved', r # s, r.key = s.key, r.at <= s.at
        PROVE  /\ r.key \in DirectKeys /\ call'[r.by].answer = "changed"
               /\ call'[r.by].expiresAt <= s.at
    <3>1. CASE r \in saved /\ s \in saved
      BY <1>7, <2>4, <3>1 DEF McpInv, SavedOnce
    <3>2. CASE r \in saved /\ s = t
      BY <1>5, <1>7, <2>1, <2>4, <3>2
    <3>3. CASE r = t /\ s \in saved
      BY <1>5, <2>2, <2>3, <2>4, <3>3
    <3> QED BY <1>5, <2>4, <3>1, <3>2, <3>3
  <2> QED BY <2>4 DEF SavedOnce
<1>17. \A d \in Calls : Fits(d, call[d])'
  BY <1>10, <1>11
<1>18. \A s \in saved' : SaveStands(s)'
  BY <1>5, <1>13, <1>14
<1> QED BY <1>8, <1>9, <1>12, <1>15, <1>16, <1>17, <1>18 DEF McpInv

-----------------------------------------------------------------------------
(* What happens around the calls. *)

\* The reviews that wait or do not exist yet are nobody's and nothing's.
WaitingOrNone == {"none", "previewed", "pending", "cancelled", "replaced", "expired"}

\* Such a review changes, to one of that kind.
LEMMA ReviewsAround ==
    ASSUME McpInv, UNCHANGED <<clock, safeMode, revision, key, call, saved>>,
           review' \in [Reviews -> Review],
           \A r \in Reviews : \/ review'[r] = review[r]
                              \/ review[r].status \in WaitingOrNone /\ review'[r].status \in WaitingOrNone
    PROVE  McpInv'
<1>1. /\ McpTypeOK
      /\ \A c \in Calls : call[c] \in Call /\ Fits(c, call[c])
      /\ \A s \in saved : s \in Saved /\ s.by \in Calls /\ s.key \in Keys
  BY McpParts
<1>2. McpTypeOK'
  BY <1>1 DEF McpTypeOK
<1>3. ASSUME NEW c \in Calls PROVE Fits(c, call[c])'
  <2>1. GoesOn(call[c])' /\ KeepsItsRow(c, call[c])'
    BY <1>1 DEF Fits, GoesOn, KeepsItsRow
  <2>2. ReviewIsClaimed(call[c])'
    <3>1. Confirming(call[c]) \/ call[c].step = "resolve" =>
            call[c].key \in Reviews /\ review'[call[c].key] = review[call[c].key]
      BY <1>1 DEF Fits, GoesOn, ReviewIsClaimed, Confirming, WaitingOrNone
    <3> QED BY <1>1, <3>1 DEF Fits, ReviewIsClaimed, Confirming
  <2>3. TellsTheTruth(c, call[c])'
    <3>1. TellsTheTruth(c, call[c])
      BY <1>1 DEF Fits
    <3> QED BY <3>1 DEF TellsTheTruth, WaitingOrNone
  <2> QED BY <2>1, <2>2, <2>3 DEF Fits
<1>4. \A k \in Keys : RowTells(k)'
  BY DEF McpInv, RowTells
<1>5. ASSUME NEW s \in saved PROVE SaveStands(s)'
  BY DEF McpInv, SaveStands, RowStands, SaverGoesOn, AsReviewed, CallAt, WaitingOrNone
<1>6. OneCommits' /\ SavedOnce'
  BY DEF McpInv, OneCommits, SavedOnce, CallAt
<1>7. RevisionsAreCounted'
  BY DEF McpInv, RevisionsAreCounted, Savers
<1> QED BY <1>2, <1>3, <1>4, <1>5, <1>6, <1>7 DEF McpInv

LEMMA PreviewTurn ==
    ASSUME NEW r \in Reviews, McpInv, Preview(r)
    PROVE  McpInv'
<1>1. McpTypeOK /\ revision \in Revisions
  BY McpParts DEF McpTypeOK
<1>2. PICK v \in Review : v = [status |-> "previewed", revision |-> revision]
  BY <1>1 DEF Review, ReviewStatuses
<1>3. review' = [review EXCEPT ![r] = v] /\ v.status = "previewed"
  BY <1>2 DEF Preview
<1>4. /\ review' \in [Reviews -> Review] /\ review'[r].status = "previewed"
      /\ \A x \in Reviews : x # r => review'[x] = review[x]
  BY <1>1, <1>3 DEF McpTypeOK
<1> QED BY <1>4, ReviewsAround DEF Preview, WaitingOrNone

LEMMA PutUpTurn ==
    ASSUME NEW r \in Reviews, McpInv, PutUp(r)
    PROVE  McpInv'
<1>1. McpTypeOK /\ \A x \in Reviews : review[x] \in Review
  BY McpParts DEF McpTypeOK
<1>2. ASSUME NEW x \in Reviews, NEW status \in ReviewStatuses
      PROVE  /\ [review[x] EXCEPT !.status = status] \in Review
             /\ [review[x] EXCEPT !.status = status].status = status
  BY <1>1 DEF Review
<1>3. "pending" \in ReviewStatuses /\ "replaced" \in ReviewStatuses
  BY DEF ReviewStatuses
<1>4. ASSUME NEW x \in Reviews
      PROVE  /\ review'[x] \in Review
             /\ \/ review'[x] = review[x]
                \/ review[x].status \in WaitingOrNone /\ review'[x].status \in WaitingOrNone
  <2>1. CASE x = r
    <3>1. review'[x] = [review[x] EXCEPT !.status = "pending"] /\ review[x].status = "previewed"
      BY <2>1 DEF PutUp
    <3> QED BY <1>2, <1>3, <3>1 DEF WaitingOrNone
  <2>2. CASE x # r /\ review[x].status = "pending"
    <3>1. review'[x] = [review[x] EXCEPT !.status = "replaced"]
      BY <2>2 DEF PutUp
    <3> QED BY <1>2, <1>3, <2>2, <3>1 DEF WaitingOrNone
  <2>3. CASE x # r /\ review[x].status # "pending"
    <3>1. review'[x] = review[x]
      BY <2>3 DEF PutUp
    <3> QED BY <1>1, <3>1
  <2> QED BY <2>1, <2>2, <2>3
<1>5. review' \in [Reviews -> Review]
  BY <1>4 DEF PutUp
<1> QED BY <1>4, <1>5, ReviewsAround DEF PutUp

LEMMA WithdrawTurn ==
    ASSUME NEW r \in Reviews, NEW how \in {"cancelled", "expired"}, McpInv, Withdraw(r, how)
    PROVE  McpInv'
<1>1. McpTypeOK /\ review[r] \in Review /\ how \in ReviewStatuses
  BY McpParts DEF McpTypeOK, ReviewStatuses
<1>2. /\ review' \in [Reviews -> Review] /\ review'[r].status = how
      /\ \A x \in Reviews : x # r => review'[x] = review[x]
  BY <1>1 DEF McpTypeOK, Withdraw, Review
<1> QED BY <1>2, ReviewsAround DEF Withdraw, WaitingOrNone

\* The switch waits for the transactions under way; whoever edits the record for who is
\* about to commit; and no call is under way for as long as the retention.
LEMMA AroundTurn ==
    ASSUME McpInv, UNCHANGED <<review, key, call, saved>>,
           safeMode' \in BOOLEAN, clock' \in 1..MaxTime, revision' \in Revisions,
           clock <= clock', revision <= revision', revision' <= revision \/ revision' <= MaxRevision,
           safeMode' = safeMode \/ \A c \in Calls : ~InTransaction(c),
           revision' = revision \/ ~RowLocked,
           \A c \in Calls : call[c].step \in {"idle", "done"} \/ clock' = clock
                              \/ clock' < call[c].expiresAt
    PROVE  McpInv'
<1>1. /\ McpTypeOK
      /\ \A c \in Calls : call[c] \in Call /\ Fits(c, call[c])
      /\ \A s \in saved : s \in Saved /\ s.by \in Calls /\ s.key \in Keys
  BY McpParts
<1>2. McpTypeOK'
  BY <1>1 DEF McpTypeOK
<1>3. ASSUME NEW c \in Calls PROVE Fits(c, call[c])'
  <2>1. GoesOn(call[c])'
    BY <1>1 DEF Fits, GoesOn, InTransaction
  <2>2. KeepsItsRow(c, call[c])' /\ TellsTheTruth(c, call[c])'
    BY <1>1 DEF Fits, KeepsItsRow, TellsTheTruth
  <2>3. ReviewIsClaimed(call[c])'
    BY <1>1 DEF Fits, ReviewIsClaimed, Confirming, RowLocked, CallAt
  <2> QED BY <2>1, <2>2, <2>3 DEF Fits
<1>4. \A k \in Keys : RowTells(k)'
  BY DEF McpInv, RowTells
<1>5. ASSUME NEW s \in saved PROVE SaveStands(s)'
  <2>1. /\ SaveStands(s) /\ call[s.by] \in Call /\ s.at \in Nat
        /\ clock \in Nat /\ clock' \in Nat /\ call[s.by].expiresAt \in Int
    BY <1>1 DEF McpInv, Saved, Call, McpTypeOK
  <2>2. RowStands(s)' /\ SaverGoesOn(s)'
    BY <2>1 DEF SaveStands, RowStands, SaverGoesOn, CallAt
  <2>3. AsReviewed(s)'
    BY <2>1 DEF SaveStands, AsReviewed
  <2> QED BY <2>2, <2>3 DEF SaveStands
<1>6. OneCommits' /\ SavedOnce'
  BY DEF McpInv, OneCommits, SavedOnce, CallAt
<1>7. RevisionsAreCounted'
  <2>1. Savers' = Savers /\ Savers \subseteq Calls
    BY DEF Savers
  <2>2. Cardinality(Savers) \in Nat
    BY <2>1, McpAssumption, FS_Subset, FS_CardinalityType
  <2>3. revision \in Int /\ revision' \in Int /\ MaxRevision \in Nat
    BY <1>1, McpAssumption DEF McpTypeOK, Revisions
  <2>4. revision <= MaxRevision + Cardinality(Savers)
    BY DEF McpInv, RevisionsAreCounted
  <2> QED BY <2>1, <2>2, <2>3, <2>4 DEF RevisionsAreCounted
<1> QED BY <1>2, <1>3, <1>4, <1>5, <1>6, <1>7 DEF McpInv

LEMMA SwitchTurn ==
    ASSUME McpInv, SwitchSafeMode
    PROVE  McpInv'
<1>1. McpTypeOK
  BY McpParts
<1> QED BY <1>1, AroundTurn DEF McpTypeOK, Revisions, SwitchSafeMode, StopMayCommit

LEMMA EditTurn ==
    ASSUME McpInv, EditElsewhere
    PROVE  McpInv'
<1>1. McpTypeOK /\ Cardinality(Calls) \in Nat
  BY McpParts, McpAssumption, FS_CardinalityType
<1>2. revision + 1 \in Revisions /\ revision <= revision + 1 /\ revision + 1 <= MaxRevision
  BY <1>1, McpAssumption DEF McpTypeOK, Revisions, EditElsewhere
<1> QED BY <1>1, <1>2, AroundTurn DEF McpTypeOK, EditElsewhere

LEMMA TickTurn ==
    ASSUME McpInv, Tick
    PROVE  McpInv'
<1>1. McpTypeOK
  BY McpParts
<1>2. clock + 1 \in 1..MaxTime /\ clock <= clock + 1
  BY <1>1, McpAssumption DEF McpTypeOK, Tick
<1> QED BY <1>1, <1>2, AroundTurn DEF McpTypeOK, Revisions, Tick

LEMMA McpUnchanged ==
    ASSUME McpInv, UNCHANGED mcpVars
    PROVE  McpInv'
<1>1. UNCHANGED <<clock, safeMode, revision, review, key, call, saved>>
  BY DEF mcpVars
<1>2. McpTypeOK
  BY McpParts
<1> QED BY <1>1, <1>2, AroundTurn DEF McpTypeOK, Revisions

-----------------------------------------------------------------------------
(* Every step keeps the invariant. *)

LEMMA CallStepTurn ==
    ASSUME NEW c \in Calls, McpInv, CallStep(c)
    PROVE  McpInv'
<1>1. CASE \E k \in DirectKeys, a \in Args : ArriveDirect(c, k, a)
  BY <1>1, ArriveTurn DEF ArriveDirect, Keys
<1>2. CASE \E r \in Reviews : ArriveConfirm(c, r)
  BY <1>2, ArriveTurn DEF ArriveConfirm, Keys
<1>3. CASE \/ Insert(c) \/ InsertTaken(c) \/ LookMissing(c) \/ LookForgotten(c) \/ LookSeen(c)
           \/ Store(c) \/ GiveBack(c)
  BY <1>3, InsertTurn, InsertTakenTurn, LookMissingTurn, LookForgottenTurn, LookSeenTurn, StoreTurn,
     GiveBackTurn
<1>4. CASE \/ FailBeforeStart(c) \/ DirectStop(c) \/ DirectOpen(c) \/ DirectThrows(c)
           \/ \E outcome \in {"changed", "refused"} : DirectRun(c, outcome)
  BY <1>4, FailBeforeStartTurn, DirectStopTurn, DirectThrowsTurn, DirectRunTurn
<1>5. CASE OwnReview(c) \/ ClaimReview(c) \/ StopAgain(c) \/ ServiceLock(c) \/ ServiceVerify(c)
  BY <1>5, OwnReviewTurn, ClaimReviewTurn, ServiceTurn, ServiceVerifyTurn
<1>6. CASE ResolveReview(c) \/ OutcomeLost(c)
  BY <1>6, ResolveReviewTurn, OutcomeLostTurn
<1>7. CASE \E b \in BOOLEAN : Recheck(c, b) \/ RecheckThrows(c, b) \/ Commit(c, b)
  BY <1>7, RecheckTurn, RecheckThrowsTurn, CommitTurn
<1> QED BY <1>1, <1>2, <1>3, <1>4, <1>5, <1>6, <1>7 DEF CallStep

LEMMA McpInvStep == McpInv /\ [McpNext]_mcpVars => McpInv'
<1> SUFFICES ASSUME McpInv, [McpNext]_mcpVars PROVE McpInv'
  OBVIOUS
<1>1. CASE \E c \in Calls : CallStep(c) \/ Die(c)
  BY <1>1, CallStepTurn, DieTurn
<1>2. CASE \E r \in Reviews :
             Preview(r) \/ PutUp(r) \/ \E how \in {"cancelled", "expired"} : Withdraw(r, how)
  BY <1>2, PreviewTurn, PutUpTurn, WithdrawTurn
<1>3. CASE SwitchSafeMode \/ EditElsewhere \/ Tick
  BY <1>3, SwitchTurn, EditTurn, TickTurn
<1>4. CASE UNCHANGED mcpVars
  BY <1>4, McpUnchanged
<1> QED BY <1>1, <1>2, <1>3, <1>4 DEF McpNext

\* The inductive invariant always holds.
THEOREM McpInvHolds == McpSpec => []McpInv
BY McpInvInit, McpInvStep, PTL DEF McpSpec

-----------------------------------------------------------------------------
(* What the runs check of the write tools, for every instance. *)

\* Reviews, key records, calls and what they saved always are of their types; in
\* particular no more revisions are made than there are edits and calls.
THEOREM McpTypesHold == McpSpec => []McpTypeOK
<1>1. McpInv => McpTypeOK
  BY McpParts
<1> QED BY <1>1, McpInvHolds, PTL

\* onceOnly: a change is made once per confirmation, and once per idempotency key until its
\* finished answer expires; and a reviewed change is made to what its preview showed.
THEOREM SavedOnceHolds == McpSpec => []SavedOnceAsPreviewed
<1>1. McpInv => SavedOnceAsPreviewed
  BY DEF McpInv, SaveStands, AsReviewed, SavedOnceAsPreviewed, AppliedAsPreviewed
<1> QED BY <1>1, McpInvHolds, PTL

\* runWriteTool: "nothing was saved" is said only by a call that saved nothing, "done" only
\* when this very change was saved under the key, and answer and review agree.
THEOREM TruthIsTold == McpSpec => []ToldTheTruth
<1>1. McpInv => ToldTheTruth
  <2> SUFFICES ASSUME McpInv PROVE ToldTheTruth
    OBVIOUS
  <2>1. \A c \in Calls : TellsTheTruth(c, call[c])
    BY McpParts DEF Fits
  <2>2. AnswerMatchesWhatWasSaved
    BY <2>1 DEF TellsTheTruth, AnswerMatchesWhatWasSaved
  <2>3. AnswerMatchesReview
    BY <2>1 DEF TellsTheTruth, AnswerMatchesReview
  <2> QED BY <2>2, <2>3 DEF ToldTheTruth
<1> QED BY <1>1, McpInvHolds, PTL

-----------------------------------------------------------------------------
(* What a step may never do. *)

\* A step saves or not, and writes the record of at most one key.
LEMMA WhoSaves ==
    ASSUME McpInv, [McpNext]_mcpVars, saved' # saved
    PROVE  ~safeMode
<1>1. ASSUME NEW c \in Calls, CallStep(c) \/ Die(c)
      PROVE  \E heard \in BOOLEAN : Commit(c, heard)
  BY <1>1 DEF CallStep, Die, ArriveDirect, ArriveConfirm, Arrive, Insert, InsertTaken, LookMissing,
              LookForgotten, LookSeen, Store, GiveBack, FailBeforeStart, DirectStop, DirectOpen,
              StopCheck, DirectThrows, DirectRun, OwnReview, ClaimReview, StopAgain, Recheck,
              RecheckThrows, ServiceLock, ServiceVerify, ResolveReview, OutcomeLost
<1>2. \E c \in Calls : CallStep(c) \/ Die(c)
  BY DEF McpNext, Preview, PutUp, Withdraw, SwitchSafeMode, EditElsewhere, Tick, mcpVars
<1> QED BY <1>1, <1>2, BeforeCommit DEF Commit, CallAt

\* What may become of the record of a key.
IsKept(k) ==
    key[k] # Nothing /\ key'[k] # key[k] =>
        IF key'[k] = Nothing
          THEN \/ key[k].status = "completed" /\ key[k].expiresAt <= clock
               \/ key[k].status = "in_progress" /\ \A s \in saved : s.by # key[k].id
          ELSE key[k].status = "in_progress" /\ key'[k].id = key[k].id

LEMMA OneKeyWritten ==
    ASSUME NEW c \in Calls, McpInv, NEW k \in Keys,
           Insert(c) \/ LookForgotten(c) \/ Store(c) \/ GiveBack(c)
    PROVE  IsKept(k)
<1>1. McpTypeOK /\ Fits(c, call[c]) /\ call[c].step \in {"insert", "look", "store", "release"}
  BY McpParts DEF Insert, LookForgotten, Store, GiveBack, CallAt
<1>2. call[c].key \in Keys /\ (k # call[c].key => key'[k] = key[k])
  BY <1>1 DEF Fits, GoesOn, McpTypeOK, Insert, LookForgotten, Store, GiveBack
<1>3. CASE k = call[c].key /\ Insert(c)
  BY <1>3 DEF Insert, IsKept
<1>4. CASE k = call[c].key /\ LookForgotten(c)
  BY <1>1, <1>4 DEF LookForgotten, Forgotten, IsKept, McpTypeOK
<1>5. CASE k = call[c].key /\ Store(c)
  <2>1. Holds(c)
    BY <1>5 DEF Store, CallAt, Holds, Holding
  <2>2. key[k] \in Record /\ key[k] # Nothing /\ key[k].status = "in_progress"
    BY <1>5, <2>1, HoldersRow
  <2>3. PICK v \in Record : key'[k] = v /\ v.id = key[k].id
    <3>1. CASE call[c].outcome = "unknown"
      <4>1. key'[k] = [key[k] EXCEPT !.status = "unknown"]
        BY <1>1, <1>5, <2>2, <3>1 DEF Store, McpTypeOK
      <4> QED BY <2>2, <4>1 DEF Record
    <3>2. CASE call[c].outcome # "unknown"
      <4>1. key'[k] = [key[k] EXCEPT !.status = "completed", !.outcome = call[c].outcome]
        BY <1>1, <1>5, <2>2, <3>2 DEF Store, McpTypeOK
      <4>2. call[c].outcome \in Outcomes
        BY <1>1 DEF McpTypeOK, Call
      <4> QED BY <2>2, <4>1, <4>2 DEF Record
    <3> QED BY <3>1, <3>2
  <2> QED BY <2>2, <2>3, NothingAssumption DEF IsKept
<1>6. CASE k = call[c].key /\ GiveBack(c)
  <2>1. Holds(c) /\ call[c].step = "release"
    BY <1>6 DEF GiveBack, CallAt, Holds, Holding
  <2>2. key[k] # Nothing /\ key[k].id = c /\ key[k].status = "in_progress"
    BY <1>6, <2>1, HoldersRow
  <2>3. \A s \in saved : s.by # c
    BY <2>1, NothingSavedYet
  <2>4. key'[k] = Nothing
    BY <1>1, <1>6, <2>2 DEF GiveBack, McpTypeOK
  <2> QED BY <2>2, <2>3, <2>4 DEF IsKept
<1> QED BY <1>2, <1>3, <1>4, <1>5, <1>6 DEF IsKept

LEMMA WhatIsKept ==
    ASSUME McpInv, [McpNext]_mcpVars, NEW k \in Keys
    PROVE  IsKept(k)
<1>1. CASE UNCHANGED key
  BY <1>1 DEF IsKept
<1>2. CASE ~ UNCHANGED key
  <2>1. ASSUME NEW c \in Calls, CallStep(c) \/ Die(c)
        PROVE  Insert(c) \/ LookForgotten(c) \/ Store(c) \/ GiveBack(c)
    BY <1>2, <2>1
       DEF CallStep, Die, ArriveDirect, ArriveConfirm, Arrive, InsertTaken, LookMissing,
           LookSeen, FailBeforeStart, DirectStop, DirectOpen, StopCheck, DirectThrows, DirectRun,
           OwnReview, ClaimReview, StopAgain, Recheck, RecheckThrows, ServiceLock, ServiceVerify,
           ResolveReview, OutcomeLost, Commit
  <2>2. \E c \in Calls : CallStep(c) \/ Die(c)
    BY <1>2 DEF McpNext, Preview, PutUp, Withdraw, SwitchSafeMode, EditElsewhere, Tick, mcpVars
  <2> QED BY <2>1, <2>2, OneKeyWritten
<1> QED BY <1>1, <1>2

\* No step saves while the emergency stop is on, and none frees a key under which something
\* may have been saved or changes an outcome once it is stored.
THEOREM NoStepIsUnsafe == McpSpec => NoUnsafeStep
<1>1. McpInv /\ [McpNext]_mcpVars =>
        [/\ saved' # saved => ~safeMode
         /\ \A k \in Keys : IsKept(k)]_mcpVars
  BY WhoSaves, WhatIsKept
<1>2. McpInv /\ [McpNext]_mcpVars => [saved' # saved => ~safeMode]_mcpVars
  BY <1>1
<1>3. McpInv /\ [McpNext]_mcpVars =>
        [\A k \in Keys :
           key[k] # Nothing /\ key'[k] # key[k] =>
             IF key'[k] = Nothing
               THEN \/ key[k].status = "completed" /\ key[k].expiresAt <= clock
                    \/ key[k].status = "in_progress" /\ \A s \in saved : s.by # key[k].id
               ELSE key[k].status = "in_progress" /\ key'[k].id = key[k].id]_mcpVars
  BY <1>1 DEF IsKept
<1>4. McpSpec => NothingSavedInSafeMode
  BY <1>2, McpInvHolds, PTL DEF McpSpec, NothingSavedInSafeMode
<1>5. McpSpec => OutcomesAreKept
  BY <1>3, McpInvHolds, PTL DEF McpSpec, OutcomesAreKept
<1> QED BY <1>4, <1>5, PTL DEF NoUnsafeStep

-----------------------------------------------------------------------------
(* The reviews of the write tools behave as OneShotApproval promises: their  *)
(* steps offer, take, run, finish or drop one, or change nothing about it.   *)

reviewPhase == [r \in Reviews |-> ReviewPhase(review[r].status)]
madeFor     == [r \in Reviews |-> \E s \in saved : s.key = r]

\* PutUp replaces the one that waited.
OneReviewWaits ==
    \A r, s \in Reviews : review[r].status = "pending" /\ review[s].status = "pending" => r = s

\* What a step does to the reviews: nothing, or it changes the status of one, which is
\* offered by PutUp only.
StatusBecomes(r, status) ==
    \A s \in Reviews : review'[s].status = IF s = r THEN status ELSE review[s].status

\* The call resolves the review it has claimed.
ResolvesItsReview ==
    \E r \in Reviews, status \in {"completed", "failed"} :
        review[r].status = "executing" /\ StatusBecomes(r, status) /\ UNCHANGED saved
TakesAReview ==
    \E r \in Reviews :
        review[r].status = "pending" /\ StatusBecomes(r, "executing") /\ UNCHANGED saved
WithdrawsAReview ==
    \E r \in Reviews, status \in {"cancelled", "expired"} :
        review[r].status = "pending" /\ StatusBecomes(r, status) /\ UNCHANGED saved
ShowsAReview ==
    \E r \in Reviews :
        review[r].status = "none" /\ StatusBecomes(r, "previewed") /\ UNCHANGED saved
SavesItsChange ==
    /\ UNCHANGED review
    /\ \E t : /\ saved' = saved \cup {t}
              /\ t.key \in Reviews =>
                   review[t.key].status = "executing" /\ \A s \in saved : s.key # t.key

LEMMA ResolvingAStatus ==
    ASSUME NEW c \in Calls, NEW status \in {"completed", "failed"}, McpInv, UNCHANGED saved,
           call[c].step \in {"recheck", "again", "lock", "resolve"}, Resolve(c, status)
    PROVE  ResolvesItsReview
<1>1. McpTypeOK /\ Fits(c, call[c])
  BY McpParts
<1>2. PICK r \in Reviews : r = call[c].key /\ review[r].status = "executing"
  BY <1>1 DEF Fits, GoesOn, ReviewIsClaimed, Confirming
<1>3. review' = [review EXCEPT ![r].status = status]
  BY <1>2 DEF Resolve
<1>4. StatusBecomes(r, status)
  BY <1>1, <1>3 DEF StatusBecomes, McpTypeOK, Review
<1> QED BY <1>2, <1>4 DEF ResolvesItsReview

LEMMA CallsReview ==
    ASSUME NEW c \in Calls, McpInv, CallStep(c) \/ Die(c)
    PROVE  \/ UNCHANGED <<review, saved>>
           \/ ResolvesItsReview \/ TakesAReview \/ SavesItsChange
<1>1. McpTypeOK /\ Fits(c, call[c])
  BY McpParts
<1>2. CASE ClaimReview(c)
  <2>1. call[c].key \in Reviews
    BY <1>1, <1>2 DEF ClaimReview, CallAt, Fits, GoesOn
  <2>2. CASE UNCHANGED review
    BY <1>2, <2>2 DEF ClaimReview
  <2>3. CASE ~ UNCHANGED review
    <3>1. PICK r \in Reviews :
            review' = [review EXCEPT ![r].status = "executing"] /\ review[r].status = "pending"
      BY <1>2, <2>1, <2>3 DEF ClaimReview
    <3>2. StatusBecomes(r, "executing")
      BY <1>1, <3>1 DEF StatusBecomes, McpTypeOK, Review
    <3> QED BY <1>2, <3>1, <3>2 DEF ClaimReview, TakesAReview
  <2> QED BY <2>2, <2>3
<1>3. CASE \/ \E b \in BOOLEAN : Recheck(c, b) \/ RecheckThrows(c, b)
           \/ StopAgain(c) \/ ServiceLock(c) \/ ResolveReview(c)
  <2>1. call[c].step \in {"recheck", "again", "lock", "resolve"} /\ UNCHANGED saved
    BY <1>3 DEF Recheck, RecheckThrows, StopAgain, ServiceLock, ResolveReview, CallAt
  <2>2. UNCHANGED review \/ Resolve(c, "failed") \/ Resolve(c, "completed")
    BY <1>3 DEF Recheck, RecheckThrows, StopAgain, ServiceLock, ResolveReview, Refuse, Verdict
  <2> QED BY <2>1, <2>2, ResolvingAStatus
<1>4. CASE \E b \in BOOLEAN : Commit(c, b)
  <2>1. PICK heard \in BOOLEAN : Commit(c, heard)
    BY <1>4
  <2>2. call[c].step = "commit" /\ UNCHANGED review
    BY <2>1 DEF Commit, CallAt
  <2>3. PICK t \in Saved : saved' = saved \cup {t} /\ t.key = call[c].key
    BY <2>1, CommitShape
  <2> QED BY <2>2, <2>3, BeforeCommit DEF SavesItsChange
<1> QED BY <1>2, <1>3, <1>4
        DEF CallStep, Die, ArriveDirect, ArriveConfirm, Arrive, Insert, InsertTaken, LookMissing,
            LookForgotten, LookSeen, Store, GiveBack, FailBeforeStart, DirectStop, DirectOpen,
            StopCheck, DirectThrows, DirectRun, OwnReview, ServiceVerify, OutcomeLost

\* What any step does about the reviews.
LEMMA WhatBecomesOfReviews ==
    ASSUME McpInv, [McpNext]_mcpVars
    PROVE  \/ UNCHANGED <<review, saved>>
           \/ ResolvesItsReview \/ TakesAReview \/ SavesItsChange
           \/ WithdrawsAReview \/ ShowsAReview
           \/ \E r \in Reviews : PutUp(r)
<1>1. McpTypeOK
  BY McpParts
<1>2. ASSUME NEW r \in Reviews, Preview(r) PROVE ShowsAReview
  <2>1. StatusBecomes(r, "previewed")
    BY <1>1, <1>2 DEF Preview, StatusBecomes, McpTypeOK
  <2> QED BY <1>2, <2>1 DEF Preview, ShowsAReview
<1>3. ASSUME NEW r \in Reviews, NEW how \in {"cancelled", "expired"}, Withdraw(r, how)
      PROVE  WithdrawsAReview
  <2>1. StatusBecomes(r, how)
    BY <1>1, <1>3 DEF Withdraw, StatusBecomes, McpTypeOK, Review
  <2> QED BY <1>3, <2>1 DEF Withdraw, WithdrawsAReview
<1>4. SwitchSafeMode \/ EditElsewhere \/ Tick \/ UNCHANGED mcpVars => UNCHANGED <<review, saved>>
  BY DEF SwitchSafeMode, EditElsewhere, Tick, mcpVars
<1> QED BY <1>2, <1>3, <1>4, CallsReview DEF McpNext

\* What was put up is alone in waiting.
LEMMA PuttingUp ==
    ASSUME McpTypeOK, NEW r \in Reviews, PutUp(r)
    PROVE  /\ review[r].status = "previewed" /\ UNCHANGED saved
           /\ \A s \in Reviews :
                review'[s].status = IF s = r THEN "pending"
                                    ELSE IF review[s].status = "pending" THEN "replaced"
                                    ELSE review[s].status
<1>1. ASSUME NEW s \in Reviews, NEW status
      PROVE  [review[s] EXCEPT !.status = status].status = status
  BY DEF McpTypeOK, Review
<1>2. ASSUME NEW s \in Reviews
      PROVE  review'[s].status = IF s = r THEN "pending"
                                 ELSE IF review[s].status = "pending" THEN "replaced"
                                 ELSE review[s].status
  <2>1. CASE s = r
    <3>1. review'[s] = [review[s] EXCEPT !.status = "pending"]
      BY <2>1 DEF PutUp
    <3> QED BY <1>1, <2>1, <3>1
  <2>2. CASE s # r /\ review[s].status = "pending"
    <3>1. review'[s] = [review[s] EXCEPT !.status = "replaced"]
      BY <2>2 DEF PutUp
    <3> QED BY <1>1, <2>2, <3>1
  <2>3. CASE s # r /\ review[s].status # "pending"
    <3>1. review'[s] = review[s]
      BY <2>3 DEF PutUp
    <3> QED BY <2>3, <3>1
  <2> QED BY <2>1, <2>2, <2>3
<1> QED BY <1>2 DEF PutUp

LEMMA OneWaitsInit == McpInit => OneReviewWaits
BY DEF McpInit, OneReviewWaits

LEMMA OneWaitsStep ==
    ASSUME McpInv, OneReviewWaits, [McpNext]_mcpVars
    PROVE  OneReviewWaits'
<1>1. CASE UNCHANGED review
  BY <1>1 DEF OneReviewWaits
<1>2. CASE ResolvesItsReview \/ TakesAReview \/ WithdrawsAReview \/ ShowsAReview
  BY <1>2 DEF OneReviewWaits, ResolvesItsReview, TakesAReview, WithdrawsAReview, ShowsAReview,
              StatusBecomes
<1>3. CASE \E r \in Reviews : PutUp(r)
  BY <1>3, PuttingUp, McpParts DEF OneReviewWaits
<1> QED BY <1>1, <1>2, <1>3, WhatBecomesOfReviews DEF SavesItsChange

\* What waits, as OneShotApproval sees it.
LEMMA WaitingReviews ==
    /\ Approval!Waiting = {r \in Reviews : review[r].status = "pending"}
    /\ Approval!InQueue("write") = {r \in Reviews : review[r].status = "pending"}
<1>1. \A r \in Reviews : ReviewPhase(review[r].status) = "waiting" <=> review[r].status = "pending"
  BY DEF ReviewPhase
<1> QED BY <1>1 DEF Approval!Waiting, Approval!InQueue

\* The status of one review changes and nothing is saved.
LEMMA PhaseChanges ==
    ASSUME NEW r \in Reviews, NEW status, StatusBecomes(r, status), UNCHANGED saved
    PROVE  /\ \A s \in Reviews : ReviewPhase(review'[s].status) =
                IF s = r THEN ReviewPhase(status) ELSE ReviewPhase(review[s].status)
           /\ madeFor' = madeFor
BY DEF StatusBecomes, madeFor

LEMMA ReviewOffered ==
    ASSUME McpTypeOK, NEW r \in Reviews, PutUp(r)
    PROVE  Approval!Next
<1>1. /\ review[r].status = "previewed" /\ UNCHANGED saved
      /\ \A s \in Reviews :
           review'[s].status = IF s = r THEN "pending"
                               ELSE IF review[s].status = "pending" THEN "replaced"
                               ELSE review[s].status
  BY PuttingUp
<1>2. \A s \in Reviews : ReviewPhase(review'[s].status) =
        IF s = r THEN "waiting"
        ELSE IF s \in Approval!InQueue("write") THEN "over" ELSE ReviewPhase(review[s].status)
  BY <1>1, WaitingReviews DEF ReviewPhase
<1>3. ReviewPhase(review[r].status) = "none"
  BY <1>1 DEF ReviewPhase
<1>4. Approval!Offer(r, "write", {})
  BY <1>1, <1>2, <1>3 DEF Approval!Offer, Approval!Dropping
<1> QED BY <1>4 DEF Approval!Next

LEMMA ReviewTaken ==
    ASSUME OneReviewWaits, TakesAReview
    PROVE  Approval!Next
<1>1. PICK r \in Reviews :
        review[r].status = "pending" /\ StatusBecomes(r, "executing") /\ UNCHANGED saved
  BY DEF TakesAReview
<1>2. Approval!InQueue("write") = {r}
  BY <1>1, WaitingReviews DEF OneReviewWaits
<1>3. \A s \in Reviews : ReviewPhase(review'[s].status) =
        IF s = r THEN "taken" ELSE ReviewPhase(review[s].status)
  BY <1>1, PhaseChanges DEF ReviewPhase
<1>4. ReviewPhase(review[r].status) = "waiting"
  BY <1>1 DEF ReviewPhase
<1>5. Approval!Take(r)
  BY <1>1, <1>2, <1>3, <1>4 DEF Approval!Take, Approval!Dropping
<1> QED BY <1>5 DEF Approval!Next

LEMMA ReviewFinished ==
    ASSUME ResolvesItsReview
    PROVE  Approval!Next
<1>1. PICK r \in Reviews, status \in {"completed", "failed"} :
        review[r].status = "executing" /\ StatusBecomes(r, status) /\ UNCHANGED saved
  BY DEF ResolvesItsReview
<1>2. \A s \in Reviews : ReviewPhase(review'[s].status) =
        IF s = r THEN "over" ELSE ReviewPhase(review[s].status)
  BY <1>1, PhaseChanges DEF ReviewPhase
<1>3. ReviewPhase(review[r].status) = "taken"
  BY <1>1 DEF ReviewPhase
<1>4. Approval!Finish(r)
  BY <1>1, <1>2, <1>3 DEF Approval!Finish
<1> QED BY <1>4 DEF Approval!Next

LEMMA ReviewDropped ==
    ASSUME WithdrawsAReview
    PROVE  Approval!Next
<1>1. PICK r \in Reviews, status \in {"cancelled", "expired"} :
        review[r].status = "pending" /\ StatusBecomes(r, status) /\ UNCHANGED saved
  BY DEF WithdrawsAReview
<1>2. {r} \in SUBSET Approval!Waiting
  BY <1>1, WaitingReviews
<1>3. \A s \in Reviews : ReviewPhase(review'[s].status) =
        IF s \in {r} THEN "over" ELSE ReviewPhase(review[s].status)
  BY <1>1, PhaseChanges DEF ReviewPhase
<1>4. Approval!Drop({r})
  BY <1>1, <1>3 DEF Approval!Drop, Approval!Dropping
<1> QED BY <1>2, <1>4 DEF Approval!Next

LEMMA ReviewRun ==
    ASSUME SavesItsChange
    PROVE  Approval!Next \/ UNCHANGED <<reviewPhase, madeFor>>
<1>1. PICK t : /\ saved' = saved \cup {t}
               /\ t.key \in Reviews =>
                    review[t.key].status = "executing" /\ \A s \in saved : s.key # t.key
  BY DEF SavesItsChange
<1>2. UNCHANGED review
  BY DEF SavesItsChange
<1>3. CASE t.key \in Reviews
  <2>1. PICK r \in Reviews : r = t.key
    BY <1>3
  <2>2. ReviewPhase(review[r].status) = "taken" /\ ~\E s \in saved : s.key = r
    BY <1>1, <2>1 DEF ReviewPhase
  <2>3. \A x \in Reviews : (\E s \in saved' : s.key = x) <=> (x = r \/ \E s \in saved : s.key = x)
    BY <1>1, <2>1
  <2>4. Approval!Run(r)
    BY <1>2, <2>2, <2>3 DEF Approval!Run
  <2> QED BY <2>4 DEF Approval!Next
<1>4. CASE t.key \notin Reviews
  <2>1. \A x \in Reviews : (\E s \in saved' : s.key = x) <=> \E s \in saved : s.key = x
    BY <1>1, <1>4
  <2> QED BY <1>2, <2>1 DEF reviewPhase, madeFor
<1> QED BY <1>3, <1>4

LEMMA ReviewsRefineStep ==
    ASSUME McpInv, OneReviewWaits, [McpNext]_mcpVars
    PROVE  Approval!Next \/ UNCHANGED <<reviewPhase, madeFor>>
<1>1. UNCHANGED <<review, saved>> => UNCHANGED <<reviewPhase, madeFor>>
  BY DEF reviewPhase, madeFor
<1>2. ShowsAReview => UNCHANGED <<reviewPhase, madeFor>>
  <2> SUFFICES ASSUME ShowsAReview PROVE UNCHANGED <<reviewPhase, madeFor>>
    OBVIOUS
  <2>1. PICK r \in Reviews :
          review[r].status = "none" /\ StatusBecomes(r, "previewed") /\ UNCHANGED saved
    BY DEF ShowsAReview
  <2>2. \A s \in Reviews : ReviewPhase(review'[s].status) = ReviewPhase(review[s].status)
    BY <2>1, PhaseChanges DEF ReviewPhase
  <2> QED BY <2>1, <2>2, PhaseChanges DEF reviewPhase
<1> QED BY <1>1, <1>2, WhatBecomesOfReviews, ReviewFinished, ReviewTaken, ReviewDropped, ReviewRun,
           ReviewOffered, McpParts

LEMMA ReviewsRefineInit == McpInit => Approval!Init
<1> SUFFICES ASSUME McpInit PROVE Approval!Init
  OBVIOUS
<1>1. \A r \in Reviews : ReviewPhase(review[r].status) = "none"
  BY DEF McpInit, ReviewPhase
<1>2. \A r \in Reviews : (\E s \in saved : s.key = r) = FALSE
  BY DEF McpInit
<1> QED BY <1>1, <1>2 DEF Approval!Init

\* prepare, confirm and cancel: however calls overlap, are lost or come again, a change that
\* was previewed is offered, taken by one yes or dropped, made once, and then over.
THEOREM ConfirmationsAreApprovals == McpSpec => ConfirmationsAreOneShot
<1>1. McpInit => Approval!Init
  BY ReviewsRefineInit
<1>2. McpInv /\ OneReviewWaits /\ [McpNext]_mcpVars =>
        [Approval!Next]_<<[r \in Reviews |-> ReviewPhase(review[r].status)],
                          [r \in Reviews |-> "write"], [r \in Reviews |-> 0],
                          [r \in Reviews |-> \E s \in saved : s.key = r]>>
  BY ReviewsRefineStep DEF reviewPhase, madeFor
<1>3. McpSpec => []OneReviewWaits
  BY McpInvHolds, OneWaitsInit, OneWaitsStep, PTL DEF McpSpec
<1> QED
  BY <1>1, <1>2, <1>3, McpInvHolds, PTL DEF McpSpec, ConfirmationsAreOneShot, Approval!Spec

=============================================================================
