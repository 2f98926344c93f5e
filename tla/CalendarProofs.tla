----------------------------- MODULE CalendarProofs -----------------------------
(* Theorems about the owner's calendar and its copy, for every number of events, *)
(* requests and changes.                                                         *)
EXTENDS Calendar, TLAPS

-----------------------------------------------------------------------------
(* The inductive invariant. *)

\* Somebody asked for the change: the event is one that was reviewed, new or as it was
\* or had been at Google, and the step is one of that operation.
AskedFor(p) ==
    LET r == request[p] IN
    /\ r.op \in {"create", "move", "cancel"} =>
         r.event \in Events /\ r.etag <= google[r.event].at
    /\ r.op = "create" => r.event \in Ids /\ r.etag = 0
    /\ r.op \in {"move", "cancel"} => google[r.event].at # 0
    /\ r.step = "idle" => r.op = "none"
    /\ r.step \in {"insert", "fetch"} => r.op = "create"
    /\ r.step = "fetch" => google[r.event].at # 0
    /\ r.step \in {"live", "write"} => r.op \in {"move", "cancel"}
    /\ r.step = "remove" => r.op = "cancel" /\ r.event \in ended
    /\ r.row => r.event \in Events /\ copy[r.event].at # 0

\* What a request has seen was so at Google.
HasSeen(p) ==
    LET r == request[p] IN
    \A e \in DOMAIN r.seen :
        /\ r.seen[e].at \in 1..google[e].at
        /\ r.seen[e].gone => e \in ended

\* What has been told is true, and stays true.
Told(p) ==
    LET r == request[p] IN
    /\ r.answer \in {"done", "refused"} => r.step = "done"
    /\ r.step = "stage" => r.op \in {"create", "move"} /\ \E w \in written : w.review = Review(p)
    /\ r.answer = "refused" => r.op \in {"move", "cancel"} /\ r.etag < google[r.event].at
    /\ r.answer = "done" /\ r.op = "cancel" => r.event \in ended
    /\ r.answer = "done" /\ r.op \in {"create", "move"} => \E w \in written : w.review = Review(p)

\* The row of an event whose last change a token covers.
Shows(e) == IF google[e].gone THEN ~Live(copy, e) ELSE copy[e] = google[e]
ShownUpTo(e, number) ==
    google[e].at # 0 /\ google[e].at <= number /\ e \notin behind => Shows(e)

\* A sync that has not asked yet relies on its token; one that has asked, on what it was
\* told, which is the latest version unless a later one exists.
WillShow(p) ==
    LET r == request[p] IN
    /\ Syncing(p) => r.op = "sync" /\ r.upto <= clock
    /\ At(p, "list") => \A e \in Events : ShownUpTo(e, r.upto)
    /\ At(p, "apply") => /\ \A e \in Events \ DOMAIN r.seen : ShownUpTo(e, r.upto)
                         /\ \A e \in DOMAIN r.seen : google[e].at <= r.upto => r.seen[e] = google[e]

\* Everything about one request.
Works(p) == AskedFor(p) /\ HasSeen(p) /\ Told(p) /\ WillShow(p)

\* What is reviewed is what Google showed, in a calendar it still has a row for.
ReviewsStand ==
    \A r \in reviewed :
        /\ r.etag <= google[r.event].at
        /\ r.op = "create" => r.event \in Ids /\ r.etag = 0
        /\ r.op # "create" => google[r.event].at # 0 /\ copy[r.event].at # 0

\* A deleted event existed, and a row is deleted after its event was.
Gone ==
    \A e \in Events : /\ google[e].gone => google[e].at # 0 /\ e \in ended
                      /\ copy[e].gone => e \in ended

\* A change falls on the version reviewed, which is then past; a new event is made by
\* its review.
Made ==
    /\ \A w \in written : w.on = w.review.etag /\ google[w.review.event].at > w.review.etag
    /\ \A e \in Ids : google[e].at # 0 =>
         \E w \in written : w.review = [op |-> "create", event |-> e, etag |-> 0]

CoveredIsShown == \A e \in Events : ShownUpTo(e, token)

Inv == /\ TypeOK /\ ReviewsStand /\ Gone /\ Made /\ CoveredIsShown
       /\ MadeOnceAsReviewed
       /\ \A p \in Requests : Works(p)

LEMMA ClockIsPositive == Inv => clock \in Nat \ {0} /\ clock <= MaxChanges /\ token \in Nat
BY CalendarAssumption DEF Inv, TypeOK

-----------------------------------------------------------------------------
(* What was seen. *)

LEMMA SeenIsVersions ==
    ASSUME NEW r \in Request
    PROVE  /\ DOMAIN r.seen \subseteq Events
           /\ \A e \in DOMAIN r.seen : r.seen[e] \in Version
           /\ r.seen \in [DOMAIN r.seen -> Version]
<1>1. r.seen \in UNION {[es -> Version] : es \in SUBSET Events}
  BY DEF Request
<1>2. PICK es \in SUBSET Events : r.seen \in [es -> Version]
  BY <1>1
<1> QED BY <1>2

LEMMA VersionsAreSeen ==
    ASSUME NEW es \in SUBSET Events, NEW f \in [es -> Version]
    PROVE  f \in UNION {[xs -> Version] : xs \in SUBSET Events}
OBVIOUS

\* A request that has seen nothing.
LEMMA NothingSeen ==
    /\ Idle.seen \in UNION {[es -> Version] : es \in SUBSET Events}
    /\ DOMAIN Idle.seen = {}
<1>1. Idle.seen = [e \in {} |-> 0]
  BY DEF Idle
<1>2. Idle.seen \in [{} -> Version]
  BY <1>1
<1>3. {} \in SUBSET Events
  OBVIOUS
<1> QED BY <1>1, <1>2, <1>3, VersionsAreSeen

-----------------------------------------------------------------------------
(* The beginning. *)

LEMMA InitInv == Init => Inv
<1> SUFFICES ASSUME Init PROVE Inv
  OBVIOUS
<1>1. Idle \in Request
  BY NothingSeen, CalendarAssumption DEF Idle, Request
<1>2. \A e \in Events : /\ google[e].at = IF e \in Existing THEN 1 ELSE 0
                        /\ google[e].gone = FALSE
  BY DEF Init
<1>3. google \in [Events -> Version]
  BY CalendarAssumption DEF Init, Version
<1>4. TypeOK
  BY <1>1, <1>2, <1>3, CalendarAssumption DEF Init, TypeOK
<1>5. \A e \in Ids : google[e].at = 0
  BY <1>2, CalendarAssumption DEF Events
<1>6. Made
  BY <1>5 DEF Init, Made
<1>7. Gone /\ ReviewsStand /\ MadeOnceAsReviewed
  BY <1>2 DEF Init, Gone, ReviewsStand, MadeOnceAsReviewed
<1>8. CoveredIsShown
  BY <1>2 DEF Init, CoveredIsShown, ShownUpTo, Shows
<1>9. ASSUME NEW p \in Requests PROVE Works(p)
  <2>1. request[p] = Idle
    BY <1>9 DEF Init
  <2>2. /\ Idle.step = "idle" /\ Idle.op = "none" /\ Idle.row = FALSE /\ Idle.answer = "none"
        /\ DOMAIN Idle.seen = {}
    BY NothingSeen DEF Idle
  <2> QED BY <2>1, <2>2 DEF Works, AskedFor, HasSeen, Told, WillShow, At, Syncing
<1> QED BY <1>4, <1>6, <1>7, <1>8, <1>9 DEF Inv

-----------------------------------------------------------------------------
(* What a step leaves to the others. *)

LEMMA OneTurn ==
    ASSUME NEW p \in Requests, NEW r \in Request, TypeOK, Becomes(p, r)
    PROVE  /\ request' \in [Requests -> Request]
           /\ request'[p] = r
           /\ \A q \in Requests \ {p} : request'[q] = request[q]
BY DEF TypeOK, Becomes

\* Google's numbers go up, and what was deleted has been.
GoogleGrows ==
    /\ clock <= clock' /\ ended \subseteq ended'
    /\ \A e \in Events : /\ google[e].at <= google'[e].at
                         /\ google'[e] = google[e] \/ google'[e].at = clock + 1

\* No row is thrown away.
RowsStay == \A e \in Events : copy[e].at # 0 => copy'[e].at # 0

\* Events the copy shows up to a number are shown up to it afterwards.
StillShown(number) ==
    \A e \in Events : ShownUpTo(e, number) => (e \notin behind' /\ google'[e].at # 0 /\ google'[e].at <= number
                                               => Shows(e)')

LEMMA TheOthers ==
    ASSUME NEW q \in Requests, Inv, clock' \in Nat, google' \in [Events -> Version],
           request'[q] = request[q], GoogleGrows, RowsStay, written \subseteq written',
           Syncing(q) => StillShown(request[q].upto)
    PROVE  Works(q)'
<1>1. TypeOK /\ Works(q) /\ request[q] \in Request
  BY DEF Inv, TypeOK
<1> DEFINE r == request[q]
<1>2. /\ clock \in Nat /\ r.etag \in Nat /\ r.upto \in Nat
      /\ \A e \in Events : google[e].at \in Nat /\ google'[e].at \in Nat
  BY <1>1 DEF TypeOK, Version, Request
<1>3. /\ DOMAIN r.seen \subseteq Events
      /\ \A e \in DOMAIN r.seen : r.seen[e].at \in Nat
  BY <1>1, SeenIsVersions DEF Version
<1>4. AskedFor(q)'
  <2>1. ASSUME r.op \in {"create", "move", "cancel"}
        PROVE  /\ r.event \in Events /\ r.etag <= google'[r.event].at
               /\ google[r.event].at # 0 => google'[r.event].at # 0
               /\ r.event \in ended => r.event \in ended'
    BY <1>1, <1>2, <2>1 DEF Works, AskedFor, GoogleGrows
  <2>2. r.row => copy'[r.event].at # 0
    BY <1>1 DEF Works, AskedFor, RowsStay
  <2> QED BY <1>1, <2>1, <2>2 DEF Works, AskedFor
<1>5. HasSeen(q)'
  BY <1>1, <1>2, <1>3 DEF Works, HasSeen, GoogleGrows
<1>6. Told(q)'
  <2>1. ASSUME r.op \in {"create", "move", "cancel"}
        PROVE  /\ r.etag < google[r.event].at => r.etag < google'[r.event].at
               /\ r.event \in ended => r.event \in ended'
    BY <1>1, <1>2, <2>1 DEF Works, AskedFor, GoogleGrows
  <2>2. Review(q)' = Review(q)
    BY DEF Review
  <2>3. (\E w \in written : w.review = Review(q)) => (\E w \in written' : w.review = Review(q)')
    BY <2>2
  <2> QED BY <1>1, <2>1, <2>3 DEF Works, Told
<1>7. WillShow(q)'
  <2>1. CASE Syncing(q)
    <3>1. r.upto <= clock /\ r.op = "sync" /\ r.upto <= clock'
      BY <1>1, <1>2, <2>1 DEF Works, WillShow, GoogleGrows
    <3>2. ASSUME NEW e \in Events, ShownUpTo(e, r.upto)
          PROVE  ShownUpTo(e, r.upto)'
      BY <2>1, <3>2 DEF StillShown, ShownUpTo
    <3>3. ASSUME NEW e \in DOMAIN r.seen, At(q, "apply"), google'[e].at <= r.upto
          PROVE  r.seen[e] = google'[e]
      <4>1. google'[e] = google[e]
        BY <1>2, <1>3, <3>1, <3>3 DEF GoogleGrows
      <4> QED BY <1>1, <1>3, <3>3, <4>1 DEF Works, WillShow
    <3>4. At(q, "list") => \A e \in Events : ShownUpTo(e, r.upto)'
      BY <1>1, <3>2 DEF Works, WillShow
    <3>5. At(q, "apply") => \A e \in Events \ DOMAIN r.seen : ShownUpTo(e, r.upto)'
      BY <1>1, <3>2 DEF Works, WillShow
    <3> QED BY <3>1, <3>3, <3>4, <3>5 DEF WillShow, At, Syncing, ShownUpTo, Shows
  <2>2. CASE ~Syncing(q)
    BY <2>2 DEF WillShow, Syncing, At
  <2> QED BY <2>1, <2>2
<1> QED BY <1>4, <1>5, <1>6, <1>7 DEF Works

\* A step that writes to a request only.
Quiet == UNCHANGED <<google, clock, copy, token, reviewed, written, behind, ended>>

LEMMA QuietStep ==
    ASSUME NEW p \in Requests, NEW r \in Request, Inv, Becomes(p, r), Quiet, Works(p)'
    PROVE  Inv'
<1>1. /\ request' \in [Requests -> Request]
      /\ \A q \in Requests \ {p} : request'[q] = request[q]
  BY OneTurn DEF Inv
<1>2. TypeOK' /\ ReviewsStand' /\ Gone' /\ Made' /\ CoveredIsShown' /\ MadeOnceAsReviewed'
  BY <1>1 DEF Inv, TypeOK, ReviewsStand, Gone, Made, CoveredIsShown, MadeOnceAsReviewed,
              ShownUpTo, Shows, Live, Quiet
<1>3. clock' \in Nat /\ google' \in [Events -> Version] /\ GoogleGrows /\ RowsStay
  BY CalendarAssumption DEF Inv, TypeOK, Version, Quiet, GoogleGrows, RowsStay
<1>4. \A n \in Nat : StillShown(n)
  BY DEF StillShown, ShownUpTo, Shows, Live, Quiet
<1>5. \A q \in Requests : request[q].upto \in Nat
  BY DEF Inv, TypeOK, Request
<1>6. ASSUME NEW q \in Requests \ {p} PROVE Works(q)'
  BY <1>1, <1>3, <1>4, <1>5, TheOthers DEF Quiet
<1> QED BY <1>2, <1>6 DEF Inv

\* A change at Google: a new event, or one that exists; a deleted one is put back.
Changes(e, gone) ==
    /\ Changed(e, gone)
    /\ google[e].at = 0 \/ google[e].gone => ~gone
    /\ UNCHANGED <<copy, token, reviewed, behind>>

LEMMA AfterAChange ==
    ASSUME NEW e \in Events, NEW gone \in BOOLEAN, Inv, Changes(e, gone)
    PROVE  /\ clock' = clock + 1 /\ clock' \in 1..MaxChanges /\ clock \in Nat
           /\ google' \in [Events -> Version] /\ google'[e] = [at |-> clock + 1, gone |-> gone]
           /\ ended \subseteq ended' /\ ended' \subseteq Events /\ (gone => e \in ended')
           /\ \A x \in Events \ {e} : google'[x] = google[x]
           /\ GoogleGrows /\ RowsStay
           /\ \A n \in 0..clock : StillShown(n)
           /\ ReviewsStand' /\ Gone' /\ CoveredIsShown'
<1>1. TypeOK /\ clock \in Nat /\ token \in 0..clock /\ clock < MaxChanges /\ clock' = clock + 1
  BY CalendarAssumption DEF Inv, TypeOK, Changes, Changed
<1>2. google' = [google EXCEPT ![e] = [at |-> clock + 1, gone |-> gone]]
  BY DEF Changes, Changed
<1>3. [at |-> clock + 1, gone |-> gone] \in Version /\ clock' \in 1..MaxChanges
  BY <1>1, CalendarAssumption DEF Version
<1>4. /\ google' \in [Events -> Version] /\ google'[e] = [at |-> clock + 1, gone |-> gone]
      /\ \A x \in Events \ {e} : google'[x] = google[x]
  BY <1>1, <1>2, <1>3 DEF TypeOK
<1>5. ended \subseteq ended' /\ ended' \subseteq Events /\ (gone => e \in ended')
  BY <1>1 DEF Changes, Changed, TypeOK
<1>6. \A x \in Events : google[x].at \in 0..clock
  BY <1>1 DEF TypeOK, Version
<1>7. GoogleGrows
  BY <1>1, <1>4, <1>5, <1>6 DEF GoogleGrows
<1>8. RowsStay
  BY DEF RowsStay, Changes
<1>9. ASSUME NEW n \in 0..clock PROVE StillShown(n)
  <2>1. ASSUME NEW x \in Events, ShownUpTo(x, n), google'[x].at <= n, x \notin behind', google'[x].at # 0
        PROVE  Shows(x)'
    <3>1. x # e
      BY <1>1, <1>4, <2>1
    <3>2. google'[x] = google[x] /\ copy' = copy /\ x \notin behind
      BY <1>4, <2>1, <3>1 DEF Changes
    <3> QED BY <2>1, <3>2 DEF ShownUpTo, Shows, Live
  <2> QED BY <2>1 DEF StillShown
<1>10. ReviewsStand'
  BY <1>1, <1>6, <1>7 DEF Inv, ReviewsStand, GoogleGrows, Changes, TypeOK, Reviews
<1>11. Gone'
  BY <1>1, <1>4, <1>5, <1>6 DEF Inv, Gone, Changes
<1>12. CoveredIsShown'
  <2>1. StillShown(token) /\ token' = token
    BY <1>1, <1>9 DEF Changes
  <2> QED BY <2>1 DEF Inv, CoveredIsShown, StillShown, ShownUpTo
<1> QED BY <1>1, <1>3, <1>4, <1>5, <1>7, <1>8, <1>9, <1>10, <1>11, <1>12

\* A row that is written.
LEMMA AfterAStore ==
    ASSUME NEW e \in Events, NEW row \in Version, Inv, Store(e, row),
           row.at \in 1..google[e].at, row.gone => e \in ended,
           UNCHANGED <<google, clock, token, reviewed, written, ended>>
    PROVE  /\ copy' \in [Events -> Version] /\ copy'[e] = row
           /\ \A x \in Events \ {e} : copy'[x] = copy[x]
           /\ behind' \subseteq Events /\ RowsStay
           /\ StillShown(token)
           /\ \A q \in Requests : Syncing(q) => StillShown(request[q].upto)
           /\ row = google[e] => Shows(e)'
           /\ row = google[e] \/ ~Covered(e) \/ e \in behind'
<1>1. TypeOK
  BY DEF Inv
<1>2. copy' = [copy EXCEPT ![e] = row]
  BY DEF Store
<1>3. /\ copy' \in [Events -> Version] /\ copy'[e] = row
      /\ \A x \in Events \ {e} : copy'[x] = copy[x]
  BY <1>1, <1>2 DEF TypeOK
<1>4. \A x \in Events \ {e} : x \in behind' <=> x \in behind
  BY DEF Store
<1>5. behind' \subseteq Events
  BY <1>1 DEF Store, TypeOK
<1>6. RowsStay
  BY <1>3 DEF RowsStay
<1>7. row = google[e] => Shows(e)'
  BY <1>3 DEF Shows, Live
<1>8. row = google[e] \/ ~Covered(e) \/ e \in behind'
  BY DEF Store
<1>9. ASSUME NEW n, google[e].at <= n => Covered(e) PROVE StillShown(n)
  <2>1. ASSUME NEW x \in Events, ShownUpTo(x, n), google'[x].at <= n, x \notin behind', google'[x].at # 0
        PROVE  Shows(x)'
    <3>1. CASE x = e
      BY <1>7, <1>8, <1>9, <2>1, <3>1
    <3>2. CASE x # e
      BY <1>3, <1>4, <2>1, <3>2 DEF ShownUpTo, Shows, Live
    <3> QED BY <3>1, <3>2
  <2> QED BY <2>1 DEF StillShown
<1>10. StillShown(token)
  BY <1>9 DEF Covered
<1>11. ASSUME NEW q \in Requests, Syncing(q) PROVE StillShown(request[q].upto)
  BY <1>9, <1>11 DEF Covered
<1> QED BY <1>3, <1>5, <1>6, <1>7, <1>8, <1>10, <1>11

\* A step that writes a row and to a request.
LEMMA StoreStep ==
    ASSUME NEW p \in Requests, NEW r \in Request, NEW e \in Events, NEW row \in Version,
           Inv, Store(e, row), row.at \in 1..google[e].at, row.gone => e \in ended,
           UNCHANGED <<google, clock, token, reviewed, written, ended>>, Becomes(p, r), Works(p)'
    PROVE  Inv'
<1>1. /\ request' \in [Requests -> Request]
      /\ \A q \in Requests \ {p} : request'[q] = request[q]
  BY OneTurn DEF Inv
<1>2. /\ copy' \in [Events -> Version] /\ copy'[e] = row
      /\ \A x \in Events \ {e} : copy'[x] = copy[x]
      /\ behind' \subseteq Events /\ RowsStay
      /\ StillShown(token)
      /\ \A q \in Requests : Syncing(q) => StillShown(request[q].upto)
  BY AfterAStore
<1>3. TypeOK /\ \A x \in Events : google[x].at \in Nat
  BY DEF Inv, TypeOK, Version
<1>4. TypeOK'
  BY <1>1, <1>2, <1>3 DEF TypeOK
<1>5. ReviewsStand'
  BY <1>2, <1>3 DEF Inv, ReviewsStand, RowsStay, TypeOK, Reviews
<1>6. Gone'
  BY <1>2 DEF Inv, Gone
<1>7. Made' /\ MadeOnceAsReviewed'
  BY DEF Inv, Made, MadeOnceAsReviewed
<1>8. CoveredIsShown'
  BY <1>2 DEF Inv, CoveredIsShown, StillShown, ShownUpTo
<1>9. GoogleGrows /\ clock' \in Nat /\ google' \in [Events -> Version]
  BY <1>3, CalendarAssumption DEF GoogleGrows, TypeOK
<1>10. ASSUME NEW q \in Requests \ {p} PROVE Works(q)'
  BY <1>1, <1>2, <1>9, TheOthers
<1> QED BY <1>4, <1>5, <1>6, <1>7, <1>8, <1>10 DEF Inv

\* What an answered call leaves.
LEMMA AnsweredRecord ==
    ASSUME NEW p \in Requests, NEW answer \in {"none", "done", "failed", "refused"},
           TypeOK, Answer(p, answer)
    PROVE  \E r \in Request :
             /\ Becomes(p, r)
             /\ r.op = request[p].op /\ r.event = request[p].event /\ r.etag = request[p].etag
             /\ r.step = "done" /\ r.row = FALSE /\ DOMAIN r.seen = {} /\ r.answer = answer
<1> DEFINE r == [request[p] EXCEPT !.step = "done", !.row = FALSE, !.seen = Idle.seen, !.upto = 0,
                                   !.answer = answer]
<1>1. request[p] \in Request
  BY DEF TypeOK
<1>2. 0 \in 0..MaxChanges
  BY CalendarAssumption
<1>3. r \in Request
  BY <1>1, <1>2, NothingSeen DEF Request
<1>4. /\ r.op = request[p].op /\ r.event = request[p].event /\ r.etag = request[p].etag
      /\ r.step = "done" /\ r.row = FALSE /\ r.seen = Idle.seen /\ r.answer = answer
  BY <1>1 DEF Request
<1>5. Becomes(p, r)
  BY DEF Answer
<1> QED BY <1>3, <1>4, <1>5, NothingSeen

\* A call that is answered works if the answer is true.
LEMMA AnsweredWorks ==
    ASSUME NEW p \in Requests, NEW answer \in {"none", "done", "failed", "refused"},
           Inv, Answer(p, answer), GoogleGrows, written \subseteq written',
           clock' \in Nat, google' \in [Events -> Version],
           answer = "refused" => /\ request[p].op \in {"move", "cancel"}
                                 /\ request[p].etag < google'[request[p].event].at,
           answer = "done" => /\ request[p].op = "cancel" => request[p].event \in ended'
                              /\ request[p].op \in {"create", "move"} =>
                                   \E w \in written' : w.review = Review(p)
    PROVE  /\ request' \in [Requests -> Request]
           /\ \A q \in Requests \ {p} : request'[q] = request[q]
           /\ Works(p)'
<1>1. TypeOK /\ Works(p) /\ request[p] \in Request
  BY DEF Inv, TypeOK
<1>2. PICK r \in Request :
        /\ Becomes(p, r)
        /\ r.op = request[p].op /\ r.event = request[p].event /\ r.etag = request[p].etag
        /\ r.step = "done" /\ r.row = FALSE /\ DOMAIN r.seen = {} /\ r.answer = answer
  BY <1>1, AnsweredRecord
<1>3. /\ request' \in [Requests -> Request] /\ request'[p] = r
      /\ \A q \in Requests \ {p} : request'[q] = request[q]
  BY <1>1, <1>2, OneTurn
<1>4. /\ r.etag \in Nat
      /\ \A e \in Events : google[e].at \in Nat /\ google'[e].at \in Nat
  BY <1>1, CalendarAssumption DEF TypeOK, Version, Request
<1>5. AskedFor(p)'
  <2>1. ASSUME r.op \in {"create", "move", "cancel"}
        PROVE  /\ r.event \in Events /\ r.etag <= google'[r.event].at
               /\ google[r.event].at # 0 => google'[r.event].at # 0
    BY <1>1, <1>2, <1>4, <2>1 DEF Works, AskedFor, GoogleGrows
  <2> QED BY <1>1, <1>2, <1>3, <2>1 DEF Works, AskedFor
<1>6. HasSeen(p)'
  BY <1>2, <1>3 DEF HasSeen
<1>7. Review(p)' = Review(p)
  BY <1>2, <1>3 DEF Review
<1>8. Told(p)'
  BY <1>2, <1>3, <1>7 DEF Told
<1>9. WillShow(p)'
  BY <1>2, <1>3 DEF WillShow, Syncing, At
<1> QED BY <1>3, <1>5, <1>6, <1>8, <1>9 DEF Works

\* An answer that writes nowhere else.
LEMMA AnsweredQuietly ==
    ASSUME NEW p \in Requests, NEW answer \in {"none", "done", "failed", "refused"},
           Inv, Answer(p, answer), Quiet,
           answer = "refused" => /\ request[p].op \in {"move", "cancel"}
                                 /\ request[p].etag < google[request[p].event].at,
           answer = "done" => /\ request[p].op = "cancel" => request[p].event \in ended
                              /\ request[p].op \in {"create", "move"} =>
                                   \E w \in written : w.review = Review(p)
    PROVE  Inv'
<1>1. GoogleGrows /\ written \subseteq written' /\ clock' \in Nat
      /\ google' \in [Events -> Version] /\ google' = google /\ ended' = ended /\ written' = written
  BY CalendarAssumption DEF Quiet, GoogleGrows, Inv, TypeOK, Version
<1>2. Works(p)'
  BY <1>1, AnsweredWorks
<1>3. PICK r \in Request : Becomes(p, r)
  BY AnsweredRecord DEF Inv
<1> QED BY <1>2, <1>3, QuietStep

-----------------------------------------------------------------------------
(* The review and the yes. *)

LEMMA ReviewNewStep ==
    ASSUME NEW e \in Ids, Inv, ReviewNew(e)
    PROVE  Inv'
<1> DEFINE review == [op |-> "create", event |-> e, etag |-> 0]
<1>1. UNCHANGED <<google, clock, copy, token, request, written, behind, ended>>
      /\ reviewed' = reviewed \cup {review}
  BY DEF ReviewNew
<1>2. review \in Reviews
  BY CalendarAssumption DEF Reviews, Events
<1>3. google[e].at \in Nat
  BY DEF Inv, TypeOK, Events, Version
<1>4. ReviewsStand'
  BY <1>1, <1>3 DEF Inv, ReviewsStand
<1>5. TypeOK' /\ Gone' /\ Made' /\ CoveredIsShown' /\ MadeOnceAsReviewed'
  BY <1>1, <1>2 DEF Inv, TypeOK, Gone, Made, CoveredIsShown, MadeOnceAsReviewed,
                    ShownUpTo, Shows, Live
<1>6. ASSUME NEW p \in Requests PROVE Works(p)'
  BY <1>1, <1>6 DEF Inv, Works, AskedFor, HasSeen, Told, WillShow, ShownUpTo, Shows, Live, At,
              Syncing, Review
<1> QED BY <1>4, <1>5, <1>6 DEF Inv

LEMMA ReviewChangeStep ==
    ASSUME NEW op \in {"move", "cancel"}, NEW e \in Events, Inv, ReviewChange(op, e)
    PROVE  Inv'
<1> DEFINE review == [op |-> op, event |-> e, etag |-> google[e].at]
<1>1. UNCHANGED <<google, clock, copy, token, request, written, behind, ended>>
      /\ reviewed' = reviewed \cup {review} /\ Live(copy, e) /\ Live(google, e)
  BY DEF ReviewChange
<1>2. review \in Reviews /\ google[e].at \in Nat
  BY DEF Reviews, Inv, TypeOK, Version
<1>3. ReviewsStand'
  BY <1>1, <1>2 DEF Inv, ReviewsStand, Live
<1>4. TypeOK' /\ Gone' /\ Made' /\ CoveredIsShown' /\ MadeOnceAsReviewed'
  BY <1>1, <1>2 DEF Inv, TypeOK, Gone, Made, CoveredIsShown, MadeOnceAsReviewed,
                    ShownUpTo, Shows, Live
<1>5. ASSUME NEW p \in Requests PROVE Works(p)'
  BY <1>1, <1>5 DEF Inv, Works, AskedFor, HasSeen, Told, WillShow, ShownUpTo, Shows, Live, At,
              Syncing, Review
<1> QED BY <1>3, <1>4, <1>5 DEF Inv

LEMMA ConfirmStep ==
    ASSUME NEW p \in Requests, NEW review \in reviewed, Inv, Confirm(p, review)
    PROVE  Inv'
<1>1. TypeOK /\ review \in Reviews /\ review.event \in Events
  BY DEF Inv, TypeOK, Reviews
<1>2. PICK step \in {"insert", "live", "done"}, answer \in {"none", "done", "failed"} :
        /\ Find(review) = Called(review, step, answer)
        /\ step = "insert" => review.op = "create"
        /\ step = "live" => review.op \in {"move", "cancel"} /\ Live(copy, review.event)
        /\ answer = "done" => step = "done" /\ review.op = "cancel" /\ ~Live(copy, review.event)
  <2>1. CASE review.op = "create"
    <3>1. Find(review) = Called(review, "insert", "none")
      BY <2>1 DEF Find
    <3> QED BY <2>1, <3>1
  <2>2. CASE review.op # "create" /\ Live(copy, review.event)
    BY <1>1, <2>2 DEF Find, Reviews
  <2>3. CASE review.op # "create" /\ ~Live(copy, review.event)
    BY <1>1, <2>3 DEF Find, Reviews
  <2> QED BY <2>1, <2>2, <2>3
<1>3. PICK live \in BOOLEAN : live = (step = "live")
  OBVIOUS
<1> DEFINE r == Called(review, step, answer)
<1>4. /\ r.op = review.op /\ r.event = review.event /\ r.etag = review.etag
      /\ (r.row <=> step = "live") /\ r.step = step /\ r.answer = answer /\ r.seen = Idle.seen
  BY DEF Called, Idle
<1>5. r \in Request
  <2>1. r = [Idle EXCEPT !.op = review.op, !.event = review.event, !.etag = review.etag,
                         !.row = live, !.step = step, !.answer = answer]
    BY <1>3 DEF Called
  <2>2. Idle \in Request
    BY NothingSeen, CalendarAssumption DEF Idle, Request
  <2> QED BY <1>1, <2>1, <2>2 DEF Request, Reviews
<1>6. Becomes(p, r) /\ Quiet
  BY <1>2 DEF Confirm, Quiet
<1> HIDE DEF r
<1>7. /\ request'[p] = r
  BY <1>1, <1>5, <1>6, OneTurn
<1>8. /\ review.etag <= google[review.event].at
      /\ review.op = "create" => review.event \in Ids /\ review.etag = 0
      /\ review.op # "create" => google[review.event].at # 0 /\ copy[review.event].at # 0
  BY DEF Inv, ReviewsStand
<1>9. AskedFor(p)'
  BY <1>1, <1>2, <1>4, <1>6, <1>7, <1>8 DEF AskedFor, Quiet, Live
<1>10. answer = "done" => review.event \in ended
  BY <1>1, <1>2, <1>8 DEF Live, Inv, Gone
<1>11. Told(p)'
  BY <1>2, <1>4, <1>6, <1>7, <1>10 DEF Told, Quiet
<1>12. HasSeen(p)' /\ WillShow(p)'
  BY <1>2, <1>4, <1>7, NothingSeen DEF HasSeen, WillShow, Syncing, At
<1>13. Works(p)'
  BY <1>9, <1>11, <1>12 DEF Works
<1> QED BY <1>5, <1>6, <1>13, QuietStep

-----------------------------------------------------------------------------
(* The confirmed calls. *)

\* A request that goes on, without having seen anything at Google.
LEMMA GoneOn ==
    ASSUME NEW p \in Requests, NEW step \in {"fetch", "write", "remove"}, TypeOK, Goto(p, step)
    PROVE  \E r \in Request :
             /\ Becomes(p, r)
             /\ r.op = request[p].op /\ r.event = request[p].event /\ r.etag = request[p].etag
             /\ r.step = step /\ r.row = request[p].row /\ r.seen = request[p].seen
             /\ r.answer = request[p].answer
<1> DEFINE r == [request[p] EXCEPT !.step = step]
<1>1. request[p] \in Request
  BY DEF TypeOK
<1>2. r \in Request
  BY <1>1 DEF Request
<1>3. /\ r.op = request[p].op /\ r.event = request[p].event /\ r.etag = request[p].etag
      /\ r.step = step /\ r.row = request[p].row /\ r.seen = request[p].seen
      /\ r.answer = request[p].answer
  BY <1>1 DEF Request
<1> QED BY <1>2, <1>3 DEF Goto

\* Going on works as answering does.
LEMMA GoneOnWorks ==
    ASSUME NEW p \in Requests, NEW step \in {"fetch", "write", "remove"},
           Inv, Goto(p, step), GoogleGrows, RowsStay, written \subseteq written',
           clock' \in Nat, google' \in [Events -> Version], request[p].step \notin {"done", "idle"},
           step = "fetch" => request[p].op = "create" /\ google'[request[p].event].at # 0,
           step = "write" => request[p].op \in {"move", "cancel"},
           step = "remove" => request[p].op = "cancel" /\ request[p].event \in ended'
    PROVE  /\ request' \in [Requests -> Request]
           /\ \A q \in Requests \ {p} : request'[q] = request[q]
           /\ Works(p)'
<1>1. TypeOK /\ Works(p) /\ request[p] \in Request
  BY DEF Inv, TypeOK
<1>2. PICK r \in Request :
        /\ Becomes(p, r)
        /\ r.op = request[p].op /\ r.event = request[p].event /\ r.etag = request[p].etag
        /\ r.step = step /\ r.row = request[p].row /\ r.seen = request[p].seen
        /\ r.answer = request[p].answer
  BY <1>1, GoneOn
<1>3. /\ request' \in [Requests -> Request] /\ request'[p] = r
      /\ \A q \in Requests \ {p} : request'[q] = request[q]
  BY <1>1, <1>2, OneTurn
<1>4. /\ r.etag \in Nat
      /\ \A e \in Events : google[e].at \in Nat /\ google'[e].at \in Nat
  BY <1>1, CalendarAssumption DEF TypeOK, Version, Request
<1>5. AskedFor(p)'
  <2>1. ASSUME r.op \in {"create", "move", "cancel"}
        PROVE  /\ r.event \in Events /\ r.etag <= google'[r.event].at
               /\ google[r.event].at # 0 => google'[r.event].at # 0
    BY <1>1, <1>2, <1>4, <2>1 DEF Works, AskedFor, GoogleGrows
  <2>2. r.row => r.event \in Events /\ copy'[r.event].at # 0
    BY <1>1, <1>2 DEF Works, AskedFor, RowsStay
  <2> QED BY <1>1, <1>2, <1>3, <2>1, <2>2 DEF Works, AskedFor
<1>6. HasSeen(p)'
  <2>1. DOMAIN r.seen \subseteq Events /\ \A e \in DOMAIN r.seen : r.seen[e].at \in Nat
    BY SeenIsVersions DEF Version
  <2> QED BY <1>1, <1>2, <1>3, <1>4, <2>1 DEF Works, HasSeen, GoogleGrows
<1>7. Told(p)'
  BY <1>1, <1>2, <1>3 DEF Works, Told
<1>8. WillShow(p)'
  BY <1>2, <1>3 DEF WillShow, Syncing, At
<1> QED BY <1>3, <1>5, <1>6, <1>7, <1>8 DEF Works

LEMMA GoneOnQuietly ==
    ASSUME NEW p \in Requests, NEW step \in {"fetch", "write", "remove"},
           Inv, Goto(p, step), Quiet, request[p].step \notin {"done", "idle"},
           step = "fetch" => request[p].op = "create" /\ google[request[p].event].at # 0,
           step = "write" => request[p].op \in {"move", "cancel"},
           step = "remove" => request[p].op = "cancel" /\ request[p].event \in ended
    PROVE  Inv'
<1>1. GoogleGrows /\ RowsStay /\ written \subseteq written' /\ clock' \in Nat
      /\ google' \in [Events -> Version] /\ google' = google /\ ended' = ended /\ written' = written
  BY CalendarAssumption DEF Quiet, GoogleGrows, RowsStay, Inv, TypeOK, Version
<1>2. Works(p)'
  BY <1>1, GoneOnWorks
<1>3. PICK r \in Request : Becomes(p, r)
  BY GoneOn DEF Inv
<1> QED BY <1>2, <1>3, QuietStep

\* A request that has the version of one event to store.
LEMMA SeenRecord ==
    ASSUME NEW p \in Requests, NEW e \in Events, NEW v \in Version, TypeOK,
           Seen(p, "stage", [x \in {e} |-> v])
    PROVE  \E r \in Request :
             /\ Becomes(p, r)
             /\ r.op = request[p].op /\ r.event = request[p].event /\ r.etag = request[p].etag
             /\ r.step = "stage" /\ r.row = request[p].row /\ r.answer = request[p].answer
             /\ r.seen = [x \in {e} |-> v]
<1> DEFINE seen == [x \in {e} |-> v]
           r == [request[p] EXCEPT !.step = "stage", !.seen = seen]
<1>1. request[p] \in Request
  BY DEF TypeOK
<1>2. {e} \in SUBSET Events /\ seen \in [{e} -> Version]
  OBVIOUS
<1>3. seen \in UNION {[es -> Version] : es \in SUBSET Events}
  BY <1>2, VersionsAreSeen
<1>4. Becomes(p, r)
  BY DEF Seen
<1> HIDE DEF seen
<1>5. r \in Request
  BY <1>1, <1>3 DEF Request
<1>6. /\ r.op = request[p].op /\ r.event = request[p].event /\ r.etag = request[p].etag
      /\ r.step = "stage" /\ r.row = request[p].row /\ r.answer = request[p].answer
      /\ r.seen = seen
  BY <1>1 DEF Request
<1> QED BY <1>4, <1>5, <1>6 DEF seen

LEMMA SeenWorks ==
    ASSUME NEW p \in Requests, NEW e \in Events, NEW v \in Version, Inv,
           Seen(p, "stage", [x \in {e} |-> v]), GoogleGrows, RowsStay,
           clock' \in Nat, google' \in [Events -> Version],
           request[p].step \notin {"done", "idle"}, request[p].op \in {"create", "move"},
           v.at \in 1..google'[e].at, v.gone => e \in ended',
           \E w \in written' : w.review = Review(p)
    PROVE  /\ request' \in [Requests -> Request]
           /\ \A q \in Requests \ {p} : request'[q] = request[q]
           /\ Works(p)'
<1>1. TypeOK /\ Works(p) /\ request[p] \in Request
  BY DEF Inv, TypeOK
<1>2. PICK r \in Request :
        /\ Becomes(p, r)
        /\ r.op = request[p].op /\ r.event = request[p].event /\ r.etag = request[p].etag
        /\ r.step = "stage" /\ r.row = request[p].row /\ r.answer = request[p].answer
        /\ r.seen = [x \in {e} |-> v]
  BY <1>1, SeenRecord
<1>3. /\ request' \in [Requests -> Request] /\ request'[p] = r
      /\ \A q \in Requests \ {p} : request'[q] = request[q]
  BY <1>1, <1>2, OneTurn
<1>4. /\ r.etag \in Nat
      /\ \A x \in Events : google[x].at \in Nat /\ google'[x].at \in Nat
  BY <1>1, CalendarAssumption DEF TypeOK, Version, Request
<1>5. AskedFor(p)'
  <2>1. /\ r.event \in Events /\ r.etag <= google'[r.event].at
        /\ google[r.event].at # 0 => google'[r.event].at # 0
    BY <1>1, <1>2, <1>4 DEF Works, AskedFor, GoogleGrows
  <2>2. r.row => copy'[r.event].at # 0
    BY <1>1, <1>2 DEF Works, AskedFor, RowsStay
  <2> QED BY <1>1, <1>2, <1>3, <2>1, <2>2 DEF Works, AskedFor
<1>6. DOMAIN r.seen = {e} /\ r.seen[e] = v
  BY <1>2
<1>7. HasSeen(p)'
  BY <1>3, <1>6 DEF HasSeen
<1>8. Review(p)' = Review(p)
  BY <1>2, <1>3 DEF Review
<1>9. Told(p)'
  BY <1>1, <1>2, <1>3, <1>8 DEF Works, Told
<1>10. WillShow(p)'
  BY <1>2, <1>3 DEF WillShow, Syncing, At
<1> QED BY <1>3, <1>5, <1>7, <1>9, <1>10 DEF Works

LEMMA SeenQuietly ==
    ASSUME NEW p \in Requests, NEW e \in Events, Inv, Quiet,
           Seen(p, "stage", [x \in {e} |-> google[e]]), google[e].at # 0,
           request[p].step \notin {"done", "idle"}, request[p].op \in {"create", "move"},
           \E w \in written : w.review = Review(p)
    PROVE  Inv'
<1>1. GoogleGrows /\ RowsStay /\ clock' \in Nat /\ google[e] \in Version
      /\ google' \in [Events -> Version] /\ google' = google /\ ended' = ended /\ written' = written
  BY CalendarAssumption DEF Quiet, GoogleGrows, RowsStay, Inv, TypeOK, Version
<1>2. PICK v \in Version : v = google[e]
  BY <1>1
<1>3. Seen(p, "stage", [x \in {e} |-> v])
  BY <1>2
<1>4. v.at \in 1..google'[e].at /\ (v.gone => e \in ended')
  BY <1>1, <1>2 DEF Version, Inv, Gone
<1>5. Works(p)'
  BY <1>1, <1>3, <1>4, SeenWorks
<1>6. PICK r \in Request : Becomes(p, r)
  BY <1>3, SeenRecord DEF Inv
<1> QED BY <1>5, <1>6, QuietStep

\* What a yes changes at Google.
LEMMA WriteStep ==
    ASSUME NEW p \in Requests, NEW e \in Events, NEW gone \in BOOLEAN, Inv, Changes(e, gone),
           Written(p, e), request[p].event = e, request[p].op \in {"create", "move", "cancel"},
           google[e].at = request[p].etag,
           request' \in [Requests -> Request],
           \A q \in Requests \ {p} : request'[q] = request[q],
           Works(p)'
    PROVE  Inv'
<1> DEFINE w == [review |-> Review(p), on |-> google[e].at]
<1>1. TypeOK /\ Works(p) /\ request[p] \in Request
  BY DEF Inv, TypeOK
<1>2. /\ clock' = clock + 1 /\ clock' \in 1..MaxChanges /\ clock \in Nat
      /\ google' \in [Events -> Version] /\ google'[e] = [at |-> clock + 1, gone |-> gone]
      /\ \A x \in Events \ {e} : google'[x] = google[x]
      /\ GoogleGrows /\ RowsStay
      /\ ended' \subseteq Events
      /\ \A n \in 0..clock : StillShown(n)
      /\ ReviewsStand' /\ Gone' /\ CoveredIsShown'
  BY AfterAChange
<1>3. UNCHANGED <<copy, token, reviewed, behind>> /\ written' = written \cup {w}
  BY DEF Changes, Written
<1>4. Review(p) \in Reviews /\ google[e].at \in 0..MaxChanges
  BY <1>1 DEF Review, Reviews, Request, TypeOK, Version
<1>5. \A x \in Events : google[x].at \in Nat /\ google[x].at <= clock /\ google'[x].at \in Nat
                        /\ google[x].at <= google'[x].at
  BY <1>1, <1>2, CalendarAssumption DEF TypeOK, Version, GoogleGrows
<1>6. TypeOK'
  <2>1. \A x \in Events : google'[x].at <= clock'
    BY <1>2, <1>5
  <2>2. \A x \in Events : copy[x].at \in Nat /\ copy[x].at <= google'[x].at
    BY <1>1, <1>5, CalendarAssumption DEF TypeOK, Version
  <2>3. w \in [review : Reviews, on : 0..MaxChanges]
    BY <1>4
  <2>4. token' \in 0..clock'
    BY <1>1, <1>2, <1>3 DEF TypeOK
  <2> HIDE DEF w
  <2> QED BY <1>1, <1>2, <1>3, <2>1, <2>2, <2>3, <2>4 DEF TypeOK
<1>7. /\ w.review = Review(p) /\ w.on = w.review.etag /\ w.review.event = e
      /\ w.review.etag < google'[e].at
  BY <1>2, <1>5 DEF Review
<1> HIDE DEF w
<1>8. \A v \in written : /\ v.review.event \in Events /\ v.review.etag \in Nat
                         /\ v.on = v.review.etag /\ google[v.review.event].at > v.review.etag
                         /\ google'[v.review.event].at > v.review.etag
  BY <1>1, <1>5, CalendarAssumption DEF TypeOK, Reviews, Inv, Made
<1>9. \A v \in written : v.review # w.review
  BY <1>7, <1>8 DEF Review
<1>10. MadeOnceAsReviewed'
  BY <1>3, <1>7, <1>8, <1>9 DEF Inv, MadeOnceAsReviewed
<1>11. Made'
  <2>1. ASSUME NEW x \in Ids, google'[x].at # 0
        PROVE  \E v \in written' : v.review = [op |-> "create", event |-> x, etag |-> 0]
    <3>1. CASE google[x].at # 0
      BY <1>3, <3>1 DEF Inv, Made
    <3>2. CASE google[x].at = 0
      <4>1. x = e /\ x \in Events
        BY <1>2, <2>1, <3>2 DEF Events
      <4>2. request[p].op = "create" /\ request[p].etag = 0
        BY <1>1, <3>2, <4>1 DEF Works, AskedFor
      <4>3. w.review = [op |-> "create", event |-> x, etag |-> 0]
        BY <1>7, <4>1, <4>2 DEF Review
      <4> QED BY <1>3, <4>3
    <3> QED BY <3>1, <3>2
  <2> QED BY <1>3, <1>7, <1>8, <2>1 DEF Made
<1>12. ASSUME NEW q \in Requests \ {p} PROVE Works(q)'
  <2>1. Syncing(q) => request[q].upto \in 0..clock
    BY <1>1 DEF Inv, Works, WillShow, TypeOK, Request
  <2> QED BY <1>2, <1>3, <1>12, <2>1, TheOthers
<1> QED BY <1>2, <1>6, <1>10, <1>11, <1>12 DEF Inv

LEMMA ElsewhereStep ==
    ASSUME NEW e \in Events, NEW gone \in BOOLEAN, Inv, Elsewhere(e, gone)
    PROVE  Inv'
<1>1. Changes(e, gone) /\ google[e].at # 0 /\ UNCHANGED <<request, written>>
  BY DEF Elsewhere, Changes
<1>2. TypeOK /\ UNCHANGED <<copy, token, reviewed, behind>>
  BY <1>1 DEF Inv, Changes
<1>3. /\ clock' = clock + 1 /\ clock' \in 1..MaxChanges /\ clock \in Nat
      /\ google' \in [Events -> Version]
      /\ \A x \in Events \ {e} : google'[x] = google[x]
      /\ GoogleGrows /\ RowsStay
      /\ ended' \subseteq Events
      /\ \A n \in 0..clock : StillShown(n)
      /\ ReviewsStand' /\ Gone' /\ CoveredIsShown'
  BY <1>1, AfterAChange
<1>4. \A x \in Events : google[x].at \in Nat /\ google[x].at <= clock /\ google'[x].at \in Nat
                        /\ google[x].at <= google'[x].at /\ google'[x].at <= clock'
  BY <1>2, <1>3, CalendarAssumption DEF TypeOK, Version, GoogleGrows
<1>5. TypeOK'
  <2>1. \A x \in Events : copy[x].at \in Nat /\ copy[x].at <= google'[x].at
    BY <1>2, <1>4, CalendarAssumption DEF TypeOK, Version
  <2>2. token' \in 0..clock'
    BY <1>2, <1>3 DEF TypeOK
  <2> QED BY <1>1, <1>2, <1>3, <1>4, <2>1, <2>2 DEF TypeOK
<1>6. MadeOnceAsReviewed'
  BY <1>1 DEF Inv, MadeOnceAsReviewed
<1>7. Made'
  <2>1. \A v \in written : v.review.event \in Events /\ v.review.etag \in Nat
    BY <1>2, CalendarAssumption DEF TypeOK, Reviews
  <2>2. \A x \in Ids : x \in Events /\ (google'[x].at # 0 => google[x].at # 0)
    BY <1>1, <1>3 DEF Live, Events
  <2> QED BY <1>1, <1>4, <2>1, <2>2 DEF Inv, Made
<1>8. ASSUME NEW q \in Requests PROVE Works(q)'
  <2>1. Syncing(q) => request[q].upto \in 0..clock
    BY <1>2 DEF Inv, Works, WillShow, TypeOK, Request
  <2> QED BY <1>1, <1>3, <1>8, <2>1, TheOthers
<1> QED BY <1>3, <1>5, <1>6, <1>7, <1>8 DEF Inv

LEMMA InsertStep ==
    ASSUME NEW p \in Requests, Inv, Insert(p)
    PROVE  Inv'
<1> DEFINE e == request[p].event
<1>1. TypeOK /\ Works(p) /\ request[p] \in Request /\ request[p].step = "insert"
  BY DEF Inv, TypeOK, Insert, At
<1>2. /\ request[p].op = "create" /\ request[p].event \in Events /\ request[p].etag = 0
      /\ google[e].at \in Nat /\ google[e].gone \in BOOLEAN
  BY <1>1 DEF Works, AskedFor, TypeOK, Version
<1>3. UNCHANGED <<copy, token, reviewed, behind>>
  BY DEF Insert
<1>4. CASE google[e].at = 0 /\ Changed(e, FALSE) /\ Written(p, e)
           /\ (Seen(p, "stage", [x \in {e} |-> google'[e]]) \/ Answer(p, "failed"))
  <2>1. Changes(e, FALSE)
    BY <1>3, <1>4 DEF Changes
  <2>2. /\ clock' = clock + 1 /\ clock' \in 1..MaxChanges /\ clock \in Nat
        /\ google' \in [Events -> Version] /\ google'[e] = [at |-> clock + 1, gone |-> FALSE]
        /\ GoogleGrows /\ RowsStay
    BY <1>2, <2>1, AfterAChange
  <2>3. /\ written \subseteq written' /\ clock' \in Nat
        /\ \E w \in written' : w.review = Review(p)
    <3> DEFINE w == [review |-> Review(p), on |-> google[e].at]
    <3>1. written' = written \cup {w} /\ w.review = Review(p)
      BY <1>4 DEF Written
    <3> HIDE DEF w
    <3> QED BY <2>2, <3>1
  <2>4. /\ request' \in [Requests -> Request]
        /\ \A q \in Requests \ {p} : request'[q] = request[q]
        /\ Works(p)'
    <3>1. CASE Seen(p, "stage", [x \in {e} |-> google'[e]])
      <4>1. PICK v \in Version : v = google'[e]
        BY <1>2, <2>2
      <4>2. v.at \in 1..google'[e].at /\ (v.gone => e \in ended')
        BY <2>2, <4>1
      <4>3. Seen(p, "stage", [x \in {e} |-> v])
        BY <3>1, <4>1
      <4> HIDE DEF e
      <4>4. e \in Events
        BY <1>2 DEF e
      <4> QED BY <1>1, <1>2, <2>2, <2>3, <4>2, <4>3, <4>4, SeenWorks
    <3>2. CASE Answer(p, "failed")
      BY <2>2, <2>3, <3>2, AnsweredWorks
    <3> QED BY <1>4, <3>1, <3>2
  <2> QED BY <1>2, <1>4, <2>1, <2>4, WriteStep
<1>5. CASE google[e].at # 0 /\ Goto(p, "fetch") /\ Unwritten
  <2>1. Quiet
    BY <1>3, <1>5 DEF Quiet, Unwritten
  <2> QED BY <1>1, <1>2, <1>5, <2>1, GoneOnQuietly
<1>6. CASE Answer(p, "failed") /\ Unwritten
  <2>1. Quiet
    BY <1>3, <1>6 DEF Quiet, Unwritten
  <2> QED BY <1>6, <2>1, AnsweredQuietly
<1> QED BY <1>4, <1>5, <1>6 DEF Insert

LEMMA FetchStep ==
    ASSUME NEW p \in Requests, Inv, Fetch(p)
    PROVE  Inv'
<1> DEFINE e == request[p].event
<1>1. TypeOK /\ Works(p) /\ request[p] \in Request /\ request[p].step = "fetch"
  BY DEF Inv, TypeOK, Fetch, At
<1>2. /\ request[p].op = "create" /\ request[p].event \in Events /\ request[p].etag = 0
      /\ google[e].at # 0 /\ request[p].event \in Ids
  BY <1>1 DEF Works, AskedFor
<1>3. Quiet
  BY DEF Fetch, Quiet
<1>4. CASE Seen(p, "stage", [x \in {e} |-> google[e]])
  <2>1. \E w \in written : w.review = [op |-> "create", event |-> e, etag |-> 0]
    BY <1>2 DEF Inv, Made
  <2>2. \E w \in written : w.review = Review(p)
    BY <1>2, <2>1 DEF Review
  <2>3. PICK x \in Events : x = e
    BY <1>2
  <2>4. Seen(p, "stage", [y \in {x} |-> google[x]]) /\ google[x].at # 0
    BY <1>2, <1>4, <2>3
  <2> QED BY <1>1, <1>2, <1>3, <2>2, <2>4, SeenQuietly
<1>5. CASE Answer(p, "failed")
  BY <1>3, <1>5, AnsweredQuietly
<1> QED BY <1>4, <1>5 DEF Fetch

LEMMA LiveEventStep ==
    ASSUME NEW p \in Requests, Inv, LiveEvent(p)
    PROVE  Inv'
<1> DEFINE e == request[p].event
<1>1. TypeOK /\ Works(p) /\ request[p] \in Request /\ request[p].step = "live"
  BY DEF Inv, TypeOK, LiveEvent, At
<1>2. /\ request[p].op \in {"move", "cancel"} /\ request[p].event \in Events
      /\ google[e].at # 0 /\ request[p].etag <= google[e].at
      /\ google[e].at \in Nat /\ request[p].etag \in Nat
  BY <1>1, CalendarAssumption DEF Works, AskedFor, TypeOK, Version, Request
<1>3. Quiet
  BY DEF LiveEvent, Quiet
<1>4. CASE NotFound(p) /\ request[p].op = "cancel" /\ Goto(p, "remove")
  <2>1. e \in ended
    BY <1>2, <1>4 DEF NotFound, Live, Inv, Gone
  <2> QED BY <1>1, <1>3, <1>4, <2>1, GoneOnQuietly
<1>5. CASE Live(google, e) /\ google[e].at = request[p].etag /\ Goto(p, "write")
  BY <1>1, <1>2, <1>3, <1>5, GoneOnQuietly
<1>6. CASE Live(google, e) /\ google[e].at # request[p].etag /\ Answer(p, "refused")
  <2>1. request[p].etag < google[e].at
    BY <1>2, <1>6
  <2> QED BY <1>2, <1>3, <1>6, <2>1, AnsweredQuietly
<1>7. CASE Answer(p, "failed")
  BY <1>3, <1>7, AnsweredQuietly
<1> QED BY <1>4, <1>5, <1>6, <1>7 DEF LiveEvent

LEMMA WriteItselfStep ==
    ASSUME NEW p \in Requests, Inv, Write(p)
    PROVE  Inv'
<1> DEFINE e == request[p].event
<1>1. TypeOK /\ Works(p) /\ request[p] \in Request /\ request[p].step = "write"
  BY DEF Inv, TypeOK, Write, At
<1>2. /\ request[p].op \in {"move", "cancel"} /\ request[p].event \in Events
      /\ request[p].etag <= google[e].at
      /\ google[e].at \in Nat /\ request[p].etag \in Nat
  BY <1>1, CalendarAssumption DEF Works, AskedFor, TypeOK, Version, Request
<1>3. UNCHANGED <<copy, token, reviewed, behind>>
  BY DEF Write
<1>4. PICK cancel \in BOOLEAN : cancel = (request[p].op = "cancel")
  OBVIOUS
<1>5. CASE /\ Live(google, e) /\ Matches(p) /\ Changed(e, cancel) /\ Written(p, e)
           /\ \/ IF cancel THEN Goto(p, "remove") ELSE Seen(p, "stage", [x \in {e} |-> google'[e]])
              \/ Answer(p, "failed")
  <2>1. Changes(e, cancel)
    BY <1>3, <1>5 DEF Changes, Live
  <2>2. /\ clock' = clock + 1 /\ clock' \in 1..MaxChanges /\ clock \in Nat
        /\ google' \in [Events -> Version] /\ google'[e] = [at |-> clock + 1, gone |-> cancel]
        /\ (cancel => e \in ended')
        /\ GoogleGrows /\ RowsStay
    BY <1>2, <2>1, AfterAChange
  <2>3. /\ written \subseteq written' /\ clock' \in Nat
        /\ \E w \in written' : w.review = Review(p)
    <3> DEFINE w == [review |-> Review(p), on |-> google[e].at]
    <3>1. written' = written \cup {w} /\ w.review = Review(p)
      BY <1>5 DEF Written
    <3> HIDE DEF w
    <3> QED BY <2>2, <3>1
  <2>4. /\ request' \in [Requests -> Request]
        /\ \A q \in Requests \ {p} : request'[q] = request[q]
        /\ Works(p)'
    <3>1. CASE cancel /\ Goto(p, "remove")
      <4>1. e \in ended' /\ request[p].op = "cancel"
        <5>1. e \in ended'
          BY <2>2, <3>1
        <5>2. request[p].op = "cancel"
          BY <1>4, <3>1
        <5> QED BY <5>1, <5>2
      <4> QED BY <1>1, <2>2, <2>3, <3>1, <4>1, GoneOnWorks
    <3>2. CASE ~cancel /\ Seen(p, "stage", [x \in {e} |-> google'[e]])
      <4>1. PICK v \in Version : v = google'[e]
        BY <1>2, <2>2
      <4>2. v.at \in 1..google'[e].at /\ (v.gone => e \in ended')
        BY <2>2, <4>1
      <4>3. Seen(p, "stage", [x \in {e} |-> v]) /\ request[p].op = "move"
        BY <1>2, <1>4, <3>2, <4>1
      <4> HIDE DEF e
      <4>4. e \in Events
        BY <1>2 DEF e
      <4> QED BY <1>1, <2>2, <2>3, <4>2, <4>3, <4>4, SeenWorks
    <3>3. CASE Answer(p, "failed")
      BY <2>2, <2>3, <3>3, AnsweredWorks
    <3> QED BY <1>5, <3>1, <3>2, <3>3
  <2>5. google[e].at = request[p].etag
    BY <1>5 DEF Matches
  <2> QED BY <1>2, <1>5, <2>1, <2>4, <2>5, WriteStep
<1>6. CASE Live(google, e) /\ ~Matches(p) /\ Answer(p, "refused") /\ Unwritten
  <2>1. Quiet
    BY <1>3, <1>6 DEF Quiet, Unwritten
  <2>2. request[p].etag < google[e].at
    BY <1>2, <1>6 DEF Matches
  <2> QED BY <1>2, <1>6, <2>1, <2>2, AnsweredQuietly
<1>7. CASE Answer(p, "failed") /\ Unwritten
  <2>1. Quiet
    BY <1>3, <1>7 DEF Quiet, Unwritten
  <2> QED BY <1>7, <2>1, AnsweredQuietly
<1> QED BY <1>4, <1>5, <1>6, <1>7 DEF Write

LEMMA StageStep ==
    ASSUME NEW p \in Requests, Inv, Stage(p)
    PROVE  Inv'
<1>1. TypeOK /\ Works(p) /\ request[p] \in Request /\ request[p].step = "stage"
  BY DEF Inv, TypeOK, Stage, At
<1>2. UNCHANGED <<google, clock, token, reviewed, written, ended>> /\ Answer(p, "done")
  BY DEF Stage
<1>3. /\ request[p].op \in {"create", "move"}
      /\ \E w \in written : w.review = Review(p)
  BY <1>1 DEF Works, Told
<1>4. CASE UNCHANGED <<copy, behind>>
  <2>1. Quiet
    BY <1>2, <1>4 DEF Quiet
  <2> QED BY <1>2, <1>3, <2>1, AnsweredQuietly
<1>5. ASSUME NEW e \in DOMAIN request[p].seen,
             Store(e, [at |-> request[p].seen[e].at, gone |-> FALSE])
      PROVE  Inv'
  <2>1. e \in Events /\ request[p].seen[e] \in Version
    BY <1>1, SeenIsVersions
  <2>2. request[p].seen[e].at \in 1..google[e].at
    BY <1>1 DEF Works, HasSeen
  <2>3. PICK row \in Version : row = [at |-> request[p].seen[e].at, gone |-> FALSE]
    BY <2>1 DEF Version
  <2>4. Store(e, row) /\ row.at \in 1..google[e].at /\ ~row.gone
    BY <1>5, <2>2, <2>3
  <2>5. GoogleGrows /\ written \subseteq written' /\ clock' \in Nat
        /\ google' \in [Events -> Version] /\ google' = google /\ ended' = ended /\ written' = written
    BY <1>1, <1>2, CalendarAssumption DEF GoogleGrows, TypeOK, Version
  <2>6. Works(p)'
    BY <1>2, <1>3, <2>5, AnsweredWorks
  <2>7. PICK r \in Request : Becomes(p, r)
    BY <1>1, <1>2, AnsweredRecord
  <2> QED BY <1>2, <2>1, <2>4, <2>6, <2>7, StoreStep
<1> QED BY <1>4, <1>5 DEF Stage

LEMMA RemoveStep ==
    ASSUME NEW p \in Requests, Inv, Remove(p)
    PROVE  Inv'
<1> DEFINE e == request[p].event
<1>1. TypeOK /\ Works(p) /\ request[p] \in Request /\ request[p].step = "remove"
  BY DEF Inv, TypeOK, Remove, At
<1>2. /\ request[p].op = "cancel" /\ request[p].event \in Events /\ e \in ended
      /\ (request[p].row => copy[e].at # 0)
  BY <1>1 DEF Works, AskedFor
<1>3. UNCHANGED <<google, clock, token, reviewed, written, ended>>
  BY DEF Remove
<1>4. GoogleGrows /\ written \subseteq written' /\ clock' \in Nat
      /\ google' \in [Events -> Version] /\ google' = google /\ ended' = ended /\ written' = written
  BY <1>1, <1>3, CalendarAssumption DEF GoogleGrows, TypeOK, Version
<1>5. CASE /\ request[p].row /\ copy' = [copy EXCEPT ![e].gone = TRUE] /\ Answer(p, "done")
           /\ behind' = IF ~google[e].gone /\ Covered(e) THEN behind \cup {e} ELSE behind
  <2>1. /\ request' \in [Requests -> Request]
        /\ \A q \in Requests \ {p} : request'[q] = request[q]
        /\ Works(p)'
    BY <1>2, <1>4, <1>5, AnsweredWorks
  <2>2. /\ copy' \in [Events -> Version] /\ copy'[e].at = copy[e].at /\ copy'[e].gone = TRUE
        /\ \A x \in Events \ {e} : copy'[x] = copy[x]
    BY <1>1, <1>2, <1>5 DEF TypeOK, Version
  <2>3. \A x \in Events : copy'[x].at = copy[x].at
    BY <2>2
  <2>4. TypeOK'
    BY <1>1, <1>2, <1>3, <1>5, <2>1, <2>2 DEF TypeOK
  <2>5. ReviewsStand'
    BY <1>1, <1>3, <2>3 DEF Inv, ReviewsStand, TypeOK, Reviews
  <2>6. Gone'
    BY <1>2, <1>3, <2>2 DEF Inv, Gone
  <2>7. Made' /\ MadeOnceAsReviewed'
    BY <1>3 DEF Inv, Made, MadeOnceAsReviewed
  <2>8. ASSUME NEW n, google[e].at <= n => Covered(e) PROVE StillShown(n)
    <3>1. ASSUME NEW x \in Events, ShownUpTo(x, n), google'[x].at <= n, x \notin behind', google'[x].at # 0
          PROVE  Shows(x)'
      <4>1. CASE x = e
        <5>1. google[e].gone
          BY <1>3, <1>5, <2>8, <3>1, <4>1
        <5> QED BY <1>2, <1>3, <2>2, <4>1, <5>1 DEF Shows, Live
      <4>2. CASE x # e
        BY <1>3, <1>5, <2>2, <3>1, <4>2 DEF ShownUpTo, Shows, Live
      <4> QED BY <4>1, <4>2
    <3> QED BY <3>1 DEF StillShown
  <2>9. CoveredIsShown'
    <3>1. StillShown(token) /\ token' = token
      BY <1>3, <2>8 DEF Covered
    <3> QED BY <3>1 DEF Inv, CoveredIsShown, StillShown, ShownUpTo
  <2>10. RowsStay
    BY <2>3 DEF RowsStay
  <2>11. ASSUME NEW q \in Requests \ {p} PROVE Works(q)'
    <3>1. Syncing(q) => StillShown(request[q].upto)
      BY <2>8 DEF Covered
    <3> QED BY <1>4, <2>1, <2>10, <2>11, <3>1, TheOthers
  <2> QED BY <2>1, <2>4, <2>5, <2>6, <2>7, <2>9, <2>11 DEF Inv
<1>6. CASE UNCHANGED <<copy, behind>> /\ Answer(p, "failed")
  <2>1. Quiet
    BY <1>3, <1>6 DEF Quiet
  <2> QED BY <1>6, <2>1, AnsweredQuietly
<1> QED BY <1>5, <1>6 DEF Remove, RowLeft

-----------------------------------------------------------------------------
(* The syncs. *)

LEMMA SyncStep ==
    ASSUME NEW p \in Requests, Inv, Sync(p)
    PROVE  Inv'
<1> DEFINE r == [Idle EXCEPT !.op = "sync", !.step = "list", !.upto = token]
<1>1. TypeOK /\ clock \in Nat /\ clock <= MaxChanges /\ token \in 0..clock
  BY ClockIsPositive DEF Inv, TypeOK
<1>2. r \in Request
  <2>1. Idle \in Request
    BY NothingSeen, CalendarAssumption DEF Idle, Request
  <2>2. token \in 0..MaxChanges
    BY <1>1, CalendarAssumption
  <2> QED BY <2>1, <2>2 DEF Request
<1>3. /\ r.op = "sync" /\ r.step = "list" /\ r.upto = token /\ r.row = FALSE
      /\ r.answer = "none" /\ r.seen = Idle.seen
  BY DEF Idle
<1>4. Becomes(p, r) /\ Quiet
  BY DEF Sync, Quiet
<1> HIDE DEF r
<1>5. request'[p] = r
  BY <1>1, <1>2, <1>4, OneTurn
<1>6. AskedFor(p)' /\ HasSeen(p)' /\ Told(p)'
  BY <1>3, <1>5, NothingSeen DEF AskedFor, HasSeen, Told
<1>7. WillShow(p)'
  <2>1. \A e \in Events : ShownUpTo(e, token)
    BY DEF Inv, CoveredIsShown
  <2>2. \A e \in Events : ShownUpTo(e, request[p].upto)'
    BY <1>3, <1>4, <1>5, <2>1 DEF ShownUpTo, Shows, Live, Quiet
  <2> QED BY <1>1, <1>3, <1>4, <1>5, <2>2 DEF WillShow, At, Syncing, Quiet
<1>8. Works(p)'
  BY <1>6, <1>7 DEF Works
<1> QED BY <1>2, <1>4, <1>8, QuietStep

LEMMA ExpiredStep ==
    ASSUME NEW p \in Requests, Inv, Expired(p)
    PROVE  Inv'
<1>1. TypeOK /\ request[p].step = "list" /\ UNCHANGED <<google, clock, written, ended>>
      /\ copy' = [e \in Events |-> [at |-> 0, gone |-> FALSE]] /\ token' = 0
      /\ reviewed' = {r \in reviewed : r.op = "create"}
  BY DEF Inv, Expired, At
<1>2. \A q \in Requests \ {p} : Syncing(q) =>
        \A e \in Events : google[e].at # 0 => e \in behind'
  BY DEF Expired
<1>3. ASSUME NEW q \in Requests
      PROVE  \E r \in Request :
               /\ request'[q] = r
               /\ r.step = request[q].step /\ r.op = request[q].op /\ r.event = request[q].event
               /\ r.etag = request[q].etag /\ r.row = FALSE /\ r.seen = request[q].seen
               /\ r.answer = request[q].answer
               /\ r.upto = IF q = p THEN 0 ELSE request[q].upto
  <2>1. request[q] \in Request /\ 0 \in 0..MaxChanges
    BY <1>1, CalendarAssumption DEF TypeOK
  <2>2. PICK upto \in 0..MaxChanges : upto = IF q = p THEN 0 ELSE request[q].upto
    BY <2>1 DEF Request
  <2>3. request'[q] = [request[q] EXCEPT !.row = FALSE, !.upto = upto]
    <3>1. CASE q = p
      BY <2>2, <3>1 DEF Expired
    <3>2. CASE q # p
      BY <2>1, <2>2, <3>2 DEF Expired, Request
    <3> QED BY <3>1, <3>2
  <2> DEFINE r == [request[q] EXCEPT !.row = FALSE, !.upto = upto]
  <2>4. r \in Request
    BY <2>1 DEF Request
  <2>5. /\ r.step = request[q].step /\ r.op = request[q].op /\ r.event = request[q].event
        /\ r.etag = request[q].etag /\ r.row = FALSE /\ r.seen = request[q].seen
        /\ r.answer = request[q].answer /\ r.upto = upto
    BY <2>1 DEF Request
  <2> HIDE DEF r
  <2>6. request'[q] = r
    BY <2>3 DEF r
  <2> QED BY <2>2, <2>4, <2>5, <2>6
<1>4. request' \in [Requests -> Request]
  <2>1. request' = [q \in Requests |-> request'[q]]
    BY Zenon DEF Expired
  <2>2. \A q \in Requests : request'[q] \in Request
    BY <1>3
  <2> QED BY <2>1, <2>2
<1>5. TypeOK'
  <2>1. [at |-> 0, gone |-> FALSE] \in Version
    BY CalendarAssumption DEF Version
  <2>2. copy' \in [Events -> Version]
    BY <1>1, <2>1
  <2>3. behind' \subseteq Events
    BY DEF Expired
  <2>4. \A e \in Events : google[e].at \in Nat
    BY <1>1, CalendarAssumption DEF TypeOK, Version
  <2>5. \A e \in Events : copy'[e].at = 0 /\ copy'[e].gone = FALSE
    BY <1>1
  <2>6. 0 \in 0..clock
    BY <1>1, CalendarAssumption DEF TypeOK
  <2> QED BY <1>1, <1>4, <2>2, <2>3, <2>4, <2>5, <2>6 DEF TypeOK
<1>6. ReviewsStand'
  BY <1>1 DEF Inv, ReviewsStand
<1>7. Gone'
  BY <1>1 DEF Inv, Gone
<1>8. Made' /\ MadeOnceAsReviewed'
  BY <1>1 DEF Inv, Made, MadeOnceAsReviewed
<1>9. ASSUME NEW e \in Events PROVE ShownUpTo(e, 0)'
  BY <1>1, <1>9, CalendarAssumption DEF ShownUpTo, TypeOK, Version
<1>10. CoveredIsShown'
  BY <1>1, <1>9 DEF CoveredIsShown, ShownUpTo
<1>11. ASSUME NEW q \in Requests PROVE Works(q)'
  <2>1. PICK r \in Request :
               /\ request'[q] = r
               /\ r.step = request[q].step /\ r.op = request[q].op /\ r.event = request[q].event
               /\ r.etag = request[q].etag /\ r.row = FALSE /\ r.seen = request[q].seen
               /\ r.answer = request[q].answer
               /\ r.upto = IF q = p THEN 0 ELSE request[q].upto
    BY <1>3
  <2>2. Works(q) /\ request[q] \in Request
    BY <1>1 DEF Inv, TypeOK
  <2>3. AskedFor(q)'
    BY <1>1, <2>1, <2>2 DEF Works, AskedFor
  <2>4. HasSeen(q)'
    BY <1>1, <2>1, <2>2 DEF Works, HasSeen
  <2>5. Review(q)' = Review(q)
    BY <2>1 DEF Review
  <2>6. Told(q)'
    BY <1>1, <2>1, <2>2, <2>5 DEF Works, Told
  <2>7. WillShow(q)'
    <3>1. CASE q = p
      <4>1. r.upto = 0 /\ r.step = "list" /\ r.op = "sync" /\ 0 <= clock
        BY <1>1, <2>1, <2>2, <3>1, CalendarAssumption DEF Works, WillShow, Syncing, TypeOK
      <4> QED BY <1>1, <1>9, <2>1, <4>1 DEF WillShow, At, Syncing, ShownUpTo
    <3>2. CASE q # p /\ Syncing(q)
      <4>1. \A e \in Events : ShownUpTo(e, r.upto)'
        BY <1>1, <1>2, <3>2 DEF ShownUpTo
      <4>2. \A e \in DOMAIN r.seen : r.step = "apply" /\ google[e].at <= r.upto => r.seen[e] = google[e]
        BY <2>1, <2>2, <3>2 DEF Works, WillShow, At
      <4>3. r.op = "sync" /\ r.upto <= clock
        BY <2>1, <2>2, <3>2 DEF Works, WillShow
      <4> QED BY <1>1, <2>1, <4>1, <4>2, <4>3 DEF WillShow, At, Syncing, ShownUpTo
    <3>3. CASE ~Syncing(q)
      BY <2>1, <3>3 DEF WillShow, At, Syncing
    <3> QED BY <3>1, <3>2, <3>3
  <2> QED BY <2>3, <2>4, <2>6, <2>7 DEF Works
<1> QED BY <1>5, <1>6, <1>7, <1>8, <1>10, <1>11 DEF Inv

LEMMA ListStep ==
    ASSUME NEW p \in Requests, Inv, List(p)
    PROVE  Inv'
<1> DEFINE seen == [e \in Listed(p) |-> google[e]]
           r == [request[p] EXCEPT !.step = "apply", !.seen = seen, !.upto = clock]
<1>1. TypeOK /\ Works(p) /\ request[p] \in Request /\ request[p].step = "list"
  BY DEF Inv, TypeOK, List, At
<1>2. /\ clock \in 0..MaxChanges /\ request[p].upto \in Nat
      /\ \A e \in Events : google[e].at \in Nat
  BY <1>1, ClockIsPositive, CalendarAssumption DEF TypeOK, Version, Request
<1>3. Listed(p) \in SUBSET Events /\ seen \in [Listed(p) -> Version]
  BY <1>1 DEF Listed, TypeOK
<1>4. seen \in UNION {[es -> Version] : es \in SUBSET Events}
  BY <1>3, VersionsAreSeen
<1>5. DOMAIN seen = Listed(p) /\ \A e \in Listed(p) : seen[e] = google[e]
  OBVIOUS
<1>6. Becomes(p, r) /\ Quiet
  BY DEF List, Quiet
<1> HIDE DEF seen
<1>7. r \in Request
  BY <1>1, <1>2, <1>4 DEF Request
<1>8. /\ r.op = request[p].op /\ r.event = request[p].event /\ r.etag = request[p].etag
      /\ r.step = "apply" /\ r.row = request[p].row /\ r.answer = request[p].answer
      /\ r.seen = seen /\ r.upto = clock
  BY <1>1 DEF Request
<1> HIDE DEF r
<1>9. request'[p] = r
  BY <1>1, <1>6, <1>7, OneTurn
<1>10. AskedFor(p)'
  BY <1>1, <1>6, <1>8, <1>9 DEF Works, AskedFor, Quiet
<1>11. HasSeen(p)'
  <2>1. \A e \in Listed(p) : /\ e \in Events /\ google[e].at \in 1..google[e].at
                             /\ google[e].gone => e \in ended
    BY <1>2 DEF Listed, Inv, Gone
  <2> QED BY <1>5, <1>6, <1>8, <1>9, <2>1 DEF HasSeen, Quiet
<1>12. Review(p)' = Review(p)
  BY <1>8, <1>9 DEF Review
<1>13. Told(p)'
  BY <1>1, <1>6, <1>8, <1>9, <1>12 DEF Works, Told, Quiet
<1>14. WillShow(p)'
  <2>1. ASSUME NEW e \in Events \ Listed(p) PROVE ShownUpTo(e, clock)'
    <3>1. ShownUpTo(e, request[p].upto)
      BY <1>1 DEF Works, WillShow, At
    <3>2. google[e].at <= request[p].upto
      BY <1>2, <2>1 DEF Listed
    <3> QED BY <1>6, <3>1, <3>2 DEF ShownUpTo, Shows, Live, Quiet
  <2>2. \A e \in Events \ DOMAIN r.seen : ShownUpTo(e, request[p].upto)'
    BY <1>5, <1>6, <1>8, <1>9, <2>1 DEF ShownUpTo, Quiet
  <2>3. r.op = "sync" /\ r.upto <= clock
    BY <1>1, <1>2, <1>8 DEF Works, WillShow, Syncing
  <2> QED BY <1>5, <1>6, <1>8, <1>9, <2>2, <2>3 DEF WillShow, At, Syncing, Quiet
<1>15. Works(p)'
  BY <1>10, <1>11, <1>13, <1>14 DEF Works
<1> QED BY <1>6, <1>7, <1>15, QuietStep

LEMMA ApplyStep ==
    ASSUME NEW p \in Requests, Inv, Apply(p)
    PROVE  Inv'
<1> DEFINE seen == request[p].seen
<1>1. TypeOK /\ Works(p) /\ request[p] \in Request /\ request[p].step = "apply"
  BY DEF Inv, TypeOK, Apply, At
<1>2. UNCHANGED <<google, clock, token, reviewed, written, ended>>
  BY DEF Apply
<1>3. PICK e \in DOMAIN seen :
        /\ IF seen[e].gone /\ copy[e].at = 0 THEN UNCHANGED <<copy, behind>> ELSE Store(e, seen[e])
        /\ Becomes(p, [request[p] EXCEPT !.seen = [x \in DOMAIN seen \ {e} |-> seen[x]]])
  BY DEF Apply
<1> DEFINE rest == [x \in DOMAIN seen \ {e} |-> seen[x]]
           r == [request[p] EXCEPT !.seen = rest]
<1>4. /\ DOMAIN seen \subseteq Events /\ \A x \in DOMAIN seen : seen[x] \in Version
      /\ e \in Events /\ seen[e] \in Version
  BY <1>1, SeenIsVersions
<1>5. DOMAIN seen \ {e} \in SUBSET Events /\ rest \in [DOMAIN seen \ {e} -> Version]
  BY <1>4
<1>6. rest \in UNION {[es -> Version] : es \in SUBSET Events}
  BY <1>5, VersionsAreSeen
<1>7. DOMAIN rest = DOMAIN seen \ {e} /\ \A x \in DOMAIN rest : rest[x] = seen[x]
  OBVIOUS
<1>8. Becomes(p, r)
  BY <1>3
<1> HIDE DEF rest
<1>9. r \in Request
  BY <1>1, <1>6 DEF Request
<1>10. /\ r.op = request[p].op /\ r.event = request[p].event /\ r.etag = request[p].etag
       /\ r.step = "apply" /\ r.row = request[p].row /\ r.answer = request[p].answer
       /\ r.seen = rest /\ r.upto = request[p].upto
  BY <1>1 DEF Request
<1> HIDE DEF r
<1>11. request'[p] = r
  BY <1>1, <1>8, <1>9, OneTurn
<1>12. seen[e].at \in 1..google[e].at /\ (seen[e].gone => e \in ended)
  BY <1>1 DEF Works, HasSeen
<1>13. /\ r.op = "sync" /\ r.upto <= clock
       /\ \A x \in Events \ DOMAIN seen : ShownUpTo(x, r.upto)
       /\ \A x \in DOMAIN seen : google[x].at <= r.upto => seen[x] = google[x]
  BY <1>1, <1>10 DEF Works, WillShow, Syncing, At
<1>14. HasSeen(p)'
  BY <1>1, <1>2, <1>7, <1>10, <1>11 DEF Works, HasSeen
<1>15. Review(p)' = Review(p)
  BY <1>10, <1>11 DEF Review
<1>16. Told(p)'
  BY <1>1, <1>2, <1>10, <1>11, <1>15 DEF Works, Told
<1>17. PICK upto \in 0..MaxChanges : upto = request[p].upto
  BY <1>1 DEF Request
<1>18. ASSUME RowsStay, StillShown(upto),
              google[e].at # 0 /\ google[e].at <= upto /\ e \notin behind' => Shows(e)'
       PROVE  Works(p)'
  <2>1. AskedFor(p)'
    BY <1>1, <1>2, <1>10, <1>11, <1>18 DEF Works, AskedFor, RowsStay
  <2>2. ASSUME NEW x \in Events \ DOMAIN rest PROVE ShownUpTo(x, upto)'
    <3>1. CASE x = e
      BY <1>2, <1>18, <3>1 DEF ShownUpTo
    <3>2. CASE x # e
      <4>1. ShownUpTo(x, upto)
        BY <1>7, <1>10, <1>13, <1>17, <2>2, <3>2
      <4> QED BY <1>2, <1>18, <2>2, <4>1 DEF StillShown, ShownUpTo
    <3> QED BY <3>1, <3>2
  <2>3. \A x \in Events \ DOMAIN r.seen : ShownUpTo(x, request[p].upto)'
    BY <1>10, <1>11, <1>17, <2>2 DEF ShownUpTo
  <2>4. WillShow(p)'
    BY <1>2, <1>7, <1>10, <1>11, <1>13, <2>3 DEF WillShow, At, Syncing
  <2> QED BY <1>14, <1>16, <2>1, <2>4 DEF Works
<1>19. CASE seen[e].gone /\ copy[e].at = 0
  <2>1. Quiet
    BY <1>2, <1>3, <1>19 DEF Quiet
  <2>2. RowsStay /\ StillShown(upto)
    BY <2>1 DEF RowsStay, StillShown, ShownUpTo, Shows, Live, Quiet
  <2>3. google[e].at <= upto => Shows(e)'
    BY <1>10, <1>13, <1>17, <1>19, <2>1 DEF Shows, Live, Quiet
  <2>4. Works(p)'
    BY <1>18, <2>2, <2>3
  <2> QED BY <1>8, <1>9, <2>1, <2>4, QuietStep
<1>20. CASE ~(seen[e].gone /\ copy[e].at = 0)
  <2>1. PICK row \in Version : row = seen[e]
    BY <1>4
  <2>2. Store(e, row) /\ row.at \in 1..google[e].at /\ (row.gone => e \in ended)
    BY <1>3, <1>12, <1>20, <2>1
  <2>3. /\ RowsStay
        /\ \A q \in Requests : Syncing(q) => StillShown(request[q].upto)
        /\ row = google[e] => Shows(e)'
    BY <1>2, <1>4, <2>2, AfterAStore
  <2>4. StillShown(upto)
    BY <1>1, <1>17, <2>3 DEF Syncing
  <2>5. google[e].at <= upto => Shows(e)'
    BY <1>10, <1>13, <1>17, <2>1, <2>3
  <2>6. Works(p)'
    BY <1>18, <2>3, <2>4, <2>5
  <2> QED BY <1>2, <1>4, <1>8, <1>9, <2>2, <2>6, StoreStep
<1> QED BY <1>19, <1>20

LEMMA SaveTokenStep ==
    ASSUME NEW p \in Requests, Inv, SaveToken(p)
    PROVE  Inv'
<1>1. TypeOK /\ Works(p) /\ request[p] \in Request /\ request[p].step = "apply"
      /\ request[p].seen = Idle.seen
  BY DEF Inv, TypeOK, SaveToken, At
<1>2. UNCHANGED <<google, clock, copy, reviewed, written, behind, ended>> /\ token' = request[p].upto
      /\ Answer(p, "done")
  BY DEF SaveToken
<1>3. /\ request[p].op = "sync" /\ request[p].upto \in 0..clock
      /\ \A e \in Events : ShownUpTo(e, request[p].upto)
  BY <1>1, NothingSeen, CalendarAssumption DEF Works, WillShow, Syncing, At, Request, TypeOK
<1>4. GoogleGrows /\ RowsStay /\ written \subseteq written' /\ clock' \in Nat
      /\ google' \in [Events -> Version]
  BY <1>1, <1>2, CalendarAssumption DEF GoogleGrows, RowsStay, TypeOK, Version
<1>5. /\ request' \in [Requests -> Request]
      /\ \A q \in Requests \ {p} : request'[q] = request[q]
      /\ Works(p)'
  BY <1>2, <1>3, <1>4, AnsweredWorks
<1>6. TypeOK'
  BY <1>1, <1>2, <1>3, <1>5 DEF TypeOK
<1>7. CoveredIsShown'
  BY <1>2, <1>3 DEF CoveredIsShown, ShownUpTo, Shows, Live
<1>8. ReviewsStand' /\ Gone' /\ Made' /\ MadeOnceAsReviewed'
  BY <1>2 DEF Inv, ReviewsStand, Gone, Made, MadeOnceAsReviewed
<1>9. ASSUME NEW n PROVE StillShown(n)
  BY <1>2 DEF StillShown, ShownUpTo, Shows, Live
<1>10. ASSUME NEW q \in Requests \ {p} PROVE Works(q)'
  BY <1>4, <1>5, <1>9, TheOthers
<1> QED BY <1>5, <1>6, <1>7, <1>8, <1>10 DEF Inv

LEMMA FailStep ==
    ASSUME NEW p \in Requests, Inv, Fail(p)
    PROVE  Inv'
<1>1. Quiet /\ Answer(p, "failed")
  BY DEF Fail, Quiet
<1> QED BY <1>1, AnsweredQuietly

-----------------------------------------------------------------------------
(* The whole. *)

LEMMA InvIsKept ==
    ASSUME Inv, [Next]_vars
    PROVE  Inv'
<1>1. ASSUME NEW e \in Events, NEW gone \in BOOLEAN, Elsewhere(e, gone) PROVE Inv'
  BY <1>1, ElsewhereStep
<1>2. ASSUME NEW e \in Ids, ReviewNew(e) PROVE Inv'
  BY <1>2, ReviewNewStep
<1>3. ASSUME NEW op \in {"move", "cancel"}, NEW e \in Events, ReviewChange(op, e) PROVE Inv'
  BY <1>3, ReviewChangeStep
<1>4. ASSUME NEW p \in Requests, Sync(p) PROVE Inv'
  BY <1>4, SyncStep
<1>5. ASSUME NEW p \in Requests, NEW review \in reviewed, Confirm(p, review) PROVE Inv'
  BY <1>5, ConfirmStep
<1>6. ASSUME NEW p \in Requests, Step(p) PROVE Inv'
  BY <1>6, InsertStep, FetchStep, LiveEventStep, WriteItselfStep, StageStep, RemoveStep,
     ExpiredStep, ListStep, ApplyStep, SaveTokenStep, FailStep DEF Step
<1>7. CASE UNCHANGED vars
  <2>1. TypeOK' /\ ReviewsStand' /\ Gone' /\ Made' /\ CoveredIsShown' /\ MadeOnceAsReviewed'
    BY <1>7 DEF Inv, TypeOK, ReviewsStand, Gone, Made, CoveredIsShown, MadeOnceAsReviewed,
                ShownUpTo, Shows, Live, vars
  <2>2. ASSUME NEW p \in Requests PROVE Works(p)'
    BY <1>7, <2>2 DEF Inv, Works, AskedFor, HasSeen, Told, WillShow, ShownUpTo, Shows, Live, At,
                Syncing, Review, vars
  <2> QED BY <2>1, <2>2 DEF Inv
<1> QED BY <1>1, <1>2, <1>3, <1>4, <1>5, <1>6, <1>7 DEF Next

LEMMA InvAlways == Spec => []Inv
BY InitInv, InvIsKept, PTL DEF Spec

LEMMA InvIsEnough == Inv => OnceAndAsReviewed /\ CopyKeepsUp
<1> SUFFICES ASSUME Inv PROVE OnceAndAsReviewed /\ CopyKeepsUp
  OBVIOUS
<1>1. ASSUME NEW p \in Requests
      PROVE  LET r == request[p] IN
             /\ r.answer = "refused" => google[r.event].at # r.etag
             /\ r.answer = "done" /\ r.op = "cancel" => r.event \in ended
             /\ r.answer = "done" /\ r.op \in {"create", "move"} =>
                  \E w \in written : w.review = Review(p)
  <2>1. Told(p) /\ AskedFor(p) /\ request[p] \in Request /\ TypeOK
    BY DEF Inv, Works, TypeOK
  <2>2. ASSUME request[p].answer = "refused"
        PROVE  google[request[p].event].at # request[p].etag
    <3>1. request[p].event \in Events /\ request[p].etag < google[request[p].event].at
      BY <2>1, <2>2 DEF Told, AskedFor
    <3>2. request[p].etag \in Nat /\ google[request[p].event].at \in Nat
      BY <2>1, <3>1, CalendarAssumption DEF TypeOK, Version, Request
    <3> QED BY <3>1, <3>2
  <2> QED BY <2>1, <2>2 DEF Told
<1>2. OnceAndAsReviewed
  BY <1>1 DEF OnceAndAsReviewed, ToldAsItWas, Inv
<1>3. CopyKeepsUp
  BY DEF CopyKeepsUp, Inv, CoveredIsShown, ShownUpTo, Shows
<1> QED BY <1>2, <1>3

\* The copy of the calendar and the token of its sync know no version that Google has
\* not made, whatever overlaps (externalCalendarEvent, eventSyncToken).
THEOREM CopyTypeCorrect == Spec => []TypeOK
BY InvAlways, PTL DEF Inv

\* createCalendarEvent, moveCalendarEvent and cancelCalendarEvent: however often a yes is
\* repeated and its answer lost, a review makes one change, to the version it showed, and
\* what the yes is told is true and stays true.
THEOREM AYesIsOneChange == Spec => []OnceAndAsReviewed
BY InvAlways, InvIsEnough, PTL

\* syncGoogleCalendar and stage: an event that changes no more is shown by the copy as it
\* is once the token covers its last change, for any number of overlapping syncs, calls
\* and expired tokens, unless its row has fallen behind as CopyKeepsUp says.
THEOREM TheCopyKeepsUp == Spec => []CopyKeepsUp
BY InvAlways, InvIsEnough, PTL
=============================================================================
