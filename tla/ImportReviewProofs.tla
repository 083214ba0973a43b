------------------------- MODULE ImportReviewProofs -------------------------
(***************************************************************************)
(* Proofs about ImportReview, for any finite sets of rows and reports, any   *)
(* exercises, requests and bounds, where only classifications, ignores and   *)
(* commits overlap one another: the import lock makes them one at a time, so *)
(* a plan still holds when it is written.  First ReviewInv: what the user    *)
(* made of a row stands, the rows and their copies agree, a commit leaves    *)
(* alone every copy a person touched.  On top of it BooksInv: the stored     *)
(* counts are those of the rows as they were last recounted, the position is *)
(* the sum of what made it, and an acceptance reaches B3's figure.           *)
(* Without the assumption a settled subscription is undone (MCReviewOffer)   *)
(* and a difference is posted twice (MCReviewAccept).                        *)
(***************************************************************************)
EXTENDS ImportReview, Sums, TLAPS

LockedOverlaps == \A S \in Overlaps : S \subseteq {"answer", "commit"}

-----------------------------------------------------------------------------
(* The inductive invariant *)

Shaped ==
    /\ row \in [Rows -> ImportRow]
    /\ copy \in [Rows -> Copy]
    /\ answer \in [Rows -> {"none", "classified", "ignored"}]
    /\ DOMAIN req = Requests

\* At most one request runs, and one that answers or commits holds the lock.
OneRuns ==
    /\ \A p, q \in Requests : req[p] # Idle /\ req[q] # Idle => p = q
    /\ \A p \in Requests : KindOf(req[p].op) \in {"answer", "commit"} => lock = p

\* What a request read: the rows it is about, and for a commit a plan that
\* takes over only copies no person has touched and keys that have none.
Planned(r) ==
    /\ r.op \in {"idle", "classify", "restore", "create", "ignore", "keep", "resolve",
                 "commit", "accept"}
    /\ r.op = "idle" => r = Idle
    /\ r.op \in {"classify", "restore", "create"} => r.row \in Rows /\ r.type \in Types
    /\ r.op = "ignore" => r.row \in Rows
    /\ r.op \in {"keep", "resolve"} => r.row \in Exercises
    /\ r.op = "commit" =>
         /\ r.act \subseteq Rows /\ r.sup \subseteq Rows /\ r.app \subseteq Rows
         /\ r.act \cap r.sup = {}
         /\ \A x \in r.act \cup r.app : r.reading[x] \in Types
         /\ \A x \in r.act \cup r.sup : Activatable(x)
         /\ \A x \in r.app : copy[x].status = "none"

Plans == \A p \in Requests : Planned(req[p])

\* Only a person's touch makes an answer, and only a stored copy has one.
Touched ==
    \A x \in Rows :
        /\ answer[x] # "none" => copy[x].modified
        /\ copy[x].status = "none" => ~copy[x].modified

ReviewInv == Shaped /\ OneRuns /\ Plans /\ Touched /\ AnswersStand /\ RowsAgree

-----------------------------------------------------------------------------
\* The import lock and the overlaps together let a request begin only alone.
LEMMA BeginsAlone ==
    ASSUME LockedOverlaps, ReviewInv, NEW kind, May(kind),
           kind \in {"answer", "commit"} => lock = Free
    PROVE  \A q \in Requests : req[q] = Idle
<1> SUFFICES ASSUME NEW q \in Requests, req[q] # Idle
             PROVE  FALSE
  OBVIOUS
<1>1. q \in Busy
  BY DEF Busy
<1>2. PICK S \in Overlaps : {kind} \cup {KindOf(req[u].op) : u \in Busy} \subseteq S
  BY <1>1 DEF May
<1>3. S \subseteq {"answer", "commit"}
  BY DEF LockedOverlaps
<1>4. kind \in {"answer", "commit"} /\ KindOf(req[q].op) \in {"answer", "commit"}
  BY <1>1, <1>2, <1>3
<1>5. lock = q
  BY <1>4 DEF ReviewInv, OneRuns
<1> QED
  BY <1>4, <1>5, BoundsAssumption

\* What a request begins with keeps the invariant, if its plan is sound.
LEMMA BeginKeeps ==
    ASSUME LockedOverlaps, ReviewInv, NEW p \in Requests, NEW r, Begin(p, r), Planned(r),
           r.op # "idle",
           \/ KindOf(r.op) \in {"answer", "commit"} /\ Locking(p)
           \/ KindOf(r.op) \notin {"answer", "commit"} /\ UNCHANGED lock
    PROVE  ReviewInv'
<1>1. \A q \in Requests : req[q] = Idle
  <2>1. KindOf(r.op) \in {"answer", "commit"} => lock = Free
    BY DEF Locking
  <2>2. May(KindOf(r.op))
    BY DEF Begin
  <2> QED
    BY <2>1, <2>2, BeginsAlone
<1>2. /\ UNCHANGED <<row, copy, answer>>
      /\ req' = [req EXCEPT ![p] = r]
  BY DEF Begin, batch, history
<1>3. Shaped' /\ Touched' /\ AnswersStand' /\ RowsAgree'
  BY <1>2 DEF ReviewInv, Shaped, Touched, AnswersStand, RowsAgree
<1>4. \A q \in Requests : req'[q] = IF q = p THEN r ELSE Idle
  BY <1>1, <1>2 DEF ReviewInv, Shaped
<1>5. Plans'
  <2> SUFFICES ASSUME NEW q \in Requests
               PROVE  Planned(req[q])'
    BY DEF Plans
  <2>1. CASE q = p
    BY <2>1, <1>2, <1>4 DEF Planned, Activatable
  <2>2. CASE q # p
    BY <2>2, <1>4 DEF Planned, Idle
  <2> QED
    BY <2>1, <2>2
<1>6. KindOf(Idle.op) \notin {"answer", "commit"}
  BY DEF KindOf, Idle
<1>7. OneRuns'
  <2>1. \A q \in Requests : KindOf(req'[q].op) \in {"answer", "commit"} =>
                              q = p /\ KindOf(r.op) \in {"answer", "commit"}
    BY <1>4, <1>6
  <2>2. KindOf(r.op) \in {"answer", "commit"} => lock' = p
    BY DEF Locking
  <2> QED
    BY <1>4, <2>1, <2>2 DEF OneRuns, KindOf
<1> QED
  BY <1>3, <1>5, <1>7 DEF ReviewInv

\* When a request ends no other runs: nothing planned is left.
LEMMA EndKeeps ==
    ASSUME ReviewInv, NEW p \in Requests, req[p] # Idle, End(p)
    PROVE  /\ \A q \in Requests : req'[q] = Idle
           /\ OneRuns' /\ Plans' /\ (DOMAIN req = Requests)'
<1>1. \A q \in Requests : req'[q] = Idle
  BY DEF End, ReviewInv, OneRuns, Shaped
<1>2. KindOf(Idle.op) \notin {"answer", "commit"}
  BY DEF KindOf, Idle
<1>3. OneRuns'
  BY <1>1, <1>2 DEF OneRuns, KindOf
<1>4. Plans'
  BY <1>1 DEF Plans, Planned, Idle
<1>5. (DOMAIN req = Requests)'
  BY DEF End, ReviewInv, Shaped
<1> QED
  BY <1>1, <1>3, <1>4, <1>5

\* While nothing runs every plan is idle, whatever becomes of the rows.
LEMMA IdleKeeps ==
    ASSUME ReviewInv, \A q \in Requests : req[q] = Idle, UNCHANGED <<req, lock>>
    PROVE  OneRuns' /\ Plans' /\ (DOMAIN req = Requests)'
<1>1. \A q \in Requests : req'[q] = Idle
  OBVIOUS
<1>2. OneRuns'
  BY DEF OneRuns, ReviewInv, KindOf
<1>3. Plans'
  BY <1>1 DEF Plans, Planned, Idle
<1> QED
  BY <1>2, <1>3 DEF ReviewInv, Shaped

\* A refused request changes no row.
LEMMA RefuseKeeps ==
    ASSUME ReviewInv, NEW p \in Requests, req[p] # Idle, Refuse(p)
    PROVE  ReviewInv'
<1>1. OneRuns' /\ Plans' /\ (DOMAIN req = Requests)'
  BY EndKeeps DEF Refuse
<1>2. UNCHANGED <<row, copy, answer>>
  BY DEF Refuse, batch, history
<1> QED
  BY <1>1, <1>2 DEF ReviewInv, Shaped, Touched, AnswersStand, RowsAgree
-----------------------------------------------------------------------------
(* The requests read *)

LEMMA ReadsKeep ==
    ASSUME LockedOverlaps, ReviewInv, NEW p \in Requests
    PROVE  /\ \A x \in Rows, t \in Types : ClassifyRead(p, x, t) => ReviewInv'
           /\ \A x \in Rows : IgnoreRead(p, x) => ReviewInv'
           /\ \A x \in Exercises : OfferRead(p, x) => ReviewInv'
           /\ \A b \in Reports : AcceptRead(p, b) => ReviewInv'
<1>1. ASSUME NEW x \in Rows, NEW t \in Types, ClassifyRead(p, x, t)
      PROVE  ReviewInv'
  <2>1. PICK op \in {"classify", "restore", "create"} :
          Begin(p, [op |-> op, row |-> x, type |-> t])
    BY <1>1 DEF ClassifyRead
  <2> DEFINE r == [op |-> op, row |-> x, type |-> t]
  <2>2. Planned(r)
    BY DEF Planned
  <2>3. KindOf(r.op) \in {"answer", "commit"} /\ Locking(p) /\ r.op # "idle"
    BY <1>1 DEF ClassifyRead, KindOf
  <2> QED
    BY <2>1, <2>2, <2>3, BeginKeeps
<1>2. ASSUME NEW x \in Rows, IgnoreRead(p, x)
      PROVE  ReviewInv'
  <2> DEFINE r == [op |-> "ignore", row |-> x]
  <2>1. Planned(r)
    BY DEF Planned
  <2>2. KindOf(r.op) \in {"answer", "commit"} /\ Locking(p) /\ r.op # "idle"
    BY <1>2 DEF IgnoreRead, KindOf
  <2>3. Begin(p, r)
    BY <1>2 DEF IgnoreRead
  <2> QED
    BY <2>1, <2>2, <2>3, BeginKeeps
<1>3. ASSUME NEW x \in Exercises, OfferRead(p, x)
      PROVE  ReviewInv'
  <2>1. PICK op \in {"keep", "resolve"} : Begin(p, [op |-> op, row |-> x])
    BY <1>3 DEF OfferRead
  <2> DEFINE r == [op |-> op, row |-> x]
  <2>2. Planned(r)
    BY DEF Planned
  <2>3. KindOf(r.op) \notin {"answer", "commit"} /\ (UNCHANGED lock) /\ r.op # "idle"
    BY <1>3 DEF OfferRead, KindOf
  <2> QED
    BY <2>1, <2>2, <2>3, BeginKeeps
<1>4. ASSUME NEW b \in Reports, AcceptRead(p, b)
      PROVE  ReviewInv'
  <2> DEFINE r == [op |-> "accept", report |-> b]
  <2>1. Planned(r)
    BY DEF Planned
  <2>2. KindOf(r.op) \notin {"answer", "commit"} /\ (UNCHANGED lock) /\ r.op # "idle"
    BY <1>4 DEF AcceptRead, KindOf
  <2>3. Begin(p, r)
    BY <1>4 DEF AcceptRead
  <2> QED
    BY <2>1, <2>2, <2>3, BeginKeeps
<1> QED
  BY <1>1, <1>2, <1>3, <1>4

LEMMA CommitReadKeeps ==
    ASSUME LockedOverlaps, ReviewInv, NEW p \in Requests, NEW reading \in [Rows -> Readings],
           CommitRead(p, reading)
    PROVE  ReviewInv'
<1> DEFINE moves == Read(reading, {"in", "out"})
           act == {x \in moves : Activatable(x)}
           new == {x \in moves : copy[x].status = "none"}
           acts == IF Replays(Applying(reading, act, new)) THEN act ELSE {}
           app == IF Replays(Applying(reading, acts, new)) THEN new
                  ELSE {x \in new : reading[x] = "in"}
           sup == {x \in Read(reading, {"ignore"}) : Activatable(x)}
           r == [op |-> "commit", reading |-> reading, act |-> acts, app |-> app, sup |-> sup]
<1>1. acts \subseteq act /\ app \subseteq new
  OBVIOUS
<1>2. Begin(p, r) /\ Locking(p)
  BY DEF CommitRead
<1> HIDE DEF acts, app
<1>3. Planned(r)
  BY <1>1 DEF Planned, Read, Types
<1>4. KindOf(r.op) \in {"answer", "commit"} /\ r.op # "idle"
  BY DEF KindOf
<1> QED
  BY <1>2, <1>3, <1>4, BeginKeeps

-----------------------------------------------------------------------------
(* The requests write *)

LEMMA ClassifyWriteKeeps ==
    ASSUME ReviewInv, NEW p \in Requests, ClassifyWrite(p)
    PROVE  ReviewInv'
<1>1. req[p] # Idle
  BY DEF ClassifyWrite, Idle
<1>2. CASE Refuse(p)
  BY <1>1, <1>2, RefuseKeeps
<1>3. CASE ~Refuse(p)
  <2> DEFINE x == req[p].row
             t == req[p].type
  <2>1. x \in Rows /\ t \in Types
    BY DEF ClassifyWrite, ReviewInv, Plans, Planned
  <2>2. /\ copy' = [copy EXCEPT ![x] = [status |-> "active", type |-> t, modified |-> TRUE]]
        /\ row' = [[row EXCEPT ![x].class = "new", ![x].reason = FALSE] EXCEPT ![x].copied = TRUE]
        /\ answer' = [answer EXCEPT ![x] = "classified"]
        /\ End(p)
    BY <1>3 DEF ClassifyWrite, Classified, Reclassified
  <2>3. OneRuns' /\ Plans' /\ (DOMAIN req = Requests)'
    BY <1>1, <2>2, EndKeeps
  <2> HIDE DEF x, t
  <2>4. Shaped'
    <3>1. copy' \in [Rows -> Copy]
      BY <2>1, <2>2 DEF ReviewInv, Shaped, Copy, CopyStatuses
    <3>2. row' \in [Rows -> ImportRow]
      BY <2>1, <2>2, ZenonT(60) DEF ReviewInv, Shaped, ImportRow, Classes
    <3>3. answer' \in [Rows -> {"none", "classified", "ignored"}]
      BY <2>1, <2>2 DEF ReviewInv, Shaped
    <3> QED
      BY <2>3, <3>1, <3>2, <3>3 DEF Shaped
  <2>5. \A y \in Rows : y # x => copy'[y] = copy[y] /\ row'[y] = row[y] /\ answer'[y] = answer[y]
    BY <2>2 DEF ReviewInv, Shaped
  <2>6. /\ copy'[x].status = "active" /\ copy'[x].modified
        /\ row'[x].class = "new" /\ answer'[x] = "classified"
    BY <2>1, <2>2 DEF ReviewInv, Shaped, ImportRow
  <2>7. Touched' /\ AnswersStand' /\ RowsAgree'
    BY <2>5, <2>6 DEF ReviewInv, Touched, AnswersStand, RowsAgree
  <2> QED
    BY <2>3, <2>4, <2>7 DEF ReviewInv
<1> QED
  BY <1>2, <1>3

LEMMA IgnoreWriteKeeps ==
    ASSUME ReviewInv, NEW p \in Requests, IgnoreWrite(p)
    PROVE  ReviewInv'
<1>1. req[p] # Idle
  BY DEF IgnoreWrite, Idle
<1>2. CASE Refuse(p)
  BY <1>1, <1>2, RefuseKeeps
<1>3. CASE ~Refuse(p)
  <2> DEFINE x == req[p].row
  <2>1. x \in Rows
    BY DEF IgnoreWrite, ReviewInv, Plans, Planned
  <2>2. /\ copy' = [copy EXCEPT ![x].status = "superseded", ![x].modified = TRUE]
        /\ row' = [row EXCEPT ![x].class = "ignored", ![x].reason = TRUE]
        /\ answer' = [answer EXCEPT ![x] = "ignored"]
        /\ End(p)
    BY <1>3 DEF IgnoreWrite
  <2>3. OneRuns' /\ Plans' /\ (DOMAIN req = Requests)'
    BY <1>1, <2>2, EndKeeps
  <2> HIDE DEF x
  <2>4. Shaped'
    <3>1. copy' \in [Rows -> Copy]
      BY <2>1, <2>2 DEF ReviewInv, Shaped, Copy, CopyStatuses
    <3>2. row' \in [Rows -> ImportRow]
      BY <2>1, <2>2 DEF ReviewInv, Shaped, ImportRow, Classes
    <3>3. answer' \in [Rows -> {"none", "classified", "ignored"}]
      BY <2>1, <2>2 DEF ReviewInv, Shaped
    <3> QED
      BY <2>3, <3>1, <3>2, <3>3 DEF Shaped
  <2>5. \A y \in Rows : y # x => copy'[y] = copy[y] /\ row'[y] = row[y] /\ answer'[y] = answer[y]
    BY <2>2 DEF ReviewInv, Shaped
  <2>6. /\ copy'[x].status = "superseded" /\ copy'[x].modified
        /\ row'[x].class = "ignored" /\ answer'[x] = "ignored"
    BY <2>1, <2>2 DEF ReviewInv, Shaped, ImportRow, Copy
  <2>7. Touched' /\ AnswersStand' /\ RowsAgree'
    BY <2>5, <2>6 DEF ReviewInv, Touched, AnswersStand, RowsAgree
  <2> QED
    BY <2>3, <2>4, <2>7 DEF ReviewInv
<1> QED
  BY <1>2, <1>3

\* The credit of a settled subscription changes type, never status.
LEMMA OfferWriteKeeps ==
    ASSUME ReviewInv, NEW p \in Requests, OfferWrite(p)
    PROVE  ReviewInv'
<1>1. req[p] # Idle
  <2>1. req[p].op \in {"keep", "resolve"}
    BY DEF OfferWrite
  <2> QED
    BY <2>1 DEF Idle
<1>2. CASE Refuse(p)
  BY <1>1, <1>2, RefuseKeeps
<1>3. CASE ~Refuse(p)
  <2> DEFINE x == req[p].row
             c == Credit[x]
             spent == [copy EXCEPT ![x].status = "superseded", ![x].modified = TRUE]
             settled == IF req[p].op = "keep" THEN spent
                        ELSE [spent EXCEPT ![c].type = "in", ![c].modified = TRUE]
  <2>1. x \in Exercises
    BY DEF OfferWrite, ReviewInv, Plans, Planned
  <2>2. x \in Rows /\ c \in Rows /\ c # x
    BY <2>1, RowsAssumption
  <2>3. /\ copy' = settled
        /\ row' = [row EXCEPT ![x].class = "ignored", ![x].reason = FALSE]
        /\ answer' = [answer EXCEPT ![x] = "ignored"]
        /\ req[p].op # "keep" => copy[c].status # "none"
        /\ End(p)
    BY <1>3 DEF OfferWrite, Reclassified
  <2>4. OneRuns' /\ Plans' /\ (DOMAIN req = Requests)'
    BY <1>1, <2>3, EndKeeps
  <2> HIDE DEF x, c
  <2>5. spent \in [Rows -> Copy]
    BY <2>2 DEF ReviewInv, Shaped, Copy, CopyStatuses
  <2>6. Shaped'
    <3>1. copy' \in [Rows -> Copy]
      <4> HIDE DEF spent
      <4>1. [spent EXCEPT ![c].type = "in", ![c].modified = TRUE] \in [Rows -> Copy]
        BY <2>2, <2>5 DEF Copy, Types
      <4> QED
        BY <2>3, <2>5, <4>1
    <3>2. row' \in [Rows -> ImportRow]
      BY <2>2, <2>3 DEF ReviewInv, Shaped, ImportRow, Classes
    <3>3. answer' \in [Rows -> {"none", "classified", "ignored"}]
      BY <2>2, <2>3 DEF ReviewInv, Shaped
    <3> QED
      BY <2>4, <3>1, <3>2, <3>3 DEF Shaped
  <2>7. \A y \in Rows : y # x => /\ row'[y] = row[y] /\ answer'[y] = answer[y]
                                 /\ copy'[y].status = copy[y].status
                                 /\ copy[y].modified => copy'[y].modified
                                 /\ copy[y].status = "none" => copy'[y] = copy[y]
    BY <2>2, <2>3 DEF ReviewInv, Shaped, Copy
  <2>8. /\ copy'[x].status = "superseded" /\ copy'[x].modified
        /\ row'[x].class = "ignored" /\ answer'[x] = "ignored"
    BY <2>2, <2>3 DEF ReviewInv, Shaped, ImportRow, Copy
  <2>9. Touched' /\ AnswersStand' /\ RowsAgree'
    BY <2>7, <2>8 DEF ReviewInv, Touched, AnswersStand, RowsAgree
  <2> QED
    BY <2>4, <2>6, <2>9 DEF ReviewInv
<1> QED
  BY <1>2, <1>3

\* What a commit makes of each copy and each row: of a copy no person touched
\* and its open row together, of a key without a copy and its refusal, and of
\* nothing else.
LEMMA CommitWritesPlan ==
    ASSUME ReviewInv, NEW p \in Requests, CommitWrite(p), ~Refuse(p), NEW x \in Rows
    PROVE  /\ x \in req[p].act =>
                /\ Activatable(x)
                /\ copy'[x].status = "active"
                /\ row'[x] = IF Pending(x) THEN [row[x] EXCEPT !.class = "new"] ELSE row[x]
           /\ x \in req[p].sup =>
                /\ Activatable(x)
                /\ copy'[x].status = "superseded" /\ ~copy'[x].modified
                /\ row'[x] = IF Pending(x) THEN [row[x] EXCEPT !.class = "ignored"] ELSE row[x]
           /\ x \in req[p].app =>
                /\ copy[x].status = "none"
                /\ copy'[x].status = "active"
                /\ row'[x] = IF row[x].class = "invalid"
                             THEN [row[x] EXCEPT !.class = "duplicate"] ELSE row[x]
           /\ x \notin req[p].act \cup req[p].sup \cup req[p].app =>
                copy'[x] = copy[x] /\ row'[x] = row[x]
           /\ copy'[x] \in Copy
<1> DEFINE act == req[p].act
           sup == req[p].sup
           app == req[p].app
           reading == req[p].reading
<1>1. /\ act \cap sup = {}
      /\ \A y \in act \cup app : reading[y] \in Types
      /\ \A y \in act \cup sup : Activatable(y)
      /\ \A y \in app : copy[y].status = "none"
  BY DEF CommitWrite, ReviewInv, Plans, Planned
<1>2. copy[x] \in Copy /\ row[x] \in ImportRow
  BY DEF ReviewInv, Shaped
<1>3. copy'[x] = IF x \in sup /\ copy[x].status # "none"
                 THEN [copy[x] EXCEPT !.status = "superseded", !.modified = FALSE]
                 ELSE IF x \in act THEN [copy[x] EXCEPT !.status = "active", !.type = reading[x]]
                 ELSE IF x \in app
                      THEN [status |-> "active", type |-> reading[x], modified |-> FALSE]
                 ELSE copy[x]
  BY DEF CommitWrite, Applying
<1>4. row'[x] = IF x \in act \cup sup /\ Pending(x)
                THEN IF x \in act THEN [row[x] EXCEPT !.class = "new"]
                     ELSE [row[x] EXCEPT !.class = "ignored"]
                ELSE IF x \in app /\ row[x].class = "invalid"
                     THEN [row[x] EXCEPT !.class = "duplicate"]
                ELSE row[x]
  BY DEF CommitWrite, Origins, Refusals
<1> HIDE DEF act, sup, app, reading
<1>5. x \in act \cup sup => copy[x].status = "unclassified" /\ ~copy[x].modified
  BY <1>1 DEF Activatable
<1>6. copy'[x] \in Copy
  <2>1. x \in act \cup app => reading[x] \in Types
    BY <1>1
  <2>2. [copy[x] EXCEPT !.status = "superseded", !.modified = FALSE] \in Copy
    BY <1>2 DEF Copy, CopyStatuses
  <2>3. x \in act => [copy[x] EXCEPT !.status = "active", !.type = reading[x]] \in Copy
    BY <1>2, <2>1 DEF Copy, CopyStatuses
  <2>4. x \in app => [status |-> "active", type |-> reading[x], modified |-> FALSE] \in Copy
    BY <2>1 DEF Copy, CopyStatuses
  <2> QED
    BY <1>2, <1>3, <2>2, <2>3, <2>4
<1>7. ASSUME x \in act
      PROVE  /\ copy'[x].status = "active"
             /\ row'[x] = IF Pending(x) THEN [row[x] EXCEPT !.class = "new"] ELSE row[x]
  BY <1>1, <1>2, <1>3, <1>4, <1>5, <1>7 DEF Copy
<1>8. ASSUME x \in sup
      PROVE  /\ copy'[x].status = "superseded" /\ ~copy'[x].modified
             /\ row'[x] = IF Pending(x) THEN [row[x] EXCEPT !.class = "ignored"] ELSE row[x]
  BY <1>1, <1>2, <1>3, <1>4, <1>5, <1>8 DEF Copy
<1>9. ASSUME x \in app
      PROVE  /\ copy'[x].status = "active"
             /\ row'[x] = IF row[x].class = "invalid"
                          THEN [row[x] EXCEPT !.class = "duplicate"] ELSE row[x]
  BY <1>1, <1>3, <1>4, <1>5, <1>9
<1> QED
  BY <1>1, <1>3, <1>4, <1>6, <1>7, <1>8, <1>9 DEF act, sup, app

LEMMA CommitWriteKeeps ==
    ASSUME ReviewInv, NEW p \in Requests, CommitWrite(p)
    PROVE  ReviewInv'
<1>1. req[p] # Idle
  <2>1. req[p].op = "commit"
    BY DEF CommitWrite
  <2> QED
    BY <2>1 DEF Idle
<1>2. CASE Refuse(p)
  BY <1>1, <1>2, RefuseKeeps
<1>3. CASE ~Refuse(p)
  <2>1. End(p) /\ answer' = answer
    BY <1>3 DEF CommitWrite
  <2>2. OneRuns' /\ Plans' /\ (DOMAIN req = Requests)'
    BY <1>1, <2>1, EndKeeps
  <2>3. \A x \in Rows : row'[x] \in ImportRow /\ copy'[x] \in Copy
    <3> SUFFICES ASSUME NEW x \in Rows
                 PROVE  row'[x] \in ImportRow /\ copy'[x] \in Copy
      OBVIOUS
    <3>1. row[x] \in ImportRow
      BY DEF ReviewInv, Shaped
    <3>2. \A class \in Classes : [row[x] EXCEPT !.class = class] \in ImportRow
      BY <3>1 DEF ImportRow
    <3>3. {"new", "ignored", "duplicate"} \subseteq Classes
      BY DEF Classes
    <3> QED
      BY <1>3, <3>1, <3>2, <3>3, CommitWritesPlan
  <2>4. Shaped'
    <3>1. copy' = [x \in Rows |-> copy'[x]] /\ row' = [x \in Rows |-> row'[x]]
      BY <1>3 DEF CommitWrite
    <3> QED
      BY <2>1, <2>2, <2>3, <3>1 DEF ReviewInv, Shaped
  <2>5. ASSUME NEW x \in Rows
        PROVE  /\ answer[x] # "none" => copy'[x].modified
               /\ copy'[x].status = "none" => ~copy'[x].modified
               /\ answer[x] = "classified" => copy'[x].status = "active" /\ row'[x].class = "new"
               /\ answer[x] = "ignored" => copy'[x].status = "superseded" /\ row'[x].class = "ignored"
               /\ row'[x].copied =>
                    <<row'[x].class, copy'[x].status>> \in
                       {<<"unclassified", "unclassified">>, <<"new", "active">>,
                        <<"ignored", "superseded">>}
               /\ row'[x].class = "invalid" => copy'[x].status = "none"
    <3>1. row[x] \in ImportRow /\ copy[x] \in Copy
      BY DEF ReviewInv, Shaped
    <3>2. /\ answer[x] # "none" => copy[x].modified
          /\ copy[x].status = "none" => ~copy[x].modified
      BY DEF ReviewInv, Touched
    <3>3. /\ answer[x] = "classified" => copy[x].status = "active" /\ row[x].class = "new"
          /\ answer[x] = "ignored" => copy[x].status = "superseded" /\ row[x].class = "ignored"
      BY DEF ReviewInv, AnswersStand
    <3>4. /\ row[x].copied =>
               \/ row[x].class = "unclassified" /\ copy[x].status = "unclassified"
               \/ row[x].class = "new" /\ copy[x].status = "active"
               \/ row[x].class = "ignored" /\ copy[x].status = "superseded"
          /\ row[x].class = "invalid" => copy[x].status = "none"
      BY DEF ReviewInv, RowsAgree
    <3>5. CASE x \in req[p].act
      BY <1>3, <3>1, <3>2, <3>4, <3>5, CommitWritesPlan, ZenonT(60) DEF Activatable, Pending, ImportRow
    <3>6. CASE x \in req[p].sup
      BY <1>3, <3>1, <3>2, <3>4, <3>6, CommitWritesPlan, ZenonT(60) DEF Activatable, Pending, ImportRow
    <3>7. CASE x \in req[p].app
      BY <1>3, <3>1, <3>2, <3>4, <3>7, CommitWritesPlan, ZenonT(60) DEF ImportRow
    <3>8. CASE x \notin req[p].act \cup req[p].sup \cup req[p].app
      BY <1>3, <3>2, <3>3, <3>4, <3>8, CommitWritesPlan
    <3> QED
      BY <3>5, <3>6, <3>7, <3>8
  <2>6. Touched' /\ AnswersStand' /\ RowsAgree'
    BY <2>1, <2>5 DEF Touched, AnswersStand, RowsAgree
  <2> QED
    BY <2>2, <2>4, <2>6 DEF ReviewInv
<1> QED
  BY <1>2, <1>3

LEMMA AcceptWriteKeeps ==
    ASSUME ReviewInv, NEW p \in Requests, AcceptWrite(p)
    PROVE  ReviewInv'
<1>1. req[p] # Idle
  BY DEF AcceptWrite, Idle
<1>2. CASE Refuse(p)
  BY <1>1, <1>2, RefuseKeeps
<1>3. CASE ~Refuse(p)
  <2>1. End(p) /\ UNCHANGED <<row, copy, answer>>
    BY <1>3 DEF AcceptWrite, batch, history
  <2>2. OneRuns' /\ Plans' /\ (DOMAIN req = Requests)'
    BY <1>1, <2>1, EndKeeps
  <2> QED
    BY <2>1, <2>2 DEF ReviewInv, Shaped, Touched, AnswersStand, RowsAgree
<1> QED
  BY <1>2, <1>3

-----------------------------------------------------------------------------
(* The ledger's own pages and the reports run while no request does. *)

LEMMA PagesRunAlone ==
    ASSUME LockedOverlaps, ReviewInv, NEW kind \in {"ledger", "report"}, May(kind),
           UNCHANGED <<req, lock>>
    PROVE  OneRuns' /\ Plans' /\ (DOMAIN req = Requests)'
BY BeginsAlone, IdleKeeps

LEMMA DeleteCopyKeeps ==
    ASSUME LockedOverlaps, ReviewInv, NEW x \in Rows, DeleteCopy(x)
    PROVE  ReviewInv'
<1>1. OneRuns' /\ Plans' /\ (DOMAIN req = Requests)'
  BY PagesRunAlone DEF DeleteCopy, LedgerRequest
<1>2. /\ copy' = [copy EXCEPT ![x] = NoCopy]
      /\ row' = [row EXCEPT ![x].copied = FALSE]
      /\ answer' = [answer EXCEPT ![x] = "none"]
  BY DEF DeleteCopy
<1>3. Shaped'
  BY <1>1, <1>2 DEF ReviewInv, Shaped, ImportRow, Copy, NoCopy, CopyStatuses, Types
<1>4. \A y \in Rows : y # x => copy'[y] = copy[y] /\ row'[y] = row[y] /\ answer'[y] = answer[y]
  BY <1>2 DEF ReviewInv, Shaped
<1>5. /\ copy'[x].status = "none" /\ ~copy'[x].modified
      /\ ~row'[x].copied /\ answer'[x] = "none"
  BY <1>2 DEF ReviewInv, Shaped, ImportRow, NoCopy
<1>6. Touched' /\ AnswersStand' /\ RowsAgree'
  BY <1>4, <1>5 DEF ReviewInv, Touched, AnswersStand, RowsAgree
<1> QED
  BY <1>1, <1>3, <1>6 DEF ReviewInv

LEMMA EditCopyKeeps ==
    ASSUME LockedOverlaps, ReviewInv, NEW x \in Rows, NEW t \in Types, EditCopy(x, t)
    PROVE  ReviewInv'
<1>1. OneRuns' /\ Plans' /\ (DOMAIN req = Requests)'
  BY PagesRunAlone DEF EditCopy, LedgerRequest
<1>2. /\ copy[x].status # "none"
      /\ copy' = [copy EXCEPT ![x].type = t, ![x].modified = TRUE]
      /\ UNCHANGED <<row, answer>>
  BY DEF EditCopy
<1>3. Shaped'
  BY <1>1, <1>2 DEF ReviewInv, Shaped, Copy
<1>4. \A y \in Rows : /\ copy'[y].status = copy[y].status
                      /\ copy'[y].modified <=> (copy[y].modified \/ y = x)
  BY <1>2 DEF ReviewInv, Shaped, Copy
<1>5. row' = row /\ answer' = answer
  BY <1>2
<1>6. AnswersStand' /\ RowsAgree'
  BY <1>4, <1>5 DEF ReviewInv, AnswersStand, RowsAgree
<1>7. ASSUME NEW y \in Rows
      PROVE  /\ answer'[y] # "none" => copy'[y].modified
             /\ copy'[y].status = "none" => ~copy'[y].modified
  <2>1. /\ answer[y] # "none" => copy[y].modified
        /\ copy[y].status = "none" => ~copy[y].modified
    BY DEF ReviewInv, Touched
  <2> QED
    BY <1>2, <1>4, <1>5, <2>1
<1>8. Touched'
  BY <1>7 DEF Touched
<1> QED
  BY <1>1, <1>3, <1>6, <1>8 DEF ReviewInv

\* Trades, deleted adjustments and reports leave the batch alone.
LEMMA OthersKeep ==
    ASSUME LockedOverlaps, ReviewInv,
           \/ \E n \in {-1, 1} : Trade(n)
           \/ \E b \in Reports : \/ DeleteAdjustment(b)
                                 \/ \E b3 \in 0..Top, listed \in BOOLEAN : ReportCommit(b, b3, listed)
    PROVE  ReviewInv'
<1>1. UNCHANGED <<row, copy, answer, req, lock>>
  BY DEF Trade, DeleteAdjustment, ReportCommit, LedgerRequest, batch, history
<1>2. May("ledger") \/ May("report")
  BY DEF Trade, DeleteAdjustment, ReportCommit, LedgerRequest
<1>3. OneRuns' /\ Plans' /\ (DOMAIN req = Requests)'
  BY <1>1, <1>2, PagesRunAlone
<1> QED
  BY <1>1, <1>3 DEF ReviewInv, Shaped, Touched, AnswersStand, RowsAgree

-----------------------------------------------------------------------------
LEMMA InitReview == Init => ReviewInv
<1> SUFFICES ASSUME Init
             PROVE  ReviewInv
  OBVIOUS
<1>1. PICK left \in Starts :
        /\ row = [x \in Rows |-> [class |-> left[x], copied |-> left[x] = "unclassified",
                                  reason |-> FALSE]]
        /\ copy = [x \in Rows |-> IF left[x] = "unclassified"
                                  THEN [NoCopy EXCEPT !.status = "unclassified"] ELSE NoCopy]
  BY DEF Init
<1>2. left \in [Rows -> {"unclassified", "ignored", "invalid"}]
  BY RowsAssumption
<1>3. Shaped
  <2>1. row \in [Rows -> ImportRow]
    BY <1>1, <1>2 DEF ImportRow, Classes
  <2>2. copy \in [Rows -> Copy]
    BY <1>1 DEF Copy, NoCopy, CopyStatuses, Types
  <2> QED
    BY <2>1, <2>2 DEF Init, Shaped
<1>4. OneRuns /\ Plans
  BY DEF Init, OneRuns, Plans, Planned, Idle, KindOf
<1>5. Touched /\ AnswersStand /\ RowsAgree
  BY <1>1, <1>2 DEF Init, Touched, AnswersStand, RowsAgree, NoCopy
<1> QED
  BY <1>3, <1>4, <1>5 DEF ReviewInv

LEMMA NextReview == LockedOverlaps /\ ReviewInv /\ [Next]_vars => ReviewInv'
<1> SUFFICES ASSUME LockedOverlaps, ReviewInv, [Next]_vars
             PROVE  ReviewInv'
  OBVIOUS
<1>1. CASE UNCHANGED vars
  BY <1>1 DEF vars, batch, positions, history, ReviewInv, Shaped, OneRuns, Plans, Planned,
              Activatable, Touched, AnswersStand, RowsAgree
<1>2. ASSUME NEW p \in Requests,
             \/ \E x \in Rows : IgnoreRead(p, x) \/ \E t \in Types : ClassifyRead(p, x, t)
             \/ \E x \in Exercises : OfferRead(p, x)
             \/ \E b \in Reports : AcceptRead(p, b)
      PROVE  ReviewInv'
  BY <1>2, ReadsKeep
<1>3. ASSUME NEW p \in Requests, \E reading \in [Rows -> Readings] : CommitRead(p, reading)
      PROVE  ReviewInv'
  BY <1>3, CommitReadKeeps
<1>4. ASSUME NEW p \in Requests,
             \/ ClassifyWrite(p) \/ IgnoreWrite(p) \/ OfferWrite(p) \/ CommitWrite(p)
             \/ AcceptWrite(p)
      PROVE  ReviewInv'
  BY <1>4, ClassifyWriteKeeps, IgnoreWriteKeeps, OfferWriteKeeps, CommitWriteKeeps,
     AcceptWriteKeeps
<1>5. ASSUME NEW x \in Rows, DeleteCopy(x) \/ \E t \in Types : EditCopy(x, t)
      PROVE  ReviewInv'
  BY <1>5, DeleteCopyKeeps, EditCopyKeeps
<1> QED
  BY <1>1, <1>2, <1>3, <1>4, <1>5, OthersKeep DEF Next

\* The step of any request but a commit's write leaves the commit's request as
\* it is, and the write leaves alone every copy a person touched.
LEMMA CommitDefersStep ==
    ASSUME LockedOverlaps, ReviewInv, [Next]_vars, NEW p \in Requests,
           req[p].op = "commit", req'[p] # req[p], NEW x \in Rows, copy[x].modified
    PROVE  copy'[x] = copy[x]
<1>1. req[p] # Idle
  BY DEF Idle
<1>2. ASSUME NEW q \in Requests, NEW r, Begin(q, r)
      PROVE  FALSE
  <2>1. p # q
    BY <1>1, <1>2 DEF Begin
  <2> QED
    BY <1>2, <2>1 DEF Begin, ReviewInv, Shaped
<1>3. ASSUME NEW q \in Requests, End(q), req[q] # Idle
      PROVE  p = q
  BY <1>1, <1>3 DEF ReviewInv, OneRuns
<1>4. CommitWrite(p)
  <2>1. CASE UNCHANGED vars
    BY <2>1 DEF vars
  <2>2. ASSUME NEW q \in Requests, NEW y \in Rows,
               IgnoreRead(q, y) \/ \E t \in Types : ClassifyRead(q, y, t)
        PROVE  FALSE
    BY <1>2, <2>2 DEF IgnoreRead, ClassifyRead
  <2>3. ASSUME NEW q \in Requests, NEW y \in Exercises, OfferRead(q, y)
        PROVE  FALSE
    BY <1>2, <2>3 DEF OfferRead
  <2>4. ASSUME NEW q \in Requests, NEW reading, CommitRead(q, reading)
        PROVE  FALSE
    BY <1>2, <2>4 DEF CommitRead
  <2>5. ASSUME NEW q \in Requests, NEW b \in Reports, AcceptRead(q, b)
        PROVE  FALSE
    BY <1>2, <2>5 DEF AcceptRead
  <2>6. ASSUME NEW q \in Requests, ClassifyWrite(q) \/ IgnoreWrite(q) \/ OfferWrite(q) \/ AcceptWrite(q)
        PROVE  FALSE
    <3>1. End(q) /\ req[q] # Idle /\ req[q].op # "commit"
      <4>1. req[q].op \in {"classify", "restore", "create", "ignore", "keep", "resolve", "accept"}
        BY <2>6 DEF ClassifyWrite, IgnoreWrite, OfferWrite, AcceptWrite
      <4>2. End(q)
        BY <2>6 DEF ClassifyWrite, IgnoreWrite, OfferWrite, AcceptWrite, Refuse
      <4> QED
        BY <4>1, <4>2 DEF Idle
    <3> QED
      BY <1>3, <3>1
  <2>7. ASSUME NEW q \in Requests, CommitWrite(q)
        PROVE  p = q
    <3>1. End(q) /\ req[q] # Idle
      <4>1. req[q].op = "commit" /\ End(q)
        BY <2>7 DEF CommitWrite, Refuse
      <4> QED
        BY <4>1 DEF Idle
    <3> QED
      BY <1>3, <3>1
  <2>8. ASSUME \/ \E y \in Rows : DeleteCopy(y) \/ \E t \in Types : EditCopy(y, t)
               \/ \E n \in {-1, 1} : Trade(n)
               \/ \E b \in Reports : \/ DeleteAdjustment(b)
                                     \/ \E b3 \in 0..Top, listed \in BOOLEAN :
                                          ReportCommit(b, b3, listed)
        PROVE  FALSE
    BY <2>8 DEF DeleteCopy, EditCopy, Trade, DeleteAdjustment, ReportCommit, LedgerRequest
  <2> QED
    BY <2>1, <2>2, <2>3, <2>4, <2>5, <2>6, <2>7, <2>8 DEF Next
<1>5. CASE Refuse(p)
  BY <1>5 DEF Refuse, batch
<1>6. CASE ~Refuse(p)
  <2>1. copy[x].status # "none"
    BY DEF ReviewInv, Touched
  <2> QED
    BY <1>4, <1>6, <2>1, CommitWritesPlan DEF Activatable
<1> QED
  BY <1>5, <1>6

-----------------------------------------------------------------------------
(* Theorems *)

LEMMA ReviewInvariant ==
    ASSUME LockedOverlaps
    PROVE  Spec => []ReviewInv
<1>1. Init => ReviewInv
  BY InitReview
<1>2. ReviewInv /\ [Next]_vars => ReviewInv'
  BY NextReview
<1> QED
  BY <1>1, <1>2, PTL DEF Spec

\* Where only requests that take the import lock overlap, what the user last
\* made of a row stands under every commit (ignore-row.ts:58-63).
THEOREM AnswersAlwaysStand ==
    ASSUME LockedOverlaps
    PROVE  Spec => []AnswersStand
<1>1. ReviewInv => AnswersStand
  BY DEF ReviewInv
<1> QED
  BY <1>1, ReviewInvariant, PTL

\* Under the same condition the batch's screen and the ledger never disagree
\* about a row with a stored copy, nor about a refused one (updateInPlace,
\* markSubscriptionOriginsIgnored, settleEarlierRefusals).
THEOREM RowsAlwaysAgree ==
    ASSUME LockedOverlaps
    PROVE  Spec => []RowsAgree
<1>1. ReviewInv => RowsAgree
  BY DEF ReviewInv
<1> QED
  BY <1>1, ReviewInvariant, PTL

\* Under the same condition no commit changes a copy a person has touched,
\* although it plans before it writes (planReclassifications).
THEOREM CommitsDefer ==
    ASSUME LockedOverlaps
    PROVE  Spec => CommitDefers
<1> DEFINE Defers == \A p \in Requests : req[p].op = "commit" /\ req'[p] # req[p] =>
                       \A x \in Rows : copy[x].modified => copy'[x] = copy[x]
<1>1. ReviewInv /\ [Next]_vars => [Defers]_vars
  BY CommitDefersStep
<1> QED
  BY <1>1, ReviewInvariant, PTL DEF Spec, CommitDefers

-----------------------------------------------------------------------------
(* Counts and quantities.  What a request read still holds when it writes;   *)
(* the stored counts follow the rows; the position is the sum of what made it. *)

Report == [state : {"none", "agrees", "open", "resolved"}, b3 : 0..Top, computed : Nat,
           listed : BOOLEAN, cause : {"unclassified", "absent", "other"}]

\* The figures of the position.
Money ==
    /\ base \in Nat
    /\ report \in [Reports -> Report]
    /\ posted \in [Reports -> Nat]
    /\ Quantity >= 0
    /\ \A b \in Reports : report[b].state = "none" => posted[b] = 0

\* The rows as they were when the counts were last recounted.
Stale == [x \in Rows |-> IF x \in behind THEN [row[x] EXCEPT !.class = "unclassified"] ELSE row[x]]

Tally ==
    /\ counts = Summary(Stale)
    /\ behind \subseteq Rows
    /\ \A x \in behind : row[x].class # "unclassified"

\* What a request read.
Sound(r) ==
    /\ r.op = "classify" => Pending(r.row)
    /\ r.op = "commit" => Replays(Applying(r.reading, r.act, r.app))
    /\ r.op = "accept" => r.report \in Reports /\ Acceptable(r.report)

Serving ==
    /\ lock \in Requests \cup {Free}
    /\ \A p \in Requests : lock = p => KindOf(req[p].op) \in {"answer", "commit"}
    /\ \A p \in Requests : Sound(req[p])

BooksInv == Money /\ Tally /\ Serving

-----------------------------------------------------------------------------
(* The sums *)

LEMMA MovedIs == ASSUME NEW C PROVE Moved(C) = Sum([x \in Active(C) |-> Moves(C[x].type)], Active(C))
  BY DEF Moved, Sum

LEMMA ActiveFinite == ASSUME NEW C PROVE IsFiniteSet(Active(C)) /\ Active(C) \in SUBSET Rows
<1>1. Active(C) \in SUBSET Rows
  BY DEF Active
<1> QED
  BY <1>1, FiniteAssumption, FS_Subset

LEMMA MovedInt == ASSUME NEW C PROVE Moved(C) \in Int
<1> DEFINE S == Active(C)
           f == [x \in S |-> Moves(C[x].type)]
<1>1. IsFiniteSet(S) /\ \A x \in S : f[x] \in Int
  BY ActiveFinite DEF Moves
<1> HIDE DEF f, S
<1>2. Sum(f, S) \in Int
  BY <1>1, SumInt
<1> QED
  BY <1>2, MovedIs DEF f, S

\* Only which copies are active, and of what type, makes a sum.
LEMMA MovedAlike ==
    ASSUME NEW C, NEW D,
           \A x \in Rows : /\ C[x].status = "active" <=> D[x].status = "active"
                           /\ C[x].status = "active" => C[x].type = D[x].type
    PROVE  Moved(C) = Moved(D)
<1>1. Active(C) = Active(D)
  BY DEF Active
<1>2. [x \in Active(C) |-> Moves(C[x].type)] = [x \in Active(D) |-> Moves(D[x].type)]
  BY <1>1 DEF Active
<1> QED
  BY <1>1, <1>2, MovedIs

\* Increases on keys that have no copy raise it.
LEMMA MovedMore ==
    ASSUME NEW C, NEW D, NEW S \in SUBSET Rows,
           \A x \in S : C[x].status # "active" /\ D[x].status = "active" /\ D[x].type = "in",
           \A x \in Rows \ S : D[x] = C[x]
    PROVE  Moved(D) >= Moved(C)
<1> DEFINE A == Active(C)
           f == [x \in A \cup S |-> Moves(D[x].type)]
<1>1. Active(D) = A \cup S /\ A \cap S = {}
  BY DEF Active
<1>2. IsFiniteSet(A) /\ IsFiniteSet(S) /\ A \in SUBSET Rows
  BY ActiveFinite, FiniteAssumption, FS_Subset
<1>3. /\ \A x \in A \cup S : f[x] \in Int
      /\ \A x \in S : f[x] \in Nat
      /\ \A x \in A : f[x] = Moves(C[x].type)
  BY <1>1, <1>2 DEF Moves
<1>4. Moved(D) = Sum(f, A \cup S)
  BY <1>1, MovedIs
<1> DEFINE g == [x \in A |-> Moves(C[x].type)]
<1>5. \A x \in A : f[x] = g[x]
  BY <1>3
<1>6. Moved(C) = Sum(g, A)
  BY MovedIs
<1> HIDE DEF A, f, g
<1>7. Sum(f, A \cup S) = Sum(f, A) + Sum(f, S)
  BY <1>1, <1>2, <1>3, SumUnion
<1>8. Sum(f, A) = Sum(g, A) /\ Sum(f, A) \in Int /\ Sum(f, S) \in Nat
  BY <1>2, <1>3, <1>5, SumEqual, SumInt, SumNat
<1> QED
  BY <1>4, <1>6, <1>7, <1>8

LEMMA ReportIs == ASSUME NEW r \in Report PROVE r.b3 \in Nat /\ r.computed \in Nat /\ r.b3 - r.computed \in Int
  BY BoundsAssumption DEF Report

\* What the adjustments of each report add up to, by report.
Adjusting(P, N) == [b \in Reports |-> N[b] * (P[b].b3 - P[b].computed)]

LEMMA AdjustedIs ==
    ASSUME NEW n
    PROVE  Adjusted(n) = Sum(Adjusting(report, n), Reports)
  BY DEF Adjusted, Sum, Adjusting

LEMMA AdjustingInt ==
    ASSUME NEW P \in [Reports -> Report], NEW N \in [Reports -> Nat]
    PROVE  /\ \A b \in Reports : Adjusting(P, N)[b] \in Int
           /\ Sum(Adjusting(P, N), Reports) \in Int
<1>1. \A b \in Reports : Adjusting(P, N)[b] \in Int
  <2> SUFFICES ASSUME NEW b \in Reports PROVE Adjusting(P, N)[b] \in Int
    OBVIOUS
  <2>1. P[b].b3 - P[b].computed \in Int /\ N[b] \in Int
    BY ReportIs
  <2>2. \A i, j \in Int : i * j \in Int
    OBVIOUS
  <2> QED
    BY <2>1, <2>2 DEF Adjusting
<1> QED
  BY <1>1, FiniteAssumption, SumInt

LEMMA QuantityInt ==
    ASSUME Money, NEW C
    PROVE  Replayed(C) \in Int /\ Quantity \in Nat
<1>1. Adjusted(posted) \in Int
  BY AdjustedIs, AdjustingInt DEF Money
<1>2. \A D : Replayed(D) \in Int
  BY <1>1, MovedInt DEF Money, Replayed
<1>3. Quantity \in Int
  BY <1>2 DEF Quantity
<1> QED
  BY <1>2, <1>3 DEF Money

\* Posting one adjustment of a report, or deleting one, moves the position by
\* the difference the report states.
LEMMA OnePosted ==
    ASSUME NEW P \in [Reports -> Report], NEW N \in [Reports -> Nat], NEW M \in [Reports -> Nat],
           NEW b \in Reports, NEW d \in Int,
           M[b] = N[b] + d, \A c \in Reports \ {b} : M[c] = N[c]
    PROVE  Sum(Adjusting(P, M), Reports) = Sum(Adjusting(P, N), Reports) + d * (P[b].b3 - P[b].computed)
<1> DEFINE f == Adjusting(P, N)
           g == Adjusting(P, M)
           e == P[b].b3 - P[b].computed
<1>1. /\ \A c \in Reports : f[c] \in Int /\ g[c] \in Int
      /\ Sum(f, Reports) \in Int
  BY AdjustingInt
<1>2. \A c \in Reports \ {b} : f[c] = g[c]
  BY DEF Adjusting
<1>3. f[b] = N[b] * e /\ g[b] = (N[b] + d) * e /\ e \in Int /\ N[b] \in Int
  BY ReportIs DEF Adjusting
<1> HIDE DEF f, g, e
<1>4. Sum(g, Reports) = Sum(f, Reports) - f[b] + g[b]
  BY <1>1, <1>2, FiniteAssumption, SumChange
<1>5. (N[b] + d) * e = N[b] * e + d * e
  <2>1. \A i, j, k \in Int : (i + j) * k = i * k + j * k
    OBVIOUS
  <2>2. d \in Int
    OBVIOUS
  <2> QED
    BY <1>3, <2>1, <2>2
<1>6. N[b] * e \in Int /\ d * e \in Int
  <2>1. \A i, j \in Int : i * j \in Int
    OBVIOUS
  <2> QED
    BY <1>3, <2>1
<1> QED
  BY <1>1, <1>3, <1>4, <1>5, <1>6 DEF f, g, e

\* A report that nobody has posted from may be any report.
LEMMA NoneReported ==
    ASSUME NEW P \in [Reports -> Report], NEW Q \in [Reports -> Report], NEW N \in [Reports -> Nat],
           NEW b \in Reports, N[b] = 0, \A c \in Reports \ {b} : Q[c] = P[c]
    PROVE  Sum(Adjusting(Q, N), Reports) = Sum(Adjusting(P, N), Reports)
<1> DEFINE f == Adjusting(P, N)
           g == Adjusting(Q, N)
<1>1. \A c \in Reports : f[c] = g[c]
  <2>1. \A i \in Int : 0 * i = 0
    OBVIOUS
  <2>2. f[b] = 0 /\ g[b] = 0
    BY <2>1, ReportIs DEF Adjusting
  <2> QED
    BY <2>2 DEF Adjusting
<1> HIDE DEF f, g
<1> QED
  BY <1>1, FiniteAssumption, SumEqual DEF f, g

-----------------------------------------------------------------------------
(* The counts *)

Of(R, classes) == {x \in Rows : R[x].class \in classes}

LEMMA OfFinite ==
    ASSUME NEW R, NEW classes
    PROVE  /\ IsFiniteSet(Of(R, classes)) /\ Cardinality(Of(R, classes)) \in 0..Cardinality(Rows)
           /\ Cardinality(Of(R, classes)) \in Int
<1>1. Of(R, classes) \in SUBSET Rows
  BY DEF Of
<1>2. IsFiniteSet(Of(R, classes)) /\ Cardinality(Of(R, classes)) <= Cardinality(Rows)
  BY <1>1, FiniteAssumption, FS_Subset
<1> QED
  BY <1>2, FiniteAssumption, FS_CardinalityType

LEMMA SummaryIs ==
    ASSUME NEW R
    PROVE  Summary(R) = [new |-> Cardinality(Of(R, {"new"})),
                         duplicates |-> Cardinality(Of(R, {"duplicate"})),
                         attention |-> Cardinality(Of(R, {"unclassified", "invalid"})),
                         ignored |-> Cardinality(Of(R, {"ignored"}))]
  BY DEF Summary, Of

\* Only the classes of the rows count.
LEMMA SameClasses ==
    ASSUME NEW R, NEW Q, \A x \in Rows : R[x].class = Q[x].class
    PROVE  Summary(R) = Summary(Q)
<1>1. \A classes : Of(R, classes) = Of(Q, classes)
  BY DEF Of
<1> QED
  BY <1>1, SummaryIs

\* The class a row had when the counts were last recounted.
LEMMA StaleClass ==
    ASSUME ReviewInv, NEW x \in Rows
    PROVE  Stale[x].class = IF x \in behind THEN "unclassified" ELSE row[x].class
  BY DEF Stale, ReviewInv, Shaped, ImportRow

LEMMA TallyIs ==
    ASSUME NEW R \in [Rows -> ImportRow], NEW S, NEW x \in Rows
    PROVE  [y \in Rows |-> IF y \in S THEN [R[y] EXCEPT !.class = "unclassified"] ELSE R[y]][x].class
             = IF x \in S THEN "unclassified" ELSE R[x].class
  BY DEF ImportRow

\* Steps that change no class, and recounts.
LEMMA TallyKept ==
    ASSUME ReviewInv, ReviewInv', Tally, UNCHANGED <<counts, behind>>,
           \A x \in Rows : row'[x].class = row[x].class
    PROVE  Tally'
<1>1. row \in [Rows -> ImportRow] /\ row' \in [Rows -> ImportRow]
  BY DEF ReviewInv, Shaped
<1>2. \A x \in Rows : Stale'[x].class = Stale[x].class
  BY <1>1, TallyIs DEF Stale
<1>3. Summary(Stale') = Summary(Stale)
  BY <1>2, SameClasses
<1> QED
  BY <1>3 DEF Tally, Summary

LEMMA Recounted ==
    ASSUME ReviewInv', Recount
    PROVE  Tally'
<1>1. row' \in [Rows -> ImportRow] /\ behind' = {}
  BY DEF ReviewInv, Shaped, Recount
<1>2. \A x \in Rows : Stale'[x].class = row'[x].class
  BY <1>1, TallyIs DEF Stale
<1>3. Summary(Stale') = Summary(row')
  BY <1>2, SameClasses
<1> QED
  BY <1>1, <1>3 DEF Tally, Summary, Recount

\* A classification of an open row moves no count.
LEMMA ClassifiedTally ==
    ASSUME ReviewInv, ReviewInv', Tally, NEW x \in Rows, row[x].class = "unclassified",
           row'[x].class = "new", \A y \in Rows \ {x} : row'[y] = row[y],
           behind' = behind \cup {x}, UNCHANGED counts
    PROVE  Tally'
<1>1. row \in [Rows -> ImportRow] /\ row' \in [Rows -> ImportRow]
  BY DEF ReviewInv, Shaped
<1>2. \A y \in Rows : Stale'[y].class = Stale[y].class
  BY <1>1, TallyIs DEF Stale
<1>3. Summary(Stale') = Summary(Stale)
  BY <1>2, SameClasses
<1>4. \A y \in behind' : row'[y].class # "unclassified"
  BY DEF Tally
<1> QED
  BY <1>3, <1>4 DEF Tally, Summary

Counted == {"new", "duplicates", "attention", "ignored"}

LEMMA CountsMoved ==
    ASSUME counts \in [Counted -> Int], NEW M1, NEW M2, Cardinality(M1) \in Int, Cardinality(M2) \in Int
    PROVE  MarkedCounts(M1, M2)
             = [new |-> counts.new + Cardinality(M1), duplicates |-> counts.duplicates,
                attention |-> counts.attention - Cardinality(M1) - Cardinality(M2),
                ignored |-> counts.ignored + Cardinality(M2)]
<1> DEFINE p == Cardinality(M1)
           q == Cardinality(M2)
           e == MarkedCounts(M1, M2)
           r == [new |-> counts.new + p, duplicates |-> counts.duplicates,
                 attention |-> counts.attention - p - q, ignored |-> counts.ignored + q]
<1>0. e = [counts EXCEPT !.new = @ + p, !.ignored = @ + q, !.attention = @ - p - q]
  BY DEF MarkedCounts
<1>1. r.new = counts.new + p /\ r.ignored = counts.ignored + q /\ r.duplicates = counts.duplicates
      /\ r.attention = counts.attention - p - q
  OBVIOUS
<1>2. DOMAIN r = Counted /\ r = [f \in Counted |-> r[f]]
  BY DEF Counted
<1> HIDE DEF p, q, e, r
<1>3. DOMAIN e = Counted /\ e = [f \in Counted |-> e[f]]
  BY <1>0 DEF Counted
<1>4. e.new = counts.new + p /\ e.ignored = counts.ignored + q /\ e.duplicates = counts.duplicates
  BY <1>0 DEF Counted
<1>5. e.attention = counts.attention - p - q
  BY <1>0 DEF Counted
<1>6. [f \in Counted |-> r[f]] = [f \in Counted |-> e[f]]
  BY <1>1, <1>4, <1>5 DEF Counted
<1>7. e = r
  BY <1>2, <1>3, <1>6
<1> QED
  BY <1>7 DEF e, r, p, q

\* What a commit adds to the counts and takes from them is what it does to the
\* classes.
LEMMA MarkedTally ==
    ASSUME NEW R, NEW Q, NEW M1, NEW M2, M1 \cup M2 \subseteq Rows, M1 \cap M2 = {},
           \A x \in M1 \cup M2 : R[x].class = "unclassified",
           \A x \in M1 : Q[x].class = "new",
           \A x \in M2 : Q[x].class = "ignored",
           \A x \in Rows \ (M1 \cup M2) : Q[x].class = R[x].class,
           counts = Summary(R)
    PROVE  MarkedCounts(M1, M2) = Summary(Q)
<1> DEFINE n == {"new"}
           i == {"ignored"}
           d == {"duplicate"}
           a == {"unclassified", "invalid"}
<1>0. M1 \in SUBSET Rows /\ M2 \in SUBSET Rows
  OBVIOUS
<1>1. IsFiniteSet(M1) /\ IsFiniteSet(M2) /\ Cardinality(M1) \in Int /\ Cardinality(M2) \in Int
  BY <1>0, FiniteAssumption, FS_Subset, FS_CardinalityType
<1>2. /\ Of(Q, n) = Of(R, n) \cup M1 /\ Of(R, n) \cap M1 = {}
      /\ Of(Q, i) = Of(R, i) \cup M2 /\ Of(R, i) \cap M2 = {}
      /\ Of(Q, d) = Of(R, d)
      /\ Of(R, a) = Of(Q, a) \cup (M1 \cup M2) /\ Of(Q, a) \cap (M1 \cup M2) = {}
  BY DEF Of
<1> HIDE DEF n, i, d, a
<1>3. \A U, V : IsFiniteSet(U) /\ IsFiniteSet(V) /\ U \cap V = {}
                  => IsFiniteSet(U \cup V) /\ Cardinality(U \cup V) = Cardinality(U) + Cardinality(V)
  <2> SUFFICES ASSUME NEW U, NEW V, IsFiniteSet(U), IsFiniteSet(V), U \cap V = {}
               PROVE  IsFiniteSet(U \cup V) /\ Cardinality(U \cup V) = Cardinality(U) + Cardinality(V)
    OBVIOUS
  <2>1. Cardinality(U \cap V) = 0
    BY FS_EmptySet
  <2>2. Cardinality(U) \in Int /\ Cardinality(V) \in Int
    BY FS_CardinalityType
  <2>3. /\ IsFiniteSet(U \cup V)
        /\ Cardinality(U \cup V) = Cardinality(U) + Cardinality(V) - Cardinality(U \cap V)
    BY FS_Union
  <2> QED
    BY <2>1, <2>2, <2>3
<1>4. /\ Cardinality(Of(Q, n)) = Cardinality(Of(R, n)) + Cardinality(M1)
      /\ Cardinality(Of(Q, i)) = Cardinality(Of(R, i)) + Cardinality(M2)
      /\ Cardinality(Of(Q, d)) = Cardinality(Of(R, d))
  BY <1>1, <1>2, <1>3, OfFinite
<1>5. Cardinality(Of(R, a)) = Cardinality(Of(Q, a)) + (Cardinality(M1) + Cardinality(M2))
  <2>1. IsFiniteSet(M1 \cup M2) /\ Cardinality(M1 \cup M2) = Cardinality(M1) + Cardinality(M2)
    BY <1>1, <1>3
  <2> DEFINE V == M1 \cup M2
             U == Of(Q, a)
  <2>2. IsFiniteSet(U) /\ IsFiniteSet(V) /\ U \cap V = {} /\ Of(R, a) = U \cup V
    BY <1>2, <2>1, OfFinite
  <2> HIDE DEF U, V
  <2>3. Cardinality(Of(R, a)) = Cardinality(U) + Cardinality(V)
    BY <1>3, <2>2
  <2> QED
    BY <2>1, <2>3 DEF U, V
<1>6. Cardinality(Of(Q, a)) = Cardinality(Of(R, a)) - Cardinality(M1) - Cardinality(M2)
  BY <1>1, <1>5, OfFinite
<1>7. /\ Summary(R) = [new |-> Cardinality(Of(R, n)), duplicates |-> Cardinality(Of(R, d)),
                       attention |-> Cardinality(Of(R, a)), ignored |-> Cardinality(Of(R, i))]
      /\ Summary(Q) = [new |-> Cardinality(Of(Q, n)), duplicates |-> Cardinality(Of(Q, d)),
                       attention |-> Cardinality(Of(Q, a)), ignored |-> Cardinality(Of(Q, i))]
  BY SummaryIs DEF n, i, d, a
<1>8. counts \in [Counted -> Int]
  BY <1>7, OfFinite DEF Counted
<1>9. MarkedCounts(M1, M2)
        = [new |-> counts.new + Cardinality(M1), duplicates |-> counts.duplicates,
           attention |-> counts.attention - Cardinality(M1) - Cardinality(M2),
           ignored |-> counts.ignored + Cardinality(M2)]
  BY <1>1, <1>8, CountsMoved
<1> QED
  BY <1>4, <1>6, <1>7, <1>9

\* The position before a step and after it, as three sums.
LEMMA QuantityIs ==
         /\ Quantity = base + Moved(copy) + Sum(Adjusting(report, posted), Reports)
           /\ Quantity' = base' + Moved(copy') + Sum(Adjusting(report', posted'), Reports)
<1>1. Quantity = base + Moved(copy) + Sum(Adjusting(report, posted), Reports)
  BY AdjustedIs DEF Quantity, Replayed
<1>2. Adjusted(posted)' = Sum(Adjusting(report', posted'), Reports)
  BY DEF Adjusted, Sum, Adjusting
<1>3. Moved(copy)' = Moved(copy')
  BY DEF Moved, Active
<1> QED
  BY <1>1, <1>2, <1>3 DEF Quantity, Replayed

LEMMA ReplayedIs ==
    ASSUME NEW C
    PROVE  Replayed(C) = base + Moved(C) + Sum(Adjusting(report, posted), Reports)
  BY AdjustedIs DEF Replayed

\* A step that changes only copies keeps the books if what it leaves replays.
LEMMA MoneyKept ==
    ASSUME Money, UNCHANGED positions, Replays(copy')
    PROVE  Money'
<1>1. Quantity' = Replayed(copy')
  BY QuantityIs, ReplayedIs DEF positions
<1>2. Quantity' >= 0
  BY <1>1 DEF Replays
<1> QED
  BY <1>2 DEF Money, positions

\* The copies left alone replay.
LEMMA SameReplays ==
    ASSUME Money, NEW C, Moved(C) = Moved(copy)
    PROVE  Replays(C)
<1>1. Replayed(C) = Quantity
  BY QuantityIs, ReplayedIs
<1> QED
  BY <1>1 DEF Money, Replays

\* When a request ends the lock is free.
LEMMA EndServes ==
    ASSUME ReviewInv, Serving, NEW p \in Requests, req[p] # Idle, End(p)
    PROVE  Serving'
<1>1. \A q \in Requests : req'[q] = Idle
  BY EndKeeps
<1>2. lock' = Free
  <2>1. CASE lock = p
    BY <2>1 DEF End
  <2>2. ASSUME NEW q \in Requests, lock = q
        PROVE  p = q
    <3>1. KindOf(req[q].op) \in {"answer", "commit"}
      BY <2>2 DEF Serving
    <3>2. KindOf(Idle.op) \notin {"answer", "commit"}
      BY DEF KindOf, Idle
    <3> QED
      BY <3>1, <3>2 DEF ReviewInv, OneRuns
  <2> QED
    BY <2>1, <2>2 DEF Serving, End
<1>3. \A q \in Requests : Sound(req[q])'
  BY <1>1 DEF Sound, Idle
<1> QED
  BY <1>2, <1>3, BoundsAssumption DEF Serving

LEMMA PagesServe ==
    ASSUME LockedOverlaps, ReviewInv, Serving, NEW kind \in {"ledger", "report"}, May(kind),
           UNCHANGED <<req, lock>>
    PROVE  Serving'
<1>1. \A q \in Requests : req[q] = Idle
  BY BeginsAlone
<1>2. \A q \in Requests : Sound(req[q])'
  BY <1>1 DEF Sound, Idle
<1> QED
  BY <1>2 DEF Serving

\* A request that begins finds what it read, and changes nothing.
LEMMA BeginBooks ==
    ASSUME LockedOverlaps, ReviewInv, ReviewInv', BooksInv, NEW p \in Requests, NEW r, Begin(p, r),
           Sound(r),
           \/ KindOf(r.op) \in {"answer", "commit"} /\ Locking(p)
           \/ KindOf(r.op) \notin {"answer", "commit"} /\ UNCHANGED lock
    PROVE  BooksInv'
<1>1. \A q \in Requests : req[q] = Idle
  <2>1. KindOf(r.op) \in {"answer", "commit"} => lock = Free
    BY DEF Locking
  <2>2. May(KindOf(r.op))
    BY DEF Begin
  <2> QED
    BY <2>1, <2>2, BeginsAlone
<1>2. /\ UNCHANGED <<row, copy, counts, base, report, posted, behind>>
      /\ req' = [req EXCEPT ![p] = r]
  BY DEF Begin, batch, positions, history
<1>3. Money'
  <2>1. Replays(copy')
    BY <1>2, SameReplays DEF BooksInv
  <2> QED
    BY <1>2, <2>1, MoneyKept DEF BooksInv, positions
<1>4. Tally'
  BY <1>2, TallyKept DEF BooksInv
<1>5. \A q \in Requests : req'[q] = IF q = p THEN r ELSE Idle
  BY <1>1, <1>2 DEF ReviewInv, Shaped
<1>6. \A q \in Requests : Sound(req[q])'
  <2> SUFFICES ASSUME NEW q \in Requests
               PROVE  Sound(req[q])'
    OBVIOUS
  <2>1. CASE q = p
    <3>1. req'[q] = r
      BY <1>5, <2>1
    <3>2. Quantity' = Quantity
      BY <1>2, QuantityIs
    <3>3. \A b \in Reports : Acceptable(b)' <=> Acceptable(b)
      BY <1>2, <3>2 DEF Acceptable, History, Active
    <3>4. ASSUME NEW C PROVE Replays(C)' <=> Replays(C)
      <4>1. Adjusted(posted)' = Adjusted(posted)
        BY <1>2 DEF Adjusted
      <4> QED
        BY <1>2, <4>1 DEF Replays, Replayed
    <3>5. r.op = "commit" => Replays(Applying(r.reading, r.act, r.app))'
      BY <1>2, <3>4 DEF Sound, Applying
    <3>6. r.op = "classify" => Pending(r.row)'
      BY <1>2 DEF Sound, Pending
    <3>7. r.op = "accept" => r.report \in Reports /\ Acceptable(r.report)'
      BY <3>3 DEF Sound
    <3> QED
      BY <3>1, <3>5, <3>6, <3>7 DEF Sound
  <2>2. CASE q # p
    BY <1>5, <2>2 DEF Sound, Idle
  <2> QED
    BY <2>1, <2>2
<1>7. Serving'
  <2>1. KindOf(Idle.op) \notin {"answer", "commit"}
    BY DEF KindOf, Idle
  <2>2. CASE KindOf(r.op) \in {"answer", "commit"} /\ Locking(p)
    BY <1>5, <1>6, <2>2, BoundsAssumption DEF Serving, Locking
  <2>3. CASE KindOf(r.op) \notin {"answer", "commit"} /\ UNCHANGED lock
    <3>1. \A q \in Requests : lock # q
      BY <1>1, <2>1 DEF BooksInv, Serving
    <3> QED
      BY <1>6, <2>3, <3>1 DEF BooksInv, Serving
  <2> QED
    BY <2>2, <2>3
<1> QED
  BY <1>3, <1>4, <1>7 DEF BooksInv

\* A refused request changes nothing.
LEMMA RefuseBooks ==
    ASSUME ReviewInv, ReviewInv', BooksInv, NEW p \in Requests, req[p] # Idle, Refuse(p)
    PROVE  BooksInv'
<1>1. UNCHANGED <<row, copy, counts, base, report, posted, behind>>
  BY DEF Refuse, batch, positions, history
<1>2. Serving'
  BY EndServes DEF Refuse, BooksInv
<1>3. Tally'
  BY <1>1, TallyKept DEF BooksInv
<1>4. Replays(copy')
  BY <1>1, SameReplays DEF BooksInv
<1> QED
  BY <1>1, <1>2, <1>3, <1>4, MoneyKept DEF BooksInv, positions

LEMMA ReadsBooks ==
    ASSUME LockedOverlaps, ReviewInv, ReviewInv', BooksInv, NEW p \in Requests
    PROVE  /\ \A x \in Rows, t \in Types : ClassifyRead(p, x, t) => BooksInv'
           /\ \A x \in Rows : IgnoreRead(p, x) => BooksInv'
           /\ \A x \in Exercises : OfferRead(p, x) => BooksInv'
           /\ \A b \in Reports : AcceptRead(p, b) => BooksInv'
<1>1. ASSUME NEW x \in Rows, NEW t \in Types, ClassifyRead(p, x, t)
      PROVE  BooksInv'
  <2>1. PICK op \in {"classify", "restore", "create"} :
          Begin(p, [op |-> op, row |-> x, type |-> t]) /\ (op = "classify" => Pending(x))
    BY <1>1 DEF ClassifyRead
  <2> DEFINE r == [op |-> op, row |-> x, type |-> t]
  <2>2. Sound(r)
    BY <2>1 DEF Sound
  <2>3. KindOf(r.op) \in {"answer", "commit"} /\ Locking(p)
    BY <1>1 DEF ClassifyRead, KindOf
  <2> QED
    BY <2>1, <2>2, <2>3, BeginBooks
<1>2. ASSUME NEW x \in Rows, IgnoreRead(p, x)
      PROVE  BooksInv'
  <2> DEFINE r == [op |-> "ignore", row |-> x]
  <2>1. KindOf(r.op) \in {"answer", "commit"} /\ Locking(p) /\ Sound(r) /\ Begin(p, r)
    BY <1>2 DEF IgnoreRead, KindOf, Sound
  <2> QED
    BY <2>1, BeginBooks
<1>3. ASSUME NEW x \in Exercises, OfferRead(p, x)
      PROVE  BooksInv'
  <2>1. PICK op \in {"keep", "resolve"} : Begin(p, [op |-> op, row |-> x])
    BY <1>3 DEF OfferRead
  <2> DEFINE r == [op |-> op, row |-> x]
  <2>2. KindOf(r.op) \notin {"answer", "commit"} /\ (UNCHANGED lock) /\ Sound(r)
    BY <1>3 DEF OfferRead, KindOf, Sound
  <2> QED
    BY <2>1, <2>2, BeginBooks
<1>4. ASSUME NEW b \in Reports, AcceptRead(p, b)
      PROVE  BooksInv'
  <2> DEFINE r == [op |-> "accept", report |-> b]
  <2>1. KindOf(r.op) \notin {"answer", "commit"} /\ (UNCHANGED lock) /\ Sound(r) /\ Begin(p, r)
    BY <1>4 DEF AcceptRead, KindOf, Sound
  <2> QED
    BY <2>1, BeginBooks
<1> QED
  BY <1>1, <1>2, <1>3, <1>4

\* A plan that gives up what does not replay leaves a ledger that does: at the
\* least the new increases, on top of the position as it stands.
LEMMA CommitReadBooks ==
    ASSUME LockedOverlaps, ReviewInv, ReviewInv', BooksInv, NEW p \in Requests,
           NEW reading \in [Rows -> Readings], CommitRead(p, reading)
    PROVE  BooksInv'
<1> DEFINE moves == Read(reading, {"in", "out"})
           act == {x \in moves : Activatable(x)}
           new == {x \in moves : copy[x].status = "none"}
           acts == IF Replays(Applying(reading, act, new)) THEN act ELSE {}
           ins == {x \in new : reading[x] = "in"}
           app == IF Replays(Applying(reading, acts, new)) THEN new ELSE ins
           sup == {x \in Read(reading, {"ignore"}) : Activatable(x)}
           r == [op |-> "commit", reading |-> reading, act |-> acts, app |-> app, sup |-> sup]
<1>1. Begin(p, r) /\ Locking(p)
  BY DEF CommitRead
<1>2. Replays(Applying(reading, acts, app))
  <2>1. CASE Replays(Applying(reading, acts, new))
    BY <2>1
  <2>2. CASE ~Replays(Applying(reading, acts, new))
    <3> DEFINE D == Applying(reading, {}, ins)
    <3>1. acts = {} /\ app = ins
      BY <2>2
    <3>2. Moved(D) >= Moved(copy)
      <4>1. ins \in SUBSET Rows /\ \A x \in ins : copy[x].status = "none" /\ reading[x] = "in"
        BY DEF Read
      <4>2. \A x \in ins : D[x].status = "active" /\ D[x].type = "in"
        BY <4>1 DEF Applying
      <4>3. \A x \in Rows \ ins : D[x] = copy[x]
        BY DEF Applying
      <4> HIDE DEF ins, D
      <4> QED
        BY <4>1, <4>2, <4>3, MovedMore
    <3> HIDE DEF D, acts, app, ins
    <3>3. Replayed(D) >= Quantity
      <4>1. base \in Int /\ Moved(D) \in Int /\ Moved(copy) \in Int
            /\ Sum(Adjusting(report, posted), Reports) \in Int
        BY MovedInt, AdjustingInt DEF BooksInv, Money
      <4> QED
        BY <3>2, <4>1, QuantityIs, ReplayedIs
    <3>4. Replayed(D) >= 0
      <4>1. Replayed(D) \in Int /\ Quantity \in Nat
        BY QuantityInt DEF BooksInv
      <4> QED
        BY <3>3, <4>1
    <3> QED
      BY <3>1, <3>4 DEF Replays, D
  <2> QED
    BY <2>1, <2>2
<1> HIDE DEF acts, app, sup
<1>3. Sound(r) /\ KindOf(r.op) \in {"answer", "commit"}
  BY <1>2 DEF Sound, KindOf
<1> QED
  BY <1>1, <1>3, BeginBooks

-----------------------------------------------------------------------------
(* The requests write *)

LEMMA ClassifyWriteBooks ==
    ASSUME ReviewInv, ReviewInv', BooksInv, NEW p \in Requests, ClassifyWrite(p)
    PROVE  BooksInv'
<1>1. req[p] # Idle
  BY DEF ClassifyWrite, Idle
<1>2. CASE Refuse(p)
  BY <1>1, <1>2, RefuseBooks
<1>3. CASE ~Refuse(p)
  <2> DEFINE x == req[p].row
  <2>1. x \in Rows
    BY DEF ClassifyWrite, ReviewInv, Plans, Planned
  <2>2. /\ Replays(copy') /\ End(p) /\ UNCHANGED positions
        /\ row' = [[row EXCEPT ![x].class = "new", ![x].reason = FALSE] EXCEPT ![x].copied = TRUE]
        /\ \/ req[p].op = "classify" /\ behind' = behind \cup {x} /\ UNCHANGED counts
           \/ req[p].op # "classify" /\ Recount
    BY <1>3 DEF ClassifyWrite, Classifiable, Reclassified
  <2>3. Money' /\ Serving'
    BY <1>1, <2>2, MoneyKept, EndServes DEF BooksInv
  <2>4. CASE Recount
    BY <2>3, <2>4, Recounted DEF BooksInv
  <2>5. CASE req[p].op = "classify" /\ behind' = behind \cup {x} /\ UNCHANGED counts
    <3>1. row[x].class = "unclassified"
      BY <2>5 DEF BooksInv, Serving, Sound, Pending
    <3> HIDE DEF x
    <3>2. row'[x].class = "new" /\ \A y \in Rows \ {x} : row'[y] = row[y]
      BY <2>1, <2>2 DEF ReviewInv, Shaped, ImportRow
    <3>3. Tally'
      BY <2>1, <2>5, <3>1, <3>2, ClassifiedTally DEF BooksInv
    <3> QED
      BY <2>3, <3>3 DEF BooksInv
  <2> QED
    BY <2>2, <2>4, <2>5
<1> QED
  BY <1>2, <1>3

LEMMA IgnoreWriteBooks ==
    ASSUME ReviewInv, ReviewInv', BooksInv, NEW p \in Requests, IgnoreWrite(p)
    PROVE  BooksInv'
<1>1. req[p] # Idle
  BY DEF IgnoreWrite, Idle
<1>2. CASE Refuse(p)
  BY <1>1, <1>2, RefuseBooks
<1>3. CASE ~Refuse(p)
  <2> DEFINE x == req[p].row
  <2>1. /\ copy[x].status = "unclassified"
        /\ copy' = [copy EXCEPT ![x].status = "superseded", ![x].modified = TRUE]
        /\ Recount /\ End(p) /\ UNCHANGED positions
    BY <1>3 DEF IgnoreWrite
  <2>2. x \in Rows
    BY DEF IgnoreWrite, ReviewInv, Plans, Planned
  <2> HIDE DEF x
  <2>3. \A y \in Rows : /\ copy[y].status = "active" <=> copy'[y].status = "active"
                        /\ copy[y].status = "active" => copy[y].type = copy'[y].type
    BY <2>1, <2>2 DEF ReviewInv, Shaped, Copy
  <2>4. Moved(copy) = Moved(copy')
    BY <2>3, MovedAlike
  <2>5. Replays(copy')
    BY <2>4, SameReplays DEF BooksInv
  <2>6. Money' /\ Serving' /\ Tally'
    BY <1>1, <2>1, <2>5, MoneyKept, EndServes, Recounted DEF BooksInv
  <2> QED
    BY <2>6 DEF BooksInv
<1> QED
  BY <1>2, <1>3

LEMMA OfferWriteBooks ==
    ASSUME ReviewInv, ReviewInv', BooksInv, NEW p \in Requests, OfferWrite(p)
    PROVE  BooksInv'
<1>1. req[p] # Idle
  <2>1. req[p].op \in {"keep", "resolve"}
    BY DEF OfferWrite
  <2> QED
    BY <2>1 DEF Idle
<1>2. CASE Refuse(p)
  BY <1>1, <1>2, RefuseBooks
<1>3. CASE ~Refuse(p)
  <2>1. Replays(copy') /\ Recount /\ End(p) /\ UNCHANGED positions
    BY <1>3 DEF OfferWrite
  <2>2. Money' /\ Serving' /\ Tally'
    BY <1>1, <2>1, MoneyKept, EndServes, Recounted DEF BooksInv
  <2> QED
    BY <2>2 DEF BooksInv
<1> QED
  BY <1>2, <1>3

\* What a commit writes is what its plan replayed: the copies it sets aside
\* were outside every calculation.
LEMMA CommitWriteBooks ==
    ASSUME ReviewInv, ReviewInv', BooksInv, NEW p \in Requests, CommitWrite(p)
    PROVE  BooksInv'
<1>1. req[p] # Idle
  <2>1. req[p].op = "commit"
    BY DEF CommitWrite
  <2> QED
    BY <2>1 DEF Idle
<1>2. CASE Refuse(p)
  BY <1>1, <1>2, RefuseBooks
<1>3. CASE ~Refuse(p)
  <2> DEFINE r == req[p]
             marked == Origins(r.act, r.sup)
             M1 == marked \cap r.act
             M2 == marked \ r.act
             planned == Applying(r.reading, r.act, r.app)
  <2>1. /\ End(p) /\ UNCHANGED positions
        /\ copy' = [x \in Rows |-> IF x \in r.sup /\ copy[x].status # "none"
                                   THEN [copy[x] EXCEPT !.status = "superseded", !.modified = FALSE]
                                   ELSE planned[x]]
        /\ \/ Refusals(r.app) # {} /\ Recount
           \/ Refusals(r.app) = {} /\ counts' = MarkedCounts(M1, M2) /\ UNCHANGED behind
    BY <1>3 DEF CommitWrite
  <2>2. /\ r.act \subseteq Rows /\ r.sup \subseteq Rows /\ r.app \subseteq Rows
        /\ r.act \cap r.sup = {}
        /\ \A x \in r.act \cup r.sup : Activatable(x)
        /\ \A x \in r.app : copy[x].status = "none"
        /\ Replays(planned)
    BY DEF CommitWrite, ReviewInv, Plans, Planned, BooksInv, Serving, Sound
  <2>3. Replays(copy')
    <3>1. \A x \in Rows : x \in r.sup => planned[x] = copy[x] /\ copy[x].status = "unclassified"
      BY <2>2 DEF Applying, Activatable
    <3> HIDE DEF planned
    <3>2. \A x \in Rows : x \in r.sup => copy'[x].status = "superseded"
      <4> SUFFICES ASSUME NEW x \in Rows, x \in r.sup
                   PROVE  copy'[x].status = "superseded"
        OBVIOUS
      <4>1. copy'[x] = [copy[x] EXCEPT !.status = "superseded", !.modified = FALSE]
        BY <2>1, <3>1
      <4>2. copy[x] \in Copy
        BY DEF ReviewInv, Shaped
      <4> QED
        BY <4>1, <4>2 DEF Copy
    <3>3. \A x \in Rows : x \notin r.sup => copy'[x] = planned[x]
      BY <2>1
    <3>4. Moved(planned) = Moved(copy')
      BY <3>1, <3>2, <3>3, MovedAlike
    <3>5. Replayed(planned) = Replayed(copy')
      BY <3>4, ReplayedIs
    <3> QED
      BY <2>2, <3>5 DEF Replays
  <2>4. Money' /\ Serving'
    BY <1>1, <2>1, <2>3, MoneyKept, EndServes DEF BooksInv
  <2>5. CASE Recount
    BY <2>4, <2>5, Recounted DEF BooksInv
  <2>6. CASE Refusals(r.app) = {} /\ counts' = MarkedCounts(M1, M2) /\ UNCHANGED behind
    <3>1. /\ row \in [Rows -> ImportRow] /\ row' \in [Rows -> ImportRow]
      BY DEF ReviewInv, Shaped
    <3>2. /\ M1 \cup M2 \subseteq Rows /\ M1 \cap M2 = {}
          /\ \A x \in M1 \cup M2 : row[x].class = "unclassified"
          /\ (M1 \cup M2) \cap behind = {}
      BY <2>2 DEF Origins, Pending, BooksInv, Tally
    <3>3. ASSUME NEW x \in Rows
          PROVE  /\ x \in M1 => row'[x].class = "new"
                 /\ x \in M2 => row'[x].class = "ignored"
                 /\ x \notin M1 \cup M2 => row'[x].class = row[x].class
      <4>1. row[x] \in ImportRow
        BY <3>1
      <4>2. \A class : [row[x] EXCEPT !.class = class].class = class
        BY <4>1 DEF ImportRow
      <4>3. row'[x] = IF x \in M1 THEN [row[x] EXCEPT !.class = "new"]
                      ELSE IF x \in M2 THEN [row[x] EXCEPT !.class = "ignored"]
                      ELSE IF x \in Refusals(r.app) THEN [row[x] EXCEPT !.class = "duplicate"]
                      ELSE row[x]
        BY <1>3 DEF CommitWrite
      <4> HIDE DEF M1, M2
      <4> QED
        BY <2>6, <3>2, <4>2, <4>3
    <3>4. \A x \in Rows : /\ Stale[x].class = IF x \in behind THEN "unclassified" ELSE row[x].class
                          /\ Stale'[x].class = IF x \in behind' THEN "unclassified" ELSE row'[x].class
      BY <3>1, TallyIs DEF Stale
    <3> HIDE DEF M1, M2
    <3>5. /\ \A x \in M1 \cup M2 : Stale[x].class = "unclassified"
          /\ \A x \in M1 : Stale'[x].class = "new"
          /\ \A x \in M2 : Stale'[x].class = "ignored"
          /\ \A x \in Rows \ (M1 \cup M2) : Stale'[x].class = Stale[x].class
      BY <2>6, <3>2, <3>3, <3>4
    <3>6. counts = Summary(Stale)
      BY DEF BooksInv, Tally
    <3>7. MarkedCounts(M1, M2) = Summary(Stale')
      BY <3>2, <3>5, <3>6, MarkedTally
    <3>8. \A x \in behind' : row'[x].class # "unclassified"
      <4>1. \A x \in behind : x \in Rows /\ row[x].class # "unclassified"
        BY DEF BooksInv, Tally
      <4> QED
        BY <2>6, <3>2, <3>3, <4>1
    <3>9. Tally'
      BY <2>6, <3>7, <3>8 DEF BooksInv, Tally, Summary
    <3> QED
      BY <2>4, <3>9 DEF BooksInv
  <2> QED
    BY <2>1, <2>5, <2>6
<1> QED
  BY <1>2, <1>3

\* An adjustment is posted from a report that still measures the position, so
\* it brings the position to B3's figure.
LEMMA AcceptWriteReaches ==
    ASSUME ReviewInv, BooksInv, NEW p \in Requests, AcceptWrite(p), ~Refuse(p)
    PROVE  LET b == req[p].report IN
           /\ b \in Reports /\ Quantity' = report[b].b3
           /\ posted' = [posted EXCEPT ![b] = @ + 1]
           /\ report' = [report EXCEPT ![b].state = "resolved"]
           /\ UNCHANGED <<batch, base, history>> /\ End(p)
<1> DEFINE b == req[p].report
<1>1. /\ posted' = [posted EXCEPT ![b] = @ + 1]
      /\ report' = [report EXCEPT ![b].state = "resolved"]
      /\ UNCHANGED <<batch, base, history>> /\ End(p)
  BY DEF AcceptWrite
<1>2. b \in Reports /\ Quantity = report[b].computed
  BY DEF AcceptWrite, BooksInv, Serving, Sound, Acceptable
<1> HIDE DEF b
<1>3. report \in [Reports -> Report] /\ posted \in [Reports -> Nat] /\ base \in Nat
  BY DEF BooksInv, Money
<1>4. report' \in [Reports -> Report] /\ posted' \in [Reports -> Nat]
  BY <1>1, <1>2, <1>3 DEF Report
<1>5. Adjusting(report', posted') = Adjusting(report, posted')
  <2>1. \A c \in Reports : report'[c].b3 = report[c].b3 /\ report'[c].computed = report[c].computed
    BY <1>1, <1>3 DEF Report
  <2> QED
    BY <2>1 DEF Adjusting
<1> DEFINE d == 1
           e == report[b].b3 - report[b].computed
           s == Sum(Adjusting(report, posted), Reports)
           t == Sum(Adjusting(report', posted'), Reports)
<1>6. t = s + d * e
  <2>1. d \in Int /\ posted'[b] = posted[b] + d /\ \A c \in Reports \ {b} : posted'[c] = posted[c]
    BY <1>1, <1>2, <1>3
  <2>2. Sum(Adjusting(report, posted'), Reports) = s + d * e
    <3> HIDE DEF d
    <3> QED
      BY <1>2, <1>3, <1>4, <2>1, OnePosted
  <2> QED
    BY <1>5, <2>2
<1>7. Quantity = base + Moved(copy) + s /\ Quantity' = base + Moved(copy) + t
  BY <1>1, QuantityIs DEF batch
<1>8. s \in Int /\ e \in Int /\ Moved(copy) \in Int /\ report[b].b3 \in Int /\ report[b].computed \in Int
  BY <1>2, <1>3, AdjustingInt, ReportIs, MovedInt
<1>9. Quantity' = report[b].b3
  <2> HIDE DEF s, t
  <2>1. d * e = e
    BY <1>8
  <2>2. Quantity' = Quantity + (report[b].b3 - report[b].computed)
    <3> HIDE DEF d
    <3>1. t = s + e
      BY <1>6, <2>1
    <3> QED
      BY <1>3, <1>7, <1>8, <3>1
  <2> QED
    BY <1>2, <1>8, <2>2
<1> QED
  BY <1>1, <1>2, <1>9 DEF b

LEMMA AcceptWriteBooks ==
    ASSUME ReviewInv, ReviewInv', BooksInv, NEW p \in Requests, AcceptWrite(p)
    PROVE  BooksInv'
<1>1. req[p] # Idle
  BY DEF AcceptWrite, Idle
<1>2. CASE Refuse(p)
  BY <1>1, <1>2, RefuseBooks
<1>3. CASE ~Refuse(p)
  <2> DEFINE b == req[p].report
  <2>1. /\ b \in Reports /\ Quantity' = report[b].b3
        /\ posted' = [posted EXCEPT ![b] = @ + 1]
        /\ report' = [report EXCEPT ![b].state = "resolved"]
        /\ UNCHANGED <<batch, base, history>> /\ End(p)
    BY <1>3, AcceptWriteReaches
  <2> HIDE DEF b
  <2>2. Money'
    <3>1. report[b].b3 \in Nat
      BY <2>1, ReportIs DEF BooksInv, Money
    <3>2. report' \in [Reports -> Report] /\ posted' \in [Reports -> Nat]
      BY <2>1 DEF BooksInv, Money, Report
    <3>3. \A c \in Reports : report'[c].state = "none" => posted'[c] = 0
      BY <2>1 DEF BooksInv, Money, Report
    <3> QED
      BY <2>1, <3>1, <3>2, <3>3 DEF BooksInv, Money
  <2>3. Serving'
    BY <1>1, <2>1, EndServes DEF BooksInv
  <2>4. Tally'
    BY <2>1, TallyKept DEF BooksInv, batch, history
  <2> QED
    BY <2>2, <2>3, <2>4 DEF BooksInv
<1> QED
  BY <1>2, <1>3

-----------------------------------------------------------------------------
(* The ledger's own pages and the reports *)

LEMMA DeleteCopyBooks ==
    ASSUME LockedOverlaps, ReviewInv, ReviewInv', BooksInv, NEW x \in Rows, DeleteCopy(x)
    PROVE  BooksInv'
<1>1. /\ Replays(copy') /\ row' = [row EXCEPT ![x].copied = FALSE]
      /\ UNCHANGED <<counts, behind>> /\ UNCHANGED positions
  BY DEF DeleteCopy, LedgerRequest, positions
<1>2. Serving'
  BY PagesServe DEF DeleteCopy, LedgerRequest, BooksInv
<1>3. \A y \in Rows : row'[y].class = row[y].class
  BY <1>1 DEF ReviewInv, Shaped, ImportRow
<1>4. Money' /\ Tally'
  BY <1>1, <1>3, MoneyKept, TallyKept DEF BooksInv
<1> QED
  BY <1>2, <1>4 DEF BooksInv

LEMMA EditCopyBooks ==
    ASSUME LockedOverlaps, ReviewInv, ReviewInv', BooksInv, NEW x \in Rows, NEW t \in Types,
           EditCopy(x, t)
    PROVE  BooksInv'
<1>1. Replays(copy') /\ UNCHANGED <<row, counts, behind>> /\ UNCHANGED positions
  BY DEF EditCopy, LedgerRequest, positions
<1>2. Serving'
  BY PagesServe DEF EditCopy, LedgerRequest, BooksInv
<1>3. Money' /\ Tally'
  BY <1>1, MoneyKept, TallyKept DEF BooksInv
<1> QED
  BY <1>2, <1>3 DEF BooksInv

LEMMA TradeBooks ==
    ASSUME LockedOverlaps, ReviewInv, ReviewInv', BooksInv, NEW n \in {-1, 1}, Trade(n)
    PROVE  BooksInv'
<1>1. /\ base + n >= 0 /\ Quantity + n >= 0 /\ base' = base + n
      /\ UNCHANGED <<row, copy, counts, posted, report, behind>>
  BY DEF Trade, LedgerRequest
<1>2. Serving'
  BY PagesServe DEF Trade, LedgerRequest, BooksInv
<1>3. Tally'
  BY <1>1, TallyKept DEF BooksInv
<1>4. Money'
  <2> DEFINE s == Sum(Adjusting(report, posted), Reports)
  <2>1. Quantity = base + Moved(copy) + s /\ Quantity' = (base + n) + Moved(copy) + s
    BY <1>1, QuantityIs
  <2>2. s \in Int /\ Moved(copy) \in Int /\ base \in Int /\ n \in Int
    BY AdjustingInt, MovedInt DEF BooksInv, Money
  <2> HIDE DEF s
  <2>3. Quantity' >= 0
    BY <1>1, <2>1, <2>2
  <2>4. base' \in Nat
    BY <1>1, <2>2
  <2> QED
    BY <1>1, <2>3, <2>4 DEF BooksInv, Money
<1> QED
  BY <1>2, <1>3, <1>4 DEF BooksInv

LEMMA DeleteAdjustmentBooks ==
    ASSUME LockedOverlaps, ReviewInv, ReviewInv', BooksInv, NEW b \in Reports, DeleteAdjustment(b)
    PROVE  BooksInv'
<1>1. /\ posted[b] > 0 /\ Quantity - (report[b].b3 - report[b].computed) >= 0
      /\ posted' = [posted EXCEPT ![b] = @ - 1]
      /\ UNCHANGED <<row, copy, counts, base, report, behind>>
  BY DEF DeleteAdjustment, LedgerRequest
<1>2. Serving'
  BY PagesServe DEF DeleteAdjustment, LedgerRequest, BooksInv
<1>3. Tally'
  BY <1>1, TallyKept DEF BooksInv
<1>4. report \in [Reports -> Report] /\ posted \in [Reports -> Nat] /\ posted' \in [Reports -> Nat]
  BY <1>1 DEF BooksInv, Money
<1> DEFINE d == -1
           e == report[b].b3 - report[b].computed
           s == Sum(Adjusting(report, posted), Reports)
           t == Sum(Adjusting(report, posted'), Reports)
<1>5. t = s + d * e
  <2>1. d \in Int /\ posted'[b] = posted[b] + d /\ \A c \in Reports \ {b} : posted'[c] = posted[c]
    BY <1>1, <1>4
  <2> HIDE DEF d
  <2> QED
    BY <1>4, <2>1, OnePosted
<1>6. Quantity = base + Moved(copy) + s /\ Quantity' = base + Moved(copy) + t
  BY <1>1, QuantityIs
<1>7. s \in Int /\ e \in Int /\ Moved(copy) \in Int /\ base \in Int
  BY <1>4, AdjustingInt, ReportIs, MovedInt DEF BooksInv, Money
<1>8. Quantity' >= 0
  <2>1. Quantity - e >= 0
    BY <1>1
  <2> HIDE DEF s, t, e
  <2>2. d * e = -e
    BY <1>7
  <2> HIDE DEF d
  <2> QED
    BY <1>5, <1>6, <1>7, <2>1, <2>2
<1>9. \A c \in Reports : report'[c].state = "none" => posted'[c] = 0
  BY <1>1 DEF BooksInv, Money
<1> QED
  BY <1>1, <1>2, <1>3, <1>4, <1>8, <1>9 DEF BooksInv, Money

LEMMA ReportCommitBooks ==
    ASSUME LockedOverlaps, ReviewInv, ReviewInv', BooksInv, NEW b \in Reports, NEW b3 \in 0..Top,
           NEW listed \in BOOLEAN, ReportCommit(b, b3, listed)
    PROVE  BooksInv'
<1> DEFINE new == [state |-> IF b3 = Quantity THEN "agrees" ELSE "open", b3 |-> b3,
                   computed |-> Quantity, listed |-> listed, cause |-> Cause(listed)]
<1>1. /\ report[b].state = "none" /\ report' = [report EXCEPT ![b] = new]
      /\ UNCHANGED <<row, copy, counts, base, posted, behind>>
  BY DEF ReportCommit, batch, history
<1>2. Serving'
  BY PagesServe DEF ReportCommit, BooksInv
<1>3. Tally'
  BY <1>1, TallyKept DEF BooksInv
<1>4. report \in [Reports -> Report] /\ posted \in [Reports -> Nat] /\ posted[b] = 0
  BY <1>1 DEF BooksInv, Money
<1>5. new \in Report /\ new.state # "none"
  <2>1. Quantity \in Nat
    BY QuantityInt DEF BooksInv
  <2>2. Cause(listed) \in {"unclassified", "absent", "other"}
    BY DEF Cause
  <2> QED
    BY <2>1, <2>2 DEF Report
<1> HIDE DEF new
<1>6. report' \in [Reports -> Report] /\ \A c \in Reports \ {b} : report'[c] = report[c]
  BY <1>1, <1>4, <1>5
<1>7. Sum(Adjusting(report', posted), Reports) = Sum(Adjusting(report, posted), Reports)
  BY <1>4, <1>6, NoneReported
<1>8. Quantity' = Quantity
  BY <1>1, <1>7, QuantityIs
<1>9. \A c \in Reports : report'[c].state = "none" => posted[c] = 0
  BY <1>1, <1>4, <1>6 DEF BooksInv, Money
<1> QED
  BY <1>1, <1>2, <1>3, <1>6, <1>8, <1>9 DEF BooksInv, Money

-----------------------------------------------------------------------------
LEMMA InitBooks == Init => BooksInv
<1> SUFFICES ASSUME Init
             PROVE  BooksInv
  OBVIOUS
<1>1. ReviewInv
  BY InitReview
<1>2. Money
  <2>1. base \in Nat /\ posted \in [Reports -> Nat] /\ \A b \in Reports : posted[b] = 0
    BY DEF Init
  <2>2. report \in [Reports -> Report]
    BY BoundsAssumption DEF Init, Report
  <2>3. Moved(copy) = 0
    <3>1. Active(copy) = {}
      BY DEF Init, NoCopy, Active
    <3> QED
      BY <3>1, MovedIs, SumEmpty
  <2>4. Sum(Adjusting(report, posted), Reports) = 0
    <3> DEFINE f == Adjusting(report, posted)
    <3>1. \A b \in Reports : f[b] = 0
      <4>1. \A i \in Int : 0 * i = 0
        OBVIOUS
      <4> QED
        BY <2>1, <2>2, <4>1, ReportIs DEF Adjusting
    <3> HIDE DEF f
    <3>2. Sum(f, Reports) = 0
      BY <3>1, FiniteAssumption, SumZero
    <3> QED
      BY <3>2 DEF f
  <2>5. Quantity = base
    BY <2>1, <2>3, <2>4, QuantityIs
  <2> QED
    BY <2>1, <2>2, <2>5 DEF Money
<1>3. Tally
  <2>1. behind = {} /\ counts = Summary(row) /\ row \in [Rows -> ImportRow]
    BY <1>1 DEF Init, ReviewInv, Shaped
  <2>2. \A x \in Rows : Stale[x].class = row[x].class
    BY <2>1, TallyIs DEF Stale
  <2>3. Summary(Stale) = Summary(row)
    BY <2>2, SameClasses
  <2> QED
    BY <2>1, <2>3 DEF Tally
<1>4. Serving
  BY BoundsAssumption DEF Init, Serving, Sound, Idle
<1> QED
  BY <1>2, <1>3, <1>4 DEF BooksInv

LEMMA NextBooks ==
    LockedOverlaps /\ ReviewInv /\ ReviewInv' /\ BooksInv /\ [Next]_vars => BooksInv'
<1> SUFFICES ASSUME LockedOverlaps, ReviewInv, ReviewInv', BooksInv, [Next]_vars
             PROVE  BooksInv'
  OBVIOUS
<1>1. CASE UNCHANGED vars
  <2>1. UNCHANGED <<row, copy, counts, base, report, posted, req, lock, behind>>
    BY <1>1 DEF vars, batch, positions, history
  <2>2. Money'
    <3>1. Quantity' = Quantity
      BY <2>1, QuantityIs
    <3> QED
      BY <2>1, <3>1 DEF BooksInv, Money
  <2>3. Tally'
    BY <2>1, TallyKept DEF BooksInv
  <2>4. \A p \in Requests : Sound(req[p])'
    <3> SUFFICES ASSUME NEW p \in Requests
                 PROVE  Sound(req[p])'
      OBVIOUS
    <3>1. Quantity' = Quantity
      BY <2>1, QuantityIs
    <3>2. \A b \in Reports : Acceptable(b)' <=> Acceptable(b)
      BY <2>1, <3>1 DEF Acceptable, History, Active
    <3>3. Sound(req[p])
      BY DEF BooksInv, Serving
    <3>4. ASSUME NEW C PROVE Replays(C)' <=> Replays(C)
      <4>1. Adjusted(posted)' = Adjusted(posted)
        BY <2>1 DEF Adjusted
      <4> QED
        BY <2>1, <4>1 DEF Replays, Replayed
    <3>5. req[p].op = "commit" => Replays(Applying(req[p].reading, req[p].act, req[p].app))'
      BY <2>1, <3>3, <3>4 DEF Sound, Applying
    <3> QED
      BY <2>1, <3>2, <3>3, <3>5 DEF Sound, Pending
  <2> QED
    BY <2>1, <2>2, <2>3, <2>4 DEF BooksInv, Serving
<1>2. ASSUME NEW p \in Requests,
             \/ \E x \in Rows : IgnoreRead(p, x) \/ \E t \in Types : ClassifyRead(p, x, t)
             \/ \E x \in Exercises : OfferRead(p, x)
             \/ \E b \in Reports : AcceptRead(p, b)
      PROVE  BooksInv'
  BY <1>2, ReadsBooks
<1>3. ASSUME NEW p \in Requests, \E reading \in [Rows -> Readings] : CommitRead(p, reading)
      PROVE  BooksInv'
  BY <1>3, CommitReadBooks
<1>4. ASSUME NEW p \in Requests,
             \/ ClassifyWrite(p) \/ IgnoreWrite(p) \/ OfferWrite(p) \/ CommitWrite(p)
             \/ AcceptWrite(p)
      PROVE  BooksInv'
  BY <1>4, ClassifyWriteBooks, IgnoreWriteBooks, OfferWriteBooks, CommitWriteBooks,
     AcceptWriteBooks
<1>5. ASSUME NEW x \in Rows, DeleteCopy(x) \/ \E t \in Types : EditCopy(x, t)
      PROVE  BooksInv'
  BY <1>5, DeleteCopyBooks, EditCopyBooks
<1>6. ASSUME NEW n \in {-1, 1}, Trade(n)
      PROVE  BooksInv'
  BY <1>6, TradeBooks
<1>7. ASSUME NEW b \in Reports,
             \/ DeleteAdjustment(b)
             \/ \E b3 \in 0..Top, listed \in BOOLEAN : ReportCommit(b, b3, listed)
      PROVE  BooksInv'
  BY <1>7, DeleteAdjustmentBooks, ReportCommitBooks
<1> QED
  BY <1>1, <1>2, <1>3, <1>4, <1>5, <1>6, <1>7 DEF Next

\* No request but an acceptance posts an adjustment.
LEMMA AcceptReachesStep ==
    ASSUME LockedOverlaps, ReviewInv, BooksInv, [Next]_vars, NEW b \in Reports,
           posted'[b] > posted[b]
    PROVE  Quantity' = report[b].b3
<1>1. posted \in [Reports -> Nat]
  BY DEF BooksInv, Money
<1>2. posted' # posted
  BY <1>1
<1>3. PICK p \in Requests : AcceptWrite(p)
  <2>1. CASE UNCHANGED vars
    BY <1>2, <2>1 DEF vars, positions
  <2>2. ASSUME NEW q \in Requests,
               \/ \E x \in Rows : IgnoreRead(q, x) \/ \E t \in Types : ClassifyRead(q, x, t)
               \/ \E x \in Exercises : OfferRead(q, x)
               \/ \E c \in Reports : AcceptRead(q, c)
               \/ \E reading \in [Rows -> Readings] : CommitRead(q, reading)
        PROVE  FALSE
    BY <1>2, <2>2 DEF IgnoreRead, ClassifyRead, OfferRead, AcceptRead, CommitRead, Begin, positions
  <2>3. ASSUME NEW q \in Requests,
               ClassifyWrite(q) \/ IgnoreWrite(q) \/ OfferWrite(q) \/ CommitWrite(q)
        PROVE  FALSE
    BY <1>2, <2>3 DEF ClassifyWrite, IgnoreWrite, OfferWrite, CommitWrite, Refuse, positions
  <2>4. ASSUME \/ \E x \in Rows : DeleteCopy(x) \/ \E t \in Types : EditCopy(x, t)
               \/ \E n \in {-1, 1} : Trade(n)
               \/ \E c \in Reports, b3 \in 0..Top, listed \in BOOLEAN : ReportCommit(c, b3, listed)
        PROVE  FALSE
    BY <1>2, <2>4 DEF DeleteCopy, EditCopy, Trade, ReportCommit
  <2>5. ASSUME NEW c \in Reports, DeleteAdjustment(c)
        PROVE  FALSE
    <3>1. posted' = [posted EXCEPT ![c] = @ - 1]
      BY <2>5 DEF DeleteAdjustment
    <3> QED
      BY <1>1, <3>1
  <2> QED
    BY <2>1, <2>2, <2>3, <2>4, <2>5 DEF Next
<1>4. ~Refuse(p)
  BY <1>2 DEF Refuse, positions
<1>5. /\ posted' = [posted EXCEPT ![req[p].report] = @ + 1]
      /\ Quantity' = report[req[p].report].b3
  BY <1>3, <1>4, AcceptWriteReaches
<1>6. b = req[p].report
  BY <1>1, <1>5
<1> QED
  BY <1>5, <1>6

LEMMA BooksInvariant ==
    ASSUME LockedOverlaps
    PROVE  Spec => [](ReviewInv /\ BooksInv)
<1>1. Init => BooksInv
  BY InitBooks
<1>2. ReviewInv /\ ReviewInv' /\ BooksInv /\ [Next]_vars => BooksInv'
  BY NextBooks
<1> QED
  BY <1>1, <1>2, ReviewInvariant, PTL DEF Spec

\* Where only requests that take the import lock overlap, every variable keeps
\* its type: the stored counts never leave 0..the number of rows, although
\* commits add to them and subtract from them, no position turns negative, and
\* the import lock is held only by a request that answers or commits.
THEOREM TypeCorrect ==
    ASSUME LockedOverlaps
    PROVE  Spec => []TypeOK
<1>1. ReviewInv /\ BooksInv => TypeOK
  <2> SUFFICES ASSUME ReviewInv, BooksInv
               PROVE  TypeOK
    OBVIOUS
  <2>1. counts \in [{"new", "duplicates", "attention", "ignored"} -> 0..Cardinality(Rows)]
    <3>1. counts = Summary(Stale)
      BY DEF BooksInv, Tally
    <3>2. Summary(Stale) \in [{"new", "duplicates", "attention", "ignored"} -> 0..Cardinality(Rows)]
      BY SummaryIs, OfFinite
    <3> QED
      BY <3>1, <3>2
  <2>2. row \in [Rows -> ImportRow] /\ copy \in [Rows -> Copy]
    BY DEF ReviewInv, Shaped
  <2>3. /\ base \in Nat /\ Quantity >= 0
        /\ \A b \in Reports : report[b] \in Report /\ posted[b] \in Nat
    BY DEF BooksInv, Money
  <2>4. /\ \A p \in Requests : lock = p => KindOf(req[p].op) \in {"answer", "commit"}
        /\ lock \in Requests \cup {Free}
    BY DEF BooksInv, Serving
  <2> QED
    BY <2>1, <2>2, <2>3, <2>4 DEF TypeOK, Report
<1> QED
  BY <1>1, BooksInvariant, PTL

\* Under the same condition the stored counts lag behind the rows by the
\* classifications since they were last recounted and by nothing else, so a
\* commit loses and doubles no row (recountBatch, updateInPlace,
\* settleEarlierRefusals).
THEOREM CountsLagAlways ==
    ASSUME LockedOverlaps
    PROVE  Spec => []CountsLagOnly
<1>1. BooksInv => CountsLagOnly
  BY DEF BooksInv, Tally, Stale, CountsLagOnly
<1> QED
  BY <1>1, BooksInvariant, PTL

\* Under the same condition, so where nobody accepts the same difference at the
\* same time, an acceptance brings the position to B3's figure, however many
\* adjustments, trades and imports came between (adjustmentBlocker).
THEOREM AcceptAlwaysReaches ==
    ASSUME LockedOverlaps
    PROVE  Spec => AcceptReaches
<1> DEFINE Reaches == \A b \in Reports : posted'[b] > posted[b] => Quantity' = report[b].b3
<1>1. ReviewInv /\ BooksInv /\ [Next]_vars => [Reaches]_vars
  BY AcceptReachesStep
<1> QED
  BY <1>1, BooksInvariant, PTL DEF Spec, AcceptReaches
=============================================================================
