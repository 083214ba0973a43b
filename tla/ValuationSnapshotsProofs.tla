---------------------- MODULE ValuationSnapshotsProofs ----------------------
(***************************************************************************)
(* Proofs about ValuationSnapshots, for any transactions, requests, passes,  *)
(* days and bounds: its types, and that the rebuilds the writes ask for are  *)
(* enough to make the snapshots those of the ledger.                         *)
(***************************************************************************)
EXTENDS ValuationSnapshots, TLAPS, WellFoundedInduction

-----------------------------------------------------------------------------
(* Least and greatest days *)

LEMMA DaysAre ==
    /\ MaxDay \in Nat /\ Today \in Nat /\ 1 <= Today /\ Today <= MaxDay
    /\ Days \in SUBSET Nat /\ \A d \in Days : d \in Nat /\ 1 <= d /\ d <= MaxDay
  BY DaysAssumption DEF Days

LEMMA LeastOf ==
    ASSUME NEW S \in SUBSET Nat, S # {}
    PROVE  \E x \in S : \A y \in S : x <= y
  <1>1. PICK x \in S : \A y \in S : ~(<<y, x>> \in OpToRel(<, Nat))
    BY NatLessThanWellFounded, WFMin
  <1>2. \A y \in S : <<y, x>> \in OpToRel(<, Nat) <=> y < x
    BY DEF OpToRel
  <1>3. \A y \in S : ~(y < x)
    BY <1>1, <1>2, Zenon
  <1> QED
    BY <1>3

LEMMA MinIs ==
    ASSUME NEW S \in SUBSET Nat, S # {}
    PROVE  Min(S) \in S /\ \A y \in S : Min(S) <= y
  BY LeastOf DEF Min

LEMMA MaxIs ==
    ASSUME NEW S \in SUBSET Days, S # {}
    PROVE  Max(S) \in S /\ \A y \in S : Max(S) >= y
  <1> DEFINE T == {k \in 0..MaxDay : MaxDay - k \in S}
  <1>0. MaxDay \in Nat /\ T \in SUBSET Nat /\ \A y \in S : y \in Nat /\ 1 <= y /\ y <= MaxDay
    BY DaysAre
  <1>1. PICK s : s \in S
    OBVIOUS
  <1>2. MaxDay - s \in T
    BY <1>0, <1>1
  <1>3. PICK x \in T : \A y \in T : x <= y
    BY <1>0, <1>2, LeastOf
  <1>4. \A y \in S : MaxDay - y \in T
    BY <1>0
  <1>5. MaxDay - x \in S /\ \A y \in S : MaxDay - x >= y
    BY <1>0, <1>3, <1>4
  <1> QED
    BY <1>5 DEF Max

-----------------------------------------------------------------------------
(* What a rebuild covers, and what it writes *)

\* The days a ledger has something to value on.
LEMMA CoveredIs ==
    ASSUME NEW L \in [Ids -> Nat], NEW upto \in Nat
    PROVE  Covered(L, upto) = {d \in 1..upto : \E t \in Ids : L[t] \in 1..d}
  <1> DEFINE D == DatesOf(L)
             R == {d \in 1..upto : \E t \in Ids : L[t] \in 1..d}
  <1>1. D \in SUBSET Nat /\ \A x \in D : x \in Nat /\ 1 <= x /\ \E t \in Ids : L[t] = x
    BY DEF DatesOf
  <1>2. \A t \in Ids : L[t] # 0 => L[t] \in D
    BY DEF DatesOf
  <1>3. CASE D = {}
    BY <1>2, <1>3 DEF Covered
  <1>4. CASE D # {}
    <2>1. Min(D) \in D /\ \A y \in D : Min(D) <= y
      BY <1>1, <1>4, MinIs
    <2>2. Min(D) \in Nat /\ 1 <= Min(D)
      BY <1>1, <2>1
    <2>3. Covered(L, upto) = Min(D)..upto
      BY <1>4 DEF Covered
    <2>4. PICK s \in Ids : L[s] = Min(D)
      BY <1>1, <2>1
    <2> HIDE DEF D
    <2>5. \A d \in Min(D)..upto : d \in 1..upto /\ L[s] \in 1..d
      BY <2>2, <2>4
    <2>6. \A d \in R : d \in Min(D)..upto
      <3> SUFFICES ASSUME NEW d \in 1..upto, NEW t \in Ids, L[t] \in 1..d
                   PROVE  d \in Min(D)..upto
        OBVIOUS
      <3>1. L[t] \in D
        BY <1>2
      <3>2. Min(D) <= L[t]
        BY <2>1, <3>1
      <3> QED
        BY <2>2, <3>2
    <2> QED
      BY <2>3, <2>5, <2>6
  <1> QED
    BY <1>3, <1>4

LEMMA RebuildIs ==
    ASSUME NEW L \in [Ids -> Nat], NEW upto \in Nat, NEW from
    PROVE  RebuildDays(L, from, upto) = {d \in 1..upto : d >= from /\ \E t \in Ids : L[t] \in 1..d}
  BY CoveredIs DEF RebuildDays

LEMMA CarriedTyped ==
    ASSUME NEW C \in SUBSET Days, NEW d
    PROVE  CarriedClose(C, d) \in 0..MaxDay
  <1> DEFINE S == {c \in C : c <= d}
  <1>1. CASE S = {}
    BY <1>1, DaysAre DEF CarriedClose
  <1>2. CASE S # {}
    <2>1. Max(S) \in S
      BY <1>2, MaxIs
    <2>2. Max(S) \in Days
      BY <2>1
    <2>3. CarriedClose(C, d) = Max(S)
      BY <1>2 DEF CarriedClose
    <2>4. Days \subseteq 0..MaxDay
      BY DaysAre
    <2> QED
      BY <2>2, <2>3, <2>4
  <1> QED
    BY <1>1, <1>2

LEMMA ValueTyped ==
    ASSUME NEW L, NEW C \in SUBSET Days, NEW d
    PROVE  ValueOn(L, C, d) \in Snapshot
  BY CarriedTyped DEF ValueOn, Snapshot

LEMMA StoredIs ==
    ASSUME NEW f
    PROVE  f \in Stored <=> DOMAIN f \subseteq Days /\ f \in [DOMAIN f -> Snapshot]
  BY DEF Stored

LEMMA SeriesTyped ==
    ASSUME NEW L, NEW C \in SUBSET Days, NEW D \in SUBSET Days
    PROVE  Series(L, C, D) \in Stored /\ DOMAIN Series(L, C, D) = D
  <1>1. DOMAIN Series(L, C, D) = D
    BY DEF Series
  <1>2. Series(L, C, D) \in [D -> Snapshot]
    BY ValueTyped DEF Series
  <1> QED
    BY <1>1, <1>2, StoredIs

-----------------------------------------------------------------------------
(* Type correctness *)

LEMMA IdleTyped ==
    /\ Idle \in Execution /\ Idle.pc = "idle" /\ ~Idle.live /\ Idle.queue = "snapshot"
    /\ Idle.from = 0 /\ Idle.upto = Today /\ Idle.led \in [Ids -> {0}]
    /\ DOMAIN Idle.rows = {} /\ Idle.sees = {} /\ Idle.cut = {}
  <1>1. [d \in {} |-> 0] \in Stored /\ DOMAIN [d \in {} |-> 0] = {}
    BY StoredIs
  <1> QED
    BY <1>1, DaysAre DEF Idle, Execution, Pcs, Queues, Days

LEMMA NoEditTyped == NoEdit \in Edit /\ NoEdit.pc = "idle" /\ NoEdit.was = 0 /\ NoEdit.date = 0
  BY NamesAssumption, DaysAre DEF NoEdit, Edit

LEMMA InitTyped == Init => TypeOK
  <1> SUFFICES ASSUME Init PROVE TypeOK
    OBVIOUS
  <1>1. DataOK
    BY DaysAre DEF Init, DataOK
  <1>2. SnapOK
    <2>1. closes \in SUBSET Days /\ ledger \in [Ids -> Nat] /\ Today \in Nat
      BY DaysAre DEF Init
    <2>2. Covered(ledger, Today) \in SUBSET (1..Today) /\ 1..Today \subseteq Days
      BY <2>1, CoveredIs, DaysAre DEF Days
    <2> QED
      BY <2>1, <2>2, SeriesTyped DEF Init, SnapOK
  <1>3. WebOK
    BY <1>1, NoEditTyped, DaysAre DEF Init, WebOK
  <1>4. BossOK
    BY DEF Init, BossOK, Job
  <1>5. PassOK
    BY IdleTyped, DaysAre DEF Init, PassOK
  <1> QED
    BY <1>1, <1>2, <1>3, <1>4, <1>5 DEF Init, TypeOK

LEMMA HappensTyped ==
    ASSUME NEW kinds, Happens(kinds)
    PROVE  spent' \in [Events -> Nat]
  BY BoundsAssumption DEF Happens

LEMMA SpentTyped ==
    ASSUME TypeOK, [Next]_vars
    PROVE  spent' \in [Events -> Nat]
  <1>1. UNCHANGED spent \/ \E kinds : Happens(kinds)
    BY DEF Next, PassStep, vars, CommitEdit, BeginEdit, Ask, AskLost, CaptureClose, Nightly,
        AccrueTick, NextDay, Crash, ReadLedger, Compute, PersistBegin, PersistDelete,
        PersistCommit, Ack, TenantFails, ExpireLive, ExpireOrphan, Deliver
  <1> QED
    BY <1>1, HappensTyped DEF TypeOK

LEMMA DataTyped ==
    ASSUME TypeOK, [Next]_vars
    PROVE  DataOK' /\ today \in Nat /\ today' \in Nat /\ Today <= today /\ today <= today'
  <1>0. DataOK /\ today \in Nat /\ Today <= today
    BY DaysAre DEF TypeOK, DataOK
  <1>1. CASE NextDay
    BY <1>0, <1>1, DaysAre DEF NextDay, DataOK
  <1>2. ASSUME NEW e \in Editors, CommitEdit(e) PROVE DataOK' /\ today' = today
    <2>1. edit[e].date \in 0..today
      BY <1>0, DaysAre DEF TypeOK, WebOK, Edit
    <2> QED
      BY <1>0, <1>2, <2>1 DEF CommitEdit, DataOK
  <1>3. ASSUME NEW d \in Days, CaptureClose(d) PROVE DataOK' /\ today' = today
    BY <1>0, <1>3 DEF CaptureClose, DataOK
  <1>4. CASE UNCHANGED data
    BY <1>0, <1>4 DEF data, DataOK
  <1>5. NextDay \/ UNCHANGED data \/ (\E e \in Editors : CommitEdit(e)) \/ (\E d \in Days : CaptureClose(d))
    BY DEF Next, PassStep, vars, BeginEdit, Ask, AskLost, Nightly, AccrueTick, Crash, ReadLedger,
        Compute, PersistBegin, PersistDelete, PersistCommit, Ack, TenantFails, ExpireLive,
        ExpireOrphan, Deliver
  <1>6. UNCHANGED data => UNCHANGED today
    BY DEF data
  <1> QED
    BY <1>0, <1>1, <1>2, <1>3, <1>4, <1>5, <1>6

LEMMA SnapTyped ==
    ASSUME TypeOK, [Next]_vars
    PROVE  SnapOK'
  <1>1. (\E p \in Passes : PersistCommit(p)) \/ UNCHANGED snap
    BY DEF Next, PassStep, vars, CommitEdit, BeginEdit, Ask, AskLost, CaptureClose, Nightly,
        AccrueTick, NextDay, Crash, ReadLedger, Compute, PersistBegin, PersistDelete, Ack,
        TenantFails, ExpireLive, ExpireOrphan, Deliver
  <1>2. today \in Nat /\ today' \in Nat /\ today <= today'
    BY DataTyped
  <1>3. 1..today \subseteq 1..today'
    BY <1>2
  <1>4. snap \in Stored /\ DOMAIN snap \subseteq 1..today
    BY DEF TypeOK, SnapOK
  <1>5. CASE UNCHANGED snap
    BY <1>3, <1>4, <1>5 DEF SnapOK
  <1>6. ASSUME NEW p \in Passes, PersistCommit(p) PROVE SnapOK'
    <2> DEFINE r == pass[p]
               D == Kept(p) \cup DOMAIN r.rows
    <2>1. r.rows \in Stored /\ DOMAIN r.rows \subseteq 1..r.upto /\ r.upto \in Today..today
      BY DEF TypeOK, PassOK, Execution
    <2>2. 1..r.upto \subseteq 1..today
      BY <1>2, <2>1, DaysAre
    <2>3. snap' = [d \in D |-> IF d \in DOMAIN r.rows THEN r.rows[d] ELSE snap[d]]
      BY <1>6 DEF PersistCommit
    <2>4. Kept(p) \subseteq DOMAIN snap
      BY DEF Kept
    <2> HIDE DEF r
    <2>5. D \subseteq 1..today /\ D \subseteq Days
      BY <1>4, <2>1, <2>2, <2>4, StoredIs
    <2>6. \A d \in D : (IF d \in DOMAIN r.rows THEN r.rows[d] ELSE snap[d]) \in Snapshot
      BY <1>4, <2>1, <2>4, StoredIs
    <2>7. DOMAIN snap' = D /\ snap' \in [D -> Snapshot]
      BY <2>3, <2>6
    <2> HIDE DEF D
    <2>8. snap' \in Stored
      BY <2>5, <2>7, StoredIs
    <2> QED
      BY <1>3, <2>5, <2>7, <2>8 DEF SnapOK
  <1> QED
    BY <1>1, <1>5, <1>6

LEMMA StaleTyped ==
    ASSUME NEW was \in Nat, NEW date \in Nat, was # date
    PROVE  StaleFrom(was, date) \in {was, date} /\ 1 <= StaleFrom(was, date)
  <1> DEFINE S == {was, date} \ {0}
  <1>1. S \in SUBSET Nat /\ S # {} /\ \A x \in S : 1 <= x
    OBVIOUS
  <1>2. Min(S) \in S
    BY <1>1, MinIs
  <1> QED
    BY <1>1, <1>2 DEF StaleFrom

\* A change is a change: without it StaleFrom would have no date to return.
Changing == \A e \in Editors : edit[e].pc = "write" => edit[e].was # edit[e].date

LEMMA WebTyped ==
    ASSUME TypeOK, Changing, [Next]_vars
    PROVE  WebOK' /\ Changing'
  <1>0. /\ today \in Nat /\ today' \in Nat /\ today <= today'
        /\ edit \in [Editors -> Edit] /\ asked \in [Askers -> 0..today]
        /\ \A e \in Editors : edit[e].was <= today /\ edit[e].date <= today
        /\ ledger \in [Ids -> 0..today]
    BY DataTyped DEF TypeOK, WebOK, DataOK
  <1>1. 0..today \subseteq 0..today' /\ asked \in [Askers -> 0..today']
    BY <1>0
  <1>2. \A e \in Editors : edit[e].was <= today' /\ edit[e].date <= today'
    BY <1>0 DEF Edit
  <1>3. ASSUME NEW e \in Editors, NEW t \in Ids, NEW d \in 0..today, BeginEdit(e, t, d)
        PROVE  WebOK' /\ Changing'
    <2> DEFINE n == [pc |-> "write", id |-> t, was |-> ledger[t], date |-> d]
    <2>1. n \in Edit /\ n.was <= today /\ n.date <= today /\ n.was # n.date
      BY <1>0, <1>3, DaysAre DEF Edit, BeginEdit, TypeOK, DataOK
    <2>2. edit' = [edit EXCEPT ![e] = n] /\ asked' = asked /\ today' = today
      BY <1>3 DEF BeginEdit, data
    <2> HIDE DEF n
    <2> QED
      BY <1>0, <2>1, <2>2 DEF WebOK, Changing
  <1>4. ASSUME NEW e \in Editors, CommitEdit(e) PROVE WebOK' /\ Changing'
    <2> DEFINE s == StaleFrom(edit[e].was, edit[e].date)
    <2>1. edit[e].was \in 0..today /\ edit[e].date \in 0..today /\ edit[e].was # edit[e].date
      BY <1>0, <1>4 DEF Edit, CommitEdit, Changing
    <2>2. s \in 0..today
      BY <1>0, <2>1, StaleTyped
    <2>3. edit' = [edit EXCEPT ![e] = NoEdit] /\ asked' = [asked EXCEPT ![e] = s] /\ today' = today
      BY <1>4 DEF CommitEdit
    <2> HIDE DEF s
    <2>4. asked' \in [Askers -> 0..today]
      BY <1>0, <2>2, <2>3
    <2>5. edit' \in [Editors -> Edit] /\ \A x \in Editors : edit'[x] = edit[x] \/ edit'[x] = NoEdit
      BY <1>0, <2>3, NoEditTyped
    <2> QED
      BY <1>0, <2>3, <2>4, <2>5, NoEditTyped DEF WebOK, Changing
  <1>5. ASSUME NEW a \in Askers, NEW d \in 0..today, asked' = [asked EXCEPT ![a] = d], UNCHANGED <<edit, today>>
        PROVE  WebOK' /\ Changing'
    BY <1>0, <1>5 DEF WebOK, Changing
  <1>6. CASE UNCHANGED web
    <2>1. UNCHANGED <<edit, asked>>
      BY <1>6 DEF web
    <2> QED
      BY <1>0, <1>1, <1>2, <2>1 DEF WebOK, Changing
  <1>7. ASSUME NEW a \in Askers, Ask(a) \/ AskLost(a) PROVE WebOK' /\ Changing'
    <2>1. 0 \in 0..today /\ asked' = [asked EXCEPT ![a] = 0] /\ UNCHANGED <<edit, today>>
      BY <1>0, <1>7 DEF Ask, AskLost, data
    <2> QED
      BY <2>1, <1>5
  <1>8. ASSUME NEW d \in Days, CaptureClose(d) PROVE WebOK' /\ Changing'
    <2>1. d \in 0..today /\ Capture \in Askers
      BY <1>0, <1>8 DEF CaptureClose, Askers
    <2>2. asked' = [asked EXCEPT ![Capture] = d] /\ UNCHANGED <<edit, today>>
      BY <1>8 DEF CaptureClose
    <2> QED
      BY <2>1, <2>2, <1>5
  <1>9. \/ \E e \in Editors, t \in Ids, d \in 0..today : BeginEdit(e, t, d)
        \/ \E e \in Editors : CommitEdit(e)
        \/ \E a \in Askers : Ask(a) \/ AskLost(a)
        \/ \E d \in Days : CaptureClose(d)
        \/ UNCHANGED web
    BY DEF Next, PassStep, vars, Nightly, AccrueTick, NextDay, Crash, ReadLedger, Compute,
        PersistBegin, PersistDelete, PersistCommit, Ack, TenantFails, ExpireLive, ExpireOrphan,
        Deliver, web
  <1> QED
    BY <1>3, <1>4, <1>6, <1>7, <1>8, <1>9

LEMMA JobsTyped ==
    /\ NoJob.from = 0 /\ NoJob.try = RetryLimit + 1 /\ NoJob \in Job /\ RetryLimit \in Nat
    /\ \A f \in 0..MaxDay, n \in Nat : [from |-> f, try |-> n] \in Job
    /\ \A j \in Job : j.from \in 0..MaxDay /\ j.try \in Nat /\ [j EXCEPT !.try = @ + 1] \in Job
                      /\ [j EXCEPT !.try = @ + 1].from = j.from /\ [j EXCEPT !.try = @ + 1].try = j.try + 1
  BY BoundsAssumption, DaysAre DEF NoJob, Job

\* What is queued and handed out stays in any set of jobs that has the new ones
\* and those a retry makes.
LEMMA BossStep ==
    ASSUME TypeOK, [Next]_vars, NEW J \in SUBSET Job,
           queue \in [Queues -> Seq(J)], active \in [Queues -> J \cup {NoJob}],
           \A f \in 0..today : [from |-> f, try |-> 0] \in J,
           \A q \in Queues : ExpireOrphan(q) \/ (\E p \in Passes : ExpireLive(p) /\ pass[p].queue = q)
                              => [active[q] EXCEPT !.try = @ + 1] \in J
    PROVE  queue' \in [Queues -> Seq(J)] /\ active' \in [Queues -> J \cup {NoJob}]
  <1> DEFINE OK == queue' \in [Queues -> Seq(J)] /\ active' \in [Queues -> J \cup {NoJob}]
  <1>0. "snapshot" \in Queues /\ "accrue" \in Queues /\ 0 \in 0..today
    BY DaysAre DEF TypeOK, DataOK, Queues
  <1>1. ASSUME NEW q \in Queues, NEW f \in 0..today, UNCHANGED active,
               queue' = [queue EXCEPT ![q] = Append(@, [from |-> f, try |-> 0])]
        PROVE  OK
    <2>1. queue[q] \in Seq(J) /\ [from |-> f, try |-> 0] \in J
      OBVIOUS
    <2>2. Append(queue[q], [from |-> f, try |-> 0]) \in Seq(J)
      BY <2>1
    <2> QED
      BY <1>1, <2>2
  <1>2. ASSUME NEW a \in Askers, Ask(a) PROVE OK
    <2>1. asked[a] \in 0..today
      BY DEF TypeOK, WebOK
    <2> QED
      BY <1>0, <1>1, <1>2, <2>1 DEF Ask
  <1>3. CASE Nightly \/ AccrueTick
    BY <1>0, <1>1, <1>3 DEF Nightly, AccrueTick
  <1>4. ASSUME NEW q \in Queues, NEW p \in Passes, Deliver(q, p) PROVE OK
    <2>1. queue[q] \in Seq(J) /\ queue[q] # <<>>
      BY <1>4 DEF Deliver
    <2>2. Head(queue[q]) \in J /\ Tail(queue[q]) \in Seq(J)
      BY <2>1
    <2> QED
      BY <1>4, <2>2 DEF Deliver
  <1>5. ASSUME NEW q \in Queues, ExpireOrphan(q) \/ (\E p \in Passes : ExpireLive(p) /\ pass[p].queue = q)
        PROVE  OK
    <2>0. GiveUp(q)
      BY <1>5 DEF ExpireOrphan, ExpireLive
    <2> DEFINE j == [active[q] EXCEPT !.try = @ + 1]
    <2>1. active' = [active EXCEPT ![q] = NoJob]
      BY <2>0 DEF GiveUp
    <2>2. queue' = queue \/ (j \in J /\ queue' = [queue EXCEPT ![q] = Append(queue[q], j)])
      BY <1>5, <2>0 DEF GiveUp
    <2> HIDE DEF j
    <2>3. j \in J => Append(queue[q], j) \in Seq(J)
      OBVIOUS
    <2> QED
      BY <2>1, <2>2, <2>3
  <1>6. ASSUME NEW p \in Passes, ExpireLive(p) PROVE OK
    <2>1. pass[p].queue \in Queues
      BY DEF TypeOK, PassOK, Execution
    <2> QED
      BY <1>5, <1>6, <2>1
  <1>7. ASSUME NEW p \in Passes, Ack(p) PROVE OK
    BY <1>7 DEF Ack
  <1>8. CASE UNCHANGED boss
    BY <1>8 DEF boss
  <1>9. \/ \E a \in Askers : Ask(a)
        \/ Nightly \/ AccrueTick
        \/ \E q \in Queues, p \in Passes : Deliver(q, p)
        \/ \E p \in Passes : ExpireLive(p) \/ Ack(p)
        \/ \E q \in Queues : ExpireOrphan(q)
        \/ UNCHANGED boss
    BY DEF Next, PassStep, vars, CommitEdit, BeginEdit, AskLost, CaptureClose, NextDay, Crash,
        ReadLedger, Compute, PersistBegin, PersistDelete, PersistCommit, TenantFails, boss
  <1> QED
    BY <1>2, <1>3, <1>4, <1>5, <1>6, <1>7, <1>8, <1>9

\* A job asks for days that have begun.
Begun(n) == {j \in Job : j.from <= n}
BegunJobs == queue \in [Queues -> Seq(Begun(today))] /\ active \in [Queues -> Begun(today) \cup {NoJob}]

LEMMA BossTyped ==
    ASSUME TypeOK, BegunJobs, [Next]_vars
    PROVE  BossOK' /\ BegunJobs'
  <1>0. today \in 0..MaxDay /\ today \in Nat /\ today' \in Nat /\ today <= today' /\ MaxDay \in Nat
    BY DataTyped, DaysAre DEF TypeOK, DataOK
  <1>1. BossOK'
    <2>1. \A f \in 0..today : [from |-> f, try |-> 0] \in Job
      BY <1>0, JobsTyped
    <2>2. \A q \in Queues : [active[q] EXCEPT !.try = @ + 1] \in Job
      BY JobsTyped DEF TypeOK, BossOK
    <2>3. queue \in [Queues -> Seq(Job)] /\ active \in [Queues -> Job \cup {NoJob}]
      BY DEF TypeOK, BossOK
    <2>4. queue' \in [Queues -> Seq(Job)] /\ active' \in [Queues -> Job \cup {NoJob}]
      BY <2>1, <2>2, <2>3, BossStep
    <2> QED
      BY <2>4 DEF BossOK
  <1>2. queue' \in [Queues -> Seq(Begun(today))] /\ active' \in [Queues -> Begun(today) \cup {NoJob}]
    <2> DEFINE J == Begun(today)
    <2>1. \A f \in 0..today : [from |-> f, try |-> 0] \in J
      BY <1>0, JobsTyped DEF Begun
    <2>2. NoJob \in J
      BY <1>0, JobsTyped DEF Begun
    <2>3. \A q \in Queues : [active[q] EXCEPT !.try = @ + 1] \in J
      <3> SUFFICES ASSUME NEW q \in Queues PROVE [active[q] EXCEPT !.try = @ + 1] \in J
        OBVIOUS
      <3>1. active[q] \in J
        BY <2>2 DEF BegunJobs
      <3> QED
        BY <3>1, JobsTyped DEF Begun
    <2>4. queue \in [Queues -> Seq(J)] /\ active \in [Queues -> J \cup {NoJob}] /\ J \in SUBSET Job
      BY DEF BegunJobs, Begun
    <2> HIDE DEF J
    <2>5. queue' \in [Queues -> Seq(J)] /\ active' \in [Queues -> J \cup {NoJob}]
      BY <2>1, <2>3, <2>4, BossStep
    <2> QED
      BY <2>5 DEF J
  <1>3. Begun(today) \subseteq Begun(today')
    <2>1. \A j \in Job : j.from \in Nat
      BY <1>0 DEF Job
    <2>2. \A n \in Nat : n <= today => n <= today'
      BY <1>0
    <2> QED
      BY <2>1, <2>2 DEF Begun
  <1>4. BegunJobs'
    <2> DEFINE J == Begun(today)
               K == Begun(today')
    <2>1. queue' \in [Queues -> Seq(J)] /\ active' \in [Queues -> J \cup {NoJob}] /\ J \subseteq K
      BY <1>2, <1>3
    <2> HIDE DEF J, K
    <2>2. Seq(J) \subseteq Seq(K)
      BY <2>1
    <2>3. queue' \in [Queues -> Seq(K)] /\ active' \in [Queues -> K \cup {NoJob}]
      BY <2>1, <2>2
    <2> QED
      BY <2>3 DEF K, BegunJobs
  <1> QED
    BY <1>1, <1>4

\* A DELETE that waits has deleted nothing yet.
Waiting == \A p \in Passes : pass[p].pc = "delete" => pass[p].cut = {}


\* What PassOK says of one execution, on a day.
ExecutionOK(r, n) ==
    /\ r \in Execution
    /\ r.from <= n /\ r.upto \in Today..n
    /\ r.led \in [Ids -> 0..n]
    /\ DOMAIN r.rows \subseteq 1..r.upto
    /\ r.sees \subseteq 1..n /\ r.cut \subseteq r.sees
    /\ (r.pc = "delete" => r.cut = {})

PassesOK == pass \in [Passes -> Execution] /\ \A p \in Passes : ExecutionOK(pass[p], today)

LEMMA PassesAre == (PassOK /\ Waiting <=> PassesOK) /\ ((PassOK /\ Waiting)' <=> PassesOK')
  BY DEF PassOK, Waiting, ExecutionOK, PassesOK

LEMMA ExecutionStays ==
    ASSUME NEW n \in Nat, NEW m \in Nat, n <= m, NEW r, ExecutionOK(r, n)
    PROVE  ExecutionOK(r, m)
  <1>1. 0..n \subseteq 0..m /\ 1..n \subseteq 1..m /\ Today..n \subseteq Today..m
    BY DaysAre
  <1>2. r.from \in 0..MaxDay
    BY DEF ExecutionOK, Execution
  <1>3. r.from <= m
    BY <1>2, DaysAre DEF ExecutionOK
  <1>4. r.led \in [Ids -> 0..m]
    BY <1>1 DEF ExecutionOK
  <1> QED
    BY <1>1, <1>3, <1>4 DEF ExecutionOK

LEMMA IdleOK == ASSUME NEW n \in Nat, Today <= n PROVE ExecutionOK(Idle, n)
  BY IdleTyped, DaysAre DEF ExecutionOK

\* A step that changes one execution for one that is right.
LEMMA OnePass ==
    ASSUME PassesOK, NEW p \in Passes, NEW r, ExecutionOK(r, today), UNCHANGED today,
           pass' = [pass EXCEPT ![p] = r]
    PROVE  PassesOK'
  <1>1. r \in Execution
    BY DEF ExecutionOK
  <1>2. \A x \in Passes : pass'[x] = r \/ pass'[x] = pass[x]
    BY DEF PassesOK
  <1>3. pass' \in [Passes -> Execution]
    BY <1>1 DEF PassesOK
  <1>4. \A x \in Passes : ExecutionOK(pass[x], today)
    BY DEF PassesOK
  <1>5. \A x \in Passes : ExecutionOK(pass'[x], today')
    BY <1>2, <1>4
  <1> QED
    BY <1>3, <1>5 DEF PassesOK

LEMMA FinishedOK ==
    ASSUME PassesOK, NEW p \in Passes, today \in Nat, Today <= today
    PROVE  ExecutionOK(Finished(p), today)
  <1>1. pass[p].live \in BOOLEAN /\ pass[p].queue \in Queues
    BY DEF PassesOK, ExecutionOK, Execution
  <1>2. Finished(p) \in Execution
    BY <1>1, IdleTyped DEF Finished, Execution, Pcs
  <1>3. /\ Finished(p).from = 0 /\ Finished(p).upto = Today /\ Finished(p).led = Idle.led
        /\ Finished(p).rows = Idle.rows /\ Finished(p).sees = {} /\ Finished(p).cut = {}
    BY IdleTyped DEF Finished, Execution
  <1>4. Idle.led \in [Ids -> 0..today] /\ DOMAIN Idle.rows = {}
    BY IdleTyped
  <1> QED
    BY <1>2, <1>3, <1>4, DaysAre DEF ExecutionOK

\* What an execution is when its rebuild takes a step.
LEMMA PassFacts ==
    ASSUME TypeOK, Waiting, NEW p \in Passes
    PROVE  /\ PassesOK /\ ExecutionOK(pass[p], today) /\ pass[p] \in Execution
           /\ today \in Nat /\ Today <= today /\ today <= MaxDay /\ MaxDay \in Nat /\ today \in Today..today
           /\ 1..today \subseteq Days /\ closes \in SUBSET Days /\ ledger \in [Ids -> 0..today]
           /\ DOMAIN snap \subseteq 1..today
  <1>1. PassesOK
    BY PassesAre DEF TypeOK
  <1>2. ExecutionOK(pass[p], today) /\ pass[p] \in Execution
    BY <1>1 DEF PassesOK
  <1>3. today \in Nat /\ Today <= today /\ today <= MaxDay /\ MaxDay \in Nat /\ ledger \in [Ids -> 0..today]
    BY DaysAre DEF TypeOK, DataOK
  <1>4. 1..today \subseteq Days
    BY <1>3 DEF Days
  <1>5. closes \in SUBSET Days
    BY <1>4 DEF TypeOK, DataOK
  <1> QED
    BY <1>1, <1>2, <1>3, <1>4, <1>5, DaysAre DEF TypeOK, SnapOK

LEMMA ReadLedgerTyped ==
    ASSUME TypeOK, Waiting, NEW p \in Passes, ReadLedger(p)
    PROVE  PassesOK'
  <1> DEFINE r == [pass[p] EXCEPT !.pc = "compute", !.led = ledger]
  <1>1. ledger \in [Ids -> 0..MaxDay]
    BY PassFacts
  <1>2. r \in Execution
    BY <1>1, PassFacts DEF Execution, Pcs
  <1>3. ExecutionOK(r, today)
    BY <1>2, PassFacts DEF ExecutionOK, Execution
  <1>4. pass' = [pass EXCEPT ![p] = r] /\ UNCHANGED today
    BY DEF ReadLedger, data
  <1> HIDE DEF r
  <1> QED
    BY <1>3, <1>4, OnePass, PassFacts

LEMMA ComputeTyped ==
    ASSUME TypeOK, Waiting, NEW p \in Passes, Compute(p)
    PROVE  PassesOK'
  <1> DEFINE R == Series(pass[p].led, closes, RebuildDays(pass[p].led, pass[p].from, pass[p].upto))
             r == [pass[p] EXCEPT !.pc = "persist", !.led = Idle.led, !.rows = R]
  <1>1. pass[p].led \in [Ids -> Nat] /\ pass[p].upto \in Nat /\ pass[p].upto \in Days
    BY PassFacts, DaysAre DEF ExecutionOK, Execution
  <1>2. RebuildDays(pass[p].led, pass[p].from, pass[p].upto) \subseteq 1..pass[p].upto
    BY <1>1, RebuildIs
  <1>3. 1..pass[p].upto \subseteq Days
    BY <1>1, DaysAre DEF Days
  <1>4. R \in Stored /\ DOMAIN R \subseteq 1..pass[p].upto
    BY <1>2, <1>3, SeriesTyped, PassFacts
  <1>5. pass' = [pass EXCEPT ![p] = r] /\ UNCHANGED today
    BY DEF Compute, data
  <1>6. Idle.led \in [Ids -> 0..MaxDay] /\ Idle.led \in [Ids -> 0..today]
    BY IdleTyped, PassFacts
  <1> HIDE DEF R
  <1>7. r \in Execution
    BY <1>4, <1>6, PassFacts DEF Execution, Pcs
  <1>8. ExecutionOK(r, today)
    BY <1>4, <1>6, <1>7, PassFacts DEF ExecutionOK, Execution
  <1> HIDE DEF r
  <1> QED
    BY <1>5, <1>8, OnePass, PassFacts

LEMMA PersistBeginTyped ==
    ASSUME TypeOK, Waiting, NEW p \in Passes, PersistBegin(p)
    PROVE  PassesOK'
  <1> DEFINE F == Invalidated(p)
             r == [pass[p] EXCEPT !.pc = IF MayCut(p, F) THEN "write" ELSE "delete", !.sees = F,
                                  !.cut = IF MayCut(p, F) THEN F ELSE {}]
  <1>1. F \subseteq 1..today
    BY PassFacts DEF Invalidated
  <1>2. F \subseteq Days
    BY <1>1, PassFacts
  <1>3. pass' = [pass EXCEPT ![p] = r] /\ UNCHANGED today
    BY DEF PersistBegin, data
  <1> HIDE DEF F
  <1>4. r \in Execution
    BY <1>2, PassFacts DEF Execution, Pcs
  <1>5. ExecutionOK(r, today)
    BY <1>1, <1>4, PassFacts DEF ExecutionOK, Execution
  <1> HIDE DEF r
  <1> QED
    BY <1>3, <1>5, OnePass, PassFacts

LEMMA PersistDeleteTyped ==
    ASSUME TypeOK, Waiting, NEW p \in Passes, PersistDelete(p)
    PROVE  PassesOK'
  <1> DEFINE r == [pass[p] EXCEPT !.pc = "write", !.cut = pass[p].sees]
  <1>1. r \in Execution
    BY PassFacts DEF Execution, Pcs
  <1>2. ExecutionOK(r, today)
    BY <1>1, PassFacts DEF ExecutionOK, Execution
  <1>3. pass' = [pass EXCEPT ![p] = r] /\ UNCHANGED today
    BY DEF PersistDelete, data
  <1> HIDE DEF r
  <1> QED
    BY <1>2, <1>3, OnePass, PassFacts

LEMMA PersistCommitTyped ==
    ASSUME TypeOK, Waiting, NEW p \in Passes, PersistCommit(p)
    PROVE  PassesOK'
  <1> SUFFICES ASSUME NEW x \in Passes PROVE ExecutionOK(pass'[x], today')
    <2>1. DOMAIN pass' = Passes /\ pass' = [x \in Passes |-> pass'[x]]
      BY DEF PersistCommit
    <2> QED
      BY <2>1 DEF PassesOK, ExecutionOK
  <1>1. UNCHANGED today
    BY DEF PersistCommit, data
  <1>2. pass'[x] = IF x = p THEN Finished(p)
                   ELSE IF pass[x].pc = "delete" THEN [pass[x] EXCEPT !.sees = @ \ pass[p].cut]
                   ELSE pass[x]
    BY DEF PersistCommit
  <1>3. ExecutionOK(pass[x], today) /\ pass[x] \in Execution
    BY PassFacts
  <1>4. ExecutionOK(Finished(p), today)
    BY PassFacts, FinishedOK
  <1>5. CASE x = p
    BY <1>1, <1>2, <1>4, <1>5
  <1>6. CASE x # p /\ pass[x].pc = "delete"
    <2> DEFINE r == [pass[x] EXCEPT !.sees = @ \ pass[p].cut]
    <2>1. r \in Execution
      BY <1>3 DEF Execution
    <2>2. ExecutionOK(r, today)
      BY <1>3, <1>6, <2>1 DEF ExecutionOK, Execution
    <2> QED
      BY <1>1, <1>2, <1>6, <2>2
  <1>7. CASE x # p /\ pass[x].pc # "delete"
    BY <1>1, <1>2, <1>3, <1>7
  <1> QED
    BY <1>5, <1>6, <1>7

LEMMA DeliverTyped ==
    ASSUME TypeOK, Waiting, BegunJobs, NEW q \in Queues, NEW p \in Passes, Deliver(q, p)
    PROVE  PassesOK'
  <1> DEFINE f == IF q = "accrue" THEN today ELSE Head(queue[q]).from
             r == [Idle EXCEPT !.pc = "ledger", !.live = TRUE, !.queue = q, !.upto = today, !.from = f]
  <1>1. Head(queue[q]) \in Begun(today)
    <2>1. queue[q] \in Seq(Begun(today)) /\ queue[q] # <<>>
      BY DEF BegunJobs, Deliver
    <2> QED
      BY <2>1
  <1>2. Head(queue[q]).from \in 0..MaxDay /\ Head(queue[q]).from <= today
    BY <1>1 DEF Begun, Job
  <1>3. f \in 0..MaxDay /\ f <= today
    BY <1>2, PassFacts
  <1>4. pass' = [pass EXCEPT ![p] = r] /\ UNCHANGED today
    BY DEF Deliver, data
  <1> HIDE DEF f
  <1>5. today \in Days
    BY PassFacts, DaysAre DEF Days
  <1>6. r \in Execution
    BY <1>3, <1>5, IdleTyped DEF Execution, Pcs
  <1>7. Idle.led \in [Ids -> 0..today] /\ 1..today \subseteq Days
    BY IdleTyped, PassFacts
  <1>8. ExecutionOK(r, today)
    BY <1>3, <1>5, <1>6, <1>7, IdleTyped, PassFacts DEF ExecutionOK, Execution
  <1> HIDE DEF r
  <1> QED
    BY <1>4, <1>8, OnePass, PassFacts

LEMMA PassTyped ==
    ASSUME TypeOK, Waiting, BegunJobs, [Next]_vars
    PROVE  PassesOK'
  <1>0. PassesOK /\ today \in Nat /\ today' \in Nat /\ Today <= today /\ today <= today'
    BY DataTyped, PassesAre DEF TypeOK
  <1>1. ASSUME NEW p \in Passes, TenantFails(p) PROVE PassesOK'
    <2>1. pass' = [pass EXCEPT ![p] = Finished(p)] /\ UNCHANGED today
      BY <1>1 DEF TenantFails, data
    <2>2. ExecutionOK(Finished(p), today)
      BY <1>0, FinishedOK
    <2> QED
      BY <1>0, <2>1, <2>2, OnePass
  <1>2. ASSUME NEW p \in Passes, Ack(p) PROVE PassesOK'
    <2>1. pass' = [pass EXCEPT ![p] = Idle] /\ UNCHANGED today
      BY <1>2 DEF Ack, data
    <2>2. ExecutionOK(Idle, today)
      BY <1>0, IdleOK
    <2> QED
      BY <1>0, <2>1, <2>2, OnePass
  <1>3. ASSUME NEW p \in Passes, ExpireLive(p) PROVE PassesOK'
    <2> DEFINE r == [pass[p] EXCEPT !.live = FALSE]
    <2>1. pass' = [pass EXCEPT ![p] = r] /\ UNCHANGED today
      BY <1>3 DEF ExpireLive, data
    <2>2. r \in Execution
      BY PassFacts DEF Execution
    <2>3. ExecutionOK(r, today)
      BY <2>2, PassFacts DEF ExecutionOK, Execution
    <2> HIDE DEF r
    <2> QED
      BY <1>0, <2>1, <2>3, OnePass
  <1>4. CASE Crash
    <2>1. pass' = [p \in Passes |-> Idle] /\ UNCHANGED today
      BY <1>4 DEF Crash, data
    <2>2. ExecutionOK(Idle, today) /\ Idle \in Execution
      BY <1>0, IdleOK, IdleTyped
    <2> QED
      BY <2>1, <2>2 DEF PassesOK
  <1>5. CASE UNCHANGED pass
    <2>1. \A p \in Passes : ExecutionOK(pass[p], today')
      BY <1>0, ExecutionStays DEF PassesOK
    <2> QED
      BY <1>0, <1>5, <2>1 DEF PassesOK
  <1>6. ASSUME NEW p \in Passes, PassStep(p) PROVE PassesOK'
    BY <1>2, <1>6, ReadLedgerTyped, ComputeTyped, PersistBeginTyped, PersistDeleteTyped,
        PersistCommitTyped DEF PassStep
  <1>7. \/ \E p \in Passes : PassStep(p) \/ TenantFails(p) \/ ExpireLive(p)
        \/ \E q \in Queues, p \in Passes : Deliver(q, p)
        \/ Crash \/ UNCHANGED pass
    BY DEF Next, vars, CommitEdit, BeginEdit, Ask, AskLost, CaptureClose, Nightly, AccrueTick,
        NextDay, ExpireOrphan
  <1> QED
    BY <1>1, <1>3, <1>4, <1>5, <1>6, <1>7, DeliverTyped

TypeInv == TypeOK /\ Changing /\ BegunJobs /\ Waiting

LEMMA TypeStart == Init => TypeInv
  <1> SUFFICES ASSUME Init PROVE TypeInv
    OBVIOUS
  <1>1. Changing
    BY NoEditTyped DEF Init, Changing
  <1>2. Waiting
    BY IdleTyped DEF Init, Waiting
  <1>3. NoJob \in Begun(today)
    <2>1. today \in Nat /\ NoJob.from = 0
      BY DaysAre, JobsTyped DEF Init
    <2> QED
      BY <2>1, JobsTyped DEF Begun
  <1>4. BegunJobs
    BY <1>3 DEF Init, BegunJobs
  <1> QED
    BY <1>1, <1>2, <1>4, InitTyped DEF TypeInv

LEMMA TypeStep == TypeInv /\ [Next]_vars => TypeInv'
  <1> SUFFICES ASSUME TypeOK, Changing, BegunJobs, Waiting, [Next]_vars PROVE TypeInv'
    BY DEF TypeInv
  <1>1. (PassOK /\ Waiting)'
    BY PassTyped, PassesAre
  <1> QED
    BY <1>1, DataTyped, SnapTyped, WebTyped, BossTyped, SpentTyped DEF TypeInv, TypeOK

\* The tables, the jobs, the rebuilds in flight and the requests stay what the
\* code's types say, and no date is one that has not come.
THEOREM TypeCorrect == Spec => []TypeOK
  <1>1. TypeInv => TypeOK
    BY DEF TypeInv
  <1> QED
    BY <1>1, TypeStart, TypeStep, PTL DEF Spec

-----------------------------------------------------------------------------
(* The rebuilds the writes ask for are enough *)

\* One rebuild at a time, for the job handed out, and what it has deleted is
\* all there is from its date.
Busy(p)    == pass[p].pc # "idle"
Writing(p) == pass[p].pc \in {"compute", "persist", "write"}

OneRebuild ==
    /\ queue["accrue"] = <<>> /\ active["accrue"] = NoJob
    /\ \A p \in Passes : ~Busy(p) => pass[p] = Idle
    /\ \A p, x \in Passes : Busy(p) /\ Busy(x) => p = x
    /\ \A p \in Passes : Busy(p) =>
         /\ pass[p].live /\ pass[p].queue = "snapshot" /\ pass[p].pc # "delete"
         /\ active["snapshot"] # NoJob
         /\ pass[p].pc # "ack" => pass[p].from = active["snapshot"].from
         /\ pass[p].pc = "write" => pass[p].cut = Invalidated(p)
         /\ pass[p].pc \in {"persist", "write"} => \A d \in DOMAIN pass[p].rows : d >= pass[p].from

\* A job has been tried no more often than the worker has died, and less when
\* it is left with no rebuild: there is a retry for it.
Tried(n) == {j \in Job : j.try <= n}
RetryLeft ==
    /\ queue["snapshot"] \in Seq(Tried(spent["crash"]))
    /\ active["snapshot"] \in Tried(spent["crash"]) \cup {NoJob}
    /\ active["snapshot"] # NoJob /\ (\A p \in Passes : ~Busy(p)) => active["snapshot"].try < spent["crash"]

\* One change at a time, of the row it read.
OneChange ==
    /\ \A e \in Editors : edit[e].pc = "write" => asked[e] = 0 /\ edit[e].was = ledger[edit[e].id]
    /\ \A e, x \in Editors : edit[e].pc = "write" /\ edit[x].pc = "write" => e = x

\* A rebuild is still to read the ledger for the day.
Pending(d) ==
    \/ \E a \in Askers : asked[a] \in 1..d
    \/ \E i \in 1..Len(queue["snapshot"]) : queue["snapshot"][i].from <= d
    \/ active["snapshot"] # NoJob /\ active["snapshot"].from <= d /\ \A p \in Passes : pass[p].pc \in {"idle", "ledger"}

\* What a rebuild will write.
Written(p) ==
    IF pass[p].pc = "compute"
    THEN Series(pass[p].led, closes, RebuildDays(pass[p].led, pass[p].from, pass[p].upto))
    ELSE pass[p].rows

Held(L, d) == \E t \in Ids : L[t] \in 1..d

\* What f says of the day is what a ledger and closes say.
Right(f, L, C, d) ==
    /\ d \in DOMAIN f => Held(L, d) /\ f[d] = ValueOn(L, C, d)
    /\ d \notin DOMAIN f /\ Held(L, d) => d > Today

\* What the rebuild will write of the day is right; with none to write it, what
\* is stored.
Sound(d) ==
    /\ \A p \in Passes : Writing(p) /\ pass[p].from <= d => Right(Written(p), ledger, closes, d)
    /\ (\A p \in Passes : ~(Writing(p) /\ pass[p].from <= d)) => Right(snap, ledger, closes, d)

Fresh == \A d \in 1..today : Pending(d) \/ Sound(d)

CalmInv == Calm => OneRebuild /\ RetryLeft /\ OneChange /\ Fresh
DayInv == today = Today + spent["day"]

-----------------------------------------------------------------------------
(* The steps of a calm behaviour *)

LEMMA Counting ==
    ASSUME TypeOK, NEW kinds, Happens(kinds)
    PROVE  \A k \in Events : /\ spent[k] \in Nat /\ spent'[k] \in Nat /\ spent[k] <= spent'[k]
                             /\ k \in kinds => spent'[k] = spent[k] + 1
                             /\ k \notin kinds => spent'[k] = spent[k]
  <1> TAKE k \in Events
  <1>1. spent[k] \in Nat /\ spent' = [x \in Events |-> IF x \in kinds THEN spent[x] + 1 ELSE spent[x]]
    BY DEF TypeOK, Happens
  <1> QED
    BY <1>1

LEMMA Growing ==
    ASSUME TypeOK, [Next]_vars
    PROVE  \A k \in Events : spent[k] \in Nat /\ spent'[k] \in Nat /\ spent[k] <= spent'[k]
  <1>1. UNCHANGED spent \/ \E kinds : Happens(kinds)
    BY DEF Next, PassStep, vars, CommitEdit, BeginEdit, Ask, AskLost, CaptureClose, Nightly,
        AccrueTick, NextDay, Crash, ReadLedger, Compute, PersistBegin, PersistDelete,
        PersistCommit, Ack, TenantFails, ExpireLive, ExpireOrphan, Deliver
  <1>2. CASE UNCHANGED spent
    BY <1>2 DEF TypeOK
  <1>3. ASSUME NEW kinds, Happens(kinds)
        PROVE  \A k \in Events : spent[k] \in Nat /\ spent'[k] \in Nat /\ spent[k] <= spent'[k]
    BY <1>3, Counting
  <1> QED
    BY <1>1, <1>2, <1>3

CalmStep ==
    \/ \E e \in Editors : CommitEdit(e)
    \/ \E e \in Editors, t \in Ids, d \in 0..today :
         BeginEdit(e, t, d) /\ \A x \in Editors : edit[x].pc = "idle"
    \/ \E a \in Askers : Ask(a)
    \/ \E d \in Days : CaptureClose(d)
    \/ Nightly \/ NextDay \/ Crash
    \/ \E p \in Passes : PassStep(p)
    \/ \E q \in Queues : ExpireOrphan(q) \/ \E p \in Passes : Deliver(q, p)
    \/ UNCHANGED vars

LEMMA CalmSteps ==
    ASSUME TypeOK, [Next]_vars, Calm'
    PROVE  Calm /\ CalmStep /\ \A p \in Passes : ~ExpireLive(p)
  <1> DEFINE K == {"lost", "fault", "expiry", "overlap", "accrue"}
  <1>1. K \subseteq Events /\ "crash" \in Events
    BY DEF Events
  <1>2. \A k \in K : spent'[k] = 0
    BY DEF Calm, Without
  <1>3. Calm
    <2>1. \A k \in K : spent[k] = 0
      BY <1>1, <1>2, Growing
    <2>2. spent["crash"] <= RetryLimit
      BY <1>1, Growing, BoundsAssumption DEF Calm
    <2> QED
      BY <2>1, <2>2 DEF Calm, Without
  <1>4. ASSUME NEW kinds, Happens(kinds), NEW k \in K, k \in kinds PROVE FALSE
    BY <1>1, <1>2, <1>4, Counting
  <1>5. \A a \in Askers : ~AskLost(a)
    BY <1>4 DEF AskLost
  <1>6. ~AccrueTick
    BY <1>4 DEF AccrueTick
  <1>7. \A p \in Passes : ~TenantFails(p) /\ ~ExpireLive(p)
    BY <1>4 DEF TenantFails, ExpireLive
  <1>8. ASSUME NEW e \in Editors, NEW t \in Ids, NEW d \in 0..today, BeginEdit(e, t, d)
        PROVE  \A x \in Editors : edit[x].pc = "idle"
    <2> SUFFICES ASSUME NEW x \in Editors, edit[x].pc # "idle" PROVE FALSE
      OBVIOUS
    <2>1. Happens({"write"} \cup {"overlap"})
      BY <1>8 DEF BeginEdit
    <2> QED
      BY <2>1, <1>4
  <1> QED
    BY <1>3, <1>5, <1>6, <1>7, <1>8 DEF Next, CalmStep

-----------------------------------------------------------------------------
(* One change at a time *)

LEMMA OneChangeStep ==
    ASSUME TypeInv, OneChange, CalmStep
    PROVE  OneChange'
  <1>0. /\ edit \in [Editors -> Edit] /\ asked \in [Askers -> 0..today] /\ Editors \subseteq Askers
        /\ Capture \in Askers /\ Capture \notin Editors /\ ledger \in [Ids -> 0..today]
    BY NamesAssumption DEF TypeInv, TypeOK, WebOK, DataOK, Askers
  <1>1. ASSUME NEW e \in Editors, CommitEdit(e) PROVE OneChange'
    <2>1. edit' = [edit EXCEPT ![e] = NoEdit] /\ edit[e].pc = "write"
      BY <1>1 DEF CommitEdit
    <2>2. \A x \in Editors : edit'[x].pc = "write" => x # e /\ edit[x].pc = "write"
      BY <1>0, <2>1, NoEditTyped
    <2>3. \A x \in Editors : edit'[x].pc # "write"
      BY <2>1, <2>2 DEF OneChange
    <2> QED
      BY <2>3 DEF OneChange
  <1>2. ASSUME NEW e \in Editors, NEW t \in Ids, NEW d \in 0..today, BeginEdit(e, t, d),
               \A x \in Editors : edit[x].pc = "idle"
        PROVE  OneChange'
    <2> DEFINE n == [pc |-> "write", id |-> t, was |-> ledger[t], date |-> d]
    <2>1. edit' = [edit EXCEPT ![e] = n] /\ UNCHANGED <<asked, ledger>> /\ asked[e] = 0
      BY <1>2 DEF BeginEdit, data
    <2>2. n.was = ledger[n.id]
      OBVIOUS
    <2> HIDE DEF n
    <2>3. \A x \in Editors : edit'[x].pc = "write" => x = e
      BY <1>0, <1>2, <2>1
    <2>4. edit'[e] = n
      BY <1>0, <2>1
    <2> QED
      BY <2>1, <2>2, <2>3, <2>4 DEF OneChange
  <1>3. ASSUME NEW a \in Askers, Ask(a) PROVE OneChange'
    <2>1. UNCHANGED <<edit, ledger>> /\ asked' = [asked EXCEPT ![a] = 0]
      BY <1>3 DEF Ask, data
    <2>2. \A e \in Editors : asked[e] = 0 => asked'[e] = 0
      BY <1>0, <2>1
    <2> QED
      BY <2>1, <2>2 DEF OneChange
  <1>4. ASSUME NEW d \in Days, CaptureClose(d) PROVE OneChange'
    <2>1. UNCHANGED <<edit, ledger>> /\ asked' = [asked EXCEPT ![Capture] = d]
      BY <1>4 DEF CaptureClose
    <2>2. \A e \in Editors : asked'[e] = asked[e]
      BY <1>0, <2>1
    <2> QED
      BY <2>1, <2>2 DEF OneChange
  <1>5. CASE UNCHANGED <<edit, asked, ledger>>
    BY <1>5 DEF OneChange
  <1>6. \/ \E e \in Editors : CommitEdit(e)
        \/ \E e \in Editors, t \in Ids, d \in 0..today :
             BeginEdit(e, t, d) /\ \A x \in Editors : edit[x].pc = "idle"
        \/ \E a \in Askers : Ask(a)
        \/ \E d \in Days : CaptureClose(d)
        \/ UNCHANGED <<edit, asked, ledger>>
    BY DEF CalmStep, PassStep, vars, data, web, Nightly, NextDay, Crash, ReadLedger, Compute,
        PersistBegin, PersistDelete, PersistCommit, Ack, ExpireOrphan, Deliver
  <1> QED
    BY <1>1, <1>2, <1>3, <1>4, <1>5, <1>6

-----------------------------------------------------------------------------
(* One rebuild at a time *)

\* What OneRebuild says of a rebuild, beside the others.
Proper(p) ==
    /\ pass[p].live /\ pass[p].queue = "snapshot" /\ pass[p].pc # "delete"
    /\ active["snapshot"] # NoJob
    /\ pass[p].pc # "ack" => pass[p].from = active["snapshot"].from
    /\ pass[p].pc = "write" => pass[p].cut = Invalidated(p)
    /\ pass[p].pc \in {"persist", "write"} => \A d \in DOMAIN pass[p].rows : d >= pass[p].from

LEMMA Alone ==
    ASSUME OneRebuild, NEW p \in Passes, Busy(p)
    PROVE  /\ Proper(p) /\ CutByOthers(p) = {} /\ \A S : MayCut(p, S)
           /\ \A x \in Passes : x # p => pass[x] = Idle /\ ~Busy(x)
  <1>1. \A x \in Passes : x # p => pass[x] = Idle /\ ~Busy(x)
    BY DEF OneRebuild
  <1>2. \A x \in Passes \ {p} : pass[x].cut = {}
    BY <1>1, IdleTyped
  <1>3. CutByOthers(p) = {}
    BY <1>2 DEF CutByOthers
  <1>4. Proper(p)
    BY DEF OneRebuild, Proper
  <1> QED
    BY <1>1, <1>3, <1>4 DEF MayCut

\* No rebuild runs when a job is handed out, or given up.
LEMMA NoneLive ==
    ASSUME OneRebuild, \A x \in Passes : ~(pass[x].live /\ pass[x].queue = "snapshot")
    PROVE  \A x \in Passes : ~Busy(x) /\ pass[x] = Idle
  BY DEF OneRebuild

\* A step of the one rebuild.
LEMMA OneGoesOn ==
    ASSUME TypeInv, OneRebuild, NEW p \in Passes, Busy(p), UNCHANGED boss, NEW r,
           pass' = [pass EXCEPT ![p] = r], r.pc # "idle", Proper(p)'
    PROVE  OneRebuild'
  <1>1. pass \in [Passes -> Execution]
    BY DEF TypeInv, TypeOK, PassOK
  <1>2. pass'[p] = r /\ \A x \in Passes : x # p => pass'[x] = pass[x]
    BY <1>1
  <1>3. \A x \in Passes : x # p => pass'[x] = Idle /\ ~Busy(x)'
    BY <1>2, Alone DEF Busy
  <1>4. Busy(p)'
    BY <1>2 DEF Busy
  <1>5. queue["accrue"]' = <<>> /\ active["accrue"]' = NoJob
    BY DEF OneRebuild, boss
  <1> QED
    BY <1>3, <1>4, <1>5 DEF OneRebuild, Proper

LEMMA OneIdle ==
    ASSUME queue'["accrue"] = <<>>, active'["accrue"] = NoJob, \A x \in Passes : pass'[x] = Idle
    PROVE  OneRebuild'
  BY IdleTyped DEF OneRebuild, Busy

LEMMA OneSame ==
    ASSUME OneRebuild, queue'["accrue"] = queue["accrue"], UNCHANGED <<active, pass, snap>>
    PROVE  OneRebuild'
  BY DEF OneRebuild, Busy, Invalidated

LEMMA OneRebuildStep ==
    ASSUME TypeInv, OneRebuild, RetryLeft, Calm, CalmStep
    PROVE  OneRebuild'
  <1>0. /\ queue \in [Queues -> Seq(Job)] /\ active \in [Queues -> Job \cup {NoJob}]
        /\ pass \in [Passes -> Execution] /\ "snapshot" \in Queues /\ "accrue" \in Queues
        /\ \A q \in Queues : q = "snapshot" \/ q = "accrue"
        /\ \A p \in Passes : pass[p] \in Execution
    BY DEF TypeInv, TypeOK, BossOK, PassOK, Queues
  <1>1. ASSUME NEW a \in Askers, Ask(a) PROVE OneRebuild'
    BY <1>0, <1>1, OneSame DEF Ask
  <1>2. CASE Nightly
    BY <1>0, <1>2, OneSame DEF Nightly
  <1>3. CASE Crash
    BY <1>3, OneIdle DEF Crash, boss, OneRebuild
  <1>4. ASSUME NEW q \in Queues, ExpireOrphan(q) PROVE OneRebuild'
    <2>1. q = "snapshot"
      BY <1>0, <1>4 DEF ExpireOrphan, OneRebuild
    <2>2. \A x \in Passes : pass'[x] = Idle
      BY <1>4, <2>1, NoneLive DEF ExpireOrphan
    <2>3. queue'["accrue"] = <<>> /\ active'["accrue"] = NoJob
      BY <1>0, <1>4, <2>1 DEF ExpireOrphan, GiveUp, OneRebuild
    <2> QED
      BY <2>2, <2>3, OneIdle
  <1>5. ASSUME NEW q \in Queues, NEW p \in Passes, Deliver(q, p) PROVE OneRebuild'
    <2> DEFINE j == Head(queue["snapshot"])
               r == [Idle EXCEPT !.pc = "ledger", !.live = TRUE, !.queue = "snapshot", !.upto = today, !.from = j.from]
    <2>1. q = "snapshot"
      BY <1>0, <1>5 DEF Deliver, OneRebuild
    <2>2. \A x \in Passes : ~Busy(x) /\ pass[x] = Idle
      BY <1>5, <2>1, NoneLive DEF Deliver
    <2>3. j # NoJob
      <3>1. queue["snapshot"] \in Seq(Tried(spent["crash"])) /\ queue["snapshot"] # <<>>
        BY <1>5, <2>1 DEF RetryLeft, Deliver
      <3>2. j \in Tried(spent["crash"])
        BY <3>1
      <3>3. spent["crash"] \in Nat /\ spent["crash"] <= RetryLimit
        BY DEF Calm, TypeInv, TypeOK, Events
      <3>4. j.try \in Nat /\ j.try <= spent["crash"]
        BY <3>2 DEF Tried, Job
      <3> HIDE DEF j
      <3>5. j.try # RetryLimit + 1
        BY <3>3, <3>4, BoundsAssumption
      <3> QED
        BY <3>5, JobsTyped
    <2>4. pass' = [pass EXCEPT ![p] = r] /\ active' = [active EXCEPT !["snapshot"] = j]
          /\ queue' = [queue EXCEPT !["snapshot"] = Tail(@)] /\ UNCHANGED snap
      BY <1>5, <2>1 DEF Deliver
    <2>5. r.pc = "ledger" /\ r.live /\ r.queue = "snapshot" /\ r.from = j.from
      BY DEF Idle
    <2> HIDE DEF r
    <2>6. pass'[p] = r /\ \A x \in Passes : x # p => pass'[x] = Idle /\ ~Busy(x)'
      BY <1>0, <2>2, <2>4, IdleTyped DEF Busy
    <2> HIDE DEF j
    <2>7. active'["snapshot"] = j /\ active'["accrue"] = NoJob /\ queue'["accrue"] = <<>>
      BY <1>0, <2>4 DEF OneRebuild
    <2> QED
      BY <2>3, <2>5, <2>6, <2>7 DEF OneRebuild, Busy
  <1>6. ASSUME NEW p \in Passes, ReadLedger(p) PROVE OneRebuild'
    <2> DEFINE r == [pass[p] EXCEPT !.pc = "compute", !.led = ledger]
    <2>1. Busy(p) /\ UNCHANGED boss /\ pass' = [pass EXCEPT ![p] = r]
      BY <1>6 DEF ReadLedger, Busy
    <2>2. r.pc = "compute" /\ r.live = pass[p].live /\ r.queue = pass[p].queue /\ r.from = pass[p].from
      BY <1>0 DEF Execution
    <2>3. Proper(p) /\ pass[p].pc = "ledger" /\ UNCHANGED active
      BY <2>1, <1>6, Alone DEF ReadLedger, boss
    <2> HIDE DEF r
    <2>4. pass'[p] = r
      BY <1>0, <2>1
    <2>5. Proper(p)'
      BY <2>2, <2>3, <2>4 DEF Proper
    <2> QED
      BY <2>1, <2>2, <2>5, OneGoesOn
  <1>7. ASSUME NEW p \in Passes, Compute(p) PROVE OneRebuild'
    <2> DEFINE R == Series(pass[p].led, closes, RebuildDays(pass[p].led, pass[p].from, pass[p].upto))
               r == [pass[p] EXCEPT !.pc = "persist", !.led = Idle.led, !.rows = R]
    <2>1. Busy(p) /\ UNCHANGED boss /\ pass' = [pass EXCEPT ![p] = r]
      BY <1>7 DEF Compute, Busy
    <2>2. r.pc = "persist" /\ r.live = pass[p].live /\ r.queue = pass[p].queue /\ r.from = pass[p].from /\ r.rows = R
      BY <1>0 DEF Execution
    <2>3. Proper(p) /\ pass[p].pc = "compute" /\ UNCHANGED active
      BY <2>1, <1>7, Alone DEF Compute, boss
    <2>4. \A d \in DOMAIN R : d >= pass[p].from
      BY DEF Series, RebuildDays
    <2> HIDE DEF r, R
    <2>5. pass'[p] = r
      BY <1>0, <2>1
    <2>6. Proper(p)'
      BY <2>2, <2>3, <2>4, <2>5 DEF Proper
    <2> QED
      BY <2>1, <2>2, <2>6, OneGoesOn
  <1>8. ASSUME NEW p \in Passes, PersistBegin(p) PROVE OneRebuild'
    <2> DEFINE F == Invalidated(p)
               r == [pass[p] EXCEPT !.pc = "write", !.sees = F, !.cut = F]
    <2>1. Busy(p) /\ UNCHANGED boss /\ pass[p].pc = "persist" /\ UNCHANGED snap
      BY <1>8 DEF PersistBegin, Busy
    <2>2. MayCut(p, F)
      BY <2>1, Alone
    <2>3. pass' = [pass EXCEPT ![p] = r]
      BY <1>8, <2>2 DEF PersistBegin
    <2> HIDE DEF F
    <2>4. r.pc = "write" /\ r.live = pass[p].live /\ r.queue = pass[p].queue /\ r.from = pass[p].from
          /\ r.rows = pass[p].rows /\ r.cut = F
      BY <1>0 DEF Execution
    <2>5. Proper(p) /\ UNCHANGED active
      BY <2>1, Alone DEF boss
    <2> HIDE DEF r
    <2>6. pass'[p] = r
      BY <1>0, <2>3
    <2>7. F = Invalidated(p)'
      BY <2>1, <2>4, <2>6 DEF F, Invalidated
    <2>8. Proper(p)'
      BY <2>1, <2>4, <2>5, <2>6, <2>7 DEF Proper
    <2> QED
      BY <2>1, <2>3, <2>4, <2>8, OneGoesOn
  <1>9. ASSUME NEW p \in Passes, PersistDelete(p) PROVE FALSE
    BY <1>9, Alone DEF PersistDelete, Busy, Proper
  <1>10. ASSUME NEW p \in Passes, PersistCommit(p) PROVE OneRebuild'
    <2> DEFINE r == Finished(p)
    <2>1. Busy(p) /\ UNCHANGED boss
      BY <1>10 DEF PersistCommit, Busy
    <2>2. Proper(p) /\ (\A x \in Passes : x # p => pass[x] = Idle)
      BY <2>1, Alone
    <2>3. \A x \in Passes : x # p => pass[x].pc # "delete"
      BY <2>2, IdleTyped
    <2>4. DOMAIN pass' = Passes /\ \A x \in Passes : pass'[x] = IF x = p THEN r ELSE pass[x]
      BY <1>10, <2>3 DEF PersistCommit
    <2>5. pass' = [x \in Passes |-> pass'[x]]
      BY <1>10 DEF PersistCommit
    <2>6. pass' = [pass EXCEPT ![p] = r]
      BY <1>0, <2>4, <2>5
    <2>7. r.pc = "ack" /\ r.live = pass[p].live /\ r.queue = pass[p].queue
      BY DEF Finished, Idle
    <2> HIDE DEF r
    <2>8. Proper(p)'
      BY <2>1, <2>2, <2>4, <2>7 DEF Proper, boss
    <2> QED
      BY <2>1, <2>6, <2>7, <2>8, OneGoesOn
  <1>11. ASSUME NEW p \in Passes, Ack(p) PROVE OneRebuild'
    <2>1. Busy(p)
      BY <1>11 DEF Ack, Busy
    <2>2. Proper(p) /\ \A x \in Passes : x # p => pass[x] = Idle
      BY <2>1, Alone
    <2>3. \A x \in Passes : pass'[x] = Idle
      BY <1>0, <1>11, <2>2 DEF Ack
    <2>4. queue'["accrue"] = <<>> /\ active'["accrue"] = NoJob
      BY <1>0, <1>11, <2>2 DEF Ack, OneRebuild, Proper
    <2> QED
      BY <2>3, <2>4, OneIdle
  <1>12. CASE UNCHANGED <<queue, active, pass, snap>>
    BY <1>12, OneSame
  <1>13. \/ \E a \in Askers : Ask(a)
         \/ Nightly \/ Crash
         \/ \E p \in Passes : PassStep(p)
         \/ \E q \in Queues : ExpireOrphan(q) \/ \E p \in Passes : Deliver(q, p)
         \/ UNCHANGED <<queue, active, pass, snap>>
    BY DEF CalmStep, CommitEdit, BeginEdit, CaptureClose, NextDay, vars, boss
  <1> QED
    BY <1>1, <1>2, <1>3, <1>4, <1>5, <1>6, <1>7, <1>8, <1>9, <1>10, <1>11, <1>12, <1>13 DEF PassStep

-----------------------------------------------------------------------------
(* A retry is left for a job whose rebuild the worker's death ended *)

LEMMA RetryLeftStep ==
    ASSUME TypeInv, OneRebuild, RetryLeft, Calm, CalmStep, [Next]_vars, \A p \in Passes : ~ExpireLive(p)
    PROVE  RetryLeft'
  <1> DEFINE n == spent["crash"]
             m == spent'["crash"]
             J == Tried(n)
  <1>0. /\ n \in Nat /\ m \in Nat /\ n <= m /\ RetryLimit \in Nat /\ n <= RetryLimit
        /\ "snapshot" \in Queues /\ (\A q \in Queues : q = "snapshot" \/ q = "accrue")
        /\ queue \in [Queues -> Seq(Job)] /\ active \in [Queues -> Job \cup {NoJob}]
        /\ pass \in [Passes -> Execution] /\ today \in 0..MaxDay /\ MaxDay \in Nat /\ TypeOK
    <2>1. TypeOK /\ "crash" \in Events
      BY DEF TypeInv, Events
    <2>2. n \in Nat /\ m \in Nat /\ n <= m
      BY <2>1, Growing
    <2>3. today \in 0..MaxDay
      BY DaysAre DEF TypeInv, TypeOK, DataOK
    <2> QED
      BY <2>1, <2>2, <2>3, BoundsAssumption, DaysAre DEF TypeOK, BossOK, PassOK, Queues, Calm
  <1>1. \A j \in Job : j.try \in Nat
    BY DEF Job
  <1>2. J \in SUBSET Job /\ \A f \in 0..today : [from |-> f, try |-> 0] \in J
    BY <1>0, JobsTyped DEF Tried
  <1>3. queue \in [Queues -> Seq(J)] /\ active \in [Queues -> J \cup {NoJob}]
    <2>1. queue["snapshot"] \in Seq(J) /\ active["snapshot"] \in J \cup {NoJob}
      BY DEF RetryLeft
    <2>2. queue["accrue"] \in Seq(J) /\ active["accrue"] \in J \cup {NoJob}
      BY DEF OneRebuild
    <2> HIDE DEF J
    <2>3. \A q \in Queues : queue[q] \in Seq(J) /\ active[q] \in J \cup {NoJob}
      BY <1>0, <2>1, <2>2
    <2> QED
      BY <1>0, <2>3
  <1>4. ASSUME NEW q \in Queues, ExpireOrphan(q)
        PROVE  q = "snapshot" /\ active[q] \in J /\ active[q].try < n
    <2>1. q = "snapshot" /\ active[q] # NoJob
      BY <1>0, <1>4 DEF ExpireOrphan, OneRebuild
    <2>2. \A x \in Passes : ~Busy(x)
      BY <1>4, <2>1, NoneLive DEF ExpireOrphan
    <2> QED
      BY <2>1, <2>2 DEF RetryLeft
  <1>5. \A q \in Queues : ExpireOrphan(q) => [active[q] EXCEPT !.try = @ + 1] \in J
    <2> SUFFICES ASSUME NEW q \in Queues, ExpireOrphan(q) PROVE [active[q] EXCEPT !.try = @ + 1] \in J
      OBVIOUS
    <2> DEFINE j == [active[q] EXCEPT !.try = @ + 1]
    <2>1. active[q] \in Job /\ active[q].try \in Nat /\ active[q].try < n
      BY <1>1, <1>2, <1>4
    <2>2. j \in Job /\ j.try = active[q].try + 1
      BY <2>1, JobsTyped
    <2> HIDE DEF j
    <2>3. j.try <= n
      BY <1>0, <2>1, <2>2
    <2> QED
      BY <2>2, <2>3 DEF Tried, j
  <1>6. queue' \in [Queues -> Seq(J)] /\ active' \in [Queues -> J \cup {NoJob}]
    <2> HIDE DEF J
    <2> QED
      BY <1>0, <1>2, <1>3, <1>5, BossStep
  <1>7. J \subseteq Tried(m)
    <2>1. \A j \in Job : j.try <= n => j.try <= m
      BY <1>0, <1>1
    <2> QED
      BY <2>1 DEF Tried
  <1>8. queue'["snapshot"] \in Seq(Tried(m)) /\ active'["snapshot"] \in Tried(m) \cup {NoJob}
    <2> DEFINE K == Tried(m)
    <2>1. queue'["snapshot"] \in Seq(J) /\ active'["snapshot"] \in J \cup {NoJob} /\ J \subseteq K
      BY <1>0, <1>6, <1>7
    <2> HIDE DEF J, K
    <2>2. queue'["snapshot"] \in Seq(K)
      BY <2>1
    <2> QED
      BY <2>1, <2>2 DEF K
  <1>9. ASSUME active'["snapshot"] # NoJob, \A p \in Passes : ~Busy(p)'
        PROVE  active'["snapshot"].try < m
    <2>1. CASE Crash
      <3>1. m = n + 1
        BY <1>0, <2>1, Counting DEF Crash, Events
      <3>2. active'["snapshot"] \in J
        BY <1>0, <1>6, <1>9
      <3>3. active'["snapshot"].try \in Nat /\ active'["snapshot"].try <= n
        BY <1>1, <3>2 DEF Tried
      <3> HIDE DEF n, m
      <3> QED
        BY <1>0, <3>1, <3>3
    <2>2. CASE ~Crash
      <3>1. ASSUME NEW p \in Passes, PassStep(p) PROVE FALSE
        <4>1. CASE Ack(p)
          <5>1. Busy(p)
            BY <4>1 DEF Ack, Busy
          <5>2. pass[p].live /\ pass[p].queue = "snapshot"
            BY <5>1, Alone DEF Proper
          <5> QED
            BY <1>0, <1>9, <4>1, <5>2 DEF Ack
        <4>2. CASE PersistCommit(p)
          <5>1. pass'[p] = Finished(p)
            BY <4>2 DEF PersistCommit
          <5>2. pass'[p].pc = "ack"
            BY <5>1 DEF Finished, Idle
          <5> QED
            BY <1>9, <5>2 DEF Busy
        <4>3. CASE ReadLedger(p) \/ Compute(p) \/ PersistDelete(p)
          <5>1. pass'[p].pc \in {"compute", "persist", "write"}
            BY <1>0, <4>3 DEF ReadLedger, Compute, PersistDelete, Execution
          <5> QED
            BY <1>9, <5>1 DEF Busy
        <4>4. CASE PersistBegin(p)
          <5>1. pass'[p].pc \in {"write", "delete"}
            BY <1>0, <4>4 DEF PersistBegin, Execution
          <5> QED
            BY <1>9, <5>1 DEF Busy
        <4> QED
          BY <3>1, <4>1, <4>2, <4>3, <4>4 DEF PassStep
      <3>2. ASSUME NEW q \in Queues, ExpireOrphan(q) PROVE FALSE
        BY <1>0, <1>4, <1>9, <3>2 DEF ExpireOrphan, GiveUp
      <3>3. ASSUME NEW q \in Queues, NEW p \in Passes, Deliver(q, p) PROVE FALSE
        <4>1. pass'[p].pc = "ledger"
          BY <1>0, <3>3 DEF Deliver, Idle
        <4> QED
          BY <1>9, <4>1 DEF Busy
      <3>4. UNCHANGED <<active, pass>>
        BY <2>2, <3>1, <3>2, <3>3 DEF CalmStep, vars, boss, CommitEdit, BeginEdit, Ask,
            CaptureClose, Nightly, NextDay
      <3>5. active["snapshot"].try < n /\ active["snapshot"] \in Job
        BY <1>0, <1>9, <3>4 DEF RetryLeft, Busy, Tried
      <3> QED
        BY <1>0, <1>1, <3>4, <3>5
    <2> QED
      BY <2>1, <2>2
  <1> QED
    BY <1>8, <1>9 DEF RetryLeft

-----------------------------------------------------------------------------
(* A day is to be rebuilt, or is right *)

LEMMA FreshFacts ==
    ASSUME TypeInv
    PROVE  /\ today \in Nat /\ Today \in Nat /\ Today <= today /\ 1 <= Today /\ MaxDay \in Nat /\ today <= MaxDay
           /\ ledger \in [Ids -> Nat] /\ closes \in SUBSET Days /\ DOMAIN snap \subseteq 1..today
           /\ asked \in [Askers -> 0..today]
           /\ queue \in [Queues -> Seq(Job)] /\ active \in [Queues -> Job \cup {NoJob}]
           /\ "snapshot" \in Queues /\ "accrue" \in Queues
           /\ \A q \in Queues : q = "snapshot" \/ q = "accrue"
           /\ pass \in [Passes -> Execution]
           /\ \A p \in Passes : /\ pass[p] \in Execution /\ pass[p].from \in Nat
                                /\ pass[p].upto \in Nat /\ Today <= pass[p].upto /\ pass[p].upto <= today
                                /\ pass[p].led \in [Ids -> Nat] /\ DOMAIN pass[p].rows \subseteq 1..pass[p].upto
  <1>1. today \in Nat /\ Today \in Nat /\ Today <= today /\ 1 <= Today /\ MaxDay \in Nat
    BY DaysAre DEF TypeInv, TypeOK, DataOK
  <1>2. today <= MaxDay /\ ledger \in [Ids -> Nat] /\ closes \subseteq 1..today
    BY <1>1 DEF TypeInv, TypeOK, DataOK
  <1>3. closes \in SUBSET Days
    BY <1>1, <1>2 DEF Days
  <1>4. \A p \in Passes : ExecutionOK(pass[p], today) /\ pass[p] \in Execution
    BY PassesAre DEF PassesOK, TypeInv, TypeOK
  <1>5. \A p \in Passes : /\ pass[p].from \in Nat /\ pass[p].upto \in Nat
                          /\ Today <= pass[p].upto /\ pass[p].upto <= today
                          /\ pass[p].led \in [Ids -> Nat] /\ DOMAIN pass[p].rows \subseteq 1..pass[p].upto
    BY <1>1, <1>4 DEF ExecutionOK, Execution
  <1>6. /\ asked \in [Askers -> 0..today] /\ DOMAIN snap \subseteq 1..today
        /\ queue \in [Queues -> Seq(Job)] /\ active \in [Queues -> Job \cup {NoJob}]
        /\ pass \in [Passes -> Execution]
    BY DEF TypeInv, TypeOK, WebOK, SnapOK, BossOK, PassOK
  <1>7. "snapshot" \in Queues /\ "accrue" \in Queues /\ \A q \in Queues : q = "snapshot" \/ q = "accrue"
    BY DEF Queues
  <1> QED
    BY <1>1, <1>2, <1>3, <1>4, <1>5, <1>6, <1>7

LEMMA HeldDays ==
    ASSUME NEW L \in [Ids -> Nat], NEW upto \in Nat, NEW from
    PROVE  /\ Covered(L, upto) = {d \in 1..upto : Held(L, d)}
           /\ RebuildDays(L, from, upto) = {d \in 1..upto : d >= from /\ Held(L, d)}
  BY CoveredIs, RebuildIs DEF Held

\* What a rebuild that has its ledger will write.
LEMMA WrittenAt ==
    ASSUME NEW L, NEW C, NEW D, NEW d
    PROVE  DOMAIN Series(L, C, D) = D /\ (d \in D => Series(L, C, D)[d] = ValueOn(L, C, d))
  BY DEF Series

LEMMA Appended ==
    ASSUME NEW s \in Seq(Job), NEW j \in Job
    PROVE  /\ Len(Append(s, j)) = Len(s) + 1 /\ Len(s) \in Nat
           /\ Append(s, j)[Len(s) + 1] = j /\ Len(s) + 1 \in 1..Len(Append(s, j))
           /\ \A i \in 1..Len(s) : i \in 1..Len(Append(s, j)) /\ Append(s, j)[i] = s[i]
  OBVIOUS

LEMMA Taken ==
    ASSUME NEW s \in Seq(Job), s # <<>>
    PROVE  /\ Head(s) = s[1] /\ Len(s) \in Nat
           /\ \A i \in 1..Len(s) : i = 1 \/ (i - 1 \in 1..Len(Tail(s)) /\ Tail(s)[i - 1] = s[i])
  OBVIOUS

\* Nothing is lost of what is pending, and nothing else changes.
LEMMA FreshMore ==
    ASSUME Fresh, UNCHANGED <<ledger, closes, today, snap, pass>>,
           \A d \in 1..today : Pending(d) => Pending(d)'
    PROVE  Fresh'
  BY DEF Fresh, Sound, Writing, Written

\* The same, with no rebuild that has read the ledger.
LEMMA FreshQuiet ==
    ASSUME Fresh, UNCHANGED <<ledger, closes, today, snap>>,
           \A p \in Passes : ~Writing(p) /\ ~Writing(p)',
           \A d \in 1..today : Pending(d) => Pending(d)'
    PROVE  Fresh'
  BY DEF Fresh, Sound

LEMMA PendingAppend ==
    ASSUME TypeInv, NEW j \in Job, UNCHANGED <<active, pass>>,
           queue' = [queue EXCEPT !["snapshot"] = Append(@, j)],
           \A a \in Askers : asked'[a] = asked[a] \/ j.from = asked[a]
    PROVE  \A d \in 1..today : Pending(d) => Pending(d)'
  <1> SUFFICES ASSUME NEW d \in 1..today, Pending(d) PROVE Pending(d)'
    OBVIOUS
  <1> DEFINE s == queue["snapshot"]
  <1>1. s \in Seq(Job) /\ queue'["snapshot"] = Append(s, j)
    BY FreshFacts
  <1> HIDE DEF s
  <1>2. Len(s) + 1 \in 1..Len(queue'["snapshot"]) /\ queue'["snapshot"][Len(s) + 1] = j
        /\ \A i \in 1..Len(s) : i \in 1..Len(queue'["snapshot"]) /\ queue'["snapshot"][i] = s[i]
    BY <1>1, Appended
  <1>3. CASE \E a \in Askers : asked[a] \in 1..d
    <2>1. PICK a \in Askers : asked[a] \in 1..d
      BY <1>3
    <2>2. CASE asked'[a] = asked[a]
      BY <2>1, <2>2 DEF Pending
    <2>3. CASE j.from = asked[a]
      <3>1. queue'["snapshot"][Len(s) + 1].from <= d
        BY <1>2, <2>1, <2>3
      <3> QED
        BY <1>2, <3>1 DEF Pending
    <2> QED
      BY <2>2, <2>3
  <1>4. CASE \E i \in 1..Len(s) : s[i].from <= d
    BY <1>2, <1>4 DEF Pending
  <1>5. CASE active["snapshot"] # NoJob /\ active["snapshot"].from <= d
             /\ \A p \in Passes : pass[p].pc \in {"idle", "ledger"}
    BY <1>5 DEF Pending
  <1> QED
    BY <1>3, <1>4, <1>5 DEF Pending, s

LEMMA FreshAsk ==
    ASSUME TypeInv, Fresh, (\E a \in Askers : Ask(a)) \/ Nightly
    PROVE  Fresh'
  <1>1. ASSUME NEW a \in Askers, Ask(a) PROVE Fresh'
    <2> DEFINE j == [from |-> asked[a], try |-> 0]
    <2>1. j \in Job
      <3>1. asked[a] \in 0..MaxDay
        BY FreshFacts
      <3> QED
        BY <3>1, JobsTyped
    <2>2. queue' = [queue EXCEPT !["snapshot"] = Append(@, j)] /\ asked' = [asked EXCEPT ![a] = 0]
          /\ UNCHANGED <<active, pass, ledger, closes, today, snap>>
      BY <1>1 DEF Ask, data
    <2>3. \A x \in Askers : asked'[x] = asked[x] \/ j.from = asked[x]
      BY <2>2, FreshFacts
    <2> HIDE DEF j
    <2>4. \A d \in 1..today : Pending(d) => Pending(d)'
      BY <2>1, <2>2, <2>3, PendingAppend
    <2> QED
      BY <2>2, <2>4, FreshMore
  <1>2. CASE Nightly
    <2>1. [from |-> 0, try |-> 0] \in Job
      BY DaysAre, JobsTyped
    <2>2. queue' = [queue EXCEPT !["snapshot"] = Append(@, [from |-> 0, try |-> 0])]
          /\ UNCHANGED <<active, pass, ledger, closes, today, snap, asked>>
      BY <1>2 DEF Nightly, data, web
    <2>3. \A d \in 1..today : Pending(d) => Pending(d)'
      BY <2>1, <2>2, PendingAppend
    <2> QED
      BY <2>2, <2>3, FreshMore
  <1> QED
    BY <1>1, <1>2

\* A write that makes days stale from one of them on, and asks for them.
LEMMA FreshFrom ==
    ASSUME TypeInv, Fresh, NEW a \in Askers, asked[a] = 0, NEW n \in Nat,
           asked' = [asked EXCEPT ![a] = n], 1 <= n, UNCHANGED <<today, snap, queue, active, pass>>,
           \A d \in 1..today : d < n =>
             /\ Held(ledger', d) <=> Held(ledger, d)
             /\ ValueOn(ledger', closes', d) = ValueOn(ledger, closes, d)
             /\ \A L : ValueOn(L, closes', d) = ValueOn(L, closes, d)
    PROVE  Fresh'
  <1> SUFFICES ASSUME NEW d \in 1..today PROVE Pending(d)' \/ Sound(d)'
    BY DEF Fresh
  <1>0. d \in Nat /\ asked'[a] = n /\ \A x \in Askers : x # a => asked'[x] = asked[x]
    BY FreshFacts
  <1>1. CASE n <= d
    <2>1. asked'[a] \in 1..d
      BY <1>0, <1>1
    <2> QED
      BY <2>1 DEF Pending
  <1>2. CASE d < n
    <2>1. Pending(d) => Pending(d)'
      <3>1. \A x \in Askers : asked[x] \in 1..d => asked'[x] \in 1..d
        BY <1>0
      <3> QED
        BY <3>1 DEF Pending
    <2>2. \A f : Right(f, ledger, closes, d) => Right(f, ledger', closes', d)
      BY <1>2 DEF Right
    <2>3. ASSUME NEW p \in Passes, Writing(p), Right(Written(p), ledger, closes, d)
          PROVE  Right(Written(p)', ledger', closes', d)
      <3>1. CASE pass[p].pc = "compute"
        <4> DEFINE D == RebuildDays(pass[p].led, pass[p].from, pass[p].upto)
        <4>1. Written(p) = Series(pass[p].led, closes, D) /\ Written(p)' = Series(pass[p].led, closes', D)
          BY <3>1 DEF Written
        <4> HIDE DEF D
        <4>2. DOMAIN Written(p) = D /\ (d \in D => Written(p)[d] = ValueOn(pass[p].led, closes, d))
          BY <4>1, WrittenAt
        <4>3. DOMAIN Written(p)' = D /\ (d \in D => Written(p)'[d] = ValueOn(pass[p].led, closes', d))
          BY <4>1, WrittenAt
        <4>4. d \in D => Written(p)'[d] = Written(p)[d]
          BY <1>2, <4>2, <4>3
        <4>5. Right(Written(p)', ledger, closes, d)
          BY <2>3, <4>2, <4>3, <4>4 DEF Right
        <4> QED
          BY <4>5, <2>2
      <3>2. CASE pass[p].pc # "compute"
        <4>1. Written(p)' = Written(p)
          BY <3>2 DEF Written
        <4> QED
          BY <2>2, <2>3, <4>1
      <3> QED
        BY <3>1, <3>2
    <2>4. Sound(d) => Sound(d)'
      <3>1. \A p \in Passes : Writing(p)' <=> Writing(p)
        BY DEF Writing
      <3>2. UNCHANGED <<pass, snap>>
        OBVIOUS
      <3> QED
        BY <2>2, <2>3, <3>1, <3>2 DEF Sound
    <2> QED
      BY <2>1, <2>4 DEF Fresh
  <1> QED
    BY <1>0, <1>1, <1>2

LEMMA FreshCommit ==
    ASSUME TypeInv, OneChange, Fresh, NEW e \in Editors, CommitEdit(e)
    PROVE  Fresh'
  <1> DEFINE was == edit[e].was
             date == edit[e].date
             t == edit[e].id
             n == StaleFrom(was, date)
  <1>1. was \in Nat /\ date \in Nat /\ t \in Ids /\ was # date /\ was = ledger[t] /\ asked[e] = 0 /\ e \in Askers
    BY DaysAre DEF TypeInv, TypeOK, WebOK, Changing, OneChange, CommitEdit, Edit, Askers
  <1>2. /\ ledger' = IF was # 0 /\ ledger[t] = 0 THEN ledger ELSE [ledger EXCEPT ![t] = date]
        /\ asked' = [asked EXCEPT ![e] = n] /\ UNCHANGED <<closes, today, snap, queue, active, pass>>
    BY DEF CommitEdit, boss
  <1> HIDE DEF was, date, t
  <1>3. n \in Nat /\ 1 <= n /\ (was = 0 \/ n <= was) /\ (date = 0 \/ n <= date)
    <2> DEFINE S == {was, date} \ {0}
    <2>1. S \in SUBSET Nat /\ S # {} /\ \A x \in S : 1 <= x
      BY <1>1
    <2>2. Min(S) \in S /\ \A x \in S : Min(S) <= x
      BY <2>1, MinIs
    <2>3. n = Min(S)
      BY DEF StaleFrom
    <2> QED
      BY <1>1, <2>1, <2>2, <2>3
  <1> HIDE DEF n
  <1>4. ASSUME NEW d \in 1..today, d < n
        PROVE  \A x \in Ids : ledger'[x] \in 1..d <=> ledger[x] \in 1..d
    <2> SUFFICES ASSUME NEW x \in Ids PROVE ledger'[x] \in 1..d <=> ledger[x] \in 1..d
      OBVIOUS
    <2>1. d \in Nat /\ was \notin 1..d /\ date \notin 1..d
      BY <1>1, <1>3, <1>4, FreshFacts
    <2>2. ledger'[x] = ledger[x] \/ (x = t /\ ledger'[x] = date)
      BY <1>2, FreshFacts
    <2> QED
      BY <1>1, <2>1, <2>2
  <1>5. \A d \in 1..today : d < n =>
             /\ Held(ledger', d) <=> Held(ledger, d)
             /\ ValueOn(ledger', closes', d) = ValueOn(ledger, closes, d)
             /\ \A L : ValueOn(L, closes', d) = ValueOn(L, closes, d)
    BY <1>2, <1>4 DEF Held, ValueOn
  <1> QED
    BY <1>1, <1>2, <1>3, <1>5, FreshFrom

LEMMA FreshCapture ==
    ASSUME TypeInv, Fresh, NEW c \in Days, CaptureClose(c)
    PROVE  Fresh'
  <1>1. Capture \in Askers /\ c \in Nat /\ 1 <= c
    BY DaysAre DEF Askers
  <1>2. /\ asked[Capture] = 0 /\ asked' = [asked EXCEPT ![Capture] = c]
        /\ closes' = closes \cup {c} /\ UNCHANGED <<ledger, today, snap, queue, active, pass>>
    BY DEF CaptureClose, boss
  <1>3. ASSUME NEW d \in 1..today, d < c
        PROVE  CarriedClose(closes', d) = CarriedClose(closes, d)
    <2>1. d \in Nat
      BY FreshFacts
    <2>2. ~(c <= d)
      BY <1>1, <1>3, <2>1
    <2>3. {x \in closes' : x <= d} = {x \in closes : x <= d}
      BY <1>2, <2>2
    <2>4. (\E x \in closes' : x <= d) <=> (\E x \in closes : x <= d)
      BY <1>2, <2>2
    <2> QED
      BY <2>3, <2>4 DEF CarriedClose
  <1>4. \A d \in 1..today : d < c =>
             /\ Held(ledger', d) <=> Held(ledger, d)
             /\ ValueOn(ledger', closes', d) = ValueOn(ledger, closes, d)
             /\ \A L : ValueOn(L, closes', d) = ValueOn(L, closes, d)
    BY <1>2, <1>3 DEF ValueOn
  <1> QED
    BY <1>1, <1>2, <1>4, FreshFrom

LEMMA FreshDay ==
    ASSUME TypeInv, Fresh, NextDay
    PROVE  Fresh'
  <1>1. today' = today + 1 /\ UNCHANGED <<ledger, closes, snap, asked, queue, active, pass>>
    BY DEF NextDay, web, boss
  <1> SUFFICES ASSUME NEW d \in 1..today' PROVE Pending(d)' \/ Sound(d)'
    BY DEF Fresh
  <1>2. CASE d \in 1..today
    <2>1. Pending(d) \/ Sound(d)
      BY <1>2 DEF Fresh
    <2> QED
      BY <1>1, <2>1 DEF Pending, Sound, Writing, Written
  <1>3. CASE d \notin 1..today
    <2>1. d \in Nat /\ d > today /\ d > Today
      BY <1>1, <1>3, FreshFacts
    <2>2. d \notin DOMAIN snap
      BY <2>1, FreshFacts
    <2>3. ASSUME NEW p \in Passes PROVE d \notin DOMAIN Written(p)
      <3>1. pass[p].led \in [Ids -> Nat] /\ pass[p].upto \in Nat /\ d \notin 1..pass[p].upto
        BY <2>1, FreshFacts
      <3>2. d \notin RebuildDays(pass[p].led, pass[p].from, pass[p].upto)
        BY <3>1, RebuildIs
      <3>3. d \notin DOMAIN pass[p].rows
        BY <3>1, FreshFacts
      <3> QED
        BY <3>2, <3>3, WrittenAt DEF Written
    <2>4. Right(snap, ledger, closes, d) /\ \A p \in Passes : Right(Written(p), ledger, closes, d)
      BY <2>1, <2>2, <2>3 DEF Right
    <2> QED
      BY <1>1, <2>4 DEF Sound, Writing, Written
  <1> QED
    BY <1>2, <1>3

LEMMA FreshDeliver ==
    ASSUME TypeInv, OneRebuild, OneRebuild', Fresh, NEW q \in Queues, NEW p \in Passes, Deliver(q, p)
    PROVE  Fresh'
  <1> DEFINE s == queue["snapshot"]
  <1>1. q = "snapshot"
    BY FreshFacts DEF Deliver, OneRebuild
  <1>2. \A x \in Passes : ~Busy(x) /\ pass[x] = Idle
    BY <1>1, NoneLive DEF Deliver
  <1>3. /\ active["snapshot"] = NoJob /\ s # <<>> /\ s \in Seq(Job)
        /\ active'["snapshot"] = Head(s) /\ queue'["snapshot"] = Tail(s)
        /\ UNCHANGED <<ledger, closes, today, snap, asked>>
    BY <1>1, FreshFacts DEF Deliver, data, web
  <1>4. \A x \in Passes : pass'[x].pc \in {"idle", "ledger"}
    <2>1. \A x \in Passes : x # p => pass'[x] = Idle
      BY <1>2, FreshFacts DEF Deliver
    <2>2. pass'[p].pc = "ledger"
      BY FreshFacts DEF Deliver, Idle
    <2> QED
      BY <2>1, <2>2, IdleTyped
  <1>5. active'["snapshot"] # NoJob
    BY <1>4, FreshFacts DEF OneRebuild, Busy, Deliver, Idle
  <1> HIDE DEF s
  <1>6. ASSUME NEW d \in 1..today, Pending(d) PROVE Pending(d)'
    <2>1. CASE \E a \in Askers : asked[a] \in 1..d
      BY <1>3, <2>1 DEF Pending
    <2>2. CASE \E i \in 1..Len(s) : s[i].from <= d
      <3>1. PICK i \in 1..Len(s) : s[i].from <= d
        BY <2>2
      <3>2. CASE i = 1
        <4>1. active'["snapshot"].from <= d
          BY <1>3, <3>1, <3>2, Taken
        <4> QED
          BY <1>4, <1>5, <4>1 DEF Pending
      <3>3. CASE i # 1
        <4>1. i - 1 \in 1..Len(queue'["snapshot"]) /\ queue'["snapshot"][i - 1].from <= d
          BY <1>3, <3>1, <3>3, Taken
        <4> QED
          BY <4>1 DEF Pending
      <3> QED
        BY <3>2, <3>3
    <2> QED
      BY <1>3, <1>6, <2>1, <2>2 DEF Pending, s
  <1>7. \A x \in Passes : ~Writing(x) /\ ~Writing(x)'
    BY <1>2, <1>4 DEF Writing, Busy
  <1> QED
    BY <1>3, <1>6, <1>7, FreshQuiet

LEMMA FreshOrphan ==
    ASSUME TypeInv, OneRebuild, RetryLeft, Calm, Fresh, NEW q \in Queues, ExpireOrphan(q)
    PROVE  Fresh'
  <1> DEFINE s == queue["snapshot"]
             j == [active["snapshot"] EXCEPT !.try = @ + 1]
  <1>1. q = "snapshot"
    BY FreshFacts DEF ExpireOrphan, OneRebuild
  <1>2. \A x \in Passes : ~Busy(x) /\ pass[x] = Idle
    BY <1>1, NoneLive DEF ExpireOrphan
  <1>3. active["snapshot"].try < RetryLimit /\ active["snapshot"] \in Job
    <2>1. active["snapshot"] \in Tried(spent["crash"]) /\ active["snapshot"].try < spent["crash"]
      BY <1>1, <1>2 DEF ExpireOrphan, RetryLeft
    <2>2. active["snapshot"].try \in Nat /\ active["snapshot"] \in Job
      BY <2>1 DEF Tried, Job
    <2>3. spent["crash"] \in Nat /\ spent["crash"] <= RetryLimit
      BY DEF Calm, TypeInv, TypeOK, Events
    <2> QED
      BY <2>1, <2>2, <2>3, BoundsAssumption
  <1>4. j \in Job /\ j.from = active["snapshot"].from /\ s \in Seq(Job)
    BY <1>3, JobsTyped, FreshFacts
  <1>5. queue' = [queue EXCEPT !["snapshot"] = Append(@, j)] /\ UNCHANGED <<ledger, closes, today, snap, asked, pass>>
    BY <1>1, <1>3 DEF ExpireOrphan, GiveUp, data, web
  <1> HIDE DEF j, s
  <1>6. queue'["snapshot"] = Append(s, j)
    BY <1>5, FreshFacts DEF s
  <1>7. Len(s) + 1 \in 1..Len(queue'["snapshot"]) /\ queue'["snapshot"][Len(s) + 1] = j
        /\ \A i \in 1..Len(s) : i \in 1..Len(queue'["snapshot"]) /\ queue'["snapshot"][i] = s[i]
    BY <1>4, <1>6, Appended
  <1>8. ASSUME NEW d \in 1..today, Pending(d) PROVE Pending(d)'
    <2>1. CASE \E a \in Askers : asked[a] \in 1..d
      BY <1>5, <2>1 DEF Pending
    <2>2. CASE \E i \in 1..Len(s) : s[i].from <= d
      BY <1>7, <2>2 DEF Pending
    <2>3. CASE active["snapshot"].from <= d
      <3>1. queue'["snapshot"][Len(s) + 1].from <= d
        BY <1>4, <1>7, <2>3
      <3> QED
        BY <1>7, <3>1 DEF Pending
    <2> QED
      BY <1>8, <2>1, <2>2, <2>3 DEF Pending, s
  <1> QED
    BY <1>5, <1>8, FreshMore

LEMMA FreshCrash ==
    ASSUME TypeInv, OneRebuild, Fresh, Crash
    PROVE  Fresh'
  <1>1. PICK p \in Passes : Busy(p)
    BY DEF Crash, Busy
  <1>2. /\ \A x \in Passes : pass'[x] = Idle /\ pass'[x].pc = "idle"
        /\ UNCHANGED <<ledger, closes, today, snap, asked, queue, active>>
    BY IdleTyped DEF Crash, data, web, boss
  <1> SUFFICES ASSUME NEW d \in 1..today PROVE Pending(d)' \/ Sound(d)'
    BY <1>2 DEF Fresh
  <1>3. CASE Pending(d)
    BY <1>2, <1>3 DEF Pending
  <1>4. CASE Sound(d)
    <2>1. CASE \E x \in Passes : Writing(x) /\ pass[x].from <= d
      <3>1. PICK x \in Passes : Writing(x) /\ pass[x].from <= d
        BY <2>1
      <3>2. active["snapshot"] # NoJob /\ active["snapshot"].from <= d
        BY <3>1, Alone DEF Proper, Writing, Busy
      <3> QED
        BY <1>2, <3>2 DEF Pending
    <2>2. CASE \A x \in Passes : ~(Writing(x) /\ pass[x].from <= d)
      <3>1. Right(snap, ledger, closes, d)
        BY <1>4, <2>2 DEF Sound
      <3>2. \A x \in Passes : ~Writing(x)'
        BY <1>2 DEF Writing
      <3> QED
        BY <1>2, <3>1, <3>2 DEF Sound
    <2> QED
      BY <2>1, <2>2
  <1> QED
    BY <1>3, <1>4 DEF Fresh

LEMMA FreshRead ==
    ASSUME TypeInv, OneRebuild, Fresh, NEW p \in Passes, ReadLedger(p)
    PROVE  Fresh'
  <1>1. Busy(p) /\ pass[p].pc = "ledger" /\ UNCHANGED <<ledger, closes, today, snap, asked, queue, active>>
    BY DEF ReadLedger, Busy, data, web, boss
  <1>2. /\ pass[p].from = active["snapshot"].from
        /\ \A x \in Passes : x # p => pass[x].pc = "idle"
    BY <1>1, Alone, IdleTyped DEF Proper
  <1>3. /\ pass'[p].pc = "compute" /\ pass'[p].led = ledger /\ pass'[p].from = pass[p].from
        /\ pass'[p].upto = pass[p].upto
        /\ \A x \in Passes : x # p => pass'[x] = pass[x]
    BY FreshFacts DEF ReadLedger, Execution
  <1>4. pass[p].from \in Nat /\ pass[p].upto \in Nat /\ Today <= pass[p].upto /\ ledger \in [Ids -> Nat] /\ Today \in Nat
    BY FreshFacts
  <1>5. \A x \in Passes : Writing(x)' <=> x = p
    BY <1>2, <1>3 DEF Writing
  <1> SUFFICES ASSUME NEW d \in 1..today PROVE Pending(d)' \/ Sound(d)'
    BY <1>1 DEF Fresh
  <1>6. d \in Nat /\ 1 <= d
    BY FreshFacts
  <1>7. CASE pass[p].from <= d
    <2> DEFINE D == RebuildDays(ledger, pass[p].from, pass[p].upto)
               f == Series(ledger, closes, D)
    <2>1. Written(p)' = f
      BY <1>1, <1>3 DEF Written
    <2>2. d \in D <=> d <= pass[p].upto /\ Held(ledger, d)
      BY <1>4, <1>6, <1>7, HeldDays
    <2> HIDE DEF D
    <2>3. DOMAIN f = D /\ (d \in D => f[d] = ValueOn(ledger, closes, d))
      BY WrittenAt
    <2> HIDE DEF f
    <2>4. Right(f, ledger, closes, d)
      <3>1. ~(d <= pass[p].upto) => d > Today
        BY <1>4, <1>6
      <3> QED
        BY <2>2, <2>3, <3>1 DEF Right
    <2> QED
      BY <1>1, <1>3, <1>5, <1>7, <2>1, <2>4 DEF Sound
  <1>8. CASE ~(pass[p].from <= d)
    <2>1. CASE Pending(d)
      BY <1>1, <1>2, <1>8, <2>1 DEF Pending
    <2>2. CASE Sound(d)
      <3>1. \A x \in Passes : ~Writing(x)
        BY <1>1, <1>2 DEF Writing
      <3>2. Right(snap, ledger, closes, d)
        BY <2>2, <3>1 DEF Sound
      <3> QED
        BY <1>1, <1>3, <1>5, <1>8, <3>2 DEF Sound
    <2> QED
      BY <2>1, <2>2 DEF Fresh
  <1> QED
    BY <1>7, <1>8

\* A step of a rebuild that goes on writing the same.
LEMMA FreshOn ==
    ASSUME TypeInv, OneRebuild, Fresh, NEW p \in Passes, Writing(p), Writing(p)',
           UNCHANGED <<ledger, closes, today, snap, asked, queue, active>>,
           pass'[p].from = pass[p].from, Written(p)' = Written(p),
           \A x \in Passes : x # p => pass'[x] = pass[x]
    PROVE  Fresh'
  <1>1. pass[p].pc \notin {"idle", "ledger"} /\ \A x \in Passes : x # p => ~Writing(x) /\ ~Writing(x)'
    <2>1. Busy(p)
      BY DEF Busy, Writing
    <2>2. \A x \in Passes : x # p => pass[x].pc = "idle"
      BY <2>1, Alone, IdleTyped
    <2> QED
      BY <2>2 DEF Writing
  <1> SUFFICES ASSUME NEW d \in 1..today PROVE Pending(d)' \/ Sound(d)'
    BY DEF Fresh
  <1>2. Pending(d) => Pending(d)'
    BY <1>1 DEF Pending
  <1>3. Sound(d) => Sound(d)'
    BY <1>1 DEF Sound
  <1> QED
    BY <1>2, <1>3 DEF Fresh

LEMMA FreshWrite ==
    ASSUME TypeInv, OneRebuild, Fresh, NEW p \in Passes, Compute(p) \/ PersistBegin(p)
    PROVE  Fresh'
  <1>1. UNCHANGED <<ledger, closes, today, snap, asked, queue, active>>
    BY DEF Compute, PersistBegin, data, web, boss
  <1>2. \A x \in Passes : x # p => pass'[x] = pass[x]
    BY FreshFacts DEF Compute, PersistBegin
  <1>3. CASE Compute(p)
    <2>1. pass'[p].pc = "persist" /\ pass'[p].from = pass[p].from
          /\ pass'[p].rows = Series(pass[p].led, closes, RebuildDays(pass[p].led, pass[p].from, pass[p].upto))
      BY <1>3, FreshFacts DEF Compute, Execution
    <2>2. Written(p)' = Written(p)
      BY <1>3, <2>1 DEF Written, Compute
    <2>3. Writing(p) /\ Writing(p)'
      BY <1>3, <2>1 DEF Writing, Compute
    <2> QED
      BY <1>1, <1>2, <2>1, <2>2, <2>3, FreshOn
  <1>4. CASE PersistBegin(p)
    <2>1. Busy(p) /\ pass[p].pc = "persist"
      BY <1>4 DEF PersistBegin, Busy
    <2>2. MayCut(p, Invalidated(p))
      BY <2>1, Alone
    <2>3. pass'[p].pc = "write" /\ pass'[p].from = pass[p].from /\ pass'[p].rows = pass[p].rows
      BY <1>4, <2>2, FreshFacts DEF PersistBegin, Execution
    <2>4. Written(p)' = Written(p) /\ Writing(p) /\ Writing(p)'
      BY <2>1, <2>3 DEF Written, Writing
    <2> QED
      BY <1>1, <1>2, <2>3, <2>4, FreshOn
  <1> QED
    BY <1>3, <1>4

LEMMA FreshPersist ==
    ASSUME TypeInv, OneRebuild, Fresh, NEW p \in Passes, PersistCommit(p)
    PROVE  Fresh'
  <1> DEFINE R == pass[p].rows
             f == pass[p].from
  <1>1. Busy(p) /\ pass[p].pc = "write" /\ UNCHANGED <<ledger, closes, today, asked, queue, active>>
    BY DEF PersistCommit, Busy, data, web, boss
  <1>2. /\ pass[p].cut = {d \in DOMAIN snap : d >= f} /\ \A d \in DOMAIN R : d >= f
        /\ \A x \in Passes : x # p => pass[x].pc = "idle"
    BY <1>1, Alone, IdleTyped DEF Proper, Invalidated
  <1>3. \A x \in Passes : pass'[x].pc \in {"idle", "ack"}
    <2>1. \A x \in Passes : x # p => pass'[x] = pass[x]
      BY <1>2 DEF PersistCommit
    <2>2. pass'[p].pc = "ack"
      BY DEF PersistCommit, Finished, Idle
    <2> QED
      BY <1>2, <2>1, <2>2
  <1>4. /\ DOMAIN snap' = Kept(p) \cup DOMAIN R
        /\ \A d \in Kept(p) \cup DOMAIN R : snap'[d] = IF d \in DOMAIN R THEN R[d] ELSE snap[d]
    BY DEF PersistCommit
  <1>5. f \in Nat /\ Written(p) = R
    BY <1>1, FreshFacts DEF Written
  <1> HIDE DEF R, f
  <1>6. \A x \in Passes : ~Writing(x)'
    BY <1>3 DEF Writing
  <1> SUFFICES ASSUME NEW d \in 1..today PROVE Pending(d)' \/ Sound(d)'
    BY <1>1 DEF Fresh
  <1>7. CASE Pending(d)
    BY <1>1, <1>7 DEF Pending
  <1>8. CASE Sound(d) /\ f <= d
    <2>1. Right(R, ledger, closes, d)
      BY <1>1, <1>5, <1>8 DEF Sound, Writing, f
    <2>2. d \in Nat /\ d >= f
      BY <1>5, <1>8, FreshFacts
    <2>3. d \in DOMAIN snap' <=> d \in DOMAIN R
      BY <1>2, <1>4, <2>2 DEF Kept
    <2>4. d \in DOMAIN R => snap'[d] = R[d]
      BY <1>4
    <2>5. Right(snap', ledger, closes, d)
      BY <2>1, <2>3, <2>4 DEF Right
    <2> QED
      BY <1>1, <1>6, <2>5 DEF Sound
  <1>9. CASE Sound(d) /\ ~(f <= d)
    <2>1. \A x \in Passes : ~(Writing(x) /\ pass[x].from <= d)
      BY <1>2, <1>9 DEF Writing, f
    <2>2. Right(snap, ledger, closes, d)
      BY <1>9, <2>1 DEF Sound
    <2>3. d \in Nat /\ ~(d >= f)
      BY <1>5, <1>9, FreshFacts
    <2>4. (d \in DOMAIN snap' <=> d \in DOMAIN snap) /\ (d \in DOMAIN snap => snap'[d] = snap[d])
      BY <1>2, <1>4, <2>3 DEF Kept
    <2>5. Right(snap', ledger, closes, d)
      BY <2>2, <2>4 DEF Right
    <2> QED
      BY <1>1, <1>6, <2>5 DEF Sound
  <1> QED
    BY <1>7, <1>8, <1>9 DEF Fresh

LEMMA FreshAck ==
    ASSUME TypeInv, OneRebuild, Fresh, NEW p \in Passes, Ack(p)
    PROVE  Fresh'
  <1>1. Busy(p) /\ pass[p].pc = "ack" /\ UNCHANGED <<ledger, closes, today, snap, asked, queue>>
    BY DEF Ack, Busy, data, web
  <1>2. \A x \in Passes : x # p => pass[x].pc = "idle"
    BY <1>1, Alone, IdleTyped
  <1>3. \A x \in Passes : pass'[x].pc = "idle"
    BY <1>2, FreshFacts, IdleTyped DEF Ack
  <1>4. \A x \in Passes : ~Writing(x) /\ ~Writing(x)'
    BY <1>1, <1>2, <1>3 DEF Writing
  <1>5. \A d \in 1..today : Pending(d) => Pending(d)'
    BY <1>1 DEF Pending
  <1> QED
    BY <1>1, <1>4, <1>5, FreshQuiet

LEMMA FreshStep ==
    ASSUME TypeInv, OneRebuild, OneRebuild', RetryLeft, OneChange, Calm, Fresh, CalmStep
    PROVE  Fresh'
  <1>1. ASSUME NEW p \in Passes, PersistDelete(p) PROVE FALSE
    BY <1>1, Alone DEF PersistDelete, Busy, Proper
  <1>2. ASSUME NEW p \in Passes, PassStep(p) PROVE Fresh'
    BY <1>1, <1>2, FreshRead, FreshWrite, FreshPersist, FreshAck DEF PassStep
  <1>3. ASSUME NEW e \in Editors, NEW t \in Ids, NEW d \in 0..today, BeginEdit(e, t, d) PROVE Fresh'
    <2>1. UNCHANGED <<ledger, closes, today, snap, asked, queue, active, pass>>
      BY <1>3 DEF BeginEdit, data, boss
    <2> QED
      BY <2>1, FreshMore DEF Pending
  <1>4. CASE UNCHANGED vars
    <2>1. UNCHANGED <<ledger, closes, today, snap, asked, queue, active, pass>>
      BY <1>4 DEF vars, data, web, boss
    <2> QED
      BY <2>1, FreshMore DEF Pending
  <1> QED
    BY <1>2, <1>3, <1>4, FreshCommit, FreshAsk, FreshCapture, FreshDay, FreshCrash, FreshDeliver,
        FreshOrphan DEF CalmStep

-----------------------------------------------------------------------------
(* The theorem *)

SnapshotInv == TypeInv /\ DayInv /\ CalmInv

LEMMA DayStep ==
    ASSUME TypeInv, DayInv, [Next]_vars
    PROVE  DayInv'
  <1>0. TypeOK /\ "day" \in Events /\ today \in Nat /\ Today \in Nat
    BY DaysAre DEF TypeInv, TypeOK, DataOK, Events
  <1>1. CASE NextDay
    <2>1. spent'["day"] = spent["day"] + 1 /\ spent["day"] \in Nat
      BY <1>0, <1>1, Counting DEF NextDay
    <2> QED
      BY <1>0, <1>1, <2>1 DEF NextDay, DayInv
  <1>2. CASE ~NextDay
    <2>1. UNCHANGED today
      BY <1>2 DEF Next, PassStep, vars, data, CommitEdit, BeginEdit, Ask, AskLost, CaptureClose,
          Nightly, AccrueTick, Crash, ReadLedger, Compute, PersistBegin, PersistDelete,
          PersistCommit, Ack, TenantFails, ExpireLive, ExpireOrphan, Deliver
    <2>2. UNCHANGED spent \/ \E kinds : Happens(kinds) /\ "day" \notin kinds
      <3>1. ASSUME NEW e \in Editors, NEW t \in Ids, NEW d \in 0..today, BeginEdit(e, t, d)
            PROVE  \E kinds : Happens(kinds) /\ "day" \notin kinds
        BY <3>1 DEF BeginEdit
      <3>2. Happens({"close"}) \/ Happens({"lost"}) \/ Happens({"accrue"}) \/ Happens({"crash"})
            \/ Happens({"expiry"}) \/ Happens({"fault"}) \/ UNCHANGED spent
            \/ \E e \in Editors, t \in Ids, d \in 0..today : BeginEdit(e, t, d)
        BY <1>2 DEF Next, PassStep, vars, CommitEdit, Ask, AskLost, CaptureClose,
            Nightly, AccrueTick, Crash, ReadLedger, Compute, PersistBegin, PersistDelete,
            PersistCommit, Ack, TenantFails, ExpireLive, ExpireOrphan, Deliver
      <3> QED
        BY <3>1, <3>2
    <2>3. spent'["day"] = spent["day"]
      <3>1. ASSUME NEW kinds, Happens(kinds), "day" \notin kinds PROVE spent'["day"] = spent["day"]
        BY <1>0, <3>1, Counting
      <3> QED
        BY <2>2, <3>1
    <2> QED
      BY <2>1, <2>3 DEF DayInv
  <1> QED
    BY <1>1, <1>2

LEMMA SnapshotStart == Init => SnapshotInv
  <1> SUFFICES ASSUME Init PROVE SnapshotInv
    OBVIOUS
  <1>1. TypeInv
    BY TypeStart
  <1>2. DayInv
    BY DaysAre DEF Init, DayInv, Events
  <1>3. \A p \in Passes : pass[p] = Idle /\ ~Busy(p) /\ ~Writing(p)
    BY IdleTyped DEF Init, Busy, Writing
  <1>4. OneRebuild
    BY <1>3 DEF Init, OneRebuild, Queues
  <1>5. RetryLeft
    <2> DEFINE J == Tried(spent["crash"])
    <2>1. <<>> \in Seq(J)
      OBVIOUS
    <2> QED
      BY <2>1 DEF Init, RetryLeft, Queues
  <1>6. OneChange
    BY NoEditTyped DEF Init, OneChange
  <1>7. Fresh
    <2> SUFFICES ASSUME NEW d \in 1..today PROVE Right(snap, ledger, closes, d)
      BY <1>3 DEF Fresh, Sound
    <2> DEFINE D == Covered(ledger, Today)
    <2>1. d \in D <=> Held(ledger, d)
      <3>1. today = Today /\ Today \in Nat /\ ledger \in [Ids -> Nat]
        BY <1>1, FreshFacts DEF Init
      <3>2. D = {x \in 1..Today : Held(ledger, x)}
        BY <3>1, HeldDays
      <3> QED
        BY <3>1, <3>2
    <2> HIDE DEF D
    <2>2. snap = Series(ledger, closes, D)
      BY DEF Init, D
    <2>3. DOMAIN snap = D /\ (d \in D => snap[d] = ValueOn(ledger, closes, d))
      BY <2>2, WrittenAt
    <2> QED
      BY <2>1, <2>3 DEF Right
  <1> QED
    BY <1>1, <1>2, <1>4, <1>5, <1>6, <1>7 DEF SnapshotInv, CalmInv

LEMMA SnapshotStep == SnapshotInv /\ [Next]_vars => SnapshotInv'
  <1> SUFFICES ASSUME SnapshotInv, [Next]_vars PROVE SnapshotInv'
    OBVIOUS
  <1>0. TypeInv /\ TypeOK /\ DayInv
    BY DEF SnapshotInv, TypeInv
  <1>1. TypeInv'
    BY <1>0, TypeStep
  <1>2. DayInv'
    BY <1>0, DayStep
  <1>3. ASSUME Calm' PROVE (OneRebuild /\ RetryLeft /\ OneChange /\ Fresh)'
    <2>1. Calm /\ CalmStep /\ \A p \in Passes : ~ExpireLive(p)
      BY <1>0, <1>3, CalmSteps
    <2>2. OneRebuild /\ RetryLeft /\ OneChange /\ Fresh
      BY <2>1 DEF SnapshotInv, CalmInv
    <2>3. OneRebuild'
      BY <1>0, <2>1, <2>2, OneRebuildStep
    <2>4. RetryLeft'
      BY <1>0, <2>1, <2>2, RetryLeftStep
    <2>5. OneChange'
      BY <1>0, <2>1, <2>2, OneChangeStep
    <2>6. Fresh'
      BY <1>0, <2>1, <2>2, <2>3, FreshStep
    <2> QED
      BY <2>3, <2>4, <2>5, <2>6
  <1> QED
    BY <1>1, <1>2, <1>3 DEF SnapshotInv, CalmInv

LEMMA AtRest == SnapshotInv => SettledExact
  <1> SUFFICES ASSUME SnapshotInv, Calm, Settled PROVE StoredExact /\ OnlyNewMissing
    BY DEF SettledExact, RequestsSuffice
  <1>0. TypeInv /\ DayInv /\ Fresh
    BY DEF SnapshotInv, CalmInv
  <1>1. \A d \in 1..today : ~Pending(d)
    <2> SUFFICES ASSUME NEW d \in 1..today, Pending(d) PROVE FALSE
      OBVIOUS
    <2>1. queue["snapshot"] = <<>> /\ active["snapshot"] = NoJob
      BY DEF Settled, Queues
    <2>2. \A a \in Askers : asked[a] \notin 1..d
      BY DEF Settled
    <2> QED
      BY <2>1, <2>2 DEF Pending
  <1>2. \A p \in Passes : ~Writing(p)
    BY DEF Settled, Writing
  <1>3. \A d \in 1..today : Right(snap, ledger, closes, d)
    BY <1>0, <1>1, <1>2 DEF Fresh, Sound
  <1>4. Covered(ledger, today) = {d \in 1..today : Held(ledger, d)} /\ DOMAIN snap \subseteq 1..today
        /\ today \in Nat /\ Today \in Nat
    BY <1>0, FreshFacts, HeldDays
  <1>5. \A d \in DOMAIN snap : d \in Covered(ledger, today) /\ snap[d] = ValueOn(ledger, closes, d)
    BY <1>3, <1>4 DEF Right
  <1>6. snap = Series(ledger, closes, DOMAIN snap)
    <2>1. snap = [d \in DOMAIN snap |-> snap[d]]
      <3>1. snap \in Stored
        BY <1>0 DEF TypeInv, TypeOK, SnapOK
      <3> QED
        BY <3>1, StoredIs
    <2> QED
      BY <1>5, <2>1 DEF Series
  <1>7. \A d \in Covered(ledger, today) \ DOMAIN snap : d > Today
    BY <1>3, <1>4 DEF Right
  <1>8. today - spent["day"] = Today
    <2>1. spent["day"] \in Nat
      BY <1>0 DEF TypeInv, TypeOK, Events
    <2> QED
      BY <1>0, <1>4, <2>1 DEF DayInv
  <1> QED
    BY <1>5, <1>6, <1>7, <1>8 DEF StoredExact, OnlyNewMissing

\* Whatever the days, the rows, the closes and the moment the worker dies, when
\* all the rebuilds that were asked for have run, each stored snapshot is that of
\* the ledger and the closes, and only days begun since may have none.
THEOREM RebuildsSuffice == Spec => []SettledExact
  BY SnapshotStart, SnapshotStep, AtRest, PTL DEF Spec
=============================================================================
