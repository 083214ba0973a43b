------------------------ MODULE ValuationSnapshots ------------------------
(***************************************************************************)
(* The daily valuation snapshots of one tenant, a cache of the ledger and   *)
(* of the official closes.  A web request writes the ledger, commits, and   *)
(* then asks the worker for a rebuild from the earliest date it made stale; *)
(* the capture of a close does the same.  The request may be lost.  A       *)
(* rebuild reads the ledger in one transaction, computes with none open,    *)
(* and deletes and writes snapshots in another.  Every night a full rebuild *)
(* and, from a queue of its own, the day's accrual run besides.             *)
(*                                                                          *)
(* A snapshot is abstracted to what it was computed from: the rows held on  *)
(* its date and the date of the close carried forward to it.                *)
(*                                                                          *)
(* Source: worker/handlers/valuation.ts, core/valuation/snapshot.ts,        *)
(* adapters/db/valuation-snapshot-repository.ts, lib/snapshot-rebuild.ts,   *)
(* core/ledger/{edit-transaction,recalculate-from}.ts.                      *)
(***************************************************************************)
EXTENDS Naturals, Sequences, FiniteSetsExt

CONSTANTS
    Ids,         \* transaction ids
    Editors,     \* requests that write the ledger
    Capture,     \* the job that captures closes
    Passes,      \* rebuilds the worker can have in flight
    Today,       \* the day the behaviour starts on
    MaxDay,      \* the last day it reaches
    RetryLimit,  \* pg-boss retries of the two queues
    Bound        \* the numbers of events of each kind a behaviour may reach

\* write: the user begins to change the ledger; overlap: while another change
\* is under way; close: a close is captured; day: midnight passes; lost: a
\* rebuild is not asked for; accrue: the accrual runs; fault: a rebuild fails;
\* crash: the worker dies; expiry: a job expires while its handler runs.
Events == {"write", "overlap", "close", "day", "lost", "accrue", "fault", "crash", "expiry"}

ASSUME DaysAssumption == Today \in Nat /\ MaxDay \in Nat /\ 1 <= Today /\ Today <= MaxDay
ASSUME BoundsAssumption == RetryLimit \in Nat /\ Bound \subseteq [Events -> Nat]
ASSUME NamesAssumption == Ids # {} /\ Capture \notin Editors

VARIABLES
    ledger,   \* trade date of each transaction; 0 is no row
    closes,   \* days with an official close
    today,    \* clock.today()
    snap,     \* daily_valuation_snapshots, by date
    edit,     \* requests that are changing the ledger
    asked,    \* rebuilds committed writes have still to ask for, by who asks
    queue,    \* jobs waiting in each queue
    active,   \* the job pg-boss handed out of each queue
    pass,     \* rebuilds the worker is running
    spent     \* events so far

data == <<ledger, closes, today>>
web  == <<edit, asked>>
boss == <<queue, active>>
vars == <<data, snap, web, boss, pass, spent>>

Queues   == {"snapshot", "accrue"}
Askers   == Editors \cup {Capture}
Snapshot == [held : SUBSET Ids, close : 0..MaxDay]

\* `from` = 0 asks for the whole history.
Job   == [from : 0..MaxDay, try : Nat]
NoJob == [from |-> 0, try |-> RetryLimit + 1]

Days   == 1..MaxDay
Stored == UNION {[D -> Snapshot] : D \in SUBSET Days}

Pcs == {"idle", "ledger", "compute", "persist", "delete", "write", "ack"}
Execution == [pc : Pcs, live : BOOLEAN, queue : Queues, from : 0..MaxDay, upto : Days,
              led : [Ids -> 0..MaxDay], rows : Stored, sees : SUBSET Days, cut : SUBSET Days]
Edit == [pc : {"idle", "write"}, id : Ids, was : 0..MaxDay, date : 0..MaxDay]

Idle == [pc |-> "idle", live |-> FALSE, queue |-> "snapshot", from |-> 0, upto |-> Today,
         led |-> [t \in Ids |-> 0], rows |-> [d \in {} |-> 0], sees |-> {}, cut |-> {}]
NoEdit == [pc |-> "idle", id |-> CHOOSE t \in Ids : TRUE, was |-> 0, date |-> 0]

DataOK == today \in Today..MaxDay /\ ledger \in [Ids -> 0..today] /\ closes \subseteq 1..today
SnapOK == snap \in Stored /\ DOMAIN snap \subseteq 1..today
WebOK ==
    /\ edit \in [Editors -> Edit] /\ asked \in [Askers -> 0..today]
    /\ \A e \in Editors : edit[e].was <= today /\ edit[e].date <= today
BossOK == queue \in [Queues -> Seq(Job)] /\ active \in [Queues -> Job \cup {NoJob}]
PassOK ==
    /\ pass \in [Passes -> Execution]
    /\ \A p \in Passes :
         /\ pass[p].from <= today /\ pass[p].upto \in Today..today
         /\ pass[p].led \in [Ids -> 0..today]
         /\ DOMAIN pass[p].rows \subseteq 1..pass[p].upto
         /\ pass[p].sees \subseteq 1..today /\ pass[p].cut \subseteq pass[p].sees

TypeOK == DataOK /\ SnapOK /\ WebOK /\ BossOK /\ PassOK /\ spent \in [Events -> Nat]

-----------------------------------------------------------------------------
(* What a snapshot is computed from. *)

DatesOf(L) == {L[t] : t \in Ids} \ {0}

\* closeOnOrBefore: the last close is carried forward.
CarriedClose(C, d) == IF \E c \in C : c <= d THEN Max({c \in C : c <= d}) ELSE 0

ValueOn(L, C, d) == [held |-> {t \in Ids : L[t] \in 1..d}, close |-> CarriedClose(C, d)]

\* The days a full rebuild writes, none when the ledger is empty.
Covered(L, upto) == IF DatesOf(L) = {} THEN {} ELSE Min(DatesOf(L))..upto

\* Faulty variant: it computes from the date asked for, ledger or no ledger.
RebuildDaysUnclamped(L, from, upto) == from..upto

\* Those of them a rebuild from a date writes.
RebuildDays(L, from, upto) == {d \in Covered(L, upto) : d >= from}

Series(L, C, dates) == [d \in dates |-> ValueOn(L, C, d)]

Init ==
    /\ ledger \in [Ids -> 0..Today]
    /\ closes = {}
    /\ today = Today
    /\ snap = Series(ledger, closes, Covered(ledger, Today))
    /\ edit = [e \in Editors |-> NoEdit]
    /\ asked = [a \in Askers |-> 0]
    /\ queue = [q \in Queues |-> <<>>]
    /\ active = [q \in Queues |-> NoJob]
    /\ pass = [p \in Passes |-> Idle]
    /\ spent = [k \in Events |-> 0]

Happens(kinds) ==
    /\ spent' = [k \in Events |-> IF k \in kinds THEN spent[k] + 1 ELSE spent[k]]
    /\ spent' \in Bound

Without(kinds) == \A k \in kinds : spent[k] = 0

-----------------------------------------------------------------------------
(* Writes of the ledger, and the rebuilds they ask for.  A create has no    *)
(* `was`; a delete has no `date`.                                           *)

BeginEdit(e, t, d) ==
    /\ edit[e].pc = "idle"
    /\ asked[e] = 0
    /\ d # ledger[t]
    /\ ledger[t] = 0 => \A x \in Editors : edit[x].pc = "idle" \/ edit[x].id # t
    /\ edit' = [edit EXCEPT ![e] = [pc |-> "write", id |-> t, was |-> ledger[t], date |-> d]]
    /\ Happens({"write"} \cup IF \E x \in Editors : edit[x].pc # "idle" THEN {"overlap"} ELSE {})
    /\ UNCHANGED <<data, snap, asked, boss, pass>>

\* Faulty variant: only the new date counts.
StaleFromNew(was, date) == IF date = 0 THEN was ELSE date

\* The earliest date whose figures the write makes stale.
StaleFrom(was, date) == Min({was, date} \ {0})

\* An update or a delete of a row that has gone does nothing.
CommitEdit(e) ==
    LET t == edit[e].id IN
    /\ edit[e].pc = "write"
    /\ ledger' = IF edit[e].was # 0 /\ ledger[t] = 0 THEN ledger
                 ELSE [ledger EXCEPT ![t] = edit[e].date]
    /\ asked' = [asked EXCEPT ![e] = StaleFrom(edit[e].was, edit[e].date)]
    /\ edit' = [edit EXCEPT ![e] = NoEdit]
    /\ UNCHANGED <<closes, today, snap, boss, pass, spent>>

CaptureClose(d) ==
    /\ asked[Capture] = 0
    /\ d \in (1..today) \ closes
    /\ Happens({"close"})
    /\ closes' = closes \cup {d}
    /\ asked' = [asked EXCEPT ![Capture] = d]
    /\ UNCHANGED <<ledger, today, snap, edit, boss, pass>>

\* requestSnapshotRebuild, after the commit.
Ask(a) ==
    /\ asked[a] # 0
    /\ queue' = [queue EXCEPT !["snapshot"] = Append(@, [from |-> asked[a], try |-> 0])]
    /\ asked' = [asked EXCEPT ![a] = 0]
    /\ UNCHANGED <<data, snap, edit, active, pass, spent>>

\* The enqueue fails and is only logged, or the process dies before it.
AskLost(a) ==
    /\ asked[a] # 0
    /\ Happens({"lost"})
    /\ asked' = [asked EXCEPT ![a] = 0]
    /\ UNCHANGED <<data, snap, edit, boss, pass>>

\* The crons: every night a job with no payload, and the accrual's.  A night's
\* job sent behind others is as one sent when they are done.
Nightly ==
    /\ queue["snapshot"] = <<>>
    /\ active["snapshot"] = NoJob
    /\ queue' = [queue EXCEPT !["snapshot"] = Append(@, [from |-> 0, try |-> 0])]
    /\ UNCHANGED <<data, snap, web, active, pass, spent>>

AccrueTick ==
    /\ Happens({"accrue"})
    /\ queue' = [queue EXCEPT !["accrue"] = Append(@, [from |-> 0, try |-> 0])]
    /\ UNCHANGED <<data, snap, web, active, pass>>

NextDay ==
    /\ today < MaxDay
    /\ Happens({"day"})
    /\ today' = today + 1
    /\ UNCHANGED <<ledger, closes, snap, web, boss, pass>>

-----------------------------------------------------------------------------
(* pg-boss: one live handler per queue, retries, expiry. *)

\* Which idle execution takes a job makes no difference.
FirstIdle(p) ==
    /\ pass[p].pc = "idle"
    /\ p = CHOOSE x \in Passes : pass[x].pc = "idle"

\* handleFixedIncomeAccrue rebuilds today alone.
Deliver(q, p) ==
    /\ active[q] = NoJob
    /\ queue[q] # <<>>
    /\ FirstIdle(p)
    /\ \A x \in Passes : ~(pass[x].live /\ pass[x].queue = q)
    /\ active' = [active EXCEPT ![q] = Head(queue[q])]
    /\ queue' = [queue EXCEPT ![q] = Tail(@)]
    /\ pass' = [pass EXCEPT ![p] =
                  [Idle EXCEPT !.pc = "ledger", !.live = TRUE, !.queue = q, !.upto = today,
                               !.from = IF q = "accrue" THEN today ELSE Head(queue[q]).from]]
    /\ UNCHANGED <<data, snap, web, spent>>

\* Retried after the others, or dead-lettered.
GiveUp(q) ==
    /\ active' = [active EXCEPT ![q] = NoJob]
    /\ queue' = IF active[q].try < RetryLimit
                  THEN [queue EXCEPT ![q] = Append(@, [active[q] EXCEPT !.try = @ + 1])]
                  ELSE queue

ExpireLive(p) ==
    /\ pass[p].live
    /\ Happens({"expiry"})
    /\ GiveUp(pass[p].queue)
    /\ pass' = [pass EXCEPT ![p].live = FALSE]
    /\ UNCHANGED <<data, snap, web>>

ExpireOrphan(q) ==
    /\ active[q] # NoJob
    /\ \A p \in Passes : ~(pass[p].live /\ pass[p].queue = q)
    /\ GiveUp(q)
    /\ UNCHANGED <<data, snap, web, pass, spent>>

\* The worker dies; an open transaction is rolled back.
Crash ==
    /\ \E p \in Passes : pass[p].pc # "idle"
    /\ Happens({"crash"})
    /\ pass' = [p \in Passes |-> Idle]
    /\ UNCHANGED <<data, snap, web, boss>>

-----------------------------------------------------------------------------
(* rebuildTenant *)

\* The ledger, in a transaction of its own.
ReadLedger(p) ==
    /\ pass[p].pc = "ledger"
    /\ pass' = [pass EXCEPT ![p].pc = "compute", ![p].led = ledger]
    /\ UNCHANGED <<data, snap, web, boss, spent>>

\* computeSnapshots reads the closes with no transaction open.
Compute(p) ==
    LET r == pass[p] IN
    /\ r.pc = "compute"
    /\ pass' = [pass EXCEPT ![p].pc = "persist", ![p].led = Idle.led,
                            ![p].rows = Series(r.led, closes, RebuildDays(r.led, r.from, r.upto))]
    /\ UNCHANGED <<data, snap, web, boss, spent>>

\* Faulty variant: the deletion starts where the computation does.
InvalidatedClamped(p) ==
    {d \in DOMAIN snap : d >= pass[p].from /\ \E x \in DOMAIN pass[p].rows : x <= d}

\* deleteAll, or deleteFrom the requested date.
Invalidated(p) == {d \in DOMAIN snap : d >= pass[p].from}

CutByOthers(p) == UNION {pass[x].cut : x \in Passes \ {p}}
MayCut(p, dates) == dates \cap CutByOthers(p) = {}

\* The DELETE finds its rows when it starts, ...
PersistBegin(p) ==
    LET found == Invalidated(p) IN
    /\ pass[p].pc = "persist"
    /\ pass' = [pass EXCEPT ![p].pc = IF MayCut(p, found) THEN "write" ELSE "delete",
                            ![p].sees = found,
                            ![p].cut = IF MayCut(p, found) THEN found ELSE {}]
    /\ UNCHANGED <<data, snap, web, boss, spent>>

\* ... and waits for those another transaction has deleted.
PersistDelete(p) ==
    /\ pass[p].pc = "delete"
    /\ MayCut(p, pass[p].sees)
    /\ pass' = [pass EXCEPT ![p].pc = "write", ![p].cut = pass[p].sees]
    /\ UNCHANGED <<data, snap, web, boss, spent>>

\* What is left of an execution whose rebuild is over.
Finished(p) == [Idle EXCEPT !.pc = "ack", !.live = pass[p].live, !.queue = pass[p].queue]

Kept(p) == DOMAIN snap \ pass[p].cut

\* upsertMany and the commit.  A key whose row another has deleted waits; a
\* DELETE that waited for these rows finds them gone, and not those written.
PersistCommit(p) ==
    LET r == pass[p] IN
    /\ r.pc = "write"
    /\ MayCut(p, DOMAIN r.rows)
    /\ snap' = [d \in Kept(p) \cup DOMAIN r.rows |->
                  IF d \in DOMAIN r.rows THEN r.rows[d] ELSE snap[d]]
    /\ pass' = [x \in Passes |->
                  IF x = p THEN Finished(p)
                  ELSE IF pass[x].pc = "delete" THEN [pass[x] EXCEPT !.sees = @ \ r.cut]
                  ELSE pass[x]]
    /\ UNCHANGED <<data, web, boss, spent>>

\* A tenant's failure is logged and counted; the job goes on, and completes.
TenantFails(p) ==
    /\ pass[p].pc \in {"ledger", "compute", "persist", "delete", "write"}
    /\ Happens({"fault"})
    /\ pass' = [pass EXCEPT ![p] = Finished(p)]
    /\ UNCHANGED <<data, snap, web, boss>>

Ack(p) ==
    /\ pass[p].pc = "ack"
    /\ active' = IF pass[p].live THEN [active EXCEPT ![pass[p].queue] = NoJob] ELSE active
    /\ pass' = [pass EXCEPT ![p] = Idle]
    /\ UNCHANGED <<data, snap, web, queue, spent>>

-----------------------------------------------------------------------------
PassStep(p) ==
    ReadLedger(p) \/ Compute(p) \/ PersistBegin(p) \/ PersistDelete(p) \/ PersistCommit(p) \/ Ack(p)

Next ==
    \/ \E e \in Editors : CommitEdit(e) \/ \E t \in Ids, d \in 0..today : BeginEdit(e, t, d)
    \/ \E a \in Askers : Ask(a) \/ AskLost(a)
    \/ \E d \in Days : CaptureClose(d)
    \/ Nightly \/ AccrueTick \/ NextDay \/ Crash
    \/ \E p \in Passes : PassStep(p) \/ TenantFails(p) \/ ExpireLive(p)
    \/ \E q \in Queues : ExpireOrphan(q) \/ \E p \in Passes : Deliver(q, p)

Spec == Init /\ [][Next]_vars

\* The nightly cron fires again and again; pg-boss delivers and expires; what
\* runs goes on.  Nothing makes the accrual or the user's requests begin.
Fairness ==
    /\ WF_vars(Nightly)
    /\ \A p \in Passes : WF_vars(PassStep(p))
    /\ \A q \in Queues : WF_vars(ExpireOrphan(q)) /\ SF_vars(\E p \in Passes : Deliver(q, p))
    /\ \A e \in Editors : WF_vars(CommitEdit(e))

FairSpec == Spec /\ Fairness

-----------------------------------------------------------------------------
Exact == snap = Series(ledger, closes, Covered(ledger, today))

\* Nothing is being written, asked for or rebuilt.
Settled ==
    /\ \A e \in Editors : edit[e].pc = "idle"
    /\ \A a \in Askers : asked[a] = 0
    /\ \A q \in Queues : queue[q] = <<>> /\ active[q] = NoJob
    /\ \A p \in Passes : pass[p].pc = "idle"

\* Every stored snapshot is that of the ledger and the closes.
StoredExact ==
    /\ snap = Series(ledger, closes, DOMAIN snap)
    /\ DOMAIN snap \subseteq Covered(ledger, today)

\* Only days begun since are missing: a rebuild goes from the date it is asked
\* for, and the days between it and the last one rebuilt are the night's.
OnlyNewMissing == \A d \in Covered(ledger, today) \ DOMAIN snap : d > today - spent["day"]

\* The rebuilds the writes ask for are enough, with no help from the night, once
\* all have run.  An accrual or another change beside them can break it.
RequestsSuffice == Settled => StoredExact /\ OnlyNewMissing

\* So it is unless a request is lost, a rebuild fails, expires or is out of
\* retries, changes overlap, or the accrual runs beside them (StaleFrom,
\* rebuildTenant).
Calm == Without({"lost", "fault", "expiry", "overlap", "accrue"}) /\ spent["crash"] <= RetryLimit
SettledExact == Calm => RequestsSuffice

\* Whatever was lost, failed, overlapped or died, the nightly rebuild makes the
\* snapshots those of the ledger in the end, and they stay so
\* (snapshot-rebuild.ts:20, valuation.ts:166).
FinallyExact == <>[]Exact
=============================================================================
