---------------------------- MODULE ImportReview ----------------------------
(***************************************************************************)
(* What becomes of the rows a committed batch left for its user: the user   *)
(* classifies or ignores them, settles a subscription, edits or deletes     *)
(* their stored copies, while later imports, whose movement map knows more, *)
(* activate or supersede the same copies.  Beside it the reconciliation of  *)
(* the position those rows are on: a Posicao batch reports how its quantity *)
(* differs from B3's, and the user accepts B3's figure as an adjustment.    *)
(*                                                                          *)
(* Every request is a database transaction (READ COMMITTED) of two steps:   *)
(* what it reads, and what it writes from that.  Classifications, ignores   *)
(* and commits hold the tenant's import lock in between; the settlement of  *)
(* a subscription and the acceptance of a difference do not.                *)
(*                                                                          *)
(* All rows are on one position and move one share; on one date increases   *)
(* come first, so a ledger replays when its total is not negative.          *)
(*                                                                          *)
(* Source: core/ingestion/{classify-row,ignore-row,subscription-offer,      *)
(* accept-adjustment,reconcile,commit-batch}.ts, core/ledger/               *)
(* edit-transaction.ts, app/(app)/import/actions.ts.                        *)
(***************************************************************************)
EXTENDS Integers, FiniteSets, Functions

CONSTANTS
    Rows,        \* rows of the committed batch
    Credit,      \* the credit row of each subscription exercise
    Reports,     \* Posicao batches
    Requests,    \* requests that may run at once
    Free,        \* nobody holds the import lock
    Top,         \* the greatest quantity B3 states
    Starts,      \* how the rows may have been left
    Overlaps,    \* kinds of requests that may overlap
    MaxAsked     \* requests a behaviour may reach

Exercises == DOMAIN Credit

\* A credit classified at no price ("free") adds as much as one at a price.
Types == {"in", "free", "out"}
Moves(t) == IF t = "out" THEN -1 ELSE 1

Classes == {"unclassified", "new", "ignored", "invalid", "duplicate"}
CopyStatuses == {"none", "unclassified", "active", "superseded"}
Kinds == {"answer", "commit", "offer", "accept", "ledger", "report"}

\* What a later import makes of a row: nothing, a mirror or spent evidence, or
\* a movement.
Readings == {"leave", "ignore", "in", "out"}

ASSUME RowsAssumption ==
    /\ \A e \in Exercises : e \in Rows /\ Credit[e] \in Rows \ Exercises
    /\ Starts \subseteq [Rows -> {"unclassified", "ignored", "invalid"}]
ASSUME FiniteAssumption == IsFiniteSet(Rows) /\ IsFiniteSet(Reports)
ASSUME BoundsAssumption ==
    /\ Free \notin Requests
    /\ Overlaps \subseteq SUBSET Kinds
    /\ Top \in Nat /\ MaxAsked \in Nat

VARIABLES
    row,      \* import_rows: class, whether a copy is attached, the user's reason
    copy,     \* the transaction with the row's key and occurrence
    counts,   \* import_batches.row_counts
    base,     \* what the position's other transactions add up to
    report,   \* import_batches.reconciliation of each Posicao batch
    posted,   \* adjustments made from it
    req,      \* the request each process is serving
    lock,     \* the tenant's import lock
    answer,   \* history: what the user last made of a row
    behind,   \* history: rows classified since the counts were last recounted
    asked     \* requests begun

batch == <<row, copy, counts>>
positions == <<base, report, posted>>
history == <<answer, behind>>
vars == <<batch, positions, req, lock, history, asked>>

Copy == [status : CopyStatuses, type : Types, modified : BOOLEAN]
NoCopy == [status |-> "none", type |-> "in", modified |-> FALSE]
ImportRow == [class : Classes, copied : BOOLEAN, reason : BOOLEAN]
Idle == [op |-> "idle"]

KindOf(op) ==
    IF op \in {"classify", "restore", "create", "ignore"} THEN "answer"
    ELSE IF op \in {"keep", "resolve"} THEN "offer" ELSE op

\* Row counts: read and the dates never change.
Summary(R) ==
    LET Count(classes) == Cardinality({x \in Rows : R[x].class \in classes}) IN
    [new |-> Count({"new"}), duplicates |-> Count({"duplicate"}),
     attention |-> Count({"unclassified", "invalid"}), ignored |-> Count({"ignored"})]

Active(C) == {x \in Rows : C[x].status = "active"}
Moved(C) == SumFunctionOnSet([x \in Active(C) |-> Moves(C[x].type)], Active(C))
Adjusted(n) ==
    SumFunctionOnSet([b \in Reports |-> n[b] * (report[b].b3 - report[b].computed)], Reports)
Replayed(C) == base + Moved(C) + Adjusted(posted)
Quantity == Replayed(copy)
Replays(C) == Replayed(C) >= 0

TypeOK ==
    /\ row \in [Rows -> ImportRow]
    /\ copy \in [Rows -> Copy]
    /\ counts \in [{"new", "duplicates", "attention", "ignored"} -> 0..Cardinality(Rows)]
    /\ base \in Nat
    /\ \A b \in Reports :
         /\ report[b].state \in {"none", "agrees", "open", "resolved"}
         /\ report[b].b3 \in 0..Top /\ report[b].computed \in Nat /\ report[b].listed \in BOOLEAN
         /\ report[b].cause \in {"unclassified", "absent", "other"}
         /\ posted[b] \in Nat
    /\ Quantity >= 0
    /\ \A p \in Requests : lock = p => KindOf(req[p].op) \in {"answer", "commit"}
    /\ lock \in Requests \cup {Free}

Init ==
    /\ \E left \in Starts :
         /\ row = [x \in Rows |-> [class |-> left[x], copied |-> left[x] = "unclassified",
                                   reason |-> FALSE]]
         /\ copy = [x \in Rows |-> IF left[x] = "unclassified"
                                   THEN [NoCopy EXCEPT !.status = "unclassified"] ELSE NoCopy]
    /\ counts = Summary(row)
    /\ base \in 0..1
    /\ report = [b \in Reports |-> [state |-> "none", b3 |-> 0, computed |-> 0, listed |-> TRUE,
                                     cause |-> "other"]]
    /\ posted = [b \in Reports |-> 0]
    /\ req = [p \in Requests |-> Idle]
    /\ lock = Free
    /\ answer = [x \in Rows |-> "none"]
    /\ behind = {}
    /\ asked = 0

-----------------------------------------------------------------------------
(* Requests *)

Busy == {p \in Requests : req[p] # Idle}

May(kind) ==
    /\ asked < MaxAsked
    /\ asked' = asked + 1
    /\ \/ Busy = {}
       \/ \E S \in Overlaps : {kind} \cup {KindOf(req[q].op) : q \in Busy} \subseteq S

Begin(p, r) ==
    /\ req[p] = Idle
    /\ May(KindOf(r.op))
    /\ req' = [req EXCEPT ![p] = r]
    /\ UNCHANGED <<batch, positions, history>>

Locking(p) == lock = Free /\ lock' = p

\* The transaction ends, and its import lock with it.
End(p) ==
    /\ req' = [req EXCEPT ![p] = Idle]
    /\ lock' = IF lock = p THEN Free ELSE lock
    /\ UNCHANGED asked

\* A refused request rolls back.
Refuse(p) == End(p) /\ UNCHANGED <<batch, positions, history>>

Reclassified(x, class) == [row EXCEPT ![x].class = class, ![x].reason = FALSE]

\* recountBatch: the counts from the rows as they are now.
Recount == counts' = Summary(row') /\ behind' = {}

-----------------------------------------------------------------------------
(* classifyImportRow *)

\* A row an exercise's credit consumed stays ignored.
Consumed(x) == x \in Exercises /\ row[x].class = "ignored" /\ ~row[x].reason

Pending(x) == row[x].class = "unclassified" /\ row[x].copied

ClassifyRead(p, x, t) ==
    /\ Locking(p)
    /\ ~Consumed(x)
    /\ \/ /\ Pending(x)
          /\ Begin(p, [op |-> "classify", row |-> x, type |-> t])
       \/ /\ row[x].class = "ignored" /\ row[x].copied /\ copy[x].status = "superseded"
          /\ Begin(p, [op |-> "restore", row |-> x, type |-> t])
       \/ /\ row[x].class = "ignored" /\ ~(row[x].copied /\ copy[x].status = "superseded")
          /\ Begin(p, [op |-> "create", row |-> x, type |-> t])

\* The stored copy becomes the chosen type, or one is created under the row's
\* key.  Only a row that leaves `ignored` moves the stored counts.
Classified(r) ==
    [copy EXCEPT ![r.row] = [status |-> "active", type |-> r.type, modified |-> TRUE]]

\* Faulty variant: the classified movement is not checked against the ledger.
ClassifiableUnguarded(r) == (copy[r.row].status = "none") <=> (r.op = "create")

Classifiable(r) ==
    /\ (copy[r.row].status = "none") <=> (r.op = "create")
    /\ Replays(Classified(r))

ClassifyWrite(p) ==
    LET r == req[p] IN
    /\ r.op \in {"classify", "restore", "create"}
    /\ \/ /\ ~Classifiable(r)
          /\ Refuse(p)
       \/ /\ Classifiable(r)
          /\ copy' = Classified(r)
          /\ row' = [Reclassified(r.row, "new") EXCEPT ![r.row].copied = TRUE]
          /\ answer' = [answer EXCEPT ![r.row] = "classified"]
          /\ \/ r.op = "classify" /\ behind' = behind \cup {r.row} /\ UNCHANGED counts
             \/ r.op # "classify" /\ Recount
          /\ End(p)
          /\ UNCHANGED positions

-----------------------------------------------------------------------------
(* ignoreImportRow *)

\* Faulty variant: the lock is left to commits (before PR #267).
IgnoreReadUnlocked(p, x) ==
    /\ Pending(x)
    /\ Begin(p, [op |-> "ignore", row |-> x])
    /\ UNCHANGED lock

IgnoreRead(p, x) ==
    /\ Locking(p)
    /\ Pending(x)
    /\ Begin(p, [op |-> "ignore", row |-> x])

\* Both writes are conditional on what they replace.
IgnoreWrite(p) ==
    LET x == req[p].row
        stillOpen == copy[x].status = "unclassified" /\ row[x].class = "unclassified" IN
    /\ req[p].op = "ignore"
    /\ \/ ~stillOpen /\ Refuse(p)
       \/ /\ stillOpen
          /\ copy' = [copy EXCEPT ![x].status = "superseded", ![x].modified = TRUE]
          /\ row' = [row EXCEPT ![x].class = "ignored", ![x].reason = TRUE]
          /\ answer' = [answer EXCEPT ![x] = "ignored"]
          /\ Recount
          /\ End(p)
          /\ UNCHANGED positions

-----------------------------------------------------------------------------
(* resolveSubscriptionOffer, keepSubscriptionClassification: no import lock. *)

\* The exercise nobody has touched, its credit classified by hand at no cost.
Offered(x) ==
    /\ Pending(x) /\ copy[x].status = "unclassified" /\ ~copy[x].modified
    /\ LET c == copy[Credit[x]] IN c.status = "active" /\ c.type = "free" /\ c.modified

OfferRead(p, x) ==
    /\ Offered(x)
    /\ \E op \in {"keep", "resolve"} : Begin(p, [op |-> op, row |-> x])
    /\ UNCHANGED lock

\* editTransactions reads both rows again, whatever the offer was made from.
OfferWrite(p) ==
    LET x == req[p].row
        c == Credit[x]
        spent == [copy EXCEPT ![x].status = "superseded", ![x].modified = TRUE]
        settled == IF req[p].op = "keep" THEN spent
                   ELSE [spent EXCEPT ![c].type = "in", ![c].modified = TRUE]
        found == copy[x].status # "none" /\ (req[p].op = "resolve" => copy[c].status # "none")
    IN
    /\ req[p].op \in {"keep", "resolve"}
    /\ \/ ~(found /\ Replays(settled)) /\ Refuse(p)
       \/ /\ found /\ Replays(settled)
          /\ copy' = settled
          /\ row' = Reclassified(x, "ignored")
          /\ answer' = [answer EXCEPT ![x] = "ignored"]
          /\ Recount
          /\ End(p)
          /\ UNCHANGED positions

-----------------------------------------------------------------------------
(* The commit of a later extract that repeats these rows, under a map that   *)
(* reads them as `reading` says.                                             *)

\* Faulty variant: what the user edited is activated all the same.
ActivatableAlways(x) == copy[x].status = "unclassified"

\* planReclassifications: an import's copy that no person has touched.
Activatable(x) == copy[x].status = "unclassified" /\ ~copy[x].modified

Read(reading, readings) == {x \in Rows : reading[x] \in readings}

\* The copies after activating `act` and inserting `app`, as `reading` types them.
Applying(reading, act, app) ==
    [x \in Rows |->
        IF x \in act THEN [copy[x] EXCEPT !.status = "active", !.type = reading[x]]
        ELSE IF x \in app THEN [status |-> "active", type |-> reading[x], modified |-> FALSE]
        ELSE copy[x]]

\* A group that does not replay gives up the older rows it would activate
\* first, and then the new rows the ledger cannot accept.
CommitRead(p, reading) ==
    LET moves == Read(reading, {"in", "out"})
        act == {x \in moves : Activatable(x)}
        new == {x \in moves : copy[x].status = "none"}
        acts == IF Replays(Applying(reading, act, new)) THEN act ELSE {}
        app == IF Replays(Applying(reading, acts, new)) THEN new
               ELSE {x \in new : reading[x] = "in"} IN
    /\ Locking(p)
    /\ Begin(p, [op |-> "commit", reading |-> reading, act |-> acts, app |-> app,
                 sup |-> {x \in Read(reading, {"ignore"}) : Activatable(x)}])

\* Faulty variant: the rows that staged the copies are left as they were.
OriginsUntouched(act, sup) == {}

\* updateInPlace, markConversionOrigins, markSubscriptionOriginsIgnored: the
\* rows that staged the copies leave Needs attention.
Origins(act, sup) == {x \in act \cup sup : Pending(x)}

\* Faulty variant: the rows set aside are still counted as needing attention.
MarkedCountsKept(new, ignored) ==
    [counts EXCEPT !.new = @ + Cardinality(new), !.ignored = @ + Cardinality(ignored),
                   !.attention = @ - Cardinality(new)]

MarkedCounts(new, ignored) ==
    [counts EXCEPT !.new = @ + Cardinality(new), !.ignored = @ + Cardinality(ignored),
                   !.attention = @ - Cardinality(new) - Cardinality(ignored)]

\* settleEarlierRefusals: a refused row whose key was applied is a duplicate.
Refusals(app) == {x \in app : row[x].class = "invalid"}

\* Where a refused row was applied the batch is recounted last of all.
CommitWrite(p) ==
    LET r == req[p]
        marked == Origins(r.act, r.sup)
        refused == Refusals(r.app)
        possible == /\ \A x \in r.act : copy[x].status # "none"
                    /\ \A x \in r.app : copy[x].status = "none" IN
    /\ r.op = "commit"
    /\ \/ ~possible /\ Refuse(p)
       \/ /\ possible
          /\ copy' = [x \in Rows |->
                        IF x \in r.sup /\ copy[x].status # "none"
                        THEN [copy[x] EXCEPT !.status = "superseded", !.modified = FALSE]
                        ELSE Applying(r.reading, r.act, r.app)[x]]
          /\ row' = [x \in Rows |->
                       IF x \in marked \cap r.act THEN [row[x] EXCEPT !.class = "new"]
                       ELSE IF x \in marked THEN [row[x] EXCEPT !.class = "ignored"]
                       ELSE IF x \in refused THEN [row[x] EXCEPT !.class = "duplicate"]
                       ELSE row[x]]
          /\ \/ refused # {} /\ Recount
             \/ /\ refused = {}
                /\ counts' = MarkedCounts(marked \cap r.act, marked \ r.act)
                /\ UNCHANGED behind
          /\ End(p)
          /\ UNCHANGED <<positions, answer>>

-----------------------------------------------------------------------------
(* The ledger's own pages *)

LedgerRequest == May("ledger") /\ UNCHANGED <<report, req, lock, behind>>

\* deleteTransaction; the row's reference is set null by the database.
DeleteCopy(x) ==
    /\ copy[x].status # "none"
    /\ Replays([copy EXCEPT ![x] = NoCopy])
    /\ copy' = [copy EXCEPT ![x] = NoCopy]
    /\ row' = [row EXCEPT ![x].copied = FALSE]
    /\ answer' = [answer EXCEPT ![x] = "none"]
    /\ LedgerRequest
    /\ UNCHANGED <<counts, base, posted>>

\* editTransaction keeps the status: editing a copy does not classify it.
EditCopy(x, t) ==
    /\ copy[x].status # "none"
    /\ copy' = [copy EXCEPT ![x].type = t, ![x].modified = TRUE]
    /\ Replays(copy')
    /\ LedgerRequest
    /\ UNCHANGED <<row, counts, base, posted, answer>>

Trade(n) ==
    /\ base + n >= 0 /\ Quantity + n >= 0
    /\ base' = base + n
    /\ LedgerRequest
    /\ UNCHANGED <<row, copy, counts, posted, answer>>

DeleteAdjustment(b) ==
    /\ posted[b] > 0
    /\ Quantity - (report[b].b3 - report[b].computed) >= 0
    /\ posted' = [posted EXCEPT ![b] = @ - 1]
    /\ LedgerRequest
    /\ UNCHANGED <<row, copy, counts, base, answer>>

-----------------------------------------------------------------------------
(* Reconciliation *)

\* The cause the report states: an unclassified row comes before an absence.
Cause(listed) ==
    IF \E x \in Rows : copy[x].status = "unclassified" THEN "unclassified"
    ELSE IF listed THEN "other" ELSE "absent"

\* The commit of a Posicao batch: the position is compared with B3's figure,
\* or with none where the snapshot does not list it.
ReportCommit(b, b3, listed) ==
    /\ report[b].state = "none"
    /\ lock = Free
    /\ ~listed => b3 = 0
    /\ report' = [report EXCEPT ![b] =
                    [state |-> IF b3 = Quantity THEN "agrees" ELSE "open",
                     b3 |-> b3, computed |-> Quantity, listed |-> listed,
                     cause |-> Cause(listed)]]
    /\ May("report")
    /\ UNCHANGED <<batch, base, posted, req, lock, history>>

History == base # 0 \/ Active(copy) # {} \/ \E b \in Reports : posted[b] # 0

\* Faulty variant: the report is believed whatever was written since.
AcceptableOnce(b) == report[b].state = "open" /\ report[b].cause # "absent" /\ History

\* adjustmentBlocker: absent from the snapshot, no history, stale.
Acceptable(b) == /\ report[b].state = "open" /\ report[b].cause # "absent"
                 /\ History
                 /\ Quantity = report[b].computed

AcceptRead(p, b) ==
    /\ Acceptable(b)
    /\ Begin(p, [op |-> "accept", report |-> b])
    /\ UNCHANGED lock

AcceptWrite(p) ==
    LET b == req[p].report
        fits == Quantity + report[b].b3 - report[b].computed >= 0 IN
    /\ req[p].op = "accept"
    /\ \/ ~fits /\ Refuse(p)
       \/ /\ fits
          /\ posted' = [posted EXCEPT ![b] = @ + 1]
          /\ report' = [report EXCEPT ![b].state = "resolved"]
          /\ End(p)
          /\ UNCHANGED <<batch, base, history>>

-----------------------------------------------------------------------------
Next ==
    \/ \E p \in Requests :
         \/ \E x \in Rows : \/ IgnoreRead(p, x)
                            \/ \E t \in Types : ClassifyRead(p, x, t)
         \/ \E x \in Exercises : OfferRead(p, x)
         \/ \E reading \in [Rows -> Readings] : CommitRead(p, reading)
         \/ \E b \in Reports : AcceptRead(p, b)
         \/ ClassifyWrite(p) \/ IgnoreWrite(p) \/ OfferWrite(p) \/ CommitWrite(p)
         \/ AcceptWrite(p)
    \/ \E x \in Rows : DeleteCopy(x) \/ \E t \in Types : EditCopy(x, t)
    \/ \E n \in {-1, 1} : Trade(n)
    \/ \E b \in Reports : \/ DeleteAdjustment(b)
                          \/ \E b3 \in 0..Top, listed \in BOOLEAN : ReportCommit(b, b3, listed)

Spec == Init /\ [][Next]_vars

-----------------------------------------------------------------------------
(* Properties *)

\* What the user last made of a row stands until the user says otherwise: a
\* copy ignored, or spent by the settlement of a subscription, is not brought
\* back by a commit, one classified is not taken away (ignore-row.ts:58-63).
AnswersStand ==
    \A x \in Rows :
        /\ answer[x] = "classified" => copy[x].status = "active" /\ row[x].class = "new"
        /\ answer[x] = "ignored" => copy[x].status = "superseded" /\ row[x].class = "ignored"

\* A commit changes no copy a person has touched, edits that classify nothing
\* included (isUserModified, planReclassifications).
CommitDefers ==
    [][\A p \in Requests : req[p].op = "commit" /\ req'[p] # req[p] =>
         \A x \in Rows : copy[x].modified => copy'[x] = copy[x]]_vars

\* The batch's screen and the ledger tell the same story: of the rows with a
\* stored copy, one that needs attention has it outside every calculation, an
\* applied one inside, an ignored one set aside; and a refused row, which the
\* screen offers to import again, is not in the ledger (updateInPlace,
\* markSubscriptionOriginsIgnored, settleEarlierRefusals).
RowsAgree ==
    \A x \in Rows :
        /\ row[x].copied =>
             <<row[x].class, copy[x].status>> \in
                {<<"unclassified", "unclassified">>, <<"new", "active">>, <<"ignored", "superseded">>}
        /\ row[x].class = "invalid" => copy[x].status = "none"

\* The stored counts lag behind the rows by the classifications since they were
\* last recounted, and by nothing else: commits that add and subtract from
\* them, and recounts, never lose or double a row (recountBatch, updateInPlace,
\* settleEarlierRefusals).
CountsLagOnly ==
    counts = Summary([x \in Rows |-> IF x \in behind THEN [row[x] EXCEPT !.class = "unclassified"]
                                                     ELSE row[x]])

\* The batch's stored counts say what each row became (ignore-row.ts:96).
CountsSayRows == counts = Summary(row)

\* Accepting a difference brings the position to B3's figure, however old the
\* report and whatever was imported, classified, traded or accepted since
\* (adjustmentBlocker).
AcceptReaches ==
    [][\A b \in Reports : posted'[b] > posted[b] => Quantity' = report[b].b3]_vars

\* No adjustment takes away a position B3's snapshot does not list
\* (accept-adjustment.ts:64, "accepting zero would post the whole holding away").
AbsentKept ==
    [][\A b \in Reports : posted'[b] > posted[b] => report[b].listed]_vars

\* Every row that needs attention can be given it.
NoRowStuck == \A x \in Rows : row[x].class = "unclassified" => row[x].copied
=============================================================================
