--------------------------- MODULE ImportBatches ---------------------------
(***************************************************************************)
(* One tenant's import pipeline: an uploaded B3 extract becomes a `pending` *)
(* batch and a file on disk, the `import.stage` job parses the file into    *)
(* staged rows, the user reads the preview and asks for the `import.commit` *)
(* job, which writes the ledger, or cancels.  Server actions run in the web *)
(* process, jobs in the worker; the database (READ COMMITTED), the upload   *)
(* directory and the pg-boss queues are shared.                             *)
(*                                                                          *)
(* A step of an action or of a handler that other processes can observe is  *)
(* one TLA+ action.  A database transaction is split where it reads         *)
(* something another transaction may change before it writes.               *)
(*                                                                          *)
(* Source: app/(app)/import/actions.ts, worker/handlers/import.ts,          *)
(* core/ingestion/{stage,commit,cancel,fail}-batch.ts and occurrence.ts,    *)
(* lib/queue.ts, worker/queues.ts.                                          *)
(***************************************************************************)
EXTENDS Naturals, Sequences, FiniteSets

CONSTANTS
    Batches,       \* import batches, one per uploaded file
    Keys,          \* natural keys of the rows the files hold
    Copies,        \* Copies[b][k]: identical rows of key k in b's file
    Forms,         \* Forms[k]: the keys under which a row keyed k may be stored
    Parseable,     \* the batches whose file the parser accepts
    Uploads,       \* the file lists a user may upload in one request
    Runs,          \* handler executions the worker can have in flight
    Free,          \* not a run: nobody holds the import lock
    RetryLimit,    \* pg-boss retries of the two import queues
    Bound          \* the numbers of mishaps of each kind a behaviour may reach

\* What may upset the plain course of an import.  fault: a process crashes, or a
\* commit fails as a whole; expiry: a job expires while its handler runs;
\* purge: pg-boss forgets a finished job; refusal: a commit refuses some rows;
\* cancel: the user cancels a batch; delete: or an imported transaction.
Mishaps == {"fault", "expiry", "purge", "refusal", "cancel", "delete"}

ASSUME CopiesAssumption == Copies \in [Batches -> [Keys -> Nat]]
ASSUME FormsAssumption ==
    /\ Forms \in [Keys -> SUBSET Keys]
    /\ \A k \in Keys : k \in Forms[k]
ASSUME SetsAssumption ==
    /\ Batches # {}
    /\ Parseable \subseteq Batches
    /\ Uploads \subseteq Seq(Batches)
    /\ \A files \in Uploads : \A i, j \in DOMAIN files : files[i] = files[j] => i = j
    /\ Free \notin Runs
ASSUME FiniteAssumption == IsFiniteSet(Batches) /\ IsFiniteSet(Keys)
ASSUME BoundsAssumption ==
    /\ RetryLimit \in Nat
    /\ Bound \subseteq [Mishaps -> Nat]

VARIABLES
    status,    \* import_batches.status; "absent" before the row exists
    file,      \* the batches whose .xlsx is in the upload directory
    staged,    \* import_rows of each batch
    ledger,    \* transactions each batch brought in: natural key, occurrence
    job,       \* the pg-boss job of each batch in each import queue
    run,       \* handler executions of the worker process
    lock,      \* holder of the advisory lock taken by lockImportWrites
    upload,    \* files the running upload action still has to save
    saved,     \* has it written the first of them?
    cancel,    \* the cancel action running for each batch
    doomed,    \* the staged rows its DELETE found, deleted when it commits
    spent      \* mishaps so far

batchVars == <<status, file, staged, ledger>>
webVars   == <<upload, saved, cancel, doomed>>
vars == <<batchVars, job, run, lock, webVars, spent>>

Statuses == {"absent", "pending", "previewed", "committed", "discarded", "failed"}
Queues   == {"stage", "commit"}

\* A ledger row as the unique constraint sees it, and the rows of b's file.
Row == Keys \X (Nat \ {0})
RowsOf(b) == UNION {{k} \X (1..Copies[b][k]) : k \in Keys}

\* An import_rows row: its key, its ordinal in the file, whether staging found
\* it new, and the delivery attempt that inserted it.
StagedRow == [try : Nat, row : Row, new : BOOLEAN]

Job == [state : {"none", "queued", "active", "done", "dead"}, try : Nat]
NoJob == [state |-> "none", try |-> 0]

\* Where a handler execution is: the step it takes next.
Pcs == {"idle", "read", "check", "write", "failcheck", "failwrite",
        "begin", "rows", "apply", "delete", "ack", "throw"}

Run == [pc : Pcs, queue : Queues, batch : Batches, try : Nat,
        live : BOOLEAN,                \* FALSE once pg-boss gave up on it
        seen : SUBSET StagedRow]       \* rows the handler holds in memory

Idle == [pc |-> "idle", queue |-> "stage", batch |-> CHOOSE b \in Batches : TRUE,
         try |-> 0, live |-> FALSE, seen |-> {}]

Stored == UNION {ledger[b] : b \in Batches}

TypeOK ==
    /\ status \in [Batches -> Statuses]
    /\ file \in SUBSET Batches
    /\ staged \in [Batches -> SUBSET StagedRow]
    /\ ledger \in [Batches -> SUBSET Row]
    /\ job \in [Queues -> [Batches -> Job]]
    /\ run \in [Runs -> Run]
    /\ lock \in Runs \cup {Free}
    /\ upload \in Seq(Batches)
    /\ saved \in BOOLEAN
    /\ cancel \in [Batches -> {"idle", "rows", "apply", "delete"}]
    /\ doomed \in [Batches -> SUBSET StagedRow]
    /\ spent \in [Mishaps -> Nat]

Init ==
    /\ status = [b \in Batches |-> "absent"]
    /\ file = {}
    /\ staged = [b \in Batches |-> {}]
    /\ ledger = [b \in Batches |-> {}]
    /\ job = [q \in Queues |-> [b \in Batches |-> NoJob]]
    /\ run = [r \in Runs |-> Idle]
    /\ lock = Free
    /\ upload = <<>>
    /\ saved = FALSE
    /\ cancel = [b \in Batches |-> "idle"]
    /\ doomed = [b \in Batches |-> {}]
    /\ spent = [m \in Mishaps |-> 0]

Mishap(m) ==
    /\ spent' = [spent EXCEPT ![m] = @ + 1]
    /\ spent' \in Bound

Without(kinds) == \A m \in kinds : spent[m] = 0

-----------------------------------------------------------------------------
(* The upload action.  Every batch row of one request is inserted in one    *)
(* transaction; then each file is saved and its job sent, in file order.    *)

UploadRows(files) ==
    /\ upload = <<>>
    /\ files \in Uploads
    /\ \A i \in DOMAIN files : status[files[i]] = "absent"
    /\ status' = [b \in Batches |->
                    IF \E i \in DOMAIN files : files[i] = b THEN "pending" ELSE status[b]]
    /\ upload' = files
    /\ saved' = FALSE
    /\ UNCHANGED <<file, staged, ledger, job, run, lock, cancel, doomed, spent>>

SaveFile ==
    /\ upload # <<>>
    /\ ~saved
    /\ file' = file \cup {Head(upload)}
    /\ saved' = TRUE
    /\ UNCHANGED <<status, staged, ledger, job, run, lock, upload, cancel, doomed, spent>>

EnqueueStage ==
    /\ upload # <<>>
    /\ saved
    /\ job' = [job EXCEPT !["stage"][Head(upload)] = [state |-> "queued", try |-> 0]]
    /\ upload' = Tail(upload)
    /\ saved' = FALSE
    /\ UNCHANGED <<batchVars, run, lock, cancel, doomed, spent>>

-----------------------------------------------------------------------------
(* pg-boss.  A job runs at most 1 + RetryLimit times, then is dead-lettered.*)

Deliver(q, b, r) ==
    /\ job[q][b].state = "queued"
    /\ run[r].pc = "idle"
    /\ job' = [job EXCEPT ![q][b].state = "active"]
    /\ run' = [run EXCEPT ![r] =
                 [pc |-> IF q = "stage" THEN "read" ELSE "begin", queue |-> q,
                  batch |-> b, try |-> job[q][b].try, live |-> TRUE, seen |-> {}]]
    /\ UNCHANGED <<batchVars, lock, webVars, spent>>

\* Faulty variant: a job out of retries is left in a state nobody reads.
AfterFailureUnnamed(j) ==
    IF j.try < RetryLimit THEN [state |-> "queued", try |-> j.try + 1]
                          ELSE [state |-> "failed", try |-> j.try]

AfterFailure(j) ==
    IF j.try < RetryLimit THEN [state |-> "queued", try |-> j.try + 1]
                          ELSE [state |-> "dead", try |-> j.try]

\* The handler returned, or threw; pg-boss listens only to a job it still
\* believes active.
Ack(r) ==
    /\ run[r].pc = "ack"
    /\ job' = IF run[r].live
                THEN [job EXCEPT ![run[r].queue][run[r].batch].state = "done"]
                ELSE job
    /\ run' = [run EXCEPT ![r] = Idle]
    /\ UNCHANGED <<batchVars, lock, webVars, spent>>

Fail(r) ==
    /\ run[r].pc = "throw"
    /\ job' = IF run[r].live
                THEN [job EXCEPT ![run[r].queue][run[r].batch] = AfterFailure(@)]
                ELSE job
    /\ run' = [run EXCEPT ![r] = Idle]
    /\ UNCHANGED <<batchVars, lock, webVars, spent>>

\* expireInSeconds elapsed: for a job nobody runs any more, or for one whose
\* handler is merely slow and goes on regardless.
ExpireOrphan(q, b) ==
    /\ job[q][b].state = "active"
    /\ \A r \in Runs : ~(run[r].live /\ run[r].queue = q /\ run[r].batch = b)
    /\ job' = [job EXCEPT ![q][b] = AfterFailure(@)]
    /\ UNCHANGED <<batchVars, run, lock, webVars, spent>>

ExpireLive(r) ==
    /\ run[r].live
    /\ Mishap("expiry")
    /\ job' = [job EXCEPT ![run[r].queue][run[r].batch] = AfterFailure(@)]
    /\ run' = [run EXCEPT ![r].live = FALSE]
    /\ UNCHANGED <<batchVars, lock, webVars>>

\* A finished commit job is kept under its id until pg-boss purges it.
PurgeCommitJob(b) ==
    /\ job["commit"][b].state \in {"done", "dead"}
    /\ Mishap("purge")
    /\ job' = [job EXCEPT !["commit"][b] = NoJob]
    /\ UNCHANGED <<batchVars, run, lock, webVars>>

\* The worker process dies: its handlers stop, the database rolls back what
\* they had open and releases the lock.  The jobs stay active until they expire.
Crash ==
    /\ \E r \in Runs : run[r].pc # "idle"
    /\ Mishap("fault")
    /\ run' = [r \in Runs |-> Idle]
    /\ lock' = Free
    /\ UNCHANGED <<batchVars, job, webVars>>

-----------------------------------------------------------------------------
(* handleImportStage *)

Goto(r, from, to) ==
    /\ run[r].pc = from
    /\ run' = [run EXCEPT ![r].pc = to]

StageRead(r) ==
    LET b == run[r].batch IN
    /\ \/ b \notin file                        /\ Goto(r, "read", "throw")
       \/ b \in file /\ b \in Parseable        /\ Goto(r, "read", "check")
       \/ b \in file /\ b \notin Parseable     /\ Goto(r, "read", "failcheck")
    /\ UNCHANGED <<batchVars, job, lock, webVars, spent>>

\* Faulty variant: any batch is staged, whatever its status.
StageCheckAnyStatus(r) ==
    /\ \/ RowsOf(run[r].batch) # {} /\ Goto(r, "check", "write")
       \/ RowsOf(run[r].batch) = {} /\ Goto(r, "check", "throw")
    /\ UNCHANGED <<batchVars, job, lock, webVars, spent>>

\* stageBatch's read of the batch: BATCH_NOT_PENDING, EMPTY_EXTRACT.
StageCheck(r) ==
    LET b == run[r].batch
        stageable == status[b] = "pending" /\ RowsOf(b) # {} IN
    /\ \/ stageable  /\ Goto(r, "check", "write")
       \/ ~stageable /\ Goto(r, "check", "throw")
    /\ UNCHANGED <<batchVars, job, lock, webVars, spent>>

\* How many occurrences of key k are stored, over every form of it; never
\* below the highest ordinal stored under k itself.
Highest(k) ==
    LET ordinals == {x[2] : x \in {y \in Stored : y[1] = k}} IN
    IF ordinals = {} THEN 0 ELSE CHOOSE o \in ordinals : \A p \in ordinals : p <= o

\* Faulty variant: the maxima of the forms are summed (issue #110).
ExistingSummed(k) == Cardinality(UNION {{f} \X (1..Highest(f)) : f \in Forms[k]})

\* Faulty variant: the key's own highest ordinal is no floor.
ExistingUnfloored(k) == Cardinality({x \in Stored : x[1] \in Forms[k]})

Existing(k) ==
    LET counted == Cardinality({x \in Stored : x[1] \in Forms[k]}) IN
    IF counted > Highest(k) THEN counted ELSE Highest(k)

\* Every row of the file, new when its ordinal among the equal ones of the file
\* is above what is stored.  The rows are those whose source states a price:
\* the extra matching of rows that B3 printed without one, or at zero, to the
\* stored rows of the same provenance (sourcePriceOccurrences) is left out.
PlanOccurrences(b, try) ==
    {[try |-> try, row |-> x, new |-> x[2] > Existing(x[1])] : x \in RowsOf(b)}

\* The occurrence tallies are read, the rows inserted and the batch moved to
\* `previewed` by id, whatever its status has become since StageCheck.
StageWrite(r) ==
    LET b == run[r].batch IN
    /\ Goto(r, "write", "ack")
    /\ staged' = [staged EXCEPT ![b] = @ \cup PlanOccurrences(b, run[r].try)]
    /\ status' = [status EXCEPT ![b] = "previewed"]
    /\ UNCHANGED <<file, ledger, job, lock, webVars, spent>>

\* failBatch after a parse failure: a repeated failure is a no-op success.
FailCheck(r) ==
    LET b == run[r].batch IN
    /\ \/ status[b] = "failed"                 /\ Goto(r, "failcheck", "delete")
       \/ status[b] = "pending"                /\ Goto(r, "failcheck", "failwrite")
       \/ status[b] \notin {"failed", "pending"} /\ Goto(r, "failcheck", "throw")
    /\ UNCHANGED <<batchVars, job, lock, webVars, spent>>

FailWrite(r) ==
    /\ Goto(r, "failwrite", "delete")
    /\ status' = [status EXCEPT ![run[r].batch] = "failed"]
    /\ UNCHANGED <<file, staged, ledger, job, lock, webVars, spent>>

\* deleteUploadedFile, the last step of a terminal parse failure and of a
\* commit (whose best-effort request for a snapshot rebuild comes after it and
\* touches nothing modelled here).
DeleteFile(r) ==
    /\ Goto(r, "delete", "ack")
    /\ file' = file \ {run[r].batch}
    /\ UNCHANGED <<status, staged, ledger, job, lock, webVars, spent>>

-----------------------------------------------------------------------------
(* handleImportCommit *)

\* Faulty variants: the lock is not waited for; the no-op success forgets the
\* file.
CommitBeginUnlocked(r) ==
    LET b == run[r].batch IN
    /\ \/ status[b] = "committed" /\ Goto(r, "begin", "delete") /\ UNCHANGED lock
       \/ status[b] = "previewed" /\ Goto(r, "begin", "rows")   /\ lock' = r
       \/ status[b] \notin {"committed", "previewed"}
            /\ Goto(r, "begin", "throw") /\ UNCHANGED lock
    /\ UNCHANGED <<batchVars, job, webVars, spent>>

CommitBeginForgetsFile(r) ==
    LET b == run[r].batch IN
    /\ lock = Free
    /\ \/ status[b] = "committed" /\ Goto(r, "begin", "ack")  /\ UNCHANGED lock
       \/ status[b] = "previewed" /\ Goto(r, "begin", "rows") /\ lock' = r
       \/ status[b] \notin {"committed", "previewed"}
            /\ Goto(r, "begin", "throw") /\ UNCHANGED lock
    /\ UNCHANGED <<batchVars, job, webVars, spent>>

\* lockImportWrites, then the batch row.  A committed batch is a success with
\* nothing to do; any status but `previewed` is refused.
CommitBegin(r) ==
    LET b == run[r].batch IN
    /\ lock = Free
    /\ \/ status[b] = "committed" /\ Goto(r, "begin", "delete") /\ UNCHANGED lock
       \/ status[b] = "previewed" /\ Goto(r, "begin", "rows")   /\ lock' = r
       \/ status[b] \notin {"committed", "previewed"}
            /\ Goto(r, "begin", "throw") /\ UNCHANGED lock
    /\ UNCHANGED <<batchVars, job, webVars, spent>>

\* Faulty variant: the file goes before the commit is durable.
CommitRowsDropFile(r) ==
    /\ run[r].pc = "rows"
    /\ run' = [run EXCEPT ![r].pc = "apply", ![r].seen = staged[run[r].batch]]
    /\ file' = file \ {run[r].batch}
    /\ UNCHANGED <<status, staged, ledger, job, lock, webVars, spent>>

CommitRows(r) ==
    /\ run[r].pc = "rows"
    /\ run' = [run EXCEPT ![r].pc = "apply", ![r].seen = staged[run[r].batch]]
    /\ UNCHANGED <<batchVars, job, lock, webVars, spent>>

\* Faulty variant: no unique constraint against the stored rows.
InsertableBesideStored(rows) == \A x, y \in rows : x.row = y.row => x = y

\* unique(user_id, natural_key, occurrence)
Insertable(rows) ==
    /\ \A x \in rows : x.row \notin Stored
    /\ \A x, y \in rows : x.row = y.row => x = y

NewRows(r) == {x \in run[r].seen : x.new}

\* Faulty variant: the rows are committed before the batch is marked, in a
\* transaction of its own.
CommitApplyUnmarked(r) ==
    /\ run[r].pc = "apply"
    /\ \E rows \in SUBSET NewRows(r) :
         /\ Insertable(rows)
         /\ ledger' = [ledger EXCEPT ![run[r].batch] = @ \cup {x.row : x \in rows}]
         /\ IF rows = NewRows(r) THEN UNCHANGED spent ELSE Mishap("refusal")
    /\ run' = [run EXCEPT ![r].pc = "delete", ![r].seen = {}]
    /\ lock' = Free
    /\ UNCHANGED <<status, file, staged, job, webVars>>

\* The rows the settlement accepts are inserted, the batch becomes `committed`
\* by id, whatever its status has become since CommitBegin, and the
\* transaction commits.
CommitApply(r) ==
    LET b == run[r].batch IN
    /\ run[r].pc = "apply"
    /\ \E rows \in SUBSET NewRows(r) :
         /\ Insertable(rows)
         /\ ledger' = [ledger EXCEPT ![b] = @ \cup {x.row : x \in rows}]
         /\ IF rows = NewRows(r) THEN UNCHANGED spent ELSE Mishap("refusal")
    /\ run' = [run EXCEPT ![r].pc = "delete", ![r].seen = {}]
    /\ status' = [status EXCEPT ![b] = "committed"]
    /\ lock' = Free
    /\ UNCHANGED <<file, staged, job, webVars>>

\* The insert hits the unique constraint: the whole transaction rolls back.
CommitConflict(r) ==
    /\ ~Insertable(NewRows(r))
    /\ Goto(r, "apply", "throw")
    /\ lock' = Free
    /\ UNCHANGED <<batchVars, job, webVars, spent>>

\* A missing reference date or a failed wallet effect is returned as an error:
\* withTenantResult rolls back and the handler throws.
CommitRefused(r) ==
    /\ Mishap("fault")
    /\ Goto(r, "apply", "throw")
    /\ lock' = Free
    /\ UNCHANGED <<batchVars, job, webVars>>

-----------------------------------------------------------------------------
(* The user *)

\* commitBatchAction.  The page offers the button on a previewed batch; the
\* action checks nothing, so a page that has grown stale may still send it.  A
\* job of that id that pg-boss keeps, in whatever state, absorbs the request.
RequestCommit(b) ==
    /\ status[b] \in {"previewed", "committed", "discarded"}
    /\ job["commit"][b].state = "none"
    /\ job' = [job EXCEPT !["commit"][b] = [state |-> "queued", try |-> 0]]
    /\ UNCHANGED <<batchVars, run, lock, webVars, spent>>

\* cancelBatchAction runs handleImportCancel in the web process: cancelBatch
\* reads the batch, deletes its staged rows and marks it, without any lock.
CancelCheck(b) ==
    /\ cancel[b] = "idle"
    /\ status[b] \notin {"absent", "committed", "discarded"}
    /\ Mishap("cancel")
    /\ cancel' = [cancel EXCEPT ![b] = "rows"]
    /\ UNCHANGED <<batchVars, job, run, lock, upload, saved, doomed>>

\* The DELETE finds the rows that are committed when it starts; they go when
\* the cancellation commits.
CancelRows(b) ==
    /\ cancel[b] = "rows"
    /\ cancel' = [cancel EXCEPT ![b] = "apply"]
    /\ doomed' = [doomed EXCEPT ![b] = staged[b]]
    /\ UNCHANGED <<batchVars, job, run, lock, upload, saved, spent>>

\* The batch becomes `discarded` by id, whatever its status has become since
\* CancelCheck and whatever was staged since CancelRows, and the transaction
\* commits.
CancelApply(b) ==
    /\ cancel[b] = "apply"
    /\ staged' = [staged EXCEPT ![b] = @ \ doomed[b]]
    /\ status' = [status EXCEPT ![b] = "discarded"]
    /\ cancel' = [cancel EXCEPT ![b] = "delete"]
    /\ doomed' = [doomed EXCEPT ![b] = {}]
    /\ UNCHANGED <<file, ledger, job, run, lock, upload, saved, spent>>

CancelDelete(b) ==
    /\ cancel[b] = "delete"
    /\ file' = file \ {b}
    /\ cancel' = [cancel EXCEPT ![b] = "idle"]
    /\ UNCHANGED <<status, staged, ledger, job, run, lock, upload, saved, doomed, spent>>

\* The web process dies, or a request fails between two of its steps.
WebCrash ==
    /\ upload # <<>> \/ \E b \in Batches : cancel[b] # "idle"
    /\ Mishap("fault")
    /\ upload' = <<>>
    /\ saved' = FALSE
    /\ cancel' = [b \in Batches |-> "idle"]
    /\ doomed' = [b \in Batches |-> {}]
    /\ UNCHANGED <<batchVars, job, run, lock>>

DeleteTransaction(b, x) ==
    /\ x \in ledger[b]
    /\ Mishap("delete")
    /\ ledger' = [ledger EXCEPT ![b] = @ \ {x}]
    /\ UNCHANGED <<status, file, staged, job, run, lock, webVars>>

-----------------------------------------------------------------------------
HandlerStep(r) ==
    \/ StageRead(r) \/ StageCheck(r) \/ StageWrite(r)
    \/ FailCheck(r) \/ FailWrite(r) \/ DeleteFile(r)
    \/ CommitBegin(r) \/ CommitRows(r) \/ CommitApply(r)
    \/ CommitConflict(r) \/ Ack(r) \/ Fail(r)

Next ==
    \/ \E files \in Uploads : UploadRows(files)
    \/ SaveFile \/ EnqueueStage
    \/ \E r \in Runs : HandlerStep(r) \/ CommitRefused(r) \/ ExpireLive(r)
    \/ \E q \in Queues, b \in Batches : \/ ExpireOrphan(q, b)
                                        \/ \E r \in Runs : Deliver(q, b, r)
    \/ Crash \/ WebCrash
    \/ \E b \in Batches : \/ PurgeCommitJob(b) \/ RequestCommit(b)
                          \/ CancelCheck(b) \/ CancelRows(b)
                          \/ CancelApply(b) \/ CancelDelete(b)
                          \/ \E x \in ledger[b] : DeleteTransaction(b, x)

Spec == Init /\ [][Next]_vars

\* What the deployment keeps doing: a running process executes its handlers,
\* pg-boss delivers queued jobs in order and expires those nobody runs.
Fairness ==
    /\ \A r \in Runs : WF_vars(HandlerStep(r))
    /\ \A q \in Queues, b \in Batches :
         /\ WF_vars(ExpireOrphan(q, b))
         /\ SF_vars(\E r \in Runs : Deliver(q, b, r))
    /\ WF_vars(SaveFile) /\ WF_vars(EnqueueStage)
    /\ \A b \in Batches :
         WF_vars(CancelRows(b)) /\ WF_vars(CancelApply(b)) /\ WF_vars(CancelDelete(b))

FairSpec == Spec /\ Fairness

-----------------------------------------------------------------------------
(* Safety *)

\* No row of a file enters the ledger twice.  The ledger rows a batch brought
\* in are rows of its file, and two batches never hold the same occurrence:
\* the user's statement is never counted twice, whatever is retried, expired
\* or uploaded again (commitBatch, planOccurrences).
NoOverImport ==
    /\ \A b \in Batches : ledger[b] \subseteq RowsOf(b)
    /\ \A b, c \in Batches : b # c => ledger[b] \cap ledger[c] = {}

\* Two commits of one tenant never plan against the same ledger: between its
\* lock and the end of its transaction a commit runs alone (lockImportWrites).
InCommit(r) == run[r].pc \in {"rows", "apply"}
CommitsExclusive == \A r, s \in Runs : InCommit(r) /\ InCommit(s) => r = s

\* A batch that is committed applies nothing more: a retry, or a run whose job
\* expired under it, never brings back a row the user has since deleted
\* (commitBatch's no-op on a committed batch, under the lock).
CommittedNeverGrows ==
    [][\A b \in Batches : status[b] = "committed" => ledger'[b] \subseteq ledger[b]]_vars

\* The import keeps its promise: rows enter the ledger only in the one step
\* that settles their batch, whole, and never beside an equal occurrence, so no
\* crash, retry or second handler shows or leaves a half-imported extract
\* (commitBatch's single transaction under lockImportWrites).
Extract == [b \in Batches |-> RowsOf(b)]
Settled == {b \in Batches : status[b] = "committed"}
Promise == INSTANCE ImportPromise WITH imported <- ledger, settled <- Settled
KeepsPromise == Promise!Spec

\* Unless a batch is cancelled or a job expires under its handler, `committed`
\* and `failed` are final: a late redelivery never takes a batch back to an
\* earlier status (stageBatch, failBatch, commitBatch).
TerminalStable ==
    [][Without({"cancel", "expiry"})' =>
         \A b \in Batches : status[b] \in {"committed", "failed"} => status'[b] = status[b]]_vars

\* Unless something is cancelled, deleted or refused, a committed batch lost
\* nothing: for every key of its file the ledger holds as many rows, over the
\* key's forms, as the file does, whichever earlier batch brought them
\* (countsAcrossKeyForms).
NoSilentLoss ==
    Without({"cancel", "delete", "refusal"}) =>
        \A b \in Batches, k \in Keys :
            status[b] = "committed" =>
                Cardinality({x \in Stored : x[1] \in Forms[k]}) >= Copies[b][k]

\* What staging calls new is not stored, also when the user has deleted some of
\* a key's transactions: the ordinals it gives are above every stored one (the
\* floor of countsAcrossKeyForms).
StagedAboveStored ==
    [][\A b \in Batches : \A x \in staged'[b] \ staged[b] : x.new => x.row \notin Stored]_vars

\* Unless a batch is cancelled or a job expires under its handler, a batch
\* whose job was sent keeps its file until it is finished: a retry never finds
\* the bytes gone (handleImportStage and handleImportCommit delete only after
\* the status is durable).
FileKept ==
    Without({"cancel", "expiry"}) =>
        \A b \in Batches :
            status[b] \in {"pending", "previewed"} /\ job["stage"][b].state # "none"
                => b \in file

\* Unless a job expires under its handler, no extract is staged twice: whatever
\* crashes, is delivered again or is cancelled meanwhile, the staged rows of a
\* batch are those of one delivery, so its preview counts no row twice and its
\* commit meets no row of its own (stageBatch's check of the status, which the
\* staging writes in the transaction of the rows).
StagedOnce ==
    Without({"expiry"}) =>
        \A b \in Batches : \A x, y \in staged[b] : x.try = y.try

\* A cancelled batch keeps no staged row (cancel-batch.ts:9-10): rows that a
\* staging commits between the cancellation's DELETE and its UPDATE stay.
CancelLeavesNoRows ==
    \A b \in Batches : status[b] = "discarded" => staged[b] = {}

\* A commit never meets the unique constraint (stage-batch.ts:486): the second
\* of two extracts that overlap and were both staged before either was
\* committed does.
NoUniqueViolation ==
    \A r \in Runs : run[r].pc = "apply" => Insertable(NewRows(r))

\* Cancelling writes nothing to the ledger (cancel-batch.ts:9).
CancelWritesNothing ==
    \A b \in Batches : status[b] = "discarded" => ledger[b] = {}

-----------------------------------------------------------------------------
(* Liveness, under FairSpec *)

\* Every upload comes to rest: each job sent ends, done or dead-lettered, none
\* left active by a crash or waiting for ever behind the import lock, and, with
\* no more failed deliveries than the queue retries, the file of a committed or
\* failed batch is gone (lockImportWrites, worker/queues.ts, handleImportStage
\* and handleImportCommit).
UploadsSettle ==
    <>[](\A b \in Batches :
           /\ \A q \in Queues : job[q][b].state \in {"none", "done", "dead"}
           /\ status[b] \in {"committed", "failed"} => b \notin file)

\* The file of every batch that will never need it again goes
\* (worker/handlers/import.ts:66-70), cancelled ones included.
RawFileGoes ==
    \A b \in Batches : status[b] \in {"committed", "failed", "discarded"} ~> b \notin file
=============================================================================
