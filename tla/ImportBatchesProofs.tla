------------------------ MODULE ImportBatchesProofs ------------------------
(***************************************************************************)
(* Proofs about ImportBatches, for any batches, files, number of handler    *)
(* executions and bounds: what a batch brings into the ledger, what it keeps *)
(* and clears away over its life (staged rows, file, status), and that none *)
(* of a file's rows is lost.                                                *)
(***************************************************************************)
EXTENDS ImportBatches, Sums

-----------------------------------------------------------------------------
(* Typing of the pieces *)

\* The idle execution is an execution.
LEMMA IdleIsRun == Idle \in Run
<1>1. (CHOOSE b \in Batches : TRUE) \in Batches
  BY SetsAssumption
<1> QED BY <1>1 DEF Idle, Run, Pcs, Queues

\* A job that failed is still a job, one attempt further or dead.
LEMMA AfterFailureIsJob ==
  ASSUME NEW j \in Job
  PROVE  AfterFailure(j) \in Job
BY BoundsAssumption DEF AfterFailure, Job

\* The rows of a file are ledger rows.
LEMMA RowsAreRows ==
  ASSUME NEW b \in Batches
  PROVE  RowsOf(b) \subseteq Row
BY CopiesAssumption DEF RowsOf, Row

\* An import row is built of an attempt, a ledger row and a verdict.
LEMMA StagedRowTyped ==
  ASSUME NEW try \in Nat, NEW x \in Row, NEW new \in BOOLEAN
  PROVE  [try |-> try, row |-> x, new |-> new] \in StagedRow
BY DEF StagedRow

\* What staging plans are import rows of the batch's file.
LEMMA PlannedRows ==
  ASSUME NEW b \in Batches, NEW try \in Nat
  PROVE  /\ PlanOccurrences(b, try) \subseteq StagedRow
         /\ \A x \in PlanOccurrences(b, try) : x.row \in RowsOf(b)
<1>1. \A x : (x[2] > Existing(x[1])) \in BOOLEAN
  OBVIOUS
<1>2. \A x \in RowsOf(b) :
        [try |-> try, row |-> x, new |-> x[2] > Existing(x[1])] \in StagedRow
  BY <1>1, RowsAreRows, StagedRowTyped, Zenon
<1>3. \A y \in PlanOccurrences(b, try) : y \in StagedRow
  BY <1>2, Zenon DEF PlanOccurrences
<1>4. \A y \in PlanOccurrences(b, try) : y.row \in RowsOf(b)
  BY DEF PlanOccurrences
<1> QED BY <1>3, <1>4, Zenon

\* Moving one execution's program counter keeps every execution well typed.
LEMMA GotoTyped ==
  ASSUME NEW r \in Runs, NEW from, NEW to \in Pcs,
         run \in [Runs -> Run], Goto(r, from, to)
  PROVE  run' \in [Runs -> Run]
BY DEF Goto, Run

\* A handler that gave up leaves every job a job.
LEMMA JobAfterFailureTyped ==
  ASSUME NEW q \in Queues, NEW b \in Batches, job \in [Queues -> [Batches -> Job]],
         job' = [job EXCEPT ![q][b] = AfterFailure(@)]
  PROVE  job' \in [Queues -> [Batches -> Job]]
<1>1. job[q][b] \in Job
  OBVIOUS
<1>2. AfterFailure(job[q][b]) \in Job
  BY <1>1, AfterFailureIsJob
<1> QED BY <1>2

-----------------------------------------------------------------------------
(* Type correctness.  Actions are grouped by the process that takes them.   *)

\* The upload action keeps the types.
LEMMA UploadTyped ==
  ASSUME TypeOK,
         \/ \E files \in Uploads : UploadRows(files)
         \/ SaveFile \/ EnqueueStage
  PROVE  TypeOK'
<1>1. ASSUME NEW files \in Uploads, UploadRows(files) PROVE TypeOK'
  BY <1>1, SetsAssumption DEF UploadRows, TypeOK, Statuses
<1>2. CASE SaveFile
  <2>1. Head(upload) \in Batches
    BY <1>2 DEF SaveFile, TypeOK
  <2> QED BY <1>2, <2>1 DEF SaveFile, TypeOK
<1>3. CASE EnqueueStage
  <2>1. Head(upload) \in Batches /\ Tail(upload) \in Seq(Batches)
    BY <1>3 DEF EnqueueStage, TypeOK
  <2>2. [state |-> "queued", try |-> 0] \in Job /\ "stage" \in Queues
    BY DEF Job, Queues
  <2> QED BY <1>3, <2>1, <2>2 DEF EnqueueStage, TypeOK, batchVars
<1> QED BY <1>1, <1>2, <1>3

\* Delivering a job keeps the types.
LEMMA DeliverTyped ==
  ASSUME TypeOK, NEW q \in Queues, NEW b \in Batches, NEW r \in Runs, Deliver(q, b, r)
  PROVE  TypeOK'
<1>1. job[q][b] \in Job
  BY DEF TypeOK
<1>2. [job[q][b] EXCEPT !.state = "active"] \in Job /\ job[q][b].try \in Nat
  BY <1>1 DEF Job
<1>3. [pc |-> IF q = "stage" THEN "read" ELSE "begin", queue |-> q,
       batch |-> b, try |-> job[q][b].try, live |-> TRUE, seen |-> {}] \in Run
  BY <1>2 DEF Run, Pcs
<1> QED BY <1>2, <1>3 DEF Deliver, TypeOK, batchVars, webVars

\* So do the three ends of a handler execution.
LEMMA EndTyped ==
  ASSUME TypeOK, NEW r \in Runs, Ack(r) \/ Fail(r) \/ ExpireLive(r)
  PROVE  TypeOK'
<1> DEFINE q == run[r].queue
           b == run[r].batch
<1>1. q \in Queues /\ b \in Batches /\ job[q][b] \in Job
  BY DEF TypeOK, Run
<1>2. [job[q][b] EXCEPT !.state = "done"] \in Job /\ AfterFailure(job[q][b]) \in Job
  BY <1>1, AfterFailureIsJob DEF Job
<1>3. CASE Ack(r)
  <2>1. job' \in [Queues -> [Batches -> Job]]
    BY <1>1, <1>2, <1>3 DEF Ack, TypeOK
  <2> QED BY <1>3, <2>1, IdleIsRun DEF Ack, TypeOK, batchVars, webVars
<1>4. CASE Fail(r)
  <2>1. job' \in [Queues -> [Batches -> Job]]
    BY <1>1, <1>2, <1>4 DEF Fail, TypeOK
  <2> QED BY <1>4, <2>1, IdleIsRun DEF Fail, TypeOK, batchVars, webVars
<1>5. CASE ExpireLive(r)
  <2>1. job' \in [Queues -> [Batches -> Job]]
    BY <1>1, <1>2, <1>5 DEF ExpireLive, TypeOK
  <2>2. [run[r] EXCEPT !.live = FALSE] \in Run
    BY DEF TypeOK, Run
  <2>4. run' \in [Runs -> Run]
    BY <1>5, <2>2 DEF ExpireLive, TypeOK
  <2>3. spent' \in [Mishaps -> Nat]
    BY <1>5 DEF ExpireLive, Mishap, TypeOK, Mishaps
  <2> QED BY <1>5, <2>1, <2>4, <2>3 DEF ExpireLive, TypeOK, batchVars, webVars
<1> QED BY <1>3, <1>4, <1>5

\* So do the expiry of an orphan and the purge of a finished job.
LEMMA QueueTyped ==
  ASSUME TypeOK, NEW q \in Queues, NEW b \in Batches,
         ExpireOrphan(q, b) \/ PurgeCommitJob(b) \/ RequestCommit(b)
  PROVE  TypeOK'
<1>1. NoJob \in Job /\ [state |-> "queued", try |-> 0] \in Job /\ "commit" \in Queues
  BY DEF NoJob, Job, Queues
<1>2. CASE ExpireOrphan(q, b)
  <2>1. job' \in [Queues -> [Batches -> Job]]
    BY <1>2, JobAfterFailureTyped DEF ExpireOrphan, TypeOK
  <2> QED BY <1>2, <2>1 DEF ExpireOrphan, TypeOK, batchVars, webVars
<1>3. CASE PurgeCommitJob(b)
  <2>1. spent' \in [Mishaps -> Nat]
    BY <1>3 DEF PurgeCommitJob, Mishap, TypeOK, Mishaps
  <2> QED BY <1>1, <1>3, <2>1 DEF PurgeCommitJob, TypeOK, batchVars, webVars
<1>4. CASE RequestCommit(b)
  BY <1>1, <1>4 DEF RequestCommit, TypeOK, batchVars, webVars
<1> QED BY <1>2, <1>3, <1>4

\* The empty upload is an upload.
LEMMA EmptyUpload == <<>> \in Seq(Batches)
OBVIOUS

\* A crash, of the worker or of the web process, keeps the types.
LEMMA CrashTyped ==
  ASSUME TypeOK, Crash \/ WebCrash
  PROVE  TypeOK'
<1>1. Mishap("fault") => spent' \in [Mishaps -> Nat]
  BY DEF Mishap, TypeOK, Mishaps
<1>2. CASE Crash
  BY <1>1, <1>2, IdleIsRun DEF Crash, TypeOK, batchVars, webVars
<1>3. CASE WebCrash
  <2>1. upload' \in Seq(Batches) /\ saved' \in BOOLEAN
    BY <1>3, EmptyUpload DEF WebCrash
  <2>2. cancel' \in [Batches -> {"idle", "rows", "apply", "delete"}]
    BY <1>3 DEF WebCrash
  <2> QED BY <1>1, <1>3, <2>1, <2>2 DEF WebCrash, TypeOK, batchVars
<1> QED BY <1>2, <1>3

\* The stage handler keeps the types.
LEMMA StageTyped ==
  ASSUME TypeOK, NEW r \in Runs,
         \/ StageRead(r) \/ StageCheck(r) \/ StageWrite(r)
         \/ FailCheck(r) \/ FailWrite(r) \/ DeleteFile(r)
  PROVE  TypeOK'
<1>1. run \in [Runs -> Run] /\ run[r].batch \in Batches /\ run[r].try \in Nat
  BY DEF TypeOK, Run
<1>2. \A from : \A to \in Pcs : Goto(r, from, to) => run' \in [Runs -> Run]
  BY <1>1, GotoTyped
<1>3. {"check", "write", "failcheck", "failwrite", "delete", "ack", "throw"} \subseteq Pcs
  BY DEF Pcs
<1>4. CASE StageRead(r)
  BY <1>2, <1>3, <1>4 DEF StageRead, TypeOK, batchVars, webVars
<1>5. CASE StageCheck(r)
  BY <1>2, <1>3, <1>5 DEF StageCheck, TypeOK, batchVars, webVars
<1>6. CASE StageWrite(r)
  <2>1. run' \in [Runs -> Run]
    BY <1>2, <1>3, <1>6 DEF StageWrite
  <2>2. staged' \in [Batches -> SUBSET StagedRow]
    BY <1>1, <1>6, PlannedRows DEF StageWrite, TypeOK
  <2>3. status' \in [Batches -> Statuses]
    BY <1>6 DEF StageWrite, TypeOK, Statuses
  <2> QED BY <1>6, <2>1, <2>2, <2>3 DEF StageWrite, TypeOK, webVars
<1>7. CASE FailCheck(r)
  BY <1>2, <1>3, <1>7 DEF FailCheck, TypeOK, batchVars, webVars
<1>8. CASE FailWrite(r)
  <2>1. status' \in [Batches -> Statuses]
    BY <1>8 DEF FailWrite, TypeOK, Statuses
  <2> QED BY <1>2, <1>3, <1>8, <2>1 DEF FailWrite, TypeOK, webVars
<1>9. CASE DeleteFile(r)
  BY <1>2, <1>3, <1>9 DEF DeleteFile, TypeOK, webVars
<1> QED BY <1>4, <1>5, <1>6, <1>7, <1>8, <1>9

\* The commit handler keeps the types.
LEMMA CommitTyped ==
  ASSUME TypeOK, NEW r \in Runs,
         \/ CommitBegin(r) \/ CommitRows(r) \/ CommitApply(r)
         \/ CommitConflict(r) \/ CommitRefused(r)
  PROVE  TypeOK'
<1>1. /\ run \in [Runs -> Run] /\ run[r].batch \in Batches
      /\ run[r].seen \subseteq StagedRow
  BY DEF TypeOK, Run
<1>2. \A from : \A to \in Pcs : Goto(r, from, to) => run' \in [Runs -> Run]
  BY <1>1, GotoTyped
<1>3. {"rows", "apply", "delete", "throw"} \subseteq Pcs
  BY DEF Pcs
<1>4. CASE CommitBegin(r)
  BY <1>2, <1>3, <1>4 DEF CommitBegin, TypeOK, batchVars, webVars
<1>5. CASE CommitRows(r)
  <2>1. staged[run[r].batch] \in SUBSET StagedRow
    BY <1>1 DEF TypeOK
  <2>2. run' \in [Runs -> Run]
    BY <1>1, <1>3, <1>5, <2>1 DEF CommitRows, Run
  <2> QED BY <1>5, <2>2 DEF CommitRows, TypeOK, batchVars, webVars
<1>6. CASE CommitApply(r)
  <2>1. PICK rows \in SUBSET NewRows(r) :
          /\ ledger' = [ledger EXCEPT ![run[r].batch] = @ \cup {x.row : x \in rows}]
          /\ UNCHANGED spent \/ Mishap("refusal")
    BY <1>6 DEF CommitApply
  <2>2. {x.row : x \in rows} \subseteq Row
    BY <1>1 DEF NewRows, StagedRow
  <2>7. spent' \in [Mishaps -> Nat]
    BY <2>1 DEF Mishap, TypeOK, Mishaps
  <2>3. ledger' \in [Batches -> SUBSET Row]
    BY <1>1, <2>1, <2>2 DEF TypeOK
  <2>6. [run[r] EXCEPT !.pc = "delete", !.seen = {}] \in Run
    BY <1>1, <1>3 DEF Run
  <2>4. run' \in [Runs -> Run]
    BY <1>1, <1>6, <2>6 DEF CommitApply
  <2>5. status' \in [Batches -> Statuses]
    BY <1>6 DEF CommitApply, TypeOK, Statuses
  <2> QED BY <1>6, <2>3, <2>4, <2>5, <2>7 DEF CommitApply, TypeOK, webVars
<1>7. CASE CommitConflict(r)
  BY <1>2, <1>3, <1>7 DEF CommitConflict, TypeOK, batchVars, webVars
<1>8. CASE CommitRefused(r)
  <2>1. spent' \in [Mishaps -> Nat]
    BY <1>8 DEF CommitRefused, Mishap, TypeOK, Mishaps
  <2> QED BY <1>2, <1>3, <1>8, <2>1 DEF CommitRefused, TypeOK, batchVars, webVars
<1> QED BY <1>4, <1>5, <1>6, <1>7, <1>8

\* Cancelling and deleting a transaction keep the types.
LEMMA UserTyped ==
  ASSUME TypeOK, NEW b \in Batches,
         \/ CancelCheck(b) \/ CancelRows(b) \/ CancelApply(b) \/ CancelDelete(b)
         \/ \E x \in ledger[b] : DeleteTransaction(b, x)
  PROVE  TypeOK'
<1>1. CASE CancelCheck(b)
  BY <1>1 DEF CancelCheck, Mishap, TypeOK, Mishaps, batchVars
<1>5. CASE CancelRows(b)
  BY <1>5 DEF CancelRows, TypeOK, batchVars
<1>2. CASE CancelApply(b)
  BY <1>2 DEF CancelApply, TypeOK, Statuses
<1>3. CASE CancelDelete(b)
  BY <1>3 DEF CancelDelete, TypeOK
<1>4. ASSUME NEW x \in ledger[b], DeleteTransaction(b, x) PROVE TypeOK'
  <2>1. ledger' \in [Batches -> SUBSET Row]
    BY <1>4 DEF DeleteTransaction, TypeOK
  <2>2. spent' \in [Mishaps -> Nat]
    BY <1>4 DEF DeleteTransaction, Mishap, TypeOK, Mishaps
  <2> QED BY <1>4, <2>1, <2>2 DEF DeleteTransaction, TypeOK, webVars
<1> QED BY <1>1, <1>2, <1>3, <1>4, <1>5

\* The pipeline's state stays well typed, whatever crashes, expires or races
\* (every handler of worker/handlers/import.ts and action of import/actions.ts).
THEOREM TypeCorrect == Spec => []TypeOK
<1>1. Init => TypeOK
  <2>1. NoJob \in Job
    BY DEF NoJob, Job
  <2>2. Init => upload \in Seq(Batches) /\ saved \in BOOLEAN
    BY EmptyUpload DEF Init
  <2>3. Init => spent \in [Mishaps -> Nat] /\ status \in [Batches -> Statuses]
    BY DEF Init, Mishaps, Statuses
  <2> QED BY <2>1, <2>2, <2>3, IdleIsRun DEF Init, TypeOK
<1>2. TypeOK /\ [Next]_vars => TypeOK'
  <2> SUFFICES ASSUME TypeOK, [Next]_vars PROVE TypeOK'
    OBVIOUS
  <2>1. CASE Next
    BY <2>1, UploadTyped, DeliverTyped, EndTyped, QueueTyped, CrashTyped,
       StageTyped, CommitTyped, UserTyped, Zenon DEF Next, HandlerStep, Queues
  <2>2. CASE UNCHANGED vars
    BY <2>2 DEF vars, batchVars, webVars, TypeOK
  <2> QED BY <2>1, <2>2
<1> QED BY <1>1, <1>2, PTL DEF Spec

-----------------------------------------------------------------------------
(* No row is imported twice.  NoOverImport is not inductive: it needs that    *)
(* the rows staged, and those a commit holds in memory, are the file's.       *)

RowsInv ==
    /\ \A b \in Batches : \A x \in staged[b] : x.row \in RowsOf(b)
    /\ \A r \in Runs : \A x \in run[r].seen : x.row \in RowsOf(run[r].batch)
    /\ NoOverImport

\* An execution either forgets the rows it held or keeps them and its batch.
KeepsSeen ==
    \A r \in Runs :
        \/ run'[r].seen = {}
        \/ run'[r].seen = run[r].seen /\ run'[r].batch = run[r].batch

\* A step that leaves staged rows and ledger alone keeps RowsInv.
LEMMA QuietKeepsRows ==
  ASSUME RowsInv, UNCHANGED <<staged, ledger>>, KeepsSeen
  PROVE  RowsInv'
BY DEF RowsInv, NoOverImport, KeepsSeen

\* Moving the program counter keeps what an execution holds.
LEMMA GotoKeepsSeen ==
  ASSUME run \in [Runs -> Run], NEW r \in Runs, NEW from, NEW to, Goto(r, from, to)
  PROVE  KeepsSeen
BY DEF Goto, KeepsSeen, Run

\* Every step that is not a staging, a commit, a cancel or a deletion is quiet.
LEMMA QuietSteps ==
  ASSUME TypeOK,
         \/ \E files \in Uploads : UploadRows(files)
         \/ SaveFile \/ EnqueueStage \/ Crash \/ WebCrash
         \/ \E r \in Runs :
              \/ Ack(r) \/ Fail(r) \/ ExpireLive(r)
              \/ StageRead(r) \/ StageCheck(r) \/ FailCheck(r) \/ FailWrite(r)
              \/ DeleteFile(r) \/ CommitBegin(r) \/ CommitConflict(r) \/ CommitRefused(r)
              \/ \E q \in Queues, b \in Batches : Deliver(q, b, r)
         \/ \E b \in Batches :
              \/ PurgeCommitJob(b) \/ RequestCommit(b) \/ CancelCheck(b) \/ CancelRows(b) \/ CancelDelete(b)
              \/ \E q \in Queues : ExpireOrphan(q, b)
  PROVE  KeepsSeen /\ UNCHANGED <<staged, ledger>>
<1>1. run \in [Runs -> Run]
  BY DEF TypeOK
<1>2. (UNCHANGED run) => KeepsSeen
  BY DEF KeepsSeen
<1>4. ASSUME NEW r \in Runs, NEW from, NEW to, Goto(r, from, to) PROVE KeepsSeen
  BY <1>1, <1>4, GotoKeepsSeen
<1>5. CASE \/ \E files \in Uploads : UploadRows(files)
           \/ SaveFile \/ EnqueueStage \/ WebCrash
  BY <1>2, <1>5 DEF UploadRows, SaveFile, EnqueueStage, WebCrash, batchVars
<1>6. CASE Crash
  BY <1>6 DEF Crash, Idle, KeepsSeen, batchVars
<1>7. ASSUME NEW r \in Runs, Ack(r) \/ Fail(r)
      PROVE  KeepsSeen /\ UNCHANGED <<staged, ledger>>
  <2>1. run' = [run EXCEPT ![r] = Idle] /\ UNCHANGED batchVars
    BY <1>7 DEF Ack, Fail
  <2>2. \A x \in Runs : IF x = r THEN run'[x].seen = {} ELSE run'[x] = run[x]
    BY <1>1, <2>1 DEF Idle
  <2>3. KeepsSeen
    BY <2>2 DEF KeepsSeen
  <2> QED
    BY <2>1, <2>3 DEF batchVars
<1>8. ASSUME NEW r \in Runs, ExpireLive(r)
      PROVE  KeepsSeen /\ UNCHANGED <<staged, ledger>>
  BY <1>1, <1>8 DEF ExpireLive, KeepsSeen, Run, batchVars
<1>9. ASSUME NEW r \in Runs, StageRead(r) \/ StageCheck(r) \/ FailCheck(r)
      PROVE  KeepsSeen /\ UNCHANGED <<staged, ledger>>
  BY <1>4, <1>9 DEF StageRead, StageCheck, FailCheck, batchVars
<1>10. ASSUME NEW r \in Runs, FailWrite(r) \/ DeleteFile(r)
       PROVE  KeepsSeen /\ UNCHANGED <<staged, ledger>>
  BY <1>4, <1>10 DEF FailWrite, DeleteFile
<1>11. ASSUME NEW r \in Runs, CommitBegin(r) \/ CommitConflict(r) \/ CommitRefused(r)
       PROVE  KeepsSeen /\ UNCHANGED <<staged, ledger>>
  BY <1>4, <1>11 DEF CommitBegin, CommitConflict, CommitRefused, batchVars
<1>12. ASSUME NEW r \in Runs, NEW q \in Queues, NEW b \in Batches, Deliver(q, b, r)
       PROVE  KeepsSeen /\ UNCHANGED <<staged, ledger>>
  BY <1>1, <1>12 DEF Deliver, KeepsSeen, batchVars
<1>13. ASSUME NEW b \in Batches,
              \/ PurgeCommitJob(b) \/ RequestCommit(b) \/ CancelCheck(b) \/ CancelRows(b)
              \/ \E q \in Queues : ExpireOrphan(q, b)
       PROVE  KeepsSeen /\ UNCHANGED <<staged, ledger>>
  BY <1>2, <1>13 DEF PurgeCommitJob, RequestCommit, CancelCheck, CancelRows, ExpireOrphan, batchVars
<1>14. ASSUME NEW b \in Batches, CancelDelete(b)
       PROVE  KeepsSeen /\ UNCHANGED <<staged, ledger>>
  BY <1>2, <1>14 DEF CancelDelete
<1> QED BY <1>5, <1>6, <1>7, <1>8, <1>9, <1>10, <1>11, <1>12, <1>13, <1>14

\* A commit inserts rows of its own file that no other batch holds.
LEMMA CommitApplyKeepsRows ==
  ASSUME TypeOK, RowsInv, NEW r \in Runs, CommitApply(r)
  PROVE  RowsInv'
<1> DEFINE b == run[r].batch
<1>1. PICK rows \in SUBSET NewRows(r) :
        /\ Insertable(rows)
        /\ ledger' = [ledger EXCEPT ![b] = @ \cup {x.row : x \in rows}]
  BY DEF CommitApply
<1> DEFINE added == {x.row : x \in rows}
<1>2. b \in Batches /\ ledger \in [Batches -> SUBSET Row] /\ run \in [Runs -> Run]
  BY DEF TypeOK, Run
<1>3. added \subseteq RowsOf(b) /\ added \cap Stored = {}
  BY <1>1 DEF RowsInv, NewRows, Insertable
<1>4. /\ ledger'[b] = ledger[b] \cup added
      /\ \A c \in Batches : c # b => ledger'[c] = ledger[c]
  BY <1>1, <1>2
<1>5. \A c \in Batches : ledger[c] \cap added = {}
  BY <1>3 DEF Stored
<1>6. NoOverImport'
  BY <1>3, <1>4, <1>5 DEF RowsInv, NoOverImport, RowsOf
<1>7. KeepsSeen /\ UNCHANGED staged
  BY <1>2 DEF CommitApply, KeepsSeen, Run
<1> QED BY <1>6, <1>7 DEF RowsInv, KeepsSeen, RowsOf

\* Every reachable state keeps the discipline of rows.
LEMMA RowsDiscipline == Spec => []RowsInv
<1>1. Init => RowsInv
  BY DEF Init, RowsInv, NoOverImport, Idle
<1>2. TypeOK /\ RowsInv /\ [Next]_vars => RowsInv'
  <2> SUFFICES ASSUME TypeOK, RowsInv, [Next]_vars PROVE RowsInv'
    OBVIOUS
  <2>1. ASSUME NEW r \in Runs, StageWrite(r) PROVE RowsInv'
    <3>1. /\ run \in [Runs -> Run] /\ run[r].batch \in Batches /\ run[r].try \in Nat
          /\ staged \in [Batches -> SUBSET StagedRow]
      BY DEF TypeOK, Run
    <3>2. KeepsSeen /\ UNCHANGED ledger
      BY <2>1, <3>1, GotoKeepsSeen DEF StageWrite
    <3>3. \A b \in Batches : \A x \in staged'[b] : x.row \in RowsOf(b)
      BY <2>1, <3>1, PlannedRows DEF StageWrite, RowsInv
    <3> QED BY <3>2, <3>3 DEF RowsInv, NoOverImport, KeepsSeen
  <2>2. ASSUME NEW r \in Runs, CommitRows(r) PROVE RowsInv'
    <3>1. run \in [Runs -> Run] /\ run[r].batch \in Batches
      BY DEF TypeOK, Run
    <3> QED BY <2>2, <3>1 DEF CommitRows, RowsInv, NoOverImport, Run, batchVars
  <2>3. ASSUME NEW r \in Runs, CommitApply(r) PROVE RowsInv'
    BY <2>3, CommitApplyKeepsRows
  <2>4. ASSUME NEW b \in Batches, CancelApply(b) PROVE RowsInv'
    BY <2>4 DEF CancelApply, RowsInv, NoOverImport, TypeOK
  <2>5. ASSUME NEW b \in Batches, NEW x \in ledger[b], DeleteTransaction(b, x) PROVE RowsInv'
    <3>1. \A c \in Batches : ledger'[c] \subseteq ledger[c]
      BY <2>5 DEF DeleteTransaction, TypeOK
    <3> QED BY <2>5, <3>1 DEF DeleteTransaction, RowsInv, NoOverImport
  <2>6. CASE UNCHANGED vars
    BY <2>6 DEF vars, batchVars, RowsInv, NoOverImport
  <2>7. CASE Next
    BY <2>1, <2>2, <2>3, <2>4, <2>5, <2>7, QuietSteps, QuietKeepsRows, Zenon
       DEF Next, HandlerStep
  <2> QED BY <2>6, <2>7
<1> QED BY <1>1, <1>2, TypeCorrect, PTL DEF Spec

\* The rows a batch brought into the ledger are rows of its file, no two
\* batches hold the same occurrence of a row, and the rows still staged are
\* the file's: an extract is never counted twice (planOccurrences, commitBatch
\* and the unique constraint of transactions).
THEOREM NeverOverImported == Spec => []NoOverImport
<1>1. RowsInv => NoOverImport
  BY DEF RowsInv
<1> QED BY <1>1, RowsDiscipline, PTL

-----------------------------------------------------------------------------
(* A committed batch never applies anything more.  The action property needs  *)
(* the lock: an execution between its read of the status and the end of its   *)
(* transaction holds it, so the status it read is still not `committed`.      *)

CommitInv ==
    \A r \in Runs : InCommit(r) => lock = r /\ status[run[r].batch] # "committed"

\* A step that enters no commit, moves no lock and commits no batch keeps it.
LEMMA QuietKeepsCommit ==
  ASSUME CommitInv, UNCHANGED lock,
         \A r \in Runs : InCommit(r)' => InCommit(r) /\ run'[r].batch = run[r].batch,
         \A b \in Batches : status'[b] = "committed" => status[b] = "committed",
         run \in [Runs -> Run]
  PROVE  CommitInv'
<1> SUFFICES ASSUME NEW r \in Runs, InCommit(r)'
             PROVE  lock' = r /\ status'[run'[r].batch] # "committed"
  BY DEF CommitInv
<1>1. run[r].batch \in Batches
  BY DEF Run
<1> QED BY <1>1 DEF CommitInv

\* Steps of the web process and of pg-boss enter no commit.
LEMMA OutsideKeepsCommit ==
  ASSUME TypeOK, CommitInv,
         \/ \E files \in Uploads : UploadRows(files)
         \/ SaveFile \/ EnqueueStage \/ WebCrash
         \/ \E b \in Batches :
              \/ PurgeCommitJob(b) \/ RequestCommit(b)
              \/ CancelCheck(b) \/ CancelRows(b) \/ CancelApply(b) \/ CancelDelete(b)
              \/ \E q \in Queues : ExpireOrphan(q, b)
              \/ \E x \in ledger[b] : DeleteTransaction(b, x)
  PROVE  CommitInv'
<1>1. UNCHANGED <<run, lock>>
  BY DEF UploadRows, SaveFile, EnqueueStage, WebCrash, PurgeCommitJob, RequestCommit,
         CancelCheck, CancelRows, CancelApply, CancelDelete, ExpireOrphan, DeleteTransaction
<1>2. \A b \in Batches : status'[b] = "committed" => status[b] = "committed"
  BY DEF TypeOK, UploadRows, SaveFile, EnqueueStage, WebCrash, PurgeCommitJob, RequestCommit,
         CancelCheck, CancelRows, CancelApply, CancelDelete, ExpireOrphan, DeleteTransaction, batchVars
<1> QED BY <1>1, <1>2, QuietKeepsCommit DEF InCommit, TypeOK

\* Executions outside a commit transaction enter none.
LEMMA HandlerKeepsCommit ==
  ASSUME TypeOK, CommitInv, NEW r \in Runs,
         \/ Ack(r) \/ Fail(r) \/ ExpireLive(r)
         \/ StageRead(r) \/ StageCheck(r) \/ StageWrite(r)
         \/ FailCheck(r) \/ FailWrite(r) \/ DeleteFile(r)
         \/ \E q \in Queues, b \in Batches : Deliver(q, b, r)
  PROVE  CommitInv'
<1>1. run \in [Runs -> Run] /\ run[r].batch \in Batches
  BY DEF TypeOK, Run
<1>2. UNCHANGED lock
  BY DEF Ack, Fail, ExpireLive, StageRead, StageCheck, StageWrite,
         FailCheck, FailWrite, DeleteFile, Deliver
<1>3. \A b \in Batches : status'[b] = "committed" => status[b] = "committed"
  BY DEF TypeOK, Ack, Fail, ExpireLive, StageRead, StageCheck, StageWrite,
         FailCheck, FailWrite, DeleteFile, Deliver, batchVars
<1>4. \A s \in Runs : InCommit(s)' => InCommit(s) /\ run'[s].batch = run[s].batch
  <2>1. CASE Ack(r) \/ Fail(r) \/ ExpireLive(r)
    BY <1>1, <2>1 DEF Ack, Fail, ExpireLive, Idle, InCommit, Run
  <2>2. CASE StageRead(r) \/ StageCheck(r) \/ StageWrite(r)
    BY <1>1, <2>2 DEF StageRead, StageCheck, StageWrite, Goto, InCommit, Run
  <2>3. CASE FailCheck(r) \/ FailWrite(r) \/ DeleteFile(r)
    BY <1>1, <2>3 DEF FailCheck, FailWrite, DeleteFile, Goto, InCommit, Run
  <2>4. CASE \E q \in Queues, b \in Batches : Deliver(q, b, r)
    BY <1>1, <2>4 DEF Deliver, InCommit, Run
  <2> QED BY <2>1, <2>2, <2>3, <2>4
<1> QED BY <1>1, <1>2, <1>3, <1>4, QuietKeepsCommit

\* A commit transaction starts only when the lock is free and ends by
\* releasing it.
LEMMA CommitKeepsCommit ==
  ASSUME TypeOK, CommitInv, NEW r \in Runs,
         \/ CommitBegin(r) \/ CommitRows(r) \/ CommitApply(r)
         \/ CommitConflict(r) \/ CommitRefused(r)
  PROVE  CommitInv'
<1>1. run \in [Runs -> Run] /\ run[r].batch \in Batches
  BY DEF TypeOK, Run
<1>2. CASE CommitBegin(r)
  <2>1. \A s \in Runs : ~InCommit(s)
    BY <1>2, SetsAssumption DEF CommitBegin, CommitInv
  <2>2. UNCHANGED status /\ \A s \in Runs : s # r => run'[s] = run[s]
    BY <1>1, <1>2 DEF CommitBegin, Goto, batchVars
  <2>3. InCommit(r)' => lock' = r /\ status[run'[r].batch] # "committed"
    BY <1>1, <1>2 DEF CommitBegin, Goto, InCommit, Run
  <2> QED BY <2>1, <2>2, <2>3 DEF CommitInv, InCommit
<1>3. CASE CommitRows(r)
  BY <1>1, <1>3 DEF CommitRows, CommitInv, InCommit, Run, batchVars
<1>4. CASE CommitApply(r) \/ CommitConflict(r) \/ CommitRefused(r)
  <2>1. InCommit(r) /\ run'[r].pc \in {"delete", "throw"}
    BY <1>1, <1>4 DEF CommitApply, CommitConflict, CommitRefused, Goto, InCommit, Run
  <2>2. \A s \in Runs : s # r => run'[s] = run[s] /\ ~InCommit(s)
    BY <1>1, <1>4, <2>1 DEF CommitApply, CommitConflict, CommitRefused, Goto, CommitInv
  <2> QED BY <2>1, <2>2 DEF CommitInv, InCommit
<1> QED BY <1>2, <1>3, <1>4

\* Every reachable state keeps the commit discipline.
LEMMA CommitDiscipline == Spec => []CommitInv
<1>1. Init => CommitInv
  BY DEF Init, CommitInv, InCommit, Idle
<1>2. TypeOK /\ CommitInv /\ [Next]_vars => CommitInv'
  <2> SUFFICES ASSUME TypeOK, CommitInv, [Next]_vars PROVE CommitInv'
    OBVIOUS
  <2>1. CASE Crash
    BY <2>1 DEF Crash, Idle, CommitInv, InCommit
  <2>2. CASE UNCHANGED vars
    BY <2>2 DEF vars, batchVars, CommitInv, InCommit
  <2>3. CASE Next
    BY <2>1, <2>3, OutsideKeepsCommit, HandlerKeepsCommit, CommitKeepsCommit, Zenon
       DEF Next, HandlerStep
  <2> QED BY <2>2, <2>3
<1> QED BY <1>1, <1>2, TypeCorrect, PTL DEF Spec

\* Two commits of one tenant never run inside their transactions at once
\* (lockImportWrites).
THEOREM CommitsRunAlone == Spec => []CommitsExclusive
<1>1. CommitInv => CommitsExclusive
  BY DEF CommitInv, CommitsExclusive
<1> QED BY <1>1, CommitDiscipline, PTL

\* No retry, duplicate delivery or expired run applies rows to a batch that is
\* already committed, so what the user has deleted since stays deleted.
THEOREM CommittedBatchNeverGrows == Spec => CommittedNeverGrows
<1> DEFINE Grows == \A b \in Batches : status[b] = "committed" => ledger'[b] \subseteq ledger[b]
<1>1. TypeOK /\ CommitInv /\ [Next]_vars => Grows
  <2> SUFFICES ASSUME TypeOK, CommitInv, [Next]_vars, NEW b \in Batches,
                      status[b] = "committed"
               PROVE  ledger'[b] \subseteq ledger[b]
    OBVIOUS
  <2>1. CASE UNCHANGED ledger
    BY <2>1
  <2>2. ASSUME NEW r \in Runs, CommitApply(r) PROVE ledger'[b] \subseteq ledger[b]
    <3>1. run[r].batch # b
      BY <2>2 DEF CommitApply, CommitInv, InCommit
    <3> QED BY <2>2, <3>1 DEF CommitApply, TypeOK
  <2>3. ASSUME NEW c \in Batches, NEW x \in ledger[c], DeleteTransaction(c, x)
        PROVE  ledger'[b] \subseteq ledger[b]
    BY <2>3 DEF DeleteTransaction, TypeOK
  <2>4. CASE Next /\ ~UNCHANGED ledger
    <3>1. \/ \E r \in Runs : CommitApply(r)
          \/ \E c \in Batches : \E x \in ledger[c] : DeleteTransaction(c, x)
      BY <2>4 DEF Next, HandlerStep, UploadRows, SaveFile, EnqueueStage, StageRead,
           StageCheck, StageWrite, FailCheck, FailWrite, DeleteFile, CommitBegin,
           CommitRows, CommitConflict, CommitRefused, Ack, Fail, ExpireLive,
           ExpireOrphan, Deliver, Crash, WebCrash, PurgeCommitJob, RequestCommit,
           CancelCheck, CancelRows, CancelApply, CancelDelete, batchVars
    <3> QED BY <2>2, <2>3, <3>1
  <2> QED BY <2>1, <2>4 DEF vars, batchVars
<1>2. TypeOK /\ CommitInv /\ [Next]_vars => [Grows]_vars
  BY <1>1
<1> QED BY <1>2, TypeCorrect, CommitDiscipline, PTL DEF Spec, CommittedNeverGrows
-----------------------------------------------------------------------------
(* The pipeline keeps its promise: every step that touches ledger or settled  *)
(* batches is an import, a deletion or a reopening of ImportPromise.          *)

\* A commit is one atomic import of ImportPromise.
LEMMA CommitImports ==
  ASSUME TypeOK, CommitInv, RowsInv, NEW r \in Runs, CommitApply(r)
  PROVE  Promise!Import(run[r].batch)
<1> DEFINE b == run[r].batch
<1>1. PICK rows \in SUBSET NewRows(r) :
        /\ Insertable(rows)
        /\ ledger' = [ledger EXCEPT ![b] = @ \cup {x.row : x \in rows}]
  BY DEF CommitApply
<1> DEFINE added == {x.row : x \in rows}
<1>2. b \in Batches /\ b \notin Settled
  BY DEF TypeOK, Run, CommitApply, CommitInv, InCommit, Settled
<1>3. Settled' = Settled \cup {b}
  BY <1>2 DEF CommitApply, Settled, TypeOK
<1>4. added \subseteq Extract[b] \ UNION {ledger[c] : c \in Batches}
  BY <1>1, <1>2 DEF RowsInv, NewRows, Insertable, Stored, Extract
<1>5. \E new \in SUBSET (Extract[b] \ UNION {ledger[c] : c \in Batches}) :
        ledger' = [ledger EXCEPT ![b] = @ \cup new]
  BY <1>1, <1>4
<1> QED BY <1>2, <1>3, <1>5 DEF Promise!Import

\* A step that writes neither the ledger nor a status is a stutter.
LEMMA QuietStutters ==
  ASSUME UNCHANGED <<ledger, status>>
  PROVE  UNCHANGED <<ledger, Settled>>
BY DEF Settled

\* A step that settles nothing and leaves the ledger alone reopens at most the
\* one batch whose status it writes.
LEMMA StatusWriteReopens ==
  ASSUME TypeOK, NEW b \in Batches, NEW s \in Statuses \ {"committed"},
         status' = [status EXCEPT ![b] = s], UNCHANGED ledger
  PROVE  Promise!Reopen(b) \/ UNCHANGED <<ledger, Settled>>
<1>1. Settled' = Settled \ {b}
  BY DEF Settled, TypeOK
<1> QED BY <1>1 DEF Promise!Reopen

\* What the import promises the user, ImportBatches delivers: extracts enter
\* the ledger whole, once, and only in the step that settles them (commitBatch
\* under lockImportWrites and the unique constraint of transactions).
THEOREM ImportKeepsPromise == Spec => KeepsPromise
<1> DEFINE Stutter == UNCHANGED <<ledger, Settled>>
<1>1. Init => Promise!Init
  BY DEF Init, Promise!Init, Settled
<1>2. TypeOK /\ CommitInv /\ RowsInv /\ [Next]_vars => [Promise!Next]_<<ledger, Settled>>
  <2> SUFFICES ASSUME TypeOK, CommitInv, RowsInv, [Next]_vars
               PROVE  Promise!Next \/ Stutter
    OBVIOUS
  <2>1. ASSUME NEW r \in Runs, CommitApply(r) PROVE Promise!Next
    <3>1. run[r].batch \in Batches
      BY DEF TypeOK, Run
    <3> QED BY <2>1, <3>1, CommitImports DEF Promise!Next
  <2>2. ASSUME NEW b \in Batches, NEW x \in ledger[b], DeleteTransaction(b, x)
        PROVE  Promise!Next
    <3>1. UNCHANGED Settled
      BY <2>2 DEF DeleteTransaction, Settled
    <3>2. Promise!Delete(b, x)
      BY <2>2, <3>1 DEF DeleteTransaction, Promise!Delete
    <3> QED BY <3>2 DEF Promise!Next
  <2>3. ASSUME NEW r \in Runs, StageWrite(r) \/ FailWrite(r) PROVE Promise!Next \/ Stutter
    <3>1. run[r].batch \in Batches /\ {"previewed", "failed"} \subseteq Statuses \ {"committed"}
      BY DEF TypeOK, Run, Statuses
    <3>2. Promise!Reopen(run[r].batch) \/ Stutter
      BY <2>3, <3>1, StatusWriteReopens DEF StageWrite, FailWrite
    <3> QED BY <3>1, <3>2 DEF Promise!Next
  <2>4. ASSUME NEW b \in Batches, CancelApply(b) PROVE Promise!Next \/ Stutter
    <3>1. "discarded" \in Statuses \ {"committed"}
      BY DEF Statuses
    <3>2. status' = [status EXCEPT ![b] = "discarded"] /\ UNCHANGED ledger
      BY <2>4 DEF CancelApply
    <3>3. Promise!Reopen(b) \/ Stutter
      BY <3>1, <3>2, StatusWriteReopens
    <3> QED BY <3>3 DEF Promise!Next
  <2>5. ASSUME NEW files \in Uploads, UploadRows(files) PROVE Stutter
    BY <2>5 DEF UploadRows, Settled, TypeOK
  <2>6. CASE UNCHANGED vars
    BY <2>6, QuietStutters DEF vars, batchVars
  <2>7. CASE Next
    BY <2>1, <2>2, <2>3, <2>4, <2>5, <2>7, QuietStutters
       DEF Next, HandlerStep, SaveFile, EnqueueStage, StageRead, StageCheck,
           FailCheck, DeleteFile, CommitBegin, CommitRows, CommitConflict,
           CommitRefused, Ack, Fail, ExpireLive, ExpireOrphan, Deliver, Crash,
           WebCrash, PurgeCommitJob, RequestCommit, CancelCheck, CancelRows, CancelDelete, batchVars
  <2> QED BY <2>6, <2>7
<1> QED BY <1>1, <1>2, TypeCorrect, CommitDiscipline, RowsDiscipline, PTL
        DEF Spec, KeepsPromise, Promise!Spec

-----------------------------------------------------------------------------
(* Who is at work.  While no job has expired under its handler, each job is   *)
(* run by at most one execution, also when batches are cancelled.             *)

Timely == Without({"expiry"})

\* Each job is run by at most one execution, and only while it is active.
AloneInv ==
    /\ \A b \in Batches, q \in Queues : status[b] = "absent" => job[q][b].state = "none"
    /\ \A r \in Runs : run[r].pc # "idle" =>
            run[r].live /\ job[run[r].queue][run[r].batch].state = "active"
    /\ \A r, s \in Runs :
            /\ run[r].pc # "idle" /\ run[s].pc # "idle"
            /\ run[r].queue = run[s].queue /\ run[r].batch = run[s].batch
            => r = s

\* The files still to be uploaded are distinct, and have no job yet.
FreshInv ==
    /\ \A i, j \in DOMAIN upload : upload[i] = upload[j] => i = j
    /\ \A i \in DOMAIN upload :
            status[upload[i]] # "absent" /\ job["stage"][upload[i]].state = "none"

\* Mishaps are only counted up.
LEMMA SpentGrows ==
  ASSUME TypeOK, [Next]_vars
  PROVE  \A m \in Mishaps : spent'[m] >= spent[m]
<1>1. \A m \in Mishaps : spent[m] \in Nat
  BY DEF TypeOK
<1>2. UNCHANGED spent \/ \E m \in Mishaps : Mishap(m)
  BY DEF Next, HandlerStep, UploadRows, SaveFile, EnqueueStage, StageRead,
         StageCheck, StageWrite, FailCheck, FailWrite, DeleteFile, CommitBegin,
         CommitRows, CommitApply, CommitConflict, CommitRefused, Ack, Fail, ExpireLive,
         ExpireOrphan, Deliver, Crash, WebCrash, PurgeCommitJob, RequestCommit,
         CancelCheck, CancelRows, CancelApply, CancelDelete, DeleteTransaction, vars, Mishaps
<1>3. \A m, n \in Mishaps : Mishap(m) => spent'[n] >= spent[n]
  BY <1>1 DEF Mishap, TypeOK
<1> QED BY <1>1, <1>2, <1>3

\* Once a job has expired under its handler, it has.
LEMMA TimelyBefore ==
  ASSUME TypeOK, [Next]_vars, Timely'
  PROVE  Timely
<1>1. "expiry" \in Mishaps /\ spent["expiry"] \in Nat
  BY DEF TypeOK, Mishaps
<1> QED BY <1>1, SpentGrows DEF Timely, Without

\* A batch some execution works on is not absent.
LEMMA WorkedOnPresent ==
  ASSUME TypeOK, AloneInv, NEW r \in Runs, run[r].pc # "idle"
  PROVE  status[run[r].batch] # "absent"
BY DEF AloneInv, TypeOK, Run

\* An execution that moves on from one of its own steps to another leaves the
\* jobs, and who runs them, as they were.
LEMMA MoveKeepsAlone ==
  ASSUME TypeOK, AloneInv, NEW r \in Runs, UNCHANGED job,
         run[r].pc # "idle", run'[r].live = run[r].live,
         run'[r].queue = run[r].queue, run'[r].batch = run[r].batch,
         \A s \in Runs : s # r => run'[s] = run[s],
         \A b \in Batches : status'[b] = "absent" => status[b] = "absent"
  PROVE  AloneInv'
<1>1. \A s \in Runs : run'[s].pc # "idle" =>
        /\ run[s].pc # "idle" /\ run'[s].live = run[s].live
        /\ run'[s].queue = run[s].queue /\ run'[s].batch = run[s].batch
  OBVIOUS
<1> QED BY <1>1 DEF AloneInv

\* pg-boss hands out a job once, and again only when nobody runs it.
LEMMA QueueKeepsAlone ==
  ASSUME TypeOK, AloneInv,
         \/ \E q \in Queues, b \in Batches :
              ExpireOrphan(q, b) \/ \E r \in Runs : Deliver(q, b, r)
         \/ \E r \in Runs : Ack(r) \/ Fail(r)
         \/ \E b \in Batches : RequestCommit(b) \/ PurgeCommitJob(b)
         \/ Crash
  PROVE  AloneInv'
<1>0. /\ run \in [Runs -> Run] /\ job \in [Queues -> [Batches -> Job]]
      /\ Idle.pc = "idle"
      /\ \A r \in Runs : run[r].queue \in Queues /\ run[r].batch \in Batches
  BY DEF TypeOK, Idle, Run
<1>1. ASSUME NEW q \in Queues, NEW b \in Batches, ExpireOrphan(q, b) PROVE AloneInv'
  <2>1. job[q][b].state = "active" /\ job'[q][b].state \in {"queued", "dead"}
    BY <1>0, <1>1 DEF ExpireOrphan, AfterFailure
  <2>2. \A p \in Queues, c \in Batches : p # q \/ c # b => job'[p][c] = job[p][c]
    BY <1>0, <1>1 DEF ExpireOrphan
  <2>3. \A r \in Runs : run[r].pc # "idle" => run[r].queue # q \/ run[r].batch # b
    BY <1>1 DEF ExpireOrphan, AloneInv
  <2>4. UNCHANGED <<status, run>>
    BY <1>1 DEF ExpireOrphan, batchVars
  <2>5. \A c \in Batches, p \in Queues : status'[c] = "absent" => job'[p][c].state = "none"
    BY <2>1, <2>2, <2>4 DEF AloneInv
  <2>6. \A r \in Runs : run[r].pc # "idle" =>
          job'[run[r].queue][run[r].batch] = job[run[r].queue][run[r].batch]
    BY <1>0, <2>2, <2>3
  <2> QED BY <2>4, <2>5, <2>6 DEF AloneInv
<1>2. ASSUME NEW q \in Queues, NEW b \in Batches, NEW r \in Runs, Deliver(q, b, r)
      PROVE  AloneInv'
  <2>1. /\ job[q][b].state = "queued" /\ job'[q][b].state = "active"
        /\ \A p \in Queues, c \in Batches : p # q \/ c # b => job'[p][c] = job[p][c]
    BY <1>0, <1>2 DEF Deliver, Job
  <2>2. /\ \A s \in Runs : s # r => run'[s] = run[s]
        /\ run'[r].queue = q /\ run'[r].batch = b /\ run'[r].live = TRUE
    BY <1>0, <1>2 DEF Deliver
  <2>3. \A s \in Runs : run[s].pc # "idle" => run[s].queue # q \/ run[s].batch # b
    BY <2>1 DEF AloneInv
  <2>4. \A c \in Batches, p \in Queues : status'[c] = "absent" => job'[p][c].state = "none"
    BY <1>2, <2>1 DEF AloneInv, Deliver, batchVars
  <2>5. \A s \in Runs : run'[s].pc # "idle" =>
           run'[s].live /\ job'[run'[s].queue][run'[s].batch].state = "active"
    BY <1>0, <2>1, <2>2, <2>3 DEF AloneInv
  <2>6. \A s, t \in Runs :
          /\ run'[s].pc # "idle" /\ run'[t].pc # "idle"
          /\ run'[s].queue = run'[t].queue /\ run'[s].batch = run'[t].batch
          => s = t
    BY <2>2, <2>3 DEF AloneInv
  <2> QED BY <2>4, <2>5, <2>6 DEF AloneInv
<1>3. ASSUME NEW r \in Runs, Ack(r) \/ Fail(r) PROVE AloneInv'
  <2> DEFINE q == run[r].queue
             b == run[r].batch
  <2>1. q \in Queues /\ b \in Batches /\ run[r].pc # "idle" /\ run[r].live
    BY <1>0, <1>3 DEF Ack, Fail, AloneInv
  <2>2. \A p \in Queues, c \in Batches : p # q \/ c # b => job'[p][c] = job[p][c]
    BY <1>0, <1>3, <2>1 DEF Ack, Fail
  <2>3. job[q][b].state = "active" /\ status[b] # "absent"
    BY <2>1 DEF AloneInv
  <2>4. run'[r] = Idle /\ \A s \in Runs : s # r => run'[s] = run[s]
    BY <1>0, <1>3 DEF Ack, Fail
  <2>5. \A c \in Batches, p \in Queues : status'[c] = "absent" => job'[p][c].state = "none"
    BY <1>3, <2>2, <2>3 DEF AloneInv, Ack, Fail, batchVars
  <2>6. \A s \in Runs : run[s].pc # "idle" /\ s # r => run[s].queue # q \/ run[s].batch # b
    BY <2>1 DEF AloneInv
  <2>7. \A s \in Runs : run'[s].pc # "idle" => s # r /\ run'[s] = run[s]
    BY <1>0, <2>4
  <2>8. \A s \in Runs : run'[s].pc # "idle" =>
           run'[s].live /\ job'[run'[s].queue][run'[s].batch].state = "active"
    BY <1>0, <2>2, <2>6, <2>7 DEF AloneInv
  <2>9. \A s, t \in Runs :
          /\ run'[s].pc # "idle" /\ run'[t].pc # "idle"
          /\ run'[s].queue = run'[t].queue /\ run'[s].batch = run'[t].batch
          => s = t
    BY <2>7 DEF AloneInv
  <2> QED BY <2>5, <2>8, <2>9 DEF AloneInv
<1>4. ASSUME NEW b \in Batches, RequestCommit(b) \/ PurgeCommitJob(b) PROVE AloneInv'
  <2>1. /\ job'["stage"] = job["stage"]
        /\ \A c \in Batches : c # b => job'["commit"][c] = job["commit"][c]
        /\ job["commit"][b].state # "active"
        /\ UNCHANGED <<status, run>>
    BY <1>0, <1>4 DEF RequestCommit, PurgeCommitJob, Queues, batchVars
  <2>2. status[b] = "absent" => job'["commit"][b].state = "none"
    BY <1>0, <1>4 DEF RequestCommit, PurgeCommitJob, AloneInv, Queues, NoJob
  <2>3. \A r \in Runs : run[r].pc # "idle" =>
          job'[run[r].queue][run[r].batch] = job[run[r].queue][run[r].batch]
    BY <1>0, <2>1 DEF AloneInv, Queues
  <2> QED BY <2>1, <2>2, <2>3 DEF AloneInv, Queues
<1>5. CASE Crash
  BY <1>0, <1>5 DEF Crash, AloneInv, batchVars
<1> QED BY <1>1, <1>2, <1>3, <1>4, <1>5

\* What a handler's step leaves alone, and how far it moves on.
HandlerMoves(r) ==
    /\ UNCHANGED <<job, upload, saved, cancel>>
    /\ run[r].pc # "idle" /\ run'[r].live = run[r].live
    /\ run'[r].queue = run[r].queue /\ run'[r].batch = run[r].batch
    /\ \A s \in Runs : s # r => run'[s] = run[s]
    /\ \A c \in Batches : c # run[r].batch => status'[c] = status[c]
    /\ \/ status'[run[r].batch] = status[run[r].batch]
       \/ status'[run[r].batch] \in {"previewed", "failed", "committed"}

\* Every handler step is such a move.
LEMMA HandlersMove ==
  ASSUME TypeOK, NEW r \in Runs,
         \/ StageRead(r) \/ StageCheck(r) \/ StageWrite(r)
         \/ FailCheck(r) \/ FailWrite(r) \/ DeleteFile(r)
         \/ CommitBegin(r) \/ CommitRows(r) \/ CommitApply(r)
         \/ CommitConflict(r) \/ CommitRefused(r)
  PROVE  HandlerMoves(r)
<1> DEFINE b == run[r].batch
<1>0. run \in [Runs -> Run] /\ b \in Batches /\ status \in [Batches -> Statuses]
  BY DEF TypeOK, Run
<1>1. UNCHANGED <<job, upload, saved, cancel>>
  BY DEF StageRead, StageCheck, StageWrite, FailCheck, FailWrite, DeleteFile, CommitBegin,
         CommitRows, CommitApply, CommitConflict, CommitRefused, webVars
<1>2. /\ run[r].pc # "idle" /\ run'[r].live = run[r].live
      /\ run'[r].queue = run[r].queue /\ run'[r].batch = run[r].batch
      /\ \A s \in Runs : s # r => run'[s] = run[s]
  <2>1. CASE CommitRows(r) \/ CommitApply(r)
    BY <1>0, <2>1 DEF CommitRows, CommitApply, Run
  <2>2. CASE \/ StageRead(r) \/ StageCheck(r) \/ StageWrite(r)
             \/ FailCheck(r) \/ FailWrite(r) \/ DeleteFile(r)
             \/ CommitBegin(r) \/ CommitConflict(r) \/ CommitRefused(r)
    <3>1. \E from \in Pcs \ {"idle"} : \E to : Goto(r, from, to)
      BY <2>2 DEF StageRead, StageCheck, StageWrite, FailCheck, FailWrite, DeleteFile,
           CommitBegin, CommitConflict, CommitRefused, Pcs
    <3> QED BY <1>0, <3>1 DEF Goto, Run
  <2> QED BY <2>1, <2>2
<1>3. \A c \in Batches : c # b => status'[c] = status[c]
  BY <1>0 DEF StageRead, StageCheck, StageWrite, FailCheck, FailWrite, DeleteFile, CommitBegin,
         CommitRows, CommitApply, CommitConflict, CommitRefused, batchVars
<1>4. status'[b] = status[b] \/ status'[b] \in {"previewed", "failed", "committed"}
  BY <1>0 DEF StageRead, StageCheck, StageWrite, FailCheck, FailWrite, DeleteFile, CommitBegin,
         CommitRows, CommitApply, CommitConflict, CommitRefused, batchVars
<1> QED BY <1>1, <1>2, <1>3, <1>4 DEF HandlerMoves

\* A handler's step leaves the jobs, and who runs them, as they were.
LEMMA HandlersKeepAlone ==
  ASSUME TypeOK, AloneInv, FreshInv, NEW r \in Runs, HandlerMoves(r)
  PROVE  AloneInv' /\ FreshInv'
<1>1. \A c \in Batches : status'[c] = "absent" => status[c] = "absent"
  BY DEF HandlerMoves
<1>2. \A i \in DOMAIN upload : upload[i] \in Batches
  BY DEF TypeOK
<1> QED BY <1>1, <1>2, MoveKeepsAlone DEF HandlerMoves, FreshInv

\* The upload action gives each of its batches one job.
LEMMA UploadKeepsAlone ==
  ASSUME TypeOK, AloneInv, FreshInv,
         \/ \E files \in Uploads : UploadRows(files)
         \/ SaveFile \/ EnqueueStage \/ WebCrash
  PROVE  AloneInv' /\ FreshInv'
<1>1. ASSUME NEW files \in Uploads, UploadRows(files) PROVE AloneInv' /\ FreshInv'
  <2>1. files \in Seq(Batches) /\ \A i, j \in DOMAIN files : files[i] = files[j] => i = j
    BY SetsAssumption
  <2>2. \A i \in DOMAIN files : files[i] \in Batches /\ status[files[i]] = "absent"
    BY <1>1, <2>1 DEF UploadRows
  <2>3. FreshInv'
    BY <1>1, <2>1, <2>2 DEF UploadRows, FreshInv, AloneInv, Queues
  <2>4. \A b \in Batches : status'[b] = status[b] \/ (status[b] = "absent" /\ status'[b] = "pending")
    BY <1>1, <2>2 DEF UploadRows
  <2> QED BY <1>1, <2>3, <2>4 DEF UploadRows, AloneInv
<1>2. CASE SaveFile
  BY <1>2 DEF SaveFile, FreshInv, AloneInv
<1>3. CASE EnqueueStage
  <2>1. /\ Head(upload) = upload[1] /\ upload \in Seq(Batches)
        /\ 1 \in DOMAIN upload /\ Head(upload) \in Batches
    BY <1>3 DEF EnqueueStage, TypeOK
  <2>2. /\ \A b \in Batches : b # Head(upload) => job'["stage"][b] = job["stage"][b]
        /\ job'["commit"] = job["commit"]
    BY <1>3, <2>1 DEF EnqueueStage, TypeOK, Queues
  <2>3. \A i \in DOMAIN Tail(upload) :
          /\ i + 1 \in DOMAIN upload /\ i + 1 # 1 /\ Tail(upload)[i] = upload[i + 1]
          /\ upload[i + 1] \in Batches
    BY <2>1
  <2>4. \A i \in DOMAIN Tail(upload) :
          Tail(upload)[i] # Head(upload) /\ Tail(upload)[i] \in Batches
    BY <2>1, <2>3 DEF FreshInv
  <2>5. \A i, j \in DOMAIN Tail(upload) : Tail(upload)[i] = Tail(upload)[j] => i = j
    BY <2>1, <2>3 DEF FreshInv
  <2>6. \A i \in DOMAIN Tail(upload) :
          status[Tail(upload)[i]] # "absent" /\ job["stage"][Tail(upload)[i]].state = "none"
    BY <2>3 DEF FreshInv
  <2>7. UNCHANGED <<run, status>> /\ upload' = Tail(upload)
    BY <1>3 DEF EnqueueStage, batchVars
  <2>8. FreshInv'
    BY <2>2, <2>4, <2>5, <2>6, <2>7 DEF FreshInv
  <2>9. status[Head(upload)] # "absent" /\ job["stage"][Head(upload)].state = "none"
    BY <2>1 DEF FreshInv
  <2>10. \A r \in Runs : run[r].queue \in Queues /\ run[r].batch \in Batches
    BY DEF TypeOK, Run
  <2>11. \A r \in Runs : run[r].pc # "idle" =>
           job'[run[r].queue][run[r].batch] = job[run[r].queue][run[r].batch]
    BY <2>2, <2>9, <2>10 DEF AloneInv, Queues
  <2>12. \A b \in Batches, q \in Queues : status[b] = "absent" => job'[q][b].state = "none"
    BY <2>2, <2>9 DEF AloneInv, Queues
  <2> QED BY <2>7, <2>8, <2>11, <2>12 DEF AloneInv
<1>4. CASE WebCrash
  BY <1>4, EmptyUpload DEF WebCrash, FreshInv, AloneInv, batchVars
<1> QED BY <1>1, <1>2, <1>3, <1>4

\* Neither do cancelling and deleting touch a job.
LEMMA UserKeepsAlone ==
  ASSUME TypeOK, AloneInv, FreshInv, NEW b \in Batches,
         \/ CancelCheck(b) \/ CancelRows(b) \/ CancelApply(b) \/ CancelDelete(b)
         \/ \E x \in ledger[b] : DeleteTransaction(b, x)
  PROVE  AloneInv' /\ FreshInv'
<1>1. UNCHANGED <<job, run, upload>>
  BY DEF CancelCheck, CancelRows, CancelApply, CancelDelete, DeleteTransaction, webVars
<1>2. \A c \in Batches : status'[c] = status[c] \/ (c = b /\ status'[c] = "discarded")
  BY DEF CancelCheck, CancelRows, CancelApply, CancelDelete, DeleteTransaction, batchVars, TypeOK
<1>3. \A i \in DOMAIN upload : upload[i] \in Batches
  BY DEF TypeOK
<1> QED BY <1>1, <1>2, <1>3 DEF AloneInv, FreshInv

\* pg-boss leaves alone the files no job was sent for yet.
LEMMA QueueKeepsFresh ==
  ASSUME TypeOK, AloneInv, FreshInv,
         \/ \E q \in Queues, b \in Batches :
              ExpireOrphan(q, b) \/ \E r \in Runs : Deliver(q, b, r)
         \/ \E r \in Runs : Ack(r) \/ Fail(r)
         \/ \E b \in Batches : RequestCommit(b) \/ PurgeCommitJob(b)
         \/ Crash
  PROVE  FreshInv'
<1>0. /\ job \in [Queues -> [Batches -> Job]]
      /\ \A r \in Runs : run[r].queue \in Queues /\ run[r].batch \in Batches
      /\ \A i \in DOMAIN upload : upload[i] \in Batches
  BY DEF TypeOK, Run
<1>1. UNCHANGED <<status, upload>>
  BY DEF ExpireOrphan, Deliver, Ack, Fail, RequestCommit, PurgeCommitJob, Crash, batchVars, webVars
<1>2. \A b \in Batches : job["stage"][b].state = "none" => job'["stage"][b] = job["stage"][b]
  <2> SUFFICES ASSUME NEW b \in Batches, job["stage"][b].state = "none"
               PROVE  job'["stage"][b] = job["stage"][b]
    OBVIOUS
  <2>1. CASE \E r \in Runs : Ack(r) \/ Fail(r)
    <3>1. PICK r \in Runs : Ack(r) \/ Fail(r)
      BY <2>1
    <3>2. job[run[r].queue][run[r].batch].state = "active"
      BY <3>1 DEF Ack, Fail, AloneInv
    <3> QED BY <1>0, <3>1, <3>2 DEF Ack, Fail, Queues
  <2>2. CASE \E q \in Queues, c \in Batches :
               ExpireOrphan(q, c) \/ \E r \in Runs : Deliver(q, c, r)
    BY <1>0, <2>2 DEF ExpireOrphan, Deliver, Queues
  <2>3. CASE (\E c \in Batches : RequestCommit(c) \/ PurgeCommitJob(c)) \/ Crash
    BY <1>0, <2>3 DEF RequestCommit, PurgeCommitJob, Crash, Queues
  <2> QED BY <2>1, <2>2, <2>3
<1> QED BY <1>0, <1>1, <1>2 DEF FreshInv

\* While no job has expired under its handler, one execution runs it.
LEMMA OneAtATime == Spec => [](Timely => AloneInv /\ FreshInv)
<1> DEFINE Inv == Timely => AloneInv /\ FreshInv
<1>1. Init => Inv
  BY DEF Init, AloneInv, FreshInv, Idle, NoJob
<1>2. TypeOK /\ Inv /\ [Next]_vars => Inv'
  <2> SUFFICES ASSUME TypeOK, [Next]_vars, Timely', AloneInv, FreshInv
               PROVE  AloneInv' /\ FreshInv'
    BY TimelyBefore
  <2>1. CASE UNCHANGED vars
    BY <2>1 DEF vars, batchVars, webVars, AloneInv, FreshInv
  <2>2. \A r \in Runs : ~ExpireLive(r)
    BY DEF ExpireLive, Mishap, Timely, Without, TypeOK, Mishaps
  <2>3. CASE Next
    BY <2>2, <2>3, UploadKeepsAlone, UserKeepsAlone, QueueKeepsAlone, QueueKeepsFresh,
       HandlersMove, HandlersKeepAlone, Zenon DEF Next, HandlerStep
  <2> QED BY <2>1, <2>3
<1> QED BY <1>1, <1>2, TypeCorrect, PTL DEF Spec

-----------------------------------------------------------------------------
(* An extract is staged once.  A batch still pending has no staged row, and a *)
(* staging that has read so keeps it so: no other execution stages its batch, *)
(* and a cancellation only takes rows away.                                   *)

StagedInv ==
    /\ \A b \in Batches : status[b] \in {"absent", "pending"} => staged[b] = {}
    /\ \A r \in Runs :
         /\ run[r].pc \in {"read", "check", "write"} => run[r].queue = "stage"
         /\ run[r].pc = "write" => staged[run[r].batch] = {}
    /\ \A b \in Batches : \A x, y \in staged[b] : x.try = y.try

\* A step that stages nothing, takes no batch back to pending and brings no
\* execution nearer to staging keeps it.
StagesNothing ==
    \A b \in Batches :
        /\ staged'[b] \subseteq staged[b]
        /\ status'[b] \in {"absent", "pending"} => status[b] \in {"absent", "pending"}

NoNearer(r) ==
    \/ run'[r].pc \notin {"read", "check", "write"}
    \/ run'[r].pc = "read" /\ run'[r].queue = "stage"
    \/ /\ run'[r].pc = run[r].pc \/ (run'[r].pc = "check" /\ run[r].pc = "read")
       /\ run'[r].queue = run[r].queue /\ run'[r].batch = run[r].batch

LEMMA QuietKeepsStaged ==
  ASSUME TypeOK, StagedInv, StagesNothing, \A r \in Runs : NoNearer(r)
  PROVE  StagedInv'
<1>1. \A r \in Runs : run[r].batch \in Batches
  BY DEF TypeOK, Run
<1>2. \A b \in Batches : staged[b] = {} => staged'[b] = {}
  BY DEF StagesNothing
<1>3. \A r \in Runs : run'[r].pc \in {"read", "check", "write"} => run'[r].queue = "stage"
  BY DEF StagedInv, NoNearer
<1>4. \A r \in Runs : run'[r].pc = "write" => staged'[run'[r].batch] = {}
  BY <1>1, <1>2 DEF StagedInv, NoNearer
<1> QED BY <1>2, <1>3, <1>4 DEF StagedInv, StagesNothing

\* Every step but the last two of a staging is such a step.
LEMMA OthersKeepStaged ==
  ASSUME TypeOK, StagedInv,
         \/ \E files \in Uploads : UploadRows(files)
         \/ SaveFile \/ EnqueueStage \/ Crash \/ WebCrash
         \/ \E r \in Runs :
              \/ Ack(r) \/ Fail(r) \/ ExpireLive(r)
              \/ StageRead(r) \/ FailCheck(r) \/ FailWrite(r) \/ DeleteFile(r)
              \/ CommitBegin(r) \/ CommitRows(r) \/ CommitApply(r)
              \/ CommitConflict(r) \/ CommitRefused(r)
              \/ \E q \in Queues, b \in Batches : Deliver(q, b, r)
         \/ \E b \in Batches :
              \/ PurgeCommitJob(b) \/ RequestCommit(b)
              \/ CancelCheck(b) \/ CancelRows(b) \/ CancelApply(b) \/ CancelDelete(b)
              \/ \E q \in Queues : ExpireOrphan(q, b)
              \/ \E x \in ledger[b] : DeleteTransaction(b, x)
  PROVE  StagedInv'
<1>0. /\ run \in [Runs -> Run] /\ \A r \in Runs : run[r].batch \in Batches
      /\ status \in [Batches -> Statuses] /\ staged \in [Batches -> SUBSET StagedRow]
  BY DEF TypeOK, Run
<1>1. ASSUME \/ \E files \in Uploads : UploadRows(files)
             \/ SaveFile \/ EnqueueStage \/ WebCrash
             \/ \E b \in Batches :
                  \/ PurgeCommitJob(b) \/ RequestCommit(b)
                  \/ CancelCheck(b) \/ CancelRows(b) \/ CancelApply(b) \/ CancelDelete(b)
                  \/ \E q \in Queues : ExpireOrphan(q, b)
                  \/ \E x \in ledger[b] : DeleteTransaction(b, x)
      PROVE  StagedInv'
  <2>1. UNCHANGED run
    BY <1>1 DEF UploadRows, SaveFile, EnqueueStage, WebCrash, PurgeCommitJob, RequestCommit,
         CancelCheck, CancelRows, CancelApply, CancelDelete, ExpireOrphan, DeleteTransaction
  <2>2. ASSUME NEW b \in Batches PROVE staged'[b] \subseteq staged[b]
    BY <1>0, <1>1 DEF UploadRows, SaveFile, EnqueueStage, WebCrash, PurgeCommitJob, RequestCommit,
         CancelCheck, CancelRows, CancelApply, CancelDelete, ExpireOrphan, DeleteTransaction, batchVars
  <2>3. ASSUME NEW b \in Batches, status'[b] \in {"absent", "pending"}
        PROVE  status[b] \in {"absent", "pending"}
    BY <1>0, <1>1, <2>3, SetsAssumption
       DEF UploadRows, SaveFile, EnqueueStage, WebCrash, PurgeCommitJob, RequestCommit,
         CancelCheck, CancelRows, CancelApply, CancelDelete, ExpireOrphan, DeleteTransaction, batchVars
  <2>4. StagesNothing /\ \A r \in Runs : NoNearer(r)
    BY <2>1, <2>2, <2>3 DEF StagesNothing, NoNearer
  <2> QED BY <2>4, QuietKeepsStaged
<1>2. ASSUME Crash \/ \E r \in Runs :
              \/ Ack(r) \/ Fail(r) \/ ExpireLive(r)
              \/ \E q \in Queues, b \in Batches : Deliver(q, b, r)
      PROVE  StagedInv'
  <2>1. UNCHANGED <<staged, status>>
    BY <1>2 DEF Crash, Ack, Fail, ExpireLive, Deliver, batchVars
  <2>2. ASSUME NEW r \in Runs PROVE NoNearer(r)
    <3>1. CASE Crash
      BY <1>0, <3>1 DEF Crash, Idle, NoNearer
    <3>2. ASSUME NEW s \in Runs, \/ Ack(s) \/ Fail(s) \/ ExpireLive(s)
                                 \/ \E q \in Queues, b \in Batches : Deliver(q, b, s)
          PROVE  NoNearer(r)
      <4>1. CASE r = s /\ (Ack(s) \/ Fail(s))
        BY <1>0, <4>1 DEF Ack, Fail, Idle, NoNearer
      <4>2. CASE r = s /\ ExpireLive(s)
        BY <1>0, <4>2 DEF ExpireLive, NoNearer, Run
      <4>3. CASE r = s /\ \E q \in Queues, b \in Batches : Deliver(q, b, s)
        BY <1>0, <4>3 DEF Deliver, NoNearer
      <4>4. CASE r # s
        <5>1. run'[r] = run[r]
          BY <1>0, <3>2, <4>4 DEF Ack, Fail, ExpireLive, Deliver
        <5> QED BY <5>1 DEF NoNearer
      <4> QED BY <3>2, <4>1, <4>2, <4>3, <4>4
    <3> QED BY <1>2, <3>1, <3>2
  <2>3. StagesNothing
    BY <2>1 DEF StagesNothing
  <2> QED BY <2>2, <2>3, QuietKeepsStaged
<1>3. ASSUME NEW r \in Runs,
             \/ StageRead(r) \/ FailCheck(r) \/ FailWrite(r) \/ DeleteFile(r)
             \/ CommitBegin(r) \/ CommitRows(r) \/ CommitApply(r)
             \/ CommitConflict(r) \/ CommitRefused(r)
      PROVE  StagedInv'
  <2>1. HandlerMoves(r)
    BY <1>3, HandlersMove
  <2>2. UNCHANGED staged
    BY <1>3 DEF StageRead, FailCheck, FailWrite, DeleteFile, CommitBegin, CommitRows,
         CommitApply, CommitConflict, CommitRefused, batchVars
  <2>3. \A b \in Batches : status'[b] \in {"absent", "pending"} => status[b] \in {"absent", "pending"}
    BY <2>1 DEF HandlerMoves
  <2>4. (run'[r].pc = "check" /\ run[r].pc = "read") \/ run'[r].pc \notin {"read", "check", "write"}
    BY <1>0, <1>3 DEF StageRead, FailCheck, FailWrite, DeleteFile, CommitBegin, CommitRows,
         CommitApply, CommitConflict, CommitRefused, Goto, Run
  <2>5. StagesNothing
    BY <2>2, <2>3 DEF StagesNothing
  <2>6. ASSUME NEW s \in Runs PROVE NoNearer(s)
    BY <2>1, <2>4 DEF HandlerMoves, NoNearer
  <2> QED BY <2>5, <2>6, QuietKeepsStaged
<1> QED BY <1>1, <1>2, <1>3

\* The two steps by which a staging checks its batch and writes its rows.
LEMMA StagingKeepsStaged ==
  ASSUME TypeOK, AloneInv, StagedInv, NEW r \in Runs, StageCheck(r) \/ StageWrite(r)
  PROVE  StagedInv'
<1> DEFINE b == run[r].batch
<1>0. /\ run \in [Runs -> Run] /\ b \in Batches /\ run[r].try \in Nat
      /\ \A s \in Runs : run[s].batch \in Batches
      /\ status \in [Batches -> Statuses] /\ staged \in [Batches -> SUBSET StagedRow]
  BY DEF TypeOK, Run
<1>1. /\ run'[r].batch = b /\ run'[r].queue = run[r].queue
      /\ \A s \in Runs : s # r => run'[s] = run[s]
  BY <1>0 DEF StageCheck, StageWrite, Goto, Run
<1>2. CASE StageCheck(r)
  <2>1. UNCHANGED <<staged, status>> /\ run[r].pc = "check"
    BY <1>2 DEF StageCheck, Goto, batchVars
  <2>2. /\ run'[r].pc \in {"write", "throw"}
        /\ run'[r].pc = "write" => status[b] = "pending"
    BY <1>0, <1>2 DEF StageCheck, Goto, Run
  <2>3. run[r].queue = "stage" /\ (run'[r].pc = "write" => staged[b] = {})
    BY <1>0, <2>1, <2>2 DEF StagedInv
  <2> QED BY <1>1, <2>1, <2>2, <2>3 DEF StagedInv
<1>3. CASE StageWrite(r)
  <2>1. /\ run[r].pc = "write" /\ run'[r].pc = "ack"
        /\ status'[b] = "previewed"
        /\ \A c \in Batches : c # b => status'[c] = status[c] /\ staged'[c] = staged[c]
        /\ staged'[b] = staged[b] \cup PlanOccurrences(b, run[r].try)
    BY <1>0, <1>3 DEF StageWrite, Goto
  <2>2. staged[b] = {}
    BY <2>1 DEF StagedInv
  <2>3. \A x \in staged'[b] : x.try = run[r].try
    BY <2>1, <2>2 DEF PlanOccurrences
  <2>4. \A s \in Runs : s # r /\ run[s].pc = "write" => run[s].batch # b
    BY <2>1 DEF StagedInv, AloneInv
  <2> QED BY <1>0, <1>1, <2>1, <2>3, <2>4 DEF StagedInv
<1> QED BY <1>2, <1>3

\* Unless a job expires under its handler, an extract is staged once: neither
\* crashes nor retries nor a cancellation that overlaps the staging leave a
\* batch with the rows of two deliveries (stageBatch).
THEOREM RowsStagedOnce == Spec => []StagedOnce
<1> DEFINE Alone == Timely => AloneInv /\ FreshInv
           Inv == Timely => StagedInv
<1>1. Init => Inv
  BY DEF Init, StagedInv, Idle
<1>2. TypeOK /\ Alone /\ Inv /\ [Next]_vars => Inv'
  <2> SUFFICES ASSUME TypeOK, [Next]_vars, Timely', AloneInv, StagedInv
               PROVE  StagedInv'
    BY TimelyBefore
  <2>1. CASE UNCHANGED vars
    BY <2>1 DEF vars, batchVars, StagedInv
  <2>2. CASE Next
    BY <2>2, OthersKeepStaged, StagingKeepsStaged, Zenon DEF Next, HandlerStep
  <2> QED BY <2>1, <2>2
<1>3. Inv => StagedOnce
  BY DEF StagedInv, StagedOnce, Timely
<1> QED BY <1>1, <1>2, <1>3, TypeCorrect, OneAtATime, PTL DEF Spec

-----------------------------------------------------------------------------
(* Files and terminal statuses.  Both need to know, while no batch has been   *)
(* cancelled and no job has expired under its handler, who may be at work on  *)
(* a batch: at most one execution of each queue, and at a step that its       *)
(* batch's status allows.                                                     *)

Calm == Without({"cancel", "expiry"})

\* The upload under way: its files are distinct, their batches are pending and
\* have no job yet, and the first is on disk once it has been saved.
UploadInv ==
    /\ saved => upload # <<>> /\ Head(upload) \in file
    /\ \A i, j \in DOMAIN upload : upload[i] = upload[j] => i = j
    /\ \A i \in DOMAIN upload :
            status[upload[i]] = "pending" /\ job["stage"][upload[i]].state = "none"

StagePcs  == {"read", "check", "write", "failcheck", "failwrite"}
CommitPcs == {"begin", "rows", "apply"}

\* What an execution has read of its batch's status still holds.
StepInv ==
    \A r \in Runs :
        /\ run[r].pc \in StagePcs => run[r].queue = "stage"
        /\ run[r].pc \in CommitPcs => run[r].queue = "commit"
        /\ run[r].pc \in {"write", "failwrite"} => status[run[r].batch] = "pending"
        /\ run[r].pc \in {"rows", "apply"} => status[run[r].batch] = "previewed"
        /\ run[r].pc = "delete" => status[run[r].batch] \in {"committed", "failed"}

LifeInv ==
    Calm => /\ \A b \in Batches : cancel[b] = "idle"
            /\ UploadInv /\ StepInv
            /\ FileKept

\* Calm, once over, does not come back.
LEMMA CalmWasCalm ==
  ASSUME TypeOK, [Next]_vars, Calm'
  PROVE  Calm
<1>1. \A m \in {"cancel", "expiry"} : m \in Mishaps /\ spent[m] \in Nat
  BY DEF TypeOK, Mishaps
<1> QED BY <1>1, SpentGrows DEF Calm, Without

\* The upload action keeps the lifecycle.
LEMMA UploadKeepsLife ==
  ASSUME TypeOK, AloneInv, LifeInv, Calm, Calm',
         \/ \E files \in Uploads : UploadRows(files)
         \/ SaveFile \/ EnqueueStage \/ WebCrash
  PROVE  LifeInv'
<1> USE DEF Queues
<1>1. ASSUME NEW files \in Uploads, UploadRows(files) PROVE LifeInv'
  <2>1. files \in Seq(Batches) /\ \A i, j \in DOMAIN files : files[i] = files[j] => i = j
    BY SetsAssumption
  <2>2. \A i \in DOMAIN files : files[i] \in Batches /\ status[files[i]] = "absent"
    BY <1>1, <2>1 DEF UploadRows
  <2>3. UploadInv'
    BY <1>1, <2>1, <2>2 DEF UploadRows, UploadInv, LifeInv, AloneInv
  <2>4. \A b \in Batches : status'[b] = status[b] \/ (status[b] = "absent" /\ status'[b] = "pending")
    BY <1>1, <2>2 DEF UploadRows
  <2>6. \A r \in Runs : run[r].pc # "idle" => status'[run[r].batch] = status[run[r].batch]
    BY <2>4, WorkedOnPresent DEF LifeInv, TypeOK, Run
  <2>7. StepInv'
    BY <1>1, <2>6 DEF UploadRows, LifeInv, StepInv, StagePcs, CommitPcs
  <2>8. FileKept'
    BY <1>1, <2>4 DEF UploadRows, LifeInv, AloneInv, FileKept, Calm
  <2> QED BY <1>1, <2>3, <2>7, <2>8 DEF UploadRows, LifeInv
<1>2. CASE SaveFile
  BY <1>2 DEF SaveFile, LifeInv, UploadInv, StepInv, StagePcs, CommitPcs, FileKept, Calm
<1>3. CASE EnqueueStage
  <2>1. /\ upload # <<>> /\ Head(upload) \in file /\ Head(upload) = upload[1]
        /\ upload \in Seq(Batches) /\ 1 \in DOMAIN upload /\ Head(upload) \in Batches
    BY <1>3 DEF EnqueueStage, LifeInv, UploadInv, TypeOK
  <2>2. /\ \A b \in Batches : b # Head(upload) => job'["stage"][b] = job["stage"][b]
        /\ job'["stage"][Head(upload)].state = "queued"
        /\ job'["commit"] = job["commit"]
    BY <1>3, <2>1 DEF EnqueueStage, TypeOK
  <2>3. \A i \in DOMAIN Tail(upload) : i + 1 \in DOMAIN upload /\ Tail(upload)[i] = upload[i + 1] /\ i # 0
    BY <2>1
  <2>4. UploadInv'
    <3>1. \A i \in DOMAIN Tail(upload) : Tail(upload)[i] # Head(upload)
      BY <2>1, <2>3 DEF LifeInv, UploadInv
    <3>2. \A i \in DOMAIN Tail(upload) :
            status[Tail(upload)[i]] = "pending" /\ job'["stage"][Tail(upload)[i]].state = "none"
      BY <2>1, <2>2, <2>3, <3>1 DEF LifeInv, UploadInv
    <3>3. \A i, j \in DOMAIN Tail(upload) : Tail(upload)[i] = Tail(upload)[j] => i = j
      BY <2>1, <2>3 DEF LifeInv, UploadInv
    <3> QED BY <1>3, <3>2, <3>3 DEF EnqueueStage, UploadInv, batchVars
  <2>6. FileKept'
    BY <1>3, <2>1, <2>2 DEF EnqueueStage, LifeInv, FileKept, batchVars, Calm
  <2> QED BY <1>3, <2>4, <2>6
          DEF EnqueueStage, LifeInv, StepInv, StagePcs, CommitPcs, batchVars
<1>4. CASE WebCrash
  BY <1>4, EmptyUpload
     DEF WebCrash, LifeInv, UploadInv, StepInv, StagePcs, CommitPcs, FileKept, Calm, batchVars
<1> QED BY <1>1, <1>2, <1>3, <1>4

\* The user's other steps keep the lifecycle: the cancel action's do not come
\* about in a calm state.
LEMMA UserKeepsLife ==
  ASSUME TypeOK, AloneInv, LifeInv, Calm, Calm', NEW b \in Batches,
         \/ RequestCommit(b) \/ PurgeCommitJob(b)
         \/ CancelCheck(b) \/ CancelRows(b) \/ CancelApply(b) \/ CancelDelete(b)
         \/ \E x \in ledger[b] : DeleteTransaction(b, x)
  PROVE  LifeInv'
<1>1. CASE RequestCommit(b) \/ PurgeCommitJob(b)
  <2>1. /\ job'["stage"] = job["stage"]
        /\ \A c \in Batches : c # b => job'["commit"][c] = job["commit"][c]
        /\ job["commit"][b].state # "active"
        /\ UNCHANGED <<status, file, run, upload, saved, cancel>>
    BY <1>1 DEF RequestCommit, PurgeCommitJob, TypeOK, Queues, batchVars, webVars
  <2>5. UploadInv' /\ StepInv'
    BY <2>1 DEF LifeInv, UploadInv, StepInv, StagePcs, CommitPcs
  <2> QED BY <2>1, <2>5 DEF LifeInv, FileKept, Calm
<1>2. ASSUME NEW x \in ledger[b], DeleteTransaction(b, x) PROVE LifeInv'
  BY <1>2 DEF DeleteTransaction, LifeInv, UploadInv, StepInv, StagePcs, CommitPcs,
       FileKept, Calm, webVars
<1>3. ~CancelCheck(b)
  BY DEF CancelCheck, Mishap, Calm, Without, TypeOK, Mishaps
<1>4. ~CancelRows(b) /\ ~CancelApply(b) /\ ~CancelDelete(b)
  BY DEF CancelRows, CancelApply, CancelDelete, LifeInv
<1> QED BY <1>1, <1>2, <1>3, <1>4

\* pg-boss's steps keep the lifecycle: a job is handed out once, and is
\* handed out again only when nobody runs it.
LEMMA QueueKeepsLife ==
  ASSUME TypeOK, AloneInv, LifeInv, Calm, Calm',
         \/ \E q \in Queues, b \in Batches :
              ExpireOrphan(q, b) \/ \E r \in Runs : Deliver(q, b, r)
         \/ \E r \in Runs : Ack(r) \/ Fail(r) \/ ExpireLive(r)
         \/ Crash
  PROVE  LifeInv'
<1>0. /\ run \in [Runs -> Run] /\ job \in [Queues -> [Batches -> Job]]
      /\ Idle.pc = "idle"
  BY DEF TypeOK, Idle
<1>1. ASSUME NEW q \in Queues, NEW b \in Batches, ExpireOrphan(q, b) PROVE LifeInv'
  <2>1. job[q][b].state = "active" /\ job'[q][b].state \in {"queued", "dead"}
    BY <1>0, <1>1 DEF ExpireOrphan, AfterFailure
  <2>2. \A p \in Queues, c \in Batches : p # q \/ c # b => job'[p][c] = job[p][c]
    BY <1>0, <1>1 DEF ExpireOrphan
  <2>3. \A r \in Runs : run[r].pc # "idle" => run[r].queue # q \/ run[r].batch # b
    BY <1>1 DEF ExpireOrphan, LifeInv, AloneInv
  <2>4. UNCHANGED <<status, file, run, upload, saved, cancel>>
    BY <1>1 DEF ExpireOrphan, batchVars, webVars
  <2>6. UploadInv' /\ StepInv' /\ FileKept'
    BY <2>1, <2>2, <2>4
       DEF LifeInv, UploadInv, StepInv, StagePcs, CommitPcs, FileKept, Calm, Queues, TypeOK
  <2> QED BY <2>4, <2>6 DEF LifeInv
<1>2. ASSUME NEW q \in Queues, NEW b \in Batches, NEW r \in Runs, Deliver(q, b, r)
      PROVE  LifeInv'
  <2>1. /\ job[q][b].state = "queued" /\ job'[q][b].state = "active"
        /\ \A p \in Queues, c \in Batches : p # q \/ c # b => job'[p][c] = job[p][c]
    BY <1>0, <1>2 DEF Deliver, Job
  <2>2. /\ \A s \in Runs : s # r => run'[s] = run[s]
        /\ run'[r].queue = q /\ run'[r].batch = b /\ run'[r].live = TRUE
        /\ run'[r].pc \in {"read", "begin"}
        /\ run'[r].pc = "read" <=> q = "stage"
    BY <1>0, <1>2 DEF Deliver
  <2>3. \A s \in Runs : run[s].pc # "idle" => run[s].queue # q \/ run[s].batch # b
    BY <2>1 DEF LifeInv, AloneInv
  <2>4. UNCHANGED <<status, file, upload, saved, cancel>>
    BY <1>2 DEF Deliver, batchVars, webVars
  <2>6. StepInv'
    BY <2>2, <2>4 DEF LifeInv, StepInv, StagePcs, CommitPcs, Queues
  <2>7. UploadInv' /\ FileKept'
    BY <2>1, <2>4 DEF LifeInv, UploadInv, FileKept, Calm, Queues, TypeOK
  <2> QED BY <2>4, <2>6, <2>7 DEF LifeInv
<1>3. ASSUME NEW r \in Runs, Ack(r) \/ Fail(r) PROVE LifeInv'
  <2> DEFINE q == run[r].queue
             b == run[r].batch
  <2>1. q \in Queues /\ b \in Batches /\ run[r].pc # "idle" /\ run[r].live
    BY <1>0, <1>3 DEF Ack, Fail, Run, LifeInv, AloneInv
  <2>2. /\ job[q][b].state = "active" /\ job'[q][b].state # "none"
        /\ \A p \in Queues, c \in Batches : p # q \/ c # b => job'[p][c] = job[p][c]
    <3>1. job[q][b].state = "active" /\ job[q][b] \in Job
      BY <1>0, <2>1 DEF LifeInv, AloneInv
    <3>2. CASE Ack(r)
      BY <1>0, <2>1, <3>1, <3>2 DEF Ack, Job
    <3>3. CASE Fail(r)
      <4>1. AfterFailure(job[q][b]).state # "none"
        BY DEF AfterFailure
      <4> QED BY <1>0, <2>1, <3>1, <3>3, <4>1 DEF Fail
    <3> QED BY <1>3, <3>2, <3>3
  <2>3. /\ run'[r] = Idle
        /\ \A s \in Runs : s # r => run'[s] = run[s]
    BY <1>0, <1>3 DEF Ack, Fail
  <2>4. UNCHANGED <<status, file, upload, saved, cancel>>
    BY <1>3 DEF Ack, Fail, batchVars, webVars
  <2>6. StepInv'
    BY <1>0, <2>3, <2>4 DEF LifeInv, StepInv, StagePcs, CommitPcs
  <2>7. UploadInv'
    BY <2>1, <2>2, <2>4 DEF LifeInv, UploadInv, AloneInv, TypeOK, Queues
  <2>8. FileKept'
    BY <2>1, <2>2, <2>4 DEF LifeInv, FileKept, Calm, Queues
  <2> QED BY <2>4, <2>6, <2>7, <2>8 DEF LifeInv
<1>4. ASSUME NEW r \in Runs PROVE ~ExpireLive(r)
  BY DEF ExpireLive, Mishap, Calm, Without, TypeOK, Mishaps
<1>5. CASE Crash
  <2>1. UNCHANGED <<status, file, upload, saved, cancel, job>> /\ \A r \in Runs : run'[r] = Idle
    BY <1>5 DEF Crash, batchVars, webVars
  <2> QED BY <1>0, <2>1 DEF LifeInv, UploadInv, StepInv, StagePcs, CommitPcs, FileKept, Calm
<1> QED BY <1>1, <1>2, <1>3, <1>4, <1>5

\* While an execution is about to write its batch's status, no other is at a
\* step that relies on it.
LEMMA WriterAlone ==
  ASSUME TypeOK, AloneInv, StepInv, NEW r \in Runs, NEW s \in Runs, r # s,
         run[r].pc \in {"write", "failwrite", "apply"},
         run[s].pc \in {"write", "failwrite", "rows", "apply", "delete"}
  PROVE  run[s].batch # run[r].batch
<1> SUFFICES ASSUME run[s].batch = run[r].batch PROVE FALSE
  OBVIOUS
<1>1. \/ run[r].queue = "stage" /\ status[run[r].batch] = "pending"
      \/ run[r].queue = "commit" /\ status[run[r].batch] = "previewed"
  BY DEF StepInv, StagePcs, CommitPcs
<1>2. run[s].pc # "delete"
  BY <1>1 DEF StepInv
<1>3. \/ run[s].queue = "stage" /\ status[run[s].batch] = "pending"
      \/ run[s].queue = "commit" /\ status[run[s].batch] = "previewed"
  BY <1>2 DEF StepInv, StagePcs, CommitPcs
<1>4. run[r].queue = run[s].queue
  BY <1>1, <1>3
<1> QED BY <1>4 DEF AloneInv

\* A handler's step keeps the lifecycle.
LEMMA HandlersKeepLife ==
  ASSUME TypeOK, AloneInv, LifeInv, Calm, Calm', NEW r \in Runs,
         \/ StageRead(r) \/ StageCheck(r) \/ StageWrite(r)
         \/ FailCheck(r) \/ FailWrite(r) \/ DeleteFile(r)
         \/ CommitBegin(r) \/ CommitRows(r) \/ CommitApply(r)
         \/ CommitConflict(r) \/ CommitRefused(r)
  PROVE  LifeInv'
<1> DEFINE b == run[r].batch
<1>0. /\ run \in [Runs -> Run] /\ b \in Batches /\ status \in [Batches -> Statuses]
      /\ AloneInv /\ StepInv /\ UploadInv /\ FileKept /\ \A c \in Batches : cancel[c] = "idle"
  BY DEF TypeOK, Run, LifeInv
<1>1. UNCHANGED <<job, upload, saved, cancel>>
  BY HandlersMove DEF HandlerMoves
<1>2. /\ run[r].pc # "idle" /\ run'[r].live = run[r].live
      /\ run'[r].queue = run[r].queue /\ run'[r].batch = run[r].batch
      /\ \A s \in Runs : s # r => run'[s] = run[s]
  BY HandlersMove DEF HandlerMoves
<1>3. \A c \in Batches : c # b => status'[c] = status[c]
  BY HandlersMove DEF HandlerMoves
<1>4. status'[b] = status[b] \/ status'[b] \in {"previewed", "failed", "committed"}
  BY HandlersMove DEF HandlerMoves
<1>6. run[r].pc \in StagePcs \cup CommitPcs \cup {"delete"}
      /\ (run[r].pc \in {"write", "failwrite", "apply"} \/ UNCHANGED status)
  BY DEF StageRead, StageCheck, StageWrite, FailCheck, FailWrite, DeleteFile, CommitBegin,
         CommitRows, CommitApply, CommitConflict, CommitRefused, Goto, batchVars,
         StagePcs, CommitPcs
<1>7. file' = file \/ (run[r].pc = "delete" /\ file' = file \ {b} /\ UNCHANGED status)
  BY DEF StageRead, StageCheck, StageWrite, FailCheck, FailWrite, DeleteFile, CommitBegin,
         CommitRows, CommitApply, CommitConflict, CommitRefused, Goto, batchVars
<1>8. UploadInv'
  <2>1. \A i \in DOMAIN upload : upload[i] \in Batches
    BY DEF TypeOK
  <2>2. \A i \in DOMAIN upload : status'[upload[i]] = "pending"
    <3>1. ASSUME NEW i \in DOMAIN upload, upload[i] = b
          PROVE  run[r].pc \notin {"write", "failwrite", "apply"}
      <4>1. status[b] = "pending" /\ job["stage"][b].state = "none"
        BY <1>0, <3>1 DEF UploadInv
      <4> QED BY <1>0, <1>2, <4>1 DEF AloneInv, StepInv, StagePcs
    <3> QED BY <1>0, <1>3, <1>6, <2>1, <3>1 DEF UploadInv
  <2>3. ASSUME saved PROVE Head(upload) \in file'
    <3>1. upload # <<>> /\ Head(upload) = upload[1] /\ 1 \in DOMAIN upload /\ Head(upload) \in file
      BY <1>0, <2>3 DEF UploadInv, TypeOK
    <3>2. CASE file' = file \ {b} /\ run[r].pc = "delete"
      <4>1. status[b] \in {"committed", "failed"} /\ status[Head(upload)] = "pending"
        BY <1>0, <3>1, <3>2 DEF StepInv, UploadInv
      <4> QED BY <3>1, <3>2, <4>1
    <3> QED BY <1>7, <3>1, <3>2
  <2> QED BY <1>0, <1>1, <2>2, <2>3 DEF UploadInv
<1>9. StepInv'
  <2>1. run'[r].pc \in StagePcs \cup CommitPcs \cup {"delete"} =>
          /\ run'[r].pc \in StagePcs => run[r].queue = "stage"
          /\ run'[r].pc \in CommitPcs => run[r].queue = "commit"
          /\ run'[r].pc \in {"write", "failwrite"} => status'[b] = "pending"
          /\ run'[r].pc \in {"rows", "apply"} => status'[b] = "previewed"
          /\ run'[r].pc = "delete" => status'[b] \in {"committed", "failed"}
    <3>1. CASE CommitRows(r) \/ CommitApply(r)
      BY <1>0, <3>1 DEF CommitRows, CommitApply, Run, StepInv, StagePcs, CommitPcs, batchVars
    <3>2. CASE StageRead(r) \/ StageCheck(r) \/ StageWrite(r) \/ FailCheck(r) \/ FailWrite(r)
      BY <1>0, <3>2 DEF StageRead, StageCheck, StageWrite, FailCheck, FailWrite, Goto, Run,
           StepInv, StagePcs, CommitPcs, batchVars
    <3>3. CASE DeleteFile(r) \/ CommitBegin(r) \/ CommitConflict(r) \/ CommitRefused(r)
      BY <1>0, <3>3 DEF DeleteFile, CommitBegin, CommitConflict, CommitRefused, Goto, Run,
           StepInv, StagePcs, CommitPcs, batchVars
    <3> QED BY <3>1, <3>2, <3>3
  <2>2. ASSUME NEW s \in Runs, s # r,
               run[s].pc \in {"write", "failwrite", "rows", "apply", "delete"}
        PROVE  status'[run[s].batch] = status[run[s].batch]
    <3>1. run[s].batch \in Batches
      BY <1>0 DEF Run
    <3> QED BY <1>0, <1>3, <1>6, <2>2, <3>1, WriterAlone
  <2> QED BY <1>0, <1>2, <2>1, <2>2 DEF StepInv, StagePcs, CommitPcs
<1>10. FileKept'
  <2>1. ASSUME NEW c \in Batches, status'[c] \in {"pending", "previewed"},
               job["stage"][c].state # "none"
        PROVE  c \in file'
    <3>1. status[c] \in {"pending", "previewed"}
      <4>1. CASE c = b /\ status'[b] = "previewed"
        BY <1>0, <4>1 DEF StageRead, StageCheck, StageWrite, FailCheck, FailWrite, DeleteFile,
             CommitBegin, CommitRows, CommitApply, CommitConflict, CommitRefused, Goto,
             StepInv, batchVars
      <4> QED BY <1>3, <1>4, <2>1, <4>1
    <3>2. c \in file
      BY <1>0, <2>1, <3>1 DEF FileKept, Calm
    <3>3. run[r].pc = "delete" => status[b] \in {"committed", "failed"}
      BY <1>0 DEF StepInv
    <3> QED BY <1>7, <3>1, <3>2, <3>3
  <2> QED BY <1>1, <2>1 DEF FileKept
<1> QED BY <1>0, <1>1, <1>8, <1>9, <1>10 DEF LifeInv

\* Every reachable state keeps the lifecycle.
LEMMA Lifecycle == Spec => []LifeInv
<1> DEFINE Alone == Timely => AloneInv /\ FreshInv
<1>1. Init => LifeInv
  <2> SUFFICES ASSUME Init PROVE LifeInv
    OBVIOUS
  <2>1. UploadInv
    BY DEF Init, UploadInv
  <2>2. StepInv
    BY DEF Init, StepInv, StagePcs, CommitPcs, Idle
  <2> QED BY <2>1, <2>2 DEF Init, LifeInv, FileKept
<1>2. TypeOK /\ Alone /\ LifeInv /\ [Next]_vars => LifeInv'
  <2> SUFFICES ASSUME TypeOK, Alone, LifeInv, [Next]_vars PROVE LifeInv'
    OBVIOUS
  <2> SUFFICES ASSUME Calm, Calm' PROVE LifeInv'
    BY CalmWasCalm DEF LifeInv
  <2>3. AloneInv
    BY DEF Calm, Timely, Without
  <2>1. CASE UNCHANGED vars
    BY <2>1 DEF vars, batchVars, webVars, LifeInv, UploadInv, StepInv,
         StagePcs, CommitPcs, FileKept, Calm
  <2>2. CASE Next
    BY <2>2, <2>3, UploadKeepsLife, UserKeepsLife, QueueKeepsLife, HandlersKeepLife, Zenon
       DEF Next, HandlerStep
  <2> QED BY <2>1, <2>2
<1> QED BY <1>1, <1>2, TypeCorrect, OneAtATime, PTL DEF Spec

\* Unless a batch is cancelled or a job expires under its handler, the file of
\* every batch whose staging was asked for outlives each crash and retry until
\* the batch is finished (handleImportStage, handleImportCommit).
THEOREM FileKeptWhileNeeded == Spec => []FileKept
<1>1. LifeInv => FileKept
  BY DEF LifeInv, FileKept, Calm
<1> QED BY <1>1, Lifecycle, PTL

\* Unless a batch is cancelled or a job expires under its handler, no crash,
\* retry or redelivery moves a batch out of `committed` or `failed` (stageBatch,
\* failBatch, commitBatch).
THEOREM TerminalStays == Spec => TerminalStable
<1> DEFINE Stays ==
      Without({"cancel", "expiry"})' =>
        \A b \in Batches : status[b] \in {"committed", "failed"} => status'[b] = status[b]
<1>1. TypeOK /\ LifeInv /\ [Next]_vars => Stays
  <2> SUFFICES ASSUME TypeOK, LifeInv, [Next]_vars, Calm', NEW b \in Batches,
                      status[b] \in {"committed", "failed"}
               PROVE  status'[b] = status[b]
    BY DEF Calm
  <2>1. StepInv /\ \A c \in Batches : cancel[c] = "idle"
    BY CalmWasCalm DEF LifeInv
  <2>2. ASSUME NEW r \in Runs, StageWrite(r) \/ FailWrite(r) \/ CommitApply(r)
        PROVE  status'[b] = status[b]
    <3>1. run[r].batch # b
      BY <2>1, <2>2 DEF StageWrite, FailWrite, CommitApply, Goto, StepInv
    <3> QED BY <2>2, <3>1 DEF StageWrite, FailWrite, CommitApply, TypeOK
  <2>3. ASSUME NEW files \in Uploads, UploadRows(files) PROVE status'[b] = status[b]
    BY <2>3 DEF UploadRows
  <2>4. CASE UNCHANGED status
    BY <2>4
  <2>5. \A c \in Batches : ~CancelApply(c)
    BY <2>1 DEF CancelApply
  <2>6. CASE Next
    BY <2>2, <2>3, <2>4, <2>5, <2>6
       DEF Next, HandlerStep, SaveFile, EnqueueStage, StageRead, StageCheck,
           FailCheck, DeleteFile, CommitBegin, CommitRows, CommitConflict,
           CommitRefused, Ack, Fail, ExpireLive, ExpireOrphan, Deliver, Crash,
           WebCrash, PurgeCommitJob, RequestCommit, CancelCheck, CancelRows, CancelDelete,
           DeleteTransaction, batchVars
  <2> QED BY <2>4, <2>6 DEF vars, batchVars
<1>2. TypeOK /\ LifeInv /\ [Next]_vars => [Stays]_vars
  BY <1>1
<1> QED BY <1>2, TypeCorrect, Lifecycle, PTL DEF Spec, TerminalStable

-----------------------------------------------------------------------------
(* Counting what is stored *)

\* The rows of a ledger over the forms of a key, and the new rows of a key among
\* import rows.
Over(L, k) == {x \in L : x[1] \in Forms[k]}
NewOf(S, k) == {x \in Row : x[1] = k /\ \E y \in S : y.new /\ y.row = x}

\* The rows of a file are finitely many, and so is what is stored of them.
LEMMA FileFinite ==
  ASSUME NEW b \in Batches
  PROVE  IsFiniteSet(RowsOf(b))
<1> DEFINE rows == [k \in Keys |-> {k} \X (1..Copies[b][k])]
           S == {rows[k] : k \in Keys}
<1>1. \A k \in Keys : IsFiniteSet(rows[k])
  <2> SUFFICES ASSUME NEW k \in Keys PROVE IsFiniteSet(rows[k])
    OBVIOUS
  <2>1. Copies[b][k] \in Nat
    BY CopiesAssumption
  <2>2. IsFiniteSet(1..Copies[b][k])
    BY <2>1, FS_Interval
  <2>3. IsFiniteSet({k})
    BY FS_Singleton
  <2>4. IsFiniteSet({k} \X (1..Copies[b][k]))
    BY <2>2, <2>3, FS_Product
  <2> QED BY <2>4
<1>2. rows \in Surjection(Keys, S)
  BY DEF Surjection
<1>3. IsFiniteSet(S)
  <2> HIDE DEF S, rows
  <2> QED BY <1>2, FS_Surjection, FiniteAssumption
<1>4. \A T \in S : IsFiniteSet(T)
  BY <1>1
<1>5. IsFiniteSet(UNION S)
  <2> HIDE DEF S, rows
  <2> QED BY <1>3, <1>4, FS_UNION
<1> QED BY <1>5 DEF RowsOf

LEMMA StoredFinite ==
  ASSUME TypeOK, NoOverImport
  PROVE  IsFiniteSet(Stored) /\ Stored \subseteq Row
<1>0. ledger \in [Batches -> SUBSET Row]
  BY DEF TypeOK
<1> DEFINE S == {ledger[b] : b \in Batches}
<1>1. ledger \in Surjection(Batches, S)
  BY <1>0 DEF Surjection
<1>2. IsFiniteSet(S)
  <2> HIDE DEF S
  <2> QED BY <1>1, FS_Surjection, FiniteAssumption
<1>3. \A T \in S : IsFiniteSet(T)
  <2> SUFFICES ASSUME NEW b \in Batches PROVE IsFiniteSet(ledger[b])
    OBVIOUS
  <2>1. ledger[b] \in SUBSET RowsOf(b)
    BY DEF NoOverImport
  <2> QED BY <2>1, FileFinite, FS_Subset
<1>4. IsFiniteSet(UNION S)
  <2> HIDE DEF S
  <2> QED BY <1>2, <1>3, FS_UNION
<1> QED BY <1>0, <1>4 DEF Stored

\* The highest ordinal of a key is one, or there is none; and no other is higher.
LEMMA HighestIs ==
  ASSUME TypeOK, NoOverImport, NEW k \in Keys
  PROVE  /\ Highest(k) \in Nat
         /\ Highest(k) = 0 \/ \E x \in Stored : x[1] = k /\ x[2] = Highest(k)
         /\ \A x \in Stored : x[1] = k => x[2] <= Highest(k)
<1> DEFINE mine == {y \in Stored : y[1] = k}
           ordinals == {x[2] : x \in mine}
           f == [x \in mine |-> x[2]]
<1>1. \A x \in mine : x[2] \in Nat
  BY StoredFinite DEF Row
<1>2. CASE mine = {}
  BY <1>2 DEF Highest
<1>3. CASE mine # {}
  <2>1. IsFiniteSet(mine)
    BY StoredFinite, FS_Subset
  <2>2. \A x \in mine : f[x] \in Int
    BY <1>1
  <2>3. \E m \in mine : \A x \in mine : f[x] <= f[m]
    <3> HIDE DEF mine, f
    <3> QED BY <1>3, <2>1, <2>2, Greatest
  <2>4. \E o \in ordinals : \A p \in ordinals : p <= o
    BY <2>3
  <2>5. Highest(k) = CHOOSE o \in ordinals : \A p \in ordinals : p <= o
    BY <1>3 DEF Highest
  <2>6. Highest(k) \in ordinals /\ \A p \in ordinals : p <= Highest(k)
    BY <2>4, <2>5
  <2> QED BY <1>1, <2>6
<1> QED BY <1>2, <1>3

LEMMA OverFinite ==
  ASSUME NEW L, IsFiniteSet(L), NEW k
  PROVE  IsFiniteSet(Over(L, k)) /\ Cardinality(Over(L, k)) \in Nat
<1>1. Over(L, k) \in SUBSET L
  BY DEF Over
<1>2. IsFiniteSet(Over(L, k))
  BY <1>1, FS_Subset
<1> QED BY <1>2, FS_CardinalityType

LEMMA ExistingIs ==
  ASSUME TypeOK, NoOverImport, NEW k \in Keys
  PROVE  /\ Existing(k) \in Nat
         /\ Existing(k) = Cardinality(Over(Stored, k)) \/ Existing(k) = Highest(k)
         /\ Existing(k) >= Highest(k)
         /\ Existing(k) >= Cardinality(Over(Stored, k))
<1>1. Cardinality(Over(Stored, k)) \in Nat
  BY OverFinite, StoredFinite
<1> QED BY <1>1, HighestIs DEF Existing, Over

\* What a commit or a staging calls new of a key are rows of the file.
LEMMA NewFinite ==
  ASSUME NEW b \in Batches, NEW S, \A x \in S : x.row \in RowsOf(b), NEW k \in Keys
  PROVE  IsFiniteSet(NewOf(S, k)) /\ \A x \in NewOf(S, k) : x[2] <= Copies[b][k]
<1>1. NewOf(S, k) \in SUBSET RowsOf(b)
  BY DEF NewOf
<1>2. \A x \in NewOf(S, k) : x[2] <= Copies[b][k]
  BY <1>1, CopiesAssumption DEF NewOf, RowsOf
<1> QED BY <1>1, <1>2, FileFinite, FS_Subset

\* When the new rows among S are added the ledger L has, over the forms of each
\* key, what b's file has of it.
Covers(L, S, b) == \A k \in Keys : Cardinality(Over(L, k) \cup NewOf(S, k)) >= Copies[b][k]

\* No ordinal is above what is stored over its key's forms.
Level(L) == \A x \in L : x[2] <= Cardinality(Over(L, x[1]))

LEMMA CoverFinite ==
  ASSUME NEW L, IsFiniteSet(L), NEW b \in Batches, NEW S, \A x \in S : x.row \in RowsOf(b), NEW k \in Keys
  PROVE  /\ IsFiniteSet(Over(L, k) \cup NewOf(S, k))
         /\ Cardinality(Over(L, k) \cup NewOf(S, k)) \in Nat
<1>1. IsFiniteSet(Over(L, k) \cup NewOf(S, k))
  BY OverFinite, NewFinite, FS_Union
<1> QED BY <1>1, FS_CardinalityType

\* A staging plans enough.
LEMMA PlanCovers ==
  ASSUME TypeOK, NoOverImport, Level(Stored), NEW b \in Batches, NEW try \in Nat
  PROVE  Covers(Stored, PlanOccurrences(b, try), b)
<1> DEFINE P == PlanOccurrences(b, try)
<1> SUFFICES ASSUME NEW k \in Keys
             PROVE  Cardinality(Over(Stored, k) \cup NewOf(P, k)) >= Copies[b][k]
  BY DEF Covers
<1> DEFINE n == Copies[b][k]
           e == Existing(k)
           fresh == {k} \X ((e + 1)..n)
<1>1. \A x \in P : x.row \in RowsOf(b)
  BY PlannedRows
<1>2. n \in Nat /\ e \in Nat
  BY CopiesAssumption, ExistingIs
<1>0. Cardinality(Over(Stored, k)) \in Nat /\ IsFiniteSet(Over(Stored, k))
  BY StoredFinite, OverFinite
<1>3. e = Cardinality(Over(Stored, k))
  <2>1. Highest(k) <= Cardinality(Over(Stored, k))
    BY HighestIs, <1>0 DEF Level
  <2> QED BY <2>1, ExistingIs, HighestIs, <1>0
<1>4. fresh \subseteq NewOf(P, k)
  <2> SUFFICES ASSUME NEW x \in fresh PROVE x \in NewOf(P, k)
    OBVIOUS
  <2>1. x[1] = k /\ x[2] \in Nat /\ x[2] > e /\ x[2] \in 1..n /\ x = <<k, x[2]>>
    BY <1>2
  <2>2. x \in RowsOf(b) /\ x \in Row
    BY <2>1 DEF RowsOf, Row
  <2>3. [try |-> try, row |-> x, new |-> x[2] > Existing(x[1])] \in P
    BY <2>2 DEF PlanOccurrences
  <2>4. [try |-> try, row |-> x, new |-> x[2] > Existing(x[1])].new
    BY <2>1
  <2> HIDE DEF P
  <2> QED BY <2>1, <2>2, <2>3, <2>4 DEF NewOf
<1>5. Over(Stored, k) \cap fresh = {}
  <2>1. \A x \in Stored : x[1] = k => x[2] <= e /\ x[2] \in Nat
    BY HighestIs, ExistingIs, StoredFinite DEF Row
  <2>2. \A x \in fresh : x[1] = k /\ x[2] > e
    BY <1>2
  <2> QED BY <1>2, <2>1, <2>2 DEF Over
<1>6. IsFiniteSet(fresh) /\ Cardinality(fresh) = IF e < n THEN n - e ELSE 0
  <2>0. e + 1 \in Int /\ n \in Int
    BY <1>2
  <2>1. IsFiniteSet((e + 1)..n) /\ Cardinality((e + 1)..n) = IF e + 1 > n THEN 0 ELSE n - (e + 1) + 1
    <3> HIDE DEF e, n
    <3> QED BY <2>0, FS_Interval
  <2>2. IsFiniteSet({k}) /\ Cardinality({k}) = 1
    BY FS_Singleton
  <2>3. IsFiniteSet(fresh) /\ Cardinality(fresh) = 1 * Cardinality((e + 1)..n)
    BY <2>1, <2>2, FS_Product
  <2> HIDE DEF fresh
  <2> QED BY <1>2, <2>1, <2>3
<1>7. /\ IsFiniteSet(Over(Stored, k) \cup fresh)
      /\ Cardinality(Over(Stored, k) \cup fresh) = Cardinality(Over(Stored, k)) + Cardinality(fresh)
  <2> HIDE DEF fresh
  <2>1. Cardinality(Over(Stored, k) \cap fresh) = 0
    BY <1>5, FS_EmptySet
  <2>2. IsFiniteSet(Over(Stored, k) \cup fresh)
        /\ Cardinality(Over(Stored, k) \cup fresh)
             = Cardinality(Over(Stored, k)) + Cardinality(fresh) - Cardinality(Over(Stored, k) \cap fresh)
    BY <1>0, <1>6, FS_Union
  <2> QED BY <1>6, <2>1, <2>2, <1>0, FS_CardinalityType
<1>8. (Over(Stored, k) \cup fresh) \in SUBSET (Over(Stored, k) \cup NewOf(P, k))
  BY <1>4
<1> HIDE DEF fresh, P, e, n
<1>9. Cardinality(Over(Stored, k) \cup fresh) <= Cardinality(Over(Stored, k) \cup NewOf(P, k))
  BY <1>1, <1>8, StoredFinite, CoverFinite, FS_Subset
<1>10. Cardinality(Over(Stored, k) \cup NewOf(P, k)) \in Nat
  BY <1>1, StoredFinite, CoverFinite
<1> QED BY <1>2, <1>3, <1>6, <1>7, <1>9, <1>10 DEF n

\* A plan still covers, as does another that has its rows, when the ledger has
\* grown.
LEMMA StillCovers ==
  ASSUME NEW L, NEW M, IsFiniteSet(M), L \subseteq M, NEW b \in Batches, NEW S, NEW T, S \subseteq T,
         \A x \in T : x.row \in RowsOf(b), Covers(L, S, b)
  PROVE  Covers(M, T, b)
<1> SUFFICES ASSUME NEW k \in Keys
             PROVE  Cardinality(Over(M, k) \cup NewOf(T, k)) >= Copies[b][k]
  BY DEF Covers
<1>1. (Over(L, k) \cup NewOf(S, k)) \in SUBSET (Over(M, k) \cup NewOf(T, k))
  BY DEF Over, NewOf
<1>2. IsFiniteSet(Over(M, k) \cup NewOf(T, k)) /\ Cardinality(Over(M, k) \cup NewOf(T, k)) \in Nat
  BY CoverFinite
<1>3. /\ Cardinality(Over(L, k) \cup NewOf(S, k)) <= Cardinality(Over(M, k) \cup NewOf(T, k))
      /\ IsFiniteSet(Over(L, k) \cup NewOf(S, k))
  BY <1>1, <1>2, FS_Subset
<1>4. Cardinality(Over(L, k) \cup NewOf(S, k)) \in Nat
  BY <1>3, FS_CardinalityType
<1> QED BY <1>2, <1>3, <1>4, CopiesAssumption DEF Covers

\* What is counted only grows.
LEMMA OverGrows ==
  ASSUME NEW L, NEW M, IsFiniteSet(M), L \subseteq M, NEW k
  PROVE  /\ Cardinality(Over(L, k)) \in Nat /\ Cardinality(Over(M, k)) \in Nat
         /\ Cardinality(Over(L, k)) <= Cardinality(Over(M, k))
<1>1. Over(L, k) \in SUBSET Over(M, k) /\ IsFiniteSet(L) /\ IsFiniteSet(Over(M, k))
  BY OverFinite, FS_Subset DEF Over
<1> QED BY <1>1, OverFinite, FS_Subset

-----------------------------------------------------------------------------
(* Nothing is lost. *)

Untouched == Without({"cancel", "delete", "refusal"})

LossInv ==
  Untouched =>
    /\ \A b \in Batches : cancel[b] = "idle"
    /\ Level(Stored)
    /\ \A b \in Batches : status[b] = "previewed" => Covers(Stored, staged[b], b)
    /\ \A r \in Runs :
         /\ run[r].pc = "rows" => Covers(Stored, staged[run[r].batch], run[r].batch)
         /\ run[r].pc = "apply" => Covers(Stored, run[r].seen, run[r].batch)
    /\ \A b \in Batches, k \in Keys :
         status[b] = "committed" => Cardinality(Over(Stored, k)) >= Copies[b][k]

\* A step that takes nothing away keeps it, if what it commits is covered.
LEMMA GrowthKeepsLoss ==
  ASSUME TypeOK, RowsInv, LossInv, Untouched, IsFiniteSet(Stored'), RowsInv',
         Stored \subseteq Stored', Level(Stored'),
         \A b \in Batches :
            /\ cancel'[b] = "idle"
            /\ staged[b] \subseteq staged'[b]
            /\ status'[b] = "previewed" =>
                 \/ status[b] = "previewed"
                 \/ Covers(Stored', staged'[b], b)
            /\ status'[b] = "committed" =>
                 \/ status[b] = "committed"
                 \/ \A k \in Keys : Cardinality(Over(Stored', k)) >= Copies[b][k],
         \A r \in Runs :
            /\ run'[r].pc = "rows" =>
                 \/ run[r].pc = "rows" /\ run'[r].batch = run[r].batch
                 \/ status[run'[r].batch] = "previewed"
            /\ run'[r].pc = "apply" =>
                 \/ run[r].pc = "apply" /\ run'[r].batch = run[r].batch /\ run'[r].seen = run[r].seen
                 \/ run[r].pc = "rows" /\ run'[r].batch = run[r].batch /\ run'[r].seen = staged[run[r].batch],
         run' \in [Runs -> Run]
  PROVE  LossInv'
<1>1. \A b \in Batches : (\A x \in staged[b] : x.row \in RowsOf(b)) /\ (\A x \in staged'[b] : x.row \in RowsOf(b))
  BY DEF RowsInv, RowsOf
<1>2. \A r \in Runs : run[r].batch \in Batches /\ run'[r].batch \in Batches
  BY DEF TypeOK, Run
<1>3. \A r \in Runs : \A x \in run[r].seen : x.row \in RowsOf(run[r].batch)
  BY DEF RowsInv
<1>4. ASSUME NEW b \in Batches, Covers(Stored, staged[b], b)
      PROVE  Covers(Stored', staged[b], b) /\ Covers(Stored', staged'[b], b)
  BY <1>1, <1>4, StillCovers
<1>5. ASSUME NEW r \in Runs, Covers(Stored, run[r].seen, run[r].batch)
      PROVE  Covers(Stored', run[r].seen, run[r].batch)
  BY <1>2, <1>3, <1>5, StillCovers
<1>6. \A b \in Batches : status'[b] = "previewed" => Covers(Stored', staged'[b], b)
  BY <1>4 DEF LossInv
<1>7. ASSUME NEW r \in Runs, run'[r].pc = "rows" PROVE Covers(Stored', staged'[run'[r].batch], run'[r].batch)
  BY <1>2, <1>4, <1>7 DEF LossInv
<1>8. ASSUME NEW r \in Runs, run'[r].pc = "apply" PROVE Covers(Stored', run'[r].seen, run'[r].batch)
  BY <1>2, <1>4, <1>5, <1>8 DEF LossInv
<1>9. ASSUME NEW b \in Batches, NEW k \in Keys, status'[b] = "committed"
      PROVE  Cardinality(Over(Stored', k)) >= Copies[b][k]
  BY <1>9, OverGrows, CopiesAssumption DEF LossInv
<1> QED BY <1>6, <1>7, <1>8, <1>9 DEF LossInv, Level, Covers, Over, NewOf

\* What is cancelled, deleted or refused stays so.
LEMMA UntouchedBefore ==
  ASSUME TypeOK, [Next]_vars, Untouched'
  PROVE  /\ Untouched
         /\ ~\E m \in {"cancel", "delete", "refusal"} : Mishap(m)
<1>1. \A m \in Mishaps : spent[m] \in Nat
  BY DEF TypeOK
<1>2. {"cancel", "delete", "refusal"} \subseteq Mishaps
  BY DEF Mishaps
<1>3. \A m \in Mishaps : spent'[m] >= spent[m]
  BY SpentGrows
<1>4. \A m \in Mishaps : Mishap(m) => spent'[m] = spent[m] + 1
  BY DEF Mishap, TypeOK
<1> QED BY <1>1, <1>2, <1>3, <1>4 DEF Untouched, Without

\* A step that leaves the ledger and the staged rows alone, and does not go past
\* the status check but from a previewed batch.
LEMMA QuietKeepsLoss ==
  ASSUME TypeOK, TypeOK', RowsInv, RowsInv', LossInv, Untouched, UNCHANGED <<staged, ledger>>,
         \A b \in Batches :
            /\ cancel'[b] = "idle"
            /\ status'[b] \in {"previewed", "committed"} => status[b] = status'[b],
         \A r \in Runs :
            \/ run'[r].pc \notin {"rows", "apply"}
            \/ run'[r].pc = run[r].pc /\ run'[r].batch = run[r].batch /\ run'[r].seen = run[r].seen
            \/ run'[r].pc = "rows" /\ status[run'[r].batch] = "previewed"
  PROVE  LossInv'
<1>1. Stored' = Stored /\ IsFiniteSet(Stored)
  BY StoredFinite DEF Stored, RowsInv
<1>2. Level(Stored')
  BY <1>1 DEF LossInv
<1>3. run' \in [Runs -> Run]
  BY DEF TypeOK
<1> QED BY <1>1, <1>2, <1>3, GrowthKeepsLoss

\* The steps of the upload action, of pg-boss and of the user keep it.
LEMMA OutsideKeepsLoss ==
  ASSUME TypeOK, TypeOK', RowsInv, RowsInv', LossInv, Untouched,
         ~\E m \in {"cancel", "delete", "refusal"} : Mishap(m),
         \/ \E files \in Uploads : UploadRows(files)
         \/ SaveFile \/ EnqueueStage \/ Crash \/ WebCrash
         \/ \E r \in Runs :
              \/ Ack(r) \/ Fail(r) \/ ExpireLive(r)
              \/ \E q \in Queues, b \in Batches : Deliver(q, b, r)
         \/ \E b \in Batches :
              \/ PurgeCommitJob(b) \/ RequestCommit(b)
              \/ CancelCheck(b) \/ CancelRows(b) \/ CancelApply(b) \/ CancelDelete(b)
              \/ \E q \in Queues : ExpireOrphan(q, b)
              \/ \E x \in ledger[b] : DeleteTransaction(b, x)
  PROVE  LossInv'
<1>1. run \in [Runs -> Run] /\ \A b \in Batches : cancel[b] = "idle"
  BY DEF TypeOK, LossInv
<1>2. ASSUME NEW files \in Uploads, UploadRows(files) PROVE LossInv'
  <2>1. \A b \in Batches : status'[b] \in {"previewed", "committed"} => status[b] = status'[b]
    BY <1>2 DEF UploadRows
  <2> QED BY <1>1, <1>2, <2>1, QuietKeepsLoss DEF UploadRows
<1>3. CASE SaveFile \/ EnqueueStage \/ WebCrash
  BY <1>1, <1>3, QuietKeepsLoss DEF SaveFile, EnqueueStage, WebCrash, batchVars
<1>4. CASE Crash
  BY <1>1, <1>4, QuietKeepsLoss DEF Crash, Idle, batchVars, webVars
<1>5. ASSUME NEW r \in Runs, Ack(r) \/ Fail(r) PROVE LossInv'
  <2>1. \A s \in Runs : run'[s] = Idle \/ run'[s] = run[s]
    BY <1>1, <1>5 DEF Ack, Fail
  <2>2. Idle.pc = "idle" /\ UNCHANGED <<batchVars, webVars>>
    BY <1>5 DEF Ack, Fail, Idle
  <2> QED BY <1>1, <2>1, <2>2, QuietKeepsLoss DEF batchVars, webVars
<1>6. ASSUME NEW r \in Runs, ExpireLive(r) PROVE LossInv'
  <2>1. \A s \in Runs : run'[s].pc = run[s].pc /\ run'[s].batch = run[s].batch /\ run'[s].seen = run[s].seen
    BY <1>1, <1>6 DEF ExpireLive, Run
  <2> QED BY <1>1, <1>6, <2>1, QuietKeepsLoss DEF ExpireLive, batchVars, webVars
<1>7. ASSUME NEW r \in Runs, NEW q \in Queues, NEW b \in Batches, Deliver(q, b, r)
      PROVE  LossInv'
  <2>1. \A s \in Runs : run'[s].pc \in {"read", "begin"} \/ run'[s] = run[s]
    BY <1>1, <1>7 DEF Deliver
  <2> QED BY <1>1, <1>7, <2>1, QuietKeepsLoss DEF Deliver, batchVars, webVars
<1>8. ASSUME NEW b \in Batches,
             PurgeCommitJob(b) \/ RequestCommit(b) \/ \E q \in Queues : ExpireOrphan(q, b)
      PROVE  LossInv'
  BY <1>1, <1>8, QuietKeepsLoss DEF PurgeCommitJob, RequestCommit, ExpireOrphan, batchVars, webVars
<1>9. ASSUME NEW b \in Batches
      PROVE  /\ ~CancelCheck(b) /\ ~CancelRows(b) /\ ~CancelApply(b) /\ ~CancelDelete(b)
             /\ ~\E x \in ledger[b] : DeleteTransaction(b, x)
  BY <1>1 DEF CancelCheck, CancelRows, CancelApply, CancelDelete, DeleteTransaction
<1> QED BY <1>2, <1>3, <1>4, <1>5, <1>6, <1>7, <1>8, <1>9

\* So do the handlers' quiet ones.
LEMMA HandlersKeepLoss ==
  ASSUME TypeOK, TypeOK', RowsInv, RowsInv', LossInv, Untouched, NEW r \in Runs,
         \/ StageRead(r) \/ StageCheck(r) \/ FailCheck(r) \/ FailWrite(r) \/ DeleteFile(r)
         \/ CommitBegin(r) \/ CommitConflict(r) \/ CommitRefused(r)
  PROVE  LossInv'
<1>1. run \in [Runs -> Run] /\ run[r].batch \in Batches /\ \A b \in Batches : cancel[b] = "idle"
  BY DEF TypeOK, LossInv, Run
<1>2. \A from : \A to : Goto(r, from, to) =>
        /\ run[r].pc = from /\ run'[r].pc = to /\ run'[r].batch = run[r].batch
        /\ \A s \in Runs : s # r => run'[s] = run[s]
  BY <1>1 DEF Goto, Run
<1>3. CASE StageRead(r) \/ StageCheck(r) \/ FailCheck(r)
  BY <1>1, <1>2, <1>3, QuietKeepsLoss DEF StageRead, StageCheck, FailCheck, batchVars, webVars
<1>4. CASE FailWrite(r)
  <2>1. \A b \in Batches : status'[b] = status[b] \/ status'[b] = "failed"
    BY <1>1, <1>4 DEF FailWrite, TypeOK
  <2> QED BY <1>1, <1>2, <1>4, <2>1, QuietKeepsLoss DEF FailWrite, webVars
<1>5. CASE DeleteFile(r)
  BY <1>1, <1>2, <1>5, QuietKeepsLoss DEF DeleteFile, webVars
<1>6. CASE CommitBegin(r)
  BY <1>1, <1>2, <1>6, QuietKeepsLoss DEF CommitBegin, batchVars, webVars
<1>7. CASE CommitConflict(r) \/ CommitRefused(r)
  BY <1>1, <1>2, <1>7, QuietKeepsLoss DEF CommitConflict, CommitRefused, batchVars, webVars
<1> QED BY <1>3, <1>4, <1>5, <1>6, <1>7

\* A staging covers what it stages.
LEMMA StageKeepsLoss ==
  ASSUME TypeOK, TypeOK', RowsInv, RowsInv', LossInv, Untouched, NEW r \in Runs, StageWrite(r)
  PROVE  LossInv'
<1> DEFINE b == run[r].batch
           P == PlanOccurrences(b, run[r].try)
<1>1. /\ run \in [Runs -> Run] /\ b \in Batches /\ run[r].try \in Nat
      /\ staged \in [Batches -> SUBSET StagedRow] /\ run' \in [Runs -> Run]
  BY DEF TypeOK, Run
<1>2. /\ staged'[b] = staged[b] \cup P /\ status'[b] = "previewed"
      /\ \A c \in Batches : c # b => staged'[c] = staged[c] /\ status'[c] = status[c]
      /\ UNCHANGED <<ledger, cancel>>
  BY <1>1 DEF StageWrite, TypeOK, webVars
<1>3. NoOverImport /\ Stored' = Stored /\ IsFiniteSet(Stored) /\ Level(Stored)
  BY <1>2, StoredFinite DEF Stored, RowsInv, LossInv
<1>4. Covers(Stored, P, b)
  BY <1>1, <1>3, PlanCovers
<1>5. Covers(Stored, staged'[b], b)
  <2>1. \A x \in staged'[b] : x.row \in RowsOf(b)
    BY <1>1 DEF RowsInv, RowsOf
  <2> HIDE DEF P, b
  <2> QED BY <1>1, <1>2, <1>3, <1>4, <2>1, StillCovers
<1>6. \A c \in Batches :
        /\ cancel'[c] = "idle" /\ staged[c] \subseteq staged'[c]
        /\ status'[c] = "previewed" => status[c] = "previewed" \/ Covers(Stored', staged'[c], c)
        /\ status'[c] = "committed" => status[c] = "committed"
  <2> HIDE DEF P, b
  <2> QED BY <1>1, <1>2, <1>3, <1>5 DEF LossInv
<1>7. \A s \in Runs : run'[s] = run[s] \/ run'[s].pc = "ack"
  BY <1>1 DEF StageWrite, Goto
<1> QED BY <1>1, <1>3, <1>6, <1>7, GrowthKeepsLoss

\* A commit that reads what is staged will write it.
LEMMA CommitRowsKeepsLoss ==
  ASSUME TypeOK, TypeOK', RowsInv, RowsInv', LossInv, Untouched, NEW r \in Runs, CommitRows(r)
  PROVE  LossInv'
<1>1. run \in [Runs -> Run] /\ run' \in [Runs -> Run] /\ UNCHANGED <<status, staged, ledger, cancel>>
  BY DEF TypeOK, CommitRows, batchVars, webVars
<1>2. Stored' = Stored /\ IsFiniteSet(Stored) /\ Level(Stored) /\ \A b \in Batches : cancel[b] = "idle"
  BY <1>1, StoredFinite DEF Stored, RowsInv, LossInv
<1>3. /\ run[r].pc = "rows" /\ run'[r].pc = "apply" /\ run'[r].batch = run[r].batch
      /\ run'[r].seen = staged[run[r].batch]
      /\ \A s \in Runs : s # r => run'[s] = run[s]
  BY <1>1 DEF CommitRows, Run
<1> QED BY <1>1, <1>2, <1>3, GrowthKeepsLoss

\* And when it is not refused a row it writes all that covers the file.
LEMMA CommitKeepsLoss ==
  ASSUME TypeOK, TypeOK', RowsInv, RowsInv', LossInv, Untouched, ~Mishap("refusal"),
         IsFiniteSet(Stored'), NEW r \in Runs, CommitApply(r)
  PROVE  LossInv'
<1> DEFINE b == run[r].batch
           S == run[r].seen
           added == {x.row : x \in NewRows(r)}
<1>1. run \in [Runs -> Run] /\ b \in Batches /\ run' \in [Runs -> Run] /\ ledger \in [Batches -> SUBSET Row]
  BY DEF TypeOK, Run
<1>2. ledger' = [ledger EXCEPT ![b] = @ \cup added]
  BY DEF CommitApply
<1>3. Stored' = Stored \cup added
  <2> HIDE DEF added, b
  <2> QED BY <1>1, <1>2 DEF Stored
<1>4. Covers(Stored, S, b) /\ Level(Stored) /\ \A x \in S : x.row \in RowsOf(b)
  BY DEF LossInv, CommitApply, RowsInv
<1>5. ASSUME NEW k \in Keys
      PROVE  Cardinality(Over(Stored', k)) \in Nat /\ Cardinality(Over(Stored', k)) >= Copies[b][k]
  <2>1. NewOf(S, k) \subseteq Over(Stored', k)
    BY <1>3, FormsAssumption DEF NewOf, Over, NewRows
  <2>2. Over(Stored, k) \cup NewOf(S, k) \in SUBSET Over(Stored', k)
    BY <1>3, <2>1 DEF Over
  <2>3. IsFiniteSet(Over(Stored', k)) /\ Cardinality(Over(Stored', k)) \in Nat
    BY OverFinite
  <2>4. /\ Cardinality(Over(Stored, k) \cup NewOf(S, k)) <= Cardinality(Over(Stored', k))
        /\ IsFiniteSet(Over(Stored, k) \cup NewOf(S, k))
    BY <2>2, <2>3, FS_Subset
  <2>5. Cardinality(Over(Stored, k) \cup NewOf(S, k)) \in Nat
    BY <2>4, FS_CardinalityType
  <2> HIDE DEF S, b
  <2> QED BY <1>1, <1>4, <2>3, <2>4, <2>5, CopiesAssumption DEF Covers
<1>6. Level(Stored')
  <2> SUFFICES ASSUME NEW x \in Stored' PROVE x[2] <= Cardinality(Over(Stored', x[1]))
    BY DEF Level
  <2>1. CASE x \in Stored
    <3>1. x[2] <= Cardinality(Over(Stored, x[1])) /\ x[2] \in Nat
      BY <1>4, <2>1, StoredFinite DEF Level, RowsInv, Row
    <3>2. Stored \subseteq Stored'
      BY <1>3
    <3> QED BY <3>1, <3>2, OverGrows
  <2>2. CASE x \in added
    <3>1. x \in RowsOf(b)
      BY <1>4, <2>2 DEF NewRows
    <3>2. x[1] \in Keys /\ x[2] \in 1..Copies[b][x[1]] /\ Copies[b][x[1]] \in Nat
      BY <1>1, <3>1, CopiesAssumption DEF RowsOf
    <3> HIDE DEF b, added
    <3> QED BY <1>5, <3>2
  <2> QED BY <1>3, <2>1, <2>2
<1>7. \A c \in Batches :
        /\ cancel'[c] = "idle" /\ staged[c] \subseteq staged'[c]
        /\ status'[c] = "previewed" => status[c] = "previewed"
        /\ status'[c] = "committed" => status[c] = "committed" \/ c = b
  BY <1>1 DEF LossInv, CommitApply, TypeOK, webVars
<1>8. \A s \in Runs : run'[s] = run[s] \/ run'[s].pc = "delete"
  BY <1>1 DEF CommitApply
<1> HIDE DEF b, S, added
<1> QED BY <1>1, <1>3, <1>5, <1>6, <1>7, <1>8, GrowthKeepsLoss

LEMMA AlwaysFinite == Spec => []IsFiniteSet(Stored)
<1>1. TypeOK /\ RowsInv => IsFiniteSet(Stored)
  BY StoredFinite DEF RowsInv
<1> QED BY <1>1, TypeCorrect, RowsDiscipline, PTL

LEMMA NothingLost == Spec => []LossInv
<1>1. Init => LossInv
  <2> SUFFICES ASSUME Init PROVE LossInv
    OBVIOUS
  <2>1. Stored = {}
    BY DEF Init, Stored
  <2> QED BY <2>1 DEF Init, LossInv, Level, Idle
<1>2. TypeOK /\ TypeOK' /\ RowsInv /\ RowsInv' /\ IsFiniteSet(Stored)' /\ LossInv /\ [Next]_vars => LossInv'
  <2> SUFFICES ASSUME TypeOK, TypeOK', RowsInv, RowsInv', IsFiniteSet(Stored'), LossInv, [Next]_vars, Untouched'
               PROVE  LossInv'
    BY DEF LossInv
  <2>1. Untouched /\ ~\E m \in {"cancel", "delete", "refusal"} : Mishap(m)
    BY UntouchedBefore
  <2>2. CASE UNCHANGED vars
    BY <2>1, <2>2, QuietKeepsLoss DEF vars, batchVars, webVars, LossInv
  <2>3. CASE Next
    BY <2>1, <2>3, OutsideKeepsLoss, HandlersKeepLoss, StageKeepsLoss, CommitRowsKeepsLoss,
       CommitKeepsLoss, Zenon DEF Next, HandlerStep
  <2> QED BY <2>2, <2>3
<1> QED BY <1>1, <1>2, TypeCorrect, RowsDiscipline, AlwaysFinite, PTL DEF Spec

\* Unless something is cancelled, deleted or refused, the ledger has of every key
\* of a committed batch's file, over the key's forms, as many rows as the file:
\* for every file and key map, any crash, retry or expiry, and whatever other
\* batches commit between a staging and its commit (countsAcrossKeyForms,
\* planOccurrences, commitBatch).
THEOREM NothingLostSilently == Spec => []NoSilentLoss
<1>1. LossInv => NoSilentLoss
  BY DEF LossInv, NoSilentLoss, Untouched, Over
<1> QED BY <1>1, NothingLost, PTL

\* What a staging calls new is above every ordinal stored under its key, also
\* after deletions (the floor of countsAcrossKeyForms).
THEOREM StagedAlwaysAbove == Spec => StagedAboveStored
<1>1. TypeOK /\ RowsInv /\ [Next]_vars
        => [\A b \in Batches : \A x \in staged'[b] \ staged[b] : x.new => x.row \notin Stored]_vars
  <2> SUFFICES ASSUME TypeOK, RowsInv, [Next]_vars, NEW b \in Batches, NEW x \in staged'[b] \ staged[b], x.new
               PROVE  x.row \notin Stored
    OBVIOUS
  <2>1. PICK r \in Runs : StageWrite(r)
    <3>1. CASE UNCHANGED vars
      BY <3>1 DEF vars, batchVars
    <3>2. ASSUME NEW r \in Runs, CommitRows(r) \/ CommitApply(r) PROVE FALSE
      BY <3>2 DEF CommitRows, CommitApply, batchVars
    <3>3. ASSUME NEW c \in Batches, CancelApply(c) \/ \E y \in ledger[c] : DeleteTransaction(c, y) PROVE FALSE
      BY <3>3 DEF CancelApply, DeleteTransaction, TypeOK
    <3>4. UNCHANGED staged => FALSE
      OBVIOUS
    <3>5. CASE Next
      BY <3>2, <3>3, <3>4, <3>5, QuietSteps, Zenon DEF Next, HandlerStep
    <3> QED BY <3>1, <3>5
  <2>2. run[r].batch \in Batches /\ staged \in [Batches -> SUBSET StagedRow]
    BY DEF TypeOK, Run
  <2>3. x \in PlanOccurrences(run[r].batch, run[r].try) /\ b = run[r].batch
    BY <2>1, <2>2 DEF StageWrite
  <2>4. x.row \in RowsOf(b) /\ x.row[2] > Existing(x.row[1])
    <3>1. PICK y \in RowsOf(b) : x = [try |-> run[r].try, row |-> y, new |-> y[2] > Existing(y[1])]
      BY <2>3 DEF PlanOccurrences
    <3>2. x.row = y /\ x.new = (y[2] > Existing(y[1]))
      BY <3>1
    <3> QED BY <3>2
  <2>5. x.row[1] \in Keys /\ x.row[2] \in Nat
    BY <2>4, RowsAreRows DEF Row
  <2> QED BY <2>4, <2>5, HighestIs, ExistingIs DEF RowsInv
<1> QED BY <1>1, TypeCorrect, RowsDiscipline, PTL DEF Spec, StagedAboveStored
=============================================================================
