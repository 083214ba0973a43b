# AllMyWallet in TLA+

AllMyWallet is a multi-tenant portfolio tracker for Brazilian investors. A user
uploads B3 extracts; the program turns them into a ledger of transactions, derives
positions, wallet allocations and valuations from that ledger, polls quotes for what
is held, and emails the user when a watched asset crosses a threshold.

It runs as two processes over one Postgres database (READ COMMITTED) and one upload
directory:

- the **web** process (Next.js server actions), one database transaction per action
  (`withTenant`), many actions at once;
- the **worker** process (pg-boss handlers), jobs delivered at least once, retried a
  fixed number of times, expired when their handler takes too long, dead-lettered.

There is one source of truth per tenant, the `transactions` table. Everything else is
a cache of it (positions, valuation snapshots), is constrained by it (allocations fit
in positions), or follows it at a distance (quotes are polled for what is held).
The hard behaviour is in what happens between those: requests and jobs that overlap,
jobs that are delivered twice or die half way, files and rows that must go when they
are no longer needed, derived values computed from a ledger that has moved.

Paths below are relative to the repository's `src/` (the program's sources are
`src/src/...` in `PROJECT.json`).

## 1. Inventory

What each part keeps, does, and must keep true. `PROJECT.json` has the same list with
its files, and under `hazards` the lines at which each can go wrong.

| Part | State | Operations | Hard behaviour | Correct when |
|---|---|---|---|---|
| **Import batches** (`core/ingestion/{stage,commit,cancel,fail}-batch.ts`, `app/(app)/import/actions.ts`, `worker/handlers/import.ts`) | `import_batches.status`, `import_rows`, the `.xlsx` file, two jobs per batch | upload, stage, commit, fail, cancel | retries after a crash, expiry under a live handler, cancel racing a commit, overlapping extracts, key forms that changed between uploads | nothing is imported twice or lost; commits of one tenant are serial; the CPF-bearing file and the staged rows live as long as needed and no longer |
| **Row resolution** (`classify-row.ts`, `ignore-row.ts`, `subscription-offer.ts`, ...) | `import_rows.classification` and `transaction_id`, the stored copy, the batch's counts | classify, restore, ignore, answer a subscription offer; a later commit that activates or supersedes the same copies | an answer while a commit runs; a copy deleted or edited in the ledger; counts written from two sides | an answer stands until the user changes it; screen, ledger and counts tell one story |
| **Reconciliation** (`reconcile.ts`, `accept-adjustment.ts`) | the report on a Posicao batch | compare with B3 at commit, accept a difference | acceptance long after the report; two at once; a position B3 does not list | an accepted difference brings the position to B3's figure, once |
| **Extract parsing** | none | file to rows | none: pure | same file, same rows |
| **Ledger** (`core/ledger/*`) | `transactions` | create, edit, delete, bulk delete | two requests each validated without the other | the stored ledger always replays |
| **Carried costs** (`core/ledger/{carried-legs,transfer-pairs,manage-asset-conversion}.ts`, `core/ingestion/transfer-cost.ts`) | figures stored on transfers and conversion legs | re-derive after each write, create and edit conversions, carry at import | chains of positions, same-day swaps, round trips, rounding of a stored figure against a replayed one | a carried figure is its source's; conversions create no cost; re-derivation ends |
| **Positions** (`core/positions/*`) | `positions` (a cache) | replay, recalculate | two recalculations of one position; a write that touches several | the cache is the replay |
| **Wallet allocations** (`core/wallets/*`) | `wallet_allocations`, their event log, standing rules | allocate, assign, follow a buy or a sale, reconcile, delete a wallet | row locks, deadlocks, rounding of proportional shares, a holding read before the lock | allocations of an asset fit in what is held; the log agrees with them |
| **Targets, drift, goals** | targets, goals | set targets, mark achieved | interleaved edits, crash before the email | targets total 100 %; a goal is announced once |
| **Quotes** (`worker/handlers/quotes.ts`, `core/quotes/*`) | `latest_quotes`, the request budget | poll, look up, spend | poller and lookup at once; budget checked before and counted after | a quote is followed by an evaluation; the budget holds |
| **Official closes** (`sync-official-closes.ts`, `fetch-official-closes.ts`, `worker/catch-up.ts`, `ops/backfill-close-gaps.ts`) | `price_quotes`, `price_quote_gaps` | evening capture, catch-up, an import's fetch, backfill | unreadable files, a crash between two statements of a run, assets whose last closes differ | no day is lost without a rule of the code that says so; former closes all go; every change is rebuilt |
| **Opportunity watch** (`core/opportunity/*`, `worker/handlers/opportunity.ts`) | rules, the notification log | create, edit, mute, delete; evaluate, claim, send | claim before send, retries, overlapping passes, edits meanwhile, lost evaluations | a change of state is emailed at most once and never unlogged; every quote is evaluated in the end |
| **Valuation** (`core/valuation/*`, `worker/handlers/valuation.ts`) | snapshots per day | daily snapshot, rebuild from a date | read in one transaction, write in another; lost requests | snapshots eventually equal the ledger's valuation |
| **Privacy** (`core/privacy/*`) | deletion requests, consents | request, cancel by signing in, purge, export | signing in between the sweep's read and the purge | a cancelled deletion never purges |
| **Worker** (`worker/*`) | pg-boss queues and schedules | deliver, retry, expire, alert | everything above | every job ends |
| **Tenant transactions** (`db/tenant.ts`) | none | `withTenant` | nested connections of a pool of ten | a unit of work commits or rolls back whole |
| **Configuration**, **identity and onboarding**, **reports and dashboard** | settings; the tenant row; none | resolve; provision; read | none found | |

How they interact:

```
 user ──upload──► import batches ──commit──► ledger ◄──create/edit/delete── user
                        │                      │
                        │                      ├──recalculate──► positions ──bounds──► wallet allocations
                        │                      └──enqueue rebuild──► valuation snapshots ◄──enqueue rebuild── official closes
                        ├──rows to answer──► row resolution ──edits──► ledger
                        ├──Posicao report──► reconciliation ──adjustment──► ledger
                        └──files──► upload directory
 positions ──what is held──► quotes.poll ──quotes──► opportunity.evaluate ──claim, then email──► user
```

Calls inside one transaction (ledger → positions → wallets) are atomic with it; every
other arrow is a job, a file or a read of committed data.

## 2. The modules

| Module | Models | Instances |
|---|---|---|
| `ImportPromise` | what an import promises: each batch enters the ledger whole, in one step | implemented by `ImportBatches` |
| `ImportBatches` | the import pipeline of one tenant, from upload to ledger | `MCImportBatches` |
| `ImportBatchesProofs` | theorems about it: types, rows, commits and the refinement; files and staged rows | (TLAPS) |
| `ImportReview` | what the user and later imports make of a committed batch's rows; the reconciliation of their position | `MCImportReview` |
| `ImportReviewProofs` | theorems about it | (TLAPS) |
| `WalletPromise` | what the wallets of an asset are promised: each request changes them in one step, by what is held and allocated then | implemented by `TenantWrites` |
| `TenantWrites` | concurrent writes of one tenant to one asset: ledger, cached positions, wallet allocations | `MCTenantWrites` |
| `TenantWritesProofs` | theorems about it | (TLAPS) |
| `CarriedCosts` | writes of one tenant, one at a time, to positions that take their cost from each other | `MCCarriedCosts` |
| `CarriedCostsProofs` | theorems about it | (TLAPS) |
| `OpportunityWatch` | poller, evaluation job and rules of one tenant | `MCOpportunityWatch` |
| `OpportunityWatchProofs` | theorems about it | (TLAPS) |
| `OfficialCloses` | the closes and gaps of listed assets: capture, catch-up, imports, backfill | `MCOfficialCloses` |
| `OfficialClosesProofs` | theorems about it | (TLAPS) |
| `ValuationSnapshots` | one tenant's daily snapshots: requests, rebuilds, the nightly and the accrual jobs | `MCValuationSnapshots` |
| `ValuationSnapshotsProofs` | theorems about it | (TLAPS) |
| `Sums` | lemmas about sums over finite sets and recursions over them, for the proofs | (TLAPS) |

`TenantWrites` and `CarriedCosts` see the same ledger from two sides: the first has
concurrency, several institutions and wallets, and quantities only; the second has costs,
transfers and conversions, and one write at a time. `ImportBatches` stops where a row is
in the ledger, and `ImportReview` starts there.

Conventions shared by the modules:

- One action is one step that another process can observe. A database transaction is
  one action unless it reads something another transaction may change before it
  writes (READ COMMITTED), or waits for a lock; then it is split there.
- What disturbs a behaviour is a **mishap** of a named kind (`Mishaps`), counted in
  `spent`, and allowed only up to a member of the constant `Bound`. `TenantWrites`,
  `CarriedCosts` and `ImportReview` count the user's operations instead (`Loads`,
  `MaxWrites`, `MaxAsked`), `ValuationSnapshots` those and the
  mishaps together (`Events`). These counters are the only bounds
  added to the guards; they replace state constraints, so liveness is checked soundly.
- An operator whose comment begins "Faulty variant" is not part of a specification. It
  is a plausible slip in the code (a dropped guard, a missing reset, a swapped order)
  that `PROJECT.json` pairs with the property that must notice it.

### 2.1 ImportBatches

`status`, `staged`, `ledger` are the tables; `file` the upload directory; `job` the
pg-boss job of each batch in `import.stage` and `import.commit`; `run` the handler
executions in the worker's memory; `lock` the advisory lock; `upload` and `cancel` the
web actions that are part way. A ledger row is its natural key and its occurrence, the
columns of the unique constraint.

| Code | Actions |
|---|---|
| `uploadExtracts` (`import/actions.ts`): insert all batch rows, then save and enqueue file by file | `UploadRows`, `SaveFile`, `EnqueueStage`, `WebCrash` |
| `handleImportStage` → `stageBatch`, `failBatch` | `StageRead`, `StageCheck`, `StageWrite`, `FailCheck`, `FailWrite`, `DeleteFile` |
| `countsAcrossKeyForms`, `planOccurrences` | `Existing`, `PlanOccurrences` |
| `handleImportCommit` → `commitBatch` | `CommitBegin` (lock, status), `CommitRows`, `CommitApply` or `CommitConflict` or `CommitRefused`, `DeleteFile` |
| `cancelBatch`, then the file | `CancelCheck`, `CancelRows`, `CancelApply`, `CancelDelete` |
| pg-boss | `Deliver`, `Ack`, `Fail`, `ExpireOrphan`, `ExpireLive`, `PurgeCommitJob`, `Crash` |
| `deleteTransaction` on an imported row | `DeleteTransaction` |

A handler whose job expired goes on running (`live = FALSE`): pg-boss cannot stop it,
and the retry runs beside it. `Deliver` lets any idle run take any queued job, so two
handlers of one queue may run at once; the worker as configured runs one per queue, so
the model includes its behaviours and those of two workers.

The rows of a file are abstracted to how many there are of each key (`Copies`); what a
commit does with each row (settlement, attention answers, creation through the ledger)
to which of them it accepts, which is any subset when the mishap `refusal` is spent. Rows
that state their price's provenance are staged differently, matched one by one to the stored
copies of the same provenance instead of counted (`stage-batch.ts:338-395`), and are left out.

`cancelBatch` is split where the code waits: `CancelRows` is the `DELETE` of the staged rows,
which does not see what a staging has not yet committed, and `CancelApply` the `UPDATE` of
the batch, which waits for that staging and goes through after it.

### 2.2 TenantWrites

`ledger`, `pos`, `alloc`, `log`, `wallets`, `rule` are committed tables; `tx[p]` is the
transaction of request `p`: what it has read (`seen`, `held`, `value`), written
(`rows`, `cached`), the standing rule it follows (`rule`) and what it has still to lock
(`want`); `holds[p]` its row locks. A
transaction sees committed state overlaid with its own writes, and they become visible
in `Commit`.

| Code | Actions |
|---|---|
| `createTransaction`, `editTransaction`, `deleteTransaction` | `BeginCreate`/`BeginEdit`/`BeginDelete`, `Write`, then for each institution touched `RecalcRead`, `RecalcWrite` or `RecalcRefused` |
| `recalculatePositionFrom`, `guardReplayable` | `Replay`, `Replayable`, `RecalcRead`, `RecalcWrite` |
| `lockForAsset` | `LockPositions`, `LockAllocations`, `TakeWanted` |
| `allocateToWallet`, `assignTransactions`, `deleteWallet`, standing rule | `BeginAllocate`, `BeginAssign` (locks, `Clamp` to what is unassigned, then `Relock`: `allocateToWallet` reads and locks again), `BeginDrop`, `LockDropped`, `SetRule` |
| `findByAsset` of the standing rule in `applyBuy` | `ReadRule` |
| `applyBuy`, `applyProportionalSell`, `reconcileAllocationsToHoldings`, `assertWithinHoldings` | `Proposal`, `Reduced`, `Storable`, `Within`, `Accepted`; `Commit` or `Refuse` |
| Postgres | `DeadlockAbort` |

`WalletPromise` says what all this locking is for: each of these operations as one step
that goes by everything that is held and allocated at that moment, with nothing read
earlier but one: the standing rule a purchase follows, which the code reads without a lock
(`apply-buy.ts:93`), so that a rule changed in between does not count (`ReadRule`, `known`).
The wallet it names must still exist. `held` is `HeldOf(pos)`, and a request's step is its
`Commit`.

What an edit reads before it writes, the row (`edit-transaction.ts:166`) and the ledgers its
two guards replay (`:240-248`), is one step, `BeginEdit`; another request's commit falls before
all of it or after.

Quantities are integers in units of the last decimal that `NUMERIC(20,8)` keeps; a share
of a proportional reduction is rounded half up on storage, as the column does. Cost
bases, corporate events and more than one asset are left out: allocations of different
assets share no rows.

### 2.3 OpportunityWatch

`quote` and `fresh` are the market, `held`, `open`, `rule`, `log`, `cooling` the
tenant's tables, `poll`, `job`, `pass` the worker, `edit` the requests that change a
rule, `sent` the emails. A quote's `seen` stands for its `quotedAt`.

| Code | Actions |
|---|---|
| `handleQuotesPoll`, `pollHeldAsset` | `PollTick`, `PollBegin`, `PollFresh`, `PollFetch`, `PollMiss`, `PollSend`, `PollFails`, `PollExpires` |
| on-demand lookup with forced refresh | `OnDemand` |
| `handleOpportunityEvaluate` → `runEvaluation` | `Deliver`, `Read` (rules, quotes, log; the activation flips), `Commit` (claims and observations), `TenantFails`, `Send`, `Ack` |
| `createRule`, `updateRule`, mute, `deleteRule` | `CreateRule`, `EditRead`, `EditWrite`, `DeleteRule` |
| trades, consent, quiet hours, cooldown | `Trade`, `Silence`, `CoolDown`, `Lapse` |

The session is open throughout: outside it nothing polls. One handler runs per queue
(`Deliver` allows one live pass); an expired one runs on beside its retry.

### 2.4 ValuationSnapshots

`ledger`, `closes`, `today` are the data, `snap` the cache of them, `edit` and `asked` the
web requests (a write under way; a rebuild committed for and not yet asked for), `queue` and
`active` pg-boss, `pass` the rebuilds in the worker. A snapshot is what it was computed
from: the rows held on its date and the date of the close carried forward to it, so two
snapshots are equal exactly when they were computed from the same data.

| Code | Actions |
|---|---|
| create, edit and delete actions (`transactions/actions.ts`) | `BeginEdit` (reads the row), `CommitEdit` |
| `requestSnapshotRebuild` | `Ask`, `AskLost` |
| `handleQuotesCloseCapture` | `CaptureClose` |
| `handleValuationSnapshot` → `rebuildTenant` | `ReadLedger`, `Compute`, `PersistBegin`, `PersistDelete`, `PersistCommit`, `TenantFails`, `Ack` |
| `earliestTradeDate`, `computeSnapshots`, `persistSnapshots` | `Covered`, `RebuildDays`, `Series`, `ValueOn`, `Invalidated` |
| `handleFixedIncomeAccrue` | `Deliver` of the `accrue` queue, which rebuilds from today |
| crons, pg-boss | `Nightly`, `AccrueTick`, `Deliver`, `ExpireLive`, `ExpireOrphan`, `Crash`, `NextDay` |

The second transaction of a rebuild is split where another can come between: the `DELETE`
takes the rows it finds when it starts (`sees`), waits for those another transaction has
deleted (`cut`), and does not see the rows that one then inserts; an `INSERT` waits for a
deleted key. The rows inserted stay invisible until `PersistCommit`. A trade date is never
after today, as `validate.ts` requires.

### 2.5 OfficialCloses

`close` and `gap` are `price_quotes` and `price_quote_gaps`; `sync` is the capture or
catch-up run, `fill` an import's fetch or an operator's backfill; `published` and `supply`
are B3. A close is its source (the former provider's, or official): the price itself is
told apart by nothing the properties say.

| Code | Actions and operators |
|---|---|
| `syncOfficialCloses`, statement by statement | `SyncPlan`, `SyncFound`, `SyncGap`, `SyncDelete`, `SyncUnavailable`; its caller's rebuild request, `SyncRebuild` |
| `catch-up-days.ts` | `Due`, `OldestLastClose`, `Missed`, `Kept`, `Window` |
| `fetchOfficialCloses` | `Annual`, `Unreadable`, `Verdict`, `Sorted` |
| `upsertClosePrice`, `recordGap`, `clearGap`, `everPricedBy` | `UpsertClosePrice`, `SyncGap`, `EverPricedBy` |
| `fetchClosesForDates` | `Covered`, `ImportFetches`, `FillWrite` |
| `backfillCloseGaps` | `BackfillFetches`, `FillWrite` |
| time, B3, users, failures | `Tick`, `Publish`, `Trade`, `Fault` |

What accounts for a missing day is recorded in `excused`. Three are rules of the code: the cap
on the window, an asset without any close, and a gap cleared because the asset was never
priced by then. Three are not, and `NoSilentHole` allows them all the same, because the code
does lose such days: a day a run had still to deal with when it was cut off (`MCClosesHole`),
the days owed to an asset when it is sold, and the days that an import's or backfill's write
leaves, of the asset it writes, between two that are known or asked for. The last are recorded
at the write and not when they come to lie before a close: an import may close a day before a
gap that is filled only later, and the days between the two are never asked for once the asset
is sold. Assumptions of the module: a run ends before half a day passes (`Tick` waits for it),
B3 publishes days in order, one sync runs at a time (one queue, one handler), and the order
between assets, whose rows are independent, is fixed. The backfill's own rebuild request, the
closes of Tesouro bonds and the syncs of indices are left out.

### 2.6 CarriedCosts

`ledger` is the transactions table by id (the order of `created_at, id`), `cache` the
positions table, `last` what the last write was, `touched` the positions it recalculated. A
price is in units of the last decimal its column keeps, a replayed total in finer units
(`Fine`), and `Stored` rounds the second to the first, as the column does. Each action is a
whole request, alone. `Storable` is the table's check that no price or basis is below zero
(`db/schema/transactions.ts:234-257`): the residue of `allocateLike` may be, by one unit, when
four targets or more share a cost of a few units, and then the database refuses the write.
That the legs of a group balance is checked in the database too, by a trigger; the model
leaves it out, so that `GroupsBalance` says the code never relies on it.

| Code | Actions and operators |
|---|---|
| `createTransaction`, `editTransaction`, `deleteTransaction`, `bulkDeleteTransactions` | `Create`, `Edit`, `Remove` |
| `createAssetConversionGroup`, `replaceAssetConversionGroup`, `deleteAssetConversionGroup` | `CreateGroup`, `ReplaceGroup`, `DeleteGroup`, `WithSourceEstimate` |
| `commitBatch` and `transfer-cost.ts` | `ImportBuy`, `ImportAgain`, `Carried` |
| `planCarriedLegUpdates`, `rederiveCarriedLegs` | `PlanCarriedLegUpdates`, `RederiveCarriedLegs`, `Round`, `TransferUpdates`, `ConversionUpdates` |
| `pairTransfers`, `resolveCarriedCosts` | `Sources`, `Siblings`, `Feeds`, `SourceBefore`, `ResolveCarriedCosts` |
| `rederiveConversionGroup`, `allocateLike` | `RederiveConversionGroup`, `Rederivable`, `Cut`, `AllocateLike` |
| `compareForReplay`, `replay`, `guardReplayable`, `recalculatePositionFrom` | `Before`, `Apply`, `Fold`, `Replayable`, `Recalculate` |

### 2.7 ImportReview

`row` and `counts` are a committed batch's tables, `copy` the transaction with each row's
key, `base` what the rest of its position adds up to, `report` and `posted` the Posicao
batches and the adjustments made from them; `req[p]` is the transaction of request `p`
between its reads and its writes, `lock` the tenant's import lock.

| Code | Actions |
|---|---|
| `classifyImportRow`: an open row, one set aside with a copy, one without | `ClassifyRead`, `ClassifyWrite` |
| `ignoreImportRow` | `IgnoreRead`, `IgnoreWrite` |
| `resolveSubscriptionOffer`, `keepSubscriptionClassification` | `OfferRead`, `OfferWrite` |
| a later `commitBatch` over the same rows: `planReclassifications`, `updateInPlace`, `markConversionOrigins`, `markSubscriptionOriginsIgnored`, `settleEarlierRefusals` | `CommitRead`, `CommitWrite` |
| `deleteTransaction`, `editTransaction`, other trades | `DeleteCopy`, `EditCopy`, `DeleteAdjustment`, `Trade` |
| the commit of a Posicao batch, `attributeCause` | `ReportCommit`, `Cause` |
| `acceptAdjustment`, `adjustmentBlocker` | `AcceptRead`, `AcceptWrite`, `Acceptable` |
| `recountBatch` | `Recount`, `Summary` |

All rows are on one position and move one share. What a later import makes of a row is any
of four readings (`Readings`), since the planners that decide it are pure. A request that
waits for the lock has not begun: what it reads, it reads once it has it.

## 3. What TLC checks

Run with `tlc -workers 2 -config X.cfg M` in this directory. "States" are distinct
states.

### Import

**MCImportCore** (1.11 M). Two extracts, the second repeating the first's row and adding one
equal to it; two handlers in flight; one retry; any two mishaps out of crash or failed commit,
expiry under a live handler, a forgotten job, refused rows, a cancel, a deletion. Two files
are enough for "the same occurrence twice" and two handlers for every overlap, since the
properties relate at most two batches or two runs; two mishaps reach crash-then-expire and
cancel-during-retry. `NoOverImport`: a batch brings in only rows of its file, and no
occurrence is brought in by two. `CommitsExclusive`: one commit at a time holds the tenant's
import lock. `TerminalStable`: without a cancel or an expiry, no redelivery moves a batch out
of `committed` or `failed`. `FileKept`: a batch whose staging was requested and that is not
finished has its file. `StagedOnce`: while no job expires under its handler, the staged rows
of a batch are those of one delivery. That they go with a discarded batch is not so
(`MCImportCancelRows`, below). `KeepsPromise`: the pipeline implements `ImportPromise`, in
which a batch enters the ledger whole, in one step, over nothing it or another batch already
brought in; every upload, delivery, retry, crash and cancel is a stutter of it.

**MCImportForms** (110 k, `FairSpec`). Four files in one upload; between them the movement
map learns a type, so rows stored under `k2` are now keyed `k1` (the shape of the key-form
migration), and the last file does not parse; one stored transaction may be deleted, or
one crash or failed commit happens. `NoSilentLoss`: a committed batch's rows are all in the
ledger over their key's forms. `StagedAboveStored`: an ordinal that staging calls new is
not stored. `UploadsSettle`: every job ends and the file of a committed or failed batch is
deleted. The number of mishaps does not exceed the retries (one, as in
`worker/queues.ts:71-86`): with more, a job that dead-letters after a crash may leave a
file behind.

**MCReview** (1.08 M). A subscription exercise, its credit, and a row left open, set aside
or refused; one Posicao report; any three requests. Answers and commits may overlap as far
as the lock they take lets them; the requests that take none, and the ledger's pages, come
alone, and their overlaps are in the table below. Three requests are an answer, what
disturbs it, and what reads the result; the rows of the instance are one of each kind the
code tells apart. `AnswersStand`: what the user last made of a row stands under every
commit. `RowsAgree`: a row's class and its copy's status agree, and a refused row is not in
the ledger. `CountsLagOnly`: the stored counts differ from the rows by the classifications
since the last recount, and by nothing else. `CommitDefers`: a commit changes no copy a
person has touched. `AcceptReaches`: accepting a difference brings the position to B3's
figure, however old the report.

### Ledger, positions, wallets

**MCTenantSerial** (248 k). One request at a time, any two operations, two institutions,
two dates, two wallets, from two purchases and any allocation of them. `SumInvariant`:
allocations fit in the holding. `CacheIsReplay`: every cached position is the replay of
the ledger, edits that move a row between institutions included. `LedgerReplayable`: no
date ends below zero. A share is 144 units, so that every proportion these ledgers lead to
is exact: this run is about the operations, `MCTenantRounding` about rounding.

**MCTenantWriters** (123 k, `FairSpec`). Two concurrent requests over the row locks they take,
in the three groups that are safe together: creations, edits, deletions and assignments;
allocations and assignments; and one for the rule, purchases with changes of the rule and
deletions of wallets. `KeepsWalletPromise`: they change the wallets as if each ran alone, at
its commit (`WalletPromise`), but for the rule a purchase read before it. `SumInvariant`:
allocations fit in the holding. `TxEnds`: every request ends, lock cycles included, because
Postgres aborts one of the cycle. A standing rule may be changed, or its wallet deleted, after
a purchase read it. The pairs left apart are the ones that fail, below. Two requests suffice
for every lock order the code has: each takes positions and allocations of one asset, and a
cycle of two covers both orders.

**MCCarried** (424 k). Any two writes over four imported ledgers: a transfer whose credit is
then converted, a conversion into two assets, shares sent both ways on one day, one side of
which moves on the next, and a round trip within one broker. Two assets at two institutions,
three days, quantities to three, two prices; nine ids leave room for the rows two writes can
add. Two writes are what one needs to disturb a figure and re-derive it; the chain has two
links, so a round after the first is needed. `Fine` is 12, so that halves, thirds and quarters
of a unit are kept apart. `CacheIsReplay`: every cached position is its replay, those of
re-derived legs included. `GroupsBalance`: a conversion makes no cost, to the last decimal.
`Settles`: re-derivation ends; none of these ledgers has a loop within one day, where it need
not (`MCCarriedLoop`, below). `CarriedReread`: after a user's write of rows, every carried
figure whose source moved, however far upstream, is that source's figure and marker of now. It
says nothing of the credits out of the recalculated positions that wait for one another within
a day, a swap, and of what these feed there (`Blocked`; `MCCarriedSwap`), nor of writes of
conversions (`MCCarriedWrites`). The swap is moved on the next day so that a write after it,
which re-derives what left one of its sides and not the other, is checked all the same.

### Opportunity watch

**MCWatch** (93 k, `FairSpec`). One rule on one asset, two prices, three quotes, one job, two
passes in flight, one retry (two in `worker/queues.ts`; one lets two mishaps exhaust it), any
two mishaps. `MailsMatchLog`: an email is sent at most once for a claim and only once the
claim is durable. `CrossingsClaimedOnce`: unless a job expires under its handler, a claim is a
change from the recorded state and its rule is not cooling down. `QuoteEvaluated`: every live
rule on a held asset that is priced intraday (`Intraday`; `polling-set.ts:15-35`) comes to
show the state its stored quote reads, even if the evaluation that should have followed the
quote was lost. Three quotes are needed for below–above–below, the shortest history in which
an old state returns. Rules of different assets share only the job; two rules on one asset are
forbidden by the code.

### Valuation snapshots

**MCSnapshots** (444 k states, `FairSpec`). One transaction on days 1 to 3, starting on day
2; two rebuilds in flight, one retry (three in `worker/queues.ts:87-88`; only an expiry or a
crash uses one, and one retry lets two of them exhaust it); two writes with one other event, or
one write with an expiry and one other. Three days tell a day before the ledger, one inside
it and today apart; two rebuilds are what an expiry, or the two queues, can run at once.
`SettledExact`: when all that was asked for has run, every stored snapshot is the
valuation of the ledger on its date, and only days begun since the start may be missing. It
covers crashes (as many as there are retries), redeliveries, captured closes and midnight; it
excludes what the code leaves to the night (a lost request, a failed or expired rebuild) and
the two cases of the table below. The days begun need not be missing from the end: a rebuild
writes from the date it is asked for, so after two midnights without a night's run, a request
from the second day leaves the first without a snapshot until the next night. Instances with
two midnights and with two transactions, too large to keep in the suite, were checked too,
with the inductive invariant of section 4 (0.7 and 0.8 M states).
`FinallyExact`: with all of them, the snapshots come to be the ledger's and stay so.

### Official closes

**MCCloses** (209 k, `FairSpec`). Two assets, three trading days and a closed one, a year's
end between; any closes of the former provider and gaps to start with; B3 supplies every
close, or lacks one asset's first, second or both; one mishap of any kind, or an outage with a
fault or a second outage. Two assets are needed for one to hide another's missing day, and a
window of two days (`CatchUpMax`) for the cap to bite. `NoSilentHole`: between runs, a day
with neither close nor gap, after an answer and before a later close of its asset, is one that
`excused` lists (section 2.5), so a run that ends loses none but by a rule of the code.
`RebuildAsked`: a run that ends by itself asked for the rebuild of every day it changed.
`FinallyAgreed`: the former provider's closes all go, and no day keeps both a close and a gap.
`FinallyAnswered`: each due day of a held asset comes to have an answer. With one asset and
five days, one and four with more mishaps, and two and four with fewer, the same invariants
and the inductive one of section 4 were checked too (2.7 to 4.2 M states each); they are not
kept as runs because the theorems cover them.

### Fairness

Each assumption is something the deployment does:

- a running process goes on executing (`WF` on handler steps, passes, requests, the
  saves of an upload). A crash is a mishap, not a stop: pg-boss' worker restarts;
- pg-boss delivers queued jobs in order, so a job that is deliverable again and again is
  delivered (`SF` on `Deliver`; weak fairness is not enough, because other jobs take the
  handler in between), and expires jobs that nobody runs (`WF` on `ExpireOrphan`);
- cron ticks while the session is open (`WF` on `PollTick`), and every night (`WF` on
  `Nightly`, which waits for an empty queue so that the queue stays bounded: a night's job
  behind others does what one sent after them does);
- the worker is started and the evening job scheduled for ever, a run in flight goes on, B3
  publishes each day in the end, and time passes (`WF` on `SyncPlan`, `Sync`, `FillWrite`,
  `Publish` and `Tick` of `OfficialCloses`; the days end at `MaxDay`, the runs do not);
- Postgres wakes lock waiters and aborts deadlocks (`WF` on `Step`).

No fairness is assumed of users, of providers answering, of an alert's time (`Lapse`,
`CoolDown`), or of the advisory lock's holder. `CHECK_DEADLOCK FALSE` is given everywhere because a
system whose users have stopped may stop.

### Disagreements with the repository's own statements

Three runs are expected to end in a violation; `PROJECT.json` has them as findings.

- **MCImportCancelRace** / `CancelWritesNothing`. `cancelBatch` reads the batch without
  the lock (`cancel-batch.ts:28`) and later writes its status (`:48`). A commit that
  finishes in between leaves a `discarded` batch whose transactions are in the ledger.
- **MCClosesHole** / `NoHole`. The comment at `sync-official-closes.ts:235` promises of the
  order of writes that no day is left with neither a close nor a gap. The closes of later
  days are written before the gaps of earlier ones: a run killed between leaves such a day,
  and no later window reaches back to it.
- **MCReviewAbsent** / `AbsentKept`. `adjustmentBlocker` refuses to accept a difference whose
  cause is that B3 does not list the position (`accept-adjustment.ts:64-78`: accepting zero
  "would post the whole holding away"), but `attributeCause` names an unclassified row before
  an absence (`reconcile.ts:91-92`), and then the acceptance goes through.

Further configurations, kept beside the suite, show states the code can reach and does not
exclude. Each ends in a counterexample:

| Configuration | Property | What it shows |
|---|---|---|
| `MCImportOverlap` | `NoUniqueViolation` | two overlapping extracts both staged before either commits: the second commit meets the unique constraint (`stage-batch.ts:486-491`), rolls back, and its retries meet it again |
| `MCImportCancelRows` with `FairSpec` and the property instead | `RawFileGoes` | the web process dies after a batch is discarded: nothing deletes its file later (`worker/handlers/import.ts:64-70`) |
| `MCImportCancelRows` | `CancelLeavesNoRows` | a staging commits between a cancellation's `DELETE` of the staged rows and its `UPDATE` of the batch (`cancel-batch.ts:48-50`): the batch ends discarded with the rows, although `cancel-batch.ts:9` says they are deleted |
| `MCTenantRounding` | `SumInvariant` | a holding shrinks to an odd number of units; two equal allocations are each rounded half up by the column and together exceed it by one |
| `MCTenantTwoSales` | `LedgerReplayable` | two concurrent sales of the same share both pass the replay guard (`guard-replayable.ts:35`), because neither takes a lock before it inserts |
| `MCTenantStaleHeld` | `SumInvariant` | `allocateToWallet` reads the holding before it locks (`allocate.ts:60-65`); a deletion commits in between |
| `MCTenantEmptied` | `SumInvariant` | the asset's last row is deleted and one bought again while an assignment is in flight: `lockForAsset` finds no position row to lock, and the comment that a position row exists whenever a race would matter (`wallet-repository.ts:128-133`) does not hold |
| `MCTenantStaleCache` | `CacheIsReplay` | two requests recalculate one position, each from a ledger without the other's row (`recalculate-from.ts:72-76`) |
| `MCTenantDropRace` | `LogAgrees` | a wallet is deleted while an allocation is added to it: deleted with no event, although the comment at `wallet-repository.ts:207-209` says no other writer can slip between the read and the delete |
| `MCTenantThirds` | `SaleFits` | a legal sale is refused, because a third of it, kept at full precision, does not fit (`apply-sell.ts:78-80`) |
| `MCSnapshotsAccrual` | `RequestsSuffice` | the accrual has a queue of its own: it reads the ledger before a write, and stores today's snapshot after the rebuild that write asked for (`handlers/valuation.ts:166`, `:231`). The next night repairs it |
| `MCSnapshotsOverlap` | `RequestsSuffice` | two changes of one row each ask for a rebuild from a date they read before the other committed (`edit-transaction.ts:206-208`); a day between keeps the value of the row that moved. The next night repairs it |
| `MCWatchDaily` | `CloseEvaluated` | the same promise for an asset priced once a day: the rule form accepts a Treasury bond, `opportunity-read-adapters.ts:57-68` reads its price, but only a poll enqueues an evaluation, and polls leave it out |
| `MCWatchMute` | `MuteKeepsBounds` | two edits of one rule: the mute writes back a threshold the other just replaced (`watch/actions.ts:137`) |
| `MCClosesHole` with `Bound <- Outages` | `NoHole` | two outages and no fault lead to the same hole as `MCClosesHole` |
| `MCClosesDebt` | `NoDebt` | a run killed after a write and before its rebuild request: the retry finds nothing changed and asks for none. The next night repairs the snapshots |
| `MCCarriedWrites` | `EveryWriteRereads` | the conversion pages do not re-derive what they change downstream, although `carried-legs.ts:26` speaks of every ledger write |
| `MCCarriedSwap` | `SwapKept` | a write that breaks one leg of a same-day swap re-derives the other, which `carried-legs.ts:85-91` says keeps its stored figure |
| `MCCarriedLoop` | `Settles` | shares leave A, are converted at B, come back and are converted again at A, all on one day: each figure reads the next, and the write of a new price halves the error every other round until the rounds run out and it fails. The comment that a change can only flow forward in time (`carried-legs.ts:85-91`) forgets that a credit replays before its day's conversions and a debit after them |
| `MCCarriedExact` | `NeverFalselyExact` | a conversion the user wrote stays "exact" when a later write moves an estimated purchase before it (`carried-legs.ts:61-65` says a leg left alone errs the other way) |
| `MCReviewCounts` | `CountsSayRows` | classifying an open row recounts nothing (`classify-row.ts`), so the batch goes on counting it as needing attention, where `ignore-row.ts:96-98` recounts |
| `MCReviewStuck` | `NoRowStuck` | an unclassified copy deleted in the ledger leaves its row in Needs attention with nothing to classify (`import-rows.ts:72`, `ON DELETE SET NULL`) |
| `MCReviewOffer` | `AnswersStand` | the settlement of a subscription takes no import lock: a commit that read before it writes its plan over the answer |
| `MCReviewAccept` | `AcceptReaches` | two acceptances of one report each read it open (`accept-adjustment.ts:112`), and the adjustment is posted twice |

Other things the modelling met:

- `run-evaluation.ts:220-224` speaks of a retry that recomputes. `handlers/opportunity.ts:206-214`
  catches a tenant's failure, so the job succeeds and only the next poll recomputes;
  `QuoteEvaluated` holds because it does.
- A pass that expired and runs on can claim a crossing its retry also claims, when a new
  quote came in between; hence the exclusion in `CrossingsClaimedOnce`.
- `handlers/valuation.ts:262-266` says pg-boss's retry and dead-letter policy makes a
  tenant's failure visible; the handler catches it and `registrations.ts:158-160` discards
  the summary, so the job completes (`TenantFails`) and only the next night tries again.
- `snapshot.ts:1061-1070` says a transaction write invalidates snapshots synchronously;
  `invalidateSnapshotsFrom` has no caller, and the old snapshots are read until the rebuild.
- `uploadExtracts` inserts all rows before it saves the first file, so a crash leaves
  later batches `pending` with neither file nor job (`import/actions.ts:113-132`).

## 4. What TLAPS proves

These results about the import pipeline hold for every set of batches, files, keys and their
forms, runs, retry limits and mishaps (`ImportBatchesProofs`):

- `TypeCorrect`: `Spec => []TypeOK`;
- `CommitsRunAlone`: `Spec => []CommitsExclusive`;
- `CommittedBatchNeverGrows`: `Spec =>` the action property `CommittedNeverGrows`: a retried
  or zombie commit adds nothing after `committed`;
- `NeverOverImported`: `Spec => []NoOverImport`;
- `ImportKeepsPromise`: `Spec => KeepsPromise`, the refinement of `ImportPromise`.

The assumptions are the module's own: copies are natural numbers, a key is one of its own
forms, `Free` is not a run, bounds are natural numbers. That batches and keys are finitely
many is used only where rows are counted, in the two results about occurrences below.
The argument:

- *Types* are inductive as they stand, one step per action.
- *Commits.* `CommitsExclusive` is not inductive: it says nothing of who holds the lock,
  nor of the batch a commit is working on. `CommitInv` adds that an execution inside a
  commit holds the lock, which makes two of them equal, and that its batch is not yet
  `committed`. The second half survives because a batch becomes `committed` only by
  `CommitApply`, whose executor holds the lock and so is the only one inside. With it, a
  batch that is committed has no execution that could add to it, which is the action
  property.
- *Rows.* `NoOverImport` alone does not exclude a staged row that is not the file's.
  `RowsInv` adds that staged rows, and the copies a handler holds, are rows of the file;
  disjointness follows from the insertion's guard, the unique constraint.
- *Refinement.* The abstract variables are `ledger` and the set of committed batches. From
  the invariants above, `CommitApply` is the abstract import, `DeleteTransaction` the
  abstract deletion, a cancel after a commit the abstract reopening, and every other step
  leaves both variables alone.

The rest of `ImportBatchesProofs` is about what the pipeline leaves behind:

- `RowsStagedOnce`: `Spec => []StagedOnce`: over crashes, retries and a cancellation that
  runs beside the staging, no extract is staged twice; a job that expires under its handler is
  excepted, because its second delivery does stage the rows again;
- `FileKeptWhileNeeded` and `TerminalStays`: `FileKept` and `TerminalStable`. Both are
  stated of behaviours without a cancel or a job that expires under its handler (`Calm`).

All three need that a job has at most one execution, and that one's job is active
(`AloneInv`, with `FreshInv` of the files still to be uploaded), which takes only that no job
expired (`Timely`). `StagedInv` adds that a staging that has read the batch pending will find
nothing staged, and that all staged rows carry the number of one delivery; a cancellation only
takes rows away. `LifeInv` says that while the behaviour is calm no cancel is part way, the
batches an upload in progress has still to send are pending (`UploadInv`), what an execution
read of its batch's status still holds (`StepInv`), and `FileKept`. `ParseInv`, which needs no calm,
says that only a file the parser accepts is staged and only one it rejects is failed. Of the
module's assumptions it uses one more: the files of one upload are distinct.

Two more results are about the occurrences a staging counts over the forms a key has had:

- `StagedAlwaysAbove`: `Spec => StagedAboveStored`: the ordinal `ExistingIs` gives a new row
  is above every stored one of the key, deleted transactions or not;
- `NothingLostSilently`: `Spec => []NoSilentLoss`. What a staging planned must still suffice
  when it is committed, over a ledger that other batches have added to. `LossInv` says so in
  a form that only grows: the stored rows of a key and the staged new ones *together* cover
  what the file has (`Covers`), which no import can undo, since a row that is staged and then
  brought in by another batch stays in the union (`StillCovers`). Why a fresh plan covers
  (`PlanCovers`) needs that, while nothing was deleted, a stored ordinal never exceeds the
  number of stored rows of its key (`Level`), so that the floor under the ordinals skips none.

`ImportReviewProofs` proves six results for any finite sets of rows and reports and any
exercises, requests, starts and bounds, under `LockedOverlaps`: only requests that take the
import lock (classifications, ignores and commits) overlap. A trade, a deletion in the ledger,
an answer to an offer, a report and an acceptance run alone. The first three are
`AnswersAlwaysStand`, `RowsAlwaysAgree` and `CommitsDefer`. Without it `AnswersStand` is false
(`MCReviewOffer`). The invariants are not inductive, because a write uses what its request
read. `ReviewInv` adds that at most one request runs and one that answers or commits holds the
lock (`OneRuns`), so that what a request planned is still so when it writes (`Plans`: a
commit's plan takes over only copies no person touched and keys that have no copy), and that
an answer leaves the mark of a person on the copy (`Touched`). `CommitWritesPlan` then says
what a commit makes of each row, and everything else follows row by row.

The other three, `TypeCorrect`, `CountsLagAlways` (`CountsLagOnly`) and `AcceptAlwaysReaches`
(`AcceptReaches`), count and add, and stand on a second invariant, `BooksInv`:

- `Tally`: the stored counts are the `Summary` of the rows as they were last recounted
  (`Stale`). A commit adds and subtracts instead of recounting; `MarkedTally` shows that what
  it adds is what it does to the classes, because the rows it marks were all open, and so
  counted as needing attention, and none of them is among those classified since;
- `Money`: the position is the sum of its other trades, the active copies and the adjustments
  posted, and is not negative. A commit's plan replays or gives up what does not: at the
  least it is the new increases on top of the position as it stands (`MovedMore`), which is
  why the last fallback needs no check of its own;
- `Serving`: what a request read still holds when it writes (`Sound`): the row it classifies
  is open, the plan it commits replays, the difference it accepts still measures the
  position. So the adjustment moves the position by exactly what is missing (`OnePosted`),
  which is `AcceptReaches`: however much has happened since the report, but nothing while the
  acceptance runs. Two acceptances at once are where it fails (`MCReviewAccept`); what
  a trade or a commit does to one that overlaps it, neither the run nor the theorem says.

`CarriedCostsProofs` proves five results for any assets, institutions, dates, figures and
imported ledgers.

`CacheAlwaysReplay`: `Spec => []CacheIsReplay`. A write replays the positions it touches;
what must be shown is that every row it changes, re-derived legs included, sits before and
after in a position it touches, so that the others replay as before. Of a write's own rows
this is plain; of a re-derived leg it is that a plan's changed rows lie in its dirty positions
(`Tracks`), which are the ones recalculated. A leg changes its figures and never its position
(`Rewritten`), so this holds whatever figures are computed.

`TypeCorrect` and `GroupsAlwaysBalance` (`Spec => []TypeOK`, `Spec => []GroupsBalance`) are
about what is computed. Replays, the resolution of carries and the rounds of a plan are
recursive functions, so it must first be shown that each exists (`FoldsExist` and `StepsExist`
of `Sums`), and then that it stays where one step stays (`FoldsStay`, `StepsStay`):

- a replay's step keeps whole figures whole and the quantity not negative (`ApplyTyped`), and,
  over rows the table stores, keeps the shares held worth no more at the average than they
  cost (`Sound`, `ApplySound`), which is why neither cost nor average falls below zero;
- a resolution gives whole figures to credits, which are no group's legs (`ResolvedTyped`,
  `TransfersBalance`);
- a re-derived group takes out what its shares add up to, whatever was rounded
  (`SharesSum`, `RederivedBalances`), and groups re-derived at once share no leg
  (`ConversionUpdatesKeep`); so a round keeps the balance of every group (`RoundPlans`), and
  any number of them does (`RederivedPlans`).

`CarriedAlwaysReread` (`Spec => CarriedReread`) is the promise of re-derivation itself: after
any row a user creates, edits or deletes, each carried credit and each imported conversion
whose source moved, however many legs upstream, holds the figure and the marker its source
gives it now. It says nothing of the credits `Blocked` names: those out of the recalculated
positions (`touched`) that wait for one another on one day, and those that wait for these.
`resolveCarriedCosts` never unblocks them, and they do not simply keep their figures:
`planCarriedLegUpdates` takes only the legs with a dirty source, so that in a first round one
leg of a swap may be alone, be re-derived, and leave the other stale (`MCCarriedSwap`). Nor is
it about writes of conversions (`MCCarriedWrites`). The argument does not follow the change
leg by leg. It looks at where a plan ends:

- a plan that is saved ended with a round that changed nothing (`PlanRests`), and its dirty
  positions hold the seeds and every row it moved (`Tracks`);
- at that ledger every leg fed from a dirty position was read off the ledger as it is, after
  every leg that feeds it, or waits for another that waits (`SettledFigures`): a resolution of
  n legs makes n passes, and one that settles none is followed by none that does
  (`SettlingGrows`); so its figure is the source's (`TransfersRest`, `ConversionsRest`);
- a position that is not dirty lists the rows it listed before the write (`Unmoved`), and what
  a debit there could send depends on those rows alone (`SameBefore`), the legs of a round trip
  included: `pairTransfers` pairs several alike only when all of them sit in one position
  (`TripIs`); so a source that moved sits in a dirty position (`RestReread`).

`TransfersAlwaysSettle` (`Spec /\ UsersGroups(ledger) => []Settles`): where every conversion of
the imported ledger is one the user wrote, no write of a row fails because its carried figures
do not settle, however the transfers chain, cross on one day, make round trips or go in
circles. `RederiveCarriedLegs` allows one round more than there are rows, and the proof has to
show that this is enough:

- once the figures of a resolution are stored, the same legs resolve to the same figures
  (`ResolvedAgain`): pass by pass, a leg reads the settled figures as they are now stored and
  never one that still waits, and a leg that keeps its own keeps what storing gave back
  (`StoredBack`). So a pass over the transfers leaves nothing for another over the same
  positions (`TransfersSettle`);
- a round that leaves something has therefore dirtied a position more, in which one of the
  credits it re-derived sits, and no round had reached that credit (`RoundReaches`);
- there are fewer credits than rows, because a credit that is carried has a debit
  (`SeenFewer`), so the rounds run out of credits first (`RoundsEnd`);
- no write makes a conversion import's, so the condition on the first ledger stays
  (`UsersGroups`; `RowWriteSettles`, `OtherWritesKeep`), and the user's are never re-derived
  (`NoConversions`).

The condition cannot just be dropped: `MCCarriedLoop` starts from an imported conversion that
feeds itself, and a write fails.

The figures of a plan may be negative before they are stored, so a plan's ledgers are `Draft`s
of `Wide` rows. The assumptions are the module's: figures are natural numbers, and an imported
ledger has rows of its type whose groups balance (`StartsBalance`; `targetAllocations` in
`asset-conversion-resolution.ts` gives the residue to a target as `allocateLike` does).

`TenantWritesProofs` proves seven results about concurrent requests on one asset, for any
number of them and any rows, institutions, dates, amounts, wallets and loads. What a request
holds and reads is one invariant, `Shape`, from which `TypeCorrect`: `Spec => []TypeOK`. The
point of it is that quantities are naturals: a position is the replay of a ledger that was
just found `Replayable`, whose last date is the whole of it, and no reduction goes below zero.

`SumHolds` and `SumNearlyHolds` are the central promise, that allocations fit in the holding
(`SumInvariant`), for requests that overlap in any way, row locks and lock cycles included.
They hold under what they name and, as the runs in brackets show, only so: some institution
keeps a position row (`MCTenantEmptied`); no allocation goes by a holding that has shrunk
since it was read, `HeldFresh` (`MCTenantStaleHeld`); and, for `SumHolds`, the proportional
reductions come out whole, `Exact` (`MCTenantRounding`). Without `Exact` the excess stays
within half of the last stored decimal per wallet: a later reduction scales an earlier excess
down with the rest, so rounding never adds up. The argument: the position row that is kept is
locked first by all who allocate or reduce (`LocksInv`), so one request at a time is past the
locks (`OneLocks`); that one has locked every allocation there is (`SeesAll`) and what it
takes for held is still so (`HeldStands`); hence the total it computes is the total its commit
leaves (`CommitBounded`).

`WalletsActAlone` (`Spec => KeepsWalletPromise`, the refinement of `WalletPromise`) is the
stronger statement of the same locks, under the first two of those conditions: not only the
total but each wallet's share, and which wallet a purchase follows, is what the same request
alone would have made of what is held and allocated when it commits, given the standing rule
it read earlier; rounding is part of the promise, so `Exact` is not needed. `LockedIsAll` is
the bridge: what the request past the locks has locked is every allocation there is.
`WriterAlone`, `AllocatorAlone` and `DropAlone` then take the kinds of commit one by one.
`AloneInv` adds to the locks' invariants what they do not say: an assignment adds no more than
was bought (`Clamped`, which survives the second reading in `Relock`), and only wallets that
exist hold anything (`Owned`), so that the deletion of one already deleted changes nothing.
The two conditions are those the runs show (`MCTenantEmptied`, `MCTenantStaleHeld`): in both,
`KeepsWalletPromise` fails with the sum.

`LogFollows`: the event log agrees with the allocations (`LogAgrees`) while no wallet is
deleted beside a request that locked none of the allocation it adds (`DropsApart`;
`MCTenantDropRace` is that overlap). No run of the suite checks it: where deletions are kept
apart it is a matter of bookkeeping, and where they are not it is false.

`CacheFollows` and `LedgerReplays`: under `Apart`, `CacheIsReplay`
and `LedgerReplayable` always hold. `Apart` says that no two requests that write
the ledger touch one position while both are in flight; what else runs at once is free.
Without it `CacheIsReplay` is false (`MCTenantStaleCache`; `recalculate-from.ts:78`), so the
theorems say that this overlap is the only way to it. A request reads committed state between
its own statements, so each of its steps must stay right while others commit: `WriterOK` says
that a writer still finds its row as it found it, and that each position it touches is either
still to be replayed or replayed as the ledger it will leave (`New`) does, by value and by
feasibility, which is what makes an unguarded deletion safe. When another writer commits,
`ApartWriters` shows the two have different rows (a created row has an id of its own; an edited
or deleted one is in a position, and positions are apart), and `OthersKept` that `New` of the
one still in flight replays as before where it matters, because a replay looks at the rows of
its position only (`ReplayAlike`).

`Sums` has what these proofs say of `SumFunctionOnSet`, the community modules' fold: its
recursive definition is well founded (`SumPick`), so a sum over a finite set takes its
elements in any order, and every further lemma goes by induction on subsets. The library's
induction theorems take an operator as a parameter, which the installed provers cannot
instantiate; `SubsetInduction` takes instead the set of the subsets for which the statement
holds, which says as much of a finite set.

`OpportunityWatchProofs` proves three results for any assets, rules, shapes of rules, jobs,
passes, editors and mishaps, overlapping passes included:

- `TypeCorrect`: `Spec => []TypeOK`;
- `NoEmailTwice`: `Spec => []MailsMatchLog`. `MailsWon` adds that a mail a pass has yet to
  send is unsent, is logged (or its rule is gone, and ids do not come back), and belongs to
  no other pass. A claim whose insert lands is in no log and of a live rule (`WonIsNew`), so
  nobody has sent it or is about to: this is where the unique key and the foreign key of
  `opportunity_notifications` are used, and commit-then-send;
- `CrossingsOnce`: `Spec => CrossingsClaimedOnce`. While no job expired under its handler,
  one pass runs at a time (`OneAtATime`) and what it read of the rules it will email about
  still holds at its commit (`StillCrossing`), because nothing but a commit records a state
  or starts a cooldown.

They assume that there is a rule and a job, and otherwise what the constants' types say.

`OfficialClosesProofs` proves three results for any assets, days, supplies, limits and bounds:

- `TypeCorrect`: `Spec => []TypeOK`;
- `RebuildAlwaysAsked`: `Spec => []RebuildAsked`. Until a fault, what is owed a rebuild is
  among what the run in progress changed (`DebtInv`), and the request is from the least of those;
- `NoCloseLostSilently`: `Spec => []NoSilentHole`, with the exceptions section 2.5 lists; a
  run cut off accounts for the days it had still to deal with, and for no other. The property
  speaks of the time between runs; the invariant must speak of every statement of a run, so it
  counts a day a run has still to deal with as seen (`Seen`, `CloseSeen`, `GapSeen`).
  `SkipInv`: a day skipped between one seen and a close seen is asked for, or excused. A plan
  keeps it because the window starts at the oldest last close of the assets held, so that a
  day it leaves out either has a later close of its own asset, and was skipped before, or is
  left out by a rule; this is where a window from the newest close fails (the mutant of this
  property). A gap may turn into a close later: for assets not held, whose earlier days nobody
  asks for, `GapInv` says that those days are excused already, and `SoldInv` that a sale in
  mid-run excused all of them. `AnswersInv` holds what these need of a run: it deals with each
  pair once, what it found is in the files and what it did not find is not (so that no fill
  clears the gap of a close about to be deleted), closes are of published days, gaps of due
  ones, and the gap comes before the delete. Most steps only shrink what is seen, and are one
  lemma (`Shrinks`).

The assumptions used are the module's: days are positive, those B3 opens are among them,
and what it supplies is of those. It was in proving this that the case of section 2.5, a
fill before a gap, came to light; `MCCloses` is too small for it.

`ValuationSnapshotsProofs` proves two results for any transactions, requests, rebuilds in
flight, days, retries and bounds:

- `TypeCorrect`: `Spec => []TypeOK`. It needs that a change changes something (`Changing`),
  or `StaleFrom` would have no date to return, that jobs ask for days that have begun
  (`BegunJobs`), and that a waiting `DELETE` has deleted nothing (`Waiting`);
- `RebuildsSuffice`: `Spec => []SettledExact`. `SettledExact` speaks of rest; the invariant
  must speak of every moment. `Fresh` says of each day that a rebuild of it has still to read
  the ledger (`Pending`: a date committed and not yet asked for, a queued job, a job handed
  out whose rebuild has not read), or that what will be stored is right: the rows a rebuild
  holds where it will write, the snapshot itself elsewhere (`Sound`). A write makes
  exactly the days from `StaleFrom` pending; where the new date alone counts, the days between
  the two are neither, and that is the mutant. A rebuild that reads makes its days right; a
  crash makes them pending again, because the job is still handed out and has a retry left
  (`RetryLeft`: a job was tried no more often than the worker died). `OneRebuild` and
  `OneChange` say that nothing runs beside a rebuild or a change, which calm gives: nothing
  expires under its handler, and the accrual is away. At rest nothing is pending or in
  flight, and `Fresh` is `SettledExact`.

The assumptions are the module's: there is a transaction, the capture is not an editor, days
and bounds are natural numbers. The proof showed an earlier form of the property, in which
only the days after the last snapshot could be missing, to hold in the run for want of a second
midnight.

What is only model-checked: liveness (the prover does not reach it), and `Settles` of
`CarriedCosts` on ledgers with imported conversions (`MCCarried`): for all of them it is no
theorem, as `MCCarriedLoop` shows.

## 5. What is not modelled, and the plan

Left out for good: extract parsing, configuration, identity, reports (pure or read-only);
accrual arithmetic; row-level security; the text of emails; logging.

Left out of the modules that exist:

- `CarriedCosts`: rows that are unclassified or superseded, rows without an institution,
  fees and realized gains, splits, bonuses, amortizations and adjustments, the import of new
  conversions, transfers whose trip is broken or whose debit is held back, and concurrent
  writes, which are `TenantWrites`' subject;
- `ImportReview`: prices, rows on several positions, wallets reconciled after an answer, and
  the settlements of transfers, conversions and corporate events, which end in the same
  writes as the answers modelled but have planners of their own;
- `OfficialCloses`: what is listed in 2.5.

Next, in this order:

1. **Account deletion.** Request, cancellation by signing in, the sweep and the purge.
2. **Quote budget and cadence**, splitting fetch from store in `OpportunityWatch`.
3. **Targets, goals, worker alerting**, the rate limiter.
4. **Transfer and conversion answers**, over `CarriedCosts`.
5. **Proofs**: a condition on imported conversions under which `Settles` still holds. That no
   figure feeds itself may not be enough: a conversion re-derived late can move a figure that
   an earlier round had settled, and no bound on the rounds was found for that case.
