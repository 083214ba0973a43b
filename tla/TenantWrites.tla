---------------------------- MODULE TenantWrites ----------------------------
(***************************************************************************)
(* The writes of one tenant to one asset: transactions are created, edited  *)
(* and deleted, each recalculating the cached positions it touches; wallets *)
(* are allocated shares of the holding, follow it when it changes, and are  *)
(* deleted.  Every operation is one database transaction (READ COMMITTED)   *)
(* of a server action, and several run at once.                             *)
(*                                                                          *)
(* A transaction reads what others have committed and what it wrote itself. *)
(* Its writes reach the tables when it commits, in the step that also does  *)
(* its allocation writes; until then it holds the row locks it took.  It is *)
(* split where it reads something another transaction may change, and where *)
(* it waits for a lock.                                                     *)
(*                                                                          *)
(* Quantities are in units of the last decimal NUMERIC(20,8) keeps.         *)
(*                                                                          *)
(* Source: core/ledger/{create,edit,delete}-transaction.ts, guard-replayable *)
(* and recalculate-from.ts; core/wallets/{allocate,assign-transactions,     *)
(* apply-ledger-effects,apply-buy,apply-sell,reconcile-allocations,         *)
(* delete-wallet,standing-rule}.ts; adapters/db/wallet-repository.ts.       *)
(***************************************************************************)
EXTENDS Integers, Sequences, FiniteSets, Functions

CONSTANTS
    Procs,      \* server-action requests that may run at once
    Ids,        \* transaction ids
    Insts,      \* institutions; with the asset, the key of a position
    Dates,      \* trade dates
    Amounts,    \* signed quantities of a row: positive buys, negative sells
    Wallets,    \* wallet ids, in their sort order
    Adds,       \* quantities a user may add to a wallet
    Loads,      \* the numbers of operations of each kind a behaviour may reach
    Starts,     \* ledgers to start from
    NoRow,      \* no such row
    NoWallet    \* no wallet

Row == [inst : Insts, date : Dates, qty : Amounts]
OpNames == {"create", "edit", "delete", "allocate", "assign", "drop", "rule"}

ASSUME AmountsAssumption == Amounts \subseteq Int \ {0} /\ Dates \subseteq Nat
ASSUME WalletsAssumption == Wallets \subseteq Nat /\ Adds \subseteq Nat \ {0} /\ NoWallet \notin Wallets \cup {NoRow}
ASSUME RowsAssumption == NoRow \notin Row /\ NoRow \notin Int /\ Starts \subseteq [Ids -> Row \cup {NoRow}] /\ Ids # {}
ASSUME LoadsAssumption == Loads \subseteq [OpNames -> Nat]
ASSUME FiniteAssumption == IsFiniteSet(Ids) /\ IsFiniteSet(Insts) /\ IsFiniteSet(Wallets)

VARIABLES
    ledger,   \* transactions of the asset
    pos,      \* positions.quantity of each institution, the replay cache
    alloc,    \* wallet_allocations.quantity; 0 is no row
    log,      \* quantity in the last wallet_allocation_events row; 0 if none
    wallets,  \* wallets that exist
    rule,     \* the asset's standing rule
    holds,    \* row locks of each process's transaction
    tx,       \* where that transaction is, and what it has read and written
    done      \* operations begun, of each kind

db   == <<ledger, pos, alloc, log, wallets, rule>>
vars == <<db, holds, tx, done>>

Lock == ({"tx"} \X Ids) \cup ({"pos"} \X Insts) \cup ({"alloc"} \X Wallets)
TxLock(t)    == <<"tx", t>>
PosLock(i)   == <<"pos", i>>
AllocLock(w) == <<"alloc", w>>

\* What the user asked for: `id` and `row` for the ledger, `wallet` and `add`
\* for the wallets; `add` = 0 allocates everything unassigned.
Command == [op : OpNames, id : Ids, row : Row \cup {NoRow},
            wallet : Wallets \cup {NoWallet}, add : Adds \cup {0}]

Pcs == {"idle", "write", "read", "cache", "lock", "drop", "positions", "allocations", "clamped"}

Overlay(f, g) == [x \in DOMAIN g |-> IF x \in DOMAIN f THEN f[x] ELSE g[x]]
Nothing == [x \in {} |-> 0]

NoCommand == [op |-> "rule", id |-> CHOOSE t \in Ids : TRUE, row |-> NoRow,
              wallet |-> NoWallet, add |-> 0]
Idle == [pc |-> "idle", cmd |-> NoCommand, todo |-> <<>>, value |-> NoRow, held |-> 0,
         rule |-> NoRow, seen |-> {}, want |-> {}, rows |-> Nothing, cached |-> Nothing]

Total(f, S) == SumFunctionOnSet(f, S)

-----------------------------------------------------------------------------
(* Replay: on one date purchases come before sales, so a ledger replays when *)
(* no date ends below zero.                                                  *)

RowsAt(L, i) == {t \in Ids : L[t] # NoRow /\ L[t].inst = i}
Moves(L, S) == [t \in S |-> L[t].qty]
NetOf(L, S) == Total(Moves(L, S), S)
Net(L, i, d) == NetOf(L, {t \in RowsAt(L, i) : L[t].date <= d})

\* Faulty variant: only what is held in the end is compared.
ReplayableToday(L, i) == NetOf(L, RowsAt(L, i)) >= 0

Replayable(L, i) == \A d \in Dates : Net(L, i, d) >= 0
Replay(L, i) == IF RowsAt(L, i) = {} THEN NoRow ELSE NetOf(L, RowsAt(L, i))

Quantity(q) == IF q = NoRow THEN 0 ELSE q
HeldOf(cache) == Total([i \in Insts |-> Quantity(cache[i])], Insts)

TypeOK ==
    /\ ledger \in [Ids -> Row \cup {NoRow}]
    /\ pos \in [Insts -> Nat \cup {NoRow}]
    /\ alloc \in [Wallets -> Nat]
    /\ log \in [Wallets -> Nat]
    /\ wallets \in SUBSET Wallets
    /\ rule \in wallets \cup {NoWallet}
    /\ holds \in [Procs -> SUBSET Lock]
    /\ done \in [OpNames -> Nat]
    /\ \A p \in Procs :
         /\ tx[p].pc \in Pcs
         /\ tx[p].cmd \in Command
         /\ tx[p].todo \in Seq(Insts)
         /\ tx[p].value \in Nat \cup {NoRow}
         /\ tx[p].held \in Nat
         /\ tx[p].rule \in Wallets \cup {NoWallet, NoRow}
         /\ tx[p].seen \in SUBSET Wallets
         /\ tx[p].want \in SUBSET Lock
         /\ DOMAIN tx[p].rows \subseteq Ids /\ DOMAIN tx[p].cached \subseteq Insts
         /\ tx[p].rows \in [DOMAIN tx[p].rows -> Row \cup {NoRow}]
         /\ tx[p].cached \in [DOMAIN tx[p].cached -> Nat \cup {NoRow}]

\* Any ledger that replays, with its cache, and any allocation within it.
Init ==
    /\ ledger \in {L \in Starts : \A i \in Insts : Replayable(L, i)}
    /\ pos = [i \in Insts |-> Replay(ledger, i)]
    /\ alloc \in {a \in [Wallets -> {0} \cup Adds] : Total(a, Wallets) <= HeldOf(pos)}
    /\ log = alloc
    /\ wallets = Wallets
    /\ rule = NoWallet
    /\ holds = [p \in Procs |-> {}]
    /\ tx = [p \in Procs |-> Idle]
    /\ done = [op \in OpNames |-> 0]

-----------------------------------------------------------------------------
(* What the transaction of p sees, and the locks it waits for. *)

Ledger(p) == Overlay(tx[p].rows, ledger)
Cache(p)  == Overlay(tx[p].cached, pos)
Held(p)   == HeldOf(Cache(p))
Locked(p) == {w \in tx[p].seen : alloc[w] > 0}
Allocated(p) == Total(alloc, Locked(p))
Slice(p, w) == IF w \in Locked(p) THEN alloc[w] ELSE 0

Others(p) == UNION {holds[q] : q \in Procs \ {p}}

Goto(p, pc) == tx' = [tx EXCEPT ![p].pc = pc]

-----------------------------------------------------------------------------
(* Begin: what the operation reads before it writes or locks anything. *)

Load(op) ==
    /\ done' = [done EXCEPT ![op] = @ + 1]
    /\ done' \in Loads

Start(p, cmd, step) ==
    /\ tx[p].pc = "idle"
    /\ Load(cmd.op)
    /\ tx' = [tx EXCEPT ![p] = step]
    /\ UNCHANGED <<db, holds>>

Put(L, t, row) == [L EXCEPT ![t] = row]

\* createTransaction: guardReplayable on the row's position.  A sale may name
\* the wallet it came from.
BeginCreate(p, t, row, w) ==
    /\ ledger[t] = NoRow
    /\ \A q \in Procs : tx[q].pc = "idle" \/ tx[q].cmd.id # t
    /\ w # NoWallet => row.qty < 0
    /\ Replayable(Put(ledger, t, row), row.inst)
    /\ LET cmd == [NoCommand EXCEPT !.op = "create", !.id = t, !.row = row, !.wallet = w] IN
       Start(p, cmd, [Idle EXCEPT !.pc = "write", !.cmd = cmd, !.todo = <<row.inst>>])

\* Faulty variant: the position an edited row leaves is not recalculated.
ScopesTarget(old, new) == <<new.inst>>

\* The positions an edit touches, the row's new one first.
Scopes(old, new) == IF old.inst = new.inst THEN <<new.inst>> ELSE <<new.inst, old.inst>>

\* editTransactions: both positions must replay.  The row is read once more,
\* and the ledger once for each position, between the first read and the write;
\* they are one read here.
BeginEdit(p, t, row) ==
    /\ ledger[t] \notin {NoRow, row}
    /\ LET scopes == Scopes(ledger[t], row)
           cmd == [NoCommand EXCEPT !.op = "edit", !.id = t, !.row = row] IN
       /\ \A n \in DOMAIN scopes : Replayable(Put(ledger, t, row), scopes[n])
       /\ Start(p, cmd, [Idle EXCEPT !.pc = "write", !.cmd = cmd, !.todo = scopes])

\* deleteTransaction guards only the carried legs: it is the recalculation
\* that refuses a ledger that no longer replays.
BeginDelete(p, t) ==
    /\ ledger[t] # NoRow
    /\ LET cmd == [NoCommand EXCEPT !.op = "delete", !.id = t] IN
       Start(p, cmd, [Idle EXCEPT !.pc = "write", !.cmd = cmd, !.todo = <<ledger[t].inst>>])

\* allocateToWallet reads what is held, and only then locks.
BeginAllocate(p, w, q) ==
    /\ w \in wallets
    /\ LET cmd == [NoCommand EXCEPT !.op = "allocate", !.wallet = w, !.add = q] IN
       Start(p, cmd, [Idle EXCEPT !.pc = "lock", !.cmd = cmd, !.held = Held(p)])

\* assignTransactionsToWallet of one selected purchase.
BeginAssign(p, w, t) ==
    /\ w \in wallets
    /\ ledger[t] # NoRow
    /\ ledger[t].qty > 0
    /\ LET cmd == [NoCommand EXCEPT !.op = "assign", !.wallet = w, !.row = ledger[t]] IN
       Start(p, cmd, [Idle EXCEPT !.pc = "lock", !.cmd = cmd])

\* deleteWallet; deleteForWallet first reads the allocations it will log.
BeginDrop(p, w) ==
    /\ w \in wallets
    /\ LET cmd == [NoCommand EXCEPT !.op = "drop", !.wallet = w] IN
       Start(p, cmd, [Idle EXCEPT !.pc = "drop", !.cmd = cmd,
                                  !.seen = IF alloc[w] > 0 THEN {w} ELSE {}])

\* setStandingRule and clearStandingRule write one row and commit.
SetRule(w) ==
    /\ Load("rule")
    /\ w \in wallets \cup {NoWallet}
    /\ rule' = w
    /\ UNCHANGED <<ledger, pos, alloc, log, wallets, holds, tx>>

-----------------------------------------------------------------------------
(* The ledger write and the recalculation *)

\* Faulty variant: a refused transaction keeps its locks.
RollbackKeepsLocks(p) ==
    /\ tx' = [tx EXCEPT ![p] = Idle]
    /\ UNCHANGED <<db, holds, done>>

Rollback(p) ==
    /\ tx' = [tx EXCEPT ![p] = Idle]
    /\ holds' = [holds EXCEPT ![p] = {}]
    /\ UNCHANGED <<db, done>>

Take(p, k) ==
    /\ k \notin Others(p)
    /\ holds' = [holds EXCEPT ![p] = @ \cup {k}]

\* An insert waits for nobody; an update or a delete waits for the row, and
\* does nothing when it has gone.
Write(p) ==
    LET t == tx[p].cmd.id
        row == IF tx[p].cmd.op = "delete" THEN NoRow ELSE tx[p].cmd.row
        gone == tx[p].cmd.op # "create" /\ ledger[t] = NoRow IN
    /\ tx[p].pc = "write"
    /\ IF tx[p].cmd.op = "create" \/ gone THEN UNCHANGED holds ELSE Take(p, TxLock(t))
    /\ tx' = [tx EXCEPT ![p].pc = "read",
                        ![p].rows = IF gone THEN @ ELSE [x \in {t} |-> row]]
    /\ UNCHANGED <<db, done>>

\* recalculatePositionFrom: replay what is stored, then write the cache.
RecalcRead(p) ==
    LET i == Head(tx[p].todo) IN
    /\ tx[p].pc = "read"
    /\ Replayable(Ledger(p), i)
    /\ tx' = [tx EXCEPT ![p].pc = "cache", ![p].value = Replay(Ledger(p), i)]
    /\ UNCHANGED <<db, holds, done>>

RecalcRefused(p) ==
    /\ tx[p].pc = "read"
    /\ ~Replayable(Ledger(p), Head(tx[p].todo))
    /\ Rollback(p)

\* An upsert waits on the key; a delete only for a row it can see, and without
\* one it deletes nothing.
CacheLocks(p) ==
    LET i == Head(tx[p].todo) IN
    IF tx[p].value = NoRow /\ pos[i] = NoRow THEN {} ELSE {PosLock(i)}

RecalcWrite(p) ==
    LET i == Head(tx[p].todo) IN
    /\ tx[p].pc = "cache"
    /\ CacheLocks(p) \cap Others(p) = {}
    /\ holds' = [holds EXCEPT ![p] = @ \cup CacheLocks(p)]
    /\ tx' = [tx EXCEPT ![p].pc = IF Len(tx[p].todo) = 1 THEN "lock" ELSE "read",
                        ![p].todo = Tail(@),
                        ![p].value = NoRow,
                        ![p].cached =
                            IF CacheLocks(p) = {} THEN @
                            ELSE [x \in DOMAIN @ \cup {i} |->
                                     IF x = i THEN tx[p].value ELSE @[x]]]
    /\ UNCHANGED <<db, done>>

-----------------------------------------------------------------------------
(* lockForAsset: the rows each of its two statements finds when it starts are *)
(* locked one by one, waiting for whoever has them.                          *)

\* Faulty variant: the lock on the positions is not taken.
LockPositionsSkipped(p) ==
    /\ tx[p].pc = "lock"
    /\ tx' = [tx EXCEPT ![p].pc = "positions"]
    /\ UNCHANGED <<db, holds, done>>

LockPositions(p) ==
    /\ tx[p].pc = "lock"
    /\ tx' = [tx EXCEPT ![p].pc = "positions",
                        ![p].want = {PosLock(i) : i \in {j \in Insts : Cache(p)[j] # NoRow}}]
    /\ UNCHANGED <<db, holds, done>>

LockAllocations(p) ==
    LET rows == {w \in Wallets : alloc[w] > 0} IN
    /\ tx[p].pc = "positions"
    /\ tx[p].want \subseteq holds[p]
    /\ tx' = [tx EXCEPT ![p].pc = "allocations", ![p].seen = rows,
                        ![p].want = {AllocLock(w) : w \in rows}]
    /\ UNCHANGED <<db, holds, done>>

\* deleteForWallet's DELETE.
LockDropped(p) ==
    LET w == tx[p].cmd.wallet IN
    /\ tx[p].pc = "drop"
    /\ tx' = [tx EXCEPT ![p].pc = "allocations",
                        ![p].want = IF alloc[w] > 0 THEN {AllocLock(w)} ELSE {}]
    /\ UNCHANGED <<db, holds, done>>

Stored(k) == \/ \E i \in Insts : k = PosLock(i) /\ pos[i] # NoRow
             \/ \E w \in Wallets : k = AllocLock(w) /\ alloc[w] > 0

\* A row that was deleted meanwhile is passed over.
TakeWanted(p) ==
    /\ tx[p].pc \in {"positions", "allocations"}
    /\ \E k \in tx[p].want \ holds[p] :
         IF Stored(k) THEN Take(p, k) /\ UNCHANGED tx
         ELSE /\ k \notin Others(p)
              /\ tx' = [tx EXCEPT ![p].want = @ \ {k}]
              /\ UNCHANGED holds
    /\ UNCHANGED <<db, done>>

-----------------------------------------------------------------------------
(* The allocation writes.  A change maps wallets to their new quantities. *)

\* Faulty variant: a sale larger than what is allocated is not capped.
ReducedUncapped(p, sold) ==
    LET total == Allocated(p) IN
    IF total = 0 THEN Nothing
    ELSE [w \in Locked(p) |-> (2 * alloc[w] * (total - sold) + total) \div (2 * total)]

\* applyProportionalSell: each wallet keeps its share of what remains.  The
\* computed quantities have 40 digits and add up exactly; the column rounds
\* each of them half up.
Reduced(p, sold) ==
    LET total == Allocated(p)
        keep  == IF sold > total THEN 0 ELSE total - sold IN
    IF total = 0 THEN Nothing
    ELSE [w \in Locked(p) |-> (2 * alloc[w] * keep + total) \div (2 * total)]

\* wallet_allocations_quantity_positive_check: a quantity that is not zero
\* until it is rounded is stored, not deleted.
Storable(p, sold) ==
    sold < Allocated(p) => \A w \in Locked(p) : Reduced(p, sold)[w] > 0

\* applyBuy: the standing rule it has read, else the only wallet holding the
\* asset, else nothing: the purchase stays pending.
BuyWallets(p) ==
    IF tx[p].rule # NoWallet THEN {tx[p].rule}
    ELSE IF Cardinality(Locked(p)) = 1 THEN Locked(p) ELSE {}

\* Faulty variant: nothing is taken back when the holding shrinks.
ExcessIgnored(p) == 0

\* reconcileAllocationsToHoldings
Excess(p) == Allocated(p) - Held(p)

\* allocateToWallet's two refusals, against what it read as held.
Fits(p, w, q, held) ==
    /\ q > 0
    /\ Total(alloc, Locked(p) \ {w}) + q <= held

\* The quantity allocateToWallet resolves.
Requested(p) ==
    LET w == tx[p].cmd.wallet IN
    IF tx[p].cmd.add > 0 THEN Slice(p, w) + tx[p].cmd.add
    ELSE tx[p].held - Total(alloc, Locked(p) \ {w})

\* What may be left unassigned when a purchase is assigned, never more than it.
Assignable(p) ==
    LET free == Held(p) - Allocated(p) IN
    IF free < tx[p].cmd.row.qty THEN free ELSE tx[p].cmd.row.qty

Op(p, ops) == tx[p].cmd.op \in ops
Ready(p) == tx[p].pc = "allocations" /\ tx[p].want \subseteq holds[p]

\* An assignment that has locked and has something to assign resolves how much,
\* and hands over to allocateToWallet, which reads what is held and locks again.
Clamping(p) == Op(p, {"assign"}) /\ tx[p].value = NoRow /\ Assignable(p) > 0

Clamp(p) ==
    /\ Ready(p)
    /\ Clamping(p)
    /\ tx' = [tx EXCEPT ![p].pc = "clamped", ![p].value = Assignable(p)]
    /\ UNCHANGED <<db, holds, done>>

Relock(p) ==
    /\ tx[p].pc = "clamped"
    /\ tx' = [tx EXCEPT ![p].pc = "lock", ![p].held = Held(p)]
    /\ UNCHANGED <<db, holds, done>>

Bought(p) == tx[p].cmd.row.qty
Sold(p) == -tx[p].cmd.row.qty

\* A purchase that has locked reads the standing rule, which nothing locks: it
\* may be another, and its wallet gone, when the purchase writes.
Choosing(p) == Op(p, {"create"}) /\ Bought(p) > 0 /\ tx[p].rule = NoRow

ReadRule(p) ==
    /\ Ready(p)
    /\ Choosing(p)
    /\ tx' = [tx EXCEPT ![p].rule = rule]
    /\ UNCHANGED <<db, holds, done>>

\* What the operation writes unless it is refused.
Proposal(p) ==
    LET w == tx[p].cmd.wallet IN
    CASE Op(p, {"create"}) /\ Bought(p) > 0 ->
            [x \in BuyWallets(p) |-> Slice(p, x) + Bought(p)]
      [] Op(p, {"create"}) /\ Sold(p) > 0 ->
            IF w = NoWallet THEN Reduced(p, Sold(p)) ELSE [x \in {w} |-> Slice(p, x) - Sold(p)]
      [] Op(p, {"edit", "delete"}) ->
            IF Excess(p) > 0 THEN Reduced(p, Excess(p)) ELSE Nothing
      [] Op(p, {"allocate"}) -> [x \in {w} |-> Requested(p)]
      [] Op(p, {"assign"}) ->
            IF tx[p].value = NoRow THEN Nothing ELSE [x \in {w} |-> Slice(p, x) + tx[p].value]
      [] Op(p, {"drop"}) -> [x \in {w} |-> 0]

\* assertWithinHoldings, over every allocation it reads back.
Within(p) == Total(Overlay(Proposal(p), alloc), Wallets) <= Held(p)

Accepted(p) ==
    LET w == tx[p].cmd.wallet IN
    /\ Op(p, {"create"}) =>
         /\ Within(p)
         /\ Bought(p) > 0 => BuyWallets(p) \subseteq wallets
         /\ Sold(p) > 0 /\ w = NoWallet => Storable(p, Sold(p))
         /\ Sold(p) > 0 /\ w # NoWallet => Slice(p, w) >= Sold(p)
    /\ Op(p, {"edit", "delete"}) /\ Excess(p) > 0 => Storable(p, Excess(p))
    /\ Op(p, {"allocate"}) => w \in wallets /\ Fits(p, w, Requested(p), tx[p].held)
    /\ Op(p, {"assign"}) /\ tx[p].value # NoRow =>
         w \in wallets /\ Fits(p, w, Slice(p, w) + tx[p].value, tx[p].held)

Writes(p) == {AllocLock(w) : w \in DOMAIN Proposal(p)}

\* The events appended with the allocations: a deleted wallet has one only if
\* its allocation was there when the deletion began.
Logged(p) ==
    IF Op(p, {"drop"}) THEN [w \in tx[p].seen |-> 0] ELSE Proposal(p)

Dropped(p) == IF Op(p, {"drop"}) THEN {tx[p].cmd.wallet} ELSE {}

Commit(p) ==
    /\ Ready(p)
    /\ ~Clamping(p) /\ ~Choosing(p)
    /\ Accepted(p)
    /\ Writes(p) \cap Others(p) = {}
    /\ ledger' = Ledger(p)
    /\ pos' = Cache(p)
    /\ alloc' = Overlay(Proposal(p), alloc)
    /\ log' = Overlay(Logged(p), log)
    /\ wallets' = wallets \ Dropped(p)
    /\ rule' = IF rule \in Dropped(p) THEN NoWallet ELSE rule
    /\ tx' = [tx EXCEPT ![p] = Idle]
    /\ holds' = [holds EXCEPT ![p] = {}]
    /\ UNCHANGED done

\* A refusal is returned and the action rolls back; a constraint the database
\* refuses throws.
Refuse(p) ==
    /\ Ready(p)
    /\ ~Clamping(p) /\ ~Choosing(p)
    /\ ~Accepted(p)
    /\ Rollback(p)

-----------------------------------------------------------------------------
(* Postgres aborts a transaction of a cycle of waiting ones. *)

Needs(p) ==
    CASE tx[p].pc = "write" /\ Op(p, {"edit", "delete"}) /\ ledger[tx[p].cmd.id] # NoRow ->
            {TxLock(tx[p].cmd.id)}
      [] tx[p].pc = "cache" -> CacheLocks(p)
      [] tx[p].pc \in {"positions", "allocations"} /\ ~(tx[p].want \subseteq holds[p]) ->
            tx[p].want \ holds[p]
      [] Ready(p) /\ ~Choosing(p) /\ Accepted(p) -> Writes(p)
      [] OTHER -> {}

Deadlocked(p) ==
    \E S \in SUBSET Procs : p \in S /\
        \A x \in S : /\ Needs(x) # {}
                     /\ \A k \in Needs(x) : \E y \in S \ {x} : k \in holds[y]

DeadlockAbort(p) == Deadlocked(p) /\ Rollback(p)

-----------------------------------------------------------------------------
Begin(p) ==
    \/ \E t \in Ids, row \in Row :
         \/ \E w \in Wallets \cup {NoWallet} : BeginCreate(p, t, row, w)
         \/ BeginEdit(p, t, row)
    \/ \E t \in Ids : BeginDelete(p, t)
    \/ \E w \in Wallets :
         \/ \E q \in Adds \cup {0} : BeginAllocate(p, w, q)
         \/ \E t \in Ids : BeginAssign(p, w, t)
         \/ BeginDrop(p, w)

Step(p) ==
    \/ Write(p) \/ RecalcRead(p) \/ RecalcRefused(p) \/ RecalcWrite(p)
    \/ LockPositions(p) \/ LockAllocations(p) \/ LockDropped(p) \/ TakeWanted(p)
    \/ Clamp(p) \/ Relock(p) \/ ReadRule(p) \/ Commit(p) \/ Refuse(p) \/ DeadlockAbort(p)

Next ==
    \/ \E p \in Procs : Begin(p) \/ Step(p)
    \/ \E w \in Wallets \cup {NoWallet} : SetRule(w)

Spec == Init /\ [][Next]_vars

\* A request that is being served goes on; the database wakes waiters and
\* breaks deadlocks.
FairSpec == Spec /\ \A p \in Procs : WF_vars(Step(p))

-----------------------------------------------------------------------------
(* Safety *)

\* BR-010-05: what the wallets are allocated never exceeds what the positions
\* hold (lockForAsset, reconcileAllocationsToHoldings, assertWithinHoldings).
SumInvariant == Total(alloc, Wallets) <= HeldOf(pos)

\* The cached position of every institution is the replay of the stored ledger
\* (recalculatePositionFrom).
CacheIsReplay == \A i \in Insts : pos[i] = Replay(ledger, i)

\* The stored ledger never holds a sale of more than was held on its date
\* (guardReplayable).
LedgerReplayable == \A i \in Insts, d \in Dates : Net(ledger, i, d) >= 0

\* The last allocation event of every wallet says what the wallet holds, 0
\* once it is deleted (upsert, delete, deleteForWallet).
LogAgrees == log = alloc

\* A sale the ledger accepts is never refused over the allocations: the shares
\* a proportional reduction takes add up to it exactly (applyProportionalSell).
SaleFits ==
    \A p \in Procs :
        Ready(p) /\ Op(p, {"create"}) /\ Sold(p) > 0 /\ tx[p].cmd.wallet = NoWallet
            => Accepted(p)

\* Requests that overlap change the wallets as if each ran alone, at the moment
\* it commits: none goes by a holding or by allocations that are no longer so
\* (lockForAsset).  The standing rule alone may be one that stood earlier.
RulesRead == {tx[p].rule : p \in Procs} \ {NoRow}
Promise == INSTANCE WalletPromise WITH held <- HeldOf(pos), known <- RulesRead
KeepsWalletPromise == Promise!Spec

(* Liveness, under FairSpec *)

\* Every request that began ends: none waits for ever for another's locks.
TxEnds == \A p \in Procs : tx[p].pc # "idle" ~> tx[p].pc = "idle"
=============================================================================
