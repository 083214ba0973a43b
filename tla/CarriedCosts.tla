----------------------------- MODULE CarriedCosts -----------------------------
(***************************************************************************)
(* Costs that one position reads off another.  A priceless transfer credit  *)
(* takes the average cost its source had just before the paired debit; the  *)
(* legs of a conversion group move a source's proportional cost to its      *)
(* targets; both take the source's estimate marker with them.  They are     *)
(* stored as figures, so a write upstream has to re-derive them, and what    *)
(* they change in turn, until nothing moves.                                *)
(*                                                                          *)
(* Every action is one server action or import commit of one tenant, alone. *)
(* Prices and cost bases are in units of the last decimal a column keeps;   *)
(* totals and averages in FINE units, Fine of them to a column unit, which  *)
(* stand for the digits a replay carries beyond the column's.               *)
(*                                                                          *)
(* Source: core/ledger/{carried-legs,transfer-pairs,create-transaction,     *)
(* edit-transaction,delete-transaction,bulk-delete-transactions,            *)
(* manage-asset-conversion,guard-replayable,recalculate-from}.ts,           *)
(* core/ingestion/{transfer-cost,commit-batch}.ts, core/positions/*.ts,     *)
(* app/(app)/transactions/actions.ts.                                       *)
(***************************************************************************)
EXTENDS Integers, FiniteSetsExt, Functions

CONSTANTS
    MaxId,      \* ids are 1..MaxId, in the order of (created_at, id)
    Assets, Insts, Days, Qtys, Prices,
    Groups,     \* conversion group ids
    Starts,     \* imported ledgers, before their carried figures are settled
    Fine,       \* fine units in a column unit
    MaxWrites,  \* writes of a behaviour
    NoGroup, NoPosition

Ids == 1..MaxId
Positions == [asset : Assets, inst : Insts]
Types == {"transfer_in", "conversion_in", "conversion_out", "buy", "sell", "transfer_out"}

\* `price` is the unit price, the cost basis of a conversion leg.  `own` says
\* who the row belongs to: isImportOwned, and among those isCarriedCredit.
Row == [pos : Positions, type : Types, day : Days, qty : Qtys, price : Nat,
        est : BOOLEAN, own : {"import", "carry", "user"}, grp : Groups \cup {NoGroup}]

ASSUME SizesAssumption == MaxId \in Nat /\ MaxWrites \in Nat /\ Fine \in Nat \ {0}
ASSUME DataAssumption == Days \subseteq Nat /\ Qtys \subseteq Nat \ {0} /\ Prices \subseteq Nat
ASSUME NoGroupAssumption == NoGroup \notin Groups
ASSUME StartsAssumption == \A L \in Starts : DOMAIN L \subseteq Ids /\ L \in [DOMAIN L -> Row]

VARIABLES
    ledger,   \* the transactions, by id
    cache,    \* the positions table
    last,     \* what the last write was, "threw" if its plan did not settle
    touched,  \* the positions the last write recalculated
    writes    \* writes so far

vars == <<ledger, cache, last, touched, writes>>

Total(f, S) == SumFunctionOnSet(f, S)
Price(L) == [t \in DOMAIN L |-> L[t].price]

\* f itself, its values computed once: TLC evaluates [x \in S |-> e] anew at
\* each application until it has compared the function with another.
Table(f) == CHOOSE g \in {f} : g = f
Only(f, S) == Table([t \in S |-> f[t]])

\* listForPosition
At(L, p) == Only(L, {t \in DOMAIN L : L[t].pos = p})
PositionsOf(L, S) == {L[t].pos : t \in S}

With(rows, L) ==
    Table([t \in DOMAIN rows \cup DOMAIN L |-> IF t \in DOMAIN rows THEN rows[t] ELSE L[t]])
Without(L, S) == [t \in DOMAIN L \ S |-> L[t]]

-----------------------------------------------------------------------------
(* Replay of one position: quantity, cost, average and marker. *)

Rank(type) ==
    CASE type = "transfer_in" -> 0
      [] type \in {"conversion_in", "conversion_out"} -> 1
      [] type = "buy" -> 3
      [] OTHER -> 6

\* compareForReplay
Before(L, t, u) ==
    LET a == L[t]
        b == L[u] IN
    \/ a.day < b.day
    \/ a.day = b.day /\ Rank(a.type) < Rank(b.type)
    \/ a.day = b.day /\ Rank(a.type) = Rank(b.type) /\ t < u

Empty  == [ok |-> TRUE, qty |-> 0, cost |-> 0, avg |-> 0, est |-> FALSE]
Failed == [Empty EXCEPT !.ok = FALSE]

\* asStored: what the column keeps of a fine amount, half up.
Stored(x) == (2 * x + Fine) \div (2 * Fine)

Adding(s, r) ==
    LET qty  == s.qty + r.qty
        cost == s.cost + Fine * r.price * (IF r.type = "conversion_in" THEN 1 ELSE r.qty) IN
    [ok |-> TRUE, qty |-> qty, cost |-> cost, avg |-> cost \div qty, est |-> s.est \/ r.est]

\* Faulty variant: a removal may exceed what is held.
RemovingUnguarded(s, r) ==
    IF s.qty = r.qty THEN Empty
    ELSE [s EXCEPT !.qty = @ - r.qty, !.cost = @ - s.avg * r.qty]

\* A position that closes starts a new lot; otherwise a removal at the average
\* leaves the average as it is.
Removing(s, r) ==
    IF s.qty < r.qty THEN Failed
    ELSE IF s.qty = r.qty THEN Empty
    ELSE [s EXCEPT !.qty = @ - r.qty, !.cost = @ - s.avg * r.qty]

\* A leg's stored basis may exceed what is held by up to half a column unit.
RemovingCost(s, r) ==
    LET rest == s.cost - Fine * r.price
        cost == IF rest < 0 THEN 0 ELSE rest IN
    IF s.qty < r.qty \/ 2 * rest + Fine < 0 THEN Failed
    ELSE IF s.qty = r.qty THEN Empty
    ELSE [s EXCEPT !.qty = @ - r.qty, !.cost = cost, !.avg = cost \div (s.qty - r.qty)]

Apply(s, r) ==
    IF ~s.ok THEN s
    ELSE CASE r.type = "conversion_out" -> RemovingCost(s, r)
           [] r.type \in {"sell", "transfer_out"} -> Removing(s, r)
           [] OTHER -> Adding(s, r)

LastOf(L, S) == CHOOSE t \in S : \A u \in S \ {t} : Before(L, u, t)

Fold(L) == MapThenFoldSet(LAMBDA r, s : Apply(s, r), Empty,
                          LAMBDA t : L[t], LAMBDA R : LastOf(L, R), DOMAIN L)

\* recalculatePositionFrom: a position without rows has no cached row either.
Recalculate(rows) == IF DOMAIN rows = {} THEN NoPosition ELSE Fold(rows)
Replay(L, p) == Recalculate(At(L, p))
Replayable(L, p) == Fold(At(L, p)).ok

-----------------------------------------------------------------------------
(* Transfers: which debit a credit came from, and what it carries. *)

Alike(L, S, t, type) ==
    {u \in S : /\ L[u].type = type
               /\ L[u].pos.asset = L[t].pos.asset
               /\ L[u].day = L[t].day
               /\ L[u].qty = L[t].qty}
Nth(S, t) == Cardinality({u \in S : u <= t})

\* pairTransfers among the rows S: one to one, or a round trip of one position,
\* its legs paired in the order of their ids.
Sources(L, S) ==
    LET credits(t) == Alike(L, S, t, "transfer_in")
        debits(t)  == Alike(L, S, t, "transfer_out")
        paired(t) ==
            /\ Cardinality(credits(t)) = Cardinality(debits(t))
            /\ \/ Cardinality(credits(t)) = 1
               \/ /\ \A u \in credits(t) \cup debits(t) : L[u].pos = L[t].pos
                  /\ \A u \in credits(t) : L[u].own = "carry" IN
    Table([t \in {u \in S : L[u].type = "transfer_in" /\ paired(u)} |->
              CHOOSE d \in debits(t) : Nth(debits(t), d) = Nth(credits(t), t)])

Carriers(L, S) == {t \in S : L[t].own = "carry"}

\* The other legs of the same round trip.
Siblings(L, src, t) ==
    {u \in DOMAIN src \ {t} : /\ L[t].pos = L[src[t]].pos
                              /\ L[u].pos = L[t].pos
                              /\ L[u].day = L[t].day /\ L[u].qty = L[t].qty}

Feeds(L, src, u, t) ==
    /\ u # t /\ u \notin Siblings(L, src, t)
    /\ L[u].pos = L[src[t]].pos
    /\ Before(L, u, src[t])

\* What the source of t held just before its debit, none of `without` counted.
SourceBefore(L, src, t, without) ==
    LET trip == Siblings(L, src, t) IN
    Fold(Only(L, {u \in DOMAIN At(L, L[src[t]].pos) :
                    /\ Before(L, u, src[t])
                    /\ u \notin without \cup {t} \cup trip
                    /\ \A s \in trip : u # src[s]}))

Carriable(L, src, t, state) == state.ok /\ state.qty >= L[src[t]].qty /\ state.avg > 0

\* withCarriedCost
Costed(L, figs) ==
    [t \in DOMAIN figs |-> [L[t] EXCEPT !.price = Stored(figs[t].cost), !.est = figs[t].est]]
WithCarriedCost(L, figs) == With(Costed(L, figs), L)

Kept(L, t) == [cost |-> Fine * L[t].price, est |-> L[t].est]
CarriedCost(L, src, t, without) ==
    LET state == SourceBefore(L, src, t, without) IN
    IF Carriable(L, src, t, state) THEN [cost |-> state.avg, est |-> state.est] ELSE Kept(L, t)

\* A leg waits for the credits that come before its debit at its source.
SettleFree(L, src, done) ==
    LET pending == DOMAIN src \ DOMAIN done
        free    == {t \in pending : ~\E u \in pending : Feeds(L, src, u, t)}
        now     == WithCarriedCost(L, done) IN
    With([t \in free |-> CarriedCost(now, src, t, pending)], done)

\* resolveCarriedCosts: those still waiting in the end, a swap, keep their figure.
ResolveCarriedCosts(L, src) ==
    LET legs == DOMAIN src
        figs[n \in 0..Cardinality(legs)] ==
            IF n = 0 THEN <<>> ELSE SettleFree(L, src, figs[n - 1]) IN
    With(figs[Cardinality(legs)], [t \in legs |-> Kept(L, t)])

-----------------------------------------------------------------------------
(* Conversions: the figures of an imported group, read off its sources. *)

Legs(L, g, type) == {t \in DOMAIN L : L[t].grp = g /\ L[t].type = type}

\* The legs of a group take out as much cost as they bring in.
Balanced(L, g) ==
    Total(Price(L), Legs(L, g, "conversion_out")) = Total(Price(L), Legs(L, g, "conversion_in"))

\* Import gives the residue of its rounding to the last target, so its groups
\* balance (resolveAssetConversion).
ASSUME StartsBalance == \A L \in Starts : \A g \in Groups : Balanced(L, g)

\* Faulty variant: each share is rounded and nothing takes what is left over.
AllocateRounded(L, legs, total) ==
    LET weight == Total(Price(L), legs) IN
    [t \in legs |-> IF weight = 0 THEN total ELSE Stored((Fine * total * L[t].price) \div weight)]

Share(L, t, total, weight) ==
    IF L[t].price > 0 THEN Stored((Fine * total * L[t].price) \div weight) ELSE 0

\* allocateLike: shares of `total` in the proportions of the stored bases, the
\* residue of their rounding on the last positive one.
AllocateLike(L, legs, total) ==
    LET weight   == Total(Price(L), legs)
        share    == [t \in legs |-> Share(L, t, total, weight)]
        residual == Max({t \in legs : L[t].price > 0}) IN
    IF weight <= 0 THEN [t \in legs |-> total]
    ELSE [share EXCEPT ![residual] = total - Total(share, legs \ {residual})]

BeforeLeg(L, t) == Fold(Only(L, {u \in DOMAIN At(L, L[t].pos) : Before(L, u, t)}))
ProportionalCost(s, qty) == Stored(IF s.qty = qty THEN s.cost ELSE (s.cost * qty) \div s.qty)
Cut(L, t) == ProportionalCost(BeforeLeg(L, t), L[t].qty)

\* rederiveConversionGroup leaves a group alone that is not import's, that its
\* sources cannot feed, or whose bases do not say how to share.
Rederivable(L, g) ==
    LET outs == Legs(L, g, "conversion_out")
        ins  == Legs(L, g, "conversion_in") IN
    /\ \A t \in outs \cup ins : L[t].own # "user"
    /\ \A t \in outs : LET s == BeforeLeg(L, t) IN s.ok /\ s.qty >= L[t].qty
    /\ Total(Price(L), ins) > 0 \/ Cardinality(ins) = 1

RederiveConversionGroup(L, g) ==
    LET outs   == Legs(L, g, "conversion_out")
        ins    == Legs(L, g, "conversion_in")
        shares == AllocateLike(L, ins, Total([t \in outs |-> Cut(L, t)], outs))
        est    == \E t \in outs : BeforeLeg(L, t).est IN
    With([t \in outs |-> [L[t] EXCEPT !.price = Cut(L, t)]],
         [t \in ins |-> [L[t] EXCEPT !.price = shares[t], !.est = est]])

-----------------------------------------------------------------------------
(* rederiveCarriedLegs: rounds until nothing changes. *)

\* Faulty variant: the figure is compared with all its digits.
DiffersInFull(old, fig) == fig.cost # Fine * old.price \/ fig.est # old.est

\* A figure is compared as the column would hold it.
Differs(old, fig) == Stored(fig.cost) # old.price \/ fig.est # old.est

\* The rows whose carried figure changes, with the new one.
Recosted(L, figs) == Costed(L, Only(figs, {t \in DOMAIN figs : Differs(L[t], figs[t])}))
Changed(L, rows) == Only(rows, {t \in DOMAIN rows : rows[t] # L[t]})

TransferUpdates(L, dirty) ==
    LET all == Sources(L, DOMAIN L)
        src == Only(all, {t \in Carriers(L, DOMAIN all) : L[all[t]].pos \in dirty}) IN
    Recosted(L, ResolveCarriedCosts(L, src))

ConversionUpdates(L, dirty) ==
    LET hit == {g \in Groups : /\ \E t \in Legs(L, g, "conversion_out") : L[t].pos \in dirty
                               /\ Rederivable(L, g)}
        next == Table([g \in hit |-> RederiveConversionGroup(L, g)]) IN
    Changed(L, [t \in UNION {DOMAIN next[g] : g \in hit} |-> next[L[t].grp][t]])

\* Faulty variant: only what the write itself touched is re-derived.
ReplaceOfSeeds(s, rows) ==
    [ledger |-> With(rows, s.ledger), dirty |-> s.dirty, quiet |-> s.quiet /\ DOMAIN rows = {}]

\* A leg that changes makes its own position's legs the next to be re-derived.
Replace(s, rows) ==
    [ledger |-> With(rows, s.ledger),
     dirty  |-> s.dirty \cup PositionsOf(rows, DOMAIN rows),
     quiet  |-> s.quiet /\ DOMAIN rows = {}]

\* One round, transfers first and then conversions, unless the last was quiet.
Round(s) ==
    LET mid == Replace([s EXCEPT !.quiet = TRUE], TransferUpdates(s.ledger, s.dirty)) IN
    IF s.quiet THEN s ELSE Replace(mid, ConversionUpdates(mid.ledger, mid.dirty))

RederiveCarriedLegs(L, seeds) ==
    LET rounds == Cardinality(DOMAIN L) + 1
        after[n \in 0..rounds] ==
            IF n = 0 THEN [ledger |-> L, dirty |-> seeds, quiet |-> FALSE]
            ELSE Round(after[n - 1]) IN
    after[rounds]

\* A re-derived leg has its new figure and marker and is otherwise as it was.
Rewritten(L, final) ==
    [t \in DOMAIN L |-> [L[t] EXCEPT !.price = final[t].price, !.est = final[t].est]]

\* planCarriedLegUpdates: nothing is re-derived unless a seed sends something on.
PlanCarriedLegUpdates(L, seeds) ==
    IF \E t \in DOMAIN L : L[t].pos \in seeds /\ L[t].type \in {"transfer_out", "conversion_out"}
    THEN RederiveCarriedLegs(L, seeds)
    ELSE [ledger |-> L, dirty |-> seeds, quiet |-> TRUE]

-----------------------------------------------------------------------------
TypeOK ==
    /\ DOMAIN ledger \subseteq Ids
    /\ \A t \in DOMAIN ledger : ledger[t] \in Row
    /\ DOMAIN cache = Positions
    /\ \A p \in Positions : cache[p] # NoPosition =>
         cache[p] \in [ok : {TRUE}, qty : Nat, cost : Nat, avg : Nat, est : BOOLEAN]
    /\ last \in {"import", "row", "group", "threw"}
    /\ touched \subseteq Positions
    /\ writes \in 0..MaxWrites

\* The table's checks refuse a price or a basis below zero, which the residue of
\* an allocation can be, by a unit, among four targets or more.
Storable(L) == \A t \in DOMAIN L : L[t].price >= 0

\* An imported ledger that replays, its carried figures as the import left them.
Init ==
    /\ ledger \in {Rewritten(L, RederiveCarriedLegs(L, Positions).ledger) : L \in Starts}
    /\ Storable(ledger)
    /\ \A p \in Positions : Replayable(ledger, p)
    /\ cache = [p \in Positions |-> Replay(ledger, p)]
    /\ last = "import"
    /\ touched = {}
    /\ writes = 0

\* A new row comes after every stored one in the order of (created_at, id).
Fresh(id) == /\ \A t \in DOMAIN ledger : t < id
             /\ id = 1 \/ id - 1 \in DOMAIN ledger

Recalculated(L, where) ==
    [p \in Positions |-> IF p \in where THEN Replay(L, p) ELSE cache[p]]

\* guardReplayable on every position touched, then the rows, then
\* recalculatePositionFrom on every position touched.
Save(L, where, kind) ==
    /\ \A p \in where : Replayable(L, p)
    /\ Storable(L)
    /\ ledger' = L
    /\ cache' = Recalculated(L, where)
    /\ last' = kind
    /\ touched' = where
    /\ writes' = writes + 1

\* The plan did not settle: it throws and the transaction is rolled back.
Throw ==
    /\ last' = "threw"
    /\ touched' = {}
    /\ writes' = writes + 1
    /\ UNCHANGED <<ledger, cache>>

\* Faulty variant: only the positions the user wrote to are recalculated.
SaveOwnOnly(L, seeds) ==
    LET plan == PlanCarriedLegUpdates(L, seeds) IN
    IF plan.quiet THEN Save(Rewritten(L, plan.ledger), seeds, "row") ELSE Throw

\* guardCarriedLegs, recalculateCarriedPositions: the seeds and the position of
\* every leg the plan changed, which are those it found dirty.
SavePlanned(L, plan) ==
    IF plan.quiet THEN Save(Rewritten(L, plan.ledger), plan.dirty, "row") ELSE Throw

\* A user's write of rows: what it carried on is planned on the ledger as the
\* write will leave it, and guarded, written and recalculated with it.
SaveRows(L, seeds) == SavePlanned(L, PlanCarriedLegUpdates(L, seeds))

\* createTransaction
Create(id, pos, type, day, qty, price) ==
    LET row == [pos |-> pos, type |-> type, day |-> day, qty |-> qty, price |-> price,
                est |-> FALSE, own |-> "user", grp |-> NoGroup] IN
    /\ id \in Ids /\ Fresh(id)
    /\ SaveRows(With([t \in {id} |-> row], ledger), {pos})

IsLeg(t) == ledger[t].grp # NoGroup

\* applyEdit: the row becomes the user's, and a price the user changed is exact.
Edited(old, new) ==
    [new EXCEPT !.own = "user", !.est = IF new.price = old.price THEN old.est ELSE FALSE]

\* One field changes, or none that a replay reads.
Edits(r) ==
    {r} \cup {[r EXCEPT !.price = x] : x \in Prices} \cup {[r EXCEPT !.qty = q] : q \in Qtys}
        \cup {[r EXCEPT !.day = d] : d \in Days} \cup {[r EXCEPT !.pos.inst = i] : i \in Insts}

\* editTransaction.  The action refuses the leg of a conversion.
Edit(t, new) ==
    /\ t \in DOMAIN ledger /\ ~IsLeg(t)
    /\ SaveRows([ledger EXCEPT ![t] = Edited(ledger[t], new)], {ledger[t].pos, new.pos})

\* deleteTransaction, bulkDeleteTransactions
Remove(S) ==
    /\ S \subseteq DOMAIN ledger /\ S # {}
    /\ \A t \in S : ~IsLeg(t)
    /\ SaveRows(Without(ledger, S), PositionsOf(ledger, S))

-----------------------------------------------------------------------------
(* Conversion groups as the user writes them: one out, one in, at one cost.  *)
(* Nothing they change downstream is re-derived.                             *)

\* withSourceEstimate: the incoming legs are marked when a source was an
\* estimate just before its outgoing leg.
WithSourceEstimate(L, g) ==
    LET est == \E t \in Legs(L, g, "conversion_out") :
                  LET s == BeforeLeg(L, t) IN s.ok /\ s.est IN
    [t \in DOMAIN L |-> IF L[t].grp = g
                        THEN [L[t] EXCEPT !.est = L[t].type = "conversion_in" /\ est]
                        ELSE L[t]]

GroupRows(g) == {t \in DOMAIN ledger : ledger[t].grp = g}

\* createAssetConversionGroup
CreateGroup(g, id, from, to, day, out, in, cost) ==
    LET leg(pos, type, qty) ==
            [pos |-> pos, type |-> type, day |-> day, qty |-> qty, price |-> cost,
             est |-> FALSE, own |-> "user", grp |-> g]
        legs == [t \in {id, id + 1} |-> IF t = id THEN leg(from, "conversion_out", out)
                                       ELSE leg(to, "conversion_in", in)]
        L == With(legs, ledger) IN
    /\ {id, id + 1} \subseteq Ids /\ Fresh(id) /\ GroupRows(g) = {}
    /\ from.inst = to.inst /\ from # to
    /\ Save(WithSourceEstimate(L, g), {from, to}, "group")

\* replaceAssetConversionGroup: quantities and costs, checked as a whole.
ReplaceGroup(g, qtys, costs) ==
    LET legs == [t \in GroupRows(g) |->
                    [ledger[t] EXCEPT !.qty = qtys[t], !.price = costs[t], !.own = "user"]]
        L == With(legs, ledger) IN
    /\ GroupRows(g) # {}
    /\ Balanced(L, g)
    /\ Save(WithSourceEstimate(L, g), PositionsOf(ledger, GroupRows(g)), "group")

\* deleteAssetConversionGroup, which is also what deleting one of its legs does.
DeleteGroup(g) ==
    /\ GroupRows(g) # {}
    /\ Balanced(ledger, g)
    /\ Save(Without(ledger, GroupRows(g)), PositionsOf(ledger, GroupRows(g)), "group")

-----------------------------------------------------------------------------
(* commitBatch: the rows of a file, new or stored before.  Its carries are   *)
(* paired within the file and resolved over the ledger and the file; what    *)
(* they change further on is left to the file that brought it.               *)

\* planCarries, carriedTransactionsOf, and the carries that change nothing.
Carried(L, batch) ==
    LET all == Sources(L, batch)
        src == Only(all, Carriers(L, DOMAIN all)) IN
    With(Recosted(L, ResolveCarriedCosts(L, src)), L)

\* A purchase, perhaps at an estimated price.
ImportBuy(id, pos, day, qty, price, est) ==
    LET row == [pos |-> pos, type |-> "buy", day |-> day, qty |-> qty, price |-> price,
                est |-> est, own |-> "import", grp |-> NoGroup] IN
    /\ id \in Ids /\ Fresh(id)
    /\ Save(With([t \in {id} |-> row], ledger), {pos}, "import")

Transfers == {t \in DOMAIN ledger : /\ ledger[t].type \in {"transfer_in", "transfer_out"}
                                    /\ ledger[t].own # "user"}

\* The file of some stored transfers, imported again: its credits are carried
\* again.  Rows a user has edited are left out of such a file.
ImportAgain(batch) ==
    LET L     == Rewritten(ledger, Carried(ledger, batch))
        moved == {t \in DOMAIN L : L[t] # ledger[t]} IN
    /\ batch \subseteq Transfers
    /\ moved # {}
    /\ Save(L, PositionsOf(L, moved), "import")

Removals == {S \in SUBSET DOMAIN ledger : Cardinality(S) \in 1..2}

Write ==
    \/ \E id \in Ids, pos \in Positions, type \in {"buy", "sell", "transfer_in", "transfer_out"},
          day \in Days, qty \in Qtys :
          \E price \in IF type \in {"buy", "transfer_in"} THEN Prices ELSE {0} :
             Create(id, pos, type, day, qty, price)
    \/ \E t \in DOMAIN ledger : \E new \in Edits(ledger[t]) : Edit(t, new)
    \/ \E S \in Removals : Remove(S)
    \/ \E g \in Groups, id \in Ids, from, to \in Positions, day \in Days, out, in \in Qtys, cost \in Prices :
          CreateGroup(g, id, from, to, day, out, in, cost)
    \/ \E g \in Groups : \E qtys \in [GroupRows(g) -> Qtys], costs \in [GroupRows(g) -> Prices] :
          ReplaceGroup(g, qtys, costs)
    \/ \E g \in Groups : DeleteGroup(g)
    \/ \E id \in Ids, pos \in Positions, day \in Days, qty \in Qtys, price \in Prices, est \in BOOLEAN :
          ImportBuy(id, pos, day, qty, price, est)
    \/ \E batch \in SUBSET Transfers : ImportAgain(batch)

Next == writes < MaxWrites /\ Write

Spec == Init /\ [][Next]_vars

-----------------------------------------------------------------------------
(* Properties *)

\* The cached positions are what a rebuild would compute, and every position
\* replays: a write recalculates each position it touches, the ones its
\* re-derived legs sit in included.
CacheIsReplay == \A p \in Positions : Replayable(ledger, p) /\ cache[p] = Replay(ledger, p)

\* A conversion moves cost, it makes none: what a group's legs bring in is what
\* they took out, to the last decimal, after any re-derivation.
GroupsBalance == \A g \in Groups : Balanced(ledger, g)

\* A user's write never fails because the legs it re-derives do not settle.  An
\* imported conversion that feeds itself within a day makes one fail (MCCarriedLoop.cfg).
Settles == last # "threw"

\* The credits among those out of the positions `where` that wait for one another
\* on one day, a swap, and those that wait for these in turn: what
\* resolveCarriedCosts never unblocks.
Blocked(L, src, where) ==
    LET legs == {t \in Carriers(L, DOMAIN src) : L[src[t]].pos \in where} IN
    UNION {S \in SUBSET legs : \A t \in S : \E u \in S : Feeds(L, src, u, t)}

TransfersReread(old, new, where) ==
    LET before == Sources(old, DOMAIN old)
        after  == Sources(new, DOMAIN new) IN
    \A t \in Carriers(new, DOMAIN after) \ Blocked(new, after, where) :
        LET state == SourceBefore(new, after, t, {}) IN
        /\ t \in DOMAIN before /\ before[t] = after[t]
        /\ SourceBefore(old, before, t, {}) # state
        /\ Carriable(new, after, t, state)
        => new[t].price = Stored(state.avg) /\ new[t].est = state.est

ConversionsReread(old, new) ==
    \A g \in Groups :
        LET outs == Legs(new, g, "conversion_out") IN
        /\ Rederivable(new, g) /\ outs = Legs(old, g, "conversion_out")
        /\ \E t \in outs : BeforeLeg(old, t) # BeforeLeg(new, t)
        => /\ \A t \in outs : new[t].price = Cut(new, t)
           /\ \A t \in Legs(new, g, "conversion_in") : new[t].est = \E u \in outs : BeforeLeg(new, u).est

\* After a row is created, edited or deleted by the user, every carried credit
\* and every imported conversion whose source the write changed, however far
\* upstream, holds the source's figure of now and its marker; all but the credits
\* of a swap among the positions recalculated, and what those feed there.  What
\* becomes of these is not said: one leg of a swap may follow its source and the
\* other not (MCCarriedSwap.cfg).  Nor is anything of a write of a conversion.
CarriedReread ==
    [][last' = "row" =>
          TransfersReread(ledger, ledger', touched') /\ ConversionsReread(ledger, ledger')]_vars

\* What carried-legs.ts says of every ledger write, conversions included
\* (MCCarriedWrites.cfg: the writes of a conversion re-derive nothing).
EveryWriteRereads ==
    [][last' \in {"row", "group"} =>
          TransfersReread(ledger, ledger', touched') /\ ConversionsReread(ledger, ledger')]_vars

\* What carried-legs.ts says of a same-day swap: it keeps its stored figures.
SwapKept ==
    [][last' = "row" => \A t \in Blocked(ledger, Sources(ledger, DOMAIN ledger), Positions) :
          t \in DOMAIN ledger' => ledger'[t] = ledger[t] \/ ledger'[t].own = "user"]_vars

\* A conversion into which an estimate flows says so.
Honest(L, g) ==
    (\E t \in Legs(L, g, "conversion_out") : BeforeLeg(L, t).est)
        => \A t \in Legs(L, g, "conversion_in") : L[t].est

\* What carried-legs.ts says of the legs it leaves alone: they err toward
\* "estimated", never toward a false "exact".
NeverFalselyExact ==
    [][last' = "row" => \A g \in Groups : Honest(ledger, g) => Honest(ledger', g)]_vars

=============================================================================
