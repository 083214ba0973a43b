------------------------- MODULE TenantWritesProofs -------------------------
(***************************************************************************)
(* Proofs about TenantWrites, for any requests, rows, institutions, dates,   *)
(* amounts, wallets and loads.                                               *)
(*                                                                          *)
(* In order: every variable keeps its type; the log follows the              *)
(* allocations; the row locks of lockForAsset let one request at a time past *)
(* them, so that what the wallets are allocated stays within what is held;   *)
(* and while no two requests in flight write rows of one position, cached    *)
(* positions are replays and stored ledgers replay.                          *)
(***************************************************************************)
EXTENDS TenantWrites, Sums

-----------------------------------------------------------------------------
(* Quantities *)

LEMMA TotalIs == ASSUME NEW f, NEW S PROVE Total(f, S) = Sum(f, S)
  BY DEF Total, Sum

Values  == Nat \cup {NoRow}
Ledgers == [Ids -> Row \cup {NoRow}]
Caches  == [Insts -> Values]

LEMMA RowIs ==
    \A row \in Row : /\ row # NoRow /\ row.inst \in Insts /\ row.date \in Dates /\ row.date \in Nat
                     /\ row.qty \in Amounts /\ row.qty \in Int /\ row.qty # 0
  BY RowsAssumption, AmountsAssumption DEF Row

LEMMA QuantityNat == \A v \in Values : Quantity(v) \in Nat
  BY DEF Values, Quantity

\* What a cache holds is a natural number, whatever the positions.
LEMMA HeldNat ==
    ASSUME NEW c, \A i \in Insts : c[i] \in Values
    PROVE  HeldOf(c) \in Nat
  <1> DEFINE f == [i \in Insts |-> Quantity(c[i])]
  <1>1. \A i \in Insts : f[i] \in Nat
    BY QuantityNat
  <1>2. HeldOf(c) = Sum(f, Insts)
    BY TotalIs DEF HeldOf
  <1> HIDE DEF f
  <1> QED
    BY <1>1, <1>2, FiniteAssumption, SumNat

LEMMA RowsOf ==
    ASSUME NEW L \in Ledgers, NEW i \in Insts
    PROVE  /\ RowsAt(L, i) \subseteq Ids /\ IsFiniteSet(RowsAt(L, i))
           /\ \A t \in RowsAt(L, i) : L[t] \in Row
  <1>1. RowsAt(L, i) \subseteq Ids
    BY DEF RowsAt
  <1> QED
    BY <1>1, FiniteAssumption, FS_Subset DEF RowsAt, Ledgers

LEMMA NetInt ==
    ASSUME NEW L \in Ledgers, NEW i \in Insts, NEW S \in SUBSET RowsAt(L, i)
    PROVE  NetOf(L, S) \in Int
  <1>1. IsFiniteSet(S) /\ \A t \in S : L[t] \in Row
    BY RowsOf, FS_Subset
  <1> DEFINE f == [t \in S |-> L[t].qty]
  <1>2. \A t \in S : f[t] \in Int
    BY <1>1, RowIs
  <1>3. NetOf(L, S) = Sum(f, S)
    BY TotalIs DEF NetOf, Moves
  <1> HIDE DEF f
  <1> QED
    BY <1>1, <1>2, <1>3, SumInt

\* A ledger that replays ends with what it has on the date of its last row.
LEMMA ReplayValue ==
    ASSUME NEW L \in Ledgers, NEW i \in Insts, Replayable(L, i)
    PROVE  Replay(L, i) \in Values
  <1> DEFINE R == RowsAt(L, i)
             f == [t \in R |-> L[t].date]
  <1>1. CASE R = {}
    BY <1>1 DEF Replay, Values
  <1>2. CASE R # {}
    <2>1. IsFiniteSet(R) /\ \A t \in R : f[t] \in Int /\ f[t] \in Dates /\ L[t].date = f[t]
      BY RowsOf, RowIs
    <2>2. PICK m \in R : \A t \in R : f[t] <= f[m]
      <3> HIDE DEF f, R
      <3> QED
        BY <1>2, <2>1, Greatest
    <2>3. {t \in R : L[t].date <= f[m]} = R
      BY <2>1, <2>2
    <2>4. f[m] \in Dates
      BY <2>1
    <2>5. Net(L, i, f[m]) = NetOf(L, R)
      BY <2>3 DEF Net
    <2>6. Net(L, i, f[m]) >= 0
      BY <2>4 DEF Replayable
    <2>7. NetOf(L, R) \in Int
      BY NetInt
    <2> HIDE DEF R, f
    <2>8. NetOf(L, R) \in Nat
      BY <2>5, <2>6, <2>7
    <2> QED
      BY <1>2, <2>8 DEF Replay, R, Values
  <1> QED
    BY <1>1, <1>2

-----------------------------------------------------------------------------
(* Sequences of positions *)

Elems(s) == {s[k] : k \in 1..Len(s)}

LEMMA SequenceFacts ==
    ASSUME NEW S, NEW s \in Seq(S)
    PROVE  /\ s = <<>> => Elems(s) = {}
           /\ s # <<>> => /\ Head(s) \in S /\ Head(s) \in Elems(s) /\ Tail(s) \in Seq(S)
                          /\ Elems(s) = {Head(s)} \cup Elems(Tail(s))
                          /\ (Len(s) = 1 <=> Tail(s) = <<>>)
           /\ Elems(s) \subseteq S
  <1>1. CASE s = <<>>
    BY <1>1 DEF Elems
  <1>2. CASE s # <<>>
    <2>1. Head(s) = s[1] /\ Len(s) \in Nat /\ 1 \in 1..Len(s) /\ Tail(s) \in Seq(S) /\ s[1] \in S
          /\ Len(Tail(s)) = Len(s) - 1
      BY <1>2
    <2>2. \A k \in 1..Len(s) : k = 1 \/ (k - 1 \in 1..Len(Tail(s)) /\ Tail(s)[k - 1] = s[k])
      BY <1>2
    <2>3. \A k \in 1..Len(Tail(s)) : k + 1 \in 1..Len(s) /\ Tail(s)[k] = s[k + 1]
      BY <1>2
    <2>4. Elems(s) \subseteq {Head(s)} \cup Elems(Tail(s))
      BY <2>1, <2>2 DEF Elems
    <2>5. {Head(s)} \cup Elems(Tail(s)) \subseteq Elems(s)
      BY <2>1, <2>3 DEF Elems
    <2>6. Elems(s) \subseteq S
      BY DEF Elems
    <2>7. Len(s) = 1 <=> Tail(s) = <<>>
      <3>1. ASSUME NEW u \in Seq(S) PROVE Len(u) = 0 <=> u = <<>>
        OBVIOUS
      <3>2. Len(Tail(s)) = 0 <=> Tail(s) = <<>>
        BY <2>1, <3>1
      <3> QED
        BY <2>1, <3>2
    <2> QED
      BY <1>2, <2>1, <2>4, <2>5, <2>6, <2>7 DEF Elems
  <1> QED
    BY <1>1, <1>2

LEMMA SingleIs == \A x : Elems(<<x>>) = {x} /\ <<x>> # <<>>
  BY DEF Elems

LEMMA PairIs == \A x, y : Elems(<<x, y>>) = {x, y} /\ <<x, y>> # <<>>
  <1> SUFFICES ASSUME NEW x, NEW y PROVE Elems(<<x, y>>) = {x, y}
    OBVIOUS
  <1>1. 1..Len(<<x, y>>) = {1, 2}
    OBVIOUS
  <1> QED
    BY <1>1 DEF Elems

-----------------------------------------------------------------------------
(* The shape of the state *)

Written == UNION {[D -> Row \cup {NoRow}] : D \in SUBSET Ids}
Cached  == UNION {[D -> Values] : D \in SUBSET Insts}

Transaction == [pc : Pcs, cmd : Command, todo : Seq(Insts), value : Values, held : Nat,
                rule : Wallets \cup {NoWallet, NoRow}, seen : SUBSET Wallets, want : SUBSET Lock, rows : Written, cached : Cached]

Writers == {"create", "edit", "delete"}

\* What an operation has to go on, and where it may be.
RequestTyped(r) ==
    /\ r.pc \in {"write", "read", "cache"} => r.cmd.op \in Writers /\ r.todo # <<>>
    /\ r.cmd.op \in {"create", "edit", "assign"} => r.cmd.row \in Row
    /\ r.cmd.op \in {"allocate", "assign", "drop"} => r.cmd.wallet \in Wallets
    /\ r.cmd.op \notin Writers => r.rows = Nothing /\ r.cached = Nothing
    /\ r.pc = "drop" => r.cmd.op = "drop"
    /\ r.cmd.op = "drop" => r.pc \in {"drop", "allocations"}
    /\ r.pc = "clamped" => r.cmd.op = "assign"
    /\ r.cmd.op = "rule" <=> r.pc = "idle"

Shape ==
    /\ ledger \in Ledgers
    /\ pos \in Caches
    /\ alloc \in [Wallets -> Nat]
    /\ log \in [Wallets -> Nat]
    /\ wallets \in SUBSET Wallets
    /\ rule \in wallets \cup {NoWallet}
    /\ holds \in [Procs -> SUBSET Lock]
    /\ done \in [OpNames -> Nat]
    /\ tx \in [Procs -> Transaction]
    /\ \A p \in Procs : RequestTyped(tx[p])

LEMMA Overlaid ==
    ASSUME NEW f, NEW g
    PROVE  /\ DOMAIN Overlay(f, g) = DOMAIN g
           /\ \A x \in DOMAIN g : Overlay(f, g)[x] = IF x \in DOMAIN f THEN f[x] ELSE g[x]
  BY DEF Overlay

LEMMA OverlayTyped ==
    ASSUME NEW S, NEW T, NEW f, NEW g \in [S -> T], \A x \in S \cap DOMAIN f : f[x] \in T
    PROVE  Overlay(f, g) \in [S -> T]
  BY DEF Overlay

LEMMA NothingOverlaid ==
    ASSUME NEW S, NEW T, NEW g \in [S -> T]
    PROVE  Overlay(Nothing, g) = g
  BY DEF Overlay, Nothing

LEMMA WrittenIs == \A f : f \in Written <=> DOMAIN f \subseteq Ids /\ f \in [DOMAIN f -> Row \cup {NoRow}]
  BY DEF Written

LEMMA CachedIs == \A f : f \in Cached <=> DOMAIN f \subseteq Insts /\ f \in [DOMAIN f -> Values]
  BY DEF Cached

LEMMA NothingTyped == Nothing \in Written /\ Nothing \in Cached /\ DOMAIN Nothing = {}
  <1>1. DOMAIN Nothing = {} /\ Nothing = [x \in {} |-> Nothing[x]]
    BY DEF Nothing
  <1> QED
    BY <1>1, WrittenIs, CachedIs

LEMMA NoCommandTyped ==
    /\ NoCommand \in Command /\ NoCommand.op = "rule" /\ NoCommand.row = NoRow /\ NoCommand.id \in Ids
    /\ NoCommand.wallet = NoWallet /\ NoCommand.add = 0
  BY RowsAssumption DEF NoCommand, Command, OpNames

LEMMA IdleTyped ==
    /\ Idle \in Transaction /\ Idle.pc = "idle" /\ Idle.cmd = NoCommand /\ Idle.todo = <<>>
    /\ Idle.rows = Nothing /\ Idle.cached = Nothing /\ Idle.seen = {} /\ Idle.want = {}
    /\ Idle.value = NoRow /\ Idle.held = 0 /\ Idle.rule = NoRow /\ RequestTyped(Idle)
  <1>1. <<>> \in Seq(Insts) /\ NoRow \in Values
    BY DEF Values
  <1>2. Idle \in Transaction
    BY <1>1, NothingTyped, NoCommandTyped DEF Idle, Transaction, Pcs
  <1> QED
    BY <1>2, NoCommandTyped DEF Idle, RequestTyped, Writers

LEMMA TxFacts ==
    ASSUME Shape, NEW p \in Procs
    PROVE  /\ tx[p] \in Transaction /\ tx[p].pc \in Pcs /\ tx[p].cmd \in Command /\ tx[p].todo \in Seq(Insts)
           /\ tx[p].cmd.id \in Ids /\ tx[p].rows \in Written /\ tx[p].cached \in Cached
           /\ tx[p].cmd.row \in Row \cup {NoRow} /\ tx[p].cmd.wallet \in Wallets \cup {NoWallet}
           /\ tx[p].cmd.add \in Adds \cup {0} /\ tx[p].cmd.op \in OpNames
           /\ tx[p].value \in Values /\ tx[p].held \in Nat /\ tx[p].seen \in SUBSET Wallets
           /\ tx[p].want \in SUBSET Lock /\ tx[p].rule \in Wallets \cup {NoWallet, NoRow}
           /\ ledger \in Ledgers /\ pos \in Caches /\ RequestTyped(tx[p])
  <1>1. tx[p] \in Transaction
    BY DEF Shape
  <1>2. tx[p].cmd \in Command
    BY <1>1 DEF Transaction
  <1> QED
    BY <1>1, <1>2 DEF Shape, Transaction, Command

\* What a transaction sees is a ledger, and a cache.
LEMMA SeenTyped ==
    ASSUME Shape, NEW p \in Procs
    PROVE  Ledger(p) \in Ledgers /\ Cache(p) \in Caches /\ Held(p) \in Nat
  <1>1. tx[p].rows \in [DOMAIN tx[p].rows -> Row \cup {NoRow}]
    BY TxFacts, WrittenIs
  <1>2. tx[p].cached \in [DOMAIN tx[p].cached -> Values]
    BY TxFacts, CachedIs
  <1>3. Ledger(p) \in Ledgers
    BY <1>1, TxFacts, OverlayTyped DEF Ledger, Ledgers
  <1>4. Cache(p) \in Caches
    BY <1>2, TxFacts, OverlayTyped DEF Cache, Caches
  <1> QED
    BY <1>3, <1>4, HeldNat DEF Held, Caches

-----------------------------------------------------------------------------
(* What each step does to the transaction of its request *)

\* Only the transaction of p moves, and it is still one.
Moves1(p) ==
    /\ tx' \in [Procs -> Transaction]
    /\ RequestTyped(tx'[p])
    /\ \A q \in Procs : q # p => tx'[q] = tx[q]

LEMMA Moved ==
    ASSUME Shape, NEW p \in Procs, NEW r \in Transaction, RequestTyped(r), tx' = [tx EXCEPT ![p] = r]
    PROVE  Moves1(p) /\ tx'[p] = r
  BY DEF Shape, Moves1

LEMMA CreateStarts ==
    ASSUME Shape, NEW p \in Procs, NEW t \in Ids, NEW row \in Row, NEW w \in Wallets \cup {NoWallet},
           BeginCreate(p, t, row, w)
    PROVE  /\ Moves1(p) /\ tx'[p].pc = "write" /\ tx'[p].cmd.op = "create" /\ tx'[p].cmd.id = t
           /\ tx'[p].cmd.row = row /\ tx'[p].cmd.wallet = w /\ tx'[p].todo = <<row.inst>>
           /\ tx'[p].rows = Nothing /\ tx'[p].cached = Nothing
  <1> DEFINE cmd == [NoCommand EXCEPT !.op = "create", !.id = t, !.row = row, !.wallet = w]
             r == [Idle EXCEPT !.pc = "write", !.cmd = cmd, !.todo = <<row.inst>>]
  <1>1. cmd \in Command /\ cmd.op = "create" /\ cmd.id = t /\ cmd.row = row /\ cmd.wallet = w
    BY NoCommandTyped DEF Command, OpNames
  <1>2. tx' = [tx EXCEPT ![p] = r]
    BY DEF BeginCreate, Start
  <1> HIDE DEF cmd
  <1>3. <<row.inst>> \in Seq(Insts) /\ <<row.inst>> # <<>>
    BY RowIs
  <1>4. /\ r \in Transaction /\ r.pc = "write" /\ r.cmd = cmd /\ r.todo = <<row.inst>>
        /\ r.rows = Nothing /\ r.cached = Nothing
    BY <1>1, <1>3, IdleTyped DEF Transaction, Pcs
  <1> HIDE DEF r
  <1>5. RequestTyped(r)
    BY <1>1, <1>3, <1>4 DEF RequestTyped, Writers
  <1> QED
    BY <1>1, <1>2, <1>4, <1>5, Moved

LEMMA EditStarts ==
    ASSUME Shape, NEW p \in Procs, NEW t \in Ids, NEW row \in Row, BeginEdit(p, t, row)
    PROVE  /\ Moves1(p) /\ tx'[p].pc = "write" /\ tx'[p].cmd.op = "edit" /\ tx'[p].cmd.id = t
           /\ tx'[p].cmd.row = row /\ tx'[p].todo = Scopes(ledger[t], row)
           /\ tx'[p].rows = Nothing /\ tx'[p].cached = Nothing /\ ledger[t] \in Row
  <1> DEFINE cmd == [NoCommand EXCEPT !.op = "edit", !.id = t, !.row = row]
             todo == Scopes(ledger[t], row)
             r == [Idle EXCEPT !.pc = "write", !.cmd = cmd, !.todo = todo]
  <1>1. cmd \in Command /\ cmd.op = "edit" /\ cmd.id = t /\ cmd.row = row
    BY NoCommandTyped DEF Command, OpNames
  <1>2. tx' = [tx EXCEPT ![p] = r] /\ ledger[t] # NoRow
    BY DEF BeginEdit, Start
  <1>3. ledger[t] \in Row
    BY <1>2 DEF Shape, Ledgers
  <1> HIDE DEF cmd
  <1>4. todo \in Seq(Insts) /\ todo # <<>>
    BY <1>3, RowIs DEF Scopes
  <1> HIDE DEF todo
  <1>5. /\ r \in Transaction /\ r.pc = "write" /\ r.cmd = cmd /\ r.todo = todo
        /\ r.rows = Nothing /\ r.cached = Nothing
    BY <1>1, <1>4, IdleTyped DEF Transaction, Pcs
  <1> HIDE DEF r
  <1>6. RequestTyped(r)
    BY <1>1, <1>4, <1>5 DEF RequestTyped, Writers
  <1> QED
    BY <1>1, <1>2, <1>3, <1>5, <1>6, Moved DEF todo

LEMMA DeleteStarts ==
    ASSUME Shape, NEW p \in Procs, NEW t \in Ids, BeginDelete(p, t)
    PROVE  /\ Moves1(p) /\ tx'[p].pc = "write" /\ tx'[p].cmd.op = "delete" /\ tx'[p].cmd.id = t
           /\ tx'[p].cmd.row = NoRow /\ tx'[p].todo = <<ledger[t].inst>>
           /\ tx'[p].rows = Nothing /\ tx'[p].cached = Nothing /\ ledger[t] \in Row
  <1> DEFINE cmd == [NoCommand EXCEPT !.op = "delete", !.id = t]
             todo == <<ledger[t].inst>>
             r == [Idle EXCEPT !.pc = "write", !.cmd = cmd, !.todo = todo]
  <1>1. cmd \in Command /\ cmd.op = "delete" /\ cmd.id = t /\ cmd.row = NoRow
    BY NoCommandTyped DEF Command, OpNames
  <1>2. tx' = [tx EXCEPT ![p] = r] /\ ledger[t] # NoRow
    BY DEF BeginDelete, Start
  <1>3. ledger[t] \in Row
    BY <1>2 DEF Shape, Ledgers
  <1> HIDE DEF cmd
  <1>4. todo \in Seq(Insts) /\ todo # <<>>
    BY <1>3, RowIs
  <1> HIDE DEF todo
  <1>5. /\ r \in Transaction /\ r.pc = "write" /\ r.cmd = cmd /\ r.todo = todo
        /\ r.rows = Nothing /\ r.cached = Nothing
    BY <1>1, <1>4, IdleTyped DEF Transaction, Pcs
  <1> HIDE DEF r
  <1>6. RequestTyped(r)
    BY <1>1, <1>4, <1>5 DEF RequestTyped, Writers
  <1> QED
    BY <1>1, <1>2, <1>3, <1>5, <1>6, Moved DEF todo

LEMMA AllocateStarts ==
    ASSUME Shape, NEW p \in Procs, NEW w \in Wallets, NEW q \in Adds \cup {0}, BeginAllocate(p, w, q)
    PROVE  /\ Moves1(p) /\ tx'[p].pc = "lock" /\ tx'[p].cmd.op = "allocate"
           /\ tx'[p].rows = Nothing /\ tx'[p].cached = Nothing /\ tx'[p].held = Held(p)
           /\ tx'[p].value = NoRow
  <1> DEFINE cmd == [NoCommand EXCEPT !.op = "allocate", !.wallet = w, !.add = q]
             h == Held(p)
             r == [Idle EXCEPT !.pc = "lock", !.cmd = cmd, !.held = h]
  <1>1. cmd \in Command /\ cmd.op = "allocate" /\ cmd.wallet = w
    BY NoCommandTyped DEF Command, OpNames
  <1>2. tx' = [tx EXCEPT ![p] = r]
    BY DEF BeginAllocate, Start
  <1>3. h \in Nat
    BY SeenTyped
  <1> HIDE DEF cmd, h
  <1>4. /\ r \in Transaction /\ r.pc = "lock" /\ r.cmd = cmd /\ r.held = h
        /\ r.rows = Nothing /\ r.cached = Nothing /\ r.value = NoRow
    BY <1>1, <1>3, IdleTyped DEF Transaction, Pcs
  <1> HIDE DEF r
  <1>5. RequestTyped(r)
    BY <1>1, <1>4 DEF RequestTyped, Writers
  <1> QED
    BY <1>1, <1>2, <1>4, <1>5, Moved DEF h

LEMMA AssignStarts ==
    ASSUME Shape, NEW p \in Procs, NEW w \in Wallets, NEW t \in Ids, BeginAssign(p, w, t)
    PROVE  /\ Moves1(p) /\ tx'[p].pc = "lock" /\ tx'[p].cmd.op = "assign"
           /\ tx'[p].rows = Nothing /\ tx'[p].cached = Nothing /\ tx'[p].value = NoRow
  <1> DEFINE cmd == [NoCommand EXCEPT !.op = "assign", !.wallet = w, !.row = ledger[t]]
             r == [Idle EXCEPT !.pc = "lock", !.cmd = cmd]
  <1>1. tx' = [tx EXCEPT ![p] = r] /\ ledger[t] # NoRow
    BY DEF BeginAssign, Start
  <1>2. ledger[t] \in Row
    BY <1>1 DEF Shape, Ledgers
  <1>3. cmd \in Command /\ cmd.op = "assign" /\ cmd.wallet = w /\ cmd.row \in Row
    BY <1>2, NoCommandTyped DEF Command, OpNames
  <1> HIDE DEF cmd
  <1>4. /\ r \in Transaction /\ r.pc = "lock" /\ r.cmd = cmd
        /\ r.rows = Nothing /\ r.cached = Nothing /\ r.value = NoRow
    BY <1>3, IdleTyped DEF Transaction, Pcs
  <1> HIDE DEF r
  <1>5. RequestTyped(r)
    BY <1>3, <1>4 DEF RequestTyped, Writers
  <1> QED
    BY <1>1, <1>3, <1>4, <1>5, Moved

LEMMA DropStarts ==
    ASSUME Shape, NEW p \in Procs, NEW w \in Wallets, BeginDrop(p, w)
    PROVE  /\ Moves1(p) /\ tx'[p].pc = "drop" /\ tx'[p].cmd.op = "drop" /\ tx'[p].cmd.wallet = w
           /\ tx'[p].rows = Nothing /\ tx'[p].cached = Nothing
           /\ tx'[p].seen = IF alloc[w] > 0 THEN {w} ELSE {}
  <1> DEFINE cmd == [NoCommand EXCEPT !.op = "drop", !.wallet = w]
             s == IF alloc[w] > 0 THEN {w} ELSE {}
             r == [Idle EXCEPT !.pc = "drop", !.cmd = cmd, !.seen = s]
  <1>1. cmd \in Command /\ cmd.op = "drop" /\ cmd.wallet = w
    BY NoCommandTyped DEF Command, OpNames
  <1>2. tx' = [tx EXCEPT ![p] = r] /\ s \in SUBSET Wallets
    BY DEF BeginDrop, Start
  <1> HIDE DEF cmd, s
  <1>3. /\ r \in Transaction /\ r.pc = "drop" /\ r.cmd = cmd /\ r.seen = s
        /\ r.rows = Nothing /\ r.cached = Nothing
    BY <1>1, <1>2, IdleTyped DEF Transaction, Pcs
  <1> HIDE DEF r
  <1>4. RequestTyped(r)
    BY <1>1, <1>3 DEF RequestTyped, Writers
  <1> QED
    BY <1>1, <1>2, <1>3, <1>4, Moved DEF s

\* A new request finds its process idle, and writes nothing yet.
LEMMA Starting ==
    ASSUME Shape, NEW p \in Procs, Begin(p)
    PROVE  tx[p].pc = "idle" /\ UNCHANGED <<db, holds>> /\ done' \in [OpNames -> Nat]
  BY LoadsAssumption DEF Begin, BeginCreate, BeginEdit, BeginDelete, BeginAllocate, BeginAssign,
        BeginDrop, Start, Load

LEMMA Beginning ==
    ASSUME Shape, NEW p \in Procs, Begin(p)
    PROVE  Moves1(p)
  BY CreateStarts, EditStarts, DeleteStarts, AllocateStarts, AssignStarts, DropStarts DEF Begin

-----------------------------------------------------------------------------

\* A step keeps what the user asked for, and but for the fields it names the rest.
LEMMA WriteMoves ==
    ASSUME Shape, NEW p \in Procs, Write(p)
    PROVE  LET t == tx[p].cmd.id
               row == IF tx[p].cmd.op = "delete" THEN NoRow ELSE tx[p].cmd.row IN
           /\ Moves1(p) /\ tx[p].pc = "write" /\ tx'[p].pc = "read" /\ tx'[p].cmd = tx[p].cmd
           /\ tx'[p].rows = IF tx[p].cmd.op # "create" /\ ledger[t] = NoRow THEN tx[p].rows
                            ELSE [x \in {t} |-> row]
           /\ tx'[p].todo = tx[p].todo /\ tx'[p].cached = tx[p].cached
           /\ UNCHANGED <<db, done>> /\ holds' \in [Procs -> SUBSET Lock]
           /\ holds' = [holds EXCEPT ![p] = holds'[p]] /\ holds[p] \subseteq holds'[p]
           /\ \A k \in holds'[p] : k \in holds[p] \/ (k = TxLock(tx[p].cmd.id) /\ k \notin Others(p))
  <1> DEFINE t == tx[p].cmd.id
             row == IF tx[p].cmd.op = "delete" THEN NoRow ELSE tx[p].cmd.row
             f == IF tx[p].cmd.op # "create" /\ ledger[t] = NoRow THEN tx[p].rows
                  ELSE [x \in {t} |-> row]
             r == [tx[p] EXCEPT !.pc = "read", !.rows = f]
  <1>1. tx' = [tx EXCEPT ![p] = r] /\ UNCHANGED <<db, done>> /\ tx[p].pc = "write"
    BY DEF Write, Shape
  <1>2. tx[p] \in Transaction /\ t \in Ids /\ row \in Row \cup {NoRow} /\ tx[p].rows \in Written
        /\ RequestTyped(tx[p])
    BY TxFacts
  <1>3. f \in Written
    BY <1>2, WrittenIs
  <1> HIDE DEF f
  <1>4. /\ r \in Transaction /\ r.pc = "read" /\ r.cmd = tx[p].cmd /\ r.rows = f
        /\ r.todo = tx[p].todo /\ r.cached = tx[p].cached
    BY <1>2, <1>3 DEF Transaction, Pcs
  <1> HIDE DEF r
  <1>5. RequestTyped(r)
    BY <1>1, <1>2, <1>4 DEF RequestTyped
  <1>6. Moves1(p) /\ tx'[p] = r
    BY <1>1, <1>4, <1>5, Moved
  <1>7. /\ holds' \in [Procs -> SUBSET Lock]
        /\ holds' = [holds EXCEPT ![p] = holds'[p]] /\ holds[p] \subseteq holds'[p]
        /\ \A k \in holds'[p] : k \in holds[p] \/ (k = TxLock(t) /\ k \notin Others(p))
    <2>1. holds \in [Procs -> SUBSET Lock] /\ TxLock(t) \in Lock
      BY <1>2 DEF Shape, TxLock, Lock
    <2>2. CASE UNCHANGED holds
      BY <2>1, <2>2
    <2>3. CASE Take(p, TxLock(t))
      BY <2>1, <2>3 DEF Take
    <2> QED
      BY <2>2, <2>3 DEF Write
  <1> QED
    BY <1>1, <1>4, <1>6, <1>7 DEF f

LEMMA RecalcReadMoves ==
    ASSUME Shape, NEW p \in Procs, RecalcRead(p)
    PROVE  LET i == Head(tx[p].todo) IN
           /\ Moves1(p) /\ tx[p].pc = "read" /\ tx'[p].pc = "cache" /\ tx'[p].cmd = tx[p].cmd
           /\ tx'[p].rows = tx[p].rows /\ tx'[p].todo = tx[p].todo /\ tx'[p].cached = tx[p].cached
           /\ tx'[p].value = Replay(Ledger(p), i) /\ Replayable(Ledger(p), i) /\ i \in Insts
           /\ UNCHANGED <<db, holds, done>>
  <1> DEFINE i == Head(tx[p].todo)
             v == Replay(Ledger(p), i)
             r == [tx[p] EXCEPT !.pc = "cache", !.value = v]
  <1>1. tx' = [tx EXCEPT ![p] = r] /\ UNCHANGED <<db, holds, done>> /\ tx[p].pc = "read"
        /\ Replayable(Ledger(p), i)
    BY DEF RecalcRead, Shape
  <1>2. tx[p] \in Transaction /\ RequestTyped(tx[p]) /\ tx[p].todo \in Seq(Insts)
    BY TxFacts
  <1>3. i \in Insts
    BY <1>1, <1>2 DEF RequestTyped
  <1>4. v \in Values
    BY <1>1, <1>3, SeenTyped, ReplayValue
  <1> HIDE DEF v
  <1>5. /\ r \in Transaction /\ r.pc = "cache" /\ r.cmd = tx[p].cmd /\ r.rows = tx[p].rows
        /\ r.todo = tx[p].todo /\ r.cached = tx[p].cached /\ r.value = v
    BY <1>2, <1>4 DEF Transaction, Pcs
  <1> HIDE DEF r
  <1>6. RequestTyped(r)
    BY <1>1, <1>2, <1>5 DEF RequestTyped
  <1>7. Moves1(p) /\ tx'[p] = r
    BY <1>1, <1>5, <1>6, Moved
  <1> QED
    BY <1>1, <1>3, <1>5, <1>7 DEF v

LEMMA RecalcWriteMoves ==
    ASSUME Shape, NEW p \in Procs, RecalcWrite(p)
    PROVE  LET i == Head(tx[p].todo)
               c == tx[p].cached
               k == CacheLocks(p) IN
           /\ Moves1(p) /\ tx[p].pc = "cache" /\ tx'[p].cmd = tx[p].cmd
           /\ tx'[p].pc = IF Len(tx[p].todo) = 1 THEN "lock" ELSE "read"
           /\ tx'[p].rows = tx[p].rows /\ tx'[p].todo = Tail(tx[p].todo) /\ i \in Insts
           /\ tx'[p].cached = IF k = {} THEN c ELSE [x \in DOMAIN c \cup {i} |-> IF x = i THEN tx[p].value ELSE c[x]]
           /\ UNCHANGED <<db, done>> /\ holds' \in [Procs -> SUBSET Lock]
           /\ holds' = [holds EXCEPT ![p] = holds[p] \cup k] /\ k \cap Others(p) = {} /\ k \subseteq {PosLock(i)}
           /\ tx'[p].value = NoRow
  <1> DEFINE s == tx[p].todo
             c == tx[p].cached
             v == tx[p].value
             i == Head(s)
             k == CacheLocks(p)
             c2 == IF k = {} THEN c ELSE [x \in DOMAIN c \cup {i} |-> IF x = i THEN v ELSE c[x]]
             pc == IF Len(s) = 1 THEN "lock" ELSE "read"
             r == [tx[p] EXCEPT !.pc = pc, !.todo = Tail(s), !.value = NoRow, !.cached = c2]
  <1>1. /\ tx' = [tx EXCEPT ![p] = r] /\ UNCHANGED <<db, done>> /\ tx[p].pc = "cache"
        /\ holds' = [holds EXCEPT ![p] = holds[p] \cup k] /\ k \cap Others(p) = {}
    BY DEF RecalcWrite, Shape
  <1>2. tx[p] \in Transaction /\ RequestTyped(tx[p]) /\ s \in Seq(Insts) /\ c \in Cached /\ v \in Values
    BY TxFacts
  <1>3. i \in Insts /\ s # <<>> /\ Tail(s) \in Seq(Insts) /\ (Len(s) # 1 => Tail(s) # <<>>)
        /\ tx[p].cmd.op \in Writers
    BY <1>1, <1>2, SequenceFacts DEF RequestTyped
  <1>4. k \subseteq {PosLock(i)} /\ PosLock(i) \in Lock
    BY <1>3 DEF CacheLocks, PosLock, Lock
  <1>5. c2 \in Cached
    BY <1>2, <1>3, CachedIs
  <1>6. NoRow \in Values /\ pc \in Pcs /\ pc \in {"lock", "read"} /\ (pc = "read" => Tail(s) # <<>>)
    BY <1>3 DEF Values, Pcs
  <1> HIDE DEF pc, s, c2, k
  <1>7. /\ r \in Transaction /\ r.pc = pc /\ r.cmd = tx[p].cmd /\ r.rows = tx[p].rows
        /\ r.todo = Tail(s) /\ r.cached = c2 /\ r.value = NoRow
    BY <1>2, <1>3, <1>5, <1>6 DEF Transaction
  <1> HIDE DEF r
  <1>8. RequestTyped(r)
    BY <1>1, <1>2, <1>3, <1>6, <1>7 DEF RequestTyped
  <1>9. Moves1(p) /\ tx'[p] = r
    BY <1>1, <1>7, <1>8, Moved
  <1>10. holds' \in [Procs -> SUBSET Lock]
    BY <1>1, <1>4 DEF Shape
  <1> QED
    BY <1>1, <1>3, <1>4, <1>7, <1>9, <1>10 DEF pc, s, c2, k

-----------------------------------------------------------------------------
\* The steps of a request that locks and computes: they leave the tables, what
\* it was asked, and what it has written.
Computes(p) ==
    /\ Moves1(p)
    /\ tx'[p].cmd = tx[p].cmd /\ tx'[p].rows = tx[p].rows /\ tx'[p].todo = tx[p].todo
    /\ tx'[p].cached = tx[p].cached
    /\ UNCHANGED <<db, done>>

LEMMA PositionsMoves ==
    ASSUME Shape, NEW p \in Procs, LockPositions(p)
    PROVE  /\ Computes(p) /\ tx[p].pc = "lock" /\ tx'[p].pc = "positions" /\ UNCHANGED holds
           /\ tx'[p].want = {PosLock(i) : i \in {j \in Insts : Cache(p)[j] # NoRow}}
           /\ tx'[p].held = tx[p].held /\ tx'[p].value = tx[p].value
  <1> DEFINE k == {PosLock(i) : i \in {j \in Insts : Cache(p)[j] # NoRow}}
             r == [tx[p] EXCEPT !.pc = "positions", !.want = k]
  <1>1. tx[p].pc = "lock" /\ tx' = [tx EXCEPT ![p] = r] /\ UNCHANGED <<db, holds, done>>
    BY DEF LockPositions, Shape
  <1>2. tx[p] \in Transaction /\ RequestTyped(tx[p])
    BY TxFacts
  <1>3. k \in SUBSET Lock
    BY DEF Lock, PosLock
  <1> HIDE DEF k
  <1>4. /\ r \in Transaction /\ r.pc = "positions" /\ r.cmd = tx[p].cmd /\ r.todo = tx[p].todo
        /\ r.rows = tx[p].rows /\ r.cached = tx[p].cached /\ r.want = k
        /\ r.held = tx[p].held /\ r.value = tx[p].value
    BY <1>2, <1>3 DEF Transaction, Pcs
  <1> HIDE DEF r
  <1>5. RequestTyped(r)
    BY <1>1, <1>2, <1>4 DEF RequestTyped
  <1>6. Moves1(p) /\ tx'[p] = r
    BY <1>1, <1>4, <1>5, Moved
  <1> QED
    BY <1>1, <1>4, <1>6 DEF Computes, k

LEMMA AllocationsMoves ==
    ASSUME Shape, NEW p \in Procs, LockAllocations(p)
    PROVE  /\ Computes(p) /\ tx[p].pc = "positions" /\ tx'[p].pc = "allocations" /\ UNCHANGED holds
           /\ tx[p].want \subseteq holds[p] /\ tx'[p].seen = {w \in Wallets : alloc[w] > 0}
           /\ tx'[p].held = tx[p].held /\ tx'[p].value = tx[p].value
  <1> DEFINE s == {w \in Wallets : alloc[w] > 0}
             k == {AllocLock(w) : w \in s}
             r == [tx[p] EXCEPT !.pc = "allocations", !.seen = s, !.want = k]
  <1>1. /\ tx[p].pc = "positions" /\ tx' = [tx EXCEPT ![p] = r] /\ UNCHANGED <<db, holds, done>>
        /\ tx[p].want \subseteq holds[p]
    <2>1. /\ tx[p].pc = "positions" /\ UNCHANGED <<db, holds, done>> /\ tx[p].want \subseteq holds[p]
      BY Zenon DEF LockAllocations
    <2>3. tx' = [tx EXCEPT ![p].pc = "allocations", ![p].seen = s, ![p].want = k]
      BY Zenon DEF LockAllocations
    <2>2. tx \in [Procs -> Transaction]
      BY DEF Shape
    <2> HIDE DEF k, s
    <2> QED
      BY <2>1, <2>2, <2>3
  <1>2. tx[p] \in Transaction /\ RequestTyped(tx[p])
    BY TxFacts
  <1>3. k \in SUBSET Lock /\ s \in SUBSET Wallets
    BY DEF Lock, AllocLock
  <1> HIDE DEF k, s
  <1>4. /\ r \in Transaction /\ r.pc = "allocations" /\ r.cmd = tx[p].cmd /\ r.todo = tx[p].todo
        /\ r.rows = tx[p].rows /\ r.cached = tx[p].cached /\ r.seen = s
        /\ r.held = tx[p].held /\ r.value = tx[p].value
    BY <1>2, <1>3 DEF Transaction, Pcs
  <1> HIDE DEF r
  <1>5. RequestTyped(r)
    BY <1>1, <1>2, <1>4 DEF RequestTyped
  <1>6. Moves1(p) /\ tx'[p] = r
    BY <1>1, <1>4, <1>5, Moved
  <1> QED
    BY <1>1, <1>4, <1>6 DEF Computes, s

LEMMA DroppedMoves ==
    ASSUME Shape, NEW p \in Procs, LockDropped(p)
    PROVE  /\ Computes(p) /\ tx[p].pc = "drop" /\ tx'[p].pc = "allocations" /\ UNCHANGED holds
           /\ tx[p].cmd.op = "drop" /\ tx'[p].seen = tx[p].seen
           /\ tx'[p].held = tx[p].held /\ tx'[p].value = tx[p].value
  <1> DEFINE w == tx[p].cmd.wallet
             k == IF alloc[w] > 0 THEN {AllocLock(w)} ELSE {}
             r == [tx[p] EXCEPT !.pc = "allocations", !.want = k]
  <1>1. tx[p].pc = "drop" /\ tx' = [tx EXCEPT ![p] = r] /\ UNCHANGED <<db, holds, done>>
    BY DEF LockDropped, Shape
  <1>2. tx[p] \in Transaction /\ RequestTyped(tx[p])
    BY TxFacts
  <1>3. tx[p].cmd.op = "drop" /\ w \in Wallets
    BY <1>1, <1>2 DEF RequestTyped
  <1>4. k \in SUBSET Lock
    BY <1>3 DEF Lock, AllocLock
  <1> HIDE DEF k
  <1>5. /\ r \in Transaction /\ r.pc = "allocations" /\ r.cmd = tx[p].cmd /\ r.todo = tx[p].todo
        /\ r.rows = tx[p].rows /\ r.cached = tx[p].cached /\ r.seen = tx[p].seen
        /\ r.held = tx[p].held /\ r.value = tx[p].value
    BY <1>2, <1>4 DEF Transaction, Pcs
  <1> HIDE DEF r
  <1>6. RequestTyped(r)
    BY <1>1, <1>2, <1>5 DEF RequestTyped
  <1>7. Moves1(p) /\ tx'[p] = r
    BY <1>1, <1>5, <1>6, Moved
  <1> QED
    BY <1>1, <1>3, <1>5, <1>7 DEF Computes

LEMMA WantedMoves ==
    ASSUME Shape, NEW p \in Procs, TakeWanted(p)
    PROVE  /\ Computes(p) /\ tx[p].pc \in {"positions", "allocations"} /\ tx'[p].pc = tx[p].pc
           /\ tx'[p].seen = tx[p].seen /\ tx'[p].held = tx[p].held /\ tx'[p].value = tx[p].value
           /\ holds' \in [Procs -> SUBSET Lock]
           /\ holds' = [holds EXCEPT ![p] = holds'[p]] /\ holds[p] \subseteq holds'[p]
           /\ holds'[p] \cap Others(p) \subseteq holds[p]
           /\ \A k \in tx[p].want : k \in tx'[p].want \cup holds'[p] \/ ~Stored(k)
  <1>1. tx[p] \in Transaction /\ RequestTyped(tx[p]) /\ tx[p].want \in SUBSET Lock
    BY TxFacts
  <1>2. PICK k \in tx[p].want \ holds[p] :
           IF Stored(k) THEN Take(p, k) /\ UNCHANGED tx
           ELSE /\ k \notin Others(p)
                /\ tx' = [tx EXCEPT ![p].want = @ \ {k}]
                /\ UNCHANGED holds
    BY DEF TakeWanted
  <1>3. tx[p].pc \in {"positions", "allocations"} /\ UNCHANGED <<db, done>>
    BY DEF TakeWanted
  <1>4. holds \in [Procs -> SUBSET Lock]
    BY DEF Shape
  <1>5. CASE Stored(k)
    <2>1. holds' = [holds EXCEPT ![p] = holds[p] \cup {k}] /\ k \notin Others(p) /\ UNCHANGED tx
      BY <1>2, <1>4, <1>5 DEF Take
    <2>2. Moves1(p)
      BY <2>1 DEF Moves1, Shape
    <2> QED
      BY <1>1, <1>3, <1>4, <2>1, <2>2 DEF Computes
  <1>6. CASE ~Stored(k)
    <2> DEFINE u == tx[p].want \ {k}
               r == [tx[p] EXCEPT !.want = u]
    <2>1. tx' = [tx EXCEPT ![p] = r] /\ UNCHANGED holds
      BY <1>2, <1>6 DEF Shape
    <2>2. u \in SUBSET Lock
      BY <1>1
    <2> HIDE DEF u
    <2>3. /\ r \in Transaction /\ r.pc = tx[p].pc /\ r.cmd = tx[p].cmd /\ r.todo = tx[p].todo
          /\ r.rows = tx[p].rows /\ r.cached = tx[p].cached /\ r.seen = tx[p].seen
          /\ r.held = tx[p].held /\ r.value = tx[p].value /\ r.want = u
      BY <1>1, <2>2 DEF Transaction
    <2> HIDE DEF r
    <2>4. RequestTyped(r)
      BY <1>1, <2>3 DEF RequestTyped
    <2>5. Moves1(p) /\ tx'[p] = r
      BY <2>1, <2>3, <2>4, Moved
    <2>6. \A x \in tx[p].want : x \in u \/ ~Stored(x)
      BY <1>6 DEF u
    <2> QED
      BY <1>3, <1>4, <2>1, <2>3, <2>5, <2>6 DEF Computes
  <1> QED
    BY <1>5, <1>6

LEMMA ClampMoves ==
    ASSUME Shape, NEW p \in Procs, Clamp(p), Assignable(p) \in Int
    PROVE  /\ Computes(p) /\ tx[p].pc = "allocations" /\ tx'[p].pc = "clamped" /\ UNCHANGED holds
           /\ tx'[p].value \in Nat /\ tx'[p].value = Assignable(p) /\ Assignable(p) > 0
           /\ tx[p].cmd.op = "assign"
  <1> DEFINE v == Assignable(p)
             r == [tx[p] EXCEPT !.pc = "clamped", !.value = v]
  <1>1. /\ tx[p].pc = "allocations" /\ tx' = [tx EXCEPT ![p] = r] /\ UNCHANGED <<db, holds, done>>
        /\ tx[p].cmd.op = "assign" /\ v > 0
    BY DEF Clamp, Ready, Clamping, Op, Shape
  <1>2. tx[p] \in Transaction /\ RequestTyped(tx[p])
    BY TxFacts
  <1> HIDE DEF v
  <1>0. v \in Nat
    BY <1>1 DEF v
  <1>3. v \in Values
    BY <1>0 DEF Values
  <1>4. /\ r \in Transaction /\ r.pc = "clamped" /\ r.cmd = tx[p].cmd /\ r.todo = tx[p].todo
        /\ r.rows = tx[p].rows /\ r.cached = tx[p].cached /\ r.value = v
    BY <1>2, <1>3 DEF Transaction, Pcs
  <1> HIDE DEF r
  <1>5. RequestTyped(r)
    BY <1>1, <1>2, <1>4 DEF RequestTyped
  <1>6. Moves1(p) /\ tx'[p] = r
    BY <1>1, <1>4, <1>5, Moved
  <1> QED
    BY <1>0, <1>1, <1>4, <1>6 DEF Computes, v

LEMMA RelockMoves ==
    ASSUME Shape, NEW p \in Procs, Relock(p)
    PROVE  /\ Computes(p) /\ tx[p].pc = "clamped" /\ tx'[p].pc = "lock" /\ UNCHANGED holds
           /\ tx'[p].held = Held(p) /\ tx'[p].value = tx[p].value /\ tx[p].cmd.op = "assign"
  <1> DEFINE h == Held(p)
             r == [tx[p] EXCEPT !.pc = "lock", !.held = h]
  <1>1. tx[p].pc = "clamped" /\ tx' = [tx EXCEPT ![p] = r] /\ UNCHANGED <<db, holds, done>>
    BY DEF Relock, Shape
  <1>2. tx[p] \in Transaction /\ RequestTyped(tx[p]) /\ h \in Nat
    BY TxFacts, SeenTyped
  <1> HIDE DEF h
  <1>3. /\ r \in Transaction /\ r.pc = "lock" /\ r.cmd = tx[p].cmd /\ r.todo = tx[p].todo
        /\ r.rows = tx[p].rows /\ r.cached = tx[p].cached /\ r.value = tx[p].value /\ r.held = h
    BY <1>2 DEF Transaction, Pcs
  <1> HIDE DEF r
  <1>4. RequestTyped(r)
    BY <1>1, <1>2, <1>3 DEF RequestTyped
  <1>5. Moves1(p) /\ tx'[p] = r
    BY <1>1, <1>3, <1>4, Moved
  <1> QED
    BY <1>1, <1>2, <1>3, <1>5 DEF Computes, h, RequestTyped

\* A purchase that reads the rule goes on where it was.
LEMMA ReadRuleMoves ==
    ASSUME Shape, NEW p \in Procs, ReadRule(p)
    PROVE  /\ Computes(p) /\ tx[p].pc = "allocations" /\ tx'[p].pc = "allocations" /\ UNCHANGED holds
           /\ tx'[p].seen = tx[p].seen /\ tx'[p].want = tx[p].want /\ tx'[p].held = tx[p].held
           /\ tx'[p].value = tx[p].value /\ tx[p].cmd.op = "create" /\ tx'[p].rule = rule
  <1> DEFINE r == [tx[p] EXCEPT !.rule = rule]
  <1>1. /\ tx[p].pc = "allocations" /\ tx' = [tx EXCEPT ![p] = r] /\ UNCHANGED <<db, holds, done>>
        /\ tx[p].cmd.op = "create"
    BY DEF ReadRule, Ready, Choosing, Op, Shape
  <1>2. tx[p] \in Transaction /\ RequestTyped(tx[p]) /\ rule \in Wallets \cup {NoWallet, NoRow}
    BY TxFacts DEF Shape
  <1>3. /\ r \in Transaction /\ r.pc = tx[p].pc /\ r.cmd = tx[p].cmd /\ r.todo = tx[p].todo
        /\ r.rows = tx[p].rows /\ r.cached = tx[p].cached /\ r.seen = tx[p].seen
        /\ r.want = tx[p].want /\ r.held = tx[p].held /\ r.value = tx[p].value /\ r.rule = rule
    BY <1>2 DEF Transaction
  <1> HIDE DEF r
  <1>4. RequestTyped(r)
    BY <1>2, <1>3 DEF RequestTyped
  <1>5. Moves1(p) /\ tx'[p] = r
    BY <1>1, <1>3, <1>4, Moved
  <1> QED
    BY <1>1, <1>3, <1>5 DEF Computes

\* A refusal, a transaction aborted to break a cycle and a commit leave it idle.
Ends(p) == tx' = [tx EXCEPT ![p] = Idle] /\ holds' = [holds EXCEPT ![p] = {}]

LEMMA EndMoves ==
    ASSUME Shape, NEW p \in Procs, Ends(p)
    PROVE  Moves1(p) /\ tx'[p] = Idle /\ holds' \in [Procs -> SUBSET Lock]
  BY IdleTyped, Moved DEF Ends, Shape

-----------------------------------------------------------------------------
(* What a commit may write *)

\* The allocations a request reads.
LEMMA ReadsTyped ==
    ASSUME Shape, NEW p \in Procs
    PROVE  /\ Locked(p) \in SUBSET Wallets /\ IsFiniteSet(Locked(p))
           /\ Allocated(p) \in Nat /\ \A w : Slice(p, w) \in Nat
           /\ \A w : Total(alloc, Locked(p) \ {w}) \in Nat
  <1>1. Locked(p) \in SUBSET Wallets /\ alloc \in [Wallets -> Nat]
    BY TxFacts DEF Locked, Shape
  <1>2. \A S \in SUBSET Locked(p) : IsFiniteSet(S) /\ \A w \in S : alloc[w] \in Nat
    BY <1>1, FiniteAssumption, FS_Subset
  <1>3. \A S \in SUBSET Locked(p) : Total(alloc, S) \in Nat
    BY <1>2, SumNat, TotalIs
  <1> QED
    BY <1>1, <1>2, <1>3 DEF Allocated, Slice

LEMMA DivNat == ASSUME NEW a \in Nat, NEW b \in Nat, b > 0 PROVE a \div b \in Nat
  OBVIOUS

\* A sum of products is of naturals.
LEMMA RoundNat ==
    ASSUME NEW a \in Nat, NEW k \in Nat, NEW t \in Nat, t > 0
    PROVE  (2 * a * k + t) \div (2 * t) \in Nat
  <1>1. 2 * a * k \in Nat
    OBVIOUS
  <1> QED
    BY <1>1, DivNat

LEMMA ReducedNat ==
    ASSUME Shape, NEW p \in Procs, NEW sold \in Nat, NEW w \in DOMAIN Reduced(p, sold)
    PROVE  Reduced(p, sold)[w] \in Nat
  <1>1. CASE Allocated(p) = 0
    BY <1>1, NothingTyped DEF Reduced
  <1>2. CASE Allocated(p) # 0
    <2> DEFINE t == Allocated(p)
               k == IF sold > t THEN 0 ELSE t - sold
    <2>1. t \in Nat /\ t > 0 /\ Locked(p) \in SUBSET Wallets
      BY <1>2, ReadsTyped
    <2>2. k \in Nat
      BY <2>1
    <2>3. Reduced(p, sold) = [x \in Locked(p) |-> (2 * alloc[x] * k + t) \div (2 * t)]
      BY <1>2 DEF Reduced
    <2> HIDE DEF t, k
    <2>4. w \in Locked(p) /\ alloc[w] \in Nat
      BY <2>1, <2>3 DEF Shape
    <2>5. Reduced(p, sold)[w] = (2 * alloc[w] * k + t) \div (2 * t)
      BY <2>3, <2>4
    <2> QED
      BY <2>1, <2>2, <2>4, <2>5, RoundNat
  <1> QED
    BY <1>1, <1>2

LEMMA AssignableInt ==
    ASSUME Shape, NEW p \in Procs, tx[p].cmd.op = "assign"
    PROVE  Assignable(p) \in Int
  <1>1. tx[p].cmd.row \in Row
    BY TxFacts DEF RequestTyped
  <1> QED
    BY <1>1, RowIs, ReadsTyped, SeenTyped DEF Assignable

LEMMA ProposalNat ==
    ASSUME Shape, NEW p \in Procs, Ready(p), Accepted(p), NEW w \in DOMAIN Proposal(p)
    PROVE  Proposal(p)[w] \in Nat
  <1>1. /\ \A x : Slice(p, x) \in Nat
        /\ \A x : Total(alloc, Locked(p) \ {x}) \in Nat
        /\ Allocated(p) \in Nat /\ Held(p) \in Nat /\ tx[p].held \in Nat
        /\ tx[p].cmd.add \in Nat /\ tx[p].value \in Values
    <2>1. tx[p].cmd.add \in Adds \cup {0}
      BY TxFacts
    <2>2. tx[p].cmd.add \in Nat
      <3>1. ASSUME NEW a \in Adds \cup {0} PROVE a \in Nat
        BY WalletsAssumption
      <3> QED
        BY <2>1, <3>1
    <2>3. tx[p].held \in Nat /\ tx[p].value \in Values
      BY TxFacts
    <2> QED
      BY <2>2, <2>3, ReadsTyped, SeenTyped
  <1>2. tx[p].cmd.op \in OpNames /\ tx[p].pc = "allocations" /\ RequestTyped(tx[p])
    BY TxFacts DEF Ready
  <1>3. tx[p].cmd.op \in {"create", "assign"} => tx[p].cmd.row \in Row /\ Bought(p) \in Int /\ Bought(p) # 0
                                                /\ Sold(p) = 0 - Bought(p)
    BY <1>2, RowIs DEF RequestTyped, Bought, Sold
  <1>4. CASE tx[p].cmd.op = "create"
    <2>1. CASE Bought(p) > 0
      <3>0. ~(Sold(p) > 0)
        BY <1>3, <1>4, <2>1
      <3>1. Proposal(p) = [x \in BuyWallets(p) |-> Slice(p, x) + Bought(p)]
        BY <1>4, <2>1, <3>0 DEF Proposal, Op
      <3> QED
        BY <1>1, <1>3, <1>4, <2>1, <3>1
    <2>2. CASE ~(Bought(p) > 0)
      <3>1. Sold(p) \in Nat /\ Sold(p) > 0
        BY <1>3, <1>4, <2>2
      <3>2. Proposal(p) = IF tx[p].cmd.wallet = NoWallet THEN Reduced(p, Sold(p))
                          ELSE [x \in {tx[p].cmd.wallet} |-> Slice(p, x) - Sold(p)]
        BY <1>4, <2>2, <3>1 DEF Proposal, Op
      <3>3. tx[p].cmd.wallet # NoWallet => Slice(p, tx[p].cmd.wallet) >= Sold(p)
        BY <1>4, <3>1 DEF Accepted, Op
      <3>4. CASE tx[p].cmd.wallet = NoWallet
        BY <3>1, <3>2, <3>4, ReducedNat
      <3>5. CASE tx[p].cmd.wallet # NoWallet
        <4>1. w = tx[p].cmd.wallet /\ Proposal(p)[w] = Slice(p, w) - Sold(p)
          BY <3>2, <3>5
        <4> QED
          BY <1>1, <3>1, <3>3, <3>5, <4>1
      <3> QED
        BY <3>4, <3>5
    <2> QED
      BY <2>1, <2>2
  <1>5. CASE tx[p].cmd.op \in {"edit", "delete"}
    <2>1. Proposal(p) = IF Excess(p) > 0 THEN Reduced(p, Excess(p)) ELSE Nothing
      BY <1>5 DEF Proposal, Op
    <2>2. Excess(p) \in Int
      BY <1>1 DEF Excess
    <2> QED
      BY <2>1, <2>2, NothingTyped, ReducedNat
  <1>6. CASE tx[p].cmd.op = "allocate"
    <2>1. Proposal(p) = [x \in {tx[p].cmd.wallet} |-> Requested(p)]
      BY <1>6 DEF Proposal, Op
    <2>2. Requested(p) > 0
      BY <1>6 DEF Accepted, Fits, Op
    <2>3. Requested(p) \in Int
      <3> DEFINE x == tx[p].cmd.wallet
                 a == Slice(p, x)
                 o == Total(alloc, Locked(p) \ {x})
      <3>1. a \in Nat /\ o \in Nat
        BY <1>1
      <3>2. Requested(p) = IF tx[p].cmd.add > 0 THEN a + tx[p].cmd.add ELSE tx[p].held - o
        BY DEF Requested
      <3> HIDE DEF a, o
      <3> QED
        BY <1>1, <3>1, <3>2
    <2> QED
      BY <2>1, <2>2, <2>3
  <1>7. CASE tx[p].cmd.op = "assign"
    <2>1. Proposal(p) = IF tx[p].value = NoRow THEN Nothing
                        ELSE [x \in {tx[p].cmd.wallet} |-> Slice(p, x) + tx[p].value]
      BY <1>7 DEF Proposal, Op
    <2> QED
      BY <1>1, <2>1, NothingTyped DEF Values
  <1>8. CASE tx[p].cmd.op = "drop"
    <2>1. Proposal(p) = [x \in {tx[p].cmd.wallet} |-> 0]
      BY <1>8 DEF Proposal, Op
    <2> QED
      BY <2>1
  <1>9. tx[p].cmd.op # "rule"
    BY <1>2 DEF RequestTyped
  <1> QED
    BY <1>2, <1>4, <1>5, <1>6, <1>7, <1>8, <1>9 DEF OpNames

LEMMA CommitTyped ==
    ASSUME Shape, NEW p \in Procs, Commit(p)
    PROVE  /\ ledger' \in Ledgers /\ pos' \in Caches
           /\ alloc' \in [Wallets -> Nat] /\ log' \in [Wallets -> Nat]
           /\ wallets' \in SUBSET Wallets /\ rule' \in wallets' \cup {NoWallet}
           /\ Ends(p) /\ UNCHANGED done
  <1>1. \A w \in DOMAIN Proposal(p) : Proposal(p)[w] \in Nat
    BY ProposalNat DEF Commit
  <1>2. alloc' \in [Wallets -> Nat]
    BY <1>1, OverlayTyped DEF Commit, Shape
  <1>3. \A w \in DOMAIN Logged(p) : Logged(p)[w] \in Nat
    BY <1>1 DEF Logged
  <1>4. log' \in [Wallets -> Nat]
    BY <1>3, OverlayTyped DEF Commit, Shape
  <1>5. wallets' \in SUBSET Wallets /\ rule' \in wallets' \cup {NoWallet}
    BY DEF Commit, Shape
  <1> QED
    BY <1>2, <1>4, <1>5, SeenTyped DEF Commit, Ends

-----------------------------------------------------------------------------
LEMMA MovedShape ==
    ASSUME Shape, NEW p \in Procs, Moves1(p), holds' \in [Procs -> SUBSET Lock], done' \in [OpNames -> Nat],
           UNCHANGED db
    PROVE  Shape'
  <1>1. \A q \in Procs : RequestTyped(tx'[q])
    BY DEF Moves1, Shape
  <1> QED
    BY <1>1 DEF Shape, db, Moves1

LEMMA NextShape ==
    ASSUME Shape, [Next]_vars
    PROVE  Shape'
  <1> USE DEF db
  <1>0. holds \in [Procs -> SUBSET Lock] /\ done \in [OpNames -> Nat]
    BY DEF Shape
  <1>1. ASSUME NEW p \in Procs, Begin(p) PROVE Shape'
    BY <1>0, <1>1, Starting, Beginning, MovedShape
  <1>2. ASSUME NEW p \in Procs, Step(p) PROVE Shape'
    <2>1. CASE Write(p)
      BY <1>0, <2>1, WriteMoves, MovedShape
    <2>2. CASE RecalcRead(p)
      BY <1>0, <2>2, RecalcReadMoves, MovedShape
    <2>3. CASE RecalcWrite(p)
      BY <1>0, <2>3, RecalcWriteMoves, MovedShape
    <2>4. CASE LockPositions(p) \/ LockAllocations(p) \/ LockDropped(p) \/ Relock(p) \/ ReadRule(p)
      BY <1>0, <2>4, PositionsMoves, AllocationsMoves, DroppedMoves, RelockMoves, ReadRuleMoves, MovedShape
         DEF Computes
    <2>5. CASE RecalcRefused(p) \/ Refuse(p) \/ DeadlockAbort(p)
      <3>1. Ends(p) /\ UNCHANGED <<db, done>>
        BY <2>5 DEF RecalcRefused, Refuse, DeadlockAbort, Rollback, Ends
      <3> QED
        BY <1>0, <3>1, EndMoves, MovedShape
    <2>6. CASE TakeWanted(p)
      BY <1>0, <2>6, WantedMoves, MovedShape DEF Computes
    <2>7. CASE Clamp(p)
      <3>1. Assignable(p) \in Int
        BY <2>7, AssignableInt DEF Clamp, Clamping, Op
      <3> QED
        BY <1>0, <2>7, <3>1, ClampMoves, MovedShape DEF Computes
    <2>8. CASE Commit(p)
      <3>1. Moves1(p) /\ holds' \in [Procs -> SUBSET Lock]
        BY <2>8, CommitTyped, EndMoves
      <3>2. \A q \in Procs : RequestTyped(tx'[q])
        BY <3>1 DEF Moves1, Shape
      <3> QED
        BY <1>0, <2>8, <3>1, <3>2, CommitTyped DEF Shape, Moves1
    <2> QED
      BY <1>2, <2>1, <2>2, <2>3, <2>4, <2>5, <2>6, <2>7, <2>8 DEF Step
  <1>3. ASSUME NEW w \in Wallets \cup {NoWallet}, SetRule(w) PROVE Shape'
    BY <1>3, LoadsAssumption DEF SetRule, Load, Shape
  <1>4. CASE UNCHANGED vars
    BY <1>4 DEF vars, Shape
  <1> QED
    BY <1>1, <1>2, <1>3, <1>4 DEF Next

LEMMA InitShape == ASSUME Init PROVE Shape
  <1>1. ledger \in Ledgers /\ \A i \in Insts : Replayable(ledger, i)
    BY RowsAssumption DEF Init, Ledgers
  <1>2. pos = [i \in Insts |-> Replay(ledger, i)]
    BY DEF Init
  <1>3. pos \in Caches
    BY <1>1, <1>2, ReplayValue DEF Caches
  <1>4. \A p \in Procs : tx[p] = Idle
    BY DEF Init
  <1>5. tx \in [Procs -> Transaction] /\ \A p \in Procs : RequestTyped(tx[p])
    BY <1>4, IdleTyped DEF Init
  <1>6. alloc \in [Wallets -> Nat]
    <2>1. alloc \in [Wallets -> {0} \cup Adds]
      BY DEF Init
    <2>2. {0} \cup Adds \subseteq Nat
      BY WalletsAssumption
    <2> QED
      BY <2>1, <2>2
  <1>7. holds \in [Procs -> SUBSET Lock] /\ done \in [OpNames -> Nat]
    BY DEF Init
  <1> QED
    BY <1>1, <1>3, <1>5, <1>6, <1>7 DEF Init, Shape

LEMMA ShapeTyped == ASSUME Shape PROVE TypeOK
  <1>1. ASSUME NEW p \in Procs
        PROVE  /\ tx[p].pc \in Pcs
               /\ tx[p].cmd \in Command
               /\ tx[p].todo \in Seq(Insts)
               /\ tx[p].value \in Nat \cup {NoRow}
               /\ tx[p].held \in Nat
               /\ tx[p].rule \in Wallets \cup {NoWallet, NoRow}
               /\ tx[p].seen \in SUBSET Wallets
               /\ tx[p].want \in SUBSET Lock
               /\ DOMAIN tx[p].rows \subseteq Ids /\ DOMAIN tx[p].cached \subseteq Insts
               /\ tx[p].rows \in [DOMAIN tx[p].rows -> Row \cup {NoRow}]
               /\ tx[p].cached \in [DOMAIN tx[p].cached -> Nat \cup {NoRow}]
    BY TxFacts, WrittenIs, CachedIs DEF Values
  <1> QED
    BY <1>1 DEF Shape, TypeOK, Ledgers, Caches, Values

LEMMA AlwaysShape == Spec => []Shape
  BY InitShape, NextShape, PTL DEF Spec

\* Every variable keeps its type, for any requests that overlap in any way: in
\* particular no cached position and no allocation is ever below zero
\* (recalculatePositionFrom, applyProportionalSell, applySpecifiedWalletSell).
THEOREM TypeCorrect == Spec => []TypeOK
  BY AlwaysShape, ShapeTyped, PTL

-----------------------------------------------------------------------------
(* The allocation log *)

\* What the hazard at wallet-repository.ts:206 needs is a request that may add
\* to a wallet that held nothing when its deletion began.
DropsApart ==
    \A p, q \in Procs : p # q /\ tx[p].cmd.op = "drop" /\ tx[p].seen = {}
                           => tx[q].cmd.op \notin {"create", "allocate", "assign"}

LogInv ==
    /\ log = alloc
    /\ \A p \in Procs : tx[p].cmd.op = "drop" =>
         \/ tx[p].seen = {tx[p].cmd.wallet}
         \/ tx[p].seen = {} /\ alloc[tx[p].cmd.wallet] = 0

LEMMA StillLogged ==
    ASSUME Shape, LogInv, NEW p \in Procs, Moves1(p), UNCHANGED db,
           tx'[p].cmd.op = "drop" => tx'[p].cmd = tx[p].cmd /\ tx'[p].seen = tx[p].seen
    PROVE  LogInv'
  BY DEF LogInv, Moves1, db

\* An edit or a deletion takes from the allocations it finds, and adds none.
LEMMA ReconcileTakes ==
    ASSUME Shape, NEW p \in Procs, tx[p].cmd.op \in {"edit", "delete"}
    PROVE  DOMAIN Proposal(p) \subseteq Locked(p)
  <1>1. Proposal(p) = IF Excess(p) > 0 THEN Reduced(p, Excess(p)) ELSE Nothing
    BY DEF Proposal, Op
  <1>2. DOMAIN Reduced(p, Excess(p)) \subseteq Locked(p)
    BY NothingTyped DEF Reduced
  <1> QED
    BY <1>1, <1>2, NothingTyped

LEMMA CommitLogs ==
    ASSUME Shape, LogInv, DropsApart, NEW p \in Procs, Commit(p)
    PROVE  LogInv'
  <1>1. /\ alloc' = Overlay(Proposal(p), alloc) /\ log' = Overlay(Logged(p), log)
        /\ alloc \in [Wallets -> Nat] /\ log = alloc
    BY DEF Commit, Shape, LogInv
  <1>2. tx'[p] = Idle /\ \A q \in Procs : q # p => tx'[q] = tx[q]
    BY CommitTyped, EndMoves DEF Moves1
  <1>3. tx[p].cmd.op \in OpNames /\ RequestTyped(tx[p]) /\ tx[p].pc = "allocations"
    BY TxFacts DEF Commit, Ready
  <1> DEFINE w == tx[p].cmd.wallet
  <1>4. CASE tx[p].cmd.op = "drop"
    <2>1. Proposal(p) = [x \in {w} |-> 0] /\ Logged(p) = [x \in tx[p].seen |-> 0]
      BY <1>4 DEF Proposal, Logged, Op
    <2>2. w \in Wallets /\ (tx[p].seen = {w} \/ (tx[p].seen = {} /\ alloc[w] = 0))
      BY <1>3, <1>4 DEF LogInv, RequestTyped
    <2>3. alloc' = [x \in Wallets |-> IF x = w THEN 0 ELSE alloc[x]]
      BY <1>1, <2>1 DEF Overlay
    <2>4. log' = [x \in Wallets |-> IF x \in tx[p].seen THEN 0 ELSE alloc[x]]
      BY <1>1, <2>1 DEF Overlay
    <2>5. \A x \in Wallets : log'[x] = alloc'[x]
      BY <2>2, <2>3, <2>4
    <2>6. log' = alloc'
      BY <2>3, <2>4, <2>5
    <2>7. \A x \in Wallets : alloc[x] = 0 => alloc'[x] = 0
      BY <2>3
    <2>8. \A q \in Procs : tx'[q].cmd.op = "drop" => tx'[q].cmd.wallet \in Wallets /\ q # p
      BY <1>2, TxFacts, IdleTyped, NoCommandTyped DEF RequestTyped
    <2> QED
      BY <1>2, <2>6, <2>7, <2>8 DEF LogInv
  <1>5. CASE tx[p].cmd.op # "drop"
    <2>1. Logged(p) = Proposal(p)
      BY <1>5 DEF Logged, Op
    <2>2. log' = alloc'
      BY <1>1, <2>1
    <2>3. ASSUME NEW q \in Procs, tx'[q].cmd.op = "drop"
          PROVE  tx'[q].seen = {tx'[q].cmd.wallet} \/ (tx'[q].seen = {} /\ alloc'[tx'[q].cmd.wallet] = 0)
      <3> DEFINE v == tx[q].cmd.wallet
      <3>1. q # p /\ tx'[q] = tx[q]
        BY <1>2, <2>3, IdleTyped, NoCommandTyped
      <3>2. CASE tx[q].seen = {v}
        BY <3>1, <3>2
      <3>3. CASE tx[q].seen # {v}
        <4>1. tx[q].seen = {} /\ alloc[v] = 0 /\ v \in Wallets
          BY <2>3, <3>1, <3>3, TxFacts DEF LogInv, RequestTyped
        <4>2. tx[p].cmd.op \in {"edit", "delete"}
          <5>1. tx[p].cmd.op \notin {"create", "allocate", "assign"}
            BY <2>3, <3>1, <4>1 DEF DropsApart
          <5>2. tx[p].cmd.op # "rule"
            BY <1>3 DEF RequestTyped
          <5> QED
            BY <1>3, <1>5, <5>1, <5>2 DEF OpNames
        <4>3. v \notin DOMAIN Proposal(p)
          BY <4>1, <4>2, ReconcileTakes DEF Locked
        <4>4. alloc'[v] = 0
          BY <1>1, <4>1, <4>3, Overlaid
        <4> QED
          BY <3>1, <4>1, <4>4
      <3> QED
        BY <3>2, <3>3
    <2> QED
      BY <2>2, <2>3 DEF LogInv
  <1> QED
    BY <1>4, <1>5

LEMMA NextLogs ==
    ASSUME Shape, LogInv, DropsApart, [Next]_vars
    PROVE  LogInv'
  <1>1. ASSUME NEW p \in Procs, Begin(p) PROVE LogInv'
    <2>1. UNCHANGED db
      BY <1>1, Starting
    <2>2. ASSUME NEW w \in Wallets, BeginDrop(p, w) PROVE LogInv'
      <3>1. alloc \in [Wallets -> Nat]
        BY DEF Shape
      <3>2. alloc[w] \in Nat
        BY <3>1
      <3>3. /\ tx'[p].cmd.wallet = w /\ tx'[p].seen = (IF alloc[w] > 0 THEN {w} ELSE {})
            /\ \A q \in Procs : q # p => tx'[q] = tx[q]
        BY <2>2, DropStarts DEF Moves1
      <3>4. alloc[w] > 0 \/ alloc[w] = 0
        BY <3>2
      <3> QED
        BY <2>1, <3>3, <3>4 DEF LogInv, db
    <2>3. CASE \A w \in Wallets : ~BeginDrop(p, w)
      <3>1. Moves1(p) /\ tx'[p].cmd.op # "drop"
        BY <1>1, <2>3, CreateStarts, EditStarts, DeleteStarts, AllocateStarts, AssignStarts DEF Begin
      <3> QED
        BY <2>1, <3>1, StillLogged
    <2> QED
      BY <2>2, <2>3
  <1>2. ASSUME NEW p \in Procs, Step(p) PROVE LogInv'
    <2>0. RequestTyped(tx[p])
      BY TxFacts
    <2>1. CASE Write(p) \/ RecalcRead(p) \/ RecalcWrite(p)
      <3>1. Moves1(p) /\ UNCHANGED db /\ tx[p].pc \in {"write", "read", "cache"} /\ tx'[p].cmd = tx[p].cmd
        BY <2>1, WriteMoves, RecalcReadMoves, RecalcWriteMoves
      <3>2. tx'[p].cmd.op # "drop"
        BY <2>0, <3>1 DEF RequestTyped, Writers
      <3> QED
        BY <3>1, <3>2, StillLogged
    <2>2. CASE LockPositions(p) \/ LockAllocations(p) \/ Relock(p)
      <3>1. Computes(p) /\ tx[p].pc \in {"lock", "positions", "clamped"}
        BY <2>2, PositionsMoves, AllocationsMoves, RelockMoves
      <3>2. tx'[p].cmd.op # "drop"
        BY <2>0, <3>1 DEF RequestTyped, Computes
      <3> QED
        BY <3>1, <3>2, StillLogged DEF Computes
    <2>3. CASE LockDropped(p) \/ TakeWanted(p) \/ ReadRule(p)
      BY <2>3, DroppedMoves, WantedMoves, ReadRuleMoves, StillLogged DEF Computes
    <2>4. CASE Clamp(p)
      BY <2>4, AssignableInt, ClampMoves, StillLogged DEF Computes, Clamp, Clamping, Op
    <2>5. CASE RecalcRefused(p) \/ Refuse(p) \/ DeadlockAbort(p)
      <3>1. Ends(p) /\ UNCHANGED db
        BY <2>5 DEF RecalcRefused, Refuse, DeadlockAbort, Rollback, Ends
      <3> QED
        BY <3>1, EndMoves, IdleTyped, NoCommandTyped, StillLogged
    <2>6. CASE Commit(p)
      BY <2>6, CommitLogs
    <2> QED
      BY <1>2, <2>1, <2>2, <2>3, <2>4, <2>5, <2>6 DEF Step
  <1>3. ASSUME NEW w \in Wallets \cup {NoWallet}, SetRule(w) PROVE LogInv'
    BY <1>3 DEF SetRule, LogInv
  <1>4. CASE UNCHANGED vars
    BY <1>4 DEF vars, db, LogInv
  <1> QED
    BY <1>1, <1>2, <1>3, <1>4 DEF Next

\* While no wallet that holds nothing is being deleted beside a request that may
\* add to it, the last allocation event of every wallet says what the wallet
\* holds (upsert, delete, deleteForWallet), whatever else overlaps.
THEOREM LogFollows == Spec /\ []DropsApart => []LogAgrees
  <1>1. Init => LogInv
    BY IdleTyped, NoCommandTyped DEF Init, LogInv
  <1>2. Shape /\ LogInv /\ DropsApart /\ [Next]_vars => LogInv'
    BY NextLogs
  <1>3. LogInv => LogAgrees
    BY DEF LogInv, LogAgrees
  <1> QED
    BY <1>1, <1>2, <1>3, AlwaysShape, PTL DEF Spec

-----------------------------------------------------------------------------
(* The locks of lockForAsset *)

\* No two transactions hold one row.
Disjoint == \A p, q \in Procs : p # q => holds[p] \cap holds[q] = {}

\* Past the locks of its latest lockForAsset, or between an assignment's two.
Locking(p) ==
    /\ tx[p].cmd.op # "drop"
    /\ tx[p].pc \in {"allocations", "clamped"} \/ (tx[p].cmd.op = "assign" /\ tx[p].value # NoRow)

\* While the asset keeps a position at i, whoever passes the locks has its row.
Keyed(p, i) ==
    /\ i \in DOMAIN tx[p].cached => PosLock(i) \in holds[p]
    /\ tx[p].pc = "positions" => PosLock(i) \in tx[p].want \cup holds[p]
    /\ Locking(p) => PosLock(i) \in holds[p]

LocksInv(i) == Disjoint /\ \A p \in Procs : Keyed(p, i)

\* So one request at a time is past them.
LEMMA OneLocks ==
    ASSUME NEW i, LocksInv(i), NEW p \in Procs, NEW q \in Procs, Locking(p), Locking(q)
    PROVE  p = q
  BY DEF LocksInv, Keyed, Disjoint

\* A step of p that gives it no lock another holds.
LEMMA LocksKept ==
    ASSUME Shape, NEW i \in Insts, LocksInv(i), NEW p \in Procs, Moves1(p),
           NEW h, holds' = [holds EXCEPT ![p] = h], h \cap Others(p) = {}, Keyed(p, i)'
    PROVE  LocksInv(i)'
  <1>1. holds'[p] = h /\ \A q \in Procs : q # p => holds'[q] = holds[q] /\ tx'[q] = tx[q]
    BY DEF Shape, Moves1
  <1>2. Disjoint'
    <2>1. \A q \in Procs : q # p => h \cap holds[q] = {}
      BY DEF Others
    <2> QED
      BY <1>1, <2>1 DEF Disjoint, LocksInv
  <1>3. \A q \in Procs : q # p => Keyed(q, i)'
    BY <1>1 DEF LocksInv, Keyed, Locking
  <1> QED
    BY <1>2, <1>3 DEF LocksInv

LEMMA OwnLocks ==
    ASSUME Shape, Disjoint, NEW p \in Procs
    PROVE  holds[p] \cap Others(p) = {} /\ holds = [holds EXCEPT ![p] = holds[p]]
  BY DEF Disjoint, Others, Shape

LEMMA NextLocks ==
    ASSUME Shape, NEW i \in Insts, LocksInv(i), pos[i] # NoRow, [Next]_vars
    PROVE  LocksInv(i)'
  <1>0. Disjoint /\ holds \in [Procs -> SUBSET Lock]
    BY DEF LocksInv, Shape
  <1>1. ASSUME NEW p \in Procs, Begin(p) PROVE LocksInv(i)'
    <2>1. Moves1(p) /\ tx[p].pc = "idle" /\ UNCHANGED holds
      BY <1>1, Starting, Beginning
    <2>2. tx'[p].cached = Nothing /\ tx'[p].pc \in {"write", "lock", "drop"}
          /\ (tx'[p].cmd.op = "assign" => tx'[p].value = NoRow)
      BY <1>1, CreateStarts, EditStarts, DeleteStarts, AllocateStarts, AssignStarts, DropStarts DEF Begin
    <2>3. Keyed(p, i)'
      BY <2>2, NothingTyped DEF Keyed, Locking
    <2> QED
      BY <1>0, <2>1, <2>3, OwnLocks, LocksKept
  <1>2. ASSUME NEW p \in Procs, Step(p) PROVE LocksInv(i)'
    <2>0. RequestTyped(tx[p]) /\ Keyed(p, i) /\ holds[p] \cap Others(p) = {}
      BY <1>0, TxFacts, OwnLocks DEF LocksInv
    <2>1. CASE Write(p)
      <3>1. /\ Moves1(p) /\ tx[p].pc = "write" /\ tx'[p].pc = "read" /\ tx'[p].cmd = tx[p].cmd
            /\ tx'[p].cached = tx[p].cached
            /\ holds' = [holds EXCEPT ![p] = holds'[p]] /\ holds[p] \subseteq holds'[p]
            /\ \A k \in holds'[p] : k \in holds[p] \/ k \notin Others(p)
        BY <2>1, WriteMoves
      <3>2. holds'[p] \cap Others(p) = {}
        BY <2>0, <3>1
      <3>3. Keyed(p, i)'
        BY <2>0, <3>1 DEF Keyed, Locking, RequestTyped, Writers
      <3> QED
        BY <3>1, <3>2, <3>3, LocksKept
    <2>2. CASE RecalcRead(p)
      <3>1. /\ Moves1(p) /\ tx[p].pc = "read" /\ tx'[p].pc = "cache" /\ tx'[p].cmd = tx[p].cmd
            /\ tx'[p].cached = tx[p].cached /\ UNCHANGED holds
        BY <2>2, RecalcReadMoves
      <3>2. Keyed(p, i)'
        BY <2>0, <3>1 DEF Keyed, Locking, RequestTyped, Writers
      <3> QED
        BY <1>0, <2>0, <3>1, <3>2, OwnLocks, LocksKept
    <2>3. CASE RecalcWrite(p)
      <3> DEFINE j == Head(tx[p].todo)
                 c == tx[p].cached
                 k == CacheLocks(p)
      <3>1. /\ Moves1(p) /\ tx[p].pc = "cache" /\ tx'[p].cmd = tx[p].cmd
            /\ tx'[p].pc = IF Len(tx[p].todo) = 1 THEN "lock" ELSE "read"
            /\ tx'[p].cached = IF k = {} THEN c ELSE [x \in DOMAIN c \cup {j} |-> IF x = j THEN tx[p].value ELSE c[x]]
            /\ holds' = [holds EXCEPT ![p] = holds[p] \cup k] /\ k \cap Others(p) = {} /\ k \subseteq {PosLock(j)}
        BY <2>3, RecalcWriteMoves
      <3>2. holds'[p] = holds[p] \cup k /\ (holds[p] \cup k) \cap Others(p) = {}
        BY <1>0, <2>0, <3>1
      <3>3. tx[p].cmd.op \in Writers /\ tx'[p].pc \in {"lock", "read"}
        BY <2>0, <3>1 DEF RequestTyped
      <3>4. i \in DOMAIN tx'[p].cached => i \in DOMAIN c \/ (i = j /\ k = {PosLock(j)})
        <4> HIDE DEF j, c, k
        <4> QED
          BY <3>1
      <3>5. Keyed(p, i)'
        BY <2>0, <3>1, <3>2, <3>3, <3>4 DEF Keyed, Locking, Writers
      <3> HIDE DEF k
      <3> QED
        BY <3>1, <3>2, <3>5, LocksKept
    <2>4. CASE LockPositions(p)
      <3>1. /\ Computes(p) /\ tx[p].pc = "lock" /\ tx'[p].pc = "positions" /\ UNCHANGED holds
            /\ tx'[p].want = {PosLock(x) : x \in {j \in Insts : Cache(p)[j] # NoRow}}
            /\ tx'[p].value = tx[p].value
        BY <2>4, PositionsMoves
      <3>2. i \notin DOMAIN tx[p].cached => PosLock(i) \in tx'[p].want
        <4>1. i \notin DOMAIN tx[p].cached => Cache(p)[i] = pos[i]
          BY TxFacts, Overlaid DEF Cache, Caches
        <4> QED
          BY <3>1, <4>1
      <3>3. Keyed(p, i)'
        BY <2>0, <3>1, <3>2 DEF Keyed, Locking, Computes
      <3> QED
        BY <1>0, <2>0, <3>1, <3>3, OwnLocks, LocksKept DEF Computes
    <2>5. CASE LockAllocations(p) \/ LockDropped(p) \/ Relock(p)
      <3>1. /\ Computes(p) /\ UNCHANGED holds /\ tx'[p].value = tx[p].value
            /\ tx[p].pc = "positions" => tx'[p].pc = "allocations" /\ tx[p].want \subseteq holds[p]
            /\ tx[p].pc # "positions" => \/ tx[p].cmd.op = "drop" /\ tx'[p].pc = "allocations"
                                         \/ tx[p].pc = "clamped" /\ tx'[p].pc = "lock"
        BY <2>5, AllocationsMoves, DroppedMoves, RelockMoves
      <3>2. Keyed(p, i)'
        BY <2>0, <3>1 DEF Keyed, Locking, Computes, RequestTyped
      <3> QED
        BY <1>0, <2>0, <3>1, <3>2, OwnLocks, LocksKept DEF Computes
    <2>6. CASE TakeWanted(p)
      <3>1. /\ Computes(p) /\ tx[p].pc \in {"positions", "allocations"} /\ tx'[p].pc = tx[p].pc
            /\ tx'[p].value = tx[p].value
            /\ holds' = [holds EXCEPT ![p] = holds'[p]] /\ holds[p] \subseteq holds'[p]
            /\ holds'[p] \cap Others(p) \subseteq holds[p]
            /\ \A k \in tx[p].want : k \in tx'[p].want \cup holds'[p] \/ ~Stored(k)
        BY <2>6, WantedMoves
      <3>2. Stored(PosLock(i))
        BY DEF Stored
      <3>3. Keyed(p, i)'
        BY <2>0, <3>1, <3>2 DEF Keyed, Locking, Computes
      <3>4. holds'[p] \cap Others(p) = {}
        BY <2>0, <3>1
      <3> QED
        BY <3>1, <3>3, <3>4, LocksKept DEF Computes
    <2>7. CASE Clamp(p)
      <3>1. Computes(p) /\ tx[p].pc = "allocations" /\ tx'[p].pc = "clamped" /\ UNCHANGED holds
            /\ tx[p].cmd.op = "assign"
        BY <2>7, AssignableInt, ClampMoves DEF Clamp, Clamping, Op
      <3>2. Keyed(p, i)'
        BY <2>0, <3>1 DEF Keyed, Locking, Computes
      <3> QED
        BY <1>0, <2>0, <3>1, <3>2, OwnLocks, LocksKept DEF Computes
    <2>8. CASE RecalcRefused(p) \/ Refuse(p) \/ DeadlockAbort(p) \/ Commit(p)
      <3>1. Ends(p)
        BY <2>8, CommitTyped DEF RecalcRefused, Refuse, DeadlockAbort, Rollback, Ends
      <3>2. Moves1(p) /\ tx'[p] = Idle /\ holds' = [holds EXCEPT ![p] = {}]
        BY <3>1, EndMoves DEF Ends
      <3>3. Keyed(p, i)'
        BY <3>2, IdleTyped, NoCommandTyped, NothingTyped DEF Keyed, Locking
      <3>4. {} \cap Others(p) = {}
        OBVIOUS
      <3> QED
        BY <3>2, <3>3, <3>4, LocksKept
    <2>9. CASE ReadRule(p)
      <3>1. Computes(p) /\ UNCHANGED holds /\ tx'[p].value = tx[p].value
            /\ tx[p].pc = "allocations" /\ tx'[p].pc = "allocations"
        BY <2>9, ReadRuleMoves
      <3>2. Keyed(p, i)'
        BY <2>0, <3>1 DEF Keyed, Locking, Computes
      <3> QED
        BY <1>0, <2>0, <3>1, <3>2, OwnLocks, LocksKept DEF Computes
    <2> QED
      BY <1>2, <2>1, <2>2, <2>3, <2>4, <2>5, <2>6, <2>7, <2>8, <2>9 DEF Step
  <1>3. ASSUME NEW w \in Wallets \cup {NoWallet}, SetRule(w) PROVE LocksInv(i)'
    BY <1>3 DEF SetRule, LocksInv, Disjoint, Keyed, Locking
  <1>4. CASE UNCHANGED vars
    BY <1>4 DEF vars, LocksInv, Disjoint, Keyed, Locking
  <1> QED
    BY <1>1, <1>2, <1>3, <1>4 DEF Next

LEMMA InitLocks == ASSUME Init, NEW i \in Insts PROVE LocksInv(i)
  BY IdleTyped, NoCommandTyped, NothingTyped DEF Init, LocksInv, Disjoint, Keyed, Locking

-----------------------------------------------------------------------------
(* The allocations against the holding *)

\* What the wallets may be allocated beyond what is held, in half units.
Bounded(n) == 2 * Total(alloc, Wallets) <= 2 * HeldOf(pos) + n

\* The latest lockForAsset found every allocation there is.
SeesAll(p) ==
    tx[p].pc = "allocations" /\ tx[p].cmd.op # "drop" => {w \in Wallets : alloc[w] > 0} \subseteq tx[p].seen

\* An assignment reads what is held between its two locks, when nothing moves it.
HeldStands(p) ==
    tx[p].cmd.op = "assign" /\ tx[p].value # NoRow /\ tx[p].pc # "clamped" => tx[p].held = HeldOf(pos)

SumInv(n) == Bounded(n) /\ \A p \in Procs : SeesAll(p) /\ HeldStands(p)

LEMMA ReadNothing ==
    ASSUME Shape, NEW p \in Procs, tx[p].cmd.op \notin Writers
    PROVE  Cache(p) = pos /\ Held(p) = HeldOf(pos)
  <1>1. tx[p].cached = Nothing
    BY TxFacts DEF RequestTyped
  <1>2. Cache(p) = pos
    BY <1>1, TxFacts, NothingOverlaid DEF Cache, Caches
  <1> QED
    BY <1>2 DEF Held

\* What is locked is all there is.
LEMMA LockedAll ==
    ASSUME Shape, NEW p \in Procs, SeesAll(p), tx[p].pc = "allocations", tx[p].cmd.op # "drop"
    PROVE  /\ Locked(p) = {w \in Wallets : alloc[w] > 0}
           /\ Allocated(p) = Total(alloc, Wallets)
           /\ \A w \in Wallets : Total(alloc, Locked(p) \ {w}) = Total(alloc, Wallets \ {w})
  <1>1. tx[p].seen \in SUBSET Wallets /\ alloc \in [Wallets -> Nat]
    BY TxFacts DEF Shape
  <1>2. Locked(p) = {w \in Wallets : alloc[w] > 0}
    BY <1>1 DEF Locked, SeesAll
  <1>3. \A w \in Wallets : alloc[w] \in Nat /\ (w \notin Locked(p) => alloc[w] = 0)
    BY <1>1, <1>2
  <1>4. Locked(p) \in SUBSET Wallets
    BY <1>2
  <1>5. Total(alloc, Locked(p)) = Total(alloc, Wallets)
    BY <1>3, <1>4, FiniteAssumption, SumSubset, TotalIs
  <1>6. ASSUME NEW w \in Wallets PROVE Total(alloc, Locked(p) \ {w}) = Total(alloc, Wallets \ {w})
    <2> DEFINE S == Wallets \ {w}
               U == Locked(p) \ {w}
    <2>1. IsFiniteSet(S) /\ U \in SUBSET S
      BY <1>4, FiniteAssumption, FS_Subset
    <2>2. \A x \in S : alloc[x] \in Nat /\ (x \notin U => alloc[x] = 0)
      BY <1>3
    <2> HIDE DEF S, U
    <2>3. \A x \in S \ U : alloc[x] = 0
      BY <2>2
    <2> QED
      BY <2>1, <2>2, <2>3, SumSubset, TotalIs DEF S, U
  <1> QED
    BY <1>2, <1>5, <1>6 DEF Allocated

\* Replacing one wallet's allocation.
LEMMA OneReplaced ==
    ASSUME Shape, NEW w \in Wallets, NEW q \in Nat, NEW a, a = Overlay([x \in {w} |-> q], alloc)
    PROVE  /\ Total(a, Wallets) = q + Total(alloc, Wallets \ {w})
           /\ Total(alloc, Wallets) = alloc[w] + Total(alloc, Wallets \ {w})
           /\ Total(alloc, Wallets \ {w}) \in Nat /\ alloc[w] \in Nat
  <1>1. alloc \in [Wallets -> Nat]
    BY DEF Shape
  <1>2. a[w] = q /\ \A x \in Wallets \ {w} : a[x] = alloc[x]
    BY <1>1 DEF Overlay
  <1>3. \A x \in Wallets : alloc[x] \in Nat /\ a[x] \in Nat /\ alloc[x] \in Int /\ a[x] \in Int
    BY <1>1, <1>2
  <1>4. IsFiniteSet(Wallets) /\ IsFiniteSet(Wallets \ {w})
    BY FiniteAssumption, FS_Subset
  <1>5. Sum(a, Wallets) = a[w] + Sum(a, Wallets \ {w}) /\ Sum(alloc, Wallets) = alloc[w] + Sum(alloc, Wallets \ {w})
    BY <1>3, <1>4, SumTake
  <1>6. Sum(a, Wallets \ {w}) = Sum(alloc, Wallets \ {w})
    BY <1>2, <1>4, SumEqual
  <1>7. Sum(alloc, Wallets \ {w}) \in Nat
    BY <1>3, <1>4, SumNat
  <1> QED
    BY <1>2, <1>3, <1>5, <1>6, <1>7, TotalIs

\* The hazard at allocate.ts:60 is an allocation that goes by a holding that has
\* shrunk since it was read.
HeldFresh == \A p \in Procs : tx[p].cmd.op = "allocate" => tx[p].held <= HeldOf(pos)

\* The reductions the proportional rule makes keep within n half units.
ReducesWithin(p, n) ==
    tx[p].cmd.op \in {"edit", "delete"} /\ Excess(p) > 0
        => 2 * Total(Reduced(p, Excess(p)), Locked(p)) <= 2 * Held(p) + n

LEMMA CommitBounded ==
    ASSUME Shape, HeldFresh, NEW n \in Nat, SumInv(n), NEW p \in Procs, Commit(p), ReducesWithin(p, n)
    PROVE  Bounded(n)'
  <1>1. /\ alloc' = Overlay(Proposal(p), alloc) /\ pos' = Cache(p)
        /\ alloc \in [Wallets -> Nat] /\ Accepted(p)
    BY DEF Commit, Shape
  <1>2. tx[p].cmd.op \in OpNames /\ RequestTyped(tx[p]) /\ tx[p].pc = "allocations" /\ tx[p].held \in Nat
        /\ tx[p].value \in Values
    BY TxFacts DEF Commit, Ready
  <1>3. HeldOf(pos') = Held(p) /\ Held(p) \in Nat /\ HeldOf(pos) \in Nat
    BY <1>1, SeenTyped, HeldNat DEF Held, Shape, Caches
  <1>4. alloc' \in [Wallets -> Nat] /\ Total(alloc', Wallets) \in Nat /\ Total(alloc, Wallets) \in Nat
    <2>1. alloc' \in [Wallets -> Nat]
      BY CommitTyped
    <2>2. \A w \in Wallets : alloc'[w] \in Nat /\ alloc[w] \in Nat
      BY <1>1, <2>1
    <2> QED
      BY <2>1, <2>2, FiniteAssumption, SumNat, TotalIs
  <1>5. SeesAll(p) /\ HeldStands(p) /\ Bounded(n)
    BY DEF SumInv
  <1> DEFINE w == tx[p].cmd.wallet
  <1>6. CASE tx[p].cmd.op = "create"
    <2>1. Total(alloc', Wallets) <= Held(p)
      BY <1>1, <1>6 DEF Accepted, Within, Op
    <2> QED
      BY <1>3, <1>4, <2>1 DEF Bounded
  <1>7. CASE tx[p].cmd.op \in {"edit", "delete"}
    <2>1. Proposal(p) = IF Excess(p) > 0 THEN Reduced(p, Excess(p)) ELSE Nothing
      BY <1>7 DEF Proposal, Op
    <2>2. /\ Locked(p) = {x \in Wallets : alloc[x] > 0}
          /\ Allocated(p) = Total(alloc, Wallets)
      BY <1>2, <1>5, <1>7, LockedAll
    <2>3. CASE Excess(p) > 0
      <3>1. Total(alloc', Wallets) = Total(Reduced(p, Excess(p)), Locked(p))
        <4> DEFINE r == Reduced(p, Excess(p))
                   L == Locked(p)
        <4>1. Allocated(p) # 0
          BY <1>3, <2>3, ReadsTyped DEF Excess
        <4>2. DOMAIN r = L /\ L \in SUBSET Wallets
          BY <2>2, <4>1 DEF Reduced
        <4>3. alloc' = Overlay(r, alloc)
          BY <1>1, <2>1, <2>3
        <4> HIDE DEF r
        <4>4. \A x \in Wallets : alloc'[x] \in Nat /\ (x \in L => alloc'[x] = r[x]) /\ (x \notin L => alloc'[x] = 0)
          <5>1. \A x \in Wallets : x \notin L => alloc[x] = 0
            BY <1>1, <2>2
          <5>2. \A x \in Wallets : alloc'[x] = IF x \in L THEN r[x] ELSE alloc[x]
            BY <1>1, <4>2, <4>3, Overlaid
          <5> QED
            BY <1>4, <5>1, <5>2
        <4> HIDE DEF L
        <4>5. Sum(alloc', L) = Sum(alloc', Wallets)
          <5>1. \A x \in Wallets \ L : alloc'[x] = 0
            BY <4>4
          <5>2. \A x \in Wallets : alloc'[x] \in Nat
            BY <4>4
          <5> QED
            BY <4>2, <5>1, <5>2, FiniteAssumption, SumSubset
        <4>6. Sum(alloc', L) = Sum(r, L)
          BY <4>2, <4>4, FiniteAssumption, FS_Subset, SumEqual
        <4> QED
          BY <4>5, <4>6, TotalIs DEF r, L
      <3> QED
        BY <1>3, <1>7, <2>3, <3>1 DEF Bounded, ReducesWithin
    <2>4. CASE ~(Excess(p) > 0)
      <3>1. alloc' = alloc
        BY <1>1, <2>1, <2>4, NothingOverlaid
      <3>2. Total(alloc, Wallets) <= Held(p)
        BY <1>3, <1>4, <2>2, <2>4 DEF Excess
      <3> QED
        BY <1>3, <1>4, <3>1, <3>2 DEF Bounded
    <2> QED
      BY <2>3, <2>4
  <1>8. CASE tx[p].cmd.op \in {"allocate", "assign"}
    <2>1. Held(p) = HeldOf(pos) /\ w \in Wallets
      BY <1>2, <1>8, ReadNothing DEF RequestTyped, Writers
    <2>2. ASSUME NEW q \in Nat, Proposal(p) = [x \in {w} |-> q], Fits(p, w, q, tx[p].held), tx[p].held <= HeldOf(pos)
          PROVE  Bounded(n)'
      <3>1. Total(alloc, Wallets \ {w}) + q <= tx[p].held
        BY <1>2, <1>5, <1>8, <2>1, <2>2, LockedAll DEF Fits
      <3>2. Total(alloc', Wallets) = q + Total(alloc, Wallets \ {w}) /\ Total(alloc, Wallets \ {w}) \in Nat
        BY <1>1, <2>1, <2>2, OneReplaced
      <3>3. Total(alloc', Wallets) <= HeldOf(pos)
        <4> DEFINE a == Total(alloc', Wallets)
                   b == Total(alloc, Wallets \ {w})
                   h == HeldOf(pos)
        <4>1. a \in Nat /\ b \in Nat /\ h \in Nat /\ a = q + b /\ b + q <= tx[p].held /\ tx[p].held <= h
          BY <1>3, <1>4, <2>2, <3>1, <3>2
        <4> HIDE DEF a, b, h
        <4>2. a <= h
          BY <1>2, <4>1
        <4> QED
          BY <4>2 DEF a, h
      <3> QED
        BY <1>3, <1>4, <2>1, <3>3 DEF Bounded
    <2>3. CASE tx[p].cmd.op = "allocate"
      <3>1. Proposal(p) = [x \in {w} |-> Requested(p)] /\ Fits(p, w, Requested(p), tx[p].held)
        BY <1>1, <2>3 DEF Proposal, Accepted, Op
      <3>2. Requested(p) \in Nat
        <4>1. w \in DOMAIN Proposal(p) /\ Proposal(p)[w] = Requested(p)
          BY <3>1
        <4> QED
          BY <4>1, ProposalNat DEF Commit
      <3> QED
        BY <2>2, <2>3, <3>1, <3>2 DEF HeldFresh
    <2>4. CASE tx[p].cmd.op = "assign" /\ tx[p].value # NoRow
      <3> DEFINE q == Slice(p, w) + tx[p].value
      <3>1. Proposal(p) = [x \in {w} |-> q] /\ Fits(p, w, q, tx[p].held)
        BY <1>1, <2>4 DEF Proposal, Accepted, Op
      <3>2. q \in Nat
        BY <1>2, <2>4, ReadsTyped DEF Values
      <3>3. tx[p].held <= HeldOf(pos)
        BY <1>2, <1>3, <1>5, <2>4 DEF HeldStands
      <3> HIDE DEF q
      <3> QED
        BY <2>2, <3>1, <3>2, <3>3
    <2>5. CASE tx[p].cmd.op = "assign" /\ tx[p].value = NoRow
      <3>1. Proposal(p) = Nothing
        BY <2>5 DEF Proposal, Op
      <3>2. alloc' = alloc
        BY <1>1, <3>1, NothingOverlaid
      <3> QED
        BY <1>3, <1>5, <2>1, <3>2 DEF Bounded
    <2> QED
      BY <1>8, <2>3, <2>4, <2>5
  <1>9. CASE tx[p].cmd.op = "drop"
    <2>1. Proposal(p) = [x \in {w} |-> 0] /\ w \in Wallets
      BY <1>2, <1>9 DEF Proposal, Op, RequestTyped
    <2>2. Held(p) = HeldOf(pos)
      BY <1>9, ReadNothing DEF Writers
    <2>3. Total(alloc', Wallets) <= Total(alloc, Wallets)
      <3>1. alloc' = Overlay([x \in {w} |-> 0], alloc) /\ 0 \in Nat
        BY <1>1, <2>1
      <3>2. /\ Total(alloc', Wallets) = 0 + Total(alloc, Wallets \ {w})
            /\ Total(alloc, Wallets) = alloc[w] + Total(alloc, Wallets \ {w})
            /\ Total(alloc, Wallets \ {w}) \in Nat /\ alloc[w] \in Nat
        BY <2>1, <3>1, OneReplaced
      <3> QED
        BY <1>4, <3>2
    <2> QED
      BY <1>3, <1>4, <1>5, <2>2, <2>3 DEF Bounded
  <1>10. tx[p].cmd.op # "rule"
    BY <1>2 DEF RequestTyped
  <1> QED
    BY <1>2, <1>6, <1>7, <1>8, <1>9, <1>10 DEF OpNames

LEMMA CommitSums ==
    ASSUME Shape, NEW i \in Insts, LocksInv(i), pos[i] # NoRow, HeldFresh, NEW n \in Nat, SumInv(n),
           NEW p \in Procs, Commit(p), ReducesWithin(p, n)
    PROVE  SumInv(n)'
  <1>1. Bounded(n)'
    BY CommitBounded
  <1>2. tx'[p] = Idle /\ \A q \in Procs : q # p => tx'[q] = tx[q]
    BY CommitTyped, EndMoves DEF Moves1
  <1>3. alloc' = Overlay(Proposal(p), alloc) /\ pos' = Cache(p) /\ tx[p].pc = "allocations"
        /\ alloc \in [Wallets -> Nat] /\ RequestTyped(tx[p])
    BY TxFacts DEF Commit, Ready, Shape
  <1>4. SeesAll(p)' /\ HeldStands(p)'
    BY <1>2, IdleTyped, NoCommandTyped DEF SeesAll, HeldStands
  <1>5. ASSUME NEW q \in Procs, q # p PROVE SeesAll(q)' /\ HeldStands(q)'
    <2>1. tx'[q] = tx[q] /\ SeesAll(q) /\ HeldStands(q)
      BY <1>2, <1>5 DEF SumInv
    <2>2. CASE tx[p].cmd.op = "drop"
      <3>1. pos' = pos /\ Proposal(p) = [x \in {tx[p].cmd.wallet} |-> 0]
        BY <1>3, <2>2, ReadNothing DEF Writers, Proposal, Op
      <3>2. \A w \in Wallets : alloc'[w] = 0 \/ alloc'[w] = alloc[w]
        BY <1>3, <3>1, Overlaid
      <3>3. {w \in Wallets : alloc'[w] > 0} \subseteq {w \in Wallets : alloc[w] > 0}
        BY <3>2
      <3> QED
        BY <2>1, <3>1, <3>3 DEF SeesAll, HeldStands
    <2>3. CASE tx[p].cmd.op # "drop"
      <3>1. Locking(p) /\ ~Locking(q)
        BY <1>3, <1>5, <2>3, OneLocks DEF Locking
      <3> QED
        BY <2>1, <3>1 DEF SeesAll, HeldStands, Locking
    <2> QED
      BY <2>2, <2>3
  <1> QED
    BY <1>1, <1>4, <1>5 DEF SumInv

\* A step of p that leaves the tables as they are.
LEMMA StillSums ==
    ASSUME NEW n \in Nat, SumInv(n), NEW p \in Procs, Moves1(p), UNCHANGED db, SeesAll(p)', HeldStands(p)'
    PROVE  SumInv(n)'
  BY DEF SumInv, Bounded, SeesAll, HeldStands, Moves1, db

LEMMA NextSums ==
    ASSUME Shape, NEW i \in Insts, LocksInv(i), pos[i] # NoRow, HeldFresh, NEW n \in Nat, SumInv(n),
           \A p \in Procs : Ready(p) => ReducesWithin(p, n), [Next]_vars
    PROVE  SumInv(n)'
  <1>1. ASSUME NEW p \in Procs, Begin(p) PROVE SumInv(n)'
    <2>1. Moves1(p) /\ UNCHANGED db
      BY <1>1, Starting, Beginning
    <2>2. tx'[p].pc \in {"write", "lock", "drop"} /\ (tx'[p].cmd.op = "assign" => tx'[p].value = NoRow)
      BY <1>1, CreateStarts, EditStarts, DeleteStarts, AllocateStarts, AssignStarts, DropStarts DEF Begin
    <2> QED
      BY <2>1, <2>2, StillSums DEF SeesAll, HeldStands
  <1>2. ASSUME NEW p \in Procs, Step(p) PROVE SumInv(n)'
    <2>0. RequestTyped(tx[p]) /\ SeesAll(p) /\ HeldStands(p)
      BY TxFacts DEF SumInv
    <2>1. CASE Write(p) \/ RecalcRead(p) \/ RecalcWrite(p)
      <3>1. Moves1(p) /\ UNCHANGED db /\ tx[p].pc \in {"write", "read", "cache"} /\ tx'[p].cmd = tx[p].cmd
            /\ tx'[p].pc # "allocations"
        BY <2>1, WriteMoves, RecalcReadMoves, RecalcWriteMoves
      <3> QED
        BY <2>0, <3>1, StillSums DEF SeesAll, HeldStands, RequestTyped, Writers
    <2>2. CASE LockPositions(p)
      <3>1. Computes(p) /\ tx[p].pc = "lock" /\ tx'[p].pc = "positions" /\ tx'[p].held = tx[p].held
            /\ tx'[p].value = tx[p].value
        BY <2>2, PositionsMoves
      <3> QED
        BY <2>0, <3>1, StillSums DEF SeesAll, HeldStands, Computes, db
    <2>3. CASE LockAllocations(p)
      <3>1. Computes(p) /\ tx[p].pc = "positions" /\ tx'[p].pc = "allocations" /\ tx'[p].held = tx[p].held
            /\ tx'[p].value = tx[p].value /\ tx'[p].seen = {w \in Wallets : alloc[w] > 0}
        BY <2>3, AllocationsMoves
      <3>2. SeesAll(p)' /\ HeldStands(p)'
        BY <2>0, <3>1 DEF SeesAll, HeldStands, Computes, db
      <3> QED
        BY <3>1, <3>2, StillSums DEF Computes
    <2>4. CASE LockDropped(p)
      <3>1. Computes(p) /\ tx'[p].cmd.op = "drop"
        BY <2>4, DroppedMoves DEF Computes
      <3> QED
        BY <3>1, StillSums DEF SeesAll, HeldStands, Computes
    <2>5. CASE TakeWanted(p)
      <3>1. Computes(p) /\ tx'[p].pc = tx[p].pc /\ tx'[p].seen = tx[p].seen /\ tx'[p].held = tx[p].held
            /\ tx'[p].value = tx[p].value
        BY <2>5, WantedMoves
      <3>2. SeesAll(p)' /\ HeldStands(p)'
        BY <2>0, <3>1 DEF SeesAll, HeldStands, Computes, db
      <3> QED
        BY <3>1, <3>2, StillSums DEF Computes
    <2>6. CASE Clamp(p)
      <3>1. Computes(p) /\ tx'[p].pc = "clamped"
        BY <2>6, AssignableInt, ClampMoves DEF Clamp, Clamping, Op
      <3> QED
        BY <3>1, StillSums DEF SeesAll, HeldStands, Computes
    <2>7. CASE Relock(p)
      <3>1. Computes(p) /\ tx'[p].pc = "lock" /\ tx'[p].held = Held(p) /\ tx[p].cmd.op = "assign"
        BY <2>7, RelockMoves
      <3>2. Held(p) = HeldOf(pos)
        BY <3>1, ReadNothing DEF Writers
      <3>3. SeesAll(p)' /\ HeldStands(p)'
        BY <3>1, <3>2 DEF SeesAll, HeldStands, Computes, db
      <3> QED
        BY <3>1, <3>3, StillSums DEF Computes
    <2>8. CASE RecalcRefused(p) \/ Refuse(p) \/ DeadlockAbort(p)
      <3>1. Ends(p) /\ UNCHANGED db
        BY <2>8 DEF RecalcRefused, Refuse, DeadlockAbort, Rollback, Ends
      <3> QED
        BY <3>1, EndMoves, IdleTyped, NoCommandTyped, StillSums DEF SeesAll, HeldStands
    <2>9. CASE Commit(p)
      BY <2>9, CommitSums DEF Commit
    <2>10. CASE ReadRule(p)
      <3>1. Computes(p) /\ tx'[p].pc = tx[p].pc /\ tx'[p].seen = tx[p].seen /\ tx'[p].held = tx[p].held
            /\ tx'[p].value = tx[p].value
        BY <2>10, ReadRuleMoves
      <3>2. SeesAll(p)' /\ HeldStands(p)'
        BY <2>0, <3>1 DEF SeesAll, HeldStands, Computes, db
      <3> QED
        BY <3>1, <3>2, StillSums DEF Computes
    <2> QED
      BY <1>2, <2>1, <2>2, <2>3, <2>4, <2>5, <2>6, <2>7, <2>8, <2>9, <2>10 DEF Step
  <1>3. ASSUME NEW w \in Wallets \cup {NoWallet}, SetRule(w) PROVE SumInv(n)'
    BY <1>3 DEF SetRule, SumInv, Bounded, SeesAll, HeldStands
  <1>4. CASE UNCHANGED vars
    BY <1>4 DEF vars, db, SumInv, Bounded, SeesAll, HeldStands
  <1> QED
    BY <1>1, <1>2, <1>3, <1>4 DEF Next

LEMMA InitSums == ASSUME Init, NEW n \in Nat PROVE SumInv(n)
  <1>1. Total(alloc, Wallets) <= HeldOf(pos) /\ \A p \in Procs : tx[p] = Idle
    BY DEF Init
  <1>2. Shape
    BY InitShape
  <1>3. Total(alloc, Wallets) \in Nat /\ HeldOf(pos) \in Nat
    BY <1>2, FiniteAssumption, SumNat, TotalIs, HeldNat DEF Shape, Caches
  <1>4. Bounded(n)
    BY <1>1, <1>3 DEF Bounded
  <1> QED
    BY <1>1, <1>4, IdleTyped, NoCommandTyped DEF SumInv, SeesAll, HeldStands

-----------------------------------------------------------------------------
(* How far the proportional rule may miss *)

\* The share of each wallet, before it is rounded, is one the column can hold.
Exact ==
    \A p \in Procs : Ready(p) /\ Op(p, {"edit", "delete"}) /\ Excess(p) > 0
        => \A w \in Locked(p) : (alloc[w] * Held(p)) % Allocated(p) = 0

LEMMA Quotient ==
    ASSUME NEW x \in Nat, NEW d \in Nat, d > 0
    PROVE  x \div d \in Nat /\ d * (x \div d) <= x /\ x < d * (x \div d) + d
  OBVIOUS

LEMMA Whole ==
    ASSUME NEW a \in Nat, NEW t \in Nat, t > 0, a % t = 0
    PROVE  t * (a \div t) = a
  OBVIOUS

LEMMA Between ==
    ASSUME NEW q \in Nat, NEW m \in Nat, NEW t \in Nat, t > 0, 2 * t * q <= 2 * t * m + t, 2 * t * m + t < 2 * t * q + 2 * t
    PROVE  q = m
  <1>1. CASE q >= m + 1
    <2>1. PICK k \in Nat : q = m + 1 + k
      <3>1. q - m - 1 \in Nat
        BY <1>1
      <3> QED
        BY <3>1
    <2>2. 2 * t * q = 2 * t * m + 2 * t + 2 * t * k /\ 2 * t * k \in Nat /\ 2 * t * m \in Nat
      BY <2>1
    <2> QED
      BY <2>2
  <1>2. CASE m >= q + 1
    <2>1. PICK k \in Nat : m = q + 1 + k
      <3>1. m - q - 1 \in Nat
        BY <1>2
      <3> QED
        BY <3>1
    <2>2. 2 * t * m = 2 * t * q + 2 * t + 2 * t * k /\ 2 * t * k \in Nat /\ 2 * t * q \in Nat
      BY <2>1
    <2> QED
      BY <2>2
  <1> QED
    BY <1>1, <1>2

\* Rounding half up misses by half a unit at most, and not when the quotient is whole.
LEMMA Halves ==
    ASSUME NEW a \in Nat, NEW t \in Nat, t > 0
    PROVE  /\ 2 * t * ((2 * a + t) \div (2 * t)) <= 2 * a + t
           /\ a % t = 0 => t * ((2 * a + t) \div (2 * t)) = a
  <1> DEFINE q == (2 * a + t) \div (2 * t)
             m == a \div t
  <1>1. 2 * a + t \in Nat /\ 2 * t \in Nat /\ 2 * t > 0
    OBVIOUS
  <1>2. q \in Nat /\ 2 * t * q <= 2 * a + t /\ 2 * a + t < 2 * t * q + 2 * t
    BY <1>1, Quotient
  <1>3. ASSUME a % t = 0 PROVE t * q = a
    <2>1. t * m = a /\ m \in Nat
      BY <1>3, Whole, Quotient
    <2> HIDE DEF q, m
    <2>2. 2 * a = 2 * t * m
      BY <2>1
    <2>3. q = m
      BY <1>2, <2>1, <2>2, Between
    <2> QED
      BY <2>1, <2>3
  <1> QED
    BY <1>2, <1>3
LEMMA Cancel ==
    ASSUME NEW t \in Nat, t > 0, NEW a \in Int, NEW b \in Int
    PROVE  /\ t * a = t * b => a = b
           /\ t * a <= t * b => a <= b
  <1>1. ASSUME a > b PROVE t * a > t * b
    <2>1. a - b \in Nat /\ a - b >= 1
      BY <1>1
    <2>2. t * (a - b) >= 1 /\ t * (a - b) = t * a - t * b
      BY <2>1
    <2> QED
      BY <2>2
  <1>2. ASSUME b > a PROVE t * b > t * a
    <2>1. b - a \in Nat /\ b - a >= 1
      BY <1>2
    <2>2. t * (b - a) >= 1 /\ t * (b - a) = t * b - t * a
      BY <2>1
    <2> QED
      BY <2>2
  <1> QED
    BY <1>1, <1>2

\* What an edit or a deletion leaves each wallet: the excess is what is allocated
\* beyond the holding, so what is kept is the holding.
LEMMA Reduction ==
    ASSUME Shape, NEW p \in Procs, Excess(p) > 0
    PROVE  LET t == Allocated(p)
               r == Reduced(p, Excess(p)) IN
           /\ t \in Nat /\ t > 0 /\ Held(p) \in Nat
           /\ \A w \in Locked(p) : /\ alloc[w] \in Nat /\ alloc[w] * Held(p) \in Nat
                                    /\ r[w] = (2 * (alloc[w] * Held(p)) + t) \div (2 * t) /\ r[w] \in Nat
  <1> DEFINE t == Allocated(p)
             k == Held(p)
             x == Excess(p)
             r == Reduced(p, x)
  <1>1. t \in Nat /\ k \in Nat /\ x = t - k /\ x > 0 /\ Locked(p) \in SUBSET Wallets
    BY ReadsTyped, SeenTyped DEF Excess
  <1>2. t > 0 /\ ~(x > t) /\ t - x = k /\ x \in Nat
    BY <1>1
  <1>3. r = [w \in Locked(p) |-> (2 * alloc[w] * k + t) \div (2 * t)]
    BY <1>2 DEF Reduced
  <1>4. \A w \in Locked(p) : alloc[w] \in Nat
    BY <1>1 DEF Shape
  <1>5. \A w \in Locked(p) : r[w] \in Nat
    BY <1>2, <1>3, ReducedNat
  <1> HIDE DEF t, k
  <1>6. ASSUME NEW w \in Locked(p) PROVE r[w] = (2 * (alloc[w] * k) + t) \div (2 * t) /\ alloc[w] * k \in Nat
    <2>1. r[w] = (2 * alloc[w] * k + t) \div (2 * t)
      BY <1>3
    <2>2. alloc[w] \in Nat
      BY <1>4
    <2>3. 2 * alloc[w] * k = 2 * (alloc[w] * k) /\ alloc[w] * k \in Nat
      BY <1>1, <2>2
    <2> QED
      BY <2>1, <2>3
  <1> QED
    BY <1>1, <1>2, <1>4, <1>5, <1>6 DEF t, k

\* Every wallet may be left half a unit more than its share.
LEMMA ReducesHalf ==
    ASSUME Shape, NEW p \in Procs
    PROVE  ReducesWithin(p, Cardinality(Wallets))
  <1> SUFFICES ASSUME Excess(p) > 0
               PROVE  2 * Total(Reduced(p, Excess(p)), Locked(p)) <= 2 * Held(p) + Cardinality(Wallets)
    BY DEF ReducesWithin
  <1> DEFINE t == Allocated(p)
             k == Held(p)
             r == Reduced(p, Excess(p))
             L == Locked(p)
             n == Cardinality(L)
             s == Sum(r, L)
  <1>1. t \in Nat /\ t > 0 /\ k \in Nat
    BY Reduction
  <1>2. ASSUME NEW w \in L PROVE alloc[w] \in Int /\ r[w] \in Nat /\ 2 * t * r[w] <= 2 * k * alloc[w] + t
    <2>1. alloc[w] \in Nat /\ alloc[w] * k \in Nat /\ r[w] \in Nat
          /\ r[w] = (2 * (alloc[w] * k) + t) \div (2 * t)
      BY Reduction
    <2> HIDE DEF t, k, r, L
    <2>2. 2 * t * r[w] <= 2 * (alloc[w] * k) + t
      BY <1>1, <2>1, Halves
    <2>3. 2 * (alloc[w] * k) = 2 * k * alloc[w]
      BY <1>1, <2>1
    <2> QED
      BY <2>1, <2>2, <2>3
  <1>3. IsFiniteSet(L) /\ L \in SUBSET Wallets
    BY ReadsTyped
  <1>4. n \in Nat /\ n <= Cardinality(Wallets) /\ Cardinality(Wallets) \in Nat
    BY <1>3, FiniteAssumption, FS_Subset, FS_CardinalityType
  <1>5. Sum(alloc, L) = t
    BY TotalIs DEF Allocated
  <1> HIDE DEF t, k, r, L
  <1>6. s \in Nat
    BY <1>2, <1>3, SumNat
  <1>7. 2 * t * s <= 2 * k * Sum(alloc, L) + t * n
    <2>1. 2 * t \in Int /\ 2 * k \in Int /\ t \in Int
      BY <1>1
    <2>2. \A w \in L : r[w] \in Int /\ alloc[w] \in Int
      BY <1>2
    <2> QED
      BY <1>2, <1>3, <2>1, <2>2, SumBound
  <1> HIDE DEF s, n
  <1>8. t * (2 * s) <= t * (2 * k + n)
    <2>1. 2 * t * s = t * (2 * s) /\ 2 * k * t + t * n = t * (2 * k + n)
      BY <1>1, <1>4, <1>6
    <2> QED
      BY <1>5, <1>7, <2>1
  <1>9. 2 * s <= 2 * k + n
    <2>1. 2 * s \in Int /\ 2 * k + n \in Int
      BY <1>1, <1>4, <1>6
    <2> QED
      BY <1>1, <1>8, <2>1, Cancel
  <1> QED
    BY <1>1, <1>4, <1>6, <1>9, TotalIs DEF s, r, k, L

\* And none more when the shares are whole.
LEMMA ReducesExactly ==
    ASSUME Shape, NEW p \in Procs, Ready(p), Exact
    PROVE  ReducesWithin(p, 0)
  <1> SUFFICES ASSUME tx[p].cmd.op \in {"edit", "delete"}, Excess(p) > 0
               PROVE  2 * Total(Reduced(p, Excess(p)), Locked(p)) <= 2 * Held(p) + 0
    BY DEF ReducesWithin
  <1> DEFINE t == Allocated(p)
             k == Held(p)
             r == Reduced(p, Excess(p))
             L == Locked(p)
             s == Sum(r, L)
  <1>1. t \in Nat /\ t > 0 /\ k \in Nat
    BY Reduction
  <1>2. ASSUME NEW w \in L PROVE alloc[w] \in Int /\ r[w] \in Nat /\ t * r[w] = k * alloc[w]
    <2>1. alloc[w] \in Nat /\ alloc[w] * k \in Nat /\ r[w] \in Nat
          /\ r[w] = (2 * (alloc[w] * k) + t) \div (2 * t)
      BY Reduction
    <2>2. (alloc[w] * k) % t = 0
      BY DEF Exact, Op
    <2> HIDE DEF t, k, r, L
    <2>3. t * r[w] = alloc[w] * k
      BY <1>1, <2>1, <2>2, Halves
    <2>4. alloc[w] * k = k * alloc[w]
      BY <1>1, <2>1
    <2> QED
      BY <2>1, <2>3, <2>4
  <1>3. IsFiniteSet(L)
    BY ReadsTyped
  <1>4. Sum(alloc, L) = t
    BY TotalIs DEF Allocated
  <1> HIDE DEF t, k, r, L
  <1>5. s \in Nat
    BY <1>2, <1>3, SumNat
  <1>6. t * s = k * Sum(alloc, L)
    <2>1. t \in Int /\ k \in Int /\ \A w \in L : r[w] \in Int
      BY <1>1, <1>2
    <2> QED
      BY <1>2, <1>3, <2>1, SumProportional
  <1> HIDE DEF s
  <1>7. s = k
    <2>1. k * t = t * k
      BY <1>1
    <2> QED
      BY <1>1, <1>4, <1>5, <1>6, <2>1, Cancel
  <1> QED
    BY <1>1, <1>7, TotalIs DEF s, r, k, L

LEMMA AlwaysLocks ==
    ASSUME NEW i \in Insts
    PROVE  Spec /\ [](pos[i] # NoRow) => []LocksInv(i)
  <1>1. Init => LocksInv(i)
    BY InitLocks
  <1>2. Shape /\ LocksInv(i) /\ pos[i] # NoRow /\ [Next]_vars => LocksInv(i)'
    BY NextLocks
  <1> QED
    BY <1>1, <1>2, AlwaysShape, PTL DEF Spec

LEMMA AlwaysSums ==
    ASSUME NEW i \in Insts
    PROVE  Spec /\ [](pos[i] # NoRow) /\ []HeldFresh => []SumInv(Cardinality(Wallets))
  <1> DEFINE n == Cardinality(Wallets)
  <1>0. n \in Nat
    BY FiniteAssumption, FS_CardinalityType
  <1> HIDE DEF n
  <1>1. Init => SumInv(n)
    BY <1>0, InitSums
  <1>2. Shape /\ LocksInv(i) /\ pos[i] # NoRow /\ HeldFresh /\ SumInv(n) /\ [Next]_vars => SumInv(n)'
    BY <1>0, ReducesHalf, NextSums DEF n
  <1>3. Spec /\ [](pos[i] # NoRow) /\ []HeldFresh => []SumInv(n)
    BY <1>1, <1>2, AlwaysShape, AlwaysLocks, PTL DEF Spec
  <1> QED
    BY <1>3 DEF n

\* While some institution keeps a position, so that lockForAsset has a row to
\* lock, and no allocation goes by a holding that has shrunk since it was read,
\* what the wallets are allocated exceeds what the positions hold by half of the
\* last stored decimal per wallet at most (BR-010-05), for any requests that
\* overlap in any way: the rounding of the proportional reductions never adds up.
THEOREM SumNearlyHolds ==
    ASSUME NEW i \in Insts
    PROVE  Spec /\ [](pos[i] # NoRow) /\ []HeldFresh => []Bounded(Cardinality(Wallets))
  <1> DEFINE n == Cardinality(Wallets)
  <1>1. Spec /\ [](pos[i] # NoRow) /\ []HeldFresh => []SumInv(n)
    BY AlwaysSums
  <1> HIDE DEF n
  <1>2. SumInv(n) => Bounded(n)
    BY DEF SumInv
  <1>3. Spec /\ [](pos[i] # NoRow) /\ []HeldFresh => []Bounded(n)
    BY <1>1, <1>2, PTL
  <1> QED
    BY <1>3 DEF n

\* And while the reductions come out whole it never exceeds it at all.
THEOREM SumHolds ==
    ASSUME NEW i \in Insts
    PROVE  Spec /\ [](pos[i] # NoRow) /\ []HeldFresh /\ []Exact => []SumInvariant
  <1>1. Init => SumInv(0)
    BY InitSums
  <1>2. Shape /\ LocksInv(i) /\ pos[i] # NoRow /\ HeldFresh /\ Exact /\ SumInv(0) /\ [Next]_vars => SumInv(0)'
    BY ReducesExactly, NextSums
  <1>3. Shape /\ SumInv(0) => SumInvariant
    <2>1. ASSUME Shape, Bounded(0) PROVE SumInvariant
      <3>1. Total(alloc, Wallets) \in Nat /\ HeldOf(pos) \in Nat
        BY <2>1, FiniteAssumption, SumNat, TotalIs, HeldNat DEF Shape, Caches
      <3> QED
        BY <2>1, <3>1 DEF Bounded, SumInvariant
    <2> QED
      BY <2>1 DEF SumInv
  <1> QED
    BY <1>1, <1>2, <1>3, AlwaysShape, AlwaysLocks, PTL DEF Spec

-----------------------------------------------------------------------------
(* Requests that overlap act as if each ran alone *)

\* An assignment gives a wallet no more than was bought.
Clamped(p) ==
    tx[p].cmd.op = "assign" /\ tx[p].value # NoRow
        => tx[p].value > 0 /\ tx[p].value <= tx[p].cmd.row.qty

\* A wallet that was deleted is allocated nothing.
Owned == \A w \in Wallets : alloc[w] > 0 => w \in wallets

AloneInv == Owned /\ \A p \in Procs : Clamped(p)

LEMMA ClampedKept ==
    ASSUME AloneInv, NEW p \in Procs, Moves1(p), UNCHANGED <<alloc, wallets>>, Clamped(p)'
    PROVE  AloneInv'
  <1>1. \A q \in Procs : q # p => Clamped(q)'
    BY DEF AloneInv, Clamped, Moves1
  <1> QED
    BY <1>1 DEF AloneInv, Owned

\* What a commit allocates goes to a wallet that exists.
LEMMA CommitOwned ==
    ASSUME Shape, Owned, NEW p \in Procs, Commit(p)
    PROVE  Owned'
  <1>1. /\ alloc' = Overlay(Proposal(p), alloc) /\ wallets' = wallets \ Dropped(p) /\ Accepted(p)
        /\ alloc \in [Wallets -> Nat] /\ alloc' \in [Wallets -> Nat]
        /\ tx[p].cmd.op \in OpNames /\ RequestTyped(tx[p]) /\ tx[p].pc = "allocations"
    BY TxFacts, CommitTyped DEF Commit, Ready, Shape
  <1>2. \A w \in Wallets : alloc'[w] = IF w \in DOMAIN Proposal(p) THEN Proposal(p)[w] ELSE alloc[w]
    BY <1>1, Overlaid
  <1>3. \A w \in Locked(p) : w \in wallets
    BY TxFacts DEF Locked, Owned
  <1>4. \A sold : DOMAIN Reduced(p, sold) \subseteq Locked(p)
    BY NothingTyped DEF Reduced
  <1>5. tx[p].cmd.op # "rule"
    BY <1>1 DEF RequestTyped
  <1> DEFINE w0 == tx[p].cmd.wallet
  <1>6. CASE tx[p].cmd.op = "drop"
    <2>1. Proposal(p) = [x \in {w0} |-> 0] /\ Dropped(p) = {w0}
      BY <1>6 DEF Proposal, Dropped, Op
    <2>2. \A w \in Wallets : alloc'[w] > 0 => w # w0 /\ alloc[w] > 0
      BY <1>2, <2>1
    <2> QED
      BY <1>1, <2>1, <2>2 DEF Owned
  <1>7. CASE tx[p].cmd.op # "drop"
    <2>1. wallets' = wallets
      BY <1>1, <1>7 DEF Dropped, Op
    <2>2. ASSUME NEW w \in Wallets, w \in DOMAIN Proposal(p), Proposal(p)[w] > 0 PROVE w \in wallets
      <3>1. CASE tx[p].cmd.op = "create" /\ Bought(p) > 0
        <4>0. ~(Sold(p) > 0)
          BY <1>1, <3>1, RowIs DEF RequestTyped, Bought, Sold
        <4>1. w \in BuyWallets(p)
          BY <2>2, <3>1, <4>0 DEF Proposal, Op
        <4> QED
          BY <1>1, <3>1, <4>1 DEF Accepted, Op
      <3>2. CASE tx[p].cmd.op = "create" /\ ~(Bought(p) > 0)
        <4>0. Bought(p) \in Int /\ Bought(p) # 0 /\ Sold(p) = -Bought(p)
          BY <1>1, <3>2, RowIs DEF RequestTyped, Bought, Sold
        <4>1. Proposal(p) = IF w0 = NoWallet THEN Reduced(p, Sold(p))
                            ELSE [x \in {w0} |-> Slice(p, x) - Sold(p)]
          BY <3>2, <4>0 DEF Proposal, Op
        <4>2. CASE w0 = NoWallet
          BY <1>3, <1>4, <2>2, <4>1, <4>2
        <4>3. CASE w0 # NoWallet
          <5>1. w = w0 /\ Slice(p, w) >= Sold(p) /\ Sold(p) > 0 /\ Slice(p, w) \in Nat
            BY <1>1, <2>2, <3>2, <4>0, <4>1, <4>3, ReadsTyped DEF Accepted, Op
          <5>2. w \in Locked(p)
            BY <4>0, <5>1 DEF Slice
          <5> QED
            BY <1>3, <5>2
        <4> QED
          BY <4>2, <4>3
      <3>3. CASE tx[p].cmd.op \in {"edit", "delete"}
        <4>1. w \in DOMAIN Reduced(p, Excess(p))
          BY <2>2, <3>3, NothingTyped DEF Proposal, Op
        <4> QED
          BY <1>3, <1>4, <4>1
      <3>4. CASE tx[p].cmd.op = "allocate"
        BY <1>1, <2>2, <3>4 DEF Proposal, Accepted, Op
      <3>5. CASE tx[p].cmd.op = "assign"
        <4>1. tx[p].value # NoRow /\ w = w0
          BY <2>2, <3>5, NothingTyped DEF Proposal, Op
        <4> QED
          BY <1>1, <3>5, <4>1 DEF Accepted, Op
      <3> QED
        BY <1>1, <1>5, <1>7, <3>1, <3>2, <3>3, <3>4, <3>5 DEF OpNames
    <2> QED
      BY <1>2, <2>1, <2>2 DEF Owned
  <1> QED
    BY <1>6, <1>7

LEMMA NextAlone ==
    ASSUME Shape, AloneInv, [Next]_vars
    PROVE  AloneInv'
  <1> USE DEF db
  <1>1. ASSUME NEW p \in Procs, Begin(p) PROVE AloneInv'
    <2>1. Moves1(p) /\ UNCHANGED <<alloc, wallets>>
      BY <1>1, Starting, Beginning
    <2>2. tx'[p].cmd.op = "assign" => tx'[p].value = NoRow
      BY <1>1, CreateStarts, EditStarts, DeleteStarts, AllocateStarts, AssignStarts, DropStarts DEF Begin
    <2> QED
      BY <2>1, <2>2, ClampedKept DEF Clamped
  <1>2. ASSUME NEW p \in Procs, Step(p) PROVE AloneInv'
    <2>0. RequestTyped(tx[p]) /\ Clamped(p)
      BY TxFacts DEF AloneInv
    <2>1. CASE Write(p) \/ RecalcRead(p) \/ RecalcWrite(p)
      <3>1. Moves1(p) /\ UNCHANGED db /\ tx[p].pc \in {"write", "read", "cache"} /\ tx'[p].cmd = tx[p].cmd
        BY <2>1, WriteMoves, RecalcReadMoves, RecalcWriteMoves
      <3> QED
        BY <2>0, <3>1, ClampedKept DEF Clamped, RequestTyped, Writers
    <2>2. CASE \/ LockPositions(p) \/ LockAllocations(p) \/ LockDropped(p) \/ TakeWanted(p) \/ Relock(p)
               \/ ReadRule(p)
      <3>1. Computes(p) /\ (tx'[p].value = tx[p].value \/ tx[p].cmd.op = "drop")
        <4>1. CASE LockDropped(p)
          BY <2>0, <4>1, DroppedMoves DEF RequestTyped, LockDropped
        <4> QED
          BY <2>2, <4>1, PositionsMoves, AllocationsMoves, WantedMoves, RelockMoves, ReadRuleMoves
      <3> QED
        BY <2>0, <3>1, ClampedKept DEF Clamped, Computes
    <2>3. CASE Clamp(p)
      <3>0. tx[p].cmd.op = "assign" /\ Assignable(p) \in Int
        BY <2>3, AssignableInt DEF Clamp, Clamping, Op
      <3>1. Computes(p) /\ tx'[p].value = Assignable(p) /\ Assignable(p) > 0 /\ tx[p].cmd.op = "assign"
        BY <2>3, <3>0, ClampMoves
      <3>2. tx[p].cmd.row.qty \in Int /\ Held(p) \in Nat /\ Allocated(p) \in Nat
        BY <2>0, <3>1, RowIs, SeenTyped, ReadsTyped DEF RequestTyped
      <3>3. Assignable(p) <= tx[p].cmd.row.qty
        BY <3>2 DEF Assignable
      <3> QED
        BY <3>1, <3>3, ClampedKept DEF Clamped, Computes
    <2>4. CASE RecalcRefused(p) \/ Refuse(p) \/ DeadlockAbort(p)
      <3>1. Ends(p) /\ UNCHANGED db
        BY <2>4 DEF RecalcRefused, Refuse, DeadlockAbort, Rollback, Ends
      <3> QED
        BY <3>1, EndMoves, IdleTyped, NoCommandTyped, ClampedKept DEF Clamped
    <2>5. CASE Commit(p)
      <3>1. Moves1(p) /\ tx'[p] = Idle /\ Owned'
        BY <2>5, CommitTyped, EndMoves, CommitOwned DEF AloneInv
      <3>2. \A q \in Procs : Clamped(q)'
        BY <3>1, IdleTyped, NoCommandTyped DEF Clamped, AloneInv, Moves1
      <3> QED
        BY <3>1, <3>2 DEF AloneInv
    <2> QED
      BY <1>2, <2>1, <2>2, <2>3, <2>4, <2>5 DEF Step
  <1>3. ASSUME NEW w \in Wallets \cup {NoWallet}, SetRule(w) PROVE AloneInv'
    BY <1>3 DEF SetRule, AloneInv, Owned, Clamped
  <1>4. CASE UNCHANGED vars
    BY <1>4 DEF vars, AloneInv, Owned, Clamped
  <1> QED
    BY <1>1, <1>2, <1>3, <1>4 DEF Next

\* The promise's sum is the model's.
LEMMA PromisedTotal == \A f : Promise!Total(f) = Total(f, Wallets)
  BY DEF Promise!Total, Promise!SumFunctionOnSet, Promise!FoldFunctionOnSet, Promise!MapThenFoldSet,
         Total, SumFunctionOnSet, FoldFunctionOnSet, MapThenFoldSet

\* What the requests see of the asset is what there is.
LEMMA LockedIsAll ==
    ASSUME Shape, NEW p \in Procs, SeesAll(p), tx[p].pc = "allocations", tx[p].cmd.op # "drop"
    PROVE  /\ Locked(p) = Promise!Holders
           /\ Allocated(p) = Promise!Total(alloc)
           /\ \A w \in Wallets : Slice(p, w) = alloc[w]
           /\ \A w \in Wallets : Total(alloc, Locked(p) \ {w}) = Total(alloc, Wallets \ {w})
  <1>1. Locked(p) = {w \in Wallets : alloc[w] > 0} /\ Allocated(p) = Total(alloc, Wallets)
        /\ \A w \in Wallets : Total(alloc, Locked(p) \ {w}) = Total(alloc, Wallets \ {w})
    BY LockedAll
  <1>2. \A w \in Wallets : alloc[w] \in Nat
    BY DEF Shape
  <1>3. \A w \in Wallets : Slice(p, w) = alloc[w]
    BY <1>1, <1>2 DEF Slice
  <1> QED
    BY <1>1, <1>3, PromisedTotal DEF Promise!Holders

LEMMA HalfIsNone == ASSUME NEW t \in Nat, t > 0 PROVE t \div (2 * t) = 0
  OBVIOUS

\* A proportional reduction is the promise's.
LEMMA ScalesAlone ==
    ASSUME Shape, NEW p \in Procs, SeesAll(p), tx[p].pc = "allocations", tx[p].cmd.op # "drop",
           NEW sold \in Nat, Storable(p, sold), alloc' = Overlay(Reduced(p, sold), alloc)
    PROVE  Promise!Scale(IF sold > Promise!Total(alloc) THEN 0 ELSE Promise!Total(alloc) - sold)
  <1> DEFINE t == Promise!Total(alloc)
             keep == IF sold > t THEN 0 ELSE t - sold
             share(w) == (2 * alloc[w] * keep + t) \div (2 * t)
  <1>1. /\ Locked(p) = Promise!Holders /\ Allocated(p) = t /\ t \in Nat /\ alloc \in [Wallets -> Nat]
        /\ \A w \in Wallets : alloc[w] \in Nat
    BY LockedIsAll, ReadsTyped DEF Shape
  <1>2. CASE t = 0
    <2>1. alloc' = alloc
      BY <1>1, <1>2, NothingOverlaid DEF Reduced
    <2> QED
      BY <1>2, <2>1 DEF Promise!Scale
  <1>3. CASE t # 0
    <2>1. Reduced(p, sold) = [w \in Locked(p) |-> share(w)]
      BY <1>1, <1>3 DEF Reduced
    <2>2. ASSUME NEW w \in Wallets PROVE alloc'[w] = share(w)
      <3>1. CASE w \in Locked(p)
        BY <1>1, <2>1, <3>1, Overlaid
      <3>2. CASE w \notin Locked(p)
        <4>1. alloc[w] = 0 /\ alloc'[w] = alloc[w]
          BY <1>1, <2>1, <3>2, Overlaid DEF Promise!Holders
        <4>2. keep \in Nat
          BY <1>1
        <4> HIDE DEF t, keep
        <4>3. 2 * alloc[w] * keep + t = t
          BY <1>1, <4>1, <4>2
        <4>4. share(w) = 0
          BY <1>1, <1>3, <4>3, HalfIsNone
        <4> QED
          BY <4>1, <4>4
      <3> QED
        BY <3>1, <3>2
    <2>3. alloc' = [w \in Wallets |-> share(w)]
      <3>1. DOMAIN alloc' = Wallets /\ alloc' = [w \in DOMAIN alloc |-> alloc'[w]]
        BY <1>1 DEF Overlay
      <3> HIDE DEF share
      <3> QED
        BY <1>1, <2>2, <3>1
    <2>4. keep > 0 => \A w \in Promise!Holders : alloc'[w] > 0
      <3>1. keep > 0 => sold < Allocated(p)
        BY <1>1
      <3>2. \A w \in Locked(p) : Reduced(p, sold)[w] = share(w) /\ alloc'[w] = share(w)
        BY <1>1, <2>1, <2>2 DEF Promise!Holders
      <3> QED
        BY <1>1, <3>1, <3>2 DEF Storable
    <2> QED
      BY <1>3, <2>3, <2>4 DEF Promise!Scale
  <1> QED
    BY <1>2, <1>3

\* Replacing one wallet's allocation, as the promise writes it.
LEMMA OneGiven ==
    ASSUME Shape, NEW w \in Wallets, NEW q
    PROVE  Overlay([x \in {w} |-> q], alloc) = [alloc EXCEPT ![w] = q]
  BY DEF Shape, Overlay

\* Only a purchase that reads the rule comes to know one.
LEMMA OthersForget ==
    ASSUME Shape, NEW p \in Procs, Begin(p) \/ Step(p), ~ReadRule(p)
    PROVE  Promise!Forget
  <1> DEFINE Same(q) == tx'[q].rule = tx[q].rule \/ tx'[q].rule = NoRow
  <1>1. tx \in [Procs -> Transaction] /\ tx[p] \in Transaction /\ Idle \in Transaction /\ Idle.rule = NoRow
    BY IdleTyped DEF Shape
  <1>2. SUFFICES \A q \in Procs : Same(q)
    BY DEF Promise!Forget, RulesRead
  <1>3. CASE Begin(p)
    <2>1. ASSUME NEW t \in Ids, NEW row \in Row, NEW w \in Wallets \cup {NoWallet}, BeginCreate(p, t, row, w) PROVE \A x \in Procs : Same(x)
      <3>1. PICK a, b, c : tx' = [tx EXCEPT ![p] = [Idle EXCEPT !.pc = a, !.cmd = b, !.todo = c]]
        BY Zenon, <2>1 DEF BeginCreate, Start
      <3> QED
        BY <1>1, <3>1 DEF Transaction
    <2>2. ASSUME NEW t \in Ids, NEW row \in Row, BeginEdit(p, t, row) PROVE \A x \in Procs : Same(x)
      <3>1. PICK a, b, c : tx' = [tx EXCEPT ![p] = [Idle EXCEPT !.pc = a, !.cmd = b, !.todo = c]]
        BY Zenon, <2>2 DEF BeginEdit, Start
      <3> QED
        BY <1>1, <3>1 DEF Transaction
    <2>3. ASSUME NEW t \in Ids, BeginDelete(p, t) PROVE \A x \in Procs : Same(x)
      <3>1. PICK a, b, c : tx' = [tx EXCEPT ![p] = [Idle EXCEPT !.pc = a, !.cmd = b, !.todo = c]]
        BY Zenon, <2>3 DEF BeginDelete, Start
      <3> QED
        BY <1>1, <3>1 DEF Transaction
    <2>4. ASSUME NEW w \in Wallets, NEW q \in Adds \cup {0}, BeginAllocate(p, w, q) PROVE \A x \in Procs : Same(x)
      <3>1. PICK a, b, c : tx' = [tx EXCEPT ![p] = [Idle EXCEPT !.pc = a, !.cmd = b, !.held = c]]
        BY Zenon, <2>4 DEF BeginAllocate, Start
      <3> QED
        BY <1>1, <3>1 DEF Transaction
    <2>5. ASSUME NEW w \in Wallets, NEW t \in Ids, BeginAssign(p, w, t) PROVE \A x \in Procs : Same(x)
      <3>1. PICK a, b : tx' = [tx EXCEPT ![p] = [Idle EXCEPT !.pc = a, !.cmd = b]]
        BY Zenon, <2>5 DEF BeginAssign, Start
      <3> QED
        BY <1>1, <3>1 DEF Transaction
    <2>6. ASSUME NEW w \in Wallets, BeginDrop(p, w) PROVE \A x \in Procs : Same(x)
      <3>1. PICK a, b, c : tx' = [tx EXCEPT ![p] = [Idle EXCEPT !.pc = a, !.cmd = b, !.seen = c]]
        BY Zenon, <2>6 DEF BeginDrop, Start
      <3> QED
        BY <1>1, <3>1 DEF Transaction
    <2> QED
      BY <1>3, <2>1, <2>2, <2>3, <2>4, <2>5, <2>6 DEF Begin
  <1>4. CASE Write(p)
    <2>1. PICK a, b : tx' = [tx EXCEPT ![p].pc = a, ![p].rows = b]
      BY Zenon, <1>4 DEF Write
    <2> QED
      BY <1>1, <2>1 DEF Transaction
  <1>5. CASE RecalcRead(p)
    <2>1. PICK a, b : tx' = [tx EXCEPT ![p].pc = a, ![p].value = b]
      BY Zenon, <1>5 DEF RecalcRead
    <2> QED
      BY <1>1, <2>1 DEF Transaction
  <1>6. CASE RecalcWrite(p)
    <2>1. PICK a, b, c, d : tx' = [tx EXCEPT ![p].pc = a, ![p].todo = b, ![p].value = c, ![p].cached = d]
      BY Zenon, <1>6 DEF RecalcWrite
    <2> QED
      BY <1>1, <2>1 DEF Transaction
  <1>7. CASE LockPositions(p)
    <2>1. PICK a, b : tx' = [tx EXCEPT ![p].pc = a, ![p].want = b]
      BY Zenon, <1>7 DEF LockPositions
    <2> QED
      BY <1>1, <2>1 DEF Transaction
  <1>8. CASE LockAllocations(p)
    <2>1. PICK a, b, c : tx' = [tx EXCEPT ![p].pc = a, ![p].seen = b, ![p].want = c]
      BY Zenon, <1>8 DEF LockAllocations
    <2> QED
      BY <1>1, <2>1 DEF Transaction
  <1>9. CASE LockDropped(p)
    <2>1. PICK a, b : tx' = [tx EXCEPT ![p].pc = a, ![p].want = b]
      BY Zenon, <1>9 DEF LockDropped
    <2> QED
      BY <1>1, <2>1 DEF Transaction
  <1>10. CASE Clamp(p)
    <2>1. PICK a, b : tx' = [tx EXCEPT ![p].pc = a, ![p].value = b]
      BY Zenon, <1>10 DEF Clamp
    <2> QED
      BY <1>1, <2>1 DEF Transaction
  <1>11. CASE Relock(p)
    <2>1. PICK a, b : tx' = [tx EXCEPT ![p].pc = a, ![p].held = b]
      BY Zenon, <1>11 DEF Relock
    <2> QED
      BY <1>1, <2>1 DEF Transaction
  <1>12. CASE TakeWanted(p)
    <2>1. UNCHANGED tx \/ \E k : tx' = [tx EXCEPT ![p].want = tx[p].want \ {k}]
      BY <1>12 DEF TakeWanted
    <2>2. CASE UNCHANGED tx
      BY <2>2
    <2>3. CASE ~UNCHANGED tx
      <3>1. PICK a : tx' = [tx EXCEPT ![p].want = a]
        BY <2>1, <2>3
      <3> QED
        BY <1>1, <3>1 DEF Transaction
    <2> QED
      BY <2>2, <2>3
  <1>13. CASE RecalcRefused(p) \/ Refuse(p) \/ DeadlockAbort(p) \/ Commit(p)
    BY <1>1, <1>13 DEF RecalcRefused, Refuse, DeadlockAbort, Rollback, Commit
  <1> QED
    BY <1>3, <1>4, <1>5, <1>6, <1>7, <1>8, <1>9, <1>10, <1>11, <1>12, <1>13 DEF Step

\* A commit that writes the ledger moves the wallets by what is held as it leaves it.
LEMMA WriterAlone ==
    ASSUME Shape, NEW p \in Procs, SeesAll(p), Commit(p), tx[p].cmd.op \in Writers
    PROVE  Promise!LedgerWrite
  <1>1. /\ alloc' = Overlay(Proposal(p), alloc) /\ Accepted(p) /\ tx[p].pc = "allocations"
        /\ alloc \in [Wallets -> Nat] /\ alloc' \in [Wallets -> Nat] /\ RequestTyped(tx[p])
        /\ tx[p].cmd.op # "drop"
    BY CommitTyped, TxFacts DEF Commit, Ready, Shape, Writers
  <1>2. HeldOf(pos') = Held(p) /\ Held(p) \in Nat
    BY SeenTyped DEF Held, Commit
  <1>3. UNCHANGED <<wallets, rule>>
    <2>1. Dropped(p) = {}
      BY <1>1 DEF Dropped, Op
    <2> QED
      BY <2>1 DEF Commit
  <1>4. /\ Locked(p) = Promise!Holders /\ Allocated(p) = Promise!Total(alloc)
        /\ Promise!Total(alloc) \in Nat
        /\ \A w \in Wallets : Slice(p, w) = alloc[w]
    BY <1>1, LockedIsAll, ReadsTyped
  <1> DEFINE w0 == tx[p].cmd.wallet
             a == tx[p].cmd.row.qty
  <1>5. CASE tx[p].cmd.op = "create"
    <2>1. a \in Amounts /\ a \in Int /\ a # 0 /\ Bought(p) = a /\ Sold(p) = -a
      BY <1>1, <1>5, RowIs DEF RequestTyped, Bought, Sold, Row
    <2>2. Promise!Fits(alloc', HeldOf(pos'))
      BY <1>1, <1>2, <1>5, PromisedTotal DEF Accepted, Within, Op, Promise!Fits
    <2>3. CASE a > 0
      <3> DEFINE r == tx[p].rule
      <3>0. r \in RulesRead /\ BuyWallets(p) \subseteq wallets
        <4>1. ~Choosing(p)
          BY DEF Commit
        <4>2. r # NoRow
          BY <1>5, <2>1, <2>3, <4>1 DEF Choosing, Op
        <4> QED
          BY <1>1, <1>5, <2>1, <2>3, <4>2 DEF RulesRead, Accepted, Op
      <3>1. Proposal(p) = [x \in BuyWallets(p) |-> Slice(p, x) + a]
        BY <1>5, <2>1, <2>3 DEF Proposal, Op
      <3>2. BuyWallets(p) = Promise!Followers(r)
        <4>1. CASE r # NoWallet
          BY <4>1 DEF BuyWallets, Promise!Followers
        <4>2. CASE r = NoWallet /\ Cardinality(Locked(p)) = 1
          <5>1. PICK w : Locked(p) = {w}
            BY <4>2, ReadsTyped, FS_Singleton
          <5>2. w \in Wallets
            BY <1>4, <5>1 DEF Promise!Holders
          <5>3. Promise!Followers(r) = {w}
            BY <1>4, <4>2, <5>1, <5>2 DEF Promise!Followers
          <5> QED
            BY <4>2, <5>1, <5>3 DEF BuyWallets
        <4>3. CASE r = NoWallet /\ Cardinality(Locked(p)) # 1
          <5>1. \A w \in Wallets : Locked(p) # {w}
            BY <4>3, FS_Singleton
          <5>2. Promise!Followers(r) = {}
            BY <1>4, <4>3, <5>1 DEF Promise!Followers
          <5> QED
            BY <4>3, <5>2 DEF BuyWallets
        <4> QED
          BY <4>1, <4>2, <4>3
      <3>3. alloc' = [w \in Wallets |-> IF w \in Promise!Followers(r) THEN alloc[w] + a ELSE alloc[w]]
        <4>1. \A w \in Wallets : alloc'[w] = IF w \in Promise!Followers(r) THEN alloc[w] + a ELSE alloc[w]
          BY <1>1, <1>4, <3>1, <3>2, Overlaid
        <4> QED
          BY <1>1, <4>1
      <3>4. Promise!Buy(a)
        BY <2>2, <2>3, <3>0, <3>2, <3>3 DEF Promise!Buy
      <3> QED
        BY <1>2, <1>3, <2>1, <3>4 DEF Promise!LedgerWrite
    <2>4. CASE ~(a > 0)
      <3>1. -a \in Nat /\ -a > 0 /\ Sold(p) = -a /\ Sold(p) \in Nat
        BY <2>1, <2>4
      <3>2. Proposal(p) = IF w0 = NoWallet THEN Reduced(p, -a) ELSE [x \in {w0} |-> Slice(p, x) - (-a)]
        BY <1>5, <2>1, <2>4, <3>1 DEF Proposal, Op
      <3>3. CASE w0 = NoWallet
        <4>1. Storable(p, -a)
          BY <1>1, <1>5, <3>1, <3>3 DEF Accepted, Op
        <4>2. alloc' = Overlay(Reduced(p, -a), alloc)
          BY <1>1, <3>2, <3>3
        <4>3. Promise!Scale(IF -a > Promise!Total(alloc) THEN 0 ELSE Promise!Total(alloc) - (-a))
          BY <1>1, <3>1, <4>1, <4>2, ScalesAlone
        <4>4. Promise!Sell(-a)
          BY <2>2, <3>1, <4>3 DEF Promise!Sell
        <4> QED
          BY <1>2, <1>3, <2>1, <4>4 DEF Promise!LedgerWrite
      <3>4. CASE w0 # NoWallet
        <4>1. w0 \in Wallets
          BY <3>4, TxFacts
        <4>2. -a <= alloc[w0]
          BY <1>1, <1>4, <1>5, <3>1, <3>4, <4>1 DEF Accepted, Op, Shape
        <4>3. alloc' = [alloc EXCEPT ![w0] = @ - (-a)]
          <5>1. [x \in {w0} |-> Slice(p, x) - (-a)] = [x \in {w0} |-> alloc[w0] - (-a)]
            BY <1>4, <4>1
          <5> QED
            BY <1>1, <3>2, <3>4, <4>1, <5>1, OneGiven
        <4>4. Promise!SellFrom(w0, -a)
          BY <2>2, <3>1, <4>2, <4>3 DEF Promise!SellFrom
        <4> QED
          BY <1>2, <1>3, <2>1, <4>1, <4>4 DEF Promise!LedgerWrite
      <3> QED
        BY <3>3, <3>4
    <2> QED
      BY <2>3, <2>4
  <1>6. CASE tx[p].cmd.op \in {"edit", "delete"}
    <2>1. Proposal(p) = IF Excess(p) > 0 THEN Reduced(p, Excess(p)) ELSE Nothing
      BY <1>6 DEF Proposal, Op
    <2>2. Excess(p) = Promise!Total(alloc) - Held(p) /\ (Excess(p) > 0 <=> Promise!Total(alloc) > Held(p))
      BY <1>2, <1>4 DEF Excess
    <2>3. CASE Excess(p) > 0
      <3>1. Excess(p) \in Nat /\ Storable(p, Excess(p)) /\ alloc' = Overlay(Reduced(p, Excess(p)), alloc)
        BY <1>1, <1>2, <1>4, <1>6, <2>1, <2>2, <2>3 DEF Accepted, Op
      <3>2. Promise!Scale(IF Excess(p) > Promise!Total(alloc) THEN 0 ELSE Promise!Total(alloc) - Excess(p))
        BY <1>1, <3>1, ScalesAlone
      <3>3. (IF Excess(p) > Promise!Total(alloc) THEN 0 ELSE Promise!Total(alloc) - Excess(p)) = HeldOf(pos')
        BY <1>2, <1>4, <2>2
      <3>4. Promise!Rewrite
        BY <1>2, <2>2, <2>3, <3>2, <3>3 DEF Promise!Rewrite
      <3> QED
        BY <1>2, <1>3, <3>4 DEF Promise!LedgerWrite
    <2>4. CASE ~(Excess(p) > 0)
      <3>1. alloc' = alloc
        BY <1>1, <2>1, <2>4, NothingOverlaid
      <3>2. Promise!Rewrite
        BY <1>2, <2>2, <2>4, <3>1 DEF Promise!Rewrite
      <3> QED
        BY <1>2, <1>3, <3>2 DEF Promise!LedgerWrite
    <2> QED
      BY <2>3, <2>4
  <1> QED
    BY <1>5, <1>6 DEF Writers

\* What a wallet is given fits in what is held, whatever it held before.
LEMMA GivenFits ==
    ASSUME Shape, NEW w \in Wallets, NEW q \in Nat, q > 0, NEW limit \in Nat, limit <= HeldOf(pos),
           Total(alloc, Wallets \ {w}) + q <= limit, alloc' = [alloc EXCEPT ![w] = q]
    PROVE  Promise!Fits(alloc', HeldOf(pos)) /\ q \in 1..HeldOf(pos)
  <1>1. alloc' = Overlay([x \in {w} |-> q], alloc)
    BY OneGiven
  <1>2. Total(alloc', Wallets) = q + Total(alloc, Wallets \ {w}) /\ Total(alloc, Wallets \ {w}) \in Nat
    BY <1>1, OneReplaced
  <1>3. HeldOf(pos) \in Nat
    BY HeldNat DEF Shape, Caches
  <1> DEFINE o == Total(alloc, Wallets \ {w})
             h == HeldOf(pos)
             n == Total(alloc', Wallets)
  <1> HIDE DEF o, h, n
  <1>4. n <= h /\ q \in 1..h
    BY <1>2, <1>3 DEF o, h, n
  <1> QED
    BY <1>4, PromisedTotal DEF Promise!Fits, h, n

LEMMA AllocatorAlone ==
    ASSUME Shape, HeldFresh, NEW p \in Procs, SeesAll(p), HeldStands(p), Clamped(p), Commit(p),
           tx[p].cmd.op \in {"allocate", "assign"}, Promise!Forget
    PROVE  Promise!Next
  <1> DEFINE w == tx[p].cmd.wallet
  <1>1. /\ alloc' = Overlay(Proposal(p), alloc) /\ Accepted(p) /\ tx[p].pc = "allocations"
        /\ alloc \in [Wallets -> Nat] /\ RequestTyped(tx[p]) /\ w \in Wallets
        /\ tx[p].cmd.op # "drop" /\ tx[p].held \in Nat /\ tx[p].value \in Values
    BY TxFacts DEF Commit, Ready, Shape, RequestTyped
  <1>2. UNCHANGED <<HeldOf(pos), wallets, rule>>
    <2>1. Dropped(p) = {} /\ pos' = pos
      BY <1>1, ReadNothing DEF Dropped, Op, Commit, Writers
    <2> QED
      BY <2>1 DEF Commit
  <1>3. /\ \A x \in Wallets : Slice(p, x) = alloc[x]
        /\ Total(alloc, Locked(p) \ {w}) = Total(alloc, Wallets \ {w})
    BY <1>1, LockedIsAll
  <1>4. HeldOf(pos) \in Nat
    BY HeldNat DEF Shape, Caches
  <1>5. ASSUME NEW q \in Nat, Fits(p, w, q, tx[p].held), tx[p].held <= HeldOf(pos),
               Proposal(p) = [x \in {w} |-> q]
        PROVE  /\ q \in 1..HeldOf(pos) /\ alloc' = [alloc EXCEPT ![w] = q]
               /\ Promise!Fits(alloc', HeldOf(pos))
    <2>1. alloc' = [alloc EXCEPT ![w] = q]
      BY <1>1, <1>5, OneGiven
    <2>2. q > 0 /\ Total(alloc, Wallets \ {w}) + q <= tx[p].held
      BY <1>3, <1>5 DEF Fits
    <2> QED
      BY <1>1, <1>5, <2>1, <2>2, GivenFits
  <1>6. CASE tx[p].cmd.op = "allocate"
    <2> DEFINE q == Requested(p)
    <2>1. Proposal(p) = [x \in {w} |-> q] /\ Fits(p, w, q, tx[p].held) /\ w \in wallets
          /\ tx[p].held <= HeldOf(pos)
      BY <1>1, <1>6 DEF Proposal, Accepted, Op, HeldFresh
    <2>2. q \in Nat
      <3>1. w \in DOMAIN Proposal(p) /\ Proposal(p)[w] = q
        BY <2>1
      <3> QED
        BY <3>1, ProposalNat DEF Commit
    <2> HIDE DEF q
    <2>3. Promise!Allocate(w, q) /\ q \in 1..HeldOf(pos)
      BY <1>2, <1>5, <2>1, <2>2 DEF Promise!Allocate
    <2> QED
      BY <1>1, <2>3 DEF Promise!Next
  <1>7. CASE tx[p].cmd.op = "assign" /\ tx[p].value # NoRow
    <2> DEFINE v == tx[p].value
               q == Slice(p, w) + v
    <2>1. Proposal(p) = [x \in {w} |-> q] /\ Fits(p, w, q, tx[p].held) /\ w \in wallets
      BY <1>1, <1>7 DEF Proposal, Accepted, Op
    <2>2. tx[p].held = HeldOf(pos) /\ v \in Nat /\ v > 0 /\ v <= tx[p].cmd.row.qty
      BY <1>1, <1>7 DEF HeldStands, Clamped, Values
    <2>3. q = alloc[w] + v /\ alloc[w] \in Nat /\ tx[p].cmd.row.qty \in Amounts
      BY <1>1, <1>3, <1>7 DEF RequestTyped, Row
    <2>4. q \in Nat
      BY <2>2, <2>3
    <2>5. q \in 1..HeldOf(pos) /\ alloc' = [alloc EXCEPT ![w] = q] /\ Promise!Fits(alloc', HeldOf(pos))
      BY <1>4, <1>5, <2>1, <2>2, <2>4
    <2>6. v \in 1..HeldOf(pos)
      BY <1>4, <2>2, <2>3, <2>5
    <2>7. alloc' = [alloc EXCEPT ![w] = alloc[w] + v]
      BY <2>3, <2>5
    <2> HIDE DEF q, v
    <2>8. Promise!Assign(w, v)
      BY <1>2, <2>1, <2>2, <2>3, <2>5, <2>7 DEF Promise!Assign, Promise!Allocate
    <2> QED
      BY <1>1, <2>6, <2>8 DEF Promise!Next
  <1>8. CASE tx[p].cmd.op = "assign" /\ tx[p].value = NoRow
    <2>1. Proposal(p) = Nothing
      BY <1>8 DEF Proposal, Op
    <2>2. alloc' = alloc
      BY <1>1, <2>1, NothingOverlaid
    <2> QED
      BY <1>2, <2>2 DEF Promise!Next
  <1> QED
    BY <1>6, <1>7, <1>8

LEMMA DropAlone ==
    ASSUME Shape, Owned, NEW p \in Procs, Commit(p), tx[p].cmd.op = "drop", Promise!Forget
    PROVE  Promise!Next
  <1> DEFINE w == tx[p].cmd.wallet
  <1>1. w \in Wallets /\ alloc' = [alloc EXCEPT ![w] = 0] /\ pos' = pos /\ Dropped(p) = {w}
    <2>1. w \in Wallets /\ Proposal(p) = [x \in {w} |-> 0] /\ Cache(p) = pos
      BY TxFacts, ReadNothing DEF RequestTyped, Proposal, Op, Writers
    <2> QED
      BY <2>1, OneGiven DEF Commit, Dropped, Op
  <1>2. wallets' = wallets \ {w} /\ rule' = IF rule = w THEN NoWallet ELSE rule
    BY <1>1 DEF Commit
  <1>3. CASE w \in wallets
    <2>1. Promise!Drop(w)
      BY <1>1, <1>2, <1>3 DEF Promise!Drop
    <2> QED
      BY <1>1, <2>1 DEF Promise!Next
  <1>4. CASE w \notin wallets
    <2>1. alloc[w] = 0
      BY <1>1, <1>4 DEF Owned, Shape
    <2>2. alloc' = alloc
      BY <1>1, <2>1 DEF Shape
    <2>3. wallets' = wallets /\ rule' = rule
      BY <1>1, <1>2, <1>4, WalletsAssumption DEF Shape
    <2> QED
      BY <1>1, <2>2, <2>3 DEF Promise!Next
  <1> QED
    BY <1>3, <1>4

LEMMA StepAlone ==
    ASSUME Shape, HeldFresh, AloneInv, NEW n \in Nat, SumInv(n), [Next]_vars
    PROVE  Promise!Next \/ UNCHANGED Promise!vars
  <1> USE DEF db
  <1>1. ASSUME NEW p \in Procs, Begin(p) PROVE Promise!Next
    <2>1. Promise!Forget
      <3>1. ~ReadRule(p)
        BY <1>1, Starting DEF ReadRule, Ready
      <3> QED
        BY <1>1, <3>1, OthersForget
    <2> QED
      BY <1>1, <2>1, Starting DEF Promise!Next
  <1>2. ASSUME NEW p \in Procs, Step(p) PROVE Promise!Next
    <2>1. CASE Commit(p)
      <3>1. SeesAll(p) /\ HeldStands(p) /\ Clamped(p) /\ Owned
        BY DEF SumInv, AloneInv
      <3>2. tx[p].cmd.op \in OpNames /\ tx[p].cmd.op # "rule"
        BY <2>1, TxFacts DEF Commit, Ready, RequestTyped
      <3>3. Promise!Forget
        <4>1. ~ReadRule(p)
          BY <2>1 DEF Commit, ReadRule
        <4> QED
          BY <1>2, <4>1, OthersForget
      <3>4. CASE tx[p].cmd.op \in Writers
        BY <2>1, <3>1, <3>3, <3>4, WriterAlone DEF Promise!Next
      <3>5. CASE tx[p].cmd.op \in {"allocate", "assign"}
        BY <2>1, <3>1, <3>3, <3>5, AllocatorAlone
      <3>6. CASE tx[p].cmd.op = "drop"
        BY <2>1, <3>1, <3>3, <3>6, DropAlone
      <3> QED
        BY <3>2, <3>4, <3>5, <3>6 DEF OpNames, Writers
    <2>2. CASE ReadRule(p)
      <3>1. UNCHANGED db /\ tx'[p].rule = rule /\ \A q \in Procs : q # p => tx'[q] = tx[q]
        BY <2>2, ReadRuleMoves DEF Computes, Moves1
      <3>2. tx[p].rule = NoRow /\ rule # NoRow
        BY <2>2, RowsAssumption, WalletsAssumption DEF ReadRule, Choosing, Shape
      <3>3. RulesRead' = RulesRead \cup {rule}
        BY <3>1, <3>2 DEF RulesRead
      <3> QED
        BY <3>1, <3>3 DEF Promise!Next, Promise!ReadRule
    <2>3. CASE ~Commit(p) /\ ~ReadRule(p)
      <3>1. UNCHANGED db
        <4>1. CASE Write(p) \/ RecalcRead(p) \/ RecalcRefused(p) \/ RecalcWrite(p)
          BY <4>1 DEF Write, RecalcRead, RecalcRefused, RecalcWrite, Rollback
        <4>2. CASE LockPositions(p) \/ LockAllocations(p) \/ LockDropped(p) \/ TakeWanted(p) \/ Relock(p)
          BY <4>2, PositionsMoves, AllocationsMoves, WantedMoves, RelockMoves DEF LockDropped, Computes
        <4>3. CASE Clamp(p) \/ Refuse(p) \/ DeadlockAbort(p)
          BY <4>3 DEF Clamp, Refuse, DeadlockAbort, Rollback
        <4> QED
          BY <1>2, <2>3, <4>1, <4>2, <4>3 DEF Step
      <3>2. Promise!Forget
        BY <1>2, <2>3, OthersForget
      <3> QED
        BY <3>1, <3>2 DEF Promise!Next
    <2> QED
      BY <2>1, <2>2, <2>3
  <1>3. ASSUME NEW w \in Wallets \cup {NoWallet}, SetRule(w) PROVE Promise!Next
    <2>1. Promise!SetRule(w) /\ w \in wallets \cup {NoWallet} /\ Promise!Forget
      BY <1>3 DEF SetRule, Promise!SetRule, Promise!Forget, RulesRead
    <2> QED
      BY <2>1 DEF Promise!Next
  <1>4. CASE UNCHANGED vars
    BY <1>4 DEF vars, Promise!vars, RulesRead
  <1> QED
    BY <1>1, <1>2, <1>3, <1>4 DEF Next

\* Requests that overlap in any way change the wallets of an asset as if each ran
\* alone, in one step, at the moment it commits, but for the standing rule a
\* purchase follows, which it has read before; while some institution keeps a
\* position and no allocation goes by a holding that has shrunk since it was read.
\* The two conditions are the two ways lockForAsset can be got round: without a row
\* to lock it locks nothing, and allocateToWallet reads what is held before it.
THEOREM WalletsActAlone ==
    ASSUME NEW i \in Insts
    PROVE  Spec /\ [](pos[i] # NoRow) /\ []HeldFresh => KeepsWalletPromise
  <1> DEFINE n == Cardinality(Wallets)
  <1>0. n \in Nat /\ (Spec /\ [](pos[i] # NoRow) /\ []HeldFresh => []SumInv(n))
    BY AlwaysSums, FiniteAssumption, FS_CardinalityType
  <1> HIDE DEF n
  <1>1. Init => AloneInv
    BY IdleTyped, NoCommandTyped DEF Init, AloneInv, Owned, Clamped
  <1>2. Shape /\ AloneInv /\ [Next]_vars => AloneInv'
    BY NextAlone
  <1>3. Init => Promise!Init
    <2>1. ASSUME Init PROVE Promise!Init
      <3>1. HeldOf(pos) \in Nat /\ alloc \in [Wallets -> Nat]
        BY <2>1, InitShape, HeldNat DEF Shape, Caches
      <3>2. RulesRead = {}
        BY <2>1, IdleTyped DEF Init, RulesRead
      <3> QED
        BY <2>1, <3>1, <3>2, PromisedTotal DEF Init, Promise!Init, Promise!Fits
    <2> QED
      BY <2>1
  <1>4. Shape /\ HeldFresh /\ AloneInv /\ SumInv(n) /\ [Next]_vars => [Promise!Next]_(Promise!vars)
    BY <1>0, StepAlone
  <1> QED
    BY <1>0, <1>1, <1>2, <1>3, <1>4, AlwaysShape, PTL DEF Spec, KeepsWalletPromise, Promise!Spec

-----------------------------------------------------------------------------
(* Requests that write the ledger, and the positions they touch *)

Writer(p) == tx[p].cmd.op \in Writers

\* The row is of the position.
Of(row, i) == row # NoRow /\ row.inst = i

\* The position the row is in, and the one it goes to.
Touched(p) == {i \in Insts : Of(ledger[tx[p].cmd.id], i) \/ Of(tx[p].cmd.row, i)}

\* What the hazard at recalculate-from.ts:72-78 needs is two requests that touch
\* one position.
Apart == \A p, q \in Procs : p # q /\ Writer(p) /\ Writer(q) => Touched(p) \cap Touched(q) = {}

\* The ledger a request leaves.
Target(p) == IF tx[p].cmd.op = "delete" THEN NoRow ELSE tx[p].cmd.row
New(p) == [ledger EXCEPT ![tx[p].cmd.id] = Target(p)]

\* The ledgers have the same rows of the position.
Alike(L, M, i) == \A t \in Ids : L[t] = M[t] \/ (~Of(L[t], i) /\ ~Of(M[t], i))

\* So they replay alike: nothing else of a ledger is looked at.
LEMMA ReplayAlike ==
    ASSUME NEW L, NEW M, NEW i, Alike(L, M, i)
    PROVE  Replay(L, i) = Replay(M, i) /\ (Replayable(L, i) <=> Replayable(M, i))
  <1>1. RowsAt(L, i) = RowsAt(M, i) /\ \A t \in RowsAt(L, i) : t \in Ids /\ L[t] = M[t]
    BY DEF Alike, Of, RowsAt
  <1>2. ASSUME NEW S \in SUBSET RowsAt(L, i) PROVE NetOf(L, S) = NetOf(M, S)
    <2>1. Moves(L, S) = Moves(M, S)
      BY <1>1 DEF Moves
    <2> QED
      BY <2>1 DEF NetOf
  <1>3. ASSUME NEW d \in Dates PROVE Net(L, i, d) = Net(M, i, d)
    <2> DEFINE S == {t \in RowsAt(L, i) : L[t].date <= d}
               T == {t \in RowsAt(M, i) : M[t].date <= d}
    <2>1. S = T
      BY <1>1
    <2> QED
      BY <1>2, <2>1 DEF Net
  <1> QED
    BY <1>1, <1>2, <1>3 DEF Replay, Replayable

LEMMA OfIs == \A row \in Row : {i \in Insts : Of(row, i)} = {row.inst}
  BY RowIs DEF Of

LEMMA OfNone == {i \in Insts : Of(NoRow, i)} = {}
  BY DEF Of

\* A position that is not stored is one without rows.
LEMMA ReplayNone ==
    ASSUME NEW L \in Ledgers, NEW i \in Insts, Replay(L, i) = NoRow
    PROVE  RowsAt(L, i) = {}
  BY NetInt, RowsAssumption DEF Replay

-----------------------------------------------------------------------------
(* The inductive invariant *)

\* What a request has replayed and not yet stored.
Replayed(p, i, v) == v = Replay(New(p), i) /\ Replayable(New(p), i)

\* A request that writes the ledger has its row as it found it, has still to
\* replay or has replayed each position it touches, and no other.
WriterOK(p) ==
    LET r == tx[p] IN
    /\ r.cmd.op = "create" <=> ledger[r.cmd.id] = NoRow
    /\ r.cmd.op = "delete" => r.cmd.row = NoRow
    /\ IF r.pc = "write" THEN r.rows = Nothing ELSE r.rows = [x \in {r.cmd.id} |-> Target(p)]
    /\ Touched(p) = Elems(r.todo) \cup DOMAIN r.cached
    /\ r.todo # <<>> <=> r.pc \in {"write", "read", "cache"}
    /\ \A i \in DOMAIN r.cached : Replayed(p, i, r.cached[i])
    /\ r.pc = "cache" => Replayed(p, Head(r.todo), r.value)

\* A new row has an id of its own.
Distinct ==
    \A p, q \in Procs : p # q /\ Writer(p) /\ Writer(q) /\ tx[p].cmd.op = "create"
                           => tx[p].cmd.id # tx[q].cmd.id

WritesInv ==
    /\ Distinct
    /\ \A p \in Procs : Writer(p) => WriterOK(p)
    /\ \A i \in Insts : pos[i] = Replay(ledger, i) /\ Replayable(ledger, i)

LEMMA NewTyped ==
    ASSUME Shape, NEW p \in Procs
    PROVE  New(p) \in Ledgers
  BY TxFacts DEF New, Ledgers, Target

\* What a request that wrote its row reads as the ledger.
LEMMA SeesNew ==
    ASSUME Shape, NEW p \in Procs, WriterOK(p), tx[p].pc # "write"
    PROVE  Ledger(p) = New(p)
  <1> DEFINE t == tx[p].cmd.id
             row == Target(p)
             f == [x \in {t} |-> row]
  <1>1. tx[p].rows = f
    BY DEF WriterOK
  <1>2. ledger \in Ledgers /\ t \in Ids
    BY TxFacts
  <1>3. DOMAIN f = {t} /\ f[t] = row
    OBVIOUS
  <1> HIDE DEF f, t, row
  <1>4. Ledger(p) = [x \in Ids |-> IF x = t THEN row ELSE ledger[x]]
    BY <1>1, <1>2, <1>3 DEF Ledger, Overlay, Ledgers
  <1>5. New(p) = [x \in Ids |-> IF x = t THEN row ELSE ledger[x]]
    BY <1>2 DEF New, Ledgers, t, row
  <1> QED
    BY <1>4, <1>5

\* Where it does not touch, it leaves the rows.
LEMMA Elsewhere ==
    ASSUME Shape, NEW p \in Procs, NEW i \in Insts, i \notin Touched(p)
    PROVE  Alike(ledger, New(p), i)
  <1>1. ~Of(ledger[tx[p].cmd.id], i) /\ ~Of(tx[p].cmd.row, i)
    BY DEF Touched
  <1>2. ~Of(Target(p), i)
    BY <1>1 DEF Target, Of
  <1>3. \A t \in Ids : t # tx[p].cmd.id => New(p)[t] = ledger[t]
    BY TxFacts DEF New, Ledgers
  <1>4. New(p)[tx[p].cmd.id] = Target(p)
    BY TxFacts DEF New, Ledgers
  <1> QED
    BY <1>1, <1>2, <1>3, <1>4 DEF Alike

\* Where it does, there is a row, before or after.
LEMMA TouchedHasRows ==
    ASSUME Shape, NEW p \in Procs, WriterOK(p), NEW i \in Touched(p)
    PROVE  RowsAt(ledger, i) # {} \/ RowsAt(New(p), i) # {}
  <1> DEFINE t == tx[p].cmd.id
  <1>1. t \in Ids /\ New(p)[t] = Target(p)
    BY TxFacts DEF New, Ledgers
  <1>2. CASE Of(ledger[t], i)
    <2>1. t \in RowsAt(ledger, i)
      BY <1>1, <1>2 DEF Of, RowsAt
    <2> QED
      BY <2>1
  <1>3. CASE Of(tx[p].cmd.row, i)
    <2>1. Target(p) = tx[p].cmd.row
      BY <1>3 DEF Of, WriterOK, Target
    <2>2. t \in RowsAt(New(p), i)
      BY <1>1, <1>3, <2>1 DEF Of, RowsAt
    <2> QED
      BY <2>2
  <1> QED
    BY <1>2, <1>3 DEF Touched

\* A step of p that leaves the tables leaves what p touches and will write.
LEMMA Kept ==
    ASSUME NEW p \in Procs, UNCHANGED <<ledger, pos>>, tx'[p].cmd = tx[p].cmd
    PROVE  /\ Touched(p)' = Touched(p) /\ Target(p)' = Target(p) /\ New(p)' = New(p)
           /\ \A i, v : Replayed(p, i, v)' <=> Replayed(p, i, v)
  <1>1. Touched(p)' = Touched(p) /\ Target(p)' = Target(p)
    BY DEF Touched, Target
  <1>2. New(p)' = New(p)
    BY <1>1 DEF New
  <1> QED
    BY <1>1, <1>2 DEF Replayed

LEMMA OthersStand ==
    ASSUME WritesInv, NEW q \in Procs, UNCHANGED <<ledger, pos>>, tx'[q] = tx[q]
    PROVE  Writer(q)' => WriterOK(q)'
  <1>1. /\ Touched(q)' = Touched(q) /\ Target(q)' = Target(q)
        /\ \A i, v : Replayed(q, i, v)' <=> Replayed(q, i, v)
    BY Kept
  <1> QED
    BY <1>1 DEF WritesInv, WriterOK, Writer

\* A step that changes the transaction of one request.
LEMMA OneTx ==
    ASSUME WritesInv, NEW p \in Procs, UNCHANGED <<ledger, pos>>, Moves1(p),
           Writer(p)' => WriterOK(p)' /\ Writer(p) /\ tx'[p].cmd = tx[p].cmd
    PROVE  WritesInv'
  <1>1. \A q \in Procs : q # p => tx'[q] = tx[q]
    BY DEF Moves1
  <1>2. \A q \in Procs : Writer(q)' => WriterOK(q)'
    BY <1>1, OthersStand
  <1>3. Distinct'
    <2>1. \A q \in Procs : Writer(q)' => Writer(q) /\ tx'[q].cmd = tx[q].cmd
      BY <1>1 DEF Writer
    <2> QED
      BY <2>1 DEF WritesInv, Distinct
  <1> QED
    BY <1>2, <1>3 DEF WritesInv

-----------------------------------------------------------------------------
(* A request begins *)

\* A request that writes the ledger, as it begins.
LEMMA WriterBegins ==
    ASSUME Shape, WritesInv, NEW p \in Procs, UNCHANGED <<ledger, pos>>, Moves1(p), Writer(p)',
           tx'[p].pc = "write", tx'[p].rows = Nothing, tx'[p].cached = Nothing,
           tx'[p].cmd.op = "create" <=> ledger[tx'[p].cmd.id] = NoRow,
           tx'[p].cmd.op = "delete" => tx'[p].cmd.row = NoRow,
           Elems(tx'[p].todo) = {i \in Insts : Of(ledger[tx'[p].cmd.id], i) \/ Of(tx'[p].cmd.row, i)},
           tx'[p].todo # <<>>,
           \A q \in Procs : tx'[p].cmd.op = "create" => tx[q].pc = "idle" \/ tx[q].cmd.id # tx'[p].cmd.id
    PROVE  WritesInv'
  <1>1. \A q \in Procs : q # p => tx'[q] = tx[q]
    BY DEF Moves1
  <1>2. Touched(p)' = Elems(tx'[p].todo)
    BY DEF Touched
  <1>3. WriterOK(p)'
    BY <1>2, NothingTyped DEF WriterOK
  <1>4. ASSUME NEW q \in Procs, Writer(q)
        PROVE  /\ tx'[p].cmd.op = "create" => tx[q].cmd.id # tx'[p].cmd.id
               /\ tx[q].cmd.op = "create" => tx[q].cmd.id # tx'[p].cmd.id
    <2>1. tx[q].pc # "idle"
      BY <1>4, TxFacts DEF Writer, Writers, RequestTyped
    <2>2. tx[q].cmd.op = "create" => ledger[tx[q].cmd.id] = NoRow
      BY <1>4 DEF WritesInv, WriterOK
    <2> QED
      BY <2>1, <2>2
  <1>5. Distinct'
    <2>1. \A q \in Procs : q # p => (Writer(q)' <=> Writer(q))
      BY <1>1 DEF Writer
    <2>2. ASSUME NEW x \in Procs, NEW y \in Procs, x # y, Writer(x)', Writer(y)', tx'[x].cmd.op = "create"
          PROVE  tx'[x].cmd.id # tx'[y].cmd.id
      <3>1. CASE x = p
        BY <1>1, <1>4, <2>1, <2>2, <3>1
      <3>2. CASE y = p
        BY <1>1, <1>4, <2>1, <2>2, <3>2
      <3>3. CASE x # p /\ y # p
        BY <1>1, <2>1, <2>2, <3>3 DEF WritesInv, Distinct
      <3> QED
        BY <3>1, <3>2, <3>3
    <2> QED
      BY <2>2 DEF Distinct
  <1>6. \A q \in Procs : Writer(q)' => WriterOK(q)'
    BY <1>1, <1>3, OthersStand
  <1> QED
    BY <1>5, <1>6 DEF WritesInv

LEMMA BeginKeeps ==
    ASSUME Shape, WritesInv, NEW p \in Procs, Begin(p)
    PROVE  WritesInv'
  <1>0. UNCHANGED <<ledger, pos>>
    BY Starting DEF db
  <1>1. ASSUME NEW t \in Ids, NEW row \in Row, NEW w \in Wallets \cup {NoWallet}, BeginCreate(p, t, row, w)
        PROVE  WritesInv'
    <2>1. /\ Moves1(p) /\ tx'[p].pc = "write" /\ tx'[p].cmd.op = "create" /\ tx'[p].cmd.id = t
          /\ tx'[p].cmd.row = row /\ tx'[p].todo = <<row.inst>>
          /\ tx'[p].rows = Nothing /\ tx'[p].cached = Nothing
      BY <1>1, CreateStarts
    <2>2. ledger[t] = NoRow /\ \A q \in Procs : tx[q].pc = "idle" \/ tx[q].cmd.id # t
      BY <1>1 DEF BeginCreate
    <2>3. {i \in Insts : Of(ledger[t], i) \/ Of(row, i)} = {row.inst}
      BY <2>2, OfIs, OfNone
    <2>4. Writer(p)'
      BY <2>1 DEF Writer, Writers
    <2>5. Elems(tx'[p].todo) = {row.inst} /\ tx'[p].todo # <<>>
      BY <2>1, SingleIs
    <2> QED
      BY <1>0, <2>1, <2>2, <2>3, <2>4, <2>5, WriterBegins
  <1>2. ASSUME NEW t \in Ids, NEW row \in Row, BeginEdit(p, t, row)
        PROVE  WritesInv'
    <2>1. /\ Moves1(p) /\ tx'[p].pc = "write" /\ tx'[p].cmd.op = "edit" /\ tx'[p].cmd.id = t
          /\ tx'[p].cmd.row = row /\ tx'[p].todo = Scopes(ledger[t], row)
          /\ tx'[p].rows = Nothing /\ tx'[p].cached = Nothing /\ ledger[t] \in Row
      BY <1>2, EditStarts
    <2>2. {i \in Insts : Of(ledger[t], i) \/ Of(row, i)} = {ledger[t].inst, row.inst}
      BY <2>1, OfIs
    <2>3. Elems(tx'[p].todo) = {ledger[t].inst, row.inst} /\ tx'[p].todo # <<>>
      BY <2>1, SingleIs, PairIs DEF Scopes
    <2>4. Writer(p)' /\ ledger[t] # NoRow
      BY <2>1, RowIs DEF Writer, Writers
    <2> QED
      BY <1>0, <2>1, <2>2, <2>3, <2>4, WriterBegins
  <1>3. ASSUME NEW t \in Ids, BeginDelete(p, t)
        PROVE  WritesInv'
    <2>1. /\ Moves1(p) /\ tx'[p].pc = "write" /\ tx'[p].cmd.op = "delete" /\ tx'[p].cmd.id = t
          /\ tx'[p].cmd.row = NoRow /\ tx'[p].todo = <<ledger[t].inst>>
          /\ tx'[p].rows = Nothing /\ tx'[p].cached = Nothing /\ ledger[t] \in Row
      BY <1>3, DeleteStarts
    <2>2. {i \in Insts : Of(ledger[t], i) \/ Of(NoRow, i)} = {ledger[t].inst}
      BY <2>1, OfIs, OfNone
    <2>3. Elems(tx'[p].todo) = {ledger[t].inst} /\ tx'[p].todo # <<>>
      BY <2>1, SingleIs
    <2>4. Writer(p)' /\ ledger[t] # NoRow
      BY <2>1, RowIs DEF Writer, Writers
    <2> QED
      BY <1>0, <2>1, <2>2, <2>3, <2>4, WriterBegins
  <1>4. ASSUME NEW w \in Wallets,
               \/ \E q \in Adds \cup {0} : BeginAllocate(p, w, q)
               \/ \E t \in Ids : BeginAssign(p, w, t)
               \/ BeginDrop(p, w)
        PROVE  WritesInv'
    <2>1. Moves1(p) /\ tx'[p].cmd.op \in {"allocate", "assign", "drop"}
      BY <1>4, AllocateStarts, AssignStarts, DropStarts
    <2>2. ~Writer(p)'
      BY <2>1 DEF Writer, Writers
    <2> QED
      BY <1>0, <2>1, <2>2, OneTx
  <1> QED
    BY <1>1, <1>2, <1>3, <1>4 DEF Begin

-----------------------------------------------------------------------------
(* A request goes on *)

\* Only a request that writes the ledger is at these steps.
LEMMA WriterThere ==
    ASSUME Shape, WritesInv, NEW p \in Procs, tx[p].pc \in {"write", "read", "cache"}
    PROVE  Writer(p) /\ WriterOK(p)
  BY TxFacts DEF WritesInv, RequestTyped, Writer

LEMMA WriteKeeps ==
    ASSUME Shape, WritesInv, NEW p \in Procs, Write(p)
    PROVE  WritesInv'
  <1> DEFINE t == tx[p].cmd.id
             row == IF tx[p].cmd.op = "delete" THEN NoRow ELSE tx[p].cmd.row
  <1>1. /\ Moves1(p) /\ tx[p].pc = "write" /\ tx'[p].pc = "read" /\ tx'[p].cmd = tx[p].cmd
        /\ tx'[p].rows = IF tx[p].cmd.op # "create" /\ ledger[t] = NoRow THEN tx[p].rows ELSE [x \in {t} |-> row]
        /\ tx'[p].todo = tx[p].todo /\ tx'[p].cached = tx[p].cached /\ UNCHANGED <<ledger, pos>>
    BY WriteMoves DEF db
  <1>2. Writer(p) /\ WriterOK(p)
    BY <1>1, WriterThere
  <1>3. tx'[p].rows = [x \in {t} |-> Target(p)]
    BY <1>1, <1>2 DEF WriterOK, Target
  <1>4. /\ Touched(p)' = Touched(p) /\ Target(p)' = Target(p)
        /\ \A i, v : Replayed(p, i, v)' <=> Replayed(p, i, v)
    BY <1>1, Kept
  <1> HIDE DEF t, row
  <1>5. WriterOK(p)'
    BY <1>1, <1>2, <1>3, <1>4 DEF WriterOK, t
  <1> QED
    BY <1>1, <1>2, <1>5, OneTx

LEMMA RecalcReadKeeps ==
    ASSUME Shape, WritesInv, NEW p \in Procs, RecalcRead(p)
    PROVE  WritesInv'
  <1> DEFINE i == Head(tx[p].todo)
  <1>1. /\ Moves1(p) /\ tx[p].pc = "read" /\ tx'[p].pc = "cache" /\ tx'[p].cmd = tx[p].cmd
        /\ tx'[p].rows = tx[p].rows /\ tx'[p].todo = tx[p].todo /\ tx'[p].cached = tx[p].cached
        /\ tx'[p].value = Replay(Ledger(p), i) /\ Replayable(Ledger(p), i) /\ UNCHANGED <<ledger, pos>>
    BY RecalcReadMoves DEF db
  <1>2. Writer(p) /\ WriterOK(p)
    BY <1>1, WriterThere
  <1>3. Replayed(p, i, tx'[p].value)
    BY <1>1, <1>2, SeesNew DEF Replayed
  <1>4. /\ Touched(p)' = Touched(p) /\ Target(p)' = Target(p)
        /\ \A j, v : Replayed(p, j, v)' <=> Replayed(p, j, v)
    BY <1>1, Kept
  <1>5. Head(tx'[p].todo) = i
    BY <1>1
  <1> HIDE DEF i
  <1>6. WriterOK(p)'
    BY <1>1, <1>2, <1>3, <1>4, <1>5 DEF WriterOK
  <1> QED
    BY <1>1, <1>2, <1>6, OneTx

\* Where a request has written, there is a position to write or to delete.
LEMMA CacheLocksSome ==
    ASSUME Shape, WritesInv, NEW p \in Procs, tx[p].pc = "cache"
    PROVE  CacheLocks(p) # {}
  <1> DEFINE i == Head(tx[p].todo)
  <1>1. WriterOK(p) /\ tx[p].todo \in Seq(Insts)
    BY TxFacts, WriterThere
  <1>2. tx[p].todo # <<>> /\ Touched(p) = Elems(tx[p].todo) \cup DOMAIN tx[p].cached /\ Replayed(p, i, tx[p].value)
    BY <1>1 DEF WriterOK
  <1>3. i \in Insts /\ i \in Elems(tx[p].todo)
    BY <1>1, <1>2, SequenceFacts
  <1>4. i \in Touched(p)
    BY <1>2, <1>3
  <1>5. tx[p].value = Replay(New(p), i) /\ pos[i] = Replay(ledger, i) /\ New(p) \in Ledgers /\ ledger \in Ledgers
    BY <1>2, <1>3, NewTyped, TxFacts DEF Replayed, WritesInv
  <1> HIDE DEF i
  <1>6. ~(tx[p].value = NoRow /\ pos[i] = NoRow)
    BY <1>1, <1>3, <1>4, <1>5, ReplayNone, TouchedHasRows
  <1> QED
    BY <1>6 DEF CacheLocks, i

LEMMA RecalcWriteKeeps ==
    ASSUME Shape, WritesInv, NEW p \in Procs, RecalcWrite(p)
    PROVE  WritesInv'
  <1> DEFINE s == tx[p].todo
             c == tx[p].cached
             v == tx[p].value
             i == Head(s)
             c2 == [x \in DOMAIN c \cup {i} |-> IF x = i THEN v ELSE c[x]]
  <1>0. tx[p].pc = "cache"
    BY DEF RecalcWrite
  <1>1. /\ Moves1(p) /\ tx'[p].cmd = tx[p].cmd
        /\ tx'[p].pc = IF Len(s) = 1 THEN "lock" ELSE "read"
        /\ tx'[p].rows = tx[p].rows /\ tx'[p].todo = Tail(s) /\ i \in Insts
        /\ tx'[p].cached = c2 /\ UNCHANGED <<ledger, pos>>
    BY <1>0, RecalcWriteMoves, CacheLocksSome DEF db
  <1>2. Writer(p) /\ WriterOK(p) /\ s \in Seq(Insts) /\ s # <<>>
    BY <1>0, WriterThere, TxFacts DEF WriterOK
  <1>3. /\ Elems(s) = {i} \cup Elems(Tail(s)) /\ (Len(s) = 1 <=> Tail(s) = <<>>)
    BY <1>2, SequenceFacts
  <1>4. /\ Touched(p)' = Touched(p) /\ Target(p)' = Target(p)
        /\ \A j, x : Replayed(p, j, x)' <=> Replayed(p, j, x)
    BY <1>1, Kept
  <1>5. DOMAIN c2 = DOMAIN c \cup {i} /\ \A x \in DOMAIN c2 : c2[x] = IF x = i THEN v ELSE c[x]
    OBVIOUS
  <1> HIDE DEF c2
  <1>6. Touched(p) = Elems(Tail(s)) \cup DOMAIN c2
    BY <1>2, <1>3, <1>5 DEF WriterOK
  <1>7. \A x \in DOMAIN c2 : Replayed(p, x, c2[x])
    BY <1>0, <1>2, <1>5 DEF WriterOK
  <1>8. tx'[p].pc \in {"lock", "read"} /\ (tx'[p].todo # <<>> <=> tx'[p].pc = "read")
    BY <1>1, <1>3
  <1> HIDE DEF s, c, v, i
  <1>9. WriterOK(p)'
    BY <1>0, <1>1, <1>2, <1>4, <1>6, <1>7, <1>8 DEF WriterOK
  <1> QED
    BY <1>1, <1>2, <1>9, OneTx

\* Waiting for the locks of lockForAsset leaves the rest.
LEMMA ComputeKeeps ==
    ASSUME Shape, WritesInv, NEW p \in Procs, Computes(p), tx[p].pc \in Pcs \ {"idle", "write", "read", "cache"},
           tx'[p].pc \in {"lock", "positions", "allocations", "clamped"}
    PROVE  WritesInv'
  <1>1. /\ Moves1(p) /\ tx'[p].cmd = tx[p].cmd /\ tx'[p].rows = tx[p].rows /\ tx'[p].todo = tx[p].todo
        /\ tx'[p].cached = tx[p].cached /\ UNCHANGED <<ledger, pos>>
    BY DEF Computes, db
  <1>2. Writer(p)' <=> Writer(p)
    BY <1>1 DEF Writer
  <1>3. /\ Touched(p)' = Touched(p) /\ Target(p)' = Target(p)
        /\ \A i, v : Replayed(p, i, v)' <=> Replayed(p, i, v)
    BY <1>1, Kept
  <1>4. ASSUME Writer(p) PROVE WriterOK(p)'
    <2>1. WriterOK(p)
      BY <1>4 DEF WritesInv
    <2> QED
      BY <1>1, <1>3, <2>1 DEF WriterOK
  <1> QED
    BY <1>1, <1>2, <1>4, OneTx

\* A refusal, or a transaction aborted to break a cycle, leaves nothing.
LEMMA EndKeeps ==
    ASSUME Shape, WritesInv, NEW p \in Procs, Ends(p), UNCHANGED <<ledger, pos>>
    PROVE  WritesInv'
  <1>1. Moves1(p) /\ ~Writer(p)'
    BY EndMoves, IdleTyped, NoCommandTyped DEF Writer, Writers
  <1> QED
    BY <1>1, OneTx

LEMMA StutterKeeps ==
    ASSUME WritesInv, UNCHANGED <<ledger, pos, tx>>
    PROVE  WritesInv'
  <1>1. \A q \in Procs : Writer(q)' => WriterOK(q)'
    BY OthersStand
  <1> QED
    BY <1>1 DEF WritesInv, Distinct, Writer

-----------------------------------------------------------------------------
(* A request commits *)

\* Another writer, while nothing in flight touches what it does.
LEMMA ApartWriters ==
    ASSUME Shape, WritesInv, Apart, NEW p \in Procs, NEW q \in Procs, p # q, Writer(p), Writer(q)
    PROVE  tx[p].cmd.id # tx[q].cmd.id /\ Touched(p) \cap Touched(q) = {}
  <1>1. Touched(p) \cap Touched(q) = {}
    BY DEF Apart
  <1>2. CASE tx[p].cmd.op = "create" \/ tx[q].cmd.op = "create"
    BY <1>1, <1>2 DEF WritesInv, Distinct
  <1>3. CASE tx[p].cmd.op # "create" /\ tx[q].cmd.op # "create"
    <2>1. WriterOK(p) /\ tx[p].cmd.id \in Ids
      BY TxFacts DEF WritesInv
    <2>2. ledger[tx[p].cmd.id] # NoRow
      BY <1>3, <2>1 DEF WriterOK
    <2>3. ledger[tx[p].cmd.id] \in Row
      BY <2>1, <2>2 DEF Shape, Ledgers
    <2>4. Of(ledger[tx[p].cmd.id], ledger[tx[p].cmd.id].inst) /\ ledger[tx[p].cmd.id].inst \in Insts
      BY <2>3, RowIs DEF Of
    <2>5. ledger[tx[p].cmd.id].inst \in Touched(p)
      BY <2>4 DEF Touched
    <2>6. tx[p].cmd.id = tx[q].cmd.id => ledger[tx[p].cmd.id].inst \in Touched(q)
      BY <2>4 DEF Touched
    <2> QED
      BY <1>1, <2>5, <2>6
  <1> QED
    BY <1>2, <1>3

\* A writer that commits leaves each position with its replay.
LEMMA WriterLeaves ==
    ASSUME Shape, WritesInv, NEW p \in Procs, Writer(p), Commit(p)
    PROVE  /\ ledger' = New(p)
           /\ \A i \in Insts : pos'[i] = Replay(ledger', i) /\ Replayable(ledger', i)
  <1>1. WriterOK(p) /\ tx[p].pc = "allocations"
    BY DEF WritesInv, Commit, Ready
  <1>2. ledger' = New(p)
    BY <1>1, SeesNew DEF Commit
  <1>3. Touched(p) = DOMAIN tx[p].cached
    <2>1. tx[p].todo = <<>> /\ Touched(p) = Elems(tx[p].todo) \cup DOMAIN tx[p].cached
      BY <1>1 DEF WriterOK
    <2>2. Elems(tx[p].todo) = {}
      BY <2>1, TxFacts, SequenceFacts
    <2> QED
      BY <2>1, <2>2
  <1>4. DOMAIN pos = Insts /\ pos' = Overlay(tx[p].cached, pos)
    BY DEF Shape, Caches, Commit, Cache
  <1>5. ASSUME NEW i \in Insts PROVE pos'[i] = Replay(New(p), i) /\ Replayable(New(p), i)
    <2>1. CASE i \in Touched(p)
      <3>1. Replayed(p, i, tx[p].cached[i])
        BY <1>1, <1>3, <2>1 DEF WriterOK
      <3>2. pos'[i] = tx[p].cached[i]
        BY <1>3, <1>4, <2>1, Overlaid
      <3> QED
        BY <3>1, <3>2 DEF Replayed
    <2>2. CASE i \notin Touched(p)
      <3>1. Alike(ledger, New(p), i)
        BY <2>2, Elsewhere
      <3>2. pos'[i] = pos[i]
        BY <1>3, <1>4, <2>2, Overlaid
      <3>3. pos[i] = Replay(ledger, i) /\ Replayable(ledger, i)
        BY DEF WritesInv
      <3> QED
        BY <3>1, <3>2, <3>3, ReplayAlike
    <2> QED
      BY <2>1, <2>2
  <1> QED
    BY <1>2, <1>5

\* And the rows of what another touches as that one found them.
LEMMA OthersKept ==
    ASSUME Shape, WritesInv, Apart, NEW p \in Procs, NEW q \in Procs, p # q, Writer(p), Writer(q),
           ledger' = New(p), tx'[q] = tx[q]
    PROVE  /\ ledger'[tx[q].cmd.id] = ledger[tx[q].cmd.id]
           /\ Touched(q)' = Touched(q) /\ Target(q)' = Target(q) /\ Writer(q)'
           /\ \A i \in Touched(q) : \A v : Replayed(q, i, v)' <=> Replayed(q, i, v)
  <1>1. tx[p].cmd.id # tx[q].cmd.id /\ Touched(p) \cap Touched(q) = {}
    BY ApartWriters
  <1>2. tx[p].cmd.id \in Ids /\ tx[q].cmd.id \in Ids /\ ledger \in Ledgers /\ ledger' \in Ledgers
    BY TxFacts, NewTyped
  <1>3. ledger'[tx[q].cmd.id] = ledger[tx[q].cmd.id]
    BY <1>1, <1>2 DEF New, Ledgers
  <1>4. Touched(q)' = Touched(q) /\ Target(q)' = Target(q) /\ Writer(q)'
    BY <1>3 DEF Touched, Target, Writer
  <1>5. \A t \in Ids : New(q)[t] = IF t = tx[q].cmd.id THEN Target(q) ELSE ledger[t]
    BY <1>2 DEF New, Ledgers
  <1>6. \A t \in Ids : New(q)'[t] = IF t = tx[q].cmd.id THEN Target(q) ELSE ledger'[t]
    BY <1>2, <1>4 DEF New, Ledgers
  <1>7. ASSUME NEW i \in Touched(q) PROVE Alike(New(q), New(q)', i)
    <2>1. i \in Insts /\ i \notin Touched(p)
      BY <1>1 DEF Touched
    <2>2. Alike(ledger, ledger', i)
      BY <2>1, Elsewhere
    <2> QED
      BY <1>5, <1>6, <2>2 DEF Alike
  <1>8. ASSUME NEW i \in Touched(q), NEW v PROVE Replayed(q, i, v)' <=> Replayed(q, i, v)
    BY <1>7, ReplayAlike DEF Replayed
  <1> QED
    BY <1>3, <1>4, <1>8

LEMMA CommitKeeps ==
    ASSUME Shape, WritesInv, Apart, NEW p \in Procs, Commit(p)
    PROVE  WritesInv'
  <1>1. Ends(p) /\ ledger' = Ledger(p) /\ pos' = Cache(p)
    BY CommitTyped DEF Commit
  <1>2. CASE ~Writer(p)
    <2>1. tx[p].rows = Nothing /\ tx[p].cached = Nothing
      BY <1>2, TxFacts DEF RequestTyped, Writer
    <2>2. ledger' = ledger /\ pos' = pos
      BY <1>1, <2>1, NothingOverlaid DEF Ledger, Cache, Shape, Ledgers, Caches
    <2> QED
      BY <1>1, <2>2, EndKeeps
  <1>3. CASE Writer(p)
    <2>1. /\ ledger' = New(p)
          /\ \A i \in Insts : pos'[i] = Replay(ledger', i) /\ Replayable(ledger', i)
      BY <1>3, WriterLeaves
    <2>2. tx'[p] = Idle /\ \A q \in Procs : q # p => tx'[q] = tx[q]
      BY <1>1, EndMoves DEF Moves1
    <2>3. ~Writer(p)'
      BY <2>2, IdleTyped, NoCommandTyped DEF Writer, Writers
    <2>4. ASSUME NEW q \in Procs, Writer(q)' PROVE WriterOK(q)'
      <3>1. q # p /\ tx'[q] = tx[q] /\ Writer(q)
        BY <2>2, <2>3, <2>4 DEF Writer
      <3>2. WriterOK(q)
        BY <3>1 DEF WritesInv
      <3>3. /\ ledger'[tx[q].cmd.id] = ledger[tx[q].cmd.id]
            /\ Touched(q)' = Touched(q) /\ Target(q)' = Target(q)
            /\ \A i \in Touched(q) : \A v : Replayed(q, i, v)' <=> Replayed(q, i, v)
        BY <1>3, <2>1, <3>1, OthersKept
      <3>4. Touched(q) = Elems(tx[q].todo) \cup DOMAIN tx[q].cached
        BY <3>2 DEF WriterOK
      <3>5. tx[q].pc = "cache" => Head(tx[q].todo) \in Touched(q)
        <4>1. tx[q].pc = "cache" => tx[q].todo # <<>>
          BY <3>2 DEF WriterOK
        <4>2. tx[q].todo \in Seq(Insts)
          BY TxFacts
        <4> QED
          BY <3>4, <4>1, <4>2, SequenceFacts
      <3> QED
        BY <3>1, <3>2, <3>3, <3>4, <3>5 DEF WriterOK
    <2>5. Distinct'
      <3>1. \A q \in Procs : Writer(q)' => Writer(q) /\ tx'[q] = tx[q]
        BY <2>2, <2>3 DEF Writer
      <3> QED
        BY <3>1 DEF WritesInv, Distinct
    <2> QED
      BY <2>1, <2>4, <2>5 DEF WritesInv
  <1> QED
    BY <1>2, <1>3

-----------------------------------------------------------------------------
(* The theorems *)

LEMMA InitWrites ==
    ASSUME Init
    PROVE  WritesInv
  <1>1. \A i \in Insts : Replayable(ledger, i) /\ pos[i] = Replay(ledger, i)
    BY DEF Init
  <1>2. \A p \in Procs : ~Writer(p)
    BY IdleTyped, NoCommandTyped DEF Init, Writer, Writers
  <1> QED
    BY <1>1, <1>2 DEF WritesInv, Distinct

LEMMA NextWrites ==
    ASSUME Shape, WritesInv, Apart, [Next]_vars
    PROVE  WritesInv'
  <1>1. ASSUME NEW p \in Procs, Begin(p) PROVE WritesInv'
    BY <1>1, BeginKeeps
  <1>2. ASSUME NEW p \in Procs, Step(p) PROVE WritesInv'
    <2>1. CASE Write(p)
      BY <2>1, WriteKeeps
    <2>2. CASE RecalcRead(p)
      BY <2>2, RecalcReadKeeps
    <2>3. CASE RecalcWrite(p)
      BY <2>3, RecalcWriteKeeps
    <2>4. CASE \/ LockPositions(p) \/ LockAllocations(p) \/ LockDropped(p) \/ TakeWanted(p)
               \/ Clamp(p) \/ Relock(p) \/ ReadRule(p)
      <3>1. Clamp(p) => tx[p].cmd.op = "assign"
        BY DEF Clamp, Clamping, Op
      <3>2. /\ Computes(p) /\ tx[p].pc \in {"lock", "positions", "drop", "allocations", "clamped"}
            /\ tx'[p].pc \in {"lock", "positions", "allocations", "clamped"}
        BY <2>4, <3>1, PositionsMoves, AllocationsMoves, DroppedMoves, WantedMoves, AssignableInt,
           ClampMoves, RelockMoves, ReadRuleMoves
      <3> QED
        BY <3>2, ComputeKeeps DEF Pcs
    <2>5. CASE RecalcRefused(p) \/ Refuse(p) \/ DeadlockAbort(p)
      BY <2>5, EndKeeps DEF RecalcRefused, Refuse, DeadlockAbort, Rollback, Ends, db
    <2>6. CASE Commit(p)
      BY <2>6, CommitKeeps
    <2> QED
      BY <1>2, <2>1, <2>2, <2>3, <2>4, <2>5, <2>6 DEF Step
  <1>3. ASSUME NEW w \in Wallets \cup {NoWallet}, SetRule(w) PROVE WritesInv'
    BY <1>3, StutterKeeps DEF SetRule
  <1>4. CASE UNCHANGED vars
    BY <1>4, StutterKeeps DEF vars, db
  <1> QED
    BY <1>1, <1>2, <1>3, <1>4 DEF Next

LEMMA AlwaysWrites == Spec /\ []Apart => []WritesInv
  <1>1. Init => WritesInv
    BY InitWrites
  <1>2. Shape /\ WritesInv /\ Apart /\ [Next]_vars => WritesInv'
    BY NextWrites
  <1> QED
    BY <1>1, <1>2, AlwaysShape, PTL DEF Spec

\* While no two requests in flight write rows of one position, the cached
\* position of every institution is the replay of the stored ledger, whatever
\* the requests about wallets do meanwhile (recalculatePositionFrom, called by
\* create, edit and delete).
THEOREM CacheFollows == Spec /\ []Apart => []CacheIsReplay
  <1>1. WritesInv => CacheIsReplay
    BY DEF WritesInv, CacheIsReplay
  <1> QED
    BY <1>1, AlwaysWrites, PTL

\* While no two requests in flight write rows of one position, the stored ledger
\* never holds a sale of more than was held on its date: the deletions and edits
\* that no guard looks at are refused by the recalculation (guardReplayable,
\* recalculatePositionFrom).
THEOREM LedgerReplays == Spec /\ []Apart => []LedgerReplayable
  <1>1. WritesInv => LedgerReplayable
    BY DEF WritesInv, LedgerReplayable, Replayable
  <1> QED
    BY <1>1, AlwaysWrites, PTL
=============================================================================
