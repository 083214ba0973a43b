-------------------------- MODULE CarriedCostsProofs --------------------------
(***************************************************************************)
(* What every reachable state of CarriedCosts keeps, for any assets,        *)
(* institutions, ledgers and figures.                                       *)
(*                                                                          *)
(* The cached positions are their own replay.  The argument is about which  *)
(* positions a write touches, not about what it computes: a plan's changed  *)
(* rows sit in its dirty positions, a position no changed row sits in,      *)
(* before or after, lists the same rows, and every other one is guarded and *)
(* recalculated.                                                            *)
(*                                                                          *)
(* Rows keep their types and conversion groups their balance.  Here what a  *)
(* write computes matters: its figures come out of a replay, a resolution   *)
(* of carries and rounds of re-derivation, three recursions that exist and  *)
(* stay where their step stays (Sums).  A step of the replay keeps its      *)
(* state typed; a carry gives whole figures to credits that are no group's; *)
(* a re-derived group balances because allocateLike gives the residue of    *)
(* its rounding to the last target.  While it is planned a figure may be    *)
(* below zero, so the drafts of a plan are ledgers of Wide rows; the table  *)
(* stores none.                                                             *)
(*                                                                          *)
(* A user's write re-reads whatever it changed upstream.  A plan ends with  *)
(* a round that changes nothing, so every leg of a dirty position holds     *)
(* what the ledger gives it, read after the legs that feed it or among legs *)
(* that wait for one another; a position that is not dirty lists the rows   *)
(* it listed before, and what is read there depends on those rows alone.    *)
(*                                                                          *)
(* Where no conversion is import's, a plan settles: figures once stored are *)
(* resolved to themselves, so a round that is followed by another has       *)
(* dirtied a position whose credits no round had reached, and there are     *)
(* fewer credits than rounds.                                               *)
(***************************************************************************)
EXTENDS CarriedCosts, Sums, TLAPS

LEMMA TableIs == ASSUME NEW f PROVE Table(f) = f
  BY DEF Table

LEMMA OnlyIs ==
    ASSUME NEW f, NEW S
    PROVE  Only(f, S) = [t \in S |-> f[t]]
  BY TableIs DEF Only

LEMMA WithIs ==
    ASSUME NEW f, NEW g
    PROVE  With(f, g) = [t \in DOMAIN f \cup DOMAIN g |-> IF t \in DOMAIN f THEN f[t] ELSE g[t]]
  BY TableIs DEF With

Shaped(L) == \A t \in DOMAIN L : "pos" \in DOMAIN L[t]

\* Every row that differs between L and K sits in T, as L has it and as K has it.
DifferWithin(L, K, T) ==
    /\ \A t \in DOMAIN L : L[t].pos \in T \/ (t \in DOMAIN K /\ K[t] = L[t])
    /\ \A t \in DOMAIN K : K[t].pos \in T \/ (t \in DOMAIN L /\ L[t] = K[t])

CacheInv == Shaped(ledger) /\ CacheIsReplay

LEMMA Rewrites ==
    ASSUME NEW L, NEW final, Shaped(L)
    PROVE  /\ DOMAIN Rewritten(L, final) = DOMAIN L
           /\ Shaped(Rewritten(L, final))
           /\ \A t \in DOMAIN L : Rewritten(L, final)[t].pos = L[t].pos
  <1> USE DEF Shaped, Rewritten
  <1>1. DOMAIN Rewritten(L, final) = DOMAIN L
    OBVIOUS
  <1>2. ASSUME NEW t \in DOMAIN L
        PROVE  /\ "pos" \in DOMAIN Rewritten(L, final)[t]
               /\ Rewritten(L, final)[t].pos = L[t].pos
    OBVIOUS
  <1> QED BY <1>1, <1>2

\* A position outside T lists the same rows in both.
LEMMA Elsewhere ==
    ASSUME NEW L, NEW K, NEW T, DifferWithin(L, K, T), NEW p, p \notin T
    PROVE  At(L, p) = At(K, p)
  <1> DEFINE S == {t \in DOMAIN L : L[t].pos = p}
             R == {t \in DOMAIN K : K[t].pos = p}
  <1>1. S = R
    BY DEF DifferWithin
  <1>2. \A t \in S : L[t] = K[t]
    BY DEF DifferWithin
  <1>3. [t \in S |-> L[t]] = [t \in R |-> K[t]]
    BY <1>1, <1>2
  <1> QED BY <1>3 DEF At, Only

\* Whatever a write saves, the cache is the replay again, as long as the rows
\* it changed sit where it recalculates.
LEMMA SaveKeeps ==
    ASSUME NEW L, NEW T, NEW kind, CacheInv, Shaped(L),
           DifferWithin(L, ledger, T), Save(L, T, kind)
    PROVE  CacheInv'
  <1>1. ledger' = L /\ Shaped(ledger')
    BY DEF Save, Shaped
  <1>2. ASSUME NEW p \in Positions
        PROVE  Replayable(ledger', p) /\ cache'[p] = Replay(ledger', p)
    <2>1. CASE p \in T
      BY <1>1, <2>1 DEF Save, Recalculated
    <2>2. CASE p \notin T
      <3>1. At(ledger', p) = At(ledger, p)
        BY <1>1, <2>2, Elsewhere
      <3>2. cache'[p] = cache[p]
        BY <2>2 DEF Save, Recalculated
      <3> QED BY <3>1, <3>2 DEF CacheInv, CacheIsReplay, Replay, Replayable
    <2> QED BY <2>1, <2>2
  <1> QED BY <1>1, <1>2 DEF CacheInv, CacheIsReplay

\* A new row, or several under ids no stored row has.
LEMMA Adds ==
    ASSUME NEW rows, NEW T, Shaped(ledger), Shaped(rows),
           DOMAIN rows \cap DOMAIN ledger = {},
           \A t \in DOMAIN rows : rows[t].pos \in T
    PROVE  Shaped(With(rows, ledger)) /\ DifferWithin(With(rows, ledger), ledger, T)
  BY WithIs DEF Shaped, DifferWithin

LEMMA Removes ==
    ASSUME NEW S, Shaped(ledger), S \subseteq DOMAIN ledger
    PROVE  /\ Shaped(Without(ledger, S))
           /\ DifferWithin(Without(ledger, S), ledger, PositionsOf(ledger, S))
  BY DEF Shaped, DifferWithin, Without, PositionsOf

LEMMA FreshIsNew ==
    ASSUME NEW id \in Ids, Fresh(id)
    PROVE  id \notin DOMAIN ledger /\ id + 1 \notin DOMAIN ledger
  BY SizesAssumption DEF Fresh, Ids

-----------------------------------------------------------------------------
(* Initial states, conversions and imports. *)

LEMMA InitKeeps == Init => CacheInv
  <1> SUFFICES ASSUME Init PROVE CacheInv
    OBVIOUS
  <1>1. PICK L \in Starts : ledger = Rewritten(L, RederiveCarriedLegs(L, Positions).ledger)
    BY DEF Init
  <1>2. Shaped(L)
    BY StartsAssumption DEF Shaped, Row
  <1>3. Shaped(ledger)
    BY <1>1, <1>2, Rewrites
  <1> QED BY <1>3 DEF CacheInv, CacheIsReplay, Init

\* The marker a group takes from its sources changes no position.
LEMMA Marks ==
    ASSUME NEW L, NEW g, NEW T, Shaped(L), DifferWithin(L, ledger, T),
           \A t \in DOMAIN L : L[t].grp = g => L[t].pos \in T,
           \A t \in DOMAIN L : L[t].grp = g /\ t \in DOMAIN ledger => ledger[t].pos \in T
    PROVE  Shaped(WithSourceEstimate(L, g)) /\ DifferWithin(WithSourceEstimate(L, g), ledger, T)
  <1> DEFINE K == WithSourceEstimate(L, g)
  <1>1. DOMAIN K = DOMAIN L
    BY DEF WithSourceEstimate
  <1>2. ASSUME NEW t \in DOMAIN L
        PROVE  "pos" \in DOMAIN K[t] /\ K[t].pos = L[t].pos /\ (L[t].grp # g => K[t] = L[t])
    BY DEF WithSourceEstimate, Shaped
  <1>3. Shaped(K)
    BY <1>1, <1>2 DEF Shaped
  <1>4. DifferWithin(K, ledger, T)
    <2>1. ASSUME NEW t \in DOMAIN K
          PROVE  K[t].pos \in T \/ (t \in DOMAIN ledger /\ ledger[t] = K[t])
      BY <1>1, <1>2 DEF DifferWithin
    <2>2. ASSUME NEW t \in DOMAIN ledger
          PROVE  ledger[t].pos \in T \/ (t \in DOMAIN K /\ K[t] = ledger[t])
      BY <1>1, <1>2 DEF DifferWithin
    <2> QED BY <2>1, <2>2 DEF DifferWithin
  <1> QED BY <1>3, <1>4

LEMMA CreateGroupKeeps ==
    ASSUME CacheInv, NEW g, NEW id \in Ids, NEW from, NEW to, NEW day, NEW out, NEW in, NEW cost,
           CreateGroup(g, id, from, to, day, out, in, cost)
    PROVE  CacheInv'
  <1> DEFINE leg(pos, type, qty) ==
                 [pos |-> pos, type |-> type, day |-> day, qty |-> qty, price |-> cost,
                  est |-> FALSE, own |-> "user", grp |-> g]
             legs == [t \in {id, id + 1} |-> IF t = id THEN leg(from, "conversion_out", out)
                                             ELSE leg(to, "conversion_in", in)]
             L == With(legs, ledger)
             T == {from, to}
  <1>1. Fresh(id) /\ GroupRows(g) = {} /\ Save(WithSourceEstimate(L, g), T, "group")
    BY DEF CreateGroup
  <1>2. Shaped(legs) /\ \A t \in DOMAIN legs : legs[t].pos \in T
    BY DEF Shaped
  <1>3. DOMAIN legs = {id, id + 1} /\ DOMAIN legs \cap DOMAIN ledger = {}
    BY <1>1, FreshIsNew
  <1> HIDE DEF legs
  <1>4. Shaped(L) /\ DifferWithin(L, ledger, T)
    BY <1>2, <1>3, Adds DEF CacheInv
  <1>5. \A t \in DOMAIN L : L[t].grp = g => t \notin DOMAIN ledger /\ L[t].pos \in T
    <2>1. DOMAIN L = DOMAIN legs \cup DOMAIN ledger
      BY WithIs
    <2>2. ASSUME NEW t \in DOMAIN L, L[t].grp = g
          PROVE  t \in DOMAIN legs
      BY <1>1, <2>1, <2>2, WithIs DEF GroupRows
    <2>3. \A t \in DOMAIN legs : t \notin DOMAIN ledger /\ L[t] = legs[t]
      BY <1>3, <2>1, WithIs
    <2> QED BY <1>2, <2>2, <2>3
  <1> HIDE DEF L, T
  <1>6. Shaped(WithSourceEstimate(L, g)) /\ DifferWithin(WithSourceEstimate(L, g), ledger, T)
    BY <1>4, <1>5, Marks
  <1> QED BY <1>1, <1>6, SaveKeeps

LEMMA ReplaceGroupKeeps ==
    ASSUME CacheInv, NEW g, NEW qtys, NEW costs, ReplaceGroup(g, qtys, costs)
    PROVE  CacheInv'
  <1> DEFINE legs == [t \in GroupRows(g) |->
                         [ledger[t] EXCEPT !.qty = qtys[t], !.price = costs[t], !.own = "user"]]
             L == With(legs, ledger)
             T == PositionsOf(ledger, GroupRows(g))
  <1>1. Save(WithSourceEstimate(L, g), T, "group")
    BY DEF ReplaceGroup
  <1>2. DOMAIN legs = GroupRows(g) /\ GroupRows(g) \subseteq DOMAIN ledger
    BY DEF GroupRows
  <1>3. ASSUME NEW t \in GroupRows(g)
        PROVE  "pos" \in DOMAIN legs[t] /\ legs[t].pos = ledger[t].pos /\ ledger[t].pos \in T
    BY <1>2 DEF CacheInv, Shaped, PositionsOf
  <1> HIDE DEF legs, T
  <1>4. DOMAIN L = DOMAIN ledger /\ \A t \in DOMAIN L :
           L[t] = IF t \in GroupRows(g) THEN legs[t] ELSE ledger[t]
    BY <1>2, WithIs
  <1> HIDE DEF L
  <1>5. Shaped(L) /\ DifferWithin(L, ledger, T)
    BY <1>3, <1>4 DEF CacheInv, Shaped, DifferWithin
  <1>6. \A t \in DOMAIN L : L[t].grp = g => L[t].pos \in T /\ ledger[t].pos \in T
    BY <1>3, <1>4 DEF GroupRows
  <1>7. Shaped(WithSourceEstimate(L, g)) /\ DifferWithin(WithSourceEstimate(L, g), ledger, T)
    BY <1>5, <1>6, Marks
  <1> QED BY <1>1, <1>7, SaveKeeps

LEMMA DeleteGroupKeeps ==
    ASSUME CacheInv, NEW g, DeleteGroup(g)
    PROVE  CacheInv'
  <1> DEFINE L == Without(ledger, GroupRows(g))
             T == PositionsOf(ledger, GroupRows(g))
  <1>1. Save(L, T, "group")
    BY DEF DeleteGroup
  <1>2. Shaped(L) /\ DifferWithin(L, ledger, T)
    BY Removes DEF CacheInv, GroupRows
  <1> HIDE DEF L, T
  <1> QED BY <1>1, <1>2, SaveKeeps

LEMMA ImportBuyKeeps ==
    ASSUME CacheInv, NEW id \in Ids, NEW pos, NEW day, NEW qty, NEW price, NEW est,
           ImportBuy(id, pos, day, qty, price, est)
    PROVE  CacheInv'
  <1> DEFINE row == [pos |-> pos, type |-> "buy", day |-> day, qty |-> qty, price |-> price,
                     est |-> est, own |-> "import", grp |-> NoGroup]
             rows == [t \in {id} |-> row]
  <1>1. Fresh(id) /\ Save(With(rows, ledger), {pos}, "import")
    BY DEF ImportBuy
  <1>2. Shaped(rows) /\ \A t \in DOMAIN rows : rows[t].pos \in {pos}
    BY DEF Shaped
  <1>3. DOMAIN rows \cap DOMAIN ledger = {}
    BY <1>1, FreshIsNew
  <1> HIDE DEF rows
  <1>4. Shaped(With(rows, ledger)) /\ DifferWithin(With(rows, ledger), ledger, {pos})
    BY <1>2, <1>3, Adds DEF CacheInv
  <1> QED BY <1>1, <1>4, SaveKeeps

LEMMA ImportAgainKeeps ==
    ASSUME CacheInv, NEW batch, ImportAgain(batch)
    PROVE  CacheInv'
  <1> DEFINE L == Rewritten(ledger, Carried(ledger, batch))
             moved == {t \in DOMAIN L : L[t] # ledger[t]}
             T == PositionsOf(L, moved)
  <1>1. Save(L, T, "import")
    BY DEF ImportAgain
  <1>2. DOMAIN L = DOMAIN ledger /\ Shaped(L) /\ \A t \in DOMAIN ledger : L[t].pos = ledger[t].pos
    BY Rewrites DEF CacheInv
  <1> HIDE DEF L
  <1>3. DifferWithin(L, ledger, T)
    BY <1>2 DEF DifferWithin, PositionsOf
  <1> HIDE DEF T
  <1> QED BY <1>1, <1>2, <1>3, SaveKeeps

-----------------------------------------------------------------------------
(* Replays, of rows at any figure and of rows the table stores *)

\* Every figure a replay keeps is a whole number, and none counts shares below 0.
States == [ok : BOOLEAN, qty : Nat, cost : Int, avg : Int, est : BOOLEAN]

\* A row whose price may be any figure.
Wide == [pos : Positions, type : Types, day : Days, qty : Qtys, price : Int,
         est : BOOLEAN, own : {"import", "carry", "user"}, grp : Groups \cup {NoGroup}]

LEMMA StoredInt == ASSUME NEW x \in Int PROVE Stored(x) \in Int
  BY SizesAssumption DEF Stored

LEMMA StoredNat == ASSUME NEW x \in Nat PROVE Stored(x) \in Nat
  <1>1. 2 * x + Fine \in Nat /\ 2 * Fine \in Nat \ {0}
    BY SizesAssumption
  <1>2. ASSUME NEW a \in Nat, NEW b \in Nat \ {0} PROVE a \div b \in Nat
    OBVIOUS
  <1> QED BY <1>1, <1>2 DEF Stored

LEMMA ApplyTyped ==
    ASSUME NEW s \in States, NEW r \in Wide
    PROVE  Apply(s, r) \in States
  <1>0. /\ s.ok \in BOOLEAN /\ s.qty \in Nat /\ s.cost \in Int /\ s.avg \in Int /\ s.est \in BOOLEAN
        /\ r.type \in Types /\ r.qty \in Nat \ {0} /\ r.price \in Int /\ r.est \in BOOLEAN
        /\ Fine \in Nat \ {0}
    BY DataAssumption, SizesAssumption DEF States, Wide
  <1>1. Empty \in States /\ Failed \in States
    <2>1. Empty \in States
      BY DEF States, Empty
    <2>2. Failed \in States
      BY <2>1 DEF States, Failed
    <2> QED BY <2>1, <2>2
  <1>2. Adding(s, r) \in States
    <2> DEFINE n == IF r.type = "conversion_in" THEN 1 ELSE r.qty
               cost == s.cost + Fine * r.price * n
               qty == s.qty + r.qty
    <2>1. n \in Nat
      BY <1>0
    <2> HIDE DEF n
    <2>2. Fine * r.price \in Int
      BY <1>0
    <2>3. (Fine * r.price) * n \in Int
      BY <2>1, <2>2
    <2>4. cost \in Int /\ qty \in Nat \ {0}
      BY <1>0, <2>3
    <2>5. Adding(s, r) = [ok |-> TRUE, qty |-> qty, cost |-> cost, avg |-> cost \div qty, est |-> s.est \/ r.est]
      BY DEF Adding, n
    <2> HIDE DEF cost, qty
    <2>6. cost \div qty \in Int
      BY <2>4
    <2> QED BY <1>0, <2>4, <2>5, <2>6 DEF States
  <1>3. Removing(s, r) \in States
    <2>1. CASE s.qty <= r.qty
      BY <1>0, <1>1, <2>1 DEF Removing
    <2>2. CASE ~(s.qty <= r.qty)
      <3>1. s.avg * r.qty \in Int /\ s.qty - r.qty \in Nat
        BY <1>0, <2>2
      <3>2. s.cost - s.avg * r.qty \in Int
        BY <1>0, <3>1
      <3>3. Removing(s, r) = [s EXCEPT !.qty = s.qty - r.qty, !.cost = s.cost - s.avg * r.qty]
        BY <1>0, <2>2 DEF Removing
      <3> QED BY <3>1, <3>2, <3>3 DEF States
    <2> QED BY <2>1, <2>2
  <1>4. RemovingCost(s, r) \in States
    <2> DEFINE rest == s.cost - Fine * r.price
               cost == IF rest < 0 THEN 0 ELSE rest
    <2>1. rest \in Int /\ cost \in Int
      BY <1>0
    <2>2. RemovingCost(s, r) =
            IF s.qty < r.qty \/ 2 * rest + Fine < 0 THEN Failed
            ELSE IF s.qty = r.qty THEN Empty
            ELSE [s EXCEPT !.qty = s.qty - r.qty, !.cost = cost, !.avg = cost \div (s.qty - r.qty)]
      BY DEF RemovingCost
    <2> HIDE DEF rest, cost
    <2>3. CASE s.qty <= r.qty \/ 2 * rest + Fine < 0
      BY <1>0, <1>1, <2>2, <2>3
    <2>4. CASE ~(s.qty <= r.qty \/ 2 * rest + Fine < 0)
      <3>1. s.qty - r.qty \in Nat \ {0}
        BY <1>0, <2>4
      <3>2. cost \div (s.qty - r.qty) \in Int
        BY <2>1, <3>1
      <3>3. RemovingCost(s, r) = [s EXCEPT !.qty = s.qty - r.qty, !.cost = cost, !.avg = cost \div (s.qty - r.qty)]
        BY <1>0, <2>2, <2>4
      <3> QED BY <2>1, <3>1, <3>2, <3>3 DEF States
    <2> QED BY <2>3, <2>4
  <1> QED BY <1>0, <1>2, <1>3, <1>4 DEF Apply, Types

LEMMA DivFacts ==
    ASSUME NEW a \in Nat, NEW b \in Nat \ {0}
    PROVE  a \div b \in Nat /\ (a \div b) * b <= a
  OBVIOUS

\* A stored ledger's replay counts no cost below zero, and the shares it holds
\* are worth no more at the average than they cost.
Sound == {s \in States : s.cost >= 0 /\ s.avg >= 0 /\ s.avg * s.qty <= s.cost}

LEMMA RowIsWide == ASSUME NEW r \in Row PROVE r \in Wide /\ r.price \in Nat
  BY DEF Row, Wide

LEMMA ApplySound ==
    ASSUME NEW s \in Sound, NEW r \in Row
    PROVE  Apply(s, r) \in Sound
  <1>0. /\ s \in States /\ r \in Wide
        /\ s.ok \in BOOLEAN /\ s.qty \in Nat /\ s.cost \in Nat /\ s.avg \in Nat /\ s.est \in BOOLEAN
        /\ s.avg * s.qty <= s.cost
        /\ r.type \in Types /\ r.qty \in Nat \ {0} /\ r.price \in Nat /\ r.est \in BOOLEAN
        /\ Fine \in Nat \ {0}
    <2>1. s \in States /\ s.cost >= 0 /\ s.avg >= 0 /\ s.avg * s.qty <= s.cost
      BY DEF Sound
    <2>2. s.ok \in BOOLEAN /\ s.qty \in Nat /\ s.cost \in Int /\ s.avg \in Int /\ s.est \in BOOLEAN
      BY <2>1 DEF States
    <2>3. r \in Wide /\ r.price \in Nat
      BY RowIsWide
    <2>4. r.type \in Types /\ r.qty \in Nat \ {0} /\ r.est \in BOOLEAN
      BY <2>3, DataAssumption DEF Wide
    <2>5. Fine \in Nat \ {0}
      BY SizesAssumption
    <2> QED BY <2>1, <2>2, <2>3, <2>4, <2>5
  <1>1. Apply(s, r) \in States
    BY <1>0, ApplyTyped
  <1>2. Empty \in Sound /\ Failed \in Sound
    <2>1. Empty \in Sound
      BY DEF States, Sound, Empty
    <2>2. Failed \in Sound
      BY <2>1 DEF States, Sound, Failed
    <2> QED BY <2>1, <2>2
  <1>3. ASSUME Adding(s, r) \in States PROVE Adding(s, r) \in Sound
    <2> DEFINE n == IF r.type = "conversion_in" THEN 1 ELSE r.qty
               cost == s.cost + Fine * r.price * n
               qty == s.qty + r.qty
    <2>1. n \in Nat /\ Fine * r.price \in Nat
      BY <1>0
    <2> HIDE DEF n
    <2>2. (Fine * r.price) * n \in Nat
      BY <2>1
    <2>3. cost \in Nat /\ qty \in Nat \ {0}
      BY <1>0, <2>2
    <2>4. Adding(s, r) = [ok |-> TRUE, qty |-> qty, cost |-> cost, avg |-> cost \div qty, est |-> s.est \/ r.est]
      BY DEF Adding, n
    <2> HIDE DEF cost, qty
    <2>5. cost \div qty \in Nat /\ (cost \div qty) * qty <= cost
      BY <2>3, DivFacts
    <2> DEFINE avg == cost \div qty
    <2>6. Adding(s, r).cost = cost /\ Adding(s, r).avg = avg /\ Adding(s, r).qty = qty
      BY <2>4
    <2>7. avg \in Nat /\ avg * qty <= cost
      BY <2>5
    <2> HIDE DEF avg
    <2> QED BY <1>3, <2>3, <2>6, <2>7 DEF Sound
  <1>4. ASSUME Removing(s, r) \in States PROVE Removing(s, r) \in Sound
    <2>1. CASE s.qty <= r.qty
      BY <1>0, <1>2, <2>1 DEF Removing
    <2>2. CASE ~(s.qty <= r.qty)
      <3> DEFINE a == s.avg
                 q == s.qty
                 x == r.qty
                 c == s.cost - a * x
      <3>1. Removing(s, r) = [s EXCEPT !.qty = q - x, !.cost = c]
        BY <1>0, <2>2 DEF Removing
      <3>2. a \in Nat /\ q \in Nat /\ x \in Nat /\ q - x \in Nat /\ s.cost \in Nat /\ a * q <= s.cost
        BY <1>0, <2>2
      <3>3. Removing(s, r).qty = q - x /\ Removing(s, r).cost = c /\ Removing(s, r).avg = a
        BY <3>1, <1>0 DEF States
      <3> HIDE DEF a, q, x
      <3>4. a * (q - x) = a * q - a * x /\ a * (q - x) \in Nat /\ a * x \in Nat /\ a * q \in Nat
        BY <3>2
      <3>5. c \in Nat /\ a * (q - x) <= c
        BY <3>2, <3>4
      <3> HIDE DEF c
      <3> QED BY <1>4, <3>2, <3>3, <3>5 DEF Sound
    <2> QED BY <2>1, <2>2
  <1>5. ASSUME RemovingCost(s, r) \in States PROVE RemovingCost(s, r) \in Sound
    <2> DEFINE rest == s.cost - Fine * r.price
               cost == IF rest < 0 THEN 0 ELSE rest
               q == s.qty - r.qty
    <2>1. rest \in Int /\ cost \in Nat
      BY <1>0
    <2>2. RemovingCost(s, r) =
            IF s.qty < r.qty \/ 2 * rest + Fine < 0 THEN Failed
            ELSE IF s.qty = r.qty THEN Empty
            ELSE [s EXCEPT !.qty = q, !.cost = cost, !.avg = cost \div q]
      BY DEF RemovingCost
    <2> HIDE DEF rest, cost
    <2>3. CASE s.qty <= r.qty \/ 2 * rest + Fine < 0
      BY <1>0, <1>2, <2>2, <2>3
    <2>4. CASE ~(s.qty <= r.qty \/ 2 * rest + Fine < 0)
      <3>1. q \in Nat \ {0}
        BY <1>0, <2>4
      <3>2. RemovingCost(s, r) = [s EXCEPT !.qty = q, !.cost = cost, !.avg = cost \div q]
        BY <1>0, <2>2, <2>4
      <3> HIDE DEF q
      <3> DEFINE avg == cost \div q
      <3>3. RemovingCost(s, r).qty = q /\ RemovingCost(s, r).cost = cost /\ RemovingCost(s, r).avg = avg
        BY <1>0, <3>2 DEF States
      <3>4. avg \in Nat /\ avg * q <= cost
        BY <2>1, <3>1, DivFacts
      <3> HIDE DEF avg
      <3> QED BY <1>5, <2>1, <3>1, <3>3, <3>4 DEF Sound
    <2> QED BY <2>3, <2>4
  <1> QED BY <1>0, <1>1, <1>3, <1>4, <1>5 DEF Apply, Types

-----------------------------------------------------------------------------
(* A replay takes the rows in order *)

LEMMA LastIn ==
    ASSUME NEW L, IsFiniteSet(DOMAIN L), DOMAIN L \subseteq Int,
           \A t \in DOMAIN L : L[t] \in Wide,
           NEW R \in SUBSET DOMAIN L, R # {}
    PROVE  LastOf(L, R) \in R
  <1> DEFINE day == [t \in DOMAIN L |-> L[t].day]
             rank == [t \in DOMAIN L |-> Rank(L[t].type)]
  <1>1. \A t \in DOMAIN L : day[t] \in Int /\ rank[t] \in Int
    BY DataAssumption DEF Wide, Rank
  <1>2. \A t, u \in R : (Before(L, t, u) <=>
             \/ day[t] < day[u]
             \/ day[t] = day[u] /\ rank[t] < rank[u]
             \/ day[t] = day[u] /\ rank[t] = rank[u] /\ t < u)
    BY DEF Before
  <1> HIDE DEF day, rank
  <1>3. IsFiniteSet(R)
    BY FS_Subset
  <1>4. PICK a \in R : \A t \in R : day[t] <= day[a]
    BY <1>1, <1>3, Greatest
  <1> DEFINE A == {t \in R : day[t] = day[a]}
  <1>5. A # {} /\ A \subseteq R /\ IsFiniteSet(A)
    BY <1>3, FS_Subset
  <1>6. PICK b \in A : \A t \in A : rank[t] <= rank[b]
    <2>1. \A t \in A : rank[t] \in Int
      BY <1>1
    <2> HIDE DEF A
    <2> QED BY <1>5, <2>1, Greatest
  <1> DEFINE B == {t \in A : rank[t] = rank[b]}
  <1>7. B # {} /\ B \subseteq A /\ IsFiniteSet(B) /\ B \subseteq Int
    BY <1>5, FS_Subset
  <1>8. PICK m \in B : \A t \in B : t <= m
    <2> HIDE DEF B
    <2> QED BY <1>7, GreatestNumber
  <1>9. m \in R /\ day[m] = day[a] /\ rank[m] = rank[b]
    OBVIOUS
  <1>10. \A t \in R \ {m} : Before(L, t, m)
    <2> SUFFICES ASSUME NEW t \in R \ {m} PROVE Before(L, t, m)
      OBVIOUS
    <2>1. day[t] <= day[m] /\ day[t] \in Int /\ day[m] \in Int /\ rank[t] \in Int /\ rank[m] \in Int /\ t \in Int /\ m \in Int
      BY <1>1, <1>4, <1>9
    <2>2. CASE day[t] # day[m]
      BY <1>2, <1>9, <2>1, <2>2
    <2>3. CASE day[t] = day[m]
      <3>1. t \in A /\ rank[t] <= rank[m]
        BY <1>6, <1>9, <2>3
      <3>2. CASE rank[t] # rank[m]
        BY <1>2, <1>9, <2>1, <2>3, <3>1, <3>2
      <3>3. CASE rank[t] = rank[m]
        <4>1. t <= m /\ t # m
          BY <1>8, <1>9, <3>1, <3>3
        <4> QED BY <1>2, <1>9, <2>1, <2>3, <3>3, <4>1
      <3> QED BY <3>2, <3>3
    <2> QED BY <2>2, <2>3
  <1> QED BY <1>9, <1>10 DEF LastOf

IsReplays(g, L) ==
    g = [R \in SUBSET DOMAIN L |->
            IF R = {} THEN Empty ELSE Apply(g[R \ {LastOf(L, R)}], L[LastOf(L, R)])]
Replays(L) == CHOOSE g : IsReplays(g, L)

LEMMA FoldIs == ASSUME NEW L PROVE Fold(L) = Replays(L)[DOMAIN L]
  BY DEF Fold, MapThenFoldSet, Replays, IsReplays

\* What every step preserves, a replay has.
LEMMA FoldIn ==
    ASSUME NEW L, IsFiniteSet(DOMAIN L), DOMAIN L \subseteq Int,
           \A t \in DOMAIN L : L[t] \in Wide,
           NEW V, Empty \in V, \A t \in DOMAIN L : \A s \in V : Apply(s, L[t]) \in V
    PROVE  Fold(L) \in V
  <1>1. PICK S : S = DOMAIN L
    OBVIOUS
  <1>2. PICK c : c = [R \in SUBSET S |-> LastOf(L, R)]
    OBVIOUS
  <1>3. PICK G : G = [t \in S |-> [s \in V |-> Apply(s, L[t])]]
    OBVIOUS
  <1>4. \A R \in SUBSET S : R # {} => c[R] \in R
    BY <1>1, <1>2, LastIn
  <1>5. \A t \in S : \A s \in V : G[t][s] = Apply(s, L[t])
    BY <1>1, <1>3
  <1>6. \A t \in S : \A s \in V : G[t][s] \in V
    BY <1>1, <1>5
  <1>7. IsFiniteSet(S) /\ Empty \in V
    BY <1>1
  <1>8. Foldable(S, V, Empty, c, G)
    BY <1>4, <1>6, <1>7 DEF Foldable
  <1>9. PICK f : Folded(f, S, V, Empty, c, G)
    BY <1>8, FoldsExist
  <1>10. f \in [SUBSET S -> V] /\ \A R \in SUBSET S :
            f[R] = IF R = {} THEN Empty ELSE G[c[R]][f[R \ {c[R]}]]
    BY <1>9 DEF Folded
  <1>11. ASSUME NEW R \in SUBSET S
        PROVE  f[R] = IF R = {} THEN Empty ELSE Apply(f[R \ {LastOf(L, R)}], L[LastOf(L, R)])
    <2>1. CASE R = {}
      BY <1>10, <2>1
    <2>2. CASE R # {}
      <3>1. c[R] \in R /\ c[R] = LastOf(L, R)
        BY <1>4, <1>2, <2>2
      <3>2. R \ {c[R]} \in SUBSET S
        OBVIOUS
      <3>3. f[R] = G[c[R]][f[R \ {c[R]}]]
        BY <1>10, <2>2
      <3>4. c[R] \in S /\ f[R \ {c[R]}] \in V
        BY <1>10, <3>1, <3>2
      <3> QED BY <1>5, <2>2, <3>1, <3>3, <3>4
    <2> QED BY <2>1, <2>2
  <1>12. f = [R \in SUBSET S |-> f[R]]
    BY <1>10
  <1>13. f = [R \in SUBSET S |->
                IF R = {} THEN Empty ELSE Apply(f[R \ {LastOf(L, R)}], L[LastOf(L, R)])]
    BY <1>11, <1>12, Zenon
  <1>14. IsReplays(f, L)
    BY <1>1, <1>13 DEF IsReplays
  <1>15. IsReplays(Replays(L), L)
    BY <1>14, Zenon DEF Replays
  <1>16. ASSUME NEW R \in SUBSET S, \A x \in R : Replays(L)[R \ {x}] \in V PROVE Replays(L)[R] \in V
    <2>1. Replays(L)[R] = IF R = {} THEN Empty
                          ELSE Apply(Replays(L)[R \ {LastOf(L, R)}], L[LastOf(L, R)])
      BY <1>1, <1>15 DEF IsReplays
    <2>2. CASE R = {}
      BY <2>1, <2>2
    <2>3. CASE R # {}
      <3>1. LastOf(L, R) \in R
        BY <1>1, <2>3, LastIn
      <3>2. Replays(L)[R \ {LastOf(L, R)}] \in V /\ LastOf(L, R) \in DOMAIN L
        BY <1>1, <1>16, <3>1
      <3> QED BY <2>1, <2>3, <3>2
    <2> QED BY <2>2, <2>3
  <1>17. Replays(L)[S] \in V
    BY <1>16, <1>7, FoldsStay
  <1> QED BY <1>1, <1>17, FoldIs

-----------------------------------------------------------------------------
(* The types of what is re-derived *)

\* A ledger, perhaps with legs whose new figures are not stored yet.
Draft(L) == /\ IsFiniteSet(DOMAIN L) /\ DOMAIN L \subseteq Int
            /\ \A t \in DOMAIN L : L[t] \in Wide

LEMMA FoldTyped == ASSUME NEW L, Draft(L) PROVE Fold(L) \in States
  <1>1. Empty \in States
    BY DEF States, Empty
  <1> QED BY <1>1, ApplyTyped, FoldIn DEF Draft

LEMMA OnlyDraft ==
    ASSUME NEW L, Draft(L), NEW S \in SUBSET DOMAIN L
    PROVE  DOMAIN Only(L, S) = S /\ Draft(Only(L, S)) /\ \A t \in S : Only(L, S)[t] = L[t]
  <1>1. IsFiniteSet(S)
    BY FS_Subset DEF Draft
  <1> QED BY <1>1, OnlyIs DEF Draft

LEMMA AtIs ==
    ASSUME NEW L, Draft(L), NEW p
    PROVE  DOMAIN At(L, p) = {t \in DOMAIN L : L[t].pos = p} /\ Draft(At(L, p))
  BY OnlyDraft DEF At

LEMMA BeforeLegTyped == ASSUME NEW L, Draft(L), NEW t PROVE BeforeLeg(L, t) \in States
  <1> DEFINE S == {u \in DOMAIN At(L, L[t].pos) : Before(L, u, t)}
  <1>1. S \in SUBSET DOMAIN L
    BY AtIs
  <1> HIDE DEF S
  <1>2. Fold(Only(L, S)) \in States
    BY <1>1, OnlyDraft, FoldTyped
  <1> QED BY <1>2 DEF BeforeLeg, S

LEMMA SourceBeforeTyped ==
    ASSUME NEW L, Draft(L), NEW src, NEW t, NEW without
    PROVE  SourceBefore(L, src, t, without) \in States
  <1> DEFINE trip == Siblings(L, src, t)
             S == {u \in DOMAIN At(L, L[src[t]].pos) :
                      /\ Before(L, u, src[t])
                      /\ u \notin without \cup {t} \cup trip
                      /\ \A s \in trip : u # src[s]}
  <1>1. S \in SUBSET DOMAIN L
    BY AtIs
  <1>2. SourceBefore(L, src, t, without) = Fold(Only(L, S))
    BY DEF SourceBefore
  <1> HIDE DEF S
  <1>3. Fold(Only(L, S)) \in States
    BY <1>1, OnlyDraft, FoldTyped
  <1> QED BY <1>2, <1>3

Figures == [cost : Int, est : BOOLEAN]

LEMMA KeptTyped == ASSUME NEW L, Draft(L), NEW t \in DOMAIN L PROVE Kept(L, t) \in Figures
  <1>1. L[t].price \in Int /\ L[t].est \in BOOLEAN
    BY DEF Draft, Wide
  <1> QED BY <1>1, SizesAssumption DEF Kept, Figures

LEMMA CarriedCostTyped ==
    ASSUME NEW L, Draft(L), NEW src, NEW t \in DOMAIN L, NEW without
    PROVE  CarriedCost(L, src, t, without) \in Figures
  <1>1. SourceBefore(L, src, t, without) \in States
    BY SourceBeforeTyped
  <1>2. Kept(L, t) \in Figures
    BY KeptTyped
  <1> QED BY <1>1, <1>2 DEF CarriedCost, Figures, States

\* The same row but for price and marker.
SameRow(r, old) == /\ r.type = old.type /\ r.grp = old.grp /\ r.pos = old.pos
                   /\ r.day = old.day /\ r.qty = old.qty /\ r.own = old.own

\* The rows of new figures are the old ones but for price and marker.
Refigured(L, rows) ==
    /\ DOMAIN rows \subseteq DOMAIN L
    /\ \A t \in DOMAIN rows : /\ rows[t] \in Wide
                              /\ SameRow(rows[t], L[t])

LEMMA CostedIs ==
    ASSUME NEW L, Draft(L), NEW figs, DOMAIN figs \subseteq DOMAIN L,
           \A t \in DOMAIN figs : figs[t] \in Figures
    PROVE  DOMAIN Costed(L, figs) = DOMAIN figs /\ Refigured(L, Costed(L, figs))
  <1>1. DOMAIN Costed(L, figs) = DOMAIN figs
    BY DEF Costed
  <1>2. ASSUME NEW t \in DOMAIN figs
        PROVE  LET r == Costed(L, figs)[t] IN
               r \in Wide /\ SameRow(r, L[t])
    <2>1. L[t] \in Wide
      BY DEF Draft
    <2>2. figs[t].cost \in Int /\ figs[t].est \in BOOLEAN
      BY DEF Figures
    <2>3. Stored(figs[t].cost) \in Int
      BY <2>2, StoredInt
    <2>4. Costed(L, figs)[t] = [L[t] EXCEPT !.price = Stored(figs[t].cost), !.est = figs[t].est]
      BY DEF Costed
    <2> QED BY <2>1, <2>2, <2>3, <2>4 DEF Wide, SameRow
  <1> QED BY <1>1, <1>2 DEF Refigured

LEMMA WithDraft ==
    ASSUME NEW L, Draft(L), NEW rows, Refigured(L, rows)
    PROVE  /\ DOMAIN With(rows, L) = DOMAIN L
           /\ Draft(With(rows, L))
           /\ Refigured(L, With(rows, L))
           /\ \A t \in DOMAIN L : With(rows, L)[t] = IF t \in DOMAIN rows THEN rows[t] ELSE L[t]
  <1> DEFINE K == With(rows, L)
  <1>1. DOMAIN K = DOMAIN L
    BY WithIs DEF Refigured, SameRow
  <1>2. \A t \in DOMAIN L : K[t] = IF t \in DOMAIN rows THEN rows[t] ELSE L[t]
    BY <1>1, WithIs
  <1> HIDE DEF K
  <1>3. \A t \in DOMAIN L : /\ K[t] \in Wide
                            /\ SameRow(K[t], L[t])
    BY <1>2 DEF Refigured, SameRow, Draft
  <1> QED BY <1>1, <1>2, <1>3 DEF Draft, Refigured, K

\* Figures for some of the legs.
Partial(legs) == UNION {[T -> Figures] : T \in SUBSET legs}

LEMMA PartialIs ==
    ASSUME NEW legs, NEW f
    PROVE  /\ f \in Partial(legs) => /\ DOMAIN f \subseteq legs
                                     /\ f = [t \in DOMAIN f |-> f[t]]
                                     /\ \A t \in DOMAIN f : f[t] \in Figures
           /\ (\E T \in SUBSET legs : f \in [T -> Figures]) => f \in Partial(legs)
  BY DEF Partial

LEMMA SettleFreeTyped ==
    ASSUME NEW L, Draft(L), NEW src, DOMAIN src \subseteq DOMAIN L, NEW done \in Partial(DOMAIN src)
    PROVE  SettleFree(L, src, done) \in Partial(DOMAIN src)
  <1> DEFINE pending == DOMAIN src \ DOMAIN done
             free == {t \in pending : ~\E u \in pending : Feeds(L, src, u, t)}
             now == WithCarriedCost(L, done)
             f == [t \in free |-> CarriedCost(now, src, t, pending)]
  <1>1. DOMAIN done \subseteq DOMAIN src /\ \A t \in DOMAIN done : done[t] \in Figures
    BY PartialIs
  <1>2. Draft(now) /\ DOMAIN now = DOMAIN L
    <2>1. DOMAIN done \subseteq DOMAIN L
      BY <1>1
    <2>2. Refigured(L, Costed(L, done))
      BY <1>1, <2>1, CostedIs
    <2> QED BY <2>2, WithDraft DEF WithCarriedCost
  <1>3. free \subseteq DOMAIN src /\ SettleFree(L, src, done) = With(f, done)
    BY DEF SettleFree
  <1> HIDE DEF free, pending, now
  <1>4. \A t \in free : CarriedCost(now, src, t, pending) \in Figures
    BY <1>2, <1>3, CarriedCostTyped
  <1>5. DOMAIN f = free /\ \A t \in free : f[t] \in Figures
    BY <1>4
  <1> HIDE DEF f
  <1> DEFINE T == DOMAIN f \cup DOMAIN done
  <1>6. With(f, done) = [t \in T |-> IF t \in DOMAIN f THEN f[t] ELSE done[t]]
    BY WithIs
  <1>7. T \subseteq DOMAIN src /\ \A t \in T : (IF t \in DOMAIN f THEN f[t] ELSE done[t]) \in Figures
    BY <1>1, <1>3, <1>5
  <1> HIDE DEF T
  <1>8. With(f, done) \in [T -> Figures]
    BY <1>6, <1>7
  <1> QED BY <1>3, <1>7, <1>8, PartialIs

IsSettling(f, L, src) ==
    f = [n \in 0..Cardinality(DOMAIN src) |-> IF n = 0 THEN <<>> ELSE SettleFree(L, src, f[n - 1])]
Settling(L, src) == CHOOSE f : IsSettling(f, L, src)

LEMMA ResolvedIs ==
    ASSUME NEW L, NEW src
    PROVE  ResolveCarriedCosts(L, src) =
               With(Settling(L, src)[Cardinality(DOMAIN src)], [t \in DOMAIN src |-> Kept(L, t)])
  BY DEF ResolveCarriedCosts, Settling, IsSettling

LEMMA NoneSettled == ASSUME NEW legs PROVE <<>> \in Partial(legs)
  <1>1. <<>> \in [{} -> Figures]
    OBVIOUS
  <1> QED BY <1>1, PartialIs

\* The passes of a resolution are what they say, one after the other.
LEMMA SettlingSteps ==
    ASSUME NEW L, Draft(L), NEW src, DOMAIN src \subseteq DOMAIN L,
           NEW m, m = Cardinality(DOMAIN src), NEW g, g = Settling(L, src)
    PROVE  /\ m \in Nat
           /\ g[0] = <<>>
           /\ \A n \in Nat : n < m => g[n + 1] = SettleFree(L, src, g[n])
           /\ \A n \in 0..m : g[n] \in Partial(DOMAIN src)
  <1> DEFINE V == Partial(DOMAIN src)
  <1>2. m \in Nat
    <2>1. IsFiniteSet(DOMAIN src)
      BY FS_Subset DEF Draft
    <2> QED BY <2>1, FS_CardinalityType
  <1>3. PICK G : G = [v \in V |-> SettleFree(L, src, v)]
    OBVIOUS
  <1>4. <<>> \in V /\ \A v \in V : SettleFree(L, src, v) \in V
    BY NoneSettled, SettleFreeTyped
  <1> HIDE DEF V
  <1>5. G \in [V -> V] /\ \A v \in V : G[v] = SettleFree(L, src, v)
    BY <1>3, <1>4
  <1>6. PICK f : f \in [0..m -> V] /\ \A n \in 0..m : f[n] = IF n = 0 THEN <<>> ELSE G[f[n - 1]]
    <2>1. Steppable(V, <<>>, G)
      BY <1>4, <1>5 DEF Steppable
    <2>2. PICK f : Stepped(f, m, V, <<>>, G)
      BY <1>2, <2>1, StepsExist
    <2> QED BY <2>2 DEF Stepped
  <1>7. ASSUME NEW n \in 0..m
        PROVE  f[n] = IF n = 0 THEN <<>> ELSE SettleFree(L, src, f[n - 1])
    <2>1. CASE n = 0
      BY <1>6, <2>1
    <2>2. CASE n # 0
      <3>1. n - 1 \in 0..m
        BY <1>2, <2>2
      <3> QED BY <1>5, <1>6, <2>2, <3>1
    <2> QED BY <2>1, <2>2
  <1>8. f = [n \in 0..m |-> f[n]]
    BY <1>6
  <1>9. f = [n \in 0..m |-> IF n = 0 THEN <<>> ELSE SettleFree(L, src, f[n - 1])]
    BY <1>7, <1>8, Zenon
  <1>10. IsSettling(f, L, src)
    BY <1>9 DEF IsSettling
  <1>11. g = [n \in 0..m |-> IF n = 0 THEN <<>> ELSE SettleFree(L, src, g[n - 1])]
    <2>1. IsSettling(g, L, src)
      BY <1>10, Zenon DEF Settling
    <2> QED BY <2>1 DEF IsSettling
  <1>12. g[0] = <<>>
    BY <1>2, <1>11
  <1>13. ASSUME NEW n \in Nat, n < m PROVE g[n + 1] = SettleFree(L, src, g[n])
    <2>1. n + 1 \in 0..m /\ n + 1 # 0 /\ (n + 1) - 1 = n
      BY <1>2, <1>13
    <2> QED BY <1>11, <2>1
  <1>14. ASSUME NEW k \in 0..m PROVE g[k] \in V
    <2>1. g[0] \in V
      BY <1>4, <1>12
    <2>2. ASSUME NEW n \in Nat, n < k, g[n] \in V PROVE g[n + 1] \in V
      BY <1>2, <1>4, <1>13, <2>2
    <2>3. k \in Nat
      BY <1>2
    <2> QED BY <2>1, <2>2, <2>3, StepsStay
  <1> QED BY <1>2, <1>12, <1>13, <1>14 DEF V

LEMMA ResolvedTyped ==
    ASSUME NEW L, Draft(L), NEW src, DOMAIN src \subseteq DOMAIN L
    PROVE  /\ DOMAIN ResolveCarriedCosts(L, src) = DOMAIN src
           /\ \A t \in DOMAIN src : ResolveCarriedCosts(L, src)[t] \in Figures
  <1>1. PICK m : m = Cardinality(DOMAIN src)
    OBVIOUS
  <1>2. PICK g : g = Settling(L, src)
    OBVIOUS
  <1>3. g[m] \in Partial(DOMAIN src)
    BY <1>1, <1>2, SettlingSteps
  <1>14. DOMAIN g[m] \subseteq DOMAIN src /\ \A t \in DOMAIN g[m] : g[m][t] \in Figures
    BY <1>3, PartialIs
  <1> DEFINE kept == [t \in DOMAIN src |-> Kept(L, t)]
             res == With(g[m], kept)
  <1>15. \A t \in DOMAIN src : kept[t] \in Figures
    BY KeptTyped
  <1>16. DOMAIN kept = DOMAIN src
    OBVIOUS
  <1> HIDE DEF kept
  <1>17. res = [t \in DOMAIN g[m] \cup DOMAIN kept |-> IF t \in DOMAIN g[m] THEN g[m][t] ELSE kept[t]]
    BY WithIs
  <1>18. DOMAIN g[m] \cup DOMAIN kept = DOMAIN src
    BY <1>14, <1>16
  <1> HIDE DEF res
  <1>19. DOMAIN res = DOMAIN src /\ \A t \in DOMAIN src : res[t] \in Figures
    BY <1>14, <1>15, <1>17, <1>18
  <1>20. ResolveCarriedCosts(L, src) = res
    BY <1>1, <1>2, ResolvedIs DEF res, kept
  <1> QED BY <1>19, <1>20

LEMMA RecostedIs ==
    ASSUME NEW L, Draft(L), NEW src, DOMAIN src \subseteq DOMAIN L
    PROVE  LET rows == Recosted(L, ResolveCarriedCosts(L, src)) IN
           DOMAIN rows \subseteq DOMAIN src /\ Refigured(L, rows)
  <1> DEFINE figs == ResolveCarriedCosts(L, src)
             S == {t \in DOMAIN figs : Differs(L[t], figs[t])}
  <1>1. DOMAIN figs = DOMAIN src /\ \A t \in DOMAIN src : figs[t] \in Figures
    BY ResolvedTyped
  <1>2. Recosted(L, figs) = Costed(L, Only(figs, S)) /\ S \subseteq DOMAIN figs
    BY DEF Recosted
  <1> HIDE DEF figs, S
  <1>3. DOMAIN Only(figs, S) = S /\ \A t \in S : Only(figs, S)[t] = figs[t]
    BY OnlyIs
  <1>4. DOMAIN Only(figs, S) \subseteq DOMAIN L /\ \A t \in DOMAIN Only(figs, S) : Only(figs, S)[t] \in Figures
    BY <1>1, <1>2, <1>3
  <1>5. DOMAIN Costed(L, Only(figs, S)) = S /\ Refigured(L, Costed(L, Only(figs, S)))
    BY <1>3, <1>4, CostedIs
  <1> QED BY <1>1, <1>2, <1>5 DEF figs

\* Only credits are paired with a debit to read.
LEMMA SourcesAre ==
    ASSUME NEW L, NEW S
    PROVE  DOMAIN Sources(L, S) \subseteq {t \in S : L[t].type = "transfer_in"}
  BY TableIs DEF Sources

LEMMA CarriersAre == ASSUME NEW L, NEW S PROVE Carriers(L, S) \subseteq S
  BY DEF Carriers

LEMMA TransferUpdatesAre ==
    ASSUME NEW L, Draft(L), NEW dirty
    PROVE  /\ Refigured(L, TransferUpdates(L, dirty))
           /\ \A t \in DOMAIN TransferUpdates(L, dirty) : L[t].type = "transfer_in"
  <1> DEFINE all == Sources(L, DOMAIN L)
             S == {t \in Carriers(L, DOMAIN all) : L[all[t]].pos \in dirty}
             src == Only(all, S)
  <1>1. DOMAIN all \subseteq {t \in DOMAIN L : L[t].type = "transfer_in"}
    BY SourcesAre
  <1>2. S \subseteq DOMAIN all
    BY CarriersAre
  <1>3. TransferUpdates(L, dirty) = Recosted(L, ResolveCarriedCosts(L, src))
    BY DEF TransferUpdates
  <1> HIDE DEF all, S
  <1>4. DOMAIN src = S
    BY OnlyIs
  <1> HIDE DEF src
  <1>5. DOMAIN src \subseteq DOMAIN L
    BY <1>1, <1>2, <1>4
  <1>6. /\ DOMAIN TransferUpdates(L, dirty) \subseteq DOMAIN src
        /\ Refigured(L, TransferUpdates(L, dirty))
    BY <1>3, <1>5, RecostedIs
  <1> QED BY <1>1, <1>2, <1>4, <1>6

-----------------------------------------------------------------------------
(* A group whose figures are re-derived balances *)

LEMMA TotalIs == ASSUME NEW f, NEW S PROVE Total(f, S) = Sum(f, S)
  BY DEF Total, Sum

LEMMA PriceIs ==
    ASSUME NEW L, Draft(L), NEW t \in DOMAIN L
    PROVE  Price(L)[t] = L[t].price /\ L[t].price \in Int /\ Price(L)[t] \in Int
  <1>1. L[t].price \in Int
    BY DEF Draft, Wide
  <1> QED BY <1>1 DEF Price

LEMMA LegsAre ==
    ASSUME NEW L, Draft(L), NEW g, NEW type
    PROVE  Legs(L, g, type) \in SUBSET DOMAIN L /\ IsFiniteSet(Legs(L, g, type))
  <1>1. Legs(L, g, type) \in SUBSET DOMAIN L
    BY DEF Legs
  <1> QED BY <1>1, FS_Subset DEF Draft

\* A group balances when its legs' figures sum up alike.
LEMMA BalancedWhen ==
    ASSUME NEW L, Draft(L), NEW g, NEW f, NEW h,
           \A t \in Legs(L, g, "conversion_out") : L[t].price = f[t],
           \A t \in Legs(L, g, "conversion_in") : L[t].price = h[t],
           Sum(f, Legs(L, g, "conversion_out")) = Sum(h, Legs(L, g, "conversion_in"))
    PROVE  Balanced(L, g)
  <1> DEFINE outs == Legs(L, g, "conversion_out")
             ins == Legs(L, g, "conversion_in")
  <1>1. outs \in SUBSET DOMAIN L /\ IsFiniteSet(outs) /\ ins \in SUBSET DOMAIN L /\ IsFiniteSet(ins)
    BY LegsAre
  <1>2. \A t \in outs : Price(L)[t] = f[t]
    BY <1>1, PriceIs
  <1>3. \A t \in ins : Price(L)[t] = h[t]
    BY <1>1, PriceIs
  <1>4. Sum(f, outs) = Sum(h, ins)
    OBVIOUS
  <1>5. Balanced(L, g) <=> Sum(Price(L), outs) = Sum(Price(L), ins)
    BY TotalIs DEF Balanced
  <1> HIDE DEF outs, ins
  <1>6. Sum(Price(L), outs) = Sum(f, outs)
    BY <1>1, <1>2, SumEqual
  <1>7. Sum(Price(L), ins) = Sum(h, ins)
    BY <1>1, <1>3, SumEqual
  <1> QED BY <1>4, <1>5, <1>6, <1>7

\* What changes neither the legs nor the figures of a group leaves its balance.
LEMMA BalancedSame ==
    ASSUME NEW L, Draft(L), NEW K, Draft(K), NEW g, Balanced(L, g),
           Legs(K, g, "conversion_out") = Legs(L, g, "conversion_out"),
           Legs(K, g, "conversion_in") = Legs(L, g, "conversion_in"),
           \A t \in Legs(L, g, "conversion_out") \cup Legs(L, g, "conversion_in") :
               K[t].price = L[t].price
    PROVE  Balanced(K, g)
  <1> DEFINE outs == Legs(L, g, "conversion_out")
             ins == Legs(L, g, "conversion_in")
  <1>1. outs \in SUBSET DOMAIN L /\ ins \in SUBSET DOMAIN L
    BY LegsAre
  <1>2. \A t \in outs \cup ins : Price(L)[t] = L[t].price
    BY <1>1, PriceIs
  <1>3. Sum(Price(L), outs) = Sum(Price(L), ins)
    BY TotalIs DEF Balanced
  <1>4. \A t \in outs : K[t].price = Price(L)[t]
    BY <1>2
  <1>5. \A t \in ins : K[t].price = Price(L)[t]
    BY <1>2
  <1> QED BY <1>3, <1>4, <1>5, BalancedWhen

LEMMA MaxIs ==
    ASSUME NEW S, IsFiniteSet(S), S # {}, S \subseteq Int
    PROVE  Max(S) \in S
  <1>1. PICK m \in S : \A x \in S : x <= m
    BY GreatestNumber
  <1>2. \A x \in S : m >= x
    BY <1>1
  <1> QED BY <1>2 DEF Max

LEMMA ShareTyped ==
    ASSUME NEW L, Draft(L), NEW t \in DOMAIN L, NEW total \in Int, NEW weight \in Int, weight > 0
    PROVE  Share(L, t, total, weight) \in Int
  <1>1. L[t].price \in Int
    BY PriceIs
  <1> DEFINE x == Fine * total * L[t].price
  <1>2. Fine * total \in Int
    BY SizesAssumption
  <1>3. x \in Int
    BY <1>1, <1>2
  <1> HIDE DEF x
  <1>4. x \div weight \in Int
    BY <1>3
  <1>5. Stored(x \div weight) \in Int
    BY <1>4, StoredInt
  <1> QED BY <1>5 DEF Share, x

\* allocateLike: the shares sum up to what is shared, whatever the rounding.
LEMMA SharesSum ==
    ASSUME NEW L, Draft(L), NEW legs \in SUBSET DOMAIN L, NEW total \in Int,
           Total(Price(L), legs) > 0 \/ Cardinality(legs) = 1
    PROVE  /\ DOMAIN AllocateLike(L, legs, total) = legs
           /\ \A t \in legs : AllocateLike(L, legs, total)[t] \in Int
           /\ Sum(AllocateLike(L, legs, total), legs) = total
  <1> DEFINE weight == Total(Price(L), legs)
             share == [t \in legs |-> Share(L, t, total, weight)]
             P == {t \in legs : L[t].price > 0}
             residual == Max(P)
             f == AllocateLike(L, legs, total)
  <1>1. IsFiniteSet(legs) /\ legs \subseteq Int
    BY FS_Subset DEF Draft
  <1>2. \A t \in legs : Price(L)[t] = L[t].price /\ L[t].price \in Int /\ Price(L)[t] \in Int
    BY PriceIs
  <1>3. weight = Sum(Price(L), legs) /\ weight \in Int
    BY <1>1, <1>2, TotalIs, SumInt
  <1>4. f = IF weight <= 0 THEN [t \in legs |-> total]
            ELSE [share EXCEPT ![residual] = total - Total(share, legs \ {residual})]
    BY DEF AllocateLike
  <1>5. weight > 0 \/ Cardinality(legs) = 1
    OBVIOUS
  <1> HIDE DEF f
  <1>6. CASE weight <= 0
    <2> HIDE DEF weight
    <2>1. Cardinality(legs) = 1
      BY <1>3, <1>5, <1>6
    <2>2. PICK x : legs = {x}
      BY <1>1, <2>1, FS_Singleton
    <2>3. DOMAIN f = legs /\ f[x] = total /\ x \in legs
      BY <1>4, <1>6, <2>2
    <2>4. Sum(f, {x}) = f[x]
      BY <2>3, SumSingle
    <2> QED BY <2>2, <2>3, <2>4 DEF f
  <1>7. CASE weight > 0
    <2>1. P # {}
      <3> SUFFICES ASSUME P = {} PROVE FALSE
        OBVIOUS
      <3> DEFINE zero == [t \in legs |-> 0]
      <3>1. \A t \in legs : zero[t] = 0 /\ zero[t] \in Int /\ Price(L)[t] <= zero[t]
        BY <1>2
      <3> HIDE DEF zero, weight
      <3>2. Sum(Price(L), legs) <= Sum(zero, legs) /\ Sum(zero, legs) = 0
        BY <1>1, <1>2, <3>1, SumMonotone, SumZero
      <3> QED BY <1>3, <1>7, <3>2
    <2>2. residual \in legs
      <3>1. P \subseteq legs /\ IsFiniteSet(P) /\ P \subseteq Int
        BY <1>1, FS_Subset
      <3> HIDE DEF P
      <3>2. Max(P) \in P
        BY <2>1, <3>1, MaxIs
      <3> QED BY <3>1, <3>2
    <2>3. DOMAIN share = legs /\ \A t \in legs : share[t] \in Int
      <3>1. \A t \in legs : Share(L, t, total, weight) \in Int
        <4> HIDE DEF weight
        <4> QED BY <1>3, <1>7, ShareTyped
      <3> QED BY <3>1
    <2> DEFINE rest == legs \ {residual}
               others == Sum(share, rest)
    <2> HIDE DEF share, residual, weight
    <2>4. rest \in SUBSET legs /\ IsFiniteSet(rest)
      BY <1>1, FS_Subset
    <2>5. others \in Int
      BY <2>3, <2>4, SumInt
    <2>6. f = [share EXCEPT ![residual] = total - others]
      <3>1. Total(share, rest) = others
        BY TotalIs
      <3>2. ~(weight <= 0)
        BY <1>3, <1>7
      <3> QED BY <1>4, <3>1, <3>2
    <2>7. DOMAIN f = legs /\ f[residual] = total - others /\ \A t \in rest : f[t] = share[t]
      BY <2>2, <2>3, <2>6
    <2>8. Sum(share, rest) = Sum(f, rest)
      BY <2>4, <2>7, SumEqual
    <2> HIDE DEF rest
    <2>9. \A t \in legs : f[t] \in Int
      BY <2>2, <2>3, <2>5, <2>7 DEF rest
    <2>10. Sum(f, legs) = f[residual] + Sum(f, rest)
      BY <1>1, <2>2, <2>9, SumTake DEF rest
    <2> HIDE DEF others
    <2>11. others = Sum(f, rest)
      BY <2>8 DEF others
    <2> QED BY <2>5, <2>7, <2>9, <2>10, <2>11 DEF f
  <1> QED BY <1>3, <1>6, <1>7

\* What a source gives up for a leg it can feed.
LEMMA CutTyped ==
    ASSUME NEW L, Draft(L), NEW t \in DOMAIN L, BeforeLeg(L, t).qty >= L[t].qty
    PROVE  Cut(L, t) \in Int
  <1> DEFINE s == BeforeLeg(L, t)
             q == L[t].qty
  <1>1. s \in States
    BY BeforeLegTyped
  <1>2. q \in Nat \ {0}
    BY DataAssumption DEF Draft, Wide
  <1>3. s.qty >= q
    OBVIOUS
  <1>4. Cut(L, t) = Stored(IF s.qty = q THEN s.cost ELSE (s.cost * q) \div s.qty)
    BY DEF Cut, ProportionalCost
  <1> HIDE DEF s, q
  <1>5. s.qty \in Nat \ {0} /\ s.cost \in Int
    BY <1>1, <1>2, <1>3 DEF States
  <1>6. s.cost * q \in Int
    BY <1>2, <1>5
  <1>7. (s.cost * q) \div s.qty \in Int
    BY <1>5, <1>6
  <1> QED BY <1>4, <1>5, <1>7, StoredInt

\* rederiveConversionGroup: in as much as out.
LEMMA RederivedBalances ==
    ASSUME NEW L, Draft(L), NEW g, Rederivable(L, g)
    PROVE  LET outs == Legs(L, g, "conversion_out")
               ins  == Legs(L, g, "conversion_in")
               rows == RederiveConversionGroup(L, g) IN
           /\ DOMAIN rows = outs \cup ins
           /\ Refigured(L, rows)
           /\ \E f, h : /\ \A t \in outs : rows[t].price = f[t]
                        /\ \A t \in ins : rows[t].price = h[t]
                        /\ Sum(f, outs) = Sum(h, ins)
  <1> DEFINE outs == Legs(L, g, "conversion_out")
             ins == Legs(L, g, "conversion_in")
             cut == [t \in outs |-> Cut(L, t)]
             total == Total(cut, outs)
             shares == AllocateLike(L, ins, total)
             est == \E t \in outs : BeforeLeg(L, t).est
             fromOuts == [t \in outs |-> [L[t] EXCEPT !.price = Cut(L, t)]]
             fromIns == [t \in ins |-> [L[t] EXCEPT !.price = shares[t], !.est = est]]
             rows == RederiveConversionGroup(L, g)
  <1>1. outs \in SUBSET DOMAIN L /\ IsFiniteSet(outs) /\ ins \in SUBSET DOMAIN L /\ IsFiniteSet(ins)
    BY LegsAre
  <1>2. \A t \in outs : Cut(L, t) \in Int /\ cut[t] = Cut(L, t)
    BY <1>1, CutTyped DEF Rederivable
  <1>3. Total(Price(L), ins) > 0 \/ Cardinality(ins) = 1
    BY DEF Rederivable
  <1>4. rows = With(fromOuts, fromIns)
    BY DEF RederiveConversionGroup
  <1>5. outs \cap ins = {}
    BY DEF Legs
  <1>6. est \in BOOLEAN
    OBVIOUS
  <1>7. total = Sum(cut, outs) /\ total \in Int
    <2>1. \A t \in outs : cut[t] \in Int
      BY <1>2
    <2> HIDE DEF cut, outs
    <2> QED BY <1>1, <2>1, TotalIs, SumInt
  <1>8. /\ \A t \in ins : shares[t] \in Int
        /\ Sum(shares, ins) = total
    <2> HIDE DEF total, ins
    <2> QED BY <1>1, <1>3, <1>7, SharesSum
  <1> HIDE DEF outs, ins, shares, est, rows, cut, total
  <1>9. \A t \in outs : /\ fromOuts[t] \in Wide /\ fromOuts[t].price = cut[t]
                        /\ SameRow(fromOuts[t], L[t])
    <2> SUFFICES ASSUME NEW t \in outs
                 PROVE  /\ fromOuts[t] \in Wide /\ fromOuts[t].price = cut[t]
                        /\ SameRow(fromOuts[t], L[t])
      OBVIOUS
    <2>1. L[t] \in Wide
      BY <1>1 DEF Draft
    <2>2. fromOuts[t] = [L[t] EXCEPT !.price = Cut(L, t)]
      OBVIOUS
    <2> QED BY <1>2, <2>1, <2>2 DEF Wide, SameRow
  <1>10. \A t \in ins : /\ fromIns[t] \in Wide /\ fromIns[t].price = shares[t]
                        /\ SameRow(fromIns[t], L[t])
    <2> SUFFICES ASSUME NEW t \in ins
                 PROVE  /\ fromIns[t] \in Wide /\ fromIns[t].price = shares[t]
                        /\ SameRow(fromIns[t], L[t])
      OBVIOUS
    <2>1. L[t] \in Wide
      BY <1>1 DEF Draft
    <2>2. fromIns[t] = [L[t] EXCEPT !.price = shares[t], !.est = est]
      OBVIOUS
    <2> QED BY <1>6, <1>8, <2>1, <2>2 DEF Wide, SameRow
  <1>11. DOMAIN fromOuts = outs /\ DOMAIN fromIns = ins
    OBVIOUS
  <1> HIDE DEF fromOuts, fromIns
  <1>12. DOMAIN rows = outs \cup ins
    BY <1>4, <1>11, WithIs
  <1>13. \A t \in outs \cup ins : rows[t] = IF t \in outs THEN fromOuts[t] ELSE fromIns[t]
    BY <1>4, <1>11, WithIs
  <1>14. \A t \in outs : rows[t] = fromOuts[t]
    BY <1>13
  <1>15. \A t \in ins : rows[t] = fromIns[t]
    BY <1>5, <1>13
  <1>16. Refigured(L, rows)
    <2>1. \A t \in DOMAIN rows : /\ rows[t] \in Wide
                                 /\ SameRow(rows[t], L[t])
      BY <1>9, <1>10, <1>12, <1>14, <1>15
    <2> QED BY <1>1, <1>12, <2>1 DEF Refigured
  <1>17. (\A t \in outs : rows[t].price = cut[t]) /\ (\A t \in ins : rows[t].price = shares[t])
    BY <1>9, <1>10, <1>14, <1>15
  <1>18. Sum(cut, outs) = Sum(shares, ins)
    BY <1>7, <1>8
  <1> QED BY <1>12, <1>16, <1>17, <1>18 DEF outs, ins, rows

AllBalanced(L) == \A g \in Groups : Balanced(L, g)

LEMMA RefiguredLegs ==
    ASSUME NEW L, NEW K, DOMAIN K = DOMAIN L, Refigured(L, K), NEW g, NEW type
    PROVE  Legs(K, g, type) = Legs(L, g, type)
  BY DEF Refigured, SameRow, Legs

LEMMA ConversionUpdatesKeep ==
    ASSUME NEW L, Draft(L), AllBalanced(L), NEW dirty
    PROVE  /\ Refigured(L, ConversionUpdates(L, dirty))
           /\ AllBalanced(With(ConversionUpdates(L, dirty), L))
  <1> DEFINE hit == {g \in Groups : /\ \E t \in Legs(L, g, "conversion_out") : L[t].pos \in dirty
                                    /\ Rederivable(L, g)}
             next == Table([g \in hit |-> RederiveConversionGroup(L, g)])
             S == UNION {DOMAIN next[g] : g \in hit}
             F == [t \in S |-> next[L[t].grp][t]]
             C == {t \in S : F[t] # L[t]}
             rows == ConversionUpdates(L, dirty)
             K == With(rows, L)
             legs(g) == Legs(L, g, "conversion_out") \cup Legs(L, g, "conversion_in")
  <1>1. \A g \in hit : next[g] = RederiveConversionGroup(L, g) /\ Rederivable(L, g) /\ g \in Groups
    <2>1. next = [g \in hit |-> RederiveConversionGroup(L, g)]
      BY TableIs
    <2> HIDE DEF next
    <2> QED BY <2>1
  <1>2. rows = Changed(L, F)
    BY DEF ConversionUpdates
  <1>3. DOMAIN F = S
    OBVIOUS
  <1>4. rows = [t \in C |-> F[t]] /\ C \subseteq S
    BY <1>2, <1>3, OnlyIs DEF Changed
  <1> HIDE DEF hit, next, rows
  <1>5. \A g \in hit : DOMAIN next[g] = legs(g) /\ Refigured(L, next[g])
    <2> SUFFICES ASSUME NEW g \in hit PROVE DOMAIN next[g] = legs(g) /\ Refigured(L, next[g])
      OBVIOUS
    <2>1. Rederivable(L, g) /\ next[g] = RederiveConversionGroup(L, g)
      BY <1>1
    <2> QED BY <2>1, RederivedBalances
  <1>6. \A g \in Groups : \A t \in legs(g) : t \in DOMAIN L /\ L[t].grp = g
    BY DEF Legs
  <1>7. \A t \in S : L[t].grp \in hit /\ t \in legs(L[t].grp) /\ F[t] = next[L[t].grp][t]
    <2> SUFFICES ASSUME NEW t \in S
                 PROVE  L[t].grp \in hit /\ t \in legs(L[t].grp) /\ F[t] = next[L[t].grp][t]
      OBVIOUS
    <2>1. PICK g \in hit : t \in DOMAIN next[g]
      OBVIOUS
    <2>2. t \in legs(g) /\ L[t].grp = g
      BY <1>1, <1>5, <1>6, <2>1
    <2> QED BY <2>1, <2>2
  <1>8. \A g \in hit : \A t \in legs(g) : t \in S /\ F[t] = next[g][t]
    <2> SUFFICES ASSUME NEW g \in hit, NEW t \in legs(g) PROVE t \in S /\ F[t] = next[g][t]
      OBVIOUS
    <2>1. t \in DOMAIN next[g]
      BY <1>5
    <2>2. t \in S
      BY <2>1
    <2>3. L[t].grp = g
      BY <1>1, <1>6
    <2> QED BY <1>7, <2>2, <2>3
  <1> HIDE DEF F, legs
  <1>9. Refigured(L, rows)
    <2>1. DOMAIN rows = C /\ \A t \in C : rows[t] = F[t]
      BY <1>4
    <2>2. ASSUME NEW t \in S
          PROVE  /\ t \in DOMAIN L /\ F[t] \in Wide
                 /\ SameRow(F[t], L[t])
      <3>1. L[t].grp \in hit /\ t \in DOMAIN next[L[t].grp] /\ F[t] = next[L[t].grp][t]
        BY <1>5, <1>7
      <3> QED BY <1>5, <3>1 DEF Refigured
    <2> HIDE DEF S, C
    <2> QED BY <1>4, <2>1, <2>2 DEF Refigured
  <1>10. /\ DOMAIN K = DOMAIN L /\ Draft(K) /\ Refigured(L, K)
         /\ \A t \in DOMAIN L : K[t] = IF t \in DOMAIN rows THEN rows[t] ELSE L[t]
    BY <1>9, WithDraft
  <1>11. \A t \in DOMAIN L : K[t] = IF t \in S THEN F[t] ELSE L[t]
    <2>1. DOMAIN rows = C /\ \A t \in C : rows[t] = F[t]
      BY <1>4
    <2> QED BY <1>10, <2>1
  <1> HIDE DEF K, C, S
  <1>12. ASSUME NEW g \in Groups PROVE Balanced(K, g)
    <2> DEFINE outs == Legs(L, g, "conversion_out")
               ins == Legs(L, g, "conversion_in")
    <2>1. Legs(K, g, "conversion_out") = outs /\ Legs(K, g, "conversion_in") = ins
      BY <1>10, RefiguredLegs
    <2>2. legs(g) = outs \cup ins
      BY DEF legs
    <2>3. CASE g \in hit
      <3>1. PICK f, h : /\ \A t \in outs : next[g][t].price = f[t]
                        /\ \A t \in ins : next[g][t].price = h[t]
                        /\ Sum(f, outs) = Sum(h, ins)
        BY <1>1, <2>3, RederivedBalances
      <3>2. \A t \in outs \cup ins : K[t] = next[g][t]
        BY <1>6, <1>8, <1>11, <2>2, <2>3
      <3> QED BY <1>10, <2>1, <3>1, <3>2, BalancedWhen
    <2>4. CASE g \notin hit
      <3>1. \A t \in outs \cup ins : K[t] = L[t]
        <4>1. \A t \in outs \cup ins : t \in DOMAIN L /\ L[t].grp = g
          BY <1>6, <2>2
        <4>2. \A t \in outs \cup ins : t \notin S
          BY <1>7, <2>4, <4>1
        <4> QED BY <1>11, <4>1, <4>2
      <3>2. Balanced(L, g)
        BY DEF AllBalanced
      <3> QED BY <1>10, <2>1, <3>1, <3>2, BalancedSame
    <2> QED BY <2>3, <2>4
  <1> QED BY <1>9, <1>12 DEF AllBalanced, K, rows

\* New figures for rows that are no conversion's leave every balance.
LEMMA TransfersBalance ==
    ASSUME NEW L, Draft(L), AllBalanced(L), NEW rows, Refigured(L, rows),
           \A t \in DOMAIN rows : L[t].type = "transfer_in"
    PROVE  AllBalanced(With(rows, L))
  <1> DEFINE K == With(rows, L)
  <1>1. /\ DOMAIN K = DOMAIN L /\ Draft(K) /\ Refigured(L, K)
        /\ \A t \in DOMAIN L : K[t] = IF t \in DOMAIN rows THEN rows[t] ELSE L[t]
    BY WithDraft
  <1> HIDE DEF K
  <1>2. ASSUME NEW g \in Groups PROVE Balanced(K, g)
    <2> DEFINE outs == Legs(L, g, "conversion_out")
               ins == Legs(L, g, "conversion_in")
    <2>1. Legs(K, g, "conversion_out") = outs /\ Legs(K, g, "conversion_in") = ins
      BY <1>1, RefiguredLegs
    <2>2. \A t \in outs \cup ins : K[t] = L[t]
      BY <1>1 DEF Legs
    <2>3. Balanced(L, g)
      BY DEF AllBalanced
    <2> QED BY <1>1, <2>1, <2>2, <2>3, BalancedSame
  <1> QED BY <1>2 DEF AllBalanced, K

-----------------------------------------------------------------------------
(* The rounds of a plan *)

\* What a ledger may become while its legs are re-derived.
Drafts(L) == {K \in [DOMAIN L -> Wide] : Refigured(L, K) /\ AllBalanced(K)}
Plans(L) == [ledger : Drafts(L), dirty : SUBSET Positions, quiet : BOOLEAN]

LEMMA DraftsAre ==
    ASSUME NEW L, Draft(L), NEW K \in Drafts(L)
    PROVE  Draft(K) /\ AllBalanced(K) /\ DOMAIN K = DOMAIN L /\ Refigured(L, K)
  BY DEF Drafts, Draft

LEMMA ReplacePlans ==
    ASSUME NEW L, Draft(L), NEW s \in Plans(L), NEW rows,
           Refigured(s.ledger, rows), AllBalanced(With(rows, s.ledger))
    PROVE  Replace(s, rows) \in Plans(L)
  <1> DEFINE K == s.ledger
             N == With(rows, K)
  <1>1. K \in Drafts(L) /\ s.dirty \in SUBSET Positions /\ s.quiet \in BOOLEAN
    BY DEF Plans
  <1>2. Draft(K) /\ DOMAIN K = DOMAIN L /\ Refigured(L, K)
    BY <1>1, DraftsAre
  <1> HIDE DEF K
  <1>3. /\ DOMAIN N = DOMAIN K /\ Draft(N) /\ Refigured(K, N)
        /\ N = [t \in DOMAIN N |-> N[t]]
    <2>1. DOMAIN N = DOMAIN K /\ Draft(N) /\ Refigured(K, N)
      BY <1>2, WithDraft DEF K
    <2>2. N = [t \in DOMAIN rows \cup DOMAIN K |-> IF t \in DOMAIN rows THEN rows[t] ELSE K[t]]
      BY WithIs
    <2> HIDE DEF N
    <2>3. N = [t \in DOMAIN N |-> N[t]]
      BY <2>2
    <2> QED BY <2>1, <2>3
  <1> HIDE DEF N
  <1>4. N \in [DOMAIN L -> Wide]
    BY <1>2, <1>3 DEF Draft
  <1>5. Refigured(L, N)
    BY <1>2, <1>3 DEF Refigured, SameRow
  <1>6. N \in Drafts(L)
    BY <1>4, <1>5 DEF Drafts, N, K
  <1>7. PositionsOf(rows, DOMAIN rows) \in SUBSET Positions
    BY DEF PositionsOf, Refigured, SameRow, Wide
  <1>8. Replace(s, rows) = [ledger |-> N, dirty  |-> s.dirty \cup PositionsOf(rows, DOMAIN rows),
                            quiet  |-> s.quiet /\ DOMAIN rows = {}]
    BY DEF Replace, N, K
  <1> QED BY <1>1, <1>6, <1>7, <1>8 DEF Plans

LEMMA RoundPlans ==
    ASSUME NEW L, Draft(L), NEW s \in Plans(L)
    PROVE  Round(s) \in Plans(L)
  <1> DEFINE loud == [s EXCEPT !.quiet = TRUE]
             moved == TransferUpdates(s.ledger, s.dirty)
             mid == Replace(loud, moved)
             more == ConversionUpdates(mid.ledger, mid.dirty)
  <1>1. loud \in Plans(L) /\ loud.ledger = s.ledger
    BY DEF Plans
  <1>2. s.ledger \in Drafts(L)
    BY DEF Plans
  <1>3. Draft(s.ledger) /\ AllBalanced(s.ledger)
    BY <1>2, DraftsAre
  <1>4. Refigured(s.ledger, moved) /\ AllBalanced(With(moved, s.ledger))
    BY <1>3, TransferUpdatesAre, TransfersBalance
  <1>5. Round(s) = IF s.quiet THEN s ELSE Replace(mid, more)
    BY DEF Round
  <1> HIDE DEF loud, moved
  <1>6. mid \in Plans(L)
    BY <1>1, <1>4, ReplacePlans
  <1> HIDE DEF mid
  <1>7. mid.ledger \in Drafts(L)
    BY <1>6 DEF Plans
  <1>8. Draft(mid.ledger) /\ AllBalanced(mid.ledger)
    BY <1>7, DraftsAre
  <1>9. Refigured(mid.ledger, more) /\ AllBalanced(With(more, mid.ledger))
    BY <1>8, ConversionUpdatesKeep
  <1> HIDE DEF more
  <1>10. Replace(mid, more) \in Plans(L)
    BY <1>6, <1>9, ReplacePlans
  <1> QED BY <1>5, <1>10

IsRounds(f, L, seeds) ==
    f = [n \in 0..(Cardinality(DOMAIN L) + 1) |->
            IF n = 0 THEN [ledger |-> L, dirty |-> seeds, quiet |-> FALSE] ELSE Round(f[n - 1])]
Rounds(L, seeds) == CHOOSE f : IsRounds(f, L, seeds)

LEMMA RederivedIs ==
    ASSUME NEW L, NEW seeds
    PROVE  RederiveCarriedLegs(L, seeds) = Rounds(L, seeds)[Cardinality(DOMAIN L) + 1]
  BY DEF RederiveCarriedLegs, Rounds, IsRounds

\* The rounds of a plan are what they say, one after the other.
LEMMA RoundsIn ==
    ASSUME NEW L, Draft(L), NEW seeds, NEW V,
           [ledger |-> L, dirty |-> seeds, quiet |-> FALSE] \in V, \A v \in V : Round(v) \in V,
           NEW m, m = Cardinality(DOMAIN L) + 1, NEW g, g = Rounds(L, seeds)
    PROVE  /\ m \in Nat
           /\ g[0] = [ledger |-> L, dirty |-> seeds, quiet |-> FALSE]
           /\ \A n \in Nat : n < m => g[n + 1] = Round(g[n])
           /\ \A n \in 0..m : g[n] \in V
  <1> DEFINE b == [ledger |-> L, dirty |-> seeds, quiet |-> FALSE]
  <1>1. m \in Nat
    BY FS_CardinalityType DEF Draft
  <1>2. b \in V
    OBVIOUS
  <1>3. \A v \in V : Round(v) \in V
    OBVIOUS
  <1> HIDE DEF b
  <1>4. PICK G : G = [v \in V |-> Round(v)]
    OBVIOUS
  <1>5. G \in [V -> V] /\ \A v \in V : G[v] = Round(v)
    BY <1>3, <1>4
  <1>6. PICK f : f \in [0..m -> V] /\ \A n \in 0..m : f[n] = IF n = 0 THEN b ELSE G[f[n - 1]]
    <2>1. Steppable(V, b, G)
      BY <1>2, <1>5 DEF Steppable
    <2>2. PICK f : Stepped(f, m, V, b, G)
      BY <1>1, <2>1, StepsExist
    <2> QED BY <2>2 DEF Stepped
  <1>7. ASSUME NEW n \in 0..m
        PROVE  f[n] = IF n = 0 THEN b ELSE Round(f[n - 1])
    <2>1. CASE n = 0
      BY <1>6, <2>1
    <2>2. CASE n # 0
      <3>1. n - 1 \in 0..m
        BY <1>1, <2>2
      <3> QED BY <1>5, <1>6, <2>2, <3>1
    <2> QED BY <2>1, <2>2
  <1>8. f = [n \in 0..m |-> f[n]]
    BY <1>6
  <1>9. f = [n \in 0..m |-> IF n = 0 THEN b ELSE Round(f[n - 1])]
    BY <1>7, <1>8, Zenon
  <1>10. IsRounds(f, L, seeds)
    BY <1>9 DEF IsRounds, b
  <1>11. g = [n \in 0..m |-> IF n = 0 THEN b ELSE Round(g[n - 1])]
    <2>1. IsRounds(g, L, seeds)
      BY <1>10, Zenon DEF Rounds
    <2> QED BY <2>1 DEF IsRounds, b
  <1>12. g[0] = b
    BY <1>1, <1>11
  <1>13. ASSUME NEW n \in Nat, n < m PROVE g[n + 1] = Round(g[n])
    <2>1. n + 1 \in 0..m /\ n + 1 # 0 /\ (n + 1) - 1 = n
      BY <1>1, <1>13
    <2> QED BY <1>11, <2>1
  <1>14. ASSUME NEW k \in 0..m PROVE g[k] \in V
    <2>1. \A n \in Nat : n < k /\ g[n] \in V => g[n + 1] \in V
      BY <1>1, <1>3, <1>13
    <2>2. k \in Nat /\ g[0] \in V
      BY <1>2, <1>12
    <2> QED BY <2>1, <2>2, StepsStay
  <1> QED BY <1>1, <1>12, <1>13, <1>14 DEF b

\* Where every round stays, the plan stays.
LEMMA RederivedIn ==
    ASSUME NEW L, Draft(L), NEW seeds, NEW V,
           [ledger |-> L, dirty |-> seeds, quiet |-> FALSE] \in V, \A v \in V : Round(v) \in V
    PROVE  RederiveCarriedLegs(L, seeds) \in V
  <1>1. PICK m : m = Cardinality(DOMAIN L) + 1
    OBVIOUS
  <1>2. PICK g : g = Rounds(L, seeds)
    OBVIOUS
  <1>3. m \in Nat /\ \A n \in 0..m : g[n] \in V
    BY <1>1, <1>2, RoundsIn
  <1>4. g[m] \in V
    BY <1>3
  <1> QED BY <1>1, <1>2, <1>4, RederivedIs

LEMMA RederivedPlans ==
    ASSUME NEW L, Draft(L), AllBalanced(L), L = [t \in DOMAIN L |-> L[t]], NEW seeds \in SUBSET Positions
    PROVE  RederiveCarriedLegs(L, seeds) \in Plans(L)
  <1>1. L \in [DOMAIN L -> Wide] /\ Refigured(L, L)
    BY DEF Draft, Refigured, SameRow
  <1>2. [ledger |-> L, dirty |-> seeds, quiet |-> FALSE] \in Plans(L)
    BY <1>1 DEF Plans, Drafts
  <1> QED BY <1>2, RoundPlans, RederivedIn

-----------------------------------------------------------------------------
(* Ledgers that hold rows of their types and balanced groups *)

Clean(L) == /\ L = [t \in DOMAIN L |-> L[t]]
            /\ DOMAIN L \subseteq Ids /\ Draft(L) /\ AllBalanced(L)

LEMMA IdsAre == IsFiniteSet(Ids) /\ Ids \subseteq Nat \ {0}
  BY SizesAssumption, FS_Interval DEF Ids

LEMMA CleanWhen ==
    ASSUME NEW L, L = [t \in DOMAIN L |-> L[t]], DOMAIN L \subseteq Ids,
           \A t \in DOMAIN L : L[t] \in Wide
    PROVE  Draft(L) /\ (AllBalanced(L) => Clean(L))
  <1>1. IsFiniteSet(DOMAIN L) /\ DOMAIN L \subseteq Int
    BY IdsAre, FS_Subset
  <1> QED BY <1>1 DEF Clean, Draft

\* Groups whose legs are the same rows at the same figures balance as before.
LEMMA BalancesKept ==
    ASSUME NEW L, Draft(L), AllBalanced(L), NEW K, Draft(K),
           \A t \in DOMAIN L : L[t].grp \in Groups => /\ t \in DOMAIN K /\ K[t].price = L[t].price
                                                     /\ K[t].type = L[t].type /\ K[t].grp = L[t].grp,
           \A t \in DOMAIN K : K[t].grp \in Groups => t \in DOMAIN L /\ L[t].grp = K[t].grp
    PROVE  AllBalanced(K)
  <1>1. ASSUME NEW g \in Groups PROVE Balanced(K, g)
    <2>1. ASSUME NEW type PROVE Legs(K, g, type) = Legs(L, g, type)
      BY DEF Legs
    <2>2. ASSUME NEW type, NEW t \in Legs(L, g, type) PROVE K[t].price = L[t].price
      BY DEF Legs
    <2>3. Balanced(L, g)
      BY DEF AllBalanced
    <2>4. \A t \in Legs(L, g, "conversion_out") \cup Legs(L, g, "conversion_in") : K[t].price = L[t].price
      BY <2>2
    <2>5. /\ Legs(K, g, "conversion_out") = Legs(L, g, "conversion_out")
          /\ Legs(K, g, "conversion_in") = Legs(L, g, "conversion_in")
      BY <2>1
    <2> QED BY <2>3, <2>4, <2>5, BalancedSame
  <1> QED BY <1>1 DEF AllBalanced

LEMMA RewrittenClean ==
    ASSUME NEW L, Clean(L), NEW final, Draft(final), AllBalanced(final),
           DOMAIN final = DOMAIN L, Refigured(L, final)
    PROVE  Clean(Rewritten(L, final))
  <1> DEFINE K == Rewritten(L, final)
  <1>1. DOMAIN K = DOMAIN L /\ K = [t \in DOMAIN K |-> K[t]]
    BY DEF Rewritten
  <1>2. ASSUME NEW t \in DOMAIN L
        PROVE  /\ K[t] \in Wide
               /\ K[t].price = final[t].price /\ K[t].type = final[t].type /\ K[t].grp = final[t].grp
    <2>1. L[t] \in Wide /\ final[t] \in Wide /\ final[t].type = L[t].type /\ final[t].grp = L[t].grp
      BY DEF Clean, Draft, Refigured, SameRow
    <2>2. K[t] = [L[t] EXCEPT !.price = final[t].price, !.est = final[t].est]
      BY DEF Rewritten
    <2> QED BY <2>1, <2>2 DEF Wide
  <1> HIDE DEF K
  <1>3. DOMAIN K \subseteq Ids
    BY <1>1 DEF Clean
  <1>4. Draft(K)
    BY <1>1, <1>2, <1>3, CleanWhen
  <1>5. AllBalanced(K)
    BY <1>1, <1>2, <1>4, BalancesKept
  <1> QED BY <1>1, <1>2, <1>3, <1>5, CleanWhen DEF K

LEMMA PlannedClean ==
    ASSUME NEW L, Clean(L), NEW seeds \in SUBSET Positions
    PROVE  Clean(Rewritten(L, PlanCarriedLegUpdates(L, seeds).ledger))
  <1> DEFINE final == PlanCarriedLegUpdates(L, seeds).ledger
  <1>1. final \in Drafts(L)
    <2>1. RederiveCarriedLegs(L, seeds).ledger \in Drafts(L)
      BY RederivedPlans DEF Clean, Plans
    <2>2. L \in Drafts(L)
      BY DEF Clean, Drafts, Draft, Refigured, SameRow
    <2> QED BY <2>1, <2>2 DEF PlanCarriedLegUpdates
  <1> HIDE DEF final
  <1>2. Draft(final) /\ AllBalanced(final) /\ DOMAIN final = DOMAIN L /\ Refigured(L, final)
    BY <1>1, DraftsAre DEF Clean
  <1> QED BY <1>2, RewrittenClean DEF final

-----------------------------------------------------------------------------
(* Where the rounds of a plan end *)

\* A round that changes nothing ends them.
Fixed(L, dirty) == DOMAIN TransferUpdates(L, dirty) = {} /\ DOMAIN ConversionUpdates(L, dirty) = {}

\* A plan's dirty positions hold its seeds and every row it has changed.
Tracks(s, L, seeds) ==
    /\ seeds \subseteq s.dirty
    /\ \A t \in DOMAIN L : s.ledger[t] = L[t] \/ L[t].pos \in s.dirty

Rederivings(L, seeds) ==
    {s \in Plans(L) : Tracks(s, L, seeds) /\ (s.quiet => Fixed(s.ledger, s.dirty))}

LEMMA PlansAre ==
    ASSUME NEW L, Draft(L), NEW s \in Plans(L)
    PROVE  /\ Draft(s.ledger) /\ AllBalanced(s.ledger) /\ Refigured(L, s.ledger)
           /\ DOMAIN s.ledger = DOMAIN L /\ s.ledger = [t \in DOMAIN s.ledger |-> s.ledger[t]]
           /\ s.dirty \in SUBSET Positions /\ s.quiet \in BOOLEAN
  <1>1. s.ledger \in Drafts(L) /\ s.dirty \in SUBSET Positions /\ s.quiet \in BOOLEAN
    BY DEF Plans
  <1>2. s.ledger = [t \in DOMAIN s.ledger |-> s.ledger[t]]
    BY <1>1 DEF Drafts
  <1>3. PICK K : K = s.ledger
    OBVIOUS
  <1>4. Draft(K) /\ AllBalanced(K) /\ DOMAIN K = DOMAIN L /\ Refigured(L, K)
    BY <1>1, <1>3, DraftsAre
  <1> QED BY <1>1, <1>2, <1>3, <1>4

LEMMA ReplaceIs ==
    ASSUME NEW s, NEW rows
    PROVE  /\ Replace(s, rows).ledger = With(rows, s.ledger)
           /\ Replace(s, rows).dirty = s.dirty \cup PositionsOf(rows, DOMAIN rows)
           /\ Replace(s, rows).quiet = (s.quiet /\ DOMAIN rows = {})
  BY DEF Replace

LEMMA ReplaceTracks ==
    ASSUME NEW L, Draft(L), NEW s \in Plans(L), NEW seeds, Tracks(s, L, seeds),
           NEW rows, Refigured(s.ledger, rows)
    PROVE  Tracks(Replace(s, rows), L, seeds)
  <1>1. PICK K : K = s.ledger
    OBVIOUS
  <1>2. PICK next : next = Replace(s, rows)
    OBVIOUS
  <1>3. next.ledger = With(rows, K) /\ next.dirty = s.dirty \cup PositionsOf(rows, DOMAIN rows)
    BY <1>1, <1>2, ReplaceIs
  <1>4. Draft(K) /\ Refigured(L, K) /\ DOMAIN K = DOMAIN L
    BY <1>1, PlansAre
  <1>5. \A t \in DOMAIN K : With(rows, K)[t] = IF t \in DOMAIN rows THEN rows[t] ELSE K[t]
    BY <1>1, <1>4, WithDraft
  <1>6. ASSUME NEW t \in DOMAIN L PROVE next.ledger[t] = L[t] \/ L[t].pos \in next.dirty
    <2>1. CASE t \in DOMAIN rows
      <3>1. rows[t].pos = K[t].pos /\ K[t].pos = L[t].pos
        BY <1>1, <1>4, <2>1 DEF Refigured, SameRow
      <3>2. rows[t].pos \in PositionsOf(rows, DOMAIN rows)
        BY <2>1 DEF PositionsOf
      <3> QED BY <1>3, <3>1, <3>2
    <2>2. CASE t \notin DOMAIN rows
      BY <1>1, <1>3, <1>4, <1>5, <2>2 DEF Tracks
    <2> QED BY <2>1, <2>2
  <1>7. seeds \subseteq next.dirty
    BY <1>3 DEF Tracks
  <1> QED BY <1>2, <1>6, <1>7 DEF Tracks

LEMMA ReplaceNone ==
    ASSUME NEW s, s.ledger = [t \in DOMAIN s.ledger |-> s.ledger[t]], NEW rows, DOMAIN rows = {}
    PROVE  Replace(s, rows).ledger = s.ledger /\ Replace(s, rows).dirty = s.dirty
  <1>1. PICK K : K = s.ledger
    OBVIOUS
  <1>2. With(rows, K) = [t \in DOMAIN rows \cup DOMAIN K |-> IF t \in DOMAIN rows THEN rows[t] ELSE K[t]]
    BY WithIs
  <1>3. With(rows, K) = K
    BY <1>1, <1>2
  <1>4. PositionsOf(rows, DOMAIN rows) = {}
    BY DEF PositionsOf
  <1>5. PICK D : D = s.dirty
    OBVIOUS
  <1>6. Replace(s, rows) = [ledger |-> With(rows, K), dirty |-> D \cup PositionsOf(rows, DOMAIN rows),
                            quiet |-> s.quiet /\ DOMAIN rows = {}]
    BY <1>1, <1>5 DEF Replace
  <1>7. Replace(s, rows).ledger = K /\ Replace(s, rows).dirty = D
    BY <1>3, <1>4, <1>6
  <1> QED BY <1>1, <1>5, <1>7

LEMMA RoundRederives ==
    ASSUME NEW L, Draft(L), NEW seeds, NEW s \in Rederivings(L, seeds)
    PROVE  Round(s) \in Rederivings(L, seeds)
  <1>1. PICK K : K = s.ledger
    OBVIOUS
  <1>2. PICK moved : moved = TransferUpdates(K, s.dirty)
    OBVIOUS
  <1>3. PICK loud : loud = [s EXCEPT !.quiet = TRUE]
    OBVIOUS
  <1>4. PICK mid : mid = Replace(loud, moved)
    OBVIOUS
  <1>5. PICK M : M = mid.ledger
    OBVIOUS
  <1>6. PICK more : more = ConversionUpdates(M, mid.dirty)
    OBVIOUS
  <1>7. PICK next : next = Replace(mid, more)
    OBVIOUS
  <1>8. s \in Plans(L) /\ Tracks(s, L, seeds)
    BY DEF Rederivings
  <1>9. loud \in Plans(L) /\ Tracks(loud, L, seeds) /\ loud.ledger = K /\ loud.dirty = s.dirty /\ loud.quiet = TRUE
    BY <1>1, <1>3, <1>8 DEF Plans, Tracks
  <1>10. Draft(K) /\ AllBalanced(K) /\ K = [t \in DOMAIN K |-> K[t]]
    BY <1>1, <1>8, PlansAre
  <1>11. Refigured(K, moved) /\ AllBalanced(With(moved, K))
    BY <1>2, <1>10, TransferUpdatesAre, TransfersBalance
  <1>12. mid \in Plans(L) /\ Tracks(mid, L, seeds)
    BY <1>4, <1>9, <1>11, ReplacePlans, ReplaceTracks
  <1>13. Draft(M) /\ AllBalanced(M) /\ M = [t \in DOMAIN M |-> M[t]]
    BY <1>5, <1>12, PlansAre
  <1>14. Refigured(M, more) /\ AllBalanced(With(more, M))
    BY <1>6, <1>13, ConversionUpdatesKeep
  <1>15. next \in Plans(L) /\ Tracks(next, L, seeds)
    BY <1>5, <1>7, <1>12, <1>14, ReplacePlans, ReplaceTracks
  <1>16. Round(s) = IF s.quiet THEN s ELSE next
    BY <1>1, <1>2, <1>3, <1>4, <1>5, <1>6, <1>7 DEF Round
  <1>17. ASSUME next.quiet PROVE Fixed(next.ledger, next.dirty)
    <2>1. mid.quiet /\ DOMAIN more = {}
      BY <1>7, <1>17, ReplaceIs
    <2>2. DOMAIN moved = {}
      BY <1>4, <2>1, ReplaceIs
    <2>3. M = K /\ mid.dirty = s.dirty
      BY <1>4, <1>5, <1>9, <1>10, <2>2, ReplaceNone
    <2>4. next.ledger = M /\ next.dirty = mid.dirty
      BY <1>5, <1>7, <1>13, <2>1, ReplaceNone
    <2> QED BY <1>2, <1>6, <2>1, <2>2, <2>3, <2>4 DEF Fixed
  <1>18. next \in Rederivings(L, seeds)
    BY <1>15, <1>17 DEF Rederivings
  <1> QED BY <1>16, <1>18

\* Nothing a dirty position sends on is out of date.
Rests(L, dirty) ==
    \/ Fixed(L, dirty)
    \/ ~\E t \in DOMAIN L : L[t].pos \in dirty /\ L[t].type \in {"transfer_out", "conversion_out"}

LEMMA PlanRests ==
    ASSUME NEW L, Clean(L), NEW seeds \in SUBSET Positions,
           NEW plan, plan = PlanCarriedLegUpdates(L, seeds), plan.quiet
    PROVE  plan \in Plans(L) /\ Tracks(plan, L, seeds) /\ Rests(plan.ledger, plan.dirty)
  <1>1. Draft(L) /\ AllBalanced(L) /\ L = [t \in DOMAIN L |-> L[t]]
    BY DEF Clean
  <1>2. L \in Drafts(L)
    BY <1>1 DEF Drafts, Draft, Refigured, SameRow
  <1> DEFINE sends == \E t \in DOMAIN L : L[t].pos \in seeds /\ L[t].type \in {"transfer_out", "conversion_out"}
  <1>3. CASE sends
    <2> DEFINE b == [ledger |-> L, dirty |-> seeds, quiet |-> FALSE]
    <2>1. b \in Rederivings(L, seeds)
      BY <1>2 DEF Rederivings, Plans, Tracks
    <2>2. plan = RederiveCarriedLegs(L, seeds)
      BY <1>3 DEF PlanCarriedLegUpdates
    <2>3. plan \in Rederivings(L, seeds)
      BY <1>1, <2>1, <2>2, RoundRederives, RederivedIn
    <2> QED BY <2>3 DEF Rederivings, Rests
  <1>4. CASE ~sends
    <2>1. plan = [ledger |-> L, dirty |-> seeds, quiet |-> TRUE]
      BY <1>4 DEF PlanCarriedLegUpdates
    <2> QED BY <1>2, <1>4, <2>1 DEF Plans, Tracks, Rests
  <1> QED BY <1>3, <1>4

-----------------------------------------------------------------------------
(* What a write leaves in the tables *)

Booked == Clean(ledger) /\ Storable(ledger)

\* How a write ends.
Ends == /\ DOMAIN cache' = Positions /\ last' \in {"import", "row", "group", "threw"}
        /\ touched' \in SUBSET Positions /\ writes' = writes + 1

LEMMA SaveBooks ==
    ASSUME NEW L, Clean(L), NEW T \in SUBSET Positions, NEW kind \in {"import", "row", "group"},
           Save(L, T, kind)
    PROVE  Booked' /\ Ends
  <1>1. Booked'
    BY DEF Save, Booked, Clean, Draft, AllBalanced, Balanced, Storable
  <1>2. Ends
    BY DEF Save, Ends, Recalculated
  <1> QED BY <1>1, <1>2

LEMMA SaveRowsBooks ==
    ASSUME NEW L, Clean(L), NEW seeds \in SUBSET Positions, SaveRows(L, seeds),
           Booked, DOMAIN cache = Positions
    PROVE  Booked' /\ Ends
  <1> DEFINE plan == PlanCarriedLegUpdates(L, seeds)
             saved == Rewritten(L, plan.ledger)
  <1>1. Clean(saved)
    BY PlannedClean
  <1>2. IF plan.quiet THEN Save(saved, plan.dirty, "row") ELSE Throw
    BY DEF SaveRows, SavePlanned
  <1> HIDE DEF saved
  <1>3. CASE plan.quiet
    <2>1. plan \in Plans(L)
      BY <1>3, PlanRests
    <2>2. plan.dirty \in SUBSET Positions
      BY <2>1 DEF Plans
    <2> HIDE DEF plan
    <2> QED BY <1>1, <1>2, <1>3, <2>2, SaveBooks
  <1>4. CASE ~plan.quiet
    <2>1. Throw
      BY <1>2, <1>4
    <2>2. Booked'
      BY <2>1 DEF Throw, Booked, Clean, Draft, AllBalanced, Balanced, Storable
    <2> QED BY <2>1, <2>2 DEF Throw, Ends
  <1> QED BY <1>3, <1>4

-----------------------------------------------------------------------------
(* The ledgers the writes save *)

\* Rows of no group, under ids no stored row has.
LEMMA AddsClean ==
    ASSUME Booked, NEW id \in Ids, id \notin DOMAIN ledger, NEW row \in Wide, row.grp = NoGroup
    PROVE  Clean(With([t \in {id} |-> row], ledger))
  <1> DEFINE K == With([t \in {id} |-> row], ledger)
  <1>1. /\ K = [t \in DOMAIN K |-> K[t]] /\ DOMAIN K = {id} \cup DOMAIN ledger
        /\ \A t \in DOMAIN K : K[t] = IF t = id THEN row ELSE ledger[t]
    BY WithIs
  <1> HIDE DEF K
  <1>2. DOMAIN K \subseteq Ids /\ \A t \in DOMAIN K : K[t] \in Wide
    BY <1>1 DEF Booked, Clean, Draft
  <1>3. Draft(K)
    BY <1>1, <1>2, CleanWhen
  <1>4. \A t \in DOMAIN K : K[t].grp \in Groups => t \in DOMAIN ledger /\ K[t] = ledger[t]
    BY <1>1, NoGroupAssumption
  <1>5. \A t \in DOMAIN ledger : t \in DOMAIN K /\ K[t] = ledger[t]
    BY <1>1
  <1>6. AllBalanced(K)
    BY <1>3, <1>4, <1>5, BalancesKept DEF Booked, Clean
  <1> QED BY <1>1, <1>2, <1>6, CleanWhen DEF K

LEMMA RemovesClean ==
    ASSUME Booked, NEW S \in SUBSET DOMAIN ledger, \A t \in S : ledger[t].grp = NoGroup
    PROVE  Clean(Without(ledger, S))
  <1> DEFINE K == Without(ledger, S)
  <1>1. /\ K = [t \in DOMAIN K |-> K[t]] /\ DOMAIN K = DOMAIN ledger \ S
        /\ \A t \in DOMAIN K : K[t] = ledger[t]
    BY DEF Without
  <1> HIDE DEF K
  <1>2. DOMAIN K \subseteq Ids /\ \A t \in DOMAIN K : K[t] \in Wide
    BY <1>1 DEF Booked, Clean, Draft
  <1>3. Draft(K)
    BY <1>1, <1>2, CleanWhen
  <1>4. \A t \in DOMAIN ledger : ledger[t].grp \in Groups => t \in DOMAIN K /\ K[t] = ledger[t]
    BY <1>1, NoGroupAssumption
  <1>5. AllBalanced(K)
    BY <1>1, <1>3, <1>4, BalancesKept DEF Booked, Clean
  <1> QED BY <1>1, <1>2, <1>5, CleanWhen DEF K

\* One row, of no group before or after, is written anew.
LEMMA EditsClean ==
    ASSUME Booked, NEW u \in DOMAIN ledger, ledger[u].grp = NoGroup,
           NEW row \in Wide, row.grp = NoGroup
    PROVE  Clean([ledger EXCEPT ![u] = row])
  <1> DEFINE K == [ledger EXCEPT ![u] = row]
  <1>1. /\ K = [t \in DOMAIN K |-> K[t]] /\ DOMAIN K = DOMAIN ledger
        /\ \A t \in DOMAIN K : K[t] = IF t = u THEN row ELSE ledger[t]
    OBVIOUS
  <1> HIDE DEF K
  <1>2. DOMAIN K \subseteq Ids /\ \A t \in DOMAIN K : K[t] \in Wide
    BY <1>1 DEF Booked, Clean, Draft
  <1>3. Draft(K)
    BY <1>1, <1>2, CleanWhen
  <1>4. \A t \in DOMAIN ledger : ledger[t].grp \in Groups => t \in DOMAIN K /\ K[t] = ledger[t]
    BY <1>1, NoGroupAssumption
  <1>5. \A t \in DOMAIN K : K[t].grp \in Groups => t \in DOMAIN ledger /\ K[t] = ledger[t]
    BY <1>1, NoGroupAssumption
  <1>6. AllBalanced(K)
    BY <1>3, <1>4, <1>5, BalancesKept DEF Booked, Clean
  <1> QED BY <1>1, <1>2, <1>6, CleanWhen DEF K

LEMMA EditedTyped ==
    ASSUME NEW r \in Wide, NEW new \in Edits(r)
    PROVE  Edited(r, new) \in Wide /\ Edited(r, new).grp = r.grp /\ new.pos \in Positions
  <1>1. r.pos \in Positions /\ r.pos = [asset |-> r.pos.asset, inst |-> r.pos.inst]
    BY DEF Wide, Positions
  <1>2. ASSUME NEW i \in Insts PROVE [r.pos EXCEPT !.inst = i] \in Positions
    BY <1>1 DEF Positions
  <1>3. new \in Wide /\ new.grp = r.grp
    <2>1. CASE new = r
      BY <2>1
    <2>2. CASE \E x \in Prices : new = [r EXCEPT !.price = x]
      BY <2>2, DataAssumption DEF Wide
    <2>3. CASE \E q \in Qtys : new = [r EXCEPT !.qty = q]
      BY <2>3 DEF Wide
    <2>4. CASE \E d \in Days : new = [r EXCEPT !.day = d]
      BY <2>4 DEF Wide
    <2>5. CASE \E i \in Insts : new = [r EXCEPT !.pos.inst = i]
      <3>1. PICK i \in Insts : new = [r EXCEPT !.pos.inst = i]
        BY <2>5
      <3>2. new = [r EXCEPT !.pos = [r.pos EXCEPT !.inst = i]]
        BY <1>1, <3>1 DEF Wide
      <3> QED BY <1>2, <3>2 DEF Wide
    <2> QED BY <2>1, <2>2, <2>3, <2>4, <2>5 DEF Edits
  <1>4. new.pos \in Positions
    BY <1>3 DEF Wide
  <1>5. r.est \in BOOLEAN /\ r.price \in Int
    BY DEF Wide
  <1>6. Edited(r, new) \in Wide /\ Edited(r, new).grp = new.grp
    BY <1>3, <1>5 DEF Edited, Wide
  <1> QED BY <1>3, <1>4, <1>6

LEMMA EstimateClean ==
    ASSUME NEW L, Clean(L), NEW g
    PROVE  Clean(WithSourceEstimate(L, g))
  <1> DEFINE K == WithSourceEstimate(L, g)
             est == \E t \in Legs(L, g, "conversion_out") : LET s == BeforeLeg(L, t) IN s.ok /\ s.est
  <1>1. /\ K = [t \in DOMAIN K |-> K[t]] /\ DOMAIN K = DOMAIN L
        /\ \A t \in DOMAIN L : K[t] = IF L[t].grp = g
               THEN [L[t] EXCEPT !.est = L[t].type = "conversion_in" /\ est] ELSE L[t]
    BY DEF WithSourceEstimate
  <1>2. est \in BOOLEAN
    OBVIOUS
  <1> HIDE DEF K, est
  <1>3. ASSUME NEW t \in DOMAIN L
        PROVE  K[t] \in Wide /\ K[t].price = L[t].price /\ K[t].type = L[t].type /\ K[t].grp = L[t].grp
    <2>1. L[t] \in Wide
      BY DEF Clean, Draft
    <2>2. \E b \in BOOLEAN : K[t] = [L[t] EXCEPT !.est = b]
      <3>1. CASE L[t].grp = g
        <4>1. (L[t].type = "conversion_in" /\ est) \in BOOLEAN
          BY <1>2
        <4> QED BY <1>1, <3>1, <4>1
      <3>2. CASE L[t].grp # g
        <4>1. L[t].est \in BOOLEAN /\ L[t] = [L[t] EXCEPT !.est = L[t].est]
          BY <2>1 DEF Wide
        <4> QED BY <1>1, <3>2, <4>1
      <3> QED BY <3>1, <3>2
    <2> QED BY <2>1, <2>2 DEF Wide
  <1>4. DOMAIN K \subseteq Ids
    BY <1>1 DEF Clean
  <1>5. Draft(K)
    BY <1>1, <1>3, <1>4, CleanWhen
  <1>6. AllBalanced(K)
    BY <1>1, <1>3, <1>5, BalancesKept DEF Clean
  <1> QED BY <1>1, <1>3, <1>4, <1>6, CleanWhen DEF K

LEMMA LedgerIs ==
    ASSUME Booked, NEW t \in DOMAIN ledger
    PROVE  t \in Ids /\ ledger[t] \in Wide /\ ledger[t].pos \in Positions
  <1>1. t \in Ids /\ ledger[t] \in Wide
    BY DEF Booked, Clean, Draft
  <1> QED BY <1>1 DEF Wide

-----------------------------------------------------------------------------
(* The writes of rows *)

\* Every conversion is one the user wrote (createAssetConversionGroup).
UsersGroups(L) == \A t \in DOMAIN L : L[t].grp # NoGroup => L[t].own = "user"

LEMMA UsersAdd ==
    ASSUME NEW L, UsersGroups(L), NEW rows,
           \A t \in DOMAIN rows : rows[t].grp # NoGroup => rows[t].own = "user"
    PROVE  UsersGroups(With(rows, L))
  <1>1. PICK K : K = With(rows, L)
    OBVIOUS
  <1>2. K = [t \in DOMAIN rows \cup DOMAIN L |-> IF t \in DOMAIN rows THEN rows[t] ELSE L[t]]
    BY <1>1, WithIs
  <1> QED BY <1>1, <1>2 DEF UsersGroups

\* What createTransaction, editTransaction and deleteTransaction have in common.
WritesRows(L, seeds) ==
    /\ Clean(L) /\ seeds \in SUBSET Positions
    /\ DifferWithin(L, ledger, seeds) /\ SaveRows(L, seeds)
    /\ UsersGroups(ledger) => UsersGroups(L)

LEMMA LedgerShaped == Booked => Shaped(ledger)
  BY DEF Booked, Clean, Draft, Wide, Shaped

LEMMA CreateWrites ==
    ASSUME Booked, NEW id \in Ids, NEW pos \in Positions, NEW type \in Types, NEW day \in Days,
           NEW qty \in Qtys, NEW price \in Nat, Create(id, pos, type, day, qty, price)
    PROVE  \E L, seeds : WritesRows(L, seeds)
  <1> DEFINE row == [pos |-> pos, type |-> type, day |-> day, qty |-> qty, price |-> price,
                     est |-> FALSE, own |-> "user", grp |-> NoGroup]
             rows == [t \in {id} |-> row]
             L == With(rows, ledger)
  <1>1. Fresh(id) /\ SaveRows(L, {pos})
    BY DEF Create
  <1>2. row \in Wide /\ row.grp = NoGroup
    BY DEF Wide
  <1>3. id \notin DOMAIN ledger
    BY <1>1, FreshIsNew
  <1>4. Shaped(rows) /\ \A t \in DOMAIN rows : rows[t].pos \in {pos}
    BY DEF Shaped
  <1>5. DOMAIN rows \cap DOMAIN ledger = {}
    BY <1>3
  <1> HIDE DEF row
  <1>6. Clean(L)
    BY <1>2, <1>3, AddsClean
  <1>7. \A t \in DOMAIN rows : rows[t].grp = NoGroup
    BY <1>2
  <1> HIDE DEF rows
  <1>8. DifferWithin(L, ledger, {pos})
    BY <1>4, <1>5, Adds, LedgerShaped
  <1>9. UsersGroups(ledger) => UsersGroups(L)
    BY <1>7, UsersAdd
  <1> QED BY <1>1, <1>6, <1>8, <1>9 DEF WritesRows

LEMMA EditWrites ==
    ASSUME Booked, NEW t \in DOMAIN ledger, NEW new \in Edits(ledger[t]), Edit(t, new)
    PROVE  \E L, seeds : WritesRows(L, seeds)
  <1> DEFINE row == Edited(ledger[t], new)
             L == [ledger EXCEPT ![t] = row]
             seeds == {ledger[t].pos, new.pos}
  <1>1. ledger[t].grp = NoGroup /\ SaveRows(L, seeds)
    BY DEF Edit, IsLeg
  <1>2. ledger[t] \in Wide /\ ledger[t].pos \in Positions
    BY LedgerIs
  <1>3. row \in Wide /\ row.grp = NoGroup /\ new.pos \in Positions
    BY <1>1, <1>2, EditedTyped
  <1>4. row.pos = new.pos
    <2>1. "pos" \in DOMAIN new
      BY <1>2 DEF Edits, Wide
    <2> QED BY <2>1 DEF Edited
  <1>5. DOMAIN L = DOMAIN ledger /\ \A u \in DOMAIN ledger : L[u] = IF u = t THEN row ELSE ledger[u]
    OBVIOUS
  <1> HIDE DEF row
  <1>6. Clean(L)
    BY <1>1, <1>3, EditsClean
  <1> HIDE DEF L
  <1>7. DifferWithin(L, ledger, seeds)
    BY <1>4, <1>5 DEF DifferWithin
  <1>8. seeds \in SUBSET Positions
    BY <1>2, <1>3
  <1>9. UsersGroups(ledger) => UsersGroups(L)
    BY <1>3, <1>5 DEF UsersGroups
  <1> QED BY <1>1, <1>6, <1>7, <1>8, <1>9 DEF WritesRows

LEMMA RemoveWrites ==
    ASSUME Booked, NEW S, Remove(S)
    PROVE  \E L, seeds : WritesRows(L, seeds)
  <1>1. S \in SUBSET DOMAIN ledger /\ \A t \in S : ledger[t].grp = NoGroup
    BY DEF Remove, IsLeg
  <1>2. SaveRows(Without(ledger, S), PositionsOf(ledger, S))
    BY DEF Remove
  <1>3. PositionsOf(ledger, S) \in SUBSET Positions
    BY <1>1, LedgerIs DEF PositionsOf
  <1>4. Clean(Without(ledger, S))
    BY <1>1, RemovesClean
  <1>5. DifferWithin(Without(ledger, S), ledger, PositionsOf(ledger, S))
    BY <1>1, Removes, LedgerShaped
  <1>6. UsersGroups(ledger) => UsersGroups(Without(ledger, S))
    BY DEF UsersGroups, Without
  <1> QED BY <1>2, <1>3, <1>4, <1>5, <1>6 DEF WritesRows

\* A write of kind "row", or one that fails, is one of the three.
LEMMA RowWrites ==
    ASSUME Booked, Write, last' \in {"row", "threw"}
    PROVE  \E L, seeds : WritesRows(L, seeds)
  <1>1. CASE \E id \in Ids, pos \in Positions, type \in {"buy", "sell", "transfer_in", "transfer_out"},
                day \in Days, qty \in Qtys :
                \E price \in IF type \in {"buy", "transfer_in"} THEN Prices ELSE {0} :
                   Create(id, pos, type, day, qty, price)
    <2>1. PICK id \in Ids, pos \in Positions, type \in {"buy", "sell", "transfer_in", "transfer_out"},
               day \in Days, qty \in Qtys :
               \E price \in IF type \in {"buy", "transfer_in"} THEN Prices ELSE {0} :
                  Create(id, pos, type, day, qty, price)
      BY <1>1
    <2>2. PICK price \in IF type \in {"buy", "transfer_in"} THEN Prices ELSE {0} :
               Create(id, pos, type, day, qty, price)
      BY <2>1
    <2>3. price \in Nat /\ type \in Types
      BY DataAssumption DEF Types
    <2> QED BY <2>2, <2>3, CreateWrites
  <1>2. CASE \E t \in DOMAIN ledger : \E new \in Edits(ledger[t]) : Edit(t, new)
    BY <1>2, EditWrites
  <1>3. CASE \E S \in Removals : Remove(S)
    BY <1>3, RemoveWrites
  <1>4. CASE \E g \in Groups, id \in Ids, from, to \in Positions, day \in Days, out, in \in Qtys, cost \in Prices :
                CreateGroup(g, id, from, to, day, out, in, cost)
    BY <1>4 DEF CreateGroup, Save
  <1>5. CASE \E g \in Groups : \E qtys \in [GroupRows(g) -> Qtys], costs \in [GroupRows(g) -> Prices] :
                ReplaceGroup(g, qtys, costs)
    BY <1>5 DEF ReplaceGroup, Save
  <1>6. CASE \E g \in Groups : DeleteGroup(g)
    BY <1>6 DEF DeleteGroup, Save
  <1>7. CASE \E id \in Ids, pos \in Positions, day \in Days, qty \in Qtys, price \in Prices, est \in BOOLEAN :
                ImportBuy(id, pos, day, qty, price, est)
    BY <1>7 DEF ImportBuy, Save
  <1>8. CASE \E batch \in SUBSET Transfers : ImportAgain(batch)
    BY <1>8 DEF ImportAgain, Save
  <1> QED BY <1>1, <1>2, <1>3, <1>4, <1>5, <1>6, <1>7, <1>8 DEF Write

\* A write of rows: whatever its plan changed sits where the plan found it dirty,
\* and so among the positions recalculated.
LEMMA SaveRowsKeeps ==
    ASSUME CacheInv, NEW L, NEW seeds, WritesRows(L, seeds)
    PROVE  CacheInv'
  <1>1. PICK plan : plan = PlanCarriedLegUpdates(L, seeds)
    OBVIOUS
  <1>2. Clean(L) /\ seeds \in SUBSET Positions /\ DifferWithin(L, ledger, seeds)
    BY DEF WritesRows
  <1>3. SavePlanned(L, plan)
    BY <1>1 DEF WritesRows, SaveRows
  <1>4. CASE plan.quiet
    <2>1. PICK F : F = plan.ledger
      OBVIOUS
    <2>2. PICK T : T = plan.dirty
      OBVIOUS
    <2>3. PICK saved : saved = Rewritten(L, F)
      OBVIOUS
    <2>4. Save(saved, T, "row")
      BY <1>3, <1>4, <2>1, <2>2, <2>3 DEF SavePlanned
    <2>5. /\ Draft(F) /\ Refigured(L, F) /\ DOMAIN F = DOMAIN L
          /\ seeds \subseteq T /\ \A t \in DOMAIN L : F[t] = L[t] \/ L[t].pos \in T
      <3>1. plan \in Plans(L) /\ Tracks(plan, L, seeds)
        BY <1>1, <1>2, <1>4, PlanRests
      <3> QED BY <1>2, <2>1, <2>2, <3>1, PlansAre DEF Tracks, Clean
    <2>6. Draft(L) /\ Shaped(L)
      BY <1>2 DEF Clean, Draft, Shaped, Wide
    <2>7. DOMAIN saved = DOMAIN L /\ Shaped(saved) /\ \A t \in DOMAIN L : saved[t].pos = L[t].pos
      BY <2>3, <2>6, Rewrites
    <2>8. ASSUME NEW t \in DOMAIN L PROVE saved[t] = L[t] \/ L[t].pos \in T
      <3>1. L[t] \in Wide
        BY <2>6 DEF Draft
      <3>2. F[t] = L[t] => saved[t] = L[t]
        BY <2>3, <3>1 DEF Rewritten, Wide
      <3> QED BY <2>5, <3>2
    <2>9. DifferWithin(saved, ledger, T)
      <3>1. ASSUME NEW t \in DOMAIN saved
            PROVE  saved[t].pos \in T \/ (t \in DOMAIN ledger /\ ledger[t] = saved[t])
        BY <1>2, <2>5, <2>7, <2>8 DEF DifferWithin
      <3>2. ASSUME NEW t \in DOMAIN ledger
            PROVE  ledger[t].pos \in T \/ (t \in DOMAIN saved /\ saved[t] = ledger[t])
        BY <1>2, <2>5, <2>7, <2>8 DEF DifferWithin
      <3> QED BY <3>1, <3>2 DEF DifferWithin
    <2> QED BY <2>4, <2>7, <2>9, SaveKeeps
  <1>5. CASE ~plan.quiet
    <2>1. Throw
      BY <1>3, <1>5 DEF SavePlanned
    <2> QED BY <2>1 DEF Throw, CacheInv, Shaped, CacheIsReplay, Replay, Replayable, At, Only
  <1> QED BY <1>4, <1>5

-----------------------------------------------------------------------------
(* Conversions and imports *)

\* The two legs of a new group bring in what they take out.
LEMMA CreateGroupBooks ==
    ASSUME Booked, DOMAIN cache = Positions,
           NEW g \in Groups, NEW id \in Ids, NEW from \in Positions, NEW to \in Positions,
           NEW day \in Days, NEW out \in Qtys, NEW in \in Qtys, NEW cost \in Nat,
           CreateGroup(g, id, from, to, day, out, in, cost)
    PROVE  Booked' /\ Ends
  <1> DEFINE leg(pos, type, qty) ==
                 [pos |-> pos, type |-> type, day |-> day, qty |-> qty, price |-> cost,
                  est |-> FALSE, own |-> "user", grp |-> g]
             legs == [t \in {id, id + 1} |-> IF t = id THEN leg(from, "conversion_out", out)
                                             ELSE leg(to, "conversion_in", in)]
             L == With(legs, ledger)
  <1>1. /\ {id, id + 1} \subseteq Ids /\ Fresh(id) /\ GroupRows(g) = {}
        /\ Save(WithSourceEstimate(L, g), {from, to}, "group")
    BY DEF CreateGroup
  <1>2. id # id + 1 /\ id \notin DOMAIN ledger /\ id + 1 \notin DOMAIN ledger
    BY <1>1, FreshIsNew, IdsAre
  <1>3. /\ DOMAIN legs = {id, id + 1}
        /\ legs[id] \in Wide /\ legs[id].grp = g /\ legs[id].price = cost
        /\ legs[id].type = "conversion_out"
        /\ legs[id + 1] \in Wide /\ legs[id + 1].grp = g /\ legs[id + 1].price = cost
        /\ legs[id + 1].type = "conversion_in"
    <2>1. leg(from, "conversion_out", out) \in Wide /\ leg(to, "conversion_in", in) \in Wide
      BY DEF Wide, Types
    <2>2. legs[id] = leg(from, "conversion_out", out) /\ legs[id + 1] = leg(to, "conversion_in", in)
      BY <1>2
    <2> QED BY <2>1, <2>2
  <1> HIDE DEF legs
  <1>4. /\ L = [t \in DOMAIN L |-> L[t]] /\ DOMAIN L = {id, id + 1} \cup DOMAIN ledger
        /\ \A t \in DOMAIN L : L[t] = IF t \in {id, id + 1} THEN legs[t] ELSE ledger[t]
    BY <1>3, WithIs
  <1> HIDE DEF L
  <1>5. DOMAIN L \subseteq Ids /\ \A t \in DOMAIN L : L[t] \in Wide
    BY <1>1, <1>3, <1>4, LedgerIs
  <1>6. Draft(L) /\ Draft(ledger)
    BY <1>4, <1>5, CleanWhen DEF Booked, Clean
  <1>7. \A t \in DOMAIN ledger : t \notin {id, id + 1} /\ t \in DOMAIN L /\ L[t] = ledger[t]
                                 /\ ledger[t].grp # g
    BY <1>1, <1>2, <1>4 DEF GroupRows
  <1>8. Balanced(L, g)
    <2>1. Legs(L, g, "conversion_out") = {id} /\ Legs(L, g, "conversion_in") = {id + 1}
      BY <1>2, <1>3, <1>4, <1>7 DEF Legs
    <2> DEFINE f == [t \in {id, id + 1} |-> cost]
    <2>2. f[id] = cost /\ f[id + 1] = cost /\ L[id].price = cost /\ L[id + 1].price = cost
      BY <1>3, <1>4
    <2>3. f[id] \in Int /\ f[id + 1] \in Int
      BY <2>2
    <2> HIDE DEF f
    <2>4. Sum(f, {id}) = cost /\ Sum(f, {id + 1}) = cost
      <3>1. Sum(f, {id}) = f[id]
        BY <2>3, SumSingle
      <3>2. Sum(f, {id + 1}) = f[id + 1]
        BY <2>3, SumSingle
      <3> QED BY <2>2, <3>1, <3>2
    <2>5. Sum(f, Legs(L, g, "conversion_out")) = Sum(f, Legs(L, g, "conversion_in"))
      BY <2>1, <2>4
    <2>6. \A t \in Legs(L, g, "conversion_out") : L[t].price = f[t]
      BY <2>1, <2>2
    <2>7. \A t \in Legs(L, g, "conversion_in") : L[t].price = f[t]
      BY <2>1, <2>2
    <2> QED BY <1>6, <2>5, <2>6, <2>7, BalancedWhen
  <1>9. ASSUME NEW h \in Groups, h # g PROVE Balanced(L, h)
    <2>1. \A type : Legs(L, h, type) = Legs(ledger, h, type)
      BY <1>3, <1>4, <1>7, <1>9 DEF Legs
    <2>2. Balanced(ledger, h)
      BY DEF Booked, Clean, AllBalanced
    <2>3. \A t \in Legs(ledger, h, "conversion_out") \cup Legs(ledger, h, "conversion_in") :
             L[t].price = ledger[t].price
      BY <1>7 DEF Legs
    <2> QED BY <1>6, <2>1, <2>2, <2>3, BalancedSame
  <1>10. AllBalanced(L)
    BY <1>8, <1>9 DEF AllBalanced
  <1>11. Clean(WithSourceEstimate(L, g))
    BY <1>4, <1>5, <1>10, CleanWhen, EstimateClean
  <1>12. {from, to} \in SUBSET Positions
    OBVIOUS
  <1> QED BY <1>1, <1>11, <1>12, SaveBooks

LEMMA ReplaceGroupBooks ==
    ASSUME Booked, DOMAIN cache = Positions, NEW g \in Groups,
           NEW qtys \in [GroupRows(g) -> Qtys], NEW costs \in [GroupRows(g) -> Prices],
           ReplaceGroup(g, qtys, costs)
    PROVE  Booked' /\ Ends
  <1> DEFINE legs == [t \in GroupRows(g) |->
                         [ledger[t] EXCEPT !.qty = qtys[t], !.price = costs[t], !.own = "user"]]
             L == With(legs, ledger)
             T == PositionsOf(ledger, GroupRows(g))
  <1>1. Balanced(L, g) /\ Save(WithSourceEstimate(L, g), T, "group")
    BY DEF ReplaceGroup
  <1>0. T \in SUBSET Positions
    BY LedgerIs DEF GroupRows, PositionsOf
  <1>2. DOMAIN legs = GroupRows(g) /\ GroupRows(g) \subseteq DOMAIN ledger
    BY DEF GroupRows
  <1>3. ASSUME NEW t \in GroupRows(g)
        PROVE  legs[t] \in Wide /\ legs[t].grp = g /\ legs[t].type = ledger[t].type
    <2>1. ledger[t] \in Wide /\ ledger[t].grp = g
      BY <1>2, LedgerIs DEF GroupRows
    <2>2. qtys[t] \in Qtys /\ costs[t] \in Prices /\ Prices \subseteq Int
      BY DataAssumption
    <2>3. legs[t] = [ledger[t] EXCEPT !.qty = qtys[t], !.price = costs[t], !.own = "user"]
      OBVIOUS
    <2> HIDE DEF legs
    <2> QED BY <2>1, <2>2, <2>3 DEF Wide
  <1> HIDE DEF legs
  <1>4. /\ L = [t \in DOMAIN L |-> L[t]] /\ DOMAIN L = DOMAIN ledger
        /\ \A t \in DOMAIN L : L[t] = IF t \in GroupRows(g) THEN legs[t] ELSE ledger[t]
    BY <1>2, WithIs
  <1> HIDE DEF L, T
  <1>5. DOMAIN L \subseteq Ids /\ \A t \in DOMAIN L : L[t] \in Wide
    BY <1>3, <1>4, LedgerIs
  <1>6. Draft(L) /\ Draft(ledger)
    BY <1>4, <1>5, CleanWhen DEF Booked, Clean
  <1>7. ASSUME NEW h \in Groups, h # g PROVE Balanced(L, h)
    <2>1. \A t \in DOMAIN ledger : L[t].grp = ledger[t].grp /\ (ledger[t].grp = h => L[t] = ledger[t])
      BY <1>2, <1>3, <1>4, <1>7 DEF GroupRows
    <2>2. \A type : Legs(L, h, type) = Legs(ledger, h, type)
      BY <1>4, <2>1 DEF Legs
    <2>3. Balanced(ledger, h)
      BY DEF Booked, Clean, AllBalanced
    <2>4. \A t \in Legs(ledger, h, "conversion_out") \cup Legs(ledger, h, "conversion_in") :
             L[t].price = ledger[t].price
      BY <2>1 DEF Legs
    <2> QED BY <1>6, <2>2, <2>3, <2>4, BalancedSame
  <1>8. AllBalanced(L)
    BY <1>1, <1>7 DEF AllBalanced
  <1>9. Clean(WithSourceEstimate(L, g))
    BY <1>4, <1>5, <1>8, CleanWhen, EstimateClean
  <1> QED BY <1>0, <1>1, <1>9, SaveBooks

LEMMA DeleteGroupBooks ==
    ASSUME Booked, DOMAIN cache = Positions, NEW g \in Groups, DeleteGroup(g)
    PROVE  Booked' /\ Ends
  <1> DEFINE L == Without(ledger, GroupRows(g))
             T == PositionsOf(ledger, GroupRows(g))
  <1>0. T \in SUBSET Positions
    BY LedgerIs DEF GroupRows, PositionsOf
  <1>1. Save(L, T, "group")
    BY DEF DeleteGroup
  <1>2. /\ L = [t \in DOMAIN L |-> L[t]] /\ DOMAIN L = {t \in DOMAIN ledger : ledger[t].grp # g}
        /\ \A t \in DOMAIN L : L[t] = ledger[t]
    BY DEF Without, GroupRows
  <1> HIDE DEF L, T
  <1>3. DOMAIN L \subseteq Ids /\ \A t \in DOMAIN L : L[t] \in Wide
    BY <1>2, LedgerIs
  <1>4. Draft(L) /\ Draft(ledger)
    BY <1>2, <1>3, CleanWhen DEF Booked, Clean
  <1>5. ASSUME NEW h \in Groups PROVE Balanced(L, h)
    <2>1. CASE h = g
      <3>1. Legs(L, h, "conversion_out") = {} /\ Legs(L, h, "conversion_in") = {}
        BY <1>2, <2>1 DEF Legs
      <3> QED BY <3>1, TotalIs, SumEmpty DEF Balanced
    <2>2. CASE h # g
      <3>1. \A type : Legs(L, h, type) = Legs(ledger, h, type)
        BY <1>2, <2>2 DEF Legs
      <3>2. Balanced(ledger, h)
        BY DEF Booked, Clean, AllBalanced
      <3>3. \A t \in Legs(ledger, h, "conversion_out") \cup Legs(ledger, h, "conversion_in") :
               L[t].price = ledger[t].price
        BY <1>2, <2>2 DEF Legs
      <3> QED BY <1>4, <3>1, <3>2, <3>3, BalancedSame
    <2> QED BY <2>1, <2>2
  <1>6. Clean(L)
    BY <1>2, <1>3, <1>5, CleanWhen DEF AllBalanced
  <1> QED BY <1>0, <1>1, <1>6, SaveBooks

LEMMA ImportBuyBooks ==
    ASSUME Booked, DOMAIN cache = Positions,
           NEW id \in Ids, NEW pos \in Positions, NEW day \in Days, NEW qty \in Qtys,
           NEW price \in Nat, NEW est \in BOOLEAN, ImportBuy(id, pos, day, qty, price, est)
    PROVE  Booked' /\ Ends
  <1> DEFINE row == [pos |-> pos, type |-> "buy", day |-> day, qty |-> qty, price |-> price,
                     est |-> est, own |-> "import", grp |-> NoGroup]
             L == With([t \in {id} |-> row], ledger)
  <1>1. Fresh(id) /\ Save(L, {pos}, "import")
    BY DEF ImportBuy
  <1>2. row \in Wide /\ row.grp = NoGroup
    BY DEF Wide, Types
  <1> HIDE DEF row
  <1>3. Clean(L)
    BY <1>1, <1>2, FreshIsNew, AddsClean
  <1>4. {pos} \in SUBSET Positions
    OBVIOUS
  <1> HIDE DEF L
  <1> QED BY <1>1, <1>3, <1>4, SaveBooks

\* The credits of a file are carried over the ledger it sits in.
LEMMA ImportAgainBooks ==
    ASSUME Booked, DOMAIN cache = Positions, NEW batch, ImportAgain(batch)
    PROVE  Booked' /\ Ends
  <1> DEFINE all == Sources(ledger, batch)
             S == Carriers(ledger, DOMAIN all)
             src == Only(all, S)
             rows == Recosted(ledger, ResolveCarriedCosts(ledger, src))
             K == Carried(ledger, batch)
             L == Rewritten(ledger, K)
             T == PositionsOf(L, {t \in DOMAIN L : L[t] # ledger[t]})
  <1>1. batch \subseteq DOMAIN ledger /\ Save(L, T, "import")
    BY DEF ImportAgain, Transfers
  <1>2. K = With(rows, ledger)
    BY DEF Carried
  <1>3. S \subseteq DOMAIN all /\ \A t \in DOMAIN all : t \in batch /\ ledger[t].type = "transfer_in"
    BY SourcesAre, CarriersAre
  <1> HIDE DEF all, S, K, T
  <1>4. DOMAIN src = S
    BY OnlyIs
  <1> HIDE DEF src
  <1>5. DOMAIN src \subseteq DOMAIN ledger /\ Draft(ledger) /\ AllBalanced(ledger)
    BY <1>1, <1>3, <1>4 DEF Booked, Clean
  <1>6. DOMAIN rows \subseteq DOMAIN src /\ Refigured(ledger, rows)
    BY <1>5, RecostedIs
  <1> HIDE DEF rows
  <1>7. DOMAIN K = DOMAIN ledger /\ Draft(K) /\ Refigured(ledger, K)
    BY <1>2, <1>5, <1>6, WithDraft
  <1>8. AllBalanced(K)
    <2>1. \A t \in DOMAIN rows : ledger[t].type = "transfer_in"
      BY <1>3, <1>4, <1>6
    <2> QED BY <1>2, <1>5, <1>6, <2>1, TransfersBalance
  <1>9. Clean(L)
    BY <1>7, <1>8, RewrittenClean DEF Booked
  <1>10. T \in SUBSET Positions
    <2>1. \A t \in DOMAIN L : L[t].pos \in Positions
      BY <1>9 DEF Clean, Draft, Wide
    <2> QED BY <2>1 DEF T, PositionsOf
  <1> HIDE DEF L
  <1> QED BY <1>1, <1>9, <1>10, SaveBooks

LEMMA InitBooks == Init => Booked
  <1> SUFFICES ASSUME Init PROVE Booked
    OBVIOUS
  <1>1. PICK L \in Starts : ledger = Rewritten(L, RederiveCarriedLegs(L, Positions).ledger)
    BY DEF Init
  <1>2. L \in [DOMAIN L -> Row] /\ DOMAIN L \subseteq Ids /\ AllBalanced(L)
    BY StartsAssumption, StartsBalance DEF AllBalanced
  <1>3. L = [t \in DOMAIN L |-> L[t]] /\ \A t \in DOMAIN L : L[t] \in Wide
    BY <1>2, RowIsWide
  <1>4. Clean(L) /\ Draft(L)
    BY <1>2, <1>3, CleanWhen
  <1> DEFINE final == RederiveCarriedLegs(L, Positions).ledger
  <1>5. final \in Drafts(L)
    BY <1>2, <1>3, <1>4, RederivedPlans DEF Plans
  <1> HIDE DEF final
  <1>6. Clean(Rewritten(L, final))
    BY <1>4, <1>5, DraftsAre, RewrittenClean
  <1> QED BY <1>1, <1>6 DEF Init, Booked, final

-----------------------------------------------------------------------------
(* The invariant, and what follows from it *)

StoredInv == /\ Booked
             /\ CacheInv
             /\ DOMAIN cache = Positions
             /\ last \in {"import", "row", "group", "threw"}
             /\ touched \in SUBSET Positions
             /\ writes \in 0..MaxWrites

LEMMA InitStores == Init => StoredInv
  <1> SUFFICES ASSUME Init PROVE StoredInv
    OBVIOUS
  <1>1. DOMAIN cache = Positions /\ last = "import" /\ touched = {} /\ writes = 0
    BY DEF Init
  <1> QED BY <1>1, InitBooks, InitKeeps, SizesAssumption DEF StoredInv

LEMMA WriteBooks ==
    ASSUME Booked, DOMAIN cache = Positions, Write
    PROVE  Booked' /\ Ends
  <1>1. CASE last' \in {"row", "threw"}
    <2>1. PICK L, seeds : WritesRows(L, seeds)
      BY <1>1, RowWrites
    <2> QED BY <2>1, SaveRowsBooks DEF WritesRows
  <1>2. CASE last' \notin {"row", "threw"}
    <2>1. CASE \E id \in Ids, pos \in Positions, type \in {"buy", "sell", "transfer_in", "transfer_out"},
                  day \in Days, qty \in Qtys :
                  \E price \in IF type \in {"buy", "transfer_in"} THEN Prices ELSE {0} :
                     Create(id, pos, type, day, qty, price)
      BY <1>2, <2>1 DEF Create, SaveRows, SavePlanned, Save, Throw
    <2>2. CASE \E t \in DOMAIN ledger : \E new \in Edits(ledger[t]) : Edit(t, new)
      BY <1>2, <2>2 DEF Edit, SaveRows, SavePlanned, Save, Throw
    <2>3. CASE \E S \in Removals : Remove(S)
      BY <1>2, <2>3 DEF Remove, SaveRows, SavePlanned, Save, Throw
    <2>4. CASE \E g \in Groups, id \in Ids, from, to \in Positions, day \in Days, out, in \in Qtys, cost \in Prices :
                  CreateGroup(g, id, from, to, day, out, in, cost)
      BY <2>4, CreateGroupBooks, DataAssumption
    <2>5. CASE \E g \in Groups : \E qtys \in [GroupRows(g) -> Qtys], costs \in [GroupRows(g) -> Prices] :
                  ReplaceGroup(g, qtys, costs)
      BY <2>5, ReplaceGroupBooks
    <2>6. CASE \E g \in Groups : DeleteGroup(g)
      BY <2>6, DeleteGroupBooks
    <2>7. CASE \E id \in Ids, pos \in Positions, day \in Days, qty \in Qtys, price \in Prices, est \in BOOLEAN :
                  ImportBuy(id, pos, day, qty, price, est)
      BY <2>7, ImportBuyBooks, DataAssumption
    <2>8. CASE \E batch \in SUBSET Transfers : ImportAgain(batch)
      BY <2>8, ImportAgainBooks
    <2> QED BY <2>1, <2>2, <2>3, <2>4, <2>5, <2>6, <2>7, <2>8 DEF Write
  <1> QED BY <1>1, <1>2

LEMMA WriteKeeps ==
    ASSUME Booked, CacheInv, Write
    PROVE  CacheInv'
  <1>1. CASE last' \in {"row", "threw"}
    <2>1. PICK L, seeds : WritesRows(L, seeds)
      BY <1>1, RowWrites
    <2> QED BY <2>1, SaveRowsKeeps
  <1>2. CASE last' \notin {"row", "threw"}
    <2>1. ~\E L, seeds : SaveRows(L, seeds)
      BY <1>2 DEF SaveRows, SavePlanned, Save, Throw
    <2> QED BY <2>1, CreateGroupKeeps, ReplaceGroupKeeps, DeleteGroupKeeps, ImportBuyKeeps,
               ImportAgainKeeps DEF Write, Create, Edit, Remove
  <1> QED BY <1>1, <1>2

LEMMA StepStores == StoredInv /\ [Next]_vars => StoredInv'
  <1> SUFFICES ASSUME StoredInv, [Next]_vars PROVE StoredInv'
    OBVIOUS
  <1>1. CASE Next
    <2>1. Booked' /\ Ends
      BY <1>1, WriteBooks DEF Next, StoredInv
    <2>2. CacheInv'
      BY <1>1, WriteKeeps DEF Next, StoredInv
    <2>3. writes < MaxWrites
      BY <1>1 DEF Next
    <2>4. writes' \in 0..MaxWrites
      BY <2>1, <2>3, SizesAssumption DEF StoredInv, Ends
    <2> QED BY <2>1, <2>2, <2>4 DEF StoredInv, Ends
  <1>2. CASE UNCHANGED vars
    <2>1. Booked'
      BY <1>2 DEF vars, StoredInv, Booked, Clean, Draft, AllBalanced, Balanced, Storable
    <2>2. CacheInv'
      BY <1>2 DEF vars, StoredInv, CacheInv, Shaped, CacheIsReplay, Replay, Replayable, At, Only
    <2> QED BY <1>2, <2>1, <2>2 DEF vars, StoredInv
  <1> QED BY <1>1, <1>2

\* Every cached position is what a rebuild would compute, and every position
\* replays, whatever is created, edited, deleted, converted or imported.
THEOREM CacheAlwaysReplay == Spec => []CacheIsReplay
  <1>1. StoredInv => CacheIsReplay
    BY DEF StoredInv, CacheInv
  <1> QED BY <1>1, InitStores, StepStores, PTL DEF Spec

\* A position that is cached is a replay that went through, of rows at prices
\* the table stores, so it counts no cost below zero.
LEMMA CacheTyped ==
    ASSUME Booked, CacheInv, NEW p \in Positions, cache[p] # NoPosition
    PROVE  cache[p] \in [ok : {TRUE}, qty : Nat, cost : Nat, avg : Nat, est : BOOLEAN]
  <1> DEFINE R == At(ledger, p)
  <1>1. cache[p] = Fold(R) /\ Fold(R).ok
    BY DEF CacheInv, CacheIsReplay, Replay, Recalculate, Replayable
  <1>2. Draft(ledger)
    BY DEF Booked, Clean
  <1>3. Draft(R) /\ \A t \in DOMAIN R : t \in DOMAIN ledger /\ R[t] = ledger[t]
    BY <1>2, OnlyDraft DEF At
  <1>4. ASSUME NEW t \in DOMAIN R PROVE R[t] \in Row
    <2>1. ledger[t] \in Wide /\ ledger[t].price >= 0
      BY <1>2, <1>3 DEF Draft, Booked, Storable
    <2> QED BY <1>3, <2>1 DEF Wide, Row
  <1> HIDE DEF R
  <1>5. Empty \in Sound
    BY DEF Empty, Sound, States
  <1>6. Fold(R) \in Sound
    BY <1>3, <1>4, <1>5, ApplySound, FoldIn DEF Draft
  <1>7. PICK s : s = Fold(R)
    OBVIOUS
  <1>8. /\ s = [ok |-> s.ok, qty |-> s.qty, cost |-> s.cost, avg |-> s.avg, est |-> s.est]
        /\ s.ok = TRUE /\ s.qty \in Nat /\ s.cost \in Int /\ s.avg \in Int /\ s.est \in BOOLEAN
        /\ s.cost >= 0 /\ s.avg >= 0
    BY <1>1, <1>6, <1>7 DEF Sound, States
  <1>9. s.cost \in Nat /\ s.avg \in Nat
    BY <1>8
  <1>10. s \in [ok : {TRUE}, qty : Nat, cost : Nat, avg : Nat, est : BOOLEAN]
    BY <1>8, <1>9
  <1> QED BY <1>1, <1>7, <1>10

\* Every row of the ledger is one the columns and checks of its table hold, and
\* every cached position a replay that went through, its cost and average not
\* below zero, whatever is created, edited, deleted, converted or imported.
THEOREM TypeCorrect == Spec => []TypeOK
  <1>1. StoredInv => TypeOK
    <2> SUFFICES ASSUME StoredInv PROVE TypeOK
      OBVIOUS
    <2>1. DOMAIN ledger \subseteq Ids /\ \A t \in DOMAIN ledger : ledger[t] \in Wide /\ ledger[t].price >= 0
      BY DEF StoredInv, Booked, Clean, Draft, Storable
    <2>2. \A t \in DOMAIN ledger : ledger[t] \in Row
      BY <2>1 DEF Wide, Row
    <2>3. \A p \in Positions : cache[p] # NoPosition =>
             cache[p] \in [ok : {TRUE}, qty : Nat, cost : Nat, avg : Nat, est : BOOLEAN]
      BY CacheTyped DEF StoredInv
    <2> QED BY <2>1, <2>2, <2>3 DEF StoredInv, TypeOK
  <1> QED BY <1>1, InitStores, StepStores, PTL DEF Spec

\* The legs of every conversion group take out as much cost as they bring in,
\* to the last decimal, after any number of writes and of rounds that re-derive
\* them: what allocateLike rounds away from the targets, it gives to the last.
THEOREM GroupsAlwaysBalance == Spec => []GroupsBalance
  <1>1. StoredInv => GroupsBalance
    BY DEF StoredInv, Booked, Clean, AllBalanced, GroupsBalance
  <1> QED BY <1>1, InitStores, StepStores, PTL DEF Spec

-----------------------------------------------------------------------------
(* Which debit a credit came from *)

\* Every rank of a finite set of numbers is the rank of one of them.
LEMMA NthReached ==
    ASSUME NEW S, IsFiniteSet(S), S \subseteq Int, NEW k \in 1..Cardinality(S)
    PROVE  \E d \in S : Nth(S, d) = k
  <1> DEFINE G == {T \in SUBSET S : \A i \in 1..Cardinality(T) : \E d \in T : Nth(T, d) = i}
  <1>1. ASSUME NEW T \in SUBSET S, \A x \in T : T \ {x} \in G PROVE T \in G
    <2>1. IsFiniteSet(T) /\ T \subseteq Int /\ Cardinality(T) \in Nat
      BY FS_Subset, FS_CardinalityType
    <2>2. ASSUME NEW i \in 1..Cardinality(T) PROVE \E d \in T : Nth(T, d) = i
      <3>1. T # {}
        BY <2>1, <2>2, FS_EmptySet
      <3>2. PICK m \in T : \A x \in T : x <= m
        BY <2>1, <3>1, GreatestNumber
      <3>3. CASE i = Cardinality(T)
        <4>1. {u \in T : u <= m} = T
          BY <3>2
        <4> QED BY <3>2, <3>3, <4>1 DEF Nth
      <3>4. CASE i # Cardinality(T)
        <4>1. Cardinality(T \ {m}) = Cardinality(T) - 1
          BY <2>1, <3>2, FS_RemoveElement
        <4>2. i \in 1..Cardinality(T \ {m})
          BY <2>1, <2>2, <3>4, <4>1
        <4>3. PICK d \in T \ {m} : Nth(T \ {m}, d) = i
          BY <1>1, <3>2, <4>2
        <4>4. {u \in T : u <= d} = {u \in T \ {m} : u <= d}
          BY <2>1, <3>2, <4>3
        <4> QED BY <4>3, <4>4 DEF Nth
      <3> QED BY <3>3, <3>4
    <2> QED BY <2>2
  <1> HIDE DEF G
  <1>2. S \in G
    BY <1>1, SubsetInduction
  <1> QED BY <1>2 DEF G

\* Whether pairTransfers finds the credit t a debit of its own.
Paired(L, S, t) ==
    LET credits == Alike(L, S, t, "transfer_in")
        debits  == Alike(L, S, t, "transfer_out") IN
    /\ Cardinality(credits) = Cardinality(debits)
    /\ \/ Cardinality(credits) = 1
       \/ /\ \A u \in credits \cup debits : L[u].pos = L[t].pos
          /\ \A u \in credits : L[u].own = "carry"

\* The debit of as many before it as the credit has.
Opposite(ins, outs, s) == CHOOSE d \in outs : Nth(outs, d) = Nth(ins, s)

DebitOf(L, S, t) == Opposite(Alike(L, S, t, "transfer_in"), Alike(L, S, t, "transfer_out"), t)

LEMMA SourcesIs ==
    ASSUME NEW L, NEW S
    PROVE  Sources(L, S) =
               [t \in {u \in S : L[u].type = "transfer_in" /\ Paired(L, S, u)} |-> DebitOf(L, S, t)]
  BY TableIs DEF Sources, Paired, DebitOf, Opposite

\* The debit a credit came from is one, of its asset, day and quantity.
LEMMA SourceIn ==
    ASSUME NEW L, Draft(L), NEW t \in DOMAIN Sources(L, DOMAIN L)
    PROVE  /\ t \in DOMAIN L /\ L[t].type = "transfer_in" /\ Paired(L, DOMAIN L, t)
           /\ Sources(L, DOMAIN L)[t] = DebitOf(L, DOMAIN L, t)
           /\ DebitOf(L, DOMAIN L, t) \in Alike(L, DOMAIN L, t, "transfer_out")
  <1> DEFINE credits == Alike(L, DOMAIN L, t, "transfer_in")
             debits == Alike(L, DOMAIN L, t, "transfer_out")
  <1>1. /\ t \in DOMAIN L /\ L[t].type = "transfer_in" /\ Paired(L, DOMAIN L, t)
        /\ Sources(L, DOMAIN L)[t] = DebitOf(L, DOMAIN L, t)
    BY SourcesIs
  <1>2. credits \in SUBSET DOMAIN L /\ debits \in SUBSET DOMAIN L /\ t \in credits
    BY <1>1 DEF Alike
  <1>3. Cardinality(credits) = Cardinality(debits)
    BY <1>1 DEF Paired
  <1>4. DebitOf(L, DOMAIN L, t) = CHOOSE d \in debits : Nth(debits, d) = Nth(credits, t)
    BY DEF DebitOf, Opposite
  <1> HIDE DEF credits, debits
  <1>5. IsFiniteSet(credits) /\ IsFiniteSet(debits) /\ debits \subseteq Int /\ t \in Int
    BY <1>2, FS_Subset DEF Draft
  <1> DEFINE below == {u \in credits : u <= t}
  <1>6. below \subseteq credits /\ t \in below
    BY <1>2, <1>5
  <1> HIDE DEF below
  <1>7. IsFiniteSet(below) /\ Cardinality(below) <= Cardinality(credits) /\ Cardinality(below) # 0
    BY <1>5, <1>6, FS_Subset, FS_EmptySet
  <1>8. Cardinality(below) \in 1..Cardinality(debits)
    BY <1>3, <1>5, <1>7, FS_CardinalityType
  <1>9. \E d \in debits : Nth(debits, d) = Cardinality(below)
    BY <1>5, <1>8, NthReached
  <1>10. Nth(credits, t) = Cardinality(below)
    BY DEF Nth, below
  <1> QED BY <1>1, <1>4, <1>9, <1>10 DEF debits

\* The rows of t's position that are like it.
InTrip(L, t, type) ==
    {u \in DOMAIN L : /\ L[u].type = type /\ L[u].pos = L[t].pos
                      /\ L[u].day = L[t].day /\ L[u].qty = L[t].qty}

\* A credit paired within its own position has its siblings, and they their
\* debits, among the rows of that position.
LEMMA TripIs ==
    ASSUME NEW L, Draft(L), NEW src, src = Sources(L, DOMAIN L),
           NEW t \in DOMAIN src, L[t].pos = L[src[t]].pos
    PROVE  /\ Siblings(L, src, t) = InTrip(L, t, "transfer_in") \ {t}
           /\ \A s \in Siblings(L, src, t) :
                 /\ s \in DOMAIN src /\ L[s].own = "carry" /\ L[src[s]].pos = L[t].pos
                 /\ src[s] = Opposite(InTrip(L, t, "transfer_in"), InTrip(L, t, "transfer_out"), s)
  <1> DEFINE ins == InTrip(L, t, "transfer_in")
             outs == InTrip(L, t, "transfer_out")
             credits == Alike(L, DOMAIN L, t, "transfer_in")
             debits == Alike(L, DOMAIN L, t, "transfer_out")
             trip == Siblings(L, src, t)
  <1>1. t \in DOMAIN L /\ L[t].type = "transfer_in" /\ Paired(L, DOMAIN L, t)
    BY SourceIn
  <1>2. t \in ins /\ t \in credits /\ ins \subseteq credits
    BY <1>1 DEF InTrip, Alike
  <1>3. DOMAIN src = {u \in DOMAIN L : L[u].type = "transfer_in" /\ Paired(L, DOMAIN L, u)}
    BY SourcesIs
  <1>4. trip = {u \in DOMAIN src \ {t} : u \in ins}
    BY <1>3 DEF Siblings, InTrip
  <1>5. CASE Cardinality(credits) = 1
    <2>1. IsFiniteSet(credits)
      BY FS_Subset DEF Alike, Draft
    <2>2. credits = {t}
      <3> HIDE DEF credits
      <3>1. PICK x : credits = {x}
        BY <1>5, <2>1, FS_Singleton
      <3> QED BY <1>2, <3>1
    <2> QED BY <1>2, <1>4, <2>2
  <1>6. CASE Cardinality(credits) # 1
    <2>1. /\ \A u \in credits \cup debits : L[u].pos = L[t].pos
          /\ \A u \in credits : L[u].own = "carry"
      BY <1>1, <1>6 DEF Paired
    <2>2. ins = credits /\ outs = debits
      BY <2>1 DEF InTrip, Alike
    <2>3. ASSUME NEW s \in credits
          PROVE  /\ Alike(L, DOMAIN L, s, "transfer_in") = credits
                 /\ Alike(L, DOMAIN L, s, "transfer_out") = debits
                 /\ s \in DOMAIN L /\ L[s].type = "transfer_in"
      BY DEF Alike
    <2>4. ASSUME NEW s \in credits PROVE s \in DOMAIN src
      <3>1. Paired(L, DOMAIN L, s)
        BY <1>1, <2>1, <2>3, <2>4 DEF Paired
      <3> QED BY <1>3, <2>3, <3>1
    <2>5. ASSUME NEW s \in credits
          PROVE  /\ src[s] = Opposite(credits, debits, s)
                 /\ L[src[s]].pos = L[t].pos
      <3>1. src[s] = DebitOf(L, DOMAIN L, s) /\ DebitOf(L, DOMAIN L, s) \in Alike(L, DOMAIN L, s, "transfer_out")
        BY <2>4, SourceIn
      <3>2. Alike(L, DOMAIN L, s, "transfer_in") = credits /\ Alike(L, DOMAIN L, s, "transfer_out") = debits
        BY <2>3
      <3>3. src[s] \in debits
        BY <3>1, <3>2
      <3> HIDE DEF credits, debits
      <3>4. src[s] = Opposite(credits, debits, s)
        BY <3>1, <3>2 DEF DebitOf
      <3> QED BY <2>1, <3>3, <3>4
    <2> HIDE DEF ins, outs, credits, debits
    <2>6. trip = ins \ {t}
      BY <1>4, <2>2, <2>4
    <2>7. ASSUME NEW s \in trip
          PROVE  /\ s \in DOMAIN src /\ L[s].own = "carry" /\ L[src[s]].pos = L[t].pos
                 /\ src[s] = Opposite(ins, outs, s)
      BY <2>1, <2>2, <2>4, <2>5, <2>6
    <2> QED BY <2>6, <2>7 DEF ins, outs
  <1> QED BY <1>5, <1>6

-----------------------------------------------------------------------------
(* What a source held depends on its position's rows alone *)

\* What SourceBefore replays.
Held(L, src, t, without) ==
    {u \in DOMAIN At(L, L[src[t]].pos) :
        /\ Before(L, u, src[t])
        /\ u \notin without \cup {t} \cup Siblings(L, src, t)
        /\ \A s \in Siblings(L, src, t) : u # src[s]}

LEMMA SourceBeforeIs ==
    ASSUME NEW L, NEW src, NEW t, NEW without
    PROVE  SourceBefore(L, src, t, without) = Fold(Only(L, Held(L, src, t, without)))
  BY DEF SourceBefore, Held

\* Two ledgers that list the same rows at a position.
LEMMA SameRowsAt ==
    ASSUME NEW L, Draft(L), NEW K, Draft(K), NEW q, At(L, q) = At(K, q)
    PROVE  \A u : /\ (u \in DOMAIN L /\ L[u].pos = q) <=> (u \in DOMAIN K /\ K[u].pos = q)
                  /\ u \in DOMAIN L /\ L[u].pos = q => L[u] = K[u]
  <1>1. /\ DOMAIN At(L, q) = {u \in DOMAIN L : L[u].pos = q}
        /\ DOMAIN At(K, q) = {u \in DOMAIN K : K[u].pos = q}
    BY AtIs
  <1>2. \A u \in DOMAIN At(L, q) : At(L, q)[u] = L[u]
    BY <1>1, OnlyIs DEF At
  <1>3. \A u \in DOMAIN At(K, q) : At(K, q)[u] = K[u]
    BY <1>1, OnlyIs DEF At
  <1> QED BY <1>1, <1>2, <1>3

LEMMA SameBefore ==
    ASSUME NEW L, Draft(L), NEW K, Draft(K), NEW q, At(L, q) = At(K, q),
           NEW src, src = Sources(L, DOMAIN L), NEW srcK, srcK = Sources(K, DOMAIN K),
           NEW t \in DOMAIN src, t \in DOMAIN srcK, src[t] = srcK[t], L[src[t]].pos = q
    PROVE  SourceBefore(L, src, t, {}) = SourceBefore(K, srcK, t, {})
  <1> DEFINE d == src[t]
             trip == Siblings(L, src, t)
             tripK == Siblings(K, srcK, t)
  <1>1. \A u : /\ (u \in DOMAIN L /\ L[u].pos = q) <=> (u \in DOMAIN K /\ K[u].pos = q)
               /\ u \in DOMAIN L /\ L[u].pos = q => L[u] = K[u]
    BY SameRowsAt
  <1>2. t \in DOMAIN L /\ t \in DOMAIN K /\ d \in DOMAIN L
    BY SourceIn DEF Alike
  <1>3. d \in DOMAIN K /\ K[d].pos = q /\ K[d] = L[d]
    BY <1>1, <1>2
  <1>4. trip = tripK /\ \A s \in trip : src[s] = srcK[s]
    <2>1. CASE L[t].pos = q
      <3>1. K[t] = L[t]
        BY <1>1, <1>2, <2>1
      <3>2. ASSUME NEW type PROVE InTrip(K, t, type) = InTrip(L, t, type)
        BY <1>1, <2>1, <3>1 DEF InTrip
      <3>3. L[t].pos = L[src[t]].pos /\ K[t].pos = K[srcK[t]].pos
        BY <1>3, <2>1, <3>1
      <3>4. /\ trip = InTrip(L, t, "transfer_in") \ {t}
            /\ \A s \in trip : src[s] = Opposite(InTrip(L, t, "transfer_in"), InTrip(L, t, "transfer_out"), s)
        BY <3>3, TripIs
      <3>5. /\ tripK = InTrip(K, t, "transfer_in") \ {t}
            /\ \A s \in tripK : srcK[s] = Opposite(InTrip(K, t, "transfer_in"), InTrip(K, t, "transfer_out"), s)
        BY <3>3, TripIs
      <3> HIDE DEF trip, tripK
      <3>6. trip = tripK
        BY <3>2, <3>4, <3>5
      <3>7. ASSUME NEW s \in trip PROVE src[s] = srcK[s]
        BY <3>2, <3>4, <3>5, <3>6
      <3> QED BY <3>6, <3>7
    <2>2. CASE L[t].pos # q
      <3>1. K[t].pos # q
        BY <1>1, <1>2, <2>2
      <3>2. trip = {} /\ tripK = {}
        BY <1>3, <2>2, <3>1 DEF Siblings
      <3> QED BY <3>2
    <2> QED BY <2>1, <2>2
  <1>5. /\ DOMAIN At(L, q) = {u \in DOMAIN L : L[u].pos = q}
        /\ DOMAIN At(K, q) = DOMAIN At(L, q)
    BY AtIs
  <1>6. \A u \in DOMAIN At(L, q) : L[u] = K[u]
    BY <1>1, <1>5
  <1>7. \A u \in DOMAIN At(L, q) : Before(L, u, d) <=> Before(K, u, d)
    BY <1>3, <1>6 DEF Before
  <1>8. Held(L, src, t, {}) = Held(K, srcK, t, {})
    <2> HIDE DEF trip, tripK
    <2>1. Held(L, src, t, {}) = {u \in DOMAIN At(L, q) :
             Before(L, u, d) /\ u \notin {} \cup {t} \cup trip /\ \A s \in trip : u # src[s]}
      BY DEF Held, trip
    <2>2. Held(K, srcK, t, {}) = {u \in DOMAIN At(K, q) :
             Before(K, u, d) /\ u \notin {} \cup {t} \cup tripK /\ \A s \in tripK : u # srcK[s]}
      BY <1>3 DEF Held, tripK
    <2> HIDE DEF d
    <2>3. ASSUME NEW u PROVE (\A s \in trip : u # src[s]) <=> (\A s \in tripK : u # srcK[s])
      BY <1>4
    <2>4. ASSUME NEW u
          PROVE  u \in Held(L, src, t, {}) <=>
                   u \in DOMAIN At(L, q) /\ Before(L, u, d) /\ u # t /\ u \notin trip /\ \A s \in trip : u # src[s]
      BY <2>1
    <2>5. ASSUME NEW u
          PROVE  u \in Held(K, srcK, t, {}) <=>
                   u \in DOMAIN At(K, q) /\ Before(K, u, d) /\ u # t /\ u \notin tripK /\ \A s \in tripK : u # srcK[s]
      BY <2>2
    <2>6. ASSUME NEW u PROVE u \in Held(L, src, t, {}) <=> u \in Held(K, srcK, t, {})
      BY <1>4, <1>5, <1>7, <2>3, <2>4, <2>5
    <2> QED BY <2>6
  <1>9. Held(L, src, t, {}) \subseteq DOMAIN At(L, q)
    BY DEF Held
  <1>10. ASSUME NEW S, S \subseteq DOMAIN At(L, q) PROVE Only(L, S) = Only(K, S)
    BY <1>6, <1>10, OnlyIs
  <1>11. Only(L, Held(L, src, t, {})) = Only(K, Held(K, srcK, t, {}))
    BY <1>8, <1>9, <1>10
  <1> QED BY <1>11, SourceBeforeIs

\* The legs whose source sits in dirty positions.
Fed(L, all, dirty) == {t \in Carriers(L, DOMAIN all) : L[all[t]].pos \in dirty}

\* A round reads a leg of its own among all the legs there are: the siblings of
\* a leg are fed when it is.
LEMMA FedIs ==
    ASSUME NEW L, Draft(L), NEW all, all = Sources(L, DOMAIN L), NEW dirty,
           NEW src, src = Only(all, Fed(L, all, dirty)), NEW t \in DOMAIN src
    PROVE  /\ t \in DOMAIN all /\ src[t] = all[t] /\ Siblings(L, src, t) = Siblings(L, all, t)
           /\ \A s \in Siblings(L, all, t) : src[s] = all[s]
           /\ \A u : Feeds(L, src, u, t) <=> Feeds(L, all, u, t)
           /\ \A W : SourceBefore(L, src, t, W) = SourceBefore(L, all, t, W)
  <1>1. DOMAIN src = Fed(L, all, dirty) /\ \A u \in DOMAIN src : src[u] = all[u]
    BY OnlyIs
  <1>2. t \in DOMAIN all /\ src[t] = all[t] /\ DOMAIN src \subseteq DOMAIN all
    BY <1>1 DEF Fed, Carriers
  <1>3. ASSUME NEW s \in Siblings(L, all, t) PROVE s \in DOMAIN src
    <2>1. L[t].pos = L[all[t]].pos
      BY <1>3 DEF Siblings
    <2>2. s \in DOMAIN all /\ L[s].own = "carry" /\ L[all[s]].pos = L[t].pos
      BY <1>2, <2>1, TripIs
    <2>3. L[all[s]].pos \in dirty
      BY <1>1, <2>1, <2>2 DEF Fed
    <2> QED BY <1>1, <2>2, <2>3 DEF Fed, Carriers
  <1>4. Siblings(L, src, t) = Siblings(L, all, t)
    <2>1. Siblings(L, src, t) \subseteq Siblings(L, all, t)
      BY <1>2 DEF Siblings
    <2>2. ASSUME NEW s \in Siblings(L, all, t) PROVE s \in Siblings(L, src, t)
      BY <1>2, <1>3 DEF Siblings
    <2> QED BY <2>1, <2>2
  <1>5. \A s \in Siblings(L, all, t) : src[s] = all[s]
    BY <1>1, <1>3
  <1>6. ASSUME NEW u PROVE Feeds(L, src, u, t) <=> Feeds(L, all, u, t)
    BY <1>2, <1>4 DEF Feeds
  <1>7. ASSUME NEW W PROVE SourceBefore(L, src, t, W) = SourceBefore(L, all, t, W)
    <2>1. Held(L, src, t, W) = Held(L, all, t, W)
      BY <1>2, <1>4, <1>5 DEF Held
    <2> QED BY <2>1, SourceBeforeIs
  <1> QED BY <1>2, <1>4, <1>5, <1>6, <1>7

-----------------------------------------------------------------------------
(* What a resolution that changes nothing has read *)

LEMMA CountUp ==
    ASSUME NEW m \in Nat, NEW V, 0 \in V, \A n \in Nat : n < m /\ n \in V => n + 1 \in V
    PROVE  m \in V
  <1> DEFINE f == [n \in 0..m |-> n]
  <1>1. \A n \in 0..m : f[n] = n
    OBVIOUS
  <1> HIDE DEF f
  <1>2. f[0] \in V
    BY <1>1
  <1>3. \A n \in Nat : n < m /\ f[n] \in V => f[n + 1] \in V
    BY <1>1
  <1>4. f[m] \in V
    BY <1>2, <1>3, StepsStay
  <1> QED BY <1>1, <1>4

\* The legs a pass settles.
Free(L, src, done) ==
    {t \in DOMAIN src \ DOMAIN done : ~\E u \in DOMAIN src \ DOMAIN done : Feeds(L, src, u, t)}

LEMMA SettleFreeIs ==
    ASSUME NEW L, NEW src, NEW done
    PROVE  SettleFree(L, src, done) =
               [t \in DOMAIN done \cup Free(L, src, done) |->
                   IF t \in DOMAIN done THEN done[t]
                   ELSE CarriedCost(WithCarriedCost(L, done), src, t, DOMAIN src \ DOMAIN done)]
  <1> DEFINE free == Free(L, src, done)
             cost(t) == CarriedCost(WithCarriedCost(L, done), src, t, DOMAIN src \ DOMAIN done)
             f == [t \in free |-> cost(t)]
  <1>1. SettleFree(L, src, done) = With(f, done)
    BY DEF SettleFree, Free
  <1>2. free \cap DOMAIN done = {}
    BY DEF Free
  <1>3. DOMAIN f = free /\ \A t \in free : f[t] = cost(t)
    OBVIOUS
  <1> HIDE DEF f, free, cost
  <1>4. With(f, done) = [t \in DOMAIN f \cup DOMAIN done |-> IF t \in DOMAIN f THEN f[t] ELSE done[t]]
    BY WithIs
  <1>5. With(f, done) = [t \in DOMAIN done \cup free |-> IF t \in DOMAIN done THEN done[t] ELSE cost(t)]
    BY <1>2, <1>3, <1>4
  <1> QED BY <1>1, <1>5 DEF free, cost

\* A figure once settled stays; one settled in the end was free in some pass.
LEMMA SettlingGrows ==
    ASSUME NEW L, Draft(L), NEW src, DOMAIN src \subseteq DOMAIN L,
           NEW m, m = Cardinality(DOMAIN src), NEW g, g = Settling(L, src)
    PROVE  /\ \A n \in 0..m : \A t \in DOMAIN g[n] : t \in DOMAIN g[m] /\ g[m][t] = g[n][t]
           /\ \A t \in DOMAIN g[m] : \E n \in Nat : n < m /\ t \in Free(L, src, g[n])
           /\ Free(L, src, g[m]) = {}
  <1>1. /\ m \in Nat
        /\ g[0] = <<>>
        /\ \A n \in Nat : n < m => g[n + 1] = SettleFree(L, src, g[n])
        /\ \A n \in 0..m : g[n] \in Partial(DOMAIN src)
    BY SettlingSteps
  <1>2. ASSUME NEW n \in Nat, n < m
        PROVE  /\ DOMAIN g[n + 1] = DOMAIN g[n] \cup Free(L, src, g[n])
               /\ \A t \in DOMAIN g[n] : g[n + 1][t] = g[n][t]
    <2>1. PICK h : h = g[n]
      OBVIOUS
    <2>2. g[n + 1] = SettleFree(L, src, h)
      BY <1>1, <1>2, <2>1
    <2>3. SettleFree(L, src, h) =
              [t \in DOMAIN h \cup Free(L, src, h) |->
                  IF t \in DOMAIN h THEN h[t]
                  ELSE CarriedCost(WithCarriedCost(L, h), src, t, DOMAIN src \ DOMAIN h)]
      BY SettleFreeIs
    <2> QED BY <2>1, <2>2, <2>3
  <1>3. IsFiniteSet(DOMAIN src)
    BY FS_Subset DEF Draft
  <1>4. \A n \in 0..m : DOMAIN g[n] \subseteq DOMAIN src
    BY <1>1, PartialIs
  <1>5. m \in {k \in 0..m : \A n \in 0..k : \A t \in DOMAIN g[n] : t \in DOMAIN g[k] /\ g[k][t] = g[n][t]}
    <2> DEFINE V == {k \in 0..m : \A n \in 0..k : \A t \in DOMAIN g[n] : t \in DOMAIN g[k] /\ g[k][t] = g[n][t]}
    <2>1. 0 \in V
      BY <1>1
    <2>2. ASSUME NEW k \in Nat, k < m, k \in V PROVE k + 1 \in V
      <3>1. \A n \in 0..(k + 1) : n \in 0..k \/ n = k + 1
        BY <2>2
      <3>2. \A t \in DOMAIN g[k] : t \in DOMAIN g[k + 1] /\ g[k + 1][t] = g[k][t]
        BY <1>2, <2>2
      <3>3. k + 1 \in 0..m
        BY <1>1, <2>2
      <3> QED BY <2>2, <3>1, <3>2, <3>3
    <2> HIDE DEF V
    <2> QED BY <1>1, <2>1, <2>2, CountUp DEF V
  <1>6. ASSUME NEW t \in DOMAIN g[m] PROVE \E n \in Nat : n < m /\ t \in Free(L, src, g[n])
    <2> DEFINE V == {k \in 0..m : t \in DOMAIN g[k] => \E n \in Nat : n < m /\ t \in Free(L, src, g[n])}
    <2>1. 0 \in V
      BY <1>1
    <2>2. ASSUME NEW k \in Nat, k < m, k \in V PROVE k + 1 \in V
      <3>1. k + 1 \in 0..m
        BY <1>1, <2>2
      <3>2. t \in DOMAIN g[k + 1] => t \in DOMAIN g[k] \/ t \in Free(L, src, g[k])
        BY <1>2, <2>2
      <3> QED BY <2>2, <3>1, <3>2
    <2> HIDE DEF V
    <2>3. m \in V
      BY <1>1, <2>1, <2>2, CountUp
    <2> QED BY <1>6, <2>3 DEF V
  <1>7. Free(L, src, g[m]) = {}
    <2> DEFINE V == {k \in 0..m : Cardinality(DOMAIN g[k]) >= k \/ Free(L, src, g[k]) = {}}
    <2>1. 0 \in V
      <3>1. DOMAIN g[0] = {}
        BY <1>1
      <3> QED BY <1>1, <3>1, FS_EmptySet
    <2>2. ASSUME NEW k \in Nat, k < m, k \in V PROVE k + 1 \in V
      <3>1. k + 1 \in 0..m /\ k \in 0..m
        BY <1>1, <2>2
      <3>2. DOMAIN g[k + 1] = DOMAIN g[k] \cup Free(L, src, g[k])
        BY <1>2, <2>2
      <3>3. CASE Free(L, src, g[k]) = {}
        <4>1. DOMAIN g[k + 1] = DOMAIN g[k]
          BY <3>2, <3>3
        <4>2. Free(L, src, g[k + 1]) = Free(L, src, g[k])
          BY <4>1 DEF Free
        <4> QED BY <3>1, <3>3, <4>2
      <3>4. CASE Free(L, src, g[k]) # {}
        <4>1. PICK t : t \in Free(L, src, g[k])
          BY <3>4
        <4>2. t \notin DOMAIN g[k] /\ t \in DOMAIN g[k + 1]
          BY <3>2, <4>1 DEF Free
        <4>3. IsFiniteSet(DOMAIN g[k]) /\ IsFiniteSet(DOMAIN g[k + 1])
          BY <1>3, <1>4, <3>1, FS_Subset
        <4>4. Cardinality(DOMAIN g[k] \cup {t}) = Cardinality(DOMAIN g[k]) + 1
          BY <4>2, <4>3, FS_AddElement
        <4>5. DOMAIN g[k] \cup {t} \in SUBSET DOMAIN g[k + 1]
          BY <3>2, <4>2
        <4>6. Cardinality(DOMAIN g[k]) + 1 <= Cardinality(DOMAIN g[k + 1])
          BY <4>3, <4>4, <4>5, FS_Subset
        <4>7. Cardinality(DOMAIN g[k]) \in Nat /\ Cardinality(DOMAIN g[k + 1]) \in Nat
          BY <4>3, FS_CardinalityType
        <4> QED BY <2>2, <3>1, <3>4, <4>6, <4>7
      <3> QED BY <3>3, <3>4
    <2> HIDE DEF V
    <2>3. m \in V
      BY <1>1, <2>1, <2>2, CountUp
    <2>4. CASE Cardinality(DOMAIN g[m]) >= m
      <3>1. DOMAIN g[m] \in SUBSET DOMAIN src
        BY <1>1, <1>4
      <3>2. Cardinality(DOMAIN g[m]) \in Nat /\ Cardinality(DOMAIN g[m]) <= m
        BY <1>3, <3>1, FS_Subset, FS_CardinalityType
      <3>3. DOMAIN g[m] = DOMAIN src
        BY <1>1, <1>3, <2>4, <3>1, <3>2, FS_Subset
      <3> QED BY <3>3 DEF Free
    <2> QED BY <2>3, <2>4 DEF V
  <1> QED BY <1>1, <1>5, <1>6, <1>7

\* Figures that are stored as they are change no ledger.
LEMMA NothingDiffers ==
    ASSUME NEW L, Draft(L), L = [t \in DOMAIN L |-> L[t]], NEW figs, DOMAIN figs \subseteq DOMAIN L,
           \A t \in DOMAIN figs : ~Differs(L[t], figs[t])
    PROVE  WithCarriedCost(L, figs) = L
  <1> DEFINE rows == Costed(L, figs)
  <1>1. rows = [t \in DOMAIN figs |->
                   [L[t] EXCEPT !.price = Stored(figs[t].cost), !.est = figs[t].est]]
    BY DEF Costed
  <1>2. ASSUME NEW t \in DOMAIN figs PROVE rows[t] = L[t]
    <2>1. Stored(figs[t].cost) = L[t].price /\ figs[t].est = L[t].est
      BY DEF Differs
    <2>2. rows[t] = [L[t] EXCEPT !.price = L[t].price, !.est = L[t].est]
      BY <1>1, <2>1
    <2>3. L[t] \in Wide
      BY DEF Draft
    <2> QED BY <2>2, <2>3 DEF Wide
  <1>3. DOMAIN rows = DOMAIN figs
    BY <1>1
  <1> HIDE DEF rows
  <1>4. With(rows, L) = [t \in DOMAIN rows \cup DOMAIN L |-> IF t \in DOMAIN rows THEN rows[t] ELSE L[t]]
    BY WithIs
  <1>5. DOMAIN rows \cup DOMAIN L = DOMAIN L
    BY <1>3
  <1>6. \A t \in DOMAIN L : (IF t \in DOMAIN rows THEN rows[t] ELSE L[t]) = L[t]
    BY <1>2, <1>3
  <1>7. With(rows, L) = [t \in DOMAIN L |-> L[t]]
    BY <1>4, <1>5, <1>6
  <1> QED BY <1>7 DEF WithCarriedCost, rows

\* When a resolution finds every figure as it is stored, each leg was read off
\* the ledger as it is, after every leg that feeds it, or waits for another
\* that waits.
LEMMA SettledFigures ==
    ASSUME NEW L, Draft(L), L = [t \in DOMAIN L |-> L[t]], NEW src, DOMAIN src \subseteq DOMAIN L,
           NEW figs, figs = ResolveCarriedCosts(L, src),
           \A t \in DOMAIN src : ~Differs(L[t], figs[t]),
           NEW t \in DOMAIN src
    PROVE  \/ \E P \in SUBSET DOMAIN src : t \in P /\ \A u \in P : \E w \in P : Feeds(L, src, w, u)
           \/ \E W \in SUBSET DOMAIN src : /\ \A u \in W : ~Feeds(L, src, u, t)
                                          /\ figs[t] = CarriedCost(L, src, t, W)
  <1>1. PICK m : m = Cardinality(DOMAIN src)
    OBVIOUS
  <1>2. PICK g : g = Settling(L, src)
    OBVIOUS
  <1>3. /\ m \in Nat
        /\ \A n \in Nat : n < m => g[n + 1] = SettleFree(L, src, g[n])
        /\ \A n \in 0..m : g[n] \in Partial(DOMAIN src)
    BY <1>1, <1>2, SettlingSteps
  <1>4. /\ \A n \in 0..m : \A u \in DOMAIN g[n] : u \in DOMAIN g[m] /\ g[m][u] = g[n][u]
        /\ \A u \in DOMAIN g[m] : \E n \in Nat : n < m /\ u \in Free(L, src, g[n])
        /\ Free(L, src, g[m]) = {}
    BY <1>1, <1>2, SettlingGrows
  <1>5. \A n \in 0..m : DOMAIN g[n] \subseteq DOMAIN src
    BY <1>3, PartialIs
  <1> DEFINE kept == [u \in DOMAIN src |-> Kept(L, u)]
  <1>6. figs = With(g[m], kept)
    BY <1>1, <1>2, ResolvedIs
  <1>7. DOMAIN kept = DOMAIN src
    OBVIOUS
  <1> HIDE DEF kept
  <1>8. \A u \in DOMAIN g[m] : figs[u] = g[m][u]
    BY <1>6, WithIs
  <1>9. CASE t \in DOMAIN g[m]
    <2>1. PICK n \in Nat : n < m /\ t \in Free(L, src, g[n])
      BY <1>4, <1>9
    <2>2. n \in 0..m /\ n + 1 \in 0..m
      BY <1>3, <2>1
    <2>3. \A u \in DOMAIN g[n] : figs[u] = g[n][u] /\ u \in DOMAIN src
      BY <1>4, <1>5, <1>8, <2>2
    <2>4. WithCarriedCost(L, g[n]) = L
      <3>1. DOMAIN g[n] \subseteq DOMAIN L /\ \A u \in DOMAIN g[n] : ~Differs(L[u], g[n][u])
        BY <2>3
      <3> QED BY <3>1, NothingDiffers
    <2> DEFINE W == DOMAIN src \ DOMAIN g[n]
    <2>5. /\ t \in DOMAIN g[n + 1]
          /\ g[n + 1][t] = CarriedCost(WithCarriedCost(L, g[n]), src, t, W)
      <3>1. PICK h : h = g[n]
        OBVIOUS
      <3>2. g[n + 1] = SettleFree(L, src, h)
        BY <1>3, <2>1, <3>1
      <3>3. SettleFree(L, src, h) =
                [u \in DOMAIN h \cup Free(L, src, h) |->
                    IF u \in DOMAIN h THEN h[u]
                    ELSE CarriedCost(WithCarriedCost(L, h), src, u, DOMAIN src \ DOMAIN h)]
        BY SettleFreeIs
      <3>4. t \notin DOMAIN h
        BY <2>1, <3>1 DEF Free
      <3> QED BY <2>1, <3>1, <3>2, <3>3, <3>4
    <2>6. figs[t] = CarriedCost(L, src, t, W)
      BY <1>4, <1>8, <2>2, <2>4, <2>5
    <2>7. \A u \in W : ~Feeds(L, src, u, t)
      BY <2>1 DEF Free
    <2>8. W \in SUBSET DOMAIN src
      OBVIOUS
    <2> HIDE DEF W
    <2> QED BY <2>6, <2>7, <2>8
  <1>10. CASE t \notin DOMAIN g[m]
    <2> DEFINE P == DOMAIN src \ DOMAIN g[m]
    <2>1. \A u \in P : \E w \in P : Feeds(L, src, w, u)
      BY <1>4 DEF Free
    <2>2. t \in P /\ P \in SUBSET DOMAIN src
      BY <1>10
    <2> HIDE DEF P
    <2> QED BY <2>1, <2>2
  <1> QED BY <1>9, <1>10

\* Rows that cannot feed a leg change nothing of what its source held.
LEMMA NotFed ==
    ASSUME NEW L, Draft(L), NEW src, NEW t, NEW W, \A u \in W : ~Feeds(L, src, u, t)
    PROVE  SourceBefore(L, src, t, W) = SourceBefore(L, src, t, {})
  <1>1. PICK p : p = L[src[t]].pos
    OBVIOUS
  <1>2. DOMAIN At(L, p) = {u \in DOMAIN L : L[u].pos = p}
    BY AtIs
  <1>3. Held(L, src, t, W) = Held(L, src, t, {})
    BY <1>1, <1>2 DEF Held, Feeds
  <1> QED BY <1>3, SourceBeforeIs

-----------------------------------------------------------------------------
(* What a plan that rests has read *)

\* Every credit carried from a dirty position that waits for none of its own
\* kind holds the average its source had, and its marker.
LEMMA TransfersRest ==
    ASSUME NEW L, Draft(L), L = [t \in DOMAIN L |-> L[t]], NEW dirty, Rests(L, dirty),
           NEW all, all = Sources(L, DOMAIN L),
           NEW t \in Carriers(L, DOMAIN all) \ Blocked(L, all, dirty), L[all[t]].pos \in dirty,
           NEW state, state = SourceBefore(L, all, t, {}), Carriable(L, all, t, state)
    PROVE  L[t].price = Stored(state.avg) /\ L[t].est = state.est
  <1> DEFINE fed == Fed(L, all, dirty)
  <1>1. t \in DOMAIN all /\ t \in fed
    BY DEF Carriers, Fed
  <1>2. all[t] \in DOMAIN L /\ L[all[t]].type = "transfer_out"
    BY <1>1, SourceIn DEF Alike
  <1>3. DOMAIN TransferUpdates(L, dirty) = {}
    BY <1>2 DEF Rests, Fixed
  <1>4. PICK src : src = Only(all, fed)
    OBVIOUS
  <1>5. PICK figs : figs = ResolveCarriedCosts(L, src)
    OBVIOUS
  <1>6. DOMAIN src = fed
    BY <1>4, OnlyIs
  <1>7. fed \subseteq Carriers(L, DOMAIN all) /\ fed \subseteq DOMAIN L
    <2>1. DOMAIN all \subseteq DOMAIN L
      BY SourcesAre
    <2> QED BY <2>1 DEF Fed, Carriers
  <1>8. DOMAIN figs = fed
    BY <1>5, <1>6, <1>7, ResolvedTyped
  <1>9. TransferUpdates(L, dirty) = Recosted(L, figs)
    BY <1>4, <1>5 DEF TransferUpdates, Fed
  <1> HIDE DEF fed
  <1>10. \A u \in fed : ~Differs(L[u], figs[u])
    <2> DEFINE S == {u \in DOMAIN figs : Differs(L[u], figs[u])}
    <2>1. Recosted(L, figs) = Costed(L, Only(figs, S))
      BY DEF Recosted
    <2> HIDE DEF S
    <2>2. DOMAIN Only(figs, S) = S
      BY OnlyIs
    <2>3. DOMAIN Costed(L, Only(figs, S)) = S
      BY <2>2 DEF Costed
    <2> QED BY <1>3, <1>8, <1>9, <2>1, <2>3 DEF S
  <1>11. ASSUME NEW u \in fed
         PROVE  /\ src[u] = all[u]
                /\ \A w : Feeds(L, src, w, u) <=> Feeds(L, all, w, u)
                /\ \A W : SourceBefore(L, src, u, W) = SourceBefore(L, all, u, W)
    BY <1>4, <1>6, FedIs DEF fed
  <1>12. CASE \E P \in SUBSET DOMAIN src : t \in P /\ \A u \in P : \E w \in P : Feeds(L, src, w, u)
    <2>1. PICK P \in SUBSET DOMAIN src : t \in P /\ \A u \in P : \E w \in P : Feeds(L, src, w, u)
      BY <1>12
    <2>2. \A u \in P : \E w \in P : Feeds(L, all, w, u)
      BY <1>6, <1>11, <2>1
    <2>4. t \in Blocked(L, all, dirty)
      BY <1>6, <2>1, <2>2 DEF Blocked, fed, Fed
    <2> QED BY <2>4
  <1>13. CASE \E W \in SUBSET DOMAIN src : /\ \A u \in W : ~Feeds(L, src, u, t)
                                          /\ figs[t] = CarriedCost(L, src, t, W)
    <2>1. PICK W \in SUBSET DOMAIN src : /\ \A u \in W : ~Feeds(L, src, u, t)
                                         /\ figs[t] = CarriedCost(L, src, t, W)
      BY <1>13
    <2>2. SourceBefore(L, src, t, W) = SourceBefore(L, src, t, {})
      BY <2>1, NotFed
    <2>3. SourceBefore(L, src, t, W) = state /\ src[t] = all[t]
      BY <1>1, <1>11, <2>2
    <2>4. figs[t] = [cost |-> state.avg, est |-> state.est]
      BY <2>1, <2>3 DEF CarriedCost, Carriable
    <2>5. ~Differs(L[t], figs[t])
      BY <1>1, <1>10
    <2> QED BY <2>4, <2>5 DEF Differs
  <1> QED BY <1>1, <1>5, <1>6, <1>7, <1>10, <1>12, <1>13, SettledFigures

\* Every imported conversion out of a dirty position moves the cost its sources
\* had, and is marked when one of them was.
LEMMA ConversionsRest ==
    ASSUME NEW L, Draft(L), L = [t \in DOMAIN L |-> L[t]], NEW dirty, Rests(L, dirty),
           NEW g \in Groups, Rederivable(L, g),
           NEW x \in Legs(L, g, "conversion_out"), L[x].pos \in dirty
    PROVE  /\ \A t \in Legs(L, g, "conversion_out") : L[t].price = Cut(L, t)
           /\ \A t \in Legs(L, g, "conversion_in") :
                 L[t].est = \E u \in Legs(L, g, "conversion_out") : BeforeLeg(L, u).est
  <1> DEFINE outs == Legs(L, g, "conversion_out")
             ins == Legs(L, g, "conversion_in")
             est == \E u \in outs : BeforeLeg(L, u).est
             hit == {h \in Groups : /\ \E t \in Legs(L, h, "conversion_out") : L[t].pos \in dirty
                                    /\ Rederivable(L, h)}
             next == Table([h \in hit |-> RederiveConversionGroup(L, h)])
             S == UNION {DOMAIN next[h] : h \in hit}
             rows == [t \in S |-> next[L[t].grp][t]]
  <1>1. DOMAIN ConversionUpdates(L, dirty) = {}
    <2>1. x \in DOMAIN L /\ L[x].type = "conversion_out"
      BY DEF Legs
    <2> QED BY <2>1 DEF Rests, Fixed
  <1>2. ConversionUpdates(L, dirty) = Changed(L, rows)
    BY DEF ConversionUpdates
  <1>3. g \in hit
    OBVIOUS
  <1>4. next[g] = RederiveConversionGroup(L, g)
    <2>1. next = [h \in hit |-> RederiveConversionGroup(L, h)]
      BY TableIs
    <2> HIDE DEF hit, next
    <2> QED BY <1>3, <2>1
  <1> HIDE DEF hit, next, S
  <1>5. DOMAIN rows = S /\ \A t \in S : rows[t] = next[L[t].grp][t]
    OBVIOUS
  <1> HIDE DEF rows
  <1>6. \A t \in S : rows[t] = L[t]
    <2> DEFINE C == {t \in DOMAIN rows : rows[t] # L[t]}
    <2>1. Changed(L, rows) = Only(rows, C)
      BY DEF Changed
    <2> HIDE DEF C
    <2>2. DOMAIN Only(rows, C) = C
      BY OnlyIs
    <2> QED BY <1>1, <1>2, <1>5, <2>1, <2>2 DEF C
  <1> DEFINE fromOuts == [t \in outs |-> [L[t] EXCEPT !.price = Cut(L, t)]]
             shares == AllocateLike(L, ins, Total([t \in outs |-> Cut(L, t)], outs))
             fromIns == [t \in ins |-> [L[t] EXCEPT !.price = shares[t], !.est = est]]
  <1>7. RederiveConversionGroup(L, g) = With(fromOuts, fromIns)
    BY DEF RederiveConversionGroup
  <1>8. DOMAIN fromOuts = outs /\ DOMAIN fromIns = ins
    OBVIOUS
  <1>9. \A t \in outs : fromOuts[t] = [L[t] EXCEPT !.price = Cut(L, t)]
    OBVIOUS
  <1>10. \A t \in ins : fromIns[t] = [L[t] EXCEPT !.price = shares[t], !.est = est]
    OBVIOUS
  <1>11. outs \cap ins = {} /\ outs \subseteq DOMAIN L /\ ins \subseteq DOMAIN L
    BY DEF Legs
  <1>12. \A t \in outs \cup ins : L[t].grp = g
    BY DEF Legs
  <1> HIDE DEF outs, ins, fromOuts, fromIns, shares, est
  <1>13. /\ DOMAIN With(fromOuts, fromIns) = outs \cup ins
         /\ \A t \in outs \cup ins :
               With(fromOuts, fromIns)[t] = IF t \in outs THEN fromOuts[t] ELSE fromIns[t]
    BY <1>8, WithIs
  <1>14. outs \cup ins \subseteq S
    BY <1>3, <1>4, <1>7, <1>13 DEF S
  <1>15. \A t \in outs \cup ins : L[t] = IF t \in outs THEN fromOuts[t] ELSE fromIns[t]
    <2> SUFFICES ASSUME NEW t \in outs \cup ins PROVE L[t] = IF t \in outs THEN fromOuts[t] ELSE fromIns[t]
      OBVIOUS
    <2>1. L[t] = rows[t] /\ rows[t] = next[L[t].grp][t]
      BY <1>5, <1>6, <1>14
    <2>2. next[L[t].grp][t] = With(fromOuts, fromIns)[t]
      BY <1>4, <1>7, <1>12
    <2> QED BY <1>13, <2>1, <2>2
  <1>16. ASSUME NEW t \in outs PROVE L[t].price = Cut(L, t)
    <2>1. L[t] \in Wide
      BY <1>11 DEF Draft
    <2>2. L[t] = [L[t] EXCEPT !.price = Cut(L, t)]
      BY <1>9, <1>15
    <2> QED BY <2>1, <2>2 DEF Wide
  <1>17. ASSUME NEW t \in ins PROVE L[t].est = est
    <2>1. L[t] \in Wide
      BY <1>11 DEF Draft
    <2>2. L[t] = [L[t] EXCEPT !.price = shares[t], !.est = est]
      BY <1>10, <1>11, <1>15
    <2> QED BY <2>1, <2>2 DEF Wide
  <1> QED BY <1>16, <1>17 DEF outs, ins, est

-----------------------------------------------------------------------------
(* A user's write re-reads what it changed *)

\* Where the plan has not been, the stored ledger lists the same rows.
LEMMA Unmoved ==
    ASSUME NEW L, NEW K, NEW seeds, DifferWithin(L, K, seeds), NEW dirty, seeds \subseteq dirty,
           NEW F, DOMAIN F = DOMAIN L,
           \A t \in DOMAIN L : F[t].pos = L[t].pos /\ (F[t] = L[t] \/ L[t].pos \in dirty),
           NEW p, p \notin dirty
    PROVE  At(F, p) = At(K, p)
  <1>1. DifferWithin(F, K, dirty)
    <2>1. ASSUME NEW t \in DOMAIN F PROVE F[t].pos \in dirty \/ (t \in DOMAIN K /\ K[t] = F[t])
      BY DEF DifferWithin
    <2>2. ASSUME NEW t \in DOMAIN K PROVE K[t].pos \in dirty \/ (t \in DOMAIN F /\ F[t] = K[t])
      <3>1. K[t].pos \in seeds \/ (t \in DOMAIN L /\ L[t] = K[t])
        BY DEF DifferWithin
      <3> QED BY <3>1
    <2> QED BY <2>1, <2>2 DEF DifferWithin
  <1> QED BY <1>1, Elsewhere

LEMMA RestReread ==
    ASSUME NEW K, Draft(K), NEW F, Draft(F), F = [t \in DOMAIN F |-> F[t]],
           NEW dirty, Rests(F, dirty), \A p : p \notin dirty => At(F, p) = At(K, p)
    PROVE  TransfersReread(K, F, dirty) /\ ConversionsReread(K, F)
  <1>1. TransfersReread(K, F, dirty)
    <2> DEFINE before == Sources(K, DOMAIN K)
               after == Sources(F, DOMAIN F)
    <2>1. ASSUME NEW t \in Carriers(F, DOMAIN after) \ Blocked(F, after, dirty),
                 t \in DOMAIN before, before[t] = after[t],
                 SourceBefore(K, before, t, {}) # SourceBefore(F, after, t, {}),
                 Carriable(F, after, t, SourceBefore(F, after, t, {}))
          PROVE  /\ F[t].price = Stored(SourceBefore(F, after, t, {}).avg)
                 /\ F[t].est = SourceBefore(F, after, t, {}).est
      <3>1. PICK old : old = before
        OBVIOUS
      <3>2. PICK new : new = after
        OBVIOUS
      <3>3. PICK q : q = F[new[t]].pos
        OBVIOUS
      <3>4. t \in DOMAIN new
        BY <3>2 DEF Carriers
      <3>5. q \in dirty
        <4>1. CASE q \notin dirty
          <5>1. At(F, q) = At(K, q)
            BY <4>1
          <5>2. SourceBefore(F, new, t, {}) = SourceBefore(K, old, t, {})
            BY <2>1, <3>1, <3>2, <3>3, <3>4, <5>1, SameBefore
          <5> QED BY <2>1, <3>1, <3>2, <5>2
        <4> QED BY <4>1
      <3>6. PICK state : state = SourceBefore(F, new, t, {})
        OBVIOUS
      <3>7. F[t].price = Stored(state.avg) /\ F[t].est = state.est
        BY <2>1, <3>2, <3>3, <3>5, <3>6, TransfersRest
      <3> QED BY <3>2, <3>6, <3>7
    <2> QED BY <2>1 DEF TransfersReread
  <1>2. ConversionsReread(K, F)
    <2>1. ASSUME NEW g \in Groups, Rederivable(F, g),
                 Legs(F, g, "conversion_out") = Legs(K, g, "conversion_out"),
                 NEW t \in Legs(F, g, "conversion_out"), BeforeLeg(K, t) # BeforeLeg(F, t)
          PROVE  /\ \A u \in Legs(F, g, "conversion_out") : F[u].price = Cut(F, u)
                 /\ \A u \in Legs(F, g, "conversion_in") :
                       F[u].est = \E w \in Legs(F, g, "conversion_out") : BeforeLeg(F, w).est
      <3>1. PICK q : q = F[t].pos
        OBVIOUS
      <3>2. t \in DOMAIN F /\ t \in DOMAIN K
        BY <2>1 DEF Legs
      <3>3. q \in dirty
        <4>1. CASE q \notin dirty
          <5>1. At(F, q) = At(K, q)
            BY <4>1
          <5>2. \A u : /\ (u \in DOMAIN F /\ F[u].pos = q) <=> (u \in DOMAIN K /\ K[u].pos = q)
                       /\ u \in DOMAIN F /\ F[u].pos = q => F[u] = K[u]
            BY <5>1, SameRowsAt
          <5>3. K[t] = F[t] /\ K[t].pos = q
            BY <3>1, <3>2, <5>2
          <5>4. DOMAIN At(F, q) = {u \in DOMAIN F : F[u].pos = q}
            BY OnlyIs DEF At
          <5>5. \A u \in DOMAIN At(F, q) : Before(F, u, t) <=> Before(K, u, t)
            BY <5>2, <5>3, <5>4 DEF Before
          <5> DEFINE S == {u \in DOMAIN At(F, q) : Before(F, u, t)}
          <5>6. S = {u \in DOMAIN At(K, q) : Before(K, u, t)}
            BY <5>1, <5>5
          <5>7. Only(F, S) = Only(K, S)
            BY <5>2, <5>4, OnlyIs
          <5>8. BeforeLeg(F, t) = Fold(Only(F, S))
            BY <3>1 DEF BeforeLeg
          <5>9. BeforeLeg(K, t) = Fold(Only(K, S))
            BY <5>3, <5>6 DEF BeforeLeg
          <5> QED BY <2>1, <5>7, <5>8, <5>9
        <4> QED BY <4>1
      <3> QED BY <2>1, <3>1, <3>3, ConversionsRest
    <2> QED BY <2>1 DEF ConversionsReread
  <1> QED BY <1>1, <1>2

LEMMA SaveRowsReread ==
    ASSUME Booked, NEW L, Clean(L), NEW seeds \in SUBSET Positions,
           DifferWithin(L, ledger, seeds), SaveRows(L, seeds), last' = "row"
    PROVE  TransfersReread(ledger, ledger', touched') /\ ConversionsReread(ledger, ledger')
  <1>1. PICK plan : plan = PlanCarriedLegUpdates(L, seeds)
    OBVIOUS
  <1>2. PICK F : F = plan.ledger
    OBVIOUS
  <1>3. plan.quiet /\ ledger' = Rewritten(L, F) /\ touched' = plan.dirty
    BY <1>1, <1>2 DEF SaveRows, SavePlanned, Save, Throw
  <1>4. plan \in Plans(L) /\ Tracks(plan, L, seeds) /\ Rests(F, plan.dirty)
    BY <1>1, <1>2, <1>3, PlanRests
  <1>5. Draft(L) /\ Draft(ledger)
    BY DEF Booked, Clean
  <1>6. Draft(F) /\ Refigured(L, F) /\ DOMAIN F = DOMAIN L /\ F = [t \in DOMAIN F |-> F[t]]
    BY <1>2, <1>4, <1>5, PlansAre
  <1>7. Rewritten(L, F) = F
    <2>1. ASSUME NEW t \in DOMAIN L PROVE [L[t] EXCEPT !.price = F[t].price, !.est = F[t].est] = F[t]
      <3>1. L[t] \in Wide /\ F[t] \in Wide /\ SameRow(F[t], L[t])
        BY <1>5, <1>6 DEF Draft, Refigured
      <3> QED BY <3>1 DEF Wide, SameRow
    <2>2. Rewritten(L, F) = [t \in DOMAIN L |-> F[t]]
      BY <2>1 DEF Rewritten
    <2> QED BY <1>6, <2>2
  <1>8. \A t \in DOMAIN L : F[t].pos = L[t].pos /\ (F[t] = L[t] \/ L[t].pos \in plan.dirty)
    BY <1>2, <1>4, <1>6 DEF Tracks, Refigured, SameRow
  <1>9. ASSUME NEW p, p \notin plan.dirty PROVE At(F, p) = At(ledger, p)
    <2>1. seeds \subseteq plan.dirty
      BY <1>4 DEF Tracks
    <2>2. PICK dirty : dirty = plan.dirty
      OBVIOUS
    <2> QED BY <1>6, <1>8, <1>9, <2>1, <2>2, Unmoved
  <1>10. TransfersReread(ledger, F, plan.dirty) /\ ConversionsReread(ledger, F)
    <2>1. PICK dirty : dirty = plan.dirty
      OBVIOUS
    <2> QED BY <1>4, <1>5, <1>6, <1>9, <2>1, RestReread
  <1> QED BY <1>3, <1>7, <1>10

-----------------------------------------------------------------------------
(* Carries resolved again *)

LEMMA StoredBack == ASSUME NEW x \in Int PROVE Stored(Fine * x) = x
  <1>1. PICK f \in Nat \ {0} : f = Fine
    BY SizesAssumption
  <1>2. PICK d \in Nat \ {0} : d = 2 * f
    OBVIOUS
  <1>3. 2 * (f * x) + f = d * x + f
    BY <1>2
  <1>4. f < d
    BY <1>2
  <1>5. (d * x + f) \div d = x
    <2>1. PICK q \in Int : q = (d * x + f) \div d
      OBVIOUS
    <2>2. PICK p \in Int : p = d * x
      OBVIOUS
    <2>3. (p + f) \div d = q
      BY <2>1, <2>2
    <2>4. d * q <= p + f /\ p + f < d * q + d
      BY <2>3
    <2>5. q = x
      <3>1. q <= x
        <4>1. CASE q >= x + 1
          <5>1. d * q >= d * x + d
            BY <4>1
          <5> QED BY <1>4, <2>2, <2>4, <5>1
        <4> QED BY <4>1
      <3>2. q >= x
        <4>1. CASE x >= q + 1
          <5>1. d * x >= d * q + d
            BY <4>1
          <5> QED BY <2>2, <2>4, <5>1
        <4> QED BY <4>1
      <3> QED BY <3>1, <3>2
    <2> QED BY <2>1, <2>5
  <1> QED BY <1>1, <1>2, <1>3, <1>5 DEF Stored

\* A ledger of the same rows but for prices and markers, all of them there.
Repriced(L, K) == Draft(K) /\ DOMAIN K = DOMAIN L /\ Refigured(L, K)

LEMMA SameSources ==
    ASSUME NEW L, Draft(L), NEW K, Repriced(L, K)
    PROVE  Sources(K, DOMAIN K) = Sources(L, DOMAIN L)
  <1>1. DOMAIN K = DOMAIN L /\ \A t \in DOMAIN L : SameRow(K[t], L[t])
    BY DEF Repriced, Refigured
  <1>2. ASSUME NEW t \in DOMAIN L, NEW type
        PROVE  Alike(K, DOMAIN K, t, type) = Alike(L, DOMAIN L, t, type)
    BY <1>1 DEF Alike, SameRow
  <1>3. ASSUME NEW t \in DOMAIN L
        PROVE  /\ Paired(K, DOMAIN K, t) <=> Paired(L, DOMAIN L, t)
               /\ DebitOf(K, DOMAIN K, t) = DebitOf(L, DOMAIN L, t)
    <2>1. \A type : \A u \in Alike(L, DOMAIN L, t, type) :
             K[u].pos = L[u].pos /\ K[u].own = L[u].own
      BY <1>1 DEF Alike, SameRow
    <2>2. K[t].pos = L[t].pos
      BY <1>1 DEF SameRow
    <2>3. DebitOf(K, DOMAIN K, t) = DebitOf(L, DOMAIN L, t)
      BY <1>2 DEF DebitOf
    <2>4. PICK ins : ins = Alike(L, DOMAIN L, t, "transfer_in")
      OBVIOUS
    <2>5. PICK outs : outs = Alike(L, DOMAIN L, t, "transfer_out")
      OBVIOUS
    <2>6. Alike(K, DOMAIN K, t, "transfer_in") = ins /\ Alike(K, DOMAIN K, t, "transfer_out") = outs
      BY <1>2, <2>4, <2>5
    <2>7. \A u \in ins \cup outs : K[u].pos = L[u].pos /\ K[u].own = L[u].own
      BY <2>1, <2>4, <2>5
    <2>8. Paired(K, DOMAIN K, t) <=> Paired(L, DOMAIN L, t)
      BY <2>2, <2>4, <2>5, <2>6, <2>7 DEF Paired
    <2> QED BY <2>3, <2>8
  <1> DEFINE S == {u \in DOMAIN L : L[u].type = "transfer_in" /\ Paired(L, DOMAIN L, u)}
             R == {u \in DOMAIN K : K[u].type = "transfer_in" /\ Paired(K, DOMAIN K, u)}
  <1>4. S = R
    BY <1>1, <1>3 DEF SameRow
  <1>5. \A t \in S : DebitOf(K, DOMAIN K, t) = DebitOf(L, DOMAIN L, t)
    BY <1>3
  <1>6. /\ Sources(L, DOMAIN L) = [t \in S |-> DebitOf(L, DOMAIN L, t)]
        /\ Sources(K, DOMAIN K) = [t \in R |-> DebitOf(K, DOMAIN K, t)]
    BY SourcesIs
  <1> HIDE DEF S, R
  <1> QED BY <1>4, <1>5, <1>6

\* Prices and markers say nothing of which leg waits for which.
LEMMA SameLegs ==
    ASSUME NEW L, Draft(L), NEW K, Repriced(L, K), NEW src, DOMAIN src \subseteq DOMAIN L,
           \A t \in DOMAIN src : src[t] \in DOMAIN L
    PROVE  /\ \A t \in DOMAIN src : \A W : Held(K, src, t, W) = Held(L, src, t, W)
           /\ \A done : Free(K, src, done) = Free(L, src, done)
  <1>1. DOMAIN K = DOMAIN L /\ \A t \in DOMAIN L : SameRow(K[t], L[t])
    BY DEF Repriced, Refigured
  <1>2. ASSUME NEW u \in DOMAIN L, NEW w \in DOMAIN L PROVE Before(K, u, w) <=> Before(L, u, w)
    BY <1>1 DEF SameRow, Before
  <1>3. ASSUME NEW t \in DOMAIN src
        PROVE  /\ Siblings(K, src, t) = Siblings(L, src, t)
               /\ \A u \in DOMAIN src : Feeds(K, src, u, t) <=> Feeds(L, src, u, t)
               /\ \A W : Held(K, src, t, W) = Held(L, src, t, W)
    <2>1. PICK d \in DOMAIN L : d = src[t]
      OBVIOUS
    <2>2. t \in DOMAIN L /\ K[t].pos = L[t].pos /\ K[d].pos = L[d].pos
      BY <1>1, <2>1 DEF SameRow
    <2>3. Siblings(K, src, t) = Siblings(L, src, t)
      <3>1. \A u \in DOMAIN src : /\ K[u].pos = L[u].pos /\ K[u].day = L[u].day /\ K[u].qty = L[u].qty
        BY <1>1 DEF SameRow
      <3> QED BY <2>1, <2>2, <3>1 DEF Siblings
    <2>4. \A u \in DOMAIN src : Feeds(K, src, u, t) <=> Feeds(L, src, u, t)
      <3> SUFFICES ASSUME NEW u \in DOMAIN src PROVE Feeds(K, src, u, t) <=> Feeds(L, src, u, t)
        OBVIOUS
      <3>1. u \in DOMAIN L /\ K[u].pos = L[u].pos
        BY <1>1 DEF SameRow
      <3> QED BY <1>2, <2>1, <2>2, <2>3, <3>1 DEF Feeds
    <2>5. ASSUME NEW W PROVE Held(K, src, t, W) = Held(L, src, t, W)
      <3>1. PICK p : p = L[d].pos
        OBVIOUS
      <3>2. /\ DOMAIN At(L, p) = {u \in DOMAIN L : L[u].pos = p}
            /\ DOMAIN At(K, p) = {u \in DOMAIN K : K[u].pos = p}
        BY AtIs DEF Repriced
      <3>3. DOMAIN At(K, p) = DOMAIN At(L, p) /\ DOMAIN At(L, p) \subseteq DOMAIN L
        BY <1>1, <3>2 DEF SameRow
      <3>4. PICK R : R = DOMAIN At(L, p)
        OBVIOUS
      <3>5. PICK trip : trip = Siblings(L, src, t)
        OBVIOUS
      <3>6. Held(L, src, t, W) = {u \in R : /\ Before(L, u, d) /\ u \notin W \cup {t} \cup trip
                                           /\ \A s \in trip : u # src[s]}
        BY <2>1, <3>1, <3>4, <3>5 DEF Held
      <3>7. Held(K, src, t, W) = {u \in R : /\ Before(K, u, d) /\ u \notin W \cup {t} \cup trip
                                           /\ \A s \in trip : u # src[s]}
        BY <2>1, <2>2, <2>3, <3>1, <3>3, <3>4, <3>5 DEF Held
      <3>8. \A u \in R : Before(K, u, d) <=> Before(L, u, d)
        BY <1>2, <3>3, <3>4
      <3> QED BY <3>6, <3>7, <3>8
    <2> QED BY <2>3, <2>4, <2>5
  <1>4. ASSUME NEW done PROVE Free(K, src, done) = Free(L, src, done)
    <2>1. PICK pending : pending = DOMAIN src \ DOMAIN done
      OBVIOUS
    <2>2. /\ Free(K, src, done) = {t \in pending : ~\E u \in pending : Feeds(K, src, u, t)}
          /\ Free(L, src, done) = {t \in pending : ~\E u \in pending : Feeds(L, src, u, t)}
      BY <2>1 DEF Free
    <2> QED BY <1>3, <2>1, <2>2
  <1> QED BY <1>3, <1>4

\* A row at a carried figure.
Bearing(old, fig) == [old EXCEPT !.price = Stored(fig.cost), !.est = fig.est]

LEMMA CarriedIs ==
    ASSUME NEW L, Draft(L), NEW figs, DOMAIN figs \subseteq DOMAIN L,
           \A t \in DOMAIN figs : figs[t] \in Figures,
           NEW K, K = WithCarriedCost(L, figs)
    PROVE  /\ Repriced(L, K) /\ K = [t \in DOMAIN L |-> K[t]]
           /\ \A t \in DOMAIN figs : K[t] = Bearing(L[t], figs[t])
           /\ \A t \in DOMAIN L \ DOMAIN figs : K[t] = L[t]
  <1>1. PICK rows : rows = Costed(L, figs)
    OBVIOUS
  <1>2. DOMAIN rows = DOMAIN figs /\ Refigured(L, rows)
    BY <1>1, CostedIs
  <1>3. \A t \in DOMAIN figs : rows[t] = Bearing(L[t], figs[t])
    BY <1>1 DEF Costed, Bearing
  <1>4. K = With(rows, L)
    BY <1>1 DEF WithCarriedCost
  <1>5. /\ DOMAIN K = DOMAIN L /\ Draft(K) /\ Refigured(L, K)
        /\ \A t \in DOMAIN L : K[t] = IF t \in DOMAIN rows THEN rows[t] ELSE L[t]
    BY <1>2, <1>4, WithDraft
  <1>6. K = [t \in DOMAIN rows \cup DOMAIN L |-> IF t \in DOMAIN rows THEN rows[t] ELSE L[t]]
    BY <1>4, WithIs
  <1>7. K = [t \in DOMAIN L |-> K[t]]
    BY <1>5, <1>6
  <1> QED BY <1>2, <1>3, <1>5, <1>7 DEF Repriced

\* What a leg carries where the figures before it are the same and its own is
\* the one it carried.
LEMMA CarriedAgain ==
    ASSUME NEW L, Draft(L), NEW K, Repriced(L, K), NEW src, DOMAIN src \subseteq DOMAIN L,
           \A t \in DOMAIN src : src[t] \in DOMAIN L,
           NEW W, NEW t \in W, t \in DOMAIN src,
           \A u \in DOMAIN L \ W : K[u] = L[u],
           NEW fig, fig = CarriedCost(L, src, t, W),
           K[t] = Bearing(L[t], fig)
    PROVE  CarriedCost(K, src, t, W) = fig /\ (fig = Kept(L, t) => Kept(K, t) = fig)
  <1>1. L[t] \in Wide /\ DOMAIN K = DOMAIN L
    BY DEF Draft, Repriced
  <1>2. K[t].price = Stored(fig.cost) /\ K[t].est = fig.est
    BY <1>1 DEF Wide, Bearing
  <1>3. ASSUME fig = Kept(L, t) PROVE Kept(K, t) = fig
    <2>1. L[t].price \in Int
      BY <1>1 DEF Wide
    <2>2. fig.cost = Fine * L[t].price
      BY <1>3 DEF Kept
    <2>3. Stored(fig.cost) = L[t].price
      BY <2>1, <2>2, StoredBack
    <2> QED BY <1>2, <1>3, <2>3 DEF Kept
  <1>4. SourceBefore(K, src, t, W) = SourceBefore(L, src, t, W)
    <2>1. PICK H : H = Held(L, src, t, W)
      OBVIOUS
    <2>2. Held(K, src, t, W) = H
      BY <2>1, SameLegs
    <2>3. H \subseteq DOMAIN L \ W
      <3>1. PICK p : p = L[src[t]].pos
        OBVIOUS
      <3>2. DOMAIN At(L, p) \subseteq DOMAIN L
        BY AtIs
      <3> QED BY <2>1, <3>1, <3>2 DEF Held
    <2>4. Only(K, H) = Only(L, H)
      BY <2>3, OnlyIs
    <2> QED BY <2>1, <2>2, <2>4, SourceBeforeIs
  <1>5. K[src[t]].qty = L[src[t]].qty
    BY DEF Repriced, Refigured, SameRow
  <1>6. PICK state : state = SourceBefore(L, src, t, W)
    OBVIOUS
  <1>7. Carriable(K, src, t, state) <=> Carriable(L, src, t, state)
    BY <1>5 DEF Carriable
  <1>8. /\ fig = IF Carriable(L, src, t, state) THEN [cost |-> state.avg, est |-> state.est] ELSE Kept(L, t)
        /\ CarriedCost(K, src, t, W) =
              IF Carriable(K, src, t, state) THEN [cost |-> state.avg, est |-> state.est] ELSE Kept(K, t)
    BY <1>4, <1>6 DEF CarriedCost
  <1> QED BY <1>3, <1>7, <1>8

\* Once its figures are stored, a resolution finds the same ones.
LEMMA ResolvedAgain ==
    ASSUME NEW L, Draft(L), NEW src, DOMAIN src \subseteq DOMAIN L,
           \A t \in DOMAIN src : src[t] \in DOMAIN L,
           NEW figs, figs = ResolveCarriedCosts(L, src),
           NEW K, K = WithCarriedCost(L, figs)
    PROVE  \A t \in DOMAIN src : ResolveCarriedCosts(K, src)[t] = figs[t]
  <1>1. DOMAIN figs = DOMAIN src /\ \A t \in DOMAIN src : figs[t] \in Figures
    BY ResolvedTyped
  <1>2. /\ Repriced(L, K) /\ K = [t \in DOMAIN L |-> K[t]]
        /\ \A t \in DOMAIN src : K[t] = Bearing(L[t], figs[t])
        /\ \A t \in DOMAIN L \ DOMAIN src : K[t] = L[t]
    BY <1>1, CarriedIs
  <1>3. PICK m : m = Cardinality(DOMAIN src)
    OBVIOUS
  <1>4. PICK g : g = Settling(L, src)
    OBVIOUS
  <1>5. PICK h : h = Settling(K, src)
    OBVIOUS
  <1>6. Draft(K) /\ DOMAIN K = DOMAIN L
    BY <1>2 DEF Repriced
  <1>7. /\ m \in Nat /\ g[0] = <<>>
        /\ \A n \in Nat : n < m => g[n + 1] = SettleFree(L, src, g[n])
        /\ \A n \in 0..m : g[n] \in Partial(DOMAIN src)
    BY <1>3, <1>4, SettlingSteps
  <1>8. h[0] = <<>> /\ \A n \in Nat : n < m => h[n + 1] = SettleFree(K, src, h[n])
    BY <1>3, <1>5, <1>6, SettlingSteps
  <1>9. \A n \in 0..m : \A t \in DOMAIN g[n] : t \in DOMAIN g[m] /\ g[m][t] = g[n][t]
    BY <1>3, <1>4, SettlingGrows
  <1>10. figs = With(g[m], [t \in DOMAIN src |-> Kept(L, t)])
    BY <1>3, <1>4, ResolvedIs
  <1>11. \A t \in DOMAIN g[m] : figs[t] = g[m][t]
    BY <1>10, WithIs
  <1>12. ASSUME NEW n \in Nat, n < m PROVE SettleFree(K, src, g[n]) = SettleFree(L, src, g[n])
    <2>1. n \in 0..m /\ n + 1 \in 0..m
      BY <1>7, <1>12
    <2>2. PICK done : done = g[n]
      OBVIOUS
    <2>3. DOMAIN done \subseteq DOMAIN src /\ \A t \in DOMAIN done : done[t] \in Figures /\ done[t] = figs[t]
      <3>1. done \in Partial(DOMAIN src)
        BY <1>7, <2>1, <2>2
      <3>2. \A t \in DOMAIN done : done[t] = figs[t]
        BY <1>9, <1>11, <2>1, <2>2
      <3> QED BY <3>1, <3>2, PartialIs
    <2>4. PICK W : W = DOMAIN src \ DOMAIN done
      OBVIOUS
    <2>5. PICK now : now = WithCarriedCost(L, done)
      OBVIOUS
    <2>6. /\ Repriced(L, now)
          /\ \A t \in DOMAIN done : now[t] = Bearing(L[t], done[t])
          /\ \A t \in DOMAIN L \ DOMAIN done : now[t] = L[t]
      <3>1. DOMAIN done \subseteq DOMAIN L
        BY <2>3
      <3> QED BY <2>3, <2>5, <3>1, CarriedIs
    <2>7. WithCarriedCost(K, done) = K
      <3>1. DOMAIN done \subseteq DOMAIN K /\ \A t \in DOMAIN done : ~Differs(K[t], done[t])
        <4> SUFFICES ASSUME NEW t \in DOMAIN done PROVE t \in DOMAIN K /\ ~Differs(K[t], done[t])
          OBVIOUS
        <4>1. L[t] \in Wide /\ K[t] = Bearing(L[t], done[t])
          BY <1>2, <2>3 DEF Draft
        <4>2. K[t].price = Stored(done[t].cost) /\ K[t].est = done[t].est
          BY <4>1 DEF Wide, Bearing
        <4> QED BY <1>6, <2>3, <4>2 DEF Differs
      <3> QED BY <1>2, <1>6, <3>1, NothingDiffers
    <2>8. Repriced(now, K) /\ Draft(now) /\ DOMAIN now = DOMAIN L
      BY <1>2, <2>6 DEF Repriced, Refigured, SameRow
    <2>9. \A u \in DOMAIN now \ W : K[u] = now[u]
      <3> SUFFICES ASSUME NEW u \in DOMAIN L, u \notin W PROVE K[u] = now[u]
        BY <2>8
      <3>1. CASE u \in DOMAIN done
        BY <1>2, <2>3, <2>6, <3>1
      <3>2. CASE u \notin DOMAIN done
        BY <1>2, <2>4, <2>6, <3>2
      <3> QED BY <3>1, <3>2
    <2>10. PICK free : free = Free(L, src, done)
      OBVIOUS
    <2>11. Free(K, src, done) = free /\ free \subseteq W
      BY <1>2, <2>4, <2>10, SameLegs DEF Free
    <2>12. PICK f : f = SettleFree(L, src, done)
      OBVIOUS
    <2>13. f = [t \in DOMAIN done \cup free |->
                    IF t \in DOMAIN done THEN done[t] ELSE CarriedCost(now, src, t, W)]
      BY <2>4, <2>5, <2>10, <2>12, SettleFreeIs
    <2>14. SettleFree(K, src, done) = [t \in DOMAIN done \cup free |->
                    IF t \in DOMAIN done THEN done[t] ELSE CarriedCost(K, src, t, W)]
      BY <2>4, <2>7, <2>11, SettleFreeIs
    <2>15. ASSUME NEW t \in free PROVE CarriedCost(K, src, t, W) = CarriedCost(now, src, t, W)
      <3>1. t \in W /\ t \in DOMAIN src /\ t \in DOMAIN L /\ t \notin DOMAIN done
        BY <2>4, <2>11
      <3>2. figs[t] = CarriedCost(now, src, t, W)
        <4>1. f[t] = CarriedCost(now, src, t, W) /\ t \in DOMAIN f
          BY <2>13, <3>1
        <4>2. f = g[n + 1]
          BY <1>7, <1>12, <2>2, <2>12
        <4> QED BY <1>9, <1>11, <2>1, <4>1, <4>2
      <3>3. now[t] = L[t]
        BY <2>6, <3>1
      <3>4. K[t] = Bearing(now[t], figs[t])
        BY <1>2, <3>1, <3>3
      <3>5. DOMAIN src \subseteq DOMAIN now /\ \A u \in DOMAIN src : src[u] \in DOMAIN now
        BY <2>8
      <3> QED BY <2>8, <2>9, <3>1, <3>2, <3>4, <3>5, CarriedAgain
    <2> QED BY <2>2, <2>12, <2>13, <2>14, <2>15
  <1>13. h[m] = g[m]
    <2> DEFINE V == {n \in Nat : h[n] = g[n]}
    <2>1. 0 \in V
      BY <1>7, <1>8
    <2>2. ASSUME NEW n \in Nat, n < m, n \in V PROVE n + 1 \in V
      BY <1>7, <1>8, <1>12, <2>2
    <2> HIDE DEF V
    <2>3. m \in V
      BY <1>7, <2>1, <2>2, CountUp
    <2> QED BY <2>3 DEF V
  <1>14. ResolveCarriedCosts(K, src) = With(g[m], [t \in DOMAIN src |-> Kept(K, t)])
    BY <1>3, <1>5, <1>13, ResolvedIs
  <1>15. ASSUME NEW t \in DOMAIN src \ DOMAIN g[m] PROVE Kept(K, t) = Kept(L, t) /\ figs[t] = Kept(L, t)
    <2>1. figs[t] = Kept(L, t)
      <3>1. PICK kept : kept = [u \in DOMAIN src |-> Kept(L, u)]
        OBVIOUS
      <3>2. DOMAIN kept = DOMAIN src /\ kept[t] = Kept(L, t)
        BY <3>1
      <3> QED BY <1>10, <3>1, <3>2, WithIs
    <2>2. L[t] \in Wide /\ L[t].price \in Int
      BY DEF Draft, Wide
    <2>3. K[t] = Bearing(L[t], Kept(L, t))
      BY <1>2, <2>1
    <2>4. K[t].price = Stored(Fine * L[t].price) /\ K[t].est = L[t].est
      BY <2>2, <2>3 DEF Bearing, Kept, Wide
    <2>5. K[t].price = L[t].price
      BY <2>2, <2>4, StoredBack
    <2> QED BY <2>1, <2>4, <2>5 DEF Kept
  <1>16. ASSUME NEW t \in DOMAIN src PROVE ResolveCarriedCosts(K, src)[t] = figs[t]
    <2>1. PICK kept : kept = [u \in DOMAIN src |-> Kept(K, u)]
      OBVIOUS
    <2>2. DOMAIN kept = DOMAIN src /\ kept[t] = Kept(K, t)
      BY <2>1
    <2>3. With(g[m], kept)[t] = IF t \in DOMAIN g[m] THEN g[m][t] ELSE kept[t]
      BY <2>2, WithIs
    <2> QED BY <1>11, <1>14, <1>15, <2>1, <2>2, <2>3
  <1> QED BY <1>16

\* A figure that does not differ is stored as it is.
LEMMA RecostedAll ==
    ASSUME NEW L, Draft(L), NEW figs, DOMAIN figs \subseteq DOMAIN L,
           \A t \in DOMAIN figs : figs[t] \in Figures
    PROVE  With(Recosted(L, figs), L) = WithCarriedCost(L, figs)
  <1>1. PICK K : K = WithCarriedCost(L, figs)
    OBVIOUS
  <1>2. /\ K = [t \in DOMAIN L |-> K[t]]
        /\ \A t \in DOMAIN figs : K[t] = Bearing(L[t], figs[t])
        /\ \A t \in DOMAIN L \ DOMAIN figs : K[t] = L[t]
    BY <1>1, CarriedIs
  <1>3. PICK S : S = {t \in DOMAIN figs : Differs(L[t], figs[t])}
    OBVIOUS
  <1>4. PICK rows : rows = Recosted(L, figs)
    OBVIOUS
  <1>5. DOMAIN rows = S /\ \A t \in S : rows[t] = Bearing(L[t], figs[t])
    <2>1. DOMAIN Only(figs, S) = S /\ \A t \in S : Only(figs, S)[t] = figs[t]
      BY OnlyIs
    <2>2. rows = Costed(L, Only(figs, S))
      BY <1>3, <1>4 DEF Recosted
    <2> QED BY <2>1, <2>2 DEF Costed, Bearing
  <1>6. With(rows, L) = [t \in DOMAIN rows \cup DOMAIN L |-> IF t \in DOMAIN rows THEN rows[t] ELSE L[t]]
    BY WithIs
  <1>7. ASSUME NEW t \in DOMAIN L PROVE K[t] = IF t \in DOMAIN rows THEN rows[t] ELSE L[t]
    <2>1. CASE t \in S
      BY <1>2, <1>3, <1>5, <2>1
    <2>2. CASE t \in DOMAIN figs /\ t \notin S
      <3>1. Stored(figs[t].cost) = L[t].price /\ figs[t].est = L[t].est
        BY <1>3, <2>2 DEF Differs
      <3>2. L[t] \in Wide
        BY DEF Draft
      <3>3. Bearing(L[t], figs[t]) = L[t]
        BY <3>1, <3>2 DEF Bearing, Wide
      <3> QED BY <1>2, <1>5, <2>2, <3>3
    <2>3. CASE t \notin DOMAIN figs
      BY <1>2, <1>3, <1>5, <2>3
    <2> QED BY <2>1, <2>2, <2>3
  <1>8. DOMAIN rows \cup DOMAIN L = DOMAIN L
    BY <1>3, <1>5
  <1> QED BY <1>1, <1>2, <1>4, <1>6, <1>7, <1>8

\* A pass over the transfers leaves nothing for another over the same positions.
LEMMA TransfersSettle ==
    ASSUME NEW L, Draft(L), NEW dirty, NEW K, K = With(TransferUpdates(L, dirty), L)
    PROVE  DOMAIN TransferUpdates(K, dirty) = {}
  <1>1. PICK all : all = Sources(L, DOMAIN L)
    OBVIOUS
  <1>2. PICK fed : fed = Fed(L, all, dirty)
    OBVIOUS
  <1>3. PICK src : src = Only(all, fed)
    OBVIOUS
  <1>4. DOMAIN src = fed /\ \A t \in fed : src[t] = all[t]
    BY <1>3, OnlyIs
  <1>5. fed \subseteq DOMAIN all /\ DOMAIN all \subseteq DOMAIN L
    <2>1. DOMAIN all \subseteq DOMAIN L
      BY <1>1, SourcesAre
    <2> QED BY <1>2, <2>1 DEF Fed, Carriers
  <1>6. \A t \in DOMAIN all : all[t] \in DOMAIN L
    BY <1>1, SourceIn DEF Alike
  <1>7. PICK figs : figs = ResolveCarriedCosts(L, src)
    OBVIOUS
  <1>8. DOMAIN figs = fed /\ \A t \in fed : figs[t] \in Figures
    BY <1>4, <1>5, <1>7, ResolvedTyped
  <1>9. K = WithCarriedCost(L, figs)
    <2>1. TransferUpdates(L, dirty) = Recosted(L, figs)
      BY <1>1, <1>2, <1>3, <1>7 DEF TransferUpdates, Fed
    <2>2. DOMAIN figs \subseteq DOMAIN L
      BY <1>5, <1>8
    <2> QED BY <1>8, <2>1, <2>2, RecostedAll
  <1>10. Repriced(L, K) /\ \A t \in fed : K[t] = Bearing(L[t], figs[t])
    <2>1. DOMAIN figs \subseteq DOMAIN L
      BY <1>5, <1>8
    <2> QED BY <1>8, <1>9, <2>1, CarriedIs
  <1>11. Draft(K) /\ DOMAIN K = DOMAIN L /\ \A t \in DOMAIN L : K[t].own = L[t].own /\ K[t].pos = L[t].pos
    BY <1>10 DEF Repriced, Refigured, SameRow
  <1>12. Sources(K, DOMAIN K) = all
    BY <1>1, <1>10, SameSources
  <1>13. Fed(K, all, dirty) = fed
    BY <1>2, <1>5, <1>6, <1>11 DEF Fed, Carriers
  <1>14. PICK again : again = ResolveCarriedCosts(K, src)
    OBVIOUS
  <1>15. TransferUpdates(K, dirty) = Recosted(K, again)
    BY <1>3, <1>12, <1>13, <1>14 DEF TransferUpdates, Fed
  <1>16. DOMAIN again = fed /\ \A t \in fed : again[t] = figs[t]
    <2>1. DOMAIN src \subseteq DOMAIN L /\ \A t \in DOMAIN src : src[t] \in DOMAIN L
      BY <1>4, <1>5, <1>6
    <2>2. DOMAIN again = DOMAIN src
      BY <1>11, <1>14, <2>1, ResolvedTyped
    <2>3. \A t \in DOMAIN src : again[t] = figs[t]
      BY <1>7, <1>9, <1>14, <2>1, ResolvedAgain
    <2> QED BY <1>4, <2>2, <2>3
  <1>17. ASSUME NEW t \in fed PROVE ~Differs(K[t], again[t])
    <2>1. L[t] \in Wide /\ K[t] = Bearing(L[t], figs[t])
      BY <1>5, <1>10 DEF Draft
    <2>2. K[t].price = Stored(figs[t].cost) /\ K[t].est = figs[t].est
      BY <2>1 DEF Bearing, Wide
    <2> QED BY <1>16, <2>2 DEF Differs
  <1>18. PICK S : S = {t \in DOMAIN again : Differs(K[t], again[t])}
    OBVIOUS
  <1>19. S = {}
    BY <1>16, <1>17, <1>18
  <1>20. DOMAIN Costed(K, Only(again, S)) = S
    BY OnlyIs DEF Costed
  <1> QED BY <1>15, <1>18, <1>19, <1>20 DEF Recosted

-----------------------------------------------------------------------------
(* Rounds without a conversion to re-derive *)

\* A user's conversion is never re-derived.
LEMMA NoConversions ==
    ASSUME NEW L, UsersGroups(L), NEW dirty
    PROVE  DOMAIN ConversionUpdates(L, dirty) = {}
  <1>1. PICK hit : hit = {g \in Groups : /\ \E t \in Legs(L, g, "conversion_out") : L[t].pos \in dirty
                                         /\ Rederivable(L, g)}
    OBVIOUS
  <1>2. hit = {}
    <2> SUFFICES ASSUME NEW g \in Groups, NEW t \in Legs(L, g, "conversion_out"), Rederivable(L, g)
                 PROVE  FALSE
      BY <1>1
    <2>1. L[t].own # "user"
      BY DEF Rederivable
    <2>2. t \in DOMAIN L /\ L[t].grp = g /\ g # NoGroup
      BY NoGroupAssumption DEF Legs
    <2> QED BY <2>1, <2>2 DEF UsersGroups
  <1>3. PICK next : next = Table([g \in hit |-> RederiveConversionGroup(L, g)])
    OBVIOUS
  <1>4. PICK rows : rows = [t \in UNION {DOMAIN next[g] : g \in hit} |-> next[L[t].grp][t]]
    OBVIOUS
  <1>5. DOMAIN rows = {}
    BY <1>2, <1>4
  <1>6. ConversionUpdates(L, dirty) = Changed(L, rows)
    BY <1>1, <1>3, <1>4 DEF ConversionUpdates
  <1>7. DOMAIN Changed(L, rows) = {}
    BY <1>5, OnlyIs DEF Changed
  <1> QED BY <1>6, <1>7

LEMMA UsersGroupsKept ==
    ASSUME NEW L, UsersGroups(L), NEW K, Refigured(L, K)
    PROVE  UsersGroups(K)
  BY DEF UsersGroups, Refigured, SameRow

\* A round with no conversion to re-derive is a pass over the transfers.
LEMMA RoundIs ==
    ASSUME NEW L, Draft(L), UsersGroups(L), NEW s \in Plans(L), ~s.quiet,
           NEW rows, rows = TransferUpdates(s.ledger, s.dirty), NEW next, next = Round(s)
    PROVE  /\ next.ledger = With(rows, s.ledger)
           /\ next.dirty = s.dirty \cup PositionsOf(rows, DOMAIN rows)
           /\ next.quiet <=> DOMAIN rows = {}
  <1>1. PICK K : K = s.ledger
    OBVIOUS
  <1>2. PICK loud : loud = [s EXCEPT !.quiet = TRUE]
    OBVIOUS
  <1>3. PICK mid : mid = Replace(loud, rows)
    OBVIOUS
  <1>4. PICK M : M = mid.ledger
    OBVIOUS
  <1>5. PICK more : more = ConversionUpdates(M, mid.dirty)
    OBVIOUS
  <1>6. next = Replace(mid, more)
    BY <1>2, <1>3, <1>4, <1>5 DEF Round
  <1>7. loud \in Plans(L) /\ loud.ledger = K /\ loud.dirty = s.dirty /\ loud.quiet = TRUE
    BY <1>1, <1>2 DEF Plans
  <1>8. Draft(K) /\ AllBalanced(K)
    BY <1>1, PlansAre
  <1>9. Refigured(K, rows) /\ AllBalanced(With(rows, K))
    BY <1>1, <1>8, TransferUpdatesAre, TransfersBalance
  <1>10. mid \in Plans(L)
    BY <1>3, <1>7, <1>9, ReplacePlans
  <1>11. Refigured(L, M) /\ M = [t \in DOMAIN M |-> M[t]]
    BY <1>4, <1>10, PlansAre
  <1>12. DOMAIN more = {}
    BY <1>5, <1>11, UsersGroupsKept, NoConversions
  <1>13. next.ledger = M /\ next.dirty = mid.dirty
    BY <1>4, <1>6, <1>11, <1>12, ReplaceNone
  <1>14. next.quiet = (mid.quiet /\ DOMAIN more = {})
    BY <1>6, ReplaceIs
  <1>15. /\ M = With(rows, K) /\ mid.dirty = s.dirty \cup PositionsOf(rows, DOMAIN rows)
         /\ mid.quiet = (TRUE /\ DOMAIN rows = {})
    BY <1>3, <1>4, <1>7, ReplaceIs
  <1> QED BY <1>1, <1>12, <1>13, <1>14, <1>15

\* The carried credits that sit in positions already dirty.
Seen(L, dirty) == {t \in Carriers(L, DOMAIN Sources(L, DOMAIN L)) : L[t].pos \in dirty}

\* The next round will find nothing to change.
Settled(s) == s.quiet \/ DOMAIN TransferUpdates(s.ledger, s.dirty) = {}

LEMMA RoundSettles ==
    ASSUME NEW L, Draft(L), UsersGroups(L), NEW s \in Plans(L), Settled(s)
    PROVE  Round(s).quiet
  <1>1. CASE s.quiet
    BY <1>1 DEF Round
  <1>2. CASE ~s.quiet
    BY <1>2, RoundIs DEF Settled
  <1> QED BY <1>1, <1>2

\* A round after which there is something to change has reached a credit that
\* no round had reached.
LEMMA RoundReaches ==
    ASSUME NEW L, Draft(L), UsersGroups(L), NEW s \in Plans(L), ~Settled(s),
           NEW next, next = Round(s), ~Settled(next)
    PROVE  /\ Seen(L, s.dirty) \subseteq Seen(L, next.dirty)
           /\ \E t \in Seen(L, next.dirty) : t \notin Seen(L, s.dirty)
  <1>1. PICK K : K = s.ledger
    OBVIOUS
  <1>2. PICK rows : rows = TransferUpdates(K, s.dirty)
    OBVIOUS
  <1>3. /\ next.ledger = With(rows, K)
        /\ next.dirty = s.dirty \cup PositionsOf(rows, DOMAIN rows)
    BY <1>1, <1>2, RoundIs DEF Settled
  <1>4. Draft(K) /\ DOMAIN K = DOMAIN L /\ Refigured(L, K)
    BY <1>1, PlansAre
  <1>5. next.dirty # s.dirty
    <2>1. DOMAIN TransferUpdates(next.ledger, s.dirty) = {}
      BY <1>2, <1>3, <1>4, TransfersSettle
    <2> QED BY <2>1 DEF Settled
  <1>6. PICK t \in DOMAIN rows : rows[t].pos \notin s.dirty
    BY <1>3, <1>5 DEF PositionsOf
  <1>7. PICK all : all = Sources(L, DOMAIN L)
    OBVIOUS
  <1>8. Sources(K, DOMAIN K) = all
    BY <1>4, <1>7, SameSources DEF Repriced
  <1>9. t \in Carriers(K, DOMAIN all) /\ t \in DOMAIN L
    <2>1. PICK fed : fed = Fed(K, all, s.dirty)
      OBVIOUS
    <2>2. PICK src : src = Only(all, fed)
      OBVIOUS
    <2>3. DOMAIN src = fed
      BY <2>2, OnlyIs
    <2>4. DOMAIN all \subseteq DOMAIN L
      BY <1>7, SourcesAre
    <2>5. fed \subseteq Carriers(K, DOMAIN all) /\ fed \subseteq DOMAIN L
      BY <2>1, <2>4 DEF Fed, Carriers
    <2>6. rows = Recosted(K, ResolveCarriedCosts(K, src))
      BY <1>2, <1>8, <2>1, <2>2 DEF TransferUpdates, Fed
    <2>7. DOMAIN src \subseteq DOMAIN K
      BY <1>4, <2>3, <2>5
    <2>8. DOMAIN rows \subseteq DOMAIN src
      BY <1>4, <2>6, <2>7, RecostedIs
    <2> QED BY <2>3, <2>5, <2>8
  <1>10. t \in Carriers(L, DOMAIN all)
    BY <1>4, <1>9 DEF Carriers, Refigured, SameRow
  <1>11. rows[t].pos = L[t].pos
    <2>1. Refigured(K, rows)
      BY <1>2, <1>4, TransferUpdatesAre
    <2>2. rows[t].pos = K[t].pos /\ K[t].pos = L[t].pos
      BY <1>4, <1>6, <1>9, <2>1 DEF Refigured, SameRow
    <2> QED BY <2>2
  <1>12. L[t].pos \in next.dirty
    BY <1>3, <1>6, <1>11 DEF PositionsOf
  <1> QED BY <1>3, <1>6, <1>7, <1>10, <1>11, <1>12 DEF Seen

\* There are fewer credits than rows, if there is any: one has a debit.
LEMMA SeenFewer ==
    ASSUME NEW L, Draft(L), NEW dirty, NEW k, k = Cardinality(DOMAIN L)
    PROVE  /\ IsFiniteSet(Seen(L, dirty)) /\ Cardinality(Seen(L, dirty)) \in Nat
           /\ Seen(L, dirty) # {} => Cardinality(Seen(L, dirty)) < k
  <1>1. PICK all : all = Sources(L, DOMAIN L)
    OBVIOUS
  <1>2. PICK S : S = Seen(L, dirty)
    OBVIOUS
  <1>3. S \subseteq DOMAIN all /\ DOMAIN all \subseteq {t \in DOMAIN L : L[t].type = "transfer_in"}
    BY <1>1, <1>2, SourcesAre DEF Seen, Carriers
  <1>4. S \in SUBSET DOMAIN L /\ IsFiniteSet(DOMAIN L)
    BY <1>3 DEF Draft
  <1>5. IsFiniteSet(S) /\ Cardinality(S) \in Nat /\ k \in Nat /\ Cardinality(S) <= k
    BY <1>4, FS_Subset, FS_CardinalityType
  <1>6. ASSUME NEW t \in S PROVE Cardinality(S) < k
    <2>1. all[t] \in DOMAIN L /\ L[all[t]].type = "transfer_out"
      BY <1>1, <1>3, SourceIn DEF Alike
    <2>2. S # DOMAIN L
      BY <1>3, <2>1
    <2>3. Cardinality(S) # k
      BY <1>4, <2>2, FS_Subset
    <2> QED BY <1>5, <2>3
  <1> QED BY <1>2, <1>5, <1>6

\* Every round but the last two reaches a credit more, and there is one round
\* more than there are rows.
LEMMA RoundsEnd ==
    ASSUME NEW L, Clean(L), UsersGroups(L), NEW seeds \in SUBSET Positions
    PROVE  RederiveCarriedLegs(L, seeds).quiet
  <1>1. Draft(L) /\ AllBalanced(L) /\ L = [t \in DOMAIN L |-> L[t]]
    BY DEF Clean
  <1>2. [ledger |-> L, dirty |-> seeds, quiet |-> FALSE] \in Plans(L)
    BY <1>1 DEF Plans, Drafts, Draft, Refigured, SameRow
  <1>3. PICK k : k = Cardinality(DOMAIN L)
    OBVIOUS
  <1>4. PICK g : g = Rounds(L, seeds)
    OBVIOUS
  <1>5. /\ k + 1 \in Nat
        /\ \A n \in Nat : n < k + 1 => g[n + 1] = Round(g[n])
        /\ \A n \in 0..(k + 1) : g[n] \in Plans(L)
    BY <1>1, <1>2, <1>3, <1>4, RoundPlans, RoundsIn
  <1>6. k \in Nat
    BY <1>1, <1>3, FS_CardinalityType DEF Draft
  <1> DEFINE V == {n \in 0..k : Settled(g[n]) \/ n <= Cardinality(Seen(L, g[n].dirty))}
  <1>7. 0 \in V
    BY <1>1, <1>6, SeenFewer
  <1>8. ASSUME NEW n \in Nat, n < k, n \in V PROVE n + 1 \in V
    <2>1. n + 1 \in 0..k /\ n \in 0..(k + 1) /\ n + 1 \in 0..(k + 1) /\ n < k + 1
      BY <1>6, <1>8
    <2>2. PICK s : s = g[n]
      OBVIOUS
    <2>3. PICK next : next = g[n + 1]
      OBVIOUS
    <2>4. s \in Plans(L) /\ next = Round(s)
      BY <1>5, <2>1, <2>2, <2>3
    <2>5. CASE Settled(s)
      <3>1. next.quiet
        BY <1>1, <2>4, <2>5, RoundSettles
      <3> QED BY <2>1, <2>3, <3>1 DEF Settled
    <2>6. CASE Settled(next)
      BY <2>1, <2>3, <2>6
    <2>7. CASE ~Settled(s) /\ ~Settled(next)
      <3>1. PICK A : A = Seen(L, s.dirty)
        OBVIOUS
      <3>2. PICK B : B = Seen(L, next.dirty)
        OBVIOUS
      <3>3. A \subseteq B /\ \E t \in B : t \notin A
        BY <1>1, <2>4, <2>7, <3>1, <3>2, RoundReaches
      <3>4. IsFiniteSet(A) /\ IsFiniteSet(B) /\ Cardinality(A) \in Nat /\ Cardinality(B) \in Nat
        BY <1>1, <1>3, <3>1, <3>2, SeenFewer
      <3>5. Cardinality(A) <= Cardinality(B) /\ Cardinality(A) # Cardinality(B)
        <4>1. A \in SUBSET B /\ A # B
          BY <3>3
        <4> QED BY <3>4, <4>1, FS_Subset
      <3>6. n <= Cardinality(A)
        BY <1>8, <2>2, <2>7, <3>1
      <3> QED BY <2>1, <2>3, <3>2, <3>4, <3>5, <3>6
    <2> QED BY <2>5, <2>6, <2>7
  <1> HIDE DEF V
  <1>9. k \in V
    BY <1>6, <1>7, <1>8, CountUp
  <1>10. Settled(g[k])
    <2>1. PICK s : s = g[k]
      OBVIOUS
    <2>2. s \in Plans(L)
      BY <1>5, <1>6, <2>1
    <2>3. CASE k <= Cardinality(Seen(L, s.dirty))
      <3>1. Seen(L, s.dirty) = {}
        BY <1>1, <1>3, <1>6, <2>3, SeenFewer
      <3>2. k = 0
        BY <1>6, <2>3, <3>1, FS_EmptySet
      <3>3. DOMAIN L = {}
        BY <1>1, <1>3, <3>2, FS_EmptySet DEF Draft
      <3>4. DOMAIN s.ledger = {} /\ Draft(s.ledger)
        BY <1>1, <2>2, <3>3, PlansAre
      <3>5. PICK K : K = s.ledger
        OBVIOUS
      <3>6. DOMAIN TransferUpdates(K, s.dirty) \subseteq DOMAIN K
        BY <3>4, <3>5, TransferUpdatesAre DEF Refigured
      <3> QED BY <2>1, <3>4, <3>5, <3>6 DEF Settled
    <2> QED BY <1>9, <2>1, <2>3 DEF V
  <1>11. g[k + 1].quiet
    <2>1. g[k + 1] = Round(g[k]) /\ g[k] \in Plans(L)
      BY <1>5, <1>6
    <2> QED BY <1>1, <1>10, <2>1, RoundSettles
  <1> QED BY <1>3, <1>4, <1>11, RederivedIs

LEMMA UsersRewrite ==
    ASSUME NEW L, UsersGroups(L), \A t \in DOMAIN L : L[t] \in Wide, NEW final
    PROVE  UsersGroups(Rewritten(L, final))
  <1>1. ASSUME NEW t \in DOMAIN L
        PROVE  /\ Rewritten(L, final)[t].grp = L[t].grp /\ Rewritten(L, final)[t].own = L[t].own
    BY DEF Rewritten, Wide
  <1> QED BY <1>1 DEF UsersGroups, Rewritten

LEMMA UsersEstimate ==
    ASSUME NEW L, UsersGroups(L), \A t \in DOMAIN L : L[t] \in Wide, NEW g
    PROVE  UsersGroups(WithSourceEstimate(L, g))
  <1>1. PICK est : est = \E t \in Legs(L, g, "conversion_out") :
                            LET s == BeforeLeg(L, t) IN s.ok /\ s.est
    OBVIOUS
  <1>2. WithSourceEstimate(L, g) =
           [t \in DOMAIN L |-> IF L[t].grp = g
                               THEN [L[t] EXCEPT !.est = L[t].type = "conversion_in" /\ est] ELSE L[t]]
    BY <1>1 DEF WithSourceEstimate
  <1>3. ASSUME NEW t \in DOMAIN L, NEW b
        PROVE  [L[t] EXCEPT !.est = b].grp = L[t].grp /\ [L[t] EXCEPT !.est = b].own = L[t].own
    BY DEF Wide
  <1> QED BY <1>2, <1>3 DEF UsersGroups

-----------------------------------------------------------------------------
(* The reading of what was changed *)

\* After every row a user creates, edits or deletes, whatever the ledger, each
\* carried credit and each imported conversion whose source the write changed
\* holds that source's figure of now and its marker, however many legs lie
\* between: a plan that rests has re-read every leg of every position it dirtied.
\* It leaves unread the credits of these positions that wait for one another,
\* and those that wait for them, and the theorem says nothing of these.
THEOREM CarriedAlwaysReread == Spec => CarriedReread
  <1>1. StoredInv /\ [Next]_vars =>
          [last' = "row" =>
             TransfersReread(ledger, ledger', touched') /\ ConversionsReread(ledger, ledger')]_vars
    <2> SUFFICES ASSUME StoredInv, Next, last' = "row"
                 PROVE  TransfersReread(ledger, ledger', touched') /\ ConversionsReread(ledger, ledger')
      OBVIOUS
    <2>1. Booked /\ Write
      BY DEF StoredInv, Next
    <2>2. PICK L, seeds : WritesRows(L, seeds)
      BY <2>1, RowWrites
    <2> QED BY <2>1, <2>2, SaveRowsReread DEF WritesRows
  <1> QED BY <1>1, InitStores, StepStores, PTL DEF Spec, CarriedReread

-----------------------------------------------------------------------------
(* Ledgers whose conversions are the user's *)

LEMMA PlanSettles ==
    ASSUME NEW L, Clean(L), UsersGroups(L), NEW seeds \in SUBSET Positions
    PROVE  PlanCarriedLegUpdates(L, seeds).quiet
  <1>1. RederiveCarriedLegs(L, seeds).quiet
    BY RoundsEnd
  <1> QED BY <1>1 DEF PlanCarriedLegUpdates

LEMMA RowWriteSettles ==
    ASSUME UsersGroups(ledger), NEW L, NEW seeds, WritesRows(L, seeds)
    PROVE  UsersGroups(ledger') /\ last' = "row"
  <1>1. Clean(L) /\ UsersGroups(L) /\ seeds \in SUBSET Positions /\ SaveRows(L, seeds)
    BY DEF WritesRows
  <1>2. PICK plan : plan = PlanCarriedLegUpdates(L, seeds)
    OBVIOUS
  <1>3. plan.quiet
    BY <1>1, <1>2, PlanSettles
  <1>4. ledger' = Rewritten(L, plan.ledger) /\ last' = "row"
    BY <1>1, <1>2, <1>3 DEF SaveRows, SavePlanned, Save
  <1>5. UsersGroups(Rewritten(L, plan.ledger))
    BY <1>1, UsersRewrite DEF Clean, Draft
  <1> QED BY <1>4, <1>5 DEF UsersGroups

\* A write of a conversion makes it the user's, and an import of rows brings no
\* conversion.
LEMMA OtherWritesKeep ==
    ASSUME Booked, UsersGroups(ledger), Write, last' \notin {"row", "threw"}
    PROVE  UsersGroups(ledger')
  <1>1. CASE \E id \in Ids, pos \in Positions, type \in {"buy", "sell", "transfer_in", "transfer_out"},
                day \in Days, qty \in Qtys :
                \E price \in IF type \in {"buy", "transfer_in"} THEN Prices ELSE {0} :
                   Create(id, pos, type, day, qty, price)
    BY <1>1 DEF Create, SaveRows, SavePlanned, Save, Throw
  <1>2. CASE \E t \in DOMAIN ledger : \E new \in Edits(ledger[t]) : Edit(t, new)
    BY <1>2 DEF Edit, SaveRows, SavePlanned, Save, Throw
  <1>3. CASE \E S \in Removals : Remove(S)
    BY <1>3 DEF Remove, SaveRows, SavePlanned, Save, Throw
  <1>4. CASE \E g \in Groups, id \in Ids, from, to \in Positions, day \in Days, out, in \in Qtys, cost \in Prices :
                CreateGroup(g, id, from, to, day, out, in, cost)
    <2>1. PICK g \in Groups, id \in Ids, from \in Positions, to \in Positions, day \in Days,
               out \in Qtys, in \in Qtys, cost \in Prices :
               CreateGroup(g, id, from, to, day, out, in, cost)
      BY <1>4
    <2> DEFINE leg(pos, type, qty) ==
                   [pos |-> pos, type |-> type, day |-> day, qty |-> qty, price |-> cost,
                    est |-> FALSE, own |-> "user", grp |-> g]
               legs == [t \in {id, id + 1} |-> IF t = id THEN leg(from, "conversion_out", out)
                                               ELSE leg(to, "conversion_in", in)]
               L == With(legs, ledger)
    <2>2. ledger' = WithSourceEstimate(L, g)
      BY <2>1 DEF CreateGroup, Save
    <2>3. \A t \in DOMAIN legs : legs[t] \in Wide /\ legs[t].own = "user"
      <3>1. leg(from, "conversion_out", out) \in Wide /\ leg(to, "conversion_in", in) \in Wide
        BY DataAssumption DEF Wide, Types
      <3> QED BY <3>1
    <2> HIDE DEF legs
    <2>4. \A t \in DOMAIN L : L[t] \in Wide
      BY <2>3, WithIs, LedgerIs
    <2>5. UsersGroups(L)
      BY <2>3, UsersAdd
    <2> HIDE DEF L
    <2>6. UsersGroups(WithSourceEstimate(L, g))
      BY <2>4, <2>5, UsersEstimate
    <2> QED BY <2>2, <2>6 DEF UsersGroups
  <1>5. CASE \E g \in Groups : \E qtys \in [GroupRows(g) -> Qtys], costs \in [GroupRows(g) -> Prices] :
                ReplaceGroup(g, qtys, costs)
    <2>1. PICK g \in Groups :
               \E qtys \in [GroupRows(g) -> Qtys], costs \in [GroupRows(g) -> Prices] :
                  ReplaceGroup(g, qtys, costs)
      BY <1>5
    <2>2. PICK qtys \in [GroupRows(g) -> Qtys], costs \in [GroupRows(g) -> Prices] :
               ReplaceGroup(g, qtys, costs)
      BY <2>1
    <2> DEFINE legs == [t \in GroupRows(g) |->
                           [ledger[t] EXCEPT !.qty = qtys[t], !.price = costs[t], !.own = "user"]]
               L == With(legs, ledger)
    <2>3. ledger' = WithSourceEstimate(L, g)
      BY <2>2 DEF ReplaceGroup, Save
    <2>4. ASSUME NEW t \in GroupRows(g) PROVE legs[t] \in Wide /\ legs[t].own = "user"
      <3>1. ledger[t] \in Wide
        BY LedgerIs DEF GroupRows
      <3>2. qtys[t] \in Qtys /\ costs[t] \in Prices /\ Prices \subseteq Int
        BY DataAssumption
      <3>3. legs[t] = [ledger[t] EXCEPT !.qty = qtys[t], !.price = costs[t], !.own = "user"]
        OBVIOUS
      <3> HIDE DEF legs
      <3> QED BY <3>1, <3>2, <3>3 DEF Wide
    <2>5. DOMAIN legs = GroupRows(g)
      OBVIOUS
    <2> HIDE DEF legs
    <2>6. \A t \in DOMAIN L : L[t] \in Wide
      BY <2>4, <2>5, WithIs, LedgerIs
    <2>7. UsersGroups(L)
      BY <2>4, <2>5, UsersAdd
    <2> HIDE DEF L
    <2>8. UsersGroups(WithSourceEstimate(L, g))
      BY <2>6, <2>7, UsersEstimate
    <2> QED BY <2>3, <2>8 DEF UsersGroups
  <1>6. CASE \E g \in Groups : DeleteGroup(g)
    BY <1>6 DEF DeleteGroup, Save, UsersGroups, Without
  <1>7. CASE \E id \in Ids, pos \in Positions, day \in Days, qty \in Qtys, price \in Prices, est \in BOOLEAN :
                ImportBuy(id, pos, day, qty, price, est)
    <2>1. PICK id \in Ids, pos \in Positions, day \in Days, qty \in Qtys, price \in Prices, est \in BOOLEAN :
               ImportBuy(id, pos, day, qty, price, est)
      BY <1>7
    <2> DEFINE row == [pos |-> pos, type |-> "buy", day |-> day, qty |-> qty, price |-> price,
                       est |-> est, own |-> "import", grp |-> NoGroup]
               rows == [t \in {id} |-> row]
    <2>2. ledger' = With(rows, ledger)
      BY <2>1 DEF ImportBuy, Save
    <2>3. \A t \in DOMAIN rows : rows[t].grp = NoGroup
      OBVIOUS
    <2> HIDE DEF rows
    <2>4. UsersGroups(With(rows, ledger))
      BY <2>3, UsersAdd
    <2> QED BY <2>2, <2>4 DEF UsersGroups
  <1>8. CASE \E batch \in SUBSET Transfers : ImportAgain(batch)
    <2>1. PICK batch : ImportAgain(batch)
      BY <1>8
    <2>2. ledger' = Rewritten(ledger, Carried(ledger, batch))
      BY <2>1 DEF ImportAgain, Save
    <2>3. UsersGroups(Rewritten(ledger, Carried(ledger, batch)))
      BY LedgerIs, UsersRewrite
    <2> QED BY <2>2, <2>3 DEF UsersGroups
  <1> QED BY <1>1, <1>2, <1>3, <1>4, <1>5, <1>6, <1>7, <1>8 DEF Write

\* Where every conversion is the user's, no write of a row ever fails for its
\* carried figures, however its transfers chain, cross or go in circles: a round
\* that repeats finds its figures as the last one stored them, and one that does
\* not has reached a credit more.  Only an imported conversion can keep a plan
\* from settling, and MCCarriedLoop has one that does.
THEOREM TransfersAlwaysSettle == Spec /\ UsersGroups(ledger) => []Settles
  <1> DEFINE Inv == StoredInv /\ UsersGroups(ledger) /\ Settles
  <1>1. Init /\ UsersGroups(ledger) => Inv
    BY InitStores DEF Init, Settles
  <1>2. Inv /\ [Next]_vars => Inv'
    <2> SUFFICES ASSUME Inv, [Next]_vars PROVE UsersGroups(ledger') /\ Settles'
      BY StepStores DEF UsersGroups
    <2>1. CASE Next
      <3>1. Booked /\ Write
        BY <2>1 DEF StoredInv, Next
      <3>2. CASE last' \in {"row", "threw"}
        <4>1. PICK L, seeds : WritesRows(L, seeds)
          BY <3>1, <3>2, RowWrites
        <4> QED BY <4>1, RowWriteSettles DEF Settles
      <3>3. CASE last' \notin {"row", "threw"}
        BY <3>1, <3>3, OtherWritesKeep DEF Settles
      <3> QED BY <3>2, <3>3
    <2>2. CASE UNCHANGED vars
      BY <2>2 DEF vars, UsersGroups, Settles
    <2> QED BY <2>1, <2>2
  <1>3. Inv => Settles
    OBVIOUS
  <1> QED BY <1>1, <1>2, <1>3, PTL DEF Spec

=============================================================================
