------------------------ MODULE OfficialClosesProofs ------------------------
(***************************************************************************)
(* Proofs about OfficialCloses, for any assets, days, supplies, limits and   *)
(* bounds: its types, that a run that ends by itself has asked for its       *)
(* rebuild, and that no missing close goes unexplained between runs.         *)
(***************************************************************************)
EXTENDS OfficialCloses, TLAPS, WellFoundedInduction

-----------------------------------------------------------------------------
(* Least and greatest days *)

LEMMA LeastOf ==
    ASSUME NEW S \in SUBSET Nat, S # {}
    PROVE  \E x \in S : \A y \in S : x <= y
  <1>1. PICK x \in S : \A y \in S : ~(<<y, x>> \in OpToRel(<, Nat))
    BY NatLessThanWellFounded, WFMin
  <1>2. \A y \in S : <<y, x>> \in OpToRel(<, Nat) <=> y < x
    BY DEF OpToRel
  <1>3. \A y \in S : ~(y < x)
    BY <1>1, <1>2, Zenon
  <1> QED
    BY <1>3

LEMMA MinIs ==
    ASSUME NEW S \in SUBSET Nat, S # {}
    PROVE  Min(S) \in S /\ \A y \in S : Min(S) <= y
  BY LeastOf DEF Min

LEMMA DaysAre ==
    /\ MaxDay \in Nat /\ TradingDays \in SUBSET Nat
    /\ \A d \in TradingDays : d \in Nat /\ 1 <= d /\ d <= MaxDay
  BY DaysAssumption

LEMMA LatestIs ==
    ASSUME NEW S \in SUBSET TradingDays
    PROVE  /\ LatestOf(S) \in 0..MaxDay
           /\ LatestOf(S) = 0 <=> S = {}
           /\ S # {} => LatestOf(S) \in S
           /\ \A y \in S : y <= LatestOf(S)
  <1> DEFINE T == {k \in 0..MaxDay : MaxDay - k \in S}
  <1>0. /\ MaxDay \in Nat /\ T \in SUBSET Nat
        /\ \A y \in S : y \in Nat /\ 1 <= y /\ y <= MaxDay
    BY DaysAre
  <1>1. CASE S = {}
    BY <1>0, <1>1 DEF LatestOf
  <1>2. CASE S # {}
    <2>1. PICK s : s \in S
      BY <1>2
    <2>2. MaxDay - s \in T
      BY <1>0, <2>1
    <2>3. PICK x \in T : \A y \in T : x <= y
      BY <1>0, <2>2, LeastOf
    <2>4. \A y \in S : MaxDay - y \in T
      BY <1>0
    <2>5. MaxDay - x \in S /\ \A y \in S : MaxDay - x >= y
      BY <1>0, <2>3, <2>4
    <2>6. Max(S) \in S /\ \A y \in S : Max(S) >= y
      BY <2>5 DEF Max
    <2>7. LatestOf(S) = Max(S)
      BY <1>2 DEF LatestOf
    <2> HIDE DEF T
    <2> QED
      BY <1>0, <1>2, <2>6, <2>7
  <1> QED
    BY <1>1, <1>2

LEMMA PairIs ==
    ASSUME NEW p \in Pairs
    PROVE  /\ p = <<p[1], p[2]>> /\ p[1] \in Assets /\ p[2] \in TradingDays
           /\ p[2] \in 1..MaxDay
  <1>1. p = <<p[1], p[2]>> /\ p[1] \in Assets /\ p[2] \in TradingDays
    BY DEF Pairs
  <1> QED
    BY <1>1, DaysAssumption

\* Something is dealt with whenever something is left.
LEMMA FirstIs ==
    ASSUME NEW P \in SUBSET Pairs, P # {}
    PROVE  First(P) \in P
  <1> DEFINE D == {p[2] : p \in P}
  <1>1. D \in SUBSET Nat /\ D # {}
    BY PairIs
  <1>2. PICK d \in D : \A e \in D : d <= e
    BY <1>1, LeastOf
  <1>3. PICK p \in P : p[2] = d
    BY <1>2
  <1>4. \A q \in P : p[2] <= q[2]
    BY <1>2, <1>3
  <1> QED
    BY <1>4 DEF First

-----------------------------------------------------------------------------
(* Type correctness *)

LEMMA IdleTyped == IdleSync \in Run /\ IdleSync.doomed = {}
  BY DaysAssumption DEF IdleSync, Run, Pcs, NoLeft, Unread, Verdicts

LEMMA NextPcIs == \A left : NextPc(left) \in Pcs
  BY DEF NextPc, Pcs

\* What a run, or a fill, makes of the pairs it wants.
LEMMA SortedIs ==
    ASSUME NEW W \in SUBSET Pairs, NEW U
    PROVE  /\ Sorted(W, U) \in [Verdicts -> SUBSET Pairs]
           /\ \A v \in Verdicts : Sorted(W, U)[v] = {p \in W : Verdict(p, U) = v}
  BY DEF Sorted

LEMMA DoneIs ==
    ASSUME sync \in Run, NEW v \in Verdicts, NEW p
    PROVE  /\ Done(v, p) \in [Verdicts -> SUBSET Pairs]
           /\ Done(v, p)[v] = sync.left[v] \ {p}
           /\ \A w \in Verdicts \ {v} : Done(v, p)[w] = sync.left[w]
  BY DEF Done, Run

LEMMA FirstOfTyped ==
    ASSUME TypeOK, NEW a \in Assets
    PROVE  FirstOf(a) \in 0..MaxDay + 1
  <1> DEFINE D == {d \in TradingDays : close[<<a, d>>] = "official"}
  <1>1. D \in SUBSET Nat /\ MaxDay \in Nat /\ \A d \in D : d <= MaxDay
    BY DaysAre
  <1>2. D # {} => Min(D) \in D
    BY <1>1, MinIs
  <1>3. EarliestOfficial(a) = IF D = {} THEN 0 ELSE Min(D)
    BY DEF EarliestOfficial
  <1> HIDE DEF D
  <1>4. EarliestOfficial(a) \in 0..MaxDay + 1
    <2>1. CASE D = {}
      BY <1>1, <1>3, <2>1
    <2>2. CASE D # {}
      <3>1. Min(D) \in Nat /\ Min(D) <= MaxDay
        BY <1>1, <1>2, <2>2
      <3> QED
        BY <1>1, <1>3, <2>2, <3>1
    <2> QED
      BY <2>1, <2>2
  <1> QED
    BY <1>4 DEF FirstOf, TypeOK, Run

LEMMA InitTyped == Init => TypeOK
  <1> SUFFICES ASSUME Init PROVE TypeOK
    OBVIOUS
  <1>0. day = Start /\ evening = FALSE /\ published = LatestOf(Former)
    BY DEF Init
  <1>1. published \in 0..day
    <2>1. Former \in SUBSET TradingDays /\ \A d \in Former : d < Start
      BY DEF Former
    <2>2. LatestOf(Former) = 0 \/ LatestOf(Former) \in Former
      BY <2>1, LatestIs
    <2>3. Start \in Nat /\ \A d \in Former : d \in Nat /\ d < Start
      BY <2>1, DaysAre, DaysAssumption
    <2>4. LatestOf(Former) \in 0..Start
      BY <2>2, <2>3
    <2> QED
      BY <1>0, <2>4
  <1>2. day \in Start..MaxDay
    <2>1. Start \in Nat /\ MaxDay \in Nat /\ Start <= MaxDay
      BY DaysAssumption
    <2> QED
      BY <1>0, <2>1
  <1>3. supply \in SUBSET Pairs /\ held \in SUBSET Assets
    BY SupplyAssumption DEF Init, Pairs
  <1>4. close \in [Pairs -> Sources] /\ gap \in [Pairs -> Reasons]
    BY DEF Init, Inherited, Sources, Reasons
  <1> QED
    BY <1>0, <1>1, <1>2, <1>3, <1>4, IdleTyped DEF Init, TypeOK

LEMMA WorldTyped ==
    ASSUME TypeOK, [Next]_vars
    PROVE  /\ (day \in Start..MaxDay /\ evening \in BOOLEAN /\ published \in 0..day)'
           /\ (supply \in SUBSET Pairs /\ held \in SUBSET Assets)'
  <1> DEFINE Typed == /\ day \in Start..MaxDay /\ evening \in BOOLEAN /\ published \in 0..day
                      /\ supply \in SUBSET Pairs /\ held \in SUBSET Assets
  <1>0. Typed
    BY DEF TypeOK
  <1>1. CASE Tick
    BY <1>0, <1>1, DaysAssumption DEF Tick
  <1>2. CASE Publish
    <2> DEFINE D == {d \in TradingDays : d > published}
    <2>1. PICK e \in TradingDays : published < e /\ e <= day
      BY <1>2 DEF Publish
    <2>2. D \in SUBSET Nat /\ D # {} /\ e \in D
      BY <2>1, DaysAre
    <2>3. Min(D) \in Nat /\ Min(D) <= e
      BY <2>2, MinIs
    <2> QED
      BY <1>0, <1>2, <2>1, <2>2, <2>3, DaysAssumption DEF Publish
  <1>3. CASE Trade
    BY <1>0, <1>3 DEF Trade
  <1>4. CASE UNCHANGED world
    BY <1>0, <1>4 DEF world
  <1> QED
    BY <1>1, <1>2, <1>3, <1>4
    DEF Next, Sync, vars, SyncPlan, SyncFound, SyncGap, SyncDelete, SyncUnavailable,
        SyncRebuild, ImportFetches, BackfillFetches, FillWrite, Fault

LEMMA UpsertTyped ==
    ASSUME TypeOK, NEW p \in Pairs, UpsertClosePrice(p)
    PROVE  close' \in [Pairs -> Sources] /\ gap' \in [Pairs -> Reasons]
  BY DEF TypeOK, UpsertClosePrice, Sources, Reasons

\* Each step of a run deals with a pair it had left, and only with one.
LEMMA RunDealsWith ==
    ASSUME TypeOK, NEW v \in Verdicts, sync.left[v] # {}
    PROVE  /\ First(sync.left[v]) \in sync.left[v]
           /\ First(sync.left[v]) \in Pairs
           /\ sync.left[v] \in SUBSET Pairs
  <1>1. sync.left[v] \in SUBSET Pairs
    BY DEF TypeOK, Run
  <1> QED
    BY <1>1, FirstIs

\* What a run is about to do is what it has left.
RunInv ==
    /\ sync.pc = "idle" => sync = IdleSync
    /\ sync.pc \notin {"idle", "delete"} => sync.pc = NextPc(sync.left)
    /\ sync.pc # "delete" => sync.doomed = {}
    /\ sync.pc = "delete" => sync.doomed # {}

LEMMA LeftToDo ==
    ASSUME RunInv
    PROVE  /\ sync.pc = "found" => sync.left["found"] # {}
           /\ sync.pc = "gap" => sync.left["not_supplied"] # {}
           /\ sync.pc = "unavailable" => sync.left["unavailable"] # {}
           /\ sync.pc = "rebuild" => \A v \in Verdicts : sync.left[v] = {}
           /\ sync.pc = "idle" => \A v \in Verdicts : sync.left[v] = {}
  BY DEF RunInv, NextPc, IdleSync, NoLeft, Verdicts

\* The updates a run undergoes.
LEMMA RunUpdated ==
    ASSUME sync \in Run, NEW left \in [Verdicts -> SUBSET Pairs], NEW c \in Pcs,
           NEW D \in SUBSET TradingDays, NEW E \in SUBSET Pairs,
           NEW F \in [Assets -> 0..MaxDay + 1]
    PROVE  /\ [sync EXCEPT !.left = left, !.pc = c] \in Run
           /\ [sync EXCEPT !.left = left, !.pc = c, !.changed = D] \in Run
           /\ [sync EXCEPT !.doomed = E, !.pc = c, !.changed = D] \in Run
           /\ [sync EXCEPT !.first = F, !.left = left, !.doomed = E, !.pc = c] \in Run
  BY DEF Run

\* The pair a step deals with, and what is left after it.
LEMMA FoundIs ==
    ASSUME TypeOK, RunInv, SyncFound
    PROVE  \E p \in sync.left["found"] :
             /\ p \in Pairs /\ UpsertClosePrice(p) /\ debt' = debt \cup {p[2]}
             /\ sync' = [sync EXCEPT !.left = Done("found", p), !.pc = NextPc(Done("found", p)),
                                     !.changed = @ \cup {p[2]}]
             /\ UNCHANGED <<world, fill, excused, spent>>
  <1>1. sync.left["found"] # {}
    BY LeftToDo DEF SyncFound
  <1>2. First(sync.left["found"]) \in sync.left["found"] /\ First(sync.left["found"]) \in Pairs
    BY <1>1, RunDealsWith DEF Verdicts
  <1> QED
    BY <1>2 DEF SyncFound

LEMMA GapIs ==
    ASSUME TypeOK, RunInv, SyncGap
    PROVE  \E p \in sync.left["not_supplied"] :
             /\ p \in Pairs
             /\ gap' = [gap EXCEPT ![p] = IF EverPricedBy(p) THEN "not_supplied" ELSE "none"]
             /\ excused' = IF EverPricedBy(p) THEN excused ELSE excused \cup {p}
             /\ sync' = [sync EXCEPT !.first[p[1]] = FirstOf(p[1]),
                            !.left = Done("not_supplied", p), !.doomed = sync.prior \cap {p},
                            !.pc = IF p \in sync.prior THEN "delete" ELSE NextPc(Done("not_supplied", p))]
             /\ UNCHANGED <<world, close, fill, debt, spent>>
  <1>1. sync.left["not_supplied"] # {}
    BY LeftToDo DEF SyncGap
  <1>2. First(sync.left["not_supplied"]) \in sync.left["not_supplied"] /\ First(sync.left["not_supplied"]) \in Pairs
    BY <1>1, RunDealsWith DEF Verdicts
  <1> QED
    BY <1>2 DEF SyncGap

LEMMA UnavailableIs ==
    ASSUME TypeOK, RunInv, SyncUnavailable
    PROVE  \E p \in sync.left["unavailable"] :
             /\ p \in Pairs
             /\ gap' = [gap EXCEPT ![p] = IF p \in sync.prior THEN @ ELSE "retryable"]
             /\ sync' = [sync EXCEPT !.left = Done("unavailable", p),
                                     !.pc = NextPc(Done("unavailable", p))]
             /\ UNCHANGED <<world, close, fill, debt, excused, spent>>
  <1>1. sync.left["unavailable"] # {}
    BY LeftToDo DEF SyncUnavailable
  <1>2. First(sync.left["unavailable"]) \in sync.left["unavailable"] /\ First(sync.left["unavailable"]) \in Pairs
    BY <1>1, RunDealsWith DEF Verdicts
  <1> QED
    BY <1>2 DEF SyncUnavailable

LEMMA WantedTyped ==
    ASSUME TypeOK
    PROVE  Wanted \in SUBSET Pairs
  <1>1. Due \in SUBSET TradingDays
    BY DEF Due
  <1>2. held = {} \/ Window \in SUBSET TradingDays
    BY <1>1 DEF Window, Kept, Missed
  <1>3. held \X Window \subseteq Pairs
    BY <1>2 DEF Pairs, TypeOK
  <1> QED
    BY <1>3 DEF Wanted

\* A new run: what it wants, sorted by what the files say.
LEMMA PlanIs ==
    ASSUME TypeOK, SyncPlan
    PROVE  /\ sync.pc = "idle" /\ UNCHANGED <<world, rows, fill, debt>>
           /\ excused' = excused \cup LeftOut
           /\ spent' = spent \/ spent' = [spent EXCEPT !["outage"] = @ + 1]
           /\ \E U : LET left == Sorted(Wanted, U) IN
                /\ sync' = [pc |-> NextPc(left), left |-> left,
                            prior |-> {p \in Pairs : close[p] = "other"},
                            first |-> Unread, doomed |-> {}, changed |-> {}]
                /\ left \in [Verdicts -> SUBSET Pairs]
                /\ \A v \in Verdicts : left[v] = {p \in Wanted : Verdict(p, U) = v}
  <1>1. PICK U : LET left == Sorted(Wanted, U) IN
                 sync' = [pc |-> NextPc(left), left |-> left,
                          prior |-> {p \in Pairs : close[p] = "other"},
                          first |-> Unread, doomed |-> {}, changed |-> {}]
    BY DEF SyncPlan
  <1>2. /\ Sorted(Wanted, U) \in [Verdicts -> SUBSET Pairs]
        /\ \A v \in Verdicts : Sorted(Wanted, U)[v] = {p \in Wanted : Verdict(p, U) = v}
    BY WantedTyped, SortedIs
  <1>3. /\ sync.pc = "idle" /\ UNCHANGED <<world, rows, fill, debt>>
        /\ excused' = excused \cup LeftOut
        /\ spent' = spent \/ spent' = [spent EXCEPT !["outage"] = @ + 1]
    BY DEF SyncPlan, Count
  <1> QED
    BY <1>1, <1>2, <1>3, Zenon

SyncOK == sync \in Run /\ sync.doomed \subseteq sync.prior /\ RunInv

LEMMA SyncStep ==
    ASSUME TypeOK, RunInv, [Next]_vars
    PROVE  SyncOK'
  <1>0. SyncOK
    BY DEF SyncOK, TypeOK
  <1>1. CASE SyncPlan
    <2>1. PICK left \in [Verdicts -> SUBSET Pairs] :
            sync' = [pc |-> NextPc(left), left |-> left,
                     prior |-> {p \in Pairs : close[p] = "other"},
                     first |-> Unread, doomed |-> {}, changed |-> {}]
      BY <1>1, PlanIs
    <2>2. NextPc(left) \in Pcs /\ NextPc(left) \notin {"idle", "delete"}
      BY DEF NextPc, Pcs
    <2>3. Unread \in [Assets -> 0..MaxDay + 1]
      BY DaysAre DEF Unread
    <2>4. sync' \in Run /\ sync'.doomed \subseteq sync'.prior
      BY <2>1, <2>2, <2>3 DEF Run
    <2>5. RunInv'
      BY <2>1, <2>2 DEF RunInv
    <2> QED
      BY <2>4, <2>5 DEF SyncOK
  <1>2. CASE SyncFound
    <2>1. PICK p \in sync.left["found"] :
            /\ p \in Pairs
            /\ sync' = [sync EXCEPT !.left = Done("found", p), !.pc = NextPc(Done("found", p)),
                                    !.changed = @ \cup {p[2]}]
      BY <1>2, FoundIs
    <2> DEFINE left == Done("found", p)
               D == sync.changed \cup {p[2]}
    <2>2. left \in [Verdicts -> SUBSET Pairs] /\ D \in SUBSET TradingDays
      BY <1>0, <2>1, DoneIs, PairIs DEF SyncOK, Run, Verdicts
    <2>3. NextPc(left) \in Pcs \ {"idle", "delete"}
      BY DEF NextPc, Pcs
    <2>4. sync' = [sync EXCEPT !.left = left, !.pc = NextPc(left), !.changed = D]
      BY <2>1
    <2> HIDE DEF left, D
    <2>5. sync' \in Run
      BY <1>0, <2>2, <2>3, <2>4, RunUpdated DEF SyncOK, Run
    <2>6. sync'.doomed = {} /\ sync'.pc = NextPc(left) /\ sync'.left = left
      BY <1>0, <1>2, <2>4 DEF SyncOK, Run, RunInv, SyncFound
    <2> QED
      BY <2>3, <2>5, <2>6 DEF SyncOK, RunInv
  <1>3. CASE SyncGap
    <2>1. PICK p \in sync.left["not_supplied"] :
            /\ p \in Pairs
            /\ sync' = [sync EXCEPT !.first[p[1]] = FirstOf(p[1]),
                            !.left = Done("not_supplied", p), !.doomed = sync.prior \cap {p},
                            !.pc = IF p \in sync.prior THEN "delete" ELSE NextPc(Done("not_supplied", p))]
      BY <1>3, GapIs
    <2> DEFINE left == Done("not_supplied", p)
               F == [sync.first EXCEPT ![p[1]] = FirstOf(p[1])]
               E == sync.prior \cap {p}
               c == IF p \in sync.prior THEN "delete" ELSE NextPc(left)
    <2>2. left \in [Verdicts -> SUBSET Pairs] /\ E \in SUBSET Pairs
      BY <1>0, <2>1, DoneIs DEF SyncOK, Run, Verdicts
    <2>3. F \in [Assets -> 0..MaxDay + 1]
      BY <1>0, <2>1, PairIs, FirstOfTyped DEF SyncOK, Run
    <2>4. c \in Pcs \ {"idle"} /\ (c = "delete" <=> p \in sync.prior)
          /\ (c # "delete" => c = NextPc(left))
      BY DEF NextPc, Pcs
    <2>5. sync' = [sync EXCEPT !.first = F, !.left = left, !.doomed = E, !.pc = c]
      BY <2>1
    <2>6. E # {} <=> p \in sync.prior
      OBVIOUS
    <2>7. E \subseteq sync.prior
      OBVIOUS
    <2> HIDE DEF left, E, F, c
    <2>8. sync' \in Run
      BY <1>0, <2>2, <2>3, <2>4, <2>5, RunUpdated DEF SyncOK
    <2>9. sync'.doomed = E /\ sync'.pc = c /\ sync'.left = left /\ sync'.prior = sync.prior
      BY <1>0, <2>5 DEF SyncOK, Run
    <2> QED
      BY <2>4, <2>6, <2>7, <2>8, <2>9 DEF SyncOK, RunInv
  <1>4. CASE SyncDelete
    <2>1. PICK p \in sync.doomed :
            sync' = [sync EXCEPT !.doomed = {}, !.pc = NextPc(sync.left),
                                 !.changed = @ \cup {p[2]}]
      BY <1>4 DEF SyncDelete
    <2> DEFINE D == sync.changed \cup {p[2]}
    <2>2. D \in SUBSET TradingDays
      BY <1>0, <2>1, PairIs DEF SyncOK, Run
    <2>3. NextPc(sync.left) \in Pcs \ {"idle", "delete"}
      BY DEF NextPc, Pcs
    <2>4. sync' = [sync EXCEPT !.doomed = {}, !.pc = NextPc(sync.left), !.changed = D]
      BY <2>1
    <2> HIDE DEF D
    <2>5. sync' \in Run
      BY <1>0, <2>2, <2>3, <2>4, RunUpdated DEF SyncOK, Run
    <2>6. sync'.doomed = {} /\ sync'.pc = NextPc(sync.left) /\ sync'.left = sync.left
      BY <1>0, <2>4 DEF SyncOK, Run
    <2> QED
      BY <2>3, <2>5, <2>6 DEF SyncOK, RunInv
  <1>5. CASE SyncUnavailable
    <2>1. PICK p \in sync.left["unavailable"] :
            sync' = [sync EXCEPT !.left = Done("unavailable", p), !.pc = NextPc(Done("unavailable", p))]
      BY <1>5, UnavailableIs
    <2> DEFINE left == Done("unavailable", p)
    <2>2. left \in [Verdicts -> SUBSET Pairs]
      BY <1>0, DoneIs DEF SyncOK, Verdicts
    <2>3. NextPc(left) \in Pcs \ {"idle", "delete"}
      BY DEF NextPc, Pcs
    <2>4. sync' = [sync EXCEPT !.left = left, !.pc = NextPc(left)]
      BY <2>1
    <2> HIDE DEF left
    <2>5. sync' \in Run
      BY <1>0, <2>2, <2>3, <2>4, RunUpdated DEF SyncOK, Run
    <2>6. sync'.doomed = {} /\ sync'.pc = NextPc(left) /\ sync'.left = left
      BY <1>0, <1>5, <2>4 DEF SyncOK, Run, RunInv, SyncUnavailable
    <2> QED
      BY <2>3, <2>5, <2>6 DEF SyncOK, RunInv
  <1>6. CASE sync' = IdleSync
    BY <1>6, IdleTyped DEF SyncOK, RunInv, IdleSync
  <1>7. CASE UNCHANGED sync
    BY <1>0, <1>7 DEF SyncOK, RunInv
  <1> QED
    BY <1>1, <1>2, <1>3, <1>4, <1>5, <1>6, <1>7
    DEF Next, Sync, vars, SyncRebuild, ImportFetches, BackfillFetches, FillWrite, Fault,
        Tick, Publish, Trade

LEMMA Counted ==
    ASSUME NEW e \in Events, NEW s \in [Events -> Nat], NEW t, t = [s EXCEPT ![e] = @ + 1]
    PROVE  t \in [Events -> Nat] /\ t[e] = s[e] + 1 /\ t[e] # 0
           /\ \A k \in Events \ {e} : t[k] = s[k]
  <1>1. s[e] \in Nat /\ s[e] + 1 \in Nat /\ s[e] + 1 # 0
    OBVIOUS
  <1>2. t[e] = s[e] + 1 /\ \A k \in Events \ {e} : t[k] = s[k]
    OBVIOUS
  <1> QED
    BY <1>1, <1>2

LEMMA SpentTyped ==
    ASSUME TypeOK, [Next]_vars
    PROVE  spent' \in [Events -> Nat]
  <1>0. spent \in [Events -> Nat] /\ {"fault", "fetch", "backfill", "trade", "outage"} = Events
    BY DEF TypeOK, Events
  <1>1. \A e \in Events : Count(e) => spent' \in [Events -> Nat]
    BY <1>0, Counted DEF Count
  <1>2. UNCHANGED spent \/ \E e \in Events : Count(e)
    BY <1>0 DEF Next, Sync, vars, SyncPlan, SyncFound, SyncGap, SyncDelete, SyncUnavailable,
        SyncRebuild, ImportFetches, BackfillFetches, FillWrite, Fault, Tick, Publish, Trade
  <1> QED
    BY <1>0, <1>1, <1>2

\* The pair a fill writes.
LEMMA FillIs ==
    ASSUME TypeOK, FillWrite
    PROVE  \E p \in fill :
             /\ p \in Pairs /\ UpsertClosePrice(p) /\ fill' = fill \ {p}
             /\ excused' = excused \cup {q \in Between(Known(close', gap') \cup Asked) : q[1] = p[1]}
             /\ UNCHANGED <<world, sync, debt, spent>>
  <1>1. First(fill) \in fill /\ First(fill) \in Pairs
    BY FirstIs DEF TypeOK, FillWrite
  <1> QED
    BY <1>1 DEF FillWrite

LEMMA LeftOutTyped == ASSUME TypeOK PROVE LeftOut \in SUBSET Pairs
  BY DEF LeftOut, Due, Pairs, TypeOK

LEMMA RowsTyped ==
    ASSUME TypeOK, RunInv, [Next]_vars
    PROVE  close' \in [Pairs -> Sources] /\ gap' \in [Pairs -> Reasons]
  <1>0. close \in [Pairs -> Sources] /\ gap \in [Pairs -> Reasons]
    BY DEF TypeOK
  <1>1. CASE SyncFound
    BY <1>1, FoundIs, UpsertTyped
  <1>2. CASE SyncGap
    BY <1>0, <1>2, GapIs DEF Reasons
  <1>3. CASE SyncDelete
    BY <1>0, <1>3 DEF SyncDelete, Sources
  <1>4. CASE SyncUnavailable
    BY <1>0, <1>4, UnavailableIs DEF Reasons
  <1>5. CASE FillWrite
    BY <1>5, FillIs, UpsertTyped
  <1>6. CASE UNCHANGED rows
    BY <1>0, <1>6 DEF rows
  <1> QED
    BY <1>1, <1>2, <1>3, <1>4, <1>5, <1>6
    DEF Next, Sync, vars, SyncPlan, SyncRebuild, ImportFetches, BackfillFetches, Fault,
        Tick, Publish, Trade, rows

LEMMA FillTyped ==
    ASSUME TypeOK, [Next]_vars
    PROVE  fill' \in SUBSET Pairs
  <1>0. fill \in SUBSET Pairs
    BY DEF TypeOK
  <1>1. \A W \in SUBSET Pairs : Fetches(W) => fill' \in SUBSET Pairs
    BY SortedIs DEF Fetches, Verdicts
  <1>2. CASE ImportFetches
    <2>1. PICK a \in Assets, W \in SUBSET TradingDays : Fetches({a} \X W)
      BY <1>2 DEF ImportFetches
    <2>2. {a} \X W \in SUBSET Pairs
      BY DEF Pairs
    <2> QED
      BY <1>1, <2>1, <2>2
  <1>3. CASE BackfillFetches
    BY <1>1, <1>3 DEF BackfillFetches
  <1>4. CASE FillWrite
    BY <1>0, <1>4 DEF FillWrite
  <1>5. CASE Fault
    BY <1>0, <1>5 DEF Fault
  <1>6. CASE UNCHANGED fill
    BY <1>0, <1>6
  <1> QED
    BY <1>2, <1>3, <1>4, <1>5, <1>6
    DEF Next, Sync, vars, SyncPlan, SyncFound, SyncGap, SyncDelete, SyncUnavailable,
        SyncRebuild, Tick, Publish, Trade

LEMMA DebtTyped ==
    ASSUME TypeOK, RunInv, [Next]_vars
    PROVE  debt' \in SUBSET TradingDays
  <1>0. debt \in SUBSET TradingDays
    BY DEF TypeOK
  <1>1. CASE SyncFound
    <2>1. PICK p \in Pairs : debt' = debt \cup {p[2]}
      BY <1>1, FoundIs
    <2> QED
      BY <1>0, <2>1, PairIs
  <1>2. CASE SyncDelete
    <2>1. PICK p \in sync.doomed : debt' = debt \cup {p[2]}
      BY <1>2 DEF SyncDelete
    <2>2. p \in Pairs
      BY <2>1 DEF TypeOK, Run
    <2> QED
      BY <1>0, <2>1, <2>2, PairIs
  <1>3. CASE SyncRebuild
    BY <1>0, <1>3 DEF SyncRebuild
  <1>4. CASE UNCHANGED debt
    BY <1>0, <1>4
  <1> QED
    BY <1>1, <1>2, <1>3, <1>4
    DEF Next, Sync, vars, SyncPlan, SyncGap, SyncUnavailable, ImportFetches, BackfillFetches,
        FillWrite, Fault, Tick, Publish, Trade

LEMMA ExcusedTyped ==
    ASSUME TypeOK, RunInv, [Next]_vars
    PROVE  excused' \in SUBSET Pairs
  <1>0. excused \in SUBSET Pairs
    BY DEF TypeOK
  <1>1. CASE SyncPlan
    BY <1>0, <1>1, PlanIs, LeftOutTyped
  <1>2. CASE SyncGap
    BY <1>0, <1>2, GapIs
  <1>3. CASE FillWrite
    <2>1. PICK p \in Pairs :
            excused' = excused \cup {q \in Between(Known(close', gap') \cup Asked) : q[1] = p[1]}
      BY <1>3, FillIs
    <2> QED
      BY <1>0, <2>1 DEF Between
  <1>4. CASE Fault
    BY <1>0, <1>4 DEF Fault, Holes
  <1>5. CASE Trade
    <2>1. \A a \in Assets : (({a} \X Due) \ Known(close, gap)) \in SUBSET Pairs
      BY DEF Due, Pairs
    <2> QED
      BY <1>0, <1>5, <2>1 DEF Trade
  <1>6. CASE UNCHANGED excused
    BY <1>0, <1>6
  <1> QED
    BY <1>1, <1>2, <1>3, <1>4, <1>5, <1>6
    DEF Next, Sync, vars, SyncFound, SyncDelete, SyncUnavailable, SyncRebuild, ImportFetches,
        BackfillFetches, Tick, Publish

TypeInv == TypeOK /\ RunInv

LEMMA TypeInit == Init => TypeInv
  <1>1. Init => RunInv
    BY DEF Init, RunInv, IdleSync
  <1> QED
    BY <1>1, InitTyped DEF TypeInv

LEMMA TypeStep == ASSUME TypeInv, [Next]_vars PROVE TypeInv'
  <1>1. TypeOK /\ RunInv
    BY DEF TypeInv
  <1>2. SyncOK'
    BY <1>1, SyncStep
  <1>3. TypeOK'
    BY <1>1, <1>2, WorldTyped, RowsTyped, FillTyped, DebtTyped, ExcusedTyped, SpentTyped
    DEF TypeOK, SyncOK
  <1> QED
    BY <1>2, <1>3 DEF TypeInv, SyncOK

\* Every state of the capture, the fills and the rows is of its type, and a run
\* deletes only closes it found when it planned (sync-official-closes.ts,
\* quote-repository.ts, close-gap-repository.ts).
THEOREM TypeCorrect == Spec => []TypeOK
  <1>1. TypeInv => TypeOK
    BY DEF TypeInv
  <1> QED
    BY <1>1, TypeInit, TypeStep, PTL DEF Spec

-----------------------------------------------------------------------------
(* The rebuild *)

\* Until a fault, what is owed a rebuild is what the run in progress changed.
DebtInv ==
    /\ spent["fault"] = 0 => debt \subseteq sync.changed
    /\ sync.pc = "idle" => sync.changed = {}

LEMMA DebtStep == ASSUME TypeInv, DebtInv, [Next]_vars PROVE DebtInv'
  <1>0. TypeOK /\ RunInv /\ sync \in Run /\ debt \in SUBSET TradingDays
    BY DEF TypeInv, TypeOK
  <1>1. CASE SyncPlan
    <2>1. spent'["fault"] = spent["fault"]
      BY <1>0, <1>1, PlanIs DEF TypeOK, Events
    <2>2. sync'.changed = {} /\ sync'.pc # "idle" /\ sync.changed = {} /\ debt' = debt
      BY <1>0, <1>1, PlanIs DEF NextPc, DebtInv
    <2> QED
      BY <2>1, <2>2 DEF DebtInv
  <1>2. CASE SyncFound
    <2>1. PICK p \in sync.left["found"] :
            /\ debt' = debt \cup {p[2]} /\ spent' = spent
            /\ sync' = [sync EXCEPT !.left = Done("found", p), !.pc = NextPc(Done("found", p)),
                                    !.changed = @ \cup {p[2]}]
      BY <1>0, <1>2, FoundIs
    <2>2. sync'.changed = sync.changed \cup {p[2]} /\ sync'.pc # "idle"
      BY <1>0, <2>1 DEF Run, NextPc
    <2> QED
      BY <2>1, <2>2 DEF DebtInv
  <1>3. CASE SyncGap
    <2>1. sync'.changed = sync.changed /\ sync'.pc # "idle" /\ debt' = debt /\ spent' = spent
      BY <1>0, <1>3, GapIs DEF Run, NextPc
    <2> QED
      BY <2>1 DEF DebtInv
  <1>4. CASE SyncDelete
    <2>1. PICK p \in sync.doomed :
            /\ debt' = debt \cup {p[2]} /\ spent' = spent
            /\ sync' = [sync EXCEPT !.doomed = {}, !.pc = NextPc(sync.left),
                                    !.changed = @ \cup {p[2]}]
      BY <1>4 DEF SyncDelete
    <2>2. sync'.changed = sync.changed \cup {p[2]} /\ sync'.pc # "idle"
      BY <1>0, <2>1 DEF Run, NextPc
    <2> QED
      BY <2>1, <2>2 DEF DebtInv
  <1>5. CASE SyncUnavailable
    <2>1. sync'.changed = sync.changed /\ sync'.pc # "idle" /\ debt' = debt /\ spent' = spent
      BY <1>0, <1>5, UnavailableIs DEF Run, NextPc
    <2> QED
      BY <2>1 DEF DebtInv
  <1>6. CASE SyncRebuild
    <2>1. sync'.changed = {} /\ spent' = spent
      BY <1>6 DEF SyncRebuild, IdleSync
    <2>2. debt \subseteq sync.changed => debt' = {}
      <3>1. CASE sync.changed = {}
        BY <1>6, <3>1 DEF SyncRebuild
      <3>2. CASE sync.changed # {}
        <4>1. sync.changed \in SUBSET Nat
          BY <1>0, DaysAre DEF Run
        <4>2. Min(sync.changed) \in Nat /\ \A d \in sync.changed : d \in Nat /\ Min(sync.changed) <= d
          BY <4>1, <3>2, MinIs
        <4>3. \A d \in sync.changed : ~(d < Min(sync.changed))
          BY <4>2
        <4> QED
          BY <1>6, <3>2, <4>3 DEF SyncRebuild
      <3> QED
        BY <3>1, <3>2
    <2> QED
      BY <2>1, <2>2 DEF DebtInv
  <1>7. CASE Fault
    <2>1. spent'["fault"] # 0
      BY <1>0, <1>7, Counted DEF Fault, Count, TypeOK, Events
    <2>2. sync'.pc = "idle" => sync'.changed = {}
      BY <1>7 DEF Fault, IdleSync, DebtInv
    <2> QED
      BY <2>1, <2>2 DEF DebtInv
  <1>8. CASE UNCHANGED <<sync, debt>> /\ ~Fault
    <2>1. spent'["fault"] = spent["fault"]
      <3>1. spent' = spent \/ \E e \in Events \ {"fault"} : Count(e)
        BY <1>8 DEF Next, Sync, vars, SyncPlan, SyncFound, SyncGap, SyncDelete, SyncUnavailable,
          SyncRebuild, ImportFetches, BackfillFetches, FillWrite, Tick, Publish, Trade, Events
      <3> QED
        BY <1>0, <3>1, Counted DEF Count, TypeOK, Events
    <2> QED
      BY <1>8, <2>1 DEF DebtInv
  <1> QED
    BY <1>1, <1>2, <1>3, <1>4, <1>5, <1>6, <1>7, <1>8
    DEF Next, Sync, vars, ImportFetches, BackfillFetches, FillWrite, Tick, Publish, Trade

\* A run that no fault cut off has asked for a rebuild from its earliest change
\* (handleQuotesCloseCapture and runCatchUp, on what syncOfficialCloses returns).
THEOREM RebuildAlwaysAsked == Spec => []RebuildAsked
  <1>1. Init => DebtInv
    BY DEF Init, DebtInv, IdleSync
  <1>2. DebtInv => RebuildAsked
    BY DEF DebtInv, RebuildAsked
  <1> QED
    BY <1>1, <1>2, TypeInit, TypeStep, DebtStep, PTL DEF Spec

-----------------------------------------------------------------------------
(* No silent hole: what the argument is about *)

Retryable == {p \in Pairs : gap[p] = "retryable"}
Gapped    == {p \in Pairs : gap[p] # "none"}
Unknown   == Pairs \ Known(close, gap)

\* The days known, the days closed and the days with a gap that may be filled,
\* once the sync in progress is done.
Seen      == Known(close, gap) \cup Asked
CloseSeen == Closed(close) \cup sync.left["found"]
GapSeen   == Retryable \cup sync.left["unavailable"]

\* A run deals with each pair once, and deletes none it has still to deal with.
AnswersSplit ==
    /\ \A v \in Verdicts, w \in Verdicts : v # w => sync.left[v] \cap sync.left[w] = {}
    /\ sync.doomed \cap Asked = {}

\* What was found is in the files, and what was not is not.
AnswersTrue ==
    /\ sync.left["found"] \subseteq supply /\ fill \subseteq supply
    /\ sync.left["not_supplied"] \cap supply = {} /\ sync.doomed \cap supply = {}

\* No close comes before the files of its day.
ClosesPublished ==
    \A p \in Closed(close) \cup sync.left["found"] \cup fill : p[2] <= published

\* Only a day that is due has a gap or is asked for.
GapsDue ==
    /\ \A p \in Gapped \cup Asked : p[2] <= LastDue
    /\ \A p \in Pairs : close[p] = "other" => p[2] < Start

\* The gap comes before the delete, and nothing takes it back in between.
DeletesExplained == \A p \in sync.doomed : p \in excused \/ gap[p] # "none"

\* A close the run found is there until the run deletes it.
PriorKept == \A p \in sync.prior \cap Asked : close[p] # "none"

AnswersInv == AnswersSplit /\ AnswersTrue /\ ClosesPublished /\ GapsDue /\ DeletesExplained /\ PriorKept

\* A day skipped between a day seen and a close seen is asked for, or excused.
SkipInv == \A q \in Unknown \ excused : Earlier(q, Seen) /\ Later(q, CloseSeen) => q \in Asked

\* Nobody asks for the days before a gap of an asset that is not held: should
\* its close arrive, they are excused.
GapInv ==
    \A q \in Unknown : q[1] \notin held /\ Earlier(q, Seen) /\ Later(q, GapSeen) => q \in excused

\* An asset sold while its days were asked for had them all excused.
SoldInv ==
    \A p \in Asked \cap Unknown : p[1] \notin held =>
        \A q \in Unknown : q[1] = p[1] /\ q[2] <= p[2] => q \in excused

SkippedInv == SkipInv /\ GapInv /\ SoldInv

HoleInv == AnswersInv /\ SkippedInv

-----------------------------------------------------------------------------
(* How a step moves what is asked, known and due *)

LEMMA AskedIs ==
    /\ Asked = sync.left["found"] \cup sync.left["not_supplied"] \cup sync.left["unavailable"]
    /\ Asked' = sync'.left["found"] \cup sync'.left["not_supplied"] \cup sync'.left["unavailable"]
  BY DEF Asked, Verdicts

LEMMA AskedTyped == ASSUME TypeOK PROVE Asked \in SUBSET Pairs
  BY DEF Asked, TypeOK, Run

LEMMA AskedAfter ==
    ASSUME sync \in Run, NEW v \in Verdicts, NEW p \in sync.left[v], sync'.left = Done(v, p)
    PROVE  /\ Asked' \subseteq Asked /\ Asked \ {p} \subseteq Asked'
           /\ p \in Asked /\ (AnswersSplit => p \notin Asked')
           /\ sync'.left[v] = sync.left[v] \ {p}
           /\ \A w \in Verdicts \ {v} : sync'.left[w] = sync.left[w]
  <1>1. /\ sync'.left[v] = sync.left[v] \ {p}
        /\ \A w \in Verdicts \ {v} : sync'.left[w] = sync.left[w]
    BY DoneIs
  <1>2. p \in Asked
    BY DEF Asked
  <1>3. Asked' \subseteq Asked /\ Asked \ {p} \subseteq Asked'
    BY <1>1 DEF Asked
  <1>4. AnswersSplit => p \notin Asked'
    BY <1>1 DEF Asked, AnswersSplit
  <1> QED
    BY <1>1, <1>2, <1>3, <1>4

\* What an upsert, a delete and a gap make of the rows.
LEMMA UpsertRows ==
    ASSUME TypeOK, NEW p \in Pairs, UpsertClosePrice(p)
    PROVE  /\ Known(close', gap') = Known(close, gap) \cup {p}
           /\ Closed(close') = Closed(close) \cup {p}
           /\ Retryable' \subseteq Retryable /\ Gapped' \subseteq Gapped
           /\ gap'[p] = "none" /\ \A q \in Pairs : q # p => gap'[q] = gap[q]
           /\ \A q \in Pairs : close[q] # "none" => close'[q] # "none"
           /\ \A q \in Pairs : close'[q] = "other" => close[q] = "other"
  BY DEF TypeOK, UpsertClosePrice, Known, Closed, Retryable, Gapped

LEMMA LastDueIs ==
    ASSUME TypeOK
    PROVE  LastDue \in Nat /\ day - 1 <= LastDue /\ LastDue <= day /\ Start - 1 <= LastDue
  <1>1. day \in Nat /\ Start \in Nat /\ 1 <= Start /\ Start <= day
    BY DaysAssumption DEF TypeOK
  <1>2. LastDue = day \/ LastDue = day - 1
    BY DEF LastDue
  <1> QED
    BY <1>1, <1>2

\* Time, and the files, only go forward.
LEMMA WorldGrows ==
    ASSUME TypeOK, [Next]_vars
    PROVE  /\ published \in Nat /\ published' \in Nat /\ published <= published'
           /\ LastDue \in Nat /\ LastDue' \in Nat /\ LastDue <= LastDue'
  <1>0. /\ day \in Nat /\ Start \in Nat /\ 1 <= Start /\ Start <= day
        /\ published \in Nat /\ published' \in Nat
    <2>1. (day \in Start..MaxDay /\ published \in 0..day)'
      BY WorldTyped
    <2> QED
      BY <2>1, DaysAssumption DEF TypeOK
  <1>1. LastDue \in Nat
    BY LastDueIs
  <1>2. CASE Tick
    <2>1. published' = published
      BY <1>2 DEF Tick
    <2>2. evening \in BOOLEAN
      BY DEF TypeOK
    <2>3. CASE evening
      <3>1. day' = day + 1 /\ evening' = FALSE
        BY <1>2, <2>3 DEF Tick
      <3>2. LastDue' = day' - 1
        BY <3>1, Zenon DEF LastDue
      <3>3. LastDue' = day
        BY <1>0, <3>1, <3>2
      <3> QED
        BY <1>0, <1>1, <2>1, <3>3, LastDueIs
    <2>4. CASE ~evening
      <3>1. day' = day /\ evening' = TRUE
        BY <1>2, <2>4 DEF Tick
      <3>2. LastDue = day - 1 /\ (LastDue' = day \/ LastDue' = day - 1)
        BY <2>4, <3>1 DEF LastDue
      <3> QED
        BY <1>0, <1>1, <2>1, <3>2
    <2> QED
      BY <2>3, <2>4
  <1>3. CASE Publish
    <2> DEFINE D == {d \in TradingDays : d > published}
    <2>1. D \in SUBSET Nat /\ D # {} /\ published' = Min(D)
      BY <1>3, DaysAre DEF Publish
    <2>2. published' \in D
      BY <2>1, MinIs
    <2>3. LastDue' = LastDue
      BY <1>3 DEF Publish, LastDue
    <2> QED
      BY <1>0, <1>1, <2>2, <2>3
  <1>4. CASE UNCHANGED <<day, evening, published>>
    <2>1. LastDue' = LastDue
      BY <1>4 DEF LastDue
    <2> QED
      BY <1>0, <1>1, <1>4, <2>1
  <1> QED
    BY <1>2, <1>3, <1>4
    DEF Next, Sync, vars, world, SyncPlan, SyncFound, SyncGap, SyncDelete, SyncUnavailable,
        SyncRebuild, ImportFetches, BackfillFetches, FillWrite, Fault, Trade

-----------------------------------------------------------------------------
(* The answers of a run are kept true *)

\* A step that answers nothing and leaves the run alone.
LEMMA AnswersKept ==
    ASSUME TypeOK, AnswersInv, [Next]_vars, UNCHANGED <<supply, close, gap, sync>>,
           fill' \subseteq fill, excused \subseteq excused'
    PROVE  AnswersInv'
  <1>1. Asked' = Asked /\ Closed(close') = Closed(close) /\ Gapped' = Gapped
    BY DEF Asked, Closed, Gapped
  <1>2. AnswersSplit' /\ AnswersTrue'
    BY <1>1 DEF AnswersInv, AnswersSplit, AnswersTrue
  <1>3. ClosesPublished' /\ GapsDue'
    <2>1. /\ \A p \in Closed(close) \cup sync.left["found"] \cup fill : p \in Pairs
          /\ \A p \in Gapped \cup Asked : p \in Pairs
      BY AskedTyped DEF TypeOK, Run, Closed, Gapped, Verdicts
    <2> QED
      BY <1>1, <2>1, WorldGrows, PairIs, DaysAre DEF AnswersInv, ClosesPublished, GapsDue
  <1>4. DeletesExplained' /\ PriorKept'
    BY <1>1 DEF AnswersInv, DeletesExplained, PriorKept
  <1> QED
    BY <1>2, <1>3, <1>4 DEF AnswersInv

\* A run that ends answers nothing more.
LEMMA AnswersEnd ==
    ASSUME TypeOK, AnswersInv, UNCHANGED <<world, close, gap>>, sync' = IdleSync,
           fill' \subseteq fill
    PROVE  AnswersInv'
  <1>1. /\ Asked' = {} /\ Closed(close') = Closed(close) /\ Gapped' = Gapped
        /\ sync'.doomed = {} /\ \A v \in Verdicts : sync'.left[v] = {}
    BY DEF Asked, Closed, Gapped, IdleSync, NoLeft
  <1>2. LastDue' = LastDue /\ supply' = supply /\ published' = published
    BY DEF world, LastDue
  <1> QED
    BY <1>1, <1>2 DEF AnswersInv, AnswersSplit, AnswersTrue, ClosesPublished, GapsDue,
        DeletesExplained, PriorKept, Verdicts

\* Every day wanted is due.
LEMMA WantedDue ==
    ASSUME TypeOK, GapsDue, NEW p \in Wanted
    PROVE  p \in Pairs /\ p[2] <= LastDue
  <1>1. p \in Pairs
    BY WantedTyped
  <1>2. CASE p \in held \X Window
    <2>1. held # {} /\ p[2] \in Window
      BY <1>2
    <2>2. p[2] \in Due
      BY <2>1 DEF Window, Kept, Missed
    <2> QED
      BY <1>1, <2>2 DEF Due
  <1>3. CASE close[p] = "other"
    <2>1. p[2] < Start /\ p[2] \in Nat /\ Start \in Nat
      BY <1>1, <1>3, PairIs, DaysAre, DaysAssumption DEF GapsDue
    <2> QED
      BY <1>1, <2>1, LastDueIs
  <1>4. CASE gap[p] = "retryable"
    BY <1>1, <1>4 DEF GapsDue, Gapped
  <1> QED
    BY <1>2, <1>3, <1>4 DEF Wanted

LEMMA AnswersPlanned ==
    ASSUME TypeOK, RunInv, AnswersInv, SyncPlan
    PROVE  AnswersInv'
  <1>1. PICK U : LET left == Sorted(Wanted, U) IN
            /\ sync' = [pc |-> NextPc(left), left |-> left,
                        prior |-> {p \in Pairs : close[p] = "other"},
                        first |-> Unread, doomed |-> {}, changed |-> {}]
            /\ \A v \in Verdicts : left[v] = {p \in Wanted : Verdict(p, U) = v}
    BY PlanIs
  <1>2. \A v \in Verdicts : sync'.left[v] = {p \in Wanted : Verdict(p, U) = v}
    BY <1>1
  <1>3. /\ sync'.doomed = {} /\ sync'.prior = {p \in Pairs : close[p] = "other"}
        /\ UNCHANGED <<world, close, gap, fill>>
    BY <1>1, PlanIs DEF rows
  <1>4. LastDue' = LastDue /\ supply' = supply /\ published' = published
    BY <1>3 DEF world, LastDue
  <1>5. Asked' \subseteq Wanted /\ Gapped' = Gapped /\ Closed(close') = Closed(close)
    BY <1>2, <1>3, AskedIs DEF Verdicts, Gapped, Closed
  <1>6. AnswersSplit'
    BY <1>2, <1>3 DEF AnswersSplit
  <1>7. AnswersTrue'
    <2>1. sync'.left["found"] \subseteq supply /\ sync'.left["not_supplied"] \cap supply = {}
      BY <1>2 DEF Verdict, Verdicts
    <2> QED
      BY <1>3, <1>4, <2>1 DEF AnswersTrue, AnswersInv
  <1>8. ClosesPublished'
    <2>1. \A p \in sync'.left["found"] : p \in Pairs /\ ~(p[2] > published)
      BY <1>2, WantedTyped DEF Verdict, Verdicts
    <2>2. published \in Nat
      BY DaysAssumption DEF TypeOK
    <2>3. \A p \in sync'.left["found"] : p[2] <= published
      BY <2>1, <2>2, PairIs, DaysAre
    <2> QED
      BY <1>3, <1>4, <1>5, <2>3 DEF ClosesPublished, AnswersInv
  <1>9. GapsDue'
    BY <1>3, <1>4, <1>5, WantedDue DEF GapsDue, AnswersInv
  <1>10. DeletesExplained' /\ PriorKept'
    BY <1>3 DEF DeletesExplained, PriorKept
  <1> QED
    BY <1>6, <1>7, <1>8, <1>9, <1>10 DEF AnswersInv

LEMMA AnswersFound ==
    ASSUME TypeOK, RunInv, AnswersInv, SyncFound
    PROVE  AnswersInv'
  <1>1. PICK p \in sync.left["found"] :
            /\ p \in Pairs /\ UpsertClosePrice(p)
            /\ sync' = [sync EXCEPT !.left = Done("found", p), !.pc = NextPc(Done("found", p)),
                                    !.changed = @ \cup {p[2]}]
            /\ UNCHANGED <<world, fill, excused, spent>>
    BY FoundIs
  <1>2. sync'.left = Done("found", p) /\ sync'.doomed = {} /\ sync'.prior = sync.prior
    BY <1>1 DEF TypeOK, Run, RunInv, SyncFound
  <1>3. /\ Asked' \subseteq Asked /\ sync'.left["found"] = sync.left["found"] \ {p}
        /\ \A w \in Verdicts \ {"found"} : sync'.left[w] = sync.left[w]
    BY <1>1, <1>2, AskedAfter DEF TypeOK, Verdicts
  <1>4. LastDue' = LastDue /\ supply' = supply /\ published' = published /\ fill' = fill
    BY <1>1 DEF world, LastDue
  <1>5. /\ Closed(close') = Closed(close) \cup {p} /\ Gapped' \subseteq Gapped
        /\ \A q \in Pairs : close[q] # "none" => close'[q] # "none"
        /\ \A q \in Pairs : close'[q] = "other" => close[q] = "other"
    BY <1>1, UpsertRows
  <1>6. AnswersSplit'
    BY <1>2, <1>3 DEF AnswersSplit, AnswersInv
  <1>7. AnswersTrue'
    BY <1>2, <1>3, <1>4 DEF AnswersTrue, AnswersInv, Verdicts
  <1>8. ClosesPublished' /\ GapsDue'
    BY <1>1, <1>3, <1>4, <1>5 DEF ClosesPublished, GapsDue, AnswersInv
  <1>9. DeletesExplained' /\ PriorKept'
    BY <1>2, <1>3, <1>5 DEF DeletesExplained, PriorKept, AnswersInv, TypeOK, Run
  <1> QED
    BY <1>6, <1>7, <1>8, <1>9 DEF AnswersInv

LEMMA AnswersGap ==
    ASSUME TypeOK, RunInv, AnswersInv, SyncGap
    PROVE  AnswersInv'
  <1>1. PICK p \in sync.left["not_supplied"] :
            /\ p \in Pairs
            /\ gap' = [gap EXCEPT ![p] = IF EverPricedBy(p) THEN "not_supplied" ELSE "none"]
            /\ excused' = IF EverPricedBy(p) THEN excused ELSE excused \cup {p}
            /\ sync' = [sync EXCEPT !.first[p[1]] = FirstOf(p[1]),
                          !.left = Done("not_supplied", p), !.doomed = sync.prior \cap {p},
                          !.pc = IF p \in sync.prior THEN "delete" ELSE NextPc(Done("not_supplied", p))]
            /\ UNCHANGED <<world, close, fill, debt, spent>>
    BY GapIs
  <1>2. sync'.left = Done("not_supplied", p) /\ sync'.doomed \subseteq {p} /\ sync'.prior = sync.prior
    BY <1>1 DEF TypeOK, Run
  <1>3. /\ Asked' \subseteq Asked /\ p \in Asked /\ p \notin Asked'
        /\ sync'.left["not_supplied"] = sync.left["not_supplied"] \ {p}
        /\ \A w \in Verdicts \ {"not_supplied"} : sync'.left[w] = sync.left[w]
    BY <1>1, <1>2, AskedAfter DEF TypeOK, Verdicts, AnswersInv
  <1>4. /\ LastDue' = LastDue /\ supply' = supply /\ published' = published /\ fill' = fill
        /\ close' = close /\ Closed(close') = Closed(close)
    BY <1>1 DEF world, LastDue
  <1>5. Gapped' \subseteq Gapped \cup {p} /\ (gap'[p] # "none" \/ p \in excused')
    BY <1>1 DEF Gapped, TypeOK
  <1>6. AnswersSplit'
    BY <1>2, <1>3 DEF AnswersSplit, AnswersInv
  <1>7. AnswersTrue'
    BY <1>1, <1>2, <1>3, <1>4 DEF AnswersTrue, AnswersInv, Verdicts
  <1>8. ClosesPublished' /\ GapsDue'
    BY <1>3, <1>4, <1>5 DEF ClosesPublished, GapsDue, AnswersInv, Verdicts
  <1>9. DeletesExplained' /\ PriorKept'
    BY <1>2, <1>3, <1>4, <1>5 DEF DeletesExplained, PriorKept, AnswersInv
  <1> QED
    BY <1>6, <1>7, <1>8, <1>9 DEF AnswersInv

LEMMA DeleteIs ==
    ASSUME TypeOK, SyncDelete
    PROVE  \E p \in sync.doomed :
             /\ p \in Pairs /\ close' = [close EXCEPT ![p] = "none"]
             /\ sync'.left = sync.left /\ sync'.doomed = {} /\ sync'.prior = sync.prior
             /\ UNCHANGED <<world, gap, fill, excused, spent>>
  BY DEF SyncDelete, TypeOK, Run

LEMMA AnswersDelete ==
    ASSUME TypeOK, RunInv, AnswersInv, SyncDelete
    PROVE  AnswersInv'
  <1>1. PICK p \in sync.doomed :
            /\ p \in Pairs /\ close' = [close EXCEPT ![p] = "none"]
            /\ sync'.left = sync.left /\ sync'.doomed = {} /\ sync'.prior = sync.prior
            /\ UNCHANGED <<world, gap, fill, excused, spent>>
    BY DeleteIs
  <1>2. /\ LastDue' = LastDue /\ supply' = supply /\ published' = published /\ fill' = fill
        /\ Asked' = Asked /\ Gapped' = Gapped
    BY <1>1 DEF world, LastDue, Asked, Gapped
  <1>3. /\ Closed(close') \subseteq Closed(close)
        /\ \A q \in Pairs : q # p => close'[q] = close[q]
        /\ \A q \in Pairs : close'[q] = "other" => close[q] = "other"
    BY <1>1 DEF Closed, TypeOK
  <1>4. p \notin Asked /\ sync.prior \in SUBSET Pairs
    BY DEF AnswersInv, AnswersSplit, TypeOK, Run
  <1>5. AnswersSplit' /\ AnswersTrue'
    BY <1>1, <1>2 DEF AnswersSplit, AnswersTrue, AnswersInv
  <1>6. ClosesPublished' /\ GapsDue'
    BY <1>1, <1>2, <1>3 DEF ClosesPublished, GapsDue, AnswersInv
  <1>7. DeletesExplained' /\ PriorKept'
    BY <1>1, <1>2, <1>3, <1>4 DEF DeletesExplained, PriorKept, AnswersInv
  <1> QED
    BY <1>5, <1>6, <1>7 DEF AnswersInv

LEMMA AnswersUnavailable ==
    ASSUME TypeOK, RunInv, AnswersInv, SyncUnavailable
    PROVE  AnswersInv'
  <1>1. PICK p \in sync.left["unavailable"] :
            /\ p \in Pairs
            /\ gap' = [gap EXCEPT ![p] = IF p \in sync.prior THEN @ ELSE "retryable"]
            /\ sync' = [sync EXCEPT !.left = Done("unavailable", p),
                                    !.pc = NextPc(Done("unavailable", p))]
            /\ UNCHANGED <<world, close, fill, debt, excused, spent>>
    BY UnavailableIs
  <1>2. sync'.left = Done("unavailable", p) /\ sync'.doomed = {} /\ sync'.prior = sync.prior
    BY <1>1 DEF TypeOK, Run, RunInv, SyncUnavailable
  <1>3. /\ Asked' \subseteq Asked /\ p \in Asked
        /\ sync'.left["unavailable"] = sync.left["unavailable"] \ {p}
        /\ \A w \in Verdicts \ {"unavailable"} : sync'.left[w] = sync.left[w]
    BY <1>1, <1>2, AskedAfter DEF TypeOK, Verdicts
  <1>4. /\ LastDue' = LastDue /\ supply' = supply /\ published' = published /\ fill' = fill
        /\ close' = close /\ Closed(close') = Closed(close)
    BY <1>1 DEF world, LastDue
  <1>5. Gapped' \subseteq Gapped \cup {p}
    BY <1>1 DEF Gapped, TypeOK
  <1>6. AnswersSplit'
    BY <1>2, <1>3 DEF AnswersSplit, AnswersInv
  <1>7. AnswersTrue'
    BY <1>2, <1>3, <1>4 DEF AnswersTrue, AnswersInv, Verdicts
  <1>8. ClosesPublished' /\ GapsDue'
    BY <1>3, <1>4, <1>5 DEF ClosesPublished, GapsDue, AnswersInv, Verdicts
  <1>9. DeletesExplained' /\ PriorKept'
    BY <1>2, <1>3, <1>4 DEF DeletesExplained, PriorKept, AnswersInv
  <1> QED
    BY <1>6, <1>7, <1>8, <1>9 DEF AnswersInv

\* A fetch leaves everything but the fill alone, which the files bear out.
LEMMA AnswersFetched ==
    ASSUME TypeOK, AnswersInv, ImportFetches \/ BackfillFetches
    PROVE  AnswersInv'
  <1>1. UNCHANGED <<world, rows, sync, excused>>
    BY DEF ImportFetches, BackfillFetches
  <1>2. \E W \in SUBSET Pairs : Fetches(W)
    <2>1. CASE ImportFetches
      <3>1. PICK a \in Assets, W \in SUBSET TradingDays : Fetches({a} \X W)
        BY <2>1 DEF ImportFetches
      <3>2. {a} \X W \in SUBSET Pairs
        BY DEF Pairs
      <3> QED
        BY <3>1, <3>2
    <2>2. CASE BackfillFetches
      BY <2>2 DEF BackfillFetches
    <2> QED
      BY <2>1, <2>2
  <1>3. PICK W \in SUBSET Pairs : \E U : fill' = Sorted(W, U)["found"]
    BY <1>2 DEF Fetches
  <1>4. PICK U : fill' = Sorted(W, U)["found"]
    BY <1>3
  <1>5. fill' = {p \in W : Verdict(p, U) = "found"}
    BY <1>4, SortedIs DEF Verdicts
  <1>6. \A p \in fill' : p \in Pairs /\ p \in supply /\ ~(p[2] > published)
    BY <1>5 DEF Verdict
  <1>7. \A p \in fill' : p \in supply /\ p[2] <= published
    BY <1>6, PairIs, DaysAre, DaysAssumption DEF TypeOK
  <1>8. /\ LastDue' = LastDue /\ supply' = supply /\ published' = published
        /\ Asked' = Asked /\ Gapped' = Gapped /\ Closed(close') = Closed(close)
        /\ sync' = sync /\ close' = close /\ gap' = gap /\ excused' = excused
    BY <1>1 DEF world, rows, LastDue, Asked, Gapped, Closed
  <1>9. AnswersSplit' /\ AnswersTrue'
    BY <1>7, <1>8 DEF AnswersSplit, AnswersTrue, AnswersInv
  <1>10. ClosesPublished' /\ GapsDue'
    BY <1>7, <1>8 DEF ClosesPublished, GapsDue, AnswersInv
  <1>11. DeletesExplained' /\ PriorKept'
    BY <1>8 DEF DeletesExplained, PriorKept, AnswersInv
  <1> QED
    BY <1>9, <1>10, <1>11 DEF AnswersInv

\* A fill clears the gap of a close that is in the files, and so is not the one
\* of a close about to be deleted.
LEMMA AnswersFilled ==
    ASSUME TypeOK, AnswersInv, FillWrite
    PROVE  AnswersInv'
  <1>1. PICK p \in fill :
            /\ p \in Pairs /\ UpsertClosePrice(p) /\ fill' = fill \ {p}
            /\ excused' = excused \cup {q \in Between(Known(close', gap') \cup Asked) : q[1] = p[1]}
            /\ UNCHANGED <<world, sync, debt, spent>>
    BY FillIs
  <1>2. /\ LastDue' = LastDue /\ supply' = supply /\ published' = published
        /\ sync' = sync /\ Asked' = Asked /\ excused \subseteq excused'
    BY <1>1 DEF world, LastDue, Asked
  <1>3. /\ Closed(close') = Closed(close) \cup {p} /\ Gapped' \subseteq Gapped
        /\ \A q \in Pairs : q # p => gap'[q] = gap[q]
        /\ \A q \in Pairs : close[q] # "none" => close'[q] # "none"
        /\ \A q \in Pairs : close'[q] = "other" => close[q] = "other"
    BY <1>1, UpsertRows
  <1>4. AnswersSplit' /\ AnswersTrue'
    BY <1>1, <1>2 DEF AnswersSplit, AnswersTrue, AnswersInv
  <1>5. ClosesPublished' /\ GapsDue'
    BY <1>1, <1>2, <1>3 DEF ClosesPublished, GapsDue, AnswersInv
  <1>6. p \notin sync.doomed /\ sync.doomed \in SUBSET Pairs /\ sync.prior \in SUBSET Pairs
    BY <1>1 DEF AnswersInv, AnswersTrue, TypeOK, Run
  <1>7. DeletesExplained' /\ PriorKept'
    BY <1>2, <1>3, <1>6 DEF DeletesExplained, PriorKept, AnswersInv
  <1> QED
    BY <1>4, <1>5, <1>7 DEF AnswersInv

LEMMA AnswersStep == ASSUME TypeInv, AnswersInv, [Next]_vars PROVE AnswersInv'
  <1>0. TypeOK /\ RunInv
    BY DEF TypeInv
  <1>1. CASE SyncPlan \/ SyncFound \/ SyncGap \/ SyncDelete \/ SyncUnavailable
    BY <1>0, <1>1, AnswersPlanned, AnswersFound, AnswersGap, AnswersDelete, AnswersUnavailable
  <1>2. CASE ImportFetches \/ BackfillFetches \/ FillWrite
    BY <1>0, <1>2, AnswersFetched, AnswersFilled
  <1>3. CASE SyncRebuild
    <2>1. UNCHANGED <<world, close, gap>> /\ sync' = IdleSync /\ fill' \subseteq fill
      BY <1>3 DEF SyncRebuild, rows
    <2> QED
      BY <1>0, <2>1, AnswersEnd
  <1>4. CASE Fault
    <2>1. /\ UNCHANGED <<world, close, gap>> /\ supply' = supply /\ fill' \subseteq fill
          /\ excused \subseteq excused' /\ (sync' = sync \/ sync' = IdleSync)
      BY <1>4 DEF Fault, rows, world
    <2> QED
      BY <1>0, <2>1, AnswersEnd, AnswersKept
  <1>5. CASE Tick \/ Publish \/ Trade \/ UNCHANGED vars
    <2>1. UNCHANGED <<supply, close, gap, sync>> /\ fill' \subseteq fill /\ excused \subseteq excused'
      BY <1>5 DEF Tick, Publish, Trade, rows, vars, world
    <2> QED
      BY <1>0, <2>1, AnswersKept
  <1> QED
    BY <1>1, <1>2, <1>3, <1>4, <1>5 DEF Next, Sync

-----------------------------------------------------------------------------
(* Days skipped *)

LEMMA Reaches ==
    ASSUME NEW q, NEW K, NEW L
    PROVE  /\ K \subseteq L => (Earlier(q, K) => Earlier(q, L)) /\ (Later(q, K) => Later(q, L))
           /\ Later(q, K \cup L) => Later(q, K) \/ Later(q, L)
  BY DEF Earlier, Later

\* A pair of another asset is neither an earlier nor a later day of q's.
LEMMA ReachesOwn ==
    ASSUME NEW q, NEW p, q[1] # p[1], NEW K
    PROVE  /\ Earlier(q, K \cup {p}) => Earlier(q, K)
           /\ Later(q, K \cup {p}) => Later(q, K)
  BY DEF Earlier, Later

\* A step that loses nothing seen, asked or excused skips no day.
LEMMA Shrinks ==
    ASSUME SkippedInv, held \subseteq held',
           Seen' \subseteq Seen, CloseSeen' \subseteq CloseSeen, GapSeen' \subseteq GapSeen,
           \A q \in Unknown' \ excused' : q \in Unknown \ excused /\ (q \in Asked => q \in Asked'),
           Asked' \cap Unknown' \subseteq Asked \cap Unknown
    PROVE  SkippedInv'
  <1>0. SkipInv /\ GapInv /\ SoldInv
    BY DEF SkippedInv
  <1>1. SkipInv'
    <2> SUFFICES ASSUME NEW q \in Unknown' \ excused', Earlier(q, Seen'), Later(q, CloseSeen')
                 PROVE  q \in Asked'
      BY DEF SkipInv, Earlier, Later
    <2>1. Earlier(q, Seen) /\ Later(q, CloseSeen)
      BY Reaches
    <2> QED
      BY <1>0, <2>1 DEF SkipInv
  <1>2. GapInv'
    <2> SUFFICES ASSUME NEW q \in Unknown', q \notin excused', q[1] \notin held',
                        Earlier(q, Seen'), Later(q, GapSeen')
                 PROVE  FALSE
      BY DEF GapInv, Earlier, Later
    <2>1. Earlier(q, Seen) /\ Later(q, GapSeen)
      BY Reaches
    <2> QED
      BY <1>0, <2>1 DEF GapInv
  <1>3. SoldInv'
    <2> SUFFICES ASSUME NEW p \in Asked' \cap Unknown', p[1] \notin held',
                        NEW q \in Unknown', q[1] = p[1], q[2] <= p[2], q \notin excused'
                 PROVE  FALSE
      BY DEF SoldInv
    <2> QED
      BY <1>0 DEF SoldInv
  <1> QED
    BY <1>1, <1>2, <1>3 DEF SkippedInv

\* A step that leaves the rows, the run and the excused alone.
LEMMA SkippedKept ==
    ASSUME SkippedInv, UNCHANGED <<close, gap, sync>>, excused \subseteq excused',
           held \subseteq held'
    PROVE  SkippedInv'
  <1>1. /\ Seen' = Seen /\ CloseSeen' = CloseSeen /\ GapSeen' = GapSeen
        /\ Unknown' = Unknown /\ Asked' = Asked
    BY DEF Seen, CloseSeen, GapSeen, Unknown, Asked, Known, Closed, Retryable
  <1> QED
    BY <1>1, Shrinks

LEMMA SkippedFound ==
    ASSUME TypeOK, RunInv, AnswersInv, SkippedInv, SyncFound
    PROVE  SkippedInv'
  <1>1. PICK p \in sync.left["found"] :
            /\ p \in Pairs /\ UpsertClosePrice(p)
            /\ sync' = [sync EXCEPT !.left = Done("found", p), !.pc = NextPc(Done("found", p)),
                                    !.changed = @ \cup {p[2]}]
            /\ UNCHANGED <<world, fill, excused, spent>>
    BY FoundIs
  <1>2. sync'.left = Done("found", p)
    BY <1>1 DEF TypeOK, Run
  <1>3. /\ Asked' \subseteq Asked /\ Asked \ {p} \subseteq Asked' /\ p \in Asked
        /\ sync'.left["found"] \subseteq sync.left["found"]
        /\ sync'.left["unavailable"] = sync.left["unavailable"]
    BY <1>1, <1>2, AskedAfter DEF TypeOK, Verdicts
  <1>4. /\ Known(close', gap') = Known(close, gap) \cup {p}
        /\ Closed(close') = Closed(close) \cup {p} /\ Retryable' \subseteq Retryable
    BY <1>1, UpsertRows
  <1>5. held' = held /\ excused' = excused
    BY <1>1 DEF world
  <1>6. Seen' \subseteq Seen /\ CloseSeen' \subseteq CloseSeen /\ GapSeen' \subseteq GapSeen
    BY <1>1, <1>3, <1>4 DEF Seen, CloseSeen, GapSeen
  <1>7. Unknown' = Unknown \ {p}
    BY <1>4 DEF Unknown
  <1> QED
    BY <1>3, <1>5, <1>6, <1>7, Shrinks

LEMMA SkippedGap ==
    ASSUME TypeOK, RunInv, AnswersInv, SkippedInv, SyncGap
    PROVE  SkippedInv'
  <1>1. PICK p \in sync.left["not_supplied"] :
            /\ p \in Pairs
            /\ gap' = [gap EXCEPT ![p] = IF EverPricedBy(p) THEN "not_supplied" ELSE "none"]
            /\ excused' = IF EverPricedBy(p) THEN excused ELSE excused \cup {p}
            /\ sync' = [sync EXCEPT !.first[p[1]] = FirstOf(p[1]),
                          !.left = Done("not_supplied", p), !.doomed = sync.prior \cap {p},
                          !.pc = IF p \in sync.prior THEN "delete" ELSE NextPc(Done("not_supplied", p))]
            /\ UNCHANGED <<world, close, fill, debt, spent>>
    BY GapIs
  <1>2. sync'.left = Done("not_supplied", p)
    BY <1>1 DEF TypeOK, Run
  <1>3. /\ Asked' \subseteq Asked /\ Asked \ {p} \subseteq Asked' /\ p \in Asked /\ p \notin Asked'
        /\ sync'.left["found"] = sync.left["found"]
        /\ sync'.left["unavailable"] = sync.left["unavailable"]
    BY <1>1, <1>2, AskedAfter DEF TypeOK, Verdicts, AnswersInv
  <1>4. gap'[p] \in {"none", "not_supplied"} /\ \A q \in Pairs : q # p => gap'[q] = gap[q]
    BY <1>1 DEF TypeOK
  <1>5. gap'[p] # "none" \/ p \in excused'
    BY <1>1 DEF TypeOK
  <1>6. held' = held /\ close' = close /\ excused \subseteq excused'
    BY <1>1 DEF world
  <1>7. /\ Known(close', gap') \subseteq Known(close, gap) \cup {p}
        /\ Known(close, gap) \subseteq Known(close', gap') \cup {p}
        /\ p \in Known(close', gap') \cup excused'
        /\ Closed(close') = Closed(close) /\ Retryable' \subseteq Retryable
    BY <1>1, <1>4, <1>5, <1>6 DEF Known, Closed, Retryable
  <1>8. Seen' \subseteq Seen /\ CloseSeen' \subseteq CloseSeen /\ GapSeen' \subseteq GapSeen
    BY <1>3, <1>7 DEF Seen, CloseSeen, GapSeen
  <1>9. \A q \in Unknown' \ excused' : q \in Unknown \ excused /\ q # p
    BY <1>6, <1>7 DEF Unknown
  <1>10. Asked' \cap Unknown' \subseteq Asked \cap Unknown
    BY <1>3, <1>7 DEF Unknown
  <1> QED
    BY <1>3, <1>6, <1>8, <1>9, <1>10, Shrinks

LEMMA SkippedDelete ==
    ASSUME TypeOK, RunInv, AnswersInv, SkippedInv, SyncDelete
    PROVE  SkippedInv'
  <1>1. PICK p \in sync.doomed :
            /\ p \in Pairs /\ close' = [close EXCEPT ![p] = "none"]
            /\ sync'.left = sync.left /\ sync'.doomed = {} /\ sync'.prior = sync.prior
            /\ UNCHANGED <<world, gap, fill, excused, spent>>
    BY DeleteIs
  <1>2. Asked' = Asked /\ held' = held /\ gap' = gap /\ excused' = excused
    BY <1>1 DEF Asked, world
  <1>3. p \notin Asked /\ (p \in excused \/ gap[p] # "none")
    BY DEF AnswersInv, AnswersSplit, DeletesExplained
  <1>4. /\ Known(close', gap') \subseteq Known(close, gap)
        /\ Known(close, gap) \subseteq Known(close', gap') \cup {p}
        /\ p \in Known(close', gap') \cup excused'
        /\ Closed(close') \subseteq Closed(close) /\ Retryable' = Retryable
    BY <1>1, <1>2, <1>3 DEF Known, Closed, Retryable, TypeOK
  <1>5. Seen' \subseteq Seen /\ CloseSeen' \subseteq CloseSeen /\ GapSeen' \subseteq GapSeen
    BY <1>1, <1>2, <1>4 DEF Seen, CloseSeen, GapSeen
  <1>6. \A q \in Unknown' \ excused' : q \in Unknown \ excused
    BY <1>2, <1>4 DEF Unknown
  <1>7. Asked' \cap Unknown' \subseteq Asked \cap Unknown
    BY <1>2, <1>3, <1>4 DEF Unknown
  <1> QED
    BY <1>2, <1>5, <1>6, <1>7, Shrinks

LEMMA SkippedUnavailable ==
    ASSUME TypeOK, RunInv, AnswersInv, SkippedInv, SyncUnavailable
    PROVE  SkippedInv'
  <1>1. PICK p \in sync.left["unavailable"] :
            /\ p \in Pairs
            /\ gap' = [gap EXCEPT ![p] = IF p \in sync.prior THEN @ ELSE "retryable"]
            /\ sync' = [sync EXCEPT !.left = Done("unavailable", p),
                                    !.pc = NextPc(Done("unavailable", p))]
            /\ UNCHANGED <<world, close, fill, debt, excused, spent>>
    BY UnavailableIs
  <1>2. sync'.left = Done("unavailable", p)
    BY <1>1 DEF TypeOK, Run
  <1>3. /\ Asked' \subseteq Asked /\ Asked \ {p} \subseteq Asked' /\ p \in Asked
        /\ sync'.left["found"] = sync.left["found"]
        /\ sync'.left["unavailable"] \subseteq sync.left["unavailable"]
    BY <1>1, <1>2, AskedAfter DEF TypeOK, Verdicts
  <1>4. held' = held /\ close' = close /\ excused' = excused
    BY <1>1 DEF world
  <1>5. p \in sync.prior => close[p] # "none"
    BY <1>3 DEF AnswersInv, PriorKept
  <1>6. (p \in sync.prior \/ gap'[p] = "retryable") /\ \A q \in Pairs : q # p => gap'[q] = gap[q]
    BY <1>1 DEF TypeOK
  <1>7. p \in sync.prior => gap' = gap
    BY <1>1 DEF TypeOK
  <1>8. /\ Known(close', gap') = Known(close, gap) \cup {p}
        /\ Closed(close') = Closed(close) /\ Retryable' \subseteq Retryable \cup {p}
    BY <1>1, <1>4, <1>5, <1>6, <1>7 DEF Known, Closed, Retryable
  <1>9. Seen' \subseteq Seen /\ CloseSeen' \subseteq CloseSeen /\ GapSeen' \subseteq GapSeen
    BY <1>1, <1>3, <1>8 DEF Seen, CloseSeen, GapSeen
  <1>10. Unknown' = Unknown \ {p}
    BY <1>8 DEF Unknown
  <1> QED
    BY <1>3, <1>4, <1>9, <1>10, Shrinks

\* A run that ends leaves the days it was asked for to the next one, or excused.
LEMMA SkippedEnd ==
    ASSUME TypeOK, AnswersInv, SkippedInv, UNCHANGED <<world, close, gap>>, sync' = IdleSync,
           excused \subseteq excused', Asked = {} \/ Holes(close, gap) \cap Asked \subseteq excused'
    PROVE  SkippedInv'
  <1>1. /\ Asked' = {} /\ Known(close', gap') = Known(close, gap) /\ Unknown' = Unknown
        /\ CloseSeen' = Closed(close) /\ GapSeen' = Retryable /\ held' = held
    BY DEF Asked, Known, Closed, Unknown, CloseSeen, GapSeen, Retryable, IdleSync, NoLeft,
        Verdicts, world
  <1>2. Seen' = Known(close, gap)
    BY <1>1 DEF Seen
  <1>3. Seen' \subseteq Seen /\ CloseSeen' \subseteq CloseSeen /\ GapSeen' \subseteq GapSeen
    BY <1>1, <1>2 DEF Seen, CloseSeen, GapSeen
  <1>4. CASE Asked = {}
    BY <1>1, <1>3, <1>4, Shrinks
  <1>5. CASE Holes(close, gap) \cap Asked \subseteq excused'
    <2>1. SkipInv'
      <3> SUFFICES ASSUME NEW q \in Unknown' \ excused', Earlier(q, Seen'), Later(q, CloseSeen')
                   PROVE  FALSE
        BY DEF SkipInv, Earlier, Later
      <3>1. q \in Holes(close, gap)
        BY <1>1, <1>2 DEF Holes, Unknown
      <3>2. q \in Unknown \ excused /\ Earlier(q, Seen) /\ Later(q, CloseSeen)
        BY <1>1, <1>3, Reaches
      <3>3. q \in Asked
        BY <3>2 DEF SkippedInv, SkipInv
      <3> QED
        BY <1>5, <3>1, <3>3
    <2>2. GapInv'
      <3> SUFFICES ASSUME NEW q \in Unknown', q[1] \notin held', Earlier(q, Seen'), Later(q, GapSeen')
                   PROVE  q \in excused'
        BY DEF GapInv, Earlier, Later
      <3>1. Earlier(q, Seen) /\ Later(q, GapSeen)
        BY <1>3, Reaches
      <3> QED
        BY <1>1, <3>1 DEF SkippedInv, GapInv
    <2>3. SoldInv'
      BY <1>1 DEF SoldInv
    <2> QED
      BY <2>1, <2>2, <2>3 DEF SkippedInv
  <1> QED
    BY <1>4, <1>5

\* A fill excuses the days of its asset that nobody knows or asks for.
LEMMA SkippedFilled ==
    ASSUME TypeOK, SkippedInv, FillWrite
    PROVE  SkippedInv'
  <1>1. PICK p \in fill :
            /\ p \in Pairs /\ UpsertClosePrice(p) /\ fill' = fill \ {p}
            /\ excused' = excused \cup {q \in Between(Known(close', gap') \cup Asked) : q[1] = p[1]}
            /\ UNCHANGED <<world, sync, debt, spent>>
    BY FillIs
  <1>2. sync' = sync /\ Asked' = Asked /\ held' = held /\ excused \subseteq excused'
    BY <1>1 DEF world, Asked
  <1>3. /\ Known(close', gap') = Known(close, gap) \cup {p}
        /\ Closed(close') = Closed(close) \cup {p} /\ Retryable' \subseteq Retryable
    BY <1>1, UpsertRows
  <1>4. Seen' = Seen \cup {p} /\ CloseSeen' = CloseSeen \cup {p} /\ GapSeen' \subseteq GapSeen
    BY <1>2, <1>3 DEF Seen, CloseSeen, GapSeen
  <1>5. Unknown' = Unknown \ {p}
    BY <1>3 DEF Unknown
  <1>6. CloseSeen' \subseteq Seen' /\ GapSeen' \subseteq Seen'
    <2>1. \A v \in Verdicts : sync.left[v] \subseteq Asked
      BY DEF Asked
    <2>2. CloseSeen \subseteq Seen /\ GapSeen \subseteq Seen
      BY <2>1 DEF CloseSeen, GapSeen, Seen, Closed, Known, Retryable, Verdicts
    <2> QED
      BY <1>4, <2>2
  \* The days of p's asset between two that are seen.
  <1>7. \A q \in Unknown' : q[1] = p[1] /\ Earlier(q, Seen') /\ Later(q, Seen') /\ q \notin Asked
                            => q \in excused'
    <2>1. Seen' = Known(close', gap') \cup Asked
      BY <1>2 DEF Seen
    <2>2. \A q \in Unknown' : q \in Pairs /\ q \notin Known(close', gap')
      BY DEF Unknown
    <2> QED
      BY <1>1, <2>1, <2>2 DEF Between
  <1>8. SkipInv'
    <2> SUFFICES ASSUME NEW q \in Unknown' \ excused', Earlier(q, Seen'), Later(q, CloseSeen'),
                        q \notin Asked
                 PROVE  FALSE
      BY <1>2 DEF SkipInv, Earlier, Later
    <2>1. CASE q[1] = p[1]
      BY <1>6, <1>7, <2>1, Reaches
    <2>2. CASE q[1] # p[1]
      <3>1. Earlier(q, Seen) /\ Later(q, CloseSeen)
        BY <1>4, <2>2, ReachesOwn
      <3> QED
        BY <1>2, <1>5, <3>1 DEF SkippedInv, SkipInv
    <2> QED
      BY <2>1, <2>2
  <1>9. GapInv'
    <2> SUFFICES ASSUME NEW q \in Unknown', q[1] \notin held, Earlier(q, Seen'), Later(q, GapSeen')
                 PROVE  q \in excused'
      BY <1>2 DEF GapInv, Earlier, Later
    <2>1. CASE q[1] = p[1] /\ q \notin Asked
      BY <1>6, <1>7, <2>1, Reaches
    <2>2. CASE q \in Asked
      <3>1. q \in Asked \cap Unknown /\ q[2] <= q[2]
        BY <1>5, <2>2, PairIs, DaysAre DEF Unknown
      <3> QED
        BY <1>2, <3>1 DEF SkippedInv, SoldInv
    <2>3. CASE q[1] # p[1]
      <3>1. Earlier(q, Seen) /\ Later(q, GapSeen)
        BY <1>4, <2>3, ReachesOwn, Reaches
      <3> QED
        BY <1>2, <1>5, <3>1 DEF SkippedInv, GapInv
    <2> QED
      BY <2>1, <2>2, <2>3
  <1>10. SoldInv'
    BY <1>2, <1>5 DEF SkippedInv, SoldInv
  <1> QED
    BY <1>8, <1>9, <1>10 DEF SkippedInv

\* A sale excuses every day of the asset up to the last one due.
LEMMA SkippedTraded ==
    ASSUME TypeOK, AnswersInv, SkippedInv, Trade
    PROVE  SkippedInv'
  <1>0. UNCHANGED <<close, gap, sync>> /\ excused \subseteq excused'
    BY DEF Trade, rows
  <1>1. CASE held \subseteq held'
    BY <1>0, <1>1, SkippedKept
  <1>2. CASE ~(held \subseteq held')
    <2>1. PICK a \in Assets :
            held' = held \ {a} /\ excused' = excused \cup (({a} \X Due) \ Known(close, gap))
      BY <1>2 DEF Trade
    <2>2. /\ Seen' = Seen /\ CloseSeen' = CloseSeen /\ GapSeen' = GapSeen
          /\ Unknown' = Unknown /\ Asked' = Asked
      BY <1>0 DEF Seen, CloseSeen, GapSeen, Unknown, Asked, Known, Closed, Retryable
    <2>3. \A q \in Unknown : q[1] = a /\ q[2] <= LastDue => q \in excused'
      BY <2>1, PairIs DEF Unknown, Due
    <2>4. LastDue \in Nat /\ \A p \in Asked \cup GapSeen : p \in Pairs /\ p[2] <= LastDue
      BY LastDueIs, AskedTyped, AskedIs
      DEF AnswersInv, GapsDue, GapSeen, Gapped, Retryable
    <2>5. SkipInv'
      BY <1>0, <2>2 DEF SkippedInv, SkipInv, Earlier, Later
    <2>6. GapInv'
      <3> SUFFICES ASSUME NEW q \in Unknown, q[1] \notin held', Earlier(q, Seen), Later(q, GapSeen)
                   PROVE  q \in excused'
        BY <2>2 DEF GapInv, Earlier, Later
      <3>1. CASE q[1] = a
        <4>1. PICK d \in TradingDays : d > q[2] /\ <<q[1], d>> \in GapSeen
          BY DEF Later
        <4>2. d <= LastDue
          BY <2>4, <4>1
        <4>3. q[2] <= LastDue
          BY <2>4, <4>1, <4>2, PairIs, DaysAre DEF Unknown
        <4> QED
          BY <2>3, <3>1, <4>3
      <3>2. CASE q[1] # a
        BY <1>0, <2>1, <3>2 DEF SkippedInv, GapInv
      <3> QED
        BY <3>1, <3>2
    <2>7. SoldInv'
      <3> SUFFICES ASSUME NEW p \in Asked \cap Unknown, p[1] \notin held',
                          NEW q \in Unknown, q[1] = p[1], q[2] <= p[2]
                   PROVE  q \in excused'
        BY <2>2 DEF SoldInv
      <3>1. CASE p[1] = a
        <4>1. q[2] <= LastDue
          <5>1. p[2] \in Nat /\ q[2] \in Nat /\ p[2] <= LastDue
            BY <2>4, PairIs, DaysAre DEF Unknown
          <5> QED
            BY <2>4, <5>1
        <4> QED
          BY <2>3, <3>1, <4>1
      <3>2. CASE p[1] # a
        BY <1>0, <2>1, <3>2 DEF SkippedInv, SoldInv
      <3> QED
        BY <3>1, <3>2
    <2> QED
      BY <2>5, <2>6, <2>7 DEF SkippedInv
  <1> QED
    BY <1>1, <1>2

\* The oldest last close is no later than any asset's last close.
LEMMA OldestIs ==
    ASSUME TypeOK, NEW a \in held, LastClose(a) # 0
    PROVE  OldestLastClose \in Nat /\ LastClose(a) \in Nat /\ OldestLastClose <= LastClose(a)
  <1> DEFINE lasts == {LastClose(b) : b \in held} \ {0}
  <1>1. \A b \in held : LastClose(b) \in 0..MaxDay
    <2> SUFFICES ASSUME NEW b \in held PROVE LastClose(b) \in 0..MaxDay
      OBVIOUS
    <2> DEFINE D == {d \in TradingDays : close[<<b, d>>] # "none"}
    <2>1. D \in SUBSET TradingDays /\ LastClose(b) = LatestOf(D)
      BY DEF LastClose
    <2> QED
      BY <2>1, LatestIs
  <1>2. lasts \in SUBSET Nat /\ LastClose(a) \in lasts
    BY <1>1, DaysAssumption
  <1>3. OldestLastClose = Min(lasts)
    BY <1>2 DEF OldestLastClose
  <1> HIDE DEF lasts
  <1>4. Min(lasts) \in Nat /\ LastClose(a) \in Nat /\ Min(lasts) <= LastClose(a)
    BY <1>2, MinIs
  <1> QED
    BY <1>3, <1>4

LEMMA LastCloseIs ==
    ASSUME TypeOK, NEW a \in Assets, LastClose(a) # 0
    PROVE  LastClose(a) \in TradingDays /\ <<a, LastClose(a)>> \in Closed(close)
  <1> DEFINE D == {d \in TradingDays : close[<<a, d>>] # "none"}
  <1>1. D \in SUBSET TradingDays /\ LastClose(a) = LatestOf(D)
    BY DEF LastClose
  <1>2. LastClose(a) \in D
    BY <1>1, LatestIs
  <1> QED
    BY <1>2 DEF Closed, Pairs

\* A plan asks nothing new of an asset that is not held, and of one that is
\* every day it may skip, or accounts for it.
LEMMA SkippedPlanned ==
    ASSUME TypeOK, RunInv, AnswersInv, SkippedInv, SyncPlan
    PROVE  SkippedInv'
  <1>1. PICK U : LET left == Sorted(Wanted, U) IN
            /\ sync' = [pc |-> NextPc(left), left |-> left,
                        prior |-> {p \in Pairs : close[p] = "other"},
                        first |-> Unread, doomed |-> {}, changed |-> {}]
            /\ \A v \in Verdicts : left[v] = {p \in Wanted : Verdict(p, U) = v}
    BY PlanIs
  <1>2. \A v \in Verdicts : sync'.left[v] = {p \in Wanted : Verdict(p, U) = v}
    BY <1>1
  <1>3. /\ close' = close /\ gap' = gap /\ held' = held
        /\ excused' = excused \cup LeftOut /\ sync = IdleSync
    BY PlanIs DEF rows, world, RunInv
  <1>4. Asked = {} /\ Seen = Known(close, gap) /\ CloseSeen = Closed(close) /\ GapSeen = Retryable
    BY <1>3 DEF Asked, Seen, CloseSeen, GapSeen, IdleSync, NoLeft, Verdicts
  <1>5. /\ Unknown' = Unknown /\ Seen' = Known(close, gap) \cup Asked'
        /\ CloseSeen' = Closed(close) \cup sync'.left["found"]
        /\ GapSeen' = Retryable \cup sync'.left["unavailable"]
        /\ Asked' \subseteq Wanted
    BY <1>2, <1>3, AskedIs DEF Unknown, Seen, CloseSeen, GapSeen, Retryable, Closed, Known, Verdicts
  \* What is wanted of an asset that is not held is known already.
  <1>6. \A p \in Wanted : p[1] \notin held => p \in Closed(close) \cup Retryable
    BY DEF Wanted, Closed, Retryable
  <1>7. Closed(close) \subseteq Known(close, gap) /\ Retryable \subseteq Known(close, gap)
    BY DEF Closed, Retryable, Known
  <1>8. \A q, K : q[1] \notin held /\ (\A p \in K : p[1] \notin held => p \in Closed(close) \cup Retryable)
          => /\ Earlier(q, Known(close, gap) \cup K) => Earlier(q, Known(close, gap))
             /\ Later(q, Closed(close) \cup K) => Later(q, Closed(close)) \/ Later(q, Retryable)
             /\ Later(q, Retryable \cup K) => Later(q, Closed(close)) \/ Later(q, Retryable)
    BY <1>7 DEF Earlier, Later
  <1>9. \A q \in Unknown : q[1] \notin held /\ Earlier(q, Known(close, gap))
          /\ (Later(q, Closed(close)) \/ Later(q, Retryable)) => q \in excused
    BY <1>4 DEF SkippedInv, SkipInv, GapInv
  <1>10. \A v \in Verdicts : \A p \in sync'.left[v] :
            p[1] \notin held => p \in Closed(close) \cup Retryable
    BY <1>2, <1>6
  <1>11. SkipInv'
    <2> SUFFICES ASSUME NEW q \in Unknown, q \notin excused, q \notin LeftOut,
                        Earlier(q, Seen'), Later(q, CloseSeen')
                 PROVE  q \in Asked'
      BY <1>3, <1>5 DEF SkipInv, Earlier, Later
    <2>0. q \in Pairs /\ close[q] = "none" /\ q = <<q[1], q[2]>> /\ q[2] \in TradingDays /\ q[2] \in Nat
      BY PairIs, DaysAre DEF Unknown, Known
    <2>1. CASE q[1] \notin held
      <3>1. Earlier(q, Known(close, gap))
        BY <1>5, <1>6, <1>8, <2>1
      <3>2. Later(q, Closed(close)) \/ Later(q, Retryable)
        BY <1>5, <1>8, <1>10, <2>1 DEF Verdicts
      <3> QED
        BY <1>9, <2>1, <3>1, <3>2
    <2>2. CASE q[1] \in held
      \* The close is published, so the day before it is due and has an answer.
      <3>1. PICK e \in TradingDays : e > q[2] /\ <<q[1], e>> \in CloseSeen'
        BY DEF Later
      <3>2. e \in Nat /\ e <= published
        <4>1. CASE <<q[1], e>> \in Closed(close)
          BY <4>1, DaysAre DEF AnswersInv, ClosesPublished
        <4>2. CASE <<q[1], e>> \in sync'.left["found"]
          <5>1. ~(e > published)
            BY <1>2, <4>2 DEF Verdict, Verdicts
          <5> QED
            BY <5>1, DaysAre, DaysAssumption DEF TypeOK
        <4> QED
          BY <1>5, <3>1, <4>1, <4>2
      <3>3. q[2] < published /\ published <= day /\ day \in Nat /\ published \in Nat
        BY <2>0, <3>1, <3>2, DaysAssumption DEF TypeOK
      <3>4. q[2] \in Due
        BY <2>0, <3>3, LastDueIs DEF Due
      <3>5. CASE q[2] \in Window
        <4>1. q \in Wanted
          BY <2>0, <2>2, <3>5 DEF Wanted
        <4>2. ~(q[2] > published)
          BY <2>0, <3>3
        <4>3. Verdict(q, U) \in Verdicts
          BY <4>2 DEF Verdict, Verdicts
        <4> QED
          BY <1>2, <4>1, <4>3 DEF Asked
      <3>6. CASE q[2] \notin Window
        <4>1. LastClose(q[1]) # 0 /\ q[2] \notin Missed
          <5>1. q \in held \X (Due \ Window)
            BY <2>0, <2>2, <3>4, <3>6
          <5>2. CASE LastClose(q[1]) = 0
            BY <5>1, <5>2 DEF LeftOut
          <5>3. CASE LastClose(q[1]) # 0
            BY <5>1, <5>3 DEF LeftOut
          <5> QED
            BY <5>2, <5>3
        <4>2. OldestLastClose \in Nat /\ LastClose(q[1]) \in Nat /\ OldestLastClose <= LastClose(q[1])
          BY <2>2, <4>1, OldestIs
        <4>3. q[2] <= OldestLastClose
          <5>1. ~(q[2] > OldestLastClose)
            BY <3>4, <4>1 DEF Missed
          <5> QED
            BY <2>0, <4>2, <5>1
        <4>4. LastClose(q[1]) \in TradingDays /\ <<q[1], LastClose(q[1])>> \in Closed(close)
          BY <2>2, <4>1, LastCloseIs DEF TypeOK
        <4>5. LastClose(q[1]) # q[2]
          BY <2>0, <4>4 DEF Closed
        <4>6. Later(q, Closed(close))
          <5>1. LastClose(q[1]) > q[2]
            BY <2>0, <4>2, <4>3, <4>5
          <5> QED
            BY <4>4, <5>1 DEF Later
        <4>7. Earlier(q, Known(close, gap))
          <5>1. PICK d \in TradingDays : d < q[2] /\ <<q[1], d>> \in Seen'
            BY DEF Earlier
          <5>2. CASE <<q[1], d>> \in Known(close, gap)
            BY <5>1, <5>2 DEF Earlier
          <5>3. CASE <<q[1], d>> \in Wanted /\ <<q[1], d>> \notin Known(close, gap)
            <6>1. d \in Window
              BY <5>3 DEF Wanted, Known
            <6>2. OldestLastClose # 0 /\ d \in Nat /\ d < OldestLastClose
              BY <2>0, <4>2, <4>3, <5>1, DaysAre
            <6>3. d \in Kept
              BY <2>2, <6>1, <6>2 DEF Window
            <6>4. d > OldestLastClose
              BY <6>3 DEF Kept, Missed
            <6> QED
              BY <4>2, <6>2, <6>4
          <5> QED
            BY <1>5, <5>1, <5>2, <5>3
        <4> QED
          BY <1>4, <4>6, <4>7 DEF SkippedInv, SkipInv
      <3> QED
        BY <3>5, <3>6
    <2> QED
      BY <2>1, <2>2
  <1>12. GapInv'
    <2> SUFFICES ASSUME NEW q \in Unknown, q[1] \notin held, Earlier(q, Seen'), Later(q, GapSeen')
                 PROVE  q \in excused
      BY <1>3, <1>5 DEF GapInv, Earlier, Later
    <2>1. Earlier(q, Known(close, gap))
      BY <1>5, <1>6, <1>8
    <2>2. Later(q, Closed(close)) \/ Later(q, Retryable)
      BY <1>5, <1>8, <1>10 DEF Verdicts
    <2> QED
      BY <1>9, <2>1, <2>2
  <1>13. SoldInv'
    <2>1. \A p \in Asked' \cap Unknown' : p[1] \in held'
      BY <1>3, <1>5, <1>6, <1>7 DEF Unknown
    <2> QED
      BY <2>1 DEF SoldInv
  <1> QED
    BY <1>11, <1>12, <1>13 DEF SkippedInv

LEMMA SkippedStep == ASSUME TypeInv, AnswersInv, SkippedInv, [Next]_vars PROVE SkippedInv'
  <1>0. TypeOK /\ RunInv
    BY DEF TypeInv
  <1>1. CASE SyncPlan \/ SyncFound \/ SyncGap \/ SyncDelete \/ SyncUnavailable
    BY <1>0, <1>1, SkippedPlanned, SkippedFound, SkippedGap, SkippedDelete, SkippedUnavailable
  <1>2. CASE FillWrite \/ Trade
    BY <1>0, <1>2, SkippedFilled, SkippedTraded
  <1>3. CASE SyncRebuild
    <2>1. UNCHANGED <<world, close, gap>> /\ sync' = IdleSync /\ excused' = excused
      BY <1>3 DEF SyncRebuild, rows
    <2>2. Asked = {}
      BY <1>0, <1>3, LeftToDo DEF SyncRebuild, Asked
    <2> QED
      BY <1>0, <2>1, <2>2, SkippedEnd
  <1>4. CASE Fault
    <2>1. /\ UNCHANGED <<world, close, gap>> /\ held' = held /\ excused \subseteq excused'
          /\ \/ sync' = sync
             \/ sync' = IdleSync /\ Holes(close, gap) \cap Asked \subseteq excused'
      BY <1>4 DEF Fault, rows, world
    <2> QED
      BY <1>0, <2>1, SkippedEnd, SkippedKept
  <1>5. CASE ImportFetches \/ BackfillFetches \/ Tick \/ Publish \/ UNCHANGED vars
    <2>1. UNCHANGED <<held, close, gap, sync>> /\ excused' = excused
      BY <1>5 DEF ImportFetches, BackfillFetches, Tick, Publish, rows, vars, world
    <2> QED
      BY <2>1, SkippedKept
  <1> QED
    BY <1>1, <1>2, <1>3, <1>4, <1>5 DEF Next, Sync

-----------------------------------------------------------------------------

\* At the start the rows of an asset have no day missing between them.
LEMMA HoleInit == Init => HoleInv
  <1> SUFFICES ASSUME Init PROVE HoleInv
    OBVIOUS
  <1>0. /\ Asked = {} /\ sync.doomed = {} /\ fill = {} /\ sync.prior = {}
        /\ \A v \in Verdicts : sync.left[v] = {}
    BY DEF Init, IdleSync, NoLeft, Asked
  <1>1. PICK r \in Inherited : /\ close = [p \in Pairs |-> r[p][1]]
                               /\ gap = [p \in Pairs |-> r[p][2]]
    BY DEF Init
  <1>2. \A p \in Known(close, gap) : p \in Pairs /\ p[2] \in Former /\ p[2] < Start
    BY <1>1 DEF Known, Inherited, Former
  <1>3. \A p \in Known(close, gap) : \A d \in Former :
          d > p[2] => <<p[1], d>> \in Known(close, gap)
    <2> SUFFICES ASSUME NEW p \in Known(close, gap), NEW d \in Former, d > p[2]
                 PROVE  <<p[1], d>> \in Known(close, gap)
      OBVIOUS
    <2>1. p \in Pairs /\ r[p] # <<"none", "none">>
      BY <1>1 DEF Known
    <2>2. <<p[1], d>> \in Pairs
      BY <2>1, PairIs DEF Former, Pairs
    <2>3. r[<<p[1], d>>] # <<"none", "none">>
      BY <2>1, <1>1 DEF Inherited
    <2>4. r[<<p[1], d>>] \in {<<"none", "none">>, <<"other", "none">>, <<"none", "retryable">>}
      BY <2>2, <1>1 DEF Inherited
    <2>5. r[<<p[1], d>>][1] # "none" \/ r[<<p[1], d>>][2] # "none"
      BY <2>3, <2>4
    <2> QED
      BY <1>1, <2>2, <2>5 DEF Known
  <1>4. Seen = Known(close, gap) /\ CloseSeen \subseteq Known(close, gap) /\ GapSeen \subseteq Known(close, gap)
    BY <1>0 DEF Seen, CloseSeen, GapSeen, Closed, Known, Retryable, Verdicts
  <1>5. \A q \in Unknown : ~(Earlier(q, Known(close, gap)) /\ Later(q, Known(close, gap)))
    <2> SUFFICES ASSUME NEW q \in Unknown,
                        NEW d \in TradingDays, d < q[2], <<q[1], d>> \in Known(close, gap),
                        NEW e \in TradingDays, e > q[2], <<q[1], e>> \in Known(close, gap)
                 PROVE  FALSE
      BY DEF Earlier, Later
    <2>1. q \in Pairs /\ q = <<q[1], q[2]>> /\ q[2] \in TradingDays
      BY PairIs DEF Unknown
    <2>2. e < Start /\ e \in Nat /\ q[2] \in Nat /\ Start \in Nat
      BY <1>2, <2>1, DaysAre, DaysAssumption
    <2>3. q[2] \in Former
      BY <2>1, <2>2 DEF Former
    <2>4. <<q[1], q[2]>> \in Known(close, gap)
      BY <1>3, <2>3
    <2> QED
      BY <2>1, <2>4 DEF Unknown
  <1>6. \A q \in Unknown : /\ ~(Earlier(q, Seen) /\ Later(q, CloseSeen))
                           /\ ~(Earlier(q, Seen) /\ Later(q, GapSeen))
    BY <1>4, <1>5, Reaches
  <1>7. SkippedInv
    BY <1>0, <1>6 DEF SkippedInv, SkipInv, GapInv, SoldInv
  <1>8. \A p \in Pairs : p[2] \in Former => p[2] <= published /\ p[2] <= LastDue
    <2> SUFFICES ASSUME NEW p \in Pairs, p[2] \in Former PROVE p[2] <= published /\ p[2] <= LastDue
      OBVIOUS
    <2>1. p[2] <= published
      BY LatestIs DEF Init, Former
    <2>2. p[2] < Start /\ p[2] \in Nat /\ Start \in Nat
      BY PairIs, DaysAre, DaysAssumption DEF Former
    <2> QED
      BY <2>1, <2>2, InitTyped, LastDueIs
  <1>9. ClosesPublished /\ GapsDue
    <2>1. Closed(close) \subseteq Known(close, gap) /\ Gapped \subseteq Known(close, gap)
      BY DEF Closed, Gapped, Known
    <2>2. \A p \in Known(close, gap) : p[2] <= published /\ p[2] <= LastDue /\ p[2] < Start
      BY <1>2, <1>8
    <2> QED
      BY <1>0, <2>1, <2>2 DEF ClosesPublished, GapsDue, Verdicts, Closed
  <1>10. AnswersSplit /\ AnswersTrue /\ DeletesExplained /\ PriorKept
    BY <1>0 DEF AnswersSplit, AnswersTrue, DeletesExplained, PriorKept, Verdicts
  <1> QED
    BY <1>7, <1>9, <1>10 DEF HoleInv, AnswersInv

\* Between runs a day with neither close nor gap, after an answer and before a
\* close of its asset, was left out by the window, was before anything priced the
\* asset, was still to be dealt with by a run cut off, was skipped by a fill, or
\* was owed when the asset was sold; a run that ends leaves none, whatever was
\* held, fetched or unreadable meanwhile (sync-official-closes.ts, catch-up-days.ts).
THEOREM NoCloseLostSilently == Spec => []NoSilentHole
  <1>1. TypeInv /\ HoleInv => NoSilentHole
    <2> SUFFICES ASSUME TypeInv, HoleInv, sync.pc = "idle", NEW q \in Holes(close, gap), q \notin excused
                 PROVE  FALSE
      BY DEF NoSilentHole
    <2>1. Asked = {} /\ Seen = Known(close, gap) /\ CloseSeen = Closed(close)
      BY DEF TypeInv, RunInv, IdleSync, NoLeft, Asked, Seen, CloseSeen, Verdicts
    <2>2. q \in Unknown /\ Earlier(q, Known(close, gap)) /\ Later(q, Closed(close))
      BY DEF Holes, Unknown
    <2> QED
      BY <2>1, <2>2 DEF HoleInv, SkippedInv, SkipInv
  <1>2. TypeInv /\ HoleInv /\ [Next]_vars => HoleInv'
    BY AnswersStep, SkippedStep DEF HoleInv
  <1> QED
    BY <1>1, <1>2, TypeInit, TypeStep, HoleInit, PTL DEF Spec
=============================================================================
