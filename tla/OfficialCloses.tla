--------------------------- MODULE OfficialCloses ---------------------------
(***************************************************************************)
(* The daily closes of listed assets, read only from B3's COTAHIST files,   *)
(* and the rows that mark a close that could not be had.  The capture job   *)
(* runs every evening and is retried when a file could not be read; the     *)
(* same use case runs when the worker starts, for the evenings it missed.   *)
(* Both ask for the due days after the oldest last close of the assets      *)
(* held, for every stored close of another source and for every gap that    *)
(* may still be filled, and then write what the files answered, one         *)
(* statement at a time.  An import that needs a close, and the backfill an  *)
(* operator runs, fetch and write closes of their own meanwhile.            *)
(*                                                                          *)
(* Source: core/quotes/{sync-official-closes,fetch-official-closes,         *)
(* catch-up-days,fetch-closes-for-dates,polling-set}.ts,                    *)
(* adapters/db/{quote,close-gap}-repository.ts, worker/catch-up.ts,         *)
(* worker/handlers/{quotes,import}.ts, ops/backfill-close-gaps.ts.          *)
(***************************************************************************)
EXTENDS Naturals, FiniteSetsExt

CONSTANTS
    Assets,       \* assets of listed classes
    Start,        \* the day the behaviour starts on
    MaxDay,       \* the last day it reaches
    TradingDays,  \* the days B3 opens
    YearEnds,     \* the last day of each year but the last
    Supplied,     \* the sets of closes COTAHIST may turn out to have
    CatchUpMax,   \* personal.catchup_max_days
    AnnualMin,    \* quotes.cotahist_annual_min_days
    Lookback,     \* import.subscription_close_lookback_days
    Bound         \* the numbers of events of each kind a behaviour may reach

\* fault: a run ends before its last write; fetch: an import fetches closes;
\* backfill: an operator runs the backfill; trade: the assets held change;
\* outage: a file that exists cannot be read.
Events == {"fault", "fetch", "backfill", "trade", "outage"}

ASSUME DaysAssumption ==
    /\ Start \in Nat /\ MaxDay \in Nat /\ 1 <= Start /\ Start <= MaxDay
    /\ TradingDays \subseteq 1..MaxDay /\ YearEnds \subseteq 1..MaxDay
ASSUME SupplyAssumption == Supplied \subseteq SUBSET (Assets \X TradingDays)
ASSUME LimitsAssumption ==
    /\ CatchUpMax \in Nat \ {0} /\ AnnualMin \in Nat \ {0} /\ Lookback \in Nat \ {0}
    /\ Bound \subseteq [Events -> Nat]

VARIABLES
    day,         \* clock.today()
    evening,     \* today's close-capture time has passed
    published,   \* the last day COTAHIST covers
    supply,      \* the closes B3 has, published or not
    held,        \* assets in a position that is not zero
    close,       \* price_quotes: where the close of each day came from
    gap,         \* price_quote_gaps: why a close is missing
    sync,        \* the capture or catch-up run
    fill,        \* the import or backfill run
    debt,        \* days a sync changed and no rebuild was asked for yet
    excused,     \* history: the days a hole is accounted for
    spent        \* events so far

rows  == <<close, gap>>
world == <<day, evening, published, supply, held>>
vars  == <<world, rows, sync, fill, debt, excused, spent>>

Pairs    == Assets \X TradingDays
Sources  == {"none", "other", "official"}
Reasons  == {"none", "retryable", "not_supplied"}
Verdicts == {"found", "not_supplied", "unavailable"}
Pcs      == {"idle", "found", "gap", "delete", "unavailable", "rebuild"}

\* left: pairs answered and not yet dealt with, by verdict; prior: pairs that
\* had a close when the run planned; first: earliestCloseFrom, read once per
\* asset (0: no close; MaxDay + 1: not read yet); doomed: the close about to be
\* deleted; changed: dates noted.
NoLeft == [v \in Verdicts |-> {}]
Unread == [a \in Assets |-> MaxDay + 1]
IdleSync == [pc |-> "idle", left |-> NoLeft, prior |-> {}, first |-> Unread, doomed |-> {}, changed |-> {}]

Run == [pc : Pcs, left : [Verdicts -> SUBSET Pairs], prior : SUBSET Pairs,
        first : [Assets -> 0..MaxDay + 1], doomed : SUBSET Pairs, changed : SUBSET TradingDays]

TypeOK ==
    /\ day \in Start..MaxDay /\ evening \in BOOLEAN /\ published \in 0..day
    /\ supply \in SUBSET Pairs /\ held \in SUBSET Assets
    /\ close \in [Pairs -> Sources] /\ gap \in [Pairs -> Reasons]
    /\ sync \in Run /\ sync.doomed \subseteq sync.prior
    /\ fill \in SUBSET Pairs /\ debt \in SUBSET TradingDays /\ excused \in SUBSET Pairs
    /\ spent \in [Events -> Nat]

-----------------------------------------------------------------------------
(* The window: catch-up-days.ts. *)

May(e) == \E b \in Bound : /\ spent[e] < b[e]
                           /\ \A k \in Events : spent[k] <= b[k]
Count(e) == spent' = [spent EXCEPT ![e] = @ + 1]

LatestOf(S) == IF S = {} THEN 0 ELSE Max(S)

LastDue == IF evening /\ day \in TradingDays THEN day ELSE day - 1
Due == {d \in TradingDays : d <= LastDue}

LastClose(a) == LatestOf({d \in TradingDays : close[<<a, d>>] # "none"})

\* Faulty variant: the newest close captured counts for every asset (#169).
NewestLastClose == LatestOf({LastClose(a) : a \in held})

\* An asset with no close has no say in the window; 0 when none has one.
OldestLastClose ==
    LET lasts == {LastClose(a) : a \in held} \ {0} IN IF lasts = {} THEN 0 ELSE Min(lasts)

Missed == {d \in Due : d > OldestLastClose}
Kept == {d \in Missed : Cardinality({e \in Missed : e >= d}) <= CatchUpMax}

Window ==
    IF held = {} THEN {}
    ELSE IF OldestLastClose = 0 THEN {d \in Due : d = Max(Due)}
    ELSE Kept

\* Days a plan leaves out that no later one asks for: those beyond the cap,
\* and every day before an asset's first answer.
LeftOut == {p \in held \X (Due \ Window) :
              IF LastClose(p[1]) = 0 THEN TRUE ELSE p[2] \in Missed}

-----------------------------------------------------------------------------
(* What COTAHIST answers: fetch-official-closes.ts. *)

YearOf(d) == Cardinality({e \in YearEnds : e < d})
DaysOf(P) == {p[2] : p \in P}

\* A year is read through its annual file when enough of its days are wanted,
\* and else day by day.
Annual(days, d) == Cardinality({e \in days : YearOf(e) = YearOf(d)}) >= AnnualMin

\* The days that may be left unread.  An annual file is readable or not as a
\* whole.  A past day with no daily file any more falls back to the annual
\* file, which, unreadable, leaves it and the later days of its year unread.
Unreadable(days) ==
    {U \in SUBSET days : \A d, e \in days :
        Annual(days, d) /\ YearOf(d) = YearOf(e) => (d \in U <=> e \in U)}

\* What the files say of a pair, when the days of U cannot be read.
Verdict(p, U) ==
    IF p[2] \in U THEN "unavailable"
    ELSE IF p[2] > published THEN "unpublished"
    ELSE IF p \in supply THEN "found" ELSE "not_supplied"

\* The pairs wanted, sorted; nothing is done about the unpublished ones.
Sorted(wanted, U) == [v \in Verdicts |-> {p \in wanted : Verdict(p, U) = v}]

\* Pairs are dealt with in a fixed order, an asset's days ascending.  The order
\* between assets, whose rows are independent, is left to CHOOSE.
First(P) == CHOOSE p \in P : \A q \in P : p[2] <= q[2]

\* Faulty variant: the gap of the day is left for someone else to clear.
UpsertKeepsGap(p) == close' = [close EXCEPT ![p] = "official"] /\ UNCHANGED gap

\* upsertClosePrice: the gap of the day goes in the same transaction.
UpsertClosePrice(p) ==
    /\ close' = [close EXCEPT ![p] = "official"]
    /\ gap' = [gap EXCEPT ![p] = "none"]

-----------------------------------------------------------------------------
(* syncOfficialCloses, one statement at a time. *)

Wanted ==
    {p \in held \X Window : close[p] # "official"}
        \cup {p \in Pairs : close[p] = "other"}
        \cup {p \in Pairs : gap[p] = "retryable"}

\* Where the run goes when nothing of a verdict is left.
NextPc(left) ==
    IF left["found"] # {} THEN "found"
    ELSE IF left["not_supplied"] # {} THEN "gap"
    ELSE IF left["unavailable"] # {} THEN "unavailable"
    ELSE "rebuild"

SyncPlan ==
    /\ sync.pc = "idle"
    /\ UNCHANGED <<world, rows, fill, debt>>
    /\ excused' = excused \cup LeftOut
    /\ \E U \in Unreadable(DaysOf(Wanted)) :
         LET left == Sorted(Wanted, U)
         IN /\ IF U = {} THEN UNCHANGED spent ELSE May("outage") /\ Count("outage")
            /\ sync' = [pc |-> NextPc(left), left |-> left,
                        prior |-> {p \in Pairs : close[p] = "other"},
                        first |-> Unread, doomed |-> {}, changed |-> {}]

Done(v, p) == [sync.left EXCEPT ![v] = @ \ {p}]

SyncFound ==
    /\ sync.pc = "found"
    /\ LET p == First(sync.left["found"])
           left == Done("found", p)
       IN /\ UpsertClosePrice(p)
          /\ sync' = [sync EXCEPT !.left = left, !.pc = NextPc(left), !.changed = @ \cup {p[2]}]
          /\ debt' = debt \cup {p[2]}
    /\ UNCHANGED <<world, fill, excused, spent>>

EarliestOfficial(a) ==
    LET days == {d \in TradingDays : close[<<a, d>>] = "official"}
    IN IF days = {} THEN 0 ELSE Min(days)

FirstOf(a) == IF sync.first[a] = MaxDay + 1 THEN EarliestOfficial(a) ELSE sync.first[a]

\* everPricedBy.
EverPricedBy(p) == FirstOf(p[1]) # 0 /\ FirstOf(p[1]) <= p[2]

\* The gap first, then the delete: recordGap or clearGap.
SyncGap ==
    /\ sync.pc = "gap"
    /\ LET p == First(sync.left["not_supplied"])
           left == Done("not_supplied", p)
       IN /\ gap' = [gap EXCEPT ![p] = IF EverPricedBy(p) THEN "not_supplied" ELSE "none"]
          /\ excused' = IF EverPricedBy(p) THEN excused ELSE excused \cup {p}
          /\ sync' = [sync EXCEPT !.first[p[1]] = FirstOf(p[1]), !.left = left,
                                  !.doomed = sync.prior \cap {p},
                                  !.pc = IF p \in sync.prior THEN "delete" ELSE NextPc(left)]
    /\ UNCHANGED <<world, close, fill, debt, spent>>

\* Faulty variant: a deletion is not noted as a change.
SyncDeleteUnnoted ==
    /\ sync.pc = "delete"
    /\ \E p \in sync.doomed :
         /\ close' = [close EXCEPT ![p] = "none"]
         /\ sync' = [sync EXCEPT !.doomed = {}, !.pc = NextPc(sync.left)]
         /\ debt' = debt \cup {p[2]}
    /\ UNCHANGED <<world, gap, fill, excused, spent>>

SyncDelete ==
    /\ sync.pc = "delete"
    /\ \E p \in sync.doomed :
         /\ close' = [close EXCEPT ![p] = "none"]
         /\ sync' = [sync EXCEPT !.doomed = {}, !.pc = NextPc(sync.left),
                                 !.changed = @ \cup {p[2]}]
         /\ debt' = debt \cup {p[2]}
    /\ UNCHANGED <<world, gap, fill, excused, spent>>

\* Faulty variant: a day that could not be read leaves no trace.
SyncUnavailableSilent ==
    /\ sync.pc = "unavailable"
    /\ LET left == Done("unavailable", First(sync.left["unavailable"]))
       IN sync' = [sync EXCEPT !.left = left, !.pc = NextPc(left)]
    /\ UNCHANGED <<world, rows, fill, debt, excused, spent>>

\* A day that could not be read leaves a stored close alone.
SyncUnavailable ==
    /\ sync.pc = "unavailable"
    /\ LET p == First(sync.left["unavailable"])
           left == Done("unavailable", p)
       IN /\ gap' = [gap EXCEPT ![p] = IF p \in sync.prior THEN @ ELSE "retryable"]
          /\ sync' = [sync EXCEPT !.left = left, !.pc = NextPc(left)]
    /\ UNCHANGED <<world, close, fill, debt, excused, spent>>

\* The caller asks for one rebuild from the earliest day changed.
SyncRebuild ==
    /\ sync.pc = "rebuild"
    /\ debt' = IF sync.changed = {} THEN debt ELSE {d \in debt : d < Min(sync.changed)}
    /\ sync' = IdleSync
    /\ UNCHANGED <<world, rows, fill, excused, spent>>

-----------------------------------------------------------------------------
(* The other writers of closes. *)

\* An earlier, or a later, day of the asset is in K.
Earlier(p, K) == \E d \in TradingDays : d < p[2] /\ <<p[1], d>> \in K
Later(p, K) == \E d \in TradingDays : d > p[2] /\ <<p[1], d>> \in K

Closed(C) == {p \in Pairs : C[p] # "none"}
Known(C, G) == {p \in Pairs : C[p] # "none" \/ G[p] # "none"}

\* Days with neither close nor gap, after a day that has one and before a
\* close: no later window reaches back to them.
Holes(C, G) == {p \in Pairs \ Known(C, G) : Earlier(p, Known(C, G)) /\ Later(p, Closed(C))}

\* fetchClosesForDates: a day is covered by an official close a few days old.
Covered(a, upTo) ==
    LET last == LatestOf({d \in TradingDays : d <= upTo /\ close[<<a, d>>] # "none"})
    IN last # 0 /\ close[<<a, last>>] = "official" /\ upTo <= last + Lookback

\* A run that writes what it found of the pairs it wanted.
Fetches(wanted) == \E U \in Unreadable(DaysOf(wanted)) : fill' = Sorted(wanted, U)["found"]

ImportFetches ==
    /\ fill = {} /\ May("fetch") /\ Count("fetch")
    /\ UNCHANGED <<world, rows, sync, debt, excused>>
    /\ \E a \in Assets, upTo \in 1..day :
         /\ ~Covered(a, upTo)
         /\ Fetches({a} \X {d \in TradingDays : d <= upTo /\ upTo <= d + Lookback})

\* backfillCloseGaps, run by an operator.
BackfillFetches ==
    /\ fill = {} /\ May("backfill") /\ Count("backfill")
    /\ UNCHANGED <<world, rows, sync, debt, excused>>
    /\ Fetches({p \in Pairs : gap[p] = "retryable"})

\* Pairs the sync in progress has still to deal with.
Asked == UNION {sync.left[v] : v \in Verdicts}

\* Days between two that are known or asked for, and are neither themselves.
Between(K) == {p \in Pairs \ K : Earlier(p, K) /\ Later(p, K)}

\* A fill asks for a few days only: those of its asset that it leaves between
\* two known or asked for, it may leave for good.
FillWrite ==
    /\ fill # {}
    /\ UpsertClosePrice(First(fill)) /\ fill' = fill \ {First(fill)}
    /\ excused' = excused \cup {p \in Between(Known(close', gap') \cup Asked) : p[1] = First(fill)[1]}
    /\ UNCHANGED <<world, sync, debt, spent>>

\* A process dies, or a statement fails, before a run's next write.  Of the
\* holes there are, only those the run had still to deal with are its doing.
Fault ==
    /\ May("fault") /\ Count("fault")
    /\ \/ /\ sync # IdleSync /\ sync' = IdleSync /\ UNCHANGED fill
          /\ excused' = excused \cup (Holes(close, gap) \cap Asked)
       \/ fill # {} /\ fill' = {} /\ UNCHANGED <<sync, excused>>
    /\ UNCHANGED <<world, rows, debt>>

-----------------------------------------------------------------------------
(* The world: time, B3, and what users hold. *)

\* A run takes minutes: half a day does not pass within it.
Tick ==
    /\ sync.pc = "idle" /\ fill = {}
    /\ IF evening THEN day < MaxDay /\ day' = day + 1 ELSE day' = day
    /\ evening' = ~evening
    /\ UNCHANGED <<published, supply, held, rows, sync, fill, debt, excused, spent>>

\* Faulty variant: the file of a day comes before the day.
PublishEarly ==
    /\ \E d \in TradingDays : published < d
    /\ published' = Min({d \in TradingDays : d > published})
    /\ UNCHANGED <<day, evening, supply, held, rows, sync, fill, debt, excused, spent>>

\* B3 publishes the days in order, each when it likes.
Publish ==
    /\ \E d \in TradingDays : published < d /\ d <= day
    /\ published' = Min({d \in TradingDays : d > published})
    /\ UNCHANGED <<day, evening, supply, held, rows, sync, fill, debt, excused, spent>>

\* A sold asset leaves the window, and with it the days it was still owed.
Trade ==
    /\ May("trade") /\ Count("trade")
    /\ \E a \in Assets :
         \/ a \notin held /\ held' = held \cup {a} /\ UNCHANGED excused
         \/ /\ a \in held /\ held' = held \ {a}
            /\ excused' = excused \cup (({a} \X Due) \ Known(close, gap))
    /\ UNCHANGED <<day, evening, published, supply, rows, sync, fill, debt>>

\* The rows an instance may start with: closes of the former provider since
\* the day an asset was first held, and gaps for the days it lacked.
Former == {d \in TradingDays : d < Start}
Inherited ==
    {r \in [Pairs -> {<<"none", "none">>, <<"other", "none">>, <<"none", "retryable">>}] :
        \A p \in Pairs :
          /\ p[2] \notin Former => r[p] = <<"none", "none">>
          /\ r[p][2] = "retryable" => \E d \in Former : d < p[2] /\ r[<<p[1], d>>][1] = "other"
          /\ \A d \in Former : d > p[2] /\ r[p] # <<"none", "none">> => r[<<p[1], d>>] # <<"none", "none">>}

Init ==
    /\ day = Start /\ evening = FALSE /\ published = LatestOf(Former)
    /\ supply \in Supplied /\ held \in SUBSET Assets
    /\ \E r \in Inherited : /\ close = [p \in Pairs |-> r[p][1]]
                            /\ gap = [p \in Pairs |-> r[p][2]]
    /\ sync = IdleSync /\ fill = {} /\ debt = {} /\ excused = {}
    /\ spent = [e \in Events |-> 0]

Sync == SyncFound \/ SyncGap \/ SyncDelete \/ SyncUnavailable \/ SyncRebuild

Next ==
    \/ SyncPlan \/ Sync
    \/ ImportFetches \/ BackfillFetches \/ FillWrite
    \/ Fault \/ Tick \/ Publish \/ Trade

Spec == Init /\ [][Next]_vars

\* The worker is started, and the job scheduled, for ever; a run in flight
\* goes on; B3 publishes every day in the end.
FairSpec ==
    Spec /\ WF_vars(SyncPlan) /\ WF_vars(Sync) /\ WF_vars(FillWrite)
         /\ WF_vars(Tick) /\ WF_vars(Publish)

-----------------------------------------------------------------------------
(* Properties. *)

\* Between runs, a day without close or gap that lies between an earlier answer
\* and a later close of its asset is one of these: beyond the cap, or before the
\* asset had any close (LeftOut); a gap not kept because the asset had never been
\* priced (SyncGap); a day a run had still to deal with when it was cut off
\* (Fault: MCClosesHole); skipped by an import's or a backfill's own days
\* (FillWrite); owed to an asset when it was sold (Trade).  No day is lost
\* because one asset's newer close hid another's missing day, or because a file
\* was unreadable, or by a run that ends (sync-official-closes.ts window and gap
\* writes, catch-up-days.ts).
NoSilentHole == sync.pc = "idle" => Holes(close, gap) \subseteq excused

\* What the comment at sync-official-closes.ts:235 promises of its order of
\* writes: no day is left with neither a close nor a gap, outside any later
\* window.  The closes of later days are written before the gaps of earlier ones.
NoHole == sync.pc = "idle" => Holes(close, gap) = {}

\* A run that ends by itself has asked to rebuild the snapshots from the
\* earliest day whose close it wrote or deleted (handleQuotesCloseCapture and
\* runCatchUp, on what syncOfficialCloses returns).
RebuildAsked == sync.pc = "idle" /\ spent["fault"] = 0 => debt = {}

\* The same of runs cut off before the request: the retry finds nothing changed.
NoDebt == sync.pc = "idle" => debt = {}

\* From some time on no close of the former provider is left, and no day has
\* both a close and a gap, whatever was cut off between the gap and the delete
\* (sync-official-closes.ts:235-248, upsertClosePrice).
Agreed(p) == close[p] # "other" /\ (close[p] = "none" \/ gap[p] = "none")
FinallyAgreed == <>[](\A p \in Pairs : Agreed(p))

\* From some time on every due day of an asset held, after its first official
\* close, has a close, a gap, or a rule of the window that leaves it out.
Owed(p) == /\ p[1] \in held /\ p[2] \in Due
           /\ \E d \in TradingDays : d < p[2] /\ close[<<p[1], d>>] = "official"
Answered(p) == p \in Known(close, gap) \/ p \in excused
FinallyAnswered == <>[](\A p \in Pairs : Owed(p) => Answered(p))
=============================================================================
