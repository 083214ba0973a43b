-------------------------- MODULE OpportunityWatch --------------------------
(***************************************************************************)
(* The opportunity watch of one tenant.  `quotes.poll` stores a quote for   *)
(* every held asset priced intraday and sends an `opportunity.evaluate` job *)
(* for those; nothing else sends one.  The job reads the tenant's rules     *)
(* against the stored quotes in one transaction, claims the emails it owes  *)
(* in the notification log, records the state it read, commits, and only    *)
(* then sends.  Meanwhile users trade, look quotes up and edit their rules  *)
(* from the web process.                                                    *)
(*                                                                          *)
(* The session is open.  Time is what it changes: a quote grows stale, a    *)
(* cooldown ends.  A quote is identified by `seen`, which stands for its    *)
(* quotedAt: the provider may answer twice with the same one.               *)
(*                                                                          *)
(* Source: core/opportunity/{rule,evaluate,notify,run-evaluation}.ts,       *)
(* worker/handlers/{quotes,opportunity}.ts, core/quotes/poll-held-asset.ts, *)
(* adapters/db/opportunity-*.ts, app/(app)/watch/actions.ts.                *)
(***************************************************************************)
EXTENDS Naturals, FiniteSets

CONSTANTS
    Assets,      \* assets of a watchable class
    Intraday,    \* those priced intraday; a Treasury bond has one close a day
    Rules,       \* rule ids
    Watches,     \* Watches[r]: the asset of rule r
    Prices,      \* prices a quote may have
    Shapes,      \* bounds and default state a user may give a rule
    Jobs,        \* opportunity.evaluate jobs pg-boss can hold at once
    Passes,      \* executions of its handler the worker can have in flight
    Editors,     \* requests that edit a rule
    MaxSeen,     \* quotes of an asset a behaviour may reach
    RetryLimit,  \* pg-boss retries of the two queues
    Bound        \* the numbers of mishaps of each kind a behaviour may reach

States == {"buy", "hold", "sell"}

\* No bound on that side.
NoBound == [price |-> 0, state |-> "none"]
BoundSpec == [price : Prices, state : States] \cup {NoBound}
Shape == {s \in [lower : BoundSpec, upper : BoundSpec, default : States] :
            /\ s.lower # NoBound \/ s.upper # NoBound
            /\ s.lower # NoBound /\ s.upper # NoBound => s.lower.price < s.upper.price}

\* fault: the worker dies, or the tenant's transaction fails; expiry: a job
\* expires while its handler runs; miss: a quote cannot be had; lapse: a quote
\* grows stale; refresh, trade, silence, edit, delete: what the user does.
Mishaps == {"fault", "expiry", "miss", "lapse", "refresh", "trade", "silence", "edit", "delete"}

ASSUME PricesAssumption == Prices \subseteq Nat \ {0} /\ Shapes \subseteq Shape /\ Shapes # {}
ASSUME RulesAssumption == Watches \in [Rules -> Assets] /\ Rules # {} /\ Intraday \subseteq Assets
ASSUME JobsAssumption == Jobs # {}
ASSUME BoundsAssumption == MaxSeen \in Nat /\ RetryLimit \in Nat /\ Bound \subseteq [Mishaps -> Nat]

VARIABLES
    quote,    \* the stored quote of each asset, or its latest close; seen = 0 is none
    fresh,    \* assets whose quote was fetched within the cadence; or close, the last there is
    held,     \* assets the tenant holds
    open,     \* consented to email reminders, and outside quiet hours?
    rule,     \* opportunity_rules
    log,      \* opportunity_notifications
    cooling,  \* rules whose last logged email is within the cooldown
    sent,     \* emails sent for each claim
    poll,     \* the quotes.poll job and its handler
    job,      \* opportunity.evaluate jobs
    pass,     \* executions of handleOpportunityEvaluate
    edit,     \* requests that edit a rule
    spent     \* mishaps so far

market == <<quote, fresh>>
tenant == <<held, open, rule, log, cooling>>
worker == <<poll, job, pass>>
vars == <<market, tenant, sent, worker, edit, spent>>

\* `new` before its insert, `gone` after its delete.
Rule == [is : {"new", "live", "gone"}, shape : Shape, last : States \cup {"none"},
         active : BOOLEAN, muted : BOOLEAN]

\* opportunity_notifications_rule_id_state_quote_observed_at_key
Claim == Rules \X States \X (1..MaxSeen)

Job == [state : {"none", "queued", "active"}, try : Nat, assets : SUBSET Assets]
Poll == [state : {"none", "queued", "active"}, try : Nat, up : BOOLEAN,
         todo : SUBSET Assets, got : SUBSET Assets]

\* What a pass read of one rule: the state, the quote, and whether to email.
Reading == [state : States, seen : 1..MaxSeen, send : BOOLEAN]
Readings == UNION {[D -> Reading] : D \in SUBSET Rules}
Pass == [pc : {"idle", "read", "commit", "send"}, job : Jobs, live : BOOLEAN,
         flips : SUBSET (Rules \X BOOLEAN), read : Readings, mails : SUBSET Claim]
Edit == [pc : {"idle", "write"}, rule : Rules, shape : Shape, muted : BOOLEAN]

NoPoll == [state |-> "none", try |-> 0, up |-> FALSE, todo |-> {}, got |-> {}]
NoJob  == [state |-> "none", try |-> 0, assets |-> {}]
Nothing == [r \in {} |-> 0]
Idle == [pc |-> "idle", job |-> CHOOSE j \in Jobs : TRUE, live |-> FALSE,
         flips |-> {}, read |-> Nothing, mails |-> {}]
NoEdit == [pc |-> "idle", rule |-> CHOOSE r \in Rules : TRUE,
           shape |-> CHOOSE s \in Shapes : TRUE, muted |-> FALSE]

MarketOK ==
    /\ quote \in [Assets -> [seen : 0..MaxSeen, price : Prices \cup {0}]]
    /\ fresh \subseteq {a \in Assets : quote[a].seen > 0}

TenantOK ==
    /\ held \subseteq Assets
    /\ open \in BOOLEAN
    /\ rule \in [Rules -> Rule]
    /\ log \subseteq Claim
    /\ cooling \subseteq Rules

WorkerOK ==
    /\ poll \in Poll
    /\ job \in [Jobs -> Job]
    /\ pass \in [Passes -> Pass]

TypeOK ==
    /\ MarketOK /\ TenantOK /\ WorkerOK
    /\ sent \in [Claim -> Nat]
    /\ edit \in [Editors -> Edit]
    /\ spent \in [Mishaps -> Nat]

Init ==
    /\ quote = [a \in Assets |-> [seen |-> 0, price |-> 0]]
    /\ fresh = {}
    /\ held = Assets
    /\ open = TRUE
    /\ rule = [r \in Rules |-> [is |-> "new", shape |-> CHOOSE s \in Shapes : TRUE,
                                last |-> "none", active |-> TRUE, muted |-> FALSE]]
    /\ log = {}
    /\ cooling = {}
    /\ sent = [k \in Claim |-> 0]
    /\ poll = NoPoll
    /\ job = [j \in Jobs |-> NoJob]
    /\ pass = [p \in Passes |-> Idle]
    /\ edit = [e \in Editors |-> NoEdit]
    /\ spent = [m \in Mishaps |-> 0]

Mishap(m) ==
    /\ spent' = [spent EXCEPT ![m] = @ + 1]
    /\ spent' \in Bound

Without(kinds) == \A m \in kinds : spent[m] = 0

Live == {r \in Rules : rule[r].is = "live"}

-----------------------------------------------------------------------------
(* Quotes *)

\* What a fetch stores: a quote not seen before, or the one stored already.
Observe(a) ==
    /\ \/ /\ quote[a].seen < MaxSeen
          /\ \E p \in Prices : quote' = [quote EXCEPT ![a] = [seen |-> @.seen + 1, price |-> p]]
       \/ quote[a].seen > 0 /\ UNCHANGED quote
    /\ fresh' = fresh \cup {a}

\* The cron's tick; a job already waiting absorbs it.
PollTick ==
    /\ poll.state = "none"
    /\ poll' = [NoPoll EXCEPT !.state = "queued"]
    /\ UNCHANGED <<market, tenant, sent, job, pass, edit, spent>>

\* The polling set: the held assets of the classes priced intraday.
PollBegin ==
    LET polling == held \cap Intraday IN
    /\ poll.state = "queued"
    /\ poll' = IF polling = {} THEN NoPoll
               ELSE [poll EXCEPT !.state = "active", !.up = TRUE, !.todo = polling, !.got = {}]
    /\ UNCHANGED <<market, tenant, sent, job, pass, edit, spent>>

Polled(a) == poll' = [poll EXCEPT !.todo = @ \ {a}, !.got = @ \cup {a}]

\* Faulty variant: an asset that was already fresh is not evaluated.
PollFreshDropped(a) ==
    /\ a \in poll.todo \cap fresh
    /\ poll' = [poll EXCEPT !.todo = @ \ {a}]
    /\ UNCHANGED <<market, tenant, sent, job, pass, edit, spent>>

\* already_fresh, polled, and failed or skipped_budget.
PollFresh(a) ==
    /\ a \in poll.todo \cap fresh
    /\ Polled(a)
    /\ UNCHANGED <<market, tenant, sent, job, pass, edit, spent>>

PollFetch(a) ==
    /\ a \in poll.todo \ fresh
    /\ Observe(a)
    /\ Polled(a)
    /\ UNCHANGED <<tenant, sent, job, pass, edit, spent>>

\* Faulty variant: a fetch that failed starts the cadence window anew.
PollMissCounted(a) ==
    /\ a \in poll.todo \ fresh
    /\ Mishap("miss")
    /\ fresh' = fresh \cup {a}
    /\ poll' = [poll EXCEPT !.todo = @ \ {a}]
    /\ UNCHANGED <<quote, tenant, sent, job, pass, edit>>

PollMiss(a) ==
    /\ a \in poll.todo \ fresh
    /\ Mishap("miss")
    /\ poll' = [poll EXCEPT !.todo = @ \ {a}]
    /\ UNCHANGED <<market, tenant, sent, job, pass, edit>>

PollSend ==
    /\ poll.up
    /\ poll.todo = {}
    /\ IF poll.got = {} THEN UNCHANGED job
       ELSE \E j \in Jobs :
              /\ job[j].state = "none"
              /\ job' = [job EXCEPT ![j] = [state |-> "queued", try |-> 0, assets |-> poll.got]]
    /\ poll' = NoPoll
    /\ UNCHANGED <<market, tenant, sent, pass, edit, spent>>

\* getQuote in the web process: the quote is missing or stale, or the user asks
\* for a new one all the same; or tesouro.sync stores a close.  Neither sends an
\* evaluation.
OnDemand(a) ==
    /\ IF a \in fresh THEN Mishap("refresh") ELSE UNCHANGED spent
    /\ Observe(a)
    /\ UNCHANGED <<tenant, sent, worker, edit>>

Lapse(a) ==
    /\ a \in fresh
    /\ Mishap("lapse")
    /\ fresh' = fresh \ {a}
    /\ UNCHANGED <<quote, tenant, sent, worker, edit>>

-----------------------------------------------------------------------------
(* Evaluation *)

\* evaluateRule's comparison
EvaluateRule(s, price) ==
    IF s.lower # NoBound /\ price <= s.lower.price THEN s.lower.state
    ELSE IF s.upper # NoBound /\ price >= s.upper.price THEN s.upper.state
    ELSE s.default

StateOf(r) == EvaluateRule(rule[r].shape, quote[Watches[r]].price)

\* Faulty variant: the cooldown is not looked at.
DecidesToSendHot(r) ==
    /\ ~rule[r].muted
    /\ open
    /\ rule[r].last \notin {"none", StateOf(r)}

\* decideNotification, for a rule that is active and a quote that is known
DecidesToSend(r) ==
    /\ ~rule[r].muted
    /\ open
    /\ r \notin cooling
    /\ rule[r].last \notin {"none", StateOf(r)}

\* One pass runs at a time, unless an earlier one outlived its job.
Deliver(p, j) ==
    /\ job[j].state = "queued"
    /\ pass[p].pc = "idle"
    /\ \A q \in Passes : ~pass[q].live
    /\ job' = [job EXCEPT ![j].state = "active"]
    /\ pass' = [pass EXCEPT ![p] = [Idle EXCEPT !.pc = "read", !.job = j, !.live = TRUE]]
    /\ UNCHANGED <<market, tenant, sent, poll, edit, spent>>

\* The reads of evaluateOpportunities: activation is recomputed from what is
\* held, then the active rules on the job's assets are read with their quotes.
Read(p) ==
    LET watching == {r \in Live : Watches[r] \in held /\ Watches[r] \in job[pass[p].job].assets}
        known == {r \in watching : Watches[r] \in fresh} IN
    /\ pass[p].pc = "read"
    /\ pass' = [pass EXCEPT
         ![p].pc = "commit",
         ![p].flips = {f \in Live \X BOOLEAN : f[2] = (Watches[f[1]] \in held) /\ rule[f[1]].active # f[2]},
         ![p].read = [r \in known |-> [state |-> StateOf(r), seen |-> quote[Watches[r]].seen,
                                       send |-> DecidesToSend(r)]]]
    /\ UNCHANGED <<market, tenant, sent, poll, job, edit, spent>>

Claims(p) ==
    {<<r, pass[p].read[r].state, pass[p].read[r].seen>> :
        r \in {x \in DOMAIN pass[p].read : pass[p].read[x].send}}

\* Faulty variant: a claim already logged counts as won.
WonAlways(p) == Claims(p)

\* INSERT ... ON CONFLICT DO NOTHING: the claims whose insert lands.
Won(p) == Claims(p) \ log

\* A claim refers to its rule.
Claimable(p) == \A k \in Claims(p) : k[1] \in Live

\* Whatever became of the claim, recordObservation follows it.
Observed(p) == DOMAIN pass[p].read

\* The writes of the pass, at the commit of the tenant's transaction.
Commit(p) ==
    /\ pass[p].pc = "commit"
    /\ Claimable(p)
    /\ log' = log \cup Won(p)
    /\ cooling' = cooling \cup {k[1] : k \in Won(p)}
    /\ rule' = [r \in Rules |->
                  IF r \notin Live THEN rule[r]
                  ELSE [rule[r] EXCEPT
                          !.active = (@ \/ <<r, TRUE>> \in pass[p].flips) /\ <<r, FALSE>> \notin pass[p].flips,
                          !.last = IF r \in Observed(p) THEN pass[p].read[r].state ELSE @]]
    /\ pass' = [pass EXCEPT ![p].pc = "send", ![p].mails = Won(p),
                            ![p].flips = {}, ![p].read = Nothing]
    /\ UNCHANGED <<market, held, open, sent, poll, job, edit, spent>>

Abandon(p) ==
    /\ pass[p].pc = "commit"
    /\ pass' = [pass EXCEPT ![p].pc = "send", ![p].flips = {}, ![p].read = Nothing]

\* The transaction fails and rolls back; the handler logs it and goes on.
TenantFails(p) ==
    /\ Abandon(p)
    /\ IF Claimable(p) THEN Mishap("fault") ELSE UNCHANGED spent
    /\ UNCHANGED <<market, tenant, sent, poll, job, edit>>

\* Each alert is sent once; a delivery that fails is logged and dropped.
Send(p) ==
    /\ pass[p].pc = "send"
    /\ \E k \in pass[p].mails :
         /\ pass' = [pass EXCEPT ![p].mails = @ \ {k}]
         /\ \/ sent' = [sent EXCEPT ![k] = @ + 1]
            \/ UNCHANGED sent
    /\ UNCHANGED <<market, tenant, poll, job, edit, spent>>

Ack(p) ==
    /\ pass[p].pc = "send"
    /\ pass[p].mails = {}
    /\ job' = IF pass[p].live THEN [job EXCEPT ![pass[p].job] = NoJob] ELSE job
    /\ pass' = [pass EXCEPT ![p] = Idle]
    /\ UNCHANGED <<market, tenant, sent, poll, edit, spent>>

-----------------------------------------------------------------------------
(* pg-boss and the worker process *)

AfterFailure(j, none) ==
    IF j.try < RetryLimit THEN [j EXCEPT !.state = "queued", !.try = @ + 1] ELSE none

\* The enqueue fails, after quotes were written.
PollFails ==
    /\ poll.up
    /\ Mishap("fault")
    /\ poll' = AfterFailure([NoPoll EXCEPT !.state = "active", !.try = poll.try], NoPoll)
    /\ UNCHANGED <<market, tenant, sent, job, pass, edit>>

PollExpires ==
    /\ poll.state = "active"
    /\ ~poll.up
    /\ poll' = AfterFailure([NoPoll EXCEPT !.state = "active", !.try = poll.try], NoPoll)
    /\ UNCHANGED <<market, tenant, sent, job, pass, edit, spent>>

ExpireOrphan(j) ==
    /\ job[j].state = "active"
    /\ \A p \in Passes : ~(pass[p].live /\ pass[p].job = j)
    /\ job' = [job EXCEPT ![j] = AfterFailure(@, NoJob)]
    /\ UNCHANGED <<market, tenant, sent, poll, pass, edit, spent>>

ExpireLive(p) ==
    /\ pass[p].live
    /\ Mishap("expiry")
    /\ job' = [job EXCEPT ![pass[p].job] = AfterFailure(@, NoJob)]
    /\ pass' = [pass EXCEPT ![p].live = FALSE]
    /\ UNCHANGED <<market, tenant, sent, poll, edit>>

Crash ==
    /\ poll.up \/ \E p \in Passes : pass[p].pc # "idle"
    /\ Mishap("fault")
    /\ poll' = [poll EXCEPT !.up = FALSE, !.todo = {}, !.got = {}]
    /\ pass' = [p \in Passes |-> Idle]
    /\ UNCHANGED <<market, tenant, sent, job, edit>>

-----------------------------------------------------------------------------
(* The user, and time *)

CreateRule(r, s) ==
    /\ rule[r].is = "new"
    /\ Watches[r] \in held
    /\ \A x \in Live : Watches[x] # Watches[r]
    /\ rule' = [rule EXCEPT ![r].is = "live", ![r].shape = s]
    /\ UNCHANGED <<market, held, open, log, cooling, sent, worker, edit, spent>>

\* updateRule reads the rule and later writes bounds, default and mute back,
\* the one the user changed and the others as it read them.
EditRead(e, r) ==
    /\ edit[e].pc = "idle"
    /\ r \in Live
    /\ Mishap("edit")
    /\ \/ \E s \in Shapes : edit' = [edit EXCEPT ![e] =
             [pc |-> "write", rule |-> r, shape |-> s, muted |-> rule[r].muted]]
       \/ edit' = [edit EXCEPT ![e] =
             [pc |-> "write", rule |-> r, shape |-> rule[r].shape, muted |-> ~rule[r].muted]]
    /\ UNCHANGED <<market, tenant, sent, worker>>

EditWrite(e) ==
    /\ edit[e].pc = "write"
    /\ rule' = IF edit[e].rule \in Live
                 THEN [rule EXCEPT ![edit[e].rule].shape = edit[e].shape,
                                   ![edit[e].rule].muted = edit[e].muted]
                 ELSE rule
    /\ edit' = [edit EXCEPT ![e] = NoEdit]
    /\ UNCHANGED <<market, held, open, log, cooling, sent, worker, spent>>

\* The log rows of the rule go with it.  A pass that has flipped the rule's
\* activation holds its row.
DeleteRule(r) ==
    /\ r \in Live
    /\ \A p \in Passes : pass[p].flips \cap ({r} \X BOOLEAN) = {}
    /\ Mishap("delete")
    /\ rule' = [rule EXCEPT ![r].is = "gone"]
    /\ log' = {k \in log : k[1] # r}
    /\ cooling' = cooling \ {r}
    /\ UNCHANGED <<market, held, open, sent, worker, edit>>

\* A position opens or closes; consent or quiet hours change.
Trade(a) ==
    /\ Mishap("trade")
    /\ held' = IF a \in held THEN held \ {a} ELSE held \cup {a}
    /\ UNCHANGED <<market, open, rule, log, cooling, sent, worker, edit>>

Silence ==
    /\ Mishap("silence")
    /\ open' = ~open
    /\ UNCHANGED <<market, held, rule, log, cooling, sent, worker, edit>>

CoolDown(r) ==
    /\ r \in cooling
    /\ cooling' = cooling \ {r}
    /\ UNCHANGED <<market, held, open, rule, log, sent, worker, edit, spent>>

-----------------------------------------------------------------------------
PassStep(p) == Read(p) \/ Commit(p) \/ Send(p) \/ Ack(p) \/ (TenantFails(p) /\ ~Claimable(p))
PollStep == PollSend \/ \E a \in Assets : PollFresh(a) \/ PollFetch(a)

Next ==
    \/ PollTick \/ PollBegin \/ PollSend \/ PollFails \/ PollExpires \/ Crash \/ Silence
    \/ \E a \in Assets :
         PollFresh(a) \/ PollFetch(a) \/ PollMiss(a) \/ OnDemand(a) \/ Lapse(a) \/ Trade(a)
    \/ \E p \in Passes :
         \/ Read(p) \/ Commit(p) \/ TenantFails(p) \/ Send(p) \/ Ack(p) \/ ExpireLive(p)
         \/ \E j \in Jobs : Deliver(p, j)
    \/ \E j \in Jobs : ExpireOrphan(j)
    \/ \E r \in Rules : \/ DeleteRule(r) \/ CoolDown(r)
                        \/ \E s \in Shapes : CreateRule(r, s)
                        \/ \E e \in Editors : EditRead(e, r)
    \/ \E e \in Editors : EditWrite(e)

Spec == Init /\ [][Next]_vars

\* While the session is open the cron ticks, and a worker that is up works.
\* Time is not made to pass: no fairness on Lapse or CoolDown.
Fairness ==
    /\ WF_vars(PollTick) /\ WF_vars(PollBegin) /\ WF_vars(PollStep) /\ WF_vars(PollExpires)
    /\ \A p \in Passes : WF_vars(PassStep(p))
    /\ \A j \in Jobs : WF_vars(ExpireOrphan(j)) /\ SF_vars(\E p \in Passes : Deliver(p, j))
    /\ \A e \in Editors : WF_vars(EditWrite(e))

FairSpec == Spec /\ Fairness

-----------------------------------------------------------------------------
\* No state change is emailed twice, and none that is not in the log: whatever
\* is retried, crashes or overlaps, a claim is emailed at most once and only
\* after it is durable (claim, commit then send).
MailsMatchLog ==
    \A k \in Claim : sent[k] > 0 => sent[k] = 1 /\ (k \in log \/ rule[k[1]].is = "gone")

\* Unless a job expires under its handler, what is claimed is a change from the
\* state last recorded, of a rule that is not cooling down: passes that follow
\* each other never email one crossing twice (decideNotification,
\* recordObservation after the claim).
CrossingsClaimedOnce ==
    [][Without({"expiry"})' =>
         \A k \in log' \ log : k[1] \notin cooling /\ rule[k[1]].last \notin {"none", k[2]}]_vars

Watching(r) == r \in Live /\ Watches[r] \in held /\ quote[Watches[r]].seen > 0
Evaluated(r) == Watching(r) ~> (~Watching(r) \/ rule[r].last = StateOf(r))

\* Every live rule on a held asset that is priced intraday comes to show the
\* state its stored quote reads, even when the evaluation that should have
\* followed the quote was lost in a crash (handleQuotesPoll enqueues the assets
\* it finds fresh).
QuoteEvaluated == \A r \in Rules : Watches[r] \in Intraday => Evaluated(r)

\* So does a rule on a Treasury bond, from its latest close
\* (opportunity-read-adapters.ts:52-71 answers evaluations with it).
CloseEvaluated == \A r \in Rules : Watches[r] \notin Intraday => Evaluated(r)

\* Muting a rule never resubmits a stale threshold (watch/actions.ts:137).
MuteKeepsBounds ==
    [][\A e \in Editors :
         edit[e].pc = "write" /\ edit'[e].pc = "idle" /\ edit[e].rule \in Live
         /\ edit[e].muted # rule[edit[e].rule].muted
            => rule'[edit[e].rule].shape = rule[edit[e].rule].shape]_vars
=============================================================================
