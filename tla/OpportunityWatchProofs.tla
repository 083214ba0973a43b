----------------------- MODULE OpportunityWatchProofs -----------------------
(***************************************************************************)
(* Proofs about OpportunityWatch, for any assets, rules, bounds a user may   *)
(* give, jobs, passes, editors and mishaps: its types, that no change is     *)
(* emailed twice or without a row in the log, and that while no job expires  *)
(* under its handler every claim is a crossing out of the recorded state.    *)
(***************************************************************************)
EXTENDS OpportunityWatch, TLAPS

-----------------------------------------------------------------------------
(* Facts about the types *)

LEMMA ReadingsAre ==
    ASSUME NEW f
    PROVE  f \in Readings <=> DOMAIN f \subseteq Rules /\ f \in [DOMAIN f -> Reading]
  BY DEF Readings

LEMMA NothingRead == Nothing \in Readings /\ DOMAIN Nothing = {}
  <1>1. DOMAIN Nothing = {} /\ Nothing \in [{} -> Reading]
    BY DEF Nothing
  <1> QED
    BY <1>1, ReadingsAre

LEMMA IdleTyped ==
    /\ Idle \in Pass
    /\ Idle.pc = "idle" /\ ~Idle.live /\ Idle.flips = {} /\ Idle.mails = {}
    /\ Idle.read = Nothing
  BY NothingRead, JobsAssumption DEF Idle, Pass

LEMMA SomeShape == (CHOOSE s \in Shapes : TRUE) \in Shapes /\ Shapes \subseteq Shape
  BY PricesAssumption

LEMMA NoEditTyped == NoEdit \in Edit
  BY RulesAssumption, SomeShape DEF NoEdit, Edit

\* A rule reads one of the three states, whatever the price.
LEMMA EvaluatesToState ==
    ASSUME NEW s \in Shape, NEW price
    PROVE  EvaluateRule(s, price) \in States
  <1>1. /\ s.default \in States
        /\ s.lower # NoBound => s.lower.state \in States
        /\ s.upper # NoBound => s.upper.state \in States
    BY DEF Shape, BoundSpec
  <1> QED
    BY <1>1 DEF EvaluateRule

LEMMA MishapsCount ==
    ASSUME NEW m, Mishap(m)
    PROVE  spent' \in [Mishaps -> Nat]
  BY BoundsAssumption DEF Mishap

LEMMA RetryTyped ==
    ASSUME NEW n \in Nat
    PROVE  /\ \A j \in Job : [j EXCEPT !.state = "queued", !.try = n] \in Job
           /\ \A j \in Poll : [j EXCEPT !.state = "queued", !.try = n] \in Poll
  BY DEF Job, Poll

LEMMA JobFailureTyped ==
    ASSUME NEW j \in Job
    PROVE  AfterFailure(j, NoJob) \in Job
  <1>1. j.try + 1 \in Nat /\ NoJob \in Job
    BY DEF Job, NoJob
  <1>2. [j EXCEPT !.state = "queued", !.try = @ + 1] \in Job
    BY <1>1, RetryTyped
  <1> QED
    BY <1>1, <1>2 DEF AfterFailure

LEMMA PollFailureTyped ==
    ASSUME NEW j \in Poll
    PROVE  AfterFailure(j, NoPoll) \in Poll
  <1>1. j.try + 1 \in Nat /\ NoPoll \in Poll
    BY DEF Poll, NoPoll
  <1>2. [j EXCEPT !.state = "queued", !.try = @ + 1] \in Poll
    BY <1>1, RetryTyped
  <1> QED
    BY <1>1, <1>2 DEF AfterFailure

\* The updates that a pass, a rule and a poll undergo, field by field.
LEMMA PassUpdated ==
    ASSUME NEW x \in Pass, NEW c \in {"read", "commit", "send"},
           NEW f \in SUBSET (Rules \X BOOLEAN), NEW g \in Readings
    PROVE  /\ [x EXCEPT !.pc = c, !.flips = f, !.read = g] \in Pass
           /\ \A m \in SUBSET Claim :
                [x EXCEPT !.pc = c, !.mails = m, !.flips = f, !.read = g] \in Pass
  BY DEF Pass

LEMMA RuleUpdated ==
    ASSUME NEW x \in Rule, NEW s \in Shape, NEW b \in BOOLEAN
    PROVE  [x EXCEPT !.shape = s, !.muted = b] \in Rule
  BY DEF Rule

LEMMA PollUpdated ==
    ASSUME NEW x \in Poll, NEW a \in Assets
    PROVE  /\ [x EXCEPT !.todo = @ \ {a}] \in Poll
           /\ [x EXCEPT !.todo = @ \ {a}, !.got = @ \cup {a}] \in Poll
  BY DEF Poll

-----------------------------------------------------------------------------
(* Type correctness *)

LEMMA InitTyped == Init => TypeOK
  <1> SUFFICES ASSUME Init PROVE TypeOK
    OBVIOUS
  <1>1. MarketOK
    BY BoundsAssumption DEF Init, MarketOK
  <1>2. TenantOK
    BY SomeShape DEF Init, TenantOK, Rule, States
  <1>3. WorkerOK
    BY IdleTyped DEF Init, WorkerOK, Poll, Job, NoPoll, NoJob
  <1>4. edit \in [Editors -> Edit]
    BY NoEditTyped DEF Init
  <1> QED
    BY <1>1, <1>2, <1>3, <1>4 DEF Init, TypeOK

LEMMA MarketStep == MarketOK /\ [Next]_vars => MarketOK'
  <1> SUFFICES ASSUME MarketOK, [Next]_vars PROVE MarketOK'
    OBVIOUS
  <1>1. ASSUME NEW a \in Assets, Observe(a) PROVE MarketOK'
    BY <1>1, BoundsAssumption DEF MarketOK, Observe
  <1>2. ASSUME NEW a \in Assets, Lapse(a) PROVE MarketOK'
    BY <1>2 DEF MarketOK, Lapse
  <1>3. CASE UNCHANGED market
    BY <1>3 DEF MarketOK, market
  <1> QED
    BY <1>1, <1>2, <1>3
    DEF Next, vars, PollTick, PollBegin, PollSend, PollFails, PollExpires, Crash, Silence,
        PollFresh, PollFetch, PollMiss, OnDemand, Trade, Read, Commit, TenantFails, Send,
        Ack, ExpireLive, Deliver, ExpireOrphan, DeleteRule, CoolDown, CreateRule,
        EditRead, EditWrite, Abandon

\* What a pass is about to write is of the right types.
LEMMA ClaimsTyped ==
    ASSUME TypeOK, NEW p \in Passes
    PROVE  Claims(p) \subseteq Claim
  <1>1. pass[p].read \in Readings
    BY DEF TypeOK, WorkerOK, Pass
  <1>2. /\ DOMAIN pass[p].read \subseteq Rules
        /\ pass[p].read \in [DOMAIN pass[p].read -> Reading]
    BY <1>1, ReadingsAre
  <1> QED
    BY <1>2 DEF Claims, Claim, Reading

LEMMA CommitTyped ==
    ASSUME TypeOK, NEW p \in Passes, Commit(p)
    PROVE  TenantOK'
  <1>1. Won(p) \subseteq Claim
    BY ClaimsTyped DEF Won
  <1>2. (log \subseteq Claim /\ cooling \subseteq Rules)'
    BY <1>1 DEF Commit, TypeOK, TenantOK, Claim
  <1>3. pass[p].read \in [DOMAIN pass[p].read -> Reading]
    BY ReadingsAre DEF TypeOK, WorkerOK, Pass
  <1>4. ASSUME NEW r \in Rules PROVE rule'[r] \in Rule
    <2>1. r \in Observed(p) => pass[p].read[r].state \in States
      BY <1>3 DEF Observed, Reading
    <2>2. rule[r] \in Rule
      BY DEF TypeOK, TenantOK
    <2> QED
      BY <2>1, <2>2 DEF Commit, Rule
  <1>5. rule' \in [Rules -> Rule]
    BY <1>4 DEF Commit
  <1> QED
    BY <1>2, <1>5 DEF Commit, TypeOK, TenantOK

LEMMA TenantStep == TypeOK /\ [Next]_vars => TenantOK'
  <1> SUFFICES ASSUME TypeOK, [Next]_vars PROVE TenantOK'
    OBVIOUS
  <1> USE DEF TypeOK, TenantOK
  <1>1. ASSUME NEW p \in Passes, Commit(p) PROVE TenantOK'
    BY <1>1, CommitTyped
  <1>2. ASSUME NEW r \in Rules, NEW s \in Shapes, CreateRule(r, s) PROVE TenantOK'
    BY <1>2, SomeShape, ZenonT(60) DEF CreateRule, Rule
  <1>3. ASSUME NEW e \in Editors, EditWrite(e) PROVE TenantOK'
    <2>1. edit[e].rule \in Rules /\ edit[e].shape \in Shape /\ edit[e].muted \in BOOLEAN
      BY DEF Edit
    <2>2. ASSUME NEW r \in Rules PROVE rule'[r] \in Rule
      <3>1. CASE r = edit[e].rule /\ r \in Live
        <4>1. rule'[r] = [rule[r] EXCEPT !.shape = edit[e].shape, !.muted = edit[e].muted]
          BY <1>3, <3>1 DEF EditWrite
        <4>2. rule[r] \in Rule
          OBVIOUS
        <4>3. [rule[r] EXCEPT !.shape = edit[e].shape, !.muted = edit[e].muted] \in Rule
          BY <2>1, <4>2, RuleUpdated
        <4> QED
          BY <4>1, <4>3
      <3>2. CASE ~(r = edit[e].rule /\ r \in Live)
        BY <1>3, <2>1, <3>2 DEF EditWrite
      <3> QED
        BY <3>1, <3>2
    <2>3. rule' \in [Rules -> Rule]
      BY <1>3, <2>2 DEF EditWrite
    <2> QED
      BY <1>3, <2>3 DEF EditWrite
  <1>4. ASSUME NEW r \in Rules, DeleteRule(r) PROVE TenantOK'
    BY <1>4 DEF DeleteRule, Rule
  <1>5. ASSUME NEW r \in Rules, CoolDown(r) PROVE TenantOK'
    BY <1>5 DEF CoolDown
  <1>6. ASSUME NEW a \in Assets, Trade(a) PROVE TenantOK'
    BY <1>6 DEF Trade
  <1>7. CASE Silence
    BY <1>7 DEF Silence
  <1>8. CASE UNCHANGED tenant
    BY <1>8 DEF tenant
  <1> QED
    BY <1>1, <1>2, <1>3, <1>4, <1>5, <1>6, <1>7, <1>8
    DEF Next, vars, PollTick, PollBegin, PollSend, PollFails, PollExpires, Crash,
        PollFresh, PollFetch, PollMiss, OnDemand, Lapse, Read, TenantFails, Send,
        Ack, ExpireLive, Deliver, ExpireOrphan, EditRead

LEMMA PollStepTyped == TypeOK /\ [Next]_vars => poll' \in Poll
  <1> SUFFICES ASSUME TypeOK, [Next]_vars PROVE poll' \in Poll
    OBVIOUS
  <1>0. poll \in Poll /\ NoPoll \in Poll /\ held \in SUBSET Assets
    BY DEF TypeOK, WorkerOK, TenantOK, Poll, NoPoll
  <1> DEFINE Failed == [NoPoll EXCEPT !.state = "active", !.try = poll.try]
  <1>1. AfterFailure(Failed, NoPoll) \in Poll
    <2>1. Failed \in Poll
      BY <1>0 DEF Poll, NoPoll
    <2> QED
      BY <2>1, PollFailureTyped
  <1>2. CASE PollTick
    BY <1>2 DEF PollTick, NoPoll, Poll
  <1>3. CASE PollBegin
    BY <1>0, <1>3 DEF PollBegin, Poll
  <1>4. ASSUME NEW a \in Assets, PollFresh(a) \/ PollFetch(a) \/ PollMiss(a) PROVE poll' \in Poll
    BY <1>0, <1>4, PollUpdated DEF PollFresh, PollFetch, PollMiss, Polled
  <1>5. CASE PollSend
    BY <1>0, <1>5 DEF PollSend
  <1>6. CASE PollFails \/ PollExpires
    BY <1>1, <1>6 DEF PollFails, PollExpires
  <1>7. CASE Crash
    BY <1>0, <1>7 DEF Crash, Poll
  <1>8. CASE UNCHANGED poll
    BY <1>0, <1>8
  <1> QED
    BY <1>2, <1>3, <1>4, <1>5, <1>6, <1>7, <1>8
    DEF Next, vars, worker, Silence, OnDemand, Lapse, Trade, Read, Commit, TenantFails, Send,
        Ack, ExpireLive, Deliver, ExpireOrphan, DeleteRule, CoolDown, CreateRule,
        EditRead, EditWrite

LEMMA JobStepTyped == TypeOK /\ [Next]_vars => job' \in [Jobs -> Job]
  <1> SUFFICES ASSUME TypeOK, [Next]_vars PROVE job' \in [Jobs -> Job]
    OBVIOUS
  <1>0. /\ job \in [Jobs -> Job] /\ NoJob \in Job /\ poll \in Poll
        /\ \A p \in Passes : pass[p].job \in Jobs
    BY DEF TypeOK, WorkerOK, Job, NoJob, Pass
  <1>1. ASSUME NEW j \in Jobs PROVE AfterFailure(job[j], NoJob) \in Job
    BY <1>0, JobFailureTyped
  <1>2. CASE PollSend
    BY <1>0, <1>2 DEF PollSend, Job, Poll
  <1>3. ASSUME NEW p \in Passes, NEW j \in Jobs, Deliver(p, j) PROVE job' \in [Jobs -> Job]
    BY <1>0, <1>3 DEF Deliver, Job
  <1>4. ASSUME NEW p \in Passes, Ack(p) PROVE job' \in [Jobs -> Job]
    BY <1>0, <1>4 DEF Ack
  <1>5. ASSUME NEW j \in Jobs, ExpireOrphan(j) PROVE job' \in [Jobs -> Job]
    BY <1>0, <1>1, <1>5 DEF ExpireOrphan
  <1>6. ASSUME NEW p \in Passes, ExpireLive(p) PROVE job' \in [Jobs -> Job]
    BY <1>0, <1>1, <1>6 DEF ExpireLive
  <1>7. CASE UNCHANGED job
    BY <1>0, <1>7
  <1> QED
    BY <1>2, <1>3, <1>4, <1>5, <1>6, <1>7
    DEF Next, vars, worker, PollTick, PollBegin, PollFails, PollExpires, Crash, Silence,
        PollFresh, PollFetch, PollMiss, OnDemand, Lapse, Trade, Read, Commit, TenantFails,
        Send, DeleteRule, CoolDown, CreateRule, EditRead, EditWrite

\* What a pass reads of the rules it knows a fresh quote for.
LEMMA ReadTyped ==
    ASSUME TypeOK, NEW p \in Passes, Read(p)
    PROVE  pass' \in [Passes -> Pass]
  <1> DEFINE watching == {r \in Live : Watches[r] \in held /\ Watches[r] \in job[pass[p].job].assets}
             known == {r \in watching : Watches[r] \in fresh}
             reading == [r \in known |-> [state |-> StateOf(r), seen |-> quote[Watches[r]].seen,
                                          send |-> DecidesToSend(r)]]
  <1>1. ASSUME NEW r \in known PROVE reading[r] \in Reading
    <2>1. r \in Rules /\ Watches[r] \in fresh /\ Watches[r] \in Assets
      BY RulesAssumption DEF Live
    <2>2. rule[r].shape \in Shape
      BY <2>1 DEF TypeOK, TenantOK, Rule
    <2>3. StateOf(r) \in States
      BY <2>2, EvaluatesToState DEF StateOf
    <2>4. quote[Watches[r]].seen \in 1..MaxSeen
      BY <2>1, BoundsAssumption DEF TypeOK, MarketOK
    <2>5. DecidesToSend(r) \in BOOLEAN
      BY DEF DecidesToSend
    <2> QED
      BY <2>3, <2>4, <2>5 DEF Reading
  <1>2. reading \in [known -> Reading] /\ known \subseteq Rules
    BY <1>1 DEF Live
  <1>3. reading \in Readings
    BY <1>2, ReadingsAre
  <1> DEFINE flips == {f \in Live \X BOOLEAN : f[2] = (Watches[f[1]] \in held) /\ rule[f[1]].active # f[2]}
  <1>4. flips \in SUBSET (Rules \X BOOLEAN)
    BY DEF Live
  <1>5. pass' = [pass EXCEPT ![p].pc = "commit", ![p].flips = flips, ![p].read = reading]
    BY DEF Read
  <1>6. pass \in [Passes -> Pass]
    BY DEF TypeOK, WorkerOK
  <1> HIDE DEF reading, flips
  <1>7. [pass[p] EXCEPT !.pc = "commit", !.flips = flips, !.read = reading] \in Pass
    BY <1>3, <1>4, <1>6, PassUpdated
  <1> QED
    BY <1>5, <1>6, <1>7

LEMMA PassStepTyped == TypeOK /\ [Next]_vars => pass' \in [Passes -> Pass]
  <1> SUFFICES ASSUME TypeOK, [Next]_vars PROVE pass' \in [Passes -> Pass]
    OBVIOUS
  <1>0. pass \in [Passes -> Pass]
    BY DEF TypeOK, WorkerOK
  <1>1. ASSUME NEW p \in Passes, NEW j \in Jobs, Deliver(p, j) PROVE pass' \in [Passes -> Pass]
    BY <1>0, <1>1, IdleTyped DEF Deliver, Pass
  <1>2. ASSUME NEW p \in Passes, Read(p) PROVE pass' \in [Passes -> Pass]
    BY <1>2, ReadTyped
  <1>3. ASSUME NEW p \in Passes, Commit(p) PROVE pass' \in [Passes -> Pass]
    <2>1. Won(p) \subseteq Claim
      BY ClaimsTyped DEF Won
    <2>2. [pass[p] EXCEPT !.pc = "send", !.mails = Won(p), !.flips = {}, !.read = Nothing] \in Pass
      BY <1>0, <2>1, NothingRead, PassUpdated
    <2> QED
      BY <1>0, <1>3, <2>2 DEF Commit
  <1>4. ASSUME NEW p \in Passes, TenantFails(p) PROVE pass' \in [Passes -> Pass]
    <2>1. [pass[p] EXCEPT !.pc = "send", !.flips = {}, !.read = Nothing] \in Pass
      BY <1>0, NothingRead, PassUpdated
    <2> QED
      BY <1>0, <1>4, <2>1 DEF TenantFails, Abandon
  <1>5. ASSUME NEW p \in Passes, Send(p) PROVE pass' \in [Passes -> Pass]
    BY <1>0, <1>5 DEF Send, Pass
  <1>6. ASSUME NEW p \in Passes, Ack(p) PROVE pass' \in [Passes -> Pass]
    BY <1>0, <1>6, IdleTyped DEF Ack
  <1>7. ASSUME NEW p \in Passes, ExpireLive(p) PROVE pass' \in [Passes -> Pass]
    BY <1>0, <1>7 DEF ExpireLive, Pass
  <1>8. CASE Crash
    BY <1>8, IdleTyped DEF Crash
  <1>9. CASE UNCHANGED pass
    BY <1>0, <1>9
  <1> QED
    BY <1>1, <1>2, <1>3, <1>4, <1>5, <1>6, <1>7, <1>8, <1>9
    DEF Next, vars, worker, PollTick, PollBegin, PollSend, PollFails, PollExpires, Silence,
        PollFresh, PollFetch, PollMiss, OnDemand, Lapse, Trade, ExpireOrphan, DeleteRule,
        CoolDown, CreateRule, EditRead, EditWrite

LEMMA RestStepTyped ==
    TypeOK /\ [Next]_vars => /\ sent' \in [Claim -> Nat]
                            /\ edit' \in [Editors -> Edit]
                            /\ spent' \in [Mishaps -> Nat]
  <1> SUFFICES ASSUME TypeOK, [Next]_vars
               PROVE  /\ sent' \in [Claim -> Nat]
                      /\ edit' \in [Editors -> Edit]
                      /\ spent' \in [Mishaps -> Nat]
    OBVIOUS
  <1>0. sent \in [Claim -> Nat] /\ edit \in [Editors -> Edit] /\ spent \in [Mishaps -> Nat]
    BY DEF TypeOK
  <1>1. sent' \in [Claim -> Nat]
    <2>1. ASSUME NEW p \in Passes, Send(p) PROVE sent' \in [Claim -> Nat]
      BY <1>0, <2>1 DEF Send
    <2>2. CASE UNCHANGED sent
      BY <1>0, <2>2
    <2> QED
      BY <2>1, <2>2
      DEF Next, vars, PollTick, PollBegin, PollSend, PollFails, PollExpires, Crash, Silence,
          PollFresh, PollFetch, PollMiss, OnDemand, Lapse, Trade, Read, Commit, TenantFails,
          Ack, ExpireLive, Deliver, ExpireOrphan, DeleteRule, CoolDown, CreateRule,
          EditRead, EditWrite
  <1>2. edit' \in [Editors -> Edit]
    <2>1. ASSUME NEW e \in Editors, NEW r \in Rules, EditRead(e, r)
          PROVE  edit' \in [Editors -> Edit]
      <3>1. rule[r].shape \in Shape /\ rule[r].muted \in BOOLEAN
        BY DEF TypeOK, TenantOK, Rule
      <3>2. \A s \in Shape, b \in BOOLEAN :
              [pc |-> "write", rule |-> r, shape |-> s, muted |-> b] \in Edit
        BY DEF Edit
      <3>3. PICK s \in Shape, b \in BOOLEAN :
              edit' = [edit EXCEPT ![e] = [pc |-> "write", rule |-> r, shape |-> s, muted |-> b]]
        BY <2>1, <3>1, SomeShape DEF EditRead
      <3> QED
        BY <1>0, <3>2, <3>3
    <2>2. ASSUME NEW e \in Editors, EditWrite(e) PROVE edit' \in [Editors -> Edit]
      BY <1>0, <2>2, NoEditTyped DEF EditWrite
    <2>3. CASE UNCHANGED edit
      BY <1>0, <2>3
    <2> QED
      BY <2>1, <2>2, <2>3
      DEF Next, vars, PollTick, PollBegin, PollSend, PollFails, PollExpires, Crash, Silence,
          PollFresh, PollFetch, PollMiss, OnDemand, Lapse, Trade, Read, Commit, TenantFails,
          Send, Ack, ExpireLive, Deliver, ExpireOrphan, DeleteRule, CoolDown, CreateRule
  <1>3. spent' \in [Mishaps -> Nat]
    <2>1. (\E m \in Mishaps : Mishap(m)) \/ UNCHANGED spent
      BY DEF Next, vars, PollTick, PollBegin, PollSend, PollFails, PollExpires, Crash, Silence,
          PollFresh, PollFetch, PollMiss, OnDemand, Lapse, Trade, Read, Commit, TenantFails,
          Send, Ack, ExpireLive, Deliver, ExpireOrphan, DeleteRule, CoolDown, CreateRule,
          EditRead, EditWrite, Mishaps
    <2> QED
      BY <1>0, <2>1, MishapsCount
  <1> QED
    BY <1>1, <1>2, <1>3

LEMMA TypeStep == TypeOK /\ [Next]_vars => TypeOK'
  BY MarketStep, TenantStep, PollStepTyped, JobStepTyped, PassStepTyped, RestStepTyped
  DEF TypeOK, WorkerOK

\* Every variable keeps its type: in particular a quote known to be fresh is
\* stored, so what a pass claims is always a state and a stored quote of a rule.
THEOREM TypeCorrect == Spec => []TypeOK
  <1> QED
    BY InitTyped, TypeStep, PTL DEF Spec

-----------------------------------------------------------------------------
(* Claim and commit, then send *)

\* A claim that is durable, or whose log row went with its rule.
Logged(k) == k \in log \/ rule[k[1]].is = "gone"

\* What a pass has yet to send is logged and unsent, and no other pass has it:
\* the insert that won it lands once.
MailsWon ==
    /\ \A p \in Passes : \A k \in pass[p].mails : sent[k] = 0 /\ Logged(k)
    /\ \A p, q \in Passes : p # q => pass[p].mails \cap pass[q].mails = {}

WatchInv == TypeOK /\ MailsWon /\ MailsMatchLog

LEMMA LoggedStays ==
    ASSUME TypeOK, [Next]_vars, NEW k \in Claim, Logged(k)
    PROVE  Logged(k)'
  <1>0. k[1] \in Rules /\ rule \in [Rules -> Rule]
    BY DEF Claim, TypeOK, TenantOK
  <1>1. ASSUME NEW p \in Passes, Commit(p) PROVE Logged(k)'
    <2>1. rule'[k[1]].is = rule[k[1]].is
      BY <1>0, <1>1, ZenonT(60) DEF Commit, Rule
    <2> QED
      BY <1>1, <2>1 DEF Commit, Logged
  <1>2. ASSUME NEW r \in Rules, DeleteRule(r) PROVE Logged(k)'
    BY <1>0, <1>2 DEF DeleteRule, Logged, Rule
  <1>3. ASSUME NEW r \in Rules, NEW s \in Shapes, CreateRule(r, s) PROVE Logged(k)'
    BY <1>0, <1>3 DEF CreateRule, Logged, Rule
  <1>4. ASSUME NEW e \in Editors, EditWrite(e) PROVE Logged(k)'
    BY <1>0, <1>4 DEF EditWrite, Logged, Rule
  <1>5. CASE UNCHANGED <<rule, log>>
    BY <1>5 DEF Logged
  <1> QED
    BY <1>1, <1>2, <1>3, <1>4, <1>5
    DEF Next, vars, tenant, PollTick, PollBegin, PollSend, PollFails, PollExpires, Crash,
        Silence, PollFresh, PollFetch, PollMiss, OnDemand, Lapse, Trade, Read, TenantFails,
        Send, Ack, ExpireLive, Deliver, ExpireOrphan, CoolDown, EditRead

\* A step that sends nothing and gives no pass a mail.
Sendless == UNCHANGED sent /\ \A p \in Passes : pass'[p].mails \subseteq pass[p].mails

\* A read changes its own pass only, and leaves its mails and job alone.
LEMMA ReadKeeps ==
    ASSUME TypeOK, NEW p \in Passes, Read(p)
    PROVE  /\ pass[p].pc = "read" /\ UNCHANGED sent
           /\ pass'[p].mails = pass[p].mails /\ pass'[p].live = pass[p].live
           /\ \A q \in Passes \ {p} : pass'[q] = pass[q]
  <1>0. pass \in [Passes -> Pass]
    BY DEF TypeOK, WorkerOK
  <1>1. PICK f, g : pass' = [pass EXCEPT ![p].pc = "commit", ![p].flips = f, ![p].read = g]
    BY DEF Read
  <1>2. pass[p].pc = "read" /\ UNCHANGED sent
    BY DEF Read
  <1> QED
    BY <1>0, <1>1, <1>2 DEF Pass

LEMMA SendlessSteps ==
    ASSUME TypeOK, [Next]_vars,
           \A p \in Passes : ~Commit(p) /\ ~Send(p)
    PROVE  Sendless
  <1>0. pass \in [Passes -> Pass]
    BY DEF TypeOK, WorkerOK
  <1>1. ASSUME NEW p \in Passes, NEW j \in Jobs, Deliver(p, j) PROVE Sendless
    BY <1>0, <1>1, IdleTyped DEF Deliver, Sendless, Pass
  <1>2. ASSUME NEW p \in Passes, Read(p) PROVE Sendless
    BY <1>2, ReadKeeps DEF Sendless
  <1>3. ASSUME NEW p \in Passes, TenantFails(p) PROVE Sendless
    BY <1>0, <1>3 DEF TenantFails, Abandon, Sendless, Pass
  <1>4. ASSUME NEW p \in Passes, Ack(p) PROVE Sendless
    BY <1>0, <1>4, IdleTyped DEF Ack, Sendless
  <1>5. ASSUME NEW p \in Passes, ExpireLive(p) PROVE Sendless
    BY <1>0, <1>5 DEF ExpireLive, Sendless, Pass
  <1>6. CASE Crash
    BY <1>0, <1>6, IdleTyped DEF Crash, Sendless
  <1>7. CASE UNCHANGED <<sent, pass>>
    BY <1>7 DEF Sendless
  <1> QED
    BY <1>1, <1>2, <1>3, <1>4, <1>5, <1>6, <1>7
    DEF Next, vars, worker, PollTick, PollBegin, PollSend, PollFails, PollExpires, Silence,
        PollFresh, PollFetch, PollMiss, OnDemand, Lapse, Trade, ExpireOrphan, DeleteRule,
        CoolDown, CreateRule, EditRead, EditWrite

\* A claim whose insert lands is in no log, of a live rule: nobody sent it or
\* is about to.
LEMMA WonIsNew ==
    ASSUME WatchInv, NEW p \in Passes, Claimable(p), NEW k \in Won(p)
    PROVE  /\ k \in Claim /\ ~Logged(k) /\ sent[k] = 0
           /\ \A q \in Passes : k \notin pass[q].mails
  <1>1. k \in Claims(p) /\ k \notin log
    BY DEF Won
  <1>2. k \in Claim
    BY <1>1, ClaimsTyped DEF WatchInv
  <1>3. ~Logged(k)
    BY <1>1 DEF Claimable, Live, Logged
  <1>4. sent[k] = 0
    BY <1>2, <1>3 DEF WatchInv, TypeOK, MailsMatchLog, Logged
  <1> QED
    BY <1>2, <1>3, <1>4 DEF WatchInv, MailsWon

LEMMA WatchStep == WatchInv /\ [Next]_vars => WatchInv'
  <1> SUFFICES ASSUME WatchInv, [Next]_vars PROVE WatchInv'
    OBVIOUS
  <1>0. /\ TypeOK /\ TypeOK' /\ sent \in [Claim -> Nat] /\ pass \in [Passes -> Pass]
        /\ \A p \in Passes : pass[p].mails \subseteq Claim
    BY TypeStep DEF WatchInv, TypeOK, WorkerOK, Pass
  <1>1. \A k \in Claim : Logged(k) => Logged(k)'
    BY <1>0, LoggedStays
  <1>2. ASSUME NEW p \in Passes, Commit(p) PROVE WatchInv'
    <2>1. /\ sent' = sent /\ pass'[p].mails = Won(p)
          /\ \A q \in Passes \ {p} : pass'[q] = pass[q]
          /\ Won(p) \subseteq log' /\ Claimable(p)
      BY <1>0, <1>2 DEF Commit, Pass
    <2>2. \A k \in Won(p) : /\ k \in Claim /\ sent[k] = 0
                            /\ \A q \in Passes : k \notin pass[q].mails
      BY <2>1, WonIsNew
    <2>3. \A k \in Won(p) : Logged(k)'
      BY <2>1 DEF Logged
    <2>4. MailsWon'
      <3>1. ASSUME NEW q \in Passes, NEW k \in pass'[q].mails
            PROVE  sent'[k] = 0 /\ Logged(k)'
        BY <1>0, <1>1, <2>1, <2>2, <2>3, <3>1 DEF WatchInv, MailsWon
      <3>2. ASSUME NEW q \in Passes, NEW o \in Passes, q # o
            PROVE  pass'[q].mails \cap pass'[o].mails = {}
        BY <2>1, <2>2, <3>2 DEF WatchInv, MailsWon
      <3> QED
        BY <3>1, <3>2 DEF MailsWon
    <2>5. MailsMatchLog'
      BY <1>1, <2>1 DEF WatchInv, MailsMatchLog, Logged
    <2> QED
      BY <1>0, <2>4, <2>5 DEF WatchInv
  <1>3. ASSUME NEW p \in Passes, Send(p) PROVE WatchInv'
    <2>1. PICK k \in pass[p].mails :
            /\ pass' = [pass EXCEPT ![p].mails = @ \ {k}]
            /\ sent' = [sent EXCEPT ![k] = @ + 1] \/ UNCHANGED sent
      BY <1>3 DEF Send
    <2>2. /\ k \in Claim /\ sent[k] = 0 /\ Logged(k)
          /\ \A q \in Passes \ {p} : k \notin pass[q].mails
      BY <1>0, <2>1 DEF WatchInv, MailsWon
    <2>3. /\ pass'[p].mails = pass[p].mails \ {k}
          /\ \A q \in Passes \ {p} : pass'[q] = pass[q]
      BY <1>0, <2>1 DEF Pass
    <2>4. sent'[k] \in {0, 1} /\ \A c \in Claim \ {k} : sent'[c] = sent[c]
      BY <1>0, <2>1, <2>2
    <2>5. \A q \in Passes : k \notin pass'[q].mails /\ pass'[q].mails \subseteq pass[q].mails
      BY <2>2, <2>3
    <2>6. MailsWon'
      BY <1>0, <1>1, <2>4, <2>5 DEF WatchInv, MailsWon
    <2>7. MailsMatchLog'
      BY <1>0, <1>1, <2>2, <2>4 DEF WatchInv, MailsMatchLog, Logged
    <2> QED
      BY <1>0, <2>6, <2>7 DEF WatchInv
  <1>4. CASE \A p \in Passes : ~Commit(p) /\ ~Send(p)
    <2>1. Sendless
      BY <1>0, <1>4, SendlessSteps
    <2>2. MailsWon'
      BY <1>0, <1>1, <2>1 DEF WatchInv, MailsWon, Sendless
    <2>3. MailsMatchLog'
      BY <1>1, <2>1 DEF WatchInv, MailsMatchLog, Sendless, Logged
    <2> QED
      BY <1>0, <2>2, <2>3 DEF WatchInv
  <1> QED
    BY <1>2, <1>3, <1>4

LEMMA InitWatch == Init => WatchInv
  <1> SUFFICES ASSUME Init PROVE WatchInv
    OBVIOUS
  <1>1. \A p \in Passes : pass[p].mails = {}
    BY IdleTyped DEF Init
  <1>2. MailsMatchLog
    BY DEF Init, MailsMatchLog
  <1> QED
    BY InitTyped, <1>1, <1>2 DEF WatchInv, MailsWon

\* A change of state is emailed at most once and only after its claim is
\* durable, whatever crashes, expires, is retried or is deleted (the unique
\* key of opportunity_notifications, and run-evaluation.ts sending after the
\* tenant's commit).
THEOREM NoEmailTwice == Spec => []MailsMatchLog
  <1>1. WatchInv => MailsMatchLog
    BY DEF WatchInv
  <1> QED
    BY InitWatch, WatchStep, <1>1, PTL DEF Spec

-----------------------------------------------------------------------------
(* One pass at a time *)

\* As long as no job has expired under its handler, one pass runs at a time,
\* and what it read of a rule it will email about still holds.
OneAtATime ==
    /\ \A p \in Passes : pass[p].pc # "idle" => pass[p].live
    /\ \A p, q \in Passes : pass[p].live /\ pass[q].live => p = q

StillCrossing ==
    \A p \in Passes : pass[p].pc = "commit" =>
        \A r \in DOMAIN pass[p].read : pass[p].read[r].send =>
            r \notin cooling /\ rule[r].last \notin {"none", pass[p].read[r].state}

PassInv == TypeOK /\ (Without({"expiry"}) => OneAtATime /\ StillCrossing)

LEMMA ExpiriesCount ==
    ASSUME TypeOK, [Next]_vars, Without({"expiry"})'
    PROVE  Without({"expiry"}) /\ \A p \in Passes : ~ExpireLive(p)
  <1>0. spent \in [Mishaps -> Nat] /\ "expiry" \in Mishaps /\ spent'["expiry"] = 0
    BY DEF TypeOK, Mishaps, Without
  <1>1. (\E m \in Mishaps : Mishap(m)) \/ UNCHANGED spent
    BY DEF Next, vars, PollTick, PollBegin, PollSend, PollFails, PollExpires, Crash, Silence,
        PollFresh, PollFetch, PollMiss, OnDemand, Lapse, Trade, Read, Commit, TenantFails,
        Send, Ack, ExpireLive, Deliver, ExpireOrphan, DeleteRule, CoolDown, CreateRule,
        EditRead, EditWrite, Mishaps
  <1>2. spent["expiry"] = 0
    BY <1>0, <1>1 DEF Mishap
  <1>3. ASSUME NEW p \in Passes, ExpireLive(p) PROVE FALSE
    BY <1>0, <1>2, <1>3 DEF ExpireLive, Mishap
  <1> QED
    BY <1>2, <1>3 DEF Without

LEMMA OneAtATimeStep ==
    ASSUME TypeOK, [Next]_vars, OneAtATime, \A p \in Passes : ~ExpireLive(p)
    PROVE  OneAtATime'
  <1>0. pass \in [Passes -> Pass]
    BY DEF TypeOK, WorkerOK
  <1>1. ASSUME NEW p \in Passes, NEW j \in Jobs, Deliver(p, j) PROVE OneAtATime'
    <2>1. pass'[p].live /\ \A q \in Passes \ {p} : pass'[q] = pass[q] /\ ~pass[q].live
      BY <1>0, <1>1, IdleTyped DEF Deliver, Pass
    <2> QED
      BY <2>1 DEF OneAtATime
  <1>2. ASSUME NEW p \in Passes, Read(p) \/ Commit(p) \/ TenantFails(p) \/ Send(p)
        PROVE  OneAtATime'
    <2>1. /\ pass[p].pc # "idle" /\ pass'[p].live = pass[p].live
          /\ \A q \in Passes \ {p} : pass'[q] = pass[q]
      <3>1. CASE Read(p)
        BY <3>1, ReadKeeps
      <3>2. CASE Commit(p)
        BY <1>0, <3>2 DEF Commit, Pass
      <3>3. CASE TenantFails(p)
        BY <1>0, <3>3 DEF TenantFails, Abandon, Pass
      <3>4. CASE Send(p)
        BY <1>0, <3>4 DEF Send, Pass
      <3> QED
        BY <1>2, <3>1, <3>2, <3>3, <3>4
    <2> QED
      BY <2>1 DEF OneAtATime
  <1>3. ASSUME NEW p \in Passes, Ack(p) PROVE OneAtATime'
    BY <1>0, <1>3, IdleTyped DEF Ack, OneAtATime
  <1>4. CASE Crash
    BY <1>4, IdleTyped DEF Crash, OneAtATime
  <1>5. CASE UNCHANGED pass
    BY <1>5 DEF OneAtATime
  <1> QED
    BY <1>1, <1>2, <1>3, <1>4, <1>5
    DEF Next, vars, worker, PollTick, PollBegin, PollSend, PollFails, PollExpires, Silence,
        PollFresh, PollFetch, PollMiss, OnDemand, Lapse, Trade, ExpireOrphan, DeleteRule,
        CoolDown, CreateRule, EditRead, EditWrite

\* Only a commit logs a claim, starts a cooldown or records a state.
Recordless ==
    /\ log' \subseteq log /\ cooling' \subseteq cooling
    /\ \A r \in Rules : rule'[r].last = rule[r].last

LEMMA RecordlessSteps ==
    ASSUME TypeOK, [Next]_vars, \A p \in Passes : ~Commit(p)
    PROVE  Recordless
  <1>0. rule \in [Rules -> Rule]
    BY DEF TypeOK, TenantOK
  <1>1. ASSUME NEW r \in Rules, DeleteRule(r) PROVE Recordless
    BY <1>0, <1>1 DEF DeleteRule, Recordless, Rule
  <1>2. ASSUME NEW r \in Rules, NEW s \in Shapes, CreateRule(r, s) PROVE Recordless
    BY <1>0, <1>2 DEF CreateRule, Recordless, Rule
  <1>3. ASSUME NEW e \in Editors, EditWrite(e) PROVE Recordless
    BY <1>0, <1>3 DEF EditWrite, Recordless, Rule
  <1>4. ASSUME NEW r \in Rules, CoolDown(r) PROVE Recordless
    BY <1>4 DEF CoolDown, Recordless
  <1>5. CASE UNCHANGED <<rule, log, cooling>>
    BY <1>5 DEF Recordless
  <1> QED
    BY <1>1, <1>2, <1>3, <1>4, <1>5
    DEF Next, vars, tenant, PollTick, PollBegin, PollSend, PollFails, PollExpires, Crash,
        Silence, PollFresh, PollFetch, PollMiss, OnDemand, Lapse, Trade, Read, TenantFails,
        Send, Ack, ExpireLive, Deliver, ExpireOrphan, EditRead

\* What is read to be emailed is a crossing at the time of the read.
LEMMA ReadCrosses ==
    ASSUME TypeOK, NEW p \in Passes, Read(p)
    PROVE  /\ UNCHANGED <<rule, cooling>>
           /\ \A r \in DOMAIN pass'[p].read : pass'[p].read[r].send =>
                 r \notin cooling /\ rule[r].last \notin {"none", pass'[p].read[r].state}
  <1> DEFINE watching == {r \in Live : Watches[r] \in held /\ Watches[r] \in job[pass[p].job].assets}
             known == {r \in watching : Watches[r] \in fresh}
             reading == [r \in known |-> [state |-> StateOf(r), seen |-> quote[Watches[r]].seen,
                                          send |-> DecidesToSend(r)]]
  <1>0. pass \in [Passes -> Pass] /\ UNCHANGED <<rule, cooling>>
    BY DEF TypeOK, WorkerOK, Read, tenant
  <1>1. PICK f : pass' = [pass EXCEPT ![p].pc = "commit", ![p].flips = f, ![p].read = reading]
    BY DEF Read
  <1>2. ASSUME NEW r \in DOMAIN reading, reading[r].send
        PROVE  r \notin cooling /\ rule[r].last \notin {"none", reading[r].state}
    BY <1>2 DEF DecidesToSend
  <1> HIDE DEF reading
  <1>3. pass'[p].read = reading
    BY <1>0, <1>1 DEF Pass
  <1> QED
    BY <1>0, <1>2, <1>3

\* A step other than a read brings no pass to its commit.
LEMMA CommitComesOfRead ==
    ASSUME TypeOK, [Next]_vars, NEW p \in Passes, ~Read(p), pass'[p].pc = "commit"
    PROVE  pass[p].pc = "commit" /\ pass'[p].read = pass[p].read
  <1>0. pass \in [Passes -> Pass]
    BY DEF TypeOK, WorkerOK
  <1> DEFINE Keeps == pass[p].pc = "commit" /\ pass'[p].read = pass[p].read
  <1>1. ASSUME NEW q \in Passes, NEW j \in Jobs, Deliver(q, j) PROVE Keeps
    BY <1>0, <1>1, IdleTyped DEF Deliver, Pass
  <1>2. ASSUME NEW q \in Passes, Read(q) PROVE Keeps
    BY <1>2, ReadKeeps
  <1>3. ASSUME NEW q \in Passes, Commit(q) PROVE Keeps
    BY <1>0, <1>3 DEF Commit, Pass
  <1>4. ASSUME NEW q \in Passes, TenantFails(q) PROVE Keeps
    BY <1>0, <1>4 DEF TenantFails, Abandon, Pass
  <1>5. ASSUME NEW q \in Passes, Send(q) PROVE Keeps
    BY <1>0, <1>5 DEF Send, Pass
  <1>6. ASSUME NEW q \in Passes, Ack(q) PROVE Keeps
    BY <1>0, <1>6, IdleTyped DEF Ack
  <1>7. ASSUME NEW q \in Passes, ExpireLive(q) PROVE Keeps
    BY <1>0, <1>7 DEF ExpireLive, Pass
  <1>8. CASE Crash
    BY <1>0, <1>8, IdleTyped DEF Crash
  <1>9. CASE UNCHANGED pass
    BY <1>9
  <1> QED
    BY <1>1, <1>2, <1>3, <1>4, <1>5, <1>6, <1>7, <1>8, <1>9
    DEF Next, vars, worker, PollTick, PollBegin, PollSend, PollFails, PollExpires, Silence,
        PollFresh, PollFetch, PollMiss, OnDemand, Lapse, Trade, ExpireOrphan, DeleteRule,
        CoolDown, CreateRule, EditRead, EditWrite

LEMMA StillCrossingStep ==
    ASSUME TypeOK, [Next]_vars, OneAtATime, StillCrossing
    PROVE  StillCrossing'
  <1> SUFFICES ASSUME NEW p \in Passes, pass'[p].pc = "commit",
                      NEW r \in DOMAIN pass'[p].read, pass'[p].read[r].send
               PROVE  r \notin cooling' /\ rule'[r].last \notin {"none", pass'[p].read[r].state}
    BY DEF StillCrossing
  <1>1. CASE Read(p)
    BY <1>1, ReadCrosses
  <1>2. CASE ~Read(p)
    <2>0. pass \in [Passes -> Pass] /\ rule \in [Rules -> Rule]
      BY DEF TypeOK, WorkerOK, TenantOK
    <2>1. pass[p].pc = "commit" /\ pass'[p].read = pass[p].read
      BY <1>2, CommitComesOfRead
    <2>2. r \notin cooling /\ rule[r].last \notin {"none", pass'[p].read[r].state}
      BY <2>1 DEF StillCrossing
    <2>3. r \in Rules
      BY <2>0, <2>1, ReadingsAre DEF Pass
    <2>4. \A q \in Passes : ~Commit(q)
      <3>1. ASSUME NEW q \in Passes, Commit(q) PROVE FALSE
        <4>1. q = p
          BY <2>1, <3>1 DEF OneAtATime, Commit
        <4>2. pass'[p].pc = "send"
          BY <2>0, <3>1, <4>1 DEF Commit, Pass
        <4> QED
          BY <4>2
      <3> QED
        BY <3>1
    <2>5. Recordless
      BY <2>4, RecordlessSteps
    <2> QED
      BY <2>2, <2>3, <2>5 DEF Recordless
  <1> QED
    BY <1>1, <1>2

LEMMA InitPass == Init => PassInv
  <1> SUFFICES ASSUME Init PROVE PassInv
    OBVIOUS
  <1>1. \A p \in Passes : pass[p].pc = "idle" /\ ~pass[p].live
    BY IdleTyped DEF Init
  <1> QED
    BY InitTyped, <1>1 DEF PassInv, OneAtATime, StillCrossing

LEMMA PassStepHolds == PassInv /\ [Next]_vars => PassInv'
  <1> SUFFICES ASSUME PassInv, [Next]_vars PROVE PassInv'
    OBVIOUS
  <1>1. TypeOK /\ TypeOK'
    BY TypeStep DEF PassInv
  <1>2. ASSUME Without({"expiry"})' PROVE OneAtATime' /\ StillCrossing'
    <2>1. Without({"expiry"}) /\ \A p \in Passes : ~ExpireLive(p)
      BY <1>1, <1>2, ExpiriesCount
    <2>2. OneAtATime /\ StillCrossing
      BY <2>1 DEF PassInv
    <2> QED
      BY <1>1, <2>1, <2>2, OneAtATimeStep, StillCrossingStep
  <1> QED
    BY <1>1, <1>2 DEF PassInv

\* While no job expires under its handler, every claim is a change from the
\* state last recorded of a rule that is not cooling down: passes that follow
\* each other never claim one crossing twice (decideNotification reads in the
\* transaction that recordObservation writes in).
THEOREM CrossingsOnce == Spec => CrossingsClaimedOnce
  <1> DEFINE Claimed == Without({"expiry"})' =>
               \A k \in log' \ log : k[1] \notin cooling /\ rule[k[1]].last \notin {"none", k[2]}
  <1>1. ASSUME PassInv, [Next]_vars PROVE [Claimed]_vars
    <2> SUFFICES ASSUME Without({"expiry"})', NEW k \in log' \ log
                 PROVE  k[1] \notin cooling /\ rule[k[1]].last \notin {"none", k[2]}
      OBVIOUS
    <2>1. TypeOK /\ StillCrossing
      BY <1>1, ExpiriesCount DEF PassInv
    <2>2. PICK p \in Passes : Commit(p)
      BY <1>1, <2>1, RecordlessSteps DEF Recordless
    <2>3. k \in Claims(p)
      BY <2>2 DEF Commit, Won
    <2>4. PICK r \in DOMAIN pass[p].read :
            pass[p].read[r].send /\ k = <<r, pass[p].read[r].state, pass[p].read[r].seen>>
      BY <2>3 DEF Claims
    <2> QED
      BY <2>1, <2>2, <2>4 DEF StillCrossing, Commit
  <1>2. PassInv /\ [Next]_vars => [Claimed]_vars
    BY <1>1
  <1> QED
    BY InitPass, PassStepHolds, <1>2, PTL DEF Spec, CrossingsClaimedOnce
=============================================================================
