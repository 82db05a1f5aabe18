--------------------------- MODULE FraudPipeline ---------------------------
(***************************************************************************)
(* The fraud engine of one app: the chain of rule bundle revisions that     *)
(* administrators activate (apps/api/src/rule-bundles.ts), the fraud half    *)
(* of the drain (apps/worker/src/ingestion.ts, packages/attribution-core,    *)
(* packages/fraud-rules), and what the worker's tick does after it           *)
(* (apps/worker/src/fraud-worker.ts): the source-day aggregate, provisional  *)
(* attributions and the resolution of expired quarantines.                   *)
(*                                                                         *)
(* One worker runs the ticks; records arrive and bundles are activated at    *)
(* any moment.  Every phase of the drain commits on its own, and a fault     *)
(* comes between any two.  A batch holds one record, named by its inbox_seq; *)
(* the loops inside a phase other than the decisions are SdkInbox's subject. *)
(* Without a bundle, or with the rules switched off, the drain judges nothing. *)
(* A second of the code is one unit of the clock, a day DayLength units.     *)
(***************************************************************************)
EXTENDS Integers, Sequences, FiniteSets, SequencesExt

CONSTANTS
    Bodies,         \* click and install records that may be posted
    Bundles,        \* ids of fraud bundles
    Policies,       \* bundle definitions administrators may post
    Registered,     \* the revision registerApp activates
    Switch,         \* what OPENMASU_FRAUD_ENABLED may be when the worker starts
    ActionsEnabled, \* OPENMASU_FRAUD_ACTIONS_ENABLED = 1
    DayLength,
    MaxClock,       \* bound: time
    MaxBatches,     \* bound: batches ever received
    MaxActivations, \* bound: revisions activated after the registration
    MaxFaults       \* bound: deaths of the worker and failed transactions

Actions == {"allow", "flag", "exclude", "quarantine"}
NoTime == -1
NoClick == "none"
NoRevision == 0
NoDecision == <<0, "none">>

ASSUME FraudAssumption ==
    /\ DayLength \in Nat \ {0}
    /\ {MaxClock, MaxBatches, MaxActivations, MaxFaults} \subseteq Nat
    /\ ActionsEnabled \in BOOLEAN /\ Switch \subseteq BOOLEAN
    /\ Registered.bundle \in Bundles /\ Registered.sup = NoRevision

VARIABLES
    clock,
    inbox,          \* ledger.ingest_batches: [at, body]
    state,          \* the current state of each batch
    revisions,      \* control.rule_bundle_revisions, in order of activation
    enabled,        \* OPENMASU_FRAUD_ENABLED of the running worker
    phase,          \* where the worker is in its tick
    ended,          \* when the last tick ended
    hist, pend,     \* the drain's processed and pending batches
    rev,            \* the revision the last drain bound, if any
    unjudged,       \* history variable: batches a drain without a bundle has processed
    todo,           \* decisions it still has to persist
    facts,          \* records with their click_facts or install_facts row
    attributions,   \* ledger.attribution_results
    decisions,      \* ledger.fraud_decisions of records
    quarantines,    \* ephemeral.fraud_quarantines
    resolutions,    \* the superseding fraud_decisions
    aggregates,     \* ledger.source_day_aggregates: [row, at]
    flooding,       \* ledger.fraud_decisions of sources
    faults

drainVars == <<hist, pend, rev, todo>>
workerVars == <<enabled, unjudged>>
recordVars == <<facts, attributions, decisions>>
sourceVars == <<aggregates, flooding>>
vars == <<clock, inbox, state, revisions, workerVars, phase, ended, drainVars, recordVars,
          quarantines, resolutions, sourceVars, faults>>

\* registerApp activates the default bundle; the app of the environment, which
\* ensureAdminKeys inserts at the start of the API, has none.
Registrations == {<<Registered>>, <<>>}

Init ==
    /\ clock = 0
    /\ inbox = <<>> /\ state = <<>>
    /\ revisions \in Registrations
    /\ enabled \in Switch /\ unjudged = {}
    /\ phase = "idle" /\ ended = -1
    /\ hist = {} /\ pend = {} /\ rev = NoRevision /\ todo = {}
    /\ facts = {} /\ attributions = {} /\ decisions = {}
    /\ quarantines = {} /\ resolutions = {}
    /\ aggregates = {} /\ flooding = {}
    /\ faults = 0

(***************************************************************************)
(* Rule bundles                                                            *)
(***************************************************************************)
\* validateBody and assertFraudBundle
Admissible(p) == (\A rule \in DOMAIN p.action : p.action[rule] \in Actions) /\ ~p.integrityOnly

\* rule_bundles_current: the revisions nothing supersedes.
Current == {r \in DOMAIN revisions : \A s \in DOMAIN revisions : revisions[s].sup # r}
CurrentOf(bundle) == {r \in Current : revisions[r].bundle = bundle}

\* activateRuleBundle: the predecessor named must be the current revision, or none
\* for the first of its bundle; an advisory lock serialises the activations.
Activate(bundle, p, sup) ==
    /\ CurrentOf(bundle) = {sup} \ {NoRevision}
    /\ Cardinality({s \in DOMAIN revisions : revisions[s] # Registered}) < MaxActivations
    /\ Admissible(p)
    /\ revisions' = Append(revisions, [bundle |-> bundle, policy |-> p, sup |-> sup, at |-> clock])
    /\ UNCHANGED <<clock, inbox, state, workerVars, phase, ended, drainVars, recordVars, quarantines,
                   resolutions, sourceVars, faults>>

\* resolveActiveFraudBundle throws when two bundles are current.
Ambiguous == Cardinality(Current) > 1
Active == IF Current = {} THEN NoRevision ELSE CHOOSE r \in Current : TRUE

(***************************************************************************)
(* The evaluator over the batches D, with policy p bound to all of them    *)
(***************************************************************************)
Body(b) == inbox[b].body
Of(kind, D) == {b \in D : Body(b).kind = kind}
ClicksOf(i, D) ==
    {c \in Of("click", D) : Body(c).click = Body(i).click /\ Body(i).click # NoClick}
Ctit(i, c) == Body(i).time - Body(c).time

Hit(rule, decision, action) == [rule |-> rule, decision |-> decision, action |-> action]

\* transportFraud
TransportRules(c, p) ==
    IF Body(c).signal = "none" THEN {}
    ELSE LET rule == IF Body(c).signal = "replay" THEN "transport-replay-v1"
                     ELSE "transport-bot-prefetch-v1"
         IN  {Hit(rule, "suspected", p.action[rule])}

\* evaluateInstallRules.  C holds the click the install names, if that is one click.
ServerOrder(i, p) ==
    IF Body(i).referrer # NoTime /\ Body(i).referrer >= Body(i).time + 1
    THEN {Hit("referrer-server-order-v1", "confirmed", p.action["referrer-server-order-v1"])}
    ELSE {}
Diverges(i, c, p) ==
    LET gap == Body(i).referrer - Body(c).time
    IN  Body(i).referrer # NoTime /\ (gap > p.divergence \/ -gap > p.divergence)
CtitRules(i, c, p) ==
    IF Ctit(i, c) < 0 THEN {Hit("ctit-clock-anomaly-v1", "clear", "allow")}
    ELSE {Hit(rule, "suspected", p.action[rule]) : rule \in
            {r \in {"ctit-lower-bound-v1", "referrer-redirector-divergence-v1"} :
                IF r = "ctit-lower-bound-v1" THEN Ctit(i, c) < p.lower ELSE Diverges(i, c, p)}}
InstallRules(i, C, p) ==
    ServerOrder(i, p) \cup
    (IF Cardinality(C) = 1 THEN UNION {CtitRules(i, c, p) : c \in C} ELSE {})

\* The decision about record b, under the id fraud:<record>[:<rule>].
Decided(b, hit, r) ==
    [id |-> <<b, hit.rule>>, rec |-> b, decision |-> hit.decision, action |-> hit.action,
     revision |-> r,
     deadline |-> IF hit.action = "quarantine"
                  THEN inbox[b].at + revisions[r].policy.hours ELSE NoTime]
Decisions(D, r) ==
    LET p == revisions[r].policy
    IN  IF r = NoRevision THEN {} ELSE
        (UNION {{Decided(c, hit, r) : hit \in TransportRules(c, p)} : c \in Of("click", D)})
        \cup (UNION {{Decided(i, hit, r) : hit \in InstallRules(i, ClicksOf(i, D), p)}
                       : i \in Of("install", D)})

\* makeAttribution, as far as clicks decide it: reason and evidence.
Reason(i, D) ==
    IF Body(i).click = NoClick THEN "no_referrer"
    ELSE IF ClicksOf(i, D) = {} THEN "unknown_click_id"
    ELSE IF Cardinality(ClicksOf(i, D)) > 1 THEN "ambiguous_click_id"
    ELSE IF \E c \in ClicksOf(i, D) : Body(c).signal = "bot" THEN "bot_prefetch"
    ELSE IF \E c \in ClicksOf(i, D) : Ctit(i, c) < 0 THEN "window_expired"
    ELSE "valid_install_referrer"
Evidence(i, D) ==
    {i} \cup IF Reason(i, D) \in {"bot_prefetch", "valid_install_referrer"}
             THEN ClicksOf(i, D) ELSE {}
Initial(i, D) ==
    [id |-> <<i, "initial">>, of |-> i, reason |-> Reason(i, D), finality |-> "final",
     ref |-> NoDecision, sup |-> <<>>]

\* excludedClickIds: only a decision about a click excludes, the last one of its click_id.
Excluding(i, D, r) ==
    {d \in Decisions(D, r) :
        ActionsEnabled /\ d.action = "exclude" /\ d.rec \in ClicksOf(i, D)}
Excluded(i, D, r) ==
    LET E == Excluding(i, D, r)
    IN  {[Initial(i, D) EXCEPT !.id = <<i, "fraud">>, !.reason = "fraud_excluded",
                               !.ref = d.id, !.sup = <<i, "initial">>]
           : d \in {x \in E : \A y \in E : y.rec <= x.rec}}

\* belongsToCurrent: what names a record of the drain is persisted.
SelectedAttributions ==
    LET D == hist \cup pend
    IN  UNION {{Initial(i, D)} \cup Excluded(i, D, rev)
                 : i \in {j \in Of("install", D) : Evidence(j, D) \cap pend # {}}}

\* Mutant of SelectedDecisions: the decisions about the installs of the drain only.
SelectedOfInstalls ==
    {d \in Decisions(hist \cup pend, rev) : d.rec \in pend /\ Body(d.rec).kind = "install"}

SelectedDecisions == {d \in Decisions(hist \cup pend, rev) : d.rec \in pend}

(***************************************************************************)
(* The drain                                                               *)
(***************************************************************************)
Pending == {b \in DOMAIN state : state[b] = "pending"}

\* Mutant of TickStart: the tick resolves quarantines before it drains.
TickResolvesFirst ==
    /\ phase = "idle" /\ clock > ended
    /\ hist' = {b \in DOMAIN state : state[b] = "processed"}
    /\ pend' = Pending
    /\ phase' = IF quarantines # {} \/ Pending = {} THEN "aggregate" ELSE "bind"
    /\ UNCHANGED <<clock, inbox, state, revisions, workerVars, ended, rev, todo, recordVars, quarantines,
                   resolutions, sourceVars, faults>>

\* tick: the drain first; with nothing pending it returns at once.
TickStart ==
    /\ phase = "idle" /\ clock > ended
    /\ hist' = {b \in DOMAIN state : state[b] = "processed"}
    /\ pend' = Pending
    /\ phase' = IF Pending = {} THEN "aggregate" ELSE "bind"
    /\ UNCHANGED <<clock, inbox, state, revisions, workerVars, ended, rev, todo, recordVars, quarantines,
                   resolutions, sourceVars, faults>>

\* Mutant of Bind: the worker keeps the revision it resolved once.
BindCached ==
    /\ phase = "bind"
    /\ rev' = IF rev = NoRevision /\ enabled THEN Active ELSE rev
    /\ phase' = IF Ambiguous THEN "fail" ELSE "records"
    /\ UNCHANGED <<clock, inbox, state, revisions, workerVars, ended, hist, pend, todo, recordVars,
                   quarantines, resolutions, sourceVars, faults>>

\* ingestRuntimeBatch binds the revision that is active now to history and pending, or
\* fraud_enabled = false when there is none or the worker has the rules switched off.
Bind ==
    /\ phase = "bind"
    /\ rev' = IF Ambiguous THEN rev ELSE IF enabled THEN Active ELSE NoRevision
    /\ phase' = IF Ambiguous THEN "fail" ELSE "records"
    /\ UNCHANGED <<clock, inbox, state, revisions, workerVars, ended, hist, pend, todo, recordVars,
                   quarantines, resolutions, sourceVars, faults>>

PersistRecords ==
    /\ phase = "records" /\ phase' = "attributions"
    /\ facts' = facts \cup pend
    /\ UNCHANGED <<clock, inbox, state, revisions, workerVars, ended, drainVars, attributions,
                   decisions, quarantines, resolutions, sourceVars, faults>>

\* ON CONFLICT (attribution_id) DO NOTHING
Unstored(rows, stored) == {x \in rows : \A y \in stored : y.id # x.id}

PersistAttributions ==
    /\ phase = "attributions" /\ phase' = "fraud"
    /\ attributions' = attributions \cup Unstored(SelectedAttributions, attributions)
    /\ todo' = SelectedDecisions
    /\ UNCHANGED <<clock, inbox, state, revisions, workerVars, ended, hist, pend, rev, facts,
                   decisions, quarantines, resolutions, sourceVars, faults>>

\* persistFraud: one transaction.  The quarantine row is that of the artifact just
\* computed, also when another one is stored under its id.
PersistFraud(d) ==
    /\ phase = "fraud" /\ d \in todo
    /\ todo' = todo \ {d}
    /\ decisions' = decisions \cup Unstored({d}, decisions)
    /\ quarantines' = IF d.action = "quarantine"
                      THEN quarantines \cup Unstored({[id |-> d.id, due |-> d.deadline]}, quarantines)
                      ELSE quarantines
    /\ UNCHANGED <<clock, inbox, state, revisions, workerVars, phase, ended, hist, pend, rev, facts,
                   attributions, resolutions, sourceVars, faults>>

\* persistLateAttribution for everything the evaluation returned.
LateRows ==
    {[x EXCEPT !.id = <<x.of, "late">>, !.finality = "superseded", !.sup = x.id] : x \in
        {y \in SelectedAttributions :
            /\ y.reason = "valid_install_referrer"
            /\ \E a \in attributions : a.id = y.id /\ a.reason # y.reason}}
PersistLate ==
    /\ phase = "fraud" /\ todo = {} /\ phase' = "mark"
    /\ attributions' = attributions \cup Unstored(LateRows, attributions)
    /\ UNCHANGED <<clock, inbox, state, revisions, workerVars, ended, drainVars, facts, decisions,
                   quarantines, resolutions, sourceVars, faults>>

EndTick == phase' = "idle" /\ hist' = {} /\ pend' = {} /\ todo' = {} /\ ended' = clock
First(B) == CHOOSE b \in B : \A c \in B : b <= c

\* appendState 'processed', batch by batch; the last one ends the drain.
Mark ==
    LET left == {b \in pend : state[b] = "pending"} IN
    /\ phase = "mark"
    /\ state' = [state EXCEPT ![First(left)] = "processed"]
    /\ phase' = IF left = {First(left)} THEN "aggregate" ELSE "mark"
    /\ unjudged' = IF rev = NoRevision THEN unjudged \cup {First(left)} ELSE unjudged
    /\ UNCHANGED <<clock, inbox, revisions, enabled, ended, drainVars, recordVars, quarantines,
                   resolutions, sourceVars, faults>>

\* The catch block fails every batch of the drain and rethrows, which ends the tick.
MarkFailed ==
    LET left == {b \in pend : state[b] # "failed"} IN
    /\ phase = "fail"
    /\ IF left = {} THEN EndTick /\ UNCHANGED state
       ELSE /\ state' = [state EXCEPT ![First(left)] = "failed"]
            /\ UNCHANGED <<phase, hist, pend, todo, ended>>
    /\ UNCHANGED <<clock, inbox, revisions, workerVars, rev, recordVars, quarantines, resolutions,
                   sourceVars, faults>>

\* A transaction inside the try block fails.
TransactionFails ==
    /\ faults < MaxFaults /\ faults' = faults + 1
    /\ phase \in {"bind", "records", "attributions", "fraud", "mark"}
    /\ phase' = "fail" /\ todo' = {}
    /\ UNCHANGED <<clock, inbox, state, revisions, workerVars, ended, hist, pend, rev, recordVars,
                   quarantines, resolutions, sourceVars>>

\* The worker dies and is restarted, or a step of the tick outside the try block throws
\* (the lookups and verifications between the drain and the aggregate among them).  It may
\* be started with another switch; an idle worker dies at the start of its next tick.
Crash ==
    /\ faults < MaxFaults /\ faults' = faults + 1
    /\ phase # "idle" /\ enabled' \in Switch
    /\ EndTick /\ rev' = NoRevision
    /\ UNCHANGED <<clock, inbox, state, revisions, unjudged, recordVars, quarantines, resolutions,
                   sourceVars>>

(***************************************************************************)
(* After the drain: the source day and the quarantines                     *)
(***************************************************************************)
DayOf(time) == time \div DayLength
Yesterday == DayOf(clock) - 1

DayClicks(day, source) ==
    {c \in facts : Body(c).kind = "click" /\ DayOf(Body(c).time) = day /\ Body(c).source = source}
\* LEFT JOIN install_facts USING (click_id)
Joined(day, source) ==
    {j \in DayClicks(day, source) \X {i \in facts : Body(i).kind = "install"} :
        Body(j[1]).click = Body(j[2]).click /\ Body(j[1]).click # NoClick}
Ctits(J) == LET delta(j) == Ctit(j[2], j[1])
                sorted == SetToSortSeq({j \in J : delta(j) >= 0}, LAMBDA a, b : delta(a) < delta(b))
            IN  [k \in DOMAIN sorted |-> delta(sorted[k])]

\* percentile_cont, in hundredths; null over no rows.
Percentile(pct, s) ==
    LET rank == pct * (Len(s) - 1)
        k == rank \div 100 + 1
        part == rank % 100
    IN  IF s = <<>> THEN NoTime
        ELSE s[k] * (100 - part) + (IF part = 0 THEN 0 ELSE s[k + 1] * part)

SourceRow(day, source) ==
    LET J == Joined(day, source)
    IN  [day |-> day, source |-> source,
         clicks |-> Cardinality(DayClicks(day, source)),
         installs |-> Cardinality({j[2] : j \in J}),
         p05 |-> Percentile(5, Ctits(J)), p50 |-> Percentile(50, Ctits(J)),
         p95 |-> Percentile(95, Ctits(J)),
         negative |-> Cardinality({j[2] : j \in {x \in J : Ctit(x[2], x[1]) < 0}})]
Sources == {Body(c).source : c \in {b \in facts : Body(b).kind = "click"}}
SourceRows(day) ==
    {row \in {SourceRow(day, source) : source \in Sources} : row.clicks > 0}

\* The median of installs / clicks, as a fraction.
MedianCvr(rows) ==
    LET s == SetToSortSeq(rows, LAMBDA a, b : a.installs * b.clicks < b.installs * a.clicks)
        lo == s[(Len(s) + 1) \div 2]
        hi == s[Len(s) \div 2 + 1]
    IN  <<lo.installs * hi.clicks + hi.installs * lo.clicks, 2 * lo.clicks * hi.clicks>>

\* evaluateSourceDayWithBundle; ratios are percentages.
Flooded(row, median, p) ==
    /\ row.clicks >= p.minClicks
    /\ row.installs * median[2] * 100 <= median[1] * p.cvr * row.clicks
    /\ row.p50 # NoTime
    /\ row.p50 >= p.p50Min * 100
    /\ row.p95 * 100 <= p.ratio * row.p50
FloodingDecisions(rows, r) ==
    {[row |-> row, median |-> MedianCvr(rows), revision |-> r,
      action |-> revisions[r].policy.action["source-day-click-flooding-v1"]] :
        row \in {x \in rows : r # NoRevision
                              /\ Flooded(x, MedianCvr(rows), revisions[r].policy)}}

\* Mutant of NewAggregates: one row per source and day.
NewAggregatesByDay(rows) ==
    {[row |-> row, at |-> clock] : row \in {x \in rows :
        \A a \in aggregates : a.row.day # x.day \/ a.row.source # x.source}}

\* persistAggregate: the digest of the row is part of the key.
NewAggregates(rows) ==
    {[row |-> row, at |-> clock] : row \in {x \in rows : \A a \in aggregates : a.row # x}}

\* markClockAnomalyAttributionsProvisional: the valid attributions nothing supersedes,
\* its own replacements of earlier ticks among them.
TotalOf(rows, field) == FoldSet(LAMBDA row, n : n + row[field], 0, rows)
Anomalous(rows, r) ==
    /\ r # NoRevision /\ TotalOf(rows, "installs") > 0
    /\ TotalOf(rows, "negative") * 100 > revisions[r].policy.negative * TotalOf(rows, "installs")
Superseded(a) == \E b \in attributions : b.sup = a.id
Provisional(day) ==
    {[a EXCEPT !.id = Append(a.id, "provisional"), !.finality = "provisional", !.sup = a.id] :
        a \in {x \in attributions :
            /\ x.reason = "valid_install_referrer" /\ ~Superseded(x)
            /\ \E source \in Sources : \E j \in Joined(day, source) : j[2] = x.of}}

\* aggregateSourceDay, one transaction; without a bundle it stores the rows alone, and a
\* worker with the rules switched off skips it.  It throws when two bundles are current,
\* and when a source decision is a quarantine: the table wants a deadline, there is none.
Aggregate ==
    LET rows == SourceRows(Yesterday)
        found == FloodingDecisions(rows, Active)
    IN
    /\ phase = "aggregate"
    /\ IF ~enabled \/ Ambiguous \/ (\E d \in found : d.action = "quarantine")
       THEN EndTick /\ UNCHANGED <<attributions, sourceVars>>
       ELSE /\ phase' = "resolve"
            /\ aggregates' = aggregates \cup NewAggregates(rows)
            /\ flooding' = flooding \cup found
            /\ attributions' = attributions \cup
                 (IF Anomalous(rows, Active) THEN Provisional(Yesterday) ELSE {})
            /\ UNCHANGED <<hist, pend, todo, ended>>
    /\ UNCHANGED <<clock, inbox, state, revisions, workerVars, rev, facts, decisions, quarantines,
                   resolutions, faults>>

\* resolveExpiredQuarantines, one transaction: a decision that is clear supersedes each.
Resolve ==
    LET due == {q \in quarantines : q.due <= clock} IN
    /\ phase = "resolve"
    /\ resolutions' = resolutions \cup {[of |-> q.id, at |-> clock] : q \in due}
    /\ quarantines' = quarantines \ due
    /\ EndTick
    /\ UNCHANGED <<clock, inbox, state, revisions, workerVars, rev, recordVars, sourceVars, faults>>

\* fraudAudit, for one source and day: the row computed last, and the decisions about
\* the source that nothing supersedes.
Audit(day, source) ==
    LET rows == {a \in aggregates : a.row.day = day /\ a.row.source = source}
        last == CHOOSE a \in rows : \A b \in rows : b.at <= a.at
        about == {d \in flooding : d.row.day = day /\ d.row.source = source}
    IN  [clicks |-> last.row.clicks, installs |-> last.row.installs,
         suspected |-> Cardinality(about),
         excluded |-> Cardinality({d \in about : d.action = "exclude"})]

(***************************************************************************)
(* The environment and the specification                                   *)
(***************************************************************************)
Pass ==
    /\ clock < MaxClock
    /\ clock' = clock + 1
    /\ UNCHANGED <<inbox, state, revisions, workerVars, phase, ended, drainVars, recordVars, quarantines,
                   resolutions, sourceVars, faults>>

\* appendDurableBatch, of the API and of the redirector.  A body is posted once: the
\* resent delivery of an event is never accepted as unique, and nothing here sees it.
Receive(body) ==
    /\ Len(inbox) < MaxBatches
    /\ body.time <= clock /\ \A b \in DOMAIN inbox : Body(b) # body
    /\ inbox' = Append(inbox, [at |-> clock, body |-> body])
    /\ state' = Append(state, "pending")
    /\ UNCHANGED <<clock, revisions, workerVars, phase, ended, drainVars, recordVars, quarantines,
                   resolutions, sourceVars, faults>>

Environment ==
    \/ Pass
    \/ \E body \in Bodies : Receive(body)
    \/ \E bundle \in Bundles, p \in Policies, sup \in 0 .. Len(revisions) : Activate(bundle, p, sup)

Worker ==
    \/ TickStart \/ Bind \/ PersistRecords \/ PersistAttributions
    \/ \E d \in todo : PersistFraud(d)
    \/ PersistLate \/ Mark \/ MarkFailed \/ Aggregate \/ Resolve

Next == Environment \/ Worker \/ TransactionFails \/ Crash
Spec == Init /\ [][Next]_vars

(***************************************************************************)
(* Properties                                                              *)
(***************************************************************************)
\* A quarantined decision either waits in ephemeral.fraud_quarantines or has been
\* superseded, once: its row is gone then and never comes back, although a drain that
\* died after persistFraud persists the decision again.
QuarantineResolvesOnce ==
    \A d \in decisions : d.action = "quarantine" =>
        LET waiting == \E q \in quarantines : q.id = d.id
            times == Cardinality({s \in resolutions : s.of = d.id})
        IN  (waiting /\ times = 0) \/ (~waiting /\ times = 1)

\* Once the batches of its install and of the click are both processed, an attribution
\* that says fraud_excluded points to a decision that is in the ledger, unless the drain
\* that processed the click had no bundle: attributions are persisted before decisions,
\* and a drain persists only what is about its own records.
ExclusionHasItsDecision ==
    \A a \in attributions :
        /\ a.reason = "fraud_excluded"
        /\ state[a.of] = "processed" /\ state[a.ref[1]] = "processed"
        => a.ref[1] \in unjudged \/ \E d \in decisions : d.id = a.ref

\* No record is judged by a rule bundle that was superseded before the record arrived,
\* whatever activations, faults and repeated drains come between.
NoStaleRevision ==
    \A d \in decisions : \A s \in DOMAIN revisions :
        revisions[s].sup = d.revision => revisions[s].at >= inbox[d.rec].at

\* After the aggregation of a day the audit report shows what the facts now say, not a
\* row of an earlier tick.
AuditFollows ==
    [][(phase = "aggregate" /\ phase' = "resolve") =>
        \A row \in SourceRows(Yesterday) :
            LET shown == Audit(row.day, row.source)'
            IN  shown.clicks = row.clicks /\ shown.installs = row.installs]_vars
=============================================================================
