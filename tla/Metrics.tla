------------------------------- MODULE Metrics -------------------------------
(***************************************************************************)
(* Metric runs: the SQL engine (apps/worker/src/metrics/cohort.ts, run.ts)  *)
(* that reads the ledger while the drain of the inbox, cost imports and     *)
(* privacy deletions write it, the reference evaluator metricRuns of        *)
(* packages/attribution-core whose numbers the engine has to reproduce, and *)
(* the counts that the API serves straight from the ledger (reporting.ts).  *)
(*                                                                         *)
(* The drain commits every record in a transaction of its own and the       *)
(* attributions in others afterwards; a metric run is one REPEATABLE READ   *)
(* transaction, hence one step.  Times are ticks, DayLength of them a day.  *)
(***************************************************************************)
EXTENDS Integers, FiniteSets, FiniteSetsExt

CONSTANTS
    Workloads,      \* records, each of which arrives as a batch, and cost reports
    Definitions,    \* metric definitions by name
    Evaluations,    \* what metrics:run and the privacy recalculation ask for
    Rates,          \* fx_policy.rates: currency |-> rate
    TargetCurrency, \* fx_policy.target_currency
    RatioUnit,      \* 10^ratio_scale
    DayLength,
    Given,          \* whether --watermark is given: a set of BOOLEANs
    MaxRuns         \* bound: computations

None == "none"
NoDate == -1

ASSUME MetricsAssumption ==
    /\ DayLength \in Nat \ {0} /\ RatioUnit \in Nat \ {0} /\ MaxRuns \in Nat
    /\ Given \subseteq BOOLEAN
    /\ \A name \in DOMAIN Definitions :
         LET d == Definitions[name]
         IN  /\ d.calculation \in {"event_count", "revenue_sum", "cohort_size", "revenue_over_cost",
                                   "revenue_over_cohort", "active_installations_over_cohort"}
             /\ d.policy \in {"gross", "net"} /\ d.day \in Nat
    /\ \A e \in Evaluations :
         /\ DOMAIN e = {"names", "campaign", "cohort_date", "metric_date", "status", "bucket",
                        "watermark", "privacy"}
         /\ e.names \subseteq DOMAIN Definitions /\ e.privacy \in {"before", "after"}

\* A record_id names one record, an installation has one row in install_facts, and a
\* click of the redirector names no installation.
ASSUME WorkloadsAssumption ==
    \A w \in Workloads :
        /\ \A r, s \in w.records : r.id = s.id => r = s
        /\ \A r, s \in w.records :
             r.event = "install" /\ s.event = "install" /\ r.installation = s.installation => r = s
        /\ \A r \in w.records : r.at \in Int /\ r.received \in Int
        /\ \A r \in w.records : r.event = "click" => r.installation = None
        /\ \A report \in w.reports : \A c \in report : c.as_of \in Int /\ c.id \in Int

VARIABLES
    inbox,          \* the workload: what may arrive
    arrived,        \* those whose batch is in ledger.ingest_batches
    processed,      \* those whose batch is processed
    drain,          \* processSdkInbox: the batch it drains and all it knows
    ledger,         \* committed records, with their logical event and facts
    attributions,   \* ledger.attribution_results
    redacted,       \* records whose payload a deletion removed
    costs,          \* ledger.cost_records
    runs            \* ledger.metric_runs

drainVars == <<arrived, processed, drain, ledger, attributions>>
vars == <<inbox, drainVars, redacted, costs, runs>>

Idle == [batch |-> {}, known |-> {}]
Init ==
    /\ inbox \in Workloads
    /\ arrived = {} /\ processed = {} /\ drain = Idle
    /\ ledger = {} /\ attributions = {} /\ redacted = {}
    /\ costs = {} /\ runs = {}

(***************************************************************************)
(* Attributions.  The rows of one subject have the decided_at of its       *)
(* record, so that the id decides: attr:R < attr:R:fraud < attr:R:late.     *)
(***************************************************************************)
Initial == 0
Fraud == 1
Late == 2

ClicksOf(r, known) == {c \in known : c.event = "click" /\ c.click = r.click}
Row(r, rank, status, reason) ==
    [of |-> r.id, rank |-> rank, status |-> status, reason |-> reason, decided |-> r.received]

\* makeAttribution, makeDeepLinkAttribution, makeAggregatePostbackAttribution
InitialRow(r, known) ==
    IF r.event = "install"
    THEN IF ClicksOf(r, known) # {} THEN Row(r, Initial, "non_organic", "valid_install_referrer")
         ELSE Row(r, Initial, "unattributed", "unknown_click_id")
    ELSE Row(r, Initial, IF r.valid THEN "non_organic" ELSE "unattributed", "resolved")
Attributed == {"install", "deep_link_open", "skan_postback"}
Excluded(r, known) == r.event = "install" /\ \E c \in ClicksOf(r, known) : c.replayed

\* What evaluate returns for a subject, when its evidence is in the batch.
RowsOf(r, known) ==
    {InitialRow(r, known)} \cup
    (IF Excluded(r, known) THEN {Row(r, Fraud, "unattributed", "fraud_excluded")} ELSE {})
Evaluated(batch, known) ==
    UNION {RowsOf(r, known) : r \in {s \in known : /\ s.event \in Attributed
                                                   /\ ({s} \cup ClicksOf(s, known)) \cap batch # {}}}
Stored(row) == \E a \in attributions : a.of = row.of /\ a.rank = row.rank
Unstored(rows) == {row \in rows : ~Stored(row)}

\* persistLateAttribution: the stored result was decided without the click
LateRows(rows) ==
    {[row EXCEPT !.rank = Late] : row \in {x \in rows :
        /\ x.reason = "valid_install_referrer"
        /\ \E a \in attributions : a.of = x.of /\ a.rank = x.rank /\ a.reason # x.reason}}
IsFirst(row, rows) ==
    \A x \in rows : row.of < x.of \/ (row.of = x.of /\ row.rank <= x.rank)

(***************************************************************************)
(* The drain                                                               *)
(***************************************************************************)
\* Batches arrive; the drain reads every one it can still decode.
Select(new) ==
    /\ drain = Idle
    /\ arrived' = arrived \cup new
    /\ LET known == arrived' \ redacted IN
        /\ known \ processed # {}
        /\ drain' = [batch |-> known \ processed, known |-> known]
    /\ UNCHANGED <<inbox, processed, ledger, attributions, redacted, costs, runs>>

Uncommitted == drain.batch \ ledger
CommitRecord ==
    \E r \in Uncommitted :
        /\ \A s \in Uncommitted : r.received < s.received \/ (r.received = s.received /\ r.id <= s.id)
        /\ ledger' = ledger \cup {r}
        /\ UNCHANGED <<inbox, arrived, processed, drain, attributions, redacted, costs, runs>>

PersistAttribution ==
    LET rows == Evaluated(drain.batch, drain.known)
        next == IF Unstored(rows) # {} THEN Unstored(rows) ELSE Unstored(LateRows(rows))
    IN  /\ drain.batch # {} /\ Uncommitted = {}
        /\ \E row \in next :
            /\ IsFirst(row, next)
            /\ attributions' = attributions \cup {row}
        /\ UNCHANGED <<inbox, arrived, processed, drain, ledger, redacted, costs, runs>>

Mark ==
    LET rows == Evaluated(drain.batch, drain.known)
    IN  /\ drain.batch # {} /\ Uncommitted = {}
        /\ Unstored(rows) \cup Unstored(LateRows(rows)) = {}
        /\ processed' = processed \cup drain.batch
        /\ drain' = Idle
        /\ UNCHANGED <<inbox, arrived, ledger, attributions, redacted, costs, runs>>

\* The worker dies; its next poll reads the inbox again.
Crash ==
    /\ drain # Idle
    /\ drain' = Idle
    /\ UNCHANGED <<inbox, arrived, processed, ledger, attributions, redacted, costs, runs>>

(***************************************************************************)
(* The other writers                                                       *)
(***************************************************************************)
\* cost_key_digest: the dimensions of the spend with its date
CostKey(c) == <<c.dims, c.date>>
SameReport(c, k) == CostKey(c) = CostKey(k) /\ c.as_of = k.as_of

\* persistCostImport: of the rows of one key and as_of, only the first is ever stored.
ImportCosts(report) ==
    LET fresh == {c \in report : ~\E k \in costs : SameReport(c, k)}
    IN  /\ fresh # {}
        /\ \E new \in SUBSET fresh :
            /\ \A c \in fresh : \E k \in new : SameReport(c, k)
            /\ \A c, k \in new : SameReport(c, k) => c = k
            /\ costs' = costs \cup new
        /\ UNCHANGED <<inbox, drainVars, redacted, runs>>

\* executePrivacyRequest for an installation
Redact(installation) ==
    LET affected == {r \in ledger : r.installation = installation}
    IN  /\ installation # None
        /\ affected \ redacted # {}
        /\ redacted' = redacted \cup affected
        /\ UNCHANGED <<inbox, drainVars, costs, runs>>

(***************************************************************************)
(* Arithmetic                                                              *)
(***************************************************************************)
\* roundHalfEven and ledger.half_even_div, on the amounts >= 0 that occur
HalfEven(n, d) ==
    LET q == n \div d
        twice == 2 * (n % d)
    IN  IF twice > d \/ (twice = d /\ q % 2 = 1) THEN q + 1 ELSE q

DateAt(t, zone) == (t + zone) \div DayLength
Sum(Amount(_), S) == MapThenSumSet(Amount, S)

Present(n) == [state |-> "present", n |-> n]
Undefined == [state |-> "undefined", n |-> 0]
Error == [state |-> "error", n |-> 0]
HasRate(v) == v.currency \in DOMAIN Rates
Converted(v) == HalfEven(v.amount * Rates[v.currency], v.unit)

(***************************************************************************)
(* The SQL engine                                                          *)
(***************************************************************************)
\* assertMetricDefinitionSeries
AggregateNames == {"skan_attributed_installs", "skan_conversion_value_distribution"}
SeriesMatches(name, d) ==
    (name \in AggregateNames) = (d.event = "skan_postback") /\ (name \in AggregateNames => d.zone = 0)

\* Mutant: a deletion is not looked at.
VisibleRedacted(r, e) == r.received <= e.watermark
Visible(r, e) == r.received <= e.watermark /\ (e.privacy = "before" \/ r \notin redacted)
InGroup(wanted, has) == wanted = None \/ wanted = has
Results(r) == {a \in attributions : a.of = r.id}
ResultsAt(r, watermark) == {a \in Results(r) : a.decided <= watermark}
Latest(rows) == CHOOSE a \in rows : \A b \in rows : b.rank <= a.rank

CurrentCosts(e) ==
    LET candidates == {c \in costs :
            /\ e.status \in {None, "non_organic"}
            /\ c.as_of <= e.watermark
            /\ InGroup(e.campaign, c.campaign)
            /\ e.cohort_date \in {NoDate, c.date}}
    IN  {c \in candidates : \A k \in candidates : CostKey(k) = CostKey(c) => k.as_of <= c.as_of}

\* What an evaluation sees: the records and the spend at its watermark.
Input(e) == [records |-> {r \in ledger : Visible(r, e)}, costs |-> CurrentCosts(e)]

Cohort(d, e, input) ==
    {r \in input.records :
        /\ r.event = "install"
        /\ InGroup(e.campaign, r.campaign)
        /\ e.cohort_date \in {NoDate, DateAt(r.at, d.zone)}
        /\ e.status # None => Results(r) # {} /\ Latest(Results(r)).status = e.status
        /\ d.policy = "net" => Results(r) = {} \/ Latest(Results(r)).reason # "fraud_excluded"}

RevenueCandidates(d, e, input) ==
    {v \in input.records : /\ v.event = "ad_revenue"
                           /\ \E i \in Cohort(d, e, input) : /\ i.installation = v.installation
                                                             /\ v.at >= i.at
                                                             /\ v.at < i.at + (d.day + 1) * DayLength}
TotalRevenue(records) == Sum(Converted, records)
\* Mutant: revenue is summed before it is rounded.
RevenueRoundedOnce(d, e, input) ==
    LET Raw(v) == v.amount * Rates[v.currency]
    IN  HalfEven(Sum(Raw, RevenueCandidates(d, e, input)), 10)
Revenue(d, e, input) == TotalRevenue(RevenueCandidates(d, e, input))

Active(d, e, input) ==
    {i \in Cohort(d, e, input) :
        \E s \in input.records : /\ s.event = "session_start"
                                 /\ s.installation = i.installation
                                 /\ s.at >= i.at + d.day * DayLength
                                 /\ s.at < i.at + (d.day + 1) * DayLength}

Scaled(c) == HalfEven(c.spend, c.unit)
Spend(reported) == Sum(Scaled, reported)

EventCountRefused(name, d, e) ==
    \/ e.metric_date = NoDate
    \/ d.event \notin Attributed \cup {"click"}
    \/ d.event \in {"click", "skan_postback"} /\ e.status # None
    \/ d.event = "skan_postback" /\ (e.bucket # None) # (name = "skan_conversion_value_distribution")

StatusAt(r, watermark) ==
    LET rows == ResultsAt(r, watermark) IN IF rows = {} THEN "unattributed" ELSE Latest(rows).status

AggregateRecords(e, input) ==
    {r \in input.records :
        /\ r.event = "skan_postback"
        /\ r.valid
        /\ StatusAt(r, e.watermark) = "non_organic"
        /\ DateAt(r.received, 0) = e.metric_date
        /\ InGroup(e.bucket, r.bucket)}

EventRecords(d, e, input) ==
    {r \in input.records :
        /\ r.event = d.event
        /\ DateAt(r.at, d.zone) = e.metric_date
        /\ InGroup(e.campaign, r.campaign)
        /\ InGroup(e.status, StatusAt(r, e.watermark))
        /\ d.policy = "net" =>
            ~\E a \in ResultsAt(r, e.watermark) : r.event = "install" /\ a.reason = "fraud_excluded"}

EventCount(name, d, e, input) ==
    IF EventCountRefused(name, d, e) THEN Error
    ELSE Present(Cardinality(IF d.event = "skan_postback" THEN AggregateRecords(e, input)
                             ELSE EventRecords(d, e, input)))

CohortValue(d, e, input) ==
    LET size == Cardinality(Cohort(d, e, input))
    IN  IF \/ \E v \in RevenueCandidates(d, e, input) : ~HasRate(v)
           \/ \E c \in input.costs : c.currency # TargetCurrency
        THEN Error
        ELSE CASE d.calculation = "revenue_sum" -> Present(Revenue(d, e, input))
               [] d.calculation = "cohort_size" -> Present(size)
               [] d.calculation = "revenue_over_cost" ->
                    IF Spend(input.costs) = 0 THEN Undefined
                    ELSE Present(HalfEven(Revenue(d, e, input) * RatioUnit, Spend(input.costs)))
               [] d.calculation = "revenue_over_cohort" ->
                    IF size = 0 THEN Undefined ELSE Present(HalfEven(Revenue(d, e, input), size))
               [] OTHER ->
                    IF size = 0 THEN Undefined
                    ELSE Present(HalfEven(Cardinality(Active(d, e, input)) * RatioUnit, size))

Value(name, e, input) ==
    LET d == Definitions[name]
    IN  IF d.calculation = "event_count" THEN EventCount(name, d, e, input) ELSE CohortValue(d, e, input)
MetricValue(name, e) == Value(name, e, Input(e))

\* input_snapshot_id: a digest of the records and of the current costs
Lifecycle(r, e) == IF e.privacy = "after" /\ r \in redacted THEN "redacted" ELSE "available"
\* Mutant: the digest leaves the costs out.
SnapshotOfRecords(e) ==
    [records |-> {<<r.id, Lifecycle(r, e)>> : r \in {x \in ledger : x.received <= e.watermark}}, costs |-> {}]
Snapshot(e) ==
    [records |-> {<<r.id, Lifecycle(r, e)>> : r \in {x \in ledger : x.received <= e.watermark}},
     costs |-> CurrentCosts(e)]

\* The id holds the watermark only when --watermark was given: the same
\* evaluation can be stored twice, and no more.
RunId(e, given) == <<e, given>>
Run(name, e, given) ==
    [name |-> name, of |-> e, given |-> given, snapshot |-> Snapshot(e), value |-> MetricValue(name, e)]
Compute(e, given) ==
    LET new == {Run(name, e, given) : name \in e.names}
        done == {RunId(r.of, r.given) : r \in runs}
    IN  /\ Cardinality(done) < MaxRuns
        /\ \A name \in DOMAIN Definitions : SeriesMatches(name, Definitions[name])
        /\ \A r \in new : r.value # Error
        /\ RunId(e, given) \notin done
        /\ runs' = runs \cup new
        /\ UNCHANGED <<inbox, drainVars, redacted, costs>>

\* recordCounts of the API, of one metric and one group
RecordCount(name, e) ==
    LET available == {r \in ledger : r.received <= e.watermark /\ r \notin redacted}
        result(r) == {a \in attributions : a.of = r.id /\ a.decided <= e.watermark}
        aggregate == {r \in available : /\ r.event = "skan_postback" /\ r.valid
                                        /\ result(r) # {} /\ Latest(result(r)).status = "non_organic"}
        status(r) == IF result(r) = {} THEN "unattributed" ELSE Latest(result(r)).status
    IN  CASE name = "skan_attributed_installs" ->
                Cardinality({r \in aggregate : DateAt(r.received, 0) = e.metric_date})
          [] name = "skan_conversion_value_distribution" ->
                Cardinality({r \in aggregate : DateAt(r.received, 0) = e.metric_date /\ r.bucket = e.bucket})
          [] OTHER ->
                Cardinality({r \in available :
                    /\ r.event = IF name = "daily_click_count" THEN "click" ELSE "install"
                    /\ DateAt(r.at, 0) = e.metric_date
                    /\ InGroup(e.campaign, r.campaign)
                    /\ InGroup(e.status, status(r))})

Next ==
    \/ \E new \in SUBSET (inbox.records \ arrived) : Select(new)
    \/ CommitRecord \/ PersistAttribution \/ Mark \/ Crash
    \/ \E report \in inbox.reports : ImportCosts(report)
    \/ \E i \in {r.installation : r \in inbox.records} : Redact(i)
    \/ \E e \in Evaluations, given \in Given : Compute(e, given)
Spec == Init /\ [][Next]_vars

(***************************************************************************)
(* The reference: metricRuns of attribution-core, given the same records    *)
(***************************************************************************)
RefStatus(r) ==
    IF Excluded(r, ledger) THEN "unattributed" ELSE InitialRow(r, ledger).status
RefInstalls(e) ==
    {r \in ledger : /\ r.event = "install" /\ Visible(r, e)
                    /\ InGroup(e.campaign, r.campaign)
                    /\ e.cohort_date \in {NoDate, DateAt(r.at, 0)}
                    /\ InGroup(e.status, RefStatus(r))}
Eligible(d, e) == {i \in RefInstalls(e) : d.policy = "net" => ~Excluded(i, ledger)}
EligibleRevenue(d, i, v) ==
    IF d.window = "calendar_day"
    THEN DateAt(v.at, d.zone) = DateAt(i.at + d.day * DayLength, d.zone)
    ELSE v.at - i.at >= 0 /\ v.at - i.at < (d.day + 1) * DayLength
RefRevenue(d, e) ==
    {v \in ledger : /\ v.event = "ad_revenue" /\ Visible(v, e)
                    /\ \E i \in Eligible(d, e) : i.installation = v.installation /\ EligibleRevenue(d, i, v)}
RefActive(d, e) ==
    {i \in RefInstalls(e) :
        \E s \in ledger : /\ s.event = "session_start" /\ Visible(s, e)
                          /\ s.installation = i.installation
                          /\ (s.at - i.at) \div DayLength = d.day}
\* Its dimension_digest has no date: of all dates of some spend one row is left.
RefCosts(e) ==
    LET grouped == {c \in costs : /\ e.status \in {None, "non_organic"} /\ c.as_of <= e.watermark
                                  /\ InGroup(e.campaign, c.campaign)
                                  /\ e.cohort_date \in {NoDate, c.date}}
    IN  {c \in grouped : \A k \in grouped :
            k.dims = c.dims => k.as_of < c.as_of \/ (k.as_of = c.as_of /\ k.id <= c.id)}
RefEventCount(name, d, e) ==
    IF d.event = "skan_postback"
    THEN Cardinality({r \in ledger : /\ r.event = d.event /\ Visible(r, e)
                                     /\ DateAt(r.received, 0) = e.metric_date
                                     /\ InitialRow(r, ledger).status = "non_organic"
                                     /\ InGroup(e.bucket, r.bucket)})
    ELSE Cardinality({r \in ledger : /\ r.event = d.event /\ Visible(r, e)
                                     /\ d.policy = "net" => ~Excluded(r, ledger)
                                     /\ InGroup(e.campaign, r.campaign)
                                     /\ e.status # None => RefStatus(r) = e.status
                                     /\ DateAt(r.at, d.zone) = e.metric_date})

Reference(name, e) ==
    LET d == Definitions[name]
        size == Cardinality(Eligible(d, e))
        revenue == TotalRevenue(RefRevenue(d, e))
        cost == Spend(RefCosts(e))
    IN  IF d.calculation = "event_count"
        THEN IF EventCountRefused(name, d, e) THEN Error ELSE Present(RefEventCount(name, d, e))
        ELSE IF \E v \in RefRevenue(d, e) : ~HasRate(v) THEN Error
        ELSE CASE d.calculation = "revenue_sum" -> Present(revenue)
               [] d.calculation = "cohort_size" -> Present(size)
               [] d.calculation = "revenue_over_cost" ->
                    IF \E c \in RefCosts(e) : c.currency # TargetCurrency THEN Error
                    ELSE IF cost = 0 THEN Undefined ELSE Present(HalfEven(revenue * RatioUnit, cost))
               [] d.calculation = "revenue_over_cohort" ->
                    IF size = 0 THEN Undefined ELSE Present(HalfEven(revenue, size))
               [] OTHER ->
                    IF size = 0 THEN Undefined
                    ELSE Present(HalfEven(Cardinality(RefActive(d, e)) * RatioUnit, size))

(***************************************************************************)
(* Properties                                                              *)
(***************************************************************************)
\* The contract the two engines share.  They part ways on a calendar-day
\* window, on a cohort day outside UTC, on the numerator of net retention, and
\* on the spend of several dates, which one sums and the other does not.
Shared(d, e) ==
    d.calculation # "event_count" =>
        /\ d.window # "calendar_day" /\ d.zone = 0
        /\ d.calculation = "active_installations_over_cohort" => d.policy = "gross"
        /\ d.calculation = "revenue_over_cost" => e.cohort_date # NoDate
\* ... and on an installation whose click came late and is replayed.
LateAndExcluded == \E a, b \in attributions : a.of = b.of /\ a.rank = Fraud /\ b.rank = Late
Settled == drain = Idle /\ arrived = processed

\* "the SQL cohort engine's metric_runs are byte-identical ... to
\* packages/attribution-core's output for the same definitions and watermark"
\* (docs/design/m1-baseline.md, B2): whatever the order in which records,
\* clicks, costs and deletions reached the ledger, with crashes between, a run
\* stored while no batch is half way has the value of the reference.
RunsConformToReference ==
    [][\A r \in runs' \ runs :
          Settled /\ Shared(Definitions[r.name], r.of) /\ ~LateAndExcluded
            /\ (r.of.privacy = "after" \/ redacted = {})
          => r.value = Reference(r.name, r.of)]_vars

\* A number that does not depend on attributions is a function of the input
\* snapshot stored beside it: while the records and costs at the run's watermark
\* are those of its snapshot, the same query returns the same value.
AttributionFree(r) ==
    /\ r.of.status = None
    /\ Definitions[r.name].policy = "gross"
    /\ Definitions[r.name].event # "skan_postback"
RunsAreReproducible ==
    \A r \in runs : AttributionFree(r) /\ Snapshot(r.of) = r.snapshot => MetricValue(r.name, r.of) = r.value

\* The counts that the API reads from the ledger are those a metric run over
\* the records still available at that watermark stores (the consistency test).
Counted == AggregateNames \cup {"daily_click_count", "daily_install_count"}
\* Such a metric counts, in UTC and gross, the events its name says.
CountsItsEvents(name) ==
    LET d == Definitions[name]
    IN  /\ d.calculation = "event_count" /\ d.policy = "gross" /\ d.zone = 0
        /\ d.event = CASE name = "daily_click_count" -> "click"
                       [] name = "daily_install_count" -> "install"
                       [] OTHER -> "skan_postback"
CountsMatchRuns ==
    \A e \in Evaluations : \A name \in {n \in e.names \cap Counted : CountsItsEvents(n)} :
        LET value == MetricValue(name, [e EXCEPT !.privacy = "after"])
        IN  value # Error => value.n = RecordCount(name, e)
=============================================================================
