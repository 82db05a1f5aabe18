---------------------------- MODULE MetricsProofs ----------------------------
(***************************************************************************)
(* For any records, definitions, evaluations and rates, in any order of    *)
(* arrival, drain, crash, import and deletion: a stored number that uses   *)
(* no attribution is a function of its snapshot, the counts of the API are *)
(* those of the engine, and what the engine stores is what the reference   *)
(* computes.                                                               *)
(***************************************************************************)
EXTENDS Metrics, TLAPS

-----------------------------------------------------------------------------
(* The ledger, and the snapshot of a run.                                  *)

\* What is committed has arrived, what is processed is committed, and a drain knows
\* what had arrived.
LedgerOK ==
    /\ inbox \in Workloads
    /\ arrived \subseteq inbox.records
    /\ ledger \subseteq arrived /\ processed \subseteq ledger
    /\ drain.batch \subseteq drain.known /\ drain.known \subseteq arrived

LEMMA LedgerInit == Init => LedgerOK
  BY DEF Init, LedgerOK, Idle

LEMMA LedgerStep ==
  ASSUME LedgerOK, [Next]_vars
  PROVE  LedgerOK'
<1>1. CASE UNCHANGED <<inbox, drainVars>>
  BY <1>1 DEF LedgerOK, drainVars
<1>2. ASSUME NEW new \in SUBSET (inbox.records \ arrived), Select(new)
      PROVE  LedgerOK'
  BY <1>2 DEF LedgerOK, Select
<1>3. CASE CommitRecord
  BY <1>3 DEF LedgerOK, CommitRecord, Uncommitted
<1>4. CASE PersistAttribution
  BY <1>4 DEF LedgerOK, PersistAttribution
<1>5. CASE Mark
  BY <1>5 DEF LedgerOK, Mark, Idle, Uncommitted
<1>6. CASE Crash
  BY <1>6 DEF LedgerOK, Crash, Idle
<1>7. ASSUME NEW report, ImportCosts(report) PROVE LedgerOK'
  BY <1>1, <1>7 DEF ImportCosts
<1>8. ASSUME NEW i, Redact(i) PROVE LedgerOK'
  BY <1>1, <1>8 DEF Redact
<1>9. ASSUME NEW e, NEW given, Compute(e, given) PROVE LedgerOK'
  BY <1>1, <1>9 DEF Compute
<1>10. CASE UNCHANGED vars
  BY <1>1, <1>10 DEF vars
<1> QED BY <1>2, <1>3, <1>4, <1>5, <1>6, <1>7, <1>8, <1>9, <1>10 DEF Next

\* The input that a snapshot stands for.
InputOf(snapshot) ==
    [records |-> {r \in inbox.records : <<r.id, "available">> \in snapshot.records},
     costs |-> snapshot.costs]

\* The digest of records and costs determines what the evaluation saw.
LEMMA SnapshotIsInput ==
  ASSUME LedgerOK, NEW e \in Evaluations
  PROVE  InputOf(Snapshot(e)) = Input(e)
<1> DEFINE snap == Snapshot(e)
<1>1. e.privacy \in {"before", "after"}
  BY MetricsAssumption
<1>2. \A r, s \in inbox.records : r.id = s.id => r = s
  BY WorkloadsAssumption DEF LedgerOK
<1>3. snap.costs = CurrentCosts(e)
      /\ snap.records = {<<r.id, Lifecycle(r, e)>> : r \in {x \in ledger : x.received <= e.watermark}}
  BY DEF Snapshot
<1> HIDE DEF snap
<1>4. ASSUME NEW r \in inbox.records
      PROVE  <<r.id, "available">> \in snap.records <=> r \in ledger /\ Visible(r, e)
  <2>1. <<r.id, "available">> \in snap.records <=>
          \E x \in ledger : x.received <= e.watermark /\ x.id = r.id /\ Lifecycle(x, e) = "available"
    BY <1>3
  <2>2. \A x \in ledger : x.id = r.id <=> x = r
    BY <1>2 DEF LedgerOK
  <2>3. Lifecycle(r, e) = "available" <=> e.privacy = "before" \/ r \notin redacted
    BY <1>1 DEF Lifecycle
  <2> QED BY <2>1, <2>2, <2>3 DEF Visible
<1>5. {r \in inbox.records : <<r.id, "available">> \in snap.records} = {r \in ledger : Visible(r, e)}
  BY <1>4 DEF LedgerOK
<1> QED BY <1>3, <1>5 DEF InputOf, Input, snap

\* The parameters of a number that no attribution enters.
Free(d, e) == e.status = None /\ d.policy = "gross" /\ d.event # "skan_postback"

\* Such a number depends on its input alone.
LEMMA FreeValue ==
  ASSUME NEW name, NEW e, NEW input, Free(Definitions[name], e)
  PROVE  Value(name, e, input)' = Value(name, e, input)
<1> DEFINE d == Definitions[name]
<1>1. Cohort(d, e, input)' = Cohort(d, e, input)
  BY DEF Cohort, Free
<1>2. RevenueCandidates(d, e, input)' = RevenueCandidates(d, e, input)
  BY <1>1 DEF RevenueCandidates
<1>3. Active(d, e, input)' = Active(d, e, input)
  BY <1>1 DEF Active
<1>4. Revenue(d, e, input)' = Revenue(d, e, input)
  BY <1>2 DEF Revenue
<1>5. CohortValue(d, e, input)' = CohortValue(d, e, input)
  BY <1>1, <1>2, <1>3, <1>4 DEF CohortValue
<1>6. EventRecords(d, e, input)' = EventRecords(d, e, input)
  BY DEF EventRecords, Free, InGroup
<1>7. EventCount(name, d, e, input)' = EventCount(name, d, e, input)
  BY <1>6 DEF EventCount, Free
<1> QED BY <1>5, <1>7 DEF Value

\* A stored number that uses no attribution is that of the input in its snapshot.
RunsOK ==
    \A r \in runs :
        /\ r.of \in Evaluations
        /\ AttributionFree(r) => r.value = Value(r.name, r.of, InputOf(r.snapshot))

LEMMA FreeRun == \A r : AttributionFree(r) <=> Free(Definitions[r.name], r.of)
  BY DEF AttributionFree, Free

\* A run that is stored keeps its value, whatever becomes of the attributions.
LEMMA RunsStep ==
  ASSUME LedgerOK, RunsOK, [Next]_vars
  PROVE  RunsOK'
<1>1. inbox' = inbox
  <2>1. CASE \E new \in SUBSET (inbox.records \ arrived) : Select(new)
    BY <2>1 DEF Select
  <2>2. CASE CommitRecord \/ PersistAttribution \/ Mark \/ Crash
    BY <2>2 DEF CommitRecord, PersistAttribution, Mark, Crash
  <2>3. CASE \/ \E report \in inbox.reports : ImportCosts(report)
             \/ \E i \in {r.installation : r \in inbox.records} : Redact(i)
             \/ \E e \in Evaluations, given \in Given : Compute(e, given)
    BY <2>3 DEF ImportCosts, Redact, Compute
  <2>4. CASE UNCHANGED vars
    BY <2>4 DEF vars
  <2> QED BY <2>1, <2>2, <2>3, <2>4 DEF Next
<1>2. ASSUME NEW r \in runs
      PROVE  r.of \in Evaluations /\ (AttributionFree(r) => r.value = Value(r.name, r.of, InputOf(r.snapshot))')
  <2>1. InputOf(r.snapshot)' = InputOf(r.snapshot)
    BY <1>1 DEF InputOf
  <2>2. ASSUME NEW input, AttributionFree(r)
        PROVE  Value(r.name, r.of, input)' = Value(r.name, r.of, input)
    BY <2>2, FreeRun, FreeValue
  <2> QED BY <2>1, <2>2 DEF RunsOK
<1>3. CASE runs' = runs
  BY <1>2, <1>3 DEF RunsOK
<1>4. ASSUME NEW e \in Evaluations, NEW given, Compute(e, given)
      PROVE  RunsOK'
  <2>1. UNCHANGED <<inbox, ledger, attributions, redacted, costs>>
    BY <1>4 DEF Compute, drainVars
  <2>2. runs' = runs \cup {Run(name, e, given) : name \in e.names}
    BY <1>4 DEF Compute
  <2>3. ASSUME NEW name \in e.names
        PROVE  LET r == Run(name, e, given)
               IN r.of = e /\ r.value = Value(r.name, r.of, InputOf(r.snapshot))
    BY SnapshotIsInput DEF Run, MetricValue
  <2>4. \A r \in runs' : r.of \in Evaluations /\ (AttributionFree(r) => r.value = Value(r.name, r.of, InputOf(r.snapshot))')
    <3> SUFFICES ASSUME NEW r \in runs', r \notin runs
                 PROVE  r.of \in Evaluations
                        /\ (AttributionFree(r) => r.value = Value(r.name, r.of, InputOf(r.snapshot))')
      BY <1>2
    <3>1. r.of \in Evaluations /\ r.value = Value(r.name, r.of, InputOf(r.snapshot))
      BY <2>2, <2>3
    <3>2. InputOf(r.snapshot)' = InputOf(r.snapshot)
      BY <1>1 DEF InputOf
    <3>3. ASSUME NEW input, AttributionFree(r)
          PROVE  Value(r.name, r.of, input)' = Value(r.name, r.of, input)
      BY <3>3, FreeRun, FreeValue
    <3> QED BY <3>1, <3>2, <3>3
  <2> QED BY <2>4 DEF RunsOK
<1>5. CASE \/ \E new \in SUBSET (inbox.records \ arrived) : Select(new)
           \/ CommitRecord \/ PersistAttribution \/ Mark \/ Crash
  BY <1>3, <1>5 DEF Select, CommitRecord, PersistAttribution, Mark, Crash
<1>6. CASE \/ \E report \in inbox.reports : ImportCosts(report)
           \/ \E i \in {r.installation : r \in inbox.records} : Redact(i)
           \/ UNCHANGED vars
  BY <1>3, <1>6 DEF ImportCosts, Redact, vars
<1> QED BY <1>4, <1>5, <1>6 DEF Next

\* A number that uses no attribution can be computed again from what its snapshot names
\* (computeSqlMetricRunsWithClient), after any further records, corrections and deletions.
THEOREM SnapshotSafety == Spec => []RunsAreReproducible
<1>1. Init => LedgerOK /\ RunsOK
  BY LedgerInit DEF Init, RunsOK
<1>2. LedgerOK /\ RunsOK /\ [Next]_vars => (LedgerOK /\ RunsOK)'
  BY LedgerStep, RunsStep
<1>3. LedgerOK /\ RunsOK => RunsAreReproducible
  <2> SUFFICES ASSUME LedgerOK, RunsOK, NEW r \in runs, AttributionFree(r), Snapshot(r.of) = r.snapshot
               PROVE  MetricValue(r.name, r.of) = r.value
    BY DEF RunsAreReproducible
  <2>1. r.of \in Evaluations /\ r.value = Value(r.name, r.of, InputOf(Snapshot(r.of)))
    BY DEF RunsOK
  <2>2. InputOf(Snapshot(r.of)) = Input(r.of)
    BY <2>1, SnapshotIsInput
  <2> QED BY <2>1, <2>2 DEF MetricValue
<1> QED BY <1>1, <1>2, <1>3, PTL DEF Spec

-----------------------------------------------------------------------------
(* The counts of the API.                                                  *)

\* recordCounts of the API (reporting.ts) and the engine count the same records, in every
\* reachable state.
THEOREM CountSafety == Spec => []CountsMatchRuns
<1>1. CountsMatchRuns
  <2> SUFFICES ASSUME NEW e \in Evaluations, NEW name \in e.names \cap Counted, CountsItsEvents(name),
                      MetricValue(name, [e EXCEPT !.privacy = "after"]) # Error
               PROVE  MetricValue(name, [e EXCEPT !.privacy = "after"]).n = RecordCount(name, e)
    BY DEF CountsMatchRuns
  <2> DEFINE f == [e EXCEPT !.privacy = "after"]
             d == Definitions[name]
             available == {r \in ledger : r.received <= e.watermark /\ r \notin redacted}
  <2>1. /\ f.privacy = "after" /\ f.watermark = e.watermark /\ f.metric_date = e.metric_date
        /\ f.campaign = e.campaign /\ f.status = e.status /\ f.bucket = e.bucket
    BY MetricsAssumption
  <2> HIDE DEF f
  <2>2. Input(f).records = available
    BY <2>1 DEF Input, Visible
  <2>3. MetricValue(name, f) = EventCount(name, d, f, Input(f))
    BY DEF MetricValue, Value, CountsItsEvents
  <2>4. ~EventCountRefused(name, d, f)
    BY <2>3 DEF EventCount, f
  <2>5. MetricValue(name, f).n = Cardinality(IF d.event = "skan_postback" THEN AggregateRecords(f, Input(f))
                                             ELSE EventRecords(d, f, Input(f)))
    BY <2>3, <2>4 DEF EventCount, Present
  <2>6. \A r : ResultsAt(r, f.watermark) = {a \in attributions : a.of = r.id /\ a.decided <= e.watermark}
    BY <2>1 DEF ResultsAt, Results
  <2>7. CASE name \in AggregateNames
    <3>1. d.event = "skan_postback" /\ name \notin {"daily_click_count", "daily_install_count"}
      BY <2>7 DEF CountsItsEvents, AggregateNames
    <3>2. AggregateRecords(f, Input(f)) =
            {r \in available : /\ r.event = "skan_postback" /\ r.valid
                               /\ ResultsAt(r, f.watermark) # {}
                               /\ Latest(ResultsAt(r, f.watermark)).status = "non_organic"
                               /\ DateAt(r.received, 0) = e.metric_date
                               /\ InGroup(e.bucket, r.bucket)}
      BY <2>1, <2>2 DEF AggregateRecords, StatusAt
    <3>3. CASE name = "skan_attributed_installs"
      <4>1. e.bucket = None
        BY <2>1, <2>4, <3>1, <3>3 DEF EventCountRefused
      <4>2. AggregateRecords(f, Input(f)) =
              {r \in {x \in available : /\ x.event = "skan_postback" /\ x.valid
                                        /\ ResultsAt(x, f.watermark) # {}
                                        /\ Latest(ResultsAt(x, f.watermark)).status = "non_organic"} :
                 DateAt(r.received, 0) = e.metric_date}
        BY <3>2, <4>1 DEF InGroup
      <4>3. RecordCount(name, e) = Cardinality(
              {r \in {x \in available : /\ x.event = "skan_postback" /\ x.valid
                                        /\ ResultsAt(x, f.watermark) # {}
                                        /\ Latest(ResultsAt(x, f.watermark)).status = "non_organic"} :
                 DateAt(r.received, 0) = e.metric_date})
        BY <2>6, <3>3 DEF RecordCount
      <4> QED BY <2>5, <3>1, <4>2, <4>3 DEF f
    <3>4. CASE name = "skan_conversion_value_distribution"
      <4>1. e.bucket # None
        BY <2>1, <2>4, <3>1, <3>4 DEF EventCountRefused
      <4>2. AggregateRecords(f, Input(f)) =
              {r \in {x \in available : /\ x.event = "skan_postback" /\ x.valid
                                        /\ ResultsAt(x, f.watermark) # {}
                                        /\ Latest(ResultsAt(x, f.watermark)).status = "non_organic"} :
                 DateAt(r.received, 0) = e.metric_date /\ r.bucket = e.bucket}
        BY <3>2, <4>1 DEF InGroup
      <4>3. RecordCount(name, e) = Cardinality(
              {r \in {x \in available : /\ x.event = "skan_postback" /\ x.valid
                                        /\ ResultsAt(x, f.watermark) # {}
                                        /\ Latest(ResultsAt(x, f.watermark)).status = "non_organic"} :
                 DateAt(r.received, 0) = e.metric_date /\ r.bucket = e.bucket})
        BY <2>6, <3>4 DEF RecordCount
      <4> QED BY <2>5, <3>1, <4>2, <4>3 DEF f
    <3> QED BY <2>7, <3>3, <3>4 DEF AggregateNames
  <2>8. CASE name \in {"daily_click_count", "daily_install_count"}
    <3>1. /\ d.event = IF name = "daily_click_count" THEN "click" ELSE "install"
          /\ d.zone = 0 /\ d.policy = "gross" /\ name \notin AggregateNames
      BY <2>8 DEF CountsItsEvents, AggregateNames
    <3>2. EventRecords(d, f, Input(f)) =
            {r \in available : /\ r.event = d.event
                               /\ DateAt(r.at, 0) = e.metric_date
                               /\ InGroup(e.campaign, r.campaign)
                               /\ InGroup(e.status, StatusAt(r, f.watermark))}
      BY <2>1, <2>2, <3>1 DEF EventRecords
    <3>3. RecordCount(name, e) = Cardinality(
            {r \in available : /\ r.event = IF name = "daily_click_count" THEN "click" ELSE "install"
                               /\ DateAt(r.at, 0) = e.metric_date
                               /\ InGroup(e.campaign, r.campaign)
                               /\ InGroup(e.status, StatusAt(r, f.watermark))})
      BY <2>6, <3>1 DEF RecordCount, StatusAt, AggregateNames
    <3> QED BY <2>5, <3>1, <3>2, <3>3 DEF f
  <2> QED BY <2>7, <2>8 DEF Counted
<1> QED BY <1>1, PTL DEF Spec
-----------------------------------------------------------------------------
(* The attributions, as the drain leaves them.                             *)

\* A stored result is one that some evaluation of what has arrived returns.
KnownRow(a) ==
    \E x \in arrived :
        /\ x.event \in Attributed
        /\ \/ \E known \in SUBSET arrived : a = InitialRow(x, known)
           \/ a = Row(x, Fraud, "unattributed", "fraud_excluded") /\ Excluded(x, arrived)
           \/ /\ a = Row(x, Late, "non_organic", "valid_install_referrer")
              /\ x.event = "install" /\ ClicksOf(x, arrived) # {}
RowsOK ==
    /\ \A a \in attributions : KnownRow(a)
    /\ \A a, b \in attributions : a.of = b.of /\ a.rank = b.rank => a = b

\* The results of x take into account every click of it that is processed.
Complete(x) ==
    \E a \in attributions :
        /\ a.of = x.id /\ a.rank = Initial
        /\ x.event = "install" /\ ClicksOf(x, processed) # {} =>
             a.reason = "valid_install_referrer" \/ \E b \in attributions : b.of = x.id /\ b.rank = Late
        /\ Excluded(x, processed) => \E b \in attributions : b.of = x.id /\ b.rank = Fraud

\* A drain treats whatever it knows and is not processed; no click is ever redacted.
CompleteOK ==
    /\ \A r \in redacted : r.event # "click"
    /\ drain.batch # {} => /\ drain.known \ processed = drain.batch
                           /\ processed \ redacted \subseteq drain.known
    /\ \A x \in processed \ redacted : x.event \in Attributed => Complete(x)

LEMMA Ranks == Initial = 0 /\ Fraud = 1 /\ Late = 2
  BY DEF Initial, Fraud, Late

\* The fields of a row.
LEMMA RowFields ==
  \A r, rank, status, reason :
    LET row == Row(r, rank, status, reason)
    IN row.of = r.id /\ row.rank = rank /\ row.status = status /\ row.reason = reason
       /\ row.decided = r.received
  BY DEF Row

\* What evaluate() returns for x, by cases.
LEMMA InitialRowCases ==
  ASSUME NEW x, NEW known, x.event \in Attributed
  PROVE  /\ InitialRow(x, known).of = x.id /\ InitialRow(x, known).rank = Initial
         /\ InitialRow(x, known).decided = x.received
         /\ InitialRow(x, known).reason # "fraud_excluded"
         /\ x.event = "install" /\ ClicksOf(x, known) # {} =>
              InitialRow(x, known) = Row(x, Initial, "non_organic", "valid_install_referrer")
         /\ x.event = "install" /\ ClicksOf(x, known) = {} =>
              InitialRow(x, known) = Row(x, Initial, "unattributed", "unknown_click_id")
         /\ x.event # "install" =>
              InitialRow(x, known) = Row(x, Initial, IF x.valid THEN "non_organic" ELSE "unattributed", "resolved")
  BY DEF InitialRow, Row

LEMMA ClicksGrow ==
  ASSUME NEW x, NEW K, NEW L, K \subseteq L
  PROVE  ClicksOf(x, K) \subseteq ClicksOf(x, L) /\ (Excluded(x, K) => Excluded(x, L))
  BY DEF ClicksOf, Excluded

\* What an evaluation returns is such a row.
LEMMA EvaluatedIsKnown ==
  ASSUME LedgerOK, NEW row \in Evaluated(drain.batch, drain.known)
  PROVE  KnownRow(row) /\ (row.reason = "valid_install_referrer" => KnownRow([row EXCEPT !.rank = Late]))
<1>1. PICK x \in drain.known : x.event \in Attributed /\ row \in RowsOf(x, drain.known)
  BY DEF Evaluated
<1>2. x \in arrived /\ drain.known \in SUBSET arrived
  BY DEF LedgerOK
<1>3. CASE row = InitialRow(x, drain.known)
  <2>1. KnownRow(row)
    BY <1>1, <1>2, <1>3 DEF KnownRow
  <2>2. ASSUME row.reason = "valid_install_referrer"
        PROVE  KnownRow([row EXCEPT !.rank = Late])
    <3>1. x.event = "install" /\ ClicksOf(x, drain.known) # {}
      BY <1>1, <1>3, <2>2, InitialRowCases, RowFields
    <3>2. row = Row(x, Initial, "non_organic", "valid_install_referrer")
      BY <1>1, <1>3, <3>1, InitialRowCases
    <3>3. [row EXCEPT !.rank = Late] = Row(x, Late, "non_organic", "valid_install_referrer")
      BY <3>2 DEF Row
    <3>4. ClicksOf(x, arrived) # {}
      BY <1>2, <3>1, ClicksGrow
    <3> QED BY <1>1, <1>2, <3>1, <3>3, <3>4 DEF KnownRow
  <2> QED BY <2>1, <2>2
<1>4. CASE row = Row(x, Fraud, "unattributed", "fraud_excluded") /\ Excluded(x, drain.known)
  <2>1. Excluded(x, arrived)
    BY <1>2, <1>4, ClicksGrow
  <2>2. KnownRow(row)
    BY <1>1, <1>2, <1>4, <2>1 DEF KnownRow
  <2>3. row.reason = "fraud_excluded"
    BY <1>4, RowFields
  <2> QED BY <2>2, <2>3
<1> QED BY <1>1, <1>3, <1>4 DEF RowsOf

\* More has arrived: what was known is known.
LEMMA KnownRowStays ==
  ASSUME NEW a, KnownRow(a), arrived \subseteq arrived'
  PROVE  KnownRow(a)'
<1>1. PICK x \in arrived :
        /\ x.event \in Attributed
        /\ \/ \E known \in SUBSET arrived : a = InitialRow(x, known)
           \/ a = Row(x, Fraud, "unattributed", "fraud_excluded") /\ Excluded(x, arrived)
           \/ /\ a = Row(x, Late, "non_organic", "valid_install_referrer")
              /\ x.event = "install" /\ ClicksOf(x, arrived) # {}
  BY DEF KnownRow
<1>2. x \in arrived' /\ SUBSET arrived \subseteq SUBSET (arrived')
  OBVIOUS
<1>3. (Excluded(x, arrived) => Excluded(x, arrived')) /\ ClicksOf(x, arrived) \subseteq ClicksOf(x, arrived')
  BY ClicksGrow
<1> QED BY <1>1, <1>2, <1>3 DEF KnownRow

LEMMA RowsStep ==
  ASSUME LedgerOK, RowsOK, [Next]_vars
  PROVE  RowsOK'
<1>1. CASE attributions' = attributions /\ arrived \subseteq arrived'
  BY <1>1, KnownRowStays DEF RowsOK
<1>2. CASE PersistAttribution
  <2> DEFINE rows == Evaluated(drain.batch, drain.known)
             late == LateRows(rows)
  <2>1. arrived' = arrived
    BY <1>2 DEF PersistAttribution
  <2>2. PICK row : /\ attributions' = attributions \cup {row}
                   /\ row \in Unstored(rows) \/ row \in Unstored(late)
    BY <1>2 DEF PersistAttribution
  <2>3. KnownRow(row)
    <3>1. CASE row \in rows
      BY <3>1, EvaluatedIsKnown
    <3>2. CASE row \in late
      <4>1. PICK x \in rows : x.reason = "valid_install_referrer" /\ row = [x EXCEPT !.rank = Late]
        BY <3>2 DEF LateRows
      <4> QED BY <4>1, EvaluatedIsKnown
    <3> QED BY <2>2, <3>1, <3>2 DEF Unstored
  <2>4. ~Stored(row)
    BY <2>2 DEF Unstored
  <2>5. \A a \in attributions' : KnownRow(a)'
    BY <2>1, <2>2, <2>3, KnownRowStays DEF RowsOK
  <2>6. \A a, b \in attributions' : a.of = b.of /\ a.rank = b.rank => a = b
    BY <2>2, <2>4 DEF RowsOK, Stored
  <2> QED BY <2>5, <2>6 DEF RowsOK
<1>3. CASE \E new \in SUBSET (inbox.records \ arrived) : Select(new)
  BY <1>1, <1>3 DEF Select
<1>4. CASE CommitRecord \/ Mark \/ Crash
  BY <1>1, <1>4 DEF CommitRecord, Mark, Crash
<1>5. CASE \/ \E report \in inbox.reports : ImportCosts(report)
           \/ \E i \in {r.installation : r \in inbox.records} : Redact(i)
           \/ \E e \in Evaluations, given \in Given : Compute(e, given)
           \/ UNCHANGED vars
  BY <1>1, <1>5 DEF ImportCosts, Redact, Compute, drainVars, vars
<1> QED BY <1>2, <1>3, <1>4, <1>5 DEF Next

\* Complete(x) survives whatever adds results and processes nothing more.
LEMMA CompleteStays ==
  ASSUME NEW x, Complete(x), attributions \subseteq attributions',
         ClicksOf(x, processed') \subseteq ClicksOf(x, processed)
  PROVE  Complete(x)'
<1>1. Excluded(x, processed') => Excluded(x, processed)
  BY DEF Excluded
<1> QED BY <1>1 DEF Complete

\* The drain stores every result of a subject before it marks the batch processed.
LEMMA MarkCompletes ==
  ASSUME LedgerOK, CompleteOK, Mark,
         NEW x \in processed' \ redacted, x.event \in Attributed
  PROVE  Complete(x)'
<1> DEFINE batch == drain.batch
           known == drain.known
           rows == Evaluated(batch, known)
<1>1. /\ processed' = processed \cup batch /\ attributions' = attributions
      /\ batch # {} /\ batch \subseteq known /\ known \ processed = batch
      /\ processed \ redacted \subseteq known
  BY DEF Mark, CompleteOK, LedgerOK
<1>2. \A row \in rows \cup LateRows(rows) : Stored(row)
  <2>1. Unstored(rows) \cup Unstored(LateRows(rows)) = {}
    BY DEF Mark
  <2> QED BY <2>1 DEF Unstored
<1>3. x \in known
  BY <1>1
<1>4. ClicksOf(x, processed') = ClicksOf(x, known)
  <2>1. \A c \in processed : c.event = "click" => c \in known
    BY <1>1 DEF CompleteOK
  <2> QED BY <1>1, <2>1 DEF ClicksOf
<1>5. Excluded(x, processed') <=> Excluded(x, known)
  BY <1>4 DEF Excluded
<1> HIDE DEF batch, known
<1>6. CASE ({x} \cup ClicksOf(x, known)) \cap batch # {}
  <2>1. RowsOf(x, known) \subseteq rows
    BY <1>3, <1>6 DEF Evaluated
  <2>2. InitialRow(x, known) \in rows
    BY <2>1 DEF RowsOf
  <2>3. PICK a \in attributions : a.of = x.id /\ a.rank = Initial
    BY <1>2, <2>2, InitialRowCases DEF Stored
  <2>4. ASSUME x.event = "install", ClicksOf(x, known) # {}, a.reason # "valid_install_referrer"
        PROVE  \E b \in attributions : b.of = x.id /\ b.rank = Late
    <3>1. InitialRow(x, known) = Row(x, Initial, "non_organic", "valid_install_referrer")
      BY <2>4, InitialRowCases
    <3> DEFINE first == InitialRow(x, known)
               row == [first EXCEPT !.rank = Late]
    <3>2. first.reason = "valid_install_referrer" /\ first.of = x.id /\ first.rank = Initial
      BY <3>1, RowFields
    <3>3. row \in LateRows(rows)
      BY <2>2, <2>3, <2>4, <3>2 DEF LateRows
    <3>4. row.of = x.id /\ row.rank = Late
      BY <3>1 DEF Row
    <3> QED BY <1>2, <3>3, <3>4 DEF Stored
  <2>5. ASSUME Excluded(x, known)
        PROVE  \E b \in attributions : b.of = x.id /\ b.rank = Fraud
    <3>1. Row(x, Fraud, "unattributed", "fraud_excluded") \in rows
      BY <2>1, <2>5 DEF RowsOf
    <3> QED BY <1>2, <3>1, RowFields DEF Stored
  <2> QED BY <1>1, <1>4, <1>5, <2>3, <2>4, <2>5 DEF Complete
<1>7. CASE ({x} \cup ClicksOf(x, known)) \cap batch = {}
  <2>1. x \in processed /\ x \notin batch
    BY <1>1, <1>7
  <2>2. Complete(x)
    BY <2>1 DEF CompleteOK
  <2>3. ClicksOf(x, processed') \subseteq ClicksOf(x, processed)
    BY <1>1, <1>4, <1>7 DEF ClicksOf
  <2> QED BY <1>1, <2>2, <2>3, CompleteStays
<1> QED BY <1>6, <1>7

LEMMA CompleteInit == Init => RowsOK /\ CompleteOK
  BY DEF Init, RowsOK, CompleteOK, Idle

LEMMA CompleteStep ==
  ASSUME LedgerOK, CompleteOK, [Next]_vars
  PROVE  CompleteOK'
<1>1. CASE UNCHANGED <<processed, drain, attributions, redacted>>
  BY <1>1, CompleteStays DEF CompleteOK
<1>2. ASSUME NEW new \in SUBSET (inbox.records \ arrived), Select(new)
      PROVE  CompleteOK'
  <2>1. UNCHANGED <<processed, attributions, redacted>>
    BY <1>2 DEF Select
  <2>2. drain' = [batch |-> (arrived' \ redacted) \ processed, known |-> arrived' \ redacted]
        /\ arrived \subseteq arrived'
    BY <1>2 DEF Select
  <2>3. drain'.known \ processed = drain'.batch /\ processed \ redacted \subseteq drain'.known
    BY <2>2 DEF LedgerOK
  <2>4. \A x \in processed \ redacted : x.event \in Attributed => Complete(x)'
    BY <2>1, CompleteStays DEF CompleteOK
  <2> QED BY <2>1, <2>3, <2>4 DEF CompleteOK
<1>3. CASE CommitRecord
  BY <1>1, <1>3 DEF CommitRecord
<1>4. CASE PersistAttribution
  <2>1. UNCHANGED <<processed, drain, redacted>> /\ attributions \subseteq attributions'
    BY <1>4 DEF PersistAttribution
  <2> QED BY <2>1, CompleteStays DEF CompleteOK
<1>5. CASE Mark
  <2>1. redacted' = redacted /\ drain'.batch = {}
    BY <1>5 DEF Mark, Idle
  <2>2. \A x \in processed' \ redacted : x.event \in Attributed => Complete(x)'
    BY <1>5, MarkCompletes
  <2> QED BY <2>1, <2>2 DEF CompleteOK
<1>6. CASE Crash
  <2>1. UNCHANGED <<processed, attributions, redacted>> /\ drain'.batch = {}
    BY <1>6 DEF Crash, Idle
  <2>2. \A x \in processed \ redacted : x.event \in Attributed => Complete(x)'
    BY <2>1, CompleteStays DEF CompleteOK
  <2> QED BY <2>1, <2>2 DEF CompleteOK
<1>7. ASSUME NEW report, ImportCosts(report) PROVE CompleteOK'
  BY <1>1, <1>7 DEF ImportCosts, drainVars
<1>8. ASSUME NEW i, Redact(i) PROVE CompleteOK'
  <2>1. UNCHANGED <<processed, drain, attributions>> /\ i # None
        /\ redacted' = redacted \cup {r \in ledger : r.installation = i}
    BY <1>8 DEF Redact, drainVars
  <2>2. \A r \in redacted' : r.event # "click"
    BY <2>1, WorkloadsAssumption DEF CompleteOK, LedgerOK
  <2>3. \A x \in processed \ redacted' : x.event \in Attributed => Complete(x)'
    BY <2>1, CompleteStays DEF CompleteOK
  <2> QED BY <2>1, <2>2, <2>3 DEF CompleteOK
<1>9. ASSUME NEW e, NEW given, Compute(e, given) PROVE CompleteOK'
  BY <1>1, <1>9 DEF Compute, drainVars
<1>10. CASE UNCHANGED vars
  BY <1>1, <1>10 DEF vars, drainVars
<1> QED BY <1>2, <1>3, <1>4, <1>5, <1>6, <1>7, <1>8, <1>9, <1>10 DEF Next
-----------------------------------------------------------------------------
(* The engine and the reference.                                           *)

\* The last result is the one of the highest rank.
LEMMA LatestIs ==
  ASSUME NEW R, NEW a \in R,
         \A b \in R : b.rank <= a.rank,
         \A b \in R : a.rank <= b.rank => b = a
  PROVE  Latest(R) = a
<1>1. \A c \in R : (\A b \in R : b.rank <= c.rank) => c = a
  OBVIOUS
<1> QED BY <1>1 DEF Latest

\* The results that the ledger holds for a record.
LEMMA ResultsAreKnown ==
  ASSUME LedgerOK, RowsOK, NEW x \in arrived, NEW a \in Results(x)
  PROVE  /\ x.event \in Attributed /\ a.decided = x.received
         /\ \/ a.rank = Initial /\ \E known \in SUBSET arrived : a = InitialRow(x, known)
            \/ a = Row(x, Fraud, "unattributed", "fraud_excluded") /\ Excluded(x, arrived)
            \/ /\ a = Row(x, Late, "non_organic", "valid_install_referrer")
               /\ x.event = "install" /\ ClicksOf(x, arrived) # {}
<1>1. a \in attributions /\ a.of = x.id
  BY DEF Results
<1>2. PICK y \in arrived :
        /\ y.event \in Attributed
        /\ \/ \E known \in SUBSET arrived : a = InitialRow(y, known)
           \/ a = Row(y, Fraud, "unattributed", "fraud_excluded") /\ Excluded(y, arrived)
           \/ /\ a = Row(y, Late, "non_organic", "valid_install_referrer")
              /\ y.event = "install" /\ ClicksOf(y, arrived) # {}
  BY <1>1 DEF RowsOK, KnownRow
<1>3. a.of = y.id /\ a.decided = y.received
  BY <1>2, InitialRowCases, RowFields
<1>4. y = x
  BY <1>1, <1>3, WorkloadsAssumption DEF LedgerOK
<1>5. \A known : InitialRow(x, known).rank = Initial
  BY <1>2, <1>4, InitialRowCases
<1> QED BY <1>2, <1>3, <1>4, <1>5

\* When no batch is half way, the last result of a record is what evaluate() returns for
\* it from the whole ledger.
LEMMA SettledResult ==
  ASSUME LedgerOK, RowsOK, CompleteOK, Settled, ~LateAndExcluded,
         NEW x \in ledger \ redacted, x.event \in Attributed
  PROVE  /\ Results(x) # {} /\ \A a \in Results(x) : a.decided = x.received
         /\ Latest(Results(x)).status = RefStatus(x)
         /\ Latest(Results(x)).reason = "fraud_excluded" <=> Excluded(x, ledger)
         /\ (\E a \in Results(x) : a.reason = "fraud_excluded") <=> Excluded(x, ledger)
<1>1. ledger = arrived /\ ledger = processed
  BY DEF LedgerOK, Settled
<1>2. Complete(x)
  BY <1>1 DEF CompleteOK
<1>3. PICK a \in Results(x) :
        /\ a.rank = Initial
        /\ x.event = "install" /\ ClicksOf(x, ledger) # {} =>
             a.reason = "valid_install_referrer" \/ \E b \in Results(x) : b.rank = Late
        /\ Excluded(x, ledger) => \E b \in Results(x) : b.rank = Fraud
  BY <1>1, <1>2 DEF Complete, Results
<1>4. \A b, c \in Results(x) : b.rank = c.rank => b = c
  BY DEF Results, RowsOK
<1>5. ASSUME NEW b \in Results(x)
      PROVE  /\ b.decided = x.received
             /\ \/ b.rank = Initial /\ \E known \in SUBSET ledger : b = InitialRow(x, known)
                \/ b = Row(x, Fraud, "unattributed", "fraud_excluded") /\ Excluded(x, ledger)
                \/ /\ b = Row(x, Late, "non_organic", "valid_install_referrer")
                   /\ x.event = "install" /\ ClicksOf(x, ledger) # {}
  BY <1>1, ResultsAreKnown
<1>6. ASSUME NEW b \in Results(x)
      PROVE  /\ b.rank \in {Initial, Fraud, Late}
             /\ b.reason = "fraud_excluded" <=> b.rank = Fraud
             /\ b.rank = Fraud => b.status = "unattributed" /\ Excluded(x, ledger)
             /\ b.rank = Late => /\ b.status = "non_organic" /\ x.event = "install"
                                 /\ ClicksOf(x, ledger) # {}
  BY <1>5, InitialRowCases, RowFields, Ranks
<1>7. ~\E b, c \in Results(x) : b.rank = Fraud /\ c.rank = Late
  BY DEF LateAndExcluded, Results
<1>8. CASE Excluded(x, ledger)
  <2>1. PICK f \in Results(x) : f.rank = Fraud
    BY <1>3, <1>8
  <2>2. \A b \in Results(x) : b.rank \in {Initial, Fraud}
    BY <1>6, <1>7, <2>1
  <2>3. Latest(Results(x)) = f
    BY <1>4, <2>1, <2>2, LatestIs, Ranks
  <2> QED BY <1>5, <1>6, <1>8, <2>1, <2>3 DEF RefStatus
<1>9. CASE ~Excluded(x, ledger) /\ \E l \in Results(x) : l.rank = Late
  <2>1. PICK l \in Results(x) : l.rank = Late
    BY <1>9
  <2>2. Latest(Results(x)) = l
    BY <1>4, <1>6, <2>1, LatestIs, Ranks
  <2>3. RefStatus(x) = "non_organic"
    BY <1>6, <1>9, <2>1, InitialRowCases, RowFields DEF RefStatus
  <2> QED BY <1>5, <1>6, <1>9, <2>1, <2>2, <2>3
<1>10. CASE ~Excluded(x, ledger) /\ ~\E l \in Results(x) : l.rank = Late
  <2>1. \A b \in Results(x) : b.rank = Initial
    BY <1>6, <1>10
  <2>2. Latest(Results(x)) = a
    BY <1>3, <1>4, <2>1, LatestIs, Ranks
  <2>3. PICK known \in SUBSET ledger : a = InitialRow(x, known)
    BY <1>5, <2>1, RowFields, Ranks
  <2>4. a.status = InitialRow(x, ledger).status
    <3>1. CASE x.event # "install"
      BY <2>3, <3>1, InitialRowCases
    <3>2. CASE x.event = "install" /\ ClicksOf(x, ledger) # {}
      <4>1. a.reason = "valid_install_referrer"
        BY <1>3, <1>10, <3>2
      <4>2. ClicksOf(x, known) # {}
        BY <2>3, <3>2, <4>1, InitialRowCases, RowFields
      <4> QED BY <2>3, <3>2, <4>2, InitialRowCases
    <3>3. CASE x.event = "install" /\ ClicksOf(x, ledger) = {}
      <4>1. ClicksOf(x, known) = {}
        BY <3>3, ClicksGrow
      <4> QED BY <2>3, <3>3, <4>1, InitialRowCases
    <3> QED BY <3>1, <3>2, <3>3
  <2> QED BY <1>5, <1>6, <1>10, <2>1, <2>2, <2>4, Ranks DEF RefStatus
<1> QED BY <1>8, <1>9, <1>10

\* Multiples of D are at least D apart.
LEMMA MulMono ==
  ASSUME NEW a \in Int, NEW b \in Int, NEW D \in Nat \ {0}, a < b
  PROVE  (a+1)*D <= b*D
<1>1. PICK k \in Nat : b = a + 1 + k
  <2>1. b - a - 1 \in Nat /\ b = a + 1 + (b - a - 1)
    OBVIOUS
  <2> QED BY <2>1
<1>2. b * D = (a+1)*D + k*D
  BY <1>1
<1>3. k*D >= 0 /\ k*D \in Int
  OBVIOUS
<1>4. (a+1)*D \in Int
  OBVIOUS
<1> QED BY <1>2, <1>3, <1>4

LEMMA DivBounds ==
  ASSUME NEW x \in Int, NEW D \in Nat \ {0}
  PROVE  x \div D \in Int /\ (x \div D) * D <= x /\ x < (x \div D + 1) * D
<1>1. x \div D \in Int /\ x % D \in Int /\ x = D * (x \div D) + (x % D) /\ 0 <= x % D /\ x % D < D
  OBVIOUS
<1>2. (x \div D + 1) * D = D * (x \div D) + D /\ (x \div D) * D = D * (x \div D)
  BY <1>1
<1> QED BY <1>1, <1>2

\* The whole days since the install are q exactly in the q-th interval.
LEMMA DivDay ==
  ASSUME NEW x \in Int, NEW q \in Int, NEW D \in Nat \ {0}
  PROVE  (x \div D = q) <=> (q * D <= x /\ x < (q + 1) * D)
<1> DEFINE k == x \div D
<1>1. k \in Int /\ k * D <= x /\ x < (k+1)*D
  BY DivBounds
<1> HIDE DEF k
<1>2. CASE k = q
  BY <1>1, <1>2
<1>3. CASE k < q
  <2>1. (k+1)*D <= q*D
   BY <1>1, <1>3, MulMono
  <2>2. (k+1)*D \in Int /\ q*D \in Int /\ k*D \in Int
    BY <1>1
  <2>3. ~(q * D <= x)
    BY <2>1, <2>2, <1>1
  <2> QED BY <2>3, <1>3, <1>1 DEF k
<1>4. CASE q < k
  <2>1. (q+1)*D <= k*D
   BY <1>1, <1>4, MulMono
  <2>2. (q+1)*D \in Int /\ q*D \in Int /\ k*D \in Int
    BY <1>1
  <2>3. ~(x < (q+1)*D)
    BY <2>1, <2>2, <1>1
  <2> QED BY <2>3, <1>4, <1>1 DEF k
<1> QED BY <1>1, <1>2, <1>3, <1>4 DEF k

\* The spend of one key and one as_of is stored once; as-of times and ids are comparable.
CostsOK ==
    /\ \A c \in costs : c.as_of \in Int /\ c.id \in Int
    /\ \A c, k \in costs : SameReport(c, k) => c = k

LEMMA CostsStep ==
  ASSUME LedgerOK, CostsOK, [Next]_vars
  PROVE  CostsOK'
<1>1. CASE costs' = costs
  BY <1>1 DEF CostsOK
<1>2. ASSUME NEW report \in inbox.reports, ImportCosts(report)
      PROVE  CostsOK'
  <2>1. \A c \in report : c.as_of \in Int /\ c.id \in Int
    BY WorkloadsAssumption DEF LedgerOK
  <2>2. PICK new \in SUBSET {c \in report : ~\E k \in costs : SameReport(c, k)} :
               (\A c, k \in new : SameReport(c, k) => c = k) /\ costs' = costs \cup new
    BY <1>2 DEF ImportCosts
  <2>3. \A c, k : SameReport(c, k) => SameReport(k, c)
    BY DEF SameReport
  <2> QED BY <2>1, <2>2, <2>3 DEF CostsOK, SameReport, CostKey
<1>3. CASE \/ \E new \in SUBSET (inbox.records \ arrived) : Select(new)
           \/ CommitRecord \/ PersistAttribution \/ Mark \/ Crash
  BY <1>1, <1>3 DEF Select, CommitRecord, PersistAttribution, Mark, Crash
<1>4. CASE \/ \E i \in {r.installation : r \in inbox.records} : Redact(i)
           \/ \E e \in Evaluations, given \in Given : Compute(e, given)
           \/ UNCHANGED vars
  BY <1>1, <1>4 DEF Redact, Compute, vars
<1> QED BY <1>2, <1>3, <1>4 DEF Next

\* On one cohort date the two keys of spend tell the same rows apart.
LEMMA CurrentCostsAreReference ==
  ASSUME CostsOK, NEW e, e.cohort_date # NoDate
  PROVE  CurrentCosts(e) = RefCosts(e)
<1> DEFINE grouped == {c \in costs : /\ e.status \in {None, "non_organic"} /\ c.as_of <= e.watermark
                                     /\ InGroup(e.campaign, c.campaign)
                                     /\ e.cohort_date \in {NoDate, c.date}}
<1>1. \A c, k \in grouped : CostKey(k) = CostKey(c) <=> k.dims = c.dims
  BY DEF CostKey
<1>2. \A c, k \in grouped : /\ c.as_of \in Int /\ k.as_of \in Int /\ c.id \in Int
                            /\ k.dims = c.dims /\ k.as_of = c.as_of => k = c
  BY <1>1 DEF CostsOK, SameReport
<1>3. \A c, k \in grouped : (CostKey(k) = CostKey(c) => k.as_of <= c.as_of) <=>
         (k.dims = c.dims => k.as_of < c.as_of \/ (k.as_of = c.as_of /\ k.id <= c.id))
  BY <1>1, <1>2
<1>4. CurrentCosts(e) = {c \in grouped : \A k \in grouped : CostKey(k) = CostKey(c) => k.as_of <= c.as_of}
  BY DEF CurrentCosts
<1>5. RefCosts(e) = {c \in grouped : \A k \in grouped :
                      k.dims = c.dims => k.as_of < c.as_of \/ (k.as_of = c.as_of /\ k.id <= c.id)}
  BY DEF RefCosts
<1> HIDE DEF grouped
<1> QED BY <1>3, <1>4, <1>5

\* What the two engines are compared on: no batch is half way, no late click of an excluded
\* install, and no deletion that the evaluation does not look at.
Comparable(e) ==
    /\ LedgerOK /\ RowsOK /\ CompleteOK /\ CostsOK
    /\ Settled /\ ~LateAndExcluded
    /\ e \in Evaluations /\ (e.privacy = "after" \/ redacted = {})

\* What an evaluation sees of an attributed record.
LEMMA SeenResult ==
  ASSUME NEW e, Comparable(e), NEW x \in Input(e).records, x.event \in Attributed
  PROVE  /\ Results(x) # {} /\ ResultsAt(x, e.watermark) = Results(x)
         /\ StatusAt(x, e.watermark) = RefStatus(x) /\ Latest(Results(x)).status = RefStatus(x)
         /\ Latest(Results(x)).reason = "fraud_excluded" <=> Excluded(x, ledger)
         /\ (\E a \in Results(x) : a.reason = "fraud_excluded") <=> Excluded(x, ledger)
<1>1. x \in ledger /\ Visible(x, e)
  BY DEF Input
<1>2. x \notin redacted /\ x.received <= e.watermark
  BY <1>1, MetricsAssumption DEF Visible, Comparable
<1>3. /\ Results(x) # {} /\ \A a \in Results(x) : a.decided = x.received
      /\ Latest(Results(x)).status = RefStatus(x)
      /\ Latest(Results(x)).reason = "fraud_excluded" <=> Excluded(x, ledger)
      /\ (\E a \in Results(x) : a.reason = "fraud_excluded") <=> Excluded(x, ledger)
  BY <1>1, <1>2, SettledResult DEF Comparable
<1>4. ResultsAt(x, e.watermark) = Results(x)
  BY <1>2, <1>3 DEF ResultsAt
<1> QED BY <1>3, <1>4 DEF StatusAt

\* The counts of events, and the cohort.
LEMMA CountsAreReference ==
  ASSUME NEW e, Comparable(e), NEW name \in DOMAIN Definitions,
         ~EventCountRefused(name, Definitions[name], e)
  PROVE  EventCount(name, Definitions[name], e, Input(e)) =
           Present(RefEventCount(name, Definitions[name], e))
<1> DEFINE d == Definitions[name]
           seen == Input(e).records
<1>1. seen = {r \in ledger : Visible(r, e)}
  BY DEF Input
<1> HIDE DEF seen
<1>2. CASE d.event = "skan_postback"
  <2>1. ASSUME NEW r \in seen, r.event = "skan_postback"
        PROVE  r.valid /\ StatusAt(r, e.watermark) = "non_organic" <=>
                 InitialRow(r, ledger).status = "non_organic"
    <3>1. StatusAt(r, e.watermark) = InitialRow(r, ledger).status
      BY <2>1, SeenResult DEF seen, Attributed, RefStatus, Excluded
    <3>2. InitialRow(r, ledger).status = IF r.valid THEN "non_organic" ELSE "unattributed"
      BY <2>1 DEF InitialRow, Row
    <3> QED BY <3>1, <3>2
  <2>2. AggregateRecords(e, Input(e)) =
          {r \in ledger : /\ r.event = d.event /\ Visible(r, e)
                          /\ DateAt(r.received, 0) = e.metric_date
                          /\ InitialRow(r, ledger).status = "non_organic"
                          /\ InGroup(e.bucket, r.bucket)}
    BY <1>1, <1>2, <2>1 DEF AggregateRecords, seen
  <2> QED BY <1>2, <2>2 DEF EventCount, RefEventCount
<1>3. CASE d.event # "skan_postback"
  <2>1. d.event \in Attributed \cup {"click"} /\ (d.event = "click" => e.status = None)
    BY DEF EventCountRefused
  <2>2. ASSUME NEW r \in seen, r.event = d.event
        PROVE  /\ InGroup(e.status, StatusAt(r, e.watermark)) <=> (e.status # None => RefStatus(r) = e.status)
               /\ (~\E a \in ResultsAt(r, e.watermark) : r.event = "install" /\ a.reason = "fraud_excluded")
                    <=> ~Excluded(r, ledger)
    <3>1. CASE d.event = "click"
      BY <2>1, <2>2, <3>1 DEF InGroup, Excluded
    <3>2. CASE d.event # "click"
      <4>1. r.event \in Attributed
        BY <2>1, <2>2, <3>2
      <4>2. /\ StatusAt(r, e.watermark) = RefStatus(r) /\ ResultsAt(r, e.watermark) = Results(r)
            /\ (\E a \in Results(r) : a.reason = "fraud_excluded") <=> Excluded(r, ledger)
        BY <4>1, SeenResult DEF seen
      <4> QED BY <4>2 DEF InGroup, Excluded
    <3> QED BY <3>1, <3>2
  <2>3. EventRecords(d, e, Input(e)) =
          {r \in ledger : /\ r.event = d.event /\ Visible(r, e)
                          /\ d.policy = "net" => ~Excluded(r, ledger)
                          /\ InGroup(e.campaign, r.campaign)
                          /\ e.status # None => RefStatus(r) = e.status
                          /\ DateAt(r.at, d.zone) = e.metric_date}
    BY <1>1, <2>2 DEF EventRecords, seen
  <2> QED BY <1>3, <2>3 DEF EventCount, RefEventCount
<1> QED BY <1>2, <1>3

LEMMA CohortIsReference ==
  ASSUME NEW e, Comparable(e), NEW d, d.zone = 0
  PROVE  Cohort(d, e, Input(e)) = Eligible(d, e)
<1>1. Input(e).records = {r \in ledger : Visible(r, e)}
  BY DEF Input
<1>2. ASSUME NEW r \in Input(e).records, r.event = "install"
      PROVE  /\ Results(r) # {} /\ Latest(Results(r)).status = RefStatus(r)
             /\ Latest(Results(r)).reason = "fraud_excluded" <=> Excluded(r, ledger)
  BY <1>2, SeenResult DEF Attributed
<1> QED BY <1>1, <1>2 DEF Cohort, Eligible, RefInstalls, InGroup

LEMMA RevenueIsReference ==
  ASSUME NEW e, Comparable(e), NEW d, d.zone = 0, d.window # "calendar_day", d.day \in Nat
  PROVE  RevenueCandidates(d, e, Input(e)) = RefRevenue(d, e)
<1>1. Input(e).records = {r \in ledger : Visible(r, e)}
  BY DEF Input
<1>2. Cohort(d, e, Input(e)) = Eligible(d, e)
  BY CohortIsReference
<1> DEFINE length == (d.day + 1) * DayLength
<1>3. length \in Int
  BY MetricsAssumption
<1> HIDE DEF length
<1>4. \A r \in ledger : r.at \in Int
  BY WorkloadsAssumption DEF Comparable, LedgerOK
<1>5. Eligible(d, e) \subseteq ledger
  BY DEF Eligible, RefInstalls
<1>6. ASSUME NEW i \in Eligible(d, e), NEW v \in ledger
      PROVE  v.at >= i.at /\ v.at < i.at + (d.day + 1) * DayLength <=> EligibleRevenue(d, i, v)
  <2>1. v.at >= i.at /\ v.at < i.at + length <=> v.at - i.at >= 0 /\ v.at - i.at < length
    BY <1>3, <1>4, <1>5
  <2> QED BY <2>1 DEF EligibleRevenue, length
<1> QED BY <1>1, <1>2, <1>6 DEF RevenueCandidates, RefRevenue

LEMMA ActiveIsReference ==
  ASSUME NEW e, Comparable(e), NEW d, d.zone = 0, d.policy = "gross", d.day \in Nat
  PROVE  Active(d, e, Input(e)) = RefActive(d, e)
<1>1. Input(e).records = {r \in ledger : Visible(r, e)}
  BY DEF Input
<1>2. Cohort(d, e, Input(e)) = RefInstalls(e)
  BY CohortIsReference DEF Eligible
<1> DEFINE from == d.day * DayLength
           to == (d.day + 1) * DayLength
<1>3. from \in Int /\ to \in Int /\ DayLength \in Nat \ {0}
  BY MetricsAssumption
<1> HIDE DEF from, to
<1>4. \A r \in ledger : r.at \in Int
  BY WorkloadsAssumption DEF Comparable, LedgerOK
<1>5. RefInstalls(e) \subseteq ledger
  BY DEF RefInstalls
<1>6. ASSUME NEW i \in RefInstalls(e), NEW s \in ledger
      PROVE  s.at >= i.at + d.day * DayLength /\ s.at < i.at + (d.day + 1) * DayLength
               <=> (s.at - i.at) \div DayLength = d.day
  <2>1. i.at \in Int /\ s.at \in Int /\ s.at - i.at \in Int
    BY <1>4, <1>5
  <2>2. (s.at - i.at) \div DayLength = d.day <=> from <= s.at - i.at /\ s.at - i.at < to
    BY <1>3, <2>1, DivDay DEF from, to
  <2>3. s.at >= i.at + from /\ s.at < i.at + to <=> from <= s.at - i.at /\ s.at - i.at < to
    BY <1>3, <2>1
  <2> QED BY <2>2, <2>3 DEF from, to
<1> QED BY <1>1, <1>2, <1>6 DEF Active, RefActive

\* A value of the engine is that of the reference.
LEMMA ValueIsReference ==
  ASSUME NEW e, Comparable(e), NEW name \in DOMAIN Definitions, Shared(Definitions[name], e),
         MetricValue(name, e) # Error
  PROVE  MetricValue(name, e) = Reference(name, e)
<1> DEFINE d == Definitions[name]
           input == Input(e)
<1>1. CASE d.calculation = "event_count"
  <2>1. ~EventCountRefused(name, d, e) /\ MetricValue(name, e) = EventCount(name, d, e, input)
    BY <1>1 DEF MetricValue, Value, EventCount
  <2> QED BY <1>1, <2>1, CountsAreReference DEF Reference
<1>2. CASE d.calculation # "event_count"
  <2>1. /\ d.zone = 0 /\ d.window # "calendar_day" /\ d.day \in Nat
        /\ d.calculation = "active_installations_over_cohort" => d.policy = "gross"
        /\ d.calculation = "revenue_over_cost" => e.cohort_date # NoDate
    BY <1>2, MetricsAssumption DEF Shared
  <2>2. MetricValue(name, e) = CohortValue(d, e, input)
    BY <1>2 DEF MetricValue, Value
  <2>3. /\ Cohort(d, e, input) = Eligible(d, e)
        /\ RevenueCandidates(d, e, input) = RefRevenue(d, e)
        /\ d.calculation = "revenue_over_cost" => input.costs = RefCosts(e)
        /\ d.calculation = "active_installations_over_cohort" => Active(d, e, input) = RefActive(d, e)
    BY <2>1, CohortIsReference, RevenueIsReference, ActiveIsReference, CurrentCostsAreReference
       DEF Comparable, Input
  <2> HIDE DEF input
  <2>4. Revenue(d, e, input) = TotalRevenue(RefRevenue(d, e))
    BY <2>3 DEF Revenue
  <2>5. /\ ~(\E v \in RefRevenue(d, e) : ~HasRate(v))
        /\ ~(\E c \in input.costs : c.currency # TargetCurrency)
    BY <2>2, <2>3 DEF CohortValue
  <2>6. d.calculation \in {"revenue_sum", "cohort_size", "revenue_over_cost", "revenue_over_cohort",
                           "active_installations_over_cohort"}
    BY <1>2, MetricsAssumption
  <2>7. CASE d.calculation = "active_installations_over_cohort"
    BY <1>2, <2>2, <2>3, <2>5, <2>7 DEF CohortValue, Reference
  <2>8. CASE d.calculation # "active_installations_over_cohort"
    BY <1>2, <2>2, <2>3, <2>4, <2>5, <2>6, <2>8 DEF CohortValue, Reference
  <2> QED BY <2>7, <2>8
<1> QED BY <1>1, <1>2

\* The SQL engine (cohort.ts) stores what metricRuns of attribution-core computes from the
\* same ledger, in whatever order records, clicks, spend and deletions came.
THEOREM Conformance == Spec => RunsConformToReference
<1> DEFINE Inv == LedgerOK /\ RowsOK /\ CompleteOK /\ CostsOK
           Conforms == \A r \in runs' \ runs :
                          Settled /\ Shared(Definitions[r.name], r.of) /\ ~LateAndExcluded
                            /\ (r.of.privacy = "after" \/ redacted = {})
                          => r.value = Reference(r.name, r.of)
<1>1. Init => Inv
  BY LedgerInit, CompleteInit DEF Init, CostsOK
<1>2. Inv /\ [Next]_vars => Inv'
  BY LedgerStep, RowsStep, CompleteStep, CostsStep
<1>3. Inv /\ [Next]_vars => [Conforms]_vars
  <2> SUFFICES ASSUME Inv, [Next]_vars, NEW r \in runs', r \notin runs,
                      Settled, Shared(Definitions[r.name], r.of), ~LateAndExcluded,
                      r.of.privacy = "after" \/ redacted = {}
               PROVE  r.value = Reference(r.name, r.of)
    OBVIOUS
  <2>1. PICK e \in Evaluations, given \in Given : Compute(e, given)
    <3>1. CASE \/ \E new \in SUBSET (inbox.records \ arrived) : Select(new)
               \/ CommitRecord \/ PersistAttribution \/ Mark \/ Crash
      BY <3>1 DEF Select, CommitRecord, PersistAttribution, Mark, Crash
    <3>2. CASE \/ \E report \in inbox.reports : ImportCosts(report)
               \/ \E i \in {s.installation : s \in inbox.records} : Redact(i)
               \/ UNCHANGED vars
      BY <3>2 DEF ImportCosts, Redact, vars
    <3> QED BY <3>1, <3>2 DEF Next
  <2>2. PICK name \in e.names : r = Run(name, e, given) /\ r.value # Error
    BY <2>1 DEF Compute
  <2>3. r.name = name /\ r.of = e /\ r.value = MetricValue(name, e)
    BY <2>2 DEF Run
  <2>4. Comparable(e) /\ name \in DOMAIN Definitions
    BY <2>3, MetricsAssumption DEF Comparable
  <2> QED BY <2>2, <2>3, <2>4, ValueIsReference
<1>4. [][Conforms]_vars <=> RunsConformToReference
  BY DEF RunsConformToReference
<1> QED BY <1>1, <1>2, <1>3, <1>4, PTL DEF Spec
==============================================================================
