# Verification of open-mmp

open-mmp is a self-hosted mobile measurement server: device SDKs, a click
redirector and partner networks send events, an API appends them to durable
inboxes, a worker evaluates them against an append-only ledger, and
reports are read from the ledger. This directory holds TLA+ models of its
core, the TLC configurations that check them on small instances, and TLAPS
proofs of the results that do not depend on the size of the instance.

`PROJECT.json` is the index: components, runs, the source lines behind every
definition, mutants, hazards and theorems.

## The system

| Component | State | Operations | Hard behaviour |
|---|---|---|---|
| SDK ingestion (`sdk-routes.ts`, `ingest-batch.ts`) | `ledger.ingest_batches`, `ingest_batch_states`, encrypted bodies | append a batch, enrol, device deletion | `received_at`, `inbox_seq` and commit are three different orders |
| Inbox drain (`sdk-worker.ts`, `ingestion.ts`) | the ledger: deliveries, logical events, facts, attributions, batch members | decode, evaluate, persist, late attribution, queue lookups, mark | many small transactions, a crash or an error between any two; one catch block for all batches |
| Attribution core (`evaluator.ts`) | none | order, duplicates, consent, anchors, attribution, metrics, fraud | decisions depend on the whole history, and the history grows |
| Request authentication (`sdk-auth.ts`) | `ephemeral.request_nonces`, keys, credentials | verify, enrol, revoke | replays, two clocks, concurrent handlers |
| AdServices worker (`adservices-worker.ts`) | `ephemeral.adservices_lookups`, results | queue, pass, ask, retry, expire | retries, head-of-line blocking, deletion during a pass |
| Privacy deletion and restore (`privacy.ts`, `privacy-reapply.ts`) | requests, tombstones, purged payloads | execute, re-apply | purges are not transactional; races with the drain |
| Integrity verifier | verification queue and verdicts | queue, verify, retry | as for the lookups |
| Fraud engine (`fraud-rules`, `fraud-worker.ts`, `rule-bundles.ts`) | bundle revisions, decisions, quarantines | evaluate, quarantine, resolve, activate | expiry racing a review; revision switched under a drain |
| Imports and MAX postbacks (`import/*`, `max-receiver.ts`) | import runs, attempts, files, `ingest_inbox` | chunked import, publish, receive, drain | chunks commit one by one, two imports side by side, two connections in one drain |
| Apple postback receiver | quota and buckets in memory, audits, inbox | verify, limit, audit, append, answer | repeated postbacks, restarts, answers that are lost |
| Redirector | tracking links (cached), click batches | resolve, classify, append | cache staleness, buffering |
| Device SDKs (Android, iOS, Unity bridge) | on-device queue, credential, consent | enqueue, flush, retry, withdraw | lost answers, process death |
| Metrics engine, reporting, dashboard | metric runs, sessions | compute, query, sign in | definitions superseded while running |
| Payload store | encrypted objects | write, read, purge | not part of the database transaction |

The API and the redirector write inbox rows; one worker process polls. Each
tick it drains the MAX inbox and then, for each tenant, drains the inbox, treats
the lookups, verifies integrity tokens and maintains fraud state, one after the
other; an exception ends the tick and the next poll starts another. API and
worker share the database and the payload store and nothing else.

What makes the modelled parts correct: an acknowledged batch ends processed,
with all of its records in the ledger, or failed for good; evaluating again after
a crash changes nothing; an event counts once whatever is resent; a withdrawal
is respected; a late click is credited; a signed request is used once; a lookup
ends and keeps its retry intervals. On the device: a queued event is delivered,
unless consent is withdrawn or its installation deleted; identifier, credential,
queue and server stay in step through a reset that may be interrupted anywhere.
A deletion leaves nothing readable that it saw, and a restored system serves only
after every deletion holds again. An interrupted or repeated import leaves the
ledger of an uninterrupted one. A postback that was acknowledged is durable and
counts once. A stored number is the one the reference evaluator gives for its
inputs. A quarantine ends once, and an exclusion has its decision.

## Modules

| Module | Models |
|---|---|
| `SdkInbox` | the inbox of one app of a tenant, its senders and the worker's drain |
| `RequestNonce` | timestamp window and nonce table of `verifySdkRequest` |
| `AdServicesLookup` | the lookup queue of one tenant and the passes over it |
| `AndroidSdk` | the Android SDK of one device and the three API routes it calls |
| `PrivacyDeletion` | deletion requests beside a drain, lookups and metric runs; backup, restore and re-application |
| `Imports` | MMP imports, the MAX receiver and its worker |
| `ImportLedger` | what imports promise: the abstract specification `Imports` implements |
| `ApplePostback` | the Apple postback receiver, the drain of its batches and the installs they count |
| `Metrics` | the SQL metrics engine on a growing ledger, with the reference evaluator beside it |
| `FraudPipeline` | rule bundles and one tenant's worker ticks: drain with fraud rules, aggregation, quarantines |
| `MC*` | the instances TLC checks |
| `*Proofs` | theorems and proofs about the module they extend; those about `RequestNonce` are in `AndroidSdkProofs` |

Operators named in a comment as a *mutant* are faulty variants of the definition
that follows them. They are part of no specification; they are there to show
that the property they belong to notices the fault.

### SdkInbox

`Receive`, `Insert`, `Commit` and `Abort` are the steps of one request:
`received_at` is sampled, the INSERT allocates `inbox_seq`, the transaction ends.
Requests overlap, so a batch may become visible after one with a later
`received_at` or a later `inbox_seq`. A batch is its `inbox_seq`, a record a pair
of batch and position.

The drain is `processSdkInbox` and the part of `ingestRuntimeBatch` it calls, one
step per transaction: `Select` reads the pending and processed batches;
`LoseBody` is the catch around the decoding of one body; `Evaluate` decides about
all decoded records at once, or throws because two installs name one installation;
`PersistRecord` is the transaction of one record in drain order (`PersistConflict`
when the unique index of `install_facts` makes it throw);
`PersistAttribution`, `PersistLate` and `QueueLookup` are the loops that follow;
`LinkRecords` and `AppendProcessed` are the two transactions per batch at the end.
`TransactionFails` enters the catch block, whose loop is `AppendFailed`; `Crash`
stands for a dying process and for a failing transaction outside of the try
block or in the catch block, where the exception simply leaves the tick.

The decisions of the evaluator are operators on the set of decoded batches:
`Before` (sort order), `First` and `Resolution` (duplicates), `ConsentWithdrawn`,
`Decision`, `AcceptedUnique`, `AnchorsOK`, `Reason` and `Attributions`.

Abstractions. A payload is a model value, and two deliveries have equal payloads
or not. An install names at most one click; that a click lies in the window before
its install is a field of the click. Attribution is by install referrer: the Meta,
aggregate and deep-link methods are left out, and so are reinstalls. No two batches share a
`received_at`, and a body holds an event once, so that the random `record_id`
order within a batch decides nothing. `ledger.event_deliveries` is a set: a
repeated drain inserts an identical row again, and only differing rows matter.
The drain of a tenant covers all its apps; the model has one, and an error of
another app's records is a `TransactionFails`. So is an error in the loops that
persist fraud decisions and reconciliations and queue integrity verifications, whose rows are not modelled.

### RequestNonce

A handler passes the timestamp check with a sampled clock (`CheckTimestamp`) and
later claims the nonce in one transaction that first sweeps the rows the
database's clock has expired (`ClaimNonce`). `Latency` bounds the time
between the two. `verifySdkRequest` returns in a step of its own (`Return`): a handler may
fail before the transaction or after its commit (`HandlerFails`), and then leaves a nonce of
a request nobody verified. Device clocks are arbitrary; signatures are assumed unforgeable,
so a request is one (timestamp, nonce, body). API and database clocks agree.

### AdServicesLookup

`BeginPass` samples the clock and reads the due rows, limited and in order. For
the next row the pass takes exactly the branch of the code: `Expire`,
`RateLimited`, `DropToken`, `TokenUnreadable` or `Ask`; `Answer` distinguishes 200
(attributed, not attributed, malformed), 400, 404 and everything else including
network failures. `Complete` is `completeLookup`; for a lookup outside `Anchored` it is
the exception of `installAttribution`. `PurgeToken` and `EraseRow` are the two
effects of a privacy deletion, at any time, also during a pass. The rate limiter
may refuse at any time: its bucket is shared by an app and refilled by real time.
Whether a lookup is in `Anchored` is what `LookupsAreResolvable` of `SdkInbox`
is about: the two modules meet there.

### AndroidSdk

Calls of the host application (`Initialize`, `Measure`, `Revenue`,
`UpdateConsent`, `SetCollectionEnabled`, `Reset`, `Flush`) append a task to the
executor; what they check or read in the caller's thread is part of the call. A task
is a chain of steps, one per commit, request or answer, so that a death of the
process (`Kill`) or the other thread can come between any two. `drain()` is
`Check`, `ReadCredential`, `Ensure`, `Enrolled`, `Select`, `Delivered` and
`Count`, parameterised by the thread: the executor runs it at the end of a task, and the
worker that WorkManager starts for the backstop runs it in parallel.
`resetInstallationId` is `RunReset`, `DeleteAnswered`, `ClearQueue`,
`ClearAfterDeletion`, `ReplaceInstallationId`, `ResetEnsure`, `ResetEnrolled` and
`ResetInstall`.

A request waits in `call`. `Serve` executes it (`Accepts` and `Apply` are the
decisions of `handleSdkEnrollment`, `handleSdkBatch` and `handleDevicePrivacy`),
`Refuse` answers it without executing it, `TimeOut` gives up on it before or
after it was executed, and a request nobody waits for may still be executed later
(`ServeLate`).

Abstractions. Identifiers are numbered in the order of generation, and a credential
is the identifier it was issued for. A row keeps its identifier, name and sequence
number; custom events, sessions and direct deep links are one kind of row. The referrer
service says one of three things. Generating the first identifier is one
step. An exception that leaves a task ends the process on Android: in the model the task
ends, and `Kill` may follow. The application calls `Flush` only while
there is something to flush.

### PrivacyDeletion

A request is `ExecBegin` (records of the scope), `ExecGather` (the references to
purge), `ExecPurge` (the payload store, at once) and `ExecCommit` (tombstones,
deleted lookups, replaced metric runs, the completed request), followed for a device
by `RevokeState` and `RevokeSecret`; `ExecFails` ends it anywhere and undoes nothing
of the purge. Beside it run a drain (`Select`, `Persist`, `QueueLookup`, `Link`,
`MarkProcessed`, `DrainFails`), the worker's AdServices pass and a metric run. The pass
reads its rows once (`SelectRows`); it leaves a row for later (`LeaveRow`) or writes the
answer (`WriteResponse`) and only then commits the result that names it (`CommitResult`),
without looking whether the row is still there; `ResultFails` purges what it wrote, as the
catch block does, and `PassDies` does not.
`TakeSnapshot` and `Restore` are the operator's backup of the payload volume; then
`ReapplyBegin`, for each completed request one `ReapplyPurge`, one `ReapplyRun` per
affected run that can be computed again and one `ReapplyCount` of those that cannot,
and `ReapplyCommit` are `reapplyCompletedPrivacyRequests`. What its transaction has
written and not committed is `draft`, which `ReapplyFails` rolls back. `Serve` is the
start that the runbook allows when nothing was unsupported.

Abstractions. One app, so the scope of a tenant is that of the app. A payload is the
reference to it; the `token_ref` of a lookup is the body of its batch, and every response
has a reference of its own. `Measured` are the records whose events have facts through which
`affectedRecordIds` finds an installation. A metric run keeps the records it is evidence of, its manifest flag
and its place in a supersession chain.

### Imports and ImportLedger

An import is `Start`, `ReadHistory`, one `ImportChunk` per chunk, and `Publish`, the
transaction that writes run, attempts, rejections and file; `ImportFails` is the catch
block and `ImportCrashes` a death. Two commands may run at once. `MapRow` and
`LoadMapping` are the mapping language reduced to what its flags tell apart: a cell is
absent, empty, listed or unlisted. `ReceiveWrite` and `ReceiveCommit` are the two writes
of a MAX receipt; `TickBegin`, `ProcessRow`, `RowThrows` and `TickCommit` are
`processMaxInbox`, with the ledger written on another connection than the rest.
`rank` is the arbitrary order that hashed record ids give to records of one time.

`ImportLedger` is the abstract specification: events enter a ledger, never replaced,
with the record one uninterrupted import of the file would choose; a file is published
once, when its events are there. `ImplementsLedger` is the refinement, with that choice
(`Winner`) computed from the constants and `rank`. It names no code of its own.

### ApplePostback

A request is `Receive` (parse, verify, buckets), `Resolve` (scope and quota), one of
`RecordUnregisteredAudit`, `RecordInvalidAudit`, `AppendDurableBatch`, and `Answer`,
heard or not; `RequestFails` and `ApiRestarts` come anywhere. Devices repeat a postback
until they hear 200. `Select`, `PersistRecord`, `PersistAttributions`, `Mark` are the
drain as far as it concerns postbacks, `Counted` the daily series. That a signature
verifies is a field of the body; the eviction of idle buckets is left out.

### Metrics

Records of a workload arrive in any grouping and order (`Select`, `CommitRecord`,
`PersistAttribution`, `Mark`, `Crash`), cost reports are imported and corrected,
installations redacted. `Compute` is one evaluation: `Input` is what it sees of the ledger,
`MetricValue` transcribes the SQL of `cohort.ts` on it, `Snapshot` its digest. `Reference` transcribes `metricRuns` of
`attribution-core`, and `RecordCount` the counts of the API. A row of spend has the two keys
it has in the code: `CostKey`, with the date, in the table and the SQL, and the dimensions
alone (`dims`) in `RefCosts`. Money is in units with
`HalfEven` as in the code; times are ticks and a time zone an offset; a digest is what
it is computed from.

### FraudPipeline

A tick of the worker: `TickStart` selects, `Bind` reads the active bundle, if there is one and
`OPENMASU_FRAUD_ENABLED` is on, and evaluates
(`TransportRules`, `InstallRules`, `Decisions`, `Initial`, `Excluded`), the `Persist*`
actions are the loops of `ingestRuntimeBatch` in their order, `Mark` ends the drain,
`Aggregate` is `aggregateSourceDay` with flooding decisions and provisional
attributions, and `Resolve` is `resolveExpiredQuarantines`. `Activate` posts a bundle
at any time, `Receive` a record; `TransactionFails` and `Crash` are the faults, and a worker
may be restarted with another switch. An app starts with the bundle of `registerApp` or,
when the API inserted it at its own start, without one (`Registrations`); `unjudged` records
which batches a drain without a bundle has processed. Clicks
carry one transport signal; percentiles are those of at most three values. The clock
of the API, the worker and the database is one.

## Runs

| Run | Shows |
|---|---|
| `InboxAttribution` | `ReplayIsDeterministic`, `OneAttributionPerInstallation`, `LateClickRecovered`, `LookupsAreResolvable`, `LedgerIsAppendOnly` over installs, clicks and resends |
| `InboxFailure` | with overlapping requests and every kind of failure: `ProcessedIsDurable`, `FailedIsFinal`, `SoleWithdrawalRespected`, `AcceptedIsLogical` (no accepted delivery without its logical event), the inductive invariant `InboxInv`, and under fairness `EveryBatchSettles` |
| `RequestNonce` | `AcceptedAtMostOnce`, with handlers that die before or after the commit |
| `LookupSafety` | `RowUntilOutcome`, `NeverAskedEarly`, the inductive invariant `LookupInv` (with the CHECK on attempts), and under fairness `EveryLookupSettles` |
| `AndroidReset` | `NothingLost`, `CredentialOfIdentity`, `AbandonedIsDeleted` and the inductive invariant `AndroidInv`, with resets interrupted anywhere |
| `AndroidDrains` | under fairness `BackstopDelivers`, with consent changes and collection switched off and on |
| `AndroidLeftover` | the violation of `LeftoversDrain` described under "Divergences observed" |
| `PrivacyRestore` | `OnlySharedBodiesSurvive` while a deletion races the drain; `ServesOnlyRedacted` and `OneReplacementPerRequest` through restore and repeated re-application |
| `Imports` | `ImplementsLedger` (refinement), `RowsAccountedFor`, `AcceptedIsLogical` for imports; `ProcessedLeavesItsMark` for postbacks |
| `ApplePostback` | `AcknowledgedIsDurable`, `SignedIsNeverDropped`, `UnverifiedWithinQuota`, `CountedForGood` |
| `Metrics` | `RunsConformToReference`, `RunsAreReproducible`, `CountsMatchRuns` |
| `Fraud` | `QuarantineResolvesOnce`, `ExclusionHasItsDecision`, `NoStaleRevision`, `AuditFollows` |

`Imports` checks for deadlock. The other runs do not: their bounded instances stop
when senders, faults and the clock are used up.

### Bounds

The inbox runs have two or three batches of one or two records. Three batches are
an install, a resend and a click, in every order of receipt, insertion, commit and drain;
with two faults a drain can be interrupted, repeated and interrupted again.
`InboxAttribution` lets requests follow one another (`MaxOverlap` 1): the properties
checked there need it. `InboxFailure` allows two at a time, has two batches of installs,
withdrawals and the events before and after them, and checks liveness with them; its safety
and action properties are proved without any bound.

`LookupSafety` has two lookups: one is ahead of the other in every order. It
reaches the cap of the back-off and the third attempt before
the expiry, and reads one row per pass, so that the second waits for
the first. The clock always runs past the expiry of the last token (checked by
an assumption of `MCAdServicesLookup`). `RequestNonce` has a time to live one unit above
twice the skew plus the latency and a clock that runs past it.

The Android runs have one or two calls of the host after initialisation, one fault and
one death, and one waiting task. That is enough for a reset to be interrupted
at each of its steps and followed by another launch, and for the worker to enrol
or deliver during it; a batch limit of one makes a drain leave rows behind. Each run
enables the calls it is about: with all of them the state space is out of
reach.

`PrivacyRestore` has one device with one batch of two records, an install and a
session: one record of the body may be stored and linked, or deleted, without the
other. Two requests, at most one of them an administrator's (`MaxAdmin`), can affect one metric
run, so that replacements form a chain, and one fault interrupts any step of a deletion, of a
pass or of a re-application. Two references (`Copies`) are as many responses as one fault lets
exist at a time: a third one in `Copies` adds no state. A system is restored once
(`SnapshotAgain` is off), and re-applied as often as the operator likes; with two requests of
an administrator and repeated restores the properties hold as well, on 6 million states. A body
with a record that no request finds is readable anyway (below), so both records are `Measured`. Bodies
shared by devices do not exist, as a device signs its batches; the share that
matters is that between records.

`Imports` has two importers, three commands and a file of four rows in two chunks:
with a row the mapping rejects, one the schema rejects, and two records of one event in
different chunks; a second file shares that event, a third has another install of the
same installation, which `install_facts` refuses. A deployment uses files or postbacks
(`Deployments`), as the two share no event. Four postbacks are a first delivery, a
repetition, one the schema refuses and one the receiver refuses.

`ApplePostback` has three requests, two at a time, for four bodies; a quota of one and a
bucket of two are reached and refilled, the clock crosses an hour and a day, and there
is one death or failure. `Metrics` has six workloads of two to four records, chosen so
that each calculation and each group has a value that differs from the neighbouring
ones, amounts that tie in rounding, spend of two dates, evaluations with and without a cohort date,
and watermarks before and after late rows; one
evaluation of each kind per behaviour is enough, since a run changes nothing that
another reads. `Fraud` has two batches out of a click and three installs of it, an app with and
without the registered bundle, one activation, two days, one fault, and the rules on or off
at each start: a drain can be repeated after
an activation, a quarantine expires before or after it, and a click can be processed before
there is a bundle. There is one source; bot signals do not occur.

### Fairness

`SdkInbox!FairSpec` has weak fairness of the drain, because `main.ts` polls with
`setInterval` and catches every exception of a tick, and of `Commit`, because a
transaction that was started ends. `AdServicesLookup!FairSpec` has weak fairness of
the worker and of the clock. It includes that a request to Apple ends with an answer or an
error; the code sets no timeout of its own and relies on the runtime's
here (listed as a hazard). `AndroidSdk!FairSpec` has weak fairness of both threads, of
WorkManager and of the server; the client's timeouts end every request, and the
model has the server answer. The host application is under no obligation to call the
SDK or to be opened again, so what `BackstopDelivers` promises is what the backstop
delivers alone: the rows its next batch takes.
Senders, faults and deletions are under no obligation; faults are
bounded, so that a worker which dies for ever is not considered. The other
specifications state safety only.

### Where the properties need a premise

`ReplayIsDeterministic`, `OneAttributionPerInstallation`, `LookupsAreResolvable` and
`LateClickRecovered` hold while requests do not overlap: their theorems assume
`MaxOverlap = 1`. When two overlapping requests carry one event and the one received first
commits second, `decide` names the first as canonical while the logical event keeps the
other record. The first three also say that no batch was failed and no body could not be
read. If a drain fails after its record transactions, the failed batch leaves the history,
and a resent install is decided as unique although the logical event names the failed
record; its lookup then throws for ever. `ReplayIsDeterministic` needs at most one
withdrawal of the installation: with two, a record between them is rejected at first and
accepted by a replay that has seen the second. `LateClickRecovered` needs that only when a
batch was failed, and that no body was lost.

`AcceptedIsLogical` of `SdkInbox` is about batches inserted in the order of `received_at`,
all of them readable, and one withdrawal at most. It also excepts an event of which another
delivery, or the withdrawal it was refused for, is in a failed batch (`DecidedWithFailed`):
the refused delivery stays refused, and a repetition of it is accepted as a
duplicate of an event the ledger does not have.

`SoleWithdrawalRespected` holds while the inbox has one withdrawal
record of the installation and bodies can be
read: a drain that cannot read the body of a processed withdrawal decides without it.

`QueueOfIdentity`, a part of `AndroidInv`, excepts ad revenue. `MaxRevenueAdapter` reads
the identifier in its callback; when a reset runs before the task that queues the
payload, the row names the deleted installation and the server refuses every batch that
contains it. `BackstopDelivers` is about a device that may deliver (`MayDeliver`): collection
stays on in the end and the server honours the stored credential. When the 201 of an
enrolment is lost the device never has a credential; when the 201 of a deletion is lost,
it keeps one the server has deleted, is answered 401 for ever, and
neither enrols again nor can reset. It also needs the configuration that `initialize()`
stores: the worker of an application that never called it ends with success at once.

`OnlySharedBodiesSurvive` is about the requests of devices and of the app: an
administrator's request finds batches by their links and misses those not linked yet. It
is about bodies the request could see; what is sent after it belongs to a new
installation. A restore takes it away, and `ServesOnlyRedacted` takes its place. That one
is about what the ledger names: it says nothing of a response that no row names, nor of a
body whose records are not linked.

`RunsConformToReference` holds for the part of the contract both engines share:
windows of elapsed days in UTC, gross retention, installs whose click is not both
late and replayed, and, where spend divides, evaluations with a cohort date: without one the
two count different rows (see Divergences), which the workload with spend of two dates and the
evaluation without a date reach. A run counts when no batch is half way: the engine reads whatever
has been committed. `RunsAreReproducible` is about numbers that use no attribution, and
`CountsMatchRuns` about metrics that count, in UTC and gross, the events their name says:
the definitions are data, and nothing in the code ties the daily names to their event.

`QuarantineResolvesOnce` relies on the single worker that drains before it resolves: a
second worker could resolve a row between the two inserts of a repeated drain. A
repeated drain can also insert a quarantine for a decision that is stored with another
action; the property is about decisions stored as quarantined. `ExclusionHasItsDecision`
excepts clicks that a drain without a bundle has processed.

## Divergences observed

Where the code and its documents disagree, the models follow the code and the
properties carry the premise that separates the two.

Ingestion and devices:

- `sdk-worker.ts:222` keeps one withdrawal per installation; after a second one, events
  between the two are accepted again, while `spec/event-metric-contract-v0.4.md:118`
  rejects every record "at or after the recognition sequence".
- `adservices-worker.ts:180` throws for a lookup whose attribution is missing, at every
  age, where `docs/design/m4-baseline.md:408` records a token older than 23 hours as
  unavailable. 404 and 500 share the attempts counter (`:391`), so that errors use up the
  retries `m4-baseline.md:733` promises.
- `OpenMasuSdk.kt:144` may end a reset after the new identifier is stored and before its
  install event is queued (`m2-baseline.md:691`); a lost 201 of an enrolment
  is final (`HmacHttpTransport.kt:12`, `m2-baseline.md:171`).
- `OpenMasuSdk.kt:218` enqueues the backstop with KEEP, which ignores it while the worker
  runs; the worker delivers at most 100 rows, asks for the backstop itself when rows are
  left (`:165`), is ignored too and ends with success. `m2-baseline.md:602` says "anything
  left over drains later". The run `AndroidLeftover` shows rows that wait, without any
  fault, until the application does something.

Privacy:

- `docs/privacy-security.md:118` says the restore "fails closed for affected metric runs
  that lack replay input"; the replacements that a deletion inserts have no manifest of
  their own, so a later request that touches one blocks the restore although every run was
  computed with its manifest (`privacy-reapply.ts:266`).
- `docs/privacy-security.md:94` has a deletion replace identifiable raw payloads. The
  records of an installation are found through the facts of logical events
  (`privacy.ts:38`): a body that also holds a click, a `deep_link_open`, a
  `consent_changed`, a rejected or a duplicate record counts as shared and stays readable,
  unless a lookup of it is pending, whose `token_ref` is the whole body. An
  administrator's request misses bodies of batches that are not linked yet, and a restore
  brings back bodies that were pending when they were deleted, and the secrets of revoked
  credentials.
- `db/migrations/012_m4_apple_attribution.sql:69` says that the encrypted response of a
  lookup "remains privacy-purgeable". `completeLookup` writes it
  (`adservices-worker.ts:197`) before the transaction that names it (`:202`): when the
  worker dies in between, no row names it, and neither a deletion nor the re-application
  (`privacy-reapply.ts:117`) purges it. A restored system serves again with it readable.
- A pass that has read its row commits its result also after a deletion has removed the row
  (`:268` deletes by id and checks nothing); that response stays readable until a
  re-application, which finds it through its result.
- A row is queued again for an install that has a result, when a drain is repeated after
  the answer; it fails on the unique result in every pass until it is deleted.

Imports:

- `ingestion.ts:1224` calls retries of candidates deterministic; two imports that read the
  history together both store a delivery with the resolution unique.
- A postback whose revenue has more than six decimals, or one with a user id, throws in
  every tick and stops the ones behind it (`max-worker.ts:18`; `m1-baseline.md:356` and
  `:669`), as does a rejected one after a rollback, because its payload is purged first.
- The key of a cost row lacks the ad (`cost.ts:97`).

Metrics:

- `m1-baseline.md:899` (B2) has the SQL engine reproduce the evaluator for the same definitions
  and watermark. The key of spend in SQL contains its date (`cost.ts:30`, `cohort.ts:135`), the
  `dimension_digest` of the reference does not (`evaluator.ts:887`, `:973`): asked without a
  cohort date, the engine divides by the spend of all dates, the reference by that of one,
  the last by `as_of` and record id.
- `m1-baseline.md:897` promises equal values for equal watermarks and policies; attributions
  are not part of `input_snapshot_id`, so a late click changes a value and not the id.
- Calendar-day windows, cohort days outside UTC and the numerator of net retention differ
  between the SQL engine and the reference; a cost in another currency makes every cohort
  calculation of the SQL engine throw, and the reference only those that divide by it.

Fraud:

- A drain without an active bundle (an app that the API inserted at its start), or with
  `OPENMASU_FRAUD_ENABLED=0`, stores no decision (`ingestion.ts:1258-1261`). Once a bundle is
  active, an install of such a click is excluded by a decision that is computed again and not
  stored, since it is not about a record of that drain (`ingestion.ts:1289-1301`): its
  `fraud_decision_ref` leads nowhere, against `fraud-baseline.md:425` ("a fraud decision
  excluded it; here it is"). `ExclusionHasItsDecision` therefore excepts these clicks
  (`unjudged`).
- An install attribution that says `fraud_excluded` may lead to a decision stored as `flag`,
  and an excluded one may miss its exclusion, when a bundle is activated between the drains
  of click and install (`fraud-baseline.md:425`).
- The bundle is the one active at the drain, not at `evaluated_at` (`:634`); a quarantine is
  neither evaluated again nor does it hold back the attribution (`:416`, `:435`).
- A second bundle id beginning with `fraud-` fails every batch of the app
  (`fraud-bundle-runtime.ts:63`).

## Proofs

All theorems hold for every value of the constants that satisfies the assumptions
of the module: any bodies, any number of batches, handlers, lookups and requests, any
delays.

`SdkInboxProofs` proves `InboxInv` inductive and from it `TypeOK`,
`ProcessedIsDurable`, `FailedIsFinal` and `LedgerIsAppendOnly`.
`ProcessedIsDurable` is not inductive: that `AppendProcessed` may mark a batch
rests on what the drain has done since `Select`. `InboxInv` adds that in the record loop
every record of the drain is still to be written or delivered
(`PersistCoversDrain`), that from the attribution loop on all are delivered
(`DrainIsDelivered`), that state rows are due in the last loops only
(`RowsInLastLoop`), and that no batch of a running drain is failed before the
catch block (`DrainIsUnfailed`), which `FailedIsFinal` needs. The proof has one lemma per action
or per family of actions that disturb the same parts; `LedgerStep` is the
common argument for the steps that only add rows.

Three more invariants are about what the drain decides. `DrainInv`, however requests
overlap, relates a drain to the inbox: its history is processed, its batches are live, and
it has seen every processed batch whose body can be read. `SoleWithdrawalRespected` follows,
because the drain that accepts a record has the withdrawal before it. `GroundedInv` gives
every stored delivery the reason for its status among the batches that are seen or failed (a
withdrawal at or below it, a conflicting record before it), and contains `AcceptedIsLogical`:
a repetition is accepted only if what refused the first delivery would not refuse it. It rests
on a device sending an event again unchanged (`EventsAreResent`).

With one request at a time (`OrderInv`) what the worker sees only grows at its end: lemma
`DecisionsStay` says that batches received after all those seen change nothing that
`evaluate` decides about an earlier record, and `ViewStep` that every step, a crash and a
failure included, adds only such batches to the view. `SequentialInv` carries the consequences through the loops of a drain. A logical
event is the record that every later evaluation accepts, or its batch was failed (`LogicalIsAccepted`), a stored
delivery is its decision (`DeliveriesAreDecisions`), an attribution belongs to an accepted
install (`AttributedAreAccepted`), and a lookup has the anchor it waits for
(`LookupsAreAnchored`). `LoopsInv` and `DrainIsSettled` say how far each loop has come, and
`RecoveredInv` that an install whose only click is processed was attributed to it at
once or by the loop for late clicks. `ReplayIsDeterministic`,
`OneAttributionPerInstallation`, `LookupsAreResolvable` and `LateClickRecovered` follow.

The part of `AndroidSdkProofs` on `RequestNonce` proves, assuming `WindowsOverlap` (`Ttl > 2 * Skew + Latency`),
that a request is verified at most once. The
strengthening `ReplayInv` says that a handler is within the window of its
request, that a nonce outlives every handler that could pass the timestamp
check (`NoncesOutliveWindow`), that a claimed or verified request has its nonce until
no handler can pass (`SpentIsRemembered`), and that it has one claim (`OneClaim`). The defaults, 300 s and 900 s, satisfy
the assumption while the transaction begins within 300 s.

`AdServicesLookupProofs` proves `LookupInv` inductive, and from it the type of the
state with the CHECK on `attempts`, `RowUntilOutcome` and `NeverAskedEarly`. The
strengthening says that a running pass is not ahead of the clock, that its rows
were due when it began (`PassRowsAreDue`), and that an outstanding request is about one of
them (`AskedWithinPass`).

`AndroidSdkProofs` proves `AndroidInv` inductive, whatever the number of calls,
faults, deaths and late answers, and from it `TypeOK`, `NothingLost`,
`CredentialOfIdentity`, `AbandonedIsDeleted`, `QueueOfIdentity` and
`SequencesDistinct`. `CredentialOfIdentity` is the one that needs most: an enrolment
the worker began may be answered while the executor resets. The strengthening says that
a successful enrolment whose answer is unread is for the identifier in use, is the
only one, and excludes a reset in its destructive part (`AnswerInv`); that a stored
credential was issued (`IssuedInv`); and that a reset is past its request only if the
server has deleted the identifier (`DeletionInv`). The argument for `Serve`
(lemma `AnswerServed`) is that the server accepts one enrolment per identifier for good, and
has deleted all earlier ones by `AbandonedIsDeleted`. `NothingLost` rests on `ServedInv`,
the order and identity of rows on `RowsInv`: rows are numbered up to the counter, and the
counter and the identifier change only when there are none. One lemma
per conjunct splits `Next` and gives a step of its own to each action that disturbs it;
`ServerGrows` is the common fact that the server forgets no identifier.

`ApplePostbackProofs` proves `AppleInv` inductive and from it `AcknowledgedIsDurable`,
`SignedIsNeverDropped` and `CountedForGood`. That an acknowledged body is kept is not
inductive: a request answers what an earlier step of its own has stored, and the process
may die between. `AppleInv` adds that a request which is about to answer has its body
kept in the form that fits it (`AnswersAreKept`), that a batch exists only for requests
that are answering or done, so that what a batch contains never changes
(`BatchesAreAnswered`), and that the worker's facts name requests with a batch
(`WorkerOK`), which is what makes a counted day final. `KeptGrows` is the common argument
of the steps that give nothing up. `UnverifiedWithinQuota` bounds the cardinality of a set
whose members the quota counted one by one in several lives of the process: `QuotaInv` says
that the requests which hold a share of an hour are at most the quota of each earlier life
and what this one has used (`HoldersFinite` and its neighbours are the facts on cardinality).

`FraudPipelineProofs` proves `FraudInv` inductive and from it `NoStaleRevision`,
`QuarantineResolvesOnce` and `ExclusionHasItsDecision`, for apps with and without a bundle. A drain reads the active bundle
once and stores its decisions much later, and one that dies is repeated with another
bundle. `JudgedInTime` carries, for the bundle a drain has bound, for the decisions it holds and for
those stored, that no successor is older than the batch. `DrainOK` says that decisions about
a pending batch belong to a batch the current drain has taken, so that a batch whose
quarantines are resolved is never judged again; `QuarantinesOK` turns that into the
uniqueness of a resolution. `SignalsOK` says that a drain with a bundle has computed the decision of a signalled click
before it marks the click, and stored it by then, and that exclusions name such a decision.
`AuditFollows` follows from two more invariants: a tick aggregates once and later than all
ticks before it (`TicksOK`), and the aggregates of a source and day grow with the facts
(`CountsOK`), so that the latest of them, wherever it comes from, counts what is there.

`PrivacyDeletionProofs` proves `PrivacyInv` inductive and from it `OnlySharedBodiesSurvive`
and the action property `ServesOnlyRedacted`, for every interleaving of the AdServices pass with
them, orphan responses included. A deletion takes its references, and then
redacts and purges while a drain links more records: `JobOK` says that in its last part it holds the
reference of every body it has seen and must purge. `ReapplyOK` says what a restored system owes to the requests
that the re-application has behind it, and `QuietOK` that nothing else, the AdServices
pass included, runs meanwhile, so that no result is added behind its back.
`OneReplacementPerRequest` follows from `RunsOK`: in the committed runs and in the draft
of a re-application, a run that can be computed again is its own source, and no two
replacements have one source and one request. `ReplacementFacts` and `RecalculateFacts` say that a
replacement which exists already is kept and none is inserted twice.

`MetricsProofs` proves the three properties of `Metrics`. For `RunsConformToReference` the
two engines are reduced to equal sets of records, so that the numbers, which sums and
rounding make of them, are equal without a word about sums. The invariant says
that a stored attribution is one the evaluator returns for some part of what has arrived, one
per subject and rank (`RowsOK`), and that the attributions of a processed record reflect
every processed click of it (`CompleteOK`, by `MarkCompletes`: the drain marks a batch only when
nothing it evaluates to is unstored, and a batch it leaves alone has no new click).
`SettledResult` concludes that, when no batch is half way, the last attribution the SQL
finds is the one that `evaluate` returns for the whole ledger; `CohortIsReference`,
`RevenueIsReference`, `ActiveIsReference`, `CurrentCostsAreReference` and
`CountsAreReference` compare the sets; that of the costs needs the cohort date, on which the
two keys of spend tell the same rows apart, and that a key and an `as_of` are stored once
(`CostsOK`). The intervals of the SQL and the quotient by the length of a
day of the reference meet in `DivDay`. `RunsAreReproducible` follows because the digest
determines the input (`SnapshotIsInput`) and such a value depends on nothing else
(`FreeValue`). The proofs assume that a record id names one record, that an installation
has one install (the unique index of `install_facts`), and that clicks name no
installation (`WorkloadsAssumption`).

`ImportsProofs` proves that `Imports` implements `ImportLedger` (`Refinement`), and from the
same invariant `AcceptedIsLogical`, `RowsAccountedFor` and `ProcessedLeavesItsMark`, for any
files, chunk sizes, importers and faults. `ImportsInv` says that the events of the
rows an import has evaluated are in the ledger, whoever brought them
(`Running`), that every history that is read, of published attempts, of a running command
or of a tick, holds events of the ledger only (`Sound`), that run numbers are not used twice
(`RunsOK`), and that a completed run has exactly the rows of its file (`AccountsOK`).
Lemma `IngestFacts` is the heart: an evaluation adds the first attempt of each event
that has no history. `ChunkWinner` concludes that this is the record an
uninterrupted import chooses: a candidate of an earlier chunk would have put the event into
the ledger, and the record ids order the candidates of one chunk. The mapping holds
the chosen record as a function of the order of record ids, which no step changes.
The proof assumes that there are finitely many records, and that rows and postbacks
share no event (their producers differ).

Only model-checked: the liveness properties (`EveryBatchSettles`, `EveryLookupSettles`,
`BackstopDelivers`), which rest on fairness and `ENABLED`. Every safety and
action property a passing run checks is a theorem. What sums and folds compute (`MapThenSumSet`
in `Metrics`, the chunks of `Imports`) is not proved, as induction over data is out of
the prover's reach; the theorems do not depend on it.

## Not modelled

Cryptography (signatures, encryption, Meta and Apple verification), SQL beyond the
queries and constraints the modelled code relies on, row-level security, migrations,
rendering, logging, the build and its tools.

- Integrity verifier: a queue with retries and expiry of the same shape as the lookups; a
  drain that throws while queueing is a `TransactionFails`.
- iOS SDK: the protocol is that of the Android SDK, on an actor that is re-entrant at
  every await. The Unity bridge has no state of its own.
- Redirector: link resolution, rate classes and caching; its clicks enter the inbox.
- Admin API: tracking links, link domains, conversion schemas, sessions, keys and their
  rotation; pagination and rendering of reports.
- Reconciliation, reinstalls, Meta referrers and the deferred part of deep links in the
  evaluator; the adapters' column names and the parsing of files in imports.
- Several tenants or apps in one tick: an error of another app's records is a fault.
- The race inside `installationId()` of the Android SDK, whose first identifier is
  generated in one step.

## Plan

What remains worth doing, in this order: the iOS actor with its `reset_pending` mark; the
integrity queue composed with the rules that read its verdicts; the redirector's caches.
Worth proving are the properties of those modules, and that `SdkInbox` implements an abstract
ledger in the manner of `ImportLedger`.
