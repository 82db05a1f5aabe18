--------------------------- MODULE PrivacyDeletion ---------------------------
(***************************************************************************)
(* Deletion requests of one app: executePrivacyRequest                     *)
(* (apps/api/src/privacy.ts) on behalf of a device or an administrator,    *)
(* the revocation that follows a device's request, and the re-application  *)
(* of completed requests after a restore                                   *)
(* (apps/worker/src/privacy-reapply.ts), beside the drain that produces    *)
(* what they delete.                                                       *)
(*                                                                         *)
(* A batch is the encrypted body one device sent; a record is one event of *)
(* it, and two records may carry the same event (a redelivery).  Payloads  *)
(* live in a store outside of the database: a purge takes effect at once   *)
(* and is not undone when the transaction around it fails.  The database   *)
(* that a restore brings back is the authoritative ledger with every       *)
(* completed request; the payloads come from an older snapshot.            *)
(***************************************************************************)
EXTENDS Naturals, Sequences, FiniteSets, FiniteSetsExt

CONSTANTS
    Devices, Batches, Records,
    DeviceOf,       \* the device whose credential signed a batch
    BatchOf,        \* the batch of a record
    EventOf,        \* producer and event_id of a record
    Installs,       \* the records of install events with an AdServices token
    Measured,       \* records of install, session, purchase, revenue or custom events
    Copies,         \* bound: responses of one record that exist at a time
    MaxRequests,    \* bound: completed requests
    MaxAdmin,       \* bound: those of an administrator among them
    SnapshotAgain,  \* bound: whether a restored system takes snapshots
    MaxRuns,        \* bound: metric runs computed by the operator
    MaxFaults,      \* bound: crashes and failing transactions
    None

ASSUME FunctionsAssumption ==
    /\ DeviceOf \in [Batches -> Devices]
    /\ BatchOf \in [Records -> Batches]
    /\ Installs \subseteq Measured /\ Measured \subseteq Records
    /\ MaxAdmin \in Nat /\ SnapshotAgain \in BOOLEAN
    /\ MaxRequests \in Nat /\ MaxRuns \in Nat /\ MaxFaults \in Nat

VARIABLES
    batch,      \* ingest_batches_current.status, "absent" before the batch exists
    raw,        \* raw_records
    logical,    \* the records of logical_events
    members,    \* ingest_batch_records
    lookups,    \* ephemeral.adservices_lookups: [install, id]
    results,    \* adservices_lookup_results: [install, ref]
    pass,       \* the worker's AdServices pass: rows to treat, row and response in hand
    store,      \* the readable references of the payload store
    drain,      \* the worker's pass: its phase, batches and the records to treat
    cred,       \* installation_credentials_current.status
    job,        \* the request being executed, or None
    requests,   \* the completed privacy_requests in order of completed_at
    runs,       \* metric_runs, in order of insertion
    snapshot,   \* a snapshot of the payload store, or None
    phase,      \* "serving", "restored", "reapplied" or "blocked"
    reapply,    \* the present request of a running re-application, 0 when none runs
    draft,      \* what its transaction has written of the metric runs, and what is left
    restored,   \* a restore has happened
    faults

ledgerVars == <<batch, raw, logical, members, lookups, results>>
restoreVars == <<snapshot, phase, reapply, draft, restored>>
vars == <<ledgerVars, pass, store, drain, cred, job, requests, runs, restoreVars, faults>>

Body(b) == <<"body", b>>
Response(r, n) == <<"response", r, n>>
Secret(d) == <<"secret", d>>

RecordsOf(b) == {r \in Records : BatchOf[r] = b}
Owner(r) == DeviceOf[BatchOf[r]]
Linked(b) == RecordsOf(b) \cap members
Committed == {b \in Batches : batch[b] # "absent"}
Of(rows, records) == {x \in rows : x.install \in records}
Idle == [phase |-> "idle", rows |-> {}, todo |-> {}]
NoPass == [rows |-> {}, row |-> None, ref |-> None]

-----------------------------------------------------------------------------
(* The ingestion that deletions race with.                                 *)

\* appendDurableBatch: the body is written, then the row is inserted.  The
\* credential was verified before.
AppendBatch(b) ==
    /\ phase = "serving"
    /\ batch[b] = "absent"
    /\ cred[DeviceOf[b]] = "active"
    /\ batch' = [batch EXCEPT ![b] = "pending"]
    /\ store' = store \cup {Body(b)}
    /\ UNCHANGED <<raw, logical, members, lookups, results, pass, drain, cred, job, requests,
                   runs, restoreVars, faults>>

\* processSdkInbox reads and decodes; a pending batch without a readable body fails.
Select ==
    /\ phase = "serving"
    /\ drain = Idle
    /\ LET pending == {b \in Batches : batch[b] = "pending"}
           rows == {b \in pending : Body(b) \in store}
       IN /\ pending # {}
          /\ batch' = [b \in Batches |-> IF b \in pending \ rows THEN "failed" ELSE batch[b]]
          /\ drain' = IF rows = {} THEN Idle
                      ELSE [phase |-> "persist", rows |-> rows,
                            todo |-> UNION {RecordsOf(b) : b \in rows}]
    /\ UNCHANGED <<raw, logical, members, lookups, results, pass, store, cred, job, requests,
                   runs, restoreVars, faults>>

\* The transaction of one record, in the drain's order: the first accepted delivery of an event becomes
\* its logical event, later ones and rejected ones leave raw records only.
Persist(accepted) ==
    /\ drain.phase = "persist"
    /\ LET r == CHOOSE x \in drain.todo : TRUE
           rest == drain.todo \ {r}
       IN /\ raw' = raw \cup {r}
          /\ logical' = IF accepted /\ r \notin raw /\ ~\E o \in logical : EventOf[o] = EventOf[r]
                        THEN logical \cup {r} ELSE logical
          /\ drain' = IF rest # {} THEN [drain EXCEPT !.todo = rest]
                      ELSE [drain EXCEPT !.phase = "queue",
                               !.todo = {i \in Installs : BatchOf[i] \in drain.rows /\ i \in logical'}]
    /\ UNCHANGED <<batch, members, lookups, results, pass, store, cred, job, requests, runs,
                   restoreVars, faults>>

\* queueAdServicesLookup: a row whose token_ref is the body of the batch, unless the
\* record has a row (a result does not matter).  A row that takes the place of a deleted
\* one has another lookup_id.
QueueLookup(r) ==
    /\ drain.phase = "queue"
    /\ r \in drain.todo
    /\ lookups' = IF Of(lookups, {r}) # {} THEN lookups
                  ELSE lookups \cup {[install |-> r, id |-> Len(requests)]}
    /\ drain' = [drain EXCEPT !.todo = @ \ {r}]
    /\ UNCHANGED <<batch, raw, logical, members, results, pass, store, cred, job, requests, runs,
                   restoreVars, faults>>

NextRow == CHOOSE b \in drain.rows : TRUE

\* One transaction for the ingest_batch_records of a batch, ...
Link ==
    /\ drain.phase = "queue" /\ drain.todo = {}
    /\ members' = members \cup RecordsOf(NextRow)
    /\ drain' = [drain EXCEPT !.phase = "state"]
    /\ UNCHANGED <<batch, raw, logical, lookups, results, pass, store, cred, job, requests, runs,
                   restoreVars, faults>>

\* ... and another one for its state.
MarkProcessed ==
    /\ drain.phase = "state"
    /\ batch' = [batch EXCEPT ![NextRow] = "processed"]
    /\ drain' = IF drain.rows = {NextRow} THEN Idle
                ELSE [drain EXCEPT !.phase = "queue", !.rows = @ \ {NextRow}]
    /\ UNCHANGED <<raw, logical, members, lookups, results, pass, store, cred, job, requests, runs,
                   restoreVars, faults>>

\* A transaction fails (the batches that are left fail with it) or the worker dies
\* (they stay pending).
DrainFails(dies) ==
    /\ drain # Idle
    /\ faults < MaxFaults
    /\ faults' = faults + 1
    /\ batch' = IF dies THEN batch
                ELSE [b \in Batches |-> IF b \in drain.rows THEN "failed" ELSE batch[b]]
    /\ drain' = Idle
    /\ UNCHANGED <<raw, logical, members, lookups, results, pass, store, cred, job, requests,
                   runs, restoreVars>>

-----------------------------------------------------------------------------
(* processAdServicesLookups: the rows are read once, at the beginning.  A row *)
(* in hand is neither read again nor locked while Apple answers.              *)

SelectRows ==
    /\ phase = "serving" /\ pass = NoPass
    /\ lookups # {}
    /\ pass' = [NoPass EXCEPT !.rows = lookups]
    /\ UNCHANGED <<ledgerVars, store, drain, cred, job, requests, runs, restoreVars, faults>>

\* The row waits for a later pass: it is not due, was rescheduled, or an unreadable token
\* ended the pass.
LeaveRow(x) ==
    /\ x \in pass.rows /\ pass.row = None
    /\ pass' = [pass EXCEPT !.rows = @ \ {x}]
    /\ UNCHANGED <<ledgerVars, store, drain, cred, job, requests, runs, restoreVars, faults>>

FreshCopies(r) ==
    {n \in Copies : /\ Response(r, n) \notin store
                    /\ snapshot # None => Response(r, n) \notin snapshot
                    /\ \A x \in results : x.ref # Response(r, n)}

\* completeLookup writes the response, under a reference of its own.  The token was read
\* before, or has expired and needs no reading.
WriteResponse(x) ==
    /\ x \in pass.rows /\ pass.row = None
    /\ FreshCopies(x.install) # {}
    /\ LET ref == Response(x.install, CHOOSE n \in FreshCopies(x.install) : TRUE)
       IN /\ store' = store \cup {ref}
          /\ pass' = [rows |-> pass.rows \ {x}, row |-> x, ref |-> ref]
    /\ UNCHANGED <<ledgerVars, drain, cred, job, requests, runs, restoreVars, faults>>

\* The transaction after it: the result names the response, and the row is deleted by its
\* lookup_id, if it is still there.
CommitResult ==
    /\ pass.row # None
    /\ Of(results, {pass.row.install}) = {}
    /\ results' = results \cup {[install |-> pass.row.install, ref |-> pass.ref]}
    /\ lookups' = lookups \ {pass.row}
    /\ pass' = [NoPass EXCEPT !.rows = pass.rows]
    /\ UNCHANGED <<batch, raw, logical, members, store, drain, cred, job, requests, runs,
                   restoreVars, faults>>

\* It fails, as it does when the install has a result (UNIQUE): the response is purged and
\* the pass ends.
ResultFails ==
    /\ pass.row # None
    /\ IF Of(results, {pass.row.install}) # {} THEN UNCHANGED faults
       ELSE faults < MaxFaults /\ faults' = faults + 1
    /\ store' = store \ {pass.ref}
    /\ pass' = NoPass
    /\ UNCHANGED <<ledgerVars, drain, cred, job, requests, runs, restoreVars>>

\* The worker dies.  A response that no row names yet stays.
PassDies ==
    /\ pass # NoPass
    /\ faults < MaxFaults
    /\ faults' = faults + 1
    /\ pass' = NoPass
    /\ UNCHANGED <<ledgerVars, store, drain, cred, job, requests, runs, restoreVars>>

-----------------------------------------------------------------------------
(* executePrivacyRequest.  A request comes from the device ("device"), from *)
(* an administrator for an installation ("admin") or for the app ("app").   *)

At(k) == 2 * k                  \* completed_at of the k-th request
Touches(run, records) == run.evidence \cap records # {}

\* affectedRecordIds.  An installation is found through the facts of its logical events:
\* clicks, deep_link_open and consent_changed have none.
AffectedRecordIds(via, d) ==
    IF via = "app" THEN raw ELSE {r \in logical \cap Measured : Owner(r) = d}

ExecBegin(via, d) ==
    /\ phase = "serving" /\ job = None
    /\ Len(requests) < MaxRequests
    /\ IF via = "device" THEN cred[d] = "active"
       ELSE Cardinality({k \in DOMAIN requests : requests[k].via # "device"}) < MaxAdmin
    /\ job' = [step |-> "gather", via |-> via, device |-> IF via = "app" THEN None ELSE d,
               records |-> AffectedRecordIds(via, d), refs |-> {}, seen |-> {}]
    /\ UNCHANGED <<ledgerVars, pass, store, drain, cred, requests, runs, restoreVars, faults>>

\* Mutant of BatchPayloads: member records alone lead to a body.
BatchPayloadsOfMembers(via, d, records) ==
    IF via = "app" THEN Committed
    ELSE {b \in Committed : Linked(b) \cap records # {} /\ Linked(b) \subseteq records}

\* The bodies to purge: every one of the app, or those with an affected member or
\* of the requesting credential, unless a member is outside of the request.
BatchPayloads(via, d, records) ==
    IF via = "app" THEN Committed
    ELSE {b \in Committed :
            /\ Linked(b) \cap records # {} \/ (via = "device" /\ DeviceOf[b] = d)
            /\ Linked(b) \subseteq records}

\* The references of AdServices rows: the token_ref of a lookup, which is the body of its
\* batch, shared or not, and the response_ref of a result.  The raw query of a MAX postback
\* belongs to one record and follows the rule of results.
RecordPayloads(via, records) ==
    LET covered(rows) == IF via = "app" THEN rows ELSE Of(rows, records)
    IN {Body(BatchOf[x.install]) : x \in covered(lookups)} \cup {x.ref : x \in covered(results)}

ExecGather ==
    /\ job # None /\ job.step = "gather"
    /\ job' = [job EXCEPT !.step = "purge", !.seen = Committed,
                          !.refs = {Body(b) : b \in BatchPayloads(job.via, job.device, job.records)}
                                   \cup RecordPayloads(job.via, job.records)]
    /\ UNCHANGED <<ledgerVars, pass, store, drain, cred, requests, runs, restoreVars, faults>>

\* payloadStore.purge of one reference after the other: object file, then key file.
ExecPurge ==
    /\ job # None /\ job.step = "purge" /\ job.refs # {}
    /\ LET ref == CHOOSE x \in job.refs : TRUE
       IN /\ store' = store \ {ref}
          /\ job' = [job EXCEPT !.refs = @ \ {ref}]
    /\ UNCHANGED <<ledgerVars, pass, drain, cred, requests, runs, restoreVars, faults>>

\* The latest run of the metric is copied as a replacement that supersedes it.
Replacements(k) ==
    IF runs = <<>> THEN {<<>>}
    ELSE {<<[runs[i] EXCEPT !.kind = "deletion", !.by = k, !.supersedes = i, !.at = At(k),
                            !.manifest = FALSE]>> :
            i \in {j \in DOMAIN runs : \A l \in DOMAIN runs : runs[l].at <= runs[j].at}}

\* The transaction ends: rows of lookups are gone; the request, its tombstones and
\* corrections, the replacement runs and the audit row are there.
ExecCommit ==
    /\ job # None /\ job.step = "purge" /\ job.refs = {}
    /\ lookups' = IF job.via = "app" THEN {} ELSE lookups \ Of(lookups, job.records)
    /\ requests' = Append(requests, [via |-> job.via, device |-> job.device,
                                     records |-> job.records, seen |-> job.seen])
    /\ \E new \in Replacements(Len(requests) + 1) : runs' = runs \o new
    /\ job' = IF job.via = "device" THEN [job EXCEPT !.step = "revoke"] ELSE None
    /\ UNCHANGED <<batch, raw, logical, members, results, pass, store, drain, cred, restoreVars, faults>>

\* revokeInstallationCredential: the state, and then the secret.
RevokeState ==
    /\ job # None /\ job.step = "revoke"
    /\ cred' = [cred EXCEPT ![job.device] = "deleted"]
    /\ job' = [job EXCEPT !.step = "secret"]
    /\ UNCHANGED <<ledgerVars, pass, store, drain, requests, runs, restoreVars, faults>>

RevokeSecret ==
    /\ job # None /\ job.step = "secret"
    /\ store' = store \ {Secret(job.device)}
    /\ job' = None
    /\ UNCHANGED <<ledgerVars, pass, drain, cred, requests, runs, restoreVars, faults>>

\* The request fails or the API dies; payloads that were purged stay purged, and
\* the device, which got no answer, may ask again.
ExecFails ==
    /\ job # None
    /\ faults < MaxFaults
    /\ faults' = faults + 1
    /\ job' = None
    /\ UNCHANGED <<ledgerVars, pass, store, drain, cred, requests, runs, restoreVars>>

-----------------------------------------------------------------------------
(* Metrics, snapshots and the restore.                                     *)

\* computeSqlMetricRuns: a run with its replay manifest; its evidence_refs are all
\* accepted records of the snapshot, redacted ones included.
ComputeRun ==
    /\ phase = "serving"
    /\ Cardinality({i \in DOMAIN runs : runs[i].kind = "source"}) < MaxRuns
    /\ runs' = Append(runs, [kind |-> "source", by |-> 0, source |-> Len(runs) + 1, supersedes |-> 0,
                             at |-> At(Len(requests)) + 1, evidence |-> logical, manifest |-> TRUE])
    /\ UNCHANGED <<ledgerVars, pass, store, drain, cred, job, requests, restoreVars, faults>>

Quiesced == phase = "serving" /\ drain = Idle /\ pass = NoPass /\ job = None

TakeSnapshot ==
    /\ Quiesced /\ snapshot = None
    /\ restored => SnapshotAgain
    /\ snapshot' = store
    /\ UNCHANGED <<ledgerVars, pass, store, drain, cred, job, requests, runs, phase, reapply, draft, restored, faults>>

Restore ==
    /\ Quiesced /\ snapshot # None
    /\ store' = snapshot
    /\ snapshot' = None
    /\ phase' = "restored"
    /\ restored' = TRUE
    /\ UNCHANGED <<ledgerVars, pass, drain, cred, job, requests, runs, reapply, draft, faults>>

-----------------------------------------------------------------------------
(* reapplyCompletedPrivacyRequests: one transaction over all requests, in   *)
(* order of completed_at.  Payloads are purged at once, runs are inserted   *)
(* when it commits.                                                         *)

NoDraft == [step |-> "purge", runs |-> <<>>, left |-> {}, unsupported |-> FALSE]

\* The operator runs the command, and may run it again.
ReapplyBegin ==
    /\ phase # "serving" /\ reapply = 0
    /\ reapply' = 1
    /\ draft' = [NoDraft EXCEPT !.runs = runs]
    /\ UNCHANGED <<ledgerVars, pass, store, drain, cred, job, requests, runs, snapshot, phase, restored, faults>>

\* Mutant of EncryptedReferences: the responses of lookups are left out.
EncryptedReferencesBodies(q) ==
    {Body(b) : b \in BatchPayloadsOfMembers(q.via, q.device, q.records)}

\* encryptedReferences: what the restored ledger says about the records that the
\* artifact names; no credential is known here.
EncryptedReferences(q) ==
    {Body(b) : b \in IF q.via = "app" THEN Committed
                     ELSE {b \in Committed : Linked(b) \cap q.records # {} /\ Linked(b) \subseteq q.records}}
    \cup RecordPayloads(q.via, q.records)

\* purgeAndVerify of one request, whose tombstones, states and corrections are
\* inserted where a restore lost them.  The runs with a manifest that it touches are
\* to be recalculated.
ReapplyPurge ==
    /\ reapply \in DOMAIN requests /\ draft.step = "purge"
    /\ store' = store \ EncryptedReferences(requests[reapply])
    /\ draft' = [draft EXCEPT !.step = "runs", !.left = {i \in DOMAIN draft.runs :
                     draft.runs[i].manifest /\ Touches(draft.runs[i], requests[reapply].records)}]
    /\ UNCHANGED <<ledgerVars, pass, drain, cred, job, requests, runs, snapshot, phase, reapply, restored, faults>>

\* The replacement of source run s for request k supersedes the latest direct
\* successor of the source, or the source.
Replacement(k, acc, s) ==
    LET direct == {i \in DOMAIN acc : acc[i].supersedes = s}
        latest == {i \in direct : \A j \in direct : acc[j].at <= acc[i].at}
    IN [acc[s] EXCEPT !.kind = "reapply", !.by = k, !.at = At(k), !.manifest = FALSE,
                      !.supersedes = IF direct = {} THEN s ELSE Max(latest)]

\* Mutant of Recalculate: no look at what an earlier re-application inserted.
RecalculateAlways(k, acc, s) == Append(acc, Replacement(k, acc, s))

\* The replacement has a name made of request and source, and is inserted once.
Recalculate(k, acc, s) ==
    IF \E i \in DOMAIN acc : acc[i].kind = "reapply" /\ acc[i].by = k /\ acc[i].source = s
    THEN acc ELSE Append(acc, Replacement(k, acc, s))

\* recalculateMetrics, for one source run of the request.
ReapplyRun(s) ==
    /\ reapply \in DOMAIN requests /\ draft.step = "runs" /\ s \in draft.left
    /\ draft' = [draft EXCEPT !.runs = Recalculate(reapply, @, s), !.left = @ \ {s}]
    /\ UNCHANGED <<ledgerVars, pass, store, drain, cred, job, requests, runs, snapshot, phase, reapply, restored, faults>>

\* The runs that request k touches, were computed before it and cannot be replayed.
Unsupported(k, acc) ==
    {i \in DOMAIN acc : /\ Touches(acc[i], requests[k].records)
                        /\ acc[i].at < At(k)
                        /\ ~acc[i].manifest}

\* affectedRunCount, after the last source run of the request.
ReapplyCount ==
    /\ reapply \in DOMAIN requests /\ draft.step = "runs" /\ draft.left = {}
    /\ draft' = [draft EXCEPT !.step = "purge",
                              !.unsupported = @ \/ Unsupported(reapply, draft.runs) # {}]
    /\ reapply' = reapply + 1
    /\ UNCHANGED <<ledgerVars, pass, store, drain, cred, job, requests, runs, snapshot, phase, restored, faults>>

\* The transaction ends.  Anything unsupported makes the command exit with 2, and
\* the runbook forbids to serve.
ReapplyCommit ==
    /\ reapply = Len(requests) + 1
    /\ reapply' = 0 /\ draft' = NoDraft
    /\ runs' = draft.runs
    /\ phase' = IF draft.unsupported THEN "blocked" ELSE "reapplied"
    /\ lookups' = IF \E k \in DOMAIN requests : requests[k].via = "app" THEN {}
                  ELSE lookups \ Of(lookups, UNION {requests[k].records : k \in DOMAIN requests})
    /\ UNCHANGED <<batch, raw, logical, members, results, pass, store, drain, cred, job, requests,
                   snapshot, restored, faults>>

ReapplyFails ==
    /\ reapply # 0
    /\ faults < MaxFaults
    /\ faults' = faults + 1
    /\ reapply' = 0 /\ draft' = NoDraft
    /\ UNCHANGED <<ledgerVars, pass, store, drain, cred, job, requests, runs, snapshot, phase, restored>>

Serve ==
    /\ phase = "reapplied" /\ reapply = 0
    /\ phase' = "serving"
    /\ UNCHANGED <<ledgerVars, pass, store, drain, cred, job, requests, runs, snapshot, reapply, draft, restored, faults>>

-----------------------------------------------------------------------------
Init ==
    /\ batch = [b \in Batches |-> "absent"]
    /\ raw = {} /\ logical = {} /\ members = {} /\ lookups = {} /\ results = {}
    /\ store = {Secret(d) : d \in Devices}
    /\ drain = Idle /\ pass = NoPass
    /\ cred = [d \in Devices |-> "active"]
    /\ job = None
    /\ requests = <<>> /\ runs = <<>>
    /\ snapshot = None /\ phase = "serving" /\ reapply = 0 /\ draft = NoDraft /\ restored = FALSE
    /\ faults = 0

Ingest ==
    \/ Select \/ Link \/ MarkProcessed
    \/ \E b \in Batches : AppendBatch(b)
    \/ \E r \in Records : QueueLookup(r)
    \/ \E x \in BOOLEAN : Persist(x) \/ DrainFails(x)

LookupPass ==
    \/ SelectRows \/ CommitResult \/ ResultFails \/ PassDies
    \/ \E x \in pass.rows : LeaveRow(x) \/ WriteResponse(x)

Execute ==
    \/ \E d \in Devices, via \in {"device", "admin", "app"} : ExecBegin(via, d)
    \/ ExecGather \/ ExecPurge \/ ExecCommit \/ RevokeState \/ RevokeSecret \/ ExecFails

Reapply ==
    \/ ReapplyBegin \/ ReapplyPurge \/ ReapplyCount \/ ReapplyCommit \/ ReapplyFails \/ Serve
    \/ \E s \in DOMAIN draft.runs : ReapplyRun(s)

Next == Ingest \/ LookupPass \/ Execute \/ Reapply \/ ComputeRun \/ TakeSnapshot \/ Restore

Spec == Init /\ [][Next]_vars

-----------------------------------------------------------------------------

\* After a device's request has completed, a body of that device that was there
\* when the request looked is only readable if some record of it is not in the
\* request, although the drain may be between the transactions of its records
\* and their links to the batch.  The same holds for all bodies after a deletion
\* of the app.  (A restore brings bodies back; see ServesOnlyRedacted.)
OnlySharedBodiesSurvive ==
    ~restored =>
        \A k \in DOMAIN requests : \A b \in requests[k].seen :
            LET q == requests[k]
            IN /\ q.via = "app" \/ (q.via = "device" /\ DeviceOf[b] = q.device)
               /\ Body(b) \in store
               => RecordsOf(b) \ q.records # {}

\* A restored system serves again only when every completed request holds in what the
\* ledger names, whatever was interrupted: none of its records has a lookup, no result of
\* them has a readable response, and a batch whose linked records are all in it has no body.
\* (A response that PassDies left behind is named by no row, and no purge finds it.)
ServesOnlyRedacted ==
    [][phase # "serving" /\ phase' = "serving" =>
        \A k \in DOMAIN requests' :
            LET q == requests'[k]
            IN /\ Of(lookups', q.records) = {}
               /\ \A x \in Of(results', q.records) : x.ref \notin store'
               /\ \A b \in Batches :
                    Linked(b) # {} /\ Linked(b) \subseteq q.records => Body(b) \notin store'
      ]_vars

\* Re-applying again, after a crash or on purpose, never inserts a second
\* replacement of the same run for the same request.
OneReplacementPerRequest ==
    \A i, j \in DOMAIN runs :
        /\ runs[i].kind = "reapply" /\ runs[j].kind = "reapply"
        /\ runs[i].by = runs[j].by /\ runs[i].source = runs[j].source
        => i = j
=============================================================================
