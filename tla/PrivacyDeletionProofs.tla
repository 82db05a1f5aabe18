------------------------ MODULE PrivacyDeletionProofs ------------------------
(***************************************************************************)
(* For any number of devices, batches, records and requests, and any       *)
(* number of faults and restores: after a deletion only shared bodies stay *)
(* readable, a restored system serves again only when every completed      *)
(* request holds in what its ledger names, and re-applying a request again *)
(* inserts no second replacement of a metric run.                          *)
(***************************************************************************)
EXTENDS PrivacyDeletion, TLAPS

-----------------------------------------------------------------------------
(* The inductive invariant.                                                *)

DrainFields == {"phase", "rows", "todo"}

\* Linked records belong to batches that exist, and so do the batches of a drain.
LedgerOK ==
    /\ batch \in [Batches -> {"absent", "pending", "processed", "failed"}]
    /\ \A r \in members : r \in Records /\ batch[BatchOf[r]] # "absent"
    /\ DOMAIN drain = DrainFields
    /\ drain.phase # "idle" => drain.rows # {} /\ drain.rows \subseteq Committed

\* The bodies that a request is about, wherever it stands.
Covers(q, b) == q.via = "app" \/ (q.via = "device" /\ DeviceOf[b] = q.device)

JobFields == {"step", "via", "device", "records", "refs", "seen"}

\* A request that is purging still has the reference of every body it must purge.
JobOK ==
    job # None =>
        /\ DOMAIN job = JobFields
        /\ job.step = "purge" =>
             /\ job.seen \subseteq Committed
             /\ \A b \in job.seen :
                  (Covers(job, b) /\ Body(b) \in store) =>
                     Body(b) \in job.refs \/ RecordsOf(b) \ job.records # {}

\* Completed requests, with what they have seen.
RequestsOK ==
    /\ \E S : requests \in Seq(S)
    /\ \A k \in DOMAIN requests : requests[k].seen \subseteq Committed
    /\ OnlySharedBodiesSurvive

\* Nothing runs beside a restore but the re-application.
QuietOK ==
    /\ phase # "serving" => drain = Idle /\ pass = NoPass /\ job = None
    /\ reapply \in Nat /\ (reapply # 0 => phase # "serving")

\* No response of a result that request k names and no body that it alone names is readable.
Purged(k) ==
    /\ \A x \in Of(results, requests[k].records) : x.ref \notin store
    /\ \A b \in Batches : Linked(b) # {} /\ Linked(b) \subseteq requests[k].records
                          => Body(b) \notin store

\* The re-application has purged for the requests before the present one, and for that
\* one when it treats its runs; once it has committed, every request holds.
ReapplyOK ==
    /\ \A k \in DOMAIN requests :
         k < reapply \/ (k = reapply /\ draft.step = "runs") => Purged(k)
    /\ phase = "reapplied" => \A k \in DOMAIN requests :
         Purged(k) /\ Of(lookups, requests[k].records) = {}

RunFields == {"kind", "by", "source", "supersedes", "at", "evidence", "manifest"}

\* A list of runs: a run that can be replayed is its own source, and a source has one
\* replacement for a request.
RunsInOrder(acc) ==
    /\ \E S : acc \in Seq(S)
    /\ \A i \in DOMAIN acc : DOMAIN acc[i] = RunFields /\ (acc[i].manifest => acc[i].source = i)
    /\ \A i, j \in DOMAIN acc :
         /\ acc[i].kind = "reapply" /\ acc[j].kind = "reapply"
         /\ acc[i].by = acc[j].by /\ acc[i].source = acc[j].source
         => i = j

\* The runs of the ledger and those that a re-application is about to commit.
RunsOK ==
    /\ RunsInOrder(runs)
    /\ RunsInOrder(draft.runs)
    /\ DOMAIN draft = {"step", "runs", "left", "unsupported"}
    /\ \A s \in draft.left : s \in DOMAIN draft.runs /\ draft.runs[s].manifest

PrivacyInv == LedgerOK /\ JobOK /\ RequestsOK /\ QuietOK /\ ReapplyOK /\ RunsOK

-----------------------------------------------------------------------------
(* References of the store are of three kinds.                            *)

LEMMA Kinds ==
  /\ \A b : Body(b)[1] = "body" /\ Body(b)[2] = b
  /\ \A r, n : Response(r, n)[1] = "response"
  /\ \A d : Secret(d)[1] = "secret"
  BY DEF Body, Response, Secret

\* A request is appended to those completed before.
LEMMA AppendRequest ==
  ASSUME NEW S, requests \in Seq(S), NEW q, requests' = Append(requests, q)
  PROVE  /\ requests' \in Seq(S \cup {q})
         /\ DOMAIN requests' = DOMAIN requests \cup {Len(requests) + 1}
         /\ requests'[Len(requests) + 1] = q
         /\ \A k \in DOMAIN requests : requests'[k] = requests[k]
<1>1. requests \in Seq(S \cup {q})
  OBVIOUS
<1> QED BY <1>1

-----------------------------------------------------------------------------
(* One lemma per conjunct of the invariant.                                *)

\* A batch that exists stays.
LEMMA LedgerStep ==
  ASSUME LedgerOK, [Next]_vars
  PROVE  LedgerOK' /\ Committed \subseteq Committed'
<1>1. CASE UNCHANGED <<batch, members, drain>>
  BY <1>1 DEF LedgerOK, Committed
<1>2. ASSUME NEW b \in Batches, AppendBatch(b)
      PROVE  LedgerOK' /\ Committed \subseteq Committed'
  <2>1. batch' = [batch EXCEPT ![b] = "pending"] /\ members' = members /\ drain' = drain
    BY <1>2 DEF AppendBatch
  <2>2. batch' \in [Batches -> {"absent", "pending", "processed", "failed"}]
        /\ \A c \in Batches : batch[c] # "absent" => batch'[c] # "absent"
    BY <2>1 DEF LedgerOK
  <2> QED BY <2>1, <2>2, FunctionsAssumption DEF LedgerOK, Committed
<1>3. CASE Select
  <2> DEFINE pending == {b \in Batches : batch[b] = "pending"}
             rows == {b \in pending : Body(b) \in store}
             todo == UNION {RecordsOf(b) : b \in rows}
  <2>1. members' = members /\ batch' = [b \in Batches |-> IF b \in pending \ rows THEN "failed" ELSE batch[b]]
    BY <1>3 DEF Select
  <2>2. batch' \in [Batches -> {"absent", "pending", "processed", "failed"}]
        /\ \A c \in Batches : batch[c] # "absent" => batch'[c] # "absent"
    BY <2>1 DEF LedgerOK
  <2>3. rows \subseteq Committed'
    BY <2>2 DEF Committed
  <2>4. drain' = Idle \/ (rows # {} /\ drain' = [phase |-> "persist", rows |-> rows, todo |-> todo])
    BY <1>3 DEF Select
  <2> HIDE DEF pending, rows, todo
  <2>5. DOMAIN drain' = DrainFields /\ (drain'.phase # "idle" => drain'.rows # {} /\ drain'.rows \subseteq Committed')
    BY <2>3, <2>4 DEF Idle, DrainFields
  <2> QED BY <2>1, <2>2, <2>5, FunctionsAssumption DEF LedgerOK, Committed
<1>4. CASE \E x \in BOOLEAN : DrainFails(x)
  <2>1. members' = members /\ drain' = Idle
        /\ (batch' = batch \/ batch' = [b \in Batches |-> IF b \in drain.rows THEN "failed" ELSE batch[b]])
    BY <1>4 DEF DrainFails
  <2>2. batch' \in [Batches -> {"absent", "pending", "processed", "failed"}]
        /\ \A c \in Batches : batch[c] # "absent" => batch'[c] # "absent"
    BY <2>1 DEF LedgerOK
  <2>3. DOMAIN drain' = DrainFields /\ drain'.phase = "idle"
    BY <2>1 DEF Idle, DrainFields
  <2> QED BY <2>1, <2>2, <2>3, FunctionsAssumption DEF LedgerOK, Committed
<1>5. CASE \/ \E x \in BOOLEAN : Persist(x)
           \/ \E r \in Records : QueueLookup(r)
  <2>1. batch' = batch /\ members' = members /\ drain.phase # "idle"
    BY <1>5 DEF Persist, QueueLookup
  <2>2. DOMAIN drain' = DrainFields /\ drain'.rows = drain.rows
    BY <1>5 DEF Persist, QueueLookup, LedgerOK, DrainFields
  <2> QED BY <2>1, <2>2 DEF LedgerOK, Committed
<1>6. CASE Link
  <2>1. batch' = batch /\ drain.phase # "idle" /\ members' = members \cup RecordsOf(NextRow)
    BY <1>6 DEF Link
  <2>2. NextRow \in Committed
    BY <2>1 DEF LedgerOK, NextRow
  <2>3. DOMAIN drain' = DrainFields /\ drain'.rows = drain.rows
    BY <1>6 DEF Link, LedgerOK, DrainFields
  <2>4. \A r \in members' : r \in Records /\ batch'[BatchOf[r]] # "absent"
    BY <2>1, <2>2 DEF LedgerOK, RecordsOf, Committed
  <2> QED BY <2>1, <2>3, <2>4 DEF LedgerOK, Committed
<1>7. CASE MarkProcessed
  <2>1. batch' = [batch EXCEPT ![NextRow] = "processed"] /\ members' = members /\ drain.phase # "idle"
    BY <1>7 DEF MarkProcessed
  <2>2. batch' \in [Batches -> {"absent", "pending", "processed", "failed"}]
        /\ \A c \in Batches : batch[c] # "absent" => batch'[c] # "absent"
    BY <2>1 DEF LedgerOK
  <2>3. NextRow \in drain.rows
    BY <2>1 DEF LedgerOK, NextRow
  <2>4. drain' = Idle \/ (drain.rows # {NextRow}
                         /\ drain' = [drain EXCEPT !.phase = "queue", !.rows = @ \ {NextRow}])
    BY <1>7 DEF MarkProcessed
  <2>5. DOMAIN drain' = DrainFields /\ (drain'.phase # "idle" => drain'.rows # {} /\ drain'.rows \subseteq drain.rows)
    <3>1. CASE drain' = Idle
      BY <3>1 DEF Idle, DrainFields
    <3>2. CASE drain' # Idle
      <4>1. DOMAIN drain' = DrainFields /\ drain'.rows = drain.rows \ {NextRow}
        BY <2>4, <3>2 DEF LedgerOK, DrainFields
      <4> QED BY <2>3, <2>4, <3>2, <4>1
    <3> QED BY <3>1, <3>2
  <2> QED BY <2>1, <2>2, <2>5, FunctionsAssumption DEF LedgerOK, Committed
<1>8. CASE LookupPass
  BY <1>1, <1>8 DEF LookupPass, SelectRows, LeaveRow, WriteResponse, CommitResult, ResultFails,
     PassDies, ledgerVars
<1>9. CASE TakeSnapshot \/ Restore \/ ComputeRun \/ UNCHANGED vars
  BY <1>1, <1>9 DEF TakeSnapshot, Restore, ComputeRun, vars, ledgerVars
<1>10. CASE Execute
  BY <1>1, <1>10 DEF Execute, ExecBegin, ExecGather, ExecPurge, ExecCommit, RevokeState,
     RevokeSecret, ExecFails, ledgerVars
<1>11. CASE Reapply
  BY <1>1, <1>11 DEF Reapply, ReapplyBegin, ReapplyPurge, ReapplyRun, ReapplyCount, ReapplyCommit, ReapplyFails, Serve,
     ledgerVars
<1> QED BY <1>2, <1>3, <1>4, <1>5, <1>6, <1>7, <1>8, <1>9, <1>10, <1>11 DEF Next, Ingest

\* Beside a restore there is nothing to run.
LEMMA QuietStep ==
  ASSUME RequestsOK, QuietOK, [Next]_vars
  PROVE  QuietOK'
<1>1. CASE UNCHANGED <<phase, reapply>> /\ phase = "serving"
  BY <1>1 DEF QuietOK
<1>2. CASE UNCHANGED <<phase, reapply, drain, pass, job>>
  BY <1>2 DEF QuietOK
<1>3. CASE Ingest
  <2>1. UNCHANGED <<phase, reapply>>
    BY <1>3 DEF Ingest, Select, AppendBatch, Link, MarkProcessed, Persist, DrainFails, QueueLookup,
       restoreVars
  <2>2. Idle.phase = "idle"
    BY DEF Idle
  <2>3. phase = "serving"
    BY <1>3, <2>2 DEF Ingest, Select, AppendBatch, Link, MarkProcessed, Persist, DrainFails,
       QueueLookup, QuietOK
  <2> QED BY <1>1, <2>1, <2>3
<1>8. CASE LookupPass
  <2>1. UNCHANGED <<phase, reapply>>
    BY <1>8 DEF LookupPass, SelectRows, LeaveRow, WriteResponse, CommitResult, ResultFails,
       PassDies, restoreVars
  <2>2. NoPass.rows = {} /\ NoPass.row = None
    BY DEF NoPass
  <2>3. phase = "serving"
    BY <1>8, <2>2 DEF LookupPass, SelectRows, LeaveRow, WriteResponse, CommitResult, ResultFails,
       PassDies, QuietOK
  <2> QED BY <1>1, <2>1, <2>3
<1>4. CASE Execute
  <2>1. UNCHANGED <<phase, reapply>>
    BY <1>4 DEF Execute, ExecBegin, ExecGather, ExecPurge, ExecCommit, RevokeState,
       RevokeSecret, ExecFails, restoreVars
  <2>2. phase = "serving"
    BY <1>4 DEF Execute, ExecBegin, ExecGather, ExecPurge, ExecCommit, RevokeState,
       RevokeSecret, ExecFails, QuietOK
  <2> QED BY <1>1, <2>1, <2>2
<1>5. CASE TakeSnapshot \/ Restore
  BY <1>5 DEF TakeSnapshot, Restore, Quiesced, QuietOK
<1>6. CASE Reapply
  <2>1. UNCHANGED <<drain, pass, job>>
    BY <1>6 DEF Reapply, ReapplyBegin, ReapplyPurge, ReapplyRun, ReapplyCount, ReapplyCommit, ReapplyFails, Serve
  <2>2. CASE ReapplyBegin
    BY <2>1, <2>2 DEF ReapplyBegin, QuietOK
  <2>3. CASE ReapplyCount
    <3>1. reapply \in Nat \ {0} /\ reapply' = reapply + 1 /\ phase' = phase
      BY <2>3 DEF ReapplyCount, RequestsOK
    <3> QED BY <2>1, <3>1 DEF QuietOK
  <2>5. CASE ReapplyPurge \/ (\E r \in DOMAIN draft.runs : ReapplyRun(r))
    BY <1>2, <2>1, <2>5 DEF ReapplyPurge, ReapplyRun
  <2>4. CASE ReapplyCommit \/ ReapplyFails \/ Serve
    BY <2>1, <2>4 DEF ReapplyCommit, ReapplyFails, Serve, QuietOK
  <2> QED BY <1>6, <2>2, <2>3, <2>4, <2>5 DEF Reapply
<1>7. CASE ComputeRun \/ UNCHANGED vars
  BY <1>2, <1>7 DEF ComputeRun, vars, restoreVars
<1> QED BY <1>3, <1>4, <1>5, <1>6, <1>7, <1>8 DEF Next

\* But for a restore, no body of a batch that exists becomes readable.
LEMMA BodiesStayPurged ==
  ASSUME LedgerOK, [Next]_vars, ~Restore, NEW c \in Committed, Body(c) \in store'
  PROVE  Body(c) \in store
<1>1. CASE store' \subseteq store
  BY <1>1
<1>2. ASSUME NEW b \in Batches, AppendBatch(b)
      PROVE  Body(c) \in store
  BY <1>2, Kinds DEF AppendBatch, Committed
<1>3. ASSUME NEW x \in pass.rows, WriteResponse(x)
      PROVE  Body(c) \in store
  <2>1. PICK n : store' = store \cup {Response(x.install, n)}
    BY <1>3 DEF WriteResponse
  <2> QED BY <2>1, Kinds
<1>4. CASE Select \/ Link \/ MarkProcessed \/ (\E r \in Records : QueueLookup(r))
           \/ (\E x \in BOOLEAN : Persist(x) \/ DrainFails(x))
  BY <1>1, <1>4 DEF Select, Link, MarkProcessed, QueueLookup, Persist, DrainFails
<1>7. CASE SelectRows \/ CommitResult \/ ResultFails \/ PassDies \/ (\E x \in pass.rows : LeaveRow(x))
  BY <1>1, <1>7 DEF SelectRows, CommitResult, ResultFails, PassDies, LeaveRow
<1>5. CASE Execute
  BY <1>1, <1>5 DEF Execute, ExecBegin, ExecGather, ExecPurge, ExecCommit, RevokeState,
     RevokeSecret, ExecFails
<1>6. CASE Reapply \/ ComputeRun \/ TakeSnapshot \/ UNCHANGED vars
  BY <1>1, <1>6 DEF Reapply, ReapplyBegin, ReapplyPurge, ReapplyRun, ReapplyCount, ReapplyCommit, ReapplyFails, Serve,
     ComputeRun, TakeSnapshot, vars
<1> QED BY <1>2, <1>3, <1>4, <1>5, <1>6, <1>7 DEF Next, Ingest, LookupPass

\* A request gathers a reference for every body that is not shared.
LEMMA GatherFacts ==
  ASSUME NEW via, NEW d, NEW records, NEW b \in Committed,
         via = "app" \/ (via = "device" /\ DeviceOf[b] = d),
         RecordsOf(b) \subseteq records
  PROVE  b \in BatchPayloads(via, d, records)
  BY DEF BatchPayloads, Linked

\* Purging loses no reference but that of the payload it purges.
LEMMA JobStep ==
  ASSUME LedgerOK, JobOK, QuietOK, [Next]_vars
  PROVE  JobOK'
<1>1. Committed \subseteq Committed'
  BY LedgerStep
<1>2. CASE job' = None
  BY <1>2 DEF JobOK
<1>3. CASE job' = job
  <2> SUFFICES ASSUME job # None, job.step = "purge", NEW b \in job.seen,
                      Covers(job, b), Body(b) \in store'
               PROVE  Body(b) \in job.refs \/ RecordsOf(b) \ job.records # {}
    BY <1>1, <1>3 DEF JobOK, Covers
  <2>1. ~Restore
    BY DEF Restore, Quiesced
  <2>2. b \in Committed
    BY DEF JobOK
  <2>3. Body(b) \in store
    BY <2>1, <2>2, BodiesStayPurged
  <2> QED BY <2>3 DEF JobOK
<1>4. CASE \E d \in Devices, via \in {"device", "admin", "app"} : ExecBegin(via, d)
  <2>1. job' # None => DOMAIN job' = JobFields /\ job'.step = "gather"
    BY <1>4 DEF ExecBegin, JobFields
  <2> QED BY <2>1 DEF JobOK
<1>5. CASE ExecGather
  <2> DEFINE refs == {Body(b) : b \in BatchPayloads(job.via, job.device, job.records)}
                     \cup RecordPayloads(job.via, job.records)
  <2>1. job # None /\ DOMAIN job = JobFields
    BY <1>5 DEF ExecGather, JobOK, JobFields
  <2>2. job' = [job EXCEPT !.step = "purge", !.seen = Committed, !.refs = refs]
        /\ store' = store /\ batch' = batch
    BY <1>5 DEF ExecGather, ledgerVars
  <2> HIDE DEF refs
  <2>3. DOMAIN job' = JobFields /\ job'.seen = Committed /\ job'.refs = refs /\ job'.via = job.via
        /\ job'.device = job.device /\ job'.records = job.records
    BY <2>1, <2>2 DEF JobFields
  <2>4. Committed' = Committed
    BY <2>2 DEF Committed
  <2>5. ASSUME NEW b \in Committed, Covers(job, b), RecordsOf(b) \subseteq job.records
        PROVE  Body(b) \in refs
    <3>1. b \in BatchPayloads(job.via, job.device, job.records)
      BY <2>5, GatherFacts DEF Covers
    <3> QED BY <3>1 DEF refs
  <2> QED BY <2>3, <2>4, <2>5 DEF JobOK, JobFields, Covers
<1>6. CASE ExecPurge
  <2>1. job # None /\ job.step = "purge" /\ DOMAIN job = JobFields
    BY <1>6 DEF ExecPurge, JobOK, JobFields
  <2>2. PICK ref : job' = [job EXCEPT !.refs = @ \ {ref}] /\ store' = store \ {ref} /\ batch' = batch
    BY <1>6 DEF ExecPurge, ledgerVars
  <2>3. DOMAIN job' = JobFields /\ job'.seen = job.seen /\ job'.refs = job.refs \ {ref}
        /\ job'.via = job.via /\ job'.device = job.device /\ job'.records = job.records
    BY <2>1, <2>2 DEF JobFields
  <2> QED BY <1>1, <2>1, <2>2, <2>3 DEF JobOK, JobFields, Covers
<1>7. CASE ExecCommit \/ RevokeState
  <2>1. job # None /\ DOMAIN job = JobFields
    BY <1>7 DEF ExecCommit, RevokeState, JobOK, JobFields
  <2>2. job' = None \/ \E step \in {"revoke", "secret"} : job' = [job EXCEPT !.step = step]
    BY <1>7 DEF ExecCommit, RevokeState
  <2>3. job' # None => DOMAIN job' = JobFields /\ job'.step # "purge"
    BY <2>1, <2>2 DEF JobFields
  <2> QED BY <2>3 DEF JobOK
<1>8. CASE RevokeSecret \/ ExecFails
  BY <1>2, <1>8 DEF RevokeSecret, ExecFails
<1>9. CASE Ingest
  BY <1>3, <1>9 DEF Ingest, Select, AppendBatch, Link, MarkProcessed, QueueLookup, Persist, DrainFails
<1>11. CASE LookupPass
  BY <1>3, <1>11 DEF LookupPass, SelectRows, LeaveRow, WriteResponse, CommitResult, ResultFails, PassDies
<1>10. CASE Reapply \/ ComputeRun \/ TakeSnapshot \/ Restore \/ UNCHANGED vars
  BY <1>3, <1>10 DEF Reapply, ReapplyBegin, ReapplyPurge, ReapplyRun, ReapplyCount, ReapplyCommit, ReapplyFails, Serve,
     ComputeRun, TakeSnapshot, Restore, vars
<1> QED BY <1>4, <1>5, <1>6, <1>7, <1>8, <1>9, <1>10, <1>11 DEF Next, Execute

\* A request completes when nothing is left to purge, and what it purged stays purged.
LEMMA RequestsStep ==
  ASSUME LedgerOK, JobOK, RequestsOK, [Next]_vars, QuietOK
  PROVE  RequestsOK'
<1>1. Committed \subseteq Committed'
  BY LedgerStep
<1>2. CASE Restore
  <2>1. restored' = TRUE /\ requests' = requests
    BY <1>2 DEF Restore
  <2> QED BY <1>1, <2>1 DEF RequestsOK, OnlySharedBodiesSurvive
<1>3. CASE requests' = requests /\ restored' = restored /\ ~Restore
  <2>1. OnlySharedBodiesSurvive'
    <3> SUFFICES ASSUME ~restored, NEW k \in DOMAIN requests, NEW b \in requests[k].seen,
                        Covers(requests[k], b), Body(b) \in store'
                 PROVE  RecordsOf(b) \ requests[k].records # {}
      BY <1>3 DEF OnlySharedBodiesSurvive, Covers
    <3>1. b \in Committed
      BY DEF RequestsOK
    <3>2. Body(b) \in store
      BY <1>3, <3>1, BodiesStayPurged
    <3> QED BY <3>2 DEF RequestsOK, OnlySharedBodiesSurvive, Covers
  <2> QED BY <1>1, <1>3, <2>1 DEF RequestsOK
<1>4. CASE ExecCommit
  <2> DEFINE q == [via |-> job.via, device |-> job.device, records |-> job.records, seen |-> job.seen]
             n == Len(requests) + 1
  <2>1. job # None /\ job.step = "purge" /\ job.refs = {} /\ requests' = Append(requests, q)
        /\ store' = store /\ restored' = restored
    BY <1>4 DEF ExecCommit, restoreVars
  <2>2. PICK S : requests \in Seq(S)
    BY DEF RequestsOK
  <2>3. q.via = job.via /\ q.device = job.device /\ q.records = job.records /\ q.seen = job.seen
    OBVIOUS
  <2> HIDE DEF q
  <2>4. /\ requests' \in Seq(S \cup {q})
        /\ DOMAIN requests' = DOMAIN requests \cup {n} /\ requests'[n] = q
        /\ \A k \in DOMAIN requests : requests'[k] = requests[k]
    BY <2>1, <2>2, AppendRequest
  <2>5. /\ q.seen \subseteq Committed
        /\ \A b \in q.seen : (Covers(q, b) /\ Body(b) \in store) => RecordsOf(b) \ q.records # {}
    BY <2>1, <2>3 DEF JobOK, Covers
  <2>6. \A k \in DOMAIN requests' : requests'[k].seen \subseteq Committed'
    BY <1>1, <2>4, <2>5 DEF RequestsOK
  <2>7. OnlySharedBodiesSurvive'
    <3> SUFFICES ASSUME ~restored, NEW k \in DOMAIN requests', NEW b \in requests'[k].seen,
                        Covers(requests'[k], b), Body(b) \in store
                 PROVE  RecordsOf(b) \ requests'[k].records # {}
      BY <2>1 DEF OnlySharedBodiesSurvive, Covers
    <3>1. CASE k = n
      BY <2>4, <2>5, <3>1
    <3>2. CASE k \in DOMAIN requests
      BY <2>4, <3>2 DEF RequestsOK, OnlySharedBodiesSurvive, Covers
    <3> QED BY <2>4, <3>1, <3>2
  <2> QED BY <2>4, <2>6, <2>7 DEF RequestsOK
<1>5. CASE Ingest
  BY <1>2, <1>3, <1>5 DEF Ingest, Select, AppendBatch, Link, MarkProcessed, QueueLookup, Persist,
     DrainFails, restoreVars
<1>8. CASE LookupPass
  BY <1>2, <1>3, <1>8 DEF LookupPass, SelectRows, LeaveRow, WriteResponse, CommitResult, ResultFails,
     PassDies, restoreVars
<1>6. CASE \/ \E d \in Devices, via \in {"device", "admin", "app"} : ExecBegin(via, d)
           \/ ExecGather \/ ExecPurge \/ RevokeState \/ RevokeSecret \/ ExecFails
  BY <1>2, <1>3, <1>6 DEF ExecBegin, ExecGather, ExecPurge, RevokeState, RevokeSecret, ExecFails,
     restoreVars
<1>7. CASE Reapply \/ ComputeRun \/ TakeSnapshot \/ UNCHANGED vars
  BY <1>2, <1>3, <1>7 DEF Reapply, ReapplyBegin, ReapplyPurge, ReapplyRun, ReapplyCount, ReapplyCommit, ReapplyFails, Serve,
     ComputeRun, TakeSnapshot, vars, restoreVars
<1> QED BY <1>2, <1>4, <1>5, <1>6, <1>7, <1>8 DEF Next, Execute

\* What a request alone names is among the references of its re-application.
LEMMA ReferencesFacts ==
  ASSUME LedgerOK, NEW k \in DOMAIN requests,
         store' = store \ EncryptedReferences(requests[k]), members' = members,
         results' = results, requests' = requests
  PROVE  Purged(k)'
<1> DEFINE q == requests[k]
<1>1. ASSUME NEW x \in Of(results, q.records)
      PROVE  x.ref \notin store'
  <2>1. x.ref \in RecordPayloads(q.via, q.records)
    BY DEF RecordPayloads, Of
  <2> QED BY <2>1 DEF EncryptedReferences
<1>2. ASSUME NEW b \in Batches, Linked(b) # {}, Linked(b) \subseteq q.records
      PROVE  Body(b) \notin store'
  <2>1. PICK r : r \in Records /\ BatchOf[r] = b /\ r \in members
    BY <1>2 DEF Linked, RecordsOf
  <2>2. b \in Committed
    BY <2>1 DEF LedgerOK, Committed
  <2>3. Linked(b) \cap q.records # {}
    BY <1>2
  <2>4. Body(b) \in EncryptedReferences(q)
    BY <1>2, <2>2, <2>3 DEF EncryptedReferences
  <2> QED BY <2>4
<1>3. \A b : Linked(b)' = Linked(b)
  BY DEF Linked, RecordsOf
<1> QED BY <1>1, <1>2, <1>3 DEF Purged

\* Purging undoes nothing.
LEMMA PurgedStays ==
  ASSUME store' \subseteq store, members' = members, results' = results, requests' = requests,
         NEW k \in DOMAIN requests, Purged(k)
  PROVE  Purged(k)'
<1>1. \A b : Linked(b)' = Linked(b)
  BY DEF Linked, RecordsOf
<1> QED BY <1>1 DEF Purged

\* The re-application goes through all requests before it commits; a second one, or
\* one that fails, takes nothing back.
LEMMA ReapplyStep ==
  ASSUME LedgerOK, JobOK, RequestsOK, QuietOK, ReapplyOK, RunsOK, [Next]_vars
  PROVE  ReapplyOK'
<1>1. /\ DOMAIN requests \subseteq Nat \ {0} /\ DOMAIN requests' \subseteq Nat \ {0}
      /\ \A k \in DOMAIN requests : k <= Len(requests)
      /\ Len(requests) \in Nat
  BY RequestsStep DEF RequestsOK
<1>2. CASE UNCHANGED <<phase, reapply>> /\ phase = "serving"
  <2>1. reapply' = 0
    BY <1>2 DEF QuietOK
  <2> QED BY <1>1, <1>2, <2>1 DEF ReapplyOK
<1>3. CASE Ingest
  <2>1. UNCHANGED <<phase, reapply>>
    BY <1>3 DEF Ingest, Select, AppendBatch, Link, MarkProcessed, Persist, DrainFails, QueueLookup,
       restoreVars
  <2>2. Idle.phase = "idle"
    BY DEF Idle
  <2>3. phase = "serving"
    BY <1>3, <2>2 DEF Ingest, Select, AppendBatch, Link, MarkProcessed, Persist, DrainFails,
       QueueLookup, QuietOK
  <2> QED BY <1>2, <2>1, <2>3
<1>15. CASE LookupPass
  <2>1. UNCHANGED <<phase, reapply>>
    BY <1>15 DEF LookupPass, SelectRows, LeaveRow, WriteResponse, CommitResult, ResultFails,
       PassDies, restoreVars
  <2>2. NoPass.rows = {} /\ NoPass.row = None
    BY DEF NoPass
  <2>3. phase = "serving"
    BY <1>15, <2>2 DEF LookupPass, SelectRows, LeaveRow, WriteResponse, CommitResult, ResultFails,
       PassDies, QuietOK
  <2> QED BY <1>2, <2>1, <2>3
<1>4. CASE Execute
  <2>1. UNCHANGED <<phase, reapply>>
    BY <1>4 DEF Execute, ExecBegin, ExecGather, ExecPurge, ExecCommit, RevokeState,
       RevokeSecret, ExecFails, restoreVars
  <2>2. phase = "serving"
    BY <1>4 DEF Execute, ExecBegin, ExecGather, ExecPurge, ExecCommit, RevokeState,
       RevokeSecret, ExecFails, QuietOK
  <2> QED BY <1>2, <2>1, <2>2
<1>5. CASE ComputeRun \/ TakeSnapshot
  BY <1>2, <1>5 DEF ComputeRun, TakeSnapshot, Quiesced, restoreVars
<1>6. CASE Restore
  <2>1. phase' = "restored" /\ reapply' = 0
    BY <1>6 DEF Restore, Quiesced, QuietOK
  <2> QED BY <1>1, <2>1 DEF ReapplyOK
<1>7. ASSUME NEW k \in DOMAIN requests, UNCHANGED <<store, members, results, requests>>, Purged(k)
      PROVE  Purged(k)'
  BY <1>7, PurgedStays
<1>8. CASE ReapplyBegin
  <2>1. reapply' = 1 /\ UNCHANGED <<phase, lookups, store, members, results, requests>>
    BY <1>8 DEF ReapplyBegin, ledgerVars
  <2>2. \A k \in DOMAIN requests' : ~(k < reapply')
    BY <1>1, <2>1
  <2>3. draft'.step = "purge"
    BY <1>8 DEF ReapplyBegin, NoDraft
  <2> QED BY <1>7, <2>1, <2>2, <2>3 DEF ReapplyOK
<1>9. CASE ReapplyPurge
  <2>1. /\ reapply \in DOMAIN requests /\ reapply' = reapply
        /\ store' = store \ EncryptedReferences(requests[reapply])
        /\ UNCHANGED <<phase, lookups, members, results, requests>>
    BY <1>9 DEF ReapplyPurge, ledgerVars
  <2>2. ASSUME NEW k \in DOMAIN requests, k = reapply
        PROVE  Purged(k)'
    BY <2>1, <2>2, ReferencesFacts
  <2>3. ASSUME NEW k \in DOMAIN requests, Purged(k)
        PROVE  Purged(k)'
    BY <2>1, <2>3, PurgedStays
  <2> QED BY <2>1, <2>2, <2>3 DEF ReapplyOK
<1>13. CASE ReapplyCount
  <2>1. /\ reapply \in DOMAIN requests /\ reapply' = reapply + 1 /\ draft.step = "runs"
        /\ UNCHANGED <<phase, lookups, store, members, results, requests>>
    BY <1>13 DEF ReapplyCount, ledgerVars
  <2>2. draft'.step = "purge"
    BY <1>13 DEF ReapplyCount, RunsOK
  <2>3. \A k \in DOMAIN requests : k < reapply' => k = reapply \/ k < reapply
    BY <1>1, <2>1
  <2> QED BY <1>7, <2>1, <2>2, <2>3 DEF ReapplyOK
<1>14. ASSUME NEW r \in DOMAIN draft.runs, ReapplyRun(r)
      PROVE  ReapplyOK'
  <2>1. UNCHANGED <<phase, reapply, lookups, store, members, results, requests>> /\ draft'.step = draft.step
    BY <1>14 DEF ReapplyRun, ledgerVars, RunsOK
  <2> QED BY <1>7, <2>1 DEF ReapplyOK
<1>10. CASE UNCHANGED vars
  <2>1. UNCHANGED <<phase, reapply, draft, lookups, store, members, results, requests>>
    BY <1>10 DEF vars, ledgerVars, restoreVars
  <2> QED BY <1>7, <2>1 DEF ReapplyOK
<1>11. CASE ReapplyCommit
  <2>1. /\ reapply = Len(requests) + 1 /\ reapply' = 0
        /\ UNCHANGED <<store, members, results, requests>>
        /\ lookups' = IF \E k \in DOMAIN requests : requests[k].via = "app" THEN {}
                      ELSE lookups \ Of(lookups, UNION {requests[k].records : k \in DOMAIN requests})
    BY <1>11 DEF ReapplyCommit
  <2>2. \A k \in DOMAIN requests : Purged(k)'
    BY <1>1, <1>7, <2>1 DEF ReapplyOK
  <2>3. \A k \in DOMAIN requests : Of(lookups', requests[k].records) = {}
    BY <2>1 DEF Of
  <2> QED BY <1>1, <2>1, <2>2, <2>3 DEF ReapplyOK
<1>12. CASE ReapplyFails \/ Serve
  <2>1. /\ reapply' = 0 /\ UNCHANGED <<store, members, results, lookups, requests>>
        /\ phase' = "reapplied" => phase = "reapplied"
    BY <1>12 DEF ReapplyFails, Serve, ledgerVars
  <2>2. \A k \in DOMAIN requests' : ~(k < reapply') /\ k # reapply'
    BY <1>1, <2>1
  <2>3. ASSUME phase' = "reapplied", NEW k \in DOMAIN requests'
        PROVE  Purged(k)' /\ Of(lookups', requests'[k].records) = {}
    <3>1. k \in DOMAIN requests /\ Purged(k) /\ Of(lookups, requests[k].records) = {}
      BY <2>1, <2>3 DEF ReapplyOK
    <3> QED BY <1>7, <2>1, <3>1
  <2> QED BY <2>2, <2>3 DEF ReapplyOK
<1> QED BY <1>3, <1>4, <1>5, <1>6, <1>8, <1>9, <1>10, <1>11, <1>12, <1>13, <1>14, <1>15 DEF Next, Reapply

-----------------------------------------------------------------------------
(* The metric runs.                                                        *)

\* One run more is in order, unless it is a second replacement.
LEMMA AppendRun ==
  ASSUME NEW acc, RunsInOrder(acc), NEW run, DOMAIN run = RunFields,
         run.manifest => run.source = Len(acc) + 1,
         run.kind = "reapply" =>
           ~\E i \in DOMAIN acc : /\ acc[i].kind = "reapply" /\ acc[i].by = run.by
                                 /\ acc[i].source = run.source
  PROVE  /\ RunsInOrder(Append(acc, run))
         /\ \A i \in DOMAIN acc : i \in DOMAIN Append(acc, run) /\ Append(acc, run)[i] = acc[i]
<1> DEFINE new == Append(acc, run)
           n == Len(acc) + 1
<1>1. PICK S : acc \in Seq(S)
  BY DEF RunsInOrder
<1>2. acc \in Seq(S \cup {run})
  BY <1>1
<1>3. /\ new \in Seq(S \cup {run})
      /\ DOMAIN new = DOMAIN acc \cup {n}
      /\ new[n] = run
      /\ \A i \in DOMAIN acc : new[i] = acc[i]
  BY <1>2
<1> HIDE DEF new, n
<1>4. \A i \in DOMAIN new : DOMAIN new[i] = RunFields /\ (new[i].manifest => new[i].source = i)
  BY <1>3 DEF RunsInOrder, n
<1>5. ASSUME NEW i \in DOMAIN new, NEW j \in DOMAIN new,
             new[i].kind = "reapply", new[j].kind = "reapply",
             new[i].by = new[j].by, new[i].source = new[j].source
      PROVE  i = j
  <2>1. CASE i \in DOMAIN acc /\ j \in DOMAIN acc
    BY <1>3, <1>5, <2>1 DEF RunsInOrder
  <2>2. CASE i = n /\ j # n
    BY <1>3, <1>5, <2>2
  <2>3. CASE j = n /\ i # n
    BY <1>3, <1>5, <2>3
  <2> QED BY <1>3, <2>1, <2>2, <2>3
<1>6. RunsInOrder(new)
  BY <1>3, <1>4, <1>5 DEF RunsInOrder
<1> QED BY <1>3, <1>6 DEF new

\* A replacement is made of its source, for the request, and cannot be replayed.
LEMMA ReplacementFacts ==
  ASSUME NEW k, NEW acc, RunsInOrder(acc), NEW s \in DOMAIN acc
  PROVE  LET run == Replacement(k, acc, s)
         IN /\ DOMAIN run = RunFields
            /\ run.kind = "reapply" /\ run.by = k /\ run.source = acc[s].source /\ ~run.manifest
<1>1. DOMAIN acc[s] = RunFields
  BY DEF RunsInOrder
<1>2. \E to : Replacement(k, acc, s) = [acc[s] EXCEPT !.kind = "reapply", !.by = k, !.at = At(k),
                                                      !.manifest = FALSE, !.supersedes = to]
  BY DEF Replacement
<1> QED BY <1>1, <1>2 DEF RunFields

\* Recalculating a source that is its own keeps the runs in order, and takes none away.
LEMMA RecalculateFacts ==
  ASSUME NEW k, NEW acc, RunsInOrder(acc), NEW s \in DOMAIN acc, acc[s].manifest
  PROVE  LET new == Recalculate(k, acc, s)
         IN RunsInOrder(new) /\ \A i \in DOMAIN acc : i \in DOMAIN new /\ new[i] = acc[i]
<1> DEFINE done == \E i \in DOMAIN acc : acc[i].kind = "reapply" /\ acc[i].by = k /\ acc[i].source = s
           run == Replacement(k, acc, s)
<1>1. CASE done
  BY <1>1 DEF Recalculate
<1>2. CASE ~done
  <2>1. acc[s].source = s
    BY DEF RunsInOrder
  <2>2. DOMAIN run = RunFields /\ run.kind = "reapply" /\ run.by = k /\ run.source = s /\ ~run.manifest
    BY <2>1, ReplacementFacts
  <2> HIDE DEF run
  <2>3. /\ RunsInOrder(Append(acc, run))
        /\ \A i \in DOMAIN acc : i \in DOMAIN Append(acc, run) /\ Append(acc, run)[i] = acc[i]
    BY <1>2, <2>2, AppendRun
  <2>4. Recalculate(k, acc, s) = Append(acc, run)
    BY <1>2 DEF Recalculate, run
  <2> QED BY <2>3, <2>4
<1> QED BY <1>1, <1>2

\* Whoever inserts a run inserts one that fits.
LEMMA RunsStep ==
  ASSUME RunsOK, [Next]_vars
  PROVE  RunsOK'
<1>1. CASE UNCHANGED <<runs, draft>>
  BY <1>1 DEF RunsOK, RunsInOrder
<1>2. NoDraft = [step |-> "purge", runs |-> <<>>, left |-> {}, unsupported |-> FALSE] /\ RunsInOrder(<<>>)
  <2>1. <<>> \in Seq({}) /\ DOMAIN <<>> = {}
    OBVIOUS
  <2> QED BY <2>1 DEF NoDraft, RunsInOrder
<1>3. CASE ReapplyBegin
  <2>1. runs' = runs /\ draft' = [NoDraft EXCEPT !.runs = runs]
    BY <1>3 DEF ReapplyBegin
  <2>2. draft' = [step |-> "purge", runs |-> runs, left |-> {}, unsupported |-> FALSE]
    BY <1>2, <2>1
  <2> QED BY <2>1, <2>2 DEF RunsOK, RunsInOrder
<1>4. CASE ReapplyPurge
  <2> DEFINE left == {i \in DOMAIN draft.runs :
                        draft.runs[i].manifest /\ Touches(draft.runs[i], requests[reapply].records)}
  <2>1. runs' = runs /\ draft' = [draft EXCEPT !.step = "runs", !.left = left]
    BY <1>4 DEF ReapplyPurge
  <2>2. \A i \in left : i \in DOMAIN draft.runs /\ draft.runs[i].manifest
    OBVIOUS
  <2> HIDE DEF left
  <2>3. DOMAIN draft' = DOMAIN draft /\ draft'.runs = draft.runs /\ draft'.left = left
    BY <2>1 DEF RunsOK
  <2> QED BY <2>1, <2>2, <2>3 DEF RunsOK, RunsInOrder
<1>5. ASSUME NEW s \in DOMAIN draft.runs, ReapplyRun(s)
      PROVE  RunsOK'
  <2> DEFINE new == Recalculate(reapply, draft.runs, s)
  <2>1. /\ runs' = runs /\ s \in draft.left
        /\ draft' = [draft EXCEPT !.runs = new, !.left = @ \ {s}]
    BY <1>5 DEF ReapplyRun
  <2>2. RunsInOrder(new) /\ \A i \in DOMAIN draft.runs : i \in DOMAIN new /\ new[i] = draft.runs[i]
    BY <2>1, RecalculateFacts DEF RunsOK
  <2> HIDE DEF new
  <2>3. DOMAIN draft' = DOMAIN draft /\ draft'.runs = new /\ draft'.left = draft.left \ {s}
    BY <2>1 DEF RunsOK
  <2> QED BY <2>1, <2>2, <2>3 DEF RunsOK, RunsInOrder
<1>6. CASE ReapplyCount
  <2>1. /\ runs' = runs /\ DOMAIN draft' = DOMAIN draft /\ draft'.runs = draft.runs
        /\ draft'.left = draft.left
    BY <1>6 DEF ReapplyCount, RunsOK
  <2> QED BY <2>1 DEF RunsOK, RunsInOrder
<1>7. CASE ReapplyCommit \/ ReapplyFails
  <2>1. runs' \in {runs, draft.runs} /\ draft' = NoDraft
    BY <1>7 DEF ReapplyCommit, ReapplyFails
  <2> QED BY <1>2, <2>1 DEF RunsOK, RunsInOrder
<1>8. CASE ExecCommit
  <2>1. draft' = draft /\ \E new \in Replacements(Len(requests) + 1) : runs' = runs \o new
    BY <1>8 DEF ExecCommit, restoreVars
  <2>2. CASE runs' = runs
    BY <1>1, <2>1, <2>2
  <2>3. CASE runs' # runs
    <3>1. PICK i \in DOMAIN runs :
             runs' = runs \o <<[runs[i] EXCEPT !.kind = "deletion", !.by = Len(requests) + 1,
                                   !.supersedes = i, !.at = At(Len(requests) + 1), !.manifest = FALSE]>>
      <4>1. PICK S : runs \in Seq(S)
        BY DEF RunsOK, RunsInOrder
      <4>2. runs \o <<>> = runs
        BY <4>1
      <4> QED BY <2>1, <2>3, <4>2 DEF Replacements
    <3> DEFINE run == [runs[i] EXCEPT !.kind = "deletion", !.by = Len(requests) + 1,
                          !.supersedes = i, !.at = At(Len(requests) + 1), !.manifest = FALSE]
    <3>2. DOMAIN runs[i] = RunFields
      BY DEF RunsOK, RunsInOrder
    <3>3. DOMAIN run = RunFields /\ run.kind = "deletion" /\ ~run.manifest
      BY <3>2 DEF RunFields
    <3>4. runs' = runs \o <<run>>
      BY <3>1
    <3> HIDE DEF run
    <3>5. runs' = Append(runs, run)
      <4>1. PICK S : runs \in Seq(S)
        BY DEF RunsOK, RunsInOrder
      <4>2. runs \in Seq(S \cup {run})
        BY <4>1
      <4> QED BY <3>4, <4>2
    <3>6. RunsInOrder(Append(runs, run))
      BY <3>3, AppendRun DEF RunsOK
    <3>7. RunsInOrder(runs')
      BY <3>5, <3>6
    <3> QED BY <2>1, <3>7 DEF RunsOK, RunsInOrder
  <2> QED BY <2>2, <2>3
<1>9. CASE ComputeRun
  <2> DEFINE run == [kind |-> "source", by |-> 0, source |-> Len(runs) + 1, supersedes |-> 0,
                     at |-> At(Len(requests)) + 1, evidence |-> logical, manifest |-> TRUE]
  <2>1. runs' = Append(runs, run) /\ draft' = draft
    BY <1>9 DEF ComputeRun, restoreVars
  <2>2. DOMAIN run = RunFields /\ run.kind = "source" /\ run.source = Len(runs) + 1
    BY DEF RunFields
  <2> HIDE DEF run
  <2>3. RunsInOrder(Append(runs, run))
    BY <2>2, AppendRun DEF RunsOK
  <2>4. RunsInOrder(runs')
    BY <2>1, <2>3
  <2> QED BY <2>1, <2>4 DEF RunsOK, RunsInOrder
<1>10. CASE Ingest
  BY <1>1, <1>10 DEF Ingest, Select, AppendBatch, Link, MarkProcessed, Persist, DrainFails,
     QueueLookup, restoreVars
<1>13. CASE LookupPass
  BY <1>1, <1>13 DEF LookupPass, SelectRows, LeaveRow, WriteResponse, CommitResult, ResultFails,
     PassDies, restoreVars
<1>11. CASE \/ \E d \in Devices, via \in {"device", "admin", "app"} : ExecBegin(via, d)
            \/ ExecGather \/ ExecPurge \/ RevokeState \/ RevokeSecret \/ ExecFails
  BY <1>1, <1>11 DEF ExecBegin, ExecGather, ExecPurge, RevokeState, RevokeSecret, ExecFails,
     restoreVars
<1>12. CASE Serve \/ TakeSnapshot \/ Restore \/ UNCHANGED vars
  BY <1>1, <1>12 DEF Serve, TakeSnapshot, Restore, vars, restoreVars
<1> QED BY <1>3, <1>4, <1>5, <1>6, <1>7, <1>8, <1>9, <1>10, <1>11, <1>12, <1>13 DEF Next, Execute, Reapply

-----------------------------------------------------------------------------
(* The theorems.                                                           *)

\* The invariant that ties ledger, running and completed requests, and the re-application
\* together is inductive.
THEOREM Invariance == Spec => []PrivacyInv
<1>1. Init => PrivacyInv
  <2> SUFFICES ASSUME Init PROVE PrivacyInv
    OBVIOUS
  <2>1. LedgerOK
    BY DEF Init, LedgerOK, Idle, DrainFields
  <2>2. requests \in Seq({}) /\ DOMAIN requests = {}
    BY DEF Init
  <2>3. RequestsOK
    BY <2>2 DEF RequestsOK, OnlySharedBodiesSurvive
  <2>4. JobOK /\ QuietOK
    BY DEF Init, JobOK, QuietOK
  <2>5. ReapplyOK
    BY <2>2 DEF Init, ReapplyOK
  <2>6. RunsOK
    <3>1. <<>> \in Seq({}) /\ DOMAIN <<>> = {} /\ runs = <<>>
      BY DEF Init
    <3>2. draft = [step |-> "purge", runs |-> <<>>, left |-> {}, unsupported |-> FALSE]
      BY DEF Init, NoDraft
    <3> QED BY <3>1, <3>2 DEF RunsOK, RunsInOrder
  <2> QED BY <2>1, <2>3, <2>4, <2>5, <2>6 DEF PrivacyInv
<1>2. PrivacyInv /\ [Next]_vars => PrivacyInv'
  BY LedgerStep, JobStep, RequestsStep, QuietStep, ReapplyStep, RunsStep DEF PrivacyInv
<1> QED BY <1>1, <1>2, PTL DEF Spec

\* After a deletion the readable bodies of its scope that it has seen are shared ones,
\* for any number of devices, batches and requests (executePrivacyRequest beside the drain).
THEOREM DeletionSafety == Spec => []OnlySharedBodiesSurvive
<1>1. PrivacyInv => OnlySharedBodiesSurvive
  BY DEF PrivacyInv, RequestsOK
<1> QED BY <1>1, Invariance, PTL

\* However often a re-application is interrupted or repeated (recalculateMetrics), a run
\* is replaced once for a request.
THEOREM ReplacementSafety == Spec => []OneReplacementPerRequest
<1>1. PrivacyInv => OneReplacementPerRequest
  BY DEF PrivacyInv, RunsOK, RunsInOrder, OneReplacementPerRequest
<1> QED BY <1>1, Invariance, PTL

\* A restored system serves again only when every completed request holds in what its ledger
\* names (reapplyCompletedPrivacyRequests, interrupted and repeated at will): lookups, readable
\* responses of results and readable bodies that the request alone names are gone.
THEOREM RestoreSafety == Spec => ServesOnlyRedacted
<1> DEFINE Redacted ==
      phase # "serving" /\ phase' = "serving" =>
        \A k \in DOMAIN requests' :
            LET q == requests'[k]
            IN /\ Of(lookups', q.records) = {}
               /\ \A x \in Of(results', q.records) : x.ref \notin store'
               /\ \A b \in Batches :
                    Linked(b) # {} /\ Linked(b) \subseteq q.records => Body(b) \notin store'
<1>1. PrivacyInv /\ [Next]_vars => [Redacted]_vars
  <2> SUFFICES ASSUME PrivacyInv, Next, phase # "serving", phase' = "serving"
               PROVE  Redacted
    BY DEF vars
  <2>1. Serve
    <3>1. CASE Ingest
      BY <3>1 DEF Ingest, Select, AppendBatch, Link, MarkProcessed, Persist, DrainFails,
         QueueLookup, restoreVars
    <3>5. CASE LookupPass
      BY <3>5 DEF LookupPass, SelectRows, LeaveRow, WriteResponse, CommitResult, ResultFails,
         PassDies, restoreVars
    <3>2. CASE Execute
      BY <3>2 DEF Execute, ExecBegin, ExecGather, ExecPurge, ExecCommit, RevokeState,
         RevokeSecret, ExecFails, restoreVars
    <3>3. CASE \/ ReapplyBegin \/ ReapplyPurge \/ ReapplyCount \/ ReapplyCommit \/ ReapplyFails
               \/ \E r \in DOMAIN draft.runs : ReapplyRun(r)
      BY <3>3 DEF ReapplyBegin, ReapplyPurge, ReapplyRun, ReapplyCount, ReapplyCommit, ReapplyFails
    <3>4. CASE ComputeRun \/ TakeSnapshot \/ Restore
      BY <3>4 DEF ComputeRun, TakeSnapshot, Restore, restoreVars
    <3> QED BY <3>1, <3>2, <3>3, <3>4, <3>5 DEF Next, Reapply
  <2>2. phase = "reapplied" /\ UNCHANGED <<requests, store, lookups, results, members>>
    BY <2>1 DEF Serve, ledgerVars
  <2> QED BY <2>2 DEF PrivacyInv, ReapplyOK, Purged
<1>2. Spec => [][Redacted]_vars
  BY <1>1, Invariance, PTL DEF Spec
<1> QED BY <1>2 DEF ServesOnlyRedacted
==============================================================================
