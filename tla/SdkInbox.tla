------------------------------ MODULE SdkInbox ------------------------------
(***************************************************************************)
(* The durable event inbox of one (tenant, app) and the worker that drains *)
(* it: apps/api/src/sdk-routes.ts (handleSdkBatch), apps/runtime/src/      *)
(* ingest-batch.ts (appendDurableBatch), apps/worker/src/sdk-worker.ts     *)
(* (processSdkInbox), the persistence half of apps/worker/src/ingestion.ts *)
(* (ingestRuntimeBatch) and the decisions packages/attribution-core/src/   *)
(* evaluator.ts takes about a set of delivered records.                    *)
(*                                                                         *)
(* The API samples received_at, inserts the batch row (inbox_seq is an     *)
(* identity column, allocated by the INSERT) and commits; requests overlap,*)
(* so the three orders differ.  One worker repeatedly drains the inbox: it *)
(* reads every pending and processed batch, decodes the bodies, evaluates  *)
(* history and pending records together, and then persists what concerns   *)
(* the pending ones in many small transactions, each of which may fail and *)
(* between any two of which the process may die.                           *)
(*                                                                         *)
(* A batch is named by its inbox_seq b, a record by <<b, i>>: its index in *)
(* the body.  record_id is generated by the server, one per delivery, so   *)
(* a resent event is a new record with the same event_id.                  *)
(***************************************************************************)
EXTENDS Naturals, Sequences, FiniteSets

CONSTANTS
    Bodies,         \* the batch bodies senders may post: [inst, recs]
    NoInstallation, \* installation_key_id of a batch of the redirector
    NoClick,        \* click_id of a record that names no click
    None,           \* no row
    MaxBatches,     \* bound: batch rows ever inserted
    MaxOverlap,     \* bound: requests being received at one time
    MaxFaults,      \* bound: worker deaths and failed transactions
    MaxReadFaults   \* bound: payload-store reads that fail

Kinds == {"install", "custom", "withdrawal", "click", "schema_invalid"}
Reasons == {"no_referrer", "unknown_click_id", "ambiguous_click_id",
            "window_expired", "valid_install_referrer"}

ASSUME BodiesAssumption ==
    \A body \in Bodies :
        /\ Len(body.recs) \in Nat \ {0}
        /\ \A i \in 1 .. Len(body.recs) :
              /\ body.recs[i].kind \in Kinds /\ body.recs[i].event # None
              /\ body.recs[i].kind = "click" => body.recs[i].click # NoClick
        /\ \A i, j \in 1 .. Len(body.recs) :
              /\ body.recs[i].event = body.recs[j].event
              /\ "schema_invalid" \notin {body.recs[i].kind, body.recs[j].kind}
              => i = j
        /\ body.inst = NoInstallation =>
              \A i \in 1 .. Len(body.recs) : body.recs[i].kind \in {"click", "schema_invalid"}
ASSUME BoundsAssumption ==
    /\ MaxBatches \in Nat /\ MaxOverlap \in Nat
    /\ MaxFaults \in Nat /\ MaxReadFaults \in Nat
ASSUME NoneAssumption == None \notin Reasons /\ None \notin Seq(Nat)

VARIABLES
    clock,      \* the API's clock: the last received_at handed out
    requests,   \* received requests whose row is not inserted yet: [at, body]
    inbox,      \* ledger.ingest_batches by inbox_seq: [at, inst, recs]
    state,      \* the latest ledger.ingest_batch_states row of each batch
    phase,      \* where the worker is in processSdkInbox
    hist, pend, \* its decoded processed batches and decoded pending batches
    todo,       \* records the current loop of the worker still has to write
    rows,       \* batches the current loop still has to append a state for
    deliveries, \* ledger.event_deliveries, without repeated identical rows
    logical,    \* ledger.logical_events: event_id -> record
    fact,       \* ledger.install_facts: installation -> event_id
    attr,       \* ledger.attribution_results attr:<record_id>: record -> reason
    late,       \* superseding rows attr:<record_id>:late-<digest>
    lookups,    \* ephemeral.adservices_lookups queued, by install record
    members,    \* batches whose ingest_batch_records rows are written
    faults, readFaults

apiVars == <<clock, requests, inbox>>
drainVars == <<hist, pend, todo, rows>>
ledgerVars == <<deliveries, logical, fact, attr, late, lookups, members>>
vars == <<apiVars, state, phase, drainVars, ledgerVars, faults, readFaults>>

-----------------------------------------------------------------------------
(* Records and the order the evaluator sorts them in.                       *)

Events == UNION {{body.recs[i].event : i \in 1 .. Len(body.recs)} : body \in Bodies}
Installs == {body.inst : body \in Bodies} \ {NoInstallation}

RecordsOf(b) == {b} \X (1 .. Len(inbox[b].recs))
RecordsIn(bs) == UNION {RecordsOf(b) : b \in bs}
Rec(r) == inbox[r[1]].recs[r[2]]
Inst(r) == inbox[r[1]].inst

\* Record ids, for the type of the partial functions over them.
RecordIds == UNION {RecordsOf(b) : b \in DOMAIN inbox}

\* sortCandidateAttempts: by received_at, then by record_id, which is random
\* within a batch; a body holds an event once, so there that order decides nothing.
\* The loops of the drain run by received_at, inbox_seq and position.  Two batches
\* never share a received_at here.
Before(r, s) ==
    \/ inbox[r[1]].at < inbox[s[1]].at
    \/ r[1] = s[1] /\ r[2] < s[2]

\* authoritativeSequence: inbox_seq * 1000 + index.
SeqAtOrAfter(r, w) == r[1] > w[1] \/ (r[1] = w[1] /\ r[2] >= w[2])

-----------------------------------------------------------------------------
(* evaluate(): the decisions about the records of the decoded batches D.   *)

\* withdrawalsFor keeps one entry per installation, the last one it meets.
Withdrawals(inst, D) ==
    {w \in RecordsIn({b \in D : inbox[b].inst = inst}) : Rec(w).kind = "withdrawal"}
LastWithdrawal(inst, D) ==
    CHOOSE w \in Withdrawals(inst, D) :
        \A v \in Withdrawals(inst, D) : v = w \/ Before(v, w)

\* Mutants of ConsentWithdrawn: history forgotten; arrival order for sequence.
ConsentWithdrawnInDrain(r, D) ==
    /\ Rec(r).kind \in {"install", "custom"}
    /\ Inst(r) # NoInstallation
    /\ Withdrawals(Inst(r), pend) # {}
    /\ SeqAtOrAfter(r, LastWithdrawal(Inst(r), pend))
ConsentWithdrawnByArrival(r, D) ==
    /\ Rec(r).kind \in {"install", "custom"}
    /\ Inst(r) # NoInstallation
    /\ Withdrawals(Inst(r), D) # {}
    /\ Before(LastWithdrawal(Inst(r), D), r)

\* consentDecision: control events pass, and so does whatever has a sequence
\* below the recognised withdrawal's.
ConsentWithdrawn(r, D) ==
    /\ Rec(r).kind \in {"install", "custom"}
    /\ Inst(r) # NoInstallation
    /\ Withdrawals(Inst(r), D) # {}
    /\ SeqAtOrAfter(r, LastWithdrawal(Inst(r), D))

\* The records that reach evaluate(): schema-invalid ones are set aside.
Valid(D) == {r \in RecordsIn(D) : Rec(r).kind # "schema_invalid"}

\* Mutant of First: the latest delivery is canonical.
FirstIsLatest(r, D) ==
    CHOOSE s \in Valid(D) :
        /\ Rec(s).event = Rec(r).event
        /\ \A t \in Valid(D) : Rec(t).event = Rec(r).event => t = s \/ Before(t, s)

\* The delivery every other delivery of the event is compared with.
First(r, D) ==
    CHOOSE s \in Valid(D) :
        /\ Rec(s).event = Rec(r).event
        /\ \A t \in Valid(D) : Rec(t).event = Rec(r).event => t = s \/ Before(s, t)

Resolution(r, D) ==
    IF First(r, D) = r THEN "unique"
    ELSE IF Rec(First(r, D)).payload = Rec(r).payload THEN "duplicate_delivery"
    ELSE "event_id_conflict"

\* decide(): the row of event_deliveries for one record.
Decision(r, D) ==
    IF Rec(r).kind = "schema_invalid"
    THEN [rec |-> r, status |-> "schema_invalid", resolution |-> "unique", canonical |-> None]
    ELSE [rec |-> r,
          status |-> IF ConsentWithdrawn(r, D) THEN "consent_withdrawn"
                     ELSE IF Resolution(r, D) = "event_id_conflict" THEN "event_id_conflict"
                     ELSE "accepted",
          resolution |-> Resolution(r, D),
          canonical |-> First(r, D)]

AcceptedUnique(D) ==
    {r \in Valid(D) : Decision(r, D).status = "accepted" /\ Decision(r, D).resolution = "unique"}

\* assertInstallationAnchors throws when two accepted installs name one
\* installation; the whole evaluation is then lost.
AnchorsOK(D) ==
    \A r, s \in AcceptedUnique(D) :
        Rec(r).kind = "install" /\ Rec(s).kind = "install" /\ Inst(r) = Inst(s) => r = s

Clicks(r, D) ==
    {k \in AcceptedUnique(D) : Rec(k).kind = "click" /\ Rec(k).click = Rec(r).click}

\* makeAttribution, for an install whose referrer may name a click.
Reason(r, D) ==
    IF Rec(r).click = NoClick THEN "no_referrer"
    ELSE IF Clicks(r, D) = {} THEN "unknown_click_id"
    ELSE IF Cardinality(Clicks(r, D)) > 1 THEN "ambiguous_click_id"
    ELSE IF \A k \in Clicks(r, D) : Rec(k).inWindow THEN "valid_install_referrer"
    ELSE "window_expired"

\* Mutant of Attributions: the installs of the drain only.
AttributionsOfPending(H, P) ==
    {r \in AcceptedUnique(H \cup P) : Rec(r).kind = "install" /\ r[1] \in P}

\* belongsToCurrent: attributions of a pending install, and those whose
\* evidence names a pending click (only a valid one is evidence).
Attributions(H, P) ==
    {r \in AcceptedUnique(H \cup P) :
        /\ Rec(r).kind = "install"
        /\ \/ r[1] \in P
           \/ /\ Reason(r, H \cup P) = "valid_install_referrer"
              /\ \E k \in Clicks(r, H \cup P) : k[1] \in P}

\* Mutant of TokenInstalls: repeated deliveries queue a lookup too.
TokenDeliveries(H, P) ==
    {r \in Valid(P) : Rec(r).kind = "install" /\ Rec(r).token
                       /\ Decision(r, H \cup P).status = "accepted"}

\* The installs of the drain whose token is to be looked up.
TokenInstalls(H, P) ==
    {r \in AcceptedUnique(H \cup P) :
        r[1] \in P /\ Rec(r).kind = "install" /\ Rec(r).token}

-----------------------------------------------------------------------------
(* The API.                                                                *)

Uncommitted == {b \in DOMAIN state : state[b] = "uncommitted"}

\* handleSdkBatch after authentication: received_at is taken, then the body is
\* written to the payload store.  The redirector appends the same way.
Receive(body) ==
    /\ Cardinality(requests) + Len(inbox) < MaxBatches
    /\ Cardinality(requests) + Cardinality(Uncommitted) < MaxOverlap
    /\ clock' = clock + 1
    /\ requests' = requests \cup {[at |-> clock + 1, body |-> body]}
    /\ UNCHANGED <<inbox, state, phase, drainVars, ledgerVars, faults, readFaults>>

\* appendDurableBatch's transaction: the INSERT allocates inbox_seq.
Insert(q) ==
    /\ q \in requests
    /\ requests' = requests \ {q}
    /\ inbox' = Append(inbox, [at |-> q.at, inst |-> q.body.inst, recs |-> q.body.recs])
    /\ state' = Append(state, "uncommitted")
    /\ UNCHANGED <<clock, phase, drainVars, ledgerVars, faults, readFaults>>

\* The commit makes the batch and its 'pending' state visible; the sender gets 202.
Commit(b) ==
    /\ state[b] = "uncommitted"
    /\ state' = [state EXCEPT ![b] = "pending"]
    /\ UNCHANGED <<apiVars, phase, drainVars, ledgerVars, faults, readFaults>>

\* The transaction fails: the row is gone, the body is purged, the sender gets
\* an error and may send the events again.
Abort(b) ==
    /\ faults < MaxFaults
    /\ state[b] = "uncommitted"
    /\ state' = [state EXCEPT ![b] = "aborted"]
    /\ faults' = faults + 1
    /\ UNCHANGED <<apiVars, phase, drainVars, ledgerVars, readFaults>>

-----------------------------------------------------------------------------
(* The worker's drain.                                                     *)

\* Mutants of Select: the processed batches are not read; failed ones are retried.
SelectPendingOnly ==
    /\ phase = "idle"
    /\ \E b \in DOMAIN state : state[b] = "pending"
    /\ phase' = "decode"
    /\ hist' = {}
    /\ pend' = {b \in DOMAIN state : state[b] = "pending"}
    /\ UNCHANGED <<apiVars, state, todo, rows, ledgerVars, faults, readFaults>>
SelectAlsoFailed ==
    /\ phase = "idle"
    /\ \E b \in DOMAIN state : state[b] = "pending"
    /\ phase' = "decode"
    /\ hist' = {b \in DOMAIN state : state[b] = "processed"}
    /\ pend' = {b \in DOMAIN state : state[b] \in {"pending", "failed"}}
    /\ UNCHANGED <<apiVars, state, todo, rows, ledgerVars, faults, readFaults>>

\* SELECT ... FROM ingest_batches_current WHERE status IN ('pending','processed').
Select ==
    /\ phase = "idle"
    /\ \E b \in DOMAIN state : state[b] = "pending"
    /\ phase' = "decode"
    /\ hist' = {b \in DOMAIN state : state[b] = "processed"}
    /\ pend' = {b \in DOMAIN state : state[b] = "pending"}
    /\ UNCHANGED <<apiVars, state, todo, rows, ledgerVars, faults, readFaults>>

\* recordsFor throws: the body cannot be read, was purged by a privacy deletion or
\* does not have its digest.  A pending batch is failed for good, a processed one
\* silently drops out of the history.
LoseBody(b) ==
    /\ phase = "decode"
    /\ readFaults < MaxReadFaults
    /\ readFaults' = readFaults + 1
    /\ b \in pend \cup hist
    /\ pend' = pend \ {b}
    /\ hist' = hist \ {b}
    /\ state' = IF b \in pend THEN [state EXCEPT ![b] = "failed"] ELSE state
    /\ UNCHANGED <<apiVars, phase, todo, rows, ledgerVars, faults>>

\* Mutant of ToPersist: the schema-invalid records are not recorded.
ToPersistValid(P) == Valid(P)

\* Every record of the drain gets its delivery row, the schema-invalid ones too.
ToPersist(P) == RecordsIn(P)

\* evaluate() over history and pending; a throw enters the catch block with
\* nothing persisted.
Evaluate ==
    /\ phase = "decode"
    /\ hist' = IF pend = {} THEN {} ELSE hist
    /\ IF pend = {} THEN phase' = "idle" /\ UNCHANGED <<todo, rows>>
       ELSE IF AnchorsOK(hist \cup pend)
       THEN phase' = "persist" /\ todo' = ToPersist(pend) /\ UNCHANGED rows
       ELSE phase' = "fail" /\ rows' = pend /\ UNCHANGED todo
    /\ UNCHANGED <<apiVars, state, pend, ledgerVars, faults, readFaults>>

\* The catch block of processSdkInbox: every batch of this drain will be failed.
Caught ==
    /\ phase' = "fail"
    /\ todo' = {}
    /\ rows' = pend

IsNext(r) == r \in todo /\ \A s \in todo : s = r \/ Before(r, s)

\* install_facts is UNIQUE per installation: an install of another event that an
\* earlier, failed drain left behind makes the insert throw.
FactConflict(r, d) ==
    /\ d.status = "accepted" /\ d.resolution = "unique"
    /\ Rec(r).kind = "install"
    /\ fact[Inst(r)] \notin {None, Rec(r).event}

\* One transaction per attempt: delivery row, and for an accepted unique record
\* the logical event (ON CONFLICT DO NOTHING) and its projected fact.
PersistRecord(r) ==
    LET d == Decision(r, hist \cup pend)
        new == d.status = "accepted" /\ d.resolution = "unique"
    IN
    /\ phase = "persist"
    /\ IsNext(r)
    /\ ~FactConflict(r, d)
    /\ todo' = todo \ {r}
    /\ deliveries' = deliveries \cup {d}
    /\ logical' = IF new /\ logical[Rec(r).event] = None
                  THEN [logical EXCEPT ![Rec(r).event] = r] ELSE logical
    /\ fact' = IF new /\ Rec(r).kind = "install"
               THEN [fact EXCEPT ![Inst(r)] = Rec(r).event] ELSE fact
    /\ UNCHANGED <<apiVars, state, phase, hist, pend, rows, attr, late, lookups,
                   members, faults, readFaults>>

PersistConflict(r) ==
    /\ phase = "persist"
    /\ IsNext(r)
    /\ FactConflict(r, Decision(r, hist \cup pend))
    /\ Caught
    /\ UNCHANGED <<apiVars, state, hist, pend, ledgerVars, faults, readFaults>>

\* A loop of the drain is exhausted and the next one starts.
NextLoop ==
    /\ todo = {}
    /\ \/ phase = "persist" /\ phase' = "attribute"
          /\ todo' = Attributions(hist, pend) /\ UNCHANGED rows
       \/ phase = "attribute" /\ phase' = "late"
          /\ todo' = Attributions(hist, pend) /\ UNCHANGED rows
       \/ phase = "late" /\ phase' = "queue"
          /\ todo' = TokenInstalls(hist, pend) /\ UNCHANGED rows
       \/ phase = "queue" /\ phase' = "mark" /\ rows' = pend /\ UNCHANGED todo
    /\ UNCHANGED <<apiVars, state, hist, pend, ledgerVars, faults, readFaults>>

\* Mutant of PersistAttribution: ON CONFLICT DO UPDATE.
UpsertAttribution(r) ==
    /\ phase = "attribute"
    /\ r \in todo
    /\ todo' = todo \ {r}
    /\ attr' = [s \in DOMAIN attr \cup {r} |->
                  IF s = r THEN Reason(r, hist \cup pend) ELSE attr[s]]
    /\ UNCHANGED <<apiVars, state, phase, hist, pend, rows, deliveries, logical, fact,
                   late, lookups, members, faults, readFaults>>

\* persistAttribution: ON CONFLICT (attribution_id) DO NOTHING.
PersistAttribution(r) ==
    /\ phase = "attribute"
    /\ r \in todo
    /\ todo' = todo \ {r}
    /\ attr' = IF r \in DOMAIN attr THEN attr
               ELSE [s \in DOMAIN attr \cup {r} |->
                       IF s = r THEN Reason(r, hist \cup pend) ELSE attr[s]]
    /\ UNCHANGED <<apiVars, state, phase, hist, pend, rows, deliveries, logical, fact,
                   late, lookups, members, faults, readFaults>>

\* persistLateAttribution: a valid referrer found later supersedes the stored row.
PersistLate(r) ==
    /\ phase = "late"
    /\ r \in todo
    /\ todo' = todo \ {r}
    /\ late' = IF /\ r \in DOMAIN attr
                  /\ attr[r] # Reason(r, hist \cup pend)
                  /\ Reason(r, hist \cup pend) = "valid_install_referrer"
               THEN late \cup {r} ELSE late
    /\ UNCHANGED <<apiVars, state, phase, hist, pend, rows, deliveries, logical, fact,
                   attr, lookups, members, faults, readFaults>>

\* queueAdServicesLookup: ON CONFLICT DO NOTHING.
QueueLookup(r) ==
    /\ phase = "queue"
    /\ r \in todo
    /\ todo' = todo \ {r}
    /\ lookups' = lookups \cup {r}
    /\ UNCHANGED <<apiVars, state, phase, hist, pend, rows, deliveries, logical, fact,
                   attr, late, members, faults, readFaults>>

\* The loop over the batches writes in drain order.
IsNextRow(b) == b \in rows /\ \A c \in rows : c = b \/ inbox[b].at < inbox[c].at

\* INSERT INTO ingest_batch_records, ON CONFLICT DO NOTHING.
LinkRecords(b) ==
    /\ phase = "mark"
    /\ IsNextRow(b)
    /\ b \notin members
    /\ members' = members \cup {b}
    /\ UNCHANGED <<apiVars, state, phase, drainVars, deliveries, logical, fact, attr,
                   late, lookups, faults, readFaults>>

AppendProcessed(b) ==
    /\ phase = "mark"
    /\ IsNextRow(b)
    /\ b \in members
    /\ rows' = rows \ {b}
    /\ state' = [state EXCEPT ![b] = "processed"]
    /\ UNCHANGED <<apiVars, phase, hist, pend, todo, ledgerVars, faults, readFaults>>

\* Mutant of AppendFailed: the batches stay pending, to be retried.
AppendNothing(b) ==
    /\ phase = "fail"
    /\ IsNextRow(b)
    /\ rows' = rows \ {b}
    /\ UNCHANGED <<apiVars, state, phase, hist, pend, todo, ledgerVars, faults, readFaults>>

\* The catch block appends 'failed' to every batch of the drain, also to the
\* ones the mark loop had already reached.
AppendFailed(b) ==
    /\ phase = "fail"
    /\ IsNextRow(b)
    /\ rows' = rows \ {b}
    /\ state' = [state EXCEPT ![b] = "failed"]
    /\ UNCHANGED <<apiVars, phase, hist, pend, todo, ledgerVars, faults, readFaults>>

\* processSdkInbox returns, or rethrows out of the tick; the next poll starts over.
Finish ==
    /\ phase \in {"mark", "fail"}
    /\ rows = {}
    /\ phase' = "idle"
    /\ hist' = {} /\ pend' = {} /\ todo' = {} /\ UNCHANGED rows
    /\ UNCHANGED <<apiVars, state, ledgerVars, faults, readFaults>>

\* A transaction inside the try block fails.
TransactionFails ==
    /\ faults < MaxFaults
    /\ phase \in {"persist", "attribute", "late", "queue", "mark"}
    /\ Caught
    /\ faults' = faults + 1
    /\ UNCHANGED <<apiVars, state, hist, pend, ledgerVars, readFaults>>

\* The worker dies and is restarted, or a transaction outside the try block or in
\* the catch block fails: nothing but the committed rows survives.
Crash ==
    /\ faults < MaxFaults
    /\ phase # "idle"
    /\ phase' = "idle"
    /\ hist' = {} /\ pend' = {} /\ todo' = {} /\ rows' = {}
    /\ faults' = faults + 1
    /\ UNCHANGED <<apiVars, state, ledgerVars, readFaults>>

-----------------------------------------------------------------------------
Init ==
    /\ clock = 0
    /\ requests = {}
    /\ inbox = <<>>
    /\ state = <<>>
    /\ phase = "idle"
    /\ hist = {} /\ pend = {} /\ todo = {} /\ rows = {}
    /\ deliveries = {}
    /\ logical = [e \in Events |-> None]
    /\ fact = [i \in Installs |-> None]
    /\ attr = [r \in {} |-> None]
    /\ late = {} /\ lookups = {} /\ members = {}
    /\ faults = 0 /\ readFaults = 0

Api ==
    \/ \E body \in Bodies : Receive(body)
    \/ \E q \in requests : Insert(q)
    \/ \E b \in DOMAIN state : Commit(b) \/ Abort(b)

Drain ==
    \/ Select \/ Evaluate \/ NextLoop \/ Finish
    \/ \E b \in DOMAIN state :
        \/ LinkRecords(b) \/ AppendProcessed(b) \/ AppendFailed(b)
    \/ \E r \in todo :
        \/ PersistRecord(r) \/ PersistConflict(r)
        \/ PersistAttribution(r) \/ PersistLate(r) \/ QueueLookup(r)

Faults ==
    \/ \E b \in DOMAIN state : LoseBody(b)
    \/ TransactionFails
    \/ Crash

Next == Api \/ Drain \/ Faults

\* The worker is polled for ever (setInterval) and a transaction that was started
\* ends; senders and faults are under no obligation.
Fairness ==
    /\ WF_vars(Drain)
    /\ WF_vars(\E b \in DOMAIN state : Commit(b))

Spec == Init /\ [][Next]_vars
FairSpec == Spec /\ Fairness

-----------------------------------------------------------------------------
(* What the inbox promises.                                                *)

Committed == {b \in DOMAIN state : state[b] \in {"pending", "processed", "failed"}}
ReceivedInOrder == \A b, c \in DOMAIN inbox : b < c => inbox[b].at < inbox[c].at
NothingFailed == \A b \in DOMAIN state : state[b] # "failed"
ConsentRequired(r) == Rec(r).kind \in {"install", "custom"} /\ Inst(r) # NoInstallation

BatchRows ==
    [at : Nat, inst : {body.inst : body \in Bodies}, recs : {body.recs : body \in Bodies}]
States == {"uncommitted", "aborted", "pending", "processed", "failed"}
Phases == {"idle", "decode", "persist", "attribute", "late", "queue", "mark", "fail"}

ApiTypeOK ==
    /\ clock \in Nat
    /\ requests \subseteq [at : Nat, body : Bodies]
    /\ inbox \in Seq(BatchRows)
    /\ state \in Seq(States)
    /\ Len(state) = Len(inbox)
DrainTypeOK ==
    /\ phase \in Phases
    /\ hist \subseteq DOMAIN state /\ pend \subseteq DOMAIN state /\ rows \subseteq pend
    /\ todo \subseteq RecordIds
    /\ faults \in 0 .. MaxFaults /\ readFaults \in 0 .. MaxReadFaults
LedgerTypeOK ==
    /\ \A d \in deliveries : d.rec \in RecordIds
    /\ logical \in [Events -> RecordIds \cup {None}]
    /\ fact \in [Installs -> Events \cup {None}]
    /\ DOMAIN attr \subseteq RecordIds /\ \A r \in DOMAIN attr : attr[r] \in Reasons
    /\ late \subseteq RecordIds /\ lookups \subseteq RecordIds
    /\ members \subseteq DOMAIN state
TypeOK == ApiTypeOK /\ DrainTypeOK /\ LedgerTypeOK

\* A batch is marked processed only after every one of its records has its
\* delivery row, whatever crashes and failed transactions came between the
\* per-record transactions and the state row (processSdkInbox).
ProcessedIsDurable ==
    \A b \in DOMAIN state : state[b] = "processed" =>
        \A r \in RecordsOf(b) : \E d \in deliveries : d.rec = r

\* The inductive strengthening of ProcessedIsDurable and FailedIsFinal: once the
\* records of the drain are evaluated each is still to be written or written, from
\* the attribution loop on all are written, and no batch of a drain is failed
\* before the catch block.  Rows are left only by the loops that write states.
Delivered(r) == \E d \in deliveries : d.rec = r
PersistCoversDrain ==
    phase = "persist" => \A b \in pend : \A r \in RecordsOf(b) : r \in todo \/ Delivered(r)
DrainIsDelivered ==
    phase \in {"attribute", "late", "queue", "mark"} =>
        \A b \in pend : \A r \in RecordsOf(b) : Delivered(r)
DrainIsUnfailed ==
    phase \in {"decode", "persist", "attribute", "late", "queue", "mark"} =>
        \A b \in pend : state[b] \in {"pending", "processed"}
RowsInLastLoop == phase \notin {"mark", "fail"} => rows = {}
InboxInv ==
    /\ TypeOK /\ ProcessedIsDurable /\ RowsInLastLoop
    /\ PersistCoversDrain /\ DrainIsDelivered /\ DrainIsUnfailed

\* The installation sent one withdrawal at most: with a second one, withdrawalsFor
\* forgets the first, and what lies between them is decided differently again.
WithdrawsOnce(inst) == \A v, w \in Withdrawals(inst, Committed) : v = w

\* No batch was failed, and no body of an earlier batch was missing in a drain.
NothingLost == NothingFailed /\ readFaults = 0

\* An event_id is generated with its event, so that whatever repeats it with the
\* same payload is the same event of the same installation.
EventsAreResent ==
    \A p, q \in Bodies : \A i \in 1 .. Len(p.recs), j \in 1 .. Len(q.recs) :
        /\ p.recs[i].event = q.recs[j].event /\ p.recs[i].payload = q.recs[j].payload
        /\ "schema_invalid" \notin {p.recs[i].kind, q.recs[j].kind}
        => p.recs[i].kind = q.recs[j].kind /\ p.inst = q.inst

\* A failed batch that took part in the decision about r.
DecidedWithFailed(r) ==
    \E s \in RecordsIn({b \in DOMAIN state : state[b] = "failed"}) :
        Rec(s).event = Rec(r).event \/ (Rec(s).kind = "withdrawal" /\ Inst(s) = Inst(r))

\* A delivery the worker accepted, as the first of its event or as a repetition,
\* has its logical event: a repetition is never resolved to a delivery that was
\* itself refused.  It needs that batches were inserted in the order in which they
\* were received, as they are unless requests overlap, that the installation
\* withdrew at most once and that no body was lost; when the batch of a withdrawal
\* or of another delivery of the event is failed, a delivery that was refused
\* because of it stays refused and its repetition is accepted as its duplicate.
AcceptedIsLogical ==
    \A d \in deliveries :
        (/\ ReceivedInOrder /\ readFaults = 0
         /\ d.status = "accepted"
         /\ WithdrawsOnce(Inst(d.rec)) /\ ~DecidedWithFailed(d.rec))
        => logical[Rec(d.rec).event] # None

\* A drain repeated after a crash decides every record as the drain that died
\* did, although more batches have arrived since (evaluate is a function of the
\* records ordered by received_at, and later arrivals sort last).  It needs that
\* requests do not overlap, that no batch was failed or lost in between, and that
\* the installation withdrew at most once.
ReplayIsDeterministic ==
    NothingLost =>
        \A c, d \in deliveries :
            c.rec = d.rec /\ WithdrawsOnce(Inst(c.rec)) => c = d

\* An installation has one original attribution row, whatever is resent and
\* whatever drain is repeated; anything newer supersedes it explicitly.  It needs
\* that requests do not overlap and that no batch was failed or lost.
OneAttributionPerInstallation ==
    NothingLost =>
        \A r, s \in DOMAIN attr : Inst(r) = Inst(s) => r = s

\* Every lookup that was queued can be answered: installAttribution of
\* adservices-worker.ts finds the install's own logical event, its fact and an
\* attribution row of the installation.  A lookup it does not find can never be
\* completed.  It needs that requests do not overlap and that no batch was failed
\* or lost.
LookupsAreResolvable ==
    NothingLost =>
        \A r \in lookups :
            /\ logical[Rec(r).event] = r
            /\ fact[Inst(r)] = Rec(r).event
            /\ \E s \in DOMAIN attr : Inst(s) = Inst(r)

\* Late-click recovery (M2-D-16): once the install and the only click it names
\* are processed, its attribution is valid_install_referrer, either at once or
\* through a superseding row, in whichever order and in whichever drains the
\* two were evaluated, and whatever other batches were failed.  It needs that
\* requests do not overlap, that no body was lost and, when a batch was failed,
\* that the installation withdrew at most once.
LateClickRecovered ==
    \A e \in Events : \A k \in RecordsIn(Committed) :
        LET r == logical[e] IN
        (/\ r # None /\ Rec(r).kind = "install" /\ state[r[1]] = "processed"
         /\ Rec(k).kind = "click" /\ Rec(k).inWindow /\ Rec(k).click = Rec(r).click
         /\ logical[Rec(k).event] = k /\ state[k[1]] = "processed"
         /\ readFaults = 0 /\ (NothingFailed \/ WithdrawsOnce(Inst(r)))
         /\ \A j \in RecordsIn(Committed) :
                Rec(j).kind = "click" /\ Rec(j).click = Rec(r).click => Rec(j).event = Rec(k).event)
        => attr[r] = "valid_install_referrer" \/ r \in late

\* A record accepted by a step has no withdrawal of its installation at or below
\* its sequence among the batches already processed.
NewAcceptanceRespects(inst, withdrawals) ==
    \A d \in deliveries' \ deliveries :
        d.status = "accepted" /\ ConsentRequired(d.rec) /\ Inst(d.rec) = inst =>
            \A w \in withdrawals : ~SeqAtOrAfter(d.rec, w)
Processed == {b \in DOMAIN state : state[b] = "processed"}

\* Once a drain has recognised the withdrawal of an installation, nothing that needs
\* the consent and was inserted after it is accepted any more, whatever the order of
\* receipt and of commit, while the inbox holds one withdrawal of the installation: a
\* second one replaces the first in withdrawalsFor, and events between them pass.  It
\* needs that no body of an earlier batch was missing when the drain was evaluated.
SoleWithdrawalRespected ==
    [][\A inst \in Installs :
         readFaults = 0 /\ WithdrawsOnce(inst) =>
            NewAcceptanceRespects(inst, Withdrawals(inst, Processed))]_vars

\* A failed batch is never picked up again, by a later drain or by the rest of
\* the drain that failed it.
FailedIsFinal ==
    [][\A b \in DOMAIN state : state[b] = "failed" => state'[b] = "failed"]_vars

\* Committed ledger rows are never rewritten: a re-evaluation adds rows.
LedgerIsAppendOnly ==
    [][/\ deliveries \subseteq deliveries'
       /\ \A e \in Events : logical[e] # None => logical'[e] = logical[e]
       /\ \A i \in Installs : fact[i] # None => fact'[i] = fact[i]
       /\ \A r \in DOMAIN attr : r \in DOMAIN attr' /\ attr'[r] = attr[r]]_vars

\* Every committed batch is eventually processed or failed: no batch stays
\* pending behind a drain that keeps dying.
EveryBatchSettles ==
    \A b \in 1 .. MaxBatches :
        (b \in DOMAIN state /\ state[b] = "pending")
            ~> (b \in DOMAIN state /\ state[b] \in {"processed", "failed"})
=============================================================================
