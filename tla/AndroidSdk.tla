----------------------------- MODULE AndroidSdk -----------------------------
(***************************************************************************)
(* The Android SDK of one device (sdk/android/core) and the three routes   *)
(* of the API it calls: enrolment, event batch and on-device deletion.     *)
(*                                                                         *)
(* Calls of the host application submit tasks to a single-threaded         *)
(* executor.  Two threads may drain the queue at the same time: the        *)
(* executor, and the worker WorkManager starts for the backstop, which     *)
(* opens its own OpenMasuSdk over the same preferences and database.  The  *)
(* process may be killed at any moment; preferences, database and the work *)
(* request survive.  A request may be executed and its answer lost, or be  *)
(* executed after the device has stopped waiting for it.                   *)
(*                                                                         *)
(* Installation identifiers and event identifiers are random: they are     *)
(* numbered here in the order in which they are generated.  The server     *)
(* keeps one credential per identifier for good (UNIQUE on its digest), so *)
(* a credential is named by the identifier it was issued for.              *)
(***************************************************************************)
EXTENDS Naturals, Sequences, FiniteSets

CONSTANTS
    Calls,          \* which API calls the host application makes
    Plays,          \* what the Play referrer service may say
    BatchLimit,     \* events per delivery (100)
    MaxCalls,       \* bound: calls that may enqueue events
    MaxJobs,        \* bound: tasks waiting for the executor
    RowIds,         \* bound: the rows BackstopDelivers is about, by number
    MaxFaults,      \* bound: refusals and lost or late answers
    MaxKills        \* bound: deaths of the process

ASSUME CallsAssumption == Calls \subseteq {"measure", "revenue", "consent", "collection", "reset"}
ASSUME PlaysAssumption == Plays # {} /\ Plays \subseteq {"retry", "plain", "deferred"}
ASSUME BoundsAssumption ==
    /\ RowIds \subseteq Nat
    /\ BatchLimit \in Nat \ {0} /\ MaxCalls \in Nat /\ MaxJobs \in Nat \ {0}
    /\ MaxFaults \in Nat /\ MaxKills \in Nat

VARIABLES
    \* SharedPreferences, committed synchronously
    installation,   \* the identifier in use; 0 when none was generated
    credential,     \* the identifier the stored credential was issued for, or 0
    sequence,       \* processing_sequence
    enabled,        \* collection_enabled
    referrerConsumed, destinationConsumed, configured,
    queue,          \* rows of queued_events
    work,           \* the unique WorkManager request: none, enqueued or running
    \* the process
    initialized, jobs,
    pc,             \* where each thread is
    who,            \* the identifier each thread enrols or deletes
    held,           \* the credential each thread has read
    batch,          \* the rows each thread has selected
    call,           \* the request each thread waits for: none, sent, yes or no
    play,           \* what the Play referrer said: retry, plain or deferred
    \* the server and the network
    active, deleted,    \* identifiers with an active or a deleted credential
    received,       \* events of accepted batches
    late,           \* requests nobody waits for any more
    \* history
    generated,      \* event identifiers generated
    enqueued,       \* every row ever inserted
    purged,         \* rows removed by a change of consent
    forgotten,      \* rows removed by a reset
    calls, faults, kills

prefs == <<installation, credential, sequence, enabled, referrerConsumed,
           destinationConsumed, configured>>
keys == <<active, deleted>>
server == <<active, deleted, received, late>>
history == <<generated, enqueued, purged, forgotten>>
bounds == <<calls, faults, kills>>
vars == <<prefs, queue, work, initialized, jobs, pc, who, held, batch, call, play,
          server, history, bounds>>

Threads == {"executor", "worker"}
Waiting == {"enrolling", "delivering", "deleting", "resetEnrolling"}
Draining == {"check", "credential", "ensure", "enrolling", "select", "delivering", "count"}
Pcs == Waiting \cup Draining \cup
    {"idle", "install", "open", "consume", "referrer",
     "clearQueue", "clearPrefs", "replace", "resetEnsure", "resetInstall"}

\* storage.installationId() generates the first identifier when it is first asked for.
Known == IF installation = 0 THEN 1 ELSE installation
ConsentRequired(e) == e.name # "consent_changed"

-----------------------------------------------------------------------------
(* Shared steps *)

Goto(t, next) == pc' = [pc EXCEPT ![t] = next]

\* enqueueJson: nothing is queued while collection is off, consent events excepted.
\* nextSequence commits before the insert; a death between the two only skips a number.
EnqueueOver(rows, name, i) ==
    LET e == [id |-> generated, name |-> name, inst |-> i, seq |-> sequence + 1]
    IN IF enabled \/ name = "consent_changed"
       THEN /\ queue' = rows \cup {e}
            /\ enqueued' = enqueued \cup {e}
            /\ generated' = generated + 1
            /\ sequence' = sequence + 1
       ELSE queue' = rows /\ UNCHANGED <<enqueued, generated, sequence>>
Enqueue(name, i) == EnqueueOver(queue, name, i)

\* scheduleBackstop: ExistingWorkPolicy.KEEP ignores the request while an earlier one
\* is enqueued or running.
Scheduled(w) == IF w = "none" THEN "enqueued" ELSE w

\* Mutant of Leave: the worker reports success whatever drain() returned.
LeaveSucceeding(t, ok, w) ==
    /\ Goto(t, "idle")
    /\ batch' = [batch EXCEPT ![t] = {}]
    /\ who' = [who EXCEPT ![t] = 0]
    /\ held' = [held EXCEPT ![t] = 0]
    /\ work' = IF t = "executor" THEN w ELSE "none"

\* The thread leaves drain() with a result.  The executor takes its next task; for
\* DeliveryWorker true is Result.success() and false Result.retry().
Leave(t, ok, w) ==
    /\ Goto(t, "idle")
    /\ batch' = [batch EXCEPT ![t] = {}]
    /\ who' = [who EXCEPT ![t] = 0]
    /\ held' = [held EXCEPT ![t] = 0]
    /\ work' = IF t = "executor" THEN w ELSE IF ok THEN "none" ELSE "enqueued"

\* A request of a thread, as the server sees it.
RequestOf(t) == [kind |-> pc[t], who |-> who[t], key |-> held[t], events |-> batch[t]]

-----------------------------------------------------------------------------
(* Calls of the host application *)

Submit(kind, i) ==
    /\ Len(jobs) < MaxJobs
    /\ jobs' = Append(jobs, [kind |-> kind, inst |-> i])

Counted == calls < MaxCalls /\ calls' = calls + 1

\* initialize()
Initialize ==
    /\ ~initialized
    /\ initialized' = TRUE
    /\ configured' = TRUE
    /\ IF enabled THEN Submit("init", 0) ELSE UNCHANGED jobs
    /\ UNCHANGED <<installation, credential, sequence, enabled, referrerConsumed,
                   destinationConsumed, queue, work, pc, who, held, batch, call, play, server,
                   history, bounds>>

\* trackCustomEvent(), startSession() and handleDeepLink(): the identifier is read later,
\* by the task.
Measure ==
    /\ "measure" \in Calls
    /\ enabled
    /\ Counted
    /\ Submit("measure", 0)
    /\ UNCHANGED <<prefs, queue, work, initialized, pc, who, held, batch, call, play, server,
                   history, faults, kills>>

\* OpenMasuMaxRevenueListener: the identifier is read in the callback's thread, which
\* generates it when there is none, and travels in the payload of enqueueAdRevenue().
Revenue ==
    /\ "revenue" \in Calls
    /\ enabled
    /\ Counted
    /\ installation' = Known
    /\ Submit("revenue", Known)
    /\ UNCHANGED <<credential, sequence, enabled, referrerConsumed, destinationConsumed,
                   configured, queue, work, initialized, pc, who, held, batch, call, play, server,
                   history, faults, kills>>

\* updateConsent(): withdrawn and denied purge, the other states do not.
UpdateConsent(kind) ==
    /\ "consent" \in Calls
    /\ Counted
    /\ Submit(kind, 0)
    /\ UNCHANGED <<prefs, queue, work, initialized, pc, who, held, batch, call, play, server,
                   history, faults, kills>>

\* setCollectionEnabled(): the flag is written in the caller's thread.
SetCollectionEnabled(b) ==
    /\ "collection" \in Calls
    /\ enabled # b
    /\ enabled' = b
    /\ IF b THEN Submit("flush", 0) ELSE UNCHANGED jobs
    /\ UNCHANGED <<installation, credential, sequence, referrerConsumed, destinationConsumed,
                   configured, queue, work, initialized, pc, who, held, batch, call, play, server,
                   history, bounds>>

\* resetInstallationId()
Reset ==
    /\ "reset" \in Calls
    /\ Counted
    /\ Submit("reset", 0)
    /\ UNCHANGED <<prefs, queue, work, initialized, pc, who, held, batch, call, play, server,
                   history, faults, kills>>

\* flushBlocking(), by an application that flushes while there is something to flush and
\* waits for the answer.
Flush ==
    /\ initialized
    /\ jobs = <<>> /\ pc["executor"] = "idle"
    /\ queue # {}
    /\ Submit("flush", 0)
    /\ UNCHANGED <<prefs, queue, work, initialized, pc, who, held, batch, call, play, server,
                   history, bounds>>

-----------------------------------------------------------------------------
(* Tasks of the executor *)

ExecutorIs(where) == pc["executor"] = where

\* The executor takes its first task, which is of the given kind.
Take(kind) ==
    /\ ExecutorIs("idle")
    /\ jobs # <<>>
    /\ Head(jobs).kind = kind
    /\ jobs' = Tail(jobs)

\* initialize(): the referrer is read unless it was consumed.
RunInit(p) ==
    /\ Take("init")
    /\ installation' = Known
    /\ IF referrerConsumed
       THEN Goto("executor", "check") /\ UNCHANGED <<who, play>>
       ELSE /\ Goto("executor", "install")
            /\ who' = [who EXCEPT !["executor"] = Known]
            /\ play' = p
    /\ UNCHANGED <<credential, sequence, enabled, referrerConsumed, destinationConsumed,
                   configured, queue, work, initialized, held, batch, call, server, history,
                   bounds>>

\* The install event of the first launch.
InstallEvent ==
    /\ ExecutorIs("install")
    /\ Enqueue("install", who["executor"])
    /\ Goto("executor", IF play = "deferred" /\ ~destinationConsumed THEN "open" ELSE "referrer")
    /\ UNCHANGED <<installation, credential, enabled, referrerConsumed, destinationConsumed,
                   configured, work, initialized, jobs, who, held, batch, call, play, server,
                   purged, forgotten, bounds>>

\* A deferred destination: the listener is called, the open is queued, and then it is
\* marked as consumed.
OpenEvent ==
    /\ ExecutorIs("open")
    /\ Enqueue("deep_link_open", who["executor"])
    /\ Goto("executor", "consume")
    /\ UNCHANGED <<installation, credential, enabled, referrerConsumed, destinationConsumed,
                   configured, work, initialized, jobs, who, held, batch, call, play, server,
                   purged, forgotten, bounds>>

MarkDestination ==
    /\ ExecutorIs("consume")
    /\ destinationConsumed' = TRUE
    /\ Goto("executor", "referrer")
    /\ UNCHANGED <<installation, credential, sequence, enabled, referrerConsumed, configured,
                   queue, work, initialized, jobs, who, held, batch, call, play, server, history,
                   bounds>>

\* A referrer service that may be asked again leaves the referrer unconsumed.
MarkReferrer ==
    /\ ExecutorIs("referrer")
    /\ referrerConsumed' = (referrerConsumed \/ play # "retry")
    /\ Goto("executor", "check")
    /\ who' = [who EXCEPT !["executor"] = 0]
    /\ play' = "plain"
    /\ UNCHANGED <<installation, credential, sequence, enabled, destinationConsumed, configured,
                   queue, work, initialized, jobs, held, batch, call, server, history,
                   bounds>>

RunMeasure ==
    /\ Take("measure")
    /\ installation' = Known
    /\ Enqueue("measurement", Known)
    /\ Goto("executor", "check")
    /\ UNCHANGED <<credential, enabled, referrerConsumed, destinationConsumed, configured, work,
                   initialized, who, held, batch, call, play, server, purged, forgotten,
                   bounds>>

RunRevenue ==
    /\ Take("revenue")
    /\ Enqueue("ad_revenue", Head(jobs).inst)
    /\ Goto("executor", "check")
    /\ UNCHANGED <<installation, credential, enabled, referrerConsumed, destinationConsumed,
                   configured, work, initialized, who, held, batch, call, play, server, purged,
                   forgotten, bounds>>

\* updateConsent(): purge and consent event in one transaction.  drain() is only called
\* when collection is on, which is also the first thing it checks.
RunConsent(kind) ==
    LET gone == IF kind = "withdrawn" THEN {e \in queue : ConsentRequired(e)} ELSE {}
    IN /\ Take(kind)
       /\ EnqueueOver(queue \ gone, "consent_changed", 0)
       /\ purged' = purged \cup gone
       /\ Goto("executor", "check")
       /\ UNCHANGED <<installation, credential, enabled, referrerConsumed, destinationConsumed,
                      configured, work, initialized, who, held, batch, call, play, server,
                      forgotten, bounds>>

RunFlush ==
    /\ Take("flush")
    /\ Goto("executor", "check")
    /\ UNCHANGED <<prefs, queue, work, initialized, who, held, batch, call, play, server, history,
                   bounds>>

\* resetInstallationId(): nothing happens without a credential.
RunReset ==
    /\ Take("reset")
    /\ installation' = Known
    /\ IF credential = 0
       THEN UNCHANGED <<pc, who, held, call>>
       ELSE /\ Goto("executor", "deleting")
            /\ who' = [who EXCEPT !["executor"] = Known]
            /\ held' = [held EXCEPT !["executor"] = credential]
            /\ call' = [call EXCEPT !["executor"] = "sent"]
    /\ UNCHANGED <<credential, sequence, enabled, referrerConsumed, destinationConsumed,
                   configured, queue, work, initialized, batch, play, server, history,
                   bounds>>

\* Mutant of DeleteAnswered: the answer is not looked at.
DeleteUnchecked ==
    /\ ExecutorIs("deleting")
    /\ call["executor"] \in {"yes", "no"}
    /\ call' = [call EXCEPT !["executor"] = "none"]
    /\ held' = [held EXCEPT !["executor"] = 0]
    /\ Goto("executor", "clearQueue")
    /\ UNCHANGED <<prefs, queue, work, initialized, jobs, who, batch, play, server, history,
                   bounds>>

\* Only a 201 lets the reset go on; false and an exception both end the task (the
\* exception also ends the process: Kill).
DeleteAnswered ==
    /\ ExecutorIs("deleting")
    /\ call["executor"] \in {"yes", "no"}
    /\ call' = [call EXCEPT !["executor"] = "none"]
    /\ held' = [held EXCEPT !["executor"] = 0]
    /\ IF call["executor"] = "yes"
       THEN Goto("executor", "clearQueue") /\ UNCHANGED who
       ELSE Goto("executor", "idle") /\ who' = [who EXCEPT !["executor"] = 0]
    /\ UNCHANGED <<prefs, queue, work, initialized, jobs, batch, play, server, history,
                   bounds>>

ClearQueue ==
    /\ ExecutorIs("clearQueue")
    /\ queue' = {}
    /\ forgotten' = forgotten \cup queue
    /\ Goto("executor", "clearPrefs")
    /\ UNCHANGED <<prefs, work, initialized, jobs, who, held, batch, call, play, server, generated,
                   enqueued, purged, bounds>>

\* Mutant of ClearAfterDeletion: the credential stays.
KeepCredential ==
    /\ ExecutorIs("clearPrefs")
    /\ sequence' = 0
    /\ Goto("executor", "replace")
    /\ UNCHANGED <<installation, credential, enabled, referrerConsumed, destinationConsumed,
                   configured, queue, work, initialized, jobs, who, held, batch, call, play, server,
                   history, bounds>>

\* storage.clearAfterDeletion()
ClearAfterDeletion ==
    /\ ExecutorIs("clearPrefs")
    /\ credential' = 0
    /\ sequence' = 0
    /\ Goto("executor", "replace")
    /\ UNCHANGED <<installation, enabled, referrerConsumed, destinationConsumed, configured, queue,
                   work, initialized, jobs, who, held, batch, call, play, server, history,
                   bounds>>

\* storage.replaceInstallationId()
ReplaceInstallationId ==
    /\ ExecutorIs("replace")
    /\ installation' = installation + 1
    /\ who' = [who EXCEPT !["executor"] = installation + 1]
    /\ Goto("executor", "resetEnsure")
    /\ UNCHANGED <<credential, sequence, enabled, referrerConsumed, destinationConsumed,
                   configured, queue, work, initialized, jobs, held, batch, call, play, server,
                   history, bounds>>

\* ensureCredential(newId), called outside of any runCatching.
ResetEnsure ==
    /\ ExecutorIs("resetEnsure")
    /\ IF credential # 0
       THEN Goto("executor", "resetInstall") /\ UNCHANGED call
       ELSE /\ Goto("executor", "resetEnrolling")
            /\ call' = [call EXCEPT !["executor"] = "sent"]
    /\ UNCHANGED <<prefs, queue, work, initialized, jobs, who, held, batch, play, server, history,
                   bounds>>

\* An enrolment that fails throws out of the task, which Android answers by ending the
\* process: Kill.  Here the task ends.
ResetEnrolled ==
    /\ ExecutorIs("resetEnrolling")
    /\ call["executor"] \in {"yes", "no"}
    /\ call' = [call EXCEPT !["executor"] = "none"]
    /\ IF call["executor"] = "yes"
       THEN /\ credential' = who["executor"]
            /\ Goto("executor", "resetInstall")
            /\ UNCHANGED who
       ELSE /\ Goto("executor", "idle")
            /\ who' = [who EXCEPT !["executor"] = 0]
            /\ UNCHANGED credential
    /\ UNCHANGED <<installation, sequence, enabled, referrerConsumed, destinationConsumed,
                   configured, queue, work, initialized, jobs, held, batch, play, server, history,
                   bounds>>

ResetInstall ==
    /\ ExecutorIs("resetInstall")
    /\ Enqueue("install", who["executor"])
    /\ Goto("executor", "check")
    /\ who' = [who EXCEPT !["executor"] = 0]
    /\ UNCHANGED <<installation, credential, enabled, referrerConsumed, destinationConsumed,
                   configured, work, initialized, jobs, held, batch, call, play, server, purged,
                   forgotten, bounds>>

-----------------------------------------------------------------------------
(* drain(), by the executor or by the worker *)

Check(t) ==
    /\ pc[t] = "check"
    /\ IF enabled
       THEN Goto(t, "credential") /\ UNCHANGED <<work, who, held, batch>>
       ELSE Leave(t, FALSE, work)
    /\ UNCHANGED <<prefs, queue, initialized, jobs, call, play, server, history, bounds>>

\* storage.credential() ?: ensureCredential(storage.installationId())
ReadCredential(t) ==
    /\ pc[t] = "credential"
    /\ IF credential # 0
       THEN /\ Goto(t, "select")
            /\ held' = [held EXCEPT ![t] = credential]
            /\ UNCHANGED <<installation, who>>
       ELSE /\ Goto(t, "ensure")
            /\ installation' = Known
            /\ who' = [who EXCEPT ![t] = Known]
            /\ UNCHANGED held
    /\ UNCHANGED <<credential, sequence, enabled, referrerConsumed, destinationConsumed,
                   configured, queue, work, initialized, jobs, batch, call, play, server, history,
                   bounds>>

\* ensureCredential() reads the credential again, since the other thread may have enrolled.
Ensure(t) ==
    /\ pc[t] = "ensure"
    /\ IF credential # 0
       THEN /\ Goto(t, "select")
            /\ held' = [held EXCEPT ![t] = credential]
            /\ who' = [who EXCEPT ![t] = 0]
            /\ UNCHANGED call
       ELSE /\ Goto(t, "enrolling")
            /\ call' = [call EXCEPT ![t] = "sent"]
            /\ UNCHANGED <<who, held>>
    /\ UNCHANGED <<prefs, queue, work, initialized, jobs, batch, play, server, history,
                   bounds>>

Enrolled(t) ==
    /\ pc[t] = "enrolling"
    /\ call[t] \in {"yes", "no"}
    /\ call' = [call EXCEPT ![t] = "none"]
    /\ IF call[t] = "yes"
       THEN /\ credential' = who[t]
            /\ held' = [held EXCEPT ![t] = who[t]]
            /\ who' = [who EXCEPT ![t] = 0]
            /\ Goto(t, "select")
            /\ UNCHANGED <<batch, work>>
       ELSE Leave(t, FALSE, Scheduled(work)) /\ UNCHANGED credential
    /\ UNCHANGED <<installation, sequence, enabled, referrerConsumed, destinationConsumed,
                   configured, queue, initialized, jobs, play, server, history, bounds>>

\* ORDER BY processingSequence, eventId LIMIT 100.
Pending ==
    {e \in queue : Cardinality({f \in queue : f.seq < e.seq \/ (f.seq = e.seq /\ f.id < e.id)}) < BatchLimit}

Select(t) ==
    /\ pc[t] = "select"
    /\ IF Pending = {}
       THEN Leave(t, TRUE, work) /\ UNCHANGED call
       ELSE /\ Goto(t, "delivering")
            /\ batch' = [batch EXCEPT ![t] = Pending]
            /\ call' = [call EXCEPT ![t] = "sent"]
            /\ UNCHANGED <<work, who, held>>
    /\ UNCHANGED <<prefs, queue, initialized, jobs, play, server, history, bounds>>

\* Mutant of Delivered: the batch is removed whatever the answer.
DeliveredUnchecked(t) ==
    /\ pc[t] = "delivering"
    /\ call[t] \in {"yes", "no"}
    /\ call' = [call EXCEPT ![t] = "none"]
    /\ queue' = queue \ batch[t]
    /\ Goto(t, "count")
    /\ UNCHANGED <<prefs, work, initialized, jobs, who, held, batch, play, server, history,
                   bounds>>

\* Mutant of Delivered: everything queued meanwhile is removed with the batch.
DeliveredClearing(t) ==
    /\ pc[t] = "delivering"
    /\ call[t] \in {"yes", "no"}
    /\ call' = [call EXCEPT ![t] = "none"]
    /\ IF call[t] = "yes"
       THEN /\ queue' = {}
            /\ Goto(t, "count")
            /\ UNCHANGED <<work, who, held, batch>>
       ELSE Leave(t, FALSE, Scheduled(work)) /\ UNCHANGED queue
    /\ UNCHANGED <<prefs, initialized, jobs, play, server, history, bounds>>

\* Only a 202 removes the batch; anything else leaves it to the backstop.
Delivered(t) ==
    /\ pc[t] = "delivering"
    /\ call[t] \in {"yes", "no"}
    /\ call' = [call EXCEPT ![t] = "none"]
    /\ IF call[t] = "yes"
       THEN /\ queue' = queue \ batch[t]
            /\ Goto(t, "count")
            /\ UNCHANGED <<work, who, held, batch>>
       ELSE Leave(t, FALSE, Scheduled(work)) /\ UNCHANGED queue
    /\ UNCHANGED <<prefs, initialized, jobs, play, server, history, bounds>>

Count(t) ==
    /\ pc[t] = "count"
    /\ Leave(t, TRUE, IF queue # {} THEN Scheduled(work) ELSE work)
    /\ UNCHANGED <<prefs, queue, initialized, jobs, call, play, server, history, bounds>>

Drain(t) ==
    \/ Check(t) \/ ReadCredential(t) \/ Ensure(t) \/ Enrolled(t)
    \/ Select(t) \/ Delivered(t) \/ Count(t)

\* WorkManager starts DeliveryWorker.doWork(), which needs the persisted configuration.
StartWorker ==
    /\ work = "enqueued"
    /\ pc["worker"] = "idle"
    /\ IF configured
       THEN work' = "running" /\ Goto("worker", "check")
       ELSE work' = "none" /\ UNCHANGED pc
    /\ UNCHANGED <<prefs, queue, initialized, jobs, who, held, batch, call, play, server, history,
                   bounds>>

-----------------------------------------------------------------------------
(* The server and the network *)

\* handleSdkEnrollment: one credential per identifier, ever.
\* handleSdkBatch: the credential must be active, and every record must name its installation.
\* handleDevicePrivacy: the subject must be the credential's installation.
Accepts(r) ==
    CASE r.kind \in {"enrolling", "resetEnrolling"} -> r.who \notin active \cup deleted
      [] r.kind = "delivering" ->
            r.key \in active /\ \A e \in r.events : e.inst \in {0, r.key}
      [] r.kind = "deleting" -> r.key \in active /\ r.who = r.key

Apply(r) ==
    /\ active' = CASE r.kind \in {"enrolling", "resetEnrolling"} -> active \cup {r.who}
                   [] r.kind = "deleting" -> active \ {r.key}
                   [] r.kind = "delivering" -> active
    /\ deleted' = IF r.kind = "deleting" THEN deleted \cup {r.key} ELSE deleted
    /\ received' = IF r.kind = "delivering" THEN received \cup r.events ELSE received

Serve(t) ==
    /\ call[t] = "sent"
    /\ IF Accepts(RequestOf(t))
       THEN Apply(RequestOf(t)) /\ call' = [call EXCEPT ![t] = "yes"]
       ELSE call' = [call EXCEPT ![t] = "no"] /\ UNCHANGED <<keys, received>>
    /\ UNCHANGED <<prefs, queue, work, initialized, jobs, pc, who, held, batch, play, late, history,
                   bounds>>

\* The request does not reach the server, or a rate limit or an error answers it.
Refuse(t) ==
    /\ call[t] = "sent"
    /\ faults < MaxFaults
    /\ faults' = faults + 1
    /\ call' = [call EXCEPT ![t] = "no"]
    /\ UNCHANGED <<prefs, queue, work, initialized, jobs, pc, who, held, batch, play, server,
                   history, calls, kills>>

\* The device stops waiting: the answer is lost, or the request is still under way.
TimeOut(t) ==
    /\ call[t] \in {"sent", "yes"}
    /\ faults < MaxFaults
    /\ faults' = faults + 1
    /\ late' = IF call[t] = "sent" THEN late \cup {RequestOf(t)} ELSE late
    /\ call' = [call EXCEPT ![t] = "no"]
    /\ UNCHANGED <<prefs, queue, work, initialized, jobs, pc, who, held, batch, play, keys,
                   received, history, calls, kills>>

ServeLate(r) ==
    /\ r \in late
    /\ late' = late \ {r}
    /\ IF Accepts(r) THEN Apply(r) ELSE UNCHANGED <<keys, received>>
    /\ UNCHANGED <<prefs, queue, work, initialized, jobs, pc, who, held, batch, call, play, history,
                   bounds>>

\* The process dies.  WorkManager runs interrupted work again.
Kill ==
    /\ kills < MaxKills
    /\ kills' = kills + 1
    /\ initialized' = FALSE
    /\ jobs' = <<>>
    /\ pc' = [t \in Threads |-> "idle"]
    /\ who' = [t \in Threads |-> 0]
    /\ held' = [t \in Threads |-> 0]
    /\ batch' = [t \in Threads |-> {}]
    /\ call' = [t \in Threads |-> "none"]
    /\ play' = "plain"
    /\ late' = late \cup {RequestOf(t) : t \in {u \in Threads : call[u] = "sent"}}
    /\ work' = IF work = "running" THEN "enqueued" ELSE work
    /\ UNCHANGED <<prefs, queue, keys, received, history, calls, faults>>

-----------------------------------------------------------------------------
Init ==
    /\ installation = 0 /\ credential = 0 /\ sequence = 0 /\ enabled = TRUE
    /\ referrerConsumed = FALSE /\ destinationConsumed = FALSE /\ configured = FALSE
    /\ queue = {} /\ work = "none" /\ initialized = FALSE /\ jobs = <<>>
    /\ pc = [t \in Threads |-> "idle"]
    /\ who = [t \in Threads |-> 0]
    /\ held = [t \in Threads |-> 0]
    /\ batch = [t \in Threads |-> {}]
    /\ call = [t \in Threads |-> "none"]
    /\ play = "plain"
    /\ active = {} /\ deleted = {} /\ received = {} /\ late = {}
    /\ generated = 0 /\ enqueued = {} /\ purged = {} /\ forgotten = {}
    /\ calls = 0 /\ faults = 0 /\ kills = 0

Host ==
    \/ Initialize \/ Measure \/ Revenue \/ Reset \/ Flush
    \/ \E kind \in {"withdrawn", "granted"} : UpdateConsent(kind)
    \/ \E b \in BOOLEAN : SetCollectionEnabled(b)

Task ==
    \/ \E p \in Plays : RunInit(p)
    \/ InstallEvent \/ OpenEvent \/ MarkDestination \/ MarkReferrer
    \/ RunMeasure \/ RunRevenue \/ RunFlush
    \/ \E kind \in {"withdrawn", "granted"} : RunConsent(kind)

ResetTask ==
    \/ RunReset \/ DeleteAnswered \/ ClearQueue \/ ClearAfterDeletion \/ ReplaceInstallationId
    \/ ResetEnsure \/ ResetEnrolled \/ ResetInstall

Executor == Task \/ ResetTask

Network ==
    \/ \E t \in Threads : Serve(t) \/ Refuse(t) \/ TimeOut(t)
    \/ \E r \in late : ServeLate(r)

Next ==
    \/ Host \/ Executor \/ StartWorker
    \/ \E t \in Threads : Drain(t)
    \/ Network \/ Kill

Spec == Init /\ [][Next]_vars

\* The threads of a living process run, WorkManager starts enqueued work and the server
\* answers.  Nothing makes the host application call the SDK or be opened again.
Fairness ==
    /\ WF_vars(Executor) /\ WF_vars(StartWorker)
    /\ \A t \in Threads : WF_vars(Drain(t)) /\ WF_vars(Serve(t))
FairSpec == Spec /\ Fairness

-----------------------------------------------------------------------------
(* Properties *)

QueuedEvents ==
    [id : Nat, name : {"install", "deep_link_open", "measurement", "ad_revenue", "consent_changed"},
     inst : Nat, seq : Nat]
Jobs == [kind : {"init", "measure", "revenue", "withdrawn", "granted", "flush", "reset"}, inst : Nat]

PrefsOK ==
    /\ installation \in Nat /\ credential \in Nat /\ sequence \in Nat /\ enabled \in BOOLEAN
    /\ referrerConsumed \in BOOLEAN /\ destinationConsumed \in BOOLEAN /\ configured \in BOOLEAN
RowsOK ==
    /\ queue \subseteq QueuedEvents /\ received \subseteq QueuedEvents
    /\ enqueued \subseteq QueuedEvents /\ purged \subseteq QueuedEvents
    /\ forgotten \subseteq QueuedEvents /\ generated \in Nat
    /\ batch \in [Threads -> SUBSET QueuedEvents]
    /\ \A r \in late : r.kind \in Waiting /\ r.events \subseteq QueuedEvents
ThreadsOK ==
    /\ pc \in [Threads -> Pcs] /\ pc["worker"] \in Draining \cup {"idle"}
    /\ who \in [Threads -> Nat] /\ held \in [Threads -> Nat]
    /\ call \in [Threads -> {"none", "sent", "yes", "no"}]
    /\ \A t \in Threads : call[t] # "none" <=> pc[t] \in Waiting
ProcessOK ==
    /\ work \in {"none", "enqueued", "running"} /\ initialized \in BOOLEAN
    /\ jobs \in Seq(Jobs) /\ play \in {"retry", "plain", "deferred"}

\* The state has its type, and a thread waits for a call exactly where the code does.
TypeOK == PrefsOK /\ RowsOK /\ ThreadsOK /\ ProcessOK

\* At-least-once: a row leaves the queue only because the server has accepted it, because
\* consent was taken back or because its installation was deleted, whatever is lost, late
\* or killed and although two threads drain at once (drain, updateConsent, resetInstallationId).
NothingLost == enqueued \subseteq queue \cup received \cup purged \cup forgotten

\* The stored credential is never one of another identifier: an enrolment that one thread
\* started before a reset does not reach the preferences after it (ensureCredential).
CredentialOfIdentity == credential # 0 => credential = installation

\* resetInstallationId deletes first: an identifier the device has given up, and every row
\* it has thrown away with it, was deleted at the server.
AbandonedIsDeleted ==
    /\ \A i \in 1..installation : i < installation => i \in deleted
    /\ \A e \in forgotten : e.inst = 0 \/ e.inst \in deleted

\* No row names another installation than the current one: one such row makes the server
\* refuse every batch that contains it (normalizedRecord: installation_scope_mismatch).
\* Ad revenue is excepted: its callback reads the identifier before a task that may run
\* after a reset.
QueueOfIdentity == \A e \in queue : e.name # "ad_revenue" => e.inst \in {0, installation}

\* The order in which pending() reads is the order of insertion: no two rows of the queue
\* share a sequence number, although a reset starts again from 1 (nextSequence).
SequencesDistinct == \A e, f \in queue : e.seq = f.seq => e = f

(* What the six properties above rest on. *)
EnrolYes(t) == pc[t] \in {"enrolling", "resetEnrolling"} /\ call[t] = "yes"

\* A batch whose 202 has not been read yet is at the server.
ServedInv == \A t \in Threads : pc[t] = "delivering" /\ call[t] = "yes" => batch[t] \subseteq received

\* The identifier a thread works for was generated; the executor's is the current one.
WhoInv ==
    /\ \A t \in Threads : pc[t] \in {"ensure", "enrolling"} => who[t] \in 1..installation
    /\ pc["executor"] \in {"install", "open", "consume", "referrer",
                            "resetEnsure", "resetEnrolling", "resetInstall"}
           => who["executor"] = installation /\ installation > 0
    /\ pc["executor"] \in {"deleting", "clearQueue", "clearPrefs", "replace"} => installation > 0

\* The stored credential was issued for its identifier.
IssuedInv == credential # 0 => credential \in active \cup deleted

\* One enrolment per identifier succeeds: while its answer is unread nobody holds a
\* credential and no reset is past its beginning.
AnswerInv ==
    \A t \in Threads : EnrolYes(t) =>
        /\ who[t] = installation /\ credential = 0 /\ who[t] \in active \cup deleted
        /\ pc["executor"] \notin {"deleting", "clearQueue", "clearPrefs", "replace"}
        /\ \A u \in Threads : EnrolYes(u) => u = t

\* A reset asks for the deletion of the identifier in use, and goes on once it is deleted.
DeletionInv ==
    /\ pc["executor"] = "deleting" =>
          /\ held["executor"] = installation /\ installation \in active \cup deleted
          /\ call["executor"] = "yes" => installation \in deleted
    /\ pc["executor"] \in {"clearQueue", "clearPrefs", "replace"} => installation \in deleted
    /\ pc["executor"] = "replace" => credential = 0
KeyInv == IssuedInv /\ AnswerInv /\ DeletionInv

\* Rows and tasks name identifiers that exist, rows are numbered up to the counter, and
\* the counter is only reset when there are no rows.
RowsNumbered == \A e \in queue : e.inst <= installation /\ e.seq <= sequence
JobsInv == \A n \in 1..Len(jobs) : jobs[n].inst <= installation
ClearedInv == pc["executor"] \in {"clearPrefs", "replace"} => queue = {}
RowsInv == RowsNumbered /\ JobsInv /\ ClearedInv

\* The inductive invariant: a crash, a lost or late answer and a second draining thread
\* leave identifier, credential, queue and server in step.
AndroidInv ==
    /\ TypeOK /\ NothingLost /\ CredentialOfIdentity /\ AbandonedIsDeleted
    /\ QueueOfIdentity /\ SequencesDistinct
    /\ ServedInv /\ WhoInv /\ KeyInv /\ RowsInv

\* The device may deliver: collection stays on, and the server honours the credential it
\* keeps (a deletion whose answer was lost leaves one the server refuses).
MayDeliver == <>[]enabled /\ <>[](credential \in active)

IsQueued(rows, n) == \E e \in rows : e.id = n

\* A row among those the next batch takes leaves the queue once the backstop is enqueued
\* and initialize() has stored its configuration, with no further call of the host: through refusals, lost answers, deaths and
\* the executor draining the same rows (drain, DeliveryWorker, scheduleBackstop).
BackstopDelivers ==
    MayDeliver => \A n \in RowIds :
        (configured /\ work = "enqueued" /\ IsQueued(Pending, n)) ~> ~IsQueued(queue, n)

\* "so anything left over drains later" (docs/design/m2-baseline.md:602).  The request for
\* the backstop is ignored while the worker runs, also when it is the worker that leaves
\* rows behind.
LeftoversDrain ==
    MayDeliver => \A t \in Threads : (pc[t] = "count" /\ queue # {}) ~> (queue = {})
=============================================================================
