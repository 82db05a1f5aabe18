-------------------------- MODULE AndroidSdkProofs --------------------------
(***************************************************************************)
(* The device, and the replay protection of what it signs.                 *)
(*                                                                         *)
(* AndroidInv is inductive, for any number of calls, faults and deaths of  *)
(* the process and for any size of a batch.  First the steps the actions   *)
(* share, then one lemma per conjunct, then the theorems.  In each lemma   *)
(* the actions that disturb the conjunct are steps of their own.           *)
(*                                                                         *)
(* For every skew, time to live and latency with                           *)
(* Ttl > 2 * Skew + Latency, and for any number of requests and handlers,  *)
(* no signed request is verified twice.                                    *)
(***************************************************************************)
EXTENDS AndroidSdk, RequestNonce, TLAPS

-----------------------------------------------------------------------------
(* Shared steps *)

\* installationId() generates an identifier only when there is none.
LEMMA KnownFacts ==
  ASSUME PrefsOK
  PROVE  /\ Known \in Nat /\ Known > 0 /\ installation <= Known
         /\ installation > 0 => Known = installation
BY DEF PrefsOK, Known

\* A thread works for an identifier, or for none (0).
LEMMA WhoTyped ==
  ASSUME ThreadsOK, NEW t \in Threads
  PROVE  who[t] \in Nat
BY DEF ThreadsOK

\* enqueueJson adds at most one row, with the next sequence number.
LEMMA EnqueueFacts ==
  ASSUME PrefsOK, RowsOK, NEW rows \in SUBSET QueuedEvents, NEW i \in Nat,
         NEW name \in {"install", "deep_link_open", "measurement", "ad_revenue", "consent_changed"},
         EnqueueOver(rows, name, i)
  PROVE  /\ queue' \subseteq QueuedEvents /\ enqueued' \subseteq QueuedEvents
         /\ generated' \in Nat /\ sequence' \in Nat /\ sequence <= sequence'
         /\ \A e \in queue' : e \in rows \/ (e.inst = i /\ e.name = name /\ e.seq = sequence')
<1> DEFINE e == [id |-> generated, name |-> name, inst |-> i, seq |-> sequence + 1]
<1>1. e \in QueuedEvents /\ sequence \in Nat /\ generated \in Nat
  BY DEF PrefsOK, RowsOK, QueuedEvents
<1>2. e.inst = i /\ e.name = name /\ e.seq = sequence + 1
  OBVIOUS
<1>3. CASE enabled \/ name = "consent_changed"
  <2>1. /\ queue' = rows \cup {e} /\ enqueued' = enqueued \cup {e}
        /\ generated' = generated + 1 /\ sequence' = sequence + 1
    BY <1>3 DEF EnqueueOver
  <2> HIDE DEF e
  <2> QED BY <1>1, <1>2, <2>1 DEF RowsOK
<1>4. CASE ~(enabled \/ name = "consent_changed")
  BY <1>1, <1>4 DEF EnqueueOver, RowsOK
<1> QED BY <1>3, <1>4

\* A call of the host adds its task behind the tasks that wait.
LEMMA SubmitFacts ==
  ASSUME ProcessOK, NEW i \in Nat,
         NEW kind \in {"init", "measure", "revenue", "withdrawn", "granted", "flush", "reset"},
         Submit(kind, i)
  PROVE  /\ jobs' \in Seq(Jobs)
         /\ \A n \in 1..Len(jobs') :
               jobs'[n].inst = i \/ (n \in 1..Len(jobs) /\ jobs'[n] = jobs[n])
<1> DEFINE j == [kind |-> kind, inst |-> i]
<1>1. j \in Jobs /\ j.inst = i /\ jobs \in Seq(Jobs)
  BY DEF Jobs, ProcessOK
<1>2. jobs' = Append(jobs, j)
  BY DEF Submit
<1> HIDE DEF j
<1> QED BY <1>1, <1>2

\* The executor takes the oldest task.
LEMMA TakeFacts ==
  ASSUME ProcessOK, NEW kind, Take(kind)
  PROVE  /\ jobs' \in Seq(Jobs) /\ Head(jobs) \in Jobs
         /\ Head(jobs) = jobs[1] /\ 1 \in 1..Len(jobs)
         /\ \A n \in 1..Len(jobs') : n + 1 \in 1..Len(jobs) /\ jobs'[n] = jobs[n + 1]
<1>1. jobs \in Seq(Jobs) /\ jobs # <<>> /\ jobs' = Tail(jobs)
  BY DEF ProcessOK, Take
<1> QED BY <1>1

\* pending() reads rows of the queue.
LEMMA PendingRows ==
  Pending \subseteq queue
BY DEF Pending

\* A request that was sent is one of the kinds the server knows.
LEMMA RequestFacts ==
  ASSUME TypeOK, NEW t \in Threads, call[t] = "sent"
  PROVE  RequestOf(t).kind \in Waiting /\ RequestOf(t).events \subseteq QueuedEvents
BY DEF TypeOK, RowsOK, ThreadsOK, RequestOf

\* A row queued for an identifier that exists keeps the rows numbered.
LEMMA EnqueueNumbered ==
  ASSUME PrefsOK, RowsOK, RowsNumbered, NEW rows \in SUBSET queue, NEW i \in Nat,
         NEW name \in {"install", "deep_link_open", "measurement", "ad_revenue", "consent_changed"},
         EnqueueOver(rows, name, i),
         installation' \in Nat, installation <= installation', i <= installation'
  PROVE  RowsNumbered'
<1>1. rows \in SUBSET QueuedEvents
  BY DEF RowsOK
<1>2. sequence' \in Nat /\ sequence <= sequence'
  BY <1>1, EnqueueFacts
<1>3. \A e \in queue' : e \in rows \/ e.inst = i
  BY <1>1, EnqueueFacts
<1>4. \A e \in queue' : e \in rows \/ e.seq = sequence'
  BY <1>1, EnqueueFacts
<1>5. \A e \in rows : e.inst \in Nat /\ e.seq \in Nat /\ e.inst <= installation /\ e.seq <= sequence
  BY <1>1 DEF RowsNumbered, QueuedEvents
<1> QED BY <1>2, <1>3, <1>4, <1>5 DEF RowsNumbered, PrefsOK

\* A row queued for the identifier in use keeps the queue of one identifier.
LEMMA EnqueueIdentity ==
  ASSUME PrefsOK, RowsOK, QueueOfIdentity, NEW rows \in SUBSET queue, NEW i \in Nat,
         NEW name \in {"install", "deep_link_open", "measurement", "ad_revenue", "consent_changed"},
         EnqueueOver(rows, name, i),
         installation > 0 => installation' = installation,
         name # "ad_revenue" => i \in {0, installation'}
  PROVE  QueueOfIdentity'
<1>1. rows \in SUBSET QueuedEvents
  BY DEF RowsOK
<1>2. \A e \in queue' : e \in rows \/ (e.inst = i /\ e.name = name)
  BY <1>1, EnqueueFacts
<1>3. \A e \in rows : e.name # "ad_revenue" => e.inst \in {0, installation'}
  BY DEF QueueOfIdentity, PrefsOK
<1> QED BY <1>2, <1>3 DEF QueueOfIdentity

\* A waiting task is a task.
LEMMA JobsTyped ==
  ASSUME ProcessOK, NEW n \in 1..Len(jobs)
  PROVE  jobs[n] \in Jobs /\ jobs[n].inst \in Nat
<1>1. jobs[n] \in Jobs
  BY DEF ProcessOK
<1> QED BY <1>1 DEF Jobs

\* Taking a task, dropping all of them or leaving them leaves tasks of existing identifiers.
LEMMA JobsKept ==
  ASSUME PrefsOK, ProcessOK, JobsInv, installation' \in Nat, installation <= installation'
  PROVE  /\ jobs' = jobs => JobsInv'
         /\ jobs' = <<>> => JobsInv'
         /\ \A kind : Take(kind) => JobsInv' /\ Head(jobs).inst <= installation
<1>1. \A n \in 1..Len(jobs) : jobs[n].inst <= installation' /\ jobs[n].inst <= installation
  BY JobsTyped DEF PrefsOK, JobsInv
<1>2. ASSUME NEW kind, Take(kind)
      PROVE  JobsInv' /\ Head(jobs).inst <= installation
  BY <1>1, <1>2, TakeFacts DEF JobsInv
<1> QED BY <1>1, <1>2 DEF JobsInv

\* So does a new task for an identifier that exists.
LEMMA JobsSubmitted ==
  ASSUME PrefsOK, ProcessOK, JobsInv, installation' \in Nat, installation <= installation',
         NEW i \in Nat, i <= installation',
         NEW kind \in {"init", "measure", "revenue", "withdrawn", "granted", "flush", "reset"},
         Submit(kind, i)
  PROVE  JobsInv'
<1>1. \A n \in 1..Len(jobs) : jobs[n].inst <= installation'
  BY JobsTyped DEF PrefsOK, JobsInv
<1> QED BY <1>1, SubmitFacts DEF JobsInv

-----------------------------------------------------------------------------
(* The type invariant *)

\* Preferences keep their types.
LEMMA PrefsOKStep ==
  ASSUME AndroidInv, [Next]_vars
  PROVE  PrefsOK'
<1> USE DEF AndroidInv, TypeOK, PrefsOK, prefs, keys, server, history, bounds
<1>1. CASE Host
  <2>1. CASE \/ Initialize
             \/ Measure
             \/ Reset
             \/ Flush
             \/ (\E kind \in {"withdrawn", "granted"} : UpdateConsent(kind))
             \/ (\E b \in BOOLEAN : SetCollectionEnabled(b))
    BY <2>1 DEF Initialize, Measure, Reset, Flush, UpdateConsent, SetCollectionEnabled
  <2>2. CASE Revenue
    BY KnownFacts, <2>2 DEF Revenue
  <2> QED BY <1>1, <2>1, <2>2 DEF Host
<1>2. CASE Task
  <2>1. ASSUME NEW p \in Plays, RunInit(p)
        PROVE  PrefsOK'
    BY KnownFacts, <2>1 DEF RunInit
  <2>2. CASE InstallEvent \/ OpenEvent
    BY <2>2 DEF InstallEvent, OpenEvent, Enqueue, EnqueueOver
  <2>3. CASE MarkDestination \/ MarkReferrer \/ RunFlush
    BY <2>3 DEF MarkDestination, MarkReferrer, RunFlush
  <2>4. CASE RunMeasure
    BY KnownFacts, <2>4 DEF RunMeasure, Enqueue, EnqueueOver
  <2>5. CASE RunRevenue \/ (\E kind \in {"withdrawn", "granted"} : RunConsent(kind))
    BY <2>5 DEF RunRevenue, RunConsent, Enqueue, EnqueueOver
  <2> QED BY <1>2, <2>1, <2>2, <2>3, <2>4, <2>5 DEF Task
<1>3. CASE ResetTask
  <2>1. CASE RunReset
    BY KnownFacts, <2>1 DEF RunReset
  <2>2. CASE \/ DeleteAnswered
             \/ ClearQueue
             \/ ClearAfterDeletion
             \/ ReplaceInstallationId
             \/ ResetEnsure
    BY <2>2 DEF DeleteAnswered, ClearQueue, ClearAfterDeletion, ReplaceInstallationId,
       ResetEnsure
  <2>3. CASE ResetEnrolled
    BY WhoTyped, <2>3 DEF ResetEnrolled, Threads
  <2>4. CASE ResetInstall
    BY <2>4 DEF ResetInstall, Enqueue, EnqueueOver
  <2> QED BY <1>3, <2>1, <2>2, <2>3, <2>4 DEF ResetTask
<1>4. CASE StartWorker
  BY <1>4 DEF StartWorker
<1>5. CASE \E t \in Threads : Drain(t)
  <2>1. CASE \/ (\E t \in Threads : Check(t))
             \/ (\E t \in Threads : Ensure(t))
             \/ (\E t \in Threads : Select(t))
             \/ (\E t \in Threads : Delivered(t))
             \/ (\E t \in Threads : Count(t))
    BY <2>1 DEF Check, Ensure, Select, Delivered, Count
  <2>2. ASSUME NEW t \in Threads, ReadCredential(t)
        PROVE  PrefsOK'
    BY KnownFacts, <2>2 DEF ReadCredential
  <2>3. ASSUME NEW t \in Threads, Enrolled(t)
        PROVE  PrefsOK'
    BY WhoTyped, <2>3 DEF Enrolled
  <2> QED BY <1>5, <2>1, <2>2, <2>3 DEF Drain
<1>6. CASE Network
  BY <1>6 DEF Network, Serve, Refuse, TimeOut, ServeLate
<1>7. CASE Kill
  BY <1>7 DEF Kill
<1>8. CASE UNCHANGED vars
  BY <1>8 DEF vars
<1> QED
  BY <1>1, <1>2, <1>3, <1>4, <1>5, <1>6, <1>7, <1>8 DEF Next, Executor

\* Rows, batches and late requests keep their types.
LEMMA RowsOKStep ==
  ASSUME AndroidInv, [Next]_vars
  PROVE  RowsOK'
<1> USE DEF AndroidInv, TypeOK, RowsOK, Threads, Goto, Leave, ExecutorIs, prefs, keys, server,
      history, bounds
<1>1. CASE Host
  BY <1>1 DEF Host, Initialize, Measure, Revenue, Reset, Flush, UpdateConsent,
     SetCollectionEnabled
<1>2. CASE Task
  <2>1. CASE (\E p \in Plays : RunInit(p)) \/ MarkDestination \/ MarkReferrer \/ RunFlush
    BY <2>1 DEF RunInit, MarkDestination, MarkReferrer, RunFlush
  <2>2. CASE InstallEvent \/ OpenEvent
    BY EnqueueFacts, <2>2 DEF InstallEvent, OpenEvent, Enqueue, ThreadsOK
  <2>3. CASE RunMeasure
    BY EnqueueFacts, KnownFacts, <2>3 DEF RunMeasure, Enqueue
  <2>4. CASE RunRevenue
    BY EnqueueFacts, TakeFacts, <2>4 DEF RunRevenue, Enqueue, Jobs
  <2>5. ASSUME NEW kind \in {"withdrawn", "granted"}, RunConsent(kind)
        PROVE  RowsOK'
    BY EnqueueFacts, <2>5 DEF RunConsent
  <2> QED BY <1>2, <2>1, <2>2, <2>3, <2>4, <2>5 DEF Task
<1>3. CASE ResetTask
  <2>1. CASE \/ RunReset
             \/ DeleteAnswered
             \/ ClearQueue
             \/ ClearAfterDeletion
             \/ ReplaceInstallationId
             \/ ResetEnsure
             \/ ResetEnrolled
    BY <2>1 DEF RunReset, DeleteAnswered, ClearQueue, ClearAfterDeletion, ReplaceInstallationId,
       ResetEnsure, ResetEnrolled
  <2>2. CASE ResetInstall
    BY EnqueueFacts, <2>2 DEF ResetInstall, Enqueue, ThreadsOK
  <2> QED BY <1>3, <2>1, <2>2 DEF ResetTask
<1>4. CASE StartWorker
  BY <1>4 DEF StartWorker
<1>5. CASE \E t \in Threads : Drain(t)
  <2>1. CASE \/ (\E t \in Threads : Check(t))
             \/ (\E t \in Threads : ReadCredential(t))
             \/ (\E t \in Threads : Ensure(t))
             \/ (\E t \in Threads : Enrolled(t))
             \/ (\E t \in Threads : Delivered(t))
             \/ (\E t \in Threads : Count(t))
    BY <2>1 DEF Check, ReadCredential, Ensure, Enrolled, Delivered, Count
  <2>2. ASSUME NEW t \in Threads, Select(t)
        PROVE  RowsOK'
    BY PendingRows, <2>2 DEF Select
  <2> QED BY <1>5, <2>1, <2>2 DEF Drain
<1>6. CASE Network
  <2>1. ASSUME NEW t \in Threads, Serve(t)
        PROVE  RowsOK'
    BY <2>1 DEF Serve, Accepts, Apply, RequestOf
  <2>2. ASSUME NEW t \in Threads, Refuse(t)
        PROVE  RowsOK'
    BY <2>2 DEF Refuse
  <2>3. ASSUME NEW t \in Threads, TimeOut(t)
        PROVE  RowsOK'
    BY RequestFacts, <2>3 DEF TimeOut
  <2>4. ASSUME NEW r \in late, ServeLate(r)
        PROVE  RowsOK'
    BY <2>4 DEF ServeLate, Accepts, Apply
  <2> QED BY <1>6, <2>1, <2>2, <2>3, <2>4 DEF Network
<1>7. CASE Kill
  <2>1. \A r \in late' : r.kind \in Waiting /\ r.events \subseteq QueuedEvents
    <3>1. \A r \in late' : r \in late \/ \E t \in Threads : call[t] = "sent" /\ r = RequestOf(t)
      BY <1>7 DEF Kill
    <3>2. \A t \in Threads : call[t] = "sent" =>
              RequestOf(t).kind \in Waiting /\ RequestOf(t).events \subseteq QueuedEvents
      BY RequestFacts
    <3> QED BY <3>1, <3>2
  <2>2. batch' \in [Threads -> SUBSET QueuedEvents]
    BY <1>7 DEF Kill
  <2> QED BY <1>7, <2>1, <2>2 DEF Kill
<1>8. CASE UNCHANGED vars
  BY <1>8 DEF vars
<1> QED
  BY <1>1, <1>2, <1>3, <1>4, <1>5, <1>6, <1>7, <1>8 DEF Next, Executor

\* Threads stay where the code can be, and wait exactly there.
LEMMA ThreadsOKStep ==
  ASSUME AndroidInv, [Next]_vars
  PROVE  ThreadsOK'
<1> USE DEF AndroidInv, TypeOK, PrefsOK, ThreadsOK, Threads, Waiting, Draining, Pcs, Known,
      Goto, Leave, ExecutorIs, Take, prefs, keys, server, history, bounds
<1>1. CASE Host
  BY <1>1 DEF Host, Initialize, Measure, Revenue, Reset, Flush, UpdateConsent,
     SetCollectionEnabled
<1>2. CASE Task
  BY <1>2 DEF Task, RunInit, InstallEvent, OpenEvent, MarkDestination, MarkReferrer, RunMeasure,
     RunRevenue, RunFlush, RunConsent
<1>3. CASE ResetTask
  BY <1>3 DEF ResetTask, RunReset, DeleteAnswered, ClearQueue, ClearAfterDeletion,
     ReplaceInstallationId, ResetEnsure, ResetEnrolled, ResetInstall
<1>4. CASE StartWorker
  BY <1>4 DEF StartWorker
<1>5. CASE \E t \in Threads : Drain(t)
  BY <1>5 DEF Drain, Check, ReadCredential, Ensure, Enrolled, Select, Delivered, Count
<1>6. CASE Network
  BY <1>6 DEF Network, Serve, Refuse, TimeOut, ServeLate
<1>7. CASE Kill
  BY <1>7 DEF Kill
<1>8. CASE UNCHANGED vars
  BY <1>8 DEF vars
<1> QED
  BY <1>1, <1>2, <1>3, <1>4, <1>5, <1>6, <1>7, <1>8 DEF Next, Executor

\* Tasks and work keep their types.
LEMMA ProcessOKStep ==
  ASSUME AndroidInv, [Next]_vars
  PROVE  ProcessOK'
<1> USE DEF AndroidInv, TypeOK, ProcessOK, Threads, Scheduled, Leave, prefs, keys, server,
      history, bounds
<1>1. CASE Host
  <2>1. CASE \/ Initialize
             \/ Measure
             \/ Reset
             \/ Flush
             \/ (\E kind \in {"withdrawn", "granted"} : UpdateConsent(kind))
             \/ (\E b \in BOOLEAN : SetCollectionEnabled(b))
    BY SubmitFacts, <2>1 DEF Initialize, Measure, Reset, Flush, UpdateConsent,
       SetCollectionEnabled
  <2>2. CASE Revenue
    BY SubmitFacts, KnownFacts, <2>2 DEF Revenue
  <2> QED BY <1>1, <2>1, <2>2 DEF Host
<1>2. CASE Task
  <2>1. ASSUME NEW p \in Plays, RunInit(p)
        PROVE  ProcessOK'
    BY TakeFacts, PlaysAssumption, <2>1 DEF RunInit
  <2>2. CASE InstallEvent \/ OpenEvent \/ MarkDestination \/ MarkReferrer
    BY <2>2 DEF InstallEvent, OpenEvent, MarkDestination, MarkReferrer
  <2>3. CASE RunMeasure \/ RunRevenue \/ RunFlush \/ (\E kind \in {"withdrawn", "granted"} : RunConsent(kind))
    BY TakeFacts, <2>3 DEF RunMeasure, RunRevenue, RunFlush, RunConsent
  <2> QED BY <1>2, <2>1, <2>2, <2>3 DEF Task
<1>3. CASE ResetTask
  <2>1. CASE RunReset
    BY TakeFacts, <2>1 DEF RunReset
  <2>2. CASE \/ DeleteAnswered
             \/ ClearQueue
             \/ ClearAfterDeletion
             \/ ReplaceInstallationId
             \/ ResetEnsure
             \/ ResetEnrolled
             \/ ResetInstall
    BY <2>2 DEF DeleteAnswered, ClearQueue, ClearAfterDeletion, ReplaceInstallationId,
       ResetEnsure, ResetEnrolled, ResetInstall
  <2> QED BY <1>3, <2>1, <2>2 DEF ResetTask
<1>4. CASE StartWorker
  BY <1>4 DEF StartWorker
<1>5. CASE \E t \in Threads : Drain(t)
  BY <1>5 DEF Drain, Check, ReadCredential, Ensure, Enrolled, Select, Delivered, Count
<1>6. CASE Network
  BY <1>6 DEF Network, Serve, Refuse, TimeOut, ServeLate
<1>7. CASE Kill
  <2>1. jobs' \in Seq(Jobs)
    <3>1. jobs' = <<>>
      BY <1>7 DEF Kill
    <3> QED BY <3>1
  <2> QED BY <1>7, <2>1 DEF Kill
<1>8. CASE UNCHANGED vars
  BY <1>8 DEF vars
<1> QED
  BY <1>1, <1>2, <1>3, <1>4, <1>5, <1>6, <1>7, <1>8 DEF Next, Executor

-----------------------------------------------------------------------------
(* Delivery *)

\* An accepted batch is at the server before its answer is read.
LEMMA ServedInvStep ==
  ASSUME AndroidInv, [Next]_vars
  PROVE  ServedInv'
<1> USE DEF AndroidInv, TypeOK, ServedInv, ThreadsOK, RowsOK, Threads, Goto, Leave, ExecutorIs,
      prefs, keys, server, history, bounds
<1>1. CASE Host
  BY <1>1 DEF Host, Initialize, Measure, Revenue, Reset, Flush, UpdateConsent,
     SetCollectionEnabled
<1>2. CASE Task
  BY <1>2 DEF Task, RunInit, InstallEvent, OpenEvent, MarkDestination, MarkReferrer, RunMeasure,
     RunRevenue, RunFlush, RunConsent
<1>3. CASE ResetTask
  BY <1>3 DEF ResetTask, RunReset, DeleteAnswered, ClearQueue, ClearAfterDeletion,
     ReplaceInstallationId, ResetEnsure, ResetEnrolled, ResetInstall
<1>4. CASE StartWorker
  BY <1>4 DEF StartWorker
<1>5. CASE \E t \in Threads : Drain(t)
  BY <1>5 DEF Drain, Check, ReadCredential, Ensure, Enrolled, Select, Delivered, Count
<1>6. CASE Network
  <2>1. ASSUME NEW t \in Threads, Serve(t)
        PROVE  ServedInv'
    BY <2>1 DEF Serve, Accepts, Apply, RequestOf
  <2>2. CASE (\E t \in Threads : Refuse(t)) \/ (\E t \in Threads : TimeOut(t))
    BY <2>2 DEF Refuse, TimeOut
  <2>3. ASSUME NEW r \in late, ServeLate(r)
        PROVE  ServedInv'
    BY <2>3 DEF ServeLate, Accepts, Apply
  <2> QED BY <1>6, <2>1, <2>2, <2>3 DEF Network
<1>7. CASE Kill
  BY <1>7 DEF Kill
<1>8. CASE UNCHANGED vars
  BY <1>8 DEF vars
<1> QED
  BY <1>1, <1>2, <1>3, <1>4, <1>5, <1>6, <1>7, <1>8 DEF Next, Executor

\* At-least-once delivery: the two places where rows leave the queue for good are Delivered,
\* by ServedInv, and the purges of consent and reset.
LEMMA NothingLostStep ==
  ASSUME AndroidInv, [Next]_vars
  PROVE  NothingLost'
<1> USE DEF AndroidInv, TypeOK, NothingLost, ServedInv, ThreadsOK, RowsOK, EnqueueOver, Enqueue,
      Threads, prefs, keys, server, history, bounds
<1>1. CASE Host
  BY <1>1 DEF Host, Initialize, Measure, Revenue, Reset, Flush, UpdateConsent,
     SetCollectionEnabled
<1>2. CASE Task
  BY <1>2 DEF Task, RunInit, InstallEvent, OpenEvent, MarkDestination, MarkReferrer, RunMeasure,
     RunRevenue, RunFlush, RunConsent
<1>3. CASE ResetTask
  BY <1>3 DEF ResetTask, RunReset, DeleteAnswered, ClearQueue, ClearAfterDeletion,
     ReplaceInstallationId, ResetEnsure, ResetEnrolled, ResetInstall
<1>4. CASE StartWorker
  BY <1>4 DEF StartWorker
<1>5. CASE \E t \in Threads : Drain(t)
  BY <1>5 DEF Drain, Check, ReadCredential, Ensure, Enrolled, Select, Delivered, Count
<1>6. CASE Network
  <2>1. ASSUME NEW t \in Threads, Serve(t)
        PROVE  NothingLost'
    BY <2>1 DEF Serve, Accepts, Apply, RequestOf
  <2>2. CASE (\E t \in Threads : Refuse(t)) \/ (\E t \in Threads : TimeOut(t))
    BY <2>2 DEF Refuse, TimeOut
  <2>3. ASSUME NEW r \in late, ServeLate(r)
        PROVE  NothingLost'
    BY <2>3 DEF ServeLate, Accepts, Apply
  <2> QED BY <1>6, <2>1, <2>2, <2>3 DEF Network
<1>7. CASE Kill
  BY <1>7 DEF Kill
<1>8. CASE UNCHANGED vars
  BY <1>8 DEF vars
<1> QED
  BY <1>1, <1>2, <1>3, <1>4, <1>5, <1>6, <1>7, <1>8 DEF Next, Executor

-----------------------------------------------------------------------------
(* Identifier and credential *)

\* A thread works for an identifier that was generated.
LEMMA WhoInvStep ==
  ASSUME AndroidInv, [Next]_vars
  PROVE  WhoInv'
<1> USE DEF AndroidInv, TypeOK, WhoInv, PrefsOK, ThreadsOK, Threads, Draining, Known, Goto,
      Leave, ExecutorIs, Take, CredentialOfIdentity, prefs, keys, server, history, bounds
<1>1. CASE Host
  BY <1>1 DEF Host, Initialize, Measure, Revenue, Reset, Flush, UpdateConsent,
     SetCollectionEnabled
<1>2. CASE Task
  BY <1>2 DEF Task, RunInit, InstallEvent, OpenEvent, MarkDestination, MarkReferrer, RunMeasure,
     RunRevenue, RunFlush, RunConsent
<1>3. CASE ResetTask
  BY <1>3 DEF ResetTask, RunReset, DeleteAnswered, ClearQueue, ClearAfterDeletion,
     ReplaceInstallationId, ResetEnsure, ResetEnrolled, ResetInstall
<1>4. CASE StartWorker
  BY <1>4 DEF StartWorker
<1>5. CASE \E t \in Threads : Drain(t)
  BY <1>5 DEF Drain, Check, ReadCredential, Ensure, Enrolled, Select, Delivered, Count
<1>6. CASE Network
  BY <1>6 DEF Network, Serve, Refuse, TimeOut, ServeLate
<1>7. CASE Kill
  BY <1>7 DEF Kill
<1>8. CASE UNCHANGED vars
  BY <1>8 DEF vars
<1> QED
  BY <1>1, <1>2, <1>3, <1>4, <1>5, <1>6, <1>7, <1>8 DEF Next, Executor

\* The server never forgets: a late request can add to what it knows, not take away.
LEMMA ServerGrows ==
  ASSUME AndroidInv, [Next]_vars
  PROVE  active \cup deleted \subseteq active' \cup deleted' /\ deleted \subseteq deleted'
<1> USE DEF AndroidInv, TypeOK, Threads, prefs, keys, server, history, bounds
<1>1. ASSUME NEW r, r.kind \in Waiting, Apply(r)
      PROVE  active \cup deleted \subseteq active' \cup deleted' /\ deleted \subseteq deleted'
  BY <1>1 DEF Apply, Waiting
<1>2. CASE Network
  <2>1. ASSUME NEW t \in Threads, Serve(t)
        PROVE  active \cup deleted \subseteq active' \cup deleted' /\ deleted \subseteq deleted'
    BY <1>1, <2>1, RequestFacts DEF Serve
  <2>2. ASSUME NEW r \in late, ServeLate(r)
        PROVE  active \cup deleted \subseteq active' \cup deleted' /\ deleted \subseteq deleted'
    BY <1>1, <2>2 DEF ServeLate, RowsOK
  <2>3. ASSUME NEW t \in Threads, Refuse(t) \/ TimeOut(t)
        PROVE  UNCHANGED <<active, deleted>>
    BY <2>3 DEF Refuse, TimeOut
  <2> QED BY <1>2, <2>1, <2>2, <2>3 DEF Network
<1>3. CASE \/ Host \/ Task \/ ResetTask \/ StartWorker
           \/ (\E t \in Threads : Drain(t)) \/ Kill \/ UNCHANGED vars
  BY <1>3 DEF Host, Initialize, Measure, Revenue, Reset, Flush, UpdateConsent,
     SetCollectionEnabled, Task, RunInit, InstallEvent, OpenEvent, MarkDestination,
     MarkReferrer, RunMeasure, RunRevenue, RunFlush, RunConsent, ResetTask, RunReset,
     DeleteAnswered, ClearQueue, ClearAfterDeletion, ReplaceInstallationId, ResetEnsure,
     ResetEnrolled, ResetInstall, StartWorker, Drain, Check, ReadCredential, Ensure, Enrolled,
     Select, Delivered, Count, Kill, vars
<1> QED BY <1>2, <1>3 DEF Next, Executor

\* A stored credential was issued: Enrolled and ResetEnrolled store what AnswerInv describes.
LEMMA IssuedInvStep ==
  ASSUME AndroidInv, [Next]_vars
  PROVE  IssuedInv'
<1> USE DEF AndroidInv, TypeOK, KeyInv, IssuedInv, AnswerInv, DeletionInv, EnrolYes, WhoInv,
      PrefsOK, ThreadsOK, Threads, Goto, Leave, ExecutorIs, CredentialOfIdentity, Draining,
      prefs, keys, server, history, bounds
<1>1. active \cup deleted \subseteq active' \cup deleted' /\ deleted \subseteq deleted'
  BY ServerGrows
<1>2. CASE Host
  <2>1. CASE \/ Initialize
             \/ Measure
             \/ Reset
             \/ Flush
             \/ (\E kind \in {"withdrawn", "granted"} : UpdateConsent(kind))
             \/ (\E b \in BOOLEAN : SetCollectionEnabled(b))
    BY <1>1, <2>1 DEF Initialize, Measure, Reset, Flush, UpdateConsent, SetCollectionEnabled
  <2>2. CASE Revenue
    BY KnownFacts, <1>1, <2>2 DEF Revenue
  <2> QED BY <1>2, <2>1, <2>2 DEF Host
<1>3. CASE Task
  <2>1. ASSUME NEW p \in Plays, RunInit(p)
        PROVE  IssuedInv'
    BY KnownFacts, <1>1, <2>1 DEF RunInit, Take
  <2>2. CASE InstallEvent \/ OpenEvent \/ MarkDestination \/ MarkReferrer
    BY <1>1, <2>2 DEF InstallEvent, OpenEvent, MarkDestination, MarkReferrer
  <2>3. CASE RunMeasure
    BY KnownFacts, <1>1, <2>3 DEF RunMeasure, Take
  <2>4. CASE RunRevenue \/ RunFlush \/ (\E kind \in {"withdrawn", "granted"} : RunConsent(kind))
    BY <1>1, <2>4 DEF RunRevenue, RunFlush, RunConsent, Take
  <2> QED BY <1>3, <2>1, <2>2, <2>3, <2>4 DEF Task
<1>4. CASE ResetTask
  <2>1. CASE RunReset
    BY KnownFacts, <1>1, <2>1 DEF RunReset, Take
  <2>2. CASE \/ DeleteAnswered
             \/ ClearQueue
             \/ ClearAfterDeletion
             \/ ReplaceInstallationId
             \/ ResetEnsure
             \/ ResetEnrolled
             \/ ResetInstall
    BY <1>1, <2>2 DEF DeleteAnswered, ClearQueue, ClearAfterDeletion, ReplaceInstallationId,
       ResetEnsure, ResetEnrolled, ResetInstall
  <2> QED BY <1>4, <2>1, <2>2 DEF ResetTask
<1>5. CASE StartWorker
  BY <1>1, <1>5 DEF StartWorker
<1>6. CASE \E t \in Threads : Drain(t)
  <2>1. CASE \/ (\E t \in Threads : Check(t))
             \/ (\E t \in Threads : Ensure(t))
             \/ (\E t \in Threads : Enrolled(t))
             \/ (\E t \in Threads : Select(t))
             \/ (\E t \in Threads : Delivered(t))
             \/ (\E t \in Threads : Count(t))
    BY <1>1, <2>1 DEF Check, Ensure, Enrolled, Select, Delivered, Count
  <2>2. ASSUME NEW t \in Threads, ReadCredential(t)
        PROVE  IssuedInv'
    BY KnownFacts, <1>1, <2>2 DEF ReadCredential
  <2> QED BY <1>6, <2>1, <2>2 DEF Drain
<1>7. CASE Network
  BY <1>1, <1>7 DEF Network, Serve, Refuse, TimeOut, ServeLate
<1>8. CASE Kill
  BY <1>1, <1>8 DEF Kill
<1>9. CASE UNCHANGED vars
  BY <1>1, <1>9 DEF vars
<1> QED
  BY <1>2, <1>3, <1>4, <1>5, <1>6, <1>7, <1>8, <1>9 DEF Next, Executor

\* The server accepts an enrolment only for the identifier in use: earlier ones are deleted,
\* and one that is enrolled is refused.
LEMMA AnswerServed ==
  ASSUME AndroidInv, NEW t \in Threads, Serve(t),
         active \cup deleted \subseteq active' \cup deleted'
  PROVE  AnswerInv'
<1>1. /\ pc' = pc /\ who' = who /\ credential' = credential /\ installation' = installation
      /\ \A u \in Threads : u # t => call'[u] = call[u]
  BY DEF Serve, prefs, AndroidInv, TypeOK, ThreadsOK
<1>2. ASSUME ~EnrolYes(t)'
      PROVE  AnswerInv'
  BY <1>1, <1>2 DEF AnswerInv, EnrolYes, AndroidInv, KeyInv, Threads
<1>3. ASSUME EnrolYes(t)'
      PROVE  AnswerInv'
  <2>1. pc[t] \in {"enrolling", "resetEnrolling"} /\ Accepts(RequestOf(t)) /\ Apply(RequestOf(t))
    BY <1>1, <1>3 DEF Serve, EnrolYes, AndroidInv, TypeOK, ThreadsOK
  <2>2. who[t] \notin active \cup deleted /\ who[t] \in active'
    BY <2>1 DEF Accepts, Apply, RequestOf
  <2>3. who[t] \in 1..installation /\ installation \in Nat
    BY <2>1 DEF AndroidInv, TypeOK, PrefsOK, ThreadsOK, WhoInv, Threads, Draining
  <2>4. who[t] = installation
    BY <2>2, <2>3 DEF AndroidInv, AbandonedIsDeleted
  <2>5. credential = 0
    BY <2>2, <2>4 DEF AndroidInv, CredentialOfIdentity, KeyInv, IssuedInv
  <2>6. pc["executor"] \notin {"deleting", "clearQueue", "clearPrefs", "replace"}
    BY <2>2, <2>4 DEF AndroidInv, KeyInv, DeletionInv
  <2>7. \A u \in Threads : u # t => ~EnrolYes(u)
    BY <2>2, <2>4 DEF AndroidInv, KeyInv, AnswerInv
  <2> QED BY <1>1, <2>2, <2>4, <2>5, <2>6, <2>7 DEF AnswerInv, EnrolYes
<1> QED BY <1>2, <1>3

\* A successful enrolment whose answer is unread stays the only one.
LEMMA AnswerInvStep ==
  ASSUME AndroidInv, [Next]_vars
  PROVE  AnswerInv'
<1> USE DEF AndroidInv, TypeOK, KeyInv, IssuedInv, AnswerInv, DeletionInv, EnrolYes, WhoInv,
      PrefsOK, ThreadsOK, Threads, Goto, Leave, ExecutorIs, CredentialOfIdentity, Draining,
      prefs, keys, server, history, bounds
<1>1. active \cup deleted \subseteq active' \cup deleted' /\ deleted \subseteq deleted'
  BY ServerGrows
<1>2. CASE Host
  <2>1. CASE \/ Initialize
             \/ Measure
             \/ Reset
             \/ Flush
             \/ (\E kind \in {"withdrawn", "granted"} : UpdateConsent(kind))
             \/ (\E b \in BOOLEAN : SetCollectionEnabled(b))
    BY <1>1, <2>1 DEF Initialize, Measure, Reset, Flush, UpdateConsent, SetCollectionEnabled
  <2>2. CASE Revenue
    BY KnownFacts, <1>1, <2>2 DEF Revenue
  <2> QED BY <1>2, <2>1, <2>2 DEF Host
<1>3. CASE Task
  <2>1. ASSUME NEW p \in Plays, RunInit(p)
        PROVE  AnswerInv'
    BY KnownFacts, <1>1, <2>1 DEF RunInit, Take
  <2>2. CASE InstallEvent \/ OpenEvent \/ MarkDestination \/ MarkReferrer
    BY <1>1, <2>2 DEF InstallEvent, OpenEvent, MarkDestination, MarkReferrer
  <2>3. CASE RunMeasure
    BY KnownFacts, <1>1, <2>3 DEF RunMeasure, Take
  <2>4. CASE RunRevenue \/ RunFlush \/ (\E kind \in {"withdrawn", "granted"} : RunConsent(kind))
    BY <1>1, <2>4 DEF RunRevenue, RunFlush, RunConsent, Take
  <2> QED BY <1>3, <2>1, <2>2, <2>3, <2>4 DEF Task
<1>4. CASE ResetTask
  <2>1. CASE RunReset
    BY KnownFacts, <1>1, <2>1 DEF RunReset, Take
  <2>2. CASE \/ DeleteAnswered
             \/ ClearQueue
             \/ ClearAfterDeletion
             \/ ReplaceInstallationId
             \/ ResetEnsure
             \/ ResetEnrolled
             \/ ResetInstall
    BY <1>1, <2>2 DEF DeleteAnswered, ClearQueue, ClearAfterDeletion, ReplaceInstallationId,
       ResetEnsure, ResetEnrolled, ResetInstall
  <2> QED BY <1>4, <2>1, <2>2 DEF ResetTask
<1>5. CASE StartWorker
  BY <1>1, <1>5 DEF StartWorker
<1>6. CASE \E t \in Threads : Drain(t)
  <2>1. CASE \/ (\E t \in Threads : Check(t))
             \/ (\E t \in Threads : Ensure(t))
             \/ (\E t \in Threads : Enrolled(t))
             \/ (\E t \in Threads : Select(t))
             \/ (\E t \in Threads : Delivered(t))
             \/ (\E t \in Threads : Count(t))
    BY <1>1, <2>1 DEF Check, Ensure, Enrolled, Select, Delivered, Count
  <2>2. ASSUME NEW t \in Threads, ReadCredential(t)
        PROVE  AnswerInv'
    BY KnownFacts, <1>1, <2>2 DEF ReadCredential
  <2> QED BY <1>6, <2>1, <2>2 DEF Drain
<1>7. CASE Network
  <2>1. ASSUME NEW t \in Threads, Serve(t)
        PROVE  AnswerInv'
    BY <1>1, AnswerServed, <2>1 DEF Serve
  <2>2. CASE (\E t \in Threads : Refuse(t)) \/ (\E t \in Threads : TimeOut(t)) \/ (\E r \in late : ServeLate(r))
    BY <1>1, <2>2 DEF Refuse, TimeOut, ServeLate
  <2> QED BY <1>7, <2>1, <2>2 DEF Network
<1>8. CASE Kill
  BY <1>1, <1>8 DEF Kill
<1>9. CASE UNCHANGED vars
  BY <1>1, <1>9 DEF vars
<1> QED
  BY <1>2, <1>3, <1>4, <1>5, <1>6, <1>7, <1>8, <1>9 DEF Next, Executor

\* A reset deletes the identifier in use before it forgets it.
LEMMA DeletionInvStep ==
  ASSUME AndroidInv, [Next]_vars
  PROVE  DeletionInv'
<1> USE DEF AndroidInv, TypeOK, KeyInv, IssuedInv, AnswerInv, DeletionInv, EnrolYes, WhoInv,
      PrefsOK, ThreadsOK, Threads, Goto, Leave, ExecutorIs, CredentialOfIdentity, Draining,
      prefs, keys, server, history, bounds
<1>1. active \cup deleted \subseteq active' \cup deleted' /\ deleted \subseteq deleted'
  BY ServerGrows
<1>2. CASE Host
  <2>1. CASE \/ Initialize
             \/ Measure
             \/ Reset
             \/ Flush
             \/ (\E kind \in {"withdrawn", "granted"} : UpdateConsent(kind))
             \/ (\E b \in BOOLEAN : SetCollectionEnabled(b))
    BY <1>1, <2>1 DEF Initialize, Measure, Reset, Flush, UpdateConsent, SetCollectionEnabled
  <2>2. CASE Revenue
    BY KnownFacts, <1>1, <2>2 DEF Revenue
  <2> QED BY <1>2, <2>1, <2>2 DEF Host
<1>3. CASE Task
  <2>1. ASSUME NEW p \in Plays, RunInit(p)
        PROVE  DeletionInv'
    BY KnownFacts, <1>1, <2>1 DEF RunInit, Take
  <2>2. CASE InstallEvent \/ OpenEvent \/ MarkDestination \/ MarkReferrer
    BY <1>1, <2>2 DEF InstallEvent, OpenEvent, MarkDestination, MarkReferrer
  <2>3. CASE RunMeasure
    BY KnownFacts, <1>1, <2>3 DEF RunMeasure, Take
  <2>4. CASE RunRevenue \/ RunFlush \/ (\E kind \in {"withdrawn", "granted"} : RunConsent(kind))
    BY <1>1, <2>4 DEF RunRevenue, RunFlush, RunConsent, Take
  <2> QED BY <1>3, <2>1, <2>2, <2>3, <2>4 DEF Task
<1>4. CASE ResetTask
  <2>1. CASE RunReset
    BY KnownFacts, <1>1, <2>1 DEF RunReset, Take
  <2>2. CASE \/ DeleteAnswered
             \/ ClearQueue
             \/ ClearAfterDeletion
             \/ ReplaceInstallationId
             \/ ResetEnsure
             \/ ResetEnrolled
             \/ ResetInstall
    BY <1>1, <2>2 DEF DeleteAnswered, ClearQueue, ClearAfterDeletion, ReplaceInstallationId,
       ResetEnsure, ResetEnrolled, ResetInstall
  <2> QED BY <1>4, <2>1, <2>2 DEF ResetTask
<1>5. CASE StartWorker
  BY <1>1, <1>5 DEF StartWorker
<1>6. CASE \E t \in Threads : Drain(t)
  <2>1. CASE \/ (\E t \in Threads : Check(t))
             \/ (\E t \in Threads : Ensure(t))
             \/ (\E t \in Threads : Enrolled(t))
             \/ (\E t \in Threads : Select(t))
             \/ (\E t \in Threads : Delivered(t))
             \/ (\E t \in Threads : Count(t))
    BY <1>1, <2>1 DEF Check, Ensure, Enrolled, Select, Delivered, Count
  <2>2. ASSUME NEW t \in Threads, ReadCredential(t)
        PROVE  DeletionInv'
    BY KnownFacts, <1>1, <2>2 DEF ReadCredential
  <2> QED BY <1>6, <2>1, <2>2 DEF Drain
<1>7. CASE Network
  <2>1. ASSUME NEW t \in Threads, Serve(t)
        PROVE  DeletionInv'
    BY <1>1, <2>1 DEF Serve, Accepts, Apply, RequestOf
  <2>2. CASE (\E t \in Threads : Refuse(t)) \/ (\E t \in Threads : TimeOut(t)) \/ (\E r \in late : ServeLate(r))
    BY <1>1, <2>2 DEF Refuse, TimeOut, ServeLate
  <2> QED BY <1>7, <2>1, <2>2 DEF Network
<1>8. CASE Kill
  BY <1>1, <1>8 DEF Kill
<1>9. CASE UNCHANGED vars
  BY <1>1, <1>9 DEF vars
<1> QED
  BY <1>2, <1>3, <1>4, <1>5, <1>6, <1>7, <1>8, <1>9 DEF Next, Executor

\* The credential follows the identifier.
LEMMA CredentialOfIdentityStep ==
  ASSUME AndroidInv, [Next]_vars
  PROVE  CredentialOfIdentity'
<1> USE DEF AndroidInv, TypeOK, CredentialOfIdentity, KeyInv, AnswerInv, DeletionInv, EnrolYes,
      PrefsOK, ThreadsOK, Threads, Known, ExecutorIs, prefs, keys, server, history, bounds
<1>1. CASE Host
  BY <1>1 DEF Host, Initialize, Measure, Revenue, Reset, Flush, UpdateConsent,
     SetCollectionEnabled
<1>2. CASE Task
  BY <1>2 DEF Task, RunInit, InstallEvent, OpenEvent, MarkDestination, MarkReferrer, RunMeasure,
     RunRevenue, RunFlush, RunConsent
<1>3. CASE ResetTask
  BY <1>3 DEF ResetTask, RunReset, DeleteAnswered, ClearQueue, ClearAfterDeletion,
     ReplaceInstallationId, ResetEnsure, ResetEnrolled, ResetInstall
<1>4. CASE StartWorker
  BY <1>4 DEF StartWorker
<1>5. CASE \E t \in Threads : Drain(t)
  BY <1>5 DEF Drain, Check, ReadCredential, Ensure, Enrolled, Select, Delivered, Count
<1>6. CASE Network
  BY <1>6 DEF Network, Serve, Refuse, TimeOut, ServeLate
<1>7. CASE Kill
  BY <1>7 DEF Kill
<1>8. CASE UNCHANGED vars
  BY <1>8 DEF vars
<1> QED
  BY <1>1, <1>2, <1>3, <1>4, <1>5, <1>6, <1>7, <1>8 DEF Next, Executor

-----------------------------------------------------------------------------
(* Rows and tasks *)

\* Rows stay below the identifier and the counter, which a reset clears after them.
LEMMA RowsNumberedStep ==
  ASSUME AndroidInv, [Next]_vars
  PROVE  RowsNumbered'
<1> USE DEF AndroidInv, TypeOK, RowsInv, PrefsOK, prefs, keys, server, history, bounds
<1>1. CASE Host
  <2>1. CASE \/ Initialize
             \/ Measure
             \/ Reset
             \/ Flush
             \/ (\E kind \in {"withdrawn", "granted"} : UpdateConsent(kind))
             \/ (\E b \in BOOLEAN : SetCollectionEnabled(b))
    BY <2>1 DEF Initialize, Measure, Reset, Flush, UpdateConsent, SetCollectionEnabled,
       RowsNumbered, RowsOK, QueuedEvents
  <2>2. CASE Revenue
    BY KnownFacts, <2>2 DEF Revenue, RowsNumbered, RowsOK, QueuedEvents
  <2> QED BY <1>1, <2>1, <2>2 DEF Host
<1>2. CASE Task
  <2>1. ASSUME NEW p \in Plays, RunInit(p)
        PROVE  RowsNumbered'
    BY KnownFacts, <2>1 DEF RunInit, RowsNumbered, RowsOK, QueuedEvents
  <2>2. CASE InstallEvent \/ OpenEvent
    BY EnqueueNumbered, <2>2 DEF InstallEvent, OpenEvent, Enqueue, ThreadsOK, Threads, WhoInv,
       ExecutorIs
  <2>3. CASE MarkDestination \/ MarkReferrer \/ RunFlush
    BY <2>3 DEF MarkDestination, MarkReferrer, RunFlush, RowsNumbered, RowsOK, QueuedEvents
  <2>4. CASE RunMeasure
    BY EnqueueNumbered, KnownFacts, <2>4 DEF RunMeasure, Enqueue
  <2>5. CASE RunRevenue
    BY EnqueueNumbered, TakeFacts, JobsKept, <2>5 DEF RunRevenue, Enqueue, Jobs
  <2>6. ASSUME NEW kind \in {"withdrawn", "granted"}, RunConsent(kind)
        PROVE  RowsNumbered'
    BY EnqueueNumbered, <2>6 DEF RunConsent
  <2> QED BY <1>2, <2>1, <2>2, <2>3, <2>4, <2>5, <2>6 DEF Task
<1>3. CASE ResetTask
  <2>1. CASE RunReset
    BY KnownFacts, <2>1 DEF RunReset, RowsNumbered, RowsOK, QueuedEvents
  <2>2. CASE \/ DeleteAnswered
             \/ ClearQueue
             \/ ReplaceInstallationId
             \/ ResetEnsure
             \/ ResetEnrolled
    BY <2>2 DEF DeleteAnswered, ClearQueue, ReplaceInstallationId, ResetEnsure, ResetEnrolled,
       RowsNumbered, RowsOK, QueuedEvents
  <2>3. CASE ClearAfterDeletion
    BY <2>3 DEF ClearAfterDeletion, ClearedInv, ExecutorIs, RowsNumbered, RowsOK, QueuedEvents
  <2>4. CASE ResetInstall
    BY EnqueueNumbered, <2>4 DEF ResetInstall, Enqueue, ThreadsOK, Threads, WhoInv, ExecutorIs
  <2> QED BY <1>3, <2>1, <2>2, <2>3, <2>4 DEF ResetTask
<1>4. CASE StartWorker
  BY <1>4 DEF StartWorker, RowsNumbered, RowsOK, QueuedEvents
<1>5. CASE \E t \in Threads : Drain(t)
  <2>1. CASE \/ (\E t \in Threads : Check(t))
             \/ (\E t \in Threads : Ensure(t))
             \/ (\E t \in Threads : Enrolled(t))
             \/ (\E t \in Threads : Select(t))
             \/ (\E t \in Threads : Delivered(t))
             \/ (\E t \in Threads : Count(t))
    BY <2>1 DEF Check, Ensure, Enrolled, Select, Delivered, Count, RowsNumbered, RowsOK,
       QueuedEvents
  <2>2. ASSUME NEW t \in Threads, ReadCredential(t)
        PROVE  RowsNumbered'
    BY KnownFacts, <2>2 DEF ReadCredential, RowsNumbered, RowsOK, QueuedEvents
  <2> QED BY <1>5, <2>1, <2>2 DEF Drain
<1>6. CASE Network
  BY <1>6 DEF Network, Serve, Refuse, TimeOut, ServeLate, RowsNumbered, RowsOK, QueuedEvents
<1>7. CASE Kill
  BY <1>7 DEF Kill, RowsNumbered, RowsOK, QueuedEvents
<1>8. CASE UNCHANGED vars
  BY <1>8 DEF vars, RowsNumbered, RowsOK, QueuedEvents
<1> QED
  BY <1>1, <1>2, <1>3, <1>4, <1>5, <1>6, <1>7, <1>8 DEF Next, Executor

\* Tasks name identifiers that exist.
LEMMA JobsInvStep ==
  ASSUME AndroidInv, [Next]_vars
  PROVE  JobsInv'
<1> USE DEF AndroidInv, TypeOK, RowsInv, PrefsOK, prefs, keys, server, history, bounds
<1>1. CASE Host
  <2>1. CASE \/ Initialize
             \/ Measure
             \/ Reset
             \/ Flush
             \/ (\E kind \in {"withdrawn", "granted"} : UpdateConsent(kind))
             \/ (\E b \in BOOLEAN : SetCollectionEnabled(b))
    BY JobsSubmitted, JobsKept, <2>1 DEF Initialize, Measure, Reset, Flush, UpdateConsent,
       SetCollectionEnabled
  <2>2. CASE Revenue
    BY JobsSubmitted, KnownFacts, <2>2 DEF Revenue
  <2> QED BY <1>1, <2>1, <2>2 DEF Host
<1>2. CASE Task
  <2>1. ASSUME NEW p \in Plays, RunInit(p)
        PROVE  JobsInv'
    BY JobsKept, KnownFacts, <2>1 DEF RunInit
  <2>2. CASE \/ InstallEvent
             \/ OpenEvent
             \/ MarkDestination
             \/ MarkReferrer
             \/ RunRevenue
             \/ RunFlush
             \/ (\E kind \in {"withdrawn", "granted"} : RunConsent(kind))
    BY JobsKept, <2>2 DEF InstallEvent, OpenEvent, MarkDestination, MarkReferrer, RunRevenue,
       RunFlush, RunConsent
  <2>3. CASE RunMeasure
    BY JobsKept, KnownFacts, <2>3 DEF RunMeasure
  <2> QED BY <1>2, <2>1, <2>2, <2>3 DEF Task
<1>3. CASE ResetTask
  <2>1. CASE RunReset
    BY JobsKept, KnownFacts, <2>1 DEF RunReset
  <2>2. CASE \/ DeleteAnswered
             \/ ClearQueue
             \/ ClearAfterDeletion
             \/ ReplaceInstallationId
             \/ ResetEnsure
             \/ ResetEnrolled
             \/ ResetInstall
    BY JobsKept, <2>2 DEF DeleteAnswered, ClearQueue, ClearAfterDeletion, ReplaceInstallationId,
       ResetEnsure, ResetEnrolled, ResetInstall
  <2> QED BY <1>3, <2>1, <2>2 DEF ResetTask
<1>4. CASE StartWorker
  BY JobsKept, <1>4 DEF StartWorker
<1>5. CASE \E t \in Threads : Drain(t)
  <2>1. ASSUME NEW t \in Threads, Check(t)
        PROVE  JobsInv'
    BY JobsKept, <2>1 DEF Check
  <2>2. ASSUME NEW t \in Threads, ReadCredential(t)
        PROVE  JobsInv'
    BY JobsKept, KnownFacts, <2>2 DEF ReadCredential
  <2>3. ASSUME NEW t \in Threads, Ensure(t)
        PROVE  JobsInv'
    BY JobsKept, <2>3 DEF Ensure
  <2>4. ASSUME NEW t \in Threads, Enrolled(t)
        PROVE  JobsInv'
    BY JobsKept, <2>4 DEF Enrolled
  <2>5. ASSUME NEW t \in Threads, Select(t)
        PROVE  JobsInv'
    BY JobsKept, <2>5 DEF Select
  <2>6. ASSUME NEW t \in Threads, Delivered(t)
        PROVE  JobsInv'
    BY JobsKept, <2>6 DEF Delivered
  <2>7. ASSUME NEW t \in Threads, Count(t)
        PROVE  JobsInv'
    BY JobsKept, <2>7 DEF Count
  <2> QED BY <1>5, <2>1, <2>2, <2>3, <2>4, <2>5, <2>6, <2>7 DEF Drain
<1>6. CASE Network
  BY JobsKept, <1>6 DEF Network, Serve, Refuse, TimeOut, ServeLate
<1>7. CASE Kill
  BY JobsKept, <1>7 DEF Kill
<1>8. CASE UNCHANGED vars
  BY JobsKept, <1>8 DEF vars
<1> QED
  BY <1>1, <1>2, <1>3, <1>4, <1>5, <1>6, <1>7, <1>8 DEF Next, Executor

\* Between the two clearings of a reset nothing is queued: only the executor queues.
LEMMA ClearedInvStep ==
  ASSUME AndroidInv, [Next]_vars
  PROVE  ClearedInv'
<1> USE DEF AndroidInv, TypeOK, RowsInv, ClearedInv, ThreadsOK, Threads, Goto, ExecutorIs,
      Leave, Draining, Take, prefs, keys, server, history, bounds
<1>1. CASE Host
  BY <1>1 DEF Host, Initialize, Measure, Revenue, Reset, Flush, UpdateConsent,
     SetCollectionEnabled
<1>2. CASE Task
  BY <1>2 DEF Task, RunInit, InstallEvent, OpenEvent, MarkDestination, MarkReferrer, RunMeasure,
     RunRevenue, RunFlush, RunConsent
<1>3. CASE ResetTask
  BY <1>3 DEF ResetTask, RunReset, DeleteAnswered, ClearQueue, ClearAfterDeletion,
     ReplaceInstallationId, ResetEnsure, ResetEnrolled, ResetInstall
<1>4. CASE StartWorker
  BY <1>4 DEF StartWorker
<1>5. CASE \E t \in Threads : Drain(t)
  BY <1>5 DEF Drain, Check, ReadCredential, Ensure, Enrolled, Select, Delivered, Count
<1>6. CASE Network
  BY <1>6 DEF Network, Serve, Refuse, TimeOut, ServeLate
<1>7. CASE Kill
  BY <1>7 DEF Kill
<1>8. CASE UNCHANGED vars
  BY <1>8 DEF vars
<1> QED
  BY <1>1, <1>2, <1>3, <1>4, <1>5, <1>6, <1>7, <1>8 DEF Next, Executor

\* A change of identifier finds the queue empty.
LEMMA QueueOfIdentityStep ==
  ASSUME AndroidInv, [Next]_vars
  PROVE  QueueOfIdentity'
<1> USE DEF AndroidInv, TypeOK, RowsInv, PrefsOK, prefs, keys, server, history, bounds
<1>1. CASE Host
  <2>1. CASE \/ Initialize
             \/ Measure
             \/ Reset
             \/ Flush
             \/ (\E kind \in {"withdrawn", "granted"} : UpdateConsent(kind))
             \/ (\E b \in BOOLEAN : SetCollectionEnabled(b))
    BY <2>1 DEF Initialize, Measure, Reset, Flush, UpdateConsent, SetCollectionEnabled,
       QueueOfIdentity
  <2>2. CASE Revenue
    BY KnownFacts, <2>2 DEF Revenue, RowsNumbered, RowsOK, QueuedEvents, QueueOfIdentity
  <2> QED BY <1>1, <2>1, <2>2 DEF Host
<1>2. CASE Task
  <2>1. ASSUME NEW p \in Plays, RunInit(p)
        PROVE  QueueOfIdentity'
    BY KnownFacts, <2>1 DEF RunInit, RowsNumbered, RowsOK, QueuedEvents, QueueOfIdentity
  <2>2. CASE InstallEvent \/ OpenEvent
    BY EnqueueIdentity, <2>2 DEF InstallEvent, OpenEvent, Enqueue, ThreadsOK, Threads, WhoInv,
       ExecutorIs
  <2>3. CASE MarkDestination \/ MarkReferrer \/ RunFlush
    BY <2>3 DEF MarkDestination, MarkReferrer, RunFlush, QueueOfIdentity
  <2>4. CASE RunMeasure
    BY EnqueueIdentity, KnownFacts, <2>4 DEF RunMeasure, Enqueue
  <2>5. CASE RunRevenue
    BY EnqueueIdentity, TakeFacts, <2>5 DEF RunRevenue, Enqueue, Jobs
  <2>6. ASSUME NEW kind \in {"withdrawn", "granted"}, RunConsent(kind)
        PROVE  QueueOfIdentity'
    BY EnqueueIdentity, <2>6 DEF RunConsent
  <2> QED BY <1>2, <2>1, <2>2, <2>3, <2>4, <2>5, <2>6 DEF Task
<1>3. CASE ResetTask
  <2>1. CASE RunReset
    BY KnownFacts, <2>1 DEF RunReset, RowsNumbered, RowsOK, QueuedEvents, QueueOfIdentity
  <2>2. CASE \/ DeleteAnswered
             \/ ClearQueue
             \/ ClearAfterDeletion
             \/ ResetEnsure
             \/ ResetEnrolled
    BY <2>2 DEF DeleteAnswered, ClearQueue, ClearAfterDeletion, ResetEnsure, ResetEnrolled,
       QueueOfIdentity
  <2>3. CASE ReplaceInstallationId
    BY <2>3 DEF ReplaceInstallationId, ClearedInv, ExecutorIs, QueueOfIdentity
  <2>4. CASE ResetInstall
    BY EnqueueIdentity, <2>4 DEF ResetInstall, Enqueue, ThreadsOK, Threads, WhoInv, ExecutorIs
  <2> QED BY <1>3, <2>1, <2>2, <2>3, <2>4 DEF ResetTask
<1>4. CASE StartWorker
  BY <1>4 DEF StartWorker, QueueOfIdentity
<1>5. CASE \E t \in Threads : Drain(t)
  <2>1. CASE \/ (\E t \in Threads : Check(t))
             \/ (\E t \in Threads : Ensure(t))
             \/ (\E t \in Threads : Enrolled(t))
             \/ (\E t \in Threads : Select(t))
             \/ (\E t \in Threads : Delivered(t))
             \/ (\E t \in Threads : Count(t))
    BY <2>1 DEF Check, Ensure, Enrolled, Select, Delivered, Count, QueueOfIdentity
  <2>2. ASSUME NEW t \in Threads, ReadCredential(t)
        PROVE  QueueOfIdentity'
    BY KnownFacts, <2>2 DEF ReadCredential, RowsNumbered, RowsOK, QueuedEvents, QueueOfIdentity
  <2> QED BY <1>5, <2>1, <2>2 DEF Drain
<1>6. CASE Network
  BY <1>6 DEF Network, Serve, Refuse, TimeOut, ServeLate, QueueOfIdentity
<1>7. CASE Kill
  BY <1>7 DEF Kill, QueueOfIdentity
<1>8. CASE UNCHANGED vars
  BY <1>8 DEF vars, QueueOfIdentity
<1> QED
  BY <1>1, <1>2, <1>3, <1>4, <1>5, <1>6, <1>7, <1>8 DEF Next, Executor

\* A new row is numbered above every row.
LEMMA SequencesDistinctStep ==
  ASSUME AndroidInv, [Next]_vars
  PROVE  SequencesDistinct'
<1> USE DEF AndroidInv, TypeOK, SequencesDistinct, RowsInv, RowsNumbered, RowsOK, PrefsOK,
      QueuedEvents, EnqueueOver, Enqueue, prefs, keys, server, history, bounds
<1>1. CASE Host
  BY <1>1 DEF Host, Initialize, Measure, Revenue, Reset, Flush, UpdateConsent,
     SetCollectionEnabled
<1>2. CASE Task
  BY <1>2 DEF Task, RunInit, InstallEvent, OpenEvent, MarkDestination, MarkReferrer, RunMeasure,
     RunRevenue, RunFlush, RunConsent
<1>3. CASE ResetTask
  BY <1>3 DEF ResetTask, RunReset, DeleteAnswered, ClearQueue, ClearAfterDeletion,
     ReplaceInstallationId, ResetEnsure, ResetEnrolled, ResetInstall
<1>4. CASE StartWorker
  BY <1>4 DEF StartWorker
<1>5. CASE \E t \in Threads : Drain(t)
  BY <1>5 DEF Drain, Check, ReadCredential, Ensure, Enrolled, Select, Delivered, Count
<1>6. CASE Network
  BY <1>6 DEF Network, Serve, Refuse, TimeOut, ServeLate
<1>7. CASE Kill
  BY <1>7 DEF Kill
<1>8. CASE UNCHANGED vars
  BY <1>8 DEF vars
<1> QED
  BY <1>1, <1>2, <1>3, <1>4, <1>5, <1>6, <1>7, <1>8 DEF Next, Executor

\* An identifier is replaced, and rows are forgotten, after the deletion was accepted.
LEMMA AbandonedIsDeletedStep ==
  ASSUME AndroidInv, [Next]_vars
  PROVE  AbandonedIsDeleted'
<1> USE DEF AndroidInv, TypeOK, AbandonedIsDeleted, KeyInv, DeletionInv, RowsInv, RowsNumbered,
      WhoInv, ThreadsOK, Threads, PrefsOK, RowsOK, QueuedEvents, ExecutorIs, Known, prefs, keys,
      server, history, bounds
<1>1. deleted \subseteq deleted'
  BY ServerGrows
<1>2. CASE Host
  BY <1>1, <1>2 DEF Host, Initialize, Measure, Revenue, Reset, Flush, UpdateConsent,
     SetCollectionEnabled
<1>3. CASE Task
  BY <1>1, <1>3 DEF Task, RunInit, InstallEvent, OpenEvent, MarkDestination, MarkReferrer,
     RunMeasure, RunRevenue, RunFlush, RunConsent
<1>4. CASE ResetTask
  BY <1>1, <1>4 DEF ResetTask, RunReset, DeleteAnswered, ClearQueue, ClearAfterDeletion,
     ReplaceInstallationId, ResetEnsure, ResetEnrolled, ResetInstall
<1>5. CASE StartWorker
  BY <1>1, <1>5 DEF StartWorker
<1>6. CASE \E t \in Threads : Drain(t)
  <2>1. ASSUME NEW t \in Threads, Check(t)
        PROVE  AbandonedIsDeleted'
    BY <1>1, <2>1 DEF Check
  <2>2. ASSUME NEW t \in Threads, ReadCredential(t)
        PROVE  AbandonedIsDeleted'
    BY <1>1, <2>2 DEF ReadCredential
  <2>3. ASSUME NEW t \in Threads, Ensure(t)
        PROVE  AbandonedIsDeleted'
    BY <1>1, <2>3 DEF Ensure
  <2>4. ASSUME NEW t \in Threads, Enrolled(t)
        PROVE  AbandonedIsDeleted'
    BY <1>1, <2>4 DEF Enrolled
  <2>5. ASSUME NEW t \in Threads, Select(t)
        PROVE  AbandonedIsDeleted'
    BY <1>1, <2>5 DEF Select
  <2>6. ASSUME NEW t \in Threads, Delivered(t)
        PROVE  AbandonedIsDeleted'
    BY <1>1, <2>6 DEF Delivered
  <2>7. ASSUME NEW t \in Threads, Count(t)
        PROVE  AbandonedIsDeleted'
    BY <1>1, <2>7 DEF Count
  <2> QED BY <1>6, <2>1, <2>2, <2>3, <2>4, <2>5, <2>6, <2>7 DEF Drain
<1>7. CASE Network
  BY <1>1, <1>7 DEF Network, Serve, Refuse, TimeOut, ServeLate
<1>8. CASE Kill
  BY <1>1, <1>8 DEF Kill
<1>9. CASE UNCHANGED vars
  BY <1>1, <1>9 DEF vars
<1> QED
  BY <1>2, <1>3, <1>4, <1>5, <1>6, <1>7, <1>8, <1>9 DEF Next, Executor

-----------------------------------------------------------------------------
(* The theorems *)

\* A device on which the SDK never ran satisfies the invariant.
LEMMA InitInv ==
  Init => AndroidInv
<1> SUFFICES ASSUME Init PROVE AndroidInv
  OBVIOUS
<1> USE DEF Init, Threads
<1>1. TypeOK
  <2>1. PrefsOK /\ RowsOK
    BY DEF PrefsOK, RowsOK
  <2>2. ThreadsOK
    BY DEF ThreadsOK, Pcs, Waiting, Draining
  <2>3. jobs \in Seq(Jobs)
    OBVIOUS
  <2> QED BY <2>1, <2>2, <2>3 DEF TypeOK, ProcessOK
<1>2. NothingLost /\ CredentialOfIdentity /\ AbandonedIsDeleted /\ QueueOfIdentity /\ SequencesDistinct
  BY DEF NothingLost, CredentialOfIdentity, AbandonedIsDeleted, QueueOfIdentity, SequencesDistinct
<1>3. ServedInv /\ WhoInv /\ KeyInv
  BY DEF ServedInv, WhoInv, KeyInv, IssuedInv, AnswerInv, DeletionInv, EnrolYes
<1>4. RowsInv
  <2>1. Len(jobs) = 0
    OBVIOUS
  <2> QED BY <2>1 DEF RowsInv, RowsNumbered, JobsInv, ClearedInv
<1> QED BY <1>1, <1>2, <1>3, <1>4 DEF AndroidInv

\* Every step of the host, the threads, the server, the network and the kernel keeps it.
LEMMA StepInv ==
  AndroidInv /\ [Next]_vars => AndroidInv'
<1> SUFFICES ASSUME AndroidInv, [Next]_vars PROVE AndroidInv'
  OBVIOUS
<1>1. TypeOK'
  BY PrefsOKStep, RowsOKStep, ThreadsOKStep, ProcessOKStep DEF TypeOK
<1>2. NothingLost' /\ CredentialOfIdentity' /\ AbandonedIsDeleted' /\ QueueOfIdentity' /\ SequencesDistinct'
  BY NothingLostStep, CredentialOfIdentityStep, AbandonedIsDeletedStep, QueueOfIdentityStep,
     SequencesDistinctStep
<1>3. ServedInv' /\ WhoInv'
  BY ServedInvStep, WhoInvStep
<1>4. KeyInv'
  BY IssuedInvStep, AnswerInvStep, DeletionInvStep DEF KeyInv
<1>5. RowsInv'
  BY RowsNumberedStep, JobsInvStep, ClearedInvStep DEF RowsInv
<1> QED BY <1>1, <1>2, <1>3, <1>4, <1>5 DEF AndroidInv

\* The invariant holds in every reachable state of the SDK, whatever is lost, late, killed or
\* drained twice.
THEOREM AndroidInductive == Spec => []AndroidInv
BY InitInv, StepInv, PTL DEF Spec

\* The state keeps its type, and a thread waits for an answer exactly where the code does.
THEOREM AndroidTypes == Spec => []TypeOK
<1>1. AndroidInv => TypeOK
  BY DEF AndroidInv
<1> QED BY <1>1, AndroidInductive, PTL

\* At-least-once delivery (drain, updateConsent, resetInstallationId).
THEOREM Delivery == Spec => []NothingLost
<1>1. AndroidInv => NothingLost
  BY DEF AndroidInv
<1> QED BY <1>1, AndroidInductive, PTL

\* The stored credential belongs to the identifier in use (ensureCredential).
THEOREM Credential == Spec => []CredentialOfIdentity
<1>1. AndroidInv => CredentialOfIdentity
  BY DEF AndroidInv
<1> QED BY <1>1, AndroidInductive, PTL

\* What the device gives up was deleted at the server before (resetInstallationId).
THEOREM Abandoned == Spec => []AbandonedIsDeleted
<1>1. AndroidInv => AbandonedIsDeleted
  BY DEF AndroidInv
<1> QED BY <1>1, AndroidInductive, PTL

\* The rows the SDK builds itself name the identifier in use (enqueueJson).
THEOREM Identity == Spec => []QueueOfIdentity
<1>1. AndroidInv => QueueOfIdentity
  BY DEF AndroidInv
<1> QED BY <1>1, AndroidInductive, PTL

\* Rows are read in the order in which they were queued (nextSequence, pending).
THEOREM Order == Spec => []SequencesDistinct
<1>1. AndroidInv => SequencesDistinct
  BY DEF AndroidInv
<1> QED BY <1>1, AndroidInductive, PTL

-----------------------------------------------------------------------------
(* Signed requests (RequestNonce) *)

\* No request is claimed, in flight or remembered when the API starts.
LEMMA InitReplayInv == NonceInit => ReplayInv
  BY ConfigAssumption
  DEF NonceInit, ReplayInv, NonceTypeOK, HandlersInWindow, NoncesOutliveWindow,
      SpentIsRemembered, Spent, OneClaim, AcceptedAtMostOnce, Idle, Checking, Claimed

\* The timestamp check puts the handler inside the window of its request.
LEMMA CheckTimestampInv ==
  ASSUME NEW h \in Handlers, NEW r \in Requests, ReplayInv, CheckTimestamp(h, r)
  PROVE  ReplayInv'
<1> USE DEF Checking, Claimed, Idle
<1>1. NonceTypeOK'
  BY ConfigAssumption DEF ReplayInv, NonceTypeOK, CheckTimestamp
<1>2. HandlersInWindow'
  <2>1. /\ handler'[h] = [req |-> r, at |-> now, claimed |-> FALSE]
        /\ \A g \in Handlers \ {h} : handler'[g] = handler[g]
        /\ UNCHANGED <<now, stamp>>
        /\ now - stamp[r] <= Skew /\ stamp[r] - now <= Skew
        /\ now \in Nat /\ stamp[r] \in Nat
    BY ConfigAssumption DEF ReplayInv, NonceTypeOK, CheckTimestamp
  <2>2. /\ r \in Requests
        /\ handler'[h].req = r /\ handler'[h].at = now /\ ~handler'[h].claimed
    BY <2>1
  <2>3. now <= stamp[r] + Skew /\ stamp[r] <= now + Skew /\ now <= now + Latency
    BY <2>1, ConfigAssumption
  <2>4. ASSUME NEW g \in Handlers \ {h}
        PROVE  /\ handler'[g] # Idle /\ ~handler'[g].claimed =>
                   /\ handler'[g].req \in Requests
                   /\ handler'[g].at <= stamp[handler'[g].req] + Skew
                   /\ stamp[handler'[g].req] <= handler'[g].at + Skew
                   /\ now <= handler'[g].at + Latency
               /\ handler'[g].claimed => handler'[g].req \in Requests
    BY <2>1 DEF ReplayInv, HandlersInWindow
  <2> QED BY <2>1, <2>2, <2>3, <2>4 DEF HandlersInWindow
<1>3. /\ UNCHANGED <<now, stamp, nonces, accepted>>
      /\ \A g \in Handlers : Claimed(g)' => Claimed(g) /\ handler'[g] = handler[g]
  BY DEF CheckTimestamp, ReplayInv, NonceTypeOK
<1>4. NoncesOutliveWindow' /\ AcceptedAtMostOnce'
  BY <1>3 DEF ReplayInv, NoncesOutliveWindow, AcceptedAtMostOnce
<1>5. SpentIsRemembered'
  BY <1>3 DEF ReplayInv, SpentIsRemembered, Spent
<1>6. OneClaim'
  BY <1>3 DEF ReplayInv, OneClaim
<1> QED BY <1>1, <1>2, <1>4, <1>5, <1>6 DEF ReplayInv

\* A handler that gives up forgets its request; the row it committed stays.
LEMMA HandlerFailsInv ==
  ASSUME NEW h \in Handlers, ReplayInv, HandlerFails(h)
  PROVE  ReplayInv'
<1> USE DEF Checking, Claimed, Idle
<1>1. NonceTypeOK'
  BY ConfigAssumption DEF ReplayInv, NonceTypeOK, HandlerFails
<1>2. HandlersInWindow'
  BY ConfigAssumption DEF ReplayInv, NonceTypeOK, HandlersInWindow, HandlerFails
<1>3. /\ UNCHANGED <<now, stamp, nonces, accepted>>
      /\ \A g \in Handlers : Claimed(g)' => Claimed(g) /\ handler'[g] = handler[g]
  BY DEF HandlerFails, ReplayInv, NonceTypeOK
<1>4. NoncesOutliveWindow' /\ AcceptedAtMostOnce'
  BY <1>3 DEF ReplayInv, NoncesOutliveWindow, AcceptedAtMostOnce
<1>5. SpentIsRemembered'
  BY <1>3 DEF ReplayInv, SpentIsRemembered, Spent
<1>6. OneClaim'
  BY <1>3 DEF ReplayInv, OneClaim
<1> QED BY <1>1, <1>2, <1>4, <1>5, <1>6 DEF ReplayInv

\* Time only passes while no handler has exhausted its latency.
LEMMA TickInv ==
  ASSUME ReplayInv, Tick
  PROVE  ReplayInv'
<1>1. NonceTypeOK'
  BY ConfigAssumption DEF ReplayInv, NonceTypeOK, Tick
<1>2. HandlersInWindow'
  BY ConfigAssumption DEF ReplayInv, NonceTypeOK, HandlersInWindow, Tick, Checking, Claimed, Idle
<1>3. NoncesOutliveWindow' /\ AcceptedAtMostOnce' /\ OneClaim'
  BY DEF ReplayInv, NoncesOutliveWindow, AcceptedAtMostOnce, OneClaim, Claimed, Tick
<1>4. SpentIsRemembered'
  BY ConfigAssumption DEF ReplayInv, NonceTypeOK, SpentIsRemembered, Spent, Claimed, Tick
<1> QED BY <1>1, <1>2, <1>3, <1>4 DEF ReplayInv

\* verifySdkRequest returns for the only handler that claimed the request.
LEMMA ReturnInv ==
  ASSUME NEW h \in Handlers, ReplayInv, Return(h)
  PROVE  ReplayInv'
<1> USE DEF Checking, Claimed, Idle
<1> DEFINE r == handler[h].req
<1>1. /\ r \in Requests
      /\ accepted[r] = 0
      /\ \A g \in Handlers : Claimed(g) /\ handler[g].req = r => g = h
      /\ accepted' = [accepted EXCEPT ![r] = @ + 1]
      /\ handler' = [handler EXCEPT ![h] = Idle]
      /\ UNCHANGED <<now, stamp, nonces>>
  BY DEF ReplayInv, HandlersInWindow, OneClaim, Return
<1>2. /\ accepted'[r] = 1
      /\ \A q \in Requests : q # r => accepted'[q] = accepted[q]
      /\ \A g \in Handlers : Claimed(g)' => Claimed(g) /\ handler'[g] = handler[g] /\ g # h
  BY <1>1 DEF ReplayInv, NonceTypeOK
<1>3. NonceTypeOK'
  BY <1>1, ConfigAssumption DEF ReplayInv, NonceTypeOK
<1>4. HandlersInWindow'
  BY <1>1, ConfigAssumption DEF ReplayInv, NonceTypeOK, HandlersInWindow
<1>5. NoncesOutliveWindow' /\ AcceptedAtMostOnce'
  BY <1>1, <1>2 DEF ReplayInv, NonceTypeOK, NoncesOutliveWindow, AcceptedAtMostOnce
<1>6. SpentIsRemembered'
  <2> SUFFICES ASSUME NEW q \in Requests, Spent(q)'
               PROVE  (\E n \in nonces : n.req = q) \/ now > stamp[q] + Skew + Latency
    BY <1>1 DEF SpentIsRemembered
  <2>1. Spent(q)
    BY <1>2, Return(h) DEF Spent, Return
  <2> QED BY <2>1 DEF ReplayInv, SpentIsRemembered
<1>7. OneClaim'
  <2> SUFFICES ASSUME NEW g \in Handlers, Claimed(g)'
               PROVE  /\ accepted'[handler'[g].req] = 0
                      /\ \A k \in Handlers : Claimed(k)' /\ handler'[k].req = handler'[g].req => k = g
    BY DEF OneClaim
  <2>1. Claimed(g) /\ handler'[g] = handler[g] /\ handler[g].req \in Requests /\ handler[g].req # r
    BY <1>1, <1>2 DEF ReplayInv, HandlersInWindow
  <2> QED BY <2>1, <1>2 DEF ReplayInv, OneClaim
<1> QED BY <1>3, <1>4, <1>5, <1>6, <1>7 DEF ReplayInv

\* The transaction claims a request only when it was never claimed before: if it
\* was and its row is gone, the request is out of every handler's window.
LEMMA ClaimNonceInv ==
  ASSUME WindowsOverlap, NEW h \in Handlers, ReplayInv, ClaimNonce(h)
  PROVE  ReplayInv'
<1> DEFINE r == handler[h].req
           fresh == \A n \in Live : n.req # r
           row == [req |-> r, expires |-> handler[h].at + Ttl]
           claim == [req |-> r, at |-> handler[h].at, claimed |-> TRUE]
<1>1. /\ r \in Requests
      /\ handler[h].at \in 0 .. MaxTime
      /\ handler[h].at <= stamp[r] + Skew
      /\ stamp[r] <= handler[h].at + Skew
      /\ now <= handler[h].at + Latency
      /\ ~Claimed(h)
  BY DEF ReplayInv, NonceTypeOK, HandlersInWindow, ClaimNonce, Checking, Claimed
<1>2. /\ nonces' = IF fresh THEN Live \cup {row} ELSE Live
      /\ handler' = [handler EXCEPT ![h] = IF fresh THEN claim ELSE Idle]
      /\ UNCHANGED <<now, stamp, accepted>>
  BY DEF ClaimNonce, NonceExpiry
<1>3. Live \subseteq nonces
  BY DEF Live
<1> HIDE DEF fresh, row
<1>4. row \in [req : Requests, expires : Nat] /\ row.req = r /\ row.expires = handler[h].at + Ttl
  BY <1>1, ConfigAssumption DEF row
<1>5. /\ handler' \in [Handlers -> [req : Requests \cup {NoRequest}, at : 0 .. MaxTime,
                                    claimed : BOOLEAN]]
      /\ \A g \in Handlers \ {h} : handler'[g] = handler[g]
      /\ Claimed(h)' <=> fresh
      /\ ~Checking(h)'
      /\ fresh => handler'[h].req = r
  <2>1. handler \in [Handlers -> [req : Requests \cup {NoRequest}, at : 0 .. MaxTime,
                                 claimed : BOOLEAN]]
    BY DEF ReplayInv, NonceTypeOK
  <2> DEFINE next == IF fresh THEN claim ELSE Idle
  <2>2. next \in [req : Requests \cup {NoRequest}, at : 0 .. MaxTime, claimed : BOOLEAN]
    BY <1>1, ConfigAssumption DEF Idle
  <2>3. (next.claimed <=> fresh) /\ (fresh => next.req = r) /\ ~(next # Idle /\ ~next.claimed)
    BY DEF Idle
  <2>4. handler' = [handler EXCEPT ![h] = next]
    BY <1>2
  <2> HIDE DEF next
  <2>5. /\ handler'[h] = next
        /\ \A g \in Handlers \ {h} : handler'[g] = handler[g]
        /\ handler' \in [Handlers -> [req : Requests \cup {NoRequest}, at : 0 .. MaxTime,
                                      claimed : BOOLEAN]]
    BY <2>1, <2>2, <2>4
  <2> QED BY <2>3, <2>5 DEF Claimed, Checking
<1>6. NonceTypeOK'
  BY <1>2, <1>3, <1>4, <1>5 DEF ReplayInv, NonceTypeOK
<1>7. HandlersInWindow'
  BY <1>1, <1>2, <1>5 DEF ReplayInv, HandlersInWindow, Checking, Claimed
<1>8. NoncesOutliveWindow'
  <2> SUFFICES ASSUME NEW n \in nonces'
               PROVE  n.expires + Skew >= stamp[n.req] + Ttl
    BY <1>2 DEF NoncesOutliveWindow
  <2>1. CASE n \in Live
    BY <2>1, <1>3 DEF ReplayInv, NoncesOutliveWindow
  <2>2. CASE n = row
    <3>1. stamp[r] \in Nat /\ handler[h].at \in Nat
      BY <1>1, ConfigAssumption DEF ReplayInv, NonceTypeOK
    <3> QED BY <2>2, <3>1, <1>1, <1>4, ConfigAssumption
  <2> QED BY <1>2, <2>1, <2>2
\* A row the sweep removes belongs to a request whose window has passed.
<1>9. ASSUME NEW n \in nonces, n \notin Live
      PROVE  now > stamp[n.req] + Skew + Latency
  <2>1. n.expires \in Nat /\ stamp[n.req] \in Nat /\ now \in Nat
    BY ConfigAssumption DEF ReplayInv, NonceTypeOK
  <2>2. n.expires <= now
    BY <1>9, <2>1 DEF Live
  <2>3. n.expires + Skew >= stamp[n.req] + Ttl
    BY DEF ReplayInv, NoncesOutliveWindow
  <2> QED BY <2>1, <2>2, <2>3, ConfigAssumption DEF WindowsOverlap
<1>10. fresh => ~Spent(r)
  <2> SUFFICES ASSUME fresh, Spent(r)
               PROVE  FALSE
    OBVIOUS
  <2>1. (\E n \in nonces : n.req = r) \/ now > stamp[r] + Skew + Latency
    BY <1>1 DEF ReplayInv, SpentIsRemembered
  <2>2. now > stamp[r] + Skew + Latency
    BY <2>1, <1>9 DEF fresh
  <2>3. now \in Nat /\ stamp[r] \in Nat /\ handler[h].at \in Nat
    BY <1>1, ConfigAssumption DEF ReplayInv, NonceTypeOK
  <2> QED BY <2>2, <2>3, <1>1, ConfigAssumption
<1>11. OneClaim'
  <2> SUFFICES ASSUME NEW g \in Handlers, Claimed(g)'
               PROVE  /\ accepted[handler'[g].req] = 0
                      /\ \A k \in Handlers : Claimed(k)' /\ handler'[k].req = handler'[g].req => k = g
    BY <1>2 DEF OneClaim
  <2>1. \A k \in Handlers \ {h} : Claimed(k)' => Claimed(k) /\ handler'[k] = handler[k]
    BY <1>5 DEF Claimed
  <2>2. CASE g = h
    <3>1. fresh /\ handler'[g].req = r
      BY <2>2, <1>5
    <3>2. accepted[r] = 0 /\ \A k \in Handlers : ~(Claimed(k) /\ handler[k].req = r)
      BY <3>1, <1>10 DEF Spent
    <3> QED BY <2>1, <2>2, <3>1, <3>2
  <2>3. CASE g # h
    <3>1. Claimed(g) /\ handler'[g] = handler[g]
      BY <2>1, <2>3
    <3>2. Spent(handler[g].req)
      BY <3>1 DEF Spent
    <3>3. Claimed(h)' => handler'[h].req # handler[g].req
      BY <1>5, <1>10, <3>2
    <3> QED BY <2>1, <3>1, <3>3 DEF ReplayInv, OneClaim
  <2> QED BY <2>2, <2>3
<1>12. SpentIsRemembered'
  <2> SUFFICES ASSUME NEW q \in Requests, Spent(q)'
               PROVE  (\E n \in nonces' : n.req = q) \/ now > stamp[q] + Skew + Latency
    BY <1>2 DEF SpentIsRemembered
  <2>1. CASE fresh /\ q = r
    BY <2>1, <1>2, <1>4
  <2>2. CASE ~(fresh /\ q = r)
    <3>1. Spent(q)
      BY <2>2, <1>2, <1>5 DEF Spent, Claimed
    <3>2. (\E n \in nonces : n.req = q) \/ now > stamp[q] + Skew + Latency
      BY <3>1 DEF ReplayInv, SpentIsRemembered
    <3> QED BY <3>2, <1>9, <1>2
  <2> QED BY <2>1, <2>2
<1>13. AcceptedAtMostOnce'
  BY <1>2 DEF ReplayInv, AcceptedAtMostOnce
<1> QED BY <1>6, <1>7, <1>8, <1>11, <1>12, <1>13 DEF ReplayInv

LEMMA NextReplayInv ==
  ASSUME WindowsOverlap, ReplayInv, [NonceNext]_nonceVars
  PROVE  ReplayInv'
<1>1. CASE Tick BY <1>1, TickInv
<1>2. ASSUME NEW h \in Handlers, ClaimNonce(h) PROVE ReplayInv'
  BY <1>2, ClaimNonceInv
<1>3. ASSUME NEW h \in Handlers, HandlerFails(h) PROVE ReplayInv'
  BY <1>3, HandlerFailsInv
<1>4. ASSUME NEW h \in Handlers, NEW r \in Requests, CheckTimestamp(h, r) PROVE ReplayInv'
  BY <1>4, CheckTimestampInv
<1>5. ASSUME NEW h \in Handlers, Return(h) PROVE ReplayInv'
  BY <1>5, ReturnInv
<1>6. CASE UNCHANGED nonceVars
  BY <1>6 DEF nonceVars, ReplayInv, NonceTypeOK, HandlersInWindow, NoncesOutliveWindow,
              SpentIsRemembered, Spent, OneClaim, AcceptedAtMostOnce, Checking, Claimed, Idle
<1> QED BY <1>1, <1>2, <1>3, <1>4, <1>5, <1>6 DEF NonceNext

\* While Ttl > 2 * Skew + Latency, a signed request passes verifySdkRequest at
\* most once, although handlers die before and after the commit of its nonce.
THEOREM RequestAcceptedAtMostOnce ==
  ASSUME WindowsOverlap
  PROVE  NonceSpec => []AcceptedAtMostOnce
<1>1. NonceInit => ReplayInv BY InitReplayInv
<1>2. ReplayInv /\ [NonceNext]_nonceVars => ReplayInv' BY NextReplayInv
<1>3. ReplayInv => AcceptedAtMostOnce BY DEF ReplayInv
<1> QED BY <1>1, <1>2, <1>3, PTL DEF NonceSpec
=============================================================================
