-------------------------- MODULE ApplePostbackProofs --------------------------
(***************************************************************************)
(* What a device may rely on, that a count is for good, and that what is   *)
(* unverified stays within its quota, for every set of postbacks, requests *)
(* and scopes, every quota and bucket and any number of deaths.            *)
(***************************************************************************)
EXTENDS ApplePostback, FiniteSetTheorems, TLAPS

Steps == {"unused", "lookup", "stranger", "overflow", "append", "answer", "done"}
Statuses == {"none", "pending", "processed"}

RequestOK ==
    request \in [Requests -> [pc : Steps, body : Postbacks \cup {"none"}, at : Nat,
                             scope : Scopes \cup {"none"}, count : Nat]]

StateOK ==
    /\ clock \in Nat
    /\ registered \subseteq Scopes \X Adams
    /\ \A k \in DOMAIN quota : quota[k] \in Nat
    /\ batch \in [Requests -> Statuses]

\* A batch is written by the last step before the answer; from then on the request
\* says what is in the batch.
BatchesAreAnswered ==
    \A r \in Requests : batch[r] # "none" => request[r].pc \in {"answer", "done"}

\* What is kept of a body: a batch, or an audit entry of a kind that fits it.
KeptOf(p) ==
    \/ p \in strangers
    \/ Durable(p)
    \/ ~Verified(p) /\ \E x \in overflows : x[1] = p

AnswersAreKept ==
    /\ \A r \in Requests : request[r].pc = "overflow" => ~Verified(request[r].body)
    /\ \A r \in Requests : request[r].pc = "answer" => KeptOf(request[r].body)
    /\ \A p \in acked : KeptOf(p)

\* The worker only touches requests with a batch, and its facts name such requests.
WorkerOK ==
    /\ drain.rows \subseteq {r \in Requests : batch[r] # "none"}
    /\ drain.todo \subseteq drain.rows
    /\ drain = [pc |-> drain.pc, rows |-> drain.rows, all |-> drain.all, todo |-> drain.todo]
    /\ \A e \in DOMAIN logical : logical[e] \in Requests /\ batch[logical[e]] # "none"

AppleInv == RequestOK /\ StateOK /\ BatchesAreAnswered /\ AnswersAreKept /\ WorkerOK

-----------------------------------------------------------------------------
(* Frames: what every step leaves of a request that has a batch.            *)

Kept(r) ==
    batch[r] # "none" => /\ batch'[r] # "none"
                         /\ request'[r].body = request[r].body
                         /\ request'[r].at = request[r].at

\* Nothing that is kept of a body is ever given up.
LEMMA KeptGrows ==
    ASSUME \A r \in Requests : Kept(r), strangers \subseteq strangers', overflows \subseteq overflows'
    PROVE  \A p : KeptOf(p) => KeptOf(p)'
BY DEF KeptOf, Durable, Kept

\* What is counted stays counted, and on the same day.
LEMMA CountedGrows ==
    ASSUME WorkerOK, \A r \in Requests : Kept(r), attributed \subseteq attributed',
           DOMAIN logical \subseteq DOMAIN logical',
           \A e \in DOMAIN logical : logical'[e] = logical[e]
    PROVE  /\ Counted \subseteq Counted'
           /\ \A x, y \in Counted' : x[1] = y[1] => x = y
<1>1. ASSUME NEW x \in Counted', NEW y \in Counted', x[1] = y[1] PROVE x = y
    <2>1. PICK e \in DOMAIN logical' : x = <<e, Day(request'[logical'[e]].at)>>
        BY DEF Counted
    <2>2. PICK f \in DOMAIN logical' : y = <<f, Day(request'[logical'[f]].at)>>
        BY DEF Counted
    <2>3. QED BY <1>1, <2>1, <2>2
<1>2. ASSUME NEW x \in Counted PROVE x \in Counted'
    <2>1. PICK e \in DOMAIN logical :
            /\ x = <<e, Day(request[logical[e]].at)>>
            /\ <<logical[e], "skan_postback_verified">> \in attributed
            /\ Verified(request[logical[e]].body)
            /\ {"won", "source"} \subseteq Body[request[logical[e]].body].has
            /\ {"fine", "coarse"} \cap Body[request[logical[e]].body].has # {}
        BY DEF Counted
    <2>2. /\ e \in DOMAIN logical' /\ logical'[e] = logical[e]
          /\ request'[logical[e]].body = request[logical[e]].body
          /\ request'[logical[e]].at = request[logical[e]].at
        BY DEF WorkerOK, Kept
    <2>3. QED BY <2>1, <2>2 DEF Counted
<1>3. QED BY <1>1, <1>2

LEMMA InitInv == Init => AppleInv
BY AppleAssumption DEF Init, AppleInv, RequestOK, StateOK, BatchesAreAnswered, AnswersAreKept, WorkerOK,
    Fresh, Idle, Steps, Statuses

-----------------------------------------------------------------------------
(* The receiver.                                                            *)

\* What a request leaves when it ends fits the type and the batches.
LEMMA EndedOK ==
    ASSUME RequestOK, StateOK, NEW r \in Requests
    PROVE  /\ Ended(r) \in [pc : Steps, body : Postbacks \cup {"none"}, at : Nat,
                             scope : Scopes \cup {"none"}, count : Nat]
           /\ Ended(r).pc = "done"
           /\ batch[r] # "none" => Ended(r).body = request[r].body /\ Ended(r).at = request[r].at
BY DEF Ended, Fresh, RequestOK, StateOK, Steps

\* The step of one request that writes nothing.
Quiet(r) ==
    /\ batch[r] = "none" \/ /\ request'[r].pc = "done"
                            /\ request'[r].body = request[r].body
                            /\ request'[r].at = request[r].at
    /\ \A o \in Requests \ {r} : request'[o] = request[o]
    /\ request'[r].pc = "overflow" => ~Verified(request'[r].body)
    /\ request'[r].pc # "answer"
    /\ \A p \in acked' : p \in acked \/ KeptOf(p)
    /\ strangers' = strangers /\ overflows' = overflows /\ batch' = batch
    /\ logical' = logical /\ drain' = drain

LEMMA QuietStep ==
    ASSUME AppleInv, NEW r \in Requests, RequestOK', StateOK', Quiet(r)
    PROVE  AppleInv' /\ \A o \in Requests : Kept(o)
<1>1. \A o \in Requests : Kept(o)
    BY DEF Kept, Quiet
<1>2. \A p : KeptOf(p) => KeptOf(p)'
    BY <1>1, KeptGrows DEF Quiet
<1>3. BatchesAreAnswered'
    BY DEF AppleInv, BatchesAreAnswered, Quiet
<1>4. AnswersAreKept'
    BY <1>2 DEF AppleInv, AnswersAreKept, Quiet
<1>5. WorkerOK'
    BY DEF AppleInv, WorkerOK, Quiet
<1>6. QED BY <1>1, <1>3, <1>4, <1>5 DEF AppleInv

LEMMA ReceiveStep ==
    ASSUME AppleInv, NEW r \in Requests, NEW p \in Postbacks, Receive(r, p)
    PROVE  AppleInv' /\ \A o \in Requests : Kept(o)
<1>1. batch[r] = "none"
    BY DEF AppleInv, BatchesAreAnswered, Receive
<1>2. PICK x : /\ x \in {Ended(r), [Fresh EXCEPT !.pc = "lookup", !.body = p, !.at = clock]}
               /\ request' = [request EXCEPT ![r] = x]
    BY DEF Receive
<1>3. /\ x \in [pc : Steps, body : Postbacks \cup {"none"}, at : Nat, scope : Scopes \cup {"none"},
                count : Nat]
      /\ x.pc \in {"done", "lookup"}
    <2>1. CASE x = Ended(r)
        BY <2>1, EndedOK DEF AppleInv
    <2>2. CASE x = [Fresh EXCEPT !.pc = "lookup", !.body = p, !.at = clock]
        <3>1. x = [pc |-> "lookup", body |-> p, at |-> clock, scope |-> "none", count |-> 0]
            BY <2>2 DEF Fresh
        <3>2. QED BY <3>1 DEF AppleInv, StateOK, Steps
    <2>3. QED BY <1>2, <2>1, <2>2
<1>4. /\ acked' = acked /\ strangers' = strangers /\ overflows' = overflows /\ batch' = batch
      /\ logical' = logical /\ attributed' = attributed /\ drain' = drain
      /\ clock' = clock /\ registered' = registered /\ quota' = quota
    BY DEF Receive, workerVars
<1>5. RequestOK' /\ StateOK' /\ Quiet(r)
    BY <1>1, <1>2, <1>3, <1>4 DEF AppleInv, RequestOK, StateOK, Quiet
<1>6. QED BY <1>5, QuietStep

LEMMA CountOK ==
    ASSUME StateOK, NEW s, NEW t, Record(s, t)
    PROVE  Count(s, t) \in Nat /\ \A k \in DOMAIN quota' : quota'[k] \in Nat
<1>1. Count(s, t) \in Nat
    BY DEF Count, StateOK
<1>2. /\ DOMAIN quota' = {<<s, Hour(t)>>} \cup DOMAIN quota
      /\ \A k \in DOMAIN quota' : quota'[k] = IF k = <<s, Hour(t)>> THEN Count(s, t) ELSE quota[k]
    BY DEF Record
<1>3. QED BY <1>1, <1>2 DEF StateOK

LEMMA ResolveStep ==
    ASSUME AppleInv, NEW r \in Requests, Resolve(r)
    PROVE  AppleInv' /\ \A o \in Requests : Kept(o)
<1> DEFINE p == request[r].body
           s == CHOOSE o \in Owner(Body[p].adam) : TRUE
<1>1. batch[r] = "none"
    BY DEF AppleInv, BatchesAreAnswered, Resolve
<1>2. /\ acked' = acked /\ strangers' = strangers /\ overflows' = overflows /\ batch' = batch
      /\ logical' = logical /\ attributed' = attributed /\ drain' = drain
      /\ clock' = clock /\ registered' = registered
    BY DEF Resolve, workerVars
<1>3. CASE Owner(Body[p].adam) = {}
    <2>1. request' = [request EXCEPT ![r].pc = "stranger"] /\ quota' = quota
        BY <1>3 DEF Resolve
    <2>2. RequestOK' /\ StateOK' /\ Quiet(r)
        BY <2>1, <1>1, <1>2 DEF AppleInv, RequestOK, StateOK, Steps, Quiet
    <2>3. QED BY <2>2, QuietStep
<1>4. CASE Owner(Body[p].adam) # {}
    <2>1. s \in Scopes
        BY <1>4 DEF Owner
    <2>2. CASE ~Normalized(p)
        <3>1. request' = [request EXCEPT ![r] = Ended(r)] /\ quota' = quota
            BY <1>4, <2>2 DEF Resolve
        <3>2. RequestOK' /\ StateOK' /\ Quiet(r)
            BY <3>1, <1>1, <1>2, EndedOK DEF AppleInv, RequestOK, StateOK, Quiet
        <3>3. QED BY <3>2, QuietStep
    <2>3. CASE Normalized(p) /\ Verified(p)
        <3>1. request' = [request EXCEPT ![r].scope = s, ![r].pc = "append"] /\ quota' = quota
            BY <1>4, <2>3 DEF Resolve
        <3>2. RequestOK' /\ StateOK'
            <4> HIDE DEF s
            <4>1. RequestOK'
                BY <3>1, <2>1 DEF AppleInv, RequestOK, Steps
            <4>2. StateOK'
                BY <3>1, <1>2 DEF AppleInv, StateOK
            <4>3. QED BY <4>1, <4>2
        <3>3. request'[r].pc = "append" /\ \A o \in Requests \ {r} : request'[o] = request[o]
            BY <3>1 DEF AppleInv, RequestOK
        <3>4. Quiet(r)
            BY <1>1, <1>2, <3>3 DEF Quiet
        <3>5. QED BY <3>2, <3>4, QuietStep
    <2>4. CASE Normalized(p) /\ ~Verified(p)
        <3> DEFINE n == Count(s, request[r].at)
        <3>1. /\ request' = [request EXCEPT ![r].scope = s, ![r].count = n,
                                ![r].pc = IF n <= Limit THEN "append" ELSE "overflow"]
              /\ Record(s, request[r].at)
            BY <1>4, <2>4 DEF Resolve
        <3>2. n \in Nat /\ \A k \in DOMAIN quota' : quota'[k] \in Nat
            BY <3>1, CountOK DEF AppleInv
        <3>3. RequestOK' /\ request'[r].pc \in {"append", "overflow"} /\ request'[r].body = p
            BY <3>1, <3>2, <2>1 DEF AppleInv, RequestOK, Steps
        <3>4. StateOK'
            BY <3>2, <1>2 DEF AppleInv, StateOK
        <3>5. \A o \in Requests \ {r} : request'[o] = request[o]
            BY <3>1 DEF AppleInv, RequestOK
        <3>6. Quiet(r)
            BY <1>1, <1>2, <2>4, <3>3, <3>5 DEF Quiet
        <3>7. QED BY <3>3, <3>4, <3>6, QuietStep
    <2>5. QED BY <2>2, <2>3, <2>4
<1>5. QED BY <1>3, <1>4

\* The three ways to keep a body, each followed by the answer.
LEMMA WriteStep ==
    ASSUME AppleInv, NEW r \in Requests,
           RecordUnregisteredAudit(r) \/ RecordInvalidAudit(r) \/ AppendDurableBatch(r)
    PROVE  AppleInv' /\ \A o \in Requests : Kept(o)
<1>1. /\ batch[r] = "none"
      /\ request' = [request EXCEPT ![r].pc = "answer"]
      /\ clock' = clock /\ registered' = registered /\ quota' = quota /\ acked' = acked
      /\ logical' = logical /\ attributed' = attributed /\ drain' = drain
    BY DEF AppleInv, BatchesAreAnswered, RecordUnregisteredAudit, RecordInvalidAudit,
           AppendDurableBatch, Answering, workerVars
<1>2. /\ batch' = batch \/ batch' = [batch EXCEPT ![r] = "pending"]
      /\ strangers \subseteq strangers' /\ overflows \subseteq overflows'
    BY DEF RecordUnregisteredAudit, RecordInvalidAudit, AppendDurableBatch
<1>3. RequestOK' /\ StateOK'
    BY <1>1, <1>2 DEF AppleInv, RequestOK, StateOK, Steps, Statuses
<1>4. \A o \in Requests : Kept(o)
    BY <1>1, <1>2 DEF AppleInv, RequestOK, StateOK, Kept
<1>5. \A p : KeptOf(p) => KeptOf(p)'
    BY <1>2, <1>4, KeptGrows
<1>6. /\ request'[r].pc = "answer" /\ request'[r].body = request[r].body
      /\ \A o \in Requests \ {r} : request'[o] = request[o] /\ batch'[o] = batch[o]
    BY <1>1, <1>2 DEF AppleInv, RequestOK, StateOK
<1>7. BatchesAreAnswered'
    BY <1>6 DEF AppleInv, BatchesAreAnswered
<1>8. KeptOf(request[r].body)'
    <2>1. CASE RecordUnregisteredAudit(r)
        BY <2>1, <1>6 DEF RecordUnregisteredAudit, KeptOf
    <2>2. CASE RecordInvalidAudit(r)
        <3>1. ~Verified(request[r].body)
            BY <2>2 DEF RecordInvalidAudit, AppleInv, AnswersAreKept
        <3>2. <<request[r].body, request[r].count>> \in overflows'
            BY <2>2 DEF RecordInvalidAudit
        <3>3. QED BY <3>1, <3>2, <1>6 DEF KeptOf
    <2>3. CASE AppendDurableBatch(r)
        <3>1. batch'[r] = "pending"
            BY <2>3 DEF AppendDurableBatch, AppleInv, StateOK
        <3>2. QED BY <3>1, <1>6 DEF KeptOf, Durable
    <2>4. QED BY <2>1, <2>2, <2>3
<1>9. AnswersAreKept'
    BY <1>1, <1>5, <1>6, <1>8 DEF AppleInv, AnswersAreKept
<1>10. WorkerOK'
    BY <1>1, <1>4 DEF AppleInv, WorkerOK, Kept
<1>11. QED BY <1>3, <1>4, <1>7, <1>9, <1>10 DEF AppleInv

LEMMA AnswerStep ==
    ASSUME AppleInv, NEW r \in Requests, NEW heard \in BOOLEAN, Answer(r, heard)
    PROVE  AppleInv' /\ \A o \in Requests : Kept(o)
<1>1. /\ request' = [request EXCEPT ![r] = Ended(r)]
      /\ acked' \subseteq acked \cup {request[r].body}
      /\ strangers' = strangers /\ overflows' = overflows /\ batch' = batch
      /\ logical' = logical /\ attributed' = attributed /\ drain' = drain
      /\ clock' = clock /\ registered' = registered /\ quota' = quota
    BY DEF Answer, workerVars
<1>2. \A p \in acked' : p \in acked \/ KeptOf(p)
    BY <1>1 DEF Answer, AppleInv, AnswersAreKept
<1>3. RequestOK' /\ StateOK' /\ Quiet(r)
    BY <1>1, <1>2, EndedOK DEF AppleInv, RequestOK, StateOK, Quiet
<1>4. QED BY <1>3, QuietStep

LEMMA RequestFailsStep ==
    ASSUME AppleInv, NEW r \in Requests, RequestFails(r)
    PROVE  AppleInv' /\ \A o \in Requests : Kept(o)
<1>1. /\ request' = [request EXCEPT ![r] = Ended(r)] /\ acked' = acked
      /\ strangers' = strangers /\ overflows' = overflows /\ batch' = batch
      /\ logical' = logical /\ attributed' = attributed /\ drain' = drain
      /\ clock' = clock /\ registered' = registered /\ quota' = quota
    BY DEF RequestFails, workerVars
<1>2. RequestOK' /\ StateOK' /\ Quiet(r)
    BY <1>1, EndedOK DEF AppleInv, RequestOK, StateOK, Quiet
<1>3. QED BY <1>2, QuietStep

LEMMA ApiRestartsStep ==
    ASSUME AppleInv, ApiRestarts
    PROVE  AppleInv' /\ \A o \in Requests : Kept(o)
<1>1. /\ request' = [r \in Requests |-> IF InFlight(r) THEN Ended(r) ELSE request[r]]
      /\ quota' = [k \in {} |-> 0] /\ acked' = acked
      /\ strangers' = strangers /\ overflows' = overflows /\ batch' = batch
      /\ logical' = logical /\ attributed' = attributed /\ drain' = drain
      /\ clock' = clock /\ registered' = registered
    BY DEF ApiRestarts, workerVars
<1>2. RequestOK' /\ StateOK'
    BY <1>1, EndedOK DEF AppleInv, RequestOK, StateOK
<1>3. \A r \in Requests : request'[r] = request[r] \/ request'[r] = Ended(r)
    BY <1>1
<1>4. \A r \in Requests : Kept(r)
    BY <1>1, <1>3, EndedOK DEF AppleInv, Kept
<1>5. \A p : KeptOf(p) => KeptOf(p)'
    BY <1>1, <1>4, KeptGrows
<1>6. BatchesAreAnswered'
    BY <1>1, <1>3, EndedOK DEF AppleInv, BatchesAreAnswered
<1>7. AnswersAreKept'
    BY <1>1, <1>3, <1>5, EndedOK DEF AppleInv, AnswersAreKept
<1>8. WorkerOK'
    BY <1>1 DEF AppleInv, WorkerOK
<1>9. QED BY <1>2, <1>4, <1>6, <1>7, <1>8 DEF AppleInv

-----------------------------------------------------------------------------
(* The worker, the administrator and the clock leave the requests alone.    *)

LEMMA DrainStep ==
    ASSUME AppleInv, Drain
    PROVE  /\ AppleInv' /\ \A r \in Requests : Kept(r)
           /\ attributed \subseteq attributed'
           /\ DOMAIN logical \subseteq DOMAIN logical'
           /\ \A e \in DOMAIN logical : logical'[e] = logical[e]
<1>1. /\ request' = request /\ acked' = acked /\ strangers' = strangers /\ overflows' = overflows
      /\ clock' = clock /\ registered' = registered /\ quota' = quota
    BY DEF Drain, Select, PersistRecord, PersistAttributions, Mark, WorkerDies, apiVars
<1>2. /\ StateOK'
      /\ \A r \in Requests : batch[r] = "none" <=> batch'[r] = "none"
    <2>1. batch' = batch \/ Mark
        BY DEF Drain, Select, PersistRecord, PersistAttributions, WorkerDies
    <2>2. CASE batch' = batch
        BY <1>1, <2>2 DEF AppleInv, StateOK
    <2>3. CASE Mark
        <3>1. batch' = [r \in Requests |-> IF r \in drain.rows THEN "processed" ELSE batch[r]]
            BY <2>3 DEF Mark
        <3>2. QED BY <1>1, <3>1 DEF AppleInv, StateOK, WorkerOK, Statuses
    <2>4. QED BY <2>1, <2>2, <2>3
<1>3. \A r \in Requests : Kept(r)
    BY <1>1, <1>2 DEF Kept
<1>4. \A p : KeptOf(p) => KeptOf(p)'
    BY <1>1, <1>3, KeptGrows
<1>5. RequestOK' /\ BatchesAreAnswered' /\ AnswersAreKept'
    BY <1>1, <1>2, <1>4 DEF AppleInv, RequestOK, BatchesAreAnswered, AnswersAreKept
<1>6. /\ WorkerOK'
      /\ attributed \subseteq attributed'
      /\ DOMAIN logical \subseteq DOMAIN logical'
      /\ \A e \in DOMAIN logical : logical'[e] = logical[e]
    <2>1. CASE Select
        BY <2>1, <1>2 DEF Select, AppleInv, WorkerOK
    <2>2. ASSUME NEW r \in Requests, PersistRecord(r) PROVE <1>6!:
        <3>1. /\ r \in drain.todo /\ batch' = batch /\ attributed' = attributed
              /\ logical' \in {logical, [e \in DOMAIN logical \cup {Events(r)} |->
                                             IF e \in DOMAIN logical THEN logical[e] ELSE r]}
              /\ drain' \in {[drain EXCEPT !.pc = "attributions", !.todo = drain.rows],
                            [drain EXCEPT !.todo = @ \ {r}]}
            BY <2>2 DEF PersistRecord
        <3>2. /\ \A e \in DOMAIN logical' : (e \in DOMAIN logical /\ logical'[e] = logical[e]) \/ logical'[e] = r
              /\ DOMAIN logical \subseteq DOMAIN logical'
              /\ \A e \in DOMAIN logical : logical'[e] = logical[e]
            BY <3>1
        <3>3. batch[r] # "none"
            BY <3>1 DEF AppleInv, WorkerOK
        <3>4. /\ drain'.rows = drain.rows /\ drain'.todo \subseteq drain.rows
              /\ drain' = [pc |-> drain'.pc, rows |-> drain'.rows, all |-> drain'.all, todo |-> drain'.todo]
            BY <3>1 DEF AppleInv, WorkerOK
        <3>5. QED BY <3>1, <3>2, <3>3, <3>4 DEF AppleInv, WorkerOK
    <2>3. CASE PersistAttributions
        BY <2>3 DEF PersistAttributions, AppleInv, WorkerOK
    <2>4. CASE Mark
        BY <2>4, <1>2 DEF Mark, Idle, AppleInv, WorkerOK
    <2>5. CASE WorkerDies
        BY <2>5 DEF WorkerDies, Idle, AppleInv, WorkerOK
    <2>6. QED BY <2>1, <2>2, <2>3, <2>4, <2>5 DEF Drain
<1>7. QED BY <1>2, <1>3, <1>5, <1>6 DEF AppleInv

LEMMA OtherStep ==
    ASSUME AppleInv, UNCHANGED vars \/ Tick \/ \E s \in Scopes, a \in Adams : RegisterAppleApp(s, a)
    PROVE  AppleInv' /\ \A r \in Requests : Kept(r)
<1>1. /\ request' = request /\ acked' = acked /\ strangers' = strangers /\ overflows' = overflows
      /\ quota' = quota /\ batch' = batch /\ logical' = logical /\ attributed' = attributed
      /\ drain' = drain
    BY DEF vars, apiVars, workerVars, Tick, RegisterAppleApp
<1>2. StateOK'
    BY <1>1 DEF AppleInv, StateOK, vars, Tick, RegisterAppleApp
<1>3. \A r \in Requests : Kept(r)
    BY <1>1 DEF Kept
<1>4. \A p : KeptOf(p) => KeptOf(p)'
    BY <1>1, <1>3, KeptGrows
<1>5. QED BY <1>1, <1>2, <1>3, <1>4 DEF AppleInv, RequestOK, BatchesAreAnswered, AnswersAreKept, WorkerOK

-----------------------------------------------------------------------------
(* The theorems.                                                            *)

LEMMA StepInv ==
    ASSUME AppleInv, [Next]_vars
    PROVE  /\ AppleInv'
           /\ Counted \subseteq Counted'
           /\ \A x, y \in Counted' : x[1] = y[1] => x = y
<1>1. ASSUME NEW r \in Requests, Serve(r) PROVE AppleInv' /\ \A o \in Requests : Kept(o)
    BY <1>1, ReceiveStep, ResolveStep, WriteStep, AnswerStep, RequestFailsStep DEF Serve
<1>2. /\ AppleInv' /\ \A o \in Requests : Kept(o)
      /\ attributed \subseteq attributed'
      /\ DOMAIN logical \subseteq DOMAIN logical'
      /\ \A e \in DOMAIN logical : logical'[e] = logical[e]
    <2>1. CASE Drain
        BY <2>1, DrainStep
    <2>2. CASE ~Drain
        <3>1. AppleInv' /\ \A o \in Requests : Kept(o)
            BY <1>1, <2>2, ApiRestartsStep, OtherStep DEF Next
        <3>2. attributed' = attributed /\ logical' = logical
            BY <2>2 DEF Next, Serve, Receive, Resolve, RecordUnregisteredAudit, RecordInvalidAudit,
                        AppendDurableBatch, Answer, RequestFails, ApiRestarts, Tick, RegisterAppleApp,
                        vars, workerVars
        <3>3. QED BY <3>1, <3>2
    <2>3. QED BY <2>1, <2>2
<1>3. QED BY <1>2, CountedGrows DEF AppleInv

\* Whatever an answer, a batch or a fact of the worker rests on is in place in
\* every reachable state of the receiver.
THEOREM Invariance == Spec => []AppleInv
<1>1. QED BY InitInv, StepInv, PTL DEF Spec

\* Whatever fails, dies or overlaps: a postback whose device got its 200 is in the
\* ledger (receiveApplePostback answers after its transaction).
THEOREM AckSafety == Spec => []AcknowledgedIsDurable
<1>1. AppleInv => AcknowledgedIsDurable
    BY DEF AppleInv, AnswersAreKept, KeptOf, AcknowledgedIsDurable, Audited
<1>2. QED BY <1>1, Invariance, PTL

\* The quota of unverified postbacks never swallows a signed one.
THEOREM SignedSafety == Spec => []SignedIsNeverDropped
<1>1. AppleInv => SignedIsNeverDropped
    BY DEF AppleInv, AnswersAreKept, KeptOf, SignedIsNeverDropped
<1>2. QED BY <1>1, Invariance, PTL

\* A postback is counted once and its day never changes, whatever the order in
\* which its deliveries are committed, drained and evaluated again.
THEOREM CountSafety == Spec => CountedForGood
<1>1. AppleInv /\ [Next]_vars =>
        [/\ Counted \subseteq Counted'
         /\ \A x, y \in Counted' : x[1] = y[1] => x = y]_vars
    BY StepInv
<1>2. QED BY <1>1, Invariance, PTL DEF Spec, CountedForGood
-----------------------------------------------------------------------------
(* The quota of what could not be verified.  A request takes its share when    *)
(* Resolve sends it to the append, before its batch exists, and the count of    *)
(* the hour is lost with the process: so the shares taken are bounded by the    *)
(* lives that ended and by the count of this one, and the bound of the property *)
(* alone would not carry over a step.                                           *)

\* The request holds a share of the quota of the scope and hour.
Holds(r, s, h) ==
    /\ batch[r] # "none" \/ request[r].pc = "append"
    /\ request[r].scope = s
    /\ ~Verified(request[r].body)
    /\ Hour(request[r].at) = h
Holders(s, h) == {r \in Requests : Holds(r, s, h)}
Used(s, h) == IF <<s, h>> \in DOMAIN quota THEN quota[<<s, h>>] ELSE 0

QuotaInv ==
    /\ restarts \in Nat
    /\ \A s \in Scopes, h \in Int :
         /\ Cardinality(Holders(s, h)) <= Limit * restarts + Used(s, h)
         /\ Cardinality(Holders(s, h)) <= Limit * restarts + Limit

\* Holders are finitely many.
LEMMA HoldersFinite ==
    \A s, h : IsFiniteSet(Holders(s, h)) /\ Cardinality(Holders(s, h)) \in Nat
<1> SUFFICES ASSUME NEW s, NEW h
             PROVE  IsFiniteSet(Holders(s, h)) /\ Cardinality(Holders(s, h)) \in Nat
    OBVIOUS
<1>1. IsFiniteSet(Requests) /\ Holders(s, h) \subseteq Requests
    BY AppleAssumption DEF Holders
<1>2. IsFiniteSet(Holders(s, h))
    BY <1>1, FS_Subset
<1>3. QED BY <1>2, FS_CardinalityType

\* Nobody joins the holders: there are no more of them.
LEMMA NoNewHolder ==
    ASSUME NEW s, NEW h, \A r \in Requests : Holds(r, s, h)' => Holds(r, s, h)
    PROVE  /\ Cardinality(Holders(s, h))' \in Nat
           /\ Cardinality(Holders(s, h))' <= Cardinality(Holders(s, h))
<1>1. Holders(s, h)' \subseteq Holders(s, h)
    BY DEF Holders
<1>2. /\ IsFiniteSet(Holders(s, h)')
      /\ Cardinality(Holders(s, h)') <= Cardinality(Holders(s, h))
    BY <1>1, HoldersFinite, FS_Subset
<1>3. QED BY <1>2, FS_CardinalityType

\* One request joins: there is at most one more.
LEMMA OneNewHolder ==
    ASSUME NEW s, NEW h, NEW o, \A r \in Requests : Holds(r, s, h)' => Holds(r, s, h) \/ r = o
    PROVE  /\ Cardinality(Holders(s, h))' \in Nat
           /\ Cardinality(Holders(s, h))' <= Cardinality(Holders(s, h)) + 1
<1> DEFINE A == Holders(s, h)  B == Holders(s, h) \cup {o}
<1>1. Holders(s, h)' \subseteq B
    BY DEF Holders
<1>2. IsFiniteSet(A) /\ Cardinality(A) \in Nat
    BY HoldersFinite
<1>3. IsFiniteSet(B) /\ Cardinality(B) <= Cardinality(A) + 1
    BY <1>2, FS_AddElement
<1>4. IsFiniteSet(Holders(s, h)') /\ Cardinality(Holders(s, h)') <= Cardinality(B)
    BY <1>1, <1>3, FS_Subset
<1>5. Cardinality(B) \in Nat /\ Cardinality(Holders(s, h)') \in Nat
    BY <1>3, <1>4, FS_CardinalityType
<1>6. QED BY <1>2, <1>3, <1>4, <1>5

\* A step that takes no share and leaves the quota alone.
LEMMA QuotaFrame ==
    ASSUME AppleInv, QuotaInv, quota' = quota, restarts' = restarts,
           \A r \in Requests, s \in Scopes, h \in Int : Holds(r, s, h)' => Holds(r, s, h)
    PROVE  QuotaInv'
<1>1. restarts' \in Nat
    BY DEF QuotaInv
<1>2. ASSUME NEW s \in Scopes, NEW h \in Int
      PROVE  /\ Cardinality(Holders(s, h))' <= Limit * restarts' + Used(s, h)'
             /\ Cardinality(Holders(s, h))' <= Limit * restarts' + Limit
    <2> DEFINE base == Limit * restarts
    <2>1. base \in Nat /\ Limit \in Nat /\ restarts' = restarts
        BY AppleAssumption DEF QuotaInv
    <2>2. Used(s, h) \in Nat /\ Used(s, h)' = Used(s, h)
        BY DEF AppleInv, StateOK, Used
    <2>3. /\ Cardinality(Holders(s, h)) \in Nat /\ Cardinality(Holders(s, h)) <= base + Used(s, h)
          /\ Cardinality(Holders(s, h)) <= base + Limit
        BY HoldersFinite DEF QuotaInv
    <2>4. Cardinality(Holders(s, h))' <= Cardinality(Holders(s, h)) /\ Cardinality(Holders(s, h))' \in Nat
        <3>1. \A r \in Requests : Holds(r, s, h)' => Holds(r, s, h)
            OBVIOUS
        <3>2. QED BY <3>1, NoNewHolder
    <2>5. Limit * restarts' = base
        BY <2>1
    <2> HIDE DEF base
    <2>6. QED BY <2>1, <2>2, <2>3, <2>4, <2>5
<1>3. QED BY <1>1, <1>2 DEF QuotaInv

\* Every step of a request but the one that takes its share.
LEMMA ServeTakesNothing ==
    ASSUME AppleInv, NEW o \in Requests,
           \/ \E p \in Postbacks : Receive(o, p)
           \/ RecordUnregisteredAudit(o) \/ RecordInvalidAudit(o) \/ AppendDurableBatch(o)
           \/ \E heard \in BOOLEAN : Answer(o, heard)
           \/ RequestFails(o),
           NEW r \in Requests, NEW s \in Scopes, NEW h \in Int, Holds(r, s, h)'
    PROVE  Holds(r, s, h)
<1>1. CASE \E p \in Postbacks : Receive(o, p)
    <2>1. PICK p \in Postbacks : Receive(o, p)
        BY <1>1
    <2>2. PICK x : /\ x \in {Ended(o), [Fresh EXCEPT !.pc = "lookup", !.body = p, !.at = clock]}
                   /\ request' = [request EXCEPT ![o] = x]
                   /\ batch' = batch /\ batch[o] = "none"
        BY <2>1 DEF Receive, AppleInv, BatchesAreAnswered
    <2>3. x.pc # "append"
        BY <2>2 DEF Ended, Fresh
    <2>4. QED BY <2>2, <2>3 DEF Holds, AppleInv, RequestOK
<1>2. CASE RecordUnregisteredAudit(o) \/ RecordInvalidAudit(o) \/ AppendDurableBatch(o)
    <2>1. /\ request' = [request EXCEPT ![o].pc = "answer"]
          /\ batch' = batch \/ (request[o].pc = "append" /\ batch' = [batch EXCEPT ![o] = "pending"])
        BY <1>2 DEF RecordUnregisteredAudit, RecordInvalidAudit, AppendDurableBatch, Answering
    <2>2. QED BY <2>1 DEF Holds, AppleInv, RequestOK, StateOK
<1>3. CASE RequestFails(o) \/ \E heard \in BOOLEAN : Answer(o, heard)
    <2>1. request' = [request EXCEPT ![o] = Ended(o)] /\ batch' = batch
        BY <1>3 DEF RequestFails, Answer
    <2>2. /\ Ended(o).pc = "done"
          /\ batch[o] # "none" => /\ Ended(o).scope = request[o].scope
                                  /\ Ended(o).body = request[o].body
                                  /\ Ended(o).at = request[o].at
        BY DEF Ended, Fresh, AppleInv, RequestOK
    <2>3. QED BY <2>1, <2>2 DEF Holds, AppleInv, RequestOK
<1>4. QED BY <1>1, <1>2, <1>3

\* The count is taken before the append, and only by what is not verified.
LEMMA ResolveQuota ==
    ASSUME AppleInv, QuotaInv, NEW o \in Requests, Resolve(o)
    PROVE  QuotaInv'
<1> DEFINE p == request[o].body
           t == request[o].at
           s == CHOOSE x \in Owner(Body[p].adam) : TRUE
           n == Count(s, t)
<1>1. /\ request[o].pc = "lookup" /\ batch[o] = "none" /\ batch' = batch /\ restarts' = restarts
      /\ t \in Nat
    BY DEF Resolve, AppleInv, BatchesAreAnswered, RequestOK
<1>2. CASE \/ quota' = quota /\ request' = [request EXCEPT ![o].pc = "stranger"]
           \/ quota' = quota /\ request' = [request EXCEPT ![o] = Ended(o)]
           \/ /\ quota' = quota /\ Verified(p)
              /\ request' = [request EXCEPT ![o].scope = s, ![o].pc = "append"]
    <2>1. ~\E c \in Scopes, h \in Int : Holds(o, c, h)'
        <3>1. CASE request' = [request EXCEPT ![o].pc = "stranger"]
            BY <1>1, <3>1 DEF Holds, AppleInv, RequestOK
        <3>2. CASE request' = [request EXCEPT ![o] = Ended(o)]
            <4>1. request'[o].pc = "done"
                BY <3>2, EndedOK DEF AppleInv, RequestOK
            <4>2. QED BY <1>1, <4>1 DEF Holds
        <3>3. CASE Verified(p) /\ request' = [request EXCEPT ![o].scope = s, ![o].pc = "append"]
            <4> HIDE DEF s
            <4>1. request'[o].body = p
                BY <3>3 DEF AppleInv, RequestOK
            <4>2. QED BY <3>3, <4>1 DEF Holds
        <3>4. QED BY <1>2, <3>1, <3>2, <3>3
    <2>2. \A r \in Requests \ {o} : request'[r] = request[r]
        <3> HIDE DEF s
        <3>1. QED BY <1>2 DEF AppleInv, RequestOK
    <2>3. \A r \in Requests, c \in Scopes, h \in Int : Holds(r, c, h)' => Holds(r, c, h)
        BY <1>1, <2>1, <2>2 DEF Holds
    <2>4. QED BY <1>1, <1>2, <2>3, QuotaFrame
<1>3. CASE /\ Owner(Body[p].adam) # {}
           /\ request' = [request EXCEPT ![o].scope = s, ![o].count = n,
                                 ![o].pc = IF n <= Limit THEN "append" ELSE "overflow"]
           /\ Record(s, t)
    <2>1. s \in Scopes
        BY <1>3 DEF Owner
    <2>2. Hour(t) \in Int
        BY <1>1, AppleAssumption DEF Hour
    <2>3. /\ n = Used(s, Hour(t)) + 1
          /\ \A c \in Scopes, h \in Int : c = s /\ h = Hour(t) => Used(c, h)' = n
          /\ \A c \in Scopes, h \in Int : Used(c, h) \in Nat
          /\ \A c \in Scopes, h \in Int : <<c, h>> # <<s, Hour(t)>> => Used(c, h)' = Used(c, h)
        <3> HIDE DEF s, t
        <3>1. n = Used(s, Hour(t)) + 1
            BY DEF Count, Used
        <3>2. /\ DOMAIN quota' = DOMAIN quota \cup {<<s, Hour(t)>>}
              /\ \A k \in DOMAIN quota' : quota'[k] = IF k = <<s, Hour(t)>> THEN n ELSE quota[k]
            BY <1>3 DEF Record
        <3> HIDE DEF n
        <3>3. \A c \in Scopes, h \in Int : c = s /\ h = Hour(t) => Used(c, h)' = n
            BY <3>2 DEF Used
        <3>4. \A c \in Scopes, h \in Int : <<c, h>> # <<s, Hour(t)>> => Used(c, h)' = Used(c, h)
            BY <3>2 DEF Used
        <3>5. \A c \in Scopes, h \in Int : Used(c, h) \in Nat
            BY DEF Used, AppleInv, StateOK
        <3>6. QED BY <3>1, <3>3, <3>4, <3>5
    <2>4. /\ \A r \in Requests \ {o} : request'[r] = request[r]
          /\ request'[o].scope = s /\ request'[o].at = t
          /\ request'[o].pc = "append" => n <= Limit
        <3> HIDE DEF s, n
        <3>1. QED BY <1>3 DEF AppleInv, RequestOK
    <2> HIDE DEF s, n, p, t
    <2>5. ASSUME NEW c \in Scopes, NEW h \in Int
          PROVE  /\ Cardinality(Holders(c, h))' <= Limit * restarts' + Used(c, h)'
                 /\ Cardinality(Holders(c, h))' <= Limit * restarts' + Limit
        <3> DEFINE base == Limit * restarts
                   was == Cardinality(Holders(c, h))
                   is == Cardinality(Holders(c, h))'
        <3>1. base \in Nat /\ Limit \in Nat /\ Limit * restarts' = base
            BY <1>1, AppleAssumption DEF QuotaInv
        <3>2. was \in Nat /\ was <= base + Used(c, h) /\ was <= base + Limit /\ Used(c, h) \in Nat
            BY <2>3, HoldersFinite DEF QuotaInv
        <3>3. CASE n <= Limit /\ c = s /\ h = Hour(t)
            <4>1. \A r \in Requests : Holds(r, c, h)' => Holds(r, c, h) \/ r = o
                BY <1>1, <2>4 DEF Holds
            <4>2. is \in Nat /\ is <= was + 1
                BY <4>1, OneNewHolder
            <4>3. Used(c, h)' = n /\ n = Used(c, h) + 1
                BY <2>3, <3>3
            <4> HIDE DEF base, was, is
            <4>4. QED BY <3>1, <3>2, <3>3, <4>2, <4>3 DEF is
        <3>4. CASE ~(n <= Limit /\ c = s /\ h = Hour(t))
            <4>1. \A r \in Requests : Holds(r, c, h)' => Holds(r, c, h)
                BY <1>1, <2>4, <3>4 DEF Holds
            <4>2. is \in Nat /\ is <= was
                BY <4>1, NoNewHolder
            <4>3. Used(c, h)' \in Nat /\ Used(c, h) <= Used(c, h)'
                BY <2>3, <3>2
            <4> HIDE DEF base, was, is
            <4>4. QED BY <3>1, <3>2, <4>2, <4>3 DEF is
        <3>5. QED BY <3>3, <3>4
    <2>6. QED BY <1>1, <2>5 DEF QuotaInv
<1>4. QED
    <2>1. CASE Owner(Body[p].adam) = {}
        BY <2>1, <1>2 DEF Resolve
    <2>2. CASE Owner(Body[p].adam) # {}
        <3>1. CASE ~Normalized(p)
            BY <2>2, <3>1, <1>2 DEF Resolve
        <3>2. CASE Normalized(p) /\ Verified(p)
            BY <2>2, <3>2, <1>2 DEF Resolve
        <3>3. CASE Normalized(p) /\ ~Verified(p)
            BY <2>2, <3>3, <1>3 DEF Resolve
        <3>4. QED BY <3>1, <3>2, <3>3
    <2>3. QED BY <2>1, <2>2

\* The count goes with the process, and with it the requests that have no batch yet.
LEMMA RestartQuota ==
    ASSUME AppleInv, QuotaInv, ApiRestarts
    PROVE  QuotaInv'
<1>1. /\ restarts \in Nat /\ restarts' = restarts + 1 /\ batch' = batch
      /\ request' = [r \in Requests |-> IF InFlight(r) THEN Ended(r) ELSE request[r]]
      /\ quota' = [k \in {} |-> 0]
    BY DEF ApiRestarts, QuotaInv
<1>2. ASSUME NEW r \in Requests, NEW s \in Scopes, NEW h \in Int, Holds(r, s, h)' PROVE Holds(r, s, h)
    <2>1. /\ Ended(r).pc = "done"
          /\ batch[r] # "none" => /\ Ended(r).scope = request[r].scope
                                  /\ Ended(r).body = request[r].body
                                  /\ Ended(r).at = request[r].at
        BY DEF Ended, Fresh, AppleInv, RequestOK
    <2>2. request'[r] = IF InFlight(r) THEN Ended(r) ELSE request[r]
        BY <1>1
    <2>3. QED BY <1>1, <1>2, <2>1, <2>2 DEF Holds
<1>3. ASSUME NEW s \in Scopes, NEW h \in Int
      PROVE  /\ Cardinality(Holders(s, h))' <= Limit * restarts' + Used(s, h)'
             /\ Cardinality(Holders(s, h))' <= Limit * restarts' + Limit
    <2> DEFINE was == Cardinality(Holders(s, h))
               is == Cardinality(Holders(s, h))'
               base == Limit * restarts
               next == Limit * restarts'
    <2>1. was \in Nat /\ was <= base + Limit /\ Limit \in Nat
        BY HoldersFinite, AppleAssumption DEF QuotaInv
    <2>2. is \in Nat /\ is <= was
        BY <1>2, NoNewHolder
    <2>3. next = base + Limit /\ base \in Nat
        BY <1>1, <2>1
    <2>4. Used(s, h)' = 0
        BY <1>1 DEF Used
    <2> HIDE DEF base, next, was
    <2>5. QED BY <2>1, <2>2, <2>3, <2>4 DEF next
<1>4. QED BY <1>1, <1>3 DEF QuotaInv

LEMMA QuotaStep == AppleInv /\ QuotaInv /\ [Next]_vars => QuotaInv'
<1> SUFFICES ASSUME AppleInv, QuotaInv, [Next]_vars PROVE QuotaInv'
    OBVIOUS
<1>1. ASSUME NEW r \in Requests, Resolve(r) PROVE QuotaInv'
    BY <1>1, ResolveQuota
<1>2. CASE ApiRestarts
    BY <1>2, RestartQuota
<1>3. ASSUME NEW o \in Requests,
             \/ \E p \in Postbacks : Receive(o, p)
             \/ RecordUnregisteredAudit(o) \/ RecordInvalidAudit(o) \/ AppendDurableBatch(o)
             \/ \E heard \in BOOLEAN : Answer(o, heard)
             \/ RequestFails(o)
      PROVE  QuotaInv'
    <2>1. quota' = quota /\ restarts' = restarts
        BY <1>3 DEF Receive, RecordUnregisteredAudit, RecordInvalidAudit, AppendDurableBatch, Answer,
                    RequestFails
    <2>2. \A r \in Requests, s \in Scopes, h \in Int : Holds(r, s, h)' => Holds(r, s, h)
        BY <1>3, ServeTakesNothing
    <2>3. QED BY <2>1, <2>2, QuotaFrame
<1>4. CASE Drain
    <2>1. quota' = quota /\ restarts' = restarts /\ request' = request
        BY <1>4 DEF Drain, Select, PersistRecord, PersistAttributions, Mark, WorkerDies, apiVars
    <2>2. \A r \in Requests : batch'[r] # "none" => batch[r] # "none"
        <3>1. CASE batch' = batch
            BY <3>1
        <3>2. CASE Mark
            BY <3>2 DEF Mark, AppleInv, WorkerOK
        <3>3. QED BY <1>4, <3>1, <3>2 DEF Drain, Select, PersistRecord, PersistAttributions, WorkerDies
    <2>3. \A r \in Requests, s \in Scopes, h \in Int : Holds(r, s, h)' => Holds(r, s, h)
        BY <2>1, <2>2 DEF Holds
    <2>4. QED BY <2>1, <2>3, QuotaFrame
<1>5. CASE UNCHANGED vars \/ Tick \/ \E s \in Scopes, a \in Adams : RegisterAppleApp(s, a)
    <2>1. quota' = quota /\ restarts' = restarts /\ request' = request /\ batch' = batch
        BY <1>5 DEF vars, apiVars, Tick, RegisterAppleApp
    <2>2. \A r \in Requests, s \in Scopes, h \in Int : Holds(r, s, h)' => Holds(r, s, h)
        BY <2>1 DEF Holds
    <2>3. QED BY <2>1, <2>2, QuotaFrame
<1>6. QED BY <1>1, <1>2, <1>3, <1>4, <1>5 DEF Next, Serve

LEMMA QuotaInit == Init => QuotaInv
<1> SUFFICES ASSUME Init PROVE QuotaInv
    OBVIOUS
<1>1. ASSUME NEW s \in Scopes, NEW h \in Int
      PROVE  /\ Cardinality(Holders(s, h)) <= Limit * restarts + Used(s, h)
             /\ Cardinality(Holders(s, h)) <= Limit * restarts + Limit
    <2>1. Holders(s, h) = {}
        BY DEF Init, Holders, Holds, Fresh
    <2>2. Cardinality(Holders(s, h)) = 0 /\ Limit * restarts = 0 /\ Used(s, h) = 0 /\ Limit \in Nat
        BY <2>1, FS_EmptySet, AppleAssumption DEF Init, Used
    <2>3. QED BY <2>2
<1>2. QED BY <1>1 DEF Init, QuotaInv

\* The unverified requests that hold a share of an hour of an app are no more than this
\* life of the process has counted, and the quota of each earlier one.
THEOREM QuotaInvariance == Spec => []QuotaInv
<1>1. QED BY QuotaInit, QuotaStep, Invariance, PTL DEF Spec

\* For every quota, every number of requests served at once and of restarts: what
\* could not be verified takes at most its share of the ledger of an app in an hour,
\* once for each life of the process (HourlyLedgerQuota counts in memory).
THEOREM QuotaSafety == Spec => []UnverifiedWithinQuota
<1>1. AppleInv /\ QuotaInv => UnverifiedWithinQuota
    <2> SUFFICES ASSUME AppleInv, QuotaInv, NEW s \in Scopes, NEW h \in 0 .. Hour(MaxTime)
                 PROVE  Cardinality({r \in Requests : /\ batch[r] # "none" /\ request[r].scope = s
                                                      /\ ~Verified(request[r].body)
                                                      /\ Hour(request[r].at) = h})
                            <= Limit * (1 + restarts)
        BY DEF UnverifiedWithinQuota
    <2> DEFINE Kin == {r \in Requests : /\ batch[r] # "none" /\ request[r].scope = s
                                        /\ ~Verified(request[r].body) /\ Hour(request[r].at) = h}
    <2>1. Kin \subseteq Holders(s, h)
        BY DEF Holders, Holds
    <2>2. IsFiniteSet(Kin) /\ Cardinality(Kin) <= Cardinality(Holders(s, h))
        BY <2>1, HoldersFinite, FS_Subset
    <2>3. Cardinality(Kin) \in Nat /\ Cardinality(Holders(s, h)) \in Nat
        BY <2>2, HoldersFinite, FS_CardinalityType
    <2>4. h \in Int
        OBVIOUS
    <2>5. Cardinality(Holders(s, h)) <= Limit * restarts + Limit
        BY <2>4 DEF QuotaInv
    <2>6. Limit * (1 + restarts) = Limit * restarts + Limit /\ Limit * restarts \in Nat /\ Limit \in Nat
        BY AppleAssumption DEF QuotaInv
    <2> HIDE DEF Kin
    <2>7. Cardinality(Kin) <= Limit * (1 + restarts)
        BY <2>2, <2>3, <2>5, <2>6
    <2>8. QED BY <2>7 DEF Kin
<1>2. QED BY <1>1, Invariance, QuotaInvariance, PTL
=============================================================================
