---------------------------- MODULE ApplePostback ----------------------------
(***************************************************************************)
(* The developer copies of Apple's aggregate postbacks, from the device    *)
(* that sends one to the number a report shows: receiveApplePostback       *)
(* (apps/api/src/apple-postback-receiver.ts) with the verification of      *)
(* packages/apple-postback, the registration of apps (apple-admin.ts), the *)
(* drain of the worker, makeAggregatePostbackAttribution of                *)
(* attribution-core and the count of metrics/cohort.ts.                    *)
(*                                                                         *)
(* A device repeats a postback until it is answered 200.  An API process   *)
(* serves several requests at once and may die between their steps; what   *)
(* it holds in memory (token buckets, the quota) is then gone.             *)
(***************************************************************************)
EXTENDS Integers, FiniteSets, TLC

CONSTANTS
    Postbacks,          \* bodies that devices send
    Body,               \* what is in a body: kind, version, adam, transaction, key, has
    Scopes,             \* (tenant, app) pairs
    Requests,           \* HTTP requests, in the order of their arrival
    AcceptDevelopment,  \* OPENMASU_APPLE_ACCEPT_DEVELOPMENT_POSTBACKS
    Limit,              \* OPENMASU_POSTBACK_INVALID_LEDGER_QUOTA_PER_HOUR
    Burst, Rate,        \* of the token buckets, Rate per tick of the clock
    HourLength, DayLength,
    MaxInFlight,        \* bound: requests served at a time
    MaxTime,            \* bound: the last time
    MaxFaults           \* bound: deaths and failing transactions

Adams == {Body[p].adam : p \in Postbacks}

ASSUME AppleAssumption ==
    /\ Requests \subseteq Nat /\ IsFiniteSet(Requests)
    /\ Limit \in Nat /\ Burst \in Nat \ {0} /\ Rate \in Nat
    /\ HourLength \in Nat \ {0} /\ DayLength \in Nat \ {0}
    /\ MaxInFlight \in Nat /\ MaxTime \in Nat /\ MaxFaults \in Nat
    /\ AcceptDevelopment \in BOOLEAN

VARIABLES
    clock,
    registered,     \* control.apple_app_registrations: sets of <<scope, adam>>
    acked,          \* postbacks whose device got its 200
    tokens,         \* the buckets of the source and of each ADAM id
    quota,          \* HourlyLedgerQuota: count of each <<scope, hour>>
    request,        \* the HTTP requests
    strangers,      \* control.public_postback_audits
    overflows,      \* ledger.audit_logs 'apple_postback_invalid'
    batch,          \* ledger.ingest_batches and their status, by request
    logical,        \* logical events and facts: transaction |-> request
    attributed,     \* attribution results of requests
    drain,          \* processSdkInbox
    restarts, faults

apiVars == <<acked, tokens, quota, request, strangers, overflows>>
workerVars == <<logical, attributed, drain>>
vars == <<clock, registered, apiVars, batch, workerVars, restarts, faults>>

Fresh == [pc |-> "unused", body |-> "none", at |-> 0, scope |-> "none", count |-> 0]
\* What a request held is gone when it ends, except for what is in its batch.
Ended(r) == IF batch[r] = "none" THEN [Fresh EXCEPT !.pc = "done"] ELSE [request[r] EXCEPT !.pc = "done"]
Idle == [pc |-> "idle", rows |-> {}, all |-> {}, todo |-> {}]
InFlight(r) == request[r].pc \in {"lookup", "stranger", "overflow", "append", "answer"}
Hour(t) == t \div HourLength
Day(t) == t \div DayLength
Events(r) == <<request[r].scope, Body[request[r].body].transaction>>

-----------------------------------------------------------------------------
(* packages/apple-postback.                                                 *)

\* skanSignedMessage needs the fields that the signature of the version covers;
\* conversion values and the country are covered by none.
SkanSigned(p) ==
    CASE Body[p].version = 3 -> "campaign" \in Body[p].has
      [] Body[p].version = 4 -> "source" \in Body[p].has /\ {"first", "later"} \cap Body[p].has # {}
      [] OTHER -> FALSE

\* verifySkAdNetworkPostback and verifyAdAttributionKitPostback.
Verify(p) ==
    IF Body[p].key = "malformed" \/ (Body[p].kind = "skan" /\ ~SkanSigned(p)) THEN "malformed"
    ELSE IF Body[p].kind = "aak" /\ Body[p].key = "unknown" THEN "unknown_key"
    ELSE IF Body[p].kind = "aak" /\ Body[p].key = "development" /\ ~AcceptDevelopment
    THEN "development_postback_rejected"
    ELSE IF \/ Body[p].kind = "skan" /\ Body[p].key = "production"
            \/ Body[p].kind = "aak" /\ Body[p].key \in {"production", "development"}
    THEN "verified" ELSE "signature_invalid"

Verified(p) == Verify(p) = "verified"

\* normalizedPayload: what a body of its kind and version may say.
Normalized(p) ==
    LET has == Body[p].has IN
    /\ ~({"fine", "coarse"} \subseteq has)
    /\ Body[p].kind = "skan" =>
         /\ Body[p].version = 3 => {"source", "first", "later", "coarse"} \cap has = {}
         /\ Body[p].version = 4 => "campaign" \notin has
         /\ "later" \in has => "fine" \notin has

-----------------------------------------------------------------------------
(* Administrators: registerAppleApp.                                        *)

\* An ADAM id has one owner and an app one ADAM id; a conflict changes nothing.
RegisterAppleApp(s, a) ==
    /\ ~\E o \in Scopes, b \in Adams : <<o, b>> \in registered /\ (b = a \/ o = s)
    /\ registered' = registered \cup {<<s, a>>}
    /\ UNCHANGED <<clock, apiVars, batch, workerVars, restarts, faults>>

-----------------------------------------------------------------------------
(* The receiver.                                                            *)

Owner(a) == {s \in Scopes : <<s, a>> \in registered}

\* TokenBucket.allow for each of the keys, one after the other.
Allowed(keys) == \A k \in keys : tokens[k] >= 1
Spend(keys) == tokens' = [k \in DOMAIN tokens |-> IF k \in keys THEN tokens[k] - 1 ELSE tokens[k]]

\* A request up to its first query: the bucket of the source, the body and its
\* signature, the bucket of the ADAM id.  429 and 400 leave nothing behind and the
\* device will try again.
Receive(r, p) ==
    /\ request[r].pc = "unused" /\ \A o \in Requests : o < r => request[o].pc # "unused"
    /\ p \notin acked
    /\ Cardinality({o \in Requests : InFlight(o)}) < MaxInFlight
    /\ Allowed({"source"})
    /\ IF Verify(p) = "malformed" \/ ~Allowed({Body[p].adam})
       THEN Spend({"source"}) /\ request' = [request EXCEPT ![r] = Ended(r)]
       ELSE /\ Spend({"source", Body[p].adam})
            /\ request' = [request EXCEPT ![r] =
                  [Fresh EXCEPT !.pc = "lookup", !.body = p, !.at = clock]]
    /\ UNCHANGED <<clock, registered, acked, quota, strangers, overflows, batch, workerVars,
                   restarts, faults>>

\* Mutant of Count: this postback is not yet in the count.
CountBefore(s, t) == IF <<s, Hour(t)>> \in DOMAIN quota THEN quota[<<s, Hour(t)>>] ELSE 0

\* HourlyLedgerQuota.record
Count(s, t) == (IF <<s, Hour(t)>> \in DOMAIN quota THEN quota[<<s, Hour(t)>>] ELSE 0) + 1
Record(s, t) ==
    quota' = [k \in DOMAIN quota \cup {<<s, Hour(t)>>} |->
                 IF k = <<s, Hour(t)>> THEN Count(s, t) ELSE quota[k]]

\* Mutant of Resolve: the quota is taken from verified postbacks, too.
ResolveCountsAll(r) ==
    LET p == request[r].body
        owner == Owner(Body[p].adam)
    IN  /\ request[r].pc = "lookup"
        /\ IF owner = {}
           THEN request' = [request EXCEPT ![r].pc = "stranger"] /\ UNCHANGED quota
           ELSE LET s == CHOOSE o \in owner : TRUE IN
                IF ~Normalized(p)
                THEN request' = [request EXCEPT ![r] = Ended(r)] /\ UNCHANGED quota
                ELSE /\ request' = [request EXCEPT ![r].scope = s, ![r].count = Count(s, request[r].at),
                           ![r].pc = IF Count(s, request[r].at) <= Limit THEN "append" ELSE "overflow"]
                     /\ Record(s, request[r].at)
        /\ UNCHANGED <<clock, registered, acked, tokens, strangers, overflows, batch, workerVars,
                       restarts, faults>>

\* resolveScope, and all that follows before the next query: the fields are
\* checked, and the quota counts what could not be verified.
Resolve(r) ==
    LET p == request[r].body
        owner == Owner(Body[p].adam)
    IN  /\ request[r].pc = "lookup"
        /\ IF owner = {}
           THEN request' = [request EXCEPT ![r].pc = "stranger"] /\ UNCHANGED quota
           ELSE LET s == CHOOSE o \in owner : TRUE IN
                CASE ~Normalized(p) ->
                        request' = [request EXCEPT ![r] = Ended(r)] /\ UNCHANGED quota
                  [] Normalized(p) /\ Verified(p) ->
                        /\ request' = [request EXCEPT ![r].scope = s, ![r].pc = "append"]
                        /\ UNCHANGED quota
                  [] OTHER ->
                        /\ request' = [request EXCEPT ![r].scope = s, ![r].count = Count(s, request[r].at),
                              ![r].pc = IF Count(s, request[r].at) <= Limit THEN "append" ELSE "overflow"]
                        /\ Record(s, request[r].at)
        /\ UNCHANGED <<clock, registered, acked, tokens, strangers, overflows, batch, workerVars,
                       restarts, faults>>

Answering(r) == request' = [request EXCEPT ![r].pc = "answer"]

\* The one transaction of a request that is not refused.
RecordUnregisteredAudit(r) ==
    /\ request[r].pc = "stranger"
    /\ strangers' = strangers \cup {request[r].body}
    /\ Answering(r)
    /\ UNCHANGED <<clock, registered, acked, tokens, quota, overflows, batch, workerVars,
                   restarts, faults>>

RecordInvalidAudit(r) ==
    /\ request[r].pc = "overflow"
    /\ overflows' = overflows \cup {<<request[r].body, request[r].count>>}
    /\ Answering(r)
    /\ UNCHANGED <<clock, registered, acked, tokens, quota, strangers, batch, workerVars,
                   restarts, faults>>

AppendDurableBatch(r) ==
    /\ request[r].pc = "append"
    /\ batch' = [batch EXCEPT ![r] = "pending"]
    /\ Answering(r)
    /\ UNCHANGED <<clock, registered, acked, tokens, quota, strangers, overflows, workerVars,
                   restarts, faults>>

\* 200 with an empty body; the device may have given up waiting.
Answer(r, heard) ==
    /\ request[r].pc = "answer"
    /\ request' = [request EXCEPT ![r] = Ended(r)]
    /\ acked' = IF heard THEN acked \cup {request[r].body} ELSE acked
    /\ UNCHANGED <<clock, registered, tokens, quota, strangers, overflows, batch, workerVars,
                   restarts, faults>>

\* Mutant of RequestFails: the error is answered with 200.
RequestFailsQuietly(r) ==
    /\ request[r].pc \in {"lookup", "stranger", "overflow", "append"}
    /\ faults < MaxFaults /\ faults' = faults + 1
    /\ request' = [request EXCEPT ![r] = Ended(r)]
    /\ acked' = acked \cup {request[r].body}
    /\ UNCHANGED <<clock, registered, tokens, quota, strangers, overflows, batch, workerVars, restarts>>

\* A query or the transaction fails: 500.
RequestFails(r) ==
    /\ request[r].pc \in {"lookup", "stranger", "overflow", "append"}
    /\ faults < MaxFaults /\ faults' = faults + 1
    /\ request' = [request EXCEPT ![r] = Ended(r)]
    /\ UNCHANGED <<clock, registered, acked, tokens, quota, strangers, overflows, batch,
                   workerVars, restarts>>

\* The process dies and is started again with full buckets and an empty quota.
ApiRestarts ==
    /\ faults < MaxFaults /\ faults' = faults + 1
    /\ restarts' = restarts + 1
    /\ request' = [r \in Requests |-> IF InFlight(r) THEN Ended(r) ELSE request[r]]
    /\ tokens' = [k \in DOMAIN tokens |-> Burst]
    /\ quota' = [k \in {} |-> 0]
    /\ UNCHANGED <<clock, registered, acked, strangers, overflows, batch, workerVars>>

-----------------------------------------------------------------------------
(* The worker: the drain of the inbox.                                      *)

\* sortCandidateAttempts
Before(r, o) == request[r].at < request[o].at \/ (request[r].at = request[o].at /\ r < o)
IsFirst(r, all) == ~\E o \in all : Events(o) = Events(r) /\ Before(o, r)

\* The pending batches, to be evaluated together with the processed ones.
Select ==
    LET rows == {r \in Requests : batch[r] = "pending"} IN
    /\ drain.pc = "idle" /\ rows # {}
    /\ drain' = [pc |-> "records", rows |-> rows, todo |-> rows,
                 all |-> rows \cup {r \in Requests : batch[r] = "processed"}]
    /\ UNCHANGED <<clock, registered, apiVars, batch, logical, attributed, restarts, faults>>

\* Mutant of PersistRecord: the fact follows the latest evaluation.
PersistRecordReplacing(r) ==
    /\ drain.pc = "records" /\ r \in drain.todo
    /\ logical' = IF IsFirst(r, drain.all) THEN (Events(r) :> r) @@ logical ELSE logical
    /\ drain' = IF drain.todo = {r} THEN [drain EXCEPT !.pc = "attributions", !.todo = drain.rows]
                ELSE [drain EXCEPT !.todo = @ \ {r}]
    /\ UNCHANGED <<clock, registered, apiVars, batch, attributed, restarts, faults>>

\* One record: the first delivery of an event becomes the logical event with its
\* fact, unless the event has one.
PersistRecord(r) ==
    /\ drain.pc = "records" /\ r \in drain.todo
    /\ logical' = IF IsFirst(r, drain.all) /\ Events(r) \notin DOMAIN logical
                  THEN [e \in DOMAIN logical \cup {Events(r)} |->
                           IF e \in DOMAIN logical THEN logical[e] ELSE r]
                  ELSE logical
    /\ drain' = IF drain.todo = {r} THEN [drain EXCEPT !.pc = "attributions", !.todo = drain.rows]
                ELSE [drain EXCEPT !.todo = @ \ {r}]
    /\ UNCHANGED <<clock, registered, apiVars, batch, attributed, restarts, faults>>

\* makeAggregatePostbackAttribution; the last reason is the one of non_organic.
Attribution(p) ==
    CASE ~Verified(p) -> "skan_signature_invalid"
      [] Verified(p) /\ "won" \notin Body[p].has -> "postback_not_winner"
      [] Verified(p) /\ "won" \in Body[p].has /\ "source" \notin Body[p].has
            -> "crowd_anonymity_suppressed"
      [] Verified(p) /\ {"won", "source"} \subseteq Body[p].has /\ {"fine", "coarse"} \cap Body[p].has = {}
            -> "conversion_value_null"
      [] OTHER -> "skan_postback_verified"

\* The attributions of the first deliveries, each in a transaction of its own.
PersistAttributions ==
    /\ drain.pc = "attributions"
    /\ attributed' = attributed \cup
          {<<r, Attribution(request[r].body)>> : r \in {o \in drain.rows : IsFirst(o, drain.all)}}
    /\ drain' = [drain EXCEPT !.pc = "mark"]
    /\ UNCHANGED <<clock, registered, apiVars, batch, logical, restarts, faults>>

Mark ==
    /\ drain.pc = "mark"
    /\ batch' = [r \in Requests |-> IF r \in drain.rows THEN "processed" ELSE batch[r]]
    /\ drain' = Idle
    /\ UNCHANGED <<clock, registered, apiVars, logical, attributed, restarts, faults>>

\* The worker dies: what is pending stays pending.
WorkerDies ==
    /\ drain # Idle
    /\ faults < MaxFaults /\ faults' = faults + 1
    /\ drain' = Idle
    /\ UNCHANGED <<clock, registered, apiVars, batch, logical, attributed, restarts>>

-----------------------------------------------------------------------------

\* The clock, and TokenBucket.refill.
Tick ==
    /\ clock < MaxTime
    /\ clock' = clock + 1
    /\ tokens' = [k \in DOMAIN tokens |-> IF tokens[k] + Rate > Burst THEN Burst ELSE tokens[k] + Rate]
    /\ UNCHANGED <<registered, acked, quota, request, strangers, overflows, batch, workerVars,
                   restarts, faults>>

Init ==
    /\ clock = 0
    /\ registered = {} /\ acked = {}
    /\ tokens = [k \in {"source"} \cup Adams |-> Burst]
    /\ quota = [k \in {} |-> 0]
    /\ request = [r \in Requests |-> Fresh]
    /\ strangers = {} /\ overflows = {}
    /\ batch = [r \in Requests |-> "none"]
    /\ logical = [e \in {} |-> 0] /\ attributed = {}
    /\ drain = Idle
    /\ restarts = 0 /\ faults = 0

Serve(r) ==
    \/ \E p \in Postbacks : Receive(r, p)
    \/ Resolve(r) \/ RecordUnregisteredAudit(r) \/ RecordInvalidAudit(r) \/ AppendDurableBatch(r)
    \/ \E heard \in BOOLEAN : Answer(r, heard)
    \/ RequestFails(r)

Drain ==
    \/ Select \/ PersistAttributions \/ Mark \/ WorkerDies
    \/ \E r \in Requests : PersistRecord(r)

Next ==
    \/ \E s \in Scopes, a \in Adams : RegisterAppleApp(s, a)
    \/ \E r \in Requests : Serve(r)
    \/ ApiRestarts \/ Drain \/ Tick

Spec == Init /\ [][Next]_vars

-----------------------------------------------------------------------------
(* Correctness.                                                             *)

\* eventCountValue of metrics/cohort.ts: the events that the daily series count,
\* with their day.
Counted ==
    {<<e, Day(request[logical[e]].at)>> : e \in {x \in DOMAIN logical :
        LET p == request[logical[x]].body IN
        /\ <<logical[x], "skan_postback_verified">> \in attributed
        /\ Verified(p) /\ {"won", "source"} \subseteq Body[p].has
        /\ {"fine", "coarse"} \cap Body[p].has # {}}}

Audited(p) == p \in strangers \/ \E x \in overflows : x[1] = p
Durable(p) == \E r \in Requests : request[r].body = p /\ batch[r] # "none"

\* The device stops repeating a postback at its 200, so by then the postback is an
\* audit entry or a batch, whatever failed, died or overlapped before
\* (receiveApplePostback answers last).
AcknowledgedIsDurable == \A p \in acked : Audited(p) \/ Durable(p)

\* A postback that Apple signed is never given up for a quota of others: once it is
\* answered, it is in the inbox, or its app was unknown.
SignedIsNeverDropped ==
    \A p \in acked : Verified(p) => p \in strangers \/ Durable(p)

\* What could not be verified takes at most its hourly share of the ledger of an
\* app, for each life of the process (HourlyLedgerQuota).
UnverifiedWithinQuota ==
    \A s \in Scopes, h \in 0 .. Hour(MaxTime) :
        Cardinality({r \in Requests : /\ batch[r] # "none" /\ request[r].scope = s
                                      /\ ~Verified(request[r].body) /\ Hour(request[r].at) = h})
            <= Limit * (1 + restarts)

\* However often a postback is delivered, in whatever order its deliveries are
\* drained and evaluated again, it is counted on one day, and what was counted
\* stays counted on that day (ON CONFLICT DO NOTHING of events and facts).
CountedForGood ==
    [][/\ Counted \subseteq Counted'
       /\ \A x, y \in Counted' : x[1] = y[1] => x = y]_vars
=============================================================================
