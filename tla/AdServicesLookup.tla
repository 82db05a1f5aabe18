-------------------------- MODULE AdServicesLookup --------------------------
(***************************************************************************)
(* The AdServices lookups of one tenant: apps/worker/src/                  *)
(* adservices-worker.ts, the table ephemeral.adservices_lookups and the    *)
(* removal of its rows by a privacy deletion (apps/api/src/privacy.ts).    *)
(*                                                                         *)
(* The drain of the inbox queues one lookup per accepted install that      *)
(* carries a token.  Each tick of the worker runs one pass: it samples the *)
(* clock once, reads the due rows and treats them one after the other,     *)
(* asking Apple when the token is young enough, allowed by the rate limit  *)
(* and readable.  An exception ends the pass; the next tick starts another.*)
(*                                                                         *)
(* A lookup is named by a number: lookup_id, the tie-breaker of the order. *)
(***************************************************************************)
EXTENDS Naturals, FiniteSets

CONSTANTS
    Lookups,        \* install records with a token
    Anchored,       \* those whose attribution installAttribution can find
    Expiry,         \* 23 hours: a token this old is not asked about
    RateDelay,      \* 1 s: next attempt of a rate-limited lookup
    NotFoundDelay,  \* 5 s: next attempt after a 404
    BackoffBase,    \* 60 s, doubled per attempt
    BackoffCap,     \* 3600 s
    Limit,          \* rows read by one pass (100)
    MaxQueueTime,   \* bound: no lookup is queued later
    MaxTime,        \* bound: the clock
    MaxFaults,      \* bound: passes that die
    None

ASSUME LookupsAssumption ==
    /\ Lookups \subseteq Nat /\ Anchored \subseteq Lookups /\ None \notin Lookups
ASSUME DelaysAssumption ==
    /\ Expiry \in Nat /\ RateDelay \in Nat /\ NotFoundDelay \in Nat
    /\ BackoffBase \in Nat /\ BackoffCap \in Nat
ASSUME LimitsAssumption ==
    /\ Limit \in Nat \ {0} /\ MaxQueueTime \in Nat /\ MaxTime \in Nat /\ MaxFaults \in Nat

VARIABLES
    now,        \* the clock
    known,      \* lookups ever queued
    queued,     \* rows of ephemeral.adservices_lookups
    created, attempts, next,    \* their token_created_at, attempts, next_attempt_at
    body,       \* what the payload store holds under token_ref
    outcome,    \* the row's end: a status of adservices_lookup_results, or dropped
    erased,     \* rows removed by a privacy deletion
    pass,       \* the running pass: its `now` and the rows it has yet to treat
    asking,     \* the lookup Apple has been asked about
    faults

vars == <<now, known, queued, created, attempts, next, body, outcome, erased,
          pass, asking, faults>>
rowVars == <<known, created, attempts, next>>

Statuses == {"attributed", "not_attributed", "token_expired", "lookup_unavailable"}
Answers == {"attributed", "not_attributed", "malformed", "invalid", "not_found", "error"}

-----------------------------------------------------------------------------
\* ORDER BY next_attempt_at, lookup_id.
Earlier(l, m) == next[l] < next[m] \/ (next[l] = next[m] /\ l < m)

\* Mutant of Due: the wait before the next attempt is ignored.
AllQueued(t) == queued

\* WHERE next_attempt_at <= now OR token_created_at <= now - 23h.
Due(t) == {l \in queued : next[l] <= t \/ created[l] + Expiry <= t}

InPass == pass # None /\ asking = None
IsNext(l) == l \in pass.todo /\ \A m \in pass.todo : m = l \/ Earlier(l, m)
Expired(l) == created[l] + Expiry <= pass.at

AtMost(n, bound) == IF n < bound THEN n ELSE bound
\* Math.min(3_600_000, 60_000 * (2 ** attempts)), for 1 to 3 attempts.
Backoff(n) ==
    AtMost(BackoffBase * (IF n = 1 THEN 2 ELSE IF n = 2 THEN 4 ELSE 8), BackoffCap)

\* queueAdServicesLookup, from the drain of the inbox: ON CONFLICT DO NOTHING.
\* token_created_at is when the batch was received, which may be long ago.  The
\* body of the batch is stored; its token may be unusable.
Queue(l, b, at) ==
    /\ pass = None
    /\ l \notin known
    /\ now <= MaxQueueTime
    /\ known' = known \cup {l}
    /\ queued' = queued \cup {l}
    /\ created' = [created EXCEPT ![l] = at]
    /\ attempts' = [attempts EXCEPT ![l] = 0]
    /\ next' = [next EXCEPT ![l] = at]
    /\ body' = [body EXCEPT ![l] = b]
    /\ UNCHANGED <<now, outcome, erased, pass, asking, faults>>

\* processAdServicesLookups starts: the clock is sampled, the due rows are read.
BeginPass ==
    /\ pass = None
    /\ Due(now) # {}
    /\ pass' = [at |-> now,
                todo |-> {l \in Due(now) : Cardinality({m \in Due(now) : Earlier(m, l)}) < Limit}]
    /\ UNCHANGED <<now, rowVars, queued, body, outcome, erased, asking, faults>>

\* Mutant of Complete: the row stays behind the result.
CompleteKeepingRow(l, status) ==
    IF l \in Anchored
    THEN /\ outcome' = [outcome EXCEPT ![l] = status]
         /\ pass' = [pass EXCEPT !.todo = @ \ {l}]
         /\ UNCHANGED queued
    ELSE pass' = None /\ UNCHANGED <<queued, outcome>>

\* completeLookup: one transaction writes the superseding attribution and the
\* result and deletes the row.  installAttribution throws when the install record
\* is not the one its logical event was stored with, and that ends the pass.
Complete(l, status) ==
    IF l \in Anchored
    THEN /\ outcome' = [outcome EXCEPT ![l] = status]
         /\ queued' = queued \ {l}
         /\ pass' = [pass EXCEPT !.todo = @ \ {l}]
    ELSE pass' = None /\ UNCHANGED <<queued, outcome>>

\* reschedule: an UPDATE, which a row deleted meanwhile does not feel.
Retry(l, n, delay) ==
    /\ attempts' = IF l \in queued THEN [attempts EXCEPT ![l] = n] ELSE attempts
    /\ next' = IF l \in queued THEN [next EXCEPT ![l] = pass.at + delay] ELSE next
    /\ pass' = [pass EXCEPT !.todo = @ \ {l}]
    /\ UNCHANGED <<known, queued, created, outcome>>

\* A token of 23 hours is recorded as expired without being read.
Expire(l) ==
    /\ InPass /\ IsNext(l)
    /\ Expired(l)
    /\ Complete(l, "token_expired")
    /\ UNCHANGED <<now, rowVars, body, erased, asking, faults>>

\* AdServicesLookupLimiter.allow refuses: the attempt is not counted.
RateLimited(l) ==
    /\ InPass /\ IsNext(l)
    /\ ~Expired(l)
    /\ Retry(l, attempts[l], RateDelay)
    /\ UNCHANGED <<now, body, erased, asking, faults>>

\* tokenFor throws adservices_token_missing: the row goes without a result.
DropToken(l) ==
    /\ InPass /\ IsNext(l)
    /\ ~Expired(l)
    /\ body[l] = "unusable"
    /\ queued' = queued \ {l}
    /\ outcome' = [outcome EXCEPT ![l] = "dropped"]
    /\ pass' = [pass EXCEPT !.todo = @ \ {l}]
    /\ UNCHANGED <<now, rowVars, body, erased, asking, faults>>

\* tokenFor throws anything else, as for a purged body: the pass ends.
TokenUnreadable(l) ==
    /\ InPass /\ IsNext(l)
    /\ ~Expired(l)
    /\ body[l] = "gone"
    /\ pass' = None
    /\ UNCHANGED <<now, rowVars, queued, body, outcome, erased, asking, faults>>

\* The request is sent; the pass waits for the answer.
Ask(l) ==
    /\ InPass /\ IsNext(l)
    /\ ~Expired(l)
    /\ body[l] = "token"
    /\ asking' = l
    /\ UNCHANGED <<now, rowVars, queued, body, outcome, erased, pass, faults>>

\* 200: the result is final.  A body that is not a lookup result throws.
AnswerOk(l, answer) ==
    /\ \/ answer \in {"attributed", "not_attributed"} /\ Complete(l, answer)
       \/ answer = "malformed" /\ pass' = None /\ UNCHANGED <<queued, outcome>>
    /\ UNCHANGED rowVars

\* 400: the token is refused for good.
AnswerInvalid(l) ==
    /\ Complete(l, "lookup_unavailable")
    /\ UNCHANGED rowVars

\* 404: the third counted attempt is the last.
AnswerNotFound(l) ==
    IF attempts[l] + 1 >= 3
    THEN Complete(l, "lookup_unavailable") /\ UNCHANGED rowVars
    ELSE Retry(l, attempts[l] + 1, NotFoundDelay)

\* 500, any other status and a failed request: back off.
AnswerError(l) ==
    Retry(l, AtMost(attempts[l] + 1, 3), Backoff(AtMost(attempts[l] + 1, 3)))

Answer(l, answer) ==
    /\ asking = l /\ l # None
    /\ asking' = None
    /\ \/ answer \in {"attributed", "not_attributed", "malformed"} /\ AnswerOk(l, answer)
       \/ answer = "invalid" /\ AnswerInvalid(l)
       \/ answer = "not_found" /\ AnswerNotFound(l)
       \/ answer = "error" /\ AnswerError(l)
    /\ UNCHANGED <<now, body, erased, faults>>

EndPass ==
    /\ pass # None /\ pass.todo = {}
    /\ pass' = None
    /\ UNCHANGED <<now, rowVars, queued, body, outcome, erased, asking, faults>>

\* A transaction fails, the disk is full or the worker is killed: the exception
\* leaves the pass, committed rows stay.
PassFails ==
    /\ pass # None
    /\ faults < MaxFaults
    /\ faults' = faults + 1
    /\ pass' = None
    /\ asking' = None
    /\ UNCHANGED <<now, rowVars, queued, body, outcome, erased>>

\* executePrivacyRequest purges the token before its transaction ends, and
\* cannot take that back if the transaction fails.
PurgeToken(l) ==
    /\ l \in queued
    /\ body[l] # "gone"
    /\ body' = [body EXCEPT ![l] = "gone"]
    /\ UNCHANGED <<now, rowVars, queued, outcome, erased, pass, asking, faults>>

EraseRow(l) ==
    /\ l \in queued
    /\ body[l] = "gone"
    /\ queued' = queued \ {l}
    /\ erased' = erased \cup {l}
    /\ UNCHANGED <<now, rowVars, body, outcome, pass, asking, faults>>

Tick ==
    /\ now < MaxTime
    /\ now' = now + 1
    /\ UNCHANGED <<rowVars, queued, body, outcome, erased, pass, asking, faults>>

-----------------------------------------------------------------------------
Init ==
    /\ now = 0
    /\ known = {} /\ queued = {}
    /\ created = [l \in Lookups |-> 0]
    /\ attempts = [l \in Lookups |-> 0]
    /\ next = [l \in Lookups |-> 0]
    /\ body = [l \in Lookups |-> "gone"]
    /\ outcome = [l \in Lookups |-> "none"]
    /\ erased = {}
    /\ pass = None
    /\ asking = None
    /\ faults = 0

Worker ==
    \/ BeginPass \/ EndPass
    \/ \E l \in Lookups :
        \/ Expire(l) \/ RateLimited(l) \/ DropToken(l) \/ TokenUnreadable(l) \/ Ask(l)
        \/ \E answer \in Answers : Answer(l, answer)

Next ==
    \/ Worker \/ PassFails \/ Tick
    \/ \E l \in Lookups :
        \/ PurgeToken(l) \/ EraseRow(l)
        \/ \E b \in {"token", "unusable"}, at \in 0 .. now : Queue(l, b, at)

Spec == Init /\ [][Next]_vars

\* The worker ticks for ever, requests to Apple end (with an answer or an error)
\* and time passes; deletions and faults are under no obligation.
FairSpec == Spec /\ WF_vars(Worker) /\ WF_vars(Tick)

-----------------------------------------------------------------------------
TypeOK ==
    /\ now \in Nat
    /\ known \subseteq Lookups /\ queued \subseteq known /\ erased \subseteq known
    /\ created \in [Lookups -> Nat]
    /\ attempts \in [Lookups -> 0 .. 3]
    /\ next \in [Lookups -> Nat]
    /\ body \in [Lookups -> {"token", "unusable", "gone"}]
    /\ outcome \in [Lookups -> Statuses \cup {"none", "dropped"}]
    /\ pass = None \/ pass \in [at : Nat, todo : SUBSET known]
    /\ asking \in Lookups \cup {None}
    /\ faults \in Nat

\* A lookup has its row for exactly as long as it has neither an outcome nor been
\* erased, although the pass works on rows it read earlier: none is lost by a
\* pass that dies and none is answered twice.
RowUntilOutcome ==
    \A l \in known :
        /\ l \in queued => outcome[l] = "none" /\ l \notin erased
        /\ l \notin queued => outcome[l] # "none" \/ l \in erased

\* Apple is never asked before the next_attempt_at of the row, whatever the age of
\* the rows the pass works on: the 5-second and the back-off intervals are kept.
NeverAskedEarly == asking # None => next[asking] <= now

\* The inductive strengthening of the three: the pass never runs ahead of the
\* clock, treats only rows that were due when it began, and waits for an answer
\* about one of them; a lookup not queued yet has no outcome.
PassRowsAreDue ==
    pass # None =>
        /\ pass.at <= now
        /\ \A l \in pass.todo : next[l] <= pass.at \/ Expired(l)
AskedWithinPass == asking # None => pass # None /\ asking \in pass.todo
OutcomeOnlyOfKnown == \A l \in Lookups : l \notin known => outcome[l] = "none"
LookupInv ==
    /\ TypeOK /\ RowUntilOutcome /\ NeverAskedEarly
    /\ PassRowsAreDue /\ AskedWithinPass /\ OutcomeOnlyOfKnown

\* Every lookup whose install can be found comes to an end: retries, rate limit,
\* unreadable tokens and malformed answers, its own and those of the rows before
\* it, last until the token's age ends them at the latest.
EveryLookupSettles == \A l \in Lookups : (l \in queued) ~> (l \notin queued)
=============================================================================
