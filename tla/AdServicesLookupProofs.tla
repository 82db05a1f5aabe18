----------------------- MODULE AdServicesLookupProofs -----------------------
(***************************************************************************)
(* For any number of lookups and any delays: the attempts counter stays    *)
(* within the CHECK of its column, a lookup has its row until it has its   *)
(* outcome, and Apple is never asked before a row's next_attempt_at.       *)
(***************************************************************************)
EXTENDS AdServicesLookup, TLAPS

\* The delays after a failure are natural numbers.
LEMMA BackoffType == \A n \in 1 .. 3 : Backoff(n) \in Nat
  BY DelaysAssumption DEF Backoff, AtMost

\* The empty queue of a fresh deployment.
LEMMA InitLookupInv == Init => LookupInv
  BY LookupsAssumption
  DEF Init, LookupInv, TypeOK, RowUntilOutcome, PassRowsAreDue, AskedWithinPass,
      NeverAskedEarly, OutcomeOnlyOfKnown, Statuses

\* A stuttering step.
LEMMA StutterLookupInv == LookupInv /\ UNCHANGED vars => LookupInv'
  BY DEF LookupInv, vars, TypeOK, RowUntilOutcome, PassRowsAreDue, AskedWithinPass,
         NeverAskedEarly, OutcomeOnlyOfKnown, Expired

\* Queueing happens between passes.
LEMMA QueueInv ==
  ASSUME NEW l \in Lookups, NEW b \in {"token", "unusable"}, NEW at \in 0 .. now,
         LookupInv, Queue(l, b, at)
  PROVE  LookupInv'
<1> USE LookupsAssumption DEF LookupInv
<1>1. TypeOK'
  BY DEF TypeOK, Queue
<1>2. RowUntilOutcome' /\ OutcomeOnlyOfKnown'
  BY DEF TypeOK, RowUntilOutcome, OutcomeOnlyOfKnown, Queue
<1>3. PassRowsAreDue' /\ AskedWithinPass' /\ NeverAskedEarly'
  BY DEF TypeOK, PassRowsAreDue, AskedWithinPass, NeverAskedEarly, Queue
<1> QED BY <1>1, <1>2, <1>3

\* A pass reads rows that are due at the time it samples.
LEMMA BeginPassInv ==
  ASSUME LookupInv, BeginPass
  PROVE  LookupInv'
<1> USE DEF LookupInv
<1>1. TypeOK'
  BY DEF TypeOK, BeginPass, rowVars, Due
<1>2. RowUntilOutcome' /\ OutcomeOnlyOfKnown' /\ NeverAskedEarly'
  BY DEF RowUntilOutcome, OutcomeOnlyOfKnown, NeverAskedEarly, BeginPass, rowVars
<1>3. AskedWithinPass'
  BY DEF AskedWithinPass, BeginPass
<1>4. PassRowsAreDue'
  BY DEF TypeOK, PassRowsAreDue, Expired, BeginPass, rowVars, Due
<1> QED BY <1>1, <1>2, <1>3, <1>4

\* The end of a lookup, by an answer or by its age: result and row change together.
LEMMA CompleteInv ==
  ASSUME LookupInv, NEW l \in Lookups, NEW status \in Statuses,
         pass # None, l \in pass.todo, asking \in {l, None}, asking' = None,
         Complete(l, status),
         UNCHANGED <<now, rowVars, body, erased, faults>>
  PROVE  LookupInv'
<1> USE DEF LookupInv
<1>1. CASE l \in Anchored
  <2>1. l \in known
    BY DEF TypeOK
  <2>2. TypeOK'
    BY <1>1 DEF TypeOK, Complete, rowVars
  <2>3. RowUntilOutcome' /\ OutcomeOnlyOfKnown'
    BY <1>1, <2>1 DEF TypeOK, RowUntilOutcome, OutcomeOnlyOfKnown, Complete, Statuses, rowVars
  <2>4. pass' # None => pass'.at = pass.at /\ pass'.todo \subseteq pass.todo
    BY <1>1 DEF TypeOK, Complete
  <2>5. PassRowsAreDue' /\ AskedWithinPass' /\ NeverAskedEarly'
    BY <2>4 DEF PassRowsAreDue, AskedWithinPass, NeverAskedEarly, Expired, rowVars
  <2> QED BY <2>2, <2>3, <2>5
<1>2. CASE l \notin Anchored
  <2>1. TypeOK'
    BY <1>2 DEF TypeOK, Complete, rowVars
  <2>2. RowUntilOutcome' /\ OutcomeOnlyOfKnown'
    BY <1>2 DEF RowUntilOutcome, OutcomeOnlyOfKnown, Complete, rowVars
  <2>3. PassRowsAreDue' /\ AskedWithinPass' /\ NeverAskedEarly'
    BY <1>2 DEF PassRowsAreDue, AskedWithinPass, NeverAskedEarly, Complete
  <2> QED BY <2>1, <2>2, <2>3
<1> QED BY <1>1, <1>2

\* A rescheduled lookup leaves the pass with its new next_attempt_at.
LEMMA RetryInv ==
  ASSUME LookupInv, NEW l \in Lookups, NEW n \in 0 .. 3, NEW delay \in Nat,
         pass # None, l \in pass.todo, asking \in {l, None}, asking' = None,
         Retry(l, n, delay),
         UNCHANGED <<now, body, erased, faults>>
  PROVE  LookupInv'
<1> USE DEF LookupInv
<1>1. pass.at \in Nat /\ pass.at + delay \in Nat
  BY DEF TypeOK
<1>2. TypeOK'
  BY <1>1 DEF TypeOK, Retry
<1>3. RowUntilOutcome' /\ OutcomeOnlyOfKnown'
  BY DEF RowUntilOutcome, OutcomeOnlyOfKnown, Retry
<1>4. pass'.at = pass.at /\ pass'.todo = pass.todo \ {l}
  BY DEF TypeOK, Retry
<1>5. \A m \in pass'.todo : next'[m] = next[m] /\ created'[m] = created[m]
  BY <1>4 DEF TypeOK, Retry
<1>6. PassRowsAreDue' /\ AskedWithinPass' /\ NeverAskedEarly'
  BY <1>4, <1>5 DEF PassRowsAreDue, AskedWithinPass, NeverAskedEarly, Expired
<1> QED BY <1>2, <1>3, <1>6

\* The next row of a running pass.
LEMMA NextRowFacts ==
  ASSUME InPass, NEW l \in Lookups, IsNext(l)
  PROVE  pass # None /\ asking = None /\ l \in pass.todo
  BY DEF InPass, IsNext

\* A token of 23 hours.
LEMMA ExpireInv ==
  ASSUME NEW l \in Lookups, LookupInv, Expire(l)
  PROVE  LookupInv'
  <1>1. pass # None /\ asking = None /\ l \in pass.todo
    BY NextRowFacts DEF Expire
  <1>2. "token_expired" \in Statuses
    BY DEF Statuses, Expire, LookupInv, TypeOK
  <1> QED BY <1>1, <1>2, CompleteInv DEF Expire

\* A refusal of the rate limiter.
LEMMA RateLimitedInv ==
  ASSUME NEW l \in Lookups, LookupInv, RateLimited(l)
  PROVE  LookupInv'
  <1>1. pass # None /\ asking = None /\ l \in pass.todo
    BY NextRowFacts DEF RateLimited
  <1>2. attempts[l] \in 0 .. 3 /\ RateDelay \in Nat
    BY DelaysAssumption DEF RateLimited, LookupInv, TypeOK
  <1> QED BY <1>1, <1>2, RetryInv DEF RateLimited

\* A token that is not one.
LEMMA DropTokenInv ==
  ASSUME NEW l \in Lookups, LookupInv, DropToken(l)
  PROVE  LookupInv'
<1> USE DEF LookupInv
<1>1. pass # None /\ asking = None /\ l \in pass.todo
  BY NextRowFacts DEF DropToken
<1>2. l \in known /\ pass'.at = pass.at /\ pass'.todo = pass.todo \ {l}
  BY <1>1 DEF TypeOK, DropToken
<1>3. TypeOK'
  BY <1>1 DEF TypeOK, DropToken, rowVars
<1>4. RowUntilOutcome' /\ OutcomeOnlyOfKnown'
  BY <1>2 DEF TypeOK, RowUntilOutcome, OutcomeOnlyOfKnown, DropToken, rowVars
<1>5. PassRowsAreDue' /\ AskedWithinPass' /\ NeverAskedEarly'
  BY <1>1, <1>2 DEF PassRowsAreDue, AskedWithinPass, NeverAskedEarly, Expired, DropToken, rowVars
<1> QED BY <1>3, <1>4, <1>5

\* The steps that end a pass without touching a row.
LEMMA PassEndsInv ==
  ASSUME LookupInv, pass' = None, asking' = None, faults' \in Nat,
         UNCHANGED <<now, rowVars, queued, body, outcome, erased>>
  PROVE  LookupInv'
  BY DEF LookupInv, TypeOK, RowUntilOutcome, PassRowsAreDue, AskedWithinPass,
         NeverAskedEarly, OutcomeOnlyOfKnown, rowVars

\* A question is only sent about a row that is due and not expired.
LEMMA AskInv ==
  ASSUME NEW l \in Lookups, LookupInv, Ask(l)
  PROVE  LookupInv'
<1> USE DEF LookupInv
<1>1. pass # None /\ asking = None /\ l \in pass.todo
  BY NextRowFacts DEF Ask
<1>2. next[l] <= now
  BY <1>1 DEF TypeOK, PassRowsAreDue, Ask
<1>3. TypeOK'
  BY DEF TypeOK, Ask, rowVars
<1>4. RowUntilOutcome' /\ OutcomeOnlyOfKnown' /\ PassRowsAreDue'
  BY DEF RowUntilOutcome, OutcomeOnlyOfKnown, PassRowsAreDue, Expired, Ask, rowVars
<1>5. AskedWithinPass' /\ NeverAskedEarly'
  BY <1>1, <1>2 DEF AskedWithinPass, NeverAskedEarly, Ask, rowVars
<1> QED BY <1>3, <1>4, <1>5

\* The six kinds of answer.
LEMMA AnswerInv ==
  ASSUME NEW l \in Lookups, NEW answer \in Answers, LookupInv, Answer(l, answer)
  PROVE  LookupInv'
<1>1. /\ pass # None /\ l \in pass.todo /\ asking = l /\ asking' = None
      /\ UNCHANGED <<now, body, erased, faults>>
  BY DEF Answer, LookupInv, AskedWithinPass
<1>2. attempts[l] \in 0 .. 3 /\ faults \in Nat
  BY DEF LookupInv, TypeOK
<1>3. CASE AnswerOk(l, answer)
  <2>1. CASE answer \in {"attributed", "not_attributed"} /\ Complete(l, answer)
    <3>1. answer \in Statuses /\ UNCHANGED rowVars
      BY <1>3, <2>1 DEF Statuses, AnswerOk
    <3> QED BY <1>1, <1>2, <2>1, <3>1, CompleteInv
  <2>2. CASE pass' = None /\ UNCHANGED <<queued, outcome>>
    <3>1. UNCHANGED rowVars
      BY <1>3 DEF AnswerOk
    <3> QED BY <1>1, <1>2, <2>2, <3>1, PassEndsInv
  <2> QED BY <1>3, <2>1, <2>2 DEF AnswerOk
<1>4. CASE AnswerInvalid(l)
  <2>1. "lookup_unavailable" \in Statuses /\ UNCHANGED rowVars
        /\ Complete(l, "lookup_unavailable")
    BY <1>4 DEF Statuses, AnswerInvalid
  <2> QED BY <1>1, <1>2, <2>1, CompleteInv
<1>5. CASE AnswerNotFound(l)
  <2>1. CASE attempts[l] + 1 >= 3
    <3>1. "lookup_unavailable" \in Statuses /\ Complete(l, "lookup_unavailable")
          /\ UNCHANGED rowVars
      BY <1>5, <2>1 DEF Statuses, AnswerNotFound
    <3> QED BY <1>1, <3>1, CompleteInv
  <2>2. CASE ~(attempts[l] + 1 >= 3)
    <3>1. attempts[l] + 1 \in 0 .. 3 /\ NotFoundDelay \in Nat
      BY <1>2, <2>2, DelaysAssumption
    <3>2. Retry(l, attempts[l] + 1, NotFoundDelay)
      BY <1>5, <2>2 DEF AnswerNotFound
    <3> QED BY <1>1, <3>1, <3>2, RetryInv
  <2> QED BY <2>1, <2>2
<1>6. CASE AnswerError(l)
  <2> DEFINE n == AtMost(attempts[l] + 1, 3)
  <2>1. n \in 1 .. 3
    BY <1>2 DEF AtMost
  <2>2. n \in 0 .. 3 /\ Backoff(n) \in Nat
    BY <2>1, BackoffType
  <2>3. Retry(l, n, Backoff(n))
    BY <1>2, <1>6 DEF AnswerError
  <2> HIDE DEF n
  <2> QED BY <1>1, <2>2, <2>3, RetryInv
<1> QED BY <1>3, <1>4, <1>5, <1>6 DEF Answer

\* A privacy deletion, in its two parts, and the clock.
LEMMA EnvironmentInv ==
  ASSUME LookupInv,
         Tick \/ \E l \in Lookups : PurgeToken(l) \/ EraseRow(l)
  PROVE  LookupInv'
<1> USE DEF LookupInv
<1>1. CASE Tick
  BY <1>1 DEF Tick, TypeOK, RowUntilOutcome, PassRowsAreDue, AskedWithinPass,
              NeverAskedEarly, OutcomeOnlyOfKnown, Expired, rowVars
<1>2. ASSUME NEW l \in Lookups, PurgeToken(l) PROVE LookupInv'
  BY <1>2 DEF PurgeToken, TypeOK, RowUntilOutcome, PassRowsAreDue, AskedWithinPass,
              NeverAskedEarly, OutcomeOnlyOfKnown, Expired, rowVars
<1>3. ASSUME NEW l \in Lookups, EraseRow(l) PROVE LookupInv'
  BY <1>3 DEF EraseRow, TypeOK, RowUntilOutcome, PassRowsAreDue, AskedWithinPass,
              NeverAskedEarly, OutcomeOnlyOfKnown, Expired, rowVars
<1> QED BY <1>1, <1>2, <1>3

\* Every step preserves the invariant.
LEMMA NextLookupInv == LookupInv /\ [Next]_vars => LookupInv'
<1> SUFFICES ASSUME LookupInv, [Next]_vars PROVE LookupInv'
  OBVIOUS
<1>1. CASE UNCHANGED vars
  BY <1>1, StutterLookupInv
<1>2. CASE EndPass \/ PassFails \/ \E l \in Lookups : TokenUnreadable(l)
  <2>1. asking = None \/ PassFails
    BY <1>2 DEF EndPass, TokenUnreadable, InPass, LookupInv, AskedWithinPass
  <2>2. pass' = None /\ asking' = None /\ faults' \in Nat
        /\ UNCHANGED <<now, rowVars, queued, body, outcome, erased>>
    BY <1>2, <2>1 DEF EndPass, PassFails, TokenUnreadable, LookupInv, TypeOK
  <2> QED BY <2>2, PassEndsInv
<1> QED
  BY <1>1, <1>2, QueueInv, BeginPassInv, ExpireInv, RateLimitedInv, DropTokenInv,
     AskInv, AnswerInv, EnvironmentInv DEF Next, Worker

\* A running pass of the AdServices worker holds rows that were due when it began, and
\* asks Apple about one of them, for any delays and deaths.
THEOREM LookupInvariant == Spec => []LookupInv
  BY InitLookupInv, NextLookupInv, PTL DEF Spec

\* The attempts counter never leaves 0..3, which is what the CHECK of
\* ephemeral.adservices_lookups.attempts demands, and the rest of the state has
\* its type.
THEOREM LookupsAreTyped == Spec => []TypeOK
<1>1. LookupInv => TypeOK
  BY DEF LookupInv
<1> QED BY <1>1, LookupInvariant, PTL

\* A lookup has its row until it has its outcome or is erased, and not longer.
THEOREM LookupHasRowUntilOutcome == Spec => []RowUntilOutcome
<1>1. LookupInv => RowUntilOutcome
  BY DEF LookupInv
<1> QED BY <1>1, LookupInvariant, PTL

\* The retry intervals are kept although passes work on rows read earlier.
THEOREM AppleIsNeverAskedEarly == Spec => []NeverAskedEarly
<1>1. LookupInv => NeverAskedEarly
  BY DEF LookupInv
<1> QED BY <1>1, LookupInvariant, PTL
=============================================================================
