------------------------ MODULE FraudPipelineProofs ------------------------
(***************************************************************************)
(* For any records, bundles and policies, any number of batches and        *)
(* activations, and any number of failed transactions and deaths of the    *)
(* worker, with and without a bundle: a quarantine is resolved once, an     *)
(* exclusion has its decision if its click was judged, the audit follows    *)
(* the facts, and no decision comes from a revision that was superseded before its    *)
(* record arrived.                                                         *)
(***************************************************************************)
EXTENDS FraudPipeline, FiniteSetTheorems, WellFoundedInduction, TLAPS

-----------------------------------------------------------------------------
(* The inductive invariant.                                                *)

Draining == {"bind", "records", "attributions", "fraud", "mark"}
Rows == [at : Nat, body : Bodies]
Revisions == {Registered} \cup [bundle : Bundles, policy : Policies, sup : Nat, at : Nat]
Fields == {"id", "of", "reason", "finality", "ref", "sup"}

\* The inbox and the chain of revisions; what is read of the rest.
LedgerOK ==
    /\ clock \in Nat
    /\ inbox \in Seq(Rows) /\ state \in Seq({"pending", "processed", "failed"})
    /\ Len(state) = Len(inbox)
    /\ revisions \in Seq(Revisions)
    /\ hist \subseteq DOMAIN inbox /\ pend \subseteq DOMAIN inbox
    /\ \A b \in DOMAIN inbox : inbox[b].at <= clock
    /\ \A s \in DOMAIN revisions : revisions[s].sup \in Nat /\ revisions[s].sup < s

\* Revision r was not superseded before batch b arrived.
MayJudge(r, b) ==
    /\ r \in DOMAIN revisions
    /\ \A s \in DOMAIN revisions : revisions[s].sup = r => revisions[s].at >= inbox[b].at

\* The revision of a drain, of the decisions it has computed and of those stored.
JudgedInTime ==
    /\ phase \in {"records", "attributions", "fraud"} /\ rev # NoRevision =>
         \A b \in pend : MayJudge(rev, b)
    /\ \A d \in todo :
         phase = "fraud" /\ d.rec \in pend /\ d.id[1] = d.rec /\ MayJudge(d.revision, d.rec)
    /\ \A d \in decisions :
         d.rec \in DOMAIN inbox /\ d.id[1] = d.rec /\ MayJudge(d.revision, d.rec)

\* What the drain holds: pending batches until it marks them, and every pending batch
\* some earlier drain has decided about.
DrainOK ==
    /\ phase \in {"bind", "records", "attributions", "fraud"} =>
         \A b \in pend : state[b] = "pending"
    /\ phase \in Draining => \E b \in pend : state[b] = "pending"
    /\ phase \in {"aggregate", "resolve"} => \A b \in pend : state[b] # "pending"
    /\ phase \in Draining \cup {"aggregate", "resolve"} =>
         \A d \in decisions : state[d.rec] = "pending" => d.rec \in pend

\* Rows of fraud_quarantines and the decisions that supersede one.
QuarantinesOK ==
    /\ \A q \in quarantines : \E d \in decisions : d.id = q.id
    /\ \A q1, q2 \in quarantines : q1.id = q2.id => q1 = q2
    /\ \A s1, s2 \in resolutions : s1.of = s2.of => s1 = s2
    /\ \A s \in resolutions :
         /\ s.of[1] \in DOMAIN inbox /\ state[s.of[1]] # "pending"
         /\ \A q \in quarantines : q.id # s.of
    /\ \A d \in decisions : d.action = "quarantine" =>
         (\E q \in quarantines : q.id = d.id) \/ (\E s \in resolutions : s.of = d.id)

\* The decision a click with a transport signal gets, whatever the policy.
Signalled(c) == Body(c).kind = "click" /\ Body(c).signal # "none"
SignalId(c) ==
    <<c, IF Body(c).signal = "replay" THEN "transport-replay-v1" ELSE "transport-bot-prefetch-v1">>

\* Exclusions name the decision of a signalled click.
ExclusionsNamed ==
    \A a \in attributions :
        /\ DOMAIN a = Fields
        /\ a.reason = "fraud_excluded" =>
             a.ref[1] \in DOMAIN inbox /\ Signalled(a.ref[1]) /\ a.ref = SignalId(a.ref[1])

\* Signalled clicks have their decision when they are marked by a drain with a bundle.
SignalsOK ==
    /\ phase = "fraud" /\ rev # NoRevision =>
         \A b \in pend : Signalled(b) => \E d \in decisions \cup todo : d.id = SignalId(b)
    /\ phase = "mark" /\ rev # NoRevision =>
         \A b \in pend : Signalled(b) => \E d \in decisions : d.id = SignalId(b)
    /\ \A b \in DOMAIN inbox : (state[b] = "processed" /\ Signalled(b) /\ b \notin unjudged) =>
         \E d \in decisions : d.id = SignalId(b)
    /\ ExclusionsNamed

FraudInv == LedgerOK /\ JudgedInTime /\ DrainOK /\ QuarantinesOK /\ SignalsOK

\* What an aggregate counts.
Clicks(day, source) == Cardinality(DayClicks(day, source))
Installs(day, source) == Cardinality({j[2] : j \in Joined(day, source)})
SameSource(a, b) == a.row.day = b.row.day /\ a.row.source = b.row.source
AtMost(x, y) == x \in Nat /\ y \in Nat /\ x <= y

\* A tick aggregates once and later than the ticks before it.
TicksOK ==
    /\ ended \in Int /\ ended <= clock
    /\ \A a \in aggregates :
         /\ a.at \in Nat /\ a.at <= clock
         /\ phase = "idle" => a.at <= ended
         /\ phase \notin {"idle", "resolve"} => a.at < clock

\* The aggregates of a source and day grow with the facts.
CountsOK ==
    /\ facts \subseteq DOMAIN inbox
    /\ \A a \in aggregates :
         /\ AtMost(a.row.clicks, Clicks(a.row.day, a.row.source))
         /\ AtMost(a.row.installs, Installs(a.row.day, a.row.source))
    /\ \A a, b \in aggregates : SameSource(a, b) /\ a.at <= b.at =>
         AtMost(a.row.clicks, b.row.clicks) /\ AtMost(a.row.installs, b.row.installs)

-----------------------------------------------------------------------------
(* The operators of the model.                                             *)

\* A row appended to a sequence leaves the others alone.
LEMMA AppendFacts ==
  ASSUME NEW S, NEW s \in Seq(S), NEW e \in S
  PROVE  /\ Append(s, e) \in Seq(S) /\ Len(Append(s, e)) = Len(s) + 1
         /\ Append(s, e) # <<>>
         /\ DOMAIN Append(s, e) = DOMAIN s \cup {Len(s) + 1}
         /\ Len(s) + 1 \notin DOMAIN s
         /\ \A k \in DOMAIN s : Append(s, e)[k] = s[k]
         /\ Append(s, e)[Len(s) + 1] = e
  OBVIOUS

\* The batch a loop takes next is one of those left.
LEMMA FirstIsLeft ==
  ASSUME NEW B, B \subseteq Nat, B # {}
  PROVE  First(B) \in B
<1> DEFINE Less == {ss \in Nat \X Nat : ss[1] < ss[2]}
<1>1. IsWellFoundedOn(Less, Nat)
  BY NatLessThanWellFounded, Zenon DEF OpToRel
<1>2. PICK b \in B : \A c \in B : <<c, b>> \notin Less
  BY <1>1, WFMin
<1>3. \A c \in B : b <= c
  <2> SUFFICES ASSUME NEW c \in B, ~(b <= c) PROVE FALSE
    OBVIOUS
  <2>1. c \in Nat /\ b \in Nat /\ c < b
    OBVIOUS
  <2>2. <<c, b>> \in Nat \X Nat /\ <<c, b>>[1] = c /\ <<c, b>>[2] = b
    BY <2>1
  <2>3. <<c, b>> \in Less
    BY <2>1, <2>2
  <2> QED BY <1>2, <2>3
<1> QED BY <1>3 DEF First

\* The bundle that resolves at a moment is superseded by none.
LEMMA ActiveIsCurrent ==
  ASSUME Active # NoRevision
  PROVE  Active \in Current
  BY DEF Active

\* A decision of a drain is about one of its records, under the revision it bound.
LEMMA SelectedFacts ==
  ASSUME NEW d \in SelectedDecisions
  PROVE  d.rec \in pend /\ d.id[1] = d.rec /\ d.revision = rev /\ rev # NoRevision
<1>1. d.rec \in pend /\ d \in Decisions(hist \cup pend, rev)
  BY DEF SelectedDecisions
<1>2. rev # NoRevision /\ \E b, hit : d = Decided(b, hit, rev)
  BY <1>1 DEF Decisions
<1> QED BY <1>1, <1>2 DEF Decided

\* A signalled click of a drain gets the decision its signal names.
LEMMA SignalSelected ==
  ASSUME NEW b \in pend, Signalled(b), rev # NoRevision
  PROVE  \E d \in SelectedDecisions : d.id = SignalId(b)
<1> DEFINE p == revisions[rev].policy
           rule == IF Body(b).signal = "replay" THEN "transport-replay-v1"
                   ELSE "transport-bot-prefetch-v1"
           hit == Hit(rule, "suspected", p.action[rule])
           d == Decided(b, hit, rev)
<1>1. hit \in TransportRules(b, p)
  BY DEF TransportRules, Signalled
<1>2. b \in Of("click", hist \cup pend)
  BY DEF Of, Signalled
<1>3. d \in Decisions(hist \cup pend, rev)
  BY <1>1, <1>2 DEF Decisions
<1>4. d.rec = b /\ d.id = SignalId(b)
  BY DEF Decided, Hit, SignalId
<1> QED BY <1>3, <1>4 DEF SelectedDecisions

\* A decision about a click is the one its signal names.
LEMMA ClickDecision ==
  ASSUME NEW D, NEW d \in Decisions(D, rev), Body(d.rec).kind = "click"
  PROVE  d.rec \in D /\ Signalled(d.rec) /\ d.id = SignalId(d.rec)
<1>1. \/ \E c \in Of("click", D) : \E hit \in TransportRules(c, revisions[rev].policy) :
           d = Decided(c, hit, rev)
      \/ \E i \in Of("install", D) : \E hit : d = Decided(i, hit, rev)
  BY DEF Decisions
<1>2. ASSUME NEW i \in Of("install", D), NEW hit, d = Decided(i, hit, rev)
      PROVE  FALSE
  BY <1>2 DEF Decided, Of
<1>3. PICK c \in Of("click", D) : \E hit \in TransportRules(c, revisions[rev].policy) :
        d = Decided(c, hit, rev)
  BY <1>1, <1>2
<1>4. PICK hit \in TransportRules(c, revisions[rev].policy) : d = Decided(c, hit, rev)
  BY <1>3
<1>5. d.rec = c /\ d.id = <<c, hit.rule>>
  BY <1>4 DEF Decided
<1>6. Signalled(c) /\ hit.rule = SignalId(c)[2]
  BY <1>4 DEF TransportRules, Of, Signalled, SignalId, Hit
<1>7. <<c, hit.rule>> = SignalId(c)
  BY <1>6 DEF SignalId
<1> QED BY <1>5, <1>6, <1>7 DEF Of

\* The attributions of an evaluation: one that says fraud_excluded names the decision of
\* a signalled click the evaluation has seen.
LEMMA ExclusionFacts ==
  ASSUME NEW a \in SelectedAttributions
  PROVE  /\ DOMAIN a = Fields
         /\ a.reason = "fraud_excluded" =>
              /\ a.ref[1] \in hist \cup pend
              /\ Signalled(a.ref[1]) /\ a.ref = SignalId(a.ref[1])
<1> DEFINE D == hist \cup pend
<1>1. PICK i \in Of("install", D) : a = Initial(i, D) \/ a \in Excluded(i, D, rev)
  BY DEF SelectedAttributions
<1>2. DOMAIN Initial(i, D) = Fields /\ Initial(i, D).reason = Reason(i, D)
  BY DEF Initial, Fields
<1>3. CASE a = Initial(i, D)
  BY <1>2, <1>3 DEF Reason
<1>4. CASE a \in Excluded(i, D, rev)
  <2>1. PICK d \in Excluding(i, D, rev) :
          a = [Initial(i, D) EXCEPT !.id = <<i, "fraud">>, !.reason = "fraud_excluded",
                                    !.ref = d.id, !.sup = <<i, "initial">>]
    BY <1>4 DEF Excluded
  <2>2. DOMAIN a = Fields /\ a.ref = d.id
    BY <1>2, <2>1 DEF Fields, Initial
  <2>3. d \in Decisions(D, rev) /\ d.rec \in D /\ Body(d.rec).kind = "click"
    BY DEF Excluding, ClicksOf, Of
  <2>4. Signalled(d.rec) /\ d.id = SignalId(d.rec)
    BY <2>3, ClickDecision
  <2>5. d.id[1] = d.rec
    BY <2>4 DEF SignalId
  <2> QED BY <2>2, <2>3, <2>4, <2>5
<1> QED BY <1>1, <1>3, <1>4

-----------------------------------------------------------------------------
(* One lemma per conjunct of the invariant.                                *)

\* A new state of one batch keeps the states a sequence.
LEMMA StateUpdate ==
  ASSUME LedgerOK, NEW b, NEW to \in {"processed", "failed"}, state' = [state EXCEPT ![b] = to]
  PROVE  /\ state' \in Seq({"pending", "processed", "failed"}) /\ Len(state') = Len(state)
         /\ \A c \in DOMAIN inbox : state'[c] = IF c = b THEN to ELSE state[c]
<1>1. state \in Seq({"pending", "processed", "failed"}) /\ DOMAIN state = 1 .. Len(state)
      /\ DOMAIN inbox = 1 .. Len(inbox) /\ Len(state) = Len(inbox) /\ Len(state) \in Nat
  BY DEF LedgerOK
<1>2. state \in [1 .. Len(state) -> {"pending", "processed", "failed"}]
  BY <1>1
<1>3. DOMAIN state' = 1 .. Len(state)
      /\ \A c \in 1 .. Len(state) : state'[c] = IF c = b THEN to ELSE state[c]
  BY <1>1
<1>4. state' \in [1 .. Len(state) -> {"pending", "processed", "failed"}]
  BY <1>2
<1> QED BY <1>1, <1>3, <1>4

\* A batch has a time of arrival.
LEMMA ArrivalIsNat ==
  ASSUME LedgerOK, NEW b \in DOMAIN inbox
  PROVE  inbox[b].at \in Nat
<1>1. inbox[b] \in Rows
  BY DEF LedgerOK
<1> QED BY <1>1 DEF Rows

\* Batches and revisions are never rewritten, a batch is pending only until it is marked,
\* and a revision that may judge a record may judge it ever after: what supersedes it
\* later is activated after the record arrived.
LEMMA LedgerGrows ==
  ASSUME LedgerOK, [Next]_vars
  PROVE  /\ LedgerOK'
         /\ DOMAIN inbox \subseteq DOMAIN inbox'
         /\ \A b \in DOMAIN inbox :
              inbox'[b] = inbox[b] /\ (state'[b] = "pending" => state[b] = "pending")
         /\ \A b \in DOMAIN inbox' \ DOMAIN inbox : state'[b] = "pending"
         /\ \A r : \A b \in DOMAIN inbox : MayJudge(r, b) => MayJudge(r, b)'
<1>1. CASE clock' = clock /\ inbox' = inbox /\ state' = state /\ revisions' = revisions
           /\ hist' \subseteq hist /\ pend' \subseteq pend
  BY <1>1 DEF LedgerOK, MayJudge
<1>2. CASE Pass
  <2>1. clock' = clock + 1 /\ inbox' = inbox /\ state' = state /\ revisions' = revisions
        /\ hist' = hist /\ pend' = pend
    BY <1>2 DEF Pass, drainVars
  <2>2. \A b \in DOMAIN inbox : inbox[b].at \in Nat
    BY ArrivalIsNat
  <2> QED BY <2>1, <2>2 DEF LedgerOK, MayJudge
<1>3. ASSUME NEW body \in Bodies, Receive(body)
      PROVE  /\ LedgerOK'
             /\ DOMAIN inbox \subseteq DOMAIN inbox'
             /\ \A b \in DOMAIN inbox :
                  inbox'[b] = inbox[b] /\ (state'[b] = "pending" => state[b] = "pending")
             /\ \A b \in DOMAIN inbox' \ DOMAIN inbox : state'[b] = "pending"
             /\ revisions' = revisions
  <2> DEFINE row == [at |-> clock, body |-> body]
             n == Len(inbox) + 1
  <2>1. inbox' = Append(inbox, row) /\ state' = Append(state, "pending")
        /\ clock' = clock /\ revisions' = revisions /\ hist' = hist /\ pend' = pend
    BY <1>3 DEF Receive, drainVars
  <2>2. row \in Rows /\ inbox \in Seq(Rows) /\ clock \in Nat
    BY DEF LedgerOK, Rows
  <2>3. inbox' \in Seq(Rows) /\ Len(inbox') = n /\ DOMAIN inbox' = DOMAIN inbox \cup {n}
        /\ n \notin DOMAIN inbox /\ inbox'[n] = row /\ \A b \in DOMAIN inbox : inbox'[b] = inbox[b]
    BY <2>1, <2>2, AppendFacts
  <2>4. state \in Seq({"pending", "processed", "failed"}) /\ Len(state) = Len(inbox)
        /\ DOMAIN state = DOMAIN inbox
    BY DEF LedgerOK
  <2>5. state' \in Seq({"pending", "processed", "failed"}) /\ Len(state') = n
        /\ state'[n] = "pending" /\ \A b \in DOMAIN inbox : state'[b] = state[b]
    BY <2>1, <2>4, AppendFacts
  <2>6. \A b \in DOMAIN inbox' : inbox'[b].at <= clock'
    BY <2>1, <2>2, <2>3 DEF LedgerOK
  <2>7. LedgerOK'
    BY <2>1, <2>2, <2>3, <2>5, <2>6 DEF LedgerOK
  <2> QED BY <2>1, <2>3, <2>5, <2>7
<1>4. ASSUME NEW bundle \in Bundles, NEW p \in Policies, NEW sup \in 0 .. Len(revisions),
             Activate(bundle, p, sup)
      PROVE  /\ LedgerOK'
             /\ inbox' = inbox /\ state' = state
             /\ \A r : \A b \in DOMAIN inbox : MayJudge(r, b) => MayJudge(r, b)'
  <2> DEFINE row == [bundle |-> bundle, policy |-> p, sup |-> sup, at |-> clock]
             n == Len(revisions) + 1
  <2>1. revisions' = Append(revisions, row)
        /\ clock' = clock /\ inbox' = inbox /\ state' = state
        /\ hist' = hist /\ pend' = pend
    BY <1>4 DEF Activate, drainVars
  <2>2. row \in Revisions /\ revisions \in Seq(Revisions) /\ sup \in Nat /\ sup < n
    BY DEF LedgerOK, Revisions
  <2>3. revisions' \in Seq(Revisions)
        /\ DOMAIN revisions' = DOMAIN revisions \cup {n} /\ revisions'[n] = row
        /\ \A s \in DOMAIN revisions : revisions'[s] = revisions[s]
    BY <2>1, <2>2, AppendFacts
  <2>4. \A s \in DOMAIN revisions' : revisions'[s].sup \in Nat /\ revisions'[s].sup < s
    BY <2>2, <2>3 DEF LedgerOK
  <2>5. LedgerOK'
    BY <2>1, <2>3, <2>4 DEF LedgerOK
  <2>6. ASSUME NEW r, NEW b \in DOMAIN inbox, MayJudge(r, b)
        PROVE  MayJudge(r, b)'
    <3>1. clock >= inbox[b].at
      BY ArrivalIsNat DEF LedgerOK
    <3> QED BY <2>1, <2>3, <2>6, <3>1 DEF MayJudge
  <2> QED BY <2>1, <2>5, <2>6
<1>5. CASE TickStart
  <2>1. clock' = clock /\ inbox' = inbox /\ state' = state /\ revisions' = revisions
        /\ hist' = {b \in DOMAIN state : state[b] = "processed"} /\ pend' = Pending
    BY <1>5 DEF TickStart
  <2>2. Pending \subseteq DOMAIN inbox /\ DOMAIN state = DOMAIN inbox
    BY DEF Pending, LedgerOK
  <2> QED BY <2>1, <2>2 DEF LedgerOK, MayJudge
<1>6. ASSUME NEW b, NEW to \in {"processed", "failed"}, state' = [state EXCEPT ![b] = to],
             clock' = clock, inbox' = inbox, revisions' = revisions, hist' = hist, pend' = pend
      PROVE  /\ LedgerOK'
             /\ \A c \in DOMAIN inbox : state'[c] = "pending" => state[c] = "pending"
  <2>1. /\ state' \in Seq({"pending", "processed", "failed"}) /\ Len(state') = Len(state)
        /\ \A c \in DOMAIN inbox : state'[c] = IF c = b THEN to ELSE state[c]
    BY <1>6, StateUpdate
  <2> QED BY <1>6, <2>1 DEF LedgerOK
<1>7. CASE Mark
  <2> DEFINE b == First({c \in pend : state[c] = "pending"})
  <2>1. state' = [state EXCEPT ![b] = "processed"]
        /\ clock' = clock /\ inbox' = inbox /\ revisions' = revisions
        /\ hist' = hist /\ pend' = pend
    BY <1>7 DEF Mark, drainVars
  <2> HIDE DEF b
  <2> QED BY <1>6, <2>1 DEF MayJudge
<1>8. CASE MarkFailed
  <2> DEFINE b == First({c \in pend : state[c] # "failed"})
  <2>1. clock' = clock /\ inbox' = inbox /\ revisions' = revisions
        /\ \/ state' = [state EXCEPT ![b] = "failed"] /\ hist' = hist /\ pend' = pend
           \/ state' = state /\ hist' = {} /\ pend' = {}
    BY <1>8 DEF MarkFailed, EndTick
  <2> HIDE DEF b
  <2> QED BY <1>1, <1>6, <2>1 DEF MayJudge
<1>9. CASE Bind \/ PersistRecords \/ PersistAttributions \/ (\E d \in todo : PersistFraud(d))
           \/ PersistLate \/ TransactionFails
  BY <1>1, <1>9 DEF Bind, PersistRecords, PersistAttributions, PersistFraud, PersistLate,
     TransactionFails, drainVars
<1>10. CASE Aggregate \/ Resolve \/ Crash
  BY <1>1, <1>10 DEF Aggregate, Resolve, Crash, EndTick
<1>11. CASE UNCHANGED vars
  BY <1>1, <1>11 DEF vars, drainVars
<1>12. CASE \E body \in Bodies : Receive(body)
  BY <1>3, <1>12 DEF MayJudge
<1>13. CASE \E bundle \in Bundles, p \in Policies, sup \in 0 .. Len(revisions) :
              Activate(bundle, p, sup)
  BY <1>4, <1>13
<1> QED BY <1>2, <1>5, <1>7, <1>8, <1>9, <1>10, <1>11, <1>12, <1>13
        DEF Next, Environment, Worker

\* What a decision is and which revision took it: Bind takes one that nothing
\* supersedes, and the drain's decisions carry it.
LEMMA JudgedStep ==
  ASSUME LedgerOK, JudgedInTime, [Next]_vars
  PROVE  JudgedInTime'
<1>1. /\ DOMAIN inbox \subseteq DOMAIN inbox' /\ pend \subseteq DOMAIN inbox
      /\ \A r : \A b \in DOMAIN inbox : MayJudge(r, b) => MayJudge(r, b)'
  BY LedgerGrows DEF LedgerOK
<1>2. phase # "fraud" => todo = {}
  BY DEF JudgedInTime
<1>3. \A d \in decisions :
        d.rec \in DOMAIN inbox' /\ d.id[1] = d.rec /\ MayJudge(d.revision, d.rec)'
  BY <1>1 DEF JudgedInTime
<1>4. CASE UNCHANGED <<phase, pend, rev, todo, decisions>>
  <2>1. phase \in {"records", "attributions", "fraud"} /\ rev # NoRevision =>
          \A b \in pend : MayJudge(rev, b)'
    BY <1>1, <1>4 DEF JudgedInTime
  <2>2. \A d \in todo :
          phase = "fraud" /\ d.rec \in pend /\ d.id[1] = d.rec /\ MayJudge(d.revision, d.rec)'
    BY <1>1 DEF JudgedInTime
  <2> QED BY <1>3, <1>4, <2>1, <2>2 DEF JudgedInTime, MayJudge
<1>5. CASE decisions' = decisions /\ todo' = {} /\ phase' \notin {"records", "attributions", "fraud"}
  BY <1>3, <1>5 DEF JudgedInTime
<1>6. CASE Bind
  <2>1. decisions' = decisions /\ todo' = todo /\ todo = {} /\ pend' = pend
        /\ inbox' = inbox /\ revisions' = revisions
    BY <1>2, <1>6 DEF Bind, recordVars
  <2>2. CASE Ambiguous
    BY <1>5, <1>6, <2>1, <2>2 DEF Bind
  <2>3. CASE ~Ambiguous
    <3>1. rev' \in {Active, NoRevision} /\ phase' = "records"
      BY <1>6, <2>3 DEF Bind
    <3>2. rev' # NoRevision =>
            rev' \in DOMAIN revisions /\ \A s \in DOMAIN revisions : revisions[s].sup # rev'
      BY <3>1, ActiveIsCurrent DEF Current
    <3> QED BY <1>3, <2>1, <3>1, <3>2 DEF JudgedInTime, MayJudge
  <2> QED BY <2>2, <2>3
<1>7. CASE PersistRecords
  <2>1. decisions' = decisions /\ todo' = {} /\ pend' = pend /\ rev' = rev /\ phase = "records"
    BY <1>2, <1>7 DEF PersistRecords, drainVars
  <2>2. rev # NoRevision => \A b \in pend : MayJudge(rev, b)'
    BY <1>1, <2>1 DEF JudgedInTime
  <2> QED BY <1>3, <2>1, <2>2 DEF JudgedInTime, MayJudge
<1>8. CASE PersistAttributions
  <2>1. decisions' = decisions /\ todo' = SelectedDecisions /\ pend' = pend /\ rev' = rev
        /\ phase = "attributions" /\ phase' = "fraud"
    BY <1>8 DEF PersistAttributions
  <2>2. rev # NoRevision => \A b \in pend : MayJudge(rev, b)'
    BY <1>1, <2>1 DEF JudgedInTime
  <2>3. \A d \in todo' : d.rec \in pend /\ d.id[1] = d.rec /\ d.revision = rev /\ rev # NoRevision
    BY <2>1, SelectedFacts
  <2> QED BY <1>3, <2>1, <2>2, <2>3 DEF JudgedInTime, MayJudge
<1>9. ASSUME NEW d \in todo, PersistFraud(d)
      PROVE  JudgedInTime'
  <2>1. decisions' \subseteq decisions \cup {d} /\ todo' \subseteq todo /\ pend' = pend
        /\ rev' = rev /\ phase' = phase /\ phase = "fraud"
    BY <1>9 DEF PersistFraud, Unstored
  <2>2. rev # NoRevision => \A b \in pend : MayJudge(rev, b)'
    BY <1>1, <2>1 DEF JudgedInTime
  <2>3. \A e \in todo : e.rec \in pend /\ e.id[1] = e.rec /\ MayJudge(e.revision, e.rec)'
    BY <1>1 DEF JudgedInTime
  <2>4. d.rec \in DOMAIN inbox'
    BY <1>1, <2>3
  <2> QED BY <1>3, <2>1, <2>2, <2>3, <2>4 DEF JudgedInTime, MayJudge
<1>10. CASE TickStart \/ PersistLate \/ Mark \/ MarkFailed
  BY <1>2, <1>5, <1>10 DEF TickStart, PersistLate, Mark, MarkFailed, EndTick, drainVars, recordVars
<1>11. CASE Aggregate \/ Resolve \/ Crash \/ TransactionFails
  BY <1>2, <1>5, <1>11 DEF Aggregate, Resolve, Crash, TransactionFails, EndTick, recordVars
<1>12. CASE Environment \/ UNCHANGED vars
  BY <1>4, <1>12 DEF Environment, Pass, Receive, Activate, vars, drainVars, recordVars
<1> QED BY <1>6, <1>7, <1>8, <1>9, <1>10, <1>11, <1>12 DEF Next, Worker

\* The steps of a drain keep hold of the pending batches with decisions.
LEMMA DrainStep ==
  ASSUME LedgerOK, JudgedInTime, DrainOK, [Next]_vars
  PROVE  DrainOK'
<1>1. /\ DOMAIN inbox \subseteq DOMAIN inbox' /\ pend \subseteq DOMAIN inbox
      /\ \A b \in DOMAIN inbox : state'[b] = "pending" => state[b] = "pending"
      /\ DOMAIN state = DOMAIN inbox
  BY LedgerGrows DEF LedgerOK
<1>2. \A d \in decisions : d.rec \in DOMAIN inbox
  BY DEF JudgedInTime
<1>3. CASE phase' \in {"idle", "fail"}
  BY <1>3 DEF DrainOK, Draining
<1>4. CASE UNCHANGED <<phase, pend, state, decisions>>
  BY <1>4 DEF DrainOK
<1>5. ASSUME NEW body \in Bodies, Receive(body)
      PROVE  DrainOK'
  <2>1. phase' = phase /\ pend' = pend /\ decisions' = decisions /\ state' = Append(state, "pending")
    BY <1>5 DEF Receive, drainVars, recordVars
  <2>2. \A b \in DOMAIN inbox : state'[b] = state[b]
    BY <1>1, <2>1, AppendFacts DEF LedgerOK
  <2> QED BY <1>1, <1>2, <2>1, <2>2 DEF DrainOK
<1>6. CASE TickStart
  <2>1. pend' = Pending /\ state' = state /\ decisions' = decisions
        /\ phase' = IF Pending = {} THEN "aggregate" ELSE "bind"
    BY <1>6 DEF TickStart, recordVars
  <2> QED BY <1>1, <1>2, <2>1 DEF DrainOK, Draining, Pending
<1>7. CASE Bind \/ PersistRecords \/ PersistAttributions \/ PersistLate
  <2>1. pend' = pend /\ state' = state /\ decisions' = decisions
        /\ phase \in {"bind", "records", "attributions", "fraud"}
        /\ phase' \in {"fail", "records", "attributions", "fraud", "mark"}
    BY <1>7 DEF Bind, PersistRecords, PersistAttributions, PersistLate, drainVars, recordVars
  <2> QED BY <2>1 DEF DrainOK, Draining
<1>8. ASSUME NEW d \in todo, PersistFraud(d)
      PROVE  DrainOK'
  <2>1. pend' = pend /\ state' = state /\ phase' = phase /\ decisions' \subseteq decisions \cup {d}
    BY <1>8 DEF PersistFraud, Unstored
  <2>2. d.rec \in pend
    BY DEF JudgedInTime
  <2> QED BY <2>1, <2>2 DEF DrainOK
<1>9. CASE Mark
  <2> DEFINE left == {b \in pend : state[b] = "pending"}
             f == First(left)
  <2>1. phase = "mark" /\ state' = [state EXCEPT ![f] = "processed"]
        /\ pend' = pend /\ decisions' = decisions
        /\ phase' = IF left = {f} THEN "aggregate" ELSE "mark"
    BY <1>9 DEF Mark, drainVars, recordVars
  <2>2. left # {} /\ left \subseteq Nat
    BY <1>1, <2>1 DEF DrainOK, Draining, LedgerOK
  <2>3. f \in left
    BY <2>2, FirstIsLeft
  <2>4. \A c \in DOMAIN inbox : state'[c] = IF c = f THEN "processed" ELSE state[c]
    BY <2>1, StateUpdate
  <2> HIDE DEF f
  <2>5. \A d \in decisions : state'[d.rec] = "pending" => d.rec \in pend
    BY <1>1, <1>2, <2>1 DEF DrainOK, Draining
  <2>6. CASE left = {f}
    BY <1>1, <2>1, <2>4, <2>5, <2>6 DEF DrainOK, Draining
  <2>7. CASE left # {f}
    <3>1. PICK b \in left : b # f
      BY <2>3, <2>7
    <3>2. b \in pend /\ state'[b] = "pending"
      BY <1>1, <2>4, <3>1
    <3> QED BY <2>1, <2>5, <2>7, <3>2 DEF DrainOK, Draining
  <2> QED BY <2>6, <2>7
<1>10. CASE MarkFailed \/ Resolve \/ Crash \/ TransactionFails
  BY <1>3, <1>10 DEF MarkFailed, Resolve, Crash, TransactionFails, EndTick
<1>11. CASE Aggregate
  <2>1. phase = "aggregate" /\ state' = state /\ decisions' = decisions
        /\ (phase' = "idle" \/ (phase' = "resolve" /\ pend' = pend))
    BY <1>11 DEF Aggregate, EndTick
  <2> QED BY <1>3, <2>1 DEF DrainOK, Draining
<1>12. CASE Pass \/ (\E bundle \in Bundles, p \in Policies, sup \in 0 .. Len(revisions) :
                        Activate(bundle, p, sup)) \/ UNCHANGED vars
  BY <1>4, <1>12 DEF Pass, Activate, vars, drainVars, recordVars
<1> QED BY <1>5, <1>6, <1>7, <1>8, <1>9, <1>10, <1>11, <1>12 DEF Next, Environment, Worker

\* A quarantine comes with a decision about a pending record, and is resolved in a tick
\* whose drain has left no such record pending.
LEMMA QuarantineStep ==
  ASSUME LedgerOK, JudgedInTime, DrainOK, QuarantinesOK, [Next]_vars
  PROVE  QuarantinesOK'
<1>1. /\ DOMAIN inbox \subseteq DOMAIN inbox' /\ pend \subseteq DOMAIN inbox
      /\ \A b \in DOMAIN inbox : state'[b] = "pending" => state[b] = "pending"
  BY LedgerGrows DEF LedgerOK
<1>2. \A s \in resolutions : s.of[1] \in DOMAIN inbox' /\ state'[s.of[1]] # "pending"
  BY <1>1 DEF QuarantinesOK
<1>3. CASE UNCHANGED <<decisions, quarantines, resolutions>>
  BY <1>2, <1>3 DEF QuarantinesOK
<1>4. ASSUME NEW d \in todo, PersistFraud(d)
      PROVE  QuarantinesOK'
  <2> DEFINE q == [id |-> d.id, due |-> d.deadline]
  <2>1. resolutions' = resolutions /\ decisions' = decisions \cup Unstored({d}, decisions)
        /\ quarantines' = IF d.action = "quarantine"
                          THEN quarantines \cup Unstored({q}, quarantines) ELSE quarantines
    BY <1>4 DEF PersistFraud
  <2>2. d.id[1] = d.rec /\ d.rec \in pend /\ state[d.rec] = "pending"
    BY <1>1 DEF JudgedInTime, DrainOK
  <2>3. \A s \in resolutions : s.of # d.id
    BY <2>2 DEF QuarantinesOK
  <2>4. \E e \in decisions' : e.id = d.id
    BY <2>1 DEF Unstored
  <2>5. decisions \subseteq decisions' /\ decisions' \subseteq decisions \cup {d}
        /\ quarantines \subseteq quarantines' /\ quarantines' \subseteq quarantines \cup {q}
    BY <2>1 DEF Unstored
  <2>6. q.id = d.id
    OBVIOUS
  <2>7. \A q1, q2 \in quarantines' : q1.id = q2.id => q1 = q2
    BY <2>1 DEF QuarantinesOK, Unstored
  <2>8. d.action = "quarantine" => \E q1 \in quarantines' : q1.id = d.id
    BY <2>1, <2>6 DEF Unstored
  <2> HIDE DEF q
  <2>9. \A q1 \in quarantines' : \E e \in decisions' : e.id = q1.id
    BY <2>4, <2>5, <2>6 DEF QuarantinesOK
  <2>10. \A s \in resolutions' : \A q1 \in quarantines' : q1.id # s.of
    BY <2>1, <2>3, <2>5, <2>6 DEF QuarantinesOK
  <2>11. \A e \in decisions' : e.action = "quarantine" =>
           (\E q1 \in quarantines' : q1.id = e.id) \/ (\E s \in resolutions' : s.of = e.id)
    BY <2>1, <2>5, <2>8 DEF QuarantinesOK
  <2> QED BY <1>2, <2>1, <2>7, <2>9, <2>10, <2>11 DEF QuarantinesOK
<1>5. CASE Resolve
  <2> DEFINE due == {q \in quarantines : q.due <= clock}
             done == {[of |-> q.id, at |-> clock] : q \in due}
  <2>1. phase = "resolve" /\ decisions' = decisions /\ quarantines' = quarantines \ due
        /\ resolutions' = resolutions \cup done /\ state' = state /\ inbox' = inbox
    BY <1>5 DEF Resolve, recordVars
  <2>2. \A s \in done : \E q \in due : s.of = q.id /\ s.at = clock
    OBVIOUS
  <2>3. ASSUME NEW q \in due
        PROVE  \E s \in done : s.of = q.id
    <3>1. [of |-> q.id, at |-> clock] \in done /\ [of |-> q.id, at |-> clock].of = q.id
      OBVIOUS
    <3> QED BY <3>1
  <2>4. \A s1, s2 \in done : s1.of = s2.of => s1 = s2
    OBVIOUS
  <2>5. due \subseteq quarantines
    OBVIOUS
  <2> HIDE DEF due, done
  <2>6. \A q \in due : q.id[1] \in DOMAIN inbox /\ state[q.id[1]] # "pending"
    <3> SUFFICES ASSUME NEW q \in due
                 PROVE  q.id[1] \in DOMAIN inbox /\ state[q.id[1]] # "pending"
      OBVIOUS
    <3>1. PICK d \in decisions : d.id = q.id
      BY <2>5 DEF QuarantinesOK
    <3>2. d.rec = q.id[1] /\ d.rec \in DOMAIN inbox
      BY <3>1 DEF JudgedInTime
    <3> QED BY <2>1, <3>1, <3>2 DEF DrainOK
  <2>7. \A s \in resolutions' : s.of[1] \in DOMAIN inbox' /\ state'[s.of[1]] # "pending"
    BY <2>1, <2>2, <2>6 DEF QuarantinesOK
  <2>8. \A s1, s2 \in resolutions' : s1.of = s2.of => s1 = s2
    BY <2>1, <2>2, <2>4, <2>5 DEF QuarantinesOK
  <2>9. \A s \in resolutions' : \A q \in quarantines' : q.id # s.of
    BY <2>1, <2>2, <2>5 DEF QuarantinesOK
  <2>10. \A d \in decisions : d.action = "quarantine" =>
           (\E q \in quarantines' : q.id = d.id) \/ (\E s \in resolutions' : s.of = d.id)
    BY <2>1, <2>3 DEF QuarantinesOK
  <2>11. /\ \A q \in quarantines' : \E d \in decisions' : d.id = q.id
         /\ \A q1, q2 \in quarantines' : q1.id = q2.id => q1 = q2
    BY <2>1 DEF QuarantinesOK
  <2> QED BY <2>1, <2>7, <2>8, <2>9, <2>10, <2>11 DEF QuarantinesOK
<1>6. CASE Environment \/ UNCHANGED vars
  BY <1>3, <1>6 DEF Environment, Pass, Receive, Activate, vars, recordVars
<1>7. CASE TickStart \/ Bind \/ PersistRecords \/ PersistAttributions \/ PersistLate \/ Mark
  BY <1>3, <1>7 DEF TickStart, Bind, PersistRecords, PersistAttributions, PersistLate, Mark,
     recordVars
<1>8. CASE MarkFailed \/ Aggregate \/ Crash \/ TransactionFails
  BY <1>3, <1>8 DEF MarkFailed, Aggregate, Crash, TransactionFails, recordVars
<1> QED BY <1>4, <1>5, <1>6, <1>7, <1>8 DEF Next, Worker

\* An attribution copied from a valid one is no exclusion.
LEMMA CopyFacts ==
  ASSUME NEW a, DOMAIN a = Fields, a.reason = "valid_install_referrer",
         NEW id, NEW finality, NEW sup
  PROVE  LET c == [a EXCEPT !.id = id, !.finality = finality, !.sup = sup]
         IN  DOMAIN c = Fields /\ c.reason # "fraud_excluded"
  BY DEF Fields

\* Only the rows of an evaluation say fraud_excluded.
LEMMA ExclusionStep ==
  ASSUME LedgerOK, ExclusionsNamed, [Next]_vars
  PROVE  ExclusionsNamed'
<1>1. /\ DOMAIN inbox \subseteq DOMAIN inbox'
      /\ \A b \in DOMAIN inbox : Signalled(b)' = Signalled(b) /\ SignalId(b)' = SignalId(b)
  BY LedgerGrows DEF Signalled, SignalId, Body
<1>2. \A a \in attributions :
        /\ DOMAIN a = Fields
        /\ a.reason = "fraud_excluded" =>
             a.ref[1] \in DOMAIN inbox' /\ Signalled(a.ref[1])' /\ a.ref = SignalId(a.ref[1])'
  BY <1>1 DEF ExclusionsNamed
<1>3. CASE attributions' = attributions
  BY <1>2, <1>3 DEF ExclusionsNamed
<1>4. ASSUME NEW A, attributions' \subseteq attributions \cup A,
             \A a \in A : DOMAIN a = Fields /\ a.reason # "fraud_excluded"
      PROVE  ExclusionsNamed'
  BY <1>2, <1>4 DEF ExclusionsNamed
<1>5. CASE PersistAttributions
  <2>1. attributions' \subseteq attributions \cup SelectedAttributions
    BY <1>5 DEF PersistAttributions, Unstored
  <2>2. \A a \in SelectedAttributions :
          /\ DOMAIN a = Fields
          /\ a.reason = "fraud_excluded" =>
               a.ref[1] \in DOMAIN inbox /\ Signalled(a.ref[1]) /\ a.ref = SignalId(a.ref[1])
    BY ExclusionFacts DEF LedgerOK
  <2>3. \A a \in SelectedAttributions :
          /\ DOMAIN a = Fields
          /\ a.reason = "fraud_excluded" =>
               a.ref[1] \in DOMAIN inbox' /\ Signalled(a.ref[1])' /\ a.ref = SignalId(a.ref[1])'
    BY <1>1, <2>2
  <2> QED BY <1>2, <2>1, <2>3 DEF ExclusionsNamed
<1>6. CASE PersistLate
  <2>1. attributions' \subseteq attributions \cup LateRows
    BY <1>6 DEF PersistLate, Unstored
  <2>2. ASSUME NEW a \in LateRows
        PROVE  DOMAIN a = Fields /\ a.reason # "fraud_excluded"
    <3>1. PICK x \in SelectedAttributions :
            /\ x.reason = "valid_install_referrer"
            /\ a = [x EXCEPT !.id = <<x.of, "late">>, !.finality = "superseded", !.sup = x.id]
      BY DEF LateRows
    <3>2. DOMAIN x = Fields
      BY ExclusionFacts
    <3> QED BY <3>1, <3>2, CopyFacts
  <2> QED BY <1>4, <2>1, <2>2
<1>7. CASE Aggregate
  <2>1. attributions' \subseteq attributions \cup Provisional(Yesterday)
    BY <1>7 DEF Aggregate
  <2>2. ASSUME NEW a \in Provisional(Yesterday)
        PROVE  DOMAIN a = Fields /\ a.reason # "fraud_excluded"
    <3>1. PICK x \in attributions :
            /\ x.reason = "valid_install_referrer"
            /\ a = [x EXCEPT !.id = Append(x.id, "provisional"), !.finality = "provisional",
                             !.sup = x.id]
      BY DEF Provisional
    <3> QED BY <1>2, <3>1, CopyFacts
  <2> QED BY <1>4, <2>1, <2>2
<1>8. CASE Environment \/ UNCHANGED vars
  BY <1>3, <1>8 DEF Environment, Pass, Receive, Activate, vars, recordVars
<1>9. CASE TickStart \/ Bind \/ PersistRecords \/ (\E d \in todo : PersistFraud(d)) \/ Mark
  BY <1>3, <1>9 DEF TickStart, Bind, PersistRecords, PersistFraud, Mark, recordVars
<1>10. CASE MarkFailed \/ Resolve \/ Crash \/ TransactionFails
  BY <1>3, <1>10 DEF MarkFailed, Resolve, Crash, TransactionFails, recordVars
<1> QED BY <1>5, <1>6, <1>7, <1>8, <1>9, <1>10 DEF Next, Worker

\* The decisions of the signalled clicks of a drain are stored before it marks a batch.
LEMMA SignalStep ==
  ASSUME LedgerOK, JudgedInTime, DrainOK, SignalsOK, [Next]_vars
  PROVE  SignalsOK'
<1>1. /\ DOMAIN inbox \subseteq DOMAIN inbox' /\ pend \subseteq DOMAIN inbox
      /\ \A b \in DOMAIN inbox : Signalled(b)' = Signalled(b) /\ SignalId(b)' = SignalId(b)
      /\ \A b \in DOMAIN inbox' \ DOMAIN inbox : state'[b] = "pending"
  BY LedgerGrows DEF LedgerOK, Signalled, SignalId, Body
<1>2. \A b \in DOMAIN inbox : (state[b] = "processed" /\ Signalled(b) /\ b \notin unjudged) =>
        \E d \in decisions : d.id = SignalId(b)
  BY DEF SignalsOK
<1>3. ExclusionsNamed'
  BY ExclusionStep DEF SignalsOK
<1>4. ASSUME decisions \subseteq decisions', unjudged' = unjudged,
             \A b \in DOMAIN inbox : state'[b] = "processed" => state[b] = "processed"
      PROVE  \A b \in DOMAIN inbox' :
               (state'[b] = "processed" /\ Signalled(b)' /\ b \notin unjudged') =>
               \E d \in decisions' : d.id = SignalId(b)'
  BY <1>1, <1>2, <1>4
<1>5. CASE /\ UNCHANGED <<phase, pend, rev, todo, decisions, unjudged>>
           /\ \A b \in DOMAIN inbox : state'[b] = "processed" => state[b] = "processed"
  BY <1>1, <1>3, <1>4, <1>5 DEF SignalsOK
<1>6. CASE /\ decisions' = decisions /\ unjudged' = unjudged /\ phase' \notin {"fraud", "mark"}
           /\ \A b \in DOMAIN inbox : state'[b] = "processed" => state[b] = "processed"
  BY <1>3, <1>4, <1>6 DEF SignalsOK
<1>7. CASE PersistAttributions
  <2>1. decisions' = decisions /\ state' = state /\ phase' = "fraud" /\ pend' = pend
        /\ todo' = SelectedDecisions /\ rev' = rev /\ unjudged' = unjudged
    BY <1>7 DEF PersistAttributions, workerVars
  <2>2. rev # NoRevision => \A b \in pend' : Signalled(b)' => \E d \in decisions' \cup todo' : d.id = SignalId(b)'
    BY <1>1, <2>1, SignalSelected
  <2> QED BY <1>3, <1>4, <2>1, <2>2 DEF SignalsOK
<1>8. ASSUME NEW d \in todo, PersistFraud(d)
      PROVE  SignalsOK'
  <2>1. phase = "fraud" /\ phase' = "fraud" /\ pend' = pend /\ state' = state
        /\ todo' = todo \ {d} /\ decisions' = decisions \cup Unstored({d}, decisions)
        /\ rev' = rev /\ unjudged' = unjudged
    BY <1>8 DEF PersistFraud, workerVars
  <2>2. decisions \subseteq decisions' /\ \E e \in decisions' : e.id = d.id
    BY <2>1 DEF Unstored
  <2>3. rev # NoRevision => \A b \in pend : Signalled(b) => \E e \in decisions \cup todo : e.id = SignalId(b)
    BY <2>1 DEF SignalsOK
  <2>4. rev # NoRevision => \A b \in pend' : Signalled(b)' => \E e \in decisions' \cup todo' : e.id = SignalId(b)'
    BY <1>1, <2>1, <2>2, <2>3
  <2> QED BY <1>3, <1>4, <2>1, <2>2, <2>4 DEF SignalsOK
<1>9. CASE PersistLate
  <2>1. phase = "fraud" /\ phase' = "mark" /\ todo = {} /\ pend' = pend /\ state' = state
        /\ decisions' = decisions /\ rev' = rev /\ unjudged' = unjudged
    BY <1>9 DEF PersistLate, drainVars, workerVars
  <2>2. rev # NoRevision => \A b \in pend' : Signalled(b)' => \E d \in decisions' : d.id = SignalId(b)'
    BY <1>1, <2>1 DEF SignalsOK
  <2> QED BY <1>3, <1>4, <2>1, <2>2 DEF SignalsOK
<1>10. CASE Mark
  <2> DEFINE left == {b \in pend : state[b] = "pending"}
             f == First(left)
  <2>1. phase = "mark" /\ state' = [state EXCEPT ![f] = "processed"]
        /\ pend' = pend /\ decisions' = decisions /\ phase' \in {"aggregate", "mark"} /\ rev' = rev
        /\ unjudged' = IF rev = NoRevision THEN unjudged \cup {f} ELSE unjudged
    BY <1>10 DEF Mark, drainVars, recordVars
  <2>2. left # {} /\ left \subseteq Nat
    BY <1>1, <2>1 DEF DrainOK, Draining, LedgerOK
  <2>3. f \in pend
    BY <2>2, FirstIsLeft
  <2>4. \A c \in DOMAIN inbox : state'[c] = IF c = f THEN "processed" ELSE state[c]
    BY <2>1, StateUpdate
  <2> HIDE DEF f
  <2>5. rev # NoRevision =>
          \A b \in pend : Signalled(b) => \E d \in decisions : d.id = SignalId(b)
    BY <2>1 DEF SignalsOK
  <2>6. \A b \in DOMAIN inbox' :
          (state'[b] = "processed" /\ Signalled(b)' /\ b \notin unjudged') =>
          \E d \in decisions' : d.id = SignalId(b)'
    BY <1>1, <1>2, <2>1, <2>3, <2>4, <2>5
  <2>7. rev # NoRevision =>
          \A b \in pend' : Signalled(b)' => \E d \in decisions' : d.id = SignalId(b)'
    BY <1>1, <2>1, <2>5
  <2> QED BY <1>3, <2>1, <2>6, <2>7 DEF SignalsOK
<1>11. CASE MarkFailed
  <2> DEFINE f == First({b \in pend : state[b] # "failed"})
  <2>1. phase = "fail" /\ decisions' = decisions /\ unjudged' = unjudged
        /\ \/ state' = state /\ phase' = "idle"
           \/ state' = [state EXCEPT ![f] = "failed"] /\ phase' = phase
    BY <1>11 DEF MarkFailed, EndTick, recordVars, workerVars
  <2> HIDE DEF f
  <2>2. \A b \in DOMAIN inbox : state'[b] = "processed" => state[b] = "processed"
    BY <2>1, StateUpdate
  <2> QED BY <1>6, <2>1, <2>2
<1>12. ASSUME NEW body \in Bodies, Receive(body)
       PROVE  SignalsOK'
  <2>1. UNCHANGED <<phase, pend, rev, todo, decisions, unjudged>>
        /\ state' = Append(state, "pending")
    BY <1>12 DEF Receive, drainVars, recordVars, workerVars
  <2>2. \A b \in DOMAIN inbox : state'[b] = state[b]
    BY <2>1, AppendFacts DEF LedgerOK
  <2> QED BY <1>5, <2>1, <2>2
<1>13. CASE Pass \/ (\E bundle \in Bundles, p \in Policies, sup \in 0 .. Len(revisions) :
                        Activate(bundle, p, sup)) \/ UNCHANGED vars
  BY <1>5, <1>13 DEF Pass, Activate, vars, drainVars, recordVars, workerVars
<1>14. CASE TickStart \/ Bind \/ PersistRecords \/ Resolve \/ Crash \/ TransactionFails
  BY <1>6, <1>14 DEF TickStart, Bind, PersistRecords, Resolve, Crash, TransactionFails, EndTick,
     recordVars, workerVars
<1>15. CASE Aggregate
  BY <1>6, <1>15 DEF Aggregate, EndTick, workerVars
<1> QED BY <1>7, <1>8, <1>9, <1>10, <1>11, <1>12, <1>13, <1>14, <1>15
        DEF Next, Environment, Worker

-----------------------------------------------------------------------------
(* The aggregates.                                                         *)

\* The row of a source and day counts the facts.
LEMMA RowFacts ==
  ASSUME NEW day, NEW row \in SourceRows(day)
  PROVE  /\ row.day = day
         /\ row.clicks = Clicks(row.day, row.source)
         /\ row.installs = Installs(row.day, row.source)
<1>1. PICK source \in Sources : row = SourceRow(day, source)
  BY DEF SourceRows
<1> DEFINE J == Joined(day, source)
<1>2. row.day = day /\ row.source = source
      /\ row.clicks = Cardinality(DayClicks(day, source))
      /\ row.installs = Cardinality({j[2] : j \in J})
  BY <1>1 DEF SourceRow
<1> QED BY <1>2 DEF Clicks, Installs

\* There is one row of a source and day.
LEMMA RowIsUnique ==
  ASSUME NEW day, NEW x \in SourceRows(day), NEW y \in SourceRows(day), x.source = y.source
  PROVE  x = y
<1>1. PICK s \in Sources : x = SourceRow(day, s)
  BY DEF SourceRows
<1>2. PICK t \in Sources : y = SourceRow(day, t)
  BY DEF SourceRows
<1>3. SourceRow(day, s).source = s /\ SourceRow(day, t).source = t
  BY DEF SourceRow
<1> QED BY <1>1, <1>2, <1>3

\* What is counted is a set of the facts, which are finitely many.
LEMMA CountedFacts ==
  ASSUME LedgerOK, facts \subseteq DOMAIN inbox, NEW day, NEW source
  PROVE  /\ IsFiniteSet(facts)
         /\ DayClicks(day, source) \subseteq facts
         /\ {j[2] : j \in Joined(day, source)} \subseteq facts
         /\ Clicks(day, source) \in Nat /\ Installs(day, source) \in Nat
<1> DEFINE I == {j[2] : j \in Joined(day, source)}
<1>1. DOMAIN inbox = 1 .. Len(inbox) /\ Len(inbox) \in Nat
  BY DEF LedgerOK
<1>2. IsFiniteSet(facts)
  <2>1. IsFiniteSet(1 .. Len(inbox))
    BY <1>1, FS_Interval
  <2> QED BY <1>1, <2>1, FS_Subset
<1>3. DayClicks(day, source) \subseteq facts /\ I \subseteq facts
  BY DEF DayClicks, Joined
<1>4. IsFiniteSet(DayClicks(day, source)) /\ IsFiniteSet(I)
  BY <1>2, <1>3, FS_Subset
<1> QED BY <1>2, <1>3, <1>4, FS_CardinalityType DEF Clicks, Installs

\* Facts are only added, so the counts never shrink.
LEMMA CountsGrow ==
  ASSUME LedgerOK, [Next]_vars, facts \subseteq DOMAIN inbox, facts \subseteq facts',
         facts' \subseteq DOMAIN inbox', NEW day, NEW source
  PROVE  /\ AtMost(Clicks(day, source), Clicks(day, source)')
         /\ AtMost(Installs(day, source), Installs(day, source)')
<1>1. /\ LedgerOK'
      /\ \A b \in DOMAIN inbox : inbox'[b] = inbox[b]
  BY LedgerGrows
<1>2. /\ \A b \in facts : Body(b)' = Body(b)
      /\ \A b \in facts : b \in facts'
  BY <1>1 DEF Body
<1> DEFINE C == DayClicks(day, source)
           D == DayClicks(day, source)'
           I == {j[2] : j \in Joined(day, source)}
           K == {j[2] : j \in Joined(day, source)}'
<1>3. C \subseteq D
  BY <1>2 DEF DayClicks, DayOf
<1>4. Joined(day, source) \subseteq Joined(day, source)'
  <2> SUFFICES ASSUME NEW j \in Joined(day, source) PROVE j \in Joined(day, source)'
    OBVIOUS
  <2>1. /\ j \in C \X {i \in facts : Body(i).kind = "install"}
        /\ Body(j[1]).click = Body(j[2]).click /\ Body(j[1]).click # NoClick
    BY DEF Joined
  <2>2. j[1] \in facts /\ j[2] \in facts /\ Body(j[2]).kind = "install"
    BY <2>1 DEF DayClicks
  <2>3. Body(j[1])' = Body(j[1]) /\ Body(j[2])' = Body(j[2]) /\ j[2] \in facts'
    BY <1>2, <2>2
  <2>4. j \in D \X {i \in facts' : Body(i)'.kind = "install"}
    BY <1>3, <2>1, <2>2, <2>3
  <2> QED BY <2>1, <2>3, <2>4 DEF Joined
<1>5. I \subseteq K
  BY <1>4
<1>6. IsFiniteSet(D) /\ IsFiniteSet(K)
  <2>1. DOMAIN inbox' = 1 .. Len(inbox') /\ Len(inbox') \in Nat
    BY <1>1 DEF LedgerOK
  <2>2. IsFiniteSet(1 .. Len(inbox'))
    BY <2>1, FS_Interval
  <2>3. IsFiniteSet(facts')
    BY <2>1, <2>2, FS_Subset
  <2>4. D \subseteq facts' /\ K \subseteq facts'
    BY DEF DayClicks, Joined
  <2> QED BY <2>3, <2>4, FS_Subset
<1>7. /\ IsFiniteSet(C) /\ Cardinality(C) <= Cardinality(D)
      /\ IsFiniteSet(I) /\ Cardinality(I) <= Cardinality(K)
  BY <1>3, <1>5, <1>6, FS_Subset
<1> QED BY <1>6, <1>7, FS_CardinalityType DEF AtMost, Clicks, Installs

\* Facts are records that have arrived, and none is taken back.
LEMMA FactsStep ==
  ASSUME LedgerOK, facts \subseteq DOMAIN inbox, [Next]_vars
  PROVE  facts \subseteq facts' /\ facts' \subseteq DOMAIN inbox'
<1>1. pend \subseteq DOMAIN inbox /\ DOMAIN inbox \subseteq DOMAIN inbox'
  BY LedgerGrows DEF LedgerOK
<1>2. CASE PersistRecords
  <2>1. facts' = facts \cup pend
    BY <1>2 DEF PersistRecords
  <2> QED BY <1>1, <2>1
<1>3. CASE facts' = facts
  BY <1>1, <1>3
<1>4. CASE Environment \/ UNCHANGED vars
  BY <1>3, <1>4 DEF Environment, Pass, Receive, Activate, vars, recordVars
<1>5. CASE TickStart \/ Bind \/ PersistAttributions \/ (\E d \in todo : PersistFraud(d)) \/ PersistLate
  BY <1>3, <1>5 DEF TickStart, Bind, PersistAttributions, PersistFraud, PersistLate, recordVars
<1>6. CASE Mark \/ MarkFailed \/ Aggregate \/ Resolve \/ Crash \/ TransactionFails
  BY <1>3, <1>6 DEF Mark, MarkFailed, Aggregate, Resolve, Crash, TransactionFails, recordVars
<1> QED BY <1>2, <1>4, <1>5, <1>6 DEF Next, Worker

\* A tick starts after the end of the last one.
LEMMA TicksStep ==
  ASSUME LedgerOK, TicksOK, [Next]_vars
  PROVE  TicksOK'
<1>1. clock \in Nat /\ clock' \in Nat /\ ended \in Int /\ ended <= clock
  BY LedgerGrows DEF LedgerOK, TicksOK
<1>2. CASE Pass
  <2>1. clock' = clock + 1 /\ ended' = ended /\ phase' = phase /\ aggregates' = aggregates
    BY <1>2 DEF Pass, sourceVars
  <2> QED BY <1>1, <2>1 DEF TicksOK
<1>3. CASE /\ clock' = clock /\ aggregates' = aggregates
           /\ \/ ended' = ended /\ phase' = phase
              \/ ended' = clock /\ phase' = "idle"
              \/ ended' = ended /\ phase' # "idle" /\ phase \notin {"idle", "resolve"}
  BY <1>1, <1>3 DEF TicksOK
<1>4. CASE TickStart
  <2>1. /\ clock' = clock /\ ended' = ended /\ aggregates' = aggregates /\ phase = "idle"
        /\ ended < clock
    BY <1>1, <1>4 DEF TickStart, sourceVars
  <2> QED BY <1>1, <2>1 DEF TicksOK
<1>5. CASE Aggregate
  <2>1. phase = "aggregate" /\ clock' = clock
    BY <1>5 DEF Aggregate
  <2>2. \/ phase' = "idle" /\ ended' = clock /\ aggregates' = aggregates
        \/ /\ phase' = "resolve" /\ ended' = ended
           /\ aggregates' = aggregates \cup NewAggregates(SourceRows(Yesterday))
    BY <1>5 DEF Aggregate, EndTick, sourceVars
  <2>3. \A a \in NewAggregates(SourceRows(Yesterday)) : a.at = clock
    BY DEF NewAggregates
  <2> QED BY <1>1, <2>1, <2>2, <2>3 DEF TicksOK
<1>6. CASE (\E body \in Bodies : Receive(body)) \/ UNCHANGED vars
           \/ (\E bundle \in Bundles, p \in Policies, sup \in 0 .. Len(revisions) :
                  Activate(bundle, p, sup))
  BY <1>3, <1>6 DEF Receive, Activate, vars, sourceVars
<1>7. CASE Bind \/ PersistRecords \/ PersistAttributions \/ (\E d \in todo : PersistFraud(d))
           \/ PersistLate \/ Mark \/ TransactionFails
  BY <1>3, <1>7 DEF Bind, PersistRecords, PersistAttributions, PersistFraud, PersistLate, Mark,
     TransactionFails, sourceVars
<1>8. CASE MarkFailed \/ Resolve \/ Crash
  BY <1>3, <1>8 DEF MarkFailed, Resolve, Crash, EndTick, sourceVars
<1> QED BY <1>2, <1>4, <1>5, <1>6, <1>7, <1>8 DEF Next, Environment, Worker

\* A new aggregate is the latest of its source and day, and counts what is there.
LEMMA CountsStep ==
  ASSUME LedgerOK, TicksOK, CountsOK, [Next]_vars
  PROVE  CountsOK'
<1>1. facts \subseteq facts' /\ facts' \subseteq DOMAIN inbox' /\ facts \subseteq DOMAIN inbox
  BY FactsStep DEF CountsOK
<1>2. \A day, source : /\ AtMost(Clicks(day, source), Clicks(day, source)')
                       /\ AtMost(Installs(day, source), Installs(day, source)')
  BY <1>1, CountsGrow
<1>3. \A x, y, z : AtMost(x, y) /\ AtMost(y, z) => AtMost(x, z)
  BY DEF AtMost
<1>4. \A a \in aggregates :
        /\ AtMost(a.row.clicks, Clicks(a.row.day, a.row.source)')
        /\ AtMost(a.row.installs, Installs(a.row.day, a.row.source)')
  BY <1>2, <1>3 DEF CountsOK
<1>5. CASE aggregates' = aggregates
  BY <1>1, <1>4, <1>5 DEF CountsOK, SameSource
<1>6. CASE Aggregate
  <2> DEFINE new == NewAggregates(SourceRows(Yesterday))
  <2>1. phase = "aggregate" /\ aggregates' \subseteq aggregates \cup new
    BY <1>6 DEF Aggregate, sourceVars
  <2>2. ASSUME NEW n \in new
        PROVE  /\ n.row \in SourceRows(Yesterday) /\ n.at = clock
               /\ n.row.day = Yesterday
               /\ n.row.clicks = Clicks(n.row.day, n.row.source)
               /\ n.row.installs = Installs(n.row.day, n.row.source)
    <3>1. n.row \in SourceRows(Yesterday) /\ n.at = clock
      BY DEF NewAggregates
    <3> QED BY <3>1, RowFacts
  <2> HIDE DEF new
  <2>3. \A n \in new : /\ AtMost(n.row.clicks, Clicks(n.row.day, n.row.source)')
                       /\ AtMost(n.row.installs, Installs(n.row.day, n.row.source)')
    BY <1>2, <2>2
  <2>4. ASSUME NEW a \in aggregates', NEW b \in aggregates', SameSource(a, b), a.at <= b.at
        PROVE  AtMost(a.row.clicks, b.row.clicks) /\ AtMost(a.row.installs, b.row.installs)
    <3>1. CASE a \in aggregates /\ b \in aggregates
      BY <2>4, <3>1 DEF CountsOK
    <3>2. CASE a \in aggregates /\ b \in new
      BY <2>2, <2>4, <3>2 DEF CountsOK, SameSource
    <3>3. CASE a \in new /\ b \in aggregates
      <4>1. a.at = clock /\ b.at \in Nat /\ b.at < clock
        BY <2>1, <2>2, <3>3 DEF TicksOK
      <4> QED BY <2>4, <4>1 DEF LedgerOK
    <3>4. CASE a \in new /\ b \in new
      <4>1. a.row = b.row
        BY <2>2, <2>4, <3>4, RowIsUnique DEF SameSource
      <4>2. Clicks(a.row.day, a.row.source) \in Nat /\ Installs(a.row.day, a.row.source) \in Nat
        BY <1>1, CountedFacts
      <4> QED BY <2>2, <3>4, <4>1, <4>2 DEF AtMost
    <3> QED BY <2>1, <3>1, <3>2, <3>3, <3>4
  <2> QED BY <1>1, <1>4, <2>1, <2>3, <2>4 DEF CountsOK, SameSource
<1>7. CASE Environment \/ UNCHANGED vars
  BY <1>5, <1>7 DEF Environment, Pass, Receive, Activate, vars, sourceVars
<1>8. CASE TickStart \/ Bind \/ PersistRecords \/ PersistAttributions
           \/ (\E d \in todo : PersistFraud(d)) \/ PersistLate
  BY <1>5, <1>8 DEF TickStart, Bind, PersistRecords, PersistAttributions, PersistFraud,
     PersistLate, sourceVars
<1>9. CASE Mark \/ MarkFailed \/ Resolve \/ Crash \/ TransactionFails
  BY <1>5, <1>9 DEF Mark, MarkFailed, Resolve, Crash, TransactionFails, sourceVars
<1> QED BY <1>6, <1>7, <1>8, <1>9 DEF Next, Worker

\* Of some aggregates, one is the latest.
LEMMA LatestOf ==
  ASSUME NEW R, R # {}, NEW now \in Nat, \A a \in R : a.at \in Nat /\ a.at <= now
  PROVE  \E a \in R : \A b \in R : b.at <= a.at
<1> DEFINE Less == {ss \in Nat \X Nat : ss[1] < ss[2]}
           Ages == {now - a.at : a \in R}
<1>1. IsWellFoundedOn(Less, Nat)
  BY NatLessThanWellFounded, Zenon DEF OpToRel
<1>2. Ages \subseteq Nat /\ Ages # {}
  OBVIOUS
<1>3. PICK n \in Ages : \A m \in Ages : <<m, n>> \notin Less
  <2> HIDE DEF Less, Ages
  <2> QED BY <1>1, <1>2, WFMin
<1>4. PICK a \in R : n = now - a.at
  OBVIOUS
<1>5. \A b \in R : b.at <= a.at
  <2> SUFFICES ASSUME NEW b \in R, ~(b.at <= a.at) PROVE FALSE
    OBVIOUS
  <2>1. now - b.at \in Nat /\ n \in Nat /\ now - b.at < n /\ now - b.at \in Ages
    BY <1>2, <1>4
  <2>2. <<now - b.at, n>> \in Less
    BY <2>1
  <2> QED BY <1>3, <2>1, <2>2
<1> QED BY <1>5
-----------------------------------------------------------------------------
(* The theorems.                                                           *)

\* The invariant that ties drains, decisions, quarantines and revisions together is
\* inductive, whatever records, bundles, faults and deaths of the worker come.
THEOREM Invariance == Spec => []FraudInv
<1>1. Init => FraudInv
  <2> SUFFICES ASSUME Init PROVE FraudInv
    OBVIOUS
  <2>1. Registered.sup = 0
    BY FraudAssumption DEF NoRevision
  <2>2. LedgerOK
    <3>1. revisions \in {<<Registered>>, <<>>} /\ inbox = <<>> /\ state = <<>> /\ clock = 0
          /\ hist = {} /\ pend = {}
      BY DEF Init, Registrations
    <3>2. CASE revisions = <<Registered>>
      <4>1. revisions \in Seq(Revisions) /\ DOMAIN revisions = {1} /\ revisions[1] = Registered
        BY <3>2 DEF Revisions
      <4> QED BY <2>1, <3>1, <4>1 DEF LedgerOK
    <3>3. CASE revisions = <<>>
      BY <3>1, <3>3 DEF LedgerOK
    <3> QED BY <3>1, <3>2, <3>3
  <2>3. JudgedInTime /\ DrainOK /\ QuarantinesOK /\ SignalsOK
    <3>1. inbox = <<>> /\ phase = "idle" /\ todo = {} /\ decisions = {} /\ quarantines = {}
          /\ resolutions = {} /\ attributions = {}
      BY DEF Init
    <3> QED BY <3>1 DEF JudgedInTime, DrainOK, Draining, QuarantinesOK, SignalsOK, ExclusionsNamed
  <2> QED BY <2>2, <2>3 DEF FraudInv
<1>2. FraudInv /\ [Next]_vars => FraudInv'
  BY LedgerGrows, JudgedStep, DrainStep, QuarantineStep, SignalStep DEF FraudInv
<1> QED BY <1>1, <1>2, PTL DEF Spec

\* No record is judged by a rule bundle that was superseded before it arrived, for any
\* number of activations, drains and faults (resolveActiveFraudBundle at the drain).
THEOREM RevisionSafety == Spec => []NoStaleRevision
<1>1. FraudInv => NoStaleRevision
  BY DEF FraudInv, JudgedInTime, MayJudge, NoStaleRevision
<1> QED BY <1>1, Invariance, PTL

\* A quarantined decision waits in fraud_quarantines or was superseded once, although a
\* drain that died persists its decisions again (persistFraud, resolveExpiredQuarantines).
THEOREM QuarantineSafety == Spec => []QuarantineResolvesOnce
<1>1. FraudInv => QuarantineResolvesOnce
  <2> SUFFICES ASSUME FraudInv, NEW d \in decisions, d.action = "quarantine"
               PROVE  LET waiting == \E q \in quarantines : q.id = d.id
                          times == Cardinality({s \in resolutions : s.of = d.id})
                      IN  (waiting /\ times = 0) \/ (~waiting /\ times = 1)
    BY DEF QuarantineResolvesOnce
  <2> DEFINE S == {s \in resolutions : s.of = d.id}
  <2>1. CASE \E q \in quarantines : q.id = d.id
    <3>1. S = {}
      BY <2>1 DEF FraudInv, QuarantinesOK
    <3> QED BY <2>1, <3>1, FS_EmptySet
  <2>2. CASE ~\E q \in quarantines : q.id = d.id
    <3>1. PICK s \in resolutions : s.of = d.id
      BY <2>2 DEF FraudInv, QuarantinesOK
    <3>2. S = {s}
      BY <3>1 DEF FraudInv, QuarantinesOK
    <3>3. Cardinality(S) = 1
      BY <3>2, FS_Singleton
    <3> QED BY <2>2, <3>3
  <2> QED BY <2>1, <2>2
<1> QED BY <1>1, Invariance, PTL

\* An attribution that says fraud_excluded points to a decision of the ledger once both
\* batches are processed, unless a drain without a bundle processed the click
\* (persistAttribution before persistFraud, belongsToCurrent, bind).
THEOREM ExclusionSafety == Spec => []ExclusionHasItsDecision
<1>1. FraudInv => ExclusionHasItsDecision
  BY DEF FraudInv, SignalsOK, ExclusionsNamed, ExclusionHasItsDecision
<1> QED BY <1>1, Invariance, PTL

\* Whatever ticks, faults and restarts come, after an aggregation the audit report shows
\* the clicks and installs that the facts have then (persistAggregate, fraudAudit).
THEOREM AuditSafety == Spec => AuditFollows
<1> DEFINE IInv == LedgerOK /\ TicksOK /\ CountsOK
<1>1. Init => TicksOK /\ CountsOK
  BY DEF Init, TicksOK, CountsOK
<1>2. LedgerOK /\ TicksOK /\ CountsOK /\ [Next]_vars => TicksOK' /\ CountsOK'
  BY TicksStep, CountsStep
<1>3. IInv /\ IInv' /\ phase = "aggregate" /\ phase' = "resolve" /\ [Next]_vars =>
        \A row \in SourceRows(Yesterday) :
          LET shown == Audit(row.day, row.source)'
          IN  shown.clicks = row.clicks /\ shown.installs = row.installs
  <2> SUFFICES ASSUME IInv, IInv', phase = "aggregate", phase' = "resolve", [Next]_vars,
                      NEW row \in SourceRows(Yesterday)
               PROVE  LET shown == Audit(row.day, row.source)'
                      IN  shown.clicks = row.clicks /\ shown.installs = row.installs
    OBVIOUS
  <2> DEFINE R == {a \in aggregates' : a.row.day = row.day /\ a.row.source = row.source}
             last == CHOOSE a \in R : \A b \in R : b.at <= a.at
  <2>1. Aggregate
    <3>1. CASE Environment \/ UNCHANGED vars
      BY <3>1 DEF Environment, Pass, Receive, Activate, vars
    <3>2. CASE TickStart \/ Bind \/ PersistRecords \/ PersistAttributions
               \/ (\E d \in todo : PersistFraud(d)) \/ PersistLate
      BY <3>2 DEF TickStart, Bind, PersistRecords, PersistAttributions, PersistFraud, PersistLate
    <3>3. CASE Mark \/ MarkFailed \/ Resolve \/ Crash \/ TransactionFails
      BY <3>3 DEF Mark, MarkFailed, Resolve, Crash, TransactionFails, EndTick
    <3> QED BY <3>1, <3>2, <3>3 DEF Next, Worker
  <2>2. facts' = facts /\ aggregates' = aggregates \cup NewAggregates(SourceRows(Yesterday))
        /\ inbox' = inbox /\ clock' = clock
    BY <2>1 DEF Aggregate, EndTick
  <2>3. PICK own \in aggregates' : own.row = row
    <3>1. CASE \E a \in aggregates : a.row = row
      BY <2>2, <3>1
    <3>2. CASE \A a \in aggregates : a.row # row
      <4>1. [row |-> row, at |-> clock] \in NewAggregates(SourceRows(Yesterday))
        BY <3>2 DEF NewAggregates
      <4> QED BY <2>2, <4>1
    <3> QED BY <3>1, <3>2
  <2>4. own \in R
    BY <2>3
  <2>5. last \in R /\ own.at <= last.at
    <3>1. \E a \in R : \A b \in R : b.at <= a.at
      <4>1. clock \in Nat /\ \A a \in R : a.at \in Nat /\ a.at <= clock
        BY <2>2 DEF TicksOK, LedgerOK
      <4> HIDE DEF R
      <4> QED BY <2>4, <4>1, LatestOf
    <3> QED BY <2>4, <3>1
  <2>6. AtMost(row.clicks, last.row.clicks) /\ AtMost(row.installs, last.row.installs)
    BY <2>3, <2>4, <2>5 DEF CountsOK, SameSource
  <2>7. /\ AtMost(last.row.clicks, Clicks(row.day, row.source)')
        /\ AtMost(last.row.installs, Installs(row.day, row.source)')
    BY <2>5 DEF CountsOK
  <2>8. /\ Clicks(row.day, row.source)' = Clicks(row.day, row.source)
        /\ Installs(row.day, row.source)' = Installs(row.day, row.source)
    BY <2>2 DEF Clicks, Installs, DayClicks, Joined, Body
  <2>9. row.clicks = Clicks(row.day, row.source) /\ row.installs = Installs(row.day, row.source)
    BY RowFacts
  <2>10. last.row.clicks = row.clicks /\ last.row.installs = row.installs
    <3> HIDE DEF last
    <3>1. AtMost(last.row.clicks, row.clicks) /\ AtMost(last.row.installs, row.installs)
      BY <2>7, <2>8, <2>9
    <3> QED BY <2>6, <3>1 DEF AtMost
  <2> QED BY <2>10 DEF Audit
<1>4. FraudInv => LedgerOK
  BY DEF FraudInv
<1>5. Spec => [](LedgerOK /\ TicksOK /\ CountsOK)
  BY <1>1, <1>2, <1>4, Invariance, PTL DEF Spec
<1> QED BY <1>3, <1>5, PTL DEF Spec, AuditFollows
=============================================================================
