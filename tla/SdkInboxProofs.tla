--------------------------- MODULE SdkInboxProofs ---------------------------
(***************************************************************************)
(* For any bodies, any number of batches and any number of faults.         *)
(*                                                                         *)
(* However requests overlap: the inbox is well typed, a batch is marked    *)
(* processed only when all its records are in the ledger, a failed batch   *)
(* stays failed, committed ledger rows are never rewritten (InboxInv); a   *)
(* drain accepts nothing behind the only withdrawal of an installation     *)
(* (DrainInv), and what is accepted as a repetition has its logical event  *)
(* (GroundedInv).                                                          *)
(*                                                                         *)
(* While one request at a time is received (MaxOverlap = 1, OrderInv):     *)
(* what the worker sees only grows at its end, so that evaluate() decides  *)
(* a record the same way in every drain.  From that follow determinism of  *)
(* replays, one attribution per installation, resolvable lookups and the   *)
(* recovery of late clicks (SequentialInv).                                *)
(***************************************************************************)
EXTENDS SdkInbox, FiniteSetTheorems, TLAPS

-----------------------------------------------------------------------------
(* The operators of the model.                                             *)

\* A decision is about the record it was taken for.
LEMMA DecisionRec == \A r, D : Decision(r, D).rec = r
  BY DEF Decision

\* Records, by batch.
LEMMA RecordsOfBatch ==
  ASSUME NEW D, D \subseteq DOMAIN inbox
  PROVE  /\ RecordsIn(D) \subseteq RecordIds
         /\ \A b \in D : RecordsOf(b) \subseteq RecordsIn(D)
  BY DEF RecordsIn, RecordIds

\* What evaluate() selects, it selects from the records it was given.
LEMMA SelectedRecords ==
  ASSUME NEW H, NEW P, H \subseteq DOMAIN inbox, P \subseteq DOMAIN inbox
  PROVE  /\ Valid(P) \subseteq RecordIds
         /\ ToPersist(P) \subseteq RecordIds
         /\ Attributions(H, P) \subseteq RecordIds
         /\ TokenInstalls(H, P) \subseteq RecordIds
<1>1. RecordsIn(P) \subseteq RecordIds /\ RecordsIn(H \cup P) \subseteq RecordIds
  BY RecordsOfBatch
<1>2. AcceptedUnique(H \cup P) \subseteq RecordsIn(H \cup P)
  BY DEF AcceptedUnique, Valid
<1> QED BY <1>1, <1>2 DEF Valid, ToPersist, Attributions, TokenInstalls

\* makeAttribution always gives one of its reasons.
LEMMA ReasonType == \A r, D : Reason(r, D) \in Reasons
  BY DEF Reason, Reasons

\* A record of the inbox has one of the events senders may post.
LEMMA RecordEvent ==
  ASSUME ApiTypeOK, NEW r \in RecordIds
  PROVE  Rec(r).event \in Events
<1>1. PICK b \in DOMAIN inbox : r \in RecordsOf(b)
  BY DEF RecordIds
<1>2. r[1] = b /\ r[2] \in 1 .. Len(inbox[b].recs)
  BY <1>1 DEF RecordsOf
<1>3. inbox[b] \in BatchRows
  BY DEF ApiTypeOK
<1>4. PICK body \in Bodies : inbox[b].recs = body.recs
  BY <1>3 DEF BatchRows
<1> QED BY <1>2, <1>4 DEF Rec, Events

\* A step that leaves the inbox alone leaves the record identities alone.
LEMMA RecordsStable ==
  ASSUME inbox' = inbox
  PROVE  RecordIds' = RecordIds /\ \A b : RecordsOf(b)' = RecordsOf(b)
  BY DEF RecordIds, RecordsOf

-----------------------------------------------------------------------------
(* Insert is the only step that extends the inbox.                         *)

\* A new batch row leaves every earlier one alone.
LEMMA InsertFacts ==
  ASSUME TypeOK, NEW q \in requests, Insert(q)
  PROVE  /\ ApiTypeOK'
         /\ DOMAIN state = DOMAIN inbox
         /\ DOMAIN state \subseteq DOMAIN state'
         /\ \A b \in DOMAIN state : state'[b] = state[b] /\ RecordsOf(b)' = RecordsOf(b)
         /\ \A b \in DOMAIN state' : b \notin DOMAIN state => state'[b] = "uncommitted"
         /\ RecordIds \subseteq RecordIds'
<1> DEFINE row == [at |-> q.at, inst |-> q.body.inst, recs |-> q.body.recs]
<1>1. inbox \in Seq(BatchRows) /\ state \in Seq(States) /\ Len(state) = Len(inbox)
  BY DEF TypeOK, ApiTypeOK
<1>2. row \in BatchRows /\ "uncommitted" \in States
  BY DEF TypeOK, ApiTypeOK, BatchRows, States
<1>3. inbox' = Append(inbox, row) /\ state' = Append(state, "uncommitted")
      /\ requests' \subseteq requests /\ clock' = clock
  BY DEF Insert
<1> HIDE DEF row
<1>4. ApiTypeOK'
  BY <1>1, <1>2, <1>3 DEF TypeOK, ApiTypeOK
<1>5. /\ DOMAIN state = DOMAIN inbox
      /\ DOMAIN state \subseteq DOMAIN state'
      /\ DOMAIN inbox \subseteq DOMAIN inbox'
      /\ \A b \in DOMAIN state : state'[b] = state[b] /\ inbox'[b] = inbox[b]
      /\ \A b \in DOMAIN state' : b \notin DOMAIN state => state'[b] = "uncommitted"
  BY <1>1, <1>2, <1>3
<1>6. \A b \in DOMAIN state : RecordsOf(b)' = RecordsOf(b)
  BY <1>5 DEF RecordsOf
<1>7. RecordIds \subseteq RecordIds'
  BY <1>5, <1>6 DEF RecordIds
<1> QED BY <1>4, <1>5, <1>6, <1>7

\* The invariant survives a new row.
LEMMA InsertInv ==
  ASSUME InboxInv, NEW q \in requests, Insert(q)
  PROVE  InboxInv'
<1>1. TypeOK /\ UNCHANGED <<phase, drainVars, ledgerVars, faults, readFaults>>
  BY DEF InboxInv, Insert
<1>2. /\ ApiTypeOK'
      /\ DOMAIN state \subseteq DOMAIN state'
      /\ \A b \in DOMAIN state : state'[b] = state[b] /\ RecordsOf(b)' = RecordsOf(b)
      /\ \A b \in DOMAIN state' : b \notin DOMAIN state => state'[b] = "uncommitted"
      /\ RecordIds \subseteq RecordIds'
  BY <1>1, InsertFacts
<1>3. DrainTypeOK'
  BY <1>1, <1>2 DEF TypeOK, DrainTypeOK, drainVars
<1>4. LedgerTypeOK'
  <2>1. logical' \in [Events -> RecordIds' \cup {None}]
    BY <1>1, <1>2 DEF TypeOK, LedgerTypeOK, ledgerVars
  <2> QED BY <1>1, <1>2, <2>1 DEF TypeOK, LedgerTypeOK, ledgerVars
<1>5. \A b \in pend : b \in DOMAIN state
  BY <1>1 DEF TypeOK, DrainTypeOK
<1>6. ProcessedIsDurable'
  BY <1>1, <1>2 DEF InboxInv, ProcessedIsDurable, ledgerVars
<1>7. RowsInLastLoop' /\ PersistCoversDrain' /\ DrainIsDelivered' /\ DrainIsUnfailed'
  BY <1>1, <1>2, <1>5 DEF InboxInv, RowsInLastLoop, PersistCoversDrain, DrainIsDelivered, DrainIsUnfailed,
     Delivered, drainVars, ledgerVars
<1> QED BY <1>2, <1>3, <1>4, <1>6, <1>7 DEF InboxInv, TypeOK

-----------------------------------------------------------------------------
(* The other steps of the API.                                             *)

\* A new status keeps the shape of the table.
LEMMA StatusUpdate ==
  ASSUME ApiTypeOK, NEW b \in DOMAIN state, NEW v \in States,
         state' = [state EXCEPT ![b] = v], UNCHANGED apiVars
  PROVE  /\ ApiTypeOK'
         /\ DOMAIN state' = DOMAIN state
         /\ state'[b] = v
         /\ \A c \in DOMAIN state : c # b => state'[c] = state[c]
<1>1. state' \in Seq(States) /\ Len(state') = Len(state)
  BY DEF ApiTypeOK
<1> QED BY <1>1 DEF ApiTypeOK, apiVars

\* Receiving a request changes nothing the worker can see.
LEMMA ReceiveInv ==
  ASSUME InboxInv, NEW body \in Bodies, Receive(body)
  PROVE  InboxInv'
<1>1. UNCHANGED <<inbox, state, phase, drainVars, ledgerVars, faults, readFaults>>
  BY DEF Receive
<1>2. RecordIds' = RecordIds /\ \A b : RecordsOf(b)' = RecordsOf(b)
  BY <1>1, RecordsStable
<1>3. ApiTypeOK'
  BY DEF InboxInv, TypeOK, ApiTypeOK, Receive
<1>4. DrainTypeOK' /\ LedgerTypeOK'
  BY <1>1, <1>2 DEF InboxInv, TypeOK, DrainTypeOK, LedgerTypeOK, drainVars, ledgerVars
<1>5. /\ ProcessedIsDurable' /\ RowsInLastLoop'
      /\ PersistCoversDrain' /\ DrainIsDelivered' /\ DrainIsUnfailed'
  BY <1>1, <1>2 DEF InboxInv, ProcessedIsDurable, RowsInLastLoop, PersistCoversDrain,
     DrainIsDelivered, DrainIsUnfailed, Delivered, drainVars, ledgerVars
<1> QED BY <1>3, <1>4, <1>5 DEF InboxInv, TypeOK

\* The batch whose transaction ends is in no drain.
LEMMA CommitAbortInv ==
  ASSUME InboxInv, NEW b \in DOMAIN state, Commit(b) \/ Abort(b)
  PROVE  InboxInv'
<1>1. /\ state[b] = "uncommitted"
      /\ state' = [state EXCEPT ![b] = "pending"] \/ state' = [state EXCEPT ![b] = "aborted"]
      /\ UNCHANGED <<apiVars, phase, drainVars, ledgerVars, readFaults>>
  BY DEF Commit, Abort
<1>2. ApiTypeOK'
      /\ DOMAIN state' = DOMAIN state
      /\ state'[b] \in {"pending", "aborted"}
      /\ \A c \in DOMAIN state : c # b => state'[c] = state[c]
  <2>1. "pending" \in States /\ "aborted" \in States /\ ApiTypeOK
    BY DEF States, InboxInv, TypeOK
  <2> QED BY <1>1, <2>1, StatusUpdate
<1>3. RecordIds' = RecordIds /\ \A c : RecordsOf(c)' = RecordsOf(c)
  BY <1>1, RecordsStable DEF apiVars
<1>4. faults' \in 0 .. MaxFaults
  BY BoundsAssumption DEF Commit, Abort, InboxInv, TypeOK, DrainTypeOK
<1>5. DrainTypeOK' /\ LedgerTypeOK'
  BY <1>1, <1>2, <1>3, <1>4 DEF InboxInv, TypeOK, DrainTypeOK, LedgerTypeOK, drainVars, ledgerVars
<1>6. ProcessedIsDurable'
  BY <1>1, <1>2, <1>3 DEF InboxInv, ProcessedIsDurable, ledgerVars
<1>7. RowsInLastLoop' /\ PersistCoversDrain' /\ DrainIsDelivered'
  BY <1>1, <1>3 DEF InboxInv, RowsInLastLoop, PersistCoversDrain, DrainIsDelivered, Delivered, drainVars, ledgerVars
<1>8. DrainIsUnfailed'
  BY <1>1, <1>2 DEF InboxInv, TypeOK, DrainTypeOK, DrainIsUnfailed, drainVars
<1> QED BY <1>2, <1>5, <1>6, <1>7, <1>8 DEF InboxInv, TypeOK

-----------------------------------------------------------------------------
(* The steps of the worker that write no row.                              *)

\* When neither the inbox, nor the states, nor the ledger change, what is left to
\* show concerns the worker's own variables.
LEMMA DrainOnly ==
  ASSUME InboxInv, UNCHANGED <<apiVars, state, ledgerVars>>, DrainTypeOK',
         RowsInLastLoop', PersistCoversDrain', DrainIsDelivered', DrainIsUnfailed'
  PROVE  InboxInv'
<1>1. RecordIds' = RecordIds /\ \A b : RecordsOf(b)' = RecordsOf(b)
  BY RecordsStable DEF apiVars
<1>2. ApiTypeOK' /\ LedgerTypeOK' /\ ProcessedIsDurable'
  BY <1>1 DEF InboxInv, TypeOK, ApiTypeOK, LedgerTypeOK, ProcessedIsDurable, apiVars, ledgerVars
<1> QED BY <1>2 DEF InboxInv, TypeOK

\* A drain begins with pending batches.
LEMMA SelectInv ==
  ASSUME InboxInv, Select
  PROVE  InboxInv'
<1>1. phase = "idle" /\ phase' = "decode"
      /\ UNCHANGED <<apiVars, state, todo, rows, ledgerVars, faults, readFaults>>
  BY DEF Select
<1>2. RecordIds' = RecordIds
  BY <1>1, RecordsStable DEF apiVars
<1>3. rows = {} /\ rows' = {}
  BY <1>1 DEF InboxInv, RowsInLastLoop
<1>4. DrainTypeOK'
  BY <1>1, <1>2, <1>3 DEF InboxInv, TypeOK, DrainTypeOK, Phases, Select
<1>5. RowsInLastLoop' /\ PersistCoversDrain' /\ DrainIsDelivered' /\ DrainIsUnfailed'
  BY <1>1, <1>3 DEF RowsInLastLoop, PersistCoversDrain, DrainIsDelivered, DrainIsUnfailed, Select
<1> QED BY <1>1, <1>4, <1>5, DrainOnly

\* After the evaluation every record of the drain is still to be written.
LEMMA EvaluateInv ==
  ASSUME InboxInv, Evaluate
  PROVE  InboxInv'
<1>1. /\ phase = "decode" /\ phase' \in {"idle", "persist", "fail"}
      /\ UNCHANGED <<apiVars, state, pend, ledgerVars, faults, readFaults>>
      /\ hist' \subseteq hist
      /\ todo' = todo \/ todo' = ToPersist(pend)
      /\ phase' = "persist" => todo' = ToPersist(pend)
      /\ phase' # "fail" => rows' = rows
      /\ rows' = rows \/ rows' = pend
  BY DEF Evaluate
<1>2. RecordIds' = RecordIds /\ \A b : RecordsOf(b)' = RecordsOf(b)
  BY <1>1, RecordsStable DEF apiVars
<1>3. hist \subseteq DOMAIN inbox /\ pend \subseteq DOMAIN inbox /\ rows = {}
  BY <1>1 DEF InboxInv, TypeOK, ApiTypeOK, DrainTypeOK, RowsInLastLoop
<1>4. ToPersist(pend) \subseteq RecordIds
  BY <1>3, SelectedRecords
<1>5. DrainTypeOK'
  BY <1>1, <1>2, <1>4 DEF InboxInv, TypeOK, DrainTypeOK, Phases
<1>6. PersistCoversDrain'
  BY <1>1, <1>2, <1>3, RecordsOfBatch DEF PersistCoversDrain, ToPersist
<1>7. RowsInLastLoop' /\ DrainIsDelivered' /\ DrainIsUnfailed'
  BY <1>1, <1>3 DEF InboxInv, RowsInLastLoop, DrainIsDelivered, DrainIsUnfailed
<1> QED BY <1>1, <1>5, <1>6, <1>7, DrainOnly

\* The loop over the records is left only when none remains.
LEMMA NextLoopInv ==
  ASSUME InboxInv, NextLoop
  PROVE  InboxInv'
<1>1. /\ todo = {}
      /\ phase \in {"persist", "attribute", "late", "queue"}
      /\ phase' \in {"attribute", "late", "queue", "mark"}
      /\ UNCHANGED <<apiVars, state, hist, pend, ledgerVars, faults, readFaults>>
      /\ todo' \in {{}, Attributions(hist, pend), TokenInstalls(hist, pend)}
      /\ rows' = rows \/ (rows' = pend /\ phase' = "mark")
  BY DEF NextLoop
<1>2. RecordIds' = RecordIds /\ \A b : RecordsOf(b)' = RecordsOf(b)
  BY <1>1, RecordsStable DEF apiVars
<1>3. hist \subseteq DOMAIN inbox /\ pend \subseteq DOMAIN inbox /\ rows = {}
  BY <1>1 DEF InboxInv, TypeOK, ApiTypeOK, DrainTypeOK, RowsInLastLoop
<1>4. todo' \subseteq RecordIds
  BY <1>1, <1>3, SelectedRecords
<1>5. DrainTypeOK'
  BY <1>1, <1>2, <1>4 DEF InboxInv, TypeOK, DrainTypeOK, Phases
<1>6. PersistCoversDrain' /\ RowsInLastLoop' /\ DrainIsUnfailed'
  BY <1>1, <1>3 DEF InboxInv, PersistCoversDrain, RowsInLastLoop, DrainIsUnfailed
<1>7. DrainIsDelivered'
  BY <1>1, <1>2 DEF InboxInv, PersistCoversDrain, DrainIsDelivered, Delivered, ledgerVars
<1> QED BY <1>1, <1>5, <1>6, <1>7, DrainOnly

\* The catch block, a death and the end of a drain leave only rows to fail.
LEMMA LeaveLoopInv ==
  ASSUME InboxInv, Finish \/ TransactionFails \/ Crash \/ \E r \in todo : PersistConflict(r)
  PROVE  InboxInv'
<1>1. /\ UNCHANGED <<apiVars, state, ledgerVars, readFaults>>
      /\ phase' \in {"idle", "fail"} /\ todo' = {}
      /\ hist' \in {{}, hist} /\ pend' \in {{}, pend}
      /\ rows' \subseteq pend'
      /\ phase' = "idle" => rows' = {}
  BY DEF Finish, TransactionFails, Crash, PersistConflict, Caught
<1>2. faults' \in 0 .. MaxFaults
  BY BoundsAssumption DEF Finish, TransactionFails, Crash, PersistConflict, InboxInv, TypeOK,
     DrainTypeOK
<1>3. DrainTypeOK'
  BY <1>1, <1>2 DEF InboxInv, TypeOK, DrainTypeOK, Phases
<1>4. RowsInLastLoop' /\ PersistCoversDrain' /\ DrainIsDelivered' /\ DrainIsUnfailed'
  BY <1>1 DEF RowsInLastLoop, PersistCoversDrain, DrainIsDelivered, DrainIsUnfailed
<1> QED BY <1>1, <1>3, <1>4, DrainOnly

-----------------------------------------------------------------------------
(* The steps that append a state.                                          *)

\* A batch whose body is not decoded leaves the drain.
LEMMA DecodeFailureInv ==
  ASSUME InboxInv, NEW b \in DOMAIN state, LoseBody(b)
  PROVE  InboxInv'
<1>1. /\ phase = "decode" /\ phase' = "decode"
      /\ pend' = pend \ {b} /\ hist' \subseteq hist
      /\ state' = [state EXCEPT ![b] = "failed"] \/ state' = state
      /\ UNCHANGED <<apiVars, todo, rows, ledgerVars, faults>>
  BY DEF LoseBody
<1>2. ApiTypeOK /\ "failed" \in States
  BY DEF InboxInv, TypeOK, States
<1>3. /\ ApiTypeOK' /\ DOMAIN state' = DOMAIN state
      /\ \A c \in DOMAIN state : c # b => state'[c] = state[c]
      /\ state'[b] = "failed" \/ state'[b] = state[b]
  <2>1. CASE state' = [state EXCEPT ![b] = "failed"]
    BY <1>1, <1>2, <2>1, StatusUpdate
  <2>2. CASE state' = state
    BY <1>1, <1>2, <2>2 DEF ApiTypeOK, apiVars
  <2> QED BY <1>1, <2>1, <2>2
<1>4. RecordIds' = RecordIds /\ \A c : RecordsOf(c)' = RecordsOf(c)
  BY <1>1, RecordsStable DEF apiVars
<1>5. rows = {}
  BY <1>1 DEF InboxInv, RowsInLastLoop
<1>6. readFaults' \in 0 .. MaxReadFaults
  BY BoundsAssumption DEF LoseBody, InboxInv, TypeOK, DrainTypeOK
<1>7. DrainTypeOK'
  BY <1>1, <1>3, <1>4, <1>5, <1>6 DEF InboxInv, TypeOK, DrainTypeOK
<1>8. LedgerTypeOK'
  BY <1>1, <1>3, <1>4 DEF InboxInv, TypeOK, LedgerTypeOK, ledgerVars
<1>9. ProcessedIsDurable'
  BY <1>1, <1>3, <1>4 DEF InboxInv, ProcessedIsDurable, ledgerVars
<1>10. RowsInLastLoop' /\ PersistCoversDrain' /\ DrainIsDelivered'
  BY <1>1, <1>5 DEF RowsInLastLoop, PersistCoversDrain, DrainIsDelivered
<1>11. DrainIsUnfailed'
  BY <1>1, <1>3 DEF InboxInv, TypeOK, DrainTypeOK, DrainIsUnfailed
<1> QED BY <1>3, <1>7, <1>8, <1>9, <1>10, <1>11 DEF InboxInv, TypeOK

\* In the mark loop all records of the batch are delivered; in the catch block
\* nothing is claimed of the batches any more.
LEMMA AppendStateInv ==
  ASSUME InboxInv, NEW b \in DOMAIN state, AppendProcessed(b) \/ AppendFailed(b)
  PROVE  InboxInv'
<1>1. /\ \/ phase = "mark" /\ state' = [state EXCEPT ![b] = "processed"]
         \/ phase = "fail" /\ state' = [state EXCEPT ![b] = "failed"]
      /\ b \in rows /\ rows' = rows \ {b}
      /\ UNCHANGED <<apiVars, phase, hist, pend, todo, ledgerVars, faults, readFaults>>
  BY DEF AppendProcessed, AppendFailed, IsNextRow
<1>2. ApiTypeOK /\ "failed" \in States /\ "processed" \in States /\ b \in pend
  BY <1>1 DEF InboxInv, TypeOK, DrainTypeOK, States
<1>3. /\ ApiTypeOK' /\ DOMAIN state' = DOMAIN state
      /\ \A c \in DOMAIN state : c # b => state'[c] = state[c]
      /\ \/ phase = "mark" /\ state'[b] = "processed"
         \/ phase = "fail" /\ state'[b] = "failed"
  <2>1. CASE phase = "mark" /\ state' = [state EXCEPT ![b] = "processed"]
    BY <1>1, <1>2, <2>1, StatusUpdate
  <2>2. CASE phase = "fail" /\ state' = [state EXCEPT ![b] = "failed"]
    BY <1>1, <1>2, <2>2, StatusUpdate
  <2> QED BY <1>1, <2>1, <2>2
<1>4. RecordIds' = RecordIds /\ \A c : RecordsOf(c)' = RecordsOf(c)
  BY <1>1, RecordsStable DEF apiVars
<1>5. DrainTypeOK'
  BY <1>1, <1>3, <1>4 DEF InboxInv, TypeOK, DrainTypeOK
<1>6. LedgerTypeOK'
  BY <1>1, <1>3, <1>4 DEF InboxInv, TypeOK, LedgerTypeOK, ledgerVars
<1>7. ProcessedIsDurable'
  BY <1>1, <1>2, <1>3, <1>4
  DEF InboxInv, ProcessedIsDurable, DrainIsDelivered, Delivered, ledgerVars
<1>8. RowsInLastLoop' /\ PersistCoversDrain' /\ DrainIsDelivered'
  BY <1>1, <1>4 DEF InboxInv, RowsInLastLoop, PersistCoversDrain, DrainIsDelivered, Delivered,
     ledgerVars
<1>9. DrainIsUnfailed'
  BY <1>1, <1>3 DEF InboxInv, TypeOK, DrainTypeOK, DrainIsUnfailed
<1> QED BY <1>3, <1>5, <1>6, <1>7, <1>8, <1>9 DEF InboxInv, TypeOK

-----------------------------------------------------------------------------
(* The steps that write the ledger.                                        *)

\* Rows are only added, and the worker stays in its loop.
LEMMA LedgerStep ==
  ASSUME InboxInv, UNCHANGED <<apiVars, state, phase, hist, pend, rows, faults, readFaults>>,
         todo' \subseteq todo, deliveries \subseteq deliveries',
         phase = "persist" => \A r \in todo \ todo' : \E d \in deliveries' : d.rec = r,
         LedgerTypeOK'
  PROVE  InboxInv'
<1>1. RecordIds' = RecordIds /\ \A b : RecordsOf(b)' = RecordsOf(b)
  BY RecordsStable DEF apiVars
<1>2. ApiTypeOK' /\ DrainTypeOK' /\ RowsInLastLoop' /\ DrainIsUnfailed'
  BY <1>1 DEF InboxInv, TypeOK, ApiTypeOK, DrainTypeOK, RowsInLastLoop, DrainIsUnfailed, apiVars
<1>3. ProcessedIsDurable'
  BY <1>1 DEF InboxInv, ProcessedIsDurable
<1>4. PersistCoversDrain' /\ DrainIsDelivered'
  BY <1>1 DEF InboxInv, PersistCoversDrain, DrainIsDelivered, Delivered
<1> QED BY <1>2, <1>3, <1>4 DEF InboxInv, TypeOK

\* One record: its delivery, its logical event, its fact.
LEMMA PersistRecordInv ==
  ASSUME InboxInv, NEW r \in todo, PersistRecord(r)
  PROVE  InboxInv'
<1> DEFINE d == Decision(r, hist \cup pend)
<1>1. d.rec = r
  BY DecisionRec
<1>2. /\ UNCHANGED <<apiVars, state, phase, hist, pend, rows, attr, late, lookups, members,
                     faults, readFaults>>
      /\ todo' = todo \ {r} /\ deliveries' = deliveries \cup {d}
      /\ logical' = logical \/ logical' = [logical EXCEPT ![Rec(r).event] = r]
      /\ fact' = fact \/ fact' = [fact EXCEPT ![Inst(r)] = Rec(r).event]
  BY DEF PersistRecord
<1> HIDE DEF d
<1>3. r \in RecordIds /\ ApiTypeOK /\ LedgerTypeOK
  BY DEF InboxInv, TypeOK, DrainTypeOK
<1>4. Rec(r).event \in Events
  BY <1>3, RecordEvent
<1>5. RecordIds' = RecordIds
  BY <1>2, RecordsStable DEF apiVars
<1>6. LedgerTypeOK'
  <2>1. logical' \in [Events -> RecordIds \cup {None}]
    BY <1>2, <1>3 DEF LedgerTypeOK
  <2>2. fact' \in [Installs -> Events \cup {None}]
    BY <1>2, <1>3, <1>4 DEF LedgerTypeOK
  <2> QED BY <1>1, <1>2, <1>3, <1>5, <2>1, <2>2 DEF LedgerTypeOK
<1> QED BY <1>1, <1>2, <1>6, LedgerStep

\* The attribution rows, the superseding rows, the lookups and the batch members.
LEMMA PersistOthersInv ==
  ASSUME InboxInv,
         \/ \E r \in todo : PersistAttribution(r) \/ PersistLate(r) \/ QueueLookup(r)
         \/ \E b \in DOMAIN state : LinkRecords(b)
  PROVE  InboxInv'
<1>1. /\ UNCHANGED <<apiVars, state, phase, hist, pend, rows, deliveries, logical, fact,
                     faults, readFaults>>
      /\ todo' \subseteq todo /\ phase # "persist"
  BY DEF PersistAttribution, PersistLate, QueueLookup, LinkRecords, drainVars
<1>2. RecordIds' = RecordIds /\ todo \subseteq RecordIds /\ LedgerTypeOK
  BY <1>1, RecordsStable DEF apiVars, InboxInv, TypeOK, DrainTypeOK
<1>3. LedgerTypeOK'
  <2>1. ASSUME NEW r \in todo, PersistAttribution(r) PROVE LedgerTypeOK'
    <3>1. \/ attr' = attr
          \/ attr' = [s \in DOMAIN attr \cup {r} |->
                        IF s = r THEN Reason(r, hist \cup pend) ELSE attr[s]]
      BY <2>1 DEF PersistAttribution
    <3>2. DOMAIN attr' \subseteq RecordIds /\ \A s \in DOMAIN attr' : attr'[s] \in Reasons
      BY <1>2, <3>1, ReasonType DEF LedgerTypeOK
    <3> QED BY <1>1, <1>2, <2>1, <3>2 DEF LedgerTypeOK, PersistAttribution
  <2>2. ASSUME NEW r \in todo, PersistLate(r) \/ QueueLookup(r) PROVE LedgerTypeOK'
    BY <1>1, <1>2, <2>2 DEF LedgerTypeOK, PersistLate, QueueLookup
  <2>3. ASSUME NEW b \in DOMAIN state, LinkRecords(b) PROVE LedgerTypeOK'
    BY <1>1, <1>2, <2>3 DEF LedgerTypeOK, LinkRecords
  <2> QED BY <2>1, <2>2, <2>3
<1> QED BY <1>1, <1>3, LedgerStep

-----------------------------------------------------------------------------
(* The invariant and what follows from it.                                 *)

\* An empty inbox.
LEMMA InitInboxInv == Init => InboxInv
<1> SUFFICES ASSUME Init PROVE InboxInv
  OBVIOUS
<1>1. ApiTypeOK
  BY DEF Init, ApiTypeOK
<1>2. DrainTypeOK
  BY BoundsAssumption DEF Init, DrainTypeOK, Phases
<1>3. LedgerTypeOK
  BY DEF Init, LedgerTypeOK
<1>4. ProcessedIsDurable /\ RowsInLastLoop /\ PersistCoversDrain /\ DrainIsDelivered
      /\ DrainIsUnfailed
  BY DEF Init, ProcessedIsDurable, RowsInLastLoop, PersistCoversDrain, DrainIsDelivered,
     DrainIsUnfailed
<1> QED BY <1>1, <1>2, <1>3, <1>4 DEF InboxInv, TypeOK

\* A stuttering step.
LEMMA StutterInboxInv == InboxInv /\ UNCHANGED vars => InboxInv'
<1> SUFFICES ASSUME InboxInv, UNCHANGED vars PROVE InboxInv'
  OBVIOUS
<1>1. UNCHANGED <<apiVars, state, phase, hist, pend, todo, rows, ledgerVars, faults, readFaults>>
  BY DEF vars, drainVars
<1>2. RecordIds' = RecordIds
  BY <1>1, RecordsStable DEF apiVars
<1>3. LedgerTypeOK'
  BY <1>1, <1>2 DEF InboxInv, TypeOK, LedgerTypeOK, ledgerVars
<1> QED BY <1>1, <1>3, LedgerStep DEF ledgerVars

\* One case per action of the API, the drain and the faults.
LEMMA NextInboxInv == InboxInv /\ [Next]_vars => InboxInv'
<1> SUFFICES ASSUME InboxInv, [Next]_vars PROVE InboxInv'
  OBVIOUS
<1>1. CASE Api
  BY <1>1, ReceiveInv, InsertInv, CommitAbortInv DEF Api
<1>2. CASE Drain
  BY <1>2, SelectInv, EvaluateInv, NextLoopInv, LeaveLoopInv, DecodeFailureInv, PersistOthersInv,
     AppendStateInv, PersistRecordInv DEF Drain
<1>3. CASE Faults
  BY <1>3, DecodeFailureInv, LeaveLoopInv DEF Faults
<1>4. CASE UNCHANGED vars
  BY <1>4, StutterInboxInv
<1> QED BY <1>1, <1>2, <1>3, <1>4 DEF Next

\* What the drain (processSdkInbox) has written of its batches follows from its place in
\* its loops, for any batches, bodies and faults.
THEOREM InboxInvariant == Spec => []InboxInv
  BY InitInboxInv, NextInboxInv, PTL DEF Spec

\* The inbox, the drain and the ledger are well typed in every reachable state.
THEOREM InboxIsTyped == Spec => []TypeOK
<1>1. InboxInv => TypeOK
  BY DEF InboxInv
<1> QED BY <1>1, InboxInvariant, PTL

\* A processed batch has all its records in the ledger, however the drains that
\* processed it were interrupted.
THEOREM ProcessedBatchesAreDurable == Spec => []ProcessedIsDurable
<1>1. InboxInv => ProcessedIsDurable
  BY DEF InboxInv
<1> QED BY <1>1, InboxInvariant, PTL

\* Deliveries and logical events are written one record at a time.
LEMMA OnlyPersistRecord ==
  ASSUME [Next]_vars, deliveries' # deliveries \/ logical' # logical
  PROVE  \E r \in todo : PersistRecord(r)
<1>1. CASE Drain
  BY <1>1 DEF Drain, Select, Evaluate, NextLoop, Finish, LinkRecords, AppendProcessed,
     AppendFailed, PersistConflict, PersistAttribution, PersistLate, QueueLookup, ledgerVars
<1>2. CASE Api \/ Faults \/ UNCHANGED vars
  BY <1>2 DEF Api, Receive, Insert, Commit, Abort, Faults, LoseBody, TransactionFails, Crash,
      ledgerVars, vars
<1> QED BY <1>1, <1>2 DEF Next

\* Faults of the payload store are counted and never forgotten.
LEMMA BodyKept ==
  ASSUME InboxInv, readFaults' = 0, NEW b, LoseBody(b)
  PROVE  FALSE
<1>1. readFaults \in Nat
  BY BoundsAssumption DEF InboxInv, TypeOK, DrainTypeOK
<1> QED BY <1>1 DEF LoseBody

\* What is in the ledger stays there as it is.
LEMMA LedgerGrows ==
  ASSUME InboxInv, [Next]_vars
  PROVE  /\ deliveries \subseteq deliveries' /\ late \subseteq late' /\ lookups \subseteq lookups'
         /\ \A e \in Events : logical[e] # None => logical'[e] = logical[e]
         /\ \A i \in Installs : fact[i] # None => fact'[i] = fact[i]
         /\ \A r \in DOMAIN attr : r \in DOMAIN attr' /\ attr'[r] = attr[r]
<1> DEFINE Adds ==
      /\ deliveries \subseteq deliveries' /\ late \subseteq late' /\ lookups \subseteq lookups'
      /\ \A e \in Events : logical[e] # None => logical'[e] = logical[e]
      /\ \A i \in Installs : fact[i] # None => fact'[i] = fact[i]
      /\ \A r \in DOMAIN attr : r \in DOMAIN attr' /\ attr'[r] = attr[r]
<1>1. CASE UNCHANGED <<deliveries, logical, fact, attr, late, lookups>>
  BY <1>1
<1>2. ASSUME NEW r \in todo, PersistRecord(r) PROVE Adds
  <2> DEFINE d == Decision(r, hist \cup pend)
             new == d.status = "accepted" /\ d.resolution = "unique"
  <2>1. /\ deliveries' = deliveries \cup {d} /\ attr' = attr /\ late' = late /\ lookups' = lookups
        /\ logical' = IF new /\ logical[Rec(r).event] = None
                      THEN [logical EXCEPT ![Rec(r).event] = r] ELSE logical
        /\ fact' = IF new /\ Rec(r).kind = "install"
                   THEN [fact EXCEPT ![Inst(r)] = Rec(r).event] ELSE fact
        /\ new /\ Rec(r).kind = "install" => fact[Inst(r)] \in {None, Rec(r).event}
    BY <1>2 DEF PersistRecord, FactConflict
  <2> HIDE DEF d, new
  <2>2. logical \in [Events -> RecordIds \cup {None}] /\ fact \in [Installs -> Events \cup {None}]
    BY DEF InboxInv, TypeOK, LedgerTypeOK
  <2>3. \A e \in Events : logical[e] # None => logical'[e] = logical[e]
    BY <2>1, <2>2
  <2>4. \A i \in Installs : fact[i] # None => fact'[i] = fact[i]
    BY <2>1, <2>2
  <2> QED BY <2>1, <2>3, <2>4
<1>3. ASSUME NEW r \in todo, PersistAttribution(r) \/ PersistLate(r) \/ QueueLookup(r) PROVE Adds
  BY <1>3 DEF PersistAttribution, PersistLate, QueueLookup
<1>4. CASE Api \/ Faults \/ UNCHANGED vars
  BY <1>4, <1>1 DEF Api, Receive, Insert, Commit, Abort, Faults, LoseBody, TransactionFails,
     Crash, ledgerVars, vars
<1>5. CASE Drain
  BY <1>5, <1>1, <1>2, <1>3 DEF Drain, Select, Evaluate, NextLoop, Finish, LinkRecords,
     AppendProcessed, AppendFailed, PersistConflict, ledgerVars
<1> QED BY <1>4, <1>5 DEF Next

\* Deliveries, logical events, facts and original attributions, once committed,
\* are what they are.
THEOREM LedgerRowsAreNeverRewritten == Spec => LedgerIsAppendOnly
<1> DEFINE Adds ==
      /\ deliveries \subseteq deliveries'
      /\ \A e \in Events : logical[e] # None => logical'[e] = logical[e]
      /\ \A i \in Installs : fact[i] # None => fact'[i] = fact[i]
      /\ \A r \in DOMAIN attr : r \in DOMAIN attr' /\ attr'[r] = attr[r]
<1>1. InboxInv /\ [Next]_vars => [Adds]_vars
  BY LedgerGrows
<1>2. Spec => [][Adds]_vars
  BY <1>1, InboxInvariant, PTL DEF Spec
<1> QED BY <1>2 DEF LedgerIsAppendOnly

-----------------------------------------------------------------------------
(* The order of the records.                                               *)

\* A set of naturals has a least one.
LEMMA LeastNat ==
  ASSUME NEW B, B \subseteq Nat, B # {}
  PROVE  \E b \in B : \A c \in B : b <= c
<1> DEFINE Less == {ss \in Nat \X Nat : ss[1] < ss[2]}
<1>1. IsWellFoundedOn(Less, Nat)
  BY NatLessThanWellFounded, Zenon DEF OpToRel
<1>2. PICK b \in B : \A c \in B : <<c, b>> \notin Less
  BY <1>1, WFMin
<1>3. \A c \in B : b <= c
  <2> SUFFICES ASSUME NEW c \in B, ~(b <= c) PROVE FALSE
    OBVIOUS
  <2>1. c \in Nat /\ b \in Nat /\ c < b
    OBVIOUS
  <2>2. <<c, b>> \in Nat \X Nat /\ <<c, b>>[1] = c /\ <<c, b>>[2] = b
    BY <2>1
  <2>3. <<c, b>> \in Less
    BY <2>1, <2>2
  <2> QED BY <1>2, <2>3
<1> QED BY <1>3

\* The rows of the inbox and their numbers.
LEMMA InboxRows ==
  ASSUME ApiTypeOK, NEW b \in DOMAIN inbox
  PROVE  /\ b \in Nat /\ b <= Len(inbox) /\ b >= 1 /\ Len(inbox) \in Nat
         /\ DOMAIN inbox = 1 .. Len(inbox)
         /\ inbox[b].at \in Nat
         /\ \E body \in Bodies : inbox[b].inst = body.inst /\ inbox[b].recs \in {x.recs : x \in Bodies}
         /\ Len(inbox[b].recs) \in Nat
<1>1. inbox \in Seq(BatchRows)
  BY DEF ApiTypeOK
<1>2. inbox[b] \in BatchRows /\ DOMAIN inbox = 1 .. Len(inbox) /\ Len(inbox) \in Nat
  BY <1>1
<1>3. inbox[b].at \in Nat /\ inbox[b].inst \in {x.inst : x \in Bodies} /\ inbox[b].recs \in {x.recs : x \in Bodies}
  BY <1>2 DEF BatchRows
<1>4. Len(inbox[b].recs) \in Nat
  BY <1>3, BodiesAssumption
<1> QED BY <1>2, <1>3, <1>4

\* A record is a batch and an index in its body.
LEMMA RecordParts ==
  ASSUME ApiTypeOK, NEW r \in RecordIds
  PROVE  /\ r[1] \in DOMAIN inbox /\ r[1] \in Nat /\ r[2] \in Nat
         /\ r = <<r[1], r[2]>>
         /\ r \in RecordsOf(r[1])
         /\ inbox[r[1]].at \in Nat
<1>1. PICK b \in DOMAIN inbox : r \in RecordsOf(b)
  BY DEF RecordIds
<1>2. r[1] = b /\ r[2] \in 1 .. Len(inbox[b].recs) /\ r = <<r[1], r[2]>>
  BY <1>1 DEF RecordsOf
<1>3. Len(inbox[b].recs) \in Nat /\ b \in Nat /\ inbox[b].at \in Nat
  BY InboxRows
<1> QED BY <1>1, <1>2, <1>3

\* The records of some batches.
LEMMA RecordsInBatches ==
  ASSUME ApiTypeOK, NEW D, D \subseteq DOMAIN inbox
  PROVE  \A r : r \in RecordsIn(D) <=> r \in RecordIds /\ r[1] \in D
<1>1. ASSUME NEW r \in RecordsIn(D) PROVE r \in RecordIds /\ r[1] \in D
  <2>1. PICK b \in D : r \in RecordsOf(b)
    BY DEF RecordsIn
  <2>2. r[1] = b
    BY <2>1 DEF RecordsOf
  <2> QED BY <2>1, <2>2 DEF RecordIds
<1>2. ASSUME NEW r \in RecordIds, r[1] \in D PROVE r \in RecordsIn(D)
  BY <1>2, RecordParts DEF RecordsIn
<1> QED BY <1>1, <1>2

\* inbox_seq and index, the order in which records were inserted.
InSeq(r, s) == r[1] < s[1] \/ (r[1] = s[1] /\ r[2] < s[2])

\* Without overlapping requests that is the order of receipt.
LEMMA BeforeIsInSeq ==
  ASSUME ApiTypeOK, ReceivedInOrder, NEW r \in RecordIds, NEW s \in RecordIds
  PROVE  Before(r, s) <=> InSeq(r, s)
<1>1. /\ r[1] \in DOMAIN inbox /\ s[1] \in DOMAIN inbox /\ r[1] \in Nat /\ s[1] \in Nat
      /\ inbox[r[1]].at \in Nat /\ inbox[s[1]].at \in Nat
  BY RecordParts
<1>2. r[1] < s[1] => inbox[r[1]].at < inbox[s[1]].at
  BY <1>1 DEF ReceivedInOrder
<1>3. s[1] < r[1] => inbox[s[1]].at < inbox[r[1]].at
  BY <1>1 DEF ReceivedInOrder
<1> QED BY <1>1, <1>2, <1>3 DEF Before, InSeq

\* It is a strict total order.
LEMMA InSeqOrder ==
  ASSUME ApiTypeOK
  PROVE  /\ \A r, s \in RecordIds : r = s \/ InSeq(r, s) \/ InSeq(s, r)
         /\ \A r, s \in RecordIds : InSeq(r, s) => ~InSeq(s, r) /\ r # s
         /\ \A r, s, t \in RecordIds : InSeq(r, s) /\ InSeq(s, t) => InSeq(r, t)
         /\ \A r, s \in RecordIds : InSeq(r, s) => r[1] <= s[1]
         /\ \A r, s \in RecordIds : SeqAtOrAfter(r, s) <=> ~InSeq(r, s)
<1>1. \A r \in RecordIds : r[1] \in Nat /\ r[2] \in Nat /\ r = <<r[1], r[2]>>
  BY RecordParts
<1>2. ASSUME NEW r \in RecordIds, NEW s \in RecordIds, ~InSeq(r, s), ~InSeq(s, r) PROVE r = s
  <2>1. r[1] = s[1] /\ r[2] = s[2]
    BY <1>1, <1>2 DEF InSeq
  <2> QED BY <1>1, <2>1
<1>3. ASSUME NEW r \in RecordIds, NEW s \in RecordIds, InSeq(r, s) PROVE ~InSeq(s, r) /\ r # s /\ r[1] <= s[1]
  BY <1>1, <1>3 DEF InSeq
<1>4. ASSUME NEW r \in RecordIds, NEW s \in RecordIds, NEW t \in RecordIds, InSeq(r, s), InSeq(s, t)
      PROVE InSeq(r, t)
  BY <1>1, <1>4 DEF InSeq
<1>5. ASSUME NEW r \in RecordIds, NEW s \in RecordIds PROVE SeqAtOrAfter(r, s) <=> ~InSeq(r, s)
  BY <1>1 DEF InSeq, SeqAtOrAfter
<1> QED BY <1>2, <1>3, <1>4, <1>5

\* Some records have a first one among them.
LEMMA FirstRecord ==
  ASSUME ApiTypeOK, NEW S, S \subseteq RecordIds, S # {}
  PROVE  \E s \in S : \A t \in S : t = s \/ InSeq(s, t)
<1>1. \A r \in S : r[1] \in Nat /\ r[2] \in Nat
  BY RecordParts
<1> DEFINE B == {r[1] : r \in S}
<1>2. PICK b \in B : \A c \in B : b <= c
  BY <1>1, LeastNat
<1> DEFINE I == {r[2] : r \in {x \in S : x[1] = b}}
<1>3. PICK i \in I : \A j \in I : i <= j
  <2>1. I # {} /\ I \subseteq Nat
    BY <1>1, <1>2
  <2> QED BY <2>1, LeastNat
<1>4. PICK s \in S : s[1] = b /\ s[2] = i
  BY <1>3
<1>5. ASSUME NEW t \in S PROVE ~InSeq(t, s)
  <2>1. b <= t[1]
    BY <1>2
  <2>2. t[1] = b => i <= t[2]
    BY <1>3
  <2> QED BY <1>1, <1>4, <2>1, <2>2 DEF InSeq
<1> QED BY <1>4, <1>5, InSeqOrder

\* And a last one.
LEMMA LastRecord ==
  ASSUME ApiTypeOK, NEW S, S \subseteq RecordIds, S # {}
  PROVE  \E s \in S : \A t \in S : t = s \/ InSeq(t, s)
<1>1. \A r \in S : /\ r[1] \in Nat /\ r[2] \in Nat /\ r[1] <= Len(inbox) /\ Len(inbox) \in Nat
                   /\ r[1] \in DOMAIN inbox /\ r[2] <= Len(inbox[r[1]].recs)
                   /\ Len(inbox[r[1]].recs) \in Nat
  <2> SUFFICES ASSUME NEW r \in S
               PROVE /\ r[1] \in Nat /\ r[2] \in Nat /\ r[1] <= Len(inbox) /\ Len(inbox) \in Nat
                     /\ r[1] \in DOMAIN inbox /\ r[2] <= Len(inbox[r[1]].recs)
                     /\ Len(inbox[r[1]].recs) \in Nat
    OBVIOUS
  <2>1. r[1] \in Nat /\ r[2] \in Nat /\ r[1] \in DOMAIN inbox /\ r \in RecordsOf(r[1])
    BY RecordParts
  <2>2. r[2] \in 1 .. Len(inbox[r[1]].recs)
    BY <2>1 DEF RecordsOf
  <2> QED BY <2>1, <2>2, InboxRows
<1> DEFINE B == {Len(inbox) - r[1] : r \in S}
<1>2. PICK n \in B : \A m \in B : n <= m
  <2>1. B \subseteq Nat /\ B # {}
    BY <1>1
  <2> QED BY <2>1, LeastNat
<1>3. PICK x \in S : n = Len(inbox) - x[1]
  BY <1>2
<1>4. ASSUME NEW t \in S PROVE t[1] <= x[1]
  <2>1. Len(inbox) - t[1] \in B
    OBVIOUS
  <2>2. Len(inbox) - x[1] <= Len(inbox) - t[1]
    BY <1>2, <1>3, <2>1
  <2>3. t[1] \in Nat /\ x[1] \in Nat /\ Len(inbox) \in Nat
    BY <1>1
  <2> QED BY <2>2, <2>3
<1> DEFINE top == Len(inbox[x[1]].recs)
           I == {top - r[2] : r \in {y \in S : y[1] = x[1]}}
<1>5. PICK i \in I : \A j \in I : i <= j
  <2>1. top - x[2] \in I
    OBVIOUS
  <2>2. ASSUME NEW j \in I PROVE j \in Nat
    <3>1. PICK r \in S : r[1] = x[1] /\ j = top - r[2]
      OBVIOUS
    <3>2. top \in Nat /\ r[2] \in Nat /\ r[2] <= top
      BY <1>1, <3>1
    <3> HIDE DEF top
    <3> QED BY <3>1, <3>2
  <2> HIDE DEF I
  <2> QED BY <2>1, <2>2, LeastNat
<1>6. PICK s \in S : s[1] = x[1] /\ i = top - s[2]
  BY <1>5
<1>7. ASSUME NEW t \in S PROVE ~InSeq(s, t)
  <2>1. t[1] <= s[1]
    BY <1>4, <1>6
  <2>2. t[1] = s[1] => top - s[2] <= top - t[2]
    BY <1>5, <1>6
  <2>3. top \in Nat /\ s[2] \in Nat /\ t[2] \in Nat
    BY <1>1
  <2> HIDE DEF top
  <2> QED BY <1>1, <1>6, <2>1, <2>2, <2>3 DEF InSeq
<1> QED BY <1>6, <1>7, InSeqOrder

-----------------------------------------------------------------------------
(* What evaluate() decides, and when a decision depends on what came later. *)

\* The records of a batch that reach the evaluation.
LEMMA ValidRecords ==
  ASSUME ApiTypeOK, NEW D, D \subseteq DOMAIN inbox
  PROVE  /\ \A r : r \in Valid(D) <=> r \in RecordIds /\ r[1] \in D /\ Rec(r).kind # "schema_invalid"
         /\ \A inst, w : w \in Withdrawals(inst, D) <=>
               w \in RecordIds /\ w[1] \in D /\ Inst(w) = inst /\ Rec(w).kind = "withdrawal"
<1>1. \A r : r \in RecordsIn(D) <=> r \in RecordIds /\ r[1] \in D
  BY RecordsInBatches
<1>2. ASSUME NEW inst
      PROVE  \A w : w \in RecordsIn({b \in D : inbox[b].inst = inst}) <=>
                    w \in RecordIds /\ w[1] \in D /\ inbox[w[1]].inst = inst
  <2> DEFINE E == {b \in D : inbox[b].inst = inst}
  <2>1. E \subseteq DOMAIN inbox
    OBVIOUS
  <2>2. \A w : w \in RecordsIn(E) <=> w \in RecordIds /\ w[1] \in E
    BY <2>1, RecordsInBatches
  <2> QED BY <2>2
<1>3. \A inst, w : w \in Withdrawals(inst, D) <=>
               w \in RecordIds /\ w[1] \in D /\ Inst(w) = inst /\ Rec(w).kind = "withdrawal"
  <2> SUFFICES ASSUME NEW inst, NEW w
               PROVE  w \in Withdrawals(inst, D) <=>
                        w \in RecordIds /\ w[1] \in D /\ Inst(w) = inst /\ Rec(w).kind = "withdrawal"
    OBVIOUS
  <2>1. w \in RecordsIn({b \in D : inbox[b].inst = inst}) <=>
          w \in RecordIds /\ w[1] \in D /\ inbox[w[1]].inst = inst
    BY <1>2
  <2>2. Inst(w) = inbox[w[1]].inst
    BY DEF Inst
  <2> QED BY <2>1, <2>2 DEF Withdrawals
<1> QED BY <1>1, <1>3 DEF Valid

\* A larger view has no fewer withdrawals.
LEMMA WithdrawalsGrow ==
  ASSUME ApiTypeOK, NEW C, NEW D, D \subseteq C, C \subseteq DOMAIN inbox, NEW inst
  PROVE  Withdrawals(inst, D) \subseteq Withdrawals(inst, C)
<1>1. \A v \in Withdrawals(inst, D) : v \in RecordIds /\ v[1] \in D /\ Inst(v) = inst /\ Rec(v).kind = "withdrawal"
  BY ValidRecords
<1>2. \A v : v \in RecordIds /\ v[1] \in C /\ Inst(v) = inst /\ Rec(v).kind = "withdrawal"
             => v \in Withdrawals(inst, C)
  BY ValidRecords
<1> QED BY <1>1, <1>2

\* The delivery that others are compared with is the first one of its event.
LEMMA FirstFacts ==
  ASSUME ApiTypeOK, ReceivedInOrder, NEW D, D \subseteq DOMAIN inbox, NEW r \in Valid(D)
  PROVE  /\ First(r, D) \in Valid(D)
         /\ Rec(First(r, D)).event = Rec(r).event
         /\ \A t \in Valid(D) : Rec(t).event = Rec(r).event => t = First(r, D) \/ InSeq(First(r, D), t)
<1> DEFINE S == {s \in Valid(D) : Rec(s).event = Rec(r).event}
<1>1. S \subseteq RecordIds /\ Valid(D) \subseteq RecordIds
  BY ValidRecords
<1>2. PICK s \in S : \A t \in S : t = s \/ InSeq(s, t)
  BY <1>1, FirstRecord
<1>3. /\ s \in Valid(D) /\ Rec(s).event = Rec(r).event
      /\ \A t \in Valid(D) : Rec(t).event = Rec(r).event => t = s \/ Before(s, t)
  BY <1>1, <1>2, BeforeIsInSeq
<1>4. /\ First(r, D) \in Valid(D) /\ Rec(First(r, D)).event = Rec(r).event
      /\ \A t \in Valid(D) : Rec(t).event = Rec(r).event => t = First(r, D) \/ Before(First(r, D), t)
  BY <1>3 DEF First
<1> QED BY <1>1, <1>4, BeforeIsInSeq

\* That delivery is known by being first.
LEMMA FirstIs ==
  ASSUME ApiTypeOK, ReceivedInOrder, NEW D, D \subseteq DOMAIN inbox, NEW r \in Valid(D),
         NEW s \in Valid(D), Rec(s).event = Rec(r).event,
         \A t \in Valid(D) : Rec(t).event = Rec(r).event => t = s \/ InSeq(s, t)
  PROVE  First(r, D) = s
<1>1. First(r, D) \in RecordIds /\ s \in RecordIds
  BY FirstFacts, ValidRecords
<1>2. First(r, D) = s \/ (InSeq(s, First(r, D)) /\ InSeq(First(r, D), s))
  BY FirstFacts
<1> QED BY <1>1, <1>2, InSeqOrder

\* The withdrawal that withdrawalsFor keeps.
LEMMA LastFacts ==
  ASSUME ApiTypeOK, ReceivedInOrder, NEW D, D \subseteq DOMAIN inbox, NEW inst,
         Withdrawals(inst, D) # {}
  PROVE  /\ LastWithdrawal(inst, D) \in Withdrawals(inst, D)
         /\ \A v \in Withdrawals(inst, D) :
               v = LastWithdrawal(inst, D) \/ InSeq(v, LastWithdrawal(inst, D))
<1>1. Withdrawals(inst, D) \subseteq RecordIds
  BY ValidRecords
<1>2. PICK w \in Withdrawals(inst, D) : \A v \in Withdrawals(inst, D) : v = w \/ InSeq(v, w)
  BY <1>1, LastRecord
<1>3. \A v \in Withdrawals(inst, D) : v = w \/ Before(v, w)
  BY <1>1, <1>2, BeforeIsInSeq
<1>4. /\ LastWithdrawal(inst, D) \in Withdrawals(inst, D)
      /\ \A v \in Withdrawals(inst, D) :
            v = LastWithdrawal(inst, D) \/ Before(v, LastWithdrawal(inst, D))
  BY <1>3 DEF LastWithdrawal
<1> QED BY <1>1, <1>4, BeforeIsInSeq

\* That withdrawal is known by being last.
LEMMA LastIs ==
  ASSUME ApiTypeOK, ReceivedInOrder, NEW D, D \subseteq DOMAIN inbox, NEW inst,
         NEW w \in Withdrawals(inst, D), \A v \in Withdrawals(inst, D) : v = w \/ InSeq(v, w)
  PROVE  LastWithdrawal(inst, D) = w
<1>1. LastWithdrawal(inst, D) \in RecordIds /\ w \in RecordIds
  BY LastFacts, ValidRecords
<1>2. LastWithdrawal(inst, D) = w \/ (InSeq(w, LastWithdrawal(inst, D)) /\ InSeq(LastWithdrawal(inst, D), w))
  BY LastFacts
<1> QED BY <1>1, <1>2, InSeqOrder

\* When all withdrawals of the installation are one, that is the one.
LEMMA SoleWithdrawalIsLast ==
  ASSUME NEW D, NEW inst, NEW w \in Withdrawals(inst, D), \A v \in Withdrawals(inst, D) : v = w
  PROVE  LastWithdrawal(inst, D) = w
  BY DEF LastWithdrawal

\* What decide() says of a record, without its fields.
LEMMA DecisionFacts ==
  ASSUME NEW D, NEW r, Rec(r).kind # "schema_invalid"
  PROVE  /\ Decision(r, D).rec = r
         /\ Decision(r, D).status = "consent_withdrawn" <=> ConsentWithdrawn(r, D)
         /\ Decision(r, D).status = "event_id_conflict" <=>
               /\ ~ConsentWithdrawn(r, D)
               /\ First(r, D) # r /\ Rec(First(r, D)).payload # Rec(r).payload
         /\ Decision(r, D).status = "accepted" <=>
               /\ ~ConsentWithdrawn(r, D)
               /\ First(r, D) = r \/ Rec(First(r, D)).payload = Rec(r).payload
         /\ Decision(r, D).resolution = "unique" <=> First(r, D) = r
         /\ Decision(r, D).status \in {"consent_withdrawn", "event_id_conflict", "accepted"}
<1>1. Decision(r, D) =
        [rec |-> r,
         status |-> IF ConsentWithdrawn(r, D) THEN "consent_withdrawn"
                    ELSE IF Resolution(r, D) = "event_id_conflict" THEN "event_id_conflict"
                    ELSE "accepted",
         resolution |-> Resolution(r, D),
         canonical |-> First(r, D)]
  BY DEF Decision
<1>2. /\ Resolution(r, D) = "unique" <=> First(r, D) = r
      /\ Resolution(r, D) = "event_id_conflict" <=>
            First(r, D) # r /\ Rec(First(r, D)).payload # Rec(r).payload
  BY DEF Resolution
<1> QED BY <1>1, <1>2

\* The records that become logical events.
LEMMA AcceptedUniqueFacts ==
  ASSUME ApiTypeOK, NEW D, D \subseteq DOMAIN inbox
  PROVE  \A r : r \in AcceptedUnique(D) <=>
            r \in Valid(D) /\ First(r, D) = r /\ ~ConsentWithdrawn(r, D)
<1>1. ASSUME NEW r \in Valid(D)
      PROVE  r \in AcceptedUnique(D) <=> First(r, D) = r /\ ~ConsentWithdrawn(r, D)
  <2>1. Rec(r).kind # "schema_invalid"
    BY ValidRecords
  <2> QED BY <2>1, DecisionFacts DEF AcceptedUnique
<1> QED BY <1>1 DEF AcceptedUnique

\* An event has at most one of them.
LEMMA AcceptedUniqueIsUnique ==
  ASSUME ApiTypeOK, ReceivedInOrder, NEW D, D \subseteq DOMAIN inbox,
         NEW r \in AcceptedUnique(D), NEW s \in AcceptedUnique(D), Rec(r).event = Rec(s).event
  PROVE  r = s
<1>1. r \in Valid(D) /\ s \in Valid(D) /\ First(r, D) = r /\ First(s, D) = s
  BY AcceptedUniqueFacts
<1>2. r \in RecordIds /\ s \in RecordIds
  BY <1>1, ValidRecords
<1>3. (r = s \/ InSeq(s, r)) /\ (s = r \/ InSeq(r, s))
  BY <1>1, FirstFacts
<1> QED BY <1>2, <1>3, InSeqOrder

\* E was seen after D: whatever it has up to a batch of both was in D already.
Follows(D, E) == \A b \in D, c \in E : c <= b => c \in D

\* A record that became a logical event is one in every later view that still has
\* it, if nothing was dropped or its installation withdrew at most once.
LEMMA AcceptedUniqueStays ==
  ASSUME ApiTypeOK, ReceivedInOrder, NEW D, NEW E, D \subseteq DOMAIN inbox, E \subseteq DOMAIN inbox,
         Follows(D, E), NEW r \in AcceptedUnique(D), r[1] \in E,
         \/ D \subseteq E
         \/ \A v, w \in Withdrawals(Inst(r), D \cup E) : v = w
         \/ Rec(r).kind \notin {"install", "custom"}
  PROVE  r \in AcceptedUnique(E)
<1>1. r \in Valid(D) /\ First(r, D) = r /\ ~ConsentWithdrawn(r, D)
  BY AcceptedUniqueFacts
<1>2. r \in RecordIds /\ r[1] \in D /\ r \in Valid(E)
  BY <1>1, ValidRecords
<1>3. ASSUME NEW t \in RecordIds, t[1] \in E, ~InSeq(r, t) PROVE t[1] \in D
  <2>1. t[1] <= r[1]
    BY <1>2, <1>3, InSeqOrder, RecordParts
  <2> QED BY <1>2, <1>3, <2>1 DEF Follows
<1>4. First(r, E) = r
  <2>1. ASSUME NEW t \in Valid(E), Rec(t).event = Rec(r).event, t # r PROVE InSeq(r, t)
    <3>1. t \in RecordIds /\ t[1] \in E
      BY ValidRecords
    <3>2. CASE t[1] \in D
      <4>1. t \in Valid(D)
        BY <3>1, <3>2, ValidRecords
      <4> QED BY <1>1, <2>1, <4>1, FirstFacts
    <3> QED BY <1>3, <3>1, <3>2
  <2> QED BY <1>2, <2>1, FirstIs
<1>5. ~ConsentWithdrawn(r, E)
  <2> SUFFICES ASSUME ConsentWithdrawn(r, E) PROVE FALSE
    OBVIOUS
  <2> DEFINE w == LastWithdrawal(Inst(r), E)
  <2>1. /\ Rec(r).kind \in {"install", "custom"} /\ Inst(r) # NoInstallation
        /\ Withdrawals(Inst(r), E) # {} /\ SeqAtOrAfter(r, w)
    BY DEF ConsentWithdrawn
  <2>2. /\ w \in Withdrawals(Inst(r), E)
        /\ \A v \in Withdrawals(Inst(r), E) : v = w \/ InSeq(v, w)
    BY <2>1, LastFacts
  <2> HIDE DEF w
  <2>3. w \in RecordIds /\ w[1] \in E /\ Inst(w) = Inst(r) /\ Rec(w).kind = "withdrawal"
    BY <2>2, ValidRecords
  <2>4. w[1] \in D
    BY <1>2, <1>3, <2>1, <2>3, InSeqOrder
  <2>5. w \in Withdrawals(Inst(r), D)
    BY <2>3, <2>4, ValidRecords
  <2>6. \A v \in Withdrawals(Inst(r), D) : v = w \/ InSeq(v, w)
    <3>1. CASE D \subseteq E
      <4>1. Withdrawals(Inst(r), D) \subseteq Withdrawals(Inst(r), E)
        BY <3>1, ValidRecords
      <4> QED BY <2>2, <4>1
    <3>2. CASE \A v, u \in Withdrawals(Inst(r), D \cup E) : v = u
      <4>1. Withdrawals(Inst(r), D) \subseteq Withdrawals(Inst(r), D \cup E)
        <5> DEFINE U == D \cup E
        <5>1. U \subseteq DOMAIN inbox /\ D \subseteq U
          OBVIOUS
        <5> HIDE DEF U
        <5>2. Withdrawals(Inst(r), D) \subseteq Withdrawals(Inst(r), U)
          BY <5>1, ValidRecords
        <5> QED BY <5>2 DEF U
      <4> QED BY <2>5, <3>2, <4>1
    <3> QED BY <2>1, <3>1, <3>2
  <2>7. LastWithdrawal(Inst(r), D) = w
    BY <2>5, <2>6, LastIs
  <2> QED BY <1>1, <2>1, <2>5, <2>7 DEF ConsentWithdrawn
<1> QED BY <1>2, <1>4, <1>5, AcceptedUniqueFacts

\* Nor does anything that arrives later change a decision, while the installation
\* withdraws at most once.
LEMMA DecisionStays ==
  ASSUME ApiTypeOK, ReceivedInOrder, NEW D, NEW E, D \subseteq E, E \subseteq DOMAIN inbox,
         Follows(D, E), NEW r \in RecordsIn(D),
         \A v, w \in Withdrawals(Inst(r), E) : v = w
  PROVE  Decision(r, E) = Decision(r, D)
<1>1. CASE Rec(r).kind = "schema_invalid"
  BY <1>1 DEF Decision
<1>2. CASE Rec(r).kind # "schema_invalid"
  <2>1. D \subseteq DOMAIN inbox /\ r \in RecordIds /\ r[1] \in D /\ r \in Valid(D) /\ r \in Valid(E)
    BY <1>2, RecordsInBatches, ValidRecords
  <2>2. ASSUME NEW t \in RecordIds, t[1] \in E, ~InSeq(r, t) PROVE t[1] \in D
    <3>1. t[1] <= r[1]
      BY <2>1, <2>2, InSeqOrder, RecordParts
    <3> QED BY <2>1, <2>2, <3>1 DEF Follows
  <2>3. First(r, E) = First(r, D)
    <3> DEFINE s == First(r, E)
    <3>1. /\ s \in Valid(E) /\ Rec(s).event = Rec(r).event
          /\ \A t \in Valid(E) : Rec(t).event = Rec(r).event => t = s \/ InSeq(s, t)
      BY <2>1, FirstFacts
    <3> HIDE DEF s
    <3>2. s \in RecordIds /\ s[1] \in E /\ Rec(s).kind # "schema_invalid"
      BY <3>1, ValidRecords
    <3>3. r = s \/ InSeq(s, r)
      BY <2>1, <3>1
    <3>4. s[1] \in D
      BY <2>1, <2>2, <3>2, <3>3, InSeqOrder
    <3>5. s \in Valid(D) /\ Valid(D) \subseteq Valid(E)
      BY <2>1, <3>2, <3>4, ValidRecords
    <3>6. First(r, D) = s
      BY <2>1, <3>1, <3>5, FirstIs
    <3> QED BY <3>6 DEF s
  <2>4. ConsentWithdrawn(r, E) <=> ConsentWithdrawn(r, D)
    <3>1. Withdrawals(Inst(r), D) \subseteq Withdrawals(Inst(r), E)
      BY <2>1, ValidRecords
    <3>2. CASE Withdrawals(Inst(r), D) # {}
      <4>1. PICK w \in Withdrawals(Inst(r), D) : TRUE
        BY <3>2
      <4>2. LastWithdrawal(Inst(r), D) = w /\ LastWithdrawal(Inst(r), E) = w
        BY <3>1, <4>1, SoleWithdrawalIsLast
      <4> QED BY <3>1, <4>1, <4>2 DEF ConsentWithdrawn
    <3>3. CASE Withdrawals(Inst(r), D) = {}
      <4> SUFFICES ASSUME ConsentWithdrawn(r, E) PROVE FALSE
        BY <3>3 DEF ConsentWithdrawn
      <4>1. PICK w \in Withdrawals(Inst(r), E) : SeqAtOrAfter(r, w)
        <5>1. PICK w \in Withdrawals(Inst(r), E) : TRUE
          BY DEF ConsentWithdrawn
        <5>2. LastWithdrawal(Inst(r), E) = w
          BY SoleWithdrawalIsLast
        <5> QED BY <5>2 DEF ConsentWithdrawn
      <4>2. w \in RecordIds /\ w[1] \in E /\ Inst(w) = Inst(r) /\ Rec(w).kind = "withdrawal"
        BY ValidRecords
      <4>3. w[1] \in D
        BY <2>1, <2>2, <4>1, <4>2, InSeqOrder
      <4>4. w \in Withdrawals(Inst(r), D)
        BY <2>1, <4>2, <4>3, ValidRecords
      <4> QED BY <3>3, <4>4
    <3> QED BY <3>2, <3>3
  <2>5. Resolution(r, E) = Resolution(r, D)
    BY <2>3 DEF Resolution
  <2> QED BY <1>2, <2>3, <2>4, <2>5 DEF Decision
<1> QED BY <1>1, <1>2

-----------------------------------------------------------------------------
(* A new row of the inbox changes no evaluation of the rows before it.      *)

\* Records and their order.
LEMMA RecordsStay ==
  ASSUME ApiTypeOK, NEW D, D \subseteq DOMAIN inbox, \A b \in D : inbox'[b] = inbox[b]
  PROVE  /\ RecordsIn(D)' = RecordsIn(D)
         /\ \A r \in RecordsIn(D) : /\ r[1] \in D /\ r \in RecordIds
                                    /\ Rec(r)' = Rec(r) /\ Inst(r)' = Inst(r)
         /\ \A r, s \in RecordsIn(D) : Before(r, s)' <=> Before(r, s)
         /\ Valid(D)' = Valid(D)
         /\ \A inst : Withdrawals(inst, D)' = Withdrawals(inst, D)
<1>1. \A b \in D : RecordsOf(b)' = RecordsOf(b)
  BY DEF RecordsOf
<1>2. RecordsIn(D)' = RecordsIn(D)
  BY <1>1 DEF RecordsIn
<1>3. \A r \in RecordsIn(D) : r[1] \in D /\ r \in RecordIds
  BY RecordsInBatches
<1>4. \A r \in RecordsIn(D) : Rec(r)' = Rec(r) /\ Inst(r)' = Inst(r)
  BY <1>3 DEF Rec, Inst
<1>5. \A r, s \in RecordsIn(D) : Before(r, s)' <=> Before(r, s)
  BY <1>3 DEF Before
<1>6. Valid(D)' = Valid(D)
  BY <1>2, <1>4 DEF Valid
<1>7. ASSUME NEW inst PROVE Withdrawals(inst, D)' = Withdrawals(inst, D)
  <2> DEFINE E == {b \in D : inbox[b].inst = inst}
  <2>1. {b \in D : inbox'[b].inst = inst} = E
    OBVIOUS
  <2>2. UNION {RecordsOf(b)' : b \in E} = UNION {RecordsOf(b) : b \in E}
    BY <1>1
  <2>3. \A r \in UNION {RecordsOf(b) : b \in E} : Rec(r)' = Rec(r)
    BY <1>4 DEF RecordsIn
  <2>4. Withdrawals(inst, D) = {w \in UNION {RecordsOf(b) : b \in E} : Rec(w).kind = "withdrawal"}
    BY DEF Withdrawals, RecordsIn
  <2>5. Withdrawals(inst, D)' = {w \in UNION {RecordsOf(b)' : b \in {c \in D : inbox'[c].inst = inst}} :
                                    Rec(w)'.kind = "withdrawal"}
    BY DEF Withdrawals, RecordsIn
  <2> HIDE DEF E
  <2> QED BY <2>1, <2>2, <2>3, <2>4, <2>5
<1> QED BY <1>2, <1>3, <1>4, <1>5, <1>6, <1>7

\* Decisions.
LEMMA DecisionsStay ==
  ASSUME ApiTypeOK, ReceivedInOrder, NEW D, D \subseteq DOMAIN inbox,
         \A b \in D : inbox'[b] = inbox[b]
  PROVE  /\ \A r \in RecordsIn(D) : Decision(r, D)' = Decision(r, D)
         /\ AcceptedUnique(D)' = AcceptedUnique(D)
<1>1. /\ RecordsIn(D)' = RecordsIn(D)
      /\ \A r \in RecordsIn(D) : Rec(r)' = Rec(r) /\ Inst(r)' = Inst(r)
      /\ \A r, s \in RecordsIn(D) : Before(r, s)' <=> Before(r, s)
      /\ Valid(D)' = Valid(D)
      /\ \A inst : Withdrawals(inst, D)' = Withdrawals(inst, D)
  BY RecordsStay
<1>2. Valid(D) \subseteq RecordsIn(D)
  BY DEF Valid
<1>3. ASSUME NEW r \in Valid(D) PROVE First(r, D)' = First(r, D) /\ First(r, D) \in Valid(D)
  <2> DEFINE s == First(r, D)
  <2>0. \A t, u \in Valid(D) : Before(t, u) <=> InSeq(t, u)
    BY BeforeIsInSeq, ValidRecords
  <2>1. /\ s \in Valid(D) /\ Rec(s).event = Rec(r).event
        /\ \A t \in Valid(D) : Rec(t).event = Rec(r).event => t = s \/ Before(s, t)
    BY FirstFacts, <2>0
  <2> HIDE DEF s
  <2>2. PICK x : x = First(r, D)'
    OBVIOUS
  <2>3. /\ x \in Valid(D)' /\ Rec(x)'.event = Rec(r)'.event
        /\ \A t \in Valid(D)' : Rec(t)'.event = Rec(r)'.event => t = x \/ Before(x, t)'
    <3>1. \E y \in Valid(D)' :
             /\ Rec(y)'.event = Rec(r)'.event
             /\ \A t \in Valid(D)' : Rec(t)'.event = Rec(r)'.event => t = y \/ Before(y, t)'
      BY <1>1, <1>2, <2>1
    <3>2. x = CHOOSE y \in Valid(D)' :
             /\ Rec(y)'.event = Rec(r)'.event
             /\ \A t \in Valid(D)' : Rec(t)'.event = Rec(r)'.event => t = y \/ Before(y, t)'
      BY <2>2 DEF First
    <3> QED BY <3>1, <3>2
  <2>4. x \in Valid(D) /\ Rec(x).event = Rec(r).event
        /\ \A t \in Valid(D) : Rec(t).event = Rec(r).event => t = x \/ Before(x, t)
    BY <1>1, <1>2, <2>3
  <2>5. x \in RecordIds /\ s \in RecordIds
    BY <2>1, <2>4, ValidRecords
  <2>6. x = s
    BY <2>0, <2>1, <2>4, <2>5, InSeqOrder
  <2> QED BY <2>1, <2>2, <2>6 DEF s
<1>4. ASSUME NEW r \in RecordsIn(D) PROVE ConsentWithdrawn(r, D)' <=> ConsentWithdrawn(r, D)
  <2> DEFINE W == Withdrawals(Inst(r), D)
             w == LastWithdrawal(Inst(r), D)
  <2>1. CASE W = {}
    BY <1>1, <2>1 DEF ConsentWithdrawn
  <2>2. CASE W # {}
    <3>0. W \subseteq RecordIds /\ \A t \in W : t \in RecordsIn(D)
      BY ValidRecords, RecordsInBatches
    <3>1. \A t, u \in W : Before(t, u) <=> InSeq(t, u)
      BY <3>0, BeforeIsInSeq
    <3>2. w \in W /\ \A v \in W : v = w \/ Before(v, w)
      BY <2>2, <3>1, LastFacts
    <3> HIDE DEF W, w
    <3>3. PICK x : x = LastWithdrawal(Inst(r), D)'
      OBVIOUS
    <3>4. Inst(r)' = Inst(r) /\ Withdrawals(Inst(r), D)' = W
      <4>1. PICK inst : inst = Inst(r) /\ inst = Inst(r)'
        BY <1>1
      <4>2. Withdrawals(inst, D)' = Withdrawals(inst, D)
        BY <1>1
      <4> QED BY <4>1, <4>2 DEF W, Withdrawals
    <3>5. x = CHOOSE y \in W : \A v \in W : v = y \/ Before(v, y)'
      BY <3>3, <3>4 DEF LastWithdrawal
    <3>6. x \in W /\ \A v \in W : v = x \/ Before(v, x)'
      BY <1>1, <3>0, <3>2, <3>5
    <3>7. x = w
      BY <1>1, <3>0, <3>1, <3>2, <3>6, InSeqOrder
    <3> QED BY <1>1, <3>3, <3>4, <3>7 DEF ConsentWithdrawn, SeqAtOrAfter, w, W
  <2> QED BY <2>1, <2>2
<1>5. ASSUME NEW r \in RecordsIn(D) PROVE Decision(r, D)' = Decision(r, D)
  <2>1. CASE Rec(r).kind = "schema_invalid"
    BY <1>1, <2>1 DEF Decision
  <2>2. CASE Rec(r).kind # "schema_invalid"
    <3>1. r \in Valid(D)
      BY <2>2 DEF Valid
    <3>2. Resolution(r, D)' = Resolution(r, D)
      BY <1>1, <1>2, <1>3, <3>1 DEF Resolution
    <3> QED BY <1>1, <1>3, <1>4, <2>2, <3>1, <3>2 DEF Decision
  <2> QED BY <2>1, <2>2
<1>6. AcceptedUnique(D)' = AcceptedUnique(D)
  BY <1>1, <1>2, <1>5 DEF AcceptedUnique
<1> QED BY <1>5, <1>6

\* What the loops of the drain are about.
LEMMA SelectionsStay ==
  ASSUME ApiTypeOK, ReceivedInOrder, NEW H, NEW P, H \cup P \subseteq DOMAIN inbox,
         \A b \in H \cup P : inbox'[b] = inbox[b]
  PROVE  /\ AnchorsOK(H \cup P)' <=> AnchorsOK(H \cup P)
         /\ \A r \in RecordsIn(H \cup P) : Reason(r, H \cup P)' = Reason(r, H \cup P)
         /\ Attributions(H, P)' = Attributions(H, P)
         /\ TokenInstalls(H, P)' = TokenInstalls(H, P)
<1> DEFINE D == H \cup P
<1>0. D \subseteq DOMAIN inbox /\ \A b \in D : inbox'[b] = inbox[b]
  OBVIOUS
<1> HIDE DEF D
<1>1. /\ AcceptedUnique(D)' = AcceptedUnique(D)
      /\ \A r \in RecordsIn(D) : Rec(r)' = Rec(r) /\ Inst(r)' = Inst(r)
  BY <1>0, DecisionsStay, RecordsStay
<1>2. AcceptedUnique(D) \subseteq RecordsIn(D)
  BY DEF AcceptedUnique, Valid
<1>3. AnchorsOK(D)' <=> AnchorsOK(D)
  BY <1>1, <1>2 DEF AnchorsOK
<1>4. \A r \in RecordsIn(D) : Clicks(r, D)' = Clicks(r, D)
  BY <1>1, <1>2 DEF Clicks
<1>5. \A r \in RecordsIn(D) : Clicks(r, D) \subseteq RecordsIn(D)
  BY <1>2 DEF Clicks
<1>6. ASSUME NEW r \in RecordsIn(D) PROVE Reason(r, D)' = Reason(r, D)
  <2>1. Clicks(r, D)' = Clicks(r, D) /\ Rec(r)' = Rec(r)
    BY <1>1, <1>4
  <2>2. (\A k \in Clicks(r, D)' : Rec(k)'.inWindow) <=> (\A k \in Clicks(r, D) : Rec(k).inWindow)
    BY <1>1, <1>4, <1>5
  <2> QED BY <2>1, <2>2 DEF Reason
<1>7. Attributions(H, P)' = Attributions(H, P)
  <2>1. Attributions(H, P) = {r \in AcceptedUnique(D) :
          /\ Rec(r).kind = "install"
          /\ \/ r[1] \in P
             \/ Reason(r, D) = "valid_install_referrer" /\ \E k \in Clicks(r, D) : k[1] \in P}
    BY DEF Attributions, D
  <2>2. Attributions(H, P)' = {r \in AcceptedUnique(D)' :
          /\ Rec(r)'.kind = "install"
          /\ \/ r[1] \in P
             \/ Reason(r, D)' = "valid_install_referrer" /\ \E k \in Clicks(r, D)' : k[1] \in P}
    BY DEF Attributions, D
  <2> QED BY <1>1, <1>2, <1>4, <1>6, <2>1, <2>2
<1>8. TokenInstalls(H, P)' = TokenInstalls(H, P)
  <2>1. TokenInstalls(H, P) = {r \in AcceptedUnique(D) : r[1] \in P /\ Rec(r).kind = "install" /\ Rec(r).token}
    BY DEF TokenInstalls, D
  <2>2. TokenInstalls(H, P)' =
          {r \in AcceptedUnique(D)' : r[1] \in P /\ Rec(r)'.kind = "install" /\ Rec(r)'.token}
    BY DEF TokenInstalls, D
  <2> QED BY <1>1, <1>2, <2>1, <2>2
<1> QED BY <1>3, <1>6, <1>7, <1>8 DEF D

-----------------------------------------------------------------------------
(* What every step leaves alone, and what the worker has seen.              *)

Failed == {b \in DOMAIN state : state[b] = "failed"}
Live == {b \in DOMAIN state : state[b] \in {"pending", "processed"}}
Draining == phase \in {"decode", "persist", "attribute", "late", "queue", "mark"}

\* The batches whose records the ledger may be about: those of the drain, or those
\* that the next drain will read.
Seen == IF Draining THEN hist \cup pend ELSE Live

\* Rows are never changed; states go one way; faults are counted.
LEMMA StepFrame ==
  ASSUME InboxInv, [Next]_vars
  PROVE  /\ DOMAIN state = DOMAIN inbox /\ DOMAIN inbox \subseteq DOMAIN inbox'
         /\ DOMAIN state' = DOMAIN inbox'
         /\ \A b \in DOMAIN inbox : inbox'[b] = inbox[b]
         /\ Committed \subseteq Committed' /\ Failed \subseteq Failed'
         /\ readFaults' = 0 => readFaults = 0
         /\ NothingFailed' => NothingFailed
         /\ ReceivedInOrder' => ReceivedInOrder
<1>1. InboxInv'
  BY NextInboxInv
<1>2. DOMAIN state = DOMAIN inbox /\ DOMAIN state' = DOMAIN inbox'
  BY <1>1 DEF InboxInv, TypeOK, ApiTypeOK
<1>3. readFaults' = 0 => readFaults = 0
  <2>1. readFaults \in Nat
    BY BoundsAssumption DEF InboxInv, TypeOK, DrainTypeOK
  <2>2. readFaults' = readFaults \/ readFaults' = readFaults + 1
    BY DEF Next, Api, Drain, Faults, Receive, Insert, Commit, Abort, Select, Evaluate,
     NextLoop, Finish, LinkRecords, AppendProcessed, AppendFailed, PersistRecord, PersistConflict,
     PersistAttribution, PersistLate, QueueLookup, LoseBody, TransactionFails, Crash, vars
  <2> QED BY <2>1, <2>2
<1>4. \/ \E q \in requests : Insert(q)
      \/ inbox' = inbox
  BY DEF Next, Api, Drain, Faults, Receive, Commit, Abort, Select, Evaluate,
     NextLoop, Finish, LinkRecords, AppendProcessed, AppendFailed, PersistRecord, PersistConflict,
     PersistAttribution, PersistLate, QueueLookup, LoseBody, TransactionFails, Crash, vars, apiVars
<1>5. DOMAIN inbox \subseteq DOMAIN inbox' /\ \A b \in DOMAIN inbox : inbox'[b] = inbox[b]
  <2>1. ASSUME NEW q \in requests, Insert(q)
        PROVE DOMAIN inbox \subseteq DOMAIN inbox' /\ \A b \in DOMAIN inbox : inbox'[b] = inbox[b]
    <3>1. inbox \in Seq(BatchRows)
      BY DEF InboxInv, TypeOK, ApiTypeOK
    <3>2. PICK row : inbox' = Append(inbox, row)
      BY <2>1 DEF Insert
    <3> QED BY <3>1, <3>2
  <2> QED BY <1>4, <2>1
<1>6. ASSUME NEW b \in DOMAIN state
      PROVE  /\ state[b] = "failed" => state'[b] = "failed"
             /\ state[b] \in {"pending", "processed"} => state'[b] \in {"pending", "processed", "failed"}
  <2>1. ApiTypeOK /\ state \in Seq(States)
    BY DEF InboxInv, TypeOK, ApiTypeOK
  <2>2. CASE \E q \in requests : Insert(q)
    BY <2>2, InsertFacts DEF InboxInv
  <2>3. ASSUME NEW c \in DOMAIN state, Commit(c) \/ Abort(c) PROVE <1>6!2
    BY <2>1, <2>3 DEF Commit, Abort
  <2>4. ASSUME NEW c \in DOMAIN state, LoseBody(c) \/ AppendFailed(c) PROVE <1>6!2
    BY <2>1, <2>4 DEF LoseBody, AppendFailed
  <2>5. ASSUME NEW c \in DOMAIN state, AppendProcessed(c) PROVE <1>6!2
    <3>1. c \in pend /\ phase = "mark" /\ state' = [state EXCEPT ![c] = "processed"]
      BY <2>5 DEF AppendProcessed, IsNextRow, InboxInv, TypeOK, DrainTypeOK
    <3>2. state[c] # "failed"
      BY <3>1 DEF InboxInv, DrainIsUnfailed
    <3> QED BY <2>1, <3>1, <3>2
  <2>6. CASE state' = state
    BY <2>6
  <2>7. CASE Api
    BY <2>7, <2>2, <2>3, <2>6 DEF Api, Receive
  <2>8. CASE Drain
    BY <2>8, <2>4, <2>5, <2>6 DEF Drain, Select, Evaluate, NextLoop, Finish, LinkRecords,
       PersistRecord, PersistConflict, PersistAttribution, PersistLate, QueueLookup
  <2>9. CASE Faults
    BY <2>9, <2>4, <2>6 DEF Faults, TransactionFails, Crash
  <2>10. CASE UNCHANGED vars
    BY <2>10, <2>6 DEF vars
  <2> QED BY <2>7, <2>8, <2>9, <2>10 DEF Next
<1>7. Committed \subseteq Committed' /\ Failed \subseteq Failed' /\ (NothingFailed' => NothingFailed)
  BY <1>2, <1>5, <1>6 DEF Committed, Failed, NothingFailed
<1>8. ReceivedInOrder' => ReceivedInOrder
  BY <1>5 DEF ReceivedInOrder
<1> QED BY <1>2, <1>3, <1>5, <1>7, <1>8

\* No step, of any interleaving, takes a failed batch out of that state.
THEOREM FailedBatchesStayFailed == Spec => FailedIsFinal
<1> DEFINE Stays == \A b \in DOMAIN state : state[b] = "failed" => state'[b] = "failed"
<1>1. InboxInv /\ [Next]_vars => [Stays]_vars
  BY StepFrame DEF Failed
<1>2. Spec => [][Stays]_vars
  BY <1>1, InboxInvariant, PTL DEF Spec
<1> QED BY <1>2 DEF FailedIsFinal

\* So records keep their contents, and withdrawals are never taken back.
LEMMA RecordFrame ==
  ASSUME InboxInv, [Next]_vars
  PROVE  /\ RecordIds \subseteq RecordIds'
         /\ \A r \in RecordIds : Rec(r)' = Rec(r) /\ Inst(r)' = Inst(r)
         /\ \A r, s \in RecordIds : Before(r, s)' <=> Before(r, s)
         /\ \A inst : WithdrawsOnce(inst)' => WithdrawsOnce(inst)
<1>1. /\ DOMAIN inbox \subseteq DOMAIN inbox' /\ \A b \in DOMAIN inbox : inbox'[b] = inbox[b]
      /\ Committed \subseteq Committed' /\ DOMAIN state = DOMAIN inbox /\ DOMAIN state' = DOMAIN inbox'
  BY StepFrame
<1>2. ApiTypeOK /\ ApiTypeOK'
  BY NextInboxInv DEF InboxInv, TypeOK
<1>3. \A b \in DOMAIN inbox : RecordsOf(b)' = RecordsOf(b)
  BY <1>1 DEF RecordsOf
<1>4. RecordIds \subseteq RecordIds'
  BY <1>1, <1>3 DEF RecordIds
<1>5. \A r \in RecordIds : r[1] \in DOMAIN inbox
  BY <1>2, RecordParts
<1>6. \A r \in RecordIds : Rec(r)' = Rec(r) /\ Inst(r)' = Inst(r)
  BY <1>1, <1>5 DEF Rec, Inst
<1>7. \A r, s \in RecordIds : Before(r, s)' <=> Before(r, s)
  BY <1>1, <1>5 DEF Before
<1>8. ASSUME NEW inst, WithdrawsOnce(inst)' PROVE WithdrawsOnce(inst)
  <2>1. Committed \subseteq DOMAIN inbox
    BY <1>1 DEF Committed
  <2>2. Withdrawals(inst, Committed)' =
          {w \in UNION {RecordsOf(b)' : b \in {c \in Committed' : inbox'[c].inst = inst}} :
             Rec(w)'.kind = "withdrawal"}
    BY DEF Withdrawals, RecordsIn
  <2>3. ASSUME NEW w \in Withdrawals(inst, Committed) PROVE w \in Withdrawals(inst, Committed)'
    <3>1. w \in RecordIds /\ w[1] \in Committed /\ Inst(w) = inst /\ Rec(w).kind = "withdrawal"
      BY <1>2, <2>1, ValidRecords
    <3>2. w \in RecordsOf(w[1]) /\ w[1] \in DOMAIN inbox
      BY <1>2, <3>1, RecordParts
    <3>3. /\ w \in RecordsOf(w[1])' /\ w[1] \in Committed' /\ inbox'[w[1]].inst = inst
          /\ Rec(w)'.kind = "withdrawal"
      <4>1. PICK b : b = w[1]
        OBVIOUS
      <4>2. RecordsOf(b)' = RecordsOf(b)
        BY <1>3, <3>2, <4>1
      <4> QED BY <1>1, <1>6, <3>1, <3>2, <4>1, <4>2 DEF Inst
    <3> QED BY <2>2, <3>3
  <2> QED BY <1>8, <2>3 DEF WithdrawsOnce
<1> QED BY <1>4, <1>6, <1>7, <1>8

\* A step within a loop of the drain, or of a request that has no row yet.
Within == UNCHANGED <<inbox, state, phase, hist, pend>> /\ todo' \subseteq todo
\* A step that ends the drain or enters the catch block.
Leaves == UNCHANGED <<inbox, state>> /\ phase' \in {"idle", "fail"} /\ todo' = {}

\* The steps, by what they do to the drain.
LEMMA StepKinds ==
  ASSUME [Next]_vars
  PROVE  \/ Within \/ Leaves \/ Select \/ Evaluate \/ NextLoop
         \/ \E q \in requests : Insert(q)
         \/ \E b \in DOMAIN state : Commit(b) \/ Abort(b)
         \/ \E b \in DOMAIN state : AppendProcessed(b) \/ AppendFailed(b)
         \/ \E b \in DOMAIN state : LoseBody(b)
<1>1. CASE Api
  BY <1>1 DEF Api, Receive, Within, drainVars
<1>2. CASE Drain
  <2>1. CASE Finish
    BY <2>1 DEF Finish, Leaves, apiVars
  <2>2. CASE \E r \in todo : PersistConflict(r)
    BY <2>2 DEF PersistConflict, Caught, Leaves, apiVars
  <2>3. CASE \E r \in todo : PersistRecord(r) \/ PersistAttribution(r) \/ PersistLate(r) \/ QueueLookup(r)
    BY <2>3 DEF PersistRecord, PersistAttribution, PersistLate, QueueLookup, Within, apiVars
  <2>4. CASE \E b \in DOMAIN state : LinkRecords(b)
    BY <2>4 DEF LinkRecords, Within, apiVars, drainVars
  <2> QED BY <1>2, <2>1, <2>2, <2>3, <2>4 DEF Drain
<1>3. CASE Faults
  BY <1>3 DEF Faults, TransactionFails, Crash, Caught, Leaves, apiVars
<1>4. CASE UNCHANGED vars
  BY <1>4 DEF vars, apiVars, drainVars, Within
<1> QED BY <1>1, <1>2, <1>3, <1>4 DEF Next

\* The batches of a drain: its history is processed, its own batches are pending until
\* the mark loop reaches them, and while no body is lost nothing processed is left out.
HistoryIsProcessed == Draining => hist \subseteq Processed
DrainIsLive == Draining => pend \subseteq Live
DrainIsPending ==
  phase \in {"decode", "persist", "attribute", "late", "queue"} => \A b \in pend : state[b] = "pending"
ProcessedIsSeen == readFaults = 0 /\ Draining => Processed \subseteq hist \cup pend
PersistsOfDrain == phase = "persist" => \A r \in todo : r[1] \in pend
DrainInv == HistoryIsProcessed /\ DrainIsLive /\ DrainIsPending /\ ProcessedIsSeen /\ PersistsOfDrain

\* No drain.
LEMMA InitDrainInv == Init => DrainInv
  BY DEF Init, DrainInv, HistoryIsProcessed, DrainIsLive, DrainIsPending, ProcessedIsSeen,
     PersistsOfDrain, Draining

\* By the kinds of steps.
LEMMA NextDrainInv ==
  ASSUME InboxInv, DrainInv, [Next]_vars
  PROVE  DrainInv'
<1>0. /\ ApiTypeOK /\ state \in Seq(States) /\ pend \subseteq DOMAIN state /\ hist \subseteq DOMAIN state
      /\ DOMAIN state = DOMAIN inbox
  BY DEF InboxInv, TypeOK, ApiTypeOK, DrainTypeOK
<1>r. readFaults' = 0 => readFaults = 0
  BY StepFrame
<1>1. CASE Within
  BY <1>1, <1>r DEF Within, DrainInv, HistoryIsProcessed, DrainIsLive, DrainIsPending, ProcessedIsSeen,
     PersistsOfDrain, Draining, Processed, Live
<1>2. CASE Leaves
  BY <1>2 DEF Leaves, DrainInv, HistoryIsProcessed, DrainIsLive, DrainIsPending, ProcessedIsSeen,
     PersistsOfDrain, Draining
<1>3. CASE Select
  BY <1>3 DEF Select, DrainInv, HistoryIsProcessed, DrainIsLive, DrainIsPending, ProcessedIsSeen,
     PersistsOfDrain, Draining, Processed, Live
<1>4. CASE Evaluate
  <2>1. /\ phase = "decode" /\ phase' \in {"idle", "persist", "fail"} /\ state' = state /\ pend' = pend
        /\ phase' = "persist" => hist' = hist /\ todo' = RecordsIn(pend)
        /\ readFaults' = readFaults
    BY <1>4 DEF Evaluate, ToPersist
  <2>2. \A r \in RecordsIn(pend) : r[1] \in pend
    BY <1>0, RecordsInBatches
  <2> QED BY <2>1, <2>2 DEF DrainInv, HistoryIsProcessed, DrainIsLive, DrainIsPending, ProcessedIsSeen,
     PersistsOfDrain, Draining, Processed, Live
<1>5. CASE NextLoop
  <2>1. /\ phase \in {"persist", "attribute", "late", "queue"} /\ phase' \in {"attribute", "late", "queue", "mark"}
        /\ UNCHANGED <<state, hist, pend, readFaults>>
    BY <1>5 DEF NextLoop
  <2> QED BY <2>1 DEF DrainInv, HistoryIsProcessed, DrainIsLive, DrainIsPending, ProcessedIsSeen,
     PersistsOfDrain, Draining, Processed, Live
<1>6. ASSUME NEW q \in requests, Insert(q) PROVE DrainInv'
  <2>1. /\ UNCHANGED <<phase, hist, pend, todo, readFaults>>
        /\ DOMAIN state \subseteq DOMAIN state'
        /\ \A b \in DOMAIN state : state'[b] = state[b]
        /\ \A b \in DOMAIN state' : b \notin DOMAIN state => state'[b] = "uncommitted"
    BY <1>6, InsertFacts DEF Insert, drainVars, InboxInv
  <2> QED BY <1>0, <2>1 DEF DrainInv, HistoryIsProcessed, DrainIsLive, DrainIsPending, ProcessedIsSeen,
     PersistsOfDrain, Draining, Processed, Live
<1>7. ASSUME NEW b \in DOMAIN state, Commit(b) \/ Abort(b) PROVE DrainInv'
  <2>1. /\ UNCHANGED <<phase, hist, pend, todo, readFaults>>
        /\ DOMAIN state' = DOMAIN state /\ state[b] = "uncommitted" /\ state'[b] \in {"pending", "aborted"}
        /\ \A c \in DOMAIN state : c # b => state'[c] = state[c]
    BY <1>0, <1>7 DEF Commit, Abort, drainVars
  <2> QED BY <1>0, <2>1 DEF DrainInv, HistoryIsProcessed, DrainIsLive, DrainIsPending, ProcessedIsSeen,
     PersistsOfDrain, Draining, Processed, Live
<1>8. ASSUME NEW b \in DOMAIN state, AppendProcessed(b) \/ AppendFailed(b) PROVE DrainInv'
  <2>1. /\ UNCHANGED <<phase, hist, pend, todo, readFaults>> /\ b \in pend
        /\ DOMAIN state' = DOMAIN state
        /\ \/ phase = "mark" /\ state'[b] = "processed"
           \/ phase = "fail" /\ state'[b] = "failed"
        /\ \A c \in DOMAIN state : c # b => state'[c] = state[c]
    BY <1>0, <1>8 DEF AppendProcessed, AppendFailed, IsNextRow, InboxInv, TypeOK, DrainTypeOK
  <2> QED BY <1>0, <2>1 DEF DrainInv, HistoryIsProcessed, DrainIsLive, DrainIsPending, ProcessedIsSeen,
     PersistsOfDrain, Draining, Processed, Live
<1>9. ASSUME NEW b \in DOMAIN state, LoseBody(b) PROVE DrainInv'
  <2>1. /\ phase = "decode" /\ phase' = "decode" /\ pend' = pend \ {b} /\ hist' \subseteq hist
        /\ DOMAIN state' = DOMAIN state
        /\ \A c \in DOMAIN state : c # b => state'[c] = state[c]
        /\ b \notin hist' /\ readFaults' # 0
    <3>1. readFaults \in Nat
      BY BoundsAssumption DEF InboxInv, TypeOK, DrainTypeOK
    <3> QED BY <1>0, <1>9, <3>1 DEF LoseBody
  <2> QED BY <1>0, <2>1 DEF DrainInv, HistoryIsProcessed, DrainIsLive, DrainIsPending, ProcessedIsSeen,
     PersistsOfDrain, Draining, Processed, Live
<1> QED BY <1>1, <1>2, <1>3, <1>4, <1>5, <1>6, <1>7, <1>8, <1>9, StepKinds

\* What a drain has read and not yet marked follows from its place in its loops.
THEOREM DrainInvariant == Spec => []DrainInv
  BY InitDrainInv, NextDrainInv, InboxInvariant, PTL DEF Spec

\* Whatever the order of receipt and of commit, and however drains are interrupted: what
\* a drain accepts after it processed the only withdrawal of an installation lies before
\* that withdrawal, unless a body was lost.
THEOREM WithdrawalsAreRespected == Spec => SoleWithdrawalRespected
<1> DEFINE Respects == \A inst \in Installs :
              readFaults = 0 /\ WithdrawsOnce(inst) => NewAcceptanceRespects(inst, Withdrawals(inst, Processed))
<1>1. InboxInv /\ DrainInv /\ [Next]_vars => [Respects]_vars
  <2> SUFFICES ASSUME InboxInv, DrainInv, Next, NEW inst \in Installs, readFaults = 0, WithdrawsOnce(inst),
                      NEW d \in deliveries' \ deliveries, d.status = "accepted",
                      ConsentRequired(d.rec), Inst(d.rec) = inst,
                      NEW w \in Withdrawals(inst, Processed)
               PROVE  ~SeqAtOrAfter(d.rec, w)
    BY DEF NewAcceptanceRespects, vars
  <2>1. PICK r \in todo : PersistRecord(r)
    <3>1. deliveries' # deliveries
      OBVIOUS
    <3>2. CASE Drain
      BY <3>1, <3>2 DEF Drain, Select, Evaluate, NextLoop, Finish, LinkRecords, AppendProcessed,
         AppendFailed, PersistConflict, PersistAttribution, PersistLate, QueueLookup, ledgerVars
    <3>3. CASE Api \/ Faults
      BY <3>1, <3>3 DEF Api, Receive, Insert, Commit, Abort, Faults, LoseBody, TransactionFails, Crash,
      ledgerVars
    <3> QED BY <3>2, <3>3 DEF Next
  <2>2. d = Decision(r, hist \cup pend) /\ phase = "persist" /\ d.rec = r
    BY <2>1, DecisionRec DEF PersistRecord
  <2> DEFINE D == hist \cup pend
  <2>3. /\ ApiTypeOK /\ D \subseteq DOMAIN inbox /\ D \subseteq Committed /\ Processed \subseteq D
        /\ Committed \subseteq DOMAIN inbox
    BY <2>2 DEF InboxInv, TypeOK, ApiTypeOK, DrainTypeOK, DrainInv, ProcessedIsSeen, HistoryIsProcessed,
       DrainIsLive, Draining, Processed, Live, Committed
  <2>4. Rec(r).kind # "schema_invalid"
    BY <2>2 DEF ConsentRequired
  <2>5. ~ConsentWithdrawn(r, D)
    BY <2>2, <2>4, DecisionFacts
  <2> HIDE DEF D
  <2>6. Processed \subseteq DOMAIN inbox
    BY <2>3
  <2>7. w \in Withdrawals(inst, D)
    BY <2>3, <2>6, ValidRecords
  <2>8. \A v \in Withdrawals(inst, D) : v = w
    <3>1. Withdrawals(inst, D) \subseteq Withdrawals(inst, Committed)
      BY <2>3, WithdrawalsGrow
    <3> QED BY <2>7, <3>1 DEF WithdrawsOnce
  <2>9. LastWithdrawal(inst, D) = w
    BY <2>7, <2>8, SoleWithdrawalIsLast
  <2> QED BY <2>2, <2>5, <2>7, <2>9 DEF ConsentWithdrawn, ConsentRequired
<1>2. Spec => [][Respects]_vars
  BY <1>1, InboxInvariant, DrainInvariant, PTL DEF Spec
<1> QED BY <1>2 DEF SoleWithdrawalRespected

-----------------------------------------------------------------------------
(* Accepted deliveries and their logical events.                            *)

\* While no body is lost, what the worker has seen is forgotten only by failing it.
LEMMA SeenFrame ==
  ASSUME InboxInv, DrainInv, [Next]_vars, readFaults' = 0
  PROVE  Seen \subseteq Seen' \cup Failed' /\ Seen \subseteq Live
<1>0. /\ ApiTypeOK /\ state \in Seq(States) /\ pend \subseteq DOMAIN state /\ hist \subseteq DOMAIN state
  BY DEF InboxInv, TypeOK, ApiTypeOK, DrainTypeOK
<1>a. Seen \subseteq Live
  BY DEF Seen, DrainInv, HistoryIsProcessed, DrainIsLive, Processed, Live
<1>1. CASE Within
  BY <1>1, <1>a DEF Within, Seen, Draining, Live
<1>2. CASE Leaves
  BY <1>2, <1>a DEF Leaves, Seen, Draining, Live
<1>3. CASE Select
  BY <1>3, <1>a DEF Select, Seen, Draining, Live
<1>4. CASE Evaluate
  <2>1. /\ phase = "decode" /\ state' = state /\ pend' = pend
        /\ phase' \in {"idle", "fail"} \/ (phase' = "persist" /\ hist' = hist)
    BY <1>4 DEF Evaluate
  <2> QED BY <1>a, <2>1 DEF Seen, Draining, Live
<1>5. CASE NextLoop
  BY <1>5, <1>a DEF NextLoop, Seen, Draining
<1>6. ASSUME NEW q \in requests, Insert(q) PROVE Seen \subseteq Seen'
  <2>1. /\ UNCHANGED <<phase, hist, pend>>
        /\ DOMAIN state \subseteq DOMAIN state'
        /\ \A b \in DOMAIN state : state'[b] = state[b]
    BY <1>6, InsertFacts DEF Insert, drainVars, InboxInv
  <2> QED BY <2>1 DEF Seen, Draining, Live
<1>7. ASSUME NEW b \in DOMAIN state, Commit(b) \/ Abort(b) PROVE Seen \subseteq Seen'
  <2>1. /\ UNCHANGED <<phase, hist, pend>>
        /\ DOMAIN state' = DOMAIN state /\ state[b] = "uncommitted"
        /\ \A c \in DOMAIN state : c # b => state'[c] = state[c]
    BY <1>0, <1>7 DEF Commit, Abort, drainVars
  <2> QED BY <2>1 DEF Seen, Draining, Live
<1>8. ASSUME NEW b \in DOMAIN state, AppendProcessed(b) \/ AppendFailed(b)
      PROVE  Seen \subseteq Seen' \cup Failed'
  <2>1. /\ UNCHANGED <<phase, hist, pend>> /\ DOMAIN state' = DOMAIN state
        /\ \/ phase = "mark"
           \/ phase = "fail" /\ state'[b] = "failed"
        /\ \A c \in DOMAIN state : c # b => state'[c] = state[c]
    BY <1>0, <1>8 DEF AppendProcessed, AppendFailed
  <2> QED BY <2>1 DEF Seen, Draining, Live, Failed
<1>9. ASSUME NEW b \in DOMAIN state, LoseBody(b) PROVE FALSE
  BY <1>9, BodyKept
<1> QED BY <1>a, <1>1, <1>2, <1>3, <1>4, <1>5, <1>6, <1>7, <1>8, <1>9, StepKinds

\* What was failed stays failed, and with it what was decided together with it.
LEMMA PremisesFrame ==
  ASSUME InboxInv, [Next]_vars, NEW x \in RecordIds
  PROVE  /\ WithdrawsOnce(Inst(x))' => WithdrawsOnce(Inst(x))
         /\ DecidedWithFailed(x) => DecidedWithFailed(x)'
<1>1. /\ DOMAIN inbox \subseteq DOMAIN inbox' /\ \A b \in DOMAIN inbox : inbox'[b] = inbox[b]
      /\ Failed \subseteq Failed' /\ DOMAIN state = DOMAIN inbox /\ DOMAIN state' = DOMAIN inbox'
  BY StepFrame
<1>2. /\ RecordIds \subseteq RecordIds'
      /\ \A r \in RecordIds : Rec(r)' = Rec(r) /\ Inst(r)' = Inst(r)
      /\ \A inst : WithdrawsOnce(inst)' => WithdrawsOnce(inst)
  BY RecordFrame
<1>3. WithdrawsOnce(Inst(x))' => WithdrawsOnce(Inst(x))
  <2>1. PICK i : i = Inst(x)
    OBVIOUS
  <2>2. i = Inst(x)'
    BY <1>2, <2>1
  <2>3. WithdrawsOnce(Inst(x))' => WithdrawsOnce(i)'
    BY <2>2 DEF WithdrawsOnce, Withdrawals
  <2> QED BY <1>2, <2>1, <2>3
<1>4. ASSUME DecidedWithFailed(x) PROVE DecidedWithFailed(x)'
  <2>1. ApiTypeOK /\ Failed \subseteq DOMAIN inbox /\ \A b \in DOMAIN inbox : RecordsOf(b)' = RecordsOf(b)
    BY <1>1 DEF InboxInv, TypeOK, Failed, RecordsOf
  <2>2. PICK s \in RecordsIn(Failed) :
             Rec(s).event = Rec(x).event \/ (Rec(s).kind = "withdrawal" /\ Inst(s) = Inst(x))
    BY <1>4 DEF DecidedWithFailed, Failed
  <2>3. s \in RecordIds
    BY <2>1, <2>2, RecordsInBatches
  <2>4. PICK b \in Failed : s \in RecordsOf(b)
    BY <2>2 DEF RecordsIn
  <2>5. b \in DOMAIN inbox /\ b \in Failed' /\ s \in RecordsOf(b)'
    BY <1>1, <2>1, <2>4
  <2>6. s \in RecordsIn(Failed)'
    BY <2>5 DEF RecordsIn
  <2>7. Rec(s)'.event = Rec(x)'.event \/ (Rec(s)'.kind = "withdrawal" /\ Inst(s)' = Inst(x)')
    BY <1>2, <2>2, <2>3
  <2> QED BY <2>6, <2>7 DEF DecidedWithFailed, Failed
<1> QED BY <1>3, <1>4

\* Why a delivery has its status: each refusal has its reason among the batches that
\* are seen or failed, and what is accepted is logical unless one of those failed.
Known == Seen \cup Failed
Grounded(d) ==
  /\ d.rec \in RecordIds
  /\ d.status \in {"schema_invalid", "consent_withdrawn", "event_id_conflict", "accepted"}
  /\ d.status = "schema_invalid" => Rec(d.rec).kind = "schema_invalid"
  /\ d.status = "consent_withdrawn" =>
        /\ ConsentRequired(d.rec)
        /\ \E w \in RecordIds : /\ w[1] \in Known /\ Rec(w).kind = "withdrawal"
                                /\ Inst(w) = Inst(d.rec) /\ SeqAtOrAfter(d.rec, w)
  /\ d.status = "event_id_conflict" =>
        \E t \in RecordIds : /\ t[1] \in Known /\ Rec(t).kind # "schema_invalid"
                             /\ Rec(t).event = Rec(d.rec).event /\ InSeq(t, d.rec)
  /\ d.status = "accepted" /\ WithdrawsOnce(Inst(d.rec)) /\ ~DecidedWithFailed(d.rec) =>
        logical[Rec(d.rec).event] # None
GroundedInv == ReceivedInOrder /\ readFaults = 0 => \A d \in deliveries : Grounded(d)

\* A delivery stays grounded.
LEMMA GroundedStays ==
  ASSUME InboxInv, DrainInv, [Next]_vars, readFaults' = 0, NEW d, Grounded(d)
  PROVE  Grounded(d)'
<1>1. /\ RecordIds \subseteq RecordIds'
      /\ \A r \in RecordIds : Rec(r)' = Rec(r) /\ Inst(r)' = Inst(r)
  BY RecordFrame
<1>2. Known \subseteq Known'
  BY SeenFrame, StepFrame DEF Known
<1>3. d.rec \in RecordIds /\ Rec(d.rec).event \in Events
  BY RecordEvent DEF Grounded, InboxInv, TypeOK
<1>4. PICK x \in RecordIds : x = d.rec
  BY <1>3
<1>5. Rec(x)' = Rec(x) /\ Inst(x)' = Inst(x)
  BY <1>1
<1>6. d.status = "consent_withdrawn" =>
        /\ ConsentRequired(x)'
        /\ \E w \in RecordIds' : /\ w[1] \in Known' /\ Rec(w)'.kind = "withdrawal"
                                /\ Inst(w)' = Inst(x)' /\ SeqAtOrAfter(x, w)
  <2>1. SUFFICES ASSUME d.status = "consent_withdrawn" PROVE <1>6!2
    OBVIOUS
  <2>2. ConsentRequired(x)'
    BY <1>4, <1>5, <2>1 DEF Grounded, ConsentRequired
  <2>3. PICK w \in RecordIds : /\ w[1] \in Known /\ Rec(w).kind = "withdrawal"
                               /\ Inst(w) = Inst(x) /\ SeqAtOrAfter(x, w)
    BY <1>4, <2>1 DEF Grounded
  <2> QED BY <1>1, <1>2, <1>5, <2>2, <2>3
<1>7. d.status = "event_id_conflict" =>
        \E t \in RecordIds' : /\ t[1] \in Known' /\ Rec(t)'.kind # "schema_invalid"
                             /\ Rec(t)'.event = Rec(x)'.event /\ InSeq(t, x)
  <2>1. SUFFICES ASSUME d.status = "event_id_conflict" PROVE <1>7!2
    OBVIOUS
  <2>3. PICK t \in RecordIds : /\ t[1] \in Known /\ Rec(t).kind # "schema_invalid"
                             /\ Rec(t).event = Rec(x).event /\ InSeq(t, x)
    BY <1>4, <2>1 DEF Grounded
  <2> QED BY <1>1, <1>2, <1>5, <2>3
<1>8. d.status = "accepted" /\ WithdrawsOnce(Inst(x))' /\ ~DecidedWithFailed(x)' =>
        logical'[Rec(x)'.event] # None
  <2>1. SUFFICES ASSUME d.status = "accepted", WithdrawsOnce(Inst(x))', ~DecidedWithFailed(x)'
                 PROVE  logical'[Rec(x)'.event] # None
    OBVIOUS
  <2>2. logical[Rec(x).event] # None
    BY <1>4, <2>1, PremisesFrame DEF Grounded
  <2>3. logical'[Rec(x).event] = logical[Rec(x).event]
    BY <1>3, <1>4, <2>2, LedgerGrows
  <2> QED BY <1>5, <2>2, <2>3
<1>9. d.status = "schema_invalid" => Rec(x)'.kind = "schema_invalid"
  BY <1>4, <1>5 DEF Grounded
<1>10. d.status \in {"schema_invalid", "consent_withdrawn", "event_id_conflict", "accepted"} /\ x \in RecordIds'
  BY <1>1 DEF Grounded
<1> QED BY <1>4, <1>6, <1>7, <1>8, <1>9, <1>10 DEF Grounded

\* Every row of the inbox is a body that was posted.
RowsArePosted ==
  \A b \in DOMAIN inbox : \E body \in Bodies : inbox[b].inst = body.inst /\ inbox[b].recs = body.recs

\* Insert copies a body that was received.
LEMMA NextRowsArePosted ==
  ASSUME InboxInv, RowsArePosted, [Next]_vars
  PROVE  RowsArePosted'
<1>1. CASE inbox' = inbox
  BY <1>1 DEF RowsArePosted
<1>2. ASSUME NEW q \in requests, Insert(q) PROVE RowsArePosted'
  <2>1. inbox \in Seq(BatchRows) /\ q.body \in Bodies
    BY DEF InboxInv, TypeOK, ApiTypeOK
  <2> DEFINE row == [at |-> q.at, inst |-> q.body.inst, recs |-> q.body.recs]
  <2>2. inbox' = Append(inbox, row) /\ row.inst = q.body.inst /\ row.recs = q.body.recs
    BY <1>2 DEF Insert
  <2> HIDE DEF row
  <2>3. \A b \in DOMAIN inbox' : (b \in DOMAIN inbox /\ inbox'[b] = inbox[b]) \/ inbox'[b] = row
    BY <2>1, <2>2
  <2> QED BY <2>1, <2>2, <2>3 DEF RowsArePosted
<1> QED BY <1>1, <1>2, StepKinds DEF Within, Leaves, Select, Evaluate, NextLoop, Commit, Abort, AppendProcessed,
     AppendFailed, LoseBody, apiVars

\* The bodies of senders are those of the rows.
LEMMA PostedRecord ==
  ASSUME ApiTypeOK, RowsArePosted, NEW r \in RecordIds
  PROVE  \E body \in Bodies : /\ Inst(r) = body.inst /\ r[2] \in 1 .. Len(body.recs)
                              /\ Rec(r) = body.recs[r[2]]
<1>1. r[1] \in DOMAIN inbox /\ r[2] \in 1 .. Len(inbox[r[1]].recs)
  BY RecordParts DEF RecordsOf
<1> QED BY <1>1 DEF RowsArePosted, Inst, Rec

\* Two records of the same event and payload are of one kind and one installation.
LEMMA ResentRecord ==
  ASSUME ApiTypeOK, RowsArePosted, EventsAreResent, NEW r \in RecordIds, NEW s \in RecordIds,
         Rec(r).event = Rec(s).event, Rec(r).payload = Rec(s).payload,
         Rec(r).kind # "schema_invalid", Rec(s).kind # "schema_invalid"
  PROVE  Rec(r).kind = Rec(s).kind /\ Inst(r) = Inst(s)
<1>1. PICK p \in Bodies : Inst(r) = p.inst /\ r[2] \in 1 .. Len(p.recs) /\ Rec(r) = p.recs[r[2]]
  BY PostedRecord
<1>2. PICK q \in Bodies : Inst(s) = q.inst /\ s[2] \in 1 .. Len(q.recs) /\ Rec(s) = q.recs[s[2]]
  BY PostedRecord
<1>3. PICK i \in 1 .. Len(p.recs), j \in 1 .. Len(q.recs) : Rec(r) = p.recs[i] /\ Rec(s) = q.recs[j]
  BY <1>1, <1>2
<1>4. "schema_invalid" \notin {p.recs[i].kind, q.recs[j].kind}
  BY <1>3
<1>5. p.recs[i].kind = q.recs[j].kind /\ p.inst = q.inst
  BY <1>3, <1>4 DEF EventsAreResent
<1> QED BY <1>1, <1>2, <1>3, <1>5

\* The delivery a repetition is compared with was written before it.
LEMMA FirstIsDelivered ==
  ASSUME InboxInv, DrainInv, ReceivedInOrder, phase = "persist", NEW r \in todo, IsNext(r),
         Rec(r).kind # "schema_invalid", First(r, hist \cup pend) # r
  PROVE  Delivered(First(r, hist \cup pend))
<1>0. PICK D : D = hist \cup pend
  OBVIOUS
<1>1. /\ ApiTypeOK /\ D \subseteq DOMAIN inbox /\ r \in RecordIds /\ r[1] \in pend
      /\ \A b \in hist : state[b] = "processed" /\ b \in DOMAIN state
  BY <1>0 DEF InboxInv, TypeOK, ApiTypeOK, DrainTypeOK, DrainInv, PersistsOfDrain, HistoryIsProcessed, Processed,
     Draining
<1>2. r \in Valid(D)
  BY <1>0, <1>1, ValidRecords
<1>3. PICK s \in Valid(D) : s = First(r, D) /\ (r = s \/ InSeq(s, r))
  BY <1>1, <1>2, FirstFacts
<1>4. s \in RecordIds /\ s[1] \in D /\ s \in RecordsOf(s[1])
  BY <1>1, <1>3, ValidRecords, RecordParts
<1>5. Before(s, r) /\ s # r
  BY <1>0, <1>1, <1>3, <1>4, BeforeIsInSeq
<1>6. s \notin todo
  <2>1. s \in todo => Before(r, s)
    BY <1>5 DEF IsNext
  <2> QED BY <1>1, <1>4, <1>5, <2>1, BeforeIsInSeq, InSeqOrder
<1>7. CASE s[1] \in hist
  BY <1>1, <1>3, <1>4, <1>7, <1>0 DEF InboxInv, ProcessedIsDurable, Delivered
<1>8. CASE s[1] \in pend
  BY <1>3, <1>4, <1>6, <1>8, <1>0 DEF InboxInv, PersistCoversDrain
<1> QED BY <1>0, <1>4, <1>7, <1>8

\* The delivery that a step adds is grounded.
LEMMA NewIsGrounded ==
  ASSUME EventsAreResent, InboxInv, DrainInv, RowsArePosted, GroundedInv, ReceivedInOrder, readFaults = 0,
         NEW r \in todo, PersistRecord(r), Rec(r).kind # "schema_invalid",
         Decision(r, hist \cup pend).status = "accepted",
         WithdrawsOnce(Inst(r)), ~DecidedWithFailed(r)
  PROVE  First(r, hist \cup pend) = r \/ logical[Rec(r).event] # None
<1>0. PICK D : D = hist \cup pend
  OBVIOUS
<1>1. /\ ApiTypeOK /\ D \subseteq DOMAIN inbox /\ r \in RecordIds /\ r[1] \in pend /\ D \subseteq Committed
      /\ phase = "persist" /\ IsNext(r) /\ Seen = D /\ Committed \subseteq DOMAIN inbox
  BY <1>0 DEF InboxInv, TypeOK, ApiTypeOK, DrainTypeOK, DrainInv, PersistsOfDrain, HistoryIsProcessed, Processed,
     Draining, DrainIsLive, Live, Committed, PersistRecord, Seen
<1> SUFFICES ASSUME First(r, D) # r PROVE logical[Rec(r).event] # None
  BY <1>0
<1>2. r \in Valid(D)
  BY <1>0, <1>1, ValidRecords
<1>3. PICK s \in Valid(D) : /\ s = First(r, D) /\ Rec(s).event = Rec(r).event /\ InSeq(s, r)
                            /\ \A t \in Valid(D) : Rec(t).event = Rec(r).event => t = s \/ InSeq(s, t)
  BY <1>1, <1>2, FirstFacts
<1>4. ~ConsentWithdrawn(r, D) /\ Rec(s).payload = Rec(r).payload
  BY <1>0, <1>3, DecisionFacts
<1>5. s \in RecordIds /\ Rec(s).kind # "schema_invalid"
  BY <1>1, <1>3, ValidRecords
<1>6. Rec(s).kind = Rec(r).kind /\ Inst(s) = Inst(r)
  BY <1>1, <1>3, <1>4, <1>5, ResentRecord
<1>7. PICK d \in deliveries : d.rec = s
  BY <1>0, <1>1, <1>3, FirstIsDelivered DEF Delivered
<1>8. Grounded(d)
  BY DEF GroundedInv
<1>9. \A t \in RecordIds :
         /\ t[1] \in Known
         /\ Rec(t).event = Rec(r).event \/ (Rec(t).kind = "withdrawal" /\ Inst(t) = Inst(r))
         => t[1] \in D
  <2>1. Failed \subseteq DOMAIN inbox
    BY <1>1 DEF Failed, ApiTypeOK
  <2>2. \A t \in RecordIds : t[1] \in Failed => t \in RecordsIn(Failed)
    BY <1>1, <2>1, RecordsInBatches
  <2> QED BY <1>1, <2>2 DEF Known, DecidedWithFailed, Failed
<1>10. CASE d.status = "accepted"
  <2>1. ~DecidedWithFailed(s)
    BY <1>3, <1>6 DEF DecidedWithFailed
  <2>2. WithdrawsOnce(Inst(s))
    BY <1>6
  <2> QED BY <1>3, <1>7, <1>8, <1>10, <2>1, <2>2 DEF Grounded
<1>11. CASE d.status = "consent_withdrawn"
  <2>1. PICK w \in RecordIds : /\ w[1] \in Known /\ Rec(w).kind = "withdrawal"
                               /\ Inst(w) = Inst(s) /\ SeqAtOrAfter(s, w)
    BY <1>7, <1>8, <1>11 DEF Grounded
  <2>2. w[1] \in D
    BY <1>6, <1>9, <2>1
  <2>3. w \in Withdrawals(Inst(r), D)
    BY <1>1, <1>6, <2>1, <2>2, ValidRecords
  <2>4. \A v \in Withdrawals(Inst(r), D) : v = w
    <3>1. Withdrawals(Inst(r), D) \subseteq Withdrawals(Inst(r), Committed)
      BY <1>1, WithdrawalsGrow
    <3> QED BY <2>3, <3>1 DEF WithdrawsOnce
  <2>5. LastWithdrawal(Inst(r), D) = w
    BY <2>3, <2>4, SoleWithdrawalIsLast
  <2>6. SeqAtOrAfter(r, w)
    BY <1>1, <1>3, <1>5, <2>1, InSeqOrder
  <2>7. Rec(r).kind \in {"install", "custom"} /\ Inst(r) # NoInstallation
    BY <1>6, <1>7, <1>8, <1>11 DEF Grounded, ConsentRequired
  <2> QED BY <1>4, <2>3, <2>5, <2>6, <2>7 DEF ConsentWithdrawn
<1>12. CASE d.status = "event_id_conflict"
  <2>1. PICK t \in RecordIds : /\ t[1] \in Known /\ Rec(t).kind # "schema_invalid"
                               /\ Rec(t).event = Rec(s).event /\ InSeq(t, s)
    BY <1>7, <1>8, <1>12 DEF Grounded
  <2>2. t \in Valid(D)
    BY <1>1, <1>3, <1>9, <2>1, ValidRecords
  <2> QED BY <1>1, <1>3, <1>5, <2>1, <2>2, InSeqOrder
<1> QED BY <1>5, <1>7, <1>8, <1>10, <1>11, <1>12 DEF Grounded

\* The delivery that a step adds is grounded in what the drain has seen.
LEMMA PersistGrounded ==
  ASSUME EventsAreResent, InboxInv, DrainInv, RowsArePosted, GroundedInv, ReceivedInOrder, readFaults = 0,
         NEW r \in todo, PersistRecord(r), [Next]_vars, NEW d, d = Decision(r, hist \cup pend)
  PROVE  Grounded(d)'
<1>0. PICK D : D = hist \cup pend
  OBVIOUS
<1>1. d = Decision(r, D)
  BY <1>0
<1>2. /\ ApiTypeOK /\ D \subseteq DOMAIN inbox /\ r \in RecordIds /\ r[1] \in pend
      /\ phase = "persist" /\ Seen = D
  BY <1>0 DEF InboxInv, TypeOK, ApiTypeOK, DrainTypeOK, DrainInv, PersistsOfDrain, Draining, PersistRecord, Seen
<1>3. UNCHANGED <<inbox, state, phase, hist, pend>>
  BY DEF PersistRecord, apiVars
<1>4. /\ RecordIds' = RecordIds /\ Known' = Known
      /\ \A x : Rec(x)' = Rec(x) /\ Inst(x)' = Inst(x)
      /\ \A x : ConsentRequired(x)' <=> ConsentRequired(x)
      /\ \A x : DecidedWithFailed(x)' <=> DecidedWithFailed(x)
      /\ WithdrawsOnce(Inst(r))' <=> WithdrawsOnce(Inst(r))
  <2>1. RecordIds' = RecordIds /\ Known' = Known /\ \A x : Rec(x)' = Rec(x) /\ Inst(x)' = Inst(x)
    BY <1>3 DEF RecordIds, RecordsOf, Known, Seen, Failed, Live, Draining, Rec, Inst
  <2>2. \A x : ConsentRequired(x)' <=> ConsentRequired(x)
    BY <2>1 DEF ConsentRequired
  <2>3. \A x : DecidedWithFailed(x)' <=> DecidedWithFailed(x)
    BY <1>3, <2>1 DEF DecidedWithFailed, RecordsIn, RecordsOf
  <2>4. WithdrawsOnce(Inst(r))' <=> WithdrawsOnce(Inst(r))
    BY <1>3, <2>1 DEF WithdrawsOnce, Withdrawals, RecordsIn, RecordsOf, Committed
  <2> QED BY <2>1, <2>2, <2>3, <2>4
<1>5. d.rec = r
  BY <1>1, DecisionRec
<1>6. CASE Rec(r).kind = "schema_invalid"
  <2>1. d.status = "schema_invalid"
    BY <1>1, <1>6 DEF Decision
  <2> QED BY <1>2, <1>4, <1>5, <1>6, <2>1 DEF Grounded
<1>7. CASE Rec(r).kind # "schema_invalid"
  <2>1. r \in Valid(D)
    BY <1>0, <1>2, <1>7, ValidRecords
  <2>2. /\ d.status = "consent_withdrawn" <=> ConsentWithdrawn(r, D)
        /\ d.status = "event_id_conflict" => First(r, D) # r
        /\ d.status \in {"consent_withdrawn", "event_id_conflict", "accepted"}
        /\ d.resolution = "unique" <=> First(r, D) = r
    BY <1>1, <1>7, DecisionFacts
  <2>3. ASSUME d.status = "consent_withdrawn"
        PROVE  /\ ConsentRequired(r)
               /\ \E w \in RecordIds : /\ w[1] \in Known /\ Rec(w).kind = "withdrawal"
                                       /\ Inst(w) = Inst(r) /\ SeqAtOrAfter(r, w)
    <3>1. PICK w : /\ w = LastWithdrawal(Inst(r), D) /\ ConsentRequired(r)
                   /\ Withdrawals(Inst(r), D) # {} /\ SeqAtOrAfter(r, w)
      BY <2>2, <2>3 DEF ConsentWithdrawn, ConsentRequired
    <3>2. w \in Withdrawals(Inst(r), D)
      BY <1>2, <3>1, LastFacts
    <3>3. w \in RecordIds /\ w[1] \in Known /\ Rec(w).kind = "withdrawal" /\ Inst(w) = Inst(r)
      BY <1>2, <3>2, ValidRecords DEF Known
    <3> QED BY <3>1, <3>3
  <2>4. ASSUME d.status = "event_id_conflict"
        PROVE  \E t \in RecordIds : /\ t[1] \in Known /\ Rec(t).kind # "schema_invalid"
                                    /\ Rec(t).event = Rec(r).event /\ InSeq(t, r)
    <3>1. PICK t \in Valid(D) : t # r /\ Rec(t).event = Rec(r).event /\ (r = t \/ InSeq(t, r))
      BY <1>2, <2>1, <2>2, <2>4, FirstFacts
    <3>2. t \in RecordIds /\ t[1] \in Known /\ Rec(t).kind # "schema_invalid"
      BY <1>2, <3>1, ValidRecords DEF Known
    <3> QED BY <3>1, <3>2
  <2>5. ASSUME d.status = "accepted", WithdrawsOnce(Inst(r)), ~DecidedWithFailed(r)
        PROVE  logical'[Rec(r).event] # None
    <3>1. First(r, D) = r \/ logical[Rec(r).event] # None
      BY <1>0, <1>1, <1>7, <2>5, NewIsGrounded
    <3>2. Rec(r).event \in Events /\ logical \in [Events -> RecordIds \cup {None}]
      BY <1>2, RecordEvent DEF InboxInv, TypeOK, LedgerTypeOK
    <3>3. CASE logical[Rec(r).event] # None
      BY <3>2, <3>3, LedgerGrows
    <3>4. CASE logical[Rec(r).event] = None
      <4>1. logical' = [logical EXCEPT ![Rec(r).event] = r]
        BY <1>0, <1>1, <2>2, <2>5, <3>1, <3>4 DEF PersistRecord
      <4>2. r # None
        <5>1. r[1] \in Nat /\ r[2] \in Nat /\ r = <<r[1], r[2]>>
          BY <1>2, RecordParts
        <5>2. <<r[1], r[2]>> \in Seq(Nat)
          BY <5>1
        <5> QED BY <5>1, <5>2, NoneAssumption
      <4> QED BY <3>2, <4>1, <4>2
    <3> QED BY <3>3, <3>4
  <2>6. Grounded(d)'
    BY <1>2, <1>4, <1>5, <1>7, <2>2, <2>3, <2>4, <2>5 DEF Grounded
  <2> QED BY <2>6
<1> QED BY <1>6, <1>7

\* By the deliveries there were and the one that a step adds.
LEMMA NextGrounded ==
  ASSUME EventsAreResent, InboxInv, DrainInv, RowsArePosted, GroundedInv, [Next]_vars
  PROVE  GroundedInv'
<1> SUFFICES ASSUME ReceivedInOrder', readFaults' = 0, NEW d \in deliveries' PROVE Grounded(d)'
  BY DEF GroundedInv
<1>1. ReceivedInOrder /\ readFaults = 0
  BY StepFrame
<1>2. CASE d \in deliveries
  BY <1>1, <1>2, GroundedStays DEF GroundedInv
<1>3. CASE d \notin deliveries
  <2>1. deliveries' # deliveries
    BY <1>3
  <2>2. PICK r \in todo : PersistRecord(r)
    BY <2>1, OnlyPersistRecord
  <2>3. d = Decision(r, hist \cup pend)
    BY <1>3, <2>2 DEF PersistRecord
  <2> QED BY <1>1, <2>2, <2>3, PersistGrounded
<1> QED BY <1>2, <1>3

\* Whatever requests overlapped and whatever drains failed: a delivery that was accepted
\* has its logical event, unless bodies were received out of order or lost, the
\* installation withdrew twice or a batch that took part in the decision was failed.
THEOREM AcceptedDeliveriesAreLogical ==
  ASSUME EventsAreResent
  PROVE  Spec => []AcceptedIsLogical
<1>1. Init => RowsArePosted /\ GroundedInv
  BY DEF Init, RowsArePosted, GroundedInv
<1>2. InboxInv /\ DrainInv /\ RowsArePosted /\ GroundedInv /\ [Next]_vars => RowsArePosted' /\ GroundedInv'
  BY NextRowsArePosted, NextGrounded
<1>3. GroundedInv => AcceptedIsLogical
  BY DEF GroundedInv, Grounded, AcceptedIsLogical
<1> QED BY <1>1, <1>2, <1>3, InboxInvariant, DrainInvariant, PTL DEF Spec

-----------------------------------------------------------------------------
(* Requests that do not overlap.                                            *)

\* One request at a time is received, inserted and committed.
OneAtATime ==
  /\ IsFiniteSet(requests) /\ \A p, q \in requests : p = q
  /\ requests # {} => Uncommitted = {}
  /\ \A b \in Uncommitted : b = Len(inbox)
  /\ \A b \in DOMAIN inbox : inbox[b].at <= clock
  /\ \A q \in requests : q.at <= clock /\ \A b \in DOMAIN inbox : inbox[b].at < q.at

\* Nothing is being received.
LEMMA InitOneAtATime == Init => OneAtATime /\ ReceivedInOrder
<1>1. IsFiniteSet({})
  BY FS_EmptySet
<1> QED BY <1>1 DEF Init, OneAtATime, ReceivedInOrder, Uncommitted

\* Receive waits until nothing is being received or committed.
LEMMA NextOneAtATime ==
  ASSUME MaxOverlap = 1, InboxInv, OneAtATime, ReceivedInOrder, [Next]_vars
  PROVE  OneAtATime' /\ ReceivedInOrder'
<1>0. /\ ApiTypeOK /\ state \in Seq(States) /\ inbox \in Seq(BatchRows) /\ Len(state) = Len(inbox)
      /\ clock \in Nat
      /\ \A b \in DOMAIN inbox : inbox[b].at \in Nat
      /\ DOMAIN state = DOMAIN inbox
  BY InboxRows DEF InboxInv, TypeOK, ApiTypeOK
<1>1. ASSUME NEW body \in Bodies, Receive(body) PROVE OneAtATime' /\ ReceivedInOrder'
  <2>1. IsFiniteSet(Uncommitted)
    <3>1. IsFiniteSet(1 .. Len(state)) /\ Uncommitted \subseteq 1 .. Len(state)
      BY <1>0, FS_Interval DEF Uncommitted
    <3> QED BY <3>1, FS_Subset
  <2>2. Cardinality(requests) \in Nat /\ Cardinality(Uncommitted) \in Nat
    BY <2>1, FS_CardinalityType DEF OneAtATime
  <2>3. Cardinality(requests) = 0 /\ Cardinality(Uncommitted) = 0
    BY <1>1, <2>2 DEF Receive
  <2>4. requests = {} /\ Uncommitted = {}
    BY <2>1, <2>3, FS_EmptySet DEF OneAtATime
  <2>5. /\ requests' = {[at |-> clock + 1, body |-> body]} /\ clock' = clock + 1 /\ UNCHANGED <<inbox, state>>
    BY <1>1, <2>4 DEF Receive
  <2>6. IsFiniteSet(requests')
    BY <2>5, FS_Singleton
  <2> QED BY <1>0, <2>4, <2>5, <2>6 DEF OneAtATime, ReceivedInOrder, Uncommitted
<1>2. ASSUME NEW q \in requests, Insert(q) PROVE OneAtATime' /\ ReceivedInOrder'
  <2> DEFINE row == [at |-> q.at, inst |-> q.body.inst, recs |-> q.body.recs]
  <2>1. /\ inbox' = Append(inbox, row) /\ state' = Append(state, "uncommitted") /\ clock' = clock
        /\ requests' = requests \ {q} /\ row.at = q.at
    BY <1>2 DEF Insert
  <2> HIDE DEF row
  <2>2. requests' = {} /\ IsFiniteSet(requests')
    BY <2>1, FS_EmptySet DEF OneAtATime
  <2>3. /\ Len(inbox') = Len(inbox) + 1 /\ DOMAIN inbox' = 1 .. Len(inbox) + 1
        /\ DOMAIN state' = 1 .. Len(inbox) + 1
        /\ \A b \in 1 .. Len(inbox) : inbox'[b] = inbox[b] /\ state'[b] = state[b]
        /\ inbox'[Len(inbox) + 1] = row /\ DOMAIN inbox = 1 .. Len(inbox)
    BY <1>0, <2>1
  <2>4. Len(inbox) \in Nat /\ q.at \in Nat
    BY <1>0 DEF ApiTypeOK
  <2>5. \A b \in Uncommitted' : b = Len(inbox')
    BY <1>0, <2>3, <2>4 DEF OneAtATime, Uncommitted
  <2>6. \A b \in DOMAIN inbox' : inbox'[b].at <= clock
    BY <1>0, <2>1, <2>3, <2>4 DEF OneAtATime
  <2>7. ReceivedInOrder'
    BY <1>0, <2>1, <2>3, <2>4 DEF OneAtATime, ReceivedInOrder
  <2> QED BY <2>1, <2>2, <2>5, <2>6, <2>7 DEF OneAtATime
<1>3. ASSUME UNCHANGED apiVars, DOMAIN state' = DOMAIN state,
             \A b \in DOMAIN state : state'[b] = state[b] \/ state'[b] # "uncommitted"
      PROVE  OneAtATime' /\ ReceivedInOrder'
  BY <1>3 DEF OneAtATime, ReceivedInOrder, Uncommitted, apiVars
<1>4. CASE Api
  <2>1. ASSUME NEW b \in DOMAIN state, Commit(b) \/ Abort(b) PROVE OneAtATime' /\ ReceivedInOrder'
    BY <1>0, <1>3, <2>1 DEF Commit, Abort
  <2> QED BY <1>1, <1>2, <1>4, <2>1 DEF Api
<1>5. CASE Drain
  <2>1. ASSUME NEW b \in DOMAIN state, AppendProcessed(b) \/ AppendFailed(b)
        PROVE  OneAtATime' /\ ReceivedInOrder'
    BY <1>0, <1>3, <2>1 DEF AppendProcessed, AppendFailed
  <2>2. CASE UNCHANGED <<apiVars, state>>
    BY <1>3, <2>2
  <2> QED BY <1>5, <2>1, <2>2 DEF Drain, Select, Evaluate, NextLoop, Finish, LinkRecords,
        PersistRecord, PersistConflict, PersistAttribution, PersistLate, QueueLookup
<1>6. CASE Faults
  <2>1. ASSUME NEW b \in DOMAIN state, LoseBody(b) PROVE OneAtATime' /\ ReceivedInOrder'
    BY <1>0, <1>3, <2>1 DEF LoseBody
  <2>2. CASE UNCHANGED <<apiVars, state>>
    BY <1>3, <2>2
  <2> QED BY <1>6, <2>1, <2>2 DEF Faults, TransactionFails, Crash
<1>7. CASE UNCHANGED vars
  BY <1>3, <1>7 DEF vars
<1> QED BY <1>4, <1>5, <1>6, <1>7 DEF Next

\* What commits during a drain comes after everything the drain reads.
DrainIsPrefix ==
  readFaults = 0 /\ Draining =>
    \A b \in hist \cup pend, c \in Live : c <= b => c \in hist \cup pend

\* No drain.
LEMMA InitDrainIsPrefix == Init => DrainIsPrefix
  BY DEF Init, DrainIsPrefix, Draining

\* By the kinds of steps; Commit makes the last row visible.
LEMMA NextDrainIsPrefix ==
  ASSUME InboxInv, DrainInv, OneAtATime, DrainIsPrefix, [Next]_vars
  PROVE  DrainIsPrefix'
<1>0. /\ ApiTypeOK /\ state \in Seq(States) /\ pend \subseteq DOMAIN state /\ hist \subseteq DOMAIN state
      /\ DOMAIN state = DOMAIN inbox /\ DOMAIN inbox = 1 .. Len(inbox) /\ Len(inbox) \in Nat
  BY DEF InboxInv, TypeOK, ApiTypeOK, DrainTypeOK
<1>r. readFaults' = 0 => readFaults = 0
  BY StepFrame
<1> SUFFICES ASSUME readFaults' = 0, Draining'
             PROVE  \A b \in hist' \cup pend', c \in Live' : c <= b => c \in hist' \cup pend'
  BY DEF DrainIsPrefix
<1>1. CASE Within
  BY <1>1, <1>r DEF Within, DrainIsPrefix, Draining, Live
<1>2. CASE Leaves
  BY <1>2 DEF Leaves, Draining
<1>3. CASE Select
  BY <1>3 DEF Select, Live
<1>4. CASE Evaluate
  <2>1. /\ phase = "decode" /\ state' = state /\ pend' = pend
        /\ phase' \in {"idle", "fail"} \/ (phase' = "persist" /\ hist' = hist)
    BY <1>4 DEF Evaluate
  <2> QED BY <1>r, <2>1 DEF DrainIsPrefix, Draining, Live
<1>5. CASE NextLoop
  BY <1>5, <1>r DEF NextLoop, DrainIsPrefix, Draining, Live
<1>6. ASSUME NEW q \in requests, Insert(q) PROVE DrainIsPrefix'
  <2>1. /\ UNCHANGED <<phase, hist, pend>>
        /\ DOMAIN state \subseteq DOMAIN state'
        /\ \A b \in DOMAIN state : state'[b] = state[b]
        /\ \A b \in DOMAIN state' : b \notin DOMAIN state => state'[b] = "uncommitted"
    BY <1>6, InsertFacts DEF Insert, drainVars, InboxInv
  <2>2. Live' = Live
    BY <2>1 DEF Live
  <2> QED BY <1>r, <2>1, <2>2 DEF DrainIsPrefix, Draining
<1>7. ASSUME NEW b \in DOMAIN state, Commit(b) \/ Abort(b) PROVE DrainIsPrefix'
  <2>1. /\ UNCHANGED <<phase, hist, pend>>
        /\ DOMAIN state' = DOMAIN state /\ state[b] = "uncommitted"
        /\ \A c \in DOMAIN state : c # b => state'[c] = state[c]
    BY <1>0, <1>7 DEF Commit, Abort, drainVars
  <2>2. b = Len(inbox)
    BY <2>1 DEF OneAtATime, Uncommitted
  <2>3. hist \cup pend \subseteq Live /\ b \notin Live
    BY <2>1 DEF DrainInv, HistoryIsProcessed, DrainIsLive, Processed, Live, Draining
  <2>4. Live' \subseteq Live \cup {b}
    BY <2>1 DEF Live
  <2>5. \A c \in hist \cup pend : ~(b <= c)
    <3>1. \A c \in hist \cup pend : c \in Nat /\ c <= Len(inbox) /\ c # b
      BY <1>0, <2>3
    <3> QED BY <1>0, <2>2, <3>1
  <2> QED BY <1>r, <2>1, <2>4, <2>5 DEF DrainIsPrefix, Draining
<1>8. ASSUME NEW b \in DOMAIN state, AppendProcessed(b) \/ AppendFailed(b) PROVE DrainIsPrefix'
  <2>1. /\ UNCHANGED <<phase, hist, pend>> /\ DOMAIN state' = DOMAIN state /\ b \in pend
        /\ phase = "mark"
        /\ \A c \in DOMAIN state : c # b => state'[c] = state[c]
    BY <1>0, <1>8 DEF AppendProcessed, AppendFailed, IsNextRow, InboxInv, TypeOK, DrainTypeOK, Draining
  <2> QED BY <1>r, <2>1 DEF DrainIsPrefix, Draining, Live
<1>9. ASSUME NEW b \in DOMAIN state, LoseBody(b) PROVE FALSE
  BY <1>9, BodyKept
<1> QED BY <1>1, <1>2, <1>3, <1>4, <1>5, <1>6, <1>7, <1>8, <1>9, StepKinds DEF DrainIsPrefix

\* Then every view of the worker continues the one before it.
LEMMA SeenFollows ==
  ASSUME InboxInv, DrainInv, OneAtATime, DrainIsPrefix, [Next]_vars, readFaults' = 0
  PROVE  /\ \A b \in Seen, c \in Seen' : c <= b => c \in Seen
         /\ inbox' = inbox \/ Seen' = Seen
<1>0. /\ ApiTypeOK /\ state \in Seq(States) /\ pend \subseteq DOMAIN state /\ hist \subseteq DOMAIN state
      /\ DOMAIN state = DOMAIN inbox /\ DOMAIN inbox = 1 .. Len(inbox) /\ Len(inbox) \in Nat
  BY DEF InboxInv, TypeOK, ApiTypeOK, DrainTypeOK
<1>r. readFaults = 0
  BY StepFrame
<1>a. Draining => \A b \in hist \cup pend, c \in Live : c <= b => c \in hist \cup pend
  BY <1>r DEF DrainIsPrefix
<1>1. CASE Within
  BY <1>1 DEF Within, Seen, Draining, Live
<1>2. CASE Leaves
  BY <1>2, <1>a DEF Leaves, Seen, Draining, Live
<1>3. CASE Select
  BY <1>3 DEF Select, Seen, Draining, Live, apiVars
<1>4. CASE Evaluate
  <2>1. /\ phase = "decode" /\ state' = state /\ pend' = pend /\ inbox' = inbox
        /\ phase' \in {"idle", "fail"} \/ (phase' = "persist" /\ hist' = hist)
    BY <1>4 DEF Evaluate, apiVars
  <2> QED BY <1>a, <2>1 DEF Seen, Draining, Live
<1>5. CASE NextLoop
  BY <1>5 DEF NextLoop, Seen, Draining, apiVars
<1>6. ASSUME NEW q \in requests, Insert(q) PROVE Seen' = Seen
  <2>1. /\ UNCHANGED <<phase, hist, pend>>
        /\ DOMAIN state \subseteq DOMAIN state'
        /\ \A b \in DOMAIN state : state'[b] = state[b]
        /\ \A b \in DOMAIN state' : b \notin DOMAIN state => state'[b] = "uncommitted"
    BY <1>6, InsertFacts DEF Insert, drainVars, InboxInv
  <2>2. Live' = Live
    BY <2>1 DEF Live
  <2> QED BY <2>1, <2>2 DEF Seen, Draining
<1>7. ASSUME NEW b \in DOMAIN state, Commit(b) \/ Abort(b)
      PROVE  inbox' = inbox /\ \A x \in Seen, c \in Seen' : c <= x => c \in Seen
  <2>1. /\ UNCHANGED <<phase, hist, pend, inbox>>
        /\ DOMAIN state' = DOMAIN state /\ state[b] = "uncommitted"
        /\ \A c \in DOMAIN state : c # b => state'[c] = state[c]
    BY <1>0, <1>7 DEF Commit, Abort, drainVars, apiVars
  <2>2. b = Len(inbox)
    BY <2>1 DEF OneAtATime, Uncommitted
  <2>3. b \notin Live
    BY <2>1 DEF Live
  <2>4. Live' \subseteq Live \cup {b}
    BY <2>1 DEF Live
  <2>5. \A c \in Live : ~(b <= c)
    <3>1. \A c \in Live : c \in Nat /\ c <= Len(inbox) /\ c # b
      BY <1>0, <2>3 DEF Live
    <3> QED BY <1>0, <2>2, <3>1
  <2> QED BY <2>1, <2>4, <2>5 DEF Seen, Draining
<1>8. ASSUME NEW b \in DOMAIN state, AppendProcessed(b) \/ AppendFailed(b)
      PROVE  inbox' = inbox /\ Seen' \subseteq Seen
  <2>1. /\ UNCHANGED <<phase, hist, pend, inbox>> /\ DOMAIN state' = DOMAIN state
        /\ \/ phase = "mark"
           \/ phase = "fail" /\ state'[b] = "failed"
        /\ \A c \in DOMAIN state : c # b => state'[c] = state[c]
    BY <1>0, <1>8 DEF AppendProcessed, AppendFailed, apiVars
  <2> QED BY <2>1 DEF Seen, Draining, Live
<1>9. ASSUME NEW b \in DOMAIN state, LoseBody(b) PROVE FALSE
  BY <1>9, BodyKept
<1> QED BY <1>1, <1>2, <1>3, <1>4, <1>5, <1>6, <1>7, <1>8, <1>9, StepKinds

\* What the next view may drop or withdraw concerns no record that is steady.
Steady(r) == NothingFailed \/ WithdrawsOnce(Inst(r)) \/ Rec(r).kind \notin {"install", "custom"}

\* A record that is steady was steady before.
LEMMA SteadyFrame ==
  ASSUME InboxInv, [Next]_vars, NEW r \in RecordIds, Steady(r)'
  PROVE  Steady(r)
<1>1. WithdrawsOnce(Inst(r))' => WithdrawsOnce(Inst(r))
  BY PremisesFrame
<1>2. Rec(r)' = Rec(r)
  BY RecordFrame
<1>3. NothingFailed' => NothingFailed
  BY StepFrame
<1> QED BY <1>1, <1>2, <1>3 DEF Steady

\* A step from the view D to the view E: the decisions about D stand.
LEMMA ViewStep ==
  ASSUME InboxInv, DrainInv, OneAtATime, ReceivedInOrder, DrainIsPrefix, [Next]_vars, readFaults' = 0,
         NEW D, D = Seen, NEW E, E = Seen'
  PROVE  /\ D \subseteq DOMAIN inbox /\ D \subseteq Live /\ E \subseteq Live'
         /\ D \subseteq E \cup Failed'
         /\ NothingFailed' => D \subseteq E
         /\ \A r \in AcceptedUnique(D) : r[1] \in E /\ Steady(r)' => r \in AcceptedUnique(E)'
         /\ \A r \in RecordsIn(D) :
               NothingFailed' /\ WithdrawsOnce(Inst(r))' => Decision(r, E)' = Decision(r, D)
<1>0. InboxInv' /\ DrainInv'
  BY NextInboxInv, NextDrainInv
<1>1. D \subseteq E \cup Failed' /\ D \subseteq Live
  BY SeenFrame
<1>2. E \subseteq Live'
  BY <1>0 DEF Seen, DrainInv, HistoryIsProcessed, DrainIsLive, Processed, Live
<1>3. D \subseteq DOMAIN inbox /\ ApiTypeOK /\ ApiTypeOK'
  BY <1>0, <1>1 DEF Live, InboxInv, TypeOK, ApiTypeOK
<1>4. NothingFailed' => D \subseteq E
  BY <1>1 DEF NothingFailed, Failed
<1>5. /\ \A b \in DOMAIN inbox : inbox'[b] = inbox[b]
      /\ DOMAIN state' = DOMAIN inbox'
  BY StepFrame
<1>6. Follows(D, E) /\ (inbox' = inbox \/ D = E)
  BY SeenFollows DEF Follows
<1>7. /\ \A r \in RecordsIn(D) : r \in RecordIds /\ Decision(r, D)' = Decision(r, D)
      /\ AcceptedUnique(D)' = AcceptedUnique(D)
  BY <1>3, <1>5, DecisionsStay, RecordsInBatches
<1>8. CASE D = E
  BY <1>1, <1>2, <1>3, <1>4, <1>7, <1>8
<1>9. CASE inbox' = inbox
  <2>1. E \subseteq DOMAIN inbox
    BY <1>2, <1>5, <1>9 DEF Live
  <2>2. AcceptedUnique(E)' = AcceptedUnique(E) /\ \A r \in RecordsIn(E) : Decision(r, E)' = Decision(r, E)
    BY <1>3, <1>9, <2>1, DecisionsStay
  <2>3. ASSUME NEW r \in RecordIds, WithdrawsOnce(Inst(r))', NEW X,
               X \subseteq Committed', X \subseteq DOMAIN inbox
        PROVE  \A v, w \in Withdrawals(Inst(r), X) : v = w
    <3>1. PICK C : C = Committed'
      OBVIOUS
    <3>2. C \subseteq DOMAIN inbox
      BY <1>5, <1>9, <3>1 DEF Committed
    <3>3. \A v, w \in Withdrawals(Inst(r), C) : v = w
      BY <1>9, <2>3, <3>1 DEF WithdrawsOnce, Withdrawals, RecordsIn, RecordsOf, Rec, Inst
    <3>4. Withdrawals(Inst(r), X) \subseteq Withdrawals(Inst(r), C)
      BY <1>3, <2>3, <3>1, <3>2, WithdrawalsGrow
    <3> QED BY <3>3, <3>4
  <2>4. D \cup E \subseteq Committed'
    BY <1>1, <1>2 DEF Live, Failed, Committed
  <2>5. ASSUME NEW r \in AcceptedUnique(D), r[1] \in E, Steady(r)' PROVE r \in AcceptedUnique(E)
    <3>1. r \in RecordIds
      BY <1>3, AcceptedUniqueFacts, ValidRecords
    <3>2. NothingFailed' \/ WithdrawsOnce(Inst(r))' \/ Rec(r)'.kind \notin {"install", "custom"}
      BY <2>5 DEF Steady
    <3>3. Rec(r)' = Rec(r)
      BY <1>9 DEF Rec
    <3>4. \/ D \subseteq E
          \/ \A v, w \in Withdrawals(Inst(r), D \cup E) : v = w
          \/ Rec(r).kind \notin {"install", "custom"}
      BY <1>3, <1>4, <2>1, <2>3, <2>4, <3>1, <3>2, <3>3
    <3> QED BY <1>3, <1>6, <2>1, <2>5, <3>4, AcceptedUniqueStays
  <2>6. ASSUME NEW r \in RecordsIn(D), NothingFailed', WithdrawsOnce(Inst(r))'
        PROVE  Decision(r, E)' = Decision(r, D)
    <3>1. D \subseteq E
      BY <1>4, <2>6
    <3>2. r \in RecordsIn(E)
      BY <3>1 DEF RecordsIn
    <3>3. \A v, w \in Withdrawals(Inst(r), E) : v = w
      BY <1>7, <2>1, <2>3, <2>4, <2>6
    <3> QED BY <1>3, <1>6, <2>1, <2>2, <3>1, <3>2, <3>3, DecisionStays
  <2> QED BY <1>1, <1>2, <1>3, <1>4, <2>2, <2>5, <2>6
<1> QED BY <1>6, <1>8, <1>9

\* The order of the inbox while requests do not overlap, as one invariant.
OrderInv == OneAtATime /\ ReceivedInOrder /\ DrainIsPrefix /\ RowsArePosted

\* It holds as long as MaxOverlap keeps requests from overlapping.
LEMMA OrderInvariant ==
  ASSUME MaxOverlap = 1
  PROVE  Spec => []OrderInv
<1>1. Init => OrderInv
  BY InitOneAtATime, InitDrainIsPrefix DEF OrderInv, Init, RowsArePosted
<1>2. InboxInv /\ DrainInv /\ OrderInv /\ [Next]_vars => OrderInv'
  BY NextOneAtATime, NextDrainIsPrefix, NextRowsArePosted DEF OrderInv
<1> QED BY <1>1, <1>2, InboxInvariant, DrainInvariant, PTL DEF Spec

-----------------------------------------------------------------------------
(* The ledger and what the worker has seen.                                 *)

\* A record that a drain makes a logical event.
LEMMA NewLogical ==
  ASSUME InboxInv, DrainInv, NEW s \in todo, PersistRecord(s), NEW D, D = hist \cup pend,
         Decision(s, D).status = "accepted", Decision(s, D).resolution = "unique"
  PROVE  /\ s \in RecordIds /\ s[1] \in pend /\ s \in AcceptedUnique(D)
         /\ D = Seen /\ D = Seen' /\ inbox' = inbox /\ D \subseteq DOMAIN inbox
<1>1. /\ ApiTypeOK /\ D \subseteq DOMAIN inbox /\ s \in RecordIds /\ s[1] \in pend
      /\ phase = "persist" /\ UNCHANGED <<inbox, state, phase, hist, pend>>
  BY DEF InboxInv, TypeOK, ApiTypeOK, DrainTypeOK, DrainInv, PersistsOfDrain, PersistRecord, apiVars
<1>2. D = Seen /\ D = Seen'
  BY <1>1 DEF Seen, Draining
<1>3. Rec(s).kind # "schema_invalid"
  BY DEF Decision
<1>4. s \in Valid(D)
  BY <1>1, <1>3, ValidRecords
<1> QED BY <1>1, <1>2, <1>4 DEF AcceptedUnique

\* The logical event of an event_id is the record the evaluation selects for it, or its
\* batch was failed.
LogicalIsAccepted ==
  readFaults = 0 =>
    \A D \in {Seen} : \A e \in Events : \A r \in {logical[e]} : r # None =>
      /\ r \in RecordIds /\ Rec(r).event = e /\ r[1] \in D \cup Failed
      /\ r[1] \in D /\ Steady(r) => r \in AcceptedUnique(D)

\* By the logical events there were and the one that PersistRecord adds.
LEMMA NextLogicalIsAccepted ==
  ASSUME InboxInv, DrainInv, OrderInv, LogicalIsAccepted, [Next]_vars
  PROVE  LogicalIsAccepted'
<1> SUFFICES ASSUME readFaults' = 0, NEW E, E = Seen', NEW e \in Events, NEW r, r = logical'[e], r # None
             PROVE  /\ r \in RecordIds' /\ Rec(r)'.event = e /\ r[1] \in E \cup Failed'
                    /\ r[1] \in E /\ Steady(r)' => r \in AcceptedUnique(E)'
  BY DEF LogicalIsAccepted
<1>1. PICK D : D = Seen
  OBVIOUS
<1>2. /\ D \subseteq E \cup Failed' /\ E \subseteq Live'
      /\ \A x \in AcceptedUnique(D) : x[1] \in E /\ Steady(x)' => x \in AcceptedUnique(E)'
  BY <1>1, ViewStep DEF OrderInv
<1>3. readFaults = 0 /\ Failed \subseteq Failed'
  BY StepFrame
<1>4. /\ RecordIds \subseteq RecordIds' /\ \A x \in RecordIds : Rec(x)' = Rec(x)
  BY RecordFrame
<1>5. CASE logical[e] # None
  <2>1. r = logical[e]
    BY <1>5, LedgerGrows
  <2>2. /\ r \in RecordIds /\ Rec(r).event = e /\ r[1] \in D \cup Failed
        /\ r[1] \in D /\ Steady(r) => r \in AcceptedUnique(D)
    BY <1>1, <1>3, <2>1 DEF LogicalIsAccepted
  <2>3. r[1] \in E => r[1] \in D
    BY <1>2, <1>3, <2>2 DEF Live, Failed
  <2>4. Steady(r)' => Steady(r)
    BY <2>2, SteadyFrame
  <2> QED BY <1>2, <1>3, <1>4, <2>2, <2>3, <2>4
<1>6. CASE logical[e] = None
  <2>1. logical' # logical
    BY <1>6
  <2>2. PICK s \in todo : PersistRecord(s)
    BY <2>1, OnlyPersistRecord
  <2>3. PICK F : F = hist \cup pend
    OBVIOUS
  <2>4. /\ Decision(s, F).status = "accepted" /\ Decision(s, F).resolution = "unique"
        /\ logical' = [logical EXCEPT ![Rec(s).event] = s]
    BY <2>1, <2>2, <2>3 DEF PersistRecord
  <2>5. logical \in [Events -> RecordIds \cup {None}]
    BY DEF InboxInv, TypeOK, LedgerTypeOK
  <2>6. r = s /\ e = Rec(s).event
    BY <1>6, <2>4, <2>5
  <2>7. /\ s \in RecordIds /\ s[1] \in pend /\ s \in AcceptedUnique(F)
        /\ F = Seen /\ F = Seen' /\ inbox' = inbox /\ F \subseteq DOMAIN inbox
    BY <2>2, <2>3, <2>4, NewLogical
  <2>8. AcceptedUnique(F)' = AcceptedUnique(F)
    BY <2>7, DecisionsStay DEF OrderInv, InboxInv, TypeOK
  <2>9. E = F /\ s[1] \in F
    BY <2>3, <2>7
  <2> QED BY <1>4, <2>6, <2>7, <2>8, <2>9
<1> QED BY <1>5, <1>6

-----------------------------------------------------------------------------
(* The loops that write attributions.                                       *)

Recovered(r) == r \in late \/ (r \in DOMAIN attr /\ attr[r] = "valid_install_referrer")

\* What the loops of a drain have done of what the evaluation asks of them.
LoopsInv ==
  \A H \in {hist}, P \in {pend} :
    /\ phase \in {"persist", "attribute", "late", "queue", "mark"} => AnchorsOK(H \cup P)
    /\ phase = "attribute" =>
          todo \subseteq Attributions(H, P) /\ Attributions(H, P) \subseteq todo \cup DOMAIN attr
    /\ phase \in {"late", "queue", "mark"} => Attributions(H, P) \subseteq DOMAIN attr
    /\ phase = "late" => todo \subseteq Attributions(H, P)
    /\ phase \in {"late", "queue", "mark"} =>
          \A r \in Attributions(H, P) :
             (phase = "late" /\ r \in todo) \/ Recovered(r) \/ Reason(r, H \cup P) # "valid_install_referrer"
    /\ phase = "queue" => todo \subseteq TokenInstalls(H, P)

\* What is selected for the loops are records of the drain.
LEMMA AttributionRecords ==
  ASSUME NEW H, NEW P
  PROVE  /\ Attributions(H, P) \subseteq AcceptedUnique(H \cup P)
         /\ TokenInstalls(H, P) \subseteq Attributions(H, P)
         /\ AcceptedUnique(H \cup P) \subseteq RecordsIn(H \cup P)
  BY DEF Attributions, TokenInstalls, AcceptedUnique, Valid

\* A step that leaves the drain where it is.
LEMMA LoopsFrame ==
  ASSUME InboxInv, OrderInv, LoopsInv, [Next]_vars, UNCHANGED <<hist, pend, phase>>,
         todo' \subseteq todo, phase \in {"attribute", "late"} => todo' = todo
  PROVE  LoopsInv'
<1>1. PICK H, P : H = hist /\ P = pend
  OBVIOUS
<1>2. ApiTypeOK /\ ReceivedInOrder /\ H \cup P \subseteq DOMAIN inbox
  BY <1>1 DEF InboxInv, TypeOK, ApiTypeOK, DrainTypeOK, OrderInv
<1>3. \A b \in DOMAIN inbox : inbox'[b] = inbox[b]
  BY StepFrame
<1>4. /\ AnchorsOK(H \cup P)' <=> AnchorsOK(H \cup P)
      /\ \A r \in RecordsIn(H \cup P) : Reason(r, H \cup P)' = Reason(r, H \cup P)
      /\ Attributions(H, P)' = Attributions(H, P)
      /\ TokenInstalls(H, P)' = TokenInstalls(H, P)
  BY <1>2, <1>3, SelectionsStay
<1>5. DOMAIN attr \subseteq DOMAIN attr' /\ \A r : Recovered(r) => Recovered(r)'
  BY LedgerGrows DEF Recovered
<1>6. Attributions(H, P) \subseteq RecordsIn(H \cup P)
  BY AttributionRecords
<1>7. \A F \in {hist'}, Q \in {pend'} : F = H /\ Q = P
  BY <1>1
<1> QED BY <1>1, <1>4, <1>5, <1>6, <1>7 DEF LoopsInv

\* No drain.
LEMMA InitLoopsInv == Init => LoopsInv
  BY DEF Init, LoopsInv

\* The loops that write attributions, and the steps that leave the drain where it is.
LEMMA NextLoopsInv ==
  ASSUME InboxInv, OrderInv, LoopsInv, [Next]_vars
  PROVE  LoopsInv'
<1>0. PICK H, P : H = hist /\ P = pend
  OBVIOUS
<1>1. CASE UNCHANGED <<hist, pend, phase, todo>>
  BY <1>1, LoopsFrame
<1>2. CASE phase' \in {"idle", "decode", "fail"}
  BY <1>2 DEF LoopsInv
<1>3. CASE Evaluate
  <2>1. CASE phase' \in {"idle", "fail"}
    BY <1>2, <2>1
  <2>2. CASE phase' = "persist"
    <3>1. AnchorsOK(H \cup P) /\ hist' = H /\ pend' = P /\ inbox' = inbox
      BY <1>0, <1>3, <2>2 DEF Evaluate, apiVars
    <3>2. ApiTypeOK /\ ReceivedInOrder /\ H \cup P \subseteq DOMAIN inbox
      BY <1>0 DEF InboxInv, TypeOK, ApiTypeOK, DrainTypeOK, OrderInv
    <3>3. AnchorsOK(H \cup P)'
      BY <3>1, <3>2, SelectionsStay
    <3> QED BY <2>2, <3>1, <3>3 DEF LoopsInv
  <2> QED BY <1>3, <2>1, <2>2 DEF Evaluate
<1>4. ASSUME inbox' = inbox
      PROVE  /\ AnchorsOK(H \cup P)' <=> AnchorsOK(H \cup P)
             /\ \A r \in Attributions(H, P) : Reason(r, H \cup P)' = Reason(r, H \cup P)
             /\ Attributions(H, P)' = Attributions(H, P)
             /\ TokenInstalls(H, P)' = TokenInstalls(H, P)
  <2>1. ApiTypeOK /\ ReceivedInOrder /\ H \cup P \subseteq DOMAIN inbox
    BY <1>0 DEF InboxInv, TypeOK, ApiTypeOK, DrainTypeOK, OrderInv
  <2> QED BY <1>4, <2>1, SelectionsStay, AttributionRecords
<1>5. CASE NextLoop
  <2>1. /\ todo = {} /\ UNCHANGED <<inbox, hist, pend, attr, late>>
        /\ \/ phase = "persist" /\ phase' = "attribute" /\ todo' = Attributions(H, P)
           \/ phase = "attribute" /\ phase' = "late" /\ todo' = Attributions(H, P)
           \/ phase = "late" /\ phase' = "queue" /\ todo' = TokenInstalls(H, P)
           \/ phase = "queue" /\ phase' = "mark" /\ todo' = todo
    BY <1>0, <1>5 DEF NextLoop, apiVars, ledgerVars
  <2>2. \A r : Recovered(r)' <=> Recovered(r)
    BY <2>1 DEF Recovered
  <2>3. \A F \in {hist'}, Q \in {pend'} : F = H /\ Q = P
    BY <1>0, <2>1
  <2>4. LoopsInv!(H, P)
    BY <1>0 DEF LoopsInv
  <2> QED BY <1>4, <2>1, <2>2, <2>3, <2>4 DEF LoopsInv
<1>6. ASSUME NEW r \in todo, PersistAttribution(r) PROVE LoopsInv'
  <2>1. /\ phase = "attribute" /\ todo' = todo \ {r} /\ UNCHANGED <<inbox, hist, pend, phase>>
        /\ DOMAIN attr' = DOMAIN attr \cup {r}
    BY <1>6 DEF PersistAttribution, apiVars
  <2>2. \A F \in {hist'}, Q \in {pend'} : F = H /\ Q = P
    BY <1>0, <2>1
  <2>3. LoopsInv!(H, P)
    BY <1>0 DEF LoopsInv
  <2> QED BY <1>4, <2>1, <2>2, <2>3 DEF LoopsInv
<1>7. ASSUME NEW r \in todo, PersistLate(r) PROVE LoopsInv'
  <2>1. /\ phase = "late" /\ todo' = todo \ {r} /\ UNCHANGED <<inbox, hist, pend, phase, attr>>
        /\ late' = IF r \in DOMAIN attr /\ attr[r] # Reason(r, H \cup P)
                      /\ Reason(r, H \cup P) = "valid_install_referrer"
                   THEN late \cup {r} ELSE late
    BY <1>0, <1>7 DEF PersistLate, apiVars
  <2>2. \A F \in {hist'}, Q \in {pend'} : F = H /\ Q = P
    BY <1>0, <2>1
  <2>3. LoopsInv!(H, P)
    BY <1>0 DEF LoopsInv
  <2>4. r \in DOMAIN attr
    BY <2>1, <2>3
  <2>5. Recovered(r)' \/ Reason(r, H \cup P) # "valid_install_referrer"
    BY <2>1, <2>4 DEF Recovered
  <2>6. \A s : Recovered(s) => Recovered(s)'
    BY <2>1 DEF Recovered
  <2> QED BY <1>4, <2>1, <2>2, <2>3, <2>5, <2>6 DEF LoopsInv
<1>8. ASSUME NEW r \in todo, PersistRecord(r) \/ QueueLookup(r) PROVE LoopsInv'
  <2>1. UNCHANGED <<hist, pend, phase>> /\ todo' \subseteq todo /\ phase \in {"persist", "queue"}
    BY <1>8 DEF PersistRecord, QueueLookup
  <2> QED BY <2>1, LoopsFrame
<1>9. CASE Drain
  BY <1>9, <1>1, <1>2, <1>3, <1>5, <1>6, <1>7, <1>8 DEF Drain, Select, Finish, LinkRecords, AppendProcessed,
     AppendFailed, PersistConflict, Caught, drainVars
<1>10. CASE Api \/ Faults \/ UNCHANGED vars
  BY <1>10, <1>1, <1>2 DEF Api, Receive, Insert, Commit, Abort, Faults, LoseBody, TransactionFails, Crash, Caught,
     drainVars, vars
<1> QED BY <1>9, <1>10 DEF Next

-----------------------------------------------------------------------------
(* Late-click recovery.                                                     *)

\* An install whose only click is known has a valid referrer.
LEMMA SoleClickIsValid ==
  ASSUME ApiTypeOK, ReceivedInOrder, NEW C, NEW D, D \subseteq C, C \subseteq DOMAIN inbox,
         NEW r \in AcceptedUnique(D), NEW k \in AcceptedUnique(D),
         Rec(k).kind = "click", Rec(k).inWindow, Rec(k).click = Rec(r).click, Rec(k).click # NoClick,
         \A j \in RecordsIn(C) : Rec(j).kind = "click" /\ Rec(j).click = Rec(r).click => Rec(j).event = Rec(k).event
  PROVE  Reason(r, D) = "valid_install_referrer" /\ k \in Clicks(r, D)
<1>1. k \in Clicks(r, D)
  BY DEF Clicks
<1>2. ASSUME NEW j \in Clicks(r, D) PROVE j = k
  <2>1. j \in AcceptedUnique(D) /\ Rec(j).kind = "click" /\ Rec(j).click = Rec(r).click
    BY <1>2 DEF Clicks
  <2>2. j \in RecordsIn(D)
    BY <2>1 DEF AcceptedUnique, Valid
  <2>3. j \in RecordsIn(C)
    BY <2>2 DEF RecordsIn
  <2>4. Rec(j).event = Rec(k).event
    BY <2>1, <2>3
  <2> QED BY <2>1, <2>4, AcceptedUniqueIsUnique
<1>3. Clicks(r, D) = {k}
  BY <1>1, <1>2
<1>4. Cardinality(Clicks(r, D)) = 1
  BY <1>3, FS_Singleton
<1> QED BY <1>1, <1>3, <1>4 DEF Reason

\* Records of the rows have events of senders.
LEMMA EventsNext ==
  ASSUME RowsArePosted'
  PROVE  \A r \in RecordIds' : Rec(r)'.event \in Events
<1> SUFFICES ASSUME NEW r \in RecordIds' PROVE Rec(r)'.event \in Events
  OBVIOUS
<1>1. PICK b \in DOMAIN inbox' : r \in RecordsOf(b)'
  BY DEF RecordIds
<1>2. r[1] = b /\ r[2] \in 1 .. Len(inbox'[b].recs)
  BY <1>1 DEF RecordsOf
<1>3. PICK body \in Bodies : inbox'[b].recs = body.recs
  BY <1>1 DEF RowsArePosted
<1> QED BY <1>2, <1>3 DEF Rec, Events

\* The premises of late-click recovery for an install r and a click k.
OnlyClick(r, k) ==
  /\ r # None /\ Rec(r).kind = "install" /\ state[r[1]] = "processed"
  /\ Rec(k).kind = "click" /\ Rec(k).inWindow /\ Rec(k).click = Rec(r).click
  /\ logical[Rec(k).event] = k /\ state[k[1]] = "processed"
  /\ readFaults = 0 /\ (NothingFailed \/ WithdrawsOnce(Inst(r)))
  /\ \A j \in RecordsIn(Committed) :
       Rec(j).kind = "click" /\ Rec(j).click = Rec(r).click => Rec(j).event = Rec(k).event
RecoveredInv ==
  \A e \in Events : \A r \in {logical[e]} : \A k \in RecordsIn(Committed) : OnlyClick(r, k) => Recovered(r)

\* A logical event whose batch is processed was one before, and its batch was, unless
\* this step marked the batch.
LEMMA LogicalWasProcessed ==
  ASSUME InboxInv, DrainInv, [Next]_vars, NEW e \in Events, NEW r, r = logical'[e], r # None, r \in RecordIds',
         state'[r[1]] = "processed"
  PROVE  /\ r = logical[e]
         /\ state[r[1]] = "processed" \/ (phase = "mark" /\ r[1] \in pend)
<1>0. ApiTypeOK /\ state \in Seq(States) /\ DOMAIN state = DOMAIN inbox
  BY DEF InboxInv, TypeOK, ApiTypeOK
<1>1. r = logical[e]
  <2>1. CASE logical[e] # None
    BY <2>1, LedgerGrows
  <2>2. CASE logical[e] = None
    <3>1. logical' # logical
      BY <2>2
    <3>2. PICK s \in todo : PersistRecord(s)
      BY <3>1, OnlyPersistRecord
    <3>3. /\ logical' = [logical EXCEPT ![Rec(s).event] = s] /\ state' = state /\ phase = "persist"
      BY <3>1, <3>2 DEF PersistRecord
    <3>4. r = s
      BY <2>2, <3>3 DEF InboxInv, TypeOK, LedgerTypeOK
    <3>5. state[s[1]] = "pending"
      BY <3>3 DEF DrainInv, PersistsOfDrain, DrainIsPending
    <3> QED BY <3>3, <3>4, <3>5
  <2> QED BY <2>1, <2>2
<1>2. r \in RecordIds
  BY <1>1 DEF InboxInv, TypeOK, LedgerTypeOK
<1>3. r[1] \in DOMAIN state
  BY <1>0, <1>2, RecordParts
<1>4. CASE \E b \in DOMAIN state : AppendProcessed(b)
  <2>1. PICK b \in DOMAIN state : AppendProcessed(b)
    BY <1>4
  <2>2. phase = "mark" /\ b \in pend /\ state' = [state EXCEPT ![b] = "processed"]
    BY <2>1 DEF AppendProcessed, IsNextRow, InboxInv, TypeOK, DrainTypeOK
  <2> QED BY <1>0, <1>1, <1>3, <2>2
<1>5. CASE state' = state
  BY <1>1, <1>5
<1>6. CASE \E q \in requests : Insert(q)
  BY <1>1, <1>3, <1>6, InsertFacts DEF InboxInv
<1>7. CASE \E b \in DOMAIN state : Commit(b) \/ Abort(b) \/ AppendFailed(b) \/ LoseBody(b)
  <2>1. PICK b \in DOMAIN state : \/ state' = state
                                  \/ \E v \in {"pending", "aborted", "failed"} : state' = [state EXCEPT ![b] = v]
    BY <1>7 DEF Commit, Abort, AppendFailed, LoseBody
  <2> QED BY <1>0, <1>1, <1>3, <2>1
<1> QED BY <1>4, <1>5, <1>6, <1>7, StepKinds DEF Within, Leaves, Select, Evaluate, NextLoop

\* Only the mark loop can complete the premises, and it comes after the late loop.
LEMMA NextRecoveredInv ==
  ASSUME InboxInv, DrainInv, OrderInv, LogicalIsAccepted, LoopsInv, RecoveredInv, [Next]_vars
  PROVE  RecoveredInv'
<1> SUFFICES ASSUME NEW e \in Events, NEW r, r = logical'[e], NEW k \in RecordsIn(Committed)', OnlyClick(r, k)'
             PROVE  Recovered(r)'
  BY DEF RecoveredInv
<1>1. /\ ApiTypeOK /\ ReceivedInOrder /\ RowsArePosted'
      /\ DOMAIN state = DOMAIN inbox /\ DOMAIN state' = DOMAIN inbox'
      /\ \A b \in DOMAIN inbox : inbox'[b] = inbox[b]
      /\ Committed \subseteq Committed' /\ (NothingFailed' => NothingFailed) /\ readFaults = 0
  BY StepFrame, NextRowsArePosted DEF OrderInv, InboxInv, TypeOK, OnlyClick
<1>2. k \in RecordIds'
  <2>1. PICK b \in Committed' : k \in RecordsOf(b)'
    BY DEF RecordsIn
  <2> QED BY <1>1, <2>1 DEF RecordIds, Committed
<1>3. r \in RecordIds'
  <2>1. InboxInv'
    BY NextInboxInv
  <2> QED BY <2>1 DEF InboxInv, TypeOK, LedgerTypeOK, OnlyClick
<1>4. k # None
  <2>1. k[1] \in Nat /\ k[2] \in Nat /\ k = <<k[1], k[2]>>
    <3>1. PICK b \in DOMAIN inbox' : k \in RecordsOf(b)'
      BY <1>2 DEF RecordIds
    <3>2. b \in Nat
      <4>1. InboxInv'
        BY NextInboxInv
      <4>2. inbox' \in Seq(BatchRows)
        BY <4>1 DEF InboxInv, TypeOK, ApiTypeOK
      <4> QED BY <3>1, <4>2
    <3> QED BY <3>1, <3>2 DEF RecordsOf
  <2>2. <<k[1], k[2]>> \in Seq(Nat)
    BY <2>1
  <2> QED BY <2>1, <2>2, NoneAssumption
<1>5. PICK f : f = Rec(k)'.event
  OBVIOUS
<1>6. f \in Events /\ k = logical'[f]
  BY <1>1, <1>2, <1>5, EventsNext DEF OnlyClick
<1>7. /\ r = logical[e] /\ (state[r[1]] = "processed" \/ (phase = "mark" /\ r[1] \in pend))
      /\ k = logical[f] /\ (state[k[1]] = "processed" \/ (phase = "mark" /\ k[1] \in pend))
  <2>1. r # None /\ state'[r[1]] = "processed" /\ state'[k[1]] = "processed"
    BY DEF OnlyClick
  <2>2. r = logical[e] /\ (state[r[1]] = "processed" \/ (phase = "mark" /\ r[1] \in pend))
    BY <1>3, <2>1, LogicalWasProcessed
  <2>3. k = logical[f] /\ (state[k[1]] = "processed" \/ (phase = "mark" /\ k[1] \in pend))
    BY <1>2, <1>4, <1>6, <2>1, LogicalWasProcessed
  <2> QED BY <2>2, <2>3
<1>8. /\ r \in RecordIds /\ k \in RecordIds /\ r # None
      /\ r[1] \in DOMAIN state /\ k[1] \in DOMAIN state
  <2>1. r # None
    BY DEF OnlyClick
  <2>2. logical \in [Events -> RecordIds \cup {None}]
    BY DEF InboxInv, TypeOK, LedgerTypeOK
  <2>3. r \in RecordIds /\ k \in RecordIds
    BY <1>4, <1>6, <1>7, <2>1, <2>2
  <2> QED BY <1>1, <2>1, <2>3, RecordParts
<1>9. /\ Rec(r)' = Rec(r) /\ Inst(r)' = Inst(r) /\ Rec(k)' = Rec(k)
      /\ WithdrawsOnce(Inst(r))' => WithdrawsOnce(Inst(r))
  BY <1>8, RecordFrame, PremisesFrame
<1>10. \A j \in RecordsIn(Committed) :
          Rec(j).kind = "click" /\ Rec(j).click = Rec(r).click => Rec(j).event = Rec(k).event
  <2> SUFFICES ASSUME NEW j \in RecordsIn(Committed), Rec(j).kind = "click", Rec(j).click = Rec(r).click
               PROVE  Rec(j).event = Rec(k).event
    OBVIOUS
  <2>1. PICK b \in Committed : j \in RecordsOf(b)
    BY DEF RecordsIn
  <2>2. b \in DOMAIN inbox
    BY <1>1, <2>1 DEF Committed
  <2>3. j \in RecordIds
    BY <2>1, <2>2 DEF RecordIds
  <2>4. j \in RecordsOf(b)' /\ b \in Committed'
    BY <1>1, <2>1, <2>2 DEF RecordsOf
  <2>5. j \in RecordsIn(Committed)'
    BY <2>4 DEF RecordsIn
  <2>6. Rec(j)' = Rec(j)
    BY <2>3, RecordFrame
  <2>7. Rec(j)'.kind = "click" /\ Rec(j)'.click = Rec(r)'.click => Rec(j)'.event = Rec(k)'.event
    BY <2>5 DEF OnlyClick
  <2> QED BY <1>9, <2>6, <2>7
<1>11. /\ Rec(r).kind = "install" /\ Rec(k).kind = "click" /\ Rec(k).inWindow /\ Rec(k).click = Rec(r).click
       /\ Rec(k).event = f /\ (NothingFailed \/ WithdrawsOnce(Inst(r)))
  BY <1>1, <1>5, <1>9 DEF OnlyClick
<1>12. CASE state[r[1]] = "processed" /\ state[k[1]] = "processed"
  <2>1. k \in RecordsIn(Committed)
    <3>1. k[1] \in Committed /\ k \in RecordsOf(k[1])
      BY <1>1, <1>8, <1>12, RecordParts DEF Committed
    <3> QED BY <3>1 DEF RecordsIn
  <2>2. OnlyClick(r, k)
    BY <1>1, <1>7, <1>8, <1>10, <1>11, <1>12 DEF OnlyClick
  <2>3. Recovered(r)
    BY <1>7, <2>1, <2>2 DEF RecoveredInv
  <2> QED BY <2>3, LedgerGrows DEF Recovered
<1>13. CASE phase = "mark" /\ (r[1] \in pend \/ k[1] \in pend)
  <2>1. PICK H, P : H = hist /\ P = pend
    OBVIOUS
  <2>2. PICK D : D = H \cup P
    OBVIOUS
  <2>3. /\ D = Seen /\ D \subseteq Committed /\ Committed \subseteq DOMAIN inbox
        /\ Processed \subseteq D
    BY <1>1, <1>13, <2>1, <2>2 DEF Seen, Draining, DrainInv, HistoryIsProcessed, DrainIsLive, ProcessedIsSeen,
       Processed, Live, Committed
  <2>4. r[1] \in D /\ k[1] \in D
    BY <1>7, <1>8, <2>1, <2>2, <2>3 DEF Processed
  <2>5. Steady(r) /\ Steady(k)
    BY <1>11 DEF Steady
  <2>6. r \in AcceptedUnique(D) /\ k \in AcceptedUnique(D)
    BY <1>1, <1>4, <1>6, <1>7, <1>8, <2>3, <2>4, <2>5 DEF LogicalIsAccepted
  <2>7. Rec(k).click # NoClick
    <3>1. PICK body \in Bodies : k[2] \in 1 .. Len(body.recs) /\ Rec(k) = body.recs[k[2]]
      BY <1>1, <1>8, PostedRecord DEF OrderInv
    <3> QED BY <1>11, <3>1, BodiesAssumption
  <2>8. Reason(r, D) = "valid_install_referrer" /\ k \in Clicks(r, D)
    <3>1. PICK C : C = Committed
      OBVIOUS
    <3> QED BY <1>1, <1>10, <1>11, <2>3, <2>6, <2>7, <3>1, SoleClickIsValid
  <2>9. r \in Attributions(H, P)
    BY <1>11, <1>13, <2>1, <2>2, <2>6, <2>8 DEF Attributions
  <2>10. Recovered(r)
    BY <1>13, <2>1, <2>2, <2>8, <2>9 DEF LoopsInv
  <2> QED BY <2>10, LedgerGrows DEF Recovered
<1> QED BY <1>7, <1>12, <1>13

-----------------------------------------------------------------------------
(* Replay, anchors and lookups.                                             *)

\* Nothing was lost before, if nothing is lost now.
LEMMA NothingLostFrame ==
  ASSUME InboxInv, [Next]_vars, NothingLost'
  PROVE  /\ NothingLost /\ readFaults' = 0 /\ NothingFailed' /\ readFaults = 0 /\ NothingFailed
         /\ \A r : Steady(r)' /\ Steady(r)
  BY StepFrame DEF NothingLost, Steady

\* Every delivery is the decision about its record in the present view, which has it.
DeliveriesAreDecisions ==
  NothingLost =>
    \A D \in {Seen} : \A d \in deliveries :
      d.rec \in RecordsIn(D) /\ (WithdrawsOnce(Inst(d.rec)) => d = Decision(d.rec, D))

\* By the deliveries there were and the one that a step adds.
LEMMA NextDeliveriesAreDecisions ==
  ASSUME InboxInv, DrainInv, OrderInv, DeliveriesAreDecisions, [Next]_vars
  PROVE  DeliveriesAreDecisions'
<1> SUFFICES ASSUME NothingLost', NEW E, E = Seen', NEW d \in deliveries', NEW x, x = d.rec
             PROVE  x \in RecordsIn(E)' /\ (WithdrawsOnce(Inst(x))' => d = Decision(x, E)')
  BY DEF DeliveriesAreDecisions
<1>1. PICK D : D = Seen
  OBVIOUS
<1>2. NothingLost /\ readFaults' = 0 /\ NothingFailed'
  BY NothingLostFrame
<1>3. /\ D \subseteq DOMAIN inbox /\ D \subseteq E
      /\ \A r \in RecordsIn(D) : WithdrawsOnce(Inst(r))' => Decision(r, E)' = Decision(r, D)
  BY <1>1, <1>2, ViewStep DEF OrderInv
<1>4. ApiTypeOK /\ \A b \in DOMAIN inbox : RecordsOf(b)' = RecordsOf(b)
  BY StepFrame DEF RecordsOf, InboxInv, TypeOK
<1>5. CASE d \in deliveries
  <2>1. x \in RecordsIn(D) /\ (WithdrawsOnce(Inst(x)) => d = Decision(x, D))
    BY <1>1, <1>2, <1>5 DEF DeliveriesAreDecisions
  <2>2. x \in RecordsIn(E)'
    <3>1. PICK b \in D : x \in RecordsOf(b)
      BY <2>1 DEF RecordsIn
    <3>2. b \in E /\ x \in RecordsOf(b)'
      BY <1>3, <1>4, <3>1
    <3> QED BY <3>2 DEF RecordsIn
  <2>3. x \in RecordIds
    BY <1>3, <1>4, <2>1, RecordsInBatches
  <2>4. WithdrawsOnce(Inst(x))' => WithdrawsOnce(Inst(x))
    BY <2>3, PremisesFrame
  <2> QED BY <1>3, <2>1, <2>2, <2>4
<1>6. CASE d \notin deliveries
  <2>1. deliveries' # deliveries
    BY <1>6
  <2>2. PICK r \in todo : PersistRecord(r)
    BY <2>1, OnlyPersistRecord
  <2>3. PICK F : F = hist \cup pend
    OBVIOUS
  <2>4. /\ d = Decision(r, F) /\ phase = "persist" /\ UNCHANGED <<inbox, state, phase, hist, pend>>
    BY <1>6, <2>2, <2>3 DEF PersistRecord, apiVars
  <2>5. x = r
    BY <2>4, DecisionRec
  <2>6. E = F /\ r \in RecordIds /\ r[1] \in F /\ F \subseteq DOMAIN inbox
    BY <2>3, <2>4 DEF Seen, Draining, DrainInv, PersistsOfDrain, InboxInv, TypeOK, ApiTypeOK, DrainTypeOK
  <2>7. r \in RecordsIn(F)
    BY <1>4, <2>6, RecordsInBatches
  <2>8. RecordsIn(F)' = RecordsIn(F) /\ Decision(r, F)' = Decision(r, F)
    BY <1>4, <2>4, <2>6, <2>7, DecisionsStay, RecordsStay DEF OrderInv
  <2> QED BY <2>4, <2>5, <2>6, <2>7, <2>8
<1> QED BY <1>5, <1>6

\* The attributed installs are those the present view accepts, one per installation.
AttributedAreAccepted ==
  NothingLost =>
    /\ \A D \in {Seen} : \A r \in DOMAIN attr : r \in AcceptedUnique(D) /\ Rec(r).kind = "install"
    /\ \A r, s \in DOMAIN attr : Inst(r) = Inst(s) => r = s

\* The anchors of the drain keep two installs of an installation apart.
LEMMA NextAttributedAreAccepted ==
  ASSUME InboxInv, DrainInv, OrderInv, LoopsInv, AttributedAreAccepted, [Next]_vars
  PROVE  AttributedAreAccepted'
<1> SUFFICES ASSUME NothingLost' PROVE AttributedAreAccepted'
  BY DEF AttributedAreAccepted
<1>1. PICK D, E : D = Seen /\ E = Seen'
  OBVIOUS
<1>2. NothingLost /\ readFaults' = 0 /\ NothingFailed' /\ \A r : Steady(r)'
  BY NothingLostFrame
<1>3. /\ D \subseteq DOMAIN inbox /\ D \subseteq E
      /\ \A r \in AcceptedUnique(D) : r[1] \in E => r \in AcceptedUnique(E)'
  BY <1>1, <1>2, ViewStep DEF OrderInv
<1>4. \A r \in AcceptedUnique(D) : r \in RecordIds /\ r[1] \in D
  BY <1>3, AcceptedUniqueFacts, ValidRecords DEF InboxInv, TypeOK
<1>5. \A r \in DOMAIN attr : r \in AcceptedUnique(D) /\ Rec(r).kind = "install"
  BY <1>1, <1>2 DEF AttributedAreAccepted
<1>6. \A r \in RecordIds : Rec(r)' = Rec(r) /\ Inst(r)' = Inst(r)
  BY RecordFrame
<1>7. CASE DOMAIN attr' = DOMAIN attr
  <2>1. \A r, s \in DOMAIN attr : Inst(r) = Inst(s) => r = s
    BY <1>2 DEF AttributedAreAccepted
  <2>2. \A r, s \in DOMAIN attr' : Inst(r)' = Inst(s)' => r = s
    BY <1>4, <1>5, <1>6, <1>7, <2>1
  <2>3. \A r \in DOMAIN attr' : r \in AcceptedUnique(E)' /\ Rec(r)'.kind = "install"
    BY <1>3, <1>4, <1>5, <1>6, <1>7
  <2> QED BY <1>1, <2>2, <2>3 DEF AttributedAreAccepted
<1>8. ASSUME NEW x \in todo, PersistAttribution(x) PROVE AttributedAreAccepted'
  <2>1. PICK H, P : H = hist /\ P = pend
    OBVIOUS
  <2>2. phase = "attribute" /\ DOMAIN attr' \subseteq DOMAIN attr \cup {x}
    BY <1>8 DEF PersistAttribution
  <2>3. D = H \cup P
    BY <1>1, <2>1, <2>2 DEF Seen, Draining
  <2>4. x \in Attributions(H, P) /\ AnchorsOK(H \cup P)
    BY <2>1, <2>2 DEF LoopsInv
  <2>5. x \in AcceptedUnique(D) /\ Rec(x).kind = "install"
    BY <2>3, <2>4 DEF Attributions
  <2>6. \A r \in DOMAIN attr' : r \in AcceptedUnique(D) /\ Rec(r).kind = "install"
    BY <1>5, <2>2, <2>5
  <2>7. \A r, s \in DOMAIN attr' : Inst(r) = Inst(s) => r = s
    BY <2>3, <2>4, <2>6 DEF AnchorsOK
  <2>8. \A r, s \in DOMAIN attr' : Inst(r)' = Inst(s)' => r = s
    BY <1>4, <1>6, <2>6, <2>7
  <2>9. \A r \in DOMAIN attr' : r \in AcceptedUnique(E)' /\ Rec(r)'.kind = "install"
    BY <1>3, <1>4, <1>6, <2>6
  <2> QED BY <1>1, <2>8, <2>9 DEF AttributedAreAccepted
<1>9. CASE Drain
  BY <1>9, <1>7, <1>8 DEF Drain, Select, Evaluate, NextLoop, Finish, LinkRecords, AppendProcessed,
     AppendFailed, PersistConflict, PersistRecord, PersistLate, QueueLookup, ledgerVars
<1>10. CASE Api \/ Faults \/ UNCHANGED vars
  BY <1>10, <1>7 DEF Api, Receive, Insert, Commit, Abort, Faults, LoseBody, TransactionFails, Crash,
      ledgerVars, vars
<1> QED BY <1>9, <1>10 DEF Next

\* A record of the drain that is accepted has its logical event, and an install its fact.
Settled(r) ==
  logical[Rec(r).event] = r /\ (Rec(r).kind = "install" => fact[Inst(r)] = Rec(r).event)
DrainIsSettled ==
  NothingLost =>
    \A H \in {hist}, P \in {pend} :
      phase \in {"persist", "attribute", "late", "queue", "mark"} =>
        \A r \in AcceptedUnique(H \cup P) :
          r[1] \in P => (phase = "persist" /\ r \in todo) \/ Settled(r)

\* An install belongs to an installation.
LEMMA RecordAnchor ==
  ASSUME InboxInv, OrderInv, NEW r \in RecordIds
  PROVE  /\ r # None /\ Rec(r).event \in Events /\ Rec(r).event # None
         /\ Rec(r).kind = "install" => Inst(r) \in Installs
<1>1. ApiTypeOK
  BY DEF InboxInv, TypeOK
<1>2. PICK body \in Bodies : Inst(r) = body.inst /\ r[2] \in 1 .. Len(body.recs) /\ Rec(r) = body.recs[r[2]]
  BY <1>1, PostedRecord DEF OrderInv
<1>3. r # None
  <2>1. r[1] \in Nat /\ r[2] \in Nat /\ r = <<r[1], r[2]>>
    BY <1>1, RecordParts
  <2>2. <<r[1], r[2]>> \in Seq(Nat)
    BY <2>1
  <2> QED BY <2>1, <2>2, NoneAssumption
<1>4. Rec(r).event \in Events
  BY <1>1, RecordEvent
<1>5. Rec(r).event # None
  BY <1>2, BodiesAssumption
<1>6. Rec(r).kind = "install" => Inst(r) \in Installs
  BY <1>2, BodiesAssumption DEF Installs
<1> QED BY <1>3, <1>4, <1>5, <1>6

\* The rows of a settled record are never rewritten.
LEMMA SettledStays ==
  ASSUME InboxInv, OrderInv, [Next]_vars, NEW r \in RecordIds, Settled(r)
  PROVE  Settled(r)'
<1>1. Rec(r)' = Rec(r) /\ Inst(r)' = Inst(r)
  BY RecordFrame
<1>2. logical'[Rec(r).event] = r
  BY RecordAnchor, LedgerGrows DEF Settled
<1>3. Rec(r).kind = "install" => fact'[Inst(r)] = Rec(r).event
  BY RecordAnchor, LedgerGrows DEF Settled
<1> QED BY <1>1, <1>2, <1>3 DEF Settled

\* PersistRecord settles the record it takes.
LEMMA NextDrainIsSettled ==
  ASSUME InboxInv, DrainInv, OrderInv, LogicalIsAccepted, DrainIsSettled, [Next]_vars
  PROVE  DrainIsSettled'
<1> SUFFICES ASSUME NothingLost', phase' \in {"persist", "attribute", "late", "queue", "mark"},
                    NEW H, H = hist', NEW P, P = pend', NEW r \in AcceptedUnique(H \cup P)', r[1] \in P
             PROVE  (phase' = "persist" /\ r \in todo') \/ Settled(r)'
  BY DEF DrainIsSettled
<1> DEFINE Goal == (phase' = "persist" /\ r \in todo') \/ Settled(r)'
<1>1. NothingLost /\ readFaults = 0 /\ NothingFailed
  BY NothingLostFrame
<1>2. ApiTypeOK /\ ReceivedInOrder /\ hist \cup pend \subseteq DOMAIN inbox
  BY DEF InboxInv, TypeOK, ApiTypeOK, DrainTypeOK, OrderInv
<1>3. \A b \in DOMAIN inbox : inbox'[b] = inbox[b]
  BY StepFrame
<1>4. ASSUME H \cup P \subseteq DOMAIN inbox PROVE r \in AcceptedUnique(H \cup P) /\ r \in RecordIds
  <2>1. PICK D : D = H \cup P
    OBVIOUS
  <2>2. AcceptedUnique(D)' = AcceptedUnique(D)
    BY <1>2, <1>3, <1>4, <2>1, DecisionsStay
  <2>3. r \in AcceptedUnique(D)
    BY <2>1, <2>2
  <2> QED BY <1>2, <1>4, <2>1, <2>3, AcceptedUniqueFacts, ValidRecords
<1>5. ASSUME UNCHANGED <<hist, pend, phase>>, todo' = todo \/ phase # "persist" PROVE Goal
  <2>1. r \in AcceptedUnique(H \cup P) /\ r \in RecordIds
    BY <1>2, <1>4, <1>5
  <2>2. (phase = "persist" /\ r \in todo) \/ Settled(r)
    BY <1>1, <1>5, <2>1 DEF DrainIsSettled
  <2> QED BY <1>5, <2>1, <2>2, SettledStays
<1>6. CASE Evaluate
  <2>1. phase' = "persist" /\ todo' = RecordsIn(P) /\ P = pend /\ H = hist
    BY <1>6 DEF Evaluate, ToPersist
  <2>2. r \in RecordIds
    BY <1>2, <1>4, <2>1
  <2>3. r \in RecordsIn(P)
    BY <1>2, <2>1, <2>2, RecordsInBatches
  <2> QED BY <2>1, <2>3
<1>7. CASE NextLoop
  <2>1. /\ todo = {} /\ UNCHANGED <<hist, pend>>
        /\ phase \in {"persist", "attribute", "late", "queue", "mark"}
    BY <1>7 DEF NextLoop
  <2>2. r \in AcceptedUnique(H \cup P) /\ r \in RecordIds
    BY <1>2, <1>4, <2>1
  <2>3. Settled(r)
    BY <1>1, <2>1, <2>2 DEF DrainIsSettled
  <2> QED BY <2>2, <2>3, SettledStays
<1>8. ASSUME NEW s \in todo, PersistRecord(s) PROVE Goal
  <2>1. UNCHANGED <<hist, pend, phase, inbox>> /\ todo' = todo \ {s} /\ phase = "persist"
    BY <1>8 DEF PersistRecord, apiVars
  <2>2. r \in AcceptedUnique(H \cup P) /\ r \in RecordIds
    BY <1>2, <1>4, <2>1
  <2>3. r \in todo \/ Settled(r)
    BY <1>1, <2>1, <2>2 DEF DrainIsSettled
  <2>4. CASE Settled(r)
    BY <2>2, <2>4, SettledStays
  <2>5. CASE r = s
    <3>1. PICK D : D = H \cup P
      OBVIOUS
    <3>2. /\ D = hist \cup pend /\ r \in AcceptedUnique(D) /\ D = Seen /\ D \subseteq DOMAIN inbox
      BY <1>2, <2>1, <2>2, <3>1 DEF Seen, Draining
    <3>3. Decision(r, D).status = "accepted" /\ Decision(r, D).resolution = "unique"
      BY <3>2 DEF AcceptedUnique
    <3>4. /\ logical' = IF logical[Rec(r).event] = None THEN [logical EXCEPT ![Rec(r).event] = r] ELSE logical
          /\ fact' = IF Rec(r).kind = "install" THEN [fact EXCEPT ![Inst(r)] = Rec(r).event] ELSE fact
      BY <1>8, <2>5, <3>2, <3>3 DEF PersistRecord
    <3>5. /\ r # None /\ Rec(r).event \in Events /\ Rec(r).event # None
          /\ Rec(r).kind = "install" => Inst(r) \in Installs
      BY <2>2, RecordAnchor
    <3>6. logical[Rec(r).event] \in {None, r}
      <4>1. SUFFICES ASSUME NEW q, q = logical[Rec(r).event], q # None PROVE q = r
        OBVIOUS
      <4>2. /\ q \in RecordIds /\ Rec(q).event = Rec(r).event /\ q[1] \in D \cup Failed
            /\ q[1] \in D /\ Steady(q) => q \in AcceptedUnique(D)
        BY <1>1, <3>2, <3>5, <4>1 DEF LogicalIsAccepted
      <4>3. q \in AcceptedUnique(D)
        BY <1>1, <4>2 DEF NothingFailed, Failed, Steady
      <4> QED BY <1>2, <3>2, <4>2, <4>3, AcceptedUniqueIsUnique
    <3>7. logical \in [Events -> RecordIds \cup {None}] /\ fact \in [Installs -> Events \cup {None}]
      BY DEF InboxInv, TypeOK, LedgerTypeOK
    <3>8. logical'[Rec(r).event] = r /\ (Rec(r).kind = "install" => fact'[Inst(r)] = Rec(r).event)
      BY <3>4, <3>5, <3>6, <3>7
    <3>9. Rec(r)' = Rec(r) /\ Inst(r)' = Inst(r)
      BY <2>1 DEF Rec, Inst
    <3> QED BY <3>8, <3>9 DEF Settled
  <2> QED BY <2>1, <2>3, <2>4, <2>5
<1>9. CASE Drain
  BY <1>9, <1>5, <1>6, <1>7, <1>8 DEF Drain, Select, Finish, LinkRecords, AppendProcessed,
     AppendFailed, PersistConflict, Caught, PersistAttribution, PersistLate, QueueLookup, drainVars
<1>10. CASE Api \/ Faults \/ UNCHANGED vars
  BY <1>10, <1>5 DEF Api, Receive, Insert, Commit, Abort, Faults, LoseBody, TransactionFails, Crash, Caught,
     drainVars, vars
<1> QED BY <1>9, <1>10 DEF Next

\* What a queued lookup will be joined with.
LookupsAreAnchored ==
  NothingLost =>
    \A r \in lookups :
      r \in RecordIds /\ Rec(r).kind = "install" /\ Settled(r) /\ \E s \in DOMAIN attr : Inst(s) = Inst(r)

\* The loop that queues lookups comes after the one that writes attributions.
LEMMA NextLookupsAreAnchored ==
  ASSUME InboxInv, DrainInv, OrderInv, LoopsInv, DrainIsSettled, LookupsAreAnchored, [Next]_vars
  PROVE  LookupsAreAnchored'
<1> SUFFICES ASSUME NothingLost', NEW r \in lookups'
             PROVE  /\ r \in RecordIds' /\ Rec(r)'.kind = "install" /\ Settled(r)'
                    /\ \E s \in DOMAIN attr' : Inst(s)' = Inst(r)'
  BY DEF LookupsAreAnchored
<1>1. NothingLost
  BY NothingLostFrame
<1>2. /\ RecordIds \subseteq RecordIds'
      /\ \A x \in RecordIds : Rec(x)' = Rec(x) /\ Inst(x)' = Inst(x)
      /\ DOMAIN attr \subseteq DOMAIN attr' /\ DOMAIN attr \subseteq RecordIds
  BY RecordFrame, LedgerGrows DEF InboxInv, TypeOK, LedgerTypeOK
<1>3. SUFFICES /\ r \in RecordIds /\ Rec(r).kind = "install" /\ Settled(r)
               /\ \E s \in DOMAIN attr : Inst(s) = Inst(r)
  <2>1. ASSUME r \in RecordIds, Rec(r).kind = "install", Settled(r), NEW s \in DOMAIN attr, Inst(s) = Inst(r)
        PROVE  /\ r \in RecordIds' /\ Rec(r)'.kind = "install" /\ Settled(r)'
               /\ s \in DOMAIN attr' /\ Inst(s)' = Inst(r)'
    BY <1>2, <2>1, SettledStays
  <2> QED BY <2>1
<1>4. CASE r \in lookups
  BY <1>1, <1>4 DEF LookupsAreAnchored
<1>5. CASE r \notin lookups
  <2>1. lookups' # lookups
    BY <1>5
  <2>2. PICK x \in todo : QueueLookup(x)
    <3>1. CASE Drain
      BY <2>1, <3>1 DEF Drain, Select, Evaluate, NextLoop, Finish, LinkRecords, AppendProcessed,
         AppendFailed, PersistConflict, PersistRecord, PersistAttribution, PersistLate, ledgerVars
    <3>2. CASE Api \/ Faults \/ UNCHANGED vars
      BY <2>1, <3>2 DEF Api, Receive, Insert, Commit, Abort, Faults, LoseBody, TransactionFails, Crash,
      ledgerVars, vars
    <3> QED BY <3>1, <3>2 DEF Next
  <2>3. r = x /\ phase = "queue"
    BY <1>5, <2>2 DEF QueueLookup
  <2>4. PICK H, P : H = hist /\ P = pend
    OBVIOUS
  <2>5. r \in TokenInstalls(H, P) /\ Attributions(H, P) \subseteq DOMAIN attr
    BY <2>2, <2>3, <2>4 DEF LoopsInv
  <2>6. r \in DOMAIN attr /\ r \in AcceptedUnique(H \cup P) /\ r[1] \in P /\ Rec(r).kind = "install"
    BY <2>5, AttributionRecords DEF TokenInstalls
  <2>7. Settled(r)
    BY <1>1, <2>3, <2>4, <2>6 DEF DrainIsSettled
  <2> QED BY <1>2, <2>6, <2>7
<1> QED BY <1>4, <1>5

\* The whole invariant, while one request at a time is received.
SequentialInv ==
  /\ LogicalIsAccepted /\ LoopsInv /\ DeliveriesAreDecisions /\ AttributedAreAccepted
  /\ DrainIsSettled /\ LookupsAreAnchored /\ RecoveredInv

\* One request at a time: what the ledger holds agrees with what the worker has seen, in
\* every state of every drain.
THEOREM SequentialInvariant ==
  ASSUME MaxOverlap = 1
  PROVE  Spec => []SequentialInv
<1>1. Init => SequentialInv
  <2>1. Init => /\ LogicalIsAccepted /\ DeliveriesAreDecisions /\ AttributedAreAccepted
                /\ DrainIsSettled /\ LookupsAreAnchored /\ RecoveredInv
    BY DEF Init, LogicalIsAccepted, DeliveriesAreDecisions, AttributedAreAccepted, DrainIsSettled,
       LookupsAreAnchored, RecoveredInv, OnlyClick
  <2> QED BY <2>1, InitLoopsInv DEF SequentialInv
<1>2. InboxInv /\ DrainInv /\ OrderInv /\ SequentialInv /\ [Next]_vars => SequentialInv'
  BY NextLogicalIsAccepted, NextLoopsInv, NextDeliveriesAreDecisions, NextAttributedAreAccepted, NextDrainIsSettled,
     NextLookupsAreAnchored, NextRecoveredInv DEF SequentialInv
<1> QED BY <1>1, <1>2, InboxInvariant, DrainInvariant, OrderInvariant, PTL DEF Spec

\* One request at a time: a drain repeated after any faults decides as the one that died,
\* if nothing was failed or lost and the installation withdrew at most once.
THEOREM ReplaysAreDeterministic ==
  ASSUME MaxOverlap = 1
  PROVE  Spec => []ReplayIsDeterministic
<1>1. DeliveriesAreDecisions => ReplayIsDeterministic
  <2> SUFFICES ASSUME DeliveriesAreDecisions, NothingLost, NEW c \in deliveries, NEW d \in deliveries,
                      c.rec = d.rec, WithdrawsOnce(Inst(c.rec))
               PROVE  c = d
    BY DEF ReplayIsDeterministic
  <2>1. PICK D : D = Seen
    OBVIOUS
  <2>2. c = Decision(c.rec, D)
    BY <2>1 DEF DeliveriesAreDecisions
  <2>3. d = Decision(d.rec, D)
    BY <2>1 DEF DeliveriesAreDecisions
  <2> QED BY <2>2, <2>3
<1> QED BY <1>1, SequentialInvariant, PTL DEF SequentialInv

\* One request at a time: an installation has one original attribution row, whatever is
\* resent and whatever drain is repeated, if nothing was failed or lost.
THEOREM InstallationsAreAttributedOnce ==
  ASSUME MaxOverlap = 1
  PROVE  Spec => []OneAttributionPerInstallation
<1>1. SequentialInv => OneAttributionPerInstallation
  BY DEF SequentialInv, AttributedAreAccepted, OneAttributionPerInstallation
<1> QED BY <1>1, SequentialInvariant, PTL

\* One request at a time: a queued lookup finds its logical event, its fact and an
\* attribution of its installation, if nothing was failed or lost.
THEOREM QueuedLookupsAreResolvable ==
  ASSUME MaxOverlap = 1
  PROVE  Spec => []LookupsAreResolvable
<1>1. SequentialInv => LookupsAreResolvable
  BY DEF SequentialInv, LookupsAreAnchored, Settled, LookupsAreResolvable
<1> QED BY <1>1, SequentialInvariant, PTL

\* One request at a time: an install whose only click was processed is attributed to it,
\* at once or by a superseding row, in whichever drains the two were evaluated and
\* however those drains were interrupted.
THEOREM LateClicksAreRecovered ==
  ASSUME MaxOverlap = 1
  PROVE  Spec => []LateClickRecovered
<1>1. SequentialInv => LateClickRecovered
  BY DEF SequentialInv, RecoveredInv, LateClickRecovered, OnlyClick, Recovered
<1> QED BY <1>1, SequentialInvariant, PTL
=============================================================================
