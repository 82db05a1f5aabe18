------------------------------- MODULE Imports -------------------------------
(***************************************************************************)
(* The two ways in which reports of other systems enter the ledger:        *)
(* runMmpImport (apps/worker/src/import/runner.ts) on a file, run by       *)
(* operators side by side, and receiveMax (apps/api/src/max-receiver.ts)   *)
(* with processMaxInbox (apps/worker/src/import/max-worker.ts) on the      *)
(* postbacks of AppLovin MAX.  Both end in ingestRuntimeBatch              *)
(* (apps/worker/src/ingestion.ts), which evaluates attempts together with  *)
(* the committed attempts of earlier imports.                              *)
(*                                                                         *)
(* A file is a sequence of rows; a row or a postback is a record, and its  *)
(* record_id is a hash (or a random identifier), so the order that it      *)
(* gives to records received at one time is arbitrary.                     *)
(***************************************************************************)
EXTENDS Integers, Sequences, FiniteSets, FiniteSetsExt, SequencesExt, TLC

CONSTANTS
    Deployments,    \* the sets of sources that a deployment may use
    Importers,      \* processes that run the import command
    Files,
    RowsOf,         \* the rows of a file, in order
    Mapping,        \* the flags of each target's expression
    Cells,          \* the cells a row has for each target
    Matching,       \* the rows that the row filter lets through
    Postbacks,
    QueryOf,        \* what is particular about the query of a postback
    TokensOf,       \* the tokens of a postback that verify
    TokenMode,      \* "all", "event" or "all_with_event_fallback"
    SchemaInvalid,  \* records whose payload is refused by validateEventPayload
    EventOf,        \* producer and event_id of a record
    PayloadOf,
    InstallationOf, \* the installation of an install record, "none" for other events
    ChunkSize,      \* importEvaluationChunkSize
    MaxRowCount,    \* OPENMASU_IMPORT_MAX_ROWS
    MaxRuns,        \* bound: import commands
    MaxTime,        \* bound: distinct times
    MaxFaults       \* bound: crashes and failing transactions

Rows == UNION {Range(RowsOf[f]) : f \in Files}
Records == Rows \cup Postbacks

ASSUME ImportsAssumption ==
    /\ ChunkSize \in Nat \ {0} /\ MaxRowCount \in Nat
    /\ MaxRuns \in Nat /\ MaxTime \in Nat \ {0} /\ MaxFaults \in Nat
    /\ TokenMode \in {"all", "event", "all_with_event_fallback"}
    /\ IsFiniteSet(Records) /\ \A f \in Files : RowsOf[f] \in Seq(Rows)
    /\ Rows \cap Postbacks = {} /\ Matching \subseteq Rows
    /\ {EventOf[r] : r \in Rows} \cap {EventOf[i] : i \in Postbacks} = {}

VARIABLES
    uses,           \* the sources of this deployment: "files", "postbacks"
    rank,           \* the order of the record ids
    clock,
    logical,        \* logical_events: event |-> record
    deliveries,     \* event_deliveries: record and duplicate_resolution
    attempts,       \* control.import_attempts
    rejections,     \* control.import_row_rejections: run and record
    published,      \* control.import_files
    runs,           \* control.import_runs of files
    proc,           \* the import commands
    inbox,          \* ledger.ingest_inbox_current.status
    receivedAt,     \* received_at of a postback
    bodies,         \* readable payloads of postbacks
    audits,         \* audit_logs of the receiver
    worker,         \* processMaxInbox: its rows and the writes of its transaction
    faults

fileVars == <<published, runs, proc>>
maxVars == <<inbox, receivedAt, bodies, audits, worker>>
given == <<uses, rank>>
vars == <<given, clock, logical, deliveries, attempts, rejections, fileVars, maxVars, faults>>

NoProc == [pc |-> "idle", file |-> "none", run |-> 0, at |-> 0, history |-> {},
           next |-> 0, invalid |-> {}]
NoWorker == [pc |-> "idle", rows |-> {}, attempts |-> {}, rejected |-> {}, done |-> {}]

Attempt(r, run, at) == [rec |-> r, run |-> run, at |-> at]

-----------------------------------------------------------------------------
(* The row mapping (apps/worker/src/import/mapping.ts).                     *)

Blank == {"absent", "empty"}

\* evaluateExpression for one target, up to the map: a cell is absent, empty,
\* listed in the map of the expression, or unlisted.
Value(flags, row) ==
    LET source == IF row.cell \in Blank /\ "fallback" \in flags THEN row.other ELSE row.cell
        value == IF source \in Blank /\ "default" \in flags THEN "listed" ELSE source
    IN  IF "map" \notin flags \/ value = "listed" THEN value
        ELSE IF "map_default" \in flags THEN "listed" ELSE "outside"

\* Whether the expression throws: a value outside of the map, an empty timestamp
\* or amount ("typed"), or no value at all, unless an empty one is omitted.
Fails(flags, row) ==
    LET value == Value(flags, row) IN
    \/ value = "outside"
    \/ /\ value \in Blank
       /\ "omit_if_empty" \notin flags
       /\ "typed" \in flags \/ value = "absent"

\* loadMapping refuses an expression that may omit a required target.
Required == {"event_name", "event_id", "occurred_at", "payload"}
LoadMapping ==
    /\ Required \subseteq DOMAIN Mapping
    /\ \A t \in Required : "omit_if_empty" \notin Mapping[t]

\* mapRow: no expression of the mapping throws.
MapRow(r) == \A t \in DOMAIN Mapping : ~Fails(Mapping[t], Cells[r][t])

\* toAttempt: an event_id is never empty.
ToAttempt(r) == Value(Mapping["event_id"], Cells[r]["event_id"]) # "empty"

Mapped(r) == MapRow(r) /\ ToAttempt(r)

Importable == [f \in Files |-> {r \in Range(RowsOf[f]) \cap Matching : Mapped(r)}]
Unmapped == [f \in Files |-> {r \in Range(RowsOf[f]) \cap Matching : ~Mapped(r)}]

\* The attempts of a file, in the order of its rows, are evaluated ChunkSize at a time:
\* the chunk of each, counted from 0.
ChunkOf == [f \in Files |-> [r \in Importable[f] |->
    LET ordinal == CHOOSE i \in DOMAIN RowsOf[f] : RowsOf[f][i] = r
    IN  Cardinality({i \in 1 .. ordinal - 1 : RowsOf[f][i] \in Importable[f]}) \div ChunkSize]]

\* readRows: limits and syntax are checked before anything is stored.
ReadRows(f) == Len(RowsOf[f]) <= MaxRowCount

-----------------------------------------------------------------------------
(* ingestRuntimeBatch.                                                      *)

\* sortCandidateAttempts: by received_at, then by record_id.
Before(a, b) == a.at < b.at \/ (a.at = b.at /\ rank[a.rec] < rank[b.rec])

SameScope(c, a) == {b \in c : EventOf[b.rec] = EventOf[a.rec]}
First(c, a) == CHOOSE b \in SameScope(c, a) : \A o \in SameScope(c, a) : ~Before(o, b)

\* decide, for the decisions that an import can meet.
Resolution(c, a) ==
    IF \E b \in c \ {a} : b.rec = a.rec THEN "record_id_collision"
    ELSE IF First(c, a) = a THEN "unique"
    ELSE IF PayloadOf[First(c, a).rec] = PayloadOf[a.rec] THEN "duplicate_delivery"
    ELSE "event_id_conflict"

\* Attempts whose payload violates its schema are neither decided nor candidates.
Valid(c) == {a \in c : a.rec \notin SchemaInvalid}

\* Records of invalid payload stay among the candidates.
DecisionsAmongAll(current, history) ==
    [a \in Valid(current) |-> Resolution(current \cup history, a)]

Decisions(current, history) ==
    [a \in Valid(current) |-> Resolution(Valid(current) \cup Valid(history), a)]

\* ON CONFLICT DO UPDATE instead of DO NOTHING.
UpsertLogical(first) ==
    logical' = [e \in DOMAIN logical \cup {EventOf[a.rec] : a \in first} |->
                  IF \E a \in first : EventOf[a.rec] = e
                  THEN (CHOOSE a \in first : EventOf[a.rec] = e).rec ELSE logical[e]]

\* The logical events of the first attempts; an event that the ledger has stays as
\* it is (ON CONFLICT DO NOTHING).
AddLogical(first) ==
    logical' = [e \in DOMAIN logical \cup {EventOf[a.rec] : a \in first} |->
                  IF e \in DOMAIN logical THEN logical[e]
                  ELSE (CHOOSE a \in first : EventOf[a.rec] = e).rec]

\* The facts of a logical event have its key and are stored with it.  An install
\* whose installation has a fact already, under another event, violates a
\* constraint of install_facts.
Clash(current, history) ==
    LET res == Decisions(current, history)
        new == {a \in Valid(current) :
                  /\ res[a] = "unique"
                  /\ EventOf[a.rec] \notin DOMAIN logical
                  /\ InstallationOf[a.rec] # "none"}
        known == {InstallationOf[logical[e]] : e \in DOMAIN logical}
    IN  \E a \in new :
           \/ InstallationOf[a.rec] \in known
           \/ \E b \in new \ {a} : InstallationOf[b.rec] = InstallationOf[a.rec]

\* One transaction: a delivery for each attempt, and the logical events.
Ingest(current, history) ==
    LET res == Decisions(current, history) IN
    /\ deliveries' = deliveries
            \cup {<<a.rec, res[a]>> : a \in Valid(current)}
            \cup {<<a.rec, "invalid">> : a \in current \ Valid(current)}
    /\ AddLogical({a \in Valid(current) : res[a] = "unique"})

-----------------------------------------------------------------------------
(* The import command.                                                      *)

ImportIdle == UNCHANGED <<given, maxVars>>
Ended(p) == proc' = [proc EXCEPT ![p] = NoProc]
Log(p, status) ==
    runs' = runs \cup {[run |-> proc[p].run, file |-> proc[p].file, status |-> status]}

\* The mapping is loaded, the file is read, and import_files is asked whether this
\* content was imported before: then a skipped run is all that is stored.
Start(p, f) ==
    /\ "files" \in uses
    /\ proc[p].pc = "idle"
    /\ LoadMapping /\ ReadRows(f)
    /\ LET n == Cardinality({q \in Importers : proc[q].pc # "idle"}) + Cardinality(runs) + faults + 1
           run == 1 + Max({0} \cup {x.run : x \in runs} \cup {proc[q].run : q \in Importers})
       IN  /\ n <= MaxRuns
           /\ \E now \in clock .. MaxTime :
                /\ clock' = now
                /\ IF f \in published
                   THEN /\ runs' = runs \cup {[run |-> run, file |-> f, status |-> "skipped"]}
                        /\ UNCHANGED proc
                   ELSE /\ proc' = [proc EXCEPT ![p] =
                              [NoProc EXCEPT !.pc = "history", !.file = f, !.run = run, !.at = clock']]
                        /\ UNCHANGED runs
    /\ ImportIdle
    /\ UNCHANGED <<logical, deliveries, attempts, rejections, published, faults>>

\* historicalAttempts: the published attempts for the events of the file.
ReadHistory(p) ==
    /\ proc[p].pc = "history"
    /\ proc' = [proc EXCEPT ![p].pc = "chunks", ![p].history =
          {a \in attempts : \E r \in Importable[proc[p].file] : EventOf[a.rec] = EventOf[r]}]
    /\ ImportIdle
    /\ UNCHANGED <<clock, logical, deliveries, attempts, rejections, published, runs, faults>>

Chunk(p) ==
    LET f == proc[p].file
    IN  {Attempt(r, proc[p].run, proc[p].at) :
            r \in {x \in Importable[f] : ChunkOf[f][x] = proc[p].next}}
ChunksLeft(p) ==
    LET f == proc[p].file IN \E r \in Importable[f] : ChunkOf[f][r] >= proc[p].next

\* The catch block: a failed run, no file, no attempts.
ImportFails(p) ==
    /\ Log(p, "failed")
    /\ Ended(p)
    /\ UNCHANGED <<attempts, rejections, published>>

\* One chunk is evaluated with the history of its events and stored in one
\* transaction (persistRuntimeBulk); its valid attempts join the history.  When the
\* transaction fails, so does the run.
ImportChunk(p) ==
    LET chunk == Chunk(p)
        history == {a \in proc[p].history : \E b \in chunk : EventOf[a.rec] = EventOf[b.rec]}
    IN  /\ proc[p].pc = "chunks"
        /\ ChunksLeft(p)
        /\ IF Clash(chunk, history)
           THEN ImportFails(p) /\ UNCHANGED <<logical, deliveries>>
           ELSE /\ Ingest(chunk, history)
                /\ proc' = [proc EXCEPT
                      ![p].next = @ + 1,
                      ![p].history = @ \cup Valid(chunk),
                      ![p].invalid = @ \cup ({a.rec : a \in chunk} \cap SchemaInvalid)]
                /\ UNCHANGED <<attempts, rejections, published, runs>>
        /\ ImportIdle
        /\ UNCHANGED <<clock, faults>>

\* import_files without its unique constraint.
PublishTwice(p) ==
    LET f == proc[p].file IN
    /\ proc[p].pc = "chunks"
    /\ ~ChunksLeft(p)
    /\ Log(p, "completed")
    /\ published' = published \cup {f}
    /\ attempts' = attempts \cup
         {Attempt(r, proc[p].run, proc[p].at) : r \in Importable[f] \ proc[p].invalid}
    /\ rejections' = rejections \cup ({proc[p].run} \X (Unmapped[f] \cup proc[p].invalid))
    /\ Ended(p)
    /\ ImportIdle
    /\ UNCHANGED <<clock, logical, deliveries, faults>>

\* The last transaction: run, file, attempts and rejections, or none of them when
\* import_files already has the file.
Publish(p) ==
    LET f == proc[p].file IN
    /\ proc[p].pc = "chunks"
    /\ ~ChunksLeft(p)
    /\ IF f \in published
       THEN ImportFails(p)
       ELSE /\ Log(p, "completed")
            /\ published' = published \cup {f}
            /\ attempts' = attempts \cup
                 {Attempt(r, proc[p].run, proc[p].at) : r \in Importable[f] \ proc[p].invalid}
            /\ rejections' = rejections \cup
                 ({proc[p].run} \X (Unmapped[f] \cup proc[p].invalid))
            /\ Ended(p)
    /\ ImportIdle
    /\ UNCHANGED <<clock, logical, deliveries, faults>>

\* A transaction fails: the run is recorded as failed.
ImportAborts(p) ==
    /\ proc[p].pc # "idle"
    /\ faults < MaxFaults /\ faults' = faults + 1
    /\ ImportFails(p)
    /\ ImportIdle
    /\ UNCHANGED <<clock, logical, deliveries>>

\* The process dies: nothing is recorded.
ImportCrashes(p) ==
    /\ proc[p].pc # "idle"
    /\ faults < MaxFaults /\ faults' = faults + 1
    /\ Ended(p)
    /\ ImportIdle
    /\ UNCHANGED <<clock, logical, deliveries, attempts, rejections, published, runs>>

-----------------------------------------------------------------------------
(* The MAX receiver.                                                        *)

MaxIdle == UNCHANGED <<given, attempts, rejections, fileVars>>

\* verify: the token over all parameters, or the one over event_id where allowed.
Verify(i) ==
    \/ TokenMode # "event" /\ "all" \in TokensOf[i]
    \/ TokenMode # "all" /\ "event" \in TokensOf[i]

\* Why a request is refused, "none" when it is not: size limits and parameter
\* names, the token, the form of event_id.
Refusal(i) ==
    IF QueryOf[i] = "oversized" THEN "too_large"
    ELSE IF QueryOf[i] = "forbidden" THEN "parameter_not_allowed"
    ELSE IF ~Verify(i) THEN "token_invalid"
    ELSE IF QueryOf[i] = "unnamed" THEN "event_id" ELSE "none"

\* Two of the refusals leave an audit entry.
ReceiveRefused(i) ==
    /\ inbox[i] = "none"
    /\ Refusal(i) # "none"
    /\ audits' = audits \cup ({<<i, Refusal(i)>>} \cap
                              (Postbacks \X {"parameter_not_allowed", "token_invalid"}))
    /\ inbox' = [inbox EXCEPT ![i] = "refused"]
    /\ MaxIdle
    /\ UNCHANGED <<clock, logical, deliveries, receivedAt, bodies, worker, faults>>

\* received_at is taken and the query is encrypted into the payload store ...
ReceiveWrite(i) ==
    /\ inbox[i] = "none"
    /\ Refusal(i) = "none"
    /\ inbox' = [inbox EXCEPT ![i] = "written"]
    /\ clock' \in clock .. MaxTime
    /\ receivedAt' = [receivedAt EXCEPT ![i] = clock']
    /\ bodies' = bodies \cup {i}
    /\ MaxIdle
    /\ UNCHANGED <<logical, deliveries, audits, worker, faults>>

\* ... then the inbox row and its pending state are committed and 204 is sent.
ReceiveCommit(i) ==
    /\ inbox[i] = "written"
    /\ inbox' = [inbox EXCEPT ![i] = "pending"]
    /\ MaxIdle
    /\ UNCHANGED <<clock, logical, deliveries, receivedAt, bodies, audits, worker, faults>>

\* The transaction fails: the body stays without a row, and MAX does not retry.
ReceiveFails(i) ==
    /\ inbox[i] = "written"
    /\ faults < MaxFaults /\ faults' = faults + 1
    /\ inbox' = [inbox EXCEPT ![i] = "lost"]
    /\ MaxIdle
    /\ UNCHANGED <<clock, logical, deliveries, receivedAt, bodies, audits, worker>>

-----------------------------------------------------------------------------
(* processMaxInbox, the first thing that a tick of the worker does.         *)

MaxAttempt(i) == Attempt(i, 0, receivedAt[i])
\* ORDER BY received_at, inbox_id
NextRow(i) == i \in worker.rows /\ \A j \in worker.rows : ~Before(MaxAttempt(j), MaxAttempt(i))

\* One transaction is opened around all of the pending rows; without one, the rest
\* of the tick follows.
TickBegin ==
    LET pending == {i \in Postbacks : inbox[i] = "pending"} IN
    /\ worker.pc = "idle"
    /\ worker' = IF pending = {} THEN NoWorker
                 ELSE [NoWorker EXCEPT !.pc = "rows", !.rows = pending]
    /\ MaxIdle
    /\ UNCHANGED <<clock, logical, deliveries, inbox, receivedAt, bodies, audits, faults>>

\* What makes a row throw: its payload cannot be read, decimalToUnscaled refuses
\* the revenue, or evaluate refuses the record (assertRevenueAnchorSources: a
\* user_id becomes an anchor_source, which only postback: producers may have).
Throws(i) == i \notin bodies \/ QueryOf[i] = "seven_decimals"
             \/ (QueryOf[i] = "user_id" /\ i \notin SchemaInvalid)

\* One row: ingestRuntimeBatch commits on a connection of its own, the run, the
\* attempt or the rejection and the processed state wait for the transaction; the
\* payload of a rejected row is purged at once.
ProcessRow(i) ==
    LET a == MaxAttempt(i)
    IN  /\ worker.pc = "rows" /\ NextRow(i)
        /\ ~Throws(i)
        /\ Ingest({a}, {b \in attempts : b.rec \in Postbacks} \cup worker.attempts)
        /\ worker' = [worker EXCEPT
              !.rows = @ \ {i},
              !.attempts = IF i \in SchemaInvalid THEN @ ELSE @ \cup {a},
              !.rejected = IF i \in SchemaInvalid THEN @ \cup {i} ELSE @,
              !.done = @ \cup {i}]
        /\ bodies' = IF i \in SchemaInvalid THEN bodies \ {i} ELSE bodies
        /\ MaxIdle
        /\ UNCHANGED <<clock, inbox, receivedAt, audits, faults>>

\* A row throws: the transaction is rolled back and the tick ends.
RowThrows(i) ==
    /\ worker.pc = "rows" /\ NextRow(i)
    /\ Throws(i)
    /\ worker' = NoWorker
    /\ MaxIdle
    /\ UNCHANGED <<clock, logical, deliveries, inbox, receivedAt, bodies, audits, faults>>

\* Every pending row is marked, those that came after the selection too.
TickCommitPending ==
    /\ worker.pc = "rows" /\ worker.rows = {}
    /\ inbox' = [i \in Postbacks |-> IF inbox[i] = "pending" THEN "processed" ELSE inbox[i]]
    /\ attempts' = attempts \cup worker.attempts
    /\ rejections' = rejections \cup ({0} \X worker.rejected)
    /\ worker' = NoWorker
    /\ UNCHANGED <<given, fileVars, clock, logical, deliveries, receivedAt, bodies, audits, faults>>

\* The transaction commits; the rest of the tick follows.
TickCommit ==
    /\ worker.pc = "rows" /\ worker.rows = {}
    /\ inbox' = [i \in Postbacks |-> IF i \in worker.done THEN "processed" ELSE inbox[i]]
    /\ attempts' = attempts \cup worker.attempts
    /\ rejections' = rejections \cup ({0} \X worker.rejected)
    /\ worker' = NoWorker
    /\ UNCHANGED <<given, fileVars, clock, logical, deliveries, receivedAt, bodies, audits, faults>>

\* The worker dies and is started again.
WorkerCrashes ==
    /\ worker.pc # "idle"
    /\ faults < MaxFaults /\ faults' = faults + 1
    /\ worker' = NoWorker
    /\ MaxIdle
    /\ UNCHANGED <<clock, logical, deliveries, inbox, receivedAt, bodies, audits>>

-----------------------------------------------------------------------------
\* Only the order among the records of one event that can arrive matters.
Ranks ==
    LET arriving == (IF "files" \in uses THEN Rows ELSE {})
                    \cup (IF "postbacks" \in uses THEN Postbacks ELSE {})
        Of(e) == {r \in arriving : EventOf[r] = e} IN
    {g \in [arriving -> 1 .. Max({Cardinality(Of(EventOf[r])) : r \in arriving})] :
        \A r \in arriving :
            /\ g[r] <= Cardinality(Of(EventOf[r]))
            /\ \A s \in Of(EventOf[r]) : g[r] = g[s] => r = s}

Init ==
    /\ uses \in Deployments
    /\ rank \in Ranks
    /\ clock = 1
    /\ logical = [e \in {} |-> e]
    /\ deliveries = {} /\ attempts = {} /\ rejections = {}
    /\ published = {} /\ runs = {}
    /\ proc = [p \in Importers |-> NoProc]
    /\ inbox = [i \in Postbacks |-> "none"]
    /\ receivedAt = [i \in Postbacks |-> 0]
    /\ bodies = {} /\ audits = {}
    /\ worker = NoWorker
    /\ faults = 0

Import(p) ==
    \/ \E f \in Files : Start(p, f)
    \/ ReadHistory(p) \/ ImportChunk(p) \/ Publish(p) \/ ImportAborts(p) \/ ImportCrashes(p)
Receive(i) ==
    /\ "postbacks" \in uses
    /\ ReceiveRefused(i) \/ ReceiveWrite(i) \/ ReceiveCommit(i) \/ ReceiveFails(i)
Tick == TickBegin \/ (\E i \in Postbacks : ProcessRow(i) \/ RowThrows(i)) \/ TickCommit

Next ==
    \/ \E p \in Importers : Import(p)
    \/ \E i \in Postbacks : Receive(i)
    \/ Tick
    \/ WorkerCrashes

\* The worker polls for ever; nothing obliges an operator or AppLovin to act.
Spec == Init /\ [][Next]_vars /\ WF_vars(Tick)

-----------------------------------------------------------------------------
(* Correctness.                                                             *)

\* The record that an uninterrupted import of a file chooses for an event: the
\* first in the order of evaluation of the first chunk that has the event.
Candidates == [f \in Files |->
    [e \in {EventOf[r] : r \in Importable[f] \ SchemaInvalid} |->
        {r \in Importable[f] \ SchemaInvalid : EventOf[r] = e}]]
Winner(f) ==
    [e \in DOMAIN Candidates[f] |->
        CHOOSE r \in Candidates[f][e] : \A s \in Candidates[f][e] \ {r} :
            \/ ChunkOf[f][r] < ChunkOf[f][s]
            \/ ChunkOf[f][r] = ChunkOf[f][s] /\ rank[r] < rank[s]]

Ledger == INSTANCE ImportLedger WITH
    winner <- [f \in Files |-> Winner(f)],
    PostbackEvent <- [i \in Postbacks |-> EventOf[i]]

\* Chunked imports that fail, die, are repeated and run side by side, and
\* postbacks whose transaction is rolled back, leave the ledger that whole imports
\* in some order would leave: an event keeps its first record, a repeated import
\* chooses the records of an uninterrupted one, and a file is published once all
\* of its events are in the ledger (runner.ts, ingestion.ts).
ImplementsLedger == Ledger!Spec

\* An attempt that evaluation accepted, whichever history it was evaluated with,
\* has its event in the ledger: a duplicate is never a duplicate of nothing
\* (ingestRuntimeBatch with the histories of runner.ts and max-worker.ts).
AcceptedIsLogical ==
    \A d \in deliveries :
        d[2] \in {"unique", "duplicate_delivery", "event_id_conflict"}
            => EventOf[d[1]] \in DOMAIN logical

\* A published file has one completed run, and each of its matching rows is either
\* an attempt of that run or a rejection of it, whatever runs failed or died
\* before (the last transaction of runMmpImport).
RowsAccountedFor ==
    \A f \in Files :
        LET completed == {x \in runs : x.file = f /\ x.status = "completed"}
            rows == Range(RowsOf[f]) \cap Matching
        IN  /\ Cardinality(completed) = (IF f \in published THEN 1 ELSE 0)
            /\ \A x \in completed :
                 LET accepted == {a.rec : a \in {b \in attempts : b.run = x.run}}
                     rejected == {j[2] : j \in {k \in rejections : k[1] = x.run}}
                 IN  accepted \cup rejected = rows /\ accepted \cap rejected = {}

\* A processed postback left its mark: its event is in the ledger, or it was
\* rejected and its query can no longer be read (processMaxInbox: the ledger is
\* written on another connection than the state).
ProcessedLeavesItsMark ==
    \A i \in Postbacks : inbox[i] = "processed" =>
        \/ EventOf[i] \in DOMAIN logical /\ <<0, i>> \notin rejections
        \/ <<0, i>> \in rejections /\ i \notin bodies
=============================================================================
