---------------------------- MODULE ImportsProofs ----------------------------
(***************************************************************************)
(* For any files, rows, postbacks and chunk size, any number of import     *)
(* commands side by side and any number of faults: imports implement       *)
(* ImportLedger, every attempt that was accepted has its event in the      *)
(* ledger, the rows of a published file are accounted for, and a processed *)
(* postback has left its mark.                                             *)
(***************************************************************************)
EXTENDS Imports, FiniteSetTheorems, WellFoundedInduction, TLAPS

-----------------------------------------------------------------------------
(* The inductive invariant.                                                *)

Arriving == (IF "files" \in uses THEN Rows ELSE {})
            \cup (IF "postbacks" \in uses THEN Postbacks ELSE {})

\* The record ids order the records of an event.
GivenOK ==
    /\ clock \in Nat
    /\ \A r \in Arriving : rank[r] \in Nat
    /\ \A r, s \in Arriving : EventOf[r] = EventOf[s] /\ rank[r] = rank[s] => r = s

\* Attempts that may be read as history: their events are in the ledger.
Sound(A) ==
    \A a \in A : a.rec \in Arriving /\ a.at \in Nat /\ EventOf[a.rec] \in DOMAIN logical

\* The rows of the chunks that an import has behind it.
Evaluated(p) == {r \in Importable[proc[p].file] : ChunkOf[proc[p].file][r] < proc[p].next}

ProcFields == {"pc", "file", "run", "at", "history", "next", "invalid"}
Running(p) ==
    /\ "files" \in uses /\ proc[p].file \in Files
    /\ proc[p].run # 0 /\ proc[p].at \in Nat /\ proc[p].next \in Nat
    /\ Sound(proc[p].history)
    /\ \A r \in Evaluated(p) \ SchemaInvalid : EventOf[r] \in DOMAIN logical
    /\ proc[p].invalid = Evaluated(p) \cap SchemaInvalid
ProcOK ==
    /\ DOMAIN proc = Importers
    /\ \A p \in Importers : DOMAIN proc[p] = ProcFields /\ (proc[p].pc # "idle" => Running(p))

\* Run numbers are never used again, and a completed run has what it promises.
Active == {p \in Importers : proc[p].pc # "idle"}
Completed == {x \in runs : x.status = "completed"}
RunsOK ==
    /\ \E n \in Nat : /\ \A x \in runs : x.run \in 1 .. n
                      /\ \A p \in Importers : proc[p].run \in 0 .. n
    /\ \A p \in Active : \A x \in runs : x.run # proc[p].run
    /\ \A p, q \in Active : proc[p].run = proc[q].run => p = q
    /\ \A x, y \in runs : x.run = y.run => x = y
    /\ \A a \in attempts : a.run = 0 \/ \E x \in Completed : a.run = x.run
    /\ \A k \in rejections : k[1] = 0 \/ \E x \in Completed : k[1] = x.run
AccountsOK ==
    /\ \A x, y \in Completed : x.file = y.file => x = y
    /\ \A x \in Completed : x.file \in published
    /\ \A f \in published : \E x \in Completed : x.file = f
    /\ \A x \in Completed :
         /\ {a.rec : a \in {b \in attempts : b.run = x.run}} = Importable[x.file] \ SchemaInvalid
         /\ {j[2] : j \in {k \in rejections : k[1] = x.run}} =
              Unmapped[x.file] \cup (Importable[x.file] \cap SchemaInvalid)

\* What the tick of the worker has done with the postbacks it has behind it.
WorkerFields == {"pc", "rows", "attempts", "rejected", "done"}
MaxOK ==
    /\ DOMAIN inbox = Postbacks /\ receivedAt \in [Postbacks -> Nat]
    /\ \A i \in Postbacks : inbox[i] # "none" => "postbacks" \in uses
    /\ DOMAIN worker = WorkerFields
    /\ \A i \in worker.rows \cup worker.done : i \in Postbacks /\ inbox[i] = "pending"
    /\ worker.rejected = worker.done \cap SchemaInvalid
    /\ \A i \in worker.rejected : i \notin bodies
    /\ \A a \in worker.attempts : a.run = 0
    /\ \A i \in worker.done \ SchemaInvalid : EventOf[i] \in DOMAIN logical

\* Postbacks that were marked.
MarkedOK ==
    /\ \A k \in rejections : k[1] = 0 => k[2] \in SchemaInvalid
    /\ \A i \in Postbacks : inbox[i] = "processed" =>
         \/ i \notin SchemaInvalid /\ EventOf[i] \in DOMAIN logical
         \/ <<0, i>> \in rejections /\ i \notin bodies

HistoryOK ==
    /\ logical = [e \in DOMAIN logical |-> logical[e]]
    /\ Sound(attempts) /\ Sound(worker.attempts)

ImportsInv ==
    GivenOK /\ ProcOK /\ RunsOK /\ AccountsOK /\ MaxOK /\ MarkedOK /\ HistoryOK /\ AcceptedIsLogical

-----------------------------------------------------------------------------
(* Numbers.                                                                *)

\* A set of naturals has a least element.
LEMMA LeastNat ==
  ASSUME NEW B, B \subseteq Nat, B # {}
  PROVE  \E b \in B : \A c \in B : b <= c
<1> DEFINE Less == {ss \in Nat \X Nat : ss[1] < ss[2]}
<1>1. IsWellFoundedOn(Less, Nat)
  BY NatLessThanWellFounded, Zenon DEF OpToRel
<1>2. PICK b \in B : \A c \in B : <<c, b>> \notin Less
  BY <1>1, WFMin
<1>3. \A c \in B : b <= c
  <2> SUFFICES ASSUME NEW c \in B, ~(b <= c) PROVE FALSE
    OBVIOUS
  <2>1. c \in Nat /\ b \in Nat /\ c < b
    OBVIOUS
  <2>2. <<c, b>> \in Nat \X Nat /\ <<c, b>>[1] = c /\ <<c, b>>[2] = b
    BY <2>1
  <2>3. <<c, b>> \in Less
    BY <2>1, <2>2
  <2> QED BY <1>2, <2>3
<1> QED BY <1>3

\* A bounded set of naturals has a greatest one.
LEMMA GreatestNat ==
  ASSUME NEW B, NEW n \in Nat, B \subseteq 0 .. n, B # {}
  PROVE  Max(B) \in B /\ \A c \in B : c <= Max(B)
<1> DEFINE Gaps == {n - b : b \in B}
<1>1. \A b \in B : b \in Int /\ 0 <= b /\ b <= n /\ n - b \in Nat
  OBVIOUS
<1>a. Gaps \subseteq Nat /\ Gaps # {}
  BY <1>1
<1>2. PICK g \in Gaps : \A h \in Gaps : g <= h
  BY <1>a, LeastNat
<1>3. PICK b \in B : g = n - b
  BY <1>2
<1>4. ASSUME NEW c \in B PROVE b >= c
  <2>1. n - b <= n - c
    BY <1>2, <1>3
  <2> QED BY <1>1, <2>1
<1> QED BY <1>3, <1>4 DEF Max

\* Chunks are numbered.
LEMMA ChunkNumber ==
  ASSUME NEW f \in Files, NEW r \in Importable[f]
  PROVE  ChunkOf[f][r] \in Nat
<1> DEFINE ordinal == CHOOSE i \in DOMAIN RowsOf[f] : RowsOf[f][i] = r
           S == {i \in 1 .. ordinal - 1 : RowsOf[f][i] \in Importable[f]}
<1>1. RowsOf[f] \in Seq(Rows)
  BY ImportsAssumption
<1>2. r \in Range(RowsOf[f])
  BY DEF Importable
<1>3. \E i \in DOMAIN RowsOf[f] : RowsOf[f][i] = r
  BY <1>2 DEF Range
<1>4. ordinal \in DOMAIN RowsOf[f]
  BY <1>3
<1>5. ordinal - 1 \in Int
  BY <1>1, <1>4
<1>6. IsFiniteSet(1 .. ordinal - 1)
  BY <1>5, FS_Interval
<1>7. IsFiniteSet(S)
  BY <1>6, FS_Subset
<1>8. Cardinality(S) \in Nat
  BY <1>7, FS_CardinalityType
<1>9. ChunkOf[f][r] = Cardinality(S) \div ChunkSize
  BY DEF ChunkOf
<1> HIDE DEF S
<1>10. \A c \in Nat : c \div ChunkSize \in Nat
  BY ImportsAssumption
<1> QED BY <1>8, <1>9, <1>10

-----------------------------------------------------------------------------
(* The evaluation of attempts.                                             *)

\* Attempts the evaluation can order.
Ordered(C) == \A a \in C : a.at \in Nat /\ rank[a.rec] \in Nat

\* The attempts of an event have a first one.
LEMMA FirstFacts ==
  ASSUME NEW C, Ordered(C), NEW a \in C
  PROVE  First(C, a) \in SameScope(C, a) /\ \A o \in SameScope(C, a) : ~Before(o, First(C, a))
<1> DEFINE T == SameScope(C, a)
<1>1. a \in T /\ T \subseteq C
  BY DEF SameScope
<1> HIDE DEF T
<1>2. PICK b \in T : \A c \in T : b.at <= c.at
  <2> DEFINE Times == {c.at : c \in T}
  <2>1. Times \subseteq Nat /\ Times # {}
    BY <1>1 DEF Ordered
  <2>2. PICK t \in Times : \A u \in Times : t <= u
    BY <2>1, LeastNat
  <2> QED BY <2>2
<1>3. PICK m \in T : m.at = b.at /\ \A c \in T : c.at = b.at => rank[m.rec] <= rank[c.rec]
  <2> DEFINE Ids == {rank[c.rec] : c \in {x \in T : x.at = b.at}}
  <2>1. Ids \subseteq Nat /\ Ids # {}
    BY <1>1, <1>2 DEF Ordered
  <2>2. PICK t \in Ids : \A u \in Ids : t <= u
    BY <2>1, LeastNat
  <2> QED BY <2>2
<1>4. \A o \in T : ~Before(o, m)
  <2> SUFFICES ASSUME NEW o \in T, Before(o, m) PROVE FALSE
    OBVIOUS
  <2>1. o.at \in Nat /\ m.at \in Nat /\ rank[o.rec] \in Nat /\ rank[m.rec] \in Nat
    BY <1>1 DEF Ordered
  <2>2. m.at <= o.at /\ (o.at = m.at => rank[m.rec] <= rank[o.rec])
    BY <1>2, <1>3
  <2> QED BY <2>1, <2>2 DEF Before
<1>5. m \in SameScope(C, a) /\ \A o \in SameScope(C, a) : ~Before(o, m)
  BY <1>3, <1>4 DEF T
<1> QED BY <1>5 DEF First

\* It is the first for each of them.
LEMMA FirstOfScope ==
  ASSUME NEW C, NEW a, NEW b \in SameScope(C, a)
  PROVE  First(C, b) = First(C, a)
<1>1. SameScope(C, b) = SameScope(C, a)
  BY DEF SameScope
<1> QED BY <1>1 DEF First

\* The first attempt is accepted, unless its record has another attempt.
LEMMA FirstIsUnique ==
  ASSUME NEW C, NEW b, First(C, b) = b, ~\E c \in C \ {b} : c.rec = b.rec
  PROVE  Resolution(C, b) = "unique"
BY DEF Resolution

\* What an evaluation adds to the ledger: every valid attempt has its event there
\* afterwards, no event is replaced, and a new one has the first of its attempts.
LEMMA IngestFacts ==
  ASSUME NEW current, NEW history, Ordered(current), Ordered(history),
         \A h \in history : EventOf[h.rec] \in DOMAIN logical,
         \A a, b \in current : a.rec = b.rec => a = b,
         Ingest(current, history)
  PROVE  /\ DOMAIN logical \subseteq DOMAIN logical'
         /\ logical' = [e \in DOMAIN logical' |-> logical'[e]]
         /\ \A e \in DOMAIN logical : logical'[e] = logical[e]
         /\ \A a \in Valid(current) : EventOf[a.rec] \in DOMAIN logical'
         /\ \A e \in DOMAIN logical' \ DOMAIN logical : \E a \in Valid(current) :
              /\ EventOf[a.rec] = e /\ logical'[e] = a.rec
              /\ \A o \in Valid(current) : EventOf[o.rec] = e => ~Before(o, a)
         /\ \A d \in deliveries' : \/ d \in deliveries \/ d[2] = "invalid"
                                   \/ \E a \in Valid(current) : d[1] = a.rec
<1> DEFINE V == Valid(current)
           H == Valid(history)
           C == V \cup H
           res == Decisions(current, history)
           U == {a \in V : res[a] = "unique"}
<1>1. V \subseteq current /\ H \subseteq history /\ Ordered(C)
  BY DEF Valid, Ordered
<1>2. \A a \in V : res[a] = Resolution(C, a)
  BY DEF Decisions
<1>3. logical' = [e \in DOMAIN logical \cup {EventOf[a.rec] : a \in U} |->
                    IF e \in DOMAIN logical THEN logical[e]
                    ELSE (CHOOSE a \in U : EventOf[a.rec] = e).rec]
  BY DEF Ingest, AddLogical
<1>4. deliveries' = deliveries \cup {<<a.rec, res[a]>> : a \in V}
                               \cup {<<a.rec, "invalid">> : a \in current \ V}
  BY DEF Ingest
<1> HIDE DEF res, V, H
<1>5. ASSUME NEW a \in V
      PROVE  EventOf[a.rec] \in DOMAIN logical \/ First(C, a) \in U
  <2> DEFINE b == First(C, a)
  <2>1. b \in SameScope(C, a)
    BY <1>1, FirstFacts
  <2>2. b \in C /\ EventOf[b.rec] = EventOf[a.rec]
    BY <2>1 DEF SameScope
  <2>3. First(C, b) = b
    BY <2>1, FirstOfScope
  <2> HIDE DEF b
  <2>4. CASE b \in H
    BY <1>1, <2>2, <2>4
  <2>5. CASE b \in V /\ \E c \in C \ {b} : c.rec = b.rec
    BY <1>1, <2>2, <2>5
  <2>6. CASE b \in V /\ ~\E c \in C \ {b} : c.rec = b.rec
    <3>1. Resolution(C, b) = "unique"
      BY <2>3, <2>6, FirstIsUnique, Zenon
    <3> QED BY <1>2, <2>6, <3>1 DEF b
  <2> QED BY <2>2, <2>4, <2>5, <2>6
<1>6. ASSUME NEW a \in V PROVE First(C, a) \in U => EventOf[First(C, a).rec] = EventOf[a.rec]
  BY <1>1, FirstFacts DEF SameScope
<1>7. \A a \in V : EventOf[a.rec] \in DOMAIN logical'
  <2> SUFFICES ASSUME NEW a \in V PROVE EventOf[a.rec] \in DOMAIN logical'
    OBVIOUS
  <2>1. CASE EventOf[a.rec] \in DOMAIN logical
    BY <1>3, <2>1
  <2>2. CASE First(C, a) \in U
    BY <1>3, <1>6, <2>2
  <2> QED BY <1>5, <2>1, <2>2
<1>8. ASSUME NEW e \in DOMAIN logical' \ DOMAIN logical
      PROVE  \E a \in V : /\ EventOf[a.rec] = e /\ logical'[e] = a.rec
                          /\ \A o \in V : EventOf[o.rec] = e => ~Before(o, a)
  <2> DEFINE a == CHOOSE x \in U : EventOf[x.rec] = e
  <2>1. a \in U /\ EventOf[a.rec] = e /\ logical'[e] = a.rec
    BY <1>3, <1>8
  <2> HIDE DEF a
  <2>2. Resolution(C, a) = "unique" /\ a \in V
    BY <1>2, <2>1
  <2>3. First(C, a) = a
    BY <2>2 DEF Resolution
  <2>4. \A o \in SameScope(C, a) : ~Before(o, a)
    BY <1>1, <2>2, <2>3, FirstFacts
  <2>5. \A o \in V : EventOf[o.rec] = e => o \in SameScope(C, a)
    BY <2>1 DEF SameScope
  <2> QED BY <2>1, <2>2, <2>4, <2>5
<1>9. \A d \in deliveries' : d \in deliveries \/ d[2] = "invalid" \/ \E a \in V : d[1] = a.rec
  BY <1>4
<1>10. DOMAIN logical \subseteq DOMAIN logical' /\ logical' = [e \in DOMAIN logical' |-> logical'[e]]
       /\ \A e \in DOMAIN logical : logical'[e] = logical[e]
  BY <1>3
<1> QED BY <1>7, <1>8, <1>9, <1>10 DEF V

-----------------------------------------------------------------------------
(* What the evaluations of the two importers do.                           *)

LEMMA ImportableRows ==
  ASSUME NEW f \in Files
  PROVE  Importable[f] \subseteq Rows
BY DEF Importable, Rows

LEMMA SoundIsOrdered ==
  ASSUME GivenOK, NEW A, Sound(A)
  PROVE  Ordered(A)
BY DEF GivenOK, Sound, Ordered

\* The history that a chunk is evaluated with, and the chunk when it is stored.
Past(p) == {a \in proc[p].history : \E b \in Chunk(p) : EventOf[a.rec] = EventOf[b.rec]}
StoresChunk(p) ==
    /\ Ingest(Chunk(p), Past(p))
    /\ proc' = [proc EXCEPT
          ![p].next = @ + 1,
          ![p].history = @ \cup Valid(Chunk(p)),
          ![p].invalid = @ \cup ({a.rec : a \in Chunk(p)} \cap SchemaInvalid)]
    /\ UNCHANGED <<attempts, rejections, published, runs>>

LEMMA ChunkCases ==
  ASSUME NEW p, ImportChunk(p)
  PROVE  /\ proc[p].pc = "chunks" /\ UNCHANGED <<given, maxVars, clock, faults>>
         /\ (ImportFails(p) /\ UNCHANGED <<logical, deliveries>>) \/ StoresChunk(p)
BY DEF ImportChunk, StoresChunk, Past, ImportIdle

\* The rows of a chunk.
LEMMA ChunkFacts ==
  ASSUME GivenOK, ProcOK, NEW p \in Importers, proc[p].pc = "chunks"
  PROVE  /\ \A a \in Chunk(p) : /\ a.rec \in Importable[proc[p].file] /\ a.rec \in Arriving
                                /\ ChunkOf[proc[p].file][a.rec] = proc[p].next
                                /\ a.at = proc[p].at /\ a.at \in Nat
                                /\ a = Attempt(a.rec, proc[p].run, proc[p].at)
         /\ \A r \in Importable[proc[p].file] : ChunkOf[proc[p].file][r] = proc[p].next =>
              Attempt(r, proc[p].run, proc[p].at) \in Chunk(p)
         /\ Ordered(Chunk(p))
<1>1. Running(p)
  BY DEF ProcOK
<1>2. Importable[proc[p].file] \subseteq Arriving
  BY <1>1, ImportableRows DEF Running, Arriving
<1>3. \A r : Attempt(r, proc[p].run, proc[p].at).rec = r
             /\ Attempt(r, proc[p].run, proc[p].at).at = proc[p].at
  BY DEF Attempt
<1>4. \A a \in Chunk(p) : \E r \in Importable[proc[p].file] :
         ChunkOf[proc[p].file][r] = proc[p].next /\ a = Attempt(r, proc[p].run, proc[p].at)
  BY DEF Chunk
<1>5. \A a \in Chunk(p) : /\ a.rec \in Importable[proc[p].file] /\ a.rec \in Arriving
                          /\ ChunkOf[proc[p].file][a.rec] = proc[p].next
                          /\ a.at = proc[p].at /\ a.at \in Nat
                          /\ a = Attempt(a.rec, proc[p].run, proc[p].at)
  BY <1>1, <1>2, <1>3, <1>4 DEF Running
<1>6. \A r \in Importable[proc[p].file] : ChunkOf[proc[p].file][r] = proc[p].next =>
              Attempt(r, proc[p].run, proc[p].at) \in Chunk(p)
  BY DEF Chunk
<1>7. Ordered(Chunk(p))
  BY <1>5 DEF Ordered, GivenOK
<1> QED BY <1>5, <1>6, <1>7

\* A chunk that is stored.
LEMMA StoreFacts ==
  ASSUME GivenOK, ProcOK, NEW p \in Importers, proc[p].pc = "chunks", StoresChunk(p)
  PROVE  /\ DOMAIN logical \subseteq DOMAIN logical'
         /\ logical' = [e \in DOMAIN logical' |-> logical'[e]]
         /\ \A e \in DOMAIN logical : logical'[e] = logical[e]
         /\ \A a \in Valid(Chunk(p)) : EventOf[a.rec] \in DOMAIN logical'
         /\ \A e \in DOMAIN logical' \ DOMAIN logical : \E a \in Valid(Chunk(p)) :
              /\ EventOf[a.rec] = e /\ logical'[e] = a.rec
              /\ \A o \in Valid(Chunk(p)) : EventOf[o.rec] = e => ~Before(o, a)
         /\ \A d \in deliveries' : \/ d \in deliveries \/ d[2] = "invalid"
                                   \/ \E a \in Valid(Chunk(p)) : d[1] = a.rec
<1>1. Ordered(Chunk(p)) /\ \A a, b \in Chunk(p) : a.rec = b.rec => a = b
  BY ChunkFacts
<1>2. Sound(Past(p))
  BY DEF ProcOK, Running, Sound, Past
<1>3. Ordered(Past(p)) /\ \A h \in Past(p) : EventOf[h.rec] \in DOMAIN logical
  BY <1>2, SoundIsOrdered DEF Sound
<1>4. Ingest(Chunk(p), Past(p))
  BY DEF StoresChunk
<1> QED BY <1>1, <1>3, <1>4, IngestFacts

\* A postback that is processed.
LEMMA RowFacts ==
  ASSUME GivenOK, MaxOK, HistoryOK, NEW i \in Postbacks, ProcessRow(i)
  PROVE  /\ i \in Arriving /\ receivedAt[i] \in Nat /\ inbox[i] = "pending"
         /\ DOMAIN logical \subseteq DOMAIN logical'
         /\ logical' = [e \in DOMAIN logical' |-> logical'[e]]
         /\ \A e \in DOMAIN logical : logical'[e] = logical[e]
         /\ i \notin SchemaInvalid => EventOf[i] \in DOMAIN logical'
         /\ \A e \in DOMAIN logical' \ DOMAIN logical :
              e = EventOf[i] /\ logical'[e] = i /\ i \notin SchemaInvalid
         /\ \A d \in deliveries' : \/ d \in deliveries \/ d[2] = "invalid"
                                   \/ d[1] = i /\ i \notin SchemaInvalid
<1> DEFINE a == MaxAttempt(i)
           history == {b \in attempts : b.rec \in Postbacks} \cup worker.attempts
<1>1. inbox[i] = "pending" /\ i \in Arriving /\ receivedAt[i] \in Nat
  BY DEF ProcessRow, NextRow, MaxOK, Arriving
<1>2. a.rec = i /\ a.at = receivedAt[i]
  BY DEF MaxAttempt, Attempt
<1>3. Ingest({a}, history)
  BY DEF ProcessRow
<1>4. Sound(history)
  BY DEF HistoryOK, Sound
<1> HIDE DEF a, history
<1>5. Ordered({a})
  BY <1>1, <1>2 DEF Ordered, GivenOK
<1>6. Ordered(history) /\ \A h \in history : EventOf[h.rec] \in DOMAIN logical
  BY <1>4, SoundIsOrdered DEF Sound
<1>7. \A x, y \in {a} : x.rec = y.rec => x = y
  OBVIOUS
<1>8. /\ DOMAIN logical \subseteq DOMAIN logical'
      /\ logical' = [e \in DOMAIN logical' |-> logical'[e]]
      /\ \A e \in DOMAIN logical : logical'[e] = logical[e]
      /\ \A x \in Valid({a}) : EventOf[x.rec] \in DOMAIN logical'
      /\ \A e \in DOMAIN logical' \ DOMAIN logical : \E x \in Valid({a}) :
           /\ EventOf[x.rec] = e /\ logical'[e] = x.rec
           /\ \A o \in Valid({a}) : EventOf[o.rec] = e => ~Before(o, x)
      /\ \A d \in deliveries' : \/ d \in deliveries \/ d[2] = "invalid"
                                \/ \E x \in Valid({a}) : d[1] = x.rec
  BY <1>3, <1>5, <1>6, <1>7, IngestFacts
<1>9. \A x : x \in Valid({a}) <=> x = a /\ i \notin SchemaInvalid
  BY <1>2 DEF Valid
<1>10. i \notin SchemaInvalid => EventOf[i] \in DOMAIN logical'
  BY <1>2, <1>8, <1>9
<1>11. \A e \in DOMAIN logical' \ DOMAIN logical :
         e = EventOf[i] /\ logical'[e] = i /\ i \notin SchemaInvalid
  <2> SUFFICES ASSUME NEW e \in DOMAIN logical' \ DOMAIN logical
               PROVE  e = EventOf[i] /\ logical'[e] = i /\ i \notin SchemaInvalid
    OBVIOUS
  <2>1. PICK x \in Valid({a}) : EventOf[x.rec] = e /\ logical'[e] = x.rec
    BY <1>8
  <2> QED BY <1>2, <1>9, <2>1
<1>12. \A d \in deliveries' : \/ d \in deliveries \/ d[2] = "invalid"
                              \/ d[1] = i /\ i \notin SchemaInvalid
  <2> SUFFICES ASSUME NEW d \in deliveries', d \notin deliveries, d[2] # "invalid"
               PROVE  d[1] = i /\ i \notin SchemaInvalid
    OBVIOUS
  <2>1. PICK x \in Valid({a}) : d[1] = x.rec
    BY <1>8
  <2> QED BY <1>2, <1>9, <2>1
<1> QED BY <1>1, <1>8, <1>10, <1>11, <1>12

-----------------------------------------------------------------------------
(* Steps: what every step keeps.                                           *)

\* The inputs stay, time does not go back, and the ledger only grows.
Growing ==
    /\ uses' = uses /\ rank' = rank /\ clock' \in Nat
    /\ DOMAIN logical \subseteq DOMAIN logical'
    /\ \A e \in DOMAIN logical : logical'[e] = logical[e]

LEMMA ImportGrows ==
  ASSUME ImportsInv, NEW p \in Importers, Import(p)
  PROVE  Growing
<1>1. clock \in Nat /\ MaxTime \in Nat
  BY ImportsAssumption DEF ImportsInv, GivenOK
<1>2. CASE \E f \in Files : Start(p, f)
  <2>1. clock' \in clock .. MaxTime /\ UNCHANGED <<uses, rank, logical>>
    BY <1>2 DEF Start, ImportIdle, given
  <2> QED BY <1>1, <2>1 DEF Growing
<1>3. CASE ReadHistory(p) \/ Publish(p) \/ ImportAborts(p) \/ ImportCrashes(p)
  <2>1. UNCHANGED <<uses, rank, clock, logical>>
    BY <1>3 DEF ReadHistory, Publish, ImportAborts, ImportCrashes, ImportIdle, given
  <2> QED BY <1>1, <2>1 DEF Growing
<1>4. CASE ImportChunk(p)
  <2>1. UNCHANGED <<uses, rank, clock>> /\ (logical' = logical \/ StoresChunk(p))
        /\ proc[p].pc = "chunks"
    BY <1>4, ChunkCases DEF given
  <2>2. CASE StoresChunk(p)
    BY <1>1, <2>1, <2>2, StoreFacts DEF Growing, ImportsInv
  <2> QED BY <1>1, <2>1, <2>2 DEF Growing
<1> QED BY <1>2, <1>3, <1>4 DEF Import

LEMMA TickGrows ==
  ASSUME ImportsInv, Tick
  PROVE  Growing
<1>1. clock \in Nat
  BY DEF ImportsInv, GivenOK
<1>2. CASE TickBegin \/ TickCommit \/ \E i \in Postbacks : RowThrows(i)
  <2>1. UNCHANGED <<uses, rank, clock, logical>>
    BY <1>2 DEF TickBegin, TickCommit, RowThrows, MaxIdle, given
  <2> QED BY <1>1, <2>1 DEF Growing
<1>3. ASSUME NEW i \in Postbacks, ProcessRow(i) PROVE Growing
  <2>1. UNCHANGED <<uses, rank, clock>>
    BY <1>3 DEF ProcessRow, MaxIdle, given
  <2> QED BY <1>1, <1>3, <2>1, RowFacts DEF Growing, ImportsInv
<1> QED BY <1>2, <1>3 DEF Tick

LEMMA Grows ==
  ASSUME ImportsInv, [Next]_vars
  PROVE  Growing
<1>1. clock \in Nat /\ MaxTime \in Nat
  BY ImportsAssumption DEF ImportsInv, GivenOK
<1>2. CASE \E i \in Postbacks : Receive(i)
  <2>1. UNCHANGED <<uses, rank, logical>> /\ (clock' = clock \/ clock' \in clock .. MaxTime)
    BY <1>2 DEF Receive, ReceiveRefused, ReceiveWrite, ReceiveCommit, ReceiveFails, MaxIdle, given
  <2> QED BY <1>1, <2>1 DEF Growing
<1>3. CASE WorkerCrashes
  BY <1>1, <1>3 DEF WorkerCrashes, MaxIdle, given, Growing
<1>4. CASE UNCHANGED vars
  BY <1>1, <1>4 DEF vars, given, Growing
<1> QED BY <1>2, <1>3, <1>4, ImportGrows, TickGrows DEF Next

LEMMA GivenStep ==
  ASSUME GivenOK, Growing
  PROVE  GivenOK'
BY DEF GivenOK, Growing, Arriving

-----------------------------------------------------------------------------
(* Steps: the import commands.                                             *)

\* A command that does not move keeps what it has.
LEMMA StillRunning ==
  ASSUME Growing, NEW p, Running(p), proc'[p] = proc[p]
  PROVE  Running(p)'
<1>1. Evaluated(p)' = Evaluated(p)
  BY DEF Evaluated
<1>2. Arriving' = Arriving /\ uses' = uses
  BY DEF Arriving, Growing
<1>3. Sound(proc[p].history)'
  BY <1>2 DEF Running, Sound, Growing
<1>4. \A r \in Evaluated(p)' \ SchemaInvalid : EventOf[r] \in DOMAIN logical'
  BY <1>1 DEF Running, Growing
<1> QED BY <1>1, <1>2, <1>3, <1>4 DEF Running

\* Only the command that moves is to be looked at.
LEMMA OneProc ==
  ASSUME ProcOK, Growing, NEW p \in Importers, NEW v, proc' = [proc EXCEPT ![p] = v],
         DOMAIN v = ProcFields, v.pc # "idle" => Running(p)'
  PROVE  ProcOK'
<1>1. DOMAIN proc' = Importers /\ proc'[p] = v
  BY DEF ProcOK
<1>2. ASSUME NEW q \in Importers
      PROVE  DOMAIN proc'[q] = ProcFields /\ (proc'[q].pc # "idle" => Running(q)')
  <2>1. CASE q = p
    BY <1>1, <2>1
  <2>2. CASE q # p
    <3>1. proc'[q] = proc[q]
      BY <2>2
    <3> QED BY <3>1, StillRunning DEF ProcOK
  <2> QED BY <2>1, <2>2
<1> QED BY <1>1, <1>2 DEF ProcOK

LEMMA IdleProc ==
  ASSUME ProcOK, Growing, NEW p \in Importers, Ended(p)
  PROVE  ProcOK'
<1>1. proc' = [proc EXCEPT ![p] = NoProc]
  BY DEF Ended
<1>2. DOMAIN NoProc = ProcFields /\ NoProc.pc = "idle"
  BY DEF NoProc, ProcFields
<1> HIDE DEF NoProc
<1> QED BY <1>1, <1>2, OneProc

LEMMA SameProcs ==
  ASSUME ProcOK, Growing, proc' = proc
  PROVE  ProcOK'
<1>1. \A q \in Importers : proc'[q] = proc[q]
  OBVIOUS
<1> QED BY <1>1, StillRunning DEF ProcOK

\* A run takes a number that was not used before.
NextRun == 1 + Max({0} \cup {x.run : x \in runs} \cup {proc[q].run : q \in Importers})

LEMMA FreshRun ==
  ASSUME RunsOK
  PROVE  /\ NextRun \in Nat \ {0}
         /\ \A x \in runs : x.run \in Nat \ {0} /\ x.run < NextRun
         /\ \A q \in Importers : proc[q].run \in Nat /\ proc[q].run < NextRun
<1> DEFINE B == {0} \cup {x.run : x \in runs} \cup {proc[q].run : q \in Importers}
<1>1. PICK n \in Nat : /\ \A x \in runs : x.run \in 1 .. n
                       /\ \A q \in Importers : proc[q].run \in 0 .. n
  BY DEF RunsOK
<1>2. B \subseteq 0 .. n /\ B # {}
  BY <1>1
<1>3. /\ 0 \in B
      /\ \A x \in runs : x.run \in B
      /\ \A q \in Importers : proc[q].run \in B
  OBVIOUS
<1> HIDE DEF B
<1>4. Max(B) \in B /\ \A c \in B : c <= Max(B)
  BY <1>2, GreatestNat
<1>a. \A c \in B : c \in Nat
  BY <1>2
<1>5. Max(B) \in Nat
  BY <1>4, <1>a
<1>6. NextRun = 1 + Max(B)
  BY DEF NextRun, B
<1>7. \A x \in runs : x.run \in Nat \ {0}
  BY <1>1
<1>8. \A q \in Importers : proc[q].run \in Nat
  BY <1>1
<1>9. \A c \in B : c \in Nat /\ c < NextRun
  BY <1>4, <1>5, <1>6, <1>a
<1>10. NextRun \in Nat \ {0}
  BY <1>5, <1>6
<1> QED BY <1>3, <1>7, <1>8, <1>9, <1>10

\* The two outcomes of a start.
Begun(f) == [NoProc EXCEPT !.pc = "history", !.file = f, !.run = NextRun, !.at = clock']

LEMMA StartCases ==
  ASSUME NEW p, NEW f, Start(p, f)
  PROVE  /\ "files" \in uses /\ proc[p].pc = "idle"
         /\ UNCHANGED <<given, maxVars, logical, deliveries, attempts, rejections, published, faults>>
         /\ \/ /\ proc' = proc
               /\ runs' = runs \cup {[run |-> NextRun, file |-> f, status |-> "skipped"]}
            \/ /\ runs' = runs
               /\ proc' = [proc EXCEPT ![p] = Begun(f)]
BY DEF Start, NextRun, ImportIdle, Begun

LEMMA ProcStart ==
  ASSUME ImportsInv, Growing, NEW p \in Importers, NEW f \in Files, Start(p, f)
  PROVE  ProcOK'
<1>1. CASE proc' = proc
  BY <1>1, SameProcs DEF ImportsInv
<1>2. CASE proc' # proc
  <2> DEFINE v == Begun(f)
  <2>1. "files" \in uses /\ proc' = [proc EXCEPT ![p] = v]
    BY <1>2, StartCases
  <2>2. proc'[p] = v
    BY <2>1 DEF ImportsInv, ProcOK
  <2>3. DOMAIN v = ProcFields
    BY DEF Begun, NoProc, ProcFields
  <2>4. proc'[p].file = f /\ proc'[p].run = NextRun /\ proc'[p].at = clock'
        /\ proc'[p].history = {} /\ proc'[p].next = 0 /\ proc'[p].invalid = {}
    BY <2>2 DEF Begun, NoProc
  <2>5. Evaluated(p)' = {}
    <3>1. \A r \in Importable[f] : ~(ChunkOf[f][r] < 0)
      BY ChunkNumber
    <3> QED BY <2>4, <3>1 DEF Evaluated
  <2>6. NextRun # 0
    BY FreshRun DEF ImportsInv
  <2>7. Running(p)'
    BY <2>1, <2>4, <2>5, <2>6 DEF Running, Sound, Growing
  <2> HIDE DEF v
  <2> QED BY <2>1, <2>3, <2>7, OneProc DEF ImportsInv
<1> QED BY <1>1, <1>2

LEMMA ProcHistory ==
  ASSUME ImportsInv, Growing, NEW p \in Importers, ReadHistory(p)
  PROVE  ProcOK'
<1> DEFINE past == {a \in attempts : \E r \in Importable[proc[p].file] : EventOf[a.rec] = EventOf[r]}
           v == [proc[p] EXCEPT !.pc = "chunks", !.history = past]
<1>1. Running(p) /\ DOMAIN proc[p] = ProcFields
  BY DEF ImportsInv, ProcOK, ReadHistory
<1>2. proc' = [proc EXCEPT ![p] = v]
  BY DEF ReadHistory
<1>3. DOMAIN v = ProcFields
  BY <1>1
<1>4. proc'[p] = v
  BY <1>2 DEF ImportsInv, ProcOK
<1>5. /\ proc'[p].file = proc[p].file /\ proc'[p].run = proc[p].run /\ proc'[p].at = proc[p].at
      /\ proc'[p].next = proc[p].next /\ proc'[p].invalid = proc[p].invalid /\ proc'[p].history = past
  BY <1>1, <1>4 DEF ProcFields
<1>6. past \subseteq attempts
  OBVIOUS
<1> HIDE DEF v, past
<1>7. Evaluated(p)' = Evaluated(p)
  BY <1>5 DEF Evaluated
<1>8. Arriving' = Arriving /\ uses' = uses
  BY DEF Arriving, Growing
<1>9. Sound(proc[p].history)'
  BY <1>5, <1>6, <1>8 DEF Sound, Growing, ImportsInv, HistoryOK
<1>10. Running(p)'
  BY <1>1, <1>5, <1>7, <1>8, <1>9 DEF Running, Growing
<1> QED BY <1>2, <1>3, <1>10, OneProc DEF ImportsInv

LEMMA ProcChunk ==
  ASSUME ImportsInv, Growing, NEW p \in Importers, proc[p].pc = "chunks", StoresChunk(p)
  PROVE  ProcOK'
<1> DEFINE f == proc[p].file
           newer == proc[p].history \cup Valid(Chunk(p))
           refused == proc[p].invalid \cup ({a.rec : a \in Chunk(p)} \cap SchemaInvalid)
           v == [proc[p] EXCEPT !.next = @ + 1, !.history = newer, !.invalid = refused]
<1>1. Running(p) /\ DOMAIN proc[p] = ProcFields
  BY DEF ImportsInv, ProcOK
<1>2. proc' = [proc EXCEPT ![p] = v]
  BY DEF StoresChunk
<1>3. DOMAIN v = ProcFields
  BY <1>1
<1>4. proc'[p] = v
  BY <1>2 DEF ImportsInv, ProcOK
<1>5. /\ proc'[p].file = f /\ proc'[p].run = proc[p].run /\ proc'[p].at = proc[p].at
      /\ proc'[p].next = proc[p].next + 1 /\ proc'[p].invalid = refused /\ proc'[p].history = newer
  BY <1>1, <1>4 DEF ProcFields
<1> HIDE DEF v
<1>6. \A r \in Importable[f] : r \in Evaluated(p)' <=>
         r \in Evaluated(p) \/ Attempt(r, proc[p].run, proc[p].at) \in Chunk(p)
  <2> SUFFICES ASSUME NEW r \in Importable[f]
               PROVE  r \in Evaluated(p)' <=>
                        r \in Evaluated(p) \/ Attempt(r, proc[p].run, proc[p].at) \in Chunk(p)
    OBVIOUS
  <2>1. ChunkOf[f][r] \in Nat /\ proc[p].next \in Nat
    BY <1>1, ChunkNumber DEF Running
  <2>2. ChunkOf[f][r] < proc[p].next + 1 <=> ChunkOf[f][r] < proc[p].next \/ ChunkOf[f][r] = proc[p].next
    BY <2>1
  <2>3. Attempt(r, proc[p].run, proc[p].at).rec = r
    BY DEF Attempt
  <2>4. Attempt(r, proc[p].run, proc[p].at) \in Chunk(p) <=> ChunkOf[f][r] = proc[p].next
    BY <2>3, ChunkFacts DEF ImportsInv
  <2> QED BY <1>5, <2>2, <2>4 DEF Evaluated
<1>7. ASSUME NEW r \in Evaluated(p)' \ SchemaInvalid PROVE EventOf[r] \in DOMAIN logical'
  <2>1. r \in Importable[f]
    BY <1>5 DEF Evaluated
  <2>2. CASE r \in Evaluated(p)
    BY <1>1, <2>2 DEF Running, Growing
  <2>3. CASE Attempt(r, proc[p].run, proc[p].at) \in Chunk(p)
    <3>1. Attempt(r, proc[p].run, proc[p].at).rec = r
      BY DEF Attempt
    <3>2. Attempt(r, proc[p].run, proc[p].at) \in Valid(Chunk(p))
      BY <2>3, <3>1 DEF Valid
    <3> QED BY <3>1, <3>2, StoreFacts DEF ImportsInv
  <2> QED BY <1>6, <2>1, <2>2, <2>3
<1>8. \A r : r \in {a.rec : a \in Chunk(p)} <=>
               r \in Importable[f] /\ Attempt(r, proc[p].run, proc[p].at) \in Chunk(p)
  <2>1. \A r : Attempt(r, proc[p].run, proc[p].at).rec = r
    BY DEF Attempt
  <2> QED BY <2>1, ChunkFacts DEF ImportsInv
<1>9. Evaluated(p) \subseteq Importable[f] /\ Evaluated(p)' \subseteq Importable[f]
  BY <1>5 DEF Evaluated
<1>10. refused = Evaluated(p)' \cap SchemaInvalid
  <2>1. proc[p].invalid = Evaluated(p) \cap SchemaInvalid
    BY <1>1 DEF Running
  <2> QED BY <1>6, <1>8, <1>9, <2>1
<1>11. Arriving' = Arriving /\ uses' = uses
  BY DEF Arriving, Growing
<1>12. ASSUME NEW a \in newer
       PROVE  a.rec \in Arriving /\ a.at \in Nat /\ EventOf[a.rec] \in DOMAIN logical'
  <2>1. CASE a \in proc[p].history
    BY <1>1, <2>1 DEF Running, Sound, Growing
  <2>2. CASE a \in Valid(Chunk(p))
    <3>1. a \in Chunk(p)
      BY <2>2 DEF Valid
    <3> QED BY <2>2, <3>1, ChunkFacts, StoreFacts DEF ImportsInv
  <2> QED BY <2>1, <2>2
<1> HIDE DEF newer, refused, f
<1>13. Sound(proc[p].history)'
  BY <1>5, <1>11, <1>12 DEF Sound
<1>14. Running(p)'
  BY <1>1, <1>5, <1>7, <1>10, <1>11, <1>13 DEF Running, f
<1> QED BY <1>2, <1>3, <1>14, OneProc DEF ImportsInv

\* What the steps of the receiver and of the worker leave alone.
MaxStep == (\E i \in Postbacks : Receive(i)) \/ Tick \/ WorkerCrashes \/ UNCHANGED vars

LEMMA MaxLeavesFiles ==
  ASSUME MaxStep
  PROVE  /\ UNCHANGED <<published, runs, proc>>
         /\ UNCHANGED <<attempts, rejections>> \/ TickCommit
<1>1. CASE \E i \in Postbacks : Receive(i)
  BY <1>1 DEF Receive, ReceiveRefused, ReceiveWrite, ReceiveCommit, ReceiveFails, MaxIdle, fileVars
<1>2. CASE TickBegin \/ WorkerCrashes \/ \E i \in Postbacks : ProcessRow(i) \/ RowThrows(i)
  BY <1>2 DEF TickBegin, WorkerCrashes, ProcessRow, RowThrows, MaxIdle, fileVars
<1>3. CASE TickCommit
  BY <1>3 DEF TickCommit, fileVars
<1>4. CASE UNCHANGED vars
  BY <1>4 DEF vars, fileVars
<1> QED BY <1>1, <1>2, <1>3, <1>4 DEF MaxStep, Tick

\* What the end of a command is, whatever ends it.
Ends(p) == ImportFails(p) \/ Publish(p) \/ ImportAborts(p) \/ ImportCrashes(p)

LEMMA ImportCases ==
  ASSUME NEW p \in Importers, Import(p)
  PROVE  \/ \E f \in Files : Start(p, f)
         \/ ReadHistory(p)
         \/ proc[p].pc = "chunks" /\ StoresChunk(p)
         \/ Ends(p) /\ proc[p].pc # "idle"
<1>1. ImportChunk(p) => proc[p].pc = "chunks" /\ (StoresChunk(p) \/ Ends(p))
  BY ChunkCases DEF Ends
<1>2. Publish(p) \/ ImportAborts(p) \/ ImportCrashes(p) => Ends(p) /\ proc[p].pc # "idle"
  BY DEF Publish, ImportAborts, ImportCrashes, Ends
<1> QED BY <1>1, <1>2 DEF Import

Publishes(p) ==
    LET f == proc[p].file IN
    /\ proc[p].pc = "chunks" /\ ~ChunksLeft(p)
    /\ f \notin published /\ published' = published \cup {f}
    /\ runs' = runs \cup {[run |-> proc[p].run, file |-> f, status |-> "completed"]}
    /\ attempts' = attempts \cup
         {Attempt(r, proc[p].run, proc[p].at) : r \in Importable[f] \ proc[p].invalid}
    /\ rejections' = rejections \cup ({proc[p].run} \X (Unmapped[f] \cup proc[p].invalid))
GivesUp(p) ==
    /\ UNCHANGED <<attempts, rejections, published>>
    /\ \/ runs' = runs
       \/ runs' = runs \cup {[run |-> proc[p].run, file |-> proc[p].file, status |-> "failed"]}

LEMMA EndCases ==
  ASSUME NEW p \in Importers, Ends(p)
  PROVE  Ended(p) /\ (Publishes(p) \/ GivesUp(p))
<1>1. CASE ImportFails(p) \/ ImportAborts(p) \/ ImportCrashes(p)
  BY <1>1 DEF ImportFails, ImportAborts, ImportCrashes, Log, GivesUp
<1>2. CASE Publish(p)
  BY <1>2 DEF Publish, ImportFails, Log, GivesUp, Publishes
<1> QED BY <1>1, <1>2 DEF Ends

LEMMA ProcStep ==
  ASSUME ImportsInv, [Next]_vars
  PROVE  ProcOK'
<1>1. Growing
  BY Grows
<1>2. CASE MaxStep
  BY <1>1, <1>2, MaxLeavesFiles, SameProcs DEF ImportsInv
<1>3. ASSUME NEW p \in Importers, Import(p) PROVE ProcOK'
  <2>1. CASE Ends(p)
    BY <1>1, <2>1, EndCases, IdleProc DEF ImportsInv
  <2> QED BY <1>1, <1>3, <2>1, ImportCases, ProcStart, ProcHistory, ProcChunk
<1> QED BY <1>2, <1>3 DEF Next, MaxStep

-----------------------------------------------------------------------------
(* Steps: runs and their numbers.                                          *)

\* No run begins or ends; attempts and rejections of postbacks may be added.
Quiet ==
    /\ runs' = runs
    /\ \A q \in Importers : proc'[q].run = proc[q].run /\ (proc'[q].pc = "idle" <=> proc[q].pc = "idle")
    /\ \A a \in attempts' : a \in attempts \/ a.run = 0
    /\ \A k \in rejections' : k \in rejections \/ k[1] = 0

LEMMA RunsQuiet ==
  ASSUME RunsOK, Quiet
  PROVE  RunsOK'
<1>1. Active' = Active /\ Completed' = Completed
  BY DEF Active, Completed, Quiet
<1>2. PICK n \in Nat : /\ \A x \in runs : x.run \in 1 .. n
                       /\ \A p \in Importers : proc[p].run \in 0 .. n
  BY DEF RunsOK
<1>3. \E m \in Nat : /\ \A x \in runs' : x.run \in 1 .. m
                     /\ \A p \in Importers : proc'[p].run \in 0 .. m
  BY <1>2 DEF Quiet
<1>4. \A p \in Active' : p \in Importers
  BY DEF Active
<1>5. /\ \A p \in Active' : \A x \in runs' : x.run # proc'[p].run
      /\ \A p, q \in Active' : proc'[p].run = proc'[q].run => p = q
      /\ \A x, y \in runs' : x.run = y.run => x = y
  BY <1>1, <1>4 DEF RunsOK, Quiet
<1>6. \A a \in attempts' : a.run = 0 \/ \E x \in Completed' : a.run = x.run
  BY <1>1 DEF RunsOK, Quiet
<1>7. \A k \in rejections' : k[1] = 0 \/ \E x \in Completed' : k[1] = x.run
  BY <1>1 DEF RunsOK, Quiet
<1> QED BY <1>3, <1>5, <1>6, <1>7 DEF RunsOK

LEMMA RunsStart ==
  ASSUME ImportsInv, NEW p \in Importers, NEW f \in Files, Start(p, f)
  PROVE  RunsOK' /\ Completed' = Completed
<1>1. /\ NextRun \in Nat \ {0}
      /\ \A x \in runs : x.run \in Nat \ {0} /\ x.run < NextRun
      /\ \A q \in Importers : proc[q].run \in Nat /\ proc[q].run < NextRun
  BY FreshRun DEF ImportsInv
<1>2. attempts' = attempts /\ rejections' = rejections /\ proc[p].pc = "idle" /\ DOMAIN proc = Importers
  BY StartCases DEF ImportsInv, ProcOK
<1> HIDE DEF NextRun
<1>3. CASE proc' = proc /\ runs' = runs \cup {[run |-> NextRun, file |-> f, status |-> "skipped"]}
  <2> DEFINE new == [run |-> NextRun, file |-> f, status |-> "skipped"]
  <2>1. new.run = NextRun /\ new.status = "skipped" /\ runs' = runs \cup {new}
    BY <1>3
  <2> HIDE DEF new
  <2>2. Completed' = Completed /\ Active' = Active /\ Active \subseteq Importers
    BY <1>3, <2>1 DEF Completed, Active
  <2>3. /\ \A x \in runs' : x.run \in 1 .. NextRun
        /\ \A q \in Importers : proc'[q].run \in 0 .. NextRun
    BY <1>1, <1>3, <2>1
  <2>4. \A q \in Active' : \A x \in runs' : x.run # proc'[q].run
    BY <1>1, <1>3, <2>1, <2>2 DEF ImportsInv, RunsOK
  <2>5. \A x, y \in runs' : x.run = y.run => x = y
    BY <1>1, <2>1 DEF ImportsInv, RunsOK
  <2>6. \A q, r \in Active' : proc'[q].run = proc'[r].run => q = r
    BY <1>3, <2>2 DEF ImportsInv, RunsOK
  <2>7. /\ \A a \in attempts' : a.run = 0 \/ \E x \in Completed' : a.run = x.run
        /\ \A k \in rejections' : k[1] = 0 \/ \E x \in Completed' : k[1] = x.run
    BY <1>2, <2>2 DEF ImportsInv, RunsOK
  <2>8. NextRun \in Nat
    BY <1>1
  <2> QED BY <2>2, <2>3, <2>4, <2>5, <2>6, <2>7, <2>8 DEF RunsOK
<1>4. CASE runs' = runs /\ proc' = [proc EXCEPT ![p] = Begun(f)]
  <2>1. proc'[p].run = NextRun /\ \A q \in Importers \ {p} : proc'[q] = proc[q]
    BY <1>2, <1>4 DEF Begun, NoProc
  <2>2. Completed' = Completed /\ Active' \subseteq Active \cup {p}
        /\ Active \subseteq Importers /\ Active' \subseteq Importers
    BY <1>4, <2>1 DEF Completed, Active
  <2>3. /\ \A x \in runs' : x.run \in 1 .. NextRun
        /\ \A q \in Importers : proc'[q].run \in 0 .. NextRun
    BY <1>1, <1>4, <2>1
  <2>4. \A q \in Active' : \A x \in runs' : x.run # proc'[q].run
    <3> SUFFICES ASSUME NEW q \in Active', NEW x \in runs' PROVE x.run # proc'[q].run
      OBVIOUS
    <3>1. CASE q = p
      BY <1>1, <1>4, <2>1, <3>1
    <3>2. CASE q # p
      BY <1>4, <2>1, <2>2, <3>2 DEF ImportsInv, RunsOK
    <3> QED BY <3>1, <3>2
  <2>5. \A q, r \in Active' : proc'[q].run = proc'[r].run => q = r
    <3>1. \A q \in Active' : q # p => q \in Active /\ proc'[q].run = proc[q].run /\ proc'[q].run # NextRun
      BY <1>1, <2>1, <2>2
    <3> QED BY <2>1, <3>1 DEF ImportsInv, RunsOK
  <2>6. \A x, y \in runs' : x.run = y.run => x = y
    BY <1>4 DEF ImportsInv, RunsOK
  <2>7. /\ \A a \in attempts' : a.run = 0 \/ \E x \in Completed' : a.run = x.run
        /\ \A k \in rejections' : k[1] = 0 \/ \E x \in Completed' : k[1] = x.run
    BY <1>2, <2>2 DEF ImportsInv, RunsOK
  <2>8. NextRun \in Nat
    BY <1>1
  <2> QED BY <2>2, <2>3, <2>4, <2>5, <2>6, <2>7, <2>8 DEF RunsOK
<1> QED BY <1>3, <1>4, StartCases

\* A command that ends gives its number to its run.
LEMMA RunsEnd ==
  ASSUME ImportsInv, NEW p \in Importers, proc[p].pc # "idle", Ends(p)
  PROVE  RunsOK'
<1> DEFINE R(status) == [run |-> proc[p].run, file |-> proc[p].file, status |-> status]
<1>1. Ended(p) /\ (Publishes(p) \/ GivesUp(p))
  BY EndCases
<1>2. /\ NextRun \in Nat \ {0}
      /\ \A x \in runs : x.run \in Nat \ {0} /\ x.run < NextRun
      /\ \A q \in Importers : proc[q].run \in Nat /\ proc[q].run < NextRun
      /\ p \in Active /\ Active \subseteq Importers
  BY FreshRun DEF ImportsInv, Active
<1>3. proc[p].run # 0
  BY DEF ImportsInv, ProcOK, Running
<1>4. /\ proc'[p].run = 0 /\ proc'[p].pc = "idle"
      /\ \A q \in Importers \ {p} : proc'[q] = proc[q]
  BY <1>1 DEF Ended, NoProc, ImportsInv, ProcOK
<1>5. Active' = Active \ {p}
  BY <1>4 DEF Active
<1>6. \A s : R(s).run = proc[p].run /\ R(s).status = s
  OBVIOUS
<1>7. \A x \in runs' : x \in runs \/ x = R("completed") \/ x = R("failed")
  BY <1>1 DEF Publishes, GivesUp
<1>8. R("completed") \notin runs' \/ R("failed") \notin runs'
  <2>1. R("completed") \notin runs /\ R("failed") \notin runs
    BY <1>2, <1>6 DEF ImportsInv, RunsOK
  <2>2. R("completed") # R("failed")
    BY <1>6
  <2> QED BY <1>1, <2>1, <2>2 DEF Publishes, GivesUp
<1> HIDE DEF R, NextRun
<1>9. NextRun \in Nat /\ /\ \A x \in runs' : x.run \in 1 .. NextRun
                         /\ \A q \in Importers : proc'[q].run \in 0 .. NextRun
  BY <1>2, <1>3, <1>4, <1>6, <1>7
<1>10. \A q \in Active' : \A x \in runs' : x.run # proc'[q].run
  <2> SUFFICES ASSUME NEW q \in Active', NEW x \in runs' PROVE x.run # proc'[q].run
    OBVIOUS
  <2>1. q \in Active /\ q # p /\ q \in Importers /\ proc'[q].run = proc[q].run
    BY <1>2, <1>4, <1>5
  <2> QED BY <1>2, <1>6, <1>7, <2>1 DEF ImportsInv, RunsOK
<1>11. \A q, r \in Active' : proc'[q].run = proc'[r].run => q = r
  BY <1>2, <1>4, <1>5 DEF ImportsInv, RunsOK
<1>12. \A x, y \in runs' : x.run = y.run => x = y
  <2> SUFFICES ASSUME NEW x \in runs', NEW y \in runs', x.run = y.run PROVE x = y
    OBVIOUS
  <2>1. CASE x \in runs /\ y \in runs
    BY <2>1 DEF ImportsInv, RunsOK
  <2>2. CASE x \notin runs /\ y \notin runs
    BY <1>7, <1>8, <2>2
  <2>3. ASSUME NEW z \in runs PROVE z.run # proc[p].run
    BY <1>2 DEF ImportsInv, RunsOK
  <2> QED BY <1>6, <1>7, <2>1, <2>2, <2>3
<1>13. \A x \in Completed : x \in Completed'
  BY <1>1 DEF Completed, Publishes, GivesUp
<1>14. /\ \A a \in attempts' : a.run = 0 \/ \E x \in Completed' : a.run = x.run
       /\ \A k \in rejections' : k[1] = 0 \/ \E x \in Completed' : k[1] = x.run
  <2>1. CASE GivesUp(p)
    BY <1>13, <2>1 DEF GivesUp, ImportsInv, RunsOK
  <2>2. CASE Publishes(p)
    <3>1. R("completed") \in Completed'
      BY <1>6, <2>2 DEF Publishes, Completed, R
    <3>2. \A a \in attempts' : a \in attempts \/ a.run = proc[p].run
      BY <2>2 DEF Publishes, Attempt
    <3>3. \A k \in rejections' : k \in rejections \/ k[1] = proc[p].run
      BY <2>2 DEF Publishes
    <3> QED BY <1>6, <1>13, <3>1, <3>2, <3>3 DEF ImportsInv, RunsOK
  <2> QED BY <1>1, <2>1, <2>2
<1> QED BY <1>9, <1>10, <1>11, <1>12, <1>14 DEF RunsOK

\* The other steps of a command.
LEMMA MovesAreQuiet ==
  ASSUME ImportsInv, NEW p \in Importers, ReadHistory(p) \/ (proc[p].pc = "chunks" /\ StoresChunk(p))
  PROVE  Quiet /\ UNCHANGED <<attempts, rejections, published>>
<1>1. DOMAIN proc = Importers /\ DOMAIN proc[p] = ProcFields
  BY DEF ImportsInv, ProcOK
<1>2. CASE ReadHistory(p)
  <2> DEFINE past == {a \in attempts : \E r \in Importable[proc[p].file] : EventOf[a.rec] = EventOf[r]}
  <2>1. proc[p].pc = "history" /\ UNCHANGED <<runs, attempts, rejections, published>>
        /\ proc' = [proc EXCEPT ![p].pc = "chunks", ![p].history = past]
    BY <1>2 DEF ReadHistory
  <2> HIDE DEF past
  <2>2. proc'[p].pc = "chunks" /\ proc'[p].run = proc[p].run /\ \A q \in Importers \ {p} : proc'[q] = proc[q]
    BY <1>1, <2>1 DEF ProcFields
  <2> QED BY <2>1, <2>2 DEF Quiet
<1>3. CASE proc[p].pc = "chunks" /\ StoresChunk(p)
  <2>1. /\ proc'[p].pc = "chunks" /\ proc'[p].run = proc[p].run
        /\ \A q \in Importers \ {p} : proc'[q] = proc[q]
    BY <1>1, <1>3 DEF StoresChunk, ProcFields
  <2>2. UNCHANGED <<runs, attempts, rejections, published>>
    BY <1>3 DEF StoresChunk
  <2> QED BY <1>3, <2>1, <2>2 DEF Quiet
<1> QED BY <1>2, <1>3

LEMMA MaxIsQuiet ==
  ASSUME ImportsInv, MaxStep
  PROVE  Quiet /\ UNCHANGED published
<1>1. UNCHANGED <<published, runs, proc>>
  BY MaxLeavesFiles
<1>2. CASE UNCHANGED <<attempts, rejections>>
  BY <1>1, <1>2 DEF Quiet
<1>3. CASE TickCommit
  <2>1. \A a \in worker.attempts : a.run = 0
    BY DEF ImportsInv, MaxOK
  <2>2. \A k \in {0} \X worker.rejected : k[1] = 0
    OBVIOUS
  <2> QED BY <1>1, <1>3, <2>1, <2>2 DEF TickCommit, Quiet
<1> QED BY <1>1, <1>2, <1>3, MaxLeavesFiles

LEMMA RunsStep ==
  ASSUME ImportsInv, [Next]_vars
  PROVE  RunsOK'
<1>1. CASE MaxStep
  BY <1>1, MaxIsQuiet, RunsQuiet DEF ImportsInv
<1>2. ASSUME NEW p \in Importers, Import(p) PROVE RunsOK'
  <2>1. CASE ReadHistory(p) \/ (proc[p].pc = "chunks" /\ StoresChunk(p))
    BY <2>1, MovesAreQuiet, RunsQuiet DEF ImportsInv
  <2> QED BY <1>2, <2>1, ImportCases, RunsStart, RunsEnd
<1> QED BY <1>1, <1>2 DEF Next, MaxStep

-----------------------------------------------------------------------------
(* Steps: the accounts of completed runs.                                  *)

LEMMA SameAccounts ==
  ASSUME RunsOK, AccountsOK, Completed' = Completed, published' = published,
         attempts \subseteq attempts', rejections \subseteq rejections',
         \A a \in attempts' : a \in attempts \/ a.run = 0,
         \A k \in rejections' : k \in rejections \/ k[1] = 0
  PROVE  AccountsOK'
<1>1. \A x \in Completed : x.run # 0
  BY FreshRun DEF Completed
<1>2. ASSUME NEW x \in Completed
      PROVE  /\ {b \in attempts' : b.run = x.run} = {b \in attempts : b.run = x.run}
             /\ {k \in rejections' : k[1] = x.run} = {k \in rejections : k[1] = x.run}
  BY <1>1
<1>3. \A x \in Completed :
         /\ {a.rec : a \in {b \in attempts' : b.run = x.run}} = Importable[x.file] \ SchemaInvalid
         /\ {j[2] : j \in {k \in rejections' : k[1] = x.run}} =
              Unmapped[x.file] \cup (Importable[x.file] \cap SchemaInvalid)
  BY <1>2 DEF AccountsOK
<1> QED BY <1>3 DEF AccountsOK

\* A command that publishes has evaluated every row of its file.
LEMMA AllEvaluated ==
  ASSUME ProcOK, NEW p \in Importers, proc[p].pc = "chunks", ~ChunksLeft(p)
  PROVE  /\ proc[p].file \in Files /\ Evaluated(p) = Importable[proc[p].file]
         /\ proc[p].invalid = Importable[proc[p].file] \cap SchemaInvalid
         /\ \A r \in Importable[proc[p].file] \ SchemaInvalid : EventOf[r] \in DOMAIN logical
<1>1. Running(p)
  BY DEF ProcOK
<1>2. \A r \in Importable[proc[p].file] : ChunkOf[proc[p].file][r] < proc[p].next
  <2> SUFFICES ASSUME NEW r \in Importable[proc[p].file]
               PROVE  ChunkOf[proc[p].file][r] < proc[p].next
    OBVIOUS
  <2>1. ChunkOf[proc[p].file][r] \in Nat /\ proc[p].next \in Nat
    BY <1>1, ChunkNumber DEF Running
  <2>2. ~(ChunkOf[proc[p].file][r] >= proc[p].next)
    BY DEF ChunksLeft
  <2> QED BY <2>1, <2>2
<1>3. Evaluated(p) = Importable[proc[p].file]
  BY <1>2 DEF Evaluated
<1> QED BY <1>1, <1>3 DEF Running

LEMMA AccountsPublish ==
  ASSUME ImportsInv, NEW p \in Importers, Publishes(p)
  PROVE  AccountsOK'
<1> DEFINE f == proc[p].file
           new == [run |-> proc[p].run, file |-> f, status |-> "completed"]
           invalid == proc[p].invalid
           run == proc[p].run
           added == {Attempt(r, run, proc[p].at) : r \in Importable[f] \ invalid}
           dropped == {run} \X (Unmapped[f] \cup invalid)
<1>1. /\ f \notin published /\ published' = published \cup {f} /\ runs' = runs \cup {new}
      /\ attempts' = attempts \cup added /\ rejections' = rejections \cup dropped
  BY DEF Publishes
<1>2. invalid = Importable[f] \cap SchemaInvalid
  BY AllEvaluated DEF ImportsInv, Publishes
<1>3. new.run = run /\ new.file = f /\ new.status = "completed"
  OBVIOUS
<1>4. \A a \in added : a.run = run
  BY DEF Attempt
<1>5. {a.rec : a \in added} = Importable[f] \ invalid
  <2>1. \A r : Attempt(r, run, proc[p].at).rec = r
    BY DEF Attempt
  <2> QED BY <2>1
<1>6. \A k \in dropped : k[1] = run
  OBVIOUS
<1>7. {k[2] : k \in dropped} = Unmapped[f] \cup invalid
  <2>1. \A k \in dropped : k[2] \in Unmapped[f] \cup invalid
    OBVIOUS
  <2>2. \A r \in Unmapped[f] \cup invalid : <<run, r>> \in dropped /\ <<run, r>>[2] = r
    OBVIOUS
  <2> HIDE DEF dropped
  <2> QED BY <2>1, <2>2
<1>8. run # 0 /\ \A x \in runs : x.run # run
  BY DEF ImportsInv, ProcOK, Running, Publishes, RunsOK, Active
<1>9. /\ \A a \in attempts : a.run # run
      /\ \A k \in rejections : k[1] # run
  BY <1>8 DEF ImportsInv, RunsOK, Completed
<1> HIDE DEF f, new, invalid, run, added, dropped
<1>10. Completed' = Completed \cup {new}
  BY <1>1, <1>3 DEF Completed
<1>11. \A x \in Completed : x.run # run /\ x.file \in published /\ x.file # f
  BY <1>1, <1>8 DEF Completed, ImportsInv, AccountsOK
<1>12. \A x, y \in Completed' : x.file = y.file => x = y
  BY <1>3, <1>10, <1>11 DEF ImportsInv, AccountsOK
<1>13. \A x \in Completed' : x.file \in published'
  BY <1>1, <1>3, <1>10, <1>11
<1>14. \A g \in published' : \E x \in Completed' : x.file = g
  BY <1>1, <1>3, <1>10 DEF ImportsInv, AccountsOK
<1>15. ASSUME NEW x \in Completed'
       PROVE  /\ {a.rec : a \in {b \in attempts' : b.run = x.run}} = Importable[x.file] \ SchemaInvalid
              /\ {j[2] : j \in {k \in rejections' : k[1] = x.run}} =
                   Unmapped[x.file] \cup (Importable[x.file] \cap SchemaInvalid)
  <2>1. CASE x \in Completed
    <3>1. /\ {b \in attempts' : b.run = x.run} = {b \in attempts : b.run = x.run}
          /\ {k \in rejections' : k[1] = x.run} = {k \in rejections : k[1] = x.run}
      BY <1>1, <1>4, <1>6, <1>11, <2>1
    <3> QED BY <2>1, <3>1 DEF ImportsInv, AccountsOK
  <2>2. CASE x = new
    <3>1. /\ {b \in attempts' : b.run = x.run} = added
          /\ {k \in rejections' : k[1] = x.run} = dropped
      BY <1>1, <1>3, <1>4, <1>6, <1>9, <2>2
    <3>2. Importable[f] \ invalid = Importable[f] \ SchemaInvalid
      BY <1>2
    <3> QED BY <1>2, <1>3, <1>5, <1>7, <2>2, <3>1, <3>2
  <2> QED BY <1>10, <2>1, <2>2
<1> QED BY <1>12, <1>13, <1>14, <1>15 DEF AccountsOK

LEMMA AccountsStep ==
  ASSUME ImportsInv, [Next]_vars
  PROVE  AccountsOK'
<1>1. ASSUME Quiet, UNCHANGED published, attempts \subseteq attempts', rejections \subseteq rejections'
      PROVE  AccountsOK'
  <2>1. Completed' = Completed
    BY <1>1 DEF Quiet, Completed
  <2> QED BY <1>1, <2>1, SameAccounts DEF Quiet, ImportsInv
<1>2. CASE MaxStep
  <2>1. attempts \subseteq attempts' /\ rejections \subseteq rejections'
    BY <1>2, MaxLeavesFiles DEF TickCommit
  <2> QED BY <1>1, <1>2, <2>1, MaxIsQuiet
<1>3. ASSUME NEW p \in Importers, Import(p) PROVE AccountsOK'
  <2>1. CASE ReadHistory(p) \/ (proc[p].pc = "chunks" /\ StoresChunk(p))
    BY <1>1, <2>1, MovesAreQuiet
  <2>2. ASSUME NEW f \in Files, Start(p, f) PROVE AccountsOK'
    <3>1. Completed' = Completed /\ UNCHANGED <<published, attempts, rejections>>
      BY <2>2, RunsStart, StartCases
    <3> QED BY <3>1, SameAccounts DEF ImportsInv
  <2>3. CASE Ends(p)
    <3>1. CASE GivesUp(p)
      <4>1. Completed' = Completed /\ UNCHANGED <<published, attempts, rejections>>
        BY <3>1 DEF GivesUp, Completed
      <4> QED BY <4>1, SameAccounts DEF ImportsInv
    <3> QED BY <2>3, <3>1, EndCases, AccountsPublish
  <2> QED BY <1>3, <2>1, <2>2, <2>3, ImportCases
<1> QED BY <1>2, <1>3 DEF Next, MaxStep

-----------------------------------------------------------------------------
(* Steps: postbacks and what they leave.                                   *)

\* The import commands do not touch the postbacks.
LEMMA ImportLeavesMax ==
  ASSUME NEW p \in Importers, Import(p)
  PROVE  UNCHANGED <<inbox, receivedAt, bodies, worker>>
<1>1. CASE \E f \in Files : Start(p, f)
  BY <1>1, StartCases DEF maxVars
<1>2. CASE ImportChunk(p)
  BY <1>2, ChunkCases DEF maxVars
<1>3. CASE ReadHistory(p) \/ Publish(p) \/ ImportAborts(p) \/ ImportCrashes(p)
  BY <1>3 DEF ReadHistory, Publish, ImportAborts, ImportCrashes, ImportIdle, maxVars
<1> QED BY <1>1, <1>2, <1>3 DEF Import

LEMMA MaxOKStep ==
  ASSUME ImportsInv, [Next]_vars
  PROVE  MaxOK'
<1> USE DEF ImportsInv, MaxOK
<1>1. Growing
  BY Grows
<1>2. ASSUME UNCHANGED <<inbox, receivedAt, bodies, worker>> PROVE MaxOK'
  BY <1>1, <1>2 DEF Growing
<1>3. ASSUME worker' = NoWorker, DOMAIN inbox' = Postbacks, receivedAt' = receivedAt,
             \A i \in Postbacks : inbox'[i] # "none" => inbox[i] # "none"
      PROVE  MaxOK'
  BY <1>1, <1>3 DEF NoWorker, WorkerFields, Growing
<1>4. CASE \E p \in Importers : Import(p)
  BY <1>2, <1>4, ImportLeavesMax
<1>5. ASSUME NEW i \in Postbacks, Receive(i) PROVE MaxOK'
  <2>1. /\ worker' = worker /\ inbox[i] # "pending" /\ "postbacks" \in uses
        /\ bodies' = bodies \/ bodies' = bodies \cup {i}
    BY <1>5 DEF Receive, ReceiveRefused, ReceiveWrite, ReceiveCommit, ReceiveFails
  <2>2. receivedAt' = receivedAt \/ receivedAt' = [receivedAt EXCEPT ![i] = clock']
    BY <1>5 DEF Receive, ReceiveRefused, ReceiveWrite, ReceiveCommit, ReceiveFails
  <2>3. receivedAt' \in [Postbacks -> Nat]
    BY <1>1, <2>2 DEF Growing
  <2>4. \A j \in worker.rows \cup worker.done : j # i
    BY <2>1
  <2>5. DOMAIN inbox' = Postbacks /\ \A j \in Postbacks \ {i} : inbox'[j] = inbox[j]
    BY <1>5 DEF Receive, ReceiveRefused, ReceiveWrite, ReceiveCommit, ReceiveFails
  <2>6. \A j \in Postbacks : inbox'[j] # "none" => "postbacks" \in uses'
    BY <1>1, <2>1 DEF Growing
  <2>7. \A j \in worker'.rows \cup worker'.done : j \in Postbacks /\ inbox'[j] = "pending"
    BY <2>1, <2>4, <2>5
  <2>8. \A j \in worker'.rejected : j \notin bodies'
    BY <2>1, <2>4
  <2>9. \A j \in worker'.done \ SchemaInvalid : EventOf[j] \in DOMAIN logical'
    BY <1>1, <2>1 DEF Growing
  <2> QED BY <2>1, <2>3, <2>5, <2>6, <2>7, <2>8, <2>9
<1>6. CASE TickBegin
  <2> DEFINE pending == {i \in Postbacks : inbox[i] = "pending"}
  <2>1. /\ UNCHANGED <<inbox, receivedAt, bodies>>
        /\ worker' = NoWorker \/ worker' = [NoWorker EXCEPT !.pc = "rows", !.rows = pending]
    BY <1>6 DEF TickBegin
  <2>2. CASE worker' = NoWorker
    BY <1>3, <2>1, <2>2
  <2>3. CASE worker' = [NoWorker EXCEPT !.pc = "rows", !.rows = pending]
    <3>1. DOMAIN worker' = WorkerFields /\ worker'.rows = pending /\ worker'.attempts = {}
          /\ worker'.rejected = {} /\ worker'.done = {}
      BY <2>3 DEF NoWorker, WorkerFields
    <3> QED BY <1>1, <2>1, <3>1 DEF Growing
  <2> QED BY <2>1, <2>2, <2>3
<1>7. ASSUME NEW i \in Postbacks, ProcessRow(i) PROVE MaxOK'
  <2>1. /\ inbox[i] = "pending" /\ (i \notin SchemaInvalid => EventOf[i] \in DOMAIN logical')
    BY <1>7, RowFacts
  <2>2. /\ UNCHANGED <<inbox, receivedAt>>
        /\ bodies' = IF i \in SchemaInvalid THEN bodies \ {i} ELSE bodies
        /\ worker' = [worker EXCEPT
              !.rows = @ \ {i},
              !.attempts = IF i \in SchemaInvalid THEN @ ELSE @ \cup {MaxAttempt(i)},
              !.rejected = IF i \in SchemaInvalid THEN @ \cup {i} ELSE @,
              !.done = @ \cup {i}]
    BY <1>7 DEF ProcessRow
  <2>3. MaxAttempt(i).run = 0
    BY DEF MaxAttempt, Attempt
  <2>4. /\ DOMAIN worker' = WorkerFields /\ worker'.rows = worker.rows \ {i}
        /\ worker'.done = worker.done \cup {i}
        /\ worker'.attempts = (IF i \in SchemaInvalid THEN worker.attempts
                               ELSE worker.attempts \cup {MaxAttempt(i)})
        /\ worker'.rejected = (IF i \in SchemaInvalid THEN worker.rejected \cup {i} ELSE worker.rejected)
    BY <2>2 DEF WorkerFields
  <2>5. worker'.rejected = worker'.done \cap SchemaInvalid
    BY <2>4
  <2>6. \A j \in worker'.rejected : j \notin bodies'
    BY <2>2, <2>4
  <2>7. \A a \in worker'.attempts : a.run = 0
    BY <2>3, <2>4
  <2>8. \A j \in worker'.done \ SchemaInvalid : EventOf[j] \in DOMAIN logical'
    BY <1>1, <2>1, <2>4 DEF Growing
  <2>9. \A j \in worker'.rows \cup worker'.done : j \in Postbacks /\ inbox'[j] = "pending"
    BY <2>1, <2>2, <2>4
  <2> QED BY <1>1, <2>2, <2>4, <2>5, <2>6, <2>7, <2>8, <2>9 DEF Growing
<1>8. CASE WorkerCrashes \/ \E i \in Postbacks : RowThrows(i)
  BY <1>3, <1>8 DEF WorkerCrashes, RowThrows
<1>9. CASE TickCommit
  <2>1. worker' = NoWorker /\ receivedAt' = receivedAt
        /\ inbox' = [i \in Postbacks |-> IF i \in worker.done THEN "processed" ELSE inbox[i]]
    BY <1>9 DEF TickCommit
  <2> QED BY <1>3, <2>1
<1>10. CASE UNCHANGED vars
  BY <1>2, <1>10 DEF vars, maxVars
<1> QED BY <1>4, <1>5, <1>6, <1>7, <1>8, <1>9, <1>10 DEF Next, Tick

LEMMA MarkedStep ==
  ASSUME ImportsInv, [Next]_vars
  PROVE  MarkedOK'
<1> USE DEF ImportsInv
<1>1. Growing
  BY Grows
<1>2. ASSUME \A i \in Postbacks : inbox'[i] = "processed" => inbox[i] = "processed",
             \A i \in Postbacks : inbox[i] = "processed" /\ i \notin bodies => i \notin bodies',
             rejections \subseteq rejections',
             \A k \in rejections' : k \in rejections \/ k[1] # 0
      PROVE  MarkedOK'
  BY <1>1, <1>2 DEF MarkedOK, Growing
<1>3. ASSUME NEW p \in Importers, Import(p) PROVE MarkedOK'
  <2>1. UNCHANGED <<inbox, bodies>>
    BY <1>3, ImportLeavesMax
  <2>2. CASE rejections' = rejections
    BY <1>2, <2>1, <2>2
  <2>3. CASE proc[p].pc # "idle" /\ Publishes(p)
    <3>1. proc[p].run # 0
      BY <2>3 DEF ProcOK, Running
    <3>2. \A k \in {proc[p].run} \X (Unmapped[proc[p].file] \cup proc[p].invalid) : k[1] = proc[p].run
      OBVIOUS
    <3>3. rejections' = rejections \cup
             ({proc[p].run} \X (Unmapped[proc[p].file] \cup proc[p].invalid))
      BY <2>3 DEF Publishes
    <3> QED BY <1>2, <2>1, <3>1, <3>2, <3>3
  <2>4. rejections' = rejections \/ (proc[p].pc # "idle" /\ Publishes(p))
    <3>1. CASE \E f \in Files : Start(p, f)
      BY <3>1, StartCases
    <3>2. CASE Ends(p) /\ proc[p].pc # "idle"
      BY <3>2, EndCases DEF GivesUp
    <3> QED BY <1>3, <3>1, <3>2, ImportCases, MovesAreQuiet
  <2> QED BY <2>2, <2>3, <2>4
<1>4. ASSUME NEW i \in Postbacks, Receive(i) PROVE MarkedOK'
  <2>1. /\ DOMAIN inbox = Postbacks /\ inbox[i] # "processed"
        /\ rejections' = rejections /\ (bodies' = bodies \/ bodies' = bodies \cup {i})
    BY <1>4 DEF MaxOK, Receive, ReceiveRefused, ReceiveWrite, ReceiveCommit, ReceiveFails, MaxIdle
  <2>2. inbox'[i] # "processed" /\ \A j \in Postbacks \ {i} : inbox'[j] = inbox[j]
    BY <1>4, <2>1 DEF Receive, ReceiveRefused, ReceiveWrite, ReceiveCommit, ReceiveFails
  <2> QED BY <1>2, <2>1, <2>2
<1>5. CASE TickBegin \/ WorkerCrashes \/ \E i \in Postbacks : ProcessRow(i) \/ RowThrows(i)
  <2>1. inbox' = inbox /\ rejections' = rejections /\ bodies' \subseteq bodies
    BY <1>5 DEF TickBegin, WorkerCrashes, ProcessRow, RowThrows, MaxIdle
  <2> QED BY <1>2, <2>1
<1>6. CASE TickCommit
  <2>1. /\ inbox' = [i \in Postbacks |-> IF i \in worker.done THEN "processed" ELSE inbox[i]]
        /\ rejections' = rejections \cup ({0} \X worker.rejected) /\ bodies' = bodies
        /\ logical' = logical
    BY <1>6 DEF TickCommit
  <2>2. \A k \in {0} \X worker.rejected : k[2] \in SchemaInvalid
    BY DEF MaxOK
  <2>3. \A k \in rejections' : k[1] = 0 => k[2] \in SchemaInvalid
    BY <2>1, <2>2 DEF MarkedOK
  <2>4. ASSUME NEW i \in Postbacks, inbox'[i] = "processed"
        PROVE  \/ i \notin SchemaInvalid /\ EventOf[i] \in DOMAIN logical'
               \/ <<0, i>> \in rejections' /\ i \notin bodies'
    <3>1. CASE i \in worker.done /\ i \in SchemaInvalid
      <4>1. i \in worker.rejected /\ i \notin bodies
        BY <3>1 DEF MaxOK
      <4>2. <<0, i>> \in {0} \X worker.rejected
        BY <4>1
      <4> QED BY <2>1, <4>1, <4>2
    <3>2. CASE i \in worker.done /\ i \notin SchemaInvalid
      BY <2>1, <3>2 DEF MaxOK
    <3>3. CASE i \notin worker.done
      <4>1. inbox[i] = "processed"
        BY <2>1, <2>4, <3>3
      <4> QED BY <2>1, <4>1 DEF MarkedOK
    <3> QED BY <3>1, <3>2, <3>3
  <2> QED BY <2>3, <2>4 DEF MarkedOK
<1>7. CASE UNCHANGED vars
  BY <1>2, <1>7 DEF vars, maxVars
<1> QED BY <1>3, <1>4, <1>5, <1>6, <1>7 DEF Next, Tick

\* Where the ledger and the deliveries change.
LEMMA LedgerCases ==
  ASSUME ImportsInv, [Next]_vars
  PROVE  \/ UNCHANGED <<logical, deliveries>>
         \/ \E p \in Importers : proc[p].pc = "chunks" /\ StoresChunk(p)
         \/ \E i \in Postbacks : ProcessRow(i)
<1>1. ASSUME NEW p \in Importers, Import(p), ~(proc[p].pc = "chunks" /\ StoresChunk(p))
      PROVE  UNCHANGED <<logical, deliveries>>
  <2>1. CASE \E f \in Files : Start(p, f)
    BY <2>1, StartCases
  <2>2. CASE ImportChunk(p)
    BY <1>1, <2>2, ChunkCases
  <2>3. CASE ReadHistory(p) \/ Publish(p) \/ ImportAborts(p) \/ ImportCrashes(p)
    BY <2>3 DEF ReadHistory, Publish, ImportAborts, ImportCrashes
  <2> QED BY <1>1, <2>1, <2>2, <2>3 DEF Import
<1>2. CASE \E i \in Postbacks : Receive(i)
  BY <1>2 DEF Receive, ReceiveRefused, ReceiveWrite, ReceiveCommit, ReceiveFails
<1>3. CASE TickBegin \/ TickCommit \/ WorkerCrashes \/ \E i \in Postbacks : RowThrows(i)
  BY <1>3 DEF TickBegin, TickCommit, WorkerCrashes, RowThrows
<1>4. CASE UNCHANGED vars
  BY <1>4 DEF vars
<1> QED BY <1>1, <1>2, <1>3, <1>4 DEF Next, Tick

\* Where attempts come from.
LEMMA AttemptCases ==
  ASSUME ImportsInv, [Next]_vars
  PROVE  \/ attempts' = attempts
         \/ attempts' = attempts \cup worker.attempts
         \/ \E p \in Importers : proc[p].pc = "chunks" /\ Publishes(p)
<1>1. CASE MaxStep
  BY <1>1, MaxLeavesFiles DEF TickCommit
<1>2. ASSUME NEW p \in Importers, Import(p) PROVE attempts' = attempts \/ (proc[p].pc = "chunks" /\ Publishes(p))
  <2>1. CASE \E f \in Files : Start(p, f)
    BY <2>1, StartCases
  <2>2. CASE Ends(p)
    BY <2>2, EndCases DEF GivesUp, Publishes
  <2> QED BY <1>2, <2>1, <2>2, ImportCases, MovesAreQuiet
<1> QED BY <1>1, <1>2 DEF Next, MaxStep

\* Where the attempts of a tick come from.
LEMMA WorkerCases ==
  ASSUME ImportsInv, [Next]_vars
  PROVE  \/ worker'.attempts = worker.attempts \/ worker'.attempts = {}
         \/ \E i \in Postbacks : /\ ProcessRow(i) /\ i \notin SchemaInvalid
                                 /\ worker'.attempts = worker.attempts \cup {MaxAttempt(i)}
<1>1. CASE \E p \in Importers : Import(p)
  BY <1>1, ImportLeavesMax
<1>2. CASE \E i \in Postbacks : Receive(i)
  BY <1>2 DEF Receive, ReceiveRefused, ReceiveWrite, ReceiveCommit, ReceiveFails
<1>3. CASE TickBegin
  BY <1>3 DEF TickBegin, NoWorker
<1>4. CASE TickCommit \/ WorkerCrashes \/ \E i \in Postbacks : RowThrows(i)
  <2>1. worker' = NoWorker
    BY <1>4 DEF TickCommit, WorkerCrashes, RowThrows
  <2> QED BY <2>1 DEF NoWorker
<1>5. ASSUME NEW i \in Postbacks, ProcessRow(i)
      PROVE  worker'.attempts = IF i \in SchemaInvalid THEN worker.attempts
                                ELSE worker.attempts \cup {MaxAttempt(i)}
  <2>1. DOMAIN worker = WorkerFields
    BY DEF ImportsInv, MaxOK
  <2> QED BY <1>5, <2>1 DEF ProcessRow, WorkerFields
<1>6. CASE UNCHANGED vars
  BY <1>6 DEF vars, maxVars
<1> QED BY <1>1, <1>2, <1>3, <1>4, <1>5, <1>6 DEF Next, Tick

LEMMA HistoryStep ==
  ASSUME ImportsInv, [Next]_vars
  PROVE  HistoryOK'
<1> USE DEF ImportsInv
<1>1. Growing
  BY Grows
<1>2. Arriving' = Arriving
  BY <1>1 DEF Arriving, Growing
<1>3. logical' = [e \in DOMAIN logical' |-> logical'[e]]
  <2>1. CASE logical' = logical
    BY <2>1 DEF HistoryOK
  <2> QED BY <2>1, LedgerCases, StoreFacts, RowFacts
<1>4. ASSUME NEW a \in attempts'
      PROVE  a.rec \in Arriving /\ a.at \in Nat /\ EventOf[a.rec] \in DOMAIN logical'
  <2>1. CASE a \in attempts \/ a \in worker.attempts
    BY <1>1, <2>1 DEF HistoryOK, Sound, Growing
  <2>2. ASSUME NEW p \in Importers, proc[p].pc = "chunks", Publishes(p), a \notin attempts
        PROVE  a.rec \in Arriving /\ a.at \in Nat /\ EventOf[a.rec] \in DOMAIN logical'
    <3>1. PICK r \in Importable[proc[p].file] \ proc[p].invalid : a = Attempt(r, proc[p].run, proc[p].at)
      BY <2>2 DEF Publishes
    <3>2. a.rec = r /\ a.at = proc[p].at
      BY <3>1 DEF Attempt
    <3>3. Running(p)
      BY <2>2 DEF ProcOK
    <3>4. proc[p].file \in Files /\ r \notin SchemaInvalid /\ EventOf[r] \in DOMAIN logical
      BY <2>2, <3>1, AllEvaluated DEF Publishes
    <3>5. r \in Arriving
      BY <3>1, <3>3, <3>4, ImportableRows DEF Arriving, Running
    <3> QED BY <1>1, <3>2, <3>3, <3>4, <3>5 DEF Running, Growing
  <2> QED BY <2>1, <2>2, AttemptCases
<1>5. ASSUME NEW a \in worker'.attempts
      PROVE  a.rec \in Arriving /\ a.at \in Nat /\ EventOf[a.rec] \in DOMAIN logical'
  <2>1. CASE a \in worker.attempts
    BY <1>1, <2>1 DEF HistoryOK, Sound, Growing
  <2>2. ASSUME NEW i \in Postbacks, ProcessRow(i), i \notin SchemaInvalid, a = MaxAttempt(i)
        PROVE  a.rec \in Arriving /\ a.at \in Nat /\ EventOf[a.rec] \in DOMAIN logical'
    <3>1. a.rec = i /\ a.at = receivedAt[i]
      BY <2>2 DEF MaxAttempt, Attempt
    <3> QED BY <2>2, <3>1, RowFacts
  <2> QED BY <2>1, <2>2, WorkerCases
<1>6. Sound(attempts)' /\ Sound(worker.attempts)'
  BY <1>2, <1>4, <1>5 DEF Sound
<1> QED BY <1>3, <1>6 DEF HistoryOK

LEMMA AcceptedStep ==
  ASSUME ImportsInv, [Next]_vars
  PROVE  AcceptedIsLogical'
<1> USE DEF ImportsInv
<1>1. Growing
  BY Grows
<1>2. ASSUME NEW d \in deliveries', d[2] \in {"unique", "duplicate_delivery", "event_id_conflict"}
      PROVE  EventOf[d[1]] \in DOMAIN logical'
  <2>1. CASE d \in deliveries
    BY <1>1, <1>2, <2>1 DEF AcceptedIsLogical, Growing
  <2>2. ASSUME NEW p \in Importers, proc[p].pc = "chunks", StoresChunk(p), d \notin deliveries
        PROVE  EventOf[d[1]] \in DOMAIN logical'
    <3>1. PICK a \in Valid(Chunk(p)) : d[1] = a.rec
      BY <1>2, <2>2, StoreFacts
    <3> QED BY <2>2, <3>1, StoreFacts
  <2>3. ASSUME NEW i \in Postbacks, ProcessRow(i), d \notin deliveries
        PROVE  EventOf[d[1]] \in DOMAIN logical'
    BY <1>2, <2>3, RowFacts
  <2> QED BY <2>1, <2>2, <2>3, LedgerCases
<1> QED BY <1>2 DEF AcceptedIsLogical

-----------------------------------------------------------------------------
(* The invariant.                                                          *)

\* The record ids of a deployment order its records.
LEMMA RankFacts ==
  ASSUME rank \in Ranks
  PROVE  /\ \A r \in Arriving : rank[r] \in Nat
         /\ \A r, s \in Arriving : EventOf[r] = EventOf[s] /\ rank[r] = rank[s] => r = s
<1> DEFINE Of(e) == {r \in Arriving : EventOf[r] = e}
           B == {Cardinality(Of(EventOf[r])) : r \in Arriving}
<1>1. rank \in {g \in [Arriving -> 1 .. Max(B)] :
                  \A r \in Arriving :
                      /\ g[r] <= Cardinality(Of(EventOf[r]))
                      /\ \A s \in Of(EventOf[r]) : g[r] = g[s] => r = s}
  BY DEF Ranks, Arriving
<1>2. \A r \in Arriving : rank[r] \in 1 .. Max(B)
  BY <1>1
<1>3. \A r, s \in Arriving : EventOf[r] = EventOf[s] /\ rank[r] = rank[s] => r = s
  BY <1>1
<1>4. ASSUME NEW r \in Arriving PROVE rank[r] \in Nat
  <2>1. IsFiniteSet(Arriving)
    <3>1. IsFiniteSet(Records) /\ Arriving \subseteq Records
      BY ImportsAssumption DEF Arriving, Records
    <3> QED BY <3>1, FS_Subset
  <2>2. Cardinality(Arriving) \in Nat
    BY <2>1, FS_CardinalityType
  <2>3. ASSUME NEW e PROVE Cardinality(Of(e)) \in 0 .. Cardinality(Arriving)
    <3>1. Of(e) \subseteq Arriving
      OBVIOUS
    <3> HIDE DEF Of
    <3>2. IsFiniteSet(Of(e)) /\ Cardinality(Of(e)) <= Cardinality(Arriving)
      BY <2>1, <3>1, FS_Subset
    <3>3. Cardinality(Of(e)) \in Nat
      BY <3>2, FS_CardinalityType
    <3> QED BY <2>2, <3>2, <3>3
  <2> HIDE DEF Of
  <2>4. B \subseteq 0 .. Cardinality(Arriving)
    BY <2>3
  <2>5. B # {}
    BY <1>4
  <2> HIDE DEF B
  <2>6. Max(B) \in B
    BY <2>2, <2>4, <2>5, GreatestNat
  <2>7. Max(B) \in Nat
    <3>1. \A b \in 0 .. Cardinality(Arriving) : b \in Nat
      BY <2>2
    <3> QED BY <2>4, <2>6, <3>1
  <2> QED BY <1>2, <1>4, <2>7
<1> QED BY <1>3, <1>4

LEMMA InitInvariant == Init => ImportsInv
<1> SUFFICES ASSUME Init PROVE ImportsInv
  OBVIOUS
<1> USE DEF Init
<1>1. GivenOK
  BY RankFacts DEF GivenOK
<1>2. ProcOK
  <2>1. \A p \in Importers : DOMAIN proc[p] = ProcFields /\ proc[p].pc = "idle"
    BY DEF NoProc, ProcFields
  <2> QED BY <2>1 DEF ProcOK
<1>3. RunsOK
  <2>1. \A p \in Importers : proc[p].run \in 0 .. 0 /\ proc[p].pc = "idle"
    BY DEF NoProc
  <2>2. Active = {}
    BY <2>1 DEF Active
  <2> QED BY <2>1, <2>2 DEF RunsOK
<1>4. AccountsOK
  BY DEF AccountsOK, Completed
<1>5. MaxOK
  BY DEF MaxOK, NoWorker, WorkerFields
<1>6. MarkedOK
  BY DEF MarkedOK
<1>7. DOMAIN logical = {}
  OBVIOUS
<1>8. HistoryOK
  BY DEF HistoryOK, Sound, NoWorker
<1>9. AcceptedIsLogical
  BY DEF AcceptedIsLogical
<1> QED BY <1>1, <1>2, <1>3, <1>4, <1>5, <1>6, <1>8, <1>9 DEF ImportsInv

LEMMA InvariantStep == ImportsInv /\ [Next]_vars => ImportsInv'
<1> SUFFICES ASSUME ImportsInv, [Next]_vars PROVE ImportsInv'
  OBVIOUS
<1>1. GivenOK'
  BY Grows, GivenStep DEF ImportsInv
<1> QED BY <1>1, ProcStep, RunsStep, AccountsStep, MaxOKStep, MarkedStep, HistoryStep, AcceptedStep
       DEF ImportsInv

\* In every reachable state, what a command has evaluated is in the ledger, the
\* histories that are read hold only events of the ledger, run numbers are unique,
\* and a completed run has the attempts and rejections of its file (runMmpImport,
\* processMaxInbox, ingestRuntimeBatch).
THEOREM Invariance == Spec => []ImportsInv
BY InitInvariant, InvariantStep, PTL DEF Spec

\* An attempt that evaluation accepted has its event in the ledger, for any number of
\* importers, any chunk size and any faults (ingestRuntimeBatch with the histories of
\* runner.ts and max-worker.ts).
THEOREM AcceptedSafety == Spec => []AcceptedIsLogical
<1>1. ImportsInv => AcceptedIsLogical
  BY DEF ImportsInv
<1> QED BY <1>1, Invariance, PTL

LEMMA AccountsImplyRows == ImportsInv => RowsAccountedFor
<1> SUFFICES ASSUME ImportsInv, NEW f \in Files
             PROVE  LET completed == {x \in runs : x.file = f /\ x.status = "completed"}
                        rows == Range(RowsOf[f]) \cap Matching
                    IN  /\ Cardinality(completed) = (IF f \in published THEN 1 ELSE 0)
                        /\ \A x \in completed :
                             LET accepted == {a.rec : a \in {b \in attempts : b.run = x.run}}
                                 rejected == {j[2] : j \in {k \in rejections : k[1] = x.run}}
                             IN  accepted \cup rejected = rows /\ accepted \cap rejected = {}
  BY DEF RowsAccountedFor
<1> DEFINE completed == {x \in runs : x.file = f /\ x.status = "completed"}
           rows == Range(RowsOf[f]) \cap Matching
<1>1. \A x : x \in completed <=> x \in Completed /\ x.file = f
  BY DEF Completed
<1> HIDE DEF completed
<1>2. Cardinality(completed) = (IF f \in published THEN 1 ELSE 0)
  <2>1. CASE f \in published
    <3>1. PICK x \in Completed : x.file = f
      BY <2>1 DEF ImportsInv, AccountsOK
    <3>2. completed = {x}
      BY <1>1, <3>1 DEF ImportsInv, AccountsOK
    <3> QED BY <2>1, <3>2, FS_Singleton
  <2>2. CASE f \notin published
    <3>1. completed = {}
      BY <1>1, <2>2 DEF ImportsInv, AccountsOK
    <3> QED BY <2>2, <3>1, FS_EmptySet
  <2> QED BY <2>1, <2>2
<1>3. ASSUME NEW x \in completed
      PROVE  LET accepted == {a.rec : a \in {b \in attempts : b.run = x.run}}
                 rejected == {j[2] : j \in {k \in rejections : k[1] = x.run}}
             IN  accepted \cup rejected = rows /\ accepted \cap rejected = {}
  <2> DEFINE accepted == {a.rec : a \in {b \in attempts : b.run = x.run}}
             rejected == {j[2] : j \in {k \in rejections : k[1] = x.run}}
  <2>1. x \in Completed /\ x.file = f
    BY <1>1
  <2>2. /\ accepted = Importable[f] \ SchemaInvalid
        /\ rejected = Unmapped[f] \cup (Importable[f] \cap SchemaInvalid)
    BY <2>1 DEF ImportsInv, AccountsOK
  <2>3. Importable[f] \cup Unmapped[f] = rows /\ Importable[f] \cap Unmapped[f] = {}
    BY DEF Importable, Unmapped
  <2> HIDE DEF accepted, rejected, rows
  <2>4. accepted \cup rejected = rows /\ accepted \cap rejected = {}
    BY <2>2, <2>3
  <2> QED BY <2>4 DEF accepted, rejected
<1> QED BY <1>2, <1>3 DEF completed

\* A published file has one completed run, and each of its matching rows is an
\* attempt or a rejection of that run, never both, whatever other runs did (the last
\* transaction of runMmpImport).
THEOREM AccountingSafety == Spec => []RowsAccountedFor
BY AccountsImplyRows, Invariance, PTL

\* A processed postback has its event in the ledger, or it was rejected and its query
\* can no longer be read, whatever ticks were rolled back (processMaxInbox).
THEOREM PostbackSafety == Spec => []ProcessedLeavesItsMark
<1>1. ImportsInv => ProcessedLeavesItsMark
  <2> SUFFICES ASSUME ImportsInv, NEW i \in Postbacks, inbox[i] = "processed"
               PROVE  \/ EventOf[i] \in DOMAIN logical /\ <<0, i>> \notin rejections
                      \/ <<0, i>> \in rejections /\ i \notin bodies
    BY DEF ProcessedLeavesItsMark
  <2>1. <<0, i>>[1] = 0 /\ <<0, i>>[2] = i
    OBVIOUS
  <2>2. <<0, i>> \in rejections => i \in SchemaInvalid
    BY <2>1 DEF ImportsInv, MarkedOK
  <2> QED BY <2>2 DEF ImportsInv, MarkedOK
<1> QED BY <1>1, Invariance, PTL

-----------------------------------------------------------------------------
(* Refinement: imports implement ImportLedger.                             *)

\* The record that a chunk brings for a new event is the one that an uninterrupted
\* import of the file would choose.
LEMMA ChunkWinner ==
  ASSUME ImportsInv, NEW p \in Importers, proc[p].pc = "chunks", StoresChunk(p),
         NEW e \in DOMAIN logical' \ DOMAIN logical
  PROVE  e \in DOMAIN Winner(proc[p].file) /\ logical'[e] = Winner(proc[p].file)[e]
<1> USE DEF ImportsInv
<1> DEFINE f == proc[p].file
           P(r) == \A s \in Candidates[f][e] \ {r} :
                     \/ ChunkOf[f][r] < ChunkOf[f][s]
                     \/ ChunkOf[f][r] = ChunkOf[f][s] /\ rank[r] < rank[s]
<1>1. Running(p) /\ f \in Files
  BY DEF ProcOK, Running
<1>2. PICK a \in Valid(Chunk(p)) :
         /\ EventOf[a.rec] = e /\ logical'[e] = a.rec
         /\ \A o \in Valid(Chunk(p)) : EventOf[o.rec] = e => ~Before(o, a)
  BY StoreFacts
<1> DEFINE r == a.rec
<1>3. /\ r \in Importable[f] \ SchemaInvalid /\ EventOf[r] = e /\ ChunkOf[f][r] = proc[p].next
      /\ a.at = proc[p].at /\ a.at \in Nat /\ r \in Arriving
  BY <1>2, ChunkFacts DEF Valid
<1>4. e \in DOMAIN Candidates[f]
      /\ Candidates[f][e] = {x \in Importable[f] \ SchemaInvalid : EventOf[x] = e}
  BY <1>1, <1>3 DEF Candidates
<1> HIDE DEF r, f
<1>5. \A s \in Candidates[f][e] : ChunkOf[f][s] \in Nat /\ rank[s] \in Nat /\ s \in Arriving
  BY <1>1, <1>4, ChunkNumber, ImportableRows DEF Running, Arriving, GivenOK
<1>6. r \in Candidates[f][e]
  BY <1>3, <1>4
<1>7. ASSUME NEW s \in Candidates[f][e] \ {r}
      PROVE  \/ ChunkOf[f][r] < ChunkOf[f][s]
             \/ ChunkOf[f][r] = ChunkOf[f][s] /\ rank[r] < rank[s]
  <2>1. s \in Importable[f] \ SchemaInvalid /\ EventOf[s] = e
    BY <1>4
  <2>2. ~(ChunkOf[f][s] < ChunkOf[f][r])
    <3>1. SUFFICES ASSUME ChunkOf[f][s] < ChunkOf[f][r] PROVE FALSE
      OBVIOUS
    <3>2. s \in Evaluated(p)
      BY <1>3, <2>1, <3>1 DEF Evaluated, f
    <3> QED BY <1>1, <2>1, <3>2 DEF Running
  <2>3. CASE ChunkOf[f][s] = ChunkOf[f][r]
    <3> DEFINE o == Attempt(s, proc[p].run, proc[p].at)
    <3>1. o \in Chunk(p)
      BY <1>3, <2>1, <2>3, ChunkFacts DEF f
    <3>2. o.rec = s /\ o.at = proc[p].at
      BY DEF Attempt
    <3>3. o \in Valid(Chunk(p))
      BY <2>1, <3>1, <3>2 DEF Valid
    <3> HIDE DEF o
    <3>4. ~Before(o, a)
      BY <1>2, <2>1, <3>2, <3>3
    <3>5. ~(rank[s] < rank[r])
      BY <1>3, <3>2, <3>4 DEF Before, r
    <3>6. rank[s] # rank[r]
      BY <1>3, <1>5, <2>1 DEF GivenOK
    <3>7. rank[s] \in Nat /\ rank[r] \in Nat
      BY <1>5, <1>6
    <3> QED BY <2>3, <3>5, <3>6, <3>7
  <2>4. ChunkOf[f][s] \in Nat /\ ChunkOf[f][r] \in Nat
    BY <1>5, <1>6
  <2> QED BY <2>2, <2>3, <2>4
<1>8. P(r)
  BY <1>7
<1>9. ASSUME NEW s \in Candidates[f][e], P(s) PROVE s = r
  <2>1. SUFFICES ASSUME s # r PROVE FALSE
    OBVIOUS
  <2>2. \/ ChunkOf[f][s] < ChunkOf[f][r]
        \/ ChunkOf[f][s] = ChunkOf[f][r] /\ rank[s] < rank[r]
    BY <1>6, <1>9, <2>1
  <2>3. \/ ChunkOf[f][r] < ChunkOf[f][s]
        \/ ChunkOf[f][r] = ChunkOf[f][s] /\ rank[r] < rank[s]
    BY <1>7, <2>1
  <2>4. ChunkOf[f][s] \in Nat /\ ChunkOf[f][r] \in Nat /\ rank[s] \in Nat /\ rank[r] \in Nat
    BY <1>5, <1>6
  <2> QED BY <2>2, <2>3, <2>4
<1> DEFINE w == CHOOSE x \in Candidates[f][e] : P(x)
<1>10. w = r
  <2>1. w \in Candidates[f][e] /\ P(w)
    BY <1>6, <1>8
  <2> HIDE DEF w, P
  <2> QED BY <1>9, <2>1
<1>11. e \in DOMAIN Winner(f) /\ Winner(f)[e] = w
  BY <1>4 DEF Winner
<1> QED BY <1>2, <1>10, <1>11 DEF r, f

\* Nothing changes what a file would choose.
LEMMA WinnersStay ==
  ASSUME Growing
  PROVE  [f \in Files |-> Winner(f)]' = [f \in Files |-> Winner(f)]
<1>1. \A f \in Files : Winner(f)' = Winner(f)
  BY DEF Growing, Winner
<1> QED BY <1>1

LEMMA StepRefines ==
  ASSUME ImportsInv, [Next]_vars
  PROVE  [Ledger!Next]_(Ledger!vars)
<1> USE DEF ImportsInv
<1> DEFINE winner == [f \in Files |-> Winner(f)]
<1>1. Growing /\ winner' = winner
  BY Grows, WinnersStay
<1>2. logical = [e \in DOMAIN logical |-> logical[e]] /\ logical' = [e \in DOMAIN logical' |-> logical'[e]]
  BY HistoryStep DEF HistoryOK
<1>3. published' = published \/ \E p \in Importers : proc[p].pc = "chunks" /\ Publishes(p) /\ logical' = logical
  <2>1. CASE MaxStep
    BY <2>1, MaxLeavesFiles
  <2>2. ASSUME NEW p \in Importers, Import(p)
        PROVE  published' = published \/ (proc[p].pc = "chunks" /\ Publishes(p) /\ logical' = logical)
    <3>1. CASE \E f \in Files : Start(p, f)
      BY <3>1, StartCases
    <3>2. CASE ReadHistory(p) \/ ImportCrashes(p) \/ ImportAborts(p)
      BY <3>2 DEF ReadHistory, ImportCrashes, ImportAborts, ImportFails
    <3>3. CASE ImportChunk(p)
      BY <3>3, ChunkCases DEF StoresChunk, ImportFails
    <3>4. CASE Publish(p)
      BY <3>4 DEF Publish, ImportFails, Publishes, Log
    <3> QED BY <2>2, <3>1, <3>2, <3>3, <3>4 DEF Import
  <2> QED BY <2>1, <2>2 DEF Next, MaxStep
<1>4. CASE logical' = logical /\ published' = published
  BY <1>1, <1>4 DEF Ledger!vars
<1>5. ASSUME NEW p \in Importers, proc[p].pc = "chunks", Publishes(p), logical' = logical
      PROVE  Ledger!Next
  <2> DEFINE f == proc[p].file
  <2>1. f \in Files /\ \A r \in Importable[f] \ SchemaInvalid : EventOf[r] \in DOMAIN logical
    BY <1>5, AllEvaluated DEF Publishes
  <2>2. DOMAIN winner[f] \subseteq DOMAIN logical
    BY <2>1 DEF Winner, Candidates
  <2>3. f \notin published /\ published' = published \cup {f}
    BY <1>5 DEF Publishes
  <2> HIDE DEF f, winner
  <2>4. Ledger!Publish(f)
    BY <1>1, <1>5, <2>2, <2>3 DEF Ledger!Publish, winner
  <2> QED BY <2>1, <2>4 DEF Ledger!Next
<1>6. ASSUME NEW p \in Importers, proc[p].pc = "chunks", StoresChunk(p), published' = published
      PROVE  Ledger!Next
  <2> DEFINE f == proc[p].file
             events == DOMAIN logical' \ DOMAIN logical
  <2>1. f \in Files
    BY <1>6 DEF ProcOK, Running
  <2>2. \A e \in events : e \in DOMAIN winner[f] /\ logical'[e] = winner[f][e]
    BY <1>6, <2>1, ChunkWinner
  <2>3. events \subseteq DOMAIN winner[f] /\ events \ DOMAIN logical = events
    BY <2>2
  <2>4. DOMAIN logical' = DOMAIN logical \cup events
    BY <1>1 DEF Growing
  <2> HIDE DEF winner, f
  <2>5. logical' = [e \in DOMAIN logical \cup events |->
                       IF e \in events THEN winner[f][e] ELSE logical[e]]
    BY <1>1, <1>2, <2>2, <2>4 DEF Growing
  <2> HIDE DEF events
  <2>6. Ledger!Add(events, winner[f])
    BY <2>3, <2>5 DEF Ledger!Add
  <2>7. Ledger!Ingest(f)
    BY <1>1, <1>6, <2>3, <2>6 DEF Ledger!Ingest, winner
  <2> QED BY <2>1, <2>7 DEF Ledger!Next
<1>7. ASSUME NEW i \in Postbacks, ProcessRow(i), published' = published
      PROVE  [Ledger!Next]_(Ledger!vars)
  <2>1. /\ i \notin SchemaInvalid => EventOf[i] \in DOMAIN logical'
        /\ \A e \in DOMAIN logical' \ DOMAIN logical :
             e = EventOf[i] /\ logical'[e] = i /\ i \notin SchemaInvalid
    BY <1>7, RowFacts
  <2>2. CASE DOMAIN logical' = DOMAIN logical
    <3>1. logical' = logical
      BY <1>1, <1>2, <2>2 DEF Growing
    <3> QED BY <1>4, <1>7, <3>1
  <2>3. CASE DOMAIN logical' # DOMAIN logical
    <3> DEFINE e0 == EventOf[i]
    <3>1. DOMAIN logical' \ DOMAIN logical = {e0} /\ logical'[e0] = i
      BY <1>1, <2>1, <2>3 DEF Growing
    <3>2. DOMAIN logical' = DOMAIN logical \cup {e0} /\ {e0} \ DOMAIN logical = {e0}
      BY <1>1, <3>1 DEF Growing
    <3>3. logical' = [e \in DOMAIN logical \cup {e0} |->
                         IF e \in {e0} THEN [x \in {e0} |-> i][e] ELSE logical[e]]
      BY <1>1, <1>2, <3>1, <3>2 DEF Growing
    <3>4. [j \in Postbacks |-> EventOf[j]][i] = e0
      OBVIOUS
    <3> HIDE DEF winner, e0
    <3>5. Ledger!Add({e0}, [x \in {e0} |-> i])
      BY <3>2, <3>3 DEF Ledger!Add
    <3>6. Ledger!Post(i)
      BY <1>1, <1>7, <3>4, <3>5 DEF Ledger!Post, winner
    <3> QED BY <3>6 DEF Ledger!Next
  <2> QED BY <2>2, <2>3
<1>8. published' # published => Ledger!Next
  BY <1>3, <1>5
<1> HIDE DEF winner
<1> QED BY <1>4, <1>6, <1>7, <1>8, LedgerCases

\* Chunked imports that fail, die, are repeated and run side by side, and postbacks
\* whose transaction is rolled back, leave a ledger that whole imports in some order
\* would leave, for any files, chunk size and number of importers (runner.ts,
\* max-worker.ts, ingestion.ts).
THEOREM Refinement == Spec => ImplementsLedger
<1>1. Init => Ledger!Init
  BY DEF Init, Ledger!Init
<1>2. ImportsInv /\ [Next]_vars => [Ledger!Next]_(Ledger!vars)
  BY StepRefines
<1> QED BY <1>1, <1>2, Invariance, PTL DEF Spec, ImplementsLedger, Ledger!Spec
==============================================================================
