---------------------------- MODULE ImportLedger ----------------------------
(***************************************************************************)
(* What an import promises, with no chunks, transactions, crashes or       *)
(* retries: an event enters the ledger once, with the record that one      *)
(* uninterrupted import of its file would choose, and a file is published  *)
(* once, when all of its events are in the ledger.  A postback brings one  *)
(* event.                                                                  *)
(***************************************************************************)
CONSTANTS
    Files, Postbacks,
    PostbackEvent   \* the event of a postback

VARIABLES
    logical,        \* the events of the ledger, each with its record
    published,      \* the files that were imported
    winner          \* winner[f]: the record a file chooses for each of its events

vars == <<logical, published, winner>>

Init ==
    /\ logical = [e \in {} |-> e]
    /\ published = {}

\* Events that the ledger does not have yet enter it; no event is replaced.
Add(events, choice) ==
    LET new == events \ DOMAIN logical IN
    logical' = [e \in DOMAIN logical \cup new |->
                    IF e \in new THEN choice[e] ELSE logical[e]]

Ingest(f) ==
    /\ \E events \in SUBSET DOMAIN winner[f] : Add(events, winner[f])
    /\ UNCHANGED <<published, winner>>

Post(i) ==
    /\ Add({PostbackEvent[i]}, [e \in {PostbackEvent[i]} |-> i])
    /\ UNCHANGED <<published, winner>>

Publish(f) ==
    /\ f \notin published
    /\ DOMAIN winner[f] \subseteq DOMAIN logical
    /\ published' = published \cup {f}
    /\ UNCHANGED <<logical, winner>>

Next ==
    \/ \E f \in Files : Ingest(f) \/ Publish(f)
    \/ \E i \in Postbacks : Post(i)

Spec == Init /\ [][Next]_vars
=============================================================================
