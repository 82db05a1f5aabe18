----------------------------- MODULE MCImports -----------------------------
(* A file of four rows in two chunks, one that shares an event with it,    *)
(* one that has another install of the same device, and four postbacks.   *)
EXTENDS Imports
CONSTANTS p1, p2, f1, f2, f3, r1, r2, r3, r4, s1, s2, m1, m2, m3, m4

cell(c) == [cell |-> c, other |-> "listed"]
Good == [event_name |-> cell("listed"), event_id |-> cell("unlisted"),
         occurred_at |-> cell("unlisted"), payload |-> cell("absent")]
MCMapping == [event_name |-> {"map"}, event_id |-> {}, occurred_at |-> {"typed"},
              payload |-> {"fallback", "default"}]
Unlisted == [Good EXCEPT !.event_name = cell("unlisted")]
MCRowsOf == (f1 :> <<r1, r2, r4, r3>>) @@ (f2 :> <<s1>>) @@ (f3 :> <<s2>>)
MCCells == (r1 :> Good) @@ (r2 :> Unlisted) @@ (r3 :> Good) @@ (r4 :> Good) @@ (s1 :> Good) @@ (s2 :> Good)
MCMatching == {r1, r2, r3, r4, s1, s2}
MCEventOf == [r \in {r1, r3, r4, s1} |-> "e"] @@ (r2 :> "g") @@ (s2 :> "h")
             @@ [m \in {m1, m2, m3} |-> "max"] @@ (m4 :> "other")
MCPayloadOf == (r1 :> "a") @@ (r2 :> "a") @@ (r3 :> "b") @@ (r4 :> "a") @@ (s1 :> "b") @@ (s2 :> "a")
               @@ (m1 :> "a") @@ (m2 :> "a") @@ (m3 :> "b") @@ (m4 :> "a")
MCInstallationOf == [r \in {r1, r3, r4, s1, s2} |-> "device"]
                    @@ [r \in {r2, m1, m2, m3, m4} |-> "none"]
MCQueryOf == (m1 :> "plain") @@ (m2 :> "plain") @@ (m3 :> "plain") @@ (m4 :> "forbidden")
MCTokensOf == (m1 :> {"all"}) @@ (m2 :> {"event"}) @@ (m3 :> {"all"}) @@ (m4 :> {"all"})
=============================================================================
