--------------------------- MODULE MCApplePostback ---------------------------
(* A winning SKAdNetwork postback that Apple signed, an AdAttributionKit       *)
(* postback of a development key, one whose fields contradict each other, and  *)
(* a body that is no postback.                                                 *)
EXTENDS ApplePostback

MCBody(p) ==
    LET skan == [kind |-> "skan", version |-> 4, adam |-> "a1", transaction |-> "t1",
                 key |-> "production", has |-> {"source", "first", "won", "coarse"}]
    IN  CASE p = "signed" -> skan
          [] p = "developed" -> [skan EXCEPT !.kind = "aak", !.key = "development", !.transaction = "t2"]
          [] p = "ambiguous" -> [skan EXCEPT !.has = @ \cup {"fine"}]
          [] OTHER -> [skan EXCEPT !.version = 2]
MCPostbacks == {"signed", "developed", "ambiguous", "garbage"}
MCBodies == [p \in MCPostbacks |-> MCBody(p)]
ScopeSymmetry == Permutations(Scopes)
=============================================================================
