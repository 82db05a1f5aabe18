-------------------------- MODULE MCPrivacyDeletion --------------------------
(* Two records in one batch of one device.                                *)
EXTENDS PrivacyDeletion, TLC
CONSTANTS d1, b1, r1, r2
OneDevice == b1 :> d1
OneBatch == (r1 :> b1) @@ (r2 :> b1)
Events == (r1 :> "install") @@ (r2 :> "session")
=============================================================================
