------------------------- MODULE MCAdServicesLookup -------------------------
(* AdServicesLookup for TLC: the clock runs past the expiry of every token *)
(* that may be queued.                                                     *)
EXTENDS AdServicesLookup
ASSUME ClockAssumption == MaxTime >= MaxQueueTime + Expiry

MCTwoLookups == {1, 2}
=============================================================================
