---------------------------- MODULE MCAndroidSdk ----------------------------
(* AndroidSdk for TLC. *)
EXTENDS AndroidSdk

MCSwitchCalls == {"consent", "collection"}
MCResetCalls == {"measure", "revenue", "reset"}
MCMeasureCalls == {"measure"}
MCReferrerAgain == {"retry"}
MCDeferred == {"deferred"}
=============================================================================
