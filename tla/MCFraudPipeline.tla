-------------------------- MODULE MCFraudPipeline --------------------------
(* Instances of FraudPipeline for TLC: records, bundles and their rules.   *)
EXTENDS FraudPipeline

MCClick(click, source, signal, time) ==
    [kind |-> "click", click |-> click, source |-> source, signal |-> signal, time |-> time]
MCInstall(click, time, referrer) ==
    [kind |-> "install", click |-> click, time |-> time, referrer |-> referrer]

\* A replayed click and installs of it: one whose referrer is too late, one that began
\* before the click, and one that no rule about records hits.
MCBodies ==
    {MCClick("c1", "a", "replay", 1), MCInstall("c1", 1, 3), MCInstall("c1", 0, NoTime),
     MCInstall("c1", 2, NoTime)}

\* replay, install, source: actions of the rules; negative: the rate of negative times, in
\* percent, above which a day is an anomaly (any number is accepted).
MCPolicy(replay, install, source, negative) ==
    [action |-> [rule \in {"referrer-server-order-v1", "ctit-lower-bound-v1",
                           "referrer-redirector-divergence-v1"} |-> install]
                @@ "transport-replay-v1" :> replay
                @@ "source-day-click-flooding-v1" :> source,
     integrityOnly |-> FALSE, lower |-> 1, divergence |-> 2, hours |-> 1,
     minClicks |-> 1, cvr |-> 200, p50Min |-> 1, ratio |-> 300, negative |-> negative]

\* An app that is registered has a bundle that quarantines installs; administrators post
\* one that acts on clicks and sources, and one with an action the contract lacks.
MCPosted ==
    {MCPolicy("exclude", "flag", "quarantine", -1), MCPolicy("block", "flag", "flag", 40)}
MCRegistered ==
    [bundle |-> "fraud-default", policy |-> MCPolicy("flag", "quarantine", "flag", 40),
     sup |-> NoRevision, at |-> 0]
=============================================================================
