---------------------------- MODULE RequestNonce ----------------------------
(***************************************************************************)
(* The replay protection of signed SDK requests: verifySdkRequest of       *)
(* apps/api/src/sdk-auth.ts and the table ephemeral.request_nonces.        *)
(*                                                                         *)
(* A request is signed once, over a timestamp and a nonce, and the network *)
(* may deliver it any number of times.  A handler samples nowMs, compares  *)
(* the timestamp with it, and later runs one transaction that sweeps the   *)
(* expired nonces by the DATABASE's clock and inserts its own with an      *)
(* expiry computed from the nowMs it sampled before.  Between the sample   *)
(* and the transaction the handler waits for a pool connection; Latency    *)
(* bounds that wait.  The transaction commits before verifySdkRequest      *)
(* returns, and the handler may die, or lose the answer to its COMMIT, in  *)
(* between: the nonce is then spent by a request nobody verified.  API and *)
(* database clocks agree and never run back.                               *)
(***************************************************************************)
EXTENDS Integers

CONSTANTS
    Requests,   \* signed requests: a principal, a nonce, a timestamp and a body
    Handlers,   \* concurrent executions of verifySdkRequest
    Skew,       \* timestampSkewMs
    Ttl,        \* nonceTtlMs
    Latency,    \* bound: from sampling nowMs to the nonce transaction
    MaxTime,    \* bound: the clock
    NoRequest

ASSUME ConfigAssumption ==
    /\ Skew \in Nat /\ Ttl \in Nat \ {0} /\ Latency \in Nat /\ MaxTime \in Nat
    /\ NoRequest \notin Requests

VARIABLES
    now,        \* the clock
    stamp,      \* x-openmasu-timestamp-ms of each request, by the device's clock
    handler,    \* each handler: the request it checked, the nowMs it used, its nonce
    nonces,     \* request_nonces rows: [req, expires]
    accepted    \* how often verifySdkRequest returned ok for each request

nonceVars == <<now, stamp, handler, nonces, accepted>>

Idle == [req |-> NoRequest, at |-> 0, claimed |-> FALSE]

\* Handlers on the way to the nonce transaction, and those whose row is committed.
Checking(h) == handler[h] # Idle /\ ~handler[h].claimed
Claimed(h) == handler[h].claimed

\* The device's clock may be wrong by any amount.
NonceInit ==
    /\ now = 0
    /\ stamp \in [Requests -> 0 .. MaxTime]
    /\ handler = [h \in Handlers |-> Idle]
    /\ nonces = {}
    /\ accepted = [r \in Requests |-> 0]

\* Key and signature are right; the timestamp is within the window of nowMs.
\* A refusal (timestamp_out_of_window) changes nothing.
CheckTimestamp(h, r) ==
    /\ handler[h] = Idle
    /\ now - stamp[r] <= Skew
    /\ stamp[r] - now <= Skew
    /\ handler' = [handler EXCEPT ![h] = [req |-> r, at |-> now, claimed |-> FALSE]]
    /\ UNCHANGED <<now, stamp, nonces, accepted>>

Live == {n \in nonces : n.expires > now}

\* Mutant of NonceExpiry: the row lives for one half of the timestamp window.
NonceExpiryOfSkew(h) == handler[h].at + Skew

\* expires_at: the nowMs of the timestamp check plus nonceTtlMs.
NonceExpiry(h) == handler[h].at + Ttl

\* One transaction: DELETE the expired rows, INSERT ... ON CONFLICT DO NOTHING.
\* Without a row inserted the request is refused (nonce_reused).
ClaimNonce(h) ==
    /\ Checking(h)
    /\ LET r == handler[h].req
           fresh == \A n \in Live : n.req # r
           claim == [req |-> r, at |-> handler[h].at, claimed |-> TRUE]
       IN /\ nonces' = IF fresh
                       THEN Live \cup {[req |-> r, expires |-> NonceExpiry(h)]}
                       ELSE Live
          /\ handler' = [handler EXCEPT ![h] = IF fresh THEN claim ELSE Idle]
    /\ UNCHANGED <<now, stamp, accepted>>

\* The COMMIT was answered and verifySdkRequest returns ok.
Return(h) ==
    /\ Claimed(h)
    /\ accepted' = [accepted EXCEPT ![handler[h].req] = @ + 1]
    /\ handler' = [handler EXCEPT ![h] = Idle]
    /\ UNCHANGED <<now, stamp, nonces>>

\* The transaction failed, its COMMIT was not answered, or the API died: the
\* request is not verified, and its row is there if the COMMIT took effect.
HandlerFails(h) ==
    /\ handler[h] # Idle
    /\ handler' = [handler EXCEPT ![h] = Idle]
    /\ UNCHANGED <<now, stamp, nonces, accepted>>

Tick ==
    /\ now < MaxTime
    /\ \A h \in Handlers : Checking(h) => now < handler[h].at + Latency
    /\ now' = now + 1
    /\ UNCHANGED <<stamp, handler, nonces, accepted>>

NonceNext ==
    \/ Tick
    \/ \E h \in Handlers :
        \/ ClaimNonce(h) \/ Return(h) \/ HandlerFails(h)
        \/ \E r \in Requests : CheckTimestamp(h, r)

NonceSpec == NonceInit /\ [][NonceNext]_nonceVars

-----------------------------------------------------------------------------
NonceTypeOK ==
    /\ now \in 0 .. MaxTime
    /\ stamp \in [Requests -> 0 .. MaxTime]
    /\ handler \in [Handlers -> [req : Requests \cup {NoRequest}, at : 0 .. MaxTime,
                             claimed : BOOLEAN]]
    /\ nonces \subseteq [req : Requests, expires : Nat]
    /\ accepted \in [Requests -> Nat]

\* A signed request is verified successfully at most once, however often it is
\* delivered, before and after its nonce row is swept (A-06: the two controls
\* together).  It takes Ttl > 2 * Skew + Latency, which nothing in the code checks.
AcceptedAtMostOnce == \A r \in Requests : accepted[r] <= 1

\* The configurations under which the two controls leave no gap.
WindowsOverlap == Ttl > 2 * Skew + Latency

\* The inductive strengthening of AcceptedAtMostOnce: while a claimed request
\* could still pass the timestamp check of a handler, its nonce row is there.
HandlersInWindow ==
    \A h \in Handlers :
        /\ Checking(h) =>
            /\ handler[h].req \in Requests
            /\ handler[h].at <= stamp[handler[h].req] + Skew
            /\ stamp[handler[h].req] <= handler[h].at + Skew
            /\ now <= handler[h].at + Latency
        /\ Claimed(h) => handler[h].req \in Requests
NoncesOutliveWindow ==
    \A n \in nonces : n.expires + Skew >= stamp[n.req] + Ttl
\* A request is spent once a handler has claimed its nonce or verified it.
Spent(r) == accepted[r] # 0 \/ (\E h \in Handlers : Claimed(h) /\ handler[h].req = r)
SpentIsRemembered ==
    \A r \in Requests : Spent(r) =>
        (\E n \in nonces : n.req = r) \/ now > stamp[r] + Skew + Latency
OneClaim ==
    \A h \in Handlers : Claimed(h) =>
        /\ accepted[handler[h].req] = 0
        /\ \A g \in Handlers : Claimed(g) /\ handler[g].req = handler[h].req => g = h
ReplayInv ==
    /\ NonceTypeOK /\ HandlersInWindow /\ NoncesOutliveWindow
    /\ SpentIsRemembered /\ OneClaim /\ AcceptedAtMostOnce
=============================================================================
