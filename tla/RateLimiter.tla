------------------------------ MODULE RateLimiter ------------------------------
(***************************************************************************)
(* One limiter of rate_limit.py and the gate in http_api.py that asks it.  *)
(*                                                                         *)
(* A check reads the clock, waits for the limiter's lock, and then works   *)
(* with the time it has read: by then another request may have moved the   *)
(* bucket's `updated` past it.  Buckets are in memory only.                *)
(*                                                                         *)
(* Amounts are whole numbers: a request costs Refill units and a second    *)
(* adds Capacity, so that a bucket fills up in Refill seconds.             *)
(***************************************************************************)
EXTENDS Integers

CONSTANTS
  Peers,       \* addresses: of TCP peers, and those that occur in headers
  Local,       \* the loopback addresses among them
  NoHeader,    \* a request without a forwarding header
  TrustProxy,  \* config.trust_proxy_headers
  Capacity,    \* config.rate_search_per_min, config.rate_register_per_hour
  Refill,      \* 60 and 3600 seconds
  Threads,     \* handler threads
  MaxClock     \* bound: the last clock value explored

ASSUME LimiterConstants ==
  /\ Local \subseteq Peers
  /\ NoHeader \notin Peers
  /\ TrustProxy \in BOOLEAN
  /\ Capacity \in Nat
  /\ Refill \in Nat \ {0}
  /\ MaxClock \in Nat

VARIABLES
  buckets,  \* address -> its bucket, where there is one
  known,    \* the addresses that have a bucket
  clock,    \* the injected clock, in seconds
  req,      \* thread -> the request it is serving
  seen      \* history: what somebody who watches one address has counted

vars == <<buckets, known, clock, req, seen>>

Full == Capacity * Refill

Idle == [pc |-> "idle", peer |-> NoHeader, key |-> NoHeader, now |-> 0]

\* The observer of an address counts the requests let through, from its bucket (spent)
\* and over its connections (served), and the seconds that requests for its bucket
\* waited for the lock, and remembers when it was told to come back (promised).
Fresh(who, mark) ==
  [who |-> who, mark |-> mark, spent |-> 0, served |-> 0, waited |-> 0, promised |-> 0]

Init ==
  /\ buckets = [k \in Peers |-> [tokens |-> Full, updated |-> 0]]
  /\ known = {}
  /\ clock = 1
  /\ req = [t \in Threads |-> Idle]
  /\ \E who \in Peers : seen = Fresh(who, 1)

-----------------------------------------------------------------------------
\* Faulty variant: forwarding headers are believed whoever sends them.
ClientIpOfAnyone(peer, header) ==
  IF TrustProxy /\ header # NoHeader THEN header ELSE peer

\* _client_ip: a forwarding header counts if a proxy on this host sends it.
ClientIp(peer, header) ==
  IF TrustProxy /\ peer \in Local /\ header # NoHeader THEN header ELSE peer

\* A rate-limited route is asked for; RateLimiter.check reads the clock.
Arrive(t, peer, header) ==
  /\ req[t] = Idle
  /\ req' = [req EXCEPT ![t] = [pc |-> "check", peer |-> peer,
                                key |-> ClientIp(peer, header), now |-> clock]]
  /\ UNCHANGED <<buckets, known, clock, seen>>

Larger(a, b) == IF a > b THEN a ELSE b
Smaller(a, b) == IF a < b THEN a ELSE b

\* Faulty variant: a late request takes out what came in since its time.
RefilledBackwards(k, now) ==
  IF k \in known
  THEN Smaller(Full, buckets[k].tokens + Capacity * (now - buckets[k].updated))
  ELSE Full

\* What the bucket of k holds at the time now: never less than it held.
Refilled(k, now) ==
  IF k \in known
  THEN Smaller(Full, buckets[k].tokens + Capacity * Larger(0, now - buckets[k].updated))
  ELSE Full

\* Faulty variant: the whole seconds until one token is available, rounded down.
RetryAfterRoundedDown(tokens) ==
  IF Capacity > 0 THEN (Refill - tokens) \div Capacity ELSE 3600

\* The header Retry-After.
RetryAfter(tokens) == IF Capacity > 0 THEN (Refill - tokens) \div Capacity + 1 ELSE 3600

\* Faulty variant: a bucket's time is set when it is made and then left alone.
SetBucketOnce(k, tokens, now) ==
  /\ buckets' = [buckets EXCEPT
        ![k] = [tokens |-> tokens, updated |-> IF k \in known THEN @.updated ELSE now]]
  /\ known' = known \cup {k}

\* The bucket after a check, whose time may be older than that of the one before.
SetBucket(k, tokens, now) ==
  /\ buckets' = [buckets EXCEPT ![k] = [tokens |-> tokens, updated |-> now]]
  /\ known' = known \cup {k}

If(condition) == IF condition THEN 1 ELSE 0

\* The seconds that the request of t kept the observed bucket waiting.
Waited(t) == If(req[t].key = seen.who) * (clock - req[t].now)

\* check, under the lock: allowed, the handler goes on.
Allowed(t) ==
  LET k == req[t].key
      filled == Refilled(k, req[t].now)
  IN /\ req[t].pc = "check"
     /\ filled >= Refill
     /\ SetBucket(k, filled - Refill, req[t].now)
     /\ req' = [req EXCEPT ![t] = Idle]
     /\ seen' = [seen EXCEPT !.spent = @ + If(k = seen.who),
                             !.served = @ + If(req[t].peer = seen.who),
                             !.waited = @ + Waited(t),
                             !.promised = IF k = seen.who THEN 0 ELSE @]
     /\ UNCHANGED clock

\* check, under the lock: denied, RATE_LIMITED with the time to come back.
Denied(t) ==
  LET k == req[t].key
      filled == Refilled(k, req[t].now)
      due == req[t].now + RetryAfter(filled)
  IN /\ req[t].pc = "check"
     /\ filled < Refill
     /\ SetBucket(k, filled, req[t].now)
     /\ req' = [req EXCEPT ![t] = Idle]
     /\ seen' = [seen EXCEPT !.waited = @ + Waited(t),
                             !.promised = IF k # seen.who THEN @
                                          ELSE IF @ = 0 THEN due ELSE Smaller(@, due)]
     /\ UNCHANGED clock

-----------------------------------------------------------------------------
\* A process that starts again has no buckets.
Restart ==
  /\ buckets' = [k \in Peers |-> [tokens |-> Full, updated |-> 0]]
  /\ known' = {}
  /\ req' = [t \in Threads |-> Idle]
  /\ seen' = Fresh(seen.who, clock)
  /\ UNCHANGED clock

\* An observer may start counting at any moment.
Observe(who) ==
  /\ seen' = Fresh(who, clock)
  /\ UNCHANGED <<buckets, known, clock, req>>

Tick ==
  /\ clock < MaxClock
  /\ clock' = clock + 1
  /\ UNCHANGED <<buckets, known, req, seen>>

Next ==
  \/ \E t \in Threads :
       \/ \E peer \in Peers, header \in Peers \cup {NoHeader} : Arrive(t, peer, header)
       \/ Allowed(t)
       \/ Denied(t)
  \/ Restart
  \/ \E who \in Peers : Observe(who)
  \/ Tick

Spec == Init /\ [][Next]_vars

=============================================================================
