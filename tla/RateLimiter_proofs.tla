--------------------------- MODULE RateLimiter_proofs ---------------------------
(***************************************************************************)
(* Proofs about RateLimiter, for any capacity, refill time, addresses and  *)
(* threads.                                                                *)
(***************************************************************************)
EXTENDS RateLimiterProps, TLAPS

LEMMA FullIsNat == Full \in Nat
  BY LimiterConstants DEF LimiterConstants, Full

\* What a bucket holds never exceeds it and is never less than it was.
LEMMA RefilledBounds ==
  ASSUME TypeOK, NEW k \in Peers, NEW now \in Nat
  PROVE  /\ Refilled(k, now) \in 0 .. Full
         /\ k \in known => Refilled(k, now) >= buckets[k].tokens
<1> DEFINE old == buckets[k]
<1>1. old \in Bucket
  BY DEF TypeOK
<1>2. old.tokens \in 0 .. Full /\ old.updated \in Nat
  BY <1>1 DEF Bucket
<1>3. Larger(0, now - old.updated) \in Nat
  BY <1>2 DEF Larger
<1>4. Capacity * Larger(0, now - old.updated) \in Nat
  BY <1>3, LimiterConstants DEF LimiterConstants
<1>5. QED
  BY <1>2, <1>4, FullIsNat DEF Refilled, Smaller

\* A number of seconds to wait is positive, and long enough for the token.
LEMMA RetryBounds ==
  ASSUME NEW tokens \in Nat, tokens < Refill
  PROVE  /\ RetryAfter(tokens) \in Nat \ {0}
         /\ Capacity > 0 => tokens + Capacity * RetryAfter(tokens) >= Refill
<1>1. Capacity \in Nat /\ Refill \in Nat
  BY LimiterConstants DEF LimiterConstants
<1>2. CASE Capacity = 0
  BY <1>2 DEF RetryAfter
<1>3. CASE Capacity > 0
  <2> DEFINE missing == Refill - tokens
             q == missing \div Capacity
  <2>1. missing \in Nat
    BY <1>1
  <2>2. q \in Nat /\ missing < Capacity * (q + 1)
    BY <1>1, <1>3, <2>1
  <2>3. RetryAfter(tokens) = q + 1
    BY <1>3 DEF RetryAfter
  <2>4. QED
    BY <1>1, <2>1, <2>2, <2>3
<1>4. QED
  BY <1>1, <1>2, <1>3

-----------------------------------------------------------------------------
(* Types.                                                                  *)

\* Whichever way a check goes, the bucket it sets is a bucket.
LEMMA SetBucketType ==
  ASSUME TypeOK, NEW k \in Peers, NEW tokens \in 0 .. Full,
         NEW now \in Nat, now <= clock, SetBucket(k, tokens, now)
  PROVE  /\ buckets' \in [Peers -> Bucket]
         /\ known' \subseteq Peers
         /\ \A j \in Peers : buckets'[j].updated <= clock
  BY FullIsNat DEF TypeOK, SetBucket, Bucket

\* A request that is being checked is of a peer, and for a bucket.
LEMMA RequestType ==
  ASSUME TypeOK, NEW t \in Threads, req[t].pc = "check"
  PROVE  /\ req[t].peer \in Peers /\ req[t].key \in Peers
         /\ req[t].now \in Nat /\ clock - req[t].now \in Nat
         /\ Waited(t) \in Nat
<1>1. /\ req[t].peer \in Peers /\ req[t].key \in Peers
      /\ req[t].now \in Nat /\ clock - req[t].now \in Nat
  BY DEF TypeOK, RequestRec
<1>2. QED
  BY <1>1 DEF Waited, If

\* What the observer has after a request that was let through.
LEMMA SeenAfterAllowed ==
  ASSUME TypeOK, NEW t \in Threads, Allowed(t)
  PROVE  seen' = [who |-> seen.who, mark |-> seen.mark,
                  spent |-> seen.spent + If(req[t].key = seen.who),
                  served |-> seen.served + If(req[t].peer = seen.who),
                  waited |-> seen.waited + Waited(t),
                  promised |-> IF req[t].key = seen.who THEN 0 ELSE seen.promised]
  BY Zenon DEF Allowed, TypeOK, SeenRec

\* ... and after one that was not.
LEMMA SeenAfterDenied ==
  ASSUME TypeOK, NEW t \in Threads, Denied(t)
  PROVE  seen' = [who |-> seen.who, mark |-> seen.mark,
                  spent |-> seen.spent, served |-> seen.served,
                  waited |-> seen.waited + Waited(t),
                  promised |->
                    LET due == req[t].now + RetryAfter(Refilled(req[t].key, req[t].now))
                    IN  IF req[t].key # seen.who THEN seen.promised
                        ELSE IF seen.promised = 0 THEN due ELSE Smaller(seen.promised, due)]
  BY Zenon DEF Denied, TypeOK, SeenRec

LEMMA TypeInit == Init => TypeOK
<1> SUFFICES ASSUME Init
             PROVE  TypeOK
  OBVIOUS
<1>1. buckets \in [Peers -> Bucket]
  BY FullIsNat DEF Init, Bucket
<1>2. QED
  BY <1>1 DEF Init, TypeOK, RequestRec, Idle, SeenRec, Fresh

\* No step breaks the types.
LEMMA TypeStep == TypeOK /\ [Next]_vars => TypeOK'
<1> SUFFICES ASSUME TypeOK, [Next]_vars
             PROVE  TypeOK'
  OBVIOUS
<1>1. ASSUME NEW t \in Threads, NEW peer \in Peers, NEW header \in Peers \cup {NoHeader},
             Arrive(t, peer, header)
      PROVE  TypeOK'
  <2>1. ClientIp(peer, header) \in Peers
    BY DEF ClientIp
  <2>2. QED
    BY <1>1, <2>1 DEF Arrive, TypeOK, RequestRec
<1>2. ASSUME NEW t \in Threads, Allowed(t)
      PROVE  TypeOK'
  <2> DEFINE k == req[t].key
             filled == Refilled(k, req[t].now)
  <2>1. k \in Peers /\ req[t].peer \in Peers /\ req[t].now \in Nat /\ Waited(t) \in Nat
    BY <1>2, RequestType DEF Allowed
  <2>2. filled - Refill \in 0 .. Full
    BY <1>2, <2>1, RefilledBounds, FullIsNat, LimiterConstants DEF Allowed, LimiterConstants
  <2>3. req[t].now <= clock
    BY DEF TypeOK
  <2>4. /\ buckets' \in [Peers -> Bucket]
        /\ known' \subseteq Peers
        /\ \A j \in Peers : buckets'[j].updated <= clock
    BY <1>2, <2>1, <2>2, <2>3, SetBucketType DEF Allowed
  <2>5. seen' \in SeenRec /\ seen'.mark = seen.mark
    <3>1. seen \in SeenRec
      BY DEF TypeOK
    <3>2. If(req[t].key = seen.who) \in Nat /\ If(req[t].peer = seen.who) \in Nat
      BY DEF If
    <3>3. QED
      BY <1>2, <2>1, <3>1, <3>2, SeenAfterAllowed DEF SeenRec
  <2>6. QED
    BY <1>2, <2>4, <2>5 DEF Allowed, TypeOK, RequestRec, Idle
<1>3. ASSUME NEW t \in Threads, Denied(t)
      PROVE  TypeOK'
  <2> DEFINE k == req[t].key
             filled == Refilled(k, req[t].now)
             due == req[t].now + RetryAfter(filled)
  <2>1. k \in Peers /\ req[t].peer \in Peers /\ req[t].now \in Nat /\ Waited(t) \in Nat
    BY <1>3, RequestType DEF Denied
  <2>2. filled \in 0 .. Full /\ filled \in Nat /\ filled < Refill
    BY <1>3, <2>1, RefilledBounds, FullIsNat DEF Denied
  <2>3. req[t].now <= clock
    BY DEF TypeOK
  <2>4. /\ buckets' \in [Peers -> Bucket]
        /\ known' \subseteq Peers
        /\ \A j \in Peers : buckets'[j].updated <= clock
    BY <1>3, <2>1, <2>2, <2>3, SetBucketType DEF Denied
  <2>5. due \in Nat
    BY <2>1, <2>2, RetryBounds
  <2>6. seen' \in SeenRec /\ seen'.mark = seen.mark
    <3>1. seen \in SeenRec
      BY DEF TypeOK
    <3>2. Smaller(seen.promised, due) \in Nat
      BY <2>5, <3>1 DEF SeenRec, Smaller
    <3>3. QED
      BY <1>3, <2>1, <2>5, <3>1, <3>2, SeenAfterDenied DEF SeenRec
  <2>7. QED
    BY <1>3, <2>4, <2>6 DEF Denied, TypeOK, RequestRec, Idle
<1>4. CASE Restart
  <2>1. buckets' \in [Peers -> Bucket] /\ \A k \in Peers : buckets'[k].updated = 0
    BY <1>4, FullIsNat DEF Restart, Bucket
  <2>2. QED
    BY <1>4, <2>1 DEF Restart, TypeOK, RequestRec, Idle, SeenRec, Fresh
<1>5. ASSUME NEW who \in Peers, Observe(who)
      PROVE  TypeOK'
  BY <1>5 DEF Observe, TypeOK, SeenRec, Fresh
<1>6. CASE Tick
  BY <1>6 DEF Tick, TypeOK, Bucket, RequestRec, SeenRec
<1>7. CASE UNCHANGED vars
  BY <1>7 DEF vars, TypeOK
<1>8. QED
  BY <1>1, <1>2, <1>3, <1>4, <1>5, <1>6, <1>7 DEF Next

\* Every reachable state is well-typed: a bucket never overflows and never owes.
THEOREM TypeCorrect == Spec => []TypeOK
  BY TypeInit, TypeStep, PTL DEF Spec

-----------------------------------------------------------------------------
(* The bound on what is let through.                                       *)

\* What the observed bucket holds once it is refilled up to the present.
Available ==
  IF seen.who \in known
  THEN Smaller(Full, buckets[seen.who].tokens
                       + Capacity * (clock - buckets[seen.who].updated))
  ELSE Full

\* Refilled with an older time a bucket holds no more than that.
LEMMA RefilledAtMostAvailable ==
  ASSUME TypeOK, NEW now \in Nat, now <= clock
  PROVE  Refilled(seen.who, now) <= Available
<1> DEFINE old == buckets[seen.who]
<1>1. seen.who \in Peers /\ clock \in Nat
  BY DEF TypeOK, SeenRec
<1>2. old.tokens \in 0 .. Full /\ old.updated \in Nat /\ old.updated <= clock
  BY <1>1 DEF TypeOK, Bucket
<1> DEFINE d == Larger(0, now - old.updated)
           e == clock - old.updated
<1>3. d \in Nat /\ e \in Nat /\ d <= e
  BY <1>1, <1>2 DEF Larger
<1>4. Capacity * d <= Capacity * e /\ Capacity * d \in Nat /\ Capacity * e \in Nat
  BY <1>3, LimiterConstants DEF LimiterConstants
<1>5. QED
  BY <1>2, <1>4, FullIsNat DEF Refilled, Available, Smaller

\* A bucket set with an older time holds at most what it was set to and what the
\* seconds since that time add.
LEMMA AvailableAfterSet ==
  ASSUME TypeOK, NEW t \in Threads, req[t].pc = "check", NEW tokens \in 0 .. Full,
         SetBucket(req[t].key, tokens, req[t].now),
         seen'.who = seen.who, clock' = clock, req[t].key = seen.who
  PROVE  Available' <= tokens + Capacity * Waited(t)
<1>1. seen.who \in Peers /\ clock \in Nat /\ req[t].now \in Nat
      /\ clock - req[t].now \in Nat
  BY RequestType DEF TypeOK, SeenRec
<1>2. Waited(t) = clock - req[t].now
  BY <1>1 DEF Waited, If
<1>3. buckets'[seen.who] = [tokens |-> tokens, updated |-> req[t].now]
      /\ seen.who \in known'
  BY <1>1 DEF SetBucket, TypeOK
<1>4. Capacity * (clock - req[t].now) \in Nat
  BY <1>1, LimiterConstants DEF LimiterConstants
<1>5. QED
  BY <1>1, <1>2, <1>3, <1>4, FullIsNat DEF Available, Smaller

\* A bucket that another address's request sets is not the observed one.
LEMMA AvailableElsewhere ==
  ASSUME TypeOK, NEW k \in Peers, NEW tokens, NEW now, SetBucket(k, tokens, now),
         seen'.who = seen.who, clock' = clock, k # seen.who
  PROVE  Available' = Available
<1>1. seen.who \in Peers
  BY DEF TypeOK, SeenRec
<1>2. buckets'[seen.who] = buckets[seen.who] /\ (seen.who \in known' <=> seen.who \in known)
  BY <1>1 DEF SetBucket, TypeOK
<1>3. Full' = Full
  BY DEF Full
<1>4. QED
  BY <1>2, <1>3 DEF Available

LEMMA AvailableType == TypeOK => Available \in 0 .. Full
<1> SUFFICES ASSUME TypeOK
             PROVE  Available \in 0 .. Full
  OBVIOUS
<1>1. seen.who \in Peers /\ clock \in Nat
  BY DEF TypeOK, SeenRec
<1>2. buckets[seen.who].tokens \in 0 .. Full /\ clock - buckets[seen.who].updated \in Nat
  BY <1>1 DEF TypeOK, Bucket
<1>3. Capacity * (clock - buckets[seen.who].updated) \in Nat
  BY <1>2, LimiterConstants DEF LimiterConstants
<1>4. QED
  BY <1>2, <1>3, FullIsNat DEF Available, Smaller

LEMMA AvailableTypePrimed == TypeOK' => (Available' \in 0 .. Full /\ Available' \in Int)
<1>1. TypeOK' => (Available \in 0 .. Full)'
  BY AvailableType, PTL
<1>2. Full' = Full
  BY DEF Full
<1>3. QED
  BY <1>1, <1>2, FullIsNat

\* The books balance: what was let through and what is still there are covered by a
\* full bucket, the seconds since the mark and the seconds waited.
Balanced == Refill * seen.spent + Available <= Allowance

LEMMA BalancedInit == Init => Balanced
<1> SUFFICES ASSUME Init
             PROVE  Balanced
  OBVIOUS
<1>1. seen.spent = 0 /\ seen.waited = 0 /\ seen.mark = 1 /\ known = {} /\ clock = 1
  BY DEF Init, Fresh
<1>2. Refill * 0 = 0 /\ Capacity * ((1 - 1) + 0) = 0
  BY LimiterConstants DEF LimiterConstants
<1>3. QED
  BY <1>1, <1>2, FullIsNat DEF Balanced, Available, Allowance

\* Starting to count balances the books anew.
LEMMA BalancedAnew ==
  ASSUME TypeOK', NEW who \in Peers, seen' = Fresh(who, clock), clock' = clock, TypeOK
  PROVE  Balanced'
<1>1. seen'.spent = 0 /\ seen'.waited = 0 /\ seen'.mark = clock /\ clock' = clock
  BY DEF Fresh
<1>2. clock \in Nat
  BY DEF TypeOK
<1>3. Refill * 0 = 0 /\ Capacity * ((clock - clock) + 0) = 0
  BY <1>2, LimiterConstants DEF LimiterConstants
<1>4. Available' \in 0 .. Full
  BY AvailableTypePrimed
<1>5. Full' = Full
  BY DEF Full
<1>6. QED
  BY <1>1, <1>3, <1>4, <1>5, FullIsNat DEF Balanced, Allowance

\* Every step keeps the books balanced.
LEMMA BalancedStep == TypeOK /\ TypeOK' /\ Balanced /\ [Next]_vars => Balanced'
<1> SUFFICES ASSUME TypeOK, TypeOK', Balanced, [Next]_vars
             PROVE  Balanced'
  OBVIOUS
<1> DEFINE C(n) == Capacity * n
<1>0. /\ Capacity \in Nat /\ Refill \in Nat /\ Full \in Nat /\ Full' = Full
      /\ seen \in SeenRec /\ clock \in Nat /\ seen.mark <= clock
      /\ seen.spent \in Nat /\ seen.waited \in Nat /\ seen.mark \in Nat /\ seen.who \in Peers
  BY LimiterConstants, FullIsNat DEF LimiterConstants, TypeOK, SeenRec, Full
<1>1. Available \in 0 .. Full
  BY AvailableType
<1> DEFINE span == (clock - seen.mark) + seen.waited
<1>2. span \in Nat
  BY <1>0
<1>3. ASSUME NEW t \in Threads, NEW peer \in Peers, NEW header \in Peers \cup {NoHeader},
             Arrive(t, peer, header)
      PROVE  Balanced'
  BY <1>3 DEF Arrive, Balanced, Available, Allowance, Full
<1>4. ASSUME NEW t \in Threads, Allowed(t)
      PROVE  Balanced'
  <2> DEFINE k == req[t].key
             filled == Refilled(k, req[t].now)
  <2>1. k \in Peers /\ req[t].now \in Nat /\ Waited(t) \in Nat /\ req[t].now <= clock
    BY <1>4, RequestType DEF Allowed, TypeOK
  <2>2. filled \in 0 .. Full /\ filled - Refill \in 0 .. Full
    BY <1>0, <1>4, <2>1, RefilledBounds DEF Allowed
  <2>3. /\ seen'.who = seen.who /\ seen'.mark = seen.mark /\ clock' = clock
        /\ seen'.spent = seen.spent + If(k = seen.who)
        /\ seen'.waited = seen.waited + Waited(t)
    <3>1. clock' = clock
      BY <1>4 DEF Allowed
    <3>2. /\ seen'.who = seen.who /\ seen'.mark = seen.mark
          /\ seen'.spent = seen.spent + If(k = seen.who)
          /\ seen'.waited = seen.waited + Waited(t)
      BY <1>4, SeenAfterAllowed
    <3> QED
      BY <3>1, <3>2
  <2>4. Allowance' = Full + Capacity * (span + Waited(t))
    BY <1>0, <1>2, <2>1, <2>3 DEF Allowance
  <2>5. Allowance' = Allowance + Capacity * Waited(t) /\ Capacity * Waited(t) \in Nat
    BY <1>0, <1>2, <2>1, <2>4 DEF Allowance
  <2>6. CASE k = seen.who
    <3>1. Refill * (seen.spent + 1) = Refill * seen.spent + Refill
      BY <1>0
    <3>2. seen'.spent = seen.spent + 1
      BY <2>3, <2>6 DEF If
    <3>3. filled <= Available
      BY <2>1, <2>6, RefilledAtMostAvailable
    <3>4. Available' <= (filled - Refill) + Capacity * Waited(t)
      BY <1>4, <2>2, <2>3, <2>6, AvailableAfterSet DEF Allowed
    <3>5. Available' \in Int /\ Refill * seen.spent \in Nat
      BY <1>0, AvailableTypePrimed
    <3>6. QED
      BY <1>0, <1>1, <2>2, <2>5, <3>1, <3>2, <3>3, <3>4, <3>5 DEF Balanced, Allowance
  <2>7. CASE k # seen.who
    <3>1. seen'.spent = seen.spent
      BY <1>0, <2>3, <2>7 DEF If
    <3>2. Available' = Available
      BY <1>4, <2>1, <2>2, <2>3, <2>7, AvailableElsewhere DEF Allowed
    <3>3. Allowance \in Int /\ Refill * seen.spent \in Nat
      BY <1>0, <1>2 DEF Allowance
    <3>4. QED
      BY <1>0, <1>1, <2>5, <3>1, <3>2, <3>3 DEF Balanced
  <2>8. QED
    BY <2>6, <2>7
<1>5. ASSUME NEW t \in Threads, Denied(t)
      PROVE  Balanced'
  <2> DEFINE k == req[t].key
             filled == Refilled(k, req[t].now)
  <2>1. k \in Peers /\ req[t].now \in Nat /\ Waited(t) \in Nat /\ req[t].now <= clock
    BY <1>5, RequestType DEF Denied, TypeOK
  <2>2. filled \in 0 .. Full
    BY <1>0, <1>5, <2>1, RefilledBounds DEF Denied
  <2>3. /\ seen'.who = seen.who /\ seen'.mark = seen.mark /\ clock' = clock
        /\ seen'.spent = seen.spent
        /\ seen'.waited = seen.waited + Waited(t)
    BY <1>5, SeenAfterDenied DEF Denied
  <2>4. Allowance' = Full + Capacity * (span + Waited(t))
    BY <1>0, <1>2, <2>1, <2>3 DEF Allowance
  <2>5. Allowance' = Allowance + Capacity * Waited(t) /\ Capacity * Waited(t) \in Nat
    BY <1>0, <1>2, <2>1, <2>4 DEF Allowance
  <2>6. Available' <= Available + Capacity * Waited(t)
    <3>1. CASE k = seen.who
      <4>1. filled <= Available
        BY <2>1, <3>1, RefilledAtMostAvailable
      <4>2. Available' <= filled + Capacity * Waited(t)
        BY <1>5, <2>2, <2>3, <3>1, AvailableAfterSet DEF Denied
      <4>3. Available' \in Int
        BY <1>0, AvailableTypePrimed
      <4>4. QED
        BY <1>1, <2>2, <2>5, <4>1, <4>2, <4>3
    <3>2. CASE k # seen.who
      BY <1>1, <1>5, <2>1, <2>2, <2>3, <2>5, <3>2, AvailableElsewhere DEF Denied
    <3>3. QED
      BY <3>1, <3>2
  <2>7. Available' \in Int /\ Refill * seen.spent \in Nat /\ Allowance \in Int
    BY <1>0, <1>2, AvailableTypePrimed DEF Allowance
  <2>8. QED
    BY <1>0, <1>1, <2>3, <2>5, <2>6, <2>7 DEF Balanced
<1>6. CASE Restart
  BY <1>0, <1>6, BalancedAnew DEF Restart
<1>7. ASSUME NEW who \in Peers, Observe(who)
      PROVE  Balanced'
  BY <1>7, BalancedAnew DEF Observe
<1>8. CASE Tick
  <2>1. clock' = clock + 1 /\ UNCHANGED <<buckets, known, seen>>
    BY <1>8 DEF Tick
  <2>2. Capacity * (span + 1) = Capacity * span + Capacity
    BY <1>0, <1>2
  <2>3. Allowance' = Allowance + Capacity
    BY <1>0, <1>2, <2>1, <2>2 DEF Allowance
  <2>4. Available' <= Available + Capacity
    <3> DEFINE old == buckets[seen.who]
               gone == clock - old.updated
    <3>1. old.tokens \in 0 .. Full /\ gone \in Nat /\ old.updated \in Nat
      BY <1>0 DEF TypeOK, Bucket
    <3>2. Capacity * (gone + 1) = Capacity * gone + Capacity /\ Capacity * gone \in Nat
      BY <1>0, <3>1
    <3>3. (clock + 1) - old.updated = gone + 1
      BY <1>0, <3>1
    <3>4. QED
      BY <1>0, <2>1, <3>1, <3>2, <3>3 DEF Available, Smaller
  <2>5. Available' \in Int /\ Refill * seen.spent \in Nat /\ Allowance \in Int
    BY <1>0, <1>2, AvailableTypePrimed DEF Allowance
  <2>6. QED
    BY <1>0, <1>1, <2>1, <2>3, <2>4, <2>5 DEF Balanced
<1>9. CASE UNCHANGED vars
  BY <1>9 DEF vars, Balanced, Available, Allowance, Full
<1>10. QED
  BY <1>3, <1>4, <1>5, <1>6, <1>7, <1>8, <1>9 DEF Next

\* In any span of time a bucket lets through a full bucket and what the seconds of the
\* span, and those its requests waited for the lock, add to it; no more.
THEOREM AdmissionIsBounded == Spec => []AdmissionBound
<1>1. TypeOK /\ Balanced => AdmissionBound
  <2> SUFFICES ASSUME TypeOK, Balanced
               PROVE  AdmissionBound
    OBVIOUS
  <2>1. Refill * seen.spent \in Int /\ Allowance \in Int
    BY FullIsNat, LimiterConstants DEF LimiterConstants, TypeOK, SeenRec, Allowance
  <2>2. QED
    BY <2>1, AvailableType, FullIsNat DEF Balanced, AdmissionBound
<1>2. QED
  BY <1>1, TypeInit, TypeStep, BalancedInit, BalancedStep, PTL DEF Spec

-----------------------------------------------------------------------------
(* The bound for a host that is not this one.                              *)

\* Such a host spends from its own bucket only.
OwnBucket ==
  /\ \A t \in Threads : req[t].pc = "check" /\ req[t].peer \notin Local
                        => req[t].key = req[t].peer
  /\ seen.who \notin Local => seen.served <= seen.spent

LEMMA OwnBucketStep == TypeOK /\ OwnBucket /\ [Next]_vars => OwnBucket'
<1> SUFFICES ASSUME TypeOK, OwnBucket, [Next]_vars
             PROVE  OwnBucket'
  OBVIOUS
<1>0. seen.spent \in Nat /\ seen.served \in Nat /\ seen.who \in Peers
  BY DEF TypeOK, SeenRec
<1>1. ASSUME NEW t \in Threads, NEW peer \in Peers, NEW header \in Peers \cup {NoHeader},
             Arrive(t, peer, header)
      PROVE  OwnBucket'
  BY <1>1 DEF Arrive, ClientIp, OwnBucket, TypeOK, RequestRec
<1>2. ASSUME NEW t \in Threads, Allowed(t)
      PROVE  OwnBucket'
  <2>1. /\ seen'.who = seen.who
        /\ seen'.spent = seen.spent + If(req[t].key = seen.who)
        /\ seen'.served = seen.served + If(req[t].peer = seen.who)
    BY <1>2, SeenAfterAllowed
  <2>2. req[t].peer \notin Local => req[t].key = req[t].peer
    BY <1>2 DEF Allowed, OwnBucket
  <2>3. seen'.who \notin Local => seen'.served <= seen'.spent
    BY <1>0, <2>1, <2>2 DEF OwnBucket, If
  <2>4. QED
    BY <1>2, <2>3 DEF Allowed, OwnBucket, TypeOK, RequestRec, Idle
<1>3. ASSUME NEW t \in Threads, Denied(t)
      PROVE  OwnBucket'
  <2>1. seen'.who = seen.who /\ seen'.spent = seen.spent /\ seen'.served = seen.served
    BY <1>3, SeenAfterDenied
  <2>2. QED
    BY <1>3, <2>1 DEF Denied, OwnBucket, TypeOK, RequestRec, Idle
<1>4. CASE Restart
  BY <1>4 DEF Restart, OwnBucket, Fresh, Idle
<1>5. ASSUME NEW who \in Peers, Observe(who)
      PROVE  OwnBucket'
  BY <1>5 DEF Observe, OwnBucket, Fresh
<1>6. CASE Tick
  BY <1>6 DEF Tick, OwnBucket
<1>7. CASE UNCHANGED vars
  BY <1>7 DEF vars, OwnBucket
<1>8. QED
  BY <1>1, <1>2, <1>3, <1>4, <1>5, <1>6, <1>7 DEF Next

\* A host elsewhere gets the bound of one bucket, whatever headers it sends.
THEOREM PeerIsBounded == Spec => []PeerBound
<1>1. Init => OwnBucket
  BY DEF Init, OwnBucket, Fresh, Idle
<1>2. TypeOK /\ OwnBucket /\ AdmissionBound => PeerBound
  <2> SUFFICES ASSUME TypeOK, OwnBucket, AdmissionBound, seen.who \notin Local
               PROVE  Refill * seen.served <= Allowance
    BY DEF PeerBound
  <2>1. seen.spent \in Nat /\ seen.served \in Nat /\ seen.served <= seen.spent
    BY DEF TypeOK, SeenRec, OwnBucket
  <2>2. Refill * seen.served <= Refill * seen.spent
    BY <2>1, LimiterConstants DEF LimiterConstants
  <2>3. Refill * seen.spent \in Int /\ Refill * seen.served \in Int /\ Allowance \in Int
    BY <2>1, FullIsNat, LimiterConstants DEF LimiterConstants, TypeOK, SeenRec, Allowance
  <2>4. QED
    BY <2>2, <2>3 DEF AdmissionBound
<1>3. QED
  BY <1>1, <1>2, OwnBucketStep, TypeCorrect, AdmissionIsBounded, PTL DEF Spec

-----------------------------------------------------------------------------
(* The promise of Retry-After.                                             *)

\* What is there, and what flows in until the time promised, is a token.
Promised(due) ==
  /\ seen.who \in known
  /\ buckets[seen.who].updated < due
  /\ buckets[seen.who].tokens + Capacity * (due - buckets[seen.who].updated) >= Refill

Kept == seen.promised # 0 => Promised(seen.promised)

\* A check by the time promised, or later, lets the request in.
LEMMA PromiseHolds ==
  ASSUME TypeOK, Capacity > 0, NEW due \in Nat, Promised(due), NEW now \in Nat, due <= now
  PROVE  Refilled(seen.who, now) >= Refill
<1> DEFINE old == buckets[seen.who]
<1>1. seen.who \in Peers /\ Capacity \in Nat /\ Refill \in Nat
  BY LimiterConstants DEF LimiterConstants, TypeOK, SeenRec
<1>2. old.tokens \in 0 .. Full /\ old.updated \in Nat
  BY <1>1 DEF TypeOK, Bucket
<1>3. Larger(0, now - old.updated) = now - old.updated /\ due - old.updated \in Nat
      /\ now - old.updated \in Nat /\ due - old.updated <= now - old.updated
  BY <1>2 DEF Promised, Larger
<1>4. /\ Capacity * (due - old.updated) <= Capacity * (now - old.updated)
      /\ Capacity * (due - old.updated) \in Nat /\ Capacity * (now - old.updated) \in Nat
  <2>1. \A m, n \in Nat : m <= n => Capacity * m <= Capacity * n /\ Capacity * m \in Nat
    BY <1>1
  <2>2. QED
    BY <1>3, <2>1
<1>5. Full >= Refill
  BY <1>1, Capacity > 0 DEF Full
<1>6. old.tokens + Capacity * (due - old.updated) >= Refill /\ seen.who \in known
  BY DEF Promised
<1>7. Refilled(seen.who, now) = Smaller(Full, old.tokens + Capacity * (now - old.updated))
  BY <1>3, <1>6 DEF Refilled
<1>8. QED
  BY <1>1, <1>2, <1>4, <1>5, <1>6, <1>7, FullIsNat DEF Smaller

\* A check that denies, by an earlier time than the one promised, keeps the promise.
LEMMA PromiseSurvives ==
  ASSUME TypeOK, NEW due \in Nat, Promised(due), NEW t \in Threads, Denied(t),
         req[t].key = seen.who, req[t].now < due
  PROVE  Promised(due)'
<1> DEFINE old == buckets[seen.who]
           now == req[t].now
           filled == Refilled(seen.who, now)
<1>1. seen.who \in Peers /\ Capacity \in Nat /\ Refill \in Nat /\ now \in Nat
  BY LimiterConstants, RequestType DEF LimiterConstants, TypeOK, SeenRec, Denied
<1>2. old.tokens \in 0 .. Full /\ old.updated \in Nat /\ seen.who \in known
  BY <1>1 DEF TypeOK, Bucket, Promised
<1>3. /\ buckets'[seen.who] = [tokens |-> filled, updated |-> now]
      /\ seen.who \in known' /\ seen'.who = seen.who
  <2>1. /\ buckets'[seen.who] = [tokens |-> filled, updated |-> now]
        /\ seen.who \in known'
    BY <1>1 DEF Denied, SetBucket, TypeOK
  <2>2. seen'.who = seen.who
    BY SeenAfterDenied
  <2> QED
    BY <2>1, <2>2
<1>4. filled < Refill /\ filled \in 0 .. Full
  BY <1>1, RefilledBounds DEF Denied
<1>5. filled + Capacity * (due - now) >= Refill
  <2>1. CASE now < old.updated
    <3>1. due - old.updated \in Nat /\ due - now \in Nat /\ due - old.updated <= due - now
      BY <1>1, <1>2, <2>1 DEF Promised
    <3>2. Capacity * (due - old.updated) <= Capacity * (due - now)
          /\ Capacity * (due - old.updated) \in Nat /\ Capacity * (due - now) \in Nat
      BY <1>1, <3>1
    <3>3. filled >= old.tokens
      BY <1>1, <1>2, RefilledBounds
    <3>4. QED
      BY <1>1, <1>2, <1>4, <3>2, <3>3, FullIsNat DEF Promised
  <2>2. CASE now >= old.updated
    <3>1. now - old.updated \in Nat /\ due - now \in Nat
      BY <1>1, <1>2, <2>2
    <3>2. /\ Capacity * ((now - old.updated) + (due - now))
               = Capacity * (now - old.updated) + Capacity * (due - now)
          /\ Capacity * (now - old.updated) \in Nat /\ Capacity * (due - now) \in Nat
      BY <1>1, <3>1
    <3>3. (now - old.updated) + (due - now) = due - old.updated
      BY <1>1, <1>2
    <3>4. Larger(0, now - old.updated) = now - old.updated
      BY <3>1 DEF Larger
    <3>5. filled = Full \/ filled = old.tokens + Capacity * (now - old.updated)
      BY <1>2, <3>4 DEF Refilled, Smaller
    <3>6. old.tokens + Capacity * (due - old.updated) >= Refill
      BY DEF Promised
    <3>7. CASE filled = Full
      <4>1. Full >= Refill \/ Capacity = 0
        BY <1>1 DEF Full
      <4>2. CASE Capacity = 0
        <5>1. Full = 0 /\ Capacity * (due - old.updated) = 0
          BY <1>1, <1>2, <4>2 DEF Full
        <5>2. QED
          BY <1>1, <1>2, <3>6, <5>1, LimiterConstants DEF LimiterConstants
      <4>3. QED
        BY <1>1, <1>4, <3>7, <4>1, <4>2, FullIsNat
    <3>8. CASE filled = old.tokens + Capacity * (now - old.updated)
      BY <1>1, <1>2, <3>2, <3>3, <3>6, <3>8, FullIsNat
    <3>9. QED
      BY <3>5, <3>7, <3>8
  <2>3. QED
    BY <1>1, <1>2, <2>1, <2>2
<1>6. QED
  BY <1>1, <1>3, <1>5 DEF Promised

LEMMA KeptStep ==
  ASSUME Capacity > 0
  PROVE  TypeOK /\ Kept /\ [Next]_vars => Kept'
<1> SUFFICES ASSUME TypeOK, Kept, [Next]_vars
             PROVE  Kept'
  OBVIOUS
<1>0. seen.who \in Peers /\ seen.promised \in Nat
  BY DEF TypeOK, SeenRec
<1>1. ASSUME NEW t \in Threads, NEW peer \in Peers, NEW header \in Peers \cup {NoHeader},
             Arrive(t, peer, header)
      PROVE  Kept'
  BY <1>1 DEF Arrive, Kept, Promised
<1>2. ASSUME NEW t \in Threads, Allowed(t)
      PROVE  Kept'
  <2>1. /\ seen'.who = seen.who
        /\ seen'.promised = IF req[t].key = seen.who THEN 0 ELSE seen.promised
    BY <1>2, SeenAfterAllowed
  <2>2. CASE req[t].key = seen.who
    BY <2>1, <2>2 DEF Kept
  <2>3. CASE req[t].key # seen.who
    <3>1. buckets'[seen.who] = buckets[seen.who] /\ (seen.who \in known => seen.who \in known')
      BY <1>0, <1>2, <2>3 DEF Allowed, SetBucket, TypeOK
    <3>2. QED
      BY <2>1, <2>3, <3>1 DEF Kept, Promised
  <2>4. QED
    BY <2>2, <2>3
<1>3. ASSUME NEW t \in Threads, Denied(t)
      PROVE  Kept'
  <2> DEFINE k == req[t].key
             now == req[t].now
             filled == Refilled(k, now)
             retry == RetryAfter(filled)
             due == now + retry
  <2>1. /\ seen'.who = seen.who
        /\ seen'.promised = IF k # seen.who THEN seen.promised
                            ELSE IF seen.promised = 0 THEN due
                            ELSE Smaller(seen.promised, due)
    BY <1>3, SeenAfterDenied
  <2>2. CASE k # seen.who
    <3>1. k \in Peers
      BY <1>3, RequestType DEF Denied
    <3>2. buckets'[seen.who] = buckets[seen.who] /\ (seen.who \in known => seen.who \in known')
      BY <1>0, <1>3, <2>2, <3>1 DEF Denied, SetBucket, TypeOK
    <3>3. QED
      BY <2>1, <2>2, <3>2 DEF Kept, Promised
  <2>3. CASE k = seen.who
    <3>1. now \in Nat /\ filled \in 0 .. Full /\ filled \in Nat /\ filled < Refill
      BY <1>0, <1>3, <2>3, RequestType, RefilledBounds, FullIsNat DEF Denied
    <3>2. retry \in Nat \ {0} /\ filled + Capacity * retry >= Refill
      BY <3>1, RetryBounds, Capacity > 0
    <3>3. /\ buckets'[seen.who] = [tokens |-> filled, updated |-> now]
          /\ seen.who \in known'
      BY <1>0, <1>3, <2>3 DEF Denied, SetBucket, TypeOK
    <3>4. due - now = retry /\ now < due /\ due \in Nat
      BY <3>1, <3>2
    <3>5. (seen'.promised = due) => Kept'
      BY <2>1, <3>2, <3>3, <3>4 DEF Kept, Promised
    <3>6. ASSUME NEW p \in Nat, p = seen.promised, p # 0
          PROVE  Promised(p)'
      <4>1. Promised(p)
        BY <3>6 DEF Kept
      <4>2. now < p
        <5>1. SUFFICES ASSUME p <= now
                       PROVE  FALSE
          BY <1>0, <3>1
        <5>2. Refilled(seen.who, now) >= Refill
          BY <1>0, <3>1, <4>1, <5>1, PromiseHolds, Capacity > 0
        <5>3. QED
          BY <2>3, <3>1, <5>2, LimiterConstants DEF LimiterConstants
      <4>3. QED
        BY <1>3, <2>3, <4>1, <4>2, PromiseSurvives
    <3>7. QED
      BY <1>0, <2>1, <2>3, <3>4, <3>5, <3>6 DEF Kept, Smaller, Promised
  <2>4. QED
    BY <2>2, <2>3
<1>4. CASE Restart
  BY <1>4 DEF Restart, Kept, Fresh
<1>5. ASSUME NEW who \in Peers, Observe(who)
      PROVE  Kept'
  BY <1>5 DEF Observe, Kept, Fresh
<1>6. CASE Tick
  BY <1>6 DEF Tick, Kept, Promised
<1>7. CASE UNCHANGED vars
  BY <1>7 DEF vars, Kept, Promised
<1>8. QED
  BY <1>1, <1>2, <1>3, <1>4, <1>5, <1>6, <1>7 DEF Next

\* Who comes back when told to finds a token, unless somebody else got it.
THEOREM RetryIsSufficient ==
  ASSUME Capacity > 0
  PROVE  Spec => RetrySuffices
<1>1. Init => Kept
  BY DEF Init, Kept, Fresh
<1>2. TypeOK /\ Kept /\ [Next]_vars
      => [\A t \in Threads : /\ Denied(t)
                             /\ req[t].key = seen.who
                             /\ seen.promised # 0
                             => req[t].now < seen.promised]_vars
  <2> SUFFICES ASSUME TypeOK, Kept, NEW t \in Threads, Denied(t),
                      req[t].key = seen.who, seen.promised # 0
               PROVE  req[t].now < seen.promised
    OBVIOUS
  <2>1. seen.promised \in Nat /\ req[t].now \in Nat /\ seen.who \in Peers
    BY RequestType DEF Denied, TypeOK, SeenRec
  <2>2. seen.promised <= req[t].now => Refilled(seen.who, req[t].now) >= Refill
    BY <2>1, PromiseHolds, Capacity > 0 DEF Kept
  <2>3. Refilled(seen.who, req[t].now) < Refill /\ Refilled(seen.who, req[t].now) \in 0 .. Full
    BY <2>1, RefilledBounds DEF Denied
  <2>4. QED
    BY <2>1, <2>2, <2>3, FullIsNat, LimiterConstants DEF LimiterConstants
<1>3. Spec => []Kept
  BY <1>1, KeptStep, TypeCorrect, Capacity > 0, PTL DEF Spec
<1>4. QED
  BY <1>2, <1>3, TypeCorrect, PTL DEF Spec, RetrySuffices

=============================================================================
