---------------------------- MODULE RateLimiterProps ----------------------------
(***************************************************************************)
(* What is checked of RateLimiter.                                         *)
(***************************************************************************)
EXTENDS RateLimiter

Bucket == [tokens : 0 .. Full, updated : Nat]

RequestRec == [pc : {"idle", "check"}, peer : Peers \cup {NoHeader},
               key : Peers \cup {NoHeader}, now : Nat]

SeenRec == [who : Peers, mark : Nat, spent : Nat, served : Nat, waited : Nat, promised : Nat]

\* The variables have their types: in particular a bucket never overflows and never
\* owes.  Nothing is dated after the present.
TypeOK ==
  /\ buckets \in [Peers -> Bucket]
  /\ known \subseteq Peers
  /\ clock \in Nat
  /\ req \in [Threads -> RequestRec]
  /\ seen \in SeenRec
  /\ \A k \in Peers : buckets[k].updated <= clock
  /\ \A t \in Threads : /\ req[t].now <= clock
                        /\ req[t].pc = "check" => {req[t].peer, req[t].key} \subseteq Peers
  /\ seen.mark <= clock

-----------------------------------------------------------------------------
\* What the observed bucket may let through, in units, since the observer's mark.
Allowance == Full + Capacity * ((clock - seen.mark) + seen.waited)

\* However requests overlap, whenever an observer starts to count, an address gets no
\* more than a full bucket and what refills since; the seconds that its requests
\* waited between reading the clock and getting the lock may refill once more.
AdmissionBound == Refill * seen.spent <= Allowance

\* The same for what comes over the connections of a host that is not this one:
\* no header buys it a second bucket.
PeerBound == seen.who \notin Local => Refill * seen.served <= Allowance

\* A client that comes back when Retry-After says is let in, if nobody got the token
\* meanwhile, whatever late requests did to the bucket.
RetrySuffices ==
  [][\A t \in Threads : /\ Denied(t)
                        /\ req[t].key = seen.who
                        /\ seen.promised # 0
                        => req[t].now < seen.promised]_vars

=============================================================================
