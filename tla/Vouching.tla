------------------------------- MODULE Vouching -------------------------------
(***************************************************************************)
(* L3, vouching: the table `vouches` of store.py and the handlers of       *)
(* vouching.py that write it.                                              *)
(*                                                                         *)
(* A grant is checked outside the store's lock (expiry, window, both       *)
(* parties live) and stored under it, where the cap on outgoing vouches    *)
(* and the duplicate rule are looked at, with a time read before the lock  *)
(* was taken.  Who is live is module Directory's business: here listings   *)
(* come and go as they like.                                               *)
(***************************************************************************)
EXTENDS Integers, FiniteSets

CONSTANTS
  Agents,       \* fingerprints
  Vouchers,     \* the agents that vouch (all of them; fewer bounds a run)
  VouchIds,     \* vouch ids; each is drawn at random once, so never reused
  Scopes,       \* scope strings
  Threads,      \* handler threads
  None,         \* no fingerprint, no scope
  MaxOutgoing,  \* config.vouch_max_outgoing
  MaxSpan,      \* config.vouch_max_expiry_days
  Claims,       \* the values of created_at a client may sign
  MaxClock      \* bound: the last clock value explored

ASSUME VouchingConstants ==
  /\ IsFiniteSet(VouchIds)
  /\ Vouchers \subseteq Agents
  /\ {MaxOutgoing, MaxSpan, MaxClock} \subseteq Nat
  /\ Claims \subseteq Nat

VARIABLES
  vouches,  \* table vouches: id -> row
  live,     \* the agents that are listed and not expired
  clock,    \* the injected clock
  req       \* thread -> the grant it is serving

vars == <<vouches, live, clock, req>>

-----------------------------------------------------------------------------
(* Rows.  A row that is not in the table has no voucher; revoked is the    *)
(* time of the revocation, 0 (SQL NULL) before it.                         *)

NoVouch == [voucher |-> None, vouchee |-> None, scope |-> None,
            created |-> 0, expires |-> 0, revoked |-> 0]

Stored == {v \in VouchIds : vouches[v].voucher # None}

\* "revoked_at IS NULL AND expires_epoch >= now"
Active(v, now) ==
  /\ vouches[v].revoked = 0
  /\ vouches[v].expires >= now

\* The active vouches of an agent.
Outgoing(voucher, now) ==
  {v \in Stored : vouches[v].voucher = voucher /\ Active(v, now)}

Idle == [pc |-> "idle", vouch |-> None, row |-> NoVouch, since |-> 0]

Finish(t) == req' = [req EXCEPT ![t] = Idle]

\* What self.now(), called after the previous section, may have returned.
ReadClock(t) == req[t].since .. clock

Init ==
  /\ vouches = [v \in VouchIds |-> NoVouch]
  /\ live = {}
  /\ clock = 1
  /\ req = [t \in Threads |-> Idle]

-----------------------------------------------------------------------------
(* VouchService.create.                                                    *)

\* The body: an expiry in the future and not too far from the time of creation
\* the client claims; VOUCHER_NOT_LISTED unless the voucher is live.
CreateRead(t, v, voucher, vouchee, scope, expires) ==
  /\ req[t] = Idle
  /\ v \notin Stored
  /\ \A u \in Threads : req[u].vouch # v
  /\ expires > clock
  /\ \E claimed \in Claims : expires - claimed <= MaxSpan
  /\ voucher \in live
  /\ req' = [req EXCEPT ![t] =
               [pc |-> "vouchee", vouch |-> v, since |-> clock,
                row |-> [voucher |-> voucher, vouchee |-> vouchee, scope |-> scope,
                         created |-> 0, expires |-> expires, revoked |-> 0]]]
  /\ UNCHANGED <<vouches, live, clock>>

CreateVouchee(t) ==
  /\ req[t].pc = "vouchee"
  /\ \/ /\ req[t].row.vouchee \in live
        /\ req' = [req EXCEPT ![t].pc = "store", ![t].since = clock]
     \/ /\ req[t].row.vouchee \notin live     \* VOUCHEE_NOT_LISTED
        /\ Finish(t)
  /\ UNCHANGED <<vouches, live, clock>>

\* Faulty variant: the cap lets one vouch too many in.
BelowCapOrAtIt(voucher, now) == Cardinality(Outgoing(voucher, now)) <= MaxOutgoing

BelowCap(voucher, now) == Cardinality(Outgoing(voucher, now)) < MaxOutgoing

\* Faulty variant: what expires this very second is no longer a duplicate.
IsDuplicateUntil(row, now) ==
  \E v \in Stored : /\ vouches[v].voucher = row.voucher
                    /\ vouches[v].vouchee = row.vouchee
                    /\ vouches[v].scope = row.scope
                    /\ vouches[v].revoked = 0
                    /\ vouches[v].expires > now

IsDuplicate(row, now) ==
  \E v \in Outgoing(row.voucher, now) : /\ vouches[v].vouchee = row.vouchee
                                        /\ vouches[v].scope = row.scope

\* Faulty variant: the arguments scope and note (here none) are swapped.
InsertedMisplaced(row, now) == [row EXCEPT !.created = now, !.scope = None]

\* The INSERT: created_at is the directory's time, not the client's.
Inserted(row, now) == [row EXCEPT !.created = now]

\* Store.create_vouch
CreateStore(t) ==
  LET row == req[t].row
  IN /\ req[t].pc = "store"
     /\ \E now \in ReadClock(t) :
          \/ /\ BelowCap(row.voucher, now)
             /\ ~IsDuplicate(row, now)
             /\ vouches' = [vouches EXCEPT ![req[t].vouch] = Inserted(row, now)]
          \/ /\ ~BelowCap(row.voucher, now)   \* VOUCH_LIMIT_REACHED
             /\ UNCHANGED vouches
          \/ /\ IsDuplicate(row, now)         \* VOUCH_EXISTS
             /\ UNCHANGED vouches
     /\ Finish(t)
     /\ UNCHANGED <<live, clock>>

-----------------------------------------------------------------------------
\* Faulty variant: a vouch can be revoked again.
RevocableAgain(v, by) == v \in Stored /\ vouches[v].voucher = by

Revocable(v, by) ==
  /\ v \in Stored
  /\ vouches[v].revoked = 0
  /\ vouches[v].voucher = by

\* VouchService.revoke and Store.revoke_vouch: signed by the voucher's key, which
\* the directory knows for good once the voucher has a row.  The time the service
\* read before the lock is only recorded.
Revoke(v, by) ==
  /\ Revocable(v, by)
  /\ \E now \in vouches[v].created .. clock : vouches' = [vouches EXCEPT ![v].revoked = now]
  /\ UNCHANGED <<live, clock, req>>

-----------------------------------------------------------------------------
(* The rest of the directory, and the process.                             *)

Listed(fp) ==
  /\ fp \notin live
  /\ live' = live \cup {fp}
  /\ UNCHANGED <<vouches, clock, req>>

Delisted(fp) ==
  /\ fp \in live
  /\ live' = live \ {fp}
  /\ UNCHANGED <<vouches, clock, req>>

Restart ==
  /\ req' = [t \in Threads |-> Idle]
  /\ UNCHANGED <<vouches, live, clock>>

Tick ==
  /\ clock < MaxClock
  /\ clock' = clock + 1
  /\ UNCHANGED <<vouches, live, req>>

\* What happens while the process runs.
Running ==
  \/ \E t \in Threads :
       \/ \E v \in VouchIds, voucher \in Vouchers, vouchee \in Agents,
             scope \in Scopes, expires \in 1 .. MaxClock + MaxSpan :
            CreateRead(t, v, voucher, vouchee, scope, expires)
       \/ CreateVouchee(t)
       \/ CreateStore(t)
  \/ \E v \in VouchIds, by \in Agents : Revoke(v, by)
  \/ \E fp \in Agents : Listed(fp) \/ Delisted(fp)
  \/ Tick

Next == Running \/ Restart

Spec == Init /\ [][Next]_vars

=============================================================================
