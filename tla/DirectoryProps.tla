--------------------------- MODULE DirectoryProps ---------------------------
(***************************************************************************)
(* What is checked, and in Directory_proofs proved, of Directory.          *)
(***************************************************************************)
EXTENDS Directory

Statuses == {"absent", "listed", "expired", "suspended"}

\* The log and the threads are shared with module DomainVerification, whose events
\* and requests the types include.
Events == {"chain.genesis", "register.challenge_issued", "challenge.evicted",
           "register.completed", "register.updated", "heartbeat.ok",
           "heartbeat.legacy_unsigned", "agent.expired", "moderator.suspend",
           "moderator.unsuspend", "domain.verify_requested", "domain.verified"}

AgentRow == [status : Statuses, is_history : BOOLEAN, registered : Nat, expires : Nat]

ChallengeRow == [state : {"fresh", "pending", "used", "evicted"},
                 fingerprint : Agents \cup {NoAgent}, created : Nat, expires : Nat]

LogEntry == [event : Events, fingerprint : Agents \cup {NoAgent},
             challenge : ChallengeIds \cup {NoChallenge}, ts : Nat]

OnChallenge == {"submit", "count", "insert", "complete",
                "verify", "token", "lookup", "confirm"}
OnAgent == OnChallenge \cup {"heartbeat", "heartbeat_legacy", "unsuspend", "show"}

RequestRec == [pc : OnAgent \cup {"idle", "search"}, fingerprint : Agents \cup {NoAgent},
               challenge : ChallengeIds \cup {NoChallenge}, until : Nat, since : Nat]

\* The variables have their types, and a request knows the agent and the
\* challenge it is about, as an issued challenge knows its agent.
TypeOK ==
  /\ agents \in [Agents -> AgentRow]
  /\ challenges \in [ChallengeIds -> ChallengeRow]
  /\ log \in Seq(LogEntry)
  /\ clock \in Nat
  /\ req \in [Threads -> RequestRec]
  /\ \A c \in ChallengeIds : challenges[c].state # "fresh" => challenges[c].fingerprint \in Agents
  /\ \A t \in Threads : /\ req[t].pc \in OnAgent => req[t].fingerprint \in Agents
                        /\ req[t].pc \in OnChallenge => req[t].challenge \in ChallengeIds

-----------------------------------------------------------------------------
(* Events by what they say of an agent.                                    *)

Listings == {"register.completed", "register.updated"}
Renewals == Listings \cup {"heartbeat.ok", "heartbeat.legacy_unsigned", "moderator.unsuspend"}
StatusEvents == Listings \cup {"agent.expired", "moderator.suspend", "moderator.unsuspend"}

StatusAfter(event) ==
  CASE event = "agent.expired"     -> "expired"
    [] event = "moderator.suspend" -> "suspended"
    [] OTHER                       -> "listed"

\* i is the last entry about fp with an event of the given kind.
IsLast(i, fp, kind) ==
  /\ i \in DOMAIN log
  /\ log[i].fingerprint = fp
  /\ log[i].event \in kind
  /\ \A j \in DOMAIN log :
       log[j].fingerprint = fp /\ log[j].event \in kind => j <= i

\* A challenge lists an agent at most once, however many completions for it
\* have passed the checks before the first one commits, and across restarts
\* (complete_registration re-reads `used` under the write lock).
SingleUse ==
  \A i, j \in DOMAIN log :
    /\ log[i].event \in Listings
    /\ log[j].event \in Listings
    /\ log[i].challenge = log[j].challenge
    => i = j

StatusTold(fp) ==
  \/ /\ agents[fp].status = "absent"
     /\ \A i \in DOMAIN log : ~(log[i].fingerprint = fp /\ log[i].event \in StatusEvents)
  \/ \E i \in DOMAIN log : /\ IsLast(i, fp, StatusEvents)
                           /\ agents[fp].status = StatusAfter(log[i].event)

\* The status of every agent is the one its last status event in the audit log
\* records: the log alone tells who is listed, expired or suspended.
StatusMatchesLog == \A fp \in Agents : StatusTold(fp)

TenureTold(fp) ==
  agents[fp].status # "absent" =>
    \E i \in DOMAIN log : /\ IsLast(i, fp, {"register.completed"})
                          /\ agents[fp].registered = log[i].ts

\* The tenure an agent shows (registered_at, which makes its reports count) is
\* the time of its last *fresh* registration in the log: an update keeps it, a
\* registration after a lapse or a suspension restarts it.
TenureMatchesLog == \A fp \in Agents : TenureTold(fp)

ExpiryTold(fp) ==
  agents[fp].status # "absent" =>
    \E i \in DOMAIN log : /\ IsLast(i, fp, Renewals)
                          /\ agents[fp].expires <= log[i].ts + TTL

\* No listing outlives its last audited renewal by more than the TTL, although
\* writers compute the new expiry from a time they read before they waited for
\* the lock.
ExpiryBackedByLog == \A fp \in Agents : ExpiryTold(fp)

\* Entries are in time order: _append_audit stamps them inside the transaction.
\* (The checkpoint cadence and the verifier's replay rely on it.)
LogInTimeOrder ==
  \A i, j \in DOMAIN log : i <= j => log[i].ts <= log[j].ts

-----------------------------------------------------------------------------
\* The log is only ever extended, and the entries a step adds account for every
\* row the step changes: each agent changed is named by a new entry, and so is
\* each challenge changed.
AuditedWrites ==
  [][/\ Len(log') >= Len(log)
     /\ \A i \in DOMAIN log : log'[i] = log[i]
     /\ \A fp \in Agents : agents'[fp] # agents[fp] =>
          \E i \in DOMAIN log' \ DOMAIN log : log'[i].fingerprint = fp
     /\ \A c \in ChallengeIds : challenges'[c] # challenges[c] =>
          \E i \in DOMAIN log' \ DOMAIN log : log'[i].challenge = c]_vars

\* No step moves the expiry of a row and leaves it lapsed: a heartbeat or a
\* reinstatement that was accepted before a prune took the row off the list does not
\* extend it afterwards.  (Nothing is said here of a suspended row.)
LapsedRowsNotRenewed ==
  [][\A fp \in Agents : agents'[fp].expires # agents[fp].expires
                          => agents'[fp].status # "expired"]_vars

-----------------------------------------------------------------------------
(* The abstract specification.                                             *)

Book == INSTANCE PhoneBook WITH
          Tickets <- ChallengeIds,
          book    <- [fp \in Agents |-> agents[fp].status],
          issued  <- {c \in ChallengeIds : challenges[c].state # "fresh"},
          open    <- {<<c, challenges[c].fingerprint>> : c \in Unused}

\* The handlers implement the phone book: a listing always consumes a ticket of
\* the same agent, a lapsed or suspended agent comes back in no other way than
\* a new registration or, when suspended, the moderator's reinstatement.
ImplementsPhoneBook == Book!Spec

\* A handler that started ends, whatever became of the rows it read.
HandlersFinish ==
  \A t \in Threads : req[t] # Idle ~> req[t] = Idle

-----------------------------------------------------------------------------
(* What the documents say and the code does not do.                        *)

\* "Capacity: cap total listed agents" (service.py): at most MaxAgents are live.
ListedAgentCap == Cardinality(LiveAgents(clock)) <= MaxAgents

\* "Pending-challenge table is capped" (OPERATE.md).
PendingChallengeCap == Cardinality(PendingAt(clock)) <= MaxPending

=============================================================================
