------------------------------ MODULE Directory ------------------------------
(***************************************************************************)
(* The listing life cycle of the directory: the tables `agents`,           *)
(* `challenges` and `audit_log` of store.py, the L1 handlers of service.py *)
(* that write them, and the moderator's suspend / unsuspend.               *)
(*                                                                         *)
(* A handler runs in a thread of its own (ThreadingHTTPServer) and takes   *)
(* the store's lock several times: it reads a row, decides, and only later *)
(* opens the write transaction that acts on the decision.  Each step below *)
(* is one such critical section, so every interleaving of handlers between *)
(* two sections is a behaviour.  A method that reads the clock before it   *)
(* waits for the lock may use a time that is old when it gets the lock:    *)
(* any value the clock had since the thread's previous step (ReadClock).   *)
(*                                                                         *)
(* SQLite commits or rolls back a whole section, so a crash (Restart)      *)
(* loses the requests in flight and nothing else.                          *)
(***************************************************************************)
EXTENDS Integers, Sequences, FiniteSets, SequencesExt

CONSTANTS
  Agents,        \* fingerprints
  Threads,       \* handler threads
  ChallengeIds,  \* challenge ids; each is drawn at random once, so never reused
  NoAgent,       \* SQL NULL in a fingerprint column
  NoChallenge,   \* no challenge id
  MaxAgents,     \* config.max_agents
  MaxPending,    \* config.max_pending_challenges
  TTL,           \* config.ttl_seconds
  ChallengeTTL,  \* config.challenge_ttl_s
  MaxClock,      \* bound: the last clock value explored
  MaxLog         \* bound: no request starts once the log has this many entries

ASSUME ConstantsAssumption ==
  /\ IsFiniteSet(Agents)
  /\ NoAgent \notin Agents
  /\ NoChallenge \notin ChallengeIds
  /\ {MaxAgents, MaxPending, TTL, ChallengeTTL, MaxClock, MaxLog} \subseteq Nat

VARIABLES
  agents,      \* table agents: fingerprint -> row
  challenges,  \* table challenges: id -> row
  log,         \* table audit_log, in seq order (its hashes: module Transparency)
  clock,       \* the injected clock, in whole seconds
  req          \* thread -> the request it is serving

vars == <<agents, challenges, log, clock, req>>

-----------------------------------------------------------------------------
(* Rows.  A row that is not in the table has status "absent", a challenge  *)
(* that is not in the table is "fresh" (never issued) or "evicted".        *)

NoRow == [status |-> "absent", is_history |-> FALSE, registered |-> 0, expires |-> 0]

NoChallengeRow ==
  [state |-> "fresh", fingerprint |-> NoAgent, created |-> 0, expires |-> 0]

\* is_live_row
Live(row, now) ==
  /\ row.status = "listed"
  /\ ~row.is_history
  /\ row.expires >= now

LiveAgents(now) == {fp \in Agents : Live(agents[fp], now)}

Unused == {c \in ChallengeIds : challenges[c].state = "pending"}

PendingAt(now) == {c \in Unused : challenges[c].expires > now}

\* ORDER BY created_epoch ASC LIMIT 1 leaves ties open.
OldestUnused ==
  {c \in Unused : \A d \in Unused : challenges[c].created <= challenges[d].created}

-----------------------------------------------------------------------------
(* The audit log.  _append_audit runs inside the writer's transaction and  *)
(* reads the clock there.                                                  *)

Entry(event, fp, c) ==
  [event |-> event, fingerprint |-> fp, challenge |-> c, ts |-> clock]

Genesis == [event |-> "chain.genesis", fingerprint |-> NoAgent,
            challenge |-> NoChallenge, ts |-> 1]

\* New requests are admitted while the log is shorter than its bound.
LogOpen == Len(log) < MaxLog

-----------------------------------------------------------------------------
(* Requests.  pc names the next critical section of the handler; until is  *)
(* the expiry read from the agent's row (0: not listed), since the clock   *)
(* at the end of the previous section.                                     *)

Idle == [pc |-> "idle", fingerprint |-> NoAgent, challenge |-> NoChallenge,
         until |-> 0, since |-> 0]

Start(t, r) ==
  /\ req[t] = Idle
  /\ LogOpen
  /\ req' = [req EXCEPT ![t] = r]

Finish(t) == req' = [req EXCEPT ![t] = Idle]

\* What self.now(), called after the previous section, may have returned.
ReadClock(t) == req[t].since .. clock

Init ==
  /\ agents = [fp \in Agents |-> NoRow]
  /\ challenges = [c \in ChallengeIds |-> NoChallengeRow]
  /\ log = <<Genesis>>
  /\ clock = 1
  /\ req = [t \in Threads |-> Idle]

-----------------------------------------------------------------------------
(* Store.prune_expired: one "agent.expired" entry for each row, in         *)
(* whatever order the SELECT (it has no ORDER BY) returns the rows.        *)

Lapsed(now) ==
  {fp \in Agents : /\ agents[fp].status = "listed"
                   /\ ~agents[fp].is_history
                   /\ agents[fp].expires < now}

Prune(now) ==
  /\ agents' = [fp \in Agents |->
                  IF fp \in Lapsed(now)
                  THEN [agents[fp] EXCEPT !.status = "expired", !.is_history = TRUE]
                  ELSE agents[fp]]
  /\ \E order \in SetToSeqs(Lapsed(now)) :
        log' = log \o [i \in DOMAIN order |-> Entry("agent.expired", order[i], NoChallenge)]

-----------------------------------------------------------------------------
(* Step 1 of registration: submit_registration.                            *)

\* get_agent_row: the manifest is valid and signed by the agent's key.
SubmitRead(t, fp, c) ==
  /\ challenges[c].state = "fresh"
  /\ \A u \in Threads : req[u].challenge # c
  /\ Start(t, [pc |-> "submit", fingerprint |-> fp, challenge |-> c, since |-> clock,
               until |-> IF agents[fp].status = "listed" /\ ~agents[fp].is_history
                         THEN agents[fp].expires ELSE 0])
  /\ UNCHANGED <<agents, challenges, log, clock>>

\* Not live: count_live first prunes.
SubmitPrune(t) ==
  /\ req[t].pc = "submit"
  /\ \E now \in ReadClock(t) : now > req[t].until /\ Prune(now)
  /\ req' = [req EXCEPT ![t].pc = "count", ![t].since = clock]
  /\ UNCHANGED <<challenges, clock>>

\* ... and then counts, under a lock of its own; DIRECTORY_FULL ends the request.
SubmitCount(t) ==
  /\ req[t].pc = "count"
  /\ \E now \in ReadClock(t) :
       \/ /\ Cardinality(LiveAgents(now)) >= MaxAgents
          /\ Finish(t)
       \/ /\ Cardinality(LiveAgents(now)) < MaxAgents
          /\ req' = [req EXCEPT ![t].pc = "insert", ![t].since = clock]
  /\ UNCHANGED <<agents, challenges, log, clock>>

\* Two faulty variants: the eviction goes unrecorded; its arguments are swapped.
EvictionUnrecorded(victim) == << >>
EvictionMisfiled(victim) == <<Entry("challenge.evicted", victim, NoAgent)>>

EvictionEntries(victim) == <<Entry("challenge.evicted", NoAgent, victim)>>

\* Store.insert_challenge.
InsertChallenge(c, fp, now) ==
  LET row    == [state |-> "pending", fingerprint |-> fp,
                 created |-> now, expires |-> now + ChallengeTTL]
      issued == Entry("register.challenge_issued", fp, c)
      full   == Cardinality(PendingAt(now)) >= MaxPending
  IN \/ /\ ~full \/ Unused = {}
        /\ challenges' = [challenges EXCEPT ![c] = row]
        /\ log' = Append(log, issued)
     \/ /\ full
        /\ \E victim \in OldestUnused :
             /\ challenges' = [challenges EXCEPT ![victim].state = "evicted", ![c] = row]
             /\ log' = log \o EvictionEntries(victim) \o <<issued>>

SubmitInsert(t) ==
  /\ \/ req[t].pc = "submit" /\ req[t].since <= req[t].until  \* was already live
     \/ req[t].pc = "insert"
  /\ \E now \in ReadClock(t) : InsertChallenge(req[t].challenge, req[t].fingerprint, now)
  /\ Finish(t)
  /\ UNCHANGED <<agents, clock>>

-----------------------------------------------------------------------------
(* Step 2 of registration: complete_registration.  A request the checks    *)
(* turn down (unknown, used, expired, wrong key or proof) writes nothing.  *)

CompleteRead(t, c) ==
  /\ challenges[c].state = "pending"
  /\ challenges[c].expires >= clock
  /\ Start(t, [pc |-> "complete", fingerprint |-> challenges[c].fingerprint,
               challenge |-> c, until |-> 0, since |-> clock])
  /\ UNCHANGED <<agents, challenges, log, clock>>

\* Faulty variants: a suspension survives a registration; so does the tenure of
\* an agent that had lapsed.
UpsertedKeepingStatus(row) ==
  [status |-> IF row.status = "suspended" THEN "suspended" ELSE "listed",
   is_history |-> FALSE, registered |-> clock, expires |-> clock + TTL]
UpsertedKeepingTenure(row) ==
  [status |-> "listed", is_history |-> FALSE, expires |-> clock + TTL,
   registered |-> IF row.status = "absent" THEN clock ELSE row.registered]

\* _upsert_agent_cur, which reads the clock inside the transaction.
Upserted(row) ==
  [status     |-> "listed",
   is_history |-> FALSE,
   registered |-> IF Live(row, clock) THEN row.registered ELSE clock,
   expires    |-> clock + TTL]

\* Faulty variant: the check asks whether the row is there, not whether it is used.
StillKnown(c) == challenges[c].state \in {"pending", "used"}

\* The challenge's row, read again under the write lock.
StillUnused(c) == challenges[c].state = "pending"

\* Faulty variant: an evicted challenge is not told from a pending one.
AlreadyUsed(c) == challenges[c].state = "used"

\* CHALLENGE_USED, CHALLENGE_NOT_FOUND
NoLongerUsable(c) == challenges[c].state \in {"used", "evicted"}

\* Store.complete_registration.
Registered(c, fp) ==
  /\ StillUnused(c)
  /\ challenges' = [challenges EXCEPT ![c].state = "used"]
  /\ agents' = [agents EXCEPT ![fp] = Upserted(@)]
  /\ log' = Append(log, Entry(IF Live(agents[fp], clock) THEN "register.updated"
                              ELSE "register.completed", fp, c))

CompleteCommit(t) ==
  /\ req[t].pc = "complete"
  /\ \/ Registered(req[t].challenge, req[t].fingerprint)
     \/ /\ NoLongerUsable(req[t].challenge)
        /\ UNCHANGED <<agents, challenges, log>>
  /\ Finish(t)
  /\ UNCHANGED clock

-----------------------------------------------------------------------------
(* Heartbeats: heartbeat_v1 checks the row first, heartbeat_legacy does    *)
(* not; both end in Store.heartbeat.                                       *)

HeartbeatRead(t, fp) ==
  /\ \E pc \in {"heartbeat", "heartbeat_legacy"} :
       /\ pc = "heartbeat" => Live(agents[fp], clock)
       /\ Start(t, [pc |-> pc, fingerprint |-> fp, challenge |-> NoChallenge,
                    until |-> 0, since |-> clock])
  /\ UNCHANGED <<agents, challenges, log, clock>>

\* Faulty variants: the row is not read again; the renewal is counted from the
\* current expiry; the entry is stamped before the lock is taken.
RenewedUnchecked(fp, ev, now) ==
  /\ agents[fp].status # "absent"
  /\ agents' = [agents EXCEPT ![fp].expires = now + TTL]
  /\ log' = Append(log, Entry(ev, fp, NoChallenge))
RenewedFromExpiry(fp, ev, now) ==
  /\ Live(agents[fp], now)
  /\ agents' = [agents EXCEPT ![fp].expires = @ + TTL]
  /\ log' = Append(log, Entry(ev, fp, NoChallenge))
RenewedEarlyStamp(fp, ev, now) ==
  /\ Live(agents[fp], now)
  /\ agents' = [agents EXCEPT ![fp].expires = now + TTL]
  /\ log' = Append(log, [Entry(ev, fp, NoChallenge) EXCEPT !.ts = now])

\* Store.heartbeat: the row is read again under the lock.
Renewed(fp, ev, now) ==
  /\ Live(agents[fp], now)
  /\ agents' = [agents EXCEPT ![fp].expires = now + TTL]
  /\ log' = Append(log, Entry(ev, fp, NoChallenge))

HeartbeatCommit(t) ==
  LET fp == req[t].fingerprint
      ev == IF req[t].pc = "heartbeat" THEN "heartbeat.ok" ELSE "heartbeat.legacy_unsigned"
  IN /\ req[t].pc \in {"heartbeat", "heartbeat_legacy"}
     /\ \E now \in ReadClock(t) :
          \/ Renewed(fp, ev, now)
          \/ /\ ~Live(agents[fp], now)          \* UNKNOWN_OR_EXPIRED
             /\ UNCHANGED <<agents, log>>
     /\ Finish(t)
     /\ UNCHANGED <<challenges, clock>>

-----------------------------------------------------------------------------
(* Search, health and metrics prune before they read.                      *)

SearchStart(t) ==
  /\ Start(t, [pc |-> "search", fingerprint |-> NoAgent, challenge |-> NoChallenge,
               until |-> 0, since |-> clock])
  /\ UNCHANGED <<agents, challenges, log, clock>>

SearchPrune(t) ==
  /\ req[t].pc = "search"
  /\ \E now \in ReadClock(t) : Prune(now)
  /\ Finish(t)
  /\ UNCHANGED <<challenges, clock>>

-----------------------------------------------------------------------------
(* The moderator.  suspend_agent uses the time for the suspension record   *)
(* only; unsuspend_agent computes the new expiry from it.                  *)

Suspend(fp) ==
  /\ LogOpen
  /\ agents[fp].status # "absent"
  /\ agents' = [agents EXCEPT ![fp].status = "suspended"]
  /\ log' = Append(log, Entry("moderator.suspend", fp, NoChallenge))
  /\ UNCHANGED <<challenges, clock, req>>

UnsuspendStart(t, fp) ==
  /\ Start(t, [pc |-> "unsuspend", fingerprint |-> fp, challenge |-> NoChallenge,
               until |-> 0, since |-> clock])
  /\ UNCHANGED <<agents, challenges, log, clock>>

\* Faulty variant: any row can be reinstated.
IsKnown(fp) == agents[fp].status # "absent"

IsSuspended(fp) == agents[fp].status = "suspended"

\* Store.unsuspend_agent
Reinstated(fp, now) ==
  /\ IsSuspended(fp)
  /\ agents' = [agents EXCEPT ![fp].status = "listed", ![fp].is_history = FALSE,
                              ![fp].expires = now + TTL]
  /\ log' = Append(log, Entry("moderator.unsuspend", fp, NoChallenge))

UnsuspendCommit(t) ==
  LET fp == req[t].fingerprint
  IN /\ req[t].pc = "unsuspend"
     /\ \/ \E now \in ReadClock(t) : Reinstated(fp, now)
        \/ /\ ~IsSuspended(fp)                \* AGENT_NOT_FOUND
           /\ UNCHANGED <<agents, log>>
     /\ Finish(t)
     /\ UNCHANGED <<challenges, clock>>

-----------------------------------------------------------------------------
\* The process dies and starts again; DirectoryService.__init__ prunes.
Restart ==
  /\ Prune(clock)
  /\ req' = [t \in Threads |-> Idle]
  /\ UNCHANGED <<challenges, clock>>

Tick ==
  /\ clock < MaxClock
  /\ clock' = clock + 1
  /\ UNCHANGED <<agents, challenges, log, req>>

Request(t) ==
  \/ \E fp \in Agents : \/ \E c \in ChallengeIds : SubmitRead(t, fp, c)
                        \/ HeartbeatRead(t, fp)
                        \/ UnsuspendStart(t, fp)
  \/ \E c \in ChallengeIds : CompleteRead(t, c)
  \/ SearchStart(t)

Serve(t) ==
  \/ SubmitPrune(t)
  \/ SubmitCount(t)
  \/ SubmitInsert(t)
  \/ CompleteCommit(t)
  \/ HeartbeatCommit(t)
  \/ SearchPrune(t)
  \/ UnsuspendCommit(t)

Next ==
  \/ \E t \in Threads : Request(t) \/ Serve(t)
  \/ \E fp \in Agents : Suspend(fp)
  \/ Restart
  \/ Tick

Spec == Init /\ [][Next]_vars

\* A handler that has started runs on: the threads are scheduled by the OS and
\* every critical section is short.  Nobody is obliged to send a request.
FairSpec == Spec /\ \A t \in Threads : WF_vars(Serve(t))

=============================================================================
