-------------------------- MODULE Directory_proofs --------------------------
(***************************************************************************)
(* Proofs about Directory, for every choice of its constants.              *)
(***************************************************************************)
EXTENDS DirectoryProps, FiniteSetTheorems, SequenceTheorems, TLAPS

-----------------------------------------------------------------------------
(* The audit log: what a step may add to it.                               *)

\* A query over the agents is a finite set.
LEMMA LapsedFinite ==
  ASSUME NEW now
  PROVE  /\ IsFiniteSet(Lapsed(now))
         /\ Cardinality(Lapsed(now)) \in Nat
<1>1. Lapsed(now) \subseteq Agents
  BY DEF Lapsed
<1>2. IsFiniteSet(Lapsed(now))
  BY <1>1, ConstantsAssumption, FS_Subset DEF ConstantsAssumption
<1> QED
  BY <1>2, FS_CardinalityType

\* Each member of a finite set has one place in each of the set's orderings.
LEMMA OrderingOnto ==
  ASSUME NEW S, IsFiniteSet(S), NEW order \in SetToSeqs(S)
  PROVE  /\ order \in [1..Cardinality(S) -> S]
         /\ \A x \in S : \E i \in 1..Cardinality(S) :
              /\ order[i] = x
              /\ \A j \in 1..Cardinality(S) : order[j] = x => j = i
<1> DEFINE n == Cardinality(S)
<1>1. n \in Nat
  BY FS_CardinalityType
<1>2. order \in [1..n -> S] /\ \A i, j \in 1..n : i # j => order[i] # order[j]
  BY DEF SetToSeqs
<1>3. order \in Injection(1..n, S)
  BY <1>2 DEF Injection, IsInjective
<1>4. Cardinality(1..n) = n
  BY <1>1, FS_Interval
<1>5. order \in Surjection(1..n, S)
  BY <1>3, <1>4, FS_Injection
<1>6. \A x \in S : \E i \in 1..n : order[i] = x
  BY <1>5 DEF Surjection
<1> QED
  BY <1>2, <1>6

\* Prune writes exactly one "agent.expired" entry for each lapsed agent.
LEMMA PruneAppends ==
  ASSUME TypeOK, NEW now, Prune(now)
  PROVE  \E es \in Seq(LogEntry) :
           /\ log' = log \o es
           /\ \A i \in 1..Len(es) : \E fp \in Lapsed(now) :
                es[i] = Entry("agent.expired", fp, NoChallenge)
           /\ \A fp \in Lapsed(now) : \E i \in 1..Len(es) :
                /\ es[i] = Entry("agent.expired", fp, NoChallenge)
                /\ \A j \in 1..Len(es) : es[j].fingerprint = fp => j = i
<1> DEFINE S == Lapsed(now)
           n == Cardinality(S)
<1>1. IsFiniteSet(S) /\ n \in Nat
  BY LapsedFinite
<1>2. PICK order \in SetToSeqs(S) :
        log' = log \o [i \in DOMAIN order |-> Entry("agent.expired", order[i], NoChallenge)]
  BY DEF Prune
<1> DEFINE es == [i \in DOMAIN order |-> Entry("agent.expired", order[i], NoChallenge)]
<1>3. /\ order \in [1..n -> S]
      /\ \A x \in S : \E i \in 1..n : order[i] = x /\ \A j \in 1..n : order[j] = x => j = i
  BY <1>1, <1>2, OrderingOnto
<1>4. \A fp \in S : Entry("agent.expired", fp, NoChallenge) \in LogEntry
  BY DEF Entry, LogEntry, Events, Lapsed, TypeOK
<1>5. es \in [1..n -> LogEntry]
  BY <1>3, <1>4
<1>6. es \in Seq(LogEntry) /\ Len(es) = n
  BY <1>1, <1>5, SeqDef
<1>7. \A i \in 1..n : es[i] = Entry("agent.expired", order[i], NoChallenge)
  BY <1>3
<1>8. log' = log \o es
  BY <1>2
<1> HIDE DEF es, n
<1>9. \A i \in 1..n : es[i].fingerprint = order[i]
  <2>1. \A fp : Entry("agent.expired", fp, NoChallenge).fingerprint = fp
    BY DEF Entry
  <2> QED
    BY <1>7, <2>1
<1>10. \A i \in 1..Len(es) : \E fp \in S : es[i] = Entry("agent.expired", fp, NoChallenge)
  BY <1>3, <1>6, <1>7
<1>11. \A fp \in S : \E i \in 1..Len(es) :
          /\ es[i] = Entry("agent.expired", fp, NoChallenge)
          /\ \A j \in 1..Len(es) : es[j].fingerprint = fp => j = i
  BY <1>3, <1>6, <1>7, <1>9
<1> QED
  BY <1>6, <1>8, <1>10, <1>11

\* What an extension of a sequence keeps and adds.
LEMMA Extension ==
  ASSUME NEW S, NEW s \in Seq(S), NEW e \in Seq(S)
  PROVE  /\ s \o e \in Seq(S)
         /\ Len(s \o e) = Len(s) + Len(e)
         /\ DOMAIN (s \o e) = 1..(Len(s) + Len(e))
         /\ \A i \in 1..Len(s) : (s \o e)[i] = s[i]
         /\ \A i \in 1..Len(e) : (s \o e)[Len(s) + i] = e[i]
         /\ \A k \in 1..(Len(s) + Len(e)) : k > Len(s) =>
              k - Len(s) \in 1..Len(e) /\ (s \o e)[k] = e[k - Len(s)]
  OBVIOUS

-----------------------------------------------------------------------------
(* Types.                                                                  *)

RequestOK ==
  /\ req \in [Threads -> RequestRec]
  /\ \A t \in Threads : /\ req[t].pc \in OnAgent => req[t].fingerprint \in Agents
                        /\ req[t].pc \in OnChallenge => req[t].challenge \in ChallengeIds

ChallengesOK ==
  /\ challenges \in [ChallengeIds -> ChallengeRow]
  /\ \A c \in ChallengeIds : challenges[c].state # "fresh" => challenges[c].fingerprint \in Agents

LEMMA InitType == Init => TypeOK
BY ConstantsAssumption
   DEF Init, TypeOK, NoRow, NoChallengeRow, Genesis, Idle, AgentRow, ChallengeRow,
       LogEntry, RequestRec, OnAgent, OnChallenge, Events, Statuses, ConstantsAssumption

\* A time a handler may have read is a time the clock has shown.
LEMMA ReadClockType ==
  ASSUME TypeOK, NEW t \in Threads, NEW now \in ReadClock(t)
  PROVE  now \in Nat /\ now <= clock
BY DEF TypeOK, ReadClock, RequestRec

LEMMA EntryType ==
  ASSUME TypeOK, NEW e \in Events, NEW fp \in Agents \cup {NoAgent},
         NEW c \in ChallengeIds \cup {NoChallenge}
  PROVE  Entry(e, fp, c) \in LogEntry
BY DEF TypeOK, Entry, LogEntry

\* A request that starts is about an agent, and about a challenge, if its pc says so.
LEMMA StartType ==
  ASSUME TypeOK, NEW t \in Threads, NEW r \in RequestRec, Start(t, r),
         r.pc \in OnAgent => r.fingerprint \in Agents,
         r.pc \in OnChallenge => r.challenge \in ChallengeIds
  PROVE  RequestOK'
BY DEF TypeOK, Start, RequestOK

LEMMA FinishType ==
  ASSUME TypeOK, NEW t \in Threads, Finish(t)
  PROVE  RequestOK'
BY DEF TypeOK, Finish, Idle, RequestRec, RequestOK, OnAgent, OnChallenge

\* A registration goes on from one critical section to the next.
LEMMA AdvanceType ==
  ASSUME TypeOK, NEW t \in Threads, req[t].pc \in OnChallenge, NEW pc \in OnChallenge,
         req' = [req EXCEPT ![t].pc = pc, ![t].since = clock]
  PROVE  RequestOK'
<1>1. req[t].fingerprint \in Agents /\ req[t].challenge \in ChallengeIds
  BY DEF TypeOK, OnAgent
<1>2. req' = [req EXCEPT ![t] = [req[t] EXCEPT !.pc = pc, !.since = clock]]
  BY DEF TypeOK, RequestRec
<1>3. [req[t] EXCEPT !.pc = pc, !.since = clock] \in RequestRec
  BY DEF TypeOK, RequestRec, OnAgent
<1> QED
  BY <1>1, <1>2, <1>3 DEF TypeOK, RequestOK, RequestRec

LEMMA PruneType ==
  ASSUME TypeOK, NEW now, Prune(now)
  PROVE  agents' \in [Agents -> AgentRow] /\ log' \in Seq(LogEntry)
<1>1. agents' \in [Agents -> AgentRow]
  BY DEF TypeOK, Prune, AgentRow, Statuses
<1>2. log' \in Seq(LogEntry)
  <2>1. PICK es \in Seq(LogEntry) : log' = log \o es
    BY PruneAppends
  <2> QED
    BY <2>1, Extension DEF TypeOK
<1> QED
  BY <1>1, <1>2

LEMMA InsertType ==
  ASSUME TypeOK, NEW c \in ChallengeIds, NEW fp \in Agents, NEW now \in Nat,
         InsertChallenge(c, fp, now)
  PROVE  ChallengesOK' /\ log' \in Seq(LogEntry)
<1> DEFINE row == [state |-> "pending", fingerprint |-> fp,
                   created |-> now, expires |-> now + ChallengeTTL]
           issued == Entry("register.challenge_issued", fp, c)
<1>1. row \in ChallengeRow /\ row.fingerprint \in Agents /\ issued \in LogEntry
  BY EntryType, ConstantsAssumption DEF ConstantsAssumption, ChallengeRow, Events
<1>2. ASSUME NEW victim \in OldestUnused
      PROVE  EvictionEntries(victim) \in Seq(LogEntry)
  BY <1>2, EntryType DEF EvictionEntries, OldestUnused, Unused, Events
<1>3. CASE /\ challenges' = [challenges EXCEPT ![c] = row]
           /\ log' = Append(log, issued)
  BY <1>1, <1>3 DEF TypeOK, ChallengesOK
<1>4. ASSUME NEW victim \in OldestUnused,
             challenges' = [challenges EXCEPT ![victim].state = "evicted", ![c] = row],
             log' = log \o EvictionEntries(victim) \o <<issued>>
      PROVE  ChallengesOK' /\ log' \in Seq(LogEntry)
  <2>1. log' \in Seq(LogEntry)
    BY <1>1, <1>2, <1>4 DEF TypeOK
  <2>2. /\ victim \in ChallengeIds
        /\ challenges[victim].fingerprint \in Agents
    BY DEF OldestUnused, Unused, TypeOK
  <2> DEFINE gone == [challenges[victim] EXCEPT !.state = "evicted"]
  <2>3. gone \in ChallengeRow /\ gone.fingerprint \in Agents
    BY <2>2 DEF TypeOK, ChallengeRow
  <2>4. challenges' = [[challenges EXCEPT ![victim] = gone] EXCEPT ![c] = row]
    BY <1>4, <2>2 DEF TypeOK
  <2>5. ChallengesOK'
    BY <1>1, <2>2, <2>3, <2>4 DEF TypeOK, ChallengesOK
  <2> QED
    BY <2>1, <2>5
<1> QED
  BY <1>3, <1>4 DEF InsertChallenge

LEMMA TypeParts ==
  TypeOK <=> /\ agents \in [Agents -> AgentRow]
             /\ ChallengesOK
             /\ log \in Seq(LogEntry)
             /\ clock \in Nat
             /\ RequestOK
BY DEF TypeOK, ChallengesOK, RequestOK

\* The parts of the type invariant, and of its next value.
LEMMA NextTypeParts ==
  TypeOK' <=> /\ agents' \in [Agents -> AgentRow]
              /\ ChallengesOK'
              /\ log' \in Seq(LogEntry)
              /\ clock' \in Nat
              /\ RequestOK'
BY DEF TypeOK, ChallengesOK, RequestOK

LEMMA StepType == TypeOK /\ [Next]_vars => TypeOK'
<1> SUFFICES ASSUME TypeOK, [Next]_vars PROVE TypeOK'
  OBVIOUS
<1>0. /\ agents \in [Agents -> AgentRow]
      /\ ChallengesOK
      /\ log \in Seq(LogEntry)
      /\ clock \in Nat
      /\ RequestOK
  BY TypeParts
<1>a. ASSUME UNCHANGED challenges PROVE ChallengesOK'
  BY <1>0, <1>a DEF ChallengesOK
<1>b. ASSUME UNCHANGED req PROVE RequestOK'
  BY <1>0, <1>b DEF RequestOK
<1>1. ASSUME NEW t \in Threads, NEW fp \in Agents, NEW c \in ChallengeIds, SubmitRead(t, fp, c)
      PROVE  TypeOK'
  <2> DEFINE r == [pc |-> "submit", fingerprint |-> fp, challenge |-> c, since |-> clock,
                   until |-> IF agents[fp].status = "listed" /\ ~agents[fp].is_history
                             THEN agents[fp].expires ELSE 0]
  <2>1. r \in RequestRec
    BY <1>0 DEF RequestRec, AgentRow, OnAgent, OnChallenge
  <2>2. Start(t, r)
    BY <1>1 DEF SubmitRead
  <2>3. RequestOK'
    BY <2>1, <2>2, StartType
  <2> QED
    BY <1>1, <1>0, <1>a, <2>3, NextTypeParts DEF SubmitRead
<1>2. ASSUME NEW t \in Threads, NEW fp \in Agents, HeartbeatRead(t, fp)
      PROVE  TypeOK'
  <2>1. PICK pc \in {"heartbeat", "heartbeat_legacy"} :
          Start(t, [pc |-> pc, fingerprint |-> fp, challenge |-> NoChallenge,
                    until |-> 0, since |-> clock])
    BY <1>2 DEF HeartbeatRead
  <2>2. [pc |-> pc, fingerprint |-> fp, challenge |-> NoChallenge,
         until |-> 0, since |-> clock] \in RequestRec
    BY <1>0 DEF RequestRec, OnAgent
  <2>3. RequestOK'
    BY <2>1, <2>2, StartType DEF OnChallenge
  <2> QED
    BY <1>2, <1>0, <1>a, <2>3, NextTypeParts DEF HeartbeatRead
<1>3. ASSUME NEW t \in Threads, NEW fp \in Agents, UnsuspendStart(t, fp)
      PROVE  TypeOK'
  <2>1. [pc |-> "unsuspend", fingerprint |-> fp, challenge |-> NoChallenge,
         until |-> 0, since |-> clock] \in RequestRec
    BY <1>0 DEF RequestRec, OnAgent
  <2>2. RequestOK'
    BY <1>3, <2>1, StartType DEF UnsuspendStart, OnChallenge
  <2> QED
    BY <1>3, <1>0, <1>a, <2>2, NextTypeParts DEF UnsuspendStart
<1>4. ASSUME NEW t \in Threads, NEW c \in ChallengeIds, CompleteRead(t, c)
      PROVE  TypeOK'
  <2>1. challenges[c].fingerprint \in Agents
    BY <1>0, <1>4 DEF ChallengesOK, CompleteRead
  <2>2. [pc |-> "complete", fingerprint |-> challenges[c].fingerprint,
         challenge |-> c, until |-> 0, since |-> clock] \in RequestRec
    BY <1>0, <2>1 DEF RequestRec, OnAgent, OnChallenge
  <2>3. RequestOK'
    BY <1>4, <2>1, <2>2, StartType DEF CompleteRead
  <2> QED
    BY <1>4, <1>0, <1>a, <2>3, NextTypeParts DEF CompleteRead
<1>5. ASSUME NEW t \in Threads, SearchStart(t)
      PROVE  TypeOK'
  <2>1. [pc |-> "search", fingerprint |-> NoAgent, challenge |-> NoChallenge,
         until |-> 0, since |-> clock] \in RequestRec
    BY <1>0 DEF RequestRec
  <2>2. RequestOK'
    BY <1>5, <2>1, StartType DEF SearchStart, OnAgent, OnChallenge
  <2> QED
    BY <1>5, <1>0, <1>a, <2>2, NextTypeParts DEF SearchStart
<1>6. ASSUME NEW t \in Threads, SubmitPrune(t)
      PROVE  TypeOK'
  <2>1. RequestOK'
    BY <1>6, AdvanceType DEF SubmitPrune, OnChallenge
  <2>2. PICK now : Prune(now)
    BY <1>6 DEF SubmitPrune
  <2> QED
    BY <1>6, <1>0, <1>a, <2>1, <2>2, PruneType, NextTypeParts DEF SubmitPrune
<1>7. ASSUME NEW t \in Threads, SubmitCount(t)
      PROVE  TypeOK'
  <2>1. RequestOK'
    BY <1>7, FinishType, AdvanceType DEF SubmitCount, OnChallenge
  <2> QED
    BY <1>7, <1>0, <1>a, <2>1, NextTypeParts DEF SubmitCount
<1>8. ASSUME NEW t \in Threads, SubmitInsert(t)
      PROVE  TypeOK'
  <2>1. req[t].challenge \in ChallengeIds /\ req[t].fingerprint \in Agents
    BY <1>8, <1>0 DEF SubmitInsert, RequestOK, OnAgent, OnChallenge
  <2>2. PICK now \in ReadClock(t) :
          InsertChallenge(req[t].challenge, req[t].fingerprint, now)
    BY <1>8 DEF SubmitInsert
  <2>3. ChallengesOK' /\ log' \in Seq(LogEntry)
    BY <2>1, <2>2, ReadClockType, InsertType
  <2>4. RequestOK'
    BY <1>8, FinishType DEF SubmitInsert
  <2> QED
    BY <1>8, <1>0, <2>3, <2>4, NextTypeParts DEF SubmitInsert
<1>9. ASSUME NEW t \in Threads, CompleteCommit(t)
      PROVE  TypeOK'
  <2> DEFINE fp == req[t].fingerprint
             c == req[t].challenge
             ev == IF Live(agents[fp], clock) THEN "register.updated" ELSE "register.completed"
  <2>1. c \in ChallengeIds /\ fp \in Agents
    BY <1>9, <1>0 DEF CompleteCommit, RequestOK, OnAgent, OnChallenge
  <2>2. RequestOK'
    BY <1>9, FinishType DEF CompleteCommit
  <2>3. CASE UNCHANGED <<agents, challenges, log>>
    BY <1>9, <1>0, <1>a, <2>2, <2>3, NextTypeParts DEF CompleteCommit
  <2>4. CASE Registered(c, fp)
    <3>1. Entry(ev, fp, c) \in LogEntry
      BY <2>1, EntryType DEF Events
    <3>2. Upserted(agents[fp]) \in AgentRow
      BY <1>0, <2>1, ConstantsAssumption DEF Upserted, AgentRow, Statuses, ConstantsAssumption
    <3> DEFINE row == [challenges[c] EXCEPT !.state = "used"]
    <3>3. row \in ChallengeRow /\ row.fingerprint \in Agents
      BY <1>0, <2>1, <2>4 DEF ChallengesOK, Registered, StillUnused, ChallengeRow
    <3>4. challenges' = [challenges EXCEPT ![c] = row]
      BY <2>1, <2>4 DEF Registered
    <3>5. ChallengesOK'
      BY <1>0, <2>1, <3>3, <3>4 DEF ChallengesOK
    <3>6. agents' \in [Agents -> AgentRow] /\ log' \in Seq(LogEntry)
      BY <1>0, <2>1, <2>4, <3>1, <3>2 DEF Registered
    <3> QED
      BY <1>9, <1>0, <2>2, <3>5, <3>6, NextTypeParts DEF CompleteCommit
  <2> QED
    BY <1>9, <2>3, <2>4 DEF CompleteCommit
<1>10. ASSUME NEW t \in Threads, HeartbeatCommit(t)
      PROVE  TypeOK'
  <2> DEFINE fp == req[t].fingerprint
             ev == IF req[t].pc = "heartbeat" THEN "heartbeat.ok"
                   ELSE "heartbeat.legacy_unsigned"
  <2>1. fp \in Agents
    BY <1>10, <1>0 DEF HeartbeatCommit, RequestOK, OnAgent
  <2>2. RequestOK'
    BY <1>10, FinishType DEF HeartbeatCommit
  <2>3. CASE UNCHANGED <<agents, log>>
    BY <1>10, <1>0, <1>a, <2>2, <2>3, NextTypeParts DEF HeartbeatCommit
  <2>4. ASSUME NEW now \in ReadClock(t), Renewed(fp, ev, now)
        PROVE  agents' \in [Agents -> AgentRow] /\ log' \in Seq(LogEntry)
    <3>1. Entry(ev, fp, NoChallenge) \in LogEntry
      BY <2>1, EntryType DEF Events
    <3>2. agents[fp] \in AgentRow /\ now + TTL \in Nat
      <4>1. now \in Nat /\ TTL \in Nat
        BY <2>4, ReadClockType, ConstantsAssumption DEF ConstantsAssumption
      <4> QED
        BY <1>0, <2>1, <4>1
    <3>3. [agents[fp] EXCEPT !.expires = now + TTL] \in AgentRow
      BY <3>2 DEF AgentRow
    <3>4. agents' = [agents EXCEPT ![fp] = [agents[fp] EXCEPT !.expires = now + TTL]]
      BY <1>0, <2>1, <2>4 DEF Renewed
    <3> QED
      BY <1>0, <2>1, <2>4, <3>1, <3>3, <3>4 DEF Renewed
  <2>5. /\ UNCHANGED <<agents, log>> \/ \E now \in ReadClock(t) : Renewed(fp, ev, now)
        /\ UNCHANGED <<challenges, clock>>
    BY <1>10 DEF HeartbeatCommit
  <2> QED
    BY <1>0, <1>a, <2>2, <2>3, <2>4, <2>5, NextTypeParts
<1>11. ASSUME NEW t \in Threads, SearchPrune(t)
      PROVE  TypeOK'
  <2>1. PICK now : Prune(now)
    BY <1>11 DEF SearchPrune
  <2>2. RequestOK'
    BY <1>11, FinishType DEF SearchPrune
  <2> QED
    BY <1>11, <1>0, <1>a, <2>1, <2>2, PruneType, NextTypeParts DEF SearchPrune
<1>12. ASSUME NEW t \in Threads, UnsuspendCommit(t)
      PROVE  TypeOK'
  <2> DEFINE fp == req[t].fingerprint
  <2>1. fp \in Agents
    BY <1>12, <1>0 DEF UnsuspendCommit, RequestOK, OnAgent
  <2>2. RequestOK'
    BY <1>12, FinishType DEF UnsuspendCommit
  <2>3. CASE UNCHANGED <<agents, log>>
    BY <1>12, <1>0, <1>a, <2>2, <2>3, NextTypeParts DEF UnsuspendCommit
  <2>4. ASSUME NEW now \in ReadClock(t), Reinstated(fp, now)
        PROVE  agents' \in [Agents -> AgentRow] /\ log' \in Seq(LogEntry)
    <3>1. Entry("moderator.unsuspend", fp, NoChallenge) \in LogEntry
      BY <2>1, EntryType DEF Events
    <3>2. agents[fp] \in AgentRow /\ now + TTL \in Nat
      <4>1. now \in Nat /\ TTL \in Nat
        BY <2>4, ReadClockType, ConstantsAssumption DEF ConstantsAssumption
      <4> QED
        BY <1>0, <2>1, <4>1
    <3> DEFINE row == [agents[fp] EXCEPT !.status = "listed", !.is_history = FALSE,
                                         !.expires = now + TTL]
    <3>3. row \in AgentRow
      BY <3>2 DEF AgentRow, Statuses
    <3>4. agents' = [agents EXCEPT ![fp] = row]
      BY <1>0, <2>1, <2>4, <3>2 DEF Reinstated, AgentRow
    <3> QED
      BY <1>0, <2>1, <2>4, <3>1, <3>3, <3>4 DEF Reinstated
  <2>5. /\ UNCHANGED <<agents, log>> \/ \E now \in ReadClock(t) : Reinstated(fp, now)
        /\ UNCHANGED <<challenges, clock>>
    BY <1>12 DEF UnsuspendCommit
  <2> QED
    BY <1>0, <1>a, <2>2, <2>3, <2>4, <2>5, NextTypeParts
<1>13. ASSUME NEW fp \in Agents, Suspend(fp)
      PROVE  TypeOK'
  <2>1. Entry("moderator.suspend", fp, NoChallenge) \in LogEntry
    BY EntryType DEF Events
  <2>2. agents' \in [Agents -> AgentRow] /\ log' \in Seq(LogEntry)
    BY <1>13, <1>0, <2>1 DEF Suspend, AgentRow, Statuses
  <2> QED
    BY <1>13, <1>0, <1>a, <1>b, <2>2, NextTypeParts DEF Suspend
<1>14. CASE Restart
  <2>1. RequestOK'
    BY <1>14, ConstantsAssumption DEF Restart, Idle, RequestRec, RequestOK, OnAgent, OnChallenge
  <2>2. PICK now : Prune(now)
    BY <1>14 DEF Restart
  <2> QED
    BY <1>14, <1>0, <1>a, <2>1, <2>2, PruneType, NextTypeParts DEF Restart
<1>15. CASE Tick
  BY <1>15, <1>0, <1>a, <1>b, NextTypeParts DEF Tick
<1>16. CASE UNCHANGED vars
  BY <1>16, <1>0, <1>a, <1>b, NextTypeParts DEF vars
<1> QED
  BY <1>1, <1>2, <1>3, <1>4, <1>5, <1>6, <1>7, <1>8, <1>9, <1>10, <1>11, <1>12,
     <1>13, <1>14, <1>15, <1>16 DEF Next, Request, Serve

\* Every state the directory reaches is well formed.
THEOREM TypeCorrect == Spec => []TypeOK
BY InitType, StepType, PTL DEF Spec

-----------------------------------------------------------------------------
(* Requests in flight.  A new challenge id is nobody else's until its row  *)
(* is inserted, and a completion acts on a challenge of its own agent.     *)

\* "verify" is that of a request for a domain token (module DomainVerification).
Submitting == {"submit", "count", "insert", "verify"}

Reserved ==
  \A t \in Threads :
    /\ req[t].pc \in Submitting =>
         /\ challenges[req[t].challenge].state = "fresh"
         /\ \A u \in Threads \ {t} : req[u].challenge # req[t].challenge
    /\ req[t].pc = "complete" =>
         /\ challenges[req[t].challenge].state # "fresh"
         /\ challenges[req[t].challenge].fingerprint = req[t].fingerprint

\* A request that starts without a challenge disturbs no other.
LEMMA ReservedStart ==
  ASSUME TypeOK, Reserved, UNCHANGED challenges,
         NEW t \in Threads, NEW r \in RequestRec, Start(t, r),
         r.challenge = NoChallenge, r.pc \notin OnChallenge
  PROVE  Reserved'
<1>1. \A u \in Threads : req'[u] = IF u = t THEN r ELSE req[u]
  BY DEF Start, TypeOK
<1>2. \A u \in Threads : req[u].pc \in Submitting => req[u].challenge # NoChallenge
  BY ConstantsAssumption DEF TypeOK, Submitting, OnChallenge, ConstantsAssumption
<1>3. r.pc \notin Submitting /\ r.pc # "complete"
  BY DEF Submitting, OnChallenge
<1> QED
  BY <1>1, <1>2, <1>3 DEF Reserved

\* An unissued challenge stays so unless request t inserts it; an issued one
\* stays issued, to the same agent.
ChallengesKept(t) ==
  \A c \in ChallengeIds :
    /\ challenges[c].state = "fresh" =>
         challenges'[c].state = "fresh" \/ (req[t].pc \in Submitting /\ req[t].challenge = c)
    /\ challenges[c].state # "fresh" =>
         /\ challenges'[c].state # "fresh"
         /\ challenges'[c].fingerprint = challenges[c].fingerprint

\* Nor does one that ends, if it leaves the rows of the others' challenges alone.
LEMMA ReservedFinish ==
  ASSUME TypeOK, Reserved, NEW t \in Threads, Finish(t),
         ChallengesKept(t)
  PROVE  Reserved'
<1>1. /\ \A u \in Threads : req'[u] = IF u = t THEN Idle ELSE req[u]
      /\ Idle.pc = "idle" /\ Idle.challenge = NoChallenge
  BY DEF Finish, TypeOK, Idle
<1>2. \A u \in Threads : req[u].pc \in Submitting \cup {"complete"} =>
                           req[u].challenge \in ChallengeIds
  BY DEF TypeOK, Submitting, OnChallenge
<1>3. ASSUME NEW u \in Threads, req'[u].pc \in Submitting
      PROVE  /\ challenges'[req'[u].challenge].state = "fresh"
             /\ \A v \in Threads \ {u} : req'[v].challenge # req'[u].challenge
  <2>1. u # t /\ req'[u] = req[u]
    BY <1>1, <1>3 DEF Submitting
  <2>2. /\ req[u].challenge \in ChallengeIds
        /\ challenges[req[u].challenge].state = "fresh"
        /\ \A v \in Threads \ {u} : req[v].challenge # req[u].challenge
    BY <1>2, <1>3, <2>1 DEF Reserved
  <2> QED
    BY <1>1, <2>1, <2>2, ConstantsAssumption DEF ConstantsAssumption, ChallengesKept
<1>4. ASSUME NEW u \in Threads, req'[u].pc = "complete"
      PROVE  /\ challenges'[req'[u].challenge].state # "fresh"
             /\ challenges'[req'[u].challenge].fingerprint = req'[u].fingerprint
  <2>1. u # t /\ req'[u] = req[u]
    BY <1>1, <1>4
  <2>2. /\ req[u].challenge \in ChallengeIds
        /\ challenges[req[u].challenge].state # "fresh"
        /\ challenges[req[u].challenge].fingerprint = req[u].fingerprint
    BY <1>2, <1>4, <2>1 DEF Reserved
  <2> QED
    BY <2>1, <2>2 DEF ChallengesKept
<1> QED
  BY <1>3, <1>4 DEF Reserved

\* A registration that goes on keeps its reservation.
LEMMA ReservedAdvance ==
  ASSUME TypeOK, Reserved, UNCHANGED challenges,
         NEW t \in Threads, req[t].pc \in Submitting, NEW pc \in Submitting,
         req' = [req EXCEPT ![t].pc = pc, ![t].since = clock]
  PROVE  Reserved'
<1>1. /\ \A u \in Threads : req'[u].challenge = req[u].challenge
      /\ \A u \in Threads : u # t => req'[u] = req[u]
      /\ req'[t].pc = pc
  BY DEF TypeOK, RequestRec
<1>2. pc # "complete"
  BY DEF Submitting
<1>3. /\ challenges'[req'[t].challenge].state = "fresh"
      /\ \A u \in Threads \ {t} : req'[u].challenge # req'[t].challenge
  BY <1>1 DEF Reserved
<1>4. ASSUME NEW u \in Threads, u # t
      PROVE  /\ req'[u].pc \in Submitting =>
                  /\ challenges'[req'[u].challenge].state = "fresh"
                  /\ \A v \in Threads \ {u} : req'[v].challenge # req'[u].challenge
             /\ req'[u].pc = "complete" =>
                  /\ challenges'[req'[u].challenge].state # "fresh"
                  /\ challenges'[req'[u].challenge].fingerprint = req'[u].fingerprint
  <2>1. req'[u] = req[u]
    BY <1>1, <1>4
  <2>2. ASSUME req'[u].pc \in Submitting
        PROVE  /\ challenges'[req'[u].challenge].state = "fresh"
               /\ \A v \in Threads \ {u} : req'[v].challenge # req'[u].challenge
    BY <1>1, <2>1, <2>2 DEF Reserved
  <2>3. ASSUME req'[u].pc = "complete"
        PROVE  /\ challenges'[req'[u].challenge].state # "fresh"
               /\ challenges'[req'[u].challenge].fingerprint = req'[u].fingerprint
    BY <2>1, <2>3 DEF Reserved
  <2> QED
    BY <2>2, <2>3
<1> QED
  BY <1>1, <1>2, <1>3, <1>4 DEF Reserved

-----------------------------------------------------------------------------
(* What a step does to the tables, whichever request it serves.            *)

\* The clock moves, or only a request does.
Quiet == UNCHANGED <<agents, challenges, log>> /\ clock' \in {clock, clock + 1}

Suspended(fp) ==
  /\ agents[fp].status # "absent"
  /\ agents' = [agents EXCEPT ![fp].status = "suspended"]
  /\ log' = Append(log, Entry("moderator.suspend", fp, NoChallenge))

Heartbeats == {"heartbeat.ok", "heartbeat.legacy_unsigned"}

Completing(c) == \E t \in Threads : req[t].pc = "complete" /\ req[t].challenge = c

Effect ==
  \/ Quiet
  \/ /\ UNCHANGED clock
     /\ \/ \E now \in Nat : now <= clock /\ Prune(now) /\ UNCHANGED challenges
        \/ \E c \in ChallengeIds, fp \in Agents, now \in Nat :
             /\ now <= clock
             /\ challenges[c].state = "fresh"
             /\ InsertChallenge(c, fp, now)
             /\ UNCHANGED agents
        \/ \E c \in ChallengeIds, fp \in Agents :
             challenges[c].fingerprint = fp /\ Completing(c) /\ Registered(c, fp)
        \/ \E fp \in Agents, ev \in Heartbeats, now \in Nat :
             now <= clock /\ Renewed(fp, ev, now) /\ UNCHANGED challenges
        \/ \E fp \in Agents : Suspended(fp) /\ UNCHANGED challenges
        \/ \E fp \in Agents, now \in Nat :
             now <= clock /\ Reinstated(fp, now) /\ UNCHANGED challenges

\* Every step has one of these effects and keeps the reservations.
LEMMA StepEffect == TypeOK /\ Reserved /\ [Next]_vars => Effect /\ Reserved'
<1> SUFFICES ASSUME TypeOK, Reserved, [Next]_vars PROVE Effect /\ Reserved'
  OBVIOUS
<1>0. clock \in Nat
  BY DEF TypeOK
<1>a. ASSUME UNCHANGED <<req, challenges>> PROVE Reserved'
  BY <1>a DEF Reserved
<1>b. ASSUME NEW t \in Threads, Finish(t), UNCHANGED challenges PROVE Reserved'
  BY <1>b, ReservedFinish DEF ChallengesKept
<1>1. ASSUME NEW t \in Threads, NEW fp \in Agents, NEW c \in ChallengeIds, SubmitRead(t, fp, c)
      PROVE  Effect /\ Reserved'
  <2>1. \A u \in Threads : /\ u # t => req'[u] = req[u]
                           /\ req'[t].challenge = c /\ req'[t].pc = "submit"
                           /\ req[u].challenge # c
    BY <1>1 DEF SubmitRead, Start, TypeOK
  <2>2. UNCHANGED <<agents, challenges, log, clock>> /\ challenges[c].state = "fresh"
    BY <1>1 DEF SubmitRead
  <2>3. Reserved'
    BY <2>1, <2>2 DEF Reserved, Submitting
  <2> QED
    BY <2>2, <2>3 DEF Effect, Quiet
<1>2. ASSUME NEW t \in Threads, NEW fp \in Agents, HeartbeatRead(t, fp)
      PROVE  Effect /\ Reserved'
  <2>1. PICK pc \in {"heartbeat", "heartbeat_legacy"} :
          Start(t, [pc |-> pc, fingerprint |-> fp, challenge |-> NoChallenge,
                    until |-> 0, since |-> clock])
    BY <1>2 DEF HeartbeatRead
  <2>2. [pc |-> pc, fingerprint |-> fp, challenge |-> NoChallenge,
         until |-> 0, since |-> clock] \in RequestRec
    BY <1>0 DEF RequestRec, OnAgent
  <2>3. UNCHANGED <<agents, challenges, log, clock>>
    BY <1>2 DEF HeartbeatRead
  <2>4. Reserved'
    BY <2>1, <2>2, <2>3, ReservedStart DEF OnChallenge
  <2> QED
    BY <2>3, <2>4 DEF Effect, Quiet
<1>3. ASSUME NEW t \in Threads, NEW fp \in Agents, UnsuspendStart(t, fp)
      PROVE  Effect /\ Reserved'
  <2>1. [pc |-> "unsuspend", fingerprint |-> fp, challenge |-> NoChallenge,
         until |-> 0, since |-> clock] \in RequestRec
    BY <1>0 DEF RequestRec, OnAgent
  <2>2. Reserved'
    BY <1>3, <2>1, ReservedStart DEF UnsuspendStart, OnChallenge
  <2> QED
    BY <1>3, <2>2 DEF Effect, Quiet, UnsuspendStart
<1>4. ASSUME NEW t \in Threads, NEW c \in ChallengeIds, CompleteRead(t, c)
      PROVE  Effect /\ Reserved'
  <2>1. \A u \in Threads : /\ u # t => req'[u] = req[u]
                           /\ req'[t].pc = "complete" /\ req'[t].challenge = c
                           /\ req'[t].fingerprint = challenges[c].fingerprint
    BY <1>4 DEF CompleteRead, Start, TypeOK
  <2>2. /\ UNCHANGED <<agents, challenges, log, clock>>
        /\ challenges[c].state # "fresh"
    BY <1>4 DEF CompleteRead
  <2>3. Reserved'
    BY <2>1, <2>2 DEF Reserved, Submitting
  <2> QED
    BY <2>2, <2>3 DEF Effect, Quiet
<1>5. ASSUME NEW t \in Threads, SearchStart(t)
      PROVE  Effect /\ Reserved'
  <2>1. [pc |-> "search", fingerprint |-> NoAgent, challenge |-> NoChallenge,
         until |-> 0, since |-> clock] \in RequestRec
    BY <1>0 DEF RequestRec
  <2>2. Reserved'
    BY <1>5, <2>1, ReservedStart DEF SearchStart, OnChallenge
  <2> QED
    BY <1>5, <2>2 DEF Effect, Quiet, SearchStart
<1>6. ASSUME NEW t \in Threads, SubmitPrune(t)
      PROVE  Effect /\ Reserved'
  <2>1. PICK now \in ReadClock(t) : Prune(now)
    BY <1>6 DEF SubmitPrune
  <2>2. Reserved'
    BY <1>6, ReservedAdvance DEF SubmitPrune, Submitting
  <2> QED
    BY <1>6, <2>1, <2>2, ReadClockType DEF Effect, SubmitPrune
<1>7. ASSUME NEW t \in Threads, SubmitCount(t)
      PROVE  Effect /\ Reserved'
  <2>1. Reserved'
    BY <1>7, <1>b, ReservedAdvance DEF SubmitCount, Submitting
  <2> QED
    BY <1>7, <2>1 DEF Effect, Quiet, SubmitCount
<1>8. ASSUME NEW t \in Threads, SubmitInsert(t)
      PROVE  Effect /\ Reserved'
  <2> DEFINE c == req[t].challenge
             fp == req[t].fingerprint
  <2>1. /\ c \in ChallengeIds /\ fp \in Agents
        /\ req[t].pc \in Submitting
        /\ challenges[c].state = "fresh"
    BY <1>8 DEF SubmitInsert, TypeOK, OnAgent, OnChallenge, Submitting, Reserved
  <2>2. PICK now \in ReadClock(t) : InsertChallenge(c, fp, now)
    BY <1>8 DEF SubmitInsert
  <2>3. \A d \in ChallengeIds : d # c =>
          /\ challenges[d].state = "fresh" => challenges'[d].state = "fresh"
          /\ challenges[d].state # "fresh" => challenges'[d].state # "fresh"
          /\ challenges'[d].fingerprint = challenges[d].fingerprint
    BY <2>1, <2>2 DEF InsertChallenge, OldestUnused, Unused, TypeOK, ChallengeRow
  <2>4. ChallengesKept(t)
    BY <2>1, <2>3 DEF ChallengesKept
  <2>5. Reserved'
    BY <1>8, <2>4, ReservedFinish DEF SubmitInsert
  <2> QED
    BY <1>8, <2>1, <2>2, <2>5, ReadClockType DEF Effect, SubmitInsert
<1>9. ASSUME NEW t \in Threads, CompleteCommit(t)
      PROVE  Effect /\ Reserved'
  <2> DEFINE c == req[t].challenge
             fp == req[t].fingerprint
  <2>1. /\ c \in ChallengeIds /\ fp \in Agents
        /\ challenges[c].state # "fresh" /\ challenges[c].fingerprint = fp
    BY <1>9 DEF CompleteCommit, TypeOK, OnAgent, OnChallenge, Reserved
  <2>2. CASE Registered(c, fp)
    <3>1. \A d \in ChallengeIds :
            /\ challenges[d].state = "fresh" => challenges'[d].state = "fresh"
            /\ challenges[d].state # "fresh" => challenges'[d].state # "fresh"
            /\ challenges'[d].fingerprint = challenges[d].fingerprint
      BY <2>1, <2>2 DEF Registered, TypeOK, ChallengeRow
    <3>2. ChallengesKept(t)
      BY <3>1 DEF ChallengesKept
    <3>3. Reserved'
      BY <1>9, <3>2, ReservedFinish DEF CompleteCommit
    <3> QED
      BY <1>9, <2>1, <2>2, <3>3 DEF Effect, CompleteCommit, Completing
  <2>3. CASE UNCHANGED <<agents, challenges, log>>
    BY <1>9, <1>b, <2>3 DEF Effect, Quiet, CompleteCommit
  <2> QED
    BY <1>9, <2>2, <2>3 DEF CompleteCommit
<1>10. ASSUME NEW t \in Threads, HeartbeatCommit(t)
      PROVE  Effect /\ Reserved'
  <2> DEFINE fp == req[t].fingerprint
             ev == IF req[t].pc = "heartbeat" THEN "heartbeat.ok"
                   ELSE "heartbeat.legacy_unsigned"
  <2>1. fp \in Agents /\ ev \in Heartbeats
    BY <1>10 DEF HeartbeatCommit, TypeOK, OnAgent, Heartbeats
  <2>2. /\ UNCHANGED <<agents, log>> \/ \E now \in ReadClock(t) : Renewed(fp, ev, now)
        /\ UNCHANGED <<challenges, clock>> /\ Finish(t)
    BY <1>10 DEF HeartbeatCommit
  <2>3. Reserved'
    BY <1>b, <2>2
  <2> HIDE DEF fp, ev
  <2> QED
    BY <2>1, <2>2, <2>3, ReadClockType DEF Effect, Quiet
<1>11. ASSUME NEW t \in Threads, SearchPrune(t)
      PROVE  Effect /\ Reserved'
  <2>1. PICK now \in ReadClock(t) : Prune(now)
    BY <1>11 DEF SearchPrune
  <2> QED
    BY <1>11, <1>b, <2>1, ReadClockType DEF Effect, SearchPrune
<1>12. ASSUME NEW t \in Threads, UnsuspendCommit(t)
      PROVE  Effect /\ Reserved'
  <2> DEFINE fp == req[t].fingerprint
  <2>1. fp \in Agents
    BY <1>12 DEF UnsuspendCommit, TypeOK, OnAgent
  <2>2. /\ UNCHANGED <<agents, log>> \/ \E now \in ReadClock(t) : Reinstated(fp, now)
        /\ UNCHANGED <<challenges, clock>> /\ Finish(t)
    BY <1>12 DEF UnsuspendCommit
  <2>3. Reserved'
    BY <1>b, <2>2
  <2> HIDE DEF fp
  <2> QED
    BY <2>1, <2>2, <2>3, ReadClockType DEF Effect, Quiet
<1>13. ASSUME NEW fp \in Agents, Suspend(fp)
      PROVE  Effect /\ Reserved'
  BY <1>13, <1>a DEF Effect, Suspend, Suspended
<1>14. CASE Restart
  <2>1. Reserved'
    BY <1>14 DEF Restart, Reserved, Idle, Submitting
  <2>2. PICK now \in Nat : now = clock
    BY <1>0
  <2> QED
    BY <1>14, <2>1, <2>2 DEF Effect, Restart
<1>15. CASE Tick
  BY <1>15, <1>a DEF Tick, Effect, Quiet
<1>16. CASE UNCHANGED vars
  BY <1>16, <1>a DEF vars, Effect, Quiet
<1> QED
  BY <1>1, <1>2, <1>3, <1>4, <1>5, <1>6, <1>7, <1>8, <1>9, <1>10, <1>11, <1>12,
     <1>13, <1>14, <1>15, <1>16 DEF Next, Request, Serve

-----------------------------------------------------------------------------
(* The inductive base: types and reservations.                             *)

\* Every reachable state is well formed, and no two requests hold the same
\* new challenge id.
THEOREM BaseCorrect == Spec => [](TypeOK /\ Reserved)
<1>1. Init => TypeOK /\ Reserved
  BY InitType DEF Init, Reserved, Idle, Submitting
<1>2. TypeOK /\ Reserved /\ [Next]_vars => (TypeOK /\ Reserved)'
  BY StepType, StepEffect
<1> QED
  BY <1>1, <1>2, PTL DEF Spec

-----------------------------------------------------------------------------
(* Directory implements PhoneBook: each effect a step can have on the      *)
(* tables is one action of the phone book, or none.                        *)

theBook == [fp \in Agents |-> agents[fp].status]
theIssued == {c \in ChallengeIds : challenges[c].state # "fresh"}
theOpen == {<<c, challenges[c].fingerprint>> : c \in Unused}

\* A transaction that leaves the challenges alone leaves the tickets alone.
LEMMA SameTickets ==
  ASSUME UNCHANGED challenges
  PROVE  theIssued' = theIssued /\ theOpen' = theOpen
BY DEF theIssued, theOpen, Unused

\* A pending challenge is evicted: its ticket is withdrawn, a new one issued.
LEMMA TicketIssued ==
  ASSUME TypeOK, NEW c \in ChallengeIds, NEW fp \in Agents, NEW now,
         challenges[c].state = "fresh", InsertChallenge(c, fp, now)
  PROVE  /\ c \in ChallengeIds \ theIssued
         /\ theIssued' = theIssued \cup {c}
         /\ \E withdrawn \in SUBSET theOpen : theOpen' = (theOpen \ withdrawn) \cup {<<c, fp>>}
<1> DEFINE row == [state |-> "pending", fingerprint |-> fp,
                   created |-> now, expires |-> now + ChallengeTTL]
<1>0. challenges \in [ChallengeIds -> ChallengeRow] /\ c \notin Unused
  BY DEF TypeOK, Unused
<1>1. CASE challenges' = [challenges EXCEPT ![c] = row]
  <2>1. /\ challenges'[c].state = "pending" /\ challenges'[c].fingerprint = fp
        /\ \A d \in ChallengeIds : d # c => challenges'[d] = challenges[d]
    BY <1>0, <1>1
  <2>2. theIssued' = theIssued \cup {c} /\ c \in ChallengeIds \ theIssued
    BY <2>1 DEF theIssued
  <2>3. Unused' = Unused \cup {c}
    BY <2>1 DEF Unused
  <2>4. theOpen' = (theOpen \ {}) \cup {<<c, fp>>}
    BY <1>0, <2>1, <2>3 DEF theOpen, Unused
  <2> QED
    BY <2>2, <2>4
<1>2. ASSUME NEW victim \in OldestUnused,
             challenges' = [challenges EXCEPT ![victim].state = "evicted", ![c] = row]
      PROVE  /\ c \in ChallengeIds \ theIssued
             /\ theIssued' = theIssued \cup {c}
             /\ theOpen' = (theOpen \ {<<victim, challenges[victim].fingerprint>>}) \cup {<<c, fp>>}
  <2>1. victim \in ChallengeIds /\ victim \in Unused /\ victim # c
    BY <1>0 DEF OldestUnused, Unused
  <2>2. /\ challenges'[c].state = "pending" /\ challenges'[c].fingerprint = fp
        /\ challenges'[victim].state = "evicted"
        /\ \A d \in ChallengeIds : d # c /\ d # victim => challenges'[d] = challenges[d]
    BY <1>0, <1>2, <2>1 DEF ChallengeRow
  <2>3. theIssued' = theIssued \cup {c} /\ c \in ChallengeIds \ theIssued
    BY <2>1, <2>2 DEF theIssued, Unused
  <2>4. Unused' = (Unused \ {victim}) \cup {c}
    BY <2>1, <2>2 DEF Unused
  <2>5. theOpen' = (theOpen \ {<<victim, challenges[victim].fingerprint>>}) \cup {<<c, fp>>}
    BY <1>0, <2>1, <2>2, <2>4 DEF theOpen, Unused
  <2> QED
    BY <2>3, <2>5
<1>3. ASSUME NEW victim \in OldestUnused
      PROVE  {<<victim, challenges[victim].fingerprint>>} \in SUBSET theOpen
  BY DEF OldestUnused, theOpen
<1> QED
  BY <1>1, <1>2, <1>3 DEF InsertChallenge

\* A challenge that lists its agent is a ticket redeemed.
LEMMA TicketRedeemed ==
  ASSUME TypeOK, NEW c \in ChallengeIds, NEW fp \in Agents,
         challenges[c].fingerprint = fp, Registered(c, fp)
  PROVE  /\ <<c, fp>> \in theOpen
         /\ theOpen' = theOpen \ {<<c, fp>>}
         /\ theIssued' = theIssued
         /\ theBook' = [theBook EXCEPT ![fp] = "listed"]
<1>1. /\ c \in Unused
      /\ challenges'[c].state = "used"
      /\ \A d \in ChallengeIds : d # c => challenges'[d] = challenges[d]
  BY DEF Registered, StillUnused, Unused, TypeOK, ChallengeRow
<1>2. Unused' = Unused \ {c}
  BY <1>1 DEF Unused
<1>3. <<c, fp>> \in theOpen
  BY <1>1 DEF theOpen
<1>4. theOpen' = theOpen \ {<<c, fp>>}
  BY <1>1, <1>2 DEF theOpen, Unused
<1>5. theIssued' = theIssued
  BY <1>1 DEF theIssued, Unused
<1>6. /\ agents'[fp].status = "listed"
      /\ \A a \in Agents : a # fp => agents'[a] = agents[a]
  BY DEF Registered, TypeOK, Upserted
<1>7. theBook' = [theBook EXCEPT ![fp] = "listed"]
  BY <1>6 DEF theBook
<1> QED
  BY <1>3, <1>4, <1>5, <1>7

\* The handlers of the directory keep the promises of the phone book.
THEOREM DirectoryImplementsPhoneBook == Spec => ImplementsPhoneBook
<1> USE DEF theBook, theIssued, theOpen
<1>1. Init => Book!Init
  BY DEF Init, Book!Init, NoRow, NoChallengeRow, Unused
<1>2. ASSUME TypeOK, Reserved, [Next]_vars
      PROVE  [Book!Next]_(Book!vars)
  <2>0. Effect /\ agents \in [Agents -> AgentRow]
    BY <1>2, StepEffect DEF TypeOK
  <2>1. CASE Quiet
    BY <2>1 DEF Quiet, Book!vars, Unused
  <2>2. ASSUME NEW now \in Nat, Prune(now), UNCHANGED challenges PROVE Book!Next
    <3>1. PICK S \in SUBSET Agents : S = Lapsed(now)
      BY DEF Lapsed
    <3>2. \A fp \in S : agents[fp].status = "listed"
      BY <3>1 DEF Lapsed
    <3>3. \A fp \in Agents :
            agents'[fp].status = IF fp \in S THEN "expired" ELSE agents[fp].status
      BY <2>0, <2>2, <3>1 DEF Prune, AgentRow
    <3>4. Book!Lapse(S)
      BY <2>2, <3>2, <3>3, SameTickets DEF Book!Lapse
    <3> QED
      BY <3>4 DEF Book!Next
  <2>3. ASSUME NEW c \in ChallengeIds, NEW fp \in Agents, NEW now \in Nat,
               challenges[c].state = "fresh", InsertChallenge(c, fp, now), UNCHANGED agents
        PROVE  Book!Next
    <3>1. Book!Issue(c, fp)
      BY <1>2, <2>3, TicketIssued DEF Book!Issue
    <3> QED
      BY <3>1 DEF Book!Next
  <2>4. ASSUME NEW c \in ChallengeIds, NEW fp \in Agents,
               challenges[c].fingerprint = fp, Registered(c, fp)
        PROVE  Book!Next
    <3>1. Book!Redeem(c, fp)
      BY <1>2, <2>4, TicketRedeemed DEF Book!Redeem
    <3> QED
      BY <3>1 DEF Book!Next
  <2>5. ASSUME NEW fp \in Agents, NEW ev \in Heartbeats, NEW now \in Nat,
               Renewed(fp, ev, now), UNCHANGED challenges
        PROVE  UNCHANGED Book!vars
    <3>1. \A a \in Agents : agents'[a].status = agents[a].status
      BY <2>0, <2>5 DEF Renewed, AgentRow
    <3> QED
      BY <2>5, <3>1, SameTickets DEF Book!vars
  <2>6. ASSUME NEW fp \in Agents, Suspended(fp), UNCHANGED challenges
        PROVE  Book!Next
    <3>1. \A a \in Agents :
            agents'[a].status = IF a = fp THEN "suspended" ELSE agents[a].status
      BY <2>0, <2>6 DEF Suspended, AgentRow
    <3>2. Book!Suspend(fp)
      BY <2>6, <3>1, SameTickets DEF Book!Suspend, Suspended
    <3> QED
      BY <3>2 DEF Book!Next
  <2>7. ASSUME NEW fp \in Agents, NEW now \in Nat, Reinstated(fp, now), UNCHANGED challenges
        PROVE  Book!Next
    <3>1. \A a \in Agents :
            agents'[a].status = IF a = fp THEN "listed" ELSE agents[a].status
      BY <2>0, <2>7 DEF Reinstated, AgentRow
    <3>2. Book!Reinstate(fp)
      BY <2>7, <3>1, SameTickets DEF Book!Reinstate, Reinstated, IsSuspended
    <3> QED
      BY <3>2 DEF Book!Next
  <2> QED
    BY <2>0, <2>1, <2>2, <2>3, <2>4, <2>5, <2>6, <2>7 DEF Effect
<1> QED
  BY <1>1, <1>2, BaseCorrect, PTL DEF Spec, ImplementsPhoneBook, Book!Spec

=============================================================================
