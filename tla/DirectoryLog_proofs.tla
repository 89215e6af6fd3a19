------------------------- MODULE DirectoryLog_proofs -------------------------
(***************************************************************************)
(* The audit log and the tables tell the same story: the invariants and    *)
(* the step properties of Directory, for every choice of its constants.    *)
(*                                                                         *)
(* Every proof goes through one description of a step, seen from an agent: *)
(* either the step leaves its row and its history alone, or it writes      *)
(* exactly one entry about it, and the entry's event says how the row      *)
(* changes (AgentStep).                                                    *)
(***************************************************************************)
EXTENDS Directory_proofs

-----------------------------------------------------------------------------
(* The step, as one agent sees it.                                         *)

LEMMA EntryFields ==
  \A e, fp, c : /\ Entry(e, fp, c).event = e
                /\ Entry(e, fp, c).fingerprint = fp
                /\ Entry(e, fp, c).challenge = c
                /\ Entry(e, fp, c).ts = clock
BY DEF Entry

\* What an entry may say of an agent: of its listing, or that a domain was verified.
Told == StatusEvents \cup Renewals \cup {"domain.verified"}

\* How the row of fp changes when the entry e about it is written.
RowChange(e, fp) ==
  \/ /\ e.event = "agent.expired"
     /\ agents[fp].status = "listed" /\ agents'[fp].status = "expired"
     /\ agents'[fp].registered = agents[fp].registered
     /\ agents'[fp].expires = agents[fp].expires
  \/ /\ e.event = "register.completed"
     /\ agents'[fp].status = "listed"
     /\ agents'[fp].registered = clock
     /\ agents'[fp].expires = clock + TTL
  \/ /\ e.event = "register.updated"
     /\ agents[fp].status = "listed" /\ agents'[fp].status = "listed"
     /\ agents'[fp].registered = agents[fp].registered
     /\ agents'[fp].expires = clock + TTL
  \/ /\ e.event \in Heartbeats
     /\ agents[fp].status = "listed" /\ agents'[fp].status = "listed"
     /\ agents'[fp].registered = agents[fp].registered
     /\ \E now \in Nat : now <= clock /\ agents'[fp].expires = now + TTL
  \/ /\ e.event = "moderator.suspend"
     /\ agents[fp].status # "absent" /\ agents'[fp].status = "suspended"
     /\ agents'[fp].registered = agents[fp].registered
     /\ agents'[fp].expires = agents[fp].expires
  \/ /\ e.event = "moderator.unsuspend"
     /\ agents[fp].status = "suspended" /\ agents'[fp].status = "listed"
     /\ agents'[fp].registered = agents[fp].registered
     /\ \E now \in Nat : now <= clock /\ agents'[fp].expires = now + TTL

\* es[k] is the only entry about fp.
OnlyAbout(es, k, fp) ==
  /\ es[k].fingerprint = fp
  /\ \A j \in 1..Len(es) : es[j].fingerprint = fp => j = k

AgentStep(es, fp) ==
  \/ /\ agents'[fp] = agents[fp]
     /\ \A k \in 1..Len(es) : es[k].fingerprint = fp => es[k].event \notin Told
  \/ \E k \in 1..Len(es) :
       /\ OnlyAbout(es, k, fp)
       /\ es[k].ts = clock
       /\ RowChange(es[k], fp)

\* The same, of the entries that say how a row changes.
RowStep(es, fp) ==
  \/ /\ agents'[fp] = agents[fp]
     /\ \A k \in 1..Len(es) : es[k].fingerprint = fp => es[k].event \notin StatusEvents \cup Renewals
  \/ \E k \in 1..Len(es) :
       /\ OnlyAbout(es, k, fp)
       /\ es[k].ts = clock
       /\ RowChange(es[k], fp)

\* A step adds entries with the present time, and they say how each row changes.
Writes ==
  \E es \in Seq(LogEntry) :
    /\ log' = log \o es
    /\ \A k \in 1..Len(es) : es[k].ts = clock
    /\ \A fp \in Agents : RowStep(es, fp)

\* A transaction that appends the one entry e, about agent a, and changes no
\* other agent's row.
LEMMA OneEntry ==
  ASSUME TypeOK, NEW a \in Agents, NEW e \in LogEntry, log' = Append(log, e),
         e.fingerprint = a, e.ts = clock, RowChange(e, a),
         \A fp \in Agents : fp # a => agents'[fp] = agents[fp]
  PROVE  \E es \in Seq(LogEntry) :
           /\ log' = log \o es
           /\ \A k \in 1..Len(es) : es[k].ts = clock
           /\ \A fp \in Agents : AgentStep(es, fp)
<1> DEFINE es == <<e>>
<1>1. es \in Seq(LogEntry) /\ Len(es) = 1 /\ es[1] = e
  OBVIOUS
<1>2. log' = log \o es
  BY DEF TypeOK
<1> HIDE DEF es
<1>3. AgentStep(es, a)
  BY <1>1 DEF AgentStep, OnlyAbout
<1>4. \A fp \in Agents : fp # a => AgentStep(es, fp)
  BY <1>1 DEF AgentStep
<1>5. \A fp \in Agents : AgentStep(es, fp)
  BY <1>3, <1>4
<1>6. \A k \in 1..Len(es) : es[k].ts = clock
  BY <1>1
<1> QED
  BY <1>1, <1>2, <1>5, <1>6

\* What every step adds to the log, and what that says of each agent.
LEMMA StepEntries ==
  ASSUME TypeOK, Effect
  PROVE  \E es \in Seq(LogEntry) :
           /\ log' = log \o es
           /\ \A k \in 1..Len(es) : es[k].ts = clock
           /\ \A fp \in Agents : AgentStep(es, fp)
<1> DEFINE Goal == \E es \in Seq(LogEntry) :
                     /\ log' = log \o es
                     /\ \A k \in 1..Len(es) : es[k].ts = clock
                     /\ \A fp \in Agents : AgentStep(es, fp)
<1>0. /\ clock \in Nat /\ TTL \in Nat
      /\ log \in Seq(LogEntry)
      /\ agents \in [Agents -> AgentRow]
  BY ConstantsAssumption DEF TypeOK, ConstantsAssumption
<1>1. CASE Quiet
  <2> DEFINE es == << >>
  <2>1. es \in Seq(LogEntry) /\ Len(es) = 0 /\ log' = log \o es
    BY <1>0, <1>1 DEF Quiet
  <2> HIDE DEF es
  <2>2. \A fp \in Agents : AgentStep(es, fp)
    BY <1>1, <2>1 DEF Quiet, AgentStep
  <2>3. \A k \in 1..Len(es) : es[k].ts = clock
    BY <2>1
  <2> QED
    BY <2>1, <2>2, <2>3
<1>2. ASSUME NEW now \in Nat, Prune(now) PROVE Goal
  <2>1. PICK es \in Seq(LogEntry) :
          /\ log' = log \o es
          /\ \A i \in 1..Len(es) : \E fp \in Lapsed(now) :
               es[i] = Entry("agent.expired", fp, NoChallenge)
          /\ \A fp \in Lapsed(now) : \E i \in 1..Len(es) :
               /\ es[i] = Entry("agent.expired", fp, NoChallenge)
               /\ \A j \in 1..Len(es) : es[j].fingerprint = fp => j = i
    BY <1>2, PruneAppends
  <2>2. ASSUME NEW fp \in Lapsed(now) PROVE AgentStep(es, fp)
    <3>1. PICK i \in 1..Len(es) : /\ es[i] = Entry("agent.expired", fp, NoChallenge)
                                  /\ \A j \in 1..Len(es) : es[j].fingerprint = fp => j = i
      BY <2>1
    <3>2. agents'[fp].status = "expired" /\ agents[fp].status = "listed"
          /\ agents'[fp].registered = agents[fp].registered
          /\ agents'[fp].expires = agents[fp].expires
      BY <1>0, <1>2 DEF Prune, Lapsed, AgentRow
    <3>3. RowChange(es[i], fp)
      BY <3>1, <3>2, EntryFields DEF RowChange
    <3> QED
      BY <3>1, <3>3, EntryFields DEF AgentStep, OnlyAbout
  <2>3. ASSUME NEW fp \in Agents, fp \notin Lapsed(now) PROVE AgentStep(es, fp)
    <3>1. agents'[fp] = agents[fp]
      BY <1>2, <2>3 DEF Prune
    <3>2. \A k \in 1..Len(es) : es[k].fingerprint # fp
      BY <2>1, <2>3, EntryFields
    <3> QED
      BY <3>1, <3>2 DEF AgentStep
  <2>4. \A k \in 1..Len(es) : es[k].ts = clock
    BY <2>1, EntryFields
  <2> QED
    BY <2>1, <2>2, <2>3, <2>4
<1>3. ASSUME NEW c \in ChallengeIds, NEW a \in Agents, NEW now \in Nat,
             InsertChallenge(c, a, now), UNCHANGED agents
      PROVE  Goal
  <2> DEFINE issued == Entry("register.challenge_issued", a, c)
  <2>1. issued \in LogEntry /\ issued.event \notin Told /\ issued.ts = clock
    BY EntryType, EntryFields DEF Events, Told, StatusEvents, Renewals, Listings
  <2>2. CASE log' = Append(log, issued)
    <3> DEFINE es == <<issued>>
    <3>1. log' = log \o es /\ es \in Seq(LogEntry) /\ Len(es) = 1 /\ es[1] = issued
      BY <1>0, <2>1, <2>2
    <3> HIDE DEF es, issued
    <3>2. \A k \in 1..Len(es) : es[k].event \notin Told /\ es[k].ts = clock
      BY <2>1, <3>1
    <3>3. \A fp \in Agents : AgentStep(es, fp)
      BY <1>3, <3>2 DEF AgentStep
    <3> QED
      BY <3>1, <3>2, <3>3
  <2>3. ASSUME NEW victim \in OldestUnused,
               log' = log \o EvictionEntries(victim) \o <<issued>>
        PROVE  Goal
    <3> DEFINE gone == Entry("challenge.evicted", NoAgent, victim)
               es == <<gone, issued>>
    <3>1. gone \in LogEntry /\ gone.event \notin Told /\ gone.ts = clock
      BY EntryType, EntryFields
         DEF Events, Told, StatusEvents, Renewals, Listings, OldestUnused, Unused
    <3>2. /\ log' = log \o es /\ es \in Seq(LogEntry) /\ Len(es) = 2
          /\ es[1] = gone /\ es[2] = issued
      <4> HIDE DEF gone, issued
      <4>1. log' = log \o <<gone>> \o <<issued>>
        BY <2>3 DEF EvictionEntries, gone
      <4> QED
        BY <1>0, <2>1, <3>1, <4>1
    <3> HIDE DEF es, issued, gone
    <3>3. \A k \in 1..Len(es) : es[k].event \notin Told /\ es[k].ts = clock
      BY <2>1, <3>1, <3>2
    <3>4. \A fp \in Agents : AgentStep(es, fp)
      BY <1>3, <3>3 DEF AgentStep
    <3> QED
      BY <3>2, <3>3, <3>4
  <2> QED
    BY <1>3, <2>2, <2>3 DEF InsertChallenge
<1>4. ASSUME NEW c \in ChallengeIds, NEW a \in Agents, Registered(c, a)
      PROVE  Goal
  <2> DEFINE ev == IF Live(agents[a], clock) THEN "register.updated" ELSE "register.completed"
  <2>1. Entry(ev, a, c) \in LogEntry
    BY EntryType DEF Events
  <2>2. agents'[a] = Upserted(agents[a]) /\ \A fp \in Agents : fp # a => agents'[fp] = agents[fp]
    BY <1>0, <1>4 DEF Registered
  <2>3. RowChange(Entry(ev, a, c), a)
    BY <2>2, EntryFields DEF Upserted, Live, RowChange
  <2>4. log' = Append(log, Entry(ev, a, c))
    BY <1>4 DEF Registered
  <2>5. Entry(ev, a, c).fingerprint = a /\ Entry(ev, a, c).ts = clock
    BY EntryFields
  <2> HIDE DEF ev
  <2> QED
    BY <2>1, <2>2, <2>3, <2>4, <2>5, OneEntry
<1>5. ASSUME NEW a \in Agents, NEW ev \in Heartbeats, NEW now \in Nat, now <= clock,
             Renewed(a, ev, now)
      PROVE  Goal
  <2> DEFINE e == Entry(ev, a, NoChallenge)
  <2>1. e \in LogEntry /\ e.fingerprint = a /\ e.ts = clock
    BY EntryType, EntryFields DEF Events, Heartbeats
  <2>2. /\ agents[a].status = "listed" /\ agents'[a].status = "listed"
        /\ agents'[a].registered = agents[a].registered
        /\ agents'[a].expires = now + TTL
        /\ \A fp \in Agents : fp # a => agents'[fp] = agents[fp]
    BY <1>0, <1>5 DEF Renewed, Live, AgentRow
  <2>3. RowChange(e, a)
    BY <1>5, <2>2, EntryFields DEF RowChange
  <2>4. log' = Append(log, e)
    BY <1>5 DEF Renewed
  <2>5. \A fp \in Agents : fp # a => agents'[fp] = agents[fp]
    BY <2>2
  <2> HIDE DEF e
  <2> QED
    BY <2>1, <2>3, <2>4, <2>5, OneEntry
<1>6. ASSUME NEW a \in Agents, Suspended(a)
      PROVE  Goal
  <2> DEFINE e == Entry("moderator.suspend", a, NoChallenge)
  <2>1. e \in LogEntry
    BY EntryType DEF Events
  <2>2. /\ agents[a].status # "absent" /\ agents'[a].status = "suspended"
        /\ agents'[a].registered = agents[a].registered
        /\ agents'[a].expires = agents[a].expires
        /\ \A fp \in Agents : fp # a => agents'[fp] = agents[fp]
    BY <1>0, <1>6 DEF Suspended, AgentRow
  <2>3. RowChange(e, a)
    BY <2>2, EntryFields DEF RowChange
  <2>4. log' = Append(log, e)
    BY <1>6 DEF Suspended
  <2>5. e.fingerprint = a /\ e.ts = clock
    BY EntryFields
  <2>6. \A fp \in Agents : fp # a => agents'[fp] = agents[fp]
    BY <2>2
  <2> HIDE DEF e
  <2> QED
    BY <2>1, <2>3, <2>4, <2>5, <2>6, OneEntry
<1>7. ASSUME NEW a \in Agents, NEW now \in Nat, now <= clock, Reinstated(a, now)
      PROVE  Goal
  <2> DEFINE e == Entry("moderator.unsuspend", a, NoChallenge)
  <2>1. e \in LogEntry /\ e.fingerprint = a /\ e.ts = clock
    BY EntryType, EntryFields DEF Events
  <2>2. /\ agents[a].status = "suspended" /\ agents'[a].status = "listed"
        /\ agents'[a].registered = agents[a].registered
        /\ agents'[a].expires = now + TTL
        /\ \A fp \in Agents : fp # a => agents'[fp] = agents[fp]
    BY <1>0, <1>7 DEF Reinstated, IsSuspended, AgentRow
  <2>3. RowChange(e, a)
    BY <1>7, <2>2, EntryFields DEF RowChange
  <2>4. log' = Append(log, e)
    BY <1>7 DEF Reinstated
  <2>5. \A fp \in Agents : fp # a => agents'[fp] = agents[fp]
    BY <2>2
  <2> HIDE DEF e
  <2> QED
    BY <2>1, <2>3, <2>4, <2>5, OneEntry
<1> QED
  BY <1>1, <1>2, <1>3, <1>4, <1>5, <1>6, <1>7 DEF Effect

LEMMA EffectWrites ==
  ASSUME TypeOK, Effect
  PROVE  Writes
<1>1. \A es, fp : AgentStep(es, fp) => RowStep(es, fp)
  BY DEF AgentStep, RowStep, Told
<1> QED
  BY <1>1, StepEntries DEF Writes

-----------------------------------------------------------------------------
(* Time.                                                                   *)

InOrder == LogInTimeOrder /\ \A i \in DOMAIN log : log[i].ts <= clock

LEMMA OrderStep ==
  ASSUME TypeOK, Writes, InOrder, clock' \in Nat, clock' >= clock
  PROVE  InOrder'
<1>1. PICK es \in Seq(LogEntry) :
        log' = log \o es /\ \A k \in 1..Len(es) : es[k].ts = clock
  BY DEF Writes
<1>2. clock \in Nat /\ clock' \in Nat /\ clock' >= clock /\ log \in Seq(LogEntry)
  BY DEF TypeOK
<1>3. \A i \in 1..Len(log) : log[i].ts \in Nat /\ log[i].ts <= clock
  <2>1. \A i \in 1..Len(log) : log[i] \in LogEntry
    BY <1>2
  <2>2. DOMAIN log = 1..Len(log)
    BY <1>2
  <2> QED
    BY <2>1, <2>2 DEF InOrder, LogEntry
<1>4. DOMAIN log' = 1..(Len(log) + Len(es))
  BY <1>1, <1>2, Extension
<1>5. \A i \in 1..Len(log) : log'[i] = log[i]
  BY <1>1, <1>2, Extension
<1>6. \A i \in 1..(Len(log) + Len(es)) : i > Len(log) => log'[i].ts = clock
  BY <1>1, <1>2, Extension
<1>7. \A i \in DOMAIN log' : log'[i].ts <= clock'
  BY <1>2, <1>3, <1>4, <1>5, <1>6
<1>8. ASSUME NEW i \in DOMAIN log', NEW j \in DOMAIN log', i <= j
      PROVE  log'[i].ts <= log'[j].ts
  <2>1. CASE j \in 1..Len(log)
    <3>1. i \in 1..Len(log)
      BY <1>2, <1>4, <1>8, <2>1
    <3> QED
      BY <1>2, <1>5, <1>8, <2>1, <3>1 DEF InOrder, LogInTimeOrder
  <2>2. CASE j \notin 1..Len(log)
    <3>1. log'[j].ts = clock
      BY <1>2, <1>4, <1>6, <2>2
    <3>2. CASE i \in 1..Len(log)
      BY <1>3, <1>5, <3>1, <3>2
    <3>3. CASE i \notin 1..Len(log)
      BY <1>2, <1>4, <1>6, <3>1, <3>3
    <3> QED
      BY <3>2, <3>3
  <2> QED
    BY <2>1, <2>2
<1> QED
  BY <1>7, <1>8 DEF InOrder, LogInTimeOrder

\* The audit log is in time order in every reachable state.
THEOREM LogOrdered == Spec => []LogInTimeOrder
<1>1. Init => InOrder
  BY DEF Init, InOrder, LogInTimeOrder, Genesis
<1>2. ASSUME TypeOK, Reserved, InOrder, [Next]_vars PROVE InOrder'
  <2>1. Effect /\ Writes
    BY <1>2, StepEffect, EffectWrites
  <2>2. clock' \in Nat /\ clock' >= clock
    BY <1>2, <2>1 DEF Effect, Quiet, TypeOK
  <2> QED
    BY <1>2, <2>1, <2>2, OrderStep
<1> QED
  BY <1>1, <1>2, BaseCorrect, PTL DEF Spec, InOrder

-----------------------------------------------------------------------------
(* Challenges.                                                             *)

\* The challenge named by a listing entry is used up.
Consumed ==
  /\ SingleUse
  /\ \A i \in DOMAIN log : log[i].event \in Listings =>
       /\ log[i].challenge \in ChallengeIds
       /\ challenges[log[i].challenge].state = "used"

\* A step whose entries list nobody and that keeps used challenges used.
LEMMA NoListing ==
  ASSUME TypeOK, Consumed, NEW es \in Seq(LogEntry), log' = log \o es,
         \A k \in 1..Len(es) : es[k].event \notin Listings,
         \A c \in ChallengeIds : challenges[c].state = "used" => challenges'[c].state = "used"
  PROVE  Consumed'
<1>1. /\ DOMAIN log' = 1..(Len(log) + Len(es))
      /\ DOMAIN log = 1..Len(log)
      /\ \A i \in 1..Len(log) : log'[i] = log[i]
      /\ \A i \in 1..(Len(log) + Len(es)) : i > Len(log) => log'[i].event \notin Listings
      /\ Len(log) \in Nat /\ Len(es) \in Nat
  BY Extension DEF TypeOK
<1>2. \A i \in DOMAIN log' : log'[i].event \in Listings => i \in DOMAIN log /\ log'[i] = log[i]
  BY <1>1
<1> QED
  BY <1>2 DEF Consumed, SingleUse

\* What a step adds to the log, by whether it lists an agent: most steps list nobody
\* and use up no challenge; the others use up the one of the agent they list.
ListsNobody(es) ==
  /\ \A k \in 1..Len(es) : es[k].event \notin Listings
  /\ \A c \in ChallengeIds : challenges[c].state = "used" <=> challenges'[c].state = "used"

ListsOne(es, c, fp) ==
  /\ challenges[c].fingerprint = fp
  /\ Completing(c)
  /\ Registered(c, fp)
  /\ Len(es) = 1
  /\ es[1].event \in Listings
  /\ es[1].challenge = c
  /\ es[1].fingerprint = fp
  /\ es[1].ts = clock

LEMMA ListingEffect ==
  ASSUME TypeOK, Effect
  PROVE  \E es \in Seq(LogEntry) :
           /\ log' = log \o es
           /\ ListsNobody(es) \/ \E c \in ChallengeIds, fp \in Agents : ListsOne(es, c, fp)
<1> DEFINE Goal == \E es \in Seq(LogEntry) :
                     /\ log' = log \o es
                     /\ \/ ListsNobody(es)
                        \/ \E c \in ChallengeIds, fp \in Agents : ListsOne(es, c, fp)
<1> SUFFICES Goal
  OBVIOUS
<1> HIDE DEF Goal
<1>a. ASSUME NEW es \in Seq(LogEntry), log' = log \o es,
             ListsNobody(es) \/ \E c \in ChallengeIds, fp \in Agents : ListsOne(es, c, fp)
      PROVE  Goal
  BY <1>a DEF Goal
<1>0. log \in Seq(LogEntry)
  BY DEF TypeOK
<1>1. CASE Quiet
  <2> DEFINE es == <<>>
  <2>1. es \in Seq(LogEntry) /\ Len(es) = 0 /\ log' = log \o es
    BY <1>0, <1>1 DEF Quiet
  <2> HIDE DEF es
  <2>2. ListsNobody(es)
    BY <1>1, <2>1 DEF Quiet, ListsNobody
  <2> QED
    BY <1>a, <2>1, <2>2
<1>2. ASSUME NEW now \in Nat, Prune(now), UNCHANGED challenges PROVE Goal
  <2>1. PICK es \in Seq(LogEntry) :
          /\ log' = log \o es
          /\ \A i \in 1..Len(es) : \E fp \in Lapsed(now) :
               es[i] = Entry("agent.expired", fp, NoChallenge)
    BY <1>2, PruneAppends
  <2>2. \A k \in 1..Len(es) : es[k].event \notin Listings
    BY <2>1, EntryFields DEF Listings
  <2> QED
    BY <1>2, <1>a, <2>1, <2>2 DEF ListsNobody
<1>3. ASSUME NEW c \in ChallengeIds, NEW fp \in Agents, NEW now \in Nat,
             challenges[c].state = "fresh", InsertChallenge(c, fp, now)
      PROVE  Goal
  <2> DEFINE issued == Entry("register.challenge_issued", fp, c)
  <2>1. issued \in LogEntry /\ issued.event \notin Listings
    BY EntryType, EntryFields DEF Events, Listings
  <2>a. \A d \in ChallengeIds : \/ challenges'[d].state = challenges[d].state
                                \/ /\ challenges[d].state # "used"
                                   /\ challenges'[d].state # "used"
    <3> DEFINE row == [state |-> "pending", fingerprint |-> fp,
                       created |-> now, expires |-> now + ChallengeTTL]
    <3>1. challenges \in [ChallengeIds -> ChallengeRow] /\ row.state = "pending"
      BY DEF TypeOK
    <3> HIDE DEF row
    <3>2. CASE challenges' = [challenges EXCEPT ![c] = row]
      BY <1>3, <3>1, <3>2
    <3>3. ASSUME NEW victim \in OldestUnused,
                 challenges' = [challenges EXCEPT ![victim].state = "evicted", ![c] = row]
          PROVE  \A d \in ChallengeIds : \/ challenges'[d].state = challenges[d].state
                                         \/ /\ challenges[d].state # "used"
                                            /\ challenges'[d].state # "used"
      <4>1. victim \in ChallengeIds /\ challenges[victim].state = "pending"
        BY DEF OldestUnused, Unused
      <4> QED
        BY <1>3, <3>1, <3>3, <4>1 DEF ChallengeRow
    <3> QED
      BY <1>3, <3>2, <3>3 DEF InsertChallenge, row
  <2>2. \A d \in ChallengeIds : challenges[d].state = "used" <=> challenges'[d].state = "used"
    BY <2>a
  <2>3. CASE log' = Append(log, issued)
    <3> DEFINE es == <<issued>>
    <3>1. es \in Seq(LogEntry) /\ Len(es) = 1 /\ es[1] = issued /\ log' = log \o es
      BY <1>0, <2>1, <2>3
    <3> HIDE DEF es, issued
    <3>2. \A k \in 1..Len(es) : es[k].event \notin Listings
      BY <2>1, <3>1
    <3> QED
      BY <1>a, <2>2, <3>1, <3>2 DEF ListsNobody
  <2>4. ASSUME NEW victim \in OldestUnused,
               log' = log \o EvictionEntries(victim) \o <<issued>>
        PROVE  Goal
    <3> DEFINE gone == Entry("challenge.evicted", NoAgent, victim)
               es == <<gone, issued>>
    <3>0. victim \in ChallengeIds
      BY DEF OldestUnused, Unused
    <3>1. gone \in LogEntry /\ gone.event \notin Listings
      <4>1. gone \in LogEntry
        BY <3>0, EntryType DEF Events
      <4>2. gone.event = "challenge.evicted"
        BY EntryFields
      <4> QED
        BY <4>1, <4>2 DEF Listings
    <3>2. /\ es \in Seq(LogEntry) /\ Len(es) = 2 /\ es[1] = gone /\ es[2] = issued
          /\ log' = log \o es
      <4> HIDE DEF gone, issued
      <4>1. log' = log \o <<gone>> \o <<issued>>
        BY <2>4 DEF EvictionEntries, gone
      <4> QED
        BY <1>0, <2>1, <3>1, <4>1
    <3> HIDE DEF es, issued, gone
    <3>3. \A k \in 1..Len(es) : es[k].event \notin Listings
      BY <2>1, <3>1, <3>2
    <3> QED
      BY <1>a, <2>2, <3>2, <3>3 DEF ListsNobody
  <2> QED
    BY <1>3, <2>3, <2>4 DEF InsertChallenge
<1>4. ASSUME NEW c \in ChallengeIds, NEW fp \in Agents,
             challenges[c].fingerprint = fp, Completing(c), Registered(c, fp)
      PROVE  Goal
  <2>1. PICK ev \in Listings : log' = Append(log, Entry(ev, fp, c))
    BY <1>4 DEF Registered, Listings
  <2> DEFINE e == Entry(ev, fp, c)
             es == <<e>>
  <2>2. /\ e \in LogEntry
        /\ e.event \in Listings /\ e.challenge = c /\ e.fingerprint = fp /\ e.ts = clock
    BY EntryType, EntryFields DEF Events, Listings
  <2>3. es \in Seq(LogEntry) /\ Len(es) = 1 /\ es[1] = e /\ log' = log \o es
    BY <1>0, <2>1, <2>2
  <2> HIDE DEF es, e
  <2>4. ListsOne(es, c, fp)
    BY <1>4, <2>2, <2>3 DEF ListsOne
  <2> QED
    BY <1>a, <2>3, <2>4
<1>5. ASSUME NEW e \in LogEntry, log' = Append(log, e), e.event \notin Listings,
             UNCHANGED challenges
      PROVE  Goal
  <2> DEFINE es == <<e>>
  <2>1. es \in Seq(LogEntry) /\ Len(es) = 1 /\ es[1] = e /\ log' = log \o es
    BY <1>0, <1>5
  <2> HIDE DEF es
  <2>2. \A k \in 1..Len(es) : es[k].event \notin Listings
    BY <1>5, <2>1
  <2> QED
    BY <1>5, <1>a, <2>1, <2>2 DEF ListsNobody
<1>6. ASSUME NEW fp \in Agents, NEW ev \in Heartbeats, NEW now \in Nat,
             Renewed(fp, ev, now), UNCHANGED challenges
      PROVE  Goal
  <2>1. Entry(ev, fp, NoChallenge) \in LogEntry
    BY EntryType DEF Events, Heartbeats
  <2>2. Entry(ev, fp, NoChallenge).event \notin Listings
    BY EntryFields DEF Heartbeats, Listings
  <2> QED
    BY <1>5, <1>6, <2>1, <2>2 DEF Renewed
<1>7. ASSUME NEW fp \in Agents, Suspended(fp), UNCHANGED challenges
      PROVE  Goal
  <2>1. Entry("moderator.suspend", fp, NoChallenge) \in LogEntry
    BY EntryType DEF Events
  <2>2. Entry("moderator.suspend", fp, NoChallenge).event \notin Listings
    BY EntryFields DEF Listings
  <2> QED
    BY <1>5, <1>7, <2>1, <2>2 DEF Suspended
<1>8. ASSUME NEW fp \in Agents, NEW now \in Nat, Reinstated(fp, now), UNCHANGED challenges
      PROVE  Goal
  <2>1. Entry("moderator.unsuspend", fp, NoChallenge) \in LogEntry
    BY EntryType DEF Events
  <2>2. Entry("moderator.unsuspend", fp, NoChallenge).event \notin Listings
    BY EntryFields DEF Listings
  <2> QED
    BY <1>5, <1>8, <2>1, <2>2 DEF Reinstated
<1> QED
  BY <1>1, <1>2, <1>3, <1>4, <1>6, <1>7, <1>8 DEF Effect

\* No step lists an agent by a challenge that was used before.
LEMMA ConsumedStep ==
  ASSUME TypeOK, Effect, Consumed
  PROVE  Consumed'
<1>0. log \in Seq(LogEntry)
  BY DEF TypeOK
<1>1. PICK es \in Seq(LogEntry) :
        /\ log' = log \o es
        /\ ListsNobody(es) \/ \E c \in ChallengeIds, fp \in Agents : ListsOne(es, c, fp)
  BY ListingEffect
<1>2. CASE ListsNobody(es)
  BY <1>1, <1>2, NoListing DEF ListsNobody
<1>3. ASSUME NEW c \in ChallengeIds, NEW fp \in Agents, ListsOne(es, c, fp)
      PROVE  Consumed'
  <2> DEFINE e == es[1]
  <2>1. e \in LogEntry /\ e.challenge = c
    BY <1>3 DEF ListsOne
  <2>2. /\ DOMAIN log' = 1..(Len(log) + 1) /\ DOMAIN log = 1..Len(log)
        /\ \A i \in 1..Len(log) : log'[i] = log[i]
        /\ log'[Len(log) + 1] = e
        /\ Len(log) \in Nat
    <3>1. Len(es) = 1 /\ Len(log) \in Nat /\ DOMAIN log = 1..Len(log)
      BY <1>0, <1>3 DEF ListsOne
    <3>2. /\ DOMAIN log' = 1..(Len(log) + Len(es))
          /\ \A i \in 1..Len(log) : log'[i] = log[i]
          /\ \A i \in 1..Len(es) : log'[Len(log) + i] = es[i]
      BY <1>0, <1>1, Extension
    <3> QED
      BY <3>1, <3>2
  <2>3. challenges[c].state # "used"
    BY <1>3 DEF ListsOne, Registered, StillUnused
  <2>4. \A d \in ChallengeIds : challenges[d].state = "used" \/ d = c
                                  => challenges'[d].state = "used"
    BY <1>3 DEF ListsOne, Registered, TypeOK, ChallengeRow
  <2>5. \A i \in 1..Len(log) : log[i].event \in Listings =>
          /\ log[i].challenge \in ChallengeIds
          /\ log[i].challenge # c
          /\ challenges[log[i].challenge].state = "used"
    BY <2>2, <2>3 DEF Consumed
  <2>6. \A i \in DOMAIN log' : i \in 1..Len(log) \/ i = Len(log) + 1
    BY <2>2
  <2>7. ASSUME NEW i \in DOMAIN log', NEW j \in DOMAIN log',
               log'[i].event \in Listings, log'[j].event \in Listings,
               log'[i].challenge = log'[j].challenge
        PROVE  i = j
    <3>1. CASE i \in 1..Len(log) /\ j \in 1..Len(log)
      BY <2>2, <2>7, <3>1 DEF Consumed, SingleUse
    <3>2. CASE i = Len(log) + 1 /\ j \in 1..Len(log)
      BY <2>1, <2>2, <2>5, <2>7, <3>2
    <3>3. CASE i \in 1..Len(log) /\ j = Len(log) + 1
      BY <2>1, <2>2, <2>5, <2>7, <3>3
    <3> QED
      BY <2>6, <3>1, <3>2, <3>3
  <2>8. ASSUME NEW i \in DOMAIN log', log'[i].event \in Listings
        PROVE  /\ log'[i].challenge \in ChallengeIds
               /\ challenges'[log'[i].challenge].state = "used"
    <3>1. CASE i \in 1..Len(log)
      BY <2>2, <2>4, <2>5, <2>8, <3>1
    <3>2. CASE i = Len(log) + 1
      BY <2>1, <2>2, <2>4, <3>2
    <3> QED
      BY <2>6, <3>1, <3>2
  <2> QED
    BY <2>7, <2>8 DEF Consumed, SingleUse
<1> QED
  BY <1>1, <1>2, <1>3

\* No challenge lists an agent twice.
THEOREM ChallengesAreSingleUse == Spec => []SingleUse
<1>1. Init => Consumed
  BY DEF Init, Consumed, SingleUse, Genesis, Listings
<1>2. TypeOK /\ Reserved /\ Consumed /\ [Next]_vars => Consumed'
  BY StepEffect, ConsumedStep
<1> QED
  BY <1>1, <1>2, BaseCorrect, PTL DEF Spec, Consumed

-----------------------------------------------------------------------------
(* Agents: what the last entry of a kind says of a row.                    *)

\* Entries that are not of the kind, or not about fp, leave the last one last.
LEMMA LastKept ==
  ASSUME TypeOK, NEW es \in Seq(LogEntry), log' = log \o es, NEW fp, NEW kinds,
         \A k \in 1..Len(es) : ~(es[k].fingerprint = fp /\ es[k].event \in kinds),
         NEW i, IsLast(i, fp, kinds)
  PROVE  i \in DOMAIN log' /\ IsLast(i, fp, kinds)' /\ log'[i] = log[i]
<1>1. /\ DOMAIN log' = 1..(Len(log) + Len(es)) /\ DOMAIN log = 1..Len(log)
      /\ \A j \in 1..Len(log) : log'[j] = log[j]
      /\ \A j \in 1..(Len(log) + Len(es)) : j > Len(log) =>
           j - Len(log) \in 1..Len(es) /\ log'[j] = es[j - Len(log)]
      /\ Len(log) \in Nat /\ Len(es) \in Nat
  BY Extension DEF TypeOK
<1>2. i \in 1..Len(log)
  BY <1>1 DEF IsLast
<1>3. i \in DOMAIN log' /\ log'[i] = log[i]
  BY <1>1, <1>2
<1>4. ASSUME NEW j \in DOMAIN log', log'[j].fingerprint = fp, log'[j].event \in kinds
      PROVE  j <= i
  <2>1. j \in 1..Len(log)
    BY <1>1, <1>4
  <2> QED
    BY <1>1, <1>4, <2>1 DEF IsLast
<1> QED
  BY <1>3, <1>4 DEF IsLast

\* The only entry about fp among the new ones is the last one.
LEMMA LastNew ==
  ASSUME TypeOK, NEW es \in Seq(LogEntry), log' = log \o es, NEW fp, NEW kinds,
         NEW k \in 1..Len(es), OnlyAbout(es, k, fp), es[k].event \in kinds,
         NEW i, i = Len(log) + k
  PROVE  i \in DOMAIN log' /\ IsLast(i, fp, kinds)' /\ log'[i] = es[k]
<1>1. /\ DOMAIN log' = 1..(Len(log) + Len(es))
      /\ \A j \in 1..(Len(log) + Len(es)) : j > Len(log) =>
           j - Len(log) \in 1..Len(es) /\ log'[j] = es[j - Len(log)]
      /\ log'[Len(log) + k] = es[k]
      /\ Len(log) \in Nat /\ Len(es) \in Nat
  BY Extension DEF TypeOK
<1>2. i \in DOMAIN log' /\ log'[i] = es[k]
  BY <1>1
<1>3. ASSUME NEW j \in DOMAIN log', log'[j].fingerprint = fp, log'[j].event \in kinds
      PROVE  j <= i
  <2>1. CASE j > Len(log)
    BY <1>1, <1>3, <2>1 DEF OnlyAbout
  <2>2. CASE j <= Len(log)
    BY <1>1, <1>3, <2>2
  <2> QED
    BY <1>1, <2>1, <2>2
<1>4. IsLast(i, fp, kinds)'
  BY <1>2, <1>3 DEF IsLast, OnlyAbout
<1> QED
  BY <1>2, <1>4

LEMMA StatusStep == TypeOK /\ Writes /\ StatusMatchesLog => StatusMatchesLog'
<1> SUFFICES ASSUME TypeOK, Writes, StatusMatchesLog
             PROVE  StatusMatchesLog'
  OBVIOUS
<1>1. PICK es \in Seq(LogEntry) : log' = log \o es /\ \A fp \in Agents : RowStep(es, fp)
  BY DEF Writes
<1>2. ASSUME NEW fp \in Agents PROVE StatusTold(fp)'
  <2>1. StatusTold(fp) /\ RowStep(es, fp)
    BY <1>1, <1>2 DEF StatusMatchesLog
  <2>2. ASSUME agents'[fp].status = agents[fp].status,
               \A k \in 1..Len(es) : ~(es[k].fingerprint = fp /\ es[k].event \in StatusEvents)
        PROVE  StatusTold(fp)'
    <3>1. CASE \E i \in DOMAIN log : /\ IsLast(i, fp, StatusEvents)
                                     /\ agents[fp].status = StatusAfter(log[i].event)
      <4>1. PICK i \in DOMAIN log : /\ IsLast(i, fp, StatusEvents)
                                    /\ agents[fp].status = StatusAfter(log[i].event)
        BY <3>1
      <4>2. i \in DOMAIN log' /\ IsLast(i, fp, StatusEvents)' /\ log'[i] = log[i]
        BY <1>1, <2>2, <4>1, LastKept
      <4> QED
        BY <2>2, <4>1, <4>2 DEF StatusTold
    <3>2. CASE /\ agents[fp].status = "absent"
               /\ \A i \in DOMAIN log : ~(log[i].fingerprint = fp /\ log[i].event \in StatusEvents)
      <4>1. \A i \in DOMAIN log' : ~(log'[i].fingerprint = fp /\ log'[i].event \in StatusEvents)
        <5>1. /\ DOMAIN log' = 1..(Len(log) + Len(es)) /\ DOMAIN log = 1..Len(log)
              /\ \A j \in 1..Len(log) : log'[j] = log[j]
              /\ \A j \in 1..(Len(log) + Len(es)) : j > Len(log) =>
                   j - Len(log) \in 1..Len(es) /\ log'[j] = es[j - Len(log)]
              /\ Len(log) \in Nat /\ Len(es) \in Nat
          BY <1>1, Extension DEF TypeOK
        <5> QED
          BY <2>2, <3>2, <5>1
      <4> QED
        BY <2>2, <3>2, <4>1 DEF StatusTold
    <3> QED
      BY <2>1, <3>1, <3>2 DEF StatusTold
  <2>3. CASE /\ agents'[fp] = agents[fp]
             /\ \A k \in 1..Len(es) :
                  es[k].fingerprint = fp => es[k].event \notin StatusEvents \cup Renewals
    BY <2>2, <2>3
  <2>4. ASSUME NEW k \in 1..Len(es), OnlyAbout(es, k, fp), RowChange(es[k], fp)
        PROVE  StatusTold(fp)'
    <3>1. CASE es[k].event \in Heartbeats
      <4>1. es[k].event \notin StatusEvents
        BY <3>1 DEF Heartbeats, StatusEvents, Listings
      <4>2. agents'[fp].status = agents[fp].status
        BY <2>4, <3>1 DEF RowChange, Heartbeats
      <4> QED
        BY <2>2, <2>4, <4>1, <4>2 DEF OnlyAbout
    <3>2. CASE es[k].event \notin Heartbeats
      <4>1. /\ es[k].event \in StatusEvents
            /\ agents'[fp].status = StatusAfter(es[k].event)
        BY <2>4, <3>2 DEF RowChange, Heartbeats, StatusEvents, Listings, StatusAfter
      <4>2. PICK i : i = Len(log) + k
        OBVIOUS
      <4>3. i \in DOMAIN log' /\ IsLast(i, fp, StatusEvents)' /\ log'[i] = es[k]
        BY <1>1, <2>4, <4>1, <4>2, LastNew
      <4> QED
        BY <4>1, <4>3 DEF StatusTold
    <3> QED
      BY <3>1, <3>2
  <2> QED
    BY <2>1, <2>3, <2>4 DEF RowStep
<1> QED
  BY <1>2 DEF StatusMatchesLog

\* The audit log alone tells the status of every agent.
THEOREM LogTellsStatus == Spec => []StatusMatchesLog
<1>1. Init => StatusMatchesLog
  BY DEF Init, StatusMatchesLog, StatusTold, Genesis, NoRow, StatusEvents, Listings
<1>2. TypeOK /\ Reserved /\ StatusMatchesLog /\ [Next]_vars => StatusMatchesLog'
  BY StepEffect, EffectWrites, StatusStep
<1> QED
  BY <1>1, <1>2, BaseCorrect, PTL DEF Spec

LEMMA TenureStep == TypeOK /\ Writes /\ TenureMatchesLog => TenureMatchesLog'
<1> SUFFICES ASSUME TypeOK, Writes, TenureMatchesLog
             PROVE  TenureMatchesLog'
  OBVIOUS
<1> DEFINE kind == {"register.completed"}
<1>1. PICK es \in Seq(LogEntry) :
        /\ log' = log \o es
        /\ \A k \in 1..Len(es) : es[k].ts = clock
        /\ \A fp \in Agents : RowStep(es, fp)
  BY DEF Writes
<1>2. ASSUME NEW fp \in Agents PROVE TenureTold(fp)'
  <2>1. TenureTold(fp) /\ RowStep(es, fp)
    BY <1>1, <1>2 DEF TenureMatchesLog
  <2>2. ASSUME agents[fp].status = "absent" => agents'[fp].status = "absent",
               agents'[fp].registered = agents[fp].registered,
               \A k \in 1..Len(es) : ~(es[k].fingerprint = fp /\ es[k].event \in kind)
        PROVE  TenureTold(fp)'
    <3>1. CASE agents'[fp].status = "absent"
      BY <3>1 DEF TenureTold
    <3>2. CASE agents'[fp].status # "absent"
      <4>1. PICK i \in DOMAIN log : IsLast(i, fp, kind) /\ agents[fp].registered = log[i].ts
        BY <2>1, <2>2, <3>2 DEF TenureTold
      <4>2. i \in DOMAIN log' /\ IsLast(i, fp, kind)' /\ log'[i] = log[i]
        <5> HIDE DEF kind
        <5>1. log' = log \o es
          BY <1>1
        <5> QED
          BY <2>2, <4>1, <5>1, LastKept
      <4> QED
        BY <2>2, <4>1, <4>2 DEF TenureTold
    <3> QED
      BY <3>1, <3>2
  <2>3. CASE /\ agents'[fp] = agents[fp]
             /\ \A k \in 1..Len(es) :
                  es[k].fingerprint = fp => es[k].event \notin StatusEvents \cup Renewals
    BY <2>2, <2>3 DEF StatusEvents, Listings
  <2>4. ASSUME NEW k \in 1..Len(es), OnlyAbout(es, k, fp), RowChange(es[k], fp)
        PROVE  TenureTold(fp)'
    <3>1. CASE es[k].event = "register.completed"
      <4>1. agents'[fp].registered = clock
        BY <2>4, <3>1 DEF RowChange, Heartbeats
      <4>2. PICK i : i = Len(log) + k
        OBVIOUS
      <4>3. es[k].event \in kind
        BY <3>1
      <4> HIDE DEF kind
      <4>4. i \in DOMAIN log' /\ IsLast(i, fp, kind)' /\ log'[i] = es[k]
        BY <1>1, <2>4, <4>2, <4>3, LastNew
      <4> USE DEF kind
      <4> QED
        BY <1>1, <4>1, <4>4 DEF TenureTold
    <3>2. CASE es[k].event # "register.completed"
      <4>1. /\ agents[fp].status # "absent"
            /\ agents'[fp].registered = agents[fp].registered
        BY <2>4, <3>2 DEF RowChange
      <4> QED
        BY <2>2, <2>4, <3>2, <4>1 DEF OnlyAbout
    <3> QED
      BY <3>1, <3>2
  <2> QED
    BY <2>1, <2>3, <2>4 DEF RowStep
<1> QED
  BY <1>2 DEF TenureMatchesLog

\* The tenure an agent shows is that of its last fresh registration.
THEOREM LogTellsTenure == Spec => []TenureMatchesLog
<1>1. Init => TenureMatchesLog
  BY DEF Init, TenureMatchesLog, TenureTold, NoRow
<1>2. TypeOK /\ Reserved /\ TenureMatchesLog /\ [Next]_vars => TenureMatchesLog'
  BY StepEffect, EffectWrites, TenureStep
<1> QED
  BY <1>1, <1>2, BaseCorrect, PTL DEF Spec

LEMMA ExpiryStep == TypeOK /\ Writes /\ ExpiryBackedByLog => ExpiryBackedByLog'
<1> SUFFICES ASSUME TypeOK, Writes, ExpiryBackedByLog
             PROVE  ExpiryBackedByLog'
  OBVIOUS
<1>1. PICK es \in Seq(LogEntry) :
        /\ log' = log \o es
        /\ \A k \in 1..Len(es) : es[k].ts = clock
        /\ \A fp \in Agents : RowStep(es, fp)
  BY DEF Writes
<1>2. ASSUME NEW fp \in Agents PROVE ExpiryTold(fp)'
  <2>1. ExpiryTold(fp) /\ RowStep(es, fp) /\ TTL \in Nat /\ clock \in Nat
    BY <1>1, <1>2, ConstantsAssumption
       DEF ExpiryBackedByLog, ConstantsAssumption, TypeOK
  <2>2. ASSUME agents[fp].status = "absent" => agents'[fp].status = "absent",
               agents'[fp].expires = agents[fp].expires,
               \A k \in 1..Len(es) : ~(es[k].fingerprint = fp /\ es[k].event \in Renewals)
        PROVE  ExpiryTold(fp)'
    <3>1. CASE agents'[fp].status = "absent"
      BY <3>1 DEF ExpiryTold
    <3>2. CASE agents'[fp].status # "absent"
      <4>1. PICK i \in DOMAIN log : /\ IsLast(i, fp, Renewals)
                                    /\ agents[fp].expires <= log[i].ts + TTL
        BY <2>1, <2>2, <3>2 DEF ExpiryTold
      <4>2. i \in DOMAIN log' /\ IsLast(i, fp, Renewals)' /\ log'[i] = log[i]
        BY <1>1, <2>2, <4>1, LastKept
      <4> QED
        BY <2>2, <4>1, <4>2 DEF ExpiryTold
    <3> QED
      BY <3>1, <3>2
  <2>3. CASE /\ agents'[fp] = agents[fp]
             /\ \A k \in 1..Len(es) :
                  es[k].fingerprint = fp => es[k].event \notin StatusEvents \cup Renewals
    BY <2>2, <2>3
  <2>4. ASSUME NEW k \in 1..Len(es), OnlyAbout(es, k, fp), RowChange(es[k], fp)
        PROVE  ExpiryTold(fp)'
    <3>1. CASE es[k].event \in Renewals
      <4>1. agents'[fp].expires <= clock + TTL
        BY <2>1, <2>4, <3>1 DEF RowChange, Renewals, Listings, Heartbeats
      <4>2. PICK i : i = Len(log) + k
        OBVIOUS
      <4>3. i \in DOMAIN log' /\ IsLast(i, fp, Renewals)' /\ log'[i] = es[k]
        BY <1>1, <2>4, <3>1, <4>2, LastNew
      <4> QED
        BY <1>1, <4>1, <4>3 DEF ExpiryTold
    <3>2. CASE es[k].event \notin Renewals
      <4>1. /\ agents[fp].status # "absent"
            /\ agents'[fp].expires = agents[fp].expires
        BY <2>4, <3>2 DEF RowChange, Renewals, Listings, Heartbeats
      <4> QED
        BY <2>2, <2>4, <3>2, <4>1 DEF OnlyAbout
    <3> QED
      BY <3>1, <3>2
  <2> QED
    BY <2>1, <2>3, <2>4 DEF RowStep
<1> QED
  BY <1>2 DEF ExpiryBackedByLog

\* No listing outlives its last audited renewal by more than the TTL.
THEOREM LogBacksExpiry == Spec => []ExpiryBackedByLog
<1>1. Init => ExpiryBackedByLog
  BY DEF Init, ExpiryBackedByLog, ExpiryTold, NoRow
<1>2. TypeOK /\ Reserved /\ ExpiryBackedByLog /\ [Next]_vars => ExpiryBackedByLog'
  BY StepEffect, EffectWrites, ExpiryStep
<1> QED
  BY <1>1, <1>2, BaseCorrect, PTL DEF Spec

-----------------------------------------------------------------------------
(* Steps.                                                                  *)

LEMMA RenewalStep ==
  ASSUME Writes, NEW fp \in Agents, agents'[fp].expires # agents[fp].expires
  PROVE  agents'[fp].status # "expired"
<1>1. PICK es \in Seq(LogEntry) : RowStep(es, fp)
  BY DEF Writes
<1>2. agents'[fp] = agents[fp] \/ \E e : RowChange(e, fp)
  BY <1>1 DEF RowStep
<1> QED
  BY <1>2 DEF RowChange

\* heartbeat, unsuspend: no step moves the expiry of a row that it leaves lapsed, so a
\* heartbeat accepted before a prune does not extend the pruned row.
THEOREM LapsedRowsAreNotRenewed == Spec => LapsedRowsNotRenewed
<1>1. TypeOK /\ Reserved /\ [Next]_vars
        => [\A fp \in Agents : agents'[fp].expires # agents[fp].expires
                                 => agents'[fp].status # "expired"]_vars
  BY StepEffect, EffectWrites, RenewalStep
<1> QED
  BY <1>1, BaseCorrect, PTL DEF Spec, LapsedRowsNotRenewed

\* A challenge that a step changes is named by an entry the step adds.
LEMMA ChallengesAudited ==
  ASSUME TypeOK, Effect, NEW c \in ChallengeIds, challenges'[c] # challenges[c]
  PROVE  \E i \in DOMAIN log' \ DOMAIN log : log'[i].challenge = c
<1>0. log \in Seq(LogEntry) /\ challenges \in [ChallengeIds -> ChallengeRow]
  BY DEF TypeOK
<1>1. ASSUME NEW d \in ChallengeIds, NEW fp \in Agents, NEW now \in Nat,
             InsertChallenge(d, fp, now)
      PROVE  \E i \in DOMAIN log' \ DOMAIN log : log'[i].challenge = c
  <2> DEFINE issued == Entry("register.challenge_issued", fp, d)
  <2>1. issued.challenge = d /\ issued \in LogEntry
    BY EntryType, EntryFields DEF Events
  <2>2. ASSUME \A b \in ChallengeIds : b # d => challenges'[b] = challenges[b],
               log' = Append(log, issued)
        PROVE  \E i \in DOMAIN log' \ DOMAIN log : log'[i].challenge = c
    <3>1. c = d
      BY <2>2
    <3>2. /\ Len(log) + 1 \in DOMAIN log' \ DOMAIN log
          /\ log'[Len(log) + 1] = issued
      BY <1>0, <2>1, <2>2
    <3> QED
      BY <2>1, <3>1, <3>2
  <2>3. ASSUME NEW victim \in OldestUnused,
               \A b \in ChallengeIds \ {d, victim} : challenges'[b] = challenges[b],
               log' = log \o EvictionEntries(victim) \o <<issued>>
        PROVE  \E i \in DOMAIN log' \ DOMAIN log : log'[i].challenge = c
    <3> DEFINE gone == Entry("challenge.evicted", NoAgent, victim)
               es == <<gone, issued>>
    <3>0. victim \in ChallengeIds
      BY DEF OldestUnused, Unused
    <3>a. gone.challenge = victim
      BY EntryFields
    <3>1. gone.challenge = victim /\ gone \in LogEntry
      BY <3>0, <3>a, EntryType DEF Events
    <3>2. c = d \/ c = victim
      BY <2>3
    <3>3. /\ Len(log) + 1 \in DOMAIN log' \ DOMAIN log
          /\ log'[Len(log) + 1] = gone
          /\ Len(log) + 2 \in DOMAIN log' \ DOMAIN log
          /\ log'[Len(log) + 2] = issued
      BY <1>0, <2>1, <2>3, <3>1 DEF EvictionEntries
    <3> QED
      BY <2>1, <3>1, <3>2, <3>3
  <2> QED
    BY <1>0, <1>1, <2>2, <2>3 DEF InsertChallenge
<1>2. ASSUME NEW d \in ChallengeIds, NEW fp \in Agents, Registered(d, fp)
      PROVE  \E i \in DOMAIN log' \ DOMAIN log : log'[i].challenge = c
  <2> DEFINE e == Entry(IF Live(agents[fp], clock) THEN "register.updated"
                        ELSE "register.completed", fp, d)
  <2>1. c = d
    BY <1>0, <1>2 DEF Registered
  <2>2. e.challenge = d /\ e \in LogEntry
    BY EntryType, EntryFields DEF Events
  <2>3. log' = Append(log, e)
    BY <1>2 DEF Registered
  <2>4. Len(log) + 1 \in DOMAIN log' \ DOMAIN log /\ log'[Len(log) + 1] = e
    BY <1>0, <2>2, <2>3
  <2> QED
    BY <2>1, <2>2, <2>4
<1> QED
  BY <1>1, <1>2 DEF Effect, Quiet

\* The log is only extended, and accounts for every row a step changes.
THEOREM WritesAreAudited == Spec => AuditedWrites
<1> DEFINE A == /\ Len(log') >= Len(log)
                /\ \A i \in DOMAIN log : log'[i] = log[i]
                /\ \A fp \in Agents : agents'[fp] # agents[fp] =>
                     \E i \in DOMAIN log' \ DOMAIN log : log'[i].fingerprint = fp
                /\ \A c \in ChallengeIds : challenges'[c] # challenges[c] =>
                     \E i \in DOMAIN log' \ DOMAIN log : log'[i].challenge = c
<1>1. ASSUME TypeOK, Reserved, [Next]_vars PROVE A
  <2>1. PICK es \in Seq(LogEntry) : log' = log \o es /\ \A fp \in Agents : AgentStep(es, fp)
    BY <1>1, StepEffect, StepEntries
  <2>2. /\ Len(log') = Len(log) + Len(es) /\ Len(log) \in Nat /\ Len(es) \in Nat
        /\ DOMAIN log = 1..Len(log) /\ DOMAIN log' = 1..(Len(log) + Len(es))
        /\ \A i \in 1..Len(log) : log'[i] = log[i]
        /\ \A i \in 1..Len(es) : log'[Len(log) + i] = es[i]
    BY <1>1, <2>1, Extension DEF TypeOK
  <2>3. ASSUME NEW fp \in Agents, agents'[fp] # agents[fp]
        PROVE  \E i \in DOMAIN log' \ DOMAIN log : log'[i].fingerprint = fp
    <3>1. PICK k \in 1..Len(es) : es[k].fingerprint = fp
      BY <2>1, <2>3 DEF AgentStep, OnlyAbout
    <3>2. Len(log) + k \in DOMAIN log' \ DOMAIN log /\ log'[Len(log) + k] = es[k]
      BY <2>2
    <3> QED
      BY <3>1, <3>2
  <2>4. \A c \in ChallengeIds : challenges'[c] # challenges[c] =>
          \E i \in DOMAIN log' \ DOMAIN log : log'[i].challenge = c
    BY <1>1, StepEffect, ChallengesAudited
  <2> QED
    BY <2>2, <2>3, <2>4
<1>2. TypeOK /\ Reserved /\ [Next]_vars => [A]_vars
  BY <1>1
<1> QED
  BY <1>2, BaseCorrect, PTL DEF Spec, AuditedWrites

=============================================================================
