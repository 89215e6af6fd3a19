--------------------------- MODULE Reputation_proofs ---------------------------
(***************************************************************************)
(* Proofs about Reputation, for any number of agents, threads and reports, *)
(* any threshold, tenure and windows.                                      *)
(***************************************************************************)
EXTENDS ReputationProps, FiniteSetTheorems, TLAPS

\* The events of the moderator, which say nothing of reports.
Moderating == {"moderator.takedown", "moderator.suspend", "moderator.unsuspend"}

\* A step of the moderator or of the rest of the directory: it changes rows of agents
\* and may record that the moderator did.
Outside ==
  /\ agents' \in [Agents -> AgentRow]
  /\ others' \in Nat
  /\ \/ UNCHANGED log
     \/ \E e \in LogEntry : e.event \in Moderating /\ log' = Append(log, e)
  /\ UNCHANGED <<reports, clock, req, blocks>>

\* A step that is neither that nor of a report: of a trust block, of time, a restart, or
\* nothing.
Passing ==
  /\ clock' \in {clock, clock + 1}
  /\ req' \in {req, [t \in Threads |-> Idle]}
  /\ blocks' \in [Threads -> BlockRec]
  /\ UNCHANGED <<agents, reports, log, others>>

LEMMA IdleType == Idle \in RequestRec /\ Idle.pc = "idle"
  BY DEF Idle, RequestRec, Serving

LEMMA RowsTyped ==
  ASSUME TypeOK
  PROVE  /\ \A i \in DOMAIN reports : reports[i] \in ReportRow
         /\ \A i \in DOMAIN log : log[i] \in LogEntry
  BY DEF TypeOK

LEMMA RowChanged ==
  ASSUME TypeOK, NEW fp \in Agents, NEW row \in AgentRow
  PROVE  [agents EXCEPT ![fp] = row] \in [Agents -> AgentRow]
  BY DEF TypeOK

\* What suspending writes.
LEMMA Suspending ==
  ASSUME TypeOK, NEW fp \in Agents, NEW event, NEW category \in Categories \cup {None},
         NEW reporters \in SUBSET Agents,
         event \in Moderating \cup {"report.auto_suspend"},
         SuspendAgent(fp, event, category, reporters)
  PROVE  /\ agents' \in [Agents -> AgentRow]
         /\ Entry(event, fp, category, reporters, FALSE) \in LogEntry
         /\ log' = Append(log, Entry(event, fp, category, reporters, FALSE))
<1>1. [agents[fp] EXCEPT !.status = "suspended"] \in AgentRow
  BY DEF TypeOK, AgentRow
<1>2. agents' = [agents EXCEPT ![fp] = [agents[fp] EXCEPT !.status = "suspended"]]
  BY DEF SuspendAgent
<1>3. agents' \in [Agents -> AgentRow]
  BY <1>1, <1>2, RowChanged
<1>4. QED
  BY <1>3 DEF SuspendAgent, Entry, LogEntry, Moderating, TypeOK

\* The moderator writes one entry.
LEMMA ModeratorWrites ==
  ASSUME TypeOK, NEW e \in LogEntry, e.event \in Moderating, log' = Append(log, e),
         agents' \in [Agents -> AgentRow], Other, UNCHANGED <<reports, clock, req, blocks>>
  PROVE  Outside
<1>1. others' \in Nat
  BY DEF Other, TypeOK
<1>2. QED
  BY <1>1 DEF Outside

LEMMA ModeratorStep ==
  ASSUME TypeOK,
         \/ \E i \in DOMAIN reports : Takedown(i)
         \/ \E fp \in Agents : ModeratorSuspend(fp) \/ Unsuspend(fp)
  PROVE  Outside
<1>1. ASSUME NEW i \in DOMAIN reports, Takedown(i)
      PROVE  Outside
  <2>1. reports[i].target \in Agents /\ {reports[i].reporter} \in SUBSET Agents
    BY RowsTyped DEF ReportRow
  <2>2. SuspendAgent(reports[i].target, "moderator.takedown", None, {reports[i].reporter})
    BY <1>1 DEF Takedown
  <2>3. /\ agents' \in [Agents -> AgentRow]
        /\ Entry("moderator.takedown", reports[i].target, None, {reports[i].reporter}, FALSE)
             \in LogEntry
        /\ log' = Append(log, Entry("moderator.takedown", reports[i].target, None,
                                    {reports[i].reporter}, FALSE))
    BY <2>1, <2>2, Suspending DEF Moderating
  <2>4. Entry("moderator.takedown", reports[i].target, None, {reports[i].reporter}, FALSE).event
          \in Moderating
    BY DEF Entry, Moderating
  <2>5. Other /\ UNCHANGED <<reports, clock, req, blocks>>
    BY <1>1 DEF Takedown
  <2>6. QED
    BY <2>3, <2>4, <2>5, ModeratorWrites, Zenon
<1>2. ASSUME NEW fp \in Agents, ModeratorSuspend(fp)
      PROVE  Outside
  <2>1. SuspendAgent(fp, "moderator.suspend", None, {})
    BY <1>2 DEF ModeratorSuspend
  <2>2. /\ agents' \in [Agents -> AgentRow]
        /\ Entry("moderator.suspend", fp, None, {}, FALSE) \in LogEntry
        /\ log' = Append(log, Entry("moderator.suspend", fp, None, {}, FALSE))
    BY <2>1, Suspending DEF Moderating
  <2>3. Entry("moderator.suspend", fp, None, {}, FALSE).event \in Moderating
    BY DEF Entry, Moderating
  <2>4. Other /\ UNCHANGED <<reports, clock, req, blocks>>
    BY <1>2 DEF ModeratorSuspend
  <2>5. QED
    BY <2>2, <2>3, <2>4, ModeratorWrites, Zenon
<1>3. ASSUME NEW fp \in Agents, Unsuspend(fp)
      PROVE  Outside
  <2>1. agents' \in [Agents -> AgentRow]
    BY <1>3 DEF Unsuspend, TypeOK, AgentRow
  <2>2. Entry("moderator.unsuspend", fp, None, {}, FALSE) \in LogEntry
    BY DEF Entry, LogEntry, TypeOK
  <2>3. Entry("moderator.unsuspend", fp, None, {}, FALSE).event \in Moderating
    BY DEF Entry, Moderating
  <2>4. /\ log' = Append(log, Entry("moderator.unsuspend", fp, None, {}, FALSE))
        /\ Other /\ UNCHANGED <<reports, clock, req, blocks>>
    BY <1>3 DEF Unsuspend
  <2>5. QED
    BY <2>1, <2>2, <2>3, <2>4, ModeratorWrites, Zenon
<1>4. QED
  BY <1>1, <1>2, <1>3

LEMMA DirectoryStep ==
  ASSUME TypeOK, \E fp \in Agents : Register(fp) \/ Lapse(fp) \/ PruneExpired(fp)
  PROVE  Outside
<1>1. ASSUME NEW fp \in Agents, Register(fp)
      PROVE  Outside
  <2>1. [status |-> "listed", due |-> FALSE, registered |-> clock] \in AgentRow
    BY DEF TypeOK, AgentRow
  <2>2. QED
    BY <1>1, <2>1, RowChanged DEF Register, Other, Outside, TypeOK
<1>2. ASSUME NEW fp \in Agents, Lapse(fp)
      PROVE  Outside
  <2>1. [agents[fp] EXCEPT !.due = TRUE] \in AgentRow
    BY DEF TypeOK, AgentRow
  <2>2. agents' = [agents EXCEPT ![fp] = [agents[fp] EXCEPT !.due = TRUE]]
    BY <1>2 DEF Lapse
  <2>3. QED
    BY <1>2, <2>1, <2>2, RowChanged DEF Lapse, Other, Outside, TypeOK
<1>3. ASSUME NEW fp \in Agents, PruneExpired(fp)
      PROVE  Outside
  <2>1. [agents[fp] EXCEPT !.status = "expired"] \in AgentRow
    BY DEF TypeOK, AgentRow
  <2>2. agents' = [agents EXCEPT ![fp] = [agents[fp] EXCEPT !.status = "expired"]]
    BY <1>3 DEF PruneExpired
  <2>3. QED
    BY <1>3, <2>1, <2>2, RowChanged DEF PruneExpired, Other, Outside, TypeOK
<1>4. QED
  BY <1>1, <1>2, <1>3

LEMMA ReportersAreAgents ==
  ASSUME TypeOK, NEW target, NEW category, NEW now
  PROVE  /\ EligibleReporters(target, category, now) \in SUBSET Agents
         /\ IsFiniteSet(EligibleReporters(target, category, now))
<1>1. EligibleReporters(target, category, now) \in SUBSET Agents
  BY RowsTyped DEF EligibleReporters, ReportRow
<1>2. IsFiniteSet(Agents)
  BY ReputationConstants DEF ReputationConstants
<1>3. QED
  BY <1>1, <1>2, FS_Subset

LEMMA NoBlockType == NoBlock \in BlockRec
  BY DEF NoBlock, BlockRec

\* What the sections of a trust block make of it.
LEMMA BlockStep ==
  ASSUME TypeOK, \E t \in Threads : \/ \E fp \in Agents : BlockStart(t, fp)
                                   \/ BlockFraud(t)
                                   \/ BlockPayment(t)
  PROVE  Passing
<1>1. \A t \in Threads : blocks[t] \in BlockRec
  BY DEF TypeOK
<1>2. ASSUME NEW t \in Threads, NEW fp \in Agents, BlockStart(t, fp)
      PROVE  Passing
  <2>1. [pc |-> "fraud", target |-> fp, fraud |-> {}, begun |-> clock, since |-> clock]
          \in BlockRec
    BY DEF BlockRec, TypeOK
  <2>2. QED
    BY <1>2, <2>1 DEF BlockStart, Passing, TypeOK
<1>3. ASSUME NEW t \in Threads, BlockFraud(t)
      PROVE  Passing
  <2>1. PICK now \in BlockClock(t) :
          blocks' = [blocks EXCEPT ![t] =
                       [pc |-> "payment", target |-> blocks[t].target,
                        fraud |-> EligibleReporters(blocks[t].target, Fraud, now),
                        begun |-> blocks[t].begun, since |-> clock]]
    BY <1>3 DEF BlockFraud
  <2> DEFINE found == EligibleReporters(blocks[t].target, Fraud, now)
  <2>2. found \in SUBSET Agents
    BY ReportersAreAgents
  <2> HIDE DEF found
  <2>3. [pc |-> "payment", target |-> blocks[t].target, fraud |-> found,
         begun |-> blocks[t].begun, since |-> clock] \in BlockRec
    BY <1>1, <2>2 DEF BlockRec, TypeOK
  <2>4. blocks' \in [Threads -> BlockRec]
    BY <2>1, <2>3 DEF TypeOK, found
  <2>5. QED
    BY <1>3, <2>4 DEF BlockFraud, Passing
<1>4. ASSUME NEW t \in Threads, BlockPayment(t)
      PROVE  Passing
  BY <1>4, NoBlockType DEF BlockPayment, Passing, TypeOK
<1>5. QED
  BY <1>2, <1>3, <1>4

\* What can happen in a step.
LEMMA StepCases ==
  ASSUME TypeOK, [Next]_vars
  PROVE  \/ \E t \in Threads, reporter \in Agents, target \in Agents, category \in Categories :
              ReportRead(t, reporter, target, category)
         \/ \E t \in Threads : ReportReporter(t)
         \/ \E t \in Threads : ReportRecord(t)
         \/ \E t \in Threads : AutomatonCount(t)
         \/ \E t \in Threads : AutomatonStatus(t)
         \/ \E t \in Threads : AutomatonSuspend(t)
         \/ Outside
         \/ Passing
<1>1. CASE Restart \/ Tick \/ UNCHANGED vars
  BY <1>1, NoBlockType DEF Restart, Tick, Passing, vars, TypeOK
<1>2. Targets \subseteq Agents
  BY ReputationConstants DEF ReputationConstants
<1>3. QED
  BY <1>1, <1>2, ModeratorStep, DirectoryStep, BlockStep DEF Next, Serve

-----------------------------------------------------------------------------
(* How a section changes the request that its thread serves.               *)

Changed(r, pc, registered, found, since) ==
  [pc |-> pc, reporter |-> r.reporter, target |-> r.target, category |-> r.category,
   registered |-> registered, found |-> found, since |-> since]

LEMMA Moves ==
  ASSUME NEW r \in RequestRec, NEW a, NEW b
  PROVE  /\ [r EXCEPT !.pc = a] = Changed(r, a, r.registered, r.found, r.since)
         /\ [r EXCEPT !.pc = a, !.found = b] = Changed(r, a, r.registered, b, r.since)
<1> DEFINE one == Changed(r, a, r.registered, r.found, r.since)
<1>1. [r EXCEPT !.pc = a] = one
  BY DEF Changed, RequestRec
<1>2. [one EXCEPT !.found = b] = Changed(r, a, r.registered, b, r.since)
  BY DEF Changed
<1> HIDE DEF one
<1>3. [r EXCEPT !.pc = a, !.found = b] = [[r EXCEPT !.pc = a] EXCEPT !.found = b]
  BY Zenon
<1>4. [r EXCEPT !.pc = a, !.found = b] = Changed(r, a, r.registered, b, r.since)
  BY <1>1, <1>2, <1>3, Zenon
<1>5. QED
  BY <1>1, <1>4, Zenon DEF one

LEMMA MovesToCount ==
  ASSUME NEW r \in RequestRec
  PROVE  [r EXCEPT !.pc = "count", !.since = clock]
           = Changed(r, "count", r.registered, r.found, clock)
<1> DEFINE one == Changed(r, "count", r.registered, r.found, r.since)
<1>1. [r EXCEPT !.pc = "count"] = one
  BY DEF Changed, RequestRec
<1>2. [one EXCEPT !.since = clock] = Changed(r, "count", r.registered, r.found, clock)
  BY DEF Changed
<1> HIDE DEF one
<1>3. [r EXCEPT !.pc = "count", !.since = clock] = [[r EXCEPT !.pc = "count"] EXCEPT !.since = clock]
  BY Zenon
<1>4. QED
  BY <1>1, <1>2, <1>3, Zenon

LEMMA MovesToRecord ==
  ASSUME NEW r \in RequestRec, NEW x
  PROVE  [r EXCEPT !.pc = "record", !.since = clock, !.registered = x]
           = Changed(r, "record", x, r.found, clock)
<1> DEFINE one == Changed(r, "record", r.registered, r.found, r.since)
           two == Changed(r, "record", r.registered, r.found, clock)
<1>1. [r EXCEPT !.pc = "record"] = one
  BY DEF Changed, RequestRec
<1>2. [one EXCEPT !.since = clock] = two
  BY DEF Changed
<1>3. [two EXCEPT !.registered = x] = Changed(r, "record", x, r.found, clock)
  BY DEF Changed
<1> HIDE DEF one, two
<1>4. [r EXCEPT !.pc = "record", !.since = clock, !.registered = x]
        = [[[r EXCEPT !.pc = "record"] EXCEPT !.since = clock] EXCEPT !.registered = x]
  BY Zenon
<1>5. QED
  BY <1>1, <1>2, <1>3, <1>4, Zenon

\* The request of t becomes r.
Becomes(t, r) ==
  /\ req' = [req EXCEPT ![t] = r]
  /\ req'[t] = r
  /\ \A u \in Threads : u # t => req'[u] = req[u]

LEMMA Ends == ASSUME TypeOK, NEW t \in Threads, Finish(t) PROVE Becomes(t, Idle)
  BY DEF TypeOK, Finish, Becomes

\* What each section does to the request.
LEMMA ReporterMoves ==
  ASSUME TypeOK, NEW t \in Threads, ReportReporter(t)
  PROVE  \/ Becomes(t, Idle)
         \/ \E x \in Nat : Becomes(t, Changed(req[t], "record", x, req[t].found, clock))
<1>1. req[t] \in RequestRec
  BY DEF TypeOK
<1>2. CASE Finish(t)
  BY <1>2, Ends
<1>3. CASE /\ Live(req[t].reporter)
           /\ req' = [req EXCEPT ![t].pc = "record", ![t].since = clock,
                                 ![t].registered = agents[req[t].reporter].registered]
  <2> DEFINE x == agents[req[t].reporter].registered
  <2>1. req[t].reporter \in Agents
    BY DEF ReportReporter, TypeOK, Serving
  <2>2. x \in Nat
    BY <2>1 DEF TypeOK, AgentRow
  <2>3. req'[t] = [req[t] EXCEPT !.pc = "record", !.since = clock, !.registered = x]
    BY <1>3 DEF TypeOK
  <2>4. req' = [req EXCEPT ![t] = req'[t]] /\ \A u \in Threads : u # t => req'[u] = req[u]
    BY <1>3 DEF TypeOK
  <2>5. req'[t] = Changed(req[t], "record", x, req[t].found, clock)
    BY <1>1, <2>3, MovesToRecord, Zenon
  <2>6. QED
    BY <2>2, <2>4, <2>5 DEF Becomes
<1>4. QED
  BY <1>2, <1>3 DEF ReportReporter

\* What is stored of the report of t, and logged with it.
Row(t, counts, now) ==
  [reporter |-> req[t].reporter, target |-> req[t].target, category |-> req[t].category,
   counts |-> counts, submitted |-> now]

Recorded(t, counts) ==
  Entry("report.recorded", req[t].target, req[t].category, {req[t].reporter}, counts)

LEMMA RecordMoves ==
  ASSUME TypeOK, NEW t \in Threads, ReportRecord(t)
  PROVE  /\ \/ UNCHANGED <<reports, log>> /\ Becomes(t, Idle)
            \/ \E counts \in BOOLEAN, now \in Nat :
                 /\ now <= clock
                 /\ Duplicates(req[t], now) = {}
                 /\ Row(t, counts, now) \in ReportRow
                 /\ reports' = Append(reports, Row(t, counts, now))
                 /\ Recorded(t, counts) \in LogEntry
                 /\ log' = Append(log, Recorded(t, counts))
                 /\ \/ Becomes(t, Idle)
                    \/ /\ counts
                       /\ req[t].category \in AbuseClasses
                       /\ Becomes(t, Changed(req[t], "count", req[t].registered,
                                             req[t].found, clock))
         /\ UNCHANGED <<agents, clock, others>>
<1>1. /\ req[t] \in RequestRec
      /\ {req[t].reporter, req[t].target} \subseteq Agents
      /\ req[t].category \in Categories
  BY DEF ReportRecord, TypeOK, Serving
<1>2. CASE Finish(t) /\ UNCHANGED <<reports, log>>
  BY <1>2, Ends DEF ReportRecord
<1>3. ASSUME NEW tenureRead \in ReadClock(t), NEW now \in tenureRead .. clock, NEW counts,
             counts = (tenureRead - req[t].registered >= Tenure),
             Duplicates(req[t], now) = {},
             reports' = Append(reports, Row(t, counts, now)),
             log' = Append(log, Recorded(t, counts)),
             req' = [req EXCEPT ![t] =
                       IF counts /\ req[t].category \in AbuseClasses
                       THEN [req[t] EXCEPT !.pc = "count", !.since = clock] ELSE Idle]
      PROVE  \E c \in BOOLEAN, n \in Nat :
                 /\ n <= clock
                 /\ Duplicates(req[t], n) = {}
                 /\ Row(t, c, n) \in ReportRow
                 /\ reports' = Append(reports, Row(t, c, n))
                 /\ Recorded(t, c) \in LogEntry
                 /\ log' = Append(log, Recorded(t, c))
                 /\ \/ Becomes(t, Idle)
                    \/ /\ c
                       /\ req[t].category \in AbuseClasses
                       /\ Becomes(t, Changed(req[t], "count", req[t].registered,
                                             req[t].found, clock))
  <2>1. counts \in BOOLEAN
    BY <1>3
  <2>2. now \in Nat /\ now <= clock
    BY <1>1, <1>3 DEF ReadClock, TypeOK, RequestRec
  <2>3. Row(t, counts, now) \in ReportRow
    BY <1>1, <2>1, <2>2 DEF Row, ReportRow
  <2>4. Recorded(t, counts) \in LogEntry
    BY <1>1, <2>1 DEF Recorded, Entry, LogEntry, TypeOK
  <2>5. CASE counts /\ req[t].category \in AbuseClasses
    <3>1. req' = [req EXCEPT ![t] = [req[t] EXCEPT !.pc = "count", !.since = clock]]
      BY <1>3, <2>5
    <3>2. req' = [req EXCEPT ![t] = Changed(req[t], "count", req[t].registered,
                                            req[t].found, clock)]
      BY <1>1, <3>1, MovesToCount, Zenon
    <3>3. Becomes(t, Changed(req[t], "count", req[t].registered, req[t].found, clock))
      BY <3>2 DEF Becomes, TypeOK
    <3>4. QED
      BY <1>3, <2>1, <2>2, <2>3, <2>4, <2>5, <3>3
  <2>6. CASE ~(counts /\ req[t].category \in AbuseClasses)
    <3>1. Becomes(t, Idle)
      BY <1>3, <2>6, Ends DEF Finish
    <3>2. QED
      BY <1>3, <2>1, <2>2, <2>3, <2>4, <3>1
  <2>7. QED
    BY <2>5, <2>6
<1>4. QED
  BY <1>2, <1>3 DEF ReportRecord, Row, Recorded

LEMMA CountMoves ==
  ASSUME TypeOK, NEW t \in Threads, AutomatonCount(t)
  PROVE  \/ Becomes(t, Idle)
         \/ \E now \in ReadClock(t) :
              LET found == EligibleReporters(req[t].target, req[t].category, now)
              IN /\ found \in SUBSET Agents
                 /\ EnoughReporters(found)
                 /\ Becomes(t, Changed(req[t], "status", req[t].registered, found,
                                       req[t].since))
<1>1. CASE Finish(t)
  BY <1>1, Ends
<1>2. ASSUME NEW now \in ReadClock(t),
             EnoughReporters(EligibleReporters(req[t].target, req[t].category, now)),
             req' = [req EXCEPT ![t].pc = "status",
                       ![t].found = EligibleReporters(req[t].target, req[t].category, now)]
      PROVE  LET found == EligibleReporters(req[t].target, req[t].category, now)
             IN  /\ found \in SUBSET Agents
                 /\ Becomes(t, Changed(req[t], "status", req[t].registered, found,
                                       req[t].since))
  <2> DEFINE found == EligibleReporters(req[t].target, req[t].category, now)
  <2>1. found \in SUBSET Agents
    BY RowsTyped DEF EligibleReporters, ReportRow
  <2> HIDE DEF found
  <2>2. req'[t] = [req[t] EXCEPT !.pc = "status", !.found = found]
    BY <1>2 DEF TypeOK, found
  <2>3. req' = [req EXCEPT ![t] = req'[t]] /\ \A u \in Threads : u # t => req'[u] = req[u]
    BY <1>2 DEF TypeOK, found
  <2>4. req'[t] = Changed(req[t], "status", req[t].registered, found, req[t].since)
    BY <2>2, Moves DEF TypeOK
  <2>5. QED
    BY <2>1, <2>3, <2>4 DEF Becomes, found
<1>3. QED
  BY <1>1, <1>2 DEF AutomatonCount

LEMMA StatusMoves ==
  ASSUME TypeOK, NEW t \in Threads, AutomatonStatus(t)
  PROVE  \/ Becomes(t, Idle)
         \/ Becomes(t, Changed(req[t], "suspend", req[t].registered, req[t].found,
                               req[t].since))
<1>1. CASE Finish(t)
  BY <1>1, Ends
<1>2. CASE req' = [req EXCEPT ![t].pc = "suspend"]
  <2>1. req'[t] = [req[t] EXCEPT !.pc = "suspend"]
    BY <1>2 DEF TypeOK
  <2>2. req' = [req EXCEPT ![t] = req'[t]] /\ \A u \in Threads : u # t => req'[u] = req[u]
    BY <1>2 DEF TypeOK
  <2>3. QED
    BY <2>1, <2>2, Moves DEF Becomes, TypeOK
<1>3. QED
  BY <1>1, <1>2 DEF AutomatonStatus

-----------------------------------------------------------------------------
(* Types.                                                                  *)

Knows(r) ==
  r.pc \in Serving => {r.reporter, r.target} \subseteq Agents /\ r.category \in Categories

RequestsTyped == req \in [Threads -> RequestRec] /\ \A t \in Threads : Knows(req[t])

LEMMA BecomesTyped ==
  ASSUME TypeOK, NEW t \in Threads, NEW r \in RequestRec, Knows(r), Becomes(t, r)
  PROVE  RequestsTyped'
  BY DEF TypeOK, Becomes, Knows, RequestsTyped

LEMMA ChangedTyped ==
  ASSUME TypeOK, NEW t \in Threads, req[t].pc \in Serving, NEW pc \in Serving,
         NEW x \in Nat, NEW found \in SUBSET Agents, NEW since \in Nat
  PROVE  /\ Changed(req[t], pc, x, found, since) \in RequestRec
         /\ Knows(Changed(req[t], pc, x, found, since))
  BY DEF TypeOK, RequestRec, Changed, Knows

LEMMA IdleTyped ==
  ASSUME TypeOK, NEW t \in Threads, Becomes(t, Idle)
  PROVE  RequestsTyped'
<1>1. Knows(Idle)
  BY IdleType DEF Knows, Serving
<1>2. QED
  BY <1>1, IdleType, BecomesTyped

LEMMA AppendTyped == ASSUME NEW S, NEW s \in Seq(S), NEW e \in S PROVE Append(s, e) \in Seq(S)
  OBVIOUS

LEMMA TypeInit == Init => TypeOK
  BY IdleType, NoBlockType DEF Init, TypeOK, NoRow, AgentRow, Serving

LEMMA TypeStep == TypeOK /\ [Next]_vars => TypeOK'
<1> SUFFICES ASSUME TypeOK, [Next]_vars
             PROVE  TypeOK'
  OBVIOUS
<1>1. \A t \in Threads : /\ req[t] \in RequestRec
                         /\ req[t].registered \in Nat
                         /\ req[t].found \in SUBSET Agents
                         /\ req[t].since \in Nat
  BY DEF TypeOK, RequestRec
<1>2. ASSUME NEW t \in Threads, NEW reporter \in Agents, NEW target \in Agents,
             NEW category \in Categories, ReportRead(t, reporter, target, category)
      PROVE  TypeOK'
  <2> DEFINE r == [pc |-> "reporter", reporter |-> reporter, target |-> target,
                   category |-> category, registered |-> 0, found |-> {}, since |-> clock]
  <2>1. r \in RequestRec /\ Knows(r)
    BY DEF RequestRec, Knows, Serving, TypeOK
  <2>2. Becomes(t, r)
    BY <1>2 DEF ReportRead, Becomes, TypeOK
  <2> HIDE DEF r
  <2>3. RequestsTyped'
    BY <2>1, <2>2, BecomesTyped
  <2>4. QED
    BY <1>2, <2>3 DEF ReportRead, TypeOK, RequestsTyped, Knows
<1>3. ASSUME NEW t \in Threads, ReportReporter(t)
      PROVE  TypeOK'
  <2>1. req[t].pc \in Serving /\ clock \in Nat /\ "record" \in Serving
    BY <1>3 DEF ReportReporter, Serving, TypeOK
  <2>2. ASSUME NEW x \in Nat, Becomes(t, Changed(req[t], "record", x, req[t].found, clock))
        PROVE  RequestsTyped'
    BY <1>1, <2>1, <2>2, ChangedTyped, BecomesTyped
  <2>3. RequestsTyped'
    BY <1>3, <2>2, ReporterMoves, IdleTyped
  <2>4. QED
    BY <1>3, <2>3 DEF ReportReporter, TypeOK, RequestsTyped, Knows
<1>4. ASSUME NEW t \in Threads, ReportRecord(t)
      PROVE  TypeOK'
  <2>1. req[t].pc \in Serving /\ clock \in Nat /\ "count" \in Serving
    BY <1>4 DEF ReportRecord, Serving, TypeOK
  <2>2. ASSUME Becomes(t, Changed(req[t], "count", req[t].registered, req[t].found, clock))
        PROVE  RequestsTyped'
    BY <1>1, <2>1, <2>2, ChangedTyped, BecomesTyped
  <2>3. RequestsTyped'
    BY <1>4, <2>2, RecordMoves, IdleTyped
  <2>4. reports' \in Seq(ReportRow) /\ log' \in Seq(LogEntry)
    <3>1. reports \in Seq(ReportRow) /\ log \in Seq(LogEntry)
      BY DEF TypeOK
    <3>2. \/ UNCHANGED <<reports, log>>
          \/ \E row \in ReportRow, e \in LogEntry :
               reports' = Append(reports, row) /\ log' = Append(log, e)
      BY <1>4, RecordMoves
    <3>3. QED
      BY <3>1, <3>2, AppendTyped
  <2>5. QED
    BY <1>4, <2>3, <2>4 DEF ReportRecord, TypeOK, RequestsTyped, Knows
<1>5. ASSUME NEW t \in Threads, AutomatonCount(t)
      PROVE  TypeOK'
  <2>1. req[t].pc \in Serving /\ "status" \in Serving
    BY <1>5 DEF AutomatonCount, Serving
  <2>2. ASSUME NEW found \in SUBSET Agents,
               Becomes(t, Changed(req[t], "status", req[t].registered, found, req[t].since))
        PROVE  RequestsTyped'
    BY <1>1, <2>1, <2>2, ChangedTyped, BecomesTyped
  <2>3. RequestsTyped'
    BY <1>5, <2>2, CountMoves, IdleTyped
  <2>4. QED
    BY <1>5, <2>3 DEF AutomatonCount, TypeOK, RequestsTyped, Knows
<1>6. ASSUME NEW t \in Threads, AutomatonStatus(t)
      PROVE  TypeOK'
  <2>1. req[t].pc \in Serving /\ "suspend" \in Serving
    BY <1>6 DEF AutomatonStatus, Serving
  <2>2. ASSUME Becomes(t, Changed(req[t], "suspend", req[t].registered, req[t].found,
                                  req[t].since))
        PROVE  RequestsTyped'
    BY <1>1, <2>1, <2>2, ChangedTyped, BecomesTyped
  <2>3. RequestsTyped'
    BY <1>6, <2>2, StatusMoves, IdleTyped
  <2>4. QED
    BY <1>6, <2>3 DEF AutomatonStatus, TypeOK, RequestsTyped, Knows
<1>7. ASSUME NEW t \in Threads, AutomatonSuspend(t)
      PROVE  TypeOK'
  <2>1. /\ req[t].target \in Agents
        /\ req[t].category \in Categories \cup {None}
        /\ SuspendAgent(req[t].target, "report.auto_suspend", req[t].category, req[t].found)
    BY <1>7 DEF AutomatonSuspend, TypeOK, Serving
  <2>2. agents' \in [Agents -> AgentRow] /\ log' \in Seq(LogEntry)
    <3>1. log \in Seq(LogEntry)
      BY DEF TypeOK
    <3>2. agents' \in [Agents -> AgentRow] /\ \E e \in LogEntry : log' = Append(log, e)
      BY <1>1, <2>1, Suspending
    <3>3. QED
      BY <3>1, <3>2, AppendTyped
  <2>3. RequestsTyped'
    BY <1>7, Ends, IdleTyped DEF AutomatonSuspend
  <2>4. QED
    BY <1>7, <2>2, <2>3 DEF AutomatonSuspend, TypeOK, RequestsTyped, Knows
<1>8. ASSUME Outside
      PROVE  TypeOK'
  <2>1. log' \in Seq(LogEntry)
    <3>1. log \in Seq(LogEntry)
      BY DEF TypeOK
    <3>2. UNCHANGED log \/ \E e \in LogEntry : log' = Append(log, e)
      BY <1>8 DEF Outside
    <3>3. QED
      BY <3>1, <3>2, AppendTyped
  <2>2. QED
    BY <1>8, <2>1 DEF Outside, TypeOK
<1>9. ASSUME Passing
      PROVE  TypeOK'
  <2>1. RequestsTyped'
    BY <1>9, IdleType DEF Passing, RequestsTyped, Knows, TypeOK, Serving
  <2>2. QED
    BY <1>9, <2>1 DEF Passing, RequestsTyped, Knows, TypeOK
<1>10. QED
  BY <1>2, <1>3, <1>4, <1>5, <1>6, <1>7, <1>8, <1>9, StepCases

\* The tables and the requests have their types: in particular, a report that is being
\* served knows who reported whom of what (reputation.py, store.py).
THEOREM TypeCorrect == Spec => []TypeOK
  BY TypeInit, TypeStep, PTL DEF Spec

-----------------------------------------------------------------------------
(* Duplicates stay out.  The rule is looked at under the lock, for the     *)
(* very row that is then stored, whatever time the row has.                *)

LEMMA AppendHas ==
  ASSUME NEW S, NEW s \in Seq(S), NEW e
  PROVE  /\ \A i : i \in DOMAIN Append(s, e) <=> i \in DOMAIN s \/ i = Len(s) + 1
         /\ \A i \in DOMAIN s : Append(s, e)[i] = s[i] /\ i < Len(s) + 1
         /\ Append(s, e)[Len(s) + 1] = e
         /\ DOMAIN s = 1 .. Len(s) /\ Len(s) \in Nat
  OBVIOUS

\* A step leaves the reports alone, or stores one.
LEMMA ReportsStep ==
  ASSUME TypeOK, [Next]_vars
  PROVE  \/ UNCHANGED reports
         \/ \E t \in Threads : ReportRecord(t)
  BY StepCases DEF ReportRead, ReportReporter, AutomatonCount, AutomatonStatus,
                   AutomatonSuspend, Outside, Passing

LEMMA WindowStep == TypeOK /\ OneReportPerWindow /\ [Next]_vars => OneReportPerWindow'
<1> SUFFICES ASSUME TypeOK, OneReportPerWindow, [Next]_vars
             PROVE  OneReportPerWindow'
  OBVIOUS
<1>1. CASE UNCHANGED reports
  BY <1>1 DEF OneReportPerWindow
<1>2. ASSUME NEW t \in Threads, NEW counts \in BOOLEAN, NEW now \in Nat,
             Duplicates(req[t], now) = {},
             reports' = Append(reports, Row(t, counts, now))
      PROVE  OneReportPerWindow'
  <2> DEFINE new == Row(t, counts, now)
             n == Len(reports) + 1
  <2>1. /\ \A i : i \in DOMAIN reports' <=> i \in DOMAIN reports \/ i = n
        /\ \A i \in DOMAIN reports : reports'[i] = reports[i] /\ i < n
        /\ reports'[n] = new
        /\ DOMAIN reports = 1 .. Len(reports) /\ n \in Nat
    <3>1. reports \in Seq(ReportRow)
      BY DEF TypeOK
    <3>2. QED
      BY <1>2, <3>1, AppendHas
  <2>2. /\ new.reporter = req[t].reporter
        /\ new.target = req[t].target
        /\ new.category = req[t].category
        /\ new.submitted = now
    BY DEF Row
  <2> HIDE DEF new
  <2>3. ASSUME NEW i \in DOMAIN reports,
               reports[i].reporter = new.reporter,
               reports[i].target = new.target,
               reports[i].category = new.category
        PROVE  new.submitted >= reports[i].submitted + DupWindow
    <3>1. reports[i].submitted \in Nat /\ DupWindow \in Nat
      BY RowsTyped, ReputationConstants DEF ReportRow, ReputationConstants
    <3>2. ~(reports[i].submitted > now - DupWindow)
      BY <1>2, <2>2, <2>3 DEF Duplicates
    <3>3. QED
      BY <2>2, <3>1, <3>2
  <2>4. SUFFICES ASSUME NEW i \in DOMAIN reports', NEW j \in DOMAIN reports',
                        i < j,
                        reports'[i].reporter = reports'[j].reporter,
                        reports'[i].target = reports'[j].target,
                        reports'[i].category = reports'[j].category
                 PROVE  reports'[j].submitted >= reports'[i].submitted + DupWindow
    BY DEF OneReportPerWindow
  <2>5. CASE j \in DOMAIN reports
    <3>1. i \in DOMAIN reports
      BY <2>1, <2>4, <2>5
    <3>2. QED
      BY <2>1, <2>4, <2>5, <3>1 DEF OneReportPerWindow
  <2>6. CASE j = n
    <3>1. i \in DOMAIN reports
      BY <2>1, <2>4, <2>6
    <3>2. QED
      BY <2>1, <2>3, <2>4, <2>6, <3>1
  <2>7. QED
    BY <2>1, <2>5, <2>6
<1>3. ASSUME NEW t \in Threads, ReportRecord(t)
      PROVE  OneReportPerWindow'
  BY <1>1, <1>2, <1>3, RecordMoves
<1>4. QED
  BY <1>1, <1>3, ReportsStep

\* Store.create_report: two reports of one reporter about one target in one category
\* are a window apart, whichever threads store them, in whatever order.
THEOREM ReportsKeepTheirDistance == Spec => []OneReportPerWindow
<1>1. Init => OneReportPerWindow
  BY DEF Init, OneReportPerWindow
<1>2. QED
  BY <1>1, TypeCorrect, WindowStep, PTL DEF Spec

-----------------------------------------------------------------------------
(* Suspensions follow from the log.                                        *)

\* Entry j records a report by r of target in the category, which counts or does not.
Reported(j, r, target, category, counts) ==
  /\ log[j].event = "report.recorded"
  /\ log[j].reporters = {r}
  /\ log[j].fingerprint = target
  /\ log[j].category = category
  /\ log[j].counts = counts

\* Every report is in the log, with a date that is not before its own.
Backed ==
  \A i \in DOMAIN reports : \E j \in DOMAIN log :
    /\ Reported(j, reports[i].reporter, reports[i].target, reports[i].category,
                reports[i].counts)
    /\ log[j].ts >= reports[i].submitted

\* The automaton runs after a report that counts was logged, in a class of abuse.
Prompted ==
  \A t \in Threads : req[t].pc \in {"count", "status", "suspend"} =>
    /\ req[t].category \in AbuseClasses
    /\ \E k \in DOMAIN log : /\ Counted(k, req[t].reporter, req[t].target, req[t].category)
                            /\ log[k].ts = req[t].since

\* The log has what r needs in order to suspend its target.
Supported(r) ==
  /\ EnoughReporters(r.found)
  /\ \E k \in DOMAIN log :
       /\ Counted(k, r.reporter, r.target, r.category)
       /\ log[k].ts = r.since
       /\ \A a \in r.found : \E j \in DOMAIN log : /\ Counted(j, a, r.target, r.category)
                                                  /\ log[j].ts > log[k].ts - Window

Grounded == \A t \in Threads : req[t].pc \in {"status", "suspend"} => Supported(req[t])

ReplayInv == Backed /\ Prompted /\ Grounded

\* No step takes anything out of the log.
Grows == \A j \in DOMAIN log : j \in DOMAIN log' /\ log'[j] = log[j]

LEMMA LogStep ==
  ASSUME TypeOK, [Next]_vars
  PROVE  \/ UNCHANGED log
         \/ \E e \in LogEntry :
              /\ log' = Append(log, e)
              /\ e.event = "report.auto_suspend" =>
                   \E t \in Threads :
                     /\ req[t].pc = "suspend"
                     /\ e = Entry("report.auto_suspend", req[t].target, req[t].category,
                                  req[t].found, FALSE)
<1>1. ASSUME NEW t \in Threads, ReportRecord(t)
      PROVE  UNCHANGED log \/ \E e \in LogEntry : /\ log' = Append(log, e)
                                                 /\ e.event # "report.auto_suspend"
  <2>1. \A counts : Recorded(t, counts).event = "report.recorded"
    BY DEF Recorded, Entry
  <2>2. QED
    BY <1>1, <2>1, RecordMoves
<1>2. ASSUME NEW t \in Threads, AutomatonSuspend(t)
      PROVE  LET e == Entry("report.auto_suspend", req[t].target, req[t].category,
                            req[t].found, FALSE)
             IN  e \in LogEntry /\ log' = Append(log, e) /\ req[t].pc = "suspend"
  <2>1. /\ req[t].target \in Agents
        /\ req[t].category \in Categories \cup {None}
        /\ req[t].found \in SUBSET Agents
        /\ SuspendAgent(req[t].target, "report.auto_suspend", req[t].category, req[t].found)
    BY <1>2 DEF AutomatonSuspend, TypeOK, Serving, RequestRec
  <2>2. QED
    BY <1>2, <2>1, Suspending DEF AutomatonSuspend
<1>3. ASSUME Outside
      PROVE  UNCHANGED log \/ \E e \in LogEntry : /\ log' = Append(log, e)
                                                 /\ e.event # "report.auto_suspend"
  BY <1>3 DEF Outside, Moderating
<1>4. QED
  BY <1>1, <1>2, <1>3, StepCases DEF ReportRead, ReportReporter, AutomatonCount,
                                     AutomatonStatus, Passing

LEMMA LogGrows ==
  ASSUME TypeOK, [Next]_vars
  PROVE  Grows
<1>1. log \in Seq(LogEntry)
  BY DEF TypeOK
<1>2. UNCHANGED log \/ \E e \in LogEntry : log' = Append(log, e)
  BY LogStep
<1>3. QED
  BY <1>1, <1>2, AppendHas DEF Grows

LEMMA CountedKept ==
  ASSUME Grows, NEW j \in DOMAIN log, NEW r, NEW target, NEW category,
         Counted(j, r, target, category)
  PROVE  Counted(j, r, target, category)'
  BY DEF Grows, Counted

LEMMA SupportKept ==
  ASSUME Grows, NEW r, Supported(r)
  PROVE  Supported(r)'
<1>1. PICK k \in DOMAIN log :
         /\ Counted(k, r.reporter, r.target, r.category)
         /\ log[k].ts = r.since
         /\ \A a \in r.found : \E j \in DOMAIN log : /\ Counted(j, a, r.target, r.category)
                                                    /\ log[j].ts > log[k].ts - Window
  BY DEF Supported
<1>2. QED
  BY <1>1, CountedKept DEF Grows, Supported

LEMMA BackedStep == TypeOK /\ Backed /\ [Next]_vars => Backed'
<1> SUFFICES ASSUME TypeOK, Backed, [Next]_vars
             PROVE  Backed'
  OBVIOUS
<1>1. Grows
  BY LogGrows
<1>2. CASE UNCHANGED reports
  BY <1>1, <1>2 DEF Backed, Grows, Reported
<1>3. ASSUME NEW t \in Threads, NEW counts \in BOOLEAN, NEW now \in Nat, now <= clock,
             reports' = Append(reports, Row(t, counts, now)),
             log' = Append(log, Recorded(t, counts))
      PROVE  Backed'
  <2> DEFINE n == Len(reports) + 1
             l == Len(log) + 1
  <2>1. reports \in Seq(ReportRow) /\ log \in Seq(LogEntry)
    BY DEF TypeOK
  <2>2. /\ \A i : i \in DOMAIN reports' <=> i \in DOMAIN reports \/ i = n
        /\ \A i \in DOMAIN reports : reports'[i] = reports[i]
        /\ reports'[n] = Row(t, counts, now)
    BY <1>3, <2>1, AppendHas
  <2>3. l \in DOMAIN log' /\ log'[l] = Recorded(t, counts)
    BY <1>3, <2>1, AppendHas
  <2>4. ASSUME NEW i \in DOMAIN reports'
        PROVE  \E j \in DOMAIN log' :
                 /\ Reported(j, reports[i].reporter, reports[i].target, reports[i].category,
                             reports[i].counts)'
                 /\ log'[j].ts >= reports'[i].submitted
    <3>1. CASE i \in DOMAIN reports
      <4>1. PICK j \in DOMAIN log :
              /\ Reported(j, reports[i].reporter, reports[i].target, reports[i].category,
                          reports[i].counts)
              /\ log[j].ts >= reports[i].submitted
        BY <3>1 DEF Backed
      <4>2. QED
        BY <1>1, <2>2, <3>1, <4>1 DEF Grows, Reported
    <3>2. CASE i = n
      <4>1. reports'[i] = Row(t, counts, now)
        BY <2>2, <3>2
      <4>2. clock \in Nat
        BY DEF TypeOK
      <4>3. QED
        BY <1>3, <2>3, <4>1, <4>2 DEF Row, Recorded, Entry, Reported
    <3>3. QED
      BY <2>2, <3>1, <3>2
  <2>5. QED
    BY <2>4 DEF Backed
<1>4. ASSUME NEW t \in Threads, ReportRecord(t)
      PROVE  Backed'
  BY <1>2, <1>3, <1>4, RecordMoves
<1>5. QED
  BY <1>2, <1>4, ReportsStep

\* What the sections do to a request, as far as the log is concerned.
LEMMA RequestStep ==
  ASSUME TypeOK, [Next]_vars, NEW u \in Threads,
         req'[u].pc \in {"count", "status", "suspend"}
  PROVE  \/ req'[u] = req[u]
         \/ \E counts \in BOOLEAN :
              /\ counts
              /\ req[u].category \in AbuseClasses
              /\ log' = Append(log, Recorded(u, counts))
              /\ req'[u] = Changed(req[u], "count", req[u].registered, req[u].found, clock)
         \/ /\ req[u].pc = "count"
            /\ \E now \in ReadClock(u) :
                 LET found == EligibleReporters(req[u].target, req[u].category, now)
                 IN /\ EnoughReporters(found)
                    /\ req'[u] = Changed(req[u], "status", req[u].registered, found,
                                         req[u].since)
         \/ /\ req[u].pc = "status"
            /\ req'[u] = Changed(req[u], "suspend", req[u].registered, req[u].found,
                                 req[u].since)
<1>1. req'[u] # Idle
  BY IdleType
<1>2. ASSUME NEW t \in Threads, NEW reporter \in Agents, NEW target \in Agents,
             NEW category \in Categories, ReportRead(t, reporter, target, category)
      PROVE  req'[u] = req[u]
  BY <1>2 DEF ReportRead, TypeOK
<1>3. ASSUME NEW t \in Threads, ReportReporter(t)
      PROVE  req'[u] = req[u]
  <2>1. \A x : Changed(req[t], "record", x, req[t].found, clock).pc = "record"
    BY DEF Changed
  <2>2. QED
    BY <1>1, <1>3, <2>1, ReporterMoves DEF Becomes
<1>4. ASSUME NEW t \in Threads, ReportRecord(t)
      PROVE  \/ req'[u] = req[u]
             \/ \E counts \in BOOLEAN :
                  /\ counts
                  /\ req[u].category \in AbuseClasses
                  /\ log' = Append(log, Recorded(u, counts))
                  /\ req'[u] = Changed(req[u], "count", req[u].registered, req[u].found, clock)
  BY <1>1, <1>4, RecordMoves DEF Becomes
<1>5. ASSUME NEW t \in Threads, AutomatonCount(t)
      PROVE  \/ req'[u] = req[u]
             \/ /\ req[u].pc = "count"
                /\ \E now \in ReadClock(u) :
                     LET found == EligibleReporters(req[u].target, req[u].category, now)
                     IN /\ EnoughReporters(found)
                        /\ req'[u] = Changed(req[u], "status", req[u].registered, found,
                                             req[u].since)
  <2>1. req[t].pc = "count"
    BY <1>5 DEF AutomatonCount
  <2>2. QED
    BY <1>1, <1>5, <2>1, CountMoves DEF Becomes
<1>6. ASSUME NEW t \in Threads, AutomatonStatus(t)
      PROVE  \/ req'[u] = req[u]
             \/ /\ req[u].pc = "status"
                /\ req'[u] = Changed(req[u], "suspend", req[u].registered, req[u].found,
                                     req[u].since)
  <2>1. req[t].pc = "status"
    BY <1>6 DEF AutomatonStatus
  <2>2. QED
    BY <1>1, <1>6, <2>1, StatusMoves DEF Becomes
<1>7. ASSUME NEW t \in Threads, AutomatonSuspend(t)
      PROVE  req'[u] = req[u]
  BY <1>1, <1>7, Ends DEF AutomatonSuspend, Becomes
<1>8. ASSUME Outside \/ Passing
      PROVE  req'[u] = req[u]
  BY <1>1, <1>8 DEF Outside, Passing
<1>9. QED
  BY <1>2, <1>3, <1>4, <1>5, <1>6, <1>7, <1>8, StepCases

LEMMA PromptedStep == TypeOK /\ Prompted /\ [Next]_vars => Prompted'
<1> SUFFICES ASSUME TypeOK, Prompted, [Next]_vars, NEW u \in Threads,
                    req'[u].pc \in {"count", "status", "suspend"}
             PROVE  /\ req'[u].category \in AbuseClasses
                    /\ \E k \in DOMAIN log' :
                         /\ Counted(k, req[u].reporter, req[u].target, req[u].category)'
                         /\ log'[k].ts = req'[u].since
  BY DEF Prompted
<1>1. Grows
  BY LogGrows
<1>2. ASSUME req[u].pc \in {"count", "status", "suspend"},
             req'[u].reporter = req[u].reporter,
             req'[u].target = req[u].target,
             req'[u].category = req[u].category,
             req'[u].since = req[u].since
      PROVE  /\ req'[u].category \in AbuseClasses
             /\ \E k \in DOMAIN log' :
                  /\ Counted(k, req[u].reporter, req[u].target, req[u].category)'
                  /\ log'[k].ts = req'[u].since
  <2>1. PICK k \in DOMAIN log :
          /\ Counted(k, req[u].reporter, req[u].target, req[u].category)
          /\ log[k].ts = req[u].since
    BY <1>2 DEF Prompted
  <2>2. QED
    BY <1>1, <1>2, <2>1 DEF Grows, Counted, Prompted
<1>3. ASSUME req[u].category \in AbuseClasses,
             log' = Append(log, Recorded(u, TRUE)),
             req'[u] = Changed(req[u], "count", req[u].registered, req[u].found, clock)
      PROVE  /\ req'[u].category \in AbuseClasses
             /\ \E k \in DOMAIN log' :
                  /\ Counted(k, req[u].reporter, req[u].target, req[u].category)'
                  /\ log'[k].ts = req'[u].since
  <2>1. /\ Len(log) + 1 \in DOMAIN log'
        /\ log'[Len(log) + 1] = Recorded(u, TRUE)
    BY <1>3, AppendHas DEF TypeOK
  <2>2. clock \in Nat
    BY DEF TypeOK
  <2>3. QED
    BY <1>3, <2>1, <2>2 DEF Changed, Recorded, Entry, Counted
<1>4. \A pc, x, found, since :
        LET c == Changed(req[u], pc, x, found, since)
        IN  /\ c.reporter = req[u].reporter /\ c.target = req[u].target
            /\ c.category = req[u].category /\ c.since = since
  BY DEF Changed
<1>5. \/ req'[u] = req[u]
      \/ /\ req[u].category \in AbuseClasses
         /\ log' = Append(log, Recorded(u, TRUE))
         /\ req'[u] = Changed(req[u], "count", req[u].registered, req[u].found, clock)
      \/ /\ req[u].pc \in {"count", "status"}
         /\ \E pc, found : req'[u] = Changed(req[u], pc, req[u].registered, found, req[u].since)
  BY RequestStep
<1>6. CASE req'[u] = req[u]
  BY <1>2, <1>6
<1>7. CASE /\ req[u].pc \in {"count", "status"}
           /\ \E pc, found : req'[u] = Changed(req[u], pc, req[u].registered, found, req[u].since)
  BY <1>2, <1>4, <1>7
<1>8. QED
  BY <1>3, <1>5, <1>6, <1>7

LEMMA GroundedStep == TypeOK /\ Backed /\ Prompted /\ Grounded /\ [Next]_vars => Grounded'
<1> SUFFICES ASSUME TypeOK, Backed, Prompted, Grounded, [Next]_vars, NEW u \in Threads,
                    req'[u].pc \in {"status", "suspend"}
             PROVE  Supported(req[u])'
  BY DEF Grounded
<1>1. Grows
  BY LogGrows
\* What was found, and the log then had, supports the request that holds it.
<1>2. ASSUME NEW found, EnoughReporters(found), req'[u].found = found,
             req'[u].target = req[u].target,
             req'[u].category = req[u].category,
             req'[u].reporter = req[u].reporter,
             req'[u].since = req[u].since,
             NEW k \in DOMAIN log,
             Counted(k, req[u].reporter, req[u].target, req[u].category),
             log[k].ts = req[u].since,
             \A a \in found : \E j \in DOMAIN log :
               /\ Counted(j, a, req[u].target, req[u].category)
               /\ log[j].ts > log[k].ts - Window
      PROVE  Supported(req[u])'
  <2>1. /\ k \in DOMAIN log' /\ log'[k].ts = req'[u].since
        /\ Counted(k, req[u].reporter, req[u].target, req[u].category)'
    BY <1>1, <1>2 DEF Grows, Counted
  <2>2. ASSUME NEW a \in found
        PROVE  \E j \in DOMAIN log' : /\ Counted(j, a, req[u].target, req[u].category)'
                                     /\ log'[j].ts > log'[k].ts - Window
    <3>1. PICK j \in DOMAIN log : /\ Counted(j, a, req[u].target, req[u].category)
                                 /\ log[j].ts > log[k].ts - Window
      BY <1>2
    <3>2. QED
      BY <1>1, <1>2, <3>1 DEF Grows, Counted
  <2>3. EnoughReporters(req'[u].found)
    BY <1>2
  <2>4. QED
    BY <1>2, <2>1, <2>2, <2>3 DEF Supported, EnoughReporters
\* A request that suspends next, or has just been read, holds what it held.
<1>3. ASSUME req[u].pc \in {"status", "suspend"},
             req'[u].found = req[u].found,
             req'[u].target = req[u].target,
             req'[u].category = req[u].category,
             req'[u].reporter = req[u].reporter,
             req'[u].since = req[u].since
      PROVE  Supported(req[u])'
  <2>1. Supported(req[u])
    BY <1>3 DEF Grounded
  <2>2. PICK k \in DOMAIN log :
          /\ Counted(k, req[u].reporter, req[u].target, req[u].category)
          /\ log[k].ts = req[u].since
          /\ \A a \in req[u].found : \E j \in DOMAIN log :
               /\ Counted(j, a, req[u].target, req[u].category)
               /\ log[j].ts > log[k].ts - Window
    BY <2>1 DEF Supported
  <2>3. QED
    BY <1>2, <1>3, <2>1, <2>2 DEF Supported
<1>4. ASSUME req[u].pc = "count", NEW now \in ReadClock(u), NEW found,
             found = EligibleReporters(req[u].target, req[u].category, now),
             EnoughReporters(found),
             req'[u] = Changed(req[u], "status", req[u].registered, found, req[u].since)
      PROVE  Supported(req[u])'
  <2>1. PICK k \in DOMAIN log :
          /\ Counted(k, req[u].reporter, req[u].target, req[u].category)
          /\ log[k].ts = req[u].since
    BY <1>4 DEF Prompted
  <2>2. /\ log[k].ts \in Nat /\ req[u].since \in Nat /\ Window \in Nat
        /\ now \in Int /\ req[u].since <= now
    <3>1. log[k].ts \in Nat
      BY <2>1, RowsTyped DEF LogEntry
    <3>2. req[u].since \in Nat
      BY DEF TypeOK, RequestRec
    <3>3. now \in Int /\ req[u].since <= now
      BY <1>4 DEF ReadClock
    <3> QED
      BY <3>1, <3>2, <3>3, ReputationConstants DEF ReputationConstants
  <2>3. ASSUME NEW a \in found
        PROVE  \E j \in DOMAIN log : /\ Counted(j, a, req[u].target, req[u].category)
                                    /\ log[j].ts > log[k].ts - Window
    <3>1. PICK i \in DOMAIN reports :
            /\ reports[i].reporter = a
            /\ reports[i].target = req[u].target
            /\ reports[i].category = req[u].category
            /\ reports[i].counts
            /\ reports[i].submitted > now - Window
      BY <1>4, <2>3 DEF EligibleReporters
    <3>2. PICK j \in DOMAIN log :
            /\ Counted(j, a, req[u].target, req[u].category)
            /\ log[j].ts >= reports[i].submitted
      BY <3>1 DEF Backed, Reported, Counted
    <3>3. reports[i].submitted \in Nat /\ log[j].ts \in Nat
      BY RowsTyped DEF ReportRow, LogEntry
    <3>4. QED
      BY <2>1, <2>2, <3>1, <3>2, <3>3
  <2>4. /\ req'[u].found = found /\ req'[u].target = req[u].target
        /\ req'[u].category = req[u].category /\ req'[u].reporter = req[u].reporter
        /\ req'[u].since = req[u].since
    BY <1>4 DEF Changed
  <2>5. QED
    BY <1>2, <1>4, <2>1, <2>3, <2>4
<1>5. \A pc, x, found, since :
        LET c == Changed(req[u], pc, x, found, since)
        IN  /\ c.pc = pc /\ c.found = found /\ c.reporter = req[u].reporter
            /\ c.target = req[u].target /\ c.category = req[u].category /\ c.since = since
  BY DEF Changed
<1>6. CASE req'[u] = req[u]
  BY <1>3, <1>6
<1>7. CASE /\ req[u].pc = "status"
           /\ req'[u] = Changed(req[u], "suspend", req[u].registered, req[u].found,
                                req[u].since)
  BY <1>3, <1>5, <1>7
<1>8. CASE req'[u] = Changed(req[u], "count", req[u].registered, req[u].found, clock)
  BY <1>5, <1>8
<1>9. QED
  BY <1>4, <1>6, <1>7, <1>8, RequestStep

LEMMA ReplayStep ==
  ASSUME TypeOK, Prompted, Grounded, NEW t \in Threads, AutomatonSuspend(t)
  PROVE  LET r == req[t]  named == log'[Len(log')].reporters
         IN /\ r.category \in AbuseClasses
            /\ Cardinality(named) >= Threshold
            /\ \E k \in DOMAIN log :
                 /\ Counted(k, r.reporter, r.target, r.category)
                 /\ log[k].ts = r.since
                 /\ \A a \in named : \E j \in DOMAIN log :
                      /\ Counted(j, a, r.target, r.category)
                      /\ log[j].ts > log[k].ts - Window
<1> DEFINE e == Entry("report.auto_suspend", req[t].target, req[t].category,
                      req[t].found, FALSE)
<1>1. req[t].category \in AbuseClasses /\ Supported(req[t])
  BY DEF AutomatonSuspend, Prompted, Grounded
<1>2. log' = Append(log, e) /\ e.reporters = req[t].found
  BY DEF AutomatonSuspend, SuspendAgent, Entry
<1> HIDE DEF e
<1>3. log \in Seq(LogEntry)
  BY DEF TypeOK
<1>4. log'[Len(log')] = e
  BY <1>2, <1>3
<1>5. QED
  BY <1>1, <1>2, <1>4 DEF Supported, EnoughReporters

LEMMA ReplayInvInit == Init => ReplayInv
  BY IdleType DEF Init, ReplayInv, Backed, Prompted, Grounded

LEMMA ReplayInvStep == TypeOK /\ ReplayInv /\ [Next]_vars => ReplayInv'
  BY BackedStep, PromptedStep, GroundedStep DEF ReplayInv

\* reputation.py, _maybe_auto_suspend: every automatic suspension follows from what the
\* log then has: the report that set it off, and of each agent it names one that is not
\* older than Window before it, though counting, reading the status and suspending are
\* three sections and reports, moderators and other automata come in between.
THEOREM SuspensionsFollowTheLog == Spec => SuspensionsReplay
<1>1. TypeOK /\ ReplayInv /\ [Next]_vars
        => [\A t \in Threads : AutomatonSuspend(t) =>
              LET r == req[t]  named == log'[Len(log')].reporters
              IN /\ r.category \in AbuseClasses
                 /\ Cardinality(named) >= Threshold
                 /\ \E k \in DOMAIN log :
                      /\ Counted(k, r.reporter, r.target, r.category)
                      /\ log[k].ts = r.since
                      /\ \A a \in named : \E j \in DOMAIN log :
                           /\ Counted(j, a, r.target, r.category)
                           /\ log[j].ts > log[k].ts - Window]_vars
  BY ReplayStep DEF ReplayInv
<1>2. QED
  BY <1>1, TypeCorrect, ReplayInvInit, ReplayInvStep, PTL DEF Spec, SuspensionsReplay

-----------------------------------------------------------------------------
(* The automaton acts.                                                     *)

ClockBounded == clock \in 1 .. MaxClock

LEMMA ClockStep == TypeOK /\ ClockBounded /\ [Next]_vars => ClockBounded'
<1> SUFFICES ASSUME TypeOK, ClockBounded, [Next]_vars
             PROVE  ClockBounded'
  OBVIOUS
<1>1. clock' = clock \/ Tick
  BY DEF Next, vars, ReportRead, Serve, ReportReporter, ReportRecord, AutomatonCount,
         AutomatonStatus, AutomatonSuspend, Takedown, ModeratorSuspend, Unsuspend,
         Register, Lapse, PruneExpired, Restart, BlockStart, BlockFraud, BlockPayment
<1>2. MaxClock \in Nat
  BY ReputationConstants DEF ReputationConstants
<1>3. QED
  BY <1>1, <1>2 DEF ClockBounded, Tick

\* What is within the window at a time was within it at every earlier one.
LEMMA FewerLater ==
  ASSUME TypeOK, NEW target, NEW category, NEW now \in Nat, NEW later \in Nat, now <= later
  PROVE  EligibleReporters(target, category, later)
           \subseteq EligibleReporters(target, category, now)
<1>1. Window \in Nat
  BY ReputationConstants DEF ReputationConstants
<1>2. \A i \in DOMAIN reports : reports[i].submitted \in Nat
  BY RowsTyped DEF ReportRow
<1>3. QED
  BY <1>1, <1>2 DEF EligibleReporters

LEMMA AmpleSuffice ==
  ASSUME TypeOK, ClockBounded, NEW t \in Threads, AmpleReports(req[t]), NEW now \in ReadClock(t)
  PROVE  EnoughReporters(EligibleReporters(req[t].target, req[t].category, now))
<1> DEFINE found == EligibleReporters(req[t].target, req[t].category, now)
           ample == EligibleReporters(req[t].target, req[t].category, MaxClock)
<1>1. now \in Nat /\ MaxClock \in Nat /\ now <= MaxClock
  BY ReputationConstants DEF ReputationConstants, ReadClock, TypeOK, RequestRec, ClockBounded
<1>2. ample \subseteq found
  BY <1>1, FewerLater
<1>3. IsFiniteSet(found) /\ IsFiniteSet(ample)
  BY ReportersAreAgents
<1>4. Cardinality(ample) >= Threshold
  BY DEF AmpleReports
<1>5. Threshold \in Nat
  BY ReputationConstants DEF ReputationConstants
<1> HIDE DEF found, ample
<1>6. Cardinality(ample) \in Nat /\ Cardinality(found) \in Nat
  BY <1>3, FS_CardinalityType
<1>7. Cardinality(ample) <= Cardinality(found)
  BY <1>2, <1>3, FS_Subset
<1>8. Cardinality(found) >= Threshold
  BY <1>4, <1>5, <1>6, <1>7
<1>9. QED
  BY <1>8 DEF EnoughReporters, found

LEMMA ActsStep ==
  ASSUME TypeOK, ClockBounded, NEW t \in Threads, Serve(t),
         req[t].pc \in {"count", "status", "suspend"}, AmpleReports(req[t]), req'[t] = Idle
  PROVE  agents'[req[t].target].status # "listed"
<1>1. req[t].target \in Agents
  BY DEF TypeOK, Serving
<1>2. ASSUME AutomatonCount(t)
      PROVE  FALSE
  <2>1. PICK now \in ReadClock(t) :
          LET found == EligibleReporters(req[t].target, req[t].category, now)
          IN \/ /\ EnoughReporters(found)
                /\ req' = [req EXCEPT ![t].pc = "status", ![t].found = found]
             \/ /\ ~EnoughReporters(found)
                /\ Finish(t)
    BY <1>2 DEF AutomatonCount
  <2> DEFINE found == EligibleReporters(req[t].target, req[t].category, now)
  <2>2. EnoughReporters(found)
    BY AmpleSuffice
  <2> HIDE DEF found
  <2>3. req' = [req EXCEPT ![t].pc = "status", ![t].found = found]
    BY <2>1, <2>2 DEF found
  <2>4. req'[t] = [req[t] EXCEPT !.pc = "status", !.found = found]
    BY <2>3 DEF TypeOK
  <2>5. req'[t] = Changed(req[t], "status", req[t].registered, found, req[t].since)
    BY <2>4, Moves DEF TypeOK
  <2>6. QED
    BY <2>5, IdleType DEF Changed
<1>3. ASSUME AutomatonStatus(t)
      PROVE  agents'[req[t].target].status # "listed"
  <2>1. CASE Finish(t) /\ agents[req[t].target].status # "listed"
    BY <1>3, <2>1 DEF AutomatonStatus
  <2>2. CASE req' = [req EXCEPT ![t].pc = "suspend"]
    <3>1. req'[t].pc = "suspend"
      BY <2>2 DEF TypeOK, RequestRec
    <3>2. QED
      BY <3>1, IdleType
  <2>3. QED
    BY <1>3, <2>1, <2>2 DEF AutomatonStatus
<1>4. ASSUME AutomatonSuspend(t)
      PROVE  agents'[req[t].target].status # "listed"
  BY <1>1, <1>4 DEF AutomatonSuspend, SuspendAgent, TypeOK, AgentRow
<1>5. QED
  BY <1>2, <1>3, <1>4 DEF Serve, ReportReporter, ReportRecord

\* reputation.py, _maybe_auto_suspend: with enough reports that stay within the window,
\* the request that stored the last of them ends with the target hidden, whatever other
\* threads and the moderator do between its sections; only a restart can cut it short.
THEOREM AmpleReportsHide == Spec => AutomatonActs
<1>1. Init => ClockBounded
  BY ReputationConstants DEF Init, ClockBounded, ReputationConstants
<1>2. TypeOK /\ ClockBounded /\ [Next]_vars
        => [\A t \in Threads :
              /\ Serve(t)
              /\ req[t].pc \in {"count", "status", "suspend"}
              /\ AmpleReports(req[t])
              /\ req'[t] = Idle
              => agents'[req[t].target].status # "listed"]_vars
  BY ActsStep
<1>3. QED
  BY <1>1, <1>2, ClockStep, TypeCorrect, PTL DEF Spec, AutomatonActs

-----------------------------------------------------------------------------
(* What the trust block shows follows from the log.                        *)

\* Each of these agents has a report against target in the category.
HaveReported(found, target, category) ==
  \A a \in found : \E i \in DOMAIN reports :
    /\ reports[i].reporter = a
    /\ reports[i].target = target
    /\ reports[i].category = category

\* Those for whom a target is about to be hidden, or was, have reported it; and an agent
\* is only ever hidden for enough of them, in a class of abuse.
Founded ==
  /\ \A t \in Threads : req[t].pc \in {"status", "suspend"} =>
       HaveReported(req[t].found, req[t].target, req[t].category)
  /\ \A j \in DOMAIN log : log[j].event = "report.auto_suspend" =>
       /\ HaveReported(log[j].reporters, log[j].fingerprint, log[j].category)
       /\ log[j].category \in AbuseClasses
       /\ EnoughReporters(log[j].reporters)

\* No report is ever taken back.
LEMMA ReportsStay ==
  ASSUME TypeOK, [Next]_vars
  PROVE  \A i \in DOMAIN reports : i \in DOMAIN reports' /\ reports'[i] = reports[i]
<1>1. reports \in Seq(ReportRow)
  BY DEF TypeOK
<1>2. UNCHANGED reports \/ \E row \in ReportRow : reports' = Append(reports, row)
  BY ReportsStep, RecordMoves
<1>3. QED
  BY <1>1, <1>2, AppendHas

StillReported(found, target, category) ==
  \A a \in found : \E i \in DOMAIN reports' :
    /\ reports'[i].reporter = a
    /\ reports'[i].target = target
    /\ reports'[i].category = category

LEMMA HaveReportedStays ==
  ASSUME TypeOK, [Next]_vars, NEW found, NEW target, NEW category,
         HaveReported(found, target, category)
  PROVE  StillReported(found, target, category)
  BY ReportsStay DEF HaveReported, StillReported

LEMMA FoundedStep == TypeOK /\ ReplayInv /\ Founded /\ [Next]_vars => Founded'
<1> SUFFICES ASSUME TypeOK, Prompted, Grounded, Founded, [Next]_vars
             PROVE  Founded'
  BY DEF ReplayInv
<1>1. ASSUME NEW u \in Threads, req'[u].pc \in {"status", "suspend"}
      PROVE  HaveReported(req[u].found, req[u].target, req[u].category)'
  <2>1. SUFFICES HaveReported(req'[u].found, req'[u].target, req'[u].category)
    <3>1. \A found, target, category :
            HaveReported(found, target, category) => StillReported(found, target, category)
      BY HaveReportedStays
    <3>2. StillReported(req'[u].found, req'[u].target, req'[u].category)
      BY <2>1, <3>1
    <3>3. QED
      BY <3>2 DEF StillReported, HaveReported
  <2>2. \A pc, x, found, since :
          LET c == Changed(req[u], pc, x, found, since)
          IN  /\ c.pc = pc /\ c.found = found
              /\ c.target = req[u].target /\ c.category = req[u].category
    BY DEF Changed
  <2>3. CASE req'[u] = req[u]
    BY <1>1, <2>3 DEF Founded
  <2>4. CASE /\ req[u].pc = "status"
             /\ req'[u] = Changed(req[u], "suspend", req[u].registered, req[u].found,
                                  req[u].since)
    BY <2>2, <2>4 DEF Founded
  <2>5. ASSUME NEW now,
               req'[u] = Changed(req[u], "status", req[u].registered,
                                 EligibleReporters(req[u].target, req[u].category, now),
                                 req[u].since)
        PROVE  HaveReported(req'[u].found, req'[u].target, req'[u].category)
    <3>1. /\ req'[u].found = EligibleReporters(req[u].target, req[u].category, now)
          /\ req'[u].target = req[u].target /\ req'[u].category = req[u].category
      BY <2>2, <2>5
    <3>2. QED
      BY <3>1 DEF EligibleReporters, HaveReported
  <2>6. CASE req'[u] = Changed(req[u], "count", req[u].registered, req[u].found, clock)
    BY <1>1, <2>2, <2>6
  <2>7. QED
    BY <1>1, <2>3, <2>4, <2>5, <2>6, RequestStep
<1>2. ASSUME NEW j \in DOMAIN log', log'[j].event = "report.auto_suspend"
      PROVE  /\ HaveReported(log[j].reporters, log[j].fingerprint, log[j].category)'
             /\ log'[j].category \in AbuseClasses
             /\ EnoughReporters(log'[j].reporters)
  <2>1. SUFFICES /\ HaveReported(log'[j].reporters, log'[j].fingerprint, log'[j].category)
                 /\ log'[j].category \in AbuseClasses
                 /\ EnoughReporters(log'[j].reporters)
    <3>1. \A found, target, category :
            HaveReported(found, target, category) => StillReported(found, target, category)
      BY HaveReportedStays
    <3>2. StillReported(log'[j].reporters, log'[j].fingerprint, log'[j].category)
      BY <2>1, <3>1
    <3>3. HaveReported(log[j].reporters, log[j].fingerprint, log[j].category)'
      BY <3>2 DEF StillReported, HaveReported
    <3>4. QED
      BY <2>1, <3>3
  <2>2. CASE j \in DOMAIN log
    <3>1. log'[j] = log[j]
      BY <2>2, LogGrows DEF Grows
    <3>2. QED
      BY <1>2, <2>2, <3>1 DEF Founded
  <2>3. CASE j \notin DOMAIN log
    <3>1. PICK e \in LogEntry :
            /\ log' = Append(log, e)
            /\ e.event = "report.auto_suspend" =>
                 \E t \in Threads :
                   /\ req[t].pc = "suspend"
                   /\ e = Entry("report.auto_suspend", req[t].target, req[t].category,
                                req[t].found, FALSE)
      BY <1>2, <2>3, LogStep
    <3>2. log \in Seq(LogEntry)
      BY DEF TypeOK
    <3>3. log'[j] = e
      BY <1>2, <2>3, <3>1, <3>2, AppendHas
    <3>4. PICK t \in Threads :
            /\ req[t].pc = "suspend"
            /\ e = Entry("report.auto_suspend", req[t].target, req[t].category,
                         req[t].found, FALSE)
      BY <1>2, <3>1, <3>3
    <3>5. /\ e.reporters = req[t].found /\ e.fingerprint = req[t].target
          /\ e.category = req[t].category
      BY <3>4 DEF Entry
    <3>6. /\ HaveReported(req[t].found, req[t].target, req[t].category)
          /\ req[t].category \in AbuseClasses
          /\ EnoughReporters(req[t].found)
      BY <3>4 DEF Founded, Prompted, Grounded, Supported
    <3>7. QED
      BY <3>3, <3>5, <3>6
  <2>4. QED
    BY <2>2, <2>3
<1>3. QED
  BY <1>1, <1>2 DEF Founded

LEMMA SubsetOfAgents ==
  ASSUME NEW S, NEW T \in SUBSET Agents, S \subseteq T
  PROVE  /\ Cardinality(S) \in Nat /\ Cardinality(T) \in Nat
         /\ Cardinality(S) <= Cardinality(T)
<1>1. IsFiniteSet(Agents)
  BY ReputationConstants DEF ReputationConstants
<1>2. IsFiniteSet(T)
  BY <1>1, FS_Subset
<1>3. IsFiniteSet(S) /\ Cardinality(S) <= Cardinality(T)
  BY <1>2, FS_Subset
<1>4. QED
  BY <1>2, <1>3, FS_CardinalityType

\* Each of these agents is in the log, with a report of fp in the category since a time.
Attested(found, fp, category, since) ==
  \A a \in found : \E j \in DOMAIN log : Counted(j, a, fp, category) /\ log[j].ts > since

StillAttested(found, fp, category, since) ==
  \A a \in found : \E j \in DOMAIN log' :
    /\ log'[j].event = "report.recorded"
    /\ log'[j].reporters = {a}
    /\ log'[j].fingerprint = fp
    /\ log'[j].category = category
    /\ log'[j].counts
    /\ log'[j].ts > since

LEMMA AttestedStays ==
  ASSUME Grows, NEW found, NEW fp, NEW category, NEW since, Attested(found, fp, category, since)
  PROVE  StillAttested(found, fp, category, since)
  BY DEF Grows, Attested, StillAttested, Counted

\* Those who are counted at a time are in the log, since any earlier one.
LEMMA EligibleAreAttested ==
  ASSUME TypeOK, Backed, NEW fp, NEW category, NEW begun \in Nat, NEW now \in Nat,
         begun <= now
  PROVE  Attested(EligibleReporters(fp, category, now), fp, category, begun - Window)
<1> SUFFICES ASSUME NEW a \in EligibleReporters(fp, category, now)
             PROVE  \E j \in DOMAIN log : /\ Counted(j, a, fp, category)
                                          /\ log[j].ts > begun - Window
  BY DEF Attested
<1>1. PICK i \in DOMAIN reports :
        /\ reports[i].reporter = a
        /\ reports[i].target = fp
        /\ reports[i].category = category
        /\ reports[i].counts
        /\ reports[i].submitted > now - Window
  BY DEF EligibleReporters
<1>2. PICK j \in DOMAIN log :
        /\ Counted(j, a, fp, category)
        /\ log[j].ts >= reports[i].submitted
  BY <1>1 DEF Backed, Reported, Counted
<1>3. reports[i].submitted \in Nat /\ log[j].ts \in Nat /\ Window \in Nat
  BY RowsTyped, ReputationConstants DEF ReportRow, LogEntry, ReputationConstants
<1>4. log[j].ts > begun - Window
  BY <1>1, <1>2, <1>3
<1>5. QED
  BY <1>2, <1>4

\* A trust block holds only what the log attests since Window before it was begun.
Attributed(b) ==
  /\ b.pc \in {"fraud", "payment"} => b.begun <= b.since
  /\ b.pc = "payment" => Attested(b.fraud, b.target, Fraud, b.begun - Window)

BlocksAttributed == \A t \in Threads : Attributed(blocks[t])

LEMMA BlockChanges ==
  ASSUME TypeOK, [Next]_vars, NEW u \in Threads
  PROVE  \/ blocks'[u] = blocks[u]
         \/ blocks'[u] = NoBlock
         \/ \E fp \in Agents :
              blocks'[u] = [pc |-> "fraud", target |-> fp, fraud |-> {},
                            begun |-> clock, since |-> clock]
         \/ /\ blocks[u].pc = "fraud"
            /\ \E now \in BlockClock(u) :
                 blocks'[u] = [pc |-> "payment", target |-> blocks[u].target,
                               fraud |-> EligibleReporters(blocks[u].target, Fraud, now),
                               begun |-> blocks[u].begun, since |-> clock]
<1>1. \/ UNCHANGED blocks
      \/ Restart
      \/ \E t \in Threads : \/ \E fp \in Targets : BlockStart(t, fp)
                            \/ BlockFraud(t)
                            \/ BlockPayment(t)
  BY DEF Next, vars, ReportRead, Serve, ReportReporter, ReportRecord, AutomatonCount,
         AutomatonStatus, AutomatonSuspend, Takedown, ModeratorSuspend, Unsuspend,
         Register, Lapse, PruneExpired, Tick
<1>2. CASE Restart
  BY <1>2 DEF Restart
<1>3. ASSUME NEW t \in Threads, NEW fp \in Targets, BlockStart(t, fp)
      PROVE  \/ blocks'[u] = blocks[u]
             \/ \E a \in Agents :
                  blocks'[u] = [pc |-> "fraud", target |-> a, fraud |-> {},
                                begun |-> clock, since |-> clock]
  BY <1>3, ReputationConstants DEF BlockStart, TypeOK, ReputationConstants
<1>4. ASSUME NEW t \in Threads, BlockFraud(t)
      PROVE  \/ blocks'[u] = blocks[u]
             \/ /\ blocks[u].pc = "fraud"
                /\ \E now \in BlockClock(u) :
                     blocks'[u] = [pc |-> "payment", target |-> blocks[u].target,
                                   fraud |-> EligibleReporters(blocks[u].target, Fraud, now),
                                   begun |-> blocks[u].begun, since |-> clock]
  BY <1>4 DEF BlockFraud, TypeOK
<1>5. ASSUME NEW t \in Threads, BlockPayment(t)
      PROVE  blocks'[u] = blocks[u] \/ blocks'[u] = NoBlock
  BY <1>5 DEF BlockPayment, TypeOK
<1>6. QED
  BY <1>1, <1>2, <1>3, <1>4, <1>5

LEMMA AttributedStep ==
  TypeOK /\ ReplayInv /\ BlocksAttributed /\ [Next]_vars => BlocksAttributed'
<1> SUFFICES ASSUME TypeOK, Backed, BlocksAttributed, [Next]_vars, NEW u \in Threads
             PROVE  Attributed(blocks[u])'
  BY DEF ReplayInv, BlocksAttributed
<1>1. Attributed(blocks[u]) /\ blocks[u] \in BlockRec /\ clock \in Nat
  BY DEF BlocksAttributed, TypeOK
<1>2. CASE blocks'[u] = blocks[u]
  <2>1. \A found, fp, c, since :
          Attested(found, fp, c, since) => StillAttested(found, fp, c, since)
    BY LogGrows, AttestedStays
  <2>2. blocks[u].pc = "payment" =>
          StillAttested(blocks[u].fraud, blocks[u].target, Fraud, blocks[u].begun - Window)
    BY <1>1, <2>1 DEF Attributed
  <2>3. QED
    BY <1>1, <1>2, <2>2 DEF Attributed, Attested, StillAttested, Counted
<1>3. CASE blocks'[u] = NoBlock
  BY <1>3 DEF NoBlock, Attributed
<1>4. ASSUME NEW fp \in Agents,
             blocks'[u] = [pc |-> "fraud", target |-> fp, fraud |-> {},
                           begun |-> clock, since |-> clock]
      PROVE  Attributed(blocks[u])'
  BY <1>1, <1>4 DEF Attributed
<1>5. ASSUME blocks[u].pc = "fraud", NEW now \in BlockClock(u),
             blocks'[u] = [pc |-> "payment", target |-> blocks[u].target,
                           fraud |-> EligibleReporters(blocks[u].target, Fraud, now),
                           begun |-> blocks[u].begun, since |-> clock]
      PROVE  Attributed(blocks[u])'
  <2> DEFINE found == EligibleReporters(blocks[u].target, Fraud, now)
             since == blocks[u].begun - Window
  <2>1. /\ blocks[u].begun \in Nat /\ now \in Nat /\ now <= clock
        /\ blocks[u].begun <= now
    BY <1>1, <1>5 DEF BlockClock, BlockRec, Attributed
  <2>2. Attested(found, blocks[u].target, Fraud, since)
    BY <2>1, EligibleAreAttested
  <2>3. \A f, fp, c, s : Attested(f, fp, c, s) => StillAttested(f, fp, c, s)
    BY LogGrows, AttestedStays
  <2>4. /\ blocks'[u].fraud = found /\ blocks'[u].begun - Window = since
        /\ blocks'[u].target = blocks[u].target
        /\ blocks'[u].begun = blocks[u].begun /\ blocks'[u].since = clock
    BY <1>5
  <2> HIDE DEF found, since
  <2>5. StillAttested(found, blocks[u].target, Fraud, since)
    BY <2>2, <2>3
  <2>6. Attested(blocks[u].fraud, blocks[u].target, Fraud, blocks[u].begun - Window)'
    BY <2>4, <2>5 DEF Attested, StillAttested, Counted
  <2>7. blocks'[u].begun <= blocks'[u].since
    BY <1>1, <2>1, <2>4
  <2>8. QED
    BY <2>6, <2>7 DEF Attributed
<1>6. QED
  BY <1>2, <1>3, <1>4, <1>5, BlockChanges

\* A recommendation is blocked by agents the log names.
LEMMA RecommendationReplays ==
  ASSUME TypeOK, Backed, BlocksAttributed, NEW t \in Threads, blocks[t].pc = "payment",
         NEW now \in BlockClock(t),
         Recommended(blocks[t].fraud, EligibleReporters(blocks[t].target, PaymentFraud, now))
  PROVE  Cardinality(Witnesses(blocks[t].target, {Fraud, PaymentFraud},
                               blocks[t].begun - Window, TRUE)) >= 2
<1> DEFINE fp == blocks[t].target
           since == blocks[t].begun - Window
           payment == EligibleReporters(fp, PaymentFraud, now)
           named == blocks[t].fraud \cup payment
           witnesses == Witnesses(fp, {Fraud, PaymentFraud}, since, TRUE)
<1>1. blocks[t] \in BlockRec /\ Attributed(blocks[t])
  BY DEF TypeOK, BlocksAttributed
<1>2. blocks[t].begun \in Nat /\ now \in Nat /\ blocks[t].begun <= now
  BY <1>1 DEF BlockRec, Attributed, BlockClock
<1>3. Attested(payment, fp, PaymentFraud, since)
  BY <1>2, EligibleAreAttested
<1>4. Attested(blocks[t].fraud, fp, Fraud, since)
  BY <1>1 DEF Attributed
<1>5. payment \in SUBSET Agents /\ blocks[t].fraud \in SUBSET Agents
  BY <1>1, ReportersAreAgents DEF BlockRec
<1>6. Cardinality(named) >= 2
  BY DEF Recommended
<1> HIDE DEF payment, since, fp
<1>7. named \subseteq witnesses
  BY <1>3, <1>4, <1>5 DEF Attested, Counted, Witnesses
<1>8. witnesses \in SUBSET Agents
  BY DEF Witnesses
<1> HIDE DEF named, witnesses
<1>9. /\ Cardinality(named) \in Nat /\ Cardinality(witnesses) \in Nat
      /\ Cardinality(named) <= Cardinality(witnesses)
  BY <1>7, <1>8, SubsetOfAgents
<1>10. Cardinality(witnesses) >= 2
  BY <1>6, <1>9
<1>11. QED
  BY <1>10 DEF witnesses, fp, since

\* Every reporter that is counted is in the log.
LEMMA ReportersReplay ==
  ASSUME TypeOK, Backed, NEW fp \in Agents, NEW now \in Nat
  PROVE  Counters(fp, now).unique_reporters
           <= Cardinality(Witnesses(fp, Categories, now - Decay, FALSE))
<1> DEFINE named == {reports[i].reporter : i \in Shown(fp, now)}
           witnesses == Witnesses(fp, Categories, now - Decay, FALSE)
<1>1. ASSUME NEW a \in named
      PROVE  a \in witnesses
  <2>1. PICK i \in DOMAIN reports :
          /\ reports[i].reporter = a
          /\ reports[i].target = fp
          /\ reports[i].submitted > now - Decay
    BY DEF Shown
  <2>2. PICK j \in DOMAIN log :
          /\ Reported(j, a, fp, reports[i].category, reports[i].counts)
          /\ log[j].ts >= reports[i].submitted
    BY <2>1 DEF Backed
  <2>3. /\ reports[i].submitted \in Nat /\ log[j].ts \in Nat /\ a \in Agents
        /\ reports[i].category \in Categories /\ Decay \in Nat
    BY <2>1, RowsTyped, ReputationConstants
       DEF ReportRow, LogEntry, TypeOK, ReputationConstants
  <2>4. log[j].ts > now - Decay
    BY <2>1, <2>2, <2>3
  <2>5. QED
    BY <2>2, <2>3, <2>4 DEF Witnesses, Reported
<1>2. witnesses \in SUBSET Agents
  BY DEF Witnesses
<1>3. Counters(fp, now).unique_reporters = Cardinality(named)
  BY DEF Counters
<1> HIDE DEF named, witnesses
<1>4. Cardinality(named) <= Cardinality(witnesses)
  BY <1>1, <1>2, SubsetOfAgents
<1>5. QED
  BY <1>3, <1>4 DEF witnesses

\* Reports by so many agents are at least so many reports.
LEMMA ManyReporters ==
  ASSUME TypeOK, NEW S \in SUBSET DOMAIN reports, NEW found \in SUBSET Agents,
         \A a \in found : \E i \in S : reports[i].reporter = a
  PROVE  /\ Cardinality(found) \in Nat /\ Cardinality(S) \in Nat
         /\ Cardinality(found) <= Cardinality(S)
<1> DEFINE by == [i \in S |-> reports[i].reporter]
           reporters == {reports[i].reporter : i \in S}
<1>1. DOMAIN reports = 1 .. Len(reports) /\ Len(reports) \in Nat
  BY DEF TypeOK
<1>2. IsFiniteSet(1 .. Len(reports))
  BY <1>1, FS_Interval
<1>3. IsFiniteSet(S)
  BY <1>1, <1>2, FS_Subset
<1>4. by \in Surjection(S, reporters)
  BY DEF Surjection
<1>5. found \subseteq reporters
  OBVIOUS
<1> HIDE DEF by, reporters
<1>6. IsFiniteSet(reporters) /\ Cardinality(reporters) <= Cardinality(S)
  BY <1>3, <1>4, FS_Surjection
<1>7. IsFiniteSet(found) /\ Cardinality(found) <= Cardinality(reporters)
  BY <1>5, <1>6, FS_Subset
<1>8. /\ Cardinality(found) \in Nat /\ Cardinality(S) \in Nat
      /\ Cardinality(reporters) \in Nat
  BY <1>3, <1>6, <1>7, FS_CardinalityType
<1>9. QED
  BY <1>6, <1>7, <1>8

\* Those who hid an agent are among the reports that are shown of it.
LEMMA SuspensionIsShown ==
  ASSUME TypeOK, Founded, NEW now \in Nat, NEW j \in DOMAIN log,
         log[j].event = "report.auto_suspend",
         \A i \in DOMAIN reports : reports[i].submitted > now - Decay
  PROVE  Counters(log[j].fingerprint, now).by_category[log[j].category] >= Threshold
<1> DEFINE fp == log[j].fingerprint
           c == log[j].category
           shown == {i \in Shown(fp, now) : reports[i].category = c}
<1>1. log[j].reporters \in SUBSET Agents /\ Threshold \in Nat
  BY RowsTyped, ReputationConstants DEF LogEntry, ReputationConstants
<1>2. c \in AbuseClasses /\ Cardinality(log[j].reporters) >= Threshold
  BY DEF Founded, EnoughReporters
<1>3. c \in Categories
  BY <1>2, ReputationConstants DEF ReputationConstants
<1>4. Counters(fp, now).by_category[c] = Cardinality(shown)
  BY <1>3 DEF Counters
<1>5. shown \in SUBSET DOMAIN reports
  BY DEF Shown
<1>6. \A a \in log[j].reporters : \E i \in shown : reports[i].reporter = a
  BY DEF Founded, HaveReported, Shown
<1> HIDE DEF shown
<1>7. /\ Cardinality(log[j].reporters) \in Nat /\ Cardinality(shown) \in Nat
      /\ Cardinality(log[j].reporters) <= Cardinality(shown)
  BY <1>1, <1>5, <1>6, ManyReporters
<1>8. Cardinality(shown) >= Threshold
  BY <1>1, <1>2, <1>7
<1>9. QED
  BY <1>4, <1>8

LEMMA SignalsFollow == TypeOK /\ ReplayInv /\ Founded /\ BlocksAttributed => SignalsReplay
<1> SUFFICES ASSUME TypeOK, Backed, Founded, BlocksAttributed
             PROVE  SignalsReplay
  BY DEF ReplayInv
<1>1. ASSUME NEW t \in Threads, blocks[t].pc = "payment", NEW now \in BlockClock(t),
             Recommended(blocks[t].fraud,
                         EligibleReporters(blocks[t].target, PaymentFraud, now))
      PROVE  Cardinality(Witnesses(blocks[t].target, {Fraud, PaymentFraud},
                                   blocks[t].begun - Window, TRUE)) >= 2
  BY <1>1, RecommendationReplays
<1>2. ASSUME NEW fp \in Agents, NEW now \in 1 .. clock
      PROVE  /\ Counters(fp, now).unique_reporters <=
                  Cardinality(Witnesses(fp, Categories, now - Decay, FALSE))
             /\ \A i \in DOMAIN log :
                  /\ log[i].event = "report.auto_suspend"
                  /\ log[i].fingerprint = fp
                  /\ \A j \in DOMAIN reports : reports[j].submitted > now - Decay
                  => Counters(fp, now).by_category[log[i].category] >= Threshold
  <2>1. now \in Nat
    BY DEF TypeOK
  <2>2. QED
    BY <2>1, ReportersReplay, SuspensionIsShown
<1>3. QED
  BY <1>1, <1>2 DEF SignalsReplay

\* reputation.py, report_counters and block_recommendation: what a trust block says of
\* the reports against an agent follows from the log and is not more than the log has,
\* though its two fraud classes are read one after the other, each at its own time; and
\* who hid an agent is shown for as long as no report has decayed.
THEOREM SignalsFollowTheLog == Spec => []SignalsReplay
<1>1. Init => Founded /\ BlocksAttributed
  BY IdleType DEF Init, Founded, BlocksAttributed, Attributed, NoBlock
<1>2. QED
  BY <1>1, TypeCorrect, ReplayInvInit, ReplayInvStep, FoundedStep, AttributedStep,
     SignalsFollow, PTL DEF Spec

=============================================================================
