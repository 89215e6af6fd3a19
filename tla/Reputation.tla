------------------------------ MODULE Reputation ------------------------------
(***************************************************************************)
(* L4, behavioural reputation: signed reports, the auto-suspend automaton  *)
(* of reputation.py, the moderator's actions of moderation.py, and the     *)
(* tables of store.py they write.                                          *)
(*                                                                         *)
(* A report is served in up to six critical sections: read the target,     *)
(* read the reporter, store the report, count the reporters, read the      *)
(* target's status, suspend it.  A recommendation in a trust block rests   *)
(* on two more.  Between any two of them other handlers run, and the       *)
(* process may die.                                                        *)
(*                                                                         *)
(* The listing life cycle is module Directory's; here it is the            *)
(* environment, and what it may do to a row is what PhoneBook promises.    *)
(***************************************************************************)
EXTENDS Integers, Sequences, FiniteSets

CONSTANTS
  Agents,         \* fingerprints
  Targets,        \* the agents that are reported (all of them; fewer bounds a run)
  Threads,        \* handler threads
  None,           \* no fingerprint, no category
  Categories,     \* CATEGORIES
  AbuseClasses,   \* ABUSE_CLASSES
  Fraud,          \* the two categories that block_recommendation looks at:
  PaymentFraud,   \* "fraud" and "payment_fraud"
  Threshold,      \* config.auto_suspend_threshold
  Tenure,         \* config.report_tenure_hours
  DupWindow,      \* config.report_dup_window_hours
  Window,         \* config.report_window_days
  Decay,          \* config.report_decay_days
  MaxClock,       \* bound: the last clock value explored
  MaxReports,     \* bound: reports stored or being stored
  MaxOthers       \* bound: steps of the moderator and of the rest of the directory

ASSUME ReputationConstants ==
  /\ IsFiniteSet(Agents)
  /\ Targets \subseteq Agents
  /\ None \notin Agents \cup Categories
  /\ AbuseClasses \cup {Fraud, PaymentFraud} \subseteq Categories
  /\ {Threshold, Tenure, DupWindow, Window, Decay} \subseteq Nat
  /\ MaxClock \in Nat \ {0}                \* the clock starts at 1
  /\ {MaxReports, MaxOthers} \subseteq Nat

VARIABLES
  agents,    \* table agents: fingerprint -> row
  reports,   \* table reports, in the order the rows were inserted
  log,       \* the L4 entries of table audit_log, in seq order
  clock,     \* the injected clock
  req,       \* thread -> the report it is serving
  blocks,    \* thread -> the trust block it is putting together
  others     \* how many steps the moderator and the rest have made

vars == <<agents, reports, log, clock, req, blocks, others>>

-----------------------------------------------------------------------------
(* Rows.  due: expires_epoch has passed.  prune_expired turns a listed row *)
(* that is due into an expired one, some time later.                       *)

NoRow == [status |-> "absent", due |-> FALSE, registered |-> 0]

\* is_live_row
Live(fp) == agents[fp].status = "listed" /\ ~agents[fp].due

Idle == [pc |-> "idle", reporter |-> None, target |-> None, category |-> None,
         registered |-> 0, found |-> {}, since |-> 0]

NoBlock == [pc |-> "idle", target |-> None, fraud |-> {}, begun |-> 0, since |-> 0]

Finish(t) == req' = [req EXCEPT ![t] = Idle]

\* What self.now(), called after the previous section, may have returned.
ReadClock(t) == req[t].since .. clock

\* Faulty variant: the agent concerned and those who acted are swapped.
EntrySwapped(event, target, category, reporters, counts) ==
  [event |-> event, fingerprint |-> reporters, category |-> category,
   reporters |-> target, counts |-> counts, ts |-> clock]

\* _append_audit
Entry(event, target, category, reporters, counts) ==
  [event |-> event, fingerprint |-> target, category |-> category,
   reporters |-> reporters, counts |-> counts, ts |-> clock]

Init ==
  /\ clock = 1
  /\ agents = [fp \in Agents |-> NoRow]
  /\ reports = << >>
  /\ log = << >>
  /\ req = [t \in Threads |-> Idle]
  /\ blocks = [t \in Threads |-> NoBlock]
  /\ others = 0

-----------------------------------------------------------------------------
(* ReputationService.create_report.                                        *)

\* Reports are taken in while those stored and those on the way are fewer than their bound.
ReportsOpen ==
  Len(reports) + Cardinality({t \in Threads : req[t].pc \in {"reporter", "record"}}) < MaxReports

\* The body passes the whitelists; TARGET_NOT_LISTED unless the target is live.
ReportRead(t, reporter, target, category) ==
  /\ req[t] = Idle
  /\ blocks[t] = NoBlock
  /\ ReportsOpen
  /\ Live(target)
  /\ req' = [req EXCEPT ![t] = [pc |-> "reporter", reporter |-> reporter, target |-> target,
                                category |-> category, registered |-> 0,
                                found |-> {}, since |-> clock]]
  /\ UNCHANGED <<agents, reports, log, clock, others, blocks>>

ReportReporter(t) ==
  LET reporter == req[t].reporter
  IN /\ req[t].pc = "reporter"
     /\ \/ /\ Live(reporter)
           /\ req' = [req EXCEPT ![t].pc = "record", ![t].since = clock,
                                 ![t].registered = agents[reporter].registered]
        \/ /\ ~Live(reporter)                 \* REPORTER_NOT_ELIGIBLE
           /\ Finish(t)
     /\ UNCHANGED <<agents, reports, log, clock, others, blocks>>

\* Faulty variant: a report at the very edge of the window is not a duplicate.
DuplicatesAfter(r, now) ==
  {i \in DOMAIN reports : /\ reports[i].reporter = r.reporter
                          /\ reports[i].target = r.target
                          /\ reports[i].category = r.category
                          /\ reports[i].submitted > now - DupWindow + 1}

\* The rows that make a report a duplicate.
Duplicates(r, now) ==
  {i \in DOMAIN reports : /\ reports[i].reporter = r.reporter
                          /\ reports[i].target = r.target
                          /\ reports[i].category = r.category
                          /\ reports[i].submitted > now - DupWindow}

\* Store.create_report; only a report that counts, in an abuse class, goes on.
ReportRecord(t) ==
  LET r == req[t]
  IN /\ r.pc = "record"
     /\ \E tenureRead \in ReadClock(t) : \E now \in tenureRead .. clock :
          LET counts == tenureRead - r.registered >= Tenure
          IN \/ /\ Duplicates(r, now) = {}
                /\ reports' = Append(reports,
                     [reporter |-> r.reporter, target |-> r.target, category |-> r.category,
                      counts |-> counts, submitted |-> now])
                /\ log' = Append(log, Entry("report.recorded", r.target, r.category,
                                            {r.reporter}, counts))
                /\ req' = [req EXCEPT ![t] =
                             IF counts /\ r.category \in AbuseClasses
                             THEN [r EXCEPT !.pc = "count", !.since = clock] ELSE Idle]
             \/ /\ Duplicates(r, now) # {}    \* REPORT_EXISTS
                /\ Finish(t)
                /\ UNCHANGED <<reports, log>>
     /\ UNCHANGED <<agents, clock, others, blocks>>

\* Faulty variant: reports of any age are counted.
ReportersOfAnyAge(target, category, now) ==
  {reports[i].reporter : i \in {j \in DOMAIN reports :
     /\ reports[j].target = target
     /\ reports[j].category = category
     /\ reports[j].counts}}

\* unique_eligible_reporters_in_window
EligibleReporters(target, category, now) ==
  {reports[i].reporter : i \in {j \in DOMAIN reports :
     /\ reports[j].target = target
     /\ reports[j].category = category
     /\ reports[j].counts
     /\ reports[j].submitted > now - Window}}

\* Faulty variant: one reporter too many is asked for.
AboveThreshold(found) == Cardinality(found) > Threshold

EnoughReporters(found) == Cardinality(found) >= Threshold

\* _maybe_auto_suspend: count ...
AutomatonCount(t) ==
  /\ req[t].pc = "count"
  /\ \E now \in ReadClock(t) :
       LET found == EligibleReporters(req[t].target, req[t].category, now)
       IN \/ /\ EnoughReporters(found)
             /\ req' = [req EXCEPT ![t].pc = "status", ![t].found = found]
          \/ /\ ~EnoughReporters(found)
             /\ Finish(t)
  /\ UNCHANGED <<agents, reports, log, clock, others, blocks>>

\* ... read the row's status, whether or not it is due ...
AutomatonStatus(t) ==
  /\ req[t].pc = "status"
  /\ \/ /\ agents[req[t].target].status = "listed"
        /\ req' = [req EXCEPT ![t].pc = "suspend"]
     \/ /\ agents[req[t].target].status # "listed"
        /\ Finish(t)
  /\ UNCHANGED <<agents, reports, log, clock, others, blocks>>

\* Store.suspend_agent, which looks at nothing but that the row is there.
SuspendAgent(fp, event, category, reporters) ==
  /\ agents[fp].status # "absent"
  /\ agents' = [agents EXCEPT ![fp].status = "suspended"]
  /\ log' = Append(log, Entry(event, fp, category, reporters, FALSE))

\* ... and suspend.
AutomatonSuspend(t) ==
  /\ req[t].pc = "suspend"
  /\ SuspendAgent(req[t].target, "report.auto_suspend", req[t].category, req[t].found)
  /\ Finish(t)
  /\ UNCHANGED <<reports, clock, others, blocks>>

-----------------------------------------------------------------------------
(* ModerationService: moderator-signed, each a single write.               *)

Other == others < MaxOthers /\ others' = others + 1

\* takedown: the target is the one the report names; rows of reports never change.
Takedown(i) ==
  /\ i \in DOMAIN reports
  /\ SuspendAgent(reports[i].target, "moderator.takedown", None, {reports[i].reporter})
  /\ Other
  /\ UNCHANGED <<reports, clock, req, blocks>>

\* suspend
ModeratorSuspend(fp) ==
  /\ SuspendAgent(fp, "moderator.suspend", None, {})
  /\ Other
  /\ UNCHANGED <<reports, clock, req, blocks>>

\* unsuspend: listed again with a fresh TTL; the reports stay.
Unsuspend(fp) ==
  /\ agents[fp].status = "suspended"
  /\ agents' = [agents EXCEPT ![fp].status = "listed", ![fp].due = FALSE]
  /\ log' = Append(log, Entry("moderator.unsuspend", fp, None, {}, FALSE))
  /\ Other
  /\ UNCHANGED <<reports, clock, req, blocks>>

-----------------------------------------------------------------------------
(* What the trust block shows of the reports against an agent.  The        *)
(* counters are one read, and so are the same counters in public_reports;  *)
(* block_recommendation reads twice, and the clock each time.              *)

\* report_counters: every report within Decay, whether or not it counts.
Shown(fp, now) ==
  {i \in DOMAIN reports : reports[i].target = fp /\ reports[i].submitted > now - Decay}

Counters(fp, now) ==
  LET shown == Shown(fp, now)
      reporters == {reports[i].reporter : i \in shown}
  IN  [by_category |-> [c \in Categories |->
                          Cardinality({i \in shown : reports[i].category = c})],
       unique_reporters |-> Cardinality(reporters)]

\* build_trust_block, of a row that was live when it was read.
BlockStart(t, fp) ==
  /\ req[t] = Idle
  /\ blocks[t] = NoBlock
  /\ Live(fp)
  /\ blocks' = [blocks EXCEPT ![t] = [pc |-> "fraud", target |-> fp, fraud |-> {},
                                      begun |-> clock, since |-> clock]]
  /\ UNCHANGED <<agents, reports, log, clock, req, others>>

\* What self.now() may return to a section of the trust block.
BlockClock(t) == blocks[t].since .. clock

BlockFraud(t) ==
  /\ blocks[t].pc = "fraud"
  /\ \E now \in BlockClock(t) :
       blocks' = [blocks EXCEPT ![t] =
                    [pc |-> "payment", target |-> blocks[t].target,
                     fraud |-> EligibleReporters(blocks[t].target, Fraud, now),
                     begun |-> blocks[t].begun, since |-> clock]]
  /\ UNCHANGED <<agents, reports, log, clock, req, others>>

\* Faulty variant: an agent that reports in both classes is two witnesses.
RecommendedBySum(fraud, payment) == Cardinality(fraud) + Cardinality(payment) >= 2

\* block_recommendation, of what it found in the two classes
Recommended(fraud, payment) == Cardinality(fraud \cup payment) >= 2

\* The answer is Recommended of what was found, and of
\* EligibleReporters(blocks[t].target, PaymentFraud, now) for a now in BlockClock(t).
BlockPayment(t) ==
  /\ blocks[t].pc = "payment"
  /\ blocks' = [blocks EXCEPT ![t] = NoBlock]
  /\ UNCHANGED <<agents, reports, log, clock, req, others>>

-----------------------------------------------------------------------------
(* The rest of the directory, as far as it changes a row.                  *)

\* _upsert_agent_cur: tenure survives only a registration of a live agent.
Register(fp) ==
  /\ ~Live(fp)
  /\ agents' = [agents EXCEPT ![fp] = [status |-> "listed", due |-> FALSE,
                                       registered |-> clock]]
  /\ Other
  /\ UNCHANGED <<reports, log, clock, req, blocks>>

\* No heartbeat came in time, and later the row is pruned.
Lapse(fp) ==
  /\ Live(fp)
  /\ agents' = [agents EXCEPT ![fp].due = TRUE]
  /\ Other
  /\ UNCHANGED <<reports, log, clock, req, blocks>>

PruneExpired(fp) ==
  /\ agents[fp].status = "listed"
  /\ agents[fp].due
  /\ agents' = [agents EXCEPT ![fp].status = "expired"]
  /\ Other
  /\ UNCHANGED <<reports, log, clock, req, blocks>>

\* The process dies; a request in flight is lost, what it committed is not.
Restart ==
  /\ req' = [t \in Threads |-> Idle]
  /\ blocks' = [t \in Threads |-> NoBlock]
  /\ UNCHANGED <<agents, reports, log, clock, others>>

Tick ==
  /\ clock < MaxClock
  /\ clock' = clock + 1
  /\ UNCHANGED <<agents, reports, log, req, others, blocks>>

Serve(t) ==
  \/ ReportReporter(t)
  \/ ReportRecord(t)
  \/ AutomatonCount(t)
  \/ AutomatonStatus(t)
  \/ AutomatonSuspend(t)

Next ==
  \/ \E t \in Threads :
       \/ \E reporter \in Agents, target \in Targets, category \in Categories :
            ReportRead(t, reporter, target, category)
       \/ Serve(t)
       \/ \E fp \in Targets : BlockStart(t, fp)
       \/ BlockFraud(t)
       \/ BlockPayment(t)
  \/ \E i \in DOMAIN reports : Takedown(i)
  \/ \E fp \in Agents : \/ ModeratorSuspend(fp)
                        \/ Unsuspend(fp)
                        \/ Register(fp)
                        \/ Lapse(fp)
                        \/ PruneExpired(fp)
  \/ Restart
  \/ Tick

Spec == Init /\ [][Next]_vars

=============================================================================
