--------------------------- MODULE ReputationProps ---------------------------
(***************************************************************************)
(* What is checked of Reputation.                                          *)
(***************************************************************************)
EXTENDS Reputation

AgentRow == [status : {"absent", "listed", "expired", "suspended"}, due : BOOLEAN,
             registered : Nat]

ReportRow == [reporter : Agents, target : Agents, category : Categories,
              counts : BOOLEAN, submitted : Nat]

LogEntry == [event : {"report.recorded", "report.auto_suspend", "moderator.takedown",
                      "moderator.suspend", "moderator.unsuspend"},
             fingerprint : Agents, category : Categories \cup {None},
             reporters : SUBSET Agents, counts : BOOLEAN, ts : Nat]

Serving == {"reporter", "record", "count", "status", "suspend"}

RequestRec == [pc : Serving \cup {"idle"}, reporter : Agents \cup {None},
               target : Agents \cup {None}, category : Categories \cup {None},
               registered : Nat, found : SUBSET Agents, since : Nat]

BlockRec == [pc : {"idle", "fraud", "payment"}, target : Agents \cup {None},
             fraud : SUBSET Agents, begun : Nat, since : Nat]

\* The variables have their types, and a report being served knows its reporter,
\* its target and its category.
TypeOK ==
  /\ agents \in [Agents -> AgentRow]
  /\ reports \in Seq(ReportRow)
  /\ log \in Seq(LogEntry)
  /\ {clock, others} \subseteq Nat
  /\ req \in [Threads -> RequestRec]
  /\ blocks \in [Threads -> BlockRec]
  /\ \A t \in Threads : req[t].pc \in Serving =>
       /\ {req[t].reporter, req[t].target} \subseteq Agents
       /\ req[t].category \in Categories

-----------------------------------------------------------------------------
\* Two reports of one reporter about one target in one category are at least
\* DupWindow apart, whichever threads stored them and however long each waited
\* between reading the clock and getting the lock.
OneReportPerWindow ==
  \A i, j \in DOMAIN reports :
    /\ i < j
    /\ reports[i].reporter = reports[j].reporter
    /\ reports[i].target = reports[j].target
    /\ reports[i].category = reports[j].category
    => reports[j].submitted >= reports[i].submitted + DupWindow

\* Entry j records a report by r that counts against target, in the category.
Counted(j, r, target, category) ==
  /\ log[j].event = "report.recorded"
  /\ log[j].reporters = {r}
  /\ log[j].fingerprint = target
  /\ log[j].category = category
  /\ log[j].counts

\* Every automatic suspension can be replayed from the audit log: the report that set it
\* off is the one its own request had logged, as counting, in an abuse class; and the
\* agents it names are Threshold many, with counting reports of that class against the
\* same target in the log, none older than Window before the one that set it off.
SuspensionsReplay ==
  [][\A t \in Threads : AutomatonSuspend(t) =>
       LET r == req[t]  named == log'[Len(log')].reporters
       IN /\ r.category \in AbuseClasses
          /\ Cardinality(named) >= Threshold
          /\ \E k \in DOMAIN log :
               /\ Counted(k, r.reporter, r.target, r.category)
               /\ log[k].ts = r.since
               /\ \A a \in named : \E j \in DOMAIN log :
                    /\ Counted(j, a, r.target, r.category)
                    /\ log[j].ts > log[k].ts - Window]_vars

\* Enough agents have reports against r's target that no passing of time discounts.
AmpleReports(r) ==
  Cardinality(EligibleReporters(r.target, r.category, MaxClock)) >= Threshold

\* Once a report that counts is stored and there are enough of them, its request
\* ends only with the target hidden, unless the process dies in between.  (Then
\* nothing takes the request up: repeating it is refused, REPORT_EXISTS.)
AutomatonActs ==
  [][\A t \in Threads :
       /\ Serve(t)
       /\ req[t].pc \in {"count", "status", "suspend"}
       /\ AmpleReports(req[t])
       /\ req'[t] = Idle
       => agents'[req[t].target].status # "listed"]_vars

-----------------------------------------------------------------------------
\* The agents that the log shows to have reported fp since a time, in the categories
\* cs; counting says whether only reports that count are meant.
Witnesses(fp, cs, since, counting) ==
  {r \in Agents : \E j \in DOMAIN log :
     /\ log[j].event = "report.recorded"
     /\ log[j].fingerprint = fp
     /\ log[j].category \in cs
     /\ log[j].reporters = {r}
     /\ counting => log[j].counts
     /\ log[j].ts > since}

\* What a trust block says of the reports against an agent follows from the log.  A
\* recommendation, put together from two reads that reports, time and restarts come
\* between, rests on two different agents, none with a report older than Window when the
\* block was begun.  Whatever time the counters were read for, they show no more
\* reporters than the log has within Decay; and those who hid an agent are shown, for as
\* long as no report has decayed.
SignalsReplay ==
  /\ \A t \in Threads : blocks[t].pc = "payment" =>
       LET b == blocks[t]
       IN \A now \in BlockClock(t) :
            Recommended(b.fraud, EligibleReporters(b.target, PaymentFraud, now)) =>
              Cardinality(Witnesses(b.target, {Fraud, PaymentFraud}, b.begun - Window, TRUE)) >= 2
  /\ \A fp \in Agents, now \in 1 .. clock :
       LET counters == Counters(fp, now)
       IN /\ counters.unique_reporters <=
               Cardinality(Witnesses(fp, Categories, now - Decay, FALSE))
          /\ \A i \in DOMAIN log :
               /\ log[i].event = "report.auto_suspend"
               /\ log[i].fingerprint = fp
               /\ \A j \in DOMAIN reports : reports[j].submitted > now - Decay
               => counters.by_category[log[i].category] >= Threshold

=============================================================================
