# A TLA+ model of haap-directory

haap-directory is a registry of agents: an agent proves that it controls a key
and an endpoint, is listed for a limited time, renews its listing with
heartbeats, may show that it controls its domain, may vouch for other agents and
report them. Every write is recorded in a hash-chained audit log whose head the
directory signs. This directory holds TLA+ modules translated from
`src/src/haap_directory/` (below: without that prefix), TLC runs of small
instances, and TLAPS proofs of what matters most.

Line numbers of the source are in `PROJECT.json` (`map`: for each definition the
lines it stands for; `hazards`: where each hard spot bites).

## 1. How the program runs

* `http_api.py` serves with a `ThreadingHTTPServer`: one daemon thread for each
  connection. Other threads: the checkpoint thread, and whichever thread calls
  `stop()`.
* `store.py` has one SQLite connection behind one `RLock`. A write is the lock
  plus `BEGIN IMMEDIATE ... COMMIT` (or `ROLLBACK`); a read is the lock alone.
* A service method (`service.py`, `domain.py`, `vouching.py`, `reputation.py`,
  `moderation.py`) takes that lock **several times**: it reads rows, decides
  outside the lock, and calls a writer that acts on the decision. What a writer
  does not read again under the lock may have changed.
* The clock is a function. Most writers are given, or read, `now` *before* they wait
  for the lock; `_append_audit` and `_upsert_agent_cur` read it inside.

So the models have **one action per critical section**, all interleavings between
sections, and a time that may be as old as the end of the thread's previous
section:

    ReadClock(t) == req[t].since .. clock

Two simplifications are common to all modules: a critical section takes no time
(the clock is constant in it), and the clock never runs backwards.

## 2. Inventory

| Component | State | Operations | What is hard about it | What makes it correct |
|---|---|---|---|---|
| Listing life cycle (L1): `service.py`, `store.py` | tables `agents`, `challenges`, `audit_log` | submit and complete a registration, two heartbeats, prune, search, suspend, unsuspend | decisions on rows read earlier, old times, eviction of challenges in use, crash between sections | a challenge lists once; the log tells status, tenure and expiry; lapsed rows are not renewed |
| Domain verification (L2): `domain.py` | tokens in `challenges`, table `domain_verifications`, the endpoint in each manifest | request, confirm, status, the primary verification | a lookup of up to 10 s between check and use, during which the agent may move; one table for two kinds of challenge | one token, one verification; a token never lists an agent; the domain an answer names is one the agent was listed under while the answer was put together |
| Vouching (L3): `vouching.py` | table `vouches` | create, revoke | concurrent grants checked outside the lock | the cap, no duplicate edge, statements stay as signed |
| Vouch graph (L3): `vouching.py` | none | inbound list with ring annotation, trust paths | one answer from three reads; cycles | no shortest path of the inbound lists is missing; a standing ring is counted |
| Reputation (L4): `reputation.py` | table `reports` | create a report, the auto-suspend automaton; counters and recommendation | the automaton is three sections after the report; three windows; two fraud classes, read one after the other | duplicates stay out, suspensions and signals follow from the log, the automaton acts |
| Moderation (L4): `moderation.py` | `suspension_records`, `appeals`, `agents.status` | takedown, suspend, unsuspend, appeal | races with the automaton and with registrations | reinstatement only from a suspension |
| Transparency (L5): `audit.py`, `audit_service.py`, `mirror.py` | `audit_log`, `checkpoints` | append, checkpoint, verify, mirror | head read and checkpoint stored apart; two signers; a mirror across restores | checkpoints on the chain, mirrors exact, everything signed in time |
| Server life cycle: `http_api.py`, `cli.py` | threads | start, serve, stop, signals | who waits for whom | a stop ends, and signs the final head |
| Rate limiting and the gate: `rate_limit.py`, `http_api.py` | buckets, in memory | check, client address | clock read before the lock; forwarding headers | a bound on what is admitted; a header buys nothing; Retry-After is enough |
| HTTP front end: `http_api.py` | metrics counters | routes, bodies, answers | counters without a lock | - |
| Search and trust block: `service.py` | none | filters, pages, assembly | - | filters agree with their definition |
| Manifests, identity, signing, canonical JSON, time formats | none | pure functions on strings and bytes | - | - |
| Lookups: `verify.py`, `resolver.py` | none | DNS and HTTPS | network | - |
| Configuration, key store, telemetry | key file, counters | start-up | two processes minting a key | - |

Interactions: every L2-L4 handler first asks whether an agent is *live* (listed,
not history, not expired), which L1 decides; L2 tokens and L1 challenges share a
table and its cap; the automaton and the moderator write the status that L1
reads; all of them append to the L5 chain in the transaction of their write.

## 3. Modules

| Module | Stands for | Its state in the code |
|---|---|---|
| `PhoneBook` | abstract: what the directory promises of a listing, without clocks, threads or tables | - |
| `Directory` | L1 and suspend/unsuspend | `agents`, `challenges`, `log` are the tables; `req` is what a handler thread holds in local variables between two sections |
| `DirectoryProps` | the properties of `Directory`, the refinement mapping to `PhoneBook` | |
| `DomainVerification`, `DomainProps` | L2, EXTENDS `Directory`: every L1 action goes on during a lookup | adds `kind` and `carries` (columns of `challenges`: what kind, and the endpoint or domain it is for), `manifest` (column of `agents`: the host of the listed endpoint), `verifications`, and `held`, what a confirmation remembers of the manifest during its lookup, and an answer between its two reads |
| `Vouching`, `VouchingProps` | L3; who is live comes and goes freely | `vouches` |
| `VouchGraph`, `VouchGraphProps` | L3's queries, EXTENDS `Vouching`: grants and revocations go on between the reads of one answer | adds `read`, the answer being put together |
| `Reputation`, `ReputationProps` | L4 and the moderator; listings change as `PhoneBook` allows | `reports`, its part of `audit_log`; `req` and `blocks` are what a thread holds of the report it serves, or of the trust block it puts together |
| `RateLimiter`, `RateLimiterProps` | the token bucket and the gate of the limited routes | `buckets`; `req`, a check that waits for the lock; `seen` is a history variable: what an observer of one address has counted |
| `Transparency`, `TransparencyProps` | L5, server life cycle, mirror, backup and restore | `audit_log`, `checkpoints`, the threads' places in `main`, `ckpt`, `serving` |
| `MC*` | symmetry sets for TLC | |
| `Directory_proofs`, `DirectoryLog_proofs`, `Domain_proofs`, `RateLimiter_proofs`, `Vouching_proofs`, `VouchGraph_proofs`, `Reputation_proofs`, `Transparency_proofs` | TLAPS | |

How the code becomes actions, by the example of a registration:

| Code | Action |
|---|---|
| `submit_registration`: `get_agent_row` | `SubmitRead` keeps the expiry of the row (`until`) |
| ... not live: `count_live` prunes (a write transaction) | `SubmitPrune` |
| ... and counts, in a section of its own; `DIRECTORY_FULL` | `SubmitCount` |
| `Store.insert_challenge`, with its eviction | `SubmitInsert` |
| `complete_registration`: the challenge is read, checks outside the lock | `CompleteRead` |
| `Store.complete_registration`: row read again, marked used, agent upserted, logged | `CompleteCommit` |

A definition marked "Faulty variant" is not used by the specification: it is the form
a plausible bug would take, and stands beside the definition it could replace
(`PROJECT.json`, `mutants`). Each property is shown to notice one of them.

Data that no property tells apart is left out: a manifest, a signature, a
domain, a note. An id drawn at random is a model value that is never reused. The
hash of an entry stands for all that went into it, that is, the chain of bodies up to the
entry: equal hashes mean equal chains. Times in `Transparency` are ages that stop
at `Interval`, where the code stops telling them apart. In `DomainVerification` a
manifest is the host of its endpoint and a domain is the set of hosts under it. In
`RateLimiter` the fractions of a token are whole units: a request costs `Refill`, a
second adds `Capacity`, and a bucket fills up in `Refill` seconds as in the code.

## 4. Runs

Every run names its bounds in the `.cfg`; `MaxClock`, `MaxLog`, `MaxReports`,
`MaxOthers`, `MaxExits` are bounds of the exploration, all other constants are settings of the program.
Runs with bounds end in states where nothing more may start; those states still
have `Restart` or `Tick`, so that deadlock is checked everywhere.

| Run | Shows | Bounds, and why they are enough |
|---|---|---|
| `directory` | `SingleUse`, `StatusMatchesLog`, `LogInTimeOrder`, `AuditedWrites`, `LapsedRowsNotRenewed`, `ImplementsPhoneBook` | two agents for one place, three challenges with room for two (evictions), two threads; TTL 1 with three clock values: rows expire, times get old, renewals happen. Four writes after the genesis entry, and those of requests in flight. |
| `history` | `TenureMatchesLog`, `ExpiryBackedByLog`, `HandlersFinish` | one agent that lapses, is suspended and reinstated, or registers again while it was suspended or had lapsed; room for one challenge, so that an eviction hits a completion in flight; no symmetry |
| `listed_cap` | violated: `ListedAgentCap` | see section 7 |
| `pending_cap` | violated: `PendingChallengeCap` | see section 7 |
| `domain` | `TokenPerVerification`, `VerifiedOnce`, `TokenCap`, `ManifestFollowsLog`, `VerifiedUnderEndpoint`, `ShownDomainWasListed`, `StillImplementsPhoneBook` | one agent that moves between two hosts, each its own domain; two threads, so that one registers or confirms during the other's lookup; three challenges of either kind with room for one, so that registrations evict tokens; a listing is due with the next tick, tokens and verifications one later (clock up to 2); six entries in the log: list, verify, move. Answers that name a domain are read between all of these, also when the log is full |
| `vouching` | `OutgoingCap`, `OneActivePerEdge`, `RecordIsFinal` | one voucher, three vouches, cap two, two scopes, two threads; vouches expire at two different times and are granted again. Vouches of different vouchers never meet in the code. |
| `vouch_graph` | `ShortestPathsServed`, `StandingRingsCounted` | three agents, all of whom vouch, two statements in the table at a time: chains of two next to a direct statement, rings of two, statements about oneself, an agent that asks about itself; every depth from 0 to 3 (the code cuts it to 1..2); statements are granted, revoked and expire between the three reads of an answer |
| `reputation` | `OneReportPerWindow`, `SuspensionsReplay`, `SignalsReplay`, `AutomatonActs` | threshold 2, two reporters (one is the target, which the code allows), one abuse class and both fraud classes, two reports, in the table or on their way (`ReportsOpen`); three clock values, a tenure, a duplicate window and an automaton's window of 1 and a decay of 2, so that a reporter becomes eligible, a report leaves each window, and decays; three moves of moderator and listings; either thread may put a trust block together meanwhile |
| `rate_limit` | `AdmissionBound`, `PeerBound`, `RetrySuffices` | an address on this host, whose headers are believed, and one elsewhere; two requests fill a bucket that refills in three seconds, so that the time to come back is no whole number of tokens; two threads, one of which may hold a time from before the other's check; three clock values and restarts, which empty the table of buckets |
| `transparency` | `CheckpointsOnChain`, `MirrorIsExact`, `MirrorReachesEnd`, `EveryEntrySigned`, `StopCompletes` | two bodies, so that two histories can follow one backup; the server's limit is shorter than the log, and mirrors ask for pages of that limit (proved for every page); every step that signs a checkpoint may fail, any number of times (`Errors`); one exit (crash or stop) and any number of restores while down, of a backup taken before it; no symmetry |
| `final_head` | violated: `FinalHeadSigned` | see section 7 |
| `signalled_stop` | violated: `StopCompletes` when the serving thread calls `stop()` | see section 7 |

`AutomatonActs` speaks of a request that goes on to its end: a process that dies
between the report and the suspension loses the suspension, and no source promises otherwise.

Each passing run but `history` also checks its module's type invariant (`TypeOK`, `DomainTypeOK`, `GraphTypeOK`), which says more than
types: that a request knows its agent, that no row is dated after the present.
Symmetry sets are used only in runs without liveness properties.

**Fairness.** `Directory!FairSpec`: weak fairness of each thread's `Serve`. The OS
schedules the threads, sections are short, and SQLite's lock has no other holder;
nobody is obliged to send a request, so `Request` has none, and neither have the moderator,
the clock or a crash. `HandlersFinish` also holds for a handler whose rows
vanished: every writer has a branch for that, and a mutant that lacks one hangs.
`Transparency!FairSpec`: time passes, the checkpoint thread, the serving loop and
the thread in `stop()` run when they can. While attempts to sign a checkpoint may fail,
strong fairness of the three steps of an attempt says that they do not fail for ever: without it a
database that is never usable again is a behaviour, and the code can promise nothing then. Handlers
are not obliged to finish a request. Nobody has to write, to call `stop()`, or to start the process again.

## 5. Proofs

The theorems hold for every number of agents, threads, ids, handlers and addresses
and every setting; the bounds of the exploration (`MaxClock`, `MaxLog` and so on)
are arbitrary naturals in them; `Reputation`'s clock starts at 1, so there `MaxClock` is not 0. Assumed is only what each module's `ASSUME` says,
which TLC evaluates in every run:

* `ConstantsAssumption` (Directory): finitely many agents, "no agent" and "no
  challenge" are not ids, settings are naturals.
* `VouchingConstants`: finitely many ids, vouchers are agents, settings and claimed
  dates are naturals.
* `ReputationConstants`: finitely many agents, targets are agents, "none" is neither
  agent nor category, the classes are categories, settings are naturals.
* `LimiterConstants`: local addresses are addresses, "no header" is none, the refill
  time is not zero.
* `DomainConstants`: domains are sets of hosts, "no host" is not a host, a token lives for a
  second at least, settings are naturals.
* `TransparencyConstants`: interval, pages and limit are not zero.

| Module | Theorem | States |
|---|---|---|
| `Directory_proofs` | `TypeCorrect`, `BaseCorrect` | types; a new challenge is on its way in one request only; a completion acts on a challenge of its own agent |
| | `DirectoryImplementsPhoneBook` | the refinement |
| `DirectoryLog_proofs` | `LogOrdered` | log entries are in time order |
| | `ChallengesAreSingleUse` | a challenge lists an agent at most once |
| | `LogTellsStatus`, `LogTellsTenure`, `LogBacksExpiry` | status, tenure and expiry are what the log says |
| | `LapsedRowsAreNotRenewed`, `WritesAreAudited` | the two action properties |
| `Domain_proofs` | `DomainTypeCorrect` | types, with domain verification |
| | `TokensAreForVerifications`, `VerificationsAreLoggedOnce` | a verification, the use of a token of the same agent and an entry in the log are one |
| | `TokensAreCapped` | the cap on tokens |
| | `ManifestIsLastListed`, `VerifiedWhileListed`, `AnswersNameListedDomains` | the endpoint served; what a verification, and an answer that names one, was under |
| | `SingleUseAmongTokens`, `LogTellsAmongTokens`, `NoRenewalByTokens` | what `Directory` promises of challenges, the log and renewals, among tokens |
| | `DomainImplementsPhoneBook` | the refinement, among tokens |
| `RateLimiter_proofs` | `TypeCorrect` | a bucket never overflows and never owes |
| | `AdmissionIsBounded`, `PeerIsBounded` | what an address, and a remote host, gets let through |
| | `RetryIsSufficient` | who comes back when told to is let in |
| `Vouching_proofs` | `TypeCorrect`, `StatementsAreFinal` | types; a stored statement changes by its one revocation only |
| | `CapIsKept`, `EdgesAreUnique` | the cap on active vouches and the duplicate rule |
| `VouchGraph_proofs` | `GraphTypeCorrect` | what an answer counts was read from the table |
| | `NoShortestPathIsMissing` | the search serves paths of the inbound lists only, and every shortest one |
| | `RingsAreCounted` | a ring that stands through the three reads of an answer is counted |
| `Reputation_proofs` | `TypeCorrect`, `ReportsKeepTheirDistance` | types; the duplicate rule |
| | `SuspensionsFollowTheLog` | every automatic suspension can be replayed from the log: what set it off, and reports by all it names within the window before |
| | `SignalsFollowTheLog` | a recommendation read in two sections rests on two agents in the log, counters show no more than the log has, and who hid an agent is shown |
| | `AmpleReportsHide` | with enough reports, the request that stored the last of them ends with the target hidden |
| `Transparency_proofs` | `TypeCorrect`, `CheckpointsStayOnChain` | types; every checkpoint signs an entry of the chain as it is |
| | `MirrorsReachTheEnd` | a download with a page within the limit ends at the end of the log |
| | `MirrorsAreExact` | a mirror that verifies and has the served head has the log |

*The directory.* `TypeOK` is inductive (`StepType`: one step per action), except that
`prune_expired` writes an entry for each lapsed row in an order SQL leaves open;
`PruneAppends` states once what that order can do. `Reserved` strengthens it: no two
requests hold the same new id, and a completion holds a challenge of its own agent.
Without it one `insert_challenge` could overwrite the row of another, and a completion
could list an agent with somebody else's challenge. `StepEffect` then reduces every
step to one of a few **effects** on the tables and the log (`Effect`), and
`StepEntries` says what an effect adds to the log as one agent sees it: nothing about
it, or one entry whose event says how its row changes (`Writes`). All later theorems are
proved from these, without opening the handlers again.

* `SingleUse` is not inductive: the invariant adds `Consumed`, that a challenge
  named by a listing in the log is marked used. A step that lists consumes a
  pending one, so no earlier listing has it.
* `StatusMatchesLog`, `TenureMatchesLog` and `ExpiryBackedByLog` rest on `LastKept` and `LastNew`: the
  last entry of a kind stays the last unless a step adds one of that kind.
  `ExpiryBackedByLog` needs that the old time of a heartbeat is not later than the
  stamp of its entry: a time read before the section is at most the clock in it.
* The refinement maps `open` to the unused challenges with their owners; eviction
  is a withdrawal in `Issue`, a prune is `Lapse`, reads and heartbeats stutter.

*Domain verification.* `DomainSpec` does not imply `Directory`'s `Spec`: a token takes an id
and a row of the table that `Directory` would have fresh. The theorems of `Directory` are not
inherited, so what they rest on is proved again. `DomainStepEffect` says that a step has one of the
directory's effects, or moves a request, stores a token, or takes one in; every property is
kept by each of the four.

* The base (`DomainBase`) adds to the directory's that a confirmation past its first read
  is about a token of its own agent, and a completion about an endpoint challenge
  (`KindsOK`). Without it a completion could redeem a token.
* `VerifiedOnce` counts entries and rows, and both sets grow by one in the same step; that the row
  is new follows from `TokenPerVerification`.
* `TokenCap`: what is pending now was pending at the older time a request counts with
  (`PendingEarlier`). The tokens that end this second were pending a second ago, so a tick
  keeps their number within the cap. A new token ends this second only if its request went
  by an older time (`TokenTTL` is not 0), and by that time the others were counted.
* `VerifiedUnderEndpoint` is about the time since the token was made. `EndpointSeen`
  follows it from the listing that a confirmation read, through its lookup, to the row
  it stores: every later listing has a later date (`ListedSinceKept`).
* `ShownDomainWasListed` uses the same fact (`EndpointSeenHolds`): what an answer holds of
  the row is what the agent was listed under when the row was read.
* Status, tenure, expiry and order follow as in `Directory`: a token writes entries
  that say nothing of a row (`SilentWrite`), so all steps are `Writes`.
* In the refinement the tickets are the endpoint challenges; token steps stutter
  (`TokensAreNoTickets`), and a registration that evicts a token withdraws nothing.

*Rate limiting.* `AdmissionBound` compares two counters and says nothing of the
bucket, so it is not inductive. `Balanced` adds what the observed bucket could still
give, refilled up to the present (`Available`): what was let through and what is there
are within the allowance. A late request sets `updated` back; what can be refilled
twice for that is what its wait adds to the allowance (`AvailableAfterSet`). For the promise of `Retry-After` the
invariant is `Kept`: what the bucket holds and what flows in until the time promised
is a token, which refusals of other requests leave as it is.

*Vouching.* A grant compares with a time that is at most the clock, and a statement that is active
at the clock was active at that time (`ActiveEarlier`; a statement is active from
when it is stored). So what a grant counts is at least what is active now,
and `OutgoingStep` reduces every step, the clock's included, to "statements leave" or
"one joins, below the cap and of a new edge". `RecordIsFinal` needs that the id of a
grant on its way is not in the table (`IdsFresh`).

*The vouch graph.* `ShortestPathsServed` is about the operators alone: no step of
the program matters, only that the rows are statements. `FirstHas`, `FirstRequeued`
and `SecondArrived` say what each level of the search holds: what is served are paths, and the
shortest are among them.
`StandingRingsCounted` needs that what was listed and is still active was still active
when the second section read (`ListedStillInbound`): a statement that has lapsed or was revoked does not
come back.

*Reputation.* `OneReportPerWindow` is inductive: the report being stored compares with the
rows that are there, whatever their order. `SuspensionsReplay` is about what three
earlier sections saw. `Backed` says that every report is in the log, with
a stamp not before its date; `Prompted`, that an automaton was set off by a report of its own
request, logged when that request last read the clock; `Grounded`, that one that has counted
enough has the log to show for it, within `Window` before that report: the time it counts
with is not earlier. Entries never go (`LogGrows`), so what was grounded stays so, although
reports age out of the window and listings change before the target is suspended.
For a recommendation, `BlocksAttributed` says that what a trust block found of the first class
is in the log within `Window` before the block was begun, until the second class is read at a
later time (`EligibleAreAttested` is used for both). For who hid an agent, `Founded`: the agents
that an automaton found, and those its entry names, have reports
on record. As many reporters are at least as many reports (`ManyReporters`), and
reports stay (`ReportsStay`). `AutomatonActs` needs no more of the state than that the clock
is within its bound: who is found at the bound is found at every earlier time (`FewerLater`).

*Transparency.* `CheckpointsOnChain` needs two facts more (`ChainInv`): `HeadsOnChain`, that a head
a thread has read and will sign is on the chain, and that while no process runs, no thread
holds one, so that a restored backup cannot leave one behind; and `BackupOK`, that a backup is
a database that had the property. Appending keeps every head where it is (`AppendKeeps`).
`MirrorIsExact` goes from equal heads down to the first entry. The log, and every
backup, is a chain whose hashes are as long as their places (`HashesOK`), so a
hash tells the place as well as what came before. Two chains with equal ends that differ would differ
at a last place, and the entry after it says that they do not (`EqualChains`, a descent by the
well-foundedness of the naturals).

*What stays with TLC.* Every safety invariant, action property and refinement
that a passing run checks has a theorem. Liveness under fairness does not: `HandlersFinish`,
`EveryEntrySigned`, `StopCompletes`, and with it that `FairSpec` says enough. ENABLED is out of reach too, so
that the system never gets stuck is TLC's check of deadlock. No module declares a RECURSIVE operator.

## 6. What is not modelled

* Routing, JSON, signatures, manifests, DNS and HTTPS: the modelled requests are those whose
  bodies pass; a lookup succeeds or ends the request.
* Requests a check turns down without a write are left out where they are a single section.
* `appeal` only inserts a row that nothing reads afterwards.
* An error of the database inside a handler: its transaction is rolled back, and the state is that
  of a refused request. Errors while a checkpoint is signed are modelled, by both signers.
* A trust block is taken apart: its domain is in `DomainVerification`, its recommendation and counters
  in `Reputation` (both with the read of the row), its vouches in `VouchGraph`.
* `report_war` (`store.py`) and `RateLimiter.remaining` have no caller in the program.
* Single reads that return rows as they are: the outgoing vouches, GET
  `/v1/audit/verify`, the log of one agent, search filters and pages. The order of
  rows by date is left out everywhere.
* The stored `endpoint_match` of a verification: reads compute it again, as the model does.
* Bursts that reach `http.server` before the gate; limits on bodies and headers.
* Two processes on one database (the deployment documents run one).
* Metrics counters: `http_api.py:67` calls them "GIL-protected increments", which
  a read followed by a write is not; nothing in the program reads them.

## 7. Where code and documents differ

Four differences are shown by runs that TLC finds violated (`PROJECT.json`,
`findings`, has the quotations):

1. `listed_cap`: the cap on listed agents is checked when a challenge is issued, not when it is redeemed.
2. `pending_cap`: the eviction may remove a row that had expired and did not count.
3. `final_head`: a handler may append after the last checkpoint's head was read.
4. `signalled_stop`: SIGTERM under `haap-dird` waits for itself; the process hangs.

Others were met while reading and have no run:

* `docs/MODERATION.md:50` and `docs/SPEC.md:451,475` say heartbeats of a suspended
  agent are still accepted; the code refuses them (`Live` in `Renewed`), as
  `openwiki/workflows/moderation-appeals.md:192` notes. `LapsedRowsNotRenewed` is about lapsed
  rows only, on which code and documents agree.
* `store.py:10-11`: "exactly one audit entry" per write; an insert with an
  eviction writes two.
* `docs/SPEC.md:442` halves the weight of reports without evidence; the automaton counts
  distinct reporters (`reputation.py:110`), whatever their evidence.
* `docs/SPEC.md:331,343`: a vouch expires at most 180 days after its `created_at`, which the
  client chooses (`vouching.py:62`): a date in the future gives a vouch that lasts longer than that from now.
* `docs/SPEC.md:353` promises the shortest paths; the code returns all simple paths of
  at most two statements, a longer one next to a shorter one too. `ShortestPathsServed`
  asks for what both promise: the shortest ones are there.
* A token is confirmed in the second it expires in (`domain.py:123` refuses later ones), but the cap on
  an agent's tokens does not count it (`store.py:587-591`): in that second an agent may hold as many
  again as `MaxVerifications`. `TokenCap` bounds the two parts each for itself.
* `docs/SPEC.md:443`: repeating a report's id is idempotent; it ends in a
  conflict or, with a new category, an error.
* `docs/SPEC.md:451` counts live reporters; the automaton counts the reports
  of agents that have lapsed since as well.
* A heartbeat with an old time can move an expiry backwards (never below what it promised).
* An agent may vouch for itself and report itself; the model allows it.
* A mirror that asks for pages above the server's limit of 1000 stops after the first
  (`mirror.py:40`); its copy is then not taken for the whole log (`MirrorIsExact`).

## 8. Plan

Done: models of L1 to L5, of rate limiting and of the vouch graph; all their safety properties
are proved.

What would come next, in this order:

1. The theorem that the queries of `VouchGraph` leave what `Vouching` promises, and abstract
   specifications of the token bucket and the mirror, each shown to be implemented.
2. `Reputation` composed with `Directory` itself instead of with what `PhoneBook` allows:
   a lemma that every step of `Directory` changes a row as one of `Register`, `Lapse`,
   `PruneExpired`, `ModeratorSuspend` or `Unsuspend`.
3. The steps of the liveness arguments that are safety: that a handler in flight has
   a section to run next, and that each section moves it towards its end.
4. GET `/v1/audit/verify` over a range that starts inside the chain, and the search
   filters as operators against a reference definition.
