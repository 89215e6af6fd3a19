----------------------------- MODULE Transparency -----------------------------
(***************************************************************************)
(* L5, transparency: the hash chain of audit.py, the signed checkpoints of *)
(* audit_service.py, the life of the process that signs them (http_api.py, *)
(* cli.py), and a mirror of the chain in another process (mirror.py).      *)
(*                                                                         *)
(* Besides the handler threads, which append entries, two threads of a     *)
(* server touch the chain: the checkpoint thread wakes every interval and  *)
(* signs the head; the thread that calls stop() signs a last one, then     *)
(* closes the store.  Each reads the head in one critical section and      *)
(* stores the checkpoint in another.                                       *)
(*                                                                         *)
(* Times are kept as ages, which stop growing at Interval, where the       *)
(* program stops telling them apart.                                       *)
(***************************************************************************)
EXTENDS Integers, Sequences, FiniteSets, FiniteSetsExt

CONSTANTS
  Bodies,       \* what an entry says, all but its place in the chain
  Genesis,      \* what entry 0 says
  Handlers,     \* handler threads
  LoopInMain,   \* does the thread that calls stop() also run serve_forever()?
  Errors,       \* can an operation of the database fail while a head is signed?
  Interval,     \* config.checkpoint_interval_s
  PageSizes,    \* the pages that mirrors ask for
  ServerLimit,  \* the most that Store.audit_entries returns
  MaxLog,       \* bound: entries in the log
  MaxExits      \* bound: how often the process ends

ASSUME TransparencyConstants ==
  /\ {LoopInMain, Errors} \subseteq BOOLEAN
  /\ PageSizes \cup {Interval, ServerLimit, MaxLog} \subseteq Nat \ {0}
  /\ MaxExits \in Nat

VARIABLES
  log,          \* table audit_log: log[i] is the row with seq i - 1
  age,          \* the age of each entry's ts
  checkpoints,  \* table checkpoints: a set of [seq, hash]; ts is the entry's
  backup,       \* the last backup of the database: its log, age and checkpoints
  up,           \* the process: "up", "stopped" (by stop()) or "crashed"
  exits,        \* how often it has ended
  serving,      \* the handler threads with a request
  main,         \* the serving loop, and the thread that calls stop()
  ckpt,         \* the checkpoint thread
  mirror        \* a run of ingest_chain

db == <<log, age, checkpoints>>
process == <<up, exits, serving, main, ckpt>>
vars == <<db, backup, process, mirror>>

-----------------------------------------------------------------------------
(* The chain.  The hash of an entry stands for all that went into it, which *)
(* is, prev_hash included, the bodies of the chain up to the entry: equal   *)
(* hashes come from equal entries.                                          *)

GenesisPrevHash == << >>

\* entry_hash
EntryHash(prev, body) == Append(prev, body)

\* Faulty variant: two columns are swapped.
LinkedSwapped(prev, body) ==
  [body |-> prev, prev |-> body, hash |-> EntryHash(prev, body)]

Linked(prev, body) == [body |-> body, prev |-> prev, hash |-> EntryHash(prev, body)]

\* Faulty variant: each entry is only checked for itself.
VerifyEntries(entries) ==
  \A i \in DOMAIN entries : entries[i].hash = EntryHash(entries[i].prev, entries[i].body)

\* verify_chain
VerifyChain(entries) ==
  \A i \in DOMAIN entries :
    /\ entries[i].hash = EntryHash(entries[i].prev, entries[i].body)
    /\ i > 1 => entries[i].prev = entries[i - 1].hash

AuditHead == [seq |-> Len(log), hash |-> log[Len(log)].hash]

NoHead == [seq |-> 0, hash |-> GenesisPrevHash]

\* _append_audit
AppendAudit(body) ==
  /\ log' = Append(log, Linked(AuditHead.hash, body))
  /\ age' = Append(age, 0)

-----------------------------------------------------------------------------
Fresh(loop) == [loop |-> loop, pc |-> "serving", head |-> NoHead]

Closing == [loop |-> FALSE, pc |-> "close", head |-> NoHead]

Waiting == [pc |-> "wait", waited |-> 0, head |-> NoHead]

Mirroring(page) == [pc |-> "pages", page |-> page, copy |-> << >>]

Snapshot == [log |-> log, age |-> age, checkpoints |-> checkpoints]

Init ==
  /\ log = <<Linked(GenesisPrevHash, Genesis)>>
  /\ age = <<0>>
  /\ checkpoints = {}
  /\ backup = Snapshot
  /\ up = "up"
  /\ exits = 0
  /\ serving = {}
  /\ main = Fresh(TRUE)
  /\ ckpt = Waiting
  /\ \E page \in PageSizes : mirror = Mirroring(page)

-----------------------------------------------------------------------------
(* Handler threads are daemon threads: nobody waits for them.              *)

\* The serving loop takes new connections, unless its thread is busy in stop().
Accepting ==
  /\ up = "up" /\ main.loop
  /\ LoopInMain => main.pc = "serving"

Accept(h) ==
  /\ Accepting
  /\ h \notin serving
  /\ serving' = serving \cup {h}
  /\ UNCHANGED <<db, backup, up, exits, main, ckpt, mirror>>

Write(h, body) ==
  /\ h \in serving
  /\ Len(log) < MaxLog
  /\ AppendAudit(body)
  /\ serving' = serving \ {h}
  /\ UNCHANGED <<checkpoints, backup, up, exits, main, ckpt, mirror>>

\* The request is refused, or only reads.
Reply(h) ==
  /\ h \in serving
  /\ serving' = serving \ {h}
  /\ UNCHANGED <<db, backup, up, exits, main, ckpt, mirror>>

-----------------------------------------------------------------------------
(* Checkpoints.                                                            *)

\* Faulty variant: the hash read earlier is stored under the seq of the head now.
SignedLate(head) == [seq |-> AuditHead.seq, hash |-> head.hash]

Signed(head) == [seq |-> head.seq, hash |-> head.hash]

\* INSERT OR REPLACE
InsertCheckpoint(head) ==
  checkpoints' = {c \in checkpoints : c.seq # Signed(head).seq} \cup {Signed(head)}

\* latest_checkpoint; its ts is that of the entry it signs.
LastSigned == Max({c.seq : c \in checkpoints})

TooSoon == checkpoints # {} /\ age[LastSigned] < Interval

StopCalled == main.pc # "serving"

\* _stop_event.wait(interval) times out, or finds the event set.
CheckpointWake ==
  /\ ckpt.pc = "wait"
  /\ \/ StopCalled /\ ckpt' = [Waiting EXCEPT !.pc = "ended"]
     \/ /\ ~StopCalled
        /\ ckpt.waited >= Interval
        /\ ckpt' = [ckpt EXCEPT !.pc = "last"]
  /\ UNCHANGED <<db, backup, up, exits, serving, main, mirror>>

\* maybe_checkpoint
CheckpointLast ==
  /\ ckpt.pc = "last"
  /\ \/ TooSoon /\ ckpt' = Waiting
     \/ ~TooSoon /\ ckpt' = [ckpt EXCEPT !.pc = "head"]
  /\ UNCHANGED <<db, backup, up, exits, serving, main, mirror>>

\* create_checkpoint, in the checkpoint thread
CheckpointHead ==
  /\ ckpt.pc = "head"
  /\ ckpt' = [ckpt EXCEPT !.pc = "insert", !.head = AuditHead]
  /\ UNCHANGED <<db, backup, up, exits, serving, main, mirror>>

CheckpointInsert ==
  /\ ckpt.pc = "insert"
  /\ InsertCheckpoint(ckpt.head)
  /\ ckpt' = Waiting
  /\ UNCHANGED <<log, age, backup, up, exits, serving, main, mirror>>

\* Faulty variant: the error ends the thread.
AfterErrorEnded == [Waiting EXCEPT !.pc = "ended"]

\* The loop swallows what maybe_checkpoint raises, and waits for its next turn.
AfterError == Waiting

\* A step of the attempt fails; its transaction, if it had one, is rolled back.
CheckpointFails ==
  /\ Errors
  /\ ckpt.pc \in {"last", "head", "insert"}
  /\ ckpt' = AfterError
  /\ UNCHANGED <<db, backup, up, exits, serving, main, mirror>>

-----------------------------------------------------------------------------
(* The process.  stop() is called by another thread than the serving one   *)
(* when the server was started with start(); under haap-dird the serving   *)
(* thread itself calls it, from its signal handler.                        *)

Stop ==
  /\ up = "up" /\ main.pc = "serving"
  /\ exits < MaxExits
  /\ main' = [main EXCEPT !.pc = "shutdown"]
  /\ UNCHANGED <<db, backup, up, exits, serving, ckpt, mirror>>

\* socketserver: the loop notices that it was told to end, unless its thread is
\* busy in stop().
ServeLoopEnds ==
  /\ main.loop /\ main.pc = "shutdown"
  /\ ~LoopInMain
  /\ main' = [main EXCEPT !.loop = FALSE]
  /\ UNCHANGED <<db, backup, up, exits, serving, ckpt, mirror>>

\* Faulty variant: daemon_threads is not set.
JoinedAll == Handlers

\* The handlers that server_close() waits for: with daemon_threads, none.
Joined == {}

\* shutdown() waits for the loop to end, server_close() for the joined handlers.
StopWaited == main.pc = "shutdown" /\ ~main.loop /\ serving \cap Joined = {}

\* create_checkpoint, in stop()
FinalHead ==
  /\ StopWaited
  /\ main' = [main EXCEPT !.pc = "insert", !.head = AuditHead]
  /\ UNCHANGED <<db, backup, up, exits, serving, ckpt, mirror>>

FinalInsert ==
  /\ main.pc = "insert"
  /\ InsertCheckpoint(main.head)
  /\ main' = Closing
  /\ UNCHANGED <<log, age, backup, up, exits, serving, ckpt, mirror>>

\* stop() swallows what create_checkpoint raises, and goes on to the close.
FinalFails ==
  /\ Errors
  /\ StopWaited \/ main.pc = "insert"
  /\ main' = Closing
  /\ UNCHANGED <<db, backup, up, exits, serving, ckpt, mirror>>

Exit(how) ==
  /\ up' = how
  /\ exits' = exits + 1
  /\ serving' = {}
  /\ main' = Fresh(FALSE)
  /\ ckpt' = [Waiting EXCEPT !.pc = "ended"]
  /\ UNCHANGED <<db, backup, mirror>>

\* The store is closed; what other threads still try fails, and exit ends them.
StoreClosed == main.pc = "close" /\ Exit("stopped")

Crash == up = "up" /\ exits < MaxExits /\ Exit("crashed")

\* A new process on the same database; its start may log listings that lapsed.
Restart ==
  /\ up # "up"
  /\ up' = "up"
  /\ main' = Fresh(TRUE)
  /\ ckpt' = Waiting
  /\ \/ UNCHANGED <<log, age>>
     \/ /\ Len(log) < MaxLog
        /\ \E body \in Bodies : AppendAudit(body)
  /\ UNCHANGED <<checkpoints, backup, exits, serving, mirror>>

\* A consistent copy of the database, and its return while the service is down.
\* (After the last exit no copy is taken: nothing would bring it back.)
Backup ==
  /\ exits < MaxExits
  /\ backup' = Snapshot
  /\ UNCHANGED <<db, process, mirror>>

RestoreBackup ==
  /\ up # "up"
  /\ log' = backup.log
  /\ checkpoints' = backup.checkpoints
  /\ age' = backup.age
  /\ UNCHANGED <<backup, process, mirror>>

Older(a) == IF a < Interval THEN a + 1 ELSE a

Aged(ages) == [i \in DOMAIN ages |-> Older(ages[i])]

Tick ==
  /\ age' = Aged(age)
  /\ backup' = [backup EXCEPT !.age = Aged(@)]
  /\ ckpt' = [ckpt EXCEPT !.waited = IF ckpt.pc = "wait" THEN Older(@) ELSE @]
  /\ UNCHANGED <<log, checkpoints, up, exits, serving, main, mirror>>

-----------------------------------------------------------------------------
(* mirror.ingest_chain.  A failed request ends it with an exception; it can *)
(* be started again at any time.  (A run that is to come has copied nothing.) *)

MirrorStart ==
  /\ \E page \in PageSizes : mirror' = Mirroring(page)
  /\ UNCHANGED <<db, backup, process>>

Min2(a, b) == IF a < b THEN a ELSE b

\* Store.audit_entries, whatever limit it is asked for
Page(after, limit) == SubSeq(log, after + 1, Min2(Len(log), after + Min2(limit, ServerLimit)))

\* Faulty variant: a full batch is the last one.
IsLastOrFull(batch) == Len(batch) <= mirror.page

\* An empty batch, or one that is shorter than the page.
IsLastBatch(batch) == Len(batch) < mirror.page

MirrorPage ==
  LET batch == Page(Len(mirror.copy), mirror.page)
  IN /\ mirror.pc = "pages"
     /\ Accepting
     /\ mirror' = [mirror EXCEPT !.copy = @ \o batch,
                                 !.pc = IF IsLastBatch(batch) THEN "head" ELSE "pages"]
     /\ UNCHANGED <<db, backup, process>>

\* matches_served_head, which is what the run answers
Verdict(copy) ==
  /\ VerifyChain(copy)
  /\ copy # << >>
  /\ copy[Len(copy)].hash = AuditHead.hash

MirrorHead ==
  /\ mirror.pc = "head"
  /\ Accepting
  /\ mirror' = Mirroring(mirror.page)
  /\ UNCHANGED <<db, backup, process>>

-----------------------------------------------------------------------------
Checkpointing ==
  CheckpointWake \/ CheckpointLast \/ CheckpointHead \/ CheckpointInsert \/ CheckpointFails

Stopping == FinalHead \/ FinalInsert \/ FinalFails \/ StoreClosed

Next ==
  \/ \E h \in Handlers : Accept(h) \/ Reply(h) \/ \E body \in Bodies : Write(h, body)
  \/ Checkpointing
  \/ Stop \/ ServeLoopEnds \/ Stopping
  \/ Crash \/ Restart
  \/ Backup \/ RestoreBackup
  \/ MirrorStart \/ MirrorPage \/ MirrorHead
  \/ Tick

Spec == Init /\ [][Next]_vars

\* Time passes and threads that can run do run.  A step of the checkpoint thread
\* that is tried again and again does not fail each time.  Nobody has to send a
\* request, call stop() or start the process again.
FairSpec ==
  /\ Spec
  /\ WF_vars(Tick)
  /\ WF_vars(Checkpointing)
  /\ SF_vars(CheckpointLast)
  /\ SF_vars(CheckpointHead)
  /\ SF_vars(CheckpointInsert)
  /\ WF_vars(ServeLoopEnds)
  /\ WF_vars(Stopping)

=============================================================================
