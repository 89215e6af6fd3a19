-------------------------- MODULE Transparency_proofs --------------------------
(***************************************************************************)
(* Proofs about Transparency, for any number of handlers, any interval,    *)
(* any pages and limit, and any number of exits and restores.              *)
(***************************************************************************)
EXTENDS TransparencyProps, WellFoundedInduction, SequenceTheorems, TLAPS

AnyBody == Bodies \cup {Genesis}

MainRec == [loop : BOOLEAN, head : HeadRec,
            pc : {"serving", "shutdown", "insert", "close"}]

CkptRec == [pc : {"wait", "last", "head", "insert", "ended"}, waited : 0 .. Interval,
            head : HeadRec]

MirrorRec == [pc : {"pages", "head"}, page : PageSizes, copy : Seq(Entry)]

BackupRec == [log : Seq(Entry), age : Seq(0 .. Interval), checkpoints : SUBSET HeadRec]

\* A head that is that of an entry of a chain.
OnChain(head, chain) == head.seq \in DOMAIN chain /\ chain[head.seq].hash = head.hash

\* A backup is a database that once was.
BackupOK ==
  /\ backup.log # << >>
  /\ \A c \in backup.checkpoints : OnChain(c, backup.log)

\* The heads that have been read and are about to be signed are on the chain.  While
\* no process runs there are none, and the chain may be replaced.
HeadsOnChain ==
  /\ ckpt.pc = "insert" => OnChain(ckpt.head, log)
  /\ main.pc = "insert" => OnChain(main.head, log)
  /\ up # "up" => ckpt.pc = "ended" /\ main.pc = "serving"

ChainInv == TypeOK /\ BackupOK /\ HeadsOnChain /\ CheckpointsOnChain

-----------------------------------------------------------------------------
(* Records.                                                                *)

LEMMA ConstantTypes ==
  /\ NoHead \in HeadRec
  /\ Waiting \in CkptRec /\ Waiting.pc = "wait"
  /\ [Waiting EXCEPT !.pc = "ended"] \in CkptRec
  /\ [Waiting EXCEPT !.pc = "ended"].pc = "ended"
  /\ \A loop \in BOOLEAN : Fresh(loop) \in MainRec /\ Fresh(loop).pc = "serving"
  /\ Closing \in MainRec /\ Closing.pc = "close"
  /\ \A page \in PageSizes : Mirroring(page) \in MirrorRec /\ Mirroring(page).copy = << >>
<1>1. NoHead \in HeadRec
  BY DEF NoHead, GenesisPrevHash, HeadRec
<1>2. Interval \in Nat
  BY TransparencyConstants DEF TransparencyConstants
<1>3. \A page \in PageSizes : Mirroring(page) \in MirrorRec /\ Mirroring(page).copy = << >>
  BY DEF Mirroring, MirrorRec
<1> HIDE DEF HeadRec
<1>4. QED
  BY <1>1, <1>2, <1>3 DEF Waiting, CkptRec, Fresh, Closing, MainRec

LEMMA LinkedType ==
  ASSUME NEW prev \in Seq(AnyBody), NEW body \in AnyBody
  PROVE  Linked(prev, body) \in Entry
  BY DEF Linked, EntryHash, Entry, AnyBody

\* Reading the head, by either of the two threads that sign.
LEMMA HeadReadByMain ==
  ASSUME NEW r \in MainRec, NEW h \in HeadRec
  PROVE  /\ [r EXCEPT !.pc = "insert", !.head = h] \in MainRec
         /\ [r EXCEPT !.pc = "insert", !.head = h].head = h
         /\ [r EXCEPT !.pc = "insert", !.head = h].pc = "insert"
<1> DEFINE one == [loop |-> r.loop, head |-> r.head, pc |-> "insert"]
           two == [loop |-> r.loop, head |-> h, pc |-> "insert"]
<1>1. [r EXCEPT !.pc = "insert"] = one
  BY DEF MainRec
<1>2. [one EXCEPT !.head = h] = two
  OBVIOUS
<1>3. two \in MainRec /\ two.head = h /\ two.pc = "insert"
  BY DEF MainRec
<1> HIDE DEF one, two
<1>4. [r EXCEPT !.pc = "insert", !.head = h] = [[r EXCEPT !.pc = "insert"] EXCEPT !.head = h]
  BY Zenon
<1>5. QED
  BY <1>1, <1>2, <1>3, <1>4, Zenon

LEMMA HeadReadByCkpt ==
  ASSUME NEW r \in CkptRec, NEW h \in HeadRec
  PROVE  /\ [r EXCEPT !.pc = "insert", !.head = h] \in CkptRec
         /\ [r EXCEPT !.pc = "insert", !.head = h].head = h
         /\ [r EXCEPT !.pc = "insert", !.head = h].pc = "insert"
<1> DEFINE one == [waited |-> r.waited, head |-> r.head, pc |-> "insert"]
           two == [waited |-> r.waited, head |-> h, pc |-> "insert"]
<1>1. [r EXCEPT !.pc = "insert"] = one
  BY DEF CkptRec
<1>2. [one EXCEPT !.head = h] = two
  OBVIOUS
<1>3. two \in CkptRec /\ two.head = h /\ two.pc = "insert"
  BY DEF CkptRec
<1> HIDE DEF one, two
<1>4. [r EXCEPT !.pc = "insert", !.head = h] = [[r EXCEPT !.pc = "insert"] EXCEPT !.head = h]
  BY Zenon
<1>5. QED
  BY <1>1, <1>2, <1>3, <1>4, Zenon

\* The step of a mirror that changes two fields of its record.
LEMMA MirrorReads ==
  ASSUME NEW r \in MirrorRec, NEW c, NEW p
  PROVE  [r EXCEPT !.copy = c, !.pc = p] = [pc |-> p, page |-> r.page, copy |-> c]
<1> DEFINE one == [pc |-> r.pc, page |-> r.page, copy |-> c]
<1>1. [r EXCEPT !.copy = c] = one
  BY DEF MirrorRec
<1>2. [one EXCEPT !.pc = p] = [pc |-> p, page |-> r.page, copy |-> c]
  OBVIOUS
<1> HIDE DEF one
<1>3. [r EXCEPT !.copy = c, !.pc = p] = [[r EXCEPT !.copy = c] EXCEPT !.pc = p]
  BY Zenon
<1>4. QED
  BY <1>1, <1>2, <1>3, Zenon

LEMMA HeadOfLog ==
  ASSUME TypeOK
  PROVE  /\ AuditHead \in HeadRec
         /\ OnChain(AuditHead, log)
         /\ AuditHead.hash \in Seq(AnyBody)
<1>1. Len(log) \in DOMAIN log /\ log[Len(log)] \in Entry /\ Len(log) \in Nat
  BY DEF TypeOK
<1>2. log[Len(log)].hash \in Seq(AnyBody)
  BY <1>1 DEF Entry, AnyBody
<1>3. QED
  BY <1>1, <1>2 DEF AuditHead, HeadRec, OnChain, AnyBody

\* Appending keeps every head that was on the chain on it.
LEMMA AppendKeeps ==
  ASSUME TypeOK, NEW body \in AnyBody, AppendAudit(body)
  PROVE  /\ log' \in Seq(Entry) /\ log' # << >>
         /\ age' \in Seq(0 .. Interval) /\ Len(age') = Len(log')
         /\ \A h : OnChain(h, log) => OnChain(h, log')
<1> DEFINE e == Linked(AuditHead.hash, body)
<1>1. e \in Entry
  BY HeadOfLog, LinkedType
<1> HIDE DEF e
<1>2. log' = Append(log, e) /\ age' = Append(age, 0)
  BY DEF AppendAudit, e
<1>3. log \in Seq(Entry) /\ age \in Seq(0 .. Interval) /\ Len(age) = Len(log)
      /\ 0 \in 0 .. Interval
  BY TransparencyConstants DEF TypeOK, TransparencyConstants
<1>4. /\ log' \in Seq(Entry) /\ log' # << >>
      /\ age' \in Seq(0 .. Interval) /\ Len(age') = Len(log')
      /\ \A i \in DOMAIN log : i \in DOMAIN log' /\ log'[i] = log[i]
  BY <1>1, <1>2, <1>3
<1>5. QED
  BY <1>4 DEF OnChain

-----------------------------------------------------------------------------
(* The invariant.  Each group of actions has its lemma.                    *)

LEMMA ChainInit == Init => ChainInv
<1> SUFFICES ASSUME Init PROVE ChainInv
  OBVIOUS
<1> DEFINE e == Linked(GenesisPrevHash, Genesis)
<1>1. e \in Entry
  <2>1. GenesisPrevHash \in Seq(AnyBody)
    BY DEF GenesisPrevHash
  <2>2. Genesis \in AnyBody
    BY DEF AnyBody
  <2>3. QED
    BY <2>1, <2>2, LinkedType
<1> HIDE DEF e
<1>2. log = <<e>> /\ log \in Seq(Entry) /\ log # << >>
  BY <1>1 DEF Init, e
<1>3. age \in Seq(0 .. Interval) /\ Len(age) = Len(log)
  BY <1>2, TransparencyConstants DEF Init, TransparencyConstants
<1>4. TypeOK
  <2>1. mirror \in MirrorRec
    BY ConstantTypes DEF Init
  <2>2. main \in MainRec /\ ckpt \in CkptRec /\ checkpoints = {}
    BY ConstantTypes DEF Init
  <2>3. backup \in BackupRec /\ Len(backup.age) = Len(backup.log)
    BY <1>2, <1>3, <2>2 DEF Init, Snapshot, BackupRec
  <2>4. QED
    BY <1>2, <1>3, <2>1, <2>2, <2>3
       DEF Init, TypeOK, MainRec, CkptRec, MirrorRec, BackupRec
<1>5. BackupOK
  BY <1>2 DEF Init, Snapshot, BackupOK
<1>6. HeadsOnChain /\ CheckpointsOnChain
  BY ConstantTypes DEF Init, HeadsOnChain, CheckpointsOnChain
<1>7. QED
  BY <1>4, <1>5, <1>6 DEF ChainInv

\* Steps of handlers, which may append.
LEMMA HandlerStep ==
  ASSUME ChainInv, NEW h \in Handlers,
         Accept(h) \/ Reply(h) \/ \E body \in Bodies : Write(h, body)
  PROVE  ChainInv'
<1>1. ASSUME Accept(h) \/ Reply(h)
      PROVE  ChainInv'
  BY <1>1 DEF Accept, Reply, ChainInv, TypeOK, BackupOK, HeadsOnChain, CheckpointsOnChain,
              OnChain, db
<1>2. ASSUME NEW body \in Bodies, Write(h, body)
      PROVE  ChainInv'
  <2>1. /\ log' \in Seq(Entry) /\ log' # << >>
        /\ age' \in Seq(0 .. Interval) /\ Len(age') = Len(log')
        /\ \A x : OnChain(x, log) => OnChain(x, log')
    BY <1>2, AppendKeeps DEF Write, ChainInv, AnyBody
  <2>2. TypeOK'
    BY <1>2, <2>1 DEF Write, ChainInv, TypeOK
  <2>3. CheckpointsOnChain' /\ HeadsOnChain' /\ BackupOK'
    BY <1>2, <2>1 DEF Write, ChainInv, CheckpointsOnChain, HeadsOnChain, BackupOK, OnChain
  <2>4. QED
    BY <2>2, <2>3 DEF ChainInv
<1>3. QED
  BY <1>1, <1>2

\* What storing a checkpoint does.
LEMMA CheckpointStored ==
  ASSUME ChainInv, NEW head \in HeadRec, OnChain(head, log), InsertCheckpoint(head),
         UNCHANGED log
  PROVE  checkpoints' \subseteq HeadRec /\ CheckpointsOnChain'
<1>1. Signed(head) \in HeadRec /\ OnChain(Signed(head), log)
  BY DEF Signed, HeadRec, OnChain
<1>2. checkpoints' \subseteq checkpoints \cup {Signed(head)}
  BY DEF InsertCheckpoint
<1>3. checkpoints \subseteq HeadRec /\ \A c \in checkpoints : OnChain(c, log)
  BY DEF ChainInv, TypeOK, CheckpointsOnChain, OnChain
<1>4. QED
  BY <1>1, <1>2, <1>3 DEF CheckpointsOnChain, OnChain

LEMMA CheckpointStep == ChainInv /\ Checkpointing => ChainInv'
<1> SUFFICES ASSUME ChainInv, Checkpointing PROVE ChainInv'
  OBVIOUS
<1>1. /\ ckpt \in CkptRec /\ main \in MainRec
      /\ \A pc \in {"ended", "last", "head"} :
           [ckpt EXCEPT !.pc = pc] \in CkptRec /\ [ckpt EXCEPT !.pc = pc].pc = pc
  BY DEF ChainInv, TypeOK, CkptRec, MainRec
<1>2. ASSUME CheckpointWake \/ CheckpointLast \/ CheckpointFails
      PROVE  ChainInv'
  <2>1. ckpt' \in CkptRec /\ ckpt'.pc # "insert" /\ ckpt.pc # "ended"
    BY <1>1, <1>2, ConstantTypes DEF CheckpointWake, CheckpointLast, CheckpointFails, AfterError
  <2>2. UNCHANGED <<db, backup, up, exits, serving, main, mirror>>
    BY <1>2 DEF CheckpointWake, CheckpointLast, CheckpointFails
  <2>3. QED
    BY <2>1, <2>2 DEF ChainInv, TypeOK, BackupOK, HeadsOnChain, CheckpointsOnChain,
                      OnChain, CkptRec, db
<1>3. ASSUME CheckpointHead
      PROVE  ChainInv'
  <2>1. AuditHead \in HeadRec /\ OnChain(AuditHead, log)
    BY HeadOfLog DEF ChainInv
  <2>2. ckpt' \in CkptRec /\ ckpt'.head = AuditHead /\ ckpt.pc # "ended"
    BY <1>1, <1>3, <2>1, HeadReadByCkpt DEF CheckpointHead
  <2>3. UNCHANGED <<db, backup, up, exits, serving, main, mirror>>
    BY <1>3 DEF CheckpointHead
  <2>4. QED
    BY <2>1, <2>2, <2>3 DEF ChainInv, TypeOK, BackupOK, HeadsOnChain, CheckpointsOnChain,
                            OnChain, CkptRec, db
<1>4. ASSUME CheckpointInsert
      PROVE  ChainInv'
  <2>1. /\ ckpt.pc = "insert" /\ ckpt' = Waiting /\ InsertCheckpoint(ckpt.head)
        /\ UNCHANGED <<log, age, backup, up, exits, serving, main, mirror>>
    BY <1>4 DEF CheckpointInsert
  <2>2. ckpt.head \in HeadRec /\ OnChain(ckpt.head, log)
    BY <1>1, <2>1 DEF ChainInv, HeadsOnChain, CkptRec
  <2>3. checkpoints' \subseteq HeadRec /\ CheckpointsOnChain'
    BY <2>1, <2>2, CheckpointStored
  <2>4. ckpt' \in CkptRec /\ ckpt'.pc = "wait"
    BY <2>1, ConstantTypes
  <2>5. QED
    BY <2>1, <2>3, <2>4 DEF ChainInv, TypeOK, BackupOK, HeadsOnChain, OnChain, CkptRec
<1>5. QED
  BY <1>2, <1>3, <1>4 DEF Checkpointing

LEMMA StoppingStep == ChainInv /\ (Stop \/ ServeLoopEnds \/ FinalFails) => ChainInv'
<1> SUFFICES ASSUME ChainInv, Stop \/ ServeLoopEnds \/ FinalFails PROVE ChainInv'
  OBVIOUS
<1>1. main \in MainRec
  BY DEF ChainInv, TypeOK, MainRec
<1>2. /\ [main EXCEPT !.pc = "shutdown"] \in MainRec
      /\ [main EXCEPT !.pc = "shutdown"].pc = "shutdown"
      /\ [main EXCEPT !.loop = FALSE] \in MainRec
      /\ [main EXCEPT !.loop = FALSE].pc = main.pc
  BY <1>1 DEF MainRec
<1>3. /\ main' \in MainRec /\ main'.pc # "insert"
      /\ up = "up" \/ main.pc # "serving"
  BY <1>2, ConstantTypes DEF Stop, ServeLoopEnds, FinalFails, StopWaited
<1>4. UNCHANGED <<db, backup, up, exits, serving, ckpt, mirror>>
  BY DEF Stop, ServeLoopEnds, FinalFails
<1>5. QED
  BY <1>3, <1>4 DEF ChainInv, TypeOK, BackupOK, HeadsOnChain, CheckpointsOnChain,
                    OnChain, MainRec, db

LEMMA FinalStep == ChainInv /\ (FinalHead \/ FinalInsert) => ChainInv'
<1> SUFFICES ASSUME ChainInv, FinalHead \/ FinalInsert PROVE ChainInv'
  OBVIOUS
<1>1. main \in MainRec
  BY DEF ChainInv, TypeOK, MainRec
<1>2. ASSUME FinalHead
      PROVE  ChainInv'
  <2>1. AuditHead \in HeadRec /\ OnChain(AuditHead, log)
    BY HeadOfLog DEF ChainInv
  <2>2. main' \in MainRec /\ main'.head = AuditHead /\ main.pc # "serving"
    BY <1>1, <1>2, <2>1, HeadReadByMain DEF FinalHead, StopWaited
  <2>3. UNCHANGED <<db, backup, up, exits, serving, ckpt, mirror>>
    BY <1>2 DEF FinalHead
  <2>4. QED
    BY <2>1, <2>2, <2>3 DEF ChainInv, TypeOK, BackupOK, HeadsOnChain, CheckpointsOnChain,
                            OnChain, MainRec, db
<1>3. ASSUME FinalInsert
      PROVE  ChainInv'
  <2>1. /\ main.pc = "insert" /\ InsertCheckpoint(main.head)
        /\ main' = Closing
        /\ UNCHANGED <<log, age, backup, up, exits, serving, ckpt, mirror>>
    BY <1>3 DEF FinalInsert
  <2>2. main.head \in HeadRec /\ OnChain(main.head, log)
    BY <1>1, <2>1 DEF ChainInv, HeadsOnChain, MainRec
  <2>3. checkpoints' \subseteq HeadRec /\ CheckpointsOnChain'
    BY <2>1, <2>2, CheckpointStored
  <2>4. main' \in MainRec /\ main'.pc = "close"
    BY <2>1, ConstantTypes
  <2>5. QED
    BY <2>1, <2>3, <2>4 DEF ChainInv, TypeOK, BackupOK, HeadsOnChain, OnChain, MainRec
<1>4. QED
  BY <1>2, <1>3

LEMMA ExitStep == ChainInv /\ (StoreClosed \/ Crash) => ChainInv'
<1> SUFFICES ASSUME ChainInv, NEW how \in {"stopped", "crashed"}, Exit(how) PROVE ChainInv'
  BY DEF StoreClosed, Crash
<1>1. /\ main' \in MainRec /\ main'.pc = "serving"
      /\ ckpt' \in CkptRec /\ ckpt'.pc = "ended"
  BY ConstantTypes DEF Exit
<1>2. exits' = exits + 1 /\ serving' = {} /\ up' = how /\ UNCHANGED <<db, backup, mirror>>
  BY DEF Exit
<1>3. QED
  BY <1>1, <1>2 DEF ChainInv, TypeOK, BackupOK, HeadsOnChain, CheckpointsOnChain, OnChain,
                    MainRec, CkptRec, db

LEMMA RestartStep == ChainInv /\ Restart => ChainInv'
<1> SUFFICES ASSUME ChainInv, Restart PROVE ChainInv'
  OBVIOUS
<1>1. /\ log' \in Seq(Entry) /\ log' # << >>
      /\ age' \in Seq(0 .. Interval) /\ Len(age') = Len(log')
      /\ \A x : OnChain(x, log) => OnChain(x, log')
  <2>1. CASE UNCHANGED <<log, age>>
    BY <2>1 DEF ChainInv, TypeOK
  <2>2. ASSUME NEW body \in Bodies, AppendAudit(body)
        PROVE  /\ log' \in Seq(Entry) /\ log' # << >>
               /\ age' \in Seq(0 .. Interval) /\ Len(age') = Len(log')
               /\ \A x : OnChain(x, log) => OnChain(x, log')
    BY <2>2, AppendKeeps DEF ChainInv, AnyBody
  <2>3. QED
    BY <2>1, <2>2 DEF Restart
<1>2. /\ main' \in MainRec /\ main'.pc = "serving"
      /\ ckpt' \in CkptRec /\ ckpt'.pc = "wait" /\ up' = "up"
      /\ UNCHANGED <<checkpoints, backup, exits, serving, mirror>>
  BY ConstantTypes DEF Restart
<1>3. TypeOK'
  BY <1>1, <1>2 DEF ChainInv, TypeOK, MainRec, CkptRec
<1>4. BackupOK' /\ HeadsOnChain' /\ CheckpointsOnChain'
  BY <1>1, <1>2 DEF ChainInv, BackupOK, HeadsOnChain, CheckpointsOnChain, OnChain
<1>5. QED
  BY <1>3, <1>4 DEF ChainInv

\* The chain is only replaced while nobody holds a head of it.
LEMMA BackupStep == ChainInv /\ (Backup \/ RestoreBackup) => ChainInv'
<1> SUFFICES ASSUME ChainInv, Backup \/ RestoreBackup PROVE ChainInv'
  OBVIOUS
<1>1. ASSUME Backup
      PROVE  ChainInv'
  <2>1. /\ backup' \in BackupRec /\ Len(backup'.age) = Len(backup'.log)
        /\ backup'.log = log /\ backup'.checkpoints = checkpoints
    BY <1>1 DEF Backup, Snapshot, BackupRec, ChainInv, TypeOK
  <2>2. UNCHANGED <<log, age, checkpoints, up, exits, serving, main, ckpt, mirror>>
    BY <1>1 DEF Backup, db, process
  <2>3. QED
    BY <2>1, <2>2 DEF ChainInv, TypeOK, BackupOK, HeadsOnChain, CheckpointsOnChain, OnChain,
                      BackupRec
<1>2. ASSUME RestoreBackup
      PROVE  ChainInv'
  <2>1. /\ up # "up" /\ log' = backup.log /\ checkpoints' = backup.checkpoints
        /\ age' = backup.age
        /\ UNCHANGED <<backup, up, exits, serving, main, ckpt, mirror>>
    BY <1>2 DEF RestoreBackup, process
  <2>2. /\ age' \in Seq(0 .. Interval) /\ Len(age') = Len(log')
        /\ log' \in Seq(Entry) /\ checkpoints' \subseteq HeadRec
    BY <2>1 DEF ChainInv, TypeOK
  <2>3. QED
    BY <2>1, <2>2 DEF ChainInv, TypeOK, BackupOK, HeadsOnChain, CheckpointsOnChain, OnChain
<1>3. QED
  BY <1>1, <1>2

\* What the server sends in a page, and what the mirror then holds.
LEMMA PageOfLog ==
  ASSUME TypeOK, NEW after \in Nat, NEW limit \in Nat
  PROVE  /\ Page(after, limit) \in Seq(Entry)
         /\ limit <= ServerLimit /\ Len(Page(after, limit)) < limit
              => after + Len(Page(after, limit)) >= Len(log)
<1> DEFINE last == Min2(Len(log), after + Min2(limit, ServerLimit))
<1>1. ServerLimit \in Nat \ {0} /\ Len(log) \in Nat /\ log \in Seq(Entry)
  BY TransparencyConstants DEF TypeOK, TransparencyConstants
<1>2. /\ last \in Nat /\ last <= Len(log)
      /\ limit <= ServerLimit => last = Len(log) \/ last = after + limit
  BY <1>1 DEF Min2
<1>3. Page(after, limit) = SubSeq(log, after + 1, last)
  BY DEF Page
<1> HIDE DEF last
<1>4. SubSeq(log, after + 1, last) \in Seq(Entry)
  BY <1>1, <1>2
<1>5. Len(SubSeq(log, after + 1, last))
        = IF after + 1 <= last THEN last - after ELSE 0
  BY <1>1, <1>2
<1>6. QED
  BY <1>1, <1>2, <1>3, <1>4, <1>5

\* A page leaves the record of the mirror a record, and reads its batch.
LEMMA MirrorPaged ==
  ASSUME TypeOK, MirrorPage
  PROVE  LET batch == Page(Len(mirror.copy), mirror.page)
         IN /\ mirror.page \in Nat
            /\ Len(mirror.copy) \in Nat
            /\ batch \in Seq(Entry)
            /\ mirror' \in MirrorRec
            /\ mirror'.copy = mirror.copy \o batch
            /\ mirror'.pc = IF IsLastBatch(batch) THEN "head" ELSE "pages"
            /\ UNCHANGED <<db, backup, process>>
<1> DEFINE batch == Page(Len(mirror.copy), mirror.page)
           read == mirror.copy \o batch
           next == IF IsLastBatch(batch) THEN "head" ELSE "pages"
<1>1. mirror \in MirrorRec /\ mirror.copy \in Seq(Entry) /\ Len(mirror.copy) \in Nat
  BY DEF TypeOK, MirrorRec
<1>2. mirror.page \in Nat
  BY <1>1, TransparencyConstants DEF MirrorRec, TransparencyConstants
<1>3. batch \in Seq(Entry)
  BY <1>1, <1>2, PageOfLog
<1>4. mirror' = [mirror EXCEPT !.copy = read, !.pc = next] /\ UNCHANGED <<db, backup, process>>
  BY Zenon DEF MirrorPage
<1>5. next \in {"head", "pages"}
  OBVIOUS
<1> HIDE DEF batch
<1>6. read \in Seq(Entry)
  BY <1>1, <1>3
<1> HIDE DEF read, next
<1>7. mirror' = [pc |-> next, page |-> mirror.page, copy |-> read]
  BY <1>1, <1>4, MirrorReads, Zenon
<1>8. mirror' \in MirrorRec /\ mirror'.copy = read /\ mirror'.pc = next
  BY <1>1, <1>5, <1>6, <1>7 DEF MirrorRec
<1>9. QED
  BY <1>1, <1>2, <1>3, <1>4, <1>8, Zenon DEF batch, read, next

LEMMA MirrorStep == ChainInv /\ (MirrorStart \/ MirrorPage \/ MirrorHead) => ChainInv'
<1> SUFFICES ASSUME ChainInv, MirrorStart \/ MirrorPage \/ MirrorHead PROVE ChainInv'
  OBVIOUS
<1>1. UNCHANGED <<db, backup, process>>
  BY DEF MirrorStart, MirrorPage, MirrorHead
<1>2. mirror' \in MirrorRec
  <2>1. CASE MirrorStart
    BY <2>1, ConstantTypes DEF MirrorStart
  <2>2. CASE MirrorPage
    BY <2>2, MirrorPaged, Zenon DEF ChainInv
  <2>3. CASE MirrorHead
    BY <2>3, ConstantTypes DEF MirrorHead, ChainInv, TypeOK
  <2>4. QED
    BY <2>1, <2>2, <2>3
<1>3. QED
  BY <1>1, <1>2 DEF ChainInv, TypeOK, BackupOK, HeadsOnChain, CheckpointsOnChain, OnChain,
                    MirrorRec, db, process

\* A sequence is a function on 1 .. n, and such a function is a sequence.
LEMMA SeqFacts ==
  ASSUME NEW S
  PROVE  /\ \A s \in Seq(S) : /\ Len(s) \in Nat /\ DOMAIN s = 1 .. Len(s)
                             /\ \A i \in 1 .. Len(s) : s[i] \in S
         /\ \A n \in Nat : \A s \in [1 .. n -> S] : s \in Seq(S) /\ Len(s) = n
  OBVIOUS

\* Ageing keeps the ages of a log its ages.
LEMMA AgedType ==
  ASSUME NEW ages \in Seq(0 .. Interval)
  PROVE  Aged(ages) \in Seq(0 .. Interval) /\ Len(Aged(ages)) = Len(ages)
<1>1. Interval \in Nat \ {0} /\ \A a \in 0 .. Interval : Older(a) \in 0 .. Interval
  BY TransparencyConstants DEF TransparencyConstants, Older
<1>2. /\ Len(ages) \in Nat /\ DOMAIN ages = 1 .. Len(ages)
      /\ \A i \in 1 .. Len(ages) : ages[i] \in 0 .. Interval
  BY SeqFacts, Zenon
<1>3. \A i \in 1 .. Len(ages) : Older(ages[i]) \in 0 .. Interval
  BY <1>1, <1>2, Zenon
<1>4. Aged(ages) = [i \in 1 .. Len(ages) |-> Older(ages[i])]
  BY <1>2 DEF Aged
<1>5. Aged(ages) \in [1 .. Len(ages) -> 0 .. Interval]
  BY <1>3, <1>4, Zenon
<1>6. QED
  BY <1>2, <1>5, SeqFacts, Zenon

LEMMA TickStep == ChainInv /\ Tick => ChainInv'
<1> SUFFICES ASSUME ChainInv, Tick PROVE ChainInv'
  OBVIOUS
<1>1. Interval \in Nat \ {0} /\ \A a \in 0 .. Interval : Older(a) \in 0 .. Interval
  BY TransparencyConstants DEF TransparencyConstants, Older
<1>2. /\ age \in Seq(0 .. Interval) /\ Len(age) = Len(log) /\ ckpt \in CkptRec
      /\ backup \in BackupRec /\ Len(backup.age) = Len(backup.log)
  BY DEF ChainInv, TypeOK, CkptRec, BackupRec
<1>3. age' \in Seq(0 .. Interval) /\ Len(age') = Len(log)
  BY <1>2, AgedType DEF Tick
<1>4. /\ backup' \in BackupRec /\ Len(backup'.age) = Len(backup'.log)
      /\ backup'.log = backup.log /\ backup'.checkpoints = backup.checkpoints
  <2>1. backup.age \in Seq(0 .. Interval)
    BY <1>2 DEF BackupRec
  <2>2. Aged(backup.age) \in Seq(0 .. Interval) /\ Len(Aged(backup.age)) = Len(backup.log)
    BY <1>2, <2>1, AgedType
  <2>3. backup' = [backup EXCEPT !.age = Aged(backup.age)]
    BY DEF Tick
  <2>4. QED
    BY <1>2, <2>2, <2>3 DEF BackupRec
<1> DEFINE waited == IF ckpt.pc = "wait" THEN Older(ckpt.waited) ELSE ckpt.waited
<1>5. waited \in 0 .. Interval
  BY <1>1, <1>2 DEF CkptRec
<1>6. ckpt' = [ckpt EXCEPT !.waited = waited]
  BY Zenon DEF Tick
<1> HIDE DEF waited
<1>7. ckpt' \in CkptRec /\ ckpt'.pc = ckpt.pc /\ ckpt'.head = ckpt.head
  BY <1>2, <1>5, <1>6 DEF CkptRec
<1>8. UNCHANGED <<log, checkpoints, up, exits, serving, main, mirror>>
  BY DEF Tick
<1>9. QED
  BY <1>3, <1>4, <1>7, <1>8 DEF ChainInv, TypeOK, BackupOK, HeadsOnChain, CheckpointsOnChain,
                                OnChain, CkptRec, BackupRec

LEMMA ChainStep == ChainInv /\ [Next]_vars => ChainInv'
<1> SUFFICES ASSUME ChainInv, [Next]_vars PROVE ChainInv'
  OBVIOUS
<1>1. CASE UNCHANGED vars
  BY <1>1 DEF ChainInv, TypeOK, BackupOK, HeadsOnChain, CheckpointsOnChain, OnChain,
              vars, db, process
<1>2. CASE \E h \in Handlers : Accept(h) \/ Reply(h) \/ \E body \in Bodies : Write(h, body)
  BY <1>2, HandlerStep
<1>3. CASE Checkpointing
  BY <1>3, CheckpointStep
<1>4. CASE Stop \/ ServeLoopEnds \/ Stopping \/ Crash
  BY <1>4, StoppingStep, FinalStep, ExitStep DEF Stopping
<1>5. CASE Restart \/ Backup \/ RestoreBackup
  BY <1>5, RestartStep, BackupStep
<1>6. CASE MirrorStart \/ MirrorPage \/ MirrorHead \/ Tick
  BY <1>6, MirrorStep, TickStep
<1>7. QED
  BY <1>1, <1>2, <1>3, <1>4, <1>5, <1>6 DEF Next

THEOREM ChainInvariant == Spec => []ChainInv
  BY ChainInit, ChainStep, PTL DEF Spec

\* Every variable keeps its type, whatever the log, the pages and the number of
\* handlers, through crashes and restores; every entry has an age.
THEOREM TypeCorrect == Spec => []TypeOK
<1>1. ChainInv => TypeOK
  BY DEF ChainInv
<1>2. QED
  BY <1>1, ChainInvariant, PTL

\* Every stored checkpoint signs an entry of the chain as it now is: both threads
\* that sign read a head and store it later, while handlers append, the process dies
\* and the database is set back.  The argument is HeadsOnChain: a head that was read
\* stays on the chain, since appending keeps it there, and the chain is only replaced
\* while no process runs, when nobody holds one.
THEOREM CheckpointsStayOnChain == Spec => []CheckpointsOnChain
<1>1. ChainInv => CheckpointsOnChain
  BY DEF ChainInv
<1>2. QED
  BY <1>1, ChainInvariant, PTL

\* With a page that the server grants, the batch that ends a mirror's download is the
\* one that reaches the end of the log as it is at that moment, whatever the sizes.
THEOREM MirrorsReachTheEnd == Spec => MirrorReachesEnd
<1> DEFINE Reaches == MirrorPage /\ mirror'.pc = "head" /\ mirror.page <= ServerLimit
                        => Len(mirror'.copy) >= Len(log)
<1>1. ASSUME TypeOK, MirrorPage, mirror'.pc = "head", mirror.page <= ServerLimit
      PROVE  Len(mirror'.copy) >= Len(log)
  <2> DEFINE batch == Page(Len(mirror.copy), mirror.page)
  <2>1. /\ mirror.page \in Nat /\ Len(mirror.copy) \in Nat
        /\ batch \in Seq(Entry) /\ mirror'.copy = mirror.copy \o batch
        /\ mirror'.pc = IF IsLastBatch(batch) THEN "head" ELSE "pages"
    BY <1>1, MirrorPaged, Zenon
  <2>2. Len(batch) < mirror.page
    BY <1>1, <2>1 DEF IsLastBatch
  <2>3. Len(mirror.copy) + Len(batch) >= Len(log)
    BY <1>1, <2>1, <2>2, PageOfLog
  <2>4. mirror.copy \in Seq(Entry)
    BY <1>1 DEF TypeOK
  <2> HIDE DEF batch
  <2>5. Len(mirror.copy \o batch) = Len(mirror.copy) + Len(batch)
    BY <2>1, <2>4
  <2>6. QED
    BY <2>1, <2>3, <2>5
<1>2. TypeOK /\ [Next]_vars => [Reaches]_vars
  BY <1>1
<1>3. QED
  BY <1>2, TypeCorrect, PTL DEF MirrorReachesEnd, Spec

-----------------------------------------------------------------------------
(* The mirror's verdict.                                                   *)

\* A chain as _append_audit makes it.
Chained(chain) ==
  \A i \in DOMAIN chain :
    /\ Len(chain[i].hash) = i
    /\ chain[i].hash = EntryHash(chain[i].prev, chain[i].body)
    /\ i > 1 => chain[i].prev = chain[i - 1].hash

\* The log and its backup are chains; the mirror may hold entries of several chains,
\* each at the place it had in its own.
HashesOK ==
  /\ Chained(log)
  /\ Chained(backup.log)
  /\ \A i \in DOMAIN mirror.copy : Len(mirror.copy[i].hash) = i

LEMMA SmallestOf ==
  ASSUME NEW T \in SUBSET Nat, T # {}
  PROVE  \E x \in T : \A y \in T : x <= y
<1>1. PICK x \in T : \A y \in T : ~(<<y, x>> \in OpToRel(<, Nat))
  BY NatLessThanWellFounded, WFMin
<1>2. \A y \in Nat : y < x => <<y, x>> \in OpToRel(<, Nat)
  BY DEF OpToRel
<1>3. \A y \in T : ~(y < x)
  BY <1>1, <1>2
<1>4. QED
  BY <1>3

LEMMA AppendFacts ==
  ASSUME NEW S, NEW s \in Seq(S), NEW t \in Seq(S), NEW x \in S, NEW y \in S
  PROVE  /\ Len(Append(s, x)) = Len(s) + 1
         /\ Append(s, x) = Append(t, y) => s = t /\ x = y
<1>1. Len(Append(s, x)) = Len(s) + 1
  OBVIOUS
<1>2. ASSUME Append(s, x) = Append(t, y) PROVE s = t /\ x = y
  <2>1. Len(s) = Len(t) /\ Len(s) \in Nat
    BY <1>2
  <2>2. Append(s, x)[Len(s) + 1] = x /\ Append(t, y)[Len(t) + 1] = y
    OBVIOUS
  <2>3. \A i \in 1 .. Len(s) : Append(s, x)[i] = s[i]
    OBVIOUS
  <2>4. \A i \in 1 .. Len(t) : Append(t, y)[i] = t[i]
    OBVIOUS
  <2>5. \A i \in 1 .. Len(s) : s[i] = t[i]
    BY <1>2, <2>1, <2>3, <2>4
  <2>6. QED
    BY <1>2, <2>1, <2>2, <2>5
<1>3. QED
  BY <1>1, <1>2

\* An entry's hash is made of its fields, and of nothing else: equal hashes come from
\* equal entries.
LEMMA EqualHashes ==
  ASSUME NEW a \in Entry, NEW b \in Entry,
         a.hash = EntryHash(a.prev, a.body), b.hash = EntryHash(b.prev, b.body),
         a.hash = b.hash
  PROVE  a = b
<1>1. a.prev \in Seq(AnyBody) /\ b.prev \in Seq(AnyBody) /\ a.body \in AnyBody /\ b.body \in AnyBody
  BY DEF Entry, AnyBody
<1>2. a.prev = b.prev /\ a.body = b.body
  <2>1. Append(a.prev, a.body) = Append(b.prev, b.body)
    BY DEF EntryHash
  <2>2. QED
    BY <1>1, <2>1, AppendFacts
<1>3. QED
  BY <1>2 DEF Entry

\* The argument of the verdict: equal last hashes, and then, going down the two chains,
\* equal entries; so that a copy which verifies is the chain that ends in that hash.
LEMMA EqualChains ==
  ASSUME NEW chain \in Seq(Entry), NEW copy \in Seq(Entry), chain # << >>, copy # << >>,
         Chained(chain), VerifyChain(copy),
         \A i \in DOMAIN copy : Len(copy[i].hash) = i,
         copy[Len(copy)].hash = chain[Len(chain)].hash
  PROVE  copy = chain
<1> DEFINE n == Len(chain)
<1>1. /\ n \in Nat \ {0} /\ Len(copy) \in Nat \ {0}
      /\ DOMAIN chain = 1 .. n /\ DOMAIN copy = 1 .. Len(copy)
      /\ \A i \in 1 .. n : chain[i] \in Entry
      /\ \A i \in 1 .. Len(copy) : copy[i] \in Entry
  OBVIOUS
<1>2. Len(copy) = n
  <2>1. n \in DOMAIN chain /\ Len(copy) \in DOMAIN copy
    BY <1>1
  <2>2. Len(chain[n].hash) = n /\ Len(copy[Len(copy)].hash) = Len(copy)
    BY <2>1 DEF Chained
  <2>3. QED
    BY <2>2
<1>3. \A i \in 1 .. n : copy[i].hash = chain[i].hash => copy[i] = chain[i]
  <2>1. ASSUME NEW i \in 1 .. n, copy[i].hash = chain[i].hash PROVE copy[i] = chain[i]
    <3>1. copy[i] \in Entry /\ chain[i] \in Entry
      BY <1>1, <1>2
    <3>2. /\ copy[i].hash = EntryHash(copy[i].prev, copy[i].body)
          /\ chain[i].hash = EntryHash(chain[i].prev, chain[i].body)
      BY <1>1, <1>2 DEF VerifyChain, Chained
    <3>3. QED
      BY <2>1, <3>1, <3>2, EqualHashes
  <2>2. QED
    BY <2>1
<1> DEFINE Differ == {k \in 0 .. n - 1 : copy[n - k].hash # chain[n - k].hash}
<1>4. Differ = {}
  <2>1. SUFFICES ASSUME Differ # {} PROVE FALSE
    OBVIOUS
  <2>2. Differ \in SUBSET Nat
    BY <1>1
  <2>3. PICK k \in Differ : \A j \in Differ : k <= j
    <3> HIDE DEF Differ
    <3>1. QED
      BY <2>1, <2>2, SmallestOf
  <2>4. k \in 1 .. n - 1 /\ copy[n - k].hash # chain[n - k].hash
    BY <1>1, <1>2, <2>3
  <2>5. copy[n - (k - 1)].hash = chain[n - (k - 1)].hash
    <3>1. k - 1 \in 0 .. n - 1 /\ k - 1 < k
      BY <1>1, <2>4
    <3>2. k - 1 \notin Differ
      <4> HIDE DEF Differ
      <4>1. QED
        BY <1>1, <2>2, <2>3, <2>4, <3>1
    <3>3. QED
      BY <3>1, <3>2
  <2>6. PICK i \in 1 .. n : i = n - (k - 1) /\ i > 1 /\ i - 1 = n - k
    <3>1. n - (k - 1) \in 1 .. n /\ n - (k - 1) > 1 /\ (n - (k - 1)) - 1 = n - k
      BY <1>1, <2>4
    <3>2. QED
      BY <3>1
  <2>7. copy[i] = chain[i]
    BY <1>3, <2>5, <2>6
  <2>8. copy[i].prev = copy[i - 1].hash /\ chain[i].prev = chain[i - 1].hash
    BY <1>1, <1>2, <2>6 DEF VerifyChain, Chained
  <2>9. QED
    BY <2>4, <2>6, <2>7, <2>8
<1>5. ASSUME NEW i \in 1 .. n PROVE copy[i] = chain[i]
  <2>1. PICK k \in 0 .. n - 1 : i = n - k
    <3>1. n - i \in 0 .. n - 1 /\ i = n - (n - i)
      BY <1>1
    <3>2. QED
      BY <3>1
  <2>2. copy[i].hash = chain[i].hash
    BY <1>4, <2>1
  <2>3. QED
    BY <1>3, <2>2
<1> HIDE DEF n
<1>6. QED
  BY <1>1, <1>2, <1>5

\* An entry appended continues the chain.
LEMMA ChainedAppend ==
  ASSUME TypeOK, Chained(log), NEW body \in AnyBody, AppendAudit(body)
  PROVE  Chained(log')
<1> DEFINE e == Linked(AuditHead.hash, body)
           n == Len(log)
<1>1. log \in Seq(Entry) /\ n \in Nat \ {0} /\ DOMAIN log = 1 .. n /\ log[n] \in Entry
  BY DEF TypeOK
<1>2. AuditHead.hash = log[n].hash /\ Len(log[n].hash) = n /\ log[n].hash \in Seq(AnyBody)
  <2>1. log[n].hash \in Seq(AnyBody)
    BY <1>1 DEF Entry, AnyBody
  <2>2. AuditHead.hash = log[n].hash
    BY DEF AuditHead
  <2>3. n \in DOMAIN log
    BY <1>1
  <2>4. Len(log[n].hash) = n
    BY <2>3 DEF Chained
  <2>5. QED
    BY <2>1, <2>2, <2>4
<1>3. e.prev = log[n].hash /\ e.hash = EntryHash(e.prev, e.body) /\ Len(e.hash) = n + 1
  <2>1. Len(EntryHash(log[n].hash, body)) = n + 1
    BY <1>2, AppendFacts DEF EntryHash
  <2>2. QED
    BY <1>2, <2>1 DEF Linked
<1>a. e \in Entry
  BY <1>2, LinkedType
<1> HIDE DEF e
<1>4. log' = Append(log, e)
  BY DEF AppendAudit, e
<1>5. /\ DOMAIN log' = 1 .. n + 1
      /\ \A i \in 1 .. n : log'[i] = log[i]
      /\ log'[n + 1] = e
  BY <1>1, <1>4, <1>a
<1>6. ASSUME NEW i \in DOMAIN log'
      PROVE  /\ Len(log'[i].hash) = i
             /\ log'[i].hash = EntryHash(log'[i].prev, log'[i].body)
             /\ i > 1 => log'[i].prev = log'[i - 1].hash
  <2>1. CASE i = n + 1
    BY <1>1, <1>3, <1>5, <2>1
  <2>2. CASE i \in 1 .. n
    <3>1. log'[i] = log[i] /\ (i > 1 => log'[i - 1] = log[i - 1])
      BY <1>1, <1>5, <2>2
    <3>2. QED
      BY <1>1, <2>2, <3>1 DEF Chained
  <2>3. QED
    BY <1>1, <1>5, <2>1, <2>2
<1>7. QED
  BY <1>6 DEF Chained

\* Entries of a page are entries of the log, at their places.
LEMMA PageEntries ==
  ASSUME TypeOK, NEW after \in Nat, NEW limit \in Nat
  PROVE  \A k \in 1 .. Len(Page(after, limit)) :
           after + k \in DOMAIN log /\ Page(after, limit)[k] = log[after + k]
<1> DEFINE last == Min2(Len(log), after + Min2(limit, ServerLimit))
<1>1. ServerLimit \in Nat /\ Len(log) \in Nat /\ log \in Seq(Entry) /\ DOMAIN log = 1 .. Len(log)
  BY TransparencyConstants DEF TypeOK, TransparencyConstants
<1>2. last \in Nat /\ last <= Len(log)
  BY <1>1 DEF Min2
<1>3. Page(after, limit) = SubSeq(log, after + 1, last)
  BY DEF Page
<1> HIDE DEF last
<1>4. Len(SubSeq(log, after + 1, last))
        = IF after + 1 <= last THEN last - after ELSE 0
  BY <1>1, <1>2
<1>5. \A k \in 1 .. Len(SubSeq(log, after + 1, last)) :
        /\ after + k \in 1 .. Len(log)
        /\ SubSeq(log, after + 1, last)[k] = log[after + k]
  <2>1. SUFFICES ASSUME NEW k \in 1 .. Len(SubSeq(log, after + 1, last))
                 PROVE  /\ after + k \in 1 .. Len(log)
                        /\ SubSeq(log, after + 1, last)[k] = log[after + k]
    OBVIOUS
  <2>2. k \in Nat /\ k >= 1 /\ after + 1 <= last /\ k <= last - after
    BY <1>1, <1>2, <1>4
  <2>3. after + k \in 1 .. Len(log)
    BY <1>1, <1>2, <2>2
  <2>4. after + 1 \in 1 .. Len(log) + 1 /\ last \in 0 .. Len(log)
    BY <1>1, <1>2, <2>2
  <2>5. \A i \in 1 .. last - (after + 1) + 1 :
          SubSeq(log, after + 1, last)[i] = log[(after + 1) + i - 1]
    BY <1>1, <2>4, SubSeqProperties
  <2>6. k \in 1 .. last - (after + 1) + 1 /\ (after + 1) + k - 1 = after + k
    BY <1>2, <2>2
  <2>7. QED
    BY <2>3, <2>5, <2>6
<1>6. QED
  BY <1>1, <1>3, <1>5

LEMMA HashesPage ==
  ASSUME TypeOK, HashesOK, MirrorPage
  PROVE  HashesOK'
<1> DEFINE copy == mirror.copy
           batch == Page(Len(copy), mirror.page)
<1>1. /\ mirror.page \in Nat /\ Len(copy) \in Nat /\ batch \in Seq(Entry)
      /\ mirror'.copy = copy \o batch
      /\ UNCHANGED <<db, backup, process>>
  BY MirrorPaged
<1>2. copy \in Seq(Entry)
  BY DEF TypeOK
<1>3. \A k \in 1 .. Len(batch) : Len(batch[k].hash) = Len(copy) + k
  <2>1. \A k \in 1 .. Len(batch) :
          Len(copy) + k \in DOMAIN log /\ batch[k] = log[Len(copy) + k]
    BY <1>1, PageEntries
  <2>2. QED
    BY <2>1 DEF HashesOK, Chained
<1>4. \A i \in 1 .. Len(copy) : Len(copy[i].hash) = i
  BY <1>2 DEF HashesOK
<1> HIDE DEF copy, batch
<1>5. /\ DOMAIN (copy \o batch) = 1 .. Len(copy) + Len(batch)
      /\ \A i \in 1 .. Len(copy) : (copy \o batch)[i] = copy[i]
      /\ \A i \in 1 .. Len(copy) + Len(batch) : i > Len(copy) =>
           i - Len(copy) \in 1 .. Len(batch) /\ (copy \o batch)[i] = batch[i - Len(copy)]
      /\ Len(batch) \in Nat
  BY <1>1, <1>2
<1>6. ASSUME NEW i \in 1 .. Len(copy) + Len(batch) PROVE Len((copy \o batch)[i].hash) = i
  <2>1. CASE i <= Len(copy)
    BY <1>1, <1>4, <1>5, <2>1
  <2>2. CASE i > Len(copy)
    BY <1>1, <1>3, <1>5, <2>2
  <2>3. QED
    BY <1>1, <2>1, <2>2
<1>7. \A i \in DOMAIN mirror'.copy : Len(mirror'.copy[i].hash) = i
  BY <1>1, <1>5, <1>6
<1>8. QED
  BY <1>1, <1>7 DEF HashesOK, Chained, db

LEMMA HashesStep == TypeOK /\ HashesOK /\ [Next]_vars => HashesOK'
<1> SUFFICES ASSUME TypeOK, HashesOK, [Next]_vars PROVE HashesOK'
  OBVIOUS
<1>a. ASSUME UNCHANGED <<log, backup, mirror>> PROVE HashesOK'
  BY <1>a DEF HashesOK, Chained
<1>b. ASSUME NEW body \in AnyBody, AppendAudit(body), UNCHANGED <<backup, mirror>>
      PROVE  HashesOK'
  <2>1. Chained(log')
    BY <1>b, ChainedAppend DEF HashesOK
  <2>2. QED
    BY <1>b, <2>1 DEF HashesOK, Chained
<1>1. CASE UNCHANGED vars
  BY <1>1, <1>a DEF vars, db
<1>2. ASSUME NEW h \in Handlers, Accept(h) \/ Reply(h) PROVE HashesOK'
  BY <1>2, <1>a DEF Accept, Reply, db
<1>3. ASSUME NEW h \in Handlers, NEW body \in Bodies, Write(h, body) PROVE HashesOK'
  BY <1>3, <1>b DEF Write, AnyBody
<1>4. CASE Checkpointing
  BY <1>4, <1>a DEF Checkpointing, CheckpointWake, CheckpointLast, CheckpointHead,
                    CheckpointInsert, CheckpointFails, db
<1>5. CASE Stop \/ ServeLoopEnds \/ Stopping \/ Crash
  BY <1>5, <1>a DEF Stop, ServeLoopEnds, Stopping, FinalHead, FinalInsert, FinalFails,
                    StoreClosed, Crash, Exit, db
<1>6. CASE Restart
  BY <1>6, <1>a, <1>b DEF Restart, AnyBody
<1>7. CASE Backup \/ RestoreBackup
  <2>1. CASE Backup
    BY <2>1 DEF Backup, Snapshot, HashesOK, Chained, db
  <2>2. CASE RestoreBackup
    BY <2>2 DEF RestoreBackup, HashesOK, Chained
  <2>3. QED
    BY <1>7, <2>1, <2>2
<1>8. CASE MirrorStart \/ MirrorHead
  <2>1. mirror'.copy = << >> /\ UNCHANGED <<db, backup>>
    <3>1. CASE MirrorHead
      BY <3>1, ConstantTypes DEF MirrorHead, TypeOK
    <3>2. CASE MirrorStart
      BY <3>2, ConstantTypes DEF MirrorStart
    <3>3. QED
      BY <1>8, <3>1, <3>2
  <2>2. QED
    BY <2>1 DEF HashesOK, Chained, db
<1>9. CASE MirrorPage
  BY <1>9, HashesPage
<1>10. CASE Tick
  BY <1>10 DEF Tick, TypeOK, HashesOK, Chained
<1>11. QED
  BY <1>1, <1>2, <1>3, <1>4, <1>5, <1>6, <1>7, <1>8, <1>9, <1>10 DEF Next

LEMMA HashesInit == Init => HashesOK
<1> SUFFICES ASSUME Init PROVE HashesOK
  OBVIOUS
<1> DEFINE e == Linked(GenesisPrevHash, Genesis)
<1>1. e.hash = EntryHash(e.prev, e.body) /\ Len(e.hash) = 1
  BY DEF Linked, EntryHash, GenesisPrevHash
<1> HIDE DEF e
<1>2. log = <<e>> /\ backup.log = log /\ mirror.copy = << >>
  BY ConstantTypes DEF Init, Snapshot, e
<1>3. Chained(log)
  <2>1. DOMAIN log = {1} /\ log[1] = e
    BY <1>2
  <2>2. QED
    BY <1>1, <2>1 DEF Chained
<1>4. QED
  BY <1>2, <1>3 DEF HashesOK

\* mirror.ingest_chain: a mirror that finds its copy a chain, and its last hash that of
\* the served head, holds the log whole and as it is, although the pages of the copy
\* were read at different times, and the database may have been set back in between.
THEOREM MirrorsAreExact == Spec => MirrorIsExact
<1> DEFINE Exact == MirrorHead /\ Verdict(mirror.copy) => mirror.copy = log
<1>1. ASSUME TypeOK, HashesOK, Verdict(mirror.copy)
      PROVE  mirror.copy = log
  <2>1. /\ log \in Seq(Entry) /\ mirror.copy \in Seq(Entry)
        /\ log # << >> /\ mirror.copy # << >>
    BY <1>1 DEF TypeOK, Verdict
  <2>2. /\ Chained(log) /\ VerifyChain(mirror.copy)
        /\ \A i \in DOMAIN mirror.copy : Len(mirror.copy[i].hash) = i
        /\ mirror.copy[Len(mirror.copy)].hash = log[Len(log)].hash
    BY <1>1 DEF HashesOK, Verdict, AuditHead
  <2>3. QED
    BY <2>1, <2>2, EqualChains
<1>2. TypeOK /\ HashesOK /\ [Next]_vars => [Exact]_vars
  BY <1>1
<1>3. QED
  BY <1>2, HashesInit, HashesStep, TypeCorrect, PTL DEF MirrorIsExact, Spec

=============================================================================
