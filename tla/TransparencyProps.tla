-------------------------- MODULE TransparencyProps --------------------------
(***************************************************************************)
(* What is checked of Transparency.                                        *)
(***************************************************************************)
EXTENDS Transparency

Entry == [body : Bodies \cup {Genesis}, prev : Seq(Bodies \cup {Genesis}),
          hash : Seq(Bodies \cup {Genesis})]

HeadRec == [seq : Nat, hash : Seq(Bodies \cup {Genesis})]

\* The variables have their types; every entry of the log and of the backup has an age.
TypeOK ==
  /\ log \in Seq(Entry) /\ log # << >>
  /\ age \in Seq(0 .. Interval) /\ Len(age) = Len(log)
  /\ checkpoints \subseteq HeadRec
  /\ backup \in [log : Seq(Entry), age : Seq(0 .. Interval), checkpoints : SUBSET HeadRec]
  /\ Len(backup.age) = Len(backup.log)
  /\ up \in {"up", "stopped", "crashed"}
  /\ exits \in Nat
  /\ serving \subseteq Handlers
  /\ main \in [loop : BOOLEAN, head : HeadRec,
               pc : {"serving", "shutdown", "insert", "close"}]
  /\ ckpt \in [pc : {"wait", "last", "head", "insert", "ended"}, waited : 0 .. Interval,
               head : HeadRec]
  /\ mirror \in [pc : {"pages", "head"}, page : PageSizes,
                 copy : Seq(Entry)]

-----------------------------------------------------------------------------
\* A stored checkpoint is the seq and the hash of one and the same entry of the
\* chain as it now is, although handlers append between reading the head and
\* storing the checkpoint, two threads may be storing one, and the process may die
\* or the database be set back.
CheckpointsOnChain ==
  \A c \in checkpoints : c.seq \in DOMAIN log /\ log[c.seq].hash = c.hash

\* A mirror that finds its copy verified and its head the served one has the log,
\* whole and as it is, whatever was appended, restarted or restored between pages.
MirrorIsExact ==
  [][MirrorHead /\ Verdict(mirror.copy) => mirror.copy = log]_vars

\* A mirror whose page the server grants asks for the head only when its last batch
\* reached the end of the log as it then was.  (A page above the server's limit ends
\* at the first batch, which is shorter: there the mirror does not reach the end.)
MirrorReachesEnd ==
  [][/\ MirrorPage
     /\ mirror'.pc = "head"
     /\ mirror.page <= ServerLimit
     => Len(mirror'.copy) >= Len(log)]_vars

\* As long as the process lives and nobody calls stop(), every entry is in time
\* covered by a checkpoint, whatever attempts of the checkpoint thread fail before
\* ("never crash the loop", http_api.py), and however handlers go on appending.
EveryEntrySigned ==
  \A n \in 1 .. MaxLog :
    (up = "up" /\ Len(log) >= n)
      ~> (up # "up" \/ StopCalled \/ Len(log) < n \/ \E c \in checkpoints : c.seq >= n)

\* A stop() that was called does end the process, with handlers in the middle of a
\* request that may never finish it, and with or without its last checkpoint ("best
\* effort on shutdown", http_api.py).  That it also does when a signal calls it,
\* OPERATE.md says: "SIGINT/SIGTERM stop the server, flush and close the database".
StopCompletes == StopCalled ~> up # "up"

-----------------------------------------------------------------------------
\* "A clean shutdown therefore always leaves a signed snapshot of the final head"
\* (openwiki, audit-transparency.md).
FinalHeadSigned ==
  [][up = "up" /\ up' = "stopped" => Signed(AuditHead) \in checkpoints]_vars

=============================================================================
