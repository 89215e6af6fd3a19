------------------------------ MODULE VouchGraph ------------------------------
(***************************************************************************)
(* L3, the queries: what vouching.py serves of the table `vouches`.        *)
(*                                                                         *)
(* The paths come from one read of the table.  The view of one agent's     *)
(* inbound vouches comes from three, in the order of inbound_graph, with   *)
(* grants, revocations and time in between: its list from the first, its   *)
(* annotation from the other two.                                          *)
(***************************************************************************)
EXTENDS Vouching, Sequences

VARIABLES read  \* the one request for inbound_graph that is being served

graphVars == <<vouches, live, clock, req, read>>

NoRead == [pc |-> "idle", about |-> None, listed |-> {}, inbound |-> {},
           mutual |-> {}, since |-> 0]

GraphInit == Init /\ read = NoRead

-----------------------------------------------------------------------------
(* What the store reads.  The order of the rows (by date) is left out.     *)

Edge(v) == <<vouches[v].voucher, vouches[v].vouchee>>

\* Faulty variant: voucher and vouchee are mixed up.
InboundVouchesSwapped(fp, now) == {v \in Stored : vouches[v].voucher = fp /\ Active(v, now)}

\* inbound_vouches(active_only=True)
InboundVouches(fp, now) == {v \in Stored : vouches[v].vouchee = fp /\ Active(v, now)}

\* outgoing_vouches: all of them, revoked or expired
OutgoingVouches(fp) == {v \in Stored : vouches[v].voucher = fp}

ActiveVouchEdges(now) == {v \in Stored : Active(v, now)}

\* Faulty variant: only what it vouched for before it was vouched for.
ReciprocatedEarlier(fp, inbound) ==
  {v \in inbound : \E w \in OutgoingVouches(fp) :
                     /\ vouches[w].revoked = 0
                     /\ vouches[w].vouchee = vouches[v].voucher
                     /\ vouches[w].created <= vouches[v].created}

\* annotations: the active inbound vouches (inbound) by an agent that this one vouches
\* for.  What it vouches for need not be active, but not be revoked.
Reciprocated(fp, inbound) ==
  LET targets == {vouches[w].vouchee : w \in {x \in OutgoingVouches(fp) : vouches[x].revoked = 0}}
  IN  {v \in inbound : vouches[v].voucher \in targets}

-----------------------------------------------------------------------------
(* trust_paths: breadth first, from the source, a level at a time.  An     *)
(* item of the queue has the node it reached, the path and the nodes seen. *)

Clamped(depth) == IF depth < 1 THEN 1 ELSE IF depth > 2 THEN 2 ELSE depth

\* The items that one more edge makes of those in the queue.
Lengthened(queue, edges) ==
  LET By(item) == {e \in edges : vouches[e].voucher = item.node}
  IN  UNION {{[node |-> vouches[e].vouchee, path |-> Append(item.path, e), from |-> item.seen] :
                e \in By(item)} : item \in queue}

\* Faulty variant: a node seen before is dropped, be it the target.
ArrivedUnseen(items, target) ==
  {item.path : item \in {i \in items : i.node = target /\ i.node \notin i.from}}

\* What has reached the target is a path.
Arrived(items, target) == {item.path : item \in {i \in items : i.node = target}}

\* The rest goes back into the queue, unless the path has been there.
Requeued(items, target) ==
  {[node |-> i.node, path |-> i.path, seen |-> i.from \cup {i.node}] :
     i \in {j \in items : j.node # target /\ j.node \notin j.from}}

TrustPaths(source, target, depth, now) ==
  LET edges == ActiveVouchEdges(now)
      first == Lengthened({[node |-> source, path |-> <<>>, seen |-> {source}]}, edges)
      second == Lengthened(Requeued(first, target), edges)
  IN  Arrived(first, target)
        \cup (IF Clamped(depth) = 2 THEN Arrived(second, target) ELSE {})

-----------------------------------------------------------------------------
(* inbound_graph, a section at a time.                                     *)

GraphClock == read.since .. clock

\* inbound_signal: the list that is served
ReadSignal(fp) ==
  /\ read.pc = "idle"
  /\ read' = [NoRead EXCEPT !.pc = "inbound", !.about = fp, !.since = clock,
                            !.listed = InboundVouches(fp, clock)]
  /\ UNCHANGED vars

\* annotations: the inbound vouches again
ReadInbound ==
  /\ read.pc = "inbound"
  /\ \E now \in GraphClock :
       read' = [read EXCEPT !.pc = "outgoing", !.since = clock,
                            !.inbound = InboundVouches(read.about, now)]
  /\ UNCHANGED vars

\* annotations: the outgoing ones; the share of `mutual` in `inbound` is served
ReadOutgoing ==
  /\ read.pc = "outgoing"
  /\ read' = [read EXCEPT !.pc = "answered",
                          !.mutual = Reciprocated(read.about, read.inbound)]
  /\ UNCHANGED vars

Answer == read.pc = "answered" /\ read' = NoRead /\ UNCHANGED vars

GraphNext ==
  \/ Running /\ UNCHANGED read
  \/ Restart /\ read' = NoRead
  \/ \E fp \in Agents : ReadSignal(fp)
  \/ ReadInbound
  \/ ReadOutgoing
  \/ Answer

GraphSpec == GraphInit /\ [][GraphNext]_graphVars

=============================================================================
