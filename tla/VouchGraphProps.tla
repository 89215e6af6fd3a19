---------------------------- MODULE VouchGraphProps ----------------------------
(***************************************************************************)
(* What is checked of VouchGraph.                                          *)
(***************************************************************************)
EXTENDS VouchGraph

\* The request has its type: what it counts is in what it read, and that, in the table.
GraphTypeOK ==
  /\ read.pc \in {"idle", "inbound", "outgoing", "answered"}
  /\ read.pc # "idle" => read.about \in Agents
  /\ \A v \in read.listed \cup read.inbound : v \in Stored /\ vouches[v].vouchee = read.about
  /\ read.mutual \subseteq read.inbound
  /\ read.since <= clock

-----------------------------------------------------------------------------
\* The paths of at most two statements from a source to a target, put together from
\* the inbound lists that the directory serves of the target and of who vouches for it.
Reference(source, target, depth) ==
  LET In(fp) == InboundVouches(fp, clock)
      From(fp, v) == vouches[v].voucher = fp
      Via(f) == vouches[f].voucher
  IN  {<<e>> : e \in {v \in In(target) : From(source, v)}}
        \cup {p \in Stored \X Stored :
                /\ depth >= 2
                /\ p[2] \in In(target)
                /\ Via(p[2]) \notin {source, target}
                /\ p[1] \in In(Via(p[2]))
                /\ From(source, p[1])}

\* "shortest vouch paths (only active, unexpired, unrevoked edges)" (SPEC.md): whatever
\* depth is asked for, no shortest path that a consumer finds in the inbound lists is
\* missing from the answer, that of an agent to itself included, and what is served
\* is a path of those lists.  (The answer may hold longer ones as well.)
ShortestPathsServed ==
  \A source, target \in Agents, depth \in 0 .. 3 :
    LET paths == Reference(source, target, depth)
        served == TrustPaths(source, target, depth, clock)
    IN  /\ served \subseteq paths
        /\ \A p \in paths : (\A q \in paths : Len(p) <= Len(q)) => p \in served

\* Two agents who vouch for each other from the first section of an answer to its last
\* are counted, though the answer is put together from three.
StandingRingsCounted ==
  [][\A v \in read.listed :
       /\ ReadOutgoing
       /\ Active(v, clock)
       /\ \E w \in Stored : Active(w, clock) /\ Edge(w) = <<Edge(v)[2], Edge(v)[1]>>
       => v \in read'.mutual]_graphVars

=============================================================================
