--------------------------- MODULE VouchGraph_proofs ---------------------------
(***************************************************************************)
(* Proofs about VouchGraph: the breadth-first search of vouching.py, for   *)
(* any table of statements, whatever its size and its cycles, and the view *)
(* of an agent's inbound vouches, put together from three reads.           *)
(***************************************************************************)
EXTENDS VouchGraphProps, Vouching_proofs, SequenceTheorems

\* The edges that leave a node, and the queue that the search starts with.
Leaving(node, now) == {e \in ActiveVouchEdges(now) : vouches[e].voucher = node}

Start(source) == {[node |-> source, path |-> <<>>, seen |-> {source}]}

First(source, now) == Lengthened(Start(source), ActiveVouchEdges(now))

Second(source, target, now) ==
  Lengthened(Requeued(First(source, now), target), ActiveVouchEdges(now))

-----------------------------------------------------------------------------
(* The operators of the search, a member at a time.                        *)

LEMMA LengthenedHas ==
  ASSUME NEW queue, NEW edges, NEW x
  PROVE  x \in Lengthened(queue, edges) <=>
           \E i \in queue, e \in edges :
             /\ vouches[e].voucher = i.node
             /\ x = [node |-> vouches[e].vouchee, path |-> Append(i.path, e), from |-> i.seen]
  BY DEF Lengthened

LEMMA ArrivedHas ==
  ASSUME NEW items, NEW target, NEW p
  PROVE  p \in Arrived(items, target) <=> \E i \in items : i.node = target /\ p = i.path
  BY DEF Arrived

LEMMA RequeuedHas ==
  ASSUME NEW items, NEW target, NEW x
  PROVE  x \in Requeued(items, target) <=>
           \E i \in items : /\ i.node # target
                            /\ i.node \notin i.from
                            /\ x = [node |-> i.node, path |-> i.path,
                                    seen |-> i.from \cup {i.node}]
  BY DEF Requeued

-----------------------------------------------------------------------------
(* The two levels.                                                         *)

LEMMA FirstHas ==
  ASSUME NEW source, NEW now, NEW x
  PROVE  x \in First(source, now) <=>
           \E e \in Leaving(source, now) :
             x = [node |-> vouches[e].vouchee, path |-> <<e>>, from |-> {source}]
<1> DEFINE start == [node |-> source, path |-> <<>>, seen |-> {source}]
<1>1. \A e : Append(<<>>, e) = <<e>>
  OBVIOUS
<1>2. start.node = source /\ start.path = <<>> /\ start.seen = {source}
  OBVIOUS
<1>3. \A i : i \in Start(source) <=> i = start
  BY DEF Start
<1> HIDE DEF start
<1>4. x \in First(source, now) <=>
        \E e \in ActiveVouchEdges(now) :
          /\ vouches[e].voucher = start.node
          /\ x = [node |-> vouches[e].vouchee, path |-> Append(start.path, e),
                  from |-> start.seen]
  BY <1>3, LengthenedHas DEF First
<1>5. QED
  BY <1>1, <1>2, <1>4 DEF Leaving

\* What reaches the target at the first level.
LEMMA FirstArrived ==
  ASSUME NEW source, NEW target, NEW now, NEW p
  PROVE  p \in Arrived(First(source, now), target) <=>
           \E e \in Leaving(source, now) : vouches[e].vouchee = target /\ p = <<e>>
<1> DEFINE item(e) == [node |-> vouches[e].vouchee, path |-> <<e>>, from |-> {source}]
<1>1. \A e : item(e).node = vouches[e].vouchee /\ item(e).path = <<e>>
  OBVIOUS
<1>2. \A x : x \in First(source, now) <=> \E e \in Leaving(source, now) : x = item(e)
  BY FirstHas
<1>3. p \in Arrived(First(source, now), target) <=>
        \E i \in First(source, now) : i.node = target /\ p = i.path
  BY ArrivedHas
<1> HIDE DEF item
<1>4. ASSUME NEW e \in Leaving(source, now), vouches[e].vouchee = target, p = <<e>>
      PROVE  p \in Arrived(First(source, now), target)
  <2>1. item(e) \in First(source, now)
    BY <1>2
  <2>2. QED
    BY <1>1, <1>3, <1>4, <2>1
<1>5. ASSUME NEW i \in First(source, now), i.node = target, p = i.path
      PROVE  \E e \in Leaving(source, now) : vouches[e].vouchee = target /\ p = <<e>>
  <2>1. PICK e \in Leaving(source, now) : i = item(e)
    BY <1>2
  <2>2. QED
    BY <1>1, <1>5, <2>1
<1>6. QED
  BY <1>3, <1>4, <1>5

\* What goes on to the second level.
LEMMA FirstRequeued ==
  ASSUME NEW source, NEW target, NEW now, NEW x
  PROVE  x \in Requeued(First(source, now), target) <=>
           \E e \in Leaving(source, now) :
             /\ vouches[e].vouchee \notin {source, target}
             /\ x = [node |-> vouches[e].vouchee, path |-> <<e>>,
                     seen |-> {source} \cup {vouches[e].vouchee}]
<1> DEFINE item(e) == [node |-> vouches[e].vouchee, path |-> <<e>>, from |-> {source}]
<1>1. \A e : item(e).node = vouches[e].vouchee /\ item(e).path = <<e>> /\ item(e).from = {source}
  OBVIOUS
<1>2. \A n : n \notin {source, target} <=> n # target /\ n \notin {source}
  OBVIOUS
<1>3. \A i : i \in First(source, now) <=> \E e \in Leaving(source, now) : i = item(e)
  BY FirstHas
<1>4. x \in Requeued(First(source, now), target) <=>
        \E i \in First(source, now) : /\ i.node # target
                                      /\ i.node \notin i.from
                                      /\ x = [node |-> i.node, path |-> i.path,
                                              seen |-> i.from \cup {i.node}]
  BY RequeuedHas
<1> DEFINE queued(e) == [node |-> vouches[e].vouchee, path |-> <<e>>,
                         seen |-> {source} \cup {vouches[e].vouchee}]
<1>5. \A e : [node |-> item(e).node, path |-> item(e).path, seen |-> item(e).from \cup {item(e).node}]
             = queued(e)
  BY <1>1, Zenon
<1> HIDE DEF item
<1>6. ASSUME NEW e \in Leaving(source, now),
             vouches[e].vouchee \notin {source, target}, x = queued(e)
      PROVE  x \in Requeued(First(source, now), target)
  <2>1. item(e) \in First(source, now)
    BY <1>3
  <2>2. item(e).node # target /\ item(e).node \notin item(e).from
    BY <1>1, <1>2, <1>6
  <2> HIDE DEF queued
  <2>3. QED
    BY <1>4, <1>5, <1>6, <2>1, <2>2, Zenon
<1>7. ASSUME NEW i \in First(source, now), i.node # target, i.node \notin i.from,
             x = [node |-> i.node, path |-> i.path, seen |-> i.from \cup {i.node}]
      PROVE  \E e \in Leaving(source, now) :
               vouches[e].vouchee \notin {source, target} /\ x = queued(e)
  <2>1. PICK e \in Leaving(source, now) : i = item(e)
    BY <1>3
  <2>2. vouches[e].vouchee \notin {source, target}
    BY <1>1, <1>2, <1>7, <2>1
  <2> HIDE DEF queued
  <2>3. QED
    BY <1>5, <1>7, <2>1, <2>2, Zenon
<1>8. QED
  BY <1>4, <1>6, <1>7

\* What reaches the target at the second level.
LEMMA SecondArrived ==
  ASSUME NEW source, NEW target, NEW now, NEW p
  PROVE  p \in Arrived(Second(source, target, now), target) <=>
           \E e \in Leaving(source, now) :
             /\ vouches[e].vouchee \notin {source, target}
             /\ \E f \in Leaving(vouches[e].vouchee, now) :
                  vouches[f].vouchee = target /\ p = <<e, f>>
<1> DEFINE queued(e) == [node |-> vouches[e].vouchee, path |-> <<e>>,
                         seen |-> {source} \cup {vouches[e].vouchee}]
           item(i, f) == [node |-> vouches[f].vouchee, path |-> Append(i.path, f),
                          from |-> i.seen]
<1>1. \A e, f : Append(<<e>>, f) = <<e, f>>
  <2> SUFFICES ASSUME NEW e, NEW f PROVE Append(<<e>>, f) = <<e, f>>
    OBVIOUS
  <2>1. <<e>> \in Seq({e, f}) /\ <<e, f>> \in Seq({e, f})
    OBVIOUS
  <2>2. Append(<<e>>, f) \in Seq({e, f}) /\ Len(Append(<<e>>, f)) = 2
    BY <2>1
  <2>3. Append(<<e>>, f)[1] = e /\ Append(<<e>>, f)[2] = f
    BY <2>1
  <2>4. Len(<<e, f>>) = 2 /\ <<e, f>>[1] = e /\ <<e, f>>[2] = f
    OBVIOUS
  <2>5. \A i \in 1 .. 2 : i = 1 \/ i = 2
    OBVIOUS
  <2> DEFINE long == Append(<<e>>, f)
             both == <<e, f>>
  <2>6. long \in Seq({e, f}) /\ both \in Seq({e, f}) /\ Len(long) = Len(both)
    BY <2>1, <2>2, <2>4
  <2>7. \A i \in 1 .. Len(long) : long[i] = both[i]
    BY <2>2, <2>3, <2>4, <2>5
  <2> HIDE DEF long, both
  <2>8. long = both
    BY <2>6, <2>7, SeqEqual
  <2>9. QED
    BY <2>8 DEF long, both
<1>2. \A e : queued(e).node = vouches[e].vouchee /\ queued(e).path = <<e>>
  OBVIOUS
<1>3. \A i, f : item(i, f).node = vouches[f].vouchee /\ item(i, f).path = Append(i.path, f)
  OBVIOUS
<1>4. \A i : i \in Requeued(First(source, now), target) <=>
               \E e \in Leaving(source, now) :
                 vouches[e].vouchee \notin {source, target} /\ i = queued(e)
  BY FirstRequeued
<1>5. \A x : x \in Second(source, target, now) <=>
               \E i \in Requeued(First(source, now), target), f \in ActiveVouchEdges(now) :
                 vouches[f].voucher = i.node /\ x = item(i, f)
  BY LengthenedHas DEF Second
<1> HIDE DEF queued, item
<1>6. p \in Arrived(Second(source, target, now), target) <=>
        \E i \in Requeued(First(source, now), target), f \in ActiveVouchEdges(now) :
          /\ vouches[f].voucher = i.node
          /\ vouches[f].vouchee = target
          /\ p = Append(i.path, f)
  <2>1. p \in Arrived(Second(source, target, now), target) <=>
          \E x \in Second(source, target, now) : x.node = target /\ p = x.path
    BY ArrivedHas
  <2>2. ASSUME NEW x \in Second(source, target, now), x.node = target, p = x.path
        PROVE  \E i \in Requeued(First(source, now), target), f \in ActiveVouchEdges(now) :
                 /\ vouches[f].voucher = i.node
                 /\ vouches[f].vouchee = target
                 /\ p = Append(i.path, f)
    <3>1. PICK i \in Requeued(First(source, now), target), f \in ActiveVouchEdges(now) :
            vouches[f].voucher = i.node /\ x = item(i, f)
      BY <1>5, <2>2
    <3> QED
      BY <1>3, <2>2, <3>1
  <2>3. ASSUME NEW i \in Requeued(First(source, now), target), NEW f \in ActiveVouchEdges(now),
               vouches[f].voucher = i.node, vouches[f].vouchee = target, p = Append(i.path, f)
        PROVE  \E x \in Second(source, target, now) : x.node = target /\ p = x.path
    <3>1. item(i, f) \in Second(source, target, now)
      BY <1>5, <2>3
    <3>2. item(i, f).node = target /\ p = item(i, f).path
      BY <1>3, <2>3
    <3> QED
      BY <3>1, <3>2
  <2> QED
    BY <2>1, <2>2, <2>3
<1>7. p \in Arrived(Second(source, target, now), target) <=>
        \E e \in Leaving(source, now), f \in ActiveVouchEdges(now) :
          /\ vouches[e].vouchee \notin {source, target}
          /\ vouches[f].voucher = queued(e).node
          /\ vouches[f].vouchee = target
          /\ p = Append(queued(e).path, f)
  BY <1>4, <1>6, Zenon
<1>8. \A e, f : Append(queued(e).path, f) = <<e, f>> /\ queued(e).node = vouches[e].vouchee
  BY <1>1, <1>2
<1>9. \A e, f : f \in Leaving(vouches[e].vouchee, now) <=>
                  f \in ActiveVouchEdges(now) /\ vouches[f].voucher = vouches[e].vouchee
  BY DEF Leaving
<1>10. p \in Arrived(Second(source, target, now), target) <=>
         \E e \in Leaving(source, now), f \in ActiveVouchEdges(now) :
           /\ vouches[e].vouchee \notin {source, target}
           /\ vouches[f].voucher = vouches[e].vouchee
           /\ vouches[f].vouchee = target
           /\ p = <<e, f>>
  BY <1>7, <1>8
<1>11. QED
  BY <1>9, <1>10, Zenon

-----------------------------------------------------------------------------
(* The paths.                                                              *)

\* The search finds the paths of at most two statements, longer ones beside shorter
\* ones included.
LEMMA PathsAreReference ==
  ASSUME NEW source, NEW target, NEW depth \in Nat
  PROVE  TrustPaths(source, target, depth, clock) = Reference(source, target, depth)
<1> DEFINE short(p) == \E e \in Leaving(source, clock) : vouches[e].vouchee = target /\ p = <<e>>
           long(p) == \E e \in Leaving(source, clock) :
                        /\ vouches[e].vouchee \notin {source, target}
                        /\ \E f \in Leaving(vouches[e].vouchee, clock) :
                             vouches[f].vouchee = target /\ p = <<e, f>>
<1>1. Clamped(depth) = 2 <=> depth >= 2
  BY DEF Clamped
<1>2. \A p : p \in TrustPaths(source, target, depth, clock) <=>
               short(p) \/ (depth >= 2 /\ long(p))
  <2> SUFFICES ASSUME NEW p
               PROVE  p \in TrustPaths(source, target, depth, clock) <=>
                        short(p) \/ (depth >= 2 /\ long(p))
    OBVIOUS
  <2>1. TrustPaths(source, target, depth, clock) =
          Arrived(First(source, clock), target) \cup
            (IF Clamped(depth) = 2 THEN Arrived(Second(source, target, clock), target) ELSE {})
    BY DEF TrustPaths, First, Second, Start
  <2>2. (p \in Arrived(First(source, clock), target)) <=> short(p)
    BY FirstArrived
  <2>3. (p \in Arrived(Second(source, target, clock), target)) <=> long(p)
    BY SecondArrived
  <2> HIDE DEF short, long
  <2>4. QED
    BY <1>1, <2>1, <2>2, <2>3
<1>3. \A p : p \in Reference(source, target, depth) <=>
               short(p) \/ (depth >= 2 /\ long(p))
  <2> DEFINE In(fp) == InboundVouches(fp, clock)
  <2>1. \A e, fp, from : e \in In(fp) /\ vouches[e].voucher = from <=>
                           e \in Leaving(from, clock) /\ vouches[e].vouchee = fp
    BY DEF InboundVouches, Leaving, ActiveVouchEdges
  <2>2. \A e, fp : e \in In(fp) => e \in Stored
    BY DEF InboundVouches
  <2>3. \A p : p \in {<<e>> : e \in {v \in In(target) : vouches[v].voucher = source}}
                 <=> short(p)
    BY <2>1
  <2> DEFINE through(p) == /\ depth >= 2
                           /\ p[2] \in In(target)
                           /\ vouches[p[2]].voucher \notin {source, target}
                           /\ p[1] \in In(vouches[p[2]].voucher)
                           /\ vouches[p[1]].voucher = source
  <2>4. \A p : p \in {q \in Stored \X Stored : through(q)} <=> depth >= 2 /\ long(p)
    <3>1. ASSUME NEW p \in Stored \X Stored, through(p)
          PROVE  depth >= 2 /\ long(p)
      <4>1. p = <<p[1], p[2]>>
        OBVIOUS
      <4>2. /\ p[2] \in Leaving(vouches[p[2]].voucher, clock)
            /\ vouches[p[2]].vouchee = target
        BY <2>1, <3>1
      <4>3. /\ p[1] \in Leaving(source, clock)
            /\ vouches[p[1]].vouchee = vouches[p[2]].voucher
        BY <2>1, <3>1
      <4>4. /\ p[2] \in Leaving(vouches[p[1]].vouchee, clock)
            /\ vouches[p[1]].vouchee \notin {source, target}
        BY <3>1, <4>2, <4>3
      <4> HIDE DEF through
      <4>5. long(p)
        BY <4>1, <4>2, <4>3, <4>4
      <4>6. QED
        BY <3>1, <4>5 DEF through
    <3>2. ASSUME NEW p, depth >= 2, long(p)
          PROVE  p \in Stored \X Stored /\ through(p)
      <4>1. PICK e \in Leaving(source, clock) :
              /\ vouches[e].vouchee \notin {source, target}
              /\ \E f \in Leaving(vouches[e].vouchee, clock) :
                   vouches[f].vouchee = target /\ p = <<e, f>>
        BY <3>2
      <4>2. PICK f \in Leaving(vouches[e].vouchee, clock) :
              vouches[f].vouchee = target /\ p = <<e, f>>
        BY <4>1
      <4>3. f \in In(target) /\ vouches[f].voucher = vouches[e].vouchee
        BY <2>1, <4>2 DEF Leaving
      <4>4. e \in In(vouches[f].voucher) /\ vouches[e].voucher = source
        BY <2>1, <4>1, <4>3 DEF Leaving
      <4>5. p[1] = e /\ p[2] = f
        BY <4>2
      <4>6. QED
        BY <2>2, <3>2, <4>1, <4>2, <4>3, <4>4, <4>5
    <3>3. QED
      BY <3>1, <3>2
  <2>5. Reference(source, target, depth) =
          {<<e>> : e \in {v \in In(target) : vouches[v].voucher = source}}
            \cup {q \in Stored \X Stored : through(q)}
    BY DEF Reference
  <2> HIDE DEF short, long, through
  <2>6. QED
    BY <2>3, <2>4, <2>5
<1> HIDE DEF short, long
<1>4. QED
  BY <1>2, <1>3

\* VouchService.trust_paths: in every state, between any two agents and to any depth
\* a client asks for, the search finds every shortest path of the inbound lists, and
\* serves none that is not a path of them.
THEOREM NoShortestPathIsMissing == GraphSpec => []ShortestPathsServed
<1>1. \A source, target \in Agents, depth \in 0 .. 3 :
        TrustPaths(source, target, depth, clock) = Reference(source, target, depth)
  BY PathsAreReference
<1>2. ShortestPathsServed
  BY <1>1, Zenon DEF ShortestPathsServed
<1>3. QED
  BY <1>2, PTL

-----------------------------------------------------------------------------
(* The request for inbound_graph, beside the grants and revocations.       *)

ReadRec == [pc : {"idle", "inbound", "outgoing", "answered"}, about : Agents \cup {None},
            listed : SUBSET VouchIds, inbound : SUBSET VouchIds, mutual : SUBSET VouchIds,
            since : Nat]

\* What of the list that is served was still active when the second section read
\* the table again, is in what that section read.
ListedStillInbound ==
  /\ read.pc = "inbound" => read.inbound = {} /\ read.mutual = {}
  /\ read.pc = "outgoing" => \A v \in read.listed : Active(v, clock) => v \in read.inbound

\* The invariant: that of the table, and what the request remembers of it.
GraphInv ==
  /\ TypeOK
  /\ IdsFresh
  /\ read \in ReadRec
  /\ GraphTypeOK
  /\ ListedStillInbound

\* For the table, a query is nothing.
LEMMA GraphStep == [GraphNext]_graphVars => [Next]_vars
  BY DEF GraphNext, graphVars, vars, Next, ReadSignal, ReadInbound, ReadOutgoing, Answer

\* The clock never goes back; what is on record stays so, says the same, and is never
\* taken back from its revocation.
LEMMA TableStep ==
  ASSUME TypeOK, IdsFresh, [Next]_vars
  PROVE  /\ clock \in Nat /\ clock' \in Nat /\ clock <= clock'
         /\ \A v \in Stored :
              /\ v \in Stored'
              /\ vouches'[v].vouchee = vouches[v].vouchee
              /\ vouches'[v].expires = vouches[v].expires
              /\ vouches'[v].revoked = 0 => vouches[v].revoked = 0
<1>1. clock \in Nat /\ clock' \in Nat
  BY TypeStep DEF TypeOK
<1>2. clock' = clock \/ clock' = clock + 1
  BY StepCases, Zenon DEF CreateRead, CreateVouchee, CreateStore, Revoke
<1>3. ASSUME NEW v \in Stored
      PROVE  /\ v \in Stored'
             /\ vouches'[v].vouchee = vouches[v].vouchee
             /\ vouches'[v].expires = vouches[v].expires
             /\ vouches'[v].revoked = 0 => vouches[v].revoked = 0
  <2>1. v \in VouchIds /\ vouches[v] \in VouchRow /\ vouches[v].voucher # None
    BY DEF Stored, TypeOK
  <2>2. CASE vouches'[v] = vouches[v]
    BY <2>1, <2>2 DEF Stored
  <2>3. CASE /\ vouches[v].revoked = 0
             /\ vouches'[v] = [vouches[v] EXCEPT !.revoked = vouches'[v].revoked]
    <3>1. vouches'[v] = [voucher |-> vouches[v].voucher, vouchee |-> vouches[v].vouchee,
                         scope |-> vouches[v].scope, created |-> vouches[v].created,
                         expires |-> vouches[v].expires, revoked |-> vouches'[v].revoked]
      BY <2>1, <2>3, Redated
    <3>2. QED
      BY <2>1, <2>3, <3>1 DEF Stored
  <2>4. QED
    BY <2>2, <2>3, RecordStep
<1>4. QED
  BY <1>1, <1>2, <1>3

LEMMA GraphInvInit == GraphInit => GraphInv
<1> SUFFICES ASSUME GraphInit PROVE GraphInv
  OBVIOUS
<1>1. TypeOK /\ IdsFresh /\ read = NoRead
  BY TypeInit, IdsFreshInit DEF GraphInit
<1>2. QED
  BY <1>1 DEF GraphInv, NoRead, ReadRec, GraphTypeOK, ListedStillInbound, TypeOK

\* A query of the inbound vouches at a time before the present.
LEMMA InboundHas ==
  ASSUME TypeOK, NEW fp, NEW now \in Nat, now <= clock
  PROVE  /\ InboundVouches(fp, now) \subseteq VouchIds
         /\ \A v \in InboundVouches(fp, now) : v \in Stored /\ vouches[v].vouchee = fp
         /\ \A v \in Stored : vouches[v].vouchee = fp /\ Active(v, clock)
                                => v \in InboundVouches(fp, now)
  BY DEF InboundVouches, Stored, Active, TypeOK, VouchRow

LEMMA GraphInvStep == GraphInv /\ [GraphNext]_graphVars => GraphInv'
<1> SUFFICES ASSUME GraphInv, [GraphNext]_graphVars
             PROVE  GraphInv'
  OBVIOUS
<1>1. TypeOK /\ IdsFresh /\ [Next]_vars /\ TypeOK' /\ IdsFresh'
  BY GraphStep, TypeStep, IdsFreshStep DEF GraphInv
<1>2. /\ clock \in Nat /\ clock' \in Nat /\ clock <= clock'
      /\ \A v \in Stored :
           /\ v \in Stored'
           /\ vouches'[v].vouchee = vouches[v].vouchee
           /\ vouches'[v].expires = vouches[v].expires
           /\ vouches'[v].revoked = 0 => vouches[v].revoked = 0
           /\ vouches[v].expires \in Nat
  BY <1>1, TableStep DEF TypeOK, VouchRow, Stored
<1>3. read \in ReadRec /\ GraphTypeOK /\ ListedStillInbound
  BY DEF GraphInv
<1>4. CASE UNCHANGED read
  <2>1. \A v \in read.listed \cup read.inbound : v \in Stored' /\ vouches'[v].vouchee = read.about
    BY <1>2, <1>3 DEF GraphTypeOK
  <2>2. read.since <= clock'
    BY <1>2, <1>3 DEF GraphTypeOK, ReadRec
  <2>3. GraphTypeOK'
    BY <1>3, <1>4, <2>1, <2>2 DEF GraphTypeOK
  <2>4. \A v \in read.listed : Active(v, clock)' => Active(v, clock)
    BY <1>2, <1>3 DEF GraphTypeOK, Active
  <2>5. ListedStillInbound'
    BY <1>3, <1>4, <2>4 DEF ListedStillInbound
  <2>6. QED
    BY <1>1, <1>3, <1>4, <2>3, <2>5 DEF GraphInv
<1>5. CASE read' = NoRead
  BY <1>1, <1>2, <1>5 DEF GraphInv, NoRead, ReadRec, GraphTypeOK, ListedStillInbound
<1>6. ASSUME NEW fp \in Agents, ReadSignal(fp)
      PROVE  GraphInv'
  <2>1. read' = [pc |-> "inbound", about |-> fp, listed |-> InboundVouches(fp, clock),
                 inbound |-> {}, mutual |-> {}, since |-> clock]
    BY <1>6, Zenon DEF ReadSignal, NoRead
  <2>2. UNCHANGED <<vouches, clock>>
    BY <1>6 DEF ReadSignal, vars
  <2>3. QED
    BY <1>1, <1>2, <2>1, <2>2, InboundHas
       DEF GraphInv, ReadRec, GraphTypeOK, ListedStillInbound, Stored
<1>7. CASE ReadInbound
  <2>1. PICK now \in GraphClock :
          read' = [read EXCEPT !.pc = "outgoing", !.since = clock,
                               !.inbound = InboundVouches(read.about, now)]
    BY <1>7 DEF ReadInbound
  <2>2. now \in Nat /\ now <= clock
    BY <1>2, <1>3 DEF GraphClock, ReadRec
  <2>3. read' = [pc |-> "outgoing", about |-> read.about, listed |-> read.listed,
                 inbound |-> InboundVouches(read.about, now), mutual |-> read.mutual,
                 since |-> clock]
    BY <1>3, <2>1, Zenon DEF ReadRec
  <2>4. UNCHANGED <<vouches, clock>> /\ read.pc = "inbound"
    BY <1>7 DEF ReadInbound, vars
  <2>5. QED
    BY <1>1, <1>2, <1>3, <2>2, <2>3, <2>4, InboundHas
       DEF GraphInv, ReadRec, GraphTypeOK, ListedStillInbound, Stored, Active
<1>8. CASE ReadOutgoing
  <2>1. read' = [pc |-> "answered", about |-> read.about, listed |-> read.listed,
                 inbound |-> read.inbound, since |-> read.since,
                 mutual |-> Reciprocated(read.about, read.inbound)]
    BY <1>3, <1>8, Zenon DEF ReadOutgoing, ReadRec
  <2>2. Reciprocated(read.about, read.inbound) \subseteq read.inbound
    BY DEF Reciprocated
  <2>3. UNCHANGED <<vouches, clock>> /\ read.pc = "outgoing"
    BY <1>8 DEF ReadOutgoing, vars
  <2>4. QED
    BY <1>1, <1>2, <1>3, <2>1, <2>2, <2>3
       DEF GraphInv, ReadRec, GraphTypeOK, ListedStillInbound, Stored
<1>9. QED
  BY <1>4, <1>5, <1>6, <1>7, <1>8 DEF GraphNext, graphVars, Answer

LEMMA GraphInvHolds == GraphSpec => []GraphInv
  BY GraphInvInit, GraphInvStep, PTL DEF GraphSpec

\* VouchService.inbound_graph: what a request has read stays on record and about its
\* agent while grants, revocations and time go on between its sections.
THEOREM GraphTypeCorrect == GraphSpec => []GraphTypeOK
<1>1. GraphInv => GraphTypeOK
  BY DEF GraphInv
<1>2. QED
  BY <1>1, GraphInvHolds, PTL

\* VouchService.inbound_graph and annotations: a ring that stands from the first
\* section to the last is in the count that is served, whatever is written meanwhile.
THEOREM RingsAreCounted == GraphSpec => StandingRingsCounted
<1>1. ASSUME GraphInv, NEW v \in read.listed, ReadOutgoing, Active(v, clock),
             NEW w \in Stored, Active(w, clock), Edge(w) = <<Edge(v)[2], Edge(v)[1]>>
      PROVE  v \in read'.mutual
  <2>1. read \in ReadRec /\ read.pc = "outgoing"
    BY <1>1 DEF GraphInv, ReadOutgoing
  <2>2. v \in read.inbound /\ vouches[v].vouchee = read.about
    BY <1>1, <2>1 DEF GraphInv, ListedStillInbound, GraphTypeOK
  <2>3. vouches[w].voucher = read.about /\ vouches[w].vouchee = vouches[v].voucher
    BY <1>1, <2>2 DEF Edge
  <2>4. w \in OutgoingVouches(read.about) /\ vouches[w].revoked = 0
    BY <1>1, <2>3 DEF OutgoingVouches, Active
  <2>5. v \in Reciprocated(read.about, read.inbound)
    BY <2>2, <2>3, <2>4 DEF Reciprocated
  <2>6. read'.mutual = Reciprocated(read.about, read.inbound)
    BY <1>1, <2>1 DEF ReadOutgoing, ReadRec
  <2>7. QED
    BY <2>5, <2>6
<1>2. GraphInv => [\A v \in read.listed :
                     /\ ReadOutgoing
                     /\ Active(v, clock)
                     /\ \E w \in Stored : Active(w, clock) /\ Edge(w) = <<Edge(v)[2], Edge(v)[1]>>
                     => v \in read'.mutual]_graphVars
  BY <1>1
<1>3. QED
  BY <1>2, GraphInvHolds, PTL DEF StandingRingsCounted

=============================================================================
