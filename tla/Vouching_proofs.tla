---------------------------- MODULE Vouching_proofs ----------------------------
(***************************************************************************)
(* Proofs about Vouching, for any number of agents, statements and         *)
(* threads, any cap and any span.                                          *)
(***************************************************************************)
EXTENDS VouchingProps, FiniteSetTheorems, TLAPS

LEMMA NoVouchType == NoVouch \in VouchRow
  BY DEF NoVouch, VouchRow

LEMMA IdleType == Idle \in RequestRec
  BY NoVouchType DEF Idle, RequestRec

\* A row with another date, and with another revocation.
LEMMA Redated ==
  ASSUME NEW row \in VouchRow, NEW time
  PROVE  /\ [row EXCEPT !.created = time] =
              [voucher |-> row.voucher, vouchee |-> row.vouchee, scope |-> row.scope,
               created |-> time, expires |-> row.expires, revoked |-> row.revoked]
         /\ [row EXCEPT !.revoked = time] =
              [voucher |-> row.voucher, vouchee |-> row.vouchee, scope |-> row.scope,
               created |-> row.created, expires |-> row.expires, revoked |-> time]
  BY DEF VouchRow

\* What can happen in a step, one case for each action.
LEMMA StepCases ==
  ASSUME [Next]_vars
  PROVE  \/ \E t \in Threads, v \in VouchIds, voucher \in Agents, vouchee \in Agents,
               scope \in Scopes, expires \in Nat :
              CreateRead(t, v, voucher, vouchee, scope, expires)
         \/ \E t \in Threads : CreateVouchee(t)
         \/ \E t \in Threads : CreateStore(t)
         \/ \E v \in VouchIds, by \in Agents : Revoke(v, by)
         \/ UNCHANGED vouches /\ live' \subseteq live \cup Agents /\ UNCHANGED <<clock, req>>
         \/ UNCHANGED <<vouches, live, clock>> /\ req' = [t \in Threads |-> Idle]
         \/ UNCHANGED <<vouches, live, req>> /\ clock' = clock + 1
<1>1. \A e \in 1 .. MaxClock + MaxSpan : e \in Nat
  BY VouchingConstants DEF VouchingConstants
<1>2. Vouchers \subseteq Agents
  BY VouchingConstants DEF VouchingConstants
<1>3. CASE Running
  BY <1>1, <1>2, <1>3 DEF Running, Listed, Delisted, Tick
<1>4. CASE Restart
  BY <1>4 DEF Restart
<1>5. CASE UNCHANGED vars
  BY <1>5 DEF vars
<1>6. QED
  BY <1>3, <1>4, <1>5 DEF Next

-----------------------------------------------------------------------------
(* Types.                                                                  *)

LEMMA TypeInit == Init => TypeOK
  BY NoVouchType, IdleType DEF Init, TypeOK, Stored, NoVouch, Idle

\* The row that a grant stores, and the table with it.
LEMMA InsertedRow ==
  ASSUME TypeOK, NEW t \in Threads, req[t].pc = "store", NEW now \in Nat
  PROVE  /\ Inserted(req[t].row, now) =
              [voucher |-> req[t].row.voucher, vouchee |-> req[t].row.vouchee,
               scope |-> req[t].row.scope, created |-> now,
               expires |-> req[t].row.expires, revoked |-> req[t].row.revoked]
         /\ Inserted(req[t].row, now) \in VouchRow
         /\ Complete(Inserted(req[t].row, now))
         /\ req[t].vouch \in VouchIds
<1>1. req[t].row \in VouchRow /\ Complete(req[t].row) /\ req[t].vouch \in VouchIds
  BY DEF TypeOK, RequestRec
<1>2. Inserted(req[t].row, now) =
        [voucher |-> req[t].row.voucher, vouchee |-> req[t].row.vouchee,
         scope |-> req[t].row.scope, created |-> now,
         expires |-> req[t].row.expires, revoked |-> req[t].row.revoked]
  BY <1>1, Redated DEF Inserted
<1>3. QED
  BY <1>1, <1>2 DEF VouchRow, Complete

\* No step breaks the types.
LEMMA TypeStep == TypeOK /\ [Next]_vars => TypeOK'
<1> SUFFICES ASSUME TypeOK, [Next]_vars
             PROVE  TypeOK'
  OBVIOUS
<1>1. ASSUME NEW t \in Threads, NEW v \in VouchIds, NEW voucher \in Agents,
             NEW vouchee \in Agents, NEW scope \in Scopes, NEW expires \in Nat,
             CreateRead(t, v, voucher, vouchee, scope, expires)
      PROVE  TypeOK'
  <2> DEFINE row == [voucher |-> voucher, vouchee |-> vouchee, scope |-> scope,
                     created |-> 0, expires |-> expires, revoked |-> 0]
  <2>1. row \in VouchRow /\ Complete(row)
    BY DEF VouchRow, Complete
  <2>2. req' = [req EXCEPT ![t] = [pc |-> "vouchee", vouch |-> v, since |-> clock,
                                   row |-> row]]
    BY <1>1 DEF CreateRead
  <2>3. QED
    BY <1>1, <2>1, <2>2 DEF CreateRead, TypeOK, RequestRec, Stored
<1>2. ASSUME NEW t \in Threads, CreateVouchee(t)
      PROVE  TypeOK'
  <2>1. CASE req' = [req EXCEPT ![t].pc = "store", ![t].since = clock]
    <3>1. req'[t] = [pc |-> "store", vouch |-> req[t].vouch, row |-> req[t].row,
                     since |-> clock]
      BY <2>1, Zenon DEF TypeOK, RequestRec
    <3>2. req[t].pc # "idle"
      BY <1>2 DEF CreateVouchee
    <3>3. /\ req' \in [Threads -> RequestRec]
          /\ \A u \in Threads : u # t => req'[u] = req[u]
      BY <2>1, <3>1 DEF TypeOK, RequestRec
    <3>4. QED
      BY <1>2, <3>1, <3>2, <3>3 DEF CreateVouchee, TypeOK, Stored
  <2>2. CASE Finish(t)
    BY <1>2, <2>2, IdleType DEF CreateVouchee, Finish, TypeOK, Stored, Idle
  <2>3. QED
    BY <1>2, <2>1, <2>2 DEF CreateVouchee
<1>3. ASSUME NEW t \in Threads, CreateStore(t)
      PROVE  TypeOK'
  <2>1. /\ req' \in [Threads -> RequestRec]
        /\ \A u \in Threads : req'[u].pc # "idle" => req'[u] = req[u]
    BY <1>3, IdleType DEF CreateStore, Finish, TypeOK, Idle
  <2>2. CASE UNCHANGED vouches
    BY <1>3, <2>1, <2>2 DEF CreateStore, TypeOK, Stored
  <2>3. ASSUME NEW now \in ReadClock(t),
               vouches' = [vouches EXCEPT ![req[t].vouch] = Inserted(req[t].row, now)]
        PROVE  TypeOK'
    <3>1. now \in Nat
      BY <2>3 DEF ReadClock, TypeOK, RequestRec
    <3>2. /\ Inserted(req[t].row, now) \in VouchRow
          /\ Complete(Inserted(req[t].row, now))
      BY <1>3, <3>1, InsertedRow DEF CreateStore
    <3>3. QED
      BY <1>3, <2>1, <2>3, <3>2 DEF CreateStore, TypeOK, Stored
  <2>4. QED
    BY <1>3, <2>2, <2>3 DEF CreateStore
<1>4. ASSUME NEW v \in VouchIds, NEW by \in Agents, Revoke(v, by)
      PROVE  TypeOK'
  <2>1. PICK now \in vouches[v].created .. clock :
              vouches' = [vouches EXCEPT ![v].revoked = now]
    BY <1>4 DEF Revoke
  <2>2. vouches[v] \in VouchRow /\ now \in Nat
    BY <2>1 DEF TypeOK, VouchRow
  <2>3. vouches'[v] = [voucher |-> vouches[v].voucher, vouchee |-> vouches[v].vouchee,
                       scope |-> vouches[v].scope, created |-> vouches[v].created,
                       expires |-> vouches[v].expires, revoked |-> now]
    BY <2>1, <2>2, Zenon DEF TypeOK, VouchRow
  <2>4. /\ vouches' \in [VouchIds -> VouchRow]
        /\ \A w \in VouchIds : w # v => vouches'[w] = vouches[w]
    BY <2>1, <2>2, <2>3 DEF TypeOK, VouchRow
  <2>5. \A w \in VouchIds : /\ vouches'[w].voucher = vouches[w].voucher
                            /\ vouches'[w].vouchee = vouches[w].vouchee
                            /\ vouches'[w].scope = vouches[w].scope
    BY <2>3, <2>4
  <2>6. \A w \in Stored' : Complete(vouches'[w])
    BY <2>5 DEF TypeOK, Stored, Complete
  <2>7. QED
    BY <1>4, <2>4, <2>6 DEF Revoke, TypeOK
<1>5. QED
  BY <1>1, <1>2, <1>3, <1>4, StepCases, IdleType DEF TypeOK, Stored, Idle

\* The table and the requests have their types (store.py, the table vouches): what is
\* stored, or about to be, has all that a statement needs.
THEOREM TypeCorrect == Spec => []TypeOK
  BY TypeInit, TypeStep, PTL DEF Spec

-----------------------------------------------------------------------------
(* Statements are stored once.                                             *)

\* The id of a grant that is being served is neither in the table nor that of another.
IdsFresh ==
  \A t \in Threads : req[t].pc # "idle" =>
    /\ req[t].vouch \notin Stored
    /\ \A u \in Threads : req[u].pc # "idle" /\ req[u].vouch = req[t].vouch => u = t

\* What a store adds to the table, and all that it does to it.
LEMMA StoreAdds ==
  ASSUME TypeOK, NEW t \in Threads, CreateStore(t)
  PROVE  \/ UNCHANGED vouches
         \/ \E now \in ReadClock(t) :
              /\ now \in Nat /\ now <= clock
              /\ BelowCap(req[t].row.voucher, now)
              /\ ~IsDuplicate(req[t].row, now)
              /\ req[t].vouch \in VouchIds
              /\ vouches' = [vouches EXCEPT ![req[t].vouch] = Inserted(req[t].row, now)]
              /\ Stored' \subseteq Stored \cup {req[t].vouch}
              /\ \A v \in VouchIds : v # req[t].vouch => vouches'[v] = vouches[v]
<1>1. \A now \in ReadClock(t) : now \in Nat /\ now <= clock
  BY DEF ReadClock, TypeOK, RequestRec
<1>2. req[t].vouch \in VouchIds
  BY DEF CreateStore, TypeOK
<1>3. SUFFICES ASSUME NEW now \in ReadClock(t),
                      BelowCap(req[t].row.voucher, now), ~IsDuplicate(req[t].row, now),
                      vouches' = [vouches EXCEPT ![req[t].vouch] = Inserted(req[t].row, now)]
               PROVE  /\ Stored' \subseteq Stored \cup {req[t].vouch}
                      /\ \A v \in VouchIds : v # req[t].vouch => vouches'[v] = vouches[v]
  BY <1>1, <1>2 DEF CreateStore
<1>4. QED
  BY <1>3 DEF TypeOK, Stored

LEMMA IdsFreshInit == Init => IdsFresh
  BY DEF Init, IdsFresh, Idle

LEMMA IdsFreshStep == TypeOK /\ IdsFresh /\ [Next]_vars => IdsFresh'
<1> SUFFICES ASSUME TypeOK, IdsFresh, [Next]_vars
             PROVE  IdsFresh'
  OBVIOUS
<1>1. ASSUME NEW t \in Threads, NEW v \in VouchIds, NEW voucher \in Agents,
             NEW vouchee \in Agents, NEW scope \in Scopes, NEW expires \in Nat,
             CreateRead(t, v, voucher, vouchee, scope, expires)
      PROVE  IdsFresh'
  <2>1. /\ Stored' = Stored
        /\ req'[t].vouch = v
        /\ \A u \in Threads : u # t => req'[u] = req[u]
    BY <1>1 DEF CreateRead, Stored, TypeOK
  <2>2. v \notin Stored /\ \A u \in Threads : req[u].vouch # v
    BY <1>1 DEF CreateRead
  <2>3. QED
    BY <2>1, <2>2 DEF IdsFresh
<1>2. ASSUME NEW t \in Threads, CreateVouchee(t)
      PROVE  IdsFresh'
  <2>1. Stored' = Stored /\ req[t].pc # "idle"
    BY <1>2 DEF CreateVouchee, Stored
  <2>2. \A u \in Threads : req'[u].pc # "idle" => req'[u].vouch = req[u].vouch
    BY <1>2 DEF CreateVouchee, Finish, TypeOK, RequestRec, Idle
  <2>3. \A u \in Threads : u # t => req'[u] = req[u]
    BY <1>2 DEF CreateVouchee, Finish, TypeOK, RequestRec
  <2>4. QED
    BY <2>1, <2>2, <2>3 DEF IdsFresh
<1>3. ASSUME NEW t \in Threads, CreateStore(t)
      PROVE  IdsFresh'
  <2>1. Stored' \subseteq Stored \cup {req[t].vouch}
    BY <1>3, StoreAdds DEF Stored
  <2>2. req[t].pc # "idle" /\ req'[t] = Idle
    BY <1>3 DEF CreateStore, Finish, TypeOK
  <2>3. \A u \in Threads : u # t => req'[u] = req[u]
    BY <1>3 DEF CreateStore, Finish, TypeOK
  <2>4. QED
    BY <2>1, <2>2, <2>3 DEF IdsFresh, Idle
<1>4. ASSUME NEW v \in VouchIds, NEW by \in Agents, Revoke(v, by)
      PROVE  IdsFresh'
  <2>1. \A w \in VouchIds : vouches'[w].voucher = vouches[w].voucher
    BY <1>4 DEF Revoke, TypeOK, VouchRow
  <2>2. Stored' = Stored
    BY <2>1 DEF Stored
  <2>3. QED
    BY <1>4, <2>2 DEF Revoke, IdsFresh
<1>5. QED
  BY <1>1, <1>2, <1>3, <1>4, StepCases DEF IdsFresh, Stored, Idle

LEMMA IdsAlwaysFresh == Spec => []IdsFresh
  BY TypeCorrect, IdsFreshInit, IdsFreshStep, PTL DEF Spec

\* What a step does to a statement that is on record.
LEMMA RecordStep ==
  ASSUME TypeOK, IdsFresh, [Next]_vars, NEW v \in Stored
  PROVE  \/ vouches'[v] = vouches[v]
         \/ /\ vouches[v].revoked = 0
            /\ vouches'[v] = [vouches[v] EXCEPT !.revoked = vouches'[v].revoked]
<1>1. v \in VouchIds
  BY DEF Stored
<1>2. ASSUME NEW t \in Threads, CreateStore(t)
      PROVE  vouches'[v] = vouches[v]
  <2>1. v # req[t].vouch
    BY <1>2 DEF CreateStore, IdsFresh
  <2>2. QED
    BY <1>1, <1>2, <2>1, StoreAdds
<1>3. ASSUME NEW w \in VouchIds, NEW by \in Agents, Revoke(w, by)
      PROVE  \/ vouches'[v] = vouches[v]
             \/ /\ vouches[v].revoked = 0
                /\ vouches'[v] = [vouches[v] EXCEPT !.revoked = vouches'[v].revoked]
  <2>1. PICK now : vouches' = [vouches EXCEPT ![w].revoked = now]
    BY <1>3 DEF Revoke
  <2>2. vouches \in [VouchIds -> VouchRow] /\ vouches[v] \in VouchRow
    BY <1>1 DEF TypeOK
  <2>3. CASE v # w
    BY <1>1, <2>1, <2>2, <2>3
  <2>4. CASE v = w
    <3>1. vouches'[v] = [vouches[v] EXCEPT !.revoked = now]
      BY <1>1, <2>1, <2>2, <2>4
    <3>2. vouches'[v].revoked = now
      BY <2>2, <3>1 DEF VouchRow
    <3>3. QED
      BY <1>3, <2>4, <3>1, <3>2 DEF Revoke, Revocable
  <2>5. QED
    BY <2>3, <2>4
<1>4. QED
  BY <1>1, <1>2, <1>3, StepCases
     DEF CreateRead, CreateVouchee

\* Store.create_vouch and revoke_vouch: a stored statement only ever changes by its
\* one revocation, whatever grants and revocations are served next to each other.
THEOREM StatementsAreFinal == Spec => RecordIsFinal
<1>1. TypeOK /\ IdsFresh /\ [Next]_vars
        => [\A v \in Stored :
              \/ vouches'[v] = vouches[v]
              \/ /\ vouches[v].revoked = 0
                 /\ vouches'[v] = [vouches[v] EXCEPT !.revoked = vouches'[v].revoked]]_vars
  BY RecordStep
<1>2. QED
  BY <1>1, TypeCorrect, IdsAlwaysFresh, PTL DEF Spec, RecordIsFinal

-----------------------------------------------------------------------------
(* The cap and the duplicate rule.  A grant goes by a time that is at most *)
(* the clock, and what is active at the clock was active at that time.     *)

LEMMA ActiveEarlier ==
  ASSUME TypeOK, NEW now \in Nat, now <= clock, NEW voucher \in Agents
  PROVE  Outgoing(voucher, clock) \subseteq Outgoing(voucher, now)
  BY DEF TypeOK, Outgoing, Active, Stored, VouchRow

\* Every step either takes from what a voucher has outstanding, or adds one statement,
\* below the cap and not yet there.
LEMMA OutgoingStep ==
  ASSUME TypeOK, [Next]_vars, NEW voucher \in Agents
  PROVE  \/ /\ Outgoing(voucher, clock)' \subseteq Outgoing(voucher, clock)
            /\ \A w \in Outgoing(voucher, clock)' :
                 vouches'[w].vouchee = vouches[w].vouchee /\ vouches'[w].scope = vouches[w].scope
         \/ \E now \in Nat, v \in VouchIds :
              /\ BelowCap(voucher, now)
              /\ Outgoing(voucher, clock)' \subseteq Outgoing(voucher, clock) \cup {v}
              /\ Outgoing(voucher, clock) \subseteq Outgoing(voucher, now)
              /\ \A w \in Outgoing(voucher, clock)' \ {v} :
                   /\ vouches'[w] = vouches[w]
                   /\ ~(vouches[w].vouchee = vouches'[v].vouchee
                          /\ vouches[w].scope = vouches'[v].scope)
<1> DEFINE Kept ==
      /\ Outgoing(voucher, clock)' \subseteq Outgoing(voucher, clock)
      /\ \A w \in Outgoing(voucher, clock)' :
           vouches'[w].vouchee = vouches[w].vouchee /\ vouches'[w].scope = vouches[w].scope
<1>1. ASSUME UNCHANGED vouches, clock' \in Nat, clock <= clock'
      PROVE  Kept
  BY <1>1 DEF Outgoing, Active, Stored, TypeOK, VouchRow
<1>2. ASSUME NEW t \in Threads, CreateStore(t), ~UNCHANGED vouches
      PROVE  \/ Kept
             \/ \E now \in Nat, v \in VouchIds :
                  /\ BelowCap(voucher, now)
                  /\ Outgoing(voucher, clock)' \subseteq Outgoing(voucher, clock) \cup {v}
                  /\ Outgoing(voucher, clock) \subseteq Outgoing(voucher, now)
                  /\ \A w \in Outgoing(voucher, clock)' \ {v} :
                       /\ vouches'[w] = vouches[w]
                       /\ ~(vouches[w].vouchee = vouches'[v].vouchee
                              /\ vouches[w].scope = vouches'[v].scope)
  <2> DEFINE row == req[t].row
             v == req[t].vouch
  <2>1. PICK now \in Nat :
          /\ now <= clock
          /\ BelowCap(row.voucher, now)
          /\ ~IsDuplicate(row, now)
          /\ v \in VouchIds
          /\ vouches' = [vouches EXCEPT ![v] = Inserted(row, now)]
          /\ \A w \in VouchIds : w # v => vouches'[w] = vouches[w]
    BY <1>2, StoreAdds, Zenon
  <2>2. clock' = clock /\ req[t].pc = "store"
    BY <1>2 DEF CreateStore
  <2>3. /\ vouches'[v].voucher = row.voucher
        /\ vouches'[v].vouchee = row.vouchee
        /\ vouches'[v].scope = row.scope
    <3>1. vouches'[v] = Inserted(row, now)
      BY <2>1 DEF TypeOK
    <3>2. Inserted(row, now) =
            [voucher |-> row.voucher, vouchee |-> row.vouchee, scope |-> row.scope,
             created |-> now, expires |-> row.expires, revoked |-> row.revoked]
      BY <2>2, InsertedRow, Zenon
    <3>3. QED
      BY <3>1, <3>2
  <2>4. \A w \in Outgoing(voucher, clock)' \ {v} :
          w \in VouchIds /\ vouches'[w] = vouches[w] /\ w \in Outgoing(voucher, clock)
    BY <2>1, <2>2 DEF Outgoing, Active, Stored
  <2>5. CASE row.voucher # voucher
    <3>1. v \notin Outgoing(voucher, clock)'
      BY <2>3, <2>5 DEF Outgoing
    <3>2. QED
      BY <2>4, <3>1
  <2>6. CASE row.voucher = voucher
    <3>1. Outgoing(voucher, clock) \subseteq Outgoing(voucher, now)
      BY <2>1, ActiveEarlier
    <3>2. \A w \in Outgoing(voucher, clock)' \ {v} :
            ~(vouches[w].vouchee = vouches'[v].vouchee /\ vouches[w].scope = vouches'[v].scope)
      BY <2>1, <2>3, <2>4, <2>6, <3>1 DEF IsDuplicate
    <3>3. QED
      BY <2>1, <2>4, <2>6, <3>1, <3>2
  <2>7. QED
    BY <2>5, <2>6
<1>3. ASSUME NEW v \in VouchIds, NEW by \in Agents, Revoke(v, by)
      PROVE  Kept
  <2>1. PICK now \in vouches[v].created .. clock :
          vouches' = [vouches EXCEPT ![v].revoked = now]
    BY <1>3 DEF Revoke
  <2>2. \A w \in VouchIds : vouches[w] \in VouchRow
    BY DEF TypeOK
  <2>3. \A w \in VouchIds : /\ vouches'[w].voucher = vouches[w].voucher
                            /\ vouches'[w].vouchee = vouches[w].vouchee
                            /\ vouches'[w].scope = vouches[w].scope
                            /\ vouches'[w].expires = vouches[w].expires
                            /\ w # v => vouches'[w].revoked = vouches[w].revoked
    BY <2>1, <2>2 DEF TypeOK, VouchRow
  <2>4. vouches[v].revoked = 0 /\ clock' = clock
    BY <1>3 DEF Revoke, Revocable
  <2>5. QED
    BY <2>3, <2>4 DEF Outgoing, Active, Stored
<1>4. clock \in Nat /\ clock + 1 \in Nat /\ clock <= clock /\ clock <= clock + 1
  BY DEF TypeOK
<1>5. QED
  BY <1>1, <1>2, <1>3, <1>4, StepCases DEF CreateRead, CreateVouchee, CreateStore

LEMMA OutgoingFinite ==
  \A voucher, now : IsFiniteSet(Outgoing(voucher, now))
                      /\ Cardinality(Outgoing(voucher, now)) \in Nat
  BY VouchingConstants, FS_Subset, FS_CardinalityType DEF VouchingConstants, Outgoing, Stored

LEMMA CapStep == TypeOK /\ OutgoingCap /\ [Next]_vars => OutgoingCap'
<1> SUFFICES ASSUME TypeOK, OutgoingCap, [Next]_vars, NEW voucher \in Agents
             PROVE  Cardinality(Outgoing(voucher, clock)') <= MaxOutgoing
  BY DEF OutgoingCap
<1> DEFINE before == Outgoing(voucher, clock)
           after == Outgoing(voucher, clock)'
<1>1. MaxOutgoing \in Nat /\ Cardinality(before) <= MaxOutgoing
  BY VouchingConstants DEF VouchingConstants, OutgoingCap
<1>2. IsFiniteSet(before) /\ Cardinality(before) \in Nat
  BY OutgoingFinite
<1>3. CASE after \subseteq before
  <2>1. Cardinality(after) \in Nat /\ Cardinality(after) <= Cardinality(before)
    BY <1>2, <1>3, FS_Subset, FS_CardinalityType
  <2>2. QED
    BY <1>1, <1>2, <2>1
<1>4. ASSUME NEW now \in Nat, NEW v \in VouchIds,
             BelowCap(voucher, now),
             after \subseteq before \cup {v},
             before \subseteq Outgoing(voucher, now)
      PROVE  Cardinality(after) <= MaxOutgoing
  <2> DEFINE grown == before \cup {v}
  <2>1. /\ Cardinality(before) <= Cardinality(Outgoing(voucher, now))
        /\ Cardinality(Outgoing(voucher, now)) \in Nat
    BY <1>4, OutgoingFinite, FS_Subset
  <2>2. Cardinality(before) < MaxOutgoing
    BY <1>1, <1>2, <1>4, <2>1 DEF BelowCap
  <2>3. /\ IsFiniteSet(grown)
        /\ Cardinality(grown) <= Cardinality(before) + 1
        /\ Cardinality(grown) \in Nat
    <3>1. /\ IsFiniteSet(grown)
          /\ Cardinality(grown) = IF v \in before THEN Cardinality(before)
                                                 ELSE Cardinality(before) + 1
      BY <1>2, FS_AddElement, Zenon
    <3>2. QED
      BY <1>2, <3>1
  <2>4. Cardinality(after) \in Nat /\ Cardinality(after) <= Cardinality(grown)
    BY <1>4, <2>3, FS_Subset, FS_CardinalityType
  <2>5. QED
    BY <1>1, <1>2, <2>2, <2>3, <2>4
<1>5. QED
  BY <1>3, <1>4, OutgoingStep

\* Store.create_vouch: the cap holds at the clock of every state, though each grant is
\* counted at a time it read before it got the lock.
THEOREM CapIsKept == Spec => []OutgoingCap
<1>1. Init => OutgoingCap
  <2> SUFFICES ASSUME Init, NEW voucher \in Agents
               PROVE  Cardinality(Outgoing(voucher, clock)) <= MaxOutgoing
    BY DEF OutgoingCap
  <2>1. Outgoing(voucher, clock) = {}
    BY DEF Init, Outgoing, Stored, NoVouch
  <2>2. QED
    BY <2>1, FS_EmptySet, VouchingConstants DEF VouchingConstants
<1>2. QED
  BY <1>1, TypeCorrect, CapStep, PTL DEF Spec

LEMMA EdgeStep == TypeOK /\ OneActivePerEdge /\ [Next]_vars => OneActivePerEdge'
<1> SUFFICES ASSUME TypeOK, OneActivePerEdge, [Next]_vars, NEW voucher \in Agents,
                    NEW v \in Outgoing(voucher, clock)', NEW w \in Outgoing(voucher, clock)',
                    vouches'[v].vouchee = vouches'[w].vouchee,
                    vouches'[v].scope = vouches'[w].scope
             PROVE  v = w
  BY DEF OneActivePerEdge
<1>1. CASE /\ Outgoing(voucher, clock)' \subseteq Outgoing(voucher, clock)
           /\ \A x \in Outgoing(voucher, clock)' :
                vouches'[x].vouchee = vouches[x].vouchee /\ vouches'[x].scope = vouches[x].scope
  BY <1>1 DEF OneActivePerEdge
<1>2. ASSUME NEW new \in VouchIds,
             Outgoing(voucher, clock)' \subseteq Outgoing(voucher, clock) \cup {new},
             \A x \in Outgoing(voucher, clock)' \ {new} :
               /\ vouches'[x] = vouches[x]
               /\ ~(vouches[x].vouchee = vouches'[new].vouchee
                      /\ vouches[x].scope = vouches'[new].scope)
      PROVE  v = w
  BY <1>2 DEF OneActivePerEdge
<1>3. QED
  BY <1>1, <1>2, OutgoingStep

\* Store.create_vouch: of one voucher, for one vouchee and scope, one statement at most
\* is active, whatever times the grants go by.
THEOREM EdgesAreUnique == Spec => []OneActivePerEdge
<1>1. Init => OneActivePerEdge
  BY DEF Init, OneActivePerEdge, Outgoing, Stored, NoVouch
<1>2. QED
  BY <1>1, TypeCorrect, EdgeStep, PTL DEF Spec

=============================================================================
