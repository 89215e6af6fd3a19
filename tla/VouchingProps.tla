---------------------------- MODULE VouchingProps ----------------------------
(***************************************************************************)
(* What is checked of Vouching.                                            *)
(***************************************************************************)
EXTENDS Vouching

VouchRow == [voucher : Agents \cup {None}, vouchee : Agents \cup {None},
             scope : Scopes \cup {None}, created : Nat, expires : Nat, revoked : Nat]

RequestRec == [pc : {"idle", "vouchee", "store"}, vouch : VouchIds \cup {None},
               row : VouchRow, since : Nat]

\* A row that has everything a vouch needs.
Complete(row) ==
  /\ {row.voucher, row.vouchee} \subseteq Agents
  /\ row.scope \in Scopes

\* The variables have their types; what is stored, or about to be, is complete.
TypeOK ==
  /\ vouches \in [VouchIds -> VouchRow]
  /\ live \subseteq Agents
  /\ clock \in Nat
  /\ req \in [Threads -> RequestRec]
  /\ \A v \in Stored : Complete(vouches[v])
  /\ \A t \in Threads : req[t].pc # "idle" => /\ req[t].vouch \in VouchIds
                                              /\ Complete(req[t].row)

-----------------------------------------------------------------------------
\* No agent has more than MaxOutgoing active vouches, however many grants of its
\* own were checked at the same time and however old the time each goes by.
OutgoingCap ==
  \A voucher \in Agents : Cardinality(Outgoing(voucher, clock)) <= MaxOutgoing

\* Of one voucher for one vouchee in one scope, at most one vouch is active.
OneActivePerEdge ==
  \A voucher \in Agents : \A v, w \in Outgoing(voucher, clock) :
    /\ vouches[v].vouchee = vouches[w].vouchee
    /\ vouches[v].scope = vouches[w].scope
    => v = w

\* A statement that is on record stays on record as it was signed: the one thing
\* that ever happens to it is that it is revoked, and that happens once.
RecordIsFinal ==
  [][\A v \in Stored : \/ vouches'[v] = vouches[v]
                       \/ /\ vouches[v].revoked = 0
                          /\ vouches'[v] = [vouches[v] EXCEPT !.revoked = vouches'[v].revoked]]_vars

=============================================================================
