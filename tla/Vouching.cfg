\* Three grants in two scopes by an agent that may have two active; a grant can
\* take the place of one that has expired.
SPECIFICATION Spec
SYMMETRY Symmetry
CONSTANTS
  Agents = {a1, a2}
  Vouchers = {a1}
  VouchIds = {v1, v2, v3}
  Scopes = {s1, s2}
  Threads = {t1, t2}
  None = None
  MaxOutgoing = 2
  MaxSpan = 1
  Claims = {1, 2}
  MaxClock = 3
INVARIANTS
  TypeOK
  OutgoingCap
  OneActivePerEdge
PROPERTIES
  RecordIsFinal
