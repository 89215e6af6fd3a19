\* Three agents, all of whom vouch, and two statements at a time in the table: chains,
\* rings of two, statements about oneself; revocations, expiries and new grants.
SPECIFICATION GraphSpec
SYMMETRY Symmetry
CONSTANTS
  Agents = {a1, a2, a3}
  Vouchers = {a1, a2, a3}
  VouchIds = {v1, v2}
  Scopes = {s1}
  Threads = {t1}
  None = None
  MaxOutgoing = 2
  MaxSpan = 1
  Claims = {1}
  MaxClock = 3
INVARIANTS
  GraphTypeOK
  ShortestPathsServed
PROPERTIES
  StandingRingsCounted
