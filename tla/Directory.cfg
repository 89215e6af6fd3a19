\* Two agents compete for one place; two handler threads interleave.
SPECIFICATION Spec
SYMMETRY Symmetry
CONSTANTS
  Agents = {a1, a2}
  Threads = {t1, t2}
  ChallengeIds = {c1, c2, c3}
  NoAgent = NoAgent
  NoChallenge = NoChallenge
  MaxAgents = 1
  MaxPending = 2
  TTL = 1
  ChallengeTTL = 1
  MaxClock = 3
  MaxLog = 5
INVARIANTS
  TypeOK
  SingleUse
  StatusMatchesLog
  LogInTimeOrder
PROPERTIES
  AuditedWrites
  LapsedRowsNotRenewed
  ImplementsPhoneBook
