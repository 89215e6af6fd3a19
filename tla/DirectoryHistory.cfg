\* One agent, with room for one challenge, so that it is evicted under a
\* completion; no symmetry, which is not sound for liveness.
SPECIFICATION FairSpec
CONSTANTS
  Agents = {a1}
  Threads = {t1, t2}
  ChallengeIds = {c1, c2}
  NoAgent = NoAgent
  NoChallenge = NoChallenge
  MaxAgents = 1
  MaxPending = 1
  TTL = 1
  ChallengeTTL = 1
  MaxClock = 3
  MaxLog = 5
INVARIANTS
  TenureMatchesLog
  ExpiryBackedByLog
PROPERTIES
  HandlersFinish
