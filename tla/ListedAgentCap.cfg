\* Two registrations pass the capacity check before either commits.
SPECIFICATION Spec
SYMMETRY Symmetry
CONSTANTS
  Agents = {a1, a2}
  Threads = {t1, t2}
  ChallengeIds = {c1, c2, c3}
  NoAgent = NoAgent
  NoChallenge = NoChallenge
  MaxAgents = 1
  MaxPending = 2
  TTL = 1
  ChallengeTTL = 1
  MaxClock = 3
  MaxLog = 5
INVARIANT ListedAgentCap
