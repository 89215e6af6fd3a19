\* The evicted row is the oldest unused one, which may have expired already.
SPECIFICATION Spec
SYMMETRY Symmetry
CONSTANTS
  Agents = {a1, a2}
  Threads = {t1, t2}
  ChallengeIds = {c1, c2, c3}
  NoAgent = NoAgent
  NoChallenge = NoChallenge
  MaxAgents = 1
  MaxPending = 1
  TTL = 1
  ChallengeTTL = 1
  MaxClock = 3
  MaxLog = 5
INVARIANT PendingChallengeCap
