\* One agent, three challenges of either kind, one of which may be pending.
SPECIFICATION DomainSpec
SYMMETRY Symmetry
CONSTANTS
  Agents = {a1}
  Threads = {t1, t2}
  ChallengeIds = {c1, c2, c3}
  NoAgent = NoAgent
  NoChallenge = NoChallenge
  MaxAgents = 1
  MaxPending = 1
  TTL = 0
  ChallengeTTL = 1
  MaxClock = 2
  MaxLog = 6
  MaxVerifications = 1
  TokenTTL = 1
  VerificationTTL = 1
  Hosts = {h1, h2}
  Domains = {{h1}, {h2}}
  NoHost = NoHost
INVARIANTS
  DomainTypeOK
  TokenPerVerification
  VerifiedOnce
  TokenCap
  ManifestFollowsLog
  VerifiedUnderEndpoint
  ShownDomainWasListed
PROPERTIES
  StillImplementsPhoneBook
