\* A proxy on this host and a host elsewhere; two requests fill a bucket, three
\* seconds refill it, so that the time to come back is not a whole number of tokens.
SPECIFICATION Spec
SYMMETRY Symmetry
CONSTANTS
  Peers = {here, r1}
  Local = {here}
  NoHeader = NoHeader
  TrustProxy = TRUE
  Capacity = 2
  Refill = 3
  Threads = {t1, t2}
  MaxClock = 3
INVARIANTS
  TypeOK
  AdmissionBound
  PeerBound
PROPERTIES
  RetrySuffices
