\* Two reporters suffice to hide the target, which may report itself.
SPECIFICATION Spec
SYMMETRY Symmetry
CONSTANTS
  Agents = {a1, a2}
  Targets = {a1}
  Threads = {t1, t2}
  None = None
  Categories = {spam, fraud, payment_fraud}
  AbuseClasses = {spam}
  Fraud = fraud
  PaymentFraud = payment_fraud
  Threshold = 2
  Tenure = 1
  DupWindow = 1
  Window = 1
  Decay = 2
  MaxClock = 3
  MaxReports = 2
  MaxOthers = 3
INVARIANTS
  TypeOK
  OneReportPerWindow
  SignalsReplay
PROPERTIES
  SuspensionsReplay
  AutomatonActs
