\* Billing: two purchases, two requests at a time, an administrator, every
\* fault.  Ingestion: two workers over three midnights of nightly runs, manual
\* runs of one day, failures, crashes and expiries.
SPECIFICATION KeptSpec
CONSTANTS
  Subs = {s1, s2}
  Paid = {"basic", "lifetime"}
  Recurring = {"basic"}
  Overrides = {"enterprise", "free"}
  Handlers = {h1, h2}
  Lossy = TRUE
  None = None
  Nobody = Nobody
  Workers = {w1, w2}
  DefaultLookback = 1
  MaxLookback = 2
  Lookbacks = {1}
  Faulty = {"bigquery"}
  MaxDay = 3
CONSTRAINT Telling
SYMMETRY Symmetries
CHECK_DEADLOCK FALSE
INVARIANTS
  KeptTypeOK
  SyncedWhenSettled
  CustomersAreServed
  RunsTakeTurnsWithoutGap
