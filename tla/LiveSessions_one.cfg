\* One variant session and one steer request: two faults among crashes of the
\* helper, interruptions of the agent and closings of the tab, one checkpoint.
SPECIFICATION FairSpec
CONSTANTS
  Sessions = {s1}
  Steers = {t1}
  None = None
  MaxFaults = 2
  MaxRevision = 1
  MaxDecisions = 1
CHECK_DEADLOCK FALSE
INVARIANT TypeOK
PROPERTIES
  DecisionsAreKept
  KeepsItsWork
  RequestedVariantsArrive
