\* One run, three patents of which one is ingested meanwhile and gone later, two
\* workers: the row lock and the launch race.
SPECIFICATION Spec
CONSTANTS
  p1 = p1
  p2 = p2
  p3 = p3
  k1 = k1
  k2 = k2
  k3 = k3
  None = None
  Runs = {r1}
  Patents = {p1, p2, p3}
  Late = {p3}
  Gone = {p3}
  Blank = {}
  Keys = {k1, k2, k3}
  Workers = {w1, w2}
  SkipsDone = FALSE
  Key <- DistinctKey
  ProviderOutcomes = {"good", "api_error"}
  MaxRetries = 1
  MaxFaults = 1
SYMMETRY WorkerSymmetry
CHECK_DEADLOCK FALSE
INVARIANTS
  TypeOK
  CountersAddUp
  NoTaskLost
PROPERTIES
  FinalIsFrozen
