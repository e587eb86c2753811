\* Good answers only, no faults and no retries: nothing but interleaving.
SPECIFICATION Spec
CONSTANTS
  p1 = p1
  p2 = p2
  p3 = p3
  k1 = k1
  k2 = k2
  k3 = k3
  None = None
  Runs = {r1}
  Patents = {p1, p2, p3}
  Late = {}
  Gone = {}
  Blank = {}
  Keys = {k1, k2, k3}
  Workers = {w1, w2}
  SkipsDone = FALSE
  Key <- DistinctKey
  ProviderOutcomes = {"good"}
  MaxRetries = 0
  MaxFaults = 0
SYMMETRY WorkerSymmetry
CHECK_DEADLOCK FALSE
INVARIANT NoTaskLeftBehind
