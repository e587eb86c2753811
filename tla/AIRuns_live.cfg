\* Two runs over the same two patents, or one run with bad answers, errors,
\* retries and one fault.
SPECIFICATION LiveSpec
CONSTANTS
  p1 = p1
  p2 = p2
  p3 = p3
  k1 = k1
  k2 = k2
  k3 = k3
  None = None
  Runs = {r1, r2}
  Patents = {p1, p2}
  Late = {}
  Gone = {}
  Blank = {}
  Keys = {k1, k2}
  Workers = {w1, w2}
  SkipsDone = TRUE
  Key <- TwoKey
  ProviderOutcomes = {"good", "unusable", "other_error"}
  MaxRetries = 1
  MaxFaults = 1
CHECK_DEADLOCK FALSE
INVARIANT ArtifactsBackResults
PROPERTY TasksAndRunsEnd
