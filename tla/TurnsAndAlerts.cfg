\* Chat: two requests, three tiers, every fault, one midnight.  Alerts: two
\* scans and two deliveries that may overlap, batches of one alert, one lost
\* execution.
SPECIFICATION ServedSpec
CONSTANTS
  Conns = {c1, c2}
  ChatTiers = {"free", "basic", "lifetime"}
  Limited = {"free", "basic"}
  Limit <- TierLimit
  MaxTools = 1
  Faulty = {"redis", "database", "provider", "client"}
  MaxDay = 1
  Subjects = {x1}
  Spikes = {}
  Scans = {s1, s2}
  Deliverers = {d1, d2}
  MaxRetries = 2
  BatchSize = 1
  MaxFaults = 1
CHECK_DEADLOCK FALSE
INVARIANTS
  ServedTypeOK
  OvershootIsBounded
  TurnsPreventRepetition
PROPERTIES
  TurnsEnd
  AlertsSettle
