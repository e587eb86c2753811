\* One tier and no fault: two requests of a user who has one turn a day left.
SPECIFICATION ServedSpec
CONSTANTS
  Conns = {c1, c2}
  ChatTiers = {"free"}
  Limited = {"free"}
  Limit <- TierLimit
  MaxTools = 1
  Faulty = {}
  MaxDay = 0
  Subjects = {x1}
  Spikes = {}
  Scans = {s1}
  Deliverers = {d1}
  MaxRetries = 1
  BatchSize = 1
  MaxFaults = 0
CHECK_DEADLOCK FALSE
INVARIANTS
  QuotaIsNotExceeded
