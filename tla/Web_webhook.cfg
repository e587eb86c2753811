\* The webhooks page, with one save: two visits of the page are enough.
SPECIFICATION Spec
CONSTANTS
  Settings = {"all", "few"}
  MaxStock = 2
  MaxMoves = 1
  MaxFailures = 1
  MaxPolls = 2
  MaxCalls = 1
  MaxOutside = 1
  MaxTyping = 2
  MaxVisits = 1
  MaxTurns = 1
  MaxTrips = 2
  Tabs = {1, 2}
  Browsers = {1, 2}
  Users = {"ann", "bob"}
  MaxLinks = 1
  MaxAnswers = 2
  MaxSteps = 1
  MaxSlips = 1
  Types = {"a", "b", "c"}
  MaxItems = 1
  MaxBackfill = 2
  MaxLooks = 2
  MaxFailed = 1
CHECK_DEADLOCK FALSE
INVARIANT WebhookFormIsSynced
