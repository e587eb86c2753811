\* Every page for itself: two sizes of data, two calls, two tabs of the chat,
\* two browser tabs and two users.
SPECIFICATION Spec
CONSTANTS
  Settings = {"all", "few"}
  MaxStock = 2
  MaxMoves = 3
  MaxFailures = 1
  MaxPolls = 2
  MaxCalls = 2
  MaxOutside = 1
  MaxTyping = 2
  MaxVisits = 1
  MaxTurns = 2
  MaxTrips = 2
  Tabs = {1, 2}
  Browsers = {1, 2}
  Users = {"ann", "bob"}
  MaxLinks = 1
  MaxAnswers = 2
  MaxSteps = 5
  MaxSlips = 1
  Types = {"a", "b", "c"}
  MaxItems = 6
  MaxBackfill = 2
  MaxLooks = 2
  MaxFailed = 1
CHECK_DEADLOCK FALSE
INVARIANTS
  WebTypeOK
  PagesTellTheTruth
  PagesFollowTheirCalls
  TodayIsTrue
PROPERTIES
  ChatIsKept
  TabsSpeakForTheirUser
