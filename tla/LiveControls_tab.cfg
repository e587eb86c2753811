SPECIFICATION Spec
CONSTANTS
  Habits <- Users
  MaxSessions = 1
  MaxVersion = 1
  MaxSteers = 1
  MaxEvents = 1
  MaxBroken = 1
INVARIANTS
  TypeOK
  PageShowsWhatIsSaved
  ControlsAreThere
PROPERTY SessionsComeAndGoClean
