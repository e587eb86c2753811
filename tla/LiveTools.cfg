\* Three marks and two sessions; two variants, one with parameters; two
\* elements and two scans; two versions of the design; a page of two elements.
SPECIFICATION Spec
CONSTANTS
  MaxMarks = 3
  MaxGoes = 2
  MaxVariants = 2
  Tunable = {1}
  MaxMounts = 1
  Elements = {1, 2}
  MaxScans = 2
  MaxCommands = 1
  MaxChanges = 2
  MaxWrites = 2
  MaxFailures = 1
  MaxPolls = 2
  Depth = 2
  MaxDeclarations = 3
CHECK_DEADLOCK FALSE
INVARIANTS
  LiveToolsTypeOK
  MarksReachTheAgent
  OneChoiceEverywhere
  PanelsTellTheTruth
  StylesAreTheBrowsers
