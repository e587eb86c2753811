\* Two edits of one page, an event each: two Applies, and a fault or a second
\* save of one edit.
SPECIFICATION OneSpec
CONSTANTS
  e1 = e1
  e2 = e2
  p1 = p1
  Entries = {e1, e2}
  Pages = {p1}
  PageOf <- OnePage
  None = None
  ChunkSize = 1
  MaxRepairs = 1
  MaxVersion = 2
  MaxApplies = 2
  MaxFaults = 1
CHECK_DEADLOCK FALSE
INVARIANT TypeOK
PROPERTIES
  SourceStaysWhole
  StagedEditsAreKept
  ApplyEnds
