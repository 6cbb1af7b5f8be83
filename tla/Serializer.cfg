\* Two functions of up to four and two operations, and odd ones.
CONSTANTS
  Sources <- MCSources
  ShortName <- MCShortName
  SizeLimit = 3
  ExtentLimit = 2
  MaxBody = 4
SPECIFICATION Spec
INVARIANTS Inv SlotsBoundOnce BoundBeforeUse WritesHostProgram RejectsTheUnserializable DumpShowsWhatRuns
\* A module is written or rejected, and the walk is over.
CHECK_DEADLOCK FALSE
