\* The claim of dump_program, on the modules of Serializer.cfg.
CONSTANTS
  Sources <- MCSources
  ShortName <- MCShortName
  SizeLimit = 3
  ExtentLimit = 2
  MaxBody = 1
SPECIFICATION Spec
INVARIANTS DumpMarksEveryEntryPoint
CHECK_DEADLOCK FALSE
