\* Every stage; graphs and command lines as MCHexir picks them.
CONSTANTS
  Jobs <- MCJobs
  ShortName <- MCShortName
  Mangled <- MCMangled
  SizeLimit = 16
  ExtentLimit = 4
  MaxBody = 3
  MaxLinalg = 3
SPECIFICATION FairSpec
INVARIANTS Inv MeaningPreserved LowersAsStated PlacementTravels ExitCodes
PROPERTIES Terminates
\* The process has ended.
CHECK_DEADLOCK FALSE
