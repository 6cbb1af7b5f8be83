\* Every graph of two constants and up to two operations on both devices, and
\* two functions of one operation each.
CONSTANTS
  Buffers = {b1, b2, b3, b4}
  None = None
  MaxSlots = 5
  MaxArgs = 4
  SizeLimit = 8
  ExtentLimit = 3
  Values = {0, 1, 2}
  Zero = 0
  Kernel <- MCKernel
  Literal <- MCLiteral
  Modules <- MCModules
  Sections <- MCSections
  Entries = {"main", "aux"}
  OutSizes = {0, 2, 3}
  ShortName <- MCShortName
  Options <- MCOptions
  ValueAt <- MCValueAt
  MaxBody = 2
SPECIFICATION Spec
INVARIANTS AnswersAreTheGraphs CompiledModulesAreValid PlacementDecides
SYMMETRY Symmetry
\* The call returns: nothing is left to do.
CHECK_DEADLOCK FALSE
