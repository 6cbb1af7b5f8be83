\* What ALLOC leaves in a buffer.
CONSTANTS
  Buffers = {b1, b2}
  None = None
  MaxSlots = 2
  MaxArgs = 4
  SizeLimit = 16
  ExtentLimit = 5
  Values = {0, 1, 2}
  Zero = 0
  Kernel <- MCKernel
  Literal <- MCLiteral
  Modules <- ShortModules
  Sections <- MCSections
  Entries = {"main"}
  MaxLength = 2
  OutSizes = {0}
SPECIFICATION FairSpec
PROPERTY AllocatesZeroed
\* The call returns: nothing is left to do.
CHECK_DEADLOCK FALSE
