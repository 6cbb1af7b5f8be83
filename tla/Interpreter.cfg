\* Every list of up to MaxLength commands over six and END; longer lists with an
\* odd command, in modules with odd sections.
CONSTANTS
  Buffers = {b1, b2, b3}
  None = None
  MaxSlots = 3
  MaxArgs = 4
  SizeLimit = 16
  ExtentLimit = 5
  Values = {0, 1, 2}
  Zero = 0
  Kernel <- MCKernel
  Literal <- MCLiteral
  Modules <- MCModules
  Sections <- MCSections
  Entries = {"main", "absent"}
  MaxLength = 4
  OutSizes = {0, 1, 2}
SPECIFICATION FairSpec
INVARIANTS KernelIsAwaited NothingLeaks CapturesLastDispatch IInv
PROPERTIES FirstErrorIsFinal ImplementsCommandList Returns
\* The call returns: nothing is left to do.
CHECK_DEADLOCK FALSE
