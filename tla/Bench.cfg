CONSTANTS
  None = None
  Shapes <- SmallShapes
  MaxKernels = 2
  Modules <- MCModules
  Commands <- MCCommands
  DefaultIterations = 2
  MaxArguments = 3
SPECIFICATION Spec
INVARIANTS IInv NothingLeaks TimesWholeRuns VerdictIsRight
\* The process exits.
CHECK_DEADLOCK FALSE
