CONSTANTS
  None = None
  Shapes <- SweepShapes
  MaxKernels = 1
  Modules <- MCModules
  Commands <- MCCommands
  DefaultIterations = 2
  MaxArguments = 0
SPECIFICATION Spec
INVARIANT PartialKernelsAreCaught
\* The process exits.
CHECK_DEADLOCK FALSE
