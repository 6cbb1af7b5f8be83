\* Every kernel of up to three rows, six columns and two terms, within MaxWork;
\* a grid has two rows.
CONSTANTS
  Kernels <- SmallKernels
  MaxThreads = 1024
  MaxGridY = 2
  MaxColumns = 6
  MaxWork = 18
  None = None
SPECIFICATION Spec
INVARIANTS IInv WrittenIsReference Covers StaysInside NoRaces
\* The kernel is over, or was refused.
CHECK_DEADLOCK FALSE
