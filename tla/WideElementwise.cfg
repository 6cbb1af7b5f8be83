\* An elementwise kernel one column wider than a block.
CONSTANTS
  Kernels <- Wide
  MaxThreads = 1024
  MaxGridY = 65535
  MaxColumns = 6
  MaxWork = 18
  None = None
SPECIFICATION Spec
INVARIANTS WideMatricesLaunch
CHECK_DEADLOCK FALSE
