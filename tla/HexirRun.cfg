CONSTANTS
  None = None
  MaxArguments = 3
  Commands <- MCCommands
SPECIFICATION Spec
INVARIANTS IInv NothingLeaks RunsWhatWasAsked ExitCodes
\* The process exits.
CHECK_DEADLOCK FALSE
