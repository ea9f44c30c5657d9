\* One try whose child breaks off in the middle of a line.
CONSTANTS
  MaxTries = 1
  MaxLines = 1
SPECIFICATION Spec
INVARIANT EveryTryIsAnswered
CHECK_DEADLOCK FALSE
