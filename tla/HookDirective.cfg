\* Three tries and four pieces of log.
CONSTANTS
  MaxTries = 3
  MaxLines = 4
SPECIFICATION Spec
INVARIANTS OneAnswerPerTry ListsGoWithAccept
CHECK_DEADLOCK FALSE
