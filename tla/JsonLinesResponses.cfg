CONSTANTS
  Commands = 2
  MaxLength = 4
  Capacity = 3
SPECIFICATION Spec
INVARIANTS
  MultipleCommandsGetMultipleResponses
CHECK_DEADLOCK FALSE
