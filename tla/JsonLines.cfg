\* Three commands; lines of one or two blocks either way, through BufReaders of two: a
\* line fits exactly or not, and arrives in up to three reads.
CONSTANTS
  Commands = 3
  MaxLength = 2
  Capacity = 2
SPECIFICATION FairSpec
INVARIANTS
  LinesIntact
  OwnResponse
PROPERTIES
  EveryCommandAnswered
CHECK_DEADLOCK FALSE
