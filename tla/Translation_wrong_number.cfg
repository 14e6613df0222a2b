SPECIFICATION Spec
CONSTANTS
  BATCH = 2
  NumCues = 3
INVARIANT NoLineOfAnother
\* The last batch is the end.
CHECK_DEADLOCK FALSE
