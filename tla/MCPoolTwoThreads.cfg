SPECIFICATION Spec
CONSTANTS
  Thread = {t1, t2}
  NumEntries = 2
INVARIANT
  BuffersAreFree
CHECK_DEADLOCK FALSE
