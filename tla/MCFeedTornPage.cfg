SPECIFICATION Spec

CONSTANTS
  hello = hello
  Message = {hello}
  Kind = {"event", "notice"}
  MaxRows = 3
  MaxBatch = 1
  PageLimit = 2
  MaxFaults = 0

INVARIANT AppliedWithoutGap

\* A session may fall silent.
CHECK_DEADLOCK FALSE
