SPECIFICATION Spec
CONSTRAINT FewFaults

CONSTANTS
  hello = hello
  Message = {hello}
  Kind = {"event", "notice"}
  MaxRows = 3
  MaxBatch = 2
  PageLimit = 1
  MaxFaults = 1

INVARIANT PumpCatchesUp
INVARIANT PublishedInOrder
INVARIANT PagesJoinUp
INVARIANT AdmissionReported
INVARIANT AppliedInOrder
INVARIANT GapsAreTornPages

\* A session may fall silent.
CHECK_DEADLOCK FALSE
