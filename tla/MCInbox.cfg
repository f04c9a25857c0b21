SPECIFICATION Spec
CONSTRAINT ThreeEvents
CONSTANTS
  r1 = r1
  r2 = r2
  Request <- MCRequest
  Slots <- MCSlots
  Capacity = 3
  MaxRounds = 2
  MaxSends = 2
  MaxPauses = 1
  MaxCrashes = 1
PROPERTIES
  MailboxSpec
  AcceptedIsRead
  WaitingCallersGoOn
CHECK_DEADLOCK FALSE
