CONSTANTS
    Sessions = {s1, s2}
    MaxTickets = 3
SPECIFICATION Spec
INVARIANTS AdmittedInOrder ClosedAtMostOnce StopCancelsPreparation
PROPERTIES EveryTicketLeaves
CHECK_DEADLOCK FALSE
