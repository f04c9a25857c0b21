---------------------------- MODULE MCTurnLeases ----------------------------
(***************************************************************************)
(* Small instances of TurnLeases: plain messages, and deferred input.       *)
(***************************************************************************)
EXTENDS TurnLeases, TLC

CONSTANTS plain, other, late

\* The states of two instances in one run: one message with many workers,
\* leases and control decisions, and a message beside deferred input.
PlainAlone == accepted[late] = -1 /\ turnState[late] = "none"
PlainAndLate ==
    /\ generation <= 2 /\ created <= 3
    /\ stopRevision <= (IF generation = 2 THEN 1 ELSE 2)
    /\ \A t \in Turn : controlRevision[t] <= 2
AloneOrBoth == PlainAlone \/ PlainAndLate
=============================================================================
