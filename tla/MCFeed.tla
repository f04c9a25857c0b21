------------------------------- MODULE MCFeed -------------------------------
(***************************************************************************)
(* Small instances of Feed.                                                *)
(***************************************************************************)
EXTENDS Feed, TLC

CONSTANT hello

\* Three rows without a fault, two rows with one, and three rows with one that
\* begin with an event and report no admission.
NoAdmission == \A i \in 1 .. Len(rows) : rows[i].message = NoMessage
FewFaults ==
    \/ faults = 0
    \/ Len(rows) <= 2
    \/ NoAdmission /\ rows[1].kind = "event"
=============================================================================
