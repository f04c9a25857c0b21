------------------------------ MODULE Mailbox ------------------------------
(***************************************************************************)
(* What the inbox of a running turn promises to those who send to it.      *)
(* A message that was taken in stays in the box until the model reads it,  *)
(* messages are read once and in the order they were taken in, and the     *)
(* turn completes only when it has read everything.  A turn that fails may *)
(* leave unread messages behind.                                           *)
(***************************************************************************)
EXTENDS Sequences, Naturals, SequencesExt

CONSTANT Request       \* the identities of the messages

VARIABLES
    box,        \* the messages taken in and not read yet
    read,       \* the messages the model has read
    turn        \* "open", "completed" or "failed"

vars == <<box, read, turn>>

Init ==
    /\ box = <<>>
    /\ read = <<>>
    /\ turn = "open"

Accept(r) ==
    /\ turn = "open"
    /\ r \notin Range(box \o read)
    /\ box' = Append(box, r)
    /\ UNCHANGED <<read, turn>>

Read(n) ==
    /\ turn = "open"
    /\ read' = read \o SubSeq(box, 1, n)
    /\ box' = SubSeq(box, n + 1, Len(box))
    /\ UNCHANGED turn

Complete ==
    /\ turn = "open"
    /\ box = <<>>
    /\ turn' = "completed"
    /\ UNCHANGED <<box, read>>

Fail ==
    /\ turn = "open"
    /\ turn' = "failed"
    /\ UNCHANGED <<box, read>>

Next ==
    \/ \E r \in Request : Accept(r)
    \/ \E n \in 1 .. Len(box) : Read(n)
    \/ Complete
    \/ Fail

Spec == Init /\ [][Next]_vars
=============================================================================
