------------------------------ MODULE MCInbox ------------------------------
(* A turn, two messages sent to it, one of which brings a skill part.       *)
EXTENDS Inbox, TLC

CONSTANTS r1, r2

MCRequest == {r1, r2}
MCSlots == r1 :> 1 @@ r2 :> 2

\* Two messages and a pause or a crash, or one message and both.
ThreeEvents == sends + pauses + crashes <= 3
=============================================================================
