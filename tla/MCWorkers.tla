----------------------------- MODULE MCWorkers -----------------------------
(***************************************************************************)
(* One session and three calls of Ensure, which are alike and so are made   *)
(* in one order.  One run has three instances: two calls beside a Stop with *)
(* a context that ends early, two calls and two faults, and three launches  *)
(* after crashes.                                                           *)
(***************************************************************************)
EXTENDS Workers

CONSTANTS e1, e2, e3, s1

InOrder ==
    /\ at[e2] # "idle" => at[e1] # "idle"
    /\ at[e3] # "idle" => at[e2] # "idle"
BesideStop    == at[e3] = "idle" /\ faults + crashes <= 1
TwoFaults ==
    at[e3] = "idle" /\ at[s1] = "idle" /\ cancelled = {} /\ crashes <= 1
ThreeLaunches == at[s1] = "idle" /\ cancelled = {} /\ faults = 0
SmallSessions == InOrder /\ (BesideStop \/ TwoFaults \/ ThreeLaunches)
=============================================================================
