-------------------------- MODULE MCAdmissionGate --------------------------
(***************************************************************************)
(* A small instance of AdmissionGate: three messages to two sessions.      *)
(***************************************************************************)
EXTENDS AdmissionGate
=============================================================================
