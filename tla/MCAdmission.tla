---------------------------- MODULE MCAdmission ----------------------------
(* Instances of Admission for TLC. *)
EXTENDS Admission

CONSTANTS peer, alice, r1, r2
=============================================================================
