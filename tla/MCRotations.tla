----------------------------- MODULE MCRotations -----------------------------
(* Instances of RotationOrder for TLC. *)
EXTENDS MCCredentials, RotationOrder
==============================================================================
