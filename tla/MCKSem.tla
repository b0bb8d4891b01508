------------------------------- MODULE MCKSem -------------------------------
(* Finite constants for KSem. *)
EXTENDS KSem

MCIntMin == -2
MCValues == {-1, 1, 2}

=============================================================================
