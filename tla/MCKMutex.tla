------------------------------ MODULE MCKMutex ------------------------------
(* Finite constants for KMutex. *)
EXTENDS KMutex

MCIntMin == -2

=============================================================================
