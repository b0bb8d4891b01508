------------------------------ MODULE MCShells ------------------------------
(* Finite constants for Shells. *)
EXTENDS Shells

MCIntMin == -1
MCNap == [p \in Shell |-> 1]

=============================================================================
