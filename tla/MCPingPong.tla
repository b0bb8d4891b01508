----------------------------- MODULE MCPingPong -----------------------------
(* Finite constants for PingPong. *)
EXTENDS PingPong

MCIntMin == -1
MCDelay == [s \in Names |-> 1]

=============================================================================
