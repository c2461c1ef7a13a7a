------------------------------ MODULE MCWsServer ------------------------------
(* Instances of WsServer for TLC. *)
EXTENDS WsServer, TLC

Symmetry == Permutations(Clients)
=============================================================================
