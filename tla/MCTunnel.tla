------------------------------ MODULE MCTunnel --------------------------------
(* Tunnel for TLC: the bounds are in the configurations.                     *)
EXTENDS Tunnel
===============================================================================
