---------------------------- MODULE MCObscuraTunnel ----------------------------
(* ObscuraTunnel for TLC: the bounds are in the configurations.               *)
EXTENDS ObscuraTunnel
===============================================================================
