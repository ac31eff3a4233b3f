------------------------------ MODULE MCTunnel ------------------------------
(* Small instances of Tunnel for TLC: a tunnel that is used, others that only connect. *)
EXTENDS Tunnel

CONSTANTS t1, t2, a, b

OnlyFirst == [t \in Tunnels |-> IF t = t1 THEN 2 ELSE 0]
=============================================================================
