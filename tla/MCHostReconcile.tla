--------------------------- MODULE MCHostReconcile ---------------------------
(***************************************************************************)
(* A machine on one of two LANs, on two at once, or behind a VPN, and a    *)
(* scanner whose channel holds one line.                                   *)
(***************************************************************************)
EXTENDS HostReconcile

CONSTANTS a1, a2, t1

MCNet ==
    {[device |-> "lan", addrs |-> {a1}], [device |-> "lan", addrs |-> {a2}],
     [device |-> "lan", addrs |-> {a1, a2}], [device |-> "tunnel", addrs |-> {t1}]}
=============================================================================
