---------------------------- MODULE NetworkResetMC ----------------------------
(***************************************************************************)
(* NetworkReset for TLC: an Ethernet and a CAN interface, of which the      *)
(* second may have the .network file of the first.                         *)
(***************************************************************************)
EXTENDS NetworkReset

CONSTANTS eth, can, a, b

MCNetworkFiles == [i \in Interfaces |-> IF i = eth THEN {a} ELSE {a, b}]
=============================================================================
