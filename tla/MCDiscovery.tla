---------------------------- MODULE MCDiscovery ----------------------------
(* Instances of Discovery for TLC.                                         *)
EXTENDS DiscoveryInv, TLC

CONSTANTS g1, g2

\* Both gateways come back once.
BothReturn == g1 :> 2 @@ g2 :> 2
=============================================================================
