----------------------------- MODULE MCGateway -----------------------------
(* Instances of Gateway for TLC.                                           *)
EXTENDS GatewayOrder, GatewayInv, TLC

CONSTANTS c1, c2, u1, u2, w1, w2

\* Every connection on a worker of its own, and all of them on one.
Spread == [c \in Conn |-> IF c = c1 THEN w1 ELSE w2]
Shared == [c \in Conn |-> w1]

\* Users can be swapped; so can the connections, together with their workers,
\* as that maps Spread to itself; and both at once.
SwapUsers == Permutations(User)
SwapBoth == {f @@ (c1 :> c1 @@ c2 :> c2 @@ w1 :> w1 @@ w2 :> w2) : f \in SwapUsers}
              \cup {f @@ (c1 :> c2 @@ c2 :> c1 @@ w1 :> w2 @@ w2 :> w1) : f \in SwapUsers}
=============================================================================
