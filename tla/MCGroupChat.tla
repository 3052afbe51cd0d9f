----------------------------- MODULE MCGroupChat -----------------------------
(* Instances of GroupChat for TLC. *)
EXTENDS GroupInv, TLC

CONSTANTS u1, u2, u3, p1, p2

Swap == Permutations({u1, u2, u3}) \cup Permutations({p1, p2})
=============================================================================
