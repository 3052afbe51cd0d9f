----------------------------- MODULE MCAccounts -----------------------------
(* Instances of Accounts for TLC.                                          *)
EXTENDS AccountsInv, TLC

CONSTANTS p1, p2, ph1, ph2, ph3, pw1, pw2

\* Two users; a third number is free.
TwoUsers == 1 :> [phone |-> ph1, password |-> pw1] @@ 2 :> [phone |-> ph2, password |-> pw1]

Alike == Permutations({p1, p2})
=============================================================================
