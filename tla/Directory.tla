------------------------------ MODULE Directory ------------------------------
(***************************************************************************)
(* What the HTTP interface promises its users: one account for a phone     *)
(* number, which nobody changes; a session only for who gave the number    *)
(* and the password of an account; friendships between two accounts.       *)
(***************************************************************************)
VARIABLES accounts,     \* accounts: records [user, phone, password]
          sessions,     \* the accounts that sessions were opened for
          friendships   \* sets of two users

vars == <<accounts, sessions, friendships>>

Free(a) == \A b \in accounts : a.user # b.user /\ a.phone # b.phone

Init == sessions \subseteq accounts /\ friendships = {}

SignUp(a) ==
  /\ Free(a) /\ accounts' = accounts \cup {a}
  /\ UNCHANGED <<sessions, friendships>>

Open(a) ==
  /\ sessions' = sessions \cup {a}
  /\ UNCHANGED <<accounts, friendships>>

Close(a) ==
  /\ sessions' = sessions \ {a}
  /\ UNCHANGED <<accounts, friendships>>

Befriend(a, b) ==
  /\ a # b /\ friendships' = friendships \cup {{a.user, b.user}}
  /\ UNCHANGED <<accounts, sessions>>

Next ==
  \/ \E a \in accounts' : SignUp(a)
  \/ \E a \in accounts : Open(a) \/ Close(a)
  \/ \E a, b \in accounts : Befriend(a, b)

Spec == Init /\ [][Next]_vars
=============================================================================
