---------------------------- MODULE AccountsInv ----------------------------
(* The inductive invariant behind the safety properties of Accounts.       *)
EXTENDS Accounts

\* Every id that was used up, and every row of table friend, goes back to a
\* request of its own; these have theirs still to come.
Registering == {p \in Proc : pc[p] \in {"count", "insert"}}
Asks(p, u, f) == /\ pc[p] \in {"exists", "check", "befriend"}
                 /\ req[p].user = u /\ req[p].friend = f
Befriending(u, f) == {p \in Proc : Asks(p, u, f)}
IdsCounted == nextId + Cardinality(Registering) <= Given + 1 + reqs
RowsCounted == \A u, f \in UserId :
  friends[<<u, f>>] + Cardinality(Befriending(u, f)) <= reqs

\* A token, and a request that is to get one, stand for an account as it is.
TokensStand ==
  /\ tokens \subseteq AccountRows
  /\ \A p \in Proc : pc[p] = "token" => req[p] \in AccountRows

OneAccount == \A u, v \in DOMAIN users : users[u].phone = users[v].phone => u = v

\* Nobody is his own friend, and friends are users.
NotOneself == \A p \in Proc :
  pc[p] \in {"exists", "check", "befriend"} => req[p].user # req[p].friend
FriendsAreUsers == \A u, f \in UserId :
  friends[<<u, f>>] > 0 => u # f /\ u \in DOMAIN users /\ f \in DOMAIN users

\* FriendRowsBounded, for ids that nobody has yet as well.
RowsBounded == \A u, f \in UserId : u < f =>
  friends[<<u, f>>] + friends[<<f, u>>] + Cardinality(Storing(u, f)) <= Cardinality(Proc)

\* Every step keeps this.
AInv == /\ TypeOK /\ IdsCounted /\ RowsCounted /\ TokensStand /\ OneAccount
        /\ NotOneself /\ FriendsAreUsers /\ RowsBounded
=============================================================================
