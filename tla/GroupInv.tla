------------------------------ MODULE GroupInv ------------------------------
(* The inductive invariant behind the safety properties of GroupChat.       *)
EXTENDS GroupChat

\* A request has a user from its start, who is among the members to be while
\* a group is created, and a group once there is one.
WithGroup == {"belongs", "smembers", "pluck", "sadd", "expire", "check", "numbers",
              "publish", "push"}
RequestOf(p) ==
  /\ pc[p] # "idle" => user[p] \in User
  /\ pc[p] \in {"lookup", "insert"} => user[p] \in ids[p]
  /\ pc[p] = "insert" => ids[p] \subseteq User
  /\ pc[p] \in WithGroup => group[p] \in Group
RequestInv == \A p \in Proc : RequestOf(p)

\* What a process has read of a group it may write to the cache: nothing, or
\* all the members, who never change.
ReadOf(p) ==
  /\ pc[p] = "sadd" => ids[p] \in {{}, members[group[p]]}
  /\ pc[p] \in {"expire", "check"} => ids[p] # {} /\ ids[p] = members[group[p]]
ReadInv == \A p \in Proc : ReadOf(p)

\* Numbers that were given out are positive and not above the counter.
NumberInv ==
  /\ \A p \in Proc : \A u \in Waiting(p) : nums[p][u] \in 1 .. counter[u]
  /\ \A r \in published : r.num <= counter[r.user]

\* Every step keeps this; the safety properties are parts of it.
GInv == /\ TypeOK /\ RequestInv /\ ReadInv /\ CacheIsTable /\ WholeAudience
        /\ NumberInv /\ NumbersFresh
=============================================================================
