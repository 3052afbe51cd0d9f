------------------------------ MODULE GroupChat ------------------------------
(***************************************************************************)
(* Groups: creating one, listing its members, sending to it.               *)
(*                                                                         *)
(*   service/group.go, model/group.go, model/group_user.go                 *)
(*   model/cache/group_cache.go   the member set, cached in Redis for 2 h  *)
(*   service/ws/message.go        SendToGroup                              *)
(*                                                                         *)
(* The member set is read through the cache by HTTP handlers and by        *)
(* workers of the gateway, side by side.  A process here is a goroutine    *)
(* with one request at a time; what MessageHandler does before SendToGroup *)
(* is in Uplink.                                                           *)
(***************************************************************************)
EXTENDS Naturals, FiniteSets

CONSTANTS
  User,       \* registered users
  Ghost,      \* an id no user has, which a request may name
  Group,      \* group ids, taken from the auto-increment of the table
  NoGroup,    \* none of them
  Proc,       \* goroutines
  MaxReqs,    \* requests (bound)
  MaxFaults   \* failing calls to MySQL, Redis and Kafka (bound)

ASSUME GroupAssumption ==
  /\ Ghost \notin User /\ NoGroup \notin Group
  /\ MaxReqs \in Nat /\ MaxFaults \in Nat

VARIABLES
  members,    \* table group_user: the members of each group, {} if there is none
  cache,      \* Redis set group_user_<id>, {} if there is no key
  expires,    \* groups whose key has an expiry
  pc,         \* where each process is
  op, user, group, ids, \* its request: what, by whom, for which group, and the
              \* user ids in hand
  nums,       \* the sequence numbers it has drawn, for those ids
  counter,    \* Redis keys object_seq_1_<user>
  published,  \* rows in Kafka: [user, num, sender, group]
  reqs, faults,
  panicked    \* the gateway process has ended in a nil dereference

reqVars   == <<op, user, group, ids>>
chatVars  == <<nums, counter, published>>
cacheVars == <<cache, expires>>
vars == <<members, cacheVars, pc, reqVars, chatVars, reqs, faults, panicked>>

NoNums == [u \in User |-> 0]

Init ==
  /\ members = [g \in Group |-> {}]
  /\ cache = [g \in Group |-> {}] /\ expires = {}
  /\ pc = [p \in Proc |-> "idle"] /\ op = [p \in Proc |-> "none"]
  /\ user = [p \in Proc |-> Ghost] /\ group = [p \in Proc |-> NoGroup]
  /\ ids = [p \in Proc |-> {}]
  /\ nums = [p \in Proc |-> NoNums] /\ counter = NoNums /\ published = {}
  /\ reqs = 0 /\ faults = 0 /\ panicked = FALSE

At(p, where) == pc[p] = where /\ ~panicked
GoTo(p, where) == pc' = [pc EXCEPT ![p] = where]
Have(p, S) == ids' = [ids EXCEPT ![p] = S]

(* A call to MySQL, Redis or Kafka fails: every handler then answers with  *)
(* an error, and SendToGroup returns one.  The call had no effect, or only *)
(* its answer is lost.                                                     *)
Calling == {"lookup", "insert", "belongs", "smembers", "pluck", "sadd", "expire",
            "numbers", "publish"}
Fault == faults < MaxFaults /\ faults' = faults + 1
CallFails(p) ==
  /\ pc[p] \in Calling /\ ~panicked /\ Fault
  /\ GoTo(p, "idle")
  /\ UNCHANGED <<members, cacheVars, reqVars, chatVars, reqs, panicked>>
Then(p, where) == \/ GoTo(p, where) /\ UNCHANGED faults
                  \/ GoTo(p, "idle") /\ Fault

-----------------------------------------------------------------------------
(* A request arrives *)

Begin(p, kind, u, g, S, where) ==
  /\ At(p, "idle") /\ reqs < MaxReqs /\ reqs' = reqs + 1
  /\ op' = [op EXCEPT ![p] = kind] /\ user' = [user EXCEPT ![p] = u]
  /\ group' = [group EXCEPT ![p] = g] /\ Have(p, S)
  /\ GoTo(p, where)
  /\ UNCHANGED <<members, cacheVars, chatVars, faults, panicked>>

(* CreateGroupHandler adds the owner to the ids it is given.               *)
CreateGroup(p) ==
  \E u \in User, S \in SUBSET (User \cup {Ghost}) :
    S # {} /\ Begin(p, "create", u, NoGroup, S \cup {u}, "lookup")

GroupUserList(p) ==
  \E u \in User, g \in Group : Begin(p, "list", u, g, {}, "belongs")

SendToGroup(p) ==
  \E u \in User, g \in Group : Begin(p, "send", u, g, {}, "smembers")

-----------------------------------------------------------------------------
(* CreateGroupHandler *)

\* Fault seeded by the mutants: the ids are taken as they were given.
Given(p) == ids[p]

(* GetUserIdByIds drops the ids no user has.                               *)
Known(p) == ids[p] \cap User

LookUpIds(p) ==
  /\ At(p, "lookup") /\ Have(p, Known(p)) /\ GoTo(p, "insert")
  /\ UNCHANGED <<members, cacheVars, op, user, group, chatVars, reqs, faults, panicked>>

\* Fault seeded by the mutants: the error of the transaction is forgotten.
Unchecked(p, g) == members' \in {members, [members EXCEPT ![g] = ids[p]]}

(* model.CreateGroup: the group and its members, in one transaction.       *)
Stores(p, g) == members' = [members EXCEPT ![g] = ids[p]]

Insert(p) ==
  /\ At(p, "insert") /\ Then(p, "sadd")
  /\ \E g \in Group :
       /\ members[g] = {} /\ Stores(p, g)
       /\ group' = [group EXCEPT ![p] = g]
  /\ UNCHANGED <<cacheVars, op, user, ids, chatVars, reqs, panicked>>

-----------------------------------------------------------------------------
(* GetGroupUser, for GroupUserList and SendToGroup, and SetGroupUser *)

(* GroupUserList asks the table, not the cache, whether it may answer.     *)
Belongs(p) ==
  /\ At(p, "belongs")
  /\ GoTo(p, IF user[p] \in members[group[p]] THEN "smembers" ELSE "idle")
  /\ UNCHANGED <<members, cacheVars, reqVars, chatVars, reqs, faults, panicked>>

Answer(p) == IF op[p] = "send" THEN "check" ELSE "idle"

ReadCache(p) ==
  /\ At(p, "smembers") /\ Have(p, cache[group[p]])
  /\ GoTo(p, IF cache[group[p]] = {} THEN "pluck" ELSE Answer(p))
  /\ UNCHANGED <<members, cacheVars, op, user, group, chatVars, reqs, faults, panicked>>

ReadTable(p) ==
  /\ At(p, "pluck") /\ Have(p, members[group[p]]) /\ GoTo(p, "sadd")
  /\ UNCHANGED <<members, cacheVars, op, user, group, chatVars, reqs, faults, panicked>>

(* SADD with no member is an error: that is how a request for a group that *)
(* does not exist ends.                                                    *)
FillCache(p) ==
  /\ At(p, "sadd")
  /\ cache' = [cache EXCEPT ![group[p]] = @ \cup ids[p]]
  /\ Then(p, IF ids[p] = {} THEN "idle" ELSE "expire")
  /\ UNCHANGED <<members, expires, reqVars, chatVars, reqs, panicked>>

SetExpiry(p) ==
  /\ At(p, "expire")
  /\ expires' = IF cache[group[p]] = {} THEN expires ELSE expires \cup {group[p]}
  /\ Then(p, Answer(p))
  /\ UNCHANGED <<members, cache, reqVars, chatVars, reqs, panicked>>

KeyExpires(g) ==
  /\ g \in expires /\ expires' = expires \ {g}
  /\ cache' = [cache EXCEPT ![g] = {}]
  /\ UNCHANGED <<members, pc, reqVars, chatVars, reqs, faults, panicked>>

-----------------------------------------------------------------------------
(* SendToGroup *)

\* Fault seeded by the mutants: whoever knows the group may send to it.
Anyone(p) == TRUE

IsMember(p) == user[p] \in ids[p]

(* Senders who are not members are turned away, without an error; the      *)
(* sender himself gets no copy.                                            *)
CheckMember(p) ==
  /\ At(p, "check") /\ Have(p, ids[p] \ {user[p]})
  /\ GoTo(p, IF IsMember(p) THEN "numbers" ELSE "idle")
  /\ UNCHANGED <<members, cacheVars, op, user, group, chatVars, reqs, faults, panicked>>

\* Fault seeded by the mutants: numbers are read and not counted up.
Peek(p) == UNCHANGED counter

CountUp(p) == counter' = [u \in User |-> IF u \in ids[p] THEN counter[u] + 1 ELSE counter[u]]

(* GetUserNextSeqBatch: a number for every receiver, in one script.        *)
DrawNumbers(p) ==
  /\ At(p, "numbers") /\ Then(p, "publish")
  /\ nums' = [nums EXCEPT ![p] =
                [u \in User |-> IF u \in ids[p] THEN counter[u] + 1 ELSE 0]]
  /\ CountUp(p)
  /\ UNCHANGED <<members, cacheVars, reqVars, published, reqs, panicked>>

Rows(p) ==
  {[user |-> u, num |-> nums[p][u], sender |-> user[p], group |-> group[p]] : u \in ids[p]}

\* Fault seeded by the mutants: nobody looks at the error of the publication.
PublishUnchecked(p) ==
  /\ At(p, "publish") /\ GoTo(p, "push")
  /\ published' \in {published, published \cup Rows(p)}
  /\ UNCHANGED <<members, cacheVars, reqVars, nums, counter, reqs, faults, panicked>>

(* One Kafka message with a row for every receiver, none if there is none. *)
Publish(p) ==
  /\ At(p, "publish") /\ Then(p, "push")
  /\ published' = published \cup Rows(p)
  /\ UNCHANGED <<members, cacheVars, reqVars, nums, counter, reqs, panicked>>

(* The push asks etcd.DiscoverySer for the gateways.  etcd.Start assigns   *)
(* its Discovery to a local variable of that name, the global one stays    *)
(* nil, GetServices dereferences it, and no worker recovers from a panic.  *)
PushAll(p) ==
  /\ At(p, "push") /\ panicked' = TRUE
  /\ UNCHANGED <<members, cacheVars, pc, reqVars, chatVars, reqs, faults>>

-----------------------------------------------------------------------------
Request(p) == CreateGroup(p) \/ GroupUserList(p) \/ SendToGroup(p)
Handle(p) ==
  \/ LookUpIds(p) \/ Insert(p)
  \/ Belongs(p) \/ ReadCache(p) \/ ReadTable(p) \/ FillCache(p) \/ SetExpiry(p)
  \/ CheckMember(p) \/ DrawNumbers(p) \/ Publish(p) \/ PushAll(p)

Next ==
  \/ \E p \in Proc : Request(p) \/ Handle(p) \/ CallFails(p)
  \/ \E g \in Group : KeyExpires(g)

Spec == Init /\ [][Next]_vars

-----------------------------------------------------------------------------
(* Properties *)

TypeOK ==
  /\ members \in [Group -> SUBSET User]
  /\ cache \in [Group -> SUBSET User] /\ expires \subseteq {g \in Group : cache[g] # {}}
  /\ pc \in [Proc -> {"idle", "lookup", "insert", "belongs", "smembers", "pluck", "sadd",
                      "expire", "check", "numbers", "publish", "push"}]
  /\ op \in [Proc -> {"none", "create", "list", "send"}]
  /\ user \in [Proc -> User \cup {Ghost}] /\ group \in [Proc -> Group \cup {NoGroup}]
  /\ ids \in [Proc -> SUBSET (User \cup {Ghost})]
  /\ nums \in [Proc -> [User -> Nat]] /\ counter \in [User -> Nat]
  /\ published \subseteq [user : User, num : Nat \ {0}, sender : User, group : Group]
  /\ reqs \in 0 .. MaxReqs /\ faults \in 0 .. MaxFaults /\ panicked \in BOOLEAN

(* The cached member set is the one in the table or there is none, however *)
(* creators, readers that found no key and expiry overlap                  *)
(* (group.go:46-55, 129-148).                                              *)
CacheIsTable == \A g \in Group : cache[g] \in {{}, members[g]}

(* A group message goes to every member but its sender and to nobody else, *)
(* and is from a member, even when the cached set is filled or expires     *)
(* meanwhile (message.go:140-167).                                         *)
WholeAudience ==
  \A p \in Proc : pc[p] \in {"numbers", "publish", "push"} =>
    /\ user[p] \in members[group[p]]
    /\ ids[p] = members[group[p]] \ {user[p]}

(* No number is given to two messages for one user: the numbers waiting to *)
(* be published are new, and differ between workers (seq_cache.go:34-40).  *)
Waiting(p) == IF pc[p] = "publish" THEN ids[p] ELSE {}
NumbersFresh ==
  \A p \in Proc : \A u \in Waiting(p) :
    /\ \A r \in published : r.user = u => r.num # nums[p][u]
    /\ \A q \in Proc \ {p} : u \in Waiting(q) => nums[p][u] # nums[q][u]

(* When a message is pushed every member but its sender has a row of it,   *)
(* under the number the push carries: a push that goes wrong, or a process *)
(* that ends in it, loses nothing (message.go:166-215).                    *)
StoredBeforePush ==
  \A p \in Proc : pc[p] = "push" => \A u \in members[group[p]] \ {user[p]} :
    \E r \in published : /\ r.user = u /\ r.num = nums[p][u]
                         /\ r.sender = user[p] /\ r.group = group[p]
=============================================================================
