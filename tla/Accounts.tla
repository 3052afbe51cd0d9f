------------------------------ MODULE Accounts ------------------------------
(***************************************************************************)
(* Accounts and friends: the HTTP handlers of service/user.go and          *)
(* service/friend.go over the tables user and friend.                      *)
(*                                                                         *)
(*   RegisterHandler    count, insert, token                               *)
(*   LoginHandler       find, token                                        *)
(*   AddFriendHandler   behind AuthCheck: exists, check, befriend          *)
(*                                                                         *)
(* Gin serves every request in a goroutine of its own; each query is a     *)
(* statement of its own, no handler opens a transaction.  A password       *)
(* stands for its MD5, a token for the user id signed into it, together    *)
(* with what the one who got it had to show for it.                        *)
(***************************************************************************)
EXTENDS Naturals, FiniteSets

CONSTANTS
  Proc,        \* goroutines that serve requests
  Phone, Password,
  Registered,  \* the rows of table user at the start, by id
  MaxReqs,     \* how many requests arrive (bound)
  MaxFaults    \* how many calls fail, or processes end under a request (bound)

Row == [phone : Phone, password : Password]

ASSUME AccountsAssumption ==
  /\ IsFiniteSet(Proc)
  /\ MaxReqs \in Nat /\ MaxFaults \in Nat
  /\ IsFiniteSet(DOMAIN Registered)
  /\ Registered \in [1 .. Cardinality(DOMAIN Registered) -> Row]
  /\ \A u, v \in DOMAIN Registered :
       Registered[u].phone = Registered[v].phone => u = v

VARIABLES
  users,     \* table user, by id
  nextId,    \* its auto_increment
  friends,   \* table friend: how many rows there are with a user and a friend
  tokens,    \* tokens that were handed out and have not expired
  pc, req,   \* where each goroutine is, and the request it serves
  reqs, faults

dbVars == <<users, nextId, friends, tokens>>
vars == <<dbVars, pc, req, reqs, faults>>

Given == Cardinality(DOMAIN Registered)
UserId == 1 .. Given + MaxReqs
Pair == UserId \X UserId
NoReq == [phone |-> 0]
TokenOf(u) == [user |-> u, phone |-> users[u].phone, password |-> users[u].password]

Init ==
  /\ users = Registered /\ nextId = Given + 1
  /\ friends = [p \in Pair |-> 0]
  /\ tokens = {TokenOf(u) : u \in DOMAIN Registered}
  /\ pc = [p \in Proc |-> "idle"] /\ req = [p \in Proc |-> NoReq]
  /\ reqs = 0 /\ faults = 0

At(p, where) == pc[p] = where
Fault == faults < MaxFaults /\ faults' = faults + 1
GoTo(p, where) == pc' = [pc EXCEPT ![p] = where] /\ UNCHANGED req
Answer(p) == pc' = [pc EXCEPT ![p] = "idle"] /\ req' = [req EXCEPT ![p] = NoReq]

(* After a statement that changed a table: its answer may be lost.         *)
Then(p, where) == \/ GoTo(p, where) /\ UNCHANGED faults
                  \/ Answer(p) /\ Fault

(* A call that fails ends the request with an error.                       *)
CallFails(p) ==
  /\ ~At(p, "idle") /\ Answer(p) /\ Fault
  /\ UNCHANGED <<dbVars, reqs>>

Begin(p, where, r) ==
  /\ At(p, "idle") /\ reqs < MaxReqs /\ reqs' = reqs + 1
  /\ pc' = [pc EXCEPT ![p] = where] /\ req' = [req EXCEPT ![p] = r]
  /\ UNCHANGED <<dbVars, faults>>

-----------------------------------------------------------------------------
(* Register and Login                                                      *)

(* Requests without a number or a password are refused at once.            *)
Register(p) == \E r \in Row : Begin(p, "count", r)
Login(p) == \E r \in Row : Begin(p, "find", r)

Having(ph) == {u \in DOMAIN users : users[u].phone = ph}

CountByPhone(p) ==
  /\ At(p, "count")
  /\ IF Having(req[p].phone) = {} THEN GoTo(p, "insert") ELSE Answer(p)
  /\ UNCHANGED <<dbVars, reqs, faults>>

\* Fault seeded by the mutants: there is no unique index.
AnyRow(ph) == TRUE

UniquePhone(ph) == Having(ph) = {}

Put(f, x, v) == [y \in DOMAIN f \cup {x} |-> IF y = x THEN v ELSE f[y]]

(* The unique index on the number refuses the insert of a request that     *)
(* lost a race; the id it was to have is used up.                          *)
CreateUser(p) ==
  /\ At(p, "insert") /\ nextId' = nextId + 1
  /\ IF UniquePhone(req[p].phone)
       THEN /\ users' = Put(users, nextId, [phone |-> req[p].phone, password |-> req[p].password])
            /\ \/ /\ pc' = [pc EXCEPT ![p] = "token"]
                  /\ req' = [req EXCEPT ![p] = Put(@, "user", nextId)]
                  /\ UNCHANGED faults
               \/ Answer(p) /\ Fault
       ELSE Answer(p) /\ UNCHANGED <<users, faults>>
  /\ UNCHANGED <<friends, tokens, reqs>>

\* Fault seeded by the mutants: the password is not asked for.
ByPhone(u, r) == users[u].phone = r.phone

Matches(u, r) == users[u].phone = r.phone /\ users[u].password = r.password

FindUser(p) ==
  /\ At(p, "find")
  /\ \/ ~(\E u \in DOMAIN users : Matches(u, req[p])) /\ Answer(p)
     \/ \E u \in DOMAIN users :
          /\ Matches(u, req[p]) /\ \A v \in DOMAIN users : Matches(v, req[p]) => u <= v
          /\ pc' = [pc EXCEPT ![p] = "token"]
          /\ req' = [req EXCEPT ![p] = Put(@, "user", u)]
  /\ UNCHANGED <<dbVars, reqs, faults>>

GenerateToken(p) ==
  /\ At(p, "token") /\ Answer(p)
  /\ tokens' = tokens \cup {req[p]}
  /\ UNCHANGED <<users, nextId, friends, reqs, faults>>

TokenExpires(t) ==
  /\ tokens' = tokens \ {t}
  /\ UNCHANGED <<users, nextId, friends, pc, req, reqs, faults>>

-----------------------------------------------------------------------------
(* AddFriend                                                               *)

(* A request whose token does not parse, that names no friend, or the      *)
(* user himself, is refused at once.                                       *)
AddFriend(p) == \E t \in tokens, f \in UserId :
  t.user # f /\ Begin(p, "exists", [user |-> t.user, friend |-> f])

\* Fault seeded by the mutants: whatever id is named is taken.
AnyId(f) == TRUE

IsUser(f) == f \in DOMAIN users

GetUserById(p) ==
  /\ At(p, "exists")
  /\ IF IsUser(req[p].friend) THEN GoTo(p, "check") ELSE Answer(p)
  /\ UNCHANGED <<dbVars, reqs, faults>>

\* Fault seeded by the mutants: the friendship is looked up one way only.
AddedBefore(u, f) == friends[<<u, f>>] > 0

IsFriend(u, f) == friends[<<u, f>>] > 0 \/ friends[<<f, u>>] > 0

CheckFriend(p) ==
  /\ At(p, "check")
  /\ IF IsFriend(req[p].user, req[p].friend) THEN Answer(p) ELSE GoTo(p, "befriend")
  /\ UNCHANGED <<dbVars, reqs, faults>>

(* No index keeps a pair from being stored again.                          *)
CreateFriend(p) ==
  /\ At(p, "befriend") /\ Answer(p)
  /\ friends' = [friends EXCEPT ![<<req[p].user, req[p].friend>>] = @ + 1]
  /\ UNCHANGED <<users, nextId, tokens, reqs>>
  /\ UNCHANGED faults \/ Fault

-----------------------------------------------------------------------------
Arrive(p) == Register(p) \/ Login(p) \/ AddFriend(p)
Serve(p) ==
  \/ CountByPhone(p) \/ CreateUser(p) \/ FindUser(p) \/ GenerateToken(p)
  \/ GetUserById(p) \/ CheckFriend(p) \/ CreateFriend(p)

Next ==
  \/ \E p \in Proc : Arrive(p) \/ Serve(p) \/ CallFails(p)
  \/ \E t \in tokens : TokenExpires(t)

Spec == Init /\ [][Next]_vars

-----------------------------------------------------------------------------
(* Properties *)

Token == [user : DOMAIN users, phone : Phone, password : Password]
Serving(where) ==
  CASE where = "idle" -> {NoReq}
    [] where \in {"count", "insert", "find"} -> Row
    [] where = "token" -> Token
    [] where = "exists" -> [user : DOMAIN users, friend : UserId]
    [] OTHER -> [user : DOMAIN users, friend : DOMAIN users]

TypeOK ==
  /\ DOMAIN users \subseteq 1 .. nextId - 1 /\ users \in [DOMAIN users -> Row]
  /\ nextId \in Given + 1 .. Given + 1 + reqs
  /\ friends \in [Pair -> 0 .. reqs] /\ tokens \subseteq Token
  /\ pc \in [Proc -> {"idle", "count", "insert", "find", "token", "exists", "check", "befriend"}]
  /\ DOMAIN req = Proc /\ \A p \in Proc : req[p] \in Serving(pc[p])
  /\ reqs \in 0 .. MaxReqs /\ faults \in 0 .. MaxFaults

(* A friendship is stored no more often than there are requests at once    *)
(* that found it missing: friend.go:41-62 looks for it, either way round,  *)
(* and inserts it in a second statement.                                   *)
Storing(u, f) == {p \in Proc : At(p, "befriend") /\ {req[p].user, req[p].friend} = {u, f}}
FriendRowsBounded ==
  \A u, f \in DOMAIN users : u < f =>
    friends[<<u, f>>] + friends[<<f, u>>] + Cardinality(Storing(u, f)) <= Cardinality(Proc)

(* Handlers that interleave, fail half way or lose an answer do no more    *)
(* than the abstract directory allows: registrations of one number that    *)
(* race yield one account, a token stands for an account whose number and  *)
(* password were given, friends are two different users (user.go:10-116,   *)
(* friend.go:11-74).                                                       *)
AccountRows == {TokenOf(u) : u \in DOMAIN users}
Friendships == {{q[1], q[2]} : q \in {q \in Pair : friends[q] > 0}}
D == INSTANCE Directory WITH accounts <- AccountRows, sessions <- tokens,
                             friendships <- Friendships
ImplementsDirectory == D!Spec
=============================================================================
