--------------------------- MODULE AccountsProofs ---------------------------
(***************************************************************************)
(* Proofs that Accounts keeps its safety properties, and implements the    *)
(* abstract Directory, for every number of goroutines, numbers, passwords, *)
(* requests and failures.                                                  *)
(***************************************************************************)
EXTENDS AccountsInv, FiniteSetTheorems, TLAPS

\* The places of a goroutine.
Place == {"idle", "count", "insert", "find", "token", "exists", "check", "befriend"}

-----------------------------------------------------------------------------
(* Facts about the operators of the model.                                 *)

LEMMA GivenFacts == Given \in Nat /\ DOMAIN Registered = 1 .. Given
BY AccountsAssumption, FS_CardinalityType DEF Given

LEMMA Countable ==
  ASSUME NEW S \in SUBSET Proc
  PROVE  /\ Cardinality(S) \in Nat /\ Cardinality(Proc) \in Nat
         /\ Cardinality(S) <= Cardinality(Proc)
BY AccountsAssumption, FS_Subset, FS_CardinalityType

\* A set of goroutines that one joins, or leaves, or neither.
LEMMA Counting ==
  ASSUME NEW S \in SUBSET Proc, NEW T \in SUBSET Proc, NEW p \in Proc
  PROVE  /\ Cardinality(S) \in Nat /\ Cardinality(T) \in Nat
         /\ Cardinality(S) <= Cardinality(Proc) /\ Cardinality(Proc) \in Nat
         /\ T \subseteq S => Cardinality(T) <= Cardinality(S)
         /\ T \subseteq S \cup {p} => Cardinality(T) <= Cardinality(S) + 1
         /\ p \in S /\ T \subseteq S \ {p} => Cardinality(T) + 1 <= Cardinality(S)
<1>1. IsFiniteSet(Proc)
  BY AccountsAssumption
<1>2. IsFiniteSet(S) /\ IsFiniteSet(T) /\ Cardinality(S) <= Cardinality(Proc)
  BY <1>1, FS_Subset
<1>3. Cardinality(S) \in Nat /\ Cardinality(T) \in Nat /\ Cardinality(Proc) \in Nat
  BY <1>1, <1>2, FS_CardinalityType
<1>4. T \subseteq S => Cardinality(T) <= Cardinality(S)
  BY <1>2, FS_Subset
<1>5. ASSUME T \subseteq S \cup {p} PROVE Cardinality(T) <= Cardinality(S) + 1
  <2>1. /\ IsFiniteSet(S \cup {p})
        /\ Cardinality(S \cup {p}) = IF p \in S THEN Cardinality(S) ELSE Cardinality(S) + 1
    BY <1>2, FS_AddElement
  <2>2. Cardinality(T) <= Cardinality(S \cup {p})
    BY <1>5, <2>1, FS_Subset
  <2> QED BY <1>3, <2>1, <2>2
<1>6. ASSUME p \in S, T \subseteq S \ {p} PROVE Cardinality(T) + 1 <= Cardinality(S)
  <2>1. IsFiniteSet(S \ {p}) /\ Cardinality(S \ {p}) = Cardinality(S) - 1
    BY <1>2, <1>6, FS_RemoveElement
  <2>2. Cardinality(T) <= Cardinality(S \ {p})
    BY <1>6, <2>1, FS_Subset
  <2> QED BY <1>3, <2>1, <2>2
<1> QED BY <1>2, <1>3, <1>4, <1>5, <1>6

LEMMA NobodyCounts == Cardinality({}) = 0
BY FS_EmptySet

\* What a row gains when it gets an id.
LEMMA PutUser ==
  ASSUME NEW r \in Row, NEW u
  PROVE  Put(r, "user", u) = [user |-> u, phone |-> r.phone, password |-> r.password]
BY DEF Put, Row

\* A new row goes to a new id, and the others stay.
LEMMA PutRow ==
  ASSUME NEW x, x \notin DOMAIN users, NEW r \in Row, users \in [DOMAIN users -> Row],
         users' = Put(users, x, r)
  PROVE  /\ DOMAIN users' = DOMAIN users \cup {x} /\ users' \in [DOMAIN users' -> Row]
         /\ users'[x] = r /\ \A u \in DOMAIN users : users'[u] = users[u]
BY DEF Put

\* The ids in use are ids of the model, and the next one is not in use.
LEMMA IdFacts ==
  ASSUME AInv
  PROVE  /\ DOMAIN users \subseteq UserId /\ nextId \notin DOMAIN users
         /\ nextId \in Nat /\ reqs \in Nat /\ reqs <= MaxReqs
         /\ UserId \subseteq Nat
         /\ \A p \in Proc : pc[p] \in {"count", "insert"} => nextId \in UserId
<1>1. /\ nextId \in Given + 1 .. Given + 1 + reqs /\ reqs \in 0 .. MaxReqs
      /\ DOMAIN users \subseteq 1 .. nextId - 1
  BY DEF AInv, TypeOK
<1>2. \A p \in Proc : pc[p] \in {"count", "insert"} => Cardinality(Registering) >= 1
  <2> SUFFICES ASSUME NEW p \in Proc, pc[p] \in {"count", "insert"}
               PROVE  Cardinality(Registering) >= 1
    OBVIOUS
  <2>1. p \in Registering /\ {} \subseteq Registering \ {p} /\ Registering \subseteq Proc
    BY DEF Registering
  <2> QED BY <2>1, Counting, NobodyCounts
<1>3. nextId + Cardinality(Registering) <= Given + 1 + reqs /\ Cardinality(Registering) \in Nat
  BY Countable DEF AInv, IdsCounted, Registering
<1>4. MaxReqs \in Nat
  BY AccountsAssumption
<1> QED BY <1>1, <1>2, <1>3, <1>4, GivenFacts DEF UserId

-----------------------------------------------------------------------------
(* The invariant.                                                          *)

\* The initial states have it.
LEMMA InitHolds == Init => AInv
<1> SUFFICES ASSUME Init PROVE AInv
  OBVIOUS
<1>1. /\ Registered \in [1 .. Given -> Row] /\ Given \in Nat /\ users = Registered
      /\ nextId = Given + 1 /\ DOMAIN users = 1 .. Given
  BY AccountsAssumption, GivenFacts DEF Init, Given
<1>2. \A u, f \in UserId : friends[<<u, f>>] = 0
  BY DEF Init, Pair
<1>3. \A p \in Proc : pc[p] = "idle" /\ req[p] = NoReq
  BY DEF Init
<1>4. Cardinality(Proc) \in Nat
  BY Countable
<1>5. TypeOK
  <2>1. users \in [DOMAIN users -> Row] /\ DOMAIN users \subseteq 1 .. nextId - 1
    BY <1>1
  <2>2. tokens \subseteq Token
    BY <1>1 DEF Init, Token, TokenOf, Row
  <2>3. \A p \in Proc : req[p] \in Serving(pc[p])
    BY <1>3 DEF Serving
  <2>4. friends \in [Pair -> 0 .. reqs] /\ reqs \in 0 .. MaxReqs /\ faults \in 0 .. MaxFaults
    BY AccountsAssumption DEF Init
  <2>5. nextId \in Given + 1 .. Given + 1 + reqs
    BY <1>1 DEF Init
  <2> QED BY <2>1, <2>2, <2>3, <2>4, <2>5 DEF Init, TypeOK
<1>6. IdsCounted
  <2>1. Registering = {}
    BY <1>3 DEF Registering
  <2> QED BY <1>1, <2>1, NobodyCounts DEF IdsCounted, Init
<1>7. RowsCounted
  <2>1. \A u, f \in UserId : Befriending(u, f) = {}
    BY <1>3 DEF Befriending, Asks
  <2>2. \A u, f \in UserId : Cardinality(Befriending(u, f)) = 0
    BY <2>1, NobodyCounts
  <2>3. reqs = 0
    BY DEF Init
  <2> SUFFICES ASSUME NEW u \in UserId, NEW f \in UserId
               PROVE  friends[<<u, f>>] + Cardinality(Befriending(u, f)) <= reqs
    BY DEF RowsCounted
  <2>4. friends[<<u, f>>] = 0 /\ Cardinality(Befriending(u, f)) = 0
    BY <1>2, <2>2
  <2> QED BY <2>3, <2>4
<1>8. RowsBounded
  <2>1. \A u, f \in UserId : Storing(u, f) = {}
    BY <1>3 DEF Storing, At
  <2> QED BY <1>2, <1>4, <2>1, NobodyCounts DEF RowsBounded
<1>9. TokensStand /\ OneAccount /\ NotOneself /\ FriendsAreUsers
  <2>1. TokensStand
    BY <1>1, <1>3 DEF TokensStand, AccountRows, Init
  <2>2. OneAccount
    BY <1>1, AccountsAssumption DEF OneAccount
  <2>3. NotOneself /\ FriendsAreUsers
    BY <1>2, <1>3 DEF NotOneself, FriendsAreUsers
  <2> QED BY <2>1, <2>2, <2>3
<1> QED BY <1>5, <1>6, <1>7, <1>8, <1>9 DEF AInv

\* What a request says where it is.
LEMMA ServingIs ==
  /\ Serving("idle") = {NoReq} /\ Serving("token") = Token
  /\ \A where \in {"count", "insert", "find"} : Serving(where) = Row
  /\ Serving("exists") = [user : DOMAIN users, friend : UserId]
  /\ \A where \in {"check", "befriend"} :
       Serving(where) = [user : DOMAIN users, friend : DOMAIN users]
BY DEF Serving

\* The request of one goroutine is now r, and no other changes.
Asked(p, r) == DOMAIN req' = Proc /\ \A q \in Proc : req'[q] = IF q = p THEN r ELSE req[q]

\* A goroutine goes on with what it has, or begins with a request, and no
\* table changes.
LEMMA Moves ==
  ASSUME AInv, NEW p \in Proc, NEW where \in Place, NEW r \in Serving(where),
         pc' = [pc EXCEPT ![p] = where], Asked(p, r),
         UNCHANGED dbVars, reqs' \in 0 .. MaxReqs, faults' \in 0 .. MaxFaults,
         \/ reqs' = reqs + 1
         \/ /\ reqs' = reqs
            /\ where \in {"count", "insert"} => pc[p] \in {"count", "insert"}
            /\ where \in {"exists", "check", "befriend"} =>
                 pc[p] \in {"exists", "check", "befriend"} /\ r = req[p],
         where = "token" => r \in AccountRows,
         where \in {"exists", "check", "befriend"} => r.user # r.friend,
         where = "befriend" => ~IsFriend(r.user, r.friend)
  PROVE  AInv'
<1>t. /\ pc \in [Proc -> Place] /\ DOMAIN req = Proc /\ pc' \in [Proc -> Place]
      /\ DOMAIN req' = Proc /\ reqs \in Nat /\ reqs' \in Nat /\ reqs <= reqs'
      /\ \A q \in Proc \ {p} : pc'[q] = pc[q] /\ req'[q] = req[q]
      /\ pc'[p] = where /\ req'[p] = r
  BY DEF AInv, TypeOK, Place, Asked
<1>u. UNCHANGED <<users, nextId, friends, tokens>>
  BY DEF dbVars
<1>1. TypeOK'
  <2>1. \A q \in Proc : (req[q] \in Serving(pc[q]))'
    BY <1>t, <1>u DEF AInv, TypeOK, Serving, Token
  <2>2. friends' \in [Pair -> 0 .. reqs']
    BY <1>t, <1>u DEF AInv, TypeOK
  <2>3. nextId' \in Given + 1 .. Given + 1 + reqs'
    BY <1>t, <1>u, GivenFacts DEF AInv, TypeOK
  <2>4. tokens' \subseteq Token'
    BY <1>u DEF AInv, TypeOK, Token
  <2> QED BY <1>t, <1>u, <2>1, <2>2, <2>3, <2>4 DEF AInv, TypeOK, Place
<1>2. IdsCounted'
  <2>1. Registering \in SUBSET Proc /\ Registering' \in SUBSET Proc
    BY DEF Registering
  <2>2. Cardinality(Registering') <= Cardinality(Registering) + (reqs' - reqs)
    <3>1. CASE reqs' = reqs + 1
      <4>1. Registering' \subseteq Registering \cup {p}
        BY <1>t DEF Registering
      <4> QED BY <1>t, <2>1, <3>1, <4>1, Counting
    <3>2. CASE reqs' # reqs + 1
      <4>1. Registering' \subseteq Registering
        BY <1>t, <3>2 DEF Registering
      <4> QED BY <1>t, <2>1, <3>2, <4>1, Counting
    <3> QED BY <3>1, <3>2
  <2>3. Cardinality(Registering) \in Nat /\ Cardinality(Registering') \in Nat
    BY <2>1, Countable
  <2>4. nextId + Cardinality(Registering) <= Given + 1 + reqs /\ nextId \in Nat
    BY IdFacts DEF AInv, IdsCounted
  <2>5. nextId + Cardinality(Registering') <= Given + 1 + reqs'
    BY <1>t, <2>2, <2>3, <2>4, GivenFacts
  <2> QED BY <1>u, <2>5 DEF IdsCounted
<1>3. RowsCounted'
  <2> SUFFICES ASSUME NEW u \in UserId, NEW f \in UserId
               PROVE  friends'[<<u, f>>] + Cardinality(Befriending(u, f)') <= reqs'
    BY DEF RowsCounted
  <2> DEFINE S == Befriending(u, f)
             T == Befriending(u, f)'
  <2>1. S \in SUBSET Proc /\ T \in SUBSET Proc
    BY DEF Befriending
  <2>2. Cardinality(T) <= Cardinality(S) + (reqs' - reqs)
    <3>1. CASE reqs' = reqs + 1
      <4>1. T \subseteq S \cup {p}
        BY <1>t DEF Befriending, Asks
      <4> QED BY <1>t, <2>1, <3>1, <4>1, Counting
    <3>2. CASE reqs' # reqs + 1
      <4>1. T \subseteq S
        BY <1>t, <3>2 DEF Befriending, Asks
      <4> QED BY <1>t, <2>1, <3>2, <4>1, Counting
    <3> QED BY <3>1, <3>2
  <2>3. Cardinality(S) \in Nat /\ Cardinality(T) \in Nat
    BY <2>1, Countable
  <2>4. friends[<<u, f>>] + Cardinality(S) <= reqs /\ friends[<<u, f>>] \in Nat
    BY DEF AInv, TypeOK, RowsCounted, Pair
  <2> QED BY <1>t, <1>u, <2>2, <2>3, <2>4
<1>4. RowsBounded'
  <2> SUFFICES ASSUME NEW u \in UserId, NEW f \in UserId, u < f
               PROVE  friends[<<u, f>>] + friends[<<f, u>>] + Cardinality(Storing(u, f)')
                        <= Cardinality(Proc)
    BY <1>u DEF RowsBounded
  <2> DEFINE S == Storing(u, f)
             T == Storing(u, f)'
  <2>1. S \in SUBSET Proc /\ T \in SUBSET Proc
    BY DEF Storing
  <2>2. Cardinality(S) \in Nat /\ Cardinality(T) \in Nat /\ Cardinality(T) <= Cardinality(Proc)
    BY <2>1, Countable
  <2>3. friends[<<u, f>>] \in Nat /\ friends[<<f, u>>] \in Nat
    BY DEF AInv, TypeOK, Pair
  <2>4. CASE p \in T /\ p \notin S
    <3>1. where = "befriend" /\ {r.user, r.friend} = {u, f}
      BY <1>t, <2>4 DEF Storing, At
    <3>2. friends[<<u, f>>] = 0 /\ friends[<<f, u>>] = 0
      BY <2>3, <3>1 DEF IsFriend
    <3> QED BY <2>2, <3>2
  <2>5. CASE ~(p \in T /\ p \notin S)
    <3>1. T \subseteq S
      BY <1>t, <2>5 DEF Storing, At
    <3>2. Cardinality(T) <= Cardinality(S)
      BY <2>1, <3>1, Counting
    <3>3. friends[<<u, f>>] + friends[<<f, u>>] + Cardinality(S) <= Cardinality(Proc)
      BY DEF AInv, RowsBounded
    <3>4. Cardinality(Proc) \in Nat
      BY <2>1, Countable
    <3> QED BY <2>2, <2>3, <3>2, <3>3, <3>4
  <2> QED BY <2>4, <2>5
<1>5. TokensStand'
  <2>1. AccountRows' = AccountRows
    BY <1>u DEF AccountRows, TokenOf
  <2> QED BY <1>t, <1>u, <2>1 DEF AInv, TokensStand
<1>6. OneAccount' /\ NotOneself' /\ FriendsAreUsers'
  BY <1>t, <1>u DEF AInv, OneAccount, NotOneself, FriendsAreUsers
<1> QED BY <1>1, <1>2, <1>3, <1>4, <1>5, <1>6 DEF AInv

\* A goroutine that goes where nobody makes friends changes nothing of them.
LEMMA FriendsKept ==
  ASSUME AInv, NEW p \in Proc, NEW where \in {"idle", "token"}, NEW r,
         pc' = [pc EXCEPT ![p] = where], Asked(p, r),
         UNCHANGED <<friends, reqs>>
  PROVE  RowsCounted' /\ RowsBounded' /\ NotOneself'
<1>t. /\ pc \in [Proc -> Place] /\ DOMAIN req = Proc
      /\ \A q \in Proc \ {p} : pc'[q] = pc[q] /\ req'[q] = req[q]
      /\ pc'[p] = where
  BY DEF AInv, TypeOK, Place, Asked
<1>1. ASSUME NEW u \in UserId, NEW f \in UserId
      PROVE  friends'[<<u, f>>] + Cardinality(Befriending(u, f)') <= reqs'
  <2>1. Befriending(u, f)' \subseteq Befriending(u, f) /\ Befriending(u, f) \subseteq Proc
    BY <1>t DEF Befriending, Asks
  <2>2. /\ Cardinality(Befriending(u, f)') <= Cardinality(Befriending(u, f))
        /\ Cardinality(Befriending(u, f)) \in Nat /\ Cardinality(Befriending(u, f)') \in Nat
    BY <2>1, Counting
  <2>3. friends[<<u, f>>] + Cardinality(Befriending(u, f)) <= reqs /\ reqs \in Nat
        /\ friends[<<u, f>>] \in Nat
    BY DEF AInv, TypeOK, RowsCounted, Pair
  <2> QED BY <2>2, <2>3
<1>2. ASSUME NEW u \in UserId, NEW f \in UserId, u < f
      PROVE  friends'[<<u, f>>] + friends'[<<f, u>>] + Cardinality(Storing(u, f)')
               <= Cardinality(Proc)
  <2>1. Storing(u, f)' \subseteq Storing(u, f) /\ Storing(u, f) \subseteq Proc
    BY <1>t DEF Storing, At
  <2>2. /\ Cardinality(Storing(u, f)') <= Cardinality(Storing(u, f))
        /\ Cardinality(Storing(u, f)) \in Nat /\ Cardinality(Storing(u, f)') \in Nat
        /\ Cardinality(Proc) \in Nat
    BY <2>1, Counting
  <2>3. friends[<<u, f>>] \in Nat /\ friends[<<f, u>>] \in Nat
    BY DEF AInv, TypeOK, Pair
  <2>4. friends[<<u, f>>] + friends[<<f, u>>] + Cardinality(Storing(u, f)) <= Cardinality(Proc)
    BY <1>2 DEF AInv, RowsBounded
  <2> QED BY <2>2, <2>3, <2>4
<1>3. NotOneself'
  BY <1>t DEF AInv, NotOneself
<1> QED BY <1>1, <1>2, <1>3 DEF RowsCounted, RowsBounded

-----------------------------------------------------------------------------
(* The steps.                                                              *)

\* A request that is answered, whatever the answer.
LEMMA AnswerKeeps ==
  ASSUME AInv, NEW p \in Proc, Answer(p), UNCHANGED <<dbVars, reqs>>,
         faults' \in 0 .. MaxFaults
  PROVE  AInv'
<1>1. pc' = [pc EXCEPT ![p] = "idle"] /\ Asked(p, NoReq) /\ reqs' \in 0 .. MaxReqs
  BY DEF Answer, Asked, AInv, TypeOK
<1>2. NoReq \in Serving("idle") /\ "idle" \in Place
  BY ServingIs DEF Place
<1> QED BY <1>1, <1>2, Moves

LEMMA CallFailsKeeps == ASSUME AInv, NEW p \in Proc, CallFails(p) PROVE AInv'
<1>1. Answer(p) /\ UNCHANGED <<dbVars, reqs>> /\ faults' \in 0 .. MaxFaults
  BY AccountsAssumption DEF CallFails, Fault, AInv, TypeOK
<1> QED BY <1>1, AnswerKeeps

\* A request that begins is counted.
LEMMA BeginKeeps ==
  ASSUME AInv, NEW p \in Proc, NEW where \in {"count", "find", "exists"},
         NEW r \in Serving(where), where = "exists" => r.user # r.friend,
         Begin(p, where, r)
  PROVE  AInv'
<1>1. /\ pc' = [pc EXCEPT ![p] = where] /\ Asked(p, r)
      /\ UNCHANGED dbVars /\ reqs' = reqs + 1 /\ reqs' \in 0 .. MaxReqs
      /\ faults' \in 0 .. MaxFaults /\ where \in Place
  BY AccountsAssumption DEF Begin, AInv, TypeOK, Place, Asked
<1> QED BY <1>1, Moves

LEMMA ArriveKeeps == ASSUME AInv, NEW p \in Proc, Arrive(p) PROVE AInv'
<1>1. CASE Register(p) \/ Login(p)
  BY <1>1, BeginKeeps, ServingIs DEF Register, Login
<1>2. CASE AddFriend(p)
  <2>1. PICK t \in tokens, f \in UserId :
          t.user # f /\ Begin(p, "exists", [user |-> t.user, friend |-> f])
    BY <1>2 DEF AddFriend
  <2>2. t.user \in DOMAIN users
    BY DEF AInv, TypeOK, Token
  <2>3. [user |-> t.user, friend |-> f] \in Serving("exists")
    BY <2>2, ServingIs
  <2>4. [user |-> t.user, friend |-> f].user # [user |-> t.user, friend |-> f].friend
    BY <2>1
  <2> QED BY <2>1, <2>3, <2>4, BeginKeeps
<1> QED BY <1>1, <1>2 DEF Arrive

\* The lookups change no table: what they find says where the request goes.
LEMMA LookupFacts ==
  ASSUME AInv, NEW p \in Proc,
         CountByPhone(p) \/ FindUser(p) \/ GetUserById(p) \/ CheckFriend(p)
  PROVE  /\ UNCHANGED <<dbVars, reqs>> /\ UNCHANGED dbVars /\ reqs' = reqs
         /\ reqs' \in 0 .. MaxReqs /\ faults' \in 0 .. MaxFaults
         /\ req[p] \in Serving(pc[p]) /\ DOMAIN req = Proc
BY DEF CountByPhone, FindUser, GetUserById, CheckFriend, AInv, TypeOK

LEMMA CountByPhoneKeeps == ASSUME AInv, NEW p \in Proc, CountByPhone(p) PROVE AInv'
<1>1. CASE GoTo(p, "insert")
  <2>1. /\ pc[p] = "count" /\ pc' = [pc EXCEPT ![p] = "insert"] /\ Asked(p, req[p])
        /\ req[p] \in Serving("insert") /\ "insert" \in Place
    BY <1>1, LookupFacts, ServingIs DEF CountByPhone, At, GoTo, Place, Asked
  <2> QED BY <2>1, LookupFacts, Moves
<1>2. CASE Answer(p)
  BY <1>2, LookupFacts, AnswerKeeps
<1> QED BY <1>1, <1>2 DEF CountByPhone

LEMMA FindUserKeeps == ASSUME AInv, NEW p \in Proc, FindUser(p) PROVE AInv'
<1>1. CASE Answer(p)
  BY <1>1, LookupFacts, AnswerKeeps
<1>2. ASSUME NEW u \in DOMAIN users, Matches(u, req[p]),
             pc' = [pc EXCEPT ![p] = "token"], req' = [req EXCEPT ![p] = Put(@, "user", u)]
      PROVE  AInv'
  <2>1. req[p] \in Row /\ DOMAIN req = Proc
    BY LookupFacts, ServingIs DEF FindUser, At
  <2>2. Put(req[p], "user", u) = TokenOf(u)
    BY <1>2, <2>1, PutUser DEF TokenOf, Matches
  <2>3. Asked(p, TokenOf(u))
    BY <1>2, <2>1, <2>2 DEF Asked
  <2>4. TokenOf(u) \in AccountRows /\ "token" \in Place
    BY DEF AccountRows, Place
  <2>5. users[u] \in Row
    BY DEF AInv, TypeOK
  <2>6. TokenOf(u) \in Serving("token")
    BY <2>5, ServingIs DEF TokenOf, Token, Row
  <2> QED BY <1>2, <2>3, <2>4, <2>6, LookupFacts, Moves
<1> QED BY <1>1, <1>2 DEF FindUser

LEMMA GetUserByIdKeeps == ASSUME AInv, NEW p \in Proc, GetUserById(p) PROVE AInv'
<1>1. CASE IsUser(req[p].friend) /\ GoTo(p, "check")
  <2>1. /\ pc[p] = "exists" /\ pc' = [pc EXCEPT ![p] = "check"] /\ Asked(p, req[p])
        /\ "check" \in Place
    BY <1>1, LookupFacts DEF GetUserById, At, GoTo, Place, Asked
  <2>2. req[p] \in [user : DOMAIN users, friend : UserId] /\ req[p].friend \in DOMAIN users
    BY <1>1, <2>1, LookupFacts, ServingIs DEF IsUser
  <2>3. req[p] \in Serving("check")
    BY <2>2, ServingIs
  <2>4. req[p].user # req[p].friend
    BY <2>1 DEF AInv, NotOneself
  <2> QED BY <2>1, <2>3, <2>4, LookupFacts, Moves
<1>2. CASE Answer(p)
  BY <1>2, LookupFacts, AnswerKeeps
<1> QED BY <1>1, <1>2 DEF GetUserById

LEMMA CheckFriendKeeps == ASSUME AInv, NEW p \in Proc, CheckFriend(p) PROVE AInv'
<1>1. CASE ~IsFriend(req[p].user, req[p].friend) /\ GoTo(p, "befriend")
  <2>1. /\ pc[p] = "check" /\ pc' = [pc EXCEPT ![p] = "befriend"] /\ Asked(p, req[p])
        /\ "befriend" \in Place
    BY <1>1, LookupFacts DEF CheckFriend, At, GoTo, Place, Asked
  <2>2. req[p] \in Serving("befriend") /\ req[p].user # req[p].friend
    BY <2>1, LookupFacts, ServingIs DEF AInv, NotOneself
  <2> QED BY <1>1, <2>1, <2>2, LookupFacts, Moves
<1>2. CASE Answer(p)
  BY <1>2, LookupFacts, AnswerKeeps
<1> QED BY <1>1, <1>2 DEF CheckFriend

LEMMA GenerateTokenKeeps == ASSUME AInv, NEW p \in Proc, GenerateToken(p) PROVE AInv'
<1>1. /\ pc[p] = "token" /\ pc' = [pc EXCEPT ![p] = "idle"] /\ Asked(p, NoReq)
      /\ tokens' = tokens \cup {req[p]} /\ UNCHANGED <<users, nextId, friends, reqs, faults>>
  BY DEF GenerateToken, At, Answer, Asked, AInv, TypeOK
<1>t. /\ pc \in [Proc -> Place] /\ pc' \in [Proc -> Place] /\ DOMAIN req' = Proc
      /\ pc'[p] = "idle" /\ req'[p] = NoReq
      /\ \A q \in Proc \ {p} : pc'[q] = pc[q] /\ req'[q] = req[q]
  BY <1>1 DEF AInv, TypeOK, Place, Asked
<1>2. RowsCounted' /\ RowsBounded' /\ NotOneself'
  BY <1>1, FriendsKept
<1>3. TypeOK'
  <2>1. \A q \in Proc : (req[q] \in Serving(pc[q]))'
    BY <1>1, <1>t DEF AInv, TypeOK, Serving, Token
  <2>2. req[p] \in Token
    BY <1>1 DEF AInv, TypeOK, Serving
  <2>3. tokens' \subseteq Token'
    BY <1>1, <2>2 DEF AInv, TypeOK, Token
  <2> QED BY <1>1, <1>t, <2>1, <2>3 DEF AInv, TypeOK, Place
<1>4. IdsCounted'
  <2>1. Registering' = Registering
    BY <1>1, <1>t DEF Registering
  <2> QED BY <1>1, <2>1 DEF AInv, IdsCounted
<1>5. TokensStand'
  <2>1. AccountRows' = AccountRows
    BY <1>1 DEF AccountRows, TokenOf
  <2> QED BY <1>1, <1>t, <2>1 DEF AInv, TokensStand
<1>6. OneAccount' /\ FriendsAreUsers'
  BY <1>1 DEF AInv, OneAccount, FriendsAreUsers
<1> QED BY <1>2, <1>3, <1>4, <1>5, <1>6 DEF AInv

LEMMA TokenExpiresKeeps == ASSUME AInv, NEW t \in tokens, TokenExpires(t) PROVE AInv'
<1>1. tokens' \subseteq tokens /\ UNCHANGED <<users, nextId, friends, pc, req, reqs, faults>>
  BY DEF TokenExpires
<1>2. TypeOK'
  <2>1. \A q \in Proc : (req[q] \in Serving(pc[q]))'
    BY <1>1 DEF AInv, TypeOK, Serving, Token
  <2>2. tokens' \subseteq Token'
    BY <1>1 DEF AInv, TypeOK, Token
  <2> QED BY <1>1, <2>1, <2>2 DEF AInv, TypeOK
<1>3. AccountRows' = AccountRows /\ Registering' = Registering
  BY <1>1 DEF AccountRows, TokenOf, Registering
<1>4. TokensStand' /\ IdsCounted'
  BY <1>1, <1>3 DEF AInv, TokensStand, IdsCounted
<1>5. \A u, f \in UserId :
        Befriending(u, f)' = Befriending(u, f) /\ Storing(u, f)' = Storing(u, f)
  BY <1>1 DEF Befriending, Asks, Storing, At
<1>6. RowsCounted' /\ RowsBounded'
  BY <1>1, <1>5 DEF AInv, RowsCounted, RowsBounded
<1>7. OneAccount' /\ NotOneself' /\ FriendsAreUsers'
  BY <1>1 DEF AInv, OneAccount, NotOneself, FriendsAreUsers
<1> QED BY <1>2, <1>4, <1>6, <1>7 DEF AInv

\* The insert ends the registration: the id it uses up is its own.
LEMMA CreateUserKeeps == ASSUME AInv, NEW p \in Proc, CreateUser(p) PROVE AInv'
<1> DEFINE row == [phone |-> req[p].phone, password |-> req[p].password]
<1>1. /\ pc[p] = "insert" /\ nextId' = nextId + 1 /\ req[p] \in Row
      /\ UNCHANGED <<friends, tokens, reqs>> /\ DOMAIN req = Proc
  BY DEF CreateUser, At, AInv, TypeOK, Serving
<1>2. /\ nextId \in UserId /\ nextId \in Nat /\ nextId \notin DOMAIN users
      /\ reqs \in Nat /\ users \in [DOMAIN users -> Row] /\ row \in Row
  BY <1>1, IdFacts DEF AInv, TypeOK, Row
<1>3. PICK where \in {"idle", "token"} : \E r :
        /\ pc' = [pc EXCEPT ![p] = where] /\ Asked(p, r)
        /\ faults' \in 0 .. MaxFaults
        /\ where = "idle" => r = NoReq
        /\ where = "token" => /\ r = Put(req[p], "user", nextId)
                              /\ UniquePhone(req[p].phone)
  BY <1>1, AccountsAssumption DEF CreateUser, Answer, Asked, Fault, AInv, TypeOK
<1>r. PICK r :
        /\ pc' = [pc EXCEPT ![p] = where] /\ Asked(p, r)
        /\ faults' \in 0 .. MaxFaults
        /\ where = "idle" => r = NoReq
        /\ where = "token" => /\ r = Put(req[p], "user", nextId)
                              /\ UniquePhone(req[p].phone)
  BY <1>3
<1>4. \/ UNCHANGED users
      \/ UniquePhone(req[p].phone) /\ users' = Put(users, nextId, row)
  BY DEF CreateUser
<1>5. where = "token" => users' = Put(users, nextId, row)
  BY <1>r DEF CreateUser
<1>6. /\ DOMAIN users' \in {DOMAIN users, DOMAIN users \cup {nextId}}
      /\ users' \in [DOMAIN users' -> Row]
      /\ \A u \in DOMAIN users : users'[u] = users[u]
      /\ users' = Put(users, nextId, row) =>
           DOMAIN users' = DOMAIN users \cup {nextId} /\ users'[nextId] = row
  <2>1. CASE UNCHANGED users
    <3>1. users # Put(users, nextId, row)
      BY <1>2, PutRow DEF Put
    <3> QED BY <1>2, <2>1, <3>1
  <2>2. CASE users' = Put(users, nextId, row)
    BY <1>2, <2>2, PutRow
  <2> QED BY <1>4, <2>1, <2>2
<1>7. RowsCounted' /\ RowsBounded' /\ NotOneself'
  BY <1>1, <1>r, FriendsKept
<1>n. PICK n : n = nextId
  OBVIOUS
<1>8. where = "token" => r = TokenOf(n)' /\ n \in DOMAIN users' /\ users'[n] \in Row
  <2> SUFFICES ASSUME where = "token"
               PROVE  r = TokenOf(n)' /\ n \in DOMAIN users' /\ users'[n] \in Row
    OBVIOUS
  <2>1. DOMAIN users' = DOMAIN users \cup {n} /\ users'[n] = row
    BY <1>5, <1>6, <1>n
  <2>2. r = [user |-> n, phone |-> req[p].phone, password |-> req[p].password]
    BY <1>1, <1>r, <1>n, PutUser
  <2> QED BY <1>2, <2>1, <2>2 DEF TokenOf
<1>t. /\ pc \in [Proc -> Place] /\ pc' \in [Proc -> Place] /\ DOMAIN req' = Proc
      /\ pc'[p] = where /\ req'[p] = r
      /\ \A q \in Proc \ {p} : pc'[q] = pc[q] /\ req'[q] = req[q]
  BY <1>r DEF AInv, TypeOK, Place, Asked
<1>9. IdsCounted' /\ nextId' \in Given + 1 .. Given + 1 + reqs'
  <2>1. /\ p \in Registering /\ Registering' \subseteq Registering \ {p}
        /\ Registering \subseteq Proc
    BY <1>1, <1>t DEF Registering
  <2>2. /\ Cardinality(Registering') + 1 <= Cardinality(Registering)
        /\ Cardinality(Registering) \in Nat /\ Cardinality(Registering') \in Nat
    BY <2>1, Counting
  <2>3. nextId + Cardinality(Registering) <= Given + 1 + reqs /\ nextId >= Given + 1
    BY DEF AInv, IdsCounted, TypeOK
  <2>4. nextId' + Cardinality(Registering') <= Given + 1 + reqs'
    BY <1>1, <1>2, <2>2, <2>3, GivenFacts
  <2> QED BY <1>1, <1>2, <2>2, <2>3, <2>4, GivenFacts DEF IdsCounted
<1>10. TypeOK'
  <2>1. DOMAIN users' \subseteq 1 .. nextId' - 1
    BY <1>1, <1>2, <1>6 DEF AInv, TypeOK, UserId
  <2>2. ASSUME NEW q \in Proc PROVE (req[q] \in Serving(pc[q]))'
    <3>1. CASE q # p
      BY <1>t, <1>6, <3>1 DEF AInv, TypeOK, Serving, Token
    <3>2. CASE q = p /\ where = "token"
      <4>1. r \in Token'
        BY <1>8, <3>2 DEF TokenOf, Token, Row
      <4> QED BY <1>t, <3>2, <4>1 DEF Serving
    <3>3. CASE q = p /\ where = "idle"
      BY <1>r, <1>t, <3>3 DEF Serving
    <3> QED BY <3>1, <3>2, <3>3
  <2>3. tokens' \subseteq Token'
    BY <1>1, <1>6 DEF AInv, TypeOK, Token
  <2> QED BY <1>1, <1>r, <1>6, <1>9, <1>t, <2>1, <2>2, <2>3 DEF AInv, TypeOK, Place
<1>11. TokensStand'
  <2>1. \A u \in DOMAIN users : TokenOf(u)' = TokenOf(u) /\ u \in DOMAIN users'
    BY <1>6 DEF TokenOf
  <2>2. AccountRows \subseteq AccountRows'
    BY <2>1 DEF AccountRows
  <2>3. where = "token" => r \in AccountRows'
    BY <1>8 DEF AccountRows
  <2> QED BY <1>1, <1>t, <2>2, <2>3 DEF AInv, TokensStand
<1>12. OneAccount'
  BY <1>4, <1>6 DEF AInv, OneAccount, UniquePhone, Having
<1>13. FriendsAreUsers'
  BY <1>1, <1>6 DEF AInv, FriendsAreUsers
<1> QED BY <1>7, <1>9, <1>10, <1>11, <1>12, <1>13 DEF AInv

\* The insert ends the request: the row it adds makes up for the request
\* that no longer is about to add it.
LEMMA CreateFriendKeeps == ASSUME AInv, NEW p \in Proc, CreateFriend(p) PROVE AInv'
<1>1. PICK a, b : a = req[p].user /\ b = req[p].friend
  OBVIOUS
<1>2. /\ pc[p] = "befriend" /\ pc' = [pc EXCEPT ![p] = "idle"] /\ Asked(p, NoReq)
      /\ friends' = [friends EXCEPT ![<<a, b>>] = friends[<<a, b>>] + 1]
      /\ UNCHANGED <<users, nextId, tokens, reqs>> /\ faults' \in 0 .. MaxFaults
  BY <1>1, AccountsAssumption
     DEF CreateFriend, At, Answer, Asked, Fault, AInv, TypeOK
<1>3. a \in DOMAIN users /\ b \in DOMAIN users /\ a # b /\ a \in UserId /\ b \in UserId
  BY <1>1, <1>2, IdFacts DEF AInv, TypeOK, Serving, NotOneself
<1>t. /\ pc \in [Proc -> Place] /\ pc' \in [Proc -> Place] /\ DOMAIN req' = Proc
      /\ pc'[p] = "idle" /\ req'[p] = NoReq
      /\ \A q \in Proc \ {p} : pc'[q] = pc[q] /\ req'[q] = req[q]
  BY <1>2 DEF AInv, TypeOK, Place, Asked
<1>f. /\ friends \in [Pair -> 0 .. reqs] /\ reqs \in Nat /\ friends'[<<a, b>>] = friends[<<a, b>>] + 1
      /\ friends' \in [Pair -> Nat]
      /\ \A u, f \in UserId : <<u, f>> # <<a, b>> => friends'[<<u, f>>] = friends[<<u, f>>]
      /\ \A u, f \in UserId : friends[<<u, f>>] \in Nat
  BY <1>2, <1>3 DEF AInv, TypeOK, Pair
<1>4. RowsCounted'
  <2> SUFFICES ASSUME NEW u \in UserId, NEW f \in UserId
               PROVE  friends'[<<u, f>>] + Cardinality(Befriending(u, f)') <= reqs'
    BY DEF RowsCounted
  <2> DEFINE S == Befriending(u, f)
             T == Befriending(u, f)'
  <2>1. T \subseteq S /\ S \subseteq Proc
    BY <1>t DEF Befriending, Asks
  <2>2. /\ Cardinality(T) <= Cardinality(S)
        /\ Cardinality(S) \in Nat /\ Cardinality(T) \in Nat
    BY <2>1, Counting
  <2>3. friends[<<u, f>>] + Cardinality(S) <= reqs
    BY DEF AInv, RowsCounted
  <2>4. CASE <<u, f>> = <<a, b>>
    <3>1. p \in S /\ T \subseteq S \ {p}
      BY <1>1, <1>2, <1>t, <2>4 DEF Befriending, Asks
    <3>2. Cardinality(T) + 1 <= Cardinality(S)
      BY <2>1, <3>1, Counting
    <3> QED BY <1>2, <1>f, <2>2, <2>3, <2>4, <3>2
  <2>5. CASE <<u, f>> # <<a, b>>
    BY <1>2, <1>f, <2>2, <2>3, <2>5
  <2> QED BY <2>4, <2>5
<1>5. RowsBounded'
  <2> SUFFICES ASSUME NEW u \in UserId, NEW f \in UserId, u < f
               PROVE  friends'[<<u, f>>] + friends'[<<f, u>>] + Cardinality(Storing(u, f)')
                        <= Cardinality(Proc)
    BY DEF RowsBounded
  <2> DEFINE S == Storing(u, f)
             T == Storing(u, f)'
  <2>1. T \subseteq S /\ S \subseteq Proc
    BY <1>t DEF Storing, At
  <2>2. /\ Cardinality(T) <= Cardinality(S) /\ Cardinality(Proc) \in Nat
        /\ Cardinality(S) \in Nat /\ Cardinality(T) \in Nat
    BY <2>1, Counting
  <2>3. friends[<<u, f>>] + friends[<<f, u>>] + Cardinality(S) <= Cardinality(Proc)
    BY DEF AInv, RowsBounded
  <2>4. u # f
    BY IdFacts
  <2>5. CASE {a, b} = {u, f}
    <3>1. p \in S /\ T \subseteq S \ {p}
      BY <1>1, <1>2, <1>t, <2>5 DEF Storing, At
    <3>2. Cardinality(T) + 1 <= Cardinality(S)
      BY <2>1, <3>1, Counting
    <3>3. \/ /\ <<u, f>> = <<a, b>> /\ <<f, u>> # <<a, b>>
          \/ /\ <<f, u>> = <<a, b>> /\ <<u, f>> # <<a, b>>
      BY <2>4, <2>5
    <3>4. friends'[<<u, f>>] + friends'[<<f, u>>] = friends[<<u, f>>] + friends[<<f, u>>] + 1
      BY <1>f, <3>3
    <3>5. friends[<<u, f>>] \in Nat /\ friends[<<f, u>>] \in Nat
      BY <1>f
    <3> QED BY <2>2, <2>3, <3>2, <3>4, <3>5
  <2>6. CASE {a, b} # {u, f}
    <3>1. <<u, f>> # <<a, b>> /\ <<f, u>> # <<a, b>>
      BY <2>6
    <3>2. friends[<<u, f>>] \in Nat /\ friends[<<f, u>>] \in Nat
      BY <1>f
    <3> QED BY <1>f, <2>2, <2>3, <3>1, <3>2
  <2> QED BY <2>5, <2>6
<1>6. TypeOK'
  <2>1. \A q \in Proc : (req[q] \in Serving(pc[q]))'
    BY <1>2, <1>t DEF AInv, TypeOK, Serving, Token
  <2>2. \A u, f \in UserId : friends'[<<u, f>>] \in 0 .. reqs'
    <3> SUFFICES ASSUME NEW u \in UserId, NEW f \in UserId
                 PROVE  friends'[<<u, f>>] \in 0 .. reqs'
      OBVIOUS
    <3>1. Befriending(u, f)' \subseteq Proc
      BY DEF Befriending
    <3>2. Cardinality(Befriending(u, f)') \in Nat
      BY <3>1, Countable
    <3>3. friends'[<<u, f>>] + Cardinality(Befriending(u, f)') <= reqs'
      BY <1>4 DEF RowsCounted
    <3>4. friends'[<<u, f>>] \in Nat
      BY <1>f DEF Pair
    <3> QED BY <1>2, <1>f, <3>2, <3>3, <3>4
  <2>3. friends' \in [Pair -> 0 .. reqs']
    BY <1>f, <2>2 DEF Pair
  <2>4. tokens' \subseteq Token'
    BY <1>2 DEF AInv, TypeOK, Token
  <2> QED BY <1>2, <1>t, <2>1, <2>3, <2>4 DEF AInv, TypeOK, Place
<1>7. IdsCounted'
  <2>1. Registering' = Registering
    BY <1>2, <1>t DEF Registering
  <2> QED BY <1>2, <2>1 DEF AInv, IdsCounted
<1>8. TokensStand'
  <2>1. AccountRows' = AccountRows
    BY <1>2 DEF AccountRows, TokenOf
  <2> QED BY <1>2, <1>t, <2>1 DEF AInv, TokensStand
<1>9. OneAccount' /\ NotOneself'
  BY <1>2, <1>t DEF AInv, OneAccount, NotOneself
<1>10. FriendsAreUsers'
  BY <1>2, <1>3, <1>f DEF AInv, FriendsAreUsers
<1> QED BY <1>4, <1>5, <1>6, <1>7, <1>8, <1>9, <1>10 DEF AInv

\* Nothing happens.
LEMMA StutterKeeps == ASSUME AInv, UNCHANGED vars PROVE AInv'
<1>1. UNCHANGED <<users, nextId, friends, tokens, pc, req, reqs, faults>>
  BY DEF vars, dbVars
<1>2. TypeOK'
  <2>1. \A q \in Proc : (req[q] \in Serving(pc[q]))'
    BY <1>1 DEF AInv, TypeOK, Serving, Token
  <2> QED BY <1>1, <2>1 DEF AInv, TypeOK, Token
<1>3. \A u, f \in UserId :
        Befriending(u, f)' = Befriending(u, f) /\ Storing(u, f)' = Storing(u, f)
  BY <1>1 DEF Befriending, Asks, Storing, At
<1>4. RowsCounted' /\ RowsBounded'
  BY <1>1, <1>3 DEF AInv, RowsCounted, RowsBounded
<1>5. AccountRows' = AccountRows /\ Registering' = Registering
  BY <1>1 DEF AccountRows, TokenOf, Registering
<1>6. IdsCounted' /\ TokensStand' /\ OneAccount' /\ NotOneself' /\ FriendsAreUsers'
  BY <1>1, <1>5 DEF AInv, IdsCounted, TokensStand, OneAccount, NotOneself, FriendsAreUsers
<1> QED BY <1>2, <1>4, <1>6 DEF AInv

-----------------------------------------------------------------------------
(* The theorems.                                                           *)

LEMMA NextKeeps == ASSUME AInv, [Next]_vars PROVE AInv'
<1>1. ASSUME NEW p \in Proc, Serve(p) PROVE AInv'
  BY <1>1, CountByPhoneKeeps, CreateUserKeeps, FindUserKeeps, GenerateTokenKeeps,
     GetUserByIdKeeps, CheckFriendKeeps, CreateFriendKeeps DEF Serve
<1>2. ASSUME NEW p \in Proc, Arrive(p) \/ CallFails(p) PROVE AInv'
  BY <1>2, ArriveKeeps, CallFailsKeeps
<1>3. ASSUME NEW t \in tokens, TokenExpires(t) PROVE AInv'
  BY <1>3, TokenExpiresKeeps
<1>4. CASE UNCHANGED vars
  BY <1>4, StutterKeeps
<1> QED BY <1>1, <1>2, <1>3, <1>4 DEF Next

\* The inductive invariant of the handlers of user.go and friend.go holds in
\* every reachable state.
THEOREM AccountsInvariance == Spec => []AInv
BY InitHolds, NextKeeps, PTL DEF Spec

\* Tables, tokens and requests have their types, and a request that is past
\* GetUserById (friend.go:31) names users who exist.
THEOREM AccountsTypeCorrect == Spec => []TypeOK
<1>1. AInv => TypeOK
  BY DEF AInv
<1> QED BY <1>1, AccountsInvariance, PTL

\* friend.go:41-62 stores a friendship, one way and the other, no more often
\* than there are goroutines, however their statements interleave.
THEOREM FriendshipsBounded == Spec => []FriendRowsBounded
<1>1. AInv => FriendRowsBounded
  <2> SUFFICES ASSUME AInv, NEW u \in DOMAIN users, NEW f \in DOMAIN users, u < f
               PROVE  friends[<<u, f>>] + friends[<<f, u>>] + Cardinality(Storing(u, f))
                        <= Cardinality(Proc)
    BY DEF FriendRowsBounded
  <2>1. u \in UserId /\ f \in UserId
    BY IdFacts
  <2> QED BY <2>1 DEF AInv, RowsBounded
<1> QED BY <1>1, AccountsInvariance, PTL

-----------------------------------------------------------------------------
(* The refinement of Directory.                                            *)

\* An account, once it is there, is the same for good: no statement updates
\* or deletes a row of table user.
LEMMA SameAccounts ==
  ASSUME UNCHANGED users
  PROVE  AccountRows' = AccountRows
BY DEF AccountRows, TokenOf

LEMMA SameFriendships ==
  ASSUME UNCHANGED friends
  PROVE  Friendships' = Friendships
BY DEF Friendships

\* The tables are empty of friendships, and tokens stand for accounts.
LEMMA InitImplements == Init => D!Init
<1> SUFFICES ASSUME Init PROVE D!Init
  OBVIOUS
<1>1. tokens \subseteq AccountRows
  BY DEF Init, AccountRows
<1>2. Friendships = {}
  BY DEF Init, Friendships
<1> QED BY <1>1, <1>2 DEF D!Init

\* A registration is a SignUp of a free number, or nothing.
LEMMA CreateUserImplements ==
  ASSUME AInv, NEW p \in Proc, CreateUser(p)
  PROVE  D!Next \/ UNCHANGED D!vars
<1>1. UNCHANGED <<friends, tokens>>
  BY DEF CreateUser
<1>2. CASE UNCHANGED users
  BY <1>1, <1>2, SameAccounts, SameFriendships DEF D!vars
<1>3. CASE ~UNCHANGED users
  <2> DEFINE row == [phone |-> req[p].phone, password |-> req[p].password]
  <2>1. UniquePhone(req[p].phone) /\ users' = Put(users, nextId, row)
    BY <1>3 DEF CreateUser
  <2>2. PICK n : n = nextId
    OBVIOUS
  <2>3. req[p] \in Row /\ row \in Row
    BY DEF CreateUser, At, AInv, TypeOK, Serving, Row
  <2>4. n \notin DOMAIN users /\ users \in [DOMAIN users -> Row]
    BY <2>2, IdFacts DEF AInv, TypeOK
  <2>5. /\ DOMAIN users' = DOMAIN users \cup {n} /\ users'[n] = row
        /\ \A u \in DOMAIN users : users'[u] = users[u]
    BY <2>1, <2>2, <2>3, <2>4, PutRow
  <2> DEFINE a == [user |-> n, phone |-> req[p].phone, password |-> req[p].password]
  <2>6. TokenOf(n)' = a /\ \A u \in DOMAIN users : TokenOf(u)' = TokenOf(u)
    BY <2>5 DEF TokenOf
  <2>7. AccountRows' = AccountRows \cup {a}
    BY <2>5, <2>6 DEF AccountRows
  <2>8. \A c \in AccountRows : a.user # c.user /\ a.phone # c.phone
    BY <2>1, <2>4 DEF AccountRows, TokenOf, UniquePhone, Having
  <2>9. D!SignUp(a)
    BY <1>1, <2>7, <2>8, SameFriendships DEF D!SignUp, D!Free
  <2>10. a \in AccountRows'
    BY <2>7
  <2> QED BY <2>9, <2>10 DEF D!Next
<1> QED BY <1>2, <1>3

\* A row of table friend makes two accounts friends, or more so.
LEMMA CreateFriendImplements ==
  ASSUME AInv, NEW p \in Proc, CreateFriend(p)
  PROVE  D!Next
<1>1. PICK a, b : a = req[p].user /\ b = req[p].friend
  OBVIOUS
<1>2. /\ pc[p] = "befriend" /\ UNCHANGED <<users, tokens>>
      /\ friends' = [friends EXCEPT ![<<a, b>>] = friends[<<a, b>>] + 1]
  BY <1>1 DEF CreateFriend, At
<1>3. a \in DOMAIN users /\ b \in DOMAIN users /\ a # b /\ <<a, b>> \in Pair
  BY <1>1, <1>2, IdFacts DEF AInv, TypeOK, Serving, NotOneself, Pair
<1>4. /\ DOMAIN friends = Pair /\ friends[<<a, b>>] \in Nat
  BY <1>3 DEF AInv, TypeOK
<1>5. \A q \in Pair : friends'[q] > 0 <=> friends[q] > 0 \/ q = <<a, b>>
  BY <1>2, <1>3, <1>4
<1>6. Friendships' = Friendships \cup {{a, b}}
  <2>1. \A q \in Pair : q = <<a, b>> => {q[1], q[2]} = {a, b}
    OBVIOUS
  <2>2. {a, b} \in Friendships'
    BY <1>3, <1>5, <2>1 DEF Friendships
  <2>3. Friendships \subseteq Friendships'
    BY <1>5 DEF Friendships
  <2>4. Friendships' \subseteq Friendships \cup {{a, b}}
    BY <1>5, <2>1 DEF Friendships
  <2> QED BY <2>2, <2>3, <2>4
<1>7. /\ TokenOf(a) \in AccountRows /\ TokenOf(b) \in AccountRows
      /\ TokenOf(a).user = a /\ TokenOf(b).user = b /\ TokenOf(a) # TokenOf(b)
  BY <1>3 DEF AccountRows, TokenOf
<1>8. D!Befriend(TokenOf(a), TokenOf(b))
  BY <1>2, <1>6, <1>7, SameAccounts DEF D!Befriend
<1> QED BY <1>7, <1>8 DEF D!Next

\* A token is a session of an account.
LEMMA TokensImplement ==
  ASSUME AInv,
         (\E p \in Proc : GenerateToken(p)) \/ (\E t \in tokens : TokenExpires(t))
  PROVE  D!Next
<1>1. UNCHANGED <<users, friends>> /\ AccountRows' = AccountRows /\ Friendships' = Friendships
  BY SameAccounts, SameFriendships DEF GenerateToken, TokenExpires
<1>2. ASSUME NEW p \in Proc, GenerateToken(p) PROVE D!Next
  <2>1. req[p] \in AccountRows /\ tokens' = tokens \cup {req[p]}
    BY <1>2 DEF GenerateToken, At, AInv, TokensStand
  <2> QED BY <1>1, <2>1 DEF D!Next, D!Open
<1>3. ASSUME NEW t \in tokens, TokenExpires(t) PROVE D!Next
  <2>1. t \in AccountRows /\ tokens' = tokens \ {t}
    BY <1>3 DEF TokenExpires, AInv, TokensStand
  <2> QED BY <1>1, <2>1 DEF D!Next, D!Close
<1> QED BY <1>2, <1>3

LEMMA NextImplements == ASSUME AInv, [Next]_vars PROVE [D!Next]_D!vars
<1>1. ASSUME UNCHANGED <<users, friends, tokens>> PROVE UNCHANGED D!vars
  BY <1>1, SameAccounts, SameFriendships DEF D!vars
<1>2. ASSUME NEW p \in Proc, Arrive(p) \/ CallFails(p) PROVE UNCHANGED D!vars
  BY <1>1, <1>2 DEF Arrive, Register, Login, AddFriend, Begin, CallFails, dbVars
<1>3. ASSUME NEW p \in Proc,
             CountByPhone(p) \/ FindUser(p) \/ GetUserById(p) \/ CheckFriend(p)
      PROVE  UNCHANGED D!vars
  BY <1>1, <1>3 DEF CountByPhone, FindUser, GetUserById, CheckFriend, dbVars
<1>4. CASE UNCHANGED vars
  BY <1>1, <1>4 DEF vars, dbVars
<1> QED BY <1>2, <1>3, <1>4, CreateUserImplements, CreateFriendImplements, TokensImplement
        DEF Next, Serve

\* The handlers of user.go and friend.go, statement by statement, do no more
\* than the directory allows: one account for a number, a session only for who
\* gave its number and password, friendships between two accounts.
THEOREM DirectoryImplemented == Spec => ImplementsDirectory
<1>1. AInv /\ [Next]_vars => [D!Next]_D!vars
  BY NextImplements
<1>2. Spec => D!Init /\ [][D!Next]_D!vars
  BY <1>1, InitImplements, AccountsInvariance, PTL DEF Spec
<1> QED BY <1>2 DEF ImplementsDirectory, D!Spec
=============================================================================
