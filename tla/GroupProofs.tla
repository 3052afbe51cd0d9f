----------------------------- MODULE GroupProofs -----------------------------
(***************************************************************************)
(* Proofs that GroupChat keeps its safety properties for every number of   *)
(* users, groups and goroutines, and any number of requests and failures.  *)
(***************************************************************************)
EXTENDS GroupInv, TLAPS

\* Everything but the numbers; most steps leave those as they are.
DataInv == TypeOK /\ RequestInv /\ ReadInv /\ CacheIsTable /\ WholeAudience
Numbers == NumberInv /\ NumbersFresh

\* The places of a process.
Place == {"idle", "lookup", "insert", "belongs", "smembers", "pluck", "sadd",
          "expire", "check", "numbers", "publish", "push"}

\* Steps that draw and publish nothing keep the numbers in order, if the only
\* process that moves does not move to "publish".
LEMMA NumbersKept ==
  ASSUME TypeOK, Numbers, NEW p \in Proc, NEW where \in Place \ {"publish"},
         GoTo(p, where), UNCHANGED chatVars,
         \A q \in Proc \ {p} : ids'[q] = ids[q]
  PROVE  Numbers'
<1>1. \A q \in Proc : Waiting(q)' \subseteq Waiting(q)
  BY DEF TypeOK, GoTo, Waiting, Place
<1>2. NumberInv'
  BY <1>1 DEF Numbers, NumberInv, chatVars
<1>3. NumbersFresh'
  BY <1>1 DEF Numbers, NumbersFresh, chatVars
<1> QED BY <1>2, <1>3 DEF Numbers

\* The same of steps that move nobody.
LEMMA NumbersUntouched ==
  ASSUME Numbers, UNCHANGED <<pc, ids, chatVars>>
  PROVE  Numbers'
BY DEF Numbers, NumberInv, NumbersFresh, Waiting, chatVars

\* A call that fails, with or without an effect, ends the request; otherwise
\* the process goes on.
LEMMA ThenFacts ==
  ASSUME TypeOK, NEW p \in Proc, NEW where \in Place, Then(p, where)
  PROVE  /\ faults' \in 0 .. MaxFaults
         /\ \E place \in {where, "idle"} : GoTo(p, place)
BY GroupAssumption DEF TypeOK, Then, Fault, Place

\* A process that becomes idle, or goes on to where nothing is known of what
\* it has read, disturbs nothing.
LEMMA DataKept ==
  ASSUME DataInv, NEW p \in Proc, NEW where \in {"idle", "smembers", "pluck"},
         where = "idle" \/ pc[p] \in WithGroup, pc[p] # "idle",
         GoTo(p, where), UNCHANGED <<members, cacheVars, chatVars, op, user, group, reqs, panicked>>,
         faults' \in 0 .. MaxFaults,
         ids' = ids
  PROVE  DataInv'
<1>1. TypeOK'
  BY DEF DataInv, TypeOK, GoTo, cacheVars, chatVars
<1>2. RequestInv'
  BY DEF DataInv, TypeOK, RequestInv, RequestOf, GoTo, WithGroup
<1>3. ReadInv'
  BY DEF DataInv, TypeOK, ReadInv, ReadOf, GoTo
<1>4. CacheIsTable' /\ WholeAudience'
  BY DEF DataInv, TypeOK, CacheIsTable, WholeAudience, GoTo, cacheVars
<1> QED BY <1>1, <1>2, <1>3, <1>4 DEF DataInv

\* The initial states have it.
LEMMA InitHolds == Init => GInv
<1> SUFFICES ASSUME Init PROVE GInv
  OBVIOUS
<1>1. TypeOK
  <2>1. nums \in [Proc -> [User -> Nat]] /\ counter \in [User -> Nat]
    BY DEF Init, NoNums
  <2>2. reqs \in 0 .. MaxReqs /\ faults \in 0 .. MaxFaults
    BY GroupAssumption DEF Init
  <2> QED BY <2>1, <2>2 DEF Init, TypeOK
<1>2. RequestInv /\ ReadInv /\ CacheIsTable /\ WholeAudience
  BY DEF Init, RequestInv, RequestOf, ReadInv, ReadOf, CacheIsTable, WholeAudience, WithGroup
<1>3. NumberInv /\ NumbersFresh
  BY DEF Init, NumberInv, NumbersFresh, Waiting
<1> QED BY <1>1, <1>2, <1>3 DEF GInv

\* A request that begins says what it says, and knows nothing yet.
LEMMA BeginKeeps ==
  ASSUME DataInv, NEW p \in Proc, NEW kind \in {"create", "list", "send"},
         NEW u \in User, NEW g \in Group \cup {NoGroup},
         NEW S \in SUBSET (User \cup {Ghost}),
         NEW where \in {"lookup", "belongs", "smembers"},
         where = "lookup" => u \in S, where # "lookup" => g \in Group,
         Begin(p, kind, u, g, S, where)
  PROVE  DataInv'
<1> USE DEF Begin, At, GoTo, Have
<1>1. TypeOK'
  BY GroupAssumption DEF DataInv, TypeOK, cacheVars, chatVars
<1>2. RequestInv'
  BY DEF DataInv, TypeOK, RequestInv, RequestOf, WithGroup
<1>3. ReadInv'
  BY DEF DataInv, TypeOK, ReadInv, ReadOf
<1>4. CacheIsTable' /\ WholeAudience'
  BY DEF DataInv, TypeOK, CacheIsTable, WholeAudience, cacheVars
<1> QED BY <1>1, <1>2, <1>3, <1>4 DEF DataInv

----------------------------------------------------------------------------
(* The steps.                                                              *)

\* CreateGroupHandler has looked the ids up.
LEMMA LookUpIdsKeeps ==
  ASSUME DataInv, NEW p \in Proc, LookUpIds(p)
  PROVE  DataInv'
<1> USE DEF LookUpIds, At, GoTo, Have, Known
<1>1. TypeOK'
  BY DEF DataInv, TypeOK, cacheVars, chatVars
<1>2. RequestInv'
  BY DEF DataInv, TypeOK, RequestInv, RequestOf, WithGroup
<1>3. ReadInv' /\ CacheIsTable' /\ WholeAudience'
  BY DEF DataInv, TypeOK, ReadInv, ReadOf, CacheIsTable, WholeAudience, cacheVars
<1> QED BY <1>1, <1>2, <1>3 DEF DataInv

\* A group gets its members once: what others have read of it is nothing, and
\* nobody sends to it yet.
LEMMA InsertKeeps ==
  ASSUME DataInv, NEW p \in Proc, Insert(p)
  PROVE  DataInv'
<1>1. PICK g \in Group : /\ members[g] = {} /\ members' = [members EXCEPT ![g] = ids[p]]
                         /\ group' = [group EXCEPT ![p] = g]
  BY DEF Insert, Stores
<1>2. PICK place \in {"sadd", "idle"} : pc' = [pc EXCEPT ![p] = place]
  BY ThenFacts DEF Insert, DataInv, GoTo, Place
<1>3. faults' \in 0 .. MaxFaults
  BY ThenFacts DEF Insert, DataInv, Place
<1>4. pc[p] = "insert" /\ ids[p] \in SUBSET User /\ user[p] \in ids[p]
  BY DEF Insert, At, DataInv, RequestInv, RequestOf
<1>5. UNCHANGED <<cacheVars, op, user, ids, chatVars, reqs, panicked>>
  BY DEF Insert
<1>6. TypeOK'
  BY <1>1, <1>2, <1>3, <1>4, <1>5 DEF DataInv, TypeOK, cacheVars, chatVars
<1>7. RequestInv'
  BY <1>1, <1>2, <1>4, <1>5 DEF DataInv, TypeOK, RequestInv, RequestOf, WithGroup
<1>8. ReadInv'
  <2> SUFFICES ASSUME NEW q \in Proc PROVE ReadOf(q)'
    BY DEF ReadInv
  <2>1. CASE q = p
    BY <1>1, <1>2, <1>4, <1>5, <2>1 DEF DataInv, TypeOK, ReadOf
  <2>2. CASE q # p
    <3>1. ReadOf(q) /\ pc'[q] = pc[q] /\ ids'[q] = ids[q] /\ group'[q] = group[q]
      BY <1>1, <1>2, <1>5, <2>2 DEF DataInv, ReadInv, TypeOK
    <3>2. pc[q] \in {"sadd", "expire", "check"} => group[q] \in Group
      BY DEF DataInv, RequestInv, RequestOf, WithGroup
    <3> QED BY <1>1, <3>1, <3>2 DEF ReadOf, DataInv, TypeOK
  <2> QED BY <2>1, <2>2
<1>9. CacheIsTable'
  BY <1>1, <1>5 DEF DataInv, TypeOK, CacheIsTable, cacheVars
<1>10. WholeAudience'
  <2> SUFFICES ASSUME NEW q \in Proc, pc'[q] \in {"numbers", "publish", "push"}
               PROVE  /\ user'[q] \in members'[group'[q]]
                      /\ ids'[q] = members'[group'[q]] \ {user'[q]}
    BY DEF WholeAudience
  <2>1. q # p /\ pc[q] \in {"numbers", "publish", "push"}
    BY <1>2 DEF DataInv, TypeOK
  <2>2. /\ user[q] \in members[group[q]] /\ ids[q] = members[group[q]] \ {user[q]}
        /\ group'[q] = group[q] /\ group[q] \in Group
    BY <1>1, <2>1 DEF DataInv, TypeOK, WholeAudience, RequestInv, RequestOf, WithGroup
  <2> QED BY <1>1, <1>5, <2>2 DEF DataInv, TypeOK
<1> QED BY <1>6, <1>7, <1>8, <1>9, <1>10 DEF DataInv

\* A process finds the members in the cache, or has to read the table.
LEMMA ReadCacheKeeps ==
  ASSUME DataInv, NEW p \in Proc, ReadCache(p)
  PROVE  DataInv'
<1>1. pc[p] = "smembers" /\ group[p] \in Group /\ cache[group[p]] \in {{}, members[group[p]]}
  BY DEF ReadCache, At, DataInv, RequestInv, RequestOf, WithGroup, CacheIsTable
<1>2. ids' = [ids EXCEPT ![p] = cache[group[p]]]
  BY DEF ReadCache, Have
<1>3. PICK place \in {"pluck", "check", "idle"} :
        pc' = [pc EXCEPT ![p] = place] /\ (place = "check" => cache[group[p]] # {})
  BY DEF ReadCache, GoTo, Answer
<1>4. UNCHANGED <<members, cacheVars, op, user, group, chatVars, reqs, faults, panicked>>
  BY DEF ReadCache
<1>5. TypeOK'
  BY <1>1, <1>2, <1>3, <1>4 DEF DataInv, TypeOK, cacheVars, chatVars
<1>6. RequestInv'
  BY <1>1, <1>2, <1>3, <1>4 DEF DataInv, TypeOK, RequestInv, RequestOf, WithGroup
<1>7. ReadInv'
  BY <1>1, <1>2, <1>3, <1>4 DEF DataInv, TypeOK, ReadInv, ReadOf
<1>8. CacheIsTable' /\ WholeAudience'
  BY <1>2, <1>3, <1>4 DEF DataInv, TypeOK, CacheIsTable, WholeAudience, cacheVars
<1> QED BY <1>5, <1>6, <1>7, <1>8 DEF DataInv

\* What is read from the table is what a process may write to the cache.
LEMMA ReadTableKeeps ==
  ASSUME DataInv, NEW p \in Proc, ReadTable(p)
  PROVE  DataInv'
<1> USE DEF ReadTable, At, GoTo, Have
<1>1. TypeOK'
  BY DEF DataInv, TypeOK, RequestInv, RequestOf, WithGroup, cacheVars, chatVars
<1>2. RequestInv' /\ ReadInv'
  BY DEF DataInv, TypeOK, RequestInv, RequestOf, ReadInv, ReadOf, WithGroup
<1>3. CacheIsTable' /\ WholeAudience'
  BY DEF DataInv, TypeOK, CacheIsTable, WholeAudience, cacheVars
<1> QED BY <1>1, <1>2, <1>3 DEF DataInv

\* SADD adds all members, or none to a set that stays as it was.
LEMMA FillCacheKeeps ==
  ASSUME DataInv, NEW p \in Proc, FillCache(p)
  PROVE  DataInv'
<1>1. pc[p] = "sadd" /\ group[p] \in Group /\ ids[p] \in {{}, members[group[p]]}
  BY DEF FillCache, At, DataInv, RequestInv, RequestOf, ReadInv, ReadOf, WithGroup
<1>2. cache' = [cache EXCEPT ![group[p]] = @ \cup ids[p]]
  BY DEF FillCache
<1>3. PICK place \in {"expire", "idle"} :
        pc' = [pc EXCEPT ![p] = place] /\ (place = "expire" => ids[p] # {})
  BY ThenFacts DEF FillCache, DataInv, GoTo, Place
<1>4. faults' \in 0 .. MaxFaults
  BY ThenFacts DEF FillCache, DataInv, Place
<1>5. UNCHANGED <<members, expires, op, user, group, ids, chatVars, reqs, panicked>>
  BY DEF FillCache, reqVars
<1>6. CacheIsTable'
  BY <1>1, <1>2, <1>5 DEF DataInv, TypeOK, CacheIsTable
<1>7. TypeOK'
  <2>1. cache' \in [Group -> SUBSET User]
    BY <1>1, <1>2 DEF DataInv, TypeOK
  <2>2. expires' \subseteq {g \in Group : cache'[g] # {}}
    BY <1>1, <1>2, <1>5 DEF DataInv, TypeOK
  <2> QED BY <1>3, <1>4, <1>5, <2>1, <2>2 DEF DataInv, TypeOK, chatVars
<1>8. RequestInv'
  BY <1>1, <1>3, <1>5 DEF DataInv, TypeOK, RequestInv, RequestOf, WithGroup
<1>9. ReadInv' /\ WholeAudience'
  BY <1>1, <1>3, <1>5 DEF DataInv, TypeOK, ReadInv, ReadOf, WholeAudience
<1> QED BY <1>6, <1>7, <1>8, <1>9 DEF DataInv

\* Then the key gets its expiry, if it is still there.
LEMMA SetExpiryKeeps ==
  ASSUME DataInv, NEW p \in Proc, SetExpiry(p)
  PROVE  DataInv'
<1>1. pc[p] = "expire" /\ group[p] \in Group
  BY DEF SetExpiry, At, DataInv, RequestInv, RequestOf, WithGroup
<1>2. PICK place \in {"check", "idle"} : pc' = [pc EXCEPT ![p] = place]
  BY ThenFacts DEF SetExpiry, DataInv, GoTo, Answer, Place
<1>3. faults' \in 0 .. MaxFaults
  BY ThenFacts DEF SetExpiry, DataInv, Answer, Place
<1>4. UNCHANGED <<members, cache, op, user, group, ids, chatVars, reqs, panicked>>
  BY DEF SetExpiry, reqVars
<1>5. TypeOK'
  <2>1. expires' \subseteq {g \in Group : cache'[g] # {}}
    BY <1>1, <1>4 DEF DataInv, TypeOK, SetExpiry
  <2> QED BY <1>2, <1>3, <1>4, <2>1 DEF DataInv, TypeOK, chatVars
<1>6. RequestInv' /\ ReadInv'
  BY <1>1, <1>2, <1>4 DEF DataInv, TypeOK, RequestInv, RequestOf, ReadInv, ReadOf, WithGroup
<1>7. CacheIsTable' /\ WholeAudience'
  BY <1>1, <1>2, <1>4 DEF DataInv, TypeOK, CacheIsTable, WholeAudience
<1> QED BY <1>5, <1>6, <1>7 DEF DataInv

\* No set is a set that may be cached.
LEMMA KeyExpiresKeeps ==
  ASSUME DataInv, NEW g \in Group, KeyExpires(g)
  PROVE  DataInv'
<1> USE DEF KeyExpires
<1>1. TypeOK'
  BY DEF DataInv, TypeOK, chatVars, reqVars
<1>2. CacheIsTable'
  BY DEF DataInv, TypeOK, CacheIsTable
<1>3. RequestInv' /\ ReadInv' /\ WholeAudience'
  BY DEF DataInv, RequestInv, RequestOf, ReadInv, ReadOf, WholeAudience, reqVars
<1> QED BY <1>1, <1>2, <1>3 DEF DataInv

\* Whoever gets past the check is a member and has all the others in hand.
LEMMA CheckMemberKeeps ==
  ASSUME DataInv, NEW p \in Proc, CheckMember(p)
  PROVE  DataInv'
<1>1. /\ pc[p] = "check" /\ group[p] \in Group /\ ids[p] = members[group[p]]
      /\ ids[p] \in SUBSET User
  BY DEF CheckMember, At, DataInv, TypeOK, RequestInv, RequestOf, ReadInv, ReadOf, WithGroup
<1>2. PICK place \in {"numbers", "idle"} :
        pc' = [pc EXCEPT ![p] = place] /\ (place = "numbers" => user[p] \in ids[p])
  BY DEF CheckMember, GoTo, IsMember
<1>3. /\ ids' = [ids EXCEPT ![p] = ids[p] \ {user[p]}]
      /\ UNCHANGED <<members, cacheVars, op, user, group, chatVars, reqs, faults, panicked>>
  BY DEF CheckMember, Have
<1>4. TypeOK'
  BY <1>1, <1>2, <1>3 DEF DataInv, TypeOK, cacheVars, chatVars
<1>5. RequestInv' /\ ReadInv'
  BY <1>1, <1>2, <1>3 DEF DataInv, TypeOK, RequestInv, RequestOf, ReadInv, ReadOf, WithGroup
<1>6. CacheIsTable'
  BY <1>3 DEF DataInv, CacheIsTable, cacheVars
<1>7. WholeAudience'
  BY <1>1, <1>2, <1>3 DEF DataInv, TypeOK, WholeAudience
<1> QED BY <1>4, <1>5, <1>6, <1>7 DEF DataInv

\* Drawing numbers and publishing change nothing of what is known of groups.
LEMMA SendingKeeps ==
  ASSUME DataInv, NEW p \in Proc, NEW where \in {"publish", "push", "idle"},
         pc[p] \in {"numbers", "publish"}, GoTo(p, where), faults' \in 0 .. MaxFaults,
         nums' \in [Proc -> [User -> Nat]], counter' \in [User -> Nat],
         published' \subseteq [user : User, num : Nat \ {0}, sender : User, group : Group],
         UNCHANGED <<members, cacheVars, reqVars, reqs, panicked>>
  PROVE  DataInv'
<1> USE DEF GoTo
<1>1. TypeOK'
  BY DEF DataInv, TypeOK, cacheVars, reqVars
<1>2. RequestInv' /\ ReadInv'
  BY DEF DataInv, TypeOK, RequestInv, RequestOf, ReadInv, ReadOf, WithGroup, reqVars
<1>3. CacheIsTable' /\ WholeAudience'
  BY DEF DataInv, TypeOK, CacheIsTable, WholeAudience, cacheVars, reqVars
<1> QED BY <1>1, <1>2, <1>3 DEF DataInv

\* Who is about to send has users in hand.
LEMMA AudienceKnown ==
  ASSUME DataInv, NEW p \in Proc, pc[p] \in {"numbers", "publish", "push"}
  PROVE  ids[p] \in SUBSET User /\ user[p] \in User /\ group[p] \in Group
<1>1. group[p] \in Group /\ user[p] \in User
  BY DEF DataInv, RequestInv, RequestOf, WithGroup
<1>2. ids[p] = members[group[p]] \ {user[p]}
  BY DEF DataInv, WholeAudience
<1> QED BY <1>1, <1>2 DEF DataInv, TypeOK

\* The numbers drawn are above all that were given out.
LEMMA DrawNumbersKeeps ==
  ASSUME DataInv, Numbers, NEW p \in Proc, DrawNumbers(p)
  PROVE  DataInv' /\ Numbers'
<1>1. pc[p] = "numbers" /\ ids[p] \in SUBSET User
  BY AudienceKnown DEF DrawNumbers, At
<1>2. PICK place \in {"publish", "idle"} : GoTo(p, place)
  BY ThenFacts DEF DrawNumbers, DataInv, Place
<1>3. faults' \in 0 .. MaxFaults
  BY ThenFacts DEF DrawNumbers, DataInv, Place
<1>4. UNCHANGED <<members, cacheVars, reqVars, published, reqs, panicked>>
  BY DEF DrawNumbers
<1>5. /\ nums' \in [Proc -> [User -> Nat]]
      /\ \A u \in ids[p] : nums'[p][u] = counter[u] + 1
      /\ \A q \in Proc \ {p} : nums'[q] = nums[q]
  BY <1>1 DEF DrawNumbers, DataInv, TypeOK
<1>6. /\ counter' \in [User -> Nat]
      /\ \A u \in User : counter'[u] >= counter[u]
      /\ \A u \in ids[p] : counter'[u] = counter[u] + 1
  BY <1>1 DEF DrawNumbers, CountUp, DataInv, TypeOK
<1>7. DataInv'
  BY <1>1, <1>2, <1>3, <1>4, <1>5, <1>6, SendingKeeps DEF DataInv, TypeOK
<1>8. /\ Waiting(p)' \subseteq ids[p]
      /\ \A q \in Proc \ {p} : Waiting(q)' = Waiting(q) /\ Waiting(q) \subseteq User
  BY <1>2, <1>4, AudienceKnown DEF Waiting, GoTo, DataInv, TypeOK, reqVars
<1>9. /\ \A r \in published : r.num \in Nat /\ r.user \in User /\ r.num <= counter[r.user]
      /\ \A q \in Proc \ {p} : \A u \in Waiting(q) :
            nums[q][u] \in 1 .. counter[u] /\ counter[u] \in Nat
  BY <1>8 DEF Numbers, NumberInv, DataInv, TypeOK
<1>10. NumberInv'
  <2>1. \A q \in Proc : \A u \in Waiting(q)' : nums'[q][u] \in 1 .. counter'[u]
    <3> SUFFICES ASSUME NEW q \in Proc, NEW u \in Waiting(q)'
                 PROVE  nums'[q][u] \in 1 .. counter'[u]
      OBVIOUS
    <3>1. CASE q = p
      BY <1>1, <1>5, <1>6, <1>8, <3>1 DEF DataInv, TypeOK
    <3>2. CASE q # p
      BY <1>5, <1>6, <1>8, <1>9, <3>2 DEF DataInv, TypeOK
    <3> QED BY <3>1, <3>2
  <2>2. \A r \in published' : r.num <= counter'[r.user]
    BY <1>4, <1>6, <1>9 DEF DataInv, TypeOK
  <2> QED BY <2>1, <2>2 DEF NumberInv
<1>11. NumbersFresh'
  <2> SUFFICES ASSUME NEW q \in Proc, NEW u \in Waiting(q)'
               PROVE  /\ \A r \in published' : r.user = u => r.num # nums'[q][u]
                      /\ \A o \in Proc \ {q} : u \in Waiting(o)' => nums'[q][u] # nums'[o][u]
    BY DEF NumbersFresh
  <2>1. u \in User /\ counter[u] \in Nat
    BY <1>1, <1>8 DEF DataInv, TypeOK
  <2>2. CASE q = p
    BY <1>4, <1>5, <1>8, <1>9, <2>1, <2>2
  <2>3. CASE q # p
    <3>1. \A r \in published' : r.user = u => r.num # nums'[q][u]
      BY <1>4, <1>5, <1>8, <2>3 DEF Numbers, NumbersFresh
    <3>2. \A o \in Proc \ {p, q} : u \in Waiting(o)' => nums'[q][u] # nums'[o][u]
      BY <1>5, <1>8, <2>3 DEF Numbers, NumbersFresh
    <3>3. u \in Waiting(p)' => nums'[q][u] # nums'[p][u]
      BY <1>5, <1>8, <1>9, <2>1, <2>3
    <3> QED BY <3>1, <3>2, <3>3
  <2> QED BY <2>2, <2>3
<1> QED BY <1>7, <1>10, <1>11 DEF Numbers

\* What is published leaves the numbers that wait.
LEMMA PublishKeeps ==
  ASSUME DataInv, Numbers, NEW p \in Proc, Publish(p)
  PROVE  DataInv' /\ Numbers'
<1>1. /\ pc[p] = "publish" /\ Waiting(p) = ids[p]
      /\ ids[p] \in SUBSET User /\ user[p] \in User /\ group[p] \in Group
  BY AudienceKnown DEF Publish, At, Waiting
<1>2. PICK place \in {"push", "idle"} : GoTo(p, place)
  BY ThenFacts DEF Publish, DataInv, Place
<1>3. faults' \in 0 .. MaxFaults
  BY ThenFacts DEF Publish, DataInv, Place
<1>4. UNCHANGED <<members, cacheVars, reqVars, nums, counter, reqs, panicked>>
  BY DEF Publish, Rows
<1>5. published' = published \cup
        {[user |-> u, num |-> nums[p][u], sender |-> user[p], group |-> group[p]] : u \in ids[p]}
  BY DEF Publish, Rows
<1>6. \A u \in ids[p] : nums[p][u] \in Nat \ {0} /\ nums[p][u] <= counter[u]
  BY <1>1 DEF Numbers, NumberInv, DataInv, TypeOK
<1>7. published' \subseteq [user : User, num : Nat \ {0}, sender : User, group : Group]
  BY <1>1, <1>5, <1>6 DEF DataInv, TypeOK
<1>8. DataInv'
  BY <1>1, <1>2, <1>3, <1>4, <1>7, SendingKeeps DEF DataInv, TypeOK
<1>9. Waiting(p)' = {} /\ \A q \in Proc \ {p} : Waiting(q)' = Waiting(q)
  BY <1>2, <1>4 DEF Waiting, GoTo, DataInv, TypeOK, reqVars
<1>10. \A r \in published' \ published : r.user \in ids[p] /\ r.num = nums[p][r.user]
  BY <1>5
<1>11. NumberInv'
  BY <1>4, <1>6, <1>9, <1>10 DEF Numbers, NumberInv
<1>12. NumbersFresh'
  BY <1>1, <1>4, <1>9, <1>10 DEF Numbers, NumbersFresh
<1> QED BY <1>8, <1>11, <1>12 DEF Numbers

\* Steps that neither draw nor publish keep the numbers.
LEMMA QuietStep ==
  ASSUME TypeOK, Numbers, NEW p \in Proc,
         \/ Request(p) \/ LookUpIds(p) \/ Insert(p) \/ Belongs(p) \/ ReadCache(p)
         \/ ReadTable(p) \/ FillCache(p) \/ SetExpiry(p) \/ CheckMember(p) \/ CallFails(p)
  PROVE  Numbers'
<1>1. \E where \in Place \ {"publish"} : GoTo(p, where)
  <2>1. CASE Request(p)
    BY <2>1 DEF Request, CreateGroup, GroupUserList, SendToGroup, Begin, Place
  <2>2. CASE LookUpIds(p) \/ Belongs(p) \/ ReadCache(p) \/ ReadTable(p) \/ CheckMember(p) \/ CallFails(p)
    BY <2>2 DEF LookUpIds, Belongs, ReadCache, ReadTable, CheckMember, CallFails, Answer, Place
  <2>3. CASE Insert(p) \/ FillCache(p) \/ SetExpiry(p)
    BY <2>3 DEF Insert, FillCache, SetExpiry, Then, Answer, Place
  <2> QED BY <2>1, <2>2, <2>3
<1>2. UNCHANGED chatVars /\ \A q \in Proc \ {p} : ids'[q] = ids[q]
  BY DEF TypeOK, Request, CreateGroup, GroupUserList, SendToGroup, Begin, LookUpIds, Insert,
         Belongs, ReadCache, ReadTable, FillCache, SetExpiry, CheckMember, CallFails, Have, reqVars
<1> QED BY <1>1, <1>2, NumbersKept

\* A request that begins keeps what is known.
LEMMA RequestKeeps ==
  ASSUME DataInv, NEW p \in Proc, Request(p)
  PROVE  DataInv'
<1>1. CASE CreateGroup(p)
  BY <1>1, BeginKeeps DEF CreateGroup
<1>2. CASE GroupUserList(p)
  BY <1>2, BeginKeeps DEF GroupUserList
<1>3. CASE SendToGroup(p)
  BY <1>3, BeginKeeps DEF SendToGroup
<1> QED BY <1>1, <1>2, <1>3 DEF Request

\* So do a failing call, and the question whether somebody belongs to a group.
LEMMA EndKeeps ==
  ASSUME DataInv, NEW p \in Proc, CallFails(p) \/ Belongs(p)
  PROVE  DataInv'
<1>1. CASE CallFails(p)
  BY <1>1, DataKept, GroupAssumption
     DEF CallFails, Calling, Fault, reqVars, DataInv, TypeOK
<1>2. CASE Belongs(p)
  <2>1. \E where \in {"smembers", "idle"} : GoTo(p, where)
    BY <1>2 DEF Belongs
  <2> QED BY <1>2, <2>1, DataKept DEF Belongs, At, WithGroup, reqVars, DataInv, TypeOK
<1> QED BY <1>1, <1>2

\* The panic changes nothing of what is stored.
LEMMA PushAllKeeps ==
  ASSUME GInv, NEW p \in Proc, PushAll(p)
  PROVE  GInv'
<1> USE DEF PushAll
<1>1. TypeOK'
  BY DEF GInv, TypeOK, cacheVars, chatVars, reqVars
<1>2. RequestInv' /\ ReadInv' /\ CacheIsTable' /\ WholeAudience'
  BY DEF GInv, RequestInv, RequestOf, ReadInv, ReadOf, CacheIsTable, WholeAudience,
         cacheVars, reqVars
<1>3. Numbers'
  BY NumbersUntouched DEF GInv, Numbers, chatVars, reqVars
<1> QED BY <1>1, <1>2, <1>3 DEF GInv, Numbers

\* Every step keeps the invariant.
LEMMA NextKeeps == GInv /\ [Next]_vars => GInv'
<1> SUFFICES ASSUME GInv, [Next]_vars PROVE GInv'
  OBVIOUS
<1>1. DataInv /\ Numbers /\ TypeOK
  BY DEF GInv, DataInv, Numbers
<1>2. (DataInv' /\ Numbers') => GInv'
  BY DEF GInv, DataInv, Numbers
<1>3. ASSUME NEW p \in Proc, Request(p) \/ CallFails(p) \/ Belongs(p) PROVE GInv'
  BY <1>1, <1>2, <1>3, RequestKeeps, EndKeeps, QuietStep
<1>4. ASSUME NEW p \in Proc, LookUpIds(p) \/ Insert(p) PROVE GInv'
  BY <1>1, <1>2, <1>4, LookUpIdsKeeps, InsertKeeps, QuietStep
<1>5. ASSUME NEW p \in Proc, ReadCache(p) \/ ReadTable(p) PROVE GInv'
  BY <1>1, <1>2, <1>5, ReadCacheKeeps, ReadTableKeeps, QuietStep
<1>6. ASSUME NEW p \in Proc, FillCache(p) \/ SetExpiry(p) \/ CheckMember(p) PROVE GInv'
  BY <1>1, <1>2, <1>6, FillCacheKeeps, SetExpiryKeeps, CheckMemberKeeps, QuietStep
<1>7. ASSUME NEW p \in Proc, DrawNumbers(p) \/ Publish(p) PROVE GInv'
  BY <1>1, <1>2, <1>7, DrawNumbersKeeps, PublishKeeps
<1>8. ASSUME NEW p \in Proc, PushAll(p) PROVE GInv'
  BY <1>8, PushAllKeeps
<1>9. ASSUME NEW g \in Group, KeyExpires(g) PROVE GInv'
  BY <1>1, <1>2, <1>9, KeyExpiresKeeps, NumbersUntouched DEF KeyExpires, reqVars
<1>10. CASE UNCHANGED vars
  BY <1>10 DEF GInv, TypeOK, RequestInv, RequestOf, ReadInv, ReadOf, CacheIsTable,
       WholeAudience, NumberInv, NumbersFresh, Waiting, vars, cacheVars, chatVars, reqVars
<1> QED BY <1>3, <1>4, <1>5, <1>6, <1>7, <1>8, <1>9, <1>10 DEF Next, Handle

----------------------------------------------------------------------------
(* What is pushed is stored.                                               *)

\* A goroutine is about to push if it has just published, or was about to
\* before; then what it sends is the same, and what was published still is.
LEMMA Pushing ==
  ASSUME TypeOK, Next, NEW q \in Proc, pc'[q] = "push", ~Publish(q)
  PROVE  /\ pc[q] = "push" /\ published \subseteq published'
         /\ UNCHANGED <<user[q], group[q], ids[q], nums[q]>>
<1> DEFINE Goal == /\ pc[q] = "push" /\ published \subseteq published'
                   /\ UNCHANGED <<user[q], group[q], ids[q], nums[q]>>
<1> USE DEF TypeOK, At, GoTo, Have, reqVars, chatVars
<1>1. ASSUME NEW p \in Proc, Request(p) \/ CallFails(p) \/ Belongs(p) \/ LookUpIds(p)
      PROVE  Goal
  BY <1>1 DEF Request, CreateGroup, GroupUserList, SendToGroup, Begin, CallFails, Calling,
       Belongs, LookUpIds
<1>2. ASSUME NEW p \in Proc, Insert(p) PROVE Goal
  BY <1>2 DEF Insert, Then
<1>3. ASSUME NEW p \in Proc, ReadCache(p) \/ ReadTable(p) \/ CheckMember(p) PROVE Goal
  BY <1>3 DEF ReadCache, ReadTable, CheckMember, Answer
<1>4. ASSUME NEW p \in Proc, FillCache(p) \/ SetExpiry(p) PROVE Goal
  BY <1>4 DEF FillCache, SetExpiry, Then, Answer
<1>5. ASSUME NEW p \in Proc, DrawNumbers(p) PROVE Goal
  BY <1>5 DEF DrawNumbers, Then
<1>6. ASSUME NEW p \in Proc, Publish(p) PROVE Goal
  BY <1>6 DEF Publish, Then
<1>7. ASSUME NEW p \in Proc, PushAll(p) PROVE Goal
  BY <1>7 DEF PushAll
<1>8. ASSUME NEW g \in Group, KeyExpires(g) PROVE Goal
  BY <1>8 DEF KeyExpires
<1> QED BY <1>1, <1>2, <1>3, <1>4, <1>5, <1>6, <1>7, <1>8 DEF Next, Handle

\* The members it is to be pushed to are those the rows were written for, as
\* nobody joins a group or leaves one.
LEMMA NextStores == GInv /\ GInv' /\ StoredBeforePush /\ [Next]_vars => StoredBeforePush'
<1> SUFFICES ASSUME GInv, GInv', StoredBeforePush, [Next]_vars,
                    NEW p \in Proc, pc'[p] = "push",
                    NEW u \in members'[group'[p]] \ {user'[p]}
             PROVE  \E r \in published' : /\ r.user = u /\ r.num = nums'[p][u]
                                          /\ r.sender = user'[p] /\ r.group = group'[p]
  BY DEF StoredBeforePush
<1>1. u \in ids'[p]
  BY DEF GInv, WholeAudience
<1>2. CASE Publish(p)
  <2>1. UNCHANGED <<ids, nums, user, group>> /\ published' = published \cup Rows(p)
    BY <1>2 DEF Publish, reqVars
  <2>2. [user |-> u, num |-> nums[p][u], sender |-> user[p], group |-> group[p]] \in Rows(p)
    BY <1>1, <2>1 DEF Rows
  <2> QED BY <2>1, <2>2
<1>3. CASE Next /\ ~Publish(p)
  <2>1. /\ pc[p] = "push" /\ published \subseteq published'
        /\ UNCHANGED <<user[p], group[p], ids[p], nums[p]>>
    BY <1>3, Pushing DEF GInv
  <2>2. u \in members[group[p]] \ {user[p]}
    BY <1>1, <2>1 DEF GInv, WholeAudience
  <2> QED BY <2>1, <2>2 DEF StoredBeforePush
<1>4. CASE UNCHANGED vars
  BY <1>4 DEF StoredBeforePush, vars, reqVars, chatVars
<1> QED BY <1>2, <1>3, <1>4

----------------------------------------------------------------------------
(* The theorems.                                                           *)

\* The inductive invariant holds in every reachable state.
THEOREM GroupInvariance == Spec => []GInv
BY InitHolds, NextKeeps, PTL DEF Spec

\* Every variable has its type.
THEOREM GroupTypeCorrect == Spec => []TypeOK
<1>1. GInv => TypeOK
  BY DEF GInv
<1> QED BY <1>1, GroupInvariance, PTL

\* The cached member set is the one in the table, or there is none
\* (group.go:46-55, 129-148).
THEOREM CacheSafe == Spec => []CacheIsTable
<1>1. GInv => CacheIsTable
  BY DEF GInv
<1> QED BY <1>1, GroupInvariance, PTL

\* A group message goes to every member but its sender, and to nobody else
\* (message.go:140-167).
THEOREM AudienceSafe == Spec => []WholeAudience
<1>1. GInv => WholeAudience
  BY DEF GInv
<1> QED BY <1>1, GroupInvariance, PTL

\* No number is given to two messages for one user (seq_cache.go:34-40).
THEOREM NumbersSafe == Spec => []NumbersFresh
<1>1. GInv => NumbersFresh
  BY DEF GInv
<1> QED BY <1>1, GroupInvariance, PTL

\* A push is only ever of what is stored, under the number it was stored
\* with (message.go:166-215).
THEOREM StoreSafe == Spec => []StoredBeforePush
<1>1. Init => StoredBeforePush
  BY DEF Init, StoredBeforePush
<1> QED BY <1>1, NextStores, GroupInvariance, PTL DEF Spec
=============================================================================
