------------------------- MODULE GatewayOrderProofs -------------------------
(***************************************************************************)
(* Proof that the readers, the task queues and the workers of Gateway      *)
(* implement SerialPerConn, for any number of connections, workers and     *)
(* requests and queues of any length.                                      *)
(***************************************************************************)
EXTENDS GatewayWedgeProofs, GatewayOrder, FiniteSetTheorems, FunctionTheorems

----------------------------------------------------------------------------
(* The places of a connection in a queue.                                  *)

UpTo(S, i) == {j \in S : j <= i}

\* In a finite set of numbers, the members up to one count it.
LEMMA NthIs ==
  ASSUME NEW S \in SUBSET Nat, IsFiniteSet(S)
  PROVE  /\ Cardinality(S) \in Nat
         /\ \A i \in S : Cardinality(UpTo(S, i)) \in 1 .. Cardinality(S)
         /\ \A i, j \in S : Cardinality(UpTo(S, i)) = Cardinality(UpTo(S, j)) => i = j
         /\ \A k \in 1 .. Cardinality(S) :
               Nth(S, k) \in S /\ Cardinality(UpTo(S, Nth(S, k))) = k
<1> DEFINE rank == [i \in S |-> Cardinality(UpTo(S, i))]
<1>1. Cardinality(S) \in Nat
  BY FS_CardinalityType
<1>2. \A i \in S : UpTo(S, i) \in SUBSET S /\ i \in UpTo(S, i)
  BY DEF UpTo
<1>3. \A i \in S : /\ IsFiniteSet(UpTo(S, i)) /\ Cardinality(UpTo(S, i)) \in Nat
                   /\ Cardinality(UpTo(S, i)) # 0
                   /\ Cardinality(UpTo(S, i)) <= Cardinality(S)
  BY <1>2, FS_Subset, FS_CardinalityType, FS_EmptySet
<1>4. \A i \in S : Cardinality(UpTo(S, i)) \in 1 .. Cardinality(S)
  BY <1>1, <1>3
<1>5. ASSUME NEW i \in S, NEW j \in S, Cardinality(UpTo(S, i)) = Cardinality(UpTo(S, j)), i < j
      PROVE  FALSE
  <2>1. UpTo(S, i) \in SUBSET UpTo(S, j) /\ j \notin UpTo(S, i)
    <3>1. \A n \in S : n \in Nat
      OBVIOUS
    <3>2. \A n \in S : n <= i => n <= j
      BY <1>5, <3>1
    <3>3. ~(j <= i)
      BY <1>5, <3>1
    <3>4. QED
      BY <3>2, <3>3 DEF UpTo
  <2>2. UpTo(S, i) = UpTo(S, j)
    BY <1>3, <1>5, <2>1, FS_Subset
  <2>3. QED
    BY <1>2, <2>1, <2>2
<1>6. \A i, j \in S : Cardinality(UpTo(S, i)) = Cardinality(UpTo(S, j)) => i = j
  <2> SUFFICES ASSUME NEW i \in S, NEW j \in S, Cardinality(UpTo(S, i)) = Cardinality(UpTo(S, j))
               PROVE  i = j
    OBVIOUS
  <2>1. i \in Nat /\ j \in Nat /\ ~(i < j) /\ ~(j < i)
    BY <1>5
  <2>2. QED
    BY <2>1
<1>7. rank \in Injection(S, 1 .. Cardinality(S))
  BY <1>4, <1>6 DEF Injection, IsInjective
<1>8. IsFiniteSet(1 .. Cardinality(S)) /\ Cardinality(1 .. Cardinality(S)) = Cardinality(S)
  BY <1>1, FS_Interval
<1>9. rank \in Surjection(S, 1 .. Cardinality(S))
  <2> HIDE DEF rank
  <2>1. QED
    BY <1>7, <1>8, FS_Injection
<1>10. \A k \in 1 .. Cardinality(S) : \E i \in S : Cardinality(UpTo(S, i)) = k
  BY <1>9 DEF Surjection
<1>11. \A k \in 1 .. Cardinality(S) : Nth(S, k) \in S /\ Cardinality(UpTo(S, Nth(S, k))) = k
  BY <1>10 DEF Nth, UpTo
<1>12. QED
  BY <1>1, <1>4, <1>6, <1>11

\* As many numbers after a shift by one as before.
LEMMA ShiftedCount ==
  ASSUME NEW A \in SUBSET Nat, IsFiniteSet(A), NEW B \in SUBSET Nat,
         \A i \in A : i + 1 \in B, \A i \in B : i - 1 \in A
  PROVE  IsFiniteSet(B) /\ Cardinality(B) = Cardinality(A)
<1> DEFINE shift == [i \in A |-> i + 1]
<1>1. shift \in [A -> B] /\ \A i, j \in A : shift[i] = shift[j] => i = j
  OBVIOUS
<1>2. \A i \in B : \E j \in A : shift[j] = i
  <2> SUFFICES ASSUME NEW i \in B PROVE shift[i - 1] = i
    OBVIOUS
  <2>1. QED
    OBVIOUS
<1> HIDE DEF shift
<1>3. shift \in Bijection(A, B)
  BY <1>1, <1>2, Fun_IsBij
<1>4. QED
  BY <1>3, FS_Bijection, Fun_ExistsBij

LEMMA PlacesAre ==
  ASSUME NEW q \in Seq(Req), NEW c \in Conn
  PROVE  /\ Places(q, c) \in SUBSET (1 .. Len(q)) /\ Places(q, c) \in SUBSET Nat
         /\ IsFiniteSet(Places(q, c)) /\ Cardinality(Places(q, c)) \in Nat
         /\ Requests(q, c) \in Seq(Req)
         /\ Len(Requests(q, c)) = Cardinality(Places(q, c))
         /\ \A k \in 1 .. Cardinality(Places(q, c)) :
               Requests(q, c)[k] = q[Nth(Places(q, c), k)]
<1> DEFINE P == Places(q, c)
<1>1. P \in SUBSET (1 .. Len(q)) /\ P \in SUBSET Nat /\ Len(q) \in Nat
  BY DEF Places
<1>2. IsFiniteSet(P)
  <2>1. IsFiniteSet(1 .. Len(q))
    BY <1>1, FS_Interval
  <2>2. QED
    BY <1>1, <2>1, FS_Subset
<1>3. Cardinality(P) \in Nat /\ \A k \in 1 .. Cardinality(P) : Nth(P, k) \in P
  <2> HIDE DEF P
  <2>1. QED
    BY <1>1, <1>2, NthIs
<1>4. \A k \in 1 .. Cardinality(P) : q[Nth(P, k)] \in Req
  BY <1>1, <1>3
<1>5. Requests(q, c) = [k \in 1 .. Cardinality(P) |-> q[Nth(P, k)]]
  BY DEF Requests
<1> HIDE DEF P
<1>6. Requests(q, c) \in Seq(Req) /\ Len(Requests(q, c)) = Cardinality(P)
  BY <1>3, <1>4, <1>5
<1>7. QED
  BY <1>1, <1>2, <1>3, <1>5, <1>6 DEF P

LEMMA NthFound ==
  ASSUME NEW S \in SUBSET Nat, IsFiniteSet(S), NEW i \in S
  PROVE  Nth(S, Cardinality(UpTo(S, i))) = i
<1> DEFINE k == Cardinality(UpTo(S, i))
           n == Nth(S, k)
<1>1. k \in 1 .. Cardinality(S)
  BY NthIs
<1> HIDE DEF k
<1>2. n \in S /\ Cardinality(UpTo(S, n)) = k
  BY <1>1, NthIs
<1> HIDE DEF n
<1>3. n = i
  BY <1>2, NthIs DEF k
<1>4. QED
  BY <1>3 DEF k, n

LEMMA SameSeq ==
  ASSUME NEW s \in Seq(Req), NEW t \in Seq(Req), Len(s) = Len(t),
         \A k \in 1 .. Len(s) : s[k] = t[k]
  PROVE  s = t
OBVIOUS

\* A request at the end of the queue is the last one of its connection.
LEMMA RequestsAppend ==
  ASSUME NEW q \in Seq(Req), NEW c \in Conn, NEW r \in Req
  PROVE  Requests(Append(q, r), c)
           = IF r.conn = c THEN Append(Requests(q, c), r) ELSE Requests(q, c)
<1> DEFINE n == Len(q) + 1
           p == Append(q, r)
           P == Places(q, c)
           N == Places(p, c)
<1>1. /\ p \in Seq(Req) /\ Len(p) = n /\ Len(q) \in Nat /\ p[n] = r
      /\ \A i \in 1 .. Len(q) : p[i] = q[i]
  OBVIOUS
<1>2. /\ P \in SUBSET (1 .. Len(q)) /\ P \in SUBSET Nat /\ IsFiniteSet(P) /\ Cardinality(P) \in Nat
      /\ Requests(q, c) \in Seq(Req) /\ Len(Requests(q, c)) = Cardinality(P)
      /\ \A k \in 1 .. Cardinality(P) : Requests(q, c)[k] = q[Nth(P, k)]
  BY PlacesAre
<1>3. /\ N \in SUBSET Nat /\ IsFiniteSet(N) /\ Cardinality(N) \in Nat
      /\ Requests(p, c) \in Seq(Req) /\ Len(Requests(p, c)) = Cardinality(N)
      /\ \A k \in 1 .. Cardinality(N) : Requests(p, c)[k] = p[Nth(N, k)]
  <2> HIDE DEF p
  <2>1. QED
    BY <1>1, PlacesAre
<1>4. N = IF r.conn = c THEN P \cup {n} ELSE P
  <2> HIDE DEF p
  <2>1. QED
    BY <1>1 DEF Places
<1>5. n \notin P
  BY <1>1, <1>2
<1> HIDE DEF P, N, p
<1>6. \A i \in P : UpTo(N, i) = UpTo(P, i)
  <2> SUFFICES ASSUME NEW i \in P PROVE UpTo(N, i) = UpTo(P, i)
    OBVIOUS
  <2>1. i \in Nat /\ i <= Len(q) /\ ~(n <= i)
    BY <1>1, <1>2
  <2>2. QED
    BY <1>4, <2>1 DEF UpTo
<1>7. P \in SUBSET N
  BY <1>4
<1>8. \A k \in 1 .. Cardinality(P) : /\ Nth(P, k) \in P /\ Nth(N, k) = Nth(P, k)
                                     /\ p[Nth(N, k)] = q[Nth(P, k)]
  <2> SUFFICES ASSUME NEW k \in 1 .. Cardinality(P)
               PROVE  /\ Nth(P, k) \in P /\ Nth(N, k) = Nth(P, k)
                      /\ p[Nth(N, k)] = q[Nth(P, k)]
    OBVIOUS
  <2>1. Nth(P, k) \in P /\ Cardinality(UpTo(P, Nth(P, k))) = k
    BY <1>2, NthIs
  <2>2. Nth(P, k) \in N /\ Cardinality(UpTo(N, Nth(P, k))) = k
    BY <1>6, <1>7, <2>1
  <2>3. Nth(N, k) = Nth(P, k)
    BY <1>3, <2>2, NthFound
  <2>4. Nth(P, k) \in 1 .. Len(q)
    BY <1>2, <2>1
  <2>5. QED
    BY <1>1, <2>1, <2>3, <2>4
<1>9. CASE r.conn = c
  <2>1. Cardinality(N) = Cardinality(P) + 1
    BY <1>2, <1>4, <1>5, <1>9, FS_AddElement
  <2>2. n \in N /\ UpTo(N, n) = N
    <3>1. \A i \in N : i <= n
      BY <1>1, <1>2, <1>4, <1>9
    <3>2. QED
      BY <1>4, <1>9, <3>1 DEF UpTo
  <2>3. Nth(N, Cardinality(N)) = n
    BY <1>3, <2>2, NthFound
  <2> DEFINE t == Append(Requests(q, c), r)
  <2>4. /\ t \in Seq(Req) /\ Len(t) = Cardinality(P) + 1 /\ t[Cardinality(P) + 1] = r
        /\ \A k \in 1 .. Cardinality(P) : t[k] = Requests(q, c)[k]
    BY <1>2
  <2> HIDE DEF t
  <2>5. \A k \in 1 .. Len(Requests(p, c)) : Requests(p, c)[k] = t[k]
    <3> SUFFICES ASSUME NEW k \in 1 .. Cardinality(N) PROVE Requests(p, c)[k] = t[k]
      BY <1>3
    <3>1. CASE k = Cardinality(N)
      BY <1>1, <1>3, <2>1, <2>3, <2>4, <3>1
    <3>2. CASE k # Cardinality(N)
      <4>1. k \in 1 .. Cardinality(P)
        BY <1>2, <2>1, <3>2
      <4>2. QED
        BY <1>2, <1>3, <1>8, <2>4, <4>1
    <3>3. QED
      BY <3>1, <3>2
  <2>6. Requests(p, c) = t
    BY <1>3, <2>1, <2>4, <2>5, SameSeq
  <2>7. QED
    BY <1>9, <2>6 DEF t, p
<1>10. CASE r.conn # c
  <2>1. N = P
    BY <1>4, <1>10
  <2>2. \A k \in 1 .. Len(Requests(p, c)) : Requests(p, c)[k] = Requests(q, c)[k]
    BY <1>2, <1>3, <1>8, <2>1
  <2>3. Requests(p, c) = Requests(q, c)
    BY <1>2, <1>3, <2>1, <2>2, SameSeq
  <2>4. QED
    BY <1>10, <2>3 DEF p
<1>11. QED
  BY <1>9, <1>10

\* The request at the front of the queue is the first one of its connection.
LEMMA RequestsTail ==
  ASSUME NEW q \in Seq(Req), NEW c \in Conn, q # <<>>
  PROVE  /\ Head(q).conn # c => Requests(Tail(q), c) = Requests(q, c)
         /\ Head(q).conn = c => /\ Requests(q, c) # <<>> /\ Head(Requests(q, c)) = Head(q)
                                /\ Requests(Tail(q), c) = Tail(Requests(q, c))
<1> DEFINE p == Tail(q)
           P == Places(q, c)
           N == Places(p, c)
           M == P \ {1}
<1>1. /\ p \in Seq(Req) /\ Len(p) \in Nat /\ Len(q) = Len(p) + 1 /\ Head(q) = q[1]
      /\ \A i \in 1 .. Len(p) : p[i] = q[i + 1]
  OBVIOUS
<1>2. /\ P \in SUBSET (1 .. Len(q)) /\ P \in SUBSET Nat /\ IsFiniteSet(P) /\ Cardinality(P) \in Nat
      /\ Requests(q, c) \in Seq(Req) /\ Len(Requests(q, c)) = Cardinality(P)
      /\ \A k \in 1 .. Cardinality(P) : Requests(q, c)[k] = q[Nth(P, k)]
  BY PlacesAre
<1>3. /\ N \in SUBSET (1 .. Len(p)) /\ N \in SUBSET Nat /\ IsFiniteSet(N) /\ Cardinality(N) \in Nat
      /\ Requests(p, c) \in Seq(Req) /\ Len(Requests(p, c)) = Cardinality(N)
      /\ \A k \in 1 .. Cardinality(N) : Requests(p, c)[k] = p[Nth(N, k)]
  <2> HIDE DEF p
  <2>1. QED
    BY <1>1, PlacesAre
<1>4. /\ \A i \in N : i + 1 \in M
      /\ \A i \in M : i - 1 \in N
      /\ 1 \in P <=> Head(q).conn = c
  <2> HIDE DEF p
  <2>1. QED
    BY <1>1 DEF Places
<1>5. IsFiniteSet(M) /\ M \in SUBSET Nat
  BY <1>2, FS_Subset
<1> HIDE DEF P, N, p
<1>6. Cardinality(M) = Cardinality(N)
  <2> HIDE DEF M
  <2>1. QED
    BY <1>3, <1>4, <1>5, ShiftedCount
<1>7. \A i \in N : /\ i + 1 \in P
                   /\ Cardinality(UpTo(M, i + 1)) = Cardinality(UpTo(N, i))
                   /\ IsFiniteSet(UpTo(M, i + 1))
  <2> SUFFICES ASSUME NEW i \in N
               PROVE  /\ i + 1 \in P
                      /\ Cardinality(UpTo(M, i + 1)) = Cardinality(UpTo(N, i))
                      /\ IsFiniteSet(UpTo(M, i + 1))
    OBVIOUS
  <2>1. i + 1 \in P /\ i \in Nat
    BY <1>3, <1>4
  <2> HIDE DEF M
  <2>2. UpTo(N, i) \in SUBSET N /\ UpTo(M, i + 1) \in SUBSET M
    BY DEF UpTo
  <2>3. IsFiniteSet(UpTo(N, i)) /\ UpTo(N, i) \in SUBSET Nat /\ UpTo(M, i + 1) \in SUBSET Nat
    BY <1>3, <1>5, <2>2, FS_Subset
  <2>4. \A j \in UpTo(N, i) : j + 1 \in UpTo(M, i + 1)
    <3> SUFFICES ASSUME NEW j \in N, j <= i PROVE j + 1 \in M /\ j + 1 <= i + 1
      BY DEF UpTo
    <3>1. j \in Nat
      BY <1>3
    <3>2. QED
      BY <1>4, <2>1, <3>1
  <2>5. \A j \in UpTo(M, i + 1) : j - 1 \in UpTo(N, i)
    <3> SUFFICES ASSUME NEW j \in M, j <= i + 1 PROVE j - 1 \in N /\ j - 1 <= i
      BY DEF UpTo
    <3>1. j \in Nat
      BY <1>5
    <3>2. QED
      BY <1>4, <2>1, <3>1
  <2>6. QED
    BY <2>1, <2>3, <2>4, <2>5, ShiftedCount
<1>8. CASE Head(q).conn # c
  <2>1. M = P
    BY <1>4, <1>8
  <2>2. \A k \in 1 .. Cardinality(N) : p[Nth(N, k)] = q[Nth(P, k)]
    <3> SUFFICES ASSUME NEW k \in 1 .. Cardinality(N) PROVE p[Nth(N, k)] = q[Nth(P, k)]
      OBVIOUS
    <3> HIDE DEF M
    <3>1. Nth(N, k) \in N /\ Cardinality(UpTo(N, Nth(N, k))) = k
      BY <1>3, NthIs
    <3>2. Nth(N, k) + 1 \in P /\ Cardinality(UpTo(P, Nth(N, k) + 1)) = k
      BY <1>7, <2>1, <3>1
    <3>3. Nth(P, k) = Nth(N, k) + 1
      BY <1>2, <3>2, NthFound
    <3>4. Nth(N, k) \in 1 .. Len(p)
      BY <1>3, <3>1
    <3>5. QED
      BY <1>1, <3>3, <3>4
  <2>3. Cardinality(N) = Cardinality(P)
    BY <1>6, <2>1
  <2>4. Requests(p, c) = Requests(q, c)
    BY <1>2, <1>3, <2>2, <2>3, SameSeq
  <2>5. QED
    BY <1>8, <2>4 DEF p
<1>9. CASE Head(q).conn = c
  <2>1. 1 \in P /\ P = M \cup {1} /\ 1 \notin M
    BY <1>4, <1>9
  <2>2. Cardinality(P) = Cardinality(N) + 1
    <3> HIDE DEF M
    <3>1. QED
      BY <1>5, <1>6, <2>1, FS_AddElement
  <2>3. Nth(P, 1) = 1
    <3>1. UpTo(P, 1) = {1}
      <4>1. \A i \in P : i <= 1 => i = 1
        BY <1>2
      <4>2. 1 \in P /\ 1 <= 1
        BY <2>1
      <4>3. QED
        BY <4>1, <4>2 DEF UpTo
    <3>2. Cardinality(UpTo(P, 1)) = 1
      BY <3>1, FS_Singleton
    <3>3. QED
      BY <1>2, <2>1, <3>2, NthFound
  <2>4. \A k \in 1 .. Cardinality(N) : p[Nth(N, k)] = q[Nth(P, k + 1)]
    <3> SUFFICES ASSUME NEW k \in 1 .. Cardinality(N) PROVE p[Nth(N, k)] = q[Nth(P, k + 1)]
      OBVIOUS
    <3> DEFINE i == Nth(N, k)
    <3>1. i \in N /\ Cardinality(UpTo(N, i)) = k /\ i \in 1 .. Len(p)
      BY <1>3, NthIs
    <3> HIDE DEF i
    <3>2. i + 1 \in P /\ Cardinality(UpTo(M, i + 1)) = k /\ IsFiniteSet(UpTo(M, i + 1))
      BY <1>7, <3>1
    <3>3. UpTo(P, i + 1) = UpTo(M, i + 1) \cup {1} /\ 1 \notin UpTo(M, i + 1)
      <4>1. 1 <= i + 1
        BY <3>1
      <4> HIDE DEF M
      <4>2. QED
        BY <2>1, <4>1 DEF UpTo
    <3>4. Cardinality(UpTo(P, i + 1)) = k + 1
      BY <3>2, <3>3, FS_AddElement
    <3>5. Nth(P, k + 1) = i + 1
      BY <1>2, <3>2, <3>4, NthFound
    <3>6. QED
      BY <1>1, <3>1, <3>5 DEF i
  <2> DEFINE s == Requests(q, c)
  <2>5. s \in Seq(Req) /\ Len(s) = Cardinality(N) + 1 /\ Cardinality(N) \in Nat
    BY <1>2, <1>3, <2>2
  <2>6. s # <<>> /\ Head(s) = s[1] /\ s[1] = q[1]
    <3>1. s[1] = q[Nth(P, 1)]
      BY <1>2, <1>3, <2>2
    <3> HIDE DEF s
    <3>2. QED
      BY <2>3, <2>5, <3>1
  <2>7. /\ Tail(s) \in Seq(Req) /\ Len(Tail(s)) = Cardinality(N)
        /\ \A k \in 1 .. Cardinality(N) : Tail(s)[k] = s[k + 1]
    <3> HIDE DEF s
    <3>1. QED
      BY <2>5, <2>6
  <2>8. \A k \in 1 .. Cardinality(N) : s[k + 1] = q[Nth(P, k + 1)]
    <3> SUFFICES ASSUME NEW k \in 1 .. Cardinality(N) PROVE s[k + 1] = q[Nth(P, k + 1)]
      OBVIOUS
    <3>1. k + 1 \in 1 .. Cardinality(P)
      BY <1>3, <2>2
    <3>2. QED
      BY <1>2, <3>1
  <2>9. Requests(p, c) = Tail(s)
    <3> HIDE DEF s
    <3>1. QED
      BY <1>3, <2>4, <2>7, <2>8, SameSeq
  <2>10. QED
    BY <1>1, <1>9, <2>6, <2>9 DEF p
<1>10. QED
  BY <1>8, <1>9

----------------------------------------------------------------------------
(* What the steps do with requests.                                        *)

\* A worker between two requests.
LEMMA IdleStep ==
  ASSUME IInv, FreshInv, RestInv, [Next]_vars, NEW w \in Worker, pc'[Pooled(w)] = "idle"
  PROVE  job'[w] = NoReq
<1>1. Pooled(w) \in Thread /\ PcOK /\ WorkOK
  BY ThreadKinds DEF IInv, TypeOK
<1>2. CASE Stop(Pooled(w))
  <2>1. ReturnFromStop(Pooled(w))
    BY <1>1, <1>2, GotoFacts DEF Stop, StopLock, StopAgain, StopEnter, StopUnmap, StopOffline, StopFinish
  <2>2. QED
    BY <2>1 DEF ReturnFromStop
<1>3. CASE WorkerStep(w)
  <2>1. Finish(w) => job'[w] = NoReq
    BY <1>1 DEF Finish, WorkOK
  <2>2. ASSUME NEW l, Goto(Pooled(w), l) PROVE l = "idle"
    BY <1>1, <2>2, GotoFacts
  <2>3. pc[Pooled(w)] = "idle" /\ job' = job => job'[w] = NoReq
    BY DEF RestInv
  <2>4. CASE SkipReq(w)
    BY <2>3, <2>4 DEF SkipReq, Takes, At, workVars
  <2>5. CASE StartLogin(w) \/ StartMessage(w) \/ StartSync(w) \/ LoginGet(w) \/ LoginUser(w) \/ LoginAdd(w)
    BY <2>2, <2>5 DEF StartLogin, StartMessage, StartSync, LoginGet, LoginUser, LoginAdd, CallSendMsg
  <2>6. CASE LoginSet(w) \/ Lookup(w) \/ Deliver(w)
    BY <2>1, <2>2, <2>6 DEF LoginSet, Lookup, Deliver, SendAck, CallSendMsg
  <2>7. CASE SendLock(w) \/ SendLoad(w)
    BY <2>1, <2>2, <2>7 DEF SendLock, SendLoad, SendReturn, SendAck, CallSendMsg
  <2>8. CASE SendPut(w)
    BY <2>1, <2>2, <2>3, <2>8 DEF SendPut, At, SendReturn, SendAck, CallSendMsg, workVars
  <2>9. QED
    BY <1>3, <2>4, <2>5, <2>6, <2>7, <2>8 DEF WorkerStep
<1>4. CASE ~Stop(Pooled(w)) /\ ~WorkerStep(w)
  <2>1. pc[Pooled(w)] = "idle"
    BY <1>1, <1>4, WhoMoves, ThreadsDiffer
  <2>2. job'[w] = job[w]
    <3>1. CASE \E v \in Worker : WorkerStep(v)
      <4>1. PICK v \in Worker : WorkerStep(v) /\ v # w
        BY <1>4, <3>1
      <4>2. QED
        BY <1>1, <4>1 DEF WorkOK, WorkerStep, SkipReq, StartLogin, StartMessage, StartSync, LoginGet,
           LoginSet, LoginUser, LoginAdd, Lookup, Deliver, SendLock, SendLoad, SendPut, SendReturn, SendAck,
           CallSendMsg, Finish, workVars
    <3>2. CASE \E t \in Thread : Stop(t)
      <4>1. PICK t \in Thread : Stop(t) /\ t # Pooled(w)
        BY <1>4, <3>2
      <4>2. QED
        BY <4>1 DEF Stop, StopLock, StopAgain, StopEnter, StopUnmap, StopOffline, StopFinish,
           ReturnFromStop, workVars
    <3>3. CASE UNCHANGED job
      BY <3>3
    <3>4. QED
      BY <3>1, <3>2, <3>3 DEF Next, ConnStep, Connect, ReadFrame, ReaderKeepLive, Enqueue, ReadError,
         WriterStep, WriterRecv, WriterTick, WriterFlush, WriterKeepLive, WriterExit, GoStale, HbStep,
         HbTick, HbCheck, HbAlive, HbDone, HbQuit, SignalStop, ShutdownDone, KeyExpire, vars, workVars
  <2>3. QED
    BY <2>1, <2>2 DEF RestInv
<1>5. QED
  BY <1>2, <1>3, <1>4

\* A reader between two commands.
LEMMA ReaderRests ==
  ASSUME IInv, FreshInv, RestInv, [Next]_vars, NEW c \in Conn,
         pc'[Reader(c)] \notin {"keepLive", "enqueue"}
  PROVE  held'[c] = NoReq
<1>1. Reader(c) \in Thread /\ PcOK /\ InOK
  BY ThreadKinds DEF IInv, TypeOK
<1>2. CASE ReadFrame(c)
  <2>1. UNCHANGED <<held, pc>>
    BY <1>1, <1>2, GotoFacts DEF ReadFrame
  <2>2. QED
    BY <2>1, <1>1 DEF RestInv
<1>3. CASE Enqueue(c)
  BY <1>1, <1>3 DEF Enqueue, InOK
<1>4. CASE ReaderKeepLive(c)
  BY <1>1, <1>4, GotoFacts DEF ReaderKeepLive
<1>5. CASE ~ReadFrame(c) /\ ~Enqueue(c) /\ ~ReaderKeepLive(c)
  <2>1. held'[c] = held[c]
    <3>1. CASE \E d \in Conn : ReadFrame(d) \/ Enqueue(d)
      <4>1. PICK d \in Conn : d # c /\ (ReadFrame(d) \/ Enqueue(d))
        BY <1>5, <3>1
      <4>2. QED
        BY <1>1, <4>1 DEF ReadFrame, Enqueue, InOK
    <3>2. CASE ~\E d \in Conn : ReadFrame(d) \/ Enqueue(d)
      BY <3>2 DEF Next, vars, inVars, ConnStep, Connect, ReaderKeepLive,
         ReadError, WriterStep, WriterRecv, WriterTick, WriterFlush, WriterKeepLive, WriterExit, GoStale,
         Stop, StopLock, StopAgain, StopEnter, StopUnmap, StopOffline, StopFinish, WorkerStep, SkipReq,
         StartLogin, StartMessage, StartSync, LoginGet, LoginSet, LoginUser, LoginAdd, Lookup, Deliver,
         SendLock, SendLoad, SendPut, HbStep, HbTick, HbCheck, HbAlive, HbDone, HbQuit, SignalStop,
         ShutdownDone, KeyExpire
    <3>3. QED
      BY <3>1, <3>2
  <2>2. pc[Reader(c)] \notin {"keepLive", "enqueue"}
    <3>1. CASE pc'[Reader(c)] = pc[Reader(c)]
      BY <3>1
    <3>2. CASE pc'[Reader(c)] # pc[Reader(c)]
      <4>1. ASSUME NEW t \in Thread, NEW l, t # Reader(c), Goto(t, l) PROVE FALSE
        BY <1>1, <3>2, <4>1, GotoFacts
      <4>2. CASE Connect(c) \/ ReadError(c)
        BY <4>2 DEF Connect, ReadError
      <4>3. CASE Stop(Reader(c))
        BY <4>3 DEF Stop, StopLock, StopAgain, StopEnter, StopUnmap, StopOffline, StopFinish
      <4>4. ASSUME NEW d \in Conn, d # c,
                   Connect(d) \/ ReadError(d) \/ ReadFrame(d) \/ Enqueue(d) \/ ReaderKeepLive(d)
            PROVE  FALSE
        BY <3>2, <4>1, <4>4, ThreadKinds, ThreadsDiffer
           DEF Connect, ReadError, ReadFrame, Enqueue, ReaderKeepLive
      <4>5. ASSUME NEW t \in Thread, t # Reader(c), Stop(t) PROVE FALSE
        BY <4>1, <4>5 DEF Stop, StopLock, StopAgain, StopEnter, StopUnmap, StopOffline, StopFinish,
           ReturnFromStop
      <4>6. ASSUME NEW w \in Worker, WorkerStep(w) PROVE FALSE
        BY <3>2, <4>1, <4>6, ThreadKinds, ThreadsDiffer
           DEF WorkerStep, SkipReq, StartLogin, StartMessage, StartSync, LoginGet, LoginSet, LoginUser,
               LoginAdd, Lookup, Deliver, SendLock, SendLoad, SendPut, SendReturn, SendAck, CallSendMsg, Finish
      <4>7. ~HbStep
        BY <4>1, ThreadKinds, ThreadsDiffer DEF HbStep, HbTick, HbCheck, HbAlive, HbDone, HbQuit
      <4>8. ~SignalStop
        BY <1>1, <3>2 DEF SignalStop, Reader
      <4>9. QED
        BY <1>5, <3>2, <4>2, <4>3, <4>4, <4>5, <4>6, <4>7, <4>8
           DEF Next, ConnStep, WriterStep, WriterRecv, WriterTick, WriterFlush, WriterKeepLive, WriterExit,
               GoStale, ShutdownDone, KeyExpire, vars
    <3>3. QED
      BY <3>1, <3>2
  <2>3. QED
    BY <2>1, <2>2 DEF RestInv
<1>6. QED
  BY <1>2, <1>3, <1>4, <1>5

LEMMA RestHolds == Spec => []RestInv
<1>1. Init => RestInv
  BY ThreadKinds DEF Init, RestInv
<1>2. IInv /\ FreshInv /\ RestInv /\ [Next]_vars => RestInv'
  <2> SUFFICES ASSUME IInv, FreshInv, RestInv, [Next]_vars PROVE RestInv'
    OBVIOUS
  <2>1. QED
    BY IdleStep, ReaderRests DEF RestInv
<1>3. QED
  BY <1>1, <1>2, Freshness, Invariance, PTL DEF Spec

\* Requests are read, queued, taken and finished with, and nothing else.
LEMMA OrderSteps ==
  ASSUME IInv, [Next]_vars
  PROVE  \/ UNCHANGED <<taskQueue, held, job>>
         \/ \E c \in Conn, r \in Req :
               /\ r.conn = c /\ pc[Reader(c)] = "read"
               /\ held' = [held EXCEPT ![c] = r] /\ UNCHANGED <<taskQueue, job>>
         \/ \E c \in Conn : Enqueue(c)
         \/ \E w \in Worker, r \in Req :
               /\ Takes(w, r) /\ UNCHANGED held
               /\ UNCHANGED job \/ job' = [job EXCEPT ![w] = r]
         \/ \E w \in Worker :
               /\ pc[Pooled(w)] # "idle" /\ job' = [job EXCEPT ![w] = NoReq]
               /\ UNCHANGED <<taskQueue, held>>
<1> DEFINE Still == UNCHANGED <<taskQueue, held, job>>
           Ends == \E w \in Worker : /\ pc[Pooled(w)] # "idle" /\ job' = [job EXCEPT ![w] = NoReq]
                                     /\ UNCHANGED <<taskQueue, held>>
<1>1. job \in [Worker -> Req \cup {NoReq}]
  BY DEF IInv, TypeOK, WorkOK
<1>2. CASE \E c \in Conn : ReadFrame(c)
  <2>1. PICK c \in Conn : ReadFrame(c)
    BY <1>2
  <2>2. PICK r \in Commands(c) : (UNCHANGED held \/ held' = [held EXCEPT ![c] = r])
    BY <2>1 DEF ReadFrame
  <2>3. r \in Req /\ r.conn = c /\ pc[Reader(c)] = "read" /\ UNCHANGED <<taskQueue, job>>
    BY <2>1 DEF ReadFrame, Commands, workVars
  <2>4. QED
    BY <2>2, <2>3
<1>3. ASSUME NEW t \in Thread, Stop(t) PROVE Still \/ Ends
  <2>1. UNCHANGED <<taskQueue, held>> /\ pc[t] # "idle"
    BY <1>3 DEF Stop, StopLock, StopAgain, StopEnter, StopUnmap, StopOffline, StopFinish, inVars
  <2>2. CASE ReturnFromStop(t)
    <3>1. job' = [w \in Worker |-> IF t = Pooled(w) THEN NoReq ELSE job[w]]
      BY <2>2 DEF ReturnFromStop
    <3>2. CASE \E w \in Worker : t = Pooled(w)
      <4>1. PICK w \in Worker : t = Pooled(w)
        BY <3>2
      <4>2. \A v \in Worker : t = Pooled(v) <=> v = w
        BY <4>1, ThreadsDiffer
      <4>3. job' = [job EXCEPT ![w] = NoReq]
        BY <1>1, <3>1, <4>2
      <4>4. QED
        BY <2>1, <4>1, <4>3
    <3>3. CASE ~\E w \in Worker : t = Pooled(w)
      <4>1. job' = job
        BY <1>1, <3>1, <3>3
      <4>2. QED
        BY <2>1, <4>1
    <3>4. QED
      BY <3>2, <3>3
  <2>3. CASE UNCHANGED job
    BY <2>1, <2>3
  <2>4. QED
    BY <1>3, <2>2, <2>3
       DEF Stop, StopLock, StopAgain, StopEnter, StopUnmap, StopOffline, StopFinish, workVars
<1>4. ASSUME NEW w \in Worker, SkipReq(w) \/ StartLogin(w) \/ StartMessage(w) \/ StartSync(w)
      PROVE  \E r \in Req : /\ Takes(w, r) /\ UNCHANGED held
                            /\ UNCHANGED job \/ job' = [job EXCEPT ![w] = r]
  BY <1>4 DEF SkipReq, StartLogin, StartMessage, StartSync, workVars
<1>5. ASSUME NEW w \in Worker, WorkerStep(w),
             ~(SkipReq(w) \/ StartLogin(w) \/ StartMessage(w) \/ StartSync(w))
      PROVE  Still \/ Ends
  <2>1. UNCHANGED <<taskQueue, held>> /\ pc[Pooled(w)] # "idle"
    BY <1>5 DEF WorkerStep, LoginGet, LoginSet, LoginUser, LoginAdd, Lookup, Deliver, SendLock, SendLoad,
       SendPut, At, inVars
  <2>2. CASE Finish(w)
    BY <2>1, <2>2 DEF Finish
  <2>3. CASE UNCHANGED job
    BY <2>1, <2>3
  <2>4. LoginGet(w) \/ LoginSet(w) \/ LoginUser(w) \/ LoginAdd(w) \/ Lookup(w) \/ Deliver(w)
          => Finish(w) \/ UNCHANGED job
    BY DEF LoginGet, LoginSet, LoginUser, LoginAdd, Lookup, Deliver, workVars
  <2>5. SendLock(w) \/ SendLoad(w) \/ SendPut(w) => Finish(w) \/ UNCHANGED job
    BY DEF SendLock, SendLoad, SendPut, SendReturn, workVars
  <2>6. QED
    BY <1>5, <2>2, <2>3, <2>4, <2>5 DEF WorkerStep
<1>6. CASE ~(\E c \in Conn : ReadFrame(c) \/ Enqueue(c)) /\ ~(\E t \in Thread : Stop(t))
           /\ ~(\E w \in Worker : WorkerStep(w))
  <2>1. Still
    BY <1>6 DEF Next, ConnStep, Connect, ReaderKeepLive, ReadError, WriterStep, WriterRecv, WriterTick,
       WriterFlush, WriterKeepLive, WriterExit, GoStale, HbStep, HbTick, HbCheck, HbAlive, HbDone, HbQuit,
       SignalStop, ShutdownDone, KeyExpire, vars, inVars, workVars
  <2>2. QED
    BY <2>1
<1>7. CASE \E t \in Thread : Stop(t)
  BY <1>3, <1>7
<1>8. CASE \E w \in Worker : WorkerStep(w)
  <2>1. PICK w \in Worker : WorkerStep(w)
    BY <1>8
  <2>2. CASE SkipReq(w) \/ StartLogin(w) \/ StartMessage(w) \/ StartSync(w)
    BY <1>4, <2>2
  <2>3. CASE ~(SkipReq(w) \/ StartLogin(w) \/ StartMessage(w) \/ StartSync(w))
    BY <1>5, <2>1, <2>3
  <2>4. QED
    BY <2>2, <2>3
<1>9. CASE \E c \in Conn : Enqueue(c)
  BY <1>9
<1>10. QED
  BY <1>2, <1>6, <1>7, <1>8, <1>9

\* The command of c that is handled is with the worker of c.
LEMMA CurrentIs ==
  ASSUME IInv, RestInv, NEW c \in Conn
  PROVE  Current(c) = IF job[WorkerOf[c]].conn = c THEN job[WorkerOf[c]] ELSE NoReq
<1>1. ASSUME NEW w \in Worker, job[w].conn = c PROVE WorkerOf[c] = w
  <2>1. job[w] # NoReq
    BY <1>1, SentinelAssumption DEF NoReq
  <2>2. pc[Pooled(w)] # "idle"
    BY <2>1 DEF RestInv
  <2>3. QED
    BY <1>1, <2>2 DEF IInv, JobInv, JobAt, JobOf
<1>2. WorkerOf[c] \in Worker
  BY WorkerOfAssumption
<1>3. QED
  BY <1>1, <1>2 DEF Current

LEMMA OneMoreFacts ==
  ASSUME NEW s \in Seq(Req), NEW e \in Req
  PROVE  s \o <<>> = s /\ s \o <<e>> = Append(s, e)
OBVIOUS

LEMMA ConcatFacts ==
  ASSUME NEW s \in Seq(Req), NEW t \in Seq(Req), s # <<>>
  PROVE  s \o t # <<>> /\ Head(s \o t) = Head(s) /\ Tail(s \o t) = Tail(s) \o t
<1>1. Len(s) \in Nat /\ Len(s) # 0 /\ Len(t) \in Nat
  OBVIOUS
<1>2. /\ s \o t \in Seq(Req) /\ Len(s \o t) = Len(s) + Len(t)
      /\ \A i \in 1 .. Len(s) + Len(t) :
            (s \o t)[i] = IF i <= Len(s) THEN s[i] ELSE t[i - Len(s)]
  BY <1>1
<1>3. s \o t # <<>> /\ Head(s \o t) = Head(s)
  BY <1>1, <1>2
<1>4. Tail(s) \in Seq(Req) /\ Len(Tail(s)) = Len(s) - 1 /\ \A i \in 1 .. Len(s) - 1 : Tail(s)[i] = s[i + 1]
  BY <1>1
<1>5. Tail(s \o t) \in Seq(Req) /\ Len(Tail(s \o t)) = Len(s) + Len(t) - 1
      /\ \A i \in 1 .. Len(s) + Len(t) - 1 : Tail(s \o t)[i] = (s \o t)[i + 1]
  BY <1>1, <1>2, <1>3
<1>6. Tail(s) \o t \in Seq(Req) /\ Len(Tail(s) \o t) = Len(s) + Len(t) - 1
      /\ \A i \in 1 .. Len(s) + Len(t) - 1 :
            (Tail(s) \o t)[i] = IF i <= Len(s) - 1 THEN Tail(s)[i] ELSE t[i - (Len(s) - 1)]
  BY <1>1, <1>4
<1>7. \A i \in 1 .. Len(s) + Len(t) - 1 : Tail(s \o t)[i] = (Tail(s) \o t)[i]
  <2> SUFFICES ASSUME NEW i \in 1 .. Len(s) + Len(t) - 1 PROVE Tail(s \o t)[i] = (Tail(s) \o t)[i]
    OBVIOUS
  <2>1. Tail(s \o t)[i] = IF i + 1 <= Len(s) THEN s[i + 1] ELSE t[i + 1 - Len(s)]
    BY <1>1, <1>2, <1>5
  <2>2. CASE i + 1 <= Len(s)
    BY <1>1, <1>4, <1>6, <2>1, <2>2
  <2>3. CASE ~(i + 1 <= Len(s))
    <3>1. i + 1 - Len(s) = i - (Len(s) - 1) /\ ~(i <= Len(s) - 1)
      BY <1>1, <2>3
    <3>2. QED
      BY <1>6, <2>1, <2>3, <3>1
  <2>4. QED
    BY <2>2, <2>3
<1>8. QED
  BY <1>3, <1>5, <1>6, <1>7, SameSeq

LEMMA CurrentNext ==
  ASSUME IInv', RestInv', NEW c \in Conn
  PROVE  Current(c)' = IF job'[WorkerOf[c]].conn = c THEN job'[WorkerOf[c]] ELSE NoReq
<1>1. ASSUME NEW w \in Worker, job'[w].conn = c PROVE WorkerOf[c] = w
  <2>1. job'[w] # NoReq
    BY <1>1, SentinelAssumption DEF NoReq
  <2>2. pc'[Pooled(w)] # "idle"
    BY <2>1 DEF RestInv
  <2>3. QED
    BY <1>1, <2>2 DEF IInv, JobInv, JobAt, JobOf
<1>2. WorkerOf[c] \in Worker
  BY WorkerOfAssumption
<1>3. QED
  BY <1>1, <1>2 DEF Current

----------------------------------------------------------------------------
(* The refinement.                                                         *)

\* What is held adds one request at most to the inbox.
Kept(c) == IF held[c] = NoReq THEN <<>> ELSE <<held[c]>>

LEMMA InboxIs ==
  ASSUME NEW c \in Conn
  PROVE  /\ Inbox(c) = Requests(taskQueue[WorkerOf[c]], c) \o Kept(c)
         /\ Inbox(c)' = Requests(taskQueue'[WorkerOf[c]], c) \o Kept(c)'
BY DEF Inbox, Kept

LEMMA InboxParts ==
  ASSUME IInv, NEW c \in Conn
  PROVE  /\ Requests(taskQueue[WorkerOf[c]], c) \in Seq(Req)
         /\ Kept(c) \in Seq(Req)
<1>1. held[c] \in Req \cup {NoReq} /\ taskQueue[WorkerOf[c]] \in Seq(Req)
  BY WorkerOfAssumption DEF IInv, TypeOK, InOK
<1>2. QED
  BY <1>1, PlacesAre DEF Kept

\* Only the named parts of one connection change.
LEMMA SerialStep ==
  ASSUME NEW c \in Conn,
         \A d \in Conn \ {c} : Inbox(d)' = Inbox(d) /\ Current(d)' = Current(d)
  PROVE  /\ Inbox(c)' = Inbox(c) /\ Current(c)' = Current(c) => UNCHANGED Serial!vars
         /\ \A r \in Req : Inbox(c)' = Append(Inbox(c), r) /\ Current(c)' = Current(c)
              => Serial!Read(c)
         /\ Inbox(c) # <<>> /\ Inbox(c)' = Tail(Inbox(c)) /\ Current(c) = NoReq
              => /\ Current(c)' = Head(Inbox(c)) => Serial!Begin(c)
                 /\ Current(c)' = Current(c) => Serial!Skip(c)
         /\ Current(c) # NoReq /\ Current(c)' = NoReq /\ Inbox(c)' = Inbox(c) => Serial!End(c)
<1> DEFINE in == [d \in Conn |-> Inbox(d)]
           now == [d \in Conn |-> Current(d)]
<1>1. /\ in[c] = Inbox(c) /\ now[c] = Current(c)
      /\ \A v : Inbox(c)' = v => in' = [in EXCEPT ![c] = v]
      /\ \A v : Current(c)' = v => now' = [now EXCEPT ![c] = v]
      /\ Inbox(c)' = Inbox(c) => in' = in
      /\ Current(c)' = Current(c) => now' = now
  OBVIOUS
<1> HIDE DEF in, now
<1>2. /\ Inbox(c)' = Inbox(c) /\ Current(c)' = Current(c) => UNCHANGED Serial!vars
  BY <1>1 DEF Serial!vars, in, now
<1>3. ASSUME NEW r \in Req, Inbox(c)' = Append(Inbox(c), r), Current(c)' = Current(c)
      PROVE  Serial!Read(c)
  <2>1. in' = [in EXCEPT ![c] = Append(in[c], r)] /\ now' = now
    BY <1>1, <1>3
  <2>2. QED
    BY <2>1 DEF Serial!Read, in, now
<1>4. ASSUME Inbox(c) # <<>>, Inbox(c)' = Tail(Inbox(c)), Current(c) = NoReq
      PROVE  /\ Current(c)' = Head(Inbox(c)) => Serial!Begin(c)
             /\ Current(c)' = Current(c) => Serial!Skip(c)
  <2>1. in[c] # <<>> /\ now[c] = NoReq /\ in' = [in EXCEPT ![c] = Tail(in[c])]
    BY <1>1, <1>4
  <2>2. Serial!Take(c)
    BY <2>1 DEF Serial!Take, in, now
  <2>3. Current(c)' = Head(Inbox(c)) => now' = [now EXCEPT ![c] = Head(in[c])]
    BY <1>1
  <2>4. QED
    BY <1>1, <2>2, <2>3 DEF Serial!Begin, Serial!Skip, in, now
<1>5. ASSUME Current(c) # NoReq, Current(c)' = NoReq, Inbox(c)' = Inbox(c)
      PROVE  Serial!End(c)
  <2>1. now[c] # NoReq /\ now' = [now EXCEPT ![c] = NoReq] /\ in' = in
    BY <1>1, <1>5
  <2>2. QED
    BY <2>1 DEF Serial!End, in, now
<1>6. QED
  BY <1>2, <1>3, <1>4, <1>5

LEMMA SameCurrent ==
  ASSUME IInv, RestInv, IInv', RestInv', NEW c \in Conn, job'[WorkerOf[c]] = job[WorkerOf[c]]
  PROVE  Current(c)' = Current(c)
BY CurrentIs, CurrentNext

LEMMA ReadImplements ==
  ASSUME IInv, RestInv, IInv', RestInv', NEW c \in Conn, NEW r \in Req,
         r.conn = c, pc[Reader(c)] = "read",
         held' = [held EXCEPT ![c] = r], UNCHANGED <<taskQueue, job>>
  PROVE  Serial!Read(c)
<1>1. held[c] = NoReq /\ held'[c] = r /\ r # NoReq /\ \A d \in Conn \ {c} : held'[d] = held[d]
  <2>1. held \in [Conn -> Req \cup {NoReq}]
    BY DEF IInv, TypeOK, InOK
  <2>2. held[c] = NoReq
    BY DEF RestInv
  <2>3. r # NoReq
    BY SentinelAssumption DEF NoReq
  <2>4. QED
    BY <2>1, <2>2, <2>3
<1>2. Kept(c) = <<>> /\ Kept(c)' = <<r>> /\ \A d \in Conn \ {c} : Kept(d)' = Kept(d)
  BY <1>1 DEF Kept
<1>3. \A d \in Conn \ {c} : Inbox(d)' = Inbox(d)
  BY <1>2, InboxIs
<1>4. Inbox(c)' = Append(Inbox(c), r)
  <2> DEFINE s == Requests(taskQueue[WorkerOf[c]], c)
  <2>1. s \in Seq(Req)
    BY InboxParts
  <2>2. Inbox(c) = s \o <<>> /\ Inbox(c)' = s \o <<r>>
    BY <1>2, InboxIs
  <2> HIDE DEF s
  <2>3. QED
    BY <2>1, <2>2, OneMoreFacts
<1>5. \A d \in Conn : Current(d)' = Current(d)
  BY SameCurrent
<1>6. QED
  BY <1>3, <1>4, <1>5, SerialStep

LEMMA EnqueueImplements ==
  ASSUME IInv, RestInv, IInv', RestInv', NEW c \in Conn, Enqueue(c)
  PROVE  UNCHANGED Serial!vars
<1> DEFINE w == WorkerOf[c]
           r == held[c]
<1>1. /\ r \in Req /\ r.conn = c /\ r # NoReq
      /\ taskQueue \in [Worker -> Seq(Req)] /\ held \in [Conn -> Req \cup {NoReq}]
  BY SentinelAssumption DEF Enqueue, IInv, RequestInv, Proper, TypeOK, InOK, NoReq
<1>2. /\ taskQueue' = [taskQueue EXCEPT ![w] = Append(taskQueue[w], r)] /\ job' = job
      /\ held' = [held EXCEPT ![c] = NoReq]
  BY DEF Enqueue, WorkerFor, workVars
<1>3. \A d \in Conn : WorkerOf[d] \in Worker /\ taskQueue[WorkerOf[d]] \in Seq(Req)
  BY <1>1, WorkerOfAssumption
<1>4. /\ Kept(c) = <<r>> /\ Kept(c)' = <<>>
      /\ \A d \in Conn \ {c} : Kept(d)' = Kept(d)
  BY <1>1, <1>2 DEF Kept
<1>5. ASSUME NEW d \in Conn \ {c} PROVE Inbox(d)' = Inbox(d)
  <2>1. Requests(taskQueue'[WorkerOf[d]], d) = Requests(taskQueue[WorkerOf[d]], d)
    <3>1. CASE WorkerOf[d] = w
      <4>1. taskQueue'[WorkerOf[d]] = Append(taskQueue[WorkerOf[d]], r) /\ r.conn # d
        BY <1>1, <1>2, <1>3, <3>1
      <4>2. QED
        BY <1>1, <1>3, <4>1, RequestsAppend
    <3>2. CASE WorkerOf[d] # w
      BY <1>1, <1>2, <1>3, <3>2
    <3>3. QED
      BY <3>1, <3>2
  <2>2. QED
    BY <1>4, <2>1, InboxIs
<1>6. Inbox(c)' = Inbox(c)
  <2>1. taskQueue'[w] = Append(taskQueue[w], r)
    BY <1>1, <1>2, <1>3
  <2>2. Requests(taskQueue'[w], c) = Append(Requests(taskQueue[w], c), r)
    BY <1>1, <1>3, <2>1, RequestsAppend
  <2>3. Requests(taskQueue[w], c) \in Seq(Req) /\ Append(Requests(taskQueue[w], c), r) \in Seq(Req)
    BY <1>1, InboxParts
  <2> DEFINE s == Requests(taskQueue[w], c)
             a == Append(s, r)
  <2>4. Inbox(c) = s \o <<r>> /\ Inbox(c)' = a \o <<>>
    BY <1>4, <2>2, InboxIs
  <2>5. s \in Seq(Req) /\ a \in Seq(Req)
    BY <2>3
  <2>6. s \o <<r>> = a
    <3> HIDE DEF s
    <3>1. QED
      BY <1>1, <2>5, OneMoreFacts
  <2> HIDE DEF a
  <2>7. a \o <<>> = a
    BY <1>1, <2>5, OneMoreFacts
  <2>8. QED
    BY <2>4, <2>6, <2>7
<1>7. \A d \in Conn : Current(d)' = Current(d)
  BY <1>2, SameCurrent
<1>8. QED
  BY <1>5, <1>6, <1>7, SerialStep

LEMMA TakeImplements ==
  ASSUME IInv, RestInv, IInv', RestInv', NEW w \in Worker, NEW r \in Req, Takes(w, r),
         UNCHANGED held, UNCHANGED job \/ job' = [job EXCEPT ![w] = r]
  PROVE  Serial!Begin(r.conn) \/ Serial!Skip(r.conn)
<1> DEFINE c == r.conn
           s == Requests(taskQueue[w], c)
<1>1. /\ c \in Conn /\ WorkerOf[c] = w /\ job[w] = NoReq
      /\ taskQueue \in [Worker -> Seq(Req)] /\ taskQueue[w] \in Seq(Req) /\ taskQueue[w] # <<>>
      /\ r = Head(taskQueue[w]) /\ taskQueue' = [taskQueue EXCEPT ![w] = Tail(taskQueue[w])]
      /\ job \in [Worker -> Req \cup {NoReq}]
  BY TakesFacts DEF Takes, At, RestInv, IInv, TypeOK, InOK, WorkOK
<1>2. \A d \in Conn : Kept(d)' = Kept(d)
  BY DEF Kept
<1>3. ASSUME NEW d \in Conn \ {c} PROVE Inbox(d)' = Inbox(d) /\ Current(d)' = Current(d)
  <2>1. CASE WorkerOf[d] = w
    <3>1. Requests(taskQueue'[w], d) = Requests(taskQueue[w], d)
      BY <1>1, RequestsTail
    <3>2. Inbox(d)' = Inbox(d)
      BY <1>2, <2>1, <3>1, InboxIs
    <3>3. job'[w].conn # d /\ job[w].conn # d
      BY <1>1, SentinelAssumption DEF NoReq
    <3>4. QED
      BY <2>1, <3>2, <3>3, CurrentIs, CurrentNext
  <2>2. CASE WorkerOf[d] # w
    <3>1. taskQueue'[WorkerOf[d]] = taskQueue[WorkerOf[d]] /\ job'[WorkerOf[d]] = job[WorkerOf[d]]
      BY <1>1, <2>2, WorkerOfAssumption
    <3>2. QED
      BY <1>2, <3>1, InboxIs, SameCurrent
  <2>3. QED
    BY <2>1, <2>2
<1>4. /\ s \in Seq(Req) /\ s # <<>> /\ Head(s) = r
      /\ Requests(taskQueue'[w], c) = Tail(s)
  <2>1. taskQueue'[w] = Tail(taskQueue[w])
    BY <1>1
  <2>2. QED
    BY <1>1, <2>1, RequestsTail, PlacesAre
<1>5. Inbox(c) # <<>> /\ Head(Inbox(c)) = r /\ Inbox(c)' = Tail(Inbox(c))
  <2>1. Kept(c) \in Seq(Req)
    BY <1>1, InboxParts
  <2>2. Inbox(c) = s \o Kept(c) /\ Inbox(c)' = Tail(s) \o Kept(c)
    BY <1>1, <1>2, <1>4, InboxIs
  <2> HIDE DEF s
  <2>3. QED
    BY <1>4, <2>1, <2>2, ConcatFacts
<1>6. Current(c) = NoReq /\ (Current(c)' = r \/ Current(c)' = Current(c))
  <2>1. Current(c) = NoReq
    BY <1>1, CurrentIs, SentinelAssumption DEF NoReq
  <2>2. CASE UNCHANGED job
    BY <1>1, <2>1, <2>2, SameCurrent
  <2>3. CASE job' = [job EXCEPT ![w] = r]
    <3>1. job'[WorkerOf[c]] = r
      BY <1>1, <2>3
    <3>2. QED
      BY <1>1, <2>1, <3>1, CurrentNext
  <2>4. QED
    BY <2>2, <2>3
<1>7. QED
  BY <1>1, <1>3, <1>5, <1>6, SerialStep

LEMMA EndImplements ==
  ASSUME IInv, RestInv, IInv', RestInv', NEW w \in Worker, NEW c \in Conn,
         pc[Pooled(w)] # "idle", job[w].conn = c,
         job' = [job EXCEPT ![w] = NoReq], UNCHANGED <<taskQueue, held>>
  PROVE  Serial!End(c)
<1>1. /\ WorkerOf[c] = w /\ job[w] # NoReq
      /\ job \in [Worker -> Req \cup {NoReq}]
  BY SentinelAssumption DEF IInv, TypeOK, WorkOK, JobInv, JobAt, JobOf, Proper, Req, NoReq
<1>2. \A d \in Conn : Inbox(d)' = Inbox(d)
  BY InboxIs DEF Kept
<1>3. Current(c) = job[w] /\ Current(c)' = NoReq
  <2>1. job'[WorkerOf[c]] = NoReq
    BY <1>1
  <2>2. QED
    BY <1>1, <2>1, CurrentIs, CurrentNext
<1>4. ASSUME NEW d \in Conn \ {c} PROVE Current(d)' = Current(d)
  <2>1. CASE WorkerOf[d] = w
    <3>1. job'[w].conn # d /\ job[w].conn # d
      BY <1>1, SentinelAssumption DEF NoReq
    <3>2. QED
      BY <2>1, <3>1, CurrentIs, CurrentNext
  <2>2. CASE WorkerOf[d] # w
    <3>1. job'[WorkerOf[d]] = job[WorkerOf[d]]
      BY <1>1, <2>2, WorkerOfAssumption
    <3>2. QED
      BY <3>1, SameCurrent
  <2>3. QED
    BY <2>1, <2>2
<1>5. QED
  BY <1>1, <1>2, <1>3, <1>4, SerialStep

LEMMA StillImplements ==
  ASSUME IInv, RestInv, IInv', RestInv', UNCHANGED <<taskQueue, held, job>>
  PROVE  UNCHANGED Serial!vars
<1>1. \A d \in Conn : Inbox(d)' = Inbox(d) /\ Current(d)' = Current(d)
  BY InboxIs, SameCurrent DEF Kept
<1>2. QED
  BY <1>1 DEF Serial!vars

LEMMA OrderStep == ASSUME IInv, RestInv, IInv', RestInv', [Next]_vars
                   PROVE  [Serial!Next]_(Serial!vars)
<1>1. ASSUME NEW c \in Conn, Serial!Read(c) \/ Serial!Begin(c) \/ Serial!Skip(c) \/ Serial!End(c)
      PROVE  Serial!Next
  BY <1>1 DEF Serial!Next
<1>2. CASE \E w \in Worker, r \in Req :
             /\ Takes(w, r) /\ UNCHANGED held
             /\ UNCHANGED job \/ job' = [job EXCEPT ![w] = r]
  BY <1>1, <1>2, TakeImplements, TakesFacts
<1>3. CASE \E w \in Worker :
             /\ pc[Pooled(w)] # "idle" /\ job' = [job EXCEPT ![w] = NoReq]
             /\ UNCHANGED <<taskQueue, held>>
  <2>1. PICK w \in Worker : /\ pc[Pooled(w)] # "idle" /\ job' = [job EXCEPT ![w] = NoReq]
                            /\ UNCHANGED <<taskQueue, held>>
    BY <1>3
  <2>2. PICK c \in Conn : job[w].conn = c
    BY <2>1 DEF IInv, JobInv, JobAt, JobOf, Proper, Req
  <2>3. QED
    BY <1>1, <2>1, <2>2, EndImplements
<1>4. CASE \E c \in Conn, r \in Req :
             /\ r.conn = c /\ pc[Reader(c)] = "read"
             /\ held' = [held EXCEPT ![c] = r] /\ UNCHANGED <<taskQueue, job>>
  BY <1>1, <1>4, ReadImplements
<1>5. QED
  BY <1>2, <1>3, <1>4, StillImplements, EnqueueImplements, OrderSteps

LEMMA OrderInit == Init => Serial!Init
<1> SUFFICES ASSUME Init, NEW c \in Conn PROVE Inbox(c) = <<>> /\ Current(c) = NoReq
  BY DEF Serial!Init
<1>1. /\ taskQueue[WorkerOf[c]] = <<>> /\ held[c] = NoReq
      /\ \A w \in Worker : job[w].conn # c
  BY WorkerOfAssumption, SentinelAssumption DEF Init, NoReq
<1>2. Requests(<<>>, c) = <<>>
  <2>1. Places(<<>>, c) = {} /\ <<>> \in Seq(Req)
    BY DEF Places
  <2>2. Requests(<<>>, c) \in Seq(Req) /\ Len(Requests(<<>>, c)) = 0
    BY <2>1, PlacesAre, FS_EmptySet
  <2>3. QED
    BY <2>2
<1>3. QED
  BY <1>1, <1>2 DEF Inbox, Current

\* The commands of a connection are handled one after another in the order they
\* were read from it: its reader queues them for one worker and holds at most
\* one, and a worker takes the next when it has finished (server.go:103-113).
THEOREM OrderImplemented == Spec => HandledInOrder
<1>1. IInv /\ RestInv /\ IInv' /\ RestInv' /\ [Next]_vars => [Serial!Next]_(Serial!vars)
  BY OrderStep
<1>2. Spec => Serial!Init /\ [][Serial!Next]_(Serial!vars)
  BY <1>1, OrderInit, Invariance, RestHolds, PTL DEF Spec
<1>3. QED
  BY <1>2 DEF HandledInOrder, Serial!Spec
=============================================================================
