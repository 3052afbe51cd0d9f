----------------------------- MODULE InboxProofs -----------------------------
(***************************************************************************)
(* Proofs that Inbox keeps its safety properties, for any number of        *)
(* senders, partitions, messages and failures, and pages of any length.    *)
(***************************************************************************)
EXTENDS InboxInv, FiniteSetTheorems, FunctionTheorems, WellFoundedInduction, TLAPS

-----------------------------------------------------------------------------
(* Facts about the operators of the model.                                 *)

LEMMA Bounds ==
  /\ Limit \in Nat /\ MaxIn \in Nat /\ MaxOwn \in Nat /\ MaxFaults \in Nat
  /\ Number \subseteq Nat /\ 0 \notin Number /\ \A n \in Number : n <= MaxIn + MaxOwn
BY InboxAssumption DEF Number

LEMMA NumbersAreNat == \A n \in {0} \cup Number : n \in Nat
BY Bounds

\* A set of numbers has a highest one.
LEMMA HighestIs ==
  ASSUME NEW S \in SUBSET ({0} \cup Number), S # {}
  PROVE  Highest(S) \in S /\ \A k \in S : k <= Highest(S)
<1> DEFINE Upper == {n \in Nat : \A k \in S : k <= n}
           Less == {ss \in Nat \X Nat : ss[1] < ss[2]}
<1>1. S \subseteq Nat /\ MaxIn + MaxOwn \in Upper
  BY Bounds
<1>2. IsWellFoundedOn(Less, Nat)
  BY NatLessThanWellFounded DEF OpToRel
<1>3. PICK u \in Upper : \A n \in Upper : ~(<<n, u>> \in Less)
  <2> HIDE DEF Less, Upper
  <2>1. Upper \subseteq Nat /\ Upper # {}
    BY <1>1 DEF Upper
  <2> QED BY <1>2, <2>1, WFMin
<1>4. u \in Nat /\ \A k \in S : k <= u
  OBVIOUS
<1>5. u \in S
  <2> SUFFICES ASSUME u \notin S PROVE FALSE
    OBVIOUS
  <2>1. PICK k \in S : TRUE
    OBVIOUS
  <2>2. k <= u /\ k # u /\ k \in Nat
    BY <1>1, <1>4
  <2>3. u - 1 \in Nat /\ u - 1 < u
    BY <1>4, <2>2
  <2>4. \A j \in S : j <= u - 1
    BY <1>1, <1>4
  <2>5. u - 1 \in Upper /\ <<u - 1, u>> \in Less
    BY <1>4, <2>3, <2>4
  <2> QED BY <1>3, <2>5
<1>6. \E n \in S : \A k \in S : k <= n
  BY <1>4, <1>5
<1> QED BY <1>6 DEF Highest

\* The rows with the numbers of a set are finitely many, and those of a part
\* of it are not more.
LEMMA RowsOfSet ==
  ASSUME rows \in [Number -> Nat], NEW S \in SUBSET Number
  PROVE  IsFiniteSet(UNION {{k} \X (1 .. rows[k]) : k \in S}) /\ RowsOf(S) \in Nat
<1> DEFINE R(k) == {k} \X (1 .. rows[k])
<1>1. IsFiniteSet(Number)
  BY FS_Interval, Bounds DEF Number
<1>2. IsFiniteSet(S)
  BY <1>1, FS_Subset
<1>3. IsFiniteSet({R(k) : k \in S})
  <2> DEFINE f == [k \in S |-> R(k)]
  <2>1. f \in Surjection(S, {R(k) : k \in S})
    BY DEF Surjection
  <2>2. {R(k) : k \in S} = {f[k] : k \in S}
    OBVIOUS
  <2> QED BY <1>2, <2>1, FS_Surjection
<1>4. ASSUME NEW k \in S PROVE IsFiniteSet(R(k))
  <2>1. rows[k] \in Nat
    OBVIOUS
  <2>2. IsFiniteSet(1 .. rows[k])
    BY <2>1, FS_Interval
  <2>3. IsFiniteSet({k})
    BY FS_Singleton
  <2> QED BY <2>2, <2>3, FS_Product
<1>5. IsFiniteSet(UNION {R(k) : k \in S})
  <2> HIDE DEF R
  <2> QED BY <1>3, <1>4, FS_UNION
<1> QED BY <1>5, FS_CardinalityType DEF RowsOf

LEMMA FewerRows ==
  ASSUME rows \in [Number -> Nat], NEW S \in SUBSET Number, NEW T \in SUBSET S
  PROVE  RowsOf(T) <= RowsOf(S)
<1>1. UNION {{k} \X (1 .. rows[k]) : k \in T} \subseteq UNION {{k} \X (1 .. rows[k]) : k \in S}
  OBVIOUS
<1> QED BY <1>1, RowsOfSet, FS_Subset DEF RowsOf

\* A page has no gap: what follows the number it was asked for and is not
\* above a row of the page is in it.
LEMMA PageHasNoGap ==
  ASSUME rows \in [Number -> Nat], NEW b \in Nat
  PROVE  /\ Page(b) \subseteq Number
         /\ \A k \in Page(b), n \in Stored : b < n /\ n <= k => n \in Page(b)
<1>1. Page(b) \subseteq Number
  BY DEF Page, Above, Stored
<1>2. ASSUME NEW k \in Page(b), NEW n \in Stored, b < n, n <= k PROVE n \in Page(b)
  <2> DEFINE Under(j) == {i \in Above(b) : i < j}
  <2>1. /\ Under(k) \in SUBSET Number /\ RowsOf(Under(k)) < Limit
        /\ k \in Nat /\ n \in Nat /\ n \in Above(b)
    BY <1>2, Bounds DEF Page, Above, Stored
  <2>2. Under(n) \in SUBSET Under(k)
    <3> SUFFICES ASSUME NEW i \in Above(b), i < n PROVE i < k
      OBVIOUS
    <3>1. i \in Nat
      BY Bounds DEF Above, Stored
    <3> QED BY <1>2, <2>1, <3>1
  <2> HIDE DEF Under
  <2>3. RowsOf(Under(n)) <= RowsOf(Under(k)) /\ RowsOf(Under(n)) \in Nat /\ RowsOf(Under(k)) \in Nat
    BY <2>1, <2>2, FewerRows, RowsOfSet
  <2>4. RowsOf(Under(n)) < Limit
    BY <2>1, <2>3, Bounds
  <2> QED BY <2>1, <2>4 DEF Page, Under
<1> QED BY <1>1, <1>2

-----------------------------------------------------------------------------
(* Sequences of commands and of what the client is sent.                   *)

Commands == [type : {"sync", "send"}, num : {0} \cup Number]

LEMMA Grown ==
  ASSUME NEW S, NEW s \in Seq(S), NEW e \in S
  PROVE  /\ Append(s, e) \in Seq(S)
         /\ \A i \in 1 .. Len(Append(s, e)) :
              Append(s, e)[i] = e \/ (i \in 1 .. Len(s) /\ Append(s, e)[i] = s[i])
OBVIOUS

LEMMA Shortened ==
  ASSUME NEW S, NEW s \in Seq(S), s # <<>>
  PROVE  /\ Tail(s) \in Seq(S) /\ Head(s) \in S /\ 1 \in 1 .. Len(s) /\ Head(s) = s[1]
         /\ \A i \in 1 .. Len(Tail(s)) : i + 1 \in 1 .. Len(s) /\ Tail(s)[i] = s[i + 1]
OBVIOUS

LEMMA SendsIs ==
  ASSUME NEW s \in Seq(Commands)
  PROVE  IsFiniteSet({i \in 1 .. Len(s) : s[i].type = "send"}) /\ Sends(s) \in Nat
<1>1. Len(s) \in Nat
  OBVIOUS
<1>2. IsFiniteSet(1 .. Len(s))
  BY <1>1, FS_Interval
<1>3. IsFiniteSet({i \in 1 .. Len(s) : s[i].type = "send"})
  BY <1>2, FS_Subset
<1> QED BY <1>3, FS_CardinalityType DEF Sends

LEMMA SendsGrown ==
  ASSUME NEW s \in Seq(Commands), NEW e \in Commands
  PROVE  Sends(Append(s, e)) = Sends(s) + (IF e.type = "send" THEN 1 ELSE 0)
<1> DEFINE t == Append(s, e)
           A == {i \in 1 .. Len(s) : s[i].type = "send"}
           B == {i \in 1 .. Len(t) : t[i].type = "send"}
           n == Len(s) + 1
<1>1. /\ Len(t) = n /\ Len(s) \in Nat /\ t[n] = e /\ \A i \in 1 .. Len(s) : t[i] = s[i]
  OBVIOUS
<1>2. IsFiniteSet(A) /\ Cardinality(A) \in Nat
  BY SendsIs DEF Sends
<1>3. n \notin A
  BY <1>1
<1>4. Sends(s) = Cardinality(A) /\ Sends(t) = Cardinality(B)
  BY DEF Sends
<1> HIDE DEF t
<1>5. CASE e.type = "send"
  <2>1. B = A \cup {n}
    BY <1>1, <1>5
  <2>2. Cardinality(A \cup {n}) = Cardinality(A) + 1
    BY <1>2, <1>3, FS_AddElement
  <2> HIDE DEF A, B
  <2>3. Sends(t) = Sends(s) + 1
    BY <1>4, <2>1, <2>2
  <2> QED BY <1>5, <2>3 DEF t
<1>6. CASE e.type # "send"
  <2>1. B = A
    BY <1>1, <1>6
  <2> HIDE DEF A, B
  <2>2. Sends(t) = Sends(s) + 0
    BY <1>2, <1>4, <2>1
  <2> QED BY <1>6, <2>2 DEF t
<1> QED BY <1>5, <1>6

LEMMA SendsShortened ==
  ASSUME NEW s \in Seq(Commands), s # <<>>
  PROVE  Sends(s) = Sends(Tail(s)) + (IF Head(s).type = "send" THEN 1 ELSE 0)
<1> DEFINE t == Tail(s)
           A == {i \in 1 .. Len(t) : t[i].type = "send"}
           C == {i \in 2 .. Len(s) : s[i].type = "send"}
           B == {i \in 1 .. Len(s) : s[i].type = "send"}
<1>1. /\ Len(t) \in Nat /\ Len(s) = Len(t) + 1 /\ Head(s) = s[1]
      /\ \A i \in 1 .. Len(t) : t[i] = s[i + 1]
      /\ t \in Seq(Commands)
  OBVIOUS
<1>2. Sends(t) = Cardinality(A) /\ Sends(s) = Cardinality(B)
  BY DEF Sends
<1> HIDE DEF t
<1>3. IsFiniteSet(A) /\ Cardinality(A) \in Nat
  BY <1>1, <1>2, SendsIs
<1>4. IsFiniteSet(C) /\ Cardinality(C) = Cardinality(A)
  <2> DEFINE shift == [i \in A |-> i + 1]
  <2>1. \A i \in A : i + 1 \in C
    BY <1>1
  <2>2. \A i \in C : i - 1 \in A /\ (i - 1) + 1 = i
    BY <1>1
  <2>3. shift \in [A -> C]
    BY <2>1
  <2>4. \A i, j \in A : shift[i] = shift[j] => i = j
    OBVIOUS
  <2>5. \A i \in C : \E j \in A : shift[j] = i
    BY <2>2
  <2> HIDE DEF shift, A, C
  <2>6. shift \in Bijection(A, C)
    BY <2>3, <2>4, <2>5, Fun_IsBij
  <2> QED BY <1>3, <2>6, FS_Bijection, Fun_ExistsBij
<1>5. CASE Head(s).type = "send"
  <2>1. B = C \cup {1} /\ 1 \notin C
    BY <1>1, <1>5
  <2> HIDE DEF A, B, C
  <2>2. Cardinality(C \cup {1}) = Cardinality(C) + 1
    BY <1>4, <2>1, FS_AddElement
  <2>3. Sends(s) = Sends(t) + 1
    BY <1>2, <1>4, <2>1, <2>2
  <2> QED BY <1>5, <2>3 DEF t
<1>6. CASE Head(s).type # "send"
  <2>1. B = C
    BY <1>1, <1>6
  <2> HIDE DEF A, B, C
  <2>2. Sends(s) = Sends(t) + 0
    BY <1>2, <1>3, <1>4, <2>1
  <2> QED BY <1>6, <2>2 DEF t
<1> QED BY <1>5, <1>6

-----------------------------------------------------------------------------
(* Types.                                                                  *)

SenderSide == \E w \in Sender : SenderStep(w)
ConsumerSide == \E p \in Partition : Consumer(p) \/ Commit(p) \/ ConsumerEnds(p) \/ Takeover(p)
ClientSide == Start \/ HandleLogin \/ FirstSync \/ Type \/ Receive

\* Numbers that are drawn are numbers.
LEMMA DrawnIsNumber ==
  ASSUME TypeOK, NumberInv
  PROVE  /\ counter \in Nat /\ begun \in Nat /\ sent \in Nat /\ Sends(up) \in Nat
         /\ begun < MaxIn => counter + 1 \in Number
         /\ up # <<>> /\ Head(up).type = "send" => counter + 1 \in Number
<1>1. /\ counter \in Nat /\ begun \in Nat /\ sent \in Nat /\ begun <= MaxIn /\ sent <= MaxOwn
  BY Bounds DEF TypeOK
<1>2. up \in Seq(Commands) /\ counter + Sends(up) <= begun + sent
  BY DEF TypeOK, Commands, NumberInv
<1>3. Sends(up) \in Nat
  BY <1>2, SendsIs
<1>4. begun < MaxIn => counter + 1 \in Number
  BY <1>1, <1>2, <1>3, Bounds DEF Number
<1>5. ASSUME up # <<>>, Head(up).type = "send" PROVE counter + 1 \in Number
  <2>1. Sends(up) = Sends(Tail(up)) + 1 /\ Tail(up) \in Seq(Commands)
    BY <1>2, <1>5, SendsShortened, Shortened
  <2>2. Sends(Tail(up)) \in Nat
    BY <2>1, SendsIs
  <2> QED BY <1>1, <1>2, <2>1, <2>2, Bounds DEF Number
<1> QED BY <1>1, <1>3, <1>4, <1>5

\* What the senders' workers have in hand.
LEMMA SenderTypes ==
  ASSUME TypeOK, NumberInv, [Next]_vars
  PROVE  /\ spc' \in [Sender -> {"idle", "publish", "push"}]
         /\ snum' \in [Sender -> {0} \cup Number] /\ begun' \in 0 .. MaxIn
         /\ \A w \in Sender : spc'[w] # "idle" => snum'[w] \in Number
<1>t. /\ spc \in [Sender -> {"idle", "publish", "push"}]
      /\ snum \in [Sender -> {0} \cup Number] /\ begun \in 0 .. MaxIn
      /\ \A w \in Sender : spc[w] # "idle" => snum[w] \in Number
  BY DEF TypeOK, NumberInv
<1>1. ASSUME NEW w \in Sender, Draw(w)
      PROVE  /\ spc' \in [Sender -> {"idle", "publish", "push"}]
             /\ snum' \in [Sender -> {0} \cup Number] /\ begun' \in 0 .. MaxIn
             /\ \A v \in Sender : spc'[v] # "idle" => snum'[v] \in Number
  <2>1. begun < MaxIn /\ begun' = begun + 1
    BY <1>1 DEF Draw
  <2>2. begun' \in 0 .. MaxIn
    BY <1>t, <2>1, Bounds
  <2>3. CASE spc' = [spc EXCEPT ![w] = "publish"] /\ snum' = [snum EXCEPT ![w] = counter + 1]
    <3>1. counter + 1 \in Number
      BY <2>1, DrawnIsNumber
    <3> QED BY <1>t, <2>2, <2>3, <3>1
  <2>4. CASE UNCHANGED <<spc, snum>>
    BY <1>t, <2>2, <2>4
  <2> QED BY <1>1, <2>3, <2>4 DEF Draw
<1>2. ASSUME NEW w \in Sender, Publish(w) \/ Push(w)
      PROVE  /\ spc' \in [Sender -> {"idle", "publish", "push"}]
             /\ snum' \in [Sender -> {0} \cup Number] /\ begun' = begun
             /\ \A v \in Sender : spc'[v] # "idle" => snum'[v] \in Number
  <2>1. /\ begun' = begun /\ spc[w] # "idle"
        /\ \/ spc' = [spc EXCEPT ![w] = "push"] /\ snum' = snum
           \/ spc' = [spc EXCEPT ![w] = "idle"] /\ snum' = [snum EXCEPT ![w] = 0]
    BY <1>2 DEF Publish, Push, SenderDone
  <2> QED BY <1>t, <2>1
<1>3. CASE ~SenderSide
  <2>1. UNCHANGED senderVars
    BY <1>3 DEF Next, SenderSide, Consumer, Insert, Mark, Commit, ConsumerEnds, Takeover, Start,
         HandleLogin, FirstSync, Type, Receive, ReceiveOne, ReceivePage, Worker, OwnDraw, OwnPublish,
         OwnAck, SyncCount, SyncFind, vars
  <2> QED BY <1>t, <2>1 DEF senderVars
<1> QED BY <1>t, <1>1, <1>2, <1>3 DEF SenderSide, SenderStep

\* A message that arrives makes a partition longer.
LEMMA ArrivesTypes ==
  ASSUME TypeOK, ConsumerInv, NEW n \in Number, Arrives(n) \/ UNCHANGED log,
         UNCHANGED <<consuming, pos, marked, committed, inserted>>
  PROVE  /\ log' \in [Partition -> Seq(Number)]
         /\ \A p \in Partition : {pos'[p], marked'[p], committed'[p]} \subseteq 0 .. Len(log'[p])
         /\ ConsumerInv'
<1>t. /\ log \in [Partition -> Seq(Number)]
      /\ \A p \in Partition : {pos[p], marked[p], committed[p]} \subseteq 0 .. Len(log[p])
  BY DEF TypeOK
<1>1. /\ log' \in [Partition -> Seq(Number)]
      /\ \A p \in Partition : Len(log'[p]) \in Nat /\ Len(log[p]) \in Nat /\ Len(log[p]) <= Len(log'[p])
  <2>1. CASE UNCHANGED log
    BY <1>t, <2>1
  <2>2. CASE Arrives(n)
    <3>1. PICK p \in Partition : log' = [log EXCEPT ![p] = Append(@, n)]
      BY <2>2 DEF Arrives
    <3>2. /\ Append(log[p], n) \in Seq(Number) /\ Len(Append(log[p], n)) = Len(log[p]) + 1
          /\ Len(log[p]) \in Nat
      BY <1>t
    <3> QED BY <1>t, <3>1, <3>2
  <2> QED BY <2>1, <2>2
<1>2. \A p \in Partition : {pos[p], marked[p], committed[p]} \subseteq 0 .. Len(log'[p])
  <2> SUFFICES ASSUME NEW p \in Partition
               PROVE  {pos[p], marked[p], committed[p]} \subseteq 0 .. Len(log'[p])
    OBVIOUS
  <2>1. 0 .. Len(log[p]) \subseteq 0 .. Len(log'[p])
    BY <1>1
  <2> QED BY <1>t, <2>1
<1>3. ConsumerInv'
  <2> SUFFICES ASSUME NEW p \in Partition, inserted[p] PROVE consuming[p] /\ pos[p] < Len(log'[p])
    BY DEF ConsumerInv
  <2>1. consuming[p] /\ pos[p] < Len(log[p]) /\ pos[p] \in Nat
    BY <1>t DEF ConsumerInv
  <2> QED BY <1>1, <2>1
<1> QED BY <1>1, <1>2, <1>3

\* Partitions, consumers and the table.
LEMMA QueueTypes ==
  ASSUME TypeOK, NumberInv, ConsumerInv, [Next]_vars
  PROVE  /\ log' \in [Partition -> Seq(Number)]
         /\ pos' \in [Partition -> Nat] /\ committed' \in [Partition -> Nat]
         /\ \A p \in Partition : {pos'[p], marked'[p], committed'[p]} \subseteq 0 .. Len(log'[p])
         /\ consuming' \in [Partition -> BOOLEAN]
         /\ inserted' \in [Partition -> BOOLEAN] /\ marked' \in [Partition -> Nat]
         /\ failed' \subseteq Number /\ rows' \in [Number -> Nat]
         /\ ConsumerInv'
         /\ \A n \in Number : rows'[n] >= rows[n]
<1>t. /\ log \in [Partition -> Seq(Number)]
      /\ pos \in [Partition -> Nat] /\ committed \in [Partition -> Nat]
      /\ \A p \in Partition : {pos[p], marked[p], committed[p]} \subseteq 0 .. Len(log[p])
      /\ consuming \in [Partition -> BOOLEAN]
      /\ inserted \in [Partition -> BOOLEAN] /\ marked \in [Partition -> Nat]
      /\ failed \subseteq Number /\ rows \in [Number -> Nat]
      /\ \A p \in Partition : inserted[p] => consuming[p] /\ pos[p] < Len(log[p])
  BY DEF TypeOK, ConsumerInv
<1>n. \A n \in Number : rows[n] >= rows[n]
  BY <1>t
<1>1. CASE (\E w \in Sender : Publish(w)) \/ OwnPublish
  <2>1. /\ UNCHANGED <<consuming, pos, marked, committed, inserted, failed, rows>>
        /\ \E n \in Number : Arrives(n) \/ UNCHANGED log
    BY <1>1 DEF Publish, OwnPublish, NumberInv
  <2>2. PICK n \in Number : Arrives(n) \/ UNCHANGED log
    BY <2>1
  <2>3. /\ log' \in [Partition -> Seq(Number)]
        /\ \A p \in Partition : {pos'[p], marked'[p], committed'[p]} \subseteq 0 .. Len(log'[p])
        /\ ConsumerInv'
    BY <2>1, <2>2, ArrivesTypes
  <2> QED BY <1>t, <1>n, <2>1, <2>3
<1>2. ASSUME NEW p \in Partition, Insert(p)
      PROVE  /\ UNCHANGED <<log, consuming, pos, committed, marked>>
             /\ inserted' \in [Partition -> BOOLEAN]
             /\ failed' \subseteq Number /\ rows' \in [Number -> Nat]
             /\ ConsumerInv'
             /\ \A n \in Number : rows'[n] >= rows[n]
  <2> DEFINE n == log[p][pos[p] + 1]
  <2>1. /\ consuming[p] /\ pos[p] < Len(log[p])
        /\ inserted' = [inserted EXCEPT ![p] = TRUE]
        /\ UNCHANGED <<log, consuming, pos, committed, marked>>
    BY <1>2 DEF Insert, Offered
  <2>2. n \in Number
    <3>1. log[p] \in Seq(Number) /\ pos[p] + 1 \in 1 .. Len(log[p])
      BY <1>t, <2>1
    <3> QED BY <3>1
  <2>3. \/ rows' = [rows EXCEPT ![n] = @ + 1] /\ failed' = failed
        \/ failed' = failed \cup {n} /\ rows' = rows
    BY <1>2 DEF Insert
  <2> HIDE DEF n
  <2>4. ConsumerInv'
    BY <1>t, <2>1 DEF ConsumerInv
  <2>5. failed' \subseteq Number /\ rows' \in [Number -> Nat]
    <3>1. rows[n] + 1 \in Nat
      BY <1>t, <2>2
    <3>2. failed' \subseteq Number
      BY <1>t, <2>2, <2>3
    <3> QED BY <1>t, <2>2, <2>3, <3>1, <3>2
  <2>6. \A k \in Number : rows'[k] >= rows[k]
    <3> SUFFICES ASSUME NEW k \in Number PROVE rows'[k] >= rows[k]
      OBVIOUS
    <3>1. rows[k] \in Nat /\ (rows'[k] = rows[k] \/ rows'[k] = rows[k] + 1)
      BY <1>t, <2>2, <2>3
    <3> QED BY <3>1
  <2> QED BY <1>t, <2>1, <2>4, <2>5, <2>6
<1>3. ASSUME NEW p \in Partition, Mark(p) \/ Commit(p) \/ ConsumerEnds(p) \/ Takeover(p)
      PROVE  /\ UNCHANGED <<log, failed, rows>>
             /\ pos' \in [Partition -> Nat] /\ committed' \in [Partition -> Nat]
             /\ consuming' \in [Partition -> BOOLEAN]
             /\ inserted' \in [Partition -> BOOLEAN] /\ marked' \in [Partition -> Nat]
             /\ \A q \in Partition : {pos'[q], marked'[q], committed'[q]} \subseteq 0 .. Len(log'[q])
             /\ ConsumerInv'
  <2>l. Len(log[p]) \in Nat /\ pos[p] \in Nat /\ marked[p] \in Nat /\ committed[p] \in Nat
    BY <1>t
  <2>1. CASE Mark(p)
    <3>1. /\ UNCHANGED <<log, consuming, failed, rows, committed>>
          /\ inserted[p] /\ inserted' = [inserted EXCEPT ![p] = FALSE]
          /\ pos' = [pos EXCEPT ![p] = pos[p] + 1]
          /\ marked' = [marked EXCEPT ![p] = pos[p] + 1]
      BY <2>1 DEF Mark
    <3>2. pos[p] + 1 \in 0 .. Len(log[p])
      BY <1>t, <2>l, <3>1
    <3>3. \A q \in Partition : {pos'[q], marked'[q], committed'[q]} \subseteq 0 .. Len(log[q])
      BY <1>t, <3>1, <3>2
    <3>4. ConsumerInv'
      BY <1>t, <3>1 DEF ConsumerInv
    <3> QED BY <1>t, <2>l, <3>1, <3>3, <3>4
  <2>2. CASE Commit(p)
    <3>1. /\ UNCHANGED <<log, consuming, failed, rows, pos, inserted, marked>>
          /\ committed' = [committed EXCEPT ![p] = marked[p]]
      BY <2>2 DEF Commit
    <3>2. \A q \in Partition : {pos'[q], marked'[q], committed'[q]} \subseteq 0 .. Len(log[q])
      BY <1>t, <3>1
    <3> QED BY <1>t, <2>l, <3>1, <3>2 DEF ConsumerInv
  <2>3. CASE ConsumerEnds(p)
    <3>1. /\ UNCHANGED <<log, failed, rows, committed>>
          /\ consuming' = [consuming EXCEPT ![p] = FALSE]
          /\ inserted' = [inserted EXCEPT ![p] = FALSE]
          /\ pos' = [pos EXCEPT ![p] = 0] /\ marked' = [marked EXCEPT ![p] = 0]
      BY <2>3 DEF ConsumerEnds
    <3>2. \A q \in Partition : {pos'[q], marked'[q], committed'[q]} \subseteq 0 .. Len(log[q])
      <4> SUFFICES ASSUME NEW q \in Partition
                   PROVE  {pos'[q], marked'[q], committed'[q]} \subseteq 0 .. Len(log[q])
        OBVIOUS
      <4>1. CASE q = p
        BY <1>t, <2>l, <3>1, <4>1
      <4>2. CASE q # p
        BY <1>t, <3>1, <4>2
      <4> QED BY <4>1, <4>2
    <3>3. ConsumerInv'
      BY <1>t, <3>1 DEF ConsumerInv
    <3> QED BY <1>t, <3>1, <3>2, <3>3
  <2>4. CASE Takeover(p)
    <3>1. /\ UNCHANGED <<log, failed, rows, committed, inserted, marked>>
          /\ ~consuming[p] /\ consuming' = [consuming EXCEPT ![p] = TRUE]
          /\ pos' = [pos EXCEPT ![p] = Resume(p)]
      BY <2>4 DEF Takeover
    <3>2. Resume(p) \in 0 .. Len(log[p]) /\ Resume(p) \in Nat
      BY <1>t, <2>l DEF Resume
    <3>3. \A q \in Partition : {pos'[q], marked'[q], committed'[q]} \subseteq 0 .. Len(log[q])
      BY <1>t, <3>1, <3>2
    <3>4. ConsumerInv'
      BY <1>t, <3>1 DEF ConsumerInv
    <3> QED BY <1>t, <3>1, <3>2, <3>3, <3>4
  <2> QED BY <1>3, <2>1, <2>2, <2>3, <2>4
<1>4. CASE ~(\E w \in Sender : Publish(w)) /\ ~OwnPublish /\ ~ConsumerSide
  <2>1. UNCHANGED <<log, consuming, pos, committed, marked, inserted, failed, rows>>
    BY <1>4 DEF Next, ConsumerSide, SenderStep, Draw, Push, Start, HandleLogin, FirstSync, Type,
         Receive, ReceiveOne, ReceivePage, Worker, OwnDraw, OwnAck, SyncCount, SyncFind, vars,
         queueVars
  <2> QED BY <1>t, <1>n, <2>1 DEF ConsumerInv
<1>5. CASE ConsumerSide
  <2>1. PICK p \in Partition : Insert(p) \/ (Mark(p) \/ Commit(p) \/ ConsumerEnds(p) \/ Takeover(p))
    BY <1>5 DEF ConsumerSide, Consumer
  <2>2. CASE Insert(p)
    BY <1>t, <1>2, <2>2
  <2>3. CASE Mark(p) \/ Commit(p) \/ ConsumerEnds(p) \/ Takeover(p)
    BY <1>t, <1>n, <1>3, <2>3
  <2> QED BY <2>1, <2>2, <2>3
<1> QED BY <1>1, <1>4, <1>5

\* What the client knows.
LEMMA ClientTypes ==
  ASSUME TypeOK, AwayInv, [Next]_vars
  PROVE  /\ sent' \in 0 .. MaxOwn /\ online' \in BOOLEAN /\ offline' \subseteq Number
         /\ first' \in {"off", "ready", "gone"} /\ seq' \in {0} \cup Number
         /\ raised' \in {0} \cup Number /\ got' \subseteq Number /\ seq' >= seq
<1>t. /\ sent \in 0 .. MaxOwn /\ online \in BOOLEAN /\ offline \subseteq Number
      /\ first \in {"off", "ready", "gone"} /\ seq \in {0} \cup Number
      /\ raised \in {0} \cup Number /\ got \subseteq Number /\ down \in Seq(Item)
      /\ counter \in 0 .. (MaxIn + MaxOwn)
  BY DEF TypeOK
<1>s. seq \in Nat /\ seq >= seq
  BY <1>t, Bounds
<1>0. CASE Start
  <2>1. /\ UNCHANGED <<sent, online, offline, raised>> /\ first' = "ready"
        /\ seq = 0 /\ seq' \in 0 .. counter /\ got' = 1 .. seq'
    BY <1>0 DEF Start, AwayInv, sessionVars
  <2>2. seq' \in {0} \cup Number /\ seq' >= seq /\ 1 .. seq' \subseteq Number
    BY <1>t, <2>1, Bounds DEF Number
  <2> QED BY <1>t, <2>1, <2>2
<1>1. CASE HandleLogin \/ FirstSync
  <2>1. /\ UNCHANGED <<sent, seq, got, raised>> /\ online' \in BOOLEAN
        /\ first' \in {"off", "ready", "gone"} /\ (offline' = offline \/ offline' = Stored)
    BY <1>t, <1>1 DEF HandleLogin, FirstSync, clientVars
  <2> QED BY <1>t, <1>s, <2>1 DEF Stored
<1>2. CASE Type
  <2>1. /\ UNCHANGED <<online, offline, first, seq, got, raised>>
        /\ sent < MaxOwn /\ sent' = sent + 1
    BY <1>2 DEF Type, sessionVars
  <2>2. sent' \in 0 .. MaxOwn
    BY <1>t, <2>1, Bounds
  <2> QED BY <1>t, <1>s, <2>1, <2>2
<1>3. CASE ReceiveOne
  <2> DEFINE n == Head(down).num
  <2>1. /\ UNCHANGED <<online, offline, first, sent>>
        /\ down # <<>> /\ Head(down).type \in {"push", "ack"}
        /\ seq' = Larger(seq, n) /\ raised' = Larger(raised, n) /\ got' = got \cup {n}
    BY <1>3 DEF ReceiveOne, Raise, sessionVars
  <2>2. n \in Number
    <3>1. Head(down) \in Item
      BY <1>t, <2>1, Shortened
    <3> QED BY <2>1, <3>1 DEF Item
  <2> HIDE DEF n
  <2>3. seq' \in {seq, n} /\ raised' \in {raised, n}
    BY <2>1 DEF Larger
  <2>4. seq' >= seq
    BY <1>s, <2>1, <2>2, Bounds DEF Larger
  <2> QED BY <1>t, <2>1, <2>2, <2>3, <2>4
<1>4. CASE ReceivePage
  <2> DEFINE S == {seq} \cup Head(down).rows
  <2>1. /\ UNCHANGED <<online, offline, first, sent, raised>>
        /\ down # <<>> /\ Head(down).type = "page"
        /\ seq' = Highest(S) /\ got' = got \cup Head(down).rows
    BY <1>4 DEF ReceivePage, sessionVars
  <2>2. Head(down).rows \subseteq Number
    <3>1. Head(down) \in Item
      BY <1>t, <2>1, Shortened
    <3> QED BY <2>1, <3>1 DEF Item
  <2>3. S \in SUBSET ({0} \cup Number) /\ S # {} /\ seq \in S
    BY <1>t, <2>2
  <2> HIDE DEF S
  <2>4. seq' \in S /\ seq <= seq'
    BY <2>1, <2>3, HighestIs
  <2>5. seq' \in {0} \cup Number /\ seq' >= seq
    BY <1>s, <2>3, <2>4, Bounds
  <2> QED BY <1>t, <2>1, <2>2, <2>5
<1>5. CASE ~ClientSide
  <2>1. UNCHANGED <<sent, online, offline, first, seq, got, raised>>
    BY <1>5 DEF Next, ClientSide, SenderStep, Draw, Publish, Push, Consumer, Insert, Mark, Commit,
         ConsumerEnds, Takeover, Worker, OwnDraw, OwnPublish, OwnAck, SyncCount, SyncFind, vars,
         clientVars, sessionVars
  <2> QED BY <1>t, <1>s, <2>1
<1> QED BY <1>0, <1>1, <1>2, <1>3, <1>4, <1>5 DEF ClientSide, Receive

\* What a step does with the commands of the client, and with the numbers.
LEMMA UpSteps ==
  ASSUME [Next]_vars
  PROVE  \/ /\ UNCHANGED <<up, sent>>
            /\ \/ UNCHANGED <<counter, begun>>
               \/ begun' = begun + 1 /\ counter' \in {counter, counter + 1}
         \/ /\ up' = Append(up, [type |-> "sync", num |-> seq'])
            /\ UNCHANGED <<counter, begun, sent>>
         \/ /\ up' = Append(up, [type |-> "send", num |-> 0])
            /\ sent' = sent + 1 /\ UNCHANGED <<counter, begun>>
         \/ UNCHANGED <<up, counter, begun>> /\ sent' = sent + 1
         \/ /\ up # <<>> /\ up' = Tail(up) /\ UNCHANGED <<begun, sent>>
            /\ counter' = counter \/ (Head(up).type = "send" /\ counter' = counter + 1)
<1>1. CASE (\E w \in Sender : Draw(w)) \/ Type
  BY <1>1 DEF Draw, Type, Command, clientVars, senderVars
<1>2. CASE FirstSync
  BY <1>2 DEF FirstSync, Command, senderVars
<1>3. CASE ReceivePage
  <2>1. UNCHANGED <<counter, begun, sent>>
    BY <1>3 DEF ReceivePage, senderVars
  <2>2. UNCHANGED up \/ up' = Append(up, [type |-> "sync", num |-> seq'])
    BY <1>3 DEF ReceivePage, Command
  <2> QED BY <2>1, <2>2
<1>4. CASE OwnDraw
  BY <1>4 DEF OwnDraw, Taken, senderVars, clientVars
<1>5. CASE SyncCount
  BY <1>5 DEF SyncCount, Taken, senderVars, clientVars
<1>6. CASE ~(\E w \in Sender : Draw(w)) /\ ~Type /\ ~FirstSync /\ ~ReceivePage /\ ~OwnDraw /\ ~SyncCount
  BY <1>6 DEF Next, SenderStep, Publish, Push, Consumer, Insert, Mark, Commit, ConsumerEnds, Takeover,
       Start, HandleLogin, Receive, ReceiveOne, Worker, OwnPublish, OwnAck, SyncFind, vars,
       clientVars, senderVars
<1> QED BY <1>1, <1>2, <1>3, <1>4, <1>5, <1>6

\* The commands, and the balance of numbers.
LEMMA UpTypes ==
  ASSUME TypeOK, AwayInv, NumberInv, SyncInv, [Next]_vars
  PROVE  /\ up' \in Seq(Commands) /\ counter' \in 0 .. (MaxIn + MaxOwn)
         /\ counter' + Sends(up') <= begun' + sent'
         /\ \A i \in 1 .. Len(up') : up'[i].type = "sync" => up'[i].num <= seq'
<1>t. /\ counter \in Nat /\ begun \in Nat /\ sent \in Nat /\ up \in Seq(Commands)
      /\ begun' \in 0 .. MaxIn /\ sent' \in 0 .. MaxOwn
      /\ seq \in {0} \cup Number /\ seq' \in {0} \cup Number /\ seq' >= seq
  BY DrawnIsNumber, SenderTypes, ClientTypes DEF TypeOK, Commands
<1>n. seq \in Nat /\ seq' \in Nat /\ begun' \in Nat /\ sent' \in Nat /\ begun' <= MaxIn /\ sent' <= MaxOwn
  BY <1>t, Bounds
<1>u. /\ Sends(up) \in Nat /\ counter + Sends(up) <= begun + sent
      /\ \A i \in 1 .. Len(up) : up[i].type = "sync" => up[i].num <= seq
  BY <1>t, SendsIs DEF NumberInv, SyncInv
<1>v. \A i \in 1 .. Len(up) : up[i].num \in Nat
  <2> SUFFICES ASSUME NEW i \in 1 .. Len(up) PROVE up[i].num \in Nat
    OBVIOUS
  <2>1. up[i] \in Commands
    BY <1>t
  <2>2. up[i].num \in {0} \cup Number
    BY <2>1 DEF Commands
  <2> QED BY <2>2, NumbersAreNat
<1>w. \A i \in 1 .. Len(up) : up[i].type = "sync" => up[i].num <= seq'
  BY <1>t, <1>n, <1>u, <1>v
<1> DEFINE Good == /\ up' \in Seq(Commands) /\ counter' \in Nat /\ Sends(up') \in Nat
                   /\ counter' + Sends(up') <= begun' + sent'
                   /\ \A i \in 1 .. Len(up') : up'[i].type = "sync" => up'[i].num <= seq'
<1>1. ASSUME UNCHANGED up,
             \/ UNCHANGED <<counter, begun>> /\ sent' \in {sent, sent + 1}
             \/ begun' = begun + 1 /\ sent' = sent /\ counter' \in {counter, counter + 1}
      PROVE  Good
  <2>1. Sends(up') = Sends(up)
    BY <1>1
  <2>2. counter' \in Nat /\ counter' + Sends(up') <= begun' + sent'
    BY <1>t, <1>u, <1>1, <2>1
  <2> QED BY <1>t, <1>u, <1>w, <1>1, <2>1, <2>2
<1>2. ASSUME NEW e \in Commands, up' = Append(up, e), UNCHANGED <<counter, begun>>,
             \/ e.type = "sync" /\ e.num = seq' /\ sent' = sent
             \/ e.type = "send" /\ sent' = sent + 1
      PROVE  Good
  <2>1. Sends(up') = Sends(up) + (IF e.type = "send" THEN 1 ELSE 0)
    BY <1>t, <1>2, SendsGrown
  <2>2. Sends(up') \in Nat /\ counter' + Sends(up') <= begun' + sent'
    BY <1>t, <1>u, <1>2, <2>1
  <2>3. /\ up' \in Seq(Commands)
        /\ \A i \in 1 .. Len(up') : up'[i] = e \/ (i \in 1 .. Len(up) /\ up'[i] = up[i])
    BY <1>t, <1>2, Grown
  <2>4. e.type = "sync" => e.num <= seq'
    BY <1>n, <1>2
  <2>5. \A i \in 1 .. Len(up') : up'[i].type = "sync" => up'[i].num <= seq'
    BY <1>w, <2>3, <2>4
  <2> QED BY <1>t, <1>2, <2>2, <2>3, <2>5
<1>3. ASSUME up # <<>>, up' = Tail(up), UNCHANGED <<begun, sent>>,
             counter' = counter \/ (Head(up).type = "send" /\ counter' = counter + 1)
      PROVE  Good
  <2>1. Sends(up) = Sends(up') + (IF Head(up).type = "send" THEN 1 ELSE 0)
    BY <1>t, <1>3, SendsShortened
  <2>2. /\ up' \in Seq(Commands)
        /\ \A i \in 1 .. Len(up') : i + 1 \in 1 .. Len(up) /\ up'[i] = up[i + 1]
    BY <1>t, <1>3, Shortened
  <2>3. Sends(up') \in Nat
    BY <2>2, SendsIs
  <2>4. counter' \in Nat /\ counter' + Sends(up') <= begun' + sent'
    BY <1>t, <1>u, <1>3, <2>1, <2>3
  <2>5. \A i \in 1 .. Len(up') : up'[i].type = "sync" => up'[i].num <= seq'
    BY <1>w, <2>2
  <2> QED BY <2>2, <2>3, <2>4, <2>5
<1>4. Good
  <2>1. CASE /\ up' = Append(up, [type |-> "sync", num |-> seq'])
             /\ UNCHANGED <<counter, begun, sent>>
    <3> DEFINE e == [type |-> "sync", num |-> seq']
    <3>1. e \in Commands /\ e.type = "sync" /\ e.num = seq'
      BY <1>t DEF Commands
    <3> HIDE DEF Good
    <3> QED BY <1>2, <2>1, <3>1
  <2>2. CASE /\ up' = Append(up, [type |-> "send", num |-> 0])
             /\ sent' = sent + 1 /\ UNCHANGED <<counter, begun>>
    <3> DEFINE e == [type |-> "send", num |-> 0]
    <3>1. e \in Commands /\ e.type = "send"
      BY DEF Commands
    <3> HIDE DEF Good
    <3> QED BY <1>2, <2>2, <3>1
  <2> HIDE DEF Good
  <2> QED BY <1>1, <1>3, <2>1, <2>2, UpSteps
<1>5. counter' \in 0 .. (MaxIn + MaxOwn)
  BY <1>n, <1>4, Bounds
<1> QED BY <1>4, <1>5

\* Where the user's worker is, and what it has in hand.
LEMMA WorkerTypes ==
  ASSUME TypeOK, AwayInv, NumberInv, SyncInv, [Next]_vars
  PROVE  /\ hpc' \in {"idle", "publish", "ack", "find"} /\ hreg' \in {0} \cup Number
         /\ hcount' \in Nat /\ faults' \in 0 .. MaxFaults /\ disturbed' \in BOOLEAN
         /\ hpc' \in {"publish", "ack"} => hreg' \in Number
         /\ hpc' = "find" => hreg' <= seq'
<1>t. /\ hpc \in {"idle", "publish", "ack", "find"} /\ hreg \in {0} \cup Number
      /\ hcount \in Nat /\ disturbed \in BOOLEAN /\ up \in Seq(Commands)
      /\ rows \in [Number -> Nat]
      /\ hpc \in {"publish", "ack"} => hreg \in Number
      /\ hpc = "find" => hreg <= seq
      /\ seq' >= seq /\ seq \in Nat /\ seq' \in Nat /\ hreg \in Nat
  BY ClientTypes, NumbersAreNat DEF TypeOK, NumberInv, SyncInv, Commands
<1>f. faults' \in 0 .. MaxFaults
  <2>1. faults' = faults \/ (faults < MaxFaults /\ faults' = faults + 1)
    BY DEF Next, SenderStep, Draw, Publish, Push, Consumer, Insert, Mark, Commit, ConsumerEnds,
         Takeover, Start, HandleLogin, FirstSync, Type, Receive, ReceiveOne, ReceivePage, Worker,
         OwnDraw, OwnPublish, OwnAck, SyncCount, SyncFind, vars, Fault
  <2> QED BY <2>1, Bounds DEF TypeOK
<1>d. disturbed' \in BOOLEAN
  BY <1>t DEF Next, SenderStep, Draw, Publish, Push, Consumer, Insert, Mark, Commit, ConsumerEnds,
       Takeover, Start, HandleLogin, FirstSync, Type, Receive, ReceiveOne, ReceivePage, Worker,
       OwnDraw, OwnPublish, OwnAck, SyncCount, SyncFind, vars, sessionVars
<1> DEFINE Good == /\ hpc' \in {"idle", "publish", "ack", "find"} /\ hreg' \in {0} \cup Number
                   /\ hcount' \in Nat
                   /\ hpc' \in {"publish", "ack"} => hreg' \in Number
                   /\ hpc' = "find" => hreg' <= seq'
<1>r. Return => Good
  BY DEF Return
<1>k. UNCHANGED workerVars => Good
  BY <1>t DEF workerVars
<1>1. OwnDraw => Good
  <2> SUFFICES ASSUME OwnDraw PROVE Good
    OBVIOUS
  <2>1. CASE UNCHANGED <<hreg, hpc>>
    BY <1>k, <2>1 DEF OwnDraw, workerVars
  <2>2. CASE hreg' = counter + 1 /\ hpc' = "publish"
    <3>1. counter + 1 \in Number /\ hcount' = hcount
      BY DrawnIsNumber DEF OwnDraw, Taken
    <3> QED BY <1>t, <2>2, <3>1
  <2> HIDE DEF Good
  <2> QED BY <2>1, <2>2 DEF OwnDraw
<1>2. OwnPublish => Good
  <2> SUFFICES ASSUME OwnPublish, ~Return PROVE Good
    BY <1>r
  <2>1. hpc = "publish" /\ hpc' = "ack" /\ UNCHANGED <<hreg, hcount>>
    BY DEF OwnPublish
  <2> QED BY <1>t, <2>1
<1>3. OwnAck \/ SyncFind => Good
  <2> HIDE DEF Good
  <2> QED BY <1>r DEF OwnAck, SyncFind
<1>4. SyncCount => Good
  <2> SUFFICES ASSUME SyncCount, ~Return PROVE Good
    BY <1>r
  <2> DEFINE n == Head(up).num
  <2>1. /\ up # <<>> /\ Head(up).type = "sync" /\ hpc' = "find" /\ hreg' = n
        /\ hcount' = RowsOf(Above(n))
    BY DEF SyncCount, Taken
  <2>2. Head(up) \in Commands /\ 1 \in 1 .. Len(up) /\ Head(up) = up[1]
    BY <1>t, <2>1, Shortened
  <2>3. n \in {0} \cup Number
    BY <2>2 DEF Commands
  <2>4. n <= seq /\ n \in Nat
    BY <2>1, <2>2, <2>3, NumbersAreNat DEF SyncInv
  <2>5. Above(n) \in SUBSET Number
    BY DEF Above, Stored
  <2>6. RowsOf(Above(n)) \in Nat
    BY <1>t, <2>5, RowsOfSet
  <2> HIDE DEF n
  <2>7. hreg' <= seq'
    BY <1>t, <2>1, <2>4
  <2> QED BY <2>1, <2>3, <2>6, <2>7
<1>5. ~Worker => Good
  <2> HIDE DEF Good
  <2> QED BY <1>k DEF Next, SenderStep, Draw, Publish, Push, Consumer, Insert, Mark, Commit,
       ConsumerEnds, Takeover, Start, HandleLogin, FirstSync, Type, Receive, ReceiveOne, ReceivePage,
       vars
<1>6. Good
  <2> HIDE DEF Good
  <2> QED BY <1>1, <1>2, <1>3, <1>4, <1>5 DEF Worker
<1> QED BY <1>f, <1>d, <1>6

-----------------------------------------------------------------------------
(* What is on its way to the client, and what the client has been given.   *)

\* What a page leaves out is below seq, or above its rows, or did not wait.
NoGap(e) ==
  e.type = "page" => \A k \in e.rows, n \in offline : seq < n /\ n <= k => n \in e.rows

\* Only the user's worker and the workers of the senders add to what is on its
\* way, and a page they add has no gap.
LEMMA DownSteps ==
  ASSUME TypeOK, AwayInv, NumberInv, SyncInv, PageInv, [Next]_vars
  PROVE  \/ UNCHANGED down
         \/ down # <<>> /\ down' = Tail(down)
         \/ \E e \in Item : down' = Append(down, e) /\ NoGap(e) /\ UNCHANGED <<seq, offline>>
<1>t. /\ rows \in [Number -> Nat] /\ seq \in Nat /\ hreg \in Nat
      /\ offline \subseteq Stored
      /\ \A w \in Sender : spc[w] # "idle" => snum[w] \in Number
      /\ hpc \in {"publish", "ack"} => hreg \in Number
      /\ hpc = "find" => hreg <= seq
  BY NumbersAreNat DEF TypeOK, NumberInv, SyncInv, PageInv
<1> DEFINE Added == \E e \in Item : down' = Append(down, e) /\ NoGap(e) /\ UNCHANGED <<seq, offline>>
<1>1. ASSUME NEW w \in Sender, Push(w), ~UNCHANGED down PROVE Added
  <2> DEFINE e == [type |-> "push", num |-> snum[w]]
  <2>1. down' = Append(down, e) /\ UNCHANGED <<seq, offline>> /\ snum[w] \in Number
    BY <1>t, <1>1 DEF Push, clientVars, sessionVars
  <2>2. e \in Item /\ NoGap(e)
    BY <2>1 DEF Item, NoGap
  <2> HIDE DEF e
  <2> QED BY <2>1, <2>2
<1>2. ASSUME OwnAck PROVE Added
  <2> DEFINE e == [type |-> "ack", num |-> hreg]
  <2>1. down' = Append(down, e) /\ UNCHANGED <<seq, offline>> /\ hreg \in Number
    BY <1>t, <1>2 DEF OwnAck, clientVars, sessionVars
  <2>2. e \in Item /\ NoGap(e)
    BY <2>1 DEF Item, NoGap
  <2> HIDE DEF e
  <2> QED BY <2>1, <2>2
<1>3. ASSUME SyncCount, ~UNCHANGED down PROVE Added
  <2> DEFINE e == [type |-> "page", rows |-> {}, more |-> FALSE]
  <2>1. down' = Append(down, e) /\ UNCHANGED <<seq, offline>>
    BY <1>3 DEF SyncCount, clientVars
  <2>2. e \in Item /\ NoGap(e)
    BY DEF Item, NoGap
  <2> HIDE DEF e
  <2> QED BY <2>1, <2>2
<1>4. ASSUME SyncFind, ~UNCHANGED down PROVE Added
  <2> DEFINE e == [type |-> "page", rows |-> Page(hreg), more |-> HasMore]
  <2>1. down' = Append(down, e) /\ UNCHANGED <<seq, offline>> /\ hreg <= seq
    BY <1>t, <1>4 DEF SyncFind, clientVars
  <2>2. Page(hreg) \subseteq Number
    BY <1>t, PageHasNoGap
  <2>3. e \in Item
    BY <2>2 DEF Item, HasMore
  <2>4. ASSUME NEW k \in Page(hreg), NEW n \in offline, seq < n, n <= k PROVE n \in Page(hreg)
    <3>1. n \in Stored /\ n \in Nat
      BY <1>t, Bounds DEF Stored
    <3>2. hreg < n
      BY <1>t, <2>1, <2>4, <3>1
    <3> QED BY <1>t, <2>4, <3>1, <3>2, PageHasNoGap
  <2>5. NoGap(e)
    BY <2>4 DEF NoGap
  <2> HIDE DEF e
  <2> QED BY <2>1, <2>3, <2>5
<1>5. CASE Receive
  BY <1>5 DEF Receive, ReceiveOne, ReceivePage
<1>6. CASE ~Receive /\ ~(\E w \in Sender : Push(w)) /\ ~OwnAck /\ ~SyncCount /\ ~SyncFind
  BY <1>6 DEF Next, SenderStep, Draw, Publish, Consumer, Insert, Mark, Commit, ConsumerEnds, Takeover,
       Start, HandleLogin, FirstSync, Type, Worker, OwnDraw, OwnPublish, vars
<1> QED BY <1>1, <1>2, <1>3, <1>4, <1>5, <1>6

LEMMA StoredGrows ==
  ASSUME TypeOK, NumberInv, ConsumerInv, [Next]_vars
  PROVE  Stored \subseteq Stored'
<1> SUFFICES ASSUME NEW n \in Number, rows[n] > 0 PROVE rows'[n] > 0
  BY DEF Stored
<1>1. rows' \in [Number -> Nat] /\ rows'[n] >= rows[n]
  BY QueueTypes
<1>2. rows[n] \in Nat /\ rows'[n] \in Nat
  BY <1>1 DEF TypeOK
<1> QED BY <1>1, <1>2

\* Nothing gets to the worker, or to the client, until the Login is handled.
LEMMA AwayKept ==
  ASSUME TypeOK, AwayInv, [Next]_vars
  PROVE  /\ AwayInv'
         /\ \/ offline' = offline
            \/ /\ offline' = Stored /\ down' = <<>> /\ UNCHANGED <<got, seq>>
               /\ \A n \in Number : n <= seq => n \in got
<1>1. CASE HandleLogin
  <2>1. /\ first # "off" /\ ~online /\ online' = TRUE /\ offline' = Stored
        /\ UNCHANGED <<down, first, seq, got>>
    BY <1>1 DEF HandleLogin, clientVars
  <2>2. down = <<>> /\ \A n \in Number : n <= seq => n \in got
    BY <2>1 DEF AwayInv
  <2> QED BY <2>1, <2>2 DEF AwayInv
<1>2. CASE Start
  <2>1. /\ first = "off" /\ first' = "ready" /\ seq' \in 0 .. counter /\ got' = 1 .. seq'
        /\ UNCHANGED <<online, offline, up, down, hpc>>
    BY <1>2 DEF Start, sessionVars, workerVars
  <2>2. \A n \in Number : n <= seq' => n \in got'
    BY <2>1, Bounds DEF TypeOK, Number
  <2> QED BY <2>1, <2>2 DEF AwayInv
<1>3. CASE ~HandleLogin /\ ~Start
  <2>1. UNCHANGED <<online, offline>>
    BY <1>3 DEF Next, SenderStep, Draw, Publish, Push, Consumer, Insert, Mark, Commit, ConsumerEnds,
       Takeover, FirstSync, Type, Receive, ReceiveOne, ReceivePage, Worker, OwnDraw, OwnPublish, OwnAck,
       SyncCount, SyncFind, vars, sessionVars
  <2>2. ASSUME ~online
        PROVE  UNCHANGED <<up, down, hpc, seq, got>>
    <3>1. up = <<>> /\ down = <<>> /\ hpc = "idle"
      BY <2>2 DEF AwayInv
    <3> QED BY <1>3, <2>2, <3>1 DEF Next, SenderStep, Draw, Publish, Push, Consumer, Insert, Mark,
         Commit, ConsumerEnds, Takeover, FirstSync, Type, Command, Receive, ReceiveOne, ReceivePage,
         Worker, Taken, OwnDraw, OwnPublish, OwnAck, SyncCount, SyncFind, vars, clientVars, workerVars
  <2>3. first' = "off" => first = "off"
    BY <1>3 DEF Next, SenderStep, Draw, Publish, Push, Consumer, Insert, Mark, Commit, ConsumerEnds,
       Takeover, FirstSync, Type, Receive, ReceiveOne, ReceivePage, Worker, OwnDraw, OwnPublish, OwnAck,
       SyncCount, SyncFind, vars, clientVars
  <2> QED BY <2>1, <2>2, <2>3 DEF AwayInv
<1> QED BY <1>1, <1>2, <1>3

\* Pages on their way have no gap.
LEMMA PagesKept ==
  ASSUME TypeOK, NumberInv, ConsumerInv, AwayInv, SyncInv, PageInv, [Next]_vars
  PROVE  PageInv' /\ down' \in Seq(Item)
<1>t. /\ down \in Seq(Item) /\ seq \in Nat /\ seq' \in Nat /\ seq' >= seq
      /\ offline \subseteq Number
  BY ClientTypes, NumbersAreNat DEF TypeOK
<1>1. offline' \subseteq Stored'
  <2>1. offline \subseteq Stored
    BY DEF PageInv
  <2> QED BY <2>1, AwayKept, StoredGrows
<1>2. CASE offline' # offline
  <2>1. down' = <<>>
    BY <1>2, AwayKept
  <2> QED BY <1>1, <2>1 DEF PageInv
<1>3. CASE offline' = offline
  <2> DEFINE Whole(e) == e.type = "page" =>
               \A k \in e.rows, n \in offline : seq' < n /\ n <= k => n \in e.rows
  <2>1. \A i \in 1 .. Len(down) : Whole(down[i])
    <3> SUFFICES ASSUME NEW i \in 1 .. Len(down), down[i].type = "page",
                        NEW k \in down[i].rows, NEW n \in offline, seq' < n, n <= k
                 PROVE  n \in down[i].rows
      OBVIOUS
    <3>1. n \in Nat
      BY <1>t, Bounds
    <3>2. seq < n
      BY <1>t, <3>1
    <3> QED BY <3>2 DEF PageInv
  <2> SUFFICES down' \in Seq(Item) /\ \A i \in 1 .. Len(down') : Whole(down'[i])
    BY <1>1, <1>3 DEF PageInv
  <2>2. CASE UNCHANGED down
    BY <1>t, <2>1, <2>2
  <2>3. CASE down # <<>> /\ down' = Tail(down)
    <3>1. /\ down' \in Seq(Item)
          /\ \A i \in 1 .. Len(down') : i + 1 \in 1 .. Len(down) /\ down'[i] = down[i + 1]
      BY <1>t, <2>3, Shortened
    <3> HIDE DEF Whole
    <3> QED BY <2>1, <3>1
  <2>4. ASSUME NEW e \in Item, down' = Append(down, e), NoGap(e), seq' = seq
        PROVE  down' \in Seq(Item) /\ \A i \in 1 .. Len(down') : Whole(down'[i])
    <3>1. /\ down' \in Seq(Item)
          /\ \A i \in 1 .. Len(down') : down'[i] = e \/ (i \in 1 .. Len(down) /\ down'[i] = down[i])
      BY <1>t, <2>4, Grown
    <3>2. Whole(e)
      BY <2>4 DEF NoGap
    <3> HIDE DEF Whole
    <3> QED BY <2>1, <3>1, <3>2
  <2> HIDE DEF Whole
  <2> QED BY <2>2, <2>3, <2>4, DownSteps
<1> QED BY <1>2, <1>3

\* A page raises seq over nothing it does not have, and a push raises the
\* number the promise starts at as well.
LEMMA PageCompleteKept ==
  ASSUME TypeOK, AwayInv, PageInv, PageComplete, [Next]_vars
  PROVE  PageComplete'
<1>t. /\ down \in Seq(Item) /\ seq \in {0} \cup Number /\ raised \in Nat /\ seq \in Nat
      /\ offline \subseteq Number /\ offline' \subseteq Number
  BY ClientTypes, NumbersAreNat DEF TypeOK
<1>1. CASE offline' # offline
  <2>1. UNCHANGED <<got, seq>> /\ \A n \in Number : n <= seq => n \in got
    BY <1>1, AwayKept
  <2> QED BY <1>t, <2>1 DEF PageComplete
<1>2. CASE offline' = offline
  <2> SUFFICES ASSUME NEW n \in offline, raised' < n, n <= seq' PROVE n \in got'
    BY <1>2 DEF PageComplete
  <2>n. n \in Nat /\ n \in Number
    BY <1>t, Bounds
  <2>g. raised < n /\ n <= seq => n \in got
    BY DEF PageComplete
  <2>1. CASE ReceiveOne
    <3> DEFINE m == Head(down).num
    <3>1. /\ down # <<>> /\ Head(down).type \in {"push", "ack"}
          /\ seq' = Larger(seq, m) /\ raised' = Larger(raised, m) /\ got \subseteq got'
      BY <2>1 DEF ReceiveOne, Raise
    <3>2. m \in Nat
      <4>1. Head(down) \in Item
        BY <1>t, <3>1, Shortened
      <4>2. m \in Number
        BY <3>1, <4>1 DEF Item
      <4> QED BY <4>2, Bounds
    <3> HIDE DEF m
    <3>3. raised < n /\ m < n
      BY <1>t, <2>n, <3>1, <3>2 DEF Larger
    <3>4. n <= seq
      BY <1>t, <2>n, <3>1, <3>2, <3>3 DEF Larger
    <3> QED BY <2>g, <3>1, <3>3, <3>4
  <2>2. CASE ReceivePage
    <3> DEFINE R == Head(down).rows
    <3>1. /\ down # <<>> /\ Head(down).type = "page" /\ raised' = raised
          /\ seq' = Highest({seq} \cup R) /\ got' = got \cup R
      BY <2>2 DEF ReceivePage
    <3>2. Head(down) \in Item /\ 1 \in 1 .. Len(down) /\ Head(down) = down[1]
      BY <1>t, <3>1, Shortened
    <3>3. R \subseteq Number
      BY <3>1, <3>2 DEF Item
    <3>4. seq' \in {seq} \cup R
      <4>1. {seq} \cup R \in SUBSET ({0} \cup Number) /\ {seq} \cup R # {}
        BY <1>t, <3>3
      <4> HIDE DEF R
      <4> QED BY <3>1, <4>1, HighestIs
    <3>5. CASE n <= seq
      BY <2>g, <3>1, <3>5
    <3>6. CASE ~(n <= seq)
      <4>1. seq < n
        BY <1>t, <2>n, <3>6
      <4>2. seq' \in R
        BY <3>4, <3>6
      <4>3. n \in R
        BY <3>1, <3>2, <4>1, <4>2 DEF PageInv
      <4> QED BY <3>1, <4>3
    <3> QED BY <3>5, <3>6
  <2>3. CASE Start
    BY <2>3 DEF Start, AwayInv
  <2>4. CASE ~Receive /\ ~Start
    <3>1. UNCHANGED <<seq, got, raised>>
      BY <2>4 DEF Next, SenderStep, Draw, Publish, Push, Consumer, Insert, Mark, Commit, ConsumerEnds,
           Takeover, Start, HandleLogin, FirstSync, Type, Worker, OwnDraw, OwnPublish, OwnAck,
           SyncCount, SyncFind, vars, clientVars
    <3> QED BY <2>g, <3>1
  <2> QED BY <2>1, <2>2, <2>3, <2>4 DEF Receive
<1> QED BY <1>1, <1>2

-----------------------------------------------------------------------------
(* The theorems.                                                           *)

LEMMA InitHolds == Init => IInv
<1> SUFFICES ASSUME Init PROVE IInv
  OBVIOUS
<1>b. Limit \in Nat /\ MaxIn \in Nat /\ MaxOwn \in Nat /\ MaxFaults \in Nat
  BY Bounds
<1>1. TypeOK
  <2>1. log \in [Partition -> Seq(Number)] /\ rows \in [Number -> Nat]
    BY DEF Init
  <2>2. \A p \in Partition : {pos[p], marked[p], committed[p]} \subseteq 0 .. Len(log[p])
    BY DEF Init
  <2>3. up \in Seq([type : {"sync", "send"}, num : {0} \cup Number]) /\ down \in Seq(Item)
    BY DEF Init
  <2>4. /\ counter \in 0 .. (MaxIn + MaxOwn) /\ begun \in 0 .. MaxIn /\ sent \in 0 .. MaxOwn
        /\ faults \in 0 .. MaxFaults
    BY <1>b DEF Init
  <2>5. /\ spc \in [Sender -> {"idle", "publish", "push"}] /\ snum \in [Sender -> {0} \cup Number]
        /\ pos \in [Partition -> Nat] /\ committed \in [Partition -> Nat]
        /\ consuming \in [Partition -> BOOLEAN]
        /\ inserted \in [Partition -> BOOLEAN] /\ marked \in [Partition -> Nat]
    BY DEF Init
  <2>6. /\ failed \subseteq Number /\ disturbed \in BOOLEAN /\ online \in BOOLEAN
        /\ offline \subseteq Number /\ first \in {"off", "ready", "gone"}
        /\ seq \in {0} \cup Number /\ raised \in {0} \cup Number /\ got \subseteq Number
        /\ hpc \in {"idle", "publish", "ack", "find"} /\ hreg \in {0} \cup Number /\ hcount \in Nat
    BY DEF Init
  <2> QED BY <2>1, <2>2, <2>3, <2>4, <2>5, <2>6 DEF TypeOK
<1>2. NumberInv
  <2>1. Sends(up) = 0
    <3>1. {i \in 1 .. Len(up) : up[i].type = "send"} = {}
      BY DEF Init
    <3> QED BY <3>1, FS_EmptySet DEF Sends
  <2> QED BY <2>1 DEF Init, NumberInv
<1>3. AwayInv
  <2>1. \A n \in Number : ~(n <= 0)
    BY DEF Number
  <2> QED BY <2>1 DEF Init, AwayInv
<1>4. ConsumerInv /\ SyncInv /\ PageInv /\ PageComplete
  BY DEF Init, ConsumerInv, SyncInv, PageInv, PageComplete
<1> QED BY <1>1, <1>2, <1>3, <1>4 DEF IInv

LEMMA Preserved == IInv /\ [Next]_vars => IInv'
<1> SUFFICES ASSUME IInv, [Next]_vars PROVE IInv'
  OBVIOUS
<1>1. TypeOK /\ NumberInv /\ ConsumerInv /\ AwayInv /\ SyncInv /\ PageInv /\ PageComplete
  BY DEF IInv
<1>2. TypeOK'
  BY <1>1, SenderTypes, QueueTypes, ClientTypes, UpTypes, WorkerTypes, PagesKept DEF TypeOK, Commands
<1>3. NumberInv' /\ SyncInv'
  BY <1>1, SenderTypes, UpTypes, WorkerTypes DEF NumberInv, SyncInv
<1>4. ConsumerInv' /\ AwayInv' /\ PageInv' /\ PageComplete'
  BY <1>1, QueueTypes, AwayKept, PagesKept, PageCompleteKept
<1> QED BY <1>2, <1>3, <1>4 DEF IInv

\* The parts of the invariant hold in every reachable state: a number is drawn
\* once for a message, consumers stay within their partitions, a Sync asks from
\* where the client is, and pages have no gap (seq_cache.go, ws/req.go,
\* message.go:101-118, client.go:174-230).
THEOREM InboxInvariance == Spec => []IInv
BY InitHolds, Preserved, PTL DEF Spec

\* State stays within its types, and counters within what was sent.
THEOREM InboxTypeCorrect == Spec => []TypeOK
<1>1. IInv => TypeOK
  BY DEF IInv
<1> QED BY <1>1, InboxInvariance, PTL

\* Of what waited when the client came online, paging skips nothing below seq
\* that is not below a push or an acknowledgement (client.go:180-190,
\* message.go:101-118), however many rows there are and however long a page is.
THEOREM PagesComplete == Spec => []PageComplete
<1>1. IInv => PageComplete
  BY DEF IInv
<1> QED BY <1>1, InboxInvariance, PTL

\* No push, acknowledgement or page lowers the client's seq, however late it
\* comes (client.go:180-187, 200-203, 224-227).
THEOREM SeqMonotone == Spec => SeqNeverFalls
<1>1. IInv /\ [Next]_vars => [seq' >= seq]_seq
  BY ClientTypes DEF IInv
<1> QED BY <1>1, InboxInvariance, PTL DEF Spec, SeqNeverFalls
=============================================================================
