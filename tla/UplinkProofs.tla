---------------------------- MODULE UplinkProofs ----------------------------
(***************************************************************************)
(* Proofs about Uplink for any number of messages, resends and failures: a *)
(* connection whose next number is gone takes no message again; the safety *)
(* properties, through the invariant of UplinkInv; and the abstract        *)
(* AtLeastOnce, which Uplink implements.                                   *)
(***************************************************************************)
EXTENDS UplinkInv, FiniteSetTheorems, FunctionTheorems, TLAPS

-----------------------------------------------------------------------------
(* The connection that is shut for good.                                   *)

\* The little that is needed of the types: numbers are numbers, frames carry
\* one, and a thread between ReadLine and Register works on a message.
Place == {"read", "off", "load", "store", "send", "register", "wait", "end"}
Numbered == [msg : Msg, id : Nat]
ClientInv ==
  /\ clientId \in Nat /\ reg \in [Thread -> Nat] /\ upId \in [Msg -> Nat]
  /\ typed \in Nat /\ pc \in [Thread -> Place]
  /\ pc[Main] \notin {"read", "wait", "end", "off"} => typed \in Msg
NetInv ==
  /\ maxClientId \in Nat /\ wire \in Seq(Numbered) /\ queue \in Seq(Numbered)
NInv == ClientInv /\ NetInv

LEMMA ThreadFacts == Main \in Thread /\ Msg \subseteq Thread /\ Main \notin Msg
BY DEF Main, Thread, Msg

\* The message of a thread that draws a number or sends is a message.
LEMMA OfIsMsg ==
  ASSUME ClientInv, NEW t \in Thread, pc[t] \in {"load", "store", "send"}
  PROVE  Of(t) \in Msg
<1>1. CASE t = Main
  BY <1>1 DEF ClientInv, Of, Main
<1>2. CASE t # Main
  BY <1>2 DEF Of, Main, Thread
<1> QED BY <1>1, <1>2

\* What is in a sequence after it got an element at its end, or lost its head.
LEMMA Appended ==
  ASSUME NEW S, NEW s \in Seq(S), NEW e \in S
  PROVE  /\ Append(s, e) \in Seq(S)
         /\ \A i \in 1 .. Len(Append(s, e)) :
              Append(s, e)[i] = e \/ (i \in 1 .. Len(s) /\ Append(s, e)[i] = s[i])
OBVIOUS

LEMMA Beheaded ==
  ASSUME NEW S, NEW s \in Seq(S), s # <<>>
  PROVE  /\ Tail(s) \in Seq(S) /\ Head(s) \in S /\ 1 \in 1 .. Len(s) /\ Head(s) = s[1]
         /\ \A i \in 1 .. Len(Tail(s)) : i + 1 \in 1 .. Len(s) /\ Tail(s)[i] = s[i + 1]
OBVIOUS

\* No frame with number k is queued, or on its way to the server.
Absent(k, s) == \A i \in 1 .. Len(s) : s[i].id # k

LEMMA AbsentConcat ==
  ASSUME NEW q \in Seq(Numbered), NEW w \in Seq(Numbered), NEW k
  PROVE  (\A i \in 1 .. Len(q \o w) : (q \o w)[i].id # k) <=> Absent(k, q) /\ Absent(k, w)
<1> DEFINE both == q \o w
<1>1. /\ Len(both) = Len(q) + Len(w) /\ Len(q) \in Nat /\ Len(w) \in Nat
      /\ \A i \in 1 .. Len(q) : both[i] = q[i]
      /\ \A i \in 1 .. Len(w) : both[Len(q) + i] = w[i]
  OBVIOUS
<1> HIDE DEF both
<1>2. ASSUME \A i \in 1 .. Len(both) : both[i].id # k PROVE Absent(k, q) /\ Absent(k, w)
  <2>1. \A i \in 1 .. Len(q) : i \in 1 .. Len(both)
    BY <1>1
  <2>2. \A i \in 1 .. Len(w) : Len(q) + i \in 1 .. Len(both)
    BY <1>1
  <2> QED BY <1>1, <1>2, <2>1, <2>2 DEF Absent
<1>3. ASSUME Absent(k, q) /\ Absent(k, w) PROVE \A i \in 1 .. Len(both) : both[i].id # k
  <2> SUFFICES ASSUME NEW i \in 1 .. Len(both) PROVE both[i].id # k
    OBVIOUS
  <2>1. CASE i <= Len(q)
    BY <1>1, <1>3, <2>1 DEF Absent
  <2>2. CASE i > Len(q)
    <3>1. PICK j \in 1 .. Len(w) : i = Len(q) + j
      <4>1. Len(q) \in Nat /\ Len(w) \in Nat /\ i \in 1 .. (Len(q) + Len(w))
        BY <1>1
      <4>2. i - Len(q) \in 1 .. Len(w) /\ i = Len(q) + (i - Len(q))
        BY <2>2, <4>1
      <4> QED BY <4>2
    <3>2. both[Len(q) + j] = w[j]
      BY <1>1
    <3> QED BY <1>3, <3>1, <3>2 DEF Absent
  <2> QED BY <1>1, <2>1, <2>2
<1>4. (\A i \in 1 .. Len(both) : both[i].id # k) <=> Absent(k, q) /\ Absent(k, w)
  BY <1>2, <1>3
<1> QED BY <1>4 DEF both

\* The number is gone on the client's side, and on the way.
Spent(k) ==
  /\ clientId >= k
  /\ \A t \in Thread : pc[t] = "store" => reg[t] >= k
  /\ \A t \in Drawn : upId[Of(t)] # k
Away(k) == Absent(k, queue) /\ Absent(k, wire)

LEMMA WedgedMeans ==
  ASSUME NInv, NInv'
  PROVE  /\ Wedged <=> Spent(maxClientId + 1) /\ Away(maxClientId + 1)
         /\ Wedged' <=> (Spent(maxClientId + 1) /\ Away(maxClientId + 1))'
<1>1. Wedged <=> Spent(maxClientId + 1) /\ Away(maxClientId + 1)
  BY AbsentConcat DEF NInv, NetInv, Wedged, Spent, Away, InFlight
<1>2. Wedged' <=> (Spent(maxClientId + 1) /\ Away(maxClientId + 1))'
  BY AbsentConcat DEF NInv, NetInv, Wedged, Spent, Away, InFlight
<1> QED BY <1>1, <1>2

----------------------------------------------------------------------------
(* The types are kept.                                                     *)

\* What the frames and the worker do not touch.
LEMMA NetKept ==
  ASSUME NetInv, UNCHANGED <<netVars, windowVars>>
  PROVE  NetInv'
BY DEF NetInv, netVars, windowVars

\* A thread that moves on from its loop keeps to the places there are.
LEMMA ClientTypes ==
  ASSUME ClientInv, ReadLine \/ MainStep \/ \E m \in Msg : ResenderStep(m)
  PROVE  ClientInv'
<1> USE DEF ClientInv, At, GoTo, Place
<1>1. CASE ReadLine
  BY <1>1, BoundAssumption DEF ReadLine, Thread, Msg, Main, idVars
<1>2. ASSUME NEW t \in Thread, LoadId(t) PROVE ClientInv'
  BY <1>2, OfIsMsg DEF LoadId, typing
<1>3. ASSUME NEW t \in Thread, StoreId(t) PROVE ClientInv'
  <2>1. Of(t) \in Msg
    BY <1>3, OfIsMsg DEF StoreId
  <2> QED BY <1>3, <2>1 DEF StoreId, typing
<1>4. ASSUME NEW t \in Thread, SendFrame(t) PROVE ClientInv'
  <2>1. CASE t = Main
    <3>1. pc' = [pc EXCEPT ![Main] = "register", ![typed] = "wait"]
      BY <1>4, <2>1 DEF SendFrame
    <3>2. typed \in Msg /\ typed # Main /\ typed \in Thread /\ Main \in Thread
      BY <1>4, <2>1 DEF SendFrame, Msg, Main, Thread
    <3>3. UNCHANGED <<clientId, reg, upId, typed>>
      BY <1>4 DEF SendFrame, typing, idVars
    <3> QED BY <3>1, <3>2, <3>3
  <2>2. CASE t # Main
    BY <1>4, <2>2, ThreadFacts DEF SendFrame, typing, idVars
  <2> QED BY <2>1, <2>2
<1>5. CASE Register
  <2>1. pc' = [pc EXCEPT ![Main] = "read"] /\ Main \in Thread
    BY <1>5 DEF Register, Main, Thread
  <2>2. UNCHANGED <<clientId, reg, upId, typed>>
    BY <1>5 DEF Register, typing, idVars
  <2> QED BY <2>1, <2>2
<1>6. ASSUME NEW m \in Msg, Tick(m) \/ Cancelled(m) PROVE ClientInv'
  BY <1>6, ThreadFacts DEF Tick, Cancelled, Ticked, typing, idVars
<1> QED BY <1>1, <1>2, <1>3, <1>4, <1>5, <1>6
        DEF MainStep, ResenderStep, ThreadStep, Thread, Main

\* The initial states have the types, and every step keeps them.
LEMMA InitTypes == Init => NInv
<1> SUFFICES ASSUME Init PROVE NInv
  OBVIOUS
<1>1. ClientInv
  BY ThreadFacts DEF Init, ClientInv, Place
<1>2. NetInv
  BY DEF Init, NetInv, Numbered
<1> QED BY <1>1, <1>2 DEF NInv

LEMMA NextTypes == NInv /\ [Next]_vars => NInv'
<1> SUFFICES ASSUME NInv, [Next]_vars PROVE NInv'
  OBVIOUS
<1>1. ClientInv /\ NetInv
  BY DEF NInv
<1>2. CASE ReadLine \/ MainStep \/ \E m \in Msg : ResenderStep(m)
  <2>1. ClientInv'
    BY <1>1, <1>2, ClientTypes
  <2>2. CASE \E t \in Thread : SendFrame(t)
    <3>1. PICK t \in Thread : SendFrame(t)
      BY <2>2
    <3>2. [msg |-> Of(t), id |-> upId[Of(t)]] \in Numbered
      BY <1>1, <3>1, OfIsMsg DEF SendFrame, At, ClientInv, Numbered
    <3>3. wire' \in Seq(Numbered)
      BY <1>1, <3>1, <3>2, Appended DEF SendFrame, NetInv
    <3>4. UNCHANGED <<maxClientId, queue>>
      BY <3>1 DEF SendFrame, serverVars, windowVars
    <3> QED BY <1>1, <2>1, <3>3, <3>4 DEF NInv, NetInv
  <2>3. CASE ~\E t \in Thread : SendFrame(t)
    <3>1. UNCHANGED <<wire, queue, maxClientId>>
      BY <1>2, <2>3 DEF ReadLine, MainStep, ResenderStep, ThreadStep, LoadId, StoreId, Register,
           Tick, Cancelled, netVars, serverVars, windowVars, Thread, Main
    <3> QED BY <1>1, <2>1, <3>1 DEF NInv, NetInv
  <2> QED BY <2>2, <2>3
<1>3. CASE ReceiveAck \/ ConcurrentWrite \/ Heartbeat \/ ConnectionLost
  BY <1>1, <1>3 DEF ReceiveAck, ConcurrentWrite, Heartbeat, ConnectionLost, NInv, ClientInv, NetInv,
       serverVars, netVars, windowVars, typing, idVars, retryVars
<1>4. CASE HandleLogin \/ StoreOwn \/ StorePeer \/ SendToGroup \/ SendAck \/ Fail
  BY <1>1, <1>4 DEF HandleLogin, StoreOwn, StorePeer, SendToGroup, SendAck, Fail, NInv, ClientInv,
       NetInv, netVars, windowVars, clientVars, typing, idVars
<1>5. CASE ReadFrame
  <2>1. Tail(wire) \in Seq(Numbered) /\ Append(queue, Head(wire)) \in Seq(Numbered)
    BY <1>1, <1>5, Beheaded, Appended DEF ReadFrame, NetInv
  <2> QED BY <1>1, <1>5, <2>1 DEF ReadFrame, NInv, ClientInv, NetInv, clientVars, typing, idVars
<1>6. CASE Take
  <2>1. Tail(queue) \in Seq(Numbered)
    BY <1>1, <1>6, Beheaded DEF Take, NetInv
  <2>2. maxClientId' \in {maxClientId, maxClientId + 1}
    BY <1>6 DEF Take
  <2> QED BY <1>1, <1>6, <2>1, <2>2
          DEF Take, NInv, ClientInv, NetInv, netVars, clientVars, typing, idVars
<1>7. CASE UNCHANGED vars
  BY <1>1, <1>7 DEF NInv, ClientInv, NetInv, vars, clientVars, netVars, serverVars, windowVars,
       typing, idVars
<1> QED BY <1>2, <1>3, <1>4, <1>5, <1>6, <1>7 DEF Next, Worker

----------------------------------------------------------------------------
(* What is spent stays spent.                                              *)

\* Nobody starts to draw or to send: the number stays gone.
LEMMA SpentKept ==
  ASSUME NEW k, Spent(k), UNCHANGED <<clientId, reg, upId, typed>>,
         \A t \in Thread : pc'[t] \in {"store", "send"} => pc'[t] = pc[t]
  PROVE  Spent(k)'
<1>1. \A t \in Drawn' : t \in Drawn /\ Of(t)' = Of(t)
  BY DEF Drawn, Of
<1> QED BY <1>1 DEF Spent

\* The client only ever draws higher numbers.
LEMMA ClientStuck ==
  ASSUME ClientInv, NEW k \in Nat, Spent(k),
         ReadLine \/ MainStep \/ \E m \in Msg : ResenderStep(m)
  PROVE  Spent(k)'
<1> USE DEF At, GoTo
<1>t. pc \in [Thread -> Place] /\ reg \in [Thread -> Nat] /\ upId \in [Msg -> Nat]
  BY DEF ClientInv
<1>1. CASE ReadLine
  <2>1. /\ pc' = [pc EXCEPT ![Main] = "load"]
        /\ UNCHANGED <<clientId, reg, upId>>
    BY <1>1 DEF ReadLine, idVars
  <2>2. \A t \in Drawn' : t \in Drawn /\ Of(t)' = Of(t)
    BY <2>1, <1>t, ThreadFacts DEF Drawn, Of
  <2>3. \A t \in Thread : pc'[t] = "store" => pc[t] = "store"
    BY <2>1, <1>t, ThreadFacts
  <2> QED BY <2>1, <2>2, <2>3 DEF Spent
<1>2. ASSUME NEW t \in Thread, LoadId(t) PROVE Spent(k)'
  <2>1. /\ pc' = [pc EXCEPT ![t] = "store"] /\ reg' = [reg EXCEPT ![t] = clientId]
        /\ UNCHANGED <<clientId, upId, typed>>
    BY <1>2 DEF LoadId, typing
  <2>2. \A u \in Drawn' : u \in Drawn /\ Of(u)' = Of(u)
    BY <2>1, <1>t DEF Drawn, Of
  <2>3. \A u \in Thread : pc'[u] = "store" => reg'[u] >= k
    BY <2>1, <1>t DEF Spent
  <2> QED BY <2>1, <2>2, <2>3 DEF Spent
<1>3. ASSUME NEW t \in Thread, StoreId(t) PROVE Spent(k)'
  <2>1. /\ pc[t] = "store" /\ pc' = [pc EXCEPT ![t] = "send"]
        /\ clientId' = reg[t] + 1 /\ upId' = [upId EXCEPT ![Of(t)] = reg[t] + 1]
        /\ UNCHANGED <<reg, typed>>
    BY <1>3 DEF StoreId, typing
  <2>2. reg[t] \in Nat /\ reg[t] >= k
    BY <2>1, <1>t DEF Spent
  <2>3. Of(t) \in Msg
    BY <2>1, OfIsMsg
  <2>4. ASSUME NEW u \in Drawn' PROVE upId'[Of(u)'] # k
    <3>1. Of(u)' = Of(u) /\ u \in Thread
      BY <2>1 DEF Of, Drawn
    <3>2. CASE u = t
      BY <2>1, <2>2, <2>3, <3>1, <3>2, <1>t
    <3>3. CASE u # t
      <4>1. u \in Drawn
        BY <2>1, <3>1, <3>3, <1>t DEF Drawn
      <4>2. Of(u) \in Msg /\ upId[Of(u)] # k
        BY <3>1, <4>1, OfIsMsg DEF Drawn, Spent
      <4> QED BY <2>1, <2>2, <2>3, <3>1, <4>2, <1>t
    <3> QED BY <3>2, <3>3
  <2>5. \A u \in Thread : pc'[u] = "store" => reg'[u] >= k
    BY <2>1, <1>t DEF Spent
  <2>6. clientId' >= k
    BY <2>1, <2>2
  <2> QED BY <2>4, <2>5, <2>6 DEF Spent
<1>4. ASSUME NEW t \in Thread, SendFrame(t) PROVE Spent(k)'
  <2>1. \/ pc' = [pc EXCEPT ![Main] = "register", ![typed] = "wait"]
        \/ pc' = [pc EXCEPT ![t] = "wait"]
    BY <1>4 DEF SendFrame
  <2>2. \A u \in Thread : pc'[u] \in {"store", "send"} => pc'[u] = pc[u]
    BY <2>1, <1>t
  <2>3. UNCHANGED <<clientId, reg, upId, typed>>
    BY <1>4 DEF SendFrame, typing, idVars
  <2> QED BY <2>2, <2>3, SpentKept
<1>5. CASE Register
  <2>1. \A u \in Thread : pc'[u] \in {"store", "send"} => pc'[u] = pc[u]
    BY <1>5, <1>t DEF Register
  <2>2. UNCHANGED <<clientId, reg, upId, typed>>
    BY <1>5 DEF Register, typing, idVars
  <2> QED BY <2>1, <2>2, SpentKept
<1>6. ASSUME NEW m \in Msg, Tick(m) \/ Cancelled(m) PROVE Spent(k)'
  <2>1. \A u \in Thread : pc'[u] \in {"store", "send"} => pc'[u] = pc[u]
    BY <1>6, <1>t DEF Tick, Cancelled
  <2>2. UNCHANGED <<clientId, reg, upId, typed>>
    BY <1>6 DEF Tick, Cancelled, typing, idVars
  <2> QED BY <2>1, <2>2, SpentKept
<1> QED BY <1>1, <1>2, <1>3, <1>4, <1>5, <1>6, ThreadFacts
        DEF MainStep, ResenderStep, ThreadStep

----------------------------------------------------------------------------
(* The theorem.                                                            *)

\* A frame that is sent has a number drawn; what is queued or read was on
\* its way; and a frame that is taken away is another one than the server
\* waits for.
LEMMA AwayKept ==
  ASSUME NInv, NInv', [Next]_vars,
         Spent(maxClientId + 1), Away(maxClientId + 1)
  PROVE  Away(maxClientId + 1)' /\ maxClientId' = maxClientId
<1> DEFINE k == maxClientId + 1
<1>t. /\ wire \in Seq(Numbered) /\ queue \in Seq(Numbered) /\ maxClientId \in Nat
  BY DEF NInv, NetInv
<1>f. ASSUME NEW t \in Thread, SendFrame(t)
      PROVE  Absent(k, wire') /\ UNCHANGED <<queue, maxClientId>>
  <2>1. /\ t \in Drawn /\ wire' = Append(wire, [msg |-> Of(t), id |-> upId[Of(t)]])
        /\ UNCHANGED <<queue, maxClientId>>
    BY <1>f DEF SendFrame, At, Drawn, serverVars, windowVars
  <2>2. upId[Of(t)] # k
    BY <2>1 DEF Spent
  <2>3. Of(t) \in Msg /\ upId[Of(t)] \in Nat
    BY <2>1, OfIsMsg DEF Drawn, NInv, ClientInv
  <2>4. [msg |-> Of(t), id |-> upId[Of(t)]] \in Numbered
    BY <2>3 DEF Numbered
  <2> QED BY <1>t, <2>1, <2>2, <2>4, Appended DEF Absent, Away
<1>1. CASE ReadLine \/ MainStep \/ \E m \in Msg : ResenderStep(m)
  <2>1. CASE \E t \in Thread : SendFrame(t)
    BY <1>f, <2>1 DEF Away, Absent
  <2>2. CASE ~\E t \in Thread : SendFrame(t)
    <3>1. UNCHANGED <<wire, queue, maxClientId>>
      BY <1>1, <2>2, ThreadFacts
         DEF ReadLine, MainStep, ResenderStep, ThreadStep, LoadId, StoreId, Register,
             Tick, Cancelled, netVars, serverVars, windowVars
    <3> QED BY <3>1 DEF Away, Absent
  <2> QED BY <2>1, <2>2
<1>2. CASE \/ ReceiveAck \/ ConcurrentWrite \/ Heartbeat \/ ConnectionLost \/ HandleLogin
           \/ StoreOwn \/ StorePeer \/ SendToGroup \/ SendAck \/ Fail \/ UNCHANGED vars
  <2>1. UNCHANGED <<wire, queue, maxClientId>>
    BY <1>2 DEF ReceiveAck, ConcurrentWrite, Heartbeat, ConnectionLost, HandleLogin, StoreOwn,
         StorePeer, SendToGroup, SendAck, Fail, vars, netVars, serverVars, windowVars
  <2> QED BY <2>1 DEF Away, Absent
<1>3. CASE ReadFrame
  <2>1. /\ wire # <<>> /\ wire' = Tail(wire) /\ maxClientId' = maxClientId
        /\ queue' = queue \/ queue' = Append(queue, Head(wire))
    BY <1>3 DEF ReadFrame
  <2>2. Absent(k, wire') /\ Head(wire).id # k /\ Head(wire) \in Numbered
    BY <1>t, <2>1, Beheaded DEF Absent, Away
  <2>3. Absent(k, queue')
    BY <1>t, <2>1, <2>2, Appended DEF Absent, Away
  <2> QED BY <2>1, <2>2, <2>3 DEF Away, Absent
<1>4. CASE Take
  <2>1. /\ queue # <<>> /\ queue' = Tail(queue) /\ wire' = wire
        /\ Head(queue).id # k => maxClientId' = maxClientId
    BY <1>4 DEF Take, Fits, netVars
  <2>2. Absent(k, queue') /\ Head(queue).id # k
    BY <1>t, <2>1, Beheaded DEF Absent, Away
  <2> QED BY <2>1, <2>2 DEF Away, Absent
<1> QED BY <1>1, <1>2, <1>3, <1>4 DEF Next, Worker

\* Once the number the server waits for is gone no step brings it back, and
\* the server takes no message: CompareAndIncrClientID (conn.go:279) against
\* the resends of client.go:114-130.
THEOREM ShutForGood == Spec => WedgedForGood
<1>1. Spec => []NInv
  BY InitTypes, NextTypes, PTL DEF Spec
<1>2. NInv /\ NInv' /\ [Next]_vars => (Wedged => Wedged' /\ maxClientId' = maxClientId)
  <2> SUFFICES ASSUME NInv, NInv', [Next]_vars, Wedged
               PROVE  Wedged' /\ maxClientId' = maxClientId
    OBVIOUS
  <2>1. Spent(maxClientId + 1) /\ Away(maxClientId + 1)
    BY WedgedMeans
  <2>2. Away(maxClientId + 1)' /\ maxClientId' = maxClientId
    BY <2>1, AwayKept
  <2>3. PICK k \in Nat : k = maxClientId + 1
    BY DEF NInv, NetInv
  <2>4. Spent(k)
    BY <2>1, <2>3 DEF Spent
  <2>5. Spent(k)'
    <3>1. CASE ReadLine \/ MainStep \/ \E m \in Msg : ResenderStep(m)
      BY <2>4, <3>1, ClientStuck DEF NInv
    <3>2. CASE ~(ReadLine \/ MainStep \/ \E m \in Msg : ResenderStep(m))
      <4>1. UNCHANGED <<pc, clientId, reg, upId, typed>>
        BY <3>2 DEF Next, Worker, ReceiveAck, ConcurrentWrite, Heartbeat, ConnectionLost, HandleLogin,
             ReadFrame, Take, StoreOwn, StorePeer, SendToGroup, SendAck, Fail, vars, clientVars,
             typing, idVars
      <4> QED BY <2>4, <4>1, SpentKept
    <3> QED BY <3>1, <3>2
  <2>6. Spent(maxClientId + 1)'
    BY <2>2, <2>3, <2>5 DEF Spent
  <2> QED BY <2>2, <2>6, WedgedMeans
<1> QED BY <1>1, <1>2, PTL DEF Spec, WedgedForGood

-----------------------------------------------------------------------------
(* Facts about the operators of the model.                                 *)

LEMMA MsgFacts ==
  /\ MaxMsgs \in Nat /\ ResendMax \in Nat /\ MaxFaults \in Nat
  /\ Msg \subseteq Nat /\ Id \subseteq Nat /\ 0 \notin Msg /\ 0 \notin Id /\ Main = 0
  /\ \A m \in Msg : m <= MaxMsgs
BY BoundAssumption DEF Msg, Id, Main

\* There are no more draws than messages may be sent.
LEMMA DrawsBounded ==
  ASSUME NEW D \in SUBSET (Msg \X (0 .. ResendMax))
  PROVE  /\ IsFiniteSet(D) /\ Cardinality(D) \in Nat
         /\ Cardinality(D) <= MaxMsgs * (1 + ResendMax)
<1>1. /\ IsFiniteSet(Msg) /\ Cardinality(Msg) = MaxMsgs
      /\ IsFiniteSet(0 .. ResendMax) /\ Cardinality(0 .. ResendMax) = 1 + ResendMax
  <2>1. IsFiniteSet(1 .. MaxMsgs) /\ Cardinality(1 .. MaxMsgs) = MaxMsgs
    BY MsgFacts, FS_Interval
  <2>2. IsFiniteSet(0 .. ResendMax) /\ Cardinality(0 .. ResendMax) = 1 + ResendMax
    BY MsgFacts, FS_Interval
  <2> QED BY <2>1, <2>2 DEF Msg
<1>2. /\ IsFiniteSet(Msg \X (0 .. ResendMax))
      /\ Cardinality(Msg \X (0 .. ResendMax)) = MaxMsgs * (1 + ResendMax)
  BY <1>1, FS_Product
<1>3. IsFiniteSet(D) /\ Cardinality(D) <= Cardinality(Msg \X (0 .. ResendMax))
  BY <1>2, FS_Subset
<1>4. Cardinality(D) \in Nat
  BY <1>3, FS_CardinalityType
<1> QED BY <1>2, <1>3, <1>4

LEMMA DrawsAre == /\ Draws \in SUBSET (Msg \X (0 .. ResendMax))
                  /\ Draws' \in SUBSET (Msg \X (0 .. ResendMax))
BY DEF Draws

\* A number that is not above them is one of those there are.
LEMMA NumbersFit ==
  ASSUME NEW D \in SUBSET (Msg \X (0 .. ResendMax)), NEW n \in Nat, n <= Cardinality(D)
  PROVE  n \in {0} \cup Id
BY DrawsBounded, MsgFacts DEF Id

\* Steps that draw nothing leave the numbers as they are.
LEMMA NumbersKept ==
  ASSUME NumberInv, UNCHANGED <<clientId, reg, upId>>, Draws \subseteq Draws',
         \A m \in Msg : Drew(m)' => Drew(m),
         clientId \in Nat, reg \in [Thread -> Nat], upId \in [Msg -> Nat]
  PROVE  NumberInv'
<1>1. /\ IsFiniteSet(Draws') /\ Cardinality(Draws') \in Nat /\ Cardinality(Draws) \in Nat
  BY DrawsBounded, DrawsAre
<1>2. Cardinality(Draws) <= Cardinality(Draws')
  BY <1>1, FS_Subset
<1> QED BY <1>1, <1>2 DEF NumberInv

\* Frames of a message, in a sequence that gets one more or loses its head.
LEMMA FramesFacts ==
  ASSUME NEW s \in Seq(Frame), NEW m
  PROVE  IsFiniteSet({k \in 1 .. Len(s) : s[k].msg = m}) /\ Frames(s, m) \in Nat
<1>1. Len(s) \in Nat
  OBVIOUS
<1>2. IsFiniteSet(1 .. Len(s))
  BY <1>1, FS_Interval
<1>3. IsFiniteSet({k \in 1 .. Len(s) : s[k].msg = m})
  BY <1>2, FS_Subset
<1> QED BY <1>3, FS_CardinalityType DEF Frames

LEMMA FramesAppend ==
  ASSUME NEW s \in Seq(Frame), NEW f \in Frame, NEW m
  PROVE  Frames(Append(s, f), m) = Frames(s, m) + (IF f.msg = m THEN 1 ELSE 0)
<1> DEFINE t == Append(s, f)
           A == {k \in 1 .. Len(s) : s[k].msg = m}
           B == {k \in 1 .. Len(t) : t[k].msg = m}
           n == Len(s) + 1
<1>1. /\ Len(t) = n /\ Len(s) \in Nat /\ t[n] = f /\ \A k \in 1 .. Len(s) : t[k] = s[k]
  OBVIOUS
<1>2. IsFiniteSet(A)
  BY FramesFacts
<1>3. n \notin A
  BY <1>1
<1>4. Frames(s, m) = Cardinality(A) /\ Frames(t, m) = Cardinality(B)
  BY DEF Frames
<1>5. Cardinality(A) \in Nat
  BY <1>2, FS_CardinalityType
<1> HIDE DEF t
<1>6. CASE f.msg = m
  <2>1. B = A \cup {n}
    BY <1>1, <1>6
  <2>2. Cardinality(A \cup {n}) = Cardinality(A) + 1
    BY <1>2, <1>3, FS_AddElement
  <2> HIDE DEF A, B
  <2>3. Frames(t, m) = Frames(s, m) + 1
    BY <1>4, <2>1, <2>2
  <2> QED BY <1>6, <2>3 DEF t
<1>7. CASE f.msg # m
  <2>1. B = A
    BY <1>1, <1>7
  <2> HIDE DEF A, B
  <2>2. Frames(t, m) = Frames(s, m) + 0
    BY <1>4, <1>5, <2>1
  <2> QED BY <1>7, <2>2 DEF t
<1> QED BY <1>6, <1>7

LEMMA FramesTail ==
  ASSUME NEW s \in Seq(Frame), s # <<>>, NEW m
  PROVE  Frames(s, m) = Frames(Tail(s), m) + (IF Head(s).msg = m THEN 1 ELSE 0)
<1> DEFINE t == Tail(s)
           A == {k \in 1 .. Len(t) : t[k].msg = m}
           C == {k \in 2 .. Len(s) : s[k].msg = m}
           B == {k \in 1 .. Len(s) : s[k].msg = m}
<1>1. /\ Len(t) \in Nat /\ Len(s) = Len(t) + 1 /\ Head(s) = s[1]
      /\ \A k \in 1 .. Len(t) : t[k] = s[k + 1]
      /\ t \in Seq(Frame)
  OBVIOUS
<1>2. /\ Frames(t, m) = Cardinality(A) /\ Frames(s, m) = Cardinality(B)
  BY DEF Frames
<1> HIDE DEF t
<1>3. IsFiniteSet(A) /\ Cardinality(A) \in Nat
  BY <1>1, <1>2, FramesFacts
<1>4. IsFiniteSet(C) /\ Cardinality(C) = Cardinality(A)
  <2> DEFINE shift == [k \in A |-> k + 1]
  <2>1. \A k \in A : k + 1 \in C
    BY <1>1
  <2>2. \A k \in C : k - 1 \in A /\ (k - 1) + 1 = k
    BY <1>1
  <2>3. shift \in [A -> C]
    BY <2>1
  <2>4. \A j, k \in A : shift[j] = shift[k] => j = k
    OBVIOUS
  <2>5. \A k \in C : \E j \in A : shift[j] = k
    BY <2>2
  <2> HIDE DEF shift, A, C
  <2>6. shift \in Bijection(A, C)
    BY <2>3, <2>4, <2>5, Fun_IsBij
  <2> QED BY <1>3, <2>6, FS_Bijection, Fun_ExistsBij
<1>5. CASE Head(s).msg = m
  <2>1. B = C \cup {1} /\ 1 \notin C
    BY <1>1, <1>5
  <2> HIDE DEF A, B, C
  <2>2. Cardinality(C \cup {1}) = Cardinality(C) + 1
    BY <1>4, <2>1, FS_AddElement
  <2>3. Frames(s, m) = Frames(t, m) + 1
    BY <1>2, <1>4, <2>1, <2>2
  <2> QED BY <1>5, <2>3 DEF t
<1>6. CASE Head(s).msg # m
  <2>1. B = C
    BY <1>1, <1>6
  <2> HIDE DEF A, B, C
  <2>2. Frames(s, m) = Frames(t, m) + 0
    BY <1>2, <1>3, <1>4, <2>1
  <2> QED BY <1>6, <2>2 DEF t
<1> QED BY <1>5, <1>6

-----------------------------------------------------------------------------
(* Threads.                                                                *)

\* What the steps are, for the proofs that follow.
ServerStep == HandleLogin \/ ReadFrame \/ Worker \/ Fail
ClientEnds == ConcurrentWrite \/ Heartbeat \/ ConnectionLost

LEMMA TypesGiveNumbers == TypeOK /\ ThreadInv => NInv
<1> SUFFICES ASSUME TypeOK, ThreadInv PROVE NInv
  OBVIOUS
<1>1. clientId \in Nat /\ maxClientId \in Nat /\ typed \in Nat
  BY MsgFacts DEF TypeOK
<1>2. reg \in [Thread -> Nat] /\ upId \in [Msg -> Nat]
  <2>1. {0} \cup Id \subseteq Nat
    BY MsgFacts
  <2>2. reg \in [Thread -> {0} \cup Id] /\ upId \in [Msg -> {0} \cup Id]
    BY DEF TypeOK
  <2> QED BY <2>1, <2>2
<1>3. pc \in [Thread -> Place]
  BY DEF TypeOK, Place
<1>4. pc[Main] \notin {"read", "wait", "end", "off"} => typed \in Msg
  BY DEF ThreadInv
<1>5. ASSUME NEW s \in Seq(Frame) PROVE s \in Seq(Numbered)
  <2>1. Frame \subseteq Numbered
    BY MsgFacts DEF Frame, Numbered
  <2> QED BY <2>1
<1>6. wire \in Seq(Numbered) /\ queue \in Seq(Numbered)
  BY <1>5 DEF TypeOK
<1> QED BY <1>1, <1>2, <1>3, <1>4, <1>6 DEF NInv, ClientInv, NetInv

\* Steps that move no thread and type nothing.
LEMMA ThreadKept ==
  ASSUME ThreadInv, UNCHANGED <<pc, typed, resent>>, wpc' # "idle" => job' \in Frame
  PROVE  ThreadInv'
BY DEF ThreadInv, Sent

\* What a thread at work works on has been typed, and, if it is a resend,
\* sent before.
LEMMA AtWork ==
  ASSUME TypeOK, ThreadInv, NEW t \in Thread, pc[t] \in Drawing
  PROVE  /\ Of(t) \in Msg /\ Of(t) <= typed
         /\ t # Main => t \in Msg /\ Of(t) = t /\ Sent(t) /\ resent[t] < ResendMax
         /\ t = Main => Of(t) = typed /\ ~Sent(typed) /\ pc[typed] = "off" /\ resent[typed] = 0
<1>1. CASE t = Main
  <2>1. Of(t) = typed /\ typed \in Msg /\ ~Sent(typed)
    <3>1. pc[Main] \in {"load", "store", "send"} /\ typed \in Msg
      BY <1>1 DEF ThreadInv, Drawing
    <3>2. typed \in Nat
      BY <3>1, MsgFacts
    <3> QED BY <1>1, <3>1, <3>2 DEF Of, Sent
  <2>2. pc[typed] = "off" /\ ~(resent[typed] > 0)
    BY <2>1 DEF ThreadInv
  <2>3. resent[typed] = 0
    BY <2>1, <2>2, MsgFacts DEF TypeOK
  <2> QED BY <1>1, <2>1, <2>2, <2>3, MsgFacts
<1>2. CASE t # Main
  <2>1. t \in Msg /\ Of(t) = t
    BY <1>2 DEF Thread, Of
  <2>2. Sent(t) /\ resent[t] < ResendMax
    BY <2>1 DEF ThreadInv, Drawing
  <2>3. t <= typed
    BY <2>1, <2>2, MsgFacts DEF Sent, TypeOK
  <2> QED BY <1>2, <2>1, <2>2, <2>3
<1> QED BY <1>1, <1>2

LEMMA ThreadStepKeeps == TypeOK /\ ThreadInv /\ [Next]_vars => ThreadInv'
<1> SUFFICES ASSUME TypeOK, ThreadInv, [Next]_vars PROVE ThreadInv'
  OBVIOUS
<1> USE DEF At, GoTo, Drawing
<1>t. /\ pc \in [Thread -> {"read", "off", "load", "store", "send", "register", "wait", "end"}]
      /\ resent \in [Msg -> 0 .. ResendMax] /\ typed \in {0} \cup Msg
  BY DEF TypeOK
<1>1. CASE ReadLine
  <2>1. /\ pc[Main] = "read" /\ pc' = [pc EXCEPT ![Main] = "load"]
        /\ typed' = typed + 1 /\ typed < MaxMsgs
        /\ UNCHANGED <<resent, job, wpc>>
    BY <1>1 DEF ReadLine, retryVars, serverVars, handlerVars
  <2>2. typed' \in Msg
    BY <1>t, <2>1, MsgFacts DEF Msg
  <2>3. \A m \in Msg : Sent(m) => Sent(m)'
    BY <1>t, <2>1, MsgFacts DEF Sent
  <2>4. \A m \in Msg : pc'[m] = pc[m]
    BY <1>t, <2>1, ThreadFacts
  <2>5. pc'[Main] = "load"
    BY <1>t, <2>1, ThreadFacts
  <2> QED BY <2>1, <2>2, <2>3, <2>4, <2>5 DEF ThreadInv
<1>2. ASSUME NEW t \in Thread, LoadId(t) \/ StoreId(t) PROVE ThreadInv'
  <2>1. /\ pc[t] \in Drawing
        /\ pc' = [pc EXCEPT ![t] = "store"] \/ pc' = [pc EXCEPT ![t] = "send"]
        /\ UNCHANGED <<typed, resent, job, wpc>>
    BY <1>2 DEF LoadId, StoreId, typing, retryVars, serverVars, handlerVars
  <2>2. \A m \in Msg : Sent(m) => Sent(m)'
    BY <1>t, <2>1, ThreadFacts DEF Sent
  <2>3. \A u \in Thread : pc'[u] = pc[u] \/ (u = t /\ pc'[u] \in Drawing /\ pc[u] \in Drawing)
    BY <1>t, <2>1
  <2>4. ThreadInv
    OBVIOUS
  <2> QED BY <2>1, <2>2, <2>3, <2>4, ThreadFacts DEF ThreadInv
<1>3. CASE SendFrame(Main)
  <2>1. /\ pc[Main] = "send" /\ pc' = [pc EXCEPT ![Main] = "register", ![typed] = "wait"]
        /\ UNCHANGED <<typed, resent, job, wpc>>
    BY <1>3 DEF SendFrame, typing, serverVars, handlerVars
  <2>2. typed \in Msg
    BY <2>1 DEF ThreadInv
  <2>3. \A m \in Msg : (Sent(m) => Sent(m)') /\ (m = typed => Sent(m)')
    BY <1>t, <2>1, <2>2, ThreadFacts DEF Sent
  <2>4. /\ pc'[Main] = "register" /\ pc'[typed] = "wait"
        /\ \A m \in Msg \ {typed} : pc'[m] = pc[m]
    BY <1>t, <2>1, <2>2, ThreadFacts
  <2> QED BY <2>1, <2>2, <2>3, <2>4 DEF ThreadInv
<1>4. ASSUME NEW m \in Msg, SendFrame(m) PROVE ThreadInv'
  <2>1. /\ pc[m] = "send" /\ pc' = [pc EXCEPT ![m] = "wait"]
        /\ resent' = [resent EXCEPT ![m] = @ + 1]
        /\ UNCHANGED <<typed, job, wpc>>
    BY <1>4, ThreadFacts DEF SendFrame, typing, serverVars, handlerVars
  <2>2. Sent(m) /\ m # Main
    BY <2>1, AtWork, ThreadFacts
  <2>3. \A n \in Msg : Sent(n) => Sent(n)'
    BY <1>t, <2>1, <2>2, ThreadFacts DEF Sent
  <2>4. /\ pc'[m] = "wait" /\ pc'[Main] = pc[Main]
        /\ \A n \in Msg \ {m} : pc'[n] = pc[n] /\ resent'[n] = resent[n]
    BY <1>t, <2>1, <2>2, ThreadFacts
  <2> QED BY <2>1, <2>2, <2>3, <2>4 DEF ThreadInv
<1>5. CASE Register
  <2>1. /\ pc[Main] = "register" /\ pc' = [pc EXCEPT ![Main] = "read"]
        /\ UNCHANGED <<typed, resent, job, wpc>>
    BY <1>5 DEF Register, typing, serverVars, handlerVars
  <2>2. pc'[Main] = "read" /\ \A m \in Msg : pc'[m] = pc[m]
    BY <1>t, <2>1, ThreadFacts
  <2>3. \A m \in Msg : Sent(m) => Sent(m)'
    BY <2>1, <2>2 DEF Sent
  <2> QED BY <2>1, <2>2, <2>3 DEF ThreadInv
<1>6. ASSUME NEW m \in Msg, Tick(m) \/ Cancelled(m) PROVE ThreadInv'
  <2>1. /\ pc[m] = "wait"
        /\ \/ pc' = [pc EXCEPT ![m] = "end"]
           \/ pc' = [pc EXCEPT ![m] = "load"] /\ ~(resent[m] >= ResendMax)
        /\ UNCHANGED <<typed, resent, job, wpc>>
    BY <1>6 DEF Tick, Cancelled, Ticked, typing, serverVars, handlerVars, retryVars
  <2>2. pc'[Main] = pc[Main] /\ \A n \in Msg \ {m} : pc'[n] = pc[n]
    BY <1>t, <2>1, ThreadFacts
  <2>3. pc'[m] = "end" \/ (pc'[m] = "load" /\ resent[m] < ResendMax)
    BY <1>t, <2>1, ThreadFacts, MsgFacts
  <2>4. \A n \in Msg : Sent(n) => Sent(n)'
    BY <2>1, <2>2 DEF Sent
  <2> QED BY <2>1, <2>2, <2>3, <2>4 DEF ThreadInv
<1>7. CASE ReceiveAck \/ ClientEnds
  <2>1. UNCHANGED <<pc, typed, resent, wpc, job>>
    BY <1>7 DEF ClientEnds, ReceiveAck, ConcurrentWrite, Heartbeat, ConnectionLost, typing, retryVars,
         serverVars, handlerVars
  <2> QED BY <2>1, ThreadKept DEF ThreadInv
<1>8. CASE ServerStep
  <2>1. UNCHANGED <<pc, typed, resent>>
    BY <1>8 DEF ServerStep, Worker, HandleLogin, ReadFrame, Take, StoreOwn, StorePeer, SendToGroup,
         SendAck, Fail, clientVars, typing, retryVars
  <2>2. CASE Take
    BY <2>1, <2>2, ThreadKept, Beheaded DEF Take, handlerVars, TypeOK, ThreadInv
  <2>3. CASE ~Take
    BY <1>8, <2>1, <2>3, ThreadKept DEF ServerStep, Worker, HandleLogin, ReadFrame, StoreOwn,
         StorePeer, SendToGroup, SendAck, Fail, Return, handlerVars, ThreadInv
  <2> QED BY <2>2, <2>3
<1>9. CASE UNCHANGED vars
  BY <1>9, ThreadKept DEF vars, clientVars, typing, retryVars, serverVars, handlerVars, ThreadInv
<1> QED BY <1>1, <1>2, <1>3, <1>4, <1>5, <1>6, <1>7, <1>8, <1>9
        DEF Next, MainStep, ResenderStep, ThreadStep, ClientEnds, ServerStep, Thread

-----------------------------------------------------------------------------
(* Numbers.                                                                *)

\* Nothing is drawn when no thread goes to where it sends, and the first frame
\* of no message goes out.
LEMMA NothingDrawn ==
  ASSUME TypeOK, ThreadInv, NumberInv, UNCHANGED <<clientId, reg, upId>>,
         \A m \in Msg : Drew(m)' <=> Drew(m),
         \A m \in Msg : \/ resent'[m] = resent[m] /\ (pc[m] = "send" => pc'[m] = "send")
                        \/ resent'[m] = resent[m] + 1
  PROVE  NumberInv'
<1>t. /\ clientId \in Nat /\ reg \in [Thread -> Nat] /\ upId \in [Msg -> Nat]
      /\ resent \in [Msg -> 0 .. ResendMax]
  BY TypesGiveNumbers DEF NInv, ClientInv, TypeOK
<1>1. Draws \subseteq Draws'
  <2> SUFFICES ASSUME NEW d \in Draws PROVE d \in Draws'
    OBVIOUS
  <2>1. d \in Msg \X (0 .. ResendMax) /\ d[1] \in Msg /\ d[2] \in Nat /\ resent[d[1]] \in Nat
    <3>1. d \in Msg \X (0 .. ResendMax)
      BY DEF Draws
    <3>2. d[1] \in Msg /\ d[2] \in 0 .. ResendMax
      BY <3>1
    <3>3. resent[d[1]] \in 0 .. ResendMax
      BY <1>t, <3>2
    <3> QED BY <3>1, <3>2, <3>3
  <2>2. CASE d[2] = 0 /\ Drew(d[1])
    BY <2>1, <2>2 DEF Draws
  <2>3. CASE d[2] \in 1 .. resent[d[1]]
    <3>1. resent'[d[1]] \in {resent[d[1]], resent[d[1]] + 1}
      BY <2>1
    <3>2. d[2] \in 1 .. resent'[d[1]]
      BY <2>1, <2>3, <3>1
    <3> QED BY <2>1, <3>2 DEF Draws
  <2>4. CASE d[2] = resent[d[1]] + 1 /\ pc[d[1]] = "send"
    <3>1. CASE resent'[d[1]] = resent[d[1]] /\ pc'[d[1]] = "send"
      BY <2>1, <2>4, <3>1 DEF Draws
    <3>2. CASE resent'[d[1]] = resent[d[1]] + 1
      <4>1. d[2] \in 1 .. resent'[d[1]]
        BY <2>1, <2>4, <3>2
      <4> QED BY <2>1, <4>1 DEF Draws
    <3> QED BY <2>1, <2>4, <3>1, <3>2
  <2> QED BY <2>2, <2>3, <2>4 DEF Draws
<1> QED BY <1>t, <1>1, NumbersKept

\* A thread that stores a number has drawn one more.
LEMMA OneDrawn ==
  ASSUME TypeOK, ThreadInv, NumberInv, NEW t \in Thread, StoreId(t)
  PROVE  Cardinality(Draws') = Cardinality(Draws) + 1
<1> DEFINE k == IF t = Main THEN 0 ELSE resent[t] + 1
           d == <<Of(t), k>>
<1> USE DEF At, GoTo
<1>t. /\ pc \in [Thread -> {"read", "off", "load", "store", "send", "register", "wait", "end"}]
      /\ resent \in [Msg -> 0 .. ResendMax]
  BY DEF TypeOK
<1>1. /\ pc[t] = "store" /\ pc' = [pc EXCEPT ![t] = "send"]
      /\ UNCHANGED <<typed, resent>>
  BY DEF StoreId, typing, retryVars
<1>2. /\ Of(t) \in Msg
      /\ t # Main => t \in Msg /\ Of(t) = t /\ resent[t] < ResendMax
      /\ t = Main => Of(t) = typed /\ pc[typed] = "off" /\ resent[typed] = 0
  BY <1>1, AtWork DEF Drawing
<1>r. t # Main => resent[t] \in 0 .. ResendMax /\ resent[t] \in Nat
  <2> SUFFICES ASSUME t # Main PROVE resent[t] \in 0 .. ResendMax /\ resent[t] \in Nat
    OBVIOUS
  <2>1. t \in Msg
    BY <1>2
  <2>2. resent[t] \in 0 .. ResendMax
    BY <1>t, <2>1
  <2> QED BY <2>2, MsgFacts
<1>3. d \in Msg \X (0 .. ResendMax) /\ d[1] = Of(t) /\ d[2] = k
  <2>1. k \in 0 .. ResendMax
    <3>1. CASE t = Main
      BY <3>1, MsgFacts
    <3>2. CASE t # Main
      <4>1. resent[t] \in Nat /\ resent[t] < ResendMax
        BY <1>2, <1>r, <3>2
      <4> QED BY <3>2, <4>1, MsgFacts
    <3> QED BY <3>1, <3>2
  <2> QED BY <1>2, <2>1
<1>4. d \notin Draws
  <2>1. CASE t = Main
    <3>1. ~Drew(typed) /\ d[1] = typed /\ d[2] = 0
      <4>1. typed \in Nat /\ pc[Main] = "store"
        BY <1>1, <1>2, <2>1, MsgFacts
      <4> QED BY <1>2, <1>3, <2>1, <4>1 DEF Drew
    <3> QED BY <1>2, <2>1, <3>1 DEF Draws
  <2>2. CASE t # Main
    <3>1. d[1] = t /\ d[2] = resent[t] + 1 /\ resent[t] \in Nat /\ pc[t] # "send"
      BY <1>1, <1>2, <1>r, <1>3, <2>2
    <3>2. d[2] # 0 /\ d[2] \notin 1 .. resent[d[1]]
      BY <3>1
    <3> QED BY <3>1, <3>2 DEF Draws
  <2> QED BY <2>1, <2>2
<1>5. \A e \in Msg \X (0 .. ResendMax) : e \in Draws' <=> e \in Draws \/ e = d
  <2>1. CASE t = Main
    <3>1. \A m \in Msg : pc'[m] = pc[m]
      BY <1>t, <1>1, <2>1, ThreadFacts
    <3>2. \A m \in Msg : Drew(m)' <=> Drew(m) \/ m = typed
      <4>1. pc'[Main] = "send" /\ typed \in Nat
        BY <1>t, <1>1, <1>2, <2>1, ThreadFacts, MsgFacts
      <4> QED BY <1>1, <2>1, <4>1, MsgFacts DEF Drew
    <3>3. \A e \in Msg \X (0 .. ResendMax) : e = d <=> e[1] = typed /\ e[2] = 0
      BY <1>2, <2>1
    <3> QED BY <1>1, <3>1, <3>2, <3>3 DEF Draws
  <2>2. CASE t # Main
    <3>1. /\ pc'[t] = "send" /\ pc[t] # "send"
          /\ \A m \in Msg \ {t} : pc'[m] = pc[m]
          /\ pc'[Main] = pc[Main]
      BY <1>t, <1>1, <1>2, <2>2, ThreadFacts
    <3>2. \A m \in Msg : Drew(m)' <=> Drew(m)
      BY <1>1, <3>1 DEF Drew
    <3>3. \A e \in Msg \X (0 .. ResendMax) : e = d <=> e[1] = t /\ e[2] = resent[t] + 1
      BY <1>2, <2>2
    <3> QED BY <1>1, <3>1, <3>2, <3>3 DEF Draws
  <2> QED BY <2>1, <2>2
<1> HIDE DEF d
<1>6. Draws' = Draws \cup {d}
  BY <1>3, <1>5, DrawsAre
<1>7. IsFiniteSet(Draws)
  BY DrawsBounded, DrawsAre
<1> QED BY <1>4, <1>6, <1>7, FS_AddElement

LEMMA NumberStepKeeps == TypeOK /\ ThreadInv /\ NumberInv /\ [Next]_vars => NumberInv'
<1> SUFFICES ASSUME TypeOK, ThreadInv, NumberInv, [Next]_vars PROVE NumberInv'
  OBVIOUS
<1> USE DEF At, GoTo
<1>t. /\ pc \in [Thread -> {"read", "off", "load", "store", "send", "register", "wait", "end"}]
      /\ resent \in [Msg -> 0 .. ResendMax] /\ typed \in {0} \cup Msg
      /\ clientId \in Nat /\ reg \in [Thread -> Nat] /\ upId \in [Msg -> Nat]
  BY TypesGiveNumbers DEF TypeOK, NInv, ClientInv
<1>1. CASE ReadLine
  <2>1. /\ pc[Main] = "read" /\ pc' = [pc EXCEPT ![Main] = "load"]
        /\ typed' = typed + 1
        /\ UNCHANGED <<clientId, reg, upId, resent>>
    BY <1>1 DEF ReadLine, retryVars, idVars
  <2>2. pc'[Main] = "load" /\ \A m \in Msg : pc'[m] = pc[m]
    BY <1>t, <2>1, ThreadFacts
  <2>3. \A m \in Msg : Drew(m)' <=> Drew(m)
    BY <1>t, <2>1, <2>2, MsgFacts DEF Drew
  <2> QED BY <2>1, <2>2, <2>3, NothingDrawn
<1>2. ASSUME NEW t \in Thread, LoadId(t) PROVE NumberInv'
  <2>1. /\ pc[t] = "load" /\ pc' = [pc EXCEPT ![t] = "store"]
        /\ reg' = [reg EXCEPT ![t] = clientId]
        /\ UNCHANGED <<clientId, upId, typed, resent>>
    BY <1>2 DEF LoadId, typing, retryVars
  <2>2. \A u \in Thread : pc'[u] = pc[u] \/ (u = t /\ pc'[u] = "store" /\ pc[u] = "load")
    BY <1>t, <2>1
  <2>3. \A m \in Msg : Drew(m)' <=> Drew(m)
    BY <2>1, <2>2, ThreadFacts DEF Drew
  <2>4. Draws' = Draws
    BY <2>1, <2>2, <2>3, ThreadFacts DEF Draws
  <2> QED BY <1>t, <2>1, <2>3, <2>4 DEF NumberInv
<1>3. ASSUME NEW t \in Thread, StoreId(t) PROVE NumberInv'
  <2>1. /\ pc[t] = "store" /\ pc' = [pc EXCEPT ![t] = "send"]
        /\ clientId' = reg[t] + 1 /\ upId' = [upId EXCEPT ![Of(t)] = reg[t] + 1]
        /\ UNCHANGED <<reg, typed, resent>>
    BY <1>3 DEF StoreId, typing, retryVars
  <2>2. Cardinality(Draws') = Cardinality(Draws) + 1 /\ Cardinality(Draws) \in Nat
    BY <1>3, OneDrawn, DrawsBounded, DrawsAre
  <2>3. Of(t) \in Msg /\ (t = Main => Of(t) = typed)
    BY <2>1, AtWork DEF Drawing
  <2>4. \A m \in Msg : Drew(m)' => Drew(m) \/ m = Of(t)
    <3>1. CASE t = Main
      BY <1>t, <2>1, <2>3, <3>1 DEF Drew
    <3>2. CASE t # Main
      <4>1. pc'[Main] = pc[Main]
        BY <1>t, <2>1, <3>2, ThreadFacts
      <4> QED BY <2>1, <4>1 DEF Drew
    <3> QED BY <3>1, <3>2
  <2>5. reg[t] \in Nat /\ reg[t] + 1 <= Cardinality(Draws')
    BY <1>t, <2>2 DEF NumberInv
  <2>6. \A u \in Thread : reg[u] <= Cardinality(Draws')
    BY <1>t, <2>2 DEF NumberInv
  <2>7. \A m \in Msg : upId'[m] <= Cardinality(Draws') /\ (Drew(m)' => upId'[m] # 0)
    BY <1>t, <2>1, <2>2, <2>3, <2>4, <2>5 DEF NumberInv
  <2> QED BY <2>1, <2>5, <2>6, <2>7 DEF NumberInv
<1>4. CASE SendFrame(Main)
  <2>1. /\ pc[Main] = "send" /\ pc' = [pc EXCEPT ![Main] = "register", ![typed] = "wait"]
        /\ UNCHANGED <<clientId, reg, upId, typed, resent>>
    BY <1>4 DEF SendFrame, typing, idVars
  <2>2. typed \in Msg /\ pc[typed] = "off"
    BY <2>1, AtWork, ThreadFacts DEF Drawing
  <2>3. pc'[Main] = "register" /\ \A m \in Msg \ {typed} : pc'[m] = pc[m]
    BY <1>t, <2>1, <2>2, ThreadFacts
  <2>4. \A m \in Msg : Drew(m)' <=> Drew(m)
    BY <2>1, <2>3 DEF Drew
  <2> QED BY <2>1, <2>2, <2>3, <2>4, NothingDrawn
<1>5. ASSUME NEW m \in Msg, SendFrame(m) PROVE NumberInv'
  <2>1. /\ pc[m] = "send" /\ pc' = [pc EXCEPT ![m] = "wait"]
        /\ resent' = [resent EXCEPT ![m] = @ + 1]
        /\ UNCHANGED <<clientId, reg, upId, typed>>
    BY <1>5, ThreadFacts DEF SendFrame, typing, idVars
  <2>2. pc'[Main] = pc[Main] /\ \A n \in Msg \ {m} : pc'[n] = pc[n] /\ resent'[n] = resent[n]
    BY <1>t, <2>1, ThreadFacts
  <2>3. resent'[m] = resent[m] + 1
    BY <1>t, <2>1
  <2>4. \A n \in Msg : Drew(n)' <=> Drew(n)
    BY <2>1, <2>2 DEF Drew
  <2> QED BY <2>1, <2>2, <2>3, <2>4, NothingDrawn
<1>6. CASE Register
  <2>1. /\ pc[Main] = "register" /\ pc' = [pc EXCEPT ![Main] = "read"]
        /\ UNCHANGED <<clientId, reg, upId, typed, resent>>
    BY <1>6 DEF Register, typing, idVars
  <2>2. pc'[Main] = "read" /\ \A m \in Msg : pc'[m] = pc[m]
    BY <1>t, <2>1, ThreadFacts
  <2>3. \A m \in Msg : Drew(m)' <=> Drew(m)
    BY <2>1, <2>2 DEF Drew
  <2> QED BY <2>1, <2>2, <2>3, NothingDrawn
<1>7. ASSUME NEW m \in Msg, Tick(m) \/ Cancelled(m) PROVE NumberInv'
  <2>1. /\ pc[m] = "wait"
        /\ \/ pc' = [pc EXCEPT ![m] = "end"]
           \/ pc' = [pc EXCEPT ![m] = "load"]
        /\ UNCHANGED <<clientId, reg, upId, typed, resent>>
    BY <1>7 DEF Tick, Cancelled, Ticked, typing, idVars, retryVars
  <2>2. pc'[Main] = pc[Main] /\ \A n \in Msg \ {m} : pc'[n] = pc[n]
    BY <1>t, <2>1, ThreadFacts
  <2>3. \A n \in Msg : Drew(n)' <=> Drew(n)
    BY <2>1, <2>2 DEF Drew
  <2> QED BY <2>1, <2>2, <2>3, NothingDrawn
<1>8. CASE ReceiveAck \/ ClientEnds \/ ServerStep \/ UNCHANGED vars
  <2>1. UNCHANGED <<clientId, reg, upId, typed, resent, pc>>
    BY <1>8 DEF ClientEnds, ReceiveAck, ConcurrentWrite, Heartbeat, ConnectionLost, ServerStep,
         Worker, HandleLogin, ReadFrame, Take, StoreOwn, StorePeer, SendToGroup, SendAck, Fail, vars,
         clientVars, typing, idVars, retryVars
  <2>2. \A n \in Msg : Drew(n)' <=> Drew(n)
    BY <2>1 DEF Drew
  <2> QED BY <2>1, <2>2, NothingDrawn
<1> QED BY <1>1, <1>2, <1>3, <1>4, <1>5, <1>6, <1>7, <1>8
        DEF Next, MainStep, ResenderStep, ThreadStep, ClientEnds, ServerStep, Thread

-----------------------------------------------------------------------------
(* Types.                                                                  *)

\* The frame a thread sends has a number.
LEMMA FrameSent ==
  ASSUME TypeOK, ThreadInv, NumberInv, NEW t \in Thread, SendFrame(t)
  PROVE  /\ pc[t] = "send" /\ Of(t) \in Msg /\ upId[Of(t)] \in Id
         /\ [msg |-> Of(t), id |-> upId[Of(t)]] \in Frame
<1>1. pc[t] = "send"
  BY DEF SendFrame, At
<1>2. /\ Of(t) \in Msg /\ Of(t) <= typed /\ (t = Main => Of(t) = typed)
      /\ (t # Main => Sent(Of(t)))
  BY <1>1, AtWork DEF Drawing
<1>3. Drew(Of(t))
  <2>1. CASE t = Main
    BY <1>1, <1>2, <2>1 DEF Drew
  <2>2. CASE t # Main
    BY <1>2, <2>2 DEF Drew, Sent
  <2> QED BY <2>1, <2>2
<1>4. upId[Of(t)] \in Id
  BY <1>2, <1>3 DEF TypeOK, NumberInv
<1> QED BY <1>1, <1>2, <1>4 DEF Frame

\* A main goroutine that registers has a number to register.
LEMMA Registered ==
  ASSUME TypeOK, ThreadInv, NumberInv, Register
  PROVE  typed \in Msg /\ upId[typed] \in Id /\ pc[Main] = "register"
<1>1. pc[Main] = "register" /\ typed \in Msg
  BY DEF Register, At, ThreadInv
<1>2. Drew(typed)
  BY <1>1 DEF Drew
<1> QED BY <1>1, <1>2 DEF TypeOK, NumberInv

LEMMA NumberTypes ==
  ASSUME TypeOK, ThreadInv, NumberInv, NumberInv', [Next]_vars
  PROVE  /\ clientId' \in {0} \cup Id
         /\ reg' \in [Thread -> {0} \cup Id] /\ upId' \in [Msg -> {0} \cup Id]
         /\ typed' \in {0} \cup Msg
         /\ pc' \in [Thread -> {"read", "off", "load", "store", "send", "register", "wait", "end"}]
<1>1. NInv'
  BY TypesGiveNumbers, NextTypes
<1>2. /\ clientId' \in Nat /\ reg' \in [Thread -> Nat] /\ upId' \in [Msg -> Nat]
      /\ pc' \in [Thread -> Place]
  BY <1>1 DEF NInv, ClientInv
<1>3. \A n \in Nat : n <= Cardinality(Draws') => n \in {0} \cup Id
  BY DrawsAre, NumbersFit
<1>4. clientId' \in {0} \cup Id
  BY <1>2, <1>3 DEF NumberInv
<1>5. \A t \in Thread : reg'[t] \in {0} \cup Id
  BY <1>2, <1>3 DEF NumberInv
<1>6. \A m \in Msg : upId'[m] \in {0} \cup Id
  BY <1>2, <1>3 DEF NumberInv
<1>7. typed' \in {0} \cup Msg
  <2>1. CASE ReadLine
    BY <2>1, MsgFacts DEF ReadLine, TypeOK, Msg
  <2>2. CASE ~ReadLine
    <3>1. typed' = typed
      BY <2>2 DEF Next, MainStep, ResenderStep, ThreadStep, Worker, LoadId, StoreId, SendFrame, Register,
           Tick, Cancelled, ReceiveAck, ConcurrentWrite, Heartbeat, ConnectionLost, HandleLogin,
           ReadFrame, Take, StoreOwn, StorePeer, SendToGroup, SendAck, Fail, vars, clientVars, typing
    <3> QED BY <3>1 DEF TypeOK
  <2> QED BY <2>1, <2>2
<1> QED BY <1>2, <1>4, <1>5, <1>6, <1>7 DEF Place

LEMMA FirstFrame ==
  ASSUME NEW s \in Seq(Frame), s # <<>>
  PROVE  /\ Tail(s) \in Seq(Frame) /\ Head(s) \in Frame
         /\ Head(s).id \in Id /\ Head(s).msg \in Msg
<1>1. Tail(s) \in Seq(Frame) /\ Head(s) \in Frame
  BY Beheaded
<1> QED BY <1>1 DEF Frame

\* What a step does to the frames and acknowledgements on their way.
LEMMA NetTypes ==
  ASSUME TypeOK, ThreadInv, NumberInv, [Next]_vars
  PROVE  /\ wire' \in Seq(Frame) /\ acks' \in Seq(Frame) /\ queue' \in Seq(Frame)
         /\ maxClientId' \in {0} \cup Id
<1>t. /\ wire \in Seq(Frame) /\ acks \in Seq(Frame) /\ queue \in Seq(Frame)
      /\ maxClientId \in {0} \cup Id
  BY DEF TypeOK
<1>1. ASSUME NEW t \in Thread, SendFrame(t)
      PROVE  wire' \in Seq(Frame) /\ UNCHANGED <<acks, queue, maxClientId>>
  BY <1>1, <1>t, FrameSent, Appended DEF SendFrame, serverVars, windowVars
<1>2. CASE ReceiveAck
  <2>1. Tail(acks) \in Seq(Frame)
    BY <1>2, <1>t, Beheaded DEF ReceiveAck
  <2> QED BY <1>2, <1>t, <2>1 DEF ReceiveAck, serverVars, windowVars
<1>3. CASE ReadFrame
  <2>1. /\ wire # <<>> /\ wire' = Tail(wire)
        /\ queue' = queue \/ queue' = Append(queue, Head(wire))
        /\ UNCHANGED <<acks, maxClientId>>
    BY <1>3 DEF ReadFrame
  <2>2. Tail(wire) \in Seq(Frame) /\ Head(wire) \in Frame
    BY <1>t, <2>1, FirstFrame
  <2>3. Append(queue, Head(wire)) \in Seq(Frame)
    BY <1>t, <2>2
  <2> QED BY <1>t, <2>1, <2>2, <2>3
<1>4. CASE Take
  <2>1. /\ queue # <<>> /\ queue' = Tail(queue) /\ UNCHANGED <<wire, acks>>
        /\ maxClientId' = maxClientId \/ maxClientId' = Head(queue).id
    BY <1>4 DEF Take, Fits, netVars
  <2>2. Tail(queue) \in Seq(Frame) /\ Head(queue).id \in Id
    BY <1>t, <2>1, FirstFrame
  <2> QED BY <1>t, <2>1, <2>2
<1>5. CASE SendAck
  <2>1. /\ job \in Frame /\ acks' = Append(acks, job)
        /\ UNCHANGED <<wire, queue, maxClientId>>
    BY <1>5 DEF SendAck, ThreadInv, windowVars
  <2> QED BY <1>t, <2>1, Appended
<1>6. CASE ~(\E t \in Thread : SendFrame(t)) /\ ~ReceiveAck /\ ~ReadFrame /\ ~Take /\ ~SendAck
  <2>1. UNCHANGED <<wire, acks, queue, maxClientId>>
    BY <1>6, ThreadFacts
       DEF Next, MainStep, ResenderStep, ThreadStep, Worker, ReadLine, LoadId, StoreId, Register,
           Tick, Cancelled, ConcurrentWrite, Heartbeat, ConnectionLost, HandleLogin,
           StoreOwn, StorePeer, SendToGroup, Fail, vars, netVars, serverVars, windowVars
  <2> QED BY <1>t, <2>1
<1> QED BY <1>t, <1>1, <1>2, <1>3, <1>4, <1>5, <1>6

\* What a step does to the list of messages to resend.
LEMMA RetryTypes ==
  ASSUME TypeOK, ThreadInv, NumberInv, [Next]_vars
  PROVE  /\ resent' \in [Msg -> 0 .. ResendMax]
         /\ cancel' \in [Id -> {NoMsg} \cup Msg] /\ ctxDone' \subseteq Msg
<1>t. /\ resent \in [Msg -> 0 .. ResendMax] /\ acks \in Seq(Frame)
      /\ cancel \in [Id -> {NoMsg} \cup Msg] /\ ctxDone \subseteq Msg
  BY DEF TypeOK
<1>1. ASSUME NEW m \in Msg, SendFrame(m) PROVE resent' \in [Msg -> 0 .. ResendMax]
  <2>1. pc[m] = "send" /\ m # Main /\ resent' = [resent EXCEPT ![m] = @ + 1]
    BY <1>1, ThreadFacts DEF SendFrame, At
  <2>2. resent[m] < ResendMax /\ resent[m] \in Nat
    BY <1>t, <2>1, AtWork, ThreadFacts, MsgFacts DEF Drawing
  <2>3. resent[m] + 1 \in 0 .. ResendMax
    BY <2>2, MsgFacts
  <2> QED BY <1>t, <2>1, <2>3
<1>2. ~(\E m \in Msg : SendFrame(m)) => resent' = resent
  BY ThreadFacts
     DEF Next, MainStep, ResenderStep, ThreadStep, Worker, ReadLine, LoadId, StoreId, SendFrame,
         Register, Tick, Cancelled, ReceiveAck, ConcurrentWrite, Heartbeat, ConnectionLost,
         HandleLogin, ReadFrame, Take, StoreOwn, StorePeer, SendToGroup, SendAck, Fail, vars,
         clientVars, retryVars
<1>3. CASE Register
  BY <1>t, <1>1, <1>2, <1>3, Registered DEF Register
<1>4. CASE ReceiveAck
  <2>1. acks # <<>>
    BY <1>4 DEF ReceiveAck
  <2>2. Head(acks).id \in Id
    BY <1>t, <2>1, Beheaded DEF Frame
  <2>3. PICK i \in Id : i = Head(acks).id
    BY <2>2
  <2>4. /\ ctxDone' = IF cancel[i] = NoMsg THEN ctxDone ELSE ctxDone \cup {cancel[i]}
        /\ cancel' = [cancel EXCEPT ![i] = NoMsg]
        /\ resent' = resent
    BY <1>4, <2>3 DEF ReceiveAck
  <2>5. cancel[i] = NoMsg \/ cancel[i] \in Msg
    BY <1>t
  <2> QED BY <1>t, <2>4, <2>5
<1>5. CASE ~Register /\ ~ReceiveAck
  <2>1. UNCHANGED <<cancel, ctxDone>>
    BY <1>5 DEF Next, MainStep, ResenderStep, ThreadStep, Worker, ReadLine, LoadId, StoreId, SendFrame,
         Tick, Cancelled, ConcurrentWrite, Heartbeat, ConnectionLost, HandleLogin,
         ReadFrame, Take, StoreOwn, StorePeer, SendToGroup, SendAck, Fail, vars, clientVars, retryVars
  <2> QED BY <1>t, <1>1, <1>2, <2>1
<1> QED BY <1>3, <1>4, <1>5

\* What a step does to the worker and to the rows.
LEMMA ServerTypes ==
  ASSUME TypeOK, ThreadInv, [Next]_vars
  PROVE  /\ loggedIn' \in BOOLEAN /\ dropped' \in BOOLEAN
         /\ job' \in Frame \cup {NoJob} /\ wpc' \in {"idle", "own", "peer", "group", "ack", "gone"}
         /\ own' \in [Msg -> Nat] /\ peer' \in [Msg -> Nat] /\ faults' \in 0 .. MaxFaults
<1>t. /\ loggedIn \in BOOLEAN /\ dropped \in BOOLEAN /\ queue \in Seq(Frame)
      /\ job \in Frame \cup {NoJob} /\ wpc \in {"idle", "own", "peer", "group", "ack", "gone"}
      /\ own \in [Msg -> Nat] /\ peer \in [Msg -> Nat] /\ faults \in 0 .. MaxFaults
  BY DEF TypeOK
<1>j. wpc # "idle" => job.msg \in Msg
  BY DEF ThreadInv, Frame
<1>1. CASE HandleLogin
  BY <1>1, <1>t DEF HandleLogin, handlerVars, rowVars
<1>2. CASE ReadFrame
  BY <1>2, <1>t DEF ReadFrame, handlerVars, rowVars
<1>3. CASE Take
  <2>1. /\ queue # <<>> /\ UNCHANGED <<loggedIn, dropped, own, peer, faults>>
        /\ \/ UNCHANGED <<job, wpc>>
           \/ job' = Head(queue) /\ wpc' = "own"
    BY <1>3 DEF Take, handlerVars, rowVars
  <2>2. Head(queue) \in Frame
    BY <1>t, <2>1, Beheaded
  <2> QED BY <1>t, <2>1, <2>2
<1>4. CASE StoreOwn \/ StorePeer \/ SendToGroup
  <2>1. job.msg \in Msg
    BY <1>4, <1>j DEF StoreOwn, StorePeer, SendToGroup
  <2>2. OneMore(own) \in [Msg -> Nat] /\ OneMore(peer) \in [Msg -> Nat]
    BY <1>t, <2>1 DEF OneMore
  <2>3. CASE StoreOwn
    BY <1>t, <2>2, <2>3 DEF StoreOwn, Return, windowVars
  <2>4. CASE StorePeer \/ SendToGroup
    BY <1>t, <2>2, <2>4 DEF StorePeer, SendToGroup, windowVars
  <2> QED BY <1>4, <2>3, <2>4
<1>5. CASE Fail
  <2>1. job.msg \in Msg
    BY <1>5, <1>j DEF Fail
  <2>2. OneMore(own) \in [Msg -> Nat] /\ OneMore(peer) \in [Msg -> Nat]
    BY <1>t, <2>1 DEF OneMore
  <2>3. faults' \in 0 .. MaxFaults
    BY <1>5, <1>t, MsgFacts DEF Fail
  <2> QED BY <1>5, <1>t, <2>2, <2>3 DEF Fail, Return, windowVars
<1>6. CASE SendAck
  BY <1>6, <1>t DEF SendAck, Return, windowVars, rowVars
<1>7. CASE ConnectionLost
  <2>1. faults' \in 0 .. MaxFaults
    BY <1>7, <1>t, MsgFacts DEF ConnectionLost
  <2> QED BY <1>7, <1>t, <2>1 DEF ConnectionLost, windowVars, handlerVars
<1>8. CASE ~(ServerStep \/ ConnectionLost)
  <2>1. UNCHANGED serverVars
    BY <1>8 DEF Next, MainStep, ResenderStep, ThreadStep, ServerStep, ReadLine, LoadId, StoreId,
         SendFrame, Register, Tick, Cancelled, ReceiveAck, ConcurrentWrite, Heartbeat, vars
  <2> QED BY <1>t, <2>1 DEF serverVars, windowVars, handlerVars, rowVars
<1> QED BY <1>1, <1>2, <1>3, <1>4, <1>5, <1>6, <1>7, <1>8 DEF ServerStep, Worker

LEMMA TypeStepKeeps ==
  TypeOK /\ ThreadInv /\ NumberInv /\ NumberInv' /\ [Next]_vars => TypeOK'
<1> SUFFICES ASSUME TypeOK, ThreadInv, NumberInv, NumberInv', [Next]_vars PROVE TypeOK'
  OBVIOUS
<1>1. UNCHANGED <<kind, paced>>
  BY DEF Next, MainStep, ResenderStep, ThreadStep, Worker, ReadLine, LoadId, StoreId, SendFrame,
       Register, Tick, Cancelled, ReceiveAck, ConcurrentWrite, Heartbeat, ConnectionLost, HandleLogin,
       ReadFrame, Take, StoreOwn, StorePeer, SendToGroup, SendAck, Fail, vars, clientVars, typing
<1>2. alive' \in {alive, FALSE}
  BY DEF Next, MainStep, ResenderStep, ThreadStep, Worker, ReadLine, LoadId, StoreId, SendFrame,
       Register, Tick, Cancelled, ReceiveAck, ConcurrentWrite, Heartbeat, ConnectionLost, HandleLogin,
       ReadFrame, Take, StoreOwn, StorePeer, SendToGroup, SendAck, Fail, vars, clientVars
<1>3. kind' \in Mixes /\ paced' \in BOOLEAN /\ alive' \in BOOLEAN
  BY <1>1, <1>2 DEF TypeOK
<1> QED BY <1>3, NumberTypes, NetTypes, RetryTypes, ServerTypes DEF TypeOK

-----------------------------------------------------------------------------
(* Goroutines that keep up.                                                *)

\* At most one of them is about to draw a number or to send.
LEMMA OneDraws ==
  ASSUME ThreadInv, PacedInv, paced, NEW t \in Thread, NEW u \in Thread,
         pc[t] \in Drawing, pc[u] \in Drawing
  PROVE  t = u
<1>1. ASSUME NEW v \in Thread, v # Main, pc[v] \in Drawing
      PROVE  v = typed /\ pc[Main] \notin Drawing
  BY <1>1 DEF PacedInv, Resending, Drawing, Thread
<1> QED BY <1>1

\* Steps that draw nothing and leave the threads at work where they are.
LEMMA PacedKept ==
  ASSUME PacedInv, typed \in Thread, UNCHANGED <<paced, clientId, reg, upId, typed>>,
         \A t \in Thread : pc'[t] # pc[t] =>
             \/ t = Main /\ pc[t] = "register" /\ pc'[t] = "read"
             \/ t # Main /\ pc[t] \in {"send", "wait"} /\ pc'[t] \in {"wait", "end"}
  PROVE  PacedInv'
<1> SUFFICES ASSUME paced PROVE PacedInv'
  BY DEF PacedInv
<1>1. \A t \in Thread : pc'[t] \in Drawing => pc'[t] = pc[t]
  BY DEF Drawing
<1>2. \A m \in Msg : Resending(m)' => Resending(m)
  BY ThreadFacts DEF Resending
<1>3. pc[Main] \in {"register", "read"} => pc'[Main] \in {"register", "read"}
  BY ThreadFacts
<1>4. \A m \in Msg : Resending(m)' => m = typed' /\ pc'[Main] \in {"register", "read"}
  BY <1>2, <1>3 DEF PacedInv
<1>5. pc'[Main] = "register" => pc'[typed'] \notin Drawing
  <2>1. pc'[Main] = "register" => pc[Main] = "register"
    BY ThreadFacts
  <2> QED BY <1>1, <2>1 DEF PacedInv
<1>6. \A t \in Thread : pc'[t] = "store" => reg'[t] = clientId'
  BY <1>1 DEF PacedInv, Drawing
<1>7. \A t \in Thread : pc'[t] = "send" => upId'[Of(t)'] = clientId'
  BY <1>1 DEF PacedInv, Drawing, Of
<1> QED BY <1>4, <1>5, <1>6, <1>7 DEF PacedInv

LEMMA PacedStepKeeps ==
  TypeOK /\ ThreadInv /\ PacedInv /\ [Next]_vars => PacedInv'
<1> SUFFICES ASSUME TypeOK, ThreadInv, PacedInv, [Next]_vars PROVE PacedInv'
  OBVIOUS
<1> USE DEF At, GoTo
<1>t. /\ pc \in [Thread -> {"read", "off", "load", "store", "send", "register", "wait", "end"}]
      /\ reg \in [Thread -> {0} \cup Id] /\ upId \in [Msg -> {0} \cup Id]
      /\ typed \in {0} \cup Msg
  BY DEF TypeOK
<1>y. typed \in Thread
  BY <1>t, ThreadFacts, MsgFacts
<1>1. CASE ReadLine
  <2> SUFFICES ASSUME paced PROVE PacedInv'
    BY <1>1 DEF ReadLine, PacedInv
  <2>1. /\ pc[Main] = "read" /\ pc' = [pc EXCEPT ![Main] = "load"]
        /\ \A m \in Msg : ~Resending(m)
    BY <1>1 DEF ReadLine
  <2>2. pc'[Main] = "load" /\ \A m \in Msg : pc'[m] = pc[m] /\ ~Resending(m)'
    BY <1>t, <2>1, ThreadFacts DEF Resending
  <2>3. \A t \in Thread : pc'[t] \notin {"store", "send"}
    BY <2>2 DEF Thread, Resending
  <2> QED BY <2>2, <2>3 DEF PacedInv
<1>2. ASSUME NEW t \in Thread, LoadId(t) PROVE PacedInv'
  <2> SUFFICES ASSUME paced PROVE PacedInv'
    BY <1>2 DEF LoadId, typing, PacedInv
  <2>1. /\ pc[t] = "load" /\ pc' = [pc EXCEPT ![t] = "store"]
        /\ reg' = [reg EXCEPT ![t] = clientId]
        /\ UNCHANGED <<clientId, upId, typed>>
    BY <1>2 DEF LoadId, typing
  <2>2. /\ pc'[t] = "store" /\ reg'[t] = clientId
        /\ \A u \in Thread \ {t} : pc'[u] = pc[u] /\ reg'[u] = reg[u]
    BY <1>t, <2>1
  <2>3. \A m \in Msg : Resending(m)' => Resending(m)
    BY <2>1, <2>2, ThreadFacts DEF Resending
  <2>4. \A m \in Msg : Resending(m)' => m = typed' /\ pc'[Main] \in {"register", "read"}
    <3>1. pc[Main] \in {"register", "read"} => pc'[Main] = pc[Main]
      BY <2>1, <2>2, ThreadFacts
    <3> QED BY <2>1, <2>3, <3>1 DEF PacedInv
  <2>5. pc'[Main] = "register" => pc'[typed'] \notin Drawing
    <3>1. pc'[Main] = "register" => pc[Main] = "register"
      BY <2>1, <2>2, ThreadFacts
    <3> QED BY <1>y, <2>1, <2>2, <3>1 DEF PacedInv, Drawing
  <2>6. \A u \in Thread : pc'[u] = "store" => reg'[u] = clientId'
    BY <2>1, <2>2 DEF PacedInv
  <2>7. \A u \in Thread : pc'[u] = "send" => upId'[Of(u)'] = clientId'
    BY <2>1, <2>2 DEF PacedInv, Of
  <2> QED BY <2>4, <2>5, <2>6, <2>7 DEF PacedInv
<1>3. ASSUME NEW t \in Thread, StoreId(t) PROVE PacedInv'
  <2> SUFFICES ASSUME paced PROVE PacedInv'
    BY <1>3 DEF StoreId, typing, PacedInv
  <2>1. /\ pc[t] = "store" /\ pc' = [pc EXCEPT ![t] = "send"]
        /\ clientId' = reg[t] + 1 /\ upId' = [upId EXCEPT ![Of(t)] = reg[t] + 1]
        /\ UNCHANGED <<reg, typed>>
    BY <1>3 DEF StoreId, typing
  <2>2. pc'[t] = "send" /\ \A u \in Thread \ {t} : pc'[u] = pc[u] /\ pc'[u] \notin Drawing
    <3>1. pc'[t] = "send" /\ \A u \in Thread \ {t} : pc'[u] = pc[u]
      BY <1>t, <2>1
    <3>2. \A u \in Thread \ {t} : pc[u] \notin Drawing
      BY <2>1, OneDraws DEF Drawing
    <3> QED BY <3>1, <3>2
  <2>3. \A m \in Msg : Resending(m)' => Resending(m)
    BY <2>1, <2>2, ThreadFacts DEF Resending
  <2>4. \A m \in Msg : Resending(m)' => m = typed' /\ pc'[Main] \in {"register", "read"}
    <3>1. pc[Main] \in {"register", "read"} => pc'[Main] = pc[Main]
      BY <2>1, <2>2, ThreadFacts
    <3> QED BY <2>1, <2>3, <3>1 DEF PacedInv
  <2>5. pc'[Main] = "register" => pc'[typed'] \notin Drawing
    <3>1. pc'[Main] = "register" => pc[Main] = "register"
      BY <2>1, <2>2, ThreadFacts
    <3>2. pc[Main] = "register" => typed # t
      BY <2>1 DEF PacedInv, Drawing
    <3> QED BY <1>y, <2>1, <2>2, <3>1, <3>2
  <2>6. \A u \in Thread : pc'[u] = "store" => reg'[u] = clientId'
    BY <2>2 DEF Drawing
  <2>7. Of(t) \in Msg /\ Of(t)' = Of(t)
    BY <2>1, AtWork DEF Drawing, Of
  <2>8. \A u \in Thread : pc'[u] = "send" => upId'[Of(u)'] = clientId'
    <3>1. upId'[Of(t)] = reg[t] + 1
      BY <1>t, <2>1, <2>7
    <3>2. \A u \in Thread : pc'[u] = "send" => u = t
      BY <2>2 DEF Drawing
    <3> QED BY <2>1, <2>7, <3>1, <3>2
  <2> QED BY <2>4, <2>5, <2>6, <2>8 DEF PacedInv
<1>4. CASE SendFrame(Main)
  <2> SUFFICES ASSUME paced PROVE PacedInv'
    BY <1>4 DEF SendFrame, typing, PacedInv
  <2>1. /\ pc[Main] = "send" /\ pc' = [pc EXCEPT ![Main] = "register", ![typed] = "wait"]
        /\ UNCHANGED <<clientId, reg, upId, typed>>
    BY <1>4 DEF SendFrame, typing, idVars
  <2>2. typed \in Msg /\ pc[typed] = "off"
    BY <2>1, AtWork, ThreadFacts DEF Drawing
  <2>3. /\ pc'[Main] = "register" /\ pc'[typed] = "wait"
        /\ \A m \in Msg \ {typed} : pc'[m] = pc[m]
    BY <1>t, <2>1, <2>2, ThreadFacts
  <2>4. \A m \in Msg : ~Resending(m)
    BY <2>1 DEF PacedInv
  <2>5. \A m \in Msg : Resending(m)' => m = typed
    BY <2>3, <2>4 DEF Resending
  <2>6. \A t \in Thread : pc'[t] \notin {"store", "send"}
    BY <2>3, <2>4 DEF Thread, Resending
  <2> QED BY <2>1, <2>3, <2>5, <2>6 DEF PacedInv, Drawing
<1>5. ASSUME NEW m \in Msg, SendFrame(m) PROVE PacedInv'
  <2>1. /\ pc[m] = "send" /\ pc' = [pc EXCEPT ![m] = "wait"] /\ m # Main
        /\ UNCHANGED <<paced, clientId, reg, upId, typed>>
    BY <1>5, ThreadFacts DEF SendFrame, typing, idVars
  <2>2. \A t \in Thread : pc'[t] # pc[t] => t = m /\ pc'[t] = "wait"
    BY <1>t, <2>1
  <2> QED BY <2>1, <2>2, <1>y, PacedKept
<1>6. CASE Register
  <2>1. /\ pc[Main] = "register" /\ pc' = [pc EXCEPT ![Main] = "read"]
        /\ UNCHANGED <<paced, clientId, reg, upId, typed>>
    BY <1>6 DEF Register, typing, idVars
  <2>2. \A t \in Thread : pc'[t] # pc[t] => t = Main /\ pc'[t] = "read"
    BY <1>t, <2>1
  <2> QED BY <2>1, <2>2, <1>y, PacedKept
<1>7. ASSUME NEW m \in Msg, Tick(m) \/ Cancelled(m) PROVE PacedInv'
  <2>1. /\ pc[m] = "wait" /\ m # Main
        /\ UNCHANGED <<paced, clientId, reg, upId, typed>>
    BY <1>7, ThreadFacts DEF Tick, Cancelled, Ticked, typing, idVars
  <2>2. CASE pc' = [pc EXCEPT ![m] = "end"]
    <3>1. \A t \in Thread : pc'[t] # pc[t] => t = m /\ pc'[t] = "end"
      BY <1>t, <2>2
    <3> QED BY <2>1, <3>1, <1>y, PacedKept
  <2>3. CASE pc' = [pc EXCEPT ![m] = "load"] /\ (paced => pc[Main] # "register")
    <3> SUFFICES ASSUME paced PROVE PacedInv'
      BY <2>1 DEF PacedInv
    <3>1. \A t \in Thread : pc'[t] = pc[t] \/ (t = m /\ pc'[t] = "load")
      BY <1>t, <2>3
    <3>2. pc'[Main] = pc[Main] /\ pc[Main] # "register"
      BY <2>1, <2>3, <3>1, ThreadFacts
    <3>3. \A n \in Msg : Resending(n)' => Resending(n)
      BY <2>1, <3>1, ThreadFacts DEF Resending
    <3>4. \A t \in Thread : pc'[t] \in {"store", "send"} => pc'[t] = pc[t]
      BY <3>1
    <3> QED BY <2>1, <3>2, <3>3, <3>4 DEF PacedInv, Of
  <2> QED BY <1>7, <2>2, <2>3 DEF Tick, Cancelled, Ticked
<1>8. CASE ReceiveAck \/ ClientEnds \/ ServerStep \/ UNCHANGED vars
  <2>1. UNCHANGED <<paced, clientId, reg, upId, typed, pc>>
    BY <1>8 DEF ClientEnds, ReceiveAck, ConcurrentWrite, Heartbeat, ConnectionLost, ServerStep,
         Worker, HandleLogin, ReadFrame, Take, StoreOwn, StorePeer, SendToGroup, SendAck, Fail, vars,
         clientVars, typing, idVars
  <2> QED BY <2>1, <1>y, PacedKept
<1> QED BY <1>1, <1>2, <1>3, <1>4, <1>5, <1>6, <1>7, <1>8
        DEF Next, MainStep, ResenderStep, ThreadStep, ClientEnds, ServerStep, Thread

-----------------------------------------------------------------------------
(* The window.                                                             *)

\* Steps that move no frame, and do not begin or end to send.
LEMMA WindowKept ==
  ASSUME WindowInv, UNCHANGED <<paced, dropped, queue, wire, clientId, maxClientId>>, Drawn' = Drawn
  PROVE  WindowInv'
BY DEF WindowInv

LEMMA WindowStepKeeps ==
  TypeOK /\ ThreadInv /\ NumberInv /\ PacedInv /\ WindowInv /\ [Next]_vars => WindowInv'
<1> SUFFICES ASSUME TypeOK, ThreadInv, NumberInv, PacedInv, WindowInv, [Next]_vars PROVE WindowInv'
  OBVIOUS
<1> USE DEF At, GoTo
<1>t. /\ pc \in [Thread -> {"read", "off", "load", "store", "send", "register", "wait", "end"}]
      /\ wire \in Seq(Frame) /\ queue \in Seq(Frame)
  BY DEF TypeOK
<1> DEFINE one == IF Drawn = {} THEN 0 ELSE 1
<1>n. clientId \in Nat /\ maxClientId \in Nat /\ Len(wire) \in Nat /\ Len(queue) \in Nat
  BY <1>t, MsgFacts DEF TypeOK
<1>w. paced /\ ~dropped =>
        /\ \A i \in 1 .. Len(queue) : queue[i].id = maxClientId + i
        /\ \A i \in 1 .. Len(wire) : wire[i].id = maxClientId + Len(queue) + i
        /\ clientId = maxClientId + Len(queue) + Len(wire) + one
  BY DEF WindowInv
<1>o. one \in Nat /\ (Drawn' = Drawn => one' = one)
  OBVIOUS
<1> HIDE DEF one
<1>1. ASSUME NEW t \in Thread, StoreId(t) PROVE WindowInv'
  <2> SUFFICES ASSUME paced, ~dropped PROVE WindowInv'
    BY <1>1 DEF StoreId, typing, serverVars, windowVars, WindowInv
  <2>1. /\ pc[t] = "store" /\ pc' = [pc EXCEPT ![t] = "send"]
        /\ clientId' = reg[t] + 1
        /\ UNCHANGED <<paced, dropped, queue, wire, maxClientId>>
    BY <1>1 DEF StoreId, typing, serverVars, windowVars, netVars
  <2>2. clientId' = clientId + 1
    BY <2>1 DEF PacedInv
  <2>3. Drawn = {}
    <3>1. \A u \in Thread : pc[u] \in Drawing => u = t
      BY <2>1, OneDraws DEF Drawing
    <3> QED BY <2>1, <3>1 DEF Drawn, Drawing
  <2>4. t \in Drawn'
    BY <1>t, <2>1 DEF Drawn
  <2>5. Drawn' # {}
    BY <2>4
  <2> QED BY <1>n, <2>1, <2>2, <2>3, <2>5 DEF WindowInv
<1>2. ASSUME NEW t \in Thread, SendFrame(t) PROVE WindowInv'
  <2> SUFFICES ASSUME paced, ~dropped PROVE WindowInv'
    BY <1>2 DEF SendFrame, typing, serverVars, windowVars, WindowInv
  <2>1. /\ pc[t] = "send" /\ Of(t) \in Msg
        /\ [msg |-> Of(t), id |-> upId[Of(t)]] \in Frame
    BY <1>2, FrameSent
  <2>2. /\ wire' = Append(wire, [msg |-> Of(t), id |-> upId[Of(t)]])
        /\ UNCHANGED <<paced, dropped, queue, clientId, maxClientId>>
    BY <1>2 DEF SendFrame, typing, serverVars, windowVars, idVars
  <2>3. upId[Of(t)] = clientId
    BY <2>1 DEF PacedInv
  <2>4. Drawn = {t}
    <3>1. \A u \in Thread : pc[u] \in Drawing => u = t
      BY <2>1, OneDraws DEF Drawing
    <3> QED BY <2>1, <3>1 DEF Drawn, Drawing
  <2>5. Drawn' = {}
    <3>1. \/ t = Main /\ pc' = [pc EXCEPT ![Main] = "register", ![typed] = "wait"]
          \/ pc' = [pc EXCEPT ![t] = "wait"]
      BY <1>2 DEF SendFrame
    <3>2. \A u \in Thread : pc'[u] = "send" => u # t /\ pc[u] = "send"
      BY <1>t, <3>1
    <3> QED BY <2>4, <3>2 DEF Drawn
  <2>6. clientId = maxClientId + Len(queue) + Len(wire) + 1
    BY <2>4 DEF WindowInv
  <2>7. /\ Len(wire') = Len(wire) + 1
        /\ \A i \in 1 .. Len(wire) : wire'[i] = wire[i]
        /\ wire'[Len(wire) + 1].id = clientId
    BY <1>t, <2>1, <2>2, <2>3
  <2>8. \A i \in 1 .. Len(wire') : wire'[i].id = maxClientId + Len(queue) + i
    <3> SUFFICES ASSUME NEW i \in 1 .. Len(wire')
                 PROVE  wire'[i].id = maxClientId + Len(queue) + i
      OBVIOUS
    <3>1. i \in 1 .. Len(wire) \/ i = Len(wire) + 1
      BY <1>n, <2>7
    <3>2. CASE i \in 1 .. Len(wire)
      BY <1>w, <2>7, <3>2
    <3>3. CASE i = Len(wire) + 1
      <4>1. wire'[i].id = clientId
        BY <2>7, <3>3
      <4> QED BY <1>n, <2>6, <3>3, <4>1
    <3> QED BY <3>1, <3>2, <3>3
  <2>9. clientId' = maxClientId' + Len(queue') + Len(wire') + (IF Drawn' = {} THEN 0 ELSE 1)
    BY <1>n, <2>2, <2>5, <2>6, <2>7
  <2> QED BY <2>2, <2>8, <2>9 DEF WindowInv
<1>3. CASE ReadFrame
  <2> SUFFICES ASSUME paced, ~dropped, loggedIn PROVE WindowInv'
    BY <1>3 DEF ReadFrame, clientVars, typing, WindowInv
  <2>1. /\ wire # <<>> /\ wire' = Tail(wire) /\ queue' = Append(queue, Head(wire))
        /\ UNCHANGED <<paced, clientId, maxClientId, pc>>
    BY <1>3 DEF ReadFrame, clientVars, typing, idVars
  <2>2. Head(wire) \in Frame
    BY <1>t, <2>1, FirstFrame
  <2>3. /\ Len(queue') = Len(queue) + 1 /\ queue'[Len(queue) + 1] = Head(wire)
        /\ \A i \in 1 .. Len(queue) : queue'[i] = queue[i]
    BY <1>t, <2>1, <2>2
  <2>4. /\ Len(wire') + 1 = Len(wire) /\ Len(wire') \in Nat /\ 1 \in 1 .. Len(wire)
        /\ Head(wire) = wire[1]
        /\ \A i \in 1 .. Len(wire') : i + 1 \in 1 .. Len(wire) /\ wire'[i] = wire[i + 1]
    BY <1>t, <2>1
  <2>5. Head(wire).id = maxClientId + Len(queue) + 1
    BY <2>4 DEF WindowInv
  <2>6. \A i \in 1 .. Len(queue') : queue'[i].id = maxClientId + i
    <3> SUFFICES ASSUME NEW i \in 1 .. Len(queue') PROVE queue'[i].id = maxClientId + i
      OBVIOUS
    <3>1. i \in 1 .. Len(queue) \/ i = Len(queue) + 1
      BY <1>n, <2>3
    <3>2. CASE i \in 1 .. Len(queue)
      BY <1>w, <2>3, <3>2
    <3>3. CASE i = Len(queue) + 1
      <4>1. queue'[i].id = Head(wire).id
        BY <2>3, <3>3
      <4> QED BY <1>n, <2>5, <3>3, <4>1
    <3> QED BY <3>1, <3>2, <3>3
  <2>7. \A i \in 1 .. Len(wire') : wire'[i].id = maxClientId + Len(queue') + i
    <3> SUFFICES ASSUME NEW i \in 1 .. Len(wire')
                 PROVE  wire'[i].id = maxClientId + Len(queue') + i
      OBVIOUS
    <3>1. wire[i + 1].id = maxClientId + Len(queue) + (i + 1)
      BY <2>4 DEF WindowInv
    <3> QED BY <1>n, <2>3, <2>4, <3>1
  <2>8. Drawn' = Drawn
    BY <2>1 DEF Drawn
  <2>9. clientId' = maxClientId' + Len(queue') + Len(wire') + (IF Drawn' = {} THEN 0 ELSE 1)
    <3>1. clientId' = maxClientId' + Len(queue') + Len(wire') + one'
      BY <1>n, <1>o, <1>w, <2>1, <2>3, <2>4, <2>8
    <3> QED BY <3>1 DEF one
  <2> QED BY <2>1, <2>6, <2>7, <2>9 DEF WindowInv
<1>4. CASE Take
  <2> SUFFICES ASSUME paced, ~dropped PROVE WindowInv'
    BY <1>4 DEF Take, clientVars, typing, WindowInv
  <2>1. /\ queue # <<>> /\ queue' = Tail(queue)
        /\ UNCHANGED <<paced, dropped, clientId, wire, pc>>
        /\ Fits(Head(queue)) => maxClientId' = maxClientId + 1
    BY <1>4 DEF Take, clientVars, typing, idVars, netVars
  <2>2. /\ Len(queue') + 1 = Len(queue) /\ Len(queue') \in Nat /\ 1 \in 1 .. Len(queue)
        /\ Head(queue) = queue[1]
        /\ \A i \in 1 .. Len(queue') : i + 1 \in 1 .. Len(queue) /\ queue'[i] = queue[i + 1]
    BY <1>t, <2>1
  <2>3. maxClientId' = maxClientId + 1
    BY <2>1, <2>2 DEF WindowInv, Fits
  <2>4. \A i \in 1 .. Len(queue') : queue'[i].id = maxClientId' + i
    <3> SUFFICES ASSUME NEW i \in 1 .. Len(queue') PROVE queue'[i].id = maxClientId' + i
      OBVIOUS
    <3>1. queue[i + 1].id = maxClientId + (i + 1)
      BY <2>2 DEF WindowInv
    <3> QED BY <1>n, <2>2, <2>3, <3>1
  <2>5. \A i \in 1 .. Len(wire) : wire[i].id = maxClientId' + Len(queue') + i
    <3> SUFFICES ASSUME NEW i \in 1 .. Len(wire)
                 PROVE  wire[i].id = maxClientId' + Len(queue') + i
      OBVIOUS
    <3>1. wire[i].id = maxClientId + Len(queue) + i
      BY <1>w
    <3> QED BY <1>n, <2>2, <2>3, <3>1
  <2>6. Drawn' = Drawn
    BY <2>1 DEF Drawn
  <2>7. clientId' = maxClientId' + Len(queue') + Len(wire') + (IF Drawn' = {} THEN 0 ELSE 1)
    <3>1. clientId' = maxClientId' + Len(queue') + Len(wire) + one'
      BY <1>n, <1>o, <1>w, <2>1, <2>2, <2>3, <2>6
    <3> QED BY <2>1, <3>1 DEF one
  <2> QED BY <2>1, <2>4, <2>5, <2>7 DEF WindowInv
<1>5. CASE ~(\E t \in Thread : StoreId(t) \/ SendFrame(t)) /\ ~ReadFrame /\ ~Take
  <2>1. UNCHANGED <<paced, dropped, queue, wire, clientId, maxClientId>>
    BY <1>5, ThreadFacts
       DEF Next, MainStep, ResenderStep, ThreadStep, Worker, ReadLine, LoadId, Register, Tick, Cancelled,
           ReceiveAck, ConcurrentWrite, Heartbeat, ConnectionLost, HandleLogin, StoreOwn, StorePeer,
           SendToGroup, SendAck, Fail, vars, clientVars, typing, idVars, netVars, serverVars, windowVars
  <2>2. ASSUME ReadLine \/ Register
        PROVE  \A u \in Thread : pc'[u] = "send" <=> pc[u] = "send"
    BY <1>t, <2>2, ThreadFacts DEF ReadLine, Register
  <2>3. ASSUME NEW t \in Thread, LoadId(t)
        PROVE  \A u \in Thread : pc'[u] = "send" <=> pc[u] = "send"
    BY <1>t, <2>3 DEF LoadId
  <2>4. ASSUME NEW m \in Msg, Tick(m) \/ Cancelled(m)
        PROVE  \A u \in Thread : pc'[u] = "send" <=> pc[u] = "send"
    <3>1. /\ pc[m] = "wait" /\ m \in Thread
          /\ pc' = [pc EXCEPT ![m] = "end"] \/ pc' = [pc EXCEPT ![m] = "load"]
      BY <2>4, ThreadFacts DEF Tick, Cancelled, Ticked
    <3> QED BY <1>t, <3>1
  <2>5. ASSUME ReceiveAck \/ ClientEnds \/ ServerStep \/ UNCHANGED vars PROVE pc' = pc
    BY <2>5 DEF ClientEnds, ServerStep, Worker, ReceiveAck, ConcurrentWrite, Heartbeat,
         ConnectionLost, HandleLogin, StoreOwn, StorePeer, SendToGroup, ReadFrame, Take, SendAck,
         Fail, vars, clientVars
  <2>6. \A u \in Thread : pc'[u] = "send" <=> pc[u] = "send"
    BY <1>5, <2>2, <2>3, <2>4, <2>5, ThreadFacts
       DEF Next, MainStep, ResenderStep, ThreadStep, ClientEnds, ServerStep
  <2> QED BY <2>1, <2>6, WindowKept DEF Drawn
<1> QED BY <1>1, <1>2, <1>3, <1>4, <1>5

-----------------------------------------------------------------------------
(* Owners of numbers.                                                      *)

LEMMA InAppended ==
  ASSUME NEW s \in Seq(Frame), NEW f \in Frame, NEW i, NEW m, In(Append(s, f), i, m)
  PROVE  In(s, i, m) \/ (f.id = i /\ f.msg = m)
<1> DEFINE t == Append(s, f)
<1>1. PICK k \in 1 .. Len(t) : t[k].id = i /\ t[k].msg = m
  BY DEF In
<1>2. t[k] = f \/ (k \in 1 .. Len(s) /\ t[k] = s[k])
  BY Appended
<1> HIDE DEF t
<1> QED BY <1>1, <1>2 DEF In

LEMMA InBeheaded ==
  ASSUME NEW s \in Seq(Frame), s # <<>>
  PROVE  /\ In(s, Head(s).id, Head(s).msg)
         /\ \A i, m : In(Tail(s), i, m) => In(s, i, m)
<1> DEFINE t == Tail(s)
<1>1. /\ 1 \in 1 .. Len(s) /\ Head(s) = s[1]
      /\ \A k \in 1 .. Len(t) : k + 1 \in 1 .. Len(s) /\ t[k] = s[k + 1]
  BY Beheaded
<1> HIDE DEF t
<1>2. In(s, Head(s).id, Head(s).msg)
  BY <1>1 DEF In
<1>3. \A i, m : In(t, i, m) => In(s, i, m)
  BY <1>1 DEF In
<1> QED BY <1>2, <1>3 DEF t

\* Steps that draw no number, and put none where its message is not named.
LEMMA OwnerKept ==
  ASSUME OwnerInv, UNCHANGED <<paced, clientId>>,
         \A i \in Id, m \in Msg : Names(i, m)' => Names(i, m)
  PROVE  OwnerInv'
BY DEF OwnerInv

LEMMA OwnerStepKeeps ==
  TypeOK /\ ThreadInv /\ NumberInv /\ PacedInv /\ OwnerInv /\ [Next]_vars => OwnerInv'
<1> SUFFICES ASSUME TypeOK, ThreadInv, NumberInv, PacedInv, OwnerInv, [Next]_vars PROVE OwnerInv'
  OBVIOUS
<1>t. /\ wire \in Seq(Frame) /\ queue \in Seq(Frame) /\ acks \in Seq(Frame)
      /\ cancel \in [Id -> {NoMsg} \cup Msg] /\ upId \in [Msg -> {0} \cup Id]
      /\ clientId \in Nat
  BY MsgFacts DEF TypeOK
<1>1. ASSUME NEW t \in Thread, StoreId(t) PROVE OwnerInv'
  <2> SUFFICES ASSUME paced PROVE OwnerInv'
    BY <1>1 DEF StoreId, typing, OwnerInv
  <2>1. /\ pc[t] = "store" /\ clientId' = reg[t] + 1
        /\ upId' = [upId EXCEPT ![Of(t)] = reg[t] + 1]
        /\ UNCHANGED <<queue, wire, acks, job, wpc, cancel, paced>>
    BY <1>1 DEF StoreId, At, typing, serverVars, windowVars, handlerVars, netVars, retryVars
  <2>2. reg[t] = clientId /\ Of(t) \in Msg
    BY <2>1, AtWork DEF PacedInv, Drawing
  <2>3. ASSUME NEW i \in Id, NEW m \in Msg, Names(i, m)'
        PROVE  Names(i, m) \/ (i = clientId + 1 /\ m = Of(t))
    <3>1. upId'[m] = IF m = Of(t) THEN clientId + 1 ELSE upId[m]
      BY <1>t, <2>1, <2>2
    <3> QED BY <2>1, <2>3, <3>1 DEF Names, In
  <2>4. ASSUME NEW i \in Id, NEW m \in Msg, Names(i, m)
        PROVE  i <= clientId /\ i # clientId + 1 /\ i \in Nat
               /\ \A n \in Msg : Names(i, n) => n = m
    <3>1. i <= clientId /\ i \in Nat /\ \A n \in Msg : Names(i, n) => n = m
      BY <2>4, MsgFacts DEF OwnerInv
    <3> QED BY <1>t, <3>1
  <2>5. ASSUME NEW i \in Id, NEW m \in Msg, Names(i, m)',
               NEW n \in Msg, Names(i, n)'
        PROVE  i <= clientId' /\ n = m
    <3>1. CASE i = clientId + 1
      <4>1. m = Of(t) /\ n = Of(t)
        BY <2>3, <2>4, <2>5, <3>1
      <4> QED BY <1>t, <2>1, <2>2, <3>1, <4>1
    <3>2. CASE i # clientId + 1
      <4>1. Names(i, m) /\ Names(i, n)
        BY <2>3, <2>5, <3>2
      <4>2. i <= clientId /\ i \in Nat /\ n = m
        BY <2>4, <4>1
      <4> QED BY <1>t, <2>1, <2>2, <4>2
    <3> QED BY <3>1, <3>2
  <2> QED BY <2>5 DEF OwnerInv
<1>2. ASSUME NEW t \in Thread, SendFrame(t) PROVE OwnerInv'
  <2> DEFINE f == [msg |-> Of(t), id |-> upId[Of(t)]]
  <2>1. /\ wire' = Append(wire, f)
        /\ UNCHANGED <<queue, acks, job, wpc, cancel, upId, paced, clientId>>
    BY <1>2 DEF SendFrame, typing, serverVars, windowVars, handlerVars, idVars
  <2>2. f \in Frame /\ f.id = upId[Of(t)] /\ f.msg = Of(t)
    BY <1>2, FrameSent
  <2> HIDE DEF f
  <2>3. ASSUME NEW i \in Id, NEW m \in Msg, Names(i, m)' PROVE Names(i, m)
    <3>1. In(wire', i, m) => In(wire, i, m) \/ upId[m] = i
      BY <1>t, <2>1, <2>2, InAppended
    <3> QED BY <2>1, <2>3, <3>1 DEF Names, In
  <2> QED BY <2>1, <2>3, OwnerKept
<1>3. CASE Register
  <2>1. /\ cancel' = [cancel EXCEPT ![upId[typed]] = typed]
        /\ UNCHANGED <<queue, wire, acks, job, wpc, upId, paced, clientId>>
    BY <1>3 DEF Register, typing, serverVars, windowVars, handlerVars, idVars, netVars
  <2>2. \A i \in Id : cancel'[i] = IF i = upId[typed] THEN typed ELSE cancel[i]
    BY <1>3, <1>t, <2>1, Registered
  <2>3. ASSUME NEW i \in Id, NEW m \in Msg, Names(i, m)' PROVE Names(i, m)
    <3>1. cancel'[i] = m => cancel[i] = m \/ upId[m] = i
      BY <2>2
    <3> QED BY <2>1, <2>3, <3>1 DEF Names, In
  <2> QED BY <2>1, <2>3, OwnerKept
<1>4. CASE ReceiveAck
  <2>1. /\ acks # <<>> /\ acks' = Tail(acks)
        /\ cancel' = [cancel EXCEPT ![Head(acks).id] = NoMsg]
        /\ UNCHANGED <<queue, wire, job, wpc, upId, paced, clientId>>
    BY <1>4 DEF ReceiveAck, typing, serverVars, windowVars, handlerVars, idVars
  <2>2. Head(acks).id \in Id
    BY <1>t, <2>1, FirstFrame
  <2>3. \A i \in Id : cancel'[i] \in {cancel[i], NoMsg}
    BY <1>t, <2>1, <2>2
  <2>4. ASSUME NEW i \in Id, NEW m \in Msg, Names(i, m)' PROVE Names(i, m)
    <3>1. cancel'[i] = m => cancel[i] = m
      BY <2>3, MsgFacts DEF NoMsg
    <3>2. In(acks', i, m) => In(acks, i, m)
      BY <1>t, <2>1, InBeheaded
    <3> QED BY <2>1, <2>4, <3>1, <3>2 DEF Names, In
  <2> QED BY <2>1, <2>4, OwnerKept
<1>5. CASE ReadFrame
  <2>1. /\ wire # <<>> /\ wire' = Tail(wire)
        /\ queue' = queue \/ queue' = Append(queue, Head(wire))
        /\ UNCHANGED <<acks, job, wpc, cancel, upId, paced, clientId>>
    BY <1>5 DEF ReadFrame, clientVars, typing, handlerVars, idVars, retryVars
  <2>2. Head(wire) \in Frame
    BY <1>t, <2>1, FirstFrame
  <2>3. ASSUME NEW i \in Id, NEW m \in Msg, Names(i, m)' PROVE Names(i, m)
    <3>1. In(wire', i, m) => In(wire, i, m)
      BY <1>t, <2>1, InBeheaded
    <3>2. In(queue', i, m) => In(queue, i, m) \/ In(wire, i, m)
      <4>1. Append(queue, Head(wire)) = queue' /\ In(queue', i, m)
              => In(queue, i, m) \/ (Head(wire).id = i /\ Head(wire).msg = m)
        BY <1>t, <2>2, InAppended
      <4>2. In(wire, Head(wire).id, Head(wire).msg)
        BY <1>t, <2>1, InBeheaded
      <4> QED BY <2>1, <4>1, <4>2
    <3> QED BY <2>1, <2>3, <3>1, <3>2 DEF Names, In
  <2> QED BY <2>1, <2>3, OwnerKept
<1>6. CASE Take
  <2>1. /\ queue # <<>> /\ queue' = Tail(queue)
        /\ UNCHANGED <<job, wpc>> \/ job' = Head(queue)
        /\ UNCHANGED <<wire, acks, cancel, upId, paced, clientId>>
    BY <1>6 DEF Take, clientVars, typing, handlerVars, idVars, retryVars, netVars
  <2>2. ASSUME NEW i \in Id, NEW m \in Msg, Names(i, m)' PROVE Names(i, m)
    <3>1. In(queue', i, m) => In(queue, i, m)
      BY <1>t, <2>1, InBeheaded
    <3>2. job' = Head(queue) /\ job'.id = i /\ job'.msg = m => In(queue, i, m)
      BY <1>t, <2>1, InBeheaded
    <3> QED BY <2>1, <2>2, <3>1, <3>2 DEF Names, In
  <2> QED BY <2>1, <2>2, OwnerKept
<1>7. CASE SendAck
  <2>1. /\ job \in Frame /\ wpc # "idle" /\ acks' = Append(acks, job) /\ wpc' = "idle"
        /\ UNCHANGED <<queue, wire, cancel, upId, paced, clientId>>
    BY <1>7 DEF SendAck, Return, ThreadInv, clientVars, typing, windowVars, idVars, retryVars
  <2>2. ASSUME NEW i \in Id, NEW m \in Msg, Names(i, m)' PROVE Names(i, m)
    <3>1. In(acks', i, m) => In(acks, i, m) \/ (job.id = i /\ job.msg = m)
      BY <1>t, <2>1, InAppended
    <3> QED BY <2>1, <2>2, <3>1 DEF Names, In
  <2> QED BY <2>1, <2>2, OwnerKept
<1>8. CASE StoreOwn \/ StorePeer \/ SendToGroup \/ Fail
  <2>1. /\ wpc # "idle" /\ (wpc' = "idle" \/ job' = job)
        /\ UNCHANGED <<queue, wire, acks, cancel, upId, paced, clientId>>
    BY <1>8 DEF StoreOwn, StorePeer, SendToGroup, Fail, Return, clientVars, typing, windowVars,
         idVars, retryVars, netVars
  <2>2. ASSUME NEW i \in Id, NEW m \in Msg, Names(i, m)' PROVE Names(i, m)
    BY <2>1, <2>2 DEF Names, In
  <2> QED BY <2>1, <2>2, OwnerKept
<1>9. CASE /\ ~(\E t \in Thread : StoreId(t) \/ SendFrame(t)) /\ ~Register /\ ~ReceiveAck
           /\ HandleLogin \/ ~ServerStep
  <2>1. UNCHANGED <<queue, wire, acks, job, wpc, cancel, upId, paced, clientId>>
    BY <1>9, ThreadFacts
       DEF Next, MainStep, ResenderStep, ThreadStep, ServerStep, ReadLine, LoadId, Tick, Cancelled,
           ConcurrentWrite, Heartbeat, ConnectionLost, HandleLogin, vars, clientVars, typing, idVars,
           retryVars, netVars, serverVars, windowVars, handlerVars
  <2>2. \A i \in Id, m \in Msg : Names(i, m)' => Names(i, m)
    BY <2>1 DEF Names, In
  <2> QED BY <2>1, <2>2, OwnerKept
<1> QED BY <1>1, <1>2, <1>3, <1>4, <1>5, <1>6, <1>7, <1>8, <1>9 DEF ServerStep, Worker

LEMMA CancelStepKeeps ==
  TypeOK /\ ThreadInv /\ NumberInv /\ CancelInv /\ [Next]_vars => CancelInv'
<1> SUFFICES ASSUME TypeOK, ThreadInv, NumberInv, CancelInv, [Next]_vars PROVE CancelInv'
  OBVIOUS
<1>t. /\ pc \in [Thread -> {"read", "off", "load", "store", "send", "register", "wait", "end"}]
      /\ cancel \in [Id -> {NoMsg} \cup Msg] /\ acks \in Seq(Frame) /\ typed \in Nat
      /\ \A i \in Id : cancel[i] # NoMsg => cancel[i] \in Nat
  <2>1. cancel \in [Id -> {NoMsg} \cup Msg] /\ typed \in {0} \cup Msg
    BY DEF TypeOK
  <2>2. \A i \in Id : cancel[i] # NoMsg => cancel[i] \in Msg
    BY <2>1
  <2>3. typed \in Nat /\ \A i \in Id : cancel[i] # NoMsg => cancel[i] \in Nat
    <3>1. typed \in Nat
      BY <2>1, MsgFacts
    <3>2. ASSUME NEW i \in Id, cancel[i] # NoMsg PROVE cancel[i] \in Nat
      BY <2>2, <3>2, MsgFacts
    <3> QED BY <3>1, <3>2
  <2> QED BY <2>1, <2>3 DEF TypeOK
<1>1. CASE ReadLine
  <2>1. typed' = typed + 1 /\ UNCHANGED cancel
    BY <1>1 DEF ReadLine, retryVars
  <2>2. \A i \in Id : cancel[i] # NoMsg => cancel[i] < typed + 1
    BY <1>t DEF CancelInv
  <2> QED BY <2>1, <2>2 DEF CancelInv
<1>2. CASE Register
  <2>1. /\ pc[Main] = "register" /\ pc' = [pc EXCEPT ![Main] = "read"]
        /\ cancel' = [cancel EXCEPT ![upId[typed]] = typed] /\ typed' = typed
    BY <1>2 DEF Register, At, GoTo, typing
  <2>2. typed \in Msg /\ upId[typed] \in Id
    BY <1>2, Registered
  <2>3. \A i \in Id : cancel[i] # NoMsg => cancel[i] < typed
    BY <1>t, <2>1 DEF CancelInv
  <2>4. \A i \in Id : cancel[i] # typed
    BY <1>t, <2>2, <2>3, MsgFacts DEF NoMsg
  <2>5. pc'[Main] = "read" /\ \A i \in Id : cancel'[i] = IF i = upId[typed] THEN typed ELSE cancel[i]
    BY <1>t, <2>1, <2>2, ThreadFacts
  <2>6. ASSUME NEW i \in Id, cancel'[i] # NoMsg
        PROVE  /\ cancel'[i] < typed \/ (cancel'[i] = typed /\ pc'[Main] = "read")
               /\ \A j \in Id : cancel'[j] = cancel'[i] => j = i
    <3>1. CASE i = upId[typed]
      BY <2>4, <2>5, <3>1
    <3>2. CASE i # upId[typed]
      BY <2>3, <2>4, <2>5, <2>6, <3>2 DEF CancelInv
    <3> QED BY <3>1, <3>2
  <2> QED BY <2>1, <2>6 DEF CancelInv
<1>3. CASE ReceiveAck
  <2>1. /\ acks # <<>> /\ cancel' = [cancel EXCEPT ![Head(acks).id] = NoMsg]
        /\ UNCHANGED <<pc, typed>>
    BY <1>3 DEF ReceiveAck, typing
  <2>2. Head(acks).id \in Id
    BY <1>t, <2>1, FirstFrame
  <2>3. \A i \in Id : cancel'[i] = cancel[i] \/ cancel'[i] = NoMsg
    BY <1>t, <2>1, <2>2
  <2>4. ASSUME NEW i \in Id, cancel'[i] # NoMsg
        PROVE  /\ cancel'[i] < typed \/ (cancel'[i] = typed /\ pc'[Main] = "read")
               /\ \A j \in Id : cancel'[j] = cancel'[i] => j = i
    <3>1. cancel'[i] = cancel[i]
      BY <2>3, <2>4
    <3>2. \A j \in Id : cancel'[j] = cancel'[i] => cancel[j] = cancel[i]
      BY <2>3, <2>4, <3>1
    <3> QED BY <2>1, <2>4, <3>1, <3>2 DEF CancelInv
  <2> QED BY <2>1, <2>4 DEF CancelInv
<1>4. CASE ~ReadLine /\ ~Register /\ ~ReceiveAck
  <2>1. UNCHANGED <<typed, cancel>>
    BY <1>4 DEF Next, MainStep, ResenderStep, ThreadStep, Worker, LoadId, StoreId, SendFrame,
         Tick, Cancelled, ConcurrentWrite, Heartbeat, ConnectionLost, HandleLogin,
         ReadFrame, Take, StoreOwn, StorePeer, SendToGroup, SendAck, Fail, vars, clientVars,
         retryVars, typing
  <2>2. pc[Main] = "read" => pc'[Main] = "read"
    <3>1. ASSUME NEW t \in Thread, LoadId(t) \/ StoreId(t) \/ SendFrame(t)
          PROVE  pc[Main] = "read" => pc'[Main] = "read"
      <4>1. CASE t = Main
        BY <3>1, <4>1 DEF LoadId, StoreId, SendFrame, At
      <4>2. CASE t # Main
        <5>1. \E p \in {"store", "send", "wait"} : pc' = [pc EXCEPT ![t] = p]
          BY <3>1, <4>2 DEF LoadId, StoreId, SendFrame, GoTo
        <5> QED BY <1>t, <4>2, <5>1, ThreadFacts
      <4> QED BY <4>1, <4>2
    <3>2. ASSUME NEW m \in Msg, Tick(m) \/ Cancelled(m)
          PROVE  pc[Main] = "read" => pc'[Main] = "read"
      BY <1>t, <3>2, ThreadFacts DEF Tick, Cancelled, GoTo
    <3>3. ASSUME ClientEnds \/ ServerStep \/ UNCHANGED vars PROVE pc' = pc
      BY <3>3 DEF ClientEnds, ServerStep, Worker, ConcurrentWrite, Heartbeat, ConnectionLost,
           HandleLogin, ReadFrame, Take, StoreOwn, StorePeer, SendToGroup, SendAck, Fail, vars,
           clientVars
    <3> QED BY <1>4, <3>1, <3>2, <3>3, ThreadFacts
            DEF Next, MainStep, ResenderStep, ThreadStep, ClientEnds, ServerStep
  <2> QED BY <2>1, <2>2 DEF CancelInv
<1> QED BY <1>1, <1>2, <1>3, <1>4

-----------------------------------------------------------------------------
(* Copies and acknowledgements.                                            *)

Held(m) == IF wpc \in {"own", "peer", "group"} /\ job.msg = m THEN 1 ELSE 0
Budget(m) == resent[m] + (IF Sent(m) THEN 1 ELSE 0)

LEMMA CopyTypes ==
  ASSUME TypeOK, NEW m \in Msg
  PROVE  /\ peer[m] \in Nat /\ resent[m] \in Nat /\ Held(m) \in Nat /\ Budget(m) \in Nat
         /\ Frames(queue, m) \in Nat /\ Frames(wire, m) \in Nat
         /\ CopyInv => peer[m] + Frames(queue, m) + Frames(wire, m) + Held(m) <= Budget(m)
<1>1. peer[m] \in Nat
  BY DEF TypeOK
<1>2. resent[m] \in Nat
  <2>1. resent[m] \in 0 .. ResendMax
    BY DEF TypeOK
  <2> QED BY <2>1, MsgFacts
<1>3. Frames(queue, m) \in Nat /\ Frames(wire, m) \in Nat
  BY FramesFacts DEF TypeOK
<1>4. Held(m) \in Nat /\ Budget(m) \in Nat
  BY <1>2 DEF Held, Budget
<1>5. CopyInv => peer[m] + Frames(queue, m) + Frames(wire, m) + Held(m) <= Budget(m)
  BY DEF CopyInv, Held, Budget
<1> QED BY <1>1, <1>2, <1>3, <1>4, <1>5

\* A row is made from a frame, and a frame from a draw: what the step takes
\* from one place it puts into one other at most.
LEMMA CopyKept ==
  ASSUME \A m \in Msg : peer'[m] + Frames(queue', m) + Frames(wire', m) + Held(m)' <= Budget(m)'
  PROVE  CopyInv'
BY DEF CopyInv, Held, Budget

LEMMA CopyStepKeeps ==
  TypeOK /\ ThreadInv /\ NumberInv /\ CopyInv /\ [Next]_vars => CopyInv'
<1> SUFFICES ASSUME TypeOK, ThreadInv, NumberInv, CopyInv, [Next]_vars PROVE CopyInv'
  OBVIOUS
<1>t. /\ pc \in [Thread -> {"read", "off", "load", "store", "send", "register", "wait", "end"}]
      /\ wire \in Seq(Frame) /\ queue \in Seq(Frame) /\ typed \in {0} \cup Msg
      /\ resent \in [Msg -> 0 .. ResendMax] /\ peer \in [Msg -> Nat]
  BY DEF TypeOK
<1>n. typed \in Nat
  BY <1>t, MsgFacts
<1>1. CASE ReadLine
  <2>1. /\ pc[Main] = "read" /\ pc' = [pc EXCEPT ![Main] = "load"] /\ typed' = typed + 1
        /\ UNCHANGED <<resent, peer, queue, wire, job, wpc>>
    BY <1>1 DEF ReadLine, At, GoTo, netVars, serverVars, retryVars, windowVars, handlerVars, rowVars
  <2>2. pc'[Main] = "load"
    BY <1>t, <2>1, ThreadFacts
  <2>3. \A m \in Msg : Sent(m)' <=> Sent(m)
    BY <1>n, <2>1, <2>2, MsgFacts DEF Sent
  <2> QED BY <2>1, <2>3 DEF CopyInv
<1>2. CASE SendFrame(Main)
  <2> DEFINE f == [msg |-> Of(Main), id |-> upId[Of(Main)]]
  <2>1. /\ pc[Main] = "send" /\ pc' = [pc EXCEPT ![Main] = "register", ![typed] = "wait"]
        /\ wire' = Append(wire, f)
        /\ UNCHANGED <<typed, resent, peer, queue, job, wpc>>
    BY <1>2 DEF SendFrame, At, typing, serverVars, windowVars, handlerVars, rowVars
  <2>2. f \in Frame /\ f.msg = typed
    BY <1>2, FrameSent, ThreadFacts DEF Of
  <2> HIDE DEF f
  <2>3. typed \in Msg /\ ~Sent(typed) /\ resent[typed] = 0
    BY <2>1, AtWork, ThreadFacts DEF Drawing
  <2>4. pc'[Main] = "register"
    BY <1>t, <2>1, <2>3, ThreadFacts
  <2>5. \A m \in Msg : Sent(m)' <=> Sent(m) \/ m = typed
    BY <2>1, <2>4 DEF Sent
  <2>6. ASSUME NEW m \in Msg
        PROVE  peer'[m] + Frames(queue', m) + Frames(wire', m) + Held(m)' <= Budget(m)'
    <3>1. /\ Frames(wire', m) = Frames(wire, m) + (IF typed = m THEN 1 ELSE 0)
      BY <1>t, <2>1, <2>2, FramesAppend
    <3>2. Held(m)' = Held(m)
      BY <2>1 DEF Held
    <3>3. Budget(m)' = Budget(m) + (IF typed = m THEN 1 ELSE 0)
      BY <2>1, <2>3, <2>5, CopyTypes DEF Budget
    <3> QED BY <2>1, <3>1, <3>2, <3>3, CopyTypes
  <2> QED BY <2>6, CopyKept
<1>3. ASSUME NEW n \in Msg, SendFrame(n) PROVE CopyInv'
  <2> DEFINE f == [msg |-> Of(n), id |-> upId[Of(n)]]
  <2>1. /\ n # Main /\ pc[n] = "send" /\ pc' = [pc EXCEPT ![n] = "wait"]
        /\ wire' = Append(wire, f) /\ resent' = [resent EXCEPT ![n] = @ + 1]
        /\ UNCHANGED <<typed, peer, queue, job, wpc>>
    BY <1>3, ThreadFacts DEF SendFrame, At, GoTo, typing, serverVars, windowVars, handlerVars, rowVars
  <2>2. f \in Frame /\ f.msg = n
    BY <1>3, <2>1, FrameSent, ThreadFacts DEF Of
  <2> HIDE DEF f
  <2>3. pc'[Main] = pc[Main]
    BY <1>t, <2>1, ThreadFacts
  <2>4. \A m \in Msg : Sent(m)' <=> Sent(m)
    BY <2>1, <2>3 DEF Sent
  <2>5. ASSUME NEW m \in Msg
        PROVE  peer'[m] + Frames(queue', m) + Frames(wire', m) + Held(m)' <= Budget(m)'
    <3>1. Frames(wire', m) = Frames(wire, m) + (IF n = m THEN 1 ELSE 0)
      BY <1>t, <2>1, <2>2, FramesAppend
    <3>2. Held(m)' = Held(m)
      BY <2>1 DEF Held
    <3>3. resent'[m] = resent[m] + (IF n = m THEN 1 ELSE 0)
      <4>1. CASE n = m
        <5>1. resent'[m] = resent[m] + 1
          BY <1>t, <2>1, <4>1
        <5> QED BY <4>1, <5>1
      <4>2. CASE n # m
        <5>1. resent'[m] = resent[m] /\ resent[m] \in Nat
          BY <1>t, <2>1, <4>2, CopyTypes
        <5> QED BY <4>2, <5>1
      <4> QED BY <4>1, <4>2
    <3>4. Budget(m)' = Budget(m) + (IF n = m THEN 1 ELSE 0)
      BY <2>4, <3>3, CopyTypes DEF Budget
    <3> QED BY <2>1, <3>1, <3>2, <3>4, CopyTypes
  <2> QED BY <2>5, CopyKept
<1>4. ASSUME UNCHANGED <<typed, resent>>, \A m \in Msg : Sent(m)' <=> Sent(m)
      PROVE  \A m \in Msg : Budget(m)' = Budget(m)
  BY <1>4 DEF Budget
<1>5. ASSUME ServerStep PROVE UNCHANGED <<typed, resent>> /\ \A m \in Msg : Sent(m)' <=> Sent(m)
  <2>1. UNCHANGED <<pc, typed, resent>>
    BY <1>5 DEF ServerStep, Worker, HandleLogin, ReadFrame, Take, StoreOwn, StorePeer, SendToGroup,
         SendAck, Fail, clientVars, typing, retryVars
  <2> QED BY <2>1 DEF Sent
<1>6. CASE ReadFrame
  <2>1. /\ wire # <<>> /\ wire' = Tail(wire)
        /\ queue' = queue \/ queue' = Append(queue, Head(wire))
        /\ UNCHANGED <<peer, job, wpc>>
    BY <1>6 DEF ReadFrame, handlerVars, rowVars
  <2>2. Head(wire) \in Frame
    BY <1>t, <2>1, FirstFrame
  <2>3. ASSUME NEW m \in Msg
        PROVE  peer'[m] + Frames(queue', m) + Frames(wire', m) + Held(m)' <= Budget(m)'
    <3>1. Frames(wire, m) = Frames(wire', m) + (IF Head(wire).msg = m THEN 1 ELSE 0)
      BY <1>t, <2>1, FramesTail
    <3>2. \/ Frames(queue', m) = Frames(queue, m)
          \/ Frames(queue', m) = Frames(queue, m) + (IF Head(wire).msg = m THEN 1 ELSE 0)
      <4>1. Frames(Append(queue, Head(wire)), m)
              = Frames(queue, m) + (IF Head(wire).msg = m THEN 1 ELSE 0)
        BY <1>t, <2>2, FramesAppend
      <4> QED BY <2>1, <4>1
    <3>3. Frames(wire', m) \in Nat
      BY <1>t, <2>1, FirstFrame, FramesFacts
    <3>4. Held(m)' = Held(m)
      BY <2>1 DEF Held
    <3>5. Budget(m)' = Budget(m)
      BY <1>4, <1>5, <1>6 DEF ServerStep
    <3> QED BY <2>1, <3>1, <3>2, <3>3, <3>4, <3>5, CopyTypes
  <2> QED BY <2>3, CopyKept
<1>7. CASE Take
  <2>1. /\ wpc = "idle" /\ queue # <<>> /\ queue' = Tail(queue)
        /\ wpc' = "idle" \/ job' = Head(queue)
        /\ UNCHANGED <<peer, wire>>
    BY <1>7 DEF Take, handlerVars, rowVars, netVars
  <2>2. ASSUME NEW m \in Msg
        PROVE  peer'[m] + Frames(queue', m) + Frames(wire', m) + Held(m)' <= Budget(m)'
    <3>1. Frames(queue, m) = Frames(queue', m) + (IF Head(queue).msg = m THEN 1 ELSE 0)
      BY <1>t, <2>1, FramesTail
    <3>2. Frames(queue', m) \in Nat
      BY <1>t, <2>1, FirstFrame, FramesFacts
    <3>3. Held(m) = 0 /\ Held(m)' \in {0, IF Head(queue).msg = m THEN 1 ELSE 0}
      BY <2>1 DEF Held
    <3>4. Budget(m)' = Budget(m)
      BY <1>4, <1>5, <1>7 DEF ServerStep, Worker
    <3> QED BY <2>1, <3>1, <3>2, <3>3, <3>4, CopyTypes
  <2> QED BY <2>2, CopyKept
<1>8. CASE StorePeer \/ SendToGroup \/ Fail
  <2>1. /\ wpc \in {"own", "peer", "group"} /\ wpc' \in {"idle", "ack", "gone"}
        /\ peer' = peer \/ peer' = OneMore(peer)
        /\ UNCHANGED <<queue, wire>>
    BY <1>8 DEF StorePeer, SendToGroup, Fail, Return, windowVars, netVars
  <2>2. job.msg \in Msg
    BY <2>1 DEF ThreadInv, Frame
  <2>3. ASSUME NEW m \in Msg
        PROVE  peer'[m] + Frames(queue', m) + Frames(wire', m) + Held(m)' <= Budget(m)'
    <3>1. Held(m)' = 0 /\ Held(m) = IF job.msg = m THEN 1 ELSE 0
      BY <2>1 DEF Held
    <3>2. peer'[m] = peer[m] \/ peer'[m] = peer[m] + (IF job.msg = m THEN 1 ELSE 0)
      BY <1>t, <2>1, <2>2, CopyTypes DEF OneMore
    <3>3. Budget(m)' = Budget(m)
      BY <1>4, <1>5, <1>8 DEF ServerStep, Worker
    <3> QED BY <2>1, <3>1, <3>2, <3>3, CopyTypes
  <2> QED BY <2>3, CopyKept
<1>9. CASE StoreOwn \/ SendAck \/ HandleLogin
  <2>1. /\ UNCHANGED <<queue, wire, peer>>
        /\ \/ UNCHANGED <<job, wpc>>
           \/ wpc' = "idle"
           \/ wpc = "own" /\ wpc' \in {"peer", "group"} /\ job' = job
    BY <1>9 DEF StoreOwn, SendAck, HandleLogin, Return, handlerVars, rowVars, windowVars, netVars
  <2>2. ASSUME NEW m \in Msg
        PROVE  peer'[m] + Frames(queue', m) + Frames(wire', m) + Held(m)' <= Budget(m)'
    <3>1. Held(m)' \in {0, Held(m)}
      BY <2>1 DEF Held
    <3>2. Budget(m)' = Budget(m)
      BY <1>4, <1>5, <1>9 DEF ServerStep, Worker
    <3> QED BY <2>1, <3>1, <3>2, CopyTypes
  <2> QED BY <2>2, CopyKept
<1>10. CASE ~ReadLine /\ ~(\E t \in Thread : SendFrame(t)) /\ ~ServerStep
  <2>1. UNCHANGED <<typed, resent, peer, queue, wire, job, wpc>>
    BY <1>10, ThreadFacts
       DEF Next, MainStep, ResenderStep, ThreadStep, ServerStep, LoadId, StoreId, Register, Tick,
           Cancelled, ReceiveAck, ConcurrentWrite, Heartbeat, ConnectionLost, vars, clientVars,
           typing, retryVars, netVars, serverVars, windowVars, handlerVars, rowVars
  <2>2. (pc[Main] \in {"register", "read"}) <=> (pc'[Main] \in {"register", "read"})
    <3>1. ASSUME NEW t \in Thread, LoadId(t) \/ StoreId(t)
          PROVE  (pc[Main] \in {"register", "read"}) <=> (pc'[Main] \in {"register", "read"})
      <4>1. pc[t] \in Drawing /\ \E p \in {"store", "send"} : pc' = [pc EXCEPT ![t] = p]
        BY <3>1 DEF LoadId, StoreId, At, GoTo, Drawing
      <4> QED BY <1>t, <4>1, ThreadFacts DEF Drawing
    <3>2. ASSUME NEW m \in Msg, Tick(m) \/ Cancelled(m)
          PROVE  pc'[Main] = pc[Main]
      BY <1>t, <3>2, ThreadFacts DEF Tick, Cancelled, GoTo
    <3>3. ASSUME Register PROVE pc[Main] = "register" /\ pc'[Main] = "read"
      BY <1>t, <3>3, ThreadFacts DEF Register, At, GoTo
    <3>4. ASSUME ReceiveAck \/ ClientEnds \/ UNCHANGED vars PROVE pc' = pc
      BY <3>4 DEF ReceiveAck, ClientEnds, ConcurrentWrite, Heartbeat, ConnectionLost, vars, clientVars
    <3> QED BY <1>10, <3>1, <3>2, <3>3, <3>4, ThreadFacts
            DEF Next, MainStep, ResenderStep, ThreadStep, ClientEnds, ServerStep
  <2>3. \A m \in Msg : Sent(m)' <=> Sent(m)
    BY <2>1, <2>2 DEF Sent
  <2> QED BY <2>1, <2>3 DEF CopyInv
<1> QED BY <1>1, <1>2, <1>3, <1>6, <1>7, <1>8, <1>9, <1>10 DEF ServerStep, Worker, Thread

LEMMA AckStepKeeps == TypeOK /\ ThreadInv /\ AckInv /\ [Next]_vars => AckInv'
<1> SUFFICES ASSUME TypeOK, ThreadInv, AckInv, [Next]_vars PROVE AckInv'
  OBVIOUS
<1>t. acks \in Seq(Frame) /\ own \in [Msg -> Nat] /\ peer \in [Msg -> Nat]
  BY DEF TypeOK
<1>j. wpc # "idle" => job \in Frame /\ job.msg \in Msg
  BY DEF ThreadInv, Frame
<1>k. ASSUME NEW k \in 1 .. Len(acks) PROVE acks[k].msg \in Msg
  <2>1. acks[k] \in Frame
    BY <1>t
  <2> QED BY <2>1 DEF Frame
<1>1. CASE ReceiveAck
  <2>1. /\ acks # <<>> /\ acks' = Tail(acks)
        /\ UNCHANGED <<own, peer, kind, job, wpc>>
    BY <1>1 DEF ReceiveAck, serverVars, handlerVars, rowVars, typing
  <2>2. \A k \in 1 .. Len(acks') : k + 1 \in 1 .. Len(acks) /\ acks'[k] = acks[k + 1]
    BY <1>t, <2>1, Beheaded
  <2> QED BY <2>1, <2>2 DEF AckInv, Stored
<1>2. CASE SendAck
  <2>1. /\ wpc = "ack" /\ job \in Frame /\ acks' = Append(acks, job) /\ wpc' = "idle"
        /\ UNCHANGED <<own, peer, kind>>
    BY <1>2, <1>j DEF SendAck, Return, rowVars, clientVars, typing
  <2>2. \A k \in 1 .. Len(acks') : acks'[k] = job \/ (k \in 1 .. Len(acks) /\ acks'[k] = acks[k])
    BY <1>t, <2>1, Appended
  <2> QED BY <2>1, <2>2 DEF AckInv, Stored
<1>3. CASE StoreOwn \/ StorePeer \/ SendToGroup \/ Fail
  <2>1. job.msg \in Msg /\ acks' = acks /\ kind' = kind
    BY <1>3, <1>j DEF StoreOwn, StorePeer, SendToGroup, Fail, netVars, clientVars, typing
  <2>2. own' \in {own, OneMore(own)} /\ peer' \in {peer, OneMore(peer)}
    BY <1>3 DEF StoreOwn, StorePeer, SendToGroup, Fail
  <2>3. \A m \in Msg : (own[m] > 0 => own'[m] > 0) /\ (peer[m] > 0 => peer'[m] > 0)
    BY <1>t, <2>1, <2>2 DEF OneMore
  <2>4. ASSUME NEW m \in Msg, Stored(m)
        PROVE  own'[m] > 0 /\ (kind'[m] # "group" => peer'[m] > 0)
    BY <2>1, <2>3, <2>4 DEF Stored
  <2>5. ASSUME NEW k \in 1 .. Len(acks')
        PROVE  LET m == acks'[k].msg IN own'[m] > 0 /\ (kind'[m] # "group" => peer'[m] > 0)
    <3>1. PICK m \in Msg : m = acks[k].msg
      BY <1>k, <2>1
    <3>2. Stored(m)
      BY <2>1, <3>1 DEF AckInv
    <3> QED BY <2>1, <2>4, <3>1, <3>2
  <2>6. OneMore(own)[job.msg] > 0 /\ OneMore(peer)[job.msg] > 0
    BY <1>t, <2>1 DEF OneMore
  <2>7. CASE StoreOwn
    BY <2>1, <2>5, <2>6, <2>7 DEF StoreOwn, Return, AckInv, Stored
  <2>8. CASE StorePeer
    <3>1. own[job.msg] > 0 /\ kind[job.msg] = "peer"
      BY <2>8 DEF StorePeer, AckInv
    <3>2. wpc' = "ack" /\ UNCHANGED <<job, own>> /\ peer' = OneMore(peer)
      BY <2>8 DEF StorePeer
    <3> QED BY <2>1, <2>5, <2>6, <3>1, <3>2 DEF AckInv, Stored
  <2>9. CASE SendToGroup
    <3>1. own[job.msg] > 0 /\ kind[job.msg] = "group"
      BY <2>9 DEF SendToGroup, AckInv
    <3>2. wpc' \in {"ack", "gone"} /\ UNCHANGED <<job, own>>
      BY <2>9 DEF SendToGroup
    <3> QED BY <2>1, <2>5, <3>1, <3>2 DEF AckInv, Stored
  <2>10. CASE Fail
    BY <2>5, <2>10 DEF Fail, Return, AckInv, Stored
  <2> QED BY <1>3, <2>7, <2>8, <2>9, <2>10
<1>4. CASE ~ReceiveAck /\ ~SendAck /\ ~StoreOwn /\ ~StorePeer /\ ~SendToGroup /\ ~Fail
  <2>1. /\ UNCHANGED <<acks, own, peer, kind>>
        /\ wpc' \in {"idle", "own"} \/ UNCHANGED <<wpc, job>>
    BY <1>4 DEF Next, MainStep, ResenderStep, ThreadStep, Worker, ReadLine, LoadId, StoreId, SendFrame,
         Register, Tick, Cancelled, ConcurrentWrite, Heartbeat, ConnectionLost, HandleLogin,
         ReadFrame, Take, vars, netVars, serverVars, windowVars, handlerVars, rowVars, clientVars, typing
  <2> QED BY <2>1 DEF AckInv, Stored
<1> QED BY <1>1, <1>2, <1>3, <1>4

-----------------------------------------------------------------------------
(* The theorems.                                                           *)

LEMMA InitHolds == Init => UInv
<1> SUFFICES ASSUME Init PROVE UInv
  OBVIOUS
<1>1. TypeOK
  <2>1. /\ kind \in Mixes /\ paced \in BOOLEAN /\ loggedIn \in BOOLEAN
    BY BoundAssumption DEF Init
  <2>2. /\ resent \in [Msg -> 0 .. ResendMax] /\ faults \in 0 .. MaxFaults
    BY MsgFacts DEF Init
  <2>3. /\ wire \in Seq(Frame) /\ acks \in Seq(Frame) /\ queue \in Seq(Frame)
    BY DEF Init
  <2> QED BY <2>1, <2>2, <2>3 DEF Init, TypeOK
<1>2. \A m \in Msg : ~Sent(m) /\ ~Drew(m) /\ pc[m] = "off" /\ resent[m] = 0 /\ upId[m] = 0
  <2> SUFFICES ASSUME NEW m \in Msg
               PROVE  ~Sent(m) /\ ~Drew(m) /\ pc[m] = "off" /\ resent[m] = 0 /\ upId[m] = 0
    OBVIOUS
  <2>1. m \in Nat /\ m # 0 /\ typed = 0
    BY MsgFacts DEF Init
  <2>2. ~Sent(m) /\ ~Drew(m)
    BY <2>1 DEF Sent, Drew
  <2>3. pc[m] = "off" /\ resent[m] = 0 /\ upId[m] = 0
    BY ThreadFacts DEF Init
  <2> QED BY <2>2, <2>3
<1>3. pc[Main] = "read" /\ \A t \in Thread : pc[t] \in {"read", "off"} /\ reg[t] = 0
  <2>1. pc = [t \in Thread |-> IF t = Main THEN "read" ELSE "off"] /\ reg = [t \in Thread |-> 0]
    BY DEF Init
  <2>2. pc[Main] = "read"
    BY <2>1, ThreadFacts
  <2>3. \A t \in Thread : pc[t] \in {"read", "off"} /\ reg[t] = 0
    BY <2>1
  <2> QED BY <2>2, <2>3
<1>4. ThreadInv
  <2>1. wpc = "idle"
    BY DEF Init
  <2>2. \A m \in Msg : ~(resent[m] > 0)
    BY <1>2
  <2> QED BY <1>2, <1>3, <2>1, <2>2 DEF ThreadInv, Drawing
<1>5. NumberInv
  <2>1. Cardinality(Draws) \in Nat
    BY DrawsBounded, DrawsAre
  <2>2. clientId = 0
    BY DEF Init
  <2>3. clientId <= Cardinality(Draws) /\ \A t \in Thread : reg[t] <= Cardinality(Draws)
    BY <1>3, <2>1, <2>2
  <2>4. \A m \in Msg : upId[m] <= Cardinality(Draws) /\ (Drew(m) => upId[m] # 0)
    BY <1>2, <2>1
  <2> QED BY <2>3, <2>4 DEF NumberInv
<1>6. PacedInv
  BY <1>2, <1>3 DEF PacedInv, Resending
<1>7. WindowInv
  <2>1. Drawn = {}
    BY <1>3 DEF Drawn
  <2> QED BY <2>1 DEF WindowInv, Init
<1>8. OwnerInv
  <2>1. \A i \in Id, m \in Msg : ~Names(i, m)
    BY <1>2, MsgFacts DEF Names, In, Init, NoMsg
  <2> QED BY <2>1 DEF OwnerInv
<1>9. CancelInv
  BY DEF CancelInv, Init
<1>10. CopyInv
  <2>1. \A m \in Msg : Frames(<<>>, m) = 0
    <3> SUFFICES ASSUME NEW m \in Msg PROVE Frames(<<>>, m) = 0
      OBVIOUS
    <3>1. {k \in 1 .. Len(<<>>) : (<<>>)[k].msg = m} = {}
      OBVIOUS
    <3> QED BY <3>1, FS_EmptySet DEF Frames
  <2> QED BY <1>2, <2>1 DEF CopyInv, Init
<1>11. AckInv
  BY DEF AckInv, Init
<1> QED BY <1>1, <1>4, <1>5, <1>6, <1>7, <1>8, <1>9, <1>10, <1>11 DEF UInv

LEMMA NextKeeps == UInv /\ [Next]_vars => UInv'
<1> SUFFICES ASSUME UInv, [Next]_vars PROVE UInv'
  OBVIOUS
<1> USE DEF UInv
<1>1. ThreadInv' /\ NumberInv'
  BY ThreadStepKeeps, NumberStepKeeps
<1>2. TypeOK'
  BY <1>1, TypeStepKeeps
<1>3. PacedInv' /\ WindowInv' /\ OwnerInv'
  BY PacedStepKeeps, WindowStepKeeps, OwnerStepKeeps
<1>4. CancelInv' /\ CopyInv' /\ AckInv'
  BY CancelStepKeeps, CopyStepKeeps, AckStepKeeps
<1> QED BY <1>1, <1>2, <1>3, <1>4

\* Every step of the client and of the server keeps the inductive invariant.
THEOREM UplinkInvariance == Spec => []UInv
BY InitHolds, NextKeeps, PTL DEF Spec

\* No counter leaves its range: in particular no client draws more numbers
\* than it may send frames (client.go:110-130).
THEOREM UplinkTypeCorrect == Spec => []TypeOK
<1>1. UInv => TypeOK
  BY DEF UInv
<1> QED BY <1>1, UplinkInvariance, PTL

\* What is in flight, frame by frame.
LEMMA InFlightFrames ==
  ASSUME TypeOK
  PROVE  /\ Len(InFlight) = Len(queue) + Len(wire)
         /\ \A i \in 1 .. Len(InFlight) :
              \/ i \in 1 .. Len(queue) /\ InFlight[i] = queue[i]
              \/ \E j \in 1 .. Len(wire) : i = Len(queue) + j /\ InFlight[i] = wire[j]
<1>t. /\ wire \in Seq(Frame) /\ queue \in Seq(Frame)
      /\ Len(wire) \in Nat /\ Len(queue) \in Nat
  BY DEF TypeOK
<1>1. /\ Len(InFlight) = Len(queue) + Len(wire)
      /\ \A i \in 1 .. Len(queue) : InFlight[i] = queue[i]
      /\ \A j \in 1 .. Len(wire) : InFlight[Len(queue) + j] = wire[j]
  BY <1>t DEF InFlight
<1>2. ASSUME NEW i \in 1 .. Len(InFlight), i \notin 1 .. Len(queue)
      PROVE  \E j \in 1 .. Len(wire) : i = Len(queue) + j /\ InFlight[i] = wire[j]
  <2>1. i - Len(queue) \in 1 .. Len(wire) /\ i = Len(queue) + (i - Len(queue))
    BY <1>t, <1>1, <1>2
  <2> QED BY <1>1, <2>1
<1> QED BY <1>1, <1>2

\* If the goroutines keep up and no frame came before its Login was handled,
\* the window between the client's counter and the server's is never lost
\* (client.go:224, conn.go:279).
THEOREM WindowStaysOpen == Spec => []WindowOpen
<1>1. UInv => WindowOpen
  <2> SUFFICES ASSUME UInv, paced, ~dropped
               PROVE  /\ \A i \in 1 .. Len(InFlight) : InFlight[i].id = maxClientId + i
                      /\ \A t, u \in Drawn : t = u
                      /\ clientId = maxClientId + Len(InFlight) + (IF Drawn = {} THEN 0 ELSE 1)
    BY DEF WindowOpen
  <2>t. /\ TypeOK /\ Len(wire) \in Nat /\ Len(queue) \in Nat /\ maxClientId \in Nat
    BY MsgFacts DEF UInv, TypeOK
  <2>w. WindowInv
    BY DEF UInv
  <2>1. ASSUME NEW i \in 1 .. Len(InFlight) PROVE InFlight[i].id = maxClientId + i
    <3>1. CASE i \in 1 .. Len(queue) /\ InFlight[i] = queue[i]
      BY <2>w, <3>1 DEF WindowInv
    <3>2. CASE \E j \in 1 .. Len(wire) : i = Len(queue) + j /\ InFlight[i] = wire[j]
      <4>1. PICK j \in 1 .. Len(wire) : i = Len(queue) + j /\ InFlight[i] = wire[j]
        BY <3>2
      <4>2. wire[j].id = maxClientId + Len(queue) + j
        BY <2>w DEF WindowInv
      <4> QED BY <2>t, <4>1, <4>2
    <3> QED BY <2>t, <3>1, <3>2, InFlightFrames
  <2>2. \A t, u \in Drawn : t = u
    BY OneDraws DEF UInv, Drawn, Drawing
  <2>3. Len(InFlight) = Len(queue) + Len(wire)
    BY <2>t, InFlightFrames
  <2>4. clientId = maxClientId + Len(queue) + Len(wire) + (IF Drawn = {} THEN 0 ELSE 1)
    BY <2>w DEF WindowInv
  <2>5. clientId = maxClientId + Len(InFlight) + (IF Drawn = {} THEN 0 ELSE 1)
    <3>1. maxClientId + Len(InFlight) = maxClientId + Len(queue) + Len(wire)
      BY <2>t, <2>3
    <3> QED BY <2>4, <3>1
  <2> QED BY <2>1, <2>2, <2>5
<1> QED BY <1>1, UplinkInvariance, PTL

\* If the goroutines keep up, no acknowledgement stops the resends of a
\* message other than its own (client.go:129, 218).
THEOREM CancelOnlyOwn == Spec => []CancelIsMine
<1>1. UInv => CancelIsMine
  <2> SUFFICES ASSUME UInv, NEW i \in Id, paced, cancel[i] # NoMsg
               PROVE  /\ \A j \in Id \ {i} : cancel[j] # cancel[i]
                      /\ FramesOf(i) \subseteq {cancel[i]}
                      /\ \A k \in 1 .. Len(acks) : acks[k].id = i => acks[k].msg = cancel[i]
                      /\ wpc # "idle" /\ job.id = i => job.msg = cancel[i]
    BY DEF CancelIsMine
  <2>t. /\ TypeOK /\ wire \in Seq(Frame) /\ queue \in Seq(Frame) /\ acks \in Seq(Frame)
        /\ cancel \in [Id -> {NoMsg} \cup Msg]
    BY DEF UInv, TypeOK
  <2>1. cancel[i] \in Msg /\ Names(i, cancel[i])
    BY <2>t DEF Names
  <2>2. \A n \in Msg : Names(i, n) => n = cancel[i]
    BY <2>1 DEF UInv, OwnerInv
  <2>3. \A j \in Id \ {i} : cancel[j] # cancel[i]
    BY DEF UInv, CancelInv
  <2>4. FramesOf(i) \subseteq {cancel[i]}
    <3> SUFFICES ASSUME NEW k \in 1 .. Len(InFlight), InFlight[k].id = i
                 PROVE  InFlight[k].msg = cancel[i]
      BY DEF FramesOf
    <3>1. CASE k \in 1 .. Len(queue) /\ InFlight[k] = queue[k]
      <4>1. queue[k] \in Frame
        BY <2>t, <3>1
      <4>2. queue[k].msg \in Msg /\ Names(i, queue[k].msg)
        BY <3>1, <4>1 DEF Frame, Names, In
      <4> QED BY <2>2, <3>1, <4>2
    <3>2. CASE \E j \in 1 .. Len(wire) : k = Len(queue) + j /\ InFlight[k] = wire[j]
      <4>1. PICK j \in 1 .. Len(wire) : InFlight[k] = wire[j]
        BY <3>2
      <4>2. wire[j] \in Frame
        BY <2>t
      <4>3. wire[j].msg \in Msg /\ Names(i, wire[j].msg)
        BY <4>1, <4>2 DEF Frame, Names, In
      <4> QED BY <2>2, <4>1, <4>3
    <3> QED BY <2>t, <3>1, <3>2, InFlightFrames
  <2>5. ASSUME NEW k \in 1 .. Len(acks), acks[k].id = i PROVE acks[k].msg = cancel[i]
    <3>1. acks[k] \in Frame
      BY <2>t
    <3>2. acks[k].msg \in Msg /\ Names(i, acks[k].msg)
      BY <2>5, <3>1 DEF Frame, Names, In
    <3> QED BY <2>2, <3>2
  <2>6. ASSUME wpc # "idle", job.id = i PROVE job.msg = cancel[i]
    <3>1. job.msg \in Msg /\ Names(i, job.msg)
      BY <2>6 DEF UInv, ThreadInv, Frame, Names
    <3> QED BY <2>2, <3>1
  <2> QED BY <2>3, <2>4, <2>5, <2>6
<1> QED BY <1>1, UplinkInvariance, PTL

-----------------------------------------------------------------------------
(* The refinement.                                                         *)

\* A row for the receiver is made of a frame, so its message was sent, and
\* there is room for the copy.
LEMMA RoomForCopy ==
  ASSUME UInv, wpc \in {"peer", "group"}
  PROVE  job.msg \in Msg /\ job.msg \in 1 .. typed /\ peer[job.msg] < 1 + ResendMax
<1> DEFINE m == job.msg
<1>1. m \in Msg /\ TypeOK /\ CopyInv
  BY DEF UInv, ThreadInv, Frame
<1>2. Held(m) = 1
  BY DEF Held
<1>3. /\ peer[m] \in Nat /\ resent[m] \in Nat /\ Frames(queue, m) \in Nat /\ Frames(wire, m) \in Nat
      /\ peer[m] + Frames(queue, m) + Frames(wire, m) + 1 <= Budget(m)
  BY <1>1, <1>2, CopyTypes
<1>4. peer[m] + 1 <= Budget(m) /\ Budget(m) \in {resent[m], resent[m] + 1}
  BY <1>3 DEF Budget
<1>5. Sent(m)
  <2>1. CASE resent[m] > 0
    BY <1>1, <2>1 DEF UInv, ThreadInv
  <2>2. CASE resent[m] = 0
    BY <1>3, <1>4, <2>2 DEF Budget
  <2> QED BY <1>3, <2>1, <2>2
<1>6. m \in 1 .. typed
  <2>1. typed \in {0} \cup Msg
    BY <1>1 DEF TypeOK
  <2>2. typed \in Nat /\ m \in Nat /\ m >= 1
    BY <1>1, <2>1, MsgFacts DEF Msg
  <2> QED BY <1>5, <2>2 DEF Sent
<1>7. peer[m] < 1 + ResendMax
  <2>1. resent[m] \in 0 .. ResendMax
    BY <1>1 DEF TypeOK
  <2> QED BY <1>3, <1>4, <2>1, MsgFacts
<1> QED BY <1>1, <1>6, <1>7

LEMMA ContractInit == Init => Contract!Init
<1> SUFFICES ASSUME Init PROVE Contract!Init
  OBVIOUS
<1>1. typed = 0 /\ peer = [m \in Msg |-> 0] /\ ctxDone = {}
  BY DEF Init
<1>2. 1 .. typed = {}
  BY <1>1
<1> QED BY <1>1, <1>2 DEF Contract!Init

LEMMA ContractStep == UInv /\ [Next]_vars => [Contract!Next]_(Contract!vars)
<1> SUFFICES ASSUME UInv, [Next]_vars PROVE [Contract!Next]_(Contract!vars)
  OBVIOUS
<1>t. /\ TypeOK /\ typed \in Nat /\ acks \in Seq(Frame)
      /\ cancel \in [Id -> {NoMsg} \cup Msg]
  BY MsgFacts DEF UInv, TypeOK
<1>1. CASE ReadLine
  <2>1. /\ typed < MaxMsgs /\ typed' = typed + 1
        /\ UNCHANGED <<peer, ctxDone, paced, kind>>
    BY <1>1 DEF ReadLine, retryVars, serverVars, rowVars
  <2>2. /\ typed + 1 \in Msg /\ typed + 1 \notin 1 .. typed
        /\ 1 .. typed' = (1 .. typed) \cup {typed + 1}
    BY <1>t, <2>1, MsgFacts DEF Msg
  <2>3. Contract!Give(typed + 1)
    BY <2>1, <2>2 DEF Contract!Give
  <2> QED BY <2>2, <2>3 DEF Contract!Next
<1>2. ASSUME wpc \in {"peer", "group"}, peer' = OneMore(peer),
             UNCHANGED <<typed, ctxDone, paced, kind>>
      PROVE  Contract!Next
  <2>1. job.msg \in Msg /\ job.msg \in 1 .. typed /\ peer[job.msg] < 1 + ResendMax
    BY <1>2, RoomForCopy
  <2>2. peer' = [peer EXCEPT ![job.msg] = @ + 1]
    BY <1>2 DEF OneMore
  <2>3. Contract!Store(job.msg)
    BY <1>2, <2>1, <2>2 DEF Contract!Store
  <2> QED BY <2>1, <2>3 DEF Contract!Next
<1>3. CASE StorePeer \/ SendToGroup \/ Fail
  <2>1. /\ UNCHANGED <<typed, ctxDone, paced, kind>>
        /\ peer' = peer \/ (wpc \in {"peer", "group"} /\ peer' = OneMore(peer))
    BY <1>3 DEF StorePeer, SendToGroup, Fail, clientVars, typing, retryVars
  <2> QED BY <1>2, <2>1 DEF Contract!vars
<1>4. CASE ReceiveAck
  <2>1. /\ acks # <<>> /\ UNCHANGED <<typed, peer, paced, kind>>
        /\ ctxDone' = IF cancel[Head(acks).id] = NoMsg THEN ctxDone
                                                      ELSE ctxDone \cup {cancel[Head(acks).id]}
    BY <1>4 DEF ReceiveAck, serverVars, rowVars, typing
  <2>2. CASE ctxDone' = ctxDone \/ ~paced
    BY <2>1, <2>2 DEF Contract!vars
  <2>3. CASE ctxDone' # ctxDone /\ paced /\ kind[cancel[Head(acks).id]] = "group"
    BY <2>1, <2>3 DEF Contract!vars
  <2>4. CASE ctxDone' # ctxDone /\ paced /\ kind[cancel[Head(acks).id]] # "group"
    <3>1. Head(acks).id \in Id /\ Head(acks).msg \in Msg
      BY <1>t, <2>1, FirstFrame
    <3>2. PICK i \in Id : i = Head(acks).id
      BY <3>1
    <3>3. cancel[i] \in Msg /\ cancel[i] \notin ctxDone /\ ctxDone' = ctxDone \cup {cancel[i]}
      BY <1>t, <2>1, <2>4, <3>2
    <3>4. Names(i, cancel[i])
      BY <3>3 DEF Names
    <3>5. Names(i, Head(acks).msg)
      BY <1>t, <2>1, <3>2, InBeheaded DEF Names
    <3>6. Head(acks).msg = cancel[i]
      BY <2>4, <3>1, <3>3, <3>4, <3>5 DEF UInv, OwnerInv
    <3>7. peer[cancel[i]] > 0
      <4>1. 1 \in 1 .. Len(acks) /\ Head(acks) = acks[1]
        BY <1>t, <2>1, Beheaded
      <4> QED BY <2>4, <3>2, <3>6, <4>1 DEF UInv, AckInv, Stored
    <3>8. PICK m \in Msg : m = cancel[i]
      BY <3>3
    <3>9. Contract!Report(m)
      BY <2>1, <2>4, <3>2, <3>3, <3>7, <3>8 DEF Contract!Report
    <3> QED BY <3>9 DEF Contract!Next
  <2> QED BY <2>2, <2>3, <2>4
<1>5. CASE ~ReadLine /\ ~StorePeer /\ ~SendToGroup /\ ~Fail /\ ~ReceiveAck
  <2>1. UNCHANGED <<typed, peer, ctxDone, paced, kind>>
    BY <1>5, ThreadFacts
       DEF Next, MainStep, ResenderStep, ThreadStep, Worker, LoadId, StoreId, SendFrame, Register,
           Tick, Cancelled, ConcurrentWrite, Heartbeat, ConnectionLost, HandleLogin, ReadFrame, Take,
           StoreOwn, SendAck, vars, clientVars, typing, retryVars, serverVars, rowVars
  <2> QED BY <2>1 DEF Contract!vars
<1> QED BY <1>1, <1>3, <1>4, <1>5

\* A typed message is stored for its receiver, or for its group, at most
\* 1 + ResendCountMax times, and one to a user is reported only once it is; of
\* one to a group the acknowledgement says nothing.  Every step of the uplink is
\* a step of AtLeastOnce, or none (client.go:116-123, 217-220; req.go:115-147,
\* message.go:153-157).
THEOREM AtLeastOnceImplemented == Spec => StoredBeforeReported
BY ContractInit, ContractStep, UplinkInvariance, PTL
   DEF Spec, StoredBeforeReported, Contract!Spec
=============================================================================
