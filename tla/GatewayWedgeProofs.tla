------------------------- MODULE GatewayWedgeProofs -------------------------
(***************************************************************************)
(* Proofs of what also needs to know where threads start (FreshInv): that  *)
(* the circle of waits Wedged(c) is for ever (IsAlive, Stop, SendMsg and   *)
(* the writer of one connection, each waiting for the next), and that a    *)
(* session stays registered while its user has no other.                   *)
(***************************************************************************)
EXTENDS GatewayProofs

\* A Conn that has not been connected and a server that runs.
LEMMA FreshStep == IInv /\ FreshInv /\ [Next]_vars => FreshInv'
<1> SUFFICES ASSUME IInv, FreshInv, [Next]_vars PROVE FreshInv'
  OBVIOUS
<1>1. PcOK /\ OutOK
  BY DEF IInv, TypeOK
<1>2. ASSUME NEW t \in Thread, NEW l, l # "new", Goto(t, l), UNCHANGED <<writer, shutdown>>,
             (\E c \in Conn : t = Closer(c)) => pc[t] # "idle"
      PROVE  FreshInv'
  BY <1>1, <1>2, GotoFacts, ThreadKinds, ThreadsDiffer DEF FreshInv
<1>3. CASE \E c \in Conn : Connect(c)
  <2>1. PICK c \in Conn : Connect(c)
    BY <1>3
  <2>2. /\ pc'[Reader(c)] = "read"
        /\ \A x \in Thread : x # Reader(c) => pc'[x] = pc[x]
    BY <1>1, <2>1, GotoFacts, ThreadKinds DEF Connect
  <2>3. \A d \in Conn : d # c => writer'[d] = writer[d]
    BY <1>1, <2>1 DEF Connect, OutOK
  <2>4. QED
    BY <2>1, <2>2, <2>3, ThreadKinds, ThreadsDiffer DEF FreshInv, Connect, procVars
<1>4. CASE \E c \in Conn : ReadFrame(c) \/ ReaderKeepLive(c) \/ Enqueue(c) \/ ReadError(c)
  <2>1. PICK c \in Conn : ReadFrame(c) \/ ReaderKeepLive(c) \/ Enqueue(c) \/ ReadError(c)
    BY <1>4
  <2>2. UNCHANGED <<writer, shutdown>>
    BY <2>1 DEF ReadFrame, ReaderKeepLive, Enqueue, ReadError, outVars, procVars
  <2>3. UNCHANGED pc => FreshInv'
    BY <2>2 DEF FreshInv
  <2>4. QED
    BY <1>2, <2>1, <2>2, <2>3, ThreadKinds, ThreadsDiffer
       DEF ReadFrame, ReaderKeepLive, Enqueue, ReadError
<1>5. CASE \E c \in Conn : WriterStep(c)
  <2>1. PICK c \in Conn : WriterStep(c)
    BY <1>5
  <2>2. UNCHANGED <<pc, shutdown>> /\ writer[c] # "none"
    BY <2>1 DEF WriterStep, WriterRecv, WriterTick, WriterFlush, WriterKeepLive, WriterExit,
       procVars
  <2>3. \A d \in Conn : d # c => writer'[d] = writer[d]
    BY <1>1, <2>1 DEF OutOK, WriterStep, WriterRecv, WriterTick, WriterFlush,
       WriterKeepLive, WriterExit
  <2>4. QED
    BY <2>2, <2>3 DEF FreshInv
<1>6. CASE \E t \in Thread : Stop(t)
  <2>1. PICK t \in Thread : Stop(t)
    BY <1>6
  <2>2. UNCHANGED <<writer, shutdown>> /\ pc[t] # "idle"
    BY <2>1 DEF Stop, StopLock, StopAgain, StopEnter, StopUnmap, StopOffline, StopFinish,
       outVars, procVars
  <2>3. \E l : l # "new" /\ Goto(t, l)
    BY <2>1, ThreadKinds, ReturnKinds
       DEF Stop, StopLock, StopAgain, StopEnter, StopUnmap, StopOffline, StopFinish,
           ReturnFromStop
  <2>4. QED
    BY <1>2, <2>2, <2>3
<1>7. CASE \E w \in Worker : WorkerStep(w)
  <2>1. PICK w \in Worker : WorkerStep(w)
    BY <1>7
  <2>2. UNCHANGED <<writer, shutdown>>
    BY <2>1 DEF WorkerStep, SkipReq, StartLogin, StartMessage, StartSync, LoginGet, LoginSet,
       LoginUser, LoginAdd, Lookup, Deliver, SendLock, SendLoad, SendPut, outVars, procVars
  <2>3. UNCHANGED pc \/ \E l : l # "new" /\ Goto(Pooled(w), l)
    BY <2>1 DEF WorkerStep, SkipReq, StartLogin, StartMessage, StartSync, LoginGet, LoginSet,
       LoginUser, LoginAdd, Lookup, Deliver, SendLock, SendLoad, SendPut, SendReturn,
       SendAck, CallSendMsg, Finish
  <2>4. QED
    BY <1>2, <2>2, <2>3, ThreadKinds, ThreadsDiffer DEF FreshInv
<1>8. CASE HbStep
  <2>1. UNCHANGED <<writer, shutdown>>
    BY <1>8 DEF HbStep, HbTick, HbCheck, HbAlive, HbDone, HbQuit, outVars, procVars
  <2>2. \E l : l # "new" /\ Goto(HB, l)
    BY <1>8 DEF HbStep, HbTick, HbCheck, HbAlive, HbDone, HbQuit
  <2>3. QED
    BY <1>2, <2>1, <2>2, ThreadKinds, ThreadsDiffer
<1>9. CASE SignalStop
  <2>1. \A c \in Conn : pc'[Reader(c)] = pc[Reader(c)]
    BY <1>9, ThreadKinds DEF SignalStop, Reader
  <2>2. QED
    BY <1>9, <2>1 DEF SignalStop, FreshInv, outVars
<1>10. CASE ShutdownDone
  BY <1>10 DEF ShutdownDone, FreshInv, outVars
<1>11. CASE UNCHANGED <<pc, writer, shutdown>>
  BY <1>11 DEF FreshInv
<1>12. QED
  BY <1>3, <1>4, <1>5, <1>6, <1>7, <1>8, <1>9, <1>10, <1>11
     DEF Next, ConnStep, GoStale, KeyExpire, outVars, procVars, vars

LEMMA Freshness == Spec => []FreshInv
<1>1. Init => FreshInv
  <2> SUFFICES ASSUME Init PROVE FreshInv
    OBVIOUS
  <2>1. \A c \in Conn : pc[Closer(c)] = "idle"
    BY ThreadKinds DEF Init, Closer
  <2>2. QED
    BY <2>1 DEF Init, FreshInv
<1>2. QED
  BY <1>1, FreshStep, Invariance, PTL DEF Spec

----------------------------------------------------------------------------
(* The circle.                                                             *)

\* Its members: a sender w and a thread t inside Stop.
Circle(c, w, t) ==
  /\ pc[HB] = "alive" /\ on[HB] = c /\ writer[c] = "keepLive"
  /\ on[t] = c /\ pc[t] = "stopEnter"
  /\ pc[Pooled(w)] = "sendPut" /\ on[Pooled(w)] = c /\ tgt[w] = c /\ ~HasRoom(c)

\* A thread inside Stop has not got past the read lock of the sender.
LEMMA WedgeMembers ==
  ASSUME IInv, NEW c \in Conn, Wedged(c)
  PROVE  \E w \in Worker, t \in Thread : Circle(c, w, t) /\ ~isClose[c]
<1>1. PICK w \in ReadHolders(c) : pc[Pooled(w)] = "sendPut" /\ tgt[w] = c /\ ~HasRoom(c)
  BY DEF Wedged
<1>2. PICK t \in Thread : on[t] = c /\ pc[t] \in StopSection
  BY DEF Wedged, Announced
<1>3. w \in Worker /\ on[Pooled(w)] = c /\ Pooled(w) \in Thread
  BY <1>1, ThreadKinds DEF ReadHolders
<1>4. pc[t] \notin Closing /\ ~isClose[c]
  BY <1>1, <1>2, <1>3 DEF IInv, LockInv, Reading
<1>5. pc[t] = "stopEnter"
  BY <1>2, <1>4 DEF StopSection, Closing
<1>6. QED
  BY <1>1, <1>2, <1>3, <1>4, <1>5 DEF Wedged, Circle

LEMMA CircleIsWedge ==
  ASSUME NEW c \in Conn, NEW w \in Worker, NEW t \in Thread, Circle(c, w, t)
  PROVE  Wedged(c)
BY DEF Circle, Wedged, Announced, ReadHolders, StopSection

\* A step of somebody else leaves the circle.
LEMMA CircleFrame ==
  ASSUME NEW c, NEW w, NEW t, Circle(c, w, t),
         \A x \in {HB, t, Pooled(w)} : pc'[x] = pc[x] /\ on'[x] = on[x],
         writer'[c] = writer[c], tgt'[w] = tgt[w], sendCh'[c] = sendCh[c]
  PROVE  Circle(c, w, t)'
BY DEF Circle, HasRoom

LEMMA CircleStays ==
  ASSUME IInv, FreshInv, NEW c \in Conn, NEW w \in Worker, NEW t \in Thread,
         Circle(c, w, t), ~isClose[c], Next, panicked' = panicked
  PROVE  Circle(c, w, t)'
<1>1. /\ PcOK /\ OnOK /\ OutOK /\ WorkOK
      /\ Pooled(w) \in Thread /\ HB \in Thread
  BY ThreadKinds DEF IInv, TypeOK
<1>2. /\ Announced(c) /\ HeartHeld(c) /\ w \in ReadHolders(c)
  BY DEF Circle, Announced, HeartHeld, ReadHolders, StopSection
<1>3. ASSUME NEW x \in Thread, NEW l, Goto(x, l), x \notin {HB, t, Pooled(w)},
             \A y \in Thread : y # x => on'[y] = on[y],
             writer'[c] = writer[c], tgt'[w] = tgt[w], sendCh'[c] = sendCh[c]
      PROVE  Circle(c, w, t)'
  BY <1>1, <1>3, GotoFacts, CircleFrame
<1>4. CASE \E d \in Conn : Connect(d)
  <2>1. PICK d \in Conn : Connect(d)
    BY <1>4
  <2>2. d # c
    BY <2>1 DEF Connect, Circle, FreshInv
  <2>3. /\ Goto(Reader(d), "read") /\ pc[Reader(d)] = "new"
        /\ UNCHANGED <<on, tgt, sendCh>> /\ writer'[c] = writer[c]
    BY <1>1, <2>1, <2>2 DEF Connect, OutOK, workVars
  <2>4. Reader(d) \in Thread \ {HB, t, Pooled(w)}
    BY <2>3, ThreadKinds, ThreadsDiffer DEF Circle
  <2>5. QED
    BY <1>3, <2>3, <2>4
<1>5. CASE \E d \in Conn : ReadFrame(d) \/ ReaderKeepLive(d) \/ Enqueue(d) \/ ReadError(d)
  <2>1. PICK d \in Conn : ReadFrame(d) \/ ReaderKeepLive(d) \/ Enqueue(d) \/ ReadError(d)
    BY <1>5
  <2>2. /\ UNCHANGED <<on, tgt, sendCh, writer>>
        /\ pc[Reader(d)] \in {"read", "keepLive", "enqueue"}
        /\ UNCHANGED pc \/ \E l : Goto(Reader(d), l)
    BY <2>1 DEF ReadFrame, ReaderKeepLive, Enqueue, ReadError, outVars, workVars
  <2>3. Reader(d) \in Thread \ {HB, t, Pooled(w)}
    BY <2>2, ThreadKinds, ThreadsDiffer DEF Circle
  <2>4. QED
    BY <1>3, <2>2, <2>3, CircleFrame
<1>6. CASE \E d \in Conn : WriterStep(d)
  <2>1. PICK d \in Conn : WriterStep(d)
    BY <1>6
  <2>2. d # c
    BY <1>2, <2>1 DEF Circle, WriterStep, WriterRecv, WriterTick, WriterFlush,
       WriterKeepLive, WriterExit
  <2>3. UNCHANGED <<pc, on, tgt>> /\ writer'[c] = writer[c] /\ sendCh'[c] = sendCh[c]
    BY <1>1, <2>1, <2>2 DEF OutOK, WriterStep, WriterRecv, WriterTick, WriterFlush,
       WriterKeepLive, WriterExit, workVars
  <2>4. QED
    BY <2>3, CircleFrame
<1>7. CASE \E x \in Thread : Stop(x)
  <2>1. PICK x \in Thread : Stop(x)
    BY <1>7
  <2>2. pc[x] \in StopLabel /\ UNCHANGED <<sendCh, writer, tgt>>
    BY <2>1 DEF StopLabel, StopSection, Stop, StopLock, StopAgain, StopEnter, StopUnmap,
       StopOffline, StopFinish, outVars, callVars, workVars
  <2>3. x # t
    BY <1>2, <2>1 DEF Circle, Stop, StopLock, StopAgain, StopEnter, StopUnmap, StopOffline,
       StopFinish
  <2>4. x \notin {HB, t, Pooled(w)}
    BY <2>2, <2>3 DEF Circle, StopLabel, StopSection
  <2>5. /\ \E l : Goto(x, l)
        /\ \A y \in Thread : y # x => on'[y] = on[y]
    BY <1>1, <2>1 DEF OnOK, Stop, StopLock, StopAgain, StopEnter, StopUnmap, StopOffline,
       StopFinish, ReturnFromStop
  <2>6. QED
    BY <1>3, <2>2, <2>4, <2>5
<1>8. CASE \E v \in Worker : SendPut(v)
  <2>1. PICK v \in Worker : SendPut(v)
    BY <1>8
  <2>2. ~isClose[tgt[v]] \/ panicked
    BY <2>1 DEF SendPut
  <2>3. ~panicked /\ HasRoom(tgt[v]) /\ SendReturn(v) /\ pc[Pooled(v)] = "sendPut"
        /\ sendCh' = [sendCh EXCEPT ![tgt[v]] = Append(@, dest[v])] /\ UNCHANGED writer
    BY <2>1 DEF SendPut, At
  <2>4. tgt[v] # c /\ v # w
    BY <2>3 DEF Circle
  <2>5. sendCh'[c] = sendCh[c]
    BY <1>1, <2>3, <2>4 DEF OutOK
  <2>6. Pooled(v) \in Thread \ {HB, t, Pooled(w)}
    BY <2>3, <2>4, ThreadKinds, ThreadsDiffer DEF Circle
  <2>7. /\ \E l : Goto(Pooled(v), l)
        /\ \A y \in Thread : y # Pooled(v) => on'[y] = on[y]
        /\ tgt'[w] = tgt[w]
    BY <1>1, <2>3, <2>4
       DEF OnOK, WorkOK, SendReturn, SendAck, CallSendMsg, Finish
  <2>8. QED
    BY <1>3, <2>3, <2>5, <2>6, <2>7
<1>9. CASE \E v \in Worker : WorkerStep(v) /\ ~SendPut(v)
  <2>1. PICK v \in Worker : WorkerStep(v) /\ ~SendPut(v)
    BY <1>9
  <2>2. UNCHANGED <<sendCh, writer>>
    BY <2>1 DEF WorkerStep, SkipReq, StartLogin, StartMessage, StartSync, LoginGet, LoginSet,
       LoginUser, LoginAdd, Lookup, Deliver, SendLock, SendLoad, outVars
  <2>3. pc[Pooled(v)] \notin StopLabel \cup {"alive", "sendPut"}
    BY <2>1 DEF WorkerStep, SkipReq, StartLogin, StartMessage, StartSync, LoginGet, LoginSet,
       LoginUser, LoginAdd, Lookup, Deliver, SendLock, SendLoad, At, Takes, StopLabel,
       StopSection
  <2>4. Pooled(v) \in Thread \ {HB, t, Pooled(w)} /\ v # w
    BY <2>3, ThreadKinds, ThreadsDiffer DEF Circle, StopLabel, StopSection
  <2>5. /\ \A y \in Thread : y # Pooled(v) => on'[y] = on[y]
        /\ tgt'[w] = tgt[w]
    BY <1>1, <2>1, <2>4
       DEF OnOK, WorkOK, WorkerStep, SkipReq, StartLogin, StartMessage, StartSync, LoginGet,
           LoginSet, LoginUser, LoginAdd, Lookup, Deliver, SendLock, SendLoad, SendReturn,
           SendAck, CallSendMsg, Finish, workVars, callVars
  <2>6. UNCHANGED pc \/ \E l : Goto(Pooled(v), l)
    BY <2>1 DEF WorkerStep, SkipReq, StartLogin, StartMessage, StartSync, LoginGet, LoginSet,
       LoginUser, LoginAdd, Lookup, Deliver, SendLock, SendLoad, SendReturn,
       SendAck, CallSendMsg, Finish
  <2>7. UNCHANGED pc => Circle(c, w, t)'
    BY <1>1, <2>2, <2>4, <2>5, CircleFrame
  <2>8. QED
    BY <1>3, <2>2, <2>4, <2>5, <2>6, <2>7
<1>10. ~HbStep
  BY <1>2 DEF Circle, HbStep, HbTick, HbCheck, HbAlive, HbDone, HbQuit
<1>11. CASE SignalStop
  <2>1. \A d \in Conn : t # Closer(d)
    BY <1>11 DEF SignalStop, FreshInv, Circle
  <2>2. t[1] # "closer" /\ HB[1] # "closer" /\ Pooled(w)[1] # "closer"
    BY <2>1, ThreadKinds DEF HB, Pooled, Reader
  <2>3. QED
    BY <1>1, <1>11, <2>2, CircleFrame DEF SignalStop, outVars, workVars
<1>12. CASE UNCHANGED <<pc, on, writer, tgt, sendCh>>
  BY <1>12, CircleFrame
<1>13. QED
  BY <1>4, <1>5, <1>6, <1>7, <1>8, <1>9, <1>10, <1>11, <1>12
     DEF Next, ConnStep, GoStale, ShutdownDone, KeyExpire, outVars, workVars

\* Once formed, the circle is for ever: only the end of the process undoes it.
THEOREM WedgeStays == Spec => WedgeIsForever
<1> DEFINE Step == \A c \in Conn : Wedged(c) => Wedged(c)' \/ panicked'
<1>1. IInv /\ FreshInv /\ [Next]_vars => [Step]_vars
  <2> SUFFICES ASSUME IInv, FreshInv, Next, NEW c \in Conn, Wedged(c)
               PROVE  Wedged(c)' \/ panicked'
    OBVIOUS
  <2>1. PICK w \in Worker, t \in Thread : Circle(c, w, t) /\ ~isClose[c]
    BY WedgeMembers
  <2>2. CASE panicked' = panicked
    <3>1. Circle(c, w, t)'
      BY <2>1, <2>2, CircleStays
    <3>2. QED
      BY <3>1, CircleIsWedge DEF Circle, Wedged, Announced, ReadHolders, StopSection
  <2>3. CASE panicked' # panicked
    BY <2>3, PanicStep
  <2>4. QED
    BY <2>2, <2>3
<1>2. QED
  BY <1>1, Invariance, Freshness, PTL DEF Spec, WedgeIsForever

----------------------------------------------------------------------------
(* The registration of a user.                                             *)

\* A thread moves by its own step only.
LEMMA WhoMoves ==
  ASSUME IInv, FreshInv, [Next]_vars, NEW x \in Thread
  PROVE  \/ pc'[x] = pc[x] /\ on'[x] = on[x]
         \/ Stop(x)
         \/ \E w \in Worker : x = Pooled(w) /\ WorkerStep(w)
         \/ pc[x] \notin StopLabel /\ \A w \in Worker : x # Pooled(w)
<1>1. PcOK /\ OnOK
  BY DEF IInv, TypeOK
<1>2. ASSUME NEW t \in Thread, NEW l, Goto(t, l), UNCHANGED on \/ on' = [on EXCEPT ![t] = on'[t]], x # t
      PROVE  pc'[x] = pc[x] /\ on'[x] = on[x]
  BY <1>1, <1>2, GotoFacts DEF OnOK
<1>3. CASE \E c \in Conn : Connect(c) \/ ReadFrame(c) \/ ReaderKeepLive(c) \/ Enqueue(c) \/ ReadError(c)
  <2>1. PICK c \in Conn : Connect(c) \/ ReadFrame(c) \/ ReaderKeepLive(c) \/ Enqueue(c) \/ ReadError(c)
    BY <1>3
  <2>2. /\ UNCHANGED on /\ pc[Reader(c)] \notin StopLabel
        /\ UNCHANGED pc \/ \E l : Goto(Reader(c), l)
    BY <2>1 DEF Connect, ReadFrame, ReaderKeepLive, Enqueue, ReadError, StopLabel, StopSection
  <2>3. QED
    BY <1>2, <2>2, ThreadKinds, ThreadsDiffer
<1>4. CASE \E c \in Conn : WriterStep(c) \/ GoStale(c)
  BY <1>4 DEF WriterStep, WriterRecv, WriterTick, WriterFlush, WriterKeepLive, WriterExit, GoStale
<1>5. CASE \E t \in Thread : Stop(t)
  <2>1. PICK t \in Thread : Stop(t)
    BY <1>5
  <2>2. \E l : Goto(t, l)
    BY <2>1 DEF Stop, StopLock, StopAgain, StopEnter, StopUnmap, StopOffline, StopFinish, ReturnFromStop
  <2>3. \A y \in Thread : y # t => on'[y] = on[y]
    BY <1>1, <2>1 DEF OnOK, Stop, StopLock, StopAgain, StopEnter, StopUnmap, StopOffline, StopFinish,
       ReturnFromStop
  <2>4. QED
    BY <1>1, <2>1, <2>2, <2>3, GotoFacts
<1>6. CASE \E w \in Worker : WorkerStep(w)
  <2>1. PICK w \in Worker : WorkerStep(w)
    BY <1>6
  <2>2. UNCHANGED pc \/ \E l : Goto(Pooled(w), l)
    BY <2>1 DEF WorkerStep, SkipReq, StartLogin, StartMessage, StartSync, LoginGet, LoginSet, LoginUser,
       LoginAdd, Lookup, Deliver, SendLock, SendLoad, SendPut, SendReturn, SendAck, CallSendMsg, Finish
  <2>3. \A y \in Thread : y # Pooled(w) => on'[y] = on[y]
    BY <1>1, <2>1 DEF OnOK, WorkerStep, SkipReq, StartLogin, StartMessage, StartSync, LoginGet, LoginSet,
       LoginUser, LoginAdd, Lookup, Deliver, SendLock, SendLoad, SendPut, SendReturn, SendAck, CallSendMsg,
       Finish, workVars
  <2>4. QED
    BY <1>1, <2>1, <2>2, <2>3, GotoFacts, ThreadKinds
<1>7. CASE HbStep
  <2>1. (\E l : Goto(HB, l)) /\ pc[HB] \notin StopLabel
    BY <1>7 DEF HbStep, HbTick, HbCheck, HbAlive, HbDone, HbQuit, StopLabel, StopSection
  <2>2. \A y \in Thread : y # HB => on'[y] = on[y]
    BY <1>1, <1>7 DEF OnOK, HbStep, HbTick, HbCheck, HbAlive, HbDone, HbQuit
  <2>3. QED
    BY <1>1, <2>1, <2>2, GotoFacts, ThreadKinds, ThreadsDiffer
<1>8. CASE SignalStop
  <2>1. /\ UNCHANGED on
        /\ pc'[x] = IF x[1] = "closer" /\ on[x] \in Registered THEN "stopLock" ELSE pc[x]
    BY <1>8 DEF SignalStop
  <2>2. CASE x[1] # "closer"
    BY <2>1, <2>2
  <2>3. CASE x[1] = "closer"
    <3>1. PICK c \in Conn : x = Closer(c)
      BY <2>3 DEF Thread, Closer, HB
    <3>2. pc[x] = "idle"
      BY <1>8, <3>1 DEF SignalStop, FreshInv
    <3>3. QED
      BY <3>1, <3>2, ThreadsDiffer DEF StopLabel, StopSection
  <2>4. QED
    BY <2>2, <2>3
<1>9. CASE UNCHANGED <<pc, on>>
  BY <1>9
<1>10. QED
  BY <1>3, <1>4, <1>5, <1>6, <1>7, <1>8, <1>9 DEF Next, ConnStep, ShutdownDone, KeyExpire, vars

\* Whoever closes a connection goes on until it is closed, and it stays closed.
LEMMA ClosingGoesOn ==
  ASSUME IInv, FreshInv, [Next]_vars, NEW t \in Thread, pc[t] \in Closing
  PROVE  isClose'[on[t]] \/ (pc'[t] \in Closing /\ on'[t] = on[t])
<1>1. PcOK /\ OnOK /\ ConnOK /\ pc[t] \in StopLabel
  BY LabelFacts DEF IInv, TypeOK
<1>2. on[t] \in Conn
  BY <1>1, ThreadKinds DEF IInv, JobInv, JobAt, JobOf, HbInv, OnOK, StopLabel, StopSection, Closing
<1>3. CASE Stop(t)
  <2>1. CASE StopFinish(t)
    BY <1>1, <1>2, <2>1 DEF StopFinish, ConnOK
  <2>2. CASE StopUnmap(t) \/ StopOffline(t)
    BY <1>1, <2>2, GotoFacts DEF StopUnmap, StopOffline, Closing
  <2>3. QED
    BY <1>3, <2>1, <2>2 DEF Stop, StopLock, StopAgain, StopEnter, Closing
<1>4. ASSUME NEW w \in Worker, t = Pooled(w), WorkerStep(w) PROVE FALSE
  BY <1>1, <1>4 DEF WorkerStep, SkipReq, StartLogin, StartMessage, StartSync, LoginGet, LoginSet,
     LoginUser, LoginAdd, Lookup, Deliver, SendLock, SendLoad, SendPut, At, Takes, StopLabel, StopSection
<1>5. QED
  BY <1>1, <1>3, <1>4, WhoMoves

LEMMA ClosedForGood ==
  ASSUME IInv, [Next]_vars, NEW c \in Conn, isClose[c]
  PROVE  isClose'[c]
<1>1. CASE \E t \in Thread : StopFinish(t)
  BY <1>1 DEF StopFinish, IInv, TypeOK, ConnOK
<1>2. CASE ~\E t \in Thread : StopFinish(t)
  BY <1>2 DEF Next, vars, connVars, ConnStep, Connect, ReadFrame, ReaderKeepLive, Enqueue,
     ReadError, WriterStep, WriterRecv, WriterTick, WriterFlush, WriterKeepLive, WriterExit, GoStale,
     Stop, StopLock, StopAgain, StopEnter, StopUnmap, StopOffline, WorkerStep, SkipReq, StartLogin,
     StartMessage, StartSync, LoginGet, LoginSet, LoginUser, LoginAdd, Lookup, Deliver, SendLock, SendLoad,
     SendPut, HbStep, HbTick, HbCheck, HbAlive, HbDone, HbQuit, SignalStop, ShutdownDone, KeyExpire
<1>3. QED
  BY <1>1, <1>2

\* A Login that is about to store its user does so, and one that has stored him
\* goes on to AddConn.
LEMMA LoginGoesOn ==
  ASSUME IInv, FreshInv, [Next]_vars, NEW w \in Worker,
         pc[Pooled(w)] \in {"setUserId", "addConn"}
  PROVE  \/ pc'[Pooled(w)] = pc[Pooled(w)] /\ job'[w] = job[w]
         \/ LoginUser(w) \/ LoginAdd(w)
<1>1. Pooled(w) \in Thread /\ PcOK /\ WorkOK
  BY ThreadKinds DEF IInv, TypeOK
<1>2. CASE WorkerStep(w)
  BY <1>2 DEF WorkerStep, SkipReq, StartLogin, StartMessage, StartSync, LoginGet, LoginSet,
     Lookup, Deliver, SendLock, SendLoad, SendPut, At, Takes
<1>3. ~Stop(Pooled(w))
  BY DEF Stop, StopLock, StopAgain, StopEnter, StopUnmap, StopOffline, StopFinish
<1>4. CASE ~WorkerStep(w)
  <2>1. pc'[Pooled(w)] = pc[Pooled(w)]
    BY <1>1, <1>3, <1>4, WhoMoves, ThreadsDiffer
  <2>2. job'[w] = job[w]
    <3>1. CASE \E v \in Worker : WorkerStep(v)
      <4>1. PICK v \in Worker : WorkerStep(v) /\ v # w
        BY <1>4, <3>1
      <4>2. QED
        BY <1>1, <4>1 DEF WorkOK, WorkerStep, SkipReq, StartLogin, StartMessage, StartSync, LoginGet,
           LoginSet, LoginUser, LoginAdd, Lookup, Deliver, SendLock, SendLoad, SendPut, SendReturn, SendAck,
           CallSendMsg, Finish, workVars
    <3>2. CASE \E t \in Thread : Stop(t)
      <4>1. PICK t \in Thread : Stop(t) /\ t # Pooled(w)
        BY <1>3, <3>2
      <4>2. QED
        BY <4>1 DEF Stop, StopLock, StopAgain, StopEnter, StopUnmap, StopOffline, StopFinish,
           ReturnFromStop, workVars
    <3>3. CASE UNCHANGED job
      BY <3>3
    <3>4. QED
      BY <3>1, <3>2, <3>3 DEF Next, ConnStep, Connect, ReadFrame, ReaderKeepLive, Enqueue, ReadError,
         WriterStep, WriterRecv, WriterTick, WriterFlush, WriterKeepLive, WriterExit, GoStale, HbStep,
         HbTick, HbCheck, HbAlive, HbDone, HbQuit, SignalStop, ShutdownDone, KeyExpire, vars, workVars
  <2>3. QED
    BY <2>1, <2>2
<1>5. QED
  BY <1>2, <1>4

\* connMap changes for a user by a Login of his, or by a Stop of a connection
\* of his.
LEMMA WhoMaps ==
  ASSUME IInv, [Next]_vars, NEW u \in User, connMap'[u] # connMap[u]
  PROVE  \/ \E w \in Worker : LoginAdd(w) /\ job[w].arg = u
         \/ \E t \in Thread : pc[t] = "stopUnmap" /\ userId[on[t]] = u
<1>1. connMap \in [User -> Conn \cup {NoConn}]
  BY DEF IInv, TypeOK, RegOK
<1>2. CASE \E w \in Worker : LoginAdd(w)
  <2>1. PICK w \in Worker : LoginAdd(w)
    BY <1>2
  <2>2. connMap' = [connMap EXCEPT ![job[w].arg] = job[w].conn]
    BY <2>1 DEF LoginAdd
  <2>3. job[w].arg = u
    BY <1>1, <2>2
  <2>4. QED
    BY <2>1, <2>3
<1>3. CASE \E t \in Thread : StopUnmap(t)
  <2>1. PICK t \in Thread : StopUnmap(t)
    BY <1>3
  <2>2. pc[t] = "stopUnmap" /\ connMap' = [connMap EXCEPT ![userId[on[t]]] = NoConn]
    BY <2>1 DEF StopUnmap
  <2>3. userId[on[t]] = u
    BY <1>1, <2>2
  <2>4. QED
    BY <2>2, <2>3
<1>4. CASE ~(\E w \in Worker : LoginAdd(w)) /\ ~(\E t \in Thread : StopUnmap(t))
  <2>1. UNCHANGED connMap
    BY <1>4 DEF Next, vars, regVars, ConnStep, Connect, ReadFrame, ReaderKeepLive, Enqueue,
       ReadError, WriterStep, WriterRecv, WriterTick, WriterFlush, WriterKeepLive, WriterExit, GoStale,
       Stop, StopLock, StopAgain, StopEnter, StopOffline, StopFinish, WorkerStep, SkipReq, StartLogin,
       StartMessage, StartSync, LoginGet, LoginSet, LoginUser, Lookup, Deliver, SendLock, SendLoad,
       SendPut, HbStep, HbTick, HbCheck, HbAlive, HbDone, HbQuit, SignalStop, ShutdownDone, KeyExpire
  <2>2. QED
    BY <2>1
<1>5. QED
  BY <1>2, <1>3, <1>4

\* The key of a user goes when it expires, or by a Stop of a connection of his.
LEMMA WhoForgets ==
  ASSUME IInv, [Next]_vars, "ttl" \notin Events, NEW u \in User, online[u], ~online'[u]
  PROVE  \E t \in Thread : pc[t] = "stopOffline" /\ userId[on[t]] = u
<1>1. online \in [User -> BOOLEAN]
  BY DEF IInv, TypeOK, RegOK
<1>2. CASE \E w \in Worker : LoginSet(w)
  <2>1. PICK w \in Worker : LoginSet(w)
    BY <1>2
  <2>2. online' = online \/ online' = [online EXCEPT ![job[w].arg] = TRUE]
    BY <2>1 DEF LoginSet
  <2>3. QED
    BY <1>1, <2>2
<1>3. CASE \E t \in Thread : StopOffline(t)
  <2>1. PICK t \in Thread : StopOffline(t)
    BY <1>3
  <2>2. /\ pc[t] = "stopOffline"
        /\ online' = online \/ online' = [online EXCEPT ![userId[on[t]]] = FALSE]
    BY <2>1 DEF StopOffline
  <2>3. userId[on[t]] = u
    BY <1>1, <2>2
  <2>4. QED
    BY <2>2, <2>3
<1>4. CASE ~(\E w \in Worker : LoginSet(w)) /\ ~(\E t \in Thread : StopOffline(t))
  <2>1. UNCHANGED online
    BY <1>4 DEF Next, vars, regVars, ConnStep, Connect, ReadFrame, ReaderKeepLive, Enqueue,
       ReadError, WriterStep, WriterRecv, WriterTick, WriterFlush, WriterKeepLive, WriterExit, GoStale,
       Stop, StopLock, StopAgain, StopEnter, StopUnmap, StopFinish, WorkerStep, SkipReq, StartLogin,
       StartMessage, StartSync, LoginGet, LoginUser, LoginAdd, Lookup, Deliver, SendLock, SendLoad,
       SendPut, HbStep, HbTick, HbCheck, HbAlive, HbDone, HbQuit, SignalStop, ShutdownDone, KeyExpire
  <2>2. QED
    BY <2>1
<1>5. QED
  BY <1>2, <1>3, <1>4

\* A connection that serves a user after a step served him before, but for the
\* step that stored him.
LEMMA ServedBefore ==
  ASSUME IInv, FreshInv, [Next]_vars, NEW c \in Conn, Serving(c)', userId[c] # NoUser
  PROVE  Serving(c) /\ userId'[c] = userId[c]
<1>1. /\ \A d \in Conn : userId[d] # NoUser => userId'[d] = userId[d]
      /\ userId[c] \in User
  BY UserIdStep DEF UserKept, vars, connVars, IInv, TypeOK, ConnOK
<1>2. ~isClose[c]
  BY ClosedForGood DEF Serving
<1>3. ASSUME NEW t \in Thread, on[t] = c, pc[t] \in Closing PROVE FALSE
  BY <1>3, ClosingGoesOn DEF Serving
<1>4. \A d \in Conn \ {c} : userId[d] # userId[c]
  BY <1>1 DEF Serving, SoleLogin
<1>5. ASSUME NEW w \in Worker, job[w].conn # c, job[w].arg = userId[c],
             pc[Pooled(w)] \in {"setUserId", "addConn"}
      PROVE  FALSE
  <2>1. CASE pc'[Pooled(w)] = pc[Pooled(w)] /\ job'[w] = job[w]
    BY <1>1, <1>5, <2>1 DEF Serving, SoleLogin
  <2>2. CASE LoginUser(w)
    <3>1. pc'[Pooled(w)] = "addConn" /\ job'[w] = job[w]
      BY <2>2, GotoFacts, ThreadKinds DEF LoginUser, workVars, IInv, TypeOK
    <3>2. QED
      BY <1>1, <1>5, <3>1 DEF Serving, SoleLogin
  <2>3. CASE LoginAdd(w)
    <3>1. JobOf(w) /\ AddPart(w)
      BY <2>3 DEF LoginAdd, At, IInv, JobInv, JobAt
    <3>2. job[w].conn \in Conn \ {c} /\ userId[job[w].conn] = userId[c]
      BY <1>5, <3>1 DEF JobOf, AddPart, Proper, Req
    <3>3. QED
      BY <1>4, <3>2
  <2>4. QED
    BY <1>5, <2>1, <2>2, <2>3, LoginGoesOn
<1>6. QED
  BY <1>1, <1>2, <1>3, <1>4, <1>5 DEF Serving, SoleLogin

\* A worker gets to where it stores the user by setting his key.
LEMMA KeyIsSetFirst ==
  ASSUME IInv, FreshInv, [Next]_vars, NEW w \in Worker, pc'[Pooled(w)] = "setUserId"
  PROVE  /\ job'[w] = job[w] /\ job[w].arg \in User
         /\ pc[Pooled(w)] = "setUserId" \/ online'[job[w].arg]
<1>1. Pooled(w) \in Thread /\ PcOK /\ WorkOK /\ online \in [User -> BOOLEAN]
  BY ThreadKinds DEF IInv, TypeOK, RegOK
<1>j. ASSUME pc[Pooled(w)] \in {"setOnline", "setUserId"} PROVE job[w].arg \in User
  <2>1. Proper(job[w]) /\ job[w].op = "login"
    BY <1>j DEF IInv, JobInv, JobAt, JobOf, LoginPart, BeforeSetUserId
  <2>2. QED
    BY <2>1 DEF Proper, Req
<1>2. CASE pc[Pooled(w)] = "setUserId"
  <2>1. ~LoginUser(w)
    BY <1>1, <1>2, GotoFacts DEF LoginUser
  <2>2. ~LoginAdd(w)
    BY <1>2 DEF LoginAdd, At
  <2>3. QED
    BY <1>2, <1>j, <2>1, <2>2, LoginGoesOn
<1>3. CASE pc[Pooled(w)] # "setUserId"
  <2>1. ~Stop(Pooled(w))
    BY <1>1, GotoFacts, ReturnKinds DEF Stop, StopLock, StopAgain, StopEnter, StopUnmap, StopOffline,
       StopFinish, ReturnFromStop
  <2>2. WorkerStep(w)
    BY <1>1, <1>3, <2>1, WhoMoves, ThreadsDiffer
  <2>3. LoginSet(w)
    <3>1. ASSUME NEW l, Goto(Pooled(w), l) PROVE l = "setUserId"
      BY <1>1, <3>1, GotoFacts
    <3>2. ~(SkipReq(w) \/ StartLogin(w) \/ StartMessage(w) \/ StartSync(w) \/ LoginGet(w) \/ LoginUser(w)
            \/ LoginAdd(w) \/ Lookup(w) \/ Deliver(w))
      BY <1>3, <3>1 DEF SkipReq, StartLogin, StartMessage, StartSync, LoginGet, LoginUser,
         LoginAdd, Lookup, Deliver, SendAck, CallSendMsg, Finish
    <3>3. ~(SendLock(w) \/ SendLoad(w) \/ SendPut(w))
      BY <1>3, <3>1 DEF SendLock, SendLoad, SendPut, SendReturn, SendAck, CallSendMsg, Finish
    <3>4. QED
      BY <2>2, <3>2, <3>3 DEF WorkerStep
  <2>4. pc[Pooled(w)] = "setOnline"
    BY <2>3 DEF LoginSet, At
  <2>5. ~Finish(w)
    BY <1>1, GotoFacts DEF Finish
  <2>6. online' = [online EXCEPT ![job[w].arg] = TRUE] /\ UNCHANGED workVars
    BY <2>3, <2>5 DEF LoginSet
  <2>7. job[w].arg \in User
    BY <1>j, <2>4
  <2>8. QED
    BY <1>1, <2>6, <2>7 DEF workVars
<1>4. QED
  BY <1>2, <1>3

\* Only a Stop of a connection of the user himself takes the key.
LEMMA PendingKept ==
  ASSUME IInv, FreshInv, SoleInv, [Next]_vars, "ttl" \notin Events, NEW w \in Worker,
         pc'[Pooled(w)] = "setUserId", \A c \in Conn : userId'[c] # job'[w].arg
  PROVE  online'[job'[w].arg]
<1> DEFINE u == job[w].arg
<1>1. job'[w] = job[w] /\ u \in User /\ (pc[Pooled(w)] = "setUserId" \/ online'[u])
  BY KeyIsSetFirst
<1>2. \A c \in Conn : userId[c] # u
  BY <1>1, UserIdStep, SentinelAssumption DEF UserKept, vars, connVars
<1>3. CASE pc[Pooled(w)] = "setUserId" /\ ~online'[u]
  <2>1. online[u]
    BY <1>2, <1>3 DEF SoleInv
  <2>2. PICK t \in Thread : pc[t] = "stopOffline" /\ userId[on[t]] = u
    BY <1>1, <1>3, <2>1, WhoForgets
  <2>3. on[t] \in Conn
    BY <2>2, ThreadKinds DEF IInv, TypeOK, OnOK, JobInv, JobAt, JobOf, HbInv, StopLabel, StopSection
  <2>4. QED
    BY <1>2, <2>2, <2>3
<1>4. QED
  BY <1>1, <1>3

LEMMA ServedKept ==
  ASSUME IInv, FreshInv, SoleInv, [Next]_vars, NEW c \in Conn, Serving(c)', userId[c] # NoUser
  PROVE  /\ LoginDone(c)' => connMap'[userId'[c]] = c
         /\ "ttl" \notin Events => online'[userId'[c]]
<1> DEFINE u == userId[c]
<1>1. Serving(c) /\ userId'[c] = u /\ u \in User
  BY ServedBefore DEF IInv, TypeOK, ConnOK
<1>2. /\ \A d \in Conn \ {c} : userId[d] # u
      /\ \A w \in Worker : job[w].conn # c /\ job[w].arg = u
                             => pc[Pooled(w)] \notin {"setUserId", "addConn"}
      /\ \A t \in Thread : on[t] = c => pc[t] \notin Closing
  BY <1>1 DEF Serving, SoleLogin
<1>3. ASSUME NEW t \in Thread, pc[t] \in Closing, userId[on[t]] = u PROVE FALSE
  <2>1. on[t] \in Conn
    BY <1>3, ThreadKinds
       DEF IInv, TypeOK, OnOK, JobInv, JobAt, JobOf, HbInv, Closing, StopLabel, StopSection
  <2>2. QED
    BY <1>2, <1>3, <2>1
<1>4. ASSUME "ttl" \notin Events PROVE online'[u]
  <2>1. online[u]
    BY <1>1, <1>4 DEF SoleInv
  <2>2. QED
    BY <1>1, <1>3, <1>4, <2>1, WhoForgets DEF Closing
<1>5. ASSUME LoginDone(c)' PROVE connMap'[u] = c
  <2>1. CASE \E w \in Worker : LoginAdd(w) /\ job[w].arg = u
    <3>1. PICK w \in Worker : LoginAdd(w) /\ job[w].arg = u
      BY <2>1
    <3>2. /\ pc[Pooled(w)] = "addConn" /\ connMap' = [connMap EXCEPT ![u] = job[w].conn]
          /\ connMap \in [User -> Conn \cup {NoConn}]
      BY <3>1 DEF LoginAdd, At, IInv, TypeOK, RegOK
    <3>3. job[w].conn = c
      BY <1>2, <3>1, <3>2
    <3>4. QED
      BY <1>1, <3>2, <3>3
  <2>2. CASE ~\E w \in Worker : LoginAdd(w) /\ job[w].arg = u
    <3>1. connMap'[u] = connMap[u]
      BY <1>1, <1>3, <2>2, WhoMaps DEF Closing
    <3>2. ASSUME NEW w \in Worker, job[w].conn = c, pc[Pooled(w)] = "addConn" PROVE FALSE
      <4>1. AddPart(w)
        BY <3>2 DEF IInv, JobInv, JobAt
      <4>2. ~LoginAdd(w)
        BY <2>2, <3>2, <4>1 DEF AddPart
      <4>3. ~LoginUser(w)
        BY <3>2 DEF LoginUser, At
      <4>4. pc'[Pooled(w)] = "addConn" /\ job'[w].conn = c
        BY <3>2, <4>2, <4>3, LoginGoesOn
      <4>5. QED
        BY <1>5, <4>4 DEF LoginDone
    <3>3. LoginDone(c)
      BY <1>1, <3>2, SentinelAssumption DEF LoginDone
    <3>4. QED
      BY <1>1, <3>1, <3>3 DEF SoleInv
  <2>3. QED
    BY <2>1, <2>2
<1>6. QED
  BY <1>1, <1>4, <1>5

\* The step that stores the user of c.
LEMMA ServedFirst ==
  ASSUME IInv, FreshInv, SoleInv, [Next]_vars, NEW c \in Conn, Serving(c)', userId[c] = NoUser
  PROVE  ~LoginDone(c)' /\ ("ttl" \notin Events => online'[userId'[c]])
<1>1. \E w \in Worker : LoginUser(w) /\ job[w].conn = c
  <2>1. userId'[c] # userId[c]
    BY DEF Serving
  <2>2. CASE ~\E w \in Worker : LoginUser(w)
    <3>1. UNCHANGED userId
      BY <2>2 DEF Next, vars, connVars, ConnStep, Connect, ReadFrame, ReaderKeepLive, Enqueue,
         ReadError, WriterStep, WriterRecv, WriterTick, WriterFlush, WriterKeepLive, WriterExit, GoStale,
         Stop, StopLock, StopAgain, StopEnter, StopUnmap, StopOffline, StopFinish, WorkerStep, SkipReq,
         StartLogin, StartMessage, StartSync, LoginGet, LoginSet, LoginAdd, Lookup, Deliver, SendLock,
         SendLoad, SendPut, HbStep, HbTick, HbCheck, HbAlive, HbDone, HbQuit, SignalStop, ShutdownDone,
         KeyExpire
    <3>2. QED
      BY <2>1, <3>1
  <2>3. CASE \E w \in Worker : LoginUser(w)
    <3>1. PICK w \in Worker : LoginUser(w)
      BY <2>3
    <3>2. userId' = [userId EXCEPT ![job[w].conn] = job[w].arg]
      BY <3>1 DEF LoginUser
    <3>3. job[w].conn = c
      BY <2>1, <3>2 DEF IInv, TypeOK, ConnOK
    <3>4. QED
      BY <3>1, <3>3
  <2>4. QED
    BY <2>2, <2>3
<1>2. PICK w \in Worker : LoginUser(w) /\ job[w].conn = c
  BY <1>1
<1>3. /\ pc[Pooled(w)] = "setUserId" /\ pc'[Pooled(w)] = "addConn" /\ job' = job /\ online' = online
      /\ userId'[c] = job[w].arg /\ \A d \in Conn \ {c} : userId'[d] = userId[d]
  BY <1>2, GotoFacts, ThreadKinds DEF LoginUser, At, workVars, regVars, IInv, TypeOK, ConnOK
<1>4. ~LoginDone(c)'
  BY <1>2, <1>3 DEF LoginDone
<1>5. \A d \in Conn : userId[d] # job[w].arg
  BY <1>3 DEF Serving, SoleLogin
<1>6. QED
  BY <1>3, <1>4, <1>5 DEF SoleInv

LEMMA SoleStep == IInv /\ FreshInv /\ SoleInv /\ [Next]_vars => SoleInv'
<1> SUFFICES ASSUME IInv, FreshInv, SoleInv, [Next]_vars PROVE SoleInv'
  OBVIOUS
<1>1. ASSUME NEW c \in Conn, Serving(c)'
      PROVE  /\ LoginDone(c)' => connMap'[userId'[c]] = c
             /\ "ttl" \notin Events => online'[userId'[c]]
  BY <1>1, ServedKept, ServedFirst
<1>2. QED
  BY <1>1, PendingKept DEF SoleInv

\* A logged-in connection that nobody closes, the only one of its user, stays
\* in connMap, and its user online while keys do not expire, whatever Logins of
\* the user are rejected meanwhile (req.go:43-67, conn.go:212-236).
THEOREM SessionStays == Spec => []SoleSession
<1>1. Init => SoleInv
  BY ThreadKinds DEF Init, SoleInv, Serving
<1>2. IInv /\ SoleInv => SoleSession
  BY DEF SoleInv, Serving, LoginDone, SoleSession
<1>3. QED
  BY <1>1, <1>2, SoleStep, Freshness, Invariance, PTL DEF Spec
=============================================================================
