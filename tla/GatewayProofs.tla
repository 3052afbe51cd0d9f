--------------------------- MODULE GatewayProofs ---------------------------
(***************************************************************************)
(* Proofs that Gateway keeps its safety properties for every number of     *)
(* connections, users and workers and every capacity.                      *)
(***************************************************************************)
EXTENDS GatewayInv, TLAPS

----------------------------------------------------------------------------
(* Threads.                                                                *)

\* The four kinds of goroutines make up Thread.
LEMMA ThreadKinds ==
  /\ \A c \in Conn : Reader(c) \in Thread /\ Closer(c) \in Thread
  /\ \A w \in Worker : Pooled(w) \in Thread
  /\ HB \in Thread
  /\ \A t \in Thread : \/ \E c \in Conn : t = Reader(c)
                       \/ \E c \in Conn : t = Closer(c)
                       \/ \E w \in Worker : t = Pooled(w)
                       \/ t = HB
BY DEF Reader, Closer, Pooled, HB, Thread

\* No two of them are the same thread.
LEMMA ThreadsDiffer ==
  /\ \A c, d : Reader(c) # Closer(d) /\ Reader(c) # Pooled(d) /\ Closer(c) # Pooled(d)
  /\ \A c : Reader(c) # HB /\ Closer(c) # HB /\ Pooled(c) # HB
  /\ \A c, d : Reader(c) = Reader(d) => c = d
  /\ \A c, d : Closer(c) = Closer(d) => c = d
  /\ \A c, d : Pooled(c) = Pooled(d) => c = d
BY DEF Reader, Closer, Pooled, HB

\* Where a thread goes on after Stop depends on its kind only.
LEMMA ReturnKinds ==
  /\ \A c : Return(Reader(c)) = "done" /\ Return(Closer(c)) = "done"
  /\ \A w : Return(Pooled(w)) = "idle"
  /\ Return(HB) = "scan"
BY DEF Return, Reader, Closer, Pooled, HB

----------------------------------------------------------------------------
(* Sequences.                                                              *)

\* Append adds one element at the end.
LEMMA AppendFacts ==
  ASSUME NEW S, NEW s \in Seq(S), NEW e \in S
  PROVE  /\ Append(s, e) \in Seq(S)
         /\ Len(Append(s, e)) = Len(s) + 1
         /\ \A i \in DOMAIN Append(s, e) :
               Append(s, e)[i] = e \/ (i \in DOMAIN s /\ Append(s, e)[i] = s[i])
OBVIOUS

\* Head and Tail take a sequence that is not empty apart.
LEMMA HeadTailFacts ==
  ASSUME NEW S, NEW s \in Seq(S), s # <<>>
  PROVE  /\ Head(s) \in S /\ 1 \in DOMAIN s /\ Head(s) = s[1]
         /\ Tail(s) \in Seq(S)
         /\ Len(Tail(s)) = Len(s) - 1
         /\ \A i \in DOMAIN Tail(s) : i + 1 \in DOMAIN s /\ Tail(s)[i] = s[i + 1]
OBVIOUS

----------------------------------------------------------------------------
(* What one thread moving from a place to another leaves as it was.        *)

LEMMA GotoFacts ==
  ASSUME PcOK, NEW t \in Thread, NEW l, Goto(t, l)
  PROVE  pc'[t] = l /\ \A other \in Thread : other # t => pc'[other] = pc[other]
BY DEF PcOK, Goto

LEMMA LabelFacts ==
  /\ StopSection \subseteq StopLabel /\ Closing \subseteq StopSection
  /\ StopLabel \subseteq ReaderLabel /\ StopLabel \subseteq WorkerLabel
  /\ StopLabel \subseteq HbLabel /\ StopLabel \subseteq CloserLabel
  /\ StopLabel \subseteq BeforeSetUserId
BY DEF StopSection, StopLabel, Closing, ReaderLabel, WorkerLabel, HbLabel, CloserLabel,
       BeforeSetUserId

\* A thread goes to a place of its kind.
LEMMA GotoTyped ==
  ASSUME PcOK, NEW t \in Thread, NEW l, Goto(t, l),
         \A c \in Conn : t = Reader(c) => l \in ReaderLabel,
         \A c \in Conn : t = Closer(c) => l \in CloserLabel,
         \A w \in Worker : t = Pooled(w) => l \in WorkerLabel,
         t = HB => l \in HbLabel
  PROVE  PcOK'
<1>1. l \in ReaderLabel \cup WorkerLabel \cup HbLabel \cup CloserLabel
  BY ThreadKinds
<1>2. pc' \in [Thread -> ReaderLabel \cup WorkerLabel \cup HbLabel \cup CloserLabel]
  BY <1>1 DEF PcOK, Goto
<1>3. QED
  BY <1>2, GotoFacts, ThreadKinds DEF PcOK

\* No request appears, and nobody is logged out.
LEMMA RequestFrame ==
  ASSUME RequestInv, UNCHANGED <<taskQueue, held>>,
         \A c \in Conn : userId[c] # NoUser => userId'[c] # NoUser,
         \A c \in Conn : pc'[Reader(c)] \in {"keepLive", "enqueue"}
                           => pc[Reader(c)] \in {"keepLive", "enqueue"}
  PROVE  RequestInv'
BY DEF RequestInv, Proper, Req

LEMMA JobFrame ==
  ASSUME NEW w \in Worker, JobAt(w), UNCHANGED userId,
         pc'[Pooled(w)] = pc[Pooled(w)], on'[Pooled(w)] = on[Pooled(w)],
         job'[w] = job[w], dest'[w] = dest[w], tgt'[w] = tgt[w]
  PROVE  JobAt(w)'
BY DEF JobAt, JobOf, Proper, LoginPart, AddPart, LookPart, SendPart, PutPart

LEMMA HbFrame ==
  ASSUME HbInv, pc'[HB] = pc[HB], on'[HB] = on[HB]
  PROVE  HbInv'
BY DEF HbInv

\* No lock is taken.
LEMMA LockFrame ==
  ASSUME LockInv, UNCHANGED isClose,
         \A t \in Thread :
            /\ pc'[t] \in StopSection => pc[t] \in StopSection /\ on'[t] = on[t]
            /\ pc'[t] \in Closing => pc[t] \in Closing
            /\ pc'[t] \in Reading => pc[t] \in Reading /\ on'[t] = on[t]
  PROVE  LockInv'
BY LabelFacts DEF LockInv

----------------------------------------------------------------------------
(* Steps grouped by the thread that moves.                                 *)

\* The parts of the invariant about threads and what they work on.
ThreadPart == PcOK /\ OnOK /\ WorkOK /\ JobInv /\ HbInv

\* No thread moves at all.
LEMMA NoThreadMoves ==
  ASSUME IInv, UNCHANGED <<userId, isClose, taskQueue, held, pc, on, job, dest, tgt>>
  PROVE  ThreadPart' /\ RequestInv' /\ LockInv'
<1>1. PcOK' /\ OnOK' /\ WorkOK'
  BY DEF IInv, TypeOK, PcOK, OnOK, WorkOK
<1>2. JobInv'
  BY JobFrame DEF IInv, JobInv
<1>3. HbInv' /\ LockInv' /\ RequestInv'
  BY HbFrame, LockFrame, RequestFrame DEF IInv
<1>4. QED
  BY <1>1, <1>2, <1>3 DEF ThreadPart

\* The reader of c moves, and not past a Lock.
LEMMA ReaderMoves ==
  ASSUME IInv, NEW c \in Conn, NEW l \in ReaderLabel, l \notin StopSection,
         Goto(Reader(c), l), UNCHANGED <<userId, isClose, on, job, dest, tgt>>
  PROVE  ThreadPart' /\ LockInv'
<1>1. Reader(c) \in Thread /\ PcOK
  BY ThreadKinds DEF IInv, TypeOK
<1>2. pc'[Reader(c)] = l /\ \A t \in Thread : t # Reader(c) => pc'[t] = pc[t]
  BY <1>1, GotoFacts
<1>3. PcOK'
  BY <1>1, GotoTyped, ThreadsDiffer
<1>4. OnOK' /\ WorkOK'
  BY DEF IInv, TypeOK, OnOK, WorkOK
<1>5. JobInv'
  BY <1>2, JobFrame, ThreadKinds, ThreadsDiffer DEF IInv, JobInv
<1>6. HbInv'
  BY <1>2, HbFrame, ThreadKinds, ThreadsDiffer DEF IInv
<1>7. l \notin Reading
  BY DEF ReaderLabel, StopLabel, StopSection, Reading
<1>8. LockInv'
  BY <1>1, <1>2, <1>7, LockFrame, LabelFacts DEF IInv
<1>9. QED
  BY <1>3, <1>4, <1>5, <1>6, <1>8 DEF ThreadPart

\* Thread t goes on inside Stop.
LEMMA StopMoves ==
  ASSUME IInv, NEW t \in Thread, pc[t] \in StopLabel, NEW l \in StopSection, Goto(t, l),
         UNCHANGED <<userId, taskQueue, held, on, job, dest, tgt>>
  PROVE  ThreadPart' /\ RequestInv'
<1>1. PcOK /\ pc'[t] = l /\ \A other \in Thread : other # t => pc'[other] = pc[other]
  BY GotoFacts DEF IInv, TypeOK
<1>2. PcOK'
  BY <1>1, GotoTyped, LabelFacts
<1>3. OnOK' /\ WorkOK'
  BY DEF IInv, TypeOK, OnOK, WorkOK
<1>4. JobInv'
  <2> SUFFICES ASSUME NEW w \in Worker PROVE JobAt(w)'
    BY DEF JobInv
  <2>1. JobAt(w) /\ Pooled(w) \in Thread
    BY ThreadKinds DEF IInv, JobInv
  <2>2. CASE t # Pooled(w)
    BY <1>1, <2>1, <2>2, JobFrame
  <2>3. CASE t = Pooled(w)
    <3>1. JobOf(w)' /\ LoginPart(w)'
      BY <2>1, <2>3, LabelFacts
         DEF JobAt, JobOf, Proper, LoginPart, StopLabel, StopSection
    <3>2. pc'[Pooled(w)] \notin {"addConn", "lookup", "getConn"} \cup Sending
      BY <1>1, <2>3 DEF StopSection, Sending
    <3>3. QED
      BY <3>1, <3>2 DEF JobAt, Sending
  <2>4. QED
    BY <2>2, <2>3
<1>5. HbInv'
  BY <1>1, ThreadKinds, LabelFacts DEF IInv, HbInv
<1>6. RequestInv'
  <2>1. \A c \in Conn : pc'[Reader(c)] \in {"keepLive", "enqueue"}
                          => pc[Reader(c)] \in {"keepLive", "enqueue"}
    BY <1>1, ThreadKinds DEF StopSection
  <2>2. QED
    BY <2>1, RequestFrame DEF IInv
<1>7. QED
  BY <1>2, <1>3, <1>4, <1>5, <1>6 DEF ThreadPart

\* Thread t returns from Stop.
LEMMA StopReturns ==
  ASSUME IInv, NEW t \in Thread, ReturnFromStop(t),
         UNCHANGED <<userId, taskQueue, held, dest, tgt>>
  PROVE  ThreadPart' /\ RequestInv'
<1>1. PcOK /\ OnOK /\ Goto(t, Return(t))
  BY DEF IInv, TypeOK, ReturnFromStop
<1>2. pc'[t] = Return(t) /\ \A other \in Thread : other # t => pc'[other] = pc[other]
  BY <1>1, GotoFacts
<1>3. PcOK'
  <2>1. /\ "done" \in ReaderLabel \cap CloserLabel /\ "idle" \in WorkerLabel
        /\ "scan" \in HbLabel
    BY DEF ReaderLabel, CloserLabel, WorkerLabel, HbLabel
  <2>2. QED
    BY <1>1, <2>1, ReturnKinds, GotoTyped
<1>4. \A other \in Thread : other # t => on'[other] = on[other]
  BY <1>1 DEF OnOK, ReturnFromStop
<1>5. OnOK'
  <2>1. on' \in [Thread -> Conn \cup {NoConn}]
    BY <1>1 DEF OnOK, ReturnFromStop
  <2>2. \A c \in Conn : on'[Reader(c)] = c /\ on'[Closer(c)] = c
    BY <1>1, <1>4, ThreadKinds, ReturnKinds DEF OnOK, ReturnFromStop
  <2>3. QED
    BY <2>1, <2>2 DEF OnOK
<1>6. WorkOK'
  BY DEF IInv, TypeOK, WorkOK, ReturnFromStop
<1>7. JobInv'
  <2> SUFFICES ASSUME NEW w \in Worker PROVE JobAt(w)'
    BY DEF JobInv
  <2>1. CASE t = Pooled(w)
    <3>1. pc'[Pooled(w)] = "idle"
      BY <1>2, <2>1, ReturnKinds
    <3>2. QED
      BY <3>1 DEF JobAt, BeforeSetUserId, StopLabel, StopSection, Sending
  <2>2. CASE t # Pooled(w)
    BY <1>2, <1>4, <2>2, JobFrame, ThreadKinds DEF IInv, JobInv, ReturnFromStop
  <2>3. QED
    BY <2>1, <2>2
<1>8. HbInv'
  <2>1. CASE t = HB
    BY <1>2, <2>1, ReturnKinds DEF HbInv, StopLabel, StopSection
  <2>2. CASE t # HB
    BY <1>2, <1>4, <2>2, HbFrame, ThreadKinds DEF IInv
  <2>3. QED
    BY <2>1, <2>2
<1>9. RequestInv'
  <2>1. \A c \in Conn : pc'[Reader(c)] \in {"keepLive", "enqueue"}
                          => pc[Reader(c)] \in {"keepLive", "enqueue"}
    BY <1>2, ThreadKinds, ReturnKinds
  <2>2. QED
    BY <2>1, RequestFrame DEF IInv
<1>10. QED
  BY <1>3, <1>5, <1>6, <1>7, <1>8, <1>9 DEF ThreadPart

\* Worker w goes to a place where JobAt holds of it.
LEMMA WorkerMoves ==
  ASSUME IInv, NEW w \in Worker, NEW l \in WorkerLabel, Goto(Pooled(w), l),
         \A t \in Thread : t # Pooled(w) => on'[t] = on[t],
         on' \in [Thread -> Conn \cup {NoConn}], WorkOK',
         \A v \in Worker : v # w => /\ job'[v] = job[v] /\ dest'[v] = dest[v]
                                    /\ tgt'[v] = tgt[v],
         UNCHANGED userId, JobAt(w)'
  PROVE  ThreadPart'
<1>1. Pooled(w) \in Thread /\ PcOK /\ OnOK
  BY ThreadKinds DEF IInv, TypeOK
<1>2. pc'[Pooled(w)] = l /\ \A t \in Thread : t # Pooled(w) => pc'[t] = pc[t]
  BY <1>1, GotoFacts
<1>3. PcOK'
  BY <1>1, GotoTyped, ThreadsDiffer
<1>4. OnOK'
  BY <1>1, ThreadKinds, ThreadsDiffer DEF OnOK
<1>5. JobInv'
  BY <1>2, JobFrame, ThreadKinds, ThreadsDiffer DEF IInv, JobInv
<1>6. HbInv'
  BY <1>2, HbFrame, ThreadKinds, ThreadsDiffer DEF IInv
<1>7. QED
  BY <1>3, <1>4, <1>5, <1>6 DEF ThreadPart

\* The requests that wait stay proper when worker w moves.
LEMMA WorkerKeepsRequests ==
  ASSUME IInv, NEW w \in Worker, NEW l, Goto(Pooled(w), l),
         UNCHANGED <<userId, taskQueue, held>>
  PROVE  RequestInv'
<1>1. \A c \in Conn : pc'[Reader(c)] = pc[Reader(c)]
  BY GotoFacts, ThreadKinds, ThreadsDiffer DEF IInv, TypeOK
<1>2. QED
  BY <1>1, RequestFrame DEF IInv

\* Worker w takes no lock.
LEMMA WorkerTakesNoLock ==
  ASSUME IInv, NEW w \in Worker, NEW l, l \notin StopSection \cup Reading,
         Goto(Pooled(w), l), UNCHANGED isClose,
         \A t \in Thread : t # Pooled(w) => on'[t] = on[t]
  PROVE  LockInv'
<1>1. /\ pc'[Pooled(w)] = l
      /\ \A t \in Thread : t # Pooled(w) => pc'[t] = pc[t]
  BY GotoFacts, ThreadKinds DEF IInv, TypeOK
<1>2. QED
  BY <1>1, LockFrame, LabelFacts DEF IInv

\* The heartbeat checker moves, and not past a Lock.
LEMMA HbMoves ==
  ASSUME IInv, NEW l \in HbLabel, l \notin StopSection, Goto(HB, l),
         on' \in [Thread -> Conn \cup {NoConn}],
         \A t \in Thread : t # HB => on'[t] = on[t], HbInv',
         UNCHANGED <<userId, isClose, taskQueue, held, job, dest, tgt>>
  PROVE  ThreadPart' /\ RequestInv' /\ LockInv'
<1>1. HB \in Thread /\ PcOK /\ OnOK /\ WorkOK
  BY ThreadKinds DEF IInv, TypeOK
<1>2. pc'[HB] = l /\ \A t \in Thread : t # HB => pc'[t] = pc[t]
  BY <1>1, GotoFacts
<1>3. PcOK'
  BY <1>1, GotoTyped, ThreadsDiffer
<1>4. OnOK' /\ WorkOK'
  BY <1>1, ThreadKinds, ThreadsDiffer DEF OnOK, WorkOK
<1>5. JobInv'
  BY <1>2, JobFrame, ThreadKinds, ThreadsDiffer DEF IInv, JobInv
<1>6. RequestInv'
  BY <1>2, RequestFrame, ThreadKinds, ThreadsDiffer DEF IInv
<1>7. l \notin Reading
  BY DEF HbLabel, StopLabel, StopSection, Reading
<1>8. LockInv'
  BY <1>1, <1>2, <1>7, LockFrame, LabelFacts DEF IInv
<1>9. QED
  BY <1>3, <1>4, <1>5, <1>6, <1>8 DEF ThreadPart

----------------------------------------------------------------------------
(* One lemma per action.                                                   *)

\* The parts of the invariant about everything but threads.
DataPart == /\ ConnOK /\ OutOK /\ RegOK /\ InOK /\ ProcOK
            /\ RegistryOwner /\ NoMisdelivery

\* The data but clocks, sockets and writers, which nothing else depends on.
LEMMA DataFrame ==
  ASSUME IInv, ConnOK',
         writer' \in [Conn -> {"none", "select", "flush", "keepLive", "done"}],
         reads' \in [Conn -> Nat], online' \in [User -> BOOLEAN],
         UNCHANGED <<userId, sendCh, buffer, connMap, taskQueue, held>>, ProcOK'
  PROVE  DataPart'
<1>1. OutOK' /\ RegOK' /\ InOK'
  BY DEF IInv, TypeOK, OutOK, RegOK, InOK
<1>2. RegistryOwner' /\ NoMisdelivery'
  BY DEF IInv, RegistryOwner, NoMisdelivery
<1>3. QED
  BY <1>1, <1>2 DEF DataPart

LEMMA ConnectKeeps ==
  ASSUME IInv, NEW c \in Conn, Connect(c)
  PROVE  IInv'
<1>1. ThreadPart' /\ LockInv'
  <2>1. "read" \in ReaderLabel /\ "read" \notin StopSection
    BY DEF ReaderLabel, StopSection
  <2>2. QED
    BY <2>1, ReaderMoves DEF Connect, workVars
<1>2. RequestInv'
  <2>1. /\ pc'[Reader(c)] = "read"
        /\ \A d \in Conn : d # c => pc'[Reader(d)] = pc[Reader(d)]
    BY GotoFacts, ThreadKinds, ThreadsDiffer DEF IInv, TypeOK, Connect
  <2>2. QED
    BY <2>1, RequestFrame DEF IInv, Connect, inVars
<1>3. DataPart'
  BY DataFrame DEF IInv, TypeOK, ConnOK, OutOK, RegOK, InOK, ProcOK, Connect, regVars,
     inVars, procVars
<1>4. QED
  BY <1>1, <1>2, <1>3 DEF IInv, TypeOK, ThreadPart, DataPart

LEMMA ReadFrameKeeps ==
  ASSUME IInv, NEW c \in Conn, ReadFrame(c)
  PROVE  IInv'
<1>1. PICK r \in Commands(c) :
         \/ Intercepted(r) /\ UNCHANGED <<held, pc>>
         \/ /\ ~Intercepted(r)
            /\ held' = [held EXCEPT ![c] = r]
            /\ Goto(Reader(c), "keepLive")
  BY DEF ReadFrame
<1>2. r \in Req /\ r.conn = c /\ (r.op \in {"login", "message"} <=> r.arg # NoUser)
  BY DEF Commands
<1>3. /\ UNCHANGED <<userId, isClose, taskQueue, on, job, dest, tgt>>
      /\ UNCHANGED <<sendCh, buffer, connMap>>
  BY DEF ReadFrame, connVars, outVars, regVars, workVars
<1>4. InOK'
  <2>1. held \in [Conn -> Req \cup {NoReq}] /\ reads \in [Conn -> Nat]
    BY DEF IInv, TypeOK, InOK
  <2>2. held' \in [Conn -> Req \cup {NoReq}]
    BY <1>1, <1>2, <2>1
  <2>3. reads' \in [Conn -> Nat]
    BY <2>1 DEF ReadFrame
  <2>4. QED
    BY <1>3, <2>2, <2>3 DEF IInv, TypeOK, InOK
<1>5. DataPart'
  <2>1. ConnOK' /\ OutOK' /\ RegOK' /\ ProcOK'
    BY DEF IInv, TypeOK, ConnOK, OutOK, RegOK, ProcOK, ReadFrame, connVars, outVars,
       regVars, procVars
  <2>2. RegistryOwner' /\ NoMisdelivery'
    BY <1>3 DEF IInv, RegistryOwner, NoMisdelivery
  <2>3. QED
    BY <1>4, <2>1, <2>2 DEF DataPart
<1>6. CASE UNCHANGED <<held, pc>>
  BY <1>3, <1>5, <1>6, NoThreadMoves DEF IInv, TypeOK, ThreadPart, DataPart
<1>7. CASE /\ ~Intercepted(r)
           /\ held' = [held EXCEPT ![c] = r]
           /\ Goto(Reader(c), "keepLive")
  <2>1. ThreadPart' /\ LockInv'
    <3>1. "keepLive" \in ReaderLabel /\ "keepLive" \notin StopSection
      BY DEF ReaderLabel, StopSection
    <3>2. QED
      BY <1>3, <1>7, <3>1, ReaderMoves
  <2>2. RequestInv'
    <3>1. /\ pc'[Reader(c)] = "keepLive"
          /\ \A d \in Conn : d # c => pc'[Reader(d)] = pc[Reader(d)]
      BY <1>7, GotoFacts, ThreadKinds, ThreadsDiffer DEF IInv, TypeOK
    <3>2. held'[c] = r /\ \A d \in Conn : d # c => held'[d] = held[d]
      BY <1>7 DEF IInv, TypeOK, InOK
    <3>3. Proper(r)'
      BY <1>2, <1>3, <1>7 DEF Proper, Intercepted
    <3>4. \A q : Proper(q) => Proper(q)'
      BY <1>3 DEF Proper
    <3>5. QED
      BY <1>2, <1>3, <3>1, <3>2, <3>3, <3>4 DEF IInv, RequestInv, Proper
  <2>3. QED
    BY <1>5, <2>1, <2>2 DEF IInv, TypeOK, ThreadPart, DataPart
<1>8. QED
  BY <1>1, <1>6, <1>7

LEMMA ReaderKeepLiveKeeps ==
  ASSUME IInv, NEW c \in Conn, ReaderKeepLive(c)
  PROVE  IInv'
<1>1. ThreadPart' /\ LockInv'
  <2>1. "enqueue" \in ReaderLabel /\ "enqueue" \notin StopSection
    BY DEF ReaderLabel, StopSection
  <2>2. QED
    BY <2>1, ReaderMoves DEF ReaderKeepLive, workVars
<1>2. RequestInv'
  <2>1. /\ pc[Reader(c)] = "keepLive"
        /\ \A d \in Conn : d # c => pc'[Reader(d)] = pc[Reader(d)]
    BY GotoFacts, ThreadKinds, ThreadsDiffer DEF IInv, TypeOK, ReaderKeepLive
  <2>2. QED
    BY <2>1, RequestFrame DEF IInv, ReaderKeepLive, inVars
<1>3. DataPart'
  BY DataFrame DEF IInv, TypeOK, ConnOK, OutOK, RegOK, InOK, ProcOK, ReaderKeepLive,
     outVars, regVars, inVars, procVars
<1>4. QED
  BY <1>1, <1>2, <1>3 DEF IInv, TypeOK, ThreadPart, DataPart

LEMMA EnqueueKeeps ==
  ASSUME IInv, NEW c \in Conn, Enqueue(c)
  PROVE  IInv'
<1> DEFINE w == WorkerOf[c]
<1>1. w \in Worker
  BY WorkerOfAssumption
<1>2. /\ Len(taskQueue[w]) < TaskCap
      /\ taskQueue' = [taskQueue EXCEPT ![w] = Append(@, held[c])]
      /\ held' = [held EXCEPT ![c] = NoReq]
      /\ pc[Reader(c)] = "enqueue" /\ Goto(Reader(c), "read")
      /\ UNCHANGED <<userId, isClose, sendCh, buffer, connMap, reads, on, job, dest, tgt>>
  BY DEF Enqueue, WorkerFor, connVars, outVars, regVars, workVars
<1>3. /\ taskQueue \in [Worker -> Seq(Req)] /\ held \in [Conn -> Req \cup {NoReq}]
      /\ \A v \in Worker : Len(taskQueue[v]) <= TaskCap
  BY DEF IInv, TypeOK, InOK
<1>4. Proper(held[c]) /\ held[c].conn = c /\ held[c] \in Req
  BY <1>2 DEF IInv, RequestInv, Proper
<1>5. /\ taskQueue'[w] = Append(taskQueue[w], held[c])
      /\ \A v \in Worker : v # w => taskQueue'[v] = taskQueue[v]
  BY <1>1, <1>2, <1>3
<1>6. InOK'
  <2>1. Append(taskQueue[w], held[c]) \in Seq(Req)
        /\ Len(Append(taskQueue[w], held[c])) = Len(taskQueue[w]) + 1
    BY <1>1, <1>3, <1>4, AppendFacts
  <2>2. taskQueue' \in [Worker -> Seq(Req)]
    BY <1>1, <1>2, <1>3, <2>1
  <2>3. Len(taskQueue[w]) \in Nat
    BY <1>1, <1>3
  <2>4. \A v \in Worker : Len(taskQueue'[v]) <= TaskCap
    BY <1>1, <1>2, <1>3, <1>5, <2>1, <2>3, CapAssumption
  <2>5. held' \in [Conn -> Req \cup {NoReq}]
    BY <1>2, <1>3
  <2>6. QED
    BY <1>2, <2>2, <2>4, <2>5 DEF IInv, TypeOK, InOK
<1>7. ThreadPart' /\ LockInv'
  <2>1. "read" \in ReaderLabel /\ "read" \notin StopSection
    BY DEF ReaderLabel, StopSection
  <2>2. QED
    BY <1>2, <2>1, ReaderMoves
<1>8. RequestInv'
  <2>1. /\ pc'[Reader(c)] = "read"
        /\ \A d \in Conn : d # c => pc'[Reader(d)] = pc[Reader(d)]
    BY <1>2, GotoFacts, ThreadKinds, ThreadsDiffer DEF IInv, TypeOK
  <2>2. \A q : Proper(q) => Proper(q)'
    BY <1>2 DEF Proper
  <2>3. \A d \in Conn : d # c => held'[d] = held[d]
    BY <1>2, <1>3
  <2>4. \A d \in Conn : pc'[Reader(d)] \in {"keepLive", "enqueue"}
                          => Proper(held[d])' /\ held'[d].conn = d
    BY <2>1, <2>2, <2>3 DEF IInv, RequestInv, Proper
  <2>5. ASSUME NEW v \in Worker, NEW i \in DOMAIN taskQueue'[v]
        PROVE  Proper(taskQueue'[v][i]) /\ WorkerOf[taskQueue'[v][i].conn] = v
    <3>1. CASE v # w
      BY <1>5, <2>5, <3>1 DEF IInv, RequestInv
    <3>2. CASE v = w
      <4>1. taskQueue[w] \in Seq(Req) /\ held[c] \in Req
        BY <1>1, <1>3, <1>4
      <4>2. \A j \in DOMAIN Append(taskQueue[w], held[c]) :
               \/ Append(taskQueue[w], held[c])[j] = held[c]
               \/ /\ j \in DOMAIN taskQueue[w]
                  /\ Append(taskQueue[w], held[c])[j] = taskQueue[w][j]
        BY <4>1, AppendFacts
      <4>3. \/ taskQueue'[v][i] = held[c]
            \/ i \in DOMAIN taskQueue[v] /\ taskQueue'[v][i] = taskQueue[v][i]
        BY <1>5, <2>5, <3>2, <4>2
      <4>4. QED
        BY <1>4, <3>2, <4>3 DEF IInv, RequestInv
    <3>3. QED
      BY <3>1, <3>2
  <2>6. QED
    BY <1>2, <2>4, <2>5 DEF RequestInv, Proper
<1>9. DataPart'
  <2>1. ConnOK' /\ OutOK' /\ RegOK' /\ ProcOK'
    BY DEF IInv, TypeOK, ConnOK, OutOK, RegOK, ProcOK, Enqueue, connVars, outVars,
       regVars, procVars
  <2>2. RegistryOwner' /\ NoMisdelivery'
    BY <1>2 DEF IInv, RegistryOwner, NoMisdelivery
  <2>3. QED
    BY <1>6, <2>1, <2>2 DEF DataPart
<1>10. QED
  BY <1>7, <1>8, <1>9 DEF IInv, TypeOK, ThreadPart, DataPart

LEMMA ReadErrorKeeps ==
  ASSUME IInv, NEW c \in Conn, ReadError(c)
  PROVE  IInv'
<1>1. ThreadPart' /\ LockInv'
  <2>1. "stopLock" \in ReaderLabel /\ "stopLock" \notin StopSection
    BY DEF ReaderLabel, StopLabel, StopSection
  <2>2. QED
    BY <2>1, ReaderMoves DEF ReadError, connVars, workVars
<1>2. RequestInv'
  <2>1. /\ pc'[Reader(c)] = "stopLock"
        /\ \A d \in Conn : d # c => pc'[Reader(d)] = pc[Reader(d)]
    BY GotoFacts, ThreadKinds, ThreadsDiffer DEF IInv, TypeOK, ReadError
  <2>2. QED
    BY <2>1, RequestFrame DEF IInv, ReadError, connVars, inVars
<1>3. DataPart'
  BY DataFrame DEF IInv, TypeOK, ConnOK, OutOK, RegOK, InOK, ProcOK, ReadError,
     connVars, outVars, regVars, inVars, procVars
<1>4. QED
  BY <1>1, <1>2, <1>3 DEF IInv, TypeOK, ThreadPart, DataPart

LEMMA StopLockKeeps ==
  ASSUME IInv, NEW t \in Thread, StopLock(t)
  PROVE  IInv'
<1>1. pc[t] \in StopLabel /\ "stopEnter" \in StopSection
  BY DEF StopLock, StopLabel, StopSection
<1>2. ThreadPart' /\ RequestInv'
  BY <1>1, StopMoves DEF StopLock, connVars, inVars, workVars
<1>3. LockInv'
  <2>1. /\ pc'[t] = "stopEnter" /\ UNCHANGED <<on, isClose>>
        /\ \A other \in Thread : other # t => pc'[other] = pc[other]
    BY GotoFacts DEF IInv, TypeOK, StopLock, connVars
  <2>2. \A other \in Thread : on[other] = on[t] => pc[other] \notin StopSection
    BY DEF StopLock, Announced
  <2>3. "stopEnter" \notin Closing \cup Reading
    BY DEF Closing, Reading
  <2>4. QED
    BY <2>1, <2>2, <2>3, LabelFacts DEF IInv, LockInv
<1>4. DataPart'
  BY DataFrame DEF IInv, TypeOK, ConnOK, OutOK, RegOK, InOK, ProcOK, StopLock,
     connVars, outVars, regVars, inVars, procVars
<1>5. QED
  BY <1>2, <1>3, <1>4 DEF IInv, TypeOK, ThreadPart, DataPart

LEMMA StopAgainKeeps ==
  ASSUME IInv, NEW t \in Thread, StopAgain(t)
  PROVE  IInv'
<1>1. ThreadPart' /\ RequestInv'
  BY StopReturns DEF StopAgain, connVars, inVars, callVars
<1>2. LockInv'
  <2>1. /\ pc'[t] \notin StopSection \cup Reading
        /\ \A other \in Thread : other # t => pc'[other] = pc[other]
    BY GotoFacts DEF IInv, TypeOK, StopAgain, ReturnFromStop, Return, StopSection, Reading
  <2>2. \A other \in Thread : other # t => on'[other] = on[other]
    BY DEF IInv, TypeOK, OnOK, StopAgain, ReturnFromStop
  <2>3. QED
    BY <2>1, <2>2, LockFrame, LabelFacts DEF IInv, StopAgain, connVars
<1>3. DataPart'
  BY DataFrame DEF IInv, TypeOK, ConnOK, OutOK, RegOK, InOK, ProcOK, StopAgain,
     connVars, outVars, regVars, inVars, procVars
<1>4. QED
  BY <1>1, <1>2, <1>3 DEF IInv, TypeOK, ThreadPart, DataPart

LEMMA StopEnterKeeps ==
  ASSUME IInv, NEW t \in Thread, StopEnter(t)
  PROVE  IInv'
<1> DEFINE l == IF userId[on[t]] = NoUser THEN "stopFinish" ELSE "stopUnmap"
<1>1. /\ pc[t] \in StopSection /\ l \in StopSection
      /\ pc[t] \in StopLabel /\ l \notin Reading
  BY DEF StopEnter, StopLabel, StopSection, Reading
<1>2. ThreadPart' /\ RequestInv'
  BY <1>1, StopMoves DEF StopEnter, inVars, workVars
<1>3. LockInv'
  <2>1. /\ pc'[t] = l /\ UNCHANGED <<on, isClose>>
        /\ \A other \in Thread : other # t => pc'[other] = pc[other]
    BY GotoFacts DEF IInv, TypeOK, StopEnter
  <2>2. \A other \in Thread : pc[other] \in Reading => on[other] # on[t]
    <3> SUFFICES ASSUME NEW other \in Thread, pc[other] \in Reading, on[other] = on[t]
                 PROVE FALSE
      OBVIOUS
    <3>1. \A w \in Worker : other # Pooled(w)
      BY DEF StopEnter, ReadHolders, Reading
    <3>2. pc[other] \in ReaderLabel \cup CloserLabel \cup HbLabel
      BY <3>1, ThreadKinds DEF IInv, TypeOK, PcOK
    <3>3. QED
      BY <3>2 DEF ReaderLabel, CloserLabel, HbLabel, StopLabel, StopSection, Reading
  <2>3. ~isClose[on[t]]
    BY DEF StopEnter
  <2>4. QED
    BY <1>1, <2>1, <2>2, <2>3, LabelFacts DEF IInv, LockInv
<1>4. DataPart'
  <2>1. ConnOK'
    BY DEF IInv, TypeOK, ConnOK, StopEnter
  <2>2. QED
    BY <2>1, DataFrame DEF IInv, TypeOK, OutOK, RegOK, InOK, ProcOK, StopEnter,
       outVars, regVars, inVars, procVars
<1>5. QED
  BY <1>2, <1>3, <1>4 DEF IInv, TypeOK, ThreadPart, DataPart

LEMMA StopUnmapKeeps ==
  ASSUME IInv, NEW t \in Thread, StopUnmap(t)
  PROVE  IInv'
<1>1. /\ pc[t] \in Closing /\ pc[t] \in StopLabel
      /\ "stopOffline" \in Closing /\ "stopOffline" \in StopSection \ Reading
  BY DEF StopUnmap, Closing, StopLabel, StopSection, Reading
<1>2. ThreadPart' /\ RequestInv'
  BY <1>1, StopMoves DEF StopUnmap, connVars, inVars, workVars
<1>3. LockInv'
  <2>1. /\ pc'[t] = "stopOffline" /\ UNCHANGED <<on, isClose>>
        /\ \A other \in Thread : other # t => pc'[other] = pc[other]
    BY GotoFacts DEF IInv, TypeOK, StopUnmap, connVars
  <2>2. QED
    BY <1>1, <2>1, LockFrame, LabelFacts DEF IInv
<1>4. RegOK' /\ RegistryOwner'
  <2>1. \A u \in User : connMap'[u] \in {connMap[u], NoConn}
    BY DEF IInv, TypeOK, RegOK, StopUnmap
  <2>2. connMap' \in [User -> Conn \cup {NoConn}]
    BY DEF IInv, TypeOK, RegOK, StopUnmap
  <2>3. QED
    BY <2>1, <2>2 DEF IInv, TypeOK, RegOK, RegistryOwner, StopUnmap, connVars
<1>5. DataPart'
  BY <1>4 DEF IInv, TypeOK, ConnOK, OutOK, InOK, ProcOK, DataPart, NoMisdelivery,
     StopUnmap, connVars, outVars, inVars, procVars
<1>6. QED
  BY <1>2, <1>3, <1>5 DEF IInv, TypeOK, ThreadPart, DataPart

LEMMA StopOfflineKeeps ==
  ASSUME IInv, NEW t \in Thread, StopOffline(t)
  PROVE  IInv'
<1>1. /\ pc[t] \in Closing /\ pc[t] \in StopLabel
      /\ "stopFinish" \in Closing /\ "stopFinish" \in StopSection \ Reading
  BY DEF StopOffline, Closing, StopLabel, StopSection, Reading
<1>2. ThreadPart' /\ RequestInv'
  BY <1>1, StopMoves DEF StopOffline, connVars, inVars, workVars
<1>3. LockInv'
  <2>1. /\ pc'[t] = "stopFinish" /\ UNCHANGED <<on, isClose>>
        /\ \A other \in Thread : other # t => pc'[other] = pc[other]
    BY GotoFacts DEF IInv, TypeOK, StopOffline, connVars
  <2>2. QED
    BY <1>1, <2>1, LockFrame, LabelFacts DEF IInv
<1>4. DataPart'
  <2>1. online' \in [User -> BOOLEAN]
    BY DEF IInv, TypeOK, RegOK, StopOffline
  <2>2. QED
    BY <2>1, DataFrame DEF IInv, TypeOK, ConnOK, OutOK, InOK, ProcOK, StopOffline,
       connVars, outVars, inVars, procVars
<1>5. QED
  BY <1>2, <1>3, <1>4 DEF IInv, TypeOK, ThreadPart, DataPart

LEMMA StopFinishKeeps ==
  ASSUME IInv, NEW t \in Thread, StopFinish(t)
  PROVE  IInv'
<1>1. ThreadPart' /\ RequestInv'
  BY StopReturns DEF StopFinish, inVars, callVars
<1>2. LockInv'
  <2>1. /\ pc'[t] \notin StopSection \cup Reading
        /\ \A other \in Thread : other # t => pc'[other] = pc[other]
    BY GotoFacts DEF IInv, TypeOK, StopFinish, ReturnFromStop, Return, StopSection, Reading
  <2>2. \A other \in Thread : other # t => on'[other] = on[other]
    BY DEF IInv, TypeOK, OnOK, StopFinish, ReturnFromStop
  <2>3. \A other \in Thread : other # t /\ pc[other] \in Closing \cup Reading
                                => on[other] # on[t]
    BY LabelFacts DEF IInv, LockInv, StopFinish, Closing, StopSection
  <2>4. \A c : c # on[t] => isClose'[c] = isClose[c]
    BY DEF IInv, TypeOK, ConnOK, StopFinish
  <2>5. QED
    BY <2>1, <2>2, <2>3, <2>4, LabelFacts DEF IInv, LockInv
<1>3. DataPart'
  <2>1. ConnOK'
    BY DEF IInv, TypeOK, ConnOK, StopFinish
  <2>2. QED
    BY <2>1, DataFrame DEF IInv, TypeOK, OutOK, RegOK, InOK, ProcOK, StopFinish,
       outVars, regVars, inVars, procVars
<1>4. QED
  BY <1>1, <1>2, <1>3 DEF IInv, TypeOK, ThreadPart, DataPart

LEMMA WriterRecvKeeps ==
  ASSUME IInv, NEW c \in Conn, WriterRecv(c)
  PROVE  IInv'
<1>1. ThreadPart' /\ RequestInv' /\ LockInv'
  BY NoThreadMoves DEF WriterRecv, connVars, inVars, workVars
<1> DEFINE q == sendCh[c]
           b == buffer[c]
<1>2. /\ q \in Seq(User) /\ q # <<>> /\ b \in Seq(User)
      /\ sendCh \in [Conn -> Seq(User)] /\ buffer \in [Conn -> Seq(User)]
  BY DEF IInv, TypeOK, OutOK, WriterRecv
<1>3. /\ Head(q) \in User /\ 1 \in DOMAIN q /\ Head(q) = q[1]
      /\ Tail(q) \in Seq(User) /\ Len(Tail(q)) = Len(q) - 1
      /\ \A i \in DOMAIN Tail(q) : i + 1 \in DOMAIN q /\ Tail(q)[i] = q[i + 1]
  BY <1>2, HeadTailFacts
<1>4. /\ Append(b, Head(q)) \in Seq(User)
      /\ \A i \in DOMAIN Append(b, Head(q)) :
            \/ Append(b, Head(q))[i] = Head(q)
            \/ i \in DOMAIN b /\ Append(b, Head(q))[i] = b[i]
  BY <1>2, <1>3, AppendFacts
<1>5. /\ sendCh' = [sendCh EXCEPT ![c] = Tail(q)]
      /\ buffer' = [buffer EXCEPT ![c] = Append(b, Head(q))]
      /\ UNCHANGED userId
  BY DEF WriterRecv, connVars
<1>6. OutOK'
  <2>1. sendCh' \in [Conn -> Seq(User)] /\ buffer' \in [Conn -> Seq(User)]
    BY <1>2, <1>3, <1>4, <1>5
  <2>2. Len(q) \in Nat /\ Len(q) <= SendCap
    BY <1>2 DEF IInv, TypeOK, OutOK
  <2>3. \A d \in Conn : Len(sendCh'[d]) <= SendCap
    <3>1. Len(Tail(q)) <= SendCap
      BY <1>3, <2>2, CapAssumption
    <3>2. QED
      BY <1>2, <1>5, <3>1 DEF IInv, TypeOK, OutOK
  <2>4. writer' \in [Conn -> {"none", "select", "flush", "keepLive", "done"}]
    BY DEF IInv, TypeOK, OutOK, WriterRecv
  <2>5. QED
    BY <2>1, <2>3, <2>4 DEF OutOK
<1>7. NoMisdelivery'
  <2>1. q[1] = userId[c] /\ \A i \in DOMAIN Tail(q) : Tail(q)[i] = userId[c]
    BY <1>3 DEF IInv, NoMisdelivery
  <2>2. \A i \in DOMAIN Append(b, Head(q)) : Append(b, Head(q))[i] = userId[c]
    BY <1>3, <1>4, <2>1 DEF IInv, NoMisdelivery
  <2>3. QED
    BY <1>2, <1>5, <2>1, <2>2 DEF IInv, NoMisdelivery
<1>8. DataPart'
  BY <1>6, <1>7 DEF IInv, TypeOK, ConnOK, RegOK, InOK, ProcOK, RegistryOwner, DataPart,
     WriterRecv, connVars, regVars, inVars, procVars
<1>9. QED
  BY <1>1, <1>8 DEF IInv, TypeOK, ThreadPart, DataPart

LEMMA WriterTickKeeps ==
  ASSUME IInv, NEW c \in Conn, WriterTick(c)
  PROVE  IInv'
<1>1. ThreadPart' /\ RequestInv' /\ LockInv'
  BY NoThreadMoves DEF WriterTick, connVars, regVars, inVars, workVars, procVars
<1>2. DataPart'
  BY DataFrame DEF IInv, TypeOK, ConnOK, OutOK, RegOK, InOK, ProcOK, WriterTick,
     connVars, regVars, inVars, workVars, procVars
<1>3. QED
  BY <1>1, <1>2 DEF IInv, TypeOK, ThreadPart, DataPart

LEMMA WriterFlushKeeps ==
  ASSUME IInv, NEW c \in Conn, WriterFlush(c)
  PROVE  IInv'
<1>1. ThreadPart' /\ RequestInv' /\ LockInv'
  BY NoThreadMoves DEF WriterFlush, connVars, inVars, workVars
<1>2. /\ buffer' = buffer \/ buffer' = [buffer EXCEPT ![c] = <<>>]
      /\ writer' \in [Conn -> {"none", "select", "flush", "keepLive", "done"}]
  BY DEF IInv, TypeOK, OutOK, WriterFlush, AfterFailedWrite
<1>3. UNCHANGED <<sendCh, userId>> /\ buffer \in [Conn -> Seq(User)]
  BY DEF IInv, TypeOK, OutOK, WriterFlush, connVars
<1>4. <<>> \in Seq(User) /\ DOMAIN <<>> = {}
  OBVIOUS
<1>5. buffer' \in [Conn -> Seq(User)] /\ \A d \in Conn : buffer'[d] \in {<<>>, buffer[d]}
  <2>1. CASE buffer' = buffer
    BY <1>3, <2>1
  <2>2. CASE buffer' = [buffer EXCEPT ![c] = <<>>]
    BY <1>3, <1>4, <2>2
  <2>3. QED
    BY <1>2, <2>1, <2>2
<1>6. OutOK'
  BY <1>2, <1>3, <1>5 DEF IInv, TypeOK, OutOK
<1>7. NoMisdelivery'
  <2> SUFFICES ASSUME NEW d \in Conn, NEW i \in DOMAIN buffer'[d]
               PROVE  buffer'[d][i] = userId[d]
    BY <1>3 DEF IInv, NoMisdelivery
  <2>1. buffer'[d] = buffer[d]
    BY <1>4, <1>5
  <2>2. QED
    BY <2>1 DEF IInv, NoMisdelivery
<1>8. DataPart'
  BY <1>6, <1>7 DEF IInv, TypeOK, ConnOK, RegOK, InOK, ProcOK, RegistryOwner, DataPart,
     WriterFlush, connVars, regVars, inVars, procVars
<1>9. QED
  BY <1>1, <1>8 DEF IInv, TypeOK, ThreadPart, DataPart

LEMMA WriterKeepLiveKeeps ==
  ASSUME IInv, NEW c \in Conn, WriterKeepLive(c)
  PROVE  IInv'
<1>1. ThreadPart' /\ RequestInv' /\ LockInv'
  BY NoThreadMoves DEF WriterKeepLive, regVars, inVars, workVars, procVars
<1>2. DataPart'
  BY DataFrame DEF IInv, TypeOK, ConnOK, OutOK, RegOK, InOK, ProcOK, WriterKeepLive,
     regVars, inVars, workVars, procVars
<1>3. QED
  BY <1>1, <1>2 DEF IInv, TypeOK, ThreadPart, DataPart

LEMMA WriterExitKeeps ==
  ASSUME IInv, NEW c \in Conn, WriterExit(c)
  PROVE  IInv'
<1>1. ThreadPart' /\ RequestInv' /\ LockInv'
  BY NoThreadMoves DEF WriterExit, connVars, regVars, inVars, workVars, procVars
<1>2. DataPart'
  BY DataFrame DEF IInv, TypeOK, ConnOK, OutOK, RegOK, InOK, ProcOK, WriterExit,
     connVars, regVars, inVars, workVars, procVars
<1>3. QED
  BY <1>1, <1>2 DEF IInv, TypeOK, ThreadPart, DataPart

LEMMA GoStaleKeeps ==
  ASSUME IInv, NEW c \in Conn, GoStale(c)
  PROVE  IInv'
<1>1. ThreadPart' /\ RequestInv' /\ LockInv'
  BY NoThreadMoves DEF GoStale, outVars, regVars, inVars, workVars, procVars
<1>2. DataPart'
  BY DataFrame DEF IInv, TypeOK, ConnOK, OutOK, RegOK, InOK, ProcOK, GoStale,
     outVars, regVars, inVars, workVars, procVars
<1>3. QED
  BY <1>1, <1>2 DEF IInv, TypeOK, ThreadPart, DataPart

LEMMA KeyExpireKeeps ==
  ASSUME IInv, NEW u \in User, KeyExpire(u)
  PROVE  IInv'
<1>1. ThreadPart' /\ RequestInv' /\ LockInv'
  BY NoThreadMoves DEF KeyExpire, connVars, outVars, inVars, workVars, procVars
<1>2. DataPart'
  BY DataFrame DEF IInv, TypeOK, ConnOK, OutOK, RegOK, InOK, ProcOK, KeyExpire,
     connVars, outVars, inVars, workVars, procVars
<1>3. QED
  BY <1>1, <1>2 DEF IInv, TypeOK, ThreadPart, DataPart

LEMMA ShutdownDoneKeeps ==
  ASSUME IInv, ShutdownDone
  PROVE  IInv'
<1>1. ThreadPart' /\ RequestInv' /\ LockInv'
  BY NoThreadMoves DEF ShutdownDone, connVars, outVars, regVars, inVars, workVars
<1>2. DataPart'
  BY DataFrame DEF IInv, TypeOK, ConnOK, OutOK, RegOK, InOK, ProcOK, ShutdownDone,
     connVars, outVars, regVars, inVars, workVars
<1>3. QED
  BY <1>1, <1>2 DEF IInv, TypeOK, ThreadPart, DataPart

LEMMA SignalStopKeeps ==
  ASSUME IInv, SignalStop
  PROVE  IInv'
<1>1. /\ UNCHANGED <<userId, isClose, taskQueue, held, on, job, dest, tgt>>
      /\ PcOK /\ OnOK /\ WorkOK
  BY DEF SignalStop, connVars, inVars, workVars, IInv, TypeOK
<1>2. /\ \A c \in Conn : /\ pc'[Reader(c)] = pc[Reader(c)]
                         /\ pc'[Closer(c)] \in {pc[Closer(c)], "stopLock"}
      /\ \A w \in Worker : pc'[Pooled(w)] = pc[Pooled(w)]
      /\ pc'[HB] = pc[HB]
  BY ThreadKinds DEF SignalStop, Reader, Closer, Pooled, HB
<1>3. PcOK'
  <2>1. pc' \in [Thread -> ReaderLabel \cup WorkerLabel \cup HbLabel \cup CloserLabel]
    BY <1>1 DEF SignalStop, PcOK, CloserLabel, StopLabel
  <2>2. QED
    BY <1>1, <1>2, <2>1 DEF PcOK, CloserLabel, StopLabel
<1>4. OnOK' /\ WorkOK'
  BY <1>1 DEF OnOK, WorkOK
<1>5. JobInv' /\ HbInv'
  BY <1>1, <1>2, JobFrame, HbFrame DEF IInv, JobInv
<1>6. RequestInv'
  BY <1>1, <1>2, RequestFrame DEF IInv
<1>7. LockInv'
  <2>1. \A t \in Thread : pc'[t] = pc[t] \/ pc'[t] = "stopLock"
    BY <1>1, <1>2, ThreadKinds
  <2>2. "stopLock" \notin StopSection \cup Closing \cup Reading
    BY DEF StopSection, Closing, Reading
  <2>3. QED
    BY <1>1, <2>1, <2>2, LockFrame DEF IInv
<1>8. DataPart'
  BY DataFrame DEF IInv, TypeOK, ConnOK, OutOK, RegOK, InOK, ProcOK, SignalStop,
     connVars, outVars, regVars, inVars
<1>9. QED
  BY <1>3, <1>4, <1>5, <1>6, <1>7, <1>8 DEF IInv, TypeOK, DataPart

LEMMA HbTickKeeps ==
  ASSUME IInv, HbTick
  PROVE  IInv'
<1>1. "scan" \in HbLabel /\ "scan" \notin StopSection
  BY DEF HbLabel, StopLabel, StopSection
<1>2. pc'[HB] = "scan" /\ Goto(HB, "scan")
  BY GotoFacts, ThreadKinds DEF IInv, TypeOK, HbTick
<1>3. /\ on' \in [Thread -> Conn \cup {NoConn}] /\ HbInv'
      /\ \A t \in Thread : t # HB => on'[t] = on[t]
  BY <1>2, ThreadKinds DEF IInv, TypeOK, OnOK, ProcOK, HbInv, StopLabel, StopSection, HbTick
<1>4. ThreadPart' /\ RequestInv' /\ LockInv'
  BY <1>1, <1>2, <1>3, HbMoves DEF HbTick, connVars, inVars, workVars
<1>5. DataPart'
  <2>1. ProcOK'
    BY DEF IInv, TypeOK, ProcOK, RegOK, HbTick, Registered, procVars
  <2>2. QED
    BY <2>1, DataFrame DEF IInv, TypeOK, ConnOK, OutOK, RegOK, InOK, HbTick,
       connVars, outVars, regVars, inVars
<1>6. QED
  BY <1>4, <1>5 DEF IInv, TypeOK, ThreadPart, DataPart

LEMMA HbCheckKeeps ==
  ASSUME IInv, NEW c \in Conn, HbCheck(c)
  PROVE  IInv'
<1>1. "alive" \in HbLabel /\ "alive" \notin StopSection
  BY DEF HbLabel, StopLabel, StopSection
<1>2. pc'[HB] = "alive" /\ Goto(HB, "alive")
  BY GotoFacts, ThreadKinds DEF IInv, TypeOK, HbCheck
<1>3. /\ on' \in [Thread -> Conn \cup {NoConn}] /\ HbInv'
      /\ \A t \in Thread : t # HB => on'[t] = on[t]
  BY <1>2, ThreadKinds DEF IInv, TypeOK, OnOK, ProcOK, HbInv, StopLabel, StopSection, HbCheck
<1>4. ThreadPart' /\ RequestInv' /\ LockInv'
  BY <1>1, <1>2, <1>3, HbMoves DEF HbCheck, connVars, inVars, workVars
<1>5. DataPart'
  <2>1. ProcOK'
    BY DEF IInv, TypeOK, ProcOK, RegOK, HbCheck, Registered, procVars
  <2>2. QED
    BY <2>1, DataFrame DEF IInv, TypeOK, ConnOK, OutOK, RegOK, InOK, HbCheck,
       connVars, outVars, regVars, inVars
<1>6. QED
  BY <1>4, <1>5 DEF IInv, TypeOK, ThreadPart, DataPart

LEMMA HbAliveKeeps ==
  ASSUME IInv, HbAlive
  PROVE  IInv'
<1>1. PICK l \in {"stopLock", "scan"} :
         /\ Goto(HB, l)
         /\ on' = IF l = "scan" THEN [on EXCEPT ![HB] = NoConn] ELSE on
  BY DEF HbAlive
<1>2. l \in HbLabel /\ l \notin StopSection
  BY DEF HbLabel, StopLabel, StopSection
<1>3. pc'[HB] = l
  BY <1>1, GotoFacts, ThreadKinds DEF IInv, TypeOK
<1>4. /\ on' \in [Thread -> Conn \cup {NoConn}]
      /\ \A t \in Thread : t # HB => on'[t] = on[t]
  BY <1>1 DEF IInv, TypeOK, OnOK
<1>5. HbInv'
  BY <1>1, <1>3 DEF IInv, HbInv, HbAlive, StopLabel, StopSection
<1>6. ThreadPart' /\ RequestInv' /\ LockInv'
  BY <1>1, <1>2, <1>4, <1>5, HbMoves DEF HbAlive, connVars, inVars, workVars
<1>7. DataPart'
  BY DataFrame DEF IInv, TypeOK, ConnOK, OutOK, RegOK, InOK, ProcOK, HbAlive,
     connVars, outVars, regVars, inVars, procVars
<1>8. QED
  BY <1>6, <1>7 DEF IInv, TypeOK, ThreadPart, DataPart

LEMMA HbDoneKeeps ==
  ASSUME IInv, HbDone
  PROVE  IInv'
<1>1. "idle" \in HbLabel /\ "idle" \notin StopSection
  BY DEF HbLabel, StopLabel, StopSection
<1>2. pc'[HB] = "idle" /\ Goto(HB, "idle")
  BY GotoFacts, ThreadKinds DEF IInv, TypeOK, HbDone
<1>3. /\ on' \in [Thread -> Conn \cup {NoConn}] /\ HbInv'
      /\ \A t \in Thread : t # HB => on'[t] = on[t]
  BY <1>2, ThreadKinds DEF IInv, TypeOK, OnOK, ProcOK, HbInv, StopLabel, StopSection, HbDone
<1>4. ThreadPart' /\ RequestInv' /\ LockInv'
  BY <1>1, <1>2, <1>3, HbMoves DEF HbDone, connVars, inVars, workVars
<1>5. DataPart'
  <2>1. ProcOK'
    BY DEF IInv, TypeOK, ProcOK, RegOK, HbDone, Registered, procVars
  <2>2. QED
    BY <2>1, DataFrame DEF IInv, TypeOK, ConnOK, OutOK, RegOK, InOK, HbDone,
       connVars, outVars, regVars, inVars
<1>6. QED
  BY <1>4, <1>5 DEF IInv, TypeOK, ThreadPart, DataPart

LEMMA HbQuitKeeps ==
  ASSUME IInv, HbQuit
  PROVE  IInv'
<1>1. "done" \in HbLabel /\ "done" \notin StopSection
  BY DEF HbLabel, StopLabel, StopSection
<1>2. pc'[HB] = "done" /\ Goto(HB, "done")
  BY GotoFacts, ThreadKinds DEF IInv, TypeOK, HbQuit
<1>3. /\ on' \in [Thread -> Conn \cup {NoConn}] /\ HbInv'
      /\ \A t \in Thread : t # HB => on'[t] = on[t]
  BY <1>2, ThreadKinds DEF IInv, TypeOK, OnOK, ProcOK, HbInv, StopLabel, StopSection, HbQuit
<1>4. ThreadPart' /\ RequestInv' /\ LockInv'
  BY <1>1, <1>2, <1>3, HbMoves DEF HbQuit, connVars, inVars, workVars
<1>5. DataPart'
  <2>1. ProcOK'
    BY DEF IInv, TypeOK, ProcOK, RegOK, HbQuit, Registered, procVars
  <2>2. QED
    BY <2>1, DataFrame DEF IInv, TypeOK, ConnOK, OutOK, RegOK, InOK, HbQuit,
       connVars, outVars, regVars, inVars
<1>6. QED
  BY <1>4, <1>5 DEF IInv, TypeOK, ThreadPart, DataPart

----------------------------------------------------------------------------
(* The workers.                                                            *)

\* A request a worker takes is proper and its own, and so are those it leaves.
LEMMA TakesFacts ==
  ASSUME IInv, NEW w \in Worker, NEW r \in Req, Takes(w, r)
  PROVE  /\ Proper(r) /\ WorkerOf[r.conn] = w /\ r.conn \in Conn
         /\ taskQueue' \in [Worker -> Seq(Req)]
         /\ \A v \in Worker : Len(taskQueue'[v]) <= TaskCap
         /\ \A v \in Worker : \A i \in DOMAIN taskQueue'[v] :
               Proper(taskQueue'[v][i]) /\ WorkerOf[taskQueue'[v][i].conn] = v
<1> DEFINE q == taskQueue[w]
<1>1. /\ taskQueue \in [Worker -> Seq(Req)] /\ q \in Seq(Req) /\ q # <<>> /\ r = Head(q)
      /\ taskQueue' = [taskQueue EXCEPT ![w] = Tail(q)]
      /\ Len(q) \in Nat /\ \A v \in Worker : Len(taskQueue[v]) <= TaskCap
  BY DEF IInv, TypeOK, InOK, Takes
<1>2. /\ 1 \in DOMAIN q /\ Head(q) = q[1]
      /\ Tail(q) \in Seq(Req) /\ Len(Tail(q)) = Len(q) - 1
      /\ \A i \in DOMAIN Tail(q) : i + 1 \in DOMAIN q /\ Tail(q)[i] = q[i + 1]
  BY <1>1, HeadTailFacts
<1>3. /\ Proper(r) /\ WorkerOf[r.conn] = w
      /\ \A i \in DOMAIN Tail(q) : Proper(Tail(q)[i]) /\ WorkerOf[Tail(q)[i].conn] = w
  BY <1>1, <1>2 DEF IInv, RequestInv
<1>4. Len(Tail(q)) <= TaskCap
  BY <1>1, <1>2, CapAssumption
<1>5. \A v \in Worker : taskQueue'[v] = IF v = w THEN Tail(q) ELSE taskQueue[v]
  BY <1>1
<1>6. \A v \in Worker : \A i \in DOMAIN taskQueue'[v] :
         Proper(taskQueue'[v][i]) /\ WorkerOf[taskQueue'[v][i].conn] = v
  BY <1>3, <1>5 DEF IInv, RequestInv
<1>7. r.conn \in Conn
  BY DEF Req
<1>8. QED
  BY <1>1, <1>2, <1>3, <1>4, <1>5, <1>6, <1>7

\* The rest of the invariant when a worker takes a request.
LEMMA TakeKeepsData ==
  ASSUME IInv, NEW w \in Worker, NEW r \in Req, Takes(w, r),
         UNCHANGED <<connVars, outVars, regVars, held, reads, procVars>>
  PROVE  DataPart'
<1>1. InOK'
  BY TakesFacts DEF IInv, TypeOK, InOK
<1>2. ConnOK' /\ OutOK' /\ RegOK' /\ ProcOK' /\ RegistryOwner' /\ NoMisdelivery'
  BY DEF IInv, TypeOK, ConnOK, OutOK, RegOK, ProcOK, RegistryOwner, NoMisdelivery,
     connVars, outVars, regVars, procVars
<1>3. QED
  BY <1>1, <1>2 DEF DataPart

LEMMA TakeKeepsRequests ==
  ASSUME IInv, NEW w \in Worker, NEW r \in Req, Takes(w, r), UNCHANGED <<held, userId>>,
         \A c \in Conn : pc'[Reader(c)] = pc[Reader(c)]
  PROVE  RequestInv'
<1>1. \A q : Proper(q) <=> Proper(q)'
  BY DEF Proper
<1>2. \A v \in Worker : \A i \in DOMAIN taskQueue'[v] :
         Proper(taskQueue'[v][i]) /\ WorkerOf[taskQueue'[v][i].conn] = v
  BY TakesFacts
<1>3. QED
  BY <1>1, <1>2 DEF IInv, RequestInv, Proper

\* Worker w begins a SendMsg.
LEMMA CallSendMsgKeeps ==
  ASSUME IInv, NEW w \in Worker, NEW c \in Conn, NEW u \in User, CallSendMsg(w, c, u),
         UNCHANGED <<userId, isClose>>, job' \in [Worker -> Req \cup {NoReq}],
         \A v \in Worker : v # w => job'[v] = job[v],
         Proper(job'[w]), WorkerOf[job'[w].conn] = w, userId[job'[w].conn] \in User,
         userId[c] = u
  PROVE  ThreadPart' /\ LockInv'
<1>1. /\ Goto(Pooled(w), "sendLock") /\ on' = [on EXCEPT ![Pooled(w)] = c]
      /\ dest' = [dest EXCEPT ![w] = u] /\ tgt' = [tgt EXCEPT ![w] = NoConn]
  BY DEF CallSendMsg
<1>2. /\ "sendLock" \in WorkerLabel /\ "sendLock" \notin StopSection \cup Reading
      /\ "sendLock" \notin BeforeSetUserId
  BY DEF WorkerLabel, StopSection, Reading, BeforeSetUserId, StopLabel
<1>3. /\ on \in [Thread -> Conn \cup {NoConn}] /\ Pooled(w) \in Thread /\ PcOK
      /\ dest \in [Worker -> User \cup {NoUser}] /\ tgt \in [Worker -> Conn \cup {NoConn}]
  BY ThreadKinds DEF IInv, TypeOK, OnOK, WorkOK
<1>4. /\ on' \in [Thread -> Conn \cup {NoConn}] /\ on'[Pooled(w)] = c
      /\ \A t \in Thread : t # Pooled(w) => on'[t] = on[t]
  BY <1>1, <1>3
<1>5. WorkOK' /\ dest'[w] = u
      /\ \A v \in Worker : v # w => dest'[v] = dest[v] /\ tgt'[v] = tgt[v]
  BY <1>1, <1>3 DEF WorkOK
<1>6. pc'[Pooled(w)] = "sendLock"
  BY <1>1, <1>3, GotoFacts
<1>7. JobAt(w)'
  BY <1>2, <1>4, <1>5, <1>6 DEF JobAt, JobOf, SendPart, Proper
<1>8. ThreadPart'
  BY <1>1, <1>2, <1>4, <1>5, <1>7, WorkerMoves
<1>9. LockInv'
  BY <1>1, <1>2, <1>4, WorkerTakesNoLock
<1>10. QED
  BY <1>8, <1>9

\* Worker w is done with its request.
LEMMA FinishKeeps ==
  ASSUME IInv, NEW w \in Worker, Finish(w), UNCHANGED <<userId, isClose>>
  PROVE  ThreadPart' /\ LockInv'
<1>1. /\ Goto(Pooled(w), "idle") /\ on' = [on EXCEPT ![Pooled(w)] = NoConn]
      /\ job' = [job EXCEPT ![w] = NoReq] /\ dest' = [dest EXCEPT ![w] = NoUser]
      /\ tgt' = [tgt EXCEPT ![w] = NoConn]
  BY DEF Finish
<1>2. /\ "idle" \in WorkerLabel /\ "idle" \notin StopSection \cup Reading \cup Sending
      /\ "idle" \notin BeforeSetUserId
  BY DEF WorkerLabel, StopSection, Reading, Sending, BeforeSetUserId, StopLabel
<1>3. on \in [Thread -> Conn \cup {NoConn}] /\ Pooled(w) \in Thread /\ PcOK /\ WorkOK
  BY ThreadKinds DEF IInv, TypeOK, OnOK
<1>4. /\ on' \in [Thread -> Conn \cup {NoConn}]
      /\ \A t \in Thread : t # Pooled(w) => on'[t] = on[t]
  BY <1>1, <1>3
<1>5. WorkOK' /\ \A v \in Worker : v # w => /\ job'[v] = job[v] /\ dest'[v] = dest[v]
                                            /\ tgt'[v] = tgt[v]
  BY <1>1, <1>3 DEF WorkOK
<1>6. pc'[Pooled(w)] = "idle"
  BY <1>1, <1>3, GotoFacts
<1>7. JobAt(w)'
  BY <1>2, <1>6 DEF JobAt
<1>8. ThreadPart'
  BY <1>1, <1>2, <1>4, <1>5, <1>7, WorkerMoves
<1>9. LockInv'
  BY <1>1, <1>2, <1>4, WorkerTakesNoLock
<1>10. QED
  BY <1>8, <1>9

\* Worker w goes on with the same call, without a lock.
LEMMA SameCall ==
  ASSUME IInv, NEW w \in Worker, NEW l \in WorkerLabel, l \notin StopSection \cup Reading,
         Goto(Pooled(w), l), UNCHANGED <<userId, isClose, on, job, dest, tgt>>, JobAt(w)'
  PROVE  ThreadPart' /\ LockInv'
<1>1. on' \in [Thread -> Conn \cup {NoConn}] /\ WorkOK'
  BY DEF IInv, TypeOK, OnOK, WorkOK
<1>2. QED
  BY <1>1, WorkerMoves, WorkerTakesNoLock

LEMMA SkipReqKeeps ==
  ASSUME IInv, NEW w \in Worker, SkipReq(w)
  PROVE  IInv'
<1>1. PICK r \in Req : Takes(w, r)
  BY DEF SkipReq
<1>2. DataPart'
  BY <1>1, TakeKeepsData DEF SkipReq
<1>3. RequestInv'
  BY <1>1, TakeKeepsRequests DEF SkipReq, connVars
<1>4. UNCHANGED <<userId, isClose, pc, on, job, dest, tgt>>
  BY DEF SkipReq, connVars, workVars
<1>5. PcOK' /\ OnOK' /\ WorkOK'
  BY <1>4 DEF IInv, TypeOK, PcOK, OnOK, WorkOK
<1>6. JobInv' /\ HbInv' /\ LockInv'
  BY <1>4, JobFrame, HbFrame, LockFrame DEF IInv, JobInv
<1>7. QED
  BY <1>2, <1>3, <1>5, <1>6 DEF IInv, TypeOK, DataPart

LEMMA StartLoginKeeps ==
  ASSUME IInv, NEW w \in Worker, StartLogin(w)
  PROVE  IInv'
<1>1. PICK r \in Req :
         /\ Takes(w, r) /\ r.op = "login" /\ ~LoggedInHere(r.conn)
         /\ job' = [job EXCEPT ![w] = r] /\ on' = [on EXCEPT ![Pooled(w)] = r.conn]
         /\ Goto(Pooled(w), "getOnline")
  BY DEF StartLogin
<1>2. Proper(r) /\ WorkerOf[r.conn] = w /\ r.conn \in Conn /\ userId[r.conn] = NoUser
  BY <1>1, TakesFacts DEF LoggedInHere
<1>3. UNCHANGED <<userId, isClose, held, dest, tgt>>
  BY DEF StartLogin, connVars, callVars
<1>4. /\ "getOnline" \in WorkerLabel /\ "getOnline" \notin StopSection \cup Reading
      /\ "getOnline" \notin Sending
  BY DEF WorkerLabel, StopSection, Reading, Sending
<1>5. on \in [Thread -> Conn \cup {NoConn}] /\ Pooled(w) \in Thread /\ PcOK /\ WorkOK
  BY ThreadKinds DEF IInv, TypeOK, OnOK
<1>6. /\ on' \in [Thread -> Conn \cup {NoConn}] /\ on'[Pooled(w)] = r.conn
      /\ \A t \in Thread : t # Pooled(w) => on'[t] = on[t]
  BY <1>1, <1>2, <1>5
<1>7. WorkOK' /\ job'[w] = r /\ \A v \in Worker : v # w => job'[v] = job[v]
  BY <1>1, <1>3, <1>5 DEF WorkOK
<1>8. /\ pc'[Pooled(w)] = "getOnline"
      /\ \A t \in Thread : t # Pooled(w) => pc'[t] = pc[t]
  BY <1>1, <1>5, GotoFacts
<1>9. JobAt(w)'
  BY <1>1, <1>2, <1>3, <1>4, <1>6, <1>7, <1>8 DEF JobAt, JobOf, LoginPart, Proper
<1>10. ThreadPart' /\ LockInv'
  BY <1>1, <1>3, <1>4, <1>6, <1>7, <1>9, WorkerMoves, WorkerTakesNoLock
<1>11. RequestInv'
  BY <1>1, <1>3, <1>8, TakeKeepsRequests, ThreadKinds, ThreadsDiffer
<1>12. DataPart'
  BY <1>1, TakeKeepsData DEF StartLogin
<1>13. QED
  BY <1>10, <1>11, <1>12 DEF IInv, TypeOK, ThreadPart, DataPart

LEMMA StartMessageKeeps ==
  ASSUME IInv, NEW w \in Worker, StartMessage(w)
  PROVE  IInv'
<1>1. PICK r \in Req :
         /\ Takes(w, r) /\ r.op = "message"
         /\ job' = [job EXCEPT ![w] = r] /\ on' = [on EXCEPT ![Pooled(w)] = r.conn]
         /\ dest' = [dest EXCEPT ![w] = r.arg] /\ Goto(Pooled(w), "lookup")
  BY DEF StartMessage
<1>2. Proper(r) /\ WorkerOf[r.conn] = w /\ r.conn \in Conn /\ r.arg \in User
  BY <1>1, TakesFacts DEF Proper, Req
<1>3. UNCHANGED <<userId, isClose, held, tgt>>
  BY DEF StartMessage, connVars
<1>4. /\ "lookup" \in WorkerLabel /\ "lookup" \notin StopSection \cup Reading
      /\ "lookup" \notin Sending \cup BeforeSetUserId
  BY DEF WorkerLabel, StopSection, Reading, Sending, BeforeSetUserId, StopLabel
<1>5. on \in [Thread -> Conn \cup {NoConn}] /\ Pooled(w) \in Thread /\ PcOK /\ WorkOK
  BY ThreadKinds DEF IInv, TypeOK, OnOK
<1>6. /\ on' \in [Thread -> Conn \cup {NoConn}] /\ on'[Pooled(w)] = r.conn
      /\ \A t \in Thread : t # Pooled(w) => on'[t] = on[t]
  BY <1>1, <1>2, <1>5
<1>7. /\ WorkOK' /\ job'[w] = r /\ dest'[w] = r.arg
      /\ \A v \in Worker : v # w => job'[v] = job[v] /\ dest'[v] = dest[v]
  BY <1>1, <1>2, <1>3, <1>5 DEF WorkOK
<1>8. /\ pc'[Pooled(w)] = "lookup"
      /\ \A t \in Thread : t # Pooled(w) => pc'[t] = pc[t]
  BY <1>1, <1>5, GotoFacts
<1>9. JobAt(w)'
  BY <1>1, <1>2, <1>3, <1>4, <1>6, <1>7, <1>8 DEF JobAt, JobOf, LookPart, Proper
<1>10. ThreadPart' /\ LockInv'
  BY <1>1, <1>3, <1>4, <1>6, <1>7, <1>9, WorkerMoves, WorkerTakesNoLock
<1>11. RequestInv'
  BY <1>1, <1>3, <1>8, TakeKeepsRequests, ThreadKinds, ThreadsDiffer
<1>12. DataPart'
  BY <1>1, TakeKeepsData DEF StartMessage
<1>13. QED
  BY <1>10, <1>11, <1>12 DEF IInv, TypeOK, ThreadPart, DataPart

LEMMA StartSyncKeeps ==
  ASSUME IInv, NEW w \in Worker, StartSync(w)
  PROVE  IInv'
<1>1. PICK r \in Req : /\ Takes(w, r) /\ r.op = "sync" /\ job' = [job EXCEPT ![w] = r]
                       /\ CallSendMsg(w, r.conn, userId[r.conn])
  BY DEF StartSync
<1>2. /\ Proper(r) /\ WorkerOf[r.conn] = w /\ r.conn \in Conn
      /\ userId[r.conn] \in User
  BY <1>1, TakesFacts DEF Proper, IInv, TypeOK, ConnOK
<1>3. UNCHANGED <<userId, isClose, held>>
  BY DEF StartSync, connVars
<1>4. /\ job' \in [Worker -> Req \cup {NoReq}] /\ job'[w] = r
      /\ \A v \in Worker : v # w => job'[v] = job[v]
  BY <1>1 DEF IInv, TypeOK, WorkOK
<1>5. ThreadPart' /\ LockInv'
  BY <1>1, <1>2, <1>3, <1>4, CallSendMsgKeeps
<1>6. \A c \in Conn : pc'[Reader(c)] = pc[Reader(c)]
  BY <1>1, GotoFacts, ThreadKinds, ThreadsDiffer DEF IInv, TypeOK, CallSendMsg
<1>7. RequestInv'
  BY <1>1, <1>3, <1>6, TakeKeepsRequests
<1>8. DataPart'
  BY <1>1, TakeKeepsData DEF StartSync
<1>9. QED
  BY <1>5, <1>7, <1>8 DEF IInv, TypeOK, ThreadPart, DataPart

LEMMA LoginGetKeeps ==
  ASSUME IInv, NEW w \in Worker, LoginGet(w)
  PROVE  IInv'
<1>1. PICK l \in {"stopLock", "setOnline"} : Goto(Pooled(w), l)
  BY DEF LoginGet
<1>2. UNCHANGED <<userId, isClose, taskQueue, held, on, job, dest, tgt>>
  BY DEF LoginGet, connVars, inVars, workVars
<1>3. l \in WorkerLabel /\ l \notin StopSection \cup Reading /\ l \in BeforeSetUserId
  BY DEF WorkerLabel, StopLabel, StopSection, Reading, BeforeSetUserId
<1>4. pc'[Pooled(w)] = l
  BY <1>1, GotoFacts, ThreadKinds DEF IInv, TypeOK
<1>5. JobAt(w)'
  <2>1. JobOf(w) /\ LoginPart(w)
    BY DEF IInv, JobInv, JobAt, LoginGet, At, BeforeSetUserId
  <2>2. JobOf(w)' /\ LoginPart(w)'
    BY <1>2, <2>1 DEF JobOf, LoginPart, Proper
  <2>3. QED
    BY <1>4, <2>2 DEF JobAt, Sending
<1>6. ThreadPart' /\ LockInv'
  BY <1>1, <1>2, <1>3, <1>5, SameCall
<1>7. RequestInv'
  BY <1>1, <1>2, WorkerKeepsRequests
<1>8. DataPart'
  BY DataFrame DEF IInv, TypeOK, ConnOK, OutOK, RegOK, InOK, ProcOK, LoginGet,
     connVars, outVars, regVars, inVars, procVars
<1>9. QED
  BY <1>6, <1>7, <1>8 DEF IInv, TypeOK, ThreadPart, DataPart

LEMMA LoginSetKeeps ==
  ASSUME IInv, NEW w \in Worker, LoginSet(w)
  PROVE  IInv'
<1>1. UNCHANGED <<userId, isClose, taskQueue, held>>
  BY DEF LoginSet, connVars, inVars
<1>2. DataPart'
  <2>1. online' \in [User -> BOOLEAN]
    BY DEF IInv, TypeOK, RegOK, LoginSet
  <2>2. QED
    BY <2>1, DataFrame DEF IInv, TypeOK, ConnOK, OutOK, InOK, ProcOK, LoginSet,
       connVars, outVars, inVars, procVars
<1>3. CASE Goto(Pooled(w), "setUserId") /\ UNCHANGED <<on, workVars>>
  <2>1. /\ "setUserId" \in WorkerLabel /\ "setUserId" \notin StopSection \cup Reading
        /\ "setUserId" \notin Sending
    BY DEF WorkerLabel, StopSection, Reading, Sending
  <2>2. pc'[Pooled(w)] = "setUserId"
    BY <1>3, GotoFacts, ThreadKinds DEF IInv, TypeOK
  <2>3. JobOf(w) /\ LoginPart(w)
    BY DEF IInv, JobInv, JobAt, LoginSet, At, BeforeSetUserId
  <2>4. JobAt(w)'
    BY <1>1, <1>3, <2>1, <2>2, <2>3 DEF JobAt, JobOf, LoginPart, Proper, workVars
  <2>5. ThreadPart' /\ LockInv' /\ RequestInv'
    BY <1>1, <1>3, <2>1, <2>4, SameCall, WorkerKeepsRequests DEF workVars
  <2>6. QED
    BY <1>2, <2>5 DEF IInv, TypeOK, ThreadPart, DataPart
<1>4. CASE Finish(w)
  <2>1. ThreadPart' /\ LockInv' /\ RequestInv'
    BY <1>1, <1>4, FinishKeeps, WorkerKeepsRequests DEF Finish
  <2>2. QED
    BY <1>2, <2>1 DEF IInv, TypeOK, ThreadPart, DataPart
<1>5. QED
  BY <1>3, <1>4 DEF LoginSet

\* Only the worker of a connection handles its requests, so nobody else has
\* looked at UserId and found it unset.
LEMMA LoginUserKeeps ==
  ASSUME IInv, NEW w \in Worker, LoginUser(w)
  PROVE  IInv'
<1> DEFINE c == job[w].conn
           u == job[w].arg
<1>1. /\ Goto(Pooled(w), "addConn") /\ userId' = [userId EXCEPT ![c] = u]
      /\ UNCHANGED <<isClose, sendCh, buffer, connMap, taskQueue, held, on, job, dest, tgt>>
  BY DEF LoginUser, outVars, regVars, inVars, workVars
<1>2. /\ JobOf(w) /\ LoginPart(w) /\ WorkerOf[c] = w
      /\ c \in Conn /\ u \in User /\ userId[c] = NoUser
  BY DEF IInv, JobInv, JobAt, LoginUser, At, BeforeSetUserId, JobOf, LoginPart, Proper, Req
<1>3. u # NoUser /\ \A x \in User : x # NoUser
  BY <1>2, SentinelAssumption
<1>4. userId \in [Conn -> User \cup {NoUser}] /\ PcOK /\ OnOK /\ WorkOK
  BY DEF IInv, TypeOK, ConnOK
<1>5. userId'[c] = u /\ \A d : d # c => userId'[d] = userId[d]
  BY <1>1, <1>2, <1>4
<1>6. /\ pc'[Pooled(w)] = "addConn"
      /\ \A t \in Thread : t # Pooled(w) => pc'[t] = pc[t]
  BY <1>1, <1>4, GotoFacts, ThreadKinds
<1>7. \A q : Proper(q) => Proper(q)'
  BY <1>3, <1>5 DEF Proper
<1>8. JobInv'
  <2> SUFFICES ASSUME NEW v \in Worker PROVE JobAt(v)'
    BY DEF JobInv
  <2>1. CASE v = w
    <3>1. "addConn" \notin BeforeSetUserId \cup Sending
      BY DEF BeforeSetUserId, Sending, StopLabel, StopSection
    <3>2. JobOf(w)' /\ AddPart(w)'
      BY <1>1, <1>2, <1>5, <1>7 DEF JobOf, LoginPart, AddPart, Proper
    <3>3. QED
      BY <1>6, <2>1, <3>1, <3>2 DEF JobAt
  <2>2. CASE v # w
    <3>1. pc'[Pooled(v)] = pc[Pooled(v)] /\ on'[Pooled(v)] = on[Pooled(v)] /\ JobAt(v)
      BY <1>1, <1>6, <2>2, ThreadKinds, ThreadsDiffer DEF IInv, JobInv
    <3>2. CASE pc[Pooled(v)] = "idle"
      BY <3>1, <3>2 DEF JobAt, BeforeSetUserId, Sending, StopLabel, StopSection
    <3>3. CASE pc[Pooled(v)] # "idle"
      <4>1. JobOf(v) /\ job[v].conn # c
        BY <1>2, <2>2, <3>1, <3>3 DEF JobAt, JobOf
      <4>2. /\ JobOf(v)'
            /\ LoginPart(v) => LoginPart(v)'
            /\ AddPart(v) => AddPart(v)'
            /\ LookPart(v) => LookPart(v)'
            /\ SendPart(v) => SendPart(v)'
        BY <1>1, <1>2, <1>3, <1>5, <1>7, <3>1, <4>1
           DEF JobOf, LoginPart, AddPart, LookPart, SendPart, Proper
      <4>3. SendPart(v) /\ PutPart(v) => PutPart(v)'
        BY <1>1, <1>2, <1>3, <1>5 DEF SendPart, PutPart
      <4>4. QED
        BY <3>1, <4>2, <4>3 DEF JobAt, Sending
    <3>4. QED
      BY <3>2, <3>3
  <2>3. QED
    BY <2>1, <2>2
<1>9. PcOK'
  <2>1. "addConn" \in WorkerLabel
    BY DEF WorkerLabel
  <2>2. QED
    BY <1>1, <1>4, <2>1, GotoTyped, ThreadKinds, ThreadsDiffer
<1>10. OnOK' /\ WorkOK' /\ HbInv'
  BY <1>1, <1>4, <1>6, HbFrame, ThreadKinds, ThreadsDiffer DEF IInv, OnOK, WorkOK
<1>11. LockInv'
  <2>1. "addConn" \notin StopSection \cup Reading
    BY DEF StopSection, Reading
  <2>2. QED
    BY <1>1, <2>1, WorkerTakesNoLock
<1>12. RequestInv'
  <2>1. \A d \in Conn : pc'[Reader(d)] = pc[Reader(d)]
    BY <1>6, ThreadKinds, ThreadsDiffer
  <2>2. QED
    BY <1>1, <1>3, <1>5, <2>1, RequestFrame DEF IInv
<1>13. ConnOK'
  BY <1>1, <1>2 DEF IInv, TypeOK, ConnOK, LoginUser
<1>14. RegistryOwner'
  BY <1>1, <1>2, <1>3, <1>5 DEF IInv, RegistryOwner
<1>15. NoMisdelivery'
  <2>1. /\ \A i \in DOMAIN sendCh[c] : sendCh[c][i] \in User /\ sendCh[c][i] = NoUser
        /\ \A i \in DOMAIN buffer[c] : buffer[c][i] \in User /\ buffer[c][i] = NoUser
    BY <1>2 DEF IInv, TypeOK, OutOK, NoMisdelivery
  <2>2. QED
    BY <1>1, <1>3, <1>5, <2>1 DEF IInv, NoMisdelivery
<1>16. OutOK' /\ RegOK' /\ InOK' /\ ProcOK'
  BY DEF IInv, TypeOK, OutOK, RegOK, InOK, ProcOK, LoginUser, outVars, regVars, inVars,
     procVars
<1>17. QED
  BY <1>8, <1>9, <1>10, <1>11, <1>12, <1>13, <1>14, <1>15, <1>16 DEF IInv, TypeOK

LEMMA LoginAddKeeps ==
  ASSUME IInv, NEW w \in Worker, LoginAdd(w)
  PROVE  IInv'
<1> DEFINE c == job[w].conn
           u == job[w].arg
<1>1. /\ JobOf(w) /\ AddPart(w) /\ Proper(job[w]) /\ WorkerOf[c] = w
      /\ c \in Conn /\ u \in User /\ userId[c] = u
  BY DEF IInv, JobInv, JobAt, LoginAdd, At, JobOf, AddPart, Proper, Req
<1>2. /\ CallSendMsg(w, c, u) /\ connMap' = [connMap EXCEPT ![u] = c]
      /\ UNCHANGED <<userId, isClose, sendCh, buffer, online, taskQueue, held, job>>
  BY DEF LoginAdd, connVars, outVars, inVars
<1>3. ThreadPart' /\ LockInv'
  BY <1>1, <1>2, CallSendMsgKeeps DEF IInv, TypeOK, WorkOK
<1>4. RequestInv'
  BY <1>2, WorkerKeepsRequests DEF CallSendMsg
<1>5. RegOK' /\ RegistryOwner'
  <2>1. connMap \in [User -> Conn \cup {NoConn}]
    BY DEF IInv, TypeOK, RegOK
  <2>2. connMap' \in [User -> Conn \cup {NoConn}]
        /\ \A x \in User : connMap'[x] = IF x = u THEN c ELSE connMap[x]
    BY <1>1, <1>2, <2>1
  <2>3. QED
    BY <1>1, <1>2, <2>2 DEF IInv, TypeOK, RegOK, RegistryOwner
<1>6. DataPart'
  BY <1>5 DEF IInv, TypeOK, ConnOK, OutOK, InOK, ProcOK, NoMisdelivery, DataPart,
     LoginAdd, connVars, outVars, inVars, procVars
<1>7. QED
  BY <1>3, <1>4, <1>6 DEF IInv, TypeOK, ThreadPart, DataPart

\* The ACK is sent when the connection of the request has a user.
LEMMA SendAckKeeps ==
  ASSUME IInv, NEW w \in Worker, SendAck(w), JobOf(w), userId[job[w].conn] \in User,
         UNCHANGED <<userId, isClose, job>>
  PROVE  ThreadPart' /\ LockInv'
<1>1. /\ Proper(job[w]) /\ WorkerOf[job[w].conn] = w /\ job[w].conn \in Conn
      /\ job' \in [Worker -> Req \cup {NoReq}]
  BY DEF JobOf, Proper, Req, IInv, TypeOK, WorkOK
<1>2. QED
  BY <1>1, CallSendMsgKeeps DEF SendAck

LEMMA LookupKeeps ==
  ASSUME IInv, NEW w \in Worker, Lookup(w)
  PROVE  IInv'
<1>1. /\ JobOf(w) /\ LookPart(w) /\ userId[job[w].conn] \in User
      /\ pc[Pooled(w)] = "lookup"
  BY DEF IInv, TypeOK, ConnOK, JobInv, JobAt, Lookup, At, JobOf, LookPart, Proper, Req
<1>2. UNCHANGED <<userId, isClose, taskQueue, held>>
  BY DEF Lookup, connVars, inVars
<1>3. DataPart'
  BY DataFrame DEF IInv, TypeOK, ConnOK, OutOK, RegOK, InOK, ProcOK, Lookup,
     connVars, outVars, regVars, inVars, procVars
<1>4. CASE Goto(Pooled(w), "getConn") /\ UNCHANGED <<on, workVars>>
  <2>1. /\ "getConn" \in WorkerLabel /\ "getConn" \notin StopSection \cup Reading
        /\ "getConn" \notin BeforeSetUserId \cup Sending
    BY DEF WorkerLabel, StopSection, Reading, BeforeSetUserId, StopLabel, Sending
  <2>2. pc'[Pooled(w)] = "getConn"
    BY <1>4, GotoFacts, ThreadKinds DEF IInv, TypeOK
  <2>3. JobAt(w)'
    BY <1>1, <1>2, <1>4, <2>1, <2>2 DEF JobAt, JobOf, LookPart, Proper, workVars
  <2>4. ThreadPart' /\ LockInv' /\ RequestInv'
    BY <1>2, <1>4, <2>1, <2>3, SameCall, WorkerKeepsRequests DEF workVars
  <2>5. QED
    BY <1>3, <2>4 DEF IInv, TypeOK, ThreadPart, DataPart
<1>5. CASE SendAck(w) /\ UNCHANGED job
  <2>1. ThreadPart' /\ LockInv' /\ RequestInv'
    BY <1>1, <1>2, <1>5, SendAckKeeps, WorkerKeepsRequests DEF SendAck, CallSendMsg
  <2>2. QED
    BY <1>3, <2>1 DEF IInv, TypeOK, ThreadPart, DataPart
<1>6. CASE Finish(w)
  <2>1. ThreadPart' /\ LockInv' /\ RequestInv'
    BY <1>2, <1>6, FinishKeeps, WorkerKeepsRequests DEF Finish
  <2>2. QED
    BY <1>3, <2>1 DEF IInv, TypeOK, ThreadPart, DataPart
<1>7. QED
  BY <1>4, <1>5, <1>6 DEF Lookup

LEMMA DeliverKeeps ==
  ASSUME IInv, NEW w \in Worker, Deliver(w)
  PROVE  IInv'
<1>1. /\ JobOf(w) /\ LookPart(w) /\ userId[job[w].conn] \in User
      /\ Proper(job[w]) /\ WorkerOf[job[w].conn] = w /\ dest[w] \in User
  BY DEF IInv, TypeOK, ConnOK, JobInv, JobAt, Deliver, At, JobOf, LookPart, Proper, Req
<1>2. UNCHANGED <<userId, isClose, taskQueue, held>>
  BY DEF Deliver, connVars, inVars
<1>3. DataPart'
  BY DataFrame DEF IInv, TypeOK, ConnOK, OutOK, RegOK, InOK, ProcOK, Deliver,
     connVars, outVars, regVars, inVars, procVars
<1>4. CASE connMap[dest[w]] # NoConn /\ CallSendMsg(w, connMap[dest[w]], dest[w])
             /\ UNCHANGED job
  <2>1. /\ connMap[dest[w]] \in Conn /\ job' \in [Worker -> Req \cup {NoReq}]
        /\ userId[connMap[dest[w]]] = dest[w]
    BY <1>1, <1>4 DEF IInv, TypeOK, RegOK, WorkOK, RegistryOwner
  <2>2. ThreadPart' /\ LockInv'
    BY <1>1, <1>2, <1>4, <2>1, CallSendMsgKeeps
  <2>3. RequestInv'
    BY <1>2, <1>4, WorkerKeepsRequests DEF CallSendMsg
  <2>4. QED
    BY <1>3, <2>2, <2>3 DEF IInv, TypeOK, ThreadPart, DataPart
<1>5. CASE Finish(w)
  <2>1. ThreadPart' /\ LockInv' /\ RequestInv'
    BY <1>2, <1>5, FinishKeeps, WorkerKeepsRequests DEF Finish
  <2>2. QED
    BY <1>3, <2>1 DEF IInv, TypeOK, ThreadPart, DataPart
<1>6. QED
  BY <1>4, <1>5 DEF Deliver

\* A SendMsg of worker w returns, and the handler answers or ends.
LEMMA SendReturnKeeps ==
  ASSUME IInv, NEW w \in Worker, SendReturn(w), JobOf(w), userId[job[w].conn] \in User,
         UNCHANGED <<userId, isClose, taskQueue, held>>
  PROVE  ThreadPart' /\ LockInv' /\ RequestInv'
<1>1. CASE SendAck(w) /\ UNCHANGED job
  BY <1>1, SendAckKeeps, WorkerKeepsRequests DEF SendAck, CallSendMsg
<1>2. CASE Finish(w)
  BY <1>2, FinishKeeps, WorkerKeepsRequests DEF Finish
<1>3. QED
  BY <1>1, <1>2 DEF SendReturn

LEMMA SendLockKeeps ==
  ASSUME IInv, NEW w \in Worker, SendLock(w)
  PROVE  IInv'
<1>1. /\ JobOf(w) /\ SendPart(w) /\ pc[Pooled(w)] = "sendLock"
      /\ userId[job[w].conn] \in User /\ Pooled(w) \in Thread
  BY ThreadKinds DEF IInv, JobInv, JobAt, SendLock, At, SendPart, Sending
<1>2. UNCHANGED <<userId, isClose, taskQueue, held>>
  BY DEF SendLock, connVars, inVars
<1>3. DataPart'
  BY DataFrame DEF IInv, TypeOK, ConnOK, OutOK, RegOK, InOK, ProcOK, SendLock,
     connVars, outVars, regVars, inVars, procVars
<1>4. CASE SendReturn(w)
  <2>1. ThreadPart' /\ LockInv' /\ RequestInv'
    BY <1>1, <1>2, <1>4, SendReturnKeeps
  <2>2. QED
    BY <1>3, <2>1 DEF IInv, TypeOK, ThreadPart, DataPart
<1>5. CASE /\ ~isClose[on[Pooled(w)]] /\ Goto(Pooled(w), "sendLoad")
           /\ UNCHANGED <<on, workVars>>
  <2>1. /\ "sendLoad" \in WorkerLabel /\ "sendLoad" \notin StopSection
        /\ "sendLoad" \notin BeforeSetUserId
    BY DEF WorkerLabel, StopSection, BeforeSetUserId, StopLabel
  <2>2. /\ pc'[Pooled(w)] = "sendLoad" /\ UNCHANGED <<on, job, dest, tgt>>
        /\ \A t \in Thread : t # Pooled(w) => pc'[t] = pc[t]
    BY <1>1, <1>5, GotoFacts DEF IInv, TypeOK, workVars
  <2>3. JobAt(w)'
    BY <1>1, <1>2, <2>1, <2>2 DEF JobAt, JobOf, SendPart, Proper
  <2>4. ThreadPart'
    <3>1. on' \in [Thread -> Conn \cup {NoConn}] /\ WorkOK'
      BY <2>2 DEF IInv, TypeOK, OnOK, WorkOK
    <3>2. QED
      BY <1>2, <1>5, <2>1, <2>2, <2>3, <3>1, WorkerMoves
  <2>5. LockInv'
    <3>1. \A t \in Thread : on[t] = on[Pooled(w)] => pc[t] \notin StopSection
      BY DEF SendLock, Announced
    <3>2. \A t \in Thread : on[t] = on[Pooled(w)] => pc[t] \notin Closing
      BY <3>1, LabelFacts
    <3>3. "sendLoad" \in Reading /\ "sendLoad" \notin Closing /\ "sendLoad" \notin StopSection
      BY DEF Reading, Closing, StopSection
    <3>4. QED
      BY <1>2, <1>5, <2>2, <3>2, <3>3 DEF IInv, LockInv
  <2>6. RequestInv'
    BY <1>2, <1>5, WorkerKeepsRequests
  <2>7. QED
    BY <1>3, <2>4, <2>5, <2>6 DEF IInv, TypeOK, ThreadPart, DataPart
<1>6. QED
  BY <1>4, <1>5 DEF SendLock

\* The Conn found in connMap belongs to the user the message is for.
LEMMA SendLoadKeeps ==
  ASSUME IInv, NEW w \in Worker, SendLoad(w)
  PROVE  IInv'
<1>1. /\ JobOf(w) /\ SendPart(w) /\ pc[Pooled(w)] = "sendLoad" /\ dest[w] \in User
      /\ userId[job[w].conn] \in User /\ Pooled(w) \in Thread
  BY ThreadKinds DEF IInv, JobInv, JobAt, SendLoad, At, SendPart, Sending
<1>2. UNCHANGED <<userId, isClose, taskQueue, held>>
  BY DEF SendLoad, connVars, inVars
<1>3. DataPart'
  BY DataFrame DEF IInv, TypeOK, ConnOK, OutOK, RegOK, InOK, ProcOK, SendLoad,
     connVars, outVars, regVars, inVars, procVars
<1>4. CASE SendReturn(w)
  <2>1. ThreadPart' /\ LockInv' /\ RequestInv'
    BY <1>1, <1>2, <1>4, SendReturnKeeps
  <2>2. QED
    BY <1>3, <2>1 DEF IInv, TypeOK, ThreadPart, DataPart
<1>5. CASE /\ connMap[dest[w]] # NoConn
           /\ tgt' = [tgt EXCEPT ![w] = connMap[dest[w]]]
           /\ Goto(Pooled(w), "sendPut")
           /\ UNCHANGED <<on, job, dest>>
  <2>1. /\ "sendPut" \in WorkerLabel /\ "sendPut" \notin StopSection
        /\ "sendPut" \notin BeforeSetUserId
    BY DEF WorkerLabel, StopSection, BeforeSetUserId, StopLabel
  <2>2. /\ pc'[Pooled(w)] = "sendPut"
        /\ \A t \in Thread : t # Pooled(w) => pc'[t] = pc[t]
    BY <1>1, <1>5, GotoFacts DEF IInv, TypeOK
  <2>3. connMap[dest[w]] \in Conn /\ userId[connMap[dest[w]]] = dest[w]
    BY <1>1, <1>5 DEF IInv, TypeOK, RegOK, RegistryOwner
  <2>4. WorkOK' /\ tgt'[w] = connMap[dest[w]] /\ \A v \in Worker : v # w => tgt'[v] = tgt[v]
    BY <1>5, <2>3 DEF IInv, TypeOK, WorkOK
  <2>5. JobAt(w)'
    BY <1>1, <1>2, <1>5, <2>1, <2>2, <2>3, <2>4
       DEF JobAt, JobOf, SendPart, PutPart, Proper
  <2>6. ThreadPart'
    <3>1. on' \in [Thread -> Conn \cup {NoConn}]
      BY <1>5 DEF IInv, TypeOK, OnOK
    <3>2. QED
      BY <1>2, <1>5, <2>1, <2>4, <2>5, <3>1, WorkerMoves
  <2>7. LockInv'
    <3>1. "sendLoad" \in Reading
      BY DEF Reading
    <3>2. "sendPut" \notin Closing
      BY DEF Closing
    <3>3. QED
      BY <1>1, <1>2, <1>5, <2>1, <2>2, <3>1, <3>2, LockFrame DEF IInv
  <2>8. RequestInv'
    BY <1>2, <1>5, WorkerKeepsRequests
  <2>9. QED
    BY <1>3, <2>6, <2>7, <2>8 DEF IInv, TypeOK, ThreadPart, DataPart
<1>6. QED
  BY <1>4, <1>5 DEF SendLoad

LEMMA SendPutKeeps ==
  ASSUME IInv, NEW w \in Worker, SendPut(w)
  PROVE  IInv'
<1> DEFINE c == tgt[w]
           q == sendCh[c]
<1>1. /\ JobOf(w) /\ SendPart(w) /\ PutPart(w)
      /\ userId[job[w].conn] \in User /\ c \in Conn /\ dest[w] \in User
      /\ userId[c] = dest[w]
  BY DEF IInv, JobInv, JobAt, SendPut, At, SendPart, PutPart, Sending
<1>2. /\ UNCHANGED <<userId, isClose, sock, stale, buffer, writer, connMap, online>>
      /\ UNCHANGED <<taskQueue, held, reads, hbTodo, shutdown>>
  BY DEF SendPut, connVars, regVars, inVars
<1>3. ConnOK' /\ RegOK' /\ InOK' /\ RegistryOwner'
  BY <1>2 DEF IInv, TypeOK, ConnOK, RegOK, InOK, RegistryOwner
<1>4. CASE panicked' = TRUE /\ UNCHANGED <<sendCh, pc, on, workVars>>
  <2>1. ThreadPart' /\ RequestInv' /\ LockInv'
    BY <1>2, <1>4, NoThreadMoves DEF workVars
  <2>2. DataPart'
    BY <1>2, <1>3, <1>4 DEF IInv, TypeOK, OutOK, ProcOK, NoMisdelivery, DataPart
  <2>3. QED
    BY <2>1, <2>2 DEF IInv, TypeOK, ThreadPart, DataPart
<1>5. CASE /\ HasRoom(c) /\ sendCh' = [sendCh EXCEPT ![c] = Append(q, dest[w])]
           /\ SendReturn(w) /\ UNCHANGED panicked
  <2>1. ThreadPart' /\ RequestInv' /\ LockInv'
    BY <1>1, <1>2, <1>5, SendReturnKeeps
  <2>2. sendCh \in [Conn -> Seq(User)] /\ q \in Seq(User) /\ Len(q) \in Nat
    BY <1>1 DEF IInv, TypeOK, OutOK
  <2>3. /\ Append(q, dest[w]) \in Seq(User)
        /\ Len(Append(q, dest[w])) = Len(q) + 1
        /\ \A i \in DOMAIN Append(q, dest[w]) :
              \/ Append(q, dest[w])[i] = dest[w]
              \/ i \in DOMAIN q /\ Append(q, dest[w])[i] = q[i]
    BY <1>1, <2>2, AppendFacts
  <2>4. \A d \in Conn : sendCh'[d] = IF d = c THEN Append(q, dest[w]) ELSE sendCh[d]
    BY <1>5, <2>2
  <2>5. OutOK'
    <3>1. sendCh' \in [Conn -> Seq(User)]
      BY <1>1, <1>5, <2>2, <2>3
    <3>2. Len(q) + 1 <= SendCap
      BY <1>5, <2>2, CapAssumption DEF HasRoom
    <3>3. QED
      BY <1>2, <2>3, <2>4, <3>1, <3>2 DEF IInv, TypeOK, OutOK
  <2>6. NoMisdelivery'
    <3>1. \A i \in DOMAIN q : q[i] = userId[c]
      BY <1>1 DEF IInv, NoMisdelivery
    <3>2. \A i \in DOMAIN Append(q, dest[w]) : Append(q, dest[w])[i] = userId[c]
      BY <1>1, <2>3, <3>1
    <3>3. \A d \in Conn : \A i \in DOMAIN sendCh'[d] : sendCh'[d][i] = userId[d]
      BY <2>4, <3>2 DEF IInv, NoMisdelivery
    <3>4. QED
      BY <1>2, <3>3 DEF IInv, NoMisdelivery
  <2>7. ProcOK'
    BY <1>2, <1>5 DEF IInv, TypeOK, ProcOK
  <2>8. QED
    BY <1>3, <2>1, <2>5, <2>6, <2>7 DEF IInv, TypeOK, ThreadPart
<1>6. QED
  BY <1>4, <1>5 DEF SendPut

----------------------------------------------------------------------------
(* The theorems.                                                           *)

LEMMA InitHolds == Init => IInv
<1> SUFFICES ASSUME Init PROVE IInv
  OBVIOUS
<1>1. /\ \A c \in Conn : pc[Reader(c)] = "new" /\ pc[Closer(c)] = "idle"
      /\ \A w \in Worker : pc[Pooled(w)] = "idle"
      /\ pc[HB] = "idle"
      /\ \A c \in Conn : on[Reader(c)] = c /\ on[Closer(c)] = c
  BY ThreadKinds DEF Init, Reader, Closer, Pooled, HB
<1>2. \A t \in Thread : pc[t] \notin StopSection \cup Reading
  BY <1>1, ThreadKinds DEF StopSection, Reading
<1>3. PcOK
  BY <1>1 DEF Init, PcOK, ReaderLabel, WorkerLabel, HbLabel, CloserLabel
<1>4. OnOK
  <2>1. on \in [Thread -> Conn \cup {NoConn}]
    BY DEF Init, Thread, HB
  <2>2. QED
    BY <1>1, <2>1 DEF OnOK
<1>5. ConnOK /\ RegOK /\ WorkOK /\ ProcOK
  BY DEF Init, ConnOK, RegOK, WorkOK, ProcOK
<1>6. InOK /\ OutOK
  <2>1. <<>> \in Seq(User) /\ <<>> \in Seq(Req) /\ Len(<<>>) = 0
    OBVIOUS
  <2>2. OutOK
    BY <2>1, CapAssumption DEF Init, OutOK
  <2>3. InOK
    BY <2>1, CapAssumption DEF Init, InOK
  <2>4. QED
    BY <2>2, <2>3
<1>7. RequestInv
  BY <1>1 DEF Init, RequestInv
<1>8. JobInv
  BY <1>1 DEF JobInv, JobAt, BeforeSetUserId, StopLabel, StopSection, Sending
<1>9. HbInv
  BY <1>1 DEF HbInv, StopLabel, StopSection
<1>10. LockInv
  BY <1>2, LabelFacts DEF LockInv
<1>11. RegistryOwner /\ NoMisdelivery
  BY DEF Init, RegistryOwner, NoMisdelivery
<1>12. QED
  BY <1>3, <1>4, <1>5, <1>6, <1>7, <1>8, <1>9, <1>10, <1>11 DEF IInv, TypeOK

LEMMA StutterKeeps == ASSUME IInv, UNCHANGED vars PROVE IInv'
<1>1. ThreadPart' /\ RequestInv' /\ LockInv'
  BY NoThreadMoves DEF vars, connVars, inVars, workVars
<1>2. DataPart'
  BY DataFrame DEF IInv, TypeOK, ConnOK, OutOK, RegOK, InOK, ProcOK, vars, connVars,
     outVars, regVars, inVars, procVars
<1>3. QED
  BY <1>1, <1>2 DEF IInv, TypeOK, ThreadPart, DataPart

LEMMA NextKeeps == IInv /\ [Next]_vars => IInv'
<1> SUFFICES ASSUME IInv, [Next]_vars PROVE IInv'
  OBVIOUS
<1>1. CASE \E c \in Conn : ConnStep(c)
  BY <1>1, ConnectKeeps, ReadFrameKeeps, ReaderKeepLiveKeeps, EnqueueKeeps, ReadErrorKeeps,
     WriterRecvKeeps, WriterTickKeeps, WriterFlushKeeps, WriterKeepLiveKeeps,
     WriterExitKeeps, GoStaleKeeps
     DEF ConnStep, WriterStep
<1>2. CASE \E t \in Thread : Stop(t)
  BY <1>2, StopLockKeeps, StopAgainKeeps, StopEnterKeeps, StopUnmapKeeps,
     StopOfflineKeeps, StopFinishKeeps DEF Stop
<1>3. CASE \E w \in Worker : WorkerStep(w)
  BY <1>3, SkipReqKeeps, StartLoginKeeps, StartMessageKeeps, StartSyncKeeps, LoginGetKeeps,
     LoginSetKeeps, LoginUserKeeps, LoginAddKeeps, LookupKeeps, DeliverKeeps,
     SendLockKeeps, SendLoadKeeps, SendPutKeeps
     DEF WorkerStep
<1>4. CASE HbStep
  BY <1>4, HbTickKeeps, HbCheckKeeps, HbAliveKeeps, HbDoneKeeps, HbQuitKeeps DEF HbStep
<1>5. CASE SignalStop \/ ShutdownDone
  BY <1>5, SignalStopKeeps, ShutdownDoneKeeps
<1>6. CASE \E u \in User : KeyExpire(u)
  BY <1>6, KeyExpireKeeps
<1>7. CASE UNCHANGED vars
  BY <1>7, StutterKeeps
<1>8. QED
  BY <1>1, <1>2, <1>3, <1>4, <1>5, <1>6, <1>7 DEF Next

\* The invariant of GatewayInv holds in every reachable state.
THEOREM Invariance == Spec => []IInv
BY InitHolds, NextKeeps, PTL DEF Spec

\* Every variable keeps its type, and no channel exceeds its capacity.
THEOREM TypeCorrect == Spec => []TypeOK
<1>1. IInv => TypeOK
  BY DEF IInv
<1>2. QED
  BY <1>1, Invariance, PTL

\* connMap maps a user to a connection that user logged in on, or to none.
THEOREM RegistrySafe == Spec => []RegistryOwner
<1>1. IInv => RegistryOwner
  BY DEF IInv
<1>2. QED
  BY <1>1, Invariance, PTL

\* No message ever waits to be written to somebody else than its receiver.
THEOREM DeliverySafe == Spec => []NoMisdelivery
<1>1. IInv => NoMisdelivery
  BY DEF IInv
<1>2. QED
  BY <1>1, Invariance, PTL

\* Of all threads that stop a connection one at a time has the mutex, it finds
\* the connection not yet closed, and the channels are closed once.
THEOREM CloseOnce == Spec => []OneCloser
<1>1. IInv => OneCloser
  <2> SUFFICES ASSUME IInv, NEW t \in Thread, pc[t] \in Closing
               PROVE  /\ ~isClose[on[t]]
                      /\ \A other \in Thread \ {t} :
                            on[other] = on[t] => pc[other] \notin StopSection
    BY DEF OneCloser
  <2>1. QED
    BY LabelFacts DEF IInv, LockInv
<1>2. QED
  BY <1>1, Invariance, PTL

\* The read lock of a connection keeps its channel open under a SendMsg that
\* sends to that same connection.
THEOREM OwnSendSafe == Spec => []OwnChannelOpen
<1>1. IInv => OwnChannelOpen
  BY ThreadKinds DEF IInv, LockInv, OwnChannelOpen, Reading
<1>2. QED
  BY <1>1, Invariance, PTL

\* A user id once stored in a Conn is never replaced.
UserKept == \A c \in Conn : userId[c] # NoUser => userId'[c] = userId[c]

LEMMA UserIdStep == IInv /\ [Next]_vars => [UserKept]_vars
<1> SUFFICES ASSUME IInv, Next PROVE UserKept
  OBVIOUS
<1>1. CASE \E w \in Worker : LoginUser(w)
  <2>1. PICK w \in Worker : LoginUser(w)
    BY <1>1
  <2>2. userId[job[w].conn] = NoUser
    BY <2>1 DEF IInv, JobInv, JobAt, LoginUser, At, BeforeSetUserId, LoginPart
  <2>3. QED
    BY <2>1, <2>2 DEF IInv, TypeOK, ConnOK, LoginUser, UserKept
<1>2. CASE ~\E w \in Worker : LoginUser(w)
  <2>1. UNCHANGED userId
    BY <1>2 DEF Next, connVars, ConnStep, Connect, ReadFrame, ReaderKeepLive, Enqueue,
       ReadError, WriterStep, WriterRecv, WriterTick, WriterFlush, WriterKeepLive,
       WriterExit, GoStale, Stop, StopLock, StopAgain, StopEnter, StopUnmap, StopOffline,
       StopFinish, WorkerStep, SkipReq, StartLogin, StartMessage, StartSync, LoginGet,
       LoginSet, LoginAdd, Lookup, Deliver, SendLock, SendLoad, SendPut, HbStep, HbTick,
       HbCheck, HbAlive, HbDone, HbQuit, SignalStop, ShutdownDone, KeyExpire
  <2>2. QED
    BY <2>1 DEF UserKept
<1>3. QED
  BY <1>1, <1>2

\* Only the worker of a connection runs its Logins, one after the other.
THEOREM LoginOnce == Spec => UserIdSetOnce
<1>1. [UserKept]_vars <=> [\A c \in Conn : userId[c] # NoUser => userId'[c] = userId[c]]_vars
  BY DEF UserKept
<1>2. QED
  BY <1>1, UserIdStep, Invariance, PTL DEF Spec, UserIdSetOnce

\* What a thread that goes elsewhere leaves of RejectHarmless.
LEMMA StaysHarmless ==
  ASSUME PcOK, RejectHarmless, NEW t \in Thread, NEW l, Goto(t, l),
         (\E w \in Worker : t = Pooled(w)) => l \notin {"stopUnmap", "stopOffline"}
  PROVE  RejectHarmless'
BY GotoFacts, ThreadKinds DEF RejectHarmless

\* A worker that is past the Lock of Stop stops a connection nobody has logged
\* in on, so it goes from Enter to Finish.
LEMMA StopHarmless ==
  ASSUME IInv, RejectHarmless, NEW t \in Thread, Stop(t)
  PROVE  RejectHarmless'
<1>1. PcOK
  BY DEF IInv, TypeOK
<1>2. CASE StopLock(t)
  BY <1>1, <1>2, StaysHarmless DEF StopLock
<1>3. CASE StopAgain(t) \/ StopFinish(t)
  BY <1>1, <1>3, StaysHarmless, ReturnKinds DEF StopAgain, StopFinish, ReturnFromStop
<1>4. CASE StopEnter(t)
  <2>1. ASSUME NEW w \in Worker, t = Pooled(w) PROVE userId[on[t]] = NoUser
    BY <1>4, <2>1 DEF IInv, JobInv, JobAt, StopEnter, BeforeSetUserId, StopLabel,
       StopSection, LoginPart
  <2>2. QED
    BY <1>1, <1>4, <2>1, StaysHarmless DEF StopEnter
<1>5. CASE StopUnmap(t) \/ StopOffline(t)
  <2>1. \A w \in Worker : t # Pooled(w)
    BY <1>5 DEF StopUnmap, StopOffline, RejectHarmless
  <2>2. QED
    BY <1>1, <1>5, <2>1, StaysHarmless DEF StopUnmap, StopOffline
<1>6. QED
  BY <1>2, <1>3, <1>4, <1>5 DEF Stop

\* The handlers themselves never remove anything.
LEMMA WorkerHarmless ==
  ASSUME IInv, RejectHarmless, NEW w \in Worker, WorkerStep(w)
  PROVE  RejectHarmless'
<1>1. PcOK /\ Pooled(w) \in Thread
  BY ThreadKinds DEF IInv, TypeOK
<1>2. CASE SkipReq(w) \/ panicked' # panicked
  BY <1>2 DEF RejectHarmless, WorkerStep, SkipReq, StartLogin, StartMessage, StartSync,
     LoginGet, LoginSet, LoginUser, LoginAdd, Lookup, Deliver, SendLock, SendLoad, SendPut,
     procVars
<1>3. CASE StartLogin(w) \/ StartMessage(w) \/ StartSync(w)
  BY <1>1, <1>3, StaysHarmless DEF StartLogin, StartMessage, StartSync, CallSendMsg
<1>4. CASE LoginGet(w) \/ LoginSet(w) \/ LoginUser(w) \/ LoginAdd(w)
  BY <1>1, <1>4, StaysHarmless DEF LoginGet, LoginSet, LoginUser, LoginAdd, CallSendMsg, Finish
<1>5. CASE Lookup(w) \/ Deliver(w)
  BY <1>1, <1>5, StaysHarmless DEF Lookup, Deliver, SendAck, CallSendMsg, Finish
<1>6. CASE (SendLock(w) \/ SendLoad(w) \/ SendPut(w)) /\ panicked' = panicked
  <2>1. SendReturn(w) => RejectHarmless'
    BY <1>1, StaysHarmless DEF SendReturn, SendAck, CallSendMsg, Finish
  <2>2. Goto(Pooled(w), "sendLoad") \/ Goto(Pooled(w), "sendPut") => RejectHarmless'
    BY <1>1, StaysHarmless
  <2>3. UNCHANGED pc => RejectHarmless'
    BY DEF RejectHarmless
  <2>4. QED
    BY <1>6, <2>1, <2>2, <2>3 DEF SendLock, SendLoad, SendPut
<1>7. QED
  BY <1>2, <1>3, <1>4, <1>5, <1>6 DEF WorkerStep

\* A Login rejected because its user is online elsewhere takes nothing from
\* the connection that user is on.
THEOREM RejectSafe == Spec => []RejectHarmless
<1>1. Init => RejectHarmless
  BY ThreadKinds DEF Init, RejectHarmless, Pooled
<1>2. IInv /\ RejectHarmless /\ [Next]_vars => RejectHarmless'
  <2> SUFFICES ASSUME IInv, RejectHarmless, [Next]_vars PROVE RejectHarmless'
    OBVIOUS
  <2>1. PcOK
    BY DEF IInv, TypeOK
  <2>2. CASE \E t \in Thread : Stop(t)
    BY <2>2, StopHarmless
  <2>3. CASE \E w \in Worker : WorkerStep(w)
    BY <2>3, WorkerHarmless
  <2>4. CASE \E c \in Conn : Connect(c) \/ ReadFrame(c) \/ ReaderKeepLive(c) \/ Enqueue(c)
                             \/ ReadError(c)
    <3>1. UNCHANGED pc => RejectHarmless'
      BY DEF RejectHarmless
    <3>2. QED
      BY <2>1, <2>4, <3>1, StaysHarmless, ThreadKinds, ThreadsDiffer
         DEF Connect, ReadFrame, ReaderKeepLive, Enqueue, ReadError
  <2>5. CASE HbStep
    BY <2>1, <2>5, StaysHarmless, ThreadKinds, ThreadsDiffer
       DEF HbStep, HbTick, HbCheck, HbAlive, HbDone, HbQuit
  <2>6. CASE SignalStop
    BY <2>6, ThreadKinds DEF SignalStop, RejectHarmless, IInv, TypeOK, Pooled
  <2>7. CASE UNCHANGED pc
    BY <2>7 DEF RejectHarmless
  <2>8. QED
    BY <2>2, <2>3, <2>4, <2>5, <2>6, <2>7
       DEF Next, ConnStep, WriterStep, WriterRecv, WriterTick, WriterFlush, WriterKeepLive,
           WriterExit, GoStale, ShutdownDone, KeyExpire, vars
<1>3. QED
  BY <1>1, <1>2, Invariance, PTL DEF Spec

\* Only a send on a channel ends the process.
LEMMA PanicStep ==
  ASSUME Next, panicked' # panicked
  PROVE  panicked' /\ \E w \in Worker : SendPut(w)
BY DEF Next, procVars, ConnStep, Connect, ReadFrame, ReaderKeepLive, Enqueue,
   ReadError, WriterStep, WriterRecv, WriterTick, WriterFlush, WriterKeepLive,
   WriterExit, GoStale, Stop, StopLock, StopAgain, StopEnter, StopUnmap, StopOffline,
   StopFinish, WorkerStep, SkipReq, StartLogin, StartMessage, StartSync, LoginGet,
   LoginSet, LoginUser, LoginAdd, Lookup, Deliver, SendLock, SendLoad, SendPut, HbStep,
   HbTick, HbCheck, HbAlive, HbDone, HbQuit, SignalStop, ShutdownDone, KeyExpire

\* A panic takes two connections of one user: SendMsg holds the read lock of
\* the one and finds the channel of the other closed.
THEOREM PanicCause == Spec => []PanicNeedsTwoLogins
<1> DEFINE Shared == \E c, d \in Conn : c # d /\ userId[c] = userId[d] /\ userId[c] # NoUser
<1>1. Init => PanicNeedsTwoLogins
  BY DEF Init, PanicNeedsTwoLogins
<1>2. IInv /\ PanicNeedsTwoLogins /\ [Next]_vars => PanicNeedsTwoLogins'
  <2> SUFFICES ASSUME IInv, PanicNeedsTwoLogins, [Next]_vars PROVE PanicNeedsTwoLogins'
    OBVIOUS
  <2>1. Shared => Shared'
    BY UserIdStep DEF UserKept, vars, connVars
  <2>2. CASE \E w \in Worker : SendPut(w)
    <3>1. PICK w \in Worker : SendPut(w)
      BY <2>2
    <3>2. CASE ~isClose[tgt[w]]
      BY <2>1, <3>1, <3>2 DEF SendPut, PanicNeedsTwoLogins
    <3>3. CASE isClose[tgt[w]]
      <4>1. /\ pc[Pooled(w)] = "sendPut" /\ Pooled(w) \in Thread
            /\ JobOf(w) /\ SendPart(w) /\ PutPart(w)
        BY <3>1, ThreadKinds DEF IInv, JobInv, JobAt, SendPut, At, Sending
      <4>2. ~isClose[on[Pooled(w)]]
        BY <4>1 DEF IInv, LockInv, Reading
      <4>3. /\ tgt[w] \in Conn /\ on[Pooled(w)] \in Conn /\ tgt[w] # on[Pooled(w)]
            /\ userId[tgt[w]] = dest[w] /\ userId[on[Pooled(w)]] = dest[w]
            /\ dest[w] # NoUser
        BY <3>3, <4>1, <4>2, SentinelAssumption DEF JobOf, SendPart, PutPart
      <4>4. QED
        BY <2>1, <4>3 DEF PanicNeedsTwoLogins
    <3>4. QED
      BY <3>2, <3>3
  <2>3. CASE ~\E w \in Worker : SendPut(w)
    <3>1. panicked' = panicked
      BY <2>3, PanicStep DEF vars, procVars
    <3>2. QED
      BY <2>1, <3>1 DEF PanicNeedsTwoLogins
  <2>4. QED
    BY <2>2, <2>3
<1>3. QED
  BY <1>1, <1>2, Invariance, PTL DEF Spec
=============================================================================
