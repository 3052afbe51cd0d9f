------------------------------ MODULE Gateway ------------------------------
(***************************************************************************)
(* The connection layer of one gateway process (package service/ws): the   *)
(* Conn objects with their reader and writer goroutines, the worker pool   *)
(* that runs the request handlers, the table connMap of logged-in          *)
(* connections, the Redis key user_online_<id>, the heartbeat checker and  *)
(* Server.Stop.                                                            *)
(*                                                                         *)
(* A step is what a goroutine does between two points where another one    *)
(* can get in between: a lock that can block, a channel operation, one     *)
(* access to connMap, to Conn.UserId or to Redis.  What a handler does     *)
(* with sequence numbers, the message queue and the database touches none  *)
(* of this state; here it can only make the handler return early.          *)
(***************************************************************************)
EXTENDS Naturals, Sequences, FiniteSets
LOCAL INSTANCE Functions

CONSTANTS
  Conn,      \* Conn objects; each is created by at most one /ws request
  User,      \* user ids
  Worker,    \* worker goroutines of the pool
  WorkerOf,  \* Conn -> Worker: ConnId % len(taskQueue)
  NoConn,    \* nil *Conn
  NoUser,    \* UserId 0: not logged in
  Ops,       \* the commands the clients of a run send
  SendCap,   \* capacity of Conn.sendCh (10 in the code)
  BufLimit,  \* messages per batch of the writer (50 in the code)
  TaskCap,   \* capacity of a task queue (max_worker_task)
  MaxReads,  \* bound: commands read, over all connections
  Events     \* what may happen: "redis" errors, "ttl" expiry of the online key,
             \* "silent" clients, "write" errors on open sockets, heartbeat
             \* "check"s, "shutdown"

ASSUME WorkerOfAssumption == WorkerOf \in [Conn -> Worker]
ASSUME SentinelAssumption == NoConn \notin Conn /\ NoUser \notin User
ASSUME CapAssumption ==
  /\ SendCap \in Nat \ {0} /\ BufLimit \in Nat \ {0}
  /\ TaskCap \in Nat \ {0} /\ MaxReads \in Nat
ASSUME OpsAssumption ==
  /\ Ops \subseteq {"login", "message", "sync", "heartbeat"}
  /\ Events \subseteq {"redis", "ttl", "silent", "write", "check", "shutdown"}

VARIABLES
  \* The fields of a Conn.
  userId,     \* Conn -> the user logged in on it, or NoUser
  isClose,    \* Conn -> isClose; sendCh and exitCh are closed with it
  sock,       \* Conn -> "none" before the upgrade, "open", "closed"
  stale,      \* Conn -> lastHeartBeatTime is older than the timeout
  sendCh,     \* Conn -> messages waiting for the writer, each named by
              \*         the user it is addressed to
  buffer,     \* Conn -> messages of the writer's current batch
  writer,     \* Conn -> where the writer goroutine is
  \* Where the server keeps its sessions.
  connMap,    \* User -> the connection of a logged-in user, or NoConn
  online,     \* User -> the Redis key user_online_<id> exists
  \* Requests on their way to a worker.
  taskQueue,  \* Worker -> requests
  held,       \* Conn -> request its reader is about to queue
  reads,      \* Conn -> commands read so far
  \* Goroutines.
  pc,         \* Thread -> where it is
  on,         \* Thread -> the Conn whose method it runs
  job,        \* Worker -> the request it handles
  dest,       \* Worker -> the userId argument of its SendMsg call
  tgt,        \* Worker -> the Conn that SendMsg found in connMap
  hbTodo,     \* connections the heartbeat checker has still to look at
  shutdown,   \* "running", "stopping" (Server.Stop), "stopped"
  panicked    \* a goroutine panicked: the process is gone

connVars == <<userId, isClose, sock, stale>>
outVars  == <<sendCh, buffer, writer>>
regVars  == <<connMap, online>>
inVars   == <<taskQueue, held, reads>>
callVars == <<dest, tgt>>
workVars == <<job, dest, tgt>>
procVars == <<hbTodo, shutdown, panicked>>
vars == <<connVars, outVars, regVars, inVars, pc, on, workVars, procVars>>

----------------------------------------------------------------------------
Reader(c) == <<"reader", c>>   \* StartReader of c, which ends with c.Stop()
Closer(c) == <<"closer", c>>   \* the goroutine of Server.Stop that stops c
Pooled(w) == <<"worker", w>>   \* StartOneWorker
HB        == <<"heartbeat", NoConn>>   \* HeartbeatChecker.Start

Thread == ({"reader", "closer"} \X Conn) \cup ({"worker"} \X Worker) \cup {HB}

\* Where a thread is inside Conn.Stop once it has called isCloseMutex.Lock:
\* it waits for the read locks to go, or it holds the lock.
StopSection == {"stopEnter", "stopUnmap", "stopOffline", "stopFinish"}

NoReq == [conn |-> NoConn, op |-> "none", arg |-> NoUser]
Req == [conn : Conn, op : Ops, arg : User \cup {NoUser}]

\* A Login carries the user of its token, a message its receiver; the other
\* commands carry nothing this module looks at.
Commands(c) ==
  {r \in Req : r.conn = c /\ (r.op \in {"login", "message"} <=> r.arg # NoUser)}

Goto(t, label) == pc' = [pc EXCEPT ![t] = label]

Init ==
  /\ userId = [c \in Conn |-> NoUser]
  /\ isClose = [c \in Conn |-> FALSE]
  /\ sock = [c \in Conn |-> "none"]
  /\ stale = [c \in Conn |-> FALSE]
  /\ sendCh = [c \in Conn |-> <<>>]
  /\ buffer = [c \in Conn |-> <<>>]
  /\ writer = [c \in Conn |-> "none"]
  /\ connMap = [u \in User |-> NoConn]
  /\ online = [u \in User |-> FALSE]
  /\ taskQueue = [w \in Worker |-> <<>>]
  /\ held = [c \in Conn |-> NoReq]
  /\ reads = [c \in Conn |-> 0]
  /\ pc = [t \in Thread |-> IF t[1] = "reader" THEN "new" ELSE "idle"]
  /\ on = [t \in Thread |-> IF t[1] \in {"reader", "closer"} THEN t[2] ELSE NoConn]
  /\ job = [w \in Worker |-> NoReq]
  /\ dest = [w \in Worker |-> NoUser]
  /\ tgt = [w \in Worker |-> NoConn]
  /\ hbTodo = {}
  /\ shutdown = "running"
  /\ panicked = FALSE

----------------------------------------------------------------------------
(* Locks.  Their holders follow from the places of the threads.            *)

\* Fault seeded by the mutants: Stop looks at isClose without its mutex.
StopUnlocked(c) == FALSE

\* isCloseMutex of c is locked or asked for by Stop: a sync.RWMutex lets no
\* new reader in once Lock has been called.
Announced(c) == \E t \in Thread : on[t] = c /\ pc[t] \in StopSection

\* Fault seeded by the mutants: SendMsg takes no read lock.
SendUnlocked(c) == {}

\* The workers that hold the read lock of c in SendMsg.
ReadHolders(c) ==
  {w \in Worker : on[Pooled(w)] = c /\ pc[Pooled(w)] \in {"sendLoad", "sendPut"}}

\* Fault seeded by the mutants: IsAlive gives heartMutex back at once.
HeartNotHeld(c) == FALSE

\* heartMutex of c: IsAlive keeps it while it waits for the read lock.
HeartHeld(c) == on[HB] = c /\ pc[HB] = "alive"

----------------------------------------------------------------------------
(* Connecting and reading (router/ws.go, StartReader, HandlerMessage).     *)

\* A /ws request is upgraded: NewConnection, then Start.
Connect(c) ==
  /\ ~panicked
  /\ shutdown # "stopped"
  /\ pc[Reader(c)] = "new"
  /\ sock' = [sock EXCEPT ![c] = "open"]
  /\ writer' = [writer EXCEPT ![c] = "select"]
  /\ Goto(Reader(c), "read")
  /\ UNCHANGED <<userId, isClose, stale, sendCh, buffer, regVars, inVars,
                 on, workVars, procVars>>

\* Commands from a connection nobody has logged in on are dropped.
Intercepted(r) == r.op # "login" /\ userId[r.conn] = NoUser

\* ReadMessage returned a command.
ReadFrame(c) ==
  /\ ~panicked
  /\ pc[Reader(c)] = "read" /\ sock[c] = "open" /\ SumFunction(reads) < MaxReads
  /\ reads' = [reads EXCEPT ![c] = @ + 1]
  /\ \E r \in Commands(c) :
        \/ Intercepted(r) /\ UNCHANGED <<held, pc>>
        \/ /\ ~Intercepted(r)
           /\ held' = [held EXCEPT ![c] = r]
           /\ Goto(Reader(c), "keepLive")
  /\ UNCHANGED <<connVars, outVars, regVars, taskQueue, on, workVars, procVars>>

ReaderKeepLive(c) ==
  /\ ~panicked
  /\ pc[Reader(c)] = "keepLive" /\ ~HeartHeld(c)
  /\ stale' = [stale EXCEPT ![c] = FALSE]
  /\ Goto(Reader(c), "enqueue")
  /\ UNCHANGED <<userId, isClose, sock, outVars, regVars, inVars, on,
                 workVars, procVars>>

\* Fault seeded by the mutants: the workers take turns.
RoundRobin(c) == IF reads[c] % 2 = 0 THEN WorkerOf[c]
                 ELSE CHOOSE w \in Worker : w # WorkerOf[c]

\* The worker that runs the commands of c.
WorkerFor(c) == WorkerOf[c]

\* SendMsgToTaskQueue: waits while the queue of the worker is full.
Enqueue(c) ==
  /\ ~panicked
  /\ pc[Reader(c)] = "enqueue"
  /\ Len(taskQueue[WorkerFor(c)]) < TaskCap
  /\ taskQueue' = [taskQueue EXCEPT ![WorkerFor(c)] = Append(@, held[c])]
  /\ held' = [held EXCEPT ![c] = NoReq]
  /\ Goto(Reader(c), "read")
  /\ UNCHANGED <<connVars, outVars, regVars, reads, on, workVars, procVars>>

\* ReadMessage failed: the peer went away, or the socket was closed here.
\* StartReader returns and its deferred call runs Stop.
ReadError(c) ==
  /\ ~panicked
  /\ pc[Reader(c)] = "read"
  /\ Goto(Reader(c), "stopLock")
  /\ UNCHANGED <<connVars, outVars, regVars, inVars, on, workVars, procVars>>

----------------------------------------------------------------------------
(* Conn.Stop, run by a reader, a rejected Login, the heartbeat checker and  *)
(* Server.Stop.                                                             *)

\* Where thread t goes when the Stop it called returns.
Return(t) == CASE t[1] = "heartbeat" -> "scan"
               [] t[1] = "worker"    -> "idle"
               [] OTHER              -> "done"

\* Stop was the last thing a rejected Login does.
ReturnFromStop(t) ==
  /\ Goto(t, Return(t))
  /\ on' = [on EXCEPT ![t] = IF Return(t) = "done" THEN @ ELSE NoConn]
  /\ job' = [w \in Worker |-> IF t = Pooled(w) THEN NoReq ELSE job[w]]

\* Lock: one caller at a time gets past the others.
StopLock(t) ==
  /\ ~panicked
  /\ pc[t] = "stopLock" /\ ~Announced(on[t])
  /\ Goto(t, "stopEnter")
  /\ UNCHANGED <<connVars, outVars, regVars, inVars, on, workVars, procVars>>

\* It waits for the read locks to go; another thread had closed c already.
StopAgain(t) ==
  /\ ~panicked
  /\ pc[t] = "stopEnter" /\ ReadHolders(on[t]) = {}
  /\ isClose[on[t]]
  /\ ReturnFromStop(t)
  /\ UNCHANGED <<connVars, outVars, regVars, inVars, callVars, procVars>>

\* Close the socket, tell the writer to exit, look whether anyone logged in.
StopEnter(t) ==
  /\ ~panicked
  /\ pc[t] = "stopEnter" /\ ReadHolders(on[t]) = {}
  /\ ~isClose[on[t]]
  /\ sock' = [sock EXCEPT ![on[t]] = "closed"]
  /\ Goto(t, IF userId[on[t]] = NoUser THEN "stopFinish" ELSE "stopUnmap")
  /\ UNCHANGED <<userId, isClose, stale, outVars, regVars, inVars, on,
                 workVars, procVars>>

\* RemoveConn deletes by user id, whatever connection is stored there.
StopUnmap(t) ==
  /\ ~panicked
  /\ pc[t] = "stopUnmap"
  /\ connMap' = [connMap EXCEPT ![userId[on[t]]] = NoConn]
  /\ Goto(t, "stopOffline")
  /\ UNCHANGED <<connVars, outVars, online, inVars, on, workVars, procVars>>

\* DelUserOnline; Stop ignores its error.
StopOffline(t) ==
  /\ ~panicked
  /\ pc[t] = "stopOffline"
  /\ \/ online' = [online EXCEPT ![userId[on[t]]] = FALSE]
     \/ "redis" \in Events /\ UNCHANGED online
  /\ Goto(t, "stopFinish")
  /\ UNCHANGED <<connVars, outVars, connMap, inVars, on, workVars, procVars>>

\* Fault seeded by the mutants: Stop forgets to set isClose.
StopUnmarked(t) ==
  /\ ~panicked
  /\ pc[t] = "stopFinish"
  /\ ReturnFromStop(t)
  /\ UNCHANGED <<connVars, outVars, regVars, inVars, callVars, procVars>>

\* isClose = true, close(exitCh), close(sendCh), Unlock.
StopFinish(t) ==
  /\ ~panicked
  /\ pc[t] = "stopFinish"
  /\ isClose' = [isClose EXCEPT ![on[t]] = TRUE]
  /\ ReturnFromStop(t)
  /\ UNCHANGED <<userId, sock, stale, outVars, regVars, inVars, callVars,
                 procVars>>

Stop(t) == \/ StopLock(t) \/ StopAgain(t) \/ StopEnter(t)
           \/ StopUnmap(t) \/ StopOffline(t) \/ StopFinish(t)

----------------------------------------------------------------------------
(* The workers (StartOneWorker) and the handlers of req.go.                *)

At(w, label) == ~panicked /\ pc[Pooled(w)] = label

\* The handler returns and its worker takes the next request.
Finish(w) ==
  /\ Goto(Pooled(w), "idle")
  /\ on' = [on EXCEPT ![Pooled(w)] = NoConn]
  /\ job' = [job EXCEPT ![w] = NoReq]
  /\ dest' = [dest EXCEPT ![w] = NoUser]
  /\ tgt' = [tgt EXCEPT ![w] = NoConn]

\* Worker w is about to run c.SendMsg(u, ...).
CallSendMsg(w, c, u) ==
  /\ Goto(Pooled(w), "sendLock")
  /\ on' = [on EXCEPT ![Pooled(w)] = c]
  /\ dest' = [dest EXCEPT ![w] = u]
  /\ tgt' = [tgt EXCEPT ![w] = NoConn]

\* Worker w receives request r.
Takes(w, r) ==
  /\ At(w, "idle") /\ taskQueue[w] # <<>> /\ r = Head(taskQueue[w])
  /\ taskQueue' = [taskQueue EXCEPT ![w] = Tail(@)]

\* Fault seeded by the mutants: Login does not look at UserId.
LoginUnchecked(c) == FALSE

\* Login returns at once on a connection somebody has logged in on already.
LoggedInHere(c) == userId[c] # NoUser

\* Handlers that return before they touch any of this state: a Login sent
\* again or with an invalid token, a Heartbeat, a message with the wrong
\* clientId or sender or whose publication fails, a Sync the database fails.
SkipReq(w) ==
  \E r \in Req :
    /\ Takes(w, r)
    /\ UNCHANGED <<connVars, outVars, regVars, held, reads, pc, on, workVars,
                   procVars>>

StartLogin(w) ==
  \E r \in Req :
    /\ Takes(w, r)
    /\ r.op = "login" /\ ~LoggedInHere(r.conn)
    /\ job' = [job EXCEPT ![w] = r]
    /\ on' = [on EXCEPT ![Pooled(w)] = r.conn]
    /\ Goto(Pooled(w), "getOnline")
    /\ UNCHANGED <<connVars, outVars, regVars, held, reads, callVars, procVars>>

\* MessageHandler up to Send: a single chat with somebody else whose rows
\* have been published.
StartMessage(w) ==
  \E r \in Req :
    /\ Takes(w, r)
    /\ r.op = "message" /\ r.arg # userId[r.conn]
    /\ job' = [job EXCEPT ![w] = r]
    /\ on' = [on EXCEPT ![Pooled(w)] = r.conn]
    /\ dest' = [dest EXCEPT ![w] = r.arg]
    /\ Goto(Pooled(w), "lookup")
    /\ UNCHANGED <<connVars, outVars, regVars, held, reads, tgt, procVars>>

\* Sync up to its answer.
StartSync(w) ==
  \E r \in Req :
    /\ Takes(w, r)
    /\ r.op = "sync"
    /\ job' = [job EXCEPT ![w] = r]
    /\ CallSendMsg(w, r.conn, userId[r.conn])
    /\ UNCHANGED <<connVars, outVars, regVars, held, reads, procVars>>

\* GetUserOnline, whose error Login ignores: a user found online is logged
\* in elsewhere and this connection is stopped.
LoginGet(w) ==
  /\ At(w, "getOnline")
  /\ \/ online[job[w].arg] /\ Goto(Pooled(w), "stopLock")
     \/ ~online[job[w].arg] /\ Goto(Pooled(w), "setOnline")
     \/ "redis" \in Events /\ Goto(Pooled(w), "setOnline")
  /\ UNCHANGED <<connVars, outVars, regVars, inVars, on, workVars, procVars>>

\* SetUserOnline; after an error, which Redis may report of a command it has
\* carried out, Login gives up.
LoginSet(w) ==
  /\ At(w, "setOnline")
  /\ \/ /\ online' = [online EXCEPT ![job[w].arg] = TRUE]
        /\ Goto(Pooled(w), "setUserId")
        /\ UNCHANGED <<on, workVars>>
     \/ /\ "redis" \in Events
        /\ online' \in {online, [online EXCEPT ![job[w].arg] = TRUE]}
        /\ Finish(w)
  /\ UNCHANGED <<connVars, outVars, connMap, inVars, procVars>>

LoginUser(w) ==
  /\ At(w, "setUserId")
  /\ userId' = [userId EXCEPT ![job[w].conn] = job[w].arg]
  /\ Goto(Pooled(w), "addConn")
  /\ UNCHANGED <<isClose, sock, stale, outVars, regVars, inVars, on, workVars,
                 procVars>>

\* AddConn overwrites what is stored for the user; then the ACK is sent.
LoginAdd(w) ==
  /\ At(w, "addConn")
  /\ connMap' = [connMap EXCEPT ![job[w].arg] = job[w].conn]
  /\ CallSendMsg(w, job[w].conn, job[w].arg)
  /\ UNCHANGED <<connVars, outVars, online, inVars, job, procVars>>

\* The ACK of a message goes to the user of the connection it came on.
SendAck(w) == CallSendMsg(w, job[w].conn, userId[job[w].conn])

\* Send: a receiver who is not online gets nothing pushed.
Lookup(w) ==
  /\ At(w, "lookup")
  /\ \/ online[dest[w]] /\ Goto(Pooled(w), "getConn") /\ UNCHANGED <<on, workVars>>
     \/ ~online[dest[w]] /\ SendAck(w) /\ UNCHANGED job
     \/ "redis" \in Events /\ Finish(w)
  /\ UNCHANGED <<connVars, outVars, regVars, inVars, procVars>>

\* A receiver connected here gets the message through the Conn connMap holds.
\* For any other one DeliverMessage is called on a gRPC server that no process
\* of the repository starts; it fails and the handler returns with no ACK.
Deliver(w) ==
  /\ At(w, "getConn")
  /\ \/ connMap[dest[w]] # NoConn /\ CallSendMsg(w, connMap[dest[w]], dest[w])
        /\ UNCHANGED job
     \/ connMap[dest[w]] = NoConn /\ Finish(w)
  /\ UNCHANGED <<connVars, outVars, regVars, inVars, procVars>>

\* SendMsg returns: a push is followed by the ACK, anything else was the last
\* call of its handler.
SendReturn(w) ==
  IF job[w].op = "message" /\ dest[w] # userId[job[w].conn]
  THEN SendAck(w) /\ UNCHANGED job
  ELSE Finish(w)

\* RLock; a closed connection sends nothing.
SendLock(w) ==
  /\ At(w, "sendLock") /\ ~Announced(on[Pooled(w)])
  /\ \/ isClose[on[Pooled(w)]] /\ SendReturn(w)
     \/ /\ ~isClose[on[Pooled(w)]]
        /\ Goto(Pooled(w), "sendLoad")
        /\ UNCHANGED <<on, workVars>>
  /\ UNCHANGED <<connVars, outVars, regVars, inVars, procVars>>

\* SendMsg looks its receiver up in connMap, and may find another Conn than
\* the one whose read lock it holds.
SendLoad(w) ==
  /\ At(w, "sendLoad")
  /\ \/ connMap[dest[w]] = NoConn /\ SendReturn(w)
     \/ /\ connMap[dest[w]] # NoConn
        /\ tgt' = [tgt EXCEPT ![w] = connMap[dest[w]]]
        /\ Goto(Pooled(w), "sendPut")
        /\ UNCHANGED <<on, job, dest>>
  /\ UNCHANGED <<connVars, outVars, regVars, inVars, procVars>>

\* Fault seeded by the mutants: a channel of one more.
RoomForOneMore(c) == Len(sendCh[c]) <= SendCap

\* The channel of c takes one more message.
HasRoom(c) == Len(sendCh[c]) < SendCap

\* conn.sendCh <- bytes: waits while the channel is full, and panics when it
\* is closed.
SendPut(w) ==
  /\ At(w, "sendPut")
  /\ \/ /\ isClose[tgt[w]]
        /\ panicked' = TRUE
        /\ UNCHANGED <<sendCh, pc, on, workVars>>
     \/ /\ ~isClose[tgt[w]]
        /\ HasRoom(tgt[w])
        /\ sendCh' = [sendCh EXCEPT ![tgt[w]] = Append(@, dest[w])]
        /\ SendReturn(w)
        /\ UNCHANGED panicked
  /\ UNCHANGED <<connVars, buffer, writer, regVars, inVars, hbTodo, shutdown>>

WorkerStep(w) ==
  \/ SkipReq(w) \/ StartLogin(w) \/ StartMessage(w) \/ StartSync(w)
  \/ LoginGet(w) \/ LoginSet(w) \/ LoginUser(w) \/ LoginAdd(w)
  \/ Lookup(w) \/ Deliver(w) \/ SendLock(w) \/ SendLoad(w) \/ SendPut(w)

----------------------------------------------------------------------------
(* The writer (StartWriterWithBuffer).  Once sendCh is closed it may also   *)
(* receive nil from it until it notices exitCh; nothing is sent any more    *)
(* and those receptions are left out.                                       *)

\* A message is received, and the batch is sent when that makes it full.
WriterRecv(c) ==
  /\ ~panicked
  /\ writer[c] = "select" /\ sendCh[c] # <<>>
  /\ buffer' = [buffer EXCEPT ![c] = Append(@, Head(sendCh[c]))]
  /\ sendCh' = [sendCh EXCEPT ![c] = Tail(@)]
  /\ writer' = [writer EXCEPT ![c] = IF Len(buffer[c]) + 1 = BufLimit
                                     THEN "flush" ELSE "select"]
  /\ UNCHANGED <<connVars, regVars, inVars, pc, on, workVars, procVars>>

\* The ticker: a batch that is not empty is sent.
WriterTick(c) ==
  /\ ~panicked
  /\ writer[c] = "select" /\ buffer[c] # <<>>
  /\ writer' = [writer EXCEPT ![c] = "flush"]
  /\ UNCHANGED <<connVars, sendCh, buffer, regVars, inVars, pc, on, workVars,
                 procVars>>

\* Fault seeded by the mutants: the writer returns when a write fails, as
\* the unused StartWriter does (conn.go:154-156).
WriterGivesUp == "done"

\* The writer goes on with the batch it could not write.
AfterFailedWrite == "select"

\* WriteMessage has no deadline: it blocks as long as the peer does not read.
WriterFlush(c) ==
  /\ ~panicked
  /\ writer[c] = "flush"
  /\ \/ /\ sock[c] = "open"
        /\ buffer' = [buffer EXCEPT ![c] = <<>>]
        /\ writer' = [writer EXCEPT ![c] = "keepLive"]
     \/ /\ sock[c] = "closed" \/ "write" \in Events
        /\ writer' = [writer EXCEPT ![c] = AfterFailedWrite]
        /\ UNCHANGED buffer
  /\ UNCHANGED <<connVars, sendCh, regVars, inVars, pc, on, workVars, procVars>>

WriterKeepLive(c) ==
  /\ ~panicked
  /\ writer[c] = "keepLive" /\ ~HeartHeld(c)
  /\ stale' = [stale EXCEPT ![c] = FALSE]
  /\ writer' = [writer EXCEPT ![c] = "select"]
  /\ UNCHANGED <<userId, isClose, sock, sendCh, buffer, regVars, inVars, pc, on,
                 workVars, procVars>>

\* Stop has put a token into exitCh, right after it closed the socket.
WriterExit(c) ==
  /\ ~panicked
  /\ writer[c] = "select" /\ sock[c] = "closed"
  /\ writer' = [writer EXCEPT ![c] = "done"]
  /\ UNCHANGED <<connVars, sendCh, buffer, regVars, inVars, pc, on, workVars,
                 procVars>>

WriterStep(c) == \/ WriterRecv(c) \/ WriterTick(c) \/ WriterFlush(c)
                 \/ WriterKeepLive(c) \/ WriterExit(c)

----------------------------------------------------------------------------
(* The heartbeat checker.                                                   *)

\* GetAllConn: the connections somebody is logged in on.
Registered == {connMap[u] : u \in User} \ {NoConn}

HbTick ==
  /\ ~panicked
  /\ "check" \in Events /\ pc[HB] = "idle"
  /\ hbTodo' = Registered
  /\ Goto(HB, "scan")
  /\ UNCHANGED <<connVars, outVars, regVars, inVars, on, workVars, shutdown,
                 panicked>>

\* IsAlive locks heartMutex ...
HbCheck(c) ==
  /\ ~panicked
  /\ pc[HB] = "scan" /\ c \in hbTodo
  /\ hbTodo' = hbTodo \ {c}
  /\ on' = [on EXCEPT ![HB] = c]
  /\ Goto(HB, "alive")
  /\ UNCHANGED <<connVars, outVars, regVars, inVars, workVars, shutdown, panicked>>

\* IsAlive: closed, or silent for too long, means dead.
Dead(c) == isClose[c] \/ stale[c]

\* ... and then takes the read lock.  A dead connection is stopped.
HbAlive ==
  /\ ~panicked
  /\ pc[HB] = "alive" /\ ~Announced(on[HB])
  /\ \/ Dead(on[HB]) /\ Goto(HB, "stopLock") /\ UNCHANGED on
     \/ ~Dead(on[HB]) /\ Goto(HB, "scan") /\ on' = [on EXCEPT ![HB] = NoConn]
  /\ UNCHANGED <<connVars, outVars, regVars, inVars, workVars, procVars>>

HbDone ==
  /\ ~panicked
  /\ pc[HB] = "scan" /\ hbTodo = {}
  /\ Goto(HB, "idle")
  /\ UNCHANGED <<connVars, outVars, regVars, inVars, on, workVars, procVars>>

\* HeartbeatChecker.Stop is called once Server.Stop has returned.
HbQuit ==
  /\ ~panicked
  /\ pc[HB] = "idle" /\ shutdown = "stopped"
  /\ Goto(HB, "done")
  /\ UNCHANGED <<connVars, outVars, regVars, inVars, on, workVars, procVars>>

HbStep == HbTick \/ (\E c \in Conn : HbCheck(c)) \/ HbAlive \/ HbDone \/ HbQuit

----------------------------------------------------------------------------
(* Server.Stop on SIGTERM: a goroutine per logged-in connection stops it.   *)

SignalStop ==
  /\ ~panicked
  /\ "shutdown" \in Events /\ shutdown = "running"
  /\ shutdown' = "stopping"
  /\ pc' = [t \in Thread |->
              IF t[1] = "closer" /\ on[t] \in Registered THEN "stopLock" ELSE pc[t]]
  /\ UNCHANGED <<connVars, outVars, regVars, inVars, on, workVars, hbTodo, panicked>>

\* wg.Wait returned.
ShutdownDone ==
  /\ ~panicked
  /\ shutdown = "stopping"
  /\ \A c \in Conn : pc[Closer(c)] \in {"idle", "done"}
  /\ shutdown' = "stopped"
  /\ UNCHANGED <<connVars, outVars, regVars, inVars, pc, on, workVars, hbTodo,
                 panicked>>

----------------------------------------------------------------------------
(* Time.                                                                    *)

\* Nothing has come from c and nothing has been sent to it for the timeout.
GoStale(c) ==
  /\ ~panicked
  /\ "silent" \in Events /\ sock[c] = "open" /\ ~stale[c]
  /\ stale' = [stale EXCEPT ![c] = TRUE]
  /\ UNCHANGED <<userId, isClose, sock, outVars, regVars, inVars, pc, on,
                 workVars, procVars>>

\* The key lives for a day from the login on and is never renewed.
KeyExpire(u) ==
  /\ ~panicked
  /\ "ttl" \in Events /\ online[u]
  /\ online' = [online EXCEPT ![u] = FALSE]
  /\ UNCHANGED <<connVars, outVars, connMap, inVars, pc, on, workVars, procVars>>

----------------------------------------------------------------------------
ConnStep(c) == \/ Connect(c) \/ ReadFrame(c) \/ ReaderKeepLive(c) \/ Enqueue(c)
               \/ ReadError(c) \/ WriterStep(c) \/ GoStale(c)

Next ==
  \/ \E c \in Conn : ConnStep(c)
  \/ \E t \in Thread : Stop(t)
  \/ \E w \in Worker : WorkerStep(w)
  \/ HbStep \/ SignalStop \/ ShutdownDone
  \/ \E u \in User : KeyExpire(u)

Spec == Init /\ [][Next]_vars

\* The goroutines run.  Nothing makes a client connect, send or go silent, or
\* the administrator stop the server.  A write to a closed socket fails; one to
\* an open socket has no deadline, and returns only if the peer reads, which
\* nothing makes it do.  Locks and channels serve those who wait in turn and
\* select picks among the ready cases at random, hence SF.
ReaderFairness(c) ==
  /\ WF_vars(ReaderKeepLive(c)) /\ WF_vars(Enqueue(c))
  /\ WF_vars(sock[c] = "closed" /\ ReadError(c))
WriterFairness(c) ==
  /\ SF_vars(WriterRecv(c)) /\ SF_vars(WriterTick(c))
  /\ WF_vars(sock[c] = "closed" /\ WriterFlush(c))
  /\ SF_vars(WriterKeepLive(c)) /\ SF_vars(WriterExit(c))
WorkerFairness(w) ==
  /\ WF_vars(SkipReq(w) \/ StartLogin(w) \/ StartMessage(w) \/ StartSync(w))
  /\ WF_vars(LoginGet(w) \/ LoginSet(w) \/ LoginUser(w) \/ LoginAdd(w))
  /\ WF_vars(Lookup(w) \/ Deliver(w) \/ SendLoad(w))
  /\ SF_vars(SendLock(w)) /\ SF_vars(SendPut(w))
Fairness ==
  /\ \A c \in Conn : ReaderFairness(c) /\ WriterFairness(c)
  /\ \A w \in Worker : WorkerFairness(w)
  /\ \A t \in Thread : SF_vars(Stop(t))
  /\ WF_vars(HbTick \/ HbDone \/ (\E c \in Conn : HbCheck(c)))
  /\ SF_vars(HbAlive) /\ WF_vars(HbQuit) /\ WF_vars(ShutdownDone)
FairSpec == Spec /\ Fairness

\* The same, with clients that read what they are sent.
ReadingSpec == FairSpec /\ \A c \in Conn : WF_vars(WriterFlush(c))

----------------------------------------------------------------------------
(* Properties.                                                              *)

StopLabel == {"stopLock"} \cup StopSection
ReaderLabel == {"new", "read", "keepLive", "enqueue", "done"} \cup StopLabel
WorkerLabel == {"idle", "getOnline", "setOnline", "setUserId", "addConn", "lookup",
                "getConn", "sendLock", "sendLoad", "sendPut"} \cup StopLabel
HbLabel == {"idle", "scan", "alive", "done"} \cup StopLabel
CloserLabel == {"idle", "done"} \cup StopLabel

ConnOK ==
  /\ userId \in [Conn -> User \cup {NoUser}]
  /\ isClose \in [Conn -> BOOLEAN] /\ stale \in [Conn -> BOOLEAN]
  /\ sock \in [Conn -> {"none", "open", "closed"}]
OutOK ==
  /\ sendCh \in [Conn -> Seq(User)] /\ buffer \in [Conn -> Seq(User)]
  /\ \A c \in Conn : Len(sendCh[c]) <= SendCap
  /\ writer \in [Conn -> {"none", "select", "flush", "keepLive", "done"}]
RegOK == connMap \in [User -> Conn \cup {NoConn}] /\ online \in [User -> BOOLEAN]
InOK ==
  /\ taskQueue \in [Worker -> Seq(Req)]
  /\ \A w \in Worker : Len(taskQueue[w]) <= TaskCap
  /\ held \in [Conn -> Req \cup {NoReq}] /\ reads \in [Conn -> Nat]
PcOK ==
  /\ pc \in [Thread -> ReaderLabel \cup WorkerLabel \cup HbLabel \cup CloserLabel]
  /\ \A c \in Conn : pc[Reader(c)] \in ReaderLabel /\ pc[Closer(c)] \in CloserLabel
  /\ \A w \in Worker : pc[Pooled(w)] \in WorkerLabel
  /\ pc[HB] \in HbLabel
OnOK ==
  /\ on \in [Thread -> Conn \cup {NoConn}]
  /\ \A c \in Conn : on[Reader(c)] = c /\ on[Closer(c)] = c
WorkOK ==
  /\ job \in [Worker -> Req \cup {NoReq}]
  /\ dest \in [Worker -> User \cup {NoUser}]
  /\ tgt \in [Worker -> Conn \cup {NoConn}]
ProcOK == /\ hbTodo \subseteq Conn
          /\ shutdown \in {"running", "stopping", "stopped"} /\ panicked \in BOOLEAN

\* Every variable has its type, and no channel holds more than its capacity
\* (conn.go:41, server.go:96).
TypeOK == ConnOK /\ OutOK /\ RegOK /\ InOK /\ PcOK /\ OnOK /\ WorkOK /\ ProcOK

\* A connection belongs to one user for good: Login checks UserId at its start
\* and sets it several Redis calls later, and only the choice of the worker by
\* connection (server.go:109) keeps two Logins of one connection apart.
UserIdSetOnce ==
  [][\A c \in Conn : userId[c] # NoUser => userId'[c] = userId[c]]_vars

\* connMap never maps a user to a connection of somebody else (req.go:64-67,
\* server.go:36-47), however logins and stops interleave.
RegistryOwner == \A u \in User : connMap[u] # NoConn => userId[connMap[u]] = u

\* What waits to be written to a connection is addressed to its user, although
\* SendMsg writes to a Conn it looks up while others log in and out
\* (conn.go:134-140).
NoMisdelivery ==
  \A c \in Conn :
    /\ \A i \in DOMAIN sendCh[c] : sendCh[c][i] = userId[c]
    /\ \A i \in DOMAIN buffer[c] : buffer[c][i] = userId[c]

\* A sender that put its read lock on the Conn it also sends to never finds
\* the channel closed (conn.go:124, 140 and 213, 236).
OwnChannelOpen ==
  \A w \in Worker : pc[Pooled(w)] = "sendPut" /\ tgt[w] = on[Pooled(w)]
                      => ~isClose[tgt[w]]

\* The reader, a rejected Login, the heartbeat checker and Server.Stop may all
\* stop a connection at once: one of them does the work, and the channels are
\* closed once (conn.go:213-236).
Closing == {"stopUnmap", "stopOffline", "stopFinish"}
OneCloser ==
  \A t \in Thread : pc[t] \in Closing =>
     /\ ~isClose[on[t]]
     /\ \A other \in Thread \ {t} : on[other] = on[t] => pc[other] \notin StopSection

\* Login has finished registering c.
LoginDone(c) == /\ userId[c] # NoUser
                /\ \A w \in Worker : job[w].conn = c => pc[Pooled(w)] # "addConn"

\* No other connection was ever logged in, or is being logged in, for u.
SoleLogin(c, u) ==
  /\ \A d \in Conn \ {c} : userId[d] # u
  /\ \A w \in Worker : job[w].conn # c /\ job[w].arg = u
                         => pc[Pooled(w)] \notin {"setUserId", "addConn"}

\* A logged-in connection nobody has begun to close, the only one of its user,
\* stays reachable: it is in connMap and, as long as keys do not expire, the
\* user counts as online, whatever Logins of that user are rejected meanwhile.
SoleSession ==
  \A c \in Conn :
    /\ LoginDone(c) /\ ~isClose[c] /\ SoleLogin(c, userId[c])
    /\ \A t \in Thread : on[t] = c => pc[t] \notin Closing
    => /\ connMap[userId[c]] = c
       /\ "ttl" \notin Events => online[userId[c]]

\* A Login rejected because its user is online elsewhere closes its own
\* connection and takes nothing from the other one (req.go:47-52, conn.go:225).
RejectHarmless ==
  \A w \in Worker : pc[Pooled(w)] \notin {"stopUnmap", "stopOffline"}

\* A send on a closed channel needs two connections of one user, which the
\* online check of Login is there to prevent (conn.go:134-140, req.go:45-52).
PanicNeedsTwoLogins ==
  panicked => \E c, d \in Conn : c # d /\ userId[c] = userId[d] /\ userId[c] # NoUser

\* Four waits in a circle: IsAlive holds heartMutex of c and wants its read
\* lock, behind a Stop that wants the write lock, behind a SendMsg that waits
\* for room in sendCh, which the writer makes only after its KeepLive.
Wedged(c) ==
  /\ pc[HB] = "alive" /\ on[HB] = c /\ Announced(c) /\ writer[c] = "keepLive"
  /\ \E w \in ReadHolders(c) :
        pc[Pooled(w)] = "sendPut" /\ tgt[w] = c /\ ~HasRoom(c)

\* Nothing in the process ever breaks that circle (conn.go:123-143, 194,
\* 212-214, 248-252).
WedgeIsForever == [][\A c \in Conn : Wedged(c) => Wedged(c)' \/ panicked']_vars

\* A peer that does not read: the writer is in a WriteMessage to it, sendCh is
\* full, and a worker waits for room with the read lock of its Conn held.
Unread(c) ==
  /\ writer[c] = "flush" /\ sock[c] = "open" /\ ~HasRoom(c)
  /\ \E w \in Worker : pc[Pooled(w)] = "sendPut" /\ tgt[w] = c

\* A Stop that has been called completes, whoever called it and however many
\* senders hold the read lock, unless that circle has formed somewhere, or some
\* peer never reads again: Stop waits for the lock before it closes the socket,
\* and only that would end the write (conn.go:140, 188, 213-221).
StopCompletes ==
  \A c \in Conn : \A t \in Thread :
     (on[t] = c /\ pc[t] = "stopLock")
        ~> \/ isClose[c] \/ panicked
           \/ \E d \in Conn : Wedged(d)
           \/ \E d \in Conn : []Unread(d)

----------------------------------------------------------------------------
(* What comments in the code say, and the code does not do.                *)

\* user_cache.go:43 "存在即在线": when no Login and no Stop is under way, a user
\* whose key exists has an open connection.
OnlineMeansConnected ==
  \A u \in User :
    /\ online[u]
    /\ \A w \in Worker : job[w].op # "login"
    /\ \A t \in Thread : pc[t] \notin StopLabel
    => \E c \in Conn : userId[c] = u /\ ~isClose[c]

\* conn.go:44 "如果连接没有后续操作，将会在下次被心跳检测踢出": a connection that
\* stays silent is kicked by a heartbeat check.  Stated of the connections the
\* checker looks at, those in connMap; one that never logs in is not checked.
RegisteredKicked ==
  \A c \in Conn : (stale[c] /\ c \in Registered)
                    ~> (~stale[c] \/ sock[c] = "closed" \/ panicked)
=============================================================================
