----------------------------- MODULE GatewayInv -----------------------------
(***************************************************************************)
(* The inductive invariant behind the safety properties of Gateway.        *)
(***************************************************************************)
EXTENDS Gateway

\* A request as its reader builds it; one that is not a Login has got past
\* the interception (conn.go:83-86).
Proper(r) == /\ r \in Req
             /\ r.op \in {"login", "message"} <=> r.arg # NoUser
             /\ r.op # "login" => userId[r.conn] # NoUser

\* Requests are proper, and stay with their connection and its worker.
RequestInv ==
  /\ \A c \in Conn : pc[Reader(c)] \in {"keepLive", "enqueue"}
                       => Proper(held[c]) /\ held[c].conn = c
  /\ \A w \in Worker : \A i \in DOMAIN taskQueue[w] :
        Proper(taskQueue[w][i]) /\ WorkerOf[taskQueue[w][i].conn] = w

\* What worker w knows of its request at each point of a handler.
BeforeSetUserId == {"getOnline", "setOnline", "setUserId"} \cup StopLabel
Sending == {"sendLock", "sendLoad", "sendPut"}

JobOf(w) ==
  /\ Proper(job[w]) /\ WorkerOf[job[w].conn] = w
  /\ on[Pooled(w)] \in Conn
LoginPart(w) == /\ job[w].op = "login" /\ userId[job[w].conn] = NoUser
                /\ on[Pooled(w)] = job[w].conn
AddPart(w) == job[w].op = "login" /\ userId[job[w].conn] = job[w].arg
LookPart(w) == job[w].op = "message" /\ dest[w] \in User
SendPart(w) == /\ dest[w] \in User /\ userId[on[Pooled(w)]] = dest[w]
               /\ userId[job[w].conn] \in User
PutPart(w) == tgt[w] \in Conn /\ userId[tgt[w]] = dest[w]

JobAt(w) ==
  /\ pc[Pooled(w)] # "idle" => JobOf(w)
  /\ pc[Pooled(w)] \in BeforeSetUserId => LoginPart(w)
  /\ pc[Pooled(w)] = "addConn" => AddPart(w)
  /\ pc[Pooled(w)] \in {"lookup", "getConn"} => LookPart(w)
  /\ pc[Pooled(w)] \in Sending => SendPart(w)
  /\ pc[Pooled(w)] = "sendPut" => PutPart(w)
JobInv == \A w \in Worker : JobAt(w)

\* The heartbeat checker is at a connection while it looks at or stops one.
HbInv == pc[HB] \in {"alive"} \cup StopLabel => on[HB] \in Conn

\* isCloseMutex: one writer, no writer beside a reader, and what the holders
\* have seen of isClose stays true.
Reading == {"sendLoad", "sendPut"}
LockInv ==
  /\ \A t, other \in Thread :
        t # other /\ on[t] = on[other] /\ pc[t] \in StopSection
          => pc[other] \notin StopSection
  /\ \A t, other \in Thread :
        pc[t] \in Closing /\ pc[other] \in Reading => on[t] # on[other]
  /\ \A t \in Thread : pc[t] \in Closing \cup Reading => ~isClose[on[t]]

\* Every step keeps this; the safety properties follow from it.
IInv == /\ TypeOK /\ RequestInv /\ JobInv /\ HbInv /\ LockInv
        /\ RegistryOwner /\ NoMisdelivery

\* A Conn has no writer before its request is upgraded, and nothing runs for
\* Server.Stop before it is called.
FreshInv ==
  /\ \A c \in Conn : pc[Reader(c)] = "new" => writer[c] = "none"
  /\ shutdown = "running" => \A c \in Conn : pc[Closer(c)] = "idle"

\* A user nobody else logs in as keeps what his Login has registered until his
\* connection begins to close, and the key from before that on.
Serving(c) ==
  /\ userId[c] # NoUser /\ ~isClose[c] /\ SoleLogin(c, userId[c])
  /\ \A t \in Thread : on[t] = c => pc[t] \notin Closing
SoleInv ==
  /\ \A c \in Conn : Serving(c) =>
       /\ LoginDone(c) => connMap[userId[c]] = c
       /\ "ttl" \notin Events => online[userId[c]]
  /\ "ttl" \notin Events => \A w \in Worker :
       pc[Pooled(w)] = "setUserId" /\ (\A c \in Conn : userId[c] # job[w].arg)
         => online[job[w].arg]

\* A worker that waits handles nothing, and a reader that reads holds nothing.
RestInv ==
  /\ \A w \in Worker : pc[Pooled(w)] = "idle" => job[w] = NoReq
  /\ \A c \in Conn : pc[Reader(c)] \notin {"keepLive", "enqueue"} => held[c] = NoReq
=============================================================================
