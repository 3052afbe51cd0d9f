-------------------------------- MODULE Inbox --------------------------------
(***************************************************************************)
(* The inbox of one user: how the messages for the user get their sequence *)
(* numbers, how they get into the table by way of Kafka, and how the       *)
(* user's client gets them, by push and by paged Sync.                     *)
(*                                                                         *)
(*   service/ws/message.go   SendToUser, by the workers of the senders and *)
(*                           by the worker of the user                     *)
(*   model/cache/seq_cache.go, pkg/kafka, model/message.go                 *)
(*   service/ws/req.go       Sync                                          *)
(*   ws_client/client.go     Start, Sync, HandlerMessage                   *)
(*                                                                         *)
(* A message is known by its sequence number.  One run of the client is    *)
(* modelled; it keeps nothing on disk, and a later run is one that starts  *)
(* with a fuller table, and with the seq the user gives it.                *)
(***************************************************************************)
EXTENDS Naturals, Sequences, FiniteSets

CONSTANTS
  Sender,      \* workers that handle messages of others to the user
  Partition,   \* partitions of the topic
  Limit,       \* MessageLimit, rows in an answer to a Sync
  MaxIn,       \* messages of others (bound)
  MaxOwn,      \* messages the user sends (bound)
  MaxStarts,   \* 1 if the client is started, 0 if it stays away (bound)
  MaxFaults,   \* failures (bound)
  Faulty       \* what may fail: "redis", "publish", "insert", "query", "crash",
               \* "consume"

ASSUME InboxAssumption ==
  /\ Limit \in Nat \ {0} /\ MaxIn \in Nat /\ MaxOwn \in Nat /\ MaxFaults \in Nat
  /\ MaxStarts \in {0, 1}
  /\ Faulty \subseteq {"redis", "publish", "insert", "query", "crash", "consume"}

Number == 1 .. (MaxIn + MaxOwn)

VARIABLES
  counter,     \* the Redis key object_seq_1_<user>
  begun,       \* messages of others so far
  spc, snum,   \* the senders' workers: where they are, and their number
  log,         \* what Kafka has accepted, in each partition
  consuming,   \* whether a gateway consumes the partition
  pos, inserted, \* the consumer of a partition: the next offset is pos + 1, and
               \* whether CreateMessage has returned for it
  marked,      \* the offset it has marked, 0 if none since it started
  committed,   \* the committed offset, 0 if none
  rows,        \* how many rows of table message have each number
  failed,      \* (history) numbers an insert of which has failed
  faults,
  online,      \* the Login of the client has been handled
  first,       \* where the goroutine of the first Sync is: "off", "ready", "gone"
  seq,         \* Client.seq
  got,         \* numbers of the messages the client has shown or sent, and
               \* those the user had when the client started
  sent,        \* messages the user has sent so far
  up,          \* commands of the client, for its worker
  hpc, hreg,   \* the user's worker: where it is, and the number in hand
  hcount,      \* cnt of ListByUserIdAndSeq
  down,        \* what the server sends the client
  offline,     \* (history) numbers in the table when the client came online
  raised,      \* (history) the highest number that reached the client by push
               \* or acknowledgement
  disturbed    \* (history) the first Sync was read before the Login was
               \* handled, a query of a Sync has failed, or a row was stored
               \* between the two queries of one

senderVars  == <<begun, spc, snum>>
queueVars   == <<log, consuming, pos, inserted, committed, marked, failed>>
clientVars  == <<first, seq, got, sent, raised>>
workerVars  == <<hpc, hreg, hcount>>
sessionVars == <<online, offline, disturbed>>
vars == <<counter, senderVars, queueVars, rows, faults, sessionVars, clientVars,
          up, workerVars, down>>

Init ==
  /\ counter = 0 /\ begun = 0
  /\ spc = [w \in Sender |-> "idle"] /\ snum = [w \in Sender |-> 0]
  /\ log = [p \in Partition |-> <<>>] /\ pos = [p \in Partition |-> 0]
  /\ consuming = [p \in Partition |-> TRUE]
  /\ inserted = [p \in Partition |-> FALSE] /\ committed = [p \in Partition |-> 0]
  /\ marked = [p \in Partition |-> 0]
  /\ rows = [n \in Number |-> 0] /\ failed = {} /\ faults = 0
  /\ online = FALSE /\ offline = {}
  /\ first = "off" /\ seq = 0 /\ got = {} /\ sent = 0 /\ raised = 0
  /\ up = <<>> /\ hpc = "idle" /\ hreg = 0 /\ hcount = 0 /\ down = <<>>
  /\ disturbed = FALSE

Stored == {n \in Number : rows[n] > 0}
Larger(a, b) == IF a < b THEN b ELSE a
Fault(kind) == kind \in Faulty /\ faults < MaxFaults /\ faults' = faults + 1

-----------------------------------------------------------------------------
(* Messages of others: SendToUser(msg, user), run by a sender's worker *)

SenderDone(w) == spc' = [spc EXCEPT ![w] = "idle"] /\ snum' = [snum EXCEPT ![w] = 0]

(* A handler starts, and GetUserNextSeq counts up with INCR.               *)
Draw(w) ==
  /\ spc[w] = "idle" /\ begun < MaxIn
  /\ begun' = begun + 1
  /\ \/ /\ counter' = counter + 1
        /\ spc' = [spc EXCEPT ![w] = "publish"]
        /\ snum' = [snum EXCEPT ![w] = counter + 1]
        /\ UNCHANGED faults
     \/ Fault("redis") /\ UNCHANGED <<counter, spc, snum>>
  /\ UNCHANGED <<queueVars, rows, sessionVars, clientVars, up, workerVars, down>>

(* Publish: a message without a key goes to any partition.  An error makes *)
(* the handler return; what it published may still have arrived.           *)
Arrives(n) == \E p \in Partition : log' = [log EXCEPT ![p] = Append(@, n)]
Publish(w) ==
  /\ spc[w] = "publish"
  /\ \/ /\ Arrives(snum[w]) /\ UNCHANGED faults
        /\ spc' = [spc EXCEPT ![w] = "push"] /\ UNCHANGED snum
     \/ /\ Fault("publish") /\ (Arrives(snum[w]) \/ UNCHANGED log)
        /\ SenderDone(w)
  /\ UNCHANGED <<counter, begun, consuming, pos, inserted, committed, marked,
                 failed, rows, sessionVars, clientVars, up, workerVars, down>>

(* Send: a user who is online gets the message at once, unless Redis, or   *)
(* the call to the user's gateway, fails.                                  *)
Push(w) ==
  /\ spc[w] = "push" /\ SenderDone(w)
  /\ \/ /\ online /\ UNCHANGED faults
        /\ down' = Append(down, [type |-> "push", num |-> snum[w]])
     \/ /\ (~online /\ UNCHANGED faults) \/ Fault("redis")
        /\ UNCHANGED down
  /\ UNCHANGED <<counter, begun, queueVars, rows, sessionVars, clientVars, up,
                 workerVars>>

-----------------------------------------------------------------------------
(* Kafka's consumer *)

Offered(p) == consuming[p] /\ pos[p] < Len(log[p]) /\ ~inserted[p]

(* MessageCreateHandler writes the row, or reports an error; it returns    *)
(* either way.                                                             *)
Insert(p) ==
  /\ Offered(p)
  /\ inserted' = [inserted EXCEPT ![p] = TRUE]
  /\ LET n == log[p][pos[p] + 1] IN
       \/ /\ rows' = [rows EXCEPT ![n] = @ + 1]
          /\ disturbed' = (disturbed \/ hpc = "find")
          /\ UNCHANGED <<failed, faults>>
       \/ /\ Fault("insert") /\ failed' = failed \cup {n}
          /\ UNCHANGED <<rows, disturbed>>
  /\ UNCHANGED <<counter, senderVars, log, consuming, pos, committed, marked,
                 online, offline, clientVars, up, workerVars, down>>

\* Fault seeded by the mutants: marked before it is handled, and then skipped.
MarkFirst(p) ==
  /\ Offered(p)
  /\ pos' = [pos EXCEPT ![p] = @ + 1]
  /\ marked' = [marked EXCEPT ![p] = pos[p] + 1]
  /\ UNCHANGED <<counter, senderVars, log, consuming, inserted, committed,
                 failed, rows, faults, sessionVars, clientVars, up, workerVars,
                 down>>

(* ConsumeClaim marks the message and takes the next.                      *)
Mark(p) ==
  /\ inserted[p]
  /\ inserted' = [inserted EXCEPT ![p] = FALSE]
  /\ pos' = [pos EXCEPT ![p] = @ + 1]
  /\ marked' = [marked EXCEPT ![p] = pos[p] + 1]
  /\ UNCHANGED <<counter, senderVars, log, consuming, committed, failed, rows,
                 faults, sessionVars, clientVars, up, workerVars, down>>

(* The library commits what is marked from time to time.                   *)
Commit(p) ==
  /\ consuming[p] /\ marked[p] \notin {0, committed[p]}
  /\ committed' = [committed EXCEPT ![p] = marked[p]]
  /\ UNCHANGED <<counter, senderVars, log, consuming, pos, inserted, marked,
                 failed, rows, faults, sessionVars, clientVars, up, workerVars,
                 down>>

\* Fault seeded by the mutants: the next offset, less one, taken for the last.
ResumePast(p) == IF committed[p] = 0 THEN Len(log[p]) ELSE committed[p] + 1

(* A consumer starts from the committed offset; without one, from the end  *)
(* of the partition, as InitKafka leaves Offsets.Initial at its default.   *)
Resume(p) == IF committed[p] = 0 THEN Len(log[p]) ELSE committed[p]

(* The gateway that has the partition crashes; or Consume returns an error *)
(* when no message is being handled, the goroutine of ConsumeMessage ends, *)
(* and the gateway goes on without it.                                     *)
ConsumerEnds(p) ==
  /\ consuming[p] /\ consuming' = [consuming EXCEPT ![p] = FALSE]
  /\ Fault("crash") \/ (~inserted[p] /\ Fault("consume"))
  /\ pos' = [pos EXCEPT ![p] = 0] /\ marked' = [marked EXCEPT ![p] = 0]
  /\ inserted' = [inserted EXCEPT ![p] = FALSE]
  /\ UNCHANGED <<counter, senderVars, log, committed, failed, rows, sessionVars,
                 clientVars, up, workerVars, down>>

(* Another gateway takes the partition over, or the crashed one is started *)
(* again, if anybody does.                                                 *)
Takeover(p) ==
  /\ ~consuming[p] /\ consuming' = [consuming EXCEPT ![p] = TRUE]
  /\ pos' = [pos EXCEPT ![p] = Resume(p)]
  /\ UNCHANGED <<counter, senderVars, log, inserted, marked, committed, failed,
                 rows, faults, sessionVars, clientVars, up, workerVars, down>>

-----------------------------------------------------------------------------
(* The client *)

(* The user says how far he is, and what is up to there counts as given to *)
(* him; the Login is written.  A second later the first Sync and Receive   *)
(* run, each in a goroutine of its own, with no look at the answer.        *)
Start ==
  /\ first = "off" /\ MaxStarts = 1 /\ first' = "ready"
  /\ seq' \in 0 .. counter /\ got' = 1 .. seq'
  /\ UNCHANGED <<counter, senderVars, queueVars, rows, faults, sessionVars, sent,
                 raised, up, workerVars, down>>

(* A worker of the server handles the Login.                               *)
HandleLogin ==
  /\ first # "off" /\ ~online /\ online' = TRUE /\ offline' = Stored
  /\ UNCHANGED <<counter, senderVars, queueVars, rows, faults, clientVars, up,
                 workerVars, down, disturbed>>

(* A command gets to the server, which drops it if the Login has not been  *)
(* handled.                                                                *)
Command(t, n) == up' = IF online THEN Append(up, [type |-> t, num |-> n]) ELSE up

FirstSync ==
  /\ first = "ready" /\ first' = "gone"
  /\ Command("sync", seq) /\ disturbed' = (disturbed \/ ~online)
  /\ UNCHANGED <<counter, senderVars, queueVars, rows, faults, online, offline, seq,
                 got, sent, raised, workerVars, down>>

(* ReadLine: the user sends a message.                                     *)
Type ==
  /\ first # "off" /\ sent < MaxOwn /\ sent' = sent + 1
  /\ Command("send", 0)
  /\ UNCHANGED <<counter, senderVars, queueVars, rows, faults, sessionVars,
                 first, seq, got, raised, workerVars, down>>

\* Fault seeded by the mutants: seq follows the last message.
Latest(a, b) == b

Raise(a, b) == Larger(a, b)

(* HandlerMessage: a push or the acknowledgement of an own message raises  *)
(* seq, and so does the last row of a page; if there is more, the next     *)
(* page is asked for.                                                      *)
ReceiveOne ==
  /\ down # <<>> /\ Head(down).type \in {"push", "ack"}
  /\ LET n == Head(down).num IN
       seq' = Raise(seq, n) /\ raised' = Larger(raised, n) /\ got' = got \cup {n}
  /\ down' = Tail(down)
  /\ UNCHANGED <<counter, senderVars, queueVars, rows, faults, sessionVars,
                 first, sent, up, workerVars>>

Highest(S) == CHOOSE n \in S : \A k \in S : k <= n
ReceivePage ==
  /\ down # <<>> /\ Head(down).type = "page"
  /\ got' = got \cup Head(down).rows
  /\ seq' = Highest({seq} \cup Head(down).rows)
  /\ IF Head(down).more THEN Command("sync", seq') ELSE UNCHANGED up
  /\ down' = Tail(down)
  /\ UNCHANGED <<counter, senderVars, queueVars, rows, faults, sessionVars,
                 first, sent, raised, workerVars>>

-----------------------------------------------------------------------------
(* The user's worker *)

Taken(t) == hpc = "idle" /\ up # <<>> /\ Head(up).type = t /\ up' = Tail(up)

Return == hpc' = "idle" /\ hreg' = 0 /\ hcount' = 0

(* SendToUser(msg, sender): the user's own row.                            *)
OwnDraw ==
  /\ Taken("send")
  /\ \/ /\ counter' = counter + 1 /\ hreg' = counter + 1 /\ hpc' = "publish"
        /\ UNCHANGED faults
     \/ Fault("redis") /\ UNCHANGED <<counter, hreg, hpc>>
  /\ UNCHANGED <<senderVars, queueVars, rows, sessionVars, clientVars, hcount,
                 down>>

OwnPublish ==
  /\ hpc = "publish"
  /\ \/ Arrives(hreg) /\ hpc' = "ack" /\ UNCHANGED <<faults, hreg, hcount>>
     \/ Fault("publish") /\ (Arrives(hreg) \/ UNCHANGED log) /\ Return
  /\ UNCHANGED <<counter, senderVars, consuming, pos, inserted, committed,
                 marked, failed, rows, sessionVars, clientVars, up, down>>

(* The acknowledgement carries the number; the receiver's part of the      *)
(* handler, which can fail, is in Uplink.                                  *)
OwnAck ==
  /\ hpc = "ack" /\ Return
  /\ down' = Append(down, [type |-> "ack", num |-> hreg])
  /\ UNCHANGED <<counter, senderVars, queueVars, rows, faults, sessionVars,
                 clientVars, up>>

\* Faults seeded by the mutants: "seq >= ?"; newest first; a count off by one.
AboveOrAt(n) == {k \in Stored : k >= n}
PageNewest(n) == {k \in Stored : k > n /\ Cardinality({j \in Stored : j > k}) < Limit}
MoreThanOneOver == hcount > Limit + 1

(* ListByUserIdAndSeq: one query counts the rows above a number, another   *)
(* one fetches the first Limit of them.                                    *)
Above(n) == {k \in Stored : k > n}
RowsOf(S) == Cardinality(UNION {{k} \X (1 .. rows[k]) : k \in S})
Page(n) == {k \in Above(n) : RowsOf({j \in Above(n) : j < k}) < Limit}
HasMore == hcount > Limit

(* Sync, up to the first query, and from the second one on.                *)
SyncCount ==
  /\ Taken("sync")
  /\ LET n == Head(up).num
         rest == Above(n)
     IN \/ /\ rest = {} /\ Return
           /\ down' = Append(down, [type |-> "page", rows |-> {}, more |-> FALSE])
           /\ UNCHANGED <<faults, disturbed>>
        \/ /\ rest # {} /\ hpc' = "find" /\ hreg' = n /\ hcount' = RowsOf(rest)
           /\ UNCHANGED <<down, faults, disturbed>>
        \/ /\ Fault("query") /\ disturbed' = TRUE /\ Return
           /\ UNCHANGED down
  /\ UNCHANGED <<counter, senderVars, queueVars, rows, online, offline, clientVars>>

SyncFind ==
  /\ hpc = "find" /\ Return
  /\ \/ /\ down' = Append(down, [type |-> "page", rows |-> Page(hreg),
                                 more |-> HasMore])
        /\ UNCHANGED <<faults, disturbed>>
     \/ Fault("query") /\ disturbed' = TRUE /\ UNCHANGED down
  /\ UNCHANGED <<counter, senderVars, queueVars, rows, online, offline,
                 clientVars, up>>

-----------------------------------------------------------------------------
SenderStep(w) == Draw(w) \/ Publish(w) \/ Push(w)
Consumer(p) == Insert(p) \/ Mark(p)
Receive == ReceiveOne \/ ReceivePage
Worker == OwnDraw \/ OwnPublish \/ OwnAck \/ SyncCount \/ SyncFind

Next ==
  \/ \E w \in Sender : SenderStep(w)
  \/ \E p \in Partition : Consumer(p) \/ Commit(p) \/ ConsumerEnds(p) \/ Takeover(p)
  \/ Start \/ HandleLogin \/ FirstSync \/ Type \/ Receive \/ Worker

Spec == Init /\ [][Next]_vars

(* The worker handles what is queued, the connection and the goroutines of *)
(* the client run, and so does the consumer, while there is one.  Nobody   *)
(* has to send, and no gateway to take over a partition.                   *)
FairSpec ==
  /\ Spec /\ WF_vars(FirstSync) /\ WF_vars(Receive) /\ WF_vars(Worker)
  /\ \A p \in Partition : WF_vars(Consumer(p))

-----------------------------------------------------------------------------
(* Properties *)

Item == [type : {"push", "ack"}, num : Number]
          \cup [type : {"page"}, rows : SUBSET Number, more : BOOLEAN]

TypeOK ==
  /\ counter \in 0 .. (MaxIn + MaxOwn) /\ begun \in 0 .. MaxIn /\ sent \in 0 .. MaxOwn
  /\ spc \in [Sender -> {"idle", "publish", "push"}]
  /\ snum \in [Sender -> {0} \cup Number]
  /\ log \in [Partition -> Seq(Number)]
  /\ pos \in [Partition -> Nat] /\ committed \in [Partition -> Nat]
  /\ \A p \in Partition : {pos[p], marked[p], committed[p]} \subseteq 0 .. Len(log[p])
  /\ consuming \in [Partition -> BOOLEAN] /\ inserted \in [Partition -> BOOLEAN]
  /\ marked \in [Partition -> Nat]
  /\ failed \subseteq Number /\ disturbed \in BOOLEAN
  /\ rows \in [Number -> Nat] /\ faults \in 0 .. MaxFaults
  /\ online \in BOOLEAN /\ offline \subseteq Number
  /\ first \in {"off", "ready", "gone"}
  /\ seq \in {0} \cup Number /\ raised \in {0} \cup Number /\ got \subseteq Number
  /\ up \in Seq([type : {"sync", "send"}, num : {0} \cup Number])
  /\ hpc \in {"idle", "publish", "ack", "find"} /\ hreg \in {0} \cup Number
  /\ hcount \in Nat /\ down \in Seq(Item)

(* A push, an acknowledgement or a page never lowers the client's seq,     *)
(* however late it comes (client.go:180-187, 200-203, 224-227).            *)
SeqNeverFalls == [][seq' >= seq]_seq

(* Paging skips nothing: of the rows that waited when the client came      *)
(* online, the only ones below seq it has not been given are below a push  *)
(* or an acknowledgement (client.go:180-190, message.go:101-118).          *)
PageComplete == \A n \in offline : raised < n /\ n <= seq => n \in got

(* A Sync brings what waited when the client came online, page by page,    *)
(* unless a push overtakes it, a query fails, the consumer stores a row    *)
(* between the two queries of a page, which may push the last row it       *)
(* counted off a page that says it is the last (message.go:103-118), or    *)
(* the first Sync was read while the Login was still queued: it is dropped *)
(* (conn.go:84) and not sent again (client.go:50-58).                      *)
SyncDelivers ==
  online ~> disturbed \/ \A n \in offline : n \in got \/ raised >= n

(* A Sync ends: the client does not ask for pages for ever (client.go:188).*)
Syncing ==
  \/ first = "ready" \/ hpc = "find"
  \/ \E i \in 1 .. Len(up) : up[i].type = "sync"
  \/ \E i \in 1 .. Len(down) : down[i].type = "page"
SyncEnds == []<>~Syncing

(* Once a partition has a committed offset, whatever is published to it    *)
(* gets into the table, unless its insert fails, as long as a gateway      *)
(* consumes the partition, the first or one that took it over.  A gateway  *)
(* whose Consume has failed once does not (kafka/message.go:29-32).        *)
Unstored(p) == /\ committed[p] > 0
               /\ \E i \in (committed[p] + 1) .. Len(log[p]) :
                     log[p][i] \notin Stored \cup failed
QueueDrains == \A p \in Partition : []<>(~Unstored(p) \/ ~consuming[p])

(* seq is "the sequence number the client has synchronised": a message in  *)
(* the table with a lower number has been given to the client, or is on    *)
(* its way, or a Sync that asks for it is.  No later Sync does.            *)
OnItsWay(n) ==
  \/ \E i \in 1 .. Len(up) : up[i].type = "sync" /\ up[i].num < n
  \/ hpc = "find" /\ hreg < n
  \/ \E w \in Sender : spc[w] \in {"publish", "push"} /\ snum[w] = n
  \/ \E i \in 1 .. Len(down) : IF down[i].type = "page" THEN n \in down[i].rows
                                                        ELSE down[i].num = n
  \/ hpc \in {"publish", "ack"} /\ hreg = n
SyncedBelow ==
  online => \A n \in Stored : n <= seq => n \in got \/ OnItsWay(n)
=============================================================================
