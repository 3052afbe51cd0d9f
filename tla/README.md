# shyIM: a TLA+ model of the instant-messaging gateway

shyIM is an instant-messaging server in Go. Clients log in over HTTP, open a
WebSocket to a *gateway* process, and exchange single and group messages; Redis
holds online status and per-user sequence numbers, Kafka carries messages to the
process that stores them in MySQL, etcd lists the gateways. This directory holds
specifications of the parts where concurrency, failure and ordering decide
whether it is correct, the TLC configurations that check them, and proofs.

Everything is translated from the Go source; `PROJECT.json` gives, for each
definition, the lines it stands for.

## 1. Inventory

| Component (source) | State | Operations | Talks to | What is hard | What makes it correct |
|---|---|---|---|---|---|
| Connection (`service/ws/conn.go`) | `UserId`, `isClose`, `sendCh`, `exitCh`, `lastHeartBeatTime`, `maxClientId`, five locks | reader, buffered writer, `SendMsg`, `Stop`, `KeepLive`, `IsAlive` | server, workers, heartbeat checker, Redis | four callers of `Stop`; a send under the lock of another connection; a channel of ten with blocked senders | closed once; nothing sent on a closed channel; nobody waits for ever |
| Server and worker pool (`service/ws/server.go`) | `connMap`, `taskQueue` | `AddConn`, `RemoveConn`, `GetConn`, `GetAllConn`, `SendMsgToTaskQueue`, `StartOneWorker`, `SendMessageAll`, `Stop` | connections, handlers | a map written by logins and stops of different connections; order of a connection's commands | an entry belongs to its user; commands of a connection are handled in order, one at a time |
| Heartbeat checker (`service/ws/heartbeat.go`) | ticker, `quit` | `Start`, `check`, `Stop` | `connMap`, connections | looks at and stops connections others stop too | silent connections are closed |
| Request handlers (`service/ws/req.go`) | none of their own | `Login`, `Heartbeat`, `MessageHandler`, `Sync` | all of the above, Redis, Kafka, MySQL | check-then-act over Redis; partial failure between steps | one session per user; a message reaches its addressee |
| Delivery (`service/ws/message.go`) | none | `SendToUser`, `Send`, `SendToGroup` | Redis, Kafka, `connMap`, gRPC | push and store are separate; `SendToGroup` uses a discovery object that is never set | no misdelivery; nothing acknowledged is lost |
| WebSocket router (`router/ws.go`) | connection counter | upgrade, shutdown | server, checker | shutdown while connections come and go | logged-in connections are stopped |
| Online status (`model/cache/user_cache.go`) | `user_online_<id>`, TTL one day | get, set, delete | Redis | errors, expiry, no owner in the key | key exists iff the user is connected |
| Sequence numbers (`model/cache/seq_cache.go`, `service/seq.go`) | `object_seq_1_<id>` | `INCR`, batch `INCR` | Redis | concurrent senders: number taken and message published at different times | unique, increasing per user |
| Message queue (`pkg/kafka`) | topic, consumer offset | publish, consume, mark | Kafka, MySQL | at-least-once delivery; failed inserts are marked all the same; no key, so partitions reorder | what is published is stored |
| Message store (`model/message.go`) | table `message` | insert, `ListByUserIdAndSeq` | MySQL | pages by sequence number over rows that arrive late or twice | a Sync returns what the client lacks |
| Client (`ws_client/client.go`) | `clientId`, cancel map, `seq` | type, resend, receive, sync | gateway | resends take new ids; pushes and pages raise `seq` | every message stored, once; nothing skipped by a sync |
| Groups (`service/group.go`, `model/group*.go`, `model/cache/group_cache.go`) | tables, cached member set (2 h) | create, list, cache-aside read | MySQL, Redis | cache filled by two writers, expiry set in a second call | cached set equals the table |
| Accounts and friends (`service/user.go`, `service/friend.go`, models) | tables `user`, `friend` | register, log in, add friend | MySQL | count-then-insert | one account per phone, one friendship per pair |
| Discovery (`pkg/etcd`) | lease, `serverMap` | register, watch, list | etcd | events between the listing and the watch; a lost lease is not renewed | lists the live gateways |
| RPC (`service/rpc_server`, `pkg/rpc`) | none | `DeliverMessage`, `DeliverMessageAll` | gateways | the server is never started | - |
| RabbitMQ (`pkg/mq`) | queue | publish, consume | - | unused | - |
| HTTP router and JWT (`router/router.go`, `pkg/middlewares`, `pkg/utils/auth_token.go`) | tokens the clients hold | hand out, check | handlers | a token outlives the request it came with, or not | a token stands for the account whose password was given |
| Configuration, logging, generated protobuf | none or static | - | - | - | - |

The hazards of each part, at their lines, are in `PROJECT.json`.

## 2. Plan

| Stage | Modules | Status |
|---|---|---|
| 1. Gateway process: connections, workers, `connMap`, online status, heartbeat checker, shutdown | `Gateway`, `SerialPerConn`, `GatewayOrder`, `GatewayInv`, `GatewayProofs`, `GatewayWedgeProofs`, `GatewayOrderProofs` | done |
| 2. Uplink: client ids, resends and acknowledgements between the client and `MessageHandler` | `Uplink`, `AtLeastOnce`, `UplinkOnce`, `UplinkInv`, `UplinkProofs` | done |
| 3. Inbox: sequence numbers, queue, store, push and paged `Sync` of one user | `Inbox`, `InboxInv`, `InboxProofs` | done |
| 4. Groups: the cached member set and `SendToGroup` | `GroupChat`, `GroupInv`, `GroupProofs` | done |
| 5. Accounts and friends, with the tokens of the HTTP interface | `Accounts`, `Directory`, `AccountsInv`, `AccountsProofs` | done |
| 6. Service discovery | `Discovery`, `DiscoveryInv`, `DiscoveryProofs` | done |
| 7. Further theorems: what a queue promises as long as its first consumer has not stopped (the safety half of `QueueDrains`), what `SyncDelivers` and `ResendsMaskFailures` rest on short of fairness, and what a `Stop` that cannot go on is waiting for | additions to the proof modules | to come |

The modules share no variables. What one needs of another it has as a
nondeterministic step: `Uplink` lets a Login be late and a handler fail, `Inbox`
lets any step of a sender fail, `Gateway` names a message by its addressee only.
`GroupChat` takes users as given whom `Accounts` registers, and its last step is
what `Discovery` finds out and nobody asks: see there.

Each part is checked and proved along the same lines. A module `...Inv` states an
inductive invariant; a run of the part has it among its invariants (`IInv`, `UInv`,
`GInv`, `AInv`, `DInv`), and the module `...Proofs` proves that every step keeps it and
that the safety properties follow. The proofs take the constants as the named
assumptions of the module leave them; the bounds of the runs do not enter. Properties
under fairness are beyond the prover and are model-checked only.

## 3. Gateway

### Modules

| Module | Role |
|---|---|
| `Gateway` | the specification and its properties |
| `SerialPerConn` | abstract specification: commands of a connection are handled one at a time, in the order read |
| `GatewayOrder` | the refinement mapping from `Gateway` to `SerialPerConn` |
| `GatewayInv` | the inductive invariant, and what single theorems add to it |
| `GatewayProofs` | its proof, and the safety theorems |
| `GatewayWedgeProofs` | that a formed circle of waits is never left, and that a sole session stays |
| `GatewayOrderProofs` | that `Gateway` implements `SerialPerConn` |
| `MCGateway` | instances for TLC |

### State and actions

A `Conn` object is an element of `Conn`; `userId`, `isClose`, `sendCh` are its
fields. `sock` is the TCP connection, `stale` whether `lastHeartBeatTime` is
older than the timeout. A message is named by the user it is addressed to:
nothing else about it matters here. `connMap` and `online` are the map and the
Redis keys; `taskQueue` and `held` are the requests on their way.

The goroutines are the elements of `Thread`: the reader of each connection, the
workers, the heartbeat checker, and the goroutines `Server.Stop` starts. `pc` and
`on` say where each of them is and on whose connection; the writers have only
`writer`. Locks have no variable: `Announced`, `ReadHolders` and
`HeartHeld` derive the holders of `isCloseMutex` and `heartMutex` from `pc` and
`on`. A Go `RWMutex` lets no reader in once a writer waits; that is `Announced`
covering `stopEnter`, where the writer still waits for the readers.

| Code | Actions |
|---|---|
| upgrade, `StartReader`, `HandlerMessage` | `Connect`, `ReadFrame`, `ReaderKeepLive`, `Enqueue`, `ReadError` |
| `Conn.Stop`, whoever calls it | `StopLock`, `StopAgain`, `StopEnter`, `StopUnmap`, `StopOffline`, `StopFinish` |
| `Login` | `StartLogin`, `LoginGet`, `LoginSet`, `LoginUser`, `LoginAdd` |
| `MessageHandler`, `SendToUser`, `Send` | `StartMessage`, `Lookup`, `Deliver` |
| `Sync`, `Heartbeat`, handlers that return early | `StartSync`, `SkipReq` |
| `Conn.SendMsg` | `SendLock`, `SendLoad`, `SendPut` |
| `StartWriterWithBuffer` | `WriterRecv`, `WriterTick`, `WriterFlush`, `WriterKeepLive`, `WriterExit` |
| `HeartbeatChecker`, `IsAlive` | `HbTick`, `HbCheck`, `HbAlive`, `HbDone`, `HbQuit` |
| `Server.Stop`, `WSRouter` shutdown | `SignalStop`, `ShutdownDone` |
| time | `GoStale`, `KeyExpire` |

A step reaches from one point where another goroutine can get in between to the
next: a lock that can block, a channel operation, one access to `connMap`,
`UserId` or Redis. `panicked` is set by a send on a closed channel, which ends a
Go process; nothing moves afterwards.

### Runs

| Run | Instance | Question |
|---|---|---|
| `gateway_one` | one connection, two workers, two users, every event | is a connection closed once, is the registry right, does the pool keep the order of commands (refinement of `SerialPerConn`), does the inductive invariant hold |
| `gateway_race` | two connections, two users, two workers | what do concurrent logins, stops and sends do to each other, and do messages reach only their addressee |
| `gateway_wedge` | one connection, send channel of one, a client that reads or not, fairness | does a `Stop` always complete, and if not, why |
| `gateway_online`, `gateway_kicked` | one connection | comments of the code that its behaviour contradicts |

**Bounds.** `SendCap`, `TaskCap` and `BufLimit` are 1 or 2 instead of 10, the
configured task queue and 50: what matters is that they fill, and with one or
two elements they fill at once. `MaxReads` bounds the commands read, over all the
connections: three of them are two Logins and a message, which is what a send on
the other connection's closed channel takes. Two connections are what a race
between sessions takes, and two users what a misdelivery takes; a second worker
is what runs them in parallel.
`Events` switches sources of nondeterminism off in runs that ask about something
else. `CHECK_DEADLOCK FALSE` because a server whose clients are silent, or whose
connections are all closed, stops.

**Fairness.** `FairSpec` assumes that goroutines run: the scheduler is
fair, locks hand over in turn, `select` picks among ready cases at random
(strong fairness where a case is enabled again and again), and a read or a write
of a closed socket fails. A write to an open one has no deadline (`conn.go:188`):
it returns if the peer reads, and nothing makes a peer read. Nothing makes clients
connect, send or go silent either. `gateway_kicked` is checked under `ReadingSpec`,
which adds clients that read what they are sent, so that what it shows is the
fault of the server alone.

### What the runs show

What holds: a connection is closed once by one of its four possible closers; the
registry never names another user's connection; messages are never
misdelivered; the user of a connection never changes, which rests on one worker
serving all commands of a connection and nothing else; a rejected login harms
nobody; a single session stays registered.

What does not, each with a counterexample:

* **Ghost user** (`gateway_online`): a login handled after its connection was
  stopped leaves its user online with no open connection, and locked out.
* **Unkicked connections** (`gateway_kicked`): the heartbeat checker can itself
  be caught in a circle of four waits: `IsAlive` holds `heartMutex` and wants the
  read lock, behind a waiting `Stop`, behind a `SendMsg` waiting for room, which
  the writer makes only after `KeepLive`. `WedgeStays` proves that the circle,
  once formed, is for ever. (Connections nobody logged in on are never looked at
  at all: `HbTick` goes through `connMap`.)

`StopCompletes` says what else can keep a `Stop` from completing, in the instance
checked: a peer that stays connected and never reads again (`Unread`). Its writer
stays in `WriteMessage`, `sendCh` fills, a worker waits for room with the read lock
held, and `Stop` waits for that lock before it closes the socket, which alone would
end the write. With several connections the worker may be waiting on another one
than the one that is stopped.

Two more things are possible that the properties bound and do not exclude. The
online check and the key it guards are separate Redis calls, so two logins of one
user on two workers can both pass; `SoleSession` says what a session may rely
on as long as it is the only one. And `SendMsg` takes the read lock of the
connection it is called on, then sends to whatever connection `connMap` holds for
the user, which may be closed, so that Go panics; `PanicNeedsTwoLogins`, a
theorem, says that this takes two sessions.

### What is proved

For every set of connections, users and workers, every assignment of connections
to workers and all capacities (assumptions: `WorkerOfAssumption`,
`SentinelAssumption`, `CapAssumption`, `OpsAssumption`):

| Theorem | Property |
|---|---|
| `Invariance` | `[]IInv` |
| `TypeCorrect` | `[]TypeOK` |
| `RegistrySafe` | `[]RegistryOwner` |
| `DeliverySafe` | `[]NoMisdelivery` |
| `CloseOnce` | `[]OneCloser` |
| `OwnSendSafe` | `[]OwnChannelOpen` |
| `LoginOnce` | `UserIdSetOnce` |
| `RejectSafe` | `[]RejectHarmless` |
| `PanicCause` | `[]PanicNeedsTwoLogins` |
| `WedgeStays` | `WedgeIsForever` |
| `SessionStays` | `[]SoleSession` |
| `OrderImplemented` | `HandledInOrder` |

None of the safety properties is inductive: that a channel holds only messages
for its user depends on the user never changing, which depends on what the
worker knew when it checked, which depends on all requests of a
connection reaching one worker. `IInv` adds exactly that: requests in the queues
are with the right worker (`RequestInv`); what a worker knows of its request at
each point of a handler (`JobInv`); the lock discipline and what a
holder has seen of `isClose` (`LockInv`). `GatewayProofs` has first lemmas about
threads and sequences, then one about each kind of move (a reader's, a
worker's, a step inside `Stop`), then one lemma per action, and the theorems.

`SoleSession` has an invariant of its own beside `IInv`. That the only session of a
user stays in `connMap` could fail in a step of another Login or Stop of that
user, so the argument has to say that none exists whose next step matters, and had
to be said earlier than the property does: from the moment `LoginUser` sets
`UserId`, and of a Login that is about to do so (`SoleInv`, over connections that
are `Serving`). `Serving` once is `Serving` before (`ServedBefore`): no connection
opens again, a Stop that is closing goes on until `isClose`, and a Login between
setting its key and entering `connMap` stays there.

The refinement `HandledInOrder` needs, besides `IInv`, that a waiting worker
handles nothing and a reading reader holds nothing (`RestInv`). `OrderSteps` sorts all
actions into five kinds by what they do to `taskQueue`, `held` and `job`; each kind
is a step of `SerialPerConn` or none. What is queued for a connection is `Requests`,
the requests of a queue at its `Places`; it is defined by counting and not as a
filter, so that what it is after an `Append` and a `Tail` of the queue
(`RequestsAppend`, `RequestsTail`) can be proved without induction. `Enqueue` is no
step there: the request goes from the reader's hand to the end of the queue of the
worker of its connection, which is the only place the connection has requests in.

`FreshInv`, `SoleInv` and `RestInv`, which stand beside `IInv` in `GatewayInv`, are
proved and not among the invariants of the runs.

### Only model-checked

Liveness (`StopCompletes`) and the two violations are beyond the prover.

## 4. Uplink

`Uplink` follows typed messages from `ReadLine` to the store and their
acknowledgements back. `AtLeastOnce` is what that promises the user of
the client, and `UplinkOnce` maps one onto the other.

The client numbers its frames with `clientId`; the server takes only
`maxClientId + 1` (`Fits`, from `CompareAndIncrClientID`). Every resend draws a
new number, but the cancel function of a message is registered once, after its
first frame. The goroutines are `Main`, the loop of `ReadLine`, and one resender
for each message; `GetClientId` is two steps, `LoadId` and `StoreId`, because it
has no lock. The connection is a queue in each direction; the server side is
`ReadFrame` (drops what comes before the Login), `Take` (uses the number up),
`StoreOwn`, `StorePeer` or `SendToGroup`, `Fail` (a handler that returns early, with or
without its row published) and `SendAck`. `SendToGroup` either does nothing, because
the sender is not a member, or publishes and ends the process at the nil discovery
object (`wpc = "gone"`), which the client notices as a lost connection; its steps are
in `GroupChat`. Two writes to the socket at once end the client:
`ConcurrentWrite` between goroutines that send messages, `Heartbeat` when its
ticker, or the Sync for a further page, meets one of them.

Whether goroutines race in `GetClientId` depends on time: resends are 100 ms
apart and end within 0.6 s, lines at least a second apart. `paced` is the
assumption that they keep up with these timers; it is chosen at the start, and
properties that need it say so. `dropped` records that a frame came before
the Login was handled, for which the client waits two seconds and not for
an answer.

| Run | Instance | Question |
|---|---|---|
| `uplink_any` | two messages (both to a peer, one to a group and one to oneself, or one of an unknown session type and one to a peer), one resend each, one failure, paced or not, Login in time or late | all properties below |
| `uplink_lost` | the Login is late | is every message stored in the end, as `message.proto:74` says |

* `WindowOpen`: paced, and with nothing dropped, what is in flight is
  exactly the numbers the server waits for, in order, and no two goroutines are
  about to write at once.
* `CancelIsMine`: an acknowledgement stops the resends of no other message.
* `StoredBeforeReported`: the refinement; at most `1 + ResendMax` rows, and a
  message to a user leaves the list of those to resend only when it is stored for
  that user. (If the goroutines do not keep up this fails: two draw one number.) Of
  a group message an acknowledgement says nothing: `SendToGroup` returns `nil` for a
  sender who is not a member (`message.go:154-157`), and `MessageHandler`
  acknowledges what nobody was sent.
* `WedgedForGood`: once the number the server waits for is gone, it takes nothing
  more from this connection. This is what a Login that is late does.
* `ResendsMaskFailures`: fewer failures than resends are made up for.
* `RetriesEnd`: resenders end.

`uplink_lost` shows the price: the first frame is read before the Login is
handled and dropped with its number, and no resend repairs it.

**Bounds.** Two messages are what a mixed-up acknowledgement takes, one resend is
what a new number takes, and one failure is as many as one resend can mask. Between
them the three mixes have every kind of message, the refused ones both before and
after one that uses a number.
**Fairness.** Goroutines run, TCP delivers, the worker serves its queue, and a
process that ends takes its connections with it; nothing makes anybody type, fail or
lose the connection otherwise.

**Proved** (`UplinkProofs`, from `BoundAssumption`, for any number of messages,
resends and failures, paced or not): `UplinkInvariance` (`[]UInv`), and from it
`UplinkTypeCorrect` (`[]TypeOK`), `WindowStaysOpen` (`[]WindowOpen`),
`CancelOnlyOwn` (`[]CancelIsMine`) and `AtLeastOnceImplemented`, the refinement
`StoredBeforeReported`. `UInv` is in `UplinkInv`. Its parts are about different
things that the properties rest on together:

* `NumberInv`: `clientId` has a bound only because it counts how often `GetClientId`
  was called, and that is at most once for each message and each of its resends
  (`Draws`).
* `PacedInv`: of goroutines that keep up at most one is between `LoadId` and the end of
  its `SendMsg`. Everything below needs it.
* `WindowInv`: the queue and the wire hold the numbers after `maxClientId`, in order,
  and `clientId` is the last of them, or one further while somebody has drawn one.
* `OwnerInv`, `CancelInv`: a number means one message wherever it is met (a queue, a
  channel, the handler, the cancel map), and a message has one cancel function.
* `CopyInv`, `AckInv`: a row uses up a frame, and what is acknowledged was stored for
  its sender and, unless it was to a group, for its receiver.

`ShutForGood`, that is `WedgedForGood`, needs little of this. That
a number is gone has two halves: nobody on the client has it or can still draw it
(`Spent`), and it is neither on the wire nor queued (`Away`). The client's half is
kept because whoever is inside `GetClientId` has read a counter that is not below
the number already, the server's half because a frame with the number could only
come from a client that has it.

Only the liveness properties are just model-checked: `ResendsMaskFailures`,
`RetriesEnd`, and the violation `StoredInTheEnd`.

## 5. Inbox

`Inbox` is the way of messages *to* one user. `Draw`, `Publish` and `Push` are the
three steps of `SendToUser` on the senders' workers (`OwnDraw`, `OwnPublish`,
`OwnAck` when the user sends); `Insert`, `Mark`, `Commit`, `ConsumerEnds` and
`Takeover` are the Kafka consumer; `SyncCount` and `SyncFind` the two queries of a
`Sync`; `Start`, `FirstSync`, `ReceiveOne`, `ReceivePage` the client, and
`HandleLogin` the end of its Login on the server. The user types the number he has
got to when the client starts, so `Start` takes any. A message is known by its
sequence number. Rows are counted, as a redelivered message is stored twice and
pages are cut at a number of rows. Any call to Redis, Kafka or MySQL may fail, an
accepted publication may be reported as failed, and a gateway may crash between an
insert and the commit of its offset. The client sends its first Sync a second after
the Login and does not wait for an answer: a command that the server reads before
`HandleLogin` is dropped (`Command`). A consumer may end with its gateway, or alone:
after one error of `Consume` its goroutine returns and nothing starts it again
(`kafka/message.go:29-32`). Then nobody need take the partition over.

| Run | Instance | Question |
|---|---|---|
| `inbox_all` | two messages of another user, one of the user's own, pages of one row, any one failure, fairness | all properties below |
| `inbox_below` | three messages, no failure | does everything below `seq` reach the client |

* `PageComplete`: of the rows that waited when the client came online, none below
  `seq` is missing unless a push or an acknowledgement has gone past it.
* `SyncDelivers`, `SyncEnds`: paging brings all of them and ends, unless a push
  goes past them, a query fails, a row is stored between the two queries of
  a page, or the first Sync was read before the Login was handled. In the third
  case the count is too small for the page, and the client is told that there is no
  more; in the last the Sync is dropped and never sent again.
* `SeqNeverFalls`: pushes, acknowledgements and pages in any order.
* `QueueDrains`: after its first commit a partition is stored completely, however
  often its consumer is replaced, as long as there is one. Before it, a crash skips
  to the end of the partition: `Offsets.Initial` keeps its default.

`inbox_below` shows what the exceptions cost: a push that is handled before the
first `Sync` is sent raises `seq`, and that `Sync` skips all older messages for
good. A message whose insert failed is marked as handled all the same
(`MessageCreateHandler` has no result): `Insert` counts such an offset among the
`failed`, and `QueueDrains` promises nothing about it.

**Bounds.** One row a page makes two rows need a second one. Two messages and an
own one overtake each other in every order on their way to Kafka. One partition
keeps order; several would add rows that arrive in another order, which the senders
do already.
**Fairness.** The client's goroutines, the user's worker and the consumer run, the
last as long as it has not ended. Senders need not go on, offsets need not be
committed, no gateway has to take a partition over, and a Login need not be handled
before the Sync is read.

**Proved** (`InboxProofs`, from `InboxAssumption`, for any number of senders,
messages and failures, any partitions, pages of any length): `InboxInvariance`
(`[]IInv`), `InboxTypeCorrect` (`[]TypeOK`), `PagesComplete` (`[]PageComplete`) and
`SeqMonotone` (`SeqNeverFalls`). `IInv` is in `InboxInv`. A row that is skipped is
skipped when a page arrives, so the invariant speaks of the page while it is under
way (`PageInv`: between `seq` as it is by then and the last row of the page, nothing
that waited is left out), and of the Sync before that (`SyncInv`: it asks for what
follows a number that `seq` has reached; `seq` may have risen since, which only
shortens what the page must hold). That a page has this property when the query
makes it is a fact about `Page`: its rows are the lowest above the number asked for.
`counter` is bounded because every number is drawn for a message that was begun or
typed (`NumberInv`), and a Kafka offset because a message is marked only while it is
offered, and offered only to a consumer there is (`ConsumerInv`). Before the Login
is handled nothing is on its way to the client or back, and all it has is what the
user said he had (`AwayInv`). `RowsOf` counts rows as pairs, so that the library's
facts about finite sets apply. `SyncDelivers`, `SyncEnds` and `QueueDrains` are
liveness and only model-checked.

## 6. Groups

`GroupChat` has goroutines that create groups, list members and send to groups,
and a Redis set that each of them reads through, fills or lets expire.
`CallFails` and `Then` let every call fail, without effect or after it.

| Run | Instance | Question |
|---|---|---|
| `group_all` | three users, two goroutines, four requests, one failure | `CacheIsTable`, `WholeAudience` (a message goes to all members but its sender, from a member), `NumbersFresh`, `StoredBeforePush` |

No group message is pushed to anybody: `etcd.go:25` declares a local
`DiscoverySer`, the package variable `SendToGroup` uses stays nil, and the process
ends in a nil dereference (`PushAll` sets `panicked`, and nothing moves after it).
`StoredBeforePush` is what is left to rely on: by then every member has a row.

**Bounds.** Two goroutines are what a reader and a filler of the cache take, four
requests let a group be created, listed and sent to twice, and with one group
everything meets in one key.

**Proved** (`GroupProofs`, from `GroupChat`'s assumptions, for any sets of users,
groups and goroutines and any number of requests and failing calls):
`GroupInvariance` (`[]GInv`), and from it `GroupTypeCorrect` (`[]TypeOK`),
`CacheSafe` (`[]CacheIsTable`), `AudienceSafe` (`[]WholeAudience`), `NumbersSafe`
(`[]NumbersFresh`) and `StoreSafe` (`[]StoredBeforePush`). `GInv`, in `GroupInv`,
adds what the properties rest on. A goroutine that is about to fill the cache has
read either nothing or all the members (`ReadInv`): an answer that was only part of
the table would be cached for two hours. A number that was drawn and not yet
published is not above the counter (`NumberInv`), so that no later draw can give it
out again. `StoredBeforePush` is inductive with `GInv` beside it: whom a message is
pushed to stays the same while it is pushed, as nobody joins a group or leaves one.

## 7. Accounts and friends

`Accounts` is the HTTP interface over the tables `user` and `friend`. Gin serves
each request in a goroutine, an element of `Proc`; every statement is a step, as no
handler opens a transaction. `Directory` is what the interface promises: accounts
with one number each, sessions for who gave the number and the password of an
account, friendships between two accounts.

| Code | Actions |
|---|---|
| `RegisterHandler` | `Register`, `CountByPhone`, `CreateUser`, `GenerateToken` |
| `LoginHandler` | `Login`, `FindUser`, `GenerateToken` |
| `AuthCheck`, `AddFriendHandler` | `AddFriend`, `GetUserById`, `CheckFriend`, `CreateFriend` |
| `AnalyseToken` after `ExpiresAt` | `TokenExpires` |
| an error of MySQL, a process that ends | `CallFails`, `Then` and the lost answers of `CreateUser` and `CreateFriend` |

A token in the model carries, besides the user id that is signed into it, the
number and password of the request it was given to; the code does not look at them,
`Directory` does. Requests that are refused before the first statement (an empty
number or password, a friend id of zero or one's own, a token that does not parse)
change nothing and have no action. A password stands for its MD5 and a fixed salt.

| Run | Instance | Question |
|---|---|---|
| `accounts_all` | two users and a free number, four requests, two at once, one failure | the refinement `ImplementsDirectory`, `FriendRowsBounded` |

* `ImplementsDirectory`: two registrations of one number can both count none. The
  unique index is all that keeps them apart, and the loser is told of a system
  error. (The index is declared by the gorm tag at `model/user.go:10`; the
  repository has no migration that creates it, and the model takes the declared
  schema for the deployed one.) A registration whose answer is lost leaves an
  account that only a Login gets at. A friend is a user, although the id comes from
  the client and no foreign key asks for it.
* `FriendRowsBounded`: nothing keeps two requests from storing one friendship twice,
  from one side or from both; it is stored no more often than requests overlap, and
  never again later, because the check looks both ways round.

**Bounds.** Two goroutines are what a check-then-insert race takes, four requests
let a third one come after the race, or the loser log in. Three numbers, two
of them taken, let one request meet an account and two race for a new one; two
passwords tell the winner of a race from the loser.

**Proved** (`AccountsProofs`, from `AccountsAssumption`, for any number of requests,
goroutines and failures; the tables may start with any accounts of different
numbers): `AccountsInvariance` (`[]AInv`), `AccountsTypeCorrect` (`[]TypeOK`),
`FriendshipsBounded` (`[]FriendRowsBounded`) and `DirectoryImplemented`
(`ImplementsDirectory`). `AInv`, in `AccountsInv`, counts: every id that is used up,
and every row of `friend`, goes back to a request of its own (`IdsCounted`,
`RowsCounted`). A request that is about to get a token holds number and password of
an account as it is (`TokensStand`), which stays so because accounts are never
changed; one account for a number (`OneAccount`) is the unique index. For
`FriendRowsBounded` it must be known of ids that nobody has yet as well
(`RowsBounded`), as a request may name a user who registers only afterwards. In the
refinement `CreateUser` is `SignUp` and `CreateFriend` is `Befriend`; the statements
that only read are no steps. Nothing of this module is only model-checked.

## 8. Service discovery

`Discovery` has the goroutine `etcd.Start` of each gateway, and of etcd what it
uses: keys under leases, and watches. The n-th process of a gateway works under
the lease `<<g, n>>`.

| Code | Actions |
|---|---|
| `Start`, `NewRegistry`, `putKeyWithLease` | `StartProcess`, `Grant`, `Put`, `KeepAlive` |
| `ListenLeaseRespChan`, `close` | `RenewalEnds`, `Revoke` |
| `WatchServices`, `watcher` | `Get`, `Watch`, `WatchEvent`, `WatchEnds` |
| a lease that is not renewed for five seconds | `LeaseExpires` |
| a process that ends, also by the nil `Discovery` after a failed `NewDiscovery` | `Crash` |
| a call that fails, with or without an effect | `CallFails`, `Then` |

A process that ends tells etcd nothing, so its key stays until the lease ends; it
may be back before. `missed` is a history variable: the gateways that came or went
between the Get of a watcher and its Watch.

| Run | Instance | Question |
|---|---|---|
| `discovery_all` | two gateways of two processes each, one failure, fairness | all properties below |

* `KeyFollowsLease`: as long as a registered process keeps its lease it has its
  key, whatever happens to the lease of the process before it, and no key is
  without a lease.
* `MapFollowsKeys`, `ViewsCatchUp`: what a watcher has, and is still to be told,
  is what there is, but for what it missed. The exception is needed: `watcher`
  asks for no revision, so changes between the Get and the Watch (two round trips)
  are never told, though `shyIM.md:499` speaks of all of them.
* `DeadAreForgotten`: a key that nobody renews goes, whether its process ended, is
  back under another lease, returned with an error half way through its
  registration, or gave the lease up and could not revoke it.

A gateway that is cut off for longer than its lease is never registered again: after
`Revoke` nothing puts the key (`renew` stays `closed`). And as the `Discovery` that
`Start` creates is a local variable, nobody reads the map these properties are
about.

**Bounds.** A second process is what a key under two leases in turn takes, a second
gateway what a watcher of others takes; one failure loses an answer, a watch or a
lease. **Fairness.** The goroutines of a process run, etcd ends leases nobody
renews, and delivers the events of a watch. No process has to be started again.

**Proved** (`DiscoveryProofs`, from `DiscoveryAssumption`, for any gateways, any
number of processes of each and any number of failures): `DiscoveryInvariance`
(`[]DInv`), `DiscoveryTypeCorrect` (`[]TypeOK`), `RegistrationSafe`
(`[]KeyFollowsLease`) and `ViewSafe` (`[]MapFollowsKeys`). `DInv` is in
`DiscoveryInv`. `KeyFollowsLease` needs that only a process past its registration
renews (`ProcessInv`). `ViewInv` is `MapFollowsKeys` from the Get on and not only
from the Watch: the last event about a gateway that is still on its way agrees with
the store, and where none is, the map does, unless the gateway is in `missed`.
`DeadAreForgotten` and `ViewsCatchUp` are liveness and only model-checked.

## 9. Not modelled

Generated protobuf code, configuration, logging and database handles keep no state
of their own. RabbitMQ (`pkg/mq`) is not used by anything. The gRPC server that
would deliver messages between gateways is never registered nor started; the call
to it fails, and that failure is in the model (`Deliver`). `SendMessageAll` and
the push of a group message to other gateways come after the nil dereference of
`PushAll` and are never reached. A gateway process that ends, and what its users
find in Redis afterwards, is in no module: the keys expire after a day.
