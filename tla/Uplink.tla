------------------------------- MODULE Uplink -------------------------------
(***************************************************************************)
(* How a message typed into the client reaches the store, and how the      *)
(* client learns that it did: ws_client/client.go on one side of a         *)
(* connection, HandlerMessage, MessageHandler and CompareAndIncrClientID   *)
(* of service/ws on the other.                                             *)
(*                                                                         *)
(* The client numbers what it sends with its clientId, and the server      *)
(* takes only the number after the last one it took.  A message without an *)
(* acknowledgement is sent again, UNDER A NEW NUMBER, by a goroutine of    *)
(* its own, up to ResendCountMax times.                                    *)
(*                                                                         *)
(* The connection keeps order and loses nothing while it lasts; the client *)
(* ends with it (Receive and SendMsg panic).  The client's seq and the     *)
(* sequence numbers of the rows are in Inbox; queues that fill, and        *)
(* connections that stop, in Gateway.                                      *)
(***************************************************************************)
EXTENDS Naturals, Sequences

CONSTANTS
  MaxMsgs,     \* messages typed (bound)
  ResendMax,   \* ResendCountMax
  MaxFaults,   \* failures of handlers and connections (bound)
  Paces,       \* whether the goroutines of the client keep up with their
               \* timers: TRUE, FALSE or either
  Logins,      \* whether the Login is handled in the two seconds the client
               \* waits before it reads its first line
  Mixes        \* what is typed, as sequences: a message to a "peer", to
               \* one"self", to a "group", or with a session type that is
               \* neither single nor group ("other")

ASSUME BoundAssumption ==
  /\ MaxMsgs \in Nat /\ ResendMax \in Nat /\ MaxFaults \in Nat
  /\ Paces \subseteq BOOLEAN /\ Logins \subseteq BOOLEAN
  /\ Mixes \subseteq [1 .. MaxMsgs -> {"peer", "self", "group", "other"}]

Msg == 1 .. MaxMsgs
Main == 0                       \* the goroutine of ReadLine
Thread == {Main} \cup Msg       \* m: the goroutine that resends message m
NoMsg == 0
Id == 1 .. (MaxMsgs * (1 + ResendMax))

VARIABLES
  \* the client
  clientId,    \* Client.clientId
  typed,       \* how many messages were typed; Main works on the last one
  kind,        \* what each message is
  paced,       \* whether the goroutines keep up, here: 100 ms between resends,
               \* one second between messages
  pc,          \* where each goroutine is
  reg,         \* the value a goroutine inside GetClientId has read
  upId,        \* upMsg.ClientId of each message, shared by Main and its resender
  resent,      \* retryCount of each resender
  cancel,      \* Client.clientId2Cancel: whose cancel function is under an id
  ctxDone,     \* messages whose context is cancelled
  alive,       \* FALSE once the client panicked
  \* the connection; frames and acknowledgements name their message, which
  \* in the code an acknowledgement does not
  wire,        \* frames on their way to the server
  acks,        \* acknowledgements on their way to the client
  \* the server
  loggedIn,    \* Conn.UserId # 0
  dropped,     \* (history) a frame was dropped for want of a Login
  queue,       \* requests in the task queue
  job, wpc,    \* the request the worker handles, and how far it got
  maxClientId, \* Conn.maxClientId
  own, peer,   \* rows published for the sender and for the receiver, who may
               \* be a group's other members
  faults       \* failures so far

typing      == <<typed, kind, paced>>
idVars      == <<clientId, reg, upId>>
retryVars   == <<resent, cancel, ctxDone>>
clientVars  == <<typing, pc, alive, idVars, retryVars>>
netVars     == <<wire, acks>>
windowVars  == <<loggedIn, dropped, queue, maxClientId>>
handlerVars == <<job, wpc>>
rowVars     == <<own, peer, faults>>
serverVars  == <<windowVars, handlerVars, rowVars>>
vars == <<clientVars, netVars, serverVars>>

Frame == [msg : Msg, id : Id]
NoJob == [msg |-> NoMsg, id |-> 0]

Init ==
  /\ clientId = 0 /\ typed = 0
  /\ kind \in Mixes /\ paced \in Paces
  /\ pc = [t \in Thread |-> IF t = Main THEN "read" ELSE "off"]
  /\ reg = [t \in Thread |-> 0]
  /\ upId = [m \in Msg |-> 0] /\ resent = [m \in Msg |-> 0]
  /\ cancel = [i \in Id |-> NoMsg] /\ ctxDone = {} /\ alive = TRUE
  /\ wire = <<>> /\ acks = <<>>
  /\ loggedIn \in Logins /\ dropped = FALSE /\ queue = <<>> /\ job = NoJob /\ wpc = "idle"
  /\ maxClientId = 0 /\ own = [m \in Msg |-> 0] /\ peer = [m \in Msg |-> 0]
  /\ faults = 0

At(t, p) == alive /\ pc[t] = p
GoTo(t, p) == pc' = [pc EXCEPT ![t] = p]
Of(t) == IF t = Main THEN typed ELSE t
Resending(m) == pc[m] \in {"wait", "load", "store", "send"}

-----------------------------------------------------------------------------
(* The client *)

(* The loop of ReadLine comes round one second after it went on from a     *)
(* message, and a line is typed.  A paced resender has finished by then:   *)
(* five resends and the tick that gives up take 0.6 seconds.               *)
ReadLine ==
  /\ At(Main, "read") /\ typed < MaxMsgs
  /\ paced => \A m \in Msg : ~Resending(m)
  /\ typed' = typed + 1 /\ GoTo(Main, "load")
  /\ UNCHANGED <<kind, paced, alive, netVars, serverVars, idVars, retryVars>>

(* GetClientId has no lock: c.clientId++ reads in one step and writes in   *)
(* another, and the value written is the one returned.                     *)
LoadId(t) ==
  /\ At(t, "load")
  /\ reg' = [reg EXCEPT ![t] = clientId] /\ GoTo(t, "store")
  /\ UNCHANGED <<clientId, upId, alive, netVars, serverVars, typing,
                  retryVars>>

\* Fault seeded by the mutants: a resend keeps the number of the first frame.
StoreKeepingId(t) ==
  /\ At(t, "store")
  /\ clientId' = IF t = Main THEN reg[t] + 1 ELSE clientId
  /\ upId' = [upId EXCEPT ![Of(t)] = IF t = Main THEN reg[t] + 1 ELSE @]
  /\ GoTo(t, "send")
  /\ UNCHANGED <<reg, alive, netVars, serverVars, typing, retryVars>>

\* Fault seeded by the mutants: numbers start again with each message.
StoreFresh(t) ==
  /\ At(t, "store")
  /\ clientId' = IF t = Main THEN 1 ELSE reg[t] + 1
  /\ upId' = [upId EXCEPT ![Of(t)] = IF t = Main THEN 1 ELSE reg[t] + 1]
  /\ GoTo(t, "send")
  /\ UNCHANGED <<reg, alive, netVars, serverVars, typing, retryVars>>

StoreId(t) ==
  /\ At(t, "store")
  /\ clientId' = reg[t] + 1
  /\ upId' = [upId EXCEPT ![Of(t)] = reg[t] + 1]
  /\ GoTo(t, "send")
  /\ UNCHANGED <<reg, alive, netVars, serverVars, typing, retryVars>>

(* SendMsg.  After its first frame a message gets its resender; a resender *)
(* counts and goes back to its select.                                     *)
SendFrame(t) ==
  /\ At(t, "send")
  /\ wire' = Append(wire, [msg |-> Of(t), id |-> upId[Of(t)]])
  /\ IF t = Main
       THEN /\ pc' = [pc EXCEPT ![Main] = "register", ![typed] = "wait"]
            /\ UNCHANGED resent
       ELSE GoTo(t, "wait") /\ resent' = [resent EXCEPT ![t] = @ + 1]
  /\ UNCHANGED <<cancel, ctxDone, alive, acks, serverVars, typing,
                  idVars>>

(* The cancel function goes into the map after the frame has been sent,    *)
(* under the id upMsg has by now.                                          *)
Register ==
  /\ At(Main, "register")
  /\ cancel' = [cancel EXCEPT ![upId[typed]] = typed]
  /\ GoTo(Main, "read")
  /\ UNCHANGED <<resent, ctxDone, alive, netVars, serverVars, typing, idVars>>

(* A paced main goroutine has registered by the first tick.                *)
Ticked(m) == At(m, "wait") /\ (paced => pc[Main] # "register")

\* Fault seeded by the mutants: one resend too many.
TickOnceMore(m) ==
  /\ Ticked(m)
  /\ GoTo(m, IF resent[m] > ResendMax THEN "end" ELSE "load")
  /\ UNCHANGED <<alive, netVars, serverVars, typing, idVars, retryVars>>

\* Fault seeded by the mutants: a resender that gives up does not return.
TickForever(m) ==
  /\ Ticked(m)
  /\ GoTo(m, IF resent[m] >= ResendMax THEN "wait" ELSE "load")
  /\ UNCHANGED <<alive, netVars, serverVars, typing, idVars, retryVars>>

(* The two cases of the resender's select; with both ready Go takes either.*)
Tick(m) ==
  /\ Ticked(m)
  /\ GoTo(m, IF resent[m] >= ResendMax THEN "end" ELSE "load")
  /\ UNCHANGED <<alive, netVars, serverVars, typing, idVars, retryVars>>

Cancelled(m) ==
  /\ At(m, "wait") /\ m \in ctxDone
  /\ GoTo(m, "end")
  /\ UNCHANGED <<alive, netVars, serverVars, typing, idVars, retryVars>>

(* HandlerMessage of the client on an acknowledgement of type AT_Up.       *)
ReceiveAck ==
  /\ alive /\ acks # <<>>
  /\ LET a == Head(acks) IN
       /\ ctxDone' = IF cancel[a.id] = NoMsg THEN ctxDone ELSE ctxDone \cup {cancel[a.id]}
       /\ cancel' = [cancel EXCEPT ![a.id] = NoMsg]
  /\ acks' = Tail(acks)
  /\ UNCHANGED <<pc, resent, alive, wire, serverVars, typing, idVars>>

(* Two goroutines inside WriteMessage make the websocket library panic.    *)
ConcurrentWrite ==
  /\ \E t, u \in Thread : t # u /\ At(t, "send") /\ At(u, "send")
  /\ alive' = FALSE
  /\ UNCHANGED <<pc, netVars, serverVars, typing, idVars, retryVars>>

(* Heartbeat, and the Sync for a further page: frames no counter depends   *)
(* on, unless a goroutine is writing one of its own just then.             *)
Heartbeat ==
  /\ \E t \in Thread : At(t, "send")
  /\ alive' = FALSE
  /\ UNCHANGED <<pc, netVars, serverVars, typing, idVars, retryVars>>

(* The connection fails, or ends with the gateway, and the client with it. *)
ConnectionLost ==
  /\ alive /\ alive' = FALSE
  /\ \/ faults < MaxFaults /\ faults' = faults + 1
     \/ wpc = "gone" /\ UNCHANGED faults
  /\ UNCHANGED <<pc, own, peer, netVars, windowVars, handlerVars, typing,
                  idVars, retryVars>>

-----------------------------------------------------------------------------
(* The server *)

(* A worker handles the Login, the first command of the connection.        *)
HandleLogin ==
  /\ wpc # "gone" /\ ~loggedIn /\ loggedIn' = TRUE
  /\ UNCHANGED <<dropped, queue, maxClientId, netVars, handlerVars, rowVars,
                  clientVars>>

(* StartReader and HandlerMessage: before the Login has been handled every *)
(* other command is dropped.                                               *)
ReadFrame ==
  /\ wpc # "gone" /\ wire # <<>> /\ wire' = Tail(wire)
  /\ queue' = IF loggedIn THEN Append(queue, Head(wire)) ELSE queue
  /\ dropped' = (dropped \/ ~loggedIn)
  /\ UNCHANGED <<acks, loggedIn, maxClientId, handlerVars, rowVars,
                  clientVars>>

\* Fault seeded by the mutants: any higher number will do.
FitsAnyHigher(f) == f.id > maxClientId

(* CompareAndIncrClientID: the next number, and no other.                  *)
Fits(f) == f.id = maxClientId + 1

\* Fault seeded by the mutants: the number is compared and not counted.
TakeUncounted ==
  /\ wpc = "idle" /\ queue # <<>> /\ queue' = Tail(queue)
  /\ LET f == Head(queue) IN
       IF Fits(f) /\ kind[f.msg] # "self"
         THEN job' = f /\ wpc' = "own" ELSE UNCHANGED handlerVars
  /\ UNCHANGED <<loggedIn, dropped, maxClientId, rowVars, clientVars, netVars>>

(* MessageHandler up to the checks: the number, which is used up whatever  *)
(* follows, then messages to oneself are refused.                          *)
Take ==
  /\ wpc = "idle" /\ queue # <<>> /\ queue' = Tail(queue)
  /\ LET f == Head(queue) IN
       \/ /\ ~Fits(f)
          /\ UNCHANGED <<maxClientId, handlerVars>>
       \/ /\ Fits(f) /\ maxClientId' = maxClientId + 1
          /\ IF kind[f.msg] = "self" THEN UNCHANGED <<job, wpc>>
                                     ELSE job' = f /\ wpc' = "own"
  /\ UNCHANGED <<loggedIn, dropped, netVars, rowVars, clientVars>>

OneMore(rows) == [rows EXCEPT ![job.msg] = @ + 1]
Return == wpc' = "idle" /\ job' = NoJob

\* Fault seeded by the mutants: acknowledged once the sender has its row.
StoreOwnOnly ==
  /\ wpc = "own"
  /\ own' = OneMore(own)
  /\ IF kind[job.msg] = "other" THEN Return ELSE wpc' = "ack" /\ UNCHANGED job
  /\ UNCHANGED <<peer, faults, windowVars, clientVars, netVars>>

(* SendToUser for the sender: a number, and a publication; then the switch *)
(* over session types.                                                     *)
StoreOwn ==
  /\ wpc = "own"
  /\ own' = OneMore(own)
  /\ \/ kind[job.msg] = "other" /\ Return
     \/ kind[job.msg] \in {"peer", "group"} /\ wpc' = kind[job.msg] /\ UNCHANGED job
  /\ UNCHANGED <<peer, faults, netVars, windowVars, clientVars>>

(* SendToUser for the receiver: number, publication, push.                 *)
StorePeer ==
  /\ wpc = "peer"
  /\ peer' = OneMore(peer)
  /\ wpc' = "ack"
  /\ UNCHANGED <<job, own, faults, netVars, windowVars, clientVars>>

(* SendToGroup.  A sender who is not a member is no error: nothing is      *)
(* published, and the handler acknowledges.  A member's message is         *)
(* published for the others, and then the nil DiscoverySer ends the        *)
(* process.  How it gets that far is in GroupChat.                         *)
SendToGroup ==
  /\ wpc = "group"
  /\ \/ wpc' = "ack" /\ UNCHANGED peer
     \/ wpc' = "gone" /\ peer' = OneMore(peer)
  /\ UNCHANGED <<job, own, faults, netVars, windowVars, clientVars>>

(* An error of Redis, Kafka, MySQL or the push makes the handler return,   *)
(* before or after what it was about to publish is published.              *)
Fail ==
  /\ faults < MaxFaults /\ faults' = faults + 1
  /\ \/ wpc = "own" /\ own' \in {own, OneMore(own)} /\ UNCHANGED peer
     \/ wpc \in {"peer", "group"} /\ peer' \in {peer, OneMore(peer)} /\ UNCHANGED own
  /\ Return
  /\ UNCHANGED <<netVars, windowVars, clientVars>>

SendAck ==
  /\ wpc = "ack"
  /\ acks' = Append(acks, job)
  /\ Return
  /\ UNCHANGED <<wire, windowVars, rowVars, clientVars>>

-----------------------------------------------------------------------------
ThreadStep(t) == LoadId(t) \/ StoreId(t) \/ SendFrame(t)
ResenderStep(m) == ThreadStep(m) \/ Tick(m) \/ Cancelled(m)
MainStep == ThreadStep(Main) \/ Register
Worker == Take \/ StoreOwn \/ StorePeer \/ SendToGroup \/ SendAck

Next ==
  \/ ReadLine \/ MainStep
  \/ \E m \in Msg : ResenderStep(m)
  \/ ReceiveAck \/ ConcurrentWrite \/ Heartbeat \/ ConnectionLost
  \/ HandleLogin \/ ReadFrame \/ Worker \/ Fail

Spec == Init /\ [][Next]_vars

(* Goroutines run, the connection carries what was written, the worker     *)
(* handles what is queued, and a process that ends takes its connections   *)
(* with it.  Nothing makes anybody type.                                   *)
FairSpec ==
  /\ Spec /\ WF_vars(MainStep) /\ WF_vars(ReceiveAck)
  /\ \A m \in Msg : WF_vars(ResenderStep(m))
  /\ WF_vars(HandleLogin) /\ WF_vars(ReadFrame) /\ WF_vars(Worker)
  /\ WF_vars(wpc = "gone" /\ ConnectionLost)

-----------------------------------------------------------------------------
(* Properties *)

TypeOK ==
  /\ clientId \in {0} \cup Id /\ typed \in {0} \cup Msg /\ kind \in Mixes /\ paced \in BOOLEAN
  /\ pc \in [Thread -> {"read", "off", "load", "store", "send", "register", "wait", "end"}]
  /\ reg \in [Thread -> {0} \cup Id] /\ upId \in [Msg -> {0} \cup Id]
  /\ resent \in [Msg -> 0 .. ResendMax]
  /\ cancel \in [Id -> {NoMsg} \cup Msg] /\ ctxDone \subseteq Msg /\ alive \in BOOLEAN
  /\ wire \in Seq(Frame) /\ acks \in Seq(Frame)
  /\ loggedIn \in BOOLEAN /\ dropped \in BOOLEAN /\ queue \in Seq(Frame)
  /\ job \in Frame \cup {NoJob} /\ wpc \in {"idle", "own", "peer", "group", "ack", "gone"}
  /\ maxClientId \in {0} \cup Id
  /\ own \in [Msg -> Nat] /\ peer \in [Msg -> Nat]
  /\ faults \in 0 .. MaxFaults

InFlight == queue \o wire
Drawn == {t \in Thread : pc[t] = "send"}

(* The window between the two counters: when the goroutines keep up and    *)
(* nothing was dropped for want of a Login, what is in flight is exactly   *)
(* the numbers after maxClientId, in order, up to the client's counter     *)
(* less the one number that may be drawn and not yet sent.  Otherwise the  *)
(* server drops this frame and every later one (conn.go:279).              *)
WindowOpen ==
  paced /\ ~dropped =>
  /\ \A i \in 1 .. Len(InFlight) : InFlight[i].id = maxClientId + i
  /\ \A t, u \in Drawn : t = u
  /\ clientId = maxClientId + Len(InFlight) + (IF Drawn = {} THEN 0 ELSE 1)

(* A cancel function under an id belongs to the message whose first frame  *)
(* has that id: no acknowledgement, of whatever frame, stops the resends   *)
(* of another message (client.go:129, 218).                                *)
FramesOf(i) == {InFlight[k].msg : k \in {k \in 1 .. Len(InFlight) : InFlight[k].id = i}}
CancelIsMine ==
  \A i \in Id : paced /\ cancel[i] # NoMsg =>
    /\ \A j \in Id \ {i} : cancel[j] # cancel[i]
    /\ FramesOf(i) \subseteq {cancel[i]}
    /\ \A k \in 1 .. Len(acks) : acks[k].id = i => acks[k].msg = cancel[i]
    /\ wpc # "idle" /\ job.id = i => job.msg = cancel[i]

(* The number the server waits for is gone: drawn, not in flight, not to   *)
(* be sent and not to be drawn again.                                      *)
Wedged ==
  LET k == maxClientId + 1 IN
  /\ clientId >= k
  /\ \A t \in Thread : pc[t] = "store" => reg[t] >= k
  /\ \A t \in Drawn : upId[Of(t)] # k
  /\ \A i \in 1 .. Len(InFlight) : InFlight[i].id # k

(* Once the number is gone the server takes nothing more from this         *)
(* connection, whatever the client sends: no resend repairs the window,    *)
(* as every resend has a higher number (client.go:122).                    *)
WedgedForGood == [][Wedged => Wedged' /\ maxClientId' = maxClientId]_vars

(* A resender ends, after at most ResendMax resends (client.go:116-120).   *)
RetriesEnd == \A m \in Msg : Resending(m) ~> (pc[m] = "end" \/ ~alive)

(* "Makes uplink messages reliable": what is typed to a peer is in the     *)
(* peer's rows in the end.                                                 *)
StoredInTheEnd ==
  \A m \in Msg : (typed = m /\ kind[m] = "peer") ~> (peer[m] > 0 \/ ~alive)

(* What the resends are for: if the goroutines keep up, nothing is dropped *)
(* for want of a Login and at most ResendMax handlers fail, every message  *)
(* typed to a peer is stored for the peer in the end, because a failed     *)
(* handler has used up its number and the next resend has the next one     *)
(* (req.go:100, client.go:122).                                            *)
ResendsMaskFailures ==
  \A m \in Msg : (typed = m /\ kind[m] = "peer")
                   ~> (peer[m] > 0 \/ ~alive \/ ~paced \/ dropped)
=============================================================================
