----------------------------- MODULE UplinkInv -----------------------------
(* The inductive invariant behind the safety properties of Uplink.         *)
EXTENDS UplinkOnce, FiniteSets

\* The first frame of a message has a number, and has been sent.
Drew(m) == m < typed \/ (m = typed /\ pc[Main] \in {"send", "register", "read"})
Sent(m) == m < typed \/ (m = typed /\ pc[Main] \in {"register", "read"})

Drawing == {"load", "store", "send"}
ThreadInv ==
  /\ pc[Main] \in Drawing \cup {"read", "register"}
  /\ pc[Main] # "read" => typed \in Msg
  /\ \A m \in Msg :
       /\ pc[m] \in Drawing \cup {"off", "wait", "end"}
       /\ pc[m] # "off" \/ resent[m] > 0 => Sent(m)
       /\ pc[m] \in Drawing => resent[m] < ResendMax
  /\ wpc # "idle" => job \in Frame

\* The draws there were: the first of a message is 0, that of its k-th resend
\* is k.  No number is above how many there were, so no number leaves Id.
Draws == {d \in Msg \X (0 .. ResendMax) :
  \/ d[2] = 0 /\ Drew(d[1])
  \/ d[2] \in 1 .. resent[d[1]]
  \/ d[2] = resent[d[1]] + 1 /\ pc[d[1]] = "send"}
NumberInv ==
  /\ clientId <= Cardinality(Draws)
  /\ \A t \in Thread : reg[t] <= Cardinality(Draws)
  /\ \A m \in Msg : upId[m] <= Cardinality(Draws) /\ (Drew(m) => upId[m] # 0)

\* Goroutines that keep up draw and send one after the other.
PacedInv == paced =>
  /\ \A m \in Msg : Resending(m) => m = typed /\ pc[Main] \in {"register", "read"}
  /\ pc[Main] = "register" => pc[typed] \notin Drawing
  /\ \A t \in Thread : pc[t] = "store" => reg[t] = clientId
  /\ \A t \in Thread : pc[t] = "send" => upId[Of(t)] = clientId

\* WindowOpen, for the frames that are queued and those on their way.
WindowInv == paced /\ ~dropped =>
  /\ \A i \in 1 .. Len(queue) : queue[i].id = maxClientId + i
  /\ \A i \in 1 .. Len(wire) : wire[i].id = maxClientId + Len(queue) + i
  /\ clientId = maxClientId + Len(queue) + Len(wire) + (IF Drawn = {} THEN 0 ELSE 1)

\* Wherever a number stands it stands for the message it was drawn for.
In(s, i, m) == \E k \in 1 .. Len(s) : s[k].id = i /\ s[k].msg = m
Names(i, m) ==
  \/ In(queue, i, m) \/ In(wire, i, m) \/ In(acks, i, m)
  \/ wpc # "idle" /\ job.id = i /\ job.msg = m
  \/ cancel[i] = m
  \/ upId[m] = i
OwnerInv == paced =>
  \A i \in Id, m \in Msg : Names(i, m) =>
    i <= clientId /\ \A n \in Msg : Names(i, n) => n = m

\* Register is called once for a message.
CancelInv == \A i \in Id : cancel[i] # NoMsg =>
  /\ cancel[i] < typed \/ (cancel[i] = typed /\ pc[Main] = "read")
  /\ \A j \in Id : cancel[j] = cancel[i] => j = i

\* A frame makes one row at most, and is sent before.
Frames(s, m) == Cardinality({k \in 1 .. Len(s) : s[k].msg = m})
CopyInv == \A m \in Msg :
  peer[m] + Frames(queue, m) + Frames(wire, m)
    + (IF wpc \in {"own", "peer", "group"} /\ job.msg = m THEN 1 ELSE 0)
  <= resent[m] + (IF Sent(m) THEN 1 ELSE 0)

\* What is acknowledged has been stored for the sender; for the receiver only
\* if that is one user: a group's members get nothing from an outsider.
Stored(m) == own[m] > 0 /\ (kind[m] # "group" => peer[m] > 0)
AckInv ==
  /\ \A k \in 1 .. Len(acks) : Stored(acks[k].msg)
  /\ wpc = "ack" => Stored(job.msg)
  /\ wpc \in {"peer", "group"} => own[job.msg] > 0 /\ kind[job.msg] = wpc

\* Every step keeps this.
UInv == /\ TypeOK /\ ThreadInv /\ NumberInv /\ PacedInv /\ WindowInv
        /\ OwnerInv /\ CancelInv /\ CopyInv /\ AckInv
=============================================================================
