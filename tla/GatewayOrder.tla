---------------------------- MODULE GatewayOrder ----------------------------
(***************************************************************************)
(* The readers, the task queues and the workers of Gateway implement       *)
(* SerialPerConn, through the one worker WorkerOf assigns a connection.    *)
(***************************************************************************)
EXTENDS Gateway

\* The requests of c in a queue, in their order: the k-th is the one with k of
\* them up to it.
Places(q, c) == {i \in DOMAIN q : q[i].conn = c}
Nth(S, k) == CHOOSE i \in S : Cardinality({j \in S : j <= i}) = k
Requests(q, c) ==
  LET S == Places(q, c) IN [k \in 1 .. Cardinality(S) |-> q[Nth(S, k)]]

\* What has been read from c and no worker has taken yet.
Inbox(c) == Requests(taskQueue[WorkerOf[c]], c)
              \o (IF held[c] = NoReq THEN <<>> ELSE <<held[c]>>)

\* The command of c some worker is handling.
Current(c) == IF \E w \in Worker : job[w].conn = c
              THEN job[CHOOSE w \in Worker : job[w].conn = c]
              ELSE NoReq

Serial == INSTANCE SerialPerConn
            WITH inbox <- [c \in Conn |-> Inbox(c)],
                 current <- [c \in Conn |-> Current(c)]

\* The commands of one connection are handled one after another, in the order
\* they were read from it, by whatever pool of workers (server.go:103-113).
HandledInOrder == Serial!Spec
=============================================================================
