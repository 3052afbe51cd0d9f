--------------------------- MODULE SerialPerConn ---------------------------
(***************************************************************************)
(* What the worker pool promises a connection (server.go:105, conn.go:19): *)
(* its commands are handled one at a time, in the order they were read.    *)
(***************************************************************************)
EXTENDS Sequences

CONSTANTS Conn, Req, NoReq   \* NoReq: no command is being handled

VARIABLES
  inbox,    \* Conn -> commands read and not yet begun
  current   \* Conn -> the command being handled, or NoReq

vars == <<inbox, current>>

Init == inbox = [c \in Conn |-> <<>>] /\ current = [c \in Conn |-> NoReq]

Read(c) == /\ \E r \in Req : inbox' = [inbox EXCEPT ![c] = Append(@, r)]
           /\ UNCHANGED current

\* The oldest command leaves the inbox when the one before it is finished.
Take(c) == /\ current[c] = NoReq /\ inbox[c] # <<>>
           /\ inbox' = [inbox EXCEPT ![c] = Tail(@)]

Begin(c) == Take(c) /\ current' = [current EXCEPT ![c] = Head(inbox[c])]

\* A command whose handler returns at once.
Skip(c) == Take(c) /\ UNCHANGED current

End(c) == /\ current[c] # NoReq
          /\ current' = [current EXCEPT ![c] = NoReq]
          /\ UNCHANGED inbox

Next == \E c \in Conn : Read(c) \/ Begin(c) \/ Skip(c) \/ End(c)

Spec == Init /\ [][Next]_vars
=============================================================================
