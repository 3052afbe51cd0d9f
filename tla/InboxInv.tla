------------------------------ MODULE InboxInv ------------------------------
(* The inductive invariant behind the safety properties of Inbox.          *)
EXTENDS Inbox

\* Every number was drawn for a message that was begun or typed, and a
\* handler that has a number in hand has one of these.
Sends(s) == Cardinality({i \in 1 .. Len(s) : s[i].type = "send"})
NumberInv ==
  /\ counter + Sends(up) <= begun + sent
  /\ \A w \in Sender : spc[w] # "idle" => snum[w] \in Number
  /\ hpc \in {"publish", "ack"} => hreg \in Number

\* A message is marked only while it is offered.
ConsumerInv == \A p \in Partition : inserted[p] => consuming[p] /\ pos[p] < Len(log[p])

\* Nothing passes between the server and a client whose Login has not been
\* handled; the user has what is up to the seq he gave.
AwayInv ==
  /\ first = "off" => ~online /\ seq = 0
  /\ ~online => /\ up = <<>> /\ down = <<>> /\ hpc = "idle" /\ offline = {}
                 /\ \A n \in Number : n <= seq => n \in got

\* A Sync asks for what follows a number seq has reached.
SyncInv ==
  /\ \A i \in 1 .. Len(up) : up[i].type = "sync" => up[i].num <= seq
  /\ hpc = "find" => hreg <= seq

\* A page on its way leaves out nothing that waited, between seq and its last
\* row; what waited is still in the table.
PageInv ==
  /\ offline \subseteq Stored
  /\ \A i \in 1 .. Len(down) : down[i].type = "page" =>
       \A k \in down[i].rows, n \in offline : seq < n /\ n <= k => n \in down[i].rows

\* Every step keeps this.
IInv == /\ TypeOK /\ NumberInv /\ ConsumerInv /\ AwayInv /\ SyncInv /\ PageInv
        /\ PageComplete
=============================================================================
