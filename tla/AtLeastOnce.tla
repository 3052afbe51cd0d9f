----------------------------- MODULE AtLeastOnce -----------------------------
(***************************************************************************)
(* What the uplink promises the user of a client: a message that was given *)
(* to it may be stored for its receiver, more than once but no more often  *)
(* than it may be sent, and it is reported as delivered only after that.   *)
(***************************************************************************)
EXTENDS Naturals

CONSTANTS Msg, MaxCopies

VARIABLES given, copies, reported
vars == <<given, copies, reported>>

Init == given = {} /\ copies = [m \in Msg |-> 0] /\ reported = {}

Give(m) == /\ m \notin given /\ given' = given \cup {m}
           /\ UNCHANGED <<copies, reported>>

Store(m) == /\ m \in given /\ copies[m] < MaxCopies
            /\ copies' = [copies EXCEPT ![m] = @ + 1]
            /\ UNCHANGED <<given, reported>>

Report(m) == /\ copies[m] > 0 /\ m \notin reported
             /\ reported' = reported \cup {m}
             /\ UNCHANGED <<given, copies>>

Next == \E m \in Msg : Give(m) \/ Store(m) \/ Report(m)

Spec == Init /\ [][Next]_vars
=============================================================================
