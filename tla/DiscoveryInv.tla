---------------------------- MODULE DiscoveryInv ----------------------------
(* The inductive invariant behind the safety properties of Discovery.      *)
EXTENDS Discovery

\* A process registers before it renews, and has a number of its own.
Registers == {"grant", "put", "keepAlive"}
ProcessInv == \A g \in Gateway :
  /\ pc[g] \in Registers \cup {"down"} => renew[g] = "off"
  /\ pc[g] # "down" => run[g] > 0
  /\ pc[g] # "watching" => events[g] = <<>>

\* Whether a watcher is still to be told of h, and what it hears last.
Told(s, h) == \E i \in 1 .. Len(s) : s[i].key = h
LastIsPut(s, h) == \E i \in 1 .. Len(s) :
  /\ s[i].key = h /\ s[i].put
  /\ \A j \in 1 .. Len(s) : s[j].key = h => j <= i

\* The map of a gateway that has read the keys is right about h once it has
\* heard what it is to be told, from its Get on.
RightAbout(g, h) ==
  IF Told(events[g], h) THEN LastIsPut(events[g], h) <=> h \in keys
  ELSE h \notin missed[g] => (h \in serverMap[g] <=> h \in keys)
ViewInv == \A g, h \in Gateway : pc[g] \in {"watch", "watching"} => RightAbout(g, h)

\* Every step keeps this.
DInv == TypeOK /\ KeyFollowsLease /\ ProcessInv /\ ViewInv
=============================================================================
