------------------------------ MODULE Discovery ------------------------------
(***************************************************************************)
(* How gateways register with etcd and learn of each other (pkg/etcd).     *)
(*                                                                         *)
(*   etcd.go        Start, a goroutine of every gateway process            *)
(*   registry.go    a key under a lease of five seconds, kept alive        *)
(*   discovery.go   one Get of all keys, then a Watch of what changes      *)
(*                                                                         *)
(* The n-th process of a gateway works under the lease <<g, n>>.  etcd     *)
(* keeps the keys, the leases, and what each watcher is still to be told;  *)
(* a client that loses its connection goes on with the watch where it was. *)
(* The value of a key is the address in it, so a gateway stands for both.  *)
(* Nothing in the program asks serverMap yet (see PushAll in GroupChat).   *)
(***************************************************************************)
EXTENDS Naturals, Sequences

CONSTANTS
  Gateway,     \* addresses of gateways
  Runs,        \* how many processes each of them has, in turn (bound)
  MaxFaults    \* failing calls, watches that end, pauses longer than a lease (bound)

ASSUME DiscoveryAssumption == Runs \in [Gateway -> Nat] /\ MaxFaults \in Nat

VARIABLES
  \* etcd
  keys,        \* the keys there are
  leaseOf,     \* the run whose lease a key hangs on, NoLease if on none
  leases,      \* leases that have not ended
  events,      \* events on their way to each watcher: a key that was put or
               \* deleted
  \* the gateways
  run,         \* which process of the gateway this is
  pc,          \* where Start is, "down" if there is no process
  renew,       \* ListenLeaseRespChan: "off", "on", "revoke" or "closed"
  serverMap,   \* Discovery.serverMap
  missed,      \* (history) gateways that came or went between Get and Watch,
               \* and of which the watcher has not heard since
  faults

etcdVars == <<keys, leaseOf, leases, events, missed>>
vars == <<etcdVars, run, pc, renew, serverMap, faults>>

NoLease == 0
Event == [key : Gateway, put : BOOLEAN]
Mine(g) == <<g, run[g]>>

Init ==
  /\ keys = {} /\ leases = {}
  /\ leaseOf = [g \in Gateway |-> NoLease]
  /\ run = [g \in Gateway |-> 0] /\ pc = [g \in Gateway |-> "down"]
  /\ renew = [g \in Gateway |-> "off"] /\ serverMap = [g \in Gateway |-> {}]
  /\ events = [g \in Gateway |-> <<>>] /\ missed = [g \in Gateway |-> {}]
  /\ faults = 0

At(g, where) == pc[g] = where
GoTo(g, where) == pc' = [pc EXCEPT ![g] = where]
Fault == faults < MaxFaults /\ faults' = faults + 1
NoFault == UNCHANGED faults

(* Start goes on after a call that succeeded, and returns after one whose  *)
(* answer is an error; the call may have had its effect all the same.      *)
Then(g, where) == \/ GoTo(g, where) /\ NoFault
                  \/ GoTo(g, "returned") /\ Fault
CallFails(g) ==
  /\ pc[g] \in {"grant", "put", "keepAlive", "get"}
  /\ GoTo(g, "returned") /\ Fault
  /\ UNCHANGED <<etcdVars, run, renew, serverMap>>

-----------------------------------------------------------------------------
(* Processes *)

(* main starts etcd.Start in a process that knows nothing of earlier ones. *)
StartProcess(g) ==
  /\ At(g, "down") /\ run[g] < Runs[g]
  /\ run' = [run EXCEPT ![g] = @ + 1] /\ GoTo(g, "grant")
  /\ UNCHANGED <<etcdVars, renew, serverMap, faults>>

(* A process ends without a word to etcd: there is no handler that would   *)
(* revoke the lease, whatever ends it.                                     *)
Crash(g) ==
  /\ ~At(g, "down") /\ GoTo(g, "down")
  /\ renew' = [renew EXCEPT ![g] = "off"]
  /\ serverMap' = [serverMap EXCEPT ![g] = {}]
  /\ events' = [events EXCEPT ![g] = <<>>] /\ missed' = [missed EXCEPT ![g] = {}]
  /\ UNCHANGED <<keys, leaseOf, leases, run, faults>>

-----------------------------------------------------------------------------
(* NewRegistry *)

(* A change reaches those who watch, and those who do not watch yet miss   *)
(* it.                                                                     *)
Notify(e) ==
  /\ events' = [g \in Gateway |-> IF At(g, "watching") THEN Append(events[g], e)
                                                      ELSE events[g]]
  /\ missed' = [g \in Gateway |-> IF At(g, "watch") THEN missed[g] \cup {e.key}
                                                   ELSE missed[g]]
NoChange == UNCHANGED <<keys, events, missed>>

Grant(g) ==
  /\ At(g, "grant") /\ Then(g, "put")
  /\ leases' = leases \cup {Mine(g)}
  /\ UNCHANGED <<keys, leaseOf, events, missed, run, renew, serverMap>>

\* Fault seeded by the mutants: a key that is there already is left alone.
PutIfAbsent(g) ==
  IF g \in keys THEN NoChange /\ UNCHANGED leaseOf
  ELSE /\ keys' = keys \cup {g} /\ leaseOf' = [leaseOf EXCEPT ![g] = run[g]]
       /\ Notify([key |-> g, put |-> TRUE])

\* Fault seeded by the mutants: the key hangs on no lease.
PutUnleased(g) ==
  /\ keys' = keys \cup {g} /\ leaseOf' = [leaseOf EXCEPT ![g] = NoLease]
  /\ Notify([key |-> g, put |-> TRUE])

(* A key that is there gets the new lease, and leaves the old one.         *)
PutKey(g) ==
  /\ keys' = keys \cup {g} /\ leaseOf' = [leaseOf EXCEPT ![g] = run[g]]
  /\ Notify([key |-> g, put |-> TRUE])

(* etcd refuses a key under a lease that has ended.                        *)
Put(g) ==
  /\ At(g, "put")
  /\ \/ Mine(g) \in leases /\ PutKey(g) /\ Then(g, "keepAlive")
     \/ /\ Mine(g) \notin leases /\ GoTo(g, "returned") /\ NoFault
        /\ NoChange /\ UNCHANGED leaseOf
  /\ UNCHANGED <<leases, run, renew, serverMap>>

KeepAlive(g) ==
  /\ At(g, "keepAlive") /\ GoTo(g, "get")
  /\ renew' = [renew EXCEPT ![g] = "on"]
  /\ UNCHANGED <<etcdVars, run, serverMap, faults>>

(* A lease ends, and the key that hangs on it goes.                        *)
EndLease(g, n) ==
  /\ leases' = leases \ {<<g, n>>}
  /\ IF g \in keys /\ leaseOf[g] = n
       THEN /\ keys' = keys \ {g}
            /\ Notify([key |-> g, put |-> FALSE])
       ELSE NoChange
  /\ UNCHANGED leaseOf

(* Five seconds without a renewal: nobody renews the lease, or the one who *)
(* should is cut off for that long.                                        *)
Renewed(g, n) == run[g] = n /\ renew[g] = "on"
LeaseExpires(g, n) ==
  /\ <<g, n>> \in leases /\ EndLease(g, n)
  /\ IF Renewed(g, n) THEN Fault ELSE NoFault
  /\ UNCHANGED <<run, pc, renew, serverMap>>

(* The channel of renewals is closed when the lease is lost, or the client *)
(* gives up on it.  Nothing registers the gateway again.                   *)
RenewalEnds(g) ==
  /\ renew[g] = "on" /\ renew' = [renew EXCEPT ![g] = "revoke"]
  /\ \/ Mine(g) \notin leases /\ NoFault
     \/ Mine(g) \in leases /\ Fault
  /\ UNCHANGED <<etcdVars, run, pc, serverMap>>

(* Registry.close                                                          *)
Revoke(g) ==
  /\ renew[g] = "revoke" /\ renew' = [renew EXCEPT ![g] = "closed"]
  /\ \/ Mine(g) \in leases /\ EndLease(g, run[g]) /\ NoFault
     \/ Mine(g) \in leases /\ Fault /\ UNCHANGED etcdVars
     \/ Mine(g) \notin leases /\ NoFault /\ UNCHANGED etcdVars
  /\ UNCHANGED <<run, pc, serverMap>>

-----------------------------------------------------------------------------
(* WatchServices *)

Get(g) ==
  /\ At(g, "get") /\ GoTo(g, "watch")
  /\ serverMap' = [serverMap EXCEPT ![g] = keys]
  /\ UNCHANGED <<etcdVars, run, renew, faults>>

(* The watch is asked for without a revision: it begins with the first     *)
(* event after etcd has created it, however long after the Get that is.    *)
Watch(g) ==
  /\ At(g, "watch") /\ GoTo(g, "watching")
  /\ UNCHANGED <<etcdVars, run, renew, serverMap, faults>>

\* Fault seeded by the mutants: gateways that go are not taken out.
AppliedPut(S, e) == S \cup {e.key}

Applied(S, e) == IF e.put THEN S \cup {e.key} ELSE S \ {e.key}

WatchEvent(g) ==
  /\ At(g, "watching") /\ events[g] # <<>>
  /\ events' = [events EXCEPT ![g] = Tail(@)]
  /\ LET e == Head(events[g]) IN
       /\ serverMap' = [serverMap EXCEPT ![g] = Applied(@, e)]
       /\ missed' = [missed EXCEPT ![g] = @ \ {e.key}]
  /\ UNCHANGED <<keys, leaseOf, leases, run, pc, renew, faults>>

(* The watch channel is closed: Start returns, and the map stays.          *)
WatchEnds(g) ==
  /\ At(g, "watching") /\ GoTo(g, "returned") /\ Fault
  /\ events' = [events EXCEPT ![g] = <<>>] /\ missed' = [missed EXCEPT ![g] = {}]
  /\ UNCHANGED <<keys, leaseOf, leases, run, renew, serverMap>>

-----------------------------------------------------------------------------
Register(g) == Grant(g) \/ Put(g) \/ KeepAlive(g)
WatchServices(g) == Get(g) \/ Watch(g) \/ WatchEvent(g)
LeaseEnds(g) == RenewalEnds(g) \/ Revoke(g)

Next == \E g \in Gateway :
  \/ StartProcess(g) \/ Crash(g) \/ CallFails(g)
  \/ Register(g) \/ LeaseEnds(g)
  \/ \E n \in 1 .. Runs[g] : LeaseExpires(g, n)
  \/ WatchServices(g) \/ WatchEnds(g)

Spec == Init /\ [][Next]_vars

(* The goroutines of a process run, etcd ends the leases nobody renews and *)
(* sends a watcher what it watches.  Nobody has to start a process again.  *)
FairSpec ==
  /\ Spec
  /\ \A g \in Gateway :
       /\ WF_vars(Register(g)) /\ WF_vars(WatchServices(g)) /\ WF_vars(LeaseEnds(g))
       /\ \A n \in 1 .. Runs[g] : WF_vars(~Renewed(g, n) /\ LeaseExpires(g, n))

-----------------------------------------------------------------------------
(* Properties *)

TypeOK ==
  /\ keys \subseteq Gateway
  /\ leaseOf \in [Gateway -> Nat] /\ run \in [Gateway -> Nat]
  /\ \A g \in Gateway : leaseOf[g] <= run[g] /\ run[g] <= Runs[g]
  /\ \A g \in keys : leaseOf[g] # NoLease
  /\ leases \subseteq Gateway \X Nat /\ \A l \in leases : l[2] \in 1 .. run[l[1]]
  /\ pc \in [Gateway -> {"down", "grant", "put", "keepAlive", "get", "watch", "watching",
                         "returned"}]
  /\ renew \in [Gateway -> {"off", "on", "revoke", "closed"}]
  /\ serverMap \in [Gateway -> SUBSET Gateway] /\ missed \in [Gateway -> SUBSET Gateway]
  /\ events \in [Gateway -> Seq(Event)]
  /\ faults \in 0 .. MaxFaults

(* While its lease lasts a registered gateway has its key, and the end of  *)
(* the lease of an earlier process does not take it away: a gateway that   *)
(* crashed may be back before its old lease ends (registry.go:48-51).  No  *)
(* key outlives the lease it hangs on.                                     *)
KeyFollowsLease ==
  \A g \in Gateway :
    /\ pc[g] = "keepAlive" \/ renew[g] = "on" =>
         (Mine(g) \in leases => g \in keys /\ leaseOf[g] = run[g])
    /\ g \in keys => <<g, leaseOf[g]>> \in leases

(* The map of a watcher and what it is still to be told amount to the keys *)
(* there are, but for gateways that came or went between its Get and its   *)
(* Watch and not since (discovery.go:35-63).                               *)
Expected(g, h) ==
  LET about == {i \in 1 .. Len(events[g]) : events[g][i].key = h} IN
  IF about = {} THEN h \in serverMap[g]
  ELSE \E i \in about : events[g][i].put /\ \A j \in about : j <= i
Missed(g, h) == h \in missed[g] /\ \A i \in 1 .. Len(events[g]) : events[g][i].key # h
MapFollowsKeys ==
  \A g, h \in Gateway :
    pc[g] = "watching" /\ ~Missed(g, h) => (Expected(g, h) <=> h \in keys)

(* The store forgets a key that nobody renews: its process crashed, came   *)
(* back under another lease, returned with an error half way through its   *)
(* registration, or gave the lease up and could not revoke it              *)
(* (registry.go:45-77).                                                    *)
Unrenewed(g) == g \in keys /\ ~Renewed(g, leaseOf[g])
DeadAreForgotten == \A g \in Gateway : []<>~Unrenewed(g)

(* A watcher learns in the end who is there and who is not, but for the    *)
(* changes it has missed (discovery.go:50-63).                             *)
Stale(g, h) == pc[g] = "watching" /\ (h \in serverMap[g] <=> h \notin keys)
ViewsCatchUp ==
  \A g, h \in Gateway : Stale(g, h) ~> (~Stale(g, h) \/ Missed(g, h))
=============================================================================
