-------------------------- MODULE DiscoveryProofs --------------------------
(***************************************************************************)
(* Proofs that Discovery keeps its safety properties for every number of   *)
(* gateways, of their processes, and of failures.                          *)
(***************************************************************************)
EXTENDS DiscoveryInv, TLAPS

Place == {"down", "grant", "put", "keepAlive", "get", "watch", "watching", "returned"}

-----------------------------------------------------------------------------
(* Facts about sequences of events.                                        *)

\* What an event at the end of a sequence changes of what it says.
LEMMA ToldByAppend ==
  ASSUME NEW s \in Seq(Event), NEW e \in Event, NEW h
  PROVE  /\ Append(s, e) \in Seq(Event)
         /\ Told(Append(s, e), h) <=> Told(s, h) \/ e.key = h
         /\ e.key = h => (LastIsPut(Append(s, e), h) <=> e.put)
         /\ e.key # h => (LastIsPut(Append(s, e), h) <=> LastIsPut(s, h))
<1> DEFINE t == Append(s, e)
           n == Len(s) + 1
<1>1. /\ t \in Seq(Event) /\ Len(t) = n /\ Len(s) \in Nat /\ t[n] = e
      /\ \A i \in 1 .. Len(s) : t[i] = s[i]
  OBVIOUS
<1> HIDE DEF t
<1>2. 1 .. Len(t) = 1 .. Len(s) \cup {n} /\ n \in 1 .. Len(t)
  BY <1>1
<1>3. Told(t, h) <=> Told(s, h) \/ e.key = h
  BY <1>1, <1>2 DEF Told
<1>4. ASSUME e.key = h PROVE LastIsPut(t, h) <=> e.put
  <2>1. ASSUME LastIsPut(t, h) PROVE e.put
    <3>1. PICK i \in 1 .. Len(t) : t[i].put /\ \A j \in 1 .. Len(t) : t[j].key = h => j <= i
      BY <2>1 DEF LastIsPut
    <3>2. i = n
      BY <1>1, <1>2, <1>4, <3>1
    <3> QED BY <1>1, <3>1, <3>2
  <2>2. ASSUME e.put PROVE LastIsPut(t, h)
    <3>1. n \in 1 .. Len(t) /\ t[n].key = h /\ t[n].put /\ \A j \in 1 .. Len(t) : j <= n
      BY <1>1, <1>2, <1>4, <2>2
    <3> QED BY <3>1 DEF LastIsPut
  <2> QED BY <2>1, <2>2
<1>5. ASSUME e.key # h PROVE LastIsPut(t, h) <=> LastIsPut(s, h)
  BY <1>1, <1>2, <1>5 DEF LastIsPut
<1> QED BY <1>1, <1>3, <1>4, <1>5 DEF t

\* What is left when the first event has been handled.
LEMMA ToldByTail ==
  ASSUME NEW s \in Seq(Event), s # <<>>, NEW h
  PROVE  /\ Tail(s) \in Seq(Event) /\ Head(s) \in Event
         /\ Told(s, h) <=> Told(Tail(s), h) \/ Head(s).key = h
         /\ Told(Tail(s), h) => (LastIsPut(Tail(s), h) <=> LastIsPut(s, h))
         /\ ~Told(Tail(s), h) /\ Head(s).key = h => (LastIsPut(s, h) <=> Head(s).put)
<1> DEFINE t == Tail(s)
<1>1. /\ t \in Seq(Event) /\ Len(s) \in Nat /\ Len(s) >= 1 /\ Len(t) = Len(s) - 1
      /\ Head(s) = s[1] /\ s[1] \in Event
      /\ \A i \in 1 .. Len(t) : t[i] = s[i + 1]
  OBVIOUS
<1> HIDE DEF t
<1>2. \A i \in 1 .. Len(t) : i + 1 \in 1 .. Len(s)
  BY <1>1
<1>3. \A i \in 1 .. Len(s) : i = 1 \/ (i - 1 \in 1 .. Len(t) /\ t[i - 1] = s[i])
  BY <1>1
<1>4. 1 \in 1 .. Len(s)
  BY <1>1
<1>5. Told(s, h) <=> Told(t, h) \/ Head(s).key = h
  BY <1>1, <1>2, <1>3, <1>4 DEF Told
<1>6. ASSUME Told(t, h) PROVE LastIsPut(t, h) <=> LastIsPut(s, h)
  <2>1. PICK k \in 1 .. Len(t) : t[k].key = h
    BY <1>6 DEF Told
  <2>2. ASSUME LastIsPut(t, h) PROVE LastIsPut(s, h)
    <3>1. PICK i \in 1 .. Len(t) : /\ t[i].key = h /\ t[i].put
                                   /\ \A j \in 1 .. Len(t) : t[j].key = h => j <= i
      BY <2>2 DEF LastIsPut
    <3>2. s[i + 1].key = h /\ s[i + 1].put /\ i + 1 \in 1 .. Len(s)
      BY <1>1, <1>2, <3>1
    <3>3. \A j \in 1 .. Len(s) : s[j].key = h => j <= i + 1
      BY <1>3, <3>1
    <3> QED BY <3>2, <3>3 DEF LastIsPut
  <2>3. ASSUME LastIsPut(s, h) PROVE LastIsPut(t, h)
    <3>1. PICK i \in 1 .. Len(s) : /\ s[i].key = h /\ s[i].put
                                   /\ \A j \in 1 .. Len(s) : s[j].key = h => j <= i
      BY <2>3 DEF LastIsPut
    <3>2. s[k + 1].key = h /\ k + 1 \in 1 .. Len(s)
      BY <1>1, <1>2, <2>1
    <3>3. k + 1 <= i
      BY <3>1, <3>2
    <3>4. i - 1 \in 1 .. Len(t) /\ t[i - 1] = s[i]
      BY <1>3, <3>3
    <3>5. \A j \in 1 .. Len(t) : t[j].key = h => j <= i - 1
      BY <1>1, <1>2, <3>1
    <3> QED BY <3>1, <3>4, <3>5 DEF LastIsPut
  <2> QED BY <2>2, <2>3
<1>7. ASSUME ~Told(t, h), Head(s).key = h PROVE LastIsPut(s, h) <=> Head(s).put
  <2>1. \A i \in 1 .. Len(s) : s[i].key = h => i = 1
    BY <1>3, <1>7 DEF Told
  <2> QED BY <1>1, <1>4, <1>7, <2>1 DEF LastIsPut
<1> QED BY <1>1, <1>5, <1>6, <1>7 DEF t

LEMMA NothingTold == ASSUME NEW h PROVE ~Told(<<>>, h)
BY DEF Told

\* Who watches gets the event; who has read the keys, and does not watch yet,
\* misses it.
LEMMA Notified ==
  ASSUME TypeOK, NEW e \in Event, Notify(e)
  PROVE  /\ events' \in [Gateway -> Seq(Event)] /\ missed' \in [Gateway -> SUBSET Gateway]
         /\ \A g \in Gateway :
              /\ events'[g] = IF pc[g] = "watching" THEN Append(events[g], e) ELSE events[g]
              /\ missed'[g] = IF pc[g] = "watch" THEN missed[g] \cup {e.key} ELSE missed[g]
<1>1. \A g \in Gateway : Append(events[g], e) \in Seq(Event)
  BY ToldByAppend DEF TypeOK
<1>2. e.key \in Gateway
  BY DEF Event
<1> QED BY <1>1, <1>2 DEF Notify, At, TypeOK

\* A step of etcd puts the key of a gateway, or takes it away, and tells, or
\* changes no key.
PutStep(g) == /\ Mine(g) \in leases /\ keys' = keys \cup {g} /\ UNCHANGED leases
              /\ leaseOf' = [leaseOf EXCEPT ![g] = run[g]] /\ Notify([key |-> g, put |-> TRUE])
EndStep(g, n) == /\ leases' = leases \ {<<g, n>>} /\ UNCHANGED leaseOf
                 /\ \/ /\ g \in keys /\ leaseOf[g] = n /\ keys' = keys \ {g}
                       /\ Notify([key |-> g, put |-> FALSE])
                    \/ ~(g \in keys /\ leaseOf[g] = n) /\ NoChange

\* What a step of a gateway does, by the place of its process: with the
\* calls that fail told apart from those that do not.
LEMMA StepCases ==
  ASSUME TypeOK, NEW g \in Gateway,
         \/ StartProcess(g) \/ Crash(g) \/ CallFails(g)
         \/ Register(g) \/ LeaseEnds(g)
         \/ \E n \in 1 .. Runs[g] : LeaseExpires(g, n)
         \/ WatchServices(g) \/ WatchEnds(g)
  PROVE  /\ faults' \in 0 .. MaxFaults
         /\ \/ StartProcess(g)
            \/ Crash(g)
            \/ /\ GoTo(g, "returned") /\ pc[g] \in {"grant", "put", "keepAlive", "get"}
               /\ UNCHANGED <<etcdVars, run, renew, serverMap>>
            \/ /\ At(g, "grant") /\ \E where \in {"put", "returned"} : GoTo(g, where)
               /\ leases' = leases \cup {Mine(g)}
               /\ UNCHANGED <<keys, leaseOf, events, missed, run, renew, serverMap>>
            \/ /\ At(g, "put") /\ \E where \in {"keepAlive", "returned"} : GoTo(g, where)
               /\ PutStep(g) /\ UNCHANGED <<run, renew, serverMap>>
            \/ KeepAlive(g)
            \/ /\ \E n \in Nat : EndStep(g, n)
               /\ renew' = renew \/ (renew[g] = "revoke" /\ renew' = [renew EXCEPT ![g] = "closed"])
               /\ UNCHANGED <<run, pc, serverMap>>
            \/ /\ \/ renew[g] = "on" /\ renew' = [renew EXCEPT ![g] = "revoke"]
                  \/ renew[g] = "revoke" /\ renew' = [renew EXCEPT ![g] = "closed"]
               /\ UNCHANGED <<etcdVars, run, pc, serverMap>>
            \/ Get(g) \/ Watch(g) \/ WatchEvent(g) \/ WatchEnds(g)
<1> USE DiscoveryAssumption
<1>f. /\ Fault => faults' \in 0 .. MaxFaults
      /\ NoFault => faults' \in 0 .. MaxFaults
  BY DEF Fault, NoFault, TypeOK
<1>1. CASE StartProcess(g)
  BY <1>1 DEF StartProcess, TypeOK
<1>2. CASE Crash(g)
  BY <1>2 DEF Crash, TypeOK
<1>3. CASE CallFails(g)
  BY <1>f, <1>3 DEF CallFails
<1>4. CASE Grant(g)
  BY <1>f, <1>4 DEF Grant, Then
<1>5. CASE Put(g)
  <2>1. CASE Mine(g) \in leases /\ PutKey(g) /\ Then(g, "keepAlive")
    BY <1>f, <1>5, <2>1 DEF Put, PutKey, PutStep, Then
  <2>2. CASE Mine(g) \notin leases /\ GoTo(g, "returned") /\ NoFault /\ NoChange /\ UNCHANGED leaseOf
    BY <1>f, <1>5, <2>2 DEF Put, At, NoChange, etcdVars
  <2> QED BY <1>5, <2>1, <2>2 DEF Put
<1>6. CASE KeepAlive(g)
  BY <1>6 DEF KeepAlive, TypeOK
<1>7. ASSUME NEW n \in 1 .. Runs[g], LeaseExpires(g, n)
      PROVE  /\ faults' \in 0 .. MaxFaults /\ EndStep(g, n) /\ n \in Nat
             /\ renew' = renew /\ UNCHANGED <<run, pc, serverMap>>
  <2>1. n \in Nat
    BY <1>7
  <2>2. EndLease(g, n) /\ faults' \in 0 .. MaxFaults /\ UNCHANGED <<run, pc, renew, serverMap>>
    BY <1>f, <1>7 DEF LeaseExpires
  <2>3. EndStep(g, n)
    BY <2>2 DEF EndLease, EndStep
  <2> QED BY <2>1, <2>2, <2>3
<1>8. CASE RenewalEnds(g)
  BY <1>f, <1>8 DEF RenewalEnds
<1>9. CASE Revoke(g)
  <2>1. CASE Mine(g) \in leases /\ EndLease(g, run[g]) /\ NoFault
    <3>1. run[g] \in Nat /\ EndStep(g, run[g])
      BY <2>1 DEF EndLease, EndStep, TypeOK
    <3> QED BY <1>f, <1>9, <2>1, <3>1 DEF Revoke
  <2>2. CASE UNCHANGED etcdVars /\ (Fault \/ NoFault)
    BY <1>f, <1>9, <2>2 DEF Revoke
  <2> QED BY <1>9, <2>1, <2>2 DEF Revoke
<1>10. CASE Get(g) \/ Watch(g) \/ WatchEvent(g)
  BY <1>10 DEF Get, Watch, WatchEvent, TypeOK
<1>11. CASE WatchEnds(g)
  BY <1>f, <1>11 DEF WatchEnds
<1> QED BY <1>1, <1>2, <1>3, <1>4, <1>5, <1>6, <1>7, <1>8, <1>9, <1>10, <1>11
        DEF Register, LeaseEnds, WatchServices

-----------------------------------------------------------------------------
(* What the watchers know.                                                 *)

\* A step that tells nobody anything new.
LEMMA ViewKept ==
  ASSUME ViewInv, UNCHANGED <<keys, events, missed>>,
         \A g \in Gateway : pc'[g] \in {"watch", "watching"} =>
           pc[g] \in {"watch", "watching"} /\ serverMap'[g] = serverMap[g]
  PROVE  ViewInv'
BY DEF ViewInv, RightAbout

\* A key that comes or goes.
LEMMA ViewNotified ==
  ASSUME DInv, NEW e \in Event, Notify(e),
         keys' = IF e.put THEN keys \cup {e.key} ELSE keys \ {e.key},
         \A g \in Gateway : pc'[g] \in {"watch", "watching"} => pc'[g] = pc[g],
         UNCHANGED serverMap
  PROVE  ViewInv'
<1> SUFFICES ASSUME NEW g \in Gateway, NEW h \in Gateway, pc'[g] \in {"watch", "watching"}
             PROVE  RightAbout(g, h)'
  BY DEF ViewInv
<1>1. /\ pc[g] \in {"watch", "watching"} /\ RightAbout(g, h) /\ e.put \in BOOLEAN
      /\ events[g] \in Seq(Event)
      /\ pc[g] # "watching" => events[g] = <<>>
  BY DEF DInv, ViewInv, ProcessInv, TypeOK, Event
<1>2. /\ events'[g] = IF pc[g] = "watching" THEN Append(events[g], e) ELSE events[g]
      /\ missed'[g] = IF pc[g] = "watch" THEN missed[g] \cup {e.key} ELSE missed[g]
  BY Notified DEF DInv
<1>3. h # e.key => (h \in keys' <=> h \in keys)
  OBVIOUS
<1>4. h = e.key => (h \in keys' <=> e.put)
  BY <1>1
<1>5. CASE pc[g] = "watching"
  <2>1. events'[g] = Append(events[g], e) /\ missed'[g] = missed[g]
    BY <1>2, <1>5
  <2>2. CASE h = e.key
    <3>1. Told(events'[g], h) /\ (LastIsPut(events'[g], h) <=> e.put)
      BY <1>1, <2>1, <2>2, ToldByAppend
    <3> QED BY <1>4, <2>2, <3>1 DEF RightAbout
  <2>3. CASE h # e.key
    <3>1. /\ Told(events'[g], h) <=> Told(events[g], h)
          /\ LastIsPut(events'[g], h) <=> LastIsPut(events[g], h)
      BY <1>1, <2>1, <2>3, ToldByAppend
    <3> QED BY <1>1, <1>3, <2>1, <2>3, <3>1 DEF RightAbout
  <2> QED BY <2>2, <2>3
<1>6. CASE pc[g] = "watch"
  <2>1. events[g] = <<>> /\ events'[g] = <<>> /\ missed'[g] = missed[g] \cup {e.key}
    BY <1>1, <1>2, <1>6
  <2>2. ~Told(events[g], h) /\ ~Told(events'[g], h)
    BY <2>1, NothingTold
  <2> QED BY <1>1, <1>3, <2>1, <2>2 DEF RightAbout
<1> QED BY <1>1, <1>5, <1>6

\* The watcher applies the next event.
LEMMA ViewApplied ==
  ASSUME DInv, NEW g \in Gateway, WatchEvent(g)
  PROVE  TypeOK' /\ ViewInv'
<1>1. /\ pc[g] = "watching" /\ events[g] # <<>> /\ events[g] \in Seq(Event)
      /\ UNCHANGED <<keys, leaseOf, leases, run, pc, renew, faults>>
  BY DEF WatchEvent, At, DInv, TypeOK
<1>2. PICK e : e = Head(events[g])
  OBVIOUS
<1>3. e \in Event /\ Tail(events[g]) \in Seq(Event) /\ e.key \in Gateway /\ e.put \in BOOLEAN
  BY <1>1, <1>2, ToldByTail DEF Event
<1>4. /\ events' = [events EXCEPT ![g] = Tail(events[g])]
      /\ serverMap' = [serverMap EXCEPT ![g] = Applied(serverMap[g], e)]
      /\ missed' = [missed EXCEPT ![g] = missed[g] \ {e.key}]
  BY <1>2 DEF WatchEvent
<1>5. TypeOK'
  <2>1. Applied(serverMap[g], e) \in SUBSET Gateway
    BY <1>3 DEF Applied, DInv, TypeOK
  <2>2. /\ serverMap' \in [Gateway -> SUBSET Gateway] /\ missed' \in [Gateway -> SUBSET Gateway]
        /\ events' \in [Gateway -> Seq(Event)]
    BY <1>3, <1>4, <2>1 DEF DInv, TypeOK
  <2> QED BY <1>1, <2>2 DEF DInv, TypeOK
<1>6. ASSUME NEW w \in Gateway, NEW h \in Gateway, pc[w] \in {"watch", "watching"}
      PROVE  RightAbout(w, h)'
  <2>1. RightAbout(w, h)
    BY <1>6 DEF DInv, ViewInv
  <2>2. CASE w # g
    <3>1. events'[w] = events[w] /\ serverMap'[w] = serverMap[w] /\ missed'[w] = missed[w]
      BY <1>4, <2>2 DEF DInv, TypeOK
    <3> QED BY <1>1, <2>1, <3>1 DEF RightAbout
  <2>3. CASE w = g
    <3>1. /\ events'[g] = Tail(events[g]) /\ serverMap'[g] = Applied(serverMap[g], e)
          /\ missed'[g] = missed[g] \ {e.key}
      BY <1>4 DEF DInv, TypeOK
    <3>2. CASE Told(events'[g], h)
      BY <1>1, <1>2, <2>1, <2>3, <3>1, <3>2, ToldByTail DEF RightAbout
    <3>3. CASE ~Told(events'[g], h) /\ e.key = h
      <4>1. Told(events[g], h) /\ (LastIsPut(events[g], h) <=> e.put)
        BY <1>1, <1>2, <3>1, <3>3, ToldByTail
      <4>2. e.put <=> h \in keys
        BY <2>1, <2>3, <4>1 DEF RightAbout
      <4>3. h \in serverMap'[g] <=> e.put
        BY <3>1, <3>3 DEF Applied
      <4> QED BY <1>1, <2>3, <3>3, <4>2, <4>3 DEF RightAbout
    <3>4. CASE ~Told(events'[g], h) /\ e.key # h
      <4>1. ~Told(events[g], h)
        BY <1>1, <1>2, <3>1, <3>4, ToldByTail
      <4>2. h \notin missed[g] => (h \in serverMap[g] <=> h \in keys)
        BY <2>1, <2>3, <4>1 DEF RightAbout
      <4>3. /\ h \in serverMap'[g] <=> h \in serverMap[g]
            /\ h \in missed'[g] <=> h \in missed[g]
        BY <3>1, <3>4 DEF Applied
      <4> QED BY <1>1, <2>3, <3>4, <4>2, <4>3 DEF RightAbout
    <3> QED BY <3>2, <3>3, <3>4
  <2> QED BY <2>2, <2>3
<1>7. ViewInv'
  BY <1>1, <1>6 DEF ViewInv
<1> QED BY <1>5, <1>7

-----------------------------------------------------------------------------
(* The invariant.                                                          *)

\* The initial states have it.
LEMMA InitHolds == Init => DInv
<1> SUFFICES ASSUME Init PROVE DInv
  OBVIOUS
<1>1. TypeOK
  <2>1. <<>> \in Seq(Event)
    OBVIOUS
  <2>2. faults \in 0 .. MaxFaults /\ \A g \in Gateway : run[g] <= Runs[g]
    BY DiscoveryAssumption DEF Init
  <2> QED BY <2>1, <2>2 DEF Init, TypeOK, NoLease
<1>2. KeyFollowsLease /\ ProcessInv /\ ViewInv
  BY DEF Init, KeyFollowsLease, ProcessInv, Registers, ViewInv
<1> QED BY <1>1, <1>2 DEF DInv

\* A process that starts has a lease of its own to come, and is far from
\* renewing it.
LEMMA StartKeeps == ASSUME DInv, NEW g \in Gateway, StartProcess(g) PROVE DInv'
<1>1. /\ pc[g] = "down" /\ run[g] < Runs[g] /\ run' = [run EXCEPT ![g] = run[g] + 1]
      /\ pc' = [pc EXCEPT ![g] = "grant"]
      /\ UNCHANGED <<keys, leaseOf, leases, events, missed, renew, serverMap, faults>>
  BY DEF StartProcess, At, GoTo, etcdVars
<1>t. /\ run[g] \in Nat /\ run'[g] = run[g] + 1 /\ pc'[g] = "grant"
      /\ \A h \in Gateway \ {g} : run'[h] = run[h] /\ pc'[h] = pc[h]
  BY <1>1 DEF DInv, TypeOK
<1>2. TypeOK'
  <2>1. ASSUME NEW h \in Gateway PROVE leaseOf'[h] <= run'[h] /\ run'[h] <= Runs[h]
    <3>1. /\ leaseOf[h] \in Nat /\ run[h] \in Nat /\ Runs[h] \in Nat
          /\ leaseOf'[h] = leaseOf[h] /\ leaseOf[h] <= run[h] /\ run[h] <= Runs[h]
      BY <1>1, DiscoveryAssumption DEF DInv, TypeOK
    <3>2. run'[h] = run[h] \/ (h = g /\ run'[h] = run[h] + 1)
      BY <1>t
    <3> QED BY <1>1, <3>1, <3>2
  <2>2. \A l \in leases' : l[2] \in 1 .. run'[l[1]]
    <3> SUFFICES ASSUME NEW l \in leases PROVE l[2] \in 1 .. run'[l[1]]
      BY <1>1
    <3>1. l[1] \in Gateway /\ l[2] \in 1 .. run[l[1]] /\ run[l[1]] \in Nat
      BY DEF DInv, TypeOK
    <3> QED BY <1>t, <3>1
  <2> QED BY <1>1, <1>t, <2>1, <2>2 DEF DInv, TypeOK
<1>3. KeyFollowsLease'
  <2> SUFFICES ASSUME NEW h \in Gateway
      PROVE /\ pc'[h] = "keepAlive" \/ renew'[h] = "on" =>
                 (Mine(h)' \in leases' => h \in keys' /\ leaseOf'[h] = run'[h])
            /\ h \in keys' => <<h, leaseOf'[h]>> \in leases'
    BY DEF KeyFollowsLease
  <2>1. CASE h = g
    BY <1>1, <1>t, <2>1 DEF DInv, KeyFollowsLease, ProcessInv, Registers
  <2>2. CASE h # g
    BY <1>1, <1>t, <2>2 DEF DInv, KeyFollowsLease, Mine
  <2> QED BY <2>1, <2>2
<1>4. ProcessInv'
  BY <1>1, <1>t DEF DInv, ProcessInv, Registers
<1>5. ViewInv'
  BY <1>1, <1>t, ViewKept DEF DInv
<1> QED BY <1>2, <1>3, <1>4, <1>5 DEF DInv

\* A process that ends, or whose Start returns or moves on, changes no key.
LEMMA LocalKeeps ==
  ASSUME DInv, NEW g \in Gateway, NEW where \in Place, GoTo(g, where), pc[g] # "down",
         UNCHANGED <<keys, leaseOf, leases, run>>, faults' \in 0 .. MaxFaults,
         where \in Registers => where = pc[g],
         \A h \in Gateway \ {g} : /\ events'[h] = events[h] /\ missed'[h] = missed[h]
                                  /\ renew'[h] = renew[h] /\ serverMap'[h] = serverMap[h],
         renew'[g] = "off" \/ renew'[g] = renew[g],
         where = "down" => renew'[g] = "off",
         events'[g] = <<>>,
         events' \in [Gateway -> Seq(Event)], missed' \in [Gateway -> SUBSET Gateway],
         renew' \in [Gateway -> {"off", "on", "revoke", "closed"}],
         serverMap' \in [Gateway -> SUBSET Gateway],
         where \in {"watch", "watching"} => \A h \in Gateway : RightAbout(g, h)'
  PROVE  DInv'
<1>t. /\ pc' \in [Gateway -> Place] /\ pc'[g] = where
      /\ \A h \in Gateway \ {g} : pc'[h] = pc[h]
  BY DEF DInv, TypeOK, GoTo, Place
<1>1. TypeOK'
  BY <1>t DEF DInv, TypeOK, Place
<1>2. KeyFollowsLease'
  BY <1>t DEF DInv, KeyFollowsLease, Registers, Mine
<1>3. ProcessInv'
  BY <1>t DEF DInv, ProcessInv, Registers
<1>4. ViewInv'
  BY <1>t DEF DInv, ViewInv, RightAbout
<1> QED BY <1>1, <1>2, <1>3, <1>4 DEF DInv

\* A lease is granted.
LEMMA GrantKeeps ==
  ASSUME DInv, NEW g \in Gateway, At(g, "grant"), NEW where \in {"put", "returned"},
         GoTo(g, where), leases' = leases \cup {Mine(g)}, faults' \in 0 .. MaxFaults,
         UNCHANGED <<keys, leaseOf, events, missed, run, renew, serverMap>>
  PROVE  DInv'
<1>t. /\ pc[g] = "grant" /\ pc' \in [Gateway -> Place] /\ pc'[g] = where
      /\ \A h \in Gateway \ {g} : pc'[h] = pc[h]
      /\ run[g] \in Nat /\ run[g] > 0 /\ renew[g] = "off"
  BY DEF At, GoTo, DInv, TypeOK, Place, ProcessInv, Registers
<1>1. TypeOK'
  <2>1. leases' \subseteq Gateway \X Nat
    BY <1>t DEF DInv, TypeOK, Mine
  <2>2. \A l \in leases' : l[2] \in 1 .. run'[l[1]]
    BY <1>t DEF DInv, TypeOK, Mine
  <2> QED BY <1>t, <2>1, <2>2 DEF DInv, TypeOK, Place
<1>2. KeyFollowsLease'
  <2> SUFFICES ASSUME NEW h \in Gateway
      PROVE /\ pc'[h] = "keepAlive" \/ renew'[h] = "on" =>
                 (Mine(h)' \in leases' => h \in keys' /\ leaseOf'[h] = run'[h])
            /\ h \in keys' => <<h, leaseOf'[h]>> \in leases'
    BY DEF KeyFollowsLease
  <2>1. CASE h = g
    BY <1>t, <2>1 DEF DInv, KeyFollowsLease
  <2>2. CASE h # g
    BY <1>t, <2>2 DEF DInv, KeyFollowsLease, Mine
  <2> QED BY <2>1, <2>2
<1>3. ProcessInv'
  BY <1>t DEF DInv, ProcessInv, Registers
<1>4. ViewInv'
  BY <1>t, ViewKept DEF DInv
<1> QED BY <1>1, <1>2, <1>3, <1>4 DEF DInv

\* The key is put under the lease of the process that is.
LEMMA PutKeeps ==
  ASSUME DInv, NEW g \in Gateway, At(g, "put"), NEW where \in {"keepAlive", "returned"},
         GoTo(g, where), PutStep(g), faults' \in 0 .. MaxFaults,
         UNCHANGED <<run, renew, serverMap>>
  PROVE  DInv'
<1>t. /\ pc[g] = "put" /\ pc' \in [Gateway -> Place] /\ pc'[g] = where
      /\ \A h \in Gateway \ {g} : pc'[h] = pc[h]
      /\ run[g] \in Nat /\ run[g] > 0 /\ renew[g] = "off" /\ events[g] = <<>>
  BY DEF At, GoTo, DInv, TypeOK, Place, ProcessInv, Registers
<1> DEFINE e == [key |-> g, put |-> TRUE]
<1>1. /\ Mine(g) \in leases /\ keys' = keys \cup {g} /\ UNCHANGED leases /\ Notify(e)
      /\ leaseOf' = [leaseOf EXCEPT ![g] = run[g]] /\ e \in Event
  BY DEF PutStep, Event
<1>2. /\ events' \in [Gateway -> Seq(Event)] /\ missed' \in [Gateway -> SUBSET Gateway]
      /\ \A h \in Gateway : pc[h] # "watching" => events'[h] = events[h]
  BY <1>1, Notified DEF DInv
<1>l. /\ leaseOf'[g] = run[g] /\ leaseOf' \in [Gateway -> Nat]
      /\ \A h \in Gateway \ {g} : leaseOf'[h] = leaseOf[h]
  BY <1>1, <1>t DEF DInv, TypeOK
<1>3. TypeOK'
  <2>1. ASSUME NEW h \in Gateway PROVE leaseOf'[h] <= run'[h] /\ run'[h] <= Runs[h]
    <3>1. /\ run'[h] = run[h] /\ run[h] \in Nat /\ run[h] <= Runs[h] /\ leaseOf[h] <= run[h]
      BY DEF DInv, TypeOK
    <3>2. leaseOf'[h] \in {leaseOf[h], run[h]}
      BY <1>l
    <3> QED BY <3>1, <3>2
  <2>2. \A h \in keys' : leaseOf'[h] # NoLease
    BY <1>1, <1>l, <1>t DEF DInv, TypeOK, NoLease
  <2> QED BY <1>1, <1>2, <1>l, <1>t, <2>1, <2>2 DEF DInv, TypeOK, Place
<1>4. KeyFollowsLease'
  <2> SUFFICES ASSUME NEW h \in Gateway
      PROVE /\ pc'[h] = "keepAlive" \/ renew'[h] = "on" =>
                 (Mine(h)' \in leases' => h \in keys' /\ leaseOf'[h] = run'[h])
            /\ h \in keys' => <<h, leaseOf'[h]>> \in leases'
    BY DEF KeyFollowsLease
  <2>1. CASE h = g
    BY <1>1, <1>l, <1>t, <2>1 DEF Mine
  <2>2. CASE h # g
    BY <1>1, <1>l, <1>t, <2>2 DEF DInv, KeyFollowsLease, Mine
  <2> QED BY <2>1, <2>2
<1>5. ProcessInv'
  BY <1>2, <1>t DEF DInv, ProcessInv, Registers
<1>6. ViewInv'
  <2>1. /\ e.put = TRUE /\ e.key = g
    OBVIOUS
  <2>2. keys' = IF e.put THEN keys \cup {e.key} ELSE keys \ {e.key}
    BY <1>1, <2>1
  <2>3. \A h \in Gateway : pc'[h] \in {"watch", "watching"} => pc'[h] = pc[h]
    BY <1>t
  <2> HIDE DEF e
  <2> QED BY <1>1, <2>2, <2>3, ViewNotified
<1> QED BY <1>3, <1>4, <1>5, <1>6 DEF DInv

\* The lease has been granted, the key put: from now on it is renewed.
LEMMA KeepAliveKeeps == ASSUME DInv, NEW g \in Gateway, KeepAlive(g) PROVE DInv'
<1>1. /\ pc[g] = "keepAlive" /\ pc' = [pc EXCEPT ![g] = "get"]
      /\ renew' = [renew EXCEPT ![g] = "on"]
      /\ UNCHANGED <<keys, leaseOf, leases, events, missed, run, serverMap, faults>>
  BY DEF KeepAlive, At, GoTo, etcdVars
<1>t. /\ pc' \in [Gateway -> Place] /\ pc'[g] = "get" /\ renew'[g] = "on"
      /\ \A h \in Gateway \ {g} : pc'[h] = pc[h] /\ renew'[h] = renew[h]
  BY <1>1 DEF DInv, TypeOK, Place
<1>2. TypeOK'
  BY <1>1, <1>t DEF DInv, TypeOK, Place
<1>3. KeyFollowsLease'
  BY <1>1, <1>t DEF DInv, KeyFollowsLease, Mine
<1>4. ProcessInv'
  BY <1>1, <1>t DEF DInv, ProcessInv, Registers
<1>5. ViewInv'
  BY <1>1, <1>t, ViewKept DEF DInv
<1> QED BY <1>2, <1>3, <1>4, <1>5 DEF DInv

\* A lease ends, with the key on it: that of an earlier process without.
LEMMA EndKeeps ==
  ASSUME DInv, NEW g \in Gateway, NEW n \in Nat, EndStep(g, n),
         UNCHANGED <<run, pc, serverMap>>, faults' \in 0 .. MaxFaults,
         \/ renew' = renew
         \/ renew[g] = "revoke" /\ renew' = [renew EXCEPT ![g] = "closed"]
  PROVE  DInv'
<1>t. /\ renew' \in [Gateway -> {"off", "on", "revoke", "closed"}]
      /\ \A h \in Gateway : renew'[h] = renew[h] \/ (renew[h] = "revoke" /\ renew'[h] = "closed")
  BY DEF DInv, TypeOK
<1> DEFINE e == [key |-> g, put |-> FALSE]
<1>1. leases' = leases \ {<<g, n>>} /\ UNCHANGED leaseOf
  BY DEF EndStep
<1>2. CASE g \in keys /\ leaseOf[g] = n /\ keys' = keys \ {g} /\ Notify(e)
  <2>1. e \in Event /\ e.put = FALSE /\ e.key = g
    BY DEF Event
  <2>2. keys' = IF e.put THEN keys \cup {e.key} ELSE keys \ {e.key}
    BY <1>2, <2>1
  <2>3. /\ events' \in [Gateway -> Seq(Event)] /\ missed' \in [Gateway -> SUBSET Gateway]
        /\ \A h \in Gateway : pc[h] # "watching" => events'[h] = events[h]
    BY <1>2, <2>1, Notified DEF DInv
  <2>4. TypeOK'
    BY <1>1, <1>2, <1>t, <2>3 DEF DInv, TypeOK
  <2>5. KeyFollowsLease'
    BY <1>1, <1>2, <1>t DEF DInv, KeyFollowsLease, Mine, ProcessInv, Registers
  <2>6. ProcessInv'
    BY <1>t, <2>3 DEF DInv, ProcessInv, Registers
  <2>7. ViewInv'
    <3> HIDE DEF e
    <3> QED BY <1>2, <2>1, <2>2, ViewNotified
  <2> QED BY <2>4, <2>5, <2>6, <2>7 DEF DInv
<1>3. CASE ~(g \in keys /\ leaseOf[g] = n) /\ UNCHANGED <<keys, events, missed>>
  <2>1. TypeOK'
    BY <1>1, <1>3, <1>t DEF DInv, TypeOK
  <2>2. KeyFollowsLease'
    BY <1>1, <1>3, <1>t DEF DInv, KeyFollowsLease, Mine, ProcessInv, Registers
  <2>3. ProcessInv'
    BY <1>3, <1>t DEF DInv, ProcessInv, Registers
  <2>4. ViewInv'
    BY <1>3, ViewKept DEF DInv
  <2> QED BY <2>1, <2>2, <2>3, <2>4 DEF DInv
<1> QED BY <1>2, <1>3 DEF EndStep, NoChange

\* The renewals end.
LEMMA RenewKeeps ==
  ASSUME DInv, NEW g \in Gateway, faults' \in 0 .. MaxFaults,
         \/ renew[g] = "on" /\ renew' = [renew EXCEPT ![g] = "revoke"]
         \/ renew[g] = "revoke" /\ renew' = [renew EXCEPT ![g] = "closed"],
         UNCHANGED <<etcdVars, run, pc, serverMap>>
  PROVE  DInv'
<1>t. /\ renew' \in [Gateway -> {"off", "on", "revoke", "closed"}]
      /\ \A h \in Gateway : renew'[h] = renew[h] \/ (renew[h] # "off" /\ renew'[h] # "on")
      /\ UNCHANGED <<keys, leaseOf, leases, events, missed>>
  BY DEF DInv, TypeOK, etcdVars
<1>1. TypeOK' /\ ProcessInv'
  BY <1>t DEF DInv, TypeOK, ProcessInv
<1>2. KeyFollowsLease'
  BY <1>t DEF DInv, KeyFollowsLease, Mine
<1>3. ViewInv'
  BY <1>t, ViewKept DEF DInv
<1> QED BY <1>1, <1>2, <1>3 DEF DInv

\* What Start does without a word to etcd.
LEMMA ProcessKeeps ==
  ASSUME DInv, NEW g \in Gateway, faults' \in 0 .. MaxFaults,
         \/ Crash(g)
         \/ /\ GoTo(g, "returned") /\ pc[g] \in {"grant", "put", "keepAlive", "get"}
            /\ UNCHANGED <<etcdVars, run, renew, serverMap>>
         \/ Get(g) \/ Watch(g) \/ WatchEnds(g)
  PROVE  DInv'
<1>t. /\ TypeOK /\ "down" \in Place /\ "returned" \in Place /\ "watch" \in Place
      /\ "watching" \in Place /\ <<>> \in Seq(Event)
  BY DEF DInv, Place
<1>1. CASE Crash(g)
  <2>1. /\ pc[g] # "down" /\ GoTo(g, "down") /\ renew' = [renew EXCEPT ![g] = "off"]
        /\ serverMap' = [serverMap EXCEPT ![g] = {}] /\ events' = [events EXCEPT ![g] = <<>>]
        /\ missed' = [missed EXCEPT ![g] = {}] /\ UNCHANGED <<keys, leaseOf, leases, run>>
    BY <1>1 DEF Crash, At
  <2>2. /\ renew'[g] = "off" /\ events'[g] = <<>>
        /\ \A h \in Gateway \ {g} : /\ events'[h] = events[h] /\ missed'[h] = missed[h]
                                    /\ renew'[h] = renew[h] /\ serverMap'[h] = serverMap[h]
        /\ events' \in [Gateway -> Seq(Event)] /\ missed' \in [Gateway -> SUBSET Gateway]
        /\ renew' \in [Gateway -> {"off", "on", "revoke", "closed"}]
        /\ serverMap' \in [Gateway -> SUBSET Gateway]
    BY <1>t, <2>1 DEF TypeOK
  <2> QED BY <1>t, <2>1, <2>2, LocalKeeps DEF Registers
<1>2. CASE /\ GoTo(g, "returned") /\ pc[g] \in {"grant", "put", "keepAlive", "get"}
           /\ UNCHANGED <<etcdVars, run, renew, serverMap>>
  <2>1. UNCHANGED <<keys, leaseOf, leases, run>> /\ UNCHANGED <<events, missed, renew, serverMap>>
    BY <1>2 DEF etcdVars
  <2>2. events'[g] = <<>> /\ pc[g] # "down"
    BY <1>2, <2>1 DEF DInv, ProcessInv
  <2> QED BY <1>t, <1>2, <2>1, <2>2, LocalKeeps DEF Registers, TypeOK
<1>3. CASE Get(g)
  <2>1. /\ pc[g] = "get" /\ GoTo(g, "watch") /\ serverMap' = [serverMap EXCEPT ![g] = keys]
        /\ UNCHANGED <<keys, leaseOf, leases, run>> /\ UNCHANGED <<events, missed, renew>>
    BY <1>3 DEF Get, At, etcdVars
  <2>2. events'[g] = <<>> /\ serverMap'[g] = keys
    BY <1>t, <2>1 DEF DInv, ProcessInv, TypeOK
  <2>3. \A h \in Gateway : RightAbout(g, h)'
    BY <2>1, <2>2, NothingTold DEF RightAbout
  <2>4. /\ serverMap' \in [Gateway -> SUBSET Gateway]
        /\ \A h \in Gateway \ {g} : serverMap'[h] = serverMap[h]
    BY <1>t, <2>1 DEF TypeOK
  <2> QED BY <1>t, <2>1, <2>2, <2>3, <2>4, LocalKeeps DEF Registers, TypeOK
<1>4. CASE Watch(g)
  <2>1. /\ pc[g] = "watch" /\ GoTo(g, "watching")
        /\ UNCHANGED <<keys, leaseOf, leases, run>> /\ UNCHANGED <<events, missed, renew, serverMap>>
    BY <1>4 DEF Watch, At, etcdVars
  <2>2. events'[g] = <<>>
    BY <2>1 DEF DInv, ProcessInv
  <2>3. \A h \in Gateway : RightAbout(g, h)'
    BY <2>1 DEF DInv, ViewInv, RightAbout
  <2> QED BY <1>t, <2>1, <2>2, <2>3, LocalKeeps DEF Registers, TypeOK
<1>5. CASE WatchEnds(g)
  <2>1. /\ pc[g] = "watching" /\ GoTo(g, "returned") /\ events' = [events EXCEPT ![g] = <<>>]
        /\ missed' = [missed EXCEPT ![g] = {}]
        /\ UNCHANGED <<keys, leaseOf, leases, run>> /\ UNCHANGED <<renew, serverMap>>
    BY <1>5 DEF WatchEnds, At
  <2>2. /\ events'[g] = <<>>
        /\ \A h \in Gateway \ {g} : events'[h] = events[h] /\ missed'[h] = missed[h]
        /\ events' \in [Gateway -> Seq(Event)] /\ missed' \in [Gateway -> SUBSET Gateway]
    BY <1>t, <2>1 DEF TypeOK
  <2> QED BY <1>t, <2>1, <2>2, LocalKeeps DEF Registers, TypeOK
<1> QED BY <1>1, <1>2, <1>3, <1>4, <1>5

LEMMA WatchEventKeeps == ASSUME DInv, NEW g \in Gateway, WatchEvent(g) PROVE DInv'
<1>1. /\ UNCHANGED <<keys, leaseOf, leases, run, pc, renew>> /\ pc[g] = "watching"
      /\ \A h \in Gateway \ {g} : events'[h] = events[h]
  BY DEF WatchEvent, At, DInv, TypeOK
<1>2. KeyFollowsLease'
  BY <1>1 DEF DInv, KeyFollowsLease, Mine
<1>3. ProcessInv'
  BY <1>1 DEF DInv, ProcessInv
<1> QED BY <1>2, <1>3, ViewApplied DEF DInv

-----------------------------------------------------------------------------
(* The theorems.                                                           *)

LEMMA NextKeeps == ASSUME DInv, [Next]_vars PROVE DInv'
<1>1. ASSUME NEW g \in Gateway,
             \/ StartProcess(g) \/ Crash(g) \/ CallFails(g)
             \/ Register(g) \/ LeaseEnds(g)
             \/ \E n \in 1 .. Runs[g] : LeaseExpires(g, n)
             \/ WatchServices(g) \/ WatchEnds(g)
      PROVE  DInv'
  BY <1>1, StepCases, StartKeeps, ProcessKeeps, GrantKeeps, PutKeeps, KeepAliveKeeps, EndKeeps,
     RenewKeeps, WatchEventKeeps DEF DInv
<1>2. CASE UNCHANGED vars
  <2>1. UNCHANGED <<keys, leaseOf, leases, events, missed, run, pc, renew, serverMap, faults>>
    BY <1>2 DEF vars, etcdVars
  <2>2. TypeOK' /\ KeyFollowsLease' /\ ProcessInv'
    BY <2>1 DEF DInv, TypeOK, KeyFollowsLease, ProcessInv, Mine
  <2>3. ViewInv'
    BY <2>1, ViewKept DEF DInv
  <2> QED BY <2>2, <2>3 DEF DInv
<1> QED BY <1>1, <1>2 DEF Next

\* The inductive invariant of registration and discovery (registry.go,
\* discovery.go) holds in every reachable state.
THEOREM DiscoveryInvariance == Spec => []DInv
BY InitHolds, NextKeeps, PTL DEF Spec

\* Keys, leases, events and maps have their types, and no lease is of a
\* process that has not started.
THEOREM DiscoveryTypeCorrect == Spec => []TypeOK
<1>1. DInv => TypeOK
  BY DEF DInv
<1> QED BY <1>1, DiscoveryInvariance, PTL

\* A gateway whose lease lasts has its key, and no key outlives its lease, for
\* a gateway that is back before the lease of its last process ends as well
\* (registry.go:48-51).
THEOREM RegistrationSafe == Spec => []KeyFollowsLease
<1>1. DInv => KeyFollowsLease
  BY DEF DInv
<1> QED BY <1>1, DiscoveryInvariance, PTL

\* What a watcher has in its map, with what it is still to be told, is what
\* etcd has, but for what came or went between its Get and its Watch
\* (discovery.go:35-63).
THEOREM ViewSafe == Spec => []MapFollowsKeys
<1>1. DInv => MapFollowsKeys
  <2> SUFFICES ASSUME DInv, NEW g \in Gateway, NEW h \in Gateway,
                      pc[g] = "watching", ~Missed(g, h)
               PROVE  Expected(g, h) <=> h \in keys
    BY DEF MapFollowsKeys
  <2>1. RightAbout(g, h)
    BY DEF DInv, ViewInv
  <2> DEFINE about == {i \in 1 .. Len(events[g]) : events[g][i].key = h}
  <2>2. Expected(g, h) <=> IF Told(events[g], h) THEN LastIsPut(events[g], h)
                                                ELSE h \in serverMap[g]
    <3>1. Told(events[g], h) <=> about # {}
      BY DEF Told
    <3>2. (\E i \in about : events[g][i].put /\ \A j \in about : j <= i)
            <=> LastIsPut(events[g], h)
      BY DEF LastIsPut
    <3> QED BY <3>1, <3>2 DEF Expected
  <2>3. Told(events[g], h) \/ h \notin missed[g]
    BY DEF Missed, Told
  <2> QED BY <2>1, <2>2, <2>3 DEF RightAbout
<1> QED BY <1>1, DiscoveryInvariance, PTL
=============================================================================
