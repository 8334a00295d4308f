-------------------------- MODULE SessionLeaseProofs --------------------------
(***************************************************************************)
(* The conjuncts of LeaseInv about what an OK promises and about the       *)
(* heartbeat, and the safety properties of SessionLease, for any number of *)
(* clients, ids and peers and any delays that meet TimelyAssumption.       *)
(***************************************************************************)
EXTENDS SessionLeaseInvariant

-----------------------------------------------------------------------------
(* Promises survive every step, and every answer is a new promise.          *)

\* The clock never goes back.
LEMMA TimeMoves ==
  ASSUME TypeOK, [Next]_vars
  PROVE  clock' \in Nat /\ clock' >= clock
<1>1. CASE Tick
  BY <1>1 DEF Tick, TypeOK, RegistryTypeOK
<1>2. CASE SweepStep
  BY <1>2 DEF SweepStep, SweepReadClock, SweepErase, TypeOK, RegistryTypeOK
<1>3. CASE UNCHANGED vars
  BY <1>3 DEF vars, registryVars, TypeOK, RegistryTypeOK
<1> QED
  BY <1>1, <1>2, <1>3, ClientKeepsTime DEF Next, TypeOK, RegistryTypeOK

\* Only the holder of an id can disconnect it.
LEMMA HeldKept ==
  ASSUME TypeOK, Threads, Ownership, Clocks, [Next]_vars,
         NEW c \in Clients, ~Stopping(c), NEW id \in Held(c)
  PROVE  Kept(id)
<1>1. id \in issued
  BY Zenon DEF Ownership
<1>2. ASSUME NEW d \in Clients, DisconnectHandle(d) PROVE sid[d] # id
  <2>1. d # c
    BY Zenon, <1>2 DEF Stopping, DisconnectHandle
  <2>2. sid[d] \in Held(d)
    BY Zenon, <1>2 DEF Threads, ThreadsOf, Held, DisconnectHandle
  <2> QED
    BY Zenon, <2>1, <2>2 DEF Ownership
<1> QED
  BY Zenon, <1>1, <1>2, TableStep

\* A step that keeps a session keeps the promise of the OKs given for it.
LEMMA AssuresKept ==
  ASSUME TypeOK, TypeOK', clock' >= clock, NEW id, NEW t \in Nat, Kept(id), Assures(id, t)
  PROVE  Assures(id, t)'
<1> USE LeaseAssumption DEF TypeOK, RegistryTypeOK, Record
<1>1. CASE id \in DOMAIN sessions /\ id \in DOMAIN sessions'
  <2>1. sessions[id].lastHeartbeat \in Nat /\ sessions'[id].lastHeartbeat \in Nat
    BY Zenon, <1>1
  <2> QED
    BY <1>1, <2>1 DEF Kept, Assures
<1>2. CASE id \in DOMAIN sessions /\ id \notin DOMAIN sessions'
  <2>1. sessions[id].lastHeartbeat \in Nat
    BY Zenon, <1>2
  <2> QED
    BY <1>2, <2>1 DEF Kept, Assures, ExpiredAt
<1>3. CASE id \notin DOMAIN sessions
  BY <1>3 DEF Kept, Assures
<1> QED
  BY Zenon, <1>1, <1>2, <1>3

\* A client whose own state does not move keeps what it was promised.
LEMMA IdleAssuredStep ==
  ASSUME TypeOK, TypeOK', Threads, Ownership, Clocks, [Next]_vars,
         NEW c \in Clients, AssuredFor(c),
         sid'[c] = sid[c], main'[c] = main[c], beat'[c] = beat[c], assured'[c] = assured[c]
  PROVE  AssuredFor(c)'
<1>1. \A id \in Held(c) : \A t \in Nat : ~Stopping(c) /\ Assures(id, t) => Assures(id, t)'
  BY Zenon, HeldKept, AssuresKept, TimeMoves
<1>2. assured[c] \in Nat /\ main[c].at \in Nat /\ beat[c].at \in Nat
  BY Zenon DEF TypeOK, Call, Beat
<1>3. ThreadsOf(c)
  BY Zenon DEF Threads
<1>4. sid[c] # NoId => sid[c] \in Held(c)
  BY Zenon DEF Held
<1>5. main[c].id # NoId => main[c].id \in Held(c)
  BY Zenon DEF Held
<1>6. Stopping(c)' <=> Stopping(c)
  BY Zenon DEF Stopping
<1>7. sid[c] # NoId /\ ~Stopping(c) => Assures(sid[c], assured[c])'
  BY Zenon, <1>1, <1>2, <1>4 DEF AssuredFor, Assures
<1>8. main[c].op = "Business" /\ main[c].ok => Assures(sid[c], main[c].at)'
  BY Zenon, <1>1, <1>2, <1>3, <1>4 DEF AssuredFor, Assures, ThreadsOf, Stopping
<1>9. main[c].op = "Connect" /\ main[c].phase = "done" => Assures(main[c].id, main[c].at)'
  BY Zenon, <1>1, <1>2, <1>3, <1>5 DEF AssuredFor, Assures, ThreadsOf, Stopping
<1>10. beat[c].phase = "done" /\ beat[c].ok /\ ~Stopping(c) => Assures(sid[c], beat[c].at)'
  BY Zenon, <1>1, <1>2, <1>3, <1>4 DEF AssuredFor, Assures, ThreadsOf
<1> QED
  BY Zenon, <1>6, <1>7, <1>8, <1>9, <1>10 DEF AssuredFor

\* A renewal answered OK found the session and dates it now.
LEMMA OkRenews ==
  ASSUME TypeOK, NEW id, NEW p, RenewOrRefuse(id, p, "OK")
  PROVE  /\ id \in DOMAIN sessions /\ id \in DOMAIN sessions'
         /\ sessions'[id].peer = sessions[id].peer
         /\ sessions'[id].lastHeartbeat = clock
  BY DEF RenewOrRefuse, TypeOK, RegistryTypeOK, Record

\* A client's own step keeps the promise of the OKs given to it.
LEMMA OwnAssuredStep ==
  ASSUME TypeOK, TypeOK', Threads, Ownership, Clocks, NEW c \in Clients,
         AssuredFor(c), ClientStep(c)
  PROVE  AssuredFor(c)'
<1>1. /\ clock' = clock /\ clock \in Nat
      /\ assured[c] \in Nat /\ main[c].at \in Nat /\ beat[c].at \in Nat
      /\ main[c].at =< clock
      /\ beat[c].phase \in {"sent", "done"} => beat[c].at =< clock
  BY Zenon, ClientKeepsTime DEF TypeOK, RegistryTypeOK, Call, Beat, Clocks
<1>2. ThreadsOf(c) /\ main[c] \in Call /\ beat[c] \in Beat
  BY Zenon DEF Threads, TypeOK
<1>3. ASSUME NEW t \in Nat, ~Stopping(c), sid[c] # NoId, sid'[c] = sid[c],
             Assures(sid[c], t)
      PROVE  Assures(sid[c], t)'
  <2>1. Kept(sid[c])
    BY Zenon, <1>3, HeldKept DEF Next, Held
  <2> QED
    BY <1>1, <1>3, <2>1, AssuresKept DEF Assures
<1>4. CASE ~(ConnectHandle(c) \/ BusinessHandle(c) \/ BeatHandle(c) \/ DisconnectHandle(c))
  <2>0. UNCHANGED sessions
    BY Zenon, <1>4 DEF ClientStep, registryVars, ConnectSend, ConnectReturn, BusinessSend,
         BusinessFinish, BusinessReturn, Close, DisconnectSend, DisconnectReturn,
         CallFails, BeatWake, BeatReturn, BeatFails, ChannelReconnect, Crash
  <2> USE <1>1, <1>2 DEF AssuredFor, Stopping, ThreadsOf, TypeOK
  <2>1. CASE ConnectSend(c) \/ BusinessSend(c) \/ Close(c)
    BY <2>0, <2>1 DEF ConnectSend, BusinessSend, Close, Sent, Idle, Assures
  <2>2. CASE ConnectReturn(c)
    BY Zenon, <2>0, <2>2 DEF ConnectReturn, Idle, Assures
  <2>3. CASE BusinessFinish(c) \/ DisconnectSend(c)
    <3>1. /\ main'[c].op = main[c].op /\ main'[c].at = main[c].at
          /\ main'[c].ok = main[c].ok /\ main[c].op # "Connect"
      BY <2>3 DEF BusinessFinish, DisconnectSend, Call
    <3>2. UNCHANGED <<sid, beat, assured>>
      BY Zenon, <2>3 DEF BusinessFinish, DisconnectSend
    <3> QED
      BY Zenon, <2>0, <3>1, <3>2 DEF Assures
  <2>4. CASE BusinessReturn(c)
    BY Zenon, <2>0, <2>4 DEF BusinessReturn, Idle, Later, Assures
  <2>5. CASE DisconnectReturn(c)
    BY Zenon, <2>0, <2>5 DEF DisconnectReturn, Idle, Assures
  <2>11. CASE CallFails(c)
    <3>1. main'[c] = Idle /\ beat' = beat
      BY Zenon, <2>11 DEF CallFails
    <3>2. CASE main[c].op = "Disconnect"
      BY Zenon, <2>11, <3>1, <3>2 DEF CallFails, Idle
    <3>3. CASE main[c].op # "Disconnect"
      BY Zenon, <2>0, <2>11, <3>1, <3>3 DEF CallFails, Idle, Assures
    <3> QED
      BY Zenon, <3>2, <3>3
  <2>6. CASE BeatWake(c)
    BY Zenon, <2>0, <2>6 DEF BeatWake, Off, Assures
  <2>7. CASE BeatReturn(c)
    BY Zenon, <2>0, <2>7 DEF BeatReturn, Off, Later, Assures
  <2>8. CASE BeatFails(c)
    BY <2>0, <2>8 DEF BeatFails, Beat, Assures
  <2>9. CASE ChannelReconnect(c)
    BY Zenon, <2>0, <2>9 DEF ChannelReconnect, Assures
  <2>10. CASE Crash(c)
    BY Zenon, <2>0, <2>10 DEF Crash, Idle, Off, Assures
  <2> QED
    BY Zenon, <2>1, <2>2, <2>3, <2>4, <2>5, <2>6, <2>7, <2>8, <2>9, <2>10, <2>11,
       <1>4 DEF ClientStep
<1>5. CASE ConnectHandle(c)
  <2>1. PICK id \in Ids : /\ connect(id, peer[c])
                          /\ main' = [main EXCEPT ![c].phase = "done", ![c].id = id,
                                                  ![c].ok = TRUE]
    BY Zenon, <1>5 DEF ConnectHandle
  <2>2. main'[c].op = "Connect" /\ main'[c].id = id /\ main'[c].at = main[c].at
    BY <1>2, <1>5, <2>1 DEF TypeOK, ConnectHandle, Call
  <2>3. id \in DOMAIN sessions' /\ sessions'[id].lastHeartbeat = clock
    BY Zenon, <2>1 DEF connect
  <2>4. sid'[c] = NoId /\ beat'[c].phase = "off"
    BY Zenon, <1>2, <1>5 DEF ConnectHandle, ThreadsOf
  <2> QED
    BY Zenon, <1>1, <2>2, <2>3, <2>4 DEF AssuredFor, Assures
<1>6. CASE BusinessHandle(c)
  <2>1. PICK status \in Statuses :
               /\ RenewOrRefuse(sid[c], peer[c], status)
               /\ main' = [main EXCEPT ![c].phase = IF status = "OK" THEN "running" ELSE "done",
                                       ![c].ok = (status = "OK")]
    BY Zenon, <1>6 DEF BusinessHandle, requireActiveBusinessCall
  <2>2. /\ main'[c].op = "Business" /\ main'[c].at = main[c].at
        /\ main'[c].ok => status = "OK"
    BY <1>2, <1>6, <2>1 DEF TypeOK, BusinessHandle, Call
  <2>3. sid[c] # NoId /\ ~Stopping(c) /\ ~Stopping(c)'
    BY Zenon, <1>2, <1>6, <2>2 DEF BusinessHandle, ThreadsOf, Stopping
  <2>4. UNCHANGED <<sid, beat, assured>>
    BY Zenon, <1>6 DEF BusinessHandle
  <2>5. Assures(sid[c], assured[c])'
    BY Zenon, <1>1, <1>3, <2>3, <2>4 DEF AssuredFor, Assures
  <2>6. main'[c].ok => Assures(sid[c], main[c].at)'
    BY Zenon, <1>1, <2>1, <2>2, <2>4, OkRenews DEF Assures
  <2>7. beat[c].phase = "done" /\ beat[c].ok => Assures(sid[c], beat[c].at)'
    BY Zenon, <1>1, <1>3, <2>3, <2>4 DEF AssuredFor, Assures
  <2> QED
    BY Zenon, <2>2, <2>3, <2>4, <2>5, <2>6, <2>7 DEF AssuredFor
<1>7. CASE BeatHandle(c)
  <2>1. PICK status \in Statuses :
               /\ RenewOrRefuse(sid[c], peer[c], status)
               /\ beat' = [beat EXCEPT ![c].phase = "done", ![c].ok = (status = "OK")]
    BY Zenon, <1>7 DEF BeatHandle, heartbeat
  <2>2. /\ beat[c].phase = "sent" /\ beat'[c].at = beat[c].at
        /\ beat'[c].ok => status = "OK"
    BY <1>2, <1>7, <2>1 DEF TypeOK, BeatHandle, Beat
  <2>3. UNCHANGED <<sid, main, assured>>
    BY Zenon, <1>7 DEF BeatHandle
  <2>4. sid[c] # NoId /\ main[c].op # "Connect"
    BY Zenon, <1>2, <2>2 DEF ThreadsOf
  <2>5. ~Stopping(c) => Assures(sid[c], assured[c])'
    BY Zenon, <1>1, <1>3, <2>3, <2>4 DEF AssuredFor, Assures
  <2>6. beat'[c].ok => Assures(sid[c], beat[c].at)'
    BY <1>1, <2>1, <2>2, <2>3, OkRenews DEF Assures
  <2>7. main[c].op = "Business" /\ main[c].ok => Assures(sid[c], main[c].at)'
    BY Zenon, <1>1, <1>3, <2>3, <2>4 DEF AssuredFor, Assures, Stopping
  <2> QED
    BY Zenon, <2>2, <2>3, <2>4, <2>5, <2>6, <2>7 DEF AssuredFor, Assures, Stopping
<1>8. CASE DisconnectHandle(c)
  <2>1. Stopping(c)' /\ main'[c].op = "Disconnect"
    BY <1>2, <1>8 DEF DisconnectHandle, Stopping, TypeOK, Call
  <2> QED
    BY Zenon, <2>1 DEF AssuredFor
<1> QED
  BY Zenon, <1>4, <1>5, <1>6, <1>7, <1>8

\* Every step keeps the promise of the OKs given to every client.
LEMMA AssuredStep ==
  ASSUME TypeOK, Threads, Ownership, Clocks, [Next]_vars,
         \A c \in Clients : AssuredFor(c)
  PROVE  \A c \in Clients : AssuredFor(c)'
<1>1. TypeOK'
  BY Zenon, TypeStep
<1>2. CASE UNCHANGED clientVars
  BY Zenon, <1>1, <1>2, IdleAssuredStep DEF clientVars
<1>3. ASSUME NEW d \in Clients, ClientStep(d), NEW c \in Clients PROVE AssuredFor(c)'
  <2>1. CASE c = d
    BY Zenon, <1>1, <1>3, <2>1, OwnAssuredStep
  <2>2. CASE c # d
    BY Zenon, <1>1, <1>3, <2>2, OthersUnchanged, IdleAssuredStep
  <2> QED
    BY Zenon, <2>1, <2>2
<1> QED
  BY Zenon, <1>2, <1>3 DEF Next, Tick, SweepStep, vars

-----------------------------------------------------------------------------
(* The heartbeat thread is always in time.                                  *)

\* Wherever the threads are, the lease has not run out.
LEMMA FreshNotExpired ==
  ASSUME TypeOK, Threads, NEW c \in Beaters, steady[c], FreshFor(c), ~Stopping(c)
  PROVE  /\ main[c].op = "Connect" /\ main[c].phase = "done"
              => main[c].id \in DOMAIN sessions /\ ~ExpiredAt(main[c].id, clock)
         /\ sid[c] # NoId
              => /\ sid[c] \in DOMAIN sessions /\ ~ExpiredAt(sid[c], clock)
                 /\ sessions[sid[c]].peer = peer[c]
<1>1. /\ c \in Clients /\ clock \in Nat /\ main[c].at \in Nat /\ beat[c].at \in Nat
      /\ beat[c].phase \in {"off", "sleep", "sent", "done"}
      /\ \A id \in DOMAIN sessions : sessions[id].lastHeartbeat \in Nat
  BY Zenon, ClientsAssumption DEF TypeOK, RegistryTypeOK, Record, Call, Beat
<1>2. /\ HeartbeatInterval \in Nat /\ WakeDelay \in Nat /\ RpcDelay \in Nat /\ Lease \in Nat
      /\ HeartbeatInterval + WakeDelay + 2 * RpcDelay =< Lease
  BY Zenon, IntervalIsNat, DelaysAssumption, TimelyAssumption, LeaseAssumption
<1>3. sid[c] # NoId => beat[c].phase # "off"
  BY Zenon, <1>1 DEF Threads, ThreadsOf
<1>4. CASE main[c].op = "Connect" /\ main[c].phase = "done"
  <2>1. RenewedSince(c, main[c].id, main[c].at) /\ clock =< main[c].at + RpcDelay
    BY Zenon, <1>4 DEF FreshFor, ConnectingFresh
  <2>2. sid[c] = NoId
    BY Zenon, <1>1, <1>4 DEF Threads, ThreadsOf
  <2> QED
    BY <1>1, <1>2, <2>1, <2>2 DEF RenewedSince, ExpiredAt
<1>5. CASE sid[c] # NoId
  <2>1. main[c].op # "Connect"
    BY Zenon, <1>1, <1>5 DEF Threads, ThreadsOf
  <2>2. ASSUME NEW t \in Int, RenewedSince(c, sid[c], t), clock =< t + Lease
        PROVE  /\ sid[c] \in DOMAIN sessions /\ ~ExpiredAt(sid[c], clock)
               /\ sessions[sid[c]].peer = peer[c]
    BY <1>1, <1>2, <2>2 DEF RenewedSince, ExpiredAt
  <2>3. CASE beat[c].phase = "sleep"
    <3>1. /\ RenewedSince(c, sid[c], beat[c].at - HeartbeatInterval - RpcDelay)
          /\ clock =< beat[c].at + WakeDelay
      BY Zenon, <2>3 DEF FreshFor, AsleepFresh
    <3> QED
      BY <1>1, <1>2, <2>1, <2>2, <3>1
  <2>4. CASE beat[c].phase = "sent"
    <3>1. /\ RenewedSince(c, sid[c], beat[c].at - WakeDelay - HeartbeatInterval - RpcDelay)
          /\ clock =< beat[c].at + RpcDelay
      BY Zenon, <2>4 DEF FreshFor, CallingFresh
    <3> QED
      BY <1>1, <1>2, <2>1, <2>2, <3>1
  <2>5. CASE beat[c].phase = "done"
    <3>1. RenewedSince(c, sid[c], beat[c].at) /\ clock =< beat[c].at + RpcDelay
      BY Zenon, <2>5 DEF FreshFor, AnsweredFresh
    <3> QED
      BY <1>1, <1>2, <2>1, <2>2, <3>1
  <2> QED
    BY Zenon, <1>1, <1>3, <1>5, <2>3, <2>4, <2>5
<1> QED
  BY Zenon, <1>4, <1>5

\* A session renewed since a time stays so while it is kept and its peer unchanged.
LEMMA RenewedKept ==
  ASSUME TypeOK, TypeOK', NEW c, NEW id, NEW t \in Int,
         RenewedSince(c, id, t), ~ExpiredAt(id, clock), Kept(id), peer'[c] = peer[c]
  PROVE  RenewedSince(c, id, t)'
<1>1. id \in DOMAIN sessions /\ id \in DOMAIN sessions'
  BY Zenon DEF RenewedSince, Kept
<1>2. sessions[id].lastHeartbeat \in Nat /\ sessions'[id].lastHeartbeat \in Nat
  BY Zenon, <1>1 DEF TypeOK, RegistryTypeOK, Record
<1>3. sessions'[id].peer = peer'[c]
  BY Zenon, <1>1 DEF RenewedSince, Kept
<1>4. sessions'[id].lastHeartbeat >= sessions[id].lastHeartbeat
  BY Zenon, <1>1 DEF Kept
<1>5. sessions[id].lastHeartbeat >= t
  BY Zenon DEF RenewedSince
<1>6. sessions'[id].lastHeartbeat >= t
  BY <1>2, <1>4, <1>5
<1> QED
  BY Zenon, <1>1, <1>3, <1>6 DEF RenewedSince

\* The session of a heartbeat client, in a step that does not move its transport.
LEMMA FreshKept ==
  ASSUME TypeOK, Threads, Ownership, Clocks, [Next]_vars,
         NEW c \in Beaters, steady[c], FreshFor(c), ~Stopping(c), peer'[c] = peer[c]
  PROVE  /\ sid[c] # NoId
              => \A t \in Int : RenewedSince(c, sid[c], t)
                   => /\ sid[c] \in DOMAIN sessions'
                      /\ sessions'[sid[c]].peer = peer[c]
                      /\ sessions'[sid[c]].lastHeartbeat >= t
         /\ main[c].op = "Connect" /\ main[c].phase = "done"
              => \A t \in Int : RenewedSince(c, main[c].id, t)
                   => /\ main[c].id \in DOMAIN sessions'
                      /\ sessions'[main[c].id].peer = peer[c]
                      /\ sessions'[main[c].id].lastHeartbeat >= t
<1>1. TypeOK' /\ c \in Clients
  BY Zenon, TypeStep, ClientsAssumption
<1>2. ASSUME NEW id \in Held(c), ~ExpiredAt(id, clock), NEW t \in Int, RenewedSince(c, id, t)
      PROVE  /\ id \in DOMAIN sessions'
             /\ sessions'[id].peer = peer[c]
             /\ sessions'[id].lastHeartbeat >= t
  BY Zenon, <1>1, <1>2, HeldKept, RenewedKept DEF RenewedSince
<1>3. main[c].op = "Connect" /\ main[c].phase = "done" => main[c].id \in Held(c)
  BY Zenon, <1>1 DEF Held, Threads, ThreadsOf
<1>4. sid[c] # NoId => sid[c] \in Held(c)
  BY Zenon DEF Held
<1> QED
  BY Zenon, <1>2, <1>3, <1>4, FreshNotExpired

\* A client whose own state does not move, in a step that takes no time.
LEMMA IdleFreshStep ==
  ASSUME TypeOK, Threads, Ownership, Clocks, [Next]_vars,
         NEW c \in Clients, FreshFor(c), clock' = clock,
         sid'[c] = sid[c], main'[c] = main[c], beat'[c] = beat[c],
         peer'[c] = peer[c], steady'[c] = steady[c]
  PROVE  FreshFor(c)'
<1> SUFFICES ASSUME c \in Beaters, steady[c] PROVE FreshFor(c)'
  BY Zenon DEF FreshFor
<1>1. beat[c].phase # "off" => sid[c] # NoId
  BY Zenon DEF Threads, ThreadsOf
<1>2. main[c].at \in Int /\ beat[c].at \in Int
  <2>1. main[c] \in Call /\ beat[c] \in Beat
    BY Zenon DEF TypeOK
  <2> QED
    BY <2>1 DEF Call, Beat
<1>3. HeartbeatInterval \in Int /\ RpcDelay \in Int /\ WakeDelay \in Int
  BY IntervalIsNat, DelaysAssumption
<1>4. (Stopping(c)' <=> Stopping(c)) /\ (main[c].op = "Connect" => ~Stopping(c))
  BY Zenon DEF Stopping
<1>5. ConnectingFresh(c)'
  BY Zenon, <1>2, <1>4, FreshKept DEF FreshFor, ConnectingFresh, RenewedSince
<1>6. ASSUME ~Stopping(c), sid[c] # NoId, NEW t \in Int, RenewedSince(c, sid[c], t)
      PROVE  RenewedSince(c, sid[c], t)'
  BY Zenon, <1>6, FreshKept DEF RenewedSince
<1>7. ~Stopping(c) => AsleepFresh(c)'
  <2>1. beat[c].at - HeartbeatInterval - RpcDelay \in Int
    BY <1>2, <1>3
  <2> QED
    BY Zenon, <1>1, <1>6, <2>1 DEF FreshFor, AsleepFresh, RenewedSince
<1>8. ~Stopping(c) => CallingFresh(c)'
  <2>1. beat[c].at - WakeDelay - HeartbeatInterval - RpcDelay \in Int
    BY <1>2, <1>3
  <2> QED
    BY Zenon, <1>1, <1>6, <2>1 DEF FreshFor, CallingFresh, RenewedSince
<1>9. ~Stopping(c) => AnsweredFresh(c)'
  BY Zenon, <1>1, <1>2, <1>6 DEF FreshFor, AnsweredFresh, RenewedSince
<1> QED
  BY Zenon, <1>4, <1>5, <1>7, <1>8, <1>9 DEF FreshFor

\* A tick keeps the bounds on the age of a steady client's renewals.
LEMMA TickFreshStep ==
  ASSUME TypeOK, NEW c \in Clients, FreshFor(c), Tick
  PROVE  FreshFor(c)'
<1>1. /\ clock' = clock + 1
      /\ UNCHANGED <<sessions, sid, peer, steady, main, beat>>
      /\ c \in Beaters => Timely(c)
  BY Zenon DEF Tick, clientVars
<1>2. /\ clock \in Nat /\ main[c].at \in Nat /\ beat[c].at \in Nat
      /\ HeartbeatInterval \in Nat /\ WakeDelay \in Nat /\ RpcDelay \in Nat
  BY Zenon, IntervalIsNat, DelaysAssumption DEF TypeOK, RegistryTypeOK, Call, Beat
<1> SUFFICES ASSUME c \in Beaters, steady[c] PROVE FreshFor(c)'
  BY Zenon, <1>1 DEF FreshFor
<1>4. ConnectingFresh(c)'
  BY <1>1, <1>2 DEF FreshFor, ConnectingFresh, Timely, RenewedSince
<1>5. ~Stopping(c) => AsleepFresh(c)'
  BY <1>1, <1>2 DEF FreshFor, AsleepFresh, Timely, RenewedSince
<1>6. ~Stopping(c) => CallingFresh(c)'
  BY <1>1, <1>2 DEF FreshFor, CallingFresh, Timely, RenewedSince
<1>7. ~Stopping(c) => AnsweredFresh(c)'
  BY <1>1, <1>2 DEF FreshFor, AnsweredFresh, Timely, RenewedSince
<1> QED
  BY Zenon, <1>1, <1>4, <1>5, <1>6, <1>7 DEF FreshFor, Stopping

\* Each step of a heartbeat client leaves its lease fresh enough for the next.
LEMMA OwnFreshStep ==
  ASSUME TypeOK, Threads, Ownership, Clocks, NEW c \in Clients, FreshFor(c), ClientStep(c)
  PROVE  FreshFor(c)'
<1> SUFFICES ASSUME c \in Beaters, steady'[c] PROVE FreshFor(c)'
  BY Zenon DEF FreshFor
<1>1. /\ clock' = clock /\ clock \in Nat
      /\ main[c].at \in Nat /\ beat[c].at \in Nat /\ main[c].at =< clock
      /\ beat[c].phase \in {"sent", "done"} => beat[c].at =< clock
      /\ HeartbeatInterval \in Nat /\ WakeDelay \in Nat /\ RpcDelay \in Nat
      /\ \A id \in DOMAIN sessions : sessions[id].lastHeartbeat \in Nat
  BY Zenon, ClientKeepsTime, IntervalIsNat, DelaysAssumption
     DEF TypeOK, RegistryTypeOK, Record, Call, Beat, Clocks
<1>2. ThreadsOf(c) /\ main[c] \in Call /\ beat[c] \in Beat
  BY Zenon DEF Threads, TypeOK
<1>3. CASE ConnectSend(c)
  <2>1. beat'[c].phase = "off" /\ main'[c].op = "Connect" /\ main'[c].phase = "sent"
        /\ main'[c].at = clock
    BY Zenon, <1>2, <1>3 DEF ConnectSend, Sent, ThreadsOf, TypeOK
  <2>2. ConnectingFresh(c)'
    BY <1>1, <2>1 DEF ConnectingFresh
  <2> QED
    BY Zenon, <2>1, <2>2 DEF FreshFor, AsleepFresh, CallingFresh, AnsweredFresh
<1>4. CASE ConnectHandle(c)
  <2>1. PICK id \in Ids : /\ connect(id, peer[c])
                          /\ main' = [main EXCEPT ![c].phase = "done", ![c].id = id,
                                                  ![c].ok = TRUE]
    BY Zenon, <1>4 DEF ConnectHandle
  <2>2. main'[c].id = id /\ main'[c].at = main[c].at
    BY <1>2, <2>1 DEF TypeOK, Call
  <2>3. /\ id \in DOMAIN sessions' /\ sessions'[id].lastHeartbeat = clock
        /\ sessions'[id].peer = peer[c]
    BY Zenon, <2>1 DEF connect
  <2>4. beat'[c].phase = "off" /\ peer' = peer
    BY Zenon, <1>2, <1>4 DEF ConnectHandle, ThreadsOf
  <2>5. clock =< main[c].at + RpcDelay
    BY Zenon, <1>4 DEF ConnectHandle, FreshFor, ConnectingFresh
  <2>6. ConnectingFresh(c)'
    BY Zenon, <1>1, <2>2, <2>3, <2>4, <2>5 DEF ConnectingFresh, RenewedSince
  <2> QED
    BY Zenon, <2>4, <2>6 DEF FreshFor, AsleepFresh, CallingFresh, AnsweredFresh
<1>5. CASE ConnectReturn(c)
  <2>1. /\ main'[c] = Idle /\ sid'[c] = main[c].id /\ beat'[c].phase = "sleep"
        /\ beat'[c].at = clock + HeartbeatInterval
        /\ UNCHANGED <<sessions, peer, steady>>
    BY Zenon, <1>5 DEF ConnectReturn, TypeOK, registryVars
  <2>2. RenewedSince(c, main[c].id, main[c].at) /\ clock =< main[c].at + RpcDelay
    BY Zenon, <1>5, <2>1 DEF ConnectReturn, FreshFor, ConnectingFresh
  <2>3. /\ main[c].id \in DOMAIN sessions
        /\ sessions[main[c].id].peer = peer[c]
        /\ sessions[main[c].id].lastHeartbeat
             >= (clock + HeartbeatInterval) - HeartbeatInterval - RpcDelay
    BY <1>1, <2>2 DEF RenewedSince
  <2>4. AsleepFresh(c)'
    BY <1>1, <2>1, <2>3 DEF AsleepFresh, RenewedSince
  <2> QED
    BY <2>1, <2>4 DEF FreshFor, ConnectingFresh, CallingFresh, AnsweredFresh, Idle
<1>6. CASE BusinessSend(c) \/ BusinessHandle(c) \/ BusinessFinish(c) \/ BusinessReturn(c)
  <2>1. UNCHANGED <<sid, peer, steady, beat>> /\ ~Stopping(c) /\ sid[c] # NoId
    BY <1>2, <1>6 DEF BusinessSend, BusinessHandle, BusinessFinish, BusinessReturn,
         Stopping, Idle, ThreadsOf
  <2>2. main'[c].op # "Connect"
    <3>1. CASE BusinessSend(c)
      BY Zenon, <3>1 DEF BusinessSend, Sent, TypeOK
    <3>4. CASE BusinessReturn(c)
      BY Zenon, <3>4 DEF BusinessReturn, Idle, TypeOK
    <3>2. CASE BusinessHandle(c)
      BY <1>2, <3>2 DEF BusinessHandle, TypeOK, Call
    <3>3. CASE BusinessFinish(c)
      BY Zenon, <1>2, <3>3 DEF BusinessFinish, TypeOK, Call
    <3> QED
      BY Zenon, <1>6, <3>1, <3>2, <3>3, <3>4
  <2>3. \A t \in Int : RenewedSince(c, sid[c], t)
                   => /\ sid[c] \in DOMAIN sessions'
                      /\ sessions'[sid[c]].peer = peer[c]
                      /\ sessions'[sid[c]].lastHeartbeat >= t
    BY Zenon, <2>1, FreshKept DEF Next
  <2>4. AsleepFresh(c)'
    <3>1. beat[c].at - HeartbeatInterval - RpcDelay \in Int
      BY <1>1
    <3> QED
      BY Zenon, <1>1, <2>1, <2>3, <3>1 DEF FreshFor, AsleepFresh, RenewedSince
  <2>5. CallingFresh(c)'
    <3>1. beat[c].at - WakeDelay - HeartbeatInterval - RpcDelay \in Int
      BY <1>1
    <3> QED
      BY Zenon, <1>1, <2>1, <2>3, <3>1 DEF FreshFor, CallingFresh, RenewedSince
  <2>6. AnsweredFresh(c)'
    BY <1>1, <2>1, <2>3 DEF FreshFor, AnsweredFresh, RenewedSince
  <2> QED
    BY Zenon, <2>2, <2>4, <2>5, <2>6 DEF FreshFor, ConnectingFresh
<1>7. CASE Close(c) \/ DisconnectSend(c) \/ DisconnectHandle(c)
  <2>1. main'[c].op = "Disconnect"
    BY <1>2, <1>7 DEF Close, DisconnectSend, DisconnectHandle, Sent, TypeOK, Call
  <2> QED
    BY Zenon, <2>1 DEF FreshFor, ConnectingFresh, Stopping
<1>8. CASE DisconnectReturn(c)
  <2>1. main'[c].op # "Connect" /\ beat'[c].phase = "off"
    BY Zenon, <1>2, <1>8 DEF DisconnectReturn, Idle, ThreadsOf, Stopping, TypeOK
  <2> QED
    BY Zenon, <2>1 DEF FreshFor, ConnectingFresh, AsleepFresh, CallingFresh, AnsweredFresh
<1>9. CASE CallFails(c)
  <2>1. main'[c] = Idle /\ UNCHANGED <<clock, sessions, peer, steady, beat>>
    BY Zenon, <1>9 DEF CallFails, TypeOK, registryVars
  <2>2. CASE main[c].op \in {"Connect", "Disconnect"}
    <3>1. beat[c].phase = "off"
      BY Zenon, <1>2, <1>9, <2>2 DEF CallFails, ThreadsOf, Stopping
    <3> QED
      BY <2>1, <3>1 DEF FreshFor, ConnectingFresh, AsleepFresh, CallingFresh, AnsweredFresh, Idle
  <2>3. CASE main[c].op \notin {"Connect", "Disconnect"}
    <3>1. sid'[c] = sid[c]
      BY Zenon, <1>9, <2>3 DEF CallFails
    <3>2. main'[c].op # "Connect" /\ ~Stopping(c)
      BY <2>1, <2>3 DEF Idle, Stopping
    <3>3. AsleepFresh(c)' /\ CallingFresh(c)' /\ AnsweredFresh(c)'
      BY Zenon, <2>1, <3>1, <3>2 DEF FreshFor, AsleepFresh, CallingFresh, AnsweredFresh, RenewedSince
    <3> QED
      BY Zenon, <3>2, <3>3 DEF FreshFor, ConnectingFresh
  <2> QED
    BY Zenon, <2>2, <2>3
<1>10. CASE BeatWake(c)
  <2>1. UNCHANGED <<sessions, sid, peer, steady, main>>
    BY Zenon, <1>10 DEF BeatWake, registryVars
  <2>2. main[c].op # "Connect"
    BY Zenon, <1>2, <1>10 DEF BeatWake, ThreadsOf
  <2>3. CASE Stopping(c)
    BY Zenon, <2>1, <2>2, <2>3 DEF FreshFor, ConnectingFresh, Stopping
  <2>4. CASE ~Stopping(c)
    <3>1. beat'[c].phase = "sent" /\ beat'[c].at = clock
      BY Zenon, <1>10, <2>4 DEF BeatWake, TypeOK
    <3>2. /\ RenewedSince(c, sid[c], beat[c].at - HeartbeatInterval - RpcDelay)
          /\ clock =< beat[c].at + WakeDelay
          /\ sid[c] \in DOMAIN sessions
      BY Zenon, <1>10, <2>1, <2>4 DEF BeatWake, FreshFor, AsleepFresh, RenewedSince
    <3>3. /\ sessions[sid[c]].peer = peer[c]
          /\ sessions[sid[c]].lastHeartbeat
               >= clock - WakeDelay - HeartbeatInterval - RpcDelay
      BY <1>1, <3>2 DEF RenewedSince
    <3>4. CallingFresh(c)'
      BY <1>1, <2>1, <3>1, <3>2, <3>3 DEF CallingFresh, RenewedSince
    <3> QED
      BY Zenon, <2>1, <2>2, <3>1, <3>4 DEF FreshFor, ConnectingFresh, AsleepFresh, AnsweredFresh
  <2> QED
    BY Zenon, <2>3, <2>4
<1>11. CASE BeatHandle(c)
  <2>1. PICK status \in Statuses :
               /\ RenewOrRefuse(sid[c], peer[c], status)
               /\ beat' = [beat EXCEPT ![c].phase = "done", ![c].ok = (status = "OK")]
    BY Zenon, <1>11 DEF BeatHandle, heartbeat
  <2>2. beat[c].phase = "sent" /\ beat'[c].phase = "done" /\ beat'[c].at = beat[c].at
    BY <1>2, <1>11, <2>1 DEF TypeOK, BeatHandle, Beat
  <2>3. UNCHANGED <<sid, peer, steady, main>>
    BY Zenon, <1>11 DEF BeatHandle
  <2>4. sid[c] # NoId /\ main[c].op # "Connect"
    BY Zenon, <1>2, <2>2 DEF ThreadsOf
  <2>5. CASE Stopping(c)
    BY Zenon, <2>3, <2>4, <2>5 DEF FreshFor, ConnectingFresh, Stopping
  <2>6. CASE ~Stopping(c)
    <3>1. /\ sid[c] \in DOMAIN sessions /\ ~ExpiredAt(sid[c], clock)
          /\ sessions[sid[c]].peer = peer[c]
      BY Zenon, <2>3, <2>4, <2>6, FreshNotExpired
    <3>2. RenewOrRefuse(sid[c], peer[c], "OK")
      BY Zenon, <2>1, <3>1 DEF RenewOrRefuse
    <3>3. /\ sid[c] \in DOMAIN sessions' /\ sessions'[sid[c]].lastHeartbeat = clock
          /\ sessions'[sid[c]].peer = peer[c]
      BY Zenon, <3>1, <3>2, OkRenews
    <3>4. clock =< beat[c].at + RpcDelay /\ beat[c].at =< clock
      BY Zenon, <1>1, <2>2, <2>3, <2>6 DEF FreshFor, CallingFresh
    <3>5. AnsweredFresh(c)'
      BY Zenon, <1>1, <2>2, <2>3, <3>3, <3>4 DEF AnsweredFresh, RenewedSince
    <3> QED
      BY Zenon, <2>2, <2>3, <2>4, <3>5 DEF FreshFor, ConnectingFresh, AsleepFresh, CallingFresh
  <2> QED
    BY Zenon, <2>5, <2>6
<1>12. CASE BeatReturn(c)
  <2>1. UNCHANGED <<sessions, sid, peer, steady, main>>
    BY Zenon, <1>12 DEF BeatReturn, registryVars
  <2>2. main[c].op # "Connect"
    BY Zenon, <1>2, <1>12 DEF BeatReturn, ThreadsOf
  <2>3. CASE Stopping(c)
    BY Zenon, <2>1, <2>2, <2>3 DEF FreshFor, ConnectingFresh, Stopping
  <2>4. CASE ~Stopping(c)
    <3>1. beat'[c].phase = "sleep" /\ beat'[c].at = clock + HeartbeatInterval
      BY Zenon, <1>12, <2>4 DEF BeatReturn, TypeOK
    <3>2. /\ RenewedSince(c, sid[c], beat[c].at)
          /\ clock =< beat[c].at + RpcDelay
          /\ sid[c] \in DOMAIN sessions
      BY Zenon, <1>12, <2>1, <2>4 DEF BeatReturn, FreshFor, AnsweredFresh, RenewedSince
    <3>3. /\ sessions[sid[c]].peer = peer[c]
          /\ sessions[sid[c]].lastHeartbeat
               >= (clock + HeartbeatInterval) - HeartbeatInterval - RpcDelay
      BY <1>1, <3>2 DEF RenewedSince
    <3>4. AsleepFresh(c)'
      BY <1>1, <2>1, <3>1, <3>2, <3>3 DEF AsleepFresh, RenewedSince
    <3> QED
      BY Zenon, <2>1, <2>2, <3>1, <3>4 DEF FreshFor, ConnectingFresh, CallingFresh, AnsweredFresh
  <2> QED
    BY Zenon, <2>3, <2>4
<1>13. CASE BeatFails(c) \/ ChannelReconnect(c)
  BY Zenon, <1>13 DEF BeatFails, ChannelReconnect, TypeOK
<1>14. CASE Crash(c)
  <2>1. main'[c].op # "Connect" /\ beat'[c].phase = "off"
    BY Zenon, <1>14 DEF Crash, Idle, Off, TypeOK
  <2> QED
    BY <2>1 DEF FreshFor, ConnectingFresh, AsleepFresh, CallingFresh, AnsweredFresh
<1> QED
  BY Zenon, <1>3, <1>4, <1>5, <1>6, <1>7, <1>8, <1>9, <1>10, <1>11, <1>12, <1>13, <1>14
     DEF ClientStep

\* Every step keeps the bounds on the age of every steady client's renewals.
LEMMA FreshStep ==
  ASSUME TypeOK, Threads, Ownership, Clocks, [Next]_vars,
         \A c \in Clients : FreshFor(c)
  PROVE  \A c \in Clients : FreshFor(c)'
<1>1. CASE Tick
  BY Zenon, <1>1, TickFreshStep
<1>2. CASE UNCHANGED <<clock, clientVars>>
  BY Zenon, <1>2, IdleFreshStep DEF clientVars
<1>3. ASSUME NEW d \in Clients, ClientStep(d), NEW c \in Clients PROVE FreshFor(c)'
  <2>1. CASE c = d
    BY Zenon, <1>3, <2>1, OwnFreshStep
  <2>2. CASE c # d
    BY Zenon, <1>3, <2>2, OthersUnchanged, ClientKeepsTime, IdleFreshStep
  <2> QED
    BY Zenon, <2>1, <2>2
<1> QED
  BY Zenon, <1>1, <1>2, <1>3 DEF Next, SweepStep, SweepReadClock, SweepErase, vars, registryVars

-----------------------------------------------------------------------------

\* The invariant holds in every reachable state.
LEMMA LeaseInvHolds == Spec => []LeaseInv
<1>1. Init => LeaseInv
  <2> SUFFICES ASSUME Init PROVE LeaseInv
    OBVIOUS
  <2>1. TypeOK
    BY Zenon, InitType
  <2>2. /\ \A c \in Clients : /\ sid[c] = NoId /\ beat[c].phase = "off"
                              /\ main[c].op = "none" /\ main[c].id = NoId
                              /\ main[c].at = 0
        /\ clock = 0 /\ DOMAIN sessions = {} /\ sweep.now = 0
    BY Zenon DEF Init, RegistryInit, SweepAsleep, Idle, Off
  <2>3. Ownership
    <3>1. \A c \in Clients : Held(c) = {}
      BY Zenon, <2>2 DEF Held
    <3> QED
      BY Zenon, <3>1 DEF Ownership
  <2>4. Threads
    BY Zenon, <2>2 DEF Threads, ThreadsOf, Stopping
  <2>5. Clocks
    BY <2>2 DEF Clocks
  <2>6. \A c \in Clients : AssuredFor(c)
    BY Zenon, <2>2 DEF AssuredFor
  <2>7. \A c \in Clients : FreshFor(c)
    BY Zenon, <2>2 DEF FreshFor, ConnectingFresh, AsleepFresh, CallingFresh, AnsweredFresh
  <2> QED
    BY Zenon, <2>1, <2>3, <2>4, <2>5, <2>6, <2>7 DEF LeaseInv
<1>2. LeaseInv /\ [Next]_vars => LeaseInv'
  <2> SUFFICES ASSUME LeaseInv, [Next]_vars PROVE LeaseInv'
    OBVIOUS
  <2> USE DEF LeaseInv
  <2>1. TypeOK' /\ Threads' /\ Clocks' /\ Ownership'
    BY Zenon, TypeStep, ThreadsStep, ClocksStep, OwnershipStep
  <2>2. \A c \in Clients : AssuredFor(c)' /\ FreshFor(c)'
    BY Zenon, AssuredStep, FreshStep
  <2> QED
    BY Zenon, <2>1, <2>2
<1> QED
  BY <1>1, <1>2, PTL DEF Spec

\* An OK is a promise the registry keeps: for one lease after the call was sent
\* the session stays in the table, for any number of clients and any timing of
\* the sweep, whose clock value may be old.
THEOREM LeaseIsHonoured == Spec => []LeaseHonoured
<1>1. LeaseInv => LeaseHonoured
  BY LeaseAssumption DEF LeaseInv, LeaseHonoured, AssuredFor, Assures, TypeOK, RegistryTypeOK
<1> QED
  BY <1>1, LeaseInvHolds, PTL

\* The interval max(200, lease * 2 / 5) is enough: if waking up and calling take no
\* longer than TimelyAssumption allows, heartbeatLoop never lets the session go.
THEOREM HeartbeatSuffices == Spec => []HeartbeatKeepsSession
<1>1. LeaseInv => HeartbeatKeepsSession
  BY Zenon, FreshNotExpired, ClientsAssumption DEF LeaseInv, HeartbeatKeepsSession
<1> QED
  BY <1>1, LeaseInvHolds, PTL

\* A session leaves the table only by its own peer's Disconnect or because its
\* lease has run out; the sweep's old clock value never removes a renewed one.
THEOREM RemovalIsDue == Spec => RemovedOnlyWhenDue
<1> DEFINE Due == \A id \in DOMAIN sessions \ DOMAIN sessions' :
                    \/ ExpiredAt(id, clock)
                    \/ \E c \in Clients : /\ sid[c] = id
                                          /\ main[c].op = "Disconnect"
                                          /\ peer[c] = sessions[id].peer
<1>1. LeaseInv /\ [Next]_vars => [Due]_vars
  <2> SUFFICES ASSUME LeaseInv, [Next]_vars, NEW id \in DOMAIN sessions \ DOMAIN sessions',
                      ~ExpiredAt(id, clock)
               PROVE  \E c \in Clients : /\ sid[c] = id
                                         /\ main[c].op = "Disconnect"
                                         /\ peer[c] = sessions[id].peer
    OBVIOUS
  <2>1. id \in issued /\ ~Kept(id)
    BY Zenon DEF LeaseInv, TypeOK, RegistryTypeOK, Kept
  <2>2. PICK c \in Clients : DisconnectHandle(c) /\ sid[c] = id
    BY Zenon, <2>1, TableStep DEF LeaseInv
  <2> QED
    BY Zenon, <2>2 DEF DisconnectHandle, disconnect
<1> QED
  BY <1>1, LeaseInvHolds, PTL DEF Spec, RemovedOnlyWhenDue

=============================================================================
