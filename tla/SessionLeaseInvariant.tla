------------------------- MODULE SessionLeaseInvariant -------------------------
(***************************************************************************)
(* Type correctness of SessionLease, the inductive invariant behind its    *)
(* safety properties, and the conjuncts about ids, threads and clocks.     *)
(***************************************************************************)
EXTENDS SessionLease, TLAPS

\* The heartbeat interval is a natural number.
LEMMA IntervalIsNat == HeartbeatInterval \in Nat
  BY LeaseAssumption, DelaysAssumption DEF HeartbeatInterval

-----------------------------------------------------------------------------
(* Typing.  The registry's operations are typed once, and cited by the      *)
(* handlers that call them.                                                 *)

\* Erasing sessions leaves a typed part of the table.
LEMMA EraseType ==
  ASSUME RegistryTypeOK, NEW S, Erase(S)
  PROVE  /\ DOMAIN sessions' \subseteq DOMAIN sessions
         /\ sessions' \in [DOMAIN sessions' -> Record]
  BY DEF RegistryTypeOK, Erase, Restrict

\* A renewal, or its refusal, leaves a typed part of the table.
LEMMA RenewOrRefuseType ==
  ASSUME RegistryTypeOK, NEW id, NEW p, NEW status, RenewOrRefuse(id, p, status)
  PROVE  /\ DOMAIN sessions' \subseteq DOMAIN sessions
         /\ sessions' \in [DOMAIN sessions' -> Record]
<1>1. CASE UNCHANGED sessions
  BY <1>1 DEF RegistryTypeOK
<1>2. CASE Erase({id})
  BY <1>2, EraseType
<1>3. CASE /\ id \in DOMAIN sessions
           /\ sessions' = [sessions EXCEPT ![id].lastHeartbeat = clock]
  BY <1>3 DEF RegistryTypeOK, Record
<1> QED
  BY <1>1, <1>2, <1>3 DEF RenewOrRefuse

\* connect enters a typed session under an id that is issued.
LEMMA connectType ==
  ASSUME RegistryTypeOK, NEW id, NEW p \in Peers, connect(id, p)
  PROVE  /\ id \in Ids
         /\ issued' \subseteq Ids
         /\ DOMAIN sessions' \subseteq issued'
         /\ sessions' \in [DOMAIN sessions' -> Record]
  BY DEF RegistryTypeOK, connect, Record

\* disconnect leaves a typed part of the table.
LEMMA disconnectType ==
  ASSUME RegistryTypeOK, NEW id, NEW p, NEW status, disconnect(id, p, status)
  PROVE  /\ DOMAIN sessions' \subseteq DOMAIN sessions
         /\ sessions' \in [DOMAIN sessions' -> Record]
<1>1. CASE UNCHANGED sessions
  BY <1>1 DEF RegistryTypeOK
<1>2. CASE Erase({id})
  BY <1>2, EraseType
<1> QED
  BY <1>1, <1>2 DEF disconnect

\* A client's idle call and the calls it sends are typed.
LEMMA CallTypes ==
  ASSUME clock \in Nat
  PROVE  /\ Idle \in Call
         /\ \A op \in {"Connect", "Business", "Disconnect"} : Sent(op) \in Call
         /\ [Sent("Disconnect") EXCEPT !.phase = "join"] \in Call
  BY Zenon DEF Call, Idle, Sent

\* A call stays typed as it is answered.
LEMMA CallUpdates ==
  ASSUME NEW m \in Call
  PROVE  /\ m.at \in Nat /\ m.id \in Ids \cup {NoId} /\ m.ok \in BOOLEAN
         /\ [m EXCEPT !.phase = "done"] \in Call
         /\ [m EXCEPT !.phase = "sent"] \in Call
         /\ \A id \in Ids :
              [m EXCEPT !.phase = "done", !.id = id, !.ok = TRUE] \in Call
         /\ [m EXCEPT !.phase = "running", !.ok = TRUE] \in Call
         /\ [m EXCEPT !.phase = "done", !.ok = FALSE] \in Call
  BY Zenon DEF Call

\* The heartbeat thread that is off, has sent or sleeps is typed.
LEMMA BeatTypes ==
  ASSUME clock \in Nat
  PROVE  /\ Off \in Beat
         /\ [phase |-> "sent", at |-> clock, ok |-> FALSE] \in Beat
         /\ [phase |-> "sleep", ok |-> FALSE, at |-> clock + HeartbeatInterval] \in Beat
  BY IntervalIsNat DEF Beat, Off

\* A heartbeat stays typed as it is answered.
LEMMA BeatUpdates ==
  ASSUME NEW b \in Beat
  PROVE  /\ b.at \in Nat /\ b.ok \in BOOLEAN
         /\ [b EXCEPT !.phase = "done", !.ok = TRUE] \in Beat
         /\ [b EXCEPT !.phase = "done", !.ok = FALSE] \in Beat
  BY Zenon DEF Beat

\* A client's step keeps the types.
LEMMA ClientStepType ==
  ASSUME TypeOK, NEW c \in Clients, ClientStep(c)
  PROVE  TypeOK'
<1>0. clock \in Nat /\ main[c] \in Call /\ beat[c] \in Beat
  BY DEF TypeOK, RegistryTypeOK
<1>1. CASE ConnectSend(c)
  BY <1>0, <1>1, CallTypes DEF TypeOK, RegistryTypeOK, registryVars, ConnectSend
<1>2. CASE ConnectHandle(c)
  <2>1. PICK id \in Ids : /\ connect(id, peer[c])
                          /\ main' = [main EXCEPT ![c].phase = "done", ![c].id = id,
                                                  ![c].ok = TRUE]
    BY Zenon, <1>2 DEF ConnectHandle
  <2>2. RegistryTypeOK'
    BY <1>2, <2>1, connectType DEF TypeOK, RegistryTypeOK, ConnectHandle
  <2> QED
    BY Zenon, <1>0, <1>2, <2>1, <2>2, CallUpdates DEF TypeOK, ConnectHandle
<1>3. CASE ConnectReturn(c)
  BY Zenon, <1>0, <1>3, CallTypes, CallUpdates, BeatTypes DEF TypeOK, RegistryTypeOK, registryVars, ConnectReturn
<1>4. CASE BusinessSend(c)
  BY <1>0, <1>4, CallTypes DEF TypeOK, RegistryTypeOK, registryVars, BusinessSend
<1>5. CASE BusinessHandle(c)
  <2>1. PICK status \in Statuses :
               /\ RenewOrRefuse(sid[c], peer[c], status)
               /\ main' = [main EXCEPT ![c].phase = IF status = "OK" THEN "running" ELSE "done",
                                       ![c].ok = (status = "OK")]
    BY Zenon, <1>5 DEF BusinessHandle, requireActiveBusinessCall
  <2>2. RegistryTypeOK'
    BY <1>5, <2>1, RenewOrRefuseType DEF TypeOK, RegistryTypeOK, BusinessHandle
  <2>3. main' \in [Clients -> Call]
    <3>1. CASE status = "OK"
      <4>1. main' = [main EXCEPT ![c] = [@ EXCEPT !.phase = "running", !.ok = TRUE]]
        BY Zenon, <2>1, <3>1
      <4> QED
        BY Zenon, <1>0, <4>1, CallUpdates DEF TypeOK
    <3>2. CASE status # "OK"
      <4>1. main' = [main EXCEPT ![c] = [@ EXCEPT !.phase = "done", !.ok = FALSE]]
        BY Zenon, <2>1, <3>2
      <4> QED
        BY Zenon, <1>0, <4>1, CallUpdates DEF TypeOK
    <3> QED
      BY <3>1, <3>2
  <2> QED
    BY <1>5, <2>2, <2>3 DEF TypeOK, BusinessHandle
<1>6. CASE BusinessFinish(c)
  BY Zenon, <1>0, <1>6, CallUpdates DEF TypeOK, RegistryTypeOK, registryVars, BusinessFinish
<1>7. CASE BusinessReturn(c)
  BY Zenon, <1>0, <1>7, CallTypes, CallUpdates DEF TypeOK, RegistryTypeOK, registryVars, BusinessReturn, Later
<1>8. CASE Close(c)
  BY <1>0, <1>8, CallTypes DEF TypeOK, RegistryTypeOK, registryVars, Close
<1>9. CASE DisconnectSend(c)
  BY Zenon, <1>0, <1>9, CallUpdates DEF TypeOK, RegistryTypeOK, registryVars, DisconnectSend
<1>10. CASE DisconnectHandle(c)
  <2>1. PICK status \in Statuses : disconnect(sid[c], peer[c], status)
    BY <1>10 DEF DisconnectHandle
  <2>2. RegistryTypeOK'
    BY <1>10, <2>1, disconnectType DEF TypeOK, RegistryTypeOK, DisconnectHandle
  <2> QED
    BY Zenon, <1>0, <1>10, <2>2, CallUpdates DEF TypeOK, DisconnectHandle
<1>11. CASE DisconnectReturn(c)
  BY <1>0, <1>11, CallTypes DEF TypeOK, RegistryTypeOK, registryVars, DisconnectReturn
<1>12. CASE CallFails(c)
  <2>1. CASE main[c].op = "Disconnect"
    BY <1>0, <1>12, <2>1, CallTypes DEF TypeOK, RegistryTypeOK, registryVars, CallFails
  <2>2. CASE main[c].op # "Disconnect"
    BY <1>0, <1>12, <2>2, CallTypes DEF TypeOK, RegistryTypeOK, registryVars, CallFails
  <2> QED
    BY <2>1, <2>2
<1>13. CASE BeatWake(c)
  BY <1>0, <1>13, BeatTypes DEF TypeOK, RegistryTypeOK, registryVars, BeatWake
<1>14. CASE BeatHandle(c)
  <2>1. PICK status \in Statuses :
               /\ RenewOrRefuse(sid[c], peer[c], status)
               /\ beat' = [beat EXCEPT ![c].phase = "done", ![c].ok = (status = "OK")]
    BY Zenon, <1>14 DEF BeatHandle, heartbeat
  <2>2. RegistryTypeOK'
    BY <1>14, <2>1, RenewOrRefuseType DEF TypeOK, RegistryTypeOK, BeatHandle
  <2>3. beat' \in [Clients -> Beat]
    <3>1. CASE status = "OK"
      <4>1. beat' = [beat EXCEPT ![c] = [@ EXCEPT !.phase = "done", !.ok = TRUE]]
        BY Zenon, <2>1, <3>1
      <4> QED
        BY Zenon, <1>0, <4>1, BeatUpdates DEF TypeOK
    <3>2. CASE status # "OK"
      <4>1. beat' = [beat EXCEPT ![c] = [@ EXCEPT !.phase = "done", !.ok = FALSE]]
        BY Zenon, <2>1, <3>2
      <4> QED
        BY Zenon, <1>0, <4>1, BeatUpdates DEF TypeOK
    <3> QED
      BY <3>1, <3>2
  <2> QED
    BY <1>14, <2>2, <2>3 DEF TypeOK, BeatHandle
<1>15. CASE BeatReturn(c)
  BY Zenon, <1>0, <1>15, BeatTypes, BeatUpdates DEF TypeOK, RegistryTypeOK, registryVars, BeatReturn, Later
<1>16. CASE BeatFails(c)
  BY Zenon, <1>0, <1>16, BeatUpdates DEF TypeOK, RegistryTypeOK, registryVars, BeatFails
<1>17. CASE ChannelReconnect(c)
  BY <1>17 DEF TypeOK, RegistryTypeOK, registryVars, ChannelReconnect
<1>18. CASE Crash(c)
  BY <1>0, <1>18, CallTypes, BeatTypes DEF TypeOK, RegistryTypeOK, registryVars, Crash
<1> QED
  BY <1>1, <1>2, <1>3, <1>4, <1>5, <1>6, <1>7, <1>8, <1>9, <1>10, <1>11, <1>12,
     <1>13, <1>14, <1>15, <1>16, <1>17, <1>18 DEF ClientStep

\* A step of the sweep keeps the types.
LEMMA SweepStepType ==
  ASSUME TypeOK, SweepStep
  PROVE  TypeOK'
<1>1. CASE SweepReadClock
  BY <1>1 DEF TypeOK, RegistryTypeOK, SweepStep, SweepReadClock, clientVars
<1>2. CASE SweepErase
  <2>1. RegistryTypeOK'
    BY <1>2, EraseType DEF TypeOK, RegistryTypeOK, SweepErase, SweepAsleep
  <2> QED
    BY <1>2, <2>1 DEF TypeOK, SweepStep, clientVars
<1> QED
  BY <1>1, <1>2 DEF SweepStep

\* Every step, and every stutter, keeps the types.
LEMMA TypeStep ==
  ASSUME TypeOK, [Next]_vars
  PROVE  TypeOK'
<1>1. CASE Tick
  BY <1>1 DEF TypeOK, RegistryTypeOK, Tick, clientVars
<1>2. CASE UNCHANGED vars
  BY <1>2 DEF TypeOK, RegistryTypeOK, vars, registryVars, clientVars
<1> QED
  BY <1>1, <1>2, SweepStepType, ClientStepType DEF Next

\* The initial state is typed.
LEMMA InitType == Init => TypeOK
  BY DEF Init, RegistryInit, TypeOK, RegistryTypeOK, SweepAsleep, Record,
         Idle, Off, Call, Beat

\* Every value stays in its type: in particular the table only ever holds ids
\* that connect() issued, with a peer and a time.
THEOREM TypeCorrect == Spec => []TypeOK
<1>1. TypeOK /\ [Next]_vars => TypeOK'
  BY TypeStep
<1> QED
  BY <1>1, InitType, PTL DEF Spec

-----------------------------------------------------------------------------
(* The inductive invariant.  Typing does not say why a lease is honoured:   *)
(* that takes who holds an id (nobody else can disconnect it), where the    *)
(* threads of a client can be, how the times compare, and what every call   *)
(* in flight has already been promised.                                     *)

\* The ids client c has, or is about to receive from Connect.
Held(c) == {sid[c], main[c].id} \ {NoId}

Ownership ==
  /\ \A c \in Clients : Held(c) \subseteq issued
  /\ \A c, d \in Clients : c # d => Held(c) \cap Held(d) = {}

\* The two threads of a client: the heartbeat thread lives exactly as long as
\* the client has a session.
ThreadsOf(c) ==
  /\ main[c].op = "Connect" => sid[c] = NoId
  /\ main[c].op = "Connect" /\ main[c].phase = "done" => main[c].id # NoId
  /\ main[c].op # "Connect" => main[c].id = NoId
  /\ main[c].op \in {"Business", "Disconnect"} => sid[c] # NoId
  /\ sid[c] = NoId => beat[c].phase = "off"
  /\ Stopping(c) /\ main[c].phase # "join" => beat[c].phase = "off"
  /\ c \in Beaters /\ sid[c] # NoId /\ ~Stopping(c) => beat[c].phase # "off"

Threads == \A c \in Clients : ThreadsOf(c)

\* No recorded time is in the future; the sweep's `now` may be in the past.
Clocks ==
  /\ \A id \in DOMAIN sessions : sessions[id].lastHeartbeat =< clock
  /\ sweep.now =< clock
  /\ \A c \in Clients :
       /\ main[c].at =< clock
       /\ beat[c].phase \in {"sent", "done"} => beat[c].at =< clock

\* The promise of an OK to a call sent at time t, as the table keeps it.
Assures(id, t) ==
  IF id \in DOMAIN sessions THEN t =< sessions[id].lastHeartbeat
                            ELSE clock - t > Lease

\* ... for the answers that have arrived and for those still on their way.
AssuredFor(c) ==
  /\ sid[c] # NoId /\ ~Stopping(c) => Assures(sid[c], assured[c])
  /\ main[c].op = "Business" /\ main[c].ok => Assures(sid[c], main[c].at)
  /\ main[c].op = "Connect" /\ main[c].phase = "done"
       => Assures(main[c].id, main[c].at)
  /\ beat[c].phase = "done" /\ beat[c].ok /\ ~Stopping(c)
       => Assures(sid[c], beat[c].at)

\* Session id is in the table under c's peer name, renewed at time t or later.
RenewedSince(c, id, t) ==
  /\ id \in DOMAIN sessions
  /\ sessions[id].peer = peer[c]
  /\ sessions[id].lastHeartbeat >= t

\* How old the lease of a heartbeat client can be, wherever its threads are.
ConnectingFresh(c) ==
  main[c].op = "Connect" =>
    /\ clock =< main[c].at + RpcDelay
    /\ main[c].phase = "done" => RenewedSince(c, main[c].id, main[c].at)

AsleepFresh(c) ==
  beat[c].phase = "sleep" =>
    /\ RenewedSince(c, sid[c], beat[c].at - HeartbeatInterval - RpcDelay)
    /\ clock =< beat[c].at + WakeDelay

CallingFresh(c) ==
  beat[c].phase = "sent" =>
    /\ RenewedSince(c, sid[c], beat[c].at - WakeDelay - HeartbeatInterval - RpcDelay)
    /\ clock =< beat[c].at + RpcDelay

AnsweredFresh(c) ==
  beat[c].phase = "done" =>
    /\ RenewedSince(c, sid[c], beat[c].at)
    /\ clock =< beat[c].at + RpcDelay

FreshFor(c) ==
  c \in Beaters /\ steady[c] =>
    /\ ConnectingFresh(c)
    /\ ~Stopping(c) => AsleepFresh(c) /\ CallingFresh(c) /\ AnsweredFresh(c)

LeaseInv ==
  /\ TypeOK /\ Ownership /\ Threads /\ Clocks
  /\ \A c \in Clients : AssuredFor(c) /\ FreshFor(c)

-----------------------------------------------------------------------------
(* Frames: what a client's step leaves alone.                               *)

\* A client's step leaves the other clients' state alone.
LEMMA OthersUnchanged ==
  ASSUME TypeOK, NEW c \in Clients, ClientStep(c), NEW d \in Clients, d # c
  PROVE  /\ sid'[d] = sid[d] /\ peer'[d] = peer[d] /\ steady'[d] = steady[d]
         /\ main'[d] = main[d] /\ beat'[d] = beat[d] /\ assured'[d] = assured[d]
<1> USE DEF TypeOK
<1>1. CASE ConnectSend(c) \/ ConnectReturn(c)
  BY <1>1 DEF ConnectSend, ConnectReturn
<1>6. CASE ConnectHandle(c)
  BY <1>6 DEF ConnectHandle
<1>2. CASE BusinessSend(c) \/ BusinessHandle(c) \/ BusinessFinish(c) \/ BusinessReturn(c)
  BY Zenon, <1>2 DEF BusinessSend, BusinessHandle, BusinessFinish, BusinessReturn
<1>3. CASE Close(c) \/ DisconnectSend(c) \/ DisconnectHandle(c) \/ DisconnectReturn(c)
  BY <1>3 DEF Close, DisconnectSend, DisconnectHandle, DisconnectReturn
<1>4. CASE CallFails(c) \/ ChannelReconnect(c) \/ Crash(c)
  BY <1>4 DEF CallFails, ChannelReconnect, Crash
<1>5. CASE BeatWake(c) \/ BeatHandle(c) \/ BeatReturn(c) \/ BeatFails(c)
  BY <1>5 DEF BeatWake, BeatHandle, BeatReturn, BeatFails
<1> QED
  BY <1>1, <1>2, <1>3, <1>4, <1>5, <1>6 DEF ClientStep

\* A client's step takes no time and leaves the sweep alone.
LEMMA ClientKeepsTime ==
  ASSUME NEW c \in Clients, ClientStep(c)
  PROVE  UNCHANGED <<clock, sweep>>
  BY Zenon DEF ClientStep, registryVars, ConnectSend, ConnectHandle, ConnectReturn,
         BusinessSend, BusinessHandle, BusinessFinish, BusinessReturn, Close,
         DisconnectSend, DisconnectHandle, DisconnectReturn, CallFails, BeatWake,
         BeatHandle, BeatReturn, BeatFails, ChannelReconnect, Crash

(* What one step can do to a session that its own client is not closing.    *)

Kept(id) ==
  IF id \in DOMAIN sessions
  THEN IF id \in DOMAIN sessions'
       THEN /\ sessions'[id].peer = sessions[id].peer
            /\ sessions'[id].lastHeartbeat >= sessions[id].lastHeartbeat
       ELSE ExpiredAt(id, clock)
  ELSE id \notin DOMAIN sessions'

\* A renewal or refusal drops only a session that has expired, and never ages one.
LEMMA RenewOrRefuseKeeps ==
  ASSUME TypeOK, Clocks, NEW i, NEW p, NEW status, RenewOrRefuse(i, p, status), NEW id
  PROVE  Kept(id)
<1> USE DEF TypeOK, RegistryTypeOK, Record
<1>1. CASE UNCHANGED sessions
  BY <1>1 DEF Kept
<1>2. CASE Erase({i}) /\ ExpiredAt(i, clock)
  BY <1>2 DEF Kept, Erase, Restrict
<1>3. CASE /\ i \in DOMAIN sessions
           /\ sessions' = [sessions EXCEPT ![i].lastHeartbeat = clock]
  BY <1>3 DEF Kept, Clocks
<1> QED
  BY <1>1, <1>2, <1>3 DEF RenewOrRefuse

\* No step removes a session before its time except its own client's Disconnect,
\* and no step brings an id back.
LEMMA TableStep ==
  ASSUME TypeOK, Clocks, [Next]_vars, NEW id \in issued,
         \A c \in Clients : DisconnectHandle(c) => sid[c] # id
  PROVE  Kept(id)
<1> USE DEF TypeOK, RegistryTypeOK, Record
<1>1. CASE UNCHANGED sessions
  BY <1>1 DEF Kept
<1>2. CASE SweepErase
  <2>1. ExpiredAt(id, sweep.now) => ExpiredAt(id, clock) \/ id \notin DOMAIN sessions
    BY LeaseAssumption DEF ExpiredAt, Clocks
  <2> QED
    BY <1>2, <2>1 DEF SweepErase, Erase, Restrict, Kept
<1>3. ASSUME NEW c \in Clients, ConnectHandle(c) PROVE Kept(id)
  BY <1>3 DEF ConnectHandle, connect, Kept
<1>4. ASSUME NEW c \in Clients, BusinessHandle(c) PROVE Kept(id)
  BY <1>4, RenewOrRefuseKeeps DEF BusinessHandle, requireActiveBusinessCall
<1>5. ASSUME NEW c \in Clients, BeatHandle(c) PROVE Kept(id)
  BY <1>5, RenewOrRefuseKeeps DEF BeatHandle, heartbeat
<1>6. ASSUME NEW c \in Clients, DisconnectHandle(c) PROVE Kept(id)
  <2>1. sid[c] # id
    BY <1>6
  <2>2. PICK status \in Statuses : disconnect(sid[c], peer[c], status)
    BY <1>6 DEF DisconnectHandle
  <2> QED
    BY <2>1, <2>2 DEF disconnect, Erase, Restrict, Kept
<1>7. ASSUME NEW c \in Clients, ClientStep(c) PROVE Kept(id)
  BY <1>1, <1>3, <1>4, <1>5, <1>6, <1>7
     DEF ClientStep, registryVars, ConnectSend, ConnectReturn, BusinessSend,
         BusinessFinish, BusinessReturn, Close, DisconnectSend, DisconnectReturn,
         CallFails, BeatWake, BeatReturn, BeatFails, ChannelReconnect, Crash
<1> QED
  BY <1>1, <1>2, <1>7
     DEF Next, Tick, SweepStep, SweepReadClock, vars, registryVars

-----------------------------------------------------------------------------
(* The conjuncts of the invariant, one lemma each.                          *)

\* A client's step keeps its main and heartbeat threads consistent.
LEMMA OwnThreadsStep ==
  ASSUME TypeOK, NEW c \in Clients, ThreadsOf(c), ClientStep(c)
  PROVE  ThreadsOf(c)'
<1> USE DEF TypeOK, ThreadsOf, Stopping
<1>1. CASE ConnectSend(c)
  BY <1>1 DEF ConnectSend, Sent
<1>2. CASE ConnectHandle(c)
  BY <1>2, ClientsAssumption DEF ConnectHandle, Call
<1>3. CASE ConnectReturn(c)
  BY <1>3 DEF ConnectReturn, Idle
<1>4. CASE BusinessSend(c)
  BY <1>4 DEF BusinessSend, Sent, Idle
<1>5. CASE BusinessHandle(c)
  <2>1. main'[c].op = main[c].op /\ main'[c].id = main[c].id
    BY <1>5 DEF BusinessHandle, Call
  <2> QED
    BY <1>5, <2>1 DEF BusinessHandle
<1>6. CASE BusinessFinish(c)
  BY <1>6 DEF BusinessFinish, Call
<1>7. CASE BusinessReturn(c)
  BY <1>7 DEF BusinessReturn, Idle
<1>8. CASE Close(c)
  BY <1>8 DEF Close, Sent
<1>9. CASE DisconnectSend(c)
  BY <1>9 DEF DisconnectSend, Call
<1>10. CASE DisconnectHandle(c)
  BY <1>10 DEF DisconnectHandle, Call
<1>11. CASE DisconnectReturn(c)
  BY <1>11 DEF DisconnectReturn, Idle
<1>12. CASE CallFails(c)
  BY <1>12 DEF CallFails, Idle
<1>13. CASE BeatWake(c)
  BY <1>13 DEF BeatWake, Off
<1>14. CASE BeatHandle(c)
  <2>1. beat'[c].phase = "done"
    BY <1>14 DEF BeatHandle, Beat
  <2> QED
    BY <1>14, <2>1 DEF BeatHandle
<1>15. CASE BeatReturn(c)
  BY <1>15 DEF BeatReturn, Off
<1>16. CASE BeatFails(c)
  BY <1>16 DEF BeatFails, Beat
<1>17. CASE ChannelReconnect(c)
  BY <1>17 DEF ChannelReconnect
<1>18. CASE Crash(c)
  BY <1>18 DEF Crash, Idle, Off
<1> QED
  BY Zenon, <1>1, <1>2, <1>3, <1>4, <1>5, <1>6, <1>7, <1>8, <1>9, <1>10, <1>11, <1>12,
     <1>13, <1>14, <1>15, <1>16, <1>17, <1>18 DEF ClientStep

\* Every step keeps all clients' threads consistent.
LEMMA ThreadsStep ==
  ASSUME TypeOK, Threads, [Next]_vars
  PROVE  Threads'
<1>1. CASE UNCHANGED clientVars
  BY <1>1 DEF Threads, ThreadsOf, Stopping, clientVars
<1>2. ASSUME NEW c \in Clients, ClientStep(c) PROVE Threads'
  <2> SUFFICES ASSUME NEW d \in Clients PROVE ThreadsOf(d)'
    BY DEF Threads
  <2>1. CASE d = c
    BY <1>2, <2>1, OwnThreadsStep DEF Threads
  <2>2. CASE d # c
    BY <1>2, <2>2, OthersUnchanged DEF Threads, ThreadsOf, Stopping
  <2> QED
    BY <2>1, <2>2
<1> QED
  BY <1>1, <1>2 DEF Next, Tick, SweepStep, vars

\* A client's step records no time of the future for that client.
LEMMA OwnClocksStep ==
  ASSUME TypeOK, Clocks, NEW c \in Clients, ClientStep(c)
  PROVE  /\ main'[c].at =< clock
         /\ beat'[c].phase \in {"sent", "done"} => beat'[c].at =< clock
<1>0. clock \in Nat /\ main[c] \in Call /\ beat[c] \in Beat /\ main[c].at =< clock
      /\ (beat[c].phase \in {"sent", "done"} => beat[c].at =< clock)
  BY DEF TypeOK, RegistryTypeOK, Clocks
<1>1. CASE \/ ConnectSend(c) \/ BusinessSend(c) \/ Close(c) \/ DisconnectReturn(c)
           \/ CallFails(c) \/ ChannelReconnect(c) \/ BusinessReturn(c)
  BY <1>0, <1>1 DEF TypeOK, Sent, Idle, ConnectSend, BusinessSend, Close,
       DisconnectReturn, CallFails, ChannelReconnect, BusinessReturn
<1>2. CASE ConnectHandle(c) \/ BusinessHandle(c) \/ BusinessFinish(c)
           \/ DisconnectSend(c) \/ DisconnectHandle(c)
  <2>1. main'[c].at = main[c].at /\ beat' = beat
    <3>1. CASE ConnectHandle(c)
      BY <1>0, <3>1 DEF TypeOK, ConnectHandle, Call
    <3>2. CASE BusinessHandle(c)
      BY <1>0, <3>2 DEF TypeOK, BusinessHandle, Call
    <3>3. CASE BusinessFinish(c) \/ DisconnectSend(c) \/ DisconnectHandle(c)
      BY <1>0, <3>3 DEF TypeOK, BusinessFinish, DisconnectSend, DisconnectHandle, Call
    <3> QED
      BY <1>2, <3>1, <3>2, <3>3
  <2> QED
    BY <1>0, <2>1
<1>3. CASE ConnectReturn(c)
  BY <1>0, <1>3 DEF TypeOK, ConnectReturn, Idle
<1>4. CASE BeatWake(c) \/ BeatReturn(c)
  BY <1>0, <1>4 DEF TypeOK, BeatWake, BeatReturn, Off
<1>5. CASE BeatHandle(c) \/ BeatFails(c)
  <2>1. beat[c].phase \in {"sent", "done"} /\ beat'[c].at = beat[c].at /\ main' = main
    BY <1>0, <1>5 DEF TypeOK, BeatHandle, BeatFails, Beat
  <2> QED
    BY <1>0, <2>1
<1>6. CASE Crash(c)
  BY <1>0, <1>6 DEF TypeOK, Crash, Idle, Off
<1> QED
  BY <1>1, <1>2, <1>3, <1>4, <1>5, <1>6 DEF ClientStep

\* A client's step records no time of the future in the table.
LEMMA TableTimes ==
  ASSUME TypeOK, Clocks, NEW c \in Clients, ClientStep(c), NEW id \in DOMAIN sessions'
  PROVE  sessions'[id].lastHeartbeat =< clock
<1> USE DEF TypeOK, RegistryTypeOK, Record, Clocks
<1>1. CASE UNCHANGED sessions
  BY <1>1
<1>2. CASE ConnectHandle(c)
  BY <1>2 DEF ConnectHandle, connect
<1>3. ASSUME NEW i, NEW p, NEW status, RenewOrRefuse(i, p, status)
      PROVE  sessions'[id].lastHeartbeat =< clock
  BY <1>3 DEF RenewOrRefuse, Erase, Restrict
<1>4. CASE DisconnectHandle(c)
  BY <1>4 DEF DisconnectHandle, disconnect, Erase, Restrict
<1> QED
  BY Zenon, <1>1, <1>2, <1>3, <1>4
     DEF ClientStep, registryVars, ConnectSend, ConnectReturn, BusinessSend,
         BusinessHandle, requireActiveBusinessCall, BusinessFinish, BusinessReturn,
         Close, DisconnectSend, DisconnectReturn, CallFails, BeatWake, BeatHandle,
         heartbeat, BeatReturn, BeatFails, ChannelReconnect, Crash

\* No step records a time of the future.
LEMMA ClocksStep ==
  ASSUME TypeOK, Clocks, [Next]_vars
  PROVE  Clocks'
<1>1. CASE Tick
  <2>1. clock' = clock + 1 /\ UNCHANGED <<sessions, sweep, main, beat>>
    BY <1>1 DEF Tick, clientVars
  <2>2. clock \in Nat /\ sweep.now \in Nat
        /\ (\A id \in DOMAIN sessions : sessions[id].lastHeartbeat \in Nat)
        /\ (\A c \in Clients : main[c].at \in Nat /\ beat[c].at \in Nat)
    BY DEF TypeOK, RegistryTypeOK, Record, Call, Beat
  <2> QED
    BY <2>1, <2>2 DEF Clocks
<1>2. CASE SweepStep
  <2>1. UNCHANGED <<clock, main, beat>>
    BY <1>2 DEF SweepStep, SweepReadClock, SweepErase, clientVars
  <2>2. sweep'.now =< clock
    BY <1>2 DEF SweepStep, SweepReadClock, SweepErase, SweepAsleep, TypeOK, RegistryTypeOK
  <2>3. \A id \in DOMAIN sessions' : id \in DOMAIN sessions /\ sessions'[id] = sessions[id]
    BY <1>2 DEF SweepStep, SweepReadClock, SweepErase, Erase, Restrict
  <2> QED
    BY <2>1, <2>2, <2>3 DEF Clocks
<1>3. ASSUME NEW c \in Clients, ClientStep(c) PROVE Clocks'
  <2>1. \A d \in Clients : d # c => main'[d] = main[d] /\ beat'[d] = beat[d]
    BY <1>3, OthersUnchanged
  <2> QED
    BY <1>3, <2>1, ClientKeepsTime, OwnClocksStep, TableTimes DEF Clocks
<1>4. CASE UNCHANGED vars
  BY <1>4 DEF Clocks, vars, registryVars, clientVars
<1> QED
  BY <1>1, <1>2, <1>3, <1>4 DEF Next

\* No step lets two clients hold the same id, or one that was not issued.
LEMMA OwnershipStep ==
  ASSUME TypeOK, Threads, Ownership, [Next]_vars
  PROVE  Ownership'
<1>1. CASE UNCHANGED <<issued, sid, main>>
  BY <1>1 DEF Ownership, Held
<1>2. ASSUME NEW c \in Clients, ClientStep(c) PROVE Ownership'
  <2>1. \A d \in Clients : d # c => Held(d)' = Held(d)
    BY <1>2, OthersUnchanged DEF Held
  <2>2. CASE issued' = issued /\ Held(c)' \subseteq Held(c)
    BY <2>1, <2>2 DEF Ownership
  <2>3. ASSUME NEW id \in Ids \ issued, issued' = issued \cup {id}, Held(c)' = {id}
        PROVE  Ownership'
    BY <2>1, <2>3 DEF Ownership
  <2>4. CASE ConnectHandle(c)
    <3>1. PICK id \in Ids \ issued :
             /\ issued' = issued \cup {id}
             /\ main'[c].id = id
      BY <2>4 DEF ConnectHandle, connect, TypeOK, Call
    <3>2. sid'[c] = NoId
      BY <2>4 DEF ConnectHandle, Threads, ThreadsOf
    <3>3. Held(c)' = {id}
      BY <3>1, <3>2, ClientsAssumption DEF Held
    <3> QED
      BY <3>1, <3>3, <2>3
  <2>5. CASE ConnectReturn(c)
    BY <2>2, <2>5 DEF ConnectReturn, Idle, Held, TypeOK, registryVars
  <2>6. CASE \/ ConnectSend(c) \/ BusinessSend(c) \/ BusinessReturn(c) \/ Close(c)
             \/ DisconnectReturn(c) \/ CallFails(c) \/ Crash(c)
    BY <2>2, <2>6 DEF ConnectSend, BusinessSend, BusinessReturn, Close,
         DisconnectReturn, CallFails, Crash, Idle, Sent, Held, TypeOK, registryVars
  <2>7. CASE \/ BusinessHandle(c) \/ BusinessFinish(c) \/ DisconnectSend(c)
             \/ DisconnectHandle(c)
    <3>1. main'[c].id = main[c].id /\ sid' = sid /\ issued' = issued
      <4>1. CASE BusinessHandle(c)
        BY <4>1 DEF BusinessHandle, TypeOK, Call
      <4>2. CASE BusinessFinish(c) \/ DisconnectSend(c) \/ DisconnectHandle(c)
        BY <4>2 DEF BusinessFinish, DisconnectSend, DisconnectHandle, TypeOK, Call,
             registryVars
      <4> QED
        BY <2>7, <4>1, <4>2
    <3> QED
      BY <2>2, <3>1 DEF Held
  <2>8. CASE BeatWake(c) \/ BeatHandle(c) \/ BeatReturn(c) \/ BeatFails(c)
             \/ ChannelReconnect(c)
    BY <1>1, <2>8 DEF BeatWake, BeatHandle, BeatReturn, BeatFails, ChannelReconnect,
         registryVars
  <2> QED
    BY <1>2, <2>4, <2>5, <2>6, <2>7, <2>8 DEF ClientStep
<1> QED
  BY <1>1, <1>2 DEF Next, Tick, SweepStep, SweepReadClock, SweepErase, vars,
       registryVars, clientVars

=============================================================================
