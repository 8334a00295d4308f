----------------------------- MODULE SessionLease -----------------------------
(***************************************************************************)
(* The session registry together with the clients that use it.  A client   *)
(* is either evrp-client (server/impl/client/remoteevrp.cpp), which keeps  *)
(* its lease alive from a heartbeat thread, or the host's client of        *)
(* evrp-device (device/impl/client/client.cpp), which has no such thread   *)
(* and relies on its business calls.                                       *)
(*                                                                         *)
(* A call is sent, handled by the server and returned in three steps, and  *)
(* time passes between them.  A client can crash, lose an answer, and have *)
(* its transport re-established under another peer name.                   *)
(***************************************************************************)
EXTENDS SessionRegistry

CONSTANTS Clients,      \* client objects
          Beaters,      \* the clients with a heartbeat thread
          NoId,         \* no session
          MinInterval,  \* the floor of the heartbeat interval (200 ms)
          WakeDelay,    \* bound on how late a sleeping thread wakes up
          RpcDelay,     \* bound on a session call's round trip
          MaxClock      \* bound of the model: the clock stops here

\* The heartbeat thread's period: max(200, leaseTimeoutMs_ * 2 / 5).
HeartbeatInterval ==
  LET i == (Lease * 2) \div 5
  IN  IF i < MinInterval THEN MinInterval ELSE i

ASSUME ClientsAssumption == Beaters \subseteq Clients /\ NoId \notin Ids
ASSUME DelaysAssumption ==
  MinInterval \in Nat /\ WakeDelay \in Nat /\ RpcDelay \in Nat /\ MaxClock \in Nat

\* Under this bound on delays a lease outlives the gap between two heartbeats.
ASSUME TimelyAssumption ==
  HeartbeatInterval + WakeDelay + 2 * RpcDelay =< Lease

VARIABLES sid,      \* the client's sessionId_
          peer,     \* the peer name the server sees for the client's transport
          steady,   \* the transport has not moved since Connect was sent
          main,     \* the call the client's own thread is in
          beat,     \* heartbeatThread_
          assured   \* when the latest call that was answered OK had been sent

clientVars == <<sid, peer, steady, main, beat, assured>>
vars == <<registryVars, clientVars>>

Call == [op : {"none", "Connect", "Business", "Disconnect"},
         phase : {"idle", "join", "sent", "running", "done"},
         at : Nat, id : Ids \cup {NoId}, ok : BOOLEAN]
Beat == [phase : {"off", "sleep", "sent", "done"}, at : Nat, ok : BOOLEAN]

Idle == [op |-> "none", phase |-> "idle", at |-> 0, id |-> NoId, ok |-> FALSE]
Off  == [phase |-> "off", at |-> 0, ok |-> FALSE]

Sent(op) == [op |-> op, phase |-> "sent", at |-> clock, id |-> NoId, ok |-> FALSE]

Init ==
  /\ RegistryInit
  /\ sid = [c \in Clients |-> NoId]
  /\ peer \in [Clients -> Peers]
  /\ steady = [c \in Clients |-> TRUE]
  /\ main = [c \in Clients |-> Idle]
  /\ beat = [c \in Clients |-> Off]
  /\ assured = [c \in Clients |-> 0]

\* ~RemoteEvrp has set heartbeatStop_.
Stopping(c) == main[c].op = "Disconnect"

Later(a, b) == IF a > b THEN a ELSE b

-----------------------------------------------------------------------------

\* sessionConnect / sessionConnectWithDeadline send SessionService.Connect.
ConnectSend(c) ==
  /\ main[c] = Idle
  /\ sid[c] = NoId
  /\ main' = [main EXCEPT ![c] = Sent("Connect")]
  /\ steady' = [steady EXCEPT ![c] = TRUE]
  /\ UNCHANGED <<registryVars, sid, peer, beat, assured>>

ConnectHandle(c) ==
  /\ main[c].op = "Connect" /\ main[c].phase = "sent"
  /\ \E id \in Ids : /\ connect(id, peer[c])
                     /\ main' = [main EXCEPT ![c].phase = "done", ![c].id = id,
                                             ![c].ok = TRUE]
  /\ UNCHANGED <<clock, sweep, sid, peer, steady, beat, assured>>

\* The id arrives; RemoteEvrp's constructor starts heartbeatThread_.
ConnectReturn(c) ==
  /\ main[c].op = "Connect" /\ main[c].phase = "done"
  /\ sid' = [sid EXCEPT ![c] = main[c].id]
  /\ assured' = [assured EXCEPT ![c] = main[c].at]
  /\ beat' = IF c \in Beaters
             THEN [beat EXCEPT ![c] = [phase |-> "sleep", ok |-> FALSE,
                                       at |-> clock + HeartbeatInterval]]
             ELSE beat
  /\ main' = [main EXCEPT ![c] = Idle]
  /\ UNCHANGED <<registryVars, peer, steady>>

\* Any device or EvrpService call: it carries the session id as metadata.
BusinessSend(c) ==
  /\ main[c] = Idle
  /\ sid[c] # NoId
  /\ main' = [main EXCEPT ![c] = Sent("Business")]
  /\ UNCHANGED <<registryVars, sid, peer, steady, beat, assured>>

\* requireBusinessSession at the head of the handler.
BusinessHandle(c) ==
  /\ main[c].op = "Business" /\ main[c].phase = "sent"
  /\ \E status \in Statuses :
       /\ requireActiveBusinessCall(sid[c], peer[c], status)
       /\ main' = [main EXCEPT ![c].phase = IF status = "OK" THEN "running" ELSE "done",
                               ![c].ok = (status = "OK")]
  /\ UNCHANGED <<clock, issued, sweep, sid, peer, steady, beat, assured>>

\* The rest of the handler: a record, a playback, a wait, for as long as it takes.
BusinessFinish(c) ==
  /\ main[c].op = "Business" /\ main[c].phase = "running"
  /\ main' = [main EXCEPT ![c].phase = "done"]
  /\ UNCHANGED <<registryVars, sid, peer, steady, beat, assured>>

BusinessReturn(c) ==
  /\ main[c].op = "Business" /\ main[c].phase = "done"
  /\ assured' = IF main[c].ok
                THEN [assured EXCEPT ![c] = Later(@, main[c].at)] ELSE assured
  /\ main' = [main EXCEPT ![c] = Idle]
  /\ UNCHANGED <<registryVars, sid, peer, steady, beat>>

\* ~RemoteEvrp / ~ClientImpl: first the heartbeat thread is joined ...
Close(c) ==
  /\ main[c] = Idle
  /\ sid[c] # NoId
  /\ main' = [main EXCEPT ![c] = [Sent("Disconnect") EXCEPT !.phase = "join"]]
  /\ UNCHANGED <<registryVars, sid, peer, steady, beat, assured>>

\* ... then sessionDisconnect sends SessionService.Disconnect.
DisconnectSend(c) ==
  /\ main[c].op = "Disconnect" /\ main[c].phase = "join"
  /\ beat[c].phase = "off"
  /\ main' = [main EXCEPT ![c].phase = "sent"]
  /\ UNCHANGED <<registryVars, sid, peer, steady, beat, assured>>

DisconnectHandle(c) ==
  /\ main[c].op = "Disconnect" /\ main[c].phase = "sent"
  /\ \E status \in Statuses : disconnect(sid[c], peer[c], status)
  /\ main' = [main EXCEPT ![c].phase = "done"]
  /\ UNCHANGED <<clock, issued, sweep, sid, peer, steady, beat, assured>>

\* The destructor ends whatever the answer was.
DisconnectReturn(c) ==
  /\ main[c].op = "Disconnect" /\ main[c].phase = "done"
  /\ sid' = [sid EXCEPT ![c] = NoId]
  /\ assured' = [assured EXCEPT ![c] = 0]
  /\ main' = [main EXCEPT ![c] = Idle]
  /\ UNCHANGED <<registryVars, peer, steady, beat>>

\* The call comes back as an error, handled or not: the transport broke or, for
\* sessionConnectWithDeadline, the deadline passed.
CallFails(c) ==
  /\ main[c].phase \in {"sent", "running", "done"}
  /\ main' = [main EXCEPT ![c] = Idle]
  /\ IF main[c].op = "Disconnect"
     THEN /\ sid' = [sid EXCEPT ![c] = NoId]
          /\ assured' = [assured EXCEPT ![c] = 0]
     ELSE UNCHANGED <<sid, assured>>
  /\ UNCHANGED <<registryVars, peer, steady, beat>>

-----------------------------------------------------------------------------

\* heartbeatLoop: sleep_for returns, and the thread stops or sends a Heartbeat.
BeatWake(c) ==
  /\ beat[c].phase = "sleep"
  /\ clock >= beat[c].at
  /\ beat' = [beat EXCEPT ![c] = IF Stopping(c) THEN Off
                                 ELSE [phase |-> "sent", at |-> clock, ok |-> FALSE]]
  /\ UNCHANGED <<registryVars, sid, peer, steady, main, assured>>

BeatHandle(c) ==
  /\ beat[c].phase = "sent"
  /\ \E status \in Statuses :
       /\ heartbeat(sid[c], peer[c], status)
       /\ beat' = [beat EXCEPT ![c].phase = "done", ![c].ok = (status = "OK")]
  /\ UNCHANGED <<clock, issued, sweep, sid, peer, steady, main, assured>>

\* The loop's condition is tested, and the thread sleeps again: a Heartbeat that
\* failed is only logged.
BeatReturn(c) ==
  /\ beat[c].phase = "done"
  /\ assured' = IF beat[c].ok
                THEN [assured EXCEPT ![c] = Later(@, beat[c].at)] ELSE assured
  /\ beat' = [beat EXCEPT ![c] = IF Stopping(c) THEN Off
                                 ELSE [phase |-> "sleep", ok |-> FALSE,
                                       at |-> clock + HeartbeatInterval]]
  /\ UNCHANGED <<registryVars, sid, peer, steady, main>>

BeatFails(c) ==
  /\ beat[c].phase \in {"sent", "done"}
  /\ ~steady[c]
  /\ beat' = [beat EXCEPT ![c].phase = "done", ![c].ok = FALSE]
  /\ UNCHANGED <<registryVars, sid, peer, steady, main, assured>>

\* The channel reconnects: a new TCP port is a new peer name.
ChannelReconnect(c) ==
  /\ \E p \in Peers \ {peer[c]} : peer' = [peer EXCEPT ![c] = p]
  /\ steady' = [steady EXCEPT ![c] = FALSE]
  /\ UNCHANGED <<registryVars, sid, main, beat, assured>>

\* The client process dies and another one starts in its place.
Crash(c) ==
  /\ main[c] # Idle \/ sid[c] # NoId
  /\ sid' = [sid EXCEPT ![c] = NoId]
  /\ main' = [main EXCEPT ![c] = Idle]
  /\ beat' = [beat EXCEPT ![c] = Off]
  /\ assured' = [assured EXCEPT ![c] = 0]
  /\ UNCHANGED <<registryVars, peer, steady>>

\* The heartbeat client c is within its bounds at the next tick.
Timely(c) ==
  steady[c] =>
    /\ beat[c].phase = "sleep" => clock < beat[c].at + WakeDelay
    /\ beat[c].phase \in {"sent", "done"} => clock < beat[c].at + RpcDelay
    /\ main[c].op = "Connect" => clock < main[c].at + RpcDelay

Tick ==
  /\ clock < MaxClock
  /\ \A c \in Beaters : Timely(c)
  /\ clock' = clock + 1
  /\ UNCHANGED <<sessions, issued, sweep, clientVars>>

SweepStep ==
  /\ SweepReadClock \/ SweepErase
  /\ UNCHANGED clientVars

ClientStep(c) ==
  \/ ConnectSend(c) \/ ConnectHandle(c) \/ ConnectReturn(c)
  \/ BusinessSend(c) \/ BusinessHandle(c) \/ BusinessFinish(c) \/ BusinessReturn(c)
  \/ Close(c) \/ DisconnectSend(c) \/ DisconnectHandle(c) \/ DisconnectReturn(c)
  \/ CallFails(c)
  \/ BeatWake(c) \/ BeatHandle(c) \/ BeatReturn(c) \/ BeatFails(c)
  \/ ChannelReconnect(c) \/ Crash(c)

Next == Tick \/ SweepStep \/ \E c \in Clients : ClientStep(c)

\* The sweeping thread loops for ever; nothing else is promised to run.
Fairness == WF_vars(SweepStep)

Spec == Init /\ [][Next]_vars /\ Fairness

-----------------------------------------------------------------------------
TypeOK ==
  /\ RegistryTypeOK
  /\ sid \in [Clients -> Ids \cup {NoId}]
  /\ peer \in [Clients -> Peers]
  /\ steady \in [Clients -> BOOLEAN]
  /\ main \in [Clients -> Call]
  /\ beat \in [Clients -> Beat]
  /\ assured \in [Clients -> Nat]

\* What an OK promises the caller: for one lease after it SENT the call, its
\* session is in the table, whatever the sweeping thread, other clients and late
\* answers do meanwhile (until it disconnects).  The sweep compares leases with a
\* clock value it read before it had the mutex.
LeaseHonoured ==
  \A c \in Clients :
    sid[c] # NoId /\ ~Stopping(c) /\ clock - assured[c] =< Lease
      => sid[c] \in DOMAIN sessions

\* heartbeatLoop does its job: as long as the transport does not move, a client
\* with a heartbeat thread never loses its session, even if it never makes a
\* business call and the sweep runs at any moment.
HeartbeatKeepsSession ==
  \A c \in Beaters :
    sid[c] # NoId /\ ~Stopping(c) /\ steady[c]
      => sid[c] \in DOMAIN sessions /\ ~ExpiredAt(sid[c], clock)

\* A session whose lease has run out is never renewed and is reclaimed in the end,
\* whether its client crashed, lost the answer to Connect or just went quiet.
ExpiredSessionReclaimed ==
  \A id \in Ids :
    (id \in DOMAIN sessions /\ ExpiredAt(id, clock)) ~> (id \notin DOMAIN sessions)

\* No session leaves the table before its time: only its own peer's Disconnect
\* or an expired lease removes it.
RemovedOnlyWhenDue ==
  [][\A id \in DOMAIN sessions \ DOMAIN sessions' :
       \/ ExpiredAt(id, clock)
       \/ \E c \in Clients : /\ sid[c] = id
                             /\ main[c].op = "Disconnect"
                             /\ peer[c] = sessions[id].peer]_vars
=============================================================================
