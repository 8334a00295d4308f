----------------------------- MODULE Discovery -----------------------------
(***************************************************************************)
(* How a host finds an evrp-device for a command of evrp-client:           *)
(* makeClient, the UDP discovery it uses when no device is named, and the  *)
(* device's discovery responder.  The command reaches the host by          *)
(* ClientCommand.                                                          *)
(*                                                                         *)
(* A target (host:port) is the route on which the device's answer came: a  *)
(* device on the same machine answers on the loopback and on the link, and *)
(* is two targets.  Datagrams may be lost, and arrive in any order within  *)
(* MaxDelay; a stray datagram is one that is not a valid response.  Time   *)
(* is in ticks, and the discovering thread is not delayed.                 *)
(***************************************************************************)
EXTENDS ClientCommand

CONSTANTS Devices,
          Routes,       \* records [dev, via ("loop" or "link"), rank]
          Deadline,     \* 1500 ms
          ResendEvery,  \* 200 ms
          Slice,        \* 250 ms, the longest select
          MaxDelay,     \* bound: the longest a datagram is under way
          MaxLoss,      \* bound: datagrams lost
          MaxStray,     \* bound: stray datagrams
          Named,        \* the client of a device that was named
          None

ASSUME DiscoveryAssumption ==
  /\ Routes \subseteq [dev : Devices, via : {"loop", "link"}, rank : 0..2]
  /\ {Deadline, ResendEvery, Slice} \subseteq Nat \ {0}
  /\ {MaxDelay, MaxLoss, MaxStray} \subseteq Nat
  /\ None \notin Routes /\ Named \notin Routes \cup {None}

Modes == {"broadcast", "multicast"}
Stray == [route |-> None]

VARIABLES
  time,
  mode,        \* discovery_link_mode
  nextResend,
  until,       \* when the select in progress times out
  targets,     \* the vector of targets, `seen' being its set
  next,        \* the target tried next
  client,      \* the target connected to
  responder,   \* per device: down, up, or up and a member of the multicast group
  air,         \* datagrams under way
  inbox,       \* the socket's receive queue
  lost, strays,
  lastProbe,   \* history: when probes were last sent
  arrived,     \* history: routes whose answer arrived before the deadline
  refused,     \* history: targets that could not be connected to
  early,       \* history: the devices up all along, as mode needs them
  searched     \* history: discovery ran, and to its deadline

asked == <<options, args, settings, mode>>
host == <<pc, asked, nextResend, until, targets, next, client>>
world == <<responder, air, inbox, lost, strays>>
trace == <<lastProbe, arrived, refused, early, searched>>
vars == <<time, host, world, trace>>

\* The responder listens on every address; without membership it gets no multicast.
Hears(state, link, via) ==
  \/ state = "member"
  \/ state = "up" /\ (via = "loop" \/ link = "broadcast")

DiscoveryInit ==
  /\ CommandInit
  /\ time = 0 /\ mode = "broadcast"
  /\ nextResend = 0 /\ until = 0 /\ targets = <<>> /\ next = 1 /\ client = None
  /\ responder = [d \in Devices |-> "down"]
  /\ air = {} /\ inbox = <<>> /\ lost = 0 /\ strays = 0
  /\ lastProbe = 0 /\ arrived = {} /\ refused = {} /\ searched = FALSE /\ early = {}

-----------------------------------------------------------------------------
(* The host: makeClient and discoverGrpcTargets.                           *)

\* evrp-client and EvrpService, up to LocalEvrp::record or LocalEvrp::replay.
Command ==
  /\ main \/ Record \/ Replay
  /\ UNCHANGED <<time, mode, nextResend, until, targets, next, client, world, trace>>

\* connectDevice calls makeClient; of the settings only the mode matters from here on.
Connecting ==
  /\ pc \in {"record", "replay"}
  /\ options' = <<>> /\ args' = <<>> /\ settings' = <<>>

device == get(settings, "device", "string", <<>>)
udpPort == get(settings, "discovery_port", "int32", 53508)
linkMode == get(settings, "discovery_link_mode", "string", <<"broadcast">>)

\* A device is named: ClientImpl::create, one attempt without a deadline.
create ==
  /\ Connecting /\ device # <<>>
  /\ pc' = "done"
  /\ client' \in {None, Named}
  /\ UNCHANGED <<time, mode, nextResend, until, targets, next, world, trace>>

\* No device is named, but the port or the mode is invalid, or there is no socket.
DiscoveryUnavailable ==
  /\ Connecting /\ device = <<>>
  /\ pc' = "try"
  /\ UNCHANGED <<time, mode, nextResend, until, targets, next, client, world, trace>>

\* The devices are as they happen to be by then.
StartDiscovery ==
  /\ Connecting /\ device = <<>>
  /\ udpPort \in 1..65535 /\ linkMode \in {<<m>> : m \in Modes}
  /\ pc' = "loop" /\ mode' = linkMode[1]
  /\ responder' \in [Devices -> {"down", "up", "member"}]
  /\ early' = {r \in Routes : Hears(responder'[r.dev], mode', r.via)}
  /\ UNCHANGED <<time, nextResend, until, targets, next, client, air, inbox, lost, strays,
                 lastProbe, arrived, refused, searched>>

\* A resend put off by whatever wakes the loop up.
transmitDiscoveryProbes_PutOff ==
  IF time >= nextResend
  THEN /\ air' = air \cup {[kind |-> "probe", route |-> r, due |-> time + MaxDelay] : r \in Routes}
       /\ nextResend' = time + ResendEvery /\ lastProbe' = time
  ELSE nextResend' = time + ResendEvery /\ UNCHANGED <<air, lastProbe>>

\* To the loopback, and to the group or the broadcast addresses, when it is time.
transmitDiscoveryProbes ==
  IF time >= nextResend
  THEN /\ air' = air \cup {[kind |-> "probe", route |-> r, due |-> time + MaxDelay] : r \in Routes}
       /\ nextResend' = time + ResendEvery /\ lastProbe' = time
  ELSE UNCHANGED <<air, nextResend, lastProbe>>

slice == IF Deadline - time < Slice THEN Deadline - time ELSE Slice

\* The head of the loop, up to the select.
Iterate ==
  /\ pc = "loop" /\ time < Deadline
  /\ pc' = "select"
  /\ transmitDiscoveryProbes
  /\ until' = time + slice
  /\ UNCHANGED <<time, asked, targets, next, client, responder, inbox, lost, strays,
                 arrived, refused, early, searched>>

\* sortDiscoveredTargetsPreferSameHost: a stable sort by localTargetRank; left out.
SameHostFirst_Unsorted(ts) == ts

SameHostFirst(ts) ==
  LET Rank(k) == SelectSeq(ts, LAMBDA t : t.rank = k) IN Rank(0) \o Rank(1) \o Rank(2)

\* The socket is closed: what is still under way or unread is gone.
EndSearch(complete) ==
  /\ pc' = "try"
  /\ targets' = SameHostFirst(targets)
  /\ searched' = complete
  /\ air' = {} /\ inbox' = <<>>
  /\ UNCHANGED <<time, asked, nextResend, until, next, client, responder, lost, strays,
                 lastProbe, arrived, refused, early>>

DeadlinePassed == pc = "loop" /\ time >= Deadline /\ EndSearch(TRUE)

SelectFails == pc = "select" /\ EndSearch(FALSE)

\* A search that gives up at the first silent wait.
SelectTimesOut_GivesUp ==
  pc = "select" /\ inbox = <<>> /\ time >= until /\ EndSearch(TRUE)

SelectTimesOut ==
  /\ pc = "select" /\ inbox = <<>> /\ time >= until
  /\ pc' = "loop"
  /\ UNCHANGED <<time, asked, nextResend, until, targets, next, client, world, trace>>

\* recvfrom that leaves nothing of what is queued for the next one.
Receive_DropsRest ==
  /\ pc = "select" /\ inbox # <<>>
  /\ pc' = "loop"
  /\ inbox' = <<>>
  /\ LET from == Head(inbox).route IN
       targets' = IF from = None \/ from \in ToSet(targets) THEN targets ELSE Append(targets, from)
  /\ UNCHANGED <<time, asked, nextResend, until, next, client, responder, air, lost, strays, trace>>

\* recvfrom: anything but a valid response is passed over, a target is kept once.
Receive ==
  /\ pc = "select" /\ inbox # <<>>
  /\ pc' = "loop"
  /\ inbox' = Tail(inbox)
  /\ LET from == Head(inbox).route IN
       targets' = IF from = None \/ from \in ToSet(targets) THEN targets ELSE Append(targets, from)
  /\ UNCHANGED <<time, asked, nextResend, until, next, client, responder, air, lost, strays, trace>>

\* makeClient tries the targets in turn (tryCreateWithDeadline) until one connects.
tryCreateWithDeadline ==
  /\ pc = "try" /\ next <= Len(targets)
  /\ \/ client' = targets[next] /\ pc' = "done" /\ UNCHANGED <<next, refused>>
     \/ next' = next + 1 /\ refused' = refused \cup {targets[next]} /\ UNCHANGED <<pc, client>>
  /\ UNCHANGED <<time, asked, nextResend, until, targets, world, lastProbe, arrived, early, searched>>

\* makeClient that looks for devices again when none could be reached.
NoneLeft_Restarts ==
  /\ pc = "try" /\ next > Len(targets)
  /\ pc' = "loop" /\ time' = 0 /\ next' = 1 /\ targets' = <<>>
  /\ UNCHANGED <<asked, nextResend, until, client, world, trace>>

NoneLeft ==
  /\ pc = "try" /\ next > Len(targets)
  /\ pc' = "done"
  /\ UNCHANGED <<time, asked, nextResend, until, targets, next, client, world, trace>>

\* The rest of the world matters while the host's socket is open.
Open == pc \in {"loop", "select"}

-----------------------------------------------------------------------------
(* The devices: UdpDiscoveryResponder.                                     *)

\* start(): with valid settings and the port bound, a thread answers from then on;
\* joining the multicast group may fail.
ResponderStarts(d) ==
  /\ Open /\ responder[d] = "down"
  /\ \E up \in {"up", "member"} : responder' = [responder EXCEPT ![d] = up]
  /\ UNCHANGED <<time, host, air, inbox, lost, strays, trace>>

\* discoveryResponderLoop: a valid request is answered to where it came from.
discoveryResponderLoop(m) ==
  /\ Open /\ m.kind = "probe"
  /\ air' = (air \ {m}) \cup
       {[kind |-> "answer", route |-> m.route, due |-> time + MaxDelay] :
          x \in {d \in {m.route.dev} : Hears(responder[d], mode, m.route.via)}}
  /\ UNCHANGED <<time, host, responder, inbox, lost, strays, trace>>

-----------------------------------------------------------------------------
(* The network and the clock.                                              *)

AnswerArrives(m) ==
  /\ Open /\ m.kind = "answer"
  /\ air' = air \ {m}
  /\ inbox' = Append(inbox, [route |-> m.route])
  /\ arrived' = IF time < Deadline THEN arrived \cup {m.route} ELSE arrived
  /\ UNCHANGED <<time, host, responder, lost, strays, lastProbe, refused, early, searched>>

Lose(m) ==
  /\ Open /\ lost < MaxLoss /\ lost' = lost + 1
  /\ air' = air \ {m}
  /\ UNCHANGED <<time, host, responder, inbox, strays, trace>>

StrayArrives ==
  /\ pc = "select" /\ strays < MaxStray /\ strays' = strays + 1
  /\ inbox' = Append(inbox, Stray)
  /\ UNCHANGED <<time, host, responder, air, lost, trace>>

\* Nobody is late: no datagram is overdue and the host has nothing to do.
Tick ==
  /\ pc = "select" /\ inbox = <<>> /\ time < until
  /\ \A m \in air : time < m.due
  /\ time' = time + 1
  /\ UNCHANGED <<host, world, trace>>

-----------------------------------------------------------------------------
Host ==
  \/ Command \/ create \/ DiscoveryUnavailable \/ StartDiscovery \/ Iterate \/ DeadlinePassed
  \/ SelectFails \/ SelectTimesOut \/ Receive \/ tryCreateWithDeadline \/ NoneLeft

Network == \E m \in air : discoveryResponderLoop(m) \/ AnswerArrives(m)

DiscoveryNext ==
  \/ Host \/ Network \/ Tick \/ StrayArrives
  \/ \E m \in air : Lose(m)
  \/ \E d \in Devices : ResponderStarts(d)

\* The host runs, datagrams that are not lost arrive, and time passes.
DiscoverySpec ==
  /\ DiscoveryInit /\ [][DiscoveryNext]_vars
  /\ WF_vars(Host) /\ WF_vars(Network) /\ WF_vars(Tick)

-----------------------------------------------------------------------------
(* Properties.                                                             *)

\* While the socket is open probes are never further apart than one resend period
\* and one wait, however answers and strays wake the loop up, and no wait lasts
\* beyond the deadline.
ProbedRegularly ==
  pc = "select" => time < lastProbe + ResendEvery + Slice /\ until =< Deadline

\* An answer that arrives before the deadline is heard: its target is listed when
\* a search that no socket error cut short is over.
AnswersHeard == searched => arrived \subseteq ToSet(targets)

\* Resending makes up for loss: with no more than MaxLoss datagrams lost, every
\* device that was up all along and hears the probes is listed.
RetryFindsDevice == searched => early \subseteq ToSet(targets)

\* A target on another machine is used only when every listed target on this one,
\* and a LAN address of this one only when its loopback, could not be connected to.
SameHostPreferred ==
  client \in Routes => \A t \in ToSet(targets) : t.rank < client.rank => t \in refused

\* makeClient returns, whatever is lost and whoever does not answer, and so every
\* command gets as far as a client, or the lack of one, unless it is refused.
MakeClientReturns == <>(pc \in {"done", "refused"})
=============================================================================
