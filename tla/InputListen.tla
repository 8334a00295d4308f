----------------------------- MODULE InputListen -----------------------------
(***************************************************************************)
(* Recording on evrp-device: the handlers of GrpcInputListenService and    *)
(* its watchdog thread, over LocalInputListener.  Every method of          *)
(* LocalInputListener is reached through PostedInputListener, so it runs   *)
(* on the io worker, one after another; by DispatchQueue each is one step  *)
(* of the thread that calls it.  A handler makes several such calls.       *)
(*                                                                         *)
(* An input device is an evdev node; its events are counted, not told      *)
(* apart.  EV_SYN events, which readInputEvents drops, are not counted.    *)
(* Time is the number of ticks since the last activity, saturated just     *)
(* above the timeout, as only that comparison is made of it.               *)
(***************************************************************************)
EXTENDS Integers, FiniteSets, Functions

CONSTANTS Handlers,   \* gRPC threads
          Nodes,      \* evdev nodes that can be opened
          BatchSize,  \* events one readEvents call takes from a node
          Timeout,    \* FLAGS_recording_idle_timeout_ms in ticks; 0: disabled
          MaxPending, \* bound: unread events of a node
          MaxStarts   \* bound: StartRecording calls in a behaviour

ASSUME ListenAssumption ==
  /\ BatchSize \in Nat \ {0} /\ Timeout \in Nat
  /\ MaxPending \in Nat /\ MaxStarts \in Nat

VARIABLES
  listening,  \* listeningActive_
  devices,    \* devices_: the nodes open now, with their unread events
  ready,      \* pollReadyIndices_
  leaked,     \* history: nodes whose descriptor was dropped without close
  rpc,        \* per handler: method, place, whether the caller has gone
  idle,       \* ticks since lastRecordingActivityNs_
  watchdog,   \* its place, and the idle time it has measured
  starts,
  disposed    \* disposed_

listenVars == <<listening, devices, ready, leaked, rpc, idle, watchdog, starts, disposed>>
listenerVars == <<listening, devices, ready, leaked, disposed>>

Free == [op |-> "none", pc |-> "idle", gone |-> FALSE]
Asleep == [pc |-> "asleep", idle |-> 0]
Sat == Timeout + 1
NoDevices == [n \in {} |-> 0]

ListenInit ==
  /\ listening = FALSE /\ devices = NoDevices /\ ready = {} /\ leaked = {}
  /\ rpc = [h \in Handlers |-> Free]
  /\ idle = 0 /\ watchdog = Asleep /\ starts = 0 /\ disposed = FALSE

\* gRPC starts no handler once GrpcServer::run returns, and drains the others.
Serving == watchdog.pc \notin {"joined", "shutdown"}

Begin(h, op, pc) ==
  /\ Serving /\ rpc[h] = Free
  /\ rpc' = [rpc EXCEPT ![h] = [op |-> op, pc |-> pc, gone |-> FALSE]]
At(h, op, pc) == rpc[h].op = op /\ rpc[h].pc = pc
Goto(h, pc) == rpc' = [rpc EXCEPT ![h].pc = pc]
Finish(h) == rpc' = [rpc EXCEPT ![h] = Free]

\* The time of the activity is stored.
recordingActivityBump == idle' = 0

-----------------------------------------------------------------------------
(* LocalInputListener.                                                     *)

\* closeDevices that keeps pollReadyIndices_.
closeDevices_KeepsReady == devices' = NoDevices /\ UNCHANGED ready
closeDevices == devices' = NoDevices /\ ready' = {}

cancelListening ==
  /\ listening' = FALSE
  /\ IF disposed THEN UNCHANGED <<devices, ready>> ELSE closeDevices
  /\ UNCHANGED leaked

\* startListening without the test of listeningActive_.
startListening_NoTest(nodes) ==
  /\ ~disposed /\ nodes # {}
  /\ leaked' = leaked \cup DOMAIN devices
  /\ devices' = [n \in nodes |-> 0]
  /\ listening' = TRUE
  /\ UNCHANGED <<ready, disposed>>

\* nodes are those of the requested kinds that could be opened.  What devices_
\* still held would be dropped by the assignment, not closed.
startListening(nodes) ==
  /\ ~disposed /\ ~listening /\ nodes # {}
  /\ leaked' = leaked \cup DOMAIN devices
  /\ devices' = [n \in nodes |-> 0]
  /\ listening' = TRUE
  /\ UNCHANGED <<ready, disposed>>

startListeningFails(nodes) ==
  /\ disposed \/ listening \/ nodes = {}
  /\ UNCHANGED listenerVars

Readable == {n \in DOMAIN devices : devices[n] > 0}

\* pollFds finds something to read.
waitForInputEventReady ==
  /\ listening /\ ~disposed /\ Readable # {}
  /\ ready' = ready \cup Readable
  /\ UNCHANGED <<listening, devices, leaked, disposed>>

\* Not listening, or the slice passes without an event.
waitForInputEventFails ==
  /\ ~listening \/ disposed \/ Readable = {}
  /\ UNCHANGED listenerVars

readInputEvents ==
  /\ devices' = [n \in DOMAIN devices |->
       IF n \in ready /\ listening /\ ~disposed
       THEN (IF devices[n] > BatchSize THEN devices[n] - BatchSize ELSE 0)
       ELSE devices[n]]
  /\ ready' = IF listening /\ ~disposed THEN {} ELSE ready
  /\ UNCHANGED <<listening, leaked, disposed>>

\* The kernel queues an event on an open node.
InputArrives(n) ==
  /\ n \in DOMAIN devices /\ devices[n] < MaxPending
  /\ devices' = [devices EXCEPT ![n] = @ + 1]
  /\ UNCHANGED <<listening, ready, leaked, rpc, idle, watchdog, starts, disposed>>

-----------------------------------------------------------------------------
(* StartRecording: isListening, cancelListening, isListening again,        *)
(* startListening, then the bump.                                          *)

StartCall(h) ==
  /\ starts < MaxStarts /\ starts' = starts + 1
  /\ Begin(h, "Start", IF listening THEN "clear" ELSE "recheck")
  /\ UNCHANGED <<idle, listenerVars, watchdog>>

StartClear(h) ==
  /\ At(h, "Start", "clear")
  /\ cancelListening
  /\ Goto(h, "recheck")
  /\ UNCHANGED <<idle, watchdog, starts, disposed>>

\* ABORTED: another StartRecording came in between.
StartAborted(h) ==
  /\ At(h, "Start", "recheck") /\ listening
  /\ Finish(h)
  /\ UNCHANGED <<idle, listenerVars, watchdog, starts>>

StartRecheck(h) ==
  /\ At(h, "Start", "recheck") /\ ~listening
  /\ Goto(h, "open")
  /\ UNCHANGED <<idle, listenerVars, watchdog, starts>>

StartOpen(h, nodes) ==
  /\ At(h, "Start", "open")
  /\ \/ startListening(nodes) /\ Goto(h, "bump")
     \/ startListeningFails(nodes) /\ Finish(h)
  /\ UNCHANGED <<idle, watchdog, starts>>

StartBump(h) ==
  /\ At(h, "Start", "bump")
  /\ recordingActivityBump
  /\ Finish(h)
  /\ UNCHANGED <<listenerVars, watchdog, starts>>

-----------------------------------------------------------------------------
(* WaitForInputEvent.  With timeout_ms = 0 ("poll") there is no loop.      *)

WaitCall(h, poll) ==
  /\ listening
  /\ IF poll THEN Begin(h, "Poll", "bumped") ELSE Begin(h, "Wait", "loop")
  /\ recordingActivityBump
  /\ UNCHANGED <<listenerVars, watchdog, starts>>

\* isListening() was false: ready = false, and no bump.
WaitNotListening(h) ==
  /\ ~listening
  /\ Serving /\ rpc[h] = Free
  /\ UNCHANGED <<listenerVars, rpc, idle, watchdog, starts>>

\* The loop's head: isListening(), the bump.
WaitLoop(h) ==
  /\ At(h, "Wait", "loop")
  /\ \/ listening /\ Goto(h, "bumped") /\ recordingActivityBump
     \/ ~listening /\ Finish(h) /\ UNCHANGED idle
  /\ UNCHANGED <<listenerVars, watchdog, starts>>

\* IsCancelled(): the client is gone, stop recording.
WaitDisconnected(h) ==
  /\ rpc[h].op \in {"Wait", "Poll"} /\ rpc[h].pc = "bumped" /\ rpc[h].gone
  /\ cancelListening
  /\ Finish(h)
  /\ UNCHANGED <<idle, watchdog, starts, disposed>>

\* now >= deadline
WaitDeadline(h) ==
  /\ At(h, "Wait", "bumped") /\ ~rpc[h].gone
  /\ Finish(h)
  /\ UNCHANGED <<idle, listenerVars, watchdog, starts>>

\* waitForInputEvent for a slice: an answer, or another round.
WaitSlice(h) ==
  /\ rpc[h].op \in {"Wait", "Poll"} /\ rpc[h].pc = "bumped" /\ ~rpc[h].gone
  /\ \/ waitForInputEventReady /\ Finish(h)
     \/ /\ waitForInputEventFails
        /\ IF rpc[h].op = "Poll" THEN Finish(h) ELSE Goto(h, "loop")
  /\ UNCHANGED <<idle, watchdog, starts>>

-----------------------------------------------------------------------------
(* ReadInputEvents and StopRecording.                                      *)

ReadCall(h, gone) ==
  /\ Begin(h, "Read", IF gone THEN "cancel" ELSE "check")
  /\ UNCHANGED <<idle, listenerVars, watchdog, starts>>

ReadCancel(h) ==
  /\ At(h, "Read", "cancel")
  /\ cancelListening
  /\ Goto(h, "check")
  /\ UNCHANGED <<idle, watchdog, starts, disposed>>

ReadCheck(h) ==
  /\ At(h, "Read", "check")
  /\ IF listening THEN recordingActivityBump ELSE UNCHANGED idle
  /\ Goto(h, "read")
  /\ UNCHANGED <<listenerVars, watchdog, starts>>

ReadRead(h) ==
  /\ At(h, "Read", "read")
  /\ readInputEvents
  /\ Finish(h)
  /\ UNCHANGED <<idle, watchdog, starts>>

StopCall(h) ==
  /\ listening
  /\ Begin(h, "Stop", "cancel")
  /\ UNCHANGED <<listenerVars, idle, watchdog, starts>>

StopCancel(h) ==
  /\ At(h, "Stop", "cancel")
  /\ cancelListening
  /\ Finish(h)
  /\ UNCHANGED <<idle, watchdog, starts, disposed>>

Disconnect(h) ==
  /\ rpc[h].op \in {"Wait", "Poll"} /\ ~rpc[h].gone
  /\ rpc' = [rpc EXCEPT ![h].gone = TRUE]
  /\ UNCHANGED <<listenerVars, idle, watchdog, starts>>

-----------------------------------------------------------------------------
(* watchdogLoop, and time.                                                 *)

\* A watchdog that takes the time of its own look for the last activity.
WatchdogLoad_Fresh ==
  /\ watchdog.pc = "asleep" /\ Timeout > 0 /\ listening
  /\ watchdog' = [pc |-> "measure", idle |-> 0]
  /\ UNCHANGED <<listenerVars, rpc, idle, starts>>

\* isListening(), then the load of lastRecordingActivityNs_.
WatchdogLoad ==
  /\ watchdog.pc = "asleep" /\ Timeout > 0 /\ listening
  /\ watchdog' = [pc |-> "measure", idle |-> idle]
  /\ UNCHANGED <<listenerVars, rpc, idle, starts>>

\* idle_ns > timeout_ms * 1'000'000, by a clock read after the load.
WatchdogMeasure ==
  /\ watchdog.pc = "measure"
  /\ watchdog' = IF watchdog.idle > Timeout THEN [watchdog EXCEPT !.pc = "cancel"]
                                            ELSE Asleep
  /\ UNCHANGED <<listenerVars, rpc, idle, starts>>

WatchdogCancel ==
  /\ watchdog.pc = "cancel"
  /\ cancelListening
  /\ watchdog' = Asleep
  /\ UNCHANGED <<rpc, idle, starts, disposed>>

Later(t) == IF t < Sat THEN t + 1 ELSE t

Tick ==
  /\ Timeout > 0
  /\ idle' = Later(idle)
  /\ watchdog' = IF watchdog.pc = "measure"
                 THEN [watchdog EXCEPT !.idle = Later(@)] ELSE watchdog
  /\ UNCHANGED <<listenerVars, rpc, starts>>

-----------------------------------------------------------------------------
(* The end: ~GrpcInputListenService, then ~Server.                         *)

\* The watchdog is stopped between two rounds, and joined.
WatchdogJoined ==
  /\ watchdog.pc = "asleep" /\ \A h \in Handlers : rpc[h] = Free
  /\ watchdog' = [watchdog EXCEPT !.pc = "joined"]
  /\ UNCHANGED <<listenerVars, rpc, idle, starts>>

\* PostedInputListener::shutdown
ShutdownListener ==
  /\ watchdog.pc = "joined"
  /\ cancelListening
  /\ watchdog' = [watchdog EXCEPT !.pc = "shutdown"]
  /\ UNCHANGED <<rpc, idle, starts, disposed>>

\* ~LocalInputListener
dispose ==
  /\ watchdog.pc = "shutdown" /\ ~disposed
  /\ cancelListening
  /\ disposed' = TRUE
  /\ UNCHANGED <<rpc, idle, watchdog, starts>>

Watchdog == WatchdogLoad \/ WatchdogMeasure \/ WatchdogCancel

Call(h) ==
  \/ StartCall(h) \/ StopCall(h)
  \/ \E b \in BOOLEAN : WaitCall(h, b) \/ ReadCall(h, b)
  \/ WaitNotListening(h)

Continue(h) ==
  \/ StartClear(h) \/ StartAborted(h) \/ StartRecheck(h) \/ StartBump(h)
  \/ \E nodes \in SUBSET Nodes : StartOpen(h, nodes)
  \/ WaitLoop(h) \/ WaitDisconnected(h) \/ WaitDeadline(h) \/ WaitSlice(h)
  \/ ReadCancel(h) \/ ReadCheck(h) \/ ReadRead(h)
  \/ StopCancel(h)

ListenNext ==
  \/ \E h \in Handlers : Call(h) \/ Continue(h) \/ Disconnect(h)
  \/ \E n \in Nodes : InputArrives(n)
  \/ Watchdog \/ Tick
  \/ WatchdogJoined \/ ShutdownListener \/ dispose

\* The watchdog's thread and the handlers run; time passes.
ListenFairness ==
  /\ WF_listenVars(Watchdog) /\ WF_listenVars(Tick)
  /\ \A h \in Handlers : WF_listenVars(Continue(h))

ListenSpec == ListenInit /\ [][ListenNext]_listenVars /\ ListenFairness

-----------------------------------------------------------------------------
(* Properties.                                                             *)

\* Every variable keeps its type.
TypeOK ==
  /\ listening \in BOOLEAN
  /\ DOMAIN devices \subseteq Nodes /\ devices \in [DOMAIN devices -> 0..MaxPending]
  /\ ready \subseteq Nodes /\ leaked \subseteq Nodes
  /\ rpc \in [Handlers ->
       [op : {"none", "Start", "Wait", "Poll", "Read", "Stop"},
        pc : {"idle", "clear", "recheck", "open", "bump", "loop", "bumped",
              "cancel", "check", "read"},
        gone : BOOLEAN]]
  /\ idle \in 0..Sat
  /\ watchdog \in [pc : {"asleep", "measure", "cancel", "joined", "shutdown"}, idle : 0..Sat]
  /\ starts \in 0..MaxStarts
  /\ disposed \in BOOLEAN

\* However StartRecording calls, stops, disconnections and the watchdog
\* interleave, no open descriptor is overwritten, and none stays open once
\* recording has stopped.
DescriptorsClosed == leaked = {} /\ (listening <=> DOMAIN devices # {})

\* pollReadyIndices_ names only nodes that are open in this recording and
\* still have events: it never carries an index over to another recording.
ReadyIsCurrent == ready \subseteq Readable

\* A recording nobody uses any more is stopped by the watchdog.
AbandonedRecordingStops ==
  <>[](Serving /\ \A h \in Handlers : rpc[h] = Free) => []<>~listening

=============================================================================
