----------------------------- MODULE ListenProofs -----------------------------
(***************************************************************************)
(* The safety properties of InputListen, for any handlers, nodes, batch    *)
(* size and idle timeout.                                                  *)
(***************************************************************************)
EXTENDS InputListen, TLAPS

\* A disposed listener records nothing.
ListenInv == TypeOK /\ DescriptorsClosed /\ ReadyIsCurrent /\ (disposed => ~listening)

-----------------------------------------------------------------------------
(* The operations of LocalInputListener.                                   *)

ListenerOK ==
  /\ listening \in BOOLEAN
  /\ DOMAIN devices \subseteq Nodes /\ devices \in [DOMAIN devices -> 0..MaxPending]
  /\ ready \subseteq Nodes /\ leaked \subseteq Nodes /\ disposed \in BOOLEAN
  /\ DescriptorsClosed /\ ReadyIsCurrent /\ (disposed => ~listening)

\* The invariant covers the listener's own part.
LEMMA ListenerFromInv == ListenInv => ListenerOK
BY DEF ListenInv, ListenerOK, TypeOK

\* A step that leaves the listener alone leaves its part true.
LEMMA UnchangedOK ==
  ASSUME ListenerOK, UNCHANGED listenerVars
  PROVE  ListenerOK'
BY DEF ListenerOK, listenerVars, DescriptorsClosed, ReadyIsCurrent, Readable

\* cancelListening closes every device and leaves nothing listening.
LEMMA CancelOK ==
  ASSUME ListenerOK, cancelListening, disposed' \in BOOLEAN
  PROVE  ListenerOK' /\ ~listening'
<1>1. DOMAIN NoDevices = {} /\ NoDevices \in [{} -> 0..MaxPending]
  BY DEF NoDevices
<1>2. CASE disposed
  BY Zenon, <1>2 DEF ListenerOK, cancelListening, DescriptorsClosed, ReadyIsCurrent, Readable
<1>3. CASE ~disposed
  BY Zenon, <1>1, <1>3
     DEF ListenerOK, cancelListening, closeDevices, DescriptorsClosed, ReadyIsCurrent, Readable
<1> QED
  BY <1>2, <1>3

\* Nothing is open when startListening assigns devices_, so nothing is dropped.
LEMMA StartOK ==
  ASSUME ListenerOK, NEW nodes \in SUBSET Nodes, startListening(nodes)
  PROVE  ListenerOK'
<1>1. DOMAIN devices = {} /\ ready = {} /\ leaked' = {}
  BY Zenon DEF ListenerOK, startListening, DescriptorsClosed, ReadyIsCurrent, Readable
<1>2. /\ DOMAIN devices' = nodes /\ devices' \in [nodes -> 0..MaxPending] /\ ready' = {}
      /\ listening' = TRUE /\ disposed' = FALSE
  BY <1>1, ListenAssumption DEF ListenerOK, startListening
<1> QED
  BY <1>1, <1>2 DEF ListenerOK, startListening, DescriptorsClosed, ReadyIsCurrent

\* waitForInputEventReady keeps the listener's part.
LEMMA PollOK ==
  ASSUME ListenerOK, waitForInputEventReady
  PROVE  ListenerOK'
BY DEF ListenerOK, waitForInputEventReady, DescriptorsClosed, ReadyIsCurrent, Readable

\* readInputEvents keeps the listener's part.
LEMMA ReadOK ==
  ASSUME ListenerOK, readInputEvents
  PROVE  ListenerOK'
<1>1. ASSUME NEW n \in DOMAIN devices
      PROVE  devices'[n] \in 0..MaxPending
  <2>1. devices[n] \in 0..MaxPending /\ MaxPending \in Nat /\ BatchSize \in Nat
    BY ListenAssumption DEF ListenerOK
  <2>2. (IF devices[n] > BatchSize THEN devices[n] - BatchSize ELSE 0) \in 0..MaxPending
    BY <2>1
  <2> QED
    BY <2>1, <2>2 DEF readInputEvents
<1>2. DOMAIN devices' = DOMAIN devices /\ devices' \in [DOMAIN devices -> 0..MaxPending]
  BY <1>1 DEF readInputEvents
<1>3. ReadyIsCurrent'
  <2>1. CASE listening /\ ~disposed
    BY <2>1 DEF readInputEvents, ReadyIsCurrent
  <2>2. CASE ~listening \/ disposed
    <3>1. ready = {}
      BY <2>2 DEF ListenerOK, DescriptorsClosed, ReadyIsCurrent, Readable
    <3> QED
      BY <2>2, <3>1 DEF readInputEvents, ReadyIsCurrent
  <2> QED
    BY <2>1, <2>2
<1> QED
  BY <1>2, <1>3 DEF ListenerOK, readInputEvents, DescriptorsClosed

\* Input that reaches a node keeps the listener's part.
LEMMA ArrivesOK ==
  ASSUME ListenerOK, NEW n \in Nodes, InputArrives(n)
  PROVE  ListenerOK'
<1>1. devices[n] \in Nat /\ devices[n] + 1 \in 0..MaxPending /\ n \in DOMAIN devices
  BY ListenAssumption DEF ListenerOK, InputArrives
<1>2. /\ DOMAIN devices' = DOMAIN devices /\ devices' \in [DOMAIN devices -> 0..MaxPending]
      /\ devices'[n] > 0 /\ \A m \in DOMAIN devices \ {n} : devices'[m] = devices[m]
  BY <1>1 DEF ListenerOK, InputArrives
<1>3. ReadyIsCurrent'
  BY <1>2 DEF ListenerOK, ReadyIsCurrent, Readable, InputArrives
<1> QED
  BY <1>2, <1>3 DEF ListenerOK, DescriptorsClosed, InputArrives

-----------------------------------------------------------------------------
(* The types of the handlers' places and of the clocks.                    *)

Rpcs == [op : {"none", "Start", "Wait", "Poll", "Read", "Stop"},
         pc : {"idle", "clear", "recheck", "open", "bump", "loop", "bumped",
               "cancel", "check", "read"},
         gone : BOOLEAN]

\* A handler that enters its RPC is typed.
LEMMA BeginType ==
  ASSUME rpc \in [Handlers -> Rpcs], NEW h \in Handlers,
         NEW op \in {"Start", "Wait", "Poll", "Read", "Stop"},
         NEW pc \in {"clear", "recheck", "bumped", "loop", "cancel", "check"},
         Begin(h, op, pc)
  PROVE  rpc' \in [Handlers -> Rpcs]
<1>1. [op |-> op, pc |-> pc, gone |-> FALSE] \in Rpcs
  BY DEF Rpcs
<1> QED
  BY <1>1 DEF Begin

\* A handler that moves on within its RPC is typed.
LEMMA GotoType ==
  ASSUME rpc \in [Handlers -> Rpcs], NEW h \in Handlers,
         NEW pc \in {"recheck", "open", "bump", "loop", "bumped", "check", "read"},
         Goto(h, pc)
  PROVE  rpc' \in [Handlers -> Rpcs]
<1>1. [rpc[h] EXCEPT !.pc = pc] \in Rpcs
  BY DEF Rpcs
<1> QED
  BY <1>1 DEF Goto

\* A handler that returns from its RPC is typed.
LEMMA FinishType ==
  ASSUME rpc \in [Handlers -> Rpcs], NEW h \in Handlers, Finish(h)
  PROVE  rpc' \in [Handlers -> Rpcs]
<1>1. Free \in Rpcs
  BY DEF Free, Rpcs
<1> QED
  BY <1>1 DEF Finish

Clocks ==
  /\ idle \in 0..Sat
  /\ watchdog \in [pc : {"asleep", "measure", "cancel", "joined", "shutdown"}, idle : 0..Sat]
  /\ starts \in 0..MaxStarts

\* The listener's part, the handlers' types and the clocks make the invariant.
LEMMA InvFromParts ==
  ASSUME ListenerOK, rpc \in [Handlers -> Rpcs], Clocks
  PROVE  ListenInv
BY DEF ListenInv, ListenerOK, TypeOK, Rpcs, Clocks

-----------------------------------------------------------------------------
(* Each step preserves the invariant.                                      *)

\* The start of an RPC keeps the invariant.
LEMMA CallInv ==
  ASSUME ListenInv, NEW h \in Handlers, Call(h)
  PROVE  ListenInv'
<1>1. ListenerOK /\ rpc \in [Handlers -> Rpcs] /\ Clocks
  BY DEF ListenInv, ListenerOK, TypeOK, Rpcs, Clocks
<1>2. ListenerOK'
  <2>1. UNCHANGED listenerVars
    BY DEF Call, StartCall, StopCall, WaitCall, ReadCall, WaitNotListening, listenerVars
  <2> QED
    BY <1>1, <2>1, UnchangedOK
<1>3. rpc' \in [Handlers -> Rpcs]
  BY <1>1, BeginType DEF Call, StartCall, StopCall, WaitCall, ReadCall, WaitNotListening
<1>4. Clocks'
  <2>1. MaxStarts \in Nat /\ 0 \in 0..Sat
    BY ListenAssumption DEF Sat
  <2> QED
    BY <1>1, <2>1
       DEF Clocks, Call, StartCall, StopCall, WaitCall, ReadCall, WaitNotListening,
           recordingActivityBump
<1>5. (ListenerOK /\ rpc \in [Handlers -> Rpcs] /\ Clocks => ListenInv)'
  BY DEF ListenInv, ListenerOK, TypeOK, Rpcs, Clocks
<1> QED
  BY <1>2, <1>3, <1>4, <1>5

\* A later step of an RPC keeps the invariant.
LEMMA ContinueInv ==
  ASSUME ListenInv, NEW h \in Handlers, Continue(h)
  PROVE  ListenInv'
<1>1. ListenerOK /\ rpc \in [Handlers -> Rpcs] /\ Clocks /\ rpc[h].op \in
        {"none", "Start", "Wait", "Poll", "Read", "Stop"}
  BY DEF ListenInv, ListenerOK, TypeOK, Rpcs, Clocks
<1>2. ListenerOK'
  <2>1. CASE StartClear(h) \/ WaitDisconnected(h) \/ ReadCancel(h) \/ StopCancel(h)
    <3>1. cancelListening /\ disposed' = disposed
      BY <2>1 DEF StartClear, WaitDisconnected, ReadCancel, StopCancel
    <3> QED
      BY <1>1, <3>1, CancelOK DEF ListenerOK
  <2>2. CASE StartAborted(h) \/ StartRecheck(h) \/ StartBump(h) \/ WaitLoop(h) \/ WaitDeadline(h)
             \/ ReadCheck(h)
    BY <1>1, <2>2, UnchangedOK
       DEF StartAborted, StartRecheck, StartBump, WaitLoop, WaitDeadline, ReadCheck, listenerVars
  <2>3. CASE \E nodes \in SUBSET Nodes : StartOpen(h, nodes)
    BY <1>1, <2>3, StartOK, UnchangedOK DEF StartOpen, startListeningFails
  <2>4. CASE WaitSlice(h)
    BY <1>1, <2>4, PollOK, UnchangedOK DEF WaitSlice, waitForInputEventFails
  <2>5. CASE ReadRead(h)
    BY <1>1, <2>5, ReadOK DEF ReadRead
  <2> QED
    BY <2>1, <2>2, <2>3, <2>4, <2>5 DEF Continue
<1>3. rpc' \in [Handlers -> Rpcs]
  <2>1. Finish(h) \/ \E pc \in {"recheck", "open", "bump", "loop", "bumped", "check", "read"} :
          Goto(h, pc)
    BY DEF Continue, StartClear, StartAborted, StartRecheck, StartBump, StartOpen, WaitLoop,
           WaitDisconnected, WaitDeadline, WaitSlice, ReadCancel, ReadCheck, ReadRead, StopCancel
  <2> QED
    BY <1>1, <2>1, FinishType, GotoType
<1>4. Clocks'
  <2>1. 0 \in 0..Sat
    BY ListenAssumption DEF Sat
  <2> QED
    BY <1>1, <2>1
       DEF Clocks, Continue, StartClear, StartAborted, StartRecheck, StartBump, StartOpen,
           WaitLoop, WaitDisconnected, WaitDeadline, WaitSlice, ReadCancel, ReadCheck, ReadRead,
           StopCancel, recordingActivityBump
<1>5. (ListenerOK /\ rpc \in [Handlers -> Rpcs] /\ Clocks => ListenInv)'
  BY DEF ListenInv, ListenerOK, TypeOK, Rpcs, Clocks
<1> QED
  BY <1>2, <1>3, <1>4, <1>5

\* Disconnects, input, the watchdog, time, the server's end and stutters keep the
\* invariant.
LEMMA OthersInv ==
  ASSUME ListenInv,
         \/ \E h \in Handlers : Disconnect(h)
         \/ \E n \in Nodes : InputArrives(n)
         \/ Watchdog \/ Tick \/ WatchdogJoined \/ ShutdownListener \/ dispose
         \/ UNCHANGED listenVars
  PROVE  ListenInv'
<1>1. ListenerOK /\ rpc \in [Handlers -> Rpcs] /\ Clocks
  BY DEF ListenInv, ListenerOK, TypeOK, Rpcs, Clocks
<1>2. ListenerOK'
  <2>1. CASE WatchdogCancel \/ ShutdownListener
    <3>1. cancelListening /\ disposed' = disposed
      BY <2>1 DEF WatchdogCancel, ShutdownListener
    <3> QED
      BY <1>1, <3>1, CancelOK DEF ListenerOK
  <2>2. CASE dispose
    BY <1>1, <2>2, CancelOK DEF dispose
  <2>3. CASE \E n \in Nodes : InputArrives(n)
    BY <1>1, <2>3, ArrivesOK
  <2>4. CASE UNCHANGED listenerVars
    BY <1>1, <2>4, UnchangedOK
  <2> QED
    BY <2>1, <2>2, <2>3, <2>4
       DEF Watchdog, WatchdogLoad, WatchdogMeasure, Tick, WatchdogJoined, Disconnect, listenVars,
           listenerVars
<1>3. rpc' \in [Handlers -> Rpcs]
  <2>1. CASE \E h \in Handlers : Disconnect(h)
    BY ZenonT(60), <1>1, <2>1 DEF Disconnect, Rpcs
  <2>2. CASE UNCHANGED rpc
    BY <1>1, <2>2
  <2> QED
    BY <2>1, <2>2
       DEF InputArrives, Watchdog, WatchdogLoad, WatchdogMeasure, WatchdogCancel, Tick,
           WatchdogJoined, ShutdownListener, dispose, listenVars
<1>4. Clocks'
  <2>1. /\ Sat \in Nat /\ 0 \in 0..Sat /\ (\A t \in 0..Sat : Later(t) \in 0..Sat)
        /\ Asleep \in [pc : {"asleep"}, idle : 0..Sat]
    BY ListenAssumption DEF Sat, Later, Asleep
  <2>2. idle' \in 0..Sat /\ starts' \in 0..MaxStarts
    BY <1>1, <2>1
       DEF Clocks, Disconnect, InputArrives, Watchdog, WatchdogLoad, WatchdogMeasure,
           WatchdogCancel, Tick, WatchdogJoined, ShutdownListener, dispose, listenVars
  <2>3. watchdog' \in [pc : {"asleep", "measure", "cancel", "joined", "shutdown"}, idle : 0..Sat]
    <3>1. CASE WatchdogLoad
      BY <1>1, <3>1 DEF WatchdogLoad, Clocks
    <3>2. CASE WatchdogMeasure \/ WatchdogCancel
      BY <1>1, <2>1, <3>2 DEF WatchdogMeasure, WatchdogCancel, Clocks
    <3>3. CASE Tick
      BY <1>1, <2>1, <3>3 DEF Tick, Clocks
    <3>4. CASE WatchdogJoined \/ ShutdownListener
      BY <1>1, <3>4 DEF WatchdogJoined, ShutdownListener, Clocks
    <3>5. CASE UNCHANGED watchdog
      BY <1>1, <3>5 DEF Clocks
    <3> QED
      BY <3>1, <3>2, <3>3, <3>4, <3>5 DEF Disconnect, InputArrives, Watchdog, dispose, listenVars
  <2> QED
    BY <2>2, <2>3 DEF Clocks
<1>5. (ListenerOK /\ rpc \in [Handlers -> Rpcs] /\ Clocks => ListenInv)'
  BY DEF ListenInv, ListenerOK, TypeOK, Rpcs, Clocks
<1> QED
  BY <1>2, <1>3, <1>4, <1>5

\* The invariant holds when the server starts.
LEMMA InitInv == ListenInit => ListenInv
<1> SUFFICES ASSUME ListenInit PROVE ListenInv
  OBVIOUS
<1>1. Sat \in Nat /\ 0 \in 0..Sat /\ 0 \in 0..MaxStarts
  BY ListenAssumption DEF Sat
<1>2. DOMAIN devices = {} /\ devices \in [{} -> 0..MaxPending]
  BY DEF ListenInit, NoDevices
<1>3. rpc \in [Handlers -> Rpcs]
  BY DEF ListenInit, Free, Rpcs
<1>4. Clocks
  BY <1>1 DEF ListenInit, Clocks, Asleep
<1>5. ListenerOK
  BY Zenon, <1>2 DEF ListenInit, ListenerOK, DescriptorsClosed, ReadyIsCurrent
<1> QED
  BY <1>3, <1>4, <1>5, InvFromParts

\* The invariant holds in every reachable state.
LEMMA InvHolds == ListenSpec => []ListenInv
<1>1. ListenInv /\ [ListenNext]_listenVars => ListenInv'
  BY CallInv, ContinueInv, OthersInv DEF ListenNext
<1> QED
  BY <1>1, InitInv, PTL DEF ListenSpec

-----------------------------------------------------------------------------
(* The properties.                                                         *)

\* No descriptor is overwritten, and none is open once recording has stopped.
THEOREM NothingLeaks == ListenSpec => []DescriptorsClosed
BY InvHolds, PTL DEF ListenInv

\* pollReadyIndices_ never carries a node over to another recording.
THEOREM ReadyNodes == ListenSpec => []ReadyIsCurrent
BY InvHolds, PTL DEF ListenInv

\* Every variable of the recording service keeps its type.
THEOREM ListenTypes == ListenSpec => []TypeOK
BY InvHolds, PTL DEF ListenInv
=============================================================================
