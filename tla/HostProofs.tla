------------------------------ MODULE HostProofs ------------------------------
(***************************************************************************)
(* The safety properties of HostEvrp, for any number of handlers and       *)
(* calls.                                                                  *)
(***************************************************************************)
EXTENDS HostEvrp, TLAPS

\* The worker's places by what LocalEvrp has set up there.
Clientless == {"idle", "connectRecord", "connectReplay"}
Recording == {"start", "started", "loop", "wait", "read", "stopListening", "stopRpc", "endRecord"}
Replaying == {"compose", "upload", "uploading", "play", "playing", "join", "endReplay"}

Holding(t) == pc[t] \in {"unlisten", "listenerRpc", "lockCall", "playbackRpc", "unlock"}

\* The pointers and the client exist exactly while the worker is where it set
\* them up.
PointersFollowWorker ==
  /\ active.listener <=> pc[Worker] \in Recording
  /\ active.playback <=> pc[Worker] \in Replaying
  /\ client.alive <=> pc[Worker] \notin Clientless
  /\ client.listening => pc[Worker] \in {"loop", "wait", "read", "stopListening"}

\* A stop uses a pointer only under sessionMutex_, and only while it is set.
StopsHoldMutex ==
  \A t \in Stoppers :
    /\ Holding(t) <=> mutex = t
    /\ pc[t] \in {"unlisten", "listenerRpc"} => active.listener
    /\ pc[t] \in {"lockCall", "playbackRpc"} => active.playback

\* A device that records is known to the client's listeningActive_, or somebody
\* is about to say so or to send StopRecording.
RecordingIsKnown ==
  device.listening =>
    \/ rpcLost \/ client.listening \/ pc[Worker] \in {"started", "stopRpc"}
    \/ \E t \in Stoppers : pc[t] = "listenerRpc"

ServedWaits == serving # None => pc[serving] \in {"record", "replay"}

HostInv ==
  TypeOK /\ PointersFollowWorker /\ StopsHoldMutex /\ RecordingIsKnown /\ ServedWaits

-----------------------------------------------------------------------------
(* Who moves, and who does not.                                            *)

\* The worker, the handlers and the watch are different threads.
LEMMA ThreadFacts ==
  /\ Worker \in Threads /\ Worker \notin Stoppers /\ Watch \in Stoppers /\ None \notin Threads
  /\ Handlers \subseteq Stoppers /\ Stoppers \subseteq Threads
  /\ \A t \in Threads : t \in Stoppers \/ t = Worker
  /\ Watch \notin Handlers /\ \A t \in Stoppers : t \in Handlers \/ t = Watch
BY HostAssumption DEF Threads, Stoppers

\* A step of the worker moves it alone.
LEMMA WorkerMoves ==
  ASSUME HostInv, NEW from, NEW to, Work(from, to)
  PROVE  /\ pc[Worker] = from /\ pc'[Worker] = to /\ DOMAIN pc' = Threads
         /\ \A t \in Stoppers : pc'[t] = pc[t]
BY ThreadFacts DEF HostInv, TypeOK, Work, Step

\* A step of a handler or of the watch moves that thread alone.
LEMMA StopperMoves ==
  ASSUME HostInv, NEW t \in Stoppers, NEW from, NEW to, Step(t, from, to)
  PROVE  /\ pc[t] = from /\ pc'[t] = to /\ DOMAIN pc' = Threads
         /\ pc'[Worker] = pc[Worker] /\ \A u \in Stoppers \ {t} : pc'[u] = pc[u]
BY ThreadFacts DEF HostInv, TypeOK, Step

\* Done, by a worker that serves somebody, frees both.
LEMMA DoneMoves ==
  ASSUME HostInv, pc[Worker] # "idle", Done
  PROVE  /\ pc'[Worker] = "idle" /\ DOMAIN pc' = Threads /\ serving' = None
         /\ serving \in Handlers /\ pc[serving] \in {"record", "replay"}
         /\ pc'[serving] = "idle" /\ \A u \in Stoppers \ {serving} : pc'[u] = pc[u]
         /\ cancelled' \subseteq Handlers
<1>1. serving \in Handlers /\ pc[serving] \in {"record", "replay"} /\ cancelled \subseteq Handlers
  BY DEF HostInv, TypeOK, ServedWaits
<1> QED
  BY <1>1, ThreadFacts DEF HostInv, TypeOK, Done

-----------------------------------------------------------------------------
(* Each step preserves the invariant.                                      *)

WorkerPlaces == Clientless \cup Recording \cup Replaying \cup
                {"clearStop", "setRecording", "setListener", "setReplaying", "setPlayback", "destroy"}

FlagType == [recording : BOOLEAN, replaying : BOOLEAN, stop : BOOLEAN]

\* A move of the worker within a region, which changes no more than the flags.
LEMMA WorkerPlain ==
  ASSUME HostInv, NEW from, NEW to, Work(from, to),
         from # "idle", to # "idle", to \in WorkerPlaces,
         from \in Recording <=> to \in Recording,
         from \in Replaying <=> to \in Replaying,
         from \in Clientless <=> to \in Clientless,
         client.listening => to \in {"loop", "wait", "read", "stopListening"},
         from \notin {"started", "stopRpc"},
         flags' \in FlagType,
         UNCHANGED <<serving, cancelled, active, mutex, client, device, rpcLost, calls>>
  PROVE  HostInv'
<1>1. /\ pc[Worker] = from /\ pc'[Worker] = to /\ DOMAIN pc' = Threads
      /\ \A t \in Stoppers : pc'[t] = pc[t]
  BY WorkerMoves
<1>2. TypeOK'
  BY <1>1, ThreadFacts DEF HostInv, TypeOK, WorkerPlaces, Clientless, Recording, Replaying, FlagType
<1>3. PointersFollowWorker'
  BY <1>1 DEF HostInv, PointersFollowWorker
<1>4. StopsHoldMutex'
  BY <1>1 DEF HostInv, StopsHoldMutex, Holding
<1>5. RecordingIsKnown'
  BY <1>1 DEF HostInv, RecordingIsKnown
<1>6. ServedWaits'
  BY <1>1, ThreadFacts DEF HostInv, TypeOK, ServedWaits
<1> QED
  BY <1>2, <1>3, <1>4, <1>5, <1>6 DEF HostInv

\* The worker's steps that touch neither client nor pointers keep the invariant.
LEMMA WorkerPlainSteps ==
  ASSUME HostInv,
         \/ RecordClearStop \/ RecordSetRecording \/ RecordLoop \/ RecordInterrupted
         \/ RecordWait \/ RecordRead \/ ReplaySetReplaying \/ ReplayCompose \/ ReplayPlayed
         \/ ReplayJoin
  PROVE  HostInv'
<1> USE DEF Recording, Replaying, Clientless, WorkerPlaces
<1>1. flags \in FlagType
  BY DEF HostInv, TypeOK, FlagType
<1>2. client.listening => pc[Worker] \in {"loop", "wait", "read", "stopListening"}
  BY DEF HostInv, PointersFollowWorker
<1>3. CASE RecordClearStop \/ RecordSetRecording \/ ReplaySetReplaying
  <2>1. flags' \in FlagType
    BY Zenon, <1>1, <1>3 DEF RecordClearStop, RecordSetRecording, ReplaySetReplaying, FlagType
  <2> QED
    BY <1>2, <1>3, <2>1, WorkerPlain
       DEF RecordClearStop, RecordSetRecording, ReplaySetReplaying, Work, Step
<1>4. CASE RecordLoop \/ RecordInterrupted \/ RecordWait \/ RecordRead
  BY <1>1, <1>4, WorkerPlain DEF RecordLoop, RecordInterrupted, RecordWait, RecordRead
<1>5. CASE ReplayCompose \/ ReplayPlayed \/ ReplayJoin
  BY <1>1, <1>2, <1>5, WorkerPlain DEF ReplayCompose, ReplayPlayed, ReplayJoin, Work, Step
<1> QED
  BY <1>3, <1>4, <1>5

\* The worker that takes a posted operation keeps the invariant.
LEMMA TakeInv ==
  ASSUME HostInv, NEW h \in Handlers,
         Take(h, "record", "connectRecord") \/ Take(h, "replay", "connectReplay")
  PROVE  HostInv'
<1>1. /\ pc[Worker] = "idle" /\ pc'[Worker] \in {"connectRecord", "connectReplay"}
      /\ DOMAIN pc' = Threads /\ \A t \in Stoppers : pc'[t] = pc[t]
  BY WorkerMoves DEF Take
<1>2. /\ pc[h] \in {"record", "replay"} /\ serving' = h
      /\ UNCHANGED <<cancelled, flags, active, mutex, client, device, rpcLost, calls>>
  BY DEF Take
<1>3. TypeOK'
  BY <1>1, <1>2, ThreadFacts, HostAssumption DEF HostInv, TypeOK
<1>4. PointersFollowWorker' /\ RecordingIsKnown'
  BY <1>1, <1>2 DEF HostInv, PointersFollowWorker, RecordingIsKnown, Recording, Replaying, Clientless
<1>5. StopsHoldMutex' /\ ServedWaits'
  BY <1>1, <1>2, ThreadFacts DEF HostInv, StopsHoldMutex, Holding, ServedWaits
<1> QED
  BY <1>3, <1>4, <1>5 DEF HostInv

\* The client and its members.
ClientType == [alive : BOOLEAN, listening : BOOLEAN, callMu : Threads \cup {None}]

\* The worker that connects to the device keeps the invariant.
LEMMA ConnectInv ==
  ASSUME HostInv,
         Connect("connectRecord", "clearStop") \/ Connect("connectReplay", "setReplaying")
  PROVE  HostInv'
<1>1. /\ pc[Worker] \in {"connectRecord", "connectReplay"}
      /\ pc'[Worker] \in {"clearStop", "setReplaying"}
      /\ DOMAIN pc' = Threads /\ \A t \in Stoppers : pc'[t] = pc[t]
  BY WorkerMoves DEF Connect
<1>2. /\ client' = [NoClient EXCEPT !.alive = TRUE]
      /\ UNCHANGED <<serving, cancelled, flags, active, mutex, device, rpcLost, calls>>
  BY DEF Connect
<1>3. client' \in ClientType /\ client'.alive /\ ~client'.listening
  BY Zenon, <1>2 DEF NoClient, ClientType
<1>4. TypeOK'
  BY <1>1, <1>2, <1>3, ThreadFacts DEF HostInv, TypeOK, ClientType
<1>5. PointersFollowWorker' /\ RecordingIsKnown'
  BY <1>1, <1>2, <1>3
     DEF HostInv, PointersFollowWorker, RecordingIsKnown, Recording, Replaying, Clientless
<1>6. StopsHoldMutex' /\ ServedWaits'
  BY <1>1, <1>2, ThreadFacts DEF HostInv, TypeOK, StopsHoldMutex, Holding, ServedWaits
<1> QED
  BY <1>4, <1>5, <1>6 DEF HostInv

\* A failed connection, and the destruction of the client, keep the invariant.
LEMMA AnswerInv ==
  ASSUME HostInv, ConnectFails \/ DestroyClient
  PROVE  HostInv'
<1>1. /\ pc[Worker] \in {"connectRecord", "connectReplay", "destroy"} /\ Done
      /\ UNCHANGED <<flags, active, mutex, device, rpcLost, calls>>
  BY DEF ConnectFails, DestroyClient
<1>2. /\ pc'[Worker] = "idle" /\ DOMAIN pc' = Threads /\ serving' = None
      /\ serving \in Handlers /\ pc[serving] \in {"record", "replay"}
      /\ pc'[serving] = "idle" /\ \A u \in Stoppers \ {serving} : pc'[u] = pc[u]
      /\ cancelled' \subseteq Handlers
  BY <1>1, DoneMoves
<1>3. client' \in ClientType /\ ~client'.alive /\ ~client'.listening
  <2>1. CASE ConnectFails
    BY <2>1 DEF ConnectFails, ClientType, HostInv, TypeOK, PointersFollowWorker, Clientless
  <2>2. CASE DestroyClient
    BY <2>2 DEF DestroyClient, NoClient, ClientType
  <2> QED
    BY <2>1, <2>2
<1>4. TypeOK'
  BY <1>1, <1>2, <1>3, ThreadFacts DEF HostInv, TypeOK, ClientType
<1>5. PointersFollowWorker'
  BY <1>1, <1>2, <1>3 DEF HostInv, PointersFollowWorker, Recording, Replaying, Clientless
<1>6. StopsHoldMutex'
  BY <1>1, <1>2, ThreadFacts DEF HostInv, StopsHoldMutex, Holding
<1>7. RecordingIsKnown'
  <2>1. ~client.listening /\ pc[Worker] \notin {"started", "stopRpc"}
    BY <1>1 DEF HostInv, PointersFollowWorker
  <2> QED
    BY <1>1, <1>2, <2>1 DEF HostInv, RecordingIsKnown
<1> QED
  BY <1>2, <1>4, <1>5, <1>6, <1>7 DEF HostInv, ServedWaits

\* Setting and clearing the stop pointers under their mutex keeps the invariant.
LEMMA PointerInv ==
  ASSUME HostInv, RecordSetListener \/ EndRecording \/ EndReplay
  PROVE  HostInv'
<1>1. /\ pc[Worker] \in {"setListener", "endRecord", "endReplay"} /\ pc'[Worker] \in {"start", "destroy"}
      /\ DOMAIN pc' = Threads /\ \A t \in Stoppers : pc'[t] = pc[t]
  BY WorkerMoves DEF RecordSetListener, EndRecording, EndReplay
<1>2. /\ mutex = None
      /\ UNCHANGED <<serving, cancelled, mutex, client, device, rpcLost, calls>>
  BY DEF RecordSetListener, EndRecording, EndReplay
<1>3. flags' \in FlagType
  <2>1. flags \in FlagType
    BY DEF HostInv, TypeOK, FlagType
  <2> QED
    BY Zenon, <2>1 DEF RecordSetListener, EndRecording, EndReplay, FlagType
<1>4. /\ active' \in [listener : BOOLEAN, playback : BOOLEAN]
      /\ active'.listener <=> pc'[Worker] \in Recording
      /\ active'.playback <=> pc'[Worker] \in Replaying
  <2>1. /\ active \in [listener : BOOLEAN, playback : BOOLEAN]
        /\ active.listener <=> pc[Worker] \in Recording
        /\ active.playback <=> pc[Worker] \in Replaying
    BY DEF HostInv, TypeOK, PointersFollowWorker
  <2>2. CASE RecordSetListener
    <3>1. pc[Worker] = "setListener" /\ pc'[Worker] = "start"
      BY <2>2, WorkerMoves DEF RecordSetListener
    <3> QED
      BY Zenon, <2>1, <2>2, <3>1 DEF RecordSetListener, Recording, Replaying
  <2>3. CASE EndRecording
    <3>1. pc[Worker] = "endRecord" /\ pc'[Worker] = "destroy"
      BY <2>3, WorkerMoves DEF EndRecording
    <3> QED
      BY Zenon, <2>1, <2>3, <3>1 DEF EndRecording, Recording, Replaying
  <2>4. CASE EndReplay
    <3>1. pc[Worker] = "endReplay" /\ pc'[Worker] = "destroy"
      BY <2>4, WorkerMoves DEF EndReplay
    <3> QED
      BY Zenon, <2>1, <2>4, <3>1 DEF EndReplay, Recording, Replaying
  <2> QED
    BY <2>2, <2>3, <2>4
<1>5. TypeOK'
  BY <1>1, <1>2, <1>3, <1>4, ThreadFacts DEF HostInv, TypeOK, FlagType
<1>6. PointersFollowWorker' /\ RecordingIsKnown'
  BY <1>1, <1>2, <1>4
     DEF HostInv, PointersFollowWorker, RecordingIsKnown, Clientless
\* Whoever holds a pointer holds the mutex, and nobody does.
<1>7. StopsHoldMutex'
  BY <1>1, <1>2, ThreadFacts DEF HostInv, StopsHoldMutex, Holding
<1>8. ServedWaits'
  BY <1>1, <1>2, ThreadFacts DEF HostInv, TypeOK, ServedWaits
<1> QED
  BY <1>5, <1>6, <1>7, <1>8 DEF HostInv

\* The steps of Record::run that start and stop the device's recording.
LEMMA RecordRpcInv ==
  ASSUME HostInv,
         RecordStartFails \/ RecordStart \/ RecordStarted \/ RecordStopListening \/ RecordStopRpc
  PROVE  HostInv'
<1>1. /\ pc[Worker] \in Recording /\ pc'[Worker] \in Recording
      /\ DOMAIN pc' = Threads /\ \A t \in Stoppers : pc'[t] = pc[t]
  <2>1. CASE RecordStopListening
    BY <2>1, ThreadFacts DEF RecordStopListening, Unlisten, Recording, HostInv, TypeOK
  <2>2. CASE RecordStartFails \/ RecordStart \/ RecordStarted \/ RecordStopRpc
    BY <2>2, WorkerMoves DEF RecordStartFails, RecordStart, RecordStarted, RecordStopRpc, Recording
  <2> QED
    BY <2>1, <2>2
<1>2. UNCHANGED <<serving, cancelled, flags, active, mutex, calls>>
  BY DEF RecordStartFails, RecordStart, RecordStarted, RecordStopListening, RecordStopRpc
<1>3. /\ client \in ClientType /\ device \in [listening : BOOLEAN, playing : BOOLEAN]
      /\ rpcLost \in BOOLEAN /\ client.alive
  BY <1>1 DEF HostInv, TypeOK, ClientType, PointersFollowWorker, Recording, Clientless
<1>4. /\ client' \in ClientType /\ client'.alive
      /\ client'.listening => pc'[Worker] \in {"loop", "wait", "read", "stopListening"}
  <2>1. CASE RecordStarted
    <3>1. pc'[Worker] \in {"loop", "stopListening"}
      BY <2>1, WorkerMoves DEF RecordStarted
    <3> QED
      BY Zenon, <1>3, <2>1, <3>1 DEF RecordStarted, ClientType
  <2>2. CASE RecordStopListening
    BY Zenon, <1>3, <2>2 DEF RecordStopListening, Unlisten, ClientType
  <2>3. CASE RecordStartFails \/ RecordStart \/ RecordStopRpc
    <3>1. pc[Worker] \in {"start", "stopRpc"} /\ client' = client
      BY <2>3, WorkerMoves DEF RecordStartFails, RecordStart, RecordStopRpc
    <3> QED
      BY <1>3, <3>1 DEF HostInv, PointersFollowWorker
  <2> QED
    BY <2>1, <2>2, <2>3
<1>5. device' \in [listening : BOOLEAN, playing : BOOLEAN] /\ rpcLost' \in BOOLEAN
  <2>1. CASE RecordStartFails \/ RecordStart
    BY Zenon, <1>3, <2>1 DEF RecordStartFails, RecordStart
  <2>2. CASE RecordStarted \/ RecordStopListening
    BY <1>3, <2>2 DEF RecordStarted, RecordStopListening
  <2>3. CASE RecordStopRpc
    BY Zenon, <1>3, <2>3 DEF RecordStopRpc, StopRpc
  <2> QED
    BY <2>1, <2>2, <2>3
<1>6. TypeOK'
  BY <1>1, <1>2, <1>4, <1>5, ThreadFacts DEF HostInv, TypeOK, ClientType, Recording
<1>7. PointersFollowWorker'
  <2>1. pc'[Worker] \notin Replaying \cup Clientless /\ pc[Worker] \notin Replaying
    BY <1>1 DEF Recording, Replaying, Clientless
  <2> QED
    BY <1>1, <1>2, <1>4, <2>1 DEF HostInv, PointersFollowWorker
<1>8. StopsHoldMutex' /\ ServedWaits'
  BY <1>1, <1>2, ThreadFacts DEF HostInv, TypeOK, StopsHoldMutex, Holding, ServedWaits, Recording
<1>9. RecordingIsKnown'
  <2>1. CASE RecordStartFails
    <3>1. pc[Worker] = "start" /\ client' = client
      BY <2>1, WorkerMoves DEF RecordStartFails
    <3> QED
      BY <1>1, <2>1, <3>1 DEF RecordStartFails, HostInv, RecordingIsKnown
  <2>2. CASE RecordStart
    <3>1. pc'[Worker] = "started"
      BY <2>2, WorkerMoves DEF RecordStart
    <3> QED
      BY <3>1 DEF RecordingIsKnown
  <2>3. CASE RecordStarted
    BY <1>3, <2>3 DEF RecordStarted, RecordingIsKnown, ClientType
  <2>4. CASE RecordStopListening
    <3>1. client.listening => pc'[Worker] = "stopRpc"
      BY <2>4, ThreadFacts DEF RecordStopListening, Unlisten, HostInv, TypeOK
    <3> QED
      BY <1>1, <2>4, <3>1 DEF RecordStopListening, HostInv, RecordingIsKnown
  <2>5. CASE RecordStopRpc
    <3>1. \/ ~device'.listening
          \/ rpcLost'
      BY <1>3, <2>5 DEF RecordStopRpc, StopRpc
    <3> QED
      BY <3>1 DEF RecordingIsKnown
  <2> QED
    BY <2>1, <2>2, <2>3, <2>4, <2>5
<1> QED
  BY <1>6, <1>7, <1>8, <1>9 DEF HostInv

\* The steps of Playback::run that hold callMu_ or start the device's playback.
LEMMA ReplayRpcInv ==
  ASSUME HostInv, ReplayUpload \/ ReplayUploaded \/ ReplayPlay
  PROVE  HostInv'
<1>1. /\ pc[Worker] \in Replaying /\ pc'[Worker] \in Replaying
      /\ DOMAIN pc' = Threads /\ \A t \in Stoppers : pc'[t] = pc[t]
  BY WorkerMoves DEF ReplayUpload, ReplayUploaded, ReplayPlay, Replaying
<1>2. UNCHANGED <<serving, cancelled, flags, active, mutex, rpcLost, calls>>
  BY DEF ReplayUpload, ReplayUploaded, ReplayPlay
<1>3. client \in ClientType /\ device \in [listening : BOOLEAN, playing : BOOLEAN]
  BY DEF HostInv, TypeOK, ClientType
<1>4. /\ client' \in ClientType
      /\ client'.alive = client.alive /\ client'.listening = client.listening
  BY <1>3, ThreadFacts DEF ReplayUpload, ReplayUploaded, ReplayPlay, ClientType
<1>5. /\ device' \in [listening : BOOLEAN, playing : BOOLEAN]
      /\ device'.listening = device.listening
  <2>1. CASE ReplayPlay
    BY Zenon, <1>3, <2>1 DEF ReplayPlay
  <2>2. CASE ReplayUpload \/ ReplayUploaded
    BY <1>3, <2>2 DEF ReplayUpload, ReplayUploaded
  <2> QED
    BY <2>1, <2>2
<1>6. TypeOK'
  BY <1>1, <1>2, <1>4, <1>5, ThreadFacts DEF HostInv, TypeOK, ClientType, Replaying
<1>7. PointersFollowWorker' /\ RecordingIsKnown'
  <2>1. /\ pc[Worker] \notin {"loop", "wait", "read", "stopListening", "started", "stopRpc"}
        /\ pc[Worker] \notin Recording \cup Clientless /\ pc'[Worker] \notin Recording \cup Clientless
    BY <1>1 DEF Replaying, Recording, Clientless
  <2> QED
    BY <1>1, <1>2, <1>4, <1>5, <2>1 DEF HostInv, PointersFollowWorker, RecordingIsKnown
<1>8. StopsHoldMutex' /\ ServedWaits'
  BY <1>1, <1>2, ThreadFacts DEF HostInv, TypeOK, StopsHoldMutex, Holding, ServedWaits, Replaying
<1> QED
  BY <1>6, <1>7, <1>8 DEF HostInv

\* The mutex is free, so the watch thread that starts is not inside a stop.
LEMMA SetPlaybackInv ==
  ASSUME HostInv, ReplaySetPlayback
  PROVE  HostInv'
<1>1. /\ pc[Worker] = "setPlayback" /\ pc'[Worker] = "compose" /\ pc'[Watch] = "watching"
      /\ DOMAIN pc' = Threads /\ \A t \in Stoppers \ {Watch} : pc'[t] = pc[t]
  BY ThreadFacts DEF ReplaySetPlayback, HostInv, TypeOK
<1>2. /\ mutex = None
      /\ UNCHANGED <<serving, cancelled, flags, mutex, client, device, rpcLost, calls>>
  BY DEF ReplaySetPlayback
<1>3. /\ active' \in [listener : BOOLEAN, playback : BOOLEAN]
      /\ active'.playback /\ active'.listener = active.listener
  BY Zenon DEF ReplaySetPlayback, HostInv, TypeOK
<1>4. TypeOK'
  BY <1>1, <1>2, <1>3, ThreadFacts DEF HostInv, TypeOK
<1>5. PointersFollowWorker'
  BY <1>1, <1>2, <1>3 DEF HostInv, PointersFollowWorker, Recording, Replaying, Clientless
<1>6. StopsHoldMutex'
  BY <1>1, <1>2, <1>3, ThreadFacts DEF HostInv, StopsHoldMutex, Holding
<1>7. RecordingIsKnown'
  BY <1>1, <1>2, ThreadFacts DEF HostInv, TypeOK, RecordingIsKnown
<1>8. ServedWaits'
  BY <1>1, <1>2, ThreadFacts DEF HostInv, TypeOK, ServedWaits
<1> QED
  BY <1>4, <1>5, <1>6, <1>7, <1>8 DEF HostInv

-----------------------------------------------------------------------------
(* The handlers and the watch thread.                                      *)

StopperPlaces == {"idle", "record", "replay", "lockListener", "unlisten", "listenerRpc",
                  "lockPlayback", "lockCall", "playbackRpc", "unlock"}
WatchPlaces == {"idle", "watching", "lockPlayback", "lockCall", "playbackRpc", "unlock"}

\* A move outside sessionMutex_.
LEMMA StopperPlain ==
  ASSUME HostInv, NEW t \in Stoppers, NEW from, NEW to, Step(t, from, to),
         ~Holding(t), from \notin {"record", "replay"},
         to \notin {"unlisten", "listenerRpc", "lockCall", "playbackRpc", "unlock"},
         IF t = Watch THEN to \in WatchPlaces ELSE to \in StopperPlaces,
         flags' \in FlagType, calls' \in 0..MaxCalls,
         UNCHANGED <<serving, cancelled, active, mutex, client, device, rpcLost>>
  PROVE  HostInv'
<1>1. /\ pc[t] = from /\ pc'[t] = to /\ DOMAIN pc' = Threads
      /\ pc'[Worker] = pc[Worker] /\ \A u \in Stoppers \ {t} : pc'[u] = pc[u]
  BY StopperMoves
<1>2. TypeOK'
  BY SMTT(30), <1>1, ThreadFacts DEF HostInv, TypeOK, FlagType, WatchPlaces, StopperPlaces
<1>3. PointersFollowWorker'
  BY <1>1 DEF HostInv, PointersFollowWorker
<1>4. StopsHoldMutex'
  BY <1>1 DEF HostInv, StopsHoldMutex, Holding
<1>5. RecordingIsKnown'
  BY <1>1 DEF HostInv, RecordingIsKnown, Holding
<1>6. ServedWaits'
  BY SMTT(30), <1>1, ThreadFacts DEF HostInv, TypeOK, ServedWaits
<1> QED
  BY <1>2, <1>3, <1>4, <1>5, <1>6 DEF HostInv

\* A handler that posts an operation, or begins to stop one, keeps the invariant.
LEMMA CallInv ==
  ASSUME HostInv, NEW h \in Handlers,
         Post(h, "record") \/ Post(h, "replay") \/ StopRecordingFlag(h) \/ StopReplayCall(h)
  PROVE  HostInv'
<1>1. PICK to \in {"record", "replay", "lockListener", "lockPlayback"} :
        Step(h, "idle", to) /\ calls < MaxCalls /\ calls' = calls + 1
  BY DEF Post, StopRecordingFlag, StopReplayCall, Call
<1>2. UNCHANGED <<serving, cancelled, active, mutex, client, device, rpcLost>>
  BY DEF Post, StopRecordingFlag, StopReplayCall
<1>3. flags' \in FlagType
  <2>1. flags \in FlagType
    BY DEF HostInv, TypeOK, FlagType
  <2> QED
    BY Zenon, <2>1 DEF Post, StopRecordingFlag, StopReplayCall, FlagType
<1>4. calls' \in 0..MaxCalls
  BY <1>1, HostAssumption DEF HostInv, TypeOK
<1>5. h \in Stoppers /\ h # Watch /\ ~Holding(h)
  BY <1>1, ThreadFacts DEF Step, Holding
<1>6. to \in StopperPlaces /\ to \notin {"unlisten", "listenerRpc", "lockCall", "playbackRpc", "unlock"}
  BY DEF StopperPlaces
<1> QED
  BY <1>1, <1>2, <1>3, <1>4, <1>5, <1>6, StopperPlain

\* The watch that sees a cancelled call, or the end of its own, keeps the invariant.
LEMMA WatchInv ==
  ASSUME HostInv, WatchStep
  PROVE  HostInv'
<1>1. PICK to \in {"lockPlayback", "idle"} : Step(Watch, "watching", to)
  BY DEF WatchStep, WatchCancelled, WatchDone
<1>2. UNCHANGED <<serving, cancelled, flags, active, mutex, client, device, rpcLost, calls>>
  BY DEF WatchStep, WatchCancelled, WatchDone
<1>3. flags' \in FlagType /\ calls' \in 0..MaxCalls
  BY <1>2 DEF HostInv, TypeOK, FlagType
<1>4. Watch \in Stoppers /\ ~Holding(Watch) /\ to \in WatchPlaces
  BY <1>1, ThreadFacts DEF Step, Holding, WatchPlaces
<1> QED
  BY <1>1, <1>2, <1>3, <1>4, StopperPlain

\* A caller's cancellation, the device's end and stutters keep the invariant.
LEMMA QuietInv ==
  ASSUME HostInv, (\E h \in Handlers : CallerCancels(h)) \/ DeviceEnd \/ UNCHANGED hostVars
  PROVE  HostInv'
<1>1. UNCHANGED <<pc, serving, flags, active, mutex, client, rpcLost, calls>>
  BY DEF CallerCancels, DeviceEnd, hostVars
<1>2. cancelled' \subseteq Handlers
  BY DEF CallerCancels, DeviceEnd, hostVars, HostInv, TypeOK
<1>3. /\ device' \in [listening : BOOLEAN, playing : BOOLEAN]
      /\ device'.listening = device.listening
  <2>1. device \in [listening : BOOLEAN, playing : BOOLEAN]
    BY DEF HostInv, TypeOK
  <2>2. CASE DeviceEnd
    BY Zenon, <2>1, <2>2 DEF DeviceEnd
  <2>3. CASE ~DeviceEnd
    BY <2>1, <2>3 DEF CallerCancels, hostVars
  <2> QED
    BY <2>2, <2>3
<1>4. TypeOK'
  BY <1>1, <1>2, <1>3 DEF HostInv, TypeOK
<1> QED
  BY <1>1, <1>3, <1>4
     DEF HostInv, PointersFollowWorker, StopsHoldMutex, Holding, RecordingIsKnown, ServedWaits

\* A step of a stop that takes, keeps or releases sessionMutex_: what remains
\* to show is what it does to the client and to the device.
LEMMA StopperHeld ==
  ASSUME HostInv, NEW t \in Stoppers,
         DOMAIN pc' = Threads, pc'[Worker] = pc[Worker],
         \A u \in Stoppers \ {t} : pc'[u] = pc[u],
         pc[t] \notin {"record", "replay"},
         IF t = Watch THEN pc'[t] \in WatchPlaces ELSE pc'[t] \in StopperPlaces,
         mutex \in {None, t}, mutex' \in {None, t}, Holding(t)' <=> mutex' = t,
         pc'[t] \in {"unlisten", "listenerRpc"} => active.listener,
         pc'[t] \in {"lockCall", "playbackRpc"} => active.playback,
         client' \in ClientType, client'.alive = client.alive,
         client'.listening => client.listening,
         device' \in [listening : BOOLEAN, playing : BOOLEAN], rpcLost' \in BOOLEAN,
         RecordingIsKnown',
         UNCHANGED <<serving, cancelled, flags, active, calls>>
  PROVE  HostInv'
<1>1. TypeOK'
  BY SMTT(30), ThreadFacts DEF HostInv, TypeOK, ClientType, WatchPlaces, StopperPlaces
<1>2. PointersFollowWorker'
  BY SMTT(30) DEF HostInv, PointersFollowWorker
<1>3. StopsHoldMutex'
  BY SMTT(30), ThreadFacts DEF HostInv, StopsHoldMutex, Holding
<1>4. ServedWaits'
  BY ThreadFacts DEF HostInv, TypeOK, ServedWaits
<1> QED
  BY <1>1, <1>2, <1>3, <1>4 DEF HostInv

\* The steps of a stop of the recording, under the mutex, keep the invariant.
LEMMA StopRecordingInv ==
  ASSUME HostInv, NEW t \in Stoppers,
         StopRecordingLock(t) \/ StopRecordingUnlisten(t) \/ StopRecordingRpc(t)
  PROVE  HostInv'
<1> USE DEF WatchPlaces, StopperPlaces
<1>1. /\ client \in ClientType /\ device \in [listening : BOOLEAN, playing : BOOLEAN]
      /\ rpcLost \in BOOLEAN /\ active.listener \in BOOLEAN
  BY DEF HostInv, TypeOK, ClientType
<1>2. t # Watch
  BY ThreadFacts DEF HostInv, TypeOK, StopRecordingLock, StopRecordingUnlisten, StopRecordingRpc, Step
<1>3. Holding(t) => mutex = t
  BY DEF HostInv, StopsHoldMutex
<1>4. CASE StopRecordingLock(t)
  <2>1. /\ pc[t] = "lockListener" /\ DOMAIN pc' = Threads /\ pc'[Worker] = pc[Worker]
        /\ \A u \in Stoppers \ {t} : pc'[u] = pc[u]
        /\ mutex = None
        /\ \/ pc'[t] = "idle" /\ mutex' = None
           \/ active.listener /\ pc'[t] = "unlisten" /\ mutex' = t
    BY SMTT(30), <1>4, StopperMoves DEF StopRecordingLock
  <2>2. UNCHANGED <<serving, cancelled, flags, active, client, device, rpcLost, calls>>
    BY <1>4 DEF StopRecordingLock
  <2>3. Holding(t)' <=> mutex' = t
    BY <2>1, ThreadFacts DEF Holding
  <2>4. RecordingIsKnown'
    BY <2>1, <2>2 DEF HostInv, RecordingIsKnown
  <2> QED
    BY SMTT(30), <1>1, <1>2, <2>1, <2>2, <2>3, <2>4, StopperHeld
<1>5. CASE StopRecordingUnlisten(t)
  <2>1. /\ pc[t] = "unlisten" /\ DOMAIN pc' = Threads /\ pc'[Worker] = pc[Worker]
        /\ \A u \in Stoppers \ {t} : pc'[u] = pc[u]
        /\ pc'[t] = IF client.listening THEN "listenerRpc" ELSE "unlock"
    BY <1>5, ThreadFacts DEF StopRecordingUnlisten, Unlisten, HostInv, TypeOK
  <2>2. UNCHANGED <<serving, cancelled, flags, active, mutex, device, rpcLost, calls>>
    BY <1>5 DEF StopRecordingUnlisten
  <2>3. /\ client' \in ClientType /\ client'.alive = client.alive /\ ~client'.listening
    BY Zenon, <1>1, <1>5 DEF StopRecordingUnlisten, Unlisten, ClientType
  <2>4. mutex = t /\ active.listener /\ (Holding(t)' <=> mutex' = t)
    BY <1>3, <2>1, <2>2 DEF Holding, HostInv, StopsHoldMutex
  <2>5. RecordingIsKnown'
    BY <2>1, <2>2 DEF HostInv, RecordingIsKnown
  <2> QED
    BY SMTT(30), <1>1, <1>2, <2>1, <2>2, <2>3, <2>4, <2>5, StopperHeld
<1>6. CASE StopRecordingRpc(t)
  <2>1. /\ pc[t] = "listenerRpc" /\ DOMAIN pc' = Threads /\ pc'[Worker] = pc[Worker]
        /\ \A u \in Stoppers \ {t} : pc'[u] = pc[u]
        /\ pc'[t] = "unlock"
    BY <1>6, StopperMoves DEF StopRecordingRpc
  <2>2. UNCHANGED <<serving, cancelled, flags, active, mutex, client, calls>>
    BY <1>6 DEF StopRecordingRpc
  <2>3. /\ device' \in [listening : BOOLEAN, playing : BOOLEAN] /\ rpcLost' \in BOOLEAN
        /\ ~device'.listening \/ rpcLost'
    BY Zenon, <1>1, <1>6 DEF StopRecordingRpc, StopRpc
  <2>4. mutex = t /\ (Holding(t)' <=> mutex' = t)
    BY <1>3, <2>1, <2>2 DEF Holding
  <2>5. RecordingIsKnown'
    BY <2>3 DEF RecordingIsKnown
  <2> QED
    BY SMTT(30), <1>1, <1>2, <2>1, <2>2, <2>3, <2>4, <2>5, StopperHeld
<1> QED
  BY <1>4, <1>5, <1>6

\* The steps of a stop of the replay, under the mutexes, keep the invariant.
LEMMA StopReplayInv ==
  ASSUME HostInv, NEW t \in Stoppers,
         StopReplayLock(t) \/ StopReplayLockCall(t) \/ StopReplayRpc(t) \/ Unlock(t)
  PROVE  HostInv'
<1>1. /\ client \in ClientType /\ device \in [listening : BOOLEAN, playing : BOOLEAN]
      /\ rpcLost \in BOOLEAN /\ t \in Threads
  BY ThreadFacts DEF HostInv, TypeOK, ClientType
<1>2. Holding(t) => mutex = t
  BY DEF HostInv, StopsHoldMutex
<1>3. /\ pc[t] \in {"lockPlayback", "lockCall", "playbackRpc", "unlock"}
      /\ pc'[t] \in {"idle", "lockCall", "playbackRpc", "unlock"}
      /\ DOMAIN pc' = Threads /\ pc'[Worker] = pc[Worker]
      /\ \A u \in Stoppers \ {t} : pc'[u] = pc[u]
  BY StopperMoves DEF StopReplayLock, StopReplayLockCall, StopReplayRpc, Unlock
<1>4. UNCHANGED <<serving, cancelled, flags, active, device, rpcLost, calls>>
  BY DEF StopReplayLock, StopReplayLockCall, StopReplayRpc, Unlock
<1>5. /\ client' \in ClientType
      /\ client'.alive = client.alive /\ client'.listening = client.listening
  BY <1>1 DEF StopReplayLock, StopReplayLockCall, StopReplayRpc, Unlock, ClientType
<1>6. /\ mutex \in {None, t} /\ mutex' \in {None, t} /\ (Holding(t)' <=> mutex' = t)
      /\ pc'[t] \in {"lockCall", "playbackRpc"} => active.playback
  <2>1. CASE StopReplayLock(t)
    <3>1. /\ mutex = None
          /\ \/ pc'[t] = "idle" /\ mutex' = None
             \/ active.playback /\ pc'[t] = "lockCall" /\ mutex' = t
      BY <2>1, StopperMoves DEF StopReplayLock
    <3> QED
      BY <3>1, ThreadFacts DEF Holding
  <2>2. CASE StopReplayLockCall(t) \/ StopReplayRpc(t)
    <3>1. /\ pc[t] \in {"lockCall", "playbackRpc"} /\ pc'[t] \in {"playbackRpc", "unlock"}
          /\ mutex' = mutex
      BY <2>2, StopperMoves DEF StopReplayLockCall, StopReplayRpc
    <3> QED
      BY <1>2, <3>1 DEF Holding, HostInv, StopsHoldMutex
  <2>3. CASE Unlock(t)
    <3>1. pc[t] = "unlock" /\ pc'[t] = "idle" /\ mutex' = None
      BY <2>3, StopperMoves DEF Unlock
    <3> QED
      BY SMTT(30), <1>2, <3>1, ThreadFacts DEF Holding
  <2> QED
    BY <2>1, <2>2, <2>3
<1>7. RecordingIsKnown'
  BY <1>3, <1>4, <1>5 DEF HostInv, RecordingIsKnown
<1>8. IF t = Watch THEN pc'[t] \in WatchPlaces ELSE pc'[t] \in StopperPlaces
  BY <1>3 DEF WatchPlaces, StopperPlaces
<1> QED
  BY SMTT(30), <1>1, <1>3, <1>4, <1>5, <1>6, <1>7, <1>8, StopperHeld

-----------------------------------------------------------------------------

\* The invariant holds before the first operation.
LEMMA InitInv == HostInit => HostInv
<1> SUFFICES ASSUME HostInit PROVE HostInv
  OBVIOUS
<1>1. DOMAIN pc = Threads /\ \A t \in Threads : pc[t] = "idle"
  BY DEF HostInit
<1>2. client \in [alive : BOOLEAN, listening : BOOLEAN, callMu : Threads \cup {None}]
  BY DEF HostInit, NoClient
<1>3. calls \in 0..MaxCalls
  BY HostAssumption DEF HostInit
<1>4. TypeOK
  BY Zenon, <1>1, <1>2, <1>3, ThreadFacts DEF HostInit, TypeOK
<1> QED
  BY SMTT(30), <1>1, <1>4, ThreadFacts
     DEF HostInit, HostInv, PointersFollowWorker, StopsHoldMutex, Holding, RecordingIsKnown,
         ServedWaits, NoClient, Recording, Replaying, Clientless

\* Every step, and every stutter, keeps the invariant.
LEMMA NextInv == HostInv /\ [HostNext]_hostVars => HostInv'
<1> SUFFICES ASSUME HostInv, [HostNext]_hostVars PROVE HostInv'
  OBVIOUS
<1>1. CASE WorkerStep
  <2>1. ASSUME NEW h \in Handlers, Take(h, "record", "connectRecord") \/ Take(h, "replay", "connectReplay")
        PROVE  HostInv'
    BY <2>1, TakeInv
  <2>2. CASE ConnectFails \/ DestroyClient
    BY <2>2, AnswerInv
  <2>3. CASE Connect("connectRecord", "clearStop") \/ Connect("connectReplay", "setReplaying")
    BY <2>3, ConnectInv
  <2>4. CASE RecordSetListener \/ EndRecording \/ EndReplay
    BY <2>4, PointerInv
  <2>5. CASE RecordStartFails \/ RecordStart \/ RecordStarted \/ RecordStopListening \/ RecordStopRpc
    BY <2>5, RecordRpcInv
  <2>6. CASE ReplayUpload \/ ReplayUploaded \/ ReplayPlay
    BY <2>6, ReplayRpcInv
  <2>7. CASE ReplaySetPlayback
    BY <2>7, SetPlaybackInv
  <2>8. CASE \/ RecordClearStop \/ RecordSetRecording \/ RecordLoop \/ RecordInterrupted
             \/ RecordWait \/ RecordRead \/ ReplaySetReplaying \/ ReplayCompose \/ ReplayPlayed
             \/ ReplayJoin
    BY <2>8, WorkerPlainSteps
  <2> QED
    BY <1>1, <2>1, <2>2, <2>3, <2>4, <2>5, <2>6, <2>7, <2>8 DEF WorkerStep
<1>2. CASE \E t \in Stoppers : StopStep(t)
  BY <1>2, StopRecordingInv, StopReplayInv DEF StopStep
<1>3. ASSUME NEW h \in Handlers,
             Post(h, "record") \/ Post(h, "replay") \/ CallerCancels(h)
             \/ StopRecordingFlag(h) \/ StopReplayCall(h)
      PROVE  HostInv'
  BY <1>3, CallInv, QuietInv
<1>4. CASE WatchStep
  BY <1>4, WatchInv
<1>5. CASE DeviceEnd \/ UNCHANGED hostVars
  BY <1>5, QuietInv
<1> QED
  BY <1>1, <1>2, <1>3, <1>4, <1>5 DEF HostNext

\* HostInv is an inductive invariant of LocalEvrp, its worker and its stops.
THEOREM HostInvHolds == HostSpec => []HostInv
BY InitInv, NextInv, PTL DEF HostSpec

\* However many handlers stop however often, activeListener_ and
\* activePlayback_ never outlive the client of LocalEvrp::record and replay.
THEOREM ClientsOutliveUse == HostSpec => []NoDanglingClient
<1>1. HostInv => NoDanglingClient
  <2> SUFFICES ASSUME HostInv, active.listener \/ active.playback \/ \E t \in Stoppers : UsingClient(t)
               PROVE  client.alive
    BY DEF NoDanglingClient
  <2>1. active.listener \/ active.playback
    BY DEF HostInv, StopsHoldMutex, UsingClient
  <2> QED
    BY <2>1 DEF HostInv, PointersFollowWorker, Recording, Replaying, Clientless
<1> QED
  BY <1>1, HostInvHolds, PTL

\* Whichever of the recorder's guard and the stops sends StopRecording, the
\* device has been told by the time LocalEvrp::record has ended.
THEOREM DeviceIsStopped == HostSpec => []DeviceNotLeftRecording
<1>1. HostInv => DeviceNotLeftRecording
  <2> SUFFICES ASSUME HostInv, pc[Worker] \in {"idle", "destroy"}, device.listening
               PROVE  rpcLost
    BY DEF DeviceNotLeftRecording
  <2>1. ~client.listening /\ ~active.listener
    BY DEF HostInv, PointersFollowWorker, Recording
  <2> QED
    BY <2>1 DEF HostInv, RecordingIsKnown, StopsHoldMutex
<1> QED
  BY <1>1, HostInvHolds, PTL
=============================================================================
