------------------------------ MODULE HostEvrp ------------------------------
(***************************************************************************)
(* evrp-server: GrpcEvrpService's handlers, PostedEvrp (record and replay  *)
(* go to the io worker, the stops run on the handler's thread), LocalEvrp, *)
(* and the device client that each record or replay makes, uses and        *)
(* destroys.  By DispatchQueue a posted call is one the worker takes up.   *)
(*                                                                         *)
(* Of evrp-device only what the host can see is kept: whether it records   *)
(* and whether it plays (what a stop does to a playback is the subject of  *)
(* DevicePlayback; here a playback ends sooner or later).  RPCs may fail,  *)
(* and StartRecording may fail after the device has carried it out.        *)
(***************************************************************************)
EXTENDS Integers

CONSTANTS Handlers,  \* gRPC threads
          Watch,     \* replay's rpcCancelWatch thread
          Worker,    \* the io worker
          None,
          MaxCalls   \* bound: RPCs in a behaviour

ASSUME HostAssumption ==
  /\ Watch \notin Handlers /\ Worker \notin Handlers \cup {Watch}
  /\ None \notin Handlers \cup {Watch, Worker}
  /\ MaxCalls \in Nat

Stoppers == Handlers \cup {Watch}
Threads == Stoppers \cup {Worker}

VARIABLES
  pc,         \* per handler, for the watch thread and for the worker
  serving,    \* the handler whose record or replay the worker runs
  cancelled,  \* handlers whose caller has cancelled
  flags,      \* isRecording_, isReplaying_, stopRecordingRequested_
  active,     \* activeListener_, activePlayback_: set or null
  mutex,      \* holder of sessionMutex_
  client,     \* the device client: exists; listeningActive_; callMu_
  device,     \* evrp-device: recording, playing
  rpcLost,    \* history: a StopRecording, or a StartRecording's reply, was lost
  calls

hostVars == <<pc, serving, cancelled, flags, active, mutex, client, device, rpcLost, calls>>

NoClient == [alive |-> FALSE, listening |-> FALSE, callMu |-> None]

HostInit ==
  /\ pc = [t \in Threads |-> "idle"]
  /\ serving = None /\ cancelled = {} /\ mutex = None
  /\ flags = [recording |-> FALSE, replaying |-> FALSE, stop |-> FALSE]
  /\ active = [listener |-> FALSE, playback |-> FALSE]
  /\ client = NoClient
  /\ device = [listening |-> FALSE, playing |-> FALSE]
  /\ rpcLost = FALSE /\ calls = 0

Step(t, from, to) == pc[t] = from /\ pc' = [pc EXCEPT ![t] = to]
Work(from, to) == Step(Worker, from, to)

-----------------------------------------------------------------------------
(* GrpcEvrpService.                                                        *)

Call(h, to) ==
  /\ Step(h, "idle", to)
  /\ calls < MaxCalls /\ calls' = calls + 1

\* Record and Replay: the task is posted, the handler waits.
Post(h, task) ==
  /\ Call(h, task)
  /\ UNCHANGED <<serving, cancelled, flags, active, mutex, client, device, rpcLost>>

CallerCancels(h) ==
  /\ pc[h] \in {"record", "replay"} /\ h \notin cancelled
  /\ cancelled' = cancelled \cup {h}
  /\ UNCHANGED <<pc, serving, flags, active, mutex, client, device, rpcLost, calls>>

-----------------------------------------------------------------------------
(* LocalEvrp::record and Record::run, on the worker.                       *)

Take(h, task, to) ==
  /\ pc[h] = task /\ serving = None
  /\ Work("idle", to)
  /\ serving' = h
  /\ UNCHANGED <<cancelled, flags, active, mutex, client, device, rpcLost, calls>>

\* The worker is done: the handler answers.
Done ==
  /\ pc' = [pc EXCEPT ![Worker] = "idle", ![serving] = "idle"]
  /\ serving' = None /\ cancelled' = cancelled \ {serving}

ConnectFails ==
  /\ pc[Worker] \in {"connectRecord", "connectReplay"}
  /\ Done
  /\ UNCHANGED <<flags, active, mutex, client, device, rpcLost, calls>>

Connect(from, to) ==
  /\ Work(from, to)
  /\ client' = [NoClient EXCEPT !.alive = TRUE]
  /\ UNCHANGED <<serving, cancelled, flags, active, mutex, device, rpcLost, calls>>

RecordClearStop ==
  /\ Work("clearStop", "setRecording")
  /\ flags' = [flags EXCEPT !.stop = FALSE]
  /\ UNCHANGED <<serving, cancelled, active, mutex, client, device, rpcLost, calls>>

\* The two stores of LocalEvrp::record the other way round: the stop flag is
\* cleared once more after isRecording_ could be seen.
RecordSetRecording_ThenClear ==
  /\ \/ Work("setRecording", "setListener") /\ flags.recording
        /\ flags' = [flags EXCEPT !.stop = FALSE]
     \/ ~flags.recording /\ pc[Worker] = "setRecording" /\ UNCHANGED pc
        /\ flags' = [flags EXCEPT !.recording = TRUE]
  /\ UNCHANGED <<serving, cancelled, active, mutex, client, device, rpcLost, calls>>

RecordSetRecording ==
  /\ Work("setRecording", "setListener")
  /\ flags' = [flags EXCEPT !.recording = TRUE]
  /\ UNCHANGED <<serving, cancelled, active, mutex, client, device, rpcLost, calls>>

RecordSetListener ==
  /\ Work("setListener", "start") /\ mutex = None
  /\ active' = [active EXCEPT !.listener = TRUE]
  /\ UNCHANGED <<serving, cancelled, flags, mutex, client, device, rpcLost, calls>>

RecordStartFails ==
  /\ Work("start", "endRecord")
  /\ \/ UNCHANGED <<device, rpcLost>>
     \/ device' = [device EXCEPT !.listening = TRUE] /\ rpcLost' = TRUE
  /\ UNCHANGED <<serving, cancelled, flags, active, mutex, client, calls>>

\* RemoteInputListener::startListening: the RPC ...
RecordStart ==
  /\ Work("start", "started")
  /\ device' = [device EXCEPT !.listening = TRUE]
  /\ UNCHANGED <<serving, cancelled, flags, active, mutex, client, rpcLost, calls>>

\* ... and, when it has returned, listeningActive_ = true.  Then the output
\* file is opened, or cannot be.
RecordStarted ==
  /\ Work("started", "loop") \/ Work("started", "stopListening")
  /\ client' = [client EXCEPT !.listening = TRUE]
  /\ UNCHANGED <<serving, cancelled, flags, active, mutex, device, rpcLost, calls>>

RecordLoop ==
  /\ Work("loop", IF flags.stop \/ serving \in cancelled THEN "stopListening" ELSE "wait")
  /\ UNCHANGED <<serving, cancelled, flags, active, mutex, client, device, rpcLost, calls>>

\* SIGINT, seen by the loop's SigintGuard.
RecordInterrupted ==
  /\ Work("loop", "stopListening")
  /\ UNCHANGED <<serving, cancelled, flags, active, mutex, client, device, rpcLost, calls>>

\* waitForInputEvent: false at once when not listening, or by the RPC.
RecordWait ==
  /\ Work("wait", "loop") \/ (client.listening /\ Work("wait", "read"))
  /\ UNCHANGED <<serving, cancelled, flags, active, mutex, client, device, rpcLost, calls>>

\* readInputEvents and the lines written; a failed write ends the loop.
RecordRead ==
  /\ Work("read", "loop") \/ (client.listening /\ Work("read", "stopListening"))
  /\ UNCHANGED <<serving, cancelled, flags, active, mutex, client, device, rpcLost, calls>>

\* RemoteInputListener::cancelListening up to its RPC, by thread t.
Unlisten(t, rpc, after) ==
  /\ pc' = [pc EXCEPT ![t] = IF client.listening THEN rpc ELSE after]
  /\ client' = [client EXCEPT !.listening = FALSE]

\* The StopRecording RPC, whose status nobody looks at.
StopRpc ==
  \/ device' = [device EXCEPT !.listening = FALSE] /\ UNCHANGED rpcLost
  \/ rpcLost' = TRUE /\ UNCHANGED device

\* A Record::run without its scope guard.
RecordStopListening_NoGuard ==
  /\ Work("stopListening", "endRecord")
  /\ UNCHANGED <<serving, cancelled, flags, active, mutex, client, device, rpcLost, calls>>

RecordStopListening ==
  /\ pc[Worker] = "stopListening"
  /\ Unlisten(Worker, "stopRpc", "endRecord")
  /\ UNCHANGED <<serving, cancelled, flags, active, mutex, device, rpcLost, calls>>

RecordStopRpc ==
  /\ Work("stopRpc", "endRecord")
  /\ StopRpc
  /\ UNCHANGED <<serving, cancelled, flags, active, mutex, client, calls>>

\* An endRecording guard that does not take sessionMutex_.
EndRecording_NoLock ==
  /\ Work("endRecord", "destroy")
  /\ active' = [active EXCEPT !.listener = FALSE]
  /\ flags' = [flags EXCEPT !.recording = FALSE, !.stop = FALSE]
  /\ UNCHANGED <<serving, cancelled, mutex, client, device, rpcLost, calls>>

\* The endRecording scope guard.
EndRecording ==
  /\ Work("endRecord", "destroy") /\ mutex = None
  /\ active' = [active EXCEPT !.listener = FALSE]
  /\ flags' = [flags EXCEPT !.recording = FALSE, !.stop = FALSE]
  /\ UNCHANGED <<serving, cancelled, mutex, client, device, rpcLost, calls>>

\* ~ConnectedClient; its listener is no longer listening, so it sends nothing.
DestroyClient ==
  /\ pc[Worker] = "destroy"
  /\ client' = NoClient
  /\ Done
  /\ UNCHANGED <<flags, active, mutex, device, rpcLost, calls>>

-----------------------------------------------------------------------------
(* LocalEvrp::replay and Playback::run, on the worker.                     *)

ReplaySetReplaying ==
  /\ Work("setReplaying", "setPlayback")
  /\ flags' = [flags EXCEPT !.replaying = TRUE]
  /\ UNCHANGED <<serving, cancelled, active, mutex, client, device, rpcLost, calls>>

\* activePlayback_, and the start of rpcCancelWatch.
ReplaySetPlayback ==
  /\ pc[Worker] = "setPlayback" /\ mutex = None
  /\ pc' = [pc EXCEPT ![Worker] = "compose", ![Watch] = "watching"]
  /\ active' = [active EXCEPT !.playback = TRUE]
  /\ UNCHANGED <<serving, cancelled, flags, mutex, client, device, rpcLost, calls>>

\* The file and its Lua become events, or not.
ReplayCompose ==
  /\ Work("compose", "upload") \/ Work("compose", "join")
  /\ UNCHANGED <<serving, cancelled, flags, active, mutex, client, device, rpcLost, calls>>

\* RemotePlayback::upload holds callMu_ across its RPC.
ReplayUpload ==
  /\ Work("upload", "uploading") /\ client.callMu = None
  /\ client' = [client EXCEPT !.callMu = Worker]
  /\ UNCHANGED <<serving, cancelled, flags, active, mutex, device, rpcLost, calls>>

ReplayUploaded ==
  /\ Work("uploading", "play") \/ Work("uploading", "join")
  /\ client' = [client EXCEPT !.callMu = None]
  /\ UNCHANGED <<serving, cancelled, flags, active, mutex, device, rpcLost, calls>>

\* RemotePlayback::playback: callMu_ is released before the RPC, which the
\* device carries out or refuses.
ReplayPlay ==
  /\ Work("play", "playing") /\ client.callMu = None
  /\ device' \in {[device EXCEPT !.playing = TRUE], device}
  /\ UNCHANGED <<serving, cancelled, flags, active, mutex, client, rpcLost, calls>>

ReplayPlayed ==
  /\ Work("playing", "join") /\ ~device.playing /\ client.callMu = None
  /\ UNCHANGED <<serving, cancelled, flags, active, mutex, client, device, rpcLost, calls>>

\* The joinRpcCancelWatch guard.
ReplayJoin ==
  /\ Work("join", "endReplay") /\ pc[Watch] = "idle"
  /\ UNCHANGED <<serving, cancelled, flags, active, mutex, client, device, rpcLost, calls>>

\* The endReplay guard.
EndReplay ==
  /\ Work("endReplay", "destroy") /\ mutex = None
  /\ active' = [active EXCEPT !.playback = FALSE]
  /\ flags' = [flags EXCEPT !.replaying = FALSE]
  /\ UNCHANGED <<serving, cancelled, mutex, client, device, rpcLost, calls>>

\* rpcCancelWatch: IsCancelled() sends it to stopReplay once; otherwise it
\* leaves when rpcCancelWatchDone is set.
WatchCancelled ==
  /\ serving \in cancelled
  /\ Step(Watch, "watching", "lockPlayback")
  /\ UNCHANGED <<serving, cancelled, flags, active, mutex, client, device, rpcLost, calls>>

\* A watch that does not look at rpcCancelWatchDone.
WatchDone_Never ==
  /\ serving \in cancelled
  /\ Step(Watch, "watching", "idle")
  /\ UNCHANGED <<serving, cancelled, flags, active, mutex, client, device, rpcLost, calls>>

WatchDone ==
  /\ pc[Worker] = "join"
  /\ Step(Watch, "watching", "idle")
  /\ UNCHANGED <<serving, cancelled, flags, active, mutex, client, device, rpcLost, calls>>

DeviceEnd ==
  /\ device.playing
  /\ device' = [device EXCEPT !.playing = FALSE]
  /\ UNCHANGED <<pc, serving, cancelled, flags, active, mutex, client, rpcLost, calls>>

-----------------------------------------------------------------------------
(* stopRecording and stopReplay, on the caller's thread.                   *)

StopRecordingFlag(h) ==
  /\ Call(h, "lockListener")
  /\ flags' = [flags EXCEPT !.stop = TRUE]
  /\ UNCHANGED <<serving, cancelled, active, mutex, client, device, rpcLost>>

\* sessionMutex_ is held until the stop has returned.
StopRecordingLock(h) ==
  /\ mutex = None
  /\ \/ ~active.listener /\ Step(h, "lockListener", "idle") /\ UNCHANGED mutex
     \/ active.listener /\ Step(h, "lockListener", "unlisten") /\ mutex' = h
  /\ UNCHANGED <<serving, cancelled, flags, active, client, device, rpcLost, calls>>

StopRecordingUnlisten(h) ==
  /\ pc[h] = "unlisten"
  /\ Unlisten(h, "listenerRpc", "unlock")
  /\ UNCHANGED <<serving, cancelled, flags, active, mutex, device, rpcLost, calls>>

StopRecordingRpc(h) ==
  /\ Step(h, "listenerRpc", "unlock")
  /\ StopRpc
  /\ UNCHANGED <<serving, cancelled, flags, active, mutex, client, calls>>

StopReplayCall(h) ==
  /\ Call(h, "lockPlayback")
  /\ UNCHANGED <<serving, cancelled, flags, active, mutex, client, device, rpcLost>>

StopReplayLock(t) ==
  /\ mutex = None
  /\ \/ ~active.playback /\ Step(t, "lockPlayback", "idle") /\ UNCHANGED mutex
     \/ active.playback /\ Step(t, "lockPlayback", "lockCall") /\ mutex' = t
  /\ UNCHANGED <<serving, cancelled, flags, active, client, device, rpcLost, calls>>

\* RemotePlayback::stopPlayback: callMu_, held across the RPC.
StopReplayLockCall(t) ==
  /\ Step(t, "lockCall", "playbackRpc") /\ client.callMu = None
  /\ client' = [client EXCEPT !.callMu = t]
  /\ UNCHANGED <<serving, cancelled, flags, active, mutex, device, rpcLost, calls>>

\* A stopPlayback that returns without releasing callMu_.
StopReplayRpc_KeepsCallMu(t) ==
  /\ Step(t, "playbackRpc", "unlock")
  /\ UNCHANGED <<serving, cancelled, flags, active, mutex, client, device, rpcLost, calls>>

StopReplayRpc(t) ==
  /\ Step(t, "playbackRpc", "unlock")
  /\ client' = [client EXCEPT !.callMu = None]
  /\ UNCHANGED <<serving, cancelled, flags, active, mutex, device, rpcLost, calls>>

\* lock_guard's destructor, and the answer.
Unlock(t) ==
  /\ Step(t, "unlock", "idle")
  /\ mutex' = None
  /\ UNCHANGED <<serving, cancelled, flags, active, client, device, rpcLost, calls>>

-----------------------------------------------------------------------------

WorkerStep ==
  \/ \E h \in Handlers : Take(h, "record", "connectRecord")
                         \/ Take(h, "replay", "connectReplay")
  \/ ConnectFails
  \/ Connect("connectRecord", "clearStop") \/ Connect("connectReplay", "setReplaying")
  \/ RecordClearStop \/ RecordSetRecording \/ RecordSetListener
  \/ RecordStartFails \/ RecordStart \/ RecordStarted
  \/ RecordLoop \/ RecordInterrupted \/ RecordWait \/ RecordRead
  \/ RecordStopListening \/ RecordStopRpc \/ EndRecording \/ DestroyClient
  \/ ReplaySetReplaying \/ ReplaySetPlayback \/ ReplayCompose \/ ReplayUpload
  \/ ReplayUploaded \/ ReplayPlay \/ ReplayPlayed \/ ReplayJoin \/ EndReplay

StopStep(t) ==
  \/ StopRecordingLock(t) \/ StopRecordingUnlisten(t) \/ StopRecordingRpc(t)
  \/ StopReplayLock(t) \/ StopReplayLockCall(t) \/ StopReplayRpc(t)
  \/ Unlock(t)

WatchStep == WatchCancelled \/ WatchDone

HostNext ==
  \/ \E h \in Handlers : Post(h, "record") \/ Post(h, "replay") \/ CallerCancels(h)
                         \/ StopRecordingFlag(h) \/ StopReplayCall(h)
  \/ WorkerStep \/ WatchStep \/ DeviceEnd
  \/ \E t \in Stoppers : StopStep(t)

\* Every thread that can run does, and RPCs return.
HostFairness ==
  /\ WF_hostVars(WorkerStep) /\ WF_hostVars(WatchStep) /\ WF_hostVars(DeviceEnd)
  /\ \A t \in Stoppers : WF_hostVars(StopStep(t))

HostSpec == HostInit /\ [][HostNext]_hostVars /\ HostFairness

-----------------------------------------------------------------------------
(* Properties.                                                             *)

\* Every variable keeps its type.
TypeOK ==
  /\ DOMAIN pc = Threads
  /\ \A h \in Handlers : pc[h] \in {"idle", "record", "replay", "lockListener", "unlisten",
       "listenerRpc", "lockPlayback", "lockCall", "playbackRpc", "unlock"}
  /\ pc[Watch] \in {"idle", "watching", "lockPlayback", "lockCall", "playbackRpc", "unlock"}
  /\ pc[Worker] \in {"idle", "connectRecord", "clearStop", "setRecording", "setListener",
       "start", "started", "loop", "wait", "read", "stopListening", "stopRpc", "endRecord",
       "connectReplay", "setReplaying", "setPlayback", "compose", "upload", "uploading",
       "play", "playing", "join", "endReplay", "destroy"}
  /\ serving \in Handlers \cup {None} /\ (serving = None <=> pc[Worker] = "idle")
  /\ cancelled \subseteq Handlers
  /\ flags \in [recording : BOOLEAN, replaying : BOOLEAN, stop : BOOLEAN]
  /\ active \in [listener : BOOLEAN, playback : BOOLEAN]
  /\ mutex \in Stoppers \cup {None}
  /\ client \in [alive : BOOLEAN, listening : BOOLEAN, callMu : Threads \cup {None}]
  /\ device \in [listening : BOOLEAN, playing : BOOLEAN]
  /\ rpcLost \in BOOLEAN /\ calls \in 0..MaxCalls

\* The raw pointers activeListener_ and activePlayback_ never outlive the
\* client they point into, and no stop is inside that client when it goes.
UsingClient(t) ==
  pc[t] \in {"unlisten", "listenerRpc", "lockCall", "playbackRpc"}
NoDanglingClient ==
  (active.listener \/ active.playback \/ \E t \in Stoppers : UsingClient(t)) => client.alive

\* Once Record has ended, the device no longer records either, unless an RPC
\* was lost: of the recorder's scope guard and the stops, which clear
\* listeningActive_ before they send StopRecording, one has stopped it.
DeviceNotLeftRecording ==
  pc[Worker] \in {"idle", "destroy"} /\ device.listening => rpcLost

\* A StopRecording accepted while isRecording() is true ends that recording.
StopRecordingHonoured == (flags.recording /\ flags.stop) ~> ~flags.recording

\* Every stop returns, although it holds sessionMutex_ across an RPC and waits
\* for callMu_, and the end of a replay waits for the watch thread.
StopsReturn == \A t \in Handlers : pc[t] \in {"lockListener", "lockPlayback"} ~> pc[t] = "idle"

\* Every Replay is answered: the playback, the watch thread it joins and the
\* stops that hold its locks never wait for each other in a circle.
ReplayReturns == flags.replaying ~> ~flags.replaying
=============================================================================
