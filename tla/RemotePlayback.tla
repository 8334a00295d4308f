---------------------------- MODULE RemotePlayback ----------------------------
(***************************************************************************)
(* A RemotePlayback object of a device client, shared by some threads, and *)
(* the evrp-device it talks to.  A thread's call is served by the handler  *)
(* <<t, "call">>, its progress stream by <<t, "stream">>; the two requests *)
(* of playback() travel independently, so the device may take up either    *)
(* first.  callMu_ is held across the RPC of upload and stopPlayback,      *)
(* and by playback() only before its RPC and after it, while it joins.     *)
(***************************************************************************)
EXTENDS DevicePlayback

CONSTANTS Threads, NoThread,
          WithProgress,  \* threads that pass a progressNotify to playback()
          MaxApiCalls    \* bound: calls of the object in a behaviour

ASSUME RemoteAssumption ==
  /\ Handlers = Threads \X {"call", "stream"}
  /\ NoThread \notin Threads
  /\ WithProgress \subseteq Threads
  /\ MaxApiCalls \in Nat

VARIABLES callMu,         \* the thread that holds callMu_
          remotePlaying,  \* playing_
          reportedIndex,
          thread,         \* per thread: its method and its place in it
          wire,           \* requests sent and not yet taken up
          apiCalls

remoteVars == <<callMu, remotePlaying, reportedIndex, thread, wire, apiCalls>>
allVars == <<playbackVars, remoteVars>>

CallOf(t) == <<t, "call">>
StreamOf(t) == <<t, "stream">>
ThreadIdle == [op |-> "none", pc |-> "idle"]

RemoteInit ==
  /\ PlaybackInit
  /\ callMu = NoThread /\ remotePlaying = FALSE /\ reportedIndex = -1
  /\ thread = [t \in Threads |-> ThreadIdle]
  /\ wire = {} /\ apiCalls = 0

At(t, op, pc) == thread[t].op = op /\ thread[t].pc = pc
Goto(t, pc) == thread' = [thread EXCEPT ![t].pc = pc]

-----------------------------------------------------------------------------
(* The client.                                                             *)

\* The thread enters upload, playback or stopPlayback and waits for callMu_.
Enter(t, op) ==
  /\ thread[t] = ThreadIdle /\ op \in Methods[CallOf(t)]
  /\ apiCalls < MaxApiCalls
  /\ apiCalls' = apiCalls + 1
  /\ thread' = [thread EXCEPT ![t] = [op |-> op, pc |-> "lock"]]
  /\ UNCHANGED <<playbackVars, callMu, remotePlaying, reportedIndex, wire>>

\* "upload while playback active"
UploadRefused(t) ==
  /\ At(t, "Upload", "lock") /\ callMu = NoThread
  /\ remotePlaying
  /\ thread' = [thread EXCEPT ![t] = ThreadIdle]
  /\ UNCHANGED <<playbackVars, callMu, remotePlaying, reportedIndex, wire, apiCalls>>

\* An upload that does not look at playing_.
UploadSend_NoTest(t) ==
  /\ At(t, "Upload", "lock") /\ callMu = NoThread
  /\ callMu' = t
  /\ wire' = wire \cup {CallOf(t)}
  /\ Goto(t, "rpc")
  /\ UNCHANGED <<playbackVars, remotePlaying, reportedIndex, apiCalls>>

UploadSend(t) ==
  /\ At(t, "Upload", "lock") /\ callMu = NoThread
  /\ ~remotePlaying
  /\ callMu' = t
  /\ wire' = wire \cup {CallOf(t)}
  /\ Goto(t, "rpc")
  /\ UNCHANGED <<playbackVars, remotePlaying, reportedIndex, apiCalls>>

StopSend(t) ==
  /\ At(t, "Stop", "lock") /\ callMu = NoThread
  /\ callMu' = t
  /\ wire' = wire \cup {CallOf(t)}
  /\ Goto(t, "rpc")
  /\ UNCHANGED <<playbackVars, remotePlaying, reportedIndex, apiCalls>>

\* playback(), from lock to unlock: the stream, if any, then the call.
PlaybackSend(t) ==
  /\ At(t, "Playback", "lock") /\ callMu = NoThread
  /\ remotePlaying' = TRUE /\ reportedIndex' = -1
  /\ wire' = wire \cup {CallOf(t)} \cup (IF t \in WithProgress THEN {StreamOf(t)} ELSE {})
  /\ Goto(t, "rpc")
  /\ UNCHANGED <<playbackVars, callMu, apiCalls>>

PlaybackRelock(t) ==
  /\ At(t, "Playback", "relock") /\ callMu = NoThread
  /\ callMu' = t
  /\ Goto(t, "join")
  /\ UNCHANGED <<playbackVars, remotePlaying, reportedIndex, wire, apiCalls>>

\* raw_reader->Read has returned false: no request under way, none served.
StreamEnded(t) == StreamOf(t) \notin wire /\ rpc[StreamOf(t)].pc = "idle"

\* A playback() that detaches the progress thread and returns.
PlaybackJoin_Detach(t) ==
  /\ At(t, "Playback", "join")
  /\ remotePlaying' = FALSE
  /\ callMu' = NoThread
  /\ thread' = [thread EXCEPT ![t] = ThreadIdle]
  /\ UNCHANGED <<playbackVars, reportedIndex, wire, apiCalls>>

\* progress_thread.join(), then clearPlaying and the lock are released.
PlaybackJoin(t) ==
  /\ At(t, "Playback", "join") /\ StreamEnded(t)
  /\ remotePlaying' = FALSE
  /\ callMu' = NoThread
  /\ thread' = [thread EXCEPT ![t] = ThreadIdle]
  /\ UNCHANGED <<playbackVars, reportedIndex, wire, apiCalls>>

-----------------------------------------------------------------------------
(* The wire.                                                               *)

\* The device takes up a request.
Deliver(t) ==
  /\ CallOf(t) \in wire
  /\ \/ thread[t].op = "Upload" /\ \E n \in 0..MaxEvents : Upload(CallOf(t), n)
     \/ thread[t].op = "Playback" /\ PlaybackDrain(CallOf(t))
     \/ thread[t].op = "Stop" /\ StopRequest(CallOf(t))
  /\ wire' = wire \ {CallOf(t)}
  /\ UNCHANGED <<callMu, remotePlaying, reportedIndex, thread, apiCalls>>

DeliverStream(t) ==
  /\ StreamOf(t) \in wire
  /\ SubscribeEnter(StreamOf(t)) \/ SubscribeRefused(StreamOf(t))
  /\ wire' = wire \ {StreamOf(t)}
  /\ UNCHANGED <<callMu, remotePlaying, reportedIndex, thread, apiCalls>>

\* The answer of t's call: upload and stopPlayback return and release callMu_.
Answered(t) ==
  /\ At(t, thread[t].op, "rpc")
  /\ IF thread[t].op = "Playback"
     THEN Goto(t, "relock") /\ UNCHANGED callMu
     ELSE thread' = [thread EXCEPT ![t] = ThreadIdle] /\ callMu' = NoThread
  /\ UNCHANGED <<remotePlaying, reportedIndex, apiCalls>>

CallReturns(t) == Return(CallOf(t)) /\ Answered(t) /\ UNCHANGED wire

\* requireBusinessSession refuses the call, and the stream sent with it.
CallRefused(t) ==
  /\ CallOf(t) \in wire
  /\ thread[t].op = "Playback" /\ t \in WithProgress => StreamOf(t) \in wire
  /\ wire' = wire \ {CallOf(t), StreamOf(t)}
  /\ Answered(t)
  /\ UNCHANGED playbackVars

StreamReturns(t) == Return(StreamOf(t)) /\ UNCHANGED remoteVars

\* The progress thread reads what the device wrote.
StreamMessage(t) ==
  /\ SubscribeWrite(StreamOf(t))
  /\ reportedIndex' = rpc[StreamOf(t)].val
  /\ UNCHANGED <<callMu, remotePlaying, thread, wire, apiCalls>>

\* Every other step of the device; RemotePlayback never cancels a stream.
DeviceStep ==
  /\ Work \/ \E h \in Handlers : Continue(h) /\ ~SubscribeWrite(h)
  /\ UNCHANGED remoteVars

Client(t) == UploadRefused(t) \/ UploadSend(t) \/ StopSend(t) \/ PlaybackSend(t)
             \/ PlaybackRelock(t) \/ PlaybackJoin(t)
Wire(t) == Deliver(t) \/ CallReturns(t) \/ CallRefused(t)
Stream(t) == DeliverStream(t) \/ StreamReturns(t) \/ StreamMessage(t)

RemoteNext ==
  \/ \E t \in Threads, op \in {"Upload", "Playback", "Stop"} : Enter(t, op)
  \/ \E t \in Threads : Client(t) \/ Wire(t) \/ Stream(t)
  \/ DeviceStep

\* Threads run, requests and answers arrive, a free callMu_ is taken.
RemoteFairness ==
  /\ \A t \in Threads :
       WF_allVars(Client(t)) /\ WF_allVars(Wire(t)) /\ WF_allVars(Stream(t))
  /\ WF_allVars(Work /\ UNCHANGED remoteVars)
  /\ \A h \in Handlers : WF_allVars(Continue(h) /\ ~SubscribeWrite(h) /\ UNCHANGED remoteVars)

RemoteSpec == RemoteInit /\ [][RemoteNext]_allVars /\ RemoteFairness

-----------------------------------------------------------------------------
(* Properties.                                                             *)

\* While one thread plays back through this object, no upload of another
\* thread of it reaches the device: cached_ stays what the playback asked for.
InRpc(t, op) == At(t, op, "rpc")
UploadExcludedByPlayback ==
  ~ \E t, u \in Threads : InRpc(t, "Playback") /\ InRpc(u, "Upload")

\* The progress stream of one playback() never outlives it: whatever the next
\* playback() of the thread reads in reportedIndex_ was sent to it.
StreamWithinPlayback ==
  \A t \in Threads : thread[t].op # "Playback" => StreamEnded(t)

\* Every call of the object returns, unless it waits behind a playback() that
\* joins a stream the device has not ended: nothing else can hold it up.
Joining(t) == At(t, "Playback", "join") /\ ~StreamEnded(t)
CallsReturn ==
  \A t \in Threads :
    thread[t].pc # "idle" ~> (thread[t].pc = "idle" \/ \E u \in Threads : Joining(u))

\* proto/README.md, on SubscribePlayback: the stream tells when the whole
\* playback has ended.  So playback() with a progressNotify returns.
PlaybackWithProgressReturns ==
  \A t \in Threads : At(t, "Playback", "join") ~> thread[t].pc = "idle"
=============================================================================
