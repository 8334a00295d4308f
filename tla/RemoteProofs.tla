----------------------------- MODULE RemoteProofs -----------------------------
(***************************************************************************)
(* The safety properties of RemotePlayback, for any number of threads and  *)
(* calls, on top of what PlaybackProofs shows of the device.               *)
(***************************************************************************)
EXTENDS RemotePlayback, PlaybackProofs

\* A thread is somewhere in a method its owner calls.
ThreadsOK ==
  /\ callMu \in Threads \cup {NoThread} /\ remotePlaying \in BOOLEAN
  /\ thread \in [Threads -> [op : {"none", "Upload", "Playback", "Stop"},
                             pc : {"idle", "lock", "rpc", "relock", "join"}]]
  /\ \A t \in Threads : thread[t].pc = "idle" <=> thread[t].op = "none"
  /\ \A t \in Threads : thread[t].op = "Playback" => "Playback" \in Methods[CallOf(t)]

RemoteInv == PlaybackInv /\ ThreadsOK /\ StreamWithinPlayback

-----------------------------------------------------------------------------
(* The device.                                                             *)

\* Each thread's call and its stream have device handlers of their own.
LEMMA HandlerOf ==
  ASSUME NEW t \in Threads
  PROVE  /\ CallOf(t) \in Handlers /\ StreamOf(t) \in Handlers
         /\ \A u \in Threads : CallOf(t) # StreamOf(u)
         /\ \A u \in Threads : u # t => CallOf(t) # CallOf(u) /\ StreamOf(t) # StreamOf(u)
BY RemoteAssumption DEF CallOf, StreamOf

\* What the client and the wire do to the device, its callers may do.
LEMMA DeviceSteps == RemoteNext => [Next]_playbackVars
<1> SUFFICES ASSUME RemoteNext PROVE [Next]_playbackVars
  OBVIOUS
<1>1. ASSUME NEW t \in Threads, NEW op, Enter(t, op)
      PROVE  UNCHANGED playbackVars
  BY <1>1 DEF Enter
<1>2. ASSUME NEW t \in Threads, Client(t)
      PROVE  UNCHANGED playbackVars
  BY <1>2 DEF Client, UploadRefused, UploadSend, StopSend, PlaybackSend, PlaybackRelock,
              PlaybackJoin
<1>3. ASSUME NEW t \in Threads, Wire(t)
      PROVE  [Next]_playbackVars
  BY <1>3, HandlerOf DEF Wire, Deliver, CallReturns, CallRefused, Next, Call
<1>4. ASSUME NEW t \in Threads, Stream(t)
      PROVE  Next
  BY <1>4, HandlerOf DEF Stream, DeliverStream, StreamReturns, StreamMessage, Next, Call, Continue
<1>5. CASE DeviceStep
  BY <1>5 DEF DeviceStep, Next
<1> QED
  BY <1>1, <1>2, <1>3, <1>4, <1>5 DEF RemoteNext

\* A free thread of the device is taken only by a call of its own.
LEMMA FreeStays ==
  ASSUME PlaybackInv, NEW h \in Handlers, rpc[h].pc = "idle",
         Work \/ \E g \in Handlers : Continue(g) \/ (g # h /\ HandlerStep(g))
  PROVE  rpc'[h].pc = "idle"
<1>1. CASE Work
  <2>1. rpc[h].op = "none"
    BY DEF PlaybackInv, CallsMatch
  <2> QED
    BY <1>1, <2>1, WorkTasks
<1>2. ASSUME NEW g \in Handlers, g # h, HandlerStep(g)
      PROVE  rpc'[h].pc = "idle"
  BY <1>2, HandlerFrame
<1>3. ~Continue(h)
  BY SMTT(30) DEF Continue, Step, PlaybackReset, PlaybackPost, markPlaybackStreamFinished,
         PlaybackRelease, SubscribeDrain, SubscribeLoop, SubscribeAcquire, SubscribeRead,
         SubscribePost, SubscribeWrite, SubscribeExit, StopClear
<1> QED
  BY <1>1, <1>2, <1>3 DEF HandlerStep

-----------------------------------------------------------------------------
(* The threads of the client.                                              *)

\* A thread goes on within its method, or leaves it.
LEMMA ThreadMoves ==
  ASSUME ThreadsOK, NEW t \in Threads, thread[t].pc # "idle",
         \/ \E pc \in {"rpc", "relock", "join"} : Goto(t, pc)
         \/ thread' = [thread EXCEPT ![t] = ThreadIdle]
  PROVE  /\ thread' \in [Threads -> [op : {"none", "Upload", "Playback", "Stop"},
                                     pc : {"idle", "lock", "rpc", "relock", "join"}]]
         /\ \A u \in Threads \ {t} : thread'[u] = thread[u]
         /\ thread'[t].pc = "idle" <=> thread'[t].op = "none"
         /\ thread'[t].op \in {thread[t].op, "none"}
BY DEF ThreadsOK, Goto, ThreadIdle

\* Every step keeps the threads' part of the invariant.
LEMMA StepThreads ==
  ASSUME ThreadsOK, RemoteNext
  PROVE  ThreadsOK'
<1>1. ASSUME NEW t \in Threads, NEW op \in {"Upload", "Playback", "Stop"}, Enter(t, op)
      PROVE  ThreadsOK'
  BY <1>1 DEF Enter, ThreadsOK, ThreadIdle
<1>2. ASSUME NEW t \in Threads, Client(t)
      PROVE  ThreadsOK'
  <2>1. /\ thread[t].pc # "idle"
        /\ \/ \E pc \in {"rpc", "relock", "join"} : Goto(t, pc)
           \/ thread' = [thread EXCEPT ![t] = ThreadIdle]
    BY <1>2 DEF Client, UploadRefused, UploadSend, StopSend, PlaybackSend, PlaybackRelock,
                PlaybackJoin, At
  <2>2. callMu' \in Threads \cup {NoThread} /\ remotePlaying' \in BOOLEAN
    BY Zenon, <1>2 DEF Client, UploadRefused, UploadSend, StopSend, PlaybackSend, PlaybackRelock,
                PlaybackJoin, ThreadsOK
  <2> QED
    BY SMTT(30), <2>1, <2>2, ThreadMoves DEF ThreadsOK
<1>3. ASSUME NEW t \in Threads, Wire(t)
      PROVE  ThreadsOK'
  BY <1>3 DEF Wire, Deliver, CallReturns, CallRefused, Answered, At, Goto, ThreadsOK, ThreadIdle
<1>4. ASSUME (\E t \in Threads : Stream(t)) \/ DeviceStep
      PROVE  ThreadsOK'
  BY <1>4 DEF Stream, DeliverStream, StreamReturns, StreamMessage, DeviceStep, remoteVars,
              ThreadsOK
<1> QED
  BY <1>1, <1>2, <1>3, <1>4 DEF RemoteNext

\* A stream begins only inside a playback(), which ends only after the stream.
LEMMA StepStreams ==
  ASSUME RemoteInv, RemoteNext
  PROVE  StreamWithinPlayback'
<1> SUFFICES ASSUME NEW t \in Threads, thread'[t].op # "Playback"
             PROVE  StreamOf(t) \notin wire' /\ rpc'[StreamOf(t)].pc = "idle"
  BY DEF StreamWithinPlayback, StreamEnded
<1>1. /\ thread[t].op # "Playback" => StreamOf(t) \notin wire /\ rpc[StreamOf(t)].pc = "idle"
      /\ DOMAIN thread = Threads /\ StreamOf(t) \in Handlers
  BY HandlerOf DEF RemoteInv, ThreadsOK, StreamWithinPlayback, StreamEnded
<1>2. PlaybackInv
  BY DEF RemoteInv
<1>3. ASSUME NEW u \in Threads, NEW op \in {"Upload", "Playback", "Stop"}, Enter(u, op)
      PROVE  StreamOf(t) \notin wire' /\ rpc'[StreamOf(t)].pc = "idle"
  BY <1>1, <1>3 DEF Enter, ThreadIdle, playbackVars
<1>4. ASSUME NEW u \in Threads, Client(u)
      PROVE  StreamOf(t) \notin wire' /\ rpc'[StreamOf(t)].pc = "idle"
  <2>1. /\ CallOf(u) # StreamOf(t) /\ (u # t => StreamOf(u) # StreamOf(t))
        /\ rpc' = rpc
    BY <1>4, HandlerOf DEF Client, UploadRefused, UploadSend, StopSend, PlaybackSend,
                           PlaybackRelock, PlaybackJoin, playbackVars
  <2>2. CASE UploadRefused(u) \/ UploadSend(u) \/ StopSend(u)
    BY <1>1, <2>1, <2>2 DEF UploadRefused, UploadSend, StopSend, At, Goto
  <2>3. CASE PlaybackSend(u) \/ PlaybackRelock(u)
    <3>1. thread'[t].op = thread[t].op /\ thread[u].op = "Playback"
      BY <1>1, <2>3 DEF PlaybackSend, PlaybackRelock, At, Goto, RemoteInv, ThreadsOK
    <3>2. t # u /\ StreamOf(t) \notin wire /\ rpc[StreamOf(t)].pc = "idle"
      BY <1>1, <3>1
    <3>3. wire' \subseteq wire \cup {CallOf(u), StreamOf(u)}
      BY <2>3 DEF PlaybackSend, PlaybackRelock
    <3> QED
      BY <2>1, <3>2, <3>3
  <2>4. CASE PlaybackJoin(u)
    BY <1>1, <2>1, <2>4 DEF PlaybackJoin, StreamEnded
  <2> QED
    BY <1>4, <2>2, <2>3, <2>4 DEF Client
<1>5. ASSUME NEW u \in Threads, Wire(u)
      PROVE  StreamOf(t) \notin wire' /\ rpc'[StreamOf(t)].pc = "idle"
  <2>1. CallOf(u) \in Handlers /\ CallOf(u) # StreamOf(t)
    BY HandlerOf
  <2>2. thread[t].op # "Playback" /\ wire' \subseteq wire
    <3>1. CASE Deliver(u)
      BY <3>1 DEF Deliver
    <3>2. CASE CallReturns(u) \/ CallRefused(u)
      <4>1. Answered(u) /\ wire' \subseteq wire
        BY <3>2 DEF CallReturns, CallRefused
      <4>2. thread[t].op # "Playback"
        BY <1>1, <4>1 DEF Answered, Goto, RemoteInv, ThreadsOK
      <4> QED
        BY <4>1, <4>2
    <3> QED
      BY <1>5, <3>1, <3>2 DEF Wire
  <2>3. HandlerStep(CallOf(u)) \/ rpc' = rpc
    BY <1>5 DEF Wire, Deliver, CallReturns, CallRefused, HandlerStep, Call, playbackVars
  <2> QED
    BY <1>1, <1>2, <2>1, <2>2, <2>3, FreeStays
<1>6. ASSUME NEW u \in Threads, Stream(u)
      PROVE  StreamOf(t) \notin wire' /\ rpc'[StreamOf(t)].pc = "idle"
  <2>1. thread[t].op # "Playback" /\ wire' \subseteq wire
    BY <1>6 DEF Stream, DeliverStream, StreamReturns, StreamMessage, remoteVars
  <2>2. u # t
    BY <1>1, <1>6, <2>1 DEF Stream, DeliverStream, StreamReturns, StreamMessage, Return,
                            SubscribeWrite, Step
  <2>3. StreamOf(u) \in Handlers /\ StreamOf(u) # StreamOf(t) /\ HandlerStep(StreamOf(u))
    BY SMTT(30), <1>6, <2>2, HandlerOf DEF Stream, DeliverStream, StreamReturns, StreamMessage,
                                 HandlerStep, Call, Continue
  <2> QED
    BY <1>1, <1>2, <2>1, <2>3, FreeStays
<1>7. CASE DeviceStep
  BY <1>1, <1>2, <1>7, FreeStays DEF DeviceStep, remoteVars
<1> QED
  BY <1>3, <1>4, <1>5, <1>6, <1>7 DEF RemoteNext

\* The invariant holds in every reachable state of host and device.
LEMMA RemoteInvHolds == RemoteSpec => []RemoteInv
<1>1. RemoteInit => RemoteInv
  <2> SUFFICES ASSUME RemoteInit PROVE RemoteInv
    OBVIOUS
  <2>1. PlaybackInv
    BY InitInv DEF RemoteInit
  <2>2. ThreadsOK
    BY Zenon DEF RemoteInit, ThreadsOK, ThreadIdle
  <2>3. StreamWithinPlayback
    BY HandlerOf DEF RemoteInit, PlaybackInit, StreamWithinPlayback, StreamEnded, Idle
  <2> QED
    BY <2>1, <2>2, <2>3 DEF RemoteInv
<1>2. RemoteInv /\ [RemoteNext]_allVars => RemoteInv'
  <2> SUFFICES ASSUME RemoteInv, [RemoteNext]_allVars PROVE RemoteInv'
    OBVIOUS
  <2>1. CASE RemoteNext
    BY <2>1, DeviceSteps, StepInv, StepThreads, StepStreams DEF RemoteInv
  <2>2. CASE UNCHANGED allVars
    <3>1. PlaybackInv'
      BY <2>2, StepInv DEF RemoteInv, allVars
    <3> QED
      BY <2>2, <3>1 DEF RemoteInv, allVars, remoteVars, playbackVars, ThreadsOK,
                        StreamWithinPlayback, StreamEnded
  <2> QED
    BY <2>1, <2>2
<1> QED
  BY <1>1, <1>2, PTL DEF RemoteSpec

-----------------------------------------------------------------------------
(* The properties.                                                         *)

\* The progress stream of a playback() has ended when playback() returns,
\* however many threads share the object and whichever calls are refused.
THEOREM StreamsEnd == RemoteSpec => []StreamWithinPlayback
BY RemoteInvHolds, PTL DEF RemoteInv

\* The device's subscriber slot keeps its promise under RemotePlayback too.
THEOREM DeviceSubscribers == RemoteSpec => []OneSubscriber
BY RemoteInvHolds, PTL DEF RemoteInv, PlaybackInv

\* At most one thread calls playback(): the use the host makes of the class.
OnePlayer ==
  \A t, u \in Threads :
    "Playback" \in Methods[CallOf(t)] /\ "Playback" \in Methods[CallOf(u)] => t = u

\* callMu_ is held across the RPCs of upload and stopPlayback and while playback()
\* joins; playing_ is set across a playback's RPC.
Exclusion ==
  /\ \A t \in Threads :
       thread[t].pc = "join" \/ (thread[t].op # "Playback" /\ thread[t].pc = "rpc") => callMu = t
  /\ \A t \in Threads :
       thread[t].op = "Playback" /\ thread[t].pc # "lock" => remotePlaying
  /\ UploadExcludedByPlayback

\* With one player, no step of RemotePlayback starts an upload during the
\* Playback RPC, or the RPC during an upload.
LEMMA StepExclusion ==
  ASSUME OnePlayer, ThreadsOK, Exclusion, [RemoteNext]_allVars
  PROVE  Exclusion'
<1>0. NoThread \notin Threads
  BY RemoteAssumption
<1>1. ASSUME NEW t \in Threads, NEW op \in {"Upload", "Playback", "Stop"}, Enter(t, op)
      PROVE  Exclusion'
  BY <1>1 DEF Enter, ThreadsOK, ThreadIdle, Exclusion, UploadExcludedByPlayback, InRpc, At
<1>2. ASSUME NEW t \in Threads, UploadRefused(t) \/ UploadSend(t) \/ StopSend(t)
      PROVE  Exclusion'
  BY <1>0, <1>2 DEF UploadRefused, UploadSend, StopSend, At, Goto, ThreadIdle, ThreadsOK, Exclusion,
              UploadExcludedByPlayback, InRpc
<1>3. ASSUME NEW t \in Threads, PlaybackSend(t) \/ PlaybackRelock(t)
      PROVE  Exclusion'
  BY <1>0, <1>3 DEF PlaybackSend, PlaybackRelock, At, Goto, ThreadsOK, Exclusion,
                    UploadExcludedByPlayback, InRpc
<1>4. ASSUME NEW t \in Threads, PlaybackJoin(t)
      PROVE  Exclusion'
  <2>1. \A u \in Threads \ {t} : thread[u].op # "Playback"
    BY <1>4 DEF PlaybackJoin, At, ThreadsOK, OnePlayer
  <2> QED
    BY <1>4, <2>1 DEF PlaybackJoin, At, ThreadIdle, ThreadsOK, Exclusion,
                      UploadExcludedByPlayback, InRpc
<1>5. ASSUME NEW t \in Threads, Wire(t)
      PROVE  Exclusion'
  <2>1. CASE Deliver(t)
    BY <2>1 DEF Deliver, Exclusion, UploadExcludedByPlayback, InRpc, At
  <2>2. CASE CallReturns(t) \/ CallRefused(t)
    <3>1. Answered(t)
      BY <2>2 DEF CallReturns, CallRefused
    <3> QED
      BY <1>0, <3>1 DEF Answered, At, Goto, ThreadIdle, ThreadsOK, Exclusion,
                        UploadExcludedByPlayback, InRpc
  <2> QED
    BY <1>5, <2>1, <2>2 DEF Wire
<1>6. ASSUME (\E t \in Threads : Stream(t)) \/ DeviceStep \/ UNCHANGED allVars
      PROVE  Exclusion'
  BY <1>6 DEF Stream, DeliverStream, StreamReturns, StreamMessage, DeviceStep, remoteVars,
              allVars, Exclusion, UploadExcludedByPlayback, InRpc, At
<1> QED
  BY <1>1, <1>2, <1>3, <1>4, <1>5, <1>6 DEF RemoteNext, Client

\* If one thread plays back, as on the host, whose io worker does, no upload
\* of any other thread is under way during its Playback RPC.
THEOREM UploadsExcluded ==
  ASSUME OnePlayer
  PROVE  RemoteSpec => []UploadExcludedByPlayback
<1>1. RemoteInit => Exclusion
  BY DEF RemoteInit, Exclusion, UploadExcludedByPlayback, InRpc, At, ThreadIdle
<1>2. RemoteInv /\ Exclusion /\ [RemoteNext]_allVars => Exclusion'
  BY OnePlayer, StepExclusion DEF RemoteInv
<1>3. Exclusion => UploadExcludedByPlayback
  BY DEF Exclusion
<1> QED
  BY <1>1, <1>2, <1>3, RemoteInvHolds, PTL DEF RemoteSpec
=============================================================================
