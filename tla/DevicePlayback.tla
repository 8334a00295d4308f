---------------------------- MODULE DevicePlayback ----------------------------
(***************************************************************************)
(* Playback on evrp-device: the handlers of GrpcPlaybackService, each on a *)
(* gRPC thread; PostedPlayback, which posts upload, playback and           *)
(* playbackIndex to the single io worker and calls stopPlayback directly;  *)
(* LocalPlayback; and the progress semaphore and flag they share.          *)
(*                                                                         *)
(* A recording is abstracted to its number of events.  A call that         *)
(* requireBusinessSession refuses touches none of this state and is not a  *)
(* step here (SessionLease has it).                                        *)
(***************************************************************************)
EXTENDS Integers, Sequences

CONSTANTS Handlers,     \* gRPC threads, one call at a time each
          NoHandler,
          Methods,      \* Methods[h]: what the caller behind h calls
          MaxEvents,    \* events of the longest recording
          MaxPlaybacks  \* bound: Playback calls in a behaviour

ASSUME PlaybackAssumption ==
  /\ NoHandler \notin Handlers
  /\ Methods \in [Handlers -> SUBSET {"Upload", "Playback", "Subscribe", "Stop"}]
  /\ MaxEvents \in Nat /\ MaxPlaybacks \in Nat

VARIABLES
  rpc,       \* per handler: its method, its place in it, the result of its
             \* task, and whether the caller has cancelled
  queue,     \* the io_context: handlers whose task is posted
  worker,    \* the io worker: its place, whose task it runs, i, batch.size()
  local,     \* LocalPlayback's members, cached_ as its size
  progress,  \* GrpcPlaybackService's semaphore and two flags
  playbacks, \* Playback calls so far (for the bound)
  history    \* where the running playback first met a stop, and the events
             \* it has written since

playbackVars == <<rpc, queue, worker, local, progress, playbacks, history>>

Idle == [op |-> "none", pc |-> "idle", val |-> 0, cancelled |-> FALSE]
WorkerIdle == [pc |-> "idle", task |-> NoHandler, i |-> 0, batch |-> 0]
NoStop == [stopAt |-> "none", late |-> 0]

PlaybackInit ==
  /\ rpc = [h \in Handlers |-> Idle]
  /\ queue = <<>>
  /\ worker = WorkerIdle
  /\ local = [cached |-> 0, playing |-> FALSE, stopRequested |-> FALSE, index |-> -1]
  /\ progress = [sem |-> 0, finished |-> FALSE, active |-> FALSE]
  /\ playbacks = 0
  /\ history = NoStop

Start(h, op, pc, val) ==
  /\ rpc[h].pc = "idle" /\ op \in Methods[h]
  /\ rpc' = [rpc EXCEPT ![h] = [op |-> op, pc |-> pc, val |-> val, cancelled |-> FALSE]]

Step(h, op, from, to) ==
  /\ rpc[h].op = op /\ rpc[h].pc = from
  /\ rpc' = [rpc EXCEPT ![h].pc = to]

\* SyncDispatchQueue::postSync: queue the task; the handler then waits.
Post(h) == queue' = Append(queue, h)

\* while (playbackProgressSem_.tryAcquire()) {}  Its last, failing try finds 0.
Drain == progress' = [progress EXCEPT !.sem = 0]
Release == progress' = [progress EXCEPT !.sem = @ + 1]

-----------------------------------------------------------------------------
(* The handlers.                                                           *)

Upload(h, n) ==
  /\ Start(h, "Upload", "posted", n)
  /\ Post(h)
  /\ UNCHANGED <<worker, local, progress, playbacks, history>>

PlaybackDrain(h) ==
  /\ playbacks < MaxPlaybacks
  /\ playbacks' = playbacks + 1
  /\ Start(h, "Playback", "reset", 0)
  /\ Drain
  /\ UNCHANGED <<queue, worker, local, history>>

PlaybackReset(h) ==
  /\ Step(h, "Playback", "reset", "post")
  /\ progress' = [progress EXCEPT !.finished = FALSE]
  /\ UNCHANGED <<queue, worker, local, playbacks, history>>

PlaybackPost(h) ==
  /\ Step(h, "Playback", "post", "posted")
  /\ Post(h)
  /\ UNCHANGED <<worker, local, progress, playbacks, history>>

\* A handler that wakes the subscriber before it says that it has finished.
markPlaybackStreamFinished_Late(h) ==
  /\ Step(h, "Playback", "mark", "release")
  /\ Release
  /\ UNCHANGED <<queue, worker, local, playbacks, history>>

markPlaybackStreamFinished(h) ==
  /\ Step(h, "Playback", "mark", "release")
  /\ progress' = [progress EXCEPT !.finished = TRUE]
  /\ UNCHANGED <<queue, worker, local, playbacks, history>>

PlaybackRelease(h) ==
  /\ Step(h, "Playback", "release", "ret")
  /\ Release
  /\ UNCHANGED <<queue, worker, local, playbacks, history>>

SubscribeEnter(h) ==
  /\ ~progress.active
  /\ Start(h, "Subscribe", "drain", 0)
  /\ progress' = [progress EXCEPT !.active = TRUE, !.finished = FALSE]
  /\ UNCHANGED <<queue, worker, local, playbacks, history>>

SubscribeRefused(h) ==
  /\ progress.active
  /\ Start(h, "Subscribe", "ret", 0)
  /\ UNCHANGED <<queue, worker, local, progress, playbacks, history>>

SubscribeDrain(h) ==
  /\ Step(h, "Subscribe", "drain", "loop")
  /\ Drain
  /\ UNCHANGED <<queue, worker, local, playbacks, history>>

SubscribeLoop(h) ==
  /\ Step(h, "Subscribe", "loop", IF rpc[h].cancelled THEN "exit" ELSE "acquire")
  /\ UNCHANGED <<queue, worker, local, progress, playbacks, history>>

SubscribeAcquire(h) ==
  /\ progress.sem > 0
  /\ Step(h, "Subscribe", "acquire", "read")
  /\ progress' = [progress EXCEPT !.sem = @ - 1]
  /\ UNCHANGED <<queue, worker, local, playbacks, history>>

SubscribeRead(h) ==
  /\ Step(h, "Subscribe", "read", IF progress.finished THEN "exit" ELSE "post")
  /\ UNCHANGED <<queue, worker, local, progress, playbacks, history>>

SubscribePost(h) ==
  /\ Step(h, "Subscribe", "post", "posted")
  /\ Post(h)
  /\ UNCHANGED <<worker, local, progress, playbacks, history>>

\* A failed write that returns at once, past the block that clears the flag.
SubscribeWrite_EarlyReturn(h) ==
  /\ Step(h, "Subscribe", "write", IF rpc[h].cancelled THEN "ret" ELSE "loop")
  /\ UNCHANGED <<queue, worker, local, progress, playbacks, history>>

\* writer->Write(msg): it fails once the call is cancelled.
SubscribeWrite(h) ==
  /\ Step(h, "Subscribe", "write", IF rpc[h].cancelled THEN "exit" ELSE "loop")
  /\ UNCHANGED <<queue, worker, local, progress, playbacks, history>>

SubscribeExit(h) ==
  /\ Step(h, "Subscribe", "exit", "ret")
  /\ progress' = [progress EXCEPT !.active = FALSE]
  /\ UNCHANGED <<queue, worker, local, playbacks, history>>

\* Stop, and LocalPlayback::stopPlayback on the handler's own thread:
\* stopRequested_ is stored before the mutex is taken.
StopRequest(h) ==
  /\ Start(h, "Stop", "stop", 0)
  /\ local' = [local EXCEPT !.stopRequested = TRUE]
  /\ history' = IF history.stopAt = "none" /\ worker.pc # "idle"
                THEN [history EXCEPT !.stopAt = worker.pc] ELSE history
  /\ UNCHANGED <<queue, worker, progress, playbacks>>

StopClear(h) ==
  /\ Step(h, "Stop", "stop", "ret")
  /\ local' = [local EXCEPT !.playing = FALSE]
  /\ UNCHANGED <<queue, worker, progress, playbacks, history>>

\* The subscriber goes away, or calls TryCancel.
Cancel(h) ==
  /\ rpc[h].op = "Subscribe" /\ rpc[h].pc # "ret" /\ ~rpc[h].cancelled
  /\ rpc' = [rpc EXCEPT ![h].cancelled = TRUE]
  /\ UNCHANGED <<queue, worker, local, progress, playbacks, history>>

\* The status reaches the caller and the thread is free for another call.
Return(h) ==
  /\ rpc[h].pc = "ret"
  /\ rpc' = [rpc EXCEPT ![h] = Idle]
  /\ UNCHANGED <<queue, worker, local, progress, playbacks, history>>

-----------------------------------------------------------------------------
(* The io worker.                                                          *)

\* Take the first task, if it is one of method op.
Take(op) ==
  /\ worker.pc = "idle" /\ queue # <<>> /\ rpc[Head(queue)].op = op
  /\ queue' = Tail(queue)

\* The packaged_task has its result: h's fut.get() returns it.
Finish(h, to, val) == rpc' = [rpc EXCEPT ![h].pc = to, ![h].val = val]

\* LocalPlayback::upload
WorkUpload ==
  /\ Take("Upload")
  /\ local' = [local EXCEPT !.cached = rpc[Head(queue)].val, !.playing = FALSE]
  /\ Finish(Head(queue), "ret", 0)
  /\ UNCHANGED <<worker, progress, playbacks, history>>

\* LocalPlayback::playbackIndex
WorkIndex ==
  /\ Take("Subscribe")
  /\ Finish(Head(queue), "write", local.index)
  /\ UNCHANGED <<worker, local, progress, playbacks, history>>

\* LocalPlayback::playback, nothing uploaded.
WorkNoRecording ==
  /\ Take("Playback")
  /\ local.cached = 0
  /\ Finish(Head(queue), "mark", 1)
  /\ UNCHANGED <<worker, local, progress, playbacks, history>>

\* LocalPlayback::playback, the block under mu_.
WorkBegin ==
  /\ Take("Playback")
  /\ local.cached # 0
  /\ worker' = [pc |-> "reset", task |-> Head(queue), i |-> 0, batch |-> local.cached]
  /\ local' = [local EXCEPT !.playing = TRUE]
  /\ history' = NoStop
  /\ UNCHANGED <<rpc, progress, playbacks>>

\* A playback that does not clear the stop of an earlier one.
WorkReset_KeepsStop ==
  /\ worker.pc = "reset"
  /\ local' = [local EXCEPT !.index = -1]
  /\ worker' = [worker EXCEPT !.pc = "check"]
  /\ UNCHANGED <<rpc, queue, progress, playbacks, history>>

WorkReset ==
  /\ worker.pc = "reset"
  /\ local' = [local EXCEPT !.stopRequested = FALSE, !.index = -1]
  /\ worker' = [worker EXCEPT !.pc = "check"]
  /\ UNCHANGED <<rpc, queue, progress, playbacks, history>>

\* A loop that looks at stopRequested_ only before its first event.
WorkCheck_FirstOnly ==
  /\ worker.pc = "check"
  /\ worker' = [worker EXCEPT !.pc =
       IF worker.i = worker.batch \/ (worker.i = 0 /\ local.stopRequested)
       THEN "end" ELSE "write"]
  /\ UNCHANGED <<rpc, queue, local, progress, playbacks, history>>

\* The loop's head: the bound, then stopRequested_; then the sleep.
WorkCheck ==
  /\ worker.pc = "check"
  /\ worker' = [worker EXCEPT !.pc =
       IF worker.i = worker.batch \/ local.stopRequested THEN "end" ELSE "write"]
  /\ UNCHANGED <<rpc, queue, local, progress, playbacks, history>>

WorkWrite ==
  /\ worker.pc = "write"
  /\ local' = [local EXCEPT !.index = worker.i]
  /\ Release
  /\ worker' = [worker EXCEPT !.i = @ + 1, !.pc = "check"]
  /\ history' = IF history.stopAt # "none" THEN [history EXCEPT !.late = @ + 1]
                                           ELSE history
  /\ UNCHANGED <<rpc, queue, playbacks>>

\* A failed write whose early return forgets playing_.
WorkWriteFails_KeepsPlaying ==
  /\ worker.pc = "write"
  /\ Finish(worker.task, "mark", 2)
  /\ worker' = WorkerIdle
  /\ UNCHANGED <<queue, local, progress, playbacks, history>>

WorkWriteFails ==
  /\ worker.pc = "write"
  /\ local' = [local EXCEPT !.playing = FALSE]
  /\ Finish(worker.task, "mark", 2)
  /\ worker' = WorkerIdle
  /\ UNCHANGED <<queue, progress, playbacks, history>>

\* A worker that forgets to make the playback's future ready.
WorkEnd_NoResult ==
  /\ worker.pc = "end"
  /\ local' = [local EXCEPT !.playing = FALSE]
  /\ worker' = WorkerIdle
  /\ UNCHANGED <<rpc, queue, progress, playbacks, history>>

WorkEnd ==
  /\ worker.pc = "end"
  /\ local' = [local EXCEPT !.playing = FALSE]
  /\ Finish(worker.task, "mark", 0)
  /\ worker' = WorkerIdle
  /\ UNCHANGED <<queue, progress, playbacks, history>>

-----------------------------------------------------------------------------

Work == \/ WorkUpload \/ WorkIndex \/ WorkNoRecording \/ WorkBegin
        \/ WorkReset \/ WorkCheck \/ WorkWrite \/ WorkWriteFails \/ WorkEnd

\* The steps of a call under way.
Continue(h) ==
  \/ PlaybackReset(h) \/ PlaybackPost(h)
  \/ markPlaybackStreamFinished(h) \/ PlaybackRelease(h)
  \/ SubscribeDrain(h) \/ SubscribeLoop(h) \/ SubscribeAcquire(h)
  \/ SubscribeRead(h) \/ SubscribePost(h) \/ SubscribeWrite(h)
  \/ SubscribeExit(h)
  \/ StopClear(h)

Call(h) ==
  \/ \E n \in 0..MaxEvents : Upload(h, n)
  \/ PlaybackDrain(h)
  \/ SubscribeEnter(h) \/ SubscribeRefused(h)
  \/ StopRequest(h)

Next == Work \/ \E h \in Handlers : Call(h) \/ Continue(h) \/ Cancel(h) \/ Return(h)

\* The operating system runs every thread that can run.
Fairness ==
  /\ WF_playbackVars(Work)
  /\ \A h \in Handlers : WF_playbackVars(Continue(h))

Spec == PlaybackInit /\ [][Next]_playbackVars /\ Fairness

-----------------------------------------------------------------------------
(* Properties.                                                             *)

\* Every variable keeps its type; the loop variable stays within the batch.
TypeOK ==
  /\ rpc \in [Handlers ->
       [op : {"none", "Upload", "Playback", "Subscribe", "Stop"},
        pc : {"idle", "reset", "post", "posted", "mark", "release", "drain",
              "loop", "acquire", "read", "write", "exit", "stop", "ret"},
        val : -1 .. (MaxEvents + 2), cancelled : BOOLEAN]]
  /\ queue \in Seq(Handlers)
  /\ worker \in [pc : {"idle", "reset", "check", "write", "end"},
                 task : Handlers \cup {NoHandler},
                 i : 0..MaxEvents, batch : 0..MaxEvents]
  /\ worker.i =< worker.batch
  /\ local \in [cached : 0..MaxEvents, playing : BOOLEAN,
                stopRequested : BOOLEAN, index : -1 .. (MaxEvents - 1)]
  /\ progress \in [sem : Nat, finished : BOOLEAN, active : BOOLEAN]
  /\ playbacks \in 0..MaxPlaybacks
  /\ history \in [stopAt : {"none", "reset", "check", "write", "end"}, late : Nat]

\* isPlayback() never reports a playback that is over: playing_ is set only
\* while the worker is inside LocalPlayback::playback, whatever mix of stops,
\* uploads and failed writes came before.
PlayingMeansPlaying == local.playing => worker.pc # "idle"

\* A stopPlayback whose store comes after playback has cleared the flag takes
\* effect: the loop writes at most one more event, the one it sleeps before.
StopHonouredInLoop == history.stopAt \in {"check", "write", "end"} => history.late =< 1

\* A stop meant for an earlier playback never cuts a later one short: a
\* playback leaves its loop early only if stopPlayback ran after it began.
StaleStopIgnored ==
  worker.pc = "end" /\ worker.i < worker.batch => history.stopAt # "none"

\* The handlers between the two blocks of SubscribePlayback under the mutex.
Subscribed == {h \in Handlers : rpc[h].op = "Subscribe" /\ rpc[h].pc # "ret"}

\* subscriberActive_ admits one subscriber at a time, and is cleared on every
\* way out, so that a later subscription is not refused for ever.
OneSubscriber ==
  /\ \A h, g \in Subscribed : h = g
  /\ progress.active <=> Subscribed # {}

\* Each queued or running task belongs to exactly one handler that waits for
\* it, so fut.get() returns once and with the result of its own task.
TasksMatchWaiters ==
  /\ \A h \in Handlers : rpc[h].pc = "posted" <=>
       (h = worker.task \/ \E k \in DOMAIN queue : queue[k] = h)
  /\ \A j, k \in DOMAIN queue : queue[j] = queue[k] => j = k
  /\ \A k \in DOMAIN queue : queue[k] # worker.task
  /\ worker.task = NoHandler <=> worker.pc = "idle"

Listening(h) == rpc[h].op = "Subscribe"
                /\ rpc[h].pc \in {"loop", "acquire", "read", "post", "posted", "write"}
Playing(h) == rpc[h].op = "Playback" /\ rpc[h].pc # "ret"
Unfinished(h) == Playing(h) /\ rpc[h].pc # "release"

\* A subscriber that has reset the flag and drained the semaphore before a
\* playback marks itself finished is woken by that playback's last release, or
\* by a later one, and its stream ends.
SubscriberReleased ==
  \A s \in Handlers :
    (Listening(s) /\ \E p \in Handlers : Unfinished(p)) ~> ~Listening(s)

\* proto/README.md, on Stop: it stops the playback.  Read: a playback that
\* stopPlayback finds running writes at most the event it is about to write.
StopHonoured == history.late =< 1
=============================================================================
