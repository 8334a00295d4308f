---------------------------- MODULE PlaybackProofs ----------------------------
(***************************************************************************)
(* The safety properties of DevicePlayback, for any number of handlers,    *)
(* events and playbacks.                                                   *)
(***************************************************************************)
EXTENDS DevicePlayback, SequenceTheorems, TLAPS

Entered(h) == rpc[h].op = "Subscribe" /\ rpc[h].pc # "ret"

\* A free thread has no call, an upload brings a recording, the task under way is
\* a playback's, and an event is written only within the batch.
CallsMatch ==
  /\ \A h \in Handlers : rpc[h].pc = "idle" <=> rpc[h].op = "none"
  /\ \A h \in Handlers : rpc[h].op = "Upload" => rpc[h].val \in 0..MaxEvents
  /\ worker.pc # "idle" => rpc[worker.task].op = "Playback"
  /\ worker.pc = "write" => worker.i < worker.batch

\* Past the reset, the flag is set only by a stop of this playback; and from the
\* moment of that stop the loop passes its head once at most.
StopSeen ==
  /\ worker.pc \in {"check", "write", "end"} /\ local.stopRequested
       => history.stopAt # "none"
  /\ history.stopAt = "none" => history.late = 0
  /\ worker.pc = "reset" => history.stopAt \in {"none", "reset"}
  /\ history.stopAt \in {"check", "write", "end"} =>
       /\ history.late =< 1
       /\ worker.pc # "idle" => local.stopRequested
       /\ worker.pc = "write" => history.late = 0

PlaybackInv ==
  /\ TypeOK /\ CallsMatch /\ TasksMatchWaiters
  /\ PlayingMeansPlaying /\ OneSubscriber /\ StopSeen /\ StaleStopIgnored

Rpcs == [op : {"none", "Upload", "Playback", "Subscribe", "Stop"},
         pc : {"idle", "reset", "post", "posted", "mark", "release", "drain",
               "loop", "acquire", "read", "write", "exit", "stop", "ret"},
         val : -1 .. (MaxEvents + 2), cancelled : BOOLEAN]

-----------------------------------------------------------------------------
(* The queue of tasks.                                                     *)

\* A handler's task is queued behind those that wait.
LEMMA Posting ==
  ASSUME NEW s \in Seq(Handlers), NEW h \in Handlers
  PROVE  /\ Append(s, h) \in Seq(Handlers)
         /\ Len(s) \in Nat /\ DOMAIN s = 1..Len(s) /\ DOMAIN Append(s, h) = 1..(Len(s) + 1)
         /\ \A i \in 1..Len(s) : Append(s, h)[i] = s[i]
         /\ Append(s, h)[Len(s) + 1] = h
BY AppendProperties

\* The worker takes the oldest task and moves the others up by one.
LEMMA Taking ==
  ASSUME NEW s \in Seq(Handlers), s # <<>>
  PROVE  /\ Head(s) \in Handlers /\ Head(s) = s[1] /\ Tail(s) \in Seq(Handlers)
         /\ Len(s) \in Nat /\ Len(s) >= 1
         /\ DOMAIN s = 1..Len(s) /\ DOMAIN Tail(s) = 1..(Len(s) - 1)
         /\ \A i \in 1..(Len(s) - 1) : Tail(s)[i] = s[i + 1]
BY HeadTailProperties, EmptySeq

-----------------------------------------------------------------------------
(* What a step of a handler does.                                          *)

HandlerStep(h) == Call(h) \/ Continue(h) \/ Cancel(h) \/ Return(h)

\* It changes the handler's own call, and posts at most its own task.
LEMMA HandlerFrame ==
  ASSUME PlaybackInv, NEW h \in Handlers, HandlerStep(h)
  PROVE  /\ rpc' \in [Handlers -> Rpcs]
         /\ \A g \in Handlers \ {h} : rpc'[g] = rpc[g]
         /\ worker' = worker
         /\ rpc'[h].pc = "idle" <=> rpc'[h].op = "none"
         /\ rpc'[h].op = "Upload" => rpc'[h].val \in 0..MaxEvents
         /\ rpc[h].pc = "posted" => rpc'[h].op = rpc[h].op
         /\ \/ queue' = queue /\ (rpc'[h].pc = "posted" <=> rpc[h].pc = "posted")
            \/ queue' = Append(queue, h) /\ rpc'[h].pc = "posted" /\ rpc[h].pc # "posted"
<1>1. rpc \in [Handlers -> Rpcs] /\ rpc[h] \in Rpcs /\ MaxEvents \in Nat
  BY PlaybackAssumption DEF PlaybackInv, TypeOK, Rpcs
<1>2. /\ rpc[h].pc = "idle" <=> rpc[h].op = "none"
      /\ rpc[h].op = "Upload" => rpc[h].val \in 0..MaxEvents
  BY DEF PlaybackInv, CallsMatch
<1>3. ASSUME NEW op \in {"Upload", "Playback", "Subscribe", "Stop"},
             NEW pc \in {"reset", "posted", "drain", "stop", "ret"},
             NEW val \in 0..MaxEvents, Start(h, op, pc, val)
      PROVE  /\ rpc' \in [Handlers -> Rpcs] /\ \A g \in Handlers \ {h} : rpc'[g] = rpc[g]
             /\ rpc'[h].op = op /\ rpc'[h].pc = pc /\ rpc'[h].val = val /\ rpc[h].pc = "idle"
  <2> DEFINE r == [op |-> op, pc |-> pc, val |-> val, cancelled |-> FALSE]
  <2>1. r \in Rpcs /\ r.op = op /\ r.pc = pc /\ r.val = val
    BY <1>1, <1>3 DEF Rpcs
  <2>2. rpc' = [rpc EXCEPT ![h] = r] /\ rpc[h].pc = "idle"
    BY <1>3 DEF Start
  <2> HIDE DEF r
  <2> QED
    BY <1>1, <2>1, <2>2
<1>4. ASSUME NEW op \in {"Playback", "Subscribe", "Stop"},
             NEW from \in {"reset", "post", "mark", "release", "drain",
               "loop", "acquire", "read", "write", "exit", "stop"},
             NEW to \in {"post", "posted", "mark", "release",
               "loop", "acquire", "read", "exit", "ret"}, Step(h, op, from, to)
      PROVE  /\ rpc' \in [Handlers -> Rpcs] /\ \A g \in Handlers \ {h} : rpc'[g] = rpc[g]
             /\ rpc'[h].op = op /\ rpc'[h].pc = to /\ rpc[h].op = op /\ rpc[h].pc = from
  <2>1. [rpc[h] EXCEPT !.pc = to] \in Rpcs
    BY <1>1, <1>4 DEF Rpcs
  <2> QED
    BY <1>1, <1>4, <2>1 DEF Step
<1>5. CASE \E n \in 0..MaxEvents : Upload(h, n)
  BY <1>1, <1>3, <1>5 DEF Upload, Post
<1>6. CASE PlaybackDrain(h) \/ SubscribeEnter(h) \/ SubscribeRefused(h) \/ StopRequest(h)
  BY <1>1, <1>3, <1>6 DEF PlaybackDrain, SubscribeEnter, SubscribeRefused, StopRequest
<1>7. CASE PlaybackReset(h) \/ markPlaybackStreamFinished(h) \/ PlaybackRelease(h)
           \/ SubscribeDrain(h) \/ SubscribeAcquire(h) \/ SubscribeExit(h) \/ StopClear(h)
  BY ZenonT(60), <1>4, <1>7 DEF PlaybackReset, markPlaybackStreamFinished, PlaybackRelease, SubscribeDrain,
                    SubscribeAcquire, SubscribeExit, StopClear
<1>8. CASE SubscribeLoop(h) \/ SubscribeRead(h) \/ SubscribeWrite(h)
  BY ZenonT(60), <1>4, <1>8 DEF SubscribeLoop, SubscribeRead, SubscribeWrite
<1>9. CASE PlaybackPost(h) \/ SubscribePost(h)
  BY ZenonT(60), <1>4, <1>9 DEF PlaybackPost, SubscribePost, Post
<1>10. CASE Cancel(h)
  BY Zenon, <1>1, <1>2, <1>10 DEF Cancel, Rpcs
<1>11. CASE Return(h)
  BY <1>1, <1>11, PlaybackAssumption DEF Return, Idle, Rpcs
<1> QED
  BY SMTT(30), <1>5, <1>6, <1>7, <1>8, <1>9, <1>10, <1>11 DEF HandlerStep, Call, Continue

\* After a handler's step, the tasks are still those of the handlers that wait.
LEMMA HandlerTasks ==
  ASSUME PlaybackInv, NEW h \in Handlers, HandlerStep(h)
  PROVE  TasksMatchWaiters' /\ queue' \in Seq(Handlers)
<1>1. queue \in Seq(Handlers)
  BY DEF PlaybackInv, TypeOK
<1>2. CASE queue' = queue /\ (rpc'[h].pc = "posted" <=> rpc[h].pc = "posted")
  BY <1>1, <1>2, HandlerFrame DEF PlaybackInv, TasksMatchWaiters
<1>3. CASE queue' = Append(queue, h) /\ rpc'[h].pc = "posted" /\ rpc[h].pc # "posted"
  <2>1. /\ queue' \in Seq(Handlers) /\ Len(queue) \in Nat /\ DOMAIN queue = 1..Len(queue)
        /\ DOMAIN queue' = 1..(Len(queue) + 1) /\ queue'[Len(queue) + 1] = h
        /\ \A i \in 1..Len(queue) : queue'[i] = queue[i]
    BY <1>1, <1>3, Posting
  <2>2. h # worker.task /\ \A i \in 1..Len(queue) : queue[i] # h
    BY <1>3, <2>1 DEF PlaybackInv, TasksMatchWaiters
  <2>3. \A i \in DOMAIN queue' : i \in 1..Len(queue) \/ i = Len(queue) + 1
    BY <2>1
  <2>4. \A g \in Handlers : rpc'[g].pc = "posted" <=>
          (g = worker'.task \/ \E k \in DOMAIN queue' : queue'[k] = g)
    <3>1. \A g \in Handlers : (\E k \in DOMAIN queue' : queue'[k] = g) <=>
                              (g = h \/ \E k \in DOMAIN queue : queue[k] = g)
      BY <2>1, <2>3
    <3>2. \A g \in Handlers : rpc'[g].pc = "posted" <=> (g = h \/ rpc[g].pc = "posted")
      BY <1>3, HandlerFrame
    <3> QED
      BY <3>1, <3>2, HandlerFrame DEF PlaybackInv, TasksMatchWaiters
  <2>5. /\ \A j, k \in DOMAIN queue' : queue'[j] = queue'[k] => j = k
        /\ \A k \in DOMAIN queue' : queue'[k] # worker'.task
    BY SMTT(30), <2>1, <2>2, <2>3, HandlerFrame DEF PlaybackInv, TasksMatchWaiters
  <2> QED
    BY <2>1, <2>4, <2>5, HandlerFrame DEF PlaybackInv, TasksMatchWaiters
<1> QED
  BY <1>2, <1>3, HandlerFrame

-----------------------------------------------------------------------------
(* What a step of the worker does.                                         *)

\* It ends the first task at once, begins it, goes on with it, or ends it.
AtOnce(to) ==
  /\ queue # <<>> /\ worker.pc = "idle" /\ worker' = worker /\ queue' = Tail(queue)
  /\ to = "ret" <=> rpc[Head(queue)].op = "Upload"
  /\ \E v \in -1 .. (MaxEvents + 2) :
       /\ to = "ret" => v = 0
       /\ rpc' = [rpc EXCEPT ![Head(queue)].pc = to, ![Head(queue)].val = v]
Begins ==
  /\ queue # <<>> /\ worker.pc = "idle" /\ queue' = Tail(queue) /\ rpc' = rpc
  /\ worker'.pc = "reset" /\ worker'.task = Head(queue)
GoesOn ==
  /\ worker.pc # "idle" /\ worker'.pc # "idle" /\ worker'.task = worker.task
  /\ UNCHANGED <<rpc, queue>>
Ends ==
  /\ worker.pc # "idle" /\ worker' = WorkerIdle /\ queue' = queue
  /\ \E v \in -1 .. (MaxEvents + 2) :
       rpc' = [rpc EXCEPT ![worker.task].pc = "mark", ![worker.task].val = v]

\* A step of the worker answers a task at once, or begins, goes on with or ends a
\* playback.
LEMMA WorkFrame ==
  ASSUME PlaybackInv, Work
  PROVE  (\E to \in {"ret", "write", "mark"} : AtOnce(to)) \/ Begins \/ GoesOn \/ Ends
<1>1. MaxEvents \in Nat /\ local.index \in -1 .. (MaxEvents + 2)
      /\ 0 \in -1 .. (MaxEvents + 2) /\ 1 \in -1 .. (MaxEvents + 2)
      /\ 2 \in -1 .. (MaxEvents + 2)
  BY PlaybackAssumption DEF PlaybackInv, TypeOK
<1>2. CASE WorkUpload \/ WorkIndex \/ WorkNoRecording
  <2>1. WorkUpload => AtOnce("ret")
    BY Zenon, <1>1 DEF WorkUpload, Take, Finish, AtOnce
  <2>2. WorkIndex => AtOnce("write")
    BY Zenon, <1>1 DEF WorkIndex, Take, Finish, AtOnce
  <2>3. WorkNoRecording => AtOnce("mark")
    BY Zenon, <1>1 DEF WorkNoRecording, Take, Finish, AtOnce
  <2> QED
    BY <1>2, <2>1, <2>2, <2>3
<1>3. CASE WorkBegin
  BY <1>3 DEF WorkBegin, Take, Begins
<1>4. CASE WorkReset \/ WorkCheck \/ WorkWrite
  BY ZenonT(60), <1>4 DEF WorkReset, WorkCheck, WorkWrite, PlaybackInv, TypeOK, GoesOn
<1>5. CASE WorkWriteFails \/ WorkEnd
  BY <1>1, <1>5 DEF WorkWriteFails, WorkEnd, Finish, Ends
<1> QED
  BY <1>2, <1>3, <1>4, <1>5 DEF Work

\* The first task's handler waits for it, and no other task is its own.
LEMMA FirstTask ==
  ASSUME PlaybackInv, queue # <<>>, worker.pc = "idle"
  PROVE  /\ Head(queue) \in Handlers /\ rpc[Head(queue)].pc = "posted"
         /\ \A i \in DOMAIN Tail(queue) : Tail(queue)[i] # Head(queue)
         /\ \A g \in Handlers \ {Head(queue)} :
              rpc[g].pc = "posted" <=> \E i \in DOMAIN Tail(queue) : Tail(queue)[i] = g
         /\ \A i, j \in DOMAIN Tail(queue) : Tail(queue)[i] = Tail(queue)[j] => i = j
         /\ Tail(queue) \in Seq(Handlers)
         /\ \A i \in DOMAIN Tail(queue) : Tail(queue)[i] \in Handlers
<1>1. /\ Head(queue) \in Handlers /\ Head(queue) = queue[1] /\ Tail(queue) \in Seq(Handlers)
      /\ Len(queue) \in Nat /\ Len(queue) >= 1
      /\ DOMAIN queue = 1..Len(queue) /\ DOMAIN Tail(queue) = 1..(Len(queue) - 1)
      /\ \A i \in 1..(Len(queue) - 1) : Tail(queue)[i] = queue[i + 1]
  BY Taking DEF PlaybackInv, TypeOK
<1>2. \A i \in 1..(Len(queue) - 1) : i + 1 \in 1..Len(queue) /\ i + 1 # 1
  BY <1>1
<1>3. \A i \in 1..Len(queue) : i = 1 \/ (i - 1 \in 1..(Len(queue) - 1) /\ queue[i] = Tail(queue)[i - 1])
  BY <1>1
<1>4. /\ \A g \in Handlers : rpc[g].pc = "posted" <=> \E k \in 1..Len(queue) : queue[k] = g
      /\ \A j, k \in 1..Len(queue) : queue[j] = queue[k] => j = k
  BY <1>1, PlaybackAssumption DEF PlaybackInv, TasksMatchWaiters
<1>5. \A i \in DOMAIN Tail(queue) : Tail(queue)[i] \in Handlers
  BY <1>1
<1>6. /\ \A i \in DOMAIN Tail(queue) : Tail(queue)[i] # Head(queue)
      /\ \A i, j \in DOMAIN Tail(queue) : Tail(queue)[i] = Tail(queue)[j] => i = j
  BY <1>1, <1>2, <1>4
<1>7. ASSUME NEW g \in Handlers \ {Head(queue)}
      PROVE  rpc[g].pc = "posted" <=> \E i \in DOMAIN Tail(queue) : Tail(queue)[i] = g
  <2>1. ASSUME NEW k \in 1..Len(queue), queue[k] = g
        PROVE  \E i \in DOMAIN Tail(queue) : Tail(queue)[i] = g
    BY Zenon, <1>1, <1>3, <2>1
  <2>2. ASSUME NEW i \in DOMAIN Tail(queue), Tail(queue)[i] = g
        PROVE  \E k \in 1..Len(queue) : queue[k] = g
    BY <1>1, <1>2, <2>2
  <2> QED
    BY <1>4, <2>1, <2>2
<1>8. rpc[Head(queue)].pc = "posted"
  BY <1>1, <1>4
<1> QED
  BY <1>1, <1>5, <1>6, <1>7, <1>8

\* After a step of the worker, the tasks are still those of the handlers that wait.
LEMMA WorkTasks ==
  ASSUME PlaybackInv, Work
  PROVE  /\ TasksMatchWaiters' /\ queue' \in Seq(Handlers) /\ rpc' \in [Handlers -> Rpcs]
         /\ \A h \in Handlers : rpc'[h].pc = "idle" <=> rpc'[h].op = "none"
         /\ \A h \in Handlers : rpc'[h].op = rpc[h].op
         /\ \A h \in Handlers : rpc'[h].op = "Upload" => rpc'[h].val \in 0..MaxEvents
         /\ \A h \in Handlers : rpc[h].op = "Subscribe" =>
              (rpc'[h].pc = "ret" <=> rpc[h].pc = "ret")
<1>1. /\ rpc \in [Handlers -> Rpcs] /\ queue \in Seq(Handlers)
      /\ worker.pc # "idle" => worker.task \in Handlers /\ rpc[worker.task].pc = "posted"
      /\ \A h \in Handlers : rpc[h].pc = "idle" <=> rpc[h].op = "none"
      /\ \A h \in Handlers : rpc[h].op = "Upload" => rpc[h].val \in 0..MaxEvents
      /\ worker.pc # "idle" => rpc[worker.task].op = "Playback"
      /\ 0 \in 0..MaxEvents
  BY PlaybackAssumption DEF PlaybackInv, TypeOK, TasksMatchWaiters, Rpcs, CallsMatch
<1>2. ASSUME NEW h \in Handlers, rpc[h].pc = "posted", NEW to \in {"ret", "write", "mark"},
             NEW v \in -1 .. (MaxEvents + 2),
             rpc' = [rpc EXCEPT ![h].pc = to, ![h].val = v],
             rpc[h].op = "Upload" => v = 0
      PROVE  /\ rpc' \in [Handlers -> Rpcs] /\ \A g \in Handlers \ {h} : rpc'[g] = rpc[g]
             /\ rpc'[h].pc = to /\ rpc'[h].op = rpc[h].op /\ rpc[h].op # "none"
             /\ rpc'[h].op = "Upload" => rpc'[h].val \in 0..MaxEvents
  <2>1. rpc[h] \in Rpcs /\ rpc[h].op # "none"
    BY <1>1, <1>2
  <2> DEFINE r == [rpc[h] EXCEPT !.pc = to, !.val = v]
  <2>2. r \in Rpcs /\ r.pc = to /\ r.op = rpc[h].op /\ r.val = v
    BY Zenon, <1>2, <2>1 DEF Rpcs
  <2>3. rpc' = [rpc EXCEPT ![h] = r]
    BY Zenon, <1>1, <1>2 DEF Rpcs
  <2>4. rpc[h].op = "Upload" => v \in 0..MaxEvents
    BY <1>1, <1>2
  <2> HIDE DEF r
  <2>5. rpc' \in [Handlers -> Rpcs] /\ rpc'[h] = r /\ \A g \in Handlers \ {h} : rpc'[g] = rpc[g]
    BY <1>1, <2>2, <2>3
  <2> QED
    BY <2>1, <2>2, <2>4, <2>5
<1>3. CASE \E to \in {"ret", "write", "mark"} : AtOnce(to)
  <2> DEFINE h == Head(queue)
  <2>1. PICK to \in {"ret", "write", "mark"} : AtOnce(to)
    BY <1>3
  <2>2. /\ h \in Handlers /\ rpc[h].pc = "posted"
        /\ \A i \in DOMAIN queue' : queue'[i] # h /\ queue'[i] \in Handlers
        /\ \A g \in Handlers \ {h} : rpc[g].pc = "posted" <=> \E i \in DOMAIN queue' : queue'[i] = g
        /\ \A i, j \in DOMAIN queue' : queue'[i] = queue'[j] => i = j
        /\ queue' \in Seq(Handlers) /\ worker.pc = "idle" /\ worker' = worker
    BY <2>1, FirstTask DEF AtOnce
  <2>3. /\ rpc' \in [Handlers -> Rpcs] /\ \A g \in Handlers \ {h} : rpc'[g] = rpc[g]
        /\ rpc'[h].pc = to /\ rpc'[h].op = rpc[h].op /\ rpc[h].op # "none"
        /\ rpc'[h].op = "Upload" => rpc'[h].val \in 0..MaxEvents
        /\ to = "ret" => rpc[h].op = "Upload"
    <3>1. PICK v \in -1 .. (MaxEvents + 2) :
            (to = "ret" => v = 0) /\ rpc' = [rpc EXCEPT ![h].pc = to, ![h].val = v]
      BY Zenon, <2>1 DEF AtOnce
    <3>2. to = "ret" <=> rpc[h].op = "Upload"
      BY <2>1 DEF AtOnce
    <3> HIDE DEF h
    <3>3. h \in Handlers /\ rpc[h].pc = "posted" /\ (rpc[h].op = "Upload" => v = 0)
      BY <2>2, <3>1, <3>2
    <3> QED
      BY ZenonT(60), <1>2, <3>1, <3>2, <3>3
  <2> HIDE DEF h
  <2>4. worker.task = NoHandler
    BY <2>2 DEF PlaybackInv, TasksMatchWaiters
  <2>5. TasksMatchWaiters'
    BY <2>2, <2>3, <2>4, PlaybackAssumption DEF TasksMatchWaiters
  <2> QED
    BY <1>1, <2>2, <2>3, <2>5
<1>4. CASE Begins
  <2>1. TasksMatchWaiters'
    BY <1>4, FirstTask, PlaybackAssumption DEF Begins, TasksMatchWaiters
  <2> QED
    BY <1>1, <1>4, <2>1, FirstTask DEF Begins
<1>5. CASE GoesOn
  BY <1>1, <1>5 DEF GoesOn, PlaybackInv, TasksMatchWaiters
<1>6. CASE Ends
  <2>1. /\ rpc' \in [Handlers -> Rpcs] /\ \A g \in Handlers \ {worker.task} : rpc'[g] = rpc[g]
        /\ rpc'[worker.task].pc = "mark" /\ rpc'[worker.task].op = rpc[worker.task].op
        /\ rpc[worker.task].op # "none"
    BY Zenon, <1>1, <1>2, <1>6 DEF Ends
  <2>2. worker' = WorkerIdle /\ queue' = queue /\ worker.pc # "idle"
    BY <1>6 DEF Ends
  <2>3. TasksMatchWaiters'
    BY <1>1, <2>1, <2>2, PlaybackAssumption DEF PlaybackInv, TasksMatchWaiters, WorkerIdle
  <2> QED
    BY <1>1, <2>1, <2>2, <2>3
<1> QED
  BY <1>3, <1>4, <1>5, <1>6, WorkFrame

-----------------------------------------------------------------------------
(* Each step preserves the invariant.                                      *)

Members == [cached : 0..MaxEvents, playing : BOOLEAN,
            stopRequested : BOOLEAN, index : -1 .. (MaxEvents - 1)]
Stops == {"none", "reset", "check", "write", "end"}

\* A handler's step keeps the types.
LEMMA HandlerTypes ==
  ASSUME PlaybackInv, NEW h \in Handlers, HandlerStep(h)
  PROVE  TypeOK'
<1>1. /\ local \in Members /\ progress \in [sem : Nat, finished : BOOLEAN, active : BOOLEAN]
      /\ playbacks \in 0..MaxPlaybacks /\ history \in [stopAt : Stops, late : Nat]
      /\ MaxPlaybacks \in Nat
      /\ worker.pc \in {"idle", "reset", "check", "write", "end"}
  BY PlaybackAssumption DEF PlaybackInv, TypeOK, Members, Stops
<1>2. local' \in Members /\ history' \in [stopAt : Stops, late : Nat]
  <2>1. CASE StopRequest(h)
    <3>1. local' \in Members
      BY Zenon, <1>1, <2>1 DEF StopRequest, Members
    <3>2. worker.pc # "idle" => [history EXCEPT !.stopAt = worker.pc] \in [stopAt : Stops, late : Nat]
      BY <1>1 DEF Stops
    <3> QED
      BY <1>1, <2>1, <3>1, <3>2 DEF StopRequest
  <2>2. CASE StopClear(h)
    BY Zenon, <1>1, <2>2 DEF StopClear, Members
  <2>3. CASE ~StopRequest(h) /\ ~StopClear(h)
    BY <1>1, <2>3
       DEF HandlerStep, Call, Continue, Cancel, Return, Upload, PlaybackDrain, SubscribeEnter,
           SubscribeRefused, PlaybackReset, PlaybackPost, markPlaybackStreamFinished,
           PlaybackRelease, SubscribeDrain, SubscribeLoop, SubscribeAcquire, SubscribeRead,
           SubscribePost, SubscribeWrite, SubscribeExit
  <2> QED
    BY <2>1, <2>2, <2>3
<1>3. progress' \in [sem : Nat, finished : BOOLEAN, active : BOOLEAN]
  <2>1. CASE PlaybackDrain(h) \/ SubscribeDrain(h) \/ SubscribeAcquire(h) \/ PlaybackRelease(h)
    <3>1. progress.sem \in Nat /\ (progress.sem > 0 => progress.sem - 1 \in Nat)
      BY <1>1
    <3>2. /\ PlaybackDrain(h) \/ SubscribeDrain(h) => progress' = [progress EXCEPT !.sem = 0]
          /\ SubscribeAcquire(h) =>
               progress.sem > 0 /\ progress' = [progress EXCEPT !.sem = progress.sem - 1]
          /\ PlaybackRelease(h) => progress' = [progress EXCEPT !.sem = progress.sem + 1]
      BY DEF PlaybackDrain, SubscribeDrain, SubscribeAcquire, PlaybackRelease, Drain, Release
    <3> QED
      BY <1>1, <2>1, <3>1, <3>2
  <2>2. CASE PlaybackReset(h) \/ markPlaybackStreamFinished(h) \/ SubscribeEnter(h) \/ SubscribeExit(h)
    BY Zenon, <1>1, <2>2 DEF PlaybackReset, markPlaybackStreamFinished, SubscribeEnter, SubscribeExit
  <2>3. CASE UNCHANGED progress
    BY <1>1, <2>3
  <2> QED
    BY <2>1, <2>2, <2>3
       DEF HandlerStep, Call, Continue, Cancel, Return, Upload, SubscribeRefused, StopRequest,
           PlaybackPost, SubscribeLoop, SubscribeRead, SubscribePost, SubscribeWrite, StopClear
<1>4. playbacks' \in 0..MaxPlaybacks
  BY <1>1
     DEF HandlerStep, Call, Continue, Cancel, Return, Upload, PlaybackDrain, SubscribeEnter,
         SubscribeRefused, StopRequest, PlaybackReset, PlaybackPost, markPlaybackStreamFinished,
         PlaybackRelease, SubscribeDrain, SubscribeLoop, SubscribeAcquire, SubscribeRead,
         SubscribePost, SubscribeWrite, SubscribeExit, StopClear
<1> QED
  BY ZenonT(60), <1>2, <1>3, <1>4, HandlerFrame, HandlerTasks
     DEF PlaybackInv, TypeOK, Rpcs, Members, Stops

\* A handler touches stopRequested_ and playing_ only to stop.
LEMMA HandlerStops ==
  ASSUME PlaybackInv, NEW h \in Handlers, HandlerStep(h)
  PROVE  PlayingMeansPlaying' /\ StopSeen' /\ StaleStopIgnored'
<1>1. worker' = worker /\ local \in Members /\ history \in [stopAt : Stops, late : Nat]
      /\ worker.pc \in {"idle", "reset", "check", "write", "end"}
  BY SMTT(30), HandlerFrame DEF PlaybackInv, TypeOK, Members, Stops
<1>2. CASE StopRequest(h)
  <2>1. local'.stopRequested = TRUE /\ local'.playing = local.playing
    BY <1>1, <1>2 DEF StopRequest, Members
  <2>2. history' = IF history.stopAt = "none" /\ worker.pc # "idle"
                   THEN [history EXCEPT !.stopAt = worker.pc] ELSE history
    BY <1>2 DEF StopRequest
  <2>3. history'.late = history.late
        /\ history'.stopAt = IF history.stopAt = "none" /\ worker.pc # "idle"
                             THEN worker.pc ELSE history.stopAt
    BY <1>1, <2>2
  <2> QED
    BY <1>1, <2>1, <2>3 DEF PlaybackInv, PlayingMeansPlaying, StopSeen, StaleStopIgnored
<1>3. CASE ~StopRequest(h)
  <2>1. /\ history' = history /\ local'.stopRequested = local.stopRequested
        /\ local'.playing => local.playing
    BY <1>1, <1>3
       DEF HandlerStep, Call, Continue, Cancel, Return, Upload, PlaybackDrain, SubscribeEnter,
           SubscribeRefused, PlaybackReset, PlaybackPost, markPlaybackStreamFinished,
           PlaybackRelease, SubscribeDrain, SubscribeLoop, SubscribeAcquire, SubscribeRead,
           SubscribePost, SubscribeWrite, SubscribeExit, StopClear, Members
  <2> QED
    BY <1>1, <2>1 DEF PlaybackInv, PlayingMeansPlaying, StopSeen, StaleStopIgnored
<1> QED
  BY <1>2, <1>3

\* subscriberActive_ changes only as the handler enters or leaves.
LEMMA HandlerSubscribes ==
  ASSUME PlaybackInv, NEW h \in Handlers, HandlerStep(h)
  PROVE  OneSubscriber'
<1>1. rpc \in [Handlers -> Rpcs] /\ progress \in [sem : Nat, finished : BOOLEAN, active : BOOLEAN]
      /\ (rpc[h].pc = "idle" => rpc[h].op = "none")
  BY DEF PlaybackInv, TypeOK, Rpcs, CallsMatch
<1>2. \A g \in Handlers \ {h} : rpc'[g] = rpc[g]
  BY HandlerFrame
<1>3. CASE SubscribeEnter(h)
  <2>1. ~progress.active /\ progress'.active /\ Entered(h)'
    BY <1>1, <1>3 DEF SubscribeEnter, Start, Entered, Rpcs
  <2> QED
    BY <1>2, <2>1 DEF PlaybackInv, OneSubscriber, Subscribed, Entered
<1>4. CASE SubscribeExit(h)
  <2>1. Entered(h) /\ ~Entered(h)' /\ ~progress'.active
    BY <1>1, <1>4 DEF SubscribeExit, Step, Entered, Rpcs
  <2> QED
    BY <1>2, <2>1 DEF PlaybackInv, OneSubscriber, Subscribed, Entered
<1>5. CASE Return(h) \/ Cancel(h)
  <2>1. progress'.active = progress.active /\ (Entered(h)' <=> Entered(h))
    BY <1>1, <1>5 DEF Return, Cancel, Idle, Entered, Rpcs
  <2> QED
    BY <1>2, <2>1 DEF PlaybackInv, OneSubscriber, Subscribed, Entered
<1>6. CASE (\E n \in 0..MaxEvents : Upload(h, n)) \/ PlaybackDrain(h) \/ SubscribeRefused(h)
           \/ StopRequest(h)
  <2>1. progress'.active = progress.active /\ ~Entered(h)' /\ ~Entered(h)
    BY <1>1, <1>6 DEF Upload, PlaybackDrain, SubscribeRefused, StopRequest, Start, Drain,
                      Entered, Rpcs
  <2> QED
    BY <1>2, <2>1 DEF PlaybackInv, OneSubscriber, Subscribed, Entered
<1>7. CASE PlaybackReset(h) \/ PlaybackPost(h) \/ markPlaybackStreamFinished(h)
           \/ PlaybackRelease(h) \/ StopClear(h)
  <2>1. progress'.active = progress.active /\ ~Entered(h)' /\ ~Entered(h)
    BY <1>1, <1>7 DEF PlaybackReset, PlaybackPost, markPlaybackStreamFinished, PlaybackRelease,
                      StopClear, Step, Release, Entered, Rpcs
  <2> QED
    BY <1>2, <2>1 DEF PlaybackInv, OneSubscriber, Subscribed, Entered
<1>8. CASE SubscribeDrain(h) \/ SubscribeLoop(h) \/ SubscribeAcquire(h)
           \/ SubscribeRead(h) \/ SubscribePost(h) \/ SubscribeWrite(h)
  <2>1. progress'.active = progress.active /\ Entered(h)' /\ Entered(h)
    BY <1>1, <1>8 DEF SubscribeDrain, SubscribeLoop, SubscribeAcquire, SubscribeRead,
                      SubscribePost, SubscribeWrite, Step, Drain, Entered, Rpcs
  <2> QED
    BY <1>2, <2>1 DEF PlaybackInv, OneSubscriber, Subscribed, Entered
<1> QED
  BY <1>3, <1>4, <1>5, <1>6, <1>7, <1>8 DEF HandlerStep, Call, Continue

\* A handler's step keeps the invariant.
LEMMA HandlerInv ==
  ASSUME PlaybackInv, NEW h \in Handlers, HandlerStep(h)
  PROVE  PlaybackInv'
<1>1. CallsMatch'
  <2>1. worker.pc # "idle" => worker.task \in Handlers /\ rpc[worker.task].pc = "posted"
    BY PlaybackAssumption DEF PlaybackInv, TypeOK, TasksMatchWaiters
  <2> QED
    BY <2>1, HandlerFrame DEF PlaybackInv, CallsMatch
<1> QED
  BY <1>1, HandlerTypes, HandlerTasks, HandlerStops, HandlerSubscribes DEF PlaybackInv

Places == [pc : {"idle", "reset", "check", "write", "end"},
           task : Handlers \cup {NoHandler}, i : 0..MaxEvents, batch : 0..MaxEvents]

\* A step of the worker keeps the invariant.
LEMMA WorkInv ==
  ASSUME PlaybackInv, Work
  PROVE  PlaybackInv'
<1>1. /\ local \in Members /\ history \in [stopAt : Stops, late : Nat] /\ worker \in Places
      /\ progress \in [sem : Nat, finished : BOOLEAN, active : BOOLEAN]
      /\ worker.i =< worker.batch /\ playbacks \in 0..MaxPlaybacks /\ MaxEvents \in Nat
      /\ rpc \in [Handlers -> Rpcs]
  BY PlaybackAssumption DEF PlaybackInv, TypeOK, Members, Stops, Places, Rpcs
<1>2. WorkerIdle \in Places /\ WorkerIdle.i =< WorkerIdle.batch /\ WorkerIdle.pc = "idle"
  BY <1>1 DEF WorkerIdle, Places
<1> DEFINE Good == /\ local' \in Members /\ history' \in [stopAt : Stops, late : Nat]
                   /\ worker' \in Places /\ worker'.i =< worker'.batch
                   /\ progress' \in [sem : Nat, finished : BOOLEAN, active : BOOLEAN]
                   /\ progress'.active = progress.active /\ playbacks' = playbacks
                   /\ worker'.pc = "write" => worker'.i < worker'.batch
                   /\ PlayingMeansPlaying' /\ StopSeen' /\ StaleStopIgnored'
<1>3. ASSUME WorkUpload PROVE Good
  <2>1. /\ local' \in Members /\ ~local'.playing /\ local'.stopRequested = local.stopRequested
        /\ worker' = worker /\ worker.pc = "idle" /\ UNCHANGED <<progress, playbacks, history>>
    <3>1. Head(queue) \in Handlers /\ rpc[Head(queue)].op = "Upload"
      BY <1>3, FirstTask DEF WorkUpload, Take
    <3>2. rpc[Head(queue)].val \in 0..MaxEvents
      BY <3>1 DEF PlaybackInv, CallsMatch
    <3> QED
      BY Zenon, <1>1, <1>3, <3>2 DEF WorkUpload, Take, Members
  <2> QED
    BY <1>1, <2>1 DEF PlaybackInv, PlayingMeansPlaying, StopSeen, StaleStopIgnored
<1>4. ASSUME WorkIndex \/ WorkNoRecording PROVE Good
  <2>1. worker.pc = "idle" /\ UNCHANGED <<worker, local, progress, playbacks, history>>
    BY <1>4 DEF WorkIndex, WorkNoRecording, Take
  <2> QED
    BY <1>1, <2>1 DEF PlaybackInv, PlayingMeansPlaying, StopSeen, StaleStopIgnored
<1>5. ASSUME WorkBegin PROVE Good
  <2>1. Head(queue) \in Handlers
    BY <1>5, FirstTask DEF WorkBegin, Take
  <2>2. /\ worker' \in Places /\ worker'.pc = "reset" /\ worker'.i =< worker'.batch
        /\ local' \in Members /\ history' \in [stopAt : Stops, late : Nat]
        /\ history'.stopAt = "none" /\ history'.late = 0
        /\ UNCHANGED <<progress, playbacks>>
    <3>1. local.cached \in 0..MaxEvents /\ 0 \in 0..MaxEvents /\ 0 =< local.cached
      BY <1>1 DEF Members
    <3>2. worker' = [pc |-> "reset", task |-> Head(queue), i |-> 0, batch |-> local.cached]
          /\ history' = NoStop /\ UNCHANGED <<progress, playbacks>>
          /\ local' = [local EXCEPT !.playing = TRUE]
      BY <1>5 DEF WorkBegin
    <3>3. local' \in Members
      BY Zenon, <1>1, <3>2 DEF Members
    <3>4. worker' \in Places /\ worker'.pc = "reset" /\ worker'.i =< worker'.batch
      BY <2>1, <3>1, <3>2 DEF Places
    <3> QED
      BY <3>2, <3>3, <3>4 DEF Stops, NoStop
  <2> QED
    BY <1>1, <2>2 DEF PlaybackInv, PlayingMeansPlaying, StopSeen, StaleStopIgnored
<1>6. ASSUME WorkReset PROVE Good
  <2>1. /\ worker' \in Places /\ worker'.pc = "check" /\ worker'.i = worker.i
        /\ worker'.batch = worker.batch /\ worker.pc = "reset"
        /\ local' \in Members /\ local'.stopRequested = FALSE
        /\ UNCHANGED <<progress, playbacks, history>>
    <3>1. -1 \in -1 .. (MaxEvents - 1)
      BY <1>1
    <3>2. local' \in Members /\ local'.stopRequested = FALSE
      BY Zenon, <1>1, <1>6, <3>1 DEF WorkReset, Members
    <3>3. /\ worker' \in Places /\ worker'.pc = "check" /\ worker'.i = worker.i
          /\ worker'.batch = worker.batch /\ worker.pc = "reset"
      BY <1>1, <1>6 DEF WorkReset, Places
    <3> QED
      BY <1>6, <3>2, <3>3 DEF WorkReset
  <2> QED
    BY <1>1, <2>1 DEF PlaybackInv, PlayingMeansPlaying, StopSeen, StaleStopIgnored
<1>7. ASSUME WorkCheck PROVE Good
  <2>1. /\ worker' \in Places /\ worker'.i = worker.i /\ worker.pc = "check"
        /\ worker'.batch = worker.batch
        /\ worker'.pc = IF worker.i = worker.batch \/ local.stopRequested THEN "end" ELSE "write"
        /\ UNCHANGED <<local, progress, playbacks, history>>
    BY <1>1, <1>7 DEF WorkCheck, Places
  <2>2. worker.i \in Nat /\ worker.batch \in Nat /\ history.late \in Nat
    BY <1>1 DEF Places
  <2> QED
    BY <1>1, <2>1, <2>2 DEF PlaybackInv, PlayingMeansPlaying, StopSeen, StaleStopIgnored
<1>8. ASSUME WorkWrite PROVE Good
  <2>1. worker.i \in Nat /\ worker.batch \in Nat /\ history.late \in Nat
        /\ worker.i < worker.batch /\ worker.batch =< MaxEvents
    <3>1. worker.pc = "write"
      BY <1>8 DEF WorkWrite
    <3>2. worker.i < worker.batch
      BY <3>1 DEF PlaybackInv, CallsMatch
    <3> QED
      BY <1>1, <3>2 DEF Places
  <2>2. /\ worker' \in Places /\ worker'.i = worker.i + 1 /\ worker.pc = "write"
        /\ worker'.batch = worker.batch /\ worker'.pc = "check"
    <3>1. worker.i + 1 \in 0..MaxEvents
      BY <1>1, <2>1
    <3>2. worker' = [worker EXCEPT !.i = worker.i + 1, !.pc = "check"] /\ worker.pc = "write"
      BY <1>8 DEF WorkWrite
    <3> QED
      BY Zenon, <1>1, <3>1, <3>2 DEF Places
  <2>3. /\ local' \in Members /\ local'.stopRequested = local.stopRequested
        /\ local'.playing = local.playing
    <3>1. worker.i \in -1 .. (MaxEvents - 1)
      BY <1>1, <2>1
    <3> QED
      BY <1>1, <1>8, <3>1 DEF WorkWrite, Members
  <2>4. /\ progress' \in [sem : Nat, finished : BOOLEAN, active : BOOLEAN]
        /\ progress'.active = progress.active /\ playbacks' = playbacks
    BY <1>1, <1>8 DEF WorkWrite, Release
  <2>5. /\ history' \in [stopAt : Stops, late : Nat] /\ history'.stopAt = history.stopAt
        /\ history'.late = IF history.stopAt # "none" THEN history.late + 1 ELSE history.late
    BY <1>1, <1>8 DEF WorkWrite
  <2> QED
    BY <1>1, <2>1, <2>2, <2>3, <2>4, <2>5
       DEF PlaybackInv, PlayingMeansPlaying, StopSeen, StaleStopIgnored
<1>9. ASSUME WorkWriteFails \/ WorkEnd PROVE Good
  <2>1. /\ local' \in Members /\ ~local'.playing /\ worker' = WorkerIdle
        /\ UNCHANGED <<progress, playbacks, history>>
    BY Zenon, <1>1, <1>9 DEF WorkWriteFails, WorkEnd, Members
  <2> QED
    BY <1>1, <1>2, <2>1 DEF PlaybackInv, PlayingMeansPlaying, StopSeen, StaleStopIgnored
<1>10. Good
  BY <1>3, <1>4, <1>5, <1>6, <1>7, <1>8, <1>9 DEF Work
<1>11. TypeOK'
  BY <1>1, <1>10, WorkTasks DEF TypeOK, Members, Stops, Places, Rpcs
<1>12. OneSubscriber'
  BY SMTT(30), <1>10, WorkTasks DEF PlaybackInv, OneSubscriber, Subscribed
<1>13. CallsMatch'
  <2>1. worker'.pc # "idle" => rpc'[worker'.task].op = "Playback"
    <3>1. CASE WorkBegin
      BY <3>1, FirstTask DEF WorkBegin, Take
    <3>2. CASE WorkReset \/ WorkCheck \/ WorkWrite
      BY ZenonT(60), <1>1, <3>2 DEF WorkReset, WorkCheck, WorkWrite, Places, PlaybackInv, CallsMatch
    <3>3. CASE WorkUpload \/ WorkIndex \/ WorkNoRecording \/ WorkWriteFails \/ WorkEnd
      BY <1>2, <3>3 DEF WorkUpload, WorkIndex, WorkNoRecording, WorkWriteFails, WorkEnd, Take
    <3> QED
      BY <3>1, <3>2, <3>3 DEF Work
  <2> QED
    BY <1>10, <2>1, WorkTasks DEF CallsMatch
<1> QED
  BY <1>10, <1>11, <1>12, <1>13, WorkTasks DEF PlaybackInv

\* The invariant holds when the server starts.
LEMMA InitInv == PlaybackInit => PlaybackInv
<1> SUFFICES ASSUME PlaybackInit PROVE PlaybackInv
  OBVIOUS
<1>1. MaxEvents \in Nat /\ MaxPlaybacks \in Nat
  BY PlaybackAssumption
<1>2. TypeOK
  BY <1>1 DEF PlaybackInit, TypeOK, Idle, WorkerIdle, NoStop
<1>3. TasksMatchWaiters
  BY PlaybackAssumption DEF PlaybackInit, TasksMatchWaiters, Idle, WorkerIdle
<1>4. OneSubscriber
  BY DEF PlaybackInit, OneSubscriber, Subscribed, Idle
<1> QED
  BY <1>2, <1>3, <1>4 DEF PlaybackInv, PlaybackInit, CallsMatch, PlayingMeansPlaying, StopSeen,
                          StaleStopIgnored, Idle, WorkerIdle, NoStop

\* Every step, and every stutter, keeps the invariant.
LEMMA StepInv ==
  ASSUME PlaybackInv, [Next]_playbackVars
  PROVE  PlaybackInv'
<1>1. CASE UNCHANGED playbackVars
  BY SMTT(30), <1>1 DEF playbackVars, PlaybackInv, TypeOK, CallsMatch, TasksMatchWaiters,
              PlayingMeansPlaying, OneSubscriber, Subscribed, StopSeen, StaleStopIgnored
<1> QED
  BY <1>1, HandlerInv, WorkInv DEF Next, HandlerStep

\* The invariant holds in every reachable state.
LEMMA InvHolds == Spec => []PlaybackInv
<1>1. PlaybackInv /\ [Next]_playbackVars => PlaybackInv'
  BY StepInv
<1> QED
  BY <1>1, InitInv, PTL DEF Spec

-----------------------------------------------------------------------------
(* The properties.                                                         *)

\* playing_ is set only while the worker is inside LocalPlayback::playback.
THEOREM PlayingIsCurrent == Spec => []PlayingMeansPlaying
BY InvHolds, PTL DEF PlaybackInv

\* subscriberActive_ admits one subscriber, and is set exactly while it is there.
THEOREM SubscribersExclude == Spec => []OneSubscriber
BY InvHolds, PTL DEF PlaybackInv

\* A stop of an earlier playback never shortens a later one.
THEOREM StaleStops == Spec => []StaleStopIgnored
BY InvHolds, PTL DEF PlaybackInv

\* After a stop that comes past the reset, at most one event is written.
THEOREM StopsInLoop == Spec => []StopHonouredInLoop
<1>1. PlaybackInv => StopHonouredInLoop
  BY DEF PlaybackInv, StopSeen, StopHonouredInLoop
<1> QED
  BY <1>1, InvHolds, PTL
=============================================================================
