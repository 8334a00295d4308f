---------------------------- MODULE DispatchProofs ----------------------------
(***************************************************************************)
(* The safety properties of DispatchQueue, and that it implements          *)
(* SyncCall, for any callers and any components in any order.              *)
(***************************************************************************)
EXTENDS DispatchQueue, SequenceTheorems, TLAPS

Threads == Callers \cup {Owner}
Busy == worker.kind \in {"call", "barrier"}

\* Every task queued or running belongs to a thread that waits for it and for
\* no other task, and every waiting thread has one.
QueuedAwaited ==
  \A i \in 1..Len(io) : io[i].kind \in {"call", "barrier"} /\ at[io[i].who].pc = "wait"
QueuedDistinct == \A i, j \in 1..Len(io) : io[i].who = io[j].who => i = j
RunningAwaited ==
  Busy => at[worker.who].pc = "wait" /\ \A i \in 1..Len(io) : io[i].who # worker.who
WaiterHasTask ==
  \A c \in Threads : at[c].pc = "wait" =>
    (Busy /\ worker.who = c) \/ \E i \in 1..Len(io) : io[i].who = c

TasksAwaited == QueuedAwaited /\ QueuedDistinct /\ RunningAwaited /\ WaiterHasTask

\* A barrier is the owner's, for the component it is shutting down.
BarrierIsCurrent(task) ==
  task.kind = "barrier" => task.who = Owner /\ task.q = Current /\ task.q \notin shutdownDone

Barriers == BarrierIsCurrent(worker) /\ \A i \in 1..Len(io) : BarrierIsCurrent(io[i])

\* The owner's progress through the two rounds.
OwnerProgress ==
  /\ teardown.round = 0 => at[Owner].pc = "idle" /\ shutdownDone = {} /\ ~stopped
  /\ teardown.round > 0 => at[Owner].pc # "idle" /\ Quiet
  /\ \A j \in 1..(teardown.k - 1) : Order[j] \in shutdownDone
  /\ at[Owner].pc = "over" => Current \in shutdownDone
  /\ at[Owner].pc = "join" => teardown.round = 1
  /\ stopped <=> teardown.round = 2 \/ at[Owner].pc = "join"
  /\ stopped => Queues \subseteq shutdownDone /\ at[Owner].pc \notin {"post", "wait"}

DispatchInv == TypeOK /\ TasksAwaited /\ Barriers /\ OwnerProgress

-----------------------------------------------------------------------------
(* What the constants and the queue of tasks are like.                     *)

\* Order lists every queue, and there is at least one to shut down.
LEMMA OrderFacts ==
  /\ Len(Order) \in Nat /\ Len(Order) >= 1
  /\ \A k \in 1..Len(Order) : Order[k] \in Queues
  /\ \A q \in Queues : \E k \in 1..Len(Order) : q = Order[k]
<1>1. Order \in Seq(Queues) /\ Order # <<>>
  BY DispatchAssumption
<1>2. Len(Order) \in Nat /\ DOMAIN Order = 1..Len(Order)
  BY <1>1
<1> QED
  BY <1>1, <1>2, EmptySeq DEF Queues, Range

\* Posting to the io queue adds the task behind those that wait.
LEMMA Posting ==
  ASSUME NEW s \in Seq(Tasks), NEW t \in Tasks
  PROVE  /\ Append(s, t) \in Seq(Tasks)
         /\ Len(s) \in Nat /\ Len(Append(s, t)) = Len(s) + 1
         /\ \A i \in 1..Len(s) : Append(s, t)[i] = s[i]
         /\ Append(s, t)[Len(s) + 1] = t
BY AppendProperties

\* The worker takes the oldest task and moves the others up by one.
LEMMA Taking ==
  ASSUME NEW s \in Seq(Tasks), s # <<>>
  PROVE  /\ Head(s) \in Tasks /\ Head(s) = s[1] /\ Tail(s) \in Seq(Tasks)
         /\ Len(s) \in Nat /\ Len(s) >= 1 /\ Len(Tail(s)) = Len(s) - 1
         /\ \A i \in 1..Len(Tail(s)) : Tail(s)[i] = s[i + 1]
BY HeadTailProperties, EmptySeq

\* Every task, queued or in the worker's hands, has a poster and a queue.
LEMMA TaskFacts ==
  ASSUME TypeOK
  PROVE  /\ worker.who \in Threads /\ worker.q \in Queues
         /\ \A i \in 1..Len(io) : io[i].who \in Threads /\ io[i].q \in Queues
         /\ Len(io) \in Nat
<1>1. io \in Seq(Tasks) /\ worker \in Tasks
  BY DEF TypeOK
<1>2. \A i \in 1..Len(io) : io[i] \in Tasks
  BY <1>1, ElementOfSeq
<1> QED
  BY <1>1, <1>2 DEF Tasks, Threads

\* The worker with nothing in hand, and the worker that has exited, are typed.
LEMMA EmptyFacts ==
  Empty \in Tasks /\ Empty.kind = "none" /\ [Empty EXCEPT !.kind = "exited"] \in Tasks
BY OrderFacts DEF Empty, Tasks

-----------------------------------------------------------------------------
(* Each step preserves the invariant.                                      *)

\* A thread that neither waits nor starts to leaves the tasks as they are.
LEMMA TasksKept ==
  ASSUME DispatchInv, NEW c \in Threads, at[c].pc # "wait", at'[c].pc # "wait",
         \A d \in Threads \ {c} : at'[d] = at[d], UNCHANGED <<io, worker>>
  PROVE  TasksAwaited'
<1>1. \A d \in Threads : (at'[d].pc = "wait") <=> (at[d].pc = "wait")
  OBVIOUS
<1> QED
  BY <1>1, TaskFacts DEF DispatchInv, TasksAwaited, QueuedAwaited, QueuedDistinct,
                         RunningAwaited, WaiterHasTask, Busy

\* The invariant holds before the first call and before teardown.
LEMMA InitInv == DispatchInit => DispatchInv
<1> SUFFICES ASSUME DispatchInit PROVE DispatchInv
  OBVIOUS
<1>1. Len(io) = 0 /\ io \in Seq(Tasks)
  BY DEF DispatchInit
<1>2. TypeOK
  <2>1. Nowhere \in [q : Queues, pc : {"idle", "check", "post", "wait", "done", "skipped",
                                       "barrier", "over", "join", "destroyed"}]
    BY OrderFacts DEF Nowhere
  <2>2. teardown \in [round : 0..2, k : 1..Len(Order)]
    BY OrderFacts DEF DispatchInit
  <2> QED
    BY Zenon, <1>1, <2>1, <2>2, EmptyFacts DEF DispatchInit, TypeOK
<1>3. TasksAwaited
  BY <1>1 DEF DispatchInit, TasksAwaited, QueuedAwaited, QueuedDistinct, RunningAwaited,
              WaiterHasTask, Busy, Threads, Nowhere, Empty
<1>4. Barriers
  BY <1>1 DEF DispatchInit, Barriers, BarrierIsCurrent, Empty
<1>5. OwnerProgress
  BY OrderFacts DEF DispatchInit, OwnerProgress, Nowhere
<1> QED
  BY <1>2, <1>3, <1>4, <1>5 DEF DispatchInv

\* A caller that enters postSync keeps the invariant.
LEMMA CallBeginInv ==
  ASSUME DispatchInv, NEW c \in Callers, NEW q \in Queues, CallBegin(c, q)
  PROVE  DispatchInv'
<1>1. TypeOK'
  BY DispatchAssumption DEF CallBegin, DispatchInv, TypeOK, Threads
<1>2. TasksAwaited'
  BY TasksKept DEF CallBegin, DispatchInv, TypeOK, Threads
<1>3. Barriers'
  BY DEF CallBegin, DispatchInv, Barriers, BarrierIsCurrent, Current
<1>4. OwnerProgress'
  BY DispatchAssumption
     DEF CallBegin, DispatchInv, TypeOK, OwnerProgress, Quiet, Current, Threads
<1> QED
  BY <1>1, <1>2, <1>3, <1>4 DEF DispatchInv

\* A call that tests shutdownDone_, or leaves on it, keeps the invariant.
LEMMA InCallInv ==
  ASSUME DispatchInv, NEW c \in Threads, CallSkip(c) \/ CallCheck(c)
  PROVE  DispatchInv'
<1>1. TypeOK'
  BY DispatchAssumption DEF CallSkip, CallCheck, DispatchInv, TypeOK, Threads
<1>2. TasksAwaited'
  BY TasksKept DEF CallSkip, CallCheck, DispatchInv, TypeOK, Threads
<1>3. Barriers'
  BY DEF CallSkip, CallCheck, DispatchInv, Barriers, BarrierIsCurrent, Current
<1>4. OwnerProgress'
  <2>1. /\ at'[c].pc \in {"skipped", "post"} /\ at[c].pc = "check"
        /\ \A d \in Threads \ {c} : at'[d] = at[d]
        /\ stopped => at'[c].pc = "skipped"
    BY DEF CallSkip, CallCheck, DispatchInv, TypeOK, OwnerProgress, Threads
  <2> QED
    BY <2>1, DispatchAssumption
       DEF CallSkip, CallCheck, DispatchInv, OwnerProgress, Quiet, Current, Threads
<1> QED
  BY <1>1, <1>2, <1>3, <1>4 DEF DispatchInv

\* A caller whose postSync returns keeps the invariant.
LEMMA CallReturnInv ==
  ASSUME DispatchInv, NEW c \in Callers, CallReturn(c)
  PROVE  DispatchInv'
<1>1. TypeOK'
  BY DispatchAssumption DEF CallReturn, DispatchInv, TypeOK, Threads
<1>2. TasksAwaited'
  BY TasksKept DEF CallReturn, DispatchInv, TypeOK, Threads
<1>3. Barriers'
  BY DEF CallReturn, DispatchInv, Barriers, BarrierIsCurrent, Current
<1>4. OwnerProgress'
  BY DispatchAssumption
     DEF CallReturn, DispatchInv, TypeOK, OwnerProgress, Quiet, Current, Threads
<1> QED
  BY <1>1, <1>2, <1>3, <1>4 DEF DispatchInv

\* A call that posts its task to the io queue keeps the invariant.
LEMMA CallPostInv ==
  ASSUME DispatchInv, NEW c \in Threads, CallPost(c)
  PROVE  DispatchInv'
<1> DEFINE t == [kind |-> "call", who |-> c, q |-> at[c].q]
<1>1. t \in Tasks /\ io \in Seq(Tasks)
  BY DEF DispatchInv, TypeOK, Tasks, Threads
<1> HIDE DEF t
<1>2. /\ io' \in Seq(Tasks) /\ Len(io) \in Nat /\ Len(io') = Len(io) + 1
      /\ \A i \in 1..Len(io) : io'[i] = io[i]
      /\ io'[Len(io) + 1] = t /\ t.kind = "call" /\ t.who = c
  BY <1>1, Posting DEF CallPost, t
<1>3. TypeOK'
  BY <1>2 DEF CallPost, DispatchInv, TypeOK, Threads
<1>4. TasksAwaited'
  <2>1. /\ at' = [at EXCEPT ![c].pc = "wait"] /\ worker' = worker /\ at[c].pc = "post"
        /\ \A d \in Threads \ {c} : at'[d] = at[d]
        /\ at'[c].pc = "wait" /\ worker.who \in Threads
    BY DEF CallPost, DispatchInv, TypeOK, Tasks, Threads
  <2>2. \A i \in 1..Len(io) : io[i].who \in Threads /\ io[i].who # c
    BY TaskFacts DEF CallPost, DispatchInv, TasksAwaited, QueuedAwaited
  <2>3. \A i \in 1..Len(io') : i \in 1..Len(io) \/ i = Len(io) + 1
    BY <1>2
  <2>4. QueuedAwaited'
    BY <1>2, <2>1, <2>2, <2>3 DEF DispatchInv, TasksAwaited, QueuedAwaited
  <2>5. QueuedDistinct'
    BY <1>2, <2>2, <2>3 DEF DispatchInv, TasksAwaited, QueuedDistinct
  <2>6. RunningAwaited'
    BY <1>2, <2>1, <2>2, <2>3 DEF DispatchInv, TasksAwaited, RunningAwaited, Busy
  <2>7. WaiterHasTask'
    BY <1>2, <2>1 DEF DispatchInv, TasksAwaited, WaiterHasTask, Busy
  <2> QED
    BY <2>4, <2>5, <2>6, <2>7 DEF TasksAwaited
<1>5. Barriers'
  BY <1>2 DEF CallPost, DispatchInv, Barriers, BarrierIsCurrent, Current
<1>6. OwnerProgress'
  BY DispatchAssumption DEF CallPost, DispatchInv, TypeOK, OwnerProgress, Quiet, Current, Threads
<1> QED
  BY <1>3, <1>4, <1>5, <1>6 DEF DispatchInv

\* The worker that takes the head of the io queue keeps the invariant.
LEMMA WorkerTakeInv ==
  ASSUME DispatchInv, WorkerTake
  PROVE  DispatchInv'
<1>1. /\ worker' = io[1] /\ io' \in Seq(Tasks) /\ worker' \in Tasks
      /\ Len(io) \in Nat /\ Len(io) >= 1 /\ Len(io') = Len(io) - 1
      /\ \A i \in 1..Len(io') : io'[i] = io[i + 1]
  BY Taking DEF WorkerTake, DispatchInv, TypeOK
<1>2. TypeOK'
  BY <1>1 DEF WorkerTake, DispatchInv, TypeOK
<1>3. TasksAwaited'
  <2>1. \A i \in 1..Len(io') : i + 1 \in 1..Len(io) /\ i + 1 # 1
    BY <1>1
  <2>2. \A c \in Threads : at[c].pc = "wait" => \E i \in 1..Len(io) : io[i].who = c
    BY DEF WorkerTake, DispatchInv, TasksAwaited, WaiterHasTask, Busy, Empty
  <2>3. \A i \in 1..Len(io) : i = 1 \/ (i - 1 \in 1..Len(io') /\ io'[i - 1] = io[i])
    BY <1>1
  <2>4. QueuedAwaited'
    BY <1>1, <2>1 DEF WorkerTake, DispatchInv, TasksAwaited, QueuedAwaited
  <2>5. QueuedDistinct'
    BY <1>1, <2>1 DEF DispatchInv, TasksAwaited, QueuedDistinct
  <2>6. RunningAwaited'
    BY <1>1, <2>1 DEF WorkerTake, DispatchInv, TasksAwaited, QueuedAwaited, QueuedDistinct,
                      RunningAwaited
  <2>7. WaiterHasTask'
    <3>1. Busy'
      BY <1>1 DEF DispatchInv, TasksAwaited, QueuedAwaited, Busy
    <3>2. \A c \in Threads : at'[c].pc = "wait" =>
            \E i \in 1..Len(io) : io[i].who = c /\ (i = 1 \/ i - 1 \in 1..Len(io'))
      BY <2>2, <2>3 DEF WorkerTake
    <3> QED
      BY <1>1, <2>3, <3>1, <3>2 DEF WaiterHasTask
  <2> QED
    BY <2>4, <2>5, <2>6, <2>7 DEF TasksAwaited
<1>4. Barriers'
  BY <1>1 DEF WorkerTake, DispatchInv, Barriers, BarrierIsCurrent, Current
<1>5. OwnerProgress'
  BY <1>1 DEF WorkerTake, DispatchInv, OwnerProgress, Quiet, Current
<1> QED
  BY <1>2, <1>3, <1>4, <1>5 DEF DispatchInv

\* The worker that runs a caller's task and wakes it keeps the invariant.
LEMMA WorkerCallInv ==
  ASSUME DispatchInv, WorkerCall
  PROVE  DispatchInv'
<1>1. /\ worker.who \in Threads /\ at[worker.who].pc = "wait"
      /\ \A i \in 1..Len(io) : io[i].who # worker.who /\ io[i].who \in Threads
      /\ worker' \in Tasks /\ worker'.kind = "none"
      /\ at'[worker.who].pc = "done"
      /\ \A d \in Threads \ {worker.who} : at'[d] = at[d]
  BY TaskFacts, EmptyFacts
     DEF WorkerCall, DispatchInv, TypeOK, TasksAwaited, RunningAwaited, Busy, Threads
<1>2. TypeOK'
  BY <1>1 DEF WorkerCall, DispatchInv, TypeOK, Threads
<1>3. TasksAwaited'
  BY <1>1 DEF WorkerCall, DispatchInv, TasksAwaited, QueuedAwaited, QueuedDistinct,
              RunningAwaited, WaiterHasTask, Busy
<1>4. Barriers'
  BY <1>1 DEF WorkerCall, DispatchInv, Barriers, BarrierIsCurrent, Current
<1>5. OwnerProgress'
  BY <1>1, DispatchAssumption
     DEF WorkerCall, DispatchInv, TypeOK, OwnerProgress, Quiet, Current, Threads
<1> QED
  BY <1>2, <1>3, <1>4, <1>5 DEF DispatchInv

\* The worker that runs a shutdown's barrier keeps the invariant.
LEMMA WorkerBarrierInv ==
  ASSUME DispatchInv, WorkerBarrier
  PROVE  DispatchInv'
<1>1. /\ worker.who = Owner /\ worker.q = Current /\ worker.q \in Queues
      /\ at[Owner].pc = "wait" /\ worker' \in Tasks /\ worker'.kind = "none"
      /\ \A i \in 1..Len(io) : /\ io[i].kind = "call" /\ io[i].who # Owner
                               /\ io[i].who \in Threads
  BY TaskFacts, EmptyFacts
     DEF WorkerBarrier, DispatchInv, TasksAwaited, QueuedAwaited, RunningAwaited,
         Barriers, BarrierIsCurrent, Busy
<1>2. TypeOK'
  BY SMTT(30), <1>1 DEF WorkerBarrier, DispatchInv, TypeOK
<1>3. TasksAwaited'
  <2>1. at'[Owner].pc = "over" /\ \A d \in Threads \ {Owner} : at'[d] = at[d]
    BY <1>1 DEF WorkerBarrier, DispatchInv, TypeOK, Threads
  <2> QED
    BY <1>1, <2>1 DEF WorkerBarrier, DispatchInv, TasksAwaited, QueuedAwaited, QueuedDistinct,
                      RunningAwaited, WaiterHasTask, Busy
<1>4. Barriers'
  BY <1>1 DEF WorkerBarrier, Barriers, BarrierIsCurrent
<1>5. OwnerProgress'
  BY <1>1, DispatchAssumption
     DEF WorkerBarrier, DispatchInv, TypeOK, OwnerProgress, Quiet, Current
<1> QED
  BY <1>2, <1>3, <1>4, <1>5 DEF DispatchInv

\* The worker whose run() returns after stop() keeps the invariant.
LEMMA WorkerExitInv ==
  ASSUME DispatchInv, WorkerExit
  PROVE  DispatchInv'
BY SMTT(30), OrderFacts
   DEF WorkerExit, DispatchInv, TypeOK, TasksAwaited, QueuedAwaited, QueuedDistinct,
       RunningAwaited, WaiterHasTask, Barriers, BarrierIsCurrent, OwnerProgress, Quiet,
       Tasks, Busy, Current, Empty

\* The owner alone moves, and neither waits nor starts to.
LEMMA OwnerMoves ==
  ASSUME DispatchInv, TypeOK', UNCHANGED <<io, worker, shutdownDone>>,
         at[Owner].pc # "wait", at'[Owner].pc # "wait",
         \A d \in Callers : at'[d] = at[d], OwnerProgress'
  PROVE  DispatchInv'
<1>1. TasksAwaited'
  BY TasksKept, DispatchAssumption DEF Threads
<1>2. Barriers'
  <2>1. worker.kind # "barrier" /\ \A i \in 1..Len(io) : io[i].kind # "barrier"
    BY DEF DispatchInv, TasksAwaited, QueuedAwaited, RunningAwaited, Barriers,
           BarrierIsCurrent, Busy
  <2> QED
    BY <2>1 DEF Barriers, BarrierIsCurrent
<1> QED
  BY <1>1, <1>2 DEF DispatchInv

\* The start of a component's shutdown moves the owner and no caller.
LEMMA StartShutdownFacts ==
  ASSUME TypeOK, NEW q \in Queues, StartShutdown(q)
  PROVE  /\ at' \in [Callers \cup {Owner} ->
              [q : Queues, pc : {"idle", "check", "post", "wait", "done", "skipped",
                                 "barrier", "over", "join", "destroyed"}]]
         /\ at'[Owner].pc \in {"check", "barrier"}
         /\ \A d \in Callers : at'[d] = at[d]
BY DispatchAssumption DEF TypeOK, StartShutdown

\* The owner that begins teardown keeps the invariant.
LEMMA BeginTeardownInv ==
  ASSUME DispatchInv, BeginTeardown
  PROVE  DispatchInv'
<1>1. TypeOK' /\ at'[Owner].pc \in {"check", "barrier"} /\ \A d \in Callers : at'[d] = at[d]
  BY StartShutdownFacts, OrderFacts DEF DispatchInv, TypeOK, BeginTeardown
<1>2. OwnerProgress'
  BY <1>1 DEF DispatchInv, OwnerProgress, Quiet, BeginTeardown
<1> QED
  BY SMTT(30), <1>1, <1>2, OwnerMoves DEF DispatchInv, OwnerProgress, BeginTeardown

\* The owner that goes on to the next component keeps the invariant.
LEMMA NextComponentInv ==
  ASSUME DispatchInv, NextComponent
  PROVE  DispatchInv'
<1>1. teardown \in [round : 0..2, k : 1..Len(Order)] /\ teardown.k + 1 \in 1..Len(Order)
  BY OrderFacts DEF DispatchInv, TypeOK, NextComponent
<1>2. TypeOK' /\ at'[Owner].pc \in {"check", "barrier"} /\ \A d \in Callers : at'[d] = at[d]
  BY SMTT(30), <1>1, StartShutdownFacts, OrderFacts DEF DispatchInv, TypeOK, NextComponent
<1>3. OwnerProgress'
  BY SMTT(30), <1>1, <1>2, OrderFacts DEF DispatchInv, OwnerProgress, Quiet, Current, NextComponent
<1> QED
  BY <1>2, <1>3, OwnerMoves DEF NextComponent

\* The owner that stops the io queue keeps the invariant.
LEMMA StopIoInv ==
  ASSUME DispatchInv, StopIo
  PROVE  DispatchInv'
<1>1. TypeOK' /\ at'[Owner].pc = "join" /\ \A d \in Callers : at'[d] = at[d]
  BY ZenonT(60), DispatchAssumption DEF DispatchInv, TypeOK, StopIo
<1>2. Queues \subseteq shutdownDone
  <2>1. \A k \in 1..Len(Order) : Order[k] \in shutdownDone
    BY OrderFacts DEF DispatchInv, OwnerProgress, Current, StopIo
  <2> QED
    BY <2>1, OrderFacts
<1>3. OwnerProgress'
  BY <1>1, <1>2 DEF DispatchInv, OwnerProgress, Quiet, StopIo
<1> QED
  BY <1>1, <1>3, OwnerMoves DEF StopIo

\* The owner that joins the exited worker keeps the invariant.
LEMMA JoinWorkerInv ==
  ASSUME DispatchInv, JoinWorker
  PROVE  DispatchInv'
<1>1. TypeOK' /\ at'[Owner].pc \in {"check", "barrier"} /\ \A d \in Callers : at'[d] = at[d]
  BY StartShutdownFacts, OrderFacts DEF DispatchInv, TypeOK, JoinWorker
<1>2. OwnerProgress'
  BY <1>1 DEF DispatchInv, OwnerProgress, Quiet, JoinWorker
<1> QED
  BY <1>1, <1>2, OwnerMoves DEF JoinWorker

\* The owner's steps that only move on keep the invariant.
LEMMA OwnerStepInv ==
  ASSUME DispatchInv, FinalReturn \/ BarrierSkip \/ Destroyed
  PROVE  DispatchInv'
<1>1. /\ TypeOK' /\ at'[Owner].pc \in {"barrier", "over", "destroyed"}
      /\ \A d \in Callers : at'[d] = at[d]
  BY SMTT(30), DispatchAssumption DEF DispatchInv, TypeOK, FinalReturn, BarrierSkip, Destroyed
<1>2. OwnerProgress'
  BY <1>1 DEF DispatchInv, TypeOK, OwnerProgress, Quiet, Current, FinalReturn, BarrierSkip, Destroyed
<1> QED
  BY <1>1, <1>2, OwnerMoves DEF FinalReturn, BarrierSkip, Destroyed

\* The owner that posts the barrier keeps the invariant.
LEMMA BarrierPostInv ==
  ASSUME DispatchInv, BarrierPost
  PROVE  DispatchInv'
<1> DEFINE t == [kind |-> "barrier", who |-> Owner, q |-> Current]
<1>1. t \in Tasks /\ io \in Seq(Tasks)
  BY OrderFacts DEF DispatchInv, TypeOK, Tasks, Current
<1> HIDE DEF t
<1>2. /\ io' \in Seq(Tasks) /\ Len(io) \in Nat /\ Len(io') = Len(io) + 1
      /\ \A i \in 1..Len(io) : io'[i] = io[i]
      /\ io'[Len(io) + 1] = t /\ t.kind = "barrier" /\ t.who = Owner /\ t.q = Current
  BY <1>1, Posting DEF BarrierPost, t
<1>3. TypeOK'
  BY <1>2 DEF BarrierPost, DispatchInv, TypeOK
<1>4. TasksAwaited'
  <2>1. /\ worker' = worker /\ at[Owner].pc = "barrier" /\ at'[Owner].pc = "wait"
        /\ \A d \in Threads \ {Owner} : at'[d] = at[d]
    BY DEF BarrierPost, DispatchInv, TypeOK, Threads
  <2>2. \A i \in 1..Len(io) : io[i].who \in Threads /\ io[i].who # Owner
    BY <2>1, TaskFacts DEF DispatchInv, TasksAwaited, QueuedAwaited
  <2>3. \A i \in 1..Len(io') : i \in 1..Len(io) \/ i = Len(io) + 1
    BY <1>2
  <2>4. QueuedAwaited'
    BY <1>2, <2>1, <2>2, <2>3 DEF DispatchInv, TasksAwaited, QueuedAwaited
  <2>5. QueuedDistinct'
    BY <1>2, <2>2, <2>3 DEF DispatchInv, TasksAwaited, QueuedDistinct
  <2>6. RunningAwaited'
    BY SMTT(30), <1>2, <2>1, <2>2, <2>3, TaskFacts DEF DispatchInv, TasksAwaited, RunningAwaited, Busy
  <2>7. WaiterHasTask'
    BY <1>2, <2>1 DEF DispatchInv, TasksAwaited, WaiterHasTask, Busy
  <2> QED
    BY <2>4, <2>5, <2>6, <2>7 DEF TasksAwaited
<1>5. Barriers'
  BY <1>2 DEF BarrierPost, DispatchInv, Barriers, BarrierIsCurrent, Current
<1>6. OwnerProgress'
  BY SMTT(30), OrderFacts, DispatchAssumption
     DEF BarrierPost, DispatchInv, TypeOK, OwnerProgress, Quiet, Current
<1> QED
  BY <1>3, <1>4, <1>5, <1>6 DEF DispatchInv

\* Every step, and every stutter, keeps the invariant.
LEMMA StepInv == DispatchInv /\ [DispatchNext]_dispatchVars => DispatchInv'
<1> SUFFICES ASSUME DispatchInv, [DispatchNext]_dispatchVars PROVE DispatchInv'
  OBVIOUS
<1>1. CASE Worker
  BY <1>1, WorkerTakeInv, WorkerCallInv, WorkerBarrierInv, WorkerExitInv DEF Worker
<1>2. CASE \E c \in Callers : CallReturn(c) \/ \E q \in Queues : CallBegin(c, q)
  BY <1>2, CallReturnInv, CallBeginInv
<1>3. CASE \E c \in Callers \cup {Owner} : InCall(c)
  BY <1>3, InCallInv, CallPostInv DEF InCall, Threads
<1>4. CASE BeginTeardown \/ Teardown
  BY <1>4, BeginTeardownInv, OwnerStepInv, BarrierPostInv, NextComponentInv, StopIoInv,
     JoinWorkerInv DEF Teardown
<1>5. CASE UNCHANGED dispatchVars
  BY SMTT(30), <1>5 DEF dispatchVars, DispatchInv, TypeOK, TasksAwaited, QueuedAwaited, QueuedDistinct,
              RunningAwaited, WaiterHasTask, Barriers, BarrierIsCurrent, OwnerProgress, Quiet,
              Busy, Current
<1> QED
  BY <1>1, <1>2, <1>3, <1>4, <1>5 DEF DispatchNext, Terminated

\* The invariant holds in every reachable state.
LEMMA InvHolds == DispatchSpec => []DispatchInv
BY InitInv, StepInv, PTL DEF DispatchSpec

-----------------------------------------------------------------------------
(* The properties.                                                         *)

\* A thread waits in postSync exactly while its one task is queued or running.
THEOREM Waiting == DispatchSpec => []OneTaskPerWaiter
<1>1. DispatchInv => OneTaskPerWaiter
  <2> SUFFICES ASSUME DispatchInv, NEW c \in Threads
               PROVE  IF at[c].pc = "wait"
                      THEN \/ Busy /\ worker.who = c /\ Pending(c) = {}
                           \/ ~(Busy /\ worker.who = c) /\ \E k \in DOMAIN io : Pending(c) = {k}
                      ELSE Pending(c) = {} /\ ~(Busy /\ worker.who = c)
    BY DEF OneTaskPerWaiter, Busy, Threads
  <2>1. DOMAIN io = 1..Len(io)
    BY DEF DispatchInv, TypeOK
  <2> QED
    BY <2>1 DEF DispatchInv, TasksAwaited, QueuedAwaited, QueuedDistinct, RunningAwaited,
                WaiterHasTask, Pending
<1> QED
  BY <1>1, InvHolds, PTL

\* No task is left in the io_context when ~Server stops it.
THEOREM Stranded == DispatchSpec => []NothingStranded
<1>1. DispatchInv => NothingStranded
  <2> SUFFICES ASSUME DispatchInv, stopped PROVE io = <<>>
    BY DEF NothingStranded
  <2>1. \A c \in Threads : at[c].pc # "wait"
    BY DEF DispatchInv, TypeOK, OwnerProgress, Quiet, Threads
  <2>2. Len(io) = 0
    BY <2>1, TaskFacts DEF DispatchInv, TasksAwaited, QueuedAwaited
  <2> QED
    BY <2>2, EmptySeq DEF DispatchInv, TypeOK
<1> QED
  BY <1>1, InvHolds, PTL

-----------------------------------------------------------------------------
(* The implementation of SyncCall.                                         *)

View(pc) == CASE pc = "idle" -> "idle" [] pc = "done" -> "effect"
              [] pc = "skipped" -> "skipped" [] OTHER -> "called"

\* What a caller sees of its call, written as a function of its own position.
LEMMA AbstractCallIsView ==
  AbstractCall = [c \in Callers |-> [q \in Queues |->
                    IF at[c].q = q THEN View(at[c].pc) ELSE "idle"]]
BY DEF AbstractCall, View

\* A caller's step changes its entry for the component it calls, and no other.
LEMMA AbstractMove ==
  ASSUME NEW c \in Callers, NEW q \in Queues,
         at[c].q = q \/ at[c].pc = "idle", at'[c].q = q,
         \A d \in Callers \ {c} : at'[d] = at[d]
  PROVE  /\ AbstractCall' = [AbstractCall EXCEPT ![c][q] = View(at'[c].pc)]
         /\ AbstractCall[c][q] = View(at[c].pc)
<1>1. AbstractCall' = [d \in Callers |-> [r \in Queues |->
                         IF at'[d].q = r THEN View(at'[d].pc) ELSE "idle"]]
  BY DEF AbstractCall, View
<1>2. \A r \in Queues \ {q} : AbstractCall[c][r] = "idle" /\ AbstractCall'[c][r] = "idle"
  BY <1>1, AbstractCallIsView DEF View
<1>3. \A d \in Callers \ {c} : AbstractCall'[d] = AbstractCall[d]
  BY <1>1, AbstractCallIsView
<1>4. AbstractCall'[c] = [AbstractCall[c] EXCEPT ![q] = View(at'[c].pc)]
  BY <1>1, <1>2, AbstractCallIsView
<1>5. AbstractCall[c][q] = View(at[c].pc)
  BY AbstractCallIsView DEF View
<1> QED
  BY ZenonT(60), <1>1, <1>3, <1>4, <1>5, AbstractCallIsView

\* A step that moves no caller is a stutter of the abstract calls.
LEMMA AbstractKept ==
  ASSUME \A d \in Callers : at'[d] = at[d]
  PROVE  AbstractCall' = AbstractCall
BY DEF AbstractCall

\* No call is under way at first, as SyncCall starts.
LEMMA RefinesInit == DispatchInit => Abstract!CallInit
BY DEF DispatchInit, Nowhere, AbstractCall, Abstract!CallInit

\* Every step is a step of SyncCall or a stutter of it.
LEMMA RefinesStep ==
  DispatchInv /\ [DispatchNext]_dispatchVars => [Abstract!CallNext]_(Abstract!callVars)
<1> SUFFICES ASSUME DispatchInv, [DispatchNext]_dispatchVars
             PROVE  [Abstract!CallNext]_(Abstract!callVars)
  OBVIOUS
<1> USE DEF Abstract!callVars, Abstract!Move
<1>1. ASSUME NEW c \in Callers, NEW q \in Queues, CallBegin(c, q)
      PROVE  Abstract!Begin(c, q)
  <2>1. /\ at[c].pc = "idle" /\ at'[c].pc = "check" /\ at'[c].q = q
        /\ \A d \in Callers \ {c} : at'[d] = at[d]
    BY <1>1 DEF CallBegin, DispatchInv, TypeOK
  <2> QED
    BY <1>1, <2>1, AbstractMove DEF CallBegin, Abstract!Begin, View
<1>2. ASSUME NEW c \in Callers, CallSkip(c)
      PROVE  Abstract!Skip(c, at[c].q) /\ at[c].q \in Queues
  <2>1. /\ at[c].pc = "check" /\ at'[c].pc = "skipped" /\ at'[c].q = at[c].q
        /\ at[c].q \in Queues /\ \A d \in Callers \ {c} : at'[d] = at[d]
    BY <1>2 DEF CallSkip, DispatchInv, TypeOK
  <2> QED
    BY <1>2, <2>1, AbstractMove DEF CallSkip, Abstract!Skip, View
<1>3. ASSUME NEW c \in Callers, CallReturn(c)
      PROVE  Abstract!End(c, at[c].q) /\ at[c].q \in Queues
  <2>1. /\ at[c].pc \in {"done", "skipped"} /\ at'[c].pc = "idle" /\ at'[c].q = at[c].q
        /\ at[c].q \in Queues /\ \A d \in Callers \ {c} : at'[d] = at[d]
    BY <1>3 DEF CallReturn, DispatchInv, TypeOK
  <2> QED
    BY <1>3, <2>1, AbstractMove DEF CallReturn, Abstract!End, View
<1>4. ASSUME NEW c \in Callers, WorkerCall, worker.who = c
      PROVE  Abstract!Effect(c, at[c].q) /\ at[c].q \in Queues
  <2>1. at[c].pc = "wait"
    BY <1>4 DEF WorkerCall, DispatchInv, TasksAwaited, RunningAwaited, Busy
  <2>2. shutdownDone = {}
    BY <2>1 DEF DispatchInv, TypeOK, OwnerProgress, Quiet
  <2>3. /\ at'[c].pc = "done" /\ at'[c].q = at[c].q /\ at[c].q \in Queues
        /\ \A d \in Callers \ {c} : at'[d] = at[d]
    BY <1>4 DEF WorkerCall, DispatchInv, TypeOK
  <2> QED
    BY <1>4, <2>1, <2>2, <2>3, AbstractMove DEF WorkerCall, Abstract!Effect, View
<1>5. CASE WorkerBarrier
  <2>1. worker.who = Owner /\ worker.q \in Queues /\ worker.q \notin shutdownDone
    BY <1>5, TaskFacts DEF WorkerBarrier, DispatchInv, Barriers, BarrierIsCurrent
  <2>2. \A d \in Callers : at'[d] = at[d]
    BY <1>5, <2>1, DispatchAssumption DEF WorkerBarrier, DispatchInv, TypeOK
  <2>3. Abstract!Close(worker.q)
    BY <1>5, <2>1, <2>2, AbstractKept DEF WorkerBarrier, Abstract!Close
  <2> QED
    BY <2>1, <2>3 DEF Abstract!CallNext
<1>6. ASSUME NEW c \in Callers, CallCheck(c) \/ CallPost(c)
      PROVE  UNCHANGED <<AbstractCall, Queues \ shutdownDone>>
  <2>1. /\ at[c].pc \in {"check", "post"} /\ at'[c].pc \in {"post", "wait"}
        /\ at'[c].q = at[c].q /\ at[c].q \in Queues /\ \A d \in Callers \ {c} : at'[d] = at[d]
    BY <1>6 DEF CallCheck, CallPost, DispatchInv, TypeOK
  <2>2. AbstractCall' = [AbstractCall EXCEPT ![c][at[c].q] = "called"]
        /\ AbstractCall[c][at[c].q] = "called"
    BY <2>1, AbstractMove DEF View
  <2> QED
    BY ZenonT(60), <1>6, <2>2, AbstractCallIsView DEF CallCheck, CallPost
<1>7. CASE \E c \in Callers : CallReturn(c) \/ \E q \in Queues : CallBegin(c, q)
  BY <1>1, <1>3, <1>7 DEF Abstract!CallNext
<1>8. CASE \E c \in Callers : InCall(c)
  BY <1>2, <1>6, <1>8 DEF InCall, Abstract!CallNext
<1>9. CASE WorkerCall /\ worker.who \in Callers
  BY <1>4, <1>9 DEF Abstract!CallNext
<1>10. CASE (WorkerCall /\ worker.who = Owner) \/ WorkerTake \/ WorkerExit \/ InCall(Owner)
            \/ BeginTeardown \/ Teardown \/ UNCHANGED dispatchVars
  <2>1. (\A d \in Callers : at'[d] = at[d]) /\ shutdownDone' = shutdownDone
    BY ZenonT(60), <1>10, DispatchAssumption, StartShutdownFacts, OrderFacts
       DEF DispatchInv, TypeOK, WorkerCall, WorkerTake, WorkerExit, InCall, CallSkip, CallCheck,
           CallPost, BeginTeardown, Teardown, FinalReturn, BarrierSkip, BarrierPost,
           NextComponent, StopIo, JoinWorker, Destroyed, StartShutdown, dispatchVars
  <2> QED
    BY <2>1, AbstractKept
<1>11. worker.who \in Callers \/ worker.who = Owner
  BY TaskFacts DEF DispatchInv, Threads
<1> QED
  BY <1>5, <1>7, <1>8, <1>9, <1>10, <1>11 DEF DispatchNext, Worker, Terminated

\* postSync, with its queue, its worker and its shutdown barrier, implements the
\* atomic synchronous call of SyncCall.
THEOREM Implements == DispatchSpec => ImplementsSyncCall
BY InvHolds, RefinesInit, RefinesStep, PTL DEF DispatchSpec, ImplementsSyncCall, Abstract!CallSpec
=============================================================================
