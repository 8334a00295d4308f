---------------------------- MODULE DispatchQueue ----------------------------
(***************************************************************************)
(* SyncDispatchQueue: the posted components of a server share one          *)
(* io_context, run by one worker thread.  Callers (gRPC handlers, the      *)
(* watchdog) go through postSync; the owner is the thread in ~Server,      *)
(* which shuts the components down in order, stops the io_context, joins   *)
(* the worker, and then destroys the components, each of which shuts down  *)
(* once more.                                                              *)
(*                                                                         *)
(* GrpcServer::run has returned by then, so gRPC has drained its handlers  *)
(* and ~GrpcInputListenService has joined the watchdog: the owner starts   *)
(* only when no caller is inside postSync (BeginTeardown).                 *)
(***************************************************************************)
EXTENDS Integers, Sequences, Functions

CONSTANTS Callers, Owner,
          Order,     \* the components, in the order ~Server shuts them down
          WithFinal  \* those whose shutdown posts a last task first

Queues == Range(Order)

ASSUME DispatchAssumption ==
  /\ Owner \notin Callers
  /\ Order \in Seq(Queues) /\ IsInjective(Order) /\ Order # <<>>
  /\ WithFinal \subseteq Queues

VARIABLES
  at,            \* per caller, and for the owner: the component and the place
  io,            \* the io_context's queue of tasks
  stopped,       \* ioContext_.stop() was called
  worker,        \* the task the worker runs, Empty, or "exited"
  shutdownDone,  \* the components whose shutdownDone_ is set
  teardown       \* the owner: which component it is at, and in which round

dispatchVars == <<at, io, stopped, worker, shutdownDone, teardown>>

Nowhere == [q |-> Order[1], pc |-> "idle"]
Empty == [kind |-> "none", who |-> Owner, q |-> Order[1]]

DispatchInit ==
  /\ at = [c \in Callers \cup {Owner} |-> Nowhere]
  /\ io = <<>> /\ stopped = FALSE /\ worker = Empty
  /\ shutdownDone = {}
  /\ teardown = [round |-> 0, k |-> 1]

-----------------------------------------------------------------------------
(* postSync and postVoid, of a caller or of the owner.                     *)

CallBegin(c, q) ==
  /\ at[c].pc = "idle" /\ teardown.round = 0
  /\ at' = [at EXCEPT ![c] = [q |-> q, pc |-> "check"]]
  /\ UNCHANGED <<io, stopped, worker, shutdownDone, teardown>>

\* shutdownDone_ is set: return R{}.
CallSkip(c) ==
  /\ at[c].pc = "check" /\ at[c].q \in shutdownDone
  /\ at' = [at EXCEPT ![c].pc = "skipped"]
  /\ UNCHANGED <<io, stopped, worker, shutdownDone, teardown>>

CallCheck(c) ==
  /\ at[c].pc = "check" /\ at[c].q \notin shutdownDone
  /\ at' = [at EXCEPT ![c].pc = "post"]
  /\ UNCHANGED <<io, stopped, worker, shutdownDone, teardown>>

CallPost(c) ==
  /\ at[c].pc = "post"
  /\ io' = Append(io, [kind |-> "call", who |-> c, q |-> at[c].q])
  /\ at' = [at EXCEPT ![c].pc = "wait"]
  /\ UNCHANGED <<stopped, worker, shutdownDone, teardown>>

\* fut.get() has its value, or there was nothing to wait for.
CallReturn(c) ==
  /\ at[c].pc \in {"done", "skipped"}
  /\ at' = [at EXCEPT ![c].pc = "idle"]
  /\ UNCHANGED <<io, stopped, worker, shutdownDone, teardown>>

-----------------------------------------------------------------------------
(* The worker: io_context::run.                                            *)

WorkerTake ==
  /\ worker = Empty /\ ~stopped /\ io # <<>>
  /\ worker' = Head(io) /\ io' = Tail(io)
  /\ UNCHANGED <<at, stopped, shutdownDone, teardown>>

\* A worker that runs the closure and not the packaged_task around it.
WorkerCall_FutureNotReady ==
  /\ worker.kind = "call"
  /\ worker' = Empty
  /\ UNCHANGED <<at, io, stopped, shutdownDone, teardown>>

\* The packaged_task runs and makes its future ready.
WorkerCall ==
  /\ worker.kind = "call"
  /\ at' = [at EXCEPT ![worker.who].pc = "done"]
  /\ worker' = Empty
  /\ UNCHANGED <<io, stopped, shutdownDone, teardown>>

\* A barrier that forgets to set shutdownDone_.
WorkerBarrier_NoFlag ==
  /\ worker.kind = "barrier"
  /\ at' = [at EXCEPT ![worker.who].pc = "over"]
  /\ worker' = Empty
  /\ UNCHANGED <<io, stopped, shutdownDone, teardown>>

\* The task shutdown posts: shutdownDone_ is set, then the promise.
WorkerBarrier ==
  /\ worker.kind = "barrier"
  /\ shutdownDone' = shutdownDone \cup {worker.q}
  /\ at' = [at EXCEPT ![worker.who].pc = "over"]
  /\ worker' = Empty
  /\ UNCHANGED <<io, stopped, teardown>>

\* run() returns: no task is started after stop().
WorkerExit ==
  /\ worker = Empty /\ stopped
  /\ worker' = [Empty EXCEPT !.kind = "exited"]
  /\ UNCHANGED <<at, io, stopped, shutdownDone, teardown>>

-----------------------------------------------------------------------------
(* The owner: ~Server.                                                     *)

Quiet == \A c \in Callers : at[c].pc = "idle"
Current == Order[teardown.k]

\* A component's shutdown(): its last task if it has one, then the barrier.
StartShutdown(q) ==
  at' = [at EXCEPT ![Owner] =
           [q |-> q, pc |-> IF q \in WithFinal THEN "check" ELSE "barrier"]]

\* A teardown that does not wait for the handlers.
BeginTeardown_NotQuiet ==
  /\ teardown.round = 0
  /\ teardown' = [round |-> 1, k |-> 1]
  /\ StartShutdown(Order[1])
  /\ UNCHANGED <<io, stopped, worker, shutdownDone>>

BeginTeardown ==
  /\ teardown.round = 0 /\ Quiet
  /\ teardown' = [round |-> 1, k |-> 1]
  /\ StartShutdown(Order[1])
  /\ UNCHANGED <<io, stopped, worker, shutdownDone>>

\* The last task returned (run or skipped): on to the barrier.
FinalReturn ==
  /\ at[Owner].pc \in {"done", "skipped"}
  /\ at' = [at EXCEPT ![Owner].pc = "barrier"]
  /\ UNCHANGED <<io, stopped, worker, shutdownDone, teardown>>

\* SyncDispatchQueue::shutdown, a second time: nothing to do.
BarrierSkip ==
  /\ at[Owner].pc = "barrier" /\ Current \in shutdownDone
  /\ at' = [at EXCEPT ![Owner].pc = "over"]
  /\ UNCHANGED <<io, stopped, worker, shutdownDone, teardown>>

BarrierPost ==
  /\ at[Owner].pc = "barrier" /\ Current \notin shutdownDone
  /\ io' = Append(io, [kind |-> "barrier", who |-> Owner, q |-> Current])
  /\ at' = [at EXCEPT ![Owner].pc = "wait"]
  /\ UNCHANGED <<stopped, worker, shutdownDone, teardown>>

NextComponent ==
  /\ at[Owner].pc = "over" /\ teardown.k < Len(Order)
  /\ teardown' = [teardown EXCEPT !.k = @ + 1]
  /\ StartShutdown(Order[teardown.k + 1])
  /\ UNCHANGED <<io, stopped, worker, shutdownDone>>

\* workGuard_.reset(); ioContext_.stop()
StopIo ==
  /\ at[Owner].pc = "over" /\ teardown = [round |-> 1, k |-> Len(Order)]
  /\ stopped' = TRUE
  /\ at' = [at EXCEPT ![Owner].pc = "join"]
  /\ UNCHANGED <<io, worker, shutdownDone, teardown>>

\* worker_.join(); then the members' destructors begin.
JoinWorker ==
  /\ at[Owner].pc = "join" /\ worker.kind = "exited"
  /\ teardown' = [round |-> 2, k |-> 1]
  /\ StartShutdown(Order[1])
  /\ UNCHANGED <<io, stopped, worker, shutdownDone>>

Destroyed ==
  /\ at[Owner].pc = "over" /\ teardown = [round |-> 2, k |-> Len(Order)]
  /\ at' = [at EXCEPT ![Owner].pc = "destroyed"]
  /\ UNCHANGED <<io, stopped, worker, shutdownDone, teardown>>

Terminated ==
  /\ at[Owner].pc = "destroyed"
  /\ UNCHANGED dispatchVars

-----------------------------------------------------------------------------

Worker == WorkerTake \/ WorkerCall \/ WorkerBarrier \/ WorkerExit

InCall(c) == CallSkip(c) \/ CallCheck(c) \/ CallPost(c)

Teardown == FinalReturn \/ BarrierSkip \/ BarrierPost \/ NextComponent
            \/ StopIo \/ JoinWorker \/ Destroyed

DispatchNext ==
  \/ Worker
  \/ \E c \in Callers : CallReturn(c) \/ \E q \in Queues : CallBegin(c, q)
  \/ \E c \in Callers \cup {Owner} : InCall(c)
  \/ BeginTeardown \/ Teardown \/ Terminated

\* The worker, a caller inside postSync and the destructor keep running.
DispatchFairness ==
  /\ WF_dispatchVars(Worker)
  /\ \A c \in Callers \cup {Owner} : WF_dispatchVars(InCall(c))
  /\ \A c \in Callers : WF_dispatchVars(CallReturn(c))
  /\ WF_dispatchVars(Teardown)

DispatchSpec == DispatchInit /\ [][DispatchNext]_dispatchVars /\ DispatchFairness

-----------------------------------------------------------------------------
(* Properties.                                                             *)

Tasks == [kind : {"none", "call", "barrier", "exited"},
          who : Callers \cup {Owner}, q : Queues]

\* Every variable keeps its type.
TypeOK ==
  /\ at \in [Callers \cup {Owner} ->
       [q : Queues, pc : {"idle", "check", "post", "wait", "done", "skipped",
                          "barrier", "over", "join", "destroyed"}]]
  /\ io \in Seq(Tasks)
  /\ stopped \in BOOLEAN
  /\ worker \in Tasks
  /\ shutdownDone \subseteq Queues
  /\ teardown \in [round : 0..2, k : 1..Len(Order)]

\* A thread waits exactly while its one task is queued or running: a future is
\* made ready once, and no task outlives the frame it refers to.
Pending(c) == {k \in DOMAIN io : io[k].who = c}
OneTaskPerWaiter ==
  \A c \in Callers \cup {Owner} :
    IF at[c].pc = "wait"
    THEN \/ worker.kind \in {"call", "barrier"} /\ worker.who = c /\ Pending(c) = {}
         \/ ~(worker.kind \in {"call", "barrier"} /\ worker.who = c)
            /\ \E k \in DOMAIN io : Pending(c) = {k}
    ELSE Pending(c) = {} /\ ~(worker.kind \in {"call", "barrier"} /\ worker.who = c)

\* No task is left in an io_context whose worker has been stopped.
NothingStranded == stopped => io = <<>>

\* ~Server returns: the second shutdown of each component does not post to an
\* io_context that nobody runs any more.
TeardownEnds == teardown.round > 0 ~> at[Owner].pc = "destroyed"

\* The abstract view: a call has begun until its task has run or was skipped.
AbstractCall ==
  [c \in Callers |-> [q \in Queues |->
     CASE at[c].q # q \/ at[c].pc = "idle" -> "idle"
       [] at[c].q = q /\ at[c].pc = "done" -> "effect"
       [] at[c].q = q /\ at[c].pc = "skipped" -> "skipped"
       [] OTHER -> "called"]]

Abstract == INSTANCE SyncCall WITH call <- AbstractCall, open <- Queues \ shutdownDone

\* postSync implements the atomic synchronous call.
ImplementsSyncCall == Abstract!CallSpec
=============================================================================
