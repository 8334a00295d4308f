---------------------------- MODULE HostLogLevel ----------------------------
(***************************************************************************)
(* Setting the log level on a host, from connectDevice to the first line   *)
(* of Record::run or Playback::run: the calls of setLevel that the global  *)
(* logService, LogServiceTee and RemoteLogService make of one another.     *)
(* `stack' is the call stack of the thread, innermost call last, each with *)
(* the calls it has still to make.                                         *)
(***************************************************************************)
EXTENDS Integers, Sequences, SequencesExt

CONSTANTS Levels,
          StackLimit  \* calls that the thread's stack has room for

VARIABLES pc, logService, level, wanted, stack

levelVars == <<pc, logService, level, wanted, stack>>

LevelInit ==
  /\ pc = "connect" /\ logService = "local" /\ stack = <<>>
  /\ level \in Levels /\ wanted \in Levels

\* What a setLevel of each object calls in turn; "local" is the sink of the process.
setLevel(object) ==
  CASE object = "local" -> <<>>
    [] object = "tee" -> <<"local", "sender", "receiver">>
    [] object \in {"sender", "receiver"} -> <<logService>>

\* The thread calls setLevel of an object, from code at the bottom of its stack.
Call(object) ==
  /\ stack = <<>>
  /\ stack' = <<setLevel(object)>>
  /\ level' = IF object = "local" THEN wanted ELSE level

\* connectDevice, before there is a forwarder.
connectDevice ==
  /\ pc = "connect" /\ Call(logService) /\ pc' = "export"
  /\ UNCHANGED <<logService, wanted>>

\* tryExportSessionForLogForwarding succeeds: the sender's level, the
\* receiver's, and only then the tee becomes the logService; or it fails.
ExportFails ==
  /\ pc = "export" /\ stack = <<>> /\ pc' = "run"
  /\ UNCHANGED <<logService, level, wanted, stack>>

SenderLevel ==
  /\ pc = "export" /\ Call("sender") /\ pc' = "receiver"
  /\ UNCHANGED <<logService, wanted>>

ReceiverLevel ==
  /\ pc = "receiver" /\ Call("receiver") /\ pc' = "tee"
  /\ UNCHANGED <<logService, wanted>>

InstallTee ==
  /\ pc = "tee" /\ stack = <<>>
  /\ logService' = "tee" /\ pc' = "run"
  /\ UNCHANGED <<level, wanted, stack>>

\* The first statement of Record::run, or Playback::run's before it opens the file.
run ==
  /\ pc = "run" /\ Call(logService) /\ pc' = "level"
  /\ UNCHANGED <<logService, wanted>>

\* The innermost call makes its next call, or returns.
Descend ==
  /\ stack # <<>> /\ Last(stack) # <<>> /\ Len(stack) < StackLimit
  /\ LET object == Head(Last(stack)) IN
       /\ stack' = Append([stack EXCEPT ![Len(stack)] = Tail(@)], setLevel(object))
       /\ level' = IF object = "local" THEN wanted ELSE level
  /\ UNCHANGED <<pc, logService, wanted>>

Return ==
  /\ stack # <<>> /\ Last(stack) = <<>>
  /\ stack' = Front(stack)
  /\ UNCHANGED <<pc, logService, level, wanted>>

Overflow ==
  /\ stack # <<>> /\ Last(stack) # <<>> /\ Len(stack) = StackLimit
  /\ pc' = "crashed" /\ stack' = <<>>
  /\ UNCHANGED <<logService, level, wanted>>

RecordingStarts ==
  /\ pc = "level" /\ stack = <<>> /\ pc' = "recording"
  /\ UNCHANGED <<logService, level, wanted, stack>>

LevelNext == \/ connectDevice \/ ExportFails \/ SenderLevel \/ ReceiverLevel \/ InstallTee
             \/ run \/ Descend \/ Return \/ Overflow \/ RecordingStarts

LevelSpec == LevelInit /\ [][LevelNext]_levelVars

-----------------------------------------------------------------------------
(* Properties.                                                             *)

\* evrp-client's usage text: "record/replay via RPC".  A host that has connected
\* to its device gets past setting the log level, whether or not log lines are
\* forwarded.
SettingTheLevelReturns == pc # "crashed"
=============================================================================
