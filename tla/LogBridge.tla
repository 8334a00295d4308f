----------------------------- MODULE LogBridge -----------------------------
(***************************************************************************)
(* Log forwarding between evrp-device and the hosts connected to it.  On   *)
(* the device the global logService is a LogServiceTee over GrpcLogService *)
(* (grpcserver.cpp): a line is published to the AsyncLogBuffer of every    *)
(* open StreamLogs call.  On a host it is a LogServiceTee over a           *)
(* RemoteLogService from connectDevice until ~ConnectedClient: a line is   *)
(* written to the stream.  What a side receives it logs itself, that is,   *)
(* through its own tee.                                                    *)
(*                                                                         *)
(* A line is its origin, its number and how often it has crossed the       *)
(* network (each crossing adds a prefix to the text).  The local sinks     *)
(* (spdlog) and the text are left out.  Streams deliver in order; a Write  *)
(* blocks while Window messages are under way (gRPC flow control).         *)
(***************************************************************************)
EXTENDS Integers, Sequences

CONSTANTS Hosts,
          Device,     \* the device's own logging thread
          MaxQueue,   \* AsyncLogBuffer::kMaxQueue
          Window,     \* messages a stream holds in one direction
          Threshold,  \* GrpcLogService::threshold_
          Levels,
          MaxLines,   \* bound: lines logged afresh
          HostLines,  \* bound: the first of them that may be a host's
          MaxHops     \* bound: crossings that are told apart

ASSUME LogAssumption ==
  /\ Device \notin Hosts
  /\ {MaxQueue, Window, MaxHops} \subseteq Nat \ {0}
  /\ MaxLines \in Nat /\ HostLines \in 0..MaxLines
  /\ Levels \subseteq Int /\ Threshold \in Levels

Loggers == Hosts \cup {Device}
Line == [origin : Loggers, id : 1..MaxLines, hops : 0..MaxHops, level : Levels]
NoLine == <<>>
Quiet == [line |-> NoLine, snap |-> {}]

VARIABLES
  fwd,    \* per host, forwardUntil's thread: its place, the line it writes
  app,    \* per host, the line another thread writes while it holds streamMutex_
  side,   \* per host: tee installed, stop flag, ctx cancelled, activeStream_ set
  net,    \* per stream: lines each way, connection lost, server knows it is over
  srv,    \* per stream, StreamLogs: its place, the line popped
  rdr,    \* per stream, StreamLogs' reader thread
  done,   \* per stream, readDone
  buf,    \* per stream, the AsyncLogBuffer
  subs,   \* subscriberBuffers_ that are alive
  pub,    \* per device thread, the publication under way: line, buffers to push to
  lines,  \* lines logged afresh so far
  got,    \* history: the device's own lines a host has read
  sent,   \* history: the device's own lines published to a stream
  over    \* history: streams whose buffer has dropped a line

logVars == <<fwd, app, side, net, srv, rdr, done, buf, subs, pub, lines, got, sent, over>>
history == <<got, sent, over>>

LogInit ==
  /\ fwd = [h \in Hosts |-> [pc |-> "start", line |-> NoLine]]
  /\ app = [h \in Hosts |-> NoLine]
  /\ side = [h \in Hosts |-> [tee |-> TRUE, stop |-> FALSE, cancelled |-> FALSE, active |-> FALSE]]
  /\ net = [h \in Hosts |-> [toHost |-> <<>>, toDevice |-> <<>>, lost |-> FALSE, gone |-> FALSE]]
  /\ srv = [h \in Hosts |-> [pc |-> "none", line |-> NoLine]]
  /\ rdr = [h \in Hosts |-> "none"]
  /\ done = [h \in Hosts |-> FALSE]
  /\ buf = [h \in Hosts |-> <<>>]
  /\ subs = {}
  /\ pub = [p \in Loggers |-> Quiet]
  /\ lines = 0
  /\ got = [h \in Hosts |-> {}] /\ sent = [h \in Hosts |-> {}] /\ over = {}

Fresh(p, level) == [origin |-> p, id |-> lines + 1, hops |-> 0, level |-> level]
Crossed(line) == [line EXCEPT !.hops = IF @ < MaxHops THEN @ + 1 ELSE @]
Own(line) == line.origin = Device /\ line.hops = 0

-----------------------------------------------------------------------------
(* Host: RemoteLogService.                                                 *)

\* The stream no longer carries anything, as the client sees it.
Over(h) == side[h].cancelled \/ net[h].lost \/ srv[h].pc = "done"

ToDevice(h, line) ==
  \/ /\ Len(net[h].toDevice) < Window /\ ~Over(h)
     /\ net' = [net EXCEPT ![h].toDevice = Append(@, line)]
  \/ Over(h) /\ UNCHANGED net

\* forwardUntil opens the stream and publishes activeStream_.
StreamOpens(h) ==
  /\ fwd[h].pc = "start"
  /\ fwd' = [fwd EXCEPT ![h].pc = "check"]
  /\ side' = [side EXCEPT ![h].active = TRUE]
  /\ srv' = [srv EXCEPT ![h].pc = "session"]
  /\ UNCHANGED <<app, net, rdr, done, buf, subs, pub, lines, history>>

CheckStop(h) ==
  /\ fwd[h].pc = "check"
  /\ fwd' = [fwd EXCEPT ![h].pc = IF side[h].stop THEN "join" ELSE "read"]
  /\ UNCHANGED <<app, side, net, srv, rdr, done, buf, subs, pub, lines, history>>

\* Read, and ingestInbound: the line is logged, which on a host whose
\* logService is the tee means that it is also sent.
ingestInbound(h) ==
  /\ fwd[h].pc = "read" /\ net[h].toHost # <<>>
  /\ LET line == Head(net[h].toHost) IN
       /\ fwd' = [fwd EXCEPT ![h] = IF side[h].tee THEN [pc |-> "write", line |-> Crossed(line)]
                                    ELSE [pc |-> "check", line |-> NoLine]]
       /\ got' = [got EXCEPT ![h] = IF Own(line) THEN @ \cup {line.id} ELSE @]
  /\ net' = [net EXCEPT ![h].toHost = Tail(@)]
  /\ UNCHANGED <<app, side, srv, rdr, done, buf, subs, pub, lines, sent, over>>

ReadEnds(h) ==
  /\ fwd[h].pc = "read"
  /\ \/ side[h].cancelled \/ net[h].lost
     \/ srv[h].pc = "done" /\ net[h].toHost = <<>>
  /\ fwd' = [fwd EXCEPT ![h].pc = "join"]
  /\ UNCHANGED <<app, side, net, srv, rdr, done, buf, subs, pub, lines, history>>

\* writeOutbound of the line just read.
writeInbound(h) ==
  /\ fwd[h].pc = "write" /\ app[h] = NoLine
  /\ ToDevice(h, fwd[h].line)
  /\ fwd' = [fwd EXCEPT ![h] = [pc |-> "check", line |-> NoLine]]
  /\ UNCHANGED <<app, side, srv, rdr, done, buf, subs, pub, lines, history>>

\* The thread cancelOnStop; and TryCancel called inline after the loop instead.
cancelOnStop_AfterLoop(h) ==
  /\ side[h].stop /\ ~side[h].cancelled /\ fwd[h].pc = "join"
  /\ side' = [side EXCEPT ![h].cancelled = TRUE]
  /\ UNCHANGED <<fwd, app, net, srv, rdr, done, buf, subs, pub, lines, history>>

cancelOnStop(h) ==
  /\ side[h].stop /\ ~side[h].cancelled /\ fwd[h].pc # "start"
  /\ side' = [side EXCEPT ![h].cancelled = TRUE]
  /\ UNCHANGED <<fwd, app, net, srv, rdr, done, buf, subs, pub, lines, history>>

\* The join of cancelOnStop, then activeStream_ = nullptr under streamMutex_;
\* and without the mutex.
StreamRetired_NoMutex(h) ==
  /\ fwd[h].pc = "join" /\ side[h].cancelled
  /\ fwd' = [fwd EXCEPT ![h].pc = "finish"]
  /\ side' = [side EXCEPT ![h].active = FALSE]
  /\ UNCHANGED <<app, net, srv, rdr, done, buf, subs, pub, lines, history>>

StreamRetired(h) ==
  /\ fwd[h].pc = "join" /\ side[h].cancelled /\ app[h] = NoLine
  /\ fwd' = [fwd EXCEPT ![h].pc = "finish"]
  /\ side' = [side EXCEPT ![h].active = FALSE]
  /\ UNCHANGED <<app, net, srv, rdr, done, buf, subs, pub, lines, history>>

\* WritesDone, Finish, and the stream is destroyed.
StreamFinished(h) ==
  /\ fwd[h].pc = "finish"
  /\ fwd' = [fwd EXCEPT ![h].pc = "done"]
  /\ UNCHANGED <<app, side, net, srv, rdr, done, buf, subs, pub, lines, history>>

\* Another thread of the host logs: writeOutbound takes streamMutex_ and, when
\* there is a stream, writes to it.
HostLogs(h, level) ==
  /\ side[h].tee /\ app[h] = NoLine /\ lines < HostLines
  /\ lines' = lines + 1
  /\ app' = [app EXCEPT ![h] = IF side[h].active THEN Fresh(h, level) ELSE NoLine]
  /\ UNCHANGED <<fwd, side, net, srv, rdr, done, buf, subs, pub, history>>

writeOutbound(h) ==
  /\ app[h] # NoLine
  /\ ToDevice(h, app[h])
  /\ app' = [app EXCEPT ![h] = NoLine]
  /\ UNCHANGED <<fwd, side, srv, rdr, done, buf, subs, pub, lines, history>>

\* ~ConnectedClient: logService is put back first ...
RestoreLogService(h) ==
  /\ side[h].tee
  /\ side' = [side EXCEPT ![h].tee = FALSE]
  /\ UNCHANGED <<fwd, app, net, srv, rdr, done, buf, subs, pub, lines, history>>

\* ... then ~DeviceLogForwarder sets the stop flag and joins.
StopForwarding(h) ==
  /\ ~side[h].tee /\ ~side[h].stop
  /\ side' = [side EXCEPT ![h].stop = TRUE]
  /\ UNCHANGED <<fwd, app, net, srv, rdr, done, buf, subs, pub, lines, history>>

-----------------------------------------------------------------------------
(* The connection.                                                         *)

ConnectionLost(h) ==
  /\ ~net[h].lost /\ srv[h].pc # "none"
  /\ net' = [net EXCEPT ![h].lost = TRUE]
  /\ UNCHANGED <<fwd, app, side, srv, rdr, done, buf, subs, pub, lines, history>>

\* The cancellation, or the loss, reaches the server: IsCancelled.
ServerSeesEnd(h) ==
  /\ side[h].cancelled \/ net[h].lost
  /\ ~net[h].gone /\ srv[h].pc # "none"
  /\ net' = [net EXCEPT ![h].gone = TRUE]
  /\ UNCHANGED <<fwd, app, side, srv, rdr, done, buf, subs, pub, lines, history>>

-----------------------------------------------------------------------------
(* Device: GrpcLogService and AsyncLogBuffer.                              *)

\* publishToAllSubscribers takes a snapshot of the live buffers, then pushes.
publish(p, line) ==
  /\ pub' = [pub EXCEPT ![p] = IF subs = {} THEN Quiet ELSE [line |-> line, snap |-> subs]]
  /\ sent' = [h \in Hosts |-> IF h \in subs /\ Own(line) THEN sent[h] \cup {line.id} ELSE sent[h]]

Pushed(q, line) == Append(IF Len(q) >= MaxQueue THEN Tail(q) ELSE q, line)

\* AsyncLogBuffer::push; a buffer whose StreamLogs has returned is only still
\* there for this snapshot.
push(p, h) ==
  /\ h \in pub[p].snap
  /\ buf' = [buf EXCEPT ![h] = IF h \in subs THEN Pushed(@, pub[p].line) ELSE @]
  /\ over' = IF h \in subs /\ Len(buf[h]) >= MaxQueue THEN over \cup {h} ELSE over
  /\ LET rest == pub[p].snap \ {h} IN
       pub' = [pub EXCEPT ![p] = IF rest = {} THEN Quiet ELSE [line |-> pub[p].line, snap |-> rest]]
  /\ UNCHANGED <<fwd, app, side, net, srv, rdr, done, subs, lines, got, sent>>

\* SendService::log, of a line of the device's own.
DeviceLogs(level) ==
  /\ pub[Device] = Quiet /\ lines < MaxLines
  /\ lines' = lines + 1
  /\ IF level < Threshold THEN UNCHANGED <<pub, sent>> ELSE publish(Device, Fresh(Device, level))
  /\ UNCHANGED <<fwd, app, side, net, srv, rdr, done, buf, subs, got, over>>

\* StreamLogs: requireBusinessSession, then a new buffer and the reader.
Subscribe(h) ==
  /\ srv[h].pc = "session"
  /\ srv' = [srv EXCEPT ![h].pc = "loop"]
  /\ subs' = subs \cup {h}
  /\ rdr' = [rdr EXCEPT ![h] = "read"]
  /\ UNCHANGED <<fwd, app, side, net, done, buf, pub, lines, history>>

Refuse(h) ==
  /\ srv[h].pc = "session"
  /\ srv' = [srv EXCEPT ![h].pc = "done"]
  /\ UNCHANGED <<fwd, app, side, net, rdr, done, buf, subs, pub, lines, history>>

LoopTest(h) ==
  /\ srv[h].pc = "loop"
  /\ srv' = [srv EXCEPT ![h].pc = IF net[h].gone \/ done[h] THEN "join" ELSE "pop"]
  /\ done' = [done EXCEPT ![h] = @ \/ net[h].gone]
  /\ UNCHANGED <<fwd, app, side, net, rdr, buf, subs, pub, lines, history>>

\* A pop that takes the newest line, and one that leaves nothing behind.
waitPopFor_Back(h) ==
  /\ srv[h].pc = "pop" /\ buf[h] # <<>>
  /\ srv' = [srv EXCEPT ![h] = [pc |-> "write", line |-> buf[h][Len(buf[h])]]]
  /\ buf' = [buf EXCEPT ![h] = SubSeq(@, 1, Len(@) - 1)]
  /\ UNCHANGED <<fwd, app, side, net, rdr, done, subs, pub, lines, history>>

waitPopFor_Clears(h) ==
  /\ srv[h].pc = "pop" /\ buf[h] # <<>>
  /\ srv' = [srv EXCEPT ![h] = [pc |-> "write", line |-> Head(buf[h])]]
  /\ buf' = [buf EXCEPT ![h] = <<>>]
  /\ UNCHANGED <<fwd, app, side, net, rdr, done, subs, pub, lines, history>>

waitPopFor(h) ==
  /\ srv[h].pc = "pop" /\ buf[h] # <<>>
  /\ srv' = [srv EXCEPT ![h] = [pc |-> "write", line |-> Head(buf[h])]]
  /\ buf' = [buf EXCEPT ![h] = Tail(@)]
  /\ UNCHANGED <<fwd, app, side, net, rdr, done, subs, pub, lines, history>>

\* 200 ms without a line.
waitTimesOut(h) ==
  /\ srv[h].pc = "pop" /\ buf[h] = <<>>
  /\ srv' = [srv EXCEPT ![h].pc = "loop"]
  /\ UNCHANGED <<fwd, app, side, net, rdr, done, buf, subs, pub, lines, history>>

Write(h) ==
  /\ srv[h].pc = "write" /\ ~net[h].gone /\ Len(net[h].toHost) < Window
  /\ net' = [net EXCEPT ![h].toHost = Append(@, srv[h].line)]
  /\ srv' = [srv EXCEPT ![h] = [pc |-> "loop", line |-> NoLine]]
  /\ UNCHANGED <<fwd, app, side, rdr, done, buf, subs, pub, lines, history>>

WriteFails(h) ==
  /\ srv[h].pc = "write" /\ net[h].gone
  /\ srv' = [srv EXCEPT ![h] = [pc |-> "join", line |-> NoLine]]
  /\ done' = [done EXCEPT ![h] = TRUE]
  /\ UNCHANGED <<fwd, app, side, net, rdr, buf, subs, pub, lines, history>>

\* The reader is joined, the buffer unlisted, the call answered.
Unsubscribe(h) ==
  /\ srv[h].pc = "join" /\ rdr[h] = "done"
  /\ srv' = [srv EXCEPT ![h].pc = "done"]
  /\ subs' = subs \ {h}
  /\ buf' = [buf EXCEPT ![h] = <<>>]
  /\ UNCHANGED <<fwd, app, side, net, rdr, done, pub, lines, history>>

\* The reader thread: a line is logged (ReceiveService::log, then the tee, then
\* SendService::log with the same threshold), unless the call is cancelled.
ReadInbound(h) ==
  /\ rdr[h] = "read" /\ pub[h] = Quiet /\ net[h].toDevice # <<>>
  /\ net' = [net EXCEPT ![h].toDevice = Tail(@)]
  /\ LET line == Head(net[h].toDevice) IN
       IF net[h].gone \/ line.level < Threshold
       THEN UNCHANGED <<pub, sent>>
       ELSE publish(h, Crossed(line))
  /\ rdr' = [rdr EXCEPT ![h] = IF net[h].gone THEN "done" ELSE @]
  /\ done' = [done EXCEPT ![h] = @ \/ net[h].gone]
  /\ UNCHANGED <<fwd, app, side, srv, buf, subs, lines, got, over>>

ReaderEnds(h) ==
  /\ rdr[h] = "read" /\ pub[h] = Quiet /\ net[h].gone
  /\ rdr' = [rdr EXCEPT ![h] = "done"]
  /\ done' = [done EXCEPT ![h] = TRUE]
  /\ UNCHANGED <<fwd, app, side, net, srv, buf, subs, pub, lines, history>>

-----------------------------------------------------------------------------
Forwarder(h) ==
  \/ StreamOpens(h) \/ CheckStop(h) \/ ingestInbound(h) \/ ReadEnds(h)
  \/ writeInbound(h) \/ StreamRetired(h) \/ StreamFinished(h)

Handler(h) ==
  \/ Subscribe(h) \/ Refuse(h) \/ LoopTest(h) \/ waitPopFor(h) \/ waitTimesOut(h)
  \/ Write(h) \/ WriteFails(h) \/ Unsubscribe(h)

Reader(h) == ReadInbound(h) \/ ReaderEnds(h) \/ \E g \in Hosts : push(h, g)

LogNext ==
  \/ \E h \in Hosts :
       \/ Forwarder(h) \/ cancelOnStop(h) \/ writeOutbound(h)
       \/ RestoreLogService(h) \/ StopForwarding(h)
       \/ ConnectionLost(h) \/ ServerSeesEnd(h)
       \/ Handler(h) \/ Reader(h) \/ push(Device, h)
       \/ \E level \in Levels : HostLogs(h, level)
  \/ \E level \in Levels : DeviceLogs(level)

\* Every thread that can run does, and gRPC tells the server of a cancelled or
\* lost call; nobody need log, disconnect or lose the connection.
LogFairness ==
  /\ \A h \in Hosts :
       /\ WF_logVars(Forwarder(h)) /\ WF_logVars(cancelOnStop(h)) /\ WF_logVars(writeOutbound(h))
       /\ WF_logVars(Handler(h)) /\ WF_logVars(Reader(h)) /\ WF_logVars(ServerSeesEnd(h))
  /\ WF_logVars(\E h \in Hosts : push(Device, h))

LogSpec == LogInit /\ [][LogNext]_logVars /\ LogFairness

-----------------------------------------------------------------------------
(* Properties.                                                             *)

\* The lines on their way to host h, the oldest first, and which are the
\* device's own.
Popped(h) == IF srv[h].pc = "write" THEN <<srv[h].line>> ELSE <<>>
UnderWay(h) == net[h].toHost \o Popped(h) \o buf[h]
OwnIds(s) == {s[i].id : i \in {k \in DOMAIN s : Own(s[k])}}

\* A host reads the device's own lines in the order they were logged and none
\* twice, however the buffer, the stream and the echoes of other lines interleave.
InOrder(s) == \A i, j \in DOMAIN s : i < j /\ Own(s[i]) /\ Own(s[j]) => s[i].id < s[j].id
Before(A, B) == \A m \in A, n \in B : m < n
LinesInOrder == \A h \in Hosts : InOrder(UnderWay(h)) /\ Before(got[h], OwnIds(UnderWay(h)))

\* A line published to an open stream is lost only when the buffer has overflowed:
\* until then every one has been read or is under way.
Pending(h) == IF h \in pub[Device].snap THEN {pub[Device].line.id} ELSE {}
LostOnlyByOverflow ==
  \A h \in subs \ over :
    net[h].gone \/ sent[h] = got[h] \cup OwnIds(UnderWay(h)) \cup Pending(h)

\* A host thread writes to the stream only while the stream exists: forwardUntil
\* does not retire it under a writeOutbound in progress.
StreamOutlivesWriters ==
  \A h \in Hosts : app[h] # NoLine => side[h].active /\ fwd[h].pc \notin {"finish", "done"}

\* Once a host stops forwarding, forwardUntil returns (so that the destructor's
\* join does) and the device's StreamLogs call ends and unlists its buffer.
StopTearsDown ==
  \A h \in Hosts :
    side[h].stop ~> (fwd[h].pc = "done" /\ srv[h].pc = "done" /\ h \notin subs)
=============================================================================
