------------------------------ MODULE LogProofs ------------------------------
(***************************************************************************)
(* The safety properties of LogBridge, for any number of hosts, lines and  *)
(* crossings and for every size of the buffers and of the streams' windows.*)
(***************************************************************************)
EXTENDS LogBridge, SequenceTheorems, TLAPS

One(line) == IF Own(line) THEN {line.id} ELSE {}

NetType == [toHost : Seq(Line), toDevice : Seq(Line), lost : BOOLEAN, gone : BOOLEAN]
HostType == [tee : BOOLEAN, stop : BOOLEAN, cancelled : BOOLEAN, active : BOOLEAN]
FwdType == [pc : {"start", "check", "read", "write", "join", "finish", "done"},
            line : Line \cup {NoLine}]
SrvType == [pc : {"none", "session", "loop", "pop", "write", "join", "done"},
            line : Line \cup {NoLine}]
PubType == [line : Line \cup {NoLine}, snap : SUBSET Hosts]

LogType ==
  /\ fwd \in [Hosts -> FwdType] /\ app \in [Hosts -> Line \cup {NoLine}]
  /\ side \in [Hosts -> HostType] /\ net \in [Hosts -> NetType] /\ srv \in [Hosts -> SrvType]
  /\ buf \in [Hosts -> Seq(Line)] /\ pub \in [Loggers -> PubType] /\ lines \in 0..MaxLines
  /\ DOMAIN got = Hosts /\ DOMAIN sent = Hosts
  /\ \A h \in Hosts : fwd[h].pc = "write" => fwd[h].line \in Line
  /\ \A h \in Hosts : srv[h].pc = "write" => srv[h].line \in Line
  /\ \A p \in Loggers : pub[p].snap # {} => pub[p].line \in Line

\* activeStream_ is set while forwardUntil is in its loop, and a host thread
\* writes only to it.
Writers(h) ==
  /\ app[h] # NoLine => side[h].active
  /\ side[h].active => fwd[h].pc \in {"check", "read", "write", "join"}

\* A device thread other than the device's own publishes what has crossed the
\* network.
Publishers ==
  /\ \A h \in Hosts : pub[h].snap # {} => ~Own(pub[h].line)
  /\ pub[Device].snap # {} => Own(pub[Device].line)

\* What a host has read, what is under way in the stream, in the handler and in
\* the buffer, and what is being published follow each other.
Chain(A, B, C, D, E) ==
  /\ Before(A, B) /\ Before(A, C) /\ Before(A, D) /\ Before(A, E)
  /\ Before(B, C) /\ Before(B, D) /\ Before(B, E)
  /\ Before(C, D) /\ Before(C, E) /\ Before(D, E)
Known(h) ==
  got[h] \cup OwnIds(net[h].toHost) \cup OwnIds(Popped(h)) \cup OwnIds(buf[h]) \cup Pending(h)
Flow(h) ==
  /\ InOrder(net[h].toHost) /\ InOrder(buf[h])
  /\ Chain(got[h], OwnIds(net[h].toHost), OwnIds(Popped(h)), OwnIds(buf[h]), Pending(h))
  /\ Known(h) \subseteq 1..lines

\* What has been published to an open stream is in one of them.
Accounted(h) == h \in subs \ over /\ ~net[h].gone => sent[h] = Known(h)

\* A stream is subscribed once, and before that nothing has been sent to it.
Streams(h) ==
  /\ fwd[h].pc = "start" => srv[h].pc = "none"
  /\ h \in subs => srv[h].pc \in {"loop", "pop", "write", "join"}
  /\ srv[h].pc \in {"none", "session"} =>
       /\ sent[h] = {} /\ got[h] = {} /\ net[h].toHost = <<>> /\ buf[h] = <<>>
       /\ \A p \in Loggers : h \notin pub[p].snap

LogInv ==
  /\ LogType /\ subs \subseteq Hosts /\ Publishers
  /\ \A h \in Hosts : Writers(h) /\ Streams(h) /\ Flow(h) /\ Accounted(h)

-----------------------------------------------------------------------------
(* The device's own lines in a queue that grows or shrinks.                *)

\* A line appended to a sequence adds its id, and keeps the order if it is the newest.
LEMMA Appending ==
  ASSUME NEW s \in Seq(Line), NEW line \in Line
  PROVE  /\ Append(s, line) \in Seq(Line)
         /\ OwnIds(Append(s, line)) = OwnIds(s) \cup One(line)
         /\ InOrder(s) /\ Before(OwnIds(s), One(line)) => InOrder(Append(s, line))
<1> DEFINE t == Append(s, line)
<1>1. /\ t \in Seq(Line) /\ Len(s) \in Nat /\ DOMAIN s = 1..Len(s) /\ DOMAIN t = 1..(Len(s) + 1)
      /\ \A i \in 1..Len(s) : t[i] = s[i]
      /\ t[Len(s) + 1] = line
  BY AppendProperties
<1> HIDE DEF t
<1>2. OwnIds(t) = OwnIds(s) \cup One(line)
  <2>1. OwnIds(s) \cup One(line) \subseteq OwnIds(t)
    BY <1>1 DEF OwnIds, One
  <2>2. OwnIds(t) \subseteq OwnIds(s) \cup One(line)
    BY <1>1 DEF OwnIds, One
  <2> QED
    BY Zenon, <2>1, <2>2
<1>3. ASSUME InOrder(s), Before(OwnIds(s), One(line)) PROVE InOrder(t)
  <2> SUFFICES ASSUME NEW i \in DOMAIN t, NEW j \in DOMAIN t, i < j, Own(t[i]), Own(t[j])
               PROVE  t[i].id < t[j].id
    BY Zenon DEF InOrder
  <2>1. i \in DOMAIN s /\ t[i] = s[i]
    BY <1>1
  <2>2. CASE j \in DOMAIN s
    BY Zenon, <1>1, <1>3, <2>1, <2>2 DEF InOrder
  <2>3. CASE j \notin DOMAIN s
    <3>1. t[j] = line
      BY <1>1, <2>3
    <3> QED
      BY Zenon, <1>3, <2>1, <3>1 DEF Before, OwnIds, One
  <2> QED
    BY Zenon, <2>2, <2>3
<1> QED
  BY Zenon, <1>1, <1>2, <1>3 DEF t

\* The line taken from a sequence in order is older than those left.
LEMMA Taking ==
  ASSUME NEW s \in Seq(Line), s # <<>>
  PROVE  /\ Head(s) \in Line /\ Tail(s) \in Seq(Line)
         /\ OwnIds(s) = One(Head(s)) \cup OwnIds(Tail(s))
         /\ InOrder(s) => InOrder(Tail(s)) /\ Before(One(Head(s)), OwnIds(Tail(s)))
<1> DEFINE h == Head(s)  t == Tail(s)
<1>1. /\ h \in Line /\ t \in Seq(Line) /\ Len(s) \in Nat /\ Len(s) # 0 /\ DOMAIN s = 1..Len(s)
      /\ h = s[1] /\ DOMAIN t = 1..(Len(s) - 1)
      /\ \A i \in 1..(Len(s) - 1) : t[i] = s[i + 1]
  BY HeadTailProperties, EmptySeq
<1> HIDE DEF h, t
<1>2. \A i \in DOMAIN s : i = 1 \/ (i - 1 \in DOMAIN t /\ t[i - 1] = s[i])
  BY <1>1
<1>3. \A i \in DOMAIN t : i + 1 \in DOMAIN s /\ t[i] = s[i + 1] /\ 1 < i + 1 /\ 1 \in DOMAIN s
  BY <1>1
<1>4. OwnIds(s) = One(h) \cup OwnIds(t)
  <2>1. OwnIds(s) \subseteq One(h) \cup OwnIds(t)
    BY <1>1, <1>2 DEF OwnIds, One
  <2>2. One(h) \cup OwnIds(t) \subseteq OwnIds(s)
    BY <1>1, <1>3 DEF OwnIds, One
  <2> QED
    BY Zenon, <2>1, <2>2
<1>5. ASSUME InOrder(s) PROVE InOrder(t) /\ Before(One(h), OwnIds(t))
  <2>1. InOrder(t)
    <3> SUFFICES ASSUME NEW i \in DOMAIN t, NEW j \in DOMAIN t, i < j, Own(t[i]), Own(t[j])
                 PROVE  t[i].id < t[j].id
      BY Zenon DEF InOrder
    <3>1. i + 1 \in DOMAIN s /\ j + 1 \in DOMAIN s /\ i + 1 < j + 1 /\ t[i] = s[i + 1] /\ t[j] = s[j + 1]
      BY <1>1, <1>3
    <3> QED
      BY Zenon, <1>5, <3>1 DEF InOrder
  <2>2. Before(One(h), OwnIds(t))
    BY <1>1, <1>3, <1>5 DEF InOrder, Before, One, OwnIds
  <2> QED
    BY Zenon, <2>1, <2>2
<1> QED
  BY Zenon, <1>1, <1>4, <1>5 DEF h, t

\* Two sequences in order, the first older than the second, are in order joined.
LEMMA Joining ==
  ASSUME NEW s \in Seq(Line), NEW t \in Seq(Line)
  PROVE  /\ s \o t \in Seq(Line)
         /\ OwnIds(s \o t) = OwnIds(s) \cup OwnIds(t)
         /\ InOrder(s) /\ InOrder(t) /\ Before(OwnIds(s), OwnIds(t)) => InOrder(s \o t)
<1> DEFINE u == s \o t
<1>1. /\ u \in Seq(Line) /\ Len(s) \in Nat /\ Len(t) \in Nat
      /\ DOMAIN s = 1..Len(s) /\ DOMAIN t = 1..Len(t) /\ DOMAIN u = 1..(Len(s) + Len(t))
      /\ \A i \in 1..(Len(s) + Len(t)) : u[i] = IF i <= Len(s) THEN s[i] ELSE t[i - Len(s)]
  BY ConcatProperties
<1> HIDE DEF u
<1>2. \A i \in DOMAIN u : \/ i \in DOMAIN s /\ u[i] = s[i]
                          \/ i > Len(s) /\ i - Len(s) \in DOMAIN t /\ u[i] = t[i - Len(s)]
  BY <1>1
<1>3. /\ \A i \in DOMAIN s : i \in DOMAIN u /\ u[i] = s[i]
      /\ \A i \in DOMAIN t : i + Len(s) \in DOMAIN u /\ u[i + Len(s)] = t[i]
  BY <1>1
<1>4. OwnIds(u) = OwnIds(s) \cup OwnIds(t)
  <2>1. OwnIds(u) \subseteq OwnIds(s) \cup OwnIds(t)
    BY Zenon, <1>2 DEF OwnIds
  <2>2. OwnIds(s) \cup OwnIds(t) \subseteq OwnIds(u)
    BY <1>3 DEF OwnIds
  <2> QED
    BY Zenon, <2>1, <2>2
<1>5. ASSUME InOrder(s), InOrder(t), Before(OwnIds(s), OwnIds(t)) PROVE InOrder(u)
  <2> SUFFICES ASSUME NEW i \in DOMAIN u, NEW j \in DOMAIN u, i < j, Own(u[i]), Own(u[j])
               PROVE  u[i].id < u[j].id
    BY Zenon DEF InOrder
  <2>1. CASE i \in DOMAIN s /\ j \in DOMAIN s
    BY Zenon, <1>3, <1>5, <2>1 DEF InOrder
  <2>2. CASE i \in DOMAIN s /\ j \notin DOMAIN s
    BY SMTT(30), <1>2, <1>3, <1>5, <2>2 DEF Before, OwnIds
  <2>3. CASE i \notin DOMAIN s
    <3>1. /\ i - Len(s) \in DOMAIN t /\ u[i] = t[i - Len(s)]
          /\ j - Len(s) \in DOMAIN t /\ u[j] = t[j - Len(s)] /\ i - Len(s) < j - Len(s)
      BY <1>1, <2>3
    <3> QED
      BY Zenon, <1>5, <3>1 DEF InOrder
  <2> QED
    BY Zenon, <2>1, <2>2, <2>3
<1> QED
  BY Zenon, <1>1, <1>4, <1>5 DEF u

-----------------------------------------------------------------------------
(* Types.                                                                  *)

\* A line that crossed is no longer the device's own; a fresh one is its logger's.
LEMMA LineFacts ==
  /\ \A line \in Line : Crossed(line) \in Line /\ ~Own(Crossed(line))
  /\ lines \in 0..MaxLines /\ lines < MaxLines =>
       \A p \in Loggers, level \in Levels :
         Fresh(p, level) \in Line /\ (Own(Fresh(p, level)) <=> p = Device)
  /\ Quiet \in PubType /\ Quiet.snap = {}
  /\ Device \in Loggers /\ Hosts \subseteq Loggers /\ Device \notin Hosts
<1>1. /\ Device \in Loggers /\ Hosts \subseteq Loggers /\ Device \notin Hosts
      /\ MaxHops \in Nat /\ MaxHops >= 1 /\ MaxLines \in Nat
  BY LogAssumption DEF Loggers
<1>2. ASSUME NEW line \in Line PROVE Crossed(line) \in Line /\ ~Own(Crossed(line))
  <2>1. line.hops \in 0..MaxHops
    BY Zenon DEF Line
  <2>2. Crossed(line).hops \in 1..MaxHops
    BY <1>1, <2>1 DEF Crossed, Line
  <2> QED
    BY <1>1, <2>1, <2>2 DEF Crossed, Line, Own
<1>3. ASSUME lines \in 0..MaxLines, lines < MaxLines, NEW p \in Loggers, NEW level \in Levels
      PROVE  Fresh(p, level) \in Line /\ (Own(Fresh(p, level)) <=> p = Device)
  BY <1>1, <1>3 DEF Fresh, Line, Own
<1> QED
  BY Zenon, <1>1, <1>2, <1>3 DEF Quiet, PubType

\* A write to the device leaves the other direction alone.
LEMMA ToDeviceMoves ==
  ASSUME LogInv, NEW h \in Hosts, NEW line \in Line, ToDevice(h, line)
  PROVE  /\ net' \in [Hosts -> NetType]
         /\ \A g \in Hosts : net'[g].toHost = net[g].toHost /\ net'[g].gone = net[g].gone
<1>1. net \in [Hosts -> NetType]
  BY Zenon DEF LogInv, LogType
<1>2. CASE UNCHANGED net
  BY Zenon, <1>1, <1>2
<1>3. CASE net' = [net EXCEPT ![h].toDevice = Append(@, line)]
  <2>1. Append(net[h].toDevice, line) \in Seq(Line)
    BY Zenon, <1>1, AppendProperties DEF NetType
  <2> QED
    BY Zenon, <1>1, <1>3, <2>1 DEF NetType
<1> QED
  BY Zenon, <1>2, <1>3 DEF ToDevice

\* publish, by a logger whose line is its own or, on the device, has crossed.
LEMMA Publishing ==
  ASSUME LogInv, NEW p \in Loggers, NEW line \in Line, publish(p, line),
         Own(line) <=> p = Device
  PROVE  /\ pub' \in [Loggers -> PubType] /\ DOMAIN sent' = Hosts
         /\ \A q \in Loggers : pub'[q].snap # {} => pub'[q].line \in Line
         /\ Publishers'
         /\ \A q \in Loggers \ {p} : pub'[q] = pub[q]
         /\ pub'[p].snap = subs /\ (subs # {} => pub'[p].line = line)
<1>1. pub \in [Loggers -> PubType] /\ subs \subseteq Hosts
  BY Zenon DEF LogInv, LogType
<1>2. /\ \A q \in Loggers \ {p} : pub'[q] = pub[q]
      /\ pub'[p] = IF subs = {} THEN Quiet ELSE [line |-> line, snap |-> subs]
      /\ DOMAIN pub' = Loggers
  BY Zenon, <1>1 DEF publish
<1>3. pub'[p] \in PubType /\ pub'[p].snap = subs /\ (subs # {} => pub'[p].line = line)
  BY <1>1, <1>2, LineFacts DEF PubType
<1>4. pub' \in [Loggers -> PubType]
  <2>1. pub' = [q \in Loggers |-> pub'[q]]
    BY Zenon, <1>1 DEF publish
  <2>2. \A q \in Loggers : pub'[q] \in PubType
    BY Zenon, <1>1, <1>2, <1>3
  <2> QED
    BY Zenon, <2>1, <2>2
<1>5. Publishers'
  BY <1>2, <1>3, LineFacts DEF Publishers, LogInv
<1>6. DOMAIN sent' = Hosts
  BY Zenon DEF publish
<1> QED
  BY Zenon, <1>2, <1>3, <1>4, <1>5, <1>6 DEF LogInv, LogType

-----------------------------------------------------------------------------
(* Steps on the host and in the network that move no line towards a host.  *)

\* A step that touches nothing on the way to a host keeps what is on the way.
LEMMA FrameFlow ==
  ASSUME LogInv, NEW h \in Hosts,
         net'[h].toHost = net[h].toHost, Popped(h)' = Popped(h), buf'[h] = buf[h],
         got'[h] = got[h], Pending(h)' = Pending(h), lines' \in Nat, lines <= lines'
  PROVE  Flow(h)' /\ Known(h)' = Known(h)
<1>1. Known(h)' = Known(h)
  BY Zenon DEF Known
<1>2. lines \in Nat /\ Known(h) \subseteq 1..lines
  BY LogAssumption DEF LogInv, LogType, Flow
<1>3. Known(h)' \subseteq 1..lines'
  BY <1>1, <1>2
<1> QED
  BY Zenon, <1>1, <1>3 DEF LogInv, Flow

\* The count of lines in LogInv's type, in the forms the steps below use.
LEMMA LinesTyped ==
  LogInv => lines \in 0..MaxLines /\ lines \in Nat /\ lines \in Int /\ lines <= lines
<1>1. LogInv => lines \in 0..MaxLines
  BY Zenon DEF LogInv, LogType
<1> QED
  BY <1>1, LogAssumption

\* A step of a host that leaves the device's side alone keeps the invariant.
LEMMA HostSide ==
  ASSUME LogInv, UNCHANGED <<srv, buf, subs, pub, got, sent, over>>,
         lines' \in 0..MaxLines, lines <= lines',
         net' \in [Hosts -> NetType],
         \A g \in Hosts : net'[g].toHost = net[g].toHost /\ (net[g].gone => net'[g].gone),
         fwd' \in [Hosts -> FwdType], app' \in [Hosts -> Line \cup {NoLine}],
         side' \in [Hosts -> HostType],
         \A g \in Hosts : /\ Writers(g)'
                          /\ fwd'[g].pc = "write" => fwd'[g].line \in Line
                          /\ fwd'[g].pc = "start" => fwd[g].pc = "start"
  PROVE  LogInv'
<1>1. LogType' /\ (subs \subseteq Hosts)' /\ Publishers'
  BY Zenon DEF LogInv, LogType, Publishers, Own
<1>2. ASSUME NEW g \in Hosts PROVE Streams(g)' /\ Flow(g)' /\ Accounted(g)'
  <2>1. Popped(g)' = Popped(g) /\ Pending(g)' = Pending(g)
    BY Zenon DEF Popped, Pending
  <2>2. lines' \in Nat
    OBVIOUS
  <2>3. Flow(g)' /\ Known(g)' = Known(g)
    BY Zenon, <2>1, <2>2, FrameFlow
  <2>4. Streams(g)'
    BY Zenon DEF LogInv, Streams
  <2>5. Accounted(g)'
    BY Zenon, <2>3 DEF LogInv, Accounted
  <2> QED
    BY Zenon, <2>3, <2>4, <2>5
<1> QED
  BY Zenon, <1>1, <1>2 DEF LogInv

\* Steps of forwardUntil that only move on.
LEMMA ForwarderMoves ==
  ASSUME LogInv, NEW h \in Hosts,
         \/ CheckStop(h) \/ ReadEnds(h) \/ writeInbound(h) \/ StreamRetired(h) \/ StreamFinished(h)
  PROVE  LogInv'
<1>1. /\ fwd \in [Hosts -> FwdType] /\ side \in [Hosts -> HostType] /\ net \in [Hosts -> NetType]
      /\ app \in [Hosts -> Line \cup {NoLine}] /\ lines \in Int
      /\ \A g \in Hosts : fwd[g].pc = "write" => fwd[g].line \in Line
      /\ \A g \in Hosts : Writers(g)
  BY DEF LogInv, LogType
<1>2. UNCHANGED <<srv, buf, subs, pub, got, sent, over, app, lines>>
  BY Zenon DEF CheckStop, ReadEnds, writeInbound, StreamRetired, StreamFinished, history
<1>3. /\ net' \in [Hosts -> NetType]
      /\ \A g \in Hosts : net'[g].toHost = net[g].toHost /\ net'[g].gone = net[g].gone
  <2>1. CASE writeInbound(h)
    BY Zenon, <1>1, <2>1, ToDeviceMoves DEF writeInbound
  <2>2. CASE ~writeInbound(h)
    BY Zenon, <1>1, <2>2 DEF CheckStop, ReadEnds, StreamRetired, StreamFinished
  <2> QED
    BY Zenon, <2>1, <2>2
<1>4. /\ fwd' \in [Hosts -> FwdType] /\ \A g \in Hosts \ {h} : fwd'[g] = fwd[g]
      /\ \/ fwd[h].pc = "check" /\ fwd'[h].pc \in {"join", "read"}
         \/ fwd[h].pc = "read" /\ fwd'[h].pc = "join"
         \/ fwd[h].pc = "write" /\ fwd'[h].pc = "check"
         \/ fwd[h].pc = "join" /\ fwd'[h].pc = "finish" /\ StreamRetired(h)
         \/ fwd[h].pc = "finish" /\ fwd'[h].pc = "done"
  <2>1. CASE CheckStop(h)
    BY <1>1, <2>1 DEF CheckStop, FwdType
  <2>2. CASE ReadEnds(h)
    BY Zenon, <1>1, <2>2 DEF ReadEnds, FwdType
  <2>3. CASE writeInbound(h)
    BY Zenon, <1>1, <2>3 DEF writeInbound, FwdType
  <2>4. CASE StreamRetired(h)
    BY <1>1, <2>4 DEF StreamRetired, FwdType
  <2>5. CASE StreamFinished(h)
    BY <1>1, <2>5 DEF StreamFinished, FwdType
  <2> QED
    BY Zenon, <2>1, <2>2, <2>3, <2>4, <2>5
<1>5. /\ side' \in [Hosts -> HostType] /\ \A g \in Hosts \ {h} : side'[g] = side[g]
      /\ \/ UNCHANGED side /\ ~StreamRetired(h)
         \/ ~side'[h].active /\ app[h] = NoLine
  <2>1. CASE StreamRetired(h)
    BY Zenon, <1>1, <2>1 DEF StreamRetired, HostType
  <2>2. CASE ~StreamRetired(h)
    BY Zenon, <1>1, <2>2 DEF CheckStop, ReadEnds, writeInbound, StreamFinished
  <2> QED
    BY Zenon, <2>1, <2>2
<1>6. ASSUME NEW g \in Hosts
      PROVE  /\ Writers(g)' /\ (fwd'[g].pc = "write" => fwd'[g].line \in Line)
             /\ fwd'[g].pc = "start" => fwd[g].pc = "start"
  BY Zenon, <1>1, <1>2, <1>4, <1>5 DEF Writers
<1>7. lines' \in 0..MaxLines /\ lines <= lines' /\ app' \in [Hosts -> Line \cup {NoLine}]
  BY <1>1, <1>2 DEF LogInv, LogType
<1> QED
  BY Zenon, <1>2, <1>3, <1>4, <1>5, <1>6, <1>7, HostSide

\* A host that stops forwarding, and a connection that is lost, keep the invariant.
LEMMA HostMoves ==
  ASSUME LogInv, NEW h \in Hosts,
         \/ cancelOnStop(h) \/ RestoreLogService(h) \/ StopForwarding(h)
         \/ ConnectionLost(h) \/ ServerSeesEnd(h)
  PROVE  LogInv'
<1>1. /\ side \in [Hosts -> HostType] /\ net \in [Hosts -> NetType] /\ lines \in Int
      /\ \A g \in Hosts : Writers(g)
  BY Zenon, LinesTyped DEF LogInv, LogType
<1>2. UNCHANGED <<srv, buf, subs, pub, got, sent, over, app, lines, fwd>>
  BY Zenon DEF cancelOnStop, RestoreLogService, StopForwarding, ConnectionLost, ServerSeesEnd, history
<1>3. side' \in [Hosts -> HostType] /\ \A g \in Hosts : side'[g].active = side[g].active
  <2>1. CASE cancelOnStop(h)
    BY Zenon, <1>1, <2>1 DEF cancelOnStop, HostType
  <2>2. CASE RestoreLogService(h)
    BY Zenon, <1>1, <2>2 DEF RestoreLogService, HostType
  <2>3. CASE StopForwarding(h)
    BY Zenon, <1>1, <2>3 DEF StopForwarding, HostType
  <2>4. CASE ConnectionLost(h) \/ ServerSeesEnd(h)
    BY Zenon, <1>1, <2>4 DEF ConnectionLost, ServerSeesEnd
  <2> QED
    BY Zenon, <2>1, <2>2, <2>3, <2>4
<1>4. /\ net' \in [Hosts -> NetType]
      /\ \A g \in Hosts : net'[g].toHost = net[g].toHost /\ (net[g].gone => net'[g].gone)
  <2>1. CASE ConnectionLost(h)
    BY Zenon, <1>1, <2>1 DEF ConnectionLost, NetType
  <2>2. CASE ServerSeesEnd(h)
    BY Zenon, <1>1, <2>2 DEF ServerSeesEnd, NetType
  <2>3. CASE ~ConnectionLost(h) /\ ~ServerSeesEnd(h)
    BY Zenon, <1>1, <2>3 DEF cancelOnStop, RestoreLogService, StopForwarding
  <2> QED
    BY Zenon, <2>1, <2>2, <2>3
<1>5. \A g \in Hosts : Writers(g)'
  BY Zenon, <1>1, <1>2, <1>3 DEF Writers
<1> QED
  BY Zenon, <1>1, <1>2, <1>3, <1>4, <1>5, HostSide, LinesTyped DEF LogInv, LogType

\* A host that logs, or writes its line to the device, keeps the invariant.
LEMMA HostWrites ==
  ASSUME LogInv, NEW h \in Hosts,
         writeOutbound(h) \/ \E level \in Levels : HostLogs(h, level)
  PROVE  LogInv'
<1>1. /\ app \in [Hosts -> Line \cup {NoLine}] /\ net \in [Hosts -> NetType] /\ lines \in Int
      /\ \A g \in Hosts : Writers(g)
  BY DEF LogInv, LogType
<1>2. UNCHANGED <<srv, buf, subs, pub, got, sent, over, fwd, side>>
  BY Zenon DEF writeOutbound, HostLogs, history
<1>3. CASE writeOutbound(h)
  <2>1. UNCHANGED lines /\ app' = [app EXCEPT ![h] = NoLine] /\ app[h] \in Line
    BY Zenon, <1>1, <1>3 DEF writeOutbound
  <2>2. /\ net' \in [Hosts -> NetType]
        /\ \A g \in Hosts : net'[g].toHost = net[g].toHost /\ net'[g].gone = net[g].gone
    BY Zenon, <1>3, <2>1, ToDeviceMoves DEF writeOutbound
  <2>3. app' \in [Hosts -> Line \cup {NoLine}] /\ \A g \in Hosts : Writers(g)'
    BY Zenon, <1>1, <1>2, <2>1 DEF Writers
  <2> QED
    BY Zenon, <1>1, <1>2, <2>1, <2>2, <2>3, HostSide, LinesTyped DEF LogInv, LogType
<1>4. CASE \E level \in Levels : HostLogs(h, level)
  <2>1. PICK level \in Levels : HostLogs(h, level)
    BY Zenon, <1>4
  <2>2. /\ UNCHANGED net /\ lines' = lines + 1 /\ lines < HostLines
        /\ app' = [app EXCEPT ![h] = IF side[h].active THEN Fresh(h, level) ELSE NoLine]
    BY Zenon, <2>1 DEF HostLogs
  <2>3. lines \in 0..MaxLines /\ lines < MaxLines /\ lines' \in 0..MaxLines /\ lines <= lines'
    BY SMTT(30), <2>2, LogAssumption DEF LogInv, LogType
  <2>4. Fresh(h, level) \in Line
    BY Zenon, <2>3, LineFacts
  <2>5. app' \in [Hosts -> Line \cup {NoLine}] /\ \A g \in Hosts : Writers(g)'
    BY Zenon, <1>1, <1>2, <2>2, <2>4 DEF Writers
  <2> QED
    BY Zenon, <1>1, <1>2, <2>2, <2>3, <2>5, HostSide DEF LogInv, LogType
<1> QED
  BY Zenon, <1>3, <1>4

-----------------------------------------------------------------------------
(* Steps that move lines towards host h.                                   *)

\* The order and the ids of the empty sequence and of a sequence of one line.
LEMMA Singles ==
  /\ OwnIds(<<>>) = {} /\ InOrder(<<>>)
  /\ \A line \in Line : OwnIds(<<line>>) = One(line) /\ <<line>> \in Seq(Line) /\ InOrder(<<line>>)
<1>1. OwnIds(<<>>) = {} /\ InOrder(<<>>)
  BY DEF OwnIds, InOrder
<1>2. ASSUME NEW line \in Line
      PROVE  OwnIds(<<line>>) = One(line) /\ <<line>> \in Seq(Line) /\ InOrder(<<line>>)
  <2>1. DOMAIN <<line>> = 1..1 /\ <<line>>[1] = line /\ <<line>> \in Seq(Line)
    OBVIOUS
  <2> DEFINE s == <<line>>
  <2>2. DOMAIN s = 1..1 /\ s[1] = line
    BY Zenon, <2>1
  <2> HIDE DEF s
  <2>3. OwnIds(s) = One(line) /\ InOrder(s)
    BY <2>2 DEF OwnIds, One, InOrder
  <2> QED
    BY Zenon, <2>1, <2>3 DEF s
<1> QED
  BY Zenon, <1>1, <1>2

\* A step on one host's way keeps the invariant if it keeps that host's part of it.
LEMMA Delivery ==
  ASSUME LogInv, NEW h \in Hosts,
         LogType', (subs \subseteq Hosts)', Publishers', \A g \in Hosts : Writers(g)',
         UNCHANGED lines,
         \A g \in Hosts \ {h} :
           /\ net'[g].toHost = net[g].toHost /\ net'[g].gone = net[g].gone
           /\ srv'[g] = srv[g] /\ buf'[g] = buf[g] /\ got'[g] = got[g] /\ sent'[g] = sent[g]
           /\ g \in subs' <=> g \in subs
           /\ g \in over => g \in over'
           /\ fwd'[g].pc = fwd[g].pc /\ Pending(g)' = Pending(g)
           /\ \A p \in Loggers : g \in pub'[p].snap => g \in pub[p].snap,
         Streams(h)', Flow(h)', Accounted(h)'
  PROVE  LogInv'
<1>1. ASSUME NEW g \in Hosts \ {h} PROVE Streams(g)' /\ Flow(g)' /\ Accounted(g)'
  <2>1. Popped(g)' = Popped(g)
    BY Zenon DEF Popped
  <2>2. lines \in Nat
    BY Zenon, LinesTyped
  <2>3. Flow(g)' /\ Known(g)' = Known(g)
    BY <2>1, <2>2, FrameFlow
  <2>4. Streams(g)'
    BY SMTT(30) DEF LogInv, Streams
  <2>5. Accounted(g)'
    BY Zenon, <2>3 DEF LogInv, Accounted
  <2> QED
    BY Zenon, <2>3, <2>4, <2>5
<1> QED
  BY Zenon, <1>1 DEF LogInv

\* The handler's steps that move no line: the stream's own place changes.
LEMMA PlaceMoves ==
  ASSUME LogInv, NEW h \in Hosts,
         StreamOpens(h) \/ Refuse(h) \/ LoopTest(h) \/ waitTimesOut(h) \/ Subscribe(h)
  PROVE  LogInv'
<1>1. /\ fwd \in [Hosts -> FwdType] /\ side \in [Hosts -> HostType] /\ srv \in [Hosts -> SrvType]
      /\ subs \subseteq Hosts /\ lines \in Nat
      /\ Writers(h) /\ Streams(h) /\ Flow(h) /\ Accounted(h)
  BY Zenon, LinesTyped DEF LogInv, LogType
<1>2. UNCHANGED <<net, buf, pub, got, sent, over, app, lines>>
  BY Zenon DEF StreamOpens, Refuse, LoopTest, waitTimesOut, Subscribe, history
<1>3. /\ srv' \in [Hosts -> SrvType] /\ \A g \in Hosts \ {h} : srv'[g] = srv[g]
      /\ \/ srv[h].pc = "none" /\ srv'[h].pc = "session"
         \/ srv[h].pc = "session" /\ srv'[h].pc = "loop"
         \/ srv[h].pc = "session" /\ srv'[h].pc = "done" /\ UNCHANGED subs
         \/ srv[h].pc \in {"loop", "pop"} /\ srv'[h].pc \in {"loop", "pop", "join"} /\ UNCHANGED subs
  <2>1. CASE StreamOpens(h)
    BY Zenon, <1>1, <2>1 DEF StreamOpens, SrvType, Streams
  <2>2. CASE Refuse(h)
    BY Zenon, <1>1, <2>2 DEF Refuse, SrvType
  <2>3. CASE LoopTest(h)
    BY <1>1, <2>3 DEF LoopTest, SrvType
  <2>4. CASE waitTimesOut(h)
    BY Zenon, <1>1, <2>4 DEF waitTimesOut, SrvType
  <2>5. CASE Subscribe(h)
    BY <1>1, <2>5 DEF Subscribe, SrvType
  <2> QED
    BY Zenon, <2>1, <2>2, <2>3, <2>4, <2>5
<1>4. /\ subs' \subseteq Hosts /\ \A g \in Hosts \ {h} : g \in subs' <=> g \in subs
      /\ subs' = subs \/ (srv[h].pc = "session" /\ srv'[h].pc = "loop")
  <2>1. CASE Subscribe(h)
    BY Zenon, <1>1, <2>1 DEF Subscribe, SrvType
  <2>2. CASE ~Subscribe(h)
    BY Zenon, <1>1, <2>2 DEF StreamOpens, Refuse, LoopTest, waitTimesOut
  <2> QED
    BY Zenon, <2>1, <2>2
<1>5. /\ fwd' \in [Hosts -> FwdType] /\ side' \in [Hosts -> HostType]
      /\ \A g \in Hosts \ {h} : fwd'[g] = fwd[g] /\ side'[g] = side[g]
      /\ \/ UNCHANGED <<fwd, side>> /\ srv[h].pc # "none"
         \/ fwd'[h].pc = "check" /\ side'[h].active
  <2>1. CASE StreamOpens(h)
    BY ZenonT(60), <1>1, <2>1 DEF StreamOpens, FwdType, HostType
  <2>2. CASE ~StreamOpens(h)
    BY Zenon, <1>1, <2>2 DEF Refuse, LoopTest, waitTimesOut, Subscribe
  <2> QED
    BY Zenon, <2>1, <2>2
<1>6. \A g \in Hosts : Writers(g)' /\ (fwd'[g].pc = "write" => fwd[g].pc = "write" /\ fwd'[g] = fwd[g])
  BY Zenon, <1>1, <1>2, <1>5 DEF Writers, LogInv
<1>7. \A g \in Hosts : srv'[g].pc = "write" => srv[g].pc = "write" /\ srv'[g] = srv[g]
  BY Zenon, <1>3
<1>8. LogType'
  BY SMTT(30), <1>2, <1>3, <1>5, <1>6, <1>7 DEF LogInv, LogType
<1>9. Publishers' /\ \A g \in Hosts : Pending(g)' = Pending(g)
  BY Zenon, <1>2 DEF LogInv, Publishers, Own, Pending
<1>10. Popped(h)' = Popped(h)
  BY Zenon, <1>3 DEF Popped
<1>11. Flow(h)' /\ Known(h)' = Known(h)
  BY SMTT(30), <1>1, <1>2, <1>9, <1>10, FrameFlow
<1>12. Streams(h)'
  BY Zenon, <1>1, <1>2, <1>3, <1>4, <1>5 DEF Streams
<1>13. Accounted(h)'
  <2>1. CASE subs' = subs
    BY Zenon, <1>1, <1>2, <1>11, <2>1 DEF Accounted
  <2>2. CASE srv[h].pc = "session"
    <3>1. /\ sent[h] = {} /\ got[h] = {} /\ net[h].toHost = <<>> /\ buf[h] = <<>>
          /\ Popped(h) = <<>> /\ Pending(h) = {}
      BY Zenon, <1>1, <2>2, LineFacts DEF Streams, Popped, Pending
    <3>2. Known(h) = {}
      BY Zenon, <3>1, Singles DEF Known
    <3> QED
      BY Zenon, <1>2, <1>11, <3>1, <3>2 DEF Accounted
  <2> QED
    BY Zenon, <1>4, <2>1, <2>2
<1> QED
  BY Zenon, <1>2, <1>3, <1>4, <1>5, <1>6, <1>8, <1>9, <1>11, <1>12, <1>13, Delivery

\* Read, on the host: the oldest line of the stream becomes the newest read.
LEMMA IngestInv ==
  ASSUME LogInv, NEW h \in Hosts, ingestInbound(h)
  PROVE  LogInv'
<1> DEFINE s == net[h].toHost  line == Head(s)
<1>1. /\ fwd \in [Hosts -> FwdType] /\ net \in [Hosts -> NetType] /\ s \in Seq(Line) /\ s # <<>>
      /\ DOMAIN got = Hosts /\ lines \in Nat
      /\ Writers(h) /\ Streams(h) /\ Flow(h) /\ Accounted(h)
  BY LogAssumption DEF LogInv, LogType, NetType, ingestInbound
<1>2. /\ line \in Line /\ Tail(s) \in Seq(Line) /\ OwnIds(s) = One(line) \cup OwnIds(Tail(s))
      /\ InOrder(s) => InOrder(Tail(s)) /\ Before(One(line), OwnIds(Tail(s)))
  BY Zenon, <1>1, Taking
<1>3. UNCHANGED <<app, side, srv, buf, subs, pub, lines, sent, over>>
  BY Zenon DEF ingestInbound
<1>4. /\ net' \in [Hosts -> NetType] /\ \A g \in Hosts \ {h} : net'[g] = net[g]
      /\ net'[h].toHost = Tail(s) /\ net'[h].gone = net[h].gone
  BY ZenonT(60), <1>1, <1>2 DEF ingestInbound, NetType
<1>5. /\ DOMAIN got' = Hosts /\ \A g \in Hosts \ {h} : got'[g] = got[g]
      /\ got'[h] = got[h] \cup One(line)
  BY Zenon, <1>1 DEF ingestInbound, One
<1>6. /\ fwd' \in [Hosts -> FwdType] /\ \A g \in Hosts \ {h} : fwd'[g] = fwd[g]
      /\ fwd[h].pc = "read" /\ fwd'[h].pc \in {"write", "check"}
      /\ fwd'[h].pc = "write" => fwd'[h].line \in Line
  <2> DEFINE new == IF side[h].tee THEN [pc |-> "write", line |-> Crossed(line)]
                                   ELSE [pc |-> "check", line |-> NoLine]
  <2>1. /\ new \in FwdType /\ new.pc \in {"write", "check"} /\ (new.pc = "write" => new.line \in Line)
    BY Zenon, <1>2, LineFacts DEF FwdType
  <2>2. fwd[h].pc = "read" /\ fwd' = [fwd EXCEPT ![h] = new]
    BY Zenon DEF ingestInbound
  <2> HIDE DEF new
  <2> QED
    BY Zenon, <1>1, <2>1, <2>2
<1> HIDE DEF s, line
<1>7. LogType'
  BY Zenon, <1>3, <1>4, <1>5, <1>6 DEF LogInv, LogType
<1>8. \A g \in Hosts : Writers(g)'
  BY Zenon, <1>3, <1>6 DEF LogInv, Writers
<1>9. Publishers' /\ \A g \in Hosts : Pending(g)' = Pending(g) /\ Popped(g)' = Popped(g)
  BY Zenon, <1>3 DEF LogInv, Publishers, Own, Pending, Popped
<1>10. Known(h)' = Known(h)
  BY Zenon, <1>2, <1>3, <1>4, <1>5, <1>9 DEF Known, s
<1>11. Flow(h)'
  <2>1. Chain(got[h] \cup One(line), OwnIds(Tail(s)), OwnIds(Popped(h)), OwnIds(buf[h]), Pending(h))
    BY Zenon, <1>1, <1>2 DEF Flow, Chain, Before, s
  <2> QED
    BY Zenon, <1>1, <1>2, <1>3, <1>4, <1>5, <1>9, <1>10, <2>1 DEF Flow, s
<1>12. Streams(h)'
  BY Zenon, <1>1, <1>3, <1>6 DEF Streams, s
<1>13. Accounted(h)'
  BY Zenon, <1>1, <1>3, <1>4, <1>10 DEF Accounted
<1>14. \A g \in Hosts \ {h} : fwd'[g].pc = fwd[g].pc
  BY Zenon, <1>6
<1> QED
  BY Zenon, <1>3, <1>4, <1>5, <1>7, <1>8, <1>9, <1>11, <1>12, <1>13, <1>14, Delivery DEF LogInv

\* StreamLogs: a line is popped, written or dropped, or the stream unsubscribed.
LEMMA HandlerFrame ==
  ASSUME LogInv, NEW h \in Hosts,
         UNCHANGED <<fwd, app, side, pub, lines, got, sent, over>>,
         net' \in [Hosts -> NetType], srv' \in [Hosts -> SrvType], buf' \in [Hosts -> Seq(Line)],
         \A g \in Hosts \ {h} : net'[g] = net[g] /\ srv'[g] = srv[g] /\ buf'[g] = buf[g],
         net'[h].gone = net[h].gone,
         subs' \in {subs, subs \ {h}},
         srv[h].pc \notin {"none", "session"}, srv'[h].pc \notin {"none", "session"},
         srv'[h].pc = "write" => srv'[h].line \in Line,
         h \in subs' => srv'[h].pc # "done",
         Flow(h)',
         h \in subs' /\ ~net[h].gone => Known(h)' = Known(h)
  PROVE  LogInv'
<1>1. LogType' /\ (subs \subseteq Hosts)' /\ Publishers'
  BY Zenon DEF LogInv, LogType, Publishers, Own
<1>2. \A g \in Hosts : Writers(g)' /\ Pending(g)' = Pending(g)
  BY Zenon DEF LogInv, Writers, Pending
<1>3. Streams(h)'
  BY Zenon DEF LogInv, LogType, Streams, SrvType
<1>4. Accounted(h)'
  BY Zenon DEF LogInv, Accounted
<1> QED
  BY Zenon, <1>1, <1>2, <1>3, <1>4, Delivery

\* The device's handler that pops, writes or unsubscribes keeps the invariant.
LEMMA HandlerInv ==
  ASSUME LogInv, NEW h \in Hosts,
         waitPopFor(h) \/ Write(h) \/ WriteFails(h) \/ Unsubscribe(h)
  PROVE  LogInv'
<1>1. /\ net \in [Hosts -> NetType] /\ srv \in [Hosts -> SrvType] /\ buf \in [Hosts -> Seq(Line)]
      /\ net[h].toHost \in Seq(Line) /\ buf[h] \in Seq(Line)
      /\ srv[h].pc = "write" => srv[h].line \in Line
      /\ Flow(h)
  BY Zenon DEF LogInv, LogType, NetType
<1>2. UNCHANGED <<fwd, app, side, pub, lines, got, sent, over>> /\ Pending(h)' = Pending(h)
  BY Zenon DEF waitPopFor, Write, WriteFails, Unsubscribe, history, Pending
<1>3. CASE waitPopFor(h)
  <2> DEFINE s == buf[h]  line == Head(s)
  <2>1. /\ line \in Line /\ Tail(s) \in Seq(Line) /\ OwnIds(s) = One(line) \cup OwnIds(Tail(s))
        /\ InOrder(s) => InOrder(Tail(s)) /\ Before(One(line), OwnIds(Tail(s)))
    BY Zenon, <1>1, <1>3, Taking DEF waitPopFor
  <2>2. /\ UNCHANGED <<net, subs>> /\ srv[h].pc = "pop"
        /\ srv' = [srv EXCEPT ![h] = [pc |-> "write", line |-> line]]
        /\ buf' = [buf EXCEPT ![h] = Tail(s)]
    BY Zenon, <1>3 DEF waitPopFor
  <2> HIDE DEF s, line
  <2>3. /\ srv' \in [Hosts -> SrvType] /\ \A g \in Hosts \ {h} : srv'[g] = srv[g]
        /\ srv'[h].pc = "write" /\ srv'[h].line = line
    BY Zenon, <1>1, <2>1, <2>2 DEF SrvType
  <2>4. /\ buf' \in [Hosts -> Seq(Line)] /\ \A g \in Hosts \ {h} : buf'[g] = buf[g]
        /\ buf'[h] = Tail(s)
    BY Zenon, <1>1, <2>1, <2>2
  <2>5. OwnIds(Popped(h)) = {} /\ OwnIds(Popped(h)') = One(line)
    BY Zenon, <2>1, <2>2, <2>3, Singles DEF Popped
  <2>6. OwnIds(Popped(h))' = One(line)
    BY Zenon, <2>5 DEF OwnIds, Own
  <2>7. Known(h)' = Known(h)
    BY SMTT(30), <1>2, <2>1, <2>2, <2>4, <2>5, <2>6 DEF Known, s
  <2>8. Flow(h)'
    <3>1. Chain(got[h], OwnIds(net[h].toHost), One(line), OwnIds(Tail(s)), Pending(h))
      BY Zenon, <1>1, <2>1, <2>5 DEF Flow, Chain, Before, s
    <3> QED
      BY Zenon, <1>1, <1>2, <2>1, <2>2, <2>4, <2>6, <2>7, <3>1 DEF Flow, s
  <2> QED
    BY Zenon, <1>1, <1>2, <2>1, <2>2, <2>3, <2>4, <2>7, <2>8, HandlerFrame
<1>4. CASE Write(h)
  <2> DEFINE s == net[h].toHost  line == srv[h].line
  <2>1. /\ UNCHANGED <<buf, subs>> /\ srv[h].pc = "write" /\ line \in Line
        /\ srv' = [srv EXCEPT ![h] = [pc |-> "loop", line |-> NoLine]]
        /\ net' = [net EXCEPT ![h].toHost = Append(s, line)]
    BY Zenon, <1>1, <1>4 DEF Write
  <2>2. /\ Append(s, line) \in Seq(Line) /\ OwnIds(Append(s, line)) = OwnIds(s) \cup One(line)
        /\ InOrder(s) /\ Before(OwnIds(s), One(line)) => InOrder(Append(s, line))
    BY Zenon, <1>1, <2>1, Appending
  <2> HIDE DEF s, line
  <2>3. /\ srv' \in [Hosts -> SrvType] /\ \A g \in Hosts \ {h} : srv'[g] = srv[g]
        /\ srv'[h].pc = "loop"
    BY Zenon, <1>1, <2>1 DEF SrvType
  <2>4. /\ net' \in [Hosts -> NetType] /\ \A g \in Hosts \ {h} : net'[g] = net[g]
        /\ net'[h].toHost = Append(s, line) /\ net'[h].gone = net[h].gone
    BY ZenonT(60), <1>1, <2>1, <2>2 DEF NetType
  <2>5. OwnIds(Popped(h)) = One(line) /\ OwnIds(Popped(h)') = {}
    BY Zenon, <2>1, <2>3, Singles DEF Popped, line
  <2>6. OwnIds(Popped(h))' = {}
    BY Zenon, <2>5 DEF OwnIds, Own
  <2>7. Known(h)' = Known(h)
    BY <1>2, <2>1, <2>2, <2>4, <2>5, <2>6 DEF Known, s
  <2>8. Flow(h)'
    <3>1. Chain(got[h], OwnIds(Append(s, line)), {}, OwnIds(buf[h]), Pending(h))
      BY Zenon, <1>1, <2>2, <2>5 DEF Flow, Chain, Before, s
    <3>2. InOrder(Append(s, line))
      BY Zenon, <1>1, <2>2, <2>5 DEF Flow, Chain, s
    <3> QED
      BY Zenon, <1>1, <1>2, <2>1, <2>4, <2>6, <2>7, <3>1, <3>2 DEF Flow
  <2> QED
    BY Zenon, <1>1, <1>2, <2>1, <2>3, <2>4, <2>7, <2>8, HandlerFrame
<1>5. CASE WriteFails(h) \/ Unsubscribe(h)
  <2>1. /\ UNCHANGED net /\ subs' \in {subs, subs \ {h}} /\ srv[h].pc \in {"write", "join"}
        /\ h \in subs' => WriteFails(h)
    BY Zenon, <1>5 DEF WriteFails, Unsubscribe
  <2>2. /\ srv' \in [Hosts -> SrvType] /\ \A g \in Hosts \ {h} : srv'[g] = srv[g]
        /\ srv'[h].pc \in {"join", "done"} /\ (h \in subs' => srv'[h].pc = "join")
    <3>1. CASE WriteFails(h)
      BY Zenon, <1>1, <3>1 DEF WriteFails, SrvType
    <3>2. CASE Unsubscribe(h)
      BY ZenonT(60), <1>1, <3>2 DEF Unsubscribe, SrvType
    <3> QED
      BY Zenon, <1>5, <3>1, <3>2
  <2>3. /\ buf' \in [Hosts -> Seq(Line)] /\ \A g \in Hosts \ {h} : buf'[g] = buf[g]
        /\ buf'[h] = buf[h] \/ buf'[h] = <<>>
    <3>1. CASE WriteFails(h)
      BY Zenon, <1>1, <3>1 DEF WriteFails
    <3>2. CASE Unsubscribe(h)
      <4>1. buf' = [buf EXCEPT ![h] = <<>>] /\ <<>> \in Seq(Line)
        BY Zenon, <3>2, EmptySeq DEF Unsubscribe
      <4> QED
        BY Zenon, <1>1, <4>1
    <3> QED
      BY Zenon, <1>5, <3>1, <3>2
  <2>4. OwnIds(Popped(h)') = {}
    BY Zenon, <2>2, Singles DEF Popped
  <2>5. OwnIds(Popped(h))' = {}
    BY Zenon, <2>4 DEF OwnIds, Own
  <2>6. OwnIds(buf'[h]) \subseteq OwnIds(buf[h]) /\ InOrder(buf'[h])
    BY Zenon, <1>1, <2>3, Singles DEF Flow
  <2>7. Flow(h)'
    <3>1. Chain(got[h], OwnIds(net[h].toHost), {}, OwnIds(buf'[h]), Pending(h))
      BY Zenon, <1>1, <2>6 DEF Flow, Chain, Before
    <3>2. Known(h)' \subseteq 1..lines
      BY Zenon, <1>1, <1>2, <2>1, <2>5, <2>6 DEF Flow, Known
    <3> QED
      BY Zenon, <1>1, <1>2, <2>1, <2>5, <2>6, <3>1, <3>2 DEF Flow
  <2>8. h \in subs' => net[h].gone
    BY Zenon, <2>1 DEF WriteFails
  <2> QED
    BY Zenon, <1>1, <1>2, <2>1, <2>2, <2>3, <2>7, <2>8, HandlerFrame
<1> QED
  BY Zenon, <1>3, <1>4, <1>5

\* push: what was being published to h is now the newest line in its buffer,
\* which may have had to drop its oldest.
LEMMA PushInv ==
  ASSUME LogInv, NEW p \in Loggers, NEW h \in Hosts, push(p, h)
  PROVE  LogInv'
<1> DEFINE line == pub[p].line
           q == IF Len(buf[h]) >= MaxQueue THEN Tail(buf[h]) ELSE buf[h]
<1>1. /\ pub \in [Loggers -> PubType] /\ buf \in [Hosts -> Seq(Line)] /\ buf[h] \in Seq(Line)
      /\ h \in pub[p].snap /\ line \in Line /\ lines \in Nat
      /\ Own(line) <=> p = Device
      /\ Streams(h) /\ Flow(h) /\ Accounted(h)
  BY SMTT(30), LogAssumption, LineFacts DEF LogInv, LogType, push, Publishers, Loggers
<1>2. UNCHANGED <<fwd, app, side, net, srv, subs, lines, got, sent>>
  BY Zenon DEF push
<1>3. /\ pub' \in [Loggers -> PubType] /\ \A r \in Loggers \ {p} : pub'[r] = pub[r]
      /\ pub'[p].snap = pub[p].snap \ {h} /\ (pub'[p].snap # {} => pub'[p].line = line)
  <2> DEFINE rest == pub[p].snap \ {h}
             new == IF rest = {} THEN Quiet ELSE [line |-> line, snap |-> rest]
  <2>1. new \in PubType /\ new.snap = rest /\ (rest # {} => new.line = line)
    BY Zenon, <1>1, LineFacts DEF PubType
  <2>2. pub' = [pub EXCEPT ![p] = new]
    BY Zenon DEF push
  <2> HIDE DEF new
  <2> QED
    BY Zenon, <1>1, <2>1, <2>2
<1>4. q \in Seq(Line) /\ OwnIds(q) \subseteq OwnIds(buf[h]) /\ InOrder(q)
  <2>1. CASE Len(buf[h]) >= MaxQueue
    <3>1. buf[h] # <<>>
      BY <1>1, <2>1, LogAssumption, EmptySeq
    <3> QED
      BY Zenon, <1>1, <2>1, <3>1, Taking DEF Flow
  <2>2. CASE ~(Len(buf[h]) >= MaxQueue)
    BY Zenon, <1>1, <2>2 DEF Flow
  <2> QED
    BY Zenon, <2>1, <2>2
<1> HIDE DEF q
<1>5. /\ Append(q, line) \in Seq(Line) /\ OwnIds(Append(q, line)) = OwnIds(q) \cup One(line)
      /\ InOrder(q) /\ Before(OwnIds(q), One(line)) => InOrder(Append(q, line))
  BY Zenon, <1>1, <1>4, Appending
<1>6. /\ buf' \in [Hosts -> Seq(Line)] /\ \A g \in Hosts \ {h} : buf'[g] = buf[g]
      /\ buf'[h] = IF h \in subs THEN Append(q, line) ELSE buf[h]
  <2>1. buf' = [buf EXCEPT ![h] = IF h \in subs THEN Append(q, line) ELSE @]
    BY Zenon DEF push, Pushed, q
  <2> QED
    BY Zenon, <1>1, <1>5, <2>1
<1>7. /\ over \subseteq over' /\ over' \subseteq over \cup {h}
      /\ h \in subs \ over' => q = buf[h]
  BY Zenon DEF push, q
<1>8. LogType' /\ Publishers'
  <2>1. LogType'
    BY Zenon, <1>1, <1>2, <1>3, <1>6 DEF LogInv, LogType
  <2>2. \A r \in Loggers : pub'[r].snap # {} => pub[r].snap # {} /\ pub'[r].line = pub[r].line
    BY Zenon, <1>1, <1>3
  <2> QED
    BY Zenon, <2>1, <2>2, LineFacts DEF LogInv, Publishers, Own
<1>9. \A g \in Hosts : Writers(g)' /\ Popped(g)' = Popped(g)
  BY Zenon, <1>2 DEF LogInv, Writers, Popped
<1>10. \A g \in Hosts \ {h} : /\ Pending(g)' = Pending(g)
                             /\ \A r \in Loggers : g \in pub'[r].snap => g \in pub[r].snap
  <2>1. \A g \in Hosts \ {h}, r \in Loggers :
          g \in pub'[r].snap <=> g \in pub[r].snap
    BY Zenon, <1>3
  <2>2. \A g \in Hosts \ {h} : g \in pub[Device].snap => pub'[Device].line = pub[Device].line
    BY Zenon, <1>3, LineFacts
  <2> QED
    BY Zenon, <2>1, <2>2, LineFacts DEF Pending
<1>11. \/ p = Device /\ Pending(h) = One(line) /\ Pending(h)' = {}
       \/ p # Device /\ One(line) = {} /\ Pending(h)' = Pending(h)
  <2>1. CASE p = Device
    <3>1. h \notin pub'[Device].snap /\ h \in pub[Device].snap /\ Own(line)
      BY Zenon, <1>1, <1>3, <2>1
    <3> QED
      BY Zenon, <2>1, <3>1 DEF Pending, One
  <2>2. CASE p # Device
    <3>1. pub'[Device] = pub[Device] /\ ~Own(line)
      BY Zenon, <1>1, <1>3, <2>2, LineFacts
    <3> QED
      BY Zenon, <2>2, <3>1 DEF Pending, One
  <2> QED
    BY Zenon, <2>1, <2>2
<1> HIDE DEF line
<1>12. Flow(h)'
  <2>1. CASE h \in subs
    <3>1. OwnIds(buf'[h]) = OwnIds(q) \cup One(line) /\ buf'[h] = Append(q, line)
      BY Zenon, <1>5, <1>6, <2>1
    <3>2. InOrder(buf'[h])
      <4>1. Before(OwnIds(q), One(line))
        BY Zenon, <1>1, <1>4, <1>11 DEF Flow, Chain, Before
      <4> QED
        BY Zenon, <1>4, <1>5, <3>1, <4>1
    <3>3. Chain(got[h], OwnIds(net[h].toHost), OwnIds(Popped(h)), OwnIds(buf'[h]), Pending(h)')
      BY SMTT(30), <1>1, <1>4, <1>11, <3>1 DEF Flow, Chain, Before
    <3>4. Known(h)' \subseteq 1..lines
      BY Zenon, <1>1, <1>2, <1>4, <1>9, <1>11, <3>1 DEF Flow, Known
    <3> QED
      BY Zenon, <1>1, <1>2, <1>9, <3>2, <3>3, <3>4 DEF Flow
  <2>2. CASE h \notin subs
    <3>1. buf'[h] = buf[h] /\ Pending(h)' \subseteq Pending(h)
      BY Zenon, <1>6, <1>11, <2>2
    <3>2. Chain(got[h], OwnIds(net[h].toHost), OwnIds(Popped(h)), OwnIds(buf[h]), Pending(h)')
      BY Zenon, <1>1, <3>1 DEF Flow, Chain, Before
    <3>3. Known(h)' \subseteq 1..lines
      BY Zenon, <1>1, <1>2, <1>9, <3>1 DEF Flow, Known
    <3> QED
      BY Zenon, <1>1, <1>2, <1>9, <3>1, <3>2, <3>3 DEF Flow
  <2> QED
    BY Zenon, <2>1, <2>2
<1>13. Accounted(h)'
  <2>1. ASSUME h \in subs \ over' PROVE Known(h)' = Known(h)
    <3>1. OwnIds(buf'[h]) = OwnIds(buf[h]) \cup One(line)
      BY Zenon, <1>5, <1>6, <1>7, <2>1
    <3> QED
      BY Zenon, <1>2, <1>9, <1>11, <3>1 DEF Known
  <2> QED
    BY Zenon, <1>1, <1>2, <1>7, <2>1 DEF Accounted
<1>14. Streams(h)'
  BY Zenon, <1>1, <1>2 DEF Streams
<1> QED
  BY Zenon, <1>2, <1>6, <1>7, <1>8, <1>9, <1>10, <1>12, <1>13, <1>14, Delivery DEF LogInv

\* publish: a fresh line is newer than everything known, and no crossed line is
\* the device's own.
LEMMA PublishInv ==
  ASSUME LogInv, NEW p \in Loggers, NEW line \in Line, publish(p, line),
         Own(line) <=> p = Device, pub[p].snap = {},
         lines' \in 0..MaxLines, lines <= lines',
         p = Device => line.id = lines' /\ lines' = lines + 1,
         net' \in [Hosts -> NetType],
         \A g \in Hosts : net'[g].toHost = net[g].toHost /\ net'[g].gone = net[g].gone,
         UNCHANGED <<fwd, app, side, srv, buf, subs, got, over>>
  PROVE  LogInv'
<1>1. /\ pub' \in [Loggers -> PubType] /\ DOMAIN sent' = Hosts
      /\ \A q \in Loggers : pub'[q].snap # {} => pub'[q].line \in Line
      /\ Publishers'
      /\ \A q \in Loggers \ {p} : pub'[q] = pub[q]
      /\ pub'[p].snap = subs /\ (subs # {} => pub'[p].line = line)
  BY Zenon, Publishing
<1>2. LogType' /\ (subs \subseteq Hosts)'
  BY Zenon, <1>1 DEF LogInv, LogType
<1>3. lines \in Nat /\ lines' \in Nat
  BY LinesTyped, LogAssumption
<1>4. ASSUME NEW g \in Hosts PROVE Writers(g)' /\ Streams(g)' /\ Flow(g)' /\ Accounted(g)'
  <2>1. Popped(g)' = Popped(g)
    BY Zenon DEF Popped
  <2>2. Writers(g)'
    BY Zenon DEF LogInv, Writers
  <2>3. sent'[g] = IF g \in subs /\ Own(line) THEN sent[g] \cup {line.id} ELSE sent[g]
    BY Zenon DEF publish
  <2>4. Streams(g)'
    <3>1. srv[g].pc \in {"none", "session"} => g \notin subs
      BY Zenon DEF LogInv, Streams
    <3>2. srv[g].pc \in {"none", "session"} => \A q \in Loggers : g \notin pub'[q].snap
      BY Zenon, <1>1, <3>1 DEF LogInv, Streams
    <3> QED
      BY Zenon, <2>3, <3>1, <3>2 DEF LogInv, Streams
  <2>5. CASE p = Device /\ g \in subs
    <3>1. Pending(g) = {} /\ Pending(g)' = {line.id} /\ sent'[g] = sent[g] \cup {line.id}
      BY Zenon, <1>1, <2>3, <2>5 DEF Pending
    <3>2. Known(g)' = Known(g) \cup {line.id}
      BY Zenon, <2>1, <3>1 DEF Known
    <3>3. Known(g) \subseteq 1..lines /\ Flow(g) /\ Accounted(g)
      BY Zenon DEF LogInv, Flow
    <3>4. Chain(got[g], OwnIds(net[g].toHost), OwnIds(Popped(g)), OwnIds(buf[g]), {line.id})
      <4>1. \A n \in Known(g) : n < line.id
        BY SMTT(30), <1>3, <2>5, <3>3
      <4> QED
        BY SMTT(30), <3>3, <4>1 DEF Flow, Chain, Before, Known
    <3>5. Known(g)' \subseteq 1..lines'
      BY SMTT(30), <1>3, <2>5, <3>2, <3>3
    <3>6. Flow(g)'
      BY Zenon, <2>1, <3>1, <3>3, <3>4, <3>5 DEF Flow
    <3>7. Accounted(g)'
      BY Zenon, <3>1, <3>2, <3>3 DEF Accounted
    <3> QED
      BY Zenon, <2>2, <2>4, <3>6, <3>7
  <2>6. CASE ~(p = Device /\ g \in subs)
    <3>1. Pending(g)' = Pending(g)
      BY Zenon, <1>1, <2>6, LineFacts DEF Pending
    <3>2. Flow(g)' /\ Known(g)' = Known(g)
      BY Zenon, <1>3, <2>1, <3>1, FrameFlow
    <3>3. sent'[g] = sent[g]
      BY Zenon, <2>3, <2>6
    <3>4. Accounted(g)'
      BY Zenon, <3>2, <3>3 DEF LogInv, Accounted
    <3> QED
      BY Zenon, <2>2, <2>4, <3>2, <3>4
  <2> QED
    BY Zenon, <2>5, <2>6
<1> QED
  BY Zenon, <1>1, <1>2, <1>4 DEF LogInv

\* A line the device logs keeps the invariant.
LEMMA DeviceLogsInv ==
  ASSUME LogInv, NEW level \in Levels, DeviceLogs(level)
  PROVE  LogInv'
<1>1. /\ UNCHANGED <<fwd, app, side, net, srv, buf, subs, got, over>>
      /\ pub[Device].snap = {} /\ lines < MaxLines /\ lines' = lines + 1
  BY Zenon, LineFacts DEF DeviceLogs
<1>2. lines \in 0..MaxLines /\ lines' \in 0..MaxLines /\ lines <= lines' /\ net \in [Hosts -> NetType]
  BY SMTT(30), <1>1, LogAssumption DEF LogInv, LogType
<1>3. CASE UNCHANGED <<pub, sent>>
  <2>1. \A g \in Hosts : Writers(g)'
    BY Zenon, <1>1 DEF LogInv, Writers
  <2> QED
    BY Zenon, <1>1, <1>2, <1>3, <2>1, HostSide DEF LogInv, LogType
<1>4. CASE publish(Device, Fresh(Device, level))
  <2>1. /\ Fresh(Device, level) \in Line /\ Own(Fresh(Device, level)) /\ Device \in Loggers
    BY Zenon, <1>1, <1>2, LineFacts
  <2>2. Fresh(Device, level).id = lines'
    BY Zenon, <1>1 DEF Fresh
  <2> QED
    BY Zenon, <1>1, <1>2, <1>4, <2>1, <2>2, PublishInv
<1> QED
  BY Zenon, <1>3, <1>4 DEF DeviceLogs

\* The device's reader of a host's lines keeps the invariant.
LEMMA ReaderInv ==
  ASSUME LogInv, NEW h \in Hosts, ReadInbound(h) \/ ReaderEnds(h)
  PROVE  LogInv'
<1>1. /\ UNCHANGED <<fwd, app, side, srv, buf, subs, lines, got, over>>
      /\ pub[h].snap = {}
  BY Zenon, LineFacts DEF ReadInbound, ReaderEnds, history
<1>2. net \in [Hosts -> NetType] /\ lines \in 0..MaxLines /\ lines <= lines' /\ h \in Loggers /\ h # Device
  BY SMTT(30), <1>1, LineFacts, LogAssumption DEF LogInv, LogType
<1>3. /\ net' \in [Hosts -> NetType]
      /\ \A g \in Hosts : net'[g].toHost = net[g].toHost /\ net'[g].gone = net[g].gone
  <2>1. CASE ReadInbound(h)
    <3>1. Tail(net[h].toDevice) \in Seq(Line) /\ net' = [net EXCEPT ![h].toDevice = Tail(@)]
      BY Zenon, <1>2, <2>1, HeadTailProperties DEF ReadInbound, NetType
    <3> QED
      BY Zenon, <1>2, <3>1 DEF NetType
  <2>2. CASE ReaderEnds(h)
    BY Zenon, <1>2, <2>2 DEF ReaderEnds
  <2> QED
    BY Zenon, <2>1, <2>2
<1>4. CASE UNCHANGED <<pub, sent>>
  <2>1. \A g \in Hosts : Writers(g)'
    BY Zenon, <1>1 DEF LogInv, Writers
  <2> QED
    BY Zenon, <1>1, <1>2, <1>3, <1>4, <2>1, HostSide DEF LogInv, LogType
<1>5. CASE ReadInbound(h) /\ publish(h, Crossed(Head(net[h].toDevice)))
  <2>1. Head(net[h].toDevice) \in Line
    BY Zenon, <1>2, <1>5, HeadTailProperties DEF ReadInbound, NetType
  <2>2. Crossed(Head(net[h].toDevice)) \in Line /\ ~Own(Crossed(Head(net[h].toDevice)))
    BY Zenon, <2>1, LineFacts
  <2> QED
    BY Zenon, <1>1, <1>2, <1>3, <1>5, <2>2, PublishInv
<1> QED
  BY Zenon, <1>4, <1>5 DEF ReadInbound, ReaderEnds, history

-----------------------------------------------------------------------------

\* The invariant holds before the first line.
LEMMA InitInv == LogInit => LogInv
<1> SUFFICES ASSUME LogInit PROVE LogInv
  OBVIOUS
<1>1. <<>> \in Seq(Line)
  BY Zenon, EmptySeq
<1>2. net \in [Hosts -> NetType] /\ buf \in [Hosts -> Seq(Line)]
  BY Zenon, <1>1 DEF LogInit, NetType
<1>3. lines \in 0..MaxLines
  BY LogAssumption DEF LogInit
<1>4. /\ fwd \in [Hosts -> FwdType] /\ app \in [Hosts -> Line \cup {NoLine}]
      /\ side \in [Hosts -> HostType] /\ srv \in [Hosts -> SrvType]
  BY Zenon DEF LogInit, FwdType, HostType, SrvType
<1>5. pub \in [Loggers -> PubType] /\ \A p \in Loggers : pub[p].snap = {}
  BY Zenon, LineFacts DEF LogInit
<1>6. LogType
  BY Zenon, <1>2, <1>3, <1>4, <1>5 DEF LogInit, LogType
<1>7. subs \subseteq Hosts /\ Publishers
  BY Zenon, <1>5, LineFacts DEF LogInit, Publishers
<1>8. ASSUME NEW h \in Hosts PROVE Writers(h) /\ Streams(h) /\ Flow(h) /\ Accounted(h)
  <2>1. Writers(h) /\ Streams(h) /\ Accounted(h)
    BY Zenon, <1>5 DEF LogInit, Writers, Streams, Accounted
  <2>2. /\ Popped(h) = <<>> /\ Pending(h) = {} /\ got[h] = {}
        /\ net[h].toHost = <<>> /\ buf[h] = <<>>
    BY Zenon, <1>5, LineFacts DEF LogInit, Popped, Pending
  <2>3. Flow(h)
    BY Zenon, <2>2, Singles DEF Flow, Chain, Before, Known
  <2> QED
    BY Zenon, <2>1, <2>3
<1> QED
  BY Zenon, <1>6, <1>7, <1>8 DEF LogInv

\* Every step, and every stutter, keeps the invariant.
LEMMA NextInv == LogInv /\ [LogNext]_logVars => LogInv'
<1> SUFFICES ASSUME LogInv, [LogNext]_logVars PROVE LogInv'
  OBVIOUS
<1>1. ASSUME NEW h \in Hosts, Forwarder(h) PROVE LogInv'
  BY Zenon, <1>1, PlaceMoves, ForwarderMoves, IngestInv DEF Forwarder
<1>2. ASSUME NEW h \in Hosts, Handler(h) PROVE LogInv'
  BY Zenon, <1>2, PlaceMoves, HandlerInv DEF Handler
<1>3. ASSUME NEW h \in Hosts, Reader(h) \/ push(Device, h) PROVE LogInv'
  BY Zenon, <1>3, ReaderInv, PushInv, LineFacts DEF Reader
<1>4. ASSUME NEW h \in Hosts,
             \/ cancelOnStop(h) \/ RestoreLogService(h) \/ StopForwarding(h)
             \/ ConnectionLost(h) \/ ServerSeesEnd(h)
      PROVE  LogInv'
  BY Zenon, <1>4, HostMoves
<1>5. ASSUME NEW h \in Hosts, writeOutbound(h) \/ \E level \in Levels : HostLogs(h, level)
      PROVE  LogInv'
  BY Zenon, <1>5, HostWrites
<1>6. CASE \E level \in Levels : DeviceLogs(level)
  BY Zenon, <1>6, DeviceLogsInv
<1>7. CASE UNCHANGED logVars
  <2>1. \A g \in Hosts : Writers(g)'
    BY Zenon, <1>7 DEF logVars, LogInv, Writers
  <2>2. lines' \in 0..MaxLines /\ lines <= lines'
    BY Zenon, <1>7, LinesTyped DEF logVars
  <2> QED
    BY Zenon, <1>7, <2>1, <2>2, HostSide DEF logVars, LogInv, LogType, Writers
<1> QED
  BY Zenon, <1>1, <1>2, <1>3, <1>4, <1>5, <1>6, <1>7 DEF LogNext

\* LogInv is an inductive invariant of the log bridge.
THEOREM LogInvHolds == LogSpec => []LogInv
BY InitInv, NextInv, PTL DEF LogSpec

\* What is under way to h, as one sequence.
LEMMA Underway ==
  ASSUME LogInv, NEW h \in Hosts
  PROVE  /\ InOrder(UnderWay(h))
         /\ OwnIds(UnderWay(h)) =
              OwnIds(net[h].toHost) \cup OwnIds(Popped(h)) \cup OwnIds(buf[h])
<1> DEFINE s == net[h].toHost  c == Popped(h)  t == buf[h]
<1>1. s \in Seq(Line) /\ t \in Seq(Line) /\ Flow(h)
  BY Zenon DEF LogInv, LogType, NetType
<1>2. c \in Seq(Line) /\ InOrder(c)
  <2>1. srv[h].pc = "write" => srv[h].line \in Line
    BY Zenon DEF LogInv, LogType
  <2> QED
    BY Zenon, <2>1, Singles, EmptySeq DEF Popped
<1>3. InOrder(s) /\ InOrder(t) /\ Before(OwnIds(s), OwnIds(c)) /\ Before(OwnIds(s), OwnIds(t))
      /\ Before(OwnIds(c), OwnIds(t))
  BY Zenon, <1>1 DEF Flow, Chain
<1>4. UnderWay(h) = (s \o c) \o t
  BY Zenon DEF UnderWay
<1> HIDE DEF s, c, t
<1>5. s \o c \in Seq(Line) /\ OwnIds(s \o c) = OwnIds(s) \cup OwnIds(c) /\ InOrder(s \o c)
  BY Zenon, <1>1, <1>2, <1>3, Joining
<1>6. Before(OwnIds(s \o c), OwnIds(t))
  BY Zenon, <1>3, <1>5 DEF Before
<1>7. InOrder((s \o c) \o t) /\ OwnIds((s \o c) \o t) = OwnIds(s \o c) \cup OwnIds(t)
  BY Zenon, <1>1, <1>3, <1>5, <1>6, Joining
<1> QED
  BY Zenon, <1>4, <1>5, <1>7 DEF s, c, t

\* forwardUntil never retires the stream under a writeOutbound in progress.
THEOREM WritersHaveStream == LogSpec => []StreamOutlivesWriters
<1>1. LogInv => StreamOutlivesWriters
  BY Zenon DEF LogInv, Writers, StreamOutlivesWriters
<1> QED
  BY <1>1, LogInvHolds, PTL

\* Every host reads the device's own lines in the order logged, none twice.
THEOREM OrderKept == LogSpec => []LinesInOrder
<1>1. LogInv => LinesInOrder
  <2> SUFFICES ASSUME LogInv, NEW h \in Hosts
               PROVE  InOrder(UnderWay(h)) /\ Before(got[h], OwnIds(UnderWay(h)))
    BY Zenon DEF LinesInOrder
  <2>1. Flow(h)
    BY Zenon DEF LogInv
  <2> QED
    BY Zenon, <2>1, Underway DEF Flow, Chain, Before
<1> QED
  BY <1>1, LogInvHolds, PTL

\* AsyncLogBuffer loses a published line of an open stream only by overflow.
THEOREM OnlyOverflowLoses == LogSpec => []LostOnlyByOverflow
<1>1. LogInv => LostOnlyByOverflow
  BY Zenon, Underway DEF LogInv, Accounted, Known, LostOnlyByOverflow
<1> QED
  BY <1>1, LogInvHolds, PTL
=============================================================================
