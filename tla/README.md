# Verification of evrp

evrp records input events on a Linux device and plays them back. This directory
holds TLA+ models of its concurrent parts, the TLC runs that check them on small
instances, and proofs that the TLA+ proof system (TLAPS) checks for every value
of the constants. Paths below are relative to `src/evrp/` unless they start with
`src/`. `PROJECT.json` gives, for every definition that models code, the lines
it stands for.

## 1. The system

Three programs talk over gRPC.

* **evrp-device** owns `/dev/input`. Its gRPC handlers run on gRPC threads; the
  objects that touch the devices (listener, playback, cursor, kinds provider)
  are wrapped in "posted" classes that send each call to **one** asio worker
  thread and wait for the result.
* **evrp-server** (the host) serves `EvrpService`: Record, Replay and the two
  stops. Record and Replay run on the host's own single asio worker and use a
  client of evrp-device; the stops run on gRPC threads at the same time.
* **evrp-client** calls evrp-server and keeps its session alive from a heartbeat
  thread.

### Inventory

| Part | State | Operations | Talks to | Hard behaviour |
|---|---|---|---|---|
| Session registry (`sdk/sessionregistry.cpp`) | `sessions_` by id: peer, last heartbeat | connect, heartbeat, requireActiveBusinessCall, disconnect, sweep | every RPC handler; the sweeping thread | sweep's clock read outside the lock; lease against calls, crashes, moved transports |
| Session clients (`sdk/sessionclient.cpp`, `server/impl/client/remoteevrp.cpp`, `device/impl/client/client.cpp`) | session id, heartbeat thread | connect, heartbeat loop, business call, close | registry | late wake-ups and answers; joins on close |
| Posted components (`sdk/syncdispatchqueue.*`, `sdk/iocontextpostedbase.cpp`, `device/impl/server/posted/*`) | io queue, `shutdownDone_`, `shutdownOnce_` | postSync, shutdown, destructor | all device handlers; the worker | post against stop; teardown in order; the second shutdown from the destructor |
| Device playback (`device/impl/server/localplayback.cpp`, `grpc/grpcplaybackservice.cpp`) | cached batch, `playing_`, `stopRequested_`, index; semaphore and flags | Upload, Playback, SubscribePlayback, Stop | worker, session check | stop against start; finished flag against last token; one subscriber |
| Playback client (`device/impl/client/remoteplayback.cpp`) | `callMu_`, `remotePlaying_`, `reportedIndex_` | upload, playback, stopPlayback | device playback | join under a lock of a stream the device must end |
| Device recording (`device/impl/server/localinputlistener.cpp`, `grpc/grpcinputlisten.cpp`) | open devices, ready indices, activity time | StartRecording, WaitForInputEvent, ReadInputEvents, StopRecording, watchdog | worker | calls made of several posts; a stale watchdog decision; disconnection |
| Host (`server/impl/server/localevrp.cpp`, `record.cpp`, `playback.cpp`, `grpc/grpcevrpservice.cpp`; `device/impl/client/remoteinputlistener.cpp`) | `isRecording_`, `isReplaying_`, `stopRecordingRequested_`, raw pointers into the device client, `sessionMutex_` | record, replay, stopRecording, stopReplay, cancel watch | device client | pointers outliving their object; stops that are lost; locks held across RPCs |
| Keyboard filter (`sdk/keyboard/keyboarddevice.cpp`) | Ctrl count, saw-C flag, pending events | process, flush | recorder | long key sequences, windows open at start or end |
| Logging (`sdk/log/*`) | per-host bounded buffers, tee, stream, forwarding thread | log, setLevel, StreamLogs, forwardUntil | both servers | drop at the limit; a stream retired while others write; loops through the tee |
| Discovery (`device/internal/discovery`, `device/impl/client/client.cpp`) | UDP socket, targets found, next resend | probe, answer, sort, connect | responders of devices | loss, strays, deadline, order of candidates |
| Event text and Lua (`sdk/eventformat.cpp`, `sdk/luaeventcomposer`, `sdk/playbackeventcollector.cpp`) | timeline of composed events | parse, format, compose | record, replay | relative and absolute times, negative deltas |
| Event writing, touch (`sdk/inputeventwriter.cpp`, `sdk/touchdevice.cpp`) | cached descriptors | open, write, segment | playback | a write that fails half-way |
| Settings, arguments (`sdk/setting`, `sdk/tofromproto.cpp`, `src/evrp-client`) | map of typed values | parse, get, insert, to and from a Struct | client and host | a value that changes its type is replaced by a default |
| Device enumeration, cursor, files | - | list, read | - | system calls only |

## 2. Modules

| Module | Models |
|---|---|
| `SessionRegistry` | the table and the sweeping thread |
| `SessionLease` | the registry composed with its clients, in discrete time |
| `SessionLeaseInvariant`, `SessionLeaseProofs` | theorems about `SessionLease` |
| `DevicePlayback` | playback on the device: handlers, worker, progress semaphore |
| `RemotePlayback` | threads of one `RemotePlayback` object over `DevicePlayback` |
| `SyncCall` | what a posted component promises its callers |
| `DispatchQueue` | queue, worker and teardown; implements `SyncCall` |
| `InputListen` | recording on the device: handlers, listener, watchdog, end of the server |
| `HostEvrp` | record, replay and stops on the host |
| `KeyboardFilter` | the Ctrl+C filter, with a reference definition |
| `RecordReplay` | the way of an event from the recorder through `KeyboardFilter`, the text and the Lua composer to the device |
| `LogBridge` | log streams between a device and its hosts, both ways |
| `HostLogLevel` | the calls of setLevel on a host |
| `ClientCommand` | evrp-client's command line, its settings and their way to the host |
| `Discovery` | the host's search for a device, after `ClientCommand` |
| `DispatchProofs`, `PlaybackProofs`, `RemoteProofs`, `ListenProofs`, `HostProofs`, `LogProofs` | theorems about the modules of those parts |
| `MC*` | values of the constants that a configuration file cannot write |

Definitions that end in `_Something` are deliberately wrong variants of the next
definition; they show that the properties notice such a mistake, and nothing
else uses them.

**Sessions.** Methods of `SessionRegistry` run under its mutex, so each is one
action; `sweepExpiredForLogging` reads the clock first and is two. An id is
fresh if it was never issued (128 random bits). A client call is sent, handled
and returned in three steps with time in between; it can also come back as an
error after any of them, and a client can crash or be given another peer name
at any moment. A request that its client has given up is no longer handled;
a Connect handled before it is given up leaves its session behind.
`assured` is a history variable. `Timely` states how late the heartbeat
thread may be scheduled (`WakeDelay`) and how long a session call may take
(`RpcDelay`) while the transport stands; no bound applies to other clients, to
business calls or after the transport has moved.

**Device playback.** A batch is its number of events. Each posted method is a
queue entry that the single worker takes; `LocalPlayback::playback` is split at
every access to an atomic that `stopPlayback` also accesses, because
`PostedPlayback::stopPlayback` does not go through the queue. `history`
remembers where a running playback was when it was first stopped.
`RemotePlayback` instantiates one device handler for the unary call and one for
the progress stream of each client thread; `wire` holds requests on their way.

**Dispatch.** `at` is each caller's place in `postSync`. `SyncDispatchQueue` tests
`shutdownDone_` and posts in separate steps. `~Server` shuts the components down
in the order of its members, stops the io context and joins the worker, and each
destructor calls `shutdown()` once more. Handlers have returned before that
(`Quiet`): `server->Shutdown()` waits for them.

**Recording.** One device node's content is a number of unread events. A handler
is split at each post; the watchdog at the load of the activity time, the
comparison and the cancel. `idle` is the time since the stored activity,
`quiet` the time since a handler was last active, whether stored yet or not. The
server's end is part of the model: the watchdog is joined, the posted listener's
shutdown posts its last cancel, and `dispose` follows. `GrpcServer::run` returns
today only when listening fails, so an end with a recording under way is what
the destructors are written for rather than what the program does.

**Host.** `client` is the device client that Record or Replay creates and
destroys; `active` is whether `activeListener_` and `activePlayback_` point into
it. Lock, RPC and unlock of a stop are separate steps. The device is reduced to
whether it records and plays. Text and files are left out. `HostEvrp` and
`LogBridge` describe what the code does once the call of `setLevel` that
`HostLogLevel` models has returned.

**Keyboard filter.** `KeyEvent` is one `process` call. `Expected` defines the
result without the filter's state: an event is in a window if a Ctrl key is down
before or after it, and a window containing a press of C is dropped (Full) or
cut after its last press of C (EndingOnly).

**Record and replay.** `RecordReplay` extends `KeyboardFilter`. An event is named by
its device time. What passes the filter becomes a line with its time relative to
the first event written, in seconds and microseconds: C++'s division, which
rounds towards zero, and the borrow of `formatTime` are modelled, because an event
held back or read late can be older than the first one. The output may fail
inside a line. A user may add Lua lines; `toEvents` places all of it on one
timeline; the replay sleeps and writes, with the descriptor cache of
`InputEventWriter` and writes that fail.

**Logs.** In `LogBridge` a line is its origin, number, level and the number of
times it has crossed the network. Both programs log through a tee. On the device
every stream has a bounded buffer that drops its oldest line; on the host the
forwarding thread reads and writes the stream, other threads write to it under
`streamMutex_`, and a third cancels it. `Window` is gRPC's flow control: a write
blocks while so many messages are unread.

**Command and discovery.** In `ClientCommand` a text is the sequence of its
pieces, so that `-r`, `--record` and `--output=f` are what the code looks at and
no characters are needed. `main` runs the normalisation of old spellings, the
flags, `parseArgvInto` and the mode check; `Record` and `Replay` are the RPCs, with
the settings turned into a protobuf Struct (every number a double) and back.
`Discovery` extends it: a command without a device leads to the UDP search. A
target is the route its answer came by. Probes, answers and strays are messages
that may be lost or late; time passes in ticks, and the discovering thread is
not delayed.

## 3. Runs

| Run | Shows | Distinct states |
|---|---|---|
| `lease` | a promise of an OK lasts one lease; the heartbeat keeps the session; removal only when due; expired sessions go in the end | 869,094 |
| `playback` | `playing_` is accurate; stops in the loop take effect and stale ones do not; one subscriber | 1,448,873 |
| `remote_playback` | uploads excluded by a playback; streams do not outlive it; calls return; subscribers are released | 17,502 |
| `dispatch` | one task per waiter; nothing is stranded; teardown ends; the queue implements `SyncCall` | 1,936 |
| `listen` | no descriptor is lost; poll results are never stale; an abandoned recording stops | 246,351 |
| `host` | no dangling pointer; the device is not left recording; stops take effect and return; Replay returns | 40,107 |
| `record_replay` | the filter equals its definition; spacing and order of events survive text and replay; a Lua line comes after what precedes it; nothing is written early | 2,248,725 |
| `log_bridge` | lines arrive in order; only a full buffer loses one; no thread writes to a retired stream; a stop ends everything | 218,927 |
| `discovery` | a command means what it says through every conversion; probes are regular; every answer counts; a resend makes up for a loss; the same machine is preferred; the search ends | 544,935 |

Bounds, and why they are enough:

* `lease`: Lease 4, interval 1, delays 1, clock up to 6. The clock passes the end
  of the first lease by two, so a session can be renewed, be swept with an old
  clock value, expire and be reclaimed; two peers let the transport move. One
  client suffices for TLC, because the proofs in section 5 cover any number of
  them.
* `playback`: three callers (a subscriber; an uploader that plays; one that plays,
  stops and subscribes), two events, two playbacks: a stop can fall between any
  two steps of a playback and before the next one, and two subscribers can
  compete.
* `remote_playback`: two threads, one with a progress stream, three calls. One
  thread plays back, as on the host, whose io worker is the only caller of
  `playback()`.
* `dispatch`: three callers and two components of `~Server`, the listener with a
  final task and the playback without.
* `listen`: two handlers, two nodes of up to two unread events, batches of one (so
  that a read leaves events behind), three starts, timeout of one tick.
* `host`: three handlers and three RPCs, so that a Record or Replay meets two stops.
* `record_replay`: the three modes of the filter, a Ctrl key possibly held at the
  start, five events, a second of two microseconds (so that lines borrow, and become
  negative), two Lua lines, edited files of up to three lines.
* `log_bridge`: one host, buffer of two, window of one, three lines of which one
  may be the host's: the buffer overflows, a write blocks, a line echoes. The
  proofs cover any number of hosts.
* `discovery`: two devices, one on the same machine and one on the link; a
  deadline of three resend intervals, a slice that does not divide it, one loss,
  one stray, delay one; command lines of up to three options out of nineteen (the
  wrong texts counted), in every spelling.

Deadlock is checked in `dispatch` only. The other models come to rest when their
bounds on calls or on the clock are used up.

### Disagreements

These runs are expected to fail: each states what a text of the repository says
and TLC shows a behaviour of the code that differs.

| Run | Text | What the code does |
|---|---|---|
| `playback_stop` | `src/proto/README.md:27`: Stop stops the playback | a Stop between `playing_ = true` and the reset of `stopRequested_` is overwritten |
| `remote_playback_hang` | `src/proto/README.md:26`: the stream reports the end of the playback | a stream taken up after the playback marked itself finished erases that mark; the reader, and the thread that joins it under `callMu_`, wait for ever |
| `log_level` | `src/evrp-client/argparser.cpp:158`: record and replay via RPC | with the tee installed, `RemoteLogService::setLevel` calls the tee that called it, without end |

### Observations without a run

Met while modelling; either no text of the repository says otherwise, or the
models contain the behaviour and the properties allow it.

* A business call longer than the lease loses its session while it runs: only its
  start renews (`sdk/sessionregistry.cpp:134`).
* Two threads inside `playback()` of one `RemotePlayback` would break the exclusion of
  uploads: the first to return clears `playing_` for both
  (`device/impl/client/remoteplayback.cpp:64`). The host has one such thread.
* The watchdog decides before it cancels, and can hit a recording just used
  (`grpcinputlisten.cpp:67`).
* In the mode EndingOnly everything after the last press of C in a window is
  dropped, not only releases of C and Ctrl (`sdk/keyboard/keyboarddevice.h:12`).
* A press of Ctrl that the filter holds back is written after later mouse events.
* A line that arrives over a stream is logged through the tee of the receiving
  side, which sends it back (`remotelogservice.cpp:78`, `grpclogservice.cpp:93`), so
  that it goes back and forth until the stream ends or a buffer drops it.
* A stop of a recording stored before `localevrp.cpp:149` is forgotten.
* `--wait_leading` and `--wait_trailing` are stored (`src/evrp-client/argparser.cpp:237`)
  and never read; `--kind` with unknown names only records all four kinds; the
  default output "stdout" is the server's.
* The sweeping thread of `GrpcServer::run` is detached and refers to a local
  registry, and the global `logService` still names the local tee when `run` returns.

## 4. Fairness

Weak fairness on the steps of threads that the code starts and never suspends:
the sweeping thread, the io worker, handlers inside a call, the watchdog, the
destructor. It stands for an operating system that runs every runnable thread.
In `RemotePlayback` and `HostEvrp` it also means that RPCs arrive and are
answered (gRPC delivers or fails a call), and that a free lock is taken; since
calls are bounded no thread can be overtaken for ever. In `InputListen` time
passes. In `LogBridge` it covers, for each host, the forwarding thread, the
cancelling thread, the write of another thread, the handler and its reader on the
device, and that gRPC tells the server of the end of a stream. In `Discovery` it
covers the host, the network (a datagram arrives or is lost) and time. Nothing is
assumed of clients (they need not call, cancel or come back), of devices (no
event need arrive, no device need answer) or of the network in `SessionLease`.

## 5. Proofs

For every value of the constants that satisfies the modules' assumptions, so for
any number of clients, handlers, hosts, nodes, events and lines:

| Module | Theorem | Statement |
|---|---|---|
| `SessionLeaseInvariant` | `TypeCorrect` | `Spec => []TypeOK` |
| `SessionLeaseProofs` | `LeaseIsHonoured` | `Spec => []LeaseHonoured` |
| | `HeartbeatSuffices` | `Spec => []HeartbeatKeepsSession` |
| | `RemovalIsDue` | `Spec => RemovedOnlyWhenDue` |
| `DispatchProofs` | `Waiting`, `Stranded` | `[]OneTaskPerWaiter`, `[]NothingStranded` |
| | `Implements` | `DispatchSpec => ImplementsSyncCall` |
| `PlaybackProofs` | `PlayingIsCurrent`, `SubscribersExclude` | `[]PlayingMeansPlaying`, `[]OneSubscriber` |
| | `StaleStops`, `StopsInLoop` | `[]StaleStopIgnored`, `[]StopHonouredInLoop` |
| `RemoteProofs` | `StreamsEnd` | `RemoteSpec => []StreamWithinPlayback` |
| | `UploadsExcluded` | `[]UploadExcludedByPlayback`, if one thread plays back |
| | `DeviceSubscribers` | `RemoteSpec => []OneSubscriber` |
| `ListenProofs` | `NothingLeaks`, `ReadyNodes` | `[]DescriptorsClosed`, `[]ReadyIsCurrent` |
| `HostProofs` | `ClientsOutliveUse`, `DeviceIsStopped` | `[]NoDanglingClient`, `[]DeviceNotLeftRecording` |
| `LogProofs` | `WritersHaveStream`, `OrderKept`, `OnlyOverflowLoses` | `[]StreamOutlivesWriters`, `[]LinesInOrder`, `[]LostOnlyByOverflow` |

Most assumptions only say that the constants are numbers and that names differ.
One is about the environment and is used only for `HeartbeatSuffices`:
`TimelyAssumption`, that interval + wake-up delay + two round trips fit in the
lease. The interval is 2/5 of the lease, which leaves 3/5 for the delays; with a
lease below 500 ms the floor of 200 ms takes over, and below 200 ms no delay can
satisfy the assumption.

**Sessions.** None of the properties is inductive. `LeaseInv` adds:

* `Ownership`: an id is held by at most one client, from the moment Connect issues
  it. Without it another client's Disconnect could remove the session.
* `Threads`: the heartbeat thread runs exactly while the client has a session and
  is not closing.
* `Clocks`: no recorded time, the sweep's `now` included, is in the future. So what
  the sweep finds expired with its old clock value is expired now.
* `AssuredFor`: the promise for the answers that have arrived **and** for those
  still in flight: the session was renewed at or after the sending of the call,
  or it is gone and a lease has passed since.
* `FreshFor`: for each place of the heartbeat thread, a lower bound on the last
  renewal in terms of the time the thread recorded there. Adding the bounds
  around the loop gives interval + wake-up + two round trips.

`Kept` says what one step can do to a session that its client is not closing; the
lemma `TableStep` proves it of every step, and the other lemmas use the table
only through it. Each conjunct then has a lemma for the client that moves, one
case per action, and one for the clients that do not.

**Dispatch.** `DispatchInv` says that every task queued or running belongs to a
thread that waits for it and for no other, and conversely (`TasksAwaited`); that a
barrier is the owner's, for the component it is shutting down (`Barriers`); and how
far the owner has come through its two rounds (`OwnerProgress`). The last one
gives `NothingStranded`: when the io context is stopped every component has been
shut down and nobody waits. The refinement maps a step of the worker that
completes a call to the atomic call, a barrier to the closing of its component,
a caller's own steps to calling, being refused and returning, and the rest to
stutters.

**Playback.** `PlaybackInv` adds that the queue's tasks match the waiting handlers
and that past the reset the stop flag is set only by a stop of this playback
(`StopSeen`), which is what separates a stale stop from a current one and bounds
the events written after a stop by one.

**Playback client.** Every step of `RemotePlayback` is a step or a stutter of
`DevicePlayback`, so `PlaybackInv` holds of the composition. `RemoteInv` adds that a
stream is on its way or served only for a thread inside `playback()`: it begins
there, and `playback()` leaves only after the join. `Exclusion` ties the RPCs of
upload and stop, and the join, to the holder of `callMu_`, and a playback's RPC to
`playing_`; it needs `OnePlayer` (at most one thread calls `playback()`), a hypothesis
of the theorem that section 3 shows to be necessary.

**Recording.** `ListenInv` is the two properties, typing, and that a disposed
listener records nothing. Each operation of `LocalInputListener` preserves it
whoever posts it, so the interleaving of handlers, watchdog and end is irrelevant.

**Host.** `HostInv` ties both raw pointers and the client to the worker's place
(`PointersFollowWorker`), a stop's use of a pointer to `sessionMutex_`
(`StopsHoldMutex`), and a recording device to somebody who knows of it or is about to
stop it (`RecordingIsKnown`).

**Logs.** `LogInv` has a chain: what a host has read, what is on the stream, popped,
in the buffer and still to be published follow each other in order (`Flow`), and
together they are everything published since the stream was opened, unless the
buffer overflowed (`Accounted`). `Writers` says that a thread writes only while
`activeStream_` is set, and that it is set only inside forwardUntil's loop.

Only model-checked: all liveness properties, since the proof system does not
reason about fairness; and `RecordReplay` with `KeyboardFilter` and `ClientCommand` with
`Discovery`, whose results are computed by folds and recursion over data and would
need induction.

## 6. Not modelled

* Running a Lua file directly (`runScript`), and the Lua interpreter.
* Touch segments (`sdk/touchdevice.cpp`): the programs do not reach them.
* `OverlaySetting`, `parseListenPort` and the arguments of evrp-server and
  evrp-device: they only choose the addresses the servers listen on.
* Log formatting, the console sink, key names and labels.
* Device enumeration, cursor and file access: sequences of system calls without
  state of their own.
* Server start-up, except for the sweeping thread, the discovery responder and the
  device's log tee.

gRPC, asio, gflags and the kernel are represented by how the code uses them.
The types, codes and values of events are left out.

## 7. Plan

1. Done: sessions, playback and its client, dispatch, recording to its end, host,
   filter, event text and timeline, logs, discovery, evrp-client's command; safety
   theorems for sessions, dispatch, playback and its client, recording, host and logs.
2. Next models: `runScript`; the overlay of settings.
3. Next proofs: `NeverEarly` and `LuaAfterWhatPrecedes` step by step, with the fold of
   `toEvents` as a loop of the specification.
