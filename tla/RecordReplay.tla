----------------------------- MODULE RecordReplay -----------------------------
(***************************************************************************)
(* What becomes of an event between the recording and its replay: the      *)
(* line that Record::run writes (server/impl/server/record.cpp and         *)
(* sdk/eventformat.cpp), after the keyboard's Ctrl filter; the timeline    *)
(* that LuaEventComposer::toEvents makes of the file, with the Lua lines a *)
(* user added; and the sleeps and writes of the replay on the device       *)
(* (LocalPlayback::playback, InputEventWriter).                            *)
(*                                                                         *)
(* An event is named by its device time, which increases per device.  A    *)
(* batch of readInputEvents is grouped by device, so that an event of the  *)
(* mouse may come after later ones of the keyboard; what a keyboard event  *)
(* delivered late leads to, the filter shows by holding events back.       *)
(* An event's seconds and microseconds are one number of microseconds, as  *)
(* eventTimeUs reads them; only the text keeps them apart.  Types, codes   *)
(* and values are left out, and so is a stop of the replay, which          *)
(* DevicePlayback models.                                                  *)
(***************************************************************************)
EXTENDS KeyboardFilter, SequencesExt

CONSTANTS Second,    \* microseconds of a second
          Leads,     \* host time from the start to the first event written
          Gaps,      \* time between two writes of a Lua chunk
          MaxEvents, \* bound: events of a recording, of all devices
          MaxLua,    \* bound: Lua lines added
          MaxEdited  \* bound: lines of a file that a user edits

Devices == {"keyboard", "mouse"}

ASSUME ReplayAssumption ==
  /\ Second \in Nat \ {0} /\ Leads \subseteq Nat /\ Gaps \subseteq Nat
  /\ {MaxEvents, MaxLua, MaxEdited} \subseteq Nat

VARIABLES phase,      \* "record", "flushed", "failing", "file", "play", "done", "failed"
          clock,      \* the latest device time of an event
          mouse,      \* the device times of the mouse's events
          baselineUs, \* of Record::run
          file,       \* the lines of the recording
          timeline,   \* what toEvents returned
          next, wall, \* the replay's position, and the time it has slept
          fd,         \* kindToFd_
          played      \* history: the positions that reached a device, and when

replayVars == <<phase, clock, mouse, baselineUs, file, timeline, next, wall, fd, played>>
vars == <<filterVars, replayVars>>

ReplayInit ==
  /\ FilterInit
  /\ phase = "record" /\ clock = 0 /\ mouse = {} /\ baselineUs = -1 /\ file = <<>>
  /\ timeline = <<>> /\ next = 1 /\ wall = 0 /\ played = <<>>
  /\ fd = [d \in Devices |-> "unknown"]

-----------------------------------------------------------------------------
(* The text of a time.                                                     *)

\* The division of C++, which truncates towards zero.
Quotient(t) == IF t >= 0 THEN t \div Second ELSE -((-t) \div Second)

\* A negative remainder without the borrow: a time printed as its absolute value.
formatTime_NoBorrow(t) ==
  LET q == Quotient(t)
      r == t - q * Second
  IN  IF r < 0 THEN <<q, -r>> ELSE <<q, r>>

formatTime(t) ==
  LET q == Quotient(t)
      r == t - q * Second
  IN  IF r < 0 THEN <<q - 1, r + Second>> ELSE <<q, r>>

parseTime(text) == text[1] * Second + text[2]

-----------------------------------------------------------------------------
(* Record::run.                                                            *)

\* The line of an event; src names it.
eventLine(d, at, base) ==
  [kind |-> "event", dev |-> d, text |-> formatTime(at - base), src |-> at]

\* The events of a window written latest first.
LinesFor_Backwards(d, times, lead) ==
  LET base == IF baselineUs < 0 /\ times # <<>> THEN times[1] ELSE baselineUs
  IN  [i \in DOMAIN times |-> eventLine(d, Reverse(times)[i], base)]

\* The lines that writeEventLine adds for events of one device, with the
\* leading line if they are the first and the host's clock has moved.
LinesFor(d, times, lead) ==
  LET base == IF baselineUs < 0 /\ times # <<>> THEN times[1] ELSE baselineUs
      head == IF baselineUs < 0 /\ times # <<>> /\ lead > 0
              THEN <<[kind |-> "leading", text |-> formatTime(lead)]>> ELSE <<>>
  IN  head \o [i \in DOMAIN times |-> eventLine(d, times[i], base)]

\* Not a line of the format and not Lua either.
Broken == [kind |-> "broken"]

\* A line of which only the beginning was written.  A leading or trailing line
\* is recognised by its label: it is skipped ("unread") if its time does not
\* parse, and has lost digits if it does.
Torn(l) ==
  {Broken} \cup IF l.kind = "event" THEN {}
                ELSE {[kind |-> "unread"], [l EXCEPT !.text = <<@[1], 0>>]}

\* Some of the lines are written and then the output fails: between two lines,
\* before the newline, or inside a line.
OutputFails(lines) ==
  /\ lines # <<>>
  /\ \E n \in 0..Len(lines) :
       \E torn \in {<<>>} \cup IF n = Len(lines) THEN {} ELSE {<<t>> : t \in Torn(lines[n + 1])} :
         file' = file \o SubSeq(lines, 1, n) \o torn

\* writeEventLine for some events; a failure of the output ends the recording.
writeLines(d, times, lead) ==
  LET lines == LinesFor(d, times, lead)
  IN  /\ baselineUs' = IF baselineUs < 0 /\ times # <<>> THEN times[1] ELSE baselineUs
      /\ \/ file' = file \o lines /\ UNCHANGED phase
         \/ OutputFails(lines) /\ phase' = "failing"

Emitted == [i \in 1..(Len(emitted') - Len(emitted)) |-> emitted'[Len(emitted) + i].at]

LeadsNow == IF baselineUs < 0 THEN Leads ELSE {0}

More == phase = "record" /\ Len(input) + Cardinality(mouse) < MaxEvents

RecordKey ==
  /\ More /\ clock' = clock + 1
  /\ \E e \in EventsAt(clock + 1) : KeyEvent(e)
  /\ \E lead \in LeadsNow : writeLines("keyboard", Emitted, lead)
  /\ UNCHANGED <<mouse, timeline, next, wall, fd, played>>

RecordOther ==
  /\ More
  /\ \E at \in (Max(mouse \cup {0}) + 1)..(clock + 1), lead \in LeadsNow :
       /\ clock' = Max({clock, at}) /\ mouse' = mouse \cup {at}
       /\ writeLines("mouse", <<at>>, lead)
  /\ UNCHANGED <<filterVars, timeline, next, wall, fd, played>>

\* The loop was left: what the filter still holds back.
RecordEnds ==
  /\ phase = "record"
  /\ flushKeyboardEventFilter
  /\ \E lead \in LeadsNow :
       LET lines == LinesFor("keyboard", Emitted, lead)
       IN  \/ file' = file \o lines /\ phase' = "flushed"
           \/ OutputFails(lines) /\ phase' = "failing"
  /\ UNCHANGED <<clock, mouse, baselineUs, timeline, next, wall, fd, played>>

\* Record::run returns and the Record is destroyed with its filter; the
\* histories end here too.
RecordReturns ==
  /\ phase' = "file"
  /\ filter' = [ctrl_down_count |-> 0, saw_ctrl_c |-> FALSE, pending |-> <<>>]
  /\ input' = <<>> /\ emitted' = <<>> /\ held' = {} /\ atStart' = {} /\ over' = TRUE
  /\ clock' = 0 /\ mouse' = {} /\ baselineUs' = -1
  /\ UNCHANGED <<mode, timeline, next, wall, fd, played>>

\* The output is intact: the trailing line, if an event was written and time
\* has passed since.
RecordTrailing ==
  /\ phase = "flushed"
  /\ \E trail \in {0, 1} :
       LET tail == IF trail > 0 /\ file # <<>>
                   THEN <<[kind |-> "trailing", text |-> formatTime(trail)]>> ELSE <<>>
       IN  file' = file \o tail \/ OutputFails(tail)
  /\ RecordReturns

RecordFails == phase = "failing" /\ RecordReturns /\ UNCHANGED file

-----------------------------------------------------------------------------
(* The user adds a line of Lua, which calls the keyboard and mouse         *)
(* bindings; what a call does is the raw writes it makes: none for a query *)
(* or a dry run, one for a press or a scroll, two for a click or a move.   *)

Writes(d) ==
  LET write(g) == [dev |-> d, gap |-> g]
  IN  {<<>>, <<write(0)>>} \cup {<<write(0), write(g)>> : g \in Gaps}

keyboardCalls == Writes("keyboard")
mouseCalls == Writes("mouse")
luaCalls == keyboardCalls \cup mouseCalls

EditFile ==
  /\ phase = "file" /\ Len(file) =< MaxEdited
  /\ Len(SelectSeq(file, LAMBDA l : l.kind \in {"lua", "broken"})) < MaxLua
  /\ \E i \in 1..(Len(file) + 1), c \in luaCalls, ok \in BOOLEAN :
       file' = InsertAt(file, i, IF ok THEN [kind |-> "lua", calls |-> c] ELSE Broken)
  /\ UNCHANGED <<filterVars, phase, clock, mouse, baselineUs, timeline, next, wall, fd, played>>
-----------------------------------------------------------------------------
(* PlaybackEventCollector and LuaEventComposer::toEvents.                  *)

\* A collector is its events and timelineUs_; src 0 marks what comes from Lua.
\* A call after the first waits for the time the chunk spent since the last
\* one.  It adds its event and a SYN_REPORT, one microsecond apart.
writeRaw(c, call) ==
  LET t == c.timelineUs + (IF c.events = <<>> THEN 0 ELSE call.gap)
      ev(n) == [dev |-> call.dev, time |-> t + n, src |-> 0]
  IN  [events |-> c.events \o <<ev(0), ev(1)>>, timelineUs |-> t + 2]

\* The events of one chunk, with its calls in order.
playbackLuaChunkIntoCollector(calls) ==
  FoldLeft(writeRaw, [events |-> <<>>, timelineUs |-> 0], calls).events

Times(evs) == {evs[i].time : i \in DOMAIN evs}

vectorMaxTimeUs(evs) == Max(Times(evs) \cup {0})

Shifted(evs, by) == [i \in DOMAIN evs |-> [evs[i] EXCEPT !.time = @ + by]]

normalizeTimelineToZero(evs) == IF evs = <<>> THEN evs ELSE Shifted(evs, -Min(Times(evs)))

\* A batch placed after the last recorded event only.
placeLua_AtAnchor(c, calls) ==
  LET batch == playbackLuaChunkIntoCollector(calls)
      evs == c.events \o (IF batch = <<>> THEN batch ELSE Shifted(batch, c.anchor - Min(Times(batch))))
  IN  [c EXCEPT !.events = evs, !.streamMax = vectorMaxTimeUs(evs), !.hadLua = TRUE]

\* A line of Lua: its batch starts where the timeline has got to.
placeLua(c, calls) ==
  LET batch == playbackLuaChunkIntoCollector(calls)
      placement == Max({c.streamMax, c.anchor})
      evs == c.events \o (IF batch = <<>> THEN batch ELSE Shifted(batch, placement - Min(Times(batch))))
  IN  [c EXCEPT !.events = evs, !.streamMax = vectorMaxTimeUs(evs), !.hadLua = TRUE]

\* A recorded line: at its own time, later by the leading time when Lua came
\* before the first one.
placeRecorded(c, l) ==
  LET adjust == IF ~c.sawFirst /\ c.hadLua /\ c.leading > 0 THEN c.leading ELSE c.adjust
      t == parseTime(l.text) + adjust
  IN  [c EXCEPT !.adjust = adjust, !.sawFirst = TRUE, !.anchor = t,
                !.streamMax = Max({@, t}),
                !.events = Append(@, [dev |-> l.dev, time |-> t, src |-> l.src])]

composeLine(c, l) ==
  CASE l.kind = "leading"  -> [c EXCEPT !.leading = parseTime(l.text)]
    [] l.kind \in {"trailing", "unread"} -> c
    [] l.kind = "lua"      -> placeLua(c, l.calls)
    [] l.kind = "event"    -> placeRecorded(c, l)

Composer == [leading |-> -1, anchor |-> 0, streamMax |-> 0, adjust |-> 0,
             hadLua |-> FALSE, sawFirst |-> FALSE, events |-> <<>>]

textLooksLikeRecordingFormat ==
  \E i \in DOMAIN file : file[i].kind \in {"leading", "trailing", "event"}

\* An empty text, or a line that is neither skipped nor Lua; a line with a
\* label is skipped only in a text that looks like a recording.
LuaFails ==
  \/ file = <<>>
  \/ \E i \in DOMAIN file :
       \/ file[i].kind = "broken"
       \/ file[i].kind = "unread" /\ ~textLooksLikeRecordingFormat

\* A file without a recorded line is one chunk of Lua.
toEvents ==
  normalizeTimelineToZero(
    IF textLooksLikeRecordingFormat
    THEN FoldLeft(composeLine, Composer, file).events
    ELSE playbackLuaChunkIntoCollector(FlattenSeq([i \in DOMAIN file |-> file[i].calls])))

-----------------------------------------------------------------------------
(* Playback::run on the host, then LocalPlayback::playback on the device.  *)

CanPlay == ~LuaFails /\ toEvents # <<>>

\* A Lua error, or nothing to play.
ComposeFails ==
  /\ phase = "file" /\ ~CanPlay
  /\ phase' = "failed"
  /\ UNCHANGED <<filterVars, clock, mouse, baselineUs, file, timeline, next, wall, fd, played>>

Compose ==
  /\ phase = "file" /\ CanPlay
  /\ timeline' = toEvents /\ phase' = "play"
  /\ UNCHANGED <<filterVars, clock, mouse, baselineUs, file, next, wall, fd, played>>

\* The sleep before an event in whole milliseconds, here two units long.
sleepFor_Coarse(i) ==
  LET delta == timeline[i].time - timeline[i - 1].time
  IN  IF i = 1 \/ delta =< 0 THEN 0 ELSE 2 * (delta \div 2)

sleepFor(i) ==
  IF i = 1 \/ timeline[i].time =< timeline[i - 1].time THEN 0
  ELSE timeline[i].time - timeline[i - 1].time

\* The descriptor of a device: looked for once, and remembered when there is none.
getFd(d) == IF fd[d] # "unknown" THEN {fd[d]} ELSE {"open", "none"}

\* One round of the loop: sleep, then write; without a device the event is skipped.
PlayEvent ==
  /\ phase = "play" /\ next =< Len(timeline)
  /\ wall' = wall + sleepFor(next)
  /\ \E f \in getFd(timeline[next].dev) :
       /\ fd' = [fd EXCEPT ![timeline[next].dev] = f]
       /\ played' = IF f = "open" THEN Append(played, [pos |-> next, wall |-> wall']) ELSE played
  /\ next' = next + 1
  /\ UNCHANGED <<filterVars, phase, clock, mouse, baselineUs, file, timeline>>

WriteFails ==
  /\ phase = "play" /\ next =< Len(timeline)
  /\ "open" \in getFd(timeline[next].dev)
  /\ wall' = wall + sleepFor(next)
  /\ fd' = [fd EXCEPT ![timeline[next].dev] = "open"]
  /\ phase' = "failed"
  /\ UNCHANGED <<filterVars, clock, mouse, baselineUs, file, timeline, next, played>>

PlayEnds ==
  /\ phase = "play" /\ next > Len(timeline)
  /\ phase' = "done"
  /\ UNCHANGED <<filterVars, clock, mouse, baselineUs, file, timeline, next, wall, fd, played>>

ReplayNext == \/ RecordKey \/ RecordOther \/ RecordEnds \/ RecordTrailing \/ RecordFails
              \/ EditFile \/ ComposeFails \/ Compose \/ PlayEvent \/ WriteFails \/ PlayEnds

ReplaySpec == ReplayInit /\ [][ReplayNext]_vars

-----------------------------------------------------------------------------
(* Properties.                                                             *)

Recorded == {i \in DOMAIN timeline : timeline[i].src > 0}

\* Two recorded events are as far apart on the composed timeline as they were
\* on the device, whatever was printed and parsed, held back by the filter
\* (a negative delta) or put between them as Lua.
SpacingKept ==
  \A i, j \in Recorded :
    timeline[i].time - timeline[j].time = timeline[i].src - timeline[j].src

\* A batch of Lua starts at or after every event that stands before it in the
\* file, recorded or from Lua: the timeline never goes back into an earlier line.
LuaAfterWhatPrecedes ==
  \A i, j \in DOMAIN timeline :
    i < j /\ timeline[j].src = 0 => timeline[i].time =< timeline[j].time

\* Each device gets its recorded events in the order in which it sent them,
\* however they were held back and wherever Lua stands between them.
RecordedOrderKept ==
  \A i, j \in Recorded :
    i < j /\ timeline[i].dev = timeline[j].dev => timeline[i].src < timeline[j].src

\* No event reaches a device earlier after the first than the timeline says,
\* although sleep_for only ever waits for the step from the previous event
\* and a step back is not made up for.
NeverEarly ==
  \A i \in DOMAIN played :
    played[i].wall >= timeline[played[i].pos].time - timeline[1].time

=============================================================================
