---------------------------- MODULE KeyboardFilter ----------------------------
(***************************************************************************)
(* The Ctrl+C filter that Record::run applies to keyboard events           *)
(* (sdk/keyboard/keyboarddevice.cpp), fed with what a keyboard can send,   *)
(* and flushed when the recording ends.  An event is a key, a value (0     *)
(* release, 1 press, 2 repeat) and a time, or one that is not EV_KEY.      *)
(***************************************************************************)
EXTENDS Integers, Sequences, FiniteSets

CONSTANTS Modes,      \* the filter modes tried
          HeldAtStart,\* keys that may be down when the recording starts
          OtherKeys,  \* keys other than C and the two Ctrl keys
          MaxInput    \* bound: events of a recording

Ctrl == {"LEFTCTRL", "RIGHTCTRL"}
Keys == Ctrl \cup {"C"} \cup OtherKeys
Event == [key : Keys, value : 0..2, at : Nat] \cup [key : {"none"}, value : {0}, at : Nat]
EventsAt(t) == [key : Keys, value : 0..2, at : {t}] \cup {[key |-> "none", value |-> 0, at |-> t]}

ASSUME FilterAssumption ==
  /\ Modes \subseteq {"Off", "Full", "EndingOnly"} /\ HeldAtStart \subseteq Keys
  /\ "none" \notin Keys /\ MaxInput \in Nat

VARIABLES mode, held,
          atStart,  \* history: the keys down at the start
          filter,   \* keyboard_filter_state
          input, emitted,
          over      \* the filter was flushed

filterVars == <<mode, held, atStart, filter, input, emitted, over>>

FilterInit ==
  /\ mode \in Modes
  /\ held \in SUBSET HeldAtStart /\ atStart = held
  /\ filter = [ctrl_down_count |-> 0, saw_ctrl_c |-> FALSE, pending |-> <<>>]
  /\ input = <<>> /\ emitted = <<>> /\ over = FALSE

CtrlCPress(e) == e.key = "C" /\ e.value # 0

\* An open end of the Ctrl window, up to the last press of C.
emitPendingThroughLastCtrlCPress(pending) ==
  LET presses == {i \in DOMAIN pending : CtrlCPress(pending[i])}
  IN  SubSeq(pending, 1, IF presses = {} THEN 0
                         ELSE CHOOSE i \in presses : \A j \in presses : j =< i)

\* A window that is emitted whole in mode EndingOnly.
Released_Whole(f) ==
  IF ~f.saw_ctrl_c \/ mode = "EndingOnly" THEN f.pending ELSE <<>>

\* What becomes of the pending events when the Ctrl keys are up.
Released(f) ==
  CASE ~f.saw_ctrl_c -> f.pending
    [] f.saw_ctrl_c /\ mode = "EndingOnly" -> emitPendingThroughLastCtrlCPress(f.pending)
    [] OTHER -> <<>>

Cleared(f) == [f EXCEPT !.saw_ctrl_c = FALSE, !.pending = <<>>]

-----------------------------------------------------------------------------
(* processKeyboardEventWithCtrlFilter.                                     *)

FilterOff(e) ==
  /\ mode = "Off"
  /\ emitted' = Append(emitted, e)
  /\ UNCHANGED filter

CtrlKey(e) ==
  /\ mode # "Off" /\ e.key \in Ctrl
  /\ LET down == filter.ctrl_down_count
         count == CASE e.value = 1 -> down + 1
                    [] e.value = 0 /\ down > 0 -> down - 1
                    [] OTHER -> down
         f == [filter EXCEPT !.ctrl_down_count = count, !.pending = Append(@, e)]
         closes == e.value = 0 /\ count = 0
     IN  /\ filter' = IF closes THEN Cleared(f) ELSE f
         /\ emitted' = IF closes THEN emitted \o Released(f) ELSE emitted

InsideWindow(e) ==
  /\ mode # "Off" /\ e.key \notin Ctrl /\ filter.ctrl_down_count > 0
  /\ filter' = [filter EXCEPT !.pending = Append(@, e),
                              !.saw_ctrl_c = @ \/ CtrlCPress(e)]
  /\ UNCHANGED emitted

OutsideWindow(e) ==
  /\ mode # "Off" /\ e.key \notin Ctrl /\ filter.ctrl_down_count = 0
  /\ emitted' = Append(emitted \o Released(filter), e)
  /\ filter' = Cleared(filter)

process(e) == FilterOff(e) \/ CtrlKey(e) \/ InsideWindow(e) \/ OutsideWindow(e)

\* A keyboard presses what is up, and repeats or releases what is down.
KeyEvent(e) ==
  /\ ~over /\ Len(input) < MaxInput
  /\ e.key # "none" => (e.value = 1 <=> e.key \notin held)
  /\ held' = CASE e.value = 1 -> held \cup {e.key}
               [] e.value = 0 -> held \ {e.key}
               [] OTHER -> held
  /\ process(e)
  /\ input' = Append(input, e)
  /\ UNCHANGED <<mode, atStart, over>>

flushKeyboardEventFilter ==
  /\ ~over /\ over' = TRUE
  /\ IF mode = "Off" \/ filter.ctrl_down_count # 0
     THEN UNCHANGED <<emitted, filter>>
     ELSE emitted' = emitted \o Released(filter) /\ filter' = Cleared(filter)
  /\ UNCHANGED <<mode, held, atStart, input>>

-----------------------------------------------------------------------------
(* The reference: which positions of the input are kept, from the times at *)
(* which Ctrl keys are down.                                               *)

CtrlDown(i) ==
  {k \in Ctrl : \E j \in 1..i :
     /\ input[j].key = k /\ input[j].value = 1
     /\ \A l \in (j + 1)..i : ~(input[l].key = k /\ input[l].value = 0)}

\* i and j lie in one stretch with a Ctrl key down, its two ends included.
SameWindow(i, j) ==
  \A l \in DOMAIN input : (i =< l /\ l < j) \/ (j =< l /\ l < i) => CtrlDown(l) # {}

InWindow(i) == CtrlDown(i) # {} \/ CtrlDown(i - 1) # {}

Window(i) == {j \in DOMAIN input : InWindow(j) /\ SameWindow(i, j)}

Kept(i) ==
  \/ mode = "Off" \/ ~InWindow(i)
  \/ /\ \E j \in Window(i) : CtrlDown(j) = {}
     /\ LET presses == {j \in Window(i) : CtrlCPress(input[j])}
        IN  presses = {} \/ (mode = "EndingOnly" /\ \E j \in presses : i =< j)

Expected ==
  LET at == SelectSeq([i \in DOMAIN input |-> i], Kept)
  IN  [n \in DOMAIN at |-> input[at[n]]]

-----------------------------------------------------------------------------
(* Properties.                                                             *)

\* The incremental filter, with its count, flag and pending list, emits at any
\* moment exactly the events that the definition by windows keeps, in order,
\* when no Ctrl key was down at the start; and whatever was down, without a
\* press of C nothing is lost, doubled or reordered, only held back.
MatchesWindows ==
  /\ atStart \cap Ctrl = {} => emitted = Expected
  /\ (\A i \in DOMAIN input : ~CtrlCPress(input[i])) => emitted \o filter.pending = input
=============================================================================
