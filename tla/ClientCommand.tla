--------------------------- MODULE ClientCommand ---------------------------
(***************************************************************************)
(* From the command line of evrp-client to what the host runs: the         *)
(* arguments become settings, the settings a protobuf Struct, and the      *)
(* Struct the settings of LocalEvrp::record or LocalEvrp::replay.          *)
(*                                                                         *)
(* A text is the sequence of its pieces, the empty text being <<>>: -r is  *)
(* <<"-", "r">>, --output=f is <<"--", "output", "=", "f">>, and the       *)
(* comma-separated list of --kind is one piece per element, without the    *)
(* blanks.  The session the calls need is SessionLease's matter.           *)
(***************************************************************************)
EXTENDS Integers, Sequences, SequencesExt, TLC

CONSTANTS Options,    \* what a user may ask for: records [opt, text]
          MaxOptions  \* bound: options on one command line

ASSUME CommandAssumption == MaxOptions \in Nat

VARIABLES pc,       \* of the command, from evrp-client to the host
          options,  \* history: what the user asks for
          args,     \* how it is spelled: argv without the program
          settings  \* key -> <<type, value>>, the std::any under each key

-----------------------------------------------------------------------------
(* evrp-client: the arguments.                                             *)

Dashed(t) == t # <<>> /\ t[1] \in {"-", "--"}
Long(name) == <<"--", name>>
Given(name, text) == <<"--", name, "=">> \o text
Begins(t, name) == IsPrefix(Given(name, <<>>), t)
Value(t) == SubSeq(t, 4, Len(t))

\* --name or --noname: yes, true and 1 ask for the wait, anything else for none.
Wait(name, t) == IF Value(t) \in {<<"yes">>, <<"true">>, <<"1">>} THEN Long(name) ELSE <<"--", "no", name>>

RECURSIVE normalizeLegacyArgs(_)
normalizeLegacyArgs(a) ==
  IF a = <<>> THEN <<>> ELSE
  LET t == Head(a)
      more == Len(a) > 1
      One(new) == new \o normalizeLegacyArgs(Tail(a))
      Two(new) == new \o normalizeLegacyArgs(Tail(Tail(a)))
  IN  CASE t = <<"-", "r">> -> IF more /\ a[2] # <<>> /\ ~Dashed(a[2])
                               THEN Two(<<Long("record"), Given("output", a[2])>>)
                               ELSE One(<<Long("record")>>)
        [] t = <<"-", "p">> /\ more -> Two(<<Given("playback", a[2])>>)
        [] t = <<"-", "o">> /\ more -> Two(<<Given("output", a[2])>>)
        [] Begins(t, "log-level") -> One(<<Given("log_level", Value(t))>>)
        [] Begins(t, "wait-leading") -> One(<<Wait("wait_leading", t)>>)
        [] Begins(t, "wait-trailing") -> One(<<Wait("wait_trailing", t)>>)
        [] OTHER -> One(<<t>>)

\* resetArgFlags, and the defaults of the two discovery flags
Defaults ==
  [record |-> FALSE, playback |-> <<>>, output |-> <<>>, kind |-> <<>>, log_level |-> <<"info">>,
   wait_leading |-> TRUE, wait_trailing |-> TRUE, device |-> <<>>,
   keyboard_ctrl_c_filter |-> <<"ending">>, discovery_port |-> 53508,
   discovery_link_mode |-> <<"broadcast">>]

Switches == {"record", "wait_leading", "wait_trailing"}
Numeral == ("0" :> 0) @@ ("53508" :> 53508) @@ ("70000" :> 70000)
Accepts(name, text) == name = "discovery_port" => Len(text) = 1 /\ text[1] \in DOMAIN Numeral
Set(f, name, text) == [f EXCEPT ![name] = IF name = "discovery_port" THEN Numeral[text[1]] ELSE text]

\* gflags: the flags f with the arguments a read into them, or nothing when it ends
\* the process, over an unknown flag, a missing value or what is not a number.
RECURSIVE ParseCommandLineFlags(_, _)
ParseCommandLineFlags(f, a) ==
  IF a = <<>> THEN <<f>> ELSE
  LET t == Head(a)
      name == IF Len(t) > 1 THEN t[2] ELSE ""
      valued == name \in DOMAIN Defaults \ Switches
  IN  CASE ~Dashed(t) -> ParseCommandLineFlags(f, Tail(a))
        [] name \in Switches -> ParseCommandLineFlags([f EXCEPT ![name] = TRUE], Tail(a))
        [] Dashed(t) /\ name = "no" ->
             ParseCommandLineFlags([f EXCEPT ![t[3]] = FALSE], Tail(a))
        [] valued /\ Begins(t, name) /\ Accepts(name, Value(t)) ->
             ParseCommandLineFlags(Set(f, name, Value(t)), Tail(a))
        [] valued /\ Len(t) = 2 /\ Len(a) > 1 /\ Accepts(name, a[2]) ->
             ParseCommandLineFlags(Set(f, name, a[2]), Tail(Tail(a)))
        [] OTHER -> <<>>

-----------------------------------------------------------------------------
(* The conversions of kinds and log levels.                                *)

\* What is recorded when no kind is named.
AllKinds == <<"kTouchpad", "kTouchscreen", "kMouse", "kKeyboard">>
KindName == [kTouchpad |-> "touchpad", kTouchscreen |-> "touchscreen",
             kMouse |-> "mouse", kKeyboard |-> "keyboard"]

\* toKind of each label, the unknown ones passed over
toKinds(labels) ==
  LET Known(l) == \E k \in DOMAIN KindName : KindName[k] = l
      known == SelectSeq(labels, Known)
  IN  [i \in DOMAIN known |-> CHOOSE k \in DOMAIN KindName : KindName[k] = known[i]]

logLevelName == [Off |-> "OFF", Error |-> "ERROR", Warning |-> "WARN", Info |-> "INFO",
                 Debug |-> "DEBUG", Trace |-> "TRACE"]

logLevelFromString(s) ==
  CASE s \in {"OFF", "off"} -> "Off"
    [] s \in {"ERROR", "error"} -> "Error"
    [] s \in {"WARN", "warn", "warning"} -> "Warning"
    [] s \in {"DEBUG", "debug"} -> "Debug"
    [] s \in {"TRACE", "trace"} -> "Trace"
    [] OTHER -> "Info"

-----------------------------------------------------------------------------
(* Settings, and the Struct that carries them to the host.                 *)

kindsFromKindFlag(f) == toKinds(f.kind)
Level(f) == IF f.log_level = <<>> THEN "Info" ELSE logLevelFromString(f.log_level[1])

get(s, key, type, default) ==
  IF key \in DOMAIN s /\ s[key][1] = type THEN s[key][2] ELSE default

Str(text) == <<"string", text>>
Bool(b) == <<"bool", b>>

parseArgvInto(f) ==
  LET kinds == kindsFromKindFlag(f) IN
  [program |-> Str(<<"evrp">>),
   recording |-> Bool(f.record),
   playback |-> Bool(f.playback # <<>>),
   logLevel |-> <<"LogLevel", Level(f)>>,
   playbackPath |-> Str(f.playback),
   outputPath |-> Str(f.output),
   device |-> Str(f.device),
   kinds |-> <<"kinds", IF f.record /\ kinds = <<>> THEN AllKinds ELSE kinds>>,
   executeWaitBeforeFirst |-> Bool(f.wait_leading),
   executeWaitAfterLast |-> Bool(f.wait_trailing),
   keyboardCtrlCFilter |-> Str(f.keyboard_ctrl_c_filter),
   discovery_port |-> <<"int32", f.discovery_port>>,
   discovery_link_mode |-> Str(f.discovery_link_mode)]

\* int32_t, int64_t, float and double are all numbers in a Struct; a type that has no
\* counterpart is left out, and parseArgvInto inserts none.
anyToProtoValue(a) ==
  CASE a[1] \in {"string", "bool"} -> a
    [] a[1] \in {"int32", "int64", "float", "double"} -> <<"number", a[2]>>
    [] a[1] = "LogLevel" -> Str(<<logLevelName[a[2]]>>)
    [] a[1] = "kinds" -> <<"list", [i \in DOMAIN a[2] |-> KindName[a[2][i]]]>>

toProto(s) == [key \in DOMAIN s |-> anyToProtoValue(s[key])]

Int32 == -2147483647 - 1 .. 2147483647

\* Numbers left as the doubles they are in a Struct.
valueFromProto_Double(v) == IF v[1] = "number" THEN <<"double", v[2]>> ELSE v

\* A whole number that fits is an int32_t again.
valueFromProto(v) ==
  IF v[1] = "number" THEN <<IF v[2] \in Int32 THEN "int32" ELSE "double", v[2]>> ELSE v

appendKindsFromList(v) == toKinds(v[2])

\* A list is the kinds; it is dropped when it is not, and when none of them is known.
fromProto(s) ==
  LET Dropped(key) == s[key][1] = "list" /\ (key # "kinds" \/ appendKindsFromList(s[key]) = <<>>)
  IN  [key \in {k \in DOMAIN s : ~Dropped(k)} |->
        LET v == s[key] IN
        CASE v[1] = "list" -> <<"kinds", appendKindsFromList(v)>>
          [] key = "logLevel" /\ v[1] = "string" -> <<"LogLevel", logLevelFromString(v[2][1])>>
          [] OTHER -> valueFromProto(v)]

-----------------------------------------------------------------------------
(* The steps of a command.                                                 *)

\* Runner::run, to the call of EvrpService
Run(s) ==
  LET recording == get(s, "recording", "bool", FALSE)
      playback == get(s, "playback", "bool", FALSE)
      path == get(s, "playbackPath", "string", <<>>)
  IN  IF recording = playback \/ (playback /\ path = <<>>)
      THEN pc' = "refused" /\ UNCHANGED settings
      ELSE pc' = (IF playback THEN "Replay" ELSE "Record") /\ settings' = s

\* evrp-client's main: gflags may end the process, and without a session with
\* evrp-server, or when the call fails, the command is over.
main ==
  /\ pc = "command"
  /\ \E a \in {normalizeLegacyArgs(args)} : \E read \in {ParseCommandLineFlags(Defaults, a)} :
       \/ read = <<>> /\ pc' = "refused" /\ UNCHANGED settings
       \/ read # <<>> /\ pc' = "done" /\ UNCHANGED settings
       \/ read # <<>> /\ Run(parseArgvInto(read[1]))
  /\ UNCHANGED <<options, args>>

\* The request of RemoteEvrp::record and RemoteEvrp::replay
Request == toProto(settings)

\* What the handler of EvrpService makes of it, overriding three keys
Received(recording) ==
  [program |-> Str(<<"evrp-grpc">>), recording |-> Bool(recording), playback |-> Bool(~recording)]
    @@ fromProto(Request)

\* GrpcEvrpService::Record
Record ==
  /\ pc = "Record"
  /\ LET s == Received(TRUE)
         kinds == get(s, "kinds", "kinds", <<>>)
     IN  settings' = [kinds |-> <<"kinds", IF kinds = <<>> THEN AllKinds ELSE kinds>>] @@ s
  /\ pc' = "record"
  /\ UNCHANGED <<options, args>>

\* GrpcEvrpService::Replay
Replay ==
  /\ pc = "Replay"
  /\ settings' = Received(FALSE)
  /\ pc' = IF get(settings', "playbackPath", "string", <<>>) = <<>> THEN "done" ELSE "replay"
  /\ UNCHANGED <<options, args>>

-----------------------------------------------------------------------------
(* What a user may write, after printUsage.                                *)

Spellings(o) ==
  LET valued == {<<Given(o.opt, o.text)>>}
      either == valued \cup {<<Long(o.opt), o.text>>}
  IN  CASE o.opt = "record" ->
             IF o.text = <<>> THEN {<<Long("record")>>, << <<"-", "r">> >>}
             ELSE {<< <<"-", "r">>, o.text>>}
        [] o.opt = "playback" /\ o.text # <<>> -> either \cup {<< <<"-", "p">>, o.text>>}
        [] o.opt = "output" -> either \cup {<< <<"-", "o">>, o.text>>}
        [] o.opt = "log_level" -> valued \cup {<<Given("log-level", o.text)>>}
        [] o.opt = "wait_leading" -> {<<Given("wait-leading", o.text)>>}
        [] o.opt = "wait_trailing" -> {<< <<"--", "no", "wait_trailing">> >>}
        [] OTHER -> valued

RECURSIVE Spelled(_)
Spelled(os) ==
  IF os = <<>> THEN {<<>>} ELSE {x \o y : x \in Spellings(Head(os)), y \in Spelled(Tail(os))}

CommandInit ==
  /\ pc = "command" /\ settings = <<>>
  /\ options \in UNION {[1..n -> Options] : n \in 0..MaxOptions}
  /\ args \in Spelled(options)

-----------------------------------------------------------------------------
(* Property.                                                               *)

Asking(opts) == SelectSeq(options, LAMBDA o : o.opt \in opts /\ ~(o.opt = "record" /\ o.text = <<>>))
Asked(opts, default) == IF Asking(opts) = <<>> THEN default ELSE Last(Asking(opts)).text
Records == \E i \in DOMAIN options : options[i].opt = "record"
Plays == Asked({"playback"}, <<>>) # <<>>
Mistaken == \E i \in DOMAIN options : options[i].opt \notin DOMAIN Defaults

ReadAsAsked ==
  LET level == Asked({"log_level"}, <<"info">>)[1]
      documented == [error |-> "Error", warn |-> "Warning", info |-> "Info",
                     debug |-> "Debug", trace |-> "Trace"]
  IN  /\ get(settings, "device", "string", <<>>) = Asked({"device"}, <<>>)
      /\ get(settings, "discovery_port", "int32", 53508)
           = Numeral[Asked({"discovery_port"}, <<"53508">>)[1]]
      /\ get(settings, "discovery_link_mode", "string", <<"broadcast">>)
           = Asked({"discovery_link_mode"}, <<"broadcast">>)
      /\ get(settings, "logLevel", "LogLevel", "Info")
           = IF level \in DOMAIN documented THEN documented[level] ELSE "Info"

\* A command line means what its options say, however they are spelled and whatever
\* stands next to them: the host records or replays exactly when one of the two is
\* asked for, and what it reads from its settings, after the arguments were
\* rewritten, parsed, put into a Struct and taken out again, is what was asked last:
\* the file, the device or how to search for it, the log level, the filter, and the
\* known kinds in their order, all four of them when there are none.
CommandHonoured ==
  /\ pc = "refused" => Mistaken \/ Records = Plays
  /\ pc = "record" =>
       LET kinds == get(settings, "kinds", "kinds", <<>>)
           labels == SelectSeq(Asked({"kind"}, <<>>), LAMBDA l : l \in Range(KindName))
       IN  /\ Records /\ ~Plays /\ ~Mistaken /\ ReadAsAsked
           /\ get(settings, "outputPath", "string", <<>>) = Asked({"output", "record"}, <<>>)
           /\ get(settings, "keyboardCtrlCFilter", "string", <<"ending">>)
                = Asked({"keyboard_ctrl_c_filter"}, <<"ending">>)
           /\ IF labels = <<>> THEN kinds = AllKinds
              ELSE [i \in DOMAIN kinds |-> KindName[kinds[i]]] = labels
  /\ pc = "replay" =>
       /\ Plays /\ ~Records /\ ~Mistaken /\ ReadAsAsked
       /\ get(settings, "playbackPath", "string", <<>>) = Asked({"playback"}, <<>>)
=============================================================================
