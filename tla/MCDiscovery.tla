---------------------------- MODULE MCDiscovery ----------------------------
(* A device on the host's own machine, found on the loopback, and one on   *)
(* the link; every option of evrp-client, those that can be wrong also     *)
(* with a wrong text.                                                      *)
EXTENDS Discovery

CONSTANTS Local, Remote

MCDevices == {Local, Remote}

MCRoutes ==
  {[dev |-> Local, via |-> "loop", rank |-> 0],
   [dev |-> Remote, via |-> "link", rank |-> 2]}

Option(opt, texts) == {[opt |-> opt, text |-> t] : t \in texts}

MCOptions ==
  Option("record", {<<>>, <<"f">>}) \cup Option("playback", {<<>>, <<"g">>})
    \cup Option("output", {<<"h">>}) \cup Option("device", {<<"d">>})
    \cup Option("kind", {<<"mouse", "joystick", "keyboard">>, <<"joystick">>})
    \cup Option("log_level", {<<"warn">>, <<"loud">>})
    \cup Option("keyboard_ctrl_c_filter", {<<"full">>})
    \cup Option("wait_leading", {<<"yes">>, <<"no">>}) \cup Option("wait_trailing", {<<>>})
    \cup Option("discovery_port", {<<"0">>, <<"70000">>})
    \cup Option("discovery_link_mode", {<<"multicast">>, <<"ring">>})
    \cup Option("unknown", {<<>>})
=============================================================================
