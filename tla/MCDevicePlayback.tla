-------------------------- MODULE MCDevicePlayback --------------------------
(* DevicePlayback with small sets of handlers for TLC.                     *)
EXTENDS DevicePlayback, TLC

CONSTANTS h1, h2, h3

\* A subscriber, a caller that uploads and replays, and one that stops, replays
\* and subscribes too.
MCHandlers == {h1, h2, h3}
MCMethods ==
  (h1 :> {"Subscribe"}) @@ (h2 :> {"Upload", "Playback"})
    @@ (h3 :> {"Playback", "Stop", "Subscribe"})

\* One caller that replays and one that stops.
StopMethods == (h1 :> {"Upload", "Playback"}) @@ (h2 :> {"Stop"}) @@ (h3 :> {})
=============================================================================
