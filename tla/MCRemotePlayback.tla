-------------------------- MODULE MCRemotePlayback --------------------------
(* RemotePlayback with two or three threads for TLC.                       *)
EXTENDS RemotePlayback, TLC

\* One thread plays back, one stops or uploads.
MCThreads == {"player", "other"}
MCHandlers == MCThreads \X {"call", "stream"}
MCMethods ==
  [h \in MCHandlers |->
     CASE h = <<"player", "call">> -> {"Upload", "Playback"}
       [] h = <<"other", "call">> -> {"Upload", "Stop"}
       [] OTHER -> {"Subscribe"}]
=============================================================================
