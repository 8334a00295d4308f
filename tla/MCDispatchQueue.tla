-------------------------- MODULE MCDispatchQueue --------------------------
(* Two components, the first the input listener with its last task.        *)
EXTENDS DispatchQueue

MCOrder == <<"listener", "playback">>
=============================================================================
