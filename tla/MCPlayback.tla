---- MODULE MCPlayback ----
(* Instances of Playback for TLC.                                          *)
EXTENDS Playback
=============================================================================
