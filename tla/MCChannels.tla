----------------------------- MODULE MCChannels -----------------------------
(***************************************************************************)
(* Channels on a root (3) with two subchannels: a sequential one (1) with  *)
(* two jobs, and an unlimited, throttled one (2) whose job competes with   *)
(* them.                                                                   *)
(***************************************************************************)
EXTENDS Channels

Tree       == <<{1, 3}, {2, 3}, {3}>>
JobHome    == <<1, 2, 1>>
Capacities == <<1, 0, 1>>
=============================================================================
