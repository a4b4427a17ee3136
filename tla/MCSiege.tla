------------------------------- MODULE MCSiege -------------------------------
(* Two users and up to two signals: Ctrl-C while the threads start, while the  *)
(* browsers run, and again while the siege winds down.                         *)
EXTENDS Siege
==============================================================================
