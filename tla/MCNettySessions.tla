------------------------- MODULE MCNettySessions -------------------------
(* Small instances of NettySessions for TLC, in both modes: two peers or  *)
(* channels, two sessions, so that each has one or a peer comes back, and *)
(* two rounds of the timer that may overlap.                              *)
EXTENDS NettySessions
==========================================================================
