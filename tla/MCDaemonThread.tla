------------------------- MODULE MCDaemonThread -------------------------
(* A small instance of DaemonThread for TLC: a second of three ticks and *)
(* a timeout of four, where the code has 1000 and 300000.                *)
EXTENDS DaemonThread
=========================================================================
