------------------------- MODULE MCQueueServer -------------------------
(* A small instance of QueueServer for TLC: every call may come at any  *)
(* time, so three calls can make three threads.                         *)
EXTENDS QueueServer
========================================================================
