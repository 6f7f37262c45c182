------------------------ MODULE MCSignalRClient ------------------------
(* A small instance of SignalRClient for TLC: a browser that has web     *)
(* sockets and event sources, and room for one leaked heartbeat.         *)
EXTENDS SignalRClient
========================================================================
