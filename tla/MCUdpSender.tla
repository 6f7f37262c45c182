------------------------- MODULE MCUdpSender -------------------------
(* Small instances of UdpSender for TLC. *)
EXTENDS UdpSender
======================================================================
