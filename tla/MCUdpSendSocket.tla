------------------------- MODULE MCUdpSendSocket -------------------------
(* A small instance of UdpSendSocket for TLC: fewer args than calls, one  *)
(* call without a peer and one without content.                           *)
EXTENDS UdpSendSocket, TLC

Symmetry == Permutations(Args)
==========================================================================
