------------------------ MODULE MCIocpConnections ------------------------
(* Small instances of IocpConnections for TLC. *)
EXTENDS IocpConnections
==========================================================================
