--------------------------- MODULE MCRequestPipeline ---------------------------
(* Small instances of RequestPipeline for TLC: the requests of a session and  *)
(* the clients that send them.                                                *)
EXTENDS RequestPipeline

\* A client that asks for something before it logs in, is refused, logs in, downloads,
\* and asks for a file that is not there.
Browse == <<"login", "dir", "login", "download", "download">>
Refused == <<"other", "none", "none", "none", "other">>

AnyClient == [flags : {"once", "each", "answered", "any"}, waits : BOOLEAN]
================================================================================
