---------------------------- MODULE MCEventStream -----------------------------
(* EventStream with two writers, one of them a worker that may be          *)
(* cancelled, two clients and tiny channels.                               *)
EXTENDS EventStream

CONSTANTS worker, request, c1, c2
=============================================================================
