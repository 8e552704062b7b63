---------------------------- MODULE MCEventLoop ----------------------------
(* EventLoop with a token for handlers to register, and two window objects. *)
EXTENDS EventLoop
=============================================================================
