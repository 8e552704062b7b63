---------------------------- MODULE MCWakePipe ----------------------------
(* WakePipe with two JACK threads and two children. *)
EXTENDS WakePipe
=============================================================================
