---------------------------- MODULE MCPortGraph ----------------------------
(* PortGraph with an ALSA output; a port that is an output and an input, and so may be
   connected to itself; and a port of a program that keeps it to itself and that may get
   the address of that one; and with an output and an input of JACK.  The queue holds one
   announcement. *)
EXTENDS PortGraph

MCaddress == [synth |-> "128:0", sampler |-> "129:0", hidden |-> "129:0"]
MCowner   == [synth |-> "Synth", sampler |-> "Sampler", hidden |-> "Sampler"]
MCcaps    ==
  [synth   |-> {"READ", "SUBS_READ"},
   sampler |-> {"WRITE", "SUBS_WRITE", "READ", "SUBS_READ"},
   hidden  |-> {"WRITE", "SUBS_WRITE", "NO_EXPORT"}]
=============================================================================
