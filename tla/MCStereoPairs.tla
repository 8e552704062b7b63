--------------------------- MODULE MCStereoPairs ---------------------------
(* StereoPairs with a chain of three names, two pairs and a port of its own. *)
EXTENDS StereoPairs

MCNames == {"x", "xR", "xRR", "y", "yR", "m"}

MCBase ==
  [n \in MCNames |->
     CASE n = "xR"  -> "x"
       [] n = "xRR" -> "xR"
       [] n = "yR"  -> "y"
       [] OTHER     -> NoName]

\* JACK: a port per name.
UniqueName == [n \in MCNames |-> n]

\* ALSA: two ports of one name.
AlsaPorts == 1 .. 4
AlsaName  == <<"x", "xR", "xR", "m">>
=============================================================================
