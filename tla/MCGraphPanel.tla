--------------------------- MODULE MCGraphPanel ---------------------------
(* GraphPanel with a source, and a client that is a sink or has both sides. *)
EXTENDS GraphPanel

MCClients == {"a", "b"}
MCOwner   == [a1 |-> "a", b1 |-> "b", b2 |-> "b"]
MCRank    == [a |-> 1, b |-> 2]
MCGrid    == {<<0, 1>>, <<2, 0>>}
=============================================================================
