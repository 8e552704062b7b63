--------------------------- MODULE MCConfigStore ---------------------------
(* ConfigStore with a number and a flag. *)
EXTENDS ConfigStore, TLC

MCOrder == <<"window_width", "realtime">>
MCValues == [k \in {"window_width", "realtime"} |->
               IF k = "realtime" THEN {"true", "false"} ELSE {"50", "900", "1200"}]
MCReadable == [k \in {"window_width"} |-> {"900", "1200"}]
MCDefaults == [k \in {"window_width", "realtime"} |-> IF k = "realtime" THEN "false" ELSE "1200"]

\* Cut short by an earlier version, or edited by hand.
MCContents ==
  {<<>>,
   <<[key |-> "realtime", value |-> "true"], [key |-> "realtime", value |-> "50"]>>}

MCPieces == Line
MCBodies == {Serialize(c) : c \in Settings}

Symmetry == Permutations(Inodes) \cup Permutations(Procs)
=============================================================================
