SPECIFICATION Spec
CONSTANTS
  Clients <- MCClients
  Outs = {"a1", "b2"}
  Ins = {"b1"}
  owner <- MCOwner
  rank <- MCRank
  Grid <- MCGrid
  MaxCables = 2
  Tools = {"Refresh", "Fit"}
  Nobody = "nobody"
  NoPort = "noport"
INVARIANTS
  IInv
  DragFollows
  CablesAreWires
PROPERTIES
  ColumnsStack
  Arrangement
