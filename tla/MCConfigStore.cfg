SPECIFICATION Spec
CONSTANTS
  Procs = {p, q}
  Inodes = {i1, i2, i3, i4}
  NoInode = NoInode
  Absent = Absent
  Order <- MCOrder
  Numbers = {"window_width"}
  Flags = {"realtime"}
  values <- MCValues
  readable <- MCReadable
  defaults <- MCDefaults
  Contents <- MCContents
  Pieces <- MCPieces
  Bodies <- MCBodies
SYMMETRY Symmetry
INVARIANTS
  NoTemporaryLeft
PROPERTIES
  AtomicReplace
  StartsWithOneSave
