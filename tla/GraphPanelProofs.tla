------------------------- MODULE GraphPanelProofs -------------------------
(***************************************************************************)
(* Proofs about GraphPanel for any clients, ports and grid: IInv is        *)
(* inductive, a box that is moved stays under the pointer, no cable is     *)
(* drawn that is not a connection, and the boxes are arranged as module    *)
(* Arrangement says.                                                       *)
(***************************************************************************)
EXTENDS GraphPanel, FiniteSetTheorems, SequenceTheorems, TLAPS

Places(f) == \A c \in DOMAIN f : f[c] \in Position

\* The height of a box is a natural number, and at most the number of ports.
LEMMA HeightType ==
  ASSUME NEW nodes \in SUBSET Ports, NEW c
  PROVE  Height(c, nodes) \in 0 .. Cardinality(Ports)
<1> DEFINE outs == PortsOf(c, nodes) \cap Outs
           ins  == PortsOf(c, nodes) \cap Ins
<1>1. IsFiniteSet(Ports)
  BY PortsAssumption DEF PortsAssumption
<1>2. outs \in SUBSET Ports /\ ins \in SUBSET Ports
  BY DEF PortsOf
<1>3. /\ Cardinality(outs) \in Nat /\ Cardinality(outs) <= Cardinality(Ports)
      /\ Cardinality(ins) \in Nat /\ Cardinality(ins) <= Cardinality(Ports)
      /\ Cardinality(Ports) \in Nat
  BY <1>1, <1>2, FS_Subset, FS_CardinalityType
<1> HIDE DEF outs, ins
<1> QED
  BY <1>3 DEF Height, outs, ins

\* Every client shown is a client.
LEMMA ShownType ==
  ASSUME NEW nodes \in SUBSET Ports
  PROVE  Shown(nodes) \subseteq Clients
  BY PortsAssumption DEF PortsAssumption, Shown

\* A column has finitely many rows above its floor.
LEMMA FloorFinite ==
  ASSUME NEW nodes \in SUBSET Ports, NEW saved, Places(saved), NEW col
  PROVE  IsFiniteSet(UNION {0 .. saved[c][2] + Height(c, nodes) - 1 :
                              c \in InColumn(col, nodes) \cap DOMAIN saved})
<1> DEFINE C == InColumn(col, nodes) \cap DOMAIN saved
           rows == [c \in C |-> 0 .. saved[c][2] + Height(c, nodes) - 1]
           R == {0 .. saved[c][2] + Height(c, nodes) - 1 : c \in C}
<1>1. C \in SUBSET Clients
  BY ShownType DEF InColumn
<1>2. IsFiniteSet(C)
  BY <1>1, FS_Subset, PortsAssumption DEF PortsAssumption
<1>3. rows \in Surjection(C, R)
  BY DEF Surjection
<1>4. IsFiniteSet(R)
  BY <1>2, <1>3, FS_Surjection
<1>5. ASSUME NEW c \in C PROVE IsFiniteSet(0 .. saved[c][2] + Height(c, nodes) - 1)
  <2>1. saved[c][2] \in Int
    BY DEF Places, Position
  <2>2. Height(c, nodes) \in Int /\ Cardinality(Ports) \in Nat
    BY HeightType, FS_CardinalityType, PortsAssumption DEF PortsAssumption
  <2>3. saved[c][2] + Height(c, nodes) - 1 \in Int
    BY <2>1, <2>2
  <2> QED
    BY <2>3, FS_Interval
<1>6. \A T \in R : IsFiniteSet(T)
  BY <1>5
<1>7. IsFiniteSet(UNION R)
  BY <1>4, <1>6, FS_UNION
<1> QED
  BY <1>7

\* New boxes begin at a natural row.
LEMMA FloorType ==
  ASSUME NEW nodes \in SUBSET Ports, NEW saved, Places(saved), NEW col
  PROVE  Floor(col, nodes, saved) \in Nat
BY FloorFinite, FS_CardinalityType DEF Floor

\* The boxes before a new one take up finitely many rows.
LEMMA AboveFinite ==
  ASSUME NEW nodes \in SUBSET Ports, NEW saved, NEW c
  PROVE  IsFiniteSet(UNION {{d} \X (1 .. Height(d, nodes)) :
           d \in {e \in InColumn(Column(c, nodes), nodes) \ DOMAIN saved : rank[e] < rank[c]}})
<1> DEFINE before == {d \in InColumn(Column(c, nodes), nodes) \ DOMAIN saved : rank[d] < rank[c]}
           rows == UNION {{d} \X (1 .. Height(d, nodes)) : d \in before}
<1>1. Cardinality(Ports) \in Nat
  BY FS_CardinalityType, PortsAssumption DEF PortsAssumption
<1>2. before \subseteq Clients
  BY ShownType DEF InColumn
<1>3. \A d \in before : 1 .. Height(d, nodes) \subseteq 1 .. Cardinality(Ports)
  BY <1>1, HeightType
<1>4. rows \in SUBSET (Clients \X (1 .. Cardinality(Ports)))
  BY <1>2, <1>3
<1>5. IsFiniteSet(Clients \X (1 .. Cardinality(Ports)))
  <2>1. IsFiniteSet(Clients)
    BY PortsAssumption DEF PortsAssumption
  <2>2. IsFiniteSet(1 .. Cardinality(Ports))
    BY <1>1, FS_Interval
  <2> QED
    BY <2>1, <2>2, FS_Product
<1>6. IsFiniteSet(rows)
  BY <1>4, <1>5, FS_Subset
<1> QED
  BY <1>6

LEMMA AboveType ==
  ASSUME NEW nodes \in SUBSET Ports, NEW saved, NEW c
  PROVE  Above(c, nodes, saved) \in Nat
BY AboveFinite, FS_CardinalityType, Zenon DEF Above

\* A layout places every client shown, the saved ones where they were saved.
LEMMA LayoutType ==
  ASSUME NEW nodes \in SUBSET Ports, NEW saved, Places(saved)
  PROVE  /\ DOMAIN layout(nodes, saved) = Shown(nodes)
         /\ Places(layout(nodes, saved))
         /\ \A c \in DOMAIN saved : c \in Shown(nodes) => layout(nodes, saved)[c] = saved[c]
<1>1. \A c : NewPlace(c, nodes, saved) \in Position
  <2> TAKE c
  <2>1. Column(c, nodes) \in Int
    BY DEF Column
  <2>2. Floor(Column(c, nodes), nodes, saved) \in Nat /\ Above(c, nodes, saved) \in Nat
    BY FloorType, AboveType
  <2> QED
    BY <2>1, <2>2 DEF NewPlace, Position
<1> QED
  BY <1>1 DEF layout, Places

-----------------------------------------------------------------------------
(* No box is placed over another.                                          *)

\* The floor of a column is at or below the bottom of each of its saved boxes.
LEMMA FloorIsBelow ==
  ASSUME NEW nodes \in SUBSET Ports, NEW saved, Places(saved), NEW col,
         NEW d \in InColumn(col, nodes), d \in DOMAIN saved
  PROVE  saved[d][2] + Height(d, nodes) <= Floor(col, nodes, saved)
<1> DEFINE bottom(c) == saved[c][2] + Height(c, nodes)
           span(c) == 0 .. saved[c][2] + Height(c, nodes) - 1
           rows == UNION {span(c) : c \in InColumn(col, nodes) \cap DOMAIN saved}
<1>0. saved[d][2] \in Int /\ Height(d, nodes) \in Int
  BY HeightType, FS_CardinalityType, PortsAssumption DEF PortsAssumption, Places, Position
<1>1. bottom(d) \in Int /\ Floor(col, nodes, saved) \in Nat
  BY <1>0, FloorType
<1>2. IsFiniteSet(rows) /\ Floor(col, nodes, saved) = Cardinality(rows)
  BY FloorFinite, Zenon DEF Floor
<1>3. 0 .. bottom(d) - 1 \in SUBSET rows
  <2>1. span(d) = 0 .. bottom(d) - 1
    BY <1>0
  <2> HIDE DEF span
  <2>2. span(d) \subseteq rows
    OBVIOUS
  <2> QED
    BY <2>1, <2>2
<1> HIDE DEF bottom, rows
<1>4. Cardinality(0 .. bottom(d) - 1) <= Floor(col, nodes, saved)
  BY <1>2, <1>3, FS_Subset
<1>5. Cardinality(0 .. bottom(d) - 1) = IF 0 > bottom(d) - 1 THEN 0 ELSE bottom(d) - 1 - 0 + 1
  <2>1. 0 \in Int /\ bottom(d) - 1 \in Int
    BY <1>1
  <2> QED
    BY <2>1, FS_Interval
<1>6. bottom(d) <= Floor(col, nodes, saved)
  BY <1>1, <1>4, <1>5
<1> QED
  BY <1>6 DEF bottom

\* The rows of one box are as many as it is high.
LEMMA RowsOfOne ==
  ASSUME NEW d, NEW n \in Nat
  PROVE  IsFiniteSet({d} \X (1 .. n)) /\ Cardinality({d} \X (1 .. n)) = n
<1>1. IsFiniteSet({d}) /\ Cardinality({d}) = 1
  BY FS_Singleton
<1>2. IsFiniteSet(1 .. n) /\ Cardinality(1 .. n) = n
  BY FS_Interval
<1>3. /\ IsFiniteSet({d} \X (1 .. n))
      /\ Cardinality({d} \X (1 .. n)) = Cardinality({d}) * Cardinality(1 .. n)
  BY <1>1, <1>2, FS_Product, Zenon
<1>4. 1 * n = n
  OBVIOUS
<1> QED
  BY <1>1, <1>2, <1>3, <1>4, Zenon

\* Of two new boxes of a column the later one begins below the other.
LEMMA AboveIsBelow ==
  ASSUME NEW nodes \in SUBSET Ports, NEW saved, NEW c, NEW d,
         d \in InColumn(Column(c, nodes), nodes), d \notin DOMAIN saved, rank[d] < rank[c],
         c \in Clients
  PROVE  Above(d, nodes, saved) + Height(d, nodes) <= Above(c, nodes, saved)
<1> DEFINE before(e) == {f \in InColumn(Column(e, nodes), nodes) \ DOMAIN saved : rank[f] < rank[e]}
           rows(e) == UNION {{f} \X (1 .. Height(f, nodes)) : f \in before(e)}
           own == {d} \X (1 .. Height(d, nodes))
<1>1. Column(d, nodes) = Column(c, nodes) /\ d \in Clients
  BY ShownType DEF InColumn
<1>2. rank[c] \in Nat /\ rank[d] \in Nat /\ \A e \in Clients : rank[e] \in Nat
  BY <1>1, PortsAssumption DEF PortsAssumption
<1>3. before(d) \subseteq before(c) /\ d \in before(c) /\ d \notin before(d)
  <2>1. \A f \in before(d) : f \in Clients
    BY ShownType DEF InColumn
  <2> QED
    BY <1>1, <1>2, <2>1
<1>4. Height(d, nodes) \in Nat
  BY HeightType
<1>5. rows(d) \cup own \in SUBSET rows(c) /\ rows(d) \cap own = {}
  <2>1. rows(d) \subseteq rows(c)
    BY <1>3
  <2>2. own \subseteq rows(c)
    BY <1>3
  <2>3. \A x \in rows(d) : x[1] \in before(d)
    OBVIOUS
  <2>4. \A x \in own : x[1] = d
    OBVIOUS
  <2> QED
    BY <1>3, <2>1, <2>2, <2>3, <2>4
<1>6. /\ IsFiniteSet(rows(d)) /\ Above(d, nodes, saved) = Cardinality(rows(d))
      /\ IsFiniteSet(rows(c)) /\ Above(c, nodes, saved) = Cardinality(rows(c))
  BY AboveFinite, Zenon DEF Above
<1>7. IsFiniteSet(own) /\ Cardinality(own) = Height(d, nodes)
  BY <1>4, RowsOfOne, Zenon
<1> HIDE DEF rows, own
<1>8. Cardinality(rows(d) \cup own) = Cardinality(rows(d)) + Cardinality(own)
  <2>1. Cardinality(rows(d) \cap own) = 0
    BY <1>5, FS_EmptySet
  <2>2. Cardinality(rows(d) \cup own)
          = Cardinality(rows(d)) + Cardinality(own) - Cardinality(rows(d) \cap own)
    BY <1>6, <1>7, FS_Union
  <2>3. Cardinality(rows(d)) \in Nat
    BY <1>6, FS_CardinalityType
  <2> QED
    BY <1>4, <1>7, <2>1, <2>2, <2>3
<1>9. Cardinality(rows(d) \cup own) <= Cardinality(rows(c))
  BY <1>5, <1>6, FS_Subset
<1> QED
  BY <1>6, <1>7, <1>8, <1>9

\* A new box shares no row with another box of its column.
LEMMA NewBoxesClear ==
  ASSUME NEW nodes \in SUBSET Ports, NEW saved, Places(saved),
         NEW c \in Shown(nodes), c \notin DOMAIN saved,
         NEW d \in Shown(nodes), c /= d, Column(c, nodes) = Column(d, nodes)
  PROVE  LET at == layout(nodes, saved)
         IN  \/ at[d][2] + Height(d, nodes) <= at[c][2]
             \/ at[c][2] + Height(c, nodes) <= at[d][2]
<1> DEFINE at == layout(nodes, saved)
           col == Column(c, nodes)
           floor == Floor(col, nodes, saved)
<1>1. c \in InColumn(col, nodes) /\ d \in InColumn(col, nodes) /\ c \in Clients /\ d \in Clients
  BY ShownType DEF InColumn
<1>2. /\ floor \in Nat /\ Above(c, nodes, saved) \in Nat /\ Above(d, nodes, saved) \in Nat
      /\ Height(c, nodes) \in Nat /\ Height(d, nodes) \in Nat
  BY FloorType, AboveType, HeightType
<1>3. at[c][2] = floor + Above(c, nodes, saved)
  BY DEF layout, NewPlace
<1>4. CASE d \in DOMAIN saved
  <2>1. at[d] = saved[d] /\ saved[d][2] \in Int
    BY <1>4 DEF layout, Places, Position
  <2>2. saved[d][2] + Height(d, nodes) <= floor
    BY <1>1, <1>4, FloorIsBelow
  <2> HIDE DEF at, floor
  <2> QED
    BY <1>2, <1>3, <2>1, <2>2 DEF at
<1>5. CASE d \notin DOMAIN saved
  <2>1. at[d][2] = floor + Above(d, nodes, saved)
    BY <1>5 DEF layout, NewPlace
  <2>2. rank[c] < rank[d] \/ rank[d] < rank[c]
    <3>1. rank[c] \in Nat /\ rank[d] \in Nat /\ rank[c] /= rank[d]
      BY <1>1, PortsAssumption DEF PortsAssumption
    <3> QED
      BY <3>1
  <2>3. CASE rank[d] < rank[c]
    <3>1. Above(d, nodes, saved) + Height(d, nodes) <= Above(c, nodes, saved)
      BY <1>1, <1>5, <2>3, AboveIsBelow
    <3> HIDE DEF at, floor
    <3> QED
      BY <1>2, <1>3, <2>1, <3>1 DEF at
  <2>4. CASE rank[c] < rank[d]
    <3>1. Above(c, nodes, saved) + Height(c, nodes) <= Above(d, nodes, saved)
      BY <1>1, <2>4, AboveIsBelow
    <3> HIDE DEF at, floor
    <3> QED
      BY <1>2, <1>3, <2>1, <3>1 DEF at
  <2> QED
    BY <2>2, <2>3, <2>4
<1> QED
  BY <1>4, <1>5

-----------------------------------------------------------------------------
(* Preservation.                                                           *)

\* An empty canvas with nothing pending is consistent.
THEOREM InitIInv == Init => IInv
<1> SUFFICES ASSUME Init PROVE IInv
  OBVIOUS
<1>1. DOMAIN boxes = {} /\ DOMAIN mSavedPositions = {}
  BY DEF Init
<1>2. mConnections \in Seq(Cable) /\ DOMAIN mConnections = {}
  BY DEF Init
<1>3. moving = NoMove /\ NoMove.client = Nobody /\ NoMove \in [client : Clients \cup {Nobody}, offset : Position, at : Position]
  BY DEF Init, NoMove, Position
<1>4. mDragSource = NoPort /\ mPressTarget = "None"
  BY DEF Init
<1>5. TypeOK
  BY <1>1, <1>2, <1>3, <1>4 DEF Init, TypeOK
<1>6. Gesture /\ MovedHasPlace /\ UpToDate /\ CablesAreWires
  BY <1>2, <1>3, <1>4 DEF Init, Gesture, MovedHasPlace, UpToDate, CablesAreWires
<1>7. BoxesAreClients
  BY <1>1 DEF Init, BoxesAreClients, Shown
<1> QED
  BY <1>5, <1>6, <1>7 DEF IInv

\* The cables on the canvas are connections once nothing is pending.
Wired(cables, has) == \A i \in DOMAIN cables : <<cables[i].src, cables[i].dst>> \in has

\* The server may gain or lose ports and connections: a refresh is pending.
LEMMA ServerStep == IInv /\ (PortChange \/ WireChange) => IInv'
<1> SUFFICES ASSUME IInv, PortChange \/ WireChange PROVE IInv'
  OBVIOUS
<1>1. /\ pending' = TRUE
      /\ UNCHANGED <<mNodes, boxes, mSavedPositions, mConnections, gesture, held>>
  BY DEF PortChange, WireChange, sceneVars
<1>2. exists' \subseteq Ports /\ wires' \subseteq Outs \X Ins
  BY DEF IInv, TypeOK, PortChange, WireChange
<1>3. TypeOK'
  BY <1>1, <1>2 DEF IInv, TypeOK, gesture
<1> QED
  BY <1>1, <1>3
  DEF IInv, gesture, Gesture, MovedHasPlace, LastSeen, UpToDate, BoxesAreClients, CablesAreWires

\* A rebuild shows the server's ports and connections, each box at its saved
\* position; a box that is moved needs one.  A pill may be released by it.
LEMMA RebuildStep ==
  ASSUME IInv, NEW saved,
         \/ UNCHANGED <<mPressTarget, held>>
         \/ mPressTarget' = "None" /\ held' = held \ {1} /\ moving.client = Nobody /\ mDragSource = NoPort,
         Places(saved), DOMAIN saved \subseteq Clients, Rebuild(saved),
         moving.client /= Nobody => /\ moving.client \in DOMAIN saved
                                    /\ saved[moving.client] = LastSeen[moving.client]
  PROVE  IInv'
<1> DEFINE cables == {[src |-> w[1], dst |-> w[2]] : w \in wires}
<1>1. /\ pending' = FALSE /\ mNodes' = exists /\ mSavedPositions' = saved
      /\ boxes' = layout(exists, saved)
      /\ UNCHANGED <<exists, wires, moving, mDragSource>>
  BY DEF Rebuild, serverVars
<1>2. exists \in SUBSET Ports
  BY DEF IInv, TypeOK
<1>3. /\ DOMAIN boxes' = Shown(exists) /\ DOMAIN boxes' \subseteq Clients
      /\ Places(boxes')
      /\ \A c \in DOMAIN saved : c \in DOMAIN boxes' => boxes'[c] = saved[c]
  BY <1>1, <1>2, LayoutType, ShownType
<1>4. /\ cables \subseteq Cable
      /\ \A k \in cables : <<k.src, k.dst>> \in wires
  <2>1. \A w \in wires : w = <<w[1], w[2]>> /\ w[1] \in Outs /\ w[2] \in Ins
    BY DEF IInv, TypeOK
  <2>2. ASSUME NEW k \in cables PROVE k \in Cable /\ <<k.src, k.dst>> \in wires
    <3>1. PICK w \in wires : k = [src |-> w[1], dst |-> w[2]]
      OBVIOUS
    <3>2. k \in Cable
      BY <2>1, <3>1 DEF Cable
    <3>3. k.src = w[1] /\ k.dst = w[2]
      BY <3>1
    <3>4. <<k.src, k.dst>> = w
      BY <2>1, <3>3, Zenon
    <3> QED
      BY <3>2, <3>4
  <2> QED
    BY <2>2
<1>5. mConnections' \in [1 .. Cardinality(cables) -> cables]
  BY DEF Rebuild, Rescanned, SetToSeqs
<1>6. IsFiniteSet(cables)
  <2>1. IsFiniteSet(Ports)
    BY PortsAssumption DEF PortsAssumption
  <2>2. IsFiniteSet(wires)
    <3>1. wires \in SUBSET (Ports \X Ports)
      BY DEF IInv, TypeOK, Ports
    <3>2. IsFiniteSet(Ports \X Ports)
      BY <2>1, FS_Product
    <3> QED
      BY <3>1, <3>2, FS_Subset
  <2>3. [w \in wires |-> [src |-> w[1], dst |-> w[2]]] \in Surjection(wires, cables)
    BY DEF Surjection
  <2> QED
    BY <2>2, <2>3, FS_Surjection
<1>7. Cardinality(cables) \in Nat
  BY <1>6, FS_CardinalityType
<1>8. DOMAIN mConnections' = 1 .. Cardinality(cables) /\ mConnections' \in Seq(Cable)
  <2> HIDE DEF cables
  <2> QED
    BY <1>4, <1>5, <1>7
<1>9. CablesAreWires'
  <2>1. \A i \in DOMAIN mConnections' : mConnections'[i] \in cables
    BY <1>5, <1>8
  <2> HIDE DEF cables
  <2> QED
    BY <1>1, <1>4, <2>1 DEF CablesAreWires
<1>10. mPressTarget' \in Tools \cup {"None"} /\ held' \subseteq {1, 3}
  BY DEF IInv, TypeOK
<1>11. TypeOK'
  BY <1>1, <1>3, <1>8, <1>10 DEF IInv, TypeOK, Places
<1>12. Gesture'
  BY <1>1 DEF IInv, Gesture
<1>13. MovedHasPlace'
  BY <1>1, <1>3 DEF IInv, MovedHasPlace, LastSeen
<1>14. UpToDate' /\ BoxesAreClients'
  BY <1>1, <1>3 DEF UpToDate, BoxesAreClients
<1> QED
  BY <1>9, <1>11, <1>12, <1>13, <1>14 DEF IInv

\* Where clients were last seen covers the saved positions, and is typed.
LEMMA SavePositionsType ==
  ASSUME IInv
  PROVE  /\ SavePositions = LastSeen
         /\ Places(SavePositions) /\ DOMAIN SavePositions \subseteq Clients
  BY DEF IInv, TypeOK, Places, SavePositions, LastSeen

\* Both refreshes rebuild with positions that serve a box in the hand.
LEMMA RefreshStep == IInv /\ (Refresh \/ ToolRefresh) => IInv'
<1>1. ASSUME IInv, Refresh PROVE IInv'
  <2>1. moving.client /= Nobody => moving.client \in DOMAIN SavePositions
    BY <1>1, SavePositionsType DEF IInv, MovedHasPlace
  <2> QED
    BY <1>1, <2>1, SavePositionsType, RebuildStep DEF Refresh
<1>2. ASSUME IInv, ToolRefresh PROVE IInv'
  <2> DEFINE none == [c \in {} |-> <<0, 0>>]
  <2>1. DOMAIN none = {}
    OBVIOUS
  <2>2. /\ moving.client = Nobody /\ mDragSource = NoPort
        /\ mPressTarget' = "None" /\ held' = held \ {1}
    BY <1>2, PortsAssumption DEF PortsAssumption, IInv, Gesture, ToolRefresh, ReleasePill
  <2>3. Places(none) /\ DOMAIN none \subseteq Clients
    BY <2>1 DEF Places
  <2>4. Rebuild(none)
    BY <1>2 DEF ToolRefresh
  <2> HIDE DEF none
  <2> QED
    BY <1>2, <2>2, <2>3, <2>4, RebuildStep
<1> QED
  BY <1>1, <1>2

\* Pressing and releasing begin and end a gesture; moving the pointer takes the
\* box in hand along.
LEMMA PressStep ==
  IInv /\ (PressPill \/ OtherTool \/ PressPort \/ PressBox \/ PressGround \/ PressElsewhere) => IInv'
<1> SUFFICES ASSUME IInv, PressPill \/ OtherTool \/ PressPort \/ PressBox \/ PressGround \/ PressElsewhere
             PROVE  IInv'
  OBVIOUS
<1>1. /\ UNCHANGED <<exists, wires, pending, mNodes, boxes, mSavedPositions, mConnections>>
      /\ held' \subseteq {1, 3}
  BY DEF IInv, TypeOK, PressPill, OtherTool, ReleasePill, PressPort, PressBox, PressGround,
         PressElsewhere, serverVars, sceneVars
<1>2. UpToDate' /\ BoxesAreClients' /\ CablesAreWires' /\ LastSeen' = LastSeen
  BY <1>1 DEF IInv, UpToDate, BoxesAreClients, CablesAreWires, LastSeen
<1>3. CASE PressGround \/ PressElsewhere
  <2>1. /\ UNCHANGED <<moving, mDragSource>> /\ held \subseteq held'
        /\ mPressTarget' \in {mPressTarget, "None"}
    BY <1>3 DEF PressGround, PressElsewhere, gesture
  <2>2. TypeOK' /\ Gesture' /\ MovedHasPlace'
    BY <1>1, <1>2, <2>1 DEF IInv, TypeOK, Gesture, MovedHasPlace
  <2> QED
    BY <1>2, <2>2 DEF IInv
<1>4. CASE PressPort
  <2>1. 1 \in held' /\ moving.client = Nobody /\ moving' = moving /\ moving = NoMove
    BY <1>4 DEF IInv, Gesture, PressPort
  <2>2. mDragSource' \in Outs /\ mPressTarget' = "None"
    BY <1>4 DEF PressPort
  <2>3. TypeOK'
    BY <1>1, <2>1, <2>2 DEF IInv, TypeOK
  <2>4. Gesture' /\ MovedHasPlace'
    BY <2>1, <2>2 DEF Gesture, MovedHasPlace
  <2> QED
    BY <1>2, <2>3, <2>4 DEF IInv
<1>5. CASE PressBox
  <2>1. /\ 1 \in held' /\ mPressTarget' = "None"
        /\ mDragSource = NoPort /\ mDragSource' = mDragSource
    BY <1>5 DEF IInv, Gesture, PressBox
  <2>2. PICK c \in DOMAIN boxes, row \in Int :
          moving' = [client |-> c, offset |-> <<0, row>>, at |-> <<boxes[c][1], boxes[c][2] + row>>]
    BY <1>5 DEF PressBox
  <2>3. c \in Clients /\ row \in Int /\ boxes[c] \in Int \X Int
    BY DEF IInv, TypeOK, Position
  <2>4. boxes[c][1] \in Int /\ boxes[c][2] \in Int /\ boxes[c] = <<boxes[c][1], boxes[c][2]>>
    BY <2>3
  <2>5. Minus(moving'.at, moving'.offset) = boxes[c]
    <3>1. moving'.at = <<boxes[c][1], boxes[c][2] + row>> /\ moving'.offset = <<0, row>>
      BY <2>2
    <3>2. /\ moving'.at[1] = boxes[c][1] /\ moving'.at[2] = boxes[c][2] + row
          /\ moving'.offset[1] = 0 /\ moving'.offset[2] = row
      BY <3>1
    <3>3. moving'.at[1] - moving'.offset[1] = boxes[c][1] /\ moving'.at[2] - moving'.offset[2] = boxes[c][2]
      BY <2>3, <2>4, <3>2
    <3> QED
      BY <2>4, <3>3, Zenon DEF Minus
  <2>6. moving' \in [client : Clients \cup {Nobody}, offset : Position, at : Position]
    BY <2>2, <2>3, <2>4 DEF Position
  <2>7. TypeOK'
    BY <1>1, <2>1, <2>6 DEF IInv, TypeOK
  <2>8. Gesture'
    BY <2>1, <2>2, <2>3, PortsAssumption DEF PortsAssumption, Gesture
  <2>9. MovedHasPlace'
    BY <1>2, <2>2, <2>5 DEF MovedHasPlace, LastSeen
  <2> QED
    BY <1>2, <2>7, <2>8, <2>9 DEF IInv
<1>6. CASE PressPill \/ OtherTool
  <2>1. /\ UNCHANGED <<moving, mDragSource>>
        /\ moving.client = Nobody /\ mDragSource = NoPort
        /\ mPressTarget' \in Tools \cup {"None"} /\ (mPressTarget' /= "None" => 1 \in held')
    BY <1>6, PortsAssumption
    DEF PortsAssumption, IInv, Gesture, PressPill, OtherTool, ReleasePill
  <2>2. TypeOK' /\ Gesture' /\ MovedHasPlace'
    BY <1>1, <2>1 DEF IInv, TypeOK, Gesture, MovedHasPlace
  <2> QED
    BY <1>2, <2>2 DEF IInv
<1> QED
  BY <1>3, <1>4, <1>5, <1>6

\* Erasing a cable leaves cables of connections, or asks for a refresh.
LEMMA PressCableStep == IInv /\ PressCable => IInv'
<1> SUFFICES ASSUME IInv, PressCable PROVE IInv'
  OBVIOUS
<1>1. /\ UNCHANGED <<exists, mNodes, boxes, mSavedPositions, moving, mDragSource, mPressTarget>>
      /\ held' \subseteq {1, 3} /\ held' = held \cup {3}
  BY DEF IInv, TypeOK, PressCable, sceneVars, gesture
<1>2. PICK i \in DOMAIN mConnections :
        /\ mConnections' = RemoveAt(mConnections, i)
        /\ \/ /\ wires' = wires \ {<<mConnections[i].src, mConnections[i].dst>>}
              /\ pending' = (pending \/ <<mConnections[i].src, mConnections[i].dst>> \in wires)
           \/ UNCHANGED <<wires, pending>>
  BY DEF PressCable
<1>3. wires' \subseteq wires /\ (~pending' => ~pending /\ wires' = wires)
  <2>1. wires' \subseteq wires
    BY <1>2
  <2>2. ASSUME ~pending' PROVE ~pending /\ wires' = wires
    <3>1. CASE UNCHANGED <<wires, pending>>
      BY <2>2, <3>1
    <3>2. CASE /\ wires' = wires \ {<<mConnections[i].src, mConnections[i].dst>>}
               /\ pending' = (pending \/ <<mConnections[i].src, mConnections[i].dst>> \in wires)
      <4>1. ~pending /\ <<mConnections[i].src, mConnections[i].dst>> \notin wires
        BY <2>2, <3>2, Zenon
      <4> QED
        BY <3>2, <4>1
    <3> QED
      BY <1>2, <3>1, <3>2
  <2> QED
    BY <2>1, <2>2
<1>4. pending' \in BOOLEAN
  BY <1>2, Zenon DEF IInv, TypeOK
<1>5. mConnections \in Seq(Cable) /\ i \in 1 .. Len(mConnections) /\ Len(mConnections) \in Nat
  BY <1>2, LenProperties DEF IInv, TypeOK
<1> DEFINE front == SubSeq(mConnections, 1, i - 1)
           back  == SubSeq(mConnections, i + 1, Len(mConnections))
<1>6. /\ front \in Seq(Cable) /\ Len(front) = i - 1
      /\ \A k \in 1 .. i - 1 : front[k] = mConnections[k]
  BY <1>5, SubSeqProperties, ElementOfSeq
<1>7. /\ back \in Seq(Cable) /\ Len(back) = Len(mConnections) - i
      /\ \A k \in 1 .. Len(mConnections) - i : back[k] = mConnections[i + k]
  BY <1>5, SubSeqProperties, ElementOfSeq
<1> HIDE DEF front, back
<1>8. /\ front \o back \in Seq(Cable)
      /\ Len(front \o back) = Len(mConnections) - 1
      /\ \A k \in 1 .. Len(mConnections) - 1 :
           \E j \in DOMAIN mConnections : (front \o back)[k] = mConnections[j]
  <2>1. /\ front \o back \in Seq(Cable)
        /\ Len(front \o back) = Len(mConnections) - 1
        /\ \A k \in 1 .. Len(mConnections) - 1 :
             (front \o back)[k] = IF k <= i - 1 THEN front[k] ELSE back[k - (i - 1)]
    <3>1. /\ front \o back \in Seq(Cable)
          /\ Len(front \o back) = Len(front) + Len(back)
          /\ \A k \in 1 .. Len(front) + Len(back) :
               (front \o back)[k] = IF k <= Len(front) THEN front[k] ELSE back[k - Len(front)]
      BY <1>6, <1>7, ConcatProperties, Zenon
    <3>2. Len(front) + Len(back) = Len(mConnections) - 1
      BY <1>5, <1>6, <1>7
    <3> QED
      BY <1>6, <3>1, <3>2
  <2>2. DOMAIN mConnections = 1 .. Len(mConnections)
    BY <1>5
  <2>3. ASSUME NEW k \in 1 .. Len(mConnections) - 1
        PROVE  \E j \in DOMAIN mConnections : (front \o back)[k] = mConnections[j]
    <3>1. CASE k <= i - 1
      <4>1. k \in 1 .. i - 1 /\ k \in 1 .. Len(mConnections)
        BY <1>5, <3>1
      <4>2. (front \o back)[k] = front[k]
        BY <2>1, <3>1
      <4>3. front[k] = mConnections[k]
        BY <1>6, <4>1, Zenon
      <4> QED
        BY <2>2, <4>1, <4>2, <4>3
    <3>2. CASE k > i - 1
      <4>1. /\ Len(mConnections) \in Nat /\ i \in 1 .. Len(mConnections)
            /\ k \in 1 .. Len(mConnections) - 1 /\ k > i - 1
        BY <1>5, <3>2
      <4>2. /\ k - (i - 1) \in 1 .. Len(mConnections) - i /\ ~(k <= i - 1)
            /\ i + (k - (i - 1)) = k + 1 /\ k + 1 \in 1 .. Len(mConnections)
        BY <4>1
      <4>3. (front \o back)[k] = back[k - (i - 1)]
        BY <2>1, <4>2
      <4>4. back[k - (i - 1)] = mConnections[i + (k - (i - 1))]
        BY <1>7, <4>2
      <4> QED
        BY <2>2, <4>2, <4>3, <4>4
    <3>3. k <= i - 1 \/ k > i - 1
      BY <1>5
    <3> QED
      BY <3>1, <3>2, <3>3, Zenon
  <2> QED
    BY <2>1, <2>3
<1>9. mConnections' = front \o back
  BY <1>2 DEF RemoveAt, front, back
<1>10. /\ mConnections' \in Seq(Cable)
       /\ \A k \in DOMAIN mConnections' :
            \E j \in DOMAIN mConnections : mConnections'[k] = mConnections[j]
  BY <1>8, <1>9, LenProperties
<1>11. TypeOK'
  BY <1>1, <1>3, <1>4, <1>10 DEF IInv, TypeOK
<1>12. CablesAreWires'
  BY <1>3, <1>10 DEF IInv, CablesAreWires
<1>13. UpToDate'
  BY <1>1, <1>3 DEF IInv, UpToDate
<1>14. Gesture' /\ MovedHasPlace' /\ BoxesAreClients'
  BY <1>1 DEF IInv, Gesture, MovedHasPlace, BoxesAreClients, LastSeen
<1> QED
  BY <1>11, <1>12, <1>13, <1>14 DEF IInv

\* A cable that is added is a connection by then.
LEMMA ReleaseCableStep == IInv /\ ReleaseCable => IInv'
<1> SUFFICES ASSUME IInv, ReleaseCable PROVE IInv'
  OBVIOUS
<1>1. /\ UNCHANGED <<exists, mNodes, boxes, mSavedPositions, moving>>
      /\ held' = held \ {1} /\ mDragSource' = NoPort /\ mPressTarget' = "None"
      /\ mDragSource /= NoPort
  BY DEF ReleaseCable, sceneVars
<1>2. moving.client = Nobody
  BY <1>1 DEF IInv, Gesture
<1>4. Gesture' /\ MovedHasPlace' /\ BoxesAreClients'
  BY <1>1, <1>2 DEF IInv, Gesture, MovedHasPlace, BoxesAreClients
<1>5. CASE UNCHANGED <<wires, pending, mConnections>>
  <2>1. TypeOK'
    BY <1>1, <1>5 DEF IInv, TypeOK
  <2>2. UpToDate' /\ CablesAreWires'
    BY <1>1, <1>5 DEF IInv, UpToDate, CablesAreWires
  <2> QED
    BY <1>4, <2>1, <2>2 DEF IInv
<1>6. CASE ConnectNodes
  <2>1. PICK dst \in mNodes \cap Ins \cap exists :
          /\ wires' = wires \cup {<<mDragSource, dst>>}
          /\ pending' = (pending \/ <<mDragSource, dst>> \notin wires)
          /\ mConnections' = Append(mConnections, [src |-> mDragSource, dst |-> dst])
    BY <1>6 DEF ConnectNodes
  <2> DEFINE new == [src |-> mDragSource, dst |-> dst]
  <2>2. pending' \in BOOLEAN /\ (~pending' => ~pending)
    BY <2>1, Zenon
  <2>3. mDragSource \in Outs
    BY <1>1 DEF IInv, TypeOK
  <2>4. new \in Cable /\ new.src = mDragSource /\ new.dst = dst
    BY <2>3 DEF Cable
  <2>5. wires' \subseteq Outs \X Ins
    BY <2>1, <2>3 DEF IInv, TypeOK
  <2>6. mConnections \in Seq(Cable) /\ mConnections' = Append(mConnections, new)
    BY <2>1 DEF IInv, TypeOK
  <2> HIDE DEF new
  <2>7. /\ mConnections' \in Seq(Cable)
        /\ \A k \in DOMAIN mConnections' :
             mConnections'[k] = new \/ (\E j \in DOMAIN mConnections : mConnections'[k] = mConnections[j])
    BY <2>4, <2>6
  <2>8. TypeOK'
    BY <1>1, <2>2, <2>5, <2>7 DEF IInv, TypeOK
  <2>9. CablesAreWires'
    <3> SUFFICES ASSUME ~pending', NEW k \in DOMAIN mConnections'
                 PROVE  <<mConnections'[k].src, mConnections'[k].dst>> \in wires'
      BY DEF CablesAreWires
    <3>1. CASE mConnections'[k] = new
      BY <2>1, <2>4, <3>1
    <3>2. ASSUME NEW j \in DOMAIN mConnections, mConnections'[k] = mConnections[j]
          PROVE  <<mConnections'[k].src, mConnections'[k].dst>> \in wires'
      BY <2>1, <2>2, <3>2 DEF IInv, CablesAreWires
    <3> QED
      BY <2>7, <3>1, <3>2
  <2>10. UpToDate'
    BY <1>1, <2>2 DEF IInv, UpToDate
  <2> QED
    BY <1>4, <2>8, <2>9, <2>10 DEF IInv
<1> QED
  BY <1>5, <1>6 DEF ReleaseCable

\* A box that is let go stays, and one that moves goes with the pointer.
LEMMA BoxStep == IInv /\ (Motion \/ \E b \in {1, 3} : Release(b)) => IInv'
<1>1. ASSUME IInv, NEW b \in {1, 3}, Release(b) PROVE IInv'
  <2>1. /\ UNCHANGED <<exists, wires, pending, mNodes, boxes, mSavedPositions, mConnections, mDragSource>>
        /\ held' = held \ {b} /\ moving' = NoMove
        /\ mPressTarget' = IF b = 1 THEN "None" ELSE mPressTarget
        /\ b = 1 => mDragSource = NoPort
    BY <1>1 DEF Release, serverVars, sceneVars
  <2>2. moving' \in [client : Clients \cup {Nobody}, offset : Position, at : Position] /\ moving'.client = Nobody
    BY <2>1 DEF NoMove, Position
  <2>3. TypeOK'
    BY <1>1, <2>1, <2>2 DEF IInv, TypeOK
  <2>4. Gesture' /\ MovedHasPlace'
    BY <1>1, <2>1, <2>2 DEF IInv, Gesture, MovedHasPlace
  <2>5. UpToDate' /\ BoxesAreClients' /\ CablesAreWires'
    BY <1>1, <2>1 DEF IInv, UpToDate, BoxesAreClients, CablesAreWires
  <2> QED
    BY <2>3, <2>4, <2>5 DEF IInv
<1>2. ASSUME IInv, Motion PROVE IInv'
  <2>1. /\ UNCHANGED <<exists, wires, pending, mNodes, mSavedPositions, mConnections, mDragSource, mPressTarget, held>>
        /\ moving.client /= Nobody
    BY <1>2 DEF Motion, serverVars
  <2>2. UpToDate' /\ CablesAreWires'
    BY <1>2, <2>1 DEF IInv, UpToDate, CablesAreWires
  <2>3. CASE moving' = NoMove /\ UNCHANGED boxes
    <3>1. moving' \in [client : Clients \cup {Nobody}, offset : Position, at : Position] /\ moving'.client = Nobody
      BY <2>3 DEF NoMove, Position
    <3>2. TypeOK'
      BY <1>2, <2>1, <2>3, <3>1 DEF IInv, TypeOK
    <3>3. Gesture' /\ MovedHasPlace' /\ BoxesAreClients'
      BY <1>2, <2>1, <2>3, <3>1 DEF IInv, Gesture, MovedHasPlace, BoxesAreClients
    <3> QED
      BY <2>2, <3>2, <3>3 DEF IInv
  <2>4. ASSUME NEW at \in Grid, moving.client \in DOMAIN boxes, MoveTo(at),
               moving' = [moving EXCEPT !.at = at]
        PROVE  IInv'
    <3>1. at \in Int \X Int /\ moving.offset \in Int \X Int /\ moving.client \in Clients
      BY <1>2, <2>4, PortsAssumption DEF PortsAssumption, IInv, TypeOK, Position
    <3>2. Minus(at, moving.offset) \in Position
      BY <3>1 DEF Minus, Position
    <3>3. /\ moving' \in [client : Clients \cup {Nobody}, offset : Position, at : Position]
          /\ moving'.client = moving.client /\ moving'.offset = moving.offset /\ moving'.at = at
      BY <1>2, <2>4, <3>1 DEF IInv, TypeOK, Position
    <3>4. /\ DOMAIN boxes' = DOMAIN boxes
          /\ boxes'[moving.client] = Minus(at, moving.offset)
          /\ \A c \in DOMAIN boxes \ {moving.client} : boxes'[c] = boxes[c]
      BY <2>4 DEF MoveTo
    <3>5. TypeOK'
      BY <1>2, <2>1, <3>2, <3>3, <3>4 DEF IInv, TypeOK
    <3>6. Gesture' /\ BoxesAreClients'
      BY <1>2, <2>1, <3>3, <3>4 DEF IInv, Gesture, BoxesAreClients
    <3>7. MovedHasPlace'
      BY <2>1, <2>4, <3>3, <3>4 DEF MovedHasPlace, LastSeen
    <3> QED
      BY <2>2, <3>5, <3>6, <3>7 DEF IInv
  <2> QED
    BY <1>2, <2>3, <2>4 DEF Motion
<1> QED
  BY <1>1, <1>2

\* The inductive invariant holds in every reachable state.
THEOREM Invariance == Spec => []IInv
<1>1. IInv /\ [Next]_vars => IInv'
  <2> SUFFICES ASSUME IInv, [Next]_vars PROVE IInv'
    OBVIOUS
  <2>1. CASE UNCHANGED vars
    BY <2>1 DEF vars, serverVars, sceneVars, gesture, IInv, TypeOK, Gesture, MovedHasPlace, LastSeen,
       UpToDate, BoxesAreClients, CablesAreWires
  <2> QED
    BY <2>1, ServerStep, RefreshStep, PressStep, PressCableStep, ReleaseCableStep, BoxStep
    DEF Next, Mouse
<1> QED
  BY <1>1, InitIInv, PTL DEF Spec

\* A box in the hand is under the pointer, across any refreshes.
THEOREM MovedBoxFollowsThePointer == Spec => []DragFollows
<1>1. IInv => DragFollows
  BY PortsAssumption DEF PortsAssumption, IInv, TypeOK, MovedHasPlace, LastSeen, DragFollows
<1> QED
  BY <1>1, Invariance, PTL

\* No cable is drawn that the server does not have.
THEOREM NoPhantomCables == Spec => []CablesAreWires
<1>1. IInv => CablesAreWires
  BY DEF IInv
<1> QED
  BY <1>1, Invariance, PTL

-----------------------------------------------------------------------------
(* The arrangement of boxes.                                               *)

\* A rebuild from what was last seen shows boxes without moving any, and disturbs
\* neither the hand nor the toolbar.
LEMMA RefreshShows == IInv /\ Refresh => Arranged!Show
<1> SUFFICES ASSUME IInv, Refresh PROVE Arranged!Show
  OBVIOUS
<1>1. /\ SavePositions = LastSeen /\ Places(SavePositions)
      /\ DOMAIN SavePositions = DOMAIN LastSeen
  BY SavePositionsType
<1>2. exists \in SUBSET Ports
  BY DEF IInv, TypeOK
<1>3. mSavedPositions' = LastSeen /\ boxes' = layout(exists, LastSeen)
  BY <1>1 DEF Refresh, Rebuild
<1>4. /\ DOMAIN boxes' = Shown(exists) /\ DOMAIN boxes' \subseteq Clients
      /\ \A c \in DOMAIN LastSeen : c \in Shown(exists) => boxes'[c] = LastSeen[c]
  BY <1>1, <1>2, <1>3, LayoutType, ShownType
<1>5. /\ DOMAIN LastSeen' = DOMAIN LastSeen \cup DOMAIN boxes'
      /\ \A c \in DOMAIN LastSeen : LastSeen'[c] = LastSeen[c]
  <2>1. LastSeen' = [c \in DOMAIN boxes' \cup DOMAIN mSavedPositions' |->
                       IF c \in DOMAIN boxes' THEN boxes'[c] ELSE mSavedPositions'[c]]
    BY DEF LastSeen
  <2> QED
    BY <1>3, <1>4, <2>1
<1>6. UNCHANGED <<moving, mPressTarget>>
  BY DEF Refresh, Rebuild
<1> QED
  BY <1>4, <1>5, <1>6 DEF Arranged!Show

\* The toolbar's refresh, for which the pill was pressed, starts the arrangement again.
LEMMA ToolRefreshForgets == IInv /\ ToolRefresh => Arranged!Forget
<1> SUFFICES ASSUME IInv, ToolRefresh PROVE Arranged!Forget
  OBVIOUS
<1> DEFINE none == [c \in {} |-> <<0, 0>>]
<1>1. DOMAIN none = {}
  OBVIOUS
<1>2. mSavedPositions' = none /\ boxes' = layout(exists, none)
  BY DEF ToolRefresh, Rebuild
<1>3. exists \in SUBSET Ports /\ Places(none)
  BY <1>1 DEF IInv, TypeOK, Places
<1> HIDE DEF none
<1>4. DOMAIN boxes' \subseteq Clients
  BY <1>2, <1>3, LayoutType, ShownType
<1>5. DOMAIN LastSeen' = DOMAIN boxes'
  BY <1>1, <1>2 DEF LastSeen
<1>6. mPressTarget = "Refresh" /\ mPressTarget' = "None" /\ UNCHANGED moving
  BY DEF ToolRefresh, ReleasePill, Rebuild
<1>7. moving.client = Nobody
  BY <1>6 DEF IInv, Gesture
<1> QED
  BY <1>4, <1>5, <1>6, <1>7 DEF Arranged!Forget

\* A box that is taken hold of is under the pointer already.
LEMMA PressBoxTakes == IInv /\ PressBox => Arranged!Take
<1> SUFFICES ASSUME IInv, PressBox PROVE Arranged!Take
  OBVIOUS
<1>1. moving.client = Nobody /\ mPressTarget /= "Refresh"
  BY DEF PressBox, IInv, Gesture
<1>2. UNCHANGED <<boxes, mSavedPositions>> /\ mPressTarget' = "None"
  BY DEF PressBox, sceneVars
<1>3. PICK c \in DOMAIN boxes : \E row \in 0 .. Height(c, mNodes) - 1 :
        moving' = [client |-> c, offset |-> <<0, row>>,
                   at |-> <<boxes[c][1], boxes[c][2] + row>>]
  BY DEF PressBox
<1>4. PICK row \in 0 .. Height(c, mNodes) - 1 :
        moving' = [client |-> c, offset |-> <<0, row>>,
                   at |-> <<boxes[c][1], boxes[c][2] + row>>]
  BY <1>3
<1>5. boxes[c] \in Position /\ row \in Int
  <2>1. mNodes \subseteq Ports /\ c \in Clients
    BY DEF IInv, TypeOK
  <2>2. Height(c, mNodes) \in Nat
    BY <2>1, HeightType
  <2> QED
    BY <2>2 DEF IInv, TypeOK
<1>6. Arranged!Under(moving') = boxes[c]
  BY <1>4, <1>5 DEF Arranged!Under, Position
<1>7. LastSeen[c] = boxes[c] /\ UNCHANGED LastSeen
  BY <1>2 DEF LastSeen
<1> QED
  BY <1>1, <1>2, <1>4, <1>6, <1>7 DEF Arranged!Take

\* Only the box in the hand moves, and it moves to where the hand is; a hand whose box
\* is gone is emptied.
LEMMA MotionMoves == IInv /\ Motion => Arranged!Move \/ Arranged!LetGo
<1> SUFFICES ASSUME IInv, Motion PROVE Arranged!Move \/ Arranged!LetGo
  OBVIOUS
<1>1. UNCHANGED <<mSavedPositions, mPressTarget>>
  BY DEF Motion
<1>2. ASSUME UNCHANGED boxes, moving' = NoMove PROVE Arranged!LetGo
  BY <1>1, <1>2 DEF Arranged!LetGo, Arranged!Empty, NoMove, LastSeen
<1>3. ASSUME NEW at \in Grid, moving.client \in DOMAIN boxes, MoveTo(at),
             moving' = [moving EXCEPT !.at = at]
      PROVE Arranged!Move
  <2>1. /\ moving'.client = moving.client /\ moving'.offset = moving.offset
        /\ moving'.at = at
    BY <1>3 DEF IInv, TypeOK
  <2>2. boxes' = [boxes EXCEPT ![moving.client] = Arranged!Under(moving')]
    BY <1>3, <2>1 DEF MoveTo, Minus, Arranged!Under
  <2>3. DOMAIN boxes' = DOMAIN boxes
    BY <2>2
  <2>4. LastSeen' = [LastSeen EXCEPT ![moving.client] = Arranged!Under(moving')]
    BY <1>1, <1>3, <2>2, <2>3 DEF LastSeen
  <2> QED
    BY <1>1, <1>3, <2>1, <2>3, <2>4 DEF Arranged!Move
<1> QED
  BY <1>2, <1>3 DEF Motion

\* The other events of the mouse move nothing.
LEMMA OthersLeaveBoxes ==
  ASSUME IInv,
         \/ PressPill \/ OtherTool \/ PressPort \/ PressGround \/ PressCable \/ PressElsewhere
         \/ ReleaseCable \/ \E b \in {1, 3} : Release(b)
  PROVE  Arranged!LetGo \/ Arranged!Press \/ UNCHANGED Arranged!vars
<1>1. UNCHANGED <<boxes, mSavedPositions>>
  BY DEF PressPill, OtherTool, PressPort, PressGround, PressCable, PressElsewhere, ReleaseCable,
         Release, sceneVars
<1>2. UNCHANGED <<DOMAIN boxes, LastSeen>>
  BY <1>1 DEF LastSeen
<1>3. ASSUME UNCHANGED moving PROVE Arranged!Press \/ UNCHANGED Arranged!vars
  BY <1>2, <1>3, Zenon DEF Arranged!Press, Arranged!vars
<1>4. ASSUME NEW b \in {1, 3}, Release(b) PROVE Arranged!LetGo \/ Arranged!Press
  <2>1. moving' = NoMove
    BY <1>4 DEF Release
  <2>2. CASE UNCHANGED (mPressTarget = "Refresh")
    BY <1>2, <2>1, <2>2, Zenon DEF Arranged!LetGo, Arranged!Empty, NoMove
  <2>3. CASE ~UNCHANGED (mPressTarget = "Refresh")
    <3>1. mPressTarget = "Refresh"
      BY <1>4, <2>3 DEF Release
    <3>2. UNCHANGED moving
      BY <2>1, <3>1 DEF IInv, Gesture, NoMove
    <3> QED
      BY <1>2, <2>3, <3>2, Zenon DEF Arranged!Press
  <2> QED
    BY <2>2, <2>3
<1> QED
  BY <1>3, <1>4
  DEF PressPill, OtherTool, PressPort, PressGround, PressCable, PressElsewhere, ReleaseCable,
      gesture

\* Boxes stay where they were last seen, a refresh of the server's moving none; they move
\* only in the hand that holds them, and their places are forgotten only by the Refresh
\* pill.
THEOREM ArrangementKept == Spec => Arrangement
<1>1. Init => Arranged!Init
  <2> SUFFICES ASSUME Init PROVE Arranged!Init
    OBVIOUS
  <2>1. DOMAIN boxes = {} /\ DOMAIN mSavedPositions = {}
    BY DEF Init
  <2>2. LastSeen = [c \in {} |-> <<0, 0>>]
    BY <2>1 DEF LastSeen
  <2>3. moving = Arranged!Empty /\ mPressTarget /= "Refresh"
    BY DEF Init, NoMove, Arranged!Empty
  <2> QED
    BY <2>1, <2>2, <2>3 DEF Arranged!Init
<1>2. IInv /\ [Next]_vars => [Arranged!Next]_Arranged!vars
  <2> SUFFICES ASSUME IInv, [Next]_vars PROVE [Arranged!Next]_Arranged!vars
    OBVIOUS
  <2>1. CASE Refresh \/ ToolRefresh
    BY <2>1, RefreshShows, ToolRefreshForgets DEF Arranged!Next
  <2>2. CASE PressBox \/ Motion
    BY <2>2, PressBoxTakes, MotionMoves DEF Arranged!Next
  <2>3. CASE \/ PressPill \/ OtherTool \/ PressPort \/ PressGround \/ PressCable
             \/ PressElsewhere \/ ReleaseCable \/ \E b \in {1, 3} : Release(b)
    BY <2>3, OthersLeaveBoxes DEF Arranged!Next
  <2>4. CASE PortChange \/ WireChange \/ UNCHANGED vars
    BY <2>4 DEF PortChange, WireChange, vars, sceneVars, gesture, Arranged!vars, LastSeen
  <2> QED
    BY <2>1, <2>2, <2>3, <2>4 DEF Next, Mouse
<1> QED
  BY <1>1, <1>2, Invariance, PTL DEF Spec, Arrangement, Arranged!Spec

-----------------------------------------------------------------------------
(* Where new boxes go.                                                     *)

\* A box that is placed for the first time covers no other of its column, wherever the
\* user has put those, and however many are new with it.
THEOREM NewBoxesStack == Spec => ColumnsStack
<1>1. ASSUME IInv, Refresh \/ ToolRefresh,
             NEW c \in DOMAIN boxes', NEW d \in DOMAIN boxes',
             c \notin DOMAIN mSavedPositions', c /= d, Column(c, mNodes') = Column(d, mNodes')
      PROVE  ~SharedRow(c, d)'
  <2> DEFINE none == [e \in {} |-> <<0, 0>>]
  <2>1. PICK saved \in {SavePositions, none} : Rebuild(saved)
    BY <1>1 DEF Refresh, ToolRefresh
  <2>2. Places(saved)
    BY <1>1, SavePositionsType DEF Places
  <2>3. exists \in SUBSET Ports
    BY <1>1 DEF IInv, TypeOK
  <2>4. mNodes' = exists /\ mSavedPositions' = saved /\ boxes' = layout(exists, saved)
    BY <2>1 DEF Rebuild
  <2>5. DOMAIN boxes' = Shown(exists) /\ Places(boxes')
    BY <2>2, <2>3, <2>4, LayoutType
  <2>6. \/ boxes'[d][2] + Height(d, mNodes') <= boxes'[c][2]
        \/ boxes'[c][2] + Height(c, mNodes') <= boxes'[d][2]
    BY <1>1, <2>2, <2>3, <2>4, <2>5, NewBoxesClear
  <2>7. /\ boxes'[c][2] \in Int /\ boxes'[d][2] \in Int
        /\ Height(c, mNodes') \in Nat /\ Height(d, mNodes') \in Nat
    BY <2>3, <2>4, <2>5, HeightType DEF Places, Position
  <2>8. SharedRow(c, d)' <=> /\ boxes'[c][2] < boxes'[d][2] + Height(d, mNodes')
                             /\ boxes'[d][2] < boxes'[c][2] + Height(c, mNodes')
    BY DEF SharedRow
  <2> QED
    BY <2>6, <2>7, <2>8
<1>2. IInv /\ [Next]_vars =>
        (Refresh \/ ToolRefresh =>
           \A c, d \in DOMAIN boxes' :
             c \notin DOMAIN mSavedPositions' /\ c /= d /\ Column(c, mNodes') = Column(d, mNodes')
               => ~SharedRow(c, d)')
  BY <1>1
<1> QED
  BY <1>2, Invariance, PTL DEF Spec, ColumnsStack
=============================================================================
