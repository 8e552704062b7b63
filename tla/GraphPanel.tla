---------------------------- MODULE GraphPanel ----------------------------
(***************************************************************************)
(* graphpanel.cpp: the boxes and cables on the canvas, a box being moved   *)
(* or a cable being drawn, and the refreshes that rebuild the whole graph  *)
(* in the middle of either (App::refreshPorts); with the toolbar of        *)
(* chrome.cpp, between which and the canvas App::button divides the        *)
(* presses and releases.                                                   *)
(*                                                                         *)
(* Abstracted: a port is a value with an owner and a direction, all of one *)
(* kind; the canvas is three columns, a box being one column wide and as   *)
(* many rows high as it has ports, and a pointer hits whatever is under    *)
(* it; pan and zoom only map the pointer and are left out.  A Node is its  *)
(* port, whichever refresh made it.  Of the pills only Refresh does        *)
(* something to the canvas.                                                *)
(***************************************************************************)
EXTENDS Integers, FiniteSets, SequencesExt

CONSTANTS Clients,
          Outs, Ins,      \* output and input ports
          owner,          \* port -> client
          rank,           \* client -> its place in name order
          Grid,           \* where the user moves the pointer
          MaxCables,      \* bound on what the user draws
          Tools,          \* the pills of the toolbar
          Nobody, NoPort

Ports == Outs \cup Ins

ASSUME PortsAssumption ==
  /\ owner \in [Ports -> Clients]
  /\ rank \in [Clients -> Nat] /\ \A c, d \in Clients : rank[c] = rank[d] => c = d
  /\ IsFiniteSet(Clients) /\ IsFiniteSet(Ports)
  /\ Outs \cap Ins = {}
  /\ Nobody \notin Clients /\ NoPort \notin Ports
  /\ Grid \subseteq Nat \X Nat
  /\ "Refresh" \in Tools /\ "None" \notin Tools

VARIABLES exists,          \* the server's ports, and its connections
          wires,
          pending,         \* a refresh has been asked for and not yet made
          mNodes,
          boxes,           \* mClientBoxes: client -> position
          mSavedPositions,
          mConnections,
          moving,          \* mMovingBoxClient, the offset, and the last pointer
          mDragSource,     \* NoPort while no cable is being drawn
          mPressTarget,    \* the pill that button 1 went down on
          held             \* the mouse buttons that are down

serverVars == <<exists, wires>>
sceneVars  == <<mNodes, boxes, mSavedPositions>>
gesture    == <<moving, mDragSource, mPressTarget>>
vars == <<serverVars, pending, sceneVars, mConnections, gesture, held>>

Position == Int \X Int
Cable == [src : Outs, dst : Ins]
NoMove == [client |-> Nobody, offset |-> <<0, 0>>, at |-> <<0, 0>>]

TypeOK ==
  /\ exists \subseteq Ports
  /\ wires \subseteq Outs \X Ins
  /\ pending \in BOOLEAN
  /\ mNodes \subseteq Ports
  /\ DOMAIN boxes \subseteq Clients
  /\ \A c \in DOMAIN boxes : boxes[c] \in Position
  /\ DOMAIN mSavedPositions \subseteq Clients
  /\ \A c \in DOMAIN mSavedPositions : mSavedPositions[c] \in Position
  /\ mConnections \in Seq(Cable)
  /\ moving \in [client : Clients \cup {Nobody}, offset : Position, at : Position]
  /\ mDragSource \in Outs \cup {NoPort}
  /\ mPressTarget \in Tools \cup {"None"}
  /\ held \subseteq {1, 3}

Init ==
  /\ exists = {} /\ wires = {}
  /\ pending = FALSE
  /\ mNodes = {}
  /\ boxes = [c \in {} |-> <<0, 0>>]
  /\ mSavedPositions = boxes
  /\ mConnections = <<>>
  /\ moving = NoMove /\ mDragSource = NoPort /\ mPressTarget = "None"
  /\ held = {}

-----------------------------------------------------------------------------
(* The server, whose callbacks ask for a refresh.                          *)

PortChange ==
  /\ \E p \in Ports : exists' = IF p \in exists THEN exists \ {p} ELSE exists \cup {p}
  /\ wires' = {w \in wires : w[1] \in exists' /\ w[2] \in exists'}
  /\ pending' = TRUE
  /\ UNCHANGED <<sceneVars, mConnections, gesture, held>>

WireChange ==
  /\ \E w \in (Outs \cap exists) \X (Ins \cap exists) :
       wires' = IF w \in wires THEN wires \ {w} ELSE wires \cup {w}
  /\ pending' = TRUE
  /\ UNCHANGED <<exists, sceneVars, mConnections, gesture, held>>

-----------------------------------------------------------------------------
(* Layout.                                                                 *)

PortsOf(c, nodes) == {p \in nodes : owner[p] = c}
Shown(nodes) == {owner[p] : p \in nodes}

Height(c, nodes) ==
  LET outs == Cardinality(PortsOf(c, nodes) \cap Outs)
      ins  == Cardinality(PortsOf(c, nodes) \cap Ins)
  IN IF outs > ins THEN outs ELSE ins

\* Sources in the left column, sinks in the right one, the others between.
Column(c, nodes) ==
  IF PortsOf(c, nodes) \subseteq Outs THEN 0
  ELSE IF PortsOf(c, nodes) \subseteq Ins THEN 2
  ELSE 1

InColumn(col, nodes) == {c \in Shown(nodes) : Column(c, nodes) = col}

Mutant_FloorOfTops(col, nodes, saved) ==  \* the heights of the saved boxes are forgotten
  Cardinality(UNION {0 .. saved[c][2] - 1 : c \in InColumn(col, nodes) \cap DOMAIN saved})

\* The rows from the top down to the lowest of the column's boxes that have
\* saved positions.
Floor(col, nodes, saved) ==
  Cardinality(UNION {0 .. saved[c][2] + Height(c, nodes) - 1 :
                       c \in InColumn(col, nodes) \cap DOMAIN saved})

\* The rows of the new boxes of the column that come before c.
Above(c, nodes, saved) ==
  LET before == {d \in InColumn(Column(c, nodes), nodes) \ DOMAIN saved : rank[d] < rank[c]}
  IN Cardinality(UNION {{d} \X (1 .. Height(d, nodes)) : d \in before})

\* New boxes go below all saved ones of their column, one under the other.
NewPlace(c, nodes, saved) ==
  LET col == Column(c, nodes)
  IN <<col, Floor(col, nodes, saved) + Above(c, nodes, saved)>>

layout(nodes, saved) ==
  [c \in Shown(nodes) |->
     IF c \in DOMAIN saved THEN saved[c] ELSE NewPlace(c, nodes, saved)]

\* One cable for each of the server's connections.
Rescanned == SetToSeqs({[src |-> w[1], dst |-> w[2]] : w \in wires})

Mutant_SaveNewOnly ==             \* insert() for operator[]: the first place sticks
  [c \in DOMAIN boxes \cup DOMAIN mSavedPositions |->
     IF c \in DOMAIN mSavedPositions THEN mSavedPositions[c] ELSE boxes[c]]

\* removeAll: where the boxes are is saved, then all of them are dropped.
SavePositions ==
  [c \in DOMAIN boxes \cup DOMAIN mSavedPositions |->
     IF c \in DOMAIN boxes THEN boxes[c] ELSE mSavedPositions[c]]

Rebuild(saved) ==
  /\ pending' = FALSE
  /\ mNodes' = exists
  /\ mSavedPositions' = saved
  /\ boxes' = layout(exists, saved)
  /\ mConnections' \in Rescanned
  /\ UNCHANGED <<serverVars, moving, mDragSource>>

\* refreshPorts when the server changed: a drag in flight survives.
Refresh ==
  /\ pending
  /\ Rebuild(SavePositions)
  /\ UNCHANGED <<mPressTarget, held>>

-----------------------------------------------------------------------------
(* The mouse.                                                              *)

Minus(a, b) == <<a[1] - b[1], a[2] - b[2]>>

\* Button 1 on a pill: the canvas is not told.
PressPill ==
  /\ 1 \notin held
  /\ held' = held \cup {1}
  /\ mPressTarget' \in Tools
  /\ UNCHANGED <<serverVars, pending, sceneVars, mConnections, moving, mDragSource>>

\* Button 1 goes up on the pill it went down on; the canvas is not told.  Refresh
\* forgets the positions: those saved by removeAll are cleared after it.
ReleasePill(t) ==
  /\ mPressTarget = t
  /\ 1 \in held
  /\ held' = held \ {1}
  /\ mPressTarget' = "None"

ToolRefresh ==
  /\ ReleasePill("Refresh")
  /\ Rebuild([c \in {} |-> <<0, 0>>])

OtherTool ==
  /\ \E t \in Tools \ {"Refresh"} : ReleasePill(t)
  /\ UNCHANGED <<serverVars, pending, sceneVars, mConnections, moving, mDragSource>>

\* Button 1 on an output port.
PressPort ==
  /\ 1 \notin held
  /\ held' = held \cup {1}
  /\ mPressTarget' = "None"
  /\ mDragSource' \in mNodes \cap Outs
  /\ UNCHANGED <<serverVars, pending, sceneVars, mConnections, moving>>

\* Button 1 on a box, in any of its rows.
PressBox ==
  /\ 1 \notin held
  /\ held' = held \cup {1}
  /\ \E c \in DOMAIN boxes : \E row \in 0 .. Height(c, mNodes) - 1 :
       moving' = [client |-> c,
                  offset |-> <<0, row>>,
                  at     |-> <<boxes[c][1], boxes[c][2] + row>>]
  /\ mPressTarget' = "None"
  /\ UNCHANGED <<serverVars, pending, sceneVars, mConnections, mDragSource>>

\* Button 1 on the ground pans.
PressGround ==
  /\ 1 \notin held
  /\ held' = held \cup {1}
  /\ mPressTarget' = "None"
  /\ UNCHANGED <<serverVars, pending, sceneVars, mConnections, moving, mDragSource>>

\* Button 3 on a cable: it is erased whether or not the server gives the
\* connection up.
PressCable ==
  /\ 3 \notin held
  /\ held' = held \cup {3}
  /\ \E i \in DOMAIN mConnections :
       /\ LET w == <<mConnections[i].src, mConnections[i].dst>>
          IN \/ wires' = wires \ {w} /\ pending' = (pending \/ w \in wires)
             \/ UNCHANGED <<wires, pending>>
       /\ mConnections' = RemoveAt(mConnections, i)
  /\ UNCHANGED <<exists, sceneVars, gesture>>

\* Button 3 elsewhere, which does nothing.
PressElsewhere ==
  /\ 3 \notin held
  /\ held' = held \cup {3}
  /\ UNCHANGED <<serverVars, pending, sceneVars, mConnections, gesture>>

Mutant_ReleaseUnasked ==          \* the cable is drawn whatever onConnect says
  /\ mDragSource /= NoPort
  /\ Len(mConnections) < MaxCables
  /\ \E dst \in mNodes \cap Ins :
       mConnections' = Append(mConnections, [src |-> mDragSource, dst |-> dst])
  /\ UNCHANGED <<wires, pending>>

\* Button 1 goes up over an input port while a cable is drawn.  Only a cable
\* that the server made is added; making one that exists already succeeds.
ConnectNodes ==
  /\ mDragSource \in exists
  /\ Len(mConnections) < MaxCables
  /\ \E dst \in mNodes \cap Ins \cap exists :
       LET w == <<mDragSource, dst>>
       IN /\ wires' = wires \cup {w}
          /\ pending' = (pending \/ w \notin wires)
          /\ mConnections' = Append(mConnections, [src |-> mDragSource, dst |-> dst])

\* Button 1 goes up while a cable is drawn.
ReleaseCable ==
  /\ 1 \in held
  /\ mDragSource /= NoPort
  /\ held' = held \ {1}
  /\ mDragSource' = NoPort /\ mPressTarget' = "None"
  /\ \/ ConnectNodes
     \/ UNCHANGED <<wires, pending, mConnections>>   \* over nothing, or refused
  /\ UNCHANGED <<exists, sceneVars, moving>>

Mutant_ReleaseKeepsBox(b) ==      \* mMovingBox is not reset
  /\ b \in held
  /\ b = 1 => mDragSource = NoPort
  /\ held' = held \ {b}
  /\ mPressTarget' = IF b = 1 THEN "None" ELSE mPressTarget
  /\ UNCHANGED <<serverVars, pending, sceneVars, mConnections, moving, mDragSource>>

\* Any other button, or button 1 with no cable: a box that is moved stays.
Release(b) ==
  /\ b \in held
  /\ b = 1 => mDragSource = NoPort
  /\ held' = held \ {b}
  /\ moving' = NoMove
  /\ mPressTarget' = IF b = 1 THEN "None" ELSE mPressTarget
  /\ UNCHANGED <<serverVars, pending, sceneVars, mConnections, mDragSource>>

Mutant_MotionByLastStep(at) ==    \* moved by the pointer's step, from where it is saved
  boxes' = [boxes EXCEPT ![moving.client] =
              IF moving.client \in DOMAIN mSavedPositions
              THEN Minus(mSavedPositions[moving.client], Minus(moving.at, at))
              ELSE Minus(@, Minus(moving.at, at))]

MoveTo(at) ==
  boxes' = [boxes EXCEPT ![moving.client] = Minus(at, moving.offset)]

\* The pointer moves with a box: resolved by name, and dropped if it is gone.
Motion ==
  /\ moving.client /= Nobody
  /\ mDragSource = NoPort
  /\ \E at \in Grid :
       \/ /\ moving.client \in DOMAIN boxes
          /\ MoveTo(at)
          /\ moving' = [moving EXCEPT !.at = at]
       \/ /\ moving.client \notin DOMAIN boxes
          /\ moving' = NoMove
          /\ UNCHANGED boxes
  /\ UNCHANGED <<serverVars, pending, mNodes, mSavedPositions, mConnections, mDragSource, mPressTarget, held>>

-----------------------------------------------------------------------------
Mouse ==
  \/ PressPill \/ OtherTool
  \/ PressPort \/ PressBox \/ PressGround \/ PressCable \/ PressElsewhere
  \/ ReleaseCable \/ (\E b \in {1, 3} : Release(b)) \/ Motion

Next == PortChange \/ WireChange \/ Refresh \/ ToolRefresh \/ Mouse

Spec == Init /\ [][Next]_vars

-----------------------------------------------------------------------------
\* A box that is being moved is under the pointer where it was taken hold of,
\* whatever refreshes came in between and even if its client left the graph and
\* came back ("a refresh mid-drag is invisible to the hand holding the mouse").
DragFollows ==
  moving.client \in DOMAIN boxes => boxes[moving.client] = Minus(moving.at, moving.offset)

\* No cable is on the canvas that the server does not have, once the refresh it
\* asked for is made: a connection that was refused is not drawn.
CablesAreWires ==
  ~pending => \A i \in DOMAIN mConnections : <<mConnections[i].src, mConnections[i].dst>> \in wires

\* Where each box is, or was when its client was last shown.
LastSeen ==
  [c \in DOMAIN boxes \cup DOMAIN mSavedPositions |->
     IF c \in DOMAIN boxes THEN boxes[c] ELSE mSavedPositions[c]]

Arranged ==
  INSTANCE Arrangement
  WITH shown <- DOMAIN boxes, place <- LastSeen,
       hand <- moving, pressed <- (mPressTarget = "Refresh")

\* Boxes stay where they were last seen (graphpanel.h, "so a refresh does not undo a
\* layout the user arranged by hand"): a refresh that the server brings about leaves
\* every box that has been seen where it was, also one whose client was away; a box
\* moves only in the hand that holds it; and places are forgotten only when button 1
\* goes up on the Refresh pill it went down on.
Arrangement == Arranged!Spec

\* A box that a rebuild places for the first time shares no row with another box
\* of the same column, placed by the user or by the same rebuild ("find the
\* lowest occupied Y in each column so new boxes never overlap them").  A box
\* whose client has since gained or lost a direction is not of its old column
\* any more, and may be covered where it still is.
SharedRow(c, d) ==
  /\ boxes[c][2] < boxes[d][2] + Height(d, mNodes)
  /\ boxes[d][2] < boxes[c][2] + Height(c, mNodes)

ColumnsStack ==
  [][Refresh \/ ToolRefresh =>
       \A c, d \in DOMAIN boxes' :
         c \notin DOMAIN mSavedPositions' /\ c /= d /\ Column(c, mNodes') = Column(d, mNodes')
           => ~SharedRow(c, d)']_vars

\* The inductive invariant.  A gesture belongs to a pressed button 1, and there
\* is one at a time.
Gesture ==
  /\ moving = NoMove \/ moving.client /= Nobody
  /\ moving.client /= Nobody => 1 \in held /\ mDragSource = NoPort
  /\ mDragSource /= NoPort => 1 \in held
  /\ mPressTarget /= "None" => 1 \in held /\ moving.client = Nobody /\ mDragSource = NoPort

\* The client of a box that is being moved has a place, on or off the canvas.
MovedHasPlace ==
  moving.client /= Nobody =>
    /\ moving.client \in DOMAIN LastSeen
    /\ LastSeen[moving.client] = Minus(moving.at, moving.offset)

UpToDate == ~pending => mNodes = exists

BoxesAreClients == DOMAIN boxes = Shown(mNodes)

IInv ==
  /\ TypeOK
  /\ Gesture
  /\ MovedHasPlace
  /\ UpToDate
  /\ BoxesAreClients
  /\ CablesAreWires

=============================================================================
