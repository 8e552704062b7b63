---------------------------- MODULE Arrangement ----------------------------
(***************************************************************************)
(* What the canvas promises about where boxes are: once a client has been  *)
(* shown, its box is where it was last seen, however often the graph is    *)
(* rebuilt and whether or not the client was away in between.  Only the    *)
(* user changes that: a box goes where the hand that holds it goes, and    *)
(* the Refresh button, let go of, asks for the automatic layout.           *)
(***************************************************************************)
EXTENDS Integers

CONSTANTS Clients, Nobody

VARIABLES shown,   \* the clients with a box
          place,   \* where the box of each client seen so far is, or was last
          hand,    \* whose box the user holds, at which point of it, and the pointer
          pressed  \* the Refresh button is held down

vars == <<shown, place, hand, pressed>>

Empty == [client |-> Nobody, offset |-> <<0, 0>>, at |-> <<0, 0>>]

\* Where the hand has its box.
Under(h) == <<h.at[1] - h.offset[1], h.at[2] - h.offset[2]>>

Init ==
  /\ shown = {}
  /\ place = [c \in {} |-> <<0, 0>>]
  /\ hand = Empty
  /\ pressed = FALSE

\* The graph is rebuilt because it changed: other clients may be shown, and boxes that
\* were never seen before are placed.
Show ==
  /\ shown' \subseteq Clients
  /\ DOMAIN place' = DOMAIN place \cup shown'
  /\ \A c \in DOMAIN place : place'[c] = place[c]
  /\ UNCHANGED <<hand, pressed>>

\* The user takes hold of a box that is on the canvas, which does not move it.
Take ==
  /\ hand.client = Nobody
  /\ hand'.client \in shown
  /\ Under(hand') = place[hand'.client]
  /\ UNCHANGED <<shown, place, pressed>>

\* The box in the hand goes where the hand goes, and no other box does.
Move ==
  /\ hand.client \in shown
  /\ hand'.client = hand.client /\ hand'.offset = hand.offset
  /\ place' = [place EXCEPT ![hand.client] = Under(hand')]
  /\ UNCHANGED <<shown, pressed>>

LetGo ==
  /\ hand' = Empty
  /\ UNCHANGED <<shown, place, pressed>>

\* The button goes down, or is let go of beside it.
Press ==
  /\ pressed' = ~pressed
  /\ UNCHANGED <<shown, place, hand>>

\* The button is let go of: the user asks for the automatic layout.
Forget ==
  /\ pressed /\ pressed' = FALSE
  /\ hand.client = Nobody /\ UNCHANGED hand
  /\ shown' \subseteq Clients
  /\ DOMAIN place' = shown'

Next == Show \/ Take \/ Move \/ LetGo \/ Press \/ Forget

Spec == Init /\ [][Next]_vars
=============================================================================
