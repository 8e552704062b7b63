---------------------------- MODULE StereoPairs ----------------------------
(***************************************************************************)
(* graphpanel.cpp, pairStereoPorts: one column of a client's box is        *)
(* rearranged until every port whose name is another port's with an "R"    *)
(* appended sits right after that port.                                    *)
(*                                                                         *)
(* A step is one pass of the outer loop.  Ports are positions in mNodes,   *)
(* and two of them may bear one name: JACK's names are unique, ALSA's are  *)
(* not.  Names are values; base[n] is n without its trailing "R".          *)
(***************************************************************************)
EXTENDS Naturals, FiniteSets, SequencesExt

CONSTANTS Ports,   \* the ports a column may hold
          Names,
          NoName,  \* the base of a name that has no trailing "R"
          name,    \* port -> its name
          base     \* name -> the name it would be paired with

ASSUME NamesAssumption ==
  /\ IsFiniteSet(Ports)
  /\ NoName \notin Names
  /\ name \in [Ports -> Names]
  /\ base \in [Names -> Names \cup {NoName}]
  /\ \A n \in Names : base[n] /= n

VARIABLES given,   \* the column as add_port built it
          ports,   \* the column now
          changed  \* the loop goes on

vars == <<given, ports, changed>>

Indices == 1 .. Len(ports)

Init ==
  /\ \E S \in SUBSET Ports : given \in SetToSeqs(S)
  /\ ports = given
  /\ changed = TRUE

-----------------------------------------------------------------------------
\* The indices of the ports that port i belongs to, and the first of them.
Bases(i) == {j \in Indices : name[ports[j]] = base[name[ports[i]]]}
BaseAt(i) == CHOOSE b \in Bases(i) : \A j \in Bases(i) : b <= j

Mutant_MisplacedAlways(i) == Bases(i) /= {}     \* "already right after" is forgotten

Mutant_MisplacedAhead(i) ==                     \* only a port before its base is moved
  /\ Bases(i) /= {}
  /\ i < BaseAt(i)

Misplaced(i) ==
  /\ Bases(i) /= {}
  /\ i /= BaseAt(i) + 1

Mutant_Swap(i) ==                               \* exchanged with the port after the base
  LET next == IF BaseAt(i) < Len(ports) THEN BaseAt(i) + 1 ELSE BaseAt(i)
  IN [ports EXCEPT ![i] = ports[next], ![next] = ports[i]]

\* The port is erased and put back after its base, which the erasure may have
\* shifted to the left.
Relocate(i) ==
  LET b == IF BaseAt(i) > i THEN BaseAt(i) - 1 ELSE BaseAt(i)
  IN InsertAt(RemoveAt(ports, i), b + 1, ports[i])

\* The scan relocates the first misplaced port and begins again.
Pass ==
  /\ changed
  /\ \/ \E i \in Indices :
          /\ Misplaced(i)
          /\ \A j \in 1 .. i - 1 : ~Misplaced(j)
          /\ ports' = Relocate(i)
          /\ UNCHANGED changed
     \/ /\ \A i \in Indices : ~Misplaced(i)
        /\ changed' = FALSE
        /\ UNCHANGED ports
  /\ UNCHANGED given

Next == Pass

Spec == Init /\ [][Next]_vars /\ WF_vars(Next)

-----------------------------------------------------------------------------
\* "All other ports keep their order": a port that is paired with nothing is
\* never moved past another such port, and no port is lost or doubled.
Unpaired(p) == \A q \in ToSet(given) : name[q] /= base[name[p]]

Precedes(column, p, q) ==
  \E i, j \in DOMAIN column : i < j /\ column[i] = p /\ column[j] = q

OthersKeepOrder ==
  /\ \A p, q \in ToSet(given) :
       Unpaired(p) /\ Unpaired(q) => (Precedes(ports, p, q) <=> Precedes(given, p, q))
  /\ ToSet(ports) = ToSet(given) /\ Len(ports) = Len(given)

\* When the loop ends every port whose base is in the column follows it
\* immediately, also down a chain of names (x, xR, xRR), so that a pair is
\* never torn apart by a later relocation.
PairsTogether ==
  ~changed =>
    \A i \in Indices :
      (\E p \in ToSet(given) : name[p] = base[name[ports[i]]])
        => i > 1 /\ name[ports[i - 1]] = base[name[ports[i]]]

\* The loop ends ("O(n^2) but n is tiny").
LoopEnds == <>~changed
=============================================================================
