----------------------------- MODULE PortGraph -----------------------------
(***************************************************************************)
(* App::refreshPorts and what brings it about: the ports and cables on the *)
(* canvas follow those of JACK while there is a JACK client, and those of  *)
(* the ALSA sequencer otherwise.  Composes AlsaClient with the port lists  *)
(* of JackClient and JACK's registry.                                      *)
(*                                                                         *)
(* A refresh reads the ports one after the other and then the cables of    *)
(* one port after the other, while other programs go on.  It is the only   *)
(* thing the main loop does then.  A port of JACK is known by its name, a  *)
(* port of the sequencer by its address, which may be another's by then.   *)
(*                                                                         *)
(* JACK tells of a port that goes before its registry has dropped it.      *)
(* Abstracted: which box a port is in, and which operation or poll opens   *)
(* or drops the JACK client, which module App is about: here that happens  *)
(* in any state.                                                           *)
(***************************************************************************)
EXTENDS AlsaClient

CONSTANTS JackPorts,
          jackOut, jackIn   \* those of them that are outputs, and inputs

Addresses == {address[p] : p \in AlsaPorts}

ASSUME PortAssumption ==
  /\ JackPorts \cap (AlsaPorts \cup Addresses) = {}
  /\ jackOut \cup jackIn = JackPorts

VARIABLES jack,       \* the client: "none"; "live"; "gone", its server having died, which the
                      \* main loop will be told; or "deaf", of which it will not
          regPorts,   \* JACK's registry
          leaving,    \* the ports in it that have been announced to go
          cables,     \* its connections
          posted,     \* mPortsPosted
          m_ports,    \* what scan_ports found
          pending,    \* mRefreshPending, with its timer
          pc,         \* "idle", or where refreshPorts is
          todo,       \* the names or addresses it has still to ask about
          found,      \* the ports it has found
          wired,      \* and which names or addresses are connected
          lingered,   \* history: those it has found although they were leaving
          view        \* the canvas, and which of the systems it was drawn of

registry  == <<regPorts, leaving, cables>>
readVars  == <<pc, todo, found, wired, lingered>>
graphVars == <<jack, registry, posted, m_ports, pending, readVars, view>>
vars      == <<alsaVars, graphVars>>

mJackConnected == jack /= "none"

Ports  == AlsaPorts \cup JackPorts
Places == Addresses \cup JackPorts

at(p) == IF p \in JackPorts THEN p ELSE address[p]
Output(p) == IF p \in JackPorts THEN p \in jackOut ELSE Listed(p) /\ IsOutput(p)
Input(p)  == IF p \in JackPorts THEN p \in jackIn ELSE Listed(p) /\ IsInput(p)

TypeOK ==
  /\ AlsaTypeOK
  /\ jack \in {"none", "live", "gone", "deaf"}
  /\ regPorts \subseteq JackPorts /\ leaving \subseteq regPorts
  /\ cables \subseteq regPorts \X regPorts
  /\ posted \in BOOLEAN /\ pending \in BOOLEAN
  /\ m_ports \subseteq JackPorts
  /\ pc \in {"idle", "ports", "cables"}
  /\ todo \subseteq Places /\ found \subseteq Ports
  /\ wired \subseteq Places \X Places
  /\ lingered \subseteq JackPorts
  /\ view \in [of : {"jack", "alsa"}, ports : SUBSET Ports, cables : SUBSET (Ports \X Ports)]

Init ==
  /\ AlsaInit
  /\ jack = "none"
  /\ regPorts = {} /\ leaving = {} /\ cables = {}
  /\ posted = FALSE /\ m_ports = {} /\ pending = FALSE
  /\ pc = "ports" /\ todo = Addresses              \* App::start
  /\ found = {} /\ wired = {} /\ lingered = {}
  /\ view = [of |-> "alsa", ports |-> {}, cables |-> {}]

-----------------------------------------------------------------------------
(* refreshPorts.                                                           *)

\* removeAll.
Clear(j) == view' = [of |-> IF j = "none" THEN "alsa" ELSE "jack", ports |-> {}, cables |-> {}]

\* It begins with scan_ports.  A server that has gone is not asked; what was found
\* last is used again, until the client is dropped.  Then the canvas is cleared.
StartReading(j) ==
  /\ pc' = "ports"
  /\ Clear(j)
  /\ m_ports' = CASE j = "live" -> regPorts [] j = "none" -> {} [] OTHER -> m_ports
  /\ todo' = IF j = "none" THEN Addresses ELSE m_ports'
  /\ found' = {} /\ wired' = {} /\ lingered' = {}

\* A client whose server has gone still answers from what it was told last.
IsThere(p) ==
  IF p \in JackPorts THEN p \in regPorts \/ jack /= "live"
  ELSE p \in seqPorts /\ Listed(p) /\ m_seq

\* The next port, if there is one at that moment.
ReadPort ==
  /\ pc = "ports"
  /\ \E a \in todo :
       /\ todo' = todo \ {a}
       /\ found' = found \cup {p \in Ports : at(p) = a /\ IsThere(p)}
       /\ lingered' = lingered \cup {p \in leaving : at(p) = a}
  /\ UNCHANGED <<alsaVars, jack, registry, posted, m_ports, pending, pc, wired, view>>

PortsRead ==
  /\ pc = "ports" /\ todo = {}
  /\ pc' = "cables"
  /\ m_ports' = IF mJackConnected THEN found ELSE m_ports
  /\ todo' = CASE jack = "live" -> {p \in found : Output(p)}
               [] jack = "none" -> Addresses
               [] OTHER -> {}
  /\ UNCHANGED <<alsaVars, jack, registry, posted, pending, found, wired, lingered, view>>

\* What get_connections asks about.
Connections ==
  CASE jack = "live" -> cables
    [] jack = "none" -> {s \in subs : m_seq /\ owner[s[1]] \notin {Ourselves, System}}
    [] OTHER -> {}

Link(c) == <<at(c[1]), at(c[2])>>

\* What the next port is connected to, at that moment.
ReadCables ==
  /\ pc = "cables"
  /\ \E a \in todo :
       /\ todo' = todo \ {a}
       /\ wired' = wired \cup {Link(c) : c \in {d \in Connections : at(d[1]) = a}}
  /\ UNCHANGED <<alsaVars, jack, registry, posted, m_ports, pending, pc, found, lingered, view>>

Mutant_Drawn ==                   \* an end that the map does not have is made up
  {c \in Ports \X Ports : Link(c) \in wired /\ c[1] \in found}

\* A cable is drawn if a port was found under the name or address of either end.
Drawn == {c \in found \X found : Link(c) \in wired /\ Output(c[1]) /\ Input(c[2])}

Draw ==
  /\ pc = "cables" /\ todo = {}
  /\ view' = [view EXCEPT !.ports = found, !.cables = Drawn]
  /\ pc' = "idle" /\ found' = {} /\ wired' = {} /\ todo' = {}
  /\ UNCHANGED <<alsaVars, jack, registry, posted, m_ports, pending, lingered>>

Reading == ReadPort \/ PortsRead \/ ReadCables \/ Draw

-----------------------------------------------------------------------------
(* The handlers that lead to it.                                           *)

\* One timer for a burst of changes.
schedulePortRefresh ==
  /\ pending' = TRUE
  /\ UNCHANGED <<m_ports, readVars>>

onAlsaReadable ==
  /\ pc = "idle"
  /\ Readable
  /\ drain_events
  /\ IF Changed /\ ~mJackConnected THEN schedulePortRefresh ELSE UNCHANGED <<pending, m_ports, readVars>>
  /\ UNCHANGED <<jack, registry, posted, view>>

onPortsPosted ==
  /\ pc = "idle"
  /\ posted
  /\ posted' = FALSE
  /\ schedulePortRefresh
  /\ UNCHANGED <<alsaVars, jack, registry, view>>

\* 100 ms after the first post, whatever has been announced since.
RefreshTimer ==
  /\ pc = "idle"
  /\ pending
  /\ pending' = FALSE
  /\ StartReading(jack)
  /\ UNCHANGED <<alsaVars, jack, registry, posted>>

ToolRefresh ==
  /\ pc = "idle"
  /\ StartReading(jack)
  /\ UNCHANGED <<alsaVars, jack, registry, posted, pending>>

\* connectJack, tryReconnectJack.  A client that is there already is dropped first (the
\* reconnect poll may have opened it in the middle of a start).  The registry may hold
\* anything by then, ports included whose going was announced before the callbacks were
\* attached, and so to nobody; and the server may have died by then, unnoticed.  If there
\* is no client to be had nothing is read: the canvas stays as it is.
connectJack ==
  /\ pc = "idle"
  /\ \/ /\ jack' \in {"live", "deaf"}
        /\ regPorts' \in IF jack' = "live" THEN SUBSET JackPorts ELSE {{}}
        /\ leaving' \in SUBSET regPorts'
        /\ cables' \in SUBSET {<<p, q>> : p \in jackOut \cap regPorts', q \in jackIn \cap regPorts'}
        /\ m_ports' \in IF jack' = "live" THEN {regPorts'} ELSE SUBSET JackPorts
        /\ pc' = "ports" /\ todo' = m_ports' /\ Clear(jack')
        /\ found' = {} /\ wired' = {} /\ lingered' = {}
     \/ /\ mJackConnected
        /\ jack' = "none" /\ m_ports' = {}
        /\ regPorts' = {} /\ leaving' = {} /\ cables' = {}
        /\ UNCHANGED <<readVars, view>>
  /\ UNCHANGED <<alsaVars, posted, pending>>

\* handleServerGone, and stopServer.
dropJack ==
  /\ pc = "idle" /\ mJackConnected
  /\ jack' = "none"
  /\ regPorts' = {} /\ leaving' = {} /\ cables' = {}
  /\ StartReading("none")
  /\ UNCHANGED <<alsaVars, posted, pending>>

-----------------------------------------------------------------------------
(* The user draws a cable between two boxes, or erases one.                *)

OnServer(p, q) == p \in regPorts /\ q \in regPorts /\ jack = "live"

JackConnect(p, q, ok) ==
  /\ ok = OnServer(p, q)
  /\ cables' = IF ok THEN cables \cup {<<p, q>>} ELSE cables
  /\ posted' = (posted \/ cables' /= cables)
  /\ UNCHANGED <<alsaVars, regPorts, leaving>>

\* connectNodes; the canvas shows the cable if it returns true.
Connect ==
  /\ pc = "idle"
  /\ \E p, q \in view.ports, ok \in BOOLEAN :
       /\ Output(p) /\ Input(q) /\ (p \in JackPorts <=> q \in JackPorts)
       /\ IF p \in JackPorts THEN JackConnect(p, q, ok)
          ELSE connect_ports(p, q, ok) /\ UNCHANGED <<registry, posted>>
       /\ view' = IF ok THEN [view EXCEPT !.cables = @ \cup {<<p, q>>}] ELSE view
  /\ UNCHANGED <<jack, m_ports, pending, readVars>>

\* disconnectNodes; the canvas forgets the cable whether or not it succeeds.
Disconnect ==
  /\ pc = "idle"
  /\ \E c \in view.cables :
       /\ IF c[1] \in JackPorts
          THEN /\ cables' = IF jack = "live" THEN cables \ {c} ELSE cables
               /\ posted' = (posted \/ cables' /= cables)
               /\ UNCHANGED <<alsaVars, regPorts, leaving>>
          ELSE disconnect_ports(c[1], c[2]) /\ UNCHANGED <<registry, posted>>
       /\ view' = [view EXCEPT !.cables = @ \ {c}]
  /\ UNCHANGED <<jack, m_ports, pending, readVars>>

-----------------------------------------------------------------------------
(* Other programs.                                                         *)

\* Each is followed by a callback, which posts.
JackWorld ==
  /\ jack = "live"
  /\ \/ /\ \E p \in JackPorts \ regPorts : regPorts' = regPorts \cup {p}
        /\ UNCHANGED <<leaving, cables>>
     \/ /\ \E p \in regPorts \ leaving : leaving' = leaving \cup {p}
        /\ UNCHANGED <<regPorts, cables>>
     \/ /\ \E p \in jackOut \cap regPorts, q \in jackIn \cap regPorts :
             cables' = IF <<p, q>> \in cables THEN cables \ {<<p, q>>} ELSE cables \cup {<<p, q>>}
        /\ UNCHANGED <<regPorts, leaving>>
  /\ posted' = TRUE
  /\ UNCHANGED <<alsaVars, jack, m_ports, pending, readVars, view>>

\* The registry catches up.
Settle ==
  /\ leaving /= {}
  /\ regPorts' = regPorts \ leaving
  /\ cables' = {c \in cables : c[1] \notin leaving /\ c[2] \notin leaving}
  /\ leaving' = {}
  /\ UNCHANGED <<alsaVars, jack, posted, m_ports, pending, readVars, view>>

\* JACK dies, and its registry with it; the shutdown callback will tell.
JackDies ==
  /\ jack = "live"
  /\ jack' = "gone"
  /\ regPorts' = {} /\ leaving' = {} /\ cables' = {}
  /\ UNCHANGED <<alsaVars, posted, m_ports, pending, readVars, view>>

AlsaWorld ==
  /\ \/ \E p \in AlsaPorts : PortStart(p) \/ PortExit(p)
     \/ OtherProgram
  /\ UNCHANGED graphVars

Next ==
  \/ Reading \/ onAlsaReadable \/ onPortsPosted \/ RefreshTimer
  \/ connectJack \/ dropJack
  \/ ToolRefresh \/ Connect \/ Disconnect
  \/ JackWorld \/ Settle \/ JackDies \/ AlsaWorld

(***************************************************************************)
(* The main loop's handlers run when they are wanted, whatever runs in     *)
(* between (see module App), a refresh ends, JACK's registry catches up,   *)
(* and the end of a server is noticed.                                     *)
(***************************************************************************)
Fairness ==
  /\ WF_vars(Reading)
  /\ WF_vars(Settle)
  /\ SF_vars(onAlsaReadable)
  /\ SF_vars(onPortsPosted)
  /\ SF_vars(RefreshTimer)
  /\ SF_vars(jack = "gone" /\ dropJack)

Spec == Init /\ [][Next]_vars /\ Fairness

-----------------------------------------------------------------------------
PortsOf(system) == IF system = "jack" THEN JackPorts ELSE AlsaPorts

\* The canvas shows the ports of one system, never both; with a JACK client those of JACK,
\* and none of the sequencer's that JACK would bridge.  Its cables run from an
\* output to an input on it, although ports may go, and their addresses be given to
\* others, between the two readings.
OneSystem ==
  /\ view.ports \subseteq PortsOf(view.of)
  /\ mJackConnected => view.of = "jack"
  /\ \A c \in view.cables :
       /\ c[1] \in view.ports /\ c[2] \in view.ports
       /\ Output(c[1]) /\ Input(c[2])

\* What there is to show.
Truth ==
  IF mJackConnected THEN [ports |-> regPorts, cables |-> cables]
  ELSE [ports  |-> {p \in seqPorts : Listed(p) /\ m_seq},
        cables |-> {s \in subs : m_seq /\ Listed(s[1]) /\ Listed(s[2])}]

\* Two things may be on the canvas that are not there any more, or never were: a port of
\* JACK that was still in the registry when it was read, after its going had been
\* announced, with its cables (the comment in port_registration_callback expects the
\* registry to have settled by then); and a cable that the user drew to a port which
\* another program keeps to itself.
Lingers(c) == c[1] \in lingered \/ c[2] \in lingered
Refused(c) == \E x \in exclusive : x /= c /\ Shares(c, x)

Shows ==
  /\ Truth.ports \subseteq view.ports /\ Truth.cables \subseteq view.cables
  /\ view.ports \subseteq Truth.ports \cup lingered
  /\ \A c \in view.cables \ Truth.cables : Lingers(c) \/ Refused(c)

\* Nothing is followed of a JACK server that died before the callbacks were attached, nor
\* of the sequencer without its announcements.
Followed == IF mJackConnected THEN jack /= "deaf" ELSE subscribed

\* A connect that failed and took JACK's old client with it leaves JACK's graph shown.
Stranded == ~mJackConnected /\ view.of = "jack"

\* A handler is due that will have the ports read again.
RefreshDue == pending \/ posted \/ jack = "gone" \/ (Readable /\ Changed /\ ~mJackConnected)

\* No change goes unnoticed: a canvas at rest that does not show what there is, but for
\* the cases named above, will be refreshed, whatever was lost from the queue, changed
\* between two readings, done by the user or refused meanwhile.
StaleIsNoticed == pc = "idle" /\ Followed /\ ~Stranded /\ ~Shows => RefreshDue

\* The inductive invariant.  A refresh reads the ports of the system it will be drawn
\* of, and has read what there is so far unless another refresh is due.
ReadsOneSystem ==
  /\ pc /= "idle" =>
       /\ ~Stranded
       /\ todo \subseteq IF mJackConnected THEN JackPorts ELSE Addresses
       /\ found \subseteq PortsOf(view.of)
       /\ ~mJackConnected => lingered = {}
  /\ pc /= "cables" => wired = {}

ReadSoFar ==
  Followed /\ ~RefreshDue =>
    /\ pc = "ports"  => {p \in Truth.ports : at(p) \notin todo} \subseteq found
    /\ pc = "cables" => /\ Truth.ports \subseteq found
                        /\ \A c \in Connections : at(c[1]) \notin todo => Link(c) \in wired
    /\ pc /= "idle" => /\ found \subseteq Truth.ports \cup lingered
                       /\ \A w \in wired : Lingers(w) \/ \E c \in Connections : Link(c) = w

CablesRun ==
  /\ \A c \in cables : c[1] \in jackOut /\ c[2] \in jackIn
  /\ \A s \in subs : IsOutput(s[1]) /\ IsInput(s[2])
  /\ \A p, q \in seqPorts : address[p] = address[q] => p = q

\* An announcement that was lost, or is still to come true, is not forgotten, unless the
\* port it was about has been read meanwhile.
Announced ==
  /\ overrun => queue /= <<>>
  /\ subscribed => m_seq
  /\ jack = "live" /\ ~posted /\ ~pending =>
       leaving \cap (IF pc = "idle" THEN view.ports ELSE found) \subseteq lingered

GraphInv ==
  /\ TypeOK
  /\ OneSystem
  /\ StaleIsNoticed
  /\ ReadsOneSystem
  /\ ReadSoFar
  /\ CablesRun
  /\ Announced

\* Once ports and cables stay as they are, whatever is drawn from then on is what there
\* is, but for the cases named above; and it is drawn.
ViewSettles ==
  <>[][UNCHANGED <<sequencer, jack, registry>>]_vars
    => /\ <>[](pc = "idle" => Shows \/ Stranded \/ ~Followed)
       /\ []<>(pc = "idle")
=============================================================================
