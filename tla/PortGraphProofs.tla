-------------------------- MODULE PortGraphProofs --------------------------
(***************************************************************************)
(* Proofs about PortGraph, for any ports, addresses and queue.             *)
(*                                                                         *)
(* Three parts: what the sequencer and the refresh may hold (Shown), what  *)
(* is announced and which ports are known to be leaving (Kept), and that   *)
(* no change is missed.  The first two do not need the third.              *)
(***************************************************************************)
EXTENDS PortGraph, TLAPS

Shown == TypeOK /\ OneSystem /\ ReadsOneSystem

USE PortAssumption, AlsaAssumption

-----------------------------------------------------------------------------
(* The sequencer.                                                          *)

LEMMA AnnounceType ==
  ASSUME AlsaTypeOK, NEW e \in {"change", "other"}, Announce(e)
  PROVE  /\ queue' \in Seq({"change", "other"}) /\ Len(queue') <= QueueSize
         /\ overrun' \in BOOLEAN /\ m_seq' \in BOOLEAN /\ subscribed' \in BOOLEAN
<1>1. queue' \in Seq({"change", "other"}) /\ Len(queue') <= QueueSize
  <2>1. CASE subscribed /\ Len(queue) < QueueSize
    BY <2>1 DEF Announce, AlsaTypeOK
  <2>2. CASE ~(subscribed /\ Len(queue) < QueueSize)
    BY <2>2 DEF Announce, AlsaTypeOK
  <2> QED BY <2>1, <2>2
<1>2. overrun' \in BOOLEAN
  BY Zenon DEF Announce
<1>3. m_seq' \in BOOLEAN /\ subscribed' \in BOOLEAN
  BY Zenon DEF Announce, AlsaTypeOK
<1> QED
  BY <1>1, <1>2, <1>3

LEMMA NothingQueued == <<>> \in Seq({"change", "other"}) /\ Len(<<>>) <= QueueSize
OBVIOUS

LEMMA SequencerType ==
  ASSUME AlsaTypeOK,
         \/ \E p \in AlsaPorts : PortStart(p) \/ PortExit(p)
         \/ OtherProgram
  PROVE  AlsaTypeOK'
<1> DEFINE Typed == /\ seqPorts' \subseteq AlsaPorts /\ subs' \subseteq seqPorts' \X seqPorts'
                    /\ exclusive' \subseteq subs'
<1>1. ASSUME NEW p \in AlsaPorts, PortStart(p) PROVE AlsaTypeOK'
  <2>1. Typed
    BY <1>1 DEF PortStart, AlsaTypeOK
  <2>2. Announce("change")
    BY <1>1 DEF PortStart
  <2> QED
    BY <2>1, <2>2, AnnounceType DEF AlsaTypeOK
<1>2. ASSUME NEW p \in AlsaPorts, PortExit(p) PROVE AlsaTypeOK'
  <2>1. seqPorts' \subseteq AlsaPorts /\ exclusive' \subseteq subs'
    BY <1>2 DEF PortExit, AlsaTypeOK
  <2>2. ASSUME NEW s \in subs' PROVE s \in seqPorts' \X seqPorts'
    <3>1. s \in seqPorts \X seqPorts /\ p \notin {s[1], s[2]}
      BY <1>2, <2>2 DEF PortExit, AlsaTypeOK
    <3>2. PICK a \in seqPorts, b \in seqPorts : s = <<a, b>>
      BY <3>1
    <3> QED
      BY <3>1, <3>2, <1>2 DEF PortExit
  <2>3. Announce("change")
    BY <1>2 DEF PortExit
  <2> QED
    BY <2>1, <2>2, <2>3, AnnounceType DEF AlsaTypeOK
<1>3. ASSUME OtherProgram PROVE AlsaTypeOK'
  <2>1. Typed
    <3>1. CASE UNCHANGED sequencer
      BY <3>1 DEF sequencer, AlsaTypeOK
    <3>2. ASSUME NEW p \in seqPorts, NEW q \in seqPorts, UNCHANGED seqPorts,
                 \/ subs' = subs \cup {<<p, q>>} /\ UNCHANGED exclusive
                 \/ subs' = subs \cup {<<p, q>>} /\ exclusive' = exclusive \cup {<<p, q>>}
                 \/ subs' = subs \ {<<p, q>>} /\ exclusive' = exclusive \ {<<p, q>>}
          PROVE  Typed
      BY <3>2 DEF AlsaTypeOK
    <3> QED
      BY <1>3, <3>1, <3>2 DEF OtherProgram
  <2>2. \E e \in {"change", "other"} : Announce(e)
    BY <1>3 DEF OtherProgram
  <2> QED
    BY <2>1, <2>2, AnnounceType DEF AlsaTypeOK
<1> QED
  BY <1>1, <1>2, <1>3

LEMMA SubscriptionType ==
  ASSUME AlsaTypeOK, NEW p, NEW q, NEW ok,
         connect_ports(p, q, ok) \/ disconnect_ports(p, q)
  PROVE  AlsaTypeOK'
<1>1. CASE UNCHANGED alsaVars
  BY <1>1 DEF alsaVars, sequencer, AlsaTypeOK
<1>2. ASSUME NEW s \in Addressed(p, q), UNCHANGED seqPorts, Announce("change"),
             \/ subs' = subs \cup {s} /\ UNCHANGED exclusive
             \/ subs' = subs \ {s} /\ exclusive' = exclusive \ {s}
      PROVE  AlsaTypeOK'
  <2>1. s \in seqPorts \X seqPorts
    BY <1>2 DEF Addressed, AtAddressOf
  <2>2. /\ seqPorts' \subseteq AlsaPorts /\ subs' \subseteq seqPorts' \X seqPorts'
        /\ exclusive' \subseteq subs'
    BY <1>2, <2>1 DEF AlsaTypeOK
  <2> QED
    BY <1>2, <2>2, AnnounceType DEF AlsaTypeOK
<1> QED
  BY <1>1, <1>2 DEF connect_ports, disconnect_ports

-----------------------------------------------------------------------------
(* Names and addresses.                                                    *)

\* A port of JACK is known by its name, one of the sequencer by its address, and neither
\* is taken for the other.
LEMMA Known ==
  /\ \A p \in JackPorts : at(p) = p /\ p \notin AlsaPorts /\ p \notin Addresses
  /\ \A p \in AlsaPorts : at(p) = address[p] /\ at(p) \in Addresses /\ p \notin JackPorts
  /\ Addresses \cap JackPorts = {}
BY DEF at, Addresses

\* A refresh finds ports of the system that it asks.
LEMMA Asked ==
  ASSUME NEW p \in Ports, at(p) \in IF mJackConnected THEN JackPorts ELSE Addresses
  PROVE  p \in IF mJackConnected THEN JackPorts ELSE AlsaPorts
BY Known DEF Ports

\* So what it finds there is what there is to show, if the answer can be relied on.
LEMMA Answered ==
  ASSUME TypeOK, jack \in {"live", "none"},
         NEW p \in Ports, at(p) \in IF mJackConnected THEN JackPorts ELSE Addresses
  PROVE  IsThere(p) <=> p \in Truth.ports
<1>1. CASE jack = "live"
  <2>1. p \in JackPorts /\ Truth.ports = regPorts
    BY <1>1, Asked DEF Truth, mJackConnected
  <2> QED
    BY <1>1, <2>1 DEF IsThere
<1>2. CASE jack = "none"
  <2>1. p \in AlsaPorts /\ p \notin JackPorts
    BY <1>2, Asked, Known DEF mJackConnected
  <2>2. Truth.ports = {r \in seqPorts : Listed(r) /\ m_seq}
    BY <1>2 DEF Truth, mJackConnected
  <2> QED
    BY <2>1, <2>2 DEF IsThere
<1> QED
  BY <1>1, <1>2

-----------------------------------------------------------------------------
(* What a refresh in progress holds.                                       *)

\* It begins with ports of the system it is for, and an empty canvas.
LEMMA Starts ==
  ASSUME TypeOK, StartReading(jack'), jack' \in {"none", "live", "gone", "deaf"}
  PROVE  /\ m_ports' \subseteq JackPorts
         /\ todo' \subseteq (IF mJackConnected THEN JackPorts ELSE Addresses)'
         /\ todo' \subseteq Places
         /\ found' = {} /\ wired' = {} /\ lingered' = {} /\ pc' = "ports"
         /\ view' = [of |-> IF mJackConnected' THEN "jack" ELSE "alsa", ports |-> {}, cables |-> {}]
BY DEF StartReading, Clear, TypeOK, mJackConnected, Places, Addresses

\* And that is as it should be.
LEMMA StartsShown ==
  ASSUME TypeOK', pc' = "ports", found' = {}, wired' = {}, lingered' = {},
         todo' \subseteq (IF mJackConnected THEN JackPorts ELSE Addresses)',
         view' = [of |-> IF mJackConnected' THEN "jack" ELSE "alsa", ports |-> {}, cables |-> {}]
  PROVE  Shown'
<1>1. OneSystem'
  BY DEF OneSystem, PortsOf
<1>2. ReadsOneSystem'
  BY DEF ReadsOneSystem, Stranded, PortsOf
<1> QED
  BY <1>1, <1>2 DEF Shown

\* Steps that leave refresh, canvas and client alone.
LEMMA LeftAlone ==
  ASSUME Shown, TypeOK', UNCHANGED <<readVars, view>>, mJackConnected' <=> mJackConnected
  PROVE  Shown'
BY DEF Shown, OneSystem, ReadsOneSystem, Stranded, PortsOf, readVars, Output, Input, Listed,
       IsOutput, IsInput, Exported, Addresses

\* Where a cable of the canvas ends.
LEMMA ShownCable ==
  ASSUME OneSystem, NEW c \in view.cables
  PROVE  /\ c[1] \in view.ports /\ c[2] \in view.ports
         /\ c[1] \in PortsOf(view.of) /\ c[2] \in PortsOf(view.of)
BY DEF OneSystem

LEMMA ReadPortShown ==
  ASSUME Shown, ReadPort
  PROVE  Shown'
<1> USE DEF Shown
<1>1. PICK a \in todo :
        /\ todo' = todo \ {a}
        /\ found' = found \cup {p \in Ports : at(p) = a /\ IsThere(p)}
        /\ lingered' = lingered \cup {p \in leaving : at(p) = a}
  BY DEF ReadPort
<1>2. UNCHANGED <<alsaVars, jack, registry, posted, m_ports, pending, pc, wired, view>> /\ pc = "ports"
  BY DEF ReadPort
<1>3. a \in IF mJackConnected THEN JackPorts ELSE Addresses
  BY <1>1, <1>2 DEF ReadsOneSystem
<1>4. TypeOK'
  <2>1. todo' \subseteq Places /\ found' \subseteq Ports /\ lingered' \subseteq JackPorts
    BY <1>1 DEF TypeOK
  <2> QED
    BY <1>2, <2>1 DEF TypeOK, AlsaTypeOK, alsaVars, sequencer, registry
<1>5. OneSystem'
  BY <1>2 DEF OneSystem, PortsOf, mJackConnected, Output, Input, Listed, IsOutput, IsInput, Exported
<1>6. ReadsOneSystem'
  <2>1. ~Stranded /\ view.of \in {"jack", "alsa"}
    BY <1>2 DEF ReadsOneSystem, TypeOK
  <2>2. PortsOf(view.of) = IF mJackConnected THEN JackPorts ELSE AlsaPorts
    BY <2>1 DEF OneSystem, Stranded, PortsOf
  <2>3. found' \subseteq PortsOf(view.of)
    <3>1. ASSUME NEW p \in Ports, at(p) = a PROVE p \in PortsOf(view.of)
      BY <1>3, <2>2, <3>1, Asked
    <3> QED
      BY <1>1, <1>2, <3>1 DEF ReadsOneSystem
  <2>4. ASSUME ~mJackConnected PROVE lingered' = {}
    <3>1. lingered = {} /\ a \in Addresses
      BY <1>2, <1>3, <2>4 DEF ReadsOneSystem
    <3>2. \A p \in leaving : at(p) /= a
      BY <3>1, Known DEF TypeOK
    <3> QED
      BY <1>1, <3>1, <3>2
  <2>5. wired = {} /\ todo' \subseteq IF mJackConnected THEN JackPorts ELSE Addresses
    BY <1>1, <1>2 DEF ReadsOneSystem
  <2> QED
    BY <1>2, <2>1, <2>3, <2>4, <2>5 DEF ReadsOneSystem, Stranded, PortsOf, mJackConnected, Addresses
<1> QED
  BY <1>4, <1>5, <1>6

LEMMA PortsReadShown ==
  ASSUME Shown, PortsRead
  PROVE  Shown'
<1> USE DEF Shown
<1>1. /\ UNCHANGED <<alsaVars, jack, registry, posted, pending, found, wired, lingered, view>>
      /\ pc = "ports" /\ pc' = "cables"
      /\ m_ports' = m_ports \/ (mJackConnected /\ m_ports' = found)
      /\ jack = "live" => todo' = {p \in found : Output(p)}
      /\ jack = "none" => todo' = Addresses
      /\ jack \notin {"live", "none"} => todo' = {}
  BY DEF PortsRead
<1>2. mJackConnected => found \subseteq JackPorts
  BY <1>1 DEF ReadsOneSystem, OneSystem, PortsOf
<1>3. todo' \subseteq IF mJackConnected THEN JackPorts ELSE Addresses
  <2>1. CASE jack = "live"
    BY <1>1, <1>2, <2>1 DEF mJackConnected
  <2>2. CASE jack = "none"
    BY <1>1, <2>2 DEF mJackConnected
  <2>3. CASE jack \notin {"live", "none"}
    BY <1>1, <2>3
  <2> QED
    BY <2>1, <2>2, <2>3
<1>4. TypeOK'
  <2>1. m_ports' \subseteq JackPorts
    BY <1>1, <1>2 DEF TypeOK
  <2>2. todo' \subseteq Places
    BY <1>3 DEF Places
  <2> QED
    BY <1>1, <2>1, <2>2 DEF TypeOK, AlsaTypeOK, alsaVars, sequencer, registry
<1>5. OneSystem'
  BY <1>1 DEF OneSystem, PortsOf, mJackConnected, Output, Input, Listed, IsOutput, IsInput, Exported
<1>6. ReadsOneSystem'
  BY <1>1, <1>3 DEF ReadsOneSystem, Stranded, PortsOf, mJackConnected, Addresses
<1> QED
  BY <1>4, <1>5, <1>6

\* Cables run between ports, and are known by where they are.
LEMMA LinkPlaces ==
  ASSUME TypeOK, NEW c \in Connections
  PROVE  Link(c) \in Places \X Places
<1>1. cables \subseteq Ports \X Ports /\ subs \subseteq Ports \X Ports
  BY DEF TypeOK, AlsaTypeOK, Ports
<1>2. Connections \subseteq cables \/ Connections \subseteq subs
  BY DEF Connections
<1>3. PICK p \in Ports, q \in Ports : c = <<p, q>>
  BY <1>1, <1>2
<1>4. \A r \in Ports : at(r) \in Places
  BY Known DEF Ports, Places
<1> QED
  BY <1>3, <1>4 DEF Link

LEMMA ReadCablesShown ==
  ASSUME Shown, ReadCables
  PROVE  Shown'
<1> USE DEF Shown
<1>1. PICK a \in todo :
        /\ todo' = todo \ {a}
        /\ wired' = wired \cup {Link(c) : c \in {d \in Connections : at(d[1]) = a}}
  BY DEF ReadCables
<1>2. /\ UNCHANGED <<alsaVars, jack, registry, posted, m_ports, pending, pc, found, lingered, view>>
      /\ pc = "cables"
  BY DEF ReadCables
<1>3. TypeOK'
  <2>1. wired' \subseteq Places \X Places
    BY <1>1, LinkPlaces DEF TypeOK
  <2>2. todo' \subseteq Places
    BY <1>1 DEF TypeOK
  <2> QED
    BY <1>2, <2>1, <2>2 DEF TypeOK, AlsaTypeOK, alsaVars, sequencer, registry
<1>4. OneSystem'
  BY <1>2 DEF OneSystem, PortsOf, mJackConnected, Output, Input, Listed, IsOutput, IsInput, Exported
<1>5. ReadsOneSystem'
  BY <1>1, <1>2 DEF ReadsOneSystem, Stranded, PortsOf, mJackConnected, Addresses
<1> QED
  BY <1>3, <1>4, <1>5

LEMMA DrawShown ==
  ASSUME Shown, Draw
  PROVE  Shown'
<1> USE DEF Shown
<1>1. /\ view' = [view EXCEPT !.ports = found, !.cables = Drawn] /\ pc = "cables"
      /\ pc' = "idle" /\ found' = {} /\ wired' = {} /\ todo' = {}
      /\ UNCHANGED <<alsaVars, jack, registry, posted, m_ports, pending, lingered>>
  BY DEF Draw
<1>2. /\ view' \in [of : {"jack", "alsa"}, ports : SUBSET Ports, cables : SUBSET (Ports \X Ports)]
      /\ view'.of = view.of /\ view'.ports = found /\ view'.cables = Drawn
  <2>1. found \subseteq Ports /\ Drawn \subseteq Ports \X Ports
    BY DEF Drawn, TypeOK
  <2> QED
    BY <1>1, <2>1 DEF TypeOK
<1>3. TypeOK'
  BY <1>1, <1>2 DEF TypeOK, AlsaTypeOK, alsaVars, sequencer, registry
<1>4. OneSystem'
  <2>1. found \subseteq PortsOf(view.of)
    BY <1>1 DEF ReadsOneSystem
  <2>2. \A c \in Drawn : c[1] \in found /\ c[2] \in found /\ Output(c[1]) /\ Input(c[2])
    BY DEF Drawn
  <2> QED
    BY <1>1, <1>2, <2>1, <2>2
       DEF OneSystem, PortsOf, mJackConnected, Output, Input, Listed, IsOutput, IsInput, Exported
<1>5. ReadsOneSystem'
  BY <1>1 DEF ReadsOneSystem
<1> QED
  BY <1>3, <1>4, <1>5

\* The user's cable, and its end.
LEMMA ConnectShown ==
  ASSUME Shown, Connect
  PROVE  Shown'
<1> USE DEF Shown
<1>1. PICK p \in view.ports, q \in view.ports, ok \in BOOLEAN :
        /\ Output(p) /\ Input(q) /\ (p \in JackPorts <=> q \in JackPorts)
        /\ IF p \in JackPorts THEN JackConnect(p, q, ok)
           ELSE connect_ports(p, q, ok) /\ UNCHANGED <<registry, posted>>
        /\ view' = IF ok THEN [view EXCEPT !.cables = @ \cup {<<p, q>>}] ELSE view
  BY DEF Connect
<1>2. UNCHANGED <<jack, m_ports, pending, readVars>> /\ pc = "idle"
  BY DEF Connect
<1>3. /\ view' \in [of : {"jack", "alsa"}, ports : SUBSET Ports, cables : SUBSET (Ports \X Ports)]
      /\ view'.of = view.of /\ view'.ports = view.ports
      /\ view'.cables \subseteq view.cables \cup {<<p, q>>}
  <2>1. p \in Ports /\ q \in Ports
    BY DEF TypeOK
  <2> QED
    BY <1>1, <2>1 DEF TypeOK
<1>4. /\ AlsaTypeOK' /\ regPorts' \subseteq JackPorts /\ leaving' \subseteq regPorts'
      /\ cables' \subseteq regPorts' \X regPorts'
  <2>1. CASE p \in JackPorts
    <3>1. JackConnect(p, q, ok)
      BY <1>1, <2>1
    <3>2. UNCHANGED <<alsaVars, regPorts, leaving>>
      BY <3>1 DEF JackConnect
    <3>3. cables' = cables \/ (OnServer(p, q) /\ cables' = cables \cup {<<p, q>>})
      BY <3>1, Zenon DEF JackConnect
    <3>4. cables' \subseteq regPorts' \X regPorts'
      BY <3>2, <3>3 DEF OnServer, TypeOK
    <3> QED
      BY <3>2, <3>4 DEF TypeOK, AlsaTypeOK, alsaVars, sequencer
  <2>2. CASE p \notin JackPorts
    BY <1>1, <2>2, SubscriptionType DEF TypeOK, registry
  <2> QED BY <2>1, <2>2
<1>5. posted' \in BOOLEAN
  <2>1. CASE p \in JackPorts
    <3>1. JackConnect(p, q, ok)
      BY <1>1, <2>1
    <3> QED BY <3>1, Zenon DEF JackConnect
  <2>2. CASE p \notin JackPorts
    BY <1>1, <2>2 DEF TypeOK
  <2> QED BY <2>1, <2>2
<1>6. TypeOK'
  BY <1>2, <1>3, <1>4, <1>5 DEF TypeOK, readVars
<1>7. OneSystem'
  BY <1>1, <1>2, <1>3
     DEF OneSystem, PortsOf, mJackConnected, Output, Input, Listed, IsOutput, IsInput, Exported
<1> QED
  BY <1>2, <1>6, <1>7 DEF ReadsOneSystem, readVars

LEMMA DisconnectShown ==
  ASSUME Shown, Disconnect
  PROVE  Shown'
<1> USE DEF Shown
<1>1. PICK c \in view.cables :
        /\ IF c[1] \in JackPorts
           THEN /\ cables' = IF jack = "live" THEN cables \ {c} ELSE cables
                /\ posted' = (posted \/ cables' /= cables)
                /\ UNCHANGED <<alsaVars, regPorts, leaving>>
           ELSE disconnect_ports(c[1], c[2]) /\ UNCHANGED <<registry, posted>>
        /\ view' = [view EXCEPT !.cables = @ \ {c}]
  BY DEF Disconnect
<1>2. UNCHANGED <<jack, m_ports, pending, readVars>> /\ pc = "idle"
  BY DEF Disconnect
<1>3. /\ view' \in [of : {"jack", "alsa"}, ports : SUBSET Ports, cables : SUBSET (Ports \X Ports)]
      /\ view'.of = view.of /\ view'.ports = view.ports /\ view'.cables \subseteq view.cables
  BY <1>1 DEF TypeOK
<1>4. /\ AlsaTypeOK' /\ regPorts' \subseteq JackPorts /\ leaving' \subseteq regPorts'
      /\ cables' \subseteq regPorts' \X regPorts'
  <2>1. CASE c[1] \in JackPorts
    BY <1>1, <2>1 DEF TypeOK, AlsaTypeOK, alsaVars, sequencer
  <2>2. CASE c[1] \notin JackPorts
    BY <1>1, <2>2, SubscriptionType DEF TypeOK, registry
  <2> QED BY <2>1, <2>2
<1>5. posted' \in BOOLEAN
  <2>1. CASE c[1] \in JackPorts
    <3>1. posted' = (posted \/ cables' /= cables)
      BY <1>1, <2>1
    <3> QED BY <3>1, Zenon
  <2>2. CASE c[1] \notin JackPorts
    BY <1>1, <2>2 DEF TypeOK
  <2> QED BY <2>1, <2>2
<1>6. TypeOK'
  BY <1>2, <1>3, <1>4, <1>5 DEF TypeOK, readVars
<1>7. OneSystem'
  BY <1>2, <1>3
     DEF OneSystem, PortsOf, mJackConnected, Output, Input, Listed, IsOutput, IsInput, Exported
<1> QED
  BY <1>2, <1>6, <1>7 DEF ReadsOneSystem, readVars

LEMMA ShownPreserved == Shown /\ [Next]_vars => Shown'
<1> SUFFICES ASSUME Shown, [Next]_vars PROVE Shown'
  OBVIOUS
<1>0. TypeOK
  BY DEF Shown
<1>1. CASE Reading
  BY <1>1, ReadPortShown, PortsReadShown, ReadCablesShown, DrawShown DEF Reading
<1>2. CASE Connect \/ Disconnect
  BY <1>2, ConnectShown, DisconnectShown
<1>3. CASE onAlsaReadable
  <2>1. AlsaTypeOK'
    <3>1. queue' = <<>> /\ overrun' = FALSE /\ UNCHANGED <<seqPorts, subs, exclusive, m_seq, subscribed>>
      BY <1>3 DEF onAlsaReadable, drain_events, sequencer
    <3> QED
      BY <1>0, <3>1, NothingQueued DEF TypeOK, AlsaTypeOK
  <2>2. /\ UNCHANGED <<jack, registry, posted, view, m_ports, readVars>>
        /\ pending' \in BOOLEAN
    BY <1>0, <1>3 DEF onAlsaReadable, schedulePortRefresh, TypeOK
  <2>3. TypeOK'
    BY <1>0, <2>1, <2>2 DEF TypeOK, registry, readVars
  <2> QED
    BY <2>2, <2>3, LeftAlone DEF mJackConnected
<1>4. CASE onPortsPosted
  <2>1. /\ UNCHANGED <<alsaVars, jack, registry, view, m_ports, readVars>>
        /\ pending' = TRUE /\ posted' = FALSE
    BY <1>4 DEF onPortsPosted, schedulePortRefresh
  <2>2. TypeOK'
    BY <1>0, <2>1 DEF TypeOK, AlsaTypeOK, alsaVars, sequencer, registry, readVars
  <2> QED
    BY <2>1, <2>2, LeftAlone DEF mJackConnected
<1>5. ASSUME StartReading(jack'), UNCHANGED <<alsaVars, posted>>, pending' \in BOOLEAN,
             jack' \in {"none", "live", "gone", "deaf"},
             regPorts' \subseteq JackPorts, leaving' \subseteq regPorts',
             cables' \subseteq regPorts' \X regPorts'
      PROVE  Shown'
  <2>1. /\ m_ports' \subseteq JackPorts
        /\ todo' \subseteq (IF mJackConnected THEN JackPorts ELSE Addresses)'
        /\ todo' \subseteq Places
        /\ found' = {} /\ wired' = {} /\ lingered' = {} /\ pc' = "ports"
        /\ view' = [of |-> IF mJackConnected' THEN "jack" ELSE "alsa", ports |-> {}, cables |-> {}]
    BY <1>0, <1>5, Starts
  <2>2. TypeOK'
    BY <1>0, <1>5, <2>1 DEF TypeOK, AlsaTypeOK, alsaVars, sequencer
  <2> QED
    BY <2>1, <2>2, StartsShown
<1>6. CASE RefreshTimer \/ ToolRefresh
  <2>1. /\ StartReading(jack') /\ pending' \in BOOLEAN
        /\ UNCHANGED <<alsaVars, jack, registry, posted>>
    BY <1>0, <1>6 DEF RefreshTimer, ToolRefresh, TypeOK
  <2> QED
    BY <1>0, <1>5, <2>1 DEF TypeOK, registry
<1>7. CASE dropJack
  <2>1. /\ jack' = "none" /\ regPorts' = {} /\ leaving' = {} /\ cables' = {}
        /\ StartReading(jack')
        /\ UNCHANGED <<alsaVars, posted, pending>>
    BY <1>7 DEF dropJack
  <2> QED
    BY <1>0, <1>5, <2>1 DEF TypeOK
<1>8. CASE connectJack
  <2>0. UNCHANGED <<alsaVars, posted, pending>> /\ pc = "idle"
    BY <1>8 DEF connectJack
  <2>1. ASSUME jack' \in {"live", "deaf"}, regPorts' \subseteq JackPorts, leaving' \subseteq regPorts',
               cables' \subseteq regPorts' \X regPorts', m_ports' \subseteq JackPorts,
               pc' = "ports", todo' = m_ports', Clear(jack'), found' = {}, wired' = {}, lingered' = {}
        PROVE  Shown'
    <3>1. mJackConnected' /\ view' = [of |-> "jack", ports |-> {}, cables |-> {}]
      BY <2>1 DEF Clear, mJackConnected
    <3>2. TypeOK'
      BY <1>0, <2>0, <2>1, <3>1 DEF TypeOK, AlsaTypeOK, alsaVars, sequencer, Places
    <3> QED
      BY <2>1, <3>1, <3>2, StartsShown
  <2>2. ASSUME jack' \in {"live", "deaf"},
               regPorts' \in IF jack' = "live" THEN SUBSET JackPorts ELSE {{}},
               cables' \in SUBSET {<<p, q>> : p \in jackOut \cap regPorts', q \in jackIn \cap regPorts'},
               m_ports' \in IF jack' = "live" THEN {regPorts'} ELSE SUBSET JackPorts
        PROVE  /\ regPorts' \subseteq JackPorts /\ cables' \subseteq regPorts' \X regPorts'
               /\ m_ports' \subseteq JackPorts
    BY <2>2
  <2>3. ASSUME mJackConnected, jack' = "none", m_ports' = {},
               regPorts' = {}, leaving' = {}, cables' = {}, UNCHANGED <<readVars, view>>
        PROVE  Shown'
    <3>1. TypeOK'
      BY <1>0, <2>0, <2>3 DEF TypeOK, AlsaTypeOK, alsaVars, sequencer, readVars
    <3> QED
      BY <2>0, <2>3, <3>1 DEF Shown, OneSystem, ReadsOneSystem, PortsOf, mJackConnected, readVars,
         Output, Input, Listed, IsOutput, IsInput, Exported
  <2> QED
    BY <1>8, <2>1, <2>2, <2>3 DEF connectJack
<1>9. CASE JackWorld \/ Settle \/ JackDies
  <2>1. /\ jack' \in {"live", "gone", "none", "deaf"} /\ (mJackConnected' <=> mJackConnected)
        /\ posted' \in BOOLEAN
        /\ UNCHANGED <<alsaVars, m_ports, pending, readVars, view>>
    BY <1>0, <1>9 DEF JackWorld, Settle, JackDies, TypeOK, mJackConnected
  <2>2. regPorts' \subseteq JackPorts /\ leaving' \subseteq regPorts'
    BY <1>0, <1>9 DEF JackWorld, Settle, JackDies, TypeOK
  <2>3. cables' \subseteq regPorts' \X regPorts'
    <3>1. CASE JackWorld
      <4>1. CASE UNCHANGED cables
        BY <1>0, <3>1, <4>1 DEF JackWorld, TypeOK
      <4>2. ASSUME NEW p \in regPorts, NEW q \in regPorts, UNCHANGED regPorts,
                   cables' = cables \ {<<p, q>>} \/ cables' = cables \cup {<<p, q>>}
            PROVE  cables' \subseteq regPorts' \X regPorts'
        BY <1>0, <4>2 DEF TypeOK
      <4> QED
        BY <3>1, <4>1, <4>2 DEF JackWorld
    <3>2. CASE Settle
      BY <1>0, <3>2 DEF Settle, TypeOK
    <3>3. CASE JackDies
      BY <3>3 DEF JackDies
    <3> QED BY <1>9, <3>1, <3>2, <3>3
  <2>4. TypeOK'
    BY <1>0, <2>1, <2>2, <2>3 DEF TypeOK, AlsaTypeOK, alsaVars, sequencer, readVars
  <2> QED
    BY <2>1, <2>4, LeftAlone
<1>10. CASE AlsaWorld
  <2>1. AlsaTypeOK' /\ UNCHANGED graphVars
    BY <1>0, <1>10, SequencerType DEF AlsaWorld, TypeOK
  <2>2. TypeOK'
    BY <1>0, <2>1 DEF TypeOK, graphVars, registry, readVars
  <2> QED
    BY <2>1, <2>2, LeftAlone DEF graphVars, mJackConnected
<1>11. CASE UNCHANGED vars
  <2>1. TypeOK'
    BY <1>0, <1>11 DEF TypeOK, AlsaTypeOK, vars, alsaVars, sequencer, graphVars, registry, readVars
  <2> QED
    BY <1>11, <2>1, LeftAlone DEF vars, graphVars, mJackConnected
<1> QED
  BY <1>1, <1>2, <1>3, <1>4, <1>6, <1>7, <1>8, <1>9, <1>10, <1>11 DEF Next

-----------------------------------------------------------------------------
(* What the sequencer and JACK keep to, whoever changes them.              *)

Heard == (overrun => queue /= <<>>) /\ (subscribed => m_seq)

LeavingKnown ==
  jack = "live" /\ ~posted /\ ~pending =>
    leaving \cap (IF pc = "idle" THEN view.ports ELSE found) \subseteq lingered

\* An announcement of a change makes the descriptor readable and is among what is read
\* then, as itself or as the loss of some.
LEMMA AnnouncedChange ==
  ASSUME AlsaTypeOK, Heard, Announce("change"), subscribed
  PROVE  (Readable /\ Changed)'
<1>1. CASE Len(queue) < QueueSize
  <2>1. queue' = Append(queue, "change")
    BY <1>1 DEF Announce
  <2>2. Len(queue) + 1 \in DOMAIN queue' /\ queue'[Len(queue) + 1] = "change"
    BY <2>1 DEF AlsaTypeOK
  <2>3. queue' /= <<>>
    BY <2>1 DEF AlsaTypeOK
  <2>4. m_seq'
    BY DEF Announce, Heard
  <2>5. Readable'
    BY <2>3, <2>4 DEF Readable
  <2>6. Changed'
    <3>1. \E i \in DOMAIN queue' : queue'[i] = "change"
      BY <2>2
    <3> QED
      BY <3>1, Zenon DEF Changed
  <2> QED
    BY <2>5, <2>6
<1>2. CASE Len(queue) = QueueSize
  <2>1. overrun' /\ m_seq'
    BY <1>2, Zenon DEF Announce, Heard
  <2>2. queue' /= <<>>
    BY <1>2 DEF Announce, AlsaTypeOK
  <2> QED
    BY <2>1, <2>2, Zenon DEF Readable, Changed
<1> QED
  BY <1>1, <1>2 DEF AlsaTypeOK

\* No announcement hides an earlier one.
LEMMA AnnouncementStays ==
  ASSUME AlsaTypeOK, NEW e, Announce(e), overrun => queue /= <<>>
  PROVE  /\ Readable /\ Changed => (Readable /\ Changed)'
         /\ overrun' => queue' /= <<>>
         /\ UNCHANGED <<m_seq, subscribed>>
<1>1. UNCHANGED <<m_seq, subscribed>>
  BY DEF Announce
<1>2. CASE subscribed /\ Len(queue) < QueueSize
  <2>1. queue' = Append(queue, e)
    BY <1>2 DEF Announce
  <2>2. queue' /= <<>> /\ \A i \in DOMAIN queue : i \in DOMAIN queue' /\ queue'[i] = queue[i]
    BY <2>1 DEF AlsaTypeOK
  <2>3. overrun => overrun'
    BY Zenon DEF Announce
  <2> QED
    BY <1>1, <2>2, <2>3 DEF Readable, Changed
<1>3. CASE ~(subscribed /\ Len(queue) < QueueSize)
  <2>1. queue' = queue
    BY <1>3 DEF Announce
  <2>2. overrun => overrun'
    BY Zenon DEF Announce
  <2>3. overrun' => queue' /= <<>>
    <3>1. overrun' => overrun \/ (subscribed /\ Len(queue) = QueueSize)
      BY Zenon DEF Announce
    <3>2. Len(queue) = QueueSize => queue /= <<>>
      BY DEF AlsaTypeOK
    <3> QED
      BY <2>1, <3>1, <3>2
  <2> QED
    BY <1>1, <2>1, <2>2, <2>3 DEF Readable, Changed
<1> QED
  BY <1>2, <1>3

\* What the sequencer's clients and ours do to it, and what is announced of it.
LEMMA SequencerSteps ==
  ASSUME AlsaTypeOK, Heard, CablesRun,
         \/ AlsaWorld
         \/ \E p, q, ok : connect_ports(p, q, ok) \/ disconnect_ports(p, q)
  PROVE  /\ \A s \in subs' : IsOutput(s[1]) /\ IsInput(s[2])
         /\ \A p, q \in seqPorts' : address[p] = address[q] => p = q
         /\ UNCHANGED <<m_seq, subscribed>>
         /\ Heard'
         /\ Readable /\ Changed => (Readable /\ Changed)'
         /\ subscribed /\ sequencer' /= sequencer => (Readable /\ Changed)'
<1> DEFINE Runs == /\ \A s \in subs' : IsOutput(s[1]) /\ IsInput(s[2])
                   /\ \A p, q \in seqPorts' : address[p] = address[q] => p = q
           Told == UNCHANGED alsaVars \/ \E e : Announce(e) /\ (e = "change" \/ UNCHANGED sequencer)
<1>1. ASSUME NEW p \in AlsaPorts, PortStart(p) PROVE Runs /\ Told
  BY <1>1 DEF PortStart, CablesRun
<1>2. ASSUME NEW p \in AlsaPorts, PortExit(p) PROVE Runs /\ Told
  BY <1>2 DEF PortExit, CablesRun
<1>3. ASSUME OtherProgram PROVE Runs /\ Told
  <2>1. CASE UNCHANGED sequencer
    BY <1>3, <2>1 DEF OtherProgram, CablesRun, sequencer
  <2>2. ASSUME NEW p \in seqPorts, NEW q \in seqPorts, IsOutput(p), IsInput(q), UNCHANGED seqPorts,
               subs' = subs \ {<<p, q>>} \/ subs' = subs \cup {<<p, q>>},
               Announce("change")
        PROVE  Runs /\ Told
    <3>1. subs' \subseteq subs \cup {<<p, q>>}
      BY <2>2
    <3> QED
      BY <2>2, <3>1 DEF CablesRun
  <2> QED
    BY <1>3, <2>1, <2>2 DEF OtherProgram
<1>4. ASSUME NEW p, NEW q, NEW ok, connect_ports(p, q, ok) PROVE Runs /\ Told
  <2>1. CASE UNCHANGED alsaVars
    BY <2>1 DEF alsaVars, sequencer, CablesRun
  <2>2. ASSUME NEW s, Permitted(s), subs' = subs \cup {s}, UNCHANGED seqPorts, Announce("change")
        PROVE  Runs /\ Told
    BY <2>2 DEF CablesRun, Permitted
  <2> QED
    BY <1>4, <2>1, <2>2 DEF connect_ports
<1>5. ASSUME NEW p, NEW q, disconnect_ports(p, q) PROVE Runs /\ Told
  <2>1. CASE UNCHANGED alsaVars
    BY <2>1 DEF alsaVars, sequencer, CablesRun
  <2>2. CASE ~UNCHANGED alsaVars
    BY <1>5, <2>2 DEF disconnect_ports, CablesRun
  <2> QED
    BY <2>1, <2>2
<1>6. Runs /\ Told
  BY <1>1, <1>2, <1>3, <1>4, <1>5 DEF AlsaWorld
<1>7. CASE UNCHANGED alsaVars
  <2>1. (Readable <=> Readable') /\ (Changed <=> Changed') /\ sequencer' = sequencer
    BY <1>7 DEF alsaVars, Readable, Changed
  <2>2. Heard' /\ UNCHANGED <<m_seq, subscribed>>
    BY <1>7 DEF alsaVars, Heard
  <2> QED
    BY <1>6, <2>1, <2>2
<1>8. ASSUME NEW e, Announce(e), e = "change" \/ UNCHANGED sequencer
      PROVE  /\ UNCHANGED <<m_seq, subscribed>>
             /\ Heard'
             /\ Readable /\ Changed => (Readable /\ Changed)'
             /\ subscribed /\ sequencer' /= sequencer => (Readable /\ Changed)'
  <2>1. /\ Readable /\ Changed => (Readable /\ Changed)'
        /\ overrun' => queue' /= <<>>
        /\ UNCHANGED <<m_seq, subscribed>>
    BY <1>8, AnnouncementStays DEF Heard
  <2>2. subscribed /\ sequencer' /= sequencer => (Readable /\ Changed)'
    BY <1>8, AnnouncedChange
  <2> QED
    BY <2>1, <2>2 DEF Heard
<1> QED
  BY <1>6, <1>7, <1>8

\* Cables run from outputs to inputs, and announcements are kept, after every step.
LEMMA CablesRunPreserved ==
  ASSUME TypeOK, CablesRun, Heard, [Next]_vars
  PROVE  CablesRun' /\ Heard'
<1> USE DEF CablesRun
<1>1. CASE \/ Reading \/ onPortsPosted \/ RefreshTimer \/ ToolRefresh \/ connectJack \/ dropJack
           \/ JackWorld \/ Settle \/ JackDies
  <2>1. UNCHANGED alsaVars
    BY <1>1 DEF Reading, ReadPort, PortsRead, ReadCables, Draw, onPortsPosted, RefreshTimer,
                ToolRefresh, connectJack, dropJack, JackWorld, Settle, JackDies
  <2>2. \A c \in cables' : c[1] \in jackOut /\ c[2] \in jackIn
    <3>1. CASE cables' \subseteq cables
      BY <3>1
    <3>2. ASSUME NEW p \in jackOut, NEW q \in jackIn, cables' \subseteq cables \cup {<<p, q>>}
          PROVE  \A c \in cables' : c[1] \in jackOut /\ c[2] \in jackIn
      BY <3>2
    <3>3. CASE JackWorld
      BY <3>1, <3>2, <3>3 DEF JackWorld
    <3>4. CASE connectJack
      BY <3>1, <3>4 DEF connectJack
    <3>5. CASE \/ Reading \/ onPortsPosted \/ RefreshTimer \/ ToolRefresh \/ dropJack
               \/ Settle \/ JackDies
      BY <3>1, <3>5 DEF Reading, ReadPort, PortsRead, ReadCables, Draw, onPortsPosted, RefreshTimer,
                        ToolRefresh, dropJack, Settle, JackDies, registry
    <3> QED
      BY <1>1, <3>3, <3>4, <3>5
  <2> QED
    BY <2>1, <2>2 DEF alsaVars, sequencer, Heard
<1>2. CASE onAlsaReadable
  <2>1. UNCHANGED <<sequencer, m_seq, subscribed, cables>> /\ overrun' = FALSE
    BY <1>2, Zenon DEF onAlsaReadable, drain_events, registry
  <2> QED
    BY <2>1 DEF sequencer, Heard
<1>3. CASE Connect
  <2>1. PICK p \in view.ports, q \in view.ports, ok \in BOOLEAN :
          /\ Output(p) /\ Input(q) /\ (p \in JackPorts <=> q \in JackPorts)
          /\ IF p \in JackPorts THEN JackConnect(p, q, ok)
             ELSE connect_ports(p, q, ok) /\ UNCHANGED <<registry, posted>>
    BY <1>3 DEF Connect
  <2>2. CASE p \in JackPorts
    <3>1. UNCHANGED alsaVars /\ cables' \subseteq cables \cup {<<p, q>>}
      BY <2>1, <2>2 DEF JackConnect
    <3>2. p \in jackOut /\ q \in jackIn
      BY <2>1, <2>2 DEF Output, Input
    <3> QED
      BY <3>1, <3>2 DEF alsaVars, sequencer, Heard
  <2>3. CASE p \notin JackPorts
    BY <2>1, <2>3, SequencerSteps DEF registry, TypeOK
  <2> QED
    BY <2>2, <2>3
<1>4. CASE Disconnect
  <2>1. PICK c \in view.cables :
          IF c[1] \in JackPorts
          THEN /\ cables' = IF jack = "live" THEN cables \ {c} ELSE cables
               /\ posted' = (posted \/ cables' /= cables)
               /\ UNCHANGED <<alsaVars, regPorts, leaving>>
          ELSE disconnect_ports(c[1], c[2]) /\ UNCHANGED <<registry, posted>>
    BY <1>4 DEF Disconnect
  <2>2. CASE c[1] \in JackPorts
    <3>1. UNCHANGED alsaVars /\ cables' \subseteq cables
      BY <2>1, <2>2
    <3> QED
      BY <3>1 DEF alsaVars, sequencer, Heard
  <2>3. CASE c[1] \notin JackPorts
    BY <2>1, <2>3, SequencerSteps DEF registry, TypeOK
  <2> QED
    BY <2>2, <2>3
<1>5. CASE AlsaWorld
  <2>1. UNCHANGED cables
    BY <1>5 DEF AlsaWorld, graphVars, registry
  <2> QED
    BY <1>5, <2>1, SequencerSteps DEF TypeOK
<1>6. CASE UNCHANGED vars
  BY <1>6 DEF vars, alsaVars, sequencer, graphVars, registry, Heard
<1> QED
  BY <1>1, <1>2, <1>3, <1>4, <1>5, <1>6 DEF Next

\* A leaving port that a refresh finds is known to linger, and one announced later has the
\* refresh done again.
LEMMA LeavingKnownPreserved ==
  ASSUME Shown, LeavingKnown, [Next]_vars
  PROVE  LeavingKnown'
<1> USE DEF LeavingKnown
<1>1. CASE ReadPort
  <2>1. PICK a \in todo :
          /\ found' = found \cup {p \in Ports : at(p) = a /\ IsThere(p)}
          /\ lingered' = lingered \cup {p \in leaving : at(p) = a}
    BY <1>1 DEF ReadPort
  <2>2. UNCHANGED <<jack, leaving, posted, pending, pc>> /\ pc = "ports"
    BY <1>1 DEF ReadPort, registry
  <2> QED
    BY <2>1, <2>2
<1>2. CASE PortsRead \/ ReadCables
  <2>1. UNCHANGED <<jack, leaving, posted, pending, found, lingered>> /\ pc /= "idle" /\ pc' /= "idle"
    BY <1>2 DEF PortsRead, ReadCables, registry
  <2> QED
    BY <2>1
<1>3. CASE Draw
  <2>1. /\ UNCHANGED <<jack, leaving, posted, pending, lingered>> /\ pc = "cables" /\ pc' = "idle"
        /\ view' = [view EXCEPT !.ports = found, !.cables = Drawn]
    BY <1>3 DEF Draw, registry
  <2>2. view'.ports = found
    BY <2>1 DEF Shown, TypeOK
  <2> QED
    BY <2>1, <2>2
<1>4. CASE onAlsaReadable \/ onPortsPosted
  <2>1. UNCHANGED <<jack, leaving, readVars, view>>
    BY <1>4 DEF onAlsaReadable, onPortsPosted, schedulePortRefresh, registry
  <2>2. pending' \/ UNCHANGED <<posted, pending>>
    BY <1>4 DEF onAlsaReadable, onPortsPosted, schedulePortRefresh
  <2> QED
    BY <2>1, <2>2 DEF readVars
<1>5. CASE RefreshTimer \/ ToolRefresh \/ dropJack
  <2>1. pc' = "ports" /\ found' = {}
    BY <1>5 DEF RefreshTimer, ToolRefresh, dropJack, StartReading
  <2> QED
    BY <2>1
<1>6. CASE connectJack
  <2>1. jack' = "none" \/ (pc' = "ports" /\ found' = {})
    BY <1>6 DEF connectJack
  <2> QED
    BY <2>1
<1>7. CASE Connect
  <2>1. PICK p \in view.ports, q \in view.ports, ok \in BOOLEAN :
          /\ IF p \in JackPorts THEN JackConnect(p, q, ok)
             ELSE connect_ports(p, q, ok) /\ UNCHANGED <<registry, posted>>
          /\ view' = IF ok THEN [view EXCEPT !.cables = @ \cup {<<p, q>>}] ELSE view
    BY <1>7 DEF Connect
  <2>2. UNCHANGED <<jack, pending, readVars>> /\ view'.ports = view.ports
    BY <1>7, <2>1 DEF Connect, Shown, TypeOK
  <2>3. leaving' = leaving
    BY <2>1 DEF JackConnect, registry
  <2>4. posted => posted'
    <3>1. CASE p \in JackPorts
      <4>1. JackConnect(p, q, ok)
        BY <2>1, <3>1
      <4> QED BY <4>1, Zenon DEF JackConnect
    <3>2. CASE p \notin JackPorts
      BY <2>1, <3>2
    <3> QED BY <3>1, <3>2
  <2> QED
    BY <2>2, <2>3, <2>4 DEF readVars
<1>8. CASE Disconnect
  <2>1. PICK c \in view.cables :
          /\ IF c[1] \in JackPorts
             THEN /\ cables' = IF jack = "live" THEN cables \ {c} ELSE cables
                  /\ posted' = (posted \/ cables' /= cables)
                  /\ UNCHANGED <<alsaVars, regPorts, leaving>>
             ELSE disconnect_ports(c[1], c[2]) /\ UNCHANGED <<registry, posted>>
          /\ view' = [view EXCEPT !.cables = @ \ {c}]
    BY <1>8 DEF Disconnect
  <2>2. UNCHANGED <<jack, pending, readVars>> /\ view'.ports = view.ports
    BY <1>8, <2>1 DEF Disconnect, Shown, TypeOK
  <2>3. leaving' = leaving
    BY <2>1 DEF registry
  <2>4. posted => posted'
    <3>1. CASE c[1] \in JackPorts
      <4>1. posted' = (posted \/ cables' /= cables)
        BY <2>1, <3>1
      <4> QED BY <4>1, Zenon
    <3>2. CASE c[1] \notin JackPorts
      BY <2>1, <3>2
    <3> QED BY <3>1, <3>2
  <2> QED
    BY <2>2, <2>3, <2>4 DEF readVars
<1>9. CASE JackWorld \/ Settle \/ JackDies
  <2>1. posted' \/ leaving' = {}
    BY <1>9 DEF JackWorld, Settle, JackDies
  <2> QED
    BY <2>1
<1>10. CASE AlsaWorld \/ UNCHANGED vars
  <2>1. UNCHANGED <<jack, leaving, posted, pending, readVars, view>>
    BY <1>10 DEF AlsaWorld, vars, graphVars, registry
  <2> QED
    BY <2>1 DEF readVars
<1> QED
  BY <1>1, <1>2, <1>3, <1>4, <1>5, <1>6, <1>7, <1>8, <1>9, <1>10 DEF Next, Reading

-----------------------------------------------------------------------------
(* Changes are noticed.                                                    *)

NothingMissed == StaleIsNoticed /\ ReadSoFar

\* Nothing is to be shown of a step that has a refresh due.
LEMMA Noticed ==
  ASSUME RefreshDue' \/ ~Followed'
  PROVE  NothingMissed'
BY DEF NothingMissed, StaleIsNoticed, ReadSoFar

\* A canvas at rest that shows what there is will do.
LEMMA ShownIsNoticed ==
  ASSUME pc' = "idle", Followed' /\ ~RefreshDue' => Shows' \/ Stranded'
  PROVE  NothingMissed'
BY DEF NothingMissed, StaleIsNoticed, ReadSoFar

\* What is followed of JACK, and not due, is a client that answers.
LEMMA Answers ==
  ASSUME TypeOK, Followed, ~RefreshDue
  PROVE  jack \in {"live", "none"}
BY DEF TypeOK, Followed, RefreshDue, mJackConnected

\* What a step that does not concern the announcements keeps due.
LEMMA StillDue ==
  ASSUME RefreshDue, UNCHANGED alsaVars, jack' = jack,
         pending => pending', posted => posted'
  PROVE  RefreshDue'
BY DEF RefreshDue, alsaVars, Readable, Changed, mJackConnected

\* Nothing is to be noticed of a step that leaves canvas, ports and cables alone.
LEMMA Undisturbed ==
  ASSUME NothingMissed, RefreshDue => RefreshDue',
         UNCHANGED <<jack, regPorts, cables, sequencer, m_seq, subscribed, readVars, view>>
  PROVE  NothingMissed'
<1>1. /\ Truth' = Truth /\ Connections' = Connections /\ (Followed' <=> Followed)
      /\ (Stranded' <=> Stranded)
  BY DEF Truth, Connections, Followed, Stranded, mJackConnected, sequencer, Listed, Exported,
         IsOutput, IsInput
<1>2. Shows' <=> Shows
  BY <1>1 DEF Shows, Lingers, Refused, Shares, sequencer, readVars
<1>3. UNCHANGED <<pc, todo, found, wired, lingered>>
  BY DEF readVars
<1>4. ReadSoFar'
  BY <1>1, <1>3 DEF NothingMissed, ReadSoFar, Lingers, Link, at
<1> QED
  BY <1>1, <1>2, <1>3, <1>4 DEF NothingMissed, StaleIsNoticed

\* Reading changes none of what there is.
LEMMA ReadingOnly ==
  ASSUME UNCHANGED <<alsaVars, jack, registry, posted, pending>>
  PROVE  /\ Truth' = Truth /\ Connections' = Connections /\ (Followed' <=> Followed)
         /\ RefreshDue => RefreshDue'
<1>1. Truth' = Truth /\ Connections' = Connections /\ (Followed' <=> Followed)
  BY DEF Truth, Connections, Followed, mJackConnected, alsaVars, sequencer, registry, Listed,
         Exported, IsOutput, IsInput
<1>2. RefreshDue => RefreshDue'
  BY StillDue
<1> QED
  BY <1>1, <1>2

\* A refresh that begins has read nothing, and has the ports there are to read.
LEMMA ReadingStarts ==
  ASSUME TypeOK', pc' = "ports", found' = {}, wired' = {},
         jack' = "live" => todo' = regPorts',
         jack' = "none" => todo' = Addresses
  PROVE  NothingMissed'
<1>1. CASE jack' \notin {"live", "none"}
  <2>1. RefreshDue' \/ ~Followed'
    BY <1>1 DEF RefreshDue, Followed, mJackConnected, TypeOK
  <2> QED
    BY <2>1, Noticed
<1>2. CASE jack' \in {"live", "none"}
  <2>1. ASSUME NEW p \in Truth'.ports PROVE at(p) \in todo'
    <3>1. CASE jack' = "live"
      <4>1. p \in regPorts' /\ at(p) = p
        BY <2>1, <3>1, Known DEF Truth, mJackConnected, TypeOK
      <4> QED
        BY <3>1, <4>1
    <3>2. CASE jack' = "none"
      <4>1. p \in AlsaPorts
        BY <2>1, <3>2 DEF Truth, mJackConnected, TypeOK, AlsaTypeOK
      <4> QED
        BY <3>2, <4>1, Known
    <3> QED
      BY <1>2, <3>1, <3>2
  <2>2. {p \in Truth'.ports : at(p) \notin todo'} \subseteq found'
    BY <2>1
  <2> QED
    BY <2>2 DEF NothingMissed, StaleIsNoticed, ReadSoFar, at
<1> QED
  BY <1>1, <1>2

LEMMA ReadPortNotices ==
  ASSUME GraphInv, ReadPort
  PROVE  NothingMissed'
<1> USE DEF GraphInv
<1>1. /\ UNCHANGED <<alsaVars, jack, registry, posted, m_ports, pending, pc, wired, view>>
      /\ pc = "ports"
  BY DEF ReadPort
<1>2. Truth' = Truth /\ (Followed' <=> Followed) /\ (RefreshDue => RefreshDue')
  BY <1>1, ReadingOnly
<1>3. PICK a \in todo :
        /\ todo' = todo \ {a}
        /\ found' = found \cup {p \in Ports : at(p) = a /\ IsThere(p)}
        /\ lingered' = lingered \cup {p \in leaving : at(p) = a}
  BY DEF ReadPort
<1>4. a \in IF mJackConnected THEN JackPorts ELSE Addresses
  BY <1>1, <1>3 DEF ReadsOneSystem
<1>5. Truth.ports \subseteq Ports
  BY DEF Truth, TypeOK, AlsaTypeOK, Ports
<1>6. ASSUME Followed, ~RefreshDue
      PROVE  /\ {p \in Truth.ports : at(p) \notin todo'} \subseteq found'
             /\ found' \subseteq Truth.ports \cup lingered'
  <2>1. jack \in {"live", "none"}
    BY <1>6, Answers
  <2>2. \A p \in Ports : at(p) = a => (IsThere(p) <=> p \in Truth.ports)
    BY <1>4, <2>1, Answered
  <2>3. /\ {p \in Truth.ports : at(p) \notin todo} \subseteq found
        /\ found \subseteq Truth.ports \cup lingered
    BY <1>1, <1>6 DEF ReadSoFar
  <2>4. ASSUME NEW p \in Truth.ports, at(p) \notin todo' PROVE p \in found'
    BY <1>3, <1>5, <2>2, <2>3, <2>4
  <2>5. ASSUME NEW p \in found' PROVE p \in Truth.ports \cup lingered'
    BY <1>3, <2>2, <2>3, <2>5
  <2> QED
    BY <2>4, <2>5
<1>7. wired' = {}
  BY <1>1 DEF ReadsOneSystem
<1> QED
  BY <1>1, <1>2, <1>6, <1>7 DEF NothingMissed, StaleIsNoticed, ReadSoFar, at

\* Every cable begins at a port that was found.
LEMMA PortsReadNotices ==
  ASSUME GraphInv, PortsRead
  PROVE  NothingMissed'
<1> USE DEF GraphInv
<1>1. /\ UNCHANGED <<alsaVars, jack, registry, posted, pending, found, wired, lingered, view>>
      /\ pc = "ports" /\ todo = {} /\ pc' = "cables"
      /\ jack = "live" => todo' = {p \in found : Output(p)}
      /\ jack = "none" => todo' = Addresses
  BY DEF PortsRead
<1>2. /\ Truth' = Truth /\ Connections' = Connections /\ (Followed' <=> Followed)
      /\ RefreshDue => RefreshDue'
  BY <1>1, ReadingOnly
<1>3. ASSUME Followed, ~RefreshDue
      PROVE  /\ Truth.ports \subseteq found /\ found \subseteq Truth.ports \cup lingered
             /\ \A c \in Connections : at(c[1]) \in todo'
  <2>1. Truth.ports \subseteq found /\ found \subseteq Truth.ports \cup lingered
    BY <1>1, <1>3 DEF ReadSoFar
  <2>2. CASE jack = "live"
    <3>1. Truth.ports = regPorts /\ Connections = cables
      BY <2>2 DEF Truth, Connections, mJackConnected
    <3>2. ASSUME NEW c \in cables PROVE at(c[1]) \in todo'
      <4>1. c[1] \in regPorts /\ c[1] \in jackOut /\ c[1] \in JackPorts
        BY DEF TypeOK, CablesRun
      <4> QED
        BY <1>1, <2>1, <2>2, <3>1, <4>1, Known DEF Output
    <3> QED
      BY <2>1, <3>1, <3>2
  <2>3. CASE jack = "none"
    <3>1. Connections \subseteq subs
      BY <2>3 DEF Connections
    <3>2. ASSUME NEW s \in subs PROVE s[1] \in AlsaPorts
      BY DEF TypeOK, AlsaTypeOK
    <3> QED
      BY <1>1, <2>1, <2>3, <3>1, <3>2, Known
  <2> QED
    BY <1>3, <2>2, <2>3, Answers
<1>4. wired' = {}
  BY <1>1 DEF ReadsOneSystem
<1> QED
  BY <1>1, <1>2, <1>3, <1>4 DEF NothingMissed, StaleIsNoticed, ReadSoFar, at

LEMMA ReadCablesNotices ==
  ASSUME GraphInv, ReadCables
  PROVE  NothingMissed'
<1> USE DEF GraphInv
<1>1. /\ UNCHANGED <<alsaVars, jack, registry, posted, m_ports, pending, pc, found, lingered, view>>
      /\ pc = "cables"
  BY DEF ReadCables
<1>2. /\ Truth' = Truth /\ Connections' = Connections /\ (Followed' <=> Followed)
      /\ RefreshDue => RefreshDue'
  BY <1>1, ReadingOnly
<1>3. PICK a \in todo :
        /\ todo' = todo \ {a}
        /\ wired' = wired \cup {Link(c) : c \in {d \in Connections : at(d[1]) = a}}
  BY DEF ReadCables
<1>4. ASSUME Followed, ~RefreshDue
      PROVE  /\ \A c \in Connections : at(c[1]) \notin todo' => Link(c) \in wired'
             /\ \A w \in wired' : Lingers(w) \/ \E c \in Connections : Link(c) = w
  <2>1. /\ \A c \in Connections : at(c[1]) \notin todo => Link(c) \in wired
        /\ \A w \in wired : Lingers(w) \/ \E c \in Connections : Link(c) = w
    BY <1>1, <1>4 DEF ReadSoFar
  <2> QED
    BY <1>3, <2>1
<1>5. Followed /\ ~RefreshDue =>
        Truth.ports \subseteq found /\ found \subseteq Truth.ports \cup lingered
  BY <1>1 DEF ReadSoFar
<1> QED
  BY <1>1, <1>2, <1>4, <1>5 DEF NothingMissed, StaleIsNoticed, ReadSoFar, Lingers, Link, at

\* A cable found where a subscription is is that subscription: no two ports of the
\* sequencer share an address.
LEMMA SameLink ==
  ASSUME TypeOK, CablesRun, NEW s \in subs, NEW c \in seqPorts \X seqPorts, Link(s) = Link(c)
  PROVE  s = c
<1>1. PICK p \in seqPorts, q \in seqPorts : s = <<p, q>>
  BY DEF TypeOK, AlsaTypeOK
<1>2. PICK x \in seqPorts, y \in seqPorts : c = <<x, y>>
  OBVIOUS
<1>3. at(p) = at(x) /\ at(q) = at(y)
  BY <1>1, <1>2 DEF Link
<1>4. \A r \in seqPorts : at(r) = address[r]
  BY Known DEF TypeOK, AlsaTypeOK
<1>5. p = x /\ q = y
  BY <1>3, <1>4 DEF CablesRun
<1> QED
  BY <1>1, <1>2, <1>5

\* A cable of JACK is known by the names of its ends.
LEMMA NamedLink ==
  ASSUME NEW c \in JackPorts \X JackPorts
  PROVE  Link(c) = c
BY Known DEF Link

\* What is drawn of what was read without a disturbance.
LEMMA DrawnIsTrue ==
  ASSUME GraphInv, pc = "cables", todo = {}, Followed, ~RefreshDue
  PROVE  /\ Truth.ports \subseteq found /\ Truth.cables \subseteq Drawn
         /\ found \subseteq Truth.ports \cup lingered
         /\ \A c \in Drawn \ Truth.cables : Lingers(c)
<1> USE DEF GraphInv
<1>1. /\ Truth.ports \subseteq found /\ found \subseteq Truth.ports \cup lingered
      /\ \A c \in Connections : Link(c) \in wired
      /\ \A w \in wired : Lingers(w) \/ \E c \in Connections : Link(c) = w
  BY DEF ReadSoFar
<1>2. jack \in {"live", "none"}
  BY Answers
<1>3. found \subseteq PortsOf(view.of) /\ ~Stranded
  BY DEF ReadsOneSystem
<1>4. CASE jack = "live"
  <2>1. Truth = [ports |-> regPorts, cables |-> cables] /\ Connections = cables
    BY <1>4 DEF Truth, Connections, mJackConnected
  <2>2. found \subseteq JackPorts
    BY <1>3, <1>4 DEF OneSystem, PortsOf, mJackConnected
  <2>3. cables \subseteq JackPorts \X JackPorts
    BY DEF TypeOK
  <2>4. ASSUME NEW c \in cables PROVE c \in Drawn
    <3>1. PICK p \in regPorts, q \in regPorts : c = <<p, q>>
      BY DEF TypeOK
    <3>2. p \in jackOut /\ q \in jackIn /\ p \in JackPorts /\ q \in JackPorts
      BY <3>1 DEF TypeOK, CablesRun
    <3>3. Output(p) /\ Input(q)
      BY <3>2 DEF Output, Input
    <3> QED
      BY <1>1, <2>1, <3>1, <3>3 DEF Drawn
  <2>5. ASSUME NEW c \in Drawn, c \notin cables PROVE Lingers(c)
    <3>1. Link(c) \in wired /\ c \in JackPorts \X JackPorts
      BY <2>2 DEF Drawn
    <3>2. Link(c) = c
      BY <3>1, NamedLink
    <3>3. \A d \in cables : Link(d) = d
      BY <2>3, NamedLink
    <3> QED
      BY <1>1, <2>1, <2>5, <3>1, <3>2, <3>3
  <2> QED
    BY <1>1, <2>1, <2>4, <2>5
<1>5. CASE jack = "none"
  <2>1. Truth = [ports  |-> {p \in seqPorts : Listed(p) /\ m_seq},
                 cables |-> {s \in subs : m_seq /\ Listed(s[1]) /\ Listed(s[2])}]
    BY <1>5 DEF Truth, mJackConnected
  <2>2. Connections = {s \in subs : m_seq /\ owner[s[1]] \notin {Ourselves, System}}
    BY <1>5 DEF Connections
  <2>3. lingered = {}
    BY <1>5 DEF ReadsOneSystem, mJackConnected
  <2>4. found = Truth.ports
    BY <1>1, <2>3
  <2>5. ASSUME NEW s \in subs, m_seq, Listed(s[1]), Listed(s[2]) PROVE s \in Drawn
    <3>1. PICK p \in seqPorts, q \in seqPorts : s = <<p, q>>
      BY DEF TypeOK, AlsaTypeOK
    <3>2. IsOutput(p) /\ IsInput(q) /\ p \notin JackPorts /\ q \notin JackPorts
      BY <3>1, Known DEF TypeOK, AlsaTypeOK, CablesRun
    <3>3. Output(p) /\ Input(q) /\ p \in found /\ q \in found
      BY <2>1, <2>4, <2>5, <3>1, <3>2 DEF Output, Input
    <3>4. s \in Connections
      BY <2>2, <2>5 DEF Listed, Exported
    <3> QED
      BY <1>1, <3>1, <3>3, <3>4 DEF Drawn
  <2>6. ASSUME NEW c \in Drawn PROVE c \in Truth.cables
    <3>1. c \in found \X found /\ Link(c) \in wired
      BY DEF Drawn
    <3>2. c \in seqPorts \X seqPorts /\ Listed(c[1]) /\ Listed(c[2]) /\ m_seq
      BY <2>1, <2>4, <3>1
    <3>3. PICK s \in subs : Link(s) = Link(c)
      BY <1>1, <2>2, <2>3, <3>1 DEF Lingers
    <3>4. s = c
      BY <3>2, <3>3, SameLink
    <3> QED
      BY <2>1, <3>2, <3>4
  <2> QED
    BY <2>1, <2>4, <2>5, <2>6
<1> QED
  BY <1>2, <1>4, <1>5

LEMMA DrawNotices ==
  ASSUME GraphInv, Draw
  PROVE  NothingMissed'
<1> USE DEF GraphInv
<1>1. /\ UNCHANGED <<alsaVars, jack, registry, posted, m_ports, pending, lingered>>
      /\ pc = "cables" /\ todo = {} /\ pc' = "idle"
      /\ view' = [view EXCEPT !.ports = found, !.cables = Drawn]
  BY DEF Draw
<1>2. /\ Truth' = Truth /\ (Followed' <=> Followed) /\ (RefreshDue => RefreshDue')
  BY <1>1, ReadingOnly
<1>3. view'.ports = found /\ view'.cables = Drawn
  BY <1>1 DEF TypeOK
<1>4. ASSUME Followed, ~RefreshDue PROVE Shows'
  <2>1. /\ Truth.ports \subseteq found /\ Truth.cables \subseteq Drawn
        /\ found \subseteq Truth.ports \cup lingered
        /\ \A c \in Drawn \ Truth.cables : Lingers(c)
    BY <1>1, <1>4, DrawnIsTrue
  <2> QED
    BY <1>1, <1>2, <1>3, <2>1 DEF Shows, Lingers
<1> QED
  BY <1>1, <1>2, <1>4, ShownIsNoticed

\* The canvas at rest after the user's cable: it shows one more, which is there or which
\* another program's exclusive subscription has refused.
LEMMA MoreShown ==
  ASSUME Shows, UNCHANGED lingered, Truth' = Truth, exclusive' = exclusive,
         view'.ports = view.ports,
         NEW c, view'.cables = view.cables \cup {c}, c \in Truth.cables \/ Refused(c)
  PROVE  Shows'
BY DEF Shows, Lingers, Refused, Shares

\* And after a cable that was not there has been erased.
LEMMA LessShown ==
  ASSUME Shows, UNCHANGED lingered, Truth' = Truth, exclusive' = exclusive,
         view'.ports = view.ports,
         NEW c, view'.cables = view.cables \ {c}, c \notin Truth.cables
  PROVE  Shows'
BY DEF Shows, Lingers, Refused, Shares

LEMMA ConnectNotices ==
  ASSUME GraphInv, Connect
  PROVE  NothingMissed'
<1> USE DEF GraphInv
<1>1. PICK p \in view.ports, q \in view.ports, ok \in BOOLEAN :
        /\ Output(p) /\ Input(q) /\ (p \in JackPorts <=> q \in JackPorts)
        /\ IF p \in JackPorts THEN JackConnect(p, q, ok)
           ELSE connect_ports(p, q, ok) /\ UNCHANGED <<registry, posted>>
        /\ view' = IF ok THEN [view EXCEPT !.cables = @ \cup {<<p, q>>}] ELSE view
  BY DEF Connect
<1>2. UNCHANGED <<jack, m_ports, pending, readVars>> /\ pc = "idle"
  BY DEF Connect
<1>3. UNCHANGED <<pc, lingered>>
  BY <1>2 DEF readVars
<1>4. /\ view'.ports = view.ports /\ view'.of = view.of
      /\ ok => view'.cables = view.cables \cup {<<p, q>>}
      /\ ~ok => view' = view
  BY <1>1 DEF TypeOK
<1>5. Followed /\ ~RefreshDue /\ ~Stranded => Shows
  BY <1>2 DEF StaleIsNoticed
<1>6. ASSUME Truth' = Truth, exclusive' = exclusive, Followed' <=> Followed, RefreshDue => RefreshDue',
             Followed /\ ~RefreshDue /\ Shows /\ ok => <<p, q>> \in Truth.cables \/ Refused(<<p, q>>)
      PROVE  NothingMissed'
  <2>1. Stranded' <=> Stranded
    BY <1>2, <1>4 DEF Stranded, mJackConnected
  <2>2. ASSUME Followed, ~RefreshDue, Shows PROVE Shows'
    <3>1. CASE ok
      BY <1>3, <1>4, <1>6, <2>2, <3>1, MoreShown
    <3>2. CASE ~ok
      BY <1>3, <1>4, <1>6, <2>2, <3>2 DEF Shows, Lingers, Refused, Shares
    <3> QED
      BY <3>1, <3>2
  <2> QED
    BY <1>2, <1>3, <1>5, <1>6, <2>1, <2>2, ShownIsNoticed
<1>7. CASE p \in JackPorts
  <2>1. JackConnect(p, q, ok)
    BY <1>1, <1>7
  <2>2. UNCHANGED <<alsaVars, regPorts>>
    BY <2>1 DEF JackConnect
  <2>3. CASE cables' /= cables
    BY <2>1, <2>3, Noticed, Zenon DEF JackConnect, RefreshDue
  <2>4. CASE cables' = cables
    <3>1. posted => posted'
      BY <2>1, Zenon DEF JackConnect
    <3>2. RefreshDue => RefreshDue'
      BY <1>2, <2>2, <3>1, StillDue
    <3>3. Truth' = Truth /\ exclusive' = exclusive /\ (Followed' <=> Followed)
      BY <1>2, <2>2, <2>4 DEF Truth, Followed, mJackConnected, alsaVars, sequencer, Listed, Exported,
                              IsOutput, IsInput
    <3>4. ok => <<p, q>> \in Truth.cables
      <4>1. ok => OnServer(p, q) /\ <<p, q>> \in cables
        BY <2>1, <2>4 DEF JackConnect
      <4> QED
        BY <4>1 DEF Truth, OnServer, mJackConnected
    <3> QED
      BY <1>6, <3>2, <3>3, <3>4
  <2> QED
    BY <2>3, <2>4
<1>8. CASE p \notin JackPorts
  <2>1. connect_ports(p, q, ok) /\ UNCHANGED <<registry, posted>>
    BY <1>1, <1>8
  <2>2. ~mJackConnected /\ ~mJackConnected'
    BY <1>2, <1>8 DEF OneSystem, PortsOf, mJackConnected
  <2>3. /\ UNCHANGED <<m_seq, subscribed>> /\ (Readable /\ Changed => (Readable /\ Changed)')
        /\ subscribed /\ sequencer' /= sequencer => (Readable /\ Changed)'
    BY <2>1, SequencerSteps DEF TypeOK, Announced, Heard
  <2>4. RefreshDue => RefreshDue'
    BY <1>2, <2>1, <2>2, <2>3 DEF RefreshDue
  <2>5. CASE sequencer' /= sequencer
    <3>1. RefreshDue' \/ ~Followed'
      BY <2>2, <2>3, <2>5 DEF RefreshDue, Followed
    <3> QED
      BY <3>1, Noticed
  <2>6. CASE UNCHANGED sequencer
    <3>1. Truth' = Truth /\ exclusive' = exclusive /\ (Followed' <=> Followed)
      BY <2>2, <2>3, <2>6 DEF Truth, Followed, sequencer, Listed, Exported, IsOutput, IsInput
    <3>2. ASSUME Shows, ok PROVE <<p, q>> \in Truth.cables \/ Refused(<<p, q>>)
      <4>1. PICK s \in Addressed(p, q) :
              m_seq /\ (Busy(s) \/ (~Busy(s) /\ subs' = subs \cup {s}))
        BY <2>1, <3>2 DEF connect_ports
      <4>2. s \in subs \/ \E x \in exclusive : Shares(s, x)
        BY <2>6, <4>1 DEF sequencer, Busy
      <4>3. p \in Truth.ports /\ q \in Truth.ports
        BY <1>1, <1>8, <3>2 DEF Shows, TypeOK
      <4>4. p \in seqPorts /\ q \in seqPorts /\ Listed(p) /\ Listed(q)
        BY <2>2, <4>3 DEF Truth
      <4>5. s = <<p, q>>
        BY <4>1, <4>4 DEF Addressed, AtAddressOf, CablesRun
      <4>6. s \in subs => <<p, q>> \in Truth.cables
        BY <2>2, <4>1, <4>4, <4>5 DEF Truth
      <4>7. s \notin subs => Refused(<<p, q>>)
        BY <4>2, <4>5 DEF Refused, TypeOK, AlsaTypeOK
      <4> QED
        BY <4>6, <4>7
    <3> QED
      BY <1>6, <2>4, <3>1, <3>2
  <2> QED
    BY <2>5, <2>6
<1> QED
  BY <1>7, <1>8

LEMMA DisconnectNotices ==
  ASSUME GraphInv, Disconnect
  PROVE  NothingMissed'
<1> USE DEF GraphInv
<1>1. PICK c \in view.cables :
        /\ IF c[1] \in JackPorts
           THEN /\ cables' = IF jack = "live" THEN cables \ {c} ELSE cables
                /\ posted' = (posted \/ cables' /= cables)
                /\ UNCHANGED <<alsaVars, regPorts, leaving>>
           ELSE disconnect_ports(c[1], c[2]) /\ UNCHANGED <<registry, posted>>
        /\ view' = [view EXCEPT !.cables = @ \ {c}]
  BY DEF Disconnect
<1>2. UNCHANGED <<jack, m_ports, pending, readVars>> /\ pc = "idle"
  BY DEF Disconnect
<1>3. UNCHANGED <<pc, lingered>>
  BY <1>2 DEF readVars
<1>4. view'.ports = view.ports /\ view'.of = view.of /\ view'.cables = view.cables \ {c}
  BY <1>1 DEF TypeOK
<1>5. Followed /\ ~RefreshDue /\ ~Stranded => Shows
  BY <1>2 DEF StaleIsNoticed
<1>6. ASSUME Truth' = Truth, exclusive' = exclusive, Followed' <=> Followed, RefreshDue => RefreshDue',
             Followed /\ ~RefreshDue /\ ~Stranded => c \notin Truth.cables
      PROVE  NothingMissed'
  <2>1. Stranded' <=> Stranded
    BY <1>2, <1>4 DEF Stranded, mJackConnected
  <2>2. ASSUME Followed, ~RefreshDue, ~Stranded PROVE Shows'
    BY <1>3, <1>4, <1>5, <1>6, <2>2, LessShown
  <2> QED
    BY <1>2, <1>3, <1>6, <2>1, <2>2, ShownIsNoticed
<1>7. CASE c[1] \in JackPorts
  <2>1. UNCHANGED <<alsaVars, regPorts>>
    BY <1>1, <1>7
  <2>2. CASE cables' /= cables
    <3>1. posted' = (posted \/ cables' /= cables)
      BY <1>1, <1>7
    <3> QED
      BY <2>2, <3>1, Noticed, Zenon DEF RefreshDue
  <2>3. CASE cables' = cables
    <3>1. posted => posted'
      BY <1>1, <1>7, Zenon
    <3>2. RefreshDue => RefreshDue'
      BY <1>2, <2>1, <3>1, StillDue
    <3>3. Truth' = Truth /\ exclusive' = exclusive /\ (Followed' <=> Followed)
      BY <1>2, <2>1, <2>3 DEF Truth, Followed, mJackConnected, alsaVars, sequencer, Listed, Exported,
                              IsOutput, IsInput
    <3>4. ASSUME Followed, ~RefreshDue, ~Stranded PROVE c \notin Truth.cables
      <4>1. view.of = "jack"
        BY <1>7, ShownCable DEF OneSystem, PortsOf, TypeOK
      <4>2. jack = "live"
        BY <3>4, <4>1, Answers DEF Stranded, mJackConnected
      <4>3. c \notin cables
        BY <1>1, <1>7, <2>3, <4>2
      <4> QED
        BY <4>2, <4>3 DEF Truth, mJackConnected
    <3> QED
      BY <1>6, <3>2, <3>3, <3>4
  <2> QED
    BY <2>2, <2>3
<1>8. CASE c[1] \notin JackPorts
  <2>1. disconnect_ports(c[1], c[2]) /\ UNCHANGED <<registry, posted>>
    BY <1>1, <1>8
  <2>2. ~mJackConnected /\ ~mJackConnected'
    BY <1>2, <1>8, ShownCable DEF OneSystem, PortsOf, mJackConnected
  <2>3. /\ UNCHANGED <<m_seq, subscribed>> /\ (Readable /\ Changed => (Readable /\ Changed)')
        /\ subscribed /\ sequencer' /= sequencer => (Readable /\ Changed)'
    BY <2>1, SequencerSteps DEF TypeOK, Announced, Heard
  <2>4. RefreshDue => RefreshDue'
    BY <1>2, <2>1, <2>2, <2>3 DEF RefreshDue
  <2>5. CASE sequencer' /= sequencer
    <3>1. RefreshDue' \/ ~Followed'
      BY <2>2, <2>3, <2>5 DEF RefreshDue, Followed
    <3> QED
      BY <3>1, Noticed
  <2>6. CASE UNCHANGED sequencer
    <3>1. Truth' = Truth /\ exclusive' = exclusive /\ (Followed' <=> Followed)
      BY <2>2, <2>3, <2>6 DEF Truth, Followed, sequencer, Listed, Exported, IsOutput, IsInput
    <3>2. ASSUME c \in Truth.cables PROVE FALSE
      <4>1. c \in subs /\ m_seq
        BY <2>2, <3>2 DEF Truth
      <4>2. PICK s \in seqPorts, d \in seqPorts : c = <<s, d>>
        BY <4>1 DEF TypeOK, AlsaTypeOK
      <4>3. c \in Addressed(c[1], c[2]) \cap subs
        BY <4>1, <4>2 DEF Addressed, AtAddressOf
      <4>4. PICK x \in subs : subs' = subs \ {x}
        BY <2>1, <4>1, <4>3 DEF disconnect_ports
      <4> QED
        BY <2>6, <4>4 DEF sequencer
    <3> QED
      BY <1>6, <2>4, <3>1, <3>2
  <2> QED
    BY <2>5, <2>6
<1> QED
  BY <1>7, <1>8

\* The registry catches up: it loses ports and cables that are not shown, are known to
\* linger, or have been announced.
LEMMA SettleNotices ==
  ASSUME GraphInv, Settle
  PROVE  NothingMissed'
<1> USE DEF GraphInv
<1>1. /\ regPorts' = regPorts \ leaving
      /\ cables' = {c \in cables : c[1] \notin leaving /\ c[2] \notin leaving}
      /\ UNCHANGED <<alsaVars, jack, posted, m_ports, pending, readVars, view>>
  BY DEF Settle
<1>2. /\ UNCHANGED <<pc, todo, found, wired, lingered, exclusive>> /\ (RefreshDue => RefreshDue')
      /\ (Followed' <=> Followed) /\ (Stranded' <=> Stranded)
  BY <1>1, StillDue DEF readVars, Followed, Stranded, mJackConnected, alsaVars, sequencer
<1>3. CASE jack = "none"
  <2>1. Truth' = Truth /\ Connections' = Connections
    BY <1>1, <1>3 DEF Truth, Connections, mJackConnected, alsaVars, sequencer, Listed, Exported,
                      IsOutput, IsInput
  <2>2. Shows' <=> Shows
    BY <1>1, <1>2, <2>1 DEF Shows, Lingers, Refused, Shares
  <2> QED
    BY <1>2, <2>1, <2>2 DEF NothingMissed, StaleIsNoticed, ReadSoFar, Lingers, Link, at
<1>4. CASE jack = "live" /\ Followed /\ ~RefreshDue
  <2>1. leaving \cap (IF pc = "idle" THEN view.ports ELSE found) \subseteq lingered
    BY <1>4 DEF RefreshDue, Announced
  <2>2. /\ Truth = [ports |-> regPorts, cables |-> cables] /\ Connections = cables
        /\ Truth' = [ports |-> regPorts', cables |-> cables'] /\ Connections' = cables'
    BY <1>1, <1>4 DEF Truth, Connections, mJackConnected
  <2>3. CASE pc = "idle"
    <3>1. Shows \/ Stranded
      BY <1>4, <2>3 DEF StaleIsNoticed
    <3>2. ASSUME Shows PROVE Shows'
      <4>1. Truth'.ports \subseteq view.ports /\ Truth'.cables \subseteq view.cables
        BY <1>1, <2>2, <3>2 DEF Shows
      <4>2. view.ports \subseteq Truth'.ports \cup lingered
        BY <1>1, <2>1, <2>2, <2>3, <3>2 DEF Shows
      <4>3. ASSUME NEW c \in view.cables, c \notin cables' PROVE Lingers(c) \/ Refused(c)
        <5>1. CASE c \notin cables
          BY <2>2, <3>2, <4>3, <5>1 DEF Shows
        <5>2. CASE c[1] \in leaving \/ c[2] \in leaving
          BY <2>1, <2>3, <5>2, ShownCable DEF Lingers
        <5> QED
          BY <1>1, <4>3, <5>1, <5>2
      <4> QED
        BY <1>1, <1>2, <2>2, <4>1, <4>2, <4>3 DEF Shows, Lingers, Refused, Shares
    <3> QED
      BY <1>2, <2>3, <3>1, <3>2, ShownIsNoticed
  <2>4. CASE pc /= "idle"
    <3>1. /\ pc = "ports" => {p \in regPorts : at(p) \notin todo} \subseteq found
          /\ pc = "cables" => /\ regPorts \subseteq found
                              /\ \A c \in cables : at(c[1]) \notin todo => Link(c) \in wired
          /\ found \subseteq regPorts \cup lingered
          /\ \A w \in wired : Lingers(w) \/ \E c \in cables : Link(c) = w
      BY <1>4, <2>2, <2>4 DEF ReadSoFar
    <3>2. found \subseteq regPorts' \cup lingered
      BY <1>1, <2>1, <2>4, <3>1
    <3>3. ASSUME NEW w \in wired, ~Lingers(w) PROVE \E c \in cables' : Link(c) = w
      <4>1. pc = "cables"
        BY <3>3 DEF ReadsOneSystem
      <4>2. PICK c \in cables : Link(c) = w
        BY <3>1, <3>3
      <4>3. c[1] \in regPorts /\ c[2] \in regPorts /\ c \in JackPorts \X JackPorts
        BY DEF TypeOK
      <4>4. c = w
        BY <4>2, <4>3, NamedLink
      <4>5. c[1] \notin leaving /\ c[2] \notin leaving
        BY <2>1, <2>4, <3>1, <3>3, <4>1, <4>3, <4>4 DEF Lingers
      <4> QED
        BY <1>1, <4>2, <4>5
    <3>4. /\ pc = "ports" => {p \in regPorts' : at(p) \notin todo} \subseteq found
          /\ pc = "cables" => /\ regPorts' \subseteq found
                              /\ \A c \in cables' : at(c[1]) \notin todo => Link(c) \in wired
      BY <1>1, <3>1
    <3> QED
      BY <1>2, <2>2, <2>4, <3>2, <3>3, <3>4
         DEF NothingMissed, StaleIsNoticed, ReadSoFar, Lingers, Link, at
  <2> QED
    BY <2>3, <2>4
<1>5. CASE RefreshDue \/ ~Followed
  BY <1>2, <1>5, Noticed
<1> QED
  BY <1>3, <1>4, <1>5, Answers

\* Other programs' ports and subscriptions: with a JACK client they are not shown.
LEMMA AlsaWorldNotices ==
  ASSUME GraphInv, AlsaWorld
  PROVE  NothingMissed'
<1> USE DEF GraphInv
<1>1. /\ UNCHANGED <<m_seq, subscribed>> /\ (Readable /\ Changed => (Readable /\ Changed)')
      /\ subscribed /\ sequencer' /= sequencer => (Readable /\ Changed)'
  BY SequencerSteps DEF TypeOK, Announced, Heard
<1>2. UNCHANGED <<jack, regPorts, leaving, cables, posted, pending, readVars, view>>
  BY DEF AlsaWorld, graphVars, registry
<1>3. RefreshDue => RefreshDue'
  BY <1>1, <1>2 DEF RefreshDue, mJackConnected
<1>4. CASE UNCHANGED sequencer
  BY <1>1, <1>2, <1>3, <1>4, Undisturbed DEF NothingMissed
<1>5. CASE ~mJackConnected /\ sequencer' /= sequencer
  <2>1. RefreshDue' \/ ~Followed'
    BY <1>1, <1>2, <1>5 DEF RefreshDue, Followed, mJackConnected
  <2> QED
    BY <2>1, Noticed
<1>6. CASE mJackConnected
  <2>1. Truth' = Truth /\ Connections' = Connections /\ (Followed' <=> Followed) /\ ~Stranded
    BY <1>2, <1>6 DEF Truth, Connections, Followed, Stranded, mJackConnected
  <2>2. ASSUME NEW c \in view.cables PROVE ~Refused(c)
    <3>1. c[1] \in JackPorts /\ c[2] \in JackPorts
      BY <1>6, ShownCable DEF OneSystem, PortsOf
    <3>2. \A x \in exclusive : x[1] \in AlsaPorts /\ x[2] \in AlsaPorts
      BY DEF TypeOK, AlsaTypeOK
    <3> QED
      BY <3>1, <3>2, Known DEF Refused, Shares
  <2>3. Shows => Shows'
    BY <1>2, <2>1, <2>2 DEF Shows, Lingers, readVars
  <2>4. UNCHANGED <<pc, todo, found, wired, lingered>>
    BY <1>2 DEF readVars
  <2>5. ReadSoFar'
    BY <1>3, <2>1, <2>4 DEF ReadSoFar, Lingers, Link, at
  <2>6. StaleIsNoticed'
    BY <1>3, <2>1, <2>3, <2>4 DEF StaleIsNoticed
  <2> QED
    BY <2>5, <2>6 DEF NothingMissed
<1> QED
  BY <1>4, <1>5, <1>6

LEMMA NothingMissedPreserved ==
  ASSUME GraphInv, TypeOK', [Next]_vars
  PROVE  NothingMissed'
<1> USE DEF GraphInv
<1>1. CASE Reading
  BY <1>1, ReadPortNotices, PortsReadNotices, ReadCablesNotices, DrawNotices DEF Reading
<1>2. CASE Connect \/ Disconnect
  BY <1>2, ConnectNotices, DisconnectNotices
<1>3. CASE onAlsaReadable
  <2>1. /\ UNCHANGED <<sequencer, m_seq, subscribed, jack, registry, posted, view, readVars>>
        /\ pending => pending'
        /\ Changed /\ ~mJackConnected => pending'
    BY <1>3 DEF onAlsaReadable, drain_events, schedulePortRefresh
  <2>2. RefreshDue => RefreshDue'
    BY <2>1 DEF RefreshDue
  <2> QED
    BY <2>1, <2>2, Undisturbed DEF registry, NothingMissed
<1>4. CASE onPortsPosted
  <2>1. pending'
    BY <1>4 DEF onPortsPosted, schedulePortRefresh
  <2> QED
    BY <2>1, Noticed DEF RefreshDue
<1>5. ASSUME StartReading(jack'), regPorts' = regPorts \/ jack' = "none" PROVE NothingMissed'
  <2>1. /\ pc' = "ports" /\ found' = {} /\ wired' = {}
        /\ jack' = "live" => todo' = regPorts'
        /\ jack' = "none" => todo' = Addresses
    BY <1>5 DEF StartReading
  <2> QED
    BY <2>1, ReadingStarts
<1>6. CASE RefreshTimer \/ ToolRefresh \/ dropJack
  BY <1>5, <1>6 DEF RefreshTimer, ToolRefresh, dropJack, registry
<1>7. CASE connectJack
  <2>1. ASSUME jack' \in {"live", "deaf"}, pc' = "ports", todo' = m_ports', found' = {}, wired' = {},
               m_ports' \in IF jack' = "live" THEN {regPorts'} ELSE SUBSET JackPorts
        PROVE  NothingMissed'
    BY <2>1, ReadingStarts
  <2>2. ASSUME mJackConnected, jack' = "none", pc' = "idle", UNCHANGED view
        PROVE  NothingMissed'
    <3>1. Stranded'
      BY <2>2 DEF Stranded, OneSystem, mJackConnected
    <3> QED
      BY <2>2, <3>1, ShownIsNoticed
  <2> QED
    BY <1>7, <2>1, <2>2 DEF connectJack, readVars
<1>8. CASE JackWorld \/ JackDies
  BY <1>8, Noticed DEF JackWorld, JackDies, RefreshDue
<1>9. CASE Settle
  BY <1>9, SettleNotices
<1>10. CASE AlsaWorld
  BY <1>10, AlsaWorldNotices
<1>11. CASE UNCHANGED vars
  <2>1. RefreshDue => RefreshDue'
    BY <1>11, StillDue DEF vars, graphVars
  <2> QED
    BY <1>11, <2>1, Undisturbed DEF vars, graphVars, alsaVars, registry, NothingMissed
<1> QED
  BY <1>1, <1>2, <1>3, <1>4, <1>6, <1>7, <1>8, <1>9, <1>10, <1>11 DEF Next

-----------------------------------------------------------------------------
LEMMA InitInv == Init => GraphInv
<1> SUFFICES ASSUME Init PROVE GraphInv
  OBVIOUS
<1> USE DEF Init, AlsaInit
<1>1. AlsaTypeOK
  <2>1. seqPorts \subseteq AlsaPorts /\ subs \subseteq seqPorts \X seqPorts /\ exclusive \subseteq subs
    OBVIOUS
  <2>2. m_seq \in BOOLEAN /\ subscribed \in BOOLEAN /\ overrun \in BOOLEAN
    OBVIOUS
  <2> QED
    BY <2>1, <2>2, NothingQueued DEF AlsaTypeOK
<1>2. TypeOK
  BY <1>1 DEF TypeOK, Places
<1>3. OneSystem /\ ReadsOneSystem
  BY <1>2 DEF OneSystem, ReadsOneSystem, PortsOf, Stranded, mJackConnected
<1>4. CablesRun /\ Announced
  BY DEF CablesRun, Announced
<1>5. StaleIsNoticed /\ ReadSoFar
  <2>1. \A p \in Truth.ports : at(p) \in todo
    BY <1>1, Known DEF Truth, mJackConnected, AlsaTypeOK
  <2> QED
    BY <2>1 DEF StaleIsNoticed, ReadSoFar
<1> QED
  BY <1>2, <1>3, <1>4, <1>5 DEF GraphInv

LEMMA Preserved == GraphInv /\ [Next]_vars => GraphInv'
<1> SUFFICES ASSUME GraphInv, [Next]_vars PROVE GraphInv'
  OBVIOUS
<1>1. TypeOK' /\ OneSystem' /\ ReadsOneSystem'
  BY ShownPreserved DEF GraphInv, Shown
<1>2. CablesRun' /\ Announced'
  BY CablesRunPreserved, LeavingKnownPreserved DEF GraphInv, Announced, Heard, LeavingKnown, Shown
<1>3. StaleIsNoticed' /\ ReadSoFar'
  BY <1>1, NothingMissedPreserved DEF NothingMissed
<1> QED
  BY <1>1, <1>2, <1>3 DEF GraphInv

\* The canvas shows one system, and cables between ports on it, however the ports and
\* their addresses change while they are read, and no change of them is missed.
THEOREM Invariance == Spec => []GraphInv
BY InitInv, Preserved, PTL DEF Spec

\* While refreshPorts is not at work the canvas shows what there is, or a handler is due
\* that will start it: whatever was lost from the queue or refused meanwhile.  What is
\* excepted is what the code leaves behind: a JACK port that was read while it was
\* leaving, a cable that was refused as busy, a graph whose client a failed connect took,
\* and a system whose changes nobody tells of.
THEOREM NoChangeIsMissed == Spec => []StaleIsNoticed
<1>1. GraphInv => StaleIsNoticed
  BY DEF GraphInv
<1> QED
  BY <1>1, Invariance, PTL
=============================================================================
