----------------------------- MODULE AlsaClient -----------------------------
(***************************************************************************)
(* AlsaClient.cpp and the part of the ALSA sequencer it uses: the ports of *)
(* all clients, the subscriptions between them, and the announcements of   *)
(* every change, which queue up until they are read and are lost when the  *)
(* queue is full.                                                          *)
(*                                                                         *)
(* A port has an address (client and port number), which the sequencer may *)
(* give to another port once it has gone.  Capabilities do not change      *)
(* while a port exists.                                                    *)
(***************************************************************************)
EXTENDS Naturals, Sequences, FiniteSets

CONSTANTS AlsaPorts,
          address,    \* port -> its address
          caps,       \* port -> its capabilities
          owner,      \* port -> its client
          Ourselves, System,
          QueueSize   \* the announcements that the sequencer keeps

ASSUME AlsaAssumption ==
  /\ QueueSize \in Nat \ {0}
  /\ Ourselves /= System

VARIABLES seqPorts,   \* the ports there are
          subs,       \* the subscriptions, <<sender, destination>>
          exclusive,  \* those that allow no other of their sender or destination
          queue,      \* what has been announced: "change", or another event
          overrun,    \* some of it was lost
          m_seq,      \* the sequencer is open
          subscribed  \* to its announcements

sequencer == <<seqPorts, subs, exclusive>>
alsaVars  == <<sequencer, queue, overrun, m_seq, subscribed>>

AlsaTypeOK ==
  /\ seqPorts \subseteq AlsaPorts
  /\ subs \subseteq seqPorts \X seqPorts /\ exclusive \subseteq subs
  /\ queue \in Seq({"change", "other"}) /\ Len(queue) <= QueueSize
  /\ overrun \in BOOLEAN
  /\ m_seq \in BOOLEAN /\ subscribed \in BOOLEAN

\* Which ports get_ports lists: what others may subscribe from is an output, what
\* they may subscribe to is an input.
Exported(p) == owner[p] \notin {Ourselves, System} /\ "NO_EXPORT" \notin caps[p]
IsOutput(p) == {"READ", "SUBS_READ"} \subseteq caps[p]
IsInput(p)  == {"WRITE", "SUBS_WRITE"} \subseteq caps[p]
Listed(p)   == Exported(p) /\ (IsOutput(p) \/ IsInput(p))

\* connect(), which may fail, and may open the sequencer without being told of
\* changes.
AlsaInit ==
  /\ seqPorts \in SUBSET AlsaPorts
  /\ \A p, q \in seqPorts : address[p] = address[q] => p = q
  /\ subs = {} /\ exclusive = {} /\ queue = <<>> /\ overrun = FALSE
  /\ m_seq \in BOOLEAN
  /\ subscribed \in IF m_seq THEN BOOLEAN ELSE {FALSE}

-----------------------------------------------------------------------------
\* The sequencer announces e to us, if we asked for it and there is room.
Announce(e) ==
  /\ queue' = IF subscribed /\ Len(queue) < QueueSize THEN Append(queue, e) ELSE queue
  /\ overrun' = (overrun \/ (subscribed /\ Len(queue) = QueueSize))
  /\ UNCHANGED <<m_seq, subscribed>>

PortStart(p) ==
  /\ p \in AlsaPorts \ seqPorts
  /\ \A q \in seqPorts : address[q] /= address[p]
  /\ seqPorts' = seqPorts \cup {p}
  /\ UNCHANGED <<subs, exclusive>>
  /\ Announce("change")

PortExit(p) ==
  /\ p \in seqPorts
  /\ seqPorts' = seqPorts \ {p}
  /\ subs' = {s \in subs : p \notin {s[1], s[2]}}
  /\ exclusive' = exclusive \cap subs'
  /\ Announce("change")

Shares(s, x) == s[1] = x[1] \/ s[2] = x[2]

\* -EBUSY: the subscription exists, or another one keeps its sender or destination
\* to itself.
Busy(s) == s \in subs \/ \E x \in exclusive : Shares(s, x)

\* Another program subscribes, perhaps exclusively, or unsubscribes, or something else
\* is sent to our port.
OtherProgram ==
  \/ /\ \E p, q \in seqPorts :
          /\ IsOutput(p) /\ IsInput(q)
          /\ \/ ~Busy(<<p, q>>) /\ subs' = subs \cup {<<p, q>>} /\ UNCHANGED exclusive
             \/ /\ \A x \in subs : ~Shares(<<p, q>>, x)
                /\ subs' = subs \cup {<<p, q>>} /\ exclusive' = exclusive \cup {<<p, q>>}
             \/ /\ <<p, q>> \in subs
                /\ subs' = subs \ {<<p, q>>} /\ exclusive' = exclusive \ {<<p, q>>}
     /\ UNCHANGED seqPorts
     /\ Announce("change")
  \/ /\ m_seq /\ Announce("other")
     /\ UNCHANGED sequencer

-----------------------------------------------------------------------------
\* The descriptor of poll_fd.
Readable == m_seq /\ queue /= <<>>

Mutant_Changed == \E i \in DOMAIN queue : queue[i] = "change"   \* -ENOSPC is any error

\* drain_events reads until there is nothing left.  When announcements were lost
\* the sequencer reports -ENOSPC and drops the others too.
Changed == overrun \/ \E i \in DOMAIN queue : queue[i] = "change"

drain_events ==
  /\ queue' = <<>> /\ overrun' = FALSE
  /\ UNCHANGED <<sequencer, m_seq, subscribed>>

\* connect_ports and disconnect_ports name ports by their addresses.
AtAddressOf(p) == {q \in seqPorts : address[q] = address[p]}
Addressed(p, q) == {<<s, d>> : s \in AtAddressOf(p), d \in AtAddressOf(q)}

Permitted(s) == IsOutput(s[1]) /\ IsInput(s[2]) /\ Exported(s[1]) /\ Exported(s[2])

\* ok is what connect_ports returns.  It takes -EBUSY for "already subscribed".
connect_ports(p, q, ok) ==
  \/ \E s \in Addressed(p, q) :
       /\ m_seq /\ ok /\ Permitted(s)
       /\ \/ ~Busy(s) /\ subs' = subs \cup {s} /\ UNCHANGED <<seqPorts, exclusive>> /\ Announce("change")
          \/ Busy(s) /\ UNCHANGED alsaVars
  \/ /\ ~ok /\ ~(m_seq /\ \E s \in Addressed(p, q) : Permitted(s))
     /\ UNCHANGED alsaVars

disconnect_ports(p, q) ==
  \/ \E s \in Addressed(p, q) \cap subs :
       /\ m_seq /\ subs' = subs \ {s} /\ exclusive' = exclusive \ {s}
       /\ Announce("change")
       /\ UNCHANGED seqPorts
  \/ /\ ~m_seq \/ Addressed(p, q) \cap subs = {}
     /\ UNCHANGED alsaVars
=============================================================================
