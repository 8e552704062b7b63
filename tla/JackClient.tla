----------------------------- MODULE JackClient -----------------------------
(***************************************************************************)
(* JackClient.cpp: the handle on the JACK server, the callbacks JACK runs  *)
(* on its own threads, and the flags those set for the main loop.          *)
(*                                                                         *)
(* A flag set is a flag the post handler will be run for: that is what     *)
(* module Mailbox promises and WakePipe implements.                        *)
(*                                                                         *)
(* Abstracted: ports and connections are reduced to whether the server's   *)
(* graph has changed since it was last read (stale).  Reading              *)
(* m_shutdown_callback while the main loop assigns it is a data race;      *)
(* modelled by its two outcomes, the callback set or still empty.          *)
(***************************************************************************)
EXTENDS Naturals

VARIABLES m_client,      \* "null", or the server of this handle is "live" or "dead"
          m_server_gone, \* the atomic of that name
          attached,      \* App's callbacks are set in this client
          posted,        \* App's flags that are up
          stale          \* the graph changed since scan_ports

clientVars == <<m_client, m_server_gone, attached, posted, stale>>

Kinds == {"shutdown", "ports", "xrun"}

ClientTypeOK ==
  /\ m_client \in {"null", "live", "dead"}
  /\ m_server_gone \in BOOLEAN
  /\ attached \in BOOLEAN
  /\ posted \subseteq Kinds
  /\ stale \in BOOLEAN

ClientInit ==
  /\ m_client = "null"
  /\ m_server_gone = FALSE
  /\ attached = FALSE
  /\ posted = {}
  /\ stale = FALSE

is_connected == m_client /= "null"

\* jack_client_open and jack_activate succeeded, and the ports were read; an
\* earlier handle was dropped first.  App has not set its callbacks yet.
connect ==
  /\ m_client' = "live"
  /\ m_server_gone' = FALSE
  /\ attached' = FALSE
  /\ stale' = FALSE

\* jack_client_close has returned, so no callback runs any more.
disconnect ==
  /\ m_client' = "null"
  /\ m_server_gone' = FALSE
  /\ attached' = FALSE
  /\ stale' = FALSE

\* connect() that fails has dropped the earlier handle too.
connect_fails == disconnect

\* The App callbacks: set a flag and post, if they are attached by then.
Posting(k) == posted' = IF attached THEN posted \cup {k} ELSE posted

-----------------------------------------------------------------------------
(* JACK's threads.                                                         *)

\* jack_on_shutdown, some time after the server went away.
shutdown_callback ==
  /\ m_client = "dead"
  /\ ~m_server_gone
  /\ m_server_gone' = TRUE
  /\ Posting("shutdown")
  /\ UNCHANGED <<m_client, attached, stale>>

\* A port came or went or was connected, a client left, the rate or the
\* buffer size changed.
port_callback ==
  /\ m_client = "live"
  /\ stale' = TRUE
  /\ Posting("ports")
  /\ UNCHANGED <<m_client, m_server_gone, attached>>

xrun_callback ==
  /\ m_client = "live"
  /\ Posting("xrun")
  /\ UNCHANGED <<m_client, m_server_gone, attached, stale>>

\* The server stopped answering.
ServerLost == m_client' = IF m_client = "live" THEN "dead" ELSE m_client
=============================================================================
