------------------------- MODULE JackServerControl -------------------------
(***************************************************************************)
(* JackServerControl.cpp and the processes it deals with: the jackd this   *)
(* program spawned or adopted, jackds started by somebody else, and the    *)
(* unrelated processes that may be given a recycled pid.                   *)
(*                                                                         *)
(* The operators that change state say what one call does to the members   *)
(* of JackServerControl and to the pid file; module App calls them.        *)
(*                                                                         *)
(* Abstracted: jackd's arguments and log, the text of last_error(), and    *)
(* that a probe takes time: is_running() answers for the instant it is     *)
(* called at.  One JACK server (the default name) answers at a time.       *)
(***************************************************************************)
EXTENDS Naturals, FiniteSets

CONSTANTS Pids,    \* process ids
          NoPid    \* m_child_pid = 0; no pid file

ASSUME PidAssumption == NoPid \notin Pids

VARIABLES proc,        \* pid -> what the process with that id is and does
          mine,        \* the children of the running program, unreaped
          m_child_pid, \* the owned jackd
          m_is_child,  \* it is our own child rather than an adopted one
          pidFile,     \* the pid in jackd.pid
          signalled    \* history: the processes this program sent a signal to

serverVars == <<proc, mine, m_child_pid, m_is_child, pidFile, signalled>>
ownVars    == <<m_child_pid, m_is_child, pidFile>>

\* A jackd comes up ("booting", possibly for ever), answers clients
\* ("serving"), stops answering ("dying", while it cleans up or dumps core)
\* and exits.  Our own child is a "zombie" until it is reaped.  "other" is a
\* process of this user that is not a jackd.
Jackd == {"booting", "serving", "dying"}
ProcState == Jackd \cup {"none", "zombie", "other"}

ServerTypeOK ==
  /\ proc \in [Pids -> ProcState]
  /\ mine \subseteq Pids
  /\ m_child_pid \in Pids \cup {NoPid}
  /\ m_is_child \in BOOLEAN
  /\ pidFile \in Pids \cup {NoPid}
  /\ signalled \subseteq Pids

ServerInit ==
  /\ proc = [p \in Pids |-> "none"]
  /\ mine = {}
  /\ m_child_pid = NoPid
  /\ m_is_child = FALSE
  /\ pidFile = NoPid
  /\ signalled = {}

-----------------------------------------------------------------------------
(* Questions.                                                              *)

Alive(p) == proc[p] \notin {"none", "zombie"}

is_running == \E p \in Pids : proc[p] = "serving"

is_our_jackd(p) == p /= NoPid /\ proc[p] \in Jackd

owned_alive ==
  /\ m_child_pid /= NoPid
  /\ m_is_child \/ Alive(m_child_pid)

-----------------------------------------------------------------------------
(* Calls.                                                                  *)

Mutant_ConstructKeepsFile ==      \* a stale pid file is left behind
  /\ m_is_child' = FALSE
  /\ m_child_pid' = IF is_our_jackd(pidFile) THEN pidFile ELSE NoPid
  /\ UNCHANGED pidFile

\* The constructor: the pid file of an earlier session is adopted if it still
\* names a jackd, and removed if it does not.
Construct ==
  /\ m_is_child' = FALSE
  /\ m_child_pid' = IF is_our_jackd(pidFile) THEN pidFile ELSE NoPid
  /\ pidFile' = IF is_our_jackd(pidFile) THEN pidFile ELSE NoPid

\* fork() returned p; the pid file may fail to be written.
spawn(p) ==
  /\ proc[p] = "none"
  /\ proc' = [proc EXCEPT ![p] = "booting"]
  /\ mine' = mine \cup {p}
  /\ m_child_pid' = p
  /\ m_is_child' = TRUE
  /\ pidFile' \in {p, pidFile}
  /\ UNCHANGED signalled

forget_owned ==
  /\ m_child_pid' = NoPid
  /\ m_is_child' = FALSE
  /\ pidFile' = NoPid

Mutant_child_exitedKeepsPid == UNCHANGED ownVars

child_exited == forget_owned

\* kill() of the owned pid, if there is one and a process has it.
SendSignal ==
  signalled' = IF m_child_pid /= NoPid /\ Alive(m_child_pid)
               THEN signalled \cup {m_child_pid}
               ELSE signalled

request_stop == SendSignal
force_kill   == SendSignal

-----------------------------------------------------------------------------
(* What processes do by themselves.                                        *)

Become(p, st) == proc' = [proc EXCEPT ![p] = st]

\* Somebody else starts a jackd, or the kernel recycles p.
ForeignStart(p) ==
  /\ proc[p] = "none"
  /\ \E st \in {"booting", "other"} : Become(p, st)
  /\ UNCHANGED <<mine, ownVars, signalled>>

Serve(p) ==
  /\ proc[p] = "booting"
  /\ ~is_running
  /\ Become(p, "serving")
  /\ UNCHANGED <<mine, ownVars, signalled>>

\* Stops answering: a crash, a signal, somebody stopped it.
StopServing(p) ==
  /\ proc[p] = "serving"
  /\ Become(p, "dying")
  /\ UNCHANGED <<mine, ownVars, signalled>>

\* Our own child waits to be reaped; any other process is reaped by init, and
\* its id is free.
ProcExit(p) ==
  /\ proc[p] \in {"booting", "dying", "other"}
  /\ Become(p, IF p \in mine THEN "zombie" ELSE "none")
  /\ signalled' = IF p \in mine THEN signalled ELSE signalled \ {p}
  /\ UNCHANGED <<mine, ownVars>>

Reap(p) ==
  /\ proc' = [proc EXCEPT ![p] = "none"]
  /\ mine' = mine \ {p}
  /\ signalled' = signalled \ {p}

\* The program ends: its children become init's, which reaps the dead ones.
Orphan ==
  /\ proc' = [p \in Pids |-> IF proc[p] = "zombie" THEN "none" ELSE proc[p]]
  /\ mine' = {}
  /\ signalled' = {}
=============================================================================
