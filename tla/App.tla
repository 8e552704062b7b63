-------------------------------- MODULE App --------------------------------
(***************************************************************************)
(* app.cpp: the main-loop handlers that keep one JACK client open on       *)
(* whatever server there is, and start and stop the server this program    *)
(* owns.  Composes JackClient and JackServerControl with the world they    *)
(* live in: processes, JACK's threads, the user, and the end and restart   *)
(* of the program itself.                                                  *)
(*                                                                         *)
(* A handler is one step, since only the main loop runs handlers; the      *)
(* exception is opening a client, which JACK's threads can interleave:     *)
(* the client is active when connect() returns and App attaches its        *)
(* callbacks after that (mpc = "attach").                                  *)
(*                                                                         *)
(* mJackConnected is is_connected: every handler sets the two together.    *)
(* A timer is the boolean "its token is set"; mServerOpToken is set        *)
(* exactly while mServerOp is not "None".  Abstracted: the drawn graph is  *)
(* reduced to whose ports it shows, the status line and the messages are   *)
(* left out, and of the settings window what its buttons depend on is kept. *)
(***************************************************************************)
EXTENDS JackServerControl, JackClient

CONSTANTS kStartTicks, kKillTicks, kGiveUpTicks,  \* app.cpp's, made small
          MaxAttempts                             \* the 60 of tryReconnectJack

ASSUME TickAssumption ==
  /\ kStartTicks \in Nat \ {0}
  /\ kKillTicks \in Nat \ {0}
  /\ kGiveUpTicks \in Nat \ {0}
  /\ kKillTicks <= kGiveUpTicks
  /\ MaxAttempts \in Nat \ {0}

VARIABLES mpc,                \* "down", "idle" in the main loop, or "attach"
          mServerOp,
          mServerOpTicks,
          reconnecting,       \* mReconnectToken >= 0
          mReconnectAttempts,
          mRefreshPending,
          refreshTimer,       \* mRefreshToken >= 0
          canvas,             \* whose ports the graph shows: "jack" or "alsa"
          panel,              \* "closed", or SettingsPanel::mState
          panelOurs           \* SettingsPanel::mOurs

opVars    == <<mServerOp, mServerOpTicks>>
pollVars  == <<reconnecting, mReconnectAttempts>>
refreshVars == <<mRefreshPending, refreshTimer>>
panelVars == <<panel, panelOurs>>
appVars   == <<mpc, opVars, pollVars, refreshVars, canvas, panelVars>>
vars      == <<serverVars, clientVars, appVars>>

AppTypeOK ==
  /\ mpc \in {"down", "idle", "attach"}
  /\ mServerOp \in {"None", "Starting", "Stopping"}
  /\ mServerOpTicks \in Nat
  /\ reconnecting \in BOOLEAN
  /\ mReconnectAttempts \in 0 .. MaxAttempts
  /\ mRefreshPending \in BOOLEAN
  /\ refreshTimer \in BOOLEAN
  /\ canvas \in {"jack", "alsa"}
  /\ panel \in {"closed", "Stopped", "Starting", "Running", "Stopping"}
  /\ panelOurs \in BOOLEAN

TypeOK == ServerTypeOK /\ ClientTypeOK /\ AppTypeOK

Init ==
  /\ ServerInit
  /\ ClientInit
  /\ mpc = "down"
  /\ mServerOp = "None"
  /\ mServerOpTicks = 0
  /\ reconnecting = FALSE
  /\ mReconnectAttempts = 0
  /\ mRefreshPending = FALSE
  /\ refreshTimer = FALSE
  /\ canvas = "alsa"
  /\ panel = "closed"
  /\ panelOurs = FALSE

-----------------------------------------------------------------------------
(* What handlers end with.  These read the state the handler leaves.       *)

Mutant_StateShownWithoutOp ==     \* the operation in flight is ignored
  IF m_client' /= "null" \/ is_running THEN "Running" ELSE "Stopped"

StateShown ==
  IF mServerOp' /= "None" THEN mServerOp'
  ELSE IF m_client' /= "null" \/ is_running THEN "Running"
  ELSE "Stopped"

Mutant_updateStatusByStateOnly == \* setServerState returns when s == mState
  /\ panel' = IF panel = "closed" THEN "closed" ELSE StateShown
  /\ panelOurs' = IF panel' = panel THEN panelOurs ELSE m_child_pid' /= NoPid

\* updateStatus ends with pushServerState, which tells an open window.
updateStatus ==
  /\ panel' = IF panel = "closed" THEN "closed" ELSE StateShown
  /\ panelOurs' = (panel /= "closed" /\ m_child_pid' /= NoPid)

\* The part of refreshPorts after scan_ports.
Redraw ==
  /\ canvas' = IF m_client' /= "null" THEN "jack" ELSE "alsa"
  /\ updateStatus

scan_ports ==
  /\ stale' = (stale /\ m_server_gone)
  /\ UNCHANGED <<m_client, m_server_gone, attached>>

refreshPorts == scan_ports /\ Redraw

\* JackClient::connect, which may fail on a running server too.  When it
\* succeeds App goes on with Attach.
OpenClient ==
  /\ is_running
  /\ connect
  /\ mpc' = "attach"
  /\ UNCHANGED <<canvas, panelVars>>

connectJack ==
  \/ OpenClient
  \/ connect_fails /\ updateStatus /\ UNCHANGED <<mpc, canvas>>

Mutant_AttachOnly ==              \* the graph is not read after connecting
  /\ mpc = "attach"
  /\ attached' = TRUE
  /\ mpc' = "idle"
  /\ UNCHANGED <<serverVars, m_client, m_server_gone, posted, stale, opVars, pollVars,
                 refreshVars, canvas, panelVars>>

\* attachJackCallbacks and refreshPorts, which follow connect() on every path.
Attach ==
  /\ mpc = "attach"
  /\ attached' = TRUE
  /\ stale' = (stale /\ m_server_gone)
  /\ mpc' = "idle"
  /\ UNCHANGED <<serverVars, m_client, m_server_gone, posted, opVars, pollVars,
                 refreshVars>>
  /\ Redraw

-----------------------------------------------------------------------------
(* The life of the program.                                                *)

\* The constructors and App::start.
Launch ==
  /\ mpc = "down"
  /\ Construct
  /\ \/ OpenClient
     \/ /\ connect_fails
        /\ mpc' = "idle"
        /\ UNCHANGED <<canvas, panelVars>>
  /\ UNCHANGED <<proc, mine, signalled, posted, opVars, pollVars, refreshVars>>

\* App::shutdown, or the program is killed.  jackd and its pid file stay.
Leave ==
  /\ mpc /= "down"
  /\ mpc' = "down"
  /\ Orphan
  /\ m_child_pid' = NoPid
  /\ m_is_child' = FALSE
  /\ disconnect
  /\ posted' = {}
  /\ mServerOp' = "None" /\ mServerOpTicks' = 0
  /\ reconnecting' = FALSE /\ mReconnectAttempts' = 0
  /\ mRefreshPending' = FALSE /\ refreshTimer' = FALSE
  /\ canvas' = "alsa"
  /\ panel' = "closed" /\ panelOurs' = FALSE
  /\ UNCHANGED pidFile

-----------------------------------------------------------------------------
(* Handlers of posts, descriptors and timers.                              *)

\* A timer is armed unless one is pending already.
schedulePortRefresh ==
  /\ mRefreshPending' = TRUE
  /\ refreshTimer' = (refreshTimer \/ ~mRefreshPending)

\* onPostFromJackThread with handleServerGone, schedulePortRefresh and
\* updateStatus.
handleServerGone ==
  /\ disconnect
  /\ Redraw
  /\ mReconnectAttempts' = 0
  /\ reconnecting' = TRUE

Mutant_TornDownAlways == "shutdown" \in posted /\ is_connected

Mutant_TornDownIfUsable ==        \* usable() asked where is_connected() is
  "shutdown" \in posted /\ is_connected /\ ~m_server_gone

TornDown == "shutdown" \in posted /\ is_connected /\ m_server_gone

onPostFromJackThread ==
  /\ mpc = "idle"
  /\ posted /= {}
  /\ posted' = {}
  /\ IF "ports" \in posted THEN schedulePortRefresh ELSE UNCHANGED refreshVars
  /\ UNCHANGED <<serverVars, mpc, opVars>>
  /\ \/ TornDown /\ handleServerGone
     \/ /\ ~TornDown
        /\ UNCHANGED <<m_client, m_server_gone, attached, stale, pollVars, canvas>>
        /\ IF "xrun" \in posted THEN updateStatus ELSE UNCHANGED panelVars

\* Acted on only while the ALSA ports are on screen.
onAlsaReadable ==
  /\ mpc = "idle"
  /\ ~is_connected
  /\ schedulePortRefresh
  /\ UNCHANGED <<serverVars, clientVars, mpc, opVars, pollVars, canvas, panelVars>>

Mutant_RefreshStaysPending ==     \* mRefreshPending is not reset
  /\ mpc = "idle"
  /\ refreshTimer
  /\ refreshTimer' = FALSE
  /\ UNCHANGED <<serverVars, posted, mpc, opVars, pollVars, mRefreshPending>>
  /\ refreshPorts

RefreshTimer ==
  /\ mpc = "idle"
  /\ refreshTimer
  /\ mRefreshPending' = FALSE /\ refreshTimer' = FALSE
  /\ UNCHANGED <<serverVars, posted, mpc, opVars, pollVars>>
  /\ refreshPorts

Mutant_NextAttemptStays == mReconnectAttempts

NextAttempt == mReconnectAttempts + 1

Mutant_KeepPollingOneMore(n) == n <= MaxAttempts

KeepPolling(n) == n < MaxAttempts

tryReconnectJack ==
  \/ /\ is_connected
     /\ reconnecting' = FALSE
     /\ UNCHANGED <<clientVars, mpc, mReconnectAttempts, canvas, panelVars>>
  \/ /\ ~is_connected
     /\ OpenClient
     /\ reconnecting' = FALSE
     /\ UNCHANGED <<posted, mReconnectAttempts>>
  \/ /\ ~is_connected
     /\ connect_fails
     /\ mReconnectAttempts' = NextAttempt
     /\ reconnecting' = KeepPolling(NextAttempt)
     /\ IF reconnecting' THEN UNCHANGED panelVars ELSE updateStatus
     /\ UNCHANGED <<posted, mpc, canvas>>

ReconnectTimer ==
  /\ mpc = "idle"
  /\ reconnecting
  /\ UNCHANGED <<serverVars, opVars, refreshVars>>
  /\ tryReconnectJack

-----------------------------------------------------------------------------
(* Starting and stopping the server.                                       *)

\* Start, which the window offers while it shows "Stopped".  With a client
\* open startServer would only push the state; StartOnlyWhenIdle says that it
\* is not reached so.  A spawn() that fails leaves only a message.
startServer ==
  /\ mpc = "idle"
  /\ panel = "Stopped"
  /\ mServerOp = "None"
  /\ ~is_connected
  /\ \/ /\ is_running                       \* somebody else's: just connect
        /\ UNCHANGED <<serverVars, opVars>>
        /\ connectJack
     \/ /\ ~is_running
        /\ \E p \in Pids : spawn(p)
        /\ mServerOp' = "Starting" /\ mServerOpTicks' = 0
        /\ UNCHANGED <<m_client, m_server_gone, attached, stale, mpc, canvas>>
        /\ updateStatus
  /\ UNCHANGED <<posted, pollVars, refreshVars>>

\* Stop, offered while the window shows "Running" and the server as ours.
\* Without an owned pid it would only say so; StopFollowsOwnership.
stopServer ==
  /\ mpc = "idle"
  /\ panel = "Running" /\ panelOurs
  /\ mServerOp = "None"
  /\ m_child_pid /= NoPid
  /\ reconnecting' = FALSE                  \* disconnectJack
  /\ disconnect
  /\ request_stop
  /\ mServerOp' = "Stopping" /\ mServerOpTicks' = 0
  /\ UNCHANGED <<proc, mine, ownVars>>
  /\ Redraw
  /\ UNCHANGED <<posted, mpc, mReconnectAttempts, refreshVars>>

Mutant_NextTickStays == mServerOpTicks' = mServerOpTicks

NextTick == mServerOpTicks' = mServerOpTicks + 1

\* pollServerOp while Starting.
PollStarting ==
  /\ mpc = "idle"
  /\ mServerOp = "Starting"
  /\ \/ /\ is_running                       \* it answers: open a client
        /\ mServerOp' = "None" /\ NextTick
        /\ UNCHANGED <<serverVars, posted>>
        /\ connectJack
     \/ /\ ~is_running
        /\ mServerOpTicks + 1 < kStartTicks
        /\ NextTick
        /\ UNCHANGED <<serverVars, clientVars, mpc, mServerOp, canvas, panelVars>>
     \/ /\ ~is_running                      \* alive but not answering
        /\ mServerOpTicks + 1 >= kStartTicks
        /\ request_stop
        /\ mServerOp' = "Stopping" /\ mServerOpTicks' = 0
        /\ UNCHANGED <<proc, mine, ownVars, clientVars, mpc, canvas>>
        /\ updateStatus
  /\ UNCHANGED <<pollVars, refreshVars>>

\* pollServerOp while Stopping.
PollStopping ==
  /\ mpc = "idle"
  /\ mServerOp = "Stopping"
  /\ NextTick
  /\ \/ /\ ~owned_alive                     \* an adopted one has gone
        /\ forget_owned
        /\ mServerOp' = "None"
        /\ UNCHANGED <<signalled, m_client>>
        /\ updateStatus
     \/ /\ owned_alive
        /\ IF mServerOpTicks' = kKillTicks THEN force_kill ELSE UNCHANGED signalled
        /\ UNCHANGED <<ownVars, m_client>>
        /\ \/ /\ mServerOpTicks' < kGiveUpTicks
              /\ UNCHANGED <<mServerOp, panelVars>>
           \/ /\ mServerOpTicks' >= kGiveUpTicks
              /\ mServerOp' = "None"
              /\ updateStatus
  /\ UNCHANGED <<proc, mine, m_server_gone, attached, posted, stale, mpc, pollVars,
                 refreshVars, canvas>>

\* The wake pipe reaped p.  The callback does not look at which child it was.
onJackdExited(p) ==
  /\ mpc = "idle"
  /\ p \in mine
  /\ proc[p] = "zombie"
  /\ Reap(p)
  /\ child_exited
  /\ mServerOp' = "None"
  /\ UNCHANGED <<clientVars, mpc, mServerOpTicks, pollVars, refreshVars, canvas>>
  /\ updateStatus

-----------------------------------------------------------------------------
(* The rest of what the user can do.                                       *)

openSettings ==
  /\ mpc = "idle"
  /\ panel = "closed"
  /\ UNCHANGED <<serverVars, clientVars, mpc, opVars, pollVars, refreshVars, canvas>>
  /\ panel' = StateShown
  /\ panelOurs' = (m_child_pid /= NoPid)

closeSettings ==
  /\ mpc = "idle"
  /\ panel /= "closed"
  /\ panel' = "closed" /\ panelOurs' = FALSE
  /\ UNCHANGED <<serverVars, clientVars, mpc, opVars, pollVars, refreshVars, canvas>>

\* The toolbar's Refresh.
ToolRefresh ==
  /\ mpc = "idle"
  /\ UNCHANGED <<serverVars, posted, mpc, opVars, pollVars, refreshVars>>
  /\ refreshPorts

\* Apply Live: the onBufferSize hook, when the server accepts the size.
ApplyLive ==
  /\ mpc = "idle"
  /\ panel = "Running"
  /\ is_connected /\ ~m_server_gone
  /\ UNCHANGED <<serverVars, clientVars, mpc, opVars, pollVars, refreshVars, canvas>>
  /\ updateStatus

-----------------------------------------------------------------------------
World ==
  \/ \E p \in Pids :
       \/ (ForeignStart(p) \/ Serve(p) \/ ProcExit(p)) /\ UNCHANGED clientVars
       \/ /\ StopServing(p)
          /\ ServerLost
          /\ UNCHANGED <<m_server_gone, attached, posted, stale>>
  \/ (shutdown_callback \/ port_callback \/ xrun_callback) /\ UNCHANGED serverVars

User == startServer \/ stopServer \/ openSettings \/ closeSettings \/ ToolRefresh \/ ApplyLive

MainLoop ==
  \/ Attach \/ onPostFromJackThread \/ onAlsaReadable
  \/ RefreshTimer \/ ReconnectTimer \/ PollStarting \/ PollStopping
  \/ \E p \in Pids : onJackdExited(p)

Next ==
  \/ World /\ UNCHANGED appVars
  \/ Launch \/ Leave \/ User \/ MainLoop

(***************************************************************************)
(* JACK calls the shutdown callback, and the handler that is running       *)
(* finishes.  X11Window::run dispatches every due timer and every readable *)
(* descriptor on each pass, so a handler that is wanted again and again    *)
(* runs, whatever other handlers run in between.  Nothing is assumed of    *)
(* the user or of any process.                                             *)
(***************************************************************************)
Fairness ==
  /\ WF_vars(shutdown_callback /\ UNCHANGED <<serverVars, appVars>>)
  /\ WF_vars(Attach)
  /\ SF_vars(onPostFromJackThread)
  /\ SF_vars(RefreshTimer)
  /\ SF_vars(ReconnectTimer)
  /\ SF_vars(PollStarting)
  /\ SF_vars(PollStopping)

Safety == Init /\ [][Next]_vars
Spec   == Safety /\ Fairness

-----------------------------------------------------------------------------
(* Safety.                                                                 *)

Running == mpc /= "down"

\* While the window offers Start, nothing is in flight and no client is open:
\* every path that begins an operation or opens a client reaches the window
\* before the user can act again ("pressing Start twice would spawn two
\* jackds", SettingsPanel::applyEnables).
StartOnlyWhenIdle ==
  mpc = "idle" /\ panel = "Stopped" => mServerOp = "None" /\ ~is_connected

\* What an open window shows is what the program knows, whichever handler ran last: an
\* operation while it is in flight, and "ours" exactly while a pid is owned.  So Stop is
\* offered for an owned pid only, and never in the middle of a start or a stop; and if
\* that pid is of our own child, it is a jackd, or a child that has exited and is about
\* to be reaped.  Of an adopted pid it says nothing more: pushServerState does not look
\* whether the process is still there, so Stop stays offered after an adopted jackd has
\* exited (see NoRecycledPidSignalled).
StopFollowsOwnership ==
  mpc = "idle" /\ panel /= "closed" =>
    /\ panelOurs = (m_child_pid /= NoPid)
    /\ panel \in {"Starting", "Stopping"} \/ mServerOp /= "None" => panel = mServerOp
    /\ panel = "Running" /\ panelOurs /\ m_is_child =>
         m_child_pid \in mine /\ proc[m_child_pid] \in Jackd \cup {"zombie"}

\* With a client open the canvas shows JACK's graph.
ConnectedShowsJack ==
  mpc = "idle" /\ is_connected => canvas = "jack"

\* An owned child has not been reaped, so its pid is still its own: the
\* SIGTERM of Stop and the SIGKILL after it reach a jackd and nothing else.
OwnedChildUnreaped ==
  m_is_child =>
    /\ m_child_pid \in mine
    /\ proc[m_child_pid] \in Jackd \cup {"zombie"}

\* Once this program owns no jackd, the pid file names none either: the next
\* session cannot adopt a server that this one has seen end.
NothingOwnedNothingRecorded ==
  Running /\ m_child_pid = NoPid => pidFile = NoPid

\* A change of JACK's graph that the canvas does not show yet is never forgotten: a post
\* or the refresh timer is on its way, although a burst of changes is one refresh, the
\* callbacks are attached after the client is active, and handlers drop one client and
\* open another in between.  The flag that keeps a second timer from being armed is up
\* only while there is a first, and nothing is left over from an earlier client.
ChangeIsDue ==
  /\ mRefreshPending = refreshTimer
  /\ m_server_gone => m_client = "dead"
  /\ mpc = "idle" /\ is_connected => attached
  /\ mpc = "idle" /\ m_client = "live" /\ stale => "ports" \in posted \/ refreshTimer

\* The inductive invariant: the children are jackds, the timers that count
\* have not reached their ends, and the properties above.
MineAreJackds == \A p \in mine : proc[p] \in Jackd \cup {"zombie"}

TimersCount ==
  /\ mServerOp = "Starting" => mServerOpTicks < kStartTicks
  /\ mServerOp = "Stopping" => mServerOpTicks < kGiveUpTicks
  /\ reconnecting => mReconnectAttempts < MaxAttempts

DownIsQuiet ==
  mpc = "down" => mServerOp = "None" /\ ~reconnecting /\ panel = "closed"

IInv ==
  /\ TypeOK
  /\ MineAreJackds
  /\ TimersCount
  /\ OwnedChildUnreaped
  /\ NothingOwnedNothingRecorded
  /\ StartOnlyWhenIdle
  /\ StopFollowsOwnership
  /\ DownIsQuiet
  /\ ChangeIsDue

\* A shutdown notification that arrives late, after a fresh client was opened,
\* leaves the fresh client alone (handleServerGone).
LateShutdownHarmless ==
  [][posted /= {} /\ posted' = {} /\ Running' /\ m_client = "live"
       => m_client' = "live"]_vars

-----------------------------------------------------------------------------
(* Liveness.                                                               *)

\* A start or a stop always ends, whatever jackd does: the window is never
\* left with every button disabled.
OperationEnds ==
  mServerOp /= "None" ~> mServerOp = "None"

\* A client with its callbacks attached whose server dies is torn down.
ShutdownNoticed ==
  m_client = "dead" /\ attached /\ ~m_server_gone ~> m_client /= "dead"

\* The reconnect poll connects or gives up.
PollEnds ==
  reconnecting /\ ~is_connected ~> ~reconnecting \/ is_connected

\* A change of the server's graph reaches the canvas, although bursts collapse
\* into one refresh.
PortChangeShown ==
  stale /\ m_client = "live" ~> ~stale \/ m_client /= "live"

-----------------------------------------------------------------------------
(* What comments and documents say that the code does not do.              *)

\* JackServerControl.hpp, forget_owned: "The owned jackd is gone: drop the PID
\* and its file."
ForgottenOnlyWhenGone ==
  [][m_child_pid /= NoPid /\ m_child_pid' = NoPid /\ Running'
       => proc'[m_child_pid] \in {"none", "zombie"}]_vars

\* JackServerControl.hpp: "a recycled PID can never be SIGTERMed by mistake".
NoRecycledPidSignalled ==
  \A p \in signalled : proc[p] /= "other"
=============================================================================
