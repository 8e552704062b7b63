----------------------------- MODULE AppProofs -----------------------------
(***************************************************************************)
(* Proofs about App for any set of pids and any number of ticks and        *)
(* attempts: IInv is inductive, and with it what the window offers and     *)
(* what the program owns.                                                  *)
(***************************************************************************)
EXTENDS App, TLAPS

USE DEF Jackd, ProcState

\* The program starts owning nothing and offering nothing.
THEOREM InitIInv == Init => IInv
<1> SUFFICES ASSUME Init PROVE IInv
  OBVIOUS
<1>1. ServerTypeOK
  BY DEF Init, ServerInit, ServerTypeOK
<1>2. ClientTypeOK
  BY DEF Init, ClientInit, ClientTypeOK
<1>3. mServerOpTicks \in Nat /\ mReconnectAttempts \in 0 .. MaxAttempts
  BY TickAssumption DEF TickAssumption, Init
<1>4. TypeOK
  BY <1>1, <1>2, <1>3 DEF Init, TypeOK, AppTypeOK
<1>5. MineAreJackds /\ TimersCount /\ OwnedChildUnreaped /\ NothingOwnedNothingRecorded
  BY DEF Init, ServerInit, MineAreJackds, TimersCount, OwnedChildUnreaped,
         NothingOwnedNothingRecorded, Running
<1>6. StartOnlyWhenIdle /\ StopFollowsOwnership
  BY DEF Init, StartOnlyWhenIdle, StopFollowsOwnership, is_connected, ClientInit
<1>7. ChangeIsDue
  BY DEF Init, ClientInit, ChangeIsDue, is_connected
<1> QED
  BY <1>4, <1>5, <1>6, <1>7 DEF Init, IInv, DownIsQuiet

-----------------------------------------------------------------------------
(* Ownership of processes.                                                 *)

Owning == MineAreJackds /\ OwnedChildUnreaped /\ NothingOwnedNothingRecorded

\* A handler that leaves JackServerControl and the processes alone, and the
\* end of the program apart, keeps ownership as it was.
LEMMA ServerUntouched ==
  ASSUME Owning, UNCHANGED serverVars, mpc' /= "down" => mpc /= "down"
  PROVE  Owning'
  BY DEF Owning, MineAreJackds, OwnedChildUnreaped, NothingOwnedNothingRecorded, Running,
         serverVars

\* Signals change only the history.
LEMMA SignalOwning ==
  ASSUME Owning, UNCHANGED <<proc, mine, ownVars>>, mpc' = mpc
  PROVE  Owning'
  BY DEF Owning, MineAreJackds, OwnedChildUnreaped, NothingOwnedNothingRecorded, Running, ownVars

\* Every step keeps a child that is owned unreaped, and the pid file empty
\* when nothing is owned.
LEMMA OwnStep == ServerTypeOK /\ Owning /\ [Next]_vars => Owning'
<1> SUFFICES ASSUME ServerTypeOK, Owning, [Next]_vars PROVE Owning'
  OBVIOUS
<1> USE DEF MineAreJackds, OwnedChildUnreaped, NothingOwnedNothingRecorded, Running, ownVars
<1>1. ASSUME NEW p \in Pids, ForeignStart(p) \/ Serve(p) \/ StopServing(p) \/ ProcExit(p),
             UNCHANGED appVars
      PROVE  Owning'
  BY <1>1 DEF Owning, ServerTypeOK, ForeignStart, Serve, StopServing, ProcExit, Become, appVars
<1>2. ASSUME UNCHANGED <<serverVars, appVars>> PROVE Owning'
  BY <1>2, ServerUntouched DEF appVars
<1>3. CASE Launch
  BY <1>3 DEF Owning, ServerTypeOK, Launch, Construct, is_our_jackd
<1>4. CASE Leave
  BY <1>4 DEF Owning, Leave, Orphan
<1>5. CASE startServer
  <2>1. CASE UNCHANGED serverVars
    BY <1>5, <2>1, ServerUntouched DEF startServer
  <2>2. ASSUME NEW p \in Pids, spawn(p) PROVE Owning'
    BY <2>2, PidAssumption DEF PidAssumption, Owning, ServerTypeOK, spawn
  <2> QED
    BY <1>5, <2>1, <2>2 DEF startServer
<1>6. CASE stopServer
  BY <1>6, SignalOwning DEF stopServer
<1>7. CASE openSettings \/ closeSettings \/ ToolRefresh \/ ApplyLive
  BY <1>7, ServerUntouched DEF openSettings, closeSettings, ToolRefresh, ApplyLive
<1>8. CASE Attach \/ onPostFromJackThread \/ onAlsaReadable \/ RefreshTimer \/ ReconnectTimer
  BY <1>8, ServerUntouched
  DEF Attach, onPostFromJackThread, onAlsaReadable, RefreshTimer, ReconnectTimer
<1>9. CASE PollStarting
  <2>1. CASE UNCHANGED serverVars
    BY <1>9, <2>1, ServerUntouched DEF PollStarting
  <2>2. CASE UNCHANGED <<proc, mine, ownVars, clientVars, mpc, canvas>>
    BY <2>2, SignalOwning
  <2> QED
    BY <1>9, <2>1, <2>2 DEF PollStarting
<1>10. CASE PollStopping
  <2>1. CASE forget_owned
    BY <1>10, <2>1 DEF Owning, PollStopping, forget_owned
  <2>2. CASE UNCHANGED <<ownVars, m_client>>
    BY <1>10, <2>2, SignalOwning DEF PollStopping
  <2> QED
    BY <1>10, <2>1, <2>2 DEF PollStopping
<1>11. ASSUME NEW p \in Pids, onJackdExited(p) PROVE Owning'
  BY <1>11 DEF Owning, ServerTypeOK, onJackdExited, Reap, child_exited, forget_owned
<1>12. CASE UNCHANGED vars
  BY <1>12, <1>2 DEF vars
<1> QED
  BY <1>1, <1>2, <1>3, <1>4, <1>5, <1>6, <1>7, <1>8, <1>9, <1>10, <1>11, <1>12
  DEF Next, World, User, MainLoop, vars

-----------------------------------------------------------------------------
(* Types.                                                                  *)

\* The processes and the owned pid keep their types.
LEMMA ServerTypeStep == ServerTypeOK /\ [Next]_vars => ServerTypeOK'
<1> SUFFICES ASSUME ServerTypeOK, [Next]_vars PROVE ServerTypeOK'
  OBVIOUS
<1> USE DEF ServerTypeOK, ownVars
<1>1. ASSUME NEW p \in Pids, ForeignStart(p) \/ Serve(p) \/ StopServing(p) \/ ProcExit(p)
      PROVE  ServerTypeOK'
  BY <1>1 DEF ForeignStart, Serve, StopServing, ProcExit, Become
<1>2. CASE UNCHANGED serverVars
  BY <1>2 DEF serverVars
<1>3. CASE Launch
  BY <1>3 DEF Launch, Construct
<1>4. CASE Leave
  BY <1>4 DEF Leave, Orphan
<1>5. ASSUME NEW p \in Pids, spawn(p) PROVE ServerTypeOK'
  BY <1>5 DEF spawn
<1>6. ASSUME request_stop \/ force_kill, UNCHANGED <<proc, mine, ownVars>> PROVE ServerTypeOK'
  BY <1>6 DEF request_stop, force_kill, SendSignal
<1>7. CASE PollStopping
  <2>1. CASE forget_owned
    BY <1>7, <2>1 DEF PollStopping, forget_owned, force_kill, SendSignal
  <2>2. CASE UNCHANGED <<ownVars, m_client>>
    BY <1>7, <2>2, <1>6 DEF PollStopping
  <2> QED
    BY <1>7, <2>1, <2>2 DEF PollStopping
<1>8. ASSUME NEW p \in Pids, onJackdExited(p) PROVE ServerTypeOK'
  BY <1>8 DEF onJackdExited, Reap, child_exited, forget_owned
<1>9. CASE startServer
  BY <1>9, <1>2, <1>5 DEF startServer
<1>10. CASE stopServer
  BY <1>10, <1>6 DEF stopServer
<1>11. CASE PollStarting
  BY <1>11, <1>2, <1>6 DEF PollStarting
<1>12. CASE openSettings \/ closeSettings \/ ToolRefresh \/ ApplyLive
  BY <1>12, <1>2 DEF openSettings, closeSettings, ToolRefresh, ApplyLive
<1>13. CASE Attach \/ onPostFromJackThread \/ onAlsaReadable \/ RefreshTimer \/ ReconnectTimer
  BY <1>13, <1>2
  DEF Attach, onPostFromJackThread, onAlsaReadable, RefreshTimer, ReconnectTimer
<1>14. CASE UNCHANGED vars
  BY <1>14, <1>2 DEF vars
<1> QED
  BY <1>1, <1>2, <1>3, <1>4, <1>7, <1>8, <1>9, <1>10, <1>11, <1>12, <1>13, <1>14
  DEF Next, World, User, MainLoop

\* The client and the flags keep their types.
LEMMA ClientTypeStep == ClientTypeOK /\ [Next]_vars => ClientTypeOK'
<1> SUFFICES ASSUME ClientTypeOK, [Next]_vars PROVE ClientTypeOK'
  OBVIOUS
<1> USE DEF ClientTypeOK
<1>1. CASE UNCHANGED clientVars
  BY <1>1 DEF clientVars
<1>2. ASSUME connect \/ disconnect \/ connect_fails, posted' \in {posted, {}}
      PROVE  ClientTypeOK'
  BY <1>2 DEF connect, disconnect, connect_fails
<1>3. ASSUME scan_ports, posted' = posted PROVE ClientTypeOK'
  BY <1>3 DEF scan_ports
<1>4. CASE shutdown_callback \/ port_callback \/ xrun_callback
  BY <1>4 DEF shutdown_callback, port_callback, xrun_callback, Posting, Kinds
<1>5. ASSUME ServerLost, UNCHANGED <<m_server_gone, attached, posted, stale>>
      PROVE  ClientTypeOK'
  BY <1>5 DEF ServerLost
<1>6. CASE World
  BY <1>6, <1>1, <1>4, <1>5 DEF World
<1>7. CASE UNCHANGED <<m_client, m_server_gone, attached, stale>> /\ posted' \in {posted, {}}
  BY <1>7
<1>8. CASE Launch \/ Leave
  BY <1>8, <1>2 DEF Launch, Leave, OpenClient
<1>9. CASE startServer \/ stopServer
  BY <1>9, <1>2, <1>7 DEF startServer, stopServer, connectJack, OpenClient
<1>10. CASE openSettings \/ closeSettings \/ ToolRefresh \/ ApplyLive
  BY <1>10, <1>1, <1>3 DEF openSettings, closeSettings, ToolRefresh, ApplyLive, refreshPorts
<1>11. CASE Attach
  BY <1>11 DEF Attach
<1>12. CASE onPostFromJackThread
  BY <1>12, <1>2, <1>7 DEF onPostFromJackThread, handleServerGone
<1>13. CASE onAlsaReadable \/ RefreshTimer
  BY <1>13, <1>1, <1>3 DEF onAlsaReadable, RefreshTimer, refreshPorts
<1>14. CASE ReconnectTimer
  BY <1>14, <1>1, <1>2 DEF ReconnectTimer, tryReconnectJack, OpenClient
<1>15. CASE PollStarting
  BY <1>15, <1>1, <1>2 DEF PollStarting, connectJack, OpenClient
<1>16. CASE PollStopping
  BY <1>16 DEF PollStopping
<1>17. ASSUME NEW p \in Pids, onJackdExited(p) PROVE ClientTypeOK'
  BY <1>17, <1>1 DEF onJackdExited
<1>18. CASE UNCHANGED vars
  BY <1>18, <1>1 DEF vars
<1> QED
  BY <1>6, <1>8, <1>9, <1>10, <1>11, <1>12, <1>13, <1>14, <1>15, <1>16, <1>17, <1>18
  DEF Next, User, MainLoop

-----------------------------------------------------------------------------
(* The window and the timers.                                              *)

\* What the window shows agrees with the state it was told of.
PanelTold ==
  /\ panel = "Stopped" => mServerOp = "None" /\ ~is_connected
  /\ panel /= "closed" =>
       /\ panelOurs = (m_child_pid /= NoPid)
       /\ panel \in {"Starting", "Stopping"} \/ mServerOp /= "None" => panel = mServerOp

\* updateStatus brings the window up to date, whatever it showed.
LEMMA UpdateTells ==
  ASSUME AppTypeOK, mServerOp' \in {"None", "Starting", "Stopping"}, updateStatus
  PROVE  /\ PanelTold'
         /\ panel' \in {"closed", "Stopped", "Starting", "Running", "Stopping"}
         /\ panelOurs' \in BOOLEAN
<1>1. /\ panel' \in {"closed", "Stopped", "Starting", "Running", "Stopping"}
      /\ panel' = "Stopped" => mServerOp' = "None" /\ m_client' = "null"
      /\ panel' = "closed" <=> panel = "closed"
      /\ panel' /= "closed" /\ (panel' \in {"Starting", "Stopping"} \/ mServerOp' /= "None")
           => panel' = mServerOp'
  BY DEF AppTypeOK, updateStatus, StateShown
<1>2. panelOurs' \in BOOLEAN
  BY Zenon DEF updateStatus
<1>3. panel /= "closed" => panelOurs' = (m_child_pid' /= NoPid)
  BY DEF updateStatus
<1> QED
  BY <1>1, <1>2, <1>3 DEF PanelTold, is_connected

\* While the main loop is in no handler the window has been told.
Told == mpc = "idle" => PanelTold

\* The tick counts stay below their ends, and the state is typed.
Timed == AppTypeOK /\ TimersCount /\ DownIsQuiet

\* Every step keeps the window told, the timers below their ends and the
\* application's own variables typed.
LEMMA WindowStep == Timed /\ Told /\ [Next]_vars => Timed' /\ Told'
<1> SUFFICES ASSUME Timed, Told, [Next]_vars PROVE Timed' /\ Told'
  OBVIOUS
<1> USE TickAssumption DEF TickAssumption, Timed, TimersCount, DownIsQuiet,
      AppTypeOK, Told, opVars, pollVars, refreshVars, panelVars
<1>1. ASSUME World, UNCHANGED appVars PROVE Timed' /\ Told'
  <2>1. (m_client' = "null") <=> (m_client = "null")
    BY <1>1 DEF World, shutdown_callback, port_callback, xrun_callback, ServerLost, clientVars
  <2>2. m_child_pid' = m_child_pid
    BY <1>1 DEF World, ForeignStart, Serve, ProcExit, StopServing, serverVars, ownVars
  <2> QED
    BY <1>1, <2>1, <2>2 DEF PanelTold, appVars, is_connected
<1>2. CASE UNCHANGED vars
  BY <1>2 DEF vars, appVars, clientVars, serverVars, ownVars, PanelTold, is_connected
<1>3. ASSUME connectJack, mServerOp' = "None", mServerOpTicks' \in Nat,
             mpc = "idle", UNCHANGED <<pollVars, refreshVars>>
      PROVE  Timed' /\ Told'
  <2>1. CASE OpenClient
    BY <1>3, <2>1 DEF OpenClient
  <2>2. CASE updateStatus /\ UNCHANGED <<mpc, canvas>>
    BY <1>3, <2>2, UpdateTells
  <2> QED
    BY <1>3, <2>1, <2>2 DEF connectJack
<1>4. CASE Launch
  BY <1>4 DEF Launch, OpenClient, PanelTold
<1>5. CASE Leave
  <2>1. {reconnecting', mRefreshPending', refreshTimer', panelOurs'} \subseteq BOOLEAN
    BY <1>5 DEF Leave
  <2>2. /\ mpc' = "down" /\ mServerOp' = "None" /\ mServerOpTicks' = 0
        /\ reconnecting' = FALSE /\ mReconnectAttempts' = 0
        /\ canvas' = "alsa" /\ panel' = "closed"
    BY <1>5 DEF Leave
  <2>3. mReconnectAttempts' \in 0 .. MaxAttempts
    BY <2>2
  <2> QED
    BY <2>1, <2>2, <2>3
<1>6. CASE startServer
  <2>1. CASE connectJack /\ UNCHANGED opVars
    BY <1>6, <2>1, <1>3 DEF startServer
  <2>2. CASE mServerOp' = "Starting" /\ mServerOpTicks' = 0
             /\ UNCHANGED <<mpc, canvas>> /\ updateStatus
    BY <1>6, <2>2, UpdateTells DEF startServer
  <2> QED
    BY <1>6, <2>1, <2>2 DEF startServer
<1>7. CASE stopServer
  <2>1. /\ PanelTold'
        /\ panel' \in {"closed", "Stopped", "Starting", "Running", "Stopping"}
        /\ panelOurs' \in BOOLEAN
    BY <1>7, UpdateTells DEF stopServer, Redraw
  <2>2. canvas' \in {"jack", "alsa"}
    BY <1>7 DEF stopServer, Redraw
  <2>3. reconnecting' = FALSE /\ reconnecting' \in BOOLEAN
    BY <1>7 DEF stopServer
  <2> QED
    BY <1>7, <2>1, <2>2, <2>3 DEF stopServer
<1>8. CASE openSettings
  <2>1. PanelTold'
    BY <1>8 DEF openSettings, StateShown, PanelTold, is_connected, serverVars, ownVars
  <2>2. panelOurs' \in BOOLEAN
    BY <1>8, Zenon DEF openSettings
  <2> QED
    BY <1>8, <2>1, <2>2 DEF openSettings, StateShown
<1>9. CASE closeSettings
  BY <1>9 DEF closeSettings, PanelTold
<1>10. CASE ToolRefresh
  BY <1>10, UpdateTells DEF ToolRefresh, refreshPorts, Redraw
<1>11. CASE ApplyLive
  BY <1>11, UpdateTells DEF ApplyLive
<1>12. CASE Attach
  BY <1>12, UpdateTells DEF Attach, Redraw
<1>13. CASE onPostFromJackThread
  <2>1. refreshVars' \in BOOLEAN \X BOOLEAN
    BY <1>13, Zenon DEF onPostFromJackThread, schedulePortRefresh
  <2>2. CASE handleServerGone
    BY <1>13, <2>1, <2>2, UpdateTells DEF onPostFromJackThread, handleServerGone, Redraw
  <2>3. CASE updateStatus /\ UNCHANGED <<pollVars, canvas>>
    BY <1>13, <2>1, <2>3, UpdateTells DEF onPostFromJackThread
  <2>4. CASE UNCHANGED <<panelVars, m_client, pollVars, canvas>>
    BY <1>13, <2>1, <2>4 DEF onPostFromJackThread, PanelTold, is_connected, serverVars, ownVars
  <2> QED
    BY <1>13, <2>2, <2>3, <2>4 DEF onPostFromJackThread
<1>14. CASE onAlsaReadable
  <2>1. refreshVars' \in BOOLEAN \X BOOLEAN
    BY <1>14, Zenon DEF onAlsaReadable, schedulePortRefresh
  <2> QED
    BY <1>14, <2>1
    DEF onAlsaReadable, PanelTold, is_connected, serverVars, ownVars, clientVars
<1>15. CASE RefreshTimer
  BY <1>15, UpdateTells DEF RefreshTimer, refreshPorts, Redraw
<1>16. CASE ReconnectTimer
  <2>1. CASE is_connected
    BY <1>16, <2>1 DEF ReconnectTimer, tryReconnectJack, PanelTold, is_connected, serverVars,
       ownVars, clientVars
  <2>2. CASE OpenClient /\ reconnecting' = FALSE /\ UNCHANGED mReconnectAttempts
    BY <1>16, <2>2 DEF ReconnectTimer, OpenClient
  <2>3. CASE /\ ~is_connected /\ connect_fails
             /\ mReconnectAttempts' = NextAttempt /\ reconnecting' = KeepPolling(NextAttempt)
             /\ IF reconnecting' THEN UNCHANGED panelVars ELSE updateStatus
             /\ UNCHANGED <<mpc, canvas>>
    <3>1. mReconnectAttempts' \in 0 .. MaxAttempts
      BY <1>16, <2>3 DEF ReconnectTimer, NextAttempt
    <3>2. mReconnectAttempts' = NextAttempt /\ reconnecting' = (NextAttempt < MaxAttempts)
      BY <2>3 DEF KeepPolling
    <3>3. reconnecting' \in BOOLEAN
      BY <3>2
    <3>4. reconnecting' => mReconnectAttempts' < MaxAttempts
      BY <3>2
    <3>5. CASE updateStatus
      BY <1>16, <2>3, <3>1, <3>3, <3>4, <3>5, UpdateTells DEF ReconnectTimer
    <3>6. CASE UNCHANGED panelVars
      BY <1>16, <2>3, <3>1, <3>3, <3>4, <3>6
      DEF ReconnectTimer, PanelTold, is_connected, serverVars, ownVars, connect_fails, disconnect
    <3> QED
      BY <2>3, <3>5, <3>6
  <2> QED
    BY <1>16, <2>1, <2>2, <2>3 DEF ReconnectTimer, tryReconnectJack
<1>17. CASE PollStarting
  <2>1. CASE connectJack /\ mServerOp' = "None" /\ NextTick
    BY <1>17, <2>1, <1>3 DEF PollStarting, NextTick
  <2>2. CASE /\ mServerOpTicks + 1 < kStartTicks /\ NextTick
             /\ UNCHANGED <<serverVars, clientVars, mpc, mServerOp, canvas, panelVars>>
    BY <1>17, <2>2 DEF PollStarting, NextTick, PanelTold, is_connected, serverVars, ownVars,
       clientVars
  <2>3. CASE /\ mServerOp' = "Stopping" /\ mServerOpTicks' = 0
             /\ UNCHANGED <<mpc, canvas>> /\ updateStatus
    BY <1>17, <2>3, UpdateTells DEF PollStarting
  <2> QED
    BY <1>17, <2>1, <2>2, <2>3 DEF PollStarting
<1>18. CASE PollStopping
  <2>1. CASE mServerOp' = "None" /\ updateStatus
    BY <1>18, <2>1, UpdateTells DEF PollStopping, NextTick
  <2>2. CASE /\ mServerOpTicks' < kGiveUpTicks
             /\ UNCHANGED <<ownVars, m_client, mServerOp, panelVars>>
    BY <1>18, <2>2 DEF PollStopping, NextTick, PanelTold, is_connected, ownVars
  <2> QED
    BY <1>18, <2>1, <2>2 DEF PollStopping
<1>19. ASSUME NEW p \in Pids, onJackdExited(p) PROVE Timed' /\ Told'
  BY <1>19, UpdateTells DEF onJackdExited
<1> QED
  BY <1>1, <1>2, <1>4, <1>5, <1>6, <1>7, <1>8, <1>9, <1>10, <1>11, <1>12, <1>13, <1>14, <1>15,
     <1>16, <1>17, <1>18, <1>19
  DEF Next, User, MainLoop

-----------------------------------------------------------------------------
(* Changes of JACK's graph.                                                *)

\* A refresh that is scheduled has its timer, the first one of a burst or not.
LEMMA Scheduled ==
  ASSUME AppTypeOK, ChangeIsDue, schedulePortRefresh
  PROVE  mRefreshPending' = TRUE /\ refreshTimer' = TRUE
<1>1. refreshTimer' = (refreshTimer \/ ~mRefreshPending) /\ mRefreshPending' = TRUE
  BY DEF schedulePortRefresh
<1>2. mRefreshPending = refreshTimer
  BY DEF ChangeIsDue
<1>3. (refreshTimer \/ ~refreshTimer) = TRUE
  BY Zenon
<1> QED
  BY <1>1, <1>2, <1>3

\* What there is to do does not change with the handle and the flags.
LEMMA StillDue ==
  ASSUME ChangeIsDue, UNCHANGED <<m_client, m_server_gone, attached, stale, refreshVars>>,
         mpc' = mpc, "ports" \in posted => "ports" \in posted'
  PROVE  ChangeIsDue'
BY DEF ChangeIsDue, is_connected, refreshVars

\* A client that is opened has its callbacks and the ports read before the loop goes on,
\* and without a client there is nothing to notice.
LEMMA NothingStale ==
  ASSUME mRefreshPending' = refreshTimer',
         m_server_gone' => m_client' = "dead",
         \/ mpc' \in {"down", "attach"}
         \/ m_client' = "null"
         \/ attached' /\ stale' = FALSE
  PROVE  ChangeIsDue'
BY DEF ChangeIsDue, is_connected

\* connect() and its failure leave nothing of the earlier client.
LEMMA Reopened ==
  ASSUME ChangeIsDue, connectJack \/ OpenClient, UNCHANGED refreshVars
  PROVE  ChangeIsDue'
<1>1. mRefreshPending' = refreshTimer'
  BY DEF ChangeIsDue, refreshVars
<1>2. CASE OpenClient
  BY <1>1, <1>2, NothingStale DEF OpenClient, connect
<1>3. CASE connect_fails
  BY <1>1, <1>3, NothingStale DEF connect_fails, disconnect
<1> QED
  BY <1>2, <1>3 DEF connectJack

\* scan_ports reads what there is.
LEMMA Refreshed ==
  ASSUME ChangeIsDue, mpc = "idle", scan_ports, mRefreshPending' = refreshTimer', mpc' = mpc
  PROVE  ChangeIsDue'
<1>1. m_client = m_client' /\ m_server_gone' = m_server_gone /\ attached' = attached
  BY DEF scan_ports
<1>2. m_server_gone => m_client = "dead"
  BY DEF ChangeIsDue
<1>3. m_client = "live" => stale' = FALSE
  BY <1>2 DEF scan_ports
<1> QED
  BY <1>1, <1>2, <1>3 DEF ChangeIsDue, is_connected

\* Every step keeps what the canvas lacks on its way to it.
LEMMA ChangeStep == ClientTypeOK /\ AppTypeOK /\ ChangeIsDue /\ [Next]_vars => ChangeIsDue'
<1> SUFFICES ASSUME ClientTypeOK, AppTypeOK, ChangeIsDue, [Next]_vars PROVE ChangeIsDue'
  OBVIOUS
<1>1. CASE World /\ UNCHANGED appVars
  <2>1. CASE UNCHANGED clientVars
    BY <1>1, <2>1, StillDue DEF clientVars, appVars
  <2>2. CASE ServerLost /\ UNCHANGED <<m_server_gone, attached, posted, stale>>
    BY <1>1, <2>2 DEF ServerLost, ChangeIsDue, is_connected, appVars, refreshVars
  <2>3. CASE shutdown_callback
    BY <1>1, <2>3 DEF shutdown_callback, ChangeIsDue, is_connected, appVars, refreshVars
  <2>4. CASE port_callback
    BY <1>1, <2>4 DEF port_callback, Posting, ChangeIsDue, is_connected, appVars, refreshVars
  <2>5. CASE xrun_callback
    BY <1>1, <2>5, StillDue DEF xrun_callback, Posting, appVars
  <2> QED
    BY <1>1, <2>1, <2>2, <2>3, <2>4, <2>5 DEF World
<1>2. CASE Launch
  BY <1>2, Reopened, NothingStale
  DEF Launch, ChangeIsDue, connect_fails, disconnect, refreshVars
<1>3. CASE Leave
  BY <1>3, NothingStale DEF Leave, disconnect
<1>4. CASE startServer
  <2>1. CASE connectJack
    BY <1>4, <2>1, Reopened DEF startServer
  <2>2. CASE UNCHANGED <<m_client, m_server_gone, attached, stale, mpc, canvas>>
    BY <1>4, <2>2, StillDue DEF startServer
  <2> QED
    BY <1>4, <2>1, <2>2 DEF startServer
<1>5. CASE stopServer
  BY <1>5, NothingStale DEF stopServer, disconnect, ChangeIsDue, refreshVars
<1>6. CASE openSettings \/ closeSettings \/ ApplyLive
  BY <1>6, StillDue DEF openSettings, closeSettings, ApplyLive, clientVars
<1>7. CASE ToolRefresh
  BY <1>7, Refreshed DEF ToolRefresh, refreshPorts, ChangeIsDue, refreshVars
<1>8. CASE RefreshTimer
  BY <1>8, Refreshed DEF RefreshTimer, refreshPorts
<1>9. CASE Attach
  <2>1. m_server_gone => m_client = "dead"
    BY DEF ChangeIsDue
  <2>2. CASE m_server_gone
    BY <1>9, <2>1, <2>2 DEF Attach, ChangeIsDue, is_connected, refreshVars
  <2>3. CASE ~m_server_gone
    BY <1>9, <2>1, <2>3, NothingStale DEF Attach, ChangeIsDue, refreshVars
  <2> QED
    BY <2>2, <2>3
<1>10. CASE onPostFromJackThread
  <2>1. mRefreshPending' = refreshTimer'
    BY <1>10, Scheduled DEF onPostFromJackThread, ChangeIsDue, refreshVars
  <2>2. CASE handleServerGone
    BY <2>1, <2>2, NothingStale DEF handleServerGone, disconnect
  <2>3. CASE UNCHANGED <<m_client, m_server_gone, attached, stale>>
    <3>1. "ports" \in posted \/ refreshTimer => refreshTimer'
      BY <1>10, Scheduled DEF onPostFromJackThread, refreshVars
    <3> QED
      BY <1>10, <2>1, <2>3, <3>1 DEF onPostFromJackThread, ChangeIsDue, is_connected
  <2> QED
    BY <1>10, <2>2, <2>3 DEF onPostFromJackThread
<1>11. CASE onAlsaReadable
  BY <1>11, Scheduled DEF onAlsaReadable, clientVars, ChangeIsDue, is_connected
<1>12. CASE ReconnectTimer
  <2>1. CASE UNCHANGED <<clientVars, mpc>>
    BY <1>12, <2>1, StillDue DEF ReconnectTimer, clientVars
  <2>2. CASE OpenClient
    BY <1>12, <2>2, Reopened DEF ReconnectTimer
  <2>3. CASE connect_fails
    BY <1>12, <2>3, NothingStale
    DEF ReconnectTimer, connect_fails, disconnect, ChangeIsDue, refreshVars
  <2> QED
    BY <1>12, <2>1, <2>2, <2>3 DEF ReconnectTimer, tryReconnectJack
<1>13. CASE PollStarting
  <2>1. CASE connectJack
    BY <1>13, <2>1, Reopened DEF PollStarting
  <2>2. CASE UNCHANGED <<clientVars, mpc>>
    BY <1>13, <2>2, StillDue DEF PollStarting, clientVars
  <2> QED
    BY <1>13, <2>1, <2>2 DEF PollStarting
<1>14. CASE PollStopping
  BY <1>14, StillDue DEF PollStopping
<1>15. ASSUME NEW p \in Pids, onJackdExited(p) PROVE ChangeIsDue'
  BY <1>15, StillDue DEF onJackdExited, clientVars
<1>16. CASE UNCHANGED vars
  BY <1>16, StillDue DEF vars, clientVars, appVars
<1> QED
  BY <1>1, <1>2, <1>3, <1>4, <1>5, <1>6, <1>7, <1>8, <1>9, <1>10, <1>11, <1>12, <1>13, <1>14,
     <1>15, <1>16
  DEF Next, User, MainLoop

-----------------------------------------------------------------------------
(* The theorems.                                                           *)

\* The inductive invariant holds in every reachable state.
THEOREM Invariance == Safety => []IInv
<1>1. IInv <=> ServerTypeOK /\ ClientTypeOK /\ Owning /\ Timed /\ Told /\ ChangeIsDue
  BY DEF IInv, TypeOK, Owning, Timed, Told, PanelTold, StartOnlyWhenIdle, StopFollowsOwnership,
         OwnedChildUnreaped
<1>2. IInv' <=> (ServerTypeOK /\ ClientTypeOK /\ Owning /\ Timed /\ Told /\ ChangeIsDue)'
  BY DEF IInv, TypeOK, Owning, Timed, Told, PanelTold, StartOnlyWhenIdle, StopFollowsOwnership,
         OwnedChildUnreaped
<1>3. IInv /\ [Next]_vars => IInv'
  BY <1>1, <1>2, ServerTypeStep, ClientTypeStep, OwnStep, WindowStep, ChangeStep DEF Timed
<1> QED
  BY <1>3, InitIInv, PTL DEF Safety

\* The child that Stop would signal is a jackd that has not been reaped.
THEOREM OwnedChildIsSafeToSignal == Safety => []OwnedChildUnreaped
<1>1. IInv => OwnedChildUnreaped
  BY DEF IInv
<1> QED
  BY <1>1, Invariance, PTL

\* A pid file outlives the ownership it records only when the program ends.
THEOREM PidFileFollowsOwnership == Safety => []NothingOwnedNothingRecorded
<1>1. IInv => NothingOwnedNothingRecorded
  BY DEF IInv
<1> QED
  BY <1>1, Invariance, PTL

\* Start is offered only with nothing in flight and no client open.
THEOREM StartIsOfferedWhenIdle == Safety => []StartOnlyWhenIdle
<1>1. IInv => StartOnlyWhenIdle
  BY DEF IInv
<1> QED
  BY <1>1, Invariance, PTL

\* The window shows the operation in flight and whether a pid is owned, and Stop, when it
\* is for our own child, is for one that has not been reaped.
THEOREM WindowFollowsOwnership == Safety => []StopFollowsOwnership
<1>1. IInv => StopFollowsOwnership
  BY DEF IInv
<1> QED
  BY <1>1, Invariance, PTL

\* A change of JACK's graph is on the canvas, or posted, or has the refresh timer running:
\* bursts, late callbacks and clients that come and go between do not lose it.
THEOREM NoChangeIsForgotten == Safety => []ChangeIsDue
<1>1. IInv => ChangeIsDue
  BY DEF IInv
<1> QED
  BY <1>1, Invariance, PTL

-----------------------------------------------------------------------------
(* The client.                                                             *)

\* A client is opened in a step that ends at "attach", and dropped in one that
\* draws what is left.
THEOREM ConnectedCanvas == Safety => []ConnectedShowsJack
<1>1. Init => ConnectedShowsJack
  BY DEF Init, ConnectedShowsJack
<1>2. ConnectedShowsJack /\ [Next]_vars => ConnectedShowsJack'
  <2> SUFFICES ASSUME ConnectedShowsJack, [Next]_vars PROVE ConnectedShowsJack'
    OBVIOUS
  <2> USE DEF ConnectedShowsJack, is_connected
  <2>1. ASSUME UNCHANGED <<mpc, canvas>>, m_client' /= "null" => m_client /= "null"
        PROVE  ConnectedShowsJack'
    BY <2>1
  <2>2. ASSUME mpc' \in {"down", "attach"} \/ m_client' = "null" \/ canvas' = "jack"
        PROVE  ConnectedShowsJack'
    BY <2>2
  <2>3. ASSUME Redraw PROVE ConnectedShowsJack'
    BY <2>3 DEF Redraw
  <2>4. ASSUME connectJack PROVE ConnectedShowsJack'
    BY <2>2, <2>4 DEF connectJack, OpenClient, connect_fails, disconnect
  <2>5. CASE World /\ UNCHANGED appVars
    <3>1. m_client' /= "null" => m_client /= "null"
      BY <2>5 DEF World, clientVars, ServerLost, shutdown_callback, port_callback, xrun_callback
    <3> QED
      BY <2>1, <2>5, <3>1 DEF appVars
  <2>6. CASE Launch \/ Leave
    BY <2>2, <2>6 DEF Launch, Leave, OpenClient, connect_fails, disconnect
  <2>7. CASE startServer
    BY <2>1, <2>4, <2>7 DEF startServer
  <2>8. CASE stopServer
    BY <2>3, <2>8 DEF stopServer
  <2>9. CASE openSettings \/ closeSettings \/ ApplyLive \/ onAlsaReadable
    BY <2>1, <2>9 DEF openSettings, closeSettings, ApplyLive, onAlsaReadable, clientVars
  <2>10. CASE ToolRefresh \/ RefreshTimer \/ Attach
    BY <2>3, <2>10 DEF ToolRefresh, RefreshTimer, Attach, refreshPorts
  <2>11. CASE onPostFromJackThread
    BY <2>1, <2>3, <2>11 DEF onPostFromJackThread, handleServerGone
  <2>12. CASE ReconnectTimer
    BY <2>1, <2>2, <2>12
    DEF ReconnectTimer, tryReconnectJack, OpenClient, connect_fails, disconnect, clientVars
  <2>13. CASE PollStarting
    BY <2>1, <2>4, <2>13 DEF PollStarting, clientVars
  <2>14. CASE PollStopping
    BY <2>1, <2>14 DEF PollStopping
  <2>15. ASSUME NEW p \in Pids, onJackdExited(p) PROVE ConnectedShowsJack'
    BY <2>1, <2>15 DEF onJackdExited, clientVars
  <2>16. CASE UNCHANGED vars
    BY <2>1, <2>16 DEF vars, clientVars, appVars
  <2> QED
    BY <2>5, <2>6, <2>7, <2>8, <2>9, <2>10, <2>11, <2>12, <2>13, <2>14, <2>15, <2>16
    DEF Next, User, MainLoop
<1> QED
  BY <1>1, <1>2, PTL DEF Safety

GoneIsDead == m_server_gone => m_client = "dead"

\* The flag is never left over from an earlier handle: only the shutdown callback
\* raises it, and connect() resets it.
LEMMA GoneIsDeadAlways == Safety => []GoneIsDead
<1>1. IInv => GoneIsDead
  BY DEF IInv, ChangeIsDue, GoneIsDead
<1> QED
  BY <1>1, Invariance, PTL

\* A shutdown notification that arrives after a fresh client was opened does not
\* tear it down.
THEOREM FreshClientSurvives == Safety => LateShutdownHarmless
<1> DEFINE Late == posted /= {} /\ posted' = {} /\ Running' /\ m_client = "live"
<1>1. GoneIsDead /\ Next /\ Late => m_client' = "live"
  <2> SUFFICES ASSUME GoneIsDead, Next, Late PROVE m_client' = "live"
    OBVIOUS
  <2>1. CASE World
    BY <2>1 DEF World, clientVars, ServerLost, shutdown_callback, port_callback, xrun_callback, Posting
  <2>2. CASE onPostFromJackThread
    BY <2>2 DEF onPostFromJackThread, TornDown, GoneIsDead
  <2>3. CASE Leave
    BY <2>3 DEF Leave, Running
  <2>4. CASE \/ Launch \/ startServer \/ stopServer \/ openSettings \/ closeSettings \/ ToolRefresh
             \/ ApplyLive \/ Attach \/ onAlsaReadable \/ RefreshTimer
    BY <2>4
    DEF Launch, startServer, stopServer, openSettings, closeSettings, ToolRefresh, ApplyLive,
        Attach, onAlsaReadable, RefreshTimer, clientVars
  <2>5. CASE ReconnectTimer
    BY <2>5 DEF ReconnectTimer, tryReconnectJack, clientVars
  <2>6. CASE PollStarting \/ PollStopping
    BY <2>6 DEF PollStarting, PollStopping, clientVars
  <2>7. ASSUME NEW p \in Pids, onJackdExited(p) PROVE m_client' = "live"
    BY <2>7 DEF onJackdExited, clientVars
  <2> QED
    BY <2>1, <2>2, <2>3, <2>4, <2>5, <2>6, <2>7 DEF Next, User, MainLoop
<1>2. GoneIsDead /\ [Next]_vars => [Late => m_client' = "live"]_vars
  BY <1>1
<1> QED
  BY <1>2, GoneIsDeadAlways, PTL DEF Safety, LateShutdownHarmless
=============================================================================
