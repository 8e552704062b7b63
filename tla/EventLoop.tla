----------------------------- MODULE EventLoop -----------------------------
(***************************************************************************)
(* X11Window::run: X events, timers, descriptors and the two dialogs that  *)
(* main.cpp opens, one loop for all of them.  Handlers add and remove      *)
(* handlers and open and close windows while the loop is walking a copy    *)
(* of its lists.                                                           *)
(*                                                                         *)
(* Abstracted: what a handler does besides that; what is painted; the      *)
(* clock (a timer past its deadline is in `due', and a timer that is       *)
(* re-armed is not until its deadline passes again); a window object is a  *)
(* value that may be reused once the object is gone, as an address is.     *)
(***************************************************************************)
EXTENDS Naturals, FiniteSets

CONSTANTS MaxToken,  \* bound: timers and descriptors ever registered
          MaxX,      \* bound: X events under way at a time
          Windows,   \* X11Window objects of dialogs
          NoWindow

ASSUME LoopAssumption ==
  /\ MaxToken \in Nat /\ MaxX \in Nat
  /\ MaxToken >= 2
  /\ NoWindow \notin Windows

Dialogs == {"settings", "about"}
Tokens  == 1 .. MaxToken

VARIABLES pc, mRunning,
          caller,          \* whose handler runs: a window, "timer", "fd", "none"
          token,           \* its token, 0 for a window or none
          mNextToken, mTimers, due, mFds, readable,
          copy,            \* of the copy being dispatched, the entries still to come
          wire, queued,    \* X events on the connection, and in Xlib's queue
          mDialogs, mCloseRequested,
          mDirty,          \* a window of the loop is to be painted
          owned,           \* setWin and aboutWin
          isOpen           \* App::mSettingsOpen and aboutOpen

callVars   == <<caller, token>>
timerVars  == <<mTimers, due>>
fdVars     == <<mFds, readable>>
xVars      == <<wire, queued>>
dialogVars == <<mDialogs, mCloseRequested, owned, isOpen>>
vars == <<pc, mRunning, callVars, mNextToken, timerVars, fdVars, copy, xVars, mDirty, dialogVars>>

TypeOK ==
  /\ pc \in {"events", "reap", "paint", "sample", "timers", "reap2", "paint2",
             "check", "select", "fds", "calling", "stopped"}
  /\ mRunning \in BOOLEAN
  /\ caller \in Dialogs \cup {"none", "main", "timer", "fd"}
  /\ token \in Tokens \cup {0}
  /\ mNextToken \in 1 .. MaxToken + 1
  /\ mTimers \subseteq Tokens /\ due \subseteq mTimers
  /\ mFds \subseteq Tokens /\ readable \subseteq mFds
  /\ copy \subseteq Tokens
  /\ wire \in Nat /\ queued \in Nat
  /\ mDialogs \subseteq Windows
  /\ mCloseRequested \subseteq Windows
  /\ mDirty \in BOOLEAN
  /\ owned \in [Dialogs -> Windows \cup {NoWindow}]
  /\ isOpen \in [Dialogs -> BOOLEAN]

\* main has registered the wake pipe and, if there is one, the sequencer.
Init ==
  /\ pc = "events" /\ mRunning = TRUE
  /\ caller = "none" /\ token = 0
  /\ mFds \in {{1}, {1, 2}} /\ readable = {}
  /\ mNextToken = Cardinality(mFds) + 1
  /\ mTimers = {} /\ due = {}
  /\ copy = {}
  /\ wire = 0 /\ queued = 0
  /\ mDialogs = {} /\ mCloseRequested = {}
  /\ mDirty = TRUE
  /\ owned = [k \in Dialogs |-> NoWindow]
  /\ isOpen = [k \in Dialogs |-> FALSE]

-----------------------------------------------------------------------------
(* What happens outside the program.                                       *)

XEventArrives ==
  /\ wire + queued < MaxX
  /\ wire' = wire + 1
  /\ UNCHANGED <<pc, mRunning, callVars, mNextToken, timerVars, fdVars, copy, queued, mDirty, dialogVars>>

DeadlinePasses(t) ==
  /\ t \in mTimers
  /\ due' = due \cup {t}
  /\ UNCHANGED <<pc, mRunning, callVars, mNextToken, mTimers, fdVars, copy, xVars, mDirty, dialogVars>>

BecomesReadable(t) ==
  /\ t \in mFds
  /\ readable' = readable \cup {t}
  /\ UNCHANGED <<pc, mRunning, callVars, mNextToken, timerVars, mFds, copy, xVars, mDirty, dialogVars>>

-----------------------------------------------------------------------------
(* The loop.                                                               *)

GoTo(next) == IF mRunning THEN next ELSE "stopped"

\* One event.  The input method may swallow it, its window may be gone, or there may
\* be nothing to do for it; an Expose, and a new size, have the window painted; the
\* rest is a handler's.
handleEvent ==
  \/ UNCHANGED <<pc, caller, mDirty>>
  \/ UNCHANGED <<pc, caller>> /\ mDirty' = TRUE
  \/ /\ pc' = "calling"
     /\ caller' \in {"main"} \cup {k \in Dialogs : owned[k] \in mDialogs}
     /\ mDirty' \in {mDirty, TRUE}

\* XNextEvent: XPending reads the connection only when its queue is empty.
TakeEvent ==
  /\ pc = "events"
  /\ \/ queued > 0 /\ queued' = queued - 1 /\ UNCHANGED wire
     \/ queued = 0 /\ wire > 0 /\ queued' = wire - 1 /\ wire' = 0
  /\ handleEvent
  /\ UNCHANGED <<mRunning, token, mNextToken, timerVars, fdVars, copy, dialogVars>>

EventsDone ==
  /\ pc = "events"
  /\ queued = 0 /\ wire = 0
  /\ pc' = GoTo("reap")
  /\ UNCHANGED <<mRunning, callVars, mNextToken, timerVars, fdVars, copy, xVars, mDirty, dialogVars>>

Mutant_CloseKeepsEntry(ws) == mDialogs  \* the dialog does not unregister from its parent

\* close(), or the destructor, of the dialogs ws: what is left of mDialogs.
Without(ws) == mDialogs \ ws

ReapDialogs(from, to) ==
  /\ pc = from
  /\ pc' = to
  /\ LET ws == mDialogs \cap mCloseRequested
     IN /\ mDialogs' = Without(ws)
        /\ mDirty' = (mDirty \/ ws /= {})
  /\ UNCHANGED <<mRunning, callVars, mNextToken, timerVars, fdVars, copy, xVars, mCloseRequested, owned, isOpen>>

\* Every window that is dirty.  Xlib may read the connection on the way.
Paint(from, to) ==
  /\ pc = from
  /\ pc' = to
  /\ mDirty' = FALSE
  /\ \/ UNCHANGED xVars
     \/ wire' = 0 /\ queued' = queued + wire
  /\ UNCHANGED <<mRunning, callVars, mNextToken, timerVars, fdVars, copy, dialogVars>>

\* The time is read and the timers are copied.
CopyTimers ==
  /\ pc = "sample"
  /\ pc' = "timers"
  /\ copy' = due
  /\ UNCHANGED <<mRunning, callVars, mNextToken, timerVars, fdVars, xVars, mDirty, dialogVars>>

First(t) == t \in copy /\ \A u \in copy : t <= u

Calls(who, t) == pc' = "calling" /\ caller' = who /\ token' = t

Mutant_DispatchTimerUnchecked(t) == \* the copy is trusted
  /\ pc = "timers"
  /\ First(t)
  /\ copy' = copy \ {t}
  /\ Calls("timer", t)
  /\ due' = due \ {t}
  /\ UNCHANGED <<mRunning, mNextToken, mTimers, fdVars, xVars, mDirty, dialogVars>>

\* The next due timer of the copy: re-armed and called if it is still one.
DispatchTimer(t) ==
  /\ pc = "timers"
  /\ First(t)
  /\ copy' = copy \ {t}
  /\ \/ t \in mTimers /\ due' = due \ {t} /\ Calls("timer", t)
     \/ t \notin mTimers /\ UNCHANGED <<due, pc, callVars>>
  /\ UNCHANGED <<mRunning, mNextToken, mTimers, fdVars, xVars, mDirty, dialogVars>>

Mutant_NoSecondPaint ==           \* painted on waking rather than before sleeping
  /\ pc = "timers"
  /\ copy = {}
  /\ pc' = GoTo("check")
  /\ UNCHANGED <<mRunning, callVars, mNextToken, timerVars, fdVars, copy, xVars, mDirty, dialogVars>>

TimersDone ==
  /\ pc = "timers"
  /\ copy = {}
  /\ pc' = GoTo("reap2")
  /\ UNCHANGED <<mRunning, callVars, mNextToken, timerVars, fdVars, copy, xVars, mDirty, dialogVars>>

\* XPending before sleeping: it reads the connection if the queue is empty.
CheckPending ==
  /\ pc = "check"
  /\ \/ queued > 0 /\ pc' = "events" /\ UNCHANGED xVars
     \/ queued = 0 /\ wire > 0 /\ pc' = "events" /\ queued' = wire /\ wire' = 0
     \/ queued = 0 /\ wire = 0 /\ pc' = "select" /\ UNCHANGED xVars
  /\ UNCHANGED <<mRunning, callVars, mNextToken, timerVars, fdVars, copy, mDirty, dialogVars>>

Mutant_FirstReady == {t \in readable : \A u \in readable : t <= u}  \* one a pass

\* The descriptors that select() reports.
Ready == readable

\* select() returns for a descriptor or the connection.
WakeReady ==
  /\ pc = "select"
  /\ readable /= {} \/ wire > 0
  /\ pc' = "fds"
  /\ copy' = Ready
  /\ UNCHANGED <<mRunning, callVars, mNextToken, timerVars, fdVars, xVars, mDirty, dialogVars>>

Mutant_NoTimeout == FALSE         \* a null timeout although there are timers

TimedOut == due /= {}

\* It returns with nothing: the earliest deadline has passed.
WakeTimeout ==
  /\ pc = "select"
  /\ TimedOut
  /\ readable = {} /\ wire = 0
  /\ pc' = "events"
  /\ UNCHANGED <<mRunning, callVars, mNextToken, timerVars, fdVars, copy, xVars, mDirty, dialogVars>>

\* A signal interrupted it, or it failed and the loop ends.
SelectFails ==
  /\ pc = "select"
  /\ readable = {} /\ wire = 0
  /\ \/ pc' = "events" /\ UNCHANGED mRunning
     \/ pc' = "stopped" /\ mRunning' = FALSE
  /\ UNCHANGED <<callVars, mNextToken, timerVars, fdVars, copy, xVars, mDirty, dialogVars>>

\* The next reported descriptor of the copy, called if it is still registered.
\* The handlers of this program read all there is.
DispatchFd(t) ==
  /\ pc = "fds"
  /\ First(t)
  /\ copy' = copy \ {t}
  /\ \/ t \in mFds /\ readable' = readable \ {t} /\ Calls("fd", t)
     \/ t \notin mFds /\ UNCHANGED <<readable, pc, callVars>>
  /\ UNCHANGED <<mRunning, mNextToken, timerVars, mFds, xVars, mDirty, dialogVars>>

FdsDone ==
  /\ pc = "fds"
  /\ copy = {}
  /\ pc' = GoTo("events")
  /\ UNCHANGED <<mRunning, callVars, mNextToken, timerVars, fdVars, copy, xVars, mDirty, dialogVars>>

-----------------------------------------------------------------------------
(* What a handler may do before it returns.  Dialogs are opened from the   *)
(* toolbar and closed from within.                                         *)

AddTimer ==
  /\ pc = "calling"
  /\ mNextToken \in Tokens
  /\ mTimers' = mTimers \cup {mNextToken}
  /\ mNextToken' = mNextToken + 1
  /\ UNCHANGED <<pc, mRunning, callVars, due, fdVars, copy, xVars, mDirty, dialogVars>>

AddFd ==
  /\ pc = "calling"
  /\ mNextToken \in Tokens
  /\ mFds' = mFds \cup {mNextToken}
  /\ mNextToken' = mNextToken + 1
  /\ UNCHANGED <<pc, mRunning, callVars, timerVars, readable, copy, xVars, mDirty, dialogVars>>

RemoveTimer(t) ==
  /\ pc = "calling"
  /\ mTimers' = mTimers \ {t} /\ due' = due \ {t}
  /\ UNCHANGED <<pc, mRunning, callVars, mNextToken, fdVars, copy, xVars, mDirty, dialogVars>>

RemoveFd(t) ==
  /\ pc = "calling"
  /\ mFds' = mFds \ {t} /\ readable' = readable \ {t}
  /\ UNCHANGED <<pc, mRunning, callVars, mNextToken, timerVars, copy, xVars, mDirty, dialogVars>>

\* Of the main window or a dialog: paint() takes all that are dirty.
Invalidate ==
  /\ pc = "calling"
  /\ mDirty' = TRUE
  /\ UNCHANGED <<pc, mRunning, callVars, mNextToken, timerVars, fdVars, copy, xVars, dialogVars>>

\* A request with a reply, for which Xlib queues the events that come first.
RoundTrip ==
  /\ pc = "calling"
  /\ wire' = 0 /\ queued' = queued + wire
  /\ UNCHANGED <<pc, mRunning, callVars, mNextToken, timerVars, fdVars, copy, mDirty, dialogVars>>

\* onOpenSettings, onOpenAbout.  The old object goes when the new one replaces
\* it, which may be before the loop has closed its window.
Open(k) ==
  /\ pc = "calling" /\ caller = "main"
  /\ ~isOpen[k]
  /\ mDirty' = TRUE
  /\ \E w \in Windows \ {owned[d] : d \in Dialogs} :
       \/ /\ owned' = [owned EXCEPT ![k] = w]
          /\ isOpen' = [isOpen EXCEPT ![k] = TRUE]
          /\ mDialogs' = Without({owned[k]}) \cup {w}
          /\ mCloseRequested' = mCloseRequested \ {owned[k], w}
       \/ /\ owned' = [owned EXCEPT ![k] = NoWindow]   \* the X server refused it
          /\ mDialogs' = Without({owned[k]})
          /\ mCloseRequested' = mCloseRequested \ {owned[k]}
          /\ UNCHANGED isOpen
  /\ UNCHANGED <<pc, mRunning, callVars, mNextToken, timerVars, fdVars, copy, xVars>>

Mutant_CloseWindowOnly(k) ==      \* the closed callback is not set
  /\ pc = "calling" /\ caller = k
  /\ mCloseRequested' = mCloseRequested \cup {owned[k]}
  /\ UNCHANGED <<pc, mRunning, callVars, mNextToken, timerVars, fdVars, copy, xVars, mDirty, mDialogs, owned, isOpen>>

\* Its Close button, Escape, or the window manager.
Close(k) ==
  /\ pc = "calling" /\ caller = k
  /\ isOpen' = [isOpen EXCEPT ![k] = FALSE]
  /\ mCloseRequested' = mCloseRequested \cup {owned[k]}
  /\ UNCHANGED <<pc, mRunning, callVars, mNextToken, timerVars, fdVars, copy, xVars, mDirty, mDialogs, owned>>

\* The main window is closed.
Quit ==
  /\ pc = "calling" /\ caller = "main"
  /\ mRunning' = FALSE
  /\ UNCHANGED <<pc, callVars, mNextToken, timerVars, fdVars, copy, xVars, mDirty, dialogVars>>

Return ==
  /\ pc = "calling"
  /\ pc' = CASE caller = "timer" -> "timers" [] caller = "fd" -> "fds" [] OTHER -> "events"
  /\ caller' = "none" /\ token' = 0
  /\ UNCHANGED <<mRunning, mNextToken, timerVars, fdVars, copy, xVars, mDirty, dialogVars>>

-----------------------------------------------------------------------------
Outside ==
  XEventArrives \/ \E t \in Tokens : DeadlinePasses(t) \/ BecomesReadable(t)

Loop ==
  \/ TakeEvent \/ EventsDone
  \/ ReapDialogs("reap", "paint") \/ Paint("paint", "sample")
  \/ CopyTimers \/ (\E t \in Tokens : DispatchTimer(t)) \/ TimersDone
  \/ ReapDialogs("reap2", "paint2") \/ Paint("paint2", "check")
  \/ CheckPending \/ WakeReady \/ WakeTimeout
  \/ (\E t \in Tokens : DispatchFd(t)) \/ FdsDone

Handler ==
  \/ AddTimer \/ AddFd \/ (\E t \in Tokens : RemoveTimer(t) \/ RemoveFd(t))
  \/ Invalidate \/ RoundTrip
  \/ (\E k \in Dialogs : Open(k) \/ Close(k)) \/ Quit

Next == Outside \/ Loop \/ SelectFails \/ Handler \/ Return

\* The loop goes on and handlers return.
Spec == Init /\ [][Next]_vars /\ WF_vars(Loop) /\ WF_vars(Return)

-----------------------------------------------------------------------------
\* The loop goes to sleep with nothing left to do that nobody would wake it
\* for: no event in Xlib's own queue (which select() does not see), no window
\* to paint, no dialog to close.
SleepsOnlyWhenDone ==
  pc = "select" =>
    /\ queued = 0
    /\ ~mDirty
    /\ mDialogs \cap mCloseRequested = {}

\* What the program believes is open is on the screen and is not closing, and
\* the reverse: otherwise its button would never open it again, or a window
\* would be left whose panel is gone.
OpenIsShown ==
  \A k \in Dialogs : isOpen[k] <=> owned[k] \in mDialogs \ mCloseRequested

\* The loop never holds a window object that has been destroyed, however an
\* opening, a closing and its deferred reaping follow each other.
DialogsAreOwned ==
  /\ mDialogs \subseteq {owned[k] : k \in Dialogs}
  /\ mCloseRequested \subseteq {owned[k] : k \in Dialogs}
  /\ \A j, k \in Dialogs : owned[j] = owned[k] /\ owned[j] /= NoWindow => j = k

\* Until an entry of the copy is dispatched it stays due or ready, unless it
\* is removed.
CopyIsCurrent ==
  /\ pc = "timers" \/ caller = "timer" => copy \cap mTimers \subseteq due
  /\ pc = "fds" \/ caller = "fd" => copy \cap mFds \subseteq readable
  /\ copy /= {} => pc \in {"timers", "fds", "calling"}
  /\ pc = "calling" /\ caller \notin {"timer", "fd"} => copy = {}

TokensAreNew ==
  /\ \A t \in mTimers \cup mFds \cup copy : t < mNextToken
  /\ mTimers \cap mFds = {}

CallsNest ==
  /\ pc = "calling" <=> caller /= "none"
  /\ token /= 0 => caller \in {"timer", "fd"}
  /\ caller \in Dialogs => owned[caller] \in mDialogs

DoneInOrder ==
  /\ pc \in {"paint2", "check", "select"} => mDialogs \cap mCloseRequested = {}
  /\ pc \in {"check", "select"} => ~mDirty
  /\ pc = "select" => queued = 0

\* The inductive invariant.
IInv ==
  /\ TypeOK
  /\ DialogsAreOwned
  /\ OpenIsShown
  /\ CopyIsCurrent
  /\ TokensAreNew
  /\ CallsNest
  /\ DoneInOrder

R == INSTANCE Reactor WITH
       timers <- mTimers, fds <- mFds, called <- token

\* Nothing is called that was removed, by an earlier handler of the same pass
\* for one, and nothing that is not due or ready.
ReactorSpec == R!Spec

\* A due timer is called or removed, however busy descriptors and the
\* connection are, as long as the loop comes out of its event drain ("a busy
\* pointer cannot starve it").
OutsideDrain == pc \notin {"events", "calling"} \/ caller \in {"timer", "fd"}

TimersServed ==
  []<>OutsideDrain =>
    \A t \in Tokens : t \in due ~> t \notin due \/ pc = "stopped"

\* A readable descriptor is served as long as the loop comes to select().  It
\* may not: an X event that arrives in every pass sends it round before.
FdsServed ==
  []<>(pc = "select") =>
    \A t \in Tokens : t \in readable ~> t \notin readable
=============================================================================
