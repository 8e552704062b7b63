------------------------------ MODULE WakePipe ------------------------------
(***************************************************************************)
(* platform/wakepipe.cpp at the grain of its memory accesses and system    *)
(* calls: JACK's threads post, SIGCHLD interrupts, the main loop drains.   *)
(* The flags that App sets before it posts (app.cpp, attachJackCallbacks)  *)
(* and takes in the post handler (onPostFromJackThread) are part of the    *)
(* protocol and of the module.                                             *)
(*                                                                         *)
(* Abstracted: the content of the bytes (nothing reads it), the exit       *)
(* status, EINTR retries, and what the callbacks do with the notification  *)
(* (module App).  install() has succeeded.                                 *)
(***************************************************************************)
EXTENDS Naturals, FiniteSets

CONSTANTS Threads,   \* JACK's callback threads
          Pids,      \* process ids that children can be given
          PipeCap,   \* bytes the kernel's pipe holds
          BufSize,   \* bytes one read() of drain() takes
          MaxPosts   \* bound: posts made in a behaviour

ASSUME ConstantsAssumption ==
  /\ PipeCap \in Nat \ {0}
  /\ BufSize \in Nat \ {0}
  /\ MaxPosts \in Nat

Kinds == {"shutdown", "ports", "xrun"}

Mutant_OneKindPerPost == [shutdown |-> "idle", ports |-> "idle", xrun |-> "idle"]

\* The order in which onPostFromJackThread takes the three flags.
NextKind == [shutdown |-> "ports", ports |-> "xrun", xrun |-> "idle"]

VARIABLES flag,      \* kind -> BOOLEAN: mShutdownPosted, mPortsPosted, mXrunPosted
          gPosted,   \* the atomic of post()
          pipe,      \* bytes in the pipe
          tpc,       \* thread -> the step of its callback it is at
          posts,     \* posts begun so far
          child,     \* pid -> "none", "alive", "zombie"
          sigchld,   \* a SIGCHLD is pending for the process
          gWatches,  \* the watched pids
          mpc,       \* the step of the main loop
          unreaped,  \* drain(): watches not yet passed to waitpid
          exited,    \* drain(): pids collected and not yet dispatched
          forked     \* the pid fork() returned and watch() has not seen, as a set

threadVars == <<tpc, posts>>
childVars  == <<child, sigchld>>
mainVars   == <<mpc, unreaped, exited, forked>>
vars == <<flag, gPosted, pipe, threadVars, childVars, gWatches, mainVars>>

TypeOK ==
  /\ flag \in [Kinds -> BOOLEAN]
  /\ gPosted \in BOOLEAN
  /\ pipe \in 0 .. PipeCap
  /\ tpc \in [Threads -> {"idle", "flagged", "posted"}]
  /\ posts \in 0 .. MaxPosts
  /\ child \in [Pids -> {"none", "alive", "zombie"}]
  /\ sigchld \in BOOLEAN
  /\ gWatches \subseteq Pids
  /\ mpc \in {"idle", "watch", "read", "reap", "dispatch", "exchange",
              "shutdown", "ports", "xrun", "done"}
  /\ unreaped \subseteq Pids
  /\ exited \subseteq Pids
  /\ forked \subseteq Pids

Init ==
  /\ flag = [k \in Kinds |-> FALSE]
  /\ gPosted = FALSE
  /\ pipe = 0
  /\ tpc = [t \in Threads |-> "idle"]
  /\ posts = 0
  /\ child = [p \in Pids |-> "none"]
  /\ sigchld = FALSE
  /\ gWatches = {}
  /\ mpc = "idle"
  /\ unreaped = {}
  /\ exited = {}
  /\ forked = {}

-----------------------------------------------------------------------------
(* JACK's threads: a callback sets its own flag, then calls post().        *)

\* write() to a non-blocking pipe: a full one drops the byte.
Written == IF pipe < PipeCap THEN pipe + 1 ELSE pipe

SetFlag(t, k) ==
  /\ tpc[t] = "idle"
  /\ posts < MaxPosts
  /\ flag' = [flag EXCEPT ![k] = TRUE]
  /\ tpc' = [tpc EXCEPT ![t] = "flagged"]
  /\ posts' = posts + 1
  /\ UNCHANGED <<gPosted, pipe, childVars, gWatches, mainVars>>

StorePosted(t) ==
  /\ tpc[t] = "flagged"
  /\ gPosted' = TRUE
  /\ tpc' = [tpc EXCEPT ![t] = "posted"]
  /\ UNCHANGED <<flag, pipe, posts, childVars, gWatches, mainVars>>

WriteByte(t) ==
  /\ tpc[t] = "posted"
  /\ pipe' = Written
  /\ tpc' = [tpc EXCEPT ![t] = "idle"]
  /\ UNCHANGED <<flag, gPosted, posts, childVars, gWatches, mainVars>>

-----------------------------------------------------------------------------
(* Children and the signal.  SIGCHLD is not queued: a second exit before   *)
(* the handler ran leaves one pending signal.                              *)

ChildExit(p) ==
  /\ child[p] = "alive"
  /\ child' = [child EXCEPT ![p] = "zombie"]
  /\ sigchld' = TRUE
  /\ UNCHANGED <<flag, gPosted, pipe, threadVars, gWatches, mainVars>>

OnSigchld ==
  /\ sigchld
  /\ sigchld' = FALSE
  /\ pipe' = Written
  /\ UNCHANGED <<flag, gPosted, threadVars, child, gWatches, mainVars>>

-----------------------------------------------------------------------------
(* The main loop outside drain().                                          *)

\* JackServerControl::spawn forks; the child may exit before it is watched.
Fork(p) ==
  /\ mpc = "idle"
  /\ child[p] = "none"
  /\ child' = [child EXCEPT ![p] = "alive"]
  /\ forked' = {p}
  /\ mpc' = "watch"
  /\ UNCHANGED <<flag, gPosted, pipe, threadVars, sigchld, gWatches, unreaped, exited>>

Watch ==
  /\ mpc = "watch"
  /\ gWatches' = gWatches \cup forked
  /\ forked' = {}
  /\ mpc' = "idle"
  /\ UNCHANGED <<flag, gPosted, pipe, threadVars, childVars, unreaped, exited>>

\* App::shutdown, after the loop: forget the children, drop the post handler.
Shutdown ==
  /\ mpc = "idle"
  /\ gWatches' = {}
  /\ mpc' = "done"
  /\ UNCHANGED <<flag, gPosted, pipe, threadVars, childVars, unreaped, exited, forked>>

-----------------------------------------------------------------------------
(* drain(), entered when select() finds the read end readable.             *)

BeginDrain ==
  /\ mpc = "idle"
  /\ pipe > 0
  /\ mpc' = "read"
  /\ UNCHANGED <<flag, gPosted, pipe, threadVars, childVars, gWatches, unreaped, exited, forked>>

ReadSome ==
  /\ mpc = "read"
  /\ pipe > 0
  /\ pipe' = IF pipe > BufSize THEN pipe - BufSize ELSE 0
  /\ UNCHANGED <<flag, gPosted, threadVars, childVars, gWatches, mainVars>>

ReadEmpty ==
  /\ mpc = "read"
  /\ pipe = 0
  /\ unreaped' = gWatches
  /\ mpc' = "reap"
  /\ UNCHANGED <<flag, gPosted, pipe, threadVars, childVars, gWatches, exited, forked>>

Mutant_WaitForOneChild(p) ==      \* one byte taken for one exit
  /\ mpc = "reap"
  /\ p \in unreaped
  /\ unreaped' = IF child[p] = "alive" THEN unreaped \ {p} ELSE {}
  /\ exited' = IF child[p] = "alive" THEN exited ELSE exited \cup {p}
  /\ child' = IF child[p] = "zombie" THEN [child EXCEPT ![p] = "none"] ELSE child
  /\ UNCHANGED <<flag, gPosted, pipe, threadVars, sigchld, gWatches, mpc, forked>>

\* waitpid(p, WNOHANG): a live child is left alone, a zombie is reaped, and
\* one that is already gone (ECHILD) is dispatched too.
WaitPid(p) ==
  /\ mpc = "reap"
  /\ p \in unreaped
  /\ unreaped' = unreaped \ {p}
  /\ exited' = IF child[p] = "alive" THEN exited ELSE exited \cup {p}
  /\ child' = IF child[p] = "zombie" THEN [child EXCEPT ![p] = "none"] ELSE child
  /\ UNCHANGED <<flag, gPosted, pipe, threadVars, sigchld, gWatches, mpc, forked>>

EndReap ==
  /\ mpc = "reap"
  /\ unreaped = {}
  /\ mpc' = "dispatch"
  /\ UNCHANGED <<flag, gPosted, pipe, threadVars, childVars, gWatches, unreaped, exited, forked>>

Mutant_DispatchKeepsWatch(p) ==
  /\ mpc = "dispatch"
  /\ p \in exited
  /\ exited' = exited \ {p}
  /\ UNCHANGED <<flag, gPosted, pipe, threadVars, childVars, gWatches, mpc, unreaped, forked>>

\* forget(p), then its callback.
Dispatch(p) ==
  /\ mpc = "dispatch"
  /\ p \in exited
  /\ exited' = exited \ {p}
  /\ gWatches' = gWatches \ {p}
  /\ UNCHANGED <<flag, gPosted, pipe, threadVars, childVars, mpc, unreaped, forked>>

EndDispatch ==
  /\ mpc = "dispatch"
  /\ exited = {}
  /\ mpc' = "exchange"
  /\ UNCHANGED <<flag, gPosted, pipe, threadVars, childVars, gWatches, unreaped, exited, forked>>

Exchange ==
  /\ mpc = "exchange"
  /\ gPosted' = FALSE
  /\ mpc' = IF gPosted THEN "shutdown" ELSE "idle"
  /\ UNCHANGED <<flag, pipe, threadVars, childVars, gWatches, unreaped, exited, forked>>

Mutant_ClearPostedAfterHandler(k) == \* no exchange: store(false) after the handler
  /\ mpc = k
  /\ flag' = [flag EXCEPT ![k] = FALSE]
  /\ gPosted' = (gPosted /\ k /= "xrun")
  /\ mpc' = NextKind[k]
  /\ UNCHANGED <<pipe, threadVars, childVars, gWatches, unreaped, exited, forked>>

\* One exchange(false) of onPostFromJackThread.
TakeFlag(k) ==
  /\ mpc = k
  /\ flag' = [flag EXCEPT ![k] = FALSE]
  /\ mpc' = NextKind[k]
  /\ UNCHANGED <<gPosted, pipe, threadVars, childVars, gWatches, unreaped, exited, forked>>

Drain ==
  \/ ReadSome \/ ReadEmpty
  \/ \E p \in Pids : WaitPid(p)
  \/ EndReap
  \/ \E p \in Pids : Dispatch(p)
  \/ EndDispatch
  \/ Exchange
  \/ \E k \in Kinds : TakeFlag(k)

Post(t) == StorePosted(t) \/ WriteByte(t)

Next ==
  \/ \E t \in Threads : (\E k \in Kinds : SetFlag(t, k)) \/ Post(t)
  \/ \E p \in Pids : ChildExit(p) \/ Fork(p)
  \/ OnSigchld \/ Watch \/ Shutdown \/ BeginDrain \/ Drain

(***************************************************************************)
(* A callback that began a post finishes it, a pending signal is           *)
(* delivered, and drain() and the call of watch() run to their end.        *)
(* X11Window::run comes back to select() however often a handler runs      *)
(* first, hence strong fairness of BeginDrain.                             *)
(***************************************************************************)
Fairness ==
  /\ \A t \in Threads : WF_vars(Post(t))
  /\ WF_vars(OnSigchld) /\ WF_vars(Watch) /\ WF_vars(Drain)
  /\ SF_vars(BeginDrain)

Safety == Init /\ [][Next]_vars
Spec   == Safety /\ Fairness

-----------------------------------------------------------------------------
(* The abstract specification, and how its state is read off this one.     *)

AbsProcess ==
  [p \in Pids |->
     IF p \in exited \/ child[p] = "zombie" THEN "exited" ELSE child[p]]

M == INSTANCE Mailbox WITH
       pending <- {k \in Kinds : flag[k]},
       process <- AbsProcess,
       open    <- mpc /= "done"

-----------------------------------------------------------------------------
\* A flag that App set is on its way to being taken: gPosted is up, some
\* thread is still to post, or the main loop is at a step of S.
OnItsWay(k, S) ==
  flag[k] => gPosted \/ (\E t \in Threads : tpc[t] = "flagged") \/ mpc \in S

FlagWillBeTaken ==
  /\ OnItsWay("shutdown", {"done", "shutdown"})
  /\ OnItsWay("ports", {"done", "shutdown", "ports"})
  /\ OnItsWay("xrun", {"done", "shutdown", "ports", "xrun"})

\* gPosted is up only while something will make drain() look at it.
PostWillBeSeen ==
  gPosted =>
    \/ pipe > 0
    \/ \E t \in Threads : tpc[t] = "posted"
    \/ mpc \in {"read", "reap", "dispatch", "exchange"}
    \/ mpc = "done"

\* A main loop that can sleep in select() with nothing to wake it has no
\* notification left behind.  This is the lost wakeup that the order of the
\* three stores in post() and of the read and the exchange in drain() is
\* there to prevent.
NoLostPost ==
  mpc = "idle" /\ pipe = 0 /\ (\A t \in Threads : tpc[t] = "idle")
    => \A k \in Kinds : ~flag[k]

\* A watched child that exited will be waited for: its signal is pending, its
\* byte is in the pipe, or drain() has not come to it yet.
ExitWillBeSeen ==
  \A p \in gWatches \cup forked : child[p] = "zombie" =>
    \/ sigchld
    \/ pipe > 0
    \/ mpc = "read"
    \/ mpc = "reap" /\ p \in unreaped

\* The same for children: no unnoticed zombie behind a sleeping main loop
\* (the pid of its watch would wait for ever, and Stop with it).
NoLostExit ==
  mpc = "idle" /\ pipe = 0 /\ ~sigchld
    => \A p \in gWatches : child[p] = "alive"

\* The bookkeeping of drain(): what it collected is reaped and still watched,
\* so the callback is found and called once; every other watch is of a child
\* that has not been reaped, so its pid cannot have been recycled.
WatchesAreChildren ==
  /\ exited \subseteq gWatches
  /\ \A p \in exited : child[p] = "none"
  /\ \A p \in (gWatches \cup forked) \ exited : child[p] /= "none"
  /\ mpc = "reap" => unreaped \subseteq gWatches \ exited
  /\ mpc /= "reap" => unreaped = {}
  /\ mpc \notin {"reap", "dispatch"} => exited = {}
  /\ mpc /= "watch" => forked = {}
  /\ mpc /= "done" => \A p \in Pids : child[p] /= "none" => p \in gWatches \cup forked

\* The inductive invariant.
IInv ==
  /\ TypeOK
  /\ FlagWillBeTaken
  /\ PostWillBeSeen
  /\ ExitWillBeSeen
  /\ WatchesAreChildren

\* Every notification is delivered and every exit reported, unless the
\* program ends first: the fair abstract specification.
MailboxSpec == M!Spec
=============================================================================
