------------------------------ MODULE Reactor ------------------------------
(***************************************************************************)
(* What x11window.h promises of timers and descriptors: a handler is       *)
(* called only while it is registered and only when its deadline has       *)
(* passed or its descriptor is ready, one handler at a time, and it may    *)
(* register and remove handlers, itself included.                          *)
(***************************************************************************)
EXTENDS Naturals

CONSTANT Tokens

VARIABLES timers,    \* the registered timers, and those past their deadline
          due,
          fds,       \* the registered descriptors, and the readable ones
          readable,
          called     \* the token whose handler runs, 0 if none does

vars == <<timers, due, fds, readable, called>>

Init ==
  /\ timers = {} /\ due = {}
  /\ fds \subseteq Tokens /\ readable = {}
  /\ called = 0

Fresh == Tokens \ (timers \cup fds)

AddTimer(t) ==
  /\ t \in Fresh
  /\ timers' = timers \cup {t}
  /\ UNCHANGED <<due, fds, readable, called>>

AddFd(t) ==
  /\ t \in Fresh
  /\ fds' = fds \cup {t}
  /\ UNCHANGED <<timers, due, readable, called>>

Remove(t) ==
  /\ timers' = timers \ {t} /\ due' = due \ {t}
  /\ fds' = fds \ {t} /\ readable' = readable \ {t}
  /\ UNCHANGED called

DeadlinePasses(t) ==
  /\ t \in timers
  /\ due' = due \cup {t}
  /\ UNCHANGED <<timers, fds, readable, called>>

BecomesReadable(t) ==
  /\ t \in fds
  /\ readable' = readable \cup {t}
  /\ UNCHANGED <<timers, due, fds, called>>

Call(t) ==
  /\ called = 0
  /\ called' = t
  /\ \/ t \in timers /\ t \in due /\ due' = due \ {t} /\ UNCHANGED readable
     \/ t \in fds /\ t \in readable /\ readable' = readable \ {t} /\ UNCHANGED due
  /\ UNCHANGED <<timers, fds>>

Return ==
  /\ called' = 0
  /\ UNCHANGED <<timers, due, fds, readable>>

Next ==
  \/ \E t \in Tokens :
       AddTimer(t) \/ AddFd(t) \/ Remove(t) \/ DeadlinePasses(t) \/ BecomesReadable(t) \/ Call(t)
  \/ Return

Spec == Init /\ [][Next]_vars
=============================================================================
