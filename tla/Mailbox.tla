------------------------------ MODULE Mailbox ------------------------------
(***************************************************************************)
(* What platform/wakepipe.h promises the rest of jack-graph, without the   *)
(* pipe: a notification raised on another thread is delivered on the main  *)
(* loop, and the exit of a watched child is reported there once.  Equal    *)
(* notifications coalesce, as wakepipe.h says ("it carries no payload").   *)
(***************************************************************************)
CONSTANTS Kinds,    \* the notifications App distinguishes
          Pids      \* process ids that children can be given

VARIABLES pending,  \* the kinds raised and not yet delivered
          process,  \* pid -> "none", "alive" or "exited" (and not reported)
          open      \* the main loop is still running

vars == <<pending, process, open>>

TypeOK ==
  /\ pending \subseteq Kinds
  /\ process \in [Pids -> {"none", "alive", "exited"}]
  /\ open \in BOOLEAN

Init ==
  /\ pending = {}
  /\ process = [p \in Pids |-> "none"]
  /\ open = TRUE

Raise(k) ==
  /\ pending' = pending \cup {k}
  /\ UNCHANGED <<process, open>>

Deliver(k) ==
  /\ open
  /\ k \in pending
  /\ pending' = pending \ {k}
  /\ UNCHANGED <<process, open>>

Move(p, from, to) ==
  /\ process[p] = from
  /\ process' = [process EXCEPT ![p] = to]
  /\ UNCHANGED <<pending, open>>

Start(p)  == open /\ Move(p, "none", "alive")
Exit(p)   == Move(p, "alive", "exited")
Report(p) == open /\ Move(p, "exited", "none")

Close ==
  /\ open
  /\ open' = FALSE
  /\ UNCHANGED <<pending, process>>

Next ==
  \/ \E k \in Kinds : Raise(k) \/ Deliver(k)
  \/ \E p \in Pids : Start(p) \/ Exit(p) \/ Report(p)
  \/ Close

Fairness ==
  /\ \A k \in Kinds : WF_vars(Deliver(k))
  /\ \A p \in Pids : WF_vars(Report(p))

Safety == Init /\ [][Next]_vars
Spec   == Safety /\ Fairness
=============================================================================
