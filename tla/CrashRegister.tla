--------------------------- MODULE CrashRegister ---------------------------
(***************************************************************************)
(* What fs.h promises of a file that writeFileAtomic replaces: whoever     *)
(* reads it gets a content some writer finished, the one that was there    *)
(* when it was opened, and a machine that loses power comes back with the  *)
(* newest content or with one that was there before it, never with part of *)
(* one.                                                                    *)
(***************************************************************************)
CONSTANTS Procs,
          Contents,   \* what the file may hold at first
          Bodies,     \* what writers put there
          Absent      \* there is no file

VARIABLES value,      \* what a reader finds
          durable,    \* what a power cut brings back
          reading     \* process -> the content it is reading

vars == <<value, durable, reading>>

Init ==
  /\ value \in Contents \cup {Absent}
  /\ durable = value
  /\ reading = [p \in Procs |-> Absent]

Replace ==
  /\ value' \in Bodies \cup {Absent}
  /\ UNCHANGED <<durable, reading>>

Settle ==
  /\ durable' = value
  /\ UNCHANGED <<value, reading>>

StartReading(p) ==
  /\ reading[p] = Absent
  /\ reading' = [reading EXCEPT ![p] = value]
  /\ UNCHANGED <<value, durable>>

StopReading(p) ==
  /\ reading' = [reading EXCEPT ![p] = Absent]
  /\ UNCHANGED <<value, durable>>

PowerCut ==
  /\ value' = durable
  /\ reading' = [p \in Procs |-> Absent]
  /\ UNCHANGED durable

Next ==
  \/ Replace \/ Settle \/ PowerCut
  \/ \E p \in Procs : StartReading(p) \/ StopReading(p)

Spec == Init /\ [][Next]_vars
=============================================================================
