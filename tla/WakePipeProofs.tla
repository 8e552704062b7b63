--------------------------- MODULE WakePipeProofs ---------------------------
(***************************************************************************)
(* Proofs about WakePipe for any number of threads, children, posts and    *)
(* any sizes of pipe and buffer: IInv is inductive, the two no-lost-wakeup *)
(* properties follow from it, and every step is a step of Mailbox or       *)
(* leaves its state alone.                                                 *)
(***************************************************************************)
EXTENDS WakePipe, TLAPS

\* Nothing is posted, watched or drained when the program starts.
THEOREM InitIInv == Init => IInv
<1> SUFFICES ASSUME Init PROVE IInv
  OBVIOUS
<1>1. TypeOK
  <2>1. flag \in [Kinds -> BOOLEAN] /\ gPosted \in BOOLEAN /\ sigchld \in BOOLEAN
    BY Zenon DEF Init
  <2>2. pipe \in 0 .. PipeCap /\ posts \in 0 .. MaxPosts
    BY ConstantsAssumption DEF ConstantsAssumption, Init
  <2> QED
    BY <2>1, <2>2 DEF Init, TypeOK
<1>2. FlagWillBeTaken /\ PostWillBeSeen
  BY DEF Init, FlagWillBeTaken, OnItsWay, PostWillBeSeen, Kinds
<1>3. ExitWillBeSeen /\ WatchesAreChildren
  BY DEF Init, ExitWillBeSeen, WatchesAreChildren
<1> QED
  BY <1>1, <1>2, <1>3 DEF IInv

\* Every step keeps every variable in its type.
LEMMA TypeStep == IInv /\ [Next]_vars => TypeOK'
<1> USE ConstantsAssumption DEF ConstantsAssumption, TypeOK, Kinds
<1> SUFFICES ASSUME IInv, [Next]_vars PROVE TypeOK'
  OBVIOUS
<1>0. TypeOK /\ WatchesAreChildren
  BY DEF IInv
<1>1. ASSUME NEW t \in Threads, NEW k \in Kinds, SetFlag(t, k) PROVE TypeOK'
  BY <1>0, <1>1 DEF SetFlag, childVars, mainVars
<1>2. ASSUME NEW t \in Threads, Post(t) PROVE TypeOK'
  <2>1. CASE StorePosted(t)
    BY <1>0, <2>1 DEF StorePosted, childVars, mainVars
  <2>2. CASE WriteByte(t)
    BY <1>0, <2>2 DEF WriteByte, Written, childVars, mainVars
  <2> QED
    BY <1>2, <2>1, <2>2 DEF Post
<1>3. ASSUME NEW p \in Pids, ChildExit(p) \/ Fork(p) PROVE TypeOK'
  BY <1>0, <1>3 DEF ChildExit, Fork, threadVars, mainVars
<1>4. ASSUME OnSigchld PROVE TypeOK'
  <2>1. pipe' \in 0 .. PipeCap
    BY <1>0, <1>4 DEF OnSigchld, Written
  <2> QED
    BY <1>0, <1>4, <2>1 DEF OnSigchld, threadVars, mainVars
<1>5. ASSUME Watch \/ Shutdown \/ BeginDrain PROVE TypeOK'
  BY <1>0, <1>5 DEF Watch, Shutdown, BeginDrain, threadVars, childVars
<1>9. ASSUME ReadSome PROVE TypeOK'
  BY <1>0, <1>9 DEF ReadSome, threadVars, childVars, mainVars
<1>10. ASSUME ReadEmpty \/ EndReap \/ EndDispatch PROVE TypeOK'
  BY <1>0, <1>10 DEF ReadEmpty, EndReap, EndDispatch, threadVars, childVars
<1>11. ASSUME Exchange PROVE TypeOK'
  BY <1>0, <1>11 DEF Exchange, threadVars, childVars
<1>6. ASSUME NEW p \in Pids, WaitPid(p) \/ Dispatch(p) PROVE TypeOK'
  BY <1>0, <1>6 DEF WaitPid, Dispatch, threadVars, childVars
<1>7. ASSUME NEW k \in Kinds, TakeFlag(k) PROVE TypeOK'
  BY <1>0, <1>7 DEF TakeFlag, NextKind, threadVars, childVars
<1>8. CASE UNCHANGED vars
  BY <1>0, <1>8 DEF vars, threadVars, childVars, mainVars
<1> QED
  BY <1>1, <1>2, <1>3, <1>4, <1>5, <1>6, <1>7, <1>8, <1>9, <1>10, <1>11 DEF Next, Drain

\* The order of post()'s stores and of drain()'s read and exchange: a flag set
\* keeps something between it and the handler that takes it.
LEMMA PostStep == IInv /\ [Next]_vars => FlagWillBeTaken' /\ PostWillBeSeen'
<1> USE ConstantsAssumption DEF ConstantsAssumption, FlagWillBeTaken, OnItsWay, PostWillBeSeen
<1> SUFFICES ASSUME IInv, [Next]_vars PROVE FlagWillBeTaken' /\ PostWillBeSeen'
  OBVIOUS
<1>0. TypeOK /\ FlagWillBeTaken /\ PostWillBeSeen
  BY DEF IInv
<1>1. ASSUME NEW t \in Threads, NEW k \in Kinds, SetFlag(t, k)
      PROVE  FlagWillBeTaken' /\ PostWillBeSeen'
  BY <1>0, <1>1 DEF TypeOK, SetFlag, childVars, mainVars
<1>2. ASSUME NEW t \in Threads, Post(t) PROVE FlagWillBeTaken' /\ PostWillBeSeen'
  <2>1. CASE StorePosted(t)
    BY <1>0, <2>1 DEF TypeOK, StorePosted, childVars, mainVars
  <2>2. CASE WriteByte(t)
    <3>1. pipe' > 0
      BY <1>0, <2>2 DEF TypeOK, WriteByte, Written
    <3> QED
      BY <1>0, <2>2, <3>1 DEF TypeOK, WriteByte, childVars, mainVars
  <2> QED
    BY <1>2, <2>1, <2>2 DEF Post
<1>3. ASSUME NEW p \in Pids, ChildExit(p) \/ Fork(p)
      PROVE  FlagWillBeTaken' /\ PostWillBeSeen'
  BY <1>0, <1>3 DEF ChildExit, Fork, threadVars, mainVars
<1>4. ASSUME OnSigchld PROVE FlagWillBeTaken' /\ PostWillBeSeen'
  BY <1>0, <1>4 DEF TypeOK, OnSigchld, Written, threadVars, mainVars
<1>5. ASSUME Watch \/ Shutdown \/ BeginDrain PROVE FlagWillBeTaken' /\ PostWillBeSeen'
  BY <1>0, <1>5 DEF Watch, Shutdown, BeginDrain, threadVars, childVars
<1>6. ASSUME ReadSome \/ ReadEmpty \/ EndReap \/ EndDispatch
      PROVE  FlagWillBeTaken' /\ PostWillBeSeen'
  BY <1>0, <1>6 DEF ReadSome, ReadEmpty, EndReap, EndDispatch, threadVars, childVars, mainVars
<1>7. ASSUME Exchange PROVE FlagWillBeTaken' /\ PostWillBeSeen'
  BY <1>0, <1>7 DEF TypeOK, Exchange, threadVars, childVars
<1>8. ASSUME NEW p \in Pids, WaitPid(p) \/ Dispatch(p)
      PROVE  FlagWillBeTaken' /\ PostWillBeSeen'
  BY <1>0, <1>8 DEF WaitPid, Dispatch, threadVars, childVars
<1>9. ASSUME NEW k \in Kinds, TakeFlag(k) PROVE FlagWillBeTaken' /\ PostWillBeSeen'
  BY <1>0, <1>9 DEF TypeOK, Kinds, TakeFlag, NextKind, threadVars, childVars
<1>10. CASE UNCHANGED vars
  BY <1>0, <1>10 DEF vars, threadVars, childVars, mainVars
<1> QED
  BY <1>1, <1>2, <1>3, <1>4, <1>5, <1>6, <1>7, <1>8, <1>9, <1>10 DEF Next, Drain

\* An exit is announced by the pending signal, then by its byte, then by the
\* walk of the watch list; and what drain() does to that list.
LEMMA ExitStep == IInv /\ [Next]_vars => ExitWillBeSeen' /\ WatchesAreChildren'
<1> USE ConstantsAssumption DEF ConstantsAssumption, ExitWillBeSeen, WatchesAreChildren
<1> SUFFICES ASSUME IInv, [Next]_vars PROVE ExitWillBeSeen' /\ WatchesAreChildren'
  OBVIOUS
<1>0. TypeOK /\ ExitWillBeSeen /\ WatchesAreChildren
  BY DEF IInv
<1>1. ASSUME NEW t \in Threads, NEW k \in Kinds, SetFlag(t, k)
      PROVE  ExitWillBeSeen' /\ WatchesAreChildren'
  BY <1>0, <1>1 DEF SetFlag, childVars, mainVars
<1>2. ASSUME NEW t \in Threads, Post(t) PROVE ExitWillBeSeen' /\ WatchesAreChildren'
  BY <1>0, <1>2 DEF TypeOK, Post, StorePosted, WriteByte, Written, childVars, mainVars
<1>3. ASSUME NEW p \in Pids, ChildExit(p) PROVE ExitWillBeSeen' /\ WatchesAreChildren'
  BY <1>0, <1>3 DEF TypeOK, ChildExit, threadVars, mainVars
<1>4. ASSUME NEW p \in Pids, Fork(p) PROVE ExitWillBeSeen' /\ WatchesAreChildren'
  BY <1>0, <1>4 DEF TypeOK, Fork, threadVars
<1>5. ASSUME OnSigchld PROVE ExitWillBeSeen' /\ WatchesAreChildren'
  BY <1>0, <1>5 DEF TypeOK, OnSigchld, Written, threadVars, mainVars
<1>6. ASSUME Watch \/ Shutdown \/ BeginDrain PROVE ExitWillBeSeen' /\ WatchesAreChildren'
  BY <1>0, <1>6 DEF TypeOK, Watch, Shutdown, BeginDrain, threadVars, childVars
<1>7. ASSUME ReadSome \/ ReadEmpty PROVE ExitWillBeSeen' /\ WatchesAreChildren'
  BY <1>0, <1>7 DEF TypeOK, ReadSome, ReadEmpty, threadVars, childVars, mainVars
<1>8. ASSUME EndReap \/ EndDispatch \/ Exchange
      PROVE  ExitWillBeSeen' /\ WatchesAreChildren'
  BY <1>0, <1>8 DEF TypeOK, EndReap, EndDispatch, Exchange, threadVars, childVars
<1>9. ASSUME NEW p \in Pids, WaitPid(p) PROVE ExitWillBeSeen' /\ WatchesAreChildren'
  BY <1>0, <1>9 DEF TypeOK, WaitPid, threadVars
<1>10. ASSUME NEW p \in Pids, Dispatch(p) PROVE ExitWillBeSeen' /\ WatchesAreChildren'
  BY <1>0, <1>10 DEF TypeOK, Dispatch, threadVars, childVars
<1>11. ASSUME NEW k \in Kinds, TakeFlag(k) PROVE ExitWillBeSeen' /\ WatchesAreChildren'
  BY <1>0, <1>11 DEF TypeOK, Kinds, TakeFlag, NextKind, threadVars, childVars
<1>12. CASE UNCHANGED vars
  BY <1>0, <1>12 DEF vars, threadVars, childVars, mainVars
<1> QED
  BY <1>1, <1>2, <1>3, <1>4, <1>5, <1>6, <1>7, <1>8, <1>9, <1>10, <1>11, <1>12
  DEF Next, Drain

\* The inductive invariant holds in every reachable state of wakepipe.cpp.
THEOREM Invariance == Safety => []IInv
<1>1. IInv /\ [Next]_vars => IInv'
  BY TypeStep, PostStep, ExitStep DEF IInv
<1> QED
  BY <1>1, InitIInv, PTL DEF Safety

\* No post of a JACK thread is ever lost: a main loop with nothing to wake it
\* has no flag left to take.
THEOREM NoPostIsLost == Safety => []NoLostPost
<1>1. IInv => NoLostPost
  BY DEF IInv, TypeOK, FlagWillBeTaken, OnItsWay, PostWillBeSeen, NoLostPost, Kinds
<1> QED
  BY <1>1, Invariance, PTL

\* No exit of a watched child is ever lost.
THEOREM NoExitIsLost == Safety => []NoLostExit
<1>1. IInv => NoLostExit
  BY DEF IInv, TypeOK, ExitWillBeSeen, WatchesAreChildren, NoLostExit
<1> QED
  BY <1>1, Invariance, PTL

-----------------------------------------------------------------------------
(* Refinement: the pipe implements the mailbox.                            *)

\* A start with no flag, no child and a running loop is an empty mailbox.
LEMMA InitRefines == Init => M!Init
<1> SUFFICES ASSUME Init PROVE M!Init
  OBVIOUS
<1>1. {k \in Kinds : flag[k]} = {}
  BY DEF Init
<1>2. AbsProcess = [p \in Pids |-> "none"]
  BY DEF Init, AbsProcess
<1>3. mpc /= "done"
  BY DEF Init
<1> QED
  BY <1>1, <1>2, <1>3 DEF M!Init

\* Steps that touch no flag, no child and not the end of the loop are invisible.
LEMMA Invisible ==
  ASSUME flag' = flag, AbsProcess' = AbsProcess, (mpc' = "done") <=> (mpc = "done")
  PROVE  UNCHANGED M!vars
  BY DEF M!vars

\* Every step of the pipe is a step of the mailbox or invisible to it.
LEMMA StepRefines == IInv /\ [Next]_vars => [M!Next]_M!vars
<1> SUFFICES ASSUME IInv, [Next]_vars PROVE [M!Next]_M!vars
  OBVIOUS
<1>0. TypeOK /\ WatchesAreChildren
  BY DEF IInv
<1>1. ASSUME NEW t \in Threads, NEW k \in Kinds, SetFlag(t, k) PROVE [M!Next]_M!vars
  <2>1. {j \in Kinds : flag'[j]} = {j \in Kinds : flag[j]} \cup {k}
    BY <1>0, <1>1 DEF TypeOK, SetFlag
  <2>2. AbsProcess' = AbsProcess
    BY <1>1 DEF AbsProcess, SetFlag, childVars, mainVars
  <2>3. M!Raise(k)
    BY <1>1, <2>1, <2>2 DEF M!Raise, SetFlag, mainVars
  <2> QED
    BY <2>3 DEF M!Next
<1>2. ASSUME NEW t \in Threads, Post(t) PROVE [M!Next]_M!vars
  BY <1>2, Invisible DEF Post, StorePosted, WriteByte, AbsProcess, childVars, mainVars
<1>3. ASSUME NEW p \in Pids, ChildExit(p) PROVE [M!Next]_M!vars
  <2>1. AbsProcess[p] = "alive" /\ AbsProcess' = [AbsProcess EXCEPT ![p] = "exited"]
    BY <1>0, <1>3 DEF TypeOK, WatchesAreChildren, ChildExit, AbsProcess, mainVars
  <2>2. M!Exit(p)
    BY <1>3, <2>1 DEF M!Exit, M!Move, ChildExit, mainVars
  <2> QED
    BY <2>2 DEF M!Next
<1>4. ASSUME NEW p \in Pids, Fork(p) PROVE [M!Next]_M!vars
  <2>1. AbsProcess[p] = "none" /\ AbsProcess' = [AbsProcess EXCEPT ![p] = "alive"]
    BY <1>0, <1>4 DEF TypeOK, WatchesAreChildren, Fork, AbsProcess
  <2>2. M!Start(p)
    BY <1>4, <2>1 DEF M!Start, M!Move, Fork
  <2> QED
    BY <2>2 DEF M!Next
<1>5. ASSUME Shutdown PROVE [M!Next]_M!vars
  <2>1. AbsProcess' = AbsProcess
    BY <1>5 DEF AbsProcess, Shutdown, childVars
  <2>2. M!Close
    BY <1>5, <2>1 DEF M!Close, Shutdown
  <2> QED
    BY <2>2 DEF M!Next
<1>6. ASSUME OnSigchld \/ Watch \/ BeginDrain PROVE [M!Next]_M!vars
  BY <1>6, Invisible
  DEF OnSigchld, Watch, BeginDrain, AbsProcess, threadVars, childVars, mainVars
<1>7. ASSUME ReadSome \/ ReadEmpty \/ EndReap \/ EndDispatch \/ Exchange
      PROVE  [M!Next]_M!vars
  BY <1>7, Invisible
  DEF ReadSome, ReadEmpty, EndReap, EndDispatch, Exchange, AbsProcess, threadVars, childVars,
      mainVars
<1>8. ASSUME NEW p \in Pids, WaitPid(p) PROVE [M!Next]_M!vars
  <2>1. p \notin exited /\ child[p] \in {"alive", "zombie"}
    BY <1>0, <1>8 DEF TypeOK, WatchesAreChildren, WaitPid
  <2>2. AbsProcess' = AbsProcess
    BY <1>0, <1>8, <2>1 DEF TypeOK, WaitPid, AbsProcess
  <2> QED
    BY <1>8, <2>2, Invisible DEF WaitPid
<1>9. ASSUME NEW p \in Pids, Dispatch(p) PROVE [M!Next]_M!vars
  <2>1. AbsProcess[p] = "exited" /\ AbsProcess' = [AbsProcess EXCEPT ![p] = "none"]
    BY <1>0, <1>9 DEF TypeOK, WatchesAreChildren, Dispatch, AbsProcess, childVars
  <2>2. M!Report(p)
    BY <1>9, <2>1 DEF M!Report, M!Move, Dispatch
  <2> QED
    BY <2>2 DEF M!Next
<1>10. ASSUME NEW k \in Kinds, TakeFlag(k) PROVE [M!Next]_M!vars
  <2>1. AbsProcess' = AbsProcess /\ mpc /= "done" /\ mpc' /= "done"
    BY <1>10 DEF AbsProcess, TakeFlag, NextKind, Kinds, childVars
  <2>2. CASE flag[k]
    <3>1. {j \in Kinds : flag'[j]} = {j \in Kinds : flag[j]} \ {k}
      BY <1>0, <1>10 DEF TypeOK, TakeFlag
    <3>2. M!Deliver(k)
      BY <2>1, <2>2, <3>1 DEF M!Deliver
    <3> QED
      BY <3>2 DEF M!Next
  <2>3. CASE ~flag[k]
    <3>1. flag' = flag
      BY <1>0, <1>10, <2>3 DEF TypeOK, TakeFlag
    <3> QED
      BY <2>1, <3>1, Invisible
  <2> QED
    BY <2>2, <2>3
<1>11. CASE UNCHANGED vars
  BY <1>11, Invisible DEF vars, AbsProcess, threadVars, childVars, mainVars
<1> QED
  BY <1>1, <1>2, <1>3, <1>4, <1>5, <1>6, <1>7, <1>8, <1>9, <1>10, <1>11 DEF Next, Drain

\* wakepipe.cpp does nothing that the mailbox does not allow: no notification
\* out of nothing, none twice, no exit reported twice or before it happened.
THEOREM Refinement == Safety => M!Safety
  BY Invariance, InitRefines, StepRefines, PTL DEF Safety, M!Safety
=============================================================================
