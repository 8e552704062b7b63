-------------------------- MODULE EventLoopProofs --------------------------
(***************************************************************************)
(* The invariant of the event loop, for any number of registrations, of X  *)
(* events and of window objects, what follows from it, and that every step *)
(* is one that the reactor allows.                                         *)
(***************************************************************************)
EXTENDS EventLoop, FiniteSetTheorems, TLAPS

LEMMA InitEstablishes == Init => IInv
<1> SUFFICES ASSUME Init PROVE IInv
  OBVIOUS
<1>1. mFds \subseteq Tokens /\ mNextToken \in 1 .. MaxToken + 1 /\ \A t \in mFds : t < mNextToken
  <2>1. CASE mFds = {1}
    <3>1. Cardinality(mFds) = 1
      BY <2>1, FS_Singleton
    <3> QED
      BY <2>1, <3>1, LoopAssumption DEF Init, Tokens
  <2>2. CASE mFds = {1, 2}
    <3>1. Cardinality(mFds) = 2
      <4>1. IsFiniteSet({1}) /\ Cardinality({1}) = 1 /\ 2 \notin {1} /\ {1} \cup {2} = {1, 2}
        BY FS_Singleton
      <4>2. Cardinality({1} \cup {2}) = Cardinality({1}) + 1
        BY <4>1, FS_AddElement
      <4> QED
        BY <2>2, <4>1, <4>2
    <3> QED
      BY <2>2, <3>1, LoopAssumption DEF Init, Tokens
  <2> QED
    BY <2>1, <2>2 DEF Init
<1>2. TypeOK
  BY <1>1 DEF Init, TypeOK
<1>3. DialogsAreOwned
  BY DEF Init, DialogsAreOwned
<1>4. OpenIsShown
  BY DEF Init, OpenIsShown
<1>5. CopyIsCurrent /\ CallsNest /\ DoneInOrder
  BY DEF Init, CopyIsCurrent, CallsNest, DoneInOrder, Dialogs
<1>6. TokensAreNew
  BY <1>1 DEF Init, TokensAreNew
<1> QED
  BY <1>2, <1>3, <1>4, <1>5, <1>6 DEF IInv

-----------------------------------------------------------------------------
(* Most steps leave the dialogs alone, or the tokens and the lists that    *)
(* hold them.                                                              *)

LEMMA DialogsUntouched ==
  DialogsAreOwned /\ OpenIsShown /\ UNCHANGED dialogVars => DialogsAreOwned' /\ OpenIsShown'
BY DEF DialogsAreOwned, OpenIsShown, dialogVars

\* The loop walks no copy outside its two dispatch phases and their handlers.
LEMMA NoCopy ==
  ASSUME IInv, pc \notin {"timers", "fds", "calling"}
  PROVE  copy = {} /\ caller = "none" /\ token = 0
BY DEF IInv, TypeOK, CopyIsCurrent, CallsNest

\* Steps that only move the loop on or change what X and select() see.
LEMMA OutsideStep == IInv /\ Outside => IInv'
<1> SUFFICES ASSUME IInv, Outside PROVE IInv'
  OBVIOUS
<1>1. CASE XEventArrives
  <2>1. DialogsAreOwned' /\ OpenIsShown'
    BY <1>1, DialogsUntouched DEF XEventArrives, IInv
  <2>2. TypeOK' /\ CopyIsCurrent' /\ TokensAreNew' /\ CallsNest' /\ DoneInOrder'
    BY <1>1 DEF IInv, XEventArrives, callVars, timerVars, fdVars, dialogVars,
         TypeOK, CopyIsCurrent, TokensAreNew, CallsNest, DoneInOrder
  <2> QED
    BY <2>1, <2>2 DEF IInv
<1>2. CASE \E t \in Tokens : DeadlinePasses(t)
  <2> PICK t \in Tokens : DeadlinePasses(t)
    BY <1>2
  <2>1. DialogsAreOwned' /\ OpenIsShown'
    BY DialogsUntouched DEF DeadlinePasses, IInv
  <2>2. TypeOK' /\ CopyIsCurrent' /\ TokensAreNew' /\ CallsNest' /\ DoneInOrder'
    BY DEF IInv, DeadlinePasses, callVars, fdVars, xVars, dialogVars,
         TypeOK, CopyIsCurrent, TokensAreNew, CallsNest, DoneInOrder
  <2> QED
    BY <2>1, <2>2 DEF IInv
<1>3. CASE \E t \in Tokens : BecomesReadable(t)
  <2> PICK t \in Tokens : BecomesReadable(t)
    BY <1>3
  <2>1. DialogsAreOwned' /\ OpenIsShown'
    BY DialogsUntouched DEF BecomesReadable, IInv
  <2>2. TypeOK' /\ CopyIsCurrent' /\ TokensAreNew' /\ CallsNest' /\ DoneInOrder'
    BY DEF IInv, BecomesReadable, callVars, timerVars, xVars, dialogVars,
         TypeOK, CopyIsCurrent, TokensAreNew, CallsNest, DoneInOrder
  <2> QED
    BY <2>1, <2>2 DEF IInv
<1> QED
  BY <1>1, <1>2, <1>3 DEF Outside

\* The loop's own bookkeeping, which leaves the dialogs alone.
LEMMA PassStep == IInv /\ (TakeEvent \/ EventsDone \/ CopyTimers \/ TimersDone \/ CheckPending
           \/ WakeReady \/ WakeTimeout \/ SelectFails \/ FdsDone) => IInv'
<1> SUFFICES ASSUME IInv, (TakeEvent \/ EventsDone \/ CopyTimers \/ TimersDone \/ CheckPending
           \/ WakeReady \/ WakeTimeout \/ SelectFails \/ FdsDone) PROVE IInv'
  OBVIOUS
<1>1. CASE TakeEvent
  <2>1. DialogsAreOwned' /\ OpenIsShown'
    BY <1>1, DialogsUntouched DEF TakeEvent, IInv
  <2>2. copy = {} /\ token = 0 /\ caller = "none"
    BY <1>1, NoCopy DEF TakeEvent
  <2>3. \/ pc' = pc /\ caller' = caller
        \/ /\ pc' = "calling" /\ caller' \in {"main"} \cup Dialogs
           /\ caller' \in Dialogs => owned[caller'] \in mDialogs
    BY <1>1 DEF TakeEvent, handleEvent, Dialogs
  <2>4. wire' \in Nat /\ queued' \in Nat
    BY <1>1 DEF TakeEvent, IInv, TypeOK
  <2>7. mDirty' \in BOOLEAN
    <3>1. mDirty \in BOOLEAN
      BY DEF IInv, TypeOK
    <3>2. mDirty' = mDirty \/ mDirty' = TRUE \/ mDirty' \in {mDirty, TRUE}
      BY <1>1, Zenon DEF TakeEvent, handleEvent
    <3> QED
      BY <3>1, <3>2
  <2>5. TypeOK'
    BY <1>1, <2>3, <2>4, <2>7 DEF TakeEvent, IInv, TypeOK, timerVars, fdVars, dialogVars
  <2>6. CopyIsCurrent' /\ TokensAreNew' /\ CallsNest' /\ DoneInOrder'
    BY <1>1, <2>2, <2>3 DEF TakeEvent, IInv, timerVars, fdVars, dialogVars, Dialogs,
         CopyIsCurrent, TokensAreNew, CallsNest, DoneInOrder
  <2> QED
    BY <2>1, <2>5, <2>6 DEF IInv
<1>2. CASE EventsDone
  <2>1. DialogsAreOwned' /\ OpenIsShown'
    BY <1>2, DialogsUntouched DEF EventsDone, IInv
  <2>2. TypeOK' /\ CopyIsCurrent' /\ TokensAreNew' /\ CallsNest' /\ DoneInOrder'
    BY <1>2 DEF IInv, EventsDone, callVars, timerVars, fdVars, xVars, dialogVars, GoTo, Tokens,
         TypeOK, CopyIsCurrent, TokensAreNew, CallsNest, DoneInOrder
  <2> QED
    BY <2>1, <2>2 DEF IInv
<1>3. CASE CopyTimers
  <2>1. DialogsAreOwned' /\ OpenIsShown'
    BY <1>3, DialogsUntouched DEF CopyTimers, IInv
  <2>2. TypeOK' /\ CopyIsCurrent' /\ TokensAreNew' /\ CallsNest' /\ DoneInOrder'
    BY <1>3 DEF IInv, CopyTimers, callVars, timerVars, fdVars, xVars, dialogVars, GoTo, Tokens,
         TypeOK, CopyIsCurrent, TokensAreNew, CallsNest, DoneInOrder
  <2> QED
    BY <2>1, <2>2 DEF IInv
<1>4. CASE TimersDone
  <2>1. DialogsAreOwned' /\ OpenIsShown'
    BY <1>4, DialogsUntouched DEF TimersDone, IInv
  <2>2. TypeOK' /\ CopyIsCurrent' /\ TokensAreNew' /\ CallsNest' /\ DoneInOrder'
    BY <1>4 DEF IInv, TimersDone, callVars, timerVars, fdVars, xVars, dialogVars, GoTo, Tokens,
         TypeOK, CopyIsCurrent, TokensAreNew, CallsNest, DoneInOrder
  <2> QED
    BY <2>1, <2>2 DEF IInv
<1>5. CASE CheckPending
  <2>1. DialogsAreOwned' /\ OpenIsShown'
    BY <1>5, DialogsUntouched DEF CheckPending, IInv
  <2>2. TypeOK' /\ CopyIsCurrent' /\ TokensAreNew' /\ CallsNest' /\ DoneInOrder'
    BY <1>5 DEF IInv, CheckPending, callVars, timerVars, fdVars, xVars, dialogVars, GoTo, Tokens,
         TypeOK, CopyIsCurrent, TokensAreNew, CallsNest, DoneInOrder
  <2> QED
    BY <2>1, <2>2 DEF IInv
<1>6. CASE WakeReady
  <2>1. DialogsAreOwned' /\ OpenIsShown'
    BY <1>6, DialogsUntouched DEF WakeReady, IInv
  <2>2. TypeOK' /\ CopyIsCurrent' /\ TokensAreNew' /\ CallsNest' /\ DoneInOrder'
    BY <1>6 DEF IInv, WakeReady, callVars, timerVars, fdVars, xVars, dialogVars, GoTo, Tokens,
         TypeOK, CopyIsCurrent, TokensAreNew, CallsNest, DoneInOrder, Ready
  <2> QED
    BY <2>1, <2>2 DEF IInv
<1>7. CASE WakeTimeout
  <2>1. DialogsAreOwned' /\ OpenIsShown'
    BY <1>7, DialogsUntouched DEF WakeTimeout, IInv
  <2>2. TypeOK' /\ CopyIsCurrent' /\ TokensAreNew' /\ CallsNest' /\ DoneInOrder'
    BY <1>7 DEF IInv, WakeTimeout, callVars, timerVars, fdVars, xVars, dialogVars, GoTo, Tokens,
         TypeOK, CopyIsCurrent, TokensAreNew, CallsNest, DoneInOrder, TimedOut
  <2> QED
    BY <2>1, <2>2 DEF IInv
<1>8. CASE SelectFails
  <2>1. DialogsAreOwned' /\ OpenIsShown'
    BY <1>8, DialogsUntouched DEF SelectFails, IInv
  <2>2. TypeOK' /\ CopyIsCurrent' /\ TokensAreNew' /\ CallsNest' /\ DoneInOrder'
    BY <1>8 DEF IInv, SelectFails, callVars, timerVars, fdVars, xVars, dialogVars, GoTo, Tokens,
         TypeOK, CopyIsCurrent, TokensAreNew, CallsNest, DoneInOrder
  <2> QED
    BY <2>1, <2>2 DEF IInv
<1>9. CASE FdsDone
  <2>1. DialogsAreOwned' /\ OpenIsShown'
    BY <1>9, DialogsUntouched DEF FdsDone, IInv
  <2>2. TypeOK' /\ CopyIsCurrent' /\ TokensAreNew' /\ CallsNest' /\ DoneInOrder'
    BY <1>9 DEF IInv, FdsDone, callVars, timerVars, fdVars, xVars, dialogVars, GoTo, Tokens,
         TypeOK, CopyIsCurrent, TokensAreNew, CallsNest, DoneInOrder
  <2> QED
    BY <2>1, <2>2 DEF IInv
<1> QED
  BY <1>1, <1>2, <1>3, <1>4, <1>5, <1>6, <1>7, <1>8, <1>9

\* A dispatched entry leaves the copy, and the call begins only if it is live.
LEMMA DispatchStep == IInv /\ (\E t \in Tokens : DispatchTimer(t) \/ DispatchFd(t)) => IInv'
<1> SUFFICES ASSUME IInv, (\E t \in Tokens : DispatchTimer(t) \/ DispatchFd(t)) PROVE IInv'
  OBVIOUS
<1>1. CASE \E t \in Tokens : DispatchTimer(t)
  <2> PICK t \in Tokens : DispatchTimer(t)
    BY <1>1
  <2>1. DialogsAreOwned' /\ OpenIsShown'
    BY DialogsUntouched DEF DispatchTimer, IInv
  <2>2. TypeOK' /\ CopyIsCurrent' /\ TokensAreNew' /\ CallsNest' /\ DoneInOrder'
    BY DEF IInv, DispatchTimer, callVars, timerVars, fdVars, xVars, dialogVars, Dialogs,
         TypeOK, CopyIsCurrent, TokensAreNew, CallsNest, DoneInOrder, First, Calls
  <2> QED
    BY <2>1, <2>2 DEF IInv
<1>2. CASE \E t \in Tokens : DispatchFd(t)
  <2> PICK t \in Tokens : DispatchFd(t)
    BY <1>2
  <2>1. DialogsAreOwned' /\ OpenIsShown'
    BY DialogsUntouched DEF DispatchFd, IInv
  <2>2. TypeOK' /\ CopyIsCurrent' /\ TokensAreNew' /\ CallsNest' /\ DoneInOrder'
    BY DEF IInv, DispatchFd, callVars, timerVars, fdVars, xVars, dialogVars, Dialogs,
         TypeOK, CopyIsCurrent, TokensAreNew, CallsNest, DoneInOrder, First, Calls
  <2> QED
    BY <2>1, <2>2 DEF IInv
<1> QED
  BY <1>1, <1>2

\* What handlers do to the lists that are being dispatched.
LEMMA RegistrationStep == IInv /\ (AddTimer \/ AddFd \/ (\E t \in Tokens : RemoveTimer(t) \/ RemoveFd(t))) => IInv'
<1> SUFFICES ASSUME IInv, (AddTimer \/ AddFd \/ (\E t \in Tokens : RemoveTimer(t) \/ RemoveFd(t))) PROVE IInv'
  OBVIOUS
<1>1. CASE AddTimer
  <2>1. DialogsAreOwned' /\ OpenIsShown'
    BY <1>1, DialogsUntouched DEF AddTimer, IInv
  <2>2. mNextToken \notin mTimers \cup mFds \cup copy
    BY DEF IInv, TokensAreNew, TypeOK, Tokens
  <2>3. TypeOK'
    <3>1. mNextToken' \in 1 .. MaxToken + 1
      BY <1>1, LoopAssumption DEF AddTimer, Tokens
    <3> QED
      BY <1>1, <3>1 DEF AddTimer, IInv, TypeOK, callVars, timerVars, fdVars, xVars, dialogVars
  <2>4. CopyIsCurrent'
    <3>1. copy \cap mTimers' = copy \cap mTimers /\ copy \cap mFds' = copy \cap mFds
      BY <1>1, <2>2 DEF AddTimer, timerVars, fdVars
    <3> QED
      BY <1>1, <3>1 DEF AddTimer, IInv, CopyIsCurrent, callVars, timerVars, fdVars
  <2>5. TokensAreNew'
    <3>1. \A t \in mTimers' \cup mFds' \cup copy' : t \in Tokens /\ (t = mNextToken \/ t < mNextToken)
      BY <1>1 DEF AddTimer, IInv, TokensAreNew, TypeOK, timerVars, fdVars
    <3>2. mNextToken' = mNextToken + 1 /\ mNextToken \in Tokens
      BY <1>1 DEF AddTimer
    <3>3. \A t \in Tokens : (t = mNextToken \/ t < mNextToken) => t < mNextToken'
      BY <3>2, LoopAssumption DEF Tokens
    <3>4. mTimers' \cap mFds' = {}
      BY <1>1, <2>2 DEF AddTimer, IInv, TokensAreNew, timerVars, fdVars
    <3> QED
      BY <3>1, <3>3, <3>4 DEF TokensAreNew
  <2>6. CallsNest' /\ DoneInOrder'
    BY <1>1 DEF AddTimer, IInv, CallsNest, DoneInOrder, callVars, xVars, dialogVars
  <2> QED
    BY <2>1, <2>3, <2>4, <2>5, <2>6 DEF IInv
<1>2. CASE AddFd
  <2>1. DialogsAreOwned' /\ OpenIsShown'
    BY <1>2, DialogsUntouched DEF AddFd, IInv
  <2>2. mNextToken \notin mTimers \cup mFds \cup copy
    BY DEF IInv, TokensAreNew, TypeOK, Tokens
  <2>3. TypeOK'
    <3>1. mNextToken' \in 1 .. MaxToken + 1
      BY <1>2, LoopAssumption DEF AddFd, Tokens
    <3> QED
      BY <1>2, <3>1 DEF AddFd, IInv, TypeOK, callVars, timerVars, fdVars, xVars, dialogVars
  <2>4. CopyIsCurrent'
    <3>1. copy \cap mTimers' = copy \cap mTimers /\ copy \cap mFds' = copy \cap mFds
      BY <1>2, <2>2 DEF AddFd, timerVars, fdVars
    <3> QED
      BY <1>2, <3>1 DEF AddFd, IInv, CopyIsCurrent, callVars, timerVars, fdVars
  <2>5. TokensAreNew'
    <3>1. \A t \in mTimers' \cup mFds' \cup copy' : t \in Tokens /\ (t = mNextToken \/ t < mNextToken)
      BY <1>2 DEF AddFd, IInv, TokensAreNew, TypeOK, timerVars, fdVars
    <3>2. mNextToken' = mNextToken + 1 /\ mNextToken \in Tokens
      BY <1>2 DEF AddFd
    <3>3. \A t \in Tokens : (t = mNextToken \/ t < mNextToken) => t < mNextToken'
      BY <3>2, LoopAssumption DEF Tokens
    <3>4. mTimers' \cap mFds' = {}
      BY <1>2, <2>2 DEF AddFd, IInv, TokensAreNew, timerVars, fdVars
    <3> QED
      BY <3>1, <3>3, <3>4 DEF TokensAreNew
  <2>6. CallsNest' /\ DoneInOrder'
    BY <1>2 DEF AddFd, IInv, CallsNest, DoneInOrder, callVars, xVars, dialogVars
  <2> QED
    BY <2>1, <2>3, <2>4, <2>5, <2>6 DEF IInv
<1>3. CASE \E t \in Tokens : RemoveTimer(t)
  <2> PICK t \in Tokens : RemoveTimer(t)
    BY <1>3
  <2>1. DialogsAreOwned' /\ OpenIsShown'
    BY DialogsUntouched DEF RemoveTimer, IInv
  <2>2. TypeOK' /\ CopyIsCurrent' /\ TokensAreNew' /\ CallsNest' /\ DoneInOrder'
    BY DEF IInv, RemoveTimer, callVars, timerVars, fdVars, xVars, dialogVars, GoTo, Tokens,
         TypeOK, CopyIsCurrent, TokensAreNew, CallsNest, DoneInOrder
  <2> QED
    BY <2>1, <2>2 DEF IInv
<1>4. CASE \E t \in Tokens : RemoveFd(t)
  <2> PICK t \in Tokens : RemoveFd(t)
    BY <1>4
  <2>1. DialogsAreOwned' /\ OpenIsShown'
    BY DialogsUntouched DEF RemoveFd, IInv
  <2>2. TypeOK' /\ CopyIsCurrent' /\ TokensAreNew' /\ CallsNest' /\ DoneInOrder'
    BY DEF IInv, RemoveFd, callVars, timerVars, fdVars, xVars, dialogVars, GoTo, Tokens,
         TypeOK, CopyIsCurrent, TokensAreNew, CallsNest, DoneInOrder
  <2> QED
    BY <2>1, <2>2 DEF IInv
<1> QED
  BY <1>1, <1>2, <1>3, <1>4

\* The rest of what a handler does without opening or closing a dialog.
LEMMA HandlerStep == IInv /\ (Invalidate \/ RoundTrip \/ Quit \/ Return) => IInv'
<1> SUFFICES ASSUME IInv, (Invalidate \/ RoundTrip \/ Quit \/ Return) PROVE IInv'
  OBVIOUS
<1>1. CASE Invalidate
  <2>1. DialogsAreOwned' /\ OpenIsShown'
    BY <1>1, DialogsUntouched DEF Invalidate, IInv
  <2>2. TypeOK' /\ CopyIsCurrent' /\ TokensAreNew' /\ CallsNest' /\ DoneInOrder'
    BY <1>1 DEF IInv, Invalidate, callVars, timerVars, fdVars, xVars, dialogVars, GoTo, Tokens,
         TypeOK, CopyIsCurrent, TokensAreNew, CallsNest, DoneInOrder
  <2> QED
    BY <2>1, <2>2 DEF IInv
<1>2. CASE RoundTrip
  <2>1. DialogsAreOwned' /\ OpenIsShown'
    BY <1>2, DialogsUntouched DEF RoundTrip, IInv
  <2>2. TypeOK' /\ CopyIsCurrent' /\ TokensAreNew' /\ CallsNest' /\ DoneInOrder'
    BY <1>2 DEF IInv, RoundTrip, callVars, timerVars, fdVars, xVars, dialogVars, GoTo, Tokens,
         TypeOK, CopyIsCurrent, TokensAreNew, CallsNest, DoneInOrder
  <2> QED
    BY <2>1, <2>2 DEF IInv
<1>3. CASE Quit
  <2>1. DialogsAreOwned' /\ OpenIsShown'
    BY <1>3, DialogsUntouched DEF Quit, IInv
  <2>2. TypeOK' /\ CopyIsCurrent' /\ TokensAreNew' /\ CallsNest' /\ DoneInOrder'
    BY <1>3 DEF IInv, Quit, callVars, timerVars, fdVars, xVars, dialogVars, GoTo, Tokens,
         TypeOK, CopyIsCurrent, TokensAreNew, CallsNest, DoneInOrder
  <2> QED
    BY <2>1, <2>2 DEF IInv
<1>4. CASE Return
  <2>1. DialogsAreOwned' /\ OpenIsShown'
    BY <1>4, DialogsUntouched DEF Return, IInv
  <2>2. TypeOK' /\ CopyIsCurrent' /\ TokensAreNew' /\ CallsNest' /\ DoneInOrder'
    BY <1>4 DEF IInv, Return, callVars, timerVars, fdVars, xVars, dialogVars, Dialogs,
         TypeOK, CopyIsCurrent, TokensAreNew, CallsNest, DoneInOrder
  <2> QED
    BY <2>1, <2>2 DEF IInv
<1> QED
  BY <1>1, <1>2, <1>3, <1>4

-----------------------------------------------------------------------------
(* Windows.                                                                *)

\* Reaping takes from the list exactly the windows that asked for it, none of
\* which the program believes to be open.
LEMMA ReapStep ==
  IInv /\ (ReapDialogs("reap", "paint") \/ ReapDialogs("reap2", "paint2")) => IInv'
<1> SUFFICES ASSUME IInv, ReapDialogs("reap", "paint") \/ ReapDialogs("reap2", "paint2")
             PROVE  IInv'
  OBVIOUS
<1>1. /\ pc \in {"reap", "reap2"} /\ pc' \in {"paint", "paint2"}
      /\ mDialogs' = mDialogs \ mCloseRequested
      /\ mDirty' = (mDirty \/ mDialogs \cap mCloseRequested /= {})
      /\ UNCHANGED <<mRunning, callVars, mNextToken, timerVars, fdVars, copy, xVars,
                     mCloseRequested, owned, isOpen>>
  BY DEF ReapDialogs, Without
<1>2. copy = {} /\ caller = "none" /\ token = 0
  BY <1>1, NoCopy
<1>3. DialogsAreOwned'
  BY <1>1 DEF IInv, DialogsAreOwned
<1>4. OpenIsShown'
  BY <1>1 DEF IInv, OpenIsShown
<1>5. mDirty' \in BOOLEAN
  BY <1>1, Zenon
<1>6. TypeOK'
  BY <1>1, <1>5 DEF IInv, TypeOK, callVars, timerVars, fdVars, xVars
<1>7. CopyIsCurrent' /\ TokensAreNew' /\ CallsNest'
  BY <1>1, <1>2 DEF IInv, CopyIsCurrent, TokensAreNew, CallsNest, callVars, timerVars, fdVars, Dialogs
<1>8. DoneInOrder'
  BY <1>1 DEF DoneInOrder
<1> QED
  BY <1>3, <1>4, <1>6, <1>7, <1>8 DEF IInv

LEMMA PaintStep ==
  IInv /\ (Paint("paint", "sample") \/ Paint("paint2", "check")) => IInv'
<1> SUFFICES ASSUME IInv, Paint("paint", "sample") \/ Paint("paint2", "check") PROVE IInv'
  OBVIOUS
<1>1. /\ (pc = "paint" /\ pc' = "sample") \/ (pc = "paint2" /\ pc' = "check")
      /\ mDirty' = FALSE
      /\ UNCHANGED <<wire, queued>> \/ (wire' = 0 /\ queued' = queued + wire)
      /\ UNCHANGED <<mRunning, callVars, mNextToken, timerVars, fdVars, copy, dialogVars>>
  BY DEF Paint, xVars
<1>2. copy = {} /\ caller = "none" /\ token = 0
  BY <1>1, NoCopy
<1>3. DialogsAreOwned' /\ OpenIsShown'
  BY <1>1, DialogsUntouched DEF IInv
<1>4. TypeOK'
  <2>1. wire' \in Nat /\ queued' \in Nat
    BY <1>1 DEF IInv, TypeOK
  <2> QED
    BY <1>1, <2>1 DEF IInv, TypeOK, callVars, timerVars, fdVars, dialogVars
<1>5. CopyIsCurrent' /\ TokensAreNew' /\ CallsNest'
  BY <1>1, <1>2 DEF IInv, CopyIsCurrent, TokensAreNew, CallsNest, callVars, timerVars, fdVars, Dialogs
<1>6. DoneInOrder'
  BY <1>1 DEF IInv, DoneInOrder, dialogVars
<1> QED
  BY <1>3, <1>4, <1>5, <1>6 DEF IInv

\* The window that is replaced is not one the program believes to be open, and
\* the new one is no other's.
LEMMA OpenStep ==
  ASSUME NEW k \in Dialogs, IInv, Open(k)
  PROVE  IInv'
<1>1. PICK w \in Windows \ {owned[d] : d \in Dialogs} :
        \/ /\ owned' = [owned EXCEPT ![k] = w]
           /\ isOpen' = [isOpen EXCEPT ![k] = TRUE]
           /\ mDialogs' = (mDialogs \ {owned[k]}) \cup {w}
           /\ mCloseRequested' = mCloseRequested \ {owned[k], w}
        \/ /\ owned' = [owned EXCEPT ![k] = NoWindow]
           /\ mDialogs' = mDialogs \ {owned[k]}
           /\ mCloseRequested' = mCloseRequested \ {owned[k]}
           /\ UNCHANGED isOpen
  BY DEF Open, Without
<1>2. /\ pc = "calling" /\ caller = "main" /\ ~isOpen[k] /\ mDirty' = TRUE
      /\ UNCHANGED <<pc, mRunning, callVars, mNextToken, timerVars, fdVars, copy, xVars>>
  BY DEF Open
<1>3. /\ owned \in [Dialogs -> Windows \cup {NoWindow}]
      /\ isOpen \in [Dialogs -> BOOLEAN]
      /\ mDialogs \subseteq Windows /\ mCloseRequested \subseteq Windows
      /\ NoWindow \notin Windows
  BY LoopAssumption DEF IInv, TypeOK
<1>4. TypeOK'
  <2>1. /\ owned' \in [Dialogs -> Windows \cup {NoWindow}]
        /\ mDialogs' \subseteq Windows /\ mCloseRequested' \subseteq Windows
    BY <1>1, <1>3
  <2>2. isOpen' \in [Dialogs -> BOOLEAN]
    BY <1>1, <1>3
  <2> QED
    BY <1>2, <2>1, <2>2 DEF IInv, TypeOK, callVars, timerVars, fdVars, xVars
<1>5. DialogsAreOwned'
  <2>1. /\ mDialogs \subseteq {owned[d] : d \in Dialogs}
        /\ mCloseRequested \subseteq {owned[d] : d \in Dialogs}
        /\ \A i, j \in Dialogs : owned[i] = owned[j] /\ owned[i] /= NoWindow => i = j
    BY DEF IInv, DialogsAreOwned
  <2>2. PICK new \in {w, NoWindow} :
          /\ owned' = [owned EXCEPT ![k] = new]
          /\ mDialogs' \subseteq (mDialogs \ {owned[k]}) \cup ({new} \ {NoWindow})
          /\ mCloseRequested' \subseteq mCloseRequested \ {owned[k]}
    BY <1>1, <1>3
  <2>3. /\ owned'[k] = new
        /\ \A d \in Dialogs \ {k} : owned'[d] = owned[d]
        /\ new /= NoWindow => \A d \in Dialogs : owned[d] /= new
    BY <1>1, <1>3, <2>2
  <2>4. \A x \in mDialogs' : \E d \in Dialogs : owned'[d] = x
    BY <2>1, <2>2, <2>3
  <2>5. \A x \in mCloseRequested' : \E d \in Dialogs : owned'[d] = x
    BY <2>1, <2>2, <2>3
  <2>6. \A i, j \in Dialogs : owned'[i] = owned'[j] /\ owned'[i] /= NoWindow => i = j
    BY <2>1, <2>3
  <2> QED
    BY <2>4, <2>5, <2>6 DEF DialogsAreOwned
<1>6. \A d \in Dialogs \ {k} :
        /\ owned'[d] = owned[d] /\ isOpen'[d] = isOpen[d]
        /\ owned[d] /= NoWindow => owned[d] /= owned[k]
        /\ w /= owned[d]
  BY <1>1, <1>3 DEF IInv, DialogsAreOwned
<1>7. ASSUME NEW d \in Dialogs
      PROVE  isOpen'[d] <=> owned'[d] \in mDialogs' \ mCloseRequested'
  <2>1. CASE d = k
    <3>1. w \in Windows /\ owned[k] /= w /\ NoWindow \notin mDialogs
      BY <1>1, <1>3
    <3>2. CASE /\ owned' = [owned EXCEPT ![k] = w]
               /\ isOpen' = [isOpen EXCEPT ![k] = TRUE]
               /\ mDialogs' = (mDialogs \ {owned[k]}) \cup {w}
               /\ mCloseRequested' = mCloseRequested \ {owned[k], w}
      <4>1. owned'[k] = w /\ isOpen'[k] = TRUE
        BY <1>3, <3>2
      <4> QED
        BY <2>1, <3>2, <4>1
    <3>3. CASE /\ owned' = [owned EXCEPT ![k] = NoWindow]
               /\ mDialogs' = mDialogs \ {owned[k]}
               /\ UNCHANGED isOpen
      <4>1. owned'[k] = NoWindow
        BY <1>3, <3>3
      <4> QED
        BY <1>2, <2>1, <3>1, <3>3, <4>1
    <3> QED
      BY <1>1, <3>2, <3>3
  <2>2. CASE d /= k
    <3>1. isOpen[d] <=> owned[d] \in mDialogs \ mCloseRequested
      BY DEF IInv, OpenIsShown
    <3>2. owned[d] \in mDialogs' <=> owned[d] \in mDialogs
      BY <1>1, <1>3, <1>6, <2>2
    <3>3. owned[d] \in mDialogs => (owned[d] \in mCloseRequested' <=> owned[d] \in mCloseRequested)
      BY <1>1, <1>3, <1>6, <2>2
    <3> QED
      BY <1>6, <2>2, <3>1, <3>2, <3>3, Zenon
  <2> QED
    BY <2>1, <2>2
<1>8. CopyIsCurrent' /\ TokensAreNew' /\ CallsNest' /\ DoneInOrder'
  BY <1>2 DEF IInv, CopyIsCurrent, TokensAreNew, CallsNest, DoneInOrder,
       callVars, timerVars, fdVars, xVars, Dialogs
<1> QED
  BY <1>4, <1>5, <1>7, <1>8 DEF IInv, OpenIsShown

\* Window and program forget each other in one step.
LEMMA CloseStep ==
  ASSUME NEW k \in Dialogs, IInv, Close(k)
  PROVE  IInv'
<1>1. /\ pc = "calling" /\ caller = k
      /\ isOpen' = [isOpen EXCEPT ![k] = FALSE]
      /\ mCloseRequested' = mCloseRequested \cup {owned[k]}
      /\ UNCHANGED <<pc, mRunning, callVars, mNextToken, timerVars, fdVars, copy, xVars, mDirty,
                     mDialogs, owned>>
  BY DEF Close
<1>2. /\ owned[k] \in mDialogs /\ mDialogs \subseteq Windows /\ NoWindow \notin Windows
      /\ isOpen \in [Dialogs -> BOOLEAN]
  BY <1>1, LoopAssumption DEF IInv, CallsNest, TypeOK
<1>3. isOpen' \in [Dialogs -> BOOLEAN] /\ ~isOpen'[k] /\ \A d \in Dialogs \ {k} : isOpen'[d] = isOpen[d]
  BY <1>1, <1>2
<1>4. TypeOK'
  BY <1>1, <1>2, <1>3 DEF IInv, TypeOK, callVars, timerVars, fdVars, xVars
<1>5. DialogsAreOwned'
  BY <1>1 DEF IInv, DialogsAreOwned
<1>6. ASSUME NEW d \in Dialogs
      PROVE  isOpen'[d] <=> owned'[d] \in mDialogs' \ mCloseRequested'
  <2>1. CASE d = k
    BY <1>1, <1>3, <2>1
  <2>2. CASE d /= k
    <3>1. isOpen[d] <=> owned[d] \in mDialogs \ mCloseRequested
      BY DEF IInv, OpenIsShown
    <3>2. owned[d] \in mDialogs => owned[d] /= owned[k]
      BY <1>2, <2>2 DEF IInv, DialogsAreOwned
    <3> QED
      BY <1>1, <1>3, <2>2, <3>1, <3>2
  <2> QED
    BY <2>1, <2>2
<1>7. CopyIsCurrent' /\ TokensAreNew' /\ CallsNest' /\ DoneInOrder'
  BY <1>1 DEF IInv, CopyIsCurrent, TokensAreNew, CallsNest, DoneInOrder,
       callVars, timerVars, fdVars, xVars
<1> QED
  BY <1>4, <1>5, <1>6, <1>7 DEF IInv, OpenIsShown

LEMMA NextPreserves == IInv /\ [Next]_vars => IInv'
<1> SUFFICES ASSUME IInv, [Next]_vars PROVE IInv'
  OBVIOUS
<1>1. CASE Outside
  BY <1>1, OutsideStep
<1>2. CASE TakeEvent \/ EventsDone \/ CopyTimers \/ TimersDone \/ CheckPending
           \/ WakeReady \/ WakeTimeout \/ SelectFails \/ FdsDone
  BY <1>2, PassStep
<1>3. CASE \E t \in Tokens : DispatchTimer(t) \/ DispatchFd(t)
  BY <1>3, DispatchStep
<1>4. CASE ReapDialogs("reap", "paint") \/ ReapDialogs("reap2", "paint2")
  BY <1>4, ReapStep
<1>5. CASE Paint("paint", "sample") \/ Paint("paint2", "check")
  BY <1>5, PaintStep
<1>6. CASE AddTimer \/ AddFd \/ (\E t \in Tokens : RemoveTimer(t) \/ RemoveFd(t))
  BY <1>6, RegistrationStep
<1>7. CASE Invalidate \/ RoundTrip \/ Quit \/ Return
  BY <1>7, HandlerStep
<1>8. CASE \E k \in Dialogs : Open(k) \/ Close(k)
  BY <1>8, OpenStep, CloseStep
<1>9. CASE UNCHANGED vars
  BY <1>9 DEF vars, callVars, timerVars, fdVars, xVars, dialogVars, IInv, TypeOK, DialogsAreOwned,
       OpenIsShown, CopyIsCurrent, TokensAreNew, CallsNest, DoneInOrder
<1> QED
  BY <1>1, <1>2, <1>3, <1>4, <1>5, <1>6, <1>7, <1>8, <1>9 DEF Next, Loop, Handler

\* The inductive invariant holds for any number of tokens, events and windows.
THEOREM Invariance == Spec => []IInv
BY InitEstablishes, NextPreserves, PTL DEF Spec

\* The loop never sleeps on an event that Xlib holds, an unpainted window or a
\* dialog that is to be closed.
THEOREM NeverSleepsOnWork == Spec => []SleepsOnlyWhenDone
<1>1. IInv => SleepsOnlyWhenDone
  BY DEF IInv, DoneInOrder, SleepsOnlyWhenDone
<1> QED
  BY <1>1, Invariance, PTL

\* What App believes of its dialogs is what is on the screen, through every
\* deferred close.
THEOREM BelievedOpenIsShown == Spec => []OpenIsShown
<1>1. IInv => OpenIsShown
  BY DEF IInv
<1> QED
  BY <1>1, Invariance, PTL

-----------------------------------------------------------------------------
(* The refinement.                                                         *)

\* The steps that begin a call: what is called is registered, and due or ready.
LEMMA DispatchIsCall ==
  ASSUME NEW t \in Tokens, IInv, DispatchTimer(t) \/ DispatchFd(t)
  PROVE  R!Call(t) \/ UNCHANGED R!vars
<1>1. pc \in {"timers", "fds"} /\ t \in copy
  BY DEF DispatchTimer, DispatchFd, First
<1>2. token = 0
  BY <1>1 DEF IInv, CallsNest, TypeOK
<1>3. CASE DispatchTimer(t)
  <2>1. t \in mTimers => t \in due
    BY <1>1, <1>3 DEF DispatchTimer, IInv, CopyIsCurrent
  <2> QED
    BY <1>2, <1>3, <2>1 DEF DispatchTimer, Calls, R!Call, R!vars, fdVars, callVars
<1>4. CASE DispatchFd(t)
  <2>1. t \in mFds => t \in readable
    BY <1>1, <1>4 DEF DispatchFd, IInv, CopyIsCurrent
  <2> QED
    BY <1>2, <1>4, <2>1 DEF DispatchFd, Calls, R!Call, R!vars, timerVars, callVars
<1> QED
  BY <1>3, <1>4

\* What handlers register is new, and a token is only ever of one kind.
LEMMA RegistrationIsAllowed ==
  ASSUME IInv, AddTimer \/ AddFd \/ (\E t \in Tokens : RemoveTimer(t) \/ RemoveFd(t))
  PROVE  (\E t \in Tokens : R!AddTimer(t) \/ R!AddFd(t) \/ R!Remove(t)) \/ UNCHANGED R!vars
<1>1. mNextToken \notin mTimers \cup mFds
  BY DEF IInv, TokensAreNew, TypeOK, Tokens
<1>2. CASE AddTimer
  <2>1. mNextToken \in Tokens /\ R!AddTimer(mNextToken)
    BY <1>1, <1>2 DEF AddTimer, R!AddTimer, R!Fresh, fdVars, callVars
  <2> QED
    BY <2>1
<1>3. CASE AddFd
  <2>1. mNextToken \in Tokens /\ R!AddFd(mNextToken)
    BY <1>1, <1>3 DEF AddFd, R!AddFd, R!Fresh, timerVars, callVars
  <2> QED
    BY <2>1
<1>4. CASE \E t \in Tokens : RemoveTimer(t)
  <2> PICK t \in Tokens : RemoveTimer(t)
    BY <1>4
  <2>1. R!Remove(t) \/ UNCHANGED R!vars
    BY DEF RemoveTimer, R!Remove, R!vars, IInv, TokensAreNew, TypeOK, fdVars, callVars
  <2> QED
    BY <2>1
<1>5. CASE \E t \in Tokens : RemoveFd(t)
  <2> PICK t \in Tokens : RemoveFd(t)
    BY <1>5
  <2>1. R!Remove(t) \/ UNCHANGED R!vars
    BY DEF RemoveFd, R!Remove, R!vars, IInv, TokensAreNew, TypeOK, timerVars, callVars
  <2> QED
    BY <2>1
<1> QED
  BY <1>2, <1>3, <1>4, <1>5

LEMMA StepIsReactorStep == IInv /\ [Next]_vars => [R!Next]_(R!vars)
<1> SUFFICES ASSUME IInv, [Next]_vars PROVE R!Next \/ UNCHANGED R!vars
  OBVIOUS
<1>1. CASE XEventArrives \/ TakeEvent \/ EventsDone \/ CopyTimers \/ TimersDone \/ CheckPending
           \/ WakeReady \/ WakeTimeout \/ SelectFails \/ FdsDone
  BY <1>1 DEF XEventArrives, TakeEvent, EventsDone, CopyTimers, TimersDone, CheckPending,
       WakeReady, WakeTimeout, SelectFails, FdsDone, R!vars, timerVars, fdVars, callVars
<1>2. CASE ReapDialogs("reap", "paint") \/ ReapDialogs("reap2", "paint2")
           \/ Paint("paint", "sample") \/ Paint("paint2", "check")
  BY <1>2 DEF ReapDialogs, Paint, R!vars, timerVars, fdVars, callVars
<1>3. CASE Invalidate \/ RoundTrip \/ Quit \/ (\E k \in Dialogs : Open(k) \/ Close(k))
  BY <1>3 DEF Invalidate, RoundTrip, Quit, Open, Close, R!vars, timerVars, fdVars, callVars
<1>4. CASE Return
  BY <1>4 DEF Return, R!Return, R!Next, timerVars, fdVars
<1>5. CASE \E t \in Tokens : DispatchTimer(t) \/ DispatchFd(t)
  BY <1>5, DispatchIsCall DEF R!Next
<1>6. CASE AddTimer \/ AddFd \/ (\E t \in Tokens : RemoveTimer(t) \/ RemoveFd(t))
  BY <1>6, RegistrationIsAllowed DEF R!Next
<1>7. CASE \E t \in Tokens : DeadlinePasses(t) \/ BecomesReadable(t)
  <2> PICK t \in Tokens : DeadlinePasses(t) \/ BecomesReadable(t)
    BY <1>7
  <2>1. R!DeadlinePasses(t) \/ R!BecomesReadable(t)
    BY DEF DeadlinePasses, BecomesReadable, R!DeadlinePasses, R!BecomesReadable,
         timerVars, fdVars, callVars
  <2> QED
    BY <2>1 DEF R!Next
<1>8. CASE UNCHANGED vars
  BY <1>8 DEF vars, R!vars, timerVars, fdVars, callVars
<1> QED
  BY <1>1, <1>2, <1>3, <1>4, <1>5, <1>6, <1>7, <1>8 DEF Next, Outside, Loop, Handler

\* No handler is called that was removed or that is not due or ready, whatever
\* the handlers of the same pass did to the lists.
THEOREM Refinement == Spec => ReactorSpec
<1>1. Init => R!Init
  <2>1. ASSUME Init PROVE R!Init
    BY <2>1, LoopAssumption DEF Init, R!Init, Tokens
  <2> QED
    BY <2>1
<1> QED
  BY <1>1, StepIsReactorStep, Invariance, PTL DEF Spec, ReactorSpec, R!Spec
=============================================================================
