---------------------- MODULE CancellationTokenProofs ----------------------
(***************************************************************************)
(* No wakeup is lost, for any number of tasks and of calls of cancel.       *)
(***************************************************************************)
EXTENDS CancellationToken, TLAPS

\* Whoever sleeps unwoken has left its waker.
SleepersRegistered ==
    \A t \in Tasks : task[t] = "pending" /\ t \notin woken => t \in wakers

\* Once the token has fired, a waker that is registered, or is about to be by
\* a task that looked at the flag too early, has a call that comes for it.
WakersServed ==
    flag /\ (wakers # {} \/ \E t \in Tasks : task[t] = "register")
        => \E c \in Calls : call[c] \in {"lock", "drain"}

IInv == TypeOK /\ SleepersRegistered /\ WakersServed

LEMMA InitInvariant == Init => IInv
  BY CallersAssumption DEF Init, IInv, TypeOK, Inside, SleepersRegistered, WakersServed

-----------------------------------------------------------------------------

\* The mutex is what TypeOK is about: entering and leaving one at a time.
LEMMA TypeCorrect == TypeOK /\ [Next]_vars => TypeOK'
<1> SUFFICES ASSUME TypeOK, [Next]_vars PROVE TypeOK'
  OBVIOUS
<1> USE CallersAssumption DEF TypeOK, Inside
<1>1. CASE UNCHANGED vars
  BY <1>1 DEF vars
<1>2. ASSUME NEW t \in Tasks, CheckFlag(t) PROVE TypeOK'
  BY <1>2 DEF CheckFlag, Move
<1>3. ASSUME NEW t \in Tasks, LockWakers(t) PROVE TypeOK'
  BY <1>3 DEF LockWakers, Move
<1>4. ASSUME NEW t \in Tasks, RecheckFlag(t) PROVE TypeOK'
  BY <1>4 DEF RecheckFlag, Move
<1>5. ASSUME NEW t \in Tasks, Register(t) PROVE TypeOK'
  BY <1>5 DEF Register, Move
<1>6. ASSUME NEW t \in Tasks, PollAgain(t) PROVE TypeOK'
  BY <1>6 DEF PollAgain, Move
<1>7. ASSUME NEW c \in Calls, StoreFlag(c) PROVE TypeOK'
  BY <1>7 DEF StoreFlag, Advance
<1>8. ASSUME NEW c \in Calls, LockForDrain(c) PROVE TypeOK'
  BY <1>8 DEF LockForDrain, Advance
<1>9. ASSUME NEW c \in Calls, WakeOne(c) PROVE TypeOK'
  BY <1>9 DEF WakeOne
<1>10. ASSUME NEW c \in Calls, FinishDrain(c) PROVE TypeOK'
  BY <1>10 DEF FinishDrain, Advance
<1>11. QED
  BY <1>1, <1>2, <1>3, <1>4, <1>5, <1>6, <1>7, <1>8, <1>9, <1>10
     DEF Next, TaskStep, CallStep

LEMMA SleepersStayRegistered ==
    TypeOK /\ SleepersRegistered /\ [Next]_vars => SleepersRegistered'
<1> SUFFICES ASSUME TypeOK, SleepersRegistered, [Next]_vars PROVE SleepersRegistered'
  OBVIOUS
<1> USE DEF TypeOK, SleepersRegistered
<1>1. CASE UNCHANGED vars
  BY <1>1 DEF vars
<1>2. ASSUME NEW t \in Tasks, TaskStep(t) \/ PollAgain(t) PROVE SleepersRegistered'
  BY <1>2 DEF TaskStep, CheckFlag, LockWakers, RecheckFlag, Register, PollAgain, Move
<1>3. ASSUME NEW c \in Calls, StoreFlag(c) \/ CallStep(c) PROVE SleepersRegistered'
  BY <1>3 DEF CallStep, StoreFlag, LockForDrain, WakeOne, FinishDrain, Advance
<1>4. QED
  BY <1>1, <1>2, <1>3 DEF Next

LEMMA WakersStayServed ==
    TypeOK /\ WakersServed /\ [Next]_vars => WakersServed'
<1> SUFFICES ASSUME TypeOK, WakersServed, [Next]_vars PROVE WakersServed'
  OBVIOUS
<1> USE DEF TypeOK, WakersServed
<1>1. CASE UNCHANGED vars
  BY <1>1 DEF vars
<1>2. ASSUME NEW t \in Tasks, TaskStep(t) \/ PollAgain(t) PROVE WakersServed'
  <2>1. CASE CheckFlag(t) \/ LockWakers(t) \/ PollAgain(t)
    BY <2>1 DEF CheckFlag, LockWakers, PollAgain, Move
  \* The flag is still down when the task decides to register.
  <2>2. CASE RecheckFlag(t)
    BY <2>2 DEF RecheckFlag, Move
  <2>3. CASE Register(t)
    BY <2>3 DEF Register, Move
  <2>4. QED
    BY <1>2, <2>1, <2>2, <2>3 DEF TaskStep
<1>3. ASSUME NEW c \in Calls, StoreFlag(c) \/ CallStep(c) PROVE WakersServed'
  <2>1. CASE StoreFlag(c)
    BY <2>1 DEF StoreFlag, Advance
  <2>2. CASE LockForDrain(c)
    BY <2>2 DEF LockForDrain, Advance
  <2>3. CASE WakeOne(c)
    BY <2>3 DEF WakeOne
  \* Nobody can be about to register while the call holds the lock.
  <2>4. CASE FinishDrain(c)
    <3>1. c \in Inside
      BY <2>4 DEF FinishDrain, Advance, Inside
    <3>2. ~ \E t \in Tasks : task[t] = "register"
      BY <3>1, CallersAssumption DEF Inside
    <3>3. QED
      BY <2>4, <3>2 DEF FinishDrain, Advance
  <2>5. QED
    BY <1>3, <2>1, <2>2, <2>3, <2>4 DEF CallStep
<1>4. QED
  BY <1>1, <1>2, <1>3 DEF Next

-----------------------------------------------------------------------------

\* The mutex of the wakers is held by whoever is inside, and types are kept.
THEOREM TypeInvariance == Spec => []TypeOK
<1>1. Init => TypeOK
  BY InitInvariant DEF IInv
<1>2. QED
  BY <1>1, TypeCorrect, PTL DEF Spec

LEMMA Invariance == Spec => []IInv
<1>1. IInv /\ [Next]_vars => IInv'
  BY TypeCorrect, SleepersStayRegistered, WakersStayServed DEF IInv
<1>2. QED
  BY <1>1, InitInvariant, PTL DEF Spec

\* A task that sleeps on a fired token has its waker registered, and a call of
\* cancel is still on its way to wake it.
THEOREM NoWakeupIsLost == Spec => []NoLostWakeup
<1>1. IInv => NoLostWakeup
  BY DEF IInv, SleepersRegistered, WakersServed, NoLostWakeup
<1>2. QED
  BY <1>1, Invariance, PTL

=============================================================================
