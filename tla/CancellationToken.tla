------------------------- MODULE CancellationToken -------------------------
(***************************************************************************)
(* StdCancellationToken: an atomic flag and, behind a mutex, the wakers of  *)
(* the futures that wait for it.  A task polls CancelledFuture: it reads    *)
(* the flag, takes the lock, reads the flag again and registers its waker.  *)
(* A call of cancel stores the flag, takes the lock and wakes everyone that *)
(* is registered.  Tasks and calls run on any threads, in any interleaving. *)
(*                                                                         *)
(* The wakers are kept as a set: the Vec of the code may hold one twice and *)
(* in some order, and waking twice is waking once.                          *)
(***************************************************************************)
CONSTANTS
    Tasks,   \* tasks that await the token, one CancelledFuture each
    Calls,   \* calls of cancel, by any threads
    Free     \* nobody holds the lock

ASSUME CallersAssumption == Tasks \cap Calls = {} /\ Free \notin Tasks \cup Calls

VARIABLES
    flag,     \* inner.flag
    wakers,   \* tasks with a waker in inner.notify
    lock,     \* who holds the mutex of inner.notify
    task,     \* task[t]: where the poll of t is
    call,     \* call[c]: where the call c is
    woken     \* tasks woken since they returned Pending

vars == <<flag, wakers, lock, task, call, woken>>

\* Who is inside the critical sections of poll and cancel.
Inside == {t \in Tasks : task[t] \in {"recheck", "register"}} \cup
          {c \in Calls : call[c] = "drain"}

\* Types, and the mutex at work: whoever is inside holds it, so one at a time.
TypeOK ==
    /\ flag \in BOOLEAN
    /\ wakers \subseteq Tasks
    /\ lock \in Tasks \cup Calls \cup {Free}
    /\ task \in [Tasks -> {"poll", "lock", "recheck", "register", "pending", "ready"}]
    /\ call \in [Calls -> {"store", "lock", "drain", "done"}]
    /\ woken \subseteq Tasks
    /\ Inside = {lock} \ {Free}

Init ==
    /\ flag = FALSE
    /\ wakers = {}
    /\ lock = Free
    /\ task = [t \in Tasks |-> "poll"]
    /\ call = [c \in Calls |-> "store"]
    /\ woken = {}

-----------------------------------------------------------------------------
(***************************************************************************)
(* CancelledFuture::poll.                                                  *)
(***************************************************************************)

Move(t, from, to) ==
    /\ task[t] = from
    /\ task' = [task EXCEPT ![t] = to]

CheckFlag(t) ==
    /\ Move(t, "poll", IF flag THEN "ready" ELSE "lock")
    /\ UNCHANGED <<flag, wakers, lock, call, woken>>

LockWakers(t) ==
    /\ lock = Free
    /\ lock' = t
    /\ Move(t, "lock", "recheck")
    /\ UNCHANGED <<flag, wakers, call, woken>>

\* Mutant: the second look at the flag is left out.
TrustFirstCheck(t) ==
    /\ Move(t, "recheck", "register")
    /\ UNCHANGED <<flag, wakers, lock, call, woken>>

\* The guard of the mutex is dropped on both ways out of poll.
RecheckFlag(t) ==
    /\ IF flag
       THEN Move(t, "recheck", "ready") /\ lock' = Free
       ELSE Move(t, "recheck", "register") /\ UNCHANGED lock
    /\ UNCHANGED <<flag, wakers, call, woken>>

Register(t) ==
    /\ Move(t, "register", "pending")
    /\ wakers' = wakers \cup {t}
    /\ lock' = Free
    /\ UNCHANGED <<flag, call, woken>>

\* The executor polls a pending task once it is woken, and may do so earlier.
PollAgain(t) ==
    /\ Move(t, "pending", "poll")
    /\ woken' = woken \ {t}
    /\ UNCHANGED <<flag, wakers, lock, call>>

-----------------------------------------------------------------------------
(***************************************************************************)
(* cancel.                                                                 *)
(***************************************************************************)

Advance(c, from, to) ==
    /\ call[c] = from
    /\ call' = [call EXCEPT ![c] = to]

StoreFlag(c) ==
    /\ Advance(c, "store", "lock")
    /\ flag' = TRUE
    /\ UNCHANGED <<wakers, lock, task, woken>>

\* Mutant: the wakers are drained without the lock.
DrainUnlocked(c) ==
    /\ Advance(c, "lock", "drain")
    /\ UNCHANGED <<flag, wakers, lock, task, woken>>

LockForDrain(c) ==
    /\ lock = Free
    /\ lock' = c
    /\ Advance(c, "lock", "drain")
    /\ UNCHANGED <<flag, wakers, task, woken>>

\* One turn of the loop over drain(..).
WakeOne(c) ==
    /\ call[c] = "drain"
    /\ \E t \in wakers : wakers' = wakers \ {t} /\ woken' = woken \cup {t}
    /\ UNCHANGED <<flag, lock, task, call>>

\* Mutant: the loop over the wakers ends early.
DrainOne(c) ==
    /\ Advance(c, "drain", "done")
    /\ lock' = Free
    /\ UNCHANGED <<flag, wakers, task, woken>>

FinishDrain(c) ==
    /\ wakers = {}
    /\ Advance(c, "drain", "done")
    /\ lock' = Free
    /\ UNCHANGED <<flag, wakers, task, woken>>

-----------------------------------------------------------------------------

TaskStep(t) ==
    \/ CheckFlag(t)
    \/ LockWakers(t)
    \/ RecheckFlag(t)
    \/ Register(t)

CallStep(c) ==
    \/ LockForDrain(c)
    \/ WakeOne(c)
    \/ FinishDrain(c)

Next ==
    \/ \E t \in Tasks : TaskStep(t) \/ PollAgain(t)
    \/ \E c \in Calls : StoreFlag(c) \/ CallStep(c)

Spec == Init /\ [][Next]_vars

\* Threads that are inside poll or cancel run on, and get the lock when they
\* keep asking for it; a woken task is polled.  Nobody has to call cancel.
Fairness ==
    /\ \A t \in Tasks : /\ WF_vars(CheckFlag(t) \/ RecheckFlag(t) \/ Register(t))
                        /\ SF_vars(LockWakers(t))
                        /\ WF_vars(PollAgain(t) /\ t \in woken)
    /\ \A c \in Calls : SF_vars(CallStep(c))

FairSpec == Spec /\ Fairness

-----------------------------------------------------------------------------

\* No wakeup is lost: a task that sleeps although the token has fired is
\* registered, and a call that will wake it is on its way to the lock or
\* draining.  This is what the second look at the flag, under the lock, is for.
NoLostWakeup ==
    \A t \in Tasks :
        task[t] = "pending" /\ flag /\ t \notin woken =>
            /\ t \in wakers
            /\ \E c \in Calls : call[c] \in {"lock", "drain"}

\* Once the token has fired, every future on it becomes ready.
FiredResolves == \A t \in Tasks : flag ~> task[t] = "ready"

=============================================================================
