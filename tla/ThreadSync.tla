----------------------------- MODULE ThreadSync -----------------------------
(***************************************************************************)
(* The locks and condition variables of threads/thread.c, on top of the    *)
(* scheduler and wait queues of ThreadSched.  lock->wq and cv->wq are the  *)
(* wait queues named after the lock and the condition variable.            *)
(*                                                                         *)
(* lock_acquire sleeps and tests again, with interrupts off, until the     *)
(* lock is free; a thread that comes back from thread_sleep inside it (or  *)
(* inside cv_wait) is therefore not yet running its program.  cont says    *)
(* which lock it is about to test.                                         *)
(***************************************************************************)
EXTENDS ThreadSched

CONSTANTS Locks, Cvs

ASSUME SyncAssumption ==
    /\ Locks \cap Cvs = {}
    /\ Locks \cup Cvs \subseteq Queues

VARIABLES
    lockState,  \* struct lock.state, "absent" when there is no such lock
    lockId,     \* struct lock.id, NoTid for -328
    cvs,        \* condition variables that exist
    cont        \* the lock each thread is acquiring, or Nil

syncVars == <<lockState, lockId, cvs, cont>>
allVars  == <<vars, syncVars>>

SyncInit ==
    /\ Init
    /\ lockState = [l \in Locks |-> "absent"]
    /\ lockId = [l \in Locks |-> NoTid]
    /\ cvs = {}
    /\ cont = [p \in Threads |-> Nil]

\* The running thread is in its program, free to make a call.
AtCall == InUser /\ cont[runningrn] = Nil

\* Fault: any thread may act for the owner.
Holds_fault(l) == lockState[l] = "LOCKED"

\* The test that guards release, wait, signal and broadcast.
Holds(l) == lockState[l] = "LOCKED" /\ lockId[l] = tid[runningrn]

SchedUnchanged == UNCHANGED <<live, tid, state, idarray, readyq, exitedq,
                              waitq, runningrn, next, retid, leaving>>

-----------------------------------------------------------------------------
LockCreate(l) ==
    /\ AtCall
    /\ lockState[l] = "absent"
    /\ lockState' = [lockState EXCEPT ![l] = "UNLOCKED"]
    /\ queues' = queues \cup {l}
    /\ SchedUnchanged
    /\ UNCHANGED <<queue, waking, pc, lockId, cvs, cont>>

\* Does nothing to a lock that is held or has sleepers.
LockDestroy(l) ==
    /\ AtCall
    /\ lockState[l] = "UNLOCKED"
    /\ waitq[l] = <<>>
    /\ lockState' = [lockState EXCEPT ![l] = "absent"]
    /\ queues' = queues \ {l}
    /\ SchedUnchanged
    /\ UNCHANGED <<queue, waking, pc, lockId, cvs, cont>>

Acquire(l) ==
    /\ AtCall
    /\ lockState[l] # "absent"
    /\ cont' = [cont EXCEPT ![runningrn] = l]
    /\ UNCHANGED <<vars, lockState, lockId, cvs>>

Testing(l) == InUser /\ cont[runningrn] = l

AcquireTake(l) ==
    /\ Testing(l)
    /\ lockState[l] = "UNLOCKED" \/ Holds(l)
    /\ lockState' = [lockState EXCEPT ![l] = "LOCKED"]
    /\ lockId' = [lockId EXCEPT ![l] = tid[runningrn]]
    /\ cont' = [cont EXCEPT ![runningrn] = Nil]
    /\ UNCHANGED <<vars, cvs>>

AcquireSleep(l) ==
    /\ Testing(l)
    /\ lockState[l] = "LOCKED" /\ ~Holds(l)
    /\ queue' = l
    /\ pc' = "enter_sleep"
    /\ SchedUnchanged
    /\ UNCHANGED <<queues, waking, syncVars>>

\* The lock was destroyed between the thread's waking and its test.
AcquireStale(l) ==
    /\ Testing(l)
    /\ lockState[l] = "absent"
    /\ pc' = "stale_queue"
    /\ SchedUnchanged
    /\ UNCHANGED <<queues, queue, waking, syncVars>>

\* Fault: the sleepers are not woken.
Unlock_nowake_fault(l) ==
    /\ lockState' = [lockState EXCEPT ![l] = "UNLOCKED"]
    /\ lockId' = [lockId EXCEPT ![l] = NoTid]
    /\ waking' = Nil

\* Fault: the sleepers are woken but the lock stays locked.
Unlock_keep_fault(l) ==
    /\ UNCHANGED <<lockState, lockId>>
    /\ waking' = WakeAll(l)

Unlock(l) ==
    /\ lockState' = [lockState EXCEPT ![l] = "UNLOCKED"]
    /\ lockId' = [lockId EXCEPT ![l] = NoTid]
    /\ waking' = WakeAll(l)

Release(l) ==
    /\ AtCall
    /\ Holds(l)
    /\ Unlock(l)
    /\ SchedUnchanged
    /\ UNCHANGED <<queues, queue, pc, cvs, cont>>

-----------------------------------------------------------------------------
CvCreate(c) ==
    /\ AtCall
    /\ c \notin cvs
    /\ cvs' = cvs \cup {c}
    /\ queues' = queues \cup {c}
    /\ SchedUnchanged
    /\ UNCHANGED <<queue, waking, pc, lockState, lockId, cont>>

CvDestroy(c) ==
    /\ AtCall
    /\ c \in cvs
    /\ waitq[c] = <<>>
    /\ cvs' = cvs \ {c}
    /\ queues' = queues \ {c}
    /\ SchedUnchanged
    /\ UNCHANGED <<queue, waking, pc, lockState, lockId, cont>>

\* lock_release, thread_sleep and lock_acquire in one stretch without
\* interrupts: no signal can come between the release and the sleep.
CvWait(c, l) ==
    /\ AtCall
    /\ c \in cvs
    /\ Holds(l)
    /\ Unlock(l)
    /\ queue' = c
    /\ pc' = "enter_sleep"
    /\ cont' = [cont EXCEPT ![runningrn] = l]
    /\ SchedUnchanged
    /\ UNCHANGED <<queues, cvs>>

CvSignal(c, l) ==
    /\ AtCall
    /\ c \in cvs
    /\ Holds(l)
    /\ WakeHead(c)
    /\ UNCHANGED <<waking, syncVars>>

CvBroadcast(c, l) ==
    /\ AtCall
    /\ c \in cvs
    /\ Holds(l)
    /\ waking' = WakeAll(c)
    /\ SchedUnchanged
    /\ UNCHANGED <<queues, queue, pc, syncVars>>

-----------------------------------------------------------------------------
\* Fault: a thread comes back from thread_sleep without testing the lock again.
SchedStep_fault(A) ==
    /\ A
    /\ cont' = [cont EXCEPT ![runningrn] = Nil]
    /\ UNCHANGED <<lockState, lockId, cvs>>

\* A step of the scheduler; a TCB that is freed forgets what it was doing.
SchedStep(A) ==
    /\ A
    /\ cont' = [p \in Threads |-> IF p \in live' THEN cont[p] ELSE Nil]
    /\ UNCHANGED <<lockState, lockId, cvs>>

\* The calls of ThreadSched the programs considered here make: a thread
\* releases its locks before it exits, and the queues of locks and condition
\* variables are not used directly.
SchedCall ==
    \/ Create
    \/ \E t \in Tids : \/ YieldTo(t) \/ YieldMiss(t)
                       \/ KillReady(t) \/ KillSleeping(t) \/ Wait(t)
    \/ \E q \in Queues \ (Locks \cup Cvs) :
            \/ QueueCreate(q) \/ QueueDestroy(q) \/ Sleep(q)
            \/ WakeupOne(q) \/ WakeupAll(q)
    \/ ExitEnter /\ \A l \in Locks : ~Holds(l)
    \/ PreemptOrAny

SyncCall ==
    \/ \E l \in Locks : LockCreate(l) \/ LockDestroy(l) \/ Acquire(l) \/ Release(l)
    \/ \E c \in Cvs : CvCreate(c) \/ CvDestroy(c)
    \/ \E c \in Cvs, l \in Locks : CvWait(c, l) \/ CvSignal(c, l) \/ CvBroadcast(c, l)

AcquireStep == \E l \in Locks : AcquireTake(l) \/ AcquireSleep(l) \/ AcquireStale(l)

SyncNext ==
    \/ AtCall /\ SchedStep(SchedCall)
    \/ SchedStep(KernelStep)
    \/ SyncCall
    \/ AcquireStep
    \/ pc \in Stopped /\ UNCHANGED allVars

SyncSpec == SyncInit /\ [][SyncNext]_allVars

-----------------------------------------------------------------------------
SyncTypeOK ==
    /\ TypeOK
    /\ lockState \in [Locks -> {"absent", "UNLOCKED", "LOCKED"}]
    /\ lockId \in [Locks -> Tids \cup {NoTid}]
    /\ cvs \in SUBSET Cvs
    /\ cont \in [Threads -> Locks \cup {Nil}]

\* Nobody sleeps on a lock that is free: lock_release wakes every sleeper, and
\* lock_acquire never goes to sleep on a lock that was released meanwhile.
NoSleeperOnFreeLock ==
    \A l \in Locks : waitq[l] # <<>> => lockState[l] = "LOCKED" \/ waking = l

\* A locked lock belongs to a thread that exists and is neither asking for that
\* lock nor waiting on a condition variable with it.
OwnerAlive ==
    \A l \in Locks : lockState[l] = "LOCKED" =>
        \E p \in live : tid[p] = lockId[l] /\ (cont[p] = l => p = runningrn)

\* A thread asleep in the queue of a lock or a condition variable will test a
\* lock when it runs.
SleepersReacquire ==
    \A q \in Locks \cup Cvs : \A p \in ToSet(waitq[q]) :
        cont[p] # Nil /\ (q \in Locks => cont[p] = q)

\* The owner of a lock as a thread.
OwnerOf(l) ==
    IF lockState[l] = "LOCKED"
    THEN CHOOSE p \in live : tid[p] = lockId[l]
    ELSE Nil

\* The waiters of c: those in its queue and the one on its way into it.
WaitersOf(c) ==
    LET s == waitq[c] \o (IF queue = c THEN <<runningrn>> ELSE <<>>)
    IN  [i \in 1 .. Len(s) |-> <<s[i], cont[s[i]]>>]

EnteringOf(l) ==
    {p \in Threads :
        cont[p] = l /\ \A c \in Cvs : \A i \in 1 .. Len(WaitersOf(c)) : WaitersOf(c)[i][1] # p}

M == INSTANCE Monitor WITH
        owner    <- [l \in Locks |-> OwnerOf(l)],
        entering <- [l \in Locks |-> EnteringOf(l)],
        waiting  <- [c \in Cvs |-> WaitersOf(c)]

\* The locks and condition variables implement the monitor of Monitor.tla.
IsMonitor == M!Spec
=============================================================================
