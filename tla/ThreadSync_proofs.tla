------------------------- MODULE ThreadSync_proofs -------------------------
(***************************************************************************)
(* Proofs about the locks and condition variables of ThreadSync.  What     *)
(* needs no hypothesis on the program's calls comes first; that the owner  *)
(* of a lock is there, and that locks and condition variables implement    *)
(* the monitor of Monitor, needs a program that never kills.               *)
(***************************************************************************)
EXTENDS ThreadSync, ThreadSched_proofs

\* The lock a thread is about to sleep for is held, and a thread on its way into
\* the queue of a lock or a condition variable will test a lock.
GoingToSleep ==
    pc \in {"enter_sleep", "sleep"} =>
        /\ queue \in Locks => lockState[queue] = "LOCKED" /\ cont[runningrn] = queue
        /\ queue \in Cvs => cont[runningrn] \in Locks

SyncInv ==
    /\ IInv /\ SyncTypeOK
    /\ NoSleeperOnFreeLock /\ SleepersReacquire /\ GoingToSleep

\* With no kills: the owner of a lock goes neither to sleep for it nor away.
OwnerStays ==
    /\ OwnerAlive
    /\ \A l \in Locks : lockState[l] = "LOCKED" => lockId[l] \in Tids
    /\ pc \in {"enter_sleep", "sleep"} =>
          \A l \in Locks : cont[runningrn] = l => ~Holds(l)
    /\ pc = "exiting" => \A l \in Locks : ~Holds(l)

\* Only a thread that exists and has not exited is inside lock_acquire or
\* cv_wait; one that wakes a condition variable's waiters holds a lock.
ContAlive ==
    /\ \A p \in Threads : cont[p] # Nil => p \in live /\ p \notin ToSet(exitedq)
    /\ pc = "exiting" => cont[runningrn] = Nil
    /\ waking \in Cvs =>
          pc = "user" /\ cont[runningrn] = Nil /\ \E l \in Locks : Holds(l)

-----------------------------------------------------------------------------
(* The steps of ThreadSync as steps of the scheduler. *)

\* Every step of lock_acquire and every call on a lock or condition variable
\* leaves the threads and their queues alone, but for cv_signal.
Quiet ==
    /\ SchedUnchanged
    /\ InUser
    /\ queues' \subseteq Queues /\ waking' \in Locks \cup Cvs \cup {Nil}
    /\ \/ pc' = "user" /\ queue' = Nil
       \/ pc' = "enter_sleep" /\ queue' \in Locks \cup Cvs
       \/ pc' = "stale_queue" /\ queue' = Nil

Signals(c) == InUser /\ WakeHead(c) /\ UNCHANGED <<waking, syncVars>>

LEMMA Names ==
  /\ Locks \subseteq Queues /\ Cvs \subseteq Queues /\ Queues \subseteq WaitQueues
  /\ Tids \subseteq WaitQueues
  /\ Nil \notin WaitQueues /\ Nil \notin Queues /\ Nil \notin Locks /\ Nil \notin Cvs
  /\ Nil \notin Tids /\ Nil \notin Threads
  /\ Locks \cap Cvs = {} /\ Locks \cap Tids = {} /\ Cvs \cap Tids = {}
  /\ NoTid \notin Tids
  BY SchedAssumption, SyncAssumption DEF WaitQueues, NoTid, Tids

LEMMA WakeAllNames == \A q \in Locks \cup Cvs : WakeAll(q) \in {q, Nil}
  BY DEF WakeAll

LEMMA SyncKinds ==
  ASSUME IInv, SyncTypeOK, SyncCall \/ AcquireStep
  PROVE  Quiet \/ \E c \in Cvs : Signals(c)
<1>0. /\ InUser => queue = Nil
      /\ queues \subseteq Queues
  BY DEF IInv, TypeOK, Locals, SleepLocals, InUser
<1>1. ASSUME NEW l \in Locks,
             LockCreate(l) \/ LockDestroy(l) \/ Acquire(l) \/ Release(l)
      PROVE  Quiet
  <2>1. CASE LockCreate(l) \/ LockDestroy(l)
    BY <1>0, <2>1, Names DEF LockCreate, LockDestroy, Quiet, AtCall, InUser
  <2>2. CASE Acquire(l)
    BY <1>0, <2>2, Names DEF Acquire, Quiet, AtCall, InUser, vars, SchedUnchanged
  <2>3. CASE Release(l)
    BY <1>0, <2>3, Names, WakeAllNames DEF Release, Unlock, Quiet, AtCall, InUser
  <2> QED
    BY <1>1, <2>1, <2>2, <2>3
<1>2. ASSUME NEW c \in Cvs, CvCreate(c) \/ CvDestroy(c) PROVE Quiet
  BY <1>0, <1>2, Names DEF CvCreate, CvDestroy, Quiet, AtCall, InUser
<1>3. ASSUME NEW c \in Cvs, NEW l \in Locks, CvWait(c, l) \/ CvBroadcast(c, l)
      PROVE  Quiet
  <2>1. CASE CvWait(c, l)
    BY <1>0, <2>1, Names, WakeAllNames DEF CvWait, Unlock, Quiet, AtCall, InUser
  <2>2. CASE CvBroadcast(c, l)
    BY <1>0, <2>2, Names, WakeAllNames DEF CvBroadcast, Quiet, AtCall, InUser
  <2> QED
    BY <1>3, <2>1, <2>2
<1>4. ASSUME NEW c \in Cvs, NEW l \in Locks, CvSignal(c, l) PROVE Signals(c)
  BY <1>4 DEF CvSignal, Signals, AtCall
<1>5. ASSUME NEW l \in Locks, AcquireTake(l) \/ AcquireSleep(l) \/ AcquireStale(l)
      PROVE  Quiet
  <2>1. CASE AcquireTake(l)
    BY <1>0, <2>1, Names DEF AcquireTake, Testing, Quiet, InUser, vars, SchedUnchanged
  <2>2. CASE AcquireSleep(l)
    BY <1>0, <2>2, Names DEF AcquireSleep, Testing, Quiet, InUser
  <2>3. CASE AcquireStale(l)
    BY <1>0, <2>3, Names DEF AcquireStale, Testing, Quiet, InUser
  <2> QED
    BY <1>5, <2>1, <2>2, <2>3
<1> QED
  BY <1>1, <1>2, <1>3, <1>4, <1>5 DEF SyncCall, AcquireStep

LEMMA SchedCallIsCall == SchedCall \/ KernelStep => Next
  BY DEF SchedCall, UserCall, Next

LEMMA QuietIInv == ASSUME IInv, Quiet PROVE IInv'
<1>0. /\ TypeOK
      /\ UNCHANGED <<live, tid, state, idarray, readyq, exitedq, waitq,
                     runningrn, next, retid, leaving>>
      /\ pc = "user" /\ next = Nil
  BY DEF IInv, Quiet, SchedUnchanged, InUser, Locals, SleepLocals
<1>1. TypeOK'
  BY <1>0, Names DEF Quiet, TypeOK, Pcs, Stopped
<1>2. PlaceList'
  BY <1>0, KeptPlaces
<1>3. CpuAndLocals'
  <2>1. CASE pc' \in {"user", "enter_sleep"}
    BY <1>0, <2>1, Names, KeptCpu DEF Quiet
  <2>2. CASE pc' = "stale_queue" /\ queue' = Nil
    BY <1>0, <2>2 DEF IInv, Placement, CpuAndLocals, CpuHolds, Locals, LiveHaveIds,
                      YieldEnds, SleepLocals, Stopped
  <2> QED
    BY <2>1, <2>2 DEF Quiet
<1> QED
  BY <1>1, <1>2, <1>3, IInvByParts

LEMMA SignalsIInv == ASSUME IInv, NEW c \in Cvs, Signals(c) PROVE IInv'
<1>0. TypeOK /\ c \in WaitQueues /\ WakeHead(c) /\ waking' = waking /\ pc = "user"
  BY Names DEF IInv, Signals, InUser
<1>1. TypeOK'
  BY <1>0, WakeTypes DEF TypeOK
<1>2. PlaceList' /\ CpuAndLocals'
  BY <1>0, WakePlaces, WakeCpu DEF Stopped
<1> QED
  BY <1>1, <1>2, IInvByParts

LEMMA SyncIInvStep ==
  ASSUME IInv, SyncTypeOK, [SyncNext]_allVars
  PROVE  IInv'
<1>1. CASE SchedStep(SchedCall) \/ SchedStep(KernelStep)
  BY <1>1, SchedCallIsCall, IInvStep DEF SchedStep
<1>2. CASE UNCHANGED allVars
  BY <1>2, IInvStep DEF allVars
<1> QED
  BY <1>1, <1>2, SyncKinds, QuietIInv, SignalsIInv DEF SyncNext

-----------------------------------------------------------------------------
(* What holds whatever the program calls. *)

\* The scheduler's steps and the queues of locks and condition variables.
LEMMA SchedQueues ==
  ASSUME IInv, \/ AtCall /\ SchedStep(SchedCall)
               \/ SchedStep(KernelStep),
         NEW q \in Locks \cup Cvs
  PROVE  /\ \/ waitq'[q] = waitq[q] /\ (waking' = q <=> waking = q)
            \/ /\ SwitchSleep /\ queue = q /\ waking' = waking /\ waking = Nil
               /\ waitq'[q] = Append(waitq[q], runningrn)
            \/ /\ WakeNext /\ waking = q
               /\ waitq[q] # <<>> /\ waitq'[q] = Tail(waitq[q])
               /\ waking' = IF Len(waitq[q]) = 1 THEN Nil ELSE q
         /\ queue' = q => queue = q /\ runningrn' = runningrn
                            /\ pc \in {"enter_sleep", "sleep"}
<1> DEFINE Changed ==
              \/ waitq'[q] = waitq[q] /\ (waking' = q <=> waking = q)
              \/ /\ SwitchSleep /\ queue = q /\ waking' = waking /\ waking = Nil
                 /\ waitq'[q] = Append(waitq[q], runningrn)
              \/ /\ WakeNext /\ waking = q
                 /\ waitq[q] # <<>> /\ waitq'[q] = Tail(waitq[q])
                 /\ waking' = IF Len(waitq[q]) = 1 THEN Nil ELSE q
           Asked == queue' = q => queue = q /\ runningrn' = runningrn
                                    /\ pc \in {"enter_sleep", "sleep"}
           Goal == Changed /\ Asked
<1>0. /\ TypeOK /\ q \in WaitQueues /\ q # Nil /\ q \notin Tids
      /\ waitq \in [WaitQueues -> Seq(Threads)]
      /\ pc \in {"user", "yield", "exiting", "exit"} => queue = Nil
      /\ pc \in Pcs
  BY Names DEF IInv, TypeOK, Locals, SleepLocals
<1>1. ASSUME UNCHANGED <<waitq, waking>>,
             queue' = queue \/ queue' # q, queue = Nil
      PROVE  Goal
  BY <1>0, <1>1
<1>2. ASSUME SchedCall, AtCall PROVE Goal
  <2>0. pc = "user" /\ queue = Nil /\ waking = Nil
    BY <1>0, <1>2 DEF AtCall, InUser
  <2>1. CASE Create \/ PreemptOrAny
    BY <1>1, <2>0, <2>1 DEF Create, PreemptOrAny, CallerReady
  <2>2. ASSUME NEW t \in Tids,
               YieldTo(t) \/ YieldMiss(t) \/ KillReady(t) \/ KillSleeping(t)
        PROVE  Goal
    BY <1>1, <2>0, <2>2 DEF YieldTo, YieldMiss, CallerReady, KillReady, KillSleeping
  <2>3. ASSUME NEW t \in Tids, Wait(t) PROVE Goal
    BY <1>0, <1>1, <2>0, <2>3 DEF Wait
  <2>4. ASSUME NEW r \in Queues \ (Locks \cup Cvs),
               QueueCreate(r) \/ QueueDestroy(r) \/ Sleep(r)
        PROVE  Goal
    BY <1>1, <2>0, <2>4 DEF QueueCreate, QueueDestroy, Sleep
  <2>5. ASSUME NEW r \in Queues \ (Locks \cup Cvs), WakeupOne(r) PROVE Goal
    <3>1. waitq' = [waitq EXCEPT ![r] = Tail(@)] /\ UNCHANGED <<queue, waking>>
      BY <2>5 DEF WakeupOne, WakeHead
    <3>2. r # q
      BY <2>5
    <3> QED
      BY <1>0, <2>0, <3>1, <3>2
  <2>6. ASSUME NEW r \in Queues \ (Locks \cup Cvs), WakeupAll(r) PROVE Goal
    <3>1. UNCHANGED <<queue, waitq>> /\ waking' \in {r, Nil} /\ r # q
      BY <2>6 DEF WakeupAll, WakeAll
    <3> QED
      BY <1>0, <2>0, <3>1
  <2>7. CASE ExitEnter
    <3>1. tid[runningrn] \in Tids
      BY <2>0, Where DEF Stopped
    <3>2. UNCHANGED <<queue, waitq>> /\ waking' \in {tid[runningrn], Nil}
      BY <2>7 DEF ExitEnter, JoinWaking, WakeAll
    <3> QED
      BY <1>0, <2>0, <3>1, <3>2
  <2> QED
    BY <1>2, <2>1, <2>2, <2>3, <2>4, <2>5, <2>6, <2>7 DEF SchedCall
<1>3. ASSUME KernelStep PROVE Goal
  <2>1. CASE WakeNext
    <3>1. /\ waitq' = [waitq EXCEPT ![waking] = Tail(@)]
          /\ waitq[waking] # <<>>
          /\ waking' = IF Len(waitq[waking]) = 1 THEN Nil ELSE waking
          /\ UNCHANGED <<queue, runningrn>> /\ pc \notin Stopped
      BY <2>1 DEF WakeNext, WakeHead
    <3>2. Asked
      BY <1>0, <3>1 DEF Pcs, Stopped
    <3>3. Changed
      BY <1>0, <2>1, <3>1
    <3> QED
      BY <3>2, <3>3
  <2>2. CASE SleepNone \/ SleepPop \/ StaleThread \/ StaleSleep
    BY <1>0, <2>2 DEF SleepNone, SleepPop, StaleThread, StaleSleep
  <2>3. CASE ExitLeave \/ SwitchYield \/ SwitchExit
    BY <1>0, <1>1, <2>3 DEF ExitLeave, SwitchYield, SwitchExit
  <2>4. CASE Reap
    <3>1. tid[Popped] \in Tids
      BY <2>4, Where DEF Reap, Popped
    <3>2. /\ UNCHANGED <<waitq, queue>> /\ waking = Nil
          /\ waking' \in {tid[Popped], Nil}
          /\ pc \in {"yield", "sleep", "exit"}
          /\ pc = "sleep" => runningrn' = runningrn
      BY <2>4 DEF Reap, JoinWaking, WakeAll
    <3> QED
      BY <1>0, <3>1, <3>2
  <2>5. CASE SwitchSleep
    <3>1. /\ waitq' = [waitq EXCEPT ![queue] = Append(@, runningrn)]
          /\ queue' = Nil /\ waking' = waking /\ waking = Nil
      BY <2>5 DEF SwitchSleep, JoinQueue, Runnable
    <3>2. waitq'[q] = IF queue = q THEN Append(waitq[q], runningrn) ELSE waitq[q]
      BY <1>0, <3>1
    <3> QED
      BY <1>0, <2>5, <3>1, <3>2
  <2> QED
    BY <1>3, <2>1, <2>2, <2>3, <2>4, <2>5 DEF KernelStep
<1> QED
  BY <1>2, <1>3 DEF SchedStep

LEMMA SchedSync ==
  ASSUME SyncInv, \/ AtCall /\ SchedStep(SchedCall)
                  \/ SchedStep(KernelStep)
  PROVE  /\ SyncTypeOK' /\ NoSleeperOnFreeLock' /\ SleepersReacquire' /\ GoingToSleep'
<1>0. /\ IInv /\ SyncTypeOK /\ NoSleeperOnFreeLock /\ SleepersReacquire /\ GoingToSleep
      /\ IInv' /\ TypeOK' /\ TypeOK
      /\ Locks \cup Cvs \subseteq WaitQueues
  <2>1. IInv'
    BY SchedCallIsCall, IInvStep DEF SyncInv, SchedStep
  <2> QED
    BY <2>1, Names DEF SyncInv, IInv
<1>1. /\ cont' = [p \in Threads |-> IF p \in live' THEN cont[p] ELSE Nil]
      /\ UNCHANGED <<lockState, lockId, cvs>>
  BY DEF SchedStep
<1>2. SyncTypeOK'
  BY <1>0, <1>1 DEF SyncTypeOK
<1>3. NoSleeperOnFreeLock'
  <2> SUFFICES ASSUME NEW l \in Locks, waitq'[l] # <<>>, waking' # l
               PROVE  lockState'[l] = "LOCKED"
    BY DEF NoSleeperOnFreeLock
  <2>1. CASE waitq'[l] = waitq[l] /\ (waking' = l <=> waking = l)
    BY <1>0, <1>1, <2>1 DEF NoSleeperOnFreeLock
  <2>2. CASE SwitchSleep /\ queue = l
    BY <1>0, <1>1, <2>2 DEF GoingToSleep, SwitchSleep
  <2>3. CASE /\ waitq[l] # <<>> /\ waitq'[l] = Tail(waitq[l])
             /\ waking' = IF Len(waitq[l]) = 1 THEN Nil ELSE l
    <3> DEFINE w == waitq[l]
    <3>1. w \in Seq(Threads) /\ w # <<>> /\ Len(w) = 1
      BY <1>0, <2>3 DEF TypeOK
    <3> HIDE DEF w
    <3>2. Tail(w) \in Seq(Threads) /\ Len(Tail(w)) = 0
      BY <3>1, HeadTailProperties
    <3>3. Tail(w) = <<>>
      BY <3>2, EmptySeq
    <3> QED
      BY <2>3, <3>3 DEF w
  <2> QED
    BY <1>0, <2>1, <2>2, <2>3, SchedQueues
<1>4. ASSUME NEW p \in live' PROVE cont'[p] = cont[p]
  BY <1>0, <1>1 DEF TypeOK
<1>5. pc \in {"enter_sleep", "sleep"} => runningrn \in live
  BY <1>0, Where DEF Stopped
<1>6. SleepersReacquire'
  <2> SUFFICES ASSUME NEW q \in Locks \cup Cvs, NEW p \in ToSet(waitq'[q])
               PROVE  cont'[p] # Nil /\ (q \in Locks => cont'[p] = q)
    BY DEF SleepersReacquire
  <2>0. waitq[q] \in Seq(Threads) /\ q \in WaitQueues
    BY <1>0 DEF TypeOK
  <2>1. p \in live'
    <3>1. (\A r \in WaitQueues : \A x \in ToSet(waitq[r]) : x \in live)'
      BY <1>0 DEF IInv, Placement, EachSomewhere, Queued
    <3> QED
      BY <2>0, <3>1
  <2>2. cont'[p] = cont[p]
    BY <1>4, <2>1
  <2>3. CASE p \in ToSet(waitq[q])
    BY <1>0, <2>2, <2>3 DEF SleepersReacquire
  <2>4. CASE p \notin ToSet(waitq[q])
    <3>1. SwitchSleep /\ queue = q /\ p = runningrn
      <4>1. CASE waitq'[q] = waitq[q]
        BY <2>4, <4>1
      <4>2. CASE SwitchSleep /\ queue = q /\ waitq'[q] = Append(waitq[q], runningrn)
        <5>1. runningrn \in Threads
          BY <1>0, <1>5, <4>2, Where DEF SwitchSleep
        <5>2. ToSet(Append(waitq[q], runningrn)) = ToSet(waitq[q]) \cup {runningrn}
          BY <2>0, <5>1, EnqueueFacts
        <5> QED
          BY <2>4, <4>2, <5>2
      <4>3. CASE waitq[q] # <<>> /\ waitq'[q] = Tail(waitq[q])
        <5>1. IsInjective(waitq[q])
          BY <1>0, <2>0, Before DEF PlaceList, OneEntry
        <5>2. ToSet(Tail(waitq[q])) \subseteq ToSet(waitq[q])
          BY <2>0, <4>3, <5>1, PopFacts
        <5> QED
          BY <2>4, <4>3, <5>2
      <4> QED
        BY <1>0, <4>1, <4>2, <4>3, SchedQueues
    <3>2. pc = "sleep"
      BY <3>1 DEF SwitchSleep
    <3> QED
      BY <1>0, <2>2, <3>1, <3>2, Names DEF GoingToSleep
  <2> QED
    BY <2>3, <2>4
<1>7. GoingToSleep'
  <2> SUFFICES ASSUME pc' \in {"enter_sleep", "sleep"}, queue' \in Locks \cup Cvs
               PROVE  /\ queue' \in Locks => /\ lockState'[queue'] = "LOCKED"
                                             /\ cont'[runningrn'] = queue'
                      /\ queue' \in Cvs => cont'[runningrn'] \in Locks
    BY DEF GoingToSleep
  <2>1. queue = queue' /\ runningrn' = runningrn /\ pc \in {"enter_sleep", "sleep"}
    BY <1>0, SchedQueues
  <2>2. runningrn' \in live'
    <3>1. (pc \notin Stopped \cup {"exit"} => runningrn \in live)'
      BY <1>0 DEF IInv, Placement, CpuHolds
    <3> QED
      BY <3>1 DEF Stopped
  <2>3. cont'[runningrn] = cont[runningrn]
    BY <1>4, <2>1, <2>2
  <2> QED
    BY <1>0, <1>1, <2>1, <2>3 DEF GoingToSleep
<1> QED
  BY <1>2, <1>3, <1>6, <1>7

\* What the calls on locks and condition variables do to sleepers and to those
\* about to test a lock.
LEMMA CallsKeep ==
  ASSUME SyncInv,
         UNCHANGED runningrn,
         \A q \in WaitQueues : ToSet(waitq'[q]) \subseteq ToSet(waitq[q]),
         \A l \in Locks : waitq'[l] = waitq[l] /\
             (lockState'[l] = "LOCKED" \/ waking' = WakeAll(l) \/ lockState'[l] = lockState[l]),
         waking = Nil, runningrn \in live,
         \A p \in Threads \ {runningrn} : cont'[p] = cont[p],
         \A l \in Locks : pc' = "enter_sleep" /\ queue' = l =>
             lockState'[l] = "LOCKED" /\ cont'[runningrn] = l,
         pc' = "enter_sleep" /\ queue' \in Cvs => cont'[runningrn] \in Locks,
         pc' # "sleep"
  PROVE  NoSleeperOnFreeLock' /\ SleepersReacquire' /\ GoingToSleep'
<1>0. IInv /\ NoSleeperOnFreeLock /\ SleepersReacquire
  BY DEF SyncInv
<1>1. NoSleeperOnFreeLock'
  BY <1>0, Names DEF NoSleeperOnFreeLock, WakeAll
<1>2. SleepersReacquire'
  BY <1>0, Where, Names DEF SleepersReacquire
<1>3. GoingToSleep'
  BY DEF GoingToSleep
<1> QED
  BY <1>1, <1>2, <1>3

LEMMA CallsTypes ==
  ASSUME SyncInv, TypeOK', SyncCall \/ AcquireStep
  PROVE  SyncTypeOK'
<1>0. /\ SyncTypeOK
      /\ InUser => runningrn \in Threads /\ tid[runningrn] \in Tids
  BY Where DEF SyncInv, InUser, Stopped
<1>1. ASSUME NEW l \in Locks, LockCreate(l) \/ LockDestroy(l) \/ Acquire(l) \/ Release(l)
      PROVE  SyncTypeOK'
  BY <1>0, <1>1 DEF LockCreate, LockDestroy, Acquire, Release, Unlock, SyncTypeOK
<1>2. ASSUME NEW c \in Cvs, CvCreate(c) \/ CvDestroy(c) PROVE SyncTypeOK'
  BY <1>0, <1>2 DEF CvCreate, CvDestroy, SyncTypeOK
<1>3. ASSUME NEW c \in Cvs, NEW l \in Locks,
             CvWait(c, l) \/ CvSignal(c, l) \/ CvBroadcast(c, l)
      PROVE  SyncTypeOK'
  BY <1>0, <1>3 DEF CvWait, CvSignal, CvBroadcast, Unlock, syncVars, SyncTypeOK
<1>4. ASSUME NEW l \in Locks, AcquireTake(l) \/ AcquireSleep(l) \/ AcquireStale(l)
      PROVE  SyncTypeOK'
  BY <1>0, <1>4 DEF AcquireTake, Testing, AcquireSleep, AcquireStale, syncVars, SyncTypeOK
<1> QED
  BY <1>1, <1>2, <1>3, <1>4 DEF SyncCall, AcquireStep

LEMMA CallsSync ==
  ASSUME SyncInv, SyncCall \/ AcquireStep
  PROVE  NoSleeperOnFreeLock' /\ SleepersReacquire' /\ GoingToSleep'
<1> DEFINE Goal == NoSleeperOnFreeLock' /\ SleepersReacquire' /\ GoingToSleep'
<1>0. /\ IInv /\ SyncTypeOK
      /\ InUser => runningrn \in live /\ runningrn \in Threads /\ queue = Nil
  BY Where DEF SyncInv, InUser, Stopped, IInv, Locals, SleepLocals
<1>1. ASSUME NEW l \in Locks, LockCreate(l) \/ LockDestroy(l) PROVE Goal
  <2>1. /\ UNCHANGED <<runningrn, waitq, cont>> /\ waking = Nil /\ InUser
        /\ pc' = "user" /\ lockState[l] # "LOCKED" /\ waitq[l] = <<>>
        /\ \A k \in Locks \ {l} : lockState'[k] = lockState[k]
    BY <1>0, <1>1, Names
       DEF LockCreate, LockDestroy, SchedUnchanged, AtCall, InUser, SyncTypeOK,
           SyncInv, NoSleeperOnFreeLock
  <2>2. waking' = WakeAll(l)
    BY <1>1, <2>1 DEF LockCreate, LockDestroy, WakeAll
  <2> QED
    BY <1>0, <2>1, <2>2, CallsKeep
<1>2. ASSUME NEW l \in Locks, Acquire(l) PROVE Goal
  <2>1. /\ UNCHANGED <<runningrn, waitq, lockState>> /\ waking = Nil /\ InUser
        /\ pc' = "user"
        /\ \A p \in Threads \ {runningrn} : cont'[p] = cont[p]
    BY <1>0, <1>2 DEF Acquire, vars, AtCall, InUser, SyncTypeOK
  <2> QED
    BY <1>0, <2>1, CallsKeep
<1>3. ASSUME NEW l \in Locks, Release(l) PROVE Goal
  <2>1. /\ UNCHANGED <<runningrn, waitq, cont>> /\ waking = Nil /\ InUser
        /\ pc' = "user" /\ waking' = WakeAll(l)
        /\ \A k \in Locks \ {l} : lockState'[k] = lockState[k]
    BY <1>0, <1>3 DEF Release, Unlock, SchedUnchanged, AtCall, InUser, SyncTypeOK
  <2> QED
    BY <1>0, <2>1, CallsKeep
<1>4. ASSUME NEW c \in Cvs, CvCreate(c) \/ CvDestroy(c) PROVE Goal
  <2>1. /\ UNCHANGED <<runningrn, waitq, lockState, cont>> /\ waking = Nil /\ InUser
        /\ pc' = "user"
    BY <1>4 DEF CvCreate, CvDestroy, SchedUnchanged, AtCall, InUser
  <2> QED
    BY <1>0, <2>1, CallsKeep
<1>5. ASSUME NEW c \in Cvs, NEW l \in Locks, CvWait(c, l) PROVE Goal
  <2>1. /\ UNCHANGED <<runningrn, waitq>> /\ waking = Nil /\ InUser
        /\ pc' = "enter_sleep" /\ waking' = WakeAll(l) /\ queue' = c
        /\ \A k \in Locks \ {l} : lockState'[k] = lockState[k]
        /\ cont' = [cont EXCEPT ![runningrn] = l]
    BY <1>0, <1>5 DEF CvWait, Unlock, SchedUnchanged, AtCall, InUser, SyncTypeOK
  <2>2. /\ cont'[runningrn] = l
        /\ \A p \in Threads \ {runningrn} : cont'[p] = cont[p]
    BY <1>0, <2>1 DEF SyncTypeOK
  <2> QED
    BY <1>0, <2>1, <2>2, Names, CallsKeep
<1>6. ASSUME NEW c \in Cvs, NEW l \in Locks, CvSignal(c, l) PROVE Goal
  <2>1. /\ UNCHANGED <<runningrn, lockState, cont, pc>> /\ waking = Nil /\ InUser
        /\ waitq' = [waitq EXCEPT ![c] = Tail(@)] /\ waitq[c] # <<>>
        /\ pc = "user" /\ c \in WaitQueues
    BY <1>6, Names DEF CvSignal, WakeHead, syncVars, AtCall, InUser
  <2>2. waitq[c] \in Seq(Threads) /\ IsInjective(waitq[c])
    BY <1>0, <2>1, Before DEF PlaceList, OneEntry, TypeOK
  <2>3. ToSet(Tail(waitq[c])) \subseteq ToSet(waitq[c])
    BY <2>1, <2>2, PopFacts
  <2>4. /\ \A q \in WaitQueues : ToSet(waitq'[q]) \subseteq ToSet(waitq[q])
        /\ \A k \in Locks : waitq'[k] = waitq[k]
    BY <1>0, <2>1, <2>3, Names DEF IInv, TypeOK
  <2> QED
    BY <1>0, <2>1, <2>4, CallsKeep
<1>7. ASSUME NEW c \in Cvs, NEW l \in Locks, CvBroadcast(c, l) PROVE Goal
  <2>1. /\ UNCHANGED <<runningrn, waitq, lockState, cont>> /\ waking = Nil /\ InUser
        /\ pc' = "user"
    BY <1>7 DEF CvBroadcast, SchedUnchanged, syncVars, AtCall, InUser
  <2> QED
    BY <1>0, <2>1, CallsKeep
<1>8. ASSUME NEW l \in Locks, AcquireTake(l) PROVE Goal
  <2>1. /\ UNCHANGED <<runningrn, waitq>> /\ waking = Nil /\ InUser
        /\ pc' = "user"
        /\ \A p \in Threads \ {runningrn} : cont'[p] = cont[p]
        /\ lockState'[l] = "LOCKED"
        /\ \A k \in Locks \ {l} : lockState'[k] = lockState[k]
    BY <1>0, <1>8 DEF AcquireTake, Testing, vars, InUser, SyncTypeOK
  <2> QED
    BY <1>0, <2>1, CallsKeep
<1>9. ASSUME NEW l \in Locks, AcquireSleep(l) PROVE Goal
  <2>1. /\ UNCHANGED <<runningrn, waitq, lockState, cont>> /\ waking = Nil /\ InUser
        /\ pc' = "enter_sleep" /\ queue' = l /\ lockState[l] = "LOCKED"
        /\ cont[runningrn] = l
    BY <1>9 DEF AcquireSleep, Testing, SchedUnchanged, syncVars, InUser
  <2> QED
    BY <1>0, <2>1, Names, CallsKeep
<1>10. ASSUME NEW l \in Locks, AcquireStale(l) PROVE Goal
  <2>1. /\ UNCHANGED <<runningrn, waitq, lockState, cont>> /\ waking = Nil /\ InUser
        /\ pc' = "stale_queue"
    BY <1>10 DEF AcquireStale, Testing, SchedUnchanged, syncVars, InUser
  <2> QED
    BY <1>0, <2>1, CallsKeep
<1> QED
  BY <1>1, <1>2, <1>3, <1>4, <1>5, <1>6, <1>7, <1>8, <1>9, <1>10
     DEF SyncCall, AcquireStep

LEMMA SyncStep == SyncInv /\ [SyncNext]_allVars => SyncInv'
<1> SUFFICES ASSUME SyncInv, [SyncNext]_allVars PROVE SyncInv'
  OBVIOUS
<1>1. IInv' /\ TypeOK'
  BY SyncIInvStep DEF SyncInv, IInv
<1>2. CASE (AtCall /\ SchedStep(SchedCall)) \/ SchedStep(KernelStep)
  BY <1>1, <1>2, SchedSync DEF SyncInv
<1>3. CASE SyncCall \/ AcquireStep
  BY <1>1, <1>3, CallsTypes, CallsSync DEF SyncInv
<1>4. CASE UNCHANGED allVars
  BY <1>1, <1>4 DEF SyncInv, allVars, vars, syncVars, SyncTypeOK,
                    NoSleeperOnFreeLock, SleepersReacquire, GoingToSleep
<1> QED
  BY <1>2, <1>3, <1>4 DEF SyncNext

LEMMA SyncInitInv == SyncInit => SyncInv
<1> SUFFICES ASSUME SyncInit PROVE SyncInv
  OBVIOUS
<1>1. IInv /\ TypeOK
  BY InitIInv DEF SyncInit, IInv
<1>2. SyncTypeOK
  BY <1>1 DEF SyncInit, SyncTypeOK
<1>3. \A q \in WaitQueues : waitq[q] = <<>>
  BY DEF SyncInit, Init
<1>4. pc = "user"
  BY DEF SyncInit, Init
<1>5. NoSleeperOnFreeLock /\ SleepersReacquire /\ GoingToSleep
  BY <1>3, <1>4, Names, EmptyFacts DEF NoSleeperOnFreeLock, SleepersReacquire, GoingToSleep
<1> QED
  BY <1>1, <1>2, <1>5 DEF SyncInv

THEOREM SyncInvariance == SyncSpec => []SyncInv
  BY SyncStep, SyncInitInv, PTL DEF SyncSpec

\* The scheduler's and the locks' variables keep their types, whatever the
\* program calls.
THEOREM SyncTypeCorrect == SyncSpec => []SyncTypeOK
<1>1. SyncInv => SyncTypeOK
  BY DEF SyncInv
<1> QED
  BY <1>1, SyncInvariance, PTL

\* lock_release leaves nobody asleep on the lock, and lock_acquire puts nobody
\* to sleep on one that is free.
THEOREM NoForgottenSleeper == SyncSpec => []NoSleeperOnFreeLock
<1>1. SyncInv => NoSleeperOnFreeLock
  BY DEF SyncInv
<1> QED
  BY <1>1, SyncInvariance, PTL

\* Whoever sleeps in lock_acquire or cv_wait tests a lock before it returns.
THEOREM SleepersTest == SyncSpec => []SleepersReacquire
<1>1. SyncInv => SleepersReacquire
  BY DEF SyncInv
<1> QED
  BY <1>1, SyncInvariance, PTL

-----------------------------------------------------------------------------
(* Programs that never kill: the owner of a lock. *)

OwnerInv == SyncInv /\ Owned /\ NobodyKilled /\ OwnerStays

\* The CPU goes from one thread to the other only where the thread it leaves is
\* in its program, exits or goes to sleep.
LEMMA LeavesCpu ==
  ASSUME \/ AtCall /\ SchedStep(SchedCall)
         \/ SchedStep(KernelStep),
         ~Reap, runningrn' # runningrn
  PROVE  cont[runningrn] = Nil \/ pc \in {"exiting", "sleep"}
<1>1. CASE AtCall
  BY <1>1 DEF AtCall
<1>2. CASE KernelStep
  BY <1>2 DEF KernelStep, WakeNext, WakeHead, SleepNone, SleepPop, ExitLeave,
              StaleThread, SwitchYield, SwitchExit, SwitchSleep, StaleSleep
<1> QED
  BY <1>1, <1>2 DEF SchedStep

\* What the scheduler does when a thread goes to sleep or exits.
LEMMA EntersSleep ==
  ASSUME IInv, \/ AtCall /\ SchedStep(SchedCall)
               \/ SchedStep(KernelStep),
         ~Reap
  PROVE  /\ pc' \in {"enter_sleep", "sleep"} =>
               /\ runningrn' = runningrn /\ tid' = tid /\ live' = live
               /\ pc \in {"enter_sleep", "sleep"} \/ cont[runningrn] = Nil
         /\ pc' = "exiting" =>
               /\ runningrn' = runningrn /\ tid' = tid
               /\ pc = "exiting" \/ \A l \in Locks : ~Holds(l)
<1> DEFINE Goal ==
      /\ pc' \in {"enter_sleep", "sleep"} =>
            /\ runningrn' = runningrn /\ tid' = tid /\ live' = live
            /\ pc \in {"enter_sleep", "sleep"} \/ cont[runningrn] = Nil
      /\ pc' = "exiting" =>
            /\ runningrn' = runningrn /\ tid' = tid
            /\ pc = "exiting" \/ \A l \in Locks : ~Holds(l)
<1>1. CASE AtCall /\ SchedCall
  <2>0. cont[runningrn] = Nil /\ pc = "user"
    BY <1>1 DEF AtCall, InUser
  <2>1. CASE Create \/ PreemptOrAny
    BY <2>0, <2>1 DEF Create, PreemptOrAny
  <2>2. ASSUME NEW t \in Tids, YieldTo(t) \/ YieldMiss(t) PROVE Goal
    BY <2>0, <2>2 DEF YieldTo, YieldMiss
  <2>3. ASSUME NEW t \in Tids, KillReady(t) \/ KillSleeping(t) \/ Wait(t) PROVE Goal
    BY <2>0, <2>3 DEF KillReady, KillSleeping, Wait
  <2>4. ASSUME NEW q \in Queues, QueueCreate(q) \/ QueueDestroy(q) \/ Sleep(q) PROVE Goal
    BY <2>0, <2>4 DEF QueueCreate, QueueDestroy, Sleep
  <2>5. ASSUME NEW q \in Queues, WakeupOne(q) \/ WakeupAll(q) PROVE Goal
    BY <2>0, <2>5 DEF WakeupOne, WakeupAll, WakeHead
  <2>6. CASE ExitEnter /\ \A l \in Locks : ~Holds(l)
    BY <2>0, <2>6 DEF ExitEnter
  <2> QED
    BY <1>1, <2>1, <2>2, <2>3, <2>4, <2>5, <2>6 DEF SchedCall
<1>2. CASE KernelStep
  BY <1>2 DEF KernelStep, WakeNext, WakeHead, SleepNone, SleepPop, ExitLeave,
              StaleThread, SwitchYield, SwitchExit, SwitchSleep, StaleSleep
<1> QED
  BY <1>1, <1>2 DEF SchedStep

\* Whoever has an identifier keeps it in every step of the scheduler, but for
\* the exiting thread.
LEMMA KeepsId ==
  ASSUME IInv, Owned, [Next]_vars, ~Reap,
         NEW p \in live, tid[p] \in Tids, ~(pc = "exiting" /\ p = runningrn)
  PROVE  p \in live' /\ tid'[p] = tid[p]
<1>0. p \in Threads /\ NoTid \notin Tids /\ tid \in [Threads -> Tids \cup {NoTid}]
  BY Where DEF TypeOK, NoTid, Tids
<1>1. CASE Create
  BY <1>0, <1>1 DEF Create
<1>2. CASE ExitLeave
  <2> DEFINE old == IF exitedq = <<>> THEN {} ELSE {Head(exitedq)}
  <2>1. /\ live' = live \ old
        /\ tid' = [r \in Threads |-> IF r \in old \cup {runningrn} THEN NoTid ELSE tid[r]]
        /\ pc = "exiting"
    BY <1>2 DEF ExitLeave
  <2>2. p \notin old
    <3>1. CASE exitedq # <<>>
      <4>1. exitedq \in Seq(Threads) /\ IsInjective(exitedq)
        BY Before DEF IInv, TypeOK, PlaceList, OneEntry
      <4>2. Head(exitedq) \in ToSet(exitedq)
        BY <3>1, <4>1, PopFacts
      <4> QED
        BY <1>0, <3>1, <4>2 DEF Owned, ExitedHaveNone
    <3> QED
      BY <3>1
  <2> HIDE DEF old
  <2> QED
    BY <1>0, <2>1, <2>2
<1> QED
  BY <1>1, <1>2, IdsKept

LEMMA SchedOwner ==
  ASSUME NoKill, OwnerInv, SyncInv',
         \/ AtCall /\ SchedStep(SchedCall)
         \/ SchedStep(KernelStep)
  PROVE  OwnerInv'
<1>0. /\ IInv /\ SyncTypeOK /\ Owned /\ NobodyKilled /\ OwnerStays /\ OwnerAlive
      /\ Next
  BY SchedCallIsCall DEF OwnerInv, SyncInv, OwnerStays, SchedStep
<1>1. ~Reap
  BY <1>0 DEF Reap, NobodyKilled, SleepersMarked
<1>2. Owned' /\ NobodyKilled'
  BY <1>0, <1>1, OwnedStep, MarkedStep
<1>3. /\ cont' = [p \in Threads |-> IF p \in live' THEN cont[p] ELSE Nil]
      /\ UNCHANGED <<lockState, lockId>>
  BY DEF SchedStep
<1>4. OwnerAlive'
  <2> SUFFICES ASSUME NEW l \in Locks, lockState[l] = "LOCKED"
               PROVE  \E p \in live' : /\ tid'[p] = lockId[l]
                                       /\ cont'[p] = l => p = runningrn'
    BY <1>3 DEF OwnerAlive
  <2>1. PICK p \in live : tid[p] = lockId[l] /\ (cont[p] = l => p = runningrn)
    BY <1>0 DEF OwnerAlive
  <2>2. lockId[l] \in Tids /\ (p = runningrn => Holds(l))
    BY <1>0, <2>1 DEF OwnerStays, Holds
  <2>3. p \in live' /\ tid'[p] = tid[p]
    BY <1>0, <1>1, <2>1, <2>2, KeepsId DEF OwnerStays
  <2>4. cont'[p] = cont[p]
    BY <1>0, <1>3, <2>3, Where
  <2>5. ASSUME cont[p] = l PROVE p = runningrn'
    BY <1>0, <1>1, <2>1, <2>2, <2>5, Names, LeavesCpu DEF OwnerStays
  <2> QED
    BY <2>1, <2>3, <2>4, <2>5
<1>5. \A l \in Locks : lockState'[l] = "LOCKED" => lockId'[l] \in Tids
  BY <1>0, <1>3 DEF OwnerStays
<1>6. ASSUME pc' \in {"enter_sleep", "sleep"}, NEW l \in Locks, cont'[runningrn'] = l
      PROVE  ~Holds(l)'
  <2>1. /\ runningrn' = runningrn /\ tid' = tid /\ live' = live
        /\ pc \in {"enter_sleep", "sleep"} \/ cont[runningrn] = Nil
    BY <1>0, <1>1, <1>6, EntersSleep
  <2>2. (pc \notin Stopped \cup {"exit"} => runningrn \in live /\ live \subseteq Threads)'
    BY Where, SyncInv' DEF SyncInv, IInv, TypeOK, Placement, CpuHolds
  <2>3. cont[runningrn] = l
    BY <1>3, <1>6, <2>1, <2>2 DEF Stopped
  <2> QED
    BY <1>0, <1>3, <2>1, <2>3, Names DEF OwnerStays, Holds
<1>7. ASSUME pc' = "exiting", NEW l \in Locks PROVE ~Holds(l)'
  BY <1>0, <1>1, <1>3, <1>7, EntersSleep DEF OwnerStays, Holds
<1> QED
  BY <1>2, <1>4, <1>5, <1>6, <1>7 DEF OwnerInv, OwnerStays

\* The calls on locks and condition variables let everybody keep an identifier
\* and take nobody off the CPU.
LEMMA CallsOwned ==
  ASSUME OwnerInv, SyncCall \/ AcquireStep
  PROVE  /\ InUser /\ runningrn \in live /\ runningrn \in Threads
         /\ UNCHANGED <<live, tid, runningrn>>
         /\ Owned' /\ NobodyKilled'
<1>0. IInv /\ SyncTypeOK /\ TypeOK /\ Owned /\ NobodyKilled
  BY DEF OwnerInv, SyncInv, SyncTypeOK
<1>1. CASE Quiet
  <2>1. /\ UNCHANGED <<live, tid, state, idarray, exitedq, waitq, runningrn>>
        /\ InUser
    BY <1>1 DEF Quiet, SchedUnchanged
  <2>2. Owned'
    BY <1>0, <2>1 DEF Owned, Identifiers, UniqueIds, IdAccounting, ExitedHaveNone
  <2>3. NobodyKilled'
    BY <1>0, <2>1 DEF NobodyKilled, SleepersMarked
  <2> QED
    BY <1>0, <2>1, <2>2, <2>3, Where DEF InUser, Stopped
<1>2. ASSUME NEW c \in Cvs, Signals(c)
      PROVE  /\ UNCHANGED <<live, tid, runningrn>> /\ InUser
             /\ Owned' /\ NobodyKilled'
  <2>1. WakeHead(c) /\ InUser /\ c \in WaitQueues
    BY <1>2, Names DEF Signals
  <2>2. NobodyKilled'
    BY <1>0, <2>1, WakeMarks
  <2>3. Marks(tid[Head(waitq[c])], "READY") \/ idarray' = idarray
    BY <1>0, <2>1, MarksOne DEF WakeHead
  <2>4. /\ UNCHANGED <<live, tid, exitedq, runningrn>>
        /\ \A t \in Tids : idarray'[t].status = idarray[t].status
    BY <2>1, <2>3 DEF WakeHead, Marks
  <2>5. Owned'
    BY <1>0, <2>4 DEF Owned, Identifiers, UniqueIds, IdAccounting, ExitedHaveNone
  <2> QED
    BY <2>1, <2>2, <2>4, <2>5
<1> QED
  BY <1>0, <1>1, <1>2, SyncKinds, Where DEF InUser, Stopped

\* A call changes one lock at most, and what its caller is about to test.
LEMMA CallsOwner ==
  ASSUME OwnerInv, SyncCall \/ AcquireStep
  PROVE  OwnerStays'
<1> DEFINE me == runningrn
           Rest(l) == \A k \in Locks \ {l} : /\ lockState'[k] = lockState[k]
                                             /\ lockId'[k] = lockId[k]
           Free(l) == Rest(l) /\ lockState'[l] # "LOCKED"
           Same == UNCHANGED <<lockState, lockId>>
           Others == \A p \in Threads \ {me} : cont'[p] = cont[p]
<1>0. /\ me \in live /\ me \in Threads /\ tid[me] \in Tids /\ pc = "user"
      /\ UNCHANGED <<live, tid, runningrn>>
      /\ SyncTypeOK /\ OwnerAlive /\ OwnerStays /\ live \subseteq Threads
  BY CallsOwned, Where DEF OwnerInv, SyncInv, OwnerStays, InUser
<1>1. ASSUME NEW l \in Locks, Free(l), Others, UNCHANGED cont,
             pc' \notin {"enter_sleep", "sleep", "exiting"}
      PROVE  OwnerStays'
  BY <1>0, <1>1 DEF OwnerStays, OwnerAlive
<1>2. ASSUME Same, Others, pc' \notin {"enter_sleep", "sleep", "exiting"}
      PROVE  OwnerStays'
  BY <1>0, <1>2 DEF OwnerStays, OwnerAlive
<1>3. ASSUME NEW l \in Locks, LockCreate(l) \/ LockDestroy(l) PROVE OwnerStays'
  <2>1. Free(l) /\ Others /\ UNCHANGED cont /\ pc' = "user"
    BY <1>0, <1>3 DEF LockCreate, LockDestroy, SyncTypeOK
  <2> QED
    BY <1>1, <2>1
<1>4. ASSUME NEW l \in Locks, Acquire(l) PROVE OwnerStays'
  <2>1. Same /\ Others /\ pc' = "user"
    BY <1>0, <1>4 DEF Acquire, SyncTypeOK, vars
  <2> QED
    BY <1>2, <2>1
<1>5. ASSUME NEW l \in Locks, Release(l) PROVE OwnerStays'
  <2>1. Free(l) /\ Others /\ UNCHANGED cont /\ pc' = "user"
    BY <1>0, <1>5 DEF Release, Unlock, SyncTypeOK
  <2> QED
    BY <1>1, <2>1
<1>6. ASSUME NEW c \in Cvs, CvCreate(c) \/ CvDestroy(c) PROVE OwnerStays'
  <2>1. Same /\ Others /\ pc' = "user"
    BY <1>0, <1>6 DEF CvCreate, CvDestroy
  <2> QED
    BY <1>2, <2>1
<1>7. ASSUME NEW c \in Cvs, NEW l \in Locks, CvSignal(c, l) \/ CvBroadcast(c, l)
      PROVE  OwnerStays'
  <2>1. Same /\ Others /\ pc' = "user"
    BY <1>0, <1>7 DEF CvSignal, CvBroadcast, WakeHead, syncVars
  <2> QED
    BY <1>2, <2>1
<1>8. ASSUME NEW c \in Cvs, NEW l \in Locks, CvWait(c, l) PROVE OwnerStays'
  <2>1. Free(l) /\ Others /\ cont'[me] = l /\ pc' = "enter_sleep"
    BY <1>0, <1>8 DEF CvWait, Unlock, SyncTypeOK
  <2> QED
    BY <1>0, <2>1 DEF OwnerStays, OwnerAlive, Holds
<1>9. ASSUME NEW l \in Locks, AcquireTake(l) PROVE OwnerStays'
  <2>1. /\ Rest(l) /\ Others /\ cont'[me] = Nil /\ pc' = "user"
        /\ lockId'[l] = tid[me]
    BY <1>0, <1>9 DEF AcquireTake, vars, SyncTypeOK
  <2>2. \A k \in Locks : lockState'[k] = "LOCKED" => lockId'[k] \in Tids
    BY <1>0, <2>1 DEF OwnerStays
  <2>3. OwnerAlive'
    BY <1>0, <2>1, Names DEF OwnerAlive
  <2> QED
    BY <2>1, <2>2, <2>3 DEF OwnerStays
<1>10. ASSUME NEW l \in Locks, AcquireSleep(l) PROVE OwnerStays'
  <2>1. /\ Same /\ Others /\ cont'[me] = l /\ pc' = "enter_sleep" /\ ~Holds(l)
    BY <1>0, <1>10 DEF AcquireSleep, Testing, syncVars
  <2>2. OwnerAlive'
    BY <1>0, <1>10, <2>1 DEF OwnerAlive, AcquireSleep, syncVars
  <2> QED
    BY <1>0, <2>1, <2>2 DEF OwnerStays, Holds
<1>11. ASSUME NEW l \in Locks, AcquireStale(l) PROVE OwnerStays'
  <2>1. Same /\ Others /\ pc' = "stale_queue"
    BY <1>0, <1>11 DEF AcquireStale, syncVars
  <2> QED
    BY <1>2, <2>1
<1> QED
  BY <1>3, <1>4, <1>5, <1>6, <1>7, <1>8, <1>9, <1>10, <1>11
     DEF SyncCall, AcquireStep

LEMMA OwnerStep == ASSUME NoKill PROVE OwnerInv /\ [SyncNext]_allVars => OwnerInv'
<1> SUFFICES ASSUME OwnerInv, [SyncNext]_allVars PROVE OwnerInv'
  OBVIOUS
<1>1. SyncInv'
  BY SyncStep DEF OwnerInv
<1>2. CASE (AtCall /\ SchedStep(SchedCall)) \/ SchedStep(KernelStep)
  BY <1>1, <1>2, SchedOwner
<1>3. CASE SyncCall \/ AcquireStep
  BY <1>1, <1>3, CallsOwned, CallsOwner DEF OwnerInv
<1>4. CASE UNCHANGED allVars
  <2>1. UNCHANGED <<vars, lockState, lockId, cvs, cont>>
    BY <1>4 DEF allVars, syncVars
  <2> QED
    BY <1>1, <2>1 DEF OwnerInv, vars, Owned, Identifiers, UniqueIds, IdAccounting,
       ExitedHaveNone, NobodyKilled, SleepersMarked, OwnerStays, OwnerAlive, Holds
<1> QED
  BY <1>2, <1>3, <1>4 DEF SyncNext

LEMMA OwnerInit == SyncInit => OwnerInv
<1> SUFFICES ASSUME SyncInit PROVE OwnerInv
  OBVIOUS
<1>1. Owned /\ NobodyKilled
  BY KillFreeInit DEF SyncInit, KillFree
<1>2. pc = "user" /\ \A l \in Locks : lockState[l] # "LOCKED"
  BY DEF SyncInit, Init
<1> QED
  BY <1>1, <1>2, SyncInitInv DEF OwnerInv, OwnerStays, OwnerAlive

LEMMA OwnerInvariance == ASSUME NoKill PROVE SyncSpec => []OwnerInv
<1>1. OwnerInv /\ [SyncNext]_allVars => OwnerInv'
  BY OwnerStep
<1> QED
  BY <1>1, OwnerInit, PTL DEF SyncSpec

\* A lock that is held belongs to a thread that exists and does not wait for
\* it: lock_release is still to come.  (A thread that is killed while it holds
\* a lock takes it along.)
THEOREM OwnersAlive == ASSUME NoKill PROVE SyncSpec => []OwnerAlive
<1>1. OwnerInv => OwnerAlive
  BY DEF OwnerInv, OwnerStays
<1> QED
  BY <1>1, OwnerInvariance, PTL

-----------------------------------------------------------------------------
(* Programs that never kill: locks and condition variables implement the     *)
(* monitor of Monitor.tla.                                                   *)

MonitorInv == OwnerInv /\ ContAlive

\* The scheduler lets every thread go on with what it was doing.
LEMMA SchedCont ==
  ASSUME NoKill, MonitorInv,
         \/ AtCall /\ SchedStep(SchedCall)
         \/ SchedStep(KernelStep)
  PROVE  /\ cont' = cont /\ ~Reap
         /\ ToSet(exitedq') \subseteq ToSet(exitedq)
                \cup {p \in {runningrn} : pc = "exiting"}
<1>0. /\ IInv /\ TypeOK /\ SyncTypeOK /\ Owned /\ NobodyKilled /\ ContAlive
      /\ Next
  BY SchedCallIsCall DEF MonitorInv, OwnerInv, SyncInv, SyncTypeOK, SchedStep
<1>1. ~Reap
  BY <1>0 DEF Reap, NobodyKilled, SleepersMarked
<1>2. ASSUME NEW p \in live, p \notin ToSet(exitedq) PROVE p \in live'
  <2>1. CASE Create
    BY <2>1 DEF Create
  <2>2. CASE ExitLeave
    <3>1. live' = live \ (IF exitedq = <<>> THEN {} ELSE {Head(exitedq)})
      BY <2>2 DEF ExitLeave
    <3>2. exitedq \in Seq(Threads)
      BY <1>0 DEF TypeOK
    <3>3. exitedq # <<>> => Head(exitedq) \in ToSet(exitedq)
      BY <3>2, PopFacts
    <3> QED
      BY <1>2, <3>1, <3>3
  <2> QED
    BY <1>0, <1>1, <1>2, <2>1, <2>2, IdsKept
<1>3. cont' = cont
  <2>1. cont' = [p \in Threads |-> IF p \in live' THEN cont[p] ELSE Nil]
    BY DEF SchedStep
  <2>2. \A p \in Threads : p \notin live' => cont[p] = Nil
    BY <1>0, <1>2 DEF ContAlive
  <2> QED
    BY <1>0, <2>1, <2>2 DEF SyncTypeOK
<1>4. ToSet(exitedq') \subseteq ToSet(exitedq) \cup {p \in {runningrn} : pc = "exiting"}
  <2>1. CASE ExitLeave
    <3> DEFINE rest == IF exitedq = <<>> THEN exitedq ELSE Tail(exitedq)
    <3>1. exitedq' = Append(rest, runningrn) /\ pc = "exiting" /\ runningrn \in Threads
      BY <2>1, <1>0, Where DEF ExitLeave, Stopped
    <3>2. exitedq \in Seq(Threads) /\ IsInjective(exitedq)
      BY <1>0, Before DEF TypeOK, PlaceList, OneEntry
    <3>3. rest \in Seq(Threads) /\ ToSet(rest) \subseteq ToSet(exitedq)
      <4>1. CASE exitedq = <<>>
        BY <3>2, <4>1
      <4>2. CASE exitedq # <<>>
        BY <3>2, <4>2, PopFacts
      <4> QED
        BY <4>1, <4>2
    <3> HIDE DEF rest
    <3>4. ToSet(exitedq') = ToSet(rest) \cup {runningrn}
      BY <3>1, <3>3, EnqueueFacts
    <3> QED
      BY <3>1, <3>3, <3>4
  <2>2. CASE Create
    BY <2>2 DEF Create
  <2> QED
    BY <1>0, <1>1, <2>1, <2>2, IdsKept
<1> QED
  BY <1>1, <1>3, <1>4

LEMMA ContStep ==
  ASSUME NoKill, MonitorInv, OwnerInv', [SyncNext]_allVars
  PROVE  ContAlive'
<1>0. /\ IInv /\ TypeOK /\ SyncTypeOK /\ ContAlive
  BY DEF MonitorInv, OwnerInv, SyncInv, SyncTypeOK
<1>1. CASE (AtCall /\ SchedStep(SchedCall)) \/ SchedStep(KernelStep)
  <2>0. Next /\ UNCHANGED <<lockState, lockId>>
    BY <1>1, SchedCallIsCall DEF SchedStep
  <2>1. /\ cont' = cont /\ ~Reap
        /\ ToSet(exitedq') \subseteq ToSet(exitedq)
               \cup {p \in {runningrn} : pc = "exiting"}
    BY <1>1, SchedCont
  <2>2. \A p \in Threads : cont'[p] # Nil => p \in live' /\ p \notin ToSet(exitedq')
    <3> SUFFICES ASSUME NEW p \in Threads, cont[p] # Nil
                 PROVE  p \in live' /\ p \notin ToSet(exitedq')
      BY <2>1
    <3>1. /\ p \in live /\ p \notin ToSet(exitedq)
          /\ ~(pc = "exiting" /\ p = runningrn)
      BY <1>0 DEF ContAlive
    <3>2. cont'[p] = IF p \in live' THEN cont[p] ELSE Nil
      BY <1>1 DEF SchedStep
    <3> QED
      BY <2>1, <3>1, <3>2
  <2>3. pc' = "exiting" => cont'[runningrn'] = Nil
    <3>1. /\ pc' = "exiting" => runningrn' = runningrn
          /\ pc' = "exiting" /\ AtCall => cont[runningrn] = Nil
      BY <1>0, <1>1, <2>1, EntersSleep DEF AtCall
    <3>2. KernelStep /\ pc' = "exiting" => pc = "exiting"
      BY DEF KernelStep, WakeNext, WakeHead, SleepNone, SleepPop, ExitLeave, Reap,
             StaleThread, SwitchYield, SwitchExit, SwitchSleep, StaleSleep
    <3> QED
      BY <1>0, <1>1, <2>1, <3>1, <3>2 DEF ContAlive, SchedStep
  <2>4. ASSUME NEW c \in Cvs, waking' = c
        PROVE  waking = c /\ WakeNext
    <3>1. waking = c
      BY <1>0, <1>1, <2>4, Names, SchedQueues
    <3>2. ~InUser
      BY <3>1, Names DEF InUser
    <3>3. ~AtCall
      BY <3>2 DEF AtCall
    <3>4. WakeNext
      BY <1>0, <1>1, <2>1, <3>1, <3>3, Names
         DEF ContAlive, SchedStep, KernelStep, SleepNone, SleepPop, ExitLeave,
             StaleThread, SwitchYield, SwitchExit, SwitchSleep, StaleSleep
    <3> QED
      BY <3>1, <3>4
  <2>5. ASSUME waking' \in Cvs
        PROVE  pc' = "user" /\ cont'[runningrn'] = Nil /\ \E l \in Locks : Holds(l)'
    <3>1. waking \in Cvs /\ UNCHANGED <<pc, runningrn, tid>>
      BY <2>4, <2>5 DEF WakeNext, WakeHead
    <3> QED
      BY <1>0, <2>0, <2>1, <3>1 DEF ContAlive, Holds
  <2> QED
    BY <2>2, <2>3, <2>5 DEF ContAlive
<1>2. CASE SyncCall \/ AcquireStep
  <2>0. /\ InUser /\ runningrn \in live /\ runningrn \in Threads
        /\ UNCHANGED <<live, tid, runningrn>>
        /\ runningrn \notin ToSet(exitedq)
    BY <1>0, <1>2, CallsOwned, Where DEF MonitorInv
  <2> DEFINE Kept == /\ exitedq' = exitedq /\ pc' # "exiting"
                     /\ \A p \in Threads \ {runningrn} : cont'[p] = cont[p]
             Wakes == waking' \in Cvs =>
                         /\ pc' = "user" /\ cont'[runningrn] = Nil
                         /\ \E l \in Locks : Holds(l)'
  <2>1. ASSUME NEW l \in Locks, LockCreate(l) \/ LockDestroy(l) \/ Acquire(l)
        PROVE  Kept /\ Wakes
    BY <1>0, <2>0, <2>1, Names
       DEF LockCreate, LockDestroy, Acquire, vars, SchedUnchanged, InUser, SyncTypeOK
  <2>2. ASSUME NEW l \in Locks, Release(l) PROVE Kept /\ Wakes
    BY <2>0, <2>2, Names, WakeAllNames DEF Release, Unlock, SchedUnchanged, InUser
  <2>3. ASSUME NEW c \in Cvs, CvCreate(c) \/ CvDestroy(c) PROVE Kept /\ Wakes
    BY <2>0, <2>3, Names DEF CvCreate, CvDestroy, SchedUnchanged, InUser
  <2>4. ASSUME NEW c \in Cvs, NEW l \in Locks, CvWait(c, l) PROVE Kept /\ Wakes
    BY <1>0, <2>0, <2>4, Names, WakeAllNames
       DEF CvWait, Unlock, SchedUnchanged, SyncTypeOK
  <2>5. ASSUME NEW c \in Cvs, NEW l \in Locks, CvSignal(c, l) PROVE Kept /\ Wakes
    BY <2>0, <2>5, Names DEF CvSignal, WakeHead, syncVars, InUser
  <2>6. ASSUME NEW c \in Cvs, NEW l \in Locks, CvBroadcast(c, l) PROVE Kept /\ Wakes
    BY <2>0, <2>6 DEF CvBroadcast, SchedUnchanged, syncVars, InUser, AtCall, Holds
  <2>7. ASSUME NEW l \in Locks, AcquireTake(l) \/ AcquireSleep(l) \/ AcquireStale(l)
        PROVE  Kept /\ Wakes
    BY <1>0, <2>0, <2>7, Names
       DEF AcquireTake, AcquireSleep, AcquireStale, vars, syncVars, SchedUnchanged,
           InUser, SyncTypeOK
  <2>8. Kept /\ Wakes
    BY <1>2, <2>1, <2>2, <2>3, <2>4, <2>5, <2>6, <2>7 DEF SyncCall, AcquireStep
  <2> QED
    BY <1>0, <2>0, <2>8 DEF ContAlive
<1>3. CASE UNCHANGED allVars
  BY <1>0, <1>3 DEF allVars, vars, syncVars, ContAlive, Holds
<1> QED
  BY <1>1, <1>2, <1>3 DEF SyncNext

LEMMA MonitorStep ==
  ASSUME NoKill
  PROVE  MonitorInv /\ [SyncNext]_allVars => MonitorInv'
<1> SUFFICES ASSUME MonitorInv, [SyncNext]_allVars PROVE MonitorInv'
  OBVIOUS
<1>1. OwnerInv'
  BY OwnerStep DEF MonitorInv
<1> QED
  BY <1>1, ContStep DEF MonitorInv

\* A sequence with p applied to every entry.
Via(s, p) == [i \in 1 .. Len(s) |-> p[s[i]]]

LEMMA ViaTail ==
  ASSUME NEW S, NEW T, NEW p \in [S -> T], NEW s \in Seq(S), s # <<>>
  PROVE  /\ Via(s, p) # <<>>
         /\ Head(Via(s, p)) = p[Head(s)]
         /\ Tail(Via(s, p)) = Via(Tail(s), p)
<1> DEFINE a == Via(s, p)
           w == Tail(s)
           b == Via(w, p)
<1>1. /\ a \in Seq(T) /\ Len(a) = Len(s)
      /\ \A i \in 1 .. Len(s) : a[i] = p[s[i]]
  <2>1. Len(s) \in Nat /\ \A i \in 1 .. Len(s) : p[s[i]] \in T
    BY LenProperties, ElementOfSeq
  <2> QED
    BY <2>1 DEF Via
<1>2. /\ w \in Seq(S) /\ Len(w) = Len(s) - 1 /\ Len(s) \in Nat \ {0}
      /\ \A i \in 1 .. Len(w) : w[i] = s[i + 1]
      /\ Head(s) = s[1]
  BY HeadTailProperties, EmptySeq
<1> HIDE DEF w
<1>3. /\ b \in Seq(T) /\ Len(b) = Len(w)
      /\ \A i \in 1 .. Len(w) : b[i] = p[w[i]]
  <2>1. Len(w) \in Nat /\ \A i \in 1 .. Len(w) : p[w[i]] \in T
    BY <1>2, ElementOfSeq
  <2> QED
    BY <2>1 DEF Via
<1> HIDE DEF a, b
<1>4. a # <<>>
  BY <1>1, <1>2
<1> DEFINE c == Tail(a)
<1>5. /\ c \in Seq(T) /\ Len(c) = Len(a) - 1 /\ Head(a) = a[1]
      /\ \A i \in 1 .. Len(c) : c[i] = a[i + 1]
  BY <1>1, <1>4, HeadTailProperties
<1> HIDE DEF c
<1>6. c = b
  <2>1. Len(c) = Len(b) /\ Len(b) = Len(s) - 1
    BY <1>1, <1>2, <1>3, <1>5
  <2>2. ASSUME NEW i \in 1 .. Len(c) PROVE c[i] = b[i]
    BY <1>1, <1>2, <1>3, <1>5, <2>1
  <2> QED
    BY <1>3, <1>5, <2>1, <2>2, SeqEqual
<1>7. Head(a) = p[Head(s)]
  BY <1>1, <1>2, <1>5
<1> QED
  BY <1>4, <1>6, <1>7 DEF a, b, c, w

LEMMA ViaAppend ==
  ASSUME NEW S, NEW T, NEW p \in [S -> T], NEW s \in Seq(S), NEW e \in S
  PROVE  Via(Append(s, e), p) = Append(Via(s, p), p[e])
<1> DEFINE a == Via(s, p)
           w == Append(s, e)
           b == Via(w, p)
           x == p[e]
<1>1. /\ a \in Seq(T) /\ Len(a) = Len(s)
      /\ \A i \in 1 .. Len(s) : a[i] = p[s[i]]
  <2>1. Len(s) \in Nat /\ \A i \in 1 .. Len(s) : p[s[i]] \in T
    BY LenProperties, ElementOfSeq
  <2> QED
    BY <2>1 DEF Via
<1>2. /\ w \in Seq(S) /\ Len(w) = Len(s) + 1 /\ Len(s) \in Nat
      /\ \A i \in 1 .. Len(s) : w[i] = s[i]
      /\ w[Len(s) + 1] = e
  BY AppendProperties
<1>3. x \in T
  OBVIOUS
<1> HIDE DEF w
<1>4. /\ b \in Seq(T) /\ Len(b) = Len(w)
      /\ \A i \in 1 .. Len(w) : b[i] = p[w[i]]
  <2>1. Len(w) \in Nat /\ \A i \in 1 .. Len(w) : p[w[i]] \in T
    BY <1>2, ElementOfSeq
  <2> QED
    BY <2>1 DEF Via
<1> HIDE DEF a, b
<1> DEFINE c == Append(a, x)
<1>5. /\ c \in Seq(T) /\ Len(c) = Len(a) + 1
      /\ \A i \in 1 .. Len(a) : c[i] = a[i]
      /\ c[Len(a) + 1] = p[e]
  BY <1>1, <1>3, AppendProperties
<1> HIDE DEF c, x
<1>6. c = b
  <2>1. Len(c) = Len(b) /\ Len(b) = Len(s) + 1
    BY <1>1, <1>2, <1>4, <1>5
  <2>2. ASSUME NEW i \in 1 .. Len(c) PROVE c[i] = b[i]
    <3>1. CASE i = Len(s) + 1
      BY <1>1, <1>2, <1>4, <1>5, <2>1, <3>1
    <3>2. CASE i \in 1 .. Len(s)
      BY <1>1, <1>2, <1>4, <1>5, <2>1, <3>2
    <3> QED
      BY <1>2, <2>1, <3>1, <3>2
  <2> QED
    BY <1>4, <1>5, <2>1, <2>2, SeqEqual
<1> QED
  BY <1>6 DEF a, b, c, w, x

LEMMA ViaSame ==
  ASSUME NEW S, NEW s \in Seq(S), NEW p, NEW r, \A x \in ToSet(s) : p[x] = r[x]
  PROVE  Via(s, p) = Via(s, r)
<1>1. \A i \in 1 .. Len(s) : s[i] \in ToSet(s)
  BY ByPosition
<1> QED
  BY <1>1 DEF Via

LEMMA BeforeLast ==
  ASSUME NEW T, NEW s \in Seq(T), NEW e \in T
  PROVE  Front(Append(s, e)) = s /\ Last(Append(s, e)) = e
<1> DEFINE a == Append(s, e)
<1>1. /\ a \in Seq(T) /\ Len(a) = Len(s) + 1 /\ Len(s) \in Nat
      /\ \A i \in 1 .. Len(s) : a[i] = s[i]
      /\ a[Len(s) + 1] = e
  BY AppendProperties
<1> HIDE DEF a
<1> DEFINE b == SubSeq(a, 1, Len(s))
<1>2. \A i \in 1 .. Len(s) : a[i] \in T
  BY <1>1, ElementOfSeq
<1>3. /\ b \in Seq(T) /\ Len(b) = Len(s)
      /\ \A i \in 1 .. Len(s) : b[i] = a[i]
  BY <1>1, <1>2, SubSeqProperties
<1> HIDE DEF b
<1>4. b = s
  BY <1>1, <1>3, SeqEqual
<1>5. Front(a) = b /\ Last(a) = e
  BY <1>1 DEF Front, Last, b
<1> QED
  BY <1>4, <1>5 DEF a

\* The waiters of c in order, and who waits at all.
Line(c)   == IF queue = c THEN Append(waitq[c], runningrn) ELSE waitq[c]
InLine(p) == \E c \in Cvs : p \in ToSet(Line(c))
Tested    == [p \in Threads |-> <<p, cont[p]>>]

LinesAre == \A c \in Cvs :
    /\ waitq[c] \in Seq(Threads) /\ Line(c) \in Seq(Threads)
    /\ queue = c => runningrn \in Threads
    /\ WaitersOf(c) = Via(Line(c), Tested)
    /\ ToSet(Line(c)) = ToSet(waitq[c])
           \cup (IF queue = c THEN {runningrn} ELSE {})

EnteringAre == \A l \in Locks :
    EnteringOf(l) = {p \in Threads : cont[p] = l /\ ~InLine(p)}

OwnersAre == \A l \in Locks :
    IF lockState[l] = "LOCKED"
    THEN /\ OwnerOf(l) \in live /\ tid[OwnerOf(l)] = lockId[l] /\ lockId[l] \in Tids
         /\ \A p \in live : tid[p] = lockId[l] => p = OwnerOf(l)
    ELSE OwnerOf(l) = Nil

LEMMA LineFacts == IInv => LinesAre
<1> SUFFICES ASSUME IInv, NEW c \in Cvs
             PROVE  /\ waitq[c] \in Seq(Threads) /\ Line(c) \in Seq(Threads)
                    /\ queue = c => runningrn \in Threads
                    /\ WaitersOf(c) = Via(Line(c), Tested)
                    /\ ToSet(Line(c)) = ToSet(waitq[c])
                           \cup (IF queue = c THEN {runningrn} ELSE {})
  BY DEF LinesAre
<1>1. /\ waitq[c] \in Seq(Threads) /\ c # Nil
      /\ queue = c => runningrn \in Threads
  BY Names DEF IInv, TypeOK, Placement, CpuHolds, Locals, SleepLocals
<1>2. Line(c) \in Seq(Threads)
  BY <1>1, EnqueueFacts DEF Line
<1>3. WaitersOf(c) = Via(Line(c), Tested)
  <2>1. waitq[c] \o (IF queue = c THEN <<runningrn>> ELSE <<>>) = Line(c)
    <3>1. CASE queue = c
      BY <1>1, <3>1 DEF Line
    <3>2. CASE queue # c
      BY <1>1, <3>2, ConcatEmptySeq DEF Line
    <3> QED
      BY <3>1, <3>2
  <2>2. \A i \in 1 .. Len(Line(c)) : Line(c)[i] \in Threads
    BY <1>2, ElementOfSeq
  <2>3. WaitersOf(c) = [i \in 1 .. Len(Line(c)) |-> <<Line(c)[i], cont[Line(c)[i]]>>]
    BY <2>1 DEF WaitersOf
  <2>4. \A i \in 1 .. Len(Line(c)) :
           Tested[Line(c)[i]] = <<Line(c)[i], cont[Line(c)[i]]>>
    BY <2>2 DEF Tested
  <2> QED
    BY <2>3, <2>4 DEF Via
<1>4. ToSet(Line(c)) = ToSet(waitq[c]) \cup (IF queue = c THEN {runningrn} ELSE {})
  BY <1>1, EnqueueFacts DEF Line
<1> QED
  BY <1>1, <1>2, <1>3, <1>4

\* Whoever is in a line is on its way to a lock, and is not in its program.
LEMMA InLineFacts ==
  ASSUME MonitorInv, pc \notin Stopped, NEW p, InLine(p)
  PROVE  /\ p \in Threads /\ cont[p] \in Locks
         /\ queue = Nil => p # runningrn
<1>0. /\ IInv /\ TypeOK /\ SyncTypeOK /\ SleepersReacquire /\ GoingToSleep
      /\ pc \notin {"enter_sleep", "sleep"} => queue = Nil
  BY DEF MonitorInv, OwnerInv, SyncInv, SyncTypeOK, IInv, Locals, SleepLocals,
         TypeOK, Pcs, Stopped
<1>1. PICK c \in Cvs : p \in ToSet(Line(c))
  BY DEF InLine
<1>2. p \in ToSet(waitq[c]) \/ (queue = c /\ p = runningrn)
  BY <1>0, <1>1, LineFacts DEF LinesAre
<1>3. CASE p \in ToSet(waitq[c])
  BY <1>0, <1>3, Names, Where DEF SleepersReacquire, SyncTypeOK
<1>4. CASE queue = c /\ p = runningrn
  BY <1>0, <1>4, Names, Where DEF GoingToSleep, Stopped
<1> QED
  BY <1>2, <1>3, <1>4

LEMMA EnteringFacts == IInv => EnteringAre
<1> SUFFICES ASSUME IInv, NEW l \in Locks
             PROVE  EnteringOf(l) = {p \in Threads : cont[p] = l /\ ~InLine(p)}
  BY DEF EnteringAre
<1>1. ASSUME NEW c \in Cvs
      PROVE  \A p : (\E i \in 1 .. Len(WaitersOf(c)) : WaitersOf(c)[i][1] = p)
                        <=> p \in ToSet(Line(c))
  <2>1. Line(c) \in Seq(Threads) /\ WaitersOf(c) = Via(Line(c), Tested)
    BY <1>1, LineFacts DEF LinesAre
  <2>2. \A i \in 1 .. Len(Line(c)) : Line(c)[i] \in Threads
    BY <2>1, ElementOfSeq
  <2>3. /\ Len(WaitersOf(c)) = Len(Line(c))
        /\ \A i \in 1 .. Len(Line(c)) : WaitersOf(c)[i] = Tested[Line(c)[i]]
    BY <2>1, LenProperties DEF Via
  <2>4. ASSUME NEW i \in 1 .. Len(Line(c)) PROVE WaitersOf(c)[i][1] = Line(c)[i]
    <3> DEFINE x == Line(c)[i]
    <3>1. x \in Threads /\ WaitersOf(c)[i] = Tested[x]
      BY <2>2, <2>3
    <3> HIDE DEF x
    <3>2. Tested[x] = <<x, cont[x]>>
      BY <3>1 DEF Tested
    <3>3. WaitersOf(c)[i][1] = x
      BY <3>1, <3>2
    <3> QED
      BY <3>3 DEF x
  <2>5. \A p : p \in ToSet(Line(c)) <=> \E i \in 1 .. Len(Line(c)) : Line(c)[i] = p
    BY <2>1, ByPosition
  <2> QED
    BY <2>3, <2>4, <2>5
<1> QED
  BY <1>1 DEF EnteringOf, InLine

LEMMA OwnerFacts == OwnerInv => OwnersAre
<1> SUFFICES ASSUME OwnerInv, NEW l \in Locks
             PROVE  IF lockState[l] = "LOCKED"
                    THEN /\ OwnerOf(l) \in live /\ tid[OwnerOf(l)] = lockId[l]
                         /\ lockId[l] \in Tids
                         /\ \A p \in live : tid[p] = lockId[l] => p = OwnerOf(l)
                    ELSE OwnerOf(l) = Nil
  BY DEF OwnersAre
<1>1. CASE lockState[l] # "LOCKED"
  BY <1>1 DEF OwnerOf
<1>2. CASE lockState[l] = "LOCKED"
  <2>1. lockId[l] \in Tids /\ \E p \in live : tid[p] = lockId[l]
    BY <1>2 DEF OwnerInv, OwnerStays, OwnerAlive
  <2>2. OwnerOf(l) \in live /\ tid[OwnerOf(l)] = lockId[l]
    BY <1>2, <2>1 DEF OwnerOf
  <2>3. \A p \in live : tid[p] = lockId[l] => p = OwnerOf(l)
    BY <2>1, <2>2, Names DEF OwnerInv, Owned, Identifiers, UniqueIds
  <2> QED
    BY <1>2, <2>1, <2>2, <2>3
<1> QED
  BY <1>1, <1>2

\* The owner of a lock that nobody takes or releases, and nobody leaves.
LEMMA OwnerKept ==
  ASSUME OwnerInv, OwnerInv', NEW l \in Locks,
         lockState'[l] = lockState[l], lockId'[l] = lockId[l],
         lockState[l] = "LOCKED" =>
             OwnerOf(l) \in live' /\ tid'[OwnerOf(l)] = tid[OwnerOf(l)]
  PROVE  OwnerOf(l)' = OwnerOf(l)
<1>1. OwnersAre /\ OwnersAre'
  BY OwnerFacts, PTL
<1> QED
  BY <1>1 DEF OwnersAre

LEMMA LineMembers == IInv => \A c \in Cvs :
    {w[1] : w \in ToSet(WaitersOf(c))} = ToSet(Line(c))
<1> SUFFICES ASSUME IInv, NEW c \in Cvs
             PROVE  {w[1] : w \in ToSet(WaitersOf(c))} = ToSet(Line(c))
  OBVIOUS
<1> DEFINE s == Line(c)
<1>1. s \in Seq(Threads) /\ WaitersOf(c) = Via(s, Tested)
  BY LineFacts DEF LinesAre
<1> HIDE DEF s
<1>2. Len(s) \in Nat /\ DOMAIN s = 1 .. Len(s) /\ \A i \in 1 .. Len(s) : s[i] \in Threads
  BY <1>1, ElementOfSeq, LenProperties
<1>3. \A x \in Threads : Tested[x] = <<x, cont[x]>>
  BY DEF Tested
<1>4. \A x \in Threads : Tested[x][1] = x
  BY <1>3
<1>5. ToSet(WaitersOf(c)) = {Tested[s[i]] : i \in 1 .. Len(s)}
  BY <1>1, <1>2 DEF Via, ToSet
<1>6. ToSet(s) = {s[i] : i \in 1 .. Len(s)}
  BY <1>2 DEF ToSet
<1>7. {w[1] : w \in ToSet(WaitersOf(c))} = ToSet(s)
  BY <1>2, <1>4, <1>5, <1>6
<1> QED
  BY <1>7 DEF s

\* A thread in its program is free to call the monitor.
LEMMA Idle ==
  ASSUME MonitorInv, pc \notin Stopped, queue = Nil, cont[runningrn] = Nil
  PROVE  ~M!Engaged(runningrn)
<1>1. IInv /\ EnteringAre
  BY EnteringFacts DEF MonitorInv, OwnerInv, SyncInv
<1>2. \A l \in Locks : runningrn \notin EnteringOf(l)
  BY <1>1, Names DEF EnteringAre
<1>3. \A c \in Cvs : runningrn \notin {w[1] : w \in ToSet(WaitersOf(c))}
  BY <1>1, LineMembers, InLineFacts DEF InLine
<1> QED
  BY <1>2, <1>3 DEF M!Engaged, M!Waiters, M!ToSet, ToSet

\* Steps in which nobody enters or leaves a line.
LEMMA SameLines ==
  ASSUME IInv, IInv', \A c \in Cvs : Line(c)' = Line(c)
  PROVE  /\ \A p : InLine(p)' <=> InLine(p)
         /\ cont' = cont => /\ \A c \in Cvs : WaitersOf(c)' = WaitersOf(c)
                            /\ \A l \in Locks : EnteringOf(l)' = EnteringOf(l)
<1>1. LinesAre /\ LinesAre' /\ EnteringAre /\ EnteringAre'
  BY LineFacts, EnteringFacts, PTL
<1>2. \A p : InLine(p)' <=> InLine(p)
  BY DEF InLine
<1>3. ASSUME cont' = cont
      PROVE  /\ \A c \in Cvs : WaitersOf(c)' = WaitersOf(c)
             /\ \A l \in Locks : EnteringOf(l)' = EnteringOf(l)
  <2>1. Tested' = Tested
    BY <1>3 DEF Tested
  <2>2. \A c \in Cvs : WaitersOf(c)' = WaitersOf(c)
    BY <1>1, <2>1 DEF LinesAre
  <2>3. \A l \in Locks : EnteringOf(l)' = EnteringOf(l)
    BY <1>1, <1>2, <1>3 DEF EnteringAre
  <2> QED
    BY <2>2, <2>3
<1> QED
  BY <1>2, <1>3

LEMMA MonitorStutters ==
  ASSUME \A l \in Locks : OwnerOf(l)' = OwnerOf(l) /\ EnteringOf(l)' = EnteringOf(l),
         \A c \in Cvs : WaitersOf(c)' = WaitersOf(c)
  PROVE  UNCHANGED M!vars
  BY DEF M!vars

LEMMA IsAsk ==
  ASSUME NEW p \in Threads, NEW l \in Locks, ~M!Engaged(p),
         \A k \in Locks : OwnerOf(k)' = OwnerOf(k),
         \A k \in Locks : EnteringOf(k)' = IF k = l THEN EnteringOf(l) \cup {p}
                                           ELSE EnteringOf(k),
         \A c \in Cvs : WaitersOf(c)' = WaitersOf(c)
  PROVE  M!Next
<1>1. M!Ask(p, l)
  BY DEF M!Ask
<1> QED
  BY <1>1 DEF M!Next

LEMMA IsAcquire ==
  ASSUME NEW p \in Threads, NEW l \in Locks, p \in EnteringOf(l),
         OwnerOf(l) \in {Nil, p},
         \A k \in Locks : OwnerOf(k)' = IF k = l THEN p ELSE OwnerOf(k),
         \A k \in Locks : EnteringOf(k)' = IF k = l THEN EnteringOf(l) \ {p}
                                           ELSE EnteringOf(k),
         \A c \in Cvs : WaitersOf(c)' = WaitersOf(c)
  PROVE  M!Next
<1>1. M!Acquire(p, l)
  BY DEF M!Acquire
<1> QED
  BY <1>1 DEF M!Next

LEMMA IsRelease ==
  ASSUME NEW p \in Threads, NEW l \in Locks, ~M!Engaged(p), OwnerOf(l) = p,
         \A k \in Locks : OwnerOf(k)' = IF k = l THEN Nil ELSE OwnerOf(k),
         \A k \in Locks : EnteringOf(k)' = EnteringOf(k),
         \A c \in Cvs : WaitersOf(c)' = WaitersOf(c)
  PROVE  M!Next
<1>1. M!Release(p, l)
  BY DEF M!Release
<1> QED
  BY <1>1 DEF M!Next

LEMMA IsWait ==
  ASSUME NEW p \in Threads, NEW l \in Locks, NEW c \in Cvs,
         ~M!Engaged(p), OwnerOf(l) = p,
         \A k \in Locks : OwnerOf(k)' = IF k = l THEN Nil ELSE OwnerOf(k),
         \A k \in Locks : EnteringOf(k)' = EnteringOf(k),
         \A d \in Cvs : WaitersOf(d)' = IF d = c THEN Append(WaitersOf(c), <<p, l>>)
                                        ELSE WaitersOf(d)
  PROVE  M!Next
<1>1. M!Wait(p, c, l)
  BY DEF M!Wait
<1> QED
  BY <1>1 DEF M!Next

LEMMA IsSignal ==
  ASSUME NEW p \in Threads, NEW l \in Locks, NEW c \in Cvs, NEW h, NEW m \in Locks,
         ~M!Engaged(p), OwnerOf(l) = p,
         WaitersOf(c) # <<>>, Head(WaitersOf(c)) = <<h, m>>,
         \A k \in Locks : OwnerOf(k)' = OwnerOf(k),
         \A k \in Locks : EnteringOf(k)' = IF k = m THEN EnteringOf(m) \cup {h}
                                           ELSE EnteringOf(k),
         \A d \in Cvs : WaitersOf(d)' = IF d = c THEN Tail(WaitersOf(c))
                                        ELSE WaitersOf(d)
  PROVE  M!Next
<1> DEFINE w == Head(WaitersOf(c))
<1>1. w[1] = h /\ w[2] = m
  OBVIOUS
<1>2. [k \in Locks |-> EnteringOf(k)']
        = [[k \in Locks |-> EnteringOf(k)] EXCEPT ![w[2]] = @ \cup {w[1]}]
  <2> HIDE DEF w
  <2> QED
    BY <1>1
<1>3. M!Signal(p, c, l)
  BY <1>2 DEF M!Signal
<1> QED
  BY <1>3 DEF M!Next

LEMMA IsReturn ==
  ASSUME NEW c \in Cvs, NEW h, NEW m \in Locks,
         WaitersOf(c) # <<>>, Last(WaitersOf(c)) = <<h, m>>,
         \A k \in Locks : OwnerOf(k)' = OwnerOf(k),
         \A k \in Locks : EnteringOf(k)' = IF k = m THEN EnteringOf(m) \cup {h}
                                           ELSE EnteringOf(k),
         \A d \in Cvs : WaitersOf(d)' = IF d = c THEN Front(WaitersOf(c))
                                        ELSE WaitersOf(d)
  PROVE  M!Next
<1> DEFINE w == Last(WaitersOf(c))
<1>1. w[1] = h /\ w[2] = m
  OBVIOUS
<1>2. [k \in Locks |-> EnteringOf(k)']
        = [[k \in Locks |-> EnteringOf(k)] EXCEPT ![w[2]] = @ \cup {w[1]}]
  <2> HIDE DEF w
  <2> QED
    BY <1>1
<1>3. M!Return(c)
  BY <1>2 DEF M!Return, M!Front, M!Last, Front, Last
<1> QED
  BY <1>3 DEF M!Next

\* Who leaves a line goes on to the lock.
LEMMA EnteringGains ==
  ASSUME EnteringAre, EnteringAre', cont' = cont,
         NEW h \in Threads, NEW m \in Locks, cont[h] = m, InLine(h),
         \A x : InLine(x)' <=> InLine(x) /\ x # h
  PROVE  \A k \in Locks : EnteringOf(k)' = IF k = m THEN EnteringOf(m) \cup {h}
                                            ELSE EnteringOf(k)
<1> SUFFICES ASSUME NEW k \in Locks
             PROVE  EnteringOf(k)' = IF k = m THEN EnteringOf(m) \cup {h}
                                     ELSE EnteringOf(k)
  OBVIOUS
<1>1. EnteringOf(k) = {x \in Threads : cont[x] = k /\ ~InLine(x)}
  BY DEF EnteringAre
<1>2. EnteringOf(k)' = {x \in Threads : cont[x] = k /\ ~InLine(x)'}
  BY DEF EnteringAre
<1>3. \A x : x \in EnteringOf(k)' <=> x \in EnteringOf(k) \/ (x = h /\ k = m)
  BY <1>1, <1>2
<1> QED
  BY <1>3

\* Waking the first waiter of c.
LEMMA SignalEffect ==
  ASSUME MonitorInv, MonitorInv', NEW c \in Cvs, waitq[c] # <<>>,
         waitq' = [waitq EXCEPT ![c] = Tail(@)],
         queue = Nil, queue' = Nil, cont' = cont, pc \notin Stopped,
         NEW p \in Threads, NEW l \in Locks, ~M!Engaged(p), OwnerOf(l) = p,
         \A k \in Locks : OwnerOf(k)' = OwnerOf(k)
  PROVE  M!Next
<1> DEFINE s == waitq[c]
           h == Head(s)
           m == cont[h]
<1>0. /\ IInv /\ IInv' /\ LinesAre /\ LinesAre' /\ EnteringAre /\ EnteringAre'
      /\ SyncTypeOK /\ TypeOK
  <2>1. IInv /\ IInv' /\ SyncTypeOK
    BY DEF MonitorInv, OwnerInv, SyncInv
  <2>2. LinesAre /\ LinesAre' /\ EnteringAre /\ EnteringAre'
    BY <2>1, LineFacts, EnteringFacts, PTL
  <2> QED
    BY <2>1, <2>2 DEF SyncTypeOK
<1>1. /\ s \in Seq(Threads) /\ s # <<>> /\ IsInjective(s) /\ c \in WaitQueues
      /\ \A d \in Cvs : d # Nil /\ d \in WaitQueues
  BY <1>0, Names, Before DEF LinesAre, PlaceList, OneEntry
<1>2. /\ h \in Threads /\ h \in ToSet(s) /\ Tail(s) \in Seq(Threads)
      /\ ToSet(Tail(s)) = ToSet(s) \ {h}
  BY <1>1, PopFacts
<1>3. \A d \in Cvs : waitq'[d] = IF d = c THEN Tail(s) ELSE waitq[d]
  BY <1>0, <1>1 DEF TypeOK
<1>4. \A d \in Cvs : Line(d) = waitq[d] /\ Line(d)' = waitq'[d]
  BY <1>1 DEF Line
<1>5. \A d \in Cvs : d # c => h \notin ToSet(waitq[d])
  BY <1>0, <1>1, <1>2, Before DEF PlaceList, QueuesApart
<1>6. InLine(h) /\ h \in Threads /\ m \in Locks
  <2>1. InLine(h)
    BY <1>2, <1>4 DEF InLine
  <2> QED
    BY <2>1, InLineFacts
<1>7. \A x : InLine(x)' <=> InLine(x) /\ x # h
  BY <1>2, <1>3, <1>4, <1>5 DEF InLine
<1>8. \A k \in Locks : EnteringOf(k)' = IF k = m THEN EnteringOf(m) \cup {h}
                                        ELSE EnteringOf(k)
  <2>1. cont[h] = m
    BY DEF m
  <2> HIDE DEF m, h
  <2> QED
    BY <1>0, <1>6, <1>7, <2>1, EnteringGains
<1>9. /\ WaitersOf(c) # <<>> /\ Head(WaitersOf(c)) = <<h, m>>
      /\ \A d \in Cvs : WaitersOf(d)' = IF d = c THEN Tail(WaitersOf(c))
                                        ELSE WaitersOf(d)
  <2>1. /\ Tested \in [Threads -> {Tested[x] : x \in Threads}]
        /\ Tested[h] = <<h, m>> /\ Tested' = Tested
    BY <1>2 DEF Tested
  <2>2. /\ WaitersOf(c) = Via(s, Tested)
        /\ \A d \in Cvs : WaitersOf(d) = Via(waitq[d], Tested)
        /\ \A d \in Cvs : WaitersOf(d)' = Via(waitq'[d], Tested)
    BY <1>0, <1>4, <2>1 DEF LinesAre
  <2> HIDE DEF s, h, m
  <2> DEFINE T == {Tested[x] : x \in Threads}
  <2>3. Tested \in [Threads -> T]
    BY <2>1
  <2> HIDE DEF T
  <2>4. /\ Via(s, Tested) # <<>>
        /\ Head(Via(s, Tested)) = Tested[Head(s)]
        /\ Tail(Via(s, Tested)) = Via(Tail(s), Tested)
    BY <1>1, <2>3, ViaTail
  <2> QED
    BY <1>3, <2>1, <2>2, <2>4 DEF h
<1> HIDE DEF m, h
<1> QED
  BY <1>6, <1>8, <1>9, IsSignal

\* The thread on its way into the line of c turns back.
LEMMA ReturnEffect ==
  ASSUME MonitorInv, MonitorInv', NEW c \in Cvs, waitq' = waitq,
         queue = c, queue' = Nil, cont' = cont, pc \notin Stopped,
         \A k \in Locks : OwnerOf(k)' = OwnerOf(k)
  PROVE  M!Next
<1> DEFINE s == waitq[c]
           h == runningrn
           m == cont[h]
<1>0. /\ IInv /\ IInv' /\ LinesAre /\ LinesAre' /\ EnteringAre /\ EnteringAre'
      /\ SyncTypeOK /\ TypeOK
  <2>1. IInv /\ IInv' /\ SyncTypeOK
    BY DEF MonitorInv, OwnerInv, SyncInv
  <2>2. LinesAre /\ LinesAre' /\ EnteringAre /\ EnteringAre'
    BY <2>1, LineFacts, EnteringFacts, PTL
  <2> QED
    BY <2>1, <2>2 DEF SyncTypeOK
<1>1. /\ s \in Seq(Threads) /\ h \in Threads
      /\ \A d \in Cvs : d # Nil /\ d \in WaitQueues
  BY <1>0, Names DEF LinesAre
<1>2. /\ Line(c) = Append(s, h)
      /\ \A d \in Cvs : d # c => Line(d) = waitq[d]
      /\ \A d \in Cvs : Line(d)' = waitq[d]
  BY <1>1 DEF Line
<1>3. \A d \in Cvs : h \notin ToSet(waitq[d])
  BY <1>0, <1>1, Where
<1>4. ToSet(Line(c)) = ToSet(s) \cup {h}
  BY <1>1, <1>2, EnqueueFacts
<1>5. InLine(h) /\ m \in Locks
  <2>1. InLine(h)
    BY <1>4 DEF InLine
  <2> QED
    BY <2>1, InLineFacts
<1>6. \A x : InLine(x)' <=> InLine(x) /\ x # h
  <2> HIDE DEF h
  <2>1. /\ \A d \in Cvs : ToSet(Line(d)) =
              ToSet(waitq[d]) \cup (IF d = c THEN {h} ELSE {})
        /\ \A d \in Cvs : ToSet(Line(d)') = ToSet(waitq[d])
    BY <1>2, <1>4
  <2> QED
    BY <1>3, <2>1 DEF InLine
<1>7. \A k \in Locks : EnteringOf(k)' = IF k = m THEN EnteringOf(m) \cup {h}
                                        ELSE EnteringOf(k)
  <2>1. cont[h] = m
    BY DEF m
  <2> HIDE DEF m, h
  <2> QED
    BY <1>0, <1>1, <1>5, <1>6, <2>1, EnteringGains
<1>8. /\ WaitersOf(c) # <<>> /\ Last(WaitersOf(c)) = <<h, m>>
      /\ \A d \in Cvs : WaitersOf(d)' = IF d = c THEN Front(WaitersOf(c))
                                        ELSE WaitersOf(d)
  <2>1. /\ Tested \in [Threads -> {Tested[x] : x \in Threads}]
        /\ Tested[h] = <<h, m>> /\ Tested' = Tested
    BY <1>1 DEF Tested
  <2>2. /\ WaitersOf(c) = Via(Append(s, h), Tested)
        /\ \A d \in Cvs : d # c => WaitersOf(d) = Via(waitq[d], Tested)
        /\ \A d \in Cvs : WaitersOf(d)' = Via(waitq[d], Tested)
    BY <1>0, <1>2, <2>1 DEF LinesAre
  <2> HIDE DEF s, h, m
  <2> DEFINE T == {Tested[x] : x \in Threads}
             v == Via(s, Tested)
             e == Tested[h]
  <2>3. Tested \in [Threads -> T] /\ e \in T
    BY <1>1, <2>1
  <2> HIDE DEF T
  <2>4. Via(Append(s, h), Tested) = Append(v, e)
    <3>1. s \in Seq(Threads) /\ h \in Threads
      BY <1>1
    <3> DEFINE f == Tested
    <3>2. f \in [Threads -> T]
      BY <2>3
    <3> HIDE DEF f
    <3>3. Via(Append(s, h), f) = Append(Via(s, f), f[h])
      BY <3>1, <3>2, ViaAppend
    <3> QED
      BY <3>3 DEF f
  <2>5. v \in Seq(T)
    <3>1. Len(s) \in Nat /\ \A i \in 1 .. Len(s) : Tested[s[i]] \in T
      BY <1>1, <2>3, LenProperties, ElementOfSeq
    <3> QED
      BY <3>1 DEF Via
  <2> HIDE DEF v, e
  <2>6. Front(Append(v, e)) = v /\ Last(Append(v, e)) = e /\ Append(v, e) # <<>>
    BY <2>3, <2>5, BeforeLast, EnqueueFacts
  <2> QED
    BY <2>1, <2>2, <2>4, <2>6 DEF v, e, s
<1> HIDE DEF m, h
<1> QED
  BY <1>5, <1>7, <1>8, IsReturn

LEMMA SchedMonitor ==
  ASSUME NoKill, MonitorInv, MonitorInv',
         \/ AtCall /\ SchedStep(SchedCall)
         \/ SchedStep(KernelStep)
  PROVE  [M!Next]_M!vars
<1>0. /\ IInv /\ IInv' /\ TypeOK /\ TypeOK' /\ Owned /\ OwnerInv /\ OwnerInv'
      /\ OwnerStays /\ ContAlive /\ OwnersAre
      /\ UNCHANGED <<lockState, lockId, cont>> /\ ~Reap /\ Next
  <2>1. /\ IInv /\ IInv' /\ Owned /\ OwnerInv /\ OwnerInv' /\ OwnerStays /\ ContAlive
    BY DEF MonitorInv, OwnerInv, SyncInv
  <2>2. UNCHANGED <<lockState, lockId, cont>> /\ ~Reap /\ Next
    BY SchedCont, SchedCallIsCall DEF SchedStep
  <2> QED
    BY <2>1, <2>2, OwnerFacts DEF IInv
<1>1. \A l \in Locks : OwnerOf(l)' = OwnerOf(l)
  <2> SUFFICES ASSUME NEW l \in Locks PROVE OwnerOf(l)' = OwnerOf(l)
    OBVIOUS
  <2>1. ASSUME lockState[l] = "LOCKED"
        PROVE  OwnerOf(l) \in live' /\ tid'[OwnerOf(l)] = tid[OwnerOf(l)]
    <3>1. /\ OwnerOf(l) \in live /\ tid[OwnerOf(l)] = lockId[l] /\ lockId[l] \in Tids
      BY <1>0, <2>1 DEF OwnersAre
    <3>2. ~(pc = "exiting" /\ OwnerOf(l) = runningrn)
      BY <1>0, <2>1, <3>1 DEF OwnerStays, Holds
    <3> QED
      BY <1>0, <3>1, <3>2, KeepsId
  <2> QED
    BY <1>0, <2>1, OwnerKept
<1>2. CASE SleepNone /\ queue \in Cvs
  BY <1>0, <1>1, <1>2, ReturnEffect DEF SleepNone, Stopped
<1>3. CASE WakeNext /\ waking \in Cvs
  <2>1. /\ pc = "user" /\ cont[runningrn] = Nil /\ \E l \in Locks : Holds(l)
        /\ queue = Nil
    BY <1>0, <1>3 DEF ContAlive, IInv, Locals, SleepLocals
  <2>2. PICK l \in Locks : Holds(l)
    BY <2>1
  <2>3. runningrn \in live /\ runningrn \in Threads
    BY <1>0, <2>1, Where DEF Stopped
  <2>4. OwnerOf(l) = runningrn
    BY <1>0, <2>2, <2>3 DEF OwnersAre, Holds
  <2>5. ~M!Engaged(runningrn)
    BY <2>1, Idle DEF Stopped
  <2>6. /\ waitq' = [waitq EXCEPT ![waking] = Tail(@)] /\ waitq[waking] # <<>>
        /\ queue' = queue
    BY <1>3 DEF WakeNext, WakeHead
  <2> QED
    BY <1>0, <1>1, <1>3, <2>1, <2>3, <2>4, <2>5, <2>6, SignalEffect DEF Stopped
<1>4. CASE ~(SleepNone /\ queue \in Cvs) /\ ~(WakeNext /\ waking \in Cvs)
  <2>1. ASSUME NEW c \in Cvs PROVE Line(c)' = Line(c)
    <3>1. CASE SwitchSleep /\ queue = c
      <4>1. /\ waitq' = [waitq EXCEPT ![c] = Append(@, runningrn)] /\ queue' = Nil
            /\ c \in WaitQueues /\ c # Nil
        BY <3>1, Names DEF SwitchSleep, JoinQueue
      <4> QED
        BY <1>0, <3>1, <4>1 DEF Line, TypeOK
    <3>2. CASE ~(SwitchSleep /\ queue = c)
      <4>1. /\ waitq'[c] = waitq[c]
            /\ queue' = c => queue = c /\ runningrn' = runningrn
        BY <1>0, <1>4, <3>2, SchedQueues
      <4>2. ASSUME queue = c PROVE queue' = c /\ runningrn' = runningrn
        <5>1. pc \notin {"user", "yield", "exiting", "exit"}
          BY <1>0, <4>2, Names DEF IInv, Locals, SleepLocals
        <5>2. KernelStep
          BY <5>1 DEF AtCall, InUser, SchedStep
        <5> QED
          <6>1. ~ExitLeave /\ ~SwitchYield /\ ~SwitchExit
            BY <5>1 DEF ExitLeave, SwitchYield, SwitchExit
          <6>2. ~SleepNone /\ ~SwitchSleep
            BY <1>4, <3>2, <4>2
          <6>3. WakeNext \/ SleepPop \/ StaleThread \/ StaleSleep
            BY <1>0, <5>2, <6>1, <6>2 DEF KernelStep
          <6> QED
            BY <4>2, <6>3 DEF WakeNext, WakeHead, SleepPop, StaleThread, StaleSleep
      <4> QED
        BY <4>1, <4>2 DEF Line
    <3> QED
      BY <3>1, <3>2
  <2> QED
    BY <1>0, <1>1, <2>1, SameLines, MonitorStutters
<1> QED
  BY <1>2, <1>3, <1>4

\* What a call leaves alone, seen from the monitor.
LEMMA CallFacts ==
  ASSUME MonitorInv, MonitorInv', SyncCall \/ AcquireStep
  PROVE  /\ IInv /\ IInv' /\ SyncTypeOK /\ OwnersAre /\ OwnersAre'
         /\ EnteringAre /\ EnteringAre' /\ LinesAre /\ LinesAre'
         /\ pc = "user" /\ queue = Nil
         /\ runningrn \in Threads /\ runningrn \in live /\ ~InLine(runningrn)
         /\ \A l \in Locks :
               lockState'[l] = lockState[l] /\ lockId'[l] = lockId[l]
                   => OwnerOf(l)' = OwnerOf(l)
         /\ \A l \in Locks : Holds(l) => OwnerOf(l) = runningrn
         /\ \A l \in Locks : lockState'[l] # "LOCKED" => OwnerOf(l)' = Nil
         /\ cont[runningrn] = Nil => ~M!Engaged(runningrn)
<1>1. /\ IInv /\ IInv' /\ SyncTypeOK /\ OwnerInv /\ OwnerInv'
      /\ InUser /\ runningrn \in Threads /\ runningrn \in live
      /\ UNCHANGED <<live, tid, runningrn>>
  BY CallsOwned DEF MonitorInv, OwnerInv, SyncInv
<1>2. /\ OwnersAre /\ OwnersAre' /\ EnteringAre /\ EnteringAre'
      /\ LinesAre /\ LinesAre'
  BY <1>1, OwnerFacts, EnteringFacts, LineFacts, PTL
<1>3. pc = "user" /\ queue = Nil
  BY <1>1 DEF InUser, IInv, Locals, SleepLocals
<1>4. ~InLine(runningrn)
  BY <1>3, InLineFacts DEF Stopped
<1>5. \A l \in Locks : lockState'[l] = lockState[l] /\ lockId'[l] = lockId[l]
                           => OwnerOf(l)' = OwnerOf(l)
  BY <1>1, <1>2, OwnerKept DEF OwnersAre
<1>6. \A l \in Locks : Holds(l) => OwnerOf(l) = runningrn
  BY <1>1, <1>2 DEF OwnersAre, Holds
<1>7. \A l \in Locks : lockState'[l] # "LOCKED" => OwnerOf(l)' = Nil
  BY <1>2 DEF OwnersAre
<1>8. cont[runningrn] = Nil => ~M!Engaged(runningrn)
  BY <1>3, Idle DEF Stopped
<1> QED
  BY <1>1, <1>2, <1>3, <1>4, <1>5, <1>6, <1>7, <1>8

\* cv_wait puts its caller at the end of the line.
LEMMA WaitEffect ==
  ASSUME MonitorInv, MonitorInv', NEW c \in Cvs, NEW l \in Locks, CvWait(c, l)
  PROVE  M!Next
<1> DEFINE h == runningrn
<1>0. /\ CvWait(c, l) /\ Holds(l) /\ cont[h] = Nil /\ SyncCall
      /\ cont' = [cont EXCEPT ![h] = l] /\ runningrn' = h
      /\ waitq' = waitq /\ queue' = c
      /\ lockState' = [lockState EXCEPT ![l] = "UNLOCKED"]
      /\ lockId' = [lockId EXCEPT ![l] = NoTid]
  BY DEF CvWait, AtCall, Unlock, SchedUnchanged, SyncCall
<1>1. /\ IInv /\ IInv' /\ SyncTypeOK
      /\ EnteringAre /\ EnteringAre' /\ LinesAre /\ LinesAre' /\ queue = Nil
      /\ h \in Threads /\ ~InLine(h) /\ ~M!Engaged(h) /\ OwnerOf(l) = h
  BY <1>0, CallFacts
<1>2. \A k \in Locks : OwnerOf(k)' = IF k = l THEN Nil ELSE OwnerOf(k)
  BY <1>0, <1>1, CallFacts DEF SyncTypeOK
<1>3. /\ waitq[c] \in Seq(Threads) /\ \A d \in Cvs : d # Nil
      /\ \A d \in Cvs : waitq[d] \in Seq(Threads)
  BY <1>1, Names DEF LinesAre
<1>4. /\ \A d \in Cvs : Line(d) = waitq[d]
      /\ \A d \in Cvs : Line(d)' = IF d = c THEN Append(waitq[c], h) ELSE waitq[d]
  BY <1>0, <1>1, <1>3 DEF Line
<1>5. \A d \in Cvs : h \notin ToSet(waitq[d])
  BY <1>1, <1>4 DEF InLine
<1>6. \A x : InLine(x)' <=> InLine(x) \/ x = h
  <2>1. ToSet(Append(waitq[c], h)) = ToSet(waitq[c]) \cup {h}
    BY <1>1, <1>3, EnqueueFacts
  <2>2. \A d \in Cvs : ToSet(Line(d)') = ToSet(Line(d)) \cup (IF d = c THEN {h} ELSE {})
    BY <1>4, <2>1
  <2> QED
    BY <2>2 DEF InLine
<1>7. \A x \in Threads \ {h} : cont'[x] = cont[x]
  BY <1>0, <1>1 DEF SyncTypeOK
<1>8. \A k \in Locks : EnteringOf(k)' = EnteringOf(k)
  <2> SUFFICES ASSUME NEW k \in Locks PROVE EnteringOf(k)' = EnteringOf(k)
    OBVIOUS
  <2>1. EnteringOf(k)' = {x \in Threads : cont'[x] = k /\ ~InLine(x)'}
    BY <1>1 DEF EnteringAre
  <2>2. EnteringOf(k) = {x \in Threads : cont[x] = k /\ ~InLine(x)}
    BY <1>1 DEF EnteringAre
  <2>3. cont[h] # k
    BY <1>0, Names
  <2>4. \A x : x \in EnteringOf(k)' <=> x \in EnteringOf(k)
    BY <1>6, <1>7, <2>1, <2>2, <2>3
  <2> QED
    BY <2>4
<1>9. \A d \in Cvs : WaitersOf(d)' = IF d = c THEN Append(WaitersOf(c), <<h, l>>)
                                     ELSE WaitersOf(d)
  <2>0. \A d \in Cvs : /\ WaitersOf(d) = Via(Line(d), Tested)
                       /\ WaitersOf(d)' = Via(Line(d)', Tested')
    BY <1>1 DEF LinesAre
  <2>1. /\ \A x \in Threads : Tested[x] = <<x, cont[x]>>
        /\ \A x \in Threads : Tested'[x] = <<x, cont'[x]>>
        /\ Tested' \in [Threads -> {Tested'[x] : x \in Threads}]
    BY DEF Tested
  <2>2. cont'[h] = l
    BY <1>0, <1>1 DEF SyncTypeOK
  <2>3. ASSUME NEW d \in Cvs PROVE Via(waitq[d], Tested') = Via(waitq[d], Tested)
    <3>1. waitq[d] \in Seq(Threads)
      BY <1>3
    <3>2. \A x \in ToSet(waitq[d]) : x \in Threads /\ x # h
      BY <1>5, <3>1, ByPosition
    <3>3. \A x \in ToSet(waitq[d]) : Tested'[x] = Tested[x]
      BY <1>7, <2>1, <3>2
    <3> DEFINE s == waitq[d]
               f == Tested
               g == Tested'
    <3> HIDE DEF s, f, g
    <3>4. s \in Seq(Threads) /\ \A x \in ToSet(s) : g[x] = f[x]
      BY <3>1, <3>3 DEF s, f, g
    <3>5. Via(s, g) = Via(s, f)
      BY <3>4, ViaSame
    <3> QED
      BY <3>5 DEF s, f, g
  <2>4. Via(Append(waitq[c], h), Tested') = Append(Via(waitq[c], Tested'), <<h, l>>)
    <3> DEFINE s == waitq[c]
               g == Tested'
               T == {Tested'[x] : x \in Threads}
    <3>1. s \in Seq(Threads) /\ h \in Threads
      BY <1>1, <1>3
    <3>2. g \in [Threads -> T] /\ g[h] = <<h, l>>
      BY <1>1, <2>1, <2>2
    <3> HIDE DEF s, g, T, h
    <3>3. Via(Append(s, h), g) = Append(Via(s, g), g[h])
      BY <3>1, <3>2, ViaAppend
    <3> QED
      BY <3>2, <3>3 DEF s, g
  <2> QED
    BY <1>4, <2>0, <2>3, <2>4
<1> QED
  BY <1>1, <1>2, <1>8, <1>9, IsWait

LEMMA CallsMonitor ==
  ASSUME MonitorInv, MonitorInv', SyncCall \/ AcquireStep
  PROVE  [M!Next]_M!vars
<1> DEFINE me == runningrn
           Goal == [M!Next]_M!vars
<1>0. /\ IInv /\ IInv' /\ SyncTypeOK
      /\ EnteringAre /\ EnteringAre' /\ pc = "user" /\ queue = Nil
      /\ me \in Threads /\ ~InLine(me)
      /\ \A c \in Cvs : Line(c) = waitq[c] /\ c # Nil
  BY CallFacts, Names DEF Line
<1>1. ASSUME waitq' = waitq, \A c \in Cvs : queue' # c
      PROVE  /\ \A p : InLine(p)' <=> InLine(p)
             /\ cont' = cont => /\ \A c \in Cvs : WaitersOf(c)' = WaitersOf(c)
                                /\ \A l \in Locks : EnteringOf(l)' = EnteringOf(l)
             /\ (\A p \in Threads : InLine(p) => cont'[p] = cont[p]) =>
                    \A c \in Cvs : WaitersOf(c)' = WaitersOf(c)
  <2>1. \A c \in Cvs : Line(c)' = Line(c)
    BY <1>0, <1>1 DEF Line
  <2>2. ASSUME \A p \in Threads : InLine(p) => cont'[p] = cont[p], NEW c \in Cvs
        PROVE  WaitersOf(c)' = WaitersOf(c)
    <3> DEFINE s == Line(c)
               f == Tested
               g == Tested'
    <3>1. /\ s \in Seq(Threads) /\ WaitersOf(c) = Via(s, f)
          /\ WaitersOf(c)' = Via(s, g)
      <4>1. LinesAre /\ LinesAre'
        BY <1>0, LineFacts, PTL
      <4> QED
        BY <2>1, <4>1 DEF LinesAre
    <3>2. \A x \in ToSet(s) : x \in Threads /\ InLine(x)
      BY <3>1, ByPosition DEF InLine
    <3>3. \A x \in ToSet(s) : g[x] = f[x]
      BY <2>2, <3>2 DEF Tested
    <3> HIDE DEF s, f, g
    <3>4. Via(s, f) = Via(s, g)
      BY <3>1, <3>3, ViaSame
    <3> QED
      BY <3>1, <3>4
  <2> QED
    BY <1>0, <2>1, <2>2, SameLines
<1>2. ASSUME waitq' = waitq, \A c \in Cvs : queue' # c, cont' = cont,
             UNCHANGED <<lockState, lockId>>
      PROVE  Goal
  BY <1>1, <1>2, CallFacts, MonitorStutters
<1>3. ASSUME NEW l \in Locks, LockCreate(l) \/ LockDestroy(l) PROVE Goal
  <2>1. /\ UNCHANGED <<waitq, queue, cont, lockId>>
        /\ lockState[l] # "LOCKED" /\ lockState'[l] # "LOCKED"
        /\ \A k \in Locks \ {l} : lockState'[k] = lockState[k]
    BY <1>0, <1>3 DEF LockCreate, LockDestroy, SchedUnchanged, SyncTypeOK
  <2>2. OwnerOf(l) = Nil /\ OwnerOf(l)' = Nil
    BY <2>1, CallFacts DEF OwnersAre
  <2>3. \A k \in Locks : OwnerOf(k)' = OwnerOf(k)
    BY <2>1, <2>2, CallFacts
  <2> QED
    BY <1>0, <1>1, <2>1, <2>3, MonitorStutters
<1>4. ASSUME NEW l \in Locks, Acquire(l) PROVE Goal
  <2>1. /\ UNCHANGED <<waitq, queue, lockState, lockId>> /\ cont[me] = Nil
        /\ cont' = [cont EXCEPT ![me] = l]
    BY <1>4 DEF Acquire, AtCall, vars
  <2>2. cont'[me] = l /\ \A p \in Threads \ {me} : cont'[p] = cont[p]
    BY <1>0, <2>1 DEF SyncTypeOK
  <2>3. \A c \in Cvs : WaitersOf(c)' = WaitersOf(c)
    BY <1>0, <1>1, <2>1, <2>2
  <2>4. \A k \in Locks : EnteringOf(k)' = IF k = l THEN EnteringOf(l) \cup {me}
                                          ELSE EnteringOf(k)
    <3> SUFFICES ASSUME NEW k \in Locks
                 PROVE  EnteringOf(k)' = IF k = l THEN EnteringOf(l) \cup {me}
                                         ELSE EnteringOf(k)
      OBVIOUS
    <3>1. /\ EnteringOf(k)' = {x \in Threads : cont'[x] = k /\ ~InLine(x)'}
          /\ EnteringOf(k) = {x \in Threads : cont[x] = k /\ ~InLine(x)}
          /\ \A x : InLine(x)' <=> InLine(x)
      BY <1>0, <1>1, <2>1 DEF EnteringAre
    <3>2. \A x : x \in EnteringOf(k)' <=> x \in EnteringOf(k) \/ (x = me /\ k = l)
      BY <1>0, <2>1, <2>2, <3>1, Names
    <3> QED
      BY <3>2
  <2>5. ~M!Engaged(me) /\ \A k \in Locks : OwnerOf(k)' = OwnerOf(k)
    BY <2>1, CallFacts
  <2> QED
    BY <1>0, <2>3, <2>4, <2>5, IsAsk
<1>5. ASSUME NEW l \in Locks, AcquireTake(l) PROVE Goal
  <2>1. /\ UNCHANGED <<waitq, queue, live, tid, runningrn>> /\ cont[me] = l
        /\ lockState[l] = "UNLOCKED" \/ Holds(l)
        /\ cont' = [cont EXCEPT ![me] = Nil]
        /\ lockState'[l] = "LOCKED" /\ lockId'[l] = tid[me]
        /\ \A k \in Locks \ {l} : lockState'[k] = lockState[k] /\ lockId'[k] = lockId[k]
    BY <1>0, <1>5 DEF AcquireTake, Testing, vars, SyncTypeOK
  <2>2. cont'[me] = Nil /\ \A p \in Threads \ {me} : cont'[p] = cont[p]
    BY <1>0, <2>1 DEF SyncTypeOK
  <2>3. \A c \in Cvs : WaitersOf(c)' = WaitersOf(c)
    BY <1>0, <1>1, <2>1, <2>2
  <2>4. \A k \in Locks : EnteringOf(k)' = IF k = l THEN EnteringOf(l) \ {me}
                                          ELSE EnteringOf(k)
    <3> SUFFICES ASSUME NEW k \in Locks
                 PROVE  EnteringOf(k)' = IF k = l THEN EnteringOf(l) \ {me}
                                         ELSE EnteringOf(k)
      OBVIOUS
    <3>1. /\ EnteringOf(k)' = {x \in Threads : cont'[x] = k /\ ~InLine(x)'}
          /\ EnteringOf(k) = {x \in Threads : cont[x] = k /\ ~InLine(x)}
          /\ \A x : InLine(x)' <=> InLine(x)
      BY <1>0, <1>1, <2>1 DEF EnteringAre
    <3>2. \A x : x \in EnteringOf(k)' <=> x \in EnteringOf(k) /\ ~(x = me /\ k = l)
      BY <1>0, <2>1, <2>2, <3>1, Names
    <3> QED
      BY <3>2
  <2>5. OwnerOf(l) \in {Nil, me}
    BY <2>1, CallFacts DEF OwnersAre
  <2>6. \A k \in Locks : OwnerOf(k)' = IF k = l THEN me ELSE OwnerOf(k)
    <3>1. OwnersAre' /\ me \in live
      BY CallFacts
    <3>2. OwnerOf(l)' = me
      BY <2>1, <3>1 DEF OwnersAre
    <3> QED
      BY <2>1, <3>2, CallFacts
  <2>7. me \in EnteringOf(l)
    BY <1>0, <2>1 DEF EnteringAre
  <2> QED
    BY <1>0, <2>3, <2>4, <2>5, <2>6, <2>7, IsAcquire
<1>6. ASSUME NEW l \in Locks, AcquireSleep(l) \/ AcquireStale(l) PROVE Goal
  <2>1. /\ UNCHANGED <<waitq, cont, lockState, lockId>> /\ queue' \in {l, queue}
    BY <1>6 DEF AcquireSleep, AcquireStale, SchedUnchanged, syncVars
  <2> QED
    BY <1>0, <1>2, <2>1, Names
<1>7. ASSUME NEW l \in Locks, Release(l) PROVE Goal
  <2>1. /\ UNCHANGED <<waitq, queue, cont>> /\ Holds(l) /\ cont[me] = Nil
        /\ lockState'[l] # "LOCKED"
        /\ \A k \in Locks \ {l} : lockState'[k] = lockState[k] /\ lockId'[k] = lockId[k]
    BY <1>0, <1>7 DEF Release, Unlock, AtCall, SchedUnchanged, SyncTypeOK
  <2>2. OwnerOf(l) = me /\ ~M!Engaged(me)
    BY <2>1, CallFacts
  <2>3. \A k \in Locks : OwnerOf(k)' = IF k = l THEN Nil ELSE OwnerOf(k)
    BY <2>1, CallFacts
  <2> QED
    BY <1>0, <1>1, <2>1, <2>2, <2>3, IsRelease
<1>8. ASSUME NEW c \in Cvs, CvCreate(c) \/ CvDestroy(c) PROVE Goal
  <2>1. UNCHANGED <<waitq, queue, cont, lockState, lockId>>
    BY <1>8 DEF CvCreate, CvDestroy, SchedUnchanged
  <2> QED
    BY <1>0, <1>2, <2>1
<1>9. ASSUME NEW c \in Cvs, NEW l \in Locks, CvWait(c, l) PROVE Goal
  BY <1>9, WaitEffect
<1>10. ASSUME NEW c \in Cvs, NEW l \in Locks, CvSignal(c, l) PROVE Goal
  <2>1. /\ waitq' = [waitq EXCEPT ![c] = Tail(@)] /\ waitq[c] # <<>>
        /\ UNCHANGED <<queue, cont, lockState, lockId>> /\ Holds(l) /\ cont[me] = Nil
    BY <1>10 DEF CvSignal, WakeHead, AtCall, syncVars
  <2>2. /\ OwnerOf(l) = me /\ ~M!Engaged(me)
        /\ \A k \in Locks : OwnerOf(k)' = OwnerOf(k)
    BY <2>1, CallFacts
  <2> QED
    BY <1>0, <2>1, <2>2, SignalEffect DEF Stopped
<1>11. ASSUME NEW c \in Cvs, NEW l \in Locks, CvBroadcast(c, l) PROVE Goal
  <2>1. UNCHANGED <<waitq, queue, cont, lockState, lockId>>
    BY <1>11 DEF CvBroadcast, SchedUnchanged, syncVars
  <2> QED
    BY <1>0, <1>2, <2>1
<1> QED
  BY <1>3, <1>4, <1>5, <1>6, <1>7, <1>8, <1>9, <1>10, <1>11
     DEF SyncCall, AcquireStep

LEMMA MonitorInit == SyncInit => MonitorInv /\ M!Init
<1> SUFFICES ASSUME SyncInit PROVE MonitorInv /\ M!Init
  OBVIOUS
<1>1. OwnerInv /\ IInv
  BY OwnerInit, SyncInitInv DEF SyncInv
<1>2. /\ pc = "user" /\ queue = Nil /\ waking = Nil
      /\ \A q \in WaitQueues : waitq[q] = <<>>
      /\ \A p \in Threads : cont[p] = Nil
      /\ \A l \in Locks : lockState[l] # "LOCKED"
  BY DEF SyncInit, Init
<1>3. ContAlive
  BY <1>2, Names DEF ContAlive
<1>4. \A l \in Locks : OwnerOf(l) = Nil
  BY <1>2 DEF OwnerOf
<1>5. \A l \in Locks : EnteringOf(l) = {}
  BY <1>1, <1>2, Names, EnteringFacts DEF EnteringAre
<1>6. \A c \in Cvs : WaitersOf(c) = <<>>
  <2> SUFFICES ASSUME NEW c \in Cvs PROVE WaitersOf(c) = <<>>
    OBVIOUS
  <2>1. Line(c) = <<>>
    BY <1>2, Names DEF Line
  <2>2. WaitersOf(c) = Via(<<>>, Tested)
    BY <1>1, <2>1, LineFacts DEF LinesAre
  <2>3. Via(<<>>, Tested) = <<>>
    BY DEF Via
  <2> QED
    BY <2>2, <2>3
<1> QED
  BY <1>1, <1>3, <1>4, <1>5, <1>6 DEF MonitorInv, M!Init

\* Locks and condition variables implement the monitor for programs that never
\* kill: lock_acquire and lock_release are mutual exclusion, cv_wait gives the
\* lock up and lines up in one step, and cv_signal and cv_broadcast send waiters
\* back to their locks in the order they came.
THEOREM MonitorCorrect == ASSUME NoKill PROVE SyncSpec => IsMonitor
<1>1. MonitorInv /\ [SyncNext]_allVars => MonitorInv'
  BY MonitorStep
<1>2. MonitorInv /\ MonitorInv' /\ [SyncNext]_allVars => [M!Next]_M!vars
  <2> SUFFICES ASSUME MonitorInv, MonitorInv', [SyncNext]_allVars
               PROVE  [M!Next]_M!vars
    OBVIOUS
  <2>1. CASE UNCHANGED allVars
    <3>1. UNCHANGED <<live, tid, waitq, queue, runningrn, lockState, lockId, cont>>
      BY <2>1 DEF allVars, vars, syncVars
    <3>2. UNCHANGED M!vars
      BY <3>1 DEF M!vars, OwnerOf, EnteringOf, WaitersOf
    <3> QED
      BY <3>2
  <2> QED
    BY <2>1, SchedMonitor, CallsMonitor DEF SyncNext
<1>3. SyncInit => MonitorInv /\ M!Init
  BY MonitorInit
<1> QED
  BY <1>1, <1>2, <1>3, PTL DEF SyncSpec, IsMonitor, M!Spec
=============================================================================
