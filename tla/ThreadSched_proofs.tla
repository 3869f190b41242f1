------------------------- MODULE ThreadSched_proofs -------------------------
(***************************************************************************)
(* Proofs about ThreadSched, for any number of TCBs, identifiers, wait     *)
(* queues and any choice of calls.                                         *)
(***************************************************************************)
EXTENDS ThreadSched, QueueFacts

USE SchedAssumption

LEMMA InitIInv == Init => IInv
<1> SUFFICES ASSUME Init PROVE IInv
  OBVIOUS
<1>0. 0 \in Tids
  BY DEF Tids
<1>1. TypeOK
  BY <1>0, EmptyFacts
     DEF Init, TypeOK, ThreadStates, IdNodes, Pcs, NoTid, WaitQueues
<1>2. Placement
  BY EmptyFacts, Len(<<>>) = 0
     DEF Init, Placement, OneEntry, OneQueue, EachSomewhere, CpuHolds,
         OneExited, Queued, Held, Stopped, WaitQueues
<1>3. Locals
  BY <1>0, EmptyFacts
     DEF Init, Locals, LiveHaveIds, YieldEnds, SleepLocals
<1> QED
  BY <1>1, <1>2, <1>3 DEF IInv

\* Each update of an identifier's entry the code makes keeps the table typed.
LEMMA SetStatus ==
  ASSUME NEW a \in [Tids -> IdNodes], NEW t, NEW x \in {"FREE", "USED"}
  PROVE  [a EXCEPT ![t].status = x] \in [Tids -> IdNodes]
  BY DEF IdNodes

LEMMA SetState ==
  ASSUME NEW a \in [Tids -> IdNodes], NEW t,
         NEW v \in {"READY", "RUNNING", "WAITING", "DEAD"}
  PROVE  [a EXCEPT ![t].state = v] \in [Tids -> IdNodes]
  BY DEF IdNodes

LEMMA SetTwoStates ==
  ASSUME NEW a \in [Tids -> IdNodes], NEW t, NEW u,
         NEW v \in {"READY", "RUNNING", "WAITING", "DEAD"},
         NEW w \in {"READY", "RUNNING", "WAITING", "DEAD"}
  PROVE  [a EXCEPT ![t].state = v, ![u].state = w] \in [Tids -> IdNodes]
<1> DEFINE b == [a EXCEPT ![t].state = v]
<1>1. b \in [Tids -> IdNodes]
  BY SetState
<1> HIDE DEF b
<1>2. [b EXCEPT ![u].state = w] \in [Tids -> IdNodes]
  BY <1>1, SetState
<1> QED
  BY <1>2 DEF b

LEMMA SetStatusState ==
  ASSUME NEW a \in [Tids -> IdNodes], NEW t, NEW x \in {"FREE", "USED"},
         NEW v \in {"READY", "RUNNING", "WAITING", "DEAD"}
  PROVE  [a EXCEPT ![t].status = x, ![t].state = v] \in [Tids -> IdNodes]
<1> DEFINE b == [a EXCEPT ![t].status = x]
<1>1. b \in [Tids -> IdNodes]
  BY SetStatus
<1> HIDE DEF b
<1>2. [b EXCEPT ![t].state = v] \in [Tids -> IdNodes]
  BY <1>1, SetState
<1> QED
  BY <1>2 DEF b

LEMMA SetWq ==
  ASSUME NEW a \in [Tids -> IdNodes], NEW t, NEW w \in {"null", "live", "freed"}
  PROVE  [a EXCEPT ![t].wq = w] \in [Tids -> IdNodes]
  BY DEF IdNodes

LEMMA SetStatusWq ==
  ASSUME NEW a \in [Tids -> IdNodes], NEW t, NEW u,
         NEW x \in {"FREE", "USED"}, NEW w \in {"null", "live", "freed"}
  PROVE  [a EXCEPT ![u].status = x, ![t].wq = w] \in [Tids -> IdNodes]
<1> DEFINE b == [a EXCEPT ![u].status = x]
<1>1. b \in [Tids -> IdNodes]
  BY SetStatus
<1> HIDE DEF b
<1>2. [b EXCEPT ![t].wq = w] \in [Tids -> IdNodes]
  BY <1>1, SetWq
<1> QED
  BY <1>2 DEF b

LEMMA NewWq ==
  ASSUME NEW a \in [Tids -> IdNodes], NEW t
  PROVE  [a EXCEPT ![t].wq = IF @ = "null" THEN "live" ELSE @] \in [Tids -> IdNodes]
  BY DEF IdNodes

LEMMA SetStateNewWq ==
  ASSUME NEW a \in [Tids -> IdNodes], NEW t, NEW u,
         NEW v \in {"READY", "RUNNING", "WAITING", "DEAD"}
  PROVE  [a EXCEPT ![u].state = v,
                   ![t].wq = IF @ = "null" THEN "live" ELSE @] \in [Tids -> IdNodes]
<1> DEFINE b == [a EXCEPT ![u].state = v]
<1>1. b \in [Tids -> IdNodes]
  BY SetState
<1> HIDE DEF b
<1>2. [b EXCEPT ![t].wq = IF @ = "null" THEN "live" ELSE @] \in [Tids -> IdNodes]
  BY <1>1, NewWq
<1> QED
  BY <1>2 DEF b

\* The thread the CPU holds has an identifier if its TCB was not freed.
LEMMA HeldHaveIds ==
  ASSUME IInv
  PROVE  /\ \A p \in Held \cap live : tid[p] \in Tids
         /\ pc \notin Stopped \cup {"exit"} => tid[runningrn] \in Tids
         /\ Popped \in live => Popped \in Held /\ tid[Popped] \in Tids
<1>1. \A p \in Held \cap live : tid[p] \in Tids
  BY DEF IInv, Placement, EachSomewhere, Queued, Locals, LiveHaveIds
<1>2. live \subseteq Threads /\ Nil \notin live
  BY DEF IInv, TypeOK
<1>3. pc \notin Stopped \cup {"exit"} => runningrn \in Held \cap live
  BY <1>2 DEF IInv, Placement, CpuHolds, Held
<1>4. Popped \in live => Popped \in Held
  BY <1>2 DEF Popped, Held
<1> QED
  BY <1>1, <1>3, <1>4

\* thread_wakeup of one thread, whoever calls it.
LEMMA WakeTypes ==
  ASSUME TypeOK, NEW q \in WaitQueues, WakeHead(q), waking' \in WaitQueues \cup {Nil}
  PROVE  TypeOK'
<1> USE DEF TypeOK, Pcs, Stopped, ThreadStates
<1>1. idarray' \in [Tids -> IdNodes]
  <2>1. [idarray EXCEPT ![tid[Head(waitq[q])]].state = "READY"] \in [Tids -> IdNodes]
    BY SetState
  <2>2. \/ idarray' = [idarray EXCEPT ![tid[Head(waitq[q])]].state = "READY"]
        \/ idarray' = idarray
    BY DEF WakeHead
  <2>3. idarray \in [Tids -> IdNodes]
    OBVIOUS
  <2> QED
    BY <2>1, <2>2, <2>3
<1>2. Head(waitq[q]) \in Threads /\ Tail(waitq[q]) \in Seq(Threads)
  BY PopFacts DEF WakeHead
<1>3. readyq' \in Seq(Threads)
  BY <1>2, EnqueueFacts DEF WakeHead
<1>4. state' \in [Threads -> ThreadStates] /\ waitq' \in [WaitQueues -> Seq(Threads)]
  BY <1>2 DEF WakeHead
<1> QED
  BY <1>1, <1>3, <1>4 DEF WakeHead

LEMMA TypeStep ==
  ASSUME IInv, [Next]_vars
  PROVE  TypeOK'
<1> USE DEF TypeOK, Pcs, Stopped, ThreadStates
<1>0. TypeOK
  BY DEF IInv
<1>1. CASE Create
  <2>1. idarray' \in [Tids -> IdNodes]
    <3>1. PICK t \in Tids : idarray' = [idarray EXCEPT ![t].status = "USED"]
      BY <1>1 DEF Create, MarkUsed
    <3>2. [idarray EXCEPT ![t].status = "USED"] \in [Tids -> IdNodes]
      BY <1>0, SetStatus
    <3> QED
      BY <3>1, <3>2
  <2>2. PICK p \in Threads, t \in Tids :
           /\ live'    = live \cup {p}
           /\ tid'     = [tid EXCEPT ![p] = t]
           /\ state'   = [state EXCEPT ![p] = "READY"]
           /\ readyq'  = Append(readyq, p)
    BY <1>1 DEF Create, MarkUsed
  <2>3. readyq' \in Seq(Threads)
    BY <1>0, <2>2, EnqueueFacts
  <2> QED
    BY <1>0, <1>1, <2>1, <2>2, <2>3 DEF Create, MarkUsed
<1>2. ASSUME CallerReady, runningrn \in Threads
      PROVE  idarray' \in [Tids -> IdNodes] /\ state' \in [Threads -> ThreadStates]
  BY <1>0, <1>2, SetState DEF CallerReady
<1>3. ASSUME NEW i \in 1 .. (Len(readyq) + 1), TakeOut(i), runningrn \in Threads
      PROVE  runningrn' \in Threads /\ readyq' \in Seq(Threads)
  <2> DEFINE q == Append(readyq, runningrn)
  <2>1. q \in Seq(Threads) /\ Len(q) = Len(readyq) + 1
    BY <1>0, <1>3, AppendProperties
  <2> QED
    BY <1>3, <2>1, RemoveFacts DEF TakeOut
<1>4. InUser => runningrn \in Threads
  BY DEF IInv, Placement, CpuHolds, InUser
<1>5. CASE PreemptOrAny
  <2>1. 1 \in 1 .. (Len(readyq) + 1) /\ Head(readyq) \in Threads
    BY <1>0, <1>5, PopFacts DEF PreemptOrAny
  <2> QED
    BY <1>0, <1>2, <1>3, <1>4, <1>5, <2>1 DEF PreemptOrAny, CallerReady
<1>6. ASSUME NEW t \in Tids, YieldTo(t) PROVE TypeOK'
  <2>1. PICK i \in 1 .. Len(readyq) : CallerReady /\ TakeOut(i)
    BY <1>6 DEF YieldTo
  <2>2. i \in 1 .. (Len(readyq) + 1)
    OBVIOUS
  <2> QED
    BY <1>0, <1>2, <1>3, <1>4, <1>6, <2>1, <2>2 DEF YieldTo, May, CallerReady
<1>7. ASSUME NEW t \in Tids, YieldMiss(t) PROVE TypeOK'
  <2>1. PICK i \in 1 .. (Len(readyq) + 1) : CallerReady /\ TakeOut(i)
    BY <1>7 DEF YieldMiss
  <2> QED
    BY <1>0, <1>2, <1>3, <1>4, <1>7, <2>1 DEF YieldMiss, May, CallerReady
<1>8. ASSUME NEW t \in Tids, KillReady(t) PROVE TypeOK'
  <2>1. idarray' \in [Tids -> IdNodes]
    BY <1>0, <1>8, SetState DEF KillReady
  <2> QED
    BY <1>0, <1>8, <2>1 DEF KillReady
<1>9. ASSUME NEW t \in Tids, KillSleeping(t) PROVE TypeOK'
  <2>1. idarray' \in [Tids -> IdNodes]
    BY <1>0, <1>9, SetState DEF KillSleeping
  <2> QED
    BY <1>0, <1>9, <2>1 DEF KillSleeping
<1>10. ASSUME NEW t \in Tids, Wait(t) PROVE TypeOK'
  <2>1. idarray' \in [Tids -> IdNodes]
    BY <1>0, <1>10, SetStateNewWq DEF Wait
  <2> QED
    BY <1>0, <1>10, <2>1 DEF Wait, WaitQueues
<1>11. ASSUME NEW q \in Queues, QueueCreate(q) PROVE TypeOK'
  BY <1>0, <1>11 DEF QueueCreate
<1>12. ASSUME NEW q \in Queues, QueueDestroy(q) PROVE TypeOK'
  BY <1>0, <1>12 DEF QueueDestroy
<1>13. ASSUME NEW q \in Queues, Sleep(q) PROVE TypeOK'
  BY <1>0, <1>13 DEF Sleep, WaitQueues
<1>14. ASSUME NEW q \in WaitQueues, WakeHead(q), waking' \in WaitQueues \cup {Nil}
       PROVE  TypeOK'
  BY <1>0, <1>14, WakeTypes
<1>15. ASSUME NEW q \in Queues, WakeupOne(q) PROVE TypeOK'
  BY <1>0, <1>14, <1>15 DEF WakeupOne, WaitQueues
<1>16. CASE WakeNext
  BY <1>0, <1>14, <1>16 DEF WakeNext
<1>17. ASSUME NEW q \in Queues, WakeupAll(q) PROVE TypeOK'
  BY <1>0, <1>17 DEF WakeupAll, WakeAll, WaitQueues
<1>18. CASE ExitEnter
  <2>1. tid[runningrn] \in Tids
    BY <1>18, HeldHaveIds DEF ExitEnter, May, InUser
  <2>2. idarray' \in [Tids -> IdNodes]
    BY <1>0, <1>18, SetWq DEF ExitEnter, DestroyJoinq
  <2>3. waking' \in WaitQueues \cup {Nil}
    BY <1>18, <2>1 DEF ExitEnter, JoinWaking, WakeAll, WaitQueues
  <2> QED
    BY <1>0, <1>18, <2>1, <2>2, <2>3 DEF ExitEnter
<1>19. CASE SleepNone
  BY <1>0, <1>19 DEF SleepNone
<1>20. CASE SleepPop
  BY <1>0, <1>20, PopFacts DEF SleepPop
<1>21. CASE ExitLeave
  <2>0. runningrn \in Threads
    BY <1>0, <1>21 DEF ExitLeave, IInv, Placement, CpuHolds
  <2>1. idarray' \in [Tids -> IdNodes]
    BY <1>0, <1>21, SetStatusState DEF ExitLeave
  <2>2. tid' \in [Threads -> Tids \cup {NoTid}] /\ state' \in [Threads -> ThreadStates]
    BY <1>0, <1>21 DEF ExitLeave
  <2>3. exitedq' \in Seq(Threads)
    <3>1. exitedq # <<>> => Tail(exitedq) \in Seq(Threads)
      BY <1>0, PopFacts
    <3>2. \A s \in Seq(Threads) : Append(s, runningrn) \in Seq(Threads)
      BY <2>0, EnqueueFacts
    <3> QED
      BY <1>0, <1>21, <3>1, <3>2 DEF ExitLeave
  <2>4. runningrn' \in Threads \cup {Nil} /\ readyq' \in Seq(Threads)
    <3>1. readyq # <<>> => Head(readyq) \in Threads /\ Tail(readyq) \in Seq(Threads)
      BY <1>0, PopFacts
    <3> QED
      BY <1>0, <1>21, <3>1 DEF ExitLeave
  <2>5. live' \in SUBSET Threads /\ pc' \in Pcs
    BY <1>0, <1>21 DEF ExitLeave
  <2> QED
    BY <1>0, <1>21, <2>1, <2>2, <2>3, <2>4, <2>5 DEF ExitLeave
<1>22. CASE Reap
  <2>1. tid[Popped] \in Tids /\ Popped \in Threads
    BY <1>0, <1>22, HeldHaveIds DEF Reap
  <2>2. idarray' \in [Tids -> IdNodes]
    BY <1>0, <1>22, SetStatusWq DEF Reap, DestroyJoinq
  <2>3. waking' \in WaitQueues \cup {Nil}
    BY <1>22, <2>1 DEF Reap, JoinWaking, WakeAll, WaitQueues
  <2>4. readyq' \in Seq(Threads)
    BY <1>0, <1>22, PopFacts DEF Reap
  <2>5. runningrn' \in Threads \cup {Nil} /\ next' \in Threads \cup {Nil}
    BY <1>0, <1>22, <2>1, PopFacts DEF Reap
  <2>6. tid' \in [Threads -> Tids \cup {NoTid}] /\ state' \in [Threads -> ThreadStates]
    BY <1>0, <1>22 DEF Reap
  <2>7. pc' \in Pcs /\ live' \in SUBSET Threads
    BY <1>0, <1>22 DEF Reap
  <2> QED
    BY <1>0, <1>22, <2>2, <2>3, <2>4, <2>5, <2>6, <2>7 DEF Reap
<1>23. CASE StaleThread
  BY <1>0, <1>23 DEF StaleThread
<1>24. CASE SwitchYield
  <2>1. idarray' \in [Tids -> IdNodes]
    BY <1>0, <1>24, SetState DEF SwitchYield
  <2> QED
    BY <1>0, <1>24, <2>1 DEF SwitchYield
<1>25. CASE SwitchExit
  BY <1>0, <1>25 DEF SwitchExit
<1>26. CASE SwitchSleep
  <2>1. idarray' \in [Tids -> IdNodes]
    <3>1. \A t, u : [idarray EXCEPT ![t].state = "WAITING", ![u].state = "RUNNING"]
                        \in [Tids -> IdNodes]
      BY <1>0, SetTwoStates
    <3> QED
      BY <1>26, <3>1 DEF SwitchSleep, MarkAsleep, JoinQueue
  <2>2. runningrn \in Threads /\ next \in Threads
    BY <1>0, <1>26 DEF SwitchSleep, MarkAsleep, JoinQueue, Runnable, Popped, IInv, Placement, CpuHolds
  <2>3. waitq' \in [WaitQueues -> Seq(Threads)]
    <3>1. \A s \in Seq(Threads) : Append(s, runningrn) \in Seq(Threads)
      BY <2>2, EnqueueFacts
    <3> QED
      BY <1>0, <1>26, <3>1 DEF SwitchSleep, MarkAsleep, JoinQueue
  <2>4. state' \in [Threads -> ThreadStates]
    BY <1>0, <1>26 DEF SwitchSleep, MarkAsleep, JoinQueue
  <2> QED
    BY <1>0, <1>26, <2>1, <2>2, <2>3, <2>4 DEF SwitchSleep, MarkAsleep, JoinQueue
<1>27. CASE StaleSleep
  BY <1>0, <1>27 DEF StaleSleep
<1>28. CASE UNCHANGED vars
  BY <1>0, <1>28 DEF vars
<1>29. CASE UserCall
  BY <1>1, <1>6, <1>7, <1>8, <1>9, <1>10, <1>11, <1>12, <1>13, <1>15, <1>17,
     <1>18, <1>29 DEF UserCall
<1>30. CASE KernelStep
  BY <1>16, <1>19, <1>20, <1>21, <1>22, <1>23, <1>24, <1>25, <1>26, <1>27, <1>30
     DEF KernelStep
<1> QED
  BY <1>5, <1>28, <1>29, <1>30 DEF Next, Terminated

-----------------------------------------------------------------------------
\* Placement element by element.
LEMMA PlacesByElement ==
  /\ OneQueue <=>
       /\ \A x \in ToSet(readyq) : x \notin ToSet(exitedq)
       /\ \A q \in WaitQueues : \A x \in ToSet(waitq[q]) :
            /\ x \notin ToSet(readyq) /\ x \notin ToSet(exitedq)
            /\ \A r \in WaitQueues : r # q => x \notin ToSet(waitq[r])
  /\ \A x : x \in Queued <=> \/ x \in ToSet(readyq) \/ x \in ToSet(exitedq)
                             \/ \E q \in WaitQueues : x \in ToSet(waitq[q])
  /\ \A x : x \in Held <=> x # Nil /\ (x = runningrn \/ x = next)
<1>1. OneQueue <=>
       /\ \A x \in ToSet(readyq) : x \notin ToSet(exitedq)
       /\ \A q \in WaitQueues : \A x \in ToSet(waitq[q]) :
            /\ x \notin ToSet(readyq) /\ x \notin ToSet(exitedq)
            /\ \A r \in WaitQueues : r # q => x \notin ToSet(waitq[r])
  BY DEF OneQueue
<1>2. \A x : x \in Queued <=> \/ x \in ToSet(readyq) \/ x \in ToSet(exitedq)
                              \/ \E q \in WaitQueues : x \in ToSet(waitq[q])
  BY DEF Queued
<1>3. \A x : x \in Held <=> x # Nil /\ (x = runningrn \/ x = next)
  BY DEF Held
<1> QED
  BY <1>1, <1>2, <1>3

\* The part of Placement that is about which queue holds what.
Places == OneEntry /\ OneQueue /\ EachSomewhere /\ OneExited

\* Places, for each element of each queue.
QueuesApart ==
  /\ \A x \in ToSet(readyq) : x \notin ToSet(exitedq)
  /\ \A q \in WaitQueues : \A x \in ToSet(waitq[q]) :
       /\ x \notin ToSet(readyq) /\ x \notin ToSet(exitedq)
       /\ \A r \in WaitQueues : r # q => x \notin ToSet(waitq[r])

QueuedLive ==
  /\ \A x \in ToSet(readyq) \cup ToSet(exitedq) :
       x \in live /\ x # runningrn /\ x # next
  /\ \A q \in WaitQueues : \A x \in ToSet(waitq[q]) :
       x \in live /\ x # runningrn /\ x # next

NoneLost ==
  \A x \in live :
     \/ x \in ToSet(readyq) \/ x \in ToSet(exitedq)
     \/ \E q \in WaitQueues : x \in ToSet(waitq[q])
     \/ x = runningrn \/ x = next

PlaceList == OneEntry /\ OneExited /\ QueuesApart /\ QueuedLive /\ NoneLost

LEMMA PlacesIffList == Nil \notin live => (Places <=> PlaceList)
<1> SUFFICES ASSUME Nil \notin live PROVE Places <=> PlaceList
  OBVIOUS
<1>1. ASSUME Places PROVE PlaceList
  <2>1. OneEntry /\ OneQueue /\ EachSomewhere /\ OneExited
    BY <1>1 DEF Places
  <2>2. \A x \in Queued : x \in live /\ x \notin Held /\ x # Nil
    BY <2>1 DEF EachSomewhere
  <2>3. \A x \in live : x \in Queued \/ x \in Held
    BY <2>1 DEF EachSomewhere
  <2> QED
    BY <2>1, <2>2, <2>3, PlacesByElement DEF PlaceList, OneEntry, OneExited, QueuesApart, QueuedLive, NoneLost
<1>2. ASSUME PlaceList PROVE Places
  <2>1. OneEntry /\ OneExited
    BY <1>2 DEF PlaceList, OneEntry, OneExited, QueuesApart, QueuedLive, NoneLost
  <2>2. OneQueue
    BY <1>2, PlacesByElement DEF PlaceList, OneEntry, OneExited, QueuesApart, QueuedLive, NoneLost
  <2>3. \A x \in Queued : x \in live /\ x \notin Held
    BY <1>2, PlacesByElement DEF PlaceList, OneEntry, OneExited, QueuesApart, QueuedLive, NoneLost
  <2>4. \A x \in live : x \in Queued \/ x \in Held
    BY <1>2, PlacesByElement DEF PlaceList, OneEntry, OneExited, QueuesApart, QueuedLive, NoneLost
  <2>5. EachSomewhere
    BY <2>3, <2>4 DEF EachSomewhere
  <2> QED
    BY <2>1, <2>2, <2>5 DEF Places
<1> QED
  BY <1>1, <1>2

\* What a proof about a step starts from.
LEMMA Before ==
  ASSUME IInv
  PROVE  /\ TypeOK /\ PlaceList
         /\ live \subseteq Threads /\ Nil \notin live
         /\ runningrn = next => runningrn = Nil
         /\ pc # "halted" => runningrn \in Threads
         /\ pc \notin Stopped \cup {"exit"} => runningrn \in live
<1>1. TypeOK /\ Places /\ CpuHolds
  BY DEF IInv, Placement, Places
<1>2. live \subseteq Threads /\ Nil \notin live
  BY <1>1 DEF TypeOK
<1> QED
  BY <1>1, <1>2, PlacesIffList DEF CpuHolds, TypeOK

-----------------------------------------------------------------------------
\* thread_create
LEMMA CreatePlaces == ASSUME IInv, Create PROVE PlaceList'
<1> USE Before DEF TypeOK
<1>1. PICK p \in Threads \ live : live' = live \cup {p} /\ readyq' = Append(readyq, p)
  BY DEF Create, MarkUsed
<1>2. UNCHANGED <<exitedq, waitq, runningrn, next>> /\ runningrn \in live /\ next = Nil
  BY DEF Create, MarkUsed, May, InUser, IInv, Locals, SleepLocals, Stopped
<1>3. p \notin ToSet(readyq)
  BY <1>1 DEF PlaceList, OneEntry, OneExited, QueuesApart, QueuedLive, NoneLost
<1>4. ToSet(readyq') = ToSet(readyq) \cup {p} /\ IsInjective(readyq')
  BY <1>1, <1>3, EnqueueFacts DEF PlaceList, OneEntry, OneExited, QueuesApart, QueuedLive, NoneLost
<1> QED
  BY <1>1, <1>2, <1>4 DEF PlaceList, OneEntry, OneExited, QueuesApart, QueuedLive, NoneLost

\* thread_yield: the caller is enqueued and one thread taken out.
LEMMA TakeOutPlaces ==
  ASSUME IInv, InUser, CallerReady,
         NEW i \in 1 .. (Len(readyq) + 1), TakeOut(i)
  PROVE  /\ PlaceList'
         /\ ToSet(readyq') \cup {runningrn'} = ToSet(readyq) \cup {runningrn}
<1> DEFINE q == Append(readyq, runningrn)
<1>0. TypeOK /\ PlaceList /\ runningrn \in live /\ runningrn \in Threads
  BY Before DEF InUser, Stopped
<1>1. next = Nil
  BY DEF IInv, Locals, SleepLocals, InUser
<1>2. runningrn \notin ToSet(readyq)
  BY <1>0 DEF PlaceList, OneEntry, OneExited, QueuesApart, QueuedLive, NoneLost
<1>3. /\ q \in Seq(Threads) /\ IsInjective(q) /\ Len(q) = Len(readyq) + 1
      /\ ToSet(q) = ToSet(readyq) \cup {runningrn}
  BY <1>0, <1>2, EnqueueFacts, AppendProperties DEF TypeOK, PlaceList, OneEntry, OneExited, QueuesApart, QueuedLive, NoneLost
<1> HIDE DEF q
<1>4. /\ ToSet(RemoveAt(q, i)) = ToSet(q) \ {q[i]} /\ IsInjective(RemoveAt(q, i))
      /\ q[i] \in ToSet(q)
  BY <1>3, RemoveFacts
<1>5. runningrn' = q[i] /\ readyq' = RemoveAt(q, i)
  BY DEF TakeOut, q
<1>6. UNCHANGED <<live, exitedq, waitq, next>>
  BY DEF CallerReady
<1>7. runningrn' \in live
  BY <1>0, <1>3, <1>4, <1>5 DEF PlaceList, OneEntry, OneExited, QueuesApart, QueuedLive, NoneLost
<1>8. Nil \notin live
  BY Before
<1> QED
  BY <1>0, <1>1, <1>3, <1>4, <1>5, <1>6, <1>7, <1>8 DEF PlaceList, OneEntry, OneExited, QueuesApart, QueuedLive, NoneLost

\* thread_wakeup(q, 0)
LEMMA WakePlaces ==
  ASSUME IInv, NEW q \in WaitQueues, WakeHead(q)
  PROVE  /\ PlaceList'
         /\ ToSet(readyq) \subseteq ToSet(readyq')
<1> DEFINE p == Head(waitq[q])
<1>0. TypeOK /\ PlaceList
  BY Before
<1>1. waitq[q] \in Seq(Threads) /\ waitq[q] # <<>>
  BY <1>0 DEF TypeOK, WakeHead
<1>2. /\ p \in Threads /\ p \in ToSet(waitq[q])
      /\ IsInjective(Tail(waitq[q]))
      /\ ToSet(Tail(waitq[q])) = ToSet(waitq[q]) \ {p}
  BY <1>0, <1>1, PopFacts DEF PlaceList, OneEntry, OneExited, QueuesApart, QueuedLive, NoneLost
<1>3. readyq' = Append(readyq, p) /\ waitq' = [waitq EXCEPT ![q] = Tail(@)]
  BY DEF WakeHead
<1>4. UNCHANGED <<live, exitedq, runningrn, next>>
  BY DEF WakeHead
<1> HIDE DEF p
<1>5. ToSet(readyq') = ToSet(readyq) \cup {p} /\ IsInjective(readyq')
  BY <1>0, <1>2, <1>3, EnqueueFacts DEF TypeOK, PlaceList, OneEntry, OneExited, QueuesApart, QueuedLive, NoneLost
<1>6. /\ ToSet(waitq'[q]) = ToSet(waitq[q]) \ {p} /\ IsInjective(waitq'[q])
      /\ \A r \in WaitQueues : r # q => waitq'[r] = waitq[r]
  BY <1>0, <1>2, <1>3 DEF TypeOK
<1>11. OneEntry' /\ OneExited'
  BY <1>0, <1>2, <1>4, <1>5, <1>6 DEF PlaceList, OneEntry, OneExited
<1>12. QueuesApart'
  BY <1>0, <1>2, <1>4, <1>5, <1>6 DEF PlaceList, QueuesApart
<1>13. QueuedLive'
  BY <1>0, <1>2, <1>4, <1>5, <1>6 DEF PlaceList, QueuedLive
<1>14. NoneLost'
  BY <1>0, <1>2, <1>4, <1>5, <1>6 DEF PlaceList, NoneLost
<1> QED
  BY <1>5, <1>11, <1>12, <1>13, <1>14 DEF PlaceList

\* thread_sleep takes the next thread off the ready queue.
LEMMA SleepPopPlaces == ASSUME IInv, SleepPop PROVE PlaceList'
<1>0. TypeOK /\ PlaceList
  BY Before
<1>1. /\ Head(readyq) \in ToSet(readyq) /\ IsInjective(Tail(readyq))
      /\ ToSet(Tail(readyq)) = ToSet(readyq) \ {Head(readyq)}
  BY <1>0, PopFacts DEF TypeOK, PlaceList, OneEntry, SleepPop
<1>2. next = Nil /\ Nil \notin live
  BY Before DEF IInv, Locals, SleepLocals, SleepPop
<1>3. /\ next' = Head(readyq) /\ readyq' = Tail(readyq)
      /\ UNCHANGED <<live, exitedq, waitq, runningrn>>
  BY DEF SleepPop
<1>11. OneEntry' /\ OneExited'
  BY <1>0, <1>1, <1>2, <1>3 DEF PlaceList, OneEntry, OneExited
<1>12. QueuesApart'
  BY <1>0, <1>1, <1>2, <1>3 DEF PlaceList, QueuesApart
<1>13. QueuedLive'
  BY <1>0, <1>1, <1>2, <1>3 DEF PlaceList, QueuedLive, QueuesApart
<1>14. NoneLost'
  BY <1>0, <1>1, <1>2, <1>3 DEF PlaceList, NoneLost
<1> QED
  BY <1>11, <1>12, <1>13, <1>14 DEF PlaceList

\* thread_exit puts its caller on exitedq and frees what was there.
LEMMA ExitLeavePlaces == ASSUME IInv, ExitLeave PROVE PlaceList'
<1> DEFINE old == IF exitedq = <<>> THEN {} ELSE {Head(exitedq)}
           rest == IF old = {} THEN exitedq ELSE Tail(exitedq)
<1>0. TypeOK /\ PlaceList /\ runningrn \in live /\ runningrn \in Threads /\ Nil \notin live
  BY Before DEF ExitLeave, Stopped
<1>1. next = Nil
  BY DEF IInv, Locals, SleepLocals, ExitLeave
<1>2. ToSet(exitedq) = old /\ rest = <<>>
  <2>1. CASE exitedq = <<>>
    BY <2>1, EmptyFacts
  <2>2. CASE exitedq # <<>>
    <3>0. exitedq \in Seq(Threads) /\ Len(exitedq) <= 1
      BY <1>0 DEF TypeOK, PlaceList, OneExited
    <3>1. Len(exitedq) = 1
      <4>1. Len(exitedq) \in Nat /\ Len(exitedq) # 0
        BY <2>2, <3>0, EmptySeq
      <4>2. \A n \in Nat : n # 0 /\ n <= 1 => n = 1
        OBVIOUS
      <4> QED
        BY <3>0, <4>1, <4>2
    <3>2. Len(Tail(exitedq)) = 0 /\ Tail(exitedq) \in Seq(Threads)
      BY <1>0, <2>2, <3>1, HeadTailProperties DEF TypeOK
    <3>3. Tail(exitedq) = <<>>
      <4>1. \A s \in Seq(Threads) : s # <<>> => Len(s) # 0
        OBVIOUS
      <4> QED
        BY <3>2, <4>1
    <3>4. ToSet(exitedq) \ {Head(exitedq)} = {} /\ Head(exitedq) \in ToSet(exitedq)
      BY <1>0, <2>2, <3>3, PopFacts, EmptyFacts DEF TypeOK, PlaceList, OneEntry, OneExited, QueuesApart, QueuedLive, NoneLost
    <3> QED
      BY <2>2, <3>3, <3>4
  <2> QED
    BY <2>1, <2>2
<1>3. live' = live \ old /\ exitedq' = Append(rest, runningrn)
  BY DEF ExitLeave
<1> HIDE DEF old, rest
<1>4. /\ ToSet(exitedq') = {runningrn} /\ IsInjective(exitedq') /\ Len(exitedq') <= 1
  <2>1. rest \in Seq(Threads) /\ ToSet(rest) = {} /\ IsInjective(rest) /\ Len(rest) = 0
    BY <1>2, EmptyFacts
  <2>2. /\ ToSet(exitedq') = {} \cup {runningrn} /\ IsInjective(exitedq')
    <3>1. runningrn \notin ToSet(rest)
      BY <2>1
    <3>2. /\ ToSet(Append(rest, runningrn)) = ToSet(rest) \cup {runningrn}
          /\ IsInjective(Append(rest, runningrn))
      BY <1>0, <2>1, <3>1, EnqueueFacts
    <3> QED
      BY <1>3, <2>1, <3>2
  <2>3. Len(exitedq') = Len(rest) + 1
    BY <1>0, <1>3, <2>1, AppendProperties
  <2> QED
    BY <2>1, <2>2, <2>3
<1>5. UNCHANGED <<waitq, next>>
  BY DEF ExitLeave
<1>6. CASE readyq = <<>> /\ runningrn' = Nil /\ readyq' = readyq
  BY <1>0, <1>1, <1>2, <1>3, <1>4, <1>5, <1>6 DEF PlaceList, OneEntry, OneExited, QueuesApart, QueuedLive, NoneLost
<1>7. CASE readyq # <<>> /\ runningrn' = Head(readyq) /\ readyq' = Tail(readyq)
  <2>1. /\ Head(readyq) \in ToSet(readyq) /\ IsInjective(Tail(readyq))
        /\ ToSet(Tail(readyq)) = ToSet(readyq) \ {Head(readyq)}
    BY <1>0, <1>7, PopFacts DEF TypeOK, PlaceList, OneEntry, OneExited, QueuesApart, QueuedLive, NoneLost
  <2>11. OneEntry' /\ OneExited'
    BY <1>0, <1>1, <1>2, <1>3, <1>4, <1>5, <1>7, <2>1 DEF PlaceList, OneEntry, OneExited
  <2>12. QueuesApart'
    BY <1>0, <1>1, <1>2, <1>3, <1>4, <1>5, <1>7, <2>1 DEF PlaceList, QueuesApart, QueuedLive
  <2>13. QueuedLive'
    BY <1>0, <1>1, <1>2, <1>3, <1>4, <1>5, <1>7, <2>1 DEF PlaceList, OneEntry, QueuesApart, QueuedLive
  <2>14. NoneLost'
    BY <1>0, <1>1, <1>2, <1>3, <1>4, <1>5, <1>7, <2>1 DEF PlaceList, NoneLost
  <2> QED
    BY <2>11, <2>12, <2>13, <2>14 DEF PlaceList
<1> QED
  BY <1>6, <1>7 DEF ExitLeave

\* A killed thread is freed and its successor taken off the ready queue.
LEMMA ReapPlaces == ASSUME IInv, Reap PROVE PlaceList'
<1> DEFINE dead == Popped
           succ == IF readyq # <<>> THEN Head(readyq) ELSE dead
<1>0. TypeOK /\ PlaceList /\ Nil \notin live /\ dead \in live
  BY Before DEF Reap
<1>1. /\ live' = live \ {dead} /\ UNCHANGED <<exitedq, waitq>>
      /\ IF pc = "sleep" THEN next' = succ /\ runningrn' = runningrn
                         ELSE runningrn' = succ /\ next' = next
      /\ IF pc = "sleep" THEN dead = next ELSE dead = runningrn
  BY DEF Reap, Popped
<1>2. pc # "sleep" => next = Nil
  BY DEF IInv, Locals, SleepLocals, Reap
<1>3. pc = "sleep" => runningrn \in live /\ runningrn # next
  BY <1>0, Before DEF Reap, Stopped
<1> HIDE DEF dead
<1>4. CASE readyq = <<>> /\ readyq' = readyq /\ succ = dead
  BY <1>0, <1>1, <1>2, <1>3, <1>4 DEF PlaceList, OneEntry, OneExited, QueuesApart, QueuedLive, NoneLost
<1>5. CASE readyq # <<>> /\ readyq' = Tail(readyq) /\ succ = Head(readyq)
  <2>1. /\ Head(readyq) \in ToSet(readyq) /\ IsInjective(Tail(readyq))
        /\ ToSet(Tail(readyq)) = ToSet(readyq) \ {Head(readyq)}
    BY <1>0, <1>5, PopFacts DEF TypeOK, PlaceList, OneEntry, OneExited, QueuesApart, QueuedLive, NoneLost
  <2> QED
    BY <1>0, <1>1, <1>2, <1>3, <1>5, <2>1 DEF PlaceList, OneEntry, OneExited, QueuesApart, QueuedLive, NoneLost
<1> QED
  BY <1>4, <1>5 DEF Reap

\* thread_sleep enqueues its caller and switches.
LEMMA SwitchSleepPlaces == ASSUME IInv, SwitchSleep PROVE PlaceList'
<1>0. /\ TypeOK /\ PlaceList /\ runningrn \in live /\ next \in live /\ Nil \notin live
      /\ runningrn # next
  BY Before DEF SwitchSleep, MarkAsleep, JoinQueue, Runnable, Popped, Stopped
<1>1. queue \in WaitQueues
  BY <1>0 DEF TypeOK, IInv, Locals, SleepLocals, SwitchSleep, MarkAsleep, JoinQueue
<1>2. /\ runningrn' = next /\ next' = Nil
      /\ waitq' = [waitq EXCEPT ![queue] = Append(@, runningrn)]
      /\ UNCHANGED <<live, readyq, exitedq>>
  BY DEF SwitchSleep, MarkAsleep, JoinQueue
<1>3. /\ ToSet(Append(waitq[queue], runningrn)) = ToSet(waitq[queue]) \cup {runningrn}
      /\ IsInjective(Append(waitq[queue], runningrn))
  <2>1. waitq[queue] \in Seq(Threads) /\ runningrn \in Threads
    BY <1>0, <1>1 DEF TypeOK
  <2>2. runningrn \notin ToSet(waitq[queue]) /\ IsInjective(waitq[queue])
    BY <1>0, <1>1 DEF PlaceList, OneEntry, OneExited, QueuesApart, QueuedLive, NoneLost
  <2> QED
    BY <2>1, <2>2, EnqueueFacts
<1>4. /\ ToSet(waitq'[queue]) = ToSet(waitq[queue]) \cup {runningrn}
      /\ IsInjective(waitq'[queue])
      /\ \A r \in WaitQueues : r # queue => waitq'[r] = waitq[r]
  BY <1>0, <1>1, <1>2, <1>3 DEF TypeOK
<1>11. OneEntry' /\ OneExited'
  BY <1>0, <1>1, <1>2, <1>4 DEF PlaceList, OneEntry, OneExited
<1>12. QueuesApart'
  BY <1>0, <1>1, <1>2, <1>4 DEF PlaceList, QueuesApart, QueuedLive
<1>13. QueuedLive'
  BY <1>0, <1>1, <1>2, <1>4 DEF PlaceList, QueuedLive
<1>14. NoneLost'
  BY <1>0, <1>1, <1>2, <1>4 DEF PlaceList, NoneLost
<1> QED
  BY <1>11, <1>12, <1>13, <1>14 DEF PlaceList

\* A step that moves no TCB.
LEMMA KeptPlaces ==
  ASSUME IInv, UNCHANGED <<live, readyq, exitedq, waitq, runningrn, next>>
  PROVE  PlaceList'
<1>1. PlaceList
  BY Before
<1>2. OneEntry' /\ OneExited'
  BY <1>1 DEF PlaceList, OneEntry, OneExited
<1>3. QueuesApart'
  BY <1>1 DEF PlaceList, QueuesApart
<1>4. QueuedLive'
  BY <1>1 DEF PlaceList, QueuedLive
<1>5. NoneLost'
  BY <1>1 DEF PlaceList, NoneLost
<1> QED
  BY <1>2, <1>3, <1>4, <1>5 DEF PlaceList

LEMMA PlaceStep ==
  ASSUME IInv, [Next]_vars
  PROVE  PlaceList'
<1>1. CASE Create
  BY <1>1, CreatePlaces
<1>2. CASE PreemptOrAny
  <2>1. 1 \in 1 .. (Len(readyq) + 1)
    BY <1>2, Before, LenProperties DEF PreemptOrAny, TypeOK
  <2> QED
    BY <1>2, <2>1, TakeOutPlaces DEF PreemptOrAny
<1>3. ASSUME NEW t \in Tids, YieldTo(t) PROVE PlaceList'
  <2>1. PICK i \in 1 .. Len(readyq) : CallerReady /\ TakeOut(i)
    BY <1>3 DEF YieldTo
  <2>2. i \in 1 .. (Len(readyq) + 1)
    BY Before, LenProperties DEF TypeOK
  <2> QED
    BY <1>3, <2>1, <2>2, TakeOutPlaces DEF YieldTo, May
<1>4. ASSUME NEW t \in Tids, YieldMiss(t) PROVE PlaceList'
  <2>1. PICK i \in 1 .. (Len(readyq) + 1) : CallerReady /\ TakeOut(i)
    BY <1>4 DEF YieldMiss
  <2> QED
    BY <1>4, <2>1, TakeOutPlaces DEF YieldMiss, May
<1>5. ASSUME NEW t \in Tids, KillReady(t) \/ KillSleeping(t) \/ Wait(t)
      PROVE  PlaceList'
  BY <1>5, KeptPlaces DEF KillReady, KillSleeping, Wait
<1>6. ASSUME NEW q \in Queues,
             QueueCreate(q) \/ QueueDestroy(q) \/ Sleep(q) \/ WakeupAll(q)
      PROVE  PlaceList'
  BY <1>6, KeptPlaces DEF QueueCreate, QueueDestroy, Sleep, WakeupAll
<1>7. ASSUME NEW q \in Queues, WakeupOne(q) PROVE PlaceList'
  BY <1>7, WakePlaces DEF WakeupOne, WaitQueues
<1>8. CASE WakeNext
  BY <1>8, WakePlaces, Before DEF WakeNext, TypeOK
<1>9. CASE ExitEnter \/ SleepNone \/ StaleThread \/ SwitchYield \/ SwitchExit \/ StaleSleep
  BY <1>9, KeptPlaces
     DEF ExitEnter, SleepNone, StaleThread, SwitchYield, SwitchExit, StaleSleep
<1>10. CASE UNCHANGED vars
  BY <1>10, KeptPlaces DEF vars
<1>11. CASE UserCall
  BY <1>1, <1>3, <1>4, <1>5, <1>6, <1>7, <1>9, <1>11 DEF UserCall
<1>12. CASE KernelStep
  BY <1>8, <1>9, <1>12, SleepPopPlaces, ExitLeavePlaces, ReapPlaces,
     SwitchSleepPlaces DEF KernelStep
<1> QED
  BY <1>2, <1>10, <1>11, <1>12 DEF Next, Terminated

-----------------------------------------------------------------------------
\* What the CPU holds, and the kernel's locals.
CpuAndLocals == CpuHolds /\ Locals

\* A step of the running program's call that neither switches nor exits.
LEMMA KeptCpu ==
  ASSUME IInv,
         UNCHANGED <<live, tid, exitedq, runningrn, next, readyq>>,
         pc # "yield" /\ pc' # "yield",
         pc' \in {"user", "enter_sleep"},
         pc \in {"user", "enter_sleep"},
         pc' = "enter_sleep" => queue' # Nil,
         pc' = "user" => queue' = Nil
  PROVE  CpuAndLocals'
<1>1. CpuHolds'
  BY DEF IInv, Placement, CpuHolds, Stopped
<1>2. LiveHaveIds'
  BY DEF IInv, Locals, LiveHaveIds
<1>3. YieldEnds'
  BY DEF YieldEnds
<1>4. SleepLocals'
  BY DEF IInv, Locals, SleepLocals
<1> QED
  BY <1>1, <1>2, <1>3, <1>4 DEF CpuAndLocals, Locals

LEMMA YieldCpu ==
  ASSUME IInv, InUser, CallerReady, readyq # <<>>,
         NEW i \in 1 .. (Len(readyq) + 1), TakeOut(i),
         pc' \in {"user", "yield"}
  PROVE  CpuAndLocals'
<1>1. /\ TypeOK /\ runningrn \in live /\ runningrn # Nil
      /\ ToSet(readyq') \cup {runningrn'} = ToSet(readyq) \cup {runningrn}
      /\ ToSet(readyq) \subseteq live /\ Nil \notin live
  BY Before, TakeOutPlaces DEF InUser, Stopped, PlaceList, QueuedLive
<1>2. next = Nil /\ queue = Nil
  BY DEF IInv, Locals, SleepLocals, InUser
<1>3. UNCHANGED <<live, tid, exitedq, next, queue>>
  BY DEF CallerReady
<1>4. runningrn' \in live'
  BY <1>1, <1>3
<1>5. CpuHolds'
  BY <1>1, <1>2, <1>3, <1>4 DEF CpuHolds, Stopped
<1>6. LiveHaveIds'
  BY <1>3 DEF IInv, Locals, LiveHaveIds
<1>7. YieldEnds'
  <2>1. state'[runningrn] = "READY"
    BY <1>1 DEF CallerReady, TypeOK
  <2>2. runningrn \in ToSet(readyq') \cup {runningrn'} /\ runningrn \in live'
    BY <1>1, <1>3
  <2> QED
    BY <2>1, <2>2 DEF YieldEnds
<1>8. SleepLocals'
  BY <1>2, <1>3 DEF SleepLocals
<1> QED
  BY <1>5, <1>6, <1>7, <1>8 DEF CpuAndLocals, Locals

\* A thread that is woken is not one thread_yield counts on.
LEMMA WakeCpu ==
  ASSUME IInv, NEW q \in WaitQueues, WakeHead(q), pc \notin Stopped
  PROVE  CpuAndLocals'
<1> DEFINE p == Head(waitq[q])
<1>1. TypeOK /\ PlaceList
  BY Before
<1>2. p \in ToSet(waitq[q]) /\ p \in Threads
  BY <1>1, PopFacts DEF TypeOK, WakeHead
<1>3. UNCHANGED <<live, tid, exitedq, runningrn, next, queue, pc>>
  BY DEF WakeHead
<1>4. \A r \in Threads : r # p => state'[r] = state[r]
  BY <1>1 DEF WakeHead, TypeOK
<1>5. CpuHolds'
  BY <1>3 DEF IInv, Placement, CpuHolds
<1>6. LiveHaveIds'
  BY <1>3 DEF IInv, Locals, LiveHaveIds
<1>7. SleepLocals'
  BY <1>3 DEF IInv, Locals, SleepLocals
<1>8. YieldEnds'
  <2> SUFFICES ASSUME pc = "yield"
               PROVE  \E r \in live : state'[r] # "DEAD"
                                      /\ r \in ToSet(readyq') \cup {runningrn}
    BY <1>3 DEF YieldEnds
  <2>1. PICK r \in live : state[r] # "DEAD" /\ r \in ToSet(readyq) \cup {runningrn}
    BY DEF IInv, Locals, YieldEnds
  <2>2. r # p /\ r \in Threads
    BY <1>1, <1>2, <2>1, Before DEF PlaceList, QueuesApart, QueuedLive
  <2>3. ToSet(readyq) \subseteq ToSet(readyq')
    BY WakePlaces
  <2> QED
    BY <1>4, <2>1, <2>2, <2>3
<1> QED
  BY <1>5, <1>6, <1>7, <1>8 DEF CpuAndLocals, Locals

LEMMA ReapCpu == ASSUME IInv, Reap PROVE CpuAndLocals'
<1> DEFINE dead == Popped
           succ == IF readyq # <<>> THEN Head(readyq) ELSE dead
<1>1. /\ TypeOK /\ PlaceList /\ Nil \notin live /\ live \subseteq Threads
      /\ dead \in live /\ pc \in {"yield", "sleep", "exit"}
      /\ runningrn = next => runningrn = Nil
      /\ pc \in {"yield", "sleep"} => runningrn \in live
  BY Before DEF Reap, Stopped
<1>2. /\ live' = live \ {dead} /\ UNCHANGED <<exitedq, queue>>
      /\ IF pc = "sleep" THEN next' = succ /\ runningrn' = runningrn
                         ELSE runningrn' = succ /\ next' = next
      /\ IF pc = "sleep" THEN dead = next ELSE dead = runningrn
      /\ tid' = [tid EXCEPT ![dead] = NoTid]
      /\ state' = [state EXCEPT ![dead] = "UNSET"]
      /\ state[dead] = "DEAD"
      /\ readyq' = IF readyq # <<>> THEN Tail(readyq) ELSE readyq
  BY DEF Reap, Popped
<1>3. pc' \in {pc, "stale_queue", "halted"} /\ (pc' = "halted" => pc \in {"exit", "halted"})
  BY DEF Reap
<1>4. IF pc = "sleep" THEN queue # Nil /\ next # Nil ELSE queue = Nil /\ next = Nil
  BY <1>1 DEF IInv, Locals, SleepLocals
<1> HIDE DEF dead
<1>5. readyq # <<>> => /\ Head(readyq) \in ToSet(readyq) /\ Head(readyq) \in live
                       /\ Head(readyq) # runningrn /\ Head(readyq) # next
                       /\ ToSet(Tail(readyq)) = ToSet(readyq) \ {Head(readyq)}
  BY <1>1, PopFacts DEF TypeOK, PlaceList, OneEntry, QueuedLive
<1>6. LiveHaveIds'
  BY <1>1, <1>2 DEF IInv, Locals, LiveHaveIds, TypeOK
<1>7. SleepLocals'
  BY <1>1, <1>2, <1>3, <1>4, <1>5 DEF SleepLocals
<1>8. pc = "yield" =>
        /\ readyq # <<>>
        /\ \E p \in live' : state'[p] # "DEAD" /\ p \in ToSet(readyq') \cup {runningrn'}
  <2> SUFFICES ASSUME pc = "yield"
               PROVE  /\ readyq # <<>>
                      /\ \E p \in live' : state'[p] # "DEAD"
                                          /\ p \in ToSet(readyq') \cup {runningrn'}
    OBVIOUS
  <2>1. PICK p \in live : state[p] # "DEAD" /\ p \in ToSet(readyq) \cup {runningrn}
    BY DEF IInv, Locals, YieldEnds
  <2>2. p # dead /\ p \in ToSet(readyq)
    BY <1>2, <2>1
  <2>3. readyq # <<>>
    BY <2>2, EmptyFacts
  <2>4. p \in ToSet(readyq') \cup {runningrn'}
    BY <1>2, <1>5, <2>2, <2>3
  <2>5. p \in live' /\ state'[p] = state[p]
    BY <1>1, <1>2, <2>1, <2>2 DEF TypeOK
  <2> QED
    BY <2>1, <2>3, <2>4, <2>5
<1>9. YieldEnds'
  BY <1>1, <1>3, <1>8 DEF YieldEnds
<1>10. CpuHolds'
  <2>1. (pc # "halted" => runningrn # Nil)'
    BY <1>1, <1>2, <1>5
  <2>2. (pc \notin Stopped \cup {"exit"} => runningrn \in live)'
    BY <1>1, <1>2, <1>3, <1>5, <1>8 DEF Stopped
  <2>3. (runningrn = next => runningrn = Nil)'
    BY <1>1, <1>2, <1>4, <1>5
  <2> QED
    BY <2>1, <2>2, <2>3 DEF CpuHolds
<1> QED
  BY <1>6, <1>7, <1>9, <1>10 DEF CpuAndLocals, Locals

LEMMA ExitLeaveCpu == ASSUME IInv, ExitLeave PROVE CpuAndLocals'
<1> DEFINE old == IF exitedq = <<>> THEN {} ELSE {Head(exitedq)}
           rest == IF old = {} THEN exitedq ELSE Tail(exitedq)
<1>1. /\ TypeOK /\ PlaceList /\ Nil \notin live /\ live \subseteq Threads
      /\ runningrn \in live
  BY Before DEF ExitLeave, Stopped
<1>2. next = Nil /\ queue = Nil
  BY DEF IInv, Locals, SleepLocals, ExitLeave
<1>3. /\ live' = live \ old /\ UNCHANGED <<next, queue>>
      /\ exitedq' = Append(rest, runningrn)
      /\ tid' = [p \in Threads |->
                   IF p \in old \cup {runningrn} THEN NoTid ELSE tid[p]]
  BY DEF ExitLeave
<1>4. old \subseteq ToSet(exitedq)
  BY <1>1, PopFacts DEF TypeOK
<1>5. rest \in Seq(Threads) /\ ToSet(exitedq) \subseteq old \cup ToSet(rest)
  BY <1>1, PopFacts DEF TypeOK, PlaceList, OneEntry
<1> HIDE DEF old, rest
<1>6. ToSet(exitedq') = ToSet(rest) \cup {runningrn}
  BY <1>1, <1>3, <1>5, EnqueueFacts
<1>7. LiveHaveIds'
  <2> SUFFICES ASSUME NEW p \in live', p \notin ToSet(exitedq') PROVE tid'[p] \in Tids
    BY DEF LiveHaveIds
  <2>1. p \in live /\ p \notin old /\ p # runningrn /\ p \notin ToSet(exitedq)
    BY <1>3, <1>5, <1>6
  <2> QED
    BY <1>1, <1>3, <2>1 DEF IInv, Locals, LiveHaveIds
<1>8. CASE readyq = <<>> /\ runningrn' = Nil /\ pc' = "halted"
  BY <1>2, <1>3, <1>7, <1>8
     DEF CpuAndLocals, CpuHolds, Locals, YieldEnds, SleepLocals, Stopped
<1>9. CASE readyq # <<>> /\ runningrn' = Head(readyq) /\ pc' = "exit"
  <2>1. Head(readyq) # Nil
    BY <1>1, <1>9, PopFacts DEF TypeOK
  <2> QED
    BY <1>2, <1>3, <1>7, <1>9, <2>1
       DEF CpuAndLocals, CpuHolds, Locals, YieldEnds, SleepLocals, Stopped
<1> QED
  BY <1>8, <1>9 DEF ExitLeave

LEMMA LocalsStep ==
  ASSUME IInv, [Next]_vars
  PROVE  CpuAndLocals'
<1>0. CpuAndLocals /\ TypeOK
  BY DEF CpuAndLocals, IInv, Placement
<1>1. Nil \notin WaitQueues /\ Queues \subseteq WaitQueues /\ Tids \subseteq WaitQueues
  BY DEF WaitQueues
<1>2. InUser => queue = Nil /\ pc = "user"
  BY <1>0 DEF InUser, CpuAndLocals, Locals, SleepLocals
<1>3. CASE Create
  <2>1. PICK p \in Threads \ live, t \in Tids :
          live' = live \cup {p} /\ tid' = [tid EXCEPT ![p] = t]
    BY <1>3 DEF Create, MarkUsed
  <2>2. UNCHANGED <<exitedq, runningrn, next, queue, pc>> /\ pc = "user"
    BY <1>3 DEF Create, MarkUsed, May, InUser
  <2>3. CpuHolds'
    BY <1>0, <2>1, <2>2 DEF CpuAndLocals, CpuHolds
  <2>4. LiveHaveIds'
    BY <1>0, <2>1, <2>2 DEF CpuAndLocals, Locals, LiveHaveIds, TypeOK
  <2>5. YieldEnds' /\ SleepLocals'
    BY <1>0, <2>2 DEF CpuAndLocals, Locals, YieldEnds, SleepLocals
  <2> QED
    BY <2>3, <2>4, <2>5 DEF CpuAndLocals, Locals
<1>4. CASE PreemptOrAny
  <2>1. 1 \in 1 .. (Len(readyq) + 1)
    BY <1>4, <1>0, LenProperties DEF PreemptOrAny, TypeOK
  <2> QED
    BY <1>4, <2>1, YieldCpu DEF PreemptOrAny
<1>5. ASSUME NEW t \in Tids, YieldTo(t) PROVE CpuAndLocals'
  <2>1. PICK i \in 1 .. Len(readyq) : CallerReady /\ TakeOut(i)
    BY <1>5 DEF YieldTo
  <2>2. i \in 1 .. (Len(readyq) + 1)
    BY <1>0, LenProperties DEF TypeOK
  <2> QED
    BY <1>5, <2>1, <2>2, YieldCpu DEF YieldTo, May
<1>6. ASSUME NEW t \in Tids, YieldMiss(t) PROVE CpuAndLocals'
  <2>1. PICK i \in 1 .. (Len(readyq) + 1) : CallerReady /\ TakeOut(i)
    BY <1>6 DEF YieldMiss
  <2> QED
    BY <1>2, <1>6, <2>1, YieldCpu DEF YieldMiss, May
<1>7. ASSUME NEW t \in Tids, KillReady(t) \/ KillSleeping(t) \/ Wait(t)
      PROVE  CpuAndLocals'
  BY <1>1, <1>2, <1>7, KeptCpu DEF KillReady, KillSleeping, Wait, May
<1>8. ASSUME NEW q \in Queues,
             QueueCreate(q) \/ QueueDestroy(q) \/ Sleep(q) \/ WakeupAll(q)
      PROVE  CpuAndLocals'
  BY <1>1, <1>2, <1>8, KeptCpu DEF QueueCreate, QueueDestroy, Sleep, WakeupAll, May
<1>9. ASSUME NEW q \in Queues, WakeupOne(q) PROVE CpuAndLocals'
  BY <1>1, <1>9, WakeCpu DEF WakeupOne, May, InUser, Stopped
<1>10. CASE WakeNext
  BY <1>0, <1>10, WakeCpu DEF WakeNext, TypeOK
<1>11. CASE SleepNone
  BY <1>2, <1>11, KeptCpu DEF SleepNone
<1>12. CASE ExitEnter
  <2>1. /\ UNCHANGED <<live, tid, readyq, exitedq, runningrn, next, queue>>
        /\ pc = "user" /\ pc' \in {"stale_queue", "exiting"}
    BY <1>12 DEF ExitEnter, May, InUser
  <2> QED
    BY <1>0, <2>1 DEF CpuAndLocals, CpuHolds, Locals, LiveHaveIds, YieldEnds,
                      SleepLocals, Stopped
<1>13. CASE SleepPop
  <2>1. /\ next' = Head(readyq) /\ pc = "enter_sleep" /\ pc' = "sleep"
        /\ UNCHANGED <<live, tid, exitedq, runningrn, queue>>
        /\ Head(readyq) # Nil /\ Head(readyq) # runningrn
    BY <1>0, <1>13, Before, PopFacts DEF SleepPop, TypeOK, PlaceList, QueuedLive
  <2> QED
    BY <1>0, <2>1 DEF CpuAndLocals, CpuHolds, Locals, LiveHaveIds, YieldEnds,
                      SleepLocals, Stopped
<1>14. CASE StaleThread \/ StaleSleep
  <2>1. /\ UNCHANGED <<live, tid, state, readyq, exitedq, runningrn, next, queue>>
        /\ pc' \in {"stale_thread", "stale_queue"}
        /\ pc \in {"yield", "sleep", "exit"}
    BY <1>14 DEF StaleThread, StaleSleep
  <2> QED
    BY <1>0, <2>1 DEF CpuAndLocals, CpuHolds, Locals, LiveHaveIds, YieldEnds,
                      SleepLocals, Stopped
<1>15. CASE SwitchYield \/ SwitchExit
  <2>1. /\ UNCHANGED <<live, tid, readyq, exitedq, runningrn, next, queue>>
        /\ pc \in {"yield", "exit"} /\ pc' = "user" /\ runningrn \in live
    BY <1>15 DEF SwitchYield, SwitchExit, Runnable, Popped
  <2> QED
    BY <1>0, <2>1 DEF CpuAndLocals, CpuHolds, Locals, LiveHaveIds, YieldEnds,
                      SleepLocals, Stopped
<1>16. CASE SwitchSleep
  <2>1. /\ UNCHANGED <<live, tid, readyq, exitedq>>
        /\ runningrn' = next /\ next' = Nil /\ queue' = Nil
        /\ pc' = "user" /\ next \in live /\ next # Nil
    BY <1>0, <1>16 DEF SwitchSleep, MarkAsleep, JoinQueue, Runnable, Popped, TypeOK
  <2> QED
    BY <1>0, <2>1 DEF CpuAndLocals, CpuHolds, Locals, LiveHaveIds, YieldEnds,
                      SleepLocals, Stopped
<1>17. CASE UNCHANGED vars
  BY <1>0, <1>17 DEF vars, CpuAndLocals, CpuHolds, Locals, LiveHaveIds,
                     YieldEnds, SleepLocals
<1>18. CASE UserCall
  BY <1>3, <1>5, <1>6, <1>7, <1>8, <1>9, <1>12, <1>18 DEF UserCall
<1>19. CASE KernelStep
  BY <1>10, <1>11, <1>13, <1>14, <1>15, <1>16, <1>19, ReapCpu, ExitLeaveCpu
     DEF KernelStep
<1> QED
  BY <1>4, <1>17, <1>18, <1>19 DEF Next, Terminated

-----------------------------------------------------------------------------
LEMMA IInvByParts ==
  ASSUME TypeOK', PlaceList', CpuAndLocals'
  PROVE  IInv'
<1>1. Nil \notin live'
  BY DEF TypeOK
<1>2. (Nil \notin live => (Places <=> PlaceList))'
  BY PlacesIffList, PTL
<1>3. Places'
  BY <1>1, <1>2
<1> QED
  BY <1>3 DEF IInv, Placement, Places, CpuAndLocals

LEMMA IInvStep == IInv /\ [Next]_vars => IInv'
<1> SUFFICES ASSUME IInv, [Next]_vars PROVE IInv'
  OBVIOUS
<1>1. TypeOK' /\ PlaceList' /\ CpuAndLocals'
  BY TypeStep, PlaceStep, LocalsStep
<1> QED
  BY <1>1, IInvByParts

THEOREM Invariance == Spec => []IInv
<1>1. Init => IInv
  BY InitIInv
<1>2. IInv /\ [Next]_vars => IInv'
  BY IInvStep
<1> QED
  BY <1>1, <1>2, PTL DEF Spec

\* Every variable of the kernel stays within its type, whatever calls the
\* program makes and however it is preempted.
THEOREM TypeCorrect == Spec => []TypeOK
<1>1. IInv => TypeOK
  BY DEF IInv
<1> QED
  BY <1>1, Invariance, PTL

\* pop, popbyid and enqueue never lose a TCB, queue it twice, or leave a freed
\* one in a queue: every allocated TCB is in exactly one place.
THEOREM PlacementCorrect == Spec => []Placement
<1>1. IInv => Placement
  BY DEF IInv
<1> QED
  BY <1>1, Invariance, PTL

\* thread_yield's loop over killed threads never runs out of threads.
THEOREM LocalsCorrect == Spec => []Locals
<1>1. IInv => Locals
  BY DEF IInv
<1> QED
  BY <1>1, Invariance, PTL

-----------------------------------------------------------------------------
(* First in, first out. *)

LEMMA InOrder ==
  ASSUME NEW a \in Seq(Threads), NEW b \in Seq(Threads),
         NEW i \in 1 .. Len(b), NEW j \in (i + 1) .. Len(b)
  PROVE  Ahead(a \o b, b[i], b[j])
<1> DEFINE s == a \o b
<1>1. Len(a) \in Nat /\ Len(b) \in Nat
  OBVIOUS
<1>2. Len(s) = Len(a) + Len(b) /\ \A k \in 1 .. Len(b) : s[Len(a) + k] = b[k]
  BY <1>1, ConcatProperties
<1>3. /\ Len(a) + i \in 1 .. Len(s) /\ Len(a) + j \in 1 .. Len(s)
      /\ Len(a) + i < Len(a) + j
  BY <1>1, <1>2
<1>4. s[Len(a) + i] = b[i] /\ s[Len(a) + j] = b[j]
  BY <1>1, <1>2
<1> HIDE DEF s
<1>5. Ahead(s, b[i], b[j])
  BY <1>3, <1>4 DEF Ahead
<1> QED
  BY <1>5 DEF s

LEMMA AcrossBoth ==
  ASSUME NEW a \in Seq(Threads), NEW b \in Seq(Threads),
         NEW i \in 1 .. Len(a), NEW j \in 1 .. Len(b)
  PROVE  Ahead(a \o b, a[i], b[j])
<1> DEFINE s == a \o b
<1>1. Len(a) \in Nat /\ Len(b) \in Nat
  OBVIOUS
<1>2. /\ Len(s) = Len(a) + Len(b)
      /\ \A k \in 1 .. Len(b) : s[Len(a) + k] = b[k]
      /\ \A k \in 1 .. Len(a) : s[k] = a[k]
  BY <1>1, ConcatProperties
<1>3. i \in 1 .. Len(s) /\ Len(a) + j \in 1 .. Len(s) /\ i < Len(a) + j
  BY <1>1, <1>2
<1>4. s[i] = a[i] /\ s[Len(a) + j] = b[j]
  BY <1>1, <1>2
<1> HIDE DEF s
<1>5. Ahead(s, a[i], b[j])
  BY <1>3, <1>4 DEF Ahead
<1> QED
  BY <1>5 DEF s

\* What one step promises to the queue q.
Fifo(q) ==
    \A i \in 1 .. Len(waitq[q]) :
       \A r \in {waitq[q][j] : j \in (i + 1) .. Len(waitq[q])}
                  \cup (ToSet(waitq'[q]) \ ToSet(waitq[q])) :
          Ahead(readyq' \o waitq'[q], waitq[q][i], r)

LEMMA FifoStep ==
  ASSUME IInv, [Next]_vars
  PROVE  \A q \in WaitQueues : Fifo(q)
<1>0. /\ TypeOK /\ TypeOK'
      /\ readyq \in Seq(Threads) /\ readyq' \in Seq(Threads)
      /\ waitq \in [WaitQueues -> Seq(Threads)]
      /\ waitq' \in [WaitQueues -> Seq(Threads)]
  BY TypeStep DEF IInv, TypeOK
<1>1. ASSUME NEW q \in WaitQueues, waitq'[q] = waitq[q] PROVE Fifo(q)
  <2> SUFFICES ASSUME NEW i \in 1 .. Len(waitq[q]),
                      NEW j \in (i + 1) .. Len(waitq[q])
               PROVE  Ahead(readyq' \o waitq[q], waitq[q][i], waitq[q][j])
    BY <1>1 DEF Fifo
  <2> DEFINE w == waitq[q]
             a == readyq'
  <2>1. w \in Seq(Threads) /\ a \in Seq(Threads)
    BY <1>0
  <2> HIDE DEF w, a
  <2>2. \A k \in 1 .. Len(w) : \A m \in (k + 1) .. Len(w) : Ahead(a \o w, w[k], w[m])
    BY <2>1, InOrder
  <2> QED
    BY <2>2 DEF w, a
\* The first sleeper goes to the end of the ready queue, and so before those
\* who stay.
<1>2. ASSUME NEW q \in WaitQueues, WakeHead(q) PROVE Fifo(q)
  <2> DEFINE w == waitq[q]
             t == waitq'[q]
             a == readyq'
  <2>1. /\ w \in Seq(Threads) /\ w # <<>> /\ t = Tail(w)
        /\ a = Append(readyq, Head(w)) /\ t \in Seq(Threads) /\ a \in Seq(Threads)
    BY <1>0, <1>2 DEF WakeHead
  <2> HIDE DEF w, t, a
  <2>2. /\ Len(w) \in Nat \ {0} /\ Head(w) = w[1]
        /\ Len(t) = Len(w) - 1
        /\ \A k \in 1 .. Len(t) : t[k] = w[k + 1]
    BY <2>1, HeadTailProperties, EmptySeq
  <2>3. /\ Len(readyq) \in Nat /\ Len(readyq) + 1 \in 1 .. Len(a)
        /\ a[Len(readyq) + 1] = w[1]
    BY <1>0, <2>1, <2>2, AppendProperties, ElementOfSeq
  <2>4. ToSet(t) \ ToSet(w) = {}
    <3>0. t \in Seq(Threads) /\ w \in Seq(Threads)
      BY <2>1
    <3>1. \A x : x \in ToSet(t) => \E k \in 1 .. Len(t) : t[k] = x
      BY <3>0, ByPosition
    <3>2. \A x : (\E k \in 1 .. Len(w) : w[k] = x) => x \in ToSet(w)
      BY <3>0, ByPosition
    <3>3. ASSUME NEW x \in ToSet(t) PROVE x \in ToSet(w)
      <4>1. PICK k \in 1 .. Len(t) : t[k] = x
        BY <3>1
      <4>2. k + 1 \in 1 .. Len(w) /\ w[k + 1] = x
        BY <2>2, <4>1
      <4> QED
        BY <3>2, <4>2
    <3> QED
      BY <3>3
  <2>5. ASSUME NEW i \in 1 .. Len(w), NEW j \in (i + 1) .. Len(w)
        PROVE  Ahead(a \o t, w[i], w[j])
    <3>1. j - 1 \in 1 .. Len(t) /\ t[j - 1] = w[j]
      <4>1. j - 1 \in 1 .. Len(t) /\ (j - 1) + 1 = j
        BY <2>2
      <4> QED
        BY <2>2, <4>1
    <3>2. CASE i = 1
      <4>1. Ahead(a \o t, a[Len(readyq) + 1], t[j - 1])
        BY <2>1, <2>3, <3>1, AcrossBoth
      <4> QED
        BY <2>3, <3>1, <3>2, <4>1
    <3>3. CASE i > 1
      <4>1. /\ i - 1 \in 1 .. Len(t) /\ (i - 1) + 1 = i
            /\ j - 1 \in ((i - 1) + 1) .. Len(t)
        BY <2>2, <3>3
      <4>2. t[i - 1] = w[i]
        BY <2>2, <4>1
      <4>3. Ahead(a \o t, t[i - 1], t[j - 1])
        BY <2>1, <4>1, InOrder
      <4> QED
        BY <3>1, <4>2, <4>3
    <3> QED
      BY <2>2, <3>2, <3>3
  <2> QED
    BY <2>4, <2>5 DEF Fifo, w, t, a
\* The new sleeper stands behind all others.
<1>3. ASSUME SwitchSleep, NEW q \in WaitQueues PROVE Fifo(q)
  <2>0. /\ queue \in WaitQueues /\ runningrn \in Threads
        /\ waitq' = [waitq EXCEPT ![queue] = Append(waitq[queue], runningrn)]
        /\ UNCHANGED readyq
    BY <1>3 DEF SwitchSleep, JoinQueue, IInv, TypeOK, Placement, CpuHolds,
                Locals, SleepLocals, Stopped
  <2>1. CASE q # queue
    <3>1. waitq'[q] = waitq[q]
      BY <1>0, <2>0, <2>1
    <3> QED
      BY <1>1, <3>1
  <2>2. CASE q = queue
    <3> DEFINE w == waitq[q]
               t == waitq'[q]
    <3>1. w \in Seq(Threads) /\ t = Append(w, runningrn)
      BY <1>0, <2>0, <2>2
    <3> HIDE DEF w, t
    <3>2. /\ Len(w) \in Nat /\ t \in Seq(Threads) /\ Len(t) = Len(w) + 1
          /\ \A k \in 1 .. Len(w) : t[k] = w[k]
          /\ t[Len(w) + 1] = runningrn
      BY <2>0, <3>1, AppendProperties
    <3>3. ToSet(t) \ ToSet(w) \subseteq {runningrn}
      BY <2>0, <3>1, EnqueueFacts
    <3>4. ASSUME NEW i \in 1 .. Len(w), NEW j \in (i + 1) .. Len(w) + 1
          PROVE  Ahead(readyq' \o t, w[i], t[j])
      <4>1. i \in 1 .. Len(t) /\ j \in (i + 1) .. Len(t) /\ t[i] = w[i]
        BY <3>2
      <4>2. Ahead(readyq' \o t, t[i], t[j])
        BY <1>0, <3>2, <4>1, InOrder
      <4> QED
        BY <4>1, <4>2
    <3>5. ASSUME NEW i \in 1 .. Len(w), NEW j \in (i + 1) .. Len(w)
          PROVE  Ahead(readyq' \o t, w[i], w[j])
      <4>1. j \in (i + 1) .. Len(w) + 1 /\ t[j] = w[j]
        BY <3>2
      <4> QED
        BY <3>4, <4>1
    <3>6. ASSUME NEW i \in 1 .. Len(w) PROVE Ahead(readyq' \o t, w[i], runningrn)
      <4>1. Len(w) + 1 \in (i + 1) .. Len(w) + 1
        BY <3>2
      <4> QED
        BY <3>2, <3>4, <4>1
    <3> QED
      BY <3>3, <3>5, <3>6 DEF Fifo, w, t
  <2> QED
    BY <2>1, <2>2
\* Everything else leaves the wait queues alone.
<1>4. ASSUME UNCHANGED waitq, NEW q \in WaitQueues PROVE Fifo(q)
  BY <1>1, <1>4
<1>5. ASSUME NEW p \in WaitQueues, WakeHead(p), NEW q \in WaitQueues PROVE Fifo(q)
  <2>1. CASE q = p
    BY <1>2, <1>5, <2>1
  <2>2. CASE q # p
    <3>1. waitq'[q] = waitq[q]
      BY <1>0, <1>5, <2>2 DEF WakeHead
    <3> QED
      BY <1>1, <3>1
  <2> QED
    BY <2>1, <2>2
<1>6. ASSUME WakeNext, NEW q \in WaitQueues PROVE Fifo(q)
  BY <1>0, <1>5, <1>6 DEF WakeNext, TypeOK
<1>7. ASSUME NEW p \in Queues, WakeupOne(p), NEW q \in WaitQueues PROVE Fifo(q)
  BY <1>5, <1>7 DEF WakeupOne, WaitQueues
<1>8. ASSUME NEW p \in Queues, NEW q \in WaitQueues,
             QueueCreate(p) \/ QueueDestroy(p) \/ Sleep(p) \/ WakeupAll(p)
      PROVE  Fifo(q)
  BY <1>4, <1>8 DEF QueueCreate, QueueDestroy, Sleep, WakeupAll
<1>9. ASSUME NEW t \in Tids, NEW q \in WaitQueues,
             \/ YieldTo(t) \/ YieldMiss(t) \/ KillReady(t) \/ KillSleeping(t)
             \/ Wait(t)
      PROVE  Fifo(q)
  BY <1>4, <1>9 DEF YieldTo, YieldMiss, KillReady, KillSleeping, Wait, CallerReady
<1>10. ASSUME Create \/ ExitEnter \/ PreemptOrAny \/ Terminated \/ UNCHANGED vars,
              NEW q \in WaitQueues
       PROVE  Fifo(q)
  BY <1>4, <1>10 DEF Create, ExitEnter, PreemptOrAny, CallerReady, Terminated, vars
<1>11. ASSUME \/ SleepNone \/ SleepPop \/ ExitLeave \/ Reap \/ StaleThread
              \/ SwitchYield \/ SwitchExit \/ StaleSleep,
              NEW q \in WaitQueues
       PROVE  Fifo(q)
  BY <1>4, <1>11 DEF SleepNone, SleepPop, ExitLeave, Reap, StaleThread,
                     SwitchYield, SwitchExit, StaleSleep
<1> QED
  BY <1>3, <1>6, <1>7, <1>8, <1>9, <1>10, <1>11 DEF Next, UserCall, KernelStep

\* Who is in front of whom in what Append, Tail and RemoveAt leave.
LEMMA AppendFront ==
  ASSUME NEW s \in Seq(Threads), NEW e \in Threads, e \notin ToSet(s),
         NEW p \in ToSet(s), NEW r, Ahead(Append(s, e), r, p)
  PROVE  Ahead(s, r, p)
<1> DEFINE t == Append(s, e)
<1>1. /\ Len(s) \in Nat /\ Len(t) = Len(s) + 1 /\ t[Len(s) + 1] = e
      /\ \A k \in 1 .. Len(s) : t[k] = s[k]
  BY AppendProperties
<1>2. p # e
  OBVIOUS
<1>3. Ahead(t, r, p)
  OBVIOUS
<1> HIDE DEF t
<1>4. PICK i, j \in 1 .. Len(t) : i < j /\ t[i] = r /\ t[j] = p
  BY <1>3 DEF Ahead
<1>5. j # Len(s) + 1
  BY <1>1, <1>2, <1>4
<1>6. i \in 1 .. Len(s) /\ j \in 1 .. Len(s)
  BY <1>1, <1>4, <1>5
<1> QED
  BY <1>1, <1>4, <1>6 DEF Ahead

LEMMA RemoveFront ==
  ASSUME NEW s \in Seq(Threads), NEW i \in 1 .. Len(s), NEW p, NEW r,
         Ahead(RemoveAt(s, i), r, p)
  PROVE  Ahead(s, r, p)
<1> DEFINE t == RemoveAt(s, i)
<1>1. /\ Len(s) \in Nat /\ Len(t) = Len(s) - 1
      /\ \A k \in 1 .. Len(t) : t[k] = IF k < i THEN s[k] ELSE s[k + 1]
  BY RemoveByPosition
<1>2. Ahead(t, r, p)
  OBVIOUS
<1> HIDE DEF t
<1>3. PICK j, k \in 1 .. Len(t) : j < k /\ t[j] = r /\ t[k] = p
  BY <1>2 DEF Ahead
<1> DEFINE at(m) == IF m < i THEN m ELSE m + 1
<1>4. /\ at(j) \in 1 .. Len(s) /\ at(k) \in 1 .. Len(s) /\ at(j) < at(k)
  BY <1>1, <1>3
<1>5. s[at(j)] = r /\ s[at(k)] = p
  BY <1>1, <1>3
<1> HIDE DEF at
<1> QED
  BY <1>4, <1>5 DEF Ahead

LEMMA TailFront ==
  ASSUME NEW s \in Seq(Threads), s # <<>>, NEW p, NEW r, Ahead(Tail(s), r, p)
  PROVE  Ahead(s, r, p)
<1> DEFINE t == Tail(s)
<1>1. /\ Len(s) \in Nat \ {0} /\ Len(t) = Len(s) - 1
      /\ \A k \in 1 .. Len(t) : t[k] = s[k + 1]
  BY HeadTailProperties, EmptySeq
<1>2. Ahead(t, r, p)
  OBVIOUS
<1> HIDE DEF t
<1>3. PICK j, k \in 1 .. Len(t) : j < k /\ t[j] = r /\ t[k] = p
  BY <1>2 DEF Ahead
<1>4. j + 1 \in 1 .. Len(s) /\ k + 1 \in 1 .. Len(s) /\ j + 1 < k + 1
  BY <1>1, <1>3
<1> QED
  BY <1>1, <1>3, <1>4 DEF Ahead

\* What one step promises to the ready threads.
Served ==
    \A p \in ToSet(readyq) \cap ToSet(readyq') :
       /\ InFront(p)' \subseteq InFront(p)
       /\ PreemptOrAny => InFront(p)' # InFront(p)

LEMMA CallerApart ==
  ASSUME IInv, InUser
  PROVE  /\ readyq \in Seq(Threads) /\ IsInjective(readyq)
         /\ runningrn \in Threads /\ runningrn \notin ToSet(readyq)
<1>1. TypeOK /\ PlaceList /\ runningrn \in live /\ runningrn \in Threads
  BY Before DEF InUser, Stopped
<1>2. runningrn \notin ToSet(readyq) /\ IsInjective(readyq)
  BY <1>1 DEF PlaceList, OneEntry, OneExited, QueuesApart, QueuedLive, NoneLost
<1> QED
  BY <1>1, <1>2 DEF TypeOK

\* The caller goes to the end, somebody is taken out.
LEMMA TakeOutServes ==
  ASSUME IInv, InUser, NEW i \in 1 .. (Len(readyq) + 1), TakeOut(i),
         NEW p \in ToSet(readyq) \cap ToSet(readyq')
  PROVE  InFront(p)' \subseteq InFront(p)
<1> DEFINE q == Append(readyq, runningrn)
<1>1. readyq \in Seq(Threads) /\ runningrn \in Threads /\ runningrn \notin ToSet(readyq)
  BY CallerApart
<1>2. q \in Seq(Threads) /\ Len(q) = Len(readyq) + 1 /\ readyq' = RemoveAt(q, i)
  BY <1>1, AppendProperties DEF TakeOut
<1>3. \A r : Ahead(q, r, p) => Ahead(readyq, r, p)
  BY <1>1, AppendFront
<1> HIDE DEF q
<1>4. \A r : Ahead(readyq', r, p) => Ahead(q, r, p)
  BY <1>2, RemoveFront
<1> QED
  BY <1>3, <1>4 DEF InFront


\* Of those in front of a ready thread the first is gone when it is preempted.
LEMMA PreemptServes ==
  ASSUME IInv, PreemptOrAny, NEW p \in ToSet(readyq) \cap ToSet(readyq')
  PROVE  InFront(p)' # InFront(p)
<1> DEFINE q == Append(readyq, runningrn)
           h == readyq[1]
<1>1. /\ readyq \in Seq(Threads) /\ IsInjective(readyq) /\ readyq # <<>>
      /\ runningrn \in Threads /\ runningrn \notin ToSet(readyq) /\ readyq' = RemoveAt(q, 1)
  BY CallerApart DEF PreemptOrAny, TakeOut
<1>2. /\ q \in Seq(Threads) /\ IsInjective(q) /\ Len(q) = Len(readyq) + 1
      /\ \A k \in 1 .. Len(readyq) : q[k] = readyq[k]
  BY <1>1, EnqueueFacts, AppendProperties
<1>3. 1 \in 1 .. Len(readyq) /\ 1 \in 1 .. Len(q) /\ q[1] = h /\ h \in Threads
  BY <1>1, <1>2, EmptySeq, ElementOfSeq
<1> HIDE DEF q
<1>4. readyq' \in Seq(Threads) /\ ToSet(readyq') = ToSet(q) \ {h}
  BY <1>1, <1>2, <1>3, RemoveFacts
<1> HIDE DEF h
<1>5. p # h
  BY <1>4
<1>6. PICK j \in 1 .. Len(readyq) : readyq[j] = p
  BY <1>1, ByPosition
<1>7. readyq[1] = h
  BY DEF h
<1>8. 1 < j
  BY <1>3, <1>5, <1>6, <1>7
<1>9. h \in InFront(p)
  BY <1>3, <1>6, <1>7, <1>8 DEF InFront, Ahead
<1>10. h \notin InFront(p)'
  <2> SUFFICES ASSUME Ahead(readyq', h, p) PROVE FALSE
    BY DEF InFront
  <2>1. \E k \in 1 .. Len(readyq') : readyq'[k] = h
    BY DEF Ahead
  <2>2. h \in ToSet(readyq')
    BY <1>4, <2>1, ByPosition
  <2> QED
    BY <1>4, <2>2
<1> QED
  BY <1>9, <1>10

LEMMA ServedStep == ASSUME IInv, [Next]_vars PROVE Served
<1> SUFFICES ASSUME NEW p \in ToSet(readyq) \cap ToSet(readyq')
             PROVE  InFront(p)' \subseteq InFront(p)
  BY PreemptServes DEF Served
<1>0. /\ TypeOK /\ PlaceList /\ readyq \in Seq(Threads)
      /\ waitq \in [WaitQueues -> Seq(Threads)] /\ ToSet(readyq) \subseteq live
  BY Before DEF TypeOK, PlaceList, OneEntry, OneExited, QueuesApart, QueuedLive, NoneLost
<1>1. ASSUME UNCHANGED readyq PROVE InFront(p)' \subseteq InFront(p)
  BY <1>1 DEF InFront
<1>2. ASSUME NEW e \in Threads, e \notin ToSet(readyq), readyq' = Append(readyq, e)
      PROVE  InFront(p)' \subseteq InFront(p)
  BY <1>0, <1>2, AppendFront DEF InFront
<1>3. ASSUME readyq # <<>>, readyq' = Tail(readyq)
      PROVE  InFront(p)' \subseteq InFront(p)
  BY <1>0, <1>3, TailFront DEF InFront
<1>4. CASE Create
  <2>1. \E e \in Threads \ live : readyq' = Append(readyq, e)
    BY <1>4 DEF Create
  <2> QED
    BY <1>0, <1>2, <2>1
<1>5. ASSUME NEW w \in WaitQueues, WakeHead(w) PROVE InFront(p)' \subseteq InFront(p)
  <2>1. waitq[w] \in Seq(Threads) /\ waitq[w] # <<>> /\ readyq' = Append(readyq, Head(waitq[w]))
    BY <1>0, <1>5 DEF WakeHead
  <2>2. Head(waitq[w]) \in Threads /\ Head(waitq[w]) \in ToSet(waitq[w])
    BY <2>1, PopFacts
  <2>3. ToSet(waitq[w]) \cap ToSet(readyq) = {}
    BY <1>0 DEF PlaceList, OneEntry, OneExited, QueuesApart, QueuedLive, NoneLost
  <2> QED
    BY <1>2, <2>1, <2>2, <2>3
<1>6. CASE WakeNext
  BY <1>0, <1>5, <1>6 DEF WakeNext, TypeOK
<1>7. ASSUME NEW w \in Queues, WakeupOne(w) PROVE InFront(p)' \subseteq InFront(p)
  BY <1>5, <1>7 DEF WakeupOne, WaitQueues
<1>8. CASE SleepPop \/ ExitLeave \/ Reap
  BY <1>1, <1>3, <1>8 DEF SleepPop, ExitLeave, Reap
<1>9. CASE PreemptOrAny
  <2>1. InUser /\ TakeOut(1) /\ 1 \in 1 .. (Len(readyq) + 1)
    BY <1>0, <1>9 DEF PreemptOrAny
  <2> QED
    BY <2>1, TakeOutServes
<1>10. ASSUME NEW t \in Tids, YieldTo(t) \/ YieldMiss(t) PROVE InFront(p)' \subseteq InFront(p)
  <2>1. InUser /\ \E i \in 1 .. (Len(readyq) + 1) : TakeOut(i)
    BY <1>0, <1>10 DEF YieldTo, YieldMiss, May
  <2> QED
    BY <2>1, TakeOutServes
<1>11. ASSUME NEW t \in Tids, KillReady(t) \/ KillSleeping(t) \/ Wait(t)
       PROVE  InFront(p)' \subseteq InFront(p)
  BY <1>1, <1>11 DEF KillReady, KillSleeping, Wait
<1>12. ASSUME NEW w \in Queues, QueueCreate(w) \/ QueueDestroy(w) \/ Sleep(w) \/ WakeupAll(w)
       PROVE  InFront(p)' \subseteq InFront(p)
  BY <1>1, <1>12 DEF QueueCreate, QueueDestroy, Sleep, WakeupAll
<1>13. CASE \/ ExitEnter \/ SleepNone \/ StaleThread \/ SwitchYield \/ SwitchExit
            \/ SwitchSleep \/ StaleSleep \/ Terminated \/ UNCHANGED vars
  BY <1>1, <1>13 DEF ExitEnter, SleepNone, StaleThread, SwitchYield, SwitchExit,
                     SwitchSleep, StaleSleep, Terminated, vars
<1> QED
  BY <1>4, <1>6, <1>7, <1>8, <1>9, <1>10, <1>11, <1>12, <1>13 DEF Next, UserCall, KernelStep

\* thread_wakeup wakes in FIFO order and no sleeper is overtaken, whatever is
\* killed, exits or yields meanwhile; nor is a ready thread, which comes nearer
\* to the CPU with each preemption.
THEOREM FifoCorrect == Spec => FifoOrder
<1>1. IInv /\ [Next]_vars => \A q \in WaitQueues : Fifo(q)
  BY FifoStep
<1>2. IInv /\ [Next]_vars =>
        [\A q \in WaitQueues : \A i \in 1 .. Len(waitq[q]) :
          \A r \in {waitq[q][j] : j \in (i + 1) .. Len(waitq[q])}
                     \cup (ToSet(waitq'[q]) \ ToSet(waitq[q])) :
              Ahead(readyq' \o waitq'[q], waitq[q][i], r)]_vars
  BY <1>1 DEF Fifo
<1>3. IInv /\ [Next]_vars =>
        [\A p \in ToSet(readyq) \cap ToSet(readyq') :
          /\ InFront(p)' \subseteq InFront(p)
          /\ PreemptOrAny => InFront(p)' # InFront(p)]_vars
  BY ServedStep DEF Served
<1> QED
  BY <1>2, <1>3, Invariance, PTL DEF Spec, FifoOrder, WakeFifo, ReadyFifo

-----------------------------------------------------------------------------
(***************************************************************************)
(* The identifiers, the marks that thread_sleep and thread_kill leave in   *)
(* idarray, and what a killed thread does, for programs that do not kill   *)
(* and for programs that do not sleep.  With both, an identifier can be    *)
(* lost (Reap frees the caller's when thread_sleep meets a killed thread), *)
(* which a run shows.                                                      *)
(***************************************************************************)
NoKill  == "kill" \notin Calls
NoSleep == "sleep" \notin Calls /\ "wait" \notin Calls

\* An exited thread keeps no identifier in its TCB.
ExitedHaveNone == \A p \in ToSet(exitedq) : tid[p] = NoTid

Owned == Identifiers /\ ExitedHaveNone

-----------------------------------------------------------------------------
\* Without thread_kill: whoever joins t joins a thread with that identifier,
\* and its wait queue is there until the exiting thread has woken everybody.
JoinqThere ==
    /\ \A t \in Tids : waitq[t] # <<>> => idarray[t].wq = "live" \/ waking = t
    /\ queue \in Tids => idarray[queue].wq # "null"
    /\ pc = "exiting" =>
          \A t \in Tids : t = tid[runningrn] => waitq[t] = <<>> \/ waking = t

JoinersTarget ==
    \A t \in Tids : (waitq[t] # <<>> /\ waking # t) \/ queue = t =>
        \E p \in live : tid[p] = t

\* Nobody was killed, asleep or ready.
NobodyKilled == SleepersMarked /\ \A p \in live : state[p] # "DEAD"

KillFree == NobodyKilled /\ JoinqThere /\ JoinersTarget

-----------------------------------------------------------------------------
\* Without thread_sleep and thread_wait nobody is in a wait queue, and what
\* runs is alive.
NobodySleeps ==
    /\ \A q \in WaitQueues : waitq[q] = <<>>
    /\ waking = Nil
    /\ pc \notin {"enter_sleep", "sleep"}

RunsAlive == pc \in {"user", "exiting"} => state[runningrn] # "DEAD"

SleepFree == NobodySleeps /\ RunsAlive

-----------------------------------------------------------------------------
\* What thread_yield will return, if nobody is killed.
RetidRight ==
    pc = "yield" => runningrn \in live /\ retid = tid[runningrn]

-----------------------------------------------------------------------------
(* The entries of idarray. *)

\* idarray' differs from idarray in the state of t at most, which becomes v.
Marks(t, v) ==
    \A u \in Tids : /\ idarray'[u].status = idarray[u].status
                    /\ idarray'[u].wq = idarray[u].wq
                    /\ idarray'[u].state = IF u = t THEN v ELSE idarray[u].state

LEMMA MarksOne ==
  ASSUME TypeOK, NEW t, NEW v, idarray' = [idarray EXCEPT ![t].state = v]
  PROVE  Marks(t, v)
  BY DEF TypeOK, IdNodes, Marks

LEMMA MarksTwo ==
  ASSUME TypeOK, NEW t, NEW u, NEW v, NEW w,
         idarray' = [idarray EXCEPT ![t].state = v, ![u].state = w]
  PROVE  \A x \in Tids :
            /\ idarray'[x].status = idarray[x].status
            /\ idarray'[x].wq = idarray[x].wq
            /\ idarray'[x].state = IF x = u THEN w
                                   ELSE IF x = t THEN v ELSE idarray[x].state
  BY DEF TypeOK, IdNodes

\* What thread_wait does to the table.
LEMMA MarksWait ==
  ASSUME TypeOK, NEW t, NEW u, NEW v,
         idarray' = [idarray EXCEPT ![u].state = v,
                                    ![t].wq = IF @ = "null" THEN "live" ELSE @]
  PROVE  \A x \in Tids :
            /\ idarray'[x].status = idarray[x].status
            /\ idarray'[x].state = IF x = u THEN v ELSE idarray[x].state
            /\ idarray'[x].wq = IF x = t /\ idarray[t].wq = "null"
                                THEN "live" ELSE idarray[x].wq
<1>1. idarray \in [Tids -> IdNodes]
  BY DEF TypeOK
<1>2. ASSUME NEW x \in Tids
      PROVE  /\ idarray'[x].status = idarray[x].status
             /\ idarray'[x].state = IF x = u THEN v ELSE idarray[x].state
             /\ idarray'[x].wq = IF x = t /\ idarray[t].wq = "null"
                                 THEN "live" ELSE idarray[x].wq
  <2>1. CASE x = t /\ x = u
    BY <1>1, <2>1, SMTT(30) DEF IdNodes
  <2>2. CASE x = t /\ x # u
    BY <1>1, <2>2, SMTT(30) DEF IdNodes
  <2>3. CASE x # t /\ x = u
    BY <1>1, <2>3, SMTT(30) DEF IdNodes
  <2>4. CASE x # t /\ x # u
    BY <1>1, <2>4, SMTT(30) DEF IdNodes
  <2> QED
    BY <2>1, <2>2, <2>3, <2>4
<1> QED
  BY <1>2

\* What the end of a thread does to it.
LEMMA MarksLeave ==
  ASSUME TypeOK, NEW t, NEW x, NEW v,
         idarray' = [idarray EXCEPT ![t].status = x, ![t].state = v]
  PROVE  \A u \in Tids :
            /\ idarray'[u].status = IF u = t THEN x ELSE idarray[u].status
            /\ idarray'[u].state = IF u = t THEN v ELSE idarray[u].state
            /\ idarray'[u].wq = idarray[u].wq
  BY DEF TypeOK, IdNodes

LEMMA MarksReap ==
  ASSUME TypeOK, NEW t, NEW s, NEW x, NEW w,
         idarray' = [idarray EXCEPT ![s].status = x, ![t].wq = w]
  PROVE  \A u \in Tids :
            /\ idarray'[u].status = IF u = s THEN x ELSE idarray[u].status
            /\ idarray'[u].state = idarray[u].state
            /\ idarray'[u].wq = IF u = t THEN w ELSE idarray[u].wq
  BY DEF TypeOK, IdNodes

LEMMA MarksWq ==
  ASSUME TypeOK, NEW t, NEW w, idarray' = [idarray EXCEPT ![t].wq = w]
  PROVE  \A u \in Tids :
            /\ idarray'[u].status = idarray[u].status
            /\ idarray'[u].state = idarray[u].state
            /\ idarray'[u].wq = IF u = t THEN w ELSE idarray[u].wq
  BY DEF TypeOK, IdNodes

LEMMA MarksUsed ==
  ASSUME TypeOK, NEW t, MarkUsed(t)
  PROVE  \A u \in Tids :
            /\ idarray'[u].status = IF u = t THEN "USED" ELSE idarray[u].status
            /\ idarray'[u].state = idarray[u].state
            /\ idarray'[u].wq = idarray[u].wq
  BY DEF TypeOK, IdNodes, MarkUsed

-----------------------------------------------------------------------------
\* Where the threads are, and who has an identifier.
LEMMA Where ==
  ASSUME IInv
  PROVE  /\ TypeOK /\ live \subseteq Threads /\ Nil \notin live
         /\ \A p \in ToSet(readyq) :
               /\ p \in live /\ p # runningrn /\ p # next
               /\ p \notin ToSet(exitedq) /\ tid[p] \in Tids
         /\ \A q \in WaitQueues : \A p \in ToSet(waitq[q]) :
               /\ p \in live /\ p # runningrn /\ p # next
               /\ p \notin ToSet(exitedq) /\ tid[p] \in Tids
         /\ \A p \in ToSet(exitedq) : p \in live /\ p # runningrn /\ p # next
         /\ runningrn \in live => tid[runningrn] \in Tids
         /\ next \in live => tid[next] \in Tids
         /\ pc \notin Stopped \cup {"exit"} => runningrn \in live
<1>1. /\ TypeOK /\ QueuesApart /\ QueuedLive
      /\ live \subseteq Threads /\ Nil \notin live
      /\ pc \notin Stopped \cup {"exit"} => runningrn \in live
  BY Before DEF PlaceList
<1>2. LiveHaveIds
  BY DEF IInv, Locals
<1>3. \A p \in ToSet(readyq) :
         /\ p \in live /\ p # runningrn /\ p # next
         /\ p \notin ToSet(exitedq)
  BY <1>1 DEF QueuesApart, QueuedLive
<1>4. \A q \in WaitQueues : \A p \in ToSet(waitq[q]) :
         /\ p \in live /\ p # runningrn /\ p # next
         /\ p \notin ToSet(exitedq)
  BY <1>1 DEF QueuesApart, QueuedLive
<1>5. \A p \in ToSet(exitedq) : p \in live /\ p # runningrn /\ p # next
  BY <1>1 DEF QueuedLive
<1> QED
  BY <1>1, <1>2, <1>3, <1>4, <1>5 DEF LiveHaveIds

\* Only thread_create, thread_exit and the freeing of a killed thread change
\* who has which identifier.
LEMMA IdsKept ==
  ASSUME IInv, [Next]_vars
  PROVE  \/ Create \/ ExitLeave \/ Reap
         \/ /\ UNCHANGED <<live, tid, exitedq>>
            /\ \A t \in Tids : idarray'[t].status = idarray[t].status
<1> DEFINE Same == /\ UNCHANGED <<live, tid, exitedq>>
                   /\ \A t \in Tids : idarray'[t].status = idarray[t].status
<1>0. TypeOK
  BY DEF IInv
<1>1. ASSUME CallerReady PROVE \A t \in Tids : idarray'[t].status = idarray[t].status
  BY <1>0, <1>1, MarksOne DEF CallerReady, Marks
<1>2. CASE PreemptOrAny
  BY <1>1, <1>2 DEF PreemptOrAny, CallerReady
<1>3. ASSUME NEW t \in Tids, YieldTo(t) \/ YieldMiss(t) PROVE Same
  BY <1>1, <1>3 DEF YieldTo, YieldMiss, CallerReady
<1>4. ASSUME NEW t \in Tids, KillReady(t) \/ KillSleeping(t) PROVE Same
  <2>1. Marks(t, "DEAD")
    BY <1>0, <1>4, MarksOne DEF KillReady, KillSleeping
  <2> QED
    BY <1>4, <2>1 DEF KillReady, KillSleeping, Marks
<1>5. ASSUME NEW t \in Tids, Wait(t) PROVE Same
  BY <1>0, <1>5, MarksWait DEF Wait
<1>6. ASSUME NEW q \in Queues,
             QueueCreate(q) \/ QueueDestroy(q) \/ Sleep(q) \/ WakeupAll(q)
      PROVE  Same
  BY <1>6 DEF QueueCreate, QueueDestroy, Sleep, WakeupAll
<1>7. ASSUME NEW q, WakeHead(q) PROVE Same
  <2>1. Marks(tid[Head(waitq[q])], "READY") \/ idarray' = idarray
    BY <1>0, <1>7, MarksOne DEF WakeHead
  <2>2. \A t \in Tids : idarray'[t].status = idarray[t].status
    BY <2>1 DEF Marks
  <2> QED
    BY <1>7, <2>2 DEF WakeHead
<1>8. ASSUME NEW q \in Queues, WakeupOne(q) PROVE Same
  BY <1>7, <1>8 DEF WakeupOne
<1>9. CASE WakeNext
  BY <1>7, <1>9 DEF WakeNext
<1>10. CASE ExitEnter
  BY <1>0, <1>10, MarksWq DEF ExitEnter
<1>11. CASE SwitchYield
  BY <1>0, <1>11, MarksOne DEF SwitchYield, Marks
<1>12. CASE SwitchSleep
  BY <1>0, <1>12, MarksTwo DEF SwitchSleep, MarkAsleep
<1>13. CASE SleepNone \/ SleepPop \/ StaleThread \/ SwitchExit \/ StaleSleep
  BY <1>13 DEF SleepNone, SleepPop, StaleThread, SwitchExit, StaleSleep
<1>14. CASE UNCHANGED vars
  BY <1>14 DEF vars
<1>15. CASE UserCall
  BY <1>3, <1>4, <1>5, <1>6, <1>8, <1>10, <1>15 DEF UserCall
<1>16. CASE KernelStep
  BY <1>9, <1>11, <1>12, <1>13, <1>16 DEF KernelStep
<1> QED
  BY <1>2, <1>14, <1>15, <1>16 DEF Next, Terminated

\* An identifier that nobody has is FREE and the other way round, step by step.
LEMMA OwnedStep ==
  ASSUME IInv, Owned, [Next]_vars, ~(Reap /\ pc = "sleep")
  PROVE  Owned'
<1>0. /\ TypeOK /\ UniqueIds /\ IdAccounting /\ ExitedHaveNone
      /\ tid \in [Threads -> Tids \cup {NoTid}] /\ NoTid \notin Tids
      /\ idarray \in [Tids -> IdNodes]
  BY Where DEF Owned, Identifiers, TypeOK, NoTid, Tids
<1>1. CASE Create
  <2>1. PICK p \in Threads \ live, t \in Tids :
           /\ LowestFree(t) /\ MarkUsed(t)
           /\ live' = live \cup {p} /\ tid' = [tid EXCEPT ![p] = t]
    BY <1>1 DEF Create
  <2>2. exitedq' = exitedq
    BY <1>1 DEF Create
  <2>3. \A r \in live : tid[r] # t
    BY <1>0, <2>1 DEF IdAccounting, LowestFree
  <2>4. /\ tid'[p] = t
        /\ \A r \in live : tid'[r] = tid[r]
    BY <1>0, <2>1, Where
  <2>5. UniqueIds'
    BY <1>0, <2>1, <2>3, <2>4 DEF UniqueIds
  <2>6. IdAccounting'
    <3>1. \A u \in Tids : idarray'[u].status = IF u = t THEN "USED" ELSE idarray[u].status
      BY <1>0, <2>1, MarksUsed
    <3>2. \A u \in Tids :
             (\E r \in live' : tid'[r] = u) <=> u = t \/ \E r \in live : tid[r] = u
      BY <2>1, <2>4
    <3> QED
      BY <1>0, <3>1, <3>2 DEF IdAccounting
  <2>7. ExitedHaveNone'
    BY <1>0, <2>1, <2>2, <2>4, Where DEF ExitedHaveNone
  <2> QED
    BY <2>5, <2>6, <2>7 DEF Owned, Identifiers
<1>2. CASE ExitLeave
  <2> DEFINE old == IF exitedq = <<>> THEN {} ELSE {Head(exitedq)}
             me  == tid[runningrn]
  <2>1. /\ live' = live \ old
        /\ tid' = [p \in Threads |->
                     IF p \in old \cup {runningrn} THEN NoTid ELSE tid[p]]
        /\ exitedq' = Append(IF old = {} THEN exitedq ELSE Tail(exitedq), runningrn)
        /\ idarray' = [idarray EXCEPT ![me].status = "FREE", ![me].state = "READY"]
        /\ runningrn \in live /\ me \in Tids
    BY <1>2, Where DEF ExitLeave, Stopped
  <2>2. old = ToSet(exitedq) /\ ToSet(exitedq') = {runningrn}
    <3>0. runningrn \in Threads
      BY <2>1, Where
    <3>1. ToSet(Append(<<>>, runningrn)) = {runningrn}
      <4> DEFINE e == <<>>
      <4>1. e \in Seq(Threads) /\ ToSet(e) = {}
        BY EmptyFacts
      <4> HIDE DEF e
      <4>2. ToSet(Append(e, runningrn)) = ToSet(e) \cup {runningrn}
        BY <3>0, <4>1, EnqueueFacts
      <4>3. ToSet(Append(e, runningrn)) = {runningrn}
        BY <4>1, <4>2
      <4> QED
        BY <4>3 DEF e
    <3>2. CASE exitedq = <<>>
      <4>1. old = {} /\ exitedq' = Append(<<>>, runningrn)
        BY <2>1, <3>2
      <4> QED
        BY <3>1, <3>2, <4>1, EmptyFacts
    <3>3. CASE exitedq # <<>>
      <4>1. exitedq \in Seq(Threads) /\ Len(exitedq) <= 1 /\ IsInjective(exitedq)
        BY <1>0, Before DEF TypeOK, PlaceList, OneExited, OneEntry
      <4>2. Tail(exitedq) = <<>>
        BY <3>3, <4>1, HeadTailProperties, EmptySeq
      <4>3. /\ ToSet(Tail(exitedq)) = ToSet(exitedq) \ {Head(exitedq)}
            /\ Head(exitedq) \in ToSet(exitedq)
        BY <3>3, <4>1, PopFacts
      <4>4. old = {Head(exitedq)} /\ exitedq' = Append(<<>>, runningrn)
        BY <2>1, <3>3, <4>2
      <4>5. ToSet(exitedq) = {Head(exitedq)}
        BY <4>2, <4>3, EmptyFacts
      <4> QED
        BY <3>1, <4>4, <4>5
    <3> QED
      BY <3>2, <3>3
  <2> HIDE DEF old, me
  <2>3. \A r \in live' : /\ r \in live /\ r \in Threads
                         /\ tid'[r] = IF r = runningrn THEN NoTid ELSE tid[r]
    BY <2>1, Where
  <2>4. \A r \in old : tid[r] = NoTid
    BY <1>0, <2>2 DEF ExitedHaveNone
  <2>5. UniqueIds'
    BY <1>0, <2>3 DEF UniqueIds
  <2>6. IdAccounting'
    <3>1. \A u \in Tids : idarray'[u].status = IF u = me THEN "FREE" ELSE idarray[u].status
      BY <1>0, <2>1, MarksLeave
    <3>2. ~ \E r \in live' : tid'[r] = me
      BY <1>0, <2>1, <2>3 DEF UniqueIds, me
    <3>3. \A u \in Tids \ {me} :
             (\E r \in live' : tid'[r] = u) <=> \E r \in live : tid[r] = u
      BY <1>0, <2>1, <2>3, <2>4 DEF me
    <3>4. "FREE" # "USED"
      OBVIOUS
    <3> QED
      BY <1>0, <3>1, <3>2, <3>3, <3>4 DEF IdAccounting
  <2>7. ExitedHaveNone'
    BY <2>1, <2>2, Where DEF ExitedHaveNone
  <2> QED
    BY <2>5, <2>6, <2>7 DEF Owned, Identifiers
<1>3. CASE Reap
  <2> DEFINE me == tid[runningrn]
  <2>1. /\ pc # "sleep" /\ Popped = runningrn /\ runningrn \in live /\ me \in Tids
        /\ live' = live \ {runningrn} /\ tid' = [tid EXCEPT ![runningrn] = NoTid]
        /\ idarray' = [idarray EXCEPT ![me].status = "FREE", ![me].wq = DestroyJoinq(me)]
        /\ exitedq' = exitedq
    BY <1>3, Where DEF Reap, Popped
  <2> HIDE DEF me
  <2>2. \A r \in live' : r \in live /\ r # runningrn /\ tid'[r] = tid[r]
    BY <1>0, <2>1, Where
  <2>3. UniqueIds'
    BY <1>0, <2>2 DEF UniqueIds
  <2>4. IdAccounting'
    <3>1. \A u \in Tids : idarray'[u].status = IF u = me THEN "FREE" ELSE idarray[u].status
      BY <1>0, <2>1, MarksReap
    <3>2. ~ \E r \in live' : tid'[r] = me
      BY <1>0, <2>1, <2>2 DEF UniqueIds, me
    <3>3. \A u \in Tids \ {me} :
             (\E r \in live' : tid'[r] = u) <=> \E r \in live : tid[r] = u
      BY <2>1, <2>2 DEF me
    <3>4. "FREE" # "USED"
      OBVIOUS
    <3> QED
      BY <1>0, <3>1, <3>2, <3>3, <3>4 DEF IdAccounting
  <2>5. ExitedHaveNone'
    BY <1>0, <2>1, Where DEF ExitedHaveNone
  <2> QED
    BY <2>3, <2>4, <2>5 DEF Owned, Identifiers
<1>4. CASE /\ UNCHANGED <<live, tid, exitedq>>
           /\ \A t \in Tids : idarray'[t].status = idarray[t].status
  <2>1. UniqueIds'
    BY <1>0, <1>4 DEF UniqueIds
  <2>2. IdAccounting'
    BY <1>0, <1>4 DEF IdAccounting
  <2>3. ExitedHaveNone'
    BY <1>0, <1>4 DEF ExitedHaveNone
  <2> QED
    BY <2>1, <2>2, <2>3 DEF Owned, Identifiers
<1> QED
  BY <1>1, <1>2, <1>3, <1>4, IdsKept

-----------------------------------------------------------------------------
(* Programs that never kill. *)

\* A sleeper is none of the threads the CPU holds, and neither is its
\* identifier.
LEMMA Sleeper ==
  ASSUME IInv, Owned, NEW q \in WaitQueues, NEW p \in ToSet(waitq[q])
  PROVE  /\ p \in live /\ p \in Threads /\ p # runningrn /\ p # next
         /\ p \notin ToSet(exitedq) /\ tid[p] \in Tids
         /\ \A r \in live : r # p => tid[r] # tid[p]
<1>1. /\ p \in live /\ p \in Threads /\ p # runningrn /\ p # next
      /\ p \notin ToSet(exitedq) /\ tid[p] \in Tids
  BY Where
<1>2. NoTid \notin Tids
  BY DEF NoTid, Tids
<1> QED
  BY <1>1, <1>2 DEF Owned, Identifiers, UniqueIds

\* A step that touches no sleeper.
LEMMA SleepersKept ==
  ASSUME NobodyKilled,
         \A q \in WaitQueues : \A p \in ToSet(waitq'[q]) :
            /\ p \in ToSet(waitq[q])
            /\ tid'[p] = tid[p] /\ state'[p] = state[p]
            /\ idarray'[tid[p]].state = idarray[tid[p]].state,
         \A p \in live' : state'[p] # "DEAD"
  PROVE  NobodyKilled'
  BY DEF NobodyKilled, SleepersMarked

LEMMA WakeMarks ==
  ASSUME IInv, Owned, NobodyKilled, NEW q \in WaitQueues, WakeHead(q)
  PROVE  /\ NobodyKilled'
         /\ ToSet(waitq'[q]) \subseteq ToSet(waitq[q])
         /\ \A u \in Tids : idarray'[u].wq = idarray[u].wq
<1> DEFINE h == Head(waitq[q])
           w == Tail(waitq[q])
<1>0. TypeOK /\ waitq[q] \in Seq(Threads) /\ waitq[q] # <<>> /\ IsInjective(waitq[q])
  BY Before DEF TypeOK, PlaceList, OneEntry, WakeHead
<1>1. /\ h \in Threads /\ h \in ToSet(waitq[q])
      /\ ToSet(w) = ToSet(waitq[q]) \ {h}
  BY <1>0, PopFacts
<1>2. /\ waitq' = [waitq EXCEPT ![q] = w]
      /\ UNCHANGED <<live, tid>>
  BY DEF WakeHead
<1>3. idarray[tid[h]].state = "WAITING"
  BY <1>1 DEF NobodyKilled, SleepersMarked
<1>4. /\ state' = [state EXCEPT ![h] = "READY"]
      /\ idarray' = [idarray EXCEPT ![tid[h]].state = "READY"]
  BY <1>3 DEF WakeHead
<1> HIDE DEF h, w
<1>5. Marks(tid[h], "READY")
  BY <1>0, <1>4, MarksOne
<1>6. h \in live /\ \A r \in WaitQueues : r # q => h \notin ToSet(waitq[r])
  BY <1>1, Before DEF PlaceList, QueuesApart, QueuedLive
<1>7. waitq'[q] = w /\ \A r \in WaitQueues : r # q => waitq'[r] = waitq[r]
  BY <1>0, <1>2 DEF TypeOK
<1>8. ASSUME NEW r \in WaitQueues, NEW p \in ToSet(waitq'[r])
      PROVE  p \in ToSet(waitq[r]) /\ p # h
  BY <1>1, <1>6, <1>7, <1>8
<1>9. ASSUME NEW r \in WaitQueues, NEW p \in ToSet(waitq'[r])
      PROVE  /\ p \in ToSet(waitq[r])
             /\ tid'[p] = tid[p] /\ state'[p] = state[p]
             /\ idarray'[tid[p]].state = idarray[tid[p]].state
  <2>1. p \in ToSet(waitq[r]) /\ p # h
    BY <1>8, <1>9
  <2>2. p \in Threads /\ tid[p] \in Tids /\ tid[h] # tid[p]
    BY <1>6, <2>1, Sleeper
  <2> QED
    BY <1>0, <1>2, <1>4, <1>5, <2>1, <2>2 DEF TypeOK, Marks
<1>10. \A p \in live' : state'[p] # "DEAD"
  BY <1>0, <1>2, <1>4 DEF NobodyKilled, SleepersMarked, TypeOK
<1> QED
  BY <1>1, <1>5, <1>7, <1>9, <1>10, SleepersKept DEF Marks

\* thread_yield marks its caller and no sleeper.
LEMMA CallerMarks ==
  ASSUME IInv, Owned, NobodyKilled, runningrn \in live,
         NEW v \in {"READY", "RUNNING", "WAITING"},
         state' = [state EXCEPT ![runningrn] = v],
         \A u \in Tids \ {tid[runningrn]} : idarray'[u].state = idarray[u].state,
         UNCHANGED <<live, tid, waitq>>
  PROVE  NobodyKilled'
<1>1. ASSUME NEW q \in WaitQueues, NEW p \in ToSet(waitq'[q])
      PROVE  /\ p \in ToSet(waitq[q])
             /\ tid'[p] = tid[p] /\ state'[p] = state[p]
             /\ idarray'[tid[p]].state = idarray[tid[p]].state
  <2>1. p \in ToSet(waitq[q])
    BY <1>1
  <2>2. p \in Threads /\ p # runningrn /\ tid[p] \in Tids /\ tid[runningrn] # tid[p]
    BY <2>1, Sleeper
  <2> QED
    BY <2>1, <2>2, Where DEF TypeOK
<1>2. \A p \in live' : state'[p] # "DEAD"
  BY Where DEF NobodyKilled, SleepersMarked, TypeOK
<1> QED
  BY <1>1, <1>2, SleepersKept

LEMMA MarkedStep ==
  ASSUME NoKill, IInv, Owned, NobodyKilled, [Next]_vars
  PROVE  NobodyKilled'
<1>0. TypeOK
  BY DEF IInv
<1>1. CASE Create
  <2>1. PICK p \in Threads \ live, t \in Tids :
           /\ MarkUsed(t) /\ live' = live \cup {p} /\ tid' = [tid EXCEPT ![p] = t]
           /\ state' = [state EXCEPT ![p] = "READY"]
    BY <1>1 DEF Create
  <2>2. waitq' = waitq
    BY <1>1 DEF Create
  <2>3. ASSUME NEW q \in WaitQueues, NEW r \in ToSet(waitq'[q])
        PROVE  /\ r \in ToSet(waitq[q])
               /\ tid'[r] = tid[r] /\ state'[r] = state[r]
               /\ idarray'[tid[r]].state = idarray[tid[r]].state
    BY <1>0, <2>1, <2>2, <2>3, Sleeper, MarksUsed DEF TypeOK
  <2>4. \A r \in live' : state'[r] # "DEAD"
    BY <1>0, <2>1 DEF NobodyKilled, SleepersMarked, TypeOK
  <2> QED
    BY <2>3, <2>4, SleepersKept
<1>2. ASSUME CallerReady, InUser PROVE NobodyKilled'
  <2>1. runningrn \in live
    BY <1>2, Where DEF InUser, Stopped
  <2>2. Marks(tid[runningrn], "READY")
    BY <1>0, <1>2, MarksOne DEF CallerReady
  <2> QED
    BY <1>2, <2>1, <2>2, CallerMarks DEF CallerReady, Marks
<1>3. CASE PreemptOrAny
  BY <1>2, <1>3 DEF PreemptOrAny
<1>4. ASSUME NEW t \in Tids, YieldTo(t) \/ YieldMiss(t) PROVE NobodyKilled'
  BY <1>2, <1>4 DEF YieldTo, YieldMiss, May
<1>5. ASSUME NEW t \in Tids PROVE ~KillReady(t) /\ ~KillSleeping(t)
  BY DEF NoKill, KillReady, KillSleeping, May
<1>6. ASSUME NEW t \in Tids, Wait(t) PROVE NobodyKilled'
  <2>1. runningrn \in live
    BY <1>6, Where DEF Wait, May, InUser, Stopped
  <2>2. \A u \in Tids \ {tid[runningrn]} : idarray'[u].state = idarray[u].state
    <3>1. idarray' = [idarray EXCEPT ![tid[runningrn]].state = "WAITING",
                                     ![t].wq = IF @ = "null" THEN "live" ELSE @]
      BY <1>6 DEF Wait
    <3>2. \A u \in Tids : idarray'[u].state =
              IF u = tid[runningrn] THEN "WAITING" ELSE idarray[u].state
      BY <1>0, <3>1 DEF TypeOK, IdNodes
    <3> QED
      BY <3>2
  <2> QED
    BY <1>6, <2>1, <2>2, CallerMarks DEF Wait
<1>7. ASSUME UNCHANGED <<live, tid, state, waitq>>,
             \A u \in Tids : idarray'[u].state = idarray[u].state
      PROVE  NobodyKilled'
  <2>1. ASSUME NEW q \in WaitQueues, NEW r \in ToSet(waitq'[q])
        PROVE  /\ r \in ToSet(waitq[q])
               /\ tid'[r] = tid[r] /\ state'[r] = state[r]
               /\ idarray'[tid[r]].state = idarray[tid[r]].state
    BY <1>7, <2>1, Sleeper
  <2> QED
    BY <1>7, <2>1, SleepersKept DEF NobodyKilled, SleepersMarked
<1>8. ASSUME NEW q \in Queues,
             QueueCreate(q) \/ QueueDestroy(q) \/ Sleep(q) \/ WakeupAll(q)
      PROVE  NobodyKilled'
  BY <1>7, <1>8 DEF QueueCreate, QueueDestroy, Sleep, WakeupAll
<1>9. ASSUME NEW q \in Queues, WakeupOne(q) PROVE NobodyKilled'
  BY <1>9, WakeMarks DEF WakeupOne, WaitQueues
<1>10. CASE WakeNext
  BY <1>0, <1>10, WakeMarks DEF WakeNext, TypeOK
<1>11. CASE ExitEnter
  <2>1. \A u \in Tids : idarray'[u].state = idarray[u].state
    BY <1>0, <1>11, MarksWq DEF ExitEnter
  <2> QED
    BY <1>7, <1>11, <2>1 DEF ExitEnter
<1>12. CASE SleepNone \/ SleepPop \/ StaleThread \/ StaleSleep
  BY <1>7, <1>12 DEF SleepNone, SleepPop, StaleThread, StaleSleep
<1>13. CASE ExitLeave
  <2> DEFINE old == IF exitedq = <<>> THEN {} ELSE {Head(exitedq)}
  <2>1. /\ live' = live \ old
        /\ tid' = [p \in Threads |->
                     IF p \in old \cup {runningrn} THEN NoTid ELSE tid[p]]
        /\ state' = [p \in Threads |->
                       IF p \in old THEN "UNSET"
                       ELSE IF p = runningrn THEN "EXITED" ELSE state[p]]
        /\ idarray' = [idarray EXCEPT ![tid[runningrn]].status = "FREE",
                                      ![tid[runningrn]].state = "READY"]
        /\ runningrn \in live /\ waitq' = waitq
    BY <1>13, Where DEF ExitLeave, Stopped
  <2>2. old \subseteq ToSet(exitedq)
    BY <1>0, PopFacts DEF TypeOK
  <2> HIDE DEF old
  <2>3. ASSUME NEW q \in WaitQueues, NEW r \in ToSet(waitq'[q])
        PROVE  /\ r \in ToSet(waitq[q])
               /\ tid'[r] = tid[r] /\ state'[r] = state[r]
               /\ idarray'[tid[r]].state = idarray[tid[r]].state
    <3>1. r \in ToSet(waitq[q])
      BY <2>1, <2>3
    <3>2. /\ r \in Threads /\ r # runningrn /\ r \notin old
          /\ tid[r] \in Tids /\ tid[runningrn] # tid[r]
      BY <2>1, <2>2, <3>1, Sleeper
    <3>3. idarray'[tid[r]].state = idarray[tid[r]].state
      <4>1. idarray' = [idarray EXCEPT ![tid[runningrn]].status = "FREE",
                                       ![tid[runningrn]].state = "READY"]
        BY <2>1
      <4>2. \A u \in Tids : idarray'[u].state =
                IF u = tid[runningrn] THEN "READY" ELSE idarray[u].state
        BY <1>0, <4>1 DEF TypeOK, IdNodes
      <4> QED
        BY <3>2, <4>2
    <3> QED
      BY <2>1, <3>1, <3>2, <3>3
  <2>4. \A r \in live' : state'[r] # "DEAD"
    BY <2>1, Where DEF NobodyKilled, SleepersMarked
  <2> QED
    BY <2>3, <2>4, SleepersKept
<1>14. ~Reap
  BY DEF Reap, NobodyKilled, SleepersMarked
<1>15. CASE SwitchYield
  <2>1. runningrn \in live
    BY <1>15 DEF SwitchYield, Runnable, Popped
  <2>2. Marks(tid[runningrn], "RUNNING")
    BY <1>0, <1>15, MarksOne DEF SwitchYield
  <2> QED
    BY <1>15, <2>1, <2>2, CallerMarks DEF SwitchYield, Marks
<1>16. CASE SwitchExit
  <2>1. runningrn \in live
    BY <1>16 DEF SwitchExit, Runnable, Popped
  <2> QED
    BY <1>16, <2>1, CallerMarks DEF SwitchExit
<1>17. CASE SwitchSleep
  <2>1. /\ runningrn \in live /\ next \in live /\ runningrn # next
        /\ runningrn \in Threads /\ next \in Threads /\ queue \in WaitQueues
    BY <1>0, <1>17, Where, Before
       DEF SwitchSleep, Runnable, Popped, Stopped, IInv, Locals, SleepLocals, TypeOK
  <2>2. /\ UNCHANGED <<live, tid>>
        /\ state' = [state EXCEPT ![runningrn] = "WAITING", ![next] = "RUNNING"]
        /\ waitq' = [waitq EXCEPT ![queue] = Append(@, runningrn)]
        /\ idarray' = [idarray EXCEPT ![tid[runningrn]].state = "WAITING",
                                      ![tid[next]].state = "RUNNING"]
    BY <1>17 DEF SwitchSleep, MarkAsleep, JoinQueue
  <2>3. \A x \in Tids : idarray'[x].state = IF x = tid[next] THEN "RUNNING"
                                   ELSE IF x = tid[runningrn] THEN "WAITING"
                                   ELSE idarray[x].state
    <3>1. idarray' = [idarray EXCEPT ![tid[runningrn]].state = "WAITING",
                                     ![tid[next]].state = "RUNNING"]
      BY <2>2
    <3> QED
      BY <1>0, <3>1 DEF TypeOK, IdNodes
  <2>4. tid[runningrn] \in Tids /\ tid[next] \in Tids /\ tid[runningrn] # tid[next]
    <3>1. tid[runningrn] \in Tids /\ tid[next] \in Tids /\ NoTid \notin Tids
      BY <2>1, Where DEF NoTid, Tids
    <3> QED
      BY <2>1, <3>1 DEF Owned, Identifiers, UniqueIds
  <2>5. ASSUME NEW q \in WaitQueues, NEW p \in ToSet(waitq'[q])
        PROVE  p = runningrn \/ p \in ToSet(waitq[q])
    <3>1. \A s \in Seq(Threads) : ToSet(Append(s, runningrn)) = ToSet(s) \cup {runningrn}
      BY <2>1, EnqueueFacts
    <3>2. waitq[queue] \in Seq(Threads)
      BY <1>0, <2>1 DEF TypeOK
    <3> QED
      BY <1>0, <2>1, <2>2, <2>5, <3>1, <3>2 DEF TypeOK
  <2>6. ASSUME NEW q \in WaitQueues, NEW p \in ToSet(waitq'[q])
        PROVE  state'[p] = "WAITING" /\ idarray'[tid'[p]].state = "WAITING"
    <3>1. CASE p = runningrn
      BY <1>0, <2>1, <2>2, <2>3, <2>4, <3>1 DEF TypeOK
    <3>2. CASE p \in ToSet(waitq[q])
      <4>1. /\ p \in Threads /\ p # runningrn /\ p # next /\ tid[p] \in Tids
            /\ tid[runningrn] # tid[p] /\ tid[next] # tid[p]
        BY <2>1, <3>2, Sleeper
      <4>2. state[p] = "WAITING" /\ idarray[tid[p]].state = "WAITING"
        BY <3>2 DEF NobodyKilled, SleepersMarked
      <4> QED
        BY <1>0, <2>2, <2>3, <4>1, <4>2 DEF TypeOK
    <3> QED
      BY <2>5, <2>6, <3>1, <3>2
  <2>7. \A p \in live' : state'[p] # "DEAD"
    BY <1>0, <2>1, <2>2, Where DEF NobodyKilled, SleepersMarked, TypeOK
  <2> QED
    BY <2>6, <2>7 DEF NobodyKilled, SleepersMarked
<1>18. CASE UNCHANGED vars
  BY <1>7, <1>18 DEF vars
<1>19. CASE UserCall
  BY <1>1, <1>4, <1>5, <1>6, <1>8, <1>9, <1>11, <1>19 DEF UserCall
<1>20. CASE KernelStep
  BY <1>10, <1>12, <1>13, <1>14, <1>15, <1>16, <1>17, <1>20 DEF KernelStep
<1> QED
  BY <1>3, <1>18, <1>19, <1>20 DEF Next, Terminated

\* A step that neither sleeps, wakes nor exits.
LEMMA JoinersKept ==
  ASSUME JoinqThere, JoinersTarget,
         UNCHANGED waitq, waking' = waking,
         queue' = queue \/ queue' \notin Tids, pc' # "exiting",
         \A t \in Tids : idarray'[t].wq = idarray[t].wq,
         \A p \in live : p \in live' /\ tid'[p] = tid[p]
  PROVE  JoinqThere' /\ JoinersTarget'
<1>1. JoinqThere'
  BY DEF JoinqThere
<1>2. JoinersTarget'
  BY DEF JoinersTarget
<1> QED
  BY <1>1, <1>2

\* thread_wakeup of one thread: of a wait queue of the program, or the next one
\* of the queue that is emptied.
LEMMA JoinersWake ==
  ASSUME IInv, Owned, NobodyKilled, JoinqThere, JoinersTarget,
         NEW q \in WaitQueues, WakeHead(q),
         \/ q \notin Tids /\ waking' = waking
         \/ q = waking /\ waking' = IF Len(waitq[q]) = 1 THEN Nil ELSE waking
  PROVE  JoinqThere' /\ JoinersTarget'
<1>0. /\ TypeOK /\ waitq[q] \in Seq(Threads) /\ waitq[q] # <<>>
  BY Where DEF TypeOK, WakeHead
<1>1. /\ waitq' = [waitq EXCEPT ![q] = Tail(waitq[q])]
      /\ UNCHANGED <<live, tid, queue, runningrn, pc>>
  BY DEF WakeHead
<1>2. \A t \in Tids : idarray'[t].wq = idarray[t].wq
  BY WakeMarks
<1>3. \A t \in Tids : t \in WaitQueues /\ t # Nil
  BY SchedAssumption DEF WaitQueues
<1>4. \A t \in Tids : waitq'[t] = IF t = q THEN Tail(waitq[q]) ELSE waitq[t]
  BY <1>0, <1>1, <1>3 DEF TypeOK
<1>5. Len(waitq[q]) = 1 => Tail(waitq[q]) = <<>>
  <2> DEFINE w == waitq[q]
  <2>1. w \in Seq(Threads) /\ w # <<>>
    BY <1>0
  <2> HIDE DEF w
  <2>2. ASSUME Len(w) = 1 PROVE Tail(w) = <<>>
    <3>1. Tail(w) \in Seq(Threads) /\ Len(Tail(w)) = 0
      BY <2>1, <2>2, HeadTailProperties
    <3> QED
      BY <3>1, EmptySeq
  <2> QED
    BY <2>2 DEF w
<1>6. \A t \in Tids : waitq'[t] # <<>> /\ waking' # t => waitq[t] # <<>> /\ waking # t /\ t # q
  BY <1>3, <1>4, <1>5
<1>7. \A t \in Tids : (waitq[t] = <<>> \/ waking = t) => (waitq'[t] = <<>> \/ waking' = t)
  BY <1>6
<1>8. JoinqThere'
  BY <1>1, <1>2, <1>6, <1>7 DEF JoinqThere
<1>9. JoinersTarget'
  BY <1>1, <1>6 DEF JoinersTarget
<1> QED
  BY <1>8, <1>9

LEMMA JoinersStep ==
  ASSUME NoKill, IInv, Owned, NobodyKilled, JoinqThere, JoinersTarget, [Next]_vars
  PROVE  JoinqThere' /\ JoinersTarget'
<1> DEFINE Goal == JoinqThere' /\ JoinersTarget'
<1>0. /\ TypeOK /\ Queues \cap Tids = {} /\ Nil \notin Tids
      /\ \A t \in Tids : t \in WaitQueues
      /\ NoTid \notin Tids
  BY Where, SchedAssumption DEF WaitQueues, NoTid, Tids
<1>1. CASE Create
  <2>1. PICK p \in Threads \ live, t \in Tids :
           MarkUsed(t) /\ live' = live \cup {p} /\ tid' = [tid EXCEPT ![p] = t]
    BY <1>1 DEF Create
  <2>2. \A u \in Tids : idarray'[u].wq = idarray[u].wq
    BY <1>0, <2>1, MarksUsed
  <2>3. \A r \in live : r \in live' /\ tid'[r] = tid[r]
    BY <1>0, <2>1, Where DEF TypeOK
  <2>4. waitq' = waitq /\ waking' = waking /\ queue' = queue /\ pc' # "exiting"
    BY <1>1 DEF Create, May, InUser
  <2> QED
    BY <2>2, <2>3, <2>4, JoinersKept
<1>2. ASSUME CallerReady, pc' # "exiting" PROVE Goal
  <2>1. Marks(tid[runningrn], "READY")
    BY <1>0, <1>2, MarksOne DEF CallerReady
  <2> QED
    BY <1>2, <2>1, JoinersKept DEF CallerReady, Marks
<1>3. CASE PreemptOrAny
  BY <1>2, <1>3 DEF PreemptOrAny
<1>4. ASSUME NEW t \in Tids, YieldTo(t) \/ YieldMiss(t) PROVE Goal
  BY <1>2, <1>4 DEF YieldTo, YieldMiss, May, InUser
<1>5. ASSUME NEW t \in Tids PROVE ~KillReady(t) /\ ~KillSleeping(t)
  BY DEF NoKill, KillReady, KillSleeping, May
<1>6. ASSUME NEW t \in Tids, Wait(t) PROVE Goal
  <2>1. \A x \in Tids : idarray'[x].wq = IF x = t /\ idarray[t].wq = "null"
                                         THEN "live" ELSE idarray[x].wq
    <3> DEFINE me == tid[runningrn]
               v  == "WAITING"
    <3>1. TypeOK
      BY <1>0
    <3>2. idarray' = [idarray EXCEPT ![me].state = v,
                                     ![t].wq = IF @ = "null" THEN "live" ELSE @]
      BY <1>6 DEF Wait
    <3> HIDE DEF me, v
    <3> QED
      BY <3>1, <3>2 DEF TypeOK, IdNodes
  <2>2. /\ UNCHANGED <<live, tid, waitq, runningrn, waking>>
        /\ queue' = t /\ pc' = "enter_sleep" /\ idarray[t].status = "USED"
    BY <1>6 DEF Wait
  <2>3. JoinqThere'
    BY <2>1, <2>2 DEF JoinqThere
  <2>4. \E p \in live : tid[p] = t
    BY <2>2 DEF Owned, Identifiers, IdAccounting
  <2>5. JoinersTarget'
    BY <2>2, <2>4 DEF JoinersTarget
  <2> QED
    BY <2>3, <2>5
<1>7. ASSUME NEW q \in Queues, QueueCreate(q) \/ QueueDestroy(q) \/ Sleep(q) PROVE Goal
  <2>1. /\ UNCHANGED <<live, tid, idarray, waitq>> /\ waking' = waking
        /\ queue' = queue \/ queue' = q
        /\ pc' # "exiting"
    BY <1>7 DEF QueueCreate, QueueDestroy, Sleep, May, InUser
  <2> QED
    BY <1>0, <2>1, JoinersKept
<1>8. ASSUME NEW q \in Queues, WakeupAll(q) PROVE Goal
  <2>1. /\ UNCHANGED <<live, tid, idarray, waitq, queue, pc>>
        /\ waking = Nil /\ waking' \in {Nil, q} /\ pc = "user"
    BY <1>8 DEF WakeupAll, WakeAll, May, InUser
  <2> QED
    BY <1>0, <2>1 DEF JoinqThere, JoinersTarget
<1>9. ASSUME NEW q \in Queues, WakeupOne(q) PROVE Goal
  <2>1. q \in WaitQueues /\ q \notin Tids /\ WakeHead(q) /\ waking' = waking
    BY <1>0, <1>9 DEF WakeupOne, WaitQueues
  <2> QED
    BY <2>1, JoinersWake
<1>10. CASE WakeNext
  <2>1. waking \in WaitQueues /\ WakeHead(waking)
    BY <1>0, <1>10 DEF WakeNext, TypeOK
  <2> QED
    BY <1>10, <2>1, JoinersWake DEF WakeNext
<1>11. CASE ExitEnter
  <2> DEFINE me == tid[runningrn]
  <2>1. /\ UNCHANGED <<live, tid, waitq, runningrn, queue>>
        /\ pc = "user" /\ waking = Nil
        /\ idarray' = [idarray EXCEPT ![me].wq = DestroyJoinq(me)]
        /\ waking' = JoinWaking(me)
        /\ pc' = IF idarray[me].wq = "freed" THEN "stale_queue" ELSE "exiting"
    BY <1>11 DEF ExitEnter, May, InUser
  <2>2. me \in Tids
    BY <2>1, Where DEF Stopped
  <2>3. queue = Nil
    BY <2>1 DEF IInv, Locals, SleepLocals
  <2> HIDE DEF me
  <2>4. idarray[me].wq \in {"null", "live", "freed"}
    BY <1>0, <2>2 DEF TypeOK, IdNodes
  <2>5. \A u \in Tids : idarray'[u].wq = IF u = me THEN DestroyJoinq(me) ELSE idarray[u].wq
    <3>1. idarray' = [idarray EXCEPT ![me].wq = DestroyJoinq(me)]
      BY <2>1
    <3> QED
      BY <1>0, <3>1 DEF TypeOK, IdNodes
  <2>6. waitq[me] # <<>> => idarray[me].wq = "live" /\ waking' = me
    BY <1>0, <2>1, <2>2 DEF JoinqThere, JoinWaking, WakeAll
  <2>7. waking' \in {Nil, me}
    BY <2>1 DEF JoinWaking, WakeAll
  <2>8. JoinqThere'
    <3>1. me = tid'[runningrn']
      BY <2>1 DEF me
    <3>2. \A t \in Tids : waitq'[t] # <<>> => idarray'[t].wq = "live" \/ waking' = t
      BY <1>0, <2>1, <2>5, <2>6 DEF JoinqThere
    <3>3. queue' \notin Tids
      BY <1>0, <2>1, <2>3
    <3>4. \A t \in Tids : t = tid'[runningrn'] => waitq'[t] = <<>> \/ waking' = t
      BY <2>1, <2>6, <3>1
    <3> QED
      BY <3>2, <3>3, <3>4 DEF JoinqThere
  <2>9. JoinersTarget'
    BY <1>0, <2>1, <2>7 DEF JoinersTarget
  <2> QED
    BY <2>8, <2>9
<1>12. CASE SleepNone \/ SleepPop \/ StaleThread \/ StaleSleep \/ SwitchExit
  <2>1. /\ UNCHANGED <<live, tid, idarray, waitq>> /\ waking' = waking
        /\ queue' = queue \/ queue' = Nil
        /\ pc' # "exiting"
    BY <1>12 DEF SleepNone, SleepPop, StaleThread, StaleSleep, SwitchExit
  <2> QED
    BY <1>0, <2>1, JoinersKept
<1>13. CASE SwitchYield
  <2>1. Marks(tid[runningrn], "RUNNING")
    BY <1>0, <1>13, MarksOne DEF SwitchYield
  <2> QED
    BY <1>13, <2>1, JoinersKept DEF SwitchYield, Marks
<1>14. CASE ExitLeave
  <2> DEFINE old == IF exitedq = <<>> THEN {} ELSE {Head(exitedq)}
             me == tid[runningrn]
  <2>1. /\ live' = live \ old
        /\ tid' = [p \in Threads |->
                     IF p \in old \cup {runningrn} THEN NoTid ELSE tid[p]]
        /\ idarray' = [idarray EXCEPT ![me].status = "FREE", ![me].state = "READY"]
        /\ UNCHANGED <<waitq, queue, waking>> /\ waking = Nil
        /\ pc = "exiting" /\ pc' \in {"halted", "exit"}
    BY <1>14 DEF ExitLeave
  <2>2. queue = Nil /\ me \in Tids
    BY <2>1, Where DEF IInv, Locals, SleepLocals, Stopped
  <2>3. \A p \in old : tid[p] = NoTid
    BY <1>0, PopFacts DEF TypeOK, Owned, ExitedHaveNone
  <2>4. waitq[me] = <<>>
    BY <1>0, <2>1, <2>2 DEF JoinqThere, me
  <2>5. \A u \in Tids : idarray'[u].wq = idarray[u].wq
    BY <1>0, <2>1, MarksLeave
  <2> HIDE DEF old
  <2>6. ASSUME NEW t \in Tids, t # me, NEW p \in live, tid[p] = t
        PROVE  p \in live' /\ tid'[p] = t
    BY <1>0, <2>1, <2>3, <2>6, Where
  <2>7. JoinqThere'
    BY <1>0, <2>1, <2>2, <2>5 DEF JoinqThere
  <2>8. JoinersTarget'
    BY <1>0, <2>1, <2>2, <2>4, <2>6 DEF JoinersTarget
  <2> QED
    BY <2>7, <2>8
<1>15. ~Reap
  BY DEF Reap, NobodyKilled, SleepersMarked
<1>16. CASE SwitchSleep
  <2>1. /\ UNCHANGED <<live, tid, waking>> /\ waking = Nil
        /\ waitq' = [waitq EXCEPT ![queue] = Append(@, runningrn)]
        /\ queue' = Nil /\ pc' = "user"
        /\ ~StaleJoinq(queue)
        /\ idarray' = [idarray EXCEPT ![tid[runningrn]].state = "WAITING",
                                      ![tid[next]].state = "RUNNING"]
    BY <1>16 DEF SwitchSleep, MarkAsleep, JoinQueue, Runnable
  <2>2. \A u \in Tids : idarray'[u].wq = idarray[u].wq
    BY <1>0, <2>1, MarksTwo
  <2>3. queue \in Tids => idarray[queue].wq = "live"
    BY <1>0, <2>1 DEF JoinqThere, StaleJoinq, TypeOK, IdNodes
  <2>4. \A t \in Tids : t # queue => waitq'[t] = waitq[t]
    BY <1>0, <2>1 DEF TypeOK
  <2>5. JoinqThere'
    BY <1>0, <2>1, <2>2, <2>3, <2>4 DEF JoinqThere
  <2>6. JoinersTarget'
    BY <1>0, <2>1, <2>4 DEF JoinersTarget
  <2> QED
    BY <2>5, <2>6
<1>17. CASE UNCHANGED vars
  BY <1>17 DEF vars, JoinqThere, JoinersTarget
<1>18. CASE UserCall
  BY <1>1, <1>4, <1>5, <1>6, <1>7, <1>8, <1>9, <1>11, <1>18 DEF UserCall
<1>19. CASE KernelStep
  BY <1>10, <1>12, <1>13, <1>14, <1>15, <1>16, <1>19 DEF KernelStep
<1> QED
  BY <1>3, <1>17, <1>18, <1>19 DEF Next, Terminated

LEMMA KillFreeInit == Init => Owned /\ KillFree
<1> SUFFICES ASSUME Init PROVE Owned /\ KillFree
  OBVIOUS
<1>0. 0 \in Tids /\ NoTid \notin Tids /\ Nil \notin WaitQueues /\ Tids \subseteq WaitQueues
  BY SchedAssumption DEF Tids, NoTid, WaitQueues
<1>1. tid[Main] = 0 /\ state[Main] = "UNSET" /\ live = {Main} /\ exitedq = <<>>
  BY SchedAssumption DEF Init
<1>2. \A t \in Tids : idarray[t].status = IF t = 0 THEN "USED" ELSE "FREE"
  BY DEF Init
<1>3. \A q \in WaitQueues : waitq[q] = <<>>
  BY DEF Init
<1>4. Owned
  BY <1>0, <1>1, <1>2, EmptyFacts
     DEF Owned, Identifiers, UniqueIds, IdAccounting, ExitedHaveNone
<1>5. NobodyKilled
  BY <1>1, <1>3, EmptyFacts DEF NobodyKilled, SleepersMarked
<1>6. queue = Nil /\ pc = "user"
  BY DEF Init
<1>7. JoinqThere /\ JoinersTarget
  BY <1>0, <1>3, <1>6 DEF JoinqThere, JoinersTarget
<1> QED
  BY <1>4, <1>5, <1>7 DEF KillFree

LEMMA KillFreeStep ==
  ASSUME NoKill
  PROVE  IInv /\ Owned /\ KillFree /\ [Next]_vars => (Owned /\ KillFree)'
<1> SUFFICES ASSUME IInv, Owned, KillFree, [Next]_vars PROVE (Owned /\ KillFree)'
  OBVIOUS
<1>1. ~Reap
  BY DEF Reap, KillFree, NobodyKilled, SleepersMarked
<1> QED
  BY <1>1, OwnedStep, MarkedStep, JoinersStep DEF KillFree

\* Without thread_kill, however threads are created, exit, sleep, join and are
\* preempted: ...
LEMMA KillFreeInvariant ==
  ASSUME NoKill PROVE Spec => [](Owned /\ KillFree)
<1>1. IInv /\ Owned /\ KillFree /\ [Next]_vars => (Owned /\ KillFree)'
  BY KillFreeStep
<1> QED
  BY <1>1, KillFreeInit, Invariance, PTL DEF Spec

\* ... thread_wakeup takes no sleeper for killed (thread.c, thread_wakeup reads
\* the state in idarray), and nobody is.
THEOREM SleepersMarkedCorrect ==
  ASSUME NoKill PROVE Spec => []SleepersMarked
<1>1. Owned /\ KillFree => SleepersMarked
  BY DEF KillFree, NobodyKilled
<1> QED
  BY <1>1, KillFreeInvariant, PTL

\* ... nobody joins, or goes on joining, a thread that is gone: thread_exit wakes
\* all who joined it before it gives its identifier away.
THEOREM JoinersCorrect ==
  ASSUME NoKill PROVE Spec => []JoinersHaveTarget
<1>1. Owned /\ KillFree => JoinersHaveTarget
  BY DEF KillFree, JoinersTarget, JoinersHaveTarget
<1> QED
  BY <1>1, KillFreeInvariant, PTL

-----------------------------------------------------------------------------
(* Programs that never sleep. *)

LEMMA SleepFreeInit == Init => SleepFree
<1> SUFFICES ASSUME Init PROVE SleepFree
  OBVIOUS
<1> QED
  BY SchedAssumption DEF Init, SleepFree, NobodySleeps, RunsAlive

\* A thread that the program kills is not the one that runs.
LEMMA KillsAnother ==
  ASSUME IInv, NEW t \in Tids, KillReady(t)
  PROVE  \E p \in Threads \ {runningrn} : state' = [state EXCEPT ![p] = "DEAD"]
<1>1. PICK i \in 1 .. Len(readyq) : state' = [state EXCEPT ![readyq[i]] = "DEAD"]
  BY DEF KillReady
<1>2. readyq \in Seq(Threads)
  BY Where DEF TypeOK
<1>3. readyq[i] \in ToSet(readyq)
  BY <1>2, ByPosition
<1>4. readyq[i] \in Threads /\ readyq[i] # runningrn
  BY <1>3, Where
<1> QED
  BY <1>1, <1>4

\* thread_yield to an identifier that nobody ready has comes back to its caller.
LEMMA MissKeepsCaller ==
  ASSUME IInv, Owned, NEW t \in Tids, YieldMiss(t)
  PROVE  runningrn' = runningrn
<1> DEFINE q == Append(readyq, runningrn)
<1>0. /\ runningrn \in live /\ runningrn \in Threads /\ tid[runningrn] \in Tids
      /\ readyq \in Seq(Threads)
  BY Where DEF YieldMiss, May, InUser, Stopped, TypeOK
<1>1. PICK i \in 1 .. (Len(readyq) + 1) :
         FirstWithId(q, tid[runningrn], i) /\ TakeOut(i)
  BY DEF YieldMiss
<1>2. i \in 1 .. Len(q) /\ tid[q[i]] = tid[runningrn] /\ runningrn' = q[i]
  BY <1>1 DEF FirstWithId, TakeOut
<1>3. q \in Seq(Threads) /\ ToSet(q) = ToSet(readyq) \cup {runningrn}
  BY <1>0, EnqueueFacts
<1> HIDE DEF q
<1>4. q[i] \in ToSet(q)
  BY <1>2, <1>3, ByPosition
<1>5. q[i] \in live
  BY <1>0, <1>3, <1>4, Where
<1> QED
  BY <1>0, <1>2, <1>5 DEF Owned, Identifiers, UniqueIds, NoTid, Tids

LEMMA SleepFreeStep ==
  ASSUME NoSleep
  PROVE  IInv /\ Owned /\ SleepFree /\ [Next]_vars => SleepFree'
<1> SUFFICES ASSUME IInv, Owned, SleepFree, [Next]_vars PROVE SleepFree'
  OBVIOUS
<1>0. /\ TypeOK /\ Queues \cup Tids = WaitQueues /\ Nil \notin WaitQueues
      /\ \A q \in WaitQueues : waitq[q] = <<>>
      /\ waking = Nil /\ pc # "enter_sleep" /\ pc # "sleep"
  BY Where, SchedAssumption DEF SleepFree, NobodySleeps, WaitQueues
<1>1. ASSUME UNCHANGED waitq, waking' = Nil, pc' \notin {"enter_sleep", "sleep"},
             RunsAlive'
      PROVE  SleepFree'
  BY <1>0, <1>1 DEF SleepFree, NobodySleeps
<1>2. pc = "user" => runningrn \in live /\ runningrn \in Threads /\ state[runningrn] # "DEAD"
  BY Where DEF Stopped, SleepFree, RunsAlive
<1>3. CASE Create
  <2>1. PICK p \in Threads \ live : state' = [state EXCEPT ![p] = "READY"]
    BY <1>3 DEF Create
  <2>2. /\ UNCHANGED <<waitq, runningrn, waking, pc>> /\ pc = "user"
    BY <1>3 DEF Create, May, InUser
  <2>3. RunsAlive'
    BY <1>2, <2>1, <2>2 DEF RunsAlive
  <2> QED
    BY <1>0, <1>1, <2>2, <2>3
<1>4. CASE PreemptOrAny
  BY <1>0, <1>1, <1>4 DEF PreemptOrAny, CallerReady, RunsAlive
<1>5. ASSUME NEW t \in Tids, YieldTo(t) PROVE SleepFree'
  BY <1>0, <1>1, <1>5 DEF YieldTo, CallerReady, RunsAlive
<1>6. ASSUME NEW t \in Tids, YieldMiss(t) PROVE SleepFree'
  <2>1. /\ state' = [state EXCEPT ![runningrn] = "READY"] /\ pc = "user"
        /\ UNCHANGED <<waitq, waking, pc>>
    BY <1>6 DEF YieldMiss, CallerReady, May, InUser
  <2>2. RunsAlive'
    BY <1>0, <1>2, <1>6, <2>1, MissKeepsCaller DEF RunsAlive, TypeOK
  <2> QED
    BY <1>0, <1>1, <2>1, <2>2
<1>7. ASSUME NEW t \in Tids, KillReady(t) PROVE SleepFree'
  <2>1. PICK p \in Threads \ {runningrn} : state' = [state EXCEPT ![p] = "DEAD"]
    BY <1>7, KillsAnother
  <2>2. UNCHANGED <<waitq, waking, pc, runningrn>>
    BY <1>7 DEF KillReady
  <2>3. RunsAlive'
    BY <2>1, <2>2 DEF SleepFree, RunsAlive
  <2> QED
    BY <1>0, <1>1, <2>2, <2>3
<1>8. ASSUME NEW t \in Tids, KillSleeping(t) PROVE SleepFree'
  BY <1>0, <1>1, <1>8 DEF KillSleeping, SleepFree, RunsAlive
<1>9. /\ \A t \in Tids : ~Wait(t)
      /\ \A q \in Queues : ~Sleep(q)
      /\ \A q \in Queues : ~WakeupOne(q)
      /\ ~WakeNext /\ ~SleepNone /\ ~SleepPop /\ ~SwitchSleep /\ ~StaleSleep
  BY <1>0 DEF NoSleep, Wait, Sleep, May, WakeupOne, WakeHead, WakeNext,
              SleepNone, SleepPop, SwitchSleep, StaleSleep
<1>10. ASSUME NEW q \in Queues, QueueCreate(q) \/ QueueDestroy(q) \/ WakeupAll(q)
       PROVE  SleepFree'
  <2>1. UNCHANGED <<waitq, pc, state, runningrn>>
    BY <1>10 DEF QueueCreate, QueueDestroy, WakeupAll
  <2>2. waking' = Nil
    BY <1>0, <1>10 DEF QueueCreate, QueueDestroy, WakeupAll, WakeAll
  <2>3. RunsAlive'
    BY <2>1 DEF SleepFree, RunsAlive
  <2> QED
    BY <1>0, <1>1, <2>1, <2>2, <2>3
<1>11. \A t \in Tids : JoinWaking(t) = Nil
  BY <1>0 DEF JoinWaking, WakeAll
<1>12. CASE ExitEnter
  <2>1. tid[runningrn] \in Tids /\ pc = "user"
    BY <1>12, Where DEF ExitEnter, May, InUser, Stopped
  <2>2. /\ UNCHANGED <<waitq, state, runningrn>> /\ waking' = Nil
        /\ pc' \in {"stale_queue", "exiting"}
    BY <1>11, <1>12, <2>1 DEF ExitEnter
  <2>3. RunsAlive'
    BY <2>1, <2>2 DEF SleepFree, RunsAlive
  <2> QED
    BY <1>1, <2>2, <2>3
<1>13. CASE ExitLeave
  BY <1>0, <1>1, <1>13 DEF ExitLeave, RunsAlive
<1>14. CASE Reap
  <2>1. tid[Popped] \in Tids
    BY <1>14, HeldHaveIds DEF Reap
  <2>2. /\ waitq' = waitq /\ waking' = Nil
        /\ pc' \in {"stale_queue", "halted", "yield", "exit"}
    BY <1>0, <1>11, <1>14, <2>1 DEF Reap
  <2> QED
    BY <1>1, <2>2 DEF RunsAlive
<1>15. CASE StaleThread
  BY <1>0, <1>1, <1>15 DEF StaleThread, RunsAlive
<1>16. CASE SwitchYield \/ SwitchExit
  <2>1. /\ runningrn \in live /\ UNCHANGED <<waitq, waking, runningrn>> /\ pc' = "user"
        /\ \/ state' = [state EXCEPT ![runningrn] = "RUNNING"]
           \/ state' = [state EXCEPT ![runningrn] = "READY"]
    BY <1>16 DEF SwitchYield, SwitchExit, Runnable, Popped
  <2>2. state'[runningrn] \in {"RUNNING", "READY"}
    BY <2>1, Where DEF TypeOK
  <2> QED
    BY <1>0, <1>1, <2>1, <2>2 DEF RunsAlive
<1>17. CASE UNCHANGED vars
  BY <1>0, <1>1, <1>17 DEF vars, SleepFree, RunsAlive
<1>18. CASE UserCall
  BY <1>3, <1>5, <1>6, <1>7, <1>8, <1>9, <1>10, <1>12, <1>18 DEF UserCall
<1>19. CASE KernelStep
  BY <1>9, <1>13, <1>14, <1>15, <1>16, <1>19 DEF KernelStep
<1> QED
  BY <1>4, <1>17, <1>18, <1>19 DEF Next, Terminated

LEMMA SleepFreeOwned ==
  ASSUME NoSleep
  PROVE  IInv /\ Owned /\ SleepFree /\ [Next]_vars => (Owned /\ SleepFree)'
<1> SUFFICES ASSUME IInv, Owned, SleepFree, [Next]_vars
             PROVE  Owned' /\ SleepFree'
  OBVIOUS
<1>1. pc # "sleep"
  BY DEF SleepFree, NobodySleeps
<1> QED
  BY <1>1, OwnedStep, SleepFreeStep

LEMMA SleepFreeInvariant ==
  ASSUME NoSleep PROVE Spec => [](Owned /\ SleepFree)
<1>1. IInv /\ Owned /\ SleepFree /\ [Next]_vars => (Owned /\ SleepFree)'
  BY SleepFreeOwned
<1>2. Init => Owned /\ SleepFree
  BY KillFreeInit, SleepFreeInit
<1> QED
  BY <1>1, <1>2, Invariance, PTL DEF Spec

LEMMA OwnedAlways ==
  ASSUME NoKill \/ NoSleep PROVE Spec => []Owned
<1>1. CASE NoKill
  BY <1>1, KillFreeInvariant, PTL
<1>2. CASE NoSleep
  BY <1>2, SleepFreeInvariant, PTL
<1> QED
  BY <1>1, <1>2

\* thread_create, thread_exit and the freeing of killed threads give every
\* identifier to one thread at a time and get each back.  The hypothesis is
\* needed: a program that does both can make thread_sleep free the identifier
\* of its caller (thread.c:571).
THEOREM IdentifiersCorrect ==
  ASSUME NoKill \/ NoSleep PROVE Spec => []Identifiers
<1>1. Owned => Identifiers
  BY DEF Owned
<1> QED
  BY <1>1, OwnedAlways, PTL

-----------------------------------------------------------------------------
LEMMA DeadStep ==
  ASSUME NoSleep, IInv, Owned, SleepFree, [Next]_vars,
         NEW p \in live, state[p] = "DEAD", p \in live'
  PROVE  state'[p] = "DEAD"
<1>0. /\ TypeOK /\ p \in Threads
      /\ \A q \in WaitQueues : waitq[q] = <<>>
      /\ waking = Nil /\ pc # "enter_sleep" /\ pc # "sleep"
  BY Where DEF SleepFree, NobodySleeps
<1>1. pc \in {"user", "exiting"} => p # runningrn
  BY DEF SleepFree, RunsAlive
<1>2. CASE Create
  BY <1>0, <1>2 DEF Create
<1>3. ASSUME CallerReady, InUser PROVE state'[p] = "DEAD"
  BY <1>0, <1>1, <1>3 DEF CallerReady, InUser
<1>4. CASE PreemptOrAny
  BY <1>3, <1>4 DEF PreemptOrAny
<1>5. ASSUME NEW t \in Tids, YieldTo(t) \/ YieldMiss(t) PROVE state'[p] = "DEAD"
  BY <1>3, <1>5 DEF YieldTo, YieldMiss, May
<1>6. ASSUME NEW t \in Tids, KillReady(t) PROVE state'[p] = "DEAD"
  BY <1>0, <1>6, KillsAnother DEF TypeOK
<1>7. ASSUME NEW t \in Tids, KillSleeping(t) PROVE state'[p] = "DEAD"
  BY <1>7 DEF KillSleeping
<1>8. /\ \A t \in Tids : ~Wait(t)
      /\ \A q \in Queues : ~Sleep(q)
      /\ \A q \in Queues : ~WakeupOne(q)
      /\ ~WakeNext /\ ~SleepNone /\ ~SleepPop /\ ~SwitchSleep /\ ~StaleSleep
  BY <1>0, Queues \subseteq WaitQueues
     DEF NoSleep, Wait, Sleep, May, WakeupOne, WakeHead, WakeNext, SleepNone,
         SleepPop, SwitchSleep, StaleSleep, WaitQueues
<1>9. ASSUME NEW q \in Queues, QueueCreate(q) \/ QueueDestroy(q) \/ WakeupAll(q)
      PROVE  state'[p] = "DEAD"
  BY <1>9 DEF QueueCreate, QueueDestroy, WakeupAll
<1>10. CASE ExitEnter \/ StaleThread
  BY <1>10 DEF ExitEnter, StaleThread
<1>11. CASE ExitLeave
  BY <1>0, <1>1, <1>11 DEF ExitLeave
<1>12. CASE Reap
  BY <1>0, <1>12 DEF Reap
<1>13. CASE SwitchYield \/ SwitchExit
  <2>1. /\ state[runningrn] # "DEAD"
        /\ \E v : state' = [state EXCEPT ![runningrn] = v]
    BY <1>13 DEF SwitchYield, SwitchExit, Runnable, Popped
  <2> QED
    BY <1>0, <2>1 DEF TypeOK
<1>14. CASE UNCHANGED vars
  BY <1>14 DEF vars
<1>15. CASE UserCall
  BY <1>2, <1>5, <1>6, <1>7, <1>8, <1>9, <1>10, <1>15 DEF UserCall
<1>16. CASE KernelStep
  BY <1>8, <1>10, <1>11, <1>12, <1>13, <1>16 DEF KernelStep
<1> QED
  BY <1>4, <1>14, <1>15, <1>16 DEF Next, Terminated

\* A thread that was killed never runs its program again, and nothing makes it
\* alive before it is freed, when threads are only created, killed, yield and
\* exit.
THEOREM KilledCorrect ==
  ASSUME NoSleep PROVE Spec => KilledIsFinal
<1>1. ASSUME SleepFree, NEW p
      PROVE  Killed(p) <=> p \in live /\ state[p] = "DEAD"
  BY <1>1, EmptyFacts DEF SleepFree, NobodySleeps, Killed
<1>2. SleepFree => (InUser => ~Killed(runningrn))
  BY <1>1 DEF SleepFree, RunsAlive, InUser
<1>3. ASSUME SleepFree', NEW p
      PROVE  Killed(p)' <=> p \in live' /\ state'[p] = "DEAD"
  BY <1>3, EmptyFacts DEF SleepFree, NobodySleeps, Killed
<1>4. IInv /\ Owned /\ SleepFree /\ [Next]_vars =>
        [\A p \in Threads : Killed(p) /\ p \in live' => Killed(p)']_vars
  <2> SUFFICES ASSUME IInv, Owned, SleepFree, [Next]_vars, NEW p \in Threads,
                      Killed(p), p \in live'
               PROVE  Killed(p)'
    OBVIOUS
  <2>1. SleepFree'
    BY SleepFreeStep
  <2>2. p \in live /\ state[p] = "DEAD"
    BY <1>1
  <2>3. state'[p] = "DEAD"
    BY <2>2, DeadStep
  <2> QED
    BY <1>3, <2>1, <2>3
<1> QED
  BY <1>2, <1>4, SleepFreeInvariant, Invariance, PTL DEF Spec, KilledIsFinal

-----------------------------------------------------------------------------
(* What thread_yield returns, if nobody is killed. *)

LEMMA RetidStep ==
  ASSUME IInv, RetidRight, ~Reap, [Next]_vars
  PROVE  RetidRight'
<1>0. TypeOK /\ readyq \in Seq(Threads)
  BY Where DEF TypeOK
<1>1. ASSUME InUser, CallerReady, NEW i \in 1 .. Len(readyq), TakeOut(i),
             retid' = tid[readyq[i]]
      PROVE  RetidRight'
  <2>1. runningrn \in Threads
    BY <1>1, Where DEF InUser, Stopped
  <2>2. readyq[i] \in ToSet(readyq)
    BY <1>0, ByPosition
  <2>3. Append(readyq, runningrn)[i] = readyq[i]
    BY <1>0, <2>1, AppendProperties
  <2>4. runningrn' = readyq[i] /\ UNCHANGED <<live, tid>>
    BY <1>1, <2>3 DEF TakeOut, CallerReady
  <2> QED
    BY <1>1, <2>2, <2>4, Where DEF RetidRight
<1>2. CASE PreemptOrAny
  <2>1. 1 \in 1 .. Len(readyq) /\ Head(readyq) = readyq[1]
    BY <1>0, <1>2 DEF PreemptOrAny
  <2> QED
    BY <1>1, <1>2, <2>1 DEF PreemptOrAny
<1>3. ASSUME NEW t \in Tids, YieldTo(t) PROVE RetidRight'
  <2>1. PICK i \in 1 .. Len(readyq) :
           FirstWithId(readyq, t, i) /\ CallerReady /\ TakeOut(i)
    BY <1>3 DEF YieldTo
  <2>2. InUser /\ retid' = tid[readyq[i]]
    BY <1>3, <2>1 DEF YieldTo, May, FirstWithId
  <2> QED
    BY <1>1, <2>1, <2>2
<1>4. ~Reap
  OBVIOUS
<1>5. ASSUME NEW q, WakeHead(q) PROVE RetidRight'
  BY <1>5 DEF WakeHead, RetidRight
<1>6. CASE WakeNext \/ \E q \in Queues : WakeupOne(q)
  BY <1>5, <1>6 DEF WakeNext, WakeupOne
<1>7. ASSUME pc' # "yield" PROVE RetidRight'
  BY <1>7 DEF RetidRight
<1>8. ASSUME NEW t \in Tids,
             YieldMiss(t) \/ KillReady(t) \/ KillSleeping(t) \/ Wait(t)
      PROVE  RetidRight'
  BY <1>7, <1>8 DEF YieldMiss, KillReady, KillSleeping, Wait, May, InUser
<1>9. ASSUME NEW q \in Queues,
             QueueCreate(q) \/ QueueDestroy(q) \/ Sleep(q) \/ WakeupAll(q)
      PROVE  RetidRight'
  BY <1>7, <1>9 DEF QueueCreate, QueueDestroy, Sleep, WakeupAll, May, InUser
<1>10. CASE Create \/ ExitEnter
  BY <1>7, <1>10 DEF Create, ExitEnter, May, InUser
<1>11. CASE \/ SleepNone \/ SleepPop \/ ExitLeave \/ StaleThread
            \/ SwitchYield \/ SwitchExit \/ SwitchSleep \/ StaleSleep
  BY <1>7, <1>11 DEF SleepNone, SleepPop, ExitLeave, StaleThread, SwitchYield,
                     SwitchExit, SwitchSleep, StaleSleep
<1>12. CASE UNCHANGED vars
  BY <1>12 DEF vars, RetidRight
<1>13. CASE UserCall
  BY <1>3, <1>6, <1>8, <1>9, <1>10, <1>13 DEF UserCall
<1>14. CASE KernelStep
  BY <1>4, <1>6, <1>11, <1>14 DEF KernelStep
<1> QED
  BY <1>2, <1>12, <1>13, <1>14 DEF Next, Terminated

\* thread_yield returns the identifier of the thread that ran, as thread.h says,
\* if thread_kill is never called: the thread it chooses is then the one that is
\* dispatched, and none is freed between the two.  (The run of YieldReturns shows
\* what one call of thread_kill does to it.)
THEOREM YieldReturnsRight ==
  ASSUME NoKill PROVE Spec => YieldReturns
<1>1. Init => RetidRight
  BY DEF Init, RetidRight
<1>2. KillFree => ~Reap
  BY DEF KillFree, NobodyKilled, Reap
<1>3. IInv /\ KillFree /\ RetidRight /\ [Next]_vars => RetidRight'
  BY <1>2, RetidStep
<1>4. RetidRight => [pc = "yield" /\ pc' = "user" => retid = tid[runningrn]]_vars
  BY DEF RetidRight
<1> QED
  BY <1>1, <1>3, <1>4, KillFreeInvariant, Invariance, PTL DEF Spec, YieldReturns
=============================================================================
