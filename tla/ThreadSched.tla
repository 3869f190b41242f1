---------------------------- MODULE ThreadSched ----------------------------
(***************************************************************************)
(* The user-level thread package of threads/thread.c: thread control       *)
(* blocks (TCBs), the identifier table idarray, the ready queue, wait      *)
(* queues and the calls of thread.h that move a TCB between them.          *)
(*                                                                         *)
(* There is one CPU.  Every call runs with SIGALRM blocked (interrupts_off *)
(* ... interrupts_set), so one thread is inside the kernel at a time and   *)
(* pc says where it is; the loops of the kernel (reaping killed threads,   *)
(* waking a whole queue) are steps of their own.  When pc = "user" the     *)
(* running thread makes any call of Calls, or is preempted (PreemptOrAny). *)
(*                                                                         *)
(* Reading memory that was freed has no meaning in C: the model stops in   *)
(* pc = "stale_queue" or "stale_thread" at the first such read.            *)
(*                                                                         *)
(* A definition named ..._fault is a plausible mistake in the operator it  *)
(* precedes.  The specification does not use it: put in the place of that  *)
(* operator it shows that a property can fail.                             *)
(***************************************************************************)
EXTENDS Integers, Sequences, SequencesExt

CONSTANTS
    Threads,     \* the addresses malloc can return for a struct thread
    Main,        \* the TCB thread_init allocates
    MaxThreads,  \* THREAD_MAX_THREADS
    Queues,      \* the wait queues the program can create
    Nil,         \* the NULL pointer
    Calls        \* the calls of thread.h the program makes

Tids  == 0 .. (MaxThreads - 1)
NoTid == -1

\* A join queue (idarray[t].wq) is named by the identifier t.
WaitQueues == Queues \cup Tids

AllCalls == {"create", "yield", "exit", "kill", "sleep", "wakeup", "wait"}

ASSUME SchedAssumption ==
    /\ Main \in Threads
    /\ MaxThreads \in Nat \ {0}
    /\ Queues \cap Tids = {}
    /\ Nil \notin Threads \cup WaitQueues
    /\ Calls \subseteq AllCalls

VARIABLES
    live,       \* TCBs that are allocated
    tid,        \* struct thread.id
    state,      \* struct thread.state; "UNSET" until first assigned
    idarray,    \* per identifier: status, state, and whether wq was allocated
    readyq, exitedq,
    waitq,      \* contents of every wait queue
    queues,     \* wait queues the program has created and not destroyed
    runningrn,  \* the running thread
    next,       \* thread_sleep's local of that name
    queue,      \* thread_sleep's argument
    retid,      \* thread_yield's local of that name
    leaving,    \* thread_exit's thread_to_exit
    waking,     \* the queue thread_wakeup(queue, 1) is emptying
    pc

vars == <<live, tid, state, idarray, readyq, exitedq, waitq, queues,
          runningrn, next, queue, retid, leaving, waking, pc>>

ThreadStates == {"UNSET", "READY", "RUNNING", "WAITING", "EXITED", "DEAD"}
Stopped      == {"halted", "stale_queue", "stale_thread"}
Pcs          == {"user", "yield", "enter_sleep", "sleep", "exiting", "exit"}
                    \cup Stopped

\* struct id_node; wq is "null", "live", or "freed" when it still points to a
\* queue that was destroyed (the code never resets the pointer).
IdNodes == [status : {"FREE", "USED"},
            state  : {"READY", "RUNNING", "WAITING", "DEAD"},
            wq     : {"null", "live", "freed"}]

Init ==
    /\ live = {Main}
    /\ tid = [p \in Threads |-> IF p = Main THEN 0 ELSE NoTid]
    /\ state = [p \in Threads |-> "UNSET"]
    /\ idarray = [t \in Tids |->
                    [status |-> IF t = 0 THEN "USED" ELSE "FREE",
                     state  |-> "READY",
                     wq     |-> "null"]]
    /\ readyq = <<>> /\ exitedq = <<>>
    /\ waitq = [q \in WaitQueues |-> <<>>]
    /\ queues = {}
    /\ runningrn = Main
    /\ next = Nil /\ queue = Nil /\ waking = Nil
    /\ retid = NoTid /\ leaving = NoTid
    /\ pc = "user"

-----------------------------------------------------------------------------
InUser    == pc = "user" /\ waking = Nil
May(call) == InUser /\ call \in Calls

\* Where popbyid(q, w) stops: the first node whose thread has identifier w.
FirstWithId(q, w, i) ==
    /\ i \in 1 .. Len(q)
    /\ tid[q[i]] = w
    /\ \A j \in 1 .. (i - 1) : tid[q[j]] # w

\* The search ends at the last identifier without looking at it.
LowestFree_fault(t) == \A u \in 0 .. (t - 1) : idarray[u].status = "USED"

\* The identifier at which the search of thread_create stops.
LowestFree(t) ==
    /\ idarray[t].status = "FREE"
    /\ \A u \in 0 .. (t - 1) : idarray[u].status = "USED"

MarkUsed_fault(t) == UNCHANGED idarray

MarkUsed(t) == idarray' = [idarray EXCEPT ![t].status = "USED"]

\* thread_create: the lowest free identifier, and any free block for the TCB.
\* With no identifier or no memory left the call returns and changes nothing.
Create ==
    /\ May("create")
    /\ \E p \in Threads \ live, t \in Tids :
        /\ LowestFree(t)
        /\ MarkUsed(t)
        /\ live'    = live \cup {p}
        /\ tid'     = [tid EXCEPT ![p] = t]
        /\ state'   = [state EXCEPT ![p] = "READY"]
        /\ readyq'  = Append(readyq, p)
    /\ UNCHANGED <<exitedq, waitq, queues, runningrn, next, queue, retid,
                   leaving, waking, pc>>

-----------------------------------------------------------------------------
(* thread_yield *)

\* The caller gets a state nothing else knows.
CallerReady_fault ==
    /\ state'   = [state EXCEPT ![runningrn] = "BLOCKED"]
    /\ idarray' = [idarray EXCEPT ![tid[runningrn]].state = "READY"]
    /\ UNCHANGED <<live, tid, exitedq, waitq, queues, next, queue, leaving,
                   waking>>

\* The caller becomes ready ...
CallerReady ==
    /\ state'   = [state EXCEPT ![runningrn] = "READY"]
    /\ idarray' = [idarray EXCEPT ![tid[runningrn]].state = "READY"]
    /\ UNCHANGED <<live, tid, exitedq, waitq, queues, next, queue, leaving,
                   waking>>

\* The thread found stays in the ready queue.
TakeOut_stays_fault(i) ==
    LET q == Append(readyq, runningrn)
    IN  runningrn' = q[i] /\ readyq' = q

\* The caller does not join the ready queue.
TakeOut_caller_fault(i) ==
    /\ i \in 1 .. Len(readyq)
    /\ runningrn' = readyq[i]
    /\ readyq'    = RemoveAt(readyq, i)

\* The last thread is taken instead of the first, or of the one asked for.
TakeOut_last_fault(i) == UNCHANGED <<runningrn, readyq>>

\* The caller goes in front of all others.
TakeOut_front_fault(i) ==
    LET q == <<runningrn>> \o readyq
    IN  /\ i \in 1 .. Len(readyq)
        /\ runningrn' = readyq[i]
        /\ readyq'    = RemoveAt(q, i + 1)

\* ... joins the ready queue, and the thread at position i is taken out.
TakeOut(i) ==
    LET q == Append(readyq, runningrn)
    IN  /\ runningrn' = q[i]
        /\ readyq'    = RemoveAt(q, i)

\* thread_yield(THREAD_ANY): a call of the program, or interrupt_handler.
PreemptOrAny ==
    /\ InUser
    /\ readyq # <<>>
    /\ CallerReady
    /\ TakeOut(1)
    /\ retid' = tid[Head(readyq)]
    /\ pc' = "yield"

YieldTo(want) ==
    /\ May("yield")
    /\ want # tid[runningrn]
    /\ readyq # <<>>
    /\ \E i \in 1 .. Len(readyq) :
        /\ FirstWithId(readyq, want, i)
        /\ CallerReady
        /\ TakeOut(i)
    /\ retid' = want
    /\ pc' = "yield"

\* want names no ready thread: the caller, by its identifier, is taken out
\* again and the call returns THREAD_INVALID.  Its state stays READY.
YieldMiss(want) ==
    /\ May("yield")
    /\ want # tid[runningrn]
    /\ readyq # <<>>
    /\ \A i \in 1 .. Len(readyq) : ~FirstWithId(readyq, want, i)
    /\ \E i \in 1 .. (Len(readyq) + 1) :
        /\ FirstWithId(Append(readyq, runningrn), tid[runningrn], i)
        /\ CallerReady
        /\ TakeOut(i)
    /\ UNCHANGED <<retid, pc>>

-----------------------------------------------------------------------------
(* thread_kill *)

\* A ready thread is marked; the first with that identifier is the one found.
KillReady(t) ==
    /\ May("kill")
    /\ t # tid[runningrn]
    /\ \E i \in 1 .. Len(readyq) :
        /\ FirstWithId(readyq, t, i)
        /\ state' = [state EXCEPT ![readyq[i]] = "DEAD"]
    /\ idarray' = [idarray EXCEPT ![t].state = "DEAD"]
    /\ UNCHANGED <<live, tid, readyq, exitedq, waitq, queues, runningrn, next,
                   queue, retid, leaving, waking, pc>>

\* A sleeping thread is marked in idarray only; thread_wakeup finds it there.
KillSleeping(t) ==
    /\ May("kill")
    /\ t # tid[runningrn]
    /\ \A i \in 1 .. Len(readyq) : tid[readyq[i]] # t
    /\ idarray[t].status = "USED"
    /\ idarray[t].state = "WAITING"
    /\ idarray' = [idarray EXCEPT ![t].state = "DEAD"]
    /\ UNCHANGED <<live, tid, state, readyq, exitedq, waitq, queues, runningrn,
                   next, queue, retid, leaving, waking, pc>>

-----------------------------------------------------------------------------
(* Wait queues, thread_wakeup *)

QueueCreate(q) ==
    /\ InUser
    /\ q \notin queues
    /\ queues' = queues \cup {q}
    /\ UNCHANGED <<live, tid, state, idarray, readyq, exitedq, waitq,
                   runningrn, next, queue, retid, leaving, waking, pc>>

\* wait_queue_destroy frees the queue only when nobody waits in it.
QueueDestroy(q) ==
    /\ InUser
    /\ q \in queues
    /\ waitq[q] = <<>>
    /\ queues' = queues \ {q}
    /\ UNCHANGED <<live, tid, state, idarray, readyq, exitedq, waitq,
                   runningrn, next, queue, retid, leaving, waking, pc>>

\* thread_wakeup(q, 0): whether the thread was killed in its sleep is read
\* from its identifier's entry, not from its TCB.
WakeHead(q) ==
    LET p == Head(waitq[q])
        t == tid[p]
    IN  /\ waitq[q] # <<>>
        /\ waitq'  = [waitq EXCEPT ![q] = Tail(@)]
        /\ readyq' = Append(readyq, p)
        /\ \/ /\ idarray[t].state = "WAITING"
              /\ state'   = [state EXCEPT ![p] = "READY"]
              /\ idarray' = [idarray EXCEPT ![t].state = "READY"]
           \/ /\ idarray[t].state # "WAITING"
              /\ state' = [state EXCEPT ![p] = "DEAD"]
              /\ UNCHANGED idarray
        /\ UNCHANGED <<live, tid, exitedq, queues, runningrn, next, queue,
                       retid, leaving, pc>>

WakeupOne(q) ==
    /\ May("wakeup")
    /\ q \in queues
    /\ WakeHead(q)
    /\ UNCHANGED waking

\* What waking becomes when thread_wakeup(q, 1) starts.
WakeAll(q) == IF waitq[q] = <<>> THEN Nil ELSE q

WakeupAll(q) ==
    /\ May("wakeup")
    /\ q \in queues
    /\ waking' = WakeAll(q)
    /\ UNCHANGED <<live, tid, state, idarray, readyq, exitedq, waitq, queues,
                   runningrn, next, queue, retid, leaving, pc>>

\* One turn of the loop of thread_wakeup(q, 1), whoever called it.
WakeNext ==
    /\ waking # Nil
    /\ pc \notin Stopped
    /\ WakeHead(waking)
    /\ waking' = IF Len(waitq[waking]) = 1 THEN Nil ELSE waking

-----------------------------------------------------------------------------
(* thread_sleep, thread_wait *)

Sleep(q) ==
    /\ May("sleep")
    /\ q \in queues
    /\ queue' = q
    /\ pc' = "enter_sleep"
    /\ UNCHANGED <<live, tid, state, idarray, readyq, exitedq, waitq, queues,
                   runningrn, next, retid, leaving, waking>>

\* thread_wait marks the caller WAITING before it knows that it can sleep.
Wait(t) ==
    LET me == tid[runningrn]
    IN  /\ May("wait")
        /\ idarray[t].status = "USED"
        /\ t # me
        /\ state' = [state EXCEPT ![runningrn] = "WAITING"]
        /\ idarray' = [idarray EXCEPT ![me].state = "WAITING",
                                      ![t].wq = IF @ = "null" THEN "live" ELSE @]
        /\ queue' = t
        /\ pc' = "enter_sleep"
        /\ UNCHANGED <<live, tid, readyq, exitedq, waitq, queues, runningrn,
                       next, retid, leaving, waking>>

\* Nobody else is ready: thread_sleep returns THREAD_NONE, the caller goes on.
SleepNone ==
    /\ pc = "enter_sleep" /\ waking = Nil
    /\ readyq = <<>>
    /\ queue' = Nil
    /\ pc' = "user"
    /\ UNCHANGED <<live, tid, state, idarray, readyq, exitedq, waitq, queues,
                   runningrn, next, retid, leaving, waking>>

SleepPop ==
    /\ pc = "enter_sleep" /\ waking = Nil
    /\ readyq # <<>>
    /\ next' = Head(readyq)
    /\ readyq' = Tail(readyq)
    /\ pc' = "sleep"
    /\ UNCHANGED <<live, tid, state, idarray, exitedq, waitq, queues,
                   runningrn, queue, retid, leaving, waking>>

-----------------------------------------------------------------------------
(* thread_exit *)

\* The joiners of an exiting thread are forgotten.
JoinWaking_fault(t) == Nil

\* What becomes of idarray[t].wq when its waiters are woken and it is
\* destroyed, and where the kernel goes when the pointer was stale already.
DestroyJoinq(t) == IF idarray[t].wq = "null" THEN "null" ELSE "freed"
JoinWaking(t)   == IF idarray[t].wq = "live" THEN WakeAll(t) ELSE Nil

ExitEnter ==
    LET me == tid[runningrn]
    IN  /\ May("exit")
        /\ leaving' = me
        /\ idarray' = [idarray EXCEPT ![me].wq = DestroyJoinq(me)]
        /\ waking' = JoinWaking(me)
        /\ pc' = IF idarray[me].wq = "freed" THEN "stale_queue" ELSE "exiting"
        /\ UNCHANGED <<live, tid, state, readyq, exitedq, waitq, queues,
                       runningrn, next, queue, retid>>

\* The TCB goes to exitedq, from which the TCB of the previous exit is freed;
\* the identifier is free again.  With nobody ready the process ends.
ExitLeave ==
    /\ pc = "exiting" /\ waking = Nil
    /\ LET old == IF exitedq = <<>> THEN {} ELSE {Head(exitedq)}
       IN  /\ live'  = live \ old
           /\ tid'   = [p \in Threads |->
                          IF p \in old \cup {runningrn} THEN NoTid ELSE tid[p]]
           /\ state' = [p \in Threads |->
                          IF p \in old THEN "UNSET"
                          ELSE IF p = runningrn THEN "EXITED" ELSE state[p]]
           /\ exitedq' = Append(IF old = {} THEN exitedq ELSE Tail(exitedq),
                                runningrn)
    /\ idarray' = [idarray EXCEPT ![tid[runningrn]].status = "FREE",
                                  ![tid[runningrn]].state = "READY"]
    /\ \/ /\ readyq = <<>>
          /\ runningrn' = Nil
          /\ pc' = "halted"
          /\ UNCHANGED readyq
       \/ /\ readyq # <<>>
          /\ runningrn' = Head(readyq)
          /\ readyq' = Tail(readyq)
          /\ pc' = "exit"
    /\ UNCHANGED <<waitq, queues, next, queue, retid, leaving, waking>>

-----------------------------------------------------------------------------
(* The loops over killed threads in thread_yield, thread_exit and           *)
(* thread_sleep, and the switch to the thread found.                        *)

\* The thread the loop examines.
Popped == IF pc = "sleep" THEN next ELSE runningrn

\* Free a killed thread.  The next thread is taken from the ready queue
\* before the dead thread's joiners are put there; with none, the loop goes on
\* with the TCB it frees.  thread_yield and thread_exit free the identifier of
\* the dead thread, thread_sleep that of its caller.
Reap ==
    LET dead == Popped
        t    == tid[dead]
        more == readyq # <<>>
        succ == IF more THEN Head(readyq) ELSE dead
        last == more /\ Tail(readyq) = <<>> /\ JoinWaking(t) = Nil
    IN  /\ pc \in {"yield", "sleep", "exit"} /\ waking = Nil
        /\ dead \in live
        /\ state[dead] = "DEAD"
        /\ idarray' = [idarray EXCEPT ![tid[runningrn]].status = "FREE",
                                      ![t].wq = DestroyJoinq(t)]
        /\ readyq' = IF more THEN Tail(readyq) ELSE readyq
        /\ IF pc = "sleep"
             THEN next' = succ /\ UNCHANGED runningrn
             ELSE runningrn' = succ /\ UNCHANGED next
        /\ live'  = live \ {dead}
        /\ tid'   = [tid EXCEPT ![dead] = NoTid]
        /\ state' = [state EXCEPT ![dead] = "UNSET"]
        /\ waking' = JoinWaking(t)
        /\ pc' = IF idarray[t].wq = "freed" THEN "stale_queue"
                 ELSE IF pc = "exit" /\ last /\ tid[succ] \in {leaving, t}
                 THEN "halted" ELSE pc
        /\ UNCHANGED <<exitedq, waitq, queues, queue, retid, leaving>>

\* The loop reads the state of a TCB that was freed.
StaleThread ==
    /\ pc \in {"yield", "sleep", "exit"} /\ waking = Nil
    /\ Popped \notin live
    /\ pc' = "stale_thread"
    /\ UNCHANGED <<live, tid, state, idarray, readyq, exitedq, waitq, queues,
                   runningrn, next, queue, retid, leaving, waking>>

\* A killed thread is switched to.
Runnable_fault == waking = Nil /\ Popped \in live

Runnable == waking = Nil /\ Popped \in live /\ state[Popped] # "DEAD"

SwitchYield ==
    /\ pc = "yield" /\ Runnable
    /\ state' = [state EXCEPT ![runningrn] = "RUNNING"]
    /\ idarray' = [idarray EXCEPT ![tid[runningrn]].state = "RUNNING"]
    /\ retid' = NoTid
    /\ pc' = "user"
    /\ UNCHANGED <<live, tid, readyq, exitedq, waitq, queues, runningrn, next,
                   queue, leaving, waking>>

\* thread_exit leaves the thread it switches to in state READY.
SwitchExit ==
    /\ pc = "exit" /\ Runnable
    /\ state' = [state EXCEPT ![runningrn] = "READY"]
    /\ leaving' = NoTid
    /\ pc' = "user"
    /\ UNCHANGED <<live, tid, idarray, readyq, exitedq, waitq, queues,
                   runningrn, next, queue, retid, waking>>

StaleJoinq(q) == q \in Tids /\ idarray[q].wq = "freed"

\* The identifier of the sleeping thread is not marked.
MarkAsleep_fault == idarray' = [idarray EXCEPT ![tid[next]].state = "RUNNING"]

MarkAsleep == idarray' = [idarray EXCEPT ![tid[runningrn]].state = "WAITING",
                                         ![tid[next]].state = "RUNNING"]

\* The newest sleeper is put in front.
JoinQueue_fault == waitq' = [waitq EXCEPT ![queue] = <<runningrn>> \o @]

JoinQueue == waitq' = [waitq EXCEPT ![queue] = Append(@, runningrn)]

SwitchSleep ==
    /\ pc = "sleep" /\ Runnable
    /\ ~StaleJoinq(queue)
    /\ state' = [state EXCEPT ![runningrn] = "WAITING", ![next] = "RUNNING"]
    /\ MarkAsleep
    /\ JoinQueue
    /\ runningrn' = next
    /\ next' = Nil /\ queue' = Nil
    /\ pc' = "user"
    /\ UNCHANGED <<live, tid, readyq, exitedq, queues, retid, leaving, waking>>

\* The caller is about to be enqueued on a join queue that was destroyed.
StaleSleep ==
    /\ pc = "sleep" /\ Runnable
    /\ StaleJoinq(queue)
    /\ pc' = "stale_queue"
    /\ UNCHANGED <<live, tid, state, idarray, readyq, exitedq, waitq, queues,
                   runningrn, next, queue, retid, leaving, waking>>

-----------------------------------------------------------------------------
UserCall ==
    \/ Create
    \/ \E t \in Tids : \/ YieldTo(t) \/ YieldMiss(t)
                       \/ KillReady(t) \/ KillSleeping(t) \/ Wait(t)
    \/ \E q \in Queues : \/ QueueCreate(q) \/ QueueDestroy(q) \/ Sleep(q)
                         \/ WakeupOne(q) \/ WakeupAll(q)
    \/ ExitEnter

KernelStep ==
    \/ WakeNext
    \/ SleepNone \/ SleepPop
    \/ ExitLeave
    \/ Reap \/ StaleThread
    \/ SwitchYield \/ SwitchExit \/ SwitchSleep \/ StaleSleep

Terminated == pc \in Stopped /\ UNCHANGED vars

Next == UserCall \/ PreemptOrAny \/ KernelStep \/ Terminated

Spec == Init /\ [][Next]_vars

-----------------------------------------------------------------------------
TypeOK ==
    /\ live \in SUBSET Threads
    /\ tid \in [Threads -> Tids \cup {NoTid}]
    /\ state \in [Threads -> ThreadStates]
    /\ idarray \in [Tids -> IdNodes]
    /\ readyq \in Seq(Threads) /\ exitedq \in Seq(Threads)
    /\ waitq \in [WaitQueues -> Seq(Threads)]
    /\ queues \in SUBSET Queues
    /\ runningrn \in Threads \cup {Nil}
    /\ next \in Threads \cup {Nil}
    /\ queue \in WaitQueues \cup {Nil}
    /\ waking \in WaitQueues \cup {Nil}
    /\ retid \in Tids \cup {NoTid} /\ leaving \in Tids \cup {NoTid}
    /\ pc \in Pcs

-----------------------------------------------------------------------------
(* Placement: where the TCBs are.                                          *)

\* No TCB is queued twice in one queue.
OneEntry ==
    /\ IsInjective(readyq) /\ IsInjective(exitedq)
    /\ \A q \in WaitQueues : IsInjective(waitq[q])

\* No TCB is in two queues.
OneQueue ==
    /\ ToSet(readyq) \cap ToSet(exitedq) = {}
    /\ \A q \in WaitQueues :
        /\ ToSet(waitq[q]) \cap (ToSet(readyq) \cup ToSet(exitedq)) = {}
        /\ \A r \in WaitQueues \ {q} : ToSet(waitq[q]) \cap ToSet(waitq[r]) = {}

Queued == ToSet(readyq) \cup ToSet(exitedq)
              \cup UNION {ToSet(waitq[q]) : q \in WaitQueues}

\* The TCBs the CPU itself holds: the running one and thread_sleep's next.
Held == {runningrn, next} \ {Nil}

\* A queue never holds a TCB that was freed or that the CPU holds, and no
\* allocated TCB is lost.
EachSomewhere ==
    /\ Queued \subseteq live
    /\ Queued \cap Held = {}
    /\ live \subseteq Queued \cup Held

\* A program never runs on a freed TCB; of the three loops over killed threads
\* only that of thread_exit can leave runningrn pointing to one, and that of
\* thread_yield never walks off the ready queue.
CpuHolds ==
    /\ pc # "halted" => runningrn # Nil
    /\ pc \notin Stopped \cup {"exit"} => runningrn \in live
    /\ runningrn = next => runningrn = Nil

\* At most one exited thread's TCB and stack are kept.
OneExited == Len(exitedq) <= 1

\* Every allocated TCB is in exactly one place, whatever the program calls.
Placement == OneEntry /\ OneQueue /\ EachSomewhere /\ CpuHolds /\ OneExited

\* Only the TCBs in exitedq have no identifier.
LiveHaveIds == \A p \in live \ ToSet(exitedq) : tid[p] \in Tids

\* thread_yield put its caller, alive, behind every killed thread it may meet.
YieldEnds ==
    pc = "yield" =>
        \E p \in live : state[p] # "DEAD" /\ p \in ToSet(readyq) \cup {runningrn}

\* thread_sleep's argument and local are set exactly while it runs.
SleepLocals ==
    /\ pc \in {"enter_sleep", "sleep"} => queue # Nil
    /\ pc \in {"user", "yield", "exiting", "exit", "halted"} => queue = Nil
    /\ next # Nil <=> queue # Nil /\ pc \notin {"user", "enter_sleep"}

\* What the kernel's locals mean at each point of its code.
Locals == LiveHaveIds /\ YieldEnds /\ SleepLocals

\* The inductive invariant.
IInv == TypeOK /\ Placement /\ Locals

-----------------------------------------------------------------------------
(* Identifiers *)

\* Two threads never have the same identifier.
UniqueIds ==
    \A p, r \in live : tid[p] = tid[r] /\ tid[p] # NoTid => p = r

\* An identifier is USED exactly while a thread has it: none leaks, none is
\* handed out while in use.
IdAccounting ==
    \A t \in Tids : idarray[t].status = "USED" <=> \E p \in live : tid[p] = t

\* The table of identifiers gives each to one thread and gets each back.
Identifiers == UniqueIds /\ IdAccounting

\* The state that thread_kill and thread_wakeup read in idarray is that of the
\* thread which has the identifier, for every thread asleep: if thread_kill was
\* never called, thread_wakeup takes no sleeper for killed.
SleepersMarked ==
    \A q \in WaitQueues : \A p \in ToSet(waitq[q]) :
        state[p] = "WAITING" /\ idarray[tid[p]].state = "WAITING"

\* Whoever sleeps in a join queue waits for a thread that has yet to exit, or
\* is being woken by its exit.
JoinersHaveTarget ==
    \A t \in Tids :
        waitq[t] # <<>> /\ waking # t => \E p \in live : tid[p] = t

Ahead(s, p, r) == \E i, j \in 1 .. Len(s) : i < j /\ s[i] = p /\ s[j] = r

\* Nobody overtakes a sleeper: whoever is behind it in its queue, or goes to
\* sleep there later, is woken later and is put behind it in the ready queue,
\* whatever is killed, exits or yields meanwhile (thread.h: "Wake up threads in
\* FIFO order").
WakeFifo ==
    [][\A q \in WaitQueues : \A i \in 1 .. Len(waitq[q]) :
          \A r \in {waitq[q][j] : j \in (i + 1) .. Len(waitq[q])}
                     \cup (ToSet(waitq'[q]) \ ToSet(waitq[q])) :
              Ahead(readyq' \o waitq'[q], waitq[q][i], r)]_vars

\* The threads that get the CPU before p if all yield to the first.
InFront(p) == {r \in Threads : Ahead(readyq, r, p)}

\* Nobody overtakes a ready thread either: whatever is called, killed or preempted,
\* no thread comes in front of it, and each time the CPU goes to the first there is
\* one less.  So it runs when the program was preempted as often as there are
\* threads (thread.h on THREAD_ANY: "run any thread in the ready queue").
ReadyFifo ==
    [][\A p \in ToSet(readyq) \cap ToSet(readyq') :
          /\ InFront(p)' \subseteq InFront(p)
          /\ PreemptOrAny => InFront(p)' # InFront(p)]_vars

FifoOrder == WakeFifo /\ ReadyFifo

\* p was killed: a ready thread by its TCB, a sleeping one by its identifier.
Killed(p) ==
    /\ p \in live
    /\ \/ state[p] = "DEAD"
       \/ \E q \in WaitQueues :
            p \in ToSet(waitq[q]) /\ idarray[tid[p]].state = "DEAD"

\* A killed thread never runs its program again, and nothing ends that but the
\* freeing of its TCB (thread.h: "it should not run any further").
KilledIsFinal ==
    /\ [](InUser => ~Killed(runningrn))
    /\ [][\A p \in Threads : Killed(p) /\ p \in live' => Killed(p)']_vars

\* thread.h on thread_yield: "return the identifier of the thread that ran".
\* retid is set when the thread is chosen, and not again when a killed one was
\* chosen and the loop that frees it comes to another.
YieldReturns ==
    [][pc = "yield" /\ pc' = "user" => retid = tid[runningrn]]_vars

\* thread.h on thread_exit: "a new thread should be able to reuse this thread's
\* identifier"; the kernel never uses the join queue of a thread that is gone.
NeverStaleQueue == pc # "stale_queue"

-----------------------------------------------------------------------------
(* Progress.  A call of the kernel runs to its end.  The timer signal comes  *)
(* again and again, since interrupt_handler sets the timer anew each time;   *)
(* one that comes inside a call is held back until the call unblocks it, and *)
(* interrupt_handler then yields.  So a program that goes on forever while   *)
(* somebody is ready is preempted again and again.  Nothing is assumed of    *)
(* the calls a program makes.                                                *)
TimerFires ==
    <>[](readyq # <<>>) /\ []<>InUser => []<><<PreemptOrAny>>_vars

FairSpec == Spec /\ WF_vars(KernelStep) /\ TimerFires

\* A ready thread is dispatched whatever the other threads do, so long as the
\* program runs: round robin starves nobody, not even under yields to chosen
\* threads.
ReadyRuns ==
    \A p \in Threads :
        p \in ToSet(readyq) ~> p \notin ToSet(readyq) \/ pc \in Stopped
=============================================================================
