---------------------------- MODULE RequestQueue ----------------------------
(***************************************************************************)
(* The worker threads of webserver/server_thread.c, the circular buffer    *)
(* through which the main thread hands them connections, and shutdown.     *)
(*                                                                         *)
(* One mutex (lock) and two condition variables (full, empty) guard the    *)
(* buffer; server_exit writes exiting and broadcasts without the mutex.    *)
(* A wait on a condition variable may end spuriously, as POSIX allows.     *)
(* What a worker does with a connection (do_server_request) is one step.   *)
(***************************************************************************)
EXTENDS Integers, Sequences, FiniteSets, SequencesExt

CONSTANTS
    NrThreads,  \* nr_threads, at least 1: the buffer is used
    Sizes,      \* the values of max_requests considered
    MaxConns    \* bound: connections that arrive before the exit request

ASSUME QueueAssumption ==
    /\ NrThreads \in Nat \ {0}
    /\ Sizes \subseteq Nat \ {0}
    /\ MaxConns \in Nat

Main    == 0
Workers == 1 .. NrThreads
Procs   == {Main} \cup Workers
Free    == -1

VARIABLES
    max_requests, exiting, buffer, in, out, buffer_full,  \* struct server
    mutex,     \* the owner of lock, or Free
    accepted,  \* connections accepted; the n-th has connfd n
    http_req,  \* each worker's connection, 0 while it has none
    joining,   \* server_exit's loop index, from 1
    pc

shared == <<max_requests, exiting, buffer, in, out, buffer_full>>
vars   == <<shared, mutex, accepted, http_req, joining, pc>>

\* server_init; the workers start when it releases lock.
Init ==
    /\ max_requests \in Sizes
    /\ exiting = FALSE
    /\ buffer = [i \in 0 .. (max_requests - 1) |-> 0]
    /\ in = 0 /\ out = 0 /\ buffer_full = 0
    /\ mutex = Free
    /\ accepted = 0
    /\ http_req = [w \in Workers |-> 0]
    /\ joining = 1
    /\ pc = [p \in Procs |-> IF p = Main THEN "poll" ELSE "loop"]

-----------------------------------------------------------------------------
Goto(p, l) == pc' = [pc EXCEPT ![p] = l]

Asleep(S) == {p \in S : pc[p] = "waiting"}

\* pthread_cond_signal to S while p moves on to l: one sleeper of S, if there
\* is one, goes after the mutex.
SignalGoto(S, p, l) ==
    IF Asleep(S) = {}
    THEN Goto(p, l)
    ELSE \E s \in Asleep(S) : pc' = [pc EXCEPT ![s] = "lock", ![p] = l]

Lock(p) ==
    /\ pc[p] = "lock"
    /\ mutex = Free
    /\ mutex' = p
    /\ Goto(p, "test")
    /\ UNCHANGED <<shared, accepted, http_req, joining>>

\* pthread_cond_wait: the predicate was tested a step earlier.
CondWait(p) ==
    /\ pc[p] = "wait"
    /\ mutex' = Free
    /\ Goto(p, "waiting")
    /\ UNCHANGED <<shared, accepted, http_req, joining>>

Spurious(p) ==
    /\ pc[p] = "waiting"
    /\ Goto(p, "lock")
    /\ UNCHANGED <<shared, mutex, accepted, http_req, joining>>

-----------------------------------------------------------------------------
(* server_request *)

Count == (in - out + max_requests) % max_requests

\* Fault: no wrap-around.
Succ_fault(i) == i + 1

Succ(i) == (i + 1) % max_requests

\* Fault: every slot is used, and a full buffer looks like an empty one.
IsFull_fault == Count = max_requests

IsFull == IF max_requests > 1 THEN Count = max_requests - 1 ELSE buffer_full = 1

Accept ==
    /\ pc[Main] = "poll"
    /\ accepted < MaxConns
    /\ accepted' = accepted + 1
    /\ Goto(Main, "lock")
    /\ UNCHANGED <<shared, mutex, http_req, joining>>

FoundFull ==
    /\ pc[Main] = "test"
    /\ IsFull
    /\ Goto(Main, "wait")
    /\ UNCHANGED <<shared, mutex, accepted, http_req, joining>>

Store ==
    \/ /\ max_requests > 1
       /\ buffer' = [buffer EXCEPT ![in] = accepted]
       /\ in' = Succ(in)
       /\ UNCHANGED buffer_full
    \/ /\ max_requests = 1
       /\ buffer' = [buffer EXCEPT ![0] = accepted]
       /\ buffer_full' = 1
       /\ UNCHANGED in

\* Fault: the connection is stored and no worker is signalled.
Put_fault ==
    /\ pc[Main] = "test"
    /\ ~IsFull
    /\ Store
    /\ Goto(Main, "poll")
    /\ mutex' = Free
    /\ UNCHANGED <<max_requests, exiting, out, accepted, http_req, joining>>

Put ==
    /\ pc[Main] = "test"
    /\ ~IsFull
    /\ Store
    /\ SignalGoto(Workers, Main, "poll")
    /\ mutex' = Free
    /\ UNCHANGED <<max_requests, exiting, out, accepted, http_req, joining>>

-----------------------------------------------------------------------------
(* thread_start_routine *)

IsEmpty == IF max_requests > 1 THEN in = out ELSE buffer_full = 0

\* exiting is read without the mutex.
Loop(w) ==
    /\ pc[w] = "loop"
    /\ Goto(w, IF exiting THEN "done" ELSE "lock")
    /\ UNCHANGED <<shared, mutex, accepted, http_req, joining>>

FoundEmpty(w) ==
    /\ pc[w] = "test"
    /\ IsEmpty /\ ~exiting
    /\ Goto(w, "wait")
    /\ UNCHANGED <<shared, mutex, accepted, http_req, joining>>

\* Whatever the buffer holds is left there.
FoundExiting(w) ==
    /\ pc[w] = "test"
    /\ exiting
    /\ mutex' = Free
    /\ Goto(w, "done")
    /\ UNCHANGED <<shared, accepted, http_req, joining>>

Take(w) ==
    /\ pc[w] = "test"
    /\ ~IsEmpty /\ ~exiting
    /\ \/ /\ max_requests > 1
          /\ http_req' = [http_req EXCEPT ![w] = buffer[out]]
          /\ out' = Succ(out)
          /\ UNCHANGED buffer_full
       \/ /\ max_requests = 1
          /\ http_req' = [http_req EXCEPT ![w] = buffer[0]]
          /\ buffer_full' = 0
          /\ UNCHANGED out
    /\ SignalGoto({Main}, w, "serve")
    /\ mutex' = Free
    /\ UNCHANGED <<max_requests, exiting, buffer, in, accepted, joining>>

Serve(w) ==
    /\ pc[w] = "serve"
    /\ http_req' = [http_req EXCEPT ![w] = 0]
    /\ Goto(w, "loop")
    /\ UNCHANGED <<shared, mutex, accepted, joining>>

-----------------------------------------------------------------------------
(* server_exit *)

ExitRequested ==
    /\ pc[Main] = "poll"
    /\ exiting' = TRUE
    /\ Goto(Main, "broadcast")
    /\ UNCHANGED <<max_requests, buffer, in, out, buffer_full, mutex, accepted,
                   http_req, joining>>

Broadcast ==
    /\ pc[Main] = "broadcast"
    /\ pc' = [p \in Procs |-> IF p = Main THEN "join"
                              ELSE IF pc[p] = "waiting" THEN "lock" ELSE pc[p]]
    /\ UNCHANGED <<shared, mutex, accepted, http_req, joining>>

\* Fault: nobody is waited for.
Join_fault ==
    /\ pc[Main] = "join"
    /\ Goto(Main, "done")
    /\ UNCHANGED <<shared, mutex, accepted, http_req, joining>>

Join ==
    /\ pc[Main] = "join"
    /\ pc[joining] = "done"
    /\ joining' = joining + 1
    /\ Goto(Main, IF joining = NrThreads THEN "done" ELSE "broadcast")
    /\ UNCHANGED <<shared, mutex, accepted, http_req>>

-----------------------------------------------------------------------------
WorkerStep(w) == Loop(w) \/ FoundEmpty(w) \/ FoundExiting(w) \/ Take(w) \/ Serve(w)
RequestStep   == FoundFull \/ Put
ExitStep      == Broadcast \/ Join
Terminated    == pc[Main] = "done" /\ UNCHANGED vars

Next ==
    \/ \E p \in Procs : Lock(p) \/ CondWait(p) \/ Spurious(p)
    \/ \E w \in Workers : WorkerStep(w)
    \/ Accept \/ RequestStep \/ ExitRequested \/ ExitStep
    \/ Terminated

Spec == Init /\ [][Next]_vars

\* Every thread keeps running; one that wants the mutex gets it if it is free
\* again and again.  Nothing makes a client connect, an exit request arrive or
\* a wait end on its own.
Fairness ==
    /\ \A p \in Procs : SF_vars(Lock(p)) /\ WF_vars(CondWait(p))
    /\ \A w \in Workers : WF_vars(WorkerStep(w))
    /\ WF_vars(RequestStep) /\ WF_vars(ExitStep)

FairSpec == Spec /\ Fairness

-----------------------------------------------------------------------------
TypeOK ==
    /\ max_requests \in Sizes
    /\ exiting \in BOOLEAN
    /\ buffer \in [0 .. (max_requests - 1) -> 0 .. MaxConns]
    /\ in \in 0 .. (max_requests - 1) /\ out \in 0 .. (max_requests - 1)
    /\ buffer_full \in {0, 1}
    /\ mutex \in Procs \cup {Free}
    /\ accepted \in 0 .. MaxConns
    /\ http_req \in [Workers -> 0 .. MaxConns]
    /\ joining \in 1 .. (NrThreads + 1)
    /\ pc \in [Procs -> {"poll", "loop", "lock", "test", "wait", "waiting",
                         "serve", "broadcast", "join", "done"}]

\* The connections in the buffer, oldest first.
Contents ==
    IF max_requests > 1
    THEN [i \in 1 .. Count |-> buffer[(out + i - 1) % max_requests]]
    ELSE IF buffer_full = 1 THEN <<buffer[0]>> ELSE <<>>

\* The main thread has accepted a connection and not yet put it in the buffer.
InHand == pc[Main] \in {"lock", "test", "wait", "waiting"}

Arrived == IF InHand THEN accepted - 1 ELSE accepted

\* A circular buffer of max_requests slots holds one less, except when there is
\* one slot only.
Capacity == IF max_requests > 1 THEN max_requests - 1 ELSE 1

\* Connections go through the buffer in order, each to one worker: the buffer
\* and its wrap-around, the two conditions and the special case of one slot
\* implement a bounded FIFO queue.
B == INSTANCE BoundedBuffer WITH
        capacity <- Capacity,
        arrived  <- Arrived,
        queue    <- Contents,
        serving  <- http_req

IsBoundedBuffer == B!Spec

\* pthread_cond_signal always finds someone when it matters: the workers are
\* never all asleep while a connection waits in the buffer, and the main thread
\* is never asleep while there is room.
NobodySleepsOnWork ==
    /\ Contents # <<>> => Asleep(Workers) # Workers
    /\ pc[Main] = "waiting" => Len(Contents) = Capacity

\* server_exit returns, and frees the buffer and the cache, only when no worker
\* runs any more.
FreedAfterLastUse == pc[Main] = "done" => \A w \in Workers : pc[w] = "done"

-----------------------------------------------------------------------------
(* The inductive invariant. *)

\* Where the main thread and the workers can be.
OwnCode ==
    /\ pc[Main] \in {"poll", "lock", "test", "wait", "waiting", "broadcast",
                     "join", "done"}
    /\ \A w \in Workers :
          pc[w] \in {"loop", "lock", "test", "wait", "waiting", "serve", "done"}

\* The mutex is held from the lock to the unlock or the wait.
MutexHeld == \A p \in Procs : pc[p] \in {"test", "wait"} <=> mutex = p

\* Whoever is about to wait still has reason to: the predicate it tested holds,
\* since it has not let go of the mutex.
WaitJustified ==
    /\ pc[Main] = "wait" => IsFull
    /\ \A w \in Workers : pc[w] = "wait" => IsEmpty

\* No connection is 0, which is how a worker without one is marked.
Connections ==
    /\ InHand => accepted # 0
    /\ \A i \in 1 .. Len(Contents) : Contents[i] # 0
    /\ \A w \in Workers : http_req[w] # 0 <=> pc[w] = "serve"

\* The workers before joining have ended.
Joined ==
    /\ \A w \in Workers : w < joining => pc[w] = "done"
    /\ pc[Main] = "done" <=> joining = NrThreads + 1

IInv == /\ TypeOK /\ OwnCode /\ MutexHeld /\ WaitJustified /\ Connections
        /\ Joined /\ NobodySleepsOnWork

-----------------------------------------------------------------------------
\* Unless the server is told to exit, a connection that was accepted gets a
\* worker.
EveryRequestTaken ==
    \A c \in 1 .. MaxConns :
        c \in ToSet(Contents) \/ (InHand /\ c = accepted)
            ~> exiting \/ \E w \in Workers : http_req[w] = c

\* server_exit waits for all worker threads and returns.
ExitReturns == pc[Main] = "broadcast" ~> pc[Main] = "done"
=============================================================================
