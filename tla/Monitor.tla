------------------------------ MODULE Monitor ------------------------------
(***************************************************************************)
(* What thread.h promises of locks and condition variables,                *)
(* without wait queues or a scheduler: a lock has at most one owner, and   *)
(* waiting on a condition variable gives the lock up and joins the line of *)
(* its waiters in one step.  ThreadSync implements it.                     *)
(***************************************************************************)
EXTENDS Sequences, SequencesExt

CONSTANTS Threads, Locks, Cvs, Nil

VARIABLES
    owner,    \* lock -> its owner or Nil
    entering, \* lock -> threads inside lock_acquire, or on their way back from
              \* cv_wait
    waiting   \* condition variable -> its waiters in order, with their locks

vars == <<owner, entering, waiting>>

Init ==
    /\ owner    = [l \in Locks |-> Nil]
    /\ entering = [l \in Locks |-> {}]
    /\ waiting  = [c \in Cvs |-> <<>>]

Waiters(c) == {w[1] : w \in ToSet(waiting[c])}

Engaged(p) == \/ \E l \in Locks : p \in entering[l]
              \/ \E c \in Cvs : p \in Waiters(c)

\* lock_acquire is called ...
Ask(p, l) ==
    /\ ~Engaged(p)
    /\ entering' = [entering EXCEPT ![l] = @ \cup {p}]
    /\ UNCHANGED <<owner, waiting>>

\* ... and returns; a thread may acquire the lock it owns again.
Acquire(p, l) ==
    /\ p \in entering[l]
    /\ owner[l] \in {Nil, p}
    /\ owner'    = [owner EXCEPT ![l] = p]
    /\ entering' = [entering EXCEPT ![l] = @ \ {p}]
    /\ UNCHANGED waiting

Release(p, l) ==
    /\ ~Engaged(p)
    /\ owner[l] = p
    /\ owner' = [owner EXCEPT ![l] = Nil]
    /\ UNCHANGED <<entering, waiting>>

Wait(p, c, l) ==
    /\ ~Engaged(p)
    /\ owner[l] = p
    /\ owner'   = [owner EXCEPT ![l] = Nil]
    /\ waiting' = [waiting EXCEPT ![c] = Append(@, <<p, l>>)]
    /\ UNCHANGED entering

\* cv_signal, and each turn of cv_broadcast: the first waiter goes back to its
\* lock.
Signal(p, c, l) ==
    /\ ~Engaged(p)
    /\ owner[l] = p
    /\ waiting[c] # <<>>
    /\ waiting'  = [waiting EXCEPT ![c] = Tail(@)]
    /\ entering' = [entering EXCEPT ![Head(waiting[c])[2]] =
                        @ \cup {Head(waiting[c])[1]}]
    /\ UNCHANGED owner

\* cv_wait gives up on its own: thread_sleep returned THREAD_NONE.
Return(c) ==
    /\ waiting[c] # <<>>
    /\ waiting'  = [waiting EXCEPT ![c] = Front(@)]
    /\ entering' = [entering EXCEPT ![Last(waiting[c])[2]] =
                        @ \cup {Last(waiting[c])[1]}]
    /\ UNCHANGED owner

Next ==
    \/ \E p \in Threads, l \in Locks :
        \/ Ask(p, l) \/ Acquire(p, l) \/ Release(p, l)
        \/ \E c \in Cvs : Wait(p, c, l) \/ Signal(p, c, l)
    \/ \E c \in Cvs : Return(c)

Spec == Init /\ [][Next]_vars
=============================================================================
