---------------------------- MODULE ThreadQueue ----------------------------
(***************************************************************************)
(* What the scheduler takes a struct wait_queue for, and what ThreadSched  *)
(* models it as: a sequence of threads.  NodeQueue implements it.          *)
(***************************************************************************)
EXTENDS Naturals, Sequences, SequencesExt

CONSTANTS
    Threads,
    TidOf,     \* their identifiers, not all different
    NoThread

VARIABLES
    items,
    got     \* what the last call returned

Init == items = <<>> /\ got = NoThread

Put(t) ==
    /\ items' = Append(items, t)
    /\ got' = NoThread

TakeFirst ==
    /\ items # <<>>
    /\ got' = Head(items)
    /\ items' = Tail(items)

\* The first thread with the identifier, or none.
TakeById(w) ==
    /\ items # <<>>
    /\ \/ \E k \in DOMAIN items :
             /\ TidOf[items[k]] = w
             /\ \A j \in 1 .. (k - 1) : TidOf[items[j]] # w
             /\ got' = items[k]
             /\ items' = RemoveAt(items, k)
       \/ /\ \A k \in DOMAIN items : TidOf[items[k]] # w
          /\ got' = NoThread
          /\ UNCHANGED items

Next ==
    \/ \E t \in Threads : Put(t)
    \/ TakeFirst
    \/ \E w \in {TidOf[t] : t \in Threads} : TakeById(w)

Spec == Init /\ [][Next]_<<items, got>>
=============================================================================
