--------------------------- MODULE BoundedBuffer ---------------------------
(***************************************************************************)
(* What the web server needs of its request buffer: connections are handed *)
(* over in the order of arrival, each to one worker, and the buffer never  *)
(* holds more than its capacity.  RequestQueue implements it.              *)
(***************************************************************************)
EXTENDS Naturals, Sequences

CONSTANTS Workers, MaxConns

VARIABLES
    capacity,  \* chosen when the server starts
    arrived,   \* connections accepted so far; the n-th is called n
    queue,     \* accepted and waiting for a worker
    serving    \* the connection of each worker, or 0

vars == <<capacity, arrived, queue, serving>>

Init ==
    /\ capacity \in Nat
    /\ arrived = 0
    /\ queue = <<>>
    /\ serving = [w \in Workers |-> 0]

Put ==
    /\ arrived < MaxConns
    /\ Len(queue) < capacity
    /\ arrived' = arrived + 1
    /\ queue' = Append(queue, arrived')
    /\ UNCHANGED <<capacity, serving>>

Take(w) ==
    /\ queue # <<>>
    /\ serving[w] = 0
    /\ serving' = [serving EXCEPT ![w] = Head(queue)]
    /\ queue' = Tail(queue)
    /\ UNCHANGED <<capacity, arrived>>

Finish(w) ==
    /\ serving[w] # 0
    /\ serving' = [serving EXCEPT ![w] = 0]
    /\ UNCHANGED <<capacity, arrived, queue>>

Next == Put \/ \E w \in Workers : Take(w) \/ Finish(w)

Spec == Init /\ [][Next]_vars
=============================================================================
