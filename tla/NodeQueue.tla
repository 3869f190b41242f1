----------------------------- MODULE NodeQueue -----------------------------
(***************************************************************************)
(* threads/thread.c: a queue of threads as a doubly linked list of nodes,  *)
(* which malloc and free allocate and take back: an address is used again  *)
(* after free.  Every function runs with the interrupts off and is one     *)
(* step.  No step needs what a freed node or the null pointer leads to.    *)
(***************************************************************************)
EXTENDS Naturals, Sequences, SequencesExt, FiniteSets

CONSTANTS
    Threads,   \* the threads put into the queue, each once at a time
    TidOf,
    Nodes,     \* the addresses of nodes
    NoThread,
    Null

ASSUME NqAssumption == Null \notin Nodes

VARIABLES
    top, tail, num_threads,   \* struct wait_queue
    node,                     \* what is at each address, NoNode if nothing
    allocated,
    got

nqVars == <<top, tail, num_threads, node, allocated, got>>

NoNode == [thread |-> NoThread, next |-> Null, prev |-> Null]

NqInit ==
    /\ top = Null /\ tail = Null /\ num_threads = 0
    /\ node = [a \in Nodes \cup {Null} |-> NoNode]
    /\ allocated = {}
    /\ got = NoThread

\* The nodes from top on, along next, num_threads of them.
Chain ==
    LET at[k \in 1 .. num_threads] == IF k = 1 THEN top ELSE node[at[k - 1]].next
    IN  at

items == [k \in 1 .. num_threads |-> node[Chain[k]].thread]

-----------------------------------------------------------------------------
\* enqueue.  The list counts as empty by its counter too: pop leaves tail at
\* the node it freed.
QueueEmpty_fault == top = Null /\ tail = Null
QueueEmpty == num_threads = 0 \/ (top = Null /\ tail = Null)

Enqueue(t) ==
    \E a \in Nodes \ allocated :
        LET new == [thread |-> t, next |-> Null, prev |-> IF QueueEmpty THEN Null ELSE tail]
        IN  /\ allocated' = allocated \cup {a}
            /\ tail' = a
            /\ \/ /\ QueueEmpty
                  /\ top' = a
                  /\ num_threads' = 1
                  /\ node' = [node EXCEPT ![a] = new]
               \/ /\ ~QueueEmpty
                  /\ num_threads' = num_threads + 1
                  /\ node' = [node EXCEPT ![tail].next = a, ![a] = new]
                  /\ UNCHANGED top
            /\ got' = NoThread

\* free(a), of a list that is n afterwards.
FreeNode(a, n) ==
    /\ node' = [n EXCEPT ![a] = NoNode]
    /\ allocated' = allocated \ {a}
    /\ num_threads' = num_threads - 1
    /\ got' = node[a].thread

\* pop.  Its callers have seen that the queue is not empty.
Pop ==
    /\ top # Null
    /\ top' = node[top].next
    /\ FreeNode(top, node)
    /\ UNCHANGED tail

\* popbyid goes through the list from top on to the first node whose thread has
\* the identifier, and takes it out.
Found(w) == {k \in DOMAIN Chain : TidOf[node[Chain[k]].thread] = w}

NewTail_fault(a) == a
NewTail(a) == node[a].prev

PopById(w) ==
    /\ top # Null
    /\ \/ /\ Found(w) = {}
          /\ got' = NoThread
          /\ UNCHANGED <<top, tail, num_threads, node, allocated>>
       \/ /\ Found(w) # {}
          /\ LET curr == Chain[CHOOSE k \in Found(w) : \A j \in Found(w) : k <= j]
             IN  \/ /\ curr = top /\ curr = tail
                    /\ top' = Null /\ tail' = Null
                    /\ FreeNode(curr, node)
                 \/ /\ curr = top /\ curr # tail
                    /\ top' = node[top].next
                    /\ FreeNode(curr, [node EXCEPT ![node[top].next].prev = Null])
                    /\ UNCHANGED tail
                 \/ /\ curr # top /\ curr = tail
                    /\ tail' = NewTail(curr)
                    /\ FreeNode(curr, [node EXCEPT ![node[curr].prev].next = Null])
                    /\ UNCHANGED top
                 \/ /\ curr # top /\ curr # tail
                    /\ FreeNode(curr, [node EXCEPT ![node[curr].prev].next = node[curr].next,
                                                   ![node[curr].next].prev = node[curr].prev])
                    /\ UNCHANGED <<top, tail>>

NqNext ==
    \/ \E t \in Threads \ ToSet(items) : Enqueue(t)
    \/ Pop
    \/ \E w \in {TidOf[t] : t \in Threads} : PopById(w)

-----------------------------------------------------------------------------
\* What is reachable is allocated and nothing else is: the list is never freed
\* in part and never leaks, though pop leaves tail and a prev at freed nodes.
NqTypeOK ==
    /\ num_threads \in Nat
    /\ {Chain[k] : k \in 1 .. num_threads} = allocated
    /\ Cardinality(allocated) = num_threads
    /\ got \in Threads \cup {NoThread}

\* The linked list is the queue that the scheduler takes it for, whatever
\* pointers its functions leave behind and whichever addresses are used again.
Queue == INSTANCE ThreadQueue
IsThreadQueue == Queue!Spec
=============================================================================
