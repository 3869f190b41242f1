----------------------------- MODULE FileCache -----------------------------
(***************************************************************************)
(* The file cache of webserver/server_thread.c and do_server_request, the  *)
(* work of a server thread on one connection.                              *)
(*                                                                         *)
(* A cached file is a node (struct llnode) on the doubly linked list of    *)
(* its bucket.  A file that is being sent is pinned: the node itself is    *)
(* also put on the list usingrn, with the same two pointers.  hashlock     *)
(* makes each cache function one step; between them a thread works on a    *)
(* node it does not hold.                                                  *)
(*                                                                         *)
(* All the memory is one record, which the list operators map to a new     *)
(* one.  An access through NULL or to a node that was freed sets fault,    *)
(* and the model stops: C says nothing of what comes after.  A freed       *)
(* address is not used again.                                              *)
(***************************************************************************)
EXTENDS Integers, FiniteSets, FiniteSetsExt

CONSTANTS
    Files,        \* the names requested
    Size,         \* the size of each file
    Buckets,      \* numbuckets (NUMBUCKETS)
    Confs,        \* server parameters considered: see ConfType
    MaxRequests   \* bound: requests in a behaviour

Nil     == 0
Nodes   == 1 .. MaxRequests      \* a request allocates one node at most
Ptrs    == Nodes \cup {Nil}
UsingRn == -1
Lists   == {UsingRn} \cup 0 .. (Buckets - 1)

\* nr_threads (without workers the main thread serves: 1), hashfn and
\* max_cache_size (not 0: without a cache there is nothing to model).
ConfType == [threads : Nat \ {0}, hash : [Files -> 0 .. (Buckets - 1)],
             max_cache_size : Nat \ {0}]

ASSUME CacheAssumption ==
    /\ IsFiniteSet(Files) /\ Files # {}
    /\ Size \in [Files -> Nat \ {0}]
    /\ Buckets \in Nat \ {0}
    /\ Confs \subseteq ConfType
    /\ MaxRequests \in Nat

VARIABLES
    conf,        \* the parameters of this server
    mem,         \* the lists and their nodes
    hand,        \* clock hand
    cache_size,
    requests,    \* requests so far
    pc, file, node   \* per thread: where it is, data->file_name, node

vars == <<conf, mem, hand, cache_size, requests, pc, file, node>>

Threads == 1 .. conf.threads

MemType ==
    [head : [Lists -> Ptrs], num_files : [Lists -> Int],
     next : [Nodes -> Ptrs], prev : [Nodes -> Ptrs],
     name : [Nodes -> Files], live : SUBSET Nodes,
     allocated : 0 .. MaxRequests, fault : BOOLEAN]

\* cache_init, and usingrn in server_init
Init ==
    /\ conf \in Confs
    /\ mem = [head |-> [l \in Lists |-> Nil], num_files |-> [l \in Lists |-> 0],
              next |-> [n \in Nodes |-> Nil], prev |-> [n \in Nodes |-> Nil],
              name |-> [n \in Nodes |-> CHOOSE f \in Files : TRUE],
              live |-> {}, allocated |-> 0, fault |-> FALSE]
    /\ hand = 0
    /\ cache_size = 0
    /\ requests = 0
    /\ pc = [t \in Threads |-> "idle"]
    /\ file = [t \in Threads |-> CHOOSE f \in Files : TRUE]
    /\ node = [t \in Threads |-> Nil]

-----------------------------------------------------------------------------
(* Lists: what enqueue, popbyfilename and the two searches do to memory m. *)

\* m after it was accessed at the addresses ps.
Access(m, ps) == [m EXCEPT !.fault = @ \/ ~(ps \subseteq m.live)]

\* The pointers met on the way from the head of l, then Nil for ever.  On a list
\* that runs in a circle enqueue and popbyfilename go round for ever.  Here they
\* end after MaxRequests nodes and the behaviour goes on: more behaviours than
\* the code has, and SearchesEnd says when there are none such.
Walk(m, l) ==
    LET w[k \in 1 .. (MaxRequests + 1)] ==
            IF k = 1 THEN m.head[l]
            ELSE LET p == w[k - 1] IN IF p \in m.live THEN m.next[p] ELSE Nil
    IN  w

\* The steps of the walk w that a search for f makes, and whether it finds f
\* among the first n nodes.
Steps(m, w, f, n) ==
    {k \in Nodes : /\ k <= n /\ w[k] # Nil
                   /\ \A j \in 1 .. (k - 1) : w[j] \in m.live /\ m.name[w[j]] # f}

FoundAt(m, w, f, n) == {k \in Steps(m, w, f, n) : w[k] \in m.live /\ m.name[w[k]] = f}

Searched(m, w, f, n) == Access(m, {w[k] : k \in Steps(m, w, f, n)})

Enqueue(m, l, n) ==
    LET w     == Walk(m, l)
        trail == {k \in Nodes : w[k] # Nil}
        last  == w[Max(trail)]
    IN  IF m.num_files[l] = 0 \/ m.head[l] = Nil
        THEN [Access(m, {n}) EXCEPT !.head[l] = n, !.next[n] = Nil,
                                    !.prev[n] = Nil, !.num_files[l] = @ + 1]
        ELSE [Access(m, {n} \cup {w[k] : k \in trail})
                EXCEPT !.prev[n] = last, !.next[last] = n, !.next[n] = Nil,
                       !.num_files[l] = @ + 1]

\* curr, found on l, is unlinked from its neighbours p and x.  The head is
\* moved when curr is the head or has no neighbour before it.
Unlink(m, l, curr) ==
    LET p   == m.prev[curr]
        x   == m.next[curr]
        top == curr = m.head[l] \/ p = Nil
        m1  == Access(m, ({x} \cup IF top THEN {} ELSE {p}) \ {Nil})
        m2  == IF top THEN [m1 EXCEPT !.head[l] = x] ELSE [m1 EXCEPT !.next[p] = x]
        m3  == IF x = Nil THEN m2
               ELSE [m2 EXCEPT !.prev[x] = IF top THEN Nil ELSE p]
    IN  [m3 EXCEPT !.prev[curr] = Nil, !.next[curr] = Nil, !.num_files[l] = @ - 1]

\* popbyfilename.
Pop(m, l, f) ==
    LET w  == Walk(m, l)
        at == FoundAt(m, w, f, MaxRequests)
        m1 == Searched(m, w, f, MaxRequests)
    IN  IF m.num_files[l] = 0 THEN m
        ELSE IF at = {} THEN m1
        ELSE Unlink(m1, l, w[Min(at)])

\* How many nodes of l a search looks at.
Searchable_fault(m, l) == m.num_files[l] - 1
Searchable(m, l) == m.num_files[l]

\* is_in_bucket and the search of cache_lookup: the first of the first
\* num_files nodes of l that has the name f.
Search(m, l, f) ==
    LET w  == Walk(m, l)
        at == FoundAt(m, w, f, Searchable(m, l))
    IN  [node |-> IF at = {} THEN Nil ELSE w[Min(at)],
         mem  |-> Searched(m, w, f, Searchable(m, l))]

-----------------------------------------------------------------------------
(* cache_evict.  A turn is one round of its inner loop, over the files left *)
(* in the bucket under the hand, or the move to the next bucket.            *)

EvictDone(e) == e.mem.fault \/ e.result # "none"

OpenBucket_skip(e) ==
    IF e.mem.head[e.hand] = Nil THEN [e EXCEPT !.hand = (@ + 1) % Buckets]
    ELSE [e EXCEPT !.mem = Access(@, {e.mem.head[e.hand]}),
                   !.left = e.mem.num_files[e.hand], !.open = TRUE]

OpenBucket_fault(e) ==
    [e EXCEPT !.mem = Access(@, {e.mem.head[e.hand]}),
              !.left = e.mem.num_files[e.hand], !.open = TRUE]

\* The inner loop begins: a bucket without a head ends the eviction.
OpenBucket(e) ==
    LET h == e.mem.head[e.hand] IN
    IF h = Nil THEN [e EXCEPT !.result = "fail"]
    ELSE [e EXCEPT !.mem = Access(@, {h}), !.left = e.mem.num_files[e.hand],
                   !.open = TRUE]

NextBucket_fault(e) == [e EXCEPT !.open = FALSE]

NextBucket(e) ==
    [e EXCEPT !.open = FALSE, !.hand = (@ + 1) % Buckets]

\* The file at the head goes back to the end of its bucket if usingrn has its
\* name, and is freed otherwise.
EvictHead(e, amount) ==
    LET c   == e.mem.head[e.hand]
        m1  == Access(e.mem, {c})
        m2  == Pop(m1, e.hand, m1.name[c])
        use == Search(m2, UsingRn, m1.name[c])
        got == e.got + Size[m1.name[c]]
    IN  IF c \notin e.mem.live THEN [e EXCEPT !.mem.fault = TRUE]
        ELSE IF use.node # Nil
        THEN [e EXCEPT !.mem = Enqueue(use.mem, e.hand, c), !.left = @ - 1]
        ELSE [e EXCEPT !.mem = [use.mem EXCEPT !.live = @ \ {c}], !.left = @ - 1,
                       !.got = got, !.result = IF got >= amount THEN "ok" ELSE @]

EvictTurn(e, amount) ==
    IF EvictDone(e) THEN e
    ELSE IF ~e.open THEN OpenBucket(e)
    ELSE IF e.left <= 0 THEN NextBucket(e)
    ELSE EvictHead(e, amount)

\* Enough turns to pass every bucket twice and every file in it.
EvictTurns == 4 * Buckets + 4 * MaxRequests

Evict(m, h, amount) ==
    LET e[k \in 0 .. EvictTurns] ==
            IF k = 0
            THEN [mem |-> m, hand |-> h, open |-> FALSE, left |-> 0, got |-> 0,
                  result |-> IF amount > conf.max_cache_size THEN "fail" ELSE "none"]
            ELSE EvictTurn(e[k - 1], amount)
    IN  e[EvictTurns]

-----------------------------------------------------------------------------
(* do_server_request by thread t.  A step that ends in a fault is the last. *)

\* Every other variable of t, and every other thread, is left alone.
Goto(t, l) == pc' = [pc EXCEPT ![t] = l]

At(t, l) == ~mem.fault /\ pc[t] = l

Bucket(t) == conf.hash[file[t]]

Request(t, f) ==
    /\ At(t, "idle")
    /\ requests < MaxRequests
    /\ requests' = requests + 1
    /\ file' = [file EXCEPT ![t] = f]
    /\ Goto(t, "lookup")
    /\ UNCHANGED <<conf, mem, hand, cache_size, node>>

Lookup(t) ==
    /\ At(t, "lookup")
    /\ LET hit == Search(mem, Bucket(t), file[t])
       IN  /\ mem' = hit.mem
           /\ node' = [node EXCEPT ![t] = hit.node]
           /\ Goto(t, IF hit.node = Nil THEN "read" ELSE "pin")
    /\ UNCHANGED <<conf, hand, cache_size, requests, file>>

\* request_readfile and, if it succeeds, request_sendfile.
ReadFile(t) ==
    /\ At(t, "read")
    /\ \E ok \in BOOLEAN : Goto(t, IF ok THEN "recheck" ELSE "idle")
    /\ UNCHANGED <<conf, mem, hand, cache_size, requests, file, node>>

Recheck(t) ==
    /\ At(t, "recheck")
    /\ LET idk == Search(mem, Bucket(t), file[t])
       IN  /\ mem' = idk.mem
           /\ Goto(t, IF idk.node = Nil THEN "insert" ELSE "idle")
    /\ UNCHANGED <<conf, hand, cache_size, requests, file, node>>

\* The node made for file f, linked into its bucket.
Link(m, f) ==
    LET n == m.allocated + 1
    IN  Enqueue([m EXCEPT !.allocated = n, !.live = @ \cup {n}, !.name[n] = f],
                conf.hash[f], n)

\* cache_size after an eviction that freed got bytes.
Uncharged_fault(got) == cache_size - 2 * got
Uncharged(got) == cache_size - got

\* cache_insert.  The node is made before room for it is; if there is none
\* nothing points to it, and it is never seen again.
Insert(t) ==
    LET size == Size[file[t]]
        over == size + cache_size - conf.max_cache_size
        e    == Evict(mem, hand, over)
    IN  /\ At(t, "insert")
        /\ Goto(t, "idle")
        /\ \/ /\ size > conf.max_cache_size
              /\ UNCHANGED <<mem, hand, cache_size>>
           \/ /\ size <= conf.max_cache_size
              /\ over <= 0
              /\ mem' = Link(mem, file[t])
              /\ cache_size' = cache_size + size
              /\ UNCHANGED hand
           \/ /\ size <= conf.max_cache_size
              /\ over > 0
              /\ hand' = e.hand
              /\ mem' = IF e.result = "ok" THEN Link(e.mem, file[t]) ELSE e.mem
              /\ cache_size' = IF e.result = "ok" THEN Uncharged(e.got) + size
                               ELSE cache_size
        /\ UNCHANGED <<conf, requests, file, node>>

Pin(t) ==
    /\ At(t, "pin")
    /\ mem' = Enqueue(mem, UsingRn, node[t])
    /\ Goto(t, "copy")
    /\ UNCHANGED <<conf, hand, cache_size, requests, file, node>>

\* The contents are copied out of the node and sent.
Copy(t) ==
    /\ At(t, "copy")
    /\ mem' = Access(mem, {node[t]})
    /\ Goto(t, "unpin")
    /\ UNCHANGED <<conf, hand, cache_size, requests, file, node>>

Unpin(t) ==
    /\ At(t, "unpin")
    /\ mem' = Pop(mem, UsingRn, file[t])
    /\ Goto(t, "idle")
    /\ UNCHANGED <<conf, hand, cache_size, requests, file, node>>

\* No more connections are considered, or C has no meaning.
Terminated ==
    /\ mem.fault \/ (requests = MaxRequests /\ \A t \in Threads : pc[t] = "idle")
    /\ UNCHANGED vars

Next ==
    \/ \E t \in Threads : \/ \E f \in Files : Request(t, f)
                          \/ Lookup(t) \/ ReadFile(t) \/ Recheck(t) \/ Insert(t)
                          \/ Pin(t) \/ Copy(t) \/ Unpin(t)
    \/ Terminated

Spec == Init /\ [][Next]_vars

-----------------------------------------------------------------------------
Locations == {"idle", "lookup", "read", "recheck", "insert", "pin", "copy", "unpin"}

\* The types of the variables.
TypeOK ==
    /\ conf \in Confs
    /\ mem \in MemType
    /\ hand \in 0 .. (Buckets - 1)
    /\ cache_size \in Nat
    /\ requests \in 0 .. MaxRequests
    /\ pc \in [Threads -> Locations]
    /\ file \in [Threads -> Files]
    /\ node \in [Threads -> Ptrs]

Bytes(ns) == FoldSet(LAMBDA n, s : s + Size[mem.name[n]], 0, ns)

CopiesOf(f) == {n \in mem.live : mem.name[n] = f}

\* The nodes met from the head of l.
Reach(l) == {Walk(mem, l)[k] : k \in Nodes} \ {Nil}

\* No two files have one bucket.
Injective == \A f, g \in Files : conf.hash[f] = conf.hash[g] => f = g

\* There is room for a copy of every file by every thread: nothing is evicted.
AllFit == conf.threads * FoldSet(LAMBDA f, s : s + Size[f], 0, Files)
            <= conf.max_cache_size

\* cache_size never passes the limit and never counts less than the files that
\* are in memory, whatever races, failed evictions and lost nodes do to it (it
\* may count more: an eviction that fails forgets what it freed).
Fits == ~mem.fault => /\ Bytes(mem.live) <= cache_size
                      /\ cache_size <= conf.max_cache_size

\* Pins run through the same pointers as buckets and rewrite them, but with one
\* worker, whatever the collisions, no search or append ever runs in a circle,
\* and an eviction ends: it frees enough, fails, or finds the memory broken.  So
\* hashlock is always given back.  (With two workers the pointers of pinned nodes
\* can close a circle, even without collisions: see README.md.)
SearchesEnd ==
    conf.threads = 1 =>
        /\ \A l \in Lists : Walk(mem, l)[MaxRequests + 1] = Nil
        /\ \A t \in Threads :
              LET over == Size[file[t]] + cache_size - conf.max_cache_size
              IN  /\ At(t, "insert")
                  /\ over > 0
                  /\ Size[file[t]] <= conf.max_cache_size
                  => EvictDone(Evict(mem, hand, over))

\* One thread and no collisions, the case the cache was written for: every file
\* in memory is found in its bucket, once, the buckets count their files, and
\* usingrn is empty except while a file is sent.
Intact ==
    conf.threads = 1 /\ Injective =>
        /\ \A b \in Lists \ {UsingRn} :
              /\ Reach(b) = {n \in mem.live : conf.hash[mem.name[n]] = b}
              /\ mem.num_files[b] = Cardinality(Reach(b))
        /\ \A f \in Files : Cardinality(CopiesOf(f)) <= 1
        /\ pc[1] \in {"copy", "unpin"}
              => Reach(UsingRn) = {node[1]} /\ mem.num_files[UsingRn] = 1
        /\ pc[1] \notin {"copy", "unpin"}
              => Reach(UsingRn) = {} /\ mem.num_files[UsingRn] = 0

\* Without collisions there is no access through NULL or to a freed node by one
\* thread, and none by any number of threads as long as nothing has to be evicted.
\* With collisions a pin cuts a bucket's list, the files behind it are inserted
\* again and again, and no limit is large enough.
SafeUse == Injective /\ (AllFit \/ conf.threads = 1) => ~mem.fault

\* Threads that miss a file together may each insert it, but once a copy is
\* there everyone finds it: no file is in memory more often than there are
\* threads, even though pins cut its bucket.
CopiesBounded ==
    AllFit /\ Injective => \A f \in Files : Cardinality(CopiesOf(f)) <= conf.threads

\* What usingrn is for: a file that is being sent is not freed.
PinnedNotFreed == \A t \in Threads : pc[t] = "copy" => node[t] \in mem.live
=============================================================================
