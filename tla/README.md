# TLA+ for Systems-Labs

Specifications, model checking and proofs for the three programs of this
repository: a user-level thread package (`threads/`), a multi-threaded web
server (`webserver/`) and warm-up exercises (`warmup/`).

## 1. Inventory

| Component | State it keeps | Operations | What makes it correct |
|---|---|---|---|
| Thread scheduler, `threads/thread.c` 1-696 | TCBs, `idarray`, `readyq`, `exitedq`, wait queues, `runningrn` | create, yield, exit, kill, sleep, wakeup, wait, wait queue create/destroy | each TCB in exactly one place; identifiers unique, none leaks; killed threads never run; sleepers woken in order; nobody waits for a thread that is gone; ready threads run |
| Locks, condition variables, `thread.c` 698-844 | `state` and `id` of a lock, a wait queue each | create, destroy, acquire, release; wait, signal, broadcast | they are a monitor: one owner, no wake-up lost between release and sleep, no sleeper on a free lock |
| Queue nodes, `thread.c` 37-144 | doubly linked list | pop, popbyid, enqueue | the list is a sequence, whatever stale pointers it keeps |
| Timer, `threads/interrupt.c` | signal mask, one-shot timer, masks saved on stacks and in contexts | interrupts_on/off/set, handler, set_interrupt | enabled exactly in the program's own code; preemption goes on for ever |
| Request buffer, `webserver/server_thread.c` 666-847 | circular buffer, `exiting`, mutex `lock`, conditions `full` and `empty` | server_request, thread_start_routine, server_exit | a bounded FIFO queue, each connection to one worker, no lost wake-up, clean shutdown |
| Server loop, `server.c`, `server_shutdown` | listening socket, pipe `./server_exit` | poll, accept, exit | connections answered, an exit request obeyed although clients keep coming |
| File cache, `server_thread.c` 21-665 | hash table, clock hand, pin list `usingrn`, `cache_size` | lookup, insert, evict, do_server_request | no entry freed while in use, size accounted for, searches end |
| HTTP, `request.c`, `client.c`, `client_simple.c` | one request, one reply | request_init to request_destroy; client_send, client_print | the client accepts what the server meant; an ill-behaved client costs nobody else |
| Buffered I/O, `common.c` 35-210 | read buffer | rio_write, rio_readb, rio_readlineb | short reads and writes lose nothing |
| File sets, `fileset.c`, `client.c` 129-168 | files, index | generate, load | what the client expects is what is there |
| Word counter, `warmup/wc.c` | hash table | wc_init, wc_output | counts every word |
| Recursive copy, `warmup/cpr.c` | directory tree | copydirectory, copysinglefile | a copy, or an error |

How they interact. Threads of the package share one CPU and the scheduler's
queues; locks and condition variables are wait queues plus an owner and call
`thread_sleep` and `thread_wakeup`. The timer's handler calls
`thread_yield(THREAD_ANY)` between any two calls of the program. The web server
is a different program and uses pthreads: the main thread polls, accepts
connections and hands them to the workers through the buffer; a worker reads the
request, looks into the cache it shares with the others, and replies. A byte in
the pipe makes the main thread shut everything down. Clients take the names,
lengths and sums that they expect from an index that `fileset` wrote.

Hard behaviours: preemption between any two calls and a timer that must survive
switches; killing a thread that is ready, asleep or just woken; reuse of
identifiers and of addresses; the signal that comes between a test and a wait;
shutdown while workers are anywhere; cache entries found under a lock and used
after it; transfers cut at any byte and peers that vanish; system calls that
fail half way through a copy. `PROJECT.json` lists each hazard at its line.

## 2. Modules

| Module | What it is |
|---|---|
| `ThreadSched` | the scheduler and wait queues |
| `ThreadSync` | extends it with locks and condition variables |
| `Monitor` | what locks and condition variables promise; `ThreadSync` implements it |
| `NodeQueue`, `ThreadQueue` | the queues of the scheduler as linked nodes, and the sequence they implement |
| `Interrupts` | signal mask, nested calls, handler and timer |
| `RequestQueue`, `BoundedBuffer` | request buffer, workers, shutdown, and the bounded FIFO they implement |
| `ServerLoop` | the poll loop between clients and the exit pipe |
| `FileCache` | the cache and do_server_request |
| `Rio`, `ByteStream` | buffered I/O in both directions, and the byte stream it implements |
| `HttpExchange` | extends `Rio` with a client and a server thread |
| `Fileset`, `WordCount`, `CopyTree` | the sequential programs |
| `ThreadSched_proofs`, `ThreadSync_proofs` | theorems about the thread package |
| `RequestQueue_proofs`, `FileCache_proofs`, `HttpExchange_proofs` | theorems about the web server |
| `Programs_proofs`, `CopyTree_proofs` | theorems about the small parts |
| `QueueFacts` | lemmas about sequences used as queues |
| `MC...` | instances for TLC; `MCThreads` has three kinds of programs over the thread package, `MCPrograms` six small parts side by side, one of them per behaviour, and `MCParts` the request buffer beside these |

### ThreadSched

Variables carry the names of the code. `Threads` is the set of addresses
`malloc` can return for a TCB; `live` are those allocated. `waitq` holds the
contents of every wait queue; the join queue `idarray[t].wq` is named by the
identifier `t`. `idarray[t].wq` is `"null"`, `"live"`, or `"freed"` when it
still points to a queue that was destroyed. The linked lists are sequences.

Every call runs with SIGALRM blocked, so a call is one action, except where the
kernel loops: reaping killed threads (`Reap`, then `SwitchYield`, `SwitchExit`
or `SwitchSleep`) and waking a whole queue (`WakeNext`) are a step per turn,
with `pc`, `next`, `queue`, `waking`, `leaving` and `retid` as the locals of the
call in progress. Only one thread is inside the kernel at a time, so one set of
locals is enough. What a thread does after `setcontext` brings it back, to
restore the mask and return, changes nothing and is not a step.

Calls that return an error without changing anything are not actions (yield to
oneself, invalid arguments, no identifier left). Reads of freed memory have no
meaning in C: the model stops at the first one, in `stale_queue` or
`stale_thread`. The constant `Calls` says which calls a program makes; several
results depend on it. The programs considered pass valid wait queues.

### ThreadSync

`cont[p]` is the lock that thread `p` is about to test in the loop of
`lock_acquire`, also on its way back from `cv_wait`: after `thread_sleep` the
thread has to test again before its program goes on. Locks and condition
variables use wait queues of `ThreadSched` named after them. The programs
considered release their locks before they exit, since a lock remembers its
owner by an identifier that somebody else may get, and leave the wait queues of
locks and condition variables alone.

`Monitor` knows no queues of locks and no scheduler. Its `Return` is the wait
that ends unsignalled because nobody else is ready (`thread_sleep` returns
`THREAD_NONE`).

### RequestQueue

The mutex and the conditions are modelled after POSIX, spurious wake-ups
included. Testing the predicate and going to sleep are two steps, between which
`server_exit`, which holds no mutex, can act. `max_requests` is chosen from
`Sizes` in the initial state; one slot takes the `buffer_full` branches.
Serving a connection is one step. Connections are numbered as they arrive.

### NodeQueue

Nodes have addresses that `malloc` gives out again after `free`. `pop` does not
set `tail` when the list becomes empty, and `enqueue` therefore asks the counter
first; `IsThreadQueue` says that the mapping to the sequence of the nodes' threads
is a refinement. Identifiers may be doubled (`TidOf`), as `sched_reap` shows they
can be: `popbyid` takes the first.

### Interrupts

`stack[t]` holds the calls that thread `t` is in. A call's `i` is what
`interrupts_off` returned and `interrupts_set(i)` restores; `at` tells before its
work from after it. `SwitchTo` stores the mask in the context of one thread and
takes it from that of the next, as getcontext and setcontext do. The handler's
frame keeps the mask that the kernel restores at its end, which may be many
switches later. A pending signal is delivered before the program does anything
else. `ThreadSched` treats each function as one step preempted before or after
it, and assumes that preemption goes on: `MaskRight` and `Preempted` are where
both come from.

### ServerLoop

A pipe opened for reading only says POLLHUP once its last writer has closed it.
The model keeps whether there is data (`data`) and whether it hangs up (`hup`);
`poll` waits for one of these or a connection, and stores in `revents` what there
is to say of pipe and socket at that moment. What the loop does next it decides
from `revents`: a connection that arrives behind `poll` is one for the next turn,
and comes too late for the assertion (96), which `server_assert` shows to fail. `server_shutdown` may be stopped
between its open and its write. What the workers do is reduced to a bounded set
of connections. The clients are started again and again, as `run-one-experiment`
does; a connection refused or cut off fails the process.

### FileCache

Each cache function is one step under `hashlock`; between them a worker uses the
node it found. Nodes have `next` and `prev` and may be on two lists at once,
since a pin links the node itself into `usingrn`. A read of NULL or of a freed
node sets `mem.fault` and the model stops. Freed addresses are not used again, so
that such a read is seen. How files hash and the limit of the cache are part of
the initial state (`Confs`).

The properties say for which configurations they hold; for others the code does
break them, and the model shows how: with one thread and two files in a bucket, a
hit on the second pins it into `usingrn` and so cuts the bucket's list (639), while
`num_files` goes on counting the files behind the cut ("total number of files in the
bucket", 32), and a later eviction counts on them and dereferences NULL; a
second pin of the same file by another worker is lost when the first is taken
back; the files behind a cut are inserted again and again, until no limit is large
enough (which is why `SafeUse` and `CopiesBounded` ask for no collisions even if
every file fits); `cache_evict` gives up at the first empty bucket, does not move the hand
and does not subtract what it has freed, so that `cache_size` stays too high and
every later insertion may fail. A node whose insertion fails is leaked. An empty
file has no `file_buf`, which `strcpy` then reads; contents are not modelled
(`Size` is positive).

### Rio and HttpExchange

A byte is a record that tells apart what the code looks for. Kernel buffers hold
`Capacity` bytes per direction; a transfer moves any number of bytes that fits.
A close with unread data resets the connection: the peer's write fails and its
process ends, the server's like the client's, since `Rio_write` calls `exit`. The
server may also end at any moment because of another connection (`ServerEnds`).

Facts the model contains, none of which is contradicted by a comment of the code:
`request_read_headers` never ends if the client goes away before the empty line;
`client_print` accepts a connection that ends without any reply if the file is
empty, and `client_simple` whenever it got no length; a file that disappears
between `stat` and `open` ends the whole server; neither client looks at the
status, so that `client.c` takes an error for the file if its text has the file's
length and sum (`LooksLikeError`). `rio_readlineb` ends a full line one byte
behind `maxlen`: undefined, and not modelled.

### Fileset, WordCount, CopyTree

`Fileset` has ints of `Half`: the product of mean size and number overflows. The
index of an earlier set, or one cut off anywhere, may be found by the client.
`written` remembers which.

`WordCount` chooses where a word hashes to when the word is first seen. It stops
where C has no meaning: a modulus of 0 for texts of up to two characters, an
endless recursion for texts that end in two or more separators, and probing
beyond the table. Otherwise the counts are compared with a definition of words
that does not use the code's loops.

`CopyTree` is a file system with the owner's modes. Any system call may fail,
`readdir` too: NULL means the end of the directory to the program, so it leaves
the directory with entries it never saw (`missed`) and goes on to succeed.
Everything that is said of a copy names this exception, and `cpr_whole` shows that
it happens. `stat`, `open` and `opendir` follow symbolic links, so a link is to the
program whatever it leads to, and so it is in the trees; one that leads nowhere
is a node of kind `"broken"`, at which `stat` fails. Left out are links that make a
directory contain itself or the copy; there the program goes down until its path
buffer overflows, as it does in a copy into its own source.
`creat` gets `O_WRONLY` as its mode, which is 1: a file that is being copied has
no permission for its owner until its mode is set, which is what lets
`CprModeLast` hold. The mode of the root is set without a look at the result. A
copy into its own source descends until the path buffer of 256 bytes overflows.

### Names ending in _fault

These are plausible mistakes in one operator each (a forgotten wake-up, an
off-by-one). No specification uses them. Put in the place of the operator they
belong to, each must break the property it is listed with in `PROJECT.json`;
this shows that the property can fail.

## 3. Runs

| Run | Instance | States | Shows |
|---|---|---|---|
| `sched_all` | 3 TCBs, 3 identifiers, 1 wait queue, all calls | 1.34M | `TypeOK`, `Placement`, `Locals`, `FifoOrder` |
| `threads` | the same TCBs under three kinds of programs: without kill; with create, yield, exit and kill only; with one lock and one condition variable | 49k | `Identifiers`, `SleepersMarked`, `JoinersHaveTarget`, `KilledIsFinal`, `ReadyRuns`; refinement of `Monitor`, `NoSleeperOnFreeLock`, `OwnerAlive`, `SleepersReacquire` |
| `cache` | 3 files, 3 buckets, 1 or 2 workers, with and without collisions, 5 limits, 5 requests | 334k | `Fits`, `SearchesEnd`, `Intact`, `SafeUse`, `CopiesBounded` |
| `http` | one exchange, 3-byte kernel buffers, 2-byte reads, 3-byte lines, files with and without line ends, one that looks like an error | 374k | `IsStream`, `ClientVerdict`, `ServerSurvives`, `BothFinish` |
| `parts` | the request buffer: 2 workers, 1 to 3 slots, 4 connections; texts of up to 7 characters; 21 trees; sets of up to 4 files of 2 or 3 blocks; 4 queue nodes; 3 threads under the timer; 2 clients and 2 writers of the pipe | 94k | refinement of `BoundedBuffer`, no lost wake-up (`NobodySleepsOnWork`), shutdown frees nothing early (`FreedAfterLastUse`), `EveryRequestTaken`; `WcCorrect` (`CountsRight`, `FailsOnlyThere`), `CprCorrect` (`CprFaithful`, `CprModeLast`, `CprFailsFor`), `FsRoundTrip`, `IsThreadQueue`, `MaskRight`, `SrvFailsFor`, `Progress` |

Runs that end in a violation, each a disagreement of the code with its own
documentation:

| Run | What happens |
|---|---|
| `sched_reap` | `thread_sleep` reaps a killed thread and frees the identifier of its *caller* (line 571); `thread_create` gives it away, and two threads have it. |
| `sched_reuse` | `thread_exit` frees the join queue and keeps the pointer (407); a wait for the next thread with that identifier sleeps in freed memory. |
| `sched_yield` | A yield to a killed thread returns the identifier of the killed one (365), and another runs; `thread.h` 55 promises the identifier of the thread that ran. |
| `server_assert` | A process opens `server_exit` and ends without writing. `poll` returns with POLLHUP alone, and the assertion "connect request arrived" (`server.c` 96) aborts the server. |
| `cpr_whole` | `readdir` fails in the middle of a directory (`cpr.c` 182); cpr takes it for the end, and exits with success although entries are missing. |
| `cache_pin` | A worker finds a file in the cache (614) and pins it only after it gave `hashlock` up; an eviction in between frees the file that is about to be sent. |
| `queue_exit` | `server_exit` sets `exiting` and broadcasts without the mutex; a worker about to wait sleeps through it and `pthread_join` never returns. |

One more thing the scheduler's model contains without a run of its own. If
only killed threads are left, `thread_exit` reads the TCB it freed (455, 456,
441) instead of ending the program: the model stops in `stale_thread`.

`sched_reap` decides which programs `threads` has: with kill *and* sleep the
identifiers are not unique, so the properties about identifiers are checked
without the one or the other, while those of `sched_all` hold regardless.

Two runs hold several systems that share nothing, one of them per behaviour.
`MCThreads` instantiates `ThreadSched` with two sets of calls beside `ThreadSync`,
and `program` says which of the three goes on. In `MCPrograms` it is `running`, and
`MCParts` adds the request buffer to them (`buffering`); the parts that do not run
stay in a state without steps. A property of one part can fail only by the
steps of that part.

Bounds. Three TCBs give a running, a ready and a sleeping or killed thread at
once, two sleepers in one queue, and TCBs and identifiers that run out and are
used again; three identifiers are as many as the TCBs, so running out of either
is met. The runs under `sched_all` use the symmetry of the two TCBs other than
the main one (no liveness there; `threads`, which has it, uses none). Two
workers are the least that compete for a connection; one, two and three slots
are the special case, the smallest ring and one that wraps with two entries in
it; four connections go round each ring. Three files of sizes 1, 2 and 1 meet a
limit that fits none of the larger, one at a time, most, or two copies of all;
five requests are enough for a hit, a collision and an eviction after each other.
Lines, reads and kernel buffers of two and three bytes are shorter than any
message, so every line and every transfer is cut; the file contents are empty,
with a line feed in the middle, and longer than a line. Seven characters make a
table of two buckets, words that collide, and both kinds of failing (all texts of
up to six are tried, and of seven those with three spaces). The trees
have a file and a directory with a file, something that is neither, a broken link,
modes that forbid reading or writing, and a target inside the source. Three threads under
the timer leave one that neither runs nor is asleep, while two yield to each
other. Two clients keep the server busy for ever while a writer wants it to stop.

Fairness. `ThreadSched!FairSpec`: a call of the kernel runs to its end, and a
program that goes on for ever while somebody stays ready is preempted again and
again: `interrupt_handler` sets the timer anew each time (`interrupt.c` 172,
181-195), and a signal that comes inside a call is delivered when the call
restores the mask. Nothing is assumed of a program's calls.
`RequestQueue!FairSpec`: every thread keeps running and a thread that wants the
mutex gets it if it is free again and again; no fairness for connections, the
exit request or spurious wake-ups.

`HttpExchange!FairSpec`: transfers, the server thread and a client that has
begun go on; either process may die at any time but need not.
`Interrupts!IntrFair`: a call proceeds, the timer runs out once it was set, and a
pending signal that is not blocked is delivered; the program itself may compute
for ever or call whatever it likes. `ServerLoop!SrvFair`: the loop and the workers
go on (the latter is `EveryRequestTaken`); nothing is assumed of clients, of
writers, or of `server_exit`, which `queue_exit` shows may hang.

Deadlock is checked in every run. A program that ended, or was stopped at a read
of freed memory, stutters explicitly (`Terminated`).

## 4. Proofs

TLAPS checks the theorems of eight modules. They hold for every value of the
constants that the modules' assumptions allow (any number of threads, files,
slots, bytes), where the runs have one small instance. Each inductive invariant
was checked by TLC before it was proved, except `PartsInv`, which is put together from
proved ones.

| Module | Theorems, with the property that each states |
|---|---|
| `ThreadSched_proofs` | `Invariance`; `TypeCorrect` (`TypeOK`), `PlacementCorrect` (`Placement`), `LocalsCorrect` (`Locals`), `FifoCorrect` (`FifoOrder`); without kill: `SleepersMarkedCorrect` (`SleepersMarked`), `JoinersCorrect` (`JoinersHaveTarget`), `YieldReturnsRight` (`YieldReturns`); without kill or without sleep: `IdentifiersCorrect` (`Identifiers`); without sleep: `KilledCorrect` (`KilledIsFinal`) |
| `ThreadSync_proofs` | `SyncInvariance`; `SyncTypeCorrect` (`SyncTypeOK`), `NoForgottenSleeper` (`NoSleeperOnFreeLock`), `SleepersTest` (`SleepersReacquire`); without kill: `OwnersAlive` (`OwnerAlive`), `MonitorCorrect` (`IsMonitor`) |
| `RequestQueue_proofs` | `InductiveInvariant`; `TypeCorrect` (`TypeOK`), `NoLostSignal` (`NobodySleepsOnWork`), `FreedLast` (`FreedAfterLastUse`), `Refinement` (`IsBoundedBuffer`) |
| `FileCache_proofs` | `CacheInvariance`, `AloneInvariance`, `RoomyInvariance`, `LoneInvariance`; `TypeCorrect` (`TypeOK`), `FitsCorrect` (`Fits`), `IntactCorrect` (`Intact`), `SafeUseCorrect` (`SafeUse`), `CopiesCorrect` (`CopiesBounded`), `SearchesEndCorrect` (`SearchesEnd`) |
| `HttpExchange_proofs` | `NothingLost` (the invariant of `Rio`), `StreamCorrect` (`IsStream`), `ServerOutlives` (`ServerSurvives`), `HttpTypeCorrect` (`HttpTypeOK`), `VerdictCorrect` (`ClientVerdict`) |
| `Programs_proofs` | `PartsInvariance`, `ProgramsTypeCorrect` (`ProgramsTypeOK`), `ProgramsCorrect`; `MaskCorrect` (`MaskRight`), `QueueCorrect` (`IsThreadQueue`), `NqTypeCorrect`, `IndexCorrect` (`FsRoundTrip`), `FsTypeCorrect`, `LoopFails` (`SrvFailsFor`), `SrvTypeCorrect`, `WordsCounted` (`WcCorrect`) |
| `CopyTree_proofs` | `CprInvariance`, `CopyCorrect` (`CprCorrect`) |

`QueueFacts` has the lemmas about sequences that are used as queues.

### Thread package

The invariant is `TypeOK /\ Placement /\ Locals`. `Placement` says that every
allocated TCB is in exactly one place: once in one queue, or held by the CPU
(`runningrn`, `next`). It is not inductive alone. `thread_yield` pops and frees
killed threads until it finds one that is alive; that there is one needs
`YieldEnds` (the caller queued itself, alive, behind them). `ExitLeave` and
`Reap` put a TCB away by its identifier, which needs `LiveHaveIds`; and a TCB in
`next` is held only inside `thread_sleep`, which is `SleepLocals`. The proof
treats all queues as one family of places indexed by name (`PlaceList`,
`PlacesIffList`): a step moves one TCB from a place to another, and each action
is shown to be such a move. `FifoOrder` follows from the same invariant. Its part
`WakeFifo`: a step takes at most the head of a wait queue and puts it behind
everybody who is ready. Its part `ReadyFifo`: whoever a step puts into the ready
queue goes to its end, so that the threads in front of a ready one only become
fewer, by one with each preemption or yield to any thread. This is the measure that
decreases in `ReadyRuns`; that preemptions go on coming is the fairness TLC assumes.

About identifiers the theorems have hypotheses, `NoKill` or `NoSleep`, that are
sets of `Calls` a program may be limited to. They are necessary: a
`thread_sleep` that meets a killed thread frees the identifier of its caller
(`thread.c` 571), as the run `sched_reap` shows, and with it `Identifiers` and
what depends on it are lost. The invariant of the first is `Owned` (identifiers, and
no identifier left in the TCB of an exited thread); to it `SleepersMarked` adds
that the mark of a sleeper in `idarray` is its own, and `JoinersHaveTarget` that
the wait queue of a join is there until the exiting thread has woken everybody.
`YieldReturnsRight` needs no thread to be marked dead at all (`NobodyKilled`): then
the thread that `thread_yield` puts in front is the one it dispatches, and
`RetidRight` carries its identifier from the one to the other. With kill the
statement is false, as `sched_yield` shows.

For the locks, `SyncInv` adds `GoingToSleep`: between the test of the lock and the
sleep nobody releases it, because the signal is blocked; this is why no wake-up is
lost. That the owner is there (`OwnerAlive`) needs `NoKill`: a killed owner never
releases. The refinement maps `cont`, the lock states and the owners to
`Monitor`; `Monitor` knows no scheduler, so every step of the kernel must be a
stutter of it, or one of its steps. The cases that need the invariant are those
in which a thread ends its wait: `ContAlive` says that only a thread that exists
and has not exited is in `lock_acquire` or `cv_wait`, and that whoever wakes the
waiters of a condition variable holds a lock.

### Request buffer

`IInv` adds to the types and to `NobodySleepsOnWork` where each thread can be
(`OwnCode`), that the mutex is held from the lock to the unlock or the wait
(`MutexHeld`), that whoever is about to wait still has reason to, since it did not
let go of the mutex after its test (`WaitJustified`), which connections are in
whose hands, and which workers have been joined. The refinement reads the window as the queue of
`BoundedBuffer`; `WrapOnce` and the lemmas on the window do the arithmetic modulo
the size.

### File cache

`CacheInv` holds for every configuration: types, `Bytes <= cache_size <= limit`,
no more nodes allocated than requests made, and no NULL pinned. Sums and
searches are recursive functions; their values are proved by induction on sets
of numbers (`SetInduction`), since the library's theorems on recursion take
operators as arguments. What the lists look like after an arbitrary history of
several workers has no invariant we know of, as a pin and its undoing leave stale
`prev` pointers; so three cases are proved:

- `AloneInv`, one worker and no collisions: the lists have at most one live node
  each, `usingrn` has the node in use exactly while it is sent, and a file is
  inserted only if there is no copy of it. From it `Intact` and half of `SafeUse`.
- `RoomyInv`, no collisions and `AllFit`: lists are closed, a bucket has a head if
  a file is there, what a worker holds is allocated, and the copies of a file and
  the workers about to insert one are together at most as many as the workers. Then
  what is cached is at most `threads` times all sizes (`TotalBound`), nothing is
  ever evicted, and nothing freed. From it the rest of `SafeUse` and
  `CopiesBounded`.
- `LoneInv`, one worker and any hash function: the worker undoes a pin before it
  makes the next, so a node is only ever taken from the head of a list. A `next`
  pointer keeps its target or becomes NULL (`Shorter`), except where a node is
  appended that no walk met before. So every list ends within `num_files` nodes
  (`EndsInTime`), although collisions leave freed nodes in buckets and the worker
  may pin one of them. In every turn an eviction frees a node, opens a bucket or
  passes on to the next, which `Spare` counts down (`LoneTurn`), and so it ends
  within `EvictTurns`. From it `SearchesEnd`.

Two proofs that failed corrected the specification. `SafeUse` used to be claimed
under `AllFit` alone. With two files in one bucket that is false, although no
run of five requests shows it: a pin cuts the bucket's list, the files behind it
are inserted again and again, and with room for each of the three files once the
seventh request makes the only worker evict and dereference NULL.

`SearchesEnd` used to be claimed for every configuration, and then for two workers
without collisions, because no run of a few requests contradicts it. The invariant
that the proof needs does not exist: two workers and three files that do not hash
alike can close a circle, with room for everything. Workers that miss a file at
once cache it twice, and a pin is taken back by name, which can take out the other
copy; so `usingrn` keeps nodes that nobody uses. Behind these, one worker pins node
c and the other p. Taking c's pin back removes an unused copy of the same file
instead; c is pinned again, behind p, which clears c's `next` and cuts p off. The
other worker's taking back finds no p, and it pins p once more, behind c. When c is
taken out now, its `prev` and its `next` are both p, and p's `next` becomes p.
Whoever then appends to that list goes round for ever with `hashlock` held. This
takes thirteen requests, more than a run can afford: it was found by a search over
the lists that forgets which nodes have been freed, and TLC confirmed the schedule
step by step on `FileCache`. So `SearchesEnd` is about one worker, where it is a
theorem, and with more the code promises nothing of the kind.

### Connection and exchange

`StreamIntact` says that what was read, buffered, under way and not yet written
make up what was written. It is inductive with the types alone, and it is what
maps `Rio` to `ByteStream`. For `ServerSurvives` the extra invariant `ClosedLast`
says which of the two has closed its end in which states.

`ClientVerdict` compares what the two ends know at different times; its invariant
`VInv` follows the client through the reply. `LinesAre`: the line being read is
the last part of what was read, and has LF at most at its end. `ServerSays`: what
has been replied in which state of the server, and why. `ClientAt`: in the
header, the client's line begins after two, four or six bytes and it knows just
the numbers in front of it (`InHeader`); behind the header, its length and sum
are those of the body so far (`InBody`), by the additivity of `Csum`, which is
proved by `SetInduction`; or the reply ended early, nothing more will come and
no body was counted (`CutOff`). Of a line the proof needs that MAXLINE is more
than a header line has, an assumption of `HttpExchange`.

### Small parts

`MCPrograms` runs six parts that share nothing, one of them per behaviour. Each
part has theorems about a specification of its own (`IntrSpec`, `NqSpec`, `FsSpec`,
`SrvSpec`, `WcSpec`, `CprSpec`), and `PartsInv`, the conjunction of their
invariants, is shown to hold of `PartsSpec`, whose steps are those of `parts` without the request buffer's: an initial state
is one of each part (`PartsStart`), and a step is one of one part that leaves the
others alone (`PartsMove`). Assumed are closed trees whose directories have no data,
and a source and places for the copy in them (`CprAssumption`); texts and contents
that are finite sequences; and something for each part to begin with
(`PartsAssumption`: a thread, a text, a tree, sizes of files).

- `IntrInv`: of the calls a thread is in, the outermost found the signal enabled
  and each inner one found it blocked (`WellNested`); a thread that does not run
  is in one place and was switched away inside a call, with the signal blocked
  (`SwitchedAway`). `MaskRight` alone says nothing of threads that do not run.
- `NqInv`: the nodes from `top` on, by `next`, are the allocated ones, each once,
  as many as `num_threads` says, and end in NULL; every `prev` but the first's
  points back. The first `prev`, and `tail` of an empty list, may be stale.
- `FsInv`: the buffer holds one line for each file made; the index is an older
  one, all of these lines, or as many of the first as were written, the last of
  them perhaps short; the client has loaded the fields of the lines it read.
  `FsTypeInv` adds that while files are made the buffer has a line for each.
- `SrvInv`: a connection that is not yet answered is in one place, waiting or with
  the workers, once; what `poll` stored of the pipe and the socket was so and is so
  still where it matters (`PollSaw`): a connection goes on waiting, because only
  the main thread accepts, and who hung up has gone.
- `WcInv`: the table holds each word read so far once, with its count, in the first
  slot at or behind the one it hashes to that was free (linear probing); what is
  behind the current character is still to come.
- `CprInv`: the calls of copydirectory lead down from the source, each to the entry
  in hand of the one above; in the directory of each are the copies of the entries
  it is done with, whole but for what a failing `readdir` kept back below them
  (`missed`), and nothing of those to come; everything is written at the path in
  hand. A directory that is left adds to `missed` what `readdir` still owed, so
  that at the end everything in the source is in the copy or under an entry of
  `missed`, also when the copy was made inside the source, whose new part it then
  meets.

### Only model-checked

Liveness (`ReadyRuns`, `EveryRequestTaken`, `BothFinish`, `Progress`) is beyond
the prover. Of `ReadyRuns`, `ReadyFifo` proves the part that is safety. Every other
property of the passing runs is stated by a theorem. `YieldReturns`, which a run
violates, is proved for programs that do not kill.

## 5. Not modelled, and the plan

Left out for good: addresses and name lookup of sockets, the random
distributions (floating point), the other warm-up exercises, test programs,
graders and plots. The snapshots: `marker/ss-043/webserver` is the same as
`webserver`, and `threads/ss-043` and `threads/marker/ss-043` are an earlier lab
without wait queues and locks. `malloc` fails only by running out of TCBs or
nodes. The timer handler allocating memory inside `malloc` is outside the model,
as is a server with workers and no slots, which uses an uninitialised buffer, and
contents with NUL bytes, which the cache copies as strings.

Monitors and mutexes of `RequestQueue` are those of pthreads, taken as primitive. The
next step would be to compose the exit and restart of the whole server with the
cache, whose own modules follow the requests of one run of it.
