----------------------------- MODULE MCThreads -----------------------------
(* The programs for which the thread package keeps its promises, with three  *)
(* TCBs: those that kill nobody, those in which nobody sleeps, and those     *)
(* that use a lock and a condition variable.                                 *)
EXTENDS ThreadSync

CONSTANTS t1, t2, t3, q1, l1, c1

NoKills  == INSTANCE ThreadSched WITH Queues <- {q1}, Calls <- AllCalls \ {"kill"}
NoSleeps == INSTANCE ThreadSched WITH Queues <- {q1}, Calls <- AllCalls \ {"sleep", "wakeup", "wait"}

\* What the program does; in a behaviour it stays the same.
VARIABLE program

ProgramsInit == SyncInit /\ program \in {"kills nobody", "nobody sleeps", "locks"}

ProgramsNext ==
    /\ UNCHANGED program
    /\ \/ program = "kills nobody" /\ NoKills!Next /\ UNCHANGED syncVars
       \/ program = "nobody sleeps" /\ NoSleeps!Next /\ UNCHANGED syncVars
       \/ program = "locks" /\ SyncNext

ProgramsSpec ==
    ProgramsInit /\ [][ProgramsNext]_<<allVars, program>> /\ WF_vars(KernelStep) /\ TimerFires
=============================================================================
