----------------------------- MODULE Interrupts -----------------------------
(***************************************************************************)
(* threads/interrupt.c, and how the functions of threads/thread.c use it:  *)
(* each blocks the timer's signal when it is entered and restores at every *)
(* return what it found; functions call each other; a switch of threads    *)
(* happens between the two; the handler of the signal yields, so that it   *)
(* stays on the stack of the thread it interrupted while others run.       *)
(* ThreadSched takes every function for one step, preempted before or      *)
(* after it: this module is where that comes from.                         *)
(***************************************************************************)
EXTENDS Naturals, Sequences, SequencesExt, FiniteSets

CONSTANTS
    Tasks,
    NoTask

ASSUME IntrAssumption == NoTask \notin Tasks

VARIABLES
    onCpu,   \* the running thread, NoTask when the program has ended
    ready,     \* readyq
    asleep,    \* the threads in wait queues
    stack,     \* the calls a thread is in, the innermost first
    ctx,       \* whether the context of a thread was saved with the signal enabled
    enabled,   \* the signal mask of the process
    timer      \* "armed", "pending" (it expired), "off" (it was delivered)

intrVars == <<onCpu, ready, asleep, stack, ctx, enabled, timer>>

Calls == {"yield", "yield_to", "sleep", "wait", "wakeup", "wakeup_all",
          "create", "exit", "unintr_printf"}
Frames == [fn : Calls \cup {"handler", "stub"}, i : BOOLEAN, at : {"enter", "back"}]

\* thread_init, then register_interrupt_handler.
IntrInit(t) ==
    /\ onCpu = t
    /\ ready = <<>> /\ asleep = {}
    /\ stack = [u \in Tasks |-> <<>>]
    /\ ctx = [u \in Tasks |-> FALSE]
    /\ enabled = TRUE
    /\ timer = "armed"

Unborn == Tasks \ ({onCpu} \cup ToSet(ready) \cup asleep)
InProgram == stack[onCpu] = <<>>
Top == Head(stack[onCpu])
In(fn) == onCpu # NoTask /\ ~InProgram /\ Top.fn = fn /\ Top.at = "enter"
Back == <<[Top EXCEPT !.at = "back"]>> \o Tail(stack[onCpu])

-----------------------------------------------------------------------------
\* interrupts_off at the entry of fn: what it returns is i of the new frame.
CallFrame(fn) == <<[fn |-> fn, i |-> enabled, at |-> "enter"]>>
Enter(fn, callers) ==
    /\ stack' = [stack EXCEPT ![onCpu] = CallFrame(fn) \o callers]
    /\ enabled' = FALSE

\* interrupts_set(i) at a return.  Fault: interrupts_on.
Restore_fault(i) == TRUE
Restore(i) == i

\* The handler's frame is taken off by the kernel, which restores the mask.
Return ==
    /\ onCpu # NoTask /\ ~InProgram /\ Top.at = "back"
    /\ stack' = [stack EXCEPT ![onCpu] = Tail(@)]
    /\ enabled' = IF Top.fn = "handler" THEN Top.i ELSE Restore(Top.i)
    /\ UNCHANGED <<onCpu, ready, asleep, ctx, timer>>

\* The program calls something.  A pending signal comes first: it is delivered
\* as soon as it is unblocked.
Call(fn) ==
    /\ onCpu # NoTask /\ InProgram
    /\ ~(enabled /\ timer = "pending")
    /\ Enter(fn, <<>>)
    /\ UNCHANGED <<onCpu, ready, asleep, ctx, timer>>

\* getcontext here, setcontext there: the context holds the mask, too.
SwitchTo(t) ==
    /\ onCpu' = t
    /\ ctx' = [ctx EXCEPT ![onCpu] = enabled]
    /\ enabled' = ctx[t]
    /\ stack' = [stack EXCEPT ![onCpu] = Back]

Yield ==
    /\ \/ In("yield") /\ ready # <<>> /\ SwitchTo(Head(ready)) /\ ready' = Append(Tail(ready), onCpu)
       \/ /\ In("yield_to")
          /\ \E k \in DOMAIN ready :
                SwitchTo(ready[k]) /\ ready' = Append(RemoveAt(ready, k), onCpu)
    /\ UNCHANGED <<asleep, timer>>

Sleep ==
    /\ In("sleep") /\ ready # <<>>
    /\ SwitchTo(Head(ready))
    /\ ready' = Tail(ready)
    /\ asleep' = asleep \cup {onCpu}
    /\ UNCHANGED timer

Wakeup ==
    /\ In("wakeup")
    /\ \E t \in asleep : ready' = Append(ready, t) /\ asleep' = asleep \ {t}
    /\ stack' = [stack EXCEPT ![onCpu] = Back]
    /\ UNCHANGED <<onCpu, ctx, enabled, timer>>

\* thread_wait calls thread_sleep; thread_wakeup of all calls that of one.
Nested ==
    /\ \/ In("wait") /\ Enter("sleep", Back)
       \/ In("wakeup_all") /\ asleep # {} /\ Enter("wakeup", stack[onCpu])
    /\ UNCHANGED <<onCpu, ready, asleep, ctx, timer>>

\* What returns without having changed anything here.
Nothing ==
    /\ \/ In("unintr_printf")
       \/ \E fn \in {"yield", "yield_to", "sleep"} : In(fn) /\ ready = <<>>
       \/ \E fn \in {"wakeup", "wakeup_all"} : In(fn) /\ asleep = {}
       \/ In("create") /\ Unborn = {}
    /\ stack' = [stack EXCEPT ![onCpu] = Back]
    /\ UNCHANGED <<onCpu, ready, asleep, ctx, enabled, timer>>

\* thread_create takes the mask of its own context, with the signal blocked;
\* thread_stub is where it is unblocked.
CreateTask ==
    /\ In("create")
    /\ \E t \in Unborn :
          /\ ready' = Append(ready, t)
          /\ ctx' = [ctx EXCEPT ![t] = enabled]
          /\ stack' = [stack EXCEPT ![onCpu] = Back, ![t] = CallFrame("stub")]
    /\ UNCHANGED <<onCpu, asleep, enabled, timer>>

Stub ==
    /\ In("stub")
    /\ stack' = [stack EXCEPT ![onCpu] = Tail(@)]
    /\ enabled' = TRUE
    /\ UNCHANGED <<onCpu, ready, asleep, ctx, timer>>

Exit ==
    /\ In("exit")
    /\ stack' = [stack EXCEPT ![onCpu] = <<>>]
    /\ \/ /\ ready # <<>>
          /\ onCpu' = Head(ready) /\ ready' = Tail(ready)
          /\ enabled' = ctx[Head(ready)]
       \/ ready = <<>> /\ onCpu' = NoTask /\ UNCHANGED <<ready, enabled>>
    /\ UNCHANGED <<asleep, ctx, timer>>

-----------------------------------------------------------------------------
TimerExpires ==
    /\ onCpu # NoTask
    /\ timer = "armed" /\ timer' = "pending"
    /\ UNCHANGED <<onCpu, ready, asleep, stack, ctx, enabled>>

\* The kernel blocks the signal while its handler runs.
Signal ==
    /\ onCpu # NoTask
    /\ enabled /\ timer = "pending"
    /\ Enter("handler", stack[onCpu])
    /\ timer' = "off"
    /\ UNCHANGED <<onCpu, ready, asleep, ctx>>

\* set_interrupt.  Fault: the timer is set once, by register_interrupt_handler.
Rearmed_fault == "off"
Rearmed == "armed"

Handler ==
    /\ In("handler")
    /\ timer' = Rearmed
    /\ Enter("yield", Back)
    /\ UNCHANGED <<onCpu, ready, asleep, ctx>>

InKernel == Return \/ Yield \/ Sleep \/ Wakeup \/ Nested \/ Nothing \/ CreateTask \/ Stub \/ Exit \/ Handler
IntrNext == InKernel \/ TimerExpires \/ Signal \/ \E fn \in Calls : Call(fn)

\* The program itself may compute forever.
IntrFair == WF_intrVars(InKernel) /\ WF_intrVars(TimerExpires) /\ WF_intrVars(Signal)

-----------------------------------------------------------------------------
\* interrupt.c: the variables have their types.
IntrTypeOK ==
    /\ onCpu \in Tasks \cup {NoTask}
    /\ ready \in Seq(Tasks) /\ asleep \subseteq Tasks
    /\ stack \in [Tasks -> Seq(Frames)] /\ ctx \in [Tasks -> BOOLEAN]
    /\ enabled \in BOOLEAN /\ timer \in {"armed", "pending", "off"}

\* interrupt.c, thread.c: the signal is enabled exactly while the program itself
\* runs, however the functions nest and whoever was interrupted or switched away
\* where; the handler's assert at line 157 is part of it.  Nothing but the
\* handler's own set_interrupt stands between two ticks.
MaskRight ==
    /\ onCpu # NoTask => (enabled <=> InProgram)
    /\ timer = "off" => In("handler")

\* interrupt.c: a ready thread gets the CPU although the running ones never
\* call the library or yield to each other only: the timer sees to it.
Preempted == \A t \in Tasks : (t \in ToSet(ready)) ~> (onCpu = t)
=============================================================================
