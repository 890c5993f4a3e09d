------------------------------- MODULE Sched -------------------------------
(***************************************************************************)
(* Tasks, the timer interrupt and the context switch: kernel/proc.c,       *)
(* init/exception.S and the interrupt side of kernel/interrupt.c, on the   *)
(* one processor of the board.                                             *)
(*                                                                         *)
(* A timer interrupt stacks what it interrupted on the kernel stack of the *)
(* current task, and common_irq_handler turns interrupts on again before   *)
(* it calls the handler; schedule(), __asm_switch_to and both ways back    *)
(* run with interrupts on.  One action is what runs between two places     *)
(* where an interrupt makes a difference.  MaxNested bounds how often, in  *)
(* a whole behaviour, the timer fires before the way back from an earlier  *)
(* interrupt (or out of ret_from_fork) is over: with 0, it never does.     *)
(*                                                                         *)
(* Registers are told apart by what they hold for whom: gen stands for     *)
(* r0-r12, usp for the sp and lr of user mode, lr and spsr for those of    *)
(* SVC mode.  Condition flags and the stack frames of the C functions are  *)
(* left out, except the return address that leads from schedule() to one   *)
(* of the two ways back.  A failing kmalloc changes nothing: do_fork and    *)
(* kthread_create return -1.                                               *)
(***************************************************************************)
EXTENDS Integers

CONSTANTS
  Swapper,      \* the task start_kernel runs in
  UserTasks,    \* made by do_fork
  KernelTasks,  \* made by kthread_create
  MaxNested,    \* nested interrupts at most
  NULL

Tasks == {Swapper} \cup UserTasks \cup KernelTasks

ASSUME SchedAssumption ==
  /\ Swapper \notin UserTasks \cup KernelTasks
  /\ UserTasks \cap KernelTasks = {}
  /\ NULL \notin Tasks
  /\ MaxNested \in Nat

VARIABLES
  cpu,    \* the processor: registers, and where it is in the code
  stack,  \* the kernel stack of each task, what lies beyond sp included
  save,   \* context_save of each task: sp and lr
  next,   \* next of each task_info
  made,   \* the tasks do_fork and kthread_create have begun to make
  nested  \* how often an interrupt came during another one

vars == <<cpu, stack, save, next, made, nested>>

\* The three things an interrupt puts on the stack: the pc and spsr words, the
\* registers, and the return address in the frame of the C function called.
RetCell(l, m)     == [kind |-> "ret", loc |-> l, mode |-> m]
RegsCell(g, l, u) == [kind |-> "regs", gen |-> g, lr |-> l, usp |-> u]
CallCell(path)    == [kind |-> "call", path |-> path]
Nothing           == [kind |-> "none"]

StackTop == 3 * MaxNested + 3
Own(t) == IF t \in UserTasks THEN "usr" ELSE "svc"

\* task_init has made a ring of one; timer_init has started the timer and turned
\* interrupts on.
Init ==
  /\ cpu = [task |-> Swapper, loc |-> "task", sp |-> 0, irq |-> TRUE, mode |-> "svc",
            gen |-> Swapper, lr |-> NULL, spsr |-> "svc", usp |-> NULL]
  /\ stack = [t \in Tasks |-> [n \in 1..StackTop |-> Nothing]]
  /\ save = [t \in Tasks |-> [sp |-> 0, at |-> NULL, irq |-> FALSE]]
  /\ next = [t \in Tasks |-> IF t = Swapper THEN Swapper ELSE NULL]
  /\ made = {Swapper}
  /\ nested = 0

Here(n) == stack[cpu.task][n]

\* Interrupts whose frame is on the current kernel stack.
Depth(t, sp) ==
  LET d[n \in 0..StackTop] ==
        IF n = 0 THEN 0 ELSE d[n - 1] + (IF stack[t][n].kind = "ret" THEN 1 ELSE 0)
  IN  d[sp]

-----------------------------------------------------------------------------
(* do_fork and kthread_create. *)

Making(t) ==
  /\ cpu.loc = "task"
  /\ cpu.task = Swapper
  /\ t \notin made
  /\ made' = made \cup {t}
  /\ cpu' = [cpu EXCEPT !.loc = "built", !.gen = t]
  /\ UNCHANGED <<next, nested>>

\* do_fork writes the frame of an interrupt from user mode that never was, and
\* a context that resumes in ret_from_fork.
Fork(t) ==
  /\ Making(t)
  /\ t \in UserTasks
  /\ stack' = [stack EXCEPT ![t][1] = RetCell("task", "usr"), ![t][2] = RegsCell(t, NULL, t)]
  /\ save' = [save EXCEPT ![t] = [sp |-> 2, at |-> "fork1", irq |-> TRUE]]

\* Mutant: the thread's first cpsr has interrupts masked (0xd3, not 0x53).
KthreadCreateMasked(t) ==
  /\ Making(t)
  /\ t \in KernelTasks
  /\ save' = [save EXCEPT ![t] = [sp |-> 0, at |-> "task", irq |-> FALSE]]
  /\ UNCHANGED stack

\* kthread_create writes a context that resumes in the thread's function.
KthreadCreate(t) ==
  /\ Making(t)
  /\ t \in KernelTasks
  /\ save' = [save EXCEPT ![t] = [sp |-> 0, at |-> "task", irq |-> TRUE]]
  /\ UNCHANGED stack

\* Mutant: disable_schedule() is missing.
Link1InterruptsOn ==
  /\ cpu.loc = "built"
  /\ cpu' = [cpu EXCEPT !.loc = "linking", !.gen = <<@, next[cpu.task]>>]
  /\ next' = [next EXCEPT ![cpu.task] = cpu.gen]
  /\ UNCHANGED <<stack, save, made, nested>>

\* disable_schedule(); tmp = current->next; current->next = tsk;
Link1 ==
  /\ cpu.loc = "built"
  /\ cpu' = [cpu EXCEPT !.loc = "linking", !.irq = FALSE, !.gen = <<@, next[cpu.task]>>]
  /\ next' = [next EXCEPT ![cpu.task] = cpu.gen]
  /\ UNCHANGED <<stack, save, made, nested>>

\* Mutant: the new task is linked back to its maker, not to the rest of the ring.
Link2ToMaker ==
  /\ cpu.loc = "linking"
  /\ next' = [next EXCEPT ![cpu.gen[1]] = cpu.task]
  /\ cpu' = [cpu EXCEPT !.loc = "task", !.irq = TRUE, !.gen = cpu.task]
  /\ UNCHANGED <<stack, save, made, nested>>

\* tsk->next = tmp; enable_schedule(), whether interrupts were on before or not.
Link2 ==
  /\ cpu.loc = "linking"
  /\ next' = [next EXCEPT ![cpu.gen[1]] = cpu.gen[2]]
  /\ cpu' = [cpu EXCEPT !.loc = "task", !.irq = TRUE, !.gen = cpu.task]
  /\ UNCHANGED <<stack, save, made, nested>>

-----------------------------------------------------------------------------
(* The interrupt. *)

\* What __vector_irq, irq_from_user and irq_from_svc put on the kernel stack.
InterruptWords == RetCell(cpu.loc, cpu.mode)
UserFrame == RegsCell(cpu.gen, NULL, cpu.usp)
SvcFrame  == RegsCell(cpu.gen, cpu.lr, NULL)

\* Mutant: irq_from_user stores sp and lr without the ^, those of SVC mode.
TickNotBanked ==
  /\ cpu.irq
  /\ nested' = nested + (IF Depth(cpu.task, cpu.sp) = 0 THEN 0 ELSE 1)
  /\ nested' <= MaxNested
  /\ LET t == cpu.task
         n == cpu.sp
     IN  stack' = [stack EXCEPT ![t][n + 1] = InterruptWords,
                                ![t][n + 2] = SvcFrame,
                                ![t][n + 3] = CallCell(cpu.mode)]
  /\ cpu' = [cpu EXCEPT !.loc = "schedule", !.sp = @ + 3, !.mode = "svc", !.gen = NULL]
  /\ UNCHANGED <<save, next, made>>

\* __vector_irq up to the enable_irq of common_irq_handler: interrupts are off,
\* nothing can come between.  timer4_irq_handler does nothing.
Tick ==
  /\ cpu.irq
  /\ nested' = nested + (IF Depth(cpu.task, cpu.sp) = 0 THEN 0 ELSE 1)
  /\ nested' <= MaxNested
  /\ LET t == cpu.task
         n == cpu.sp
     IN  stack' = [stack EXCEPT ![t][n + 1] = InterruptWords,
                                ![t][n + 2] = IF cpu.mode = "usr" THEN UserFrame ELSE SvcFrame,
                                ![t][n + 3] = CallCell(cpu.mode)]
  /\ cpu' = [cpu EXCEPT !.loc = "schedule", !.sp = @ + 3, !.mode = "svc", !.gen = NULL]
  /\ UNCHANGED <<save, next, made>>

\* schedule(): the next task of the ring, if it is another one.
Schedule ==
  /\ cpu.loc = "schedule"
  /\ LET n == next[cpu.task]
     IN  cpu' = IF n = cpu.task THEN [cpu EXCEPT !.loc = "return"]
                ELSE [cpu EXCEPT !.loc = "store", !.gen = <<cpu.task, n>>]
  /\ UNCHANGED <<stack, save, next, made, nested>>

\* __asm_switch_to, first half: the stmia into prev->context_save.
Store ==
  /\ cpu.loc = "store"
  /\ save' = [save EXCEPT ![cpu.gen[1]] = [sp |-> cpu.sp, at |-> "return", irq |-> cpu.irq]]
  /\ cpu' = [cpu EXCEPT !.loc = "load"]
  /\ UNCHANGED <<stack, next, made, nested>>

\* Second half: msr spsr and the ldmia^ from next->context_save.  Every saved
\* cpsr is of SVC mode.
Load ==
  /\ cpu.loc = "load"
  /\ cpu.gen[2] \in Tasks
  /\ LET t == cpu.gen[2]
     IN  cpu' = [cpu EXCEPT !.task = t, !.sp = save[t].sp, !.loc = save[t].at,
                            !.irq = save[t].irq, !.spsr = "svc",
                            !.gen = IF save[t].at = "task" THEN t ELSE NULL]
  /\ UNCHANGED <<stack, save, next, made, nested>>

\* schedule() returns to ret_to_user_from_irq or to ret_to_svc_from_irq.
Return ==
  /\ cpu.loc = "return"
  /\ Here(cpu.sp).kind = "call"
  /\ cpu' = [cpu EXCEPT !.sp = @ - 1,
                        !.loc = IF Here(cpu.sp).path = "usr" THEN "user1" ELSE "svc1"]
  /\ UNCHANGED <<stack, save, next, made, nested>>

-----------------------------------------------------------------------------
(* The ways back. *)

\* Mutant: the spsr is fetched from the pc's word, #60 for #64.
ToUser1WrongWord ==
  /\ cpu.loc = "user1"
  /\ Here(cpu.sp - 1).kind = "ret"
  /\ cpu' = [cpu EXCEPT !.loc = "user2", !.sp = @ - 1,
                        !.lr = Here(cpu.sp - 1).loc, !.gen = Here(cpu.sp - 1).loc]
  /\ UNCHANGED <<stack, save, next, made, nested>>

\* ret_to_user_from_irq: ldr r1,[sp,#64] and ldr lr,[sp,#60]!  The latter moves
\* sp past the registers it has yet to restore.
ToUser1 ==
  /\ cpu.loc = "user1"
  /\ Here(cpu.sp - 1).kind = "ret"
  /\ cpu' = [cpu EXCEPT !.loc = "user2", !.sp = @ - 1,
                        !.lr = Here(cpu.sp - 1).loc, !.gen = Here(cpu.sp - 1).mode]
  /\ UNCHANGED <<stack, save, next, made, nested>>

\* msr spsr_cxsf, r1
ToUser2 ==
  /\ cpu.loc = "user2"
  /\ cpu' = [cpu EXCEPT !.loc = "user3", !.spsr = cpu.gen]
  /\ UNCHANGED <<stack, save, next, made, nested>>

\* ldmdb sp, {r0-lr}^, from below sp, whatever is there by now.
ToUser3 ==
  /\ cpu.loc = "user3"
  /\ LET regs == Here(cpu.sp + 1)
         whole == regs.kind = "regs"
     IN  cpu' = [cpu EXCEPT !.loc = "user4",
                            !.gen = IF whole THEN regs.gen ELSE NULL,
                            !.usp = IF whole THEN regs.usp ELSE NULL]
  /\ UNCHANGED <<stack, save, next, made, nested>>

\* add sp, sp, #8 and movs pc, lr
ToUser4 ==
  /\ cpu.loc = "user4"
  /\ cpu' = [cpu EXCEPT !.loc = cpu.lr, !.mode = cpu.spsr, !.sp = @ - 1]
  /\ UNCHANGED <<stack, save, next, made, nested>>

\* ret_to_svc_from_irq: msr spsr, r1
ToSvc1 ==
  /\ cpu.loc = "svc1"
  /\ Here(cpu.sp - 1).kind = "ret"
  /\ cpu' = [cpu EXCEPT !.loc = "svc2", !.spsr = Here(cpu.sp - 1).mode]
  /\ UNCHANGED <<stack, save, next, made, nested>>

\* ldmia sp, {r0-pc}^: registers, sp, pc and cpsr at once.
ToSvc2 ==
  /\ cpu.loc = "svc2"
  /\ Here(cpu.sp - 1).kind = "ret"
  /\ Here(cpu.sp).kind = "regs"
  /\ cpu' = [cpu EXCEPT !.loc = Here(cpu.sp - 1).loc, !.mode = cpu.spsr, !.sp = @ - 2,
                        !.gen = Here(cpu.sp).gen, !.lr = Here(cpu.sp).lr]
  /\ UNCHANGED <<stack, save, next, made, nested>>

\* ret_from_fork: msr spsr_cxsf, r1 and ldr lr,[sp,#60]
FromFork1 ==
  /\ cpu.loc = "fork1"
  /\ Here(cpu.sp - 1).kind = "ret"
  /\ cpu' = [cpu EXCEPT !.loc = "fork2", !.lr = Here(cpu.sp - 1).loc,
                        !.spsr = Here(cpu.sp - 1).mode]
  /\ UNCHANGED <<stack, save, next, made, nested>>

\* ldmia sp, {r0-lr}^
FromFork2 ==
  /\ cpu.loc = "fork2"
  /\ Here(cpu.sp).kind = "regs"
  /\ cpu' = [cpu EXCEPT !.loc = "fork3", !.gen = Here(cpu.sp).gen, !.usp = Here(cpu.sp).usp]
  /\ UNCHANGED <<stack, save, next, made, nested>>

\* add sp, sp, #68 and movs pc, lr
FromFork3 ==
  /\ cpu.loc = "fork3"
  /\ cpu' = [cpu EXCEPT !.loc = cpu.lr, !.mode = cpu.spsr, !.sp = @ - 2]
  /\ UNCHANGED <<stack, save, next, made, nested>>

-----------------------------------------------------------------------------
\* Kernel code that runs on by itself.
Kernel ==
  \/ Link1 \/ Link2
  \/ Schedule \/ Store \/ Load \/ Return
  \/ ToUser1 \/ ToUser2 \/ ToUser3 \/ ToUser4
  \/ ToSvc1 \/ ToSvc2
  \/ FromFork1 \/ FromFork2 \/ FromFork3

Next ==
  \/ Tick
  \/ \E t \in Tasks : Fork(t)
  \/ \E t \in Tasks : KthreadCreate(t)
  \/ Kernel

Spec == Init /\ [][Next]_vars

\* Code that can run does, the timer goes on firing (it reloads itself), and the
\* time between two interrupts is long enough for a task that is about to link
\* another one to get there sooner or later.
FairSpec == Spec /\ WF_vars(Kernel) /\ SF_vars(Link1) /\ WF_vars(Tick)

-----------------------------------------------------------------------------
Locations ==
  {"task", "built", "linking", "schedule", "store", "load", "return",
   "user1", "user2", "user3", "user4", "svc1", "svc2", "fork1", "fork2", "fork3"}

\* The type invariant.
TypeOK ==
  /\ cpu.task \in Tasks
  /\ cpu.loc \in Locations
  /\ cpu.sp \in 0..StackTop
  /\ cpu.irq \in BOOLEAN
  /\ {cpu.mode, cpu.spsr} \subseteq {"usr", "svc"}
  /\ save \in [Tasks -> [sp : 0..StackTop, at : {"return", "fork1", "task", NULL},
                       irq : BOOLEAN]]
  /\ next \in [Tasks -> Tasks \cup {NULL}]
  /\ made \subseteq Tasks
  /\ nested \in 0..MaxNested

\* Whenever a task's own code runs, it runs with its own registers, its own
\* user stack, in its own mode, with nothing left on its kernel stack: no
\* interrupt and no switch in between has disturbed it.  interrupt.c:96 says so
\* of nested interrupts ("中断嵌套发生的时候，前一个执行环境并不会被破坏").
ContextIntact ==
  cpu.loc = "task" =>
    /\ cpu.gen = cpu.task
    /\ cpu.mode = Own(cpu.task)
    /\ cpu.mode = "usr" => cpu.usp = cpu.task
    /\ cpu.sp = 0

\* The tasks that are in the ring.
Linked == {t \in Tasks : next[t] # NULL}

\* schedule() goes round all tasks: starting anywhere in the ring and going on,
\* every linked task comes up (do_fork, kthread_create).
RingIntact ==
  cpu.loc # "linking" =>
    \A S \in SUBSET Linked : S # {} /\ (\A t \in S : next[t] \in S) => S = Linked

\* The processor only ever goes to the task after the current one in the ring,
\* and only to one that is completely linked.
SwitchFollowsRing ==
  [][cpu'.task # cpu.task => cpu'.task = next[cpu.task] /\ next[cpu'.task] # NULL]_vars

\* proc.c:94: once a task is in the ring, it gets to run at a suitable time
\* ("task_info加入链表 合适的时机会发生context switch"), again and again.
EveryTaskRuns ==
  \A t \in Tasks : next[t] # NULL ~> cpu.loc = "task" /\ cpu.task = t
=============================================================================
