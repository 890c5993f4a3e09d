----------------------------- MODULE SchedProof -----------------------------
(***************************************************************************)
(* Tasks and switches for any set of tasks: without nested interrupts no   *)
(* task notices that it was interrupted, the ring stays whole, and every   *)
(* switch follows it.                                                      *)
(*                                                                         *)
(* NoNesting is needed: the runs sched_nested and sched_starved show what  *)
(* happens without it.  The invariant says where the context of a task is: *)
(* on its kernel stack (FrameOK), in its task_info (Suspended), or partly  *)
(* in the registers, at each step of the ways back (CpuInv).               *)
(***************************************************************************)
EXTENDS Sched, TLAPS

NoNesting == MaxNested = 0

\* What an interrupt has put on t's kernel stack will bring t back.
FrameOK(t) ==
  LET words == stack[t][1]
      regs  == stack[t][2]
  IN  /\ words.kind = "ret" /\ words.mode = Own(t) /\ words.loc \in {"task", "built"}
      /\ words.loc = "built" => t = Swapper
      /\ regs.kind = "regs"
      /\ words.loc = "task" => regs.gen = t
      /\ t \in UserTasks => regs.usp = t

CallOK(t) == stack[t][3].kind = "call" /\ stack[t][3].path = Own(t)

\* The context save of a task that does not run.
Suspended(t) ==
  /\ save[t].irq
  /\ \/ save[t].at = "return" /\ save[t].sp = 3 /\ FrameOK(t) /\ CallOK(t)
     \/ save[t].at = "fork1" /\ save[t].sp = 2 /\ FrameOK(t) /\ t \in UserTasks
     \/ save[t].at = "task" /\ save[t].sp = 0 /\ t \in KernelTasks

OwnCode == {"task", "built", "linking"}
Shape ==
  /\ cpu = [task |-> cpu.task, loc |-> cpu.loc, sp |-> cpu.sp, irq |-> cpu.irq,
            mode |-> cpu.mode, gen |-> cpu.gen, lr |-> cpu.lr, spsr |-> cpu.spsr,
            usp |-> cpu.usp]
  /\ cpu.task \in Tasks /\ cpu.loc \in Locations
  /\ cpu.spsr \in {"usr", "svc"}
  /\ DOMAIN stack = Tasks /\ \A t \in Tasks : DOMAIN stack[t] = 1..3
  /\ save \in [Tasks -> [sp : 0..3, at : {"return", "fork1", "task", NULL}, irq : BOOLEAN]]
  /\ next \in [Tasks -> Tasks \cup {NULL}]
  /\ made \subseteq Tasks
  /\ nested = 0

\* The registers at each place.
CpuInv ==
  LET t == cpu.task
  IN  /\ cpu.irq = (cpu.loc # "linking")
      /\ cpu.loc \in OwnCode => cpu.sp = 0 /\ cpu.mode = Own(t)
      /\ cpu.loc = "task" => cpu.gen = t /\ (t \in UserTasks => cpu.usp = t)
      /\ cpu.loc \in {"built", "linking"} => t = Swapper
      /\ cpu.loc \notin OwnCode => cpu.mode = "svc" /\ FrameOK(t)
      /\ cpu.loc \in {"schedule", "store", "load", "return"} => cpu.sp = 3 /\ CallOK(t)
      /\ cpu.loc \in {"store", "load"} =>
           cpu.gen[1] = t /\ cpu.gen[2] = next[t] /\ next[t] # t
      /\ cpu.loc = "load" => Suspended(t)
      /\ cpu.loc \in {"user1", "svc1", "svc2", "fork1", "fork2", "fork3"} => cpu.sp = 2
      /\ cpu.loc \in {"user2", "user3", "user4"} => cpu.sp = 1
      /\ cpu.loc \in {"user1", "user2", "user3", "user4", "fork1", "fork2", "fork3"} =>
           t \in UserTasks
      /\ cpu.loc \in {"svc1", "svc2"} => t \notin UserTasks
      /\ cpu.loc \in {"user2", "user3", "user4", "fork2", "fork3"} => cpu.lr = stack[t][1].loc
      /\ cpu.loc = "user2" => cpu.gen = stack[t][1].mode
      /\ cpu.loc \in {"user3", "user4", "svc2", "fork2", "fork3"} =>
           cpu.spsr = stack[t][1].mode
      /\ cpu.loc \in {"user4", "fork3"} =>
           cpu.gen = stack[t][2].gen /\ cpu.usp = stack[t][2].usp

OthersInv == \A t \in made \ {cpu.task} : Suspended(t)

\* Where start_kernel's task is in do_fork or kthread_create, and with which task.
InMaking == cpu.task = Swapper /\ cpu.loc \in OwnCode
MakingLoc == IF InMaking THEN cpu.loc ELSE stack[Swapper][1].loc
NewTask ==
  IF ~InMaking THEN stack[Swapper][2].gen
  ELSE IF cpu.loc = "linking" THEN cpu.gen[1] ELSE cpu.gen

MadeInv ==
  /\ MakingLoc = "task" => made = Linked
  /\ MakingLoc # "task" => NewTask \in Tasks \ Linked /\ made = Linked \cup {NewTask}

\* The ring as it will be found, or as it was before the new task is half linked.
Ring == IF cpu.loc = "linking" THEN [next EXCEPT ![Swapper] = cpu.gen[2]] ELSE next

OneRing(f, T) ==
  /\ \A t \in T : f[t] \in T
  /\ \A S \in SUBSET T : S # {} /\ (\A t \in S : f[t] \in S) => S = T

RingInv ==
  /\ cpu.task \in Linked /\ Swapper \in Linked
  /\ OneRing(Ring, Linked)
  /\ cpu.loc = "linking" => next[Swapper] = cpu.gen[1]

IInv == Shape /\ CpuInv /\ OthersInv /\ MadeInv /\ RingInv

-----------------------------------------------------------------------------
(* How deep interrupts are nested. *)

LEMMA DepthIs ==
  ASSUME NoNesting, NEW t \in Tasks
  PROVE  /\ Depth(t, 0) = 0
         /\ \A n \in 1..3 : stack[t][1].kind = "ret" => Depth(t, n) \in Nat /\ Depth(t, n) > 0
<1>. DEFINE one(n) == IF stack[t][n].kind = "ret" THEN 1 ELSE 0
            Step(f) == [n \in 0..3 |-> IF n = 0 THEN 0 ELSE f[n - 1] + one(n)]
            e == [n \in 0..3 |-> IF n = 0 THEN 0
                                 ELSE IF n = 1 THEN one(1)
                                 ELSE IF n = 2 THEN one(1) + one(2)
                                 ELSE one(1) + one(2) + one(3)]
            d == CHOOSE f : f = Step(f)
<1>1. \A n \in 1..3 : one(n) \in 0..1
  OBVIOUS
<1>2. e = Step(e)
  <2>. HIDE DEF one
  <2>. QED
    BY <1>1
<1>. HIDE DEF Step, e
<1>3. d = Step(d)
  BY <1>2
<1>4. StackTop = 3
  BY DEF NoNesting, StackTop
<1>5. \A n \in 0..3 : Depth(t, n) = d[n]
  BY <1>4 DEF Depth, Step
<1>. HIDE DEF d
<1>6. d[0] = 0 /\ \A n \in 1..3 : d[n] = d[n - 1] + one(n)
  BY <1>3 DEF Step
<1>7. /\ d[1] = one(1) /\ d[2] = one(1) + one(2) /\ d[3] = one(1) + one(2) + one(3)
  <2>. HIDE DEF one
  <2>. QED
    BY <1>1, <1>6
<1>8. stack[t][1].kind = "ret" => one(1) = 1
  OBVIOUS
<1>. HIDE DEF one
<1>. QED
  BY <1>1, <1>5, <1>6, <1>7, <1>8

\* So the timer only interrupts a task's own code.
LEMMA TickInOwnCode ==
  ASSUME NoNesting, IInv, Tick
  PROVE  cpu.loc \in {"task", "built"} /\ cpu.sp = 0 /\ nested' = 0
<1>1. cpu.irq /\ nested' = nested + (IF Depth(cpu.task, cpu.sp) = 0 THEN 0 ELSE 1)
      /\ nested' <= 0 /\ nested = 0
  BY DEF Tick, NoNesting, IInv, Shape
<1>2. cpu.loc \in OwnCode
  <2>. SUFFICES ASSUME cpu.loc \notin OwnCode
                PROVE  FALSE
    OBVIOUS
  <2>1. stack[cpu.task][1].kind = "ret" /\ cpu.sp \in 1..3
    BY DEF IInv, CpuInv, FrameOK, Shape, Locations, OwnCode
  <2>2. Depth(cpu.task, cpu.sp) \in Nat /\ Depth(cpu.task, cpu.sp) > 0
    BY <2>1, DepthIs DEF IInv, Shape
  <2>. QED
    BY <1>1, <2>2
<1>3. cpu.loc # "linking" /\ cpu.sp = 0
  BY <1>1, <1>2 DEF IInv, CpuInv, OwnCode
<1>4. Depth(cpu.task, 0) = 0
  BY DepthIs DEF IInv, Shape
<1>. QED
  BY <1>1, <1>2, <1>3, <1>4 DEF OwnCode

-----------------------------------------------------------------------------
(* Steps that leave stacks, saved contexts and the ring alone. *)

LEMMA Kept ==
  ASSUME IInv, UNCHANGED <<stack, save, next, made, nested>>, cpu'.task = cpu.task,
         cpu.loc \notin OwnCode
  PROVE  /\ \A t \in Tasks : FrameOK(t)' = FrameOK(t) /\ CallOK(t)' = CallOK(t)
                             /\ Suspended(t)' = Suspended(t)
         /\ Linked' = Linked /\ OthersInv'
         /\ cpu'.loc # "linking" => RingInv'
         /\ cpu'.loc \notin OwnCode => MadeInv'
<1>1. \A t \in Tasks : FrameOK(t)' = FrameOK(t) /\ CallOK(t)' = CallOK(t)
                       /\ Suspended(t)' = Suspended(t)
  BY DEF FrameOK, CallOK, Suspended
<1>2. Linked' = Linked
  BY DEF Linked
<1>3. OthersInv'
  BY <1>1 DEF OthersInv, IInv, Shape
<1>4. cpu'.loc # "linking" => RingInv'
  BY <1>2 DEF RingInv, IInv, Ring, OwnCode, OneRing
<1>5. cpu'.loc \notin OwnCode => MadeInv'
  BY <1>2 DEF IInv, MadeInv, MakingLoc, NewTask, InMaking, OwnCode
<1>. QED
  BY <1>1, <1>2, <1>3, <1>4, <1>5

LEMMA ScheduleInv ==
  ASSUME NoNesting, IInv, Schedule
  PROVE  IInv'
<1>1. cpu'.task = cpu.task /\ cpu.loc \notin OwnCode /\ cpu'.loc \notin OwnCode
      /\ UNCHANGED <<stack, save, next, made, nested>>
  BY DEF Schedule, IInv, Shape, OwnCode
<1>2. Shape'
  BY DEF Schedule, IInv, Shape, CpuInv, FrameOK, CallOK, Locations, Own, Here
<1>3. CpuInv'
  BY <1>1, Kept DEF Schedule, IInv, Shape, CpuInv, FrameOK, CallOK, Own, OwnCode, Here
<1>. QED
  BY <1>1, <1>2, <1>3, Kept DEF IInv, OwnCode

LEMMA ReturnInv ==
  ASSUME NoNesting, IInv, Return
  PROVE  IInv'
<1>1. cpu'.task = cpu.task /\ cpu.loc \notin OwnCode /\ cpu'.loc \notin OwnCode
      /\ UNCHANGED <<stack, save, next, made, nested>>
  BY DEF Return, IInv, Shape, OwnCode
<1>2. Shape'
  BY DEF Return, IInv, Shape, CpuInv, FrameOK, CallOK, Locations, Own, Here
<1>3. CpuInv'
  BY <1>1, Kept DEF Return, IInv, Shape, CpuInv, FrameOK, CallOK, Own, OwnCode, Here
<1>. QED
  BY <1>1, <1>2, <1>3, Kept DEF IInv, OwnCode

LEMMA ToUser1Inv ==
  ASSUME NoNesting, IInv, ToUser1
  PROVE  IInv'
<1>1. cpu'.task = cpu.task /\ cpu.loc \notin OwnCode /\ cpu'.loc \notin OwnCode
      /\ UNCHANGED <<stack, save, next, made, nested>>
  BY DEF ToUser1, IInv, Shape, OwnCode
<1>2. Shape'
  BY DEF ToUser1, IInv, Shape, CpuInv, FrameOK, CallOK, Locations, Own, Here
<1>3. CpuInv'
  BY <1>1, Kept DEF ToUser1, IInv, Shape, CpuInv, FrameOK, CallOK, Own, OwnCode, Here
<1>. QED
  BY <1>1, <1>2, <1>3, Kept DEF IInv, OwnCode

LEMMA ToUser2Inv ==
  ASSUME NoNesting, IInv, ToUser2
  PROVE  IInv'
<1>1. cpu'.task = cpu.task /\ cpu.loc \notin OwnCode /\ cpu'.loc \notin OwnCode
      /\ UNCHANGED <<stack, save, next, made, nested>>
  BY DEF ToUser2, IInv, Shape, OwnCode
<1>2. Shape'
  <2>1. cpu.gen \in {"usr", "svc"}
    BY DEF ToUser2, IInv, Shape, CpuInv, FrameOK, Own, Here, OwnCode
  <2>2. cpu'.spsr = cpu.gen
    BY DEF ToUser2, IInv, Shape
  <2>. QED
    BY <1>1, <2>1, <2>2 DEF ToUser2, IInv, Shape, Locations
<1>3. CpuInv'
  BY <1>1, Kept DEF ToUser2, IInv, Shape, CpuInv, FrameOK, CallOK, Own, OwnCode, Here
<1>. QED
  BY <1>1, <1>2, <1>3, Kept DEF IInv, OwnCode

LEMMA ToUser3Inv ==
  ASSUME NoNesting, IInv, ToUser3
  PROVE  IInv'
<1>1. cpu'.task = cpu.task /\ cpu.loc \notin OwnCode /\ cpu'.loc \notin OwnCode
      /\ UNCHANGED <<stack, save, next, made, nested>>
  BY DEF ToUser3, IInv, Shape, OwnCode
<1>2. Shape'
  BY DEF ToUser3, IInv, Shape, CpuInv, FrameOK, CallOK, Locations, Own, Here
<1>3. CpuInv'
  BY <1>1, Kept DEF ToUser3, IInv, Shape, CpuInv, FrameOK, CallOK, Own, OwnCode, Here
<1>. QED
  BY <1>1, <1>2, <1>3, Kept DEF IInv, OwnCode

LEMMA ToSvc1Inv ==
  ASSUME NoNesting, IInv, ToSvc1
  PROVE  IInv'
<1>1. cpu'.task = cpu.task /\ cpu.loc \notin OwnCode /\ cpu'.loc \notin OwnCode
      /\ UNCHANGED <<stack, save, next, made, nested>>
  BY DEF ToSvc1, IInv, Shape, OwnCode
<1>2. Shape'
  <2>1. Here(cpu.sp - 1).mode \in {"usr", "svc"}
    BY DEF ToSvc1, IInv, Shape, CpuInv, FrameOK, Own, Here, OwnCode
  <2>2. cpu'.spsr = Here(cpu.sp - 1).mode
    BY DEF ToSvc1, IInv, Shape
  <2>. QED
    BY <1>1, <2>1, <2>2 DEF ToSvc1, IInv, Shape, Locations
<1>3. CpuInv'
  BY <1>1, Kept DEF ToSvc1, IInv, Shape, CpuInv, FrameOK, CallOK, Own, OwnCode, Here
<1>. QED
  BY <1>1, <1>2, <1>3, Kept DEF IInv, OwnCode

LEMMA FromFork1Inv ==
  ASSUME NoNesting, IInv, FromFork1
  PROVE  IInv'
<1>1. cpu'.task = cpu.task /\ cpu.loc \notin OwnCode /\ cpu'.loc \notin OwnCode
      /\ UNCHANGED <<stack, save, next, made, nested>>
  BY DEF FromFork1, IInv, Shape, OwnCode
<1>2. Shape'
  <2>1. Here(cpu.sp - 1).mode \in {"usr", "svc"}
    BY DEF FromFork1, IInv, Shape, CpuInv, FrameOK, Own, Here, OwnCode
  <2>2. cpu'.spsr = Here(cpu.sp - 1).mode
    BY DEF FromFork1, IInv, Shape
  <2>. QED
    BY <1>1, <2>1, <2>2 DEF FromFork1, IInv, Shape, Locations
<1>3. CpuInv'
  BY <1>1, Kept DEF FromFork1, IInv, Shape, CpuInv, FrameOK, CallOK, Own, OwnCode, Here
<1>. QED
  BY <1>1, <1>2, <1>3, Kept DEF IInv, OwnCode

LEMMA FromFork2Inv ==
  ASSUME NoNesting, IInv, FromFork2
  PROVE  IInv'
<1>1. cpu'.task = cpu.task /\ cpu.loc \notin OwnCode /\ cpu'.loc \notin OwnCode
      /\ UNCHANGED <<stack, save, next, made, nested>>
  BY DEF FromFork2, IInv, Shape, OwnCode
<1>2. Shape'
  BY DEF FromFork2, IInv, Shape, CpuInv, FrameOK, CallOK, Locations, Own, Here
<1>3. CpuInv'
  BY <1>1, Kept DEF FromFork2, IInv, Shape, CpuInv, FrameOK, CallOK, Own, OwnCode, Here
<1>. QED
  BY <1>1, <1>2, <1>3, Kept DEF IInv, OwnCode

-----------------------------------------------------------------------------
(* The last step of each way back: the task's own code goes on. *)

LEMMA BackInUser ==
  ASSUME NoNesting, IInv, cpu.loc \in {"user4", "fork3"}, cpu.sp' = 0,
         ToUser4 \/ FromFork3
  PROVE  IInv'
<1>. DEFINE t == cpu.task
<1>1. /\ UNCHANGED <<stack, save, next, made, nested>>
      /\ cpu' = [cpu EXCEPT !.loc = cpu.lr, !.mode = cpu.spsr, !.sp = 0]
  BY DEF ToUser4, FromFork3, IInv, Shape, CpuInv
<1>2. /\ t \in UserTasks /\ t # Swapper /\ FrameOK(t)
      /\ cpu.lr = stack[t][1].loc /\ cpu.spsr = stack[t][1].mode
      /\ cpu.gen = stack[t][2].gen /\ cpu.usp = stack[t][2].usp /\ cpu.irq
  BY SchedAssumption DEF IInv, CpuInv, OwnCode
<1>3. /\ cpu'.task = t /\ cpu'.loc = "task" /\ cpu'.mode = Own(t) /\ cpu'.sp = 0
      /\ cpu'.gen = t /\ cpu'.usp = t /\ cpu'.irq
  BY <1>1, <1>2 DEF IInv, Shape, FrameOK
<1>4. Shape'
  BY <1>1, <1>3 DEF IInv, Shape, Locations
<1>5. CpuInv'
  BY <1>3 DEF CpuInv, OwnCode
<1>6. OthersInv' /\ RingInv'
  BY <1>1, <1>3, Kept DEF OwnCode
<1>7. MadeInv'
  BY <1>1, <1>2, <1>3 DEF IInv, MadeInv, MakingLoc, NewTask, InMaking, Linked
<1>. QED
  BY <1>4, <1>5, <1>6, <1>7 DEF IInv

LEMMA ToUser4Inv ==
  ASSUME NoNesting, IInv, ToUser4
  PROVE  IInv'
<1>1. cpu.loc = "user4" /\ cpu.sp' = 0
  BY DEF ToUser4, IInv, CpuInv, Shape
<1>. QED
  BY <1>1, BackInUser

LEMMA FromFork3Inv ==
  ASSUME NoNesting, IInv, FromFork3
  PROVE  IInv'
<1>1. cpu.loc = "fork3" /\ cpu.sp' = 0
  BY DEF FromFork3, IInv, CpuInv, Shape
<1>. QED
  BY <1>1, BackInUser

LEMMA ToSvc2Inv ==
  ASSUME NoNesting, IInv, ToSvc2
  PROVE  IInv'
<1>. DEFINE t == cpu.task
            words == stack[t][1]
            regs == stack[t][2]
<1>1. /\ cpu.loc = "svc2" /\ cpu.sp = 2 /\ cpu.irq /\ t \notin UserTasks
      /\ cpu.spsr = words.mode /\ FrameOK(t)
  BY DEF ToSvc2, IInv, CpuInv, OwnCode
<1>2. /\ UNCHANGED <<stack, save, next, made, nested>>
      /\ cpu' = [cpu EXCEPT !.loc = words.loc, !.mode = cpu.spsr, !.sp = 0,
                            !.gen = regs.gen, !.lr = regs.lr]
  BY <1>1 DEF ToSvc2, Here
<1>3. /\ cpu'.task = t /\ cpu'.loc = words.loc /\ cpu'.mode = Own(t) /\ cpu'.sp = 0
      /\ cpu'.gen = regs.gen /\ cpu'.irq
      /\ words.loc \in {"task", "built"} /\ (words.loc = "built" => t = Swapper)
      /\ words.loc = "task" => regs.gen = t
  BY <1>1, <1>2 DEF IInv, Shape, FrameOK
<1>4. Shape'
  BY <1>2, <1>3 DEF IInv, Shape, Locations
<1>5. CpuInv'
  BY <1>1, <1>3 DEF CpuInv, OwnCode
<1>6. OthersInv' /\ RingInv'
  BY <1>1, <1>2, <1>3, Kept DEF OwnCode
<1>7. MadeInv'
  <2>1. Linked' = Linked
    BY <1>2 DEF Linked
  <2>2. CASE t = Swapper
    <3>1. ~InMaking /\ InMaking' /\ cpu'.loc # "linking"
      BY <1>1, <1>3, <2>2 DEF InMaking, OwnCode
    <3>2. MakingLoc' = MakingLoc /\ NewTask' = NewTask
      BY <1>3, <2>2, <3>1 DEF MakingLoc, NewTask
    <3>. QED
      BY <1>2, <2>1, <3>2 DEF IInv, MadeInv
  <2>3. CASE t # Swapper
    <3>1. MakingLoc' = MakingLoc /\ NewTask' = NewTask
      BY <1>2, <1>3, <2>3 DEF MakingLoc, NewTask, InMaking
    <3>. QED
      BY <1>2, <2>1, <3>1 DEF IInv, MadeInv
  <2>. QED
    BY <2>2, <2>3
<1>. QED
  BY <1>4, <1>5, <1>6, <1>7 DEF IInv

-----------------------------------------------------------------------------
(* The switch. *)

LEMMA StoreInv ==
  ASSUME NoNesting, IInv, Store
  PROVE  IInv'
<1>. DEFINE t == cpu.task
<1>1. /\ cpu.loc = "store" /\ cpu.gen[1] = t /\ cpu.gen[2] = next[t] /\ next[t] # t
      /\ cpu.sp = 3 /\ cpu.irq /\ cpu.mode = "svc" /\ FrameOK(t) /\ CallOK(t) /\ t \in Tasks
  BY DEF Store, IInv, Shape, CpuInv, OwnCode
<1>2. /\ UNCHANGED <<stack, next, made, nested>>
      /\ save' = [save EXCEPT ![t] = [sp |-> 3, at |-> "return", irq |-> TRUE]]
      /\ cpu' = [cpu EXCEPT !.loc = "load"]
  BY <1>1 DEF Store, IInv, Shape
<1>3. Shape'
  BY <1>1, <1>2 DEF IInv, Shape, Locations
<1>4. /\ \A x \in Tasks : FrameOK(x)' = FrameOK(x) /\ CallOK(x)' = CallOK(x)
      /\ \A x \in Tasks \ {t} : Suspended(x)' = Suspended(x)
  BY <1>1, <1>2 DEF IInv, Shape, FrameOK, CallOK, Suspended
<1>5. Suspended(t)'
  BY <1>1, <1>2, <1>4 DEF IInv, Shape, Suspended
<1>6. CpuInv'
  BY <1>1, <1>2, <1>4, <1>5 DEF IInv, Shape, CpuInv, OwnCode
<1>7. OthersInv'
  BY <1>2, <1>4 DEF IInv, Shape, OthersInv
<1>8. Linked' = Linked
  BY <1>2 DEF Linked
<1>9. MadeInv' /\ RingInv'
  BY <1>1, <1>2, <1>8 DEF IInv, Shape, MadeInv, MakingLoc, NewTask, InMaking, RingInv, Ring,
     OneRing, OwnCode
<1>. QED
  BY <1>3, <1>6, <1>7, <1>9 DEF IInv

LEMMA LoadInv ==
  ASSUME NoNesting, IInv, Load
  PROVE  IInv'
<1>. DEFINE t == cpu.task
            n == next[t]
<1>1. /\ cpu.loc = "load" /\ cpu.gen[2] = n /\ n # t /\ cpu.mode = "svc" /\ Suspended(t)
      /\ t \in Tasks
  BY DEF Load, IInv, Shape, CpuInv, OwnCode
<1>2. n \in Linked /\ n \in made /\ n \in Tasks
  BY <1>1 DEF IInv, RingInv, Ring, OneRing, MadeInv, Linked
<1>3. Suspended(n)
  BY <1>1, <1>2 DEF IInv, OthersInv
<1>4. /\ UNCHANGED <<stack, save, next, made, nested>>
      /\ cpu' = [cpu EXCEPT !.task = n, !.sp = save[n].sp, !.loc = save[n].at,
                            !.irq = save[n].irq, !.spsr = "svc",
                            !.gen = IF save[n].at = "task" THEN n ELSE NULL]
  BY <1>1 DEF Load
<1>5. /\ cpu'.task = n /\ cpu'.sp = save[n].sp /\ cpu'.loc = save[n].at /\ cpu'.irq
      /\ cpu'.mode = "svc" /\ cpu'.spsr = "svc" /\ (save[n].at = "task" => cpu'.gen = n)
  BY <1>1, <1>3, <1>4 DEF IInv, Shape, Suspended
<1>6. Shape'
  BY <1>2, <1>3, <1>4, <1>5 DEF IInv, Shape, Locations, Suspended
<1>7. \A x \in Tasks : FrameOK(x)' = FrameOK(x) /\ CallOK(x)' = CallOK(x)
                       /\ Suspended(x)' = Suspended(x)
  BY <1>4 DEF FrameOK, CallOK, Suspended
<1>8. CpuInv'
  BY <1>2, <1>3, <1>5, <1>7, SchedAssumption DEF CpuInv, Suspended, OwnCode, Own
<1>9. OthersInv'
  BY <1>1, <1>2, <1>4, <1>5, <1>7 DEF IInv, Shape, OthersInv
<1>10. Linked' = Linked /\ cpu'.loc # "linking"
  BY <1>3, <1>4, <1>5 DEF Linked, Suspended
<1>11. RingInv'
  BY <1>1, <1>2, <1>4, <1>5, <1>10 DEF IInv, RingInv, Ring, OneRing
<1>12. ~InMaking /\ ~InMaking'
  BY <1>1, <1>3, <1>5, SchedAssumption DEF InMaking, OwnCode, Suspended
<1>13. MadeInv'
  BY <1>4, <1>10, <1>12 DEF IInv, MadeInv, MakingLoc, NewTask
<1>. QED
  BY <1>6, <1>8, <1>9, <1>11, <1>13 DEF IInv

-----------------------------------------------------------------------------
(* The interrupt. *)

LEMMA TickInv ==
  ASSUME NoNesting, IInv, Tick
  PROVE  IInv'
<1>. DEFINE t == cpu.task
            regs == IF cpu.mode = "usr" THEN UserFrame ELSE SvcFrame
<1>1. cpu.loc \in {"task", "built"} /\ cpu.sp = 0 /\ nested' = 0
  BY TickInOwnCode
<1>2. /\ t \in Tasks /\ cpu.mode = Own(t) /\ (cpu.loc = "built" => t = Swapper)
      /\ cpu.loc = "task" => cpu.gen = t /\ (t \in UserTasks => cpu.usp = t)
  BY <1>1 DEF IInv, Shape, CpuInv, OwnCode
<1>3. /\ stack' = [stack EXCEPT ![t][1] = InterruptWords, ![t][2] = regs,
                                ![t][3] = CallCell(cpu.mode)]
      /\ cpu' = [cpu EXCEPT !.loc = "schedule", !.sp = 3, !.mode = "svc", !.gen = NULL]
      /\ UNCHANGED <<save, next, made>>
  BY <1>1 DEF Tick
<1>. HIDE DEF regs
<1>4. /\ stack'[t][1] = InterruptWords /\ stack'[t][2] = regs
      /\ stack'[t][3] = CallCell(cpu.mode)
      /\ DOMAIN stack' = Tasks /\ \A x \in Tasks : DOMAIN stack'[x] = 1..3
      /\ \A x \in Tasks \ {t} : stack'[x] = stack[x]
  BY <1>2, <1>3 DEF IInv, Shape
<1>5. Shape'
  BY <1>1, <1>3, <1>4 DEF IInv, Shape, Locations
<1>6. FrameOK(t)'
  <2>1. /\ regs.kind = "regs" /\ regs.gen = cpu.gen
        /\ cpu.mode = "usr" => regs.usp = cpu.usp
    BY DEF regs, UserFrame, SvcFrame, RegsCell
  <2>2. t \in UserTasks => cpu.mode = "usr" /\ cpu.loc = "task"
    BY <1>1, <1>2, SchedAssumption DEF Own
  <2>3. cpu'.task = t
    BY <1>3 DEF IInv, Shape
  <2>. QED
    BY <1>1, <1>2, <1>4, <2>1, <2>2, <2>3 DEF FrameOK, InterruptWords, RetCell
<1>7. CallOK(t)'
  BY <1>2, <1>3, <1>4 DEF IInv, Shape, CallOK, CallCell
<1>8. CpuInv'
  BY <1>1, <1>3, <1>6, <1>7 DEF IInv, Shape, CpuInv, OwnCode
<1>9. OthersInv'
  <2>1. cpu'.task = t /\ made' = made /\ save' = save
    BY <1>3 DEF IInv, Shape
  <2>2. ASSUME NEW x \in made \ {t}
        PROVE  Suspended(x)'
    <3>1. stack'[x] = stack[x] /\ save'[x] = save[x]
      BY <1>3, <1>4 DEF IInv, Shape
    <3>2. Suspended(x)
      BY DEF IInv, OthersInv
    <3>. QED
      BY <3>1, <3>2 DEF Suspended, FrameOK, CallOK
  <2>. QED
    BY <2>1, <2>2 DEF OthersInv
<1>10. Linked' = Linked
  BY <1>3 DEF Linked
<1>11. RingInv'
  BY <1>1, <1>3, <1>10 DEF IInv, Shape, RingInv, Ring, OneRing
<1>12. MadeInv'
  <2>1. ~InMaking'
    BY <1>3 DEF IInv, Shape, InMaking, OwnCode
  <2>2. CASE t = Swapper
    <3>1. InMaking /\ cpu.loc # "linking"
      BY <1>1, <2>2 DEF InMaking, OwnCode
    <3>2. MakingLoc' = cpu.loc /\ NewTask' = cpu.gen
      BY <1>4, <2>1, <2>2
         DEF MakingLoc, NewTask, InterruptWords, RetCell, regs, UserFrame, SvcFrame, RegsCell
    <3>. QED
      BY <1>3, <1>10, <3>1, <3>2 DEF IInv, MadeInv, MakingLoc, NewTask
  <2>3. CASE t # Swapper
    <3>1. MakingLoc' = MakingLoc /\ NewTask' = NewTask
      BY <1>4, <2>1, <2>3 DEF MakingLoc, NewTask, InMaking, Tasks
    <3>. QED
      BY <1>3, <1>10, <3>1 DEF IInv, MadeInv
  <2>. QED
    BY <2>2, <2>3
<1>. QED
  BY <1>5, <1>8, <1>9, <1>11, <1>12 DEF IInv

-----------------------------------------------------------------------------
(* A new task. *)

LEMMA MakingShape ==
  ASSUME IInv, NEW t \in Tasks, Making(t),
         save' \in [Tasks -> [sp : 0..3, at : {"return", "fork1", "task", NULL}, irq : BOOLEAN]],
         DOMAIN stack' = Tasks, \A x \in Tasks : DOMAIN stack'[x] = 1..3
  PROVE  Shape'
BY DEF Making, IInv, Shape, Locations

LEMMA MakingInv ==
  ASSUME NoNesting, IInv, NEW t \in Tasks, Making(t), Shape', Suspended(t)',
         \A x \in Tasks \ {t} : stack'[x] = stack[x] /\ save'[x] = save[x]
  PROVE  IInv'
<1>1. /\ cpu.loc = "task" /\ cpu.task = Swapper /\ t \notin made /\ made' = made \cup {t}
      /\ cpu' = [cpu EXCEPT !.loc = "built", !.gen = t] /\ UNCHANGED <<next, nested>>
  BY DEF Making
<1>2. made = Linked /\ Swapper \in made
  BY <1>1 DEF IInv, MadeInv, MakingLoc, InMaking, OwnCode, RingInv
<1>3. Linked' = Linked
  BY <1>1 DEF Linked
<1>4. \A x \in made : x # t /\ x \in Tasks
  BY <1>1 DEF IInv, Shape
<1>5. CpuInv'
  BY <1>1 DEF IInv, Shape, CpuInv, OwnCode
<1>6. OthersInv'
  BY <1>1, <1>4 DEF IInv, Shape, OthersInv, Suspended, FrameOK, CallOK
<1>7. MadeInv'
  <2>1. InMaking' /\ MakingLoc' = "built" /\ NewTask' = t
    BY <1>1 DEF IInv, Shape, InMaking, MakingLoc, NewTask, OwnCode
  <2>. QED
    BY <1>1, <1>2, <1>3, <2>1 DEF MadeInv
<1>8. RingInv'
  BY <1>1, <1>3 DEF IInv, Shape, RingInv, Ring, OneRing
<1>. QED
  BY <1>5, <1>6, <1>7, <1>8 DEF IInv

LEMMA ForkInv ==
  ASSUME NoNesting, IInv, NEW t \in Tasks, Fork(t)
  PROVE  IInv'
<1>1. /\ t \in UserTasks /\ Making(t)
      /\ stack' = [stack EXCEPT ![t][1] = RetCell("task", "usr"), ![t][2] = RegsCell(t, NULL, t)]
      /\ save' = [save EXCEPT ![t] = [sp |-> 2, at |-> "fork1", irq |-> TRUE]]
  BY DEF Fork
<1>2. /\ stack'[t][1] = RetCell("task", "usr") /\ stack'[t][2] = RegsCell(t, NULL, t)
      /\ DOMAIN stack' = Tasks /\ \A x \in Tasks : DOMAIN stack'[x] = 1..3
      /\ \A x \in Tasks \ {t} : stack'[x] = stack[x] /\ save'[x] = save[x]
  BY <1>1 DEF IInv, Shape
<1>3. Shape'
  <2>1. save' \in [Tasks -> [sp : 0..3, at : {"return", "fork1", "task", NULL}, irq : BOOLEAN]]
    BY <1>1 DEF IInv, Shape
  <2>. QED
    BY <1>2, <2>1, MakingShape DEF Fork
<1>4. Suspended(t)'
  BY <1>1, <1>2 DEF IInv, Shape, Suspended, FrameOK, RetCell, RegsCell, Own
<1>. QED
  BY <1>1, <1>2, <1>3, <1>4, MakingInv

LEMMA KthreadCreateInv ==
  ASSUME NoNesting, IInv, NEW t \in Tasks, KthreadCreate(t)
  PROVE  IInv'
<1>1. /\ t \in KernelTasks /\ Making(t) /\ UNCHANGED stack
      /\ save' = [save EXCEPT ![t] = [sp |-> 0, at |-> "task", irq |-> TRUE]]
  BY DEF KthreadCreate
<1>2. Shape'
  <2>1. save' \in [Tasks -> [sp : 0..3, at : {"return", "fork1", "task", NULL}, irq : BOOLEAN]]
    BY <1>1 DEF IInv, Shape
  <2>2. DOMAIN stack' = Tasks /\ \A x \in Tasks : DOMAIN stack'[x] = 1..3
    BY <1>1 DEF IInv, Shape
  <2>. QED
    BY <1>1, <2>1, <2>2, MakingShape
<1>3. Suspended(t)'
  BY <1>1 DEF IInv, Shape, Suspended
<1>4. \A x \in Tasks \ {t} : stack'[x] = stack[x] /\ save'[x] = save[x]
  BY <1>1 DEF IInv, Shape
<1>. QED
  BY <1>1, <1>2, <1>3, <1>4, MakingInv

LEMMA Link1Inv ==
  ASSUME NoNesting, IInv, Link1
  PROVE  IInv'
<1>. DEFINE g == cpu.gen
<1>1. /\ cpu.loc = "built" /\ cpu.task = Swapper /\ g \in Tasks \ Linked
      /\ made = Linked \cup {g} /\ Swapper \in Linked /\ g # NULL
  BY SchedAssumption
     DEF Link1, IInv, CpuInv, MadeInv, MakingLoc, NewTask, InMaking, OwnCode, RingInv
<1>2. /\ cpu' = [cpu EXCEPT !.loc = "linking", !.irq = FALSE, !.gen = <<g, next[Swapper]>>]
      /\ next' = [next EXCEPT ![Swapper] = g]
      /\ UNCHANGED <<stack, save, made, nested>>
  BY <1>1 DEF Link1
<1>3. /\ cpu'.task = Swapper /\ cpu'.loc = "linking" /\ cpu'.irq = FALSE
      /\ cpu'.gen[1] = g /\ cpu'.gen[2] = next[Swapper]
      /\ cpu'.sp = cpu.sp /\ cpu'.mode = cpu.mode
  BY <1>1, <1>2 DEF IInv, Shape
<1>4. Shape'
  BY <1>1, <1>2 DEF IInv, Shape, Locations
<1>5. CpuInv'
  BY <1>1, <1>3 DEF IInv, CpuInv, OwnCode
<1>6. OthersInv'
  BY <1>1, <1>2, <1>3 DEF IInv, OthersInv, Suspended, FrameOK, CallOK
<1>7. Linked' = Linked
  BY <1>1, <1>2 DEF IInv, Shape, Linked
<1>8. MadeInv'
  <2>1. InMaking' /\ MakingLoc' = "linking" /\ NewTask' = g
    BY <1>3 DEF InMaking, MakingLoc, NewTask, OwnCode
  <2>. QED
    BY <1>1, <1>2, <1>7, <2>1 DEF MadeInv
<1>9. Ring' = Ring
  BY <1>1, <1>2, <1>3 DEF IInv, Shape, Ring, Tasks
<1>10. RingInv'
  BY <1>1, <1>2, <1>3, <1>7, <1>9 DEF IInv, Shape, RingInv, OneRing
<1>. QED
  BY <1>4, <1>5, <1>6, <1>8, <1>10 DEF IInv

\* A new member behind s keeps a ring a ring.
LEMMA RingGrows ==
  ASSUME NEW f, NEW T, OneRing(f, T), NEW s \in T, NEW g, g \notin T, NEW h,
         h[g] = f[s], h[s] = g, \A t \in T \ {s} : h[t] = f[t]
  PROVE  OneRing(h, T \cup {g})
<1>1. \A t \in T \cup {g} : h[t] \in T \cup {g}
  BY DEF OneRing
<1>2. ASSUME NEW S \in SUBSET (T \cup {g}), S # {}, \A t \in S : h[t] \in S
      PROVE  S = T \cup {g}
  <2>. DEFINE R == S \ {g}
  <2>1. R \in SUBSET T /\ R # {}
    BY <1>2 DEF OneRing
  <2>2. \A t \in R : f[t] \in R
    <3>. TAKE t \in R
    <3>1. CASE t = s
      BY <1>2, <3>1 DEF OneRing
    <3>2. CASE t # s
      BY <1>2, <3>2 DEF OneRing
    <3>. QED
      BY <3>1, <3>2
  <2>3. R = T
    BY <2>1, <2>2, Zenon DEF OneRing
  <2>4. g \in S
    BY <1>2, <2>3
  <2>. QED
    BY <2>3, <2>4
<1>. QED
  BY <1>1, <1>2 DEF OneRing

LEMMA Link2Inv ==
  ASSUME NoNesting, IInv, Link2
  PROVE  IInv'
<1>. DEFINE g == cpu.gen[1]
            n == cpu.gen[2]
<1>1. /\ cpu.loc = "linking" /\ cpu.task = Swapper /\ g \in Tasks \ Linked
      /\ made = Linked \cup {g} /\ Swapper \in Linked /\ next[Swapper] = g
      /\ cpu.sp = 0 /\ cpu.mode = Own(Swapper) /\ Swapper \notin UserTasks
  BY SchedAssumption
     DEF Link2, IInv, CpuInv, MadeInv, MakingLoc, NewTask, InMaking, OwnCode, RingInv
<1>2. /\ next' = [next EXCEPT ![g] = n]
      /\ cpu' = [cpu EXCEPT !.loc = "task", !.irq = TRUE, !.gen = Swapper]
      /\ UNCHANGED <<stack, save, made, nested>>
  BY <1>1 DEF Link2
<1>3. /\ cpu'.task = Swapper /\ cpu'.loc = "task" /\ cpu'.irq /\ cpu'.gen = Swapper
      /\ cpu'.sp = cpu.sp /\ cpu'.mode = cpu.mode
  BY <1>1, <1>2 DEF IInv, Shape
<1>4. /\ Ring[Swapper] = n /\ \A t \in Linked \ {Swapper} : Ring[t] = next[t]
      /\ OneRing(Ring, Linked)
  BY <1>1 DEF IInv, Shape, RingInv, Ring, Linked
<1>5. n \in Linked /\ n \in Tasks /\ n # NULL
  BY <1>1, <1>4, SchedAssumption DEF OneRing, Linked
<1>6. Shape'
  BY <1>1, <1>2, <1>5 DEF IInv, Shape, Locations
<1>7. CpuInv'
  BY <1>1, <1>3 DEF CpuInv, OwnCode
<1>8. OthersInv'
  BY <1>1, <1>2, <1>3 DEF IInv, OthersInv, Suspended, FrameOK, CallOK
<1>9. Linked' = Linked \cup {g}
  BY <1>1, <1>2, <1>5 DEF IInv, Shape, Linked
<1>10. MadeInv'
  <2>1. InMaking' /\ MakingLoc' = "task"
    BY <1>3 DEF InMaking, MakingLoc, OwnCode
  <2>. QED
    BY <1>1, <1>2, <1>9, <2>1 DEF MadeInv
<1>11. Ring' = next'
  BY <1>3 DEF Ring
<1>12. /\ next'[g] = n /\ next'[Swapper] = g
       /\ \A t \in Linked \ {Swapper} : next'[t] = Ring[t]
  BY <1>1, <1>2, <1>4 DEF IInv, Shape, Linked
<1>13. OneRing(next', Linked \cup {g})
  BY <1>1, <1>4, <1>12, RingGrows
<1>14. RingInv'
  BY <1>1, <1>3, <1>9, <1>11, <1>13 DEF RingInv, OneRing
<1>. QED
  BY <1>6, <1>7, <1>8, <1>10, <1>14 DEF IInv

-----------------------------------------------------------------------------
(* The theorems. *)

LEMMA InitInv ==
  ASSUME NoNesting, Init
  PROVE  IInv
<1>1. StackTop = 3
  BY DEF NoNesting, StackTop
<1>2. Shape
  BY <1>1 DEF Init, Shape, Tasks, Locations
<1>3. CpuInv
  BY SchedAssumption DEF Init, CpuInv, Own, OwnCode
<1>4. Linked = {Swapper} /\ next[Swapper] = Swapper
  BY SchedAssumption DEF Init, Linked, Tasks
<1>5. OthersInv /\ MadeInv
  BY <1>4 DEF Init, OthersInv, MadeInv, MakingLoc, InMaking, OwnCode
<1>6. RingInv
  <2>1. cpu.task = Swapper /\ cpu.loc = "task" /\ Ring = next
    BY DEF Init, Ring
  <2>2. \A S \in SUBSET {Swapper} : S # {} => S = {Swapper}
    OBVIOUS
  <2>. QED
    BY <1>4, <2>1, <2>2 DEF RingInv, OneRing
<1>. QED
  BY <1>2, <1>3, <1>5, <1>6 DEF IInv

LEMMA NextInv ==
  ASSUME NoNesting, IInv, [Next]_vars
  PROVE  IInv'
<1>1. CASE UNCHANGED vars
  <2>1. Shape'
    BY <1>1 DEF IInv, Shape, vars
  <2>2. CpuInv' /\ OthersInv'
    BY <1>1 DEF IInv, CpuInv, OthersInv, FrameOK, CallOK, Suspended, vars
  <2>3. Linked' = Linked /\ Ring' = Ring /\ MakingLoc' = MakingLoc /\ NewTask' = NewTask
    BY <1>1 DEF Linked, Ring, MakingLoc, NewTask, InMaking, vars
  <2>4. MadeInv' /\ RingInv'
    BY <1>1, <2>3 DEF IInv, MadeInv, RingInv, OneRing, vars
  <2>. QED
    BY <2>1, <2>2, <2>4 DEF IInv
<1>. QED
  BY <1>1, TickInv, ForkInv, KthreadCreateInv, Link1Inv, Link2Inv, ScheduleInv, StoreInv,
     LoadInv, ReturnInv, ToUser1Inv, ToUser2Inv, ToUser3Inv, ToUser4Inv, ToSvc1Inv, ToSvc2Inv,
     FromFork1Inv, FromFork2Inv, FromFork3Inv
     DEF Next, Kernel

\* The inductive invariant holds in every reachable state.
THEOREM Contexts ==
  ASSUME NoNesting
  PROVE  Spec => []IInv
<1>1. Init => IInv
  BY InitInv
<1>2. IInv /\ [Next]_vars => IInv'
  BY NextInv
<1>. QED
  BY <1>1, <1>2, PTL DEF Spec

\* Values stay in their sets: no way back takes a word of the stack for another.
THEOREM Types ==
  ASSUME NoNesting
  PROVE  Spec => []TypeOK
<1>1. IInv => TypeOK
  <2>. SUFFICES ASSUME IInv
                PROVE  TypeOK
    OBVIOUS
  <2>1. StackTop = 3 /\ MaxNested = 0
    BY DEF NoNesting, StackTop
  <2>2. cpu.sp \in 0..3 /\ cpu.mode \in {"usr", "svc"} /\ cpu.irq \in BOOLEAN
    BY DEF IInv, Shape, CpuInv, Locations, OwnCode, Own
  <2>. QED
    BY <2>1, <2>2 DEF IInv, Shape, TypeOK
<1>. QED
  BY <1>1, Contexts, PTL

\* Whatever tasks there are and whenever the timer fires, a task's own code always
\* finds its own registers, mode and stack pointers.
THEOREM ContextsIntact ==
  ASSUME NoNesting
  PROVE  Spec => []ContextIntact
<1>1. IInv => ContextIntact
  BY SchedAssumption DEF IInv, CpuInv, ContextIntact, OwnCode, Own
<1>. QED
  BY <1>1, Contexts, PTL

\* The tasks always form one ring, but for the moment in which one is being linked.
THEOREM RingWhole ==
  ASSUME NoNesting
  PROVE  Spec => []RingIntact
<1>1. IInv => RingIntact
  BY DEF IInv, RingInv, Ring, OneRing, RingIntact
<1>. QED
  BY <1>1, Contexts, PTL

\* Every switch goes to the next task of the ring, which is completely linked.
THEOREM SwitchesInRing ==
  ASSUME NoNesting
  PROVE  Spec => SwitchFollowsRing
<1>1. IInv /\ [Next]_vars =>
        [cpu'.task # cpu.task => cpu'.task = next[cpu.task] /\ next[cpu'.task] # NULL]_vars
  <2>. SUFFICES ASSUME IInv, Next, cpu'.task # cpu.task
                PROVE  cpu'.task = next[cpu.task] /\ next[cpu'.task] # NULL
    OBVIOUS
  <2>1. Load
    BY DEF Next, Kernel, Tick, Fork, KthreadCreate, Making, Link1, Link2, Schedule, Store,
           Return, ToUser1, ToUser2, ToUser3, ToUser4, ToSvc1, ToSvc2, FromFork1, FromFork2,
           FromFork3, IInv, Shape
  <2>2. cpu'.task = cpu.gen[2] /\ cpu.gen[2] = next[cpu.task] /\ cpu.loc # "linking"
    BY <2>1 DEF Load, IInv, Shape, CpuInv
  <2>3. next[cpu.task] \in Linked
    BY <2>2 DEF IInv, RingInv, Ring, OneRing
  <2>. QED
    BY <2>2, <2>3 DEF Linked
<1>. QED
  BY <1>1, Contexts, PTL DEF Spec, SwitchFollowsRing
=============================================================================
