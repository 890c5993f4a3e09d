------------------------------ MODULE Startup ------------------------------
(***************************************************************************)
(* From reset to the prompt: the boot loader copies itself and the kernel  *)
(* out of the flash (boot/head.S, boot/init.c), the kernel sets up its     *)
(* stacks, its page table, interrupts, drivers and allocators              *)
(* (init/init.S, start_kernel), prints its messages and echoes.            *)
(*                                                                         *)
(* Addresses are counted in MB, as sections of the page table are.  The    *)
(* copying is shown on small images (LoaderLen, KernelLen bytes); the      *)
(* memory before it, the page table and what the C compiler puts into .bss *)
(* hold junk until they are written.  What an interrupt does to the tasks  *)
(* is the subject of Sched; here it is what it needs to be answered.       *)
(***************************************************************************)
EXTENDS Console, Nand, Heap

CONSTANTS
  LoaderLen, KernelLen,  \* bytes of the images
  KernelFlash,           \* where the flash has the kernel
  LoaderBase             \* where the loader copies itself; the kernel goes to 0

ASSUME StartupAssumption ==
  /\ {LoaderLen, KernelLen, KernelFlash, LoaderBase} \subseteq Nat
  /\ KernelFlash >= LoaderLen
  /\ KernelFlash + KernelLen <= Capacity
  /\ KernelLen <= LoaderBase
  /\ \A k \in 0..(KernelLen - 1) : k \in Memory
  /\ \A k \in 0..(LoaderLen - 1) : LoaderBase + k \in Memory
  /\ "timer4_irq_handler" \notin {Junk, None}

VARIABLES
  at,      \* the next step
  sys,     \* what the steps have set up
  heap,    \* blocks: the free blocks per order; caches: of kmalloc's, how many there are
  pend,    \* SRCPND
  masked   \* INTMSK

sysVars == <<at, sys, heap, pend, masked>>
vars == <<consoleVars, nandVars, sysVars>>

\* mem_layout.h.
PlatMemStart == 768      \* 0x30000000
PlatMemSize == 64
KernelImgMaxSize == 2
SvcStack == PlatMemStart + PlatMemSize
IrqStack == SvcStack - 1
SysStack == IrqStack - 4

\* Mutant: the 10M of the comment.
PageTable10M == 10
PageTableSize == 8

PageTableBase == SysStack - 1 - PageTableSize
RamDiskStart == PageTableBase - 2
HeapStart == PlatMemStart + KernelImgMaxSize
HeapEnd == RamDiskStart

\* Where the kernel finds the registers.
Uart == 1280             \* 0x50000000
IntCtl == 1184           \* 0x4A000000
TimerRegs == 1296        \* 0x51000000

\* ramdisk_storage_device.
RamDiskDevice == [start_pos |-> 816, storage_size |-> 2]   \* 0x33000000

\* The interrupt sources; only the timer is ever started.
Timer4 == 14
Uart0Source == 28
Sources == {Timer4, Uart0Source}

\* Mutant: the loader's copy goes where the kernel goes.
LoaderAtZero == 0

\* The second argument of relocate_img_to_dram.
LoaderDst == LoaderBase

\* init_sys_mmu: the vectors, the memory, the registers.  An entry that is not
\* written is junk.
\* Mutant: a MB less of memory is mapped.
MapsShort == {[va |-> 0, pa |-> PlatMemStart, n |-> 1],
              [va |-> PlatMemStart, pa |-> PlatMemStart, n |-> PlatMemSize - 1],
              [va |-> 1152, pa |-> 1152, n |-> 384]}
Maps == {[va |-> 0, pa |-> PlatMemStart, n |-> 1],
         [va |-> PlatMemStart, pa |-> PlatMemStart, n |-> PlatMemSize],
         [va |-> 1152, pa |-> 1152, n |-> 384]}

Unmapped == -1
Translate(addr) ==
  LET hit == {m \in sys.maps : addr \in m.va..(m.va + m.n - 1)}
  IN  IF hit = {} THEN Unmapped ELSE LET m == CHOOSE m \in hit : TRUE IN m.pa + addr - m.va

\* The variables of the kernel in .bss.
BssOf(x) == [handler |-> [s \in Sources |-> x], storage |-> x, fs_type |-> x]

\* Mutant: the timer is started before its handler is registered.
OrderTimer == <<"uart0_init", "disable_irq", "init_sys_mmu", "start_mmu", "timer_init",
                "irq_init", "driver_init", "romfs_init", "init_page_map", "kmalloc_init",
                "talk">>

\* start_kernel.
Order == <<"uart0_init", "disable_irq", "init_sys_mmu", "start_mmu", "irq_init",
           "timer_init", "driver_init", "romfs_init", "init_page_map", "kmalloc_init",
           "talk">>

After(step) == Order[(CHOOSE i \in DOMAIN Order : Order[i] = step) + 1]

Init ==
  /\ ConsoleInit /\ NandInit
  /\ at = "reset"
  /\ sys = [hdivn |-> FALSE, async |-> FALSE, sdram |-> FALSE, stacks |-> FALSE,
            ring |-> Junk, bss |-> BssOf(Junk), maps |-> {}, mmu |-> FALSE,
            irqOn |-> FALSE, timer |-> FALSE, device |-> None]
  /\ heap = [blocks |-> [o \in Orders |-> 0], caches |-> 0]
  /\ pend = {}
  /\ masked = Sources

-----------------------------------------------------------------------------
(* head.S. *)

\* disable_watch_dog, clock_init, memsetup, then relocate_img_to_dram.
Reset ==
  /\ at = "reset"
  /\ at' = "on_sdram"
  /\ sys' = [sys EXCEPT !.hdivn = TRUE, !.async = TRUE, !.sdram = TRUE]
  /\ NandRead(0, LoaderDst, LoaderLen)
  /\ UNCHANGED <<heap, pend, masked, consoleVars>>

\* The loader goes on in its copy: copy_kernel_from_nand.
OnSdram ==
  /\ at = "on_sdram" /\ rd.at = "none"
  /\ at' = "vector_reset"
  /\ NandRead(KernelFlash, 0, KernelLen)
  /\ UNCHANGED <<sys, heap, pend, masked, consoleVars>>

(* init.S: the stack of every mode, the bss, task_init. *)
VectorReset ==
  /\ at = "vector_reset" /\ rd.at = "none"
  /\ at' = "clear_bss"
  /\ sys' = [sys EXCEPT !.stacks = TRUE]
  /\ UNCHANGED <<heap, pend, masked, consoleVars, nandVars>>

ClearBss ==
  /\ at = "clear_bss"
  /\ at' = "task_init"
  /\ sys' = [sys EXCEPT !.bss = BssOf(None)]
  /\ UNCHANGED <<heap, pend, masked, consoleVars, nandVars>>

TaskInit ==
  /\ at = "task_init"
  /\ at' = Order[1]
  /\ sys' = [sys EXCEPT !.ring = Swapper]
  /\ UNCHANGED <<heap, pend, masked, consoleVars, nandVars>>

-----------------------------------------------------------------------------
(* start_kernel. *)

\* A step of start_kernel that sets sys to s; it runs on mapped memory.
Does(step, s) ==
  /\ at = step
  /\ at' = After(step)
  /\ sys' = s
  /\ UNCHANGED <<pend, consoleVars, nandVars>>

Uart0Init == Does("uart0_init", sys) /\ UNCHANGED <<heap, masked>>
DisableIrq == Does("disable_irq", [sys EXCEPT !.irqOn = FALSE]) /\ UNCHANGED <<heap, masked>>
InitSysMmu == Does("init_sys_mmu", [sys EXCEPT !.maps = Maps]) /\ UNCHANGED <<heap, masked>>

\* The control register becomes 1: the MMU is on, and everything else off.
StartMmu == Does("start_mmu", [sys EXCEPT !.mmu = TRUE, !.async = FALSE]) /\ UNCHANGED <<heap, masked>>

\* register_irq refuses a source that has a handler.
IrqInit ==
  /\ Does("irq_init", IF sys.bss.handler[Timer4] = None
                      THEN [sys EXCEPT !.bss.handler[Timer4] = "timer4_irq_handler"]
                      ELSE sys)
  /\ UNCHANGED <<heap, masked>>

TimerInit ==
  /\ Does("timer_init", [sys EXCEPT !.timer = TRUE, !.irqOn = TRUE])
  /\ masked' = masked \ {Timer4}
  /\ UNCHANGED heap

\* register_storage_device and register_file_system refuse a slot that is taken.
DriverInit ==
  /\ Does("driver_init", IF sys.bss.storage = None
                         THEN [sys EXCEPT !.bss.storage = RamDiskDevice] ELSE sys)
  /\ UNCHANGED <<heap, masked>>

RomfsInit ==
  /\ Does("romfs_init",
          LET s == IF sys.bss.fs_type = None THEN [sys EXCEPT !.bss.fs_type = "romfs"] ELSE sys
          IN  [s EXCEPT !.device = sys.bss.storage])
  /\ UNCHANGED <<heap, masked>>

InitPageMap ==
  /\ Does("init_page_map", sys)
  /\ heap' = [heap EXCEPT !.blocks = InitialBlocks(HeapEnd - HeapStart)]
  /\ UNCHANGED masked

\* A turn of kmalloc_init's loop; the first failure ends it, and start_kernel does not
\* look at what it returns.
MoreCaches == heap.caches < KmallocCacheSize /\ CanCreate(heap.blocks, heap.caches + 1)

CreateCache ==
  /\ at = "kmalloc_init" /\ MoreCaches
  /\ heap' = [caches |-> heap.caches + 1,
              blocks |-> GetPages(heap.blocks, SlabOrder(heap.caches + 1))]
  /\ UNCHANGED <<at, sys, pend, masked, consoleVars, nandVars>>

KmallocInit ==
  /\ ~MoreCaches
  /\ Does("kmalloc_init", sys)
  /\ UNCHANGED <<heap, masked>>

\* The messages of start_kernel, the prompt, and the loop.
TalkStep ==
  /\ at = "talk"
  /\ at' = "run"
  /\ Talk
  /\ UNCHANGED <<sys, heap, pend, masked, nandVars>>

KernelNext ==
  \/ Uart0Init \/ DisableIrq \/ InitSysMmu \/ StartMmu \/ IrqInit \/ TimerInit
  \/ DriverInit \/ RomfsInit \/ InitPageMap \/ CreateCache \/ KmallocInit
  \/ TalkStep

-----------------------------------------------------------------------------
(* Interrupts. *)

\* Bound: no ticks once the console runs, where they would change nothing.
Tick ==
  /\ sys.timer /\ at # "run" /\ Timer4 \notin pend
  /\ pend' = pend \cup {Timer4}
  /\ UNCHANGED <<at, sys, heap, masked, consoleVars, nandVars>>

\* common_irq_handler clears what it has found pending: with |= it writes back the
\* bits of all sources.  The handler and schedule() change nothing here.
TakeIrq ==
  /\ sys.irqOn /\ pend \ masked # {}
  /\ pend' = {}
  /\ UNCHANGED <<at, sys, heap, masked, consoleVars, nandVars>>

Boot == Reset \/ OnSdram \/ VectorReset \/ ClearBss \/ TaskInit \/ KernelNext

Next ==
  \/ Boot \/ Tick \/ TakeIrq
  \/ NandNext /\ UNCHANGED <<sysVars, consoleVars>>
  \/ ConsoleNext /\ UNCHANGED <<sysVars, nandVars>>

\* The chip gets ready, the UART sends, and the timer lets every task run.
Spec ==
  /\ Init /\ [][Next]_vars
  /\ WF_vars(Boot) /\ WF_vars(NandNext /\ UNCHANGED <<sysVars, consoleVars>>)
  /\ WF_vars((Printk \/ Getc) /\ UNCHANGED <<sysVars, nandVars>>)
  /\ WF_vars(Transmit /\ UNCHANGED <<sysVars, nandVars>>)
  /\ \A t \in Tasks : WF_vars(Putc(t) /\ UNCHANGED <<sysVars, nandVars>>)

-----------------------------------------------------------------------------
(* Properties. *)

TypeOK ==
  /\ ConsoleTypeOK
  /\ rd.at \in {"none", "command", "ready", "data"} /\ rd.i \in 0..rd.len
  /\ Len(chip.cycles) \in {0, 5}
  /\ at \in {"reset", "on_sdram", "vector_reset", "clear_bss", "task_init", "run"}
            \cup {Order[i] : i \in DOMAIN Order}
  /\ pend \subseteq Sources /\ masked \subseteq Sources

\* Code that runs from the memory is whole there: the loader's copy of itself while
\* it copies the kernel (which goes to a place of its own), the kernel from then on.
ImagesWhole ==
  /\ at = "vector_reset" =>
       \A k \in 0..(LoaderLen - 1) : dram[LoaderDst + k] = k
  /\ at \notin {"reset", "on_sdram", "vector_reset"} =>
       \A k \in 0..(KernelLen - 1) : dram[k] = KernelFlash + k

\* Sections the kernel touches in the step it is at: its image, its stack and the
\* UART always, and the interrupt controller and the IRQ stack once interrupts are on.
Touched ==
  {PlatMemStart, PlatMemStart + KernelImgMaxSize - 1, SvcStack - 1, Uart}
    \cup (IF at = "timer_init" THEN {TimerRegs, IntCtl} ELSE {})
    \cup (IF at \in {"init_page_map", "kmalloc_init"} THEN HeapStart..(HeapEnd - 1) ELSE {})
    \cup (IF at \in {"talk", "run"} THEN HeapStart..(HeapEnd - 1) \cup {RamDiskStart, RamDiskStart + 1}
          ELSE {})
    \cup (IF sys.irqOn THEN {IrqStack - 1, IntCtl} ELSE {})

\* With the MMU on, everything the kernel touches is mapped, and to itself: the code
\* uses the addresses it had before, and no entry of the table was left to chance.
AllMapped == sys.mmu => \A s \in Touched : Translate(s) = s

\* When an interrupt can be taken, what it needs is there: the vectors (at address 0,
\* where the loader's image was), the stack of its mode, a handler for its source and
\* the ring of tasks that schedule() follows.
InterruptSafe ==
  sys.irqOn /\ pend \ masked # {} =>
    /\ sys.mmu /\ Translate(0) = PlatMemStart
    /\ sys.stacks
    /\ \A s \in pend \ masked : sys.bss.handler[s] \notin {Junk, None}
    /\ sys.ring = Swapper

\* The romfs that start_kernel leaves behind has the RAM disk for its device, and the
\* disk lies where the memory map leaves room for it.
DiskThere ==
  at \in {"talk", "run"} =>
    /\ sys.bss.fs_type = "romfs"
    /\ sys.device = RamDiskDevice
    /\ sys.device.start_pos >= HeapEnd
    /\ sys.device.start_pos + sys.device.storage_size <= PageTableBase

\* The heap is large enough for kmalloc_init, whose failure nobody would notice: there
\* is a cache for every size kmalloc takes, none leaves more than a tenth of its slabs
\* over (KMEM_CACHE_SAVE_RATE), no page is lost, and a block of the largest order is
\* still to be had.
CachesReady ==
  at = "talk" =>
    /\ heap.caches = KmallocCacheSize
    /\ \A i \in 1..KmallocCacheSize :
         LET slab == PageSize * 2^SlabOrder(i)
             size == i * KmallocBias
         IN  size <= slab /\ 10 * (slab % size) <= slab
    /\ PagesIn(heap.blocks) + SlabPages(KmallocCacheSize) = PageNum(HeapEnd - HeapStart)
    /\ heap.blocks[BuddyMaxOrder] > 0

\* From reset on, and after all that is typed, the system comes to the point where it
\* waits for input, with all it had to print on the line: neither the copying nor
\* vsnprintf nor putc hangs.
ComesToPrompt == pc[Swapper] # "getc" ~> pc[Swapper] = "getc" /\ tx = None

\* clock_init makes HCLK half of FCLK, and the bus mode has to be asynchronous then
\* (the comment in clock_init).
BusModeFits == sys.hdivn => sys.async
=============================================================================
