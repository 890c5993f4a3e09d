# TLA+ models and proofs for fear-os

fear-os is a small kernel for the S3C2440 (one ARM9 core): a boot loader, a
memory allocator, tasks that a timer switches between, a read-only file system
on a RAM disk, a console. This directory models the parts whose logic is hard
to get right and hard to test, checks the models with TLC and proves theorems
about them with TLAPS. `PROJECT.json` lists components, runs, mutants, the
source lines of every definition, findings, hazards and theorems.

## The system

| component | state | operations | who calls it |
|---|---|---|---|
| page allocator, `mm/mem.c` 6-337 | an array of `struct page` (flags, order, list links), one free list per order | `alloc_pages`, `free_pages`, `get_free_pages`, `put_free_pages`, `init_page_map` | the object caches |
| object caches and kmalloc, `mm/mem.c` 341-492 | per cache: free list threaded through the free objects, count, first and last slab; per page: its cache | `kmem_cache_create/alloc/free/destroy`, `kmalloc`, `kfree`, `kmalloc_init` | tasks, romfs, the malloc system call |
| tasks and switching, `kernel/proc.c`, `init/exception.S` | a ring of `task_info`, each at the bottom of its 8 KB kernel stack; saved context; the processor's registers, banked per mode | `do_fork`, `kthread_create`, `schedule`, `__asm_switch_to`, entry and exit of interrupts | `start_kernel`, the timer interrupt |
| interrupts, `kernel/interrupt.c` | handler table, mask and pending registers | `register_irq`, `common_irq_handler`, `enable_irq`, `disable_irq` | the IRQ vector, `timer_init`, `do_fork` |
| system calls, `kernel/syscall.c`, `lib/malloc.c` | a constant table | `sys_call_schedule` from the SWI vector | user tasks |
| romfs, `fs/romfs/romfs.c`, and RAM disk, `driver/ramdisk` | the image; a path component and a sector in buffers during a lookup | `namei`, `get_daddr`, `ramdisk_read` | whoever opens a file (commented-out tests so far) |
| genromfs, `tools/genromfs.c` (on the host) | a list of nodes per directory, the current offset | `processdir`, `dumpall` | whoever builds the RAM disk |
| registries, `fs/fs.c`, `driver/driver_core.c` | two tables | register, unregister | `driver_init`, `romfs_init` |
| printk, `lib/print.c` | two static buffers shared by everyone | `printk`, `vsnprintf`, `number` | everyone, also at interrupt time |
| serial driver and console, `driver/serial`, `start_kernel`'s loop, `tools/main.c` | the UART's registers | `putc`, `getc`, `puts_elf` | printk, the echo loop, programs |
| NAND driver, `boot/nand.c`, `driver/nand` | the chip's address and page registers | `nand_read` | the boot loader |
| boot loader and start-up, `boot/`, `init/`, `mm/mmu_init.c`, `start_kernel` | page table, control register, stacks, `.bss` | one sequence of steps | reset |
| `exec`, `kernel/exec.c` | - | - | nobody |

The parts meet in these places. The caches get their slabs from the page
allocator, and overwrite `list.next` of the last page of a block they hold.
`do_fork` gets kernel and user stack from `kmalloc`. `current` is the stack
pointer rounded down to 8 KB, so it relies on how the allocator aligns blocks.
`namei` reads what genromfs wrote. The console's text goes through printk, putc and
the UART, where other tasks write too. Start-up puts every part in place.
`timer_init` turns interrupts on before the allocator is set up and before the
first task is made; from then on only the few instructions between
`disable_irq` and `enable_irq` in `do_fork` and `kthread_create`, the first part
of an interrupt and a system call run undisturbed.

What is hard, and what correctness means there:

* **Page allocator.** A long sequence of splits and merges; merging looks at both
  neighbours and ignores alignment. Correct: no page is lost or in two blocks at
  any time, the fields that merging trusts tell the truth, callers get what an
  allocator promises, and a large block can be had again once all is free (it
  cannot, see `buddy_fragment`).
* **Object caches.** The free list lives in the free objects; its end is only
  known by a count; refills, destroys, preemption. Correct: an object is given to
  one caller, fits, and comes back to its cache; nothing is lost.
* **Tasks.** Interrupts at every instruction, nested ones included. Correct: a
  task never notices that it was interrupted; every task gets to run.
* **genromfs and romfs.** genromfs fixes the offsets of headers in one pass and
  writes in another without seeking; the kernel computes the place of the data once
  more, keeps path components in an uninitialised stack buffer without always
  ending them, and has four ways out with different things to free. Correct: the
  image is the host's directory, an inode tells the truth whatever the buffer held,
  lookups end and leak nothing.
* **Console.** Formatting is cut off at the buffer's end by three rules; putc
  looks at the status in one instruction and writes in another, and the timer can
  switch tasks in between. Correct: what is said goes over the line, in order.
* **Start-up.** Code copies itself, then something else, with a chip that hands out
  pages; memory is junk until it is written; interrupts come on before drivers
  and allocators are ready. Correct: what runs is whole, what is touched is mapped,
  what an interrupt needs is there, and the prompt appears.

`PROJECT.json` lists the hazards one by one, at their lines, with the property
that covers each or the reason why none does yet.

## Modules

| module | what it is |
|---|---|
| `PageGeometry` | page frames, orders and blocks, shared by the next three |
| `PageAllocator` | the abstract promise of `alloc_pages` and `free_pages` |
| `Buddy` | the buddy system, one action per loop iteration; implements `PageAllocator` |
| `BuddyLinks` | the buddy system with the pointers of its lists; implements `Buddy` |
| `KmemCache` | object caches, `kmalloc` and `kfree`, one action per access to shared fields |
| `Sched` | tasks, timer interrupt, context switch, the ways back |
| `RomImage` | genromfs: the scan and the dump |
| `Romfs` | the kernel's lookup, on the images of `RomImage` |
| `Console` | printk, the UART, its driver, the echo loop, a second task that prints |
| `Nand` | `nand_read` and the chip |
| `Heap` | the heap's size, `find_right_order`, free lists as counts (no state) |
| `Startup` | from reset to the prompt; composes `Console`, `Nand` and `Heap` |
| `Chains` | lists through links, the walks along them, recursive functions over an interval: the lemmas, no state |
| `BuddyProof`, `BuddyLinksProof`, `KmemCacheProof`, `SchedProof`, `RomfsProof` | theorems |
| `ConsoleProof`, `StartupProof` | the console's lemmas; the theorems of `Startup`, those about console and NAND included |
| `MCBuddy`, `MCBuddyLinks`, `MCKmemCache`, `MCRomfs`, `MCStartup` | values and symmetry for TLC |

### Buddy

`order`, `busy` and `dirty` are the fields of `struct page`; `free[o]` is
`page_buddy[o]` as a sequence of first pages; `cur`, `ord`, `want` are the locals
of the loop that `pc` names. `held` and `ret` record what callers have, which the
code keeps nowhere; `PageAllocator` is stated over these two alone.
`get_pages_from_list` is `GetStart` or `GetFail`, then `Split` for every iteration,
then `GetDone` (which also is the flagging loop of `alloc_pages`). `free_pages` is
`PutStart` or `PutRefused`, then `MergeNext` or `MergePrev` for every iteration, then
`PutDone`. One call runs at a time. Callers free a held block with the order they
asked for, or, by mistake, something that is not the start of a held block.

The array of page structures is embedded in a larger one (`Descs`), because the
merge loop reads the neighbours without asking whether they exist.
`OutsideDescs` is what the memory there may read as. `MCBuddy` has two choices:
`QuietMemory` never passes for a free block; `ZeroMemory` reads as zero.

Left out: the chains of page structures that spell a block out in a list
(`BuddyLinks` has them), and addresses (a page is its number).

### BuddyLinks

A free list is a ring through the list fields of all pages of all its blocks;
`page_buddy[o]` and the pages are its nodes, `links` their `next` and `prev`. The
actions are those of `Buddy` with the statements on these pointers in place of the
operations on sequences; `RemoveChain`, `AddChain`, `AddChainTail` and `Join` are the
code's helpers, store by store. The links of a block that is in no list are left as
the code leaves them, and `Chain` is what `kmem_cache_create` and `kmem_cache_alloc`
write into the last page of the blocks they hold, so that a block comes back with a
foreign link in it. `FirstPages` reads a list the way the code does, from the head
and over the last page of each block; through it the module implements `Buddy`
(`ImplementsBuddy`, which is proved), so all that is proved of `Buddy` is about these
lists too. Memory beyond the array is quiet here.

### KmemCache

`cache[k]` is a `struct kmem_cache`; `link` is the first word of every place where
an object can be, whether the object is free (then it is a link) or not (then it
is whatever the caller wrote, `Junk`); `next` is `list.next` of the last page of
each slab, `cachep` the field of that name. `given` records what callers hold.
Each access to `nf_block`, `obj_nr`, `end_page` or a link is an action, so that
everything can come between when the caller is kernel code. Callers in `InSwi` come
through SWI: `At` keeps everyone else out until they are done.
All slabs have one size, `SlabBytes`: the order of a slab is fixed when its cache
is created and never changes afterwards, so caches of different orders do not
meet except in the page allocator. That `alloc_pages` gives blocks that are
nobody else's is what `Buddy` shows; here it is the pool.

### Sched

`cpu` is the processor, `stack[t]` the kernel stack of task t, the cells beyond its
stack pointer included (`ret_to_user_from_irq` reads registers from there),
`save` the context in `task_info`, `next` the ring. Registers are told apart by
what they hold for whom. `Tick` is the IRQ vector up to `enable_irq`, where
interrupts are off; everything after it (`Schedule`, `Store`, `Load`, `Return`,
`ToUser1`-`ToUser4`, `ToSvc1`-`ToSvc2`, `FromFork1`-`FromFork3`) can be interrupted
between any two actions. `nested` counts how often that happens and `MaxNested` bounds it.

Left out: condition flags; the stack frames of C functions but for the return
address that tells which way back a context takes; user stacks (their pointer is
a register value, and the unchecked allocation of it is a listed hazard).

### RomImage and Romfs

`nodes` are genromfs's filenodes in the order it makes them, `stack` the recursion of
`processdir` with the entries `readdir` has left. `ScanRoot`, `ScanEntry` and `ScanLeave` are
the scan; `NodeAt` is where alignment and padding are decided. `DumpVolume`,
`DumpNode` and `DumpEnd` write at `at`, which counts the bytes as `dumpri`, `dumpzero` and
`dumpdata` emit them, and `image` is what lies where. `Sibling` and `FileSpec` are the offsets put
into headers, taken from the scan. Numbers in headers are in network order, a tagged
value, so that a missing conversion is a type error.

`Romfs` runs on the finished image. `Namei` is `simple_romfs_namei` up to its first loop, `Walk` one turn
of that loop, `WalkDir` one of `FOUNDDIR`, `Found` the rest; `Fail` is the common way
out, and any `kmalloc` may fail. `local` holds the call's locals. The name buffer
starts as any content of the stack (`Junk`), and `Bmap` only ends the last component,
as the code does. `path` and `exact` are history: what was asked for, and whether the
buffer held the components asked for. The code takes a component equal to the path's
last one for the file itself, and falls over the leftovers of a longer component;
`LookupExact` is therefore about paths and buffers without these
(`Plain`, `exact`), and `InodeTellsTruth` about all of them.

Left out: device nodes, fifos, sockets, checksums; a read that runs past the disk's
end (`StorageSize` is larger than any image); the inode's name being allocated
without room for its end, since names are values.

### Console

`Format` is one turn of `vsnprintf`'s loop, `FormatEnd` its end and `__put_char`;
`Number`, `FormatDecode`, `TextEnd` are the helpers; `Spell` is the loop of `number` that makes
digits, for an int of `Bits` bits kept as a number below `Ints`. `Scenarios` says which calls may come;
a call is a sequence of parts, text or a conversion with its argument, and `WellFormed` that each
argument is what its conversion takes, as it is in all calls in the source. `buf` is `print_buf` with room behind its end,
for `number` writes there. `PutcWait` and `PutcWrite` are the two halves of `putc`; `Getc` is a
turn of the echo loop. `wire`, `said` and `raced` are history: what was sent, what each
task wanted to say, and whether two tasks were past the look at the status at once,
which is when the code may lose a character. One task calls `printk`: at the
configured `DEBUG_LEVEL` `pr_info` is nothing, so that no other task or handler prints;
programs write to the UART by themselves (`puts_elf`).

### Nand, Heap and Startup

`Nand`: the chip latches five address cycles, gets a page ready in its own time and
hands out byte after byte, spare bytes as junk. `Command`, `WaitReady`, `ReadByte`,
`PageDone` and `Deselect` are `nand_read` statement by statement.

`Startup` has a program counter (`at`) and what each step sets up (`sys`). The map is in
megabytes, the unit of the page table's sections, with the addresses of
`mem_layout.h`; the images are copied on a scaled flash and memory, byte by byte.
`BssOf(Junk)` says that variables hold anything before `ClearBss`. `Tick` makes timer 4
pending and `TakeIrq` is `common_irq_handler`, possible between any two steps once
interrupts are on; ticks stop when the echo loop runs, where they change
nothing here. The messages of all steps are printed in one place, `TalkStep`.
`CreateCache` is a turn of `kmalloc_init` on `heap`, the free lists as counts with the real
sizes (`Heap`: 11707 pages, 256 caches).

Left out: the values of the memory controller's and the UART's set-up registers.

## Runs

| run | bounds | result |
|---|---|---|
| `buddy_small` | 6 pages, orders 0-2 | passes: tiling, agreement of fields and lists, no duplicates, `PAGE_DIRTY`, alignment until the first merge, refinement of `PageAllocator` |
| `buddy_links` | 4 pages, orders 0-2 | passes: the lists are rings, refinement of `Buddy` |
| `buddy_fragment` | 4 pages, orders 0-2 | `MaxBlockAvailable` fails |
| `buddy_outside` | 2 pages, orders 0-1, memory beyond reads as zero | `BlockInHandExists` fails |
| `kmem_atomic` | 2 caches, 3 slabs of 10 bytes on 2 pages, objects of 4 and 8 bytes, sizes 0, 4, 5, 9, both callers in SWI | passes: exact free lists, no overlap, right cache, no slab lost |
| `kmem_preempt` | the same, one caller preemptible | `GivenOnce` fails |
| `sched_single` | swapper, two user tasks, one kernel thread, no nesting | passes: contexts, ring, order of switches, every task runs |
| `sched_nested` | the same, one nested interrupt in all | `ContextIntact` fails |
| `sched_starved` | swapper and one kernel thread, one nested interrupt in all | `EveryTaskRuns` fails |
| `romfs` | 3 host trees of up to two levels, names of 1 and 2 characters, all paths of up to two components and two of three, 27 contents of the buffer | passes: the two passes agree, alignment, image is the host's tree, inodes true, lookups right, nothing leaks, lookups end |
| `startup` | images of 4 and 7 bytes, pages of 3, digits of base 2 in addresses; buffer of 8 characters, ints of 5 bits, 29 scenarios of messages, 2 characters typed | passes: all that is said of `Console`, `Nand` and `Startup` |
| `bus_mode` | the same | `BusModeFits` fails |

Why the bounds are enough. Six pages with blocks of up to four give a whole block
and two leftover pages, splits and merges over two levels, merges with either
neighbour, aligned and not, at both ends of the heap. The pointers need fewer: four pages
already give a list with several blocks of each order but the largest, chains of
more than two pages, and stale links from every role a page can have had. Slabs of ten bytes hold two
objects of four bytes and a remainder that the free list reaches, or one object of
eight; two pages per slab let an object start on each; three slabs let one cache be
refilled while the other lives. 9 is larger than any cache serves and 0 wraps.
Four tasks make a ring in which every insertion happens before and after
somebody else's. The host trees have hard links to files and directories, `..` at
both levels, `@` links to a directory and to nothing, unreadable, excluded and empty
files; with a unit of 2 bytes, names of one and two characters take headers of
different sizes, so that a wrong rounding shows. The images of the start-up begin and end
inside pages and share one (`KernelFlash` 5, pages of 3), and each copy crosses page
ends. A buffer of 8 is overrun by text, by a string and by a number; 5 bits have a
most negative int and two octal digits.

Fairness (`Sched!FairSpec`). Kernel code that can run does, and the timer keeps
firing, because timer 4 reloads itself (`main.c` 23-40). Strong fairness of `Link1`
says that a task which is about to link another one is not interrupted at this
very instruction every time: the timer's period (120 counts at 12500 a second)
is far longer than the way there. `sched_starved` needs no more than one nested
interrupt, so its counterexample does not rest on an adversarial timer.
`Romfs!Spec`: a call that is running goes on. `Startup!Spec`: the steps of the start-up
and `nand_read` go on, the chip gets ready, the UART sends, the swapper's printk and echo go
on, and so does each task's putc, because the timer lets every task run. Nobody has to type
or to look up a file; both runs may therefore stop, and their deadlock check is off.

## Findings

1. `buddy_fragment`: merging ignores alignment, so blocks that lie askew break the
   heap up; with everything free no largest block need be left, against
   the comment on `BUDDY_ORDER_NUM` (`mem.c:141`).
2. `buddy_outside`: the neighbour of the last block is read from the RAM disk.
   Where it reads as zero, a page that does not exist joins the heap (`mem.c:204`
   relies on the array being contiguous, not on its ends).
3. `kmem_preempt`: kernel code in `kmem_cache_alloc` can be preempted by a user
   task whose system call allocates; both get one object (`exception.S:44`).
4. `sched_nested`: a nested interrupt destroys the context it interrupts, against
   `interrupt.c:96-98`.
5. `sched_starved`: a nested interrupt inside `__asm_switch_to` makes a task
   switch away forever (`proc.c:94`).
6. `bus_mode`: `start_mmu` writes 1 to the whole control register and takes back the
  asynchronous bus mode that `clock_init` says a divided bus clock needs (`boot/init.c:37`).

## Proofs

Every theorem below holds for every value of the constants that meets the named
assumptions, which TLC evaluates on the runs. `PROJECT.json` lists the theorems with the
properties they state.

### The page allocator

`BuddyProof` proves, for every number of pages and every largest order, that the
buddy system loses no page (`NoPageLost`), never has one in two blocks
(`NoOverlap`), keeps fields, lists and holders in agreement (`Metadata`), lists no
block twice (`ListsDistinct`), marks only held pages dirty (`DirtyPages`), never lets the
block in hand leave the heap (`TypesHold`) and implements `PageAllocator` (`Refinement`).
`Alignment` adds that blocks start at multiples of their size until the first merge: all
steps but `Split` leave `BlockOrder` as it is, and halving a multiple gives two.

Assumptions: `GeometryAssumption` (sizes double from 1, the heap is not empty, `NULL` is no
page and no answer), `OutsideAssumption`, and `QuietOutside`, that memory beyond the array
never passes for a free block. `buddy_outside` shows that the code needs the last and does
not check it.

None of the invariants is inductive as it stands: whether a merge is
safe depends on blocks that neither hand nor neighbour mention. `IInv` therefore
says that `BlockOrder`, the map from each page to the order of the block that starts
there (the field, except for the block in hand), is a tiling: blocks stay in
the heap, do not overlap and leave no gap. `SplitTiling` and `MergeTiling` are the
two facts about tilings; a merge with an unaligned neighbour is fine because only
contiguity matters. The rest of `IInv` ties lists (`ListsInv`), holders (`HeldInv`),
the block in hand (`InHandInv`) and outside memory (`OutsideInv`) to that map; one
lemma per action shows it preserved, `InitInv` that `init_page_map` establishes it.

`BuddyLinksProof` carries all this over to the pointers. It proves that every list stays one
ring (`RingsStayWhole`), that links lead to pages and heads but where an object cache wrote
(`TypesHold`), and that `BuddyLinks` implements `Buddy` (`Refinement`). Nothing is assumed
beyond the constants: memory beyond the array is quiet in `BuddyLinks`, which gives
`QuietOutside` for the instance of `BuddyProof` it uses. The invariant `LInv` has three
parts that need each other: `BuddyProof!IInv` of the lists read off the links; that each list,
page by page, is a ring in both directions (`Rings`); that inside every block, held ones
included, each page leads to the next (`Inner`), for a held block only goes back into a list
by its first and last page. Hence what the object caches leave in the link of the last page does
not matter: it is the one link that queueing writes.

### Object caches

`KmemCacheProof` proves, for every set of caches, size of slab, page and object, set of slabs and
set of callers, all five invariants of `kmem_atomic`: `FreeListsExact`, `ObjectsApart`,
`ObjectsGoHome`, `NoSlabLost`, `TypesHold`. Their hypothesis is `AllInSwi`, that every caller comes
through SWI with interrupts off: `kmem_preempt` shows what happens otherwise.

The code nowhere keeps what a slab is used for. The invariant `IInv` says that there is
an assignment of slabs to caches, to the pool, or to the call that is handling them
(`own`), such that the slabs of a cache are the list from `head_page` to `end_page`
(`ChainInv`), and the counted part of its free list is a list of exactly the whole objects
of its slabs nobody has (`CacheOK`). Behind the counted part a link may be anything. While a
call works on a cache its list has one too many or too few, and `CallInv` says for each
place in the code which. Destroying a cache is safe because its chain is the set of
slabs it owns, refilling one because the new slab's objects are all its list has.

`Chains` holds the lemmas these two modules, `RomfsProof` and `ConsoleProof` rest on: what it is for a set to
be a list along links (`IsList`), how a list grows and shrinks at either end, and that the
walks of the model (recursive functions along links) meet its members in order.

### Tasks

`SchedProof` proves for every set of tasks that contexts stay intact (`ContextsIntact`), the
ring stays one ring (`RingWhole`) and switches follow it (`SwitchesInRing`). Assumptions:
those on the constants, and `NoNesting` (`MaxNested = 0`): `sched_nested` shows that the first
is false otherwise. Where a task's context is depends on where the task was left, so
the invariant `IInv` says it for each place: `CpuInv` for the task that runs, by location of the
processor; `Suspended` for the others, by what `save` says they return to; `FrameOK` for the
frame on the kernel stack, taken by an interrupt or forged by `do_fork`; `MadeInv` says which
tasks are made: those of the ring and at most the one `do_fork` is making. `RingInv` gives the ring
as it stands, or as it was before the new task is half linked, as one ring: no proper subset
of the linked tasks is closed under `next` (`OneRing`). `Link1` and `Link2` are only together one
step of it, which is why interrupts are off between them.

### genromfs and romfs

`RomfsProof` proves, for every directory tree, every volume name and all `-a`, `-A` and `-x`
options, that the two passes of genromfs agree (`PassesAgree`), that headers and data lie
where they have to (`DataInPlace`) and that the image shows the host's directories
(`ImageShowsHost`); and for every image so made, every path, every content of the
stack and every failure of `kmalloc`, that a lookup leaks nothing (`NoLeak`), that an inode
tells the truth (`InodesTrue`), that headers belong to files and the second loop is
only reached with the end of the path in hand (`TypesHold`), and that a path the code is made for
leads to the file the host has there (`LookupsExact`).

Assumptions. `RomImageAssumption`: offsets are rounded to `Unit` (16 in the code), of which the
block size is a multiple; alignments are multiples of it too (genromfs refuses others: the checks
of `-a` and `-A` in `main`); "." itself is not named by an `-A` option. `HostAssumption`: what
`readdir`, `lstat` and `readlink` guarantee, names are not empty and entries are files.
`TreeAssumption`: directories form a tree, with "." in each and ".." the way back.
`RomfsAssumption`: path components fit the buffer.

Two theorems have hypotheses of their own, each for a reason in the code.

* `LookupsExact` takes `ImageFits`: the image is not longer than the RAM disk. Otherwise
  `read_ramdisk` refuses what lies behind its end, and nothing is found there.
* `ImageShowsHost` wants "." kept by the `-x` options. genromfs has a directory's header point to the first
  header in it, and to itself if there is none; the list of an empty directory would then be the rest of
  the list it is in.
* It also takes `LinksLate`, about `@` entries, which stand for what they link to: none may lead outside, be
  called "." or "..", or lead to a directory before the directory around that one has a
  node. `findnode` searches the lists in order: a directory that is met through an `@` entry first
  brings its ".." along, and the directory that leads to, when its turn comes, is taken for a hard link
  to this "..", with nothing in it. Hosts without `@` entries have none of this, and TLC confirms that
  those of the `romfs` run, some of which have them, satisfy it in every state.

The scan is recursive and depth first, the dump walks lists of children. They agree because
the nodes are in pre-order, and the invariant says so without a tree: `NodesOK`, that a
node made after another node's directory was left is not in that directory (`ns[m].dir <
ns[j].dir /\ ns[j].dir < m => j < m`), with `StackOK` for the directories the scan is in.
`DumpInv` says that the first k nodes are written and that `todo` lists, in order, the nodes
behind them that hang from one of these (`Pending`); `NextInOrder` is the step from k to k + 1.
Offsets then agree because both passes add the same numbers. `ImageInv` ties a header's
fields to its node; the kernel's `GetDaddr` and genromfs's `HeaderLen` compute the same
place in different ways (`DataPlace`). `CallInv` follows a call: what is left of the path ends as
the path does, and the last component is copied with its end (`LastCopied`), whatever the
buffer held.

For lookups, `LinksInv` says where `next` and `spec.info` of every header lead, in terms of the nodes,
`DirsInv` that only directories have nodes in them, and `FirstInv` that the first node after the
volume is where the kernel begins. `SeekInv` follows the path: while the walk goes on there is an m such
that the components before the m-th lead, in the tree, to the directory whose list is being followed,
the buffer holds the m-th, and no header of that name has been passed (`Sought`, `Onto`). Where that
header is a directory, the walk goes on in its list with m + 1.

For the host, `ShowInv` has three parts. `AllMade`: the first node of a file is no link and all
others are, and who is entered lies in a directory that has a node. `Part`: the nodes of a directory
on the stack are the list (`Listing`) of the entries `readdir` has returned so far. `Full`: those of a
directory the scan has left list all of them. `BottomInv` keeps the root at the bottom of the stack.
`HostShown` then reads the lists off the headers, by `LinksInv`.

### Start-up and NAND

`StartupProof` proves, for every page size, address radix, memory and images that
fit (`NandAssumption`, `StartupAssumption`), that reads are exact (`ReadsExact`), images whole when they
run (`WholeImages`), interrupts safe (`SafeInterrupts`), everything touched mapped (`MemoryMapped`)
and the RAM disk in its place (`DiskInPlace`). The heart of the reads (`NandInv`) is that the five cycles
spell the address: the digits of a number below `Capacity`, put together again, are the number
(`FiveCycles`). `BootInv` says for every step what those before it have set up, with one set of
steps per thing. `TypesHold` takes `TalkInv` as well, below.

`CachesMade` is about the real sizes, and about every way the boot may be interrupted. `HeapInv` says that
the heap is untouched before `init_page_map` and from then on `CutOK`: the free pages and those of the first n slabs
are 11707 together, and single pages and blocks of the orders between are few (`CutOne`: splitting leaves at most one block
of an order that had none). The 256 slabs take 3830 pages (`SlabPagesAre`, by `UpTo` over the caches), so that
a block of the largest order is always left (`LargestLeft`) and no cache fails.

### The console

Also theorems of `Startup`, from the lemmas of `ConsoleProof`: `NumbersRight`, `TextsPrinted` and
`AllOnScreen`, for every buffer size, width of an int, set of programs, set of scenarios, hint and
bound on what is typed. `ConsoleAssumption` says that arguments fit their conversions and that text has
no "%" (at the end of a format `format_decode` steps over the end; no call in the source does that).

`NumbersRight` is a fact about `Number` alone: `SpellSteps` unfolds the recursion, `SpellRight` says
that the digits read as the number and do not begin with a needless zero, `SpellShort` that there
are at most `Bits` of them. `ConsoleInv` has what the steps need.

* For `vsnprintf` (`Doing`): after each turn there is a k such that the first k parts of the call are done,
  the format left is that of the parts behind them (`FmtFrom`), the arguments left are theirs
  (`ArgsFrom`), and the text of the first k (`TextTo`) lies in `print_buf` as far as the buffer goes
  (`Printed`). Text parts that follow each other are taken in one turn, up to the next "%"
  (`LookAhead`). `Printed` has to say that once the text has reached the buffer's end, it has: then
  text and strings, which stop there, and numbers, which do not, all leave the beginning alone.
  A call with a "%l" is allowed, as it is in the code: the width flag stays set, later
  conversions are skipped without taking their argument, and nothing is promised but that the
  types hold; the theorem is about calls without (`Plain`).
* For the line (`Alone`, `AllSaid`): unless two tasks were behind their look at the status at once, at
  most one is, it finds the transmitter empty, and for every task what was sent or is in
  the transmitter, followed by what it has left, is what it had to say.
* `Quiet`: before `start_kernel` comes to its messages no step of the console is possible, so that
  `Talk` starts from an empty line.

### What TLC alone checks

* Liveness: `EveryTaskRuns`, `LookupEnds`, `ComesToPrompt`. The provers here do not do
  fairness.

Every invariant and every action property of the passing runs is a theorem.

The library's induction theorems take an operator and cannot be used with these provers.
Where a definition is a recursive function over an interval, `Chains!LeastElement` (or `UpTo`, the
same for a set of numbers) does instead: if a statement fails somewhere, it fails at a least
place, and the step from the place before is a contradiction. `Chains!StepByStep` gives that
the function a recursion describes exists.

## Not modelled

* `exec`: nothing calls it, and the ELF loader in `start_kernel` is commented out. `app.lds` links
  programs at 0x30200000, where the heap begins; no code depends on it now.
* System calls beyond `malloc`: a constant table, and registers passed through.
* `unregister_file_system`, `hexdump`, `format_ramdisk`, `ioremap`'s callers: there are none.
* Interrupt sources other than timer 4: they stay masked. The `|=` on SRCPND and INTPND clears
  all that is pending, which can only lose interrupts of sources that are masked.
* `register_storage_device` and `virt_to_page` accept one index too many (`>` for `>=`); no
  caller passes it.
* The user stack's allocation in `do_fork`, which is not checked.
* Register values of memory controller, clocks and UART.

## Plan

Left, in this order:

1. `printk` with several callers (a higher `DEBUG_LEVEL`): `print_buf` under preemption.
2. `Buddy` entered a second time from an interrupt-time caller, composed with `Sched`.
