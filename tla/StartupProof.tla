---------------------------- MODULE StartupProof ----------------------------
(***************************************************************************)
(* The start-up for images of every size, on every flash and memory they   *)
(* fit in: what is copied is exact, code that runs is whole, and what the  *)
(* interrupts, the page table and the file system rely on is set up before *)
(* it is needed.                                                           *)
(*                                                                         *)
(* The invariant says for every step what the steps before it have set up. *)
(* A set is named for what has been done at all the steps in it.  HeapInv, *)
(* at the end, follows the pages of the heap into kmalloc's caches.        *)
(***************************************************************************)
EXTENDS Startup, ConsoleProof

-----------------------------------------------------------------------------
(* nand_read for every page size and every radix of the address cycles: the *)
(* inductive invariant of a read, and one lemma per action.                 *)

\* A call that stays within the flash and the memory.
GoodCall(src, dst, len) ==
  /\ src \in Nat /\ dst \in Nat /\ len \in Nat
  /\ src + len <= Capacity
  /\ \A k \in 0..(len - 1) : dst + k \in Memory

ReadType ==
  /\ chip \in [selected : BOOLEAN, cycles : Seq(Nat), state : {"idle", "busy", "data"},
               page : Nat, col : Nat]
  /\ Len(chip.cycles) \in {0, 5}
  /\ rd \in [at : {"none", "command", "ready", "data"}, src : Nat, dst : Nat, len : Nat,
             addr : Nat, col : Nat, i : Nat]
  /\ DOMAIN dram = Memory
  /\ GoodCall(rd.src, rd.dst, rd.len)

\* What has been read, and where the call is in its page.
Progress ==
  /\ rd.i <= rd.len /\ rd.addr = rd.src + rd.i
  /\ \A k \in 0..(rd.i - 1) : dram[rd.dst + k] = rd.src + k
  /\ rd.at = "none" => rd.i = rd.len

\* Chip and code agree on the position.
InStep ==
  /\ rd.at # "none" => chip.selected
  /\ rd.at = "command" /\ rd.i < rd.len => rd.col = rd.addr % PageBytes
  /\ chip.state = "busy" => rd.at = "ready"
  /\ rd.at = "ready" =>
       /\ rd.i < rd.len /\ rd.col = rd.addr % PageBytes
       /\ chip.state \in {"busy", "data"}
       /\ chip.state = "busy" => chip.cycles = Cycles(rd.addr)
  /\ rd.at \in {"ready", "data"} /\ chip.state = "data" =>
       chip.col = rd.col /\ chip.page * PageBytes + chip.col = rd.addr
  /\ rd.at = "data" => chip.state = "data" /\ rd.col <= PageBytes

NandInv == ReadType /\ Progress /\ InStep

-----------------------------------------------------------------------------
(* Division. *)

LEMMA Divided ==
  ASSUME NEW a \in Nat, NEW d \in Nat \ {0}
  PROVE  a = (a \div d) * d + (a % d) /\ a % d \in 0..(d - 1) /\ a \div d \in Nat
BY Z3

LEMMA Mod ==
  ASSUME NEW a \in Nat, NEW d \in Nat \ {0}
  PROVE  a % d \in Nat /\ a % d < d
BY Z3

\* A quotient and a remainder that fit are the quotient and the remainder.
LEMMA Quotient ==
  ASSUME NEW d \in Nat \ {0}, NEW x \in Nat, NEW r \in Nat, r < d
  PROVE  (d * x + r) \div d = x /\ (d * x + r) % d = r
BY Z3

LEMMA Small ==
  ASSUME NEW a \in Nat, NEW d \in Nat \ {0}, NEW m \in Nat, a < d * m
  PROVE  a \div d < m
BY Z3

\* A number of two digits is put together from them.
LEMMA TwoDigits ==
  ASSUME NEW R \in Nat \ {0}, NEW c \in Nat, c < R * R
  PROVE  (c % R) + R * ((c \div R) % R) = c
<1>1. c \div R < R /\ c \div R \in Nat
  BY Small, Divided
<1>2. (c \div R) % R = c \div R
  BY <1>1, Z3
<1>3. c = (c \div R) * R + (c % R) /\ c % R \in Nat
  BY Divided
<1>. QED
  BY <1>1, <1>2, <1>3, Z3

LEMMA DivDiv ==
  ASSUME NEW R \in Nat \ {0}, NEW p \in Nat
  PROVE  p \div (R * R) = (p \div R) \div R
<1>. DEFINE q == p \div R
            s == q \div R
            r == R * (q % R) + (p % R)
<1>1. q \in Nat /\ s \in Nat /\ q % R \in 0..(R - 1) /\ p % R \in 0..(R - 1)
  BY Divided
<1>2. p = q * R + (p % R) /\ q = s * R + (q % R)
  BY Divided
<1>3. r \in Nat /\ r < R * R /\ R * R \in Nat \ {0}
  BY <1>1, Z3
<1>4. \A t, u, v \in Nat : (t * R + u) * R + v = (R * R) * t + (R * u + v)
  <2>1. SUFFICES ASSUME NEW t \in Nat, NEW u \in Nat, NEW v \in Nat
                 PROVE  (t * R + u) * R + v = (R * R) * t + (R * u + v)
    OBVIOUS
  <2>. QED
    BY <2>1, Z3
<1>5. q % R \in Nat /\ p % R \in Nat /\ r = R * (q % R) + (p % R)
  BY <1>1
<1>. HIDE DEF r, s, q
<1>6. (s * R + (q % R)) * R + (p % R) = (R * R) * s + (R * (q % R) + (p % R))
  BY <1>1, <1>4, <1>5
<1>7. q * R = (s * R + (q % R)) * R
  BY <1>2
<1>8. p = (R * R) * s + r
  BY <1>2, <1>5, <1>6, <1>7
<1>9. ((R * R) * s + r) \div (R * R) = s
  BY <1>1, <1>3, Quotient
<1>. QED
  BY <1>8, <1>9 DEF s, q

\* And so is a number of three.
LEMMA ThreeDigits ==
  ASSUME NEW R \in Nat \ {0}, NEW p \in Nat, p < R * (R * R)
  PROVE  (p % R) + R * ((p \div R) % R) + (R * R) * ((p \div (R * R)) % R) = p
<1>. DEFINE q == p \div R
<1>1. q \in Nat /\ p = q * R + (p % R) /\ p % R \in Nat
  BY Divided
<1>2. R * R \in Nat
  BY Z3
<1>3. q < R * R
  BY <1>2, Small
<1>4. p \div (R * R) = q \div R
  BY DivDiv
<1>. HIDE DEF q
<1>5. (q % R) + R * ((q \div R) % R) = q
  BY <1>1, <1>3, TwoDigits
<1>6. q % R \in Nat /\ (q \div R) % R \in Nat
  BY <1>1, Divided
<1>7. \A t, u \in Nat : R * t + (R * R) * u = R * (t + R * u)
  <2>1. SUFFICES ASSUME NEW t \in Nat, NEW u \in Nat
                 PROVE  R * t + (R * R) * u = R * (t + R * u)
    OBVIOUS
  <2>. QED
    BY <2>1, Z3
<1>8. R * (q % R) + (R * R) * ((q \div R) % R) = R * q
  BY <1>5, <1>6, <1>7
<1>9. R * q = q * R /\ R * (q % R) \in Nat /\ (R * R) * ((q \div R) % R) \in Nat
  BY <1>1, <1>2, <1>6, Z3
<1>10. (p % R) + R * (q % R) + (R * R) * ((q \div R) % R) = p
  BY <1>1, <1>8, <1>9
<1>. QED
  BY <1>4, <1>10 DEF q
-----------------------------------------------------------------------------
(* The chip makes of the five cycles the address they were made of. *)

LEMMA FiveCycles ==
  ASSUME NEW a \in Nat, a < Capacity
  PROVE  /\ Cycles(a) \in Seq(Nat) /\ Len(Cycles(a)) = 5
         /\ ChipCol(Cycles(a)) = a % PageBytes
         /\ ChipPage(Cycles(a)) = a \div PageBytes
<1>. DEFINE col == a % PageBytes
            page == a \div PageBytes
<1>1. PageBytes \in Nat \ {0} /\ Radix \in Nat \ {0} /\ PageBytes <= Radix * Radix
  BY NandAssumption
<1>2. col \in Nat /\ col < PageBytes /\ page \in Nat
  BY <1>1, Mod, Divided
<1>3. Radix * Radix \in Nat \ {0} /\ Radix * (Radix * Radix) \in Nat
  BY <1>1, Z3
<1>4. page < Radix * (Radix * Radix)
  BY <1>1, <1>3, Small DEF Capacity
<1>. HIDE DEF col, page
<1>5. Cycles(a) = <<col % Radix, (col \div Radix) % Radix, page % Radix,
                    (page \div Radix) % Radix, (page \div (Radix * Radix)) % Radix>>
  BY DEF Cycles, col, page
<1>6. /\ col % Radix \in Nat /\ (col \div Radix) % Radix \in Nat
      /\ page % Radix \in Nat /\ (page \div Radix) % Radix \in Nat
      /\ (page \div (Radix * Radix)) % Radix \in Nat
  BY <1>1, <1>2, <1>3, Divided
<1>10. /\ Cycles(a)[1] = col % Radix /\ Cycles(a)[2] = (col \div Radix) % Radix
       /\ Cycles(a)[3] = page % Radix /\ Cycles(a)[4] = (page \div Radix) % Radix
       /\ Cycles(a)[5] = (page \div (Radix * Radix)) % Radix
  <2>. DEFINE v == col % Radix
              w == (col \div Radix) % Radix
              x == page % Radix
              y == (page \div Radix) % Radix
              z == (page \div (Radix * Radix)) % Radix
  <2>1. Cycles(a) = <<v, w, x, y, z>>
    BY <1>5
  <2>. HIDE DEF v, w, x, y, z
  <2>2. /\ Cycles(a)[1] = v /\ Cycles(a)[2] = w /\ Cycles(a)[3] = x
        /\ Cycles(a)[4] = y /\ Cycles(a)[5] = z
    BY <2>1
  <2>. QED
    BY <2>2 DEF v, w, x, y, z
<1>7. Cycles(a) \in Seq(Nat) /\ Len(Cycles(a)) = 5
  BY <1>5, <1>6
<1>8. ChipCol(Cycles(a)) = col
  <2>1. col < Radix * Radix
    BY <1>1, <1>2, <1>3
  <2>2. (col % Radix) + Radix * ((col \div Radix) % Radix) = col
    BY <1>1, <1>2, <2>1, TwoDigits
  <2>3. ChipCol(Cycles(a)) = (col % Radix) + Radix * ((col \div Radix) % Radix)
    BY <1>10, Zenon DEF ChipCol
  <2>. QED
    BY <2>2, <2>3
<1>9. ChipPage(Cycles(a)) = page
  <2>1. ChipPage(Cycles(a)) =
          (page % Radix) + Radix * ((page \div Radix) % Radix)
            + (Radix * Radix) * ((page \div (Radix * Radix)) % Radix)
    BY <1>10, Zenon DEF ChipPage
  <2>. QED
    BY <1>1, <1>2, <1>4, <2>1, ThreeDigits
<1>. QED
  BY <1>7, <1>8, <1>9 DEF col, page

\* Within a page the next byte is in the next column; behind the last is a new page.
LEMMA NextColumn ==
  ASSUME NEW page \in Nat, NEW a \in Nat, page * PageBytes + PageBytes = a
  PROVE  a % PageBytes = 0
<1>1. PageBytes \in Nat \ {0}
  BY NandAssumption
<1>2. (PageBytes * (page + 1) + 0) % PageBytes = 0
  BY <1>1, Quotient
<1>3. PageBytes * (page + 1) + 0 = page * PageBytes + PageBytes
  BY <1>1, Z3
<1>. QED
  BY <1>2, <1>3

-----------------------------------------------------------------------------
(* The invariant. *)

LEMMA NandInitInv ==
  ASSUME NandInit
  PROVE  NandInv
<1>1. 0 + 0 <= Capacity
  <2>1. Radix * Radix \in Nat
    BY NandAssumption, Z3
  <2>2. Radix * (Radix * Radix) \in Nat
    BY NandAssumption, <2>1, Z3
  <2>. QED
    BY NandAssumption, <2>2, Z3 DEF Capacity
<1>2. GoodCall(0, 0, 0)
  BY <1>1 DEF GoodCall
<1>3. ReadType
  BY <1>2 DEF NandInit, ReadType
<1>4. Progress
  BY DEF NandInit, Progress
<1>5. InStep
  BY DEF NandInit, InStep
<1>. QED
  BY <1>3, <1>4, <1>5 DEF NandInv

LEMMA NandReadInv ==
  ASSUME NandInv, NEW src, NEW dst, NEW len, rd.at = "none", GoodCall(src, dst, len),
         NandRead(src, dst, len)
  PROVE  NandInv'
<1>1. src \in Nat /\ dst \in Nat /\ len \in Nat
  BY DEF GoodCall
<1>2. src % PageBytes \in Nat
  BY <1>1, NandAssumption, Divided
<1>3. ReadType'
  BY <1>1, <1>2 DEF NandInv, ReadType, NandRead, GoodCall
<1>4. Progress'
  BY <1>1 DEF NandRead, Progress
<1>5. InStep'
  BY DEF NandInv, ReadType, InStep, NandRead
<1>. QED
  BY <1>3, <1>4, <1>5 DEF NandInv

LEMMA CommandInv ==
  ASSUME NandInv, Command
  PROVE  NandInv'
<1>1. rd.addr \in Nat /\ rd.addr < Capacity
  <2>1. Capacity \in Int
    BY NandAssumption DEF Capacity
  <2>. QED
    BY <2>1 DEF NandInv, ReadType, Progress, GoodCall, Command
<1>2. Cycles(rd.addr) \in Seq(Nat) /\ Len(Cycles(rd.addr)) = 5
  BY <1>1, FiveCycles
<1>3. ReadType'
  BY <1>2 DEF NandInv, ReadType, Command, GoodCall
<1>4. Progress'
  BY DEF NandInv, ReadType, Progress, Command
<1>5. InStep'
  BY DEF NandInv, ReadType, InStep, Command
<1>. QED
  BY <1>3, <1>4, <1>5 DEF NandInv

LEMMA ChipReadyInv ==
  ASSUME NandInv, ChipReady
  PROVE  NandInv'
<1>1. rd.at = "ready" /\ rd.i < rd.len /\ chip.cycles = Cycles(rd.addr)
      /\ rd.col = rd.addr % PageBytes
  BY DEF NandInv, InStep, ChipReady
<1>2. rd.addr \in Nat /\ rd.addr < Capacity
  <2>1. Capacity \in Int
    BY NandAssumption DEF Capacity
  <2>. QED
    BY <1>1, <2>1 DEF NandInv, ReadType, Progress, GoodCall
<1>3. ChipCol(chip.cycles) = rd.addr % PageBytes
      /\ ChipPage(chip.cycles) = rd.addr \div PageBytes
  BY <1>1, <1>2, FiveCycles
<1>4. /\ rd.addr % PageBytes \in Nat /\ rd.addr \div PageBytes \in Nat
      /\ rd.addr = (rd.addr \div PageBytes) * PageBytes + (rd.addr % PageBytes)
  BY <1>2, NandAssumption, Mod, Divided
<1>5. ReadType'
  BY <1>3, <1>4 DEF NandInv, ReadType, ChipReady, GoodCall
<1>6. Progress'
  BY DEF NandInv, Progress, ChipReady
<1>7. InStep'
  <2>1. chip'.state = "data" /\ chip'.col = rd.col /\ chip'.selected = chip.selected
    BY <1>1, <1>3 DEF NandInv, ReadType, ChipReady
  <2>2. chip'.page * PageBytes + chip'.col = rd.addr
    BY <1>1, <1>3, <1>4 DEF NandInv, ReadType, ChipReady
  <2>. QED
    BY <1>1, <2>1, <2>2 DEF NandInv, InStep, ChipReady
<1>. QED
  BY <1>5, <1>6, <1>7 DEF NandInv

LEMMA WaitReadyInv ==
  ASSUME NandInv, WaitReady
  PROVE  NandInv'
<1>1. rd.col <= PageBytes
  BY NandAssumption, Divided DEF NandInv, ReadType, InStep, WaitReady
<1>2. ReadType'
  BY DEF NandInv, ReadType, WaitReady, GoodCall
<1>3. Progress'
  BY DEF NandInv, ReadType, Progress, WaitReady
<1>4. InStep'
  BY <1>1 DEF NandInv, ReadType, InStep, WaitReady
<1>. QED
  BY <1>2, <1>3, <1>4 DEF NandInv

LEMMA ReadByteInv ==
  ASSUME NandInv, ReadByte
  PROVE  NandInv'
<1>1. NandData = rd.addr
  <2>1. chip.selected /\ chip.state = "data" /\ chip.col = rd.col
        /\ chip.page * PageBytes + chip.col = rd.addr
    BY DEF NandInv, InStep, ReadByte
  <2>. QED
    BY <2>1 DEF NandData, ReadByte
<1>2. rd.dst + rd.i \in Memory
  BY DEF NandInv, ReadType, GoodCall, ReadByte
<1>3. /\ rd'.i = rd.i + 1 /\ rd'.addr = rd.addr + 1 /\ rd'.col = rd.col + 1
      /\ rd'.at = "data" /\ rd'.src = rd.src /\ rd'.dst = rd.dst /\ rd'.len = rd.len
      /\ chip'.col = chip.col + 1 /\ chip'.page = chip.page
      /\ chip'.selected = chip.selected /\ chip'.state = chip.state
  BY DEF NandInv, ReadType, ReadByte
<1>4. ReadType'
  <2>1. chip' \in [selected : BOOLEAN, cycles : Seq(Nat), state : {"idle", "busy", "data"},
                   page : Nat, col : Nat]
    BY DEF NandInv, ReadType, ReadByte
  <2>2. rd' \in [at : {"none", "command", "ready", "data"}, src : Nat, dst : Nat, len : Nat,
                 addr : Nat, col : Nat, i : Nat]
    <3>1. rd.col + 1 \in Nat /\ rd.i + 1 \in Nat /\ rd.addr + 1 \in Nat
      BY DEF NandInv, ReadType
    <3>2. rd \in [at : {"none", "command", "ready", "data"}, src : Nat, dst : Nat, len : Nat,
                  addr : Nat, col : Nat, i : Nat]
      BY DEF NandInv, ReadType
    <3>3. rd' = [rd EXCEPT !.col = rd.col + 1, !.i = rd.i + 1, !.addr = rd.addr + 1]
      BY DEF ReadByte
    <3>. QED
      BY <3>1, <3>2, <3>3
  <2>3. DOMAIN dram' = Memory
    BY Zenon DEF NandInv, ReadType, ReadByte
  <2>4. GoodCall(rd'.src, rd'.dst, rd'.len)
    BY <1>3, Zenon DEF NandInv, ReadType
  <2>5. Len(chip'.cycles) \in {0, 5}
    BY DEF NandInv, ReadType, ReadByte
  <2>. QED
    BY <2>1, <2>2, <2>3, <2>4, <2>5, Zenon DEF ReadType
<1>5. Progress'
  <2>1. rd'.i <= rd'.len /\ rd'.addr = rd'.src + rd'.i
    BY <1>3 DEF NandInv, ReadType, Progress, ReadByte
  <2>2. ASSUME NEW k \in 0..(rd'.i - 1)
        PROVE  dram'[rd'.dst + k] = rd'.src + k
    <3>1. CASE k = rd.i
      BY <1>1, <1>2, <1>3, <3>1 DEF NandInv, ReadType, Progress, ReadByte
    <3>2. CASE k # rd.i
      <4>1. k \in 0..(rd.i - 1) /\ rd.dst + k # rd.dst + rd.i
        BY <1>3, <3>2 DEF NandInv, ReadType
      <4>2. rd.dst + k \in Memory
        BY <4>1 DEF NandInv, ReadType, Progress, GoodCall
      <4>. QED
        BY <1>3, <4>1, <4>2 DEF NandInv, ReadType, Progress, ReadByte
    <3>. QED
      BY <3>1, <3>2
  <2>. QED
    BY <1>3, <2>1, <2>2 DEF Progress
<1>6. InStep'
  <2>1. chip'.page * PageBytes + chip'.col = rd'.addr
    <3>1. chip.page * PageBytes \in Int
      BY NandAssumption DEF NandInv, ReadType
    <3>2. chip.page * PageBytes + chip.col = rd.addr
      BY DEF NandInv, InStep, ReadByte
    <3>. QED
      BY <1>3, <3>1, <3>2 DEF NandInv, ReadType
  <2>2. rd'.col <= PageBytes
    BY <1>3, NandAssumption DEF NandInv, ReadType, ReadByte
  <2>. QED
    BY <1>3, <2>1, <2>2 DEF NandInv, InStep, ReadByte
<1>. QED
  BY <1>4, <1>5, <1>6 DEF NandInv

LEMMA PageDoneInv ==
  ASSUME NandInv, PageDone
  PROVE  NandInv'
<1>1. ASSUME rd.i < rd.len
      PROVE  rd.addr % PageBytes = 0
  <2>1. rd.col = PageBytes /\ chip.col = PageBytes
        /\ chip.page * PageBytes + PageBytes = rd.addr
    BY <1>1, NandAssumption DEF NandInv, ReadType, InStep, PageDone
  <2>. QED
    BY <2>1, NextColumn DEF NandInv, ReadType
<1>2. ReadType'
  BY DEF NandInv, ReadType, PageDone, GoodCall
<1>3. Progress'
  BY DEF NandInv, ReadType, Progress, PageDone
<1>4. InStep'
  BY <1>1 DEF NandInv, ReadType, InStep, PageDone
<1>. QED
  BY <1>2, <1>3, <1>4 DEF NandInv

LEMMA DeselectInv ==
  ASSUME NandInv, Deselect
  PROVE  NandInv'
<1>1. rd.i = rd.len
  BY DEF NandInv, ReadType, Progress, Deselect
<1>2. ReadType'
  BY DEF NandInv, ReadType, Deselect, GoodCall
<1>3. Progress'
  BY <1>1 DEF NandInv, ReadType, Progress, Deselect
<1>4. InStep'
  BY DEF NandInv, ReadType, InStep, Deselect
<1>. QED
  BY <1>2, <1>3, <1>4 DEF NandInv

\* The steps of a call, and the steps of others.
LEMMA NandNextInv ==
  ASSUME NandInv, NandNext
  PROVE  NandInv'
BY CommandInv, ChipReadyInv, WaitReadyInv, ReadByteInv, PageDoneInv, DeselectInv
   DEF NandNext

LEMMA NandStutterInv ==
  ASSUME NandInv, UNCHANGED nandVars
  PROVE  NandInv'
BY DEF NandInv, ReadType, Progress, InStep, GoodCall, nandVars

LEMMA NandInvExact ==
  ASSUME NandInv
  PROVE  NandExact
BY DEF NandInv, ReadType, Progress, NandExact

-----------------------------------------------------------------------------
(* What the steps of the start-up have set up. *)


RomfsDone == {"init_page_map", "kmalloc_init", "talk", "run"}
DriverDone == {"romfs_init"} \cup RomfsDone
TimerDone == {"driver_init"} \cup DriverDone
IrqDone == {"timer_init"} \cup TimerDone
MmuDone == {"irq_init"} \cup IrqDone
MapsDone == {"start_mmu"} \cup MmuDone
RingDone == {"uart0_init", "disable_irq", "init_sys_mmu"} \cup MapsDone
BssDone == {"task_init"} \cup RingDone
KernelThere == {"clear_bss"} \cup BssDone
Steps == {"reset", "on_sdram", "vector_reset"} \cup KernelThere

Handlers == {Junk, None, "timer4_irq_handler"}

SysType ==
  /\ at \in Steps
  /\ sys \in [hdivn : BOOLEAN, async : BOOLEAN, sdram : BOOLEAN, stacks : BOOLEAN,
              ring : {Junk, Swapper},
              bss : [handler : [Sources -> Handlers], storage : {Junk, None, RamDiskDevice},
                     fs_type : {Junk, None, "romfs"}],
              maps : {{}, Maps}, mmu : BOOLEAN, irqOn : BOOLEAN, timer : BOOLEAN,
              device : {None, RamDiskDevice}]
  /\ pend \subseteq {Timer4}

\* The images: the read in progress, and what the reads before it have left.
CopyInv ==
  /\ at = "reset" => rd.at = "none"
  /\ at = "on_sdram" => rd.src = 0 /\ rd.dst = LoaderDst /\ rd.len = LoaderLen
  /\ at = "vector_reset" =>
       /\ rd.src = KernelFlash /\ rd.dst = 0 /\ rd.len = KernelLen
       /\ \A k \in 0..(LoaderLen - 1) : dram[LoaderDst + k] = k
  /\ at \in KernelThere =>
       /\ rd.at = "none"
       /\ \A k \in 0..(KernelLen - 1) : dram[k] = KernelFlash + k

\* What the kernel has set up.
SetUpInv ==
  /\ at \in KernelThere => sys.stacks
  /\ at \in RingDone => sys.ring = Swapper
  /\ at \in MapsDone => sys.maps = Maps
  /\ at \in MmuDone => sys.mmu
  /\ sys.mmu => at \in MmuDone
  /\ sys.irqOn => at \in TimerDone
  /\ sys.timer => at \in TimerDone

\* The variables of the kernel in .bss: None until their step, then what it put there.
BssInv ==
  /\ at \in BssDone =>
       /\ sys.bss.handler[Timer4] = IF at \in IrqDone THEN "timer4_irq_handler" ELSE None
       /\ sys.bss.storage = IF at \in DriverDone THEN RamDiskDevice ELSE None
       /\ sys.bss.fs_type = IF at \in RomfsDone THEN "romfs" ELSE None
  /\ at \in RomfsDone => sys.device = RamDiskDevice

SysInv == SysType /\ SetUpInv /\ BssInv
BootInv == NandInv /\ CopyInv /\ SysInv

-----------------------------------------------------------------------------
(* The order of start_kernel. *)

LEMMA AfterIs ==
  ASSUME NEW k \in 1..10
  PROVE  After(Order[k]) = Order[k + 1]
<1>1. DOMAIN Order = 1..11
  BY DEF Order
<1>2. \A i, j \in 1..11 : Order[i] = Order[j] => i = j
  BY DEF Order
<1>3. (CHOOSE i \in DOMAIN Order : Order[i] = Order[k]) = k
  BY <1>1, <1>2
<1>. QED
  BY <1>3 DEF After

LEMMA ComesNext ==
  /\ After("uart0_init") = "disable_irq" /\ After("disable_irq") = "init_sys_mmu"
  /\ After("init_sys_mmu") = "start_mmu" /\ After("start_mmu") = "irq_init"
  /\ After("irq_init") = "timer_init" /\ After("timer_init") = "driver_init"
  /\ After("driver_init") = "romfs_init" /\ After("romfs_init") = "init_page_map"
  /\ After("init_page_map") = "kmalloc_init" /\ After("kmalloc_init") = "talk"
<1>1. /\ After(Order[1]) = Order[2] /\ After(Order[2]) = Order[3]
      /\ After(Order[3]) = Order[4] /\ After(Order[4]) = Order[5]
      /\ After(Order[5]) = Order[6] /\ After(Order[6]) = Order[7]
      /\ After(Order[7]) = Order[8] /\ After(Order[8]) = Order[9]
      /\ After(Order[9]) = Order[10] /\ After(Order[10]) = Order[11]
  BY AfterIs
<1>2. /\ Order[1] = "uart0_init" /\ Order[2] = "disable_irq" /\ Order[3] = "init_sys_mmu"
      /\ Order[4] = "start_mmu" /\ Order[5] = "irq_init" /\ Order[6] = "timer_init"
      /\ Order[7] = "driver_init" /\ Order[8] = "romfs_init" /\ Order[9] = "init_page_map"
      /\ Order[10] = "kmalloc_init" /\ Order[11] = "talk"
  BY DEF Order
<1>. QED
  BY <1>1, <1>2

-----------------------------------------------------------------------------
(* The page table: its three ranges lie apart, so an address is in one at most. *)

LEMMA TranslateIn ==
  ASSUME sys.maps = Maps, NEW m \in Maps, NEW addr \in m.va..(m.va + m.n - 1)
  PROVE  Translate(addr) = m.pa + addr - m.va
<1>1. \A x \in Maps : addr \in x.va..(x.va + x.n - 1) => x = m
  BY DEF Maps, PlatMemStart, PlatMemSize
<1>2. {x \in sys.maps : addr \in x.va..(x.va + x.n - 1)} = {m}
  BY <1>1
<1>3. (CHOOSE x \in {m} : TRUE) = m
  OBVIOUS
<1>. QED
  BY <1>2, <1>3 DEF Translate

LEMMA MapsItself ==
  ASSUME sys.maps = Maps, NEW s \in 768..831 \cup 1152..1535
  PROVE  Translate(s) = s
<1>1. CASE s \in 768..831
  <2>. DEFINE m == [va |-> PlatMemStart, pa |-> PlatMemStart, n |-> PlatMemSize]
  <2>1. m \in Maps /\ s \in m.va..(m.va + m.n - 1) /\ m.pa + s - m.va = s
    BY <1>1 DEF Maps, PlatMemStart, PlatMemSize
  <2>. QED
    BY <2>1, TranslateIn
<1>2. CASE s \in 1152..1535
  <2>. DEFINE m == [va |-> 1152, pa |-> 1152, n |-> 384]
  <2>1. m \in Maps /\ s \in m.va..(m.va + m.n - 1) /\ m.pa + s - m.va = s
    BY <1>2 DEF Maps
  <2>. QED
    BY <2>1, TranslateIn
<1>. QED
  BY <1>1, <1>2

\* The vectors.
LEMMA MapsZero ==
  ASSUME sys.maps = Maps
  PROVE  Translate(0) = PlatMemStart
<1>. DEFINE m == [va |-> 0, pa |-> PlatMemStart, n |-> 1]
<1>1. m \in Maps /\ 0 \in m.va..(m.va + m.n - 1) /\ m.pa + 0 - m.va = PlatMemStart
  BY DEF Maps, PlatMemStart
<1>. QED
  BY <1>1, TranslateIn

-----------------------------------------------------------------------------
(* The copying. *)

\* Both images are in the flash and fit where they go.
LEMMA GoodCalls ==
  GoodCall(0, LoaderDst, LoaderLen) /\ GoodCall(KernelFlash, 0, KernelLen)
<1>1. Capacity \in Int
  BY NandAssumption DEF Capacity
<1>. QED
  BY <1>1, StartupAssumption DEF GoodCall, LoaderDst

\* Nothing of the flash's changes when nothing is being read.
LEMMA NoRead ==
  ASSUME NandInv, NandNext
  PROVE  rd.at # "none"
BY DEF NandInv, InStep, NandNext, Command, ChipReady, WaitReady, ReadByte, PageDone, Deselect

\* A step of a read leaves the call alone, and what lies outside its destination.
LEMMA ReadKeeps ==
  ASSUME NandInv, NandNext
  PROVE  /\ rd'.src = rd.src /\ rd'.dst = rd.dst /\ rd'.len = rd.len
         /\ \A a \in Memory : a \notin rd.dst..(rd.dst + rd.len - 1) => dram'[a] = dram[a]
<1>1. rd'.src = rd.src /\ rd'.dst = rd.dst /\ rd'.len = rd.len
  BY DEF NandInv, ReadType, NandNext, Command, ChipReady, WaitReady, ReadByte, PageDone,
         Deselect
<1>2. ASSUME NEW a \in Memory, a \notin rd.dst..(rd.dst + rd.len - 1)
      PROVE  dram'[a] = dram[a]
  <2>1. CASE ReadByte
    <3>1. rd.dst + rd.i \in rd.dst..(rd.dst + rd.len - 1)
      BY <2>1 DEF NandInv, ReadType, ReadByte
    <3>. QED
      BY <1>2, <2>1, <3>1 DEF NandInv, ReadType, ReadByte
  <2>2. CASE ~ReadByte
    BY <2>2 DEF NandNext, Command, ChipReady, WaitReady, PageDone, Deselect
  <2>. QED
    BY <2>1, <2>2
<1>. QED
  BY <1>1, <1>2

LEMMA CopyNandNext ==
  ASSUME NandInv, CopyInv, NandNext, UNCHANGED at
  PROVE  CopyInv'
<1>1. rd.at # "none"
  BY NoRead
<1>2. /\ rd'.src = rd.src /\ rd'.dst = rd.dst /\ rd'.len = rd.len
      /\ \A a \in Memory : a \notin rd.dst..(rd.dst + rd.len - 1) => dram'[a] = dram[a]
  BY ReadKeeps
<1>3. at \notin KernelThere /\ at # "reset"
  BY <1>1 DEF CopyInv
<1>4. ASSUME at = "vector_reset", NEW k \in 0..(LoaderLen - 1)
      PROVE  dram'[LoaderDst + k] = k
  <2>1. LoaderDst + k \in Memory /\ LoaderDst + k \notin 0..(KernelLen - 1)
    BY StartupAssumption DEF LoaderDst
  <2>. QED
    BY <1>2, <1>4, <2>1, StartupAssumption DEF CopyInv
<1>. QED
  BY <1>2, <1>3, <1>4 DEF CopyInv

-----------------------------------------------------------------------------
(* One lemma per step: the loader and init.S. *)

LEMMA InitInv ==
  ASSUME Init
  PROVE  BootInv
<1>1. NandInv
  BY NandInitInv DEF Init
<1>2. CopyInv
  BY DEF Init, NandInit, CopyInv, KernelThere, BssDone, RingDone, MapsDone, MmuDone, IrqDone,
         TimerDone, DriverDone, RomfsDone
<1>3. SysType
  BY DEF Init, SysType, Steps, BssOf, Handlers
<1>4. SetUpInv /\ BssInv
  BY DEF Init, SetUpInv, BssInv, KernelThere, BssDone, RingDone, MapsDone, MmuDone, IrqDone,
         TimerDone, DriverDone, RomfsDone
<1>. QED
  BY <1>1, <1>2, <1>3, <1>4 DEF BootInv, SysInv

LEMMA ResetInv ==
  ASSUME BootInv, Reset
  PROVE  BootInv'
<1>1. NandInv'
  BY GoodCalls, NandReadInv DEF BootInv, CopyInv, Reset
<1>2. CopyInv'
  BY DEF Reset, NandRead, CopyInv, KernelThere, BssDone, RingDone, MapsDone, MmuDone, IrqDone,
         TimerDone, DriverDone, RomfsDone
<1>3. SysType'
  BY DEF BootInv, SysInv, SysType, Reset, Steps
<1>4. SetUpInv' /\ BssInv'
  BY DEF BootInv, SysInv, SysType, SetUpInv, BssInv, Reset, KernelThere, BssDone, RingDone,
         MapsDone, MmuDone, IrqDone, TimerDone, DriverDone, RomfsDone
<1>. QED
  BY <1>1, <1>2, <1>3, <1>4 DEF BootInv, SysInv

\* The read of the loader is over, and its bytes are where the addresses say.
LEMMA OnSdramInv ==
  ASSUME BootInv, OnSdram
  PROVE  BootInv'
<1>1. NandInv'
  BY GoodCalls, NandReadInv DEF BootInv, OnSdram
<1>2. \A k \in 0..(LoaderLen - 1) : dram[LoaderDst + k] = k
  <2>1. NandExact
    BY NandInvExact DEF BootInv
  <2>. QED
    BY <2>1, StartupAssumption DEF NandExact, OnSdram, BootInv, CopyInv
<1>3. CopyInv'
  BY <1>2 DEF OnSdram, NandRead, CopyInv, KernelThere, BssDone, RingDone, MapsDone, MmuDone,
              IrqDone, TimerDone, DriverDone, RomfsDone
<1>4. SysType'
  BY DEF BootInv, SysInv, SysType, OnSdram, Steps
<1>5. SetUpInv' /\ BssInv'
  BY DEF BootInv, SysInv, SysType, SetUpInv, BssInv, OnSdram, KernelThere, BssDone, RingDone,
         MapsDone, MmuDone, IrqDone, TimerDone, DriverDone, RomfsDone
<1>. QED
  BY <1>1, <1>3, <1>4, <1>5 DEF BootInv, SysInv

LEMMA VectorResetInv ==
  ASSUME BootInv, VectorReset
  PROVE  BootInv'
<1>1. NandInv'
  BY NandStutterInv DEF BootInv, VectorReset
<1>2. \A k \in 0..(KernelLen - 1) : dram[k] = KernelFlash + k
  <2>1. NandExact
    BY NandInvExact DEF BootInv
  <2>. QED
    BY <2>1, StartupAssumption DEF NandExact, VectorReset, BootInv, CopyInv
<1>3. CopyInv'
  BY <1>2 DEF VectorReset, nandVars, CopyInv, KernelThere
<1>4. SysType'
  BY DEF BootInv, SysInv, SysType, VectorReset, Steps, KernelThere
<1>5. SetUpInv' /\ BssInv'
  BY DEF BootInv, SysInv, SysType, SetUpInv, BssInv, VectorReset, BssDone, RingDone,
         MapsDone, MmuDone, IrqDone, TimerDone, DriverDone, RomfsDone
<1>. QED
  BY <1>1, <1>3, <1>4, <1>5 DEF BootInv, SysInv

\* From here on the memory of the images is left alone.
LEMMA KernelStep ==
  ASSUME BootInv, at \in KernelThere, at' \in KernelThere, UNCHANGED nandVars
  PROVE  NandInv' /\ CopyInv'
<1>1. NandInv'
  BY NandStutterInv DEF BootInv
<1>2. CopyInv'
  BY DEF BootInv, CopyInv, nandVars, KernelThere, BssDone, RingDone, MapsDone, MmuDone,
         IrqDone, TimerDone, DriverDone, RomfsDone
<1>. QED
  BY <1>1, <1>2

LEMMA ClearBssInv ==
  ASSUME BootInv, ClearBss
  PROVE  BootInv'
<1>1. at \in KernelThere /\ at' \in KernelThere
  BY DEF ClearBss, KernelThere, BssDone
<1>2. SysType'
  BY <1>1 DEF BootInv, SysInv, SysType, ClearBss, Steps, BssOf, Handlers
<1>3. SetUpInv' /\ BssInv'
  BY StartupAssumption
     DEF BootInv, SysInv, SysType, SetUpInv, BssInv, ClearBss, BssOf,
         Sources, KernelThere, BssDone, RingDone, MapsDone, MmuDone, IrqDone, TimerDone,
         DriverDone, RomfsDone
<1>. QED
  BY <1>1, <1>2, <1>3, KernelStep DEF BootInv, SysInv, ClearBss

LEMMA TaskInitInv ==
  ASSUME BootInv, TaskInit
  PROVE  BootInv'
<1>1. at = "task_init" /\ at' = "uart0_init"
  BY DEF TaskInit, Order
<1>2. at \in KernelThere /\ at' \in KernelThere
  BY <1>1 DEF KernelThere, BssDone, RingDone
<1>3. SysType'
  BY <1>2 DEF BootInv, SysInv, SysType, TaskInit, Steps
<1>4. SetUpInv' /\ BssInv'
  BY <1>1 DEF BootInv, SysInv, SysType, SetUpInv, BssInv, TaskInit, KernelThere, BssDone,
         RingDone, MapsDone, MmuDone, IrqDone, TimerDone, DriverDone, RomfsDone
<1>. QED
  BY <1>2, <1>3, <1>4, KernelStep DEF BootInv, SysInv, TaskInit

-----------------------------------------------------------------------------
(* The steps of start_kernel. *)

\* A step of start_kernel leaves the images alone.
LEMMA DoesKeeps ==
  ASSUME BootInv, NEW step, NEW s, Does(step, s), step \in KernelThere,
         After(step) \in KernelThere
  PROVE  NandInv' /\ CopyInv'
BY KernelStep DEF Does

LEMMA Uart0InitInv ==
  ASSUME BootInv, Uart0Init
  PROVE  BootInv'
<1>1. at = "uart0_init" /\ at' = "disable_irq"
  BY ComesNext DEF Uart0Init, Does
<1>2. at \in KernelThere /\ at' \in KernelThere
  BY <1>1 DEF KernelThere, BssDone, RingDone,
         MapsDone, MmuDone, IrqDone, TimerDone, DriverDone, RomfsDone
<1>3. SysType'
  BY <1>2 DEF BootInv, SysInv, SysType, Uart0Init, Does, Steps
<1>4. SetUpInv' /\ BssInv'
  BY <1>1 DEF BootInv, SysInv, SysType, SetUpInv, BssInv, Uart0Init, Does,
         Sources, KernelThere, BssDone, RingDone, MapsDone, MmuDone, IrqDone, TimerDone,
         DriverDone, RomfsDone
<1>. QED
  BY <1>2, <1>3, <1>4, KernelStep DEF BootInv, SysInv, Uart0Init, Does

LEMMA DisableIrqInv ==
  ASSUME BootInv, DisableIrq
  PROVE  BootInv'
<1>1. at = "disable_irq" /\ at' = "init_sys_mmu"
  BY ComesNext DEF DisableIrq, Does
<1>2. at \in KernelThere /\ at' \in KernelThere
  BY <1>1 DEF KernelThere, BssDone, RingDone,
         MapsDone, MmuDone, IrqDone, TimerDone, DriverDone, RomfsDone
<1>3. SysType'
  BY <1>2 DEF BootInv, SysInv, SysType, DisableIrq, Does, Steps
<1>4. SetUpInv' /\ BssInv'
  BY <1>1 DEF BootInv, SysInv, SysType, SetUpInv, BssInv, DisableIrq, Does,
         Sources, KernelThere, BssDone, RingDone, MapsDone, MmuDone, IrqDone, TimerDone,
         DriverDone, RomfsDone
<1>. QED
  BY <1>2, <1>3, <1>4, KernelStep DEF BootInv, SysInv, DisableIrq, Does

LEMMA InitSysMmuInv ==
  ASSUME BootInv, InitSysMmu
  PROVE  BootInv'
<1>1. at = "init_sys_mmu" /\ at' = "start_mmu"
  BY ComesNext DEF InitSysMmu, Does
<1>2. at \in KernelThere /\ at' \in KernelThere
  BY <1>1 DEF KernelThere, BssDone, RingDone,
         MapsDone, MmuDone, IrqDone, TimerDone, DriverDone, RomfsDone
<1>3. SysType'
  BY <1>2 DEF BootInv, SysInv, SysType, InitSysMmu, Does, Steps
<1>4. SetUpInv' /\ BssInv'
  BY <1>1 DEF BootInv, SysInv, SysType, SetUpInv, BssInv, InitSysMmu, Does,
         Sources, KernelThere, BssDone, RingDone, MapsDone, MmuDone, IrqDone, TimerDone,
         DriverDone, RomfsDone
<1>. QED
  BY <1>2, <1>3, <1>4, KernelStep DEF BootInv, SysInv, InitSysMmu, Does

LEMMA StartMmuInv ==
  ASSUME BootInv, StartMmu
  PROVE  BootInv'
<1>1. at = "start_mmu" /\ at' = "irq_init"
  BY ComesNext DEF StartMmu, Does
<1>2. at \in KernelThere /\ at' \in KernelThere
  BY <1>1 DEF KernelThere, BssDone, RingDone,
         MapsDone, MmuDone, IrqDone, TimerDone, DriverDone, RomfsDone
<1>3. SysType'
  BY <1>2 DEF BootInv, SysInv, SysType, StartMmu, Does, Steps
<1>4. SetUpInv' /\ BssInv'
  BY <1>1 DEF BootInv, SysInv, SysType, SetUpInv, BssInv, StartMmu, Does,
         Sources, KernelThere, BssDone, RingDone, MapsDone, MmuDone, IrqDone, TimerDone,
         DriverDone, RomfsDone
<1>. QED
  BY <1>2, <1>3, <1>4, KernelStep DEF BootInv, SysInv, StartMmu, Does

LEMMA IrqInitInv ==
  ASSUME BootInv, IrqInit
  PROVE  BootInv'
<1>1. at = "irq_init" /\ at' = "timer_init"
  BY ComesNext DEF IrqInit, Does
<1>2. at \in KernelThere /\ at' \in KernelThere
  BY <1>1 DEF KernelThere, BssDone, RingDone,
         MapsDone, MmuDone, IrqDone, TimerDone, DriverDone, RomfsDone
<1>3. SysType'
  BY <1>2 DEF BootInv, SysInv, SysType, IrqInit, Does, Steps, Handlers, Sources
<1>4. SetUpInv' /\ BssInv'
  BY <1>1 DEF BootInv, SysInv, SysType, SetUpInv, BssInv, IrqInit, Does,
         Sources, KernelThere, BssDone, RingDone, MapsDone, MmuDone, IrqDone, TimerDone,
         DriverDone, RomfsDone
<1>. QED
  BY <1>2, <1>3, <1>4, KernelStep DEF BootInv, SysInv, IrqInit, Does

LEMMA TimerInitInv ==
  ASSUME BootInv, TimerInit
  PROVE  BootInv'
<1>1. at = "timer_init" /\ at' = "driver_init"
  BY ComesNext DEF TimerInit, Does
<1>2. at \in KernelThere /\ at' \in KernelThere
  BY <1>1 DEF KernelThere, BssDone, RingDone,
         MapsDone, MmuDone, IrqDone, TimerDone, DriverDone, RomfsDone
<1>3. SysType'
  BY <1>2 DEF BootInv, SysInv, SysType, TimerInit, Does, Steps
<1>4. SetUpInv' /\ BssInv'
  BY <1>1 DEF BootInv, SysInv, SysType, SetUpInv, BssInv, TimerInit, Does,
         Sources, KernelThere, BssDone, RingDone, MapsDone, MmuDone, IrqDone, TimerDone,
         DriverDone, RomfsDone
<1>. QED
  BY <1>2, <1>3, <1>4, KernelStep DEF BootInv, SysInv, TimerInit, Does

LEMMA DriverInitInv ==
  ASSUME BootInv, DriverInit
  PROVE  BootInv'
<1>1. at = "driver_init" /\ at' = "romfs_init"
  BY ComesNext DEF DriverInit, Does
<1>2. at \in KernelThere /\ at' \in KernelThere
  BY <1>1 DEF KernelThere, BssDone, RingDone,
         MapsDone, MmuDone, IrqDone, TimerDone, DriverDone, RomfsDone
<1>3. SysType'
  BY <1>2 DEF BootInv, SysInv, SysType, DriverInit, Does, Steps
<1>4. SetUpInv' /\ BssInv'
  BY <1>1 DEF BootInv, SysInv, SysType, SetUpInv, BssInv, DriverInit, Does,
         Sources, KernelThere, BssDone, RingDone, MapsDone, MmuDone, IrqDone, TimerDone,
         DriverDone, RomfsDone
<1>. QED
  BY <1>2, <1>3, <1>4, KernelStep DEF BootInv, SysInv, DriverInit, Does

LEMMA RomfsInitInv ==
  ASSUME BootInv, RomfsInit
  PROVE  BootInv'
<1>1. at = "romfs_init" /\ at' = "init_page_map"
  BY ComesNext DEF RomfsInit, Does
<1>2. at \in KernelThere /\ at' \in KernelThere
  BY <1>1 DEF KernelThere, BssDone, RingDone,
         MapsDone, MmuDone, IrqDone, TimerDone, DriverDone, RomfsDone
<1>3. sys.bss.fs_type = None /\ sys.bss.storage = RamDiskDevice
  BY <1>1 DEF BootInv, SysInv, BssInv, KernelThere, BssDone, RingDone,
         MapsDone, MmuDone, IrqDone, TimerDone, DriverDone, RomfsDone
<1>4. sys' = [[sys EXCEPT !.bss.fs_type = "romfs"] EXCEPT !.device = RamDiskDevice]
      /\ pend' = pend
  BY <1>3 DEF RomfsInit, Does
<1>5. SysType'
  BY <1>2, <1>4 DEF BootInv, SysInv, SysType, Steps
<1>6. /\ sys'.bss.handler = sys.bss.handler /\ sys'.bss.storage = sys.bss.storage
      /\ sys'.bss.fs_type = "romfs" /\ sys'.device = RamDiskDevice
      /\ sys'.stacks = sys.stacks /\ sys'.ring = sys.ring /\ sys'.maps = sys.maps
      /\ sys'.mmu = sys.mmu /\ sys'.irqOn = sys.irqOn /\ sys'.timer = sys.timer
  BY <1>4 DEF BootInv, SysInv, SysType
<1>7. SetUpInv' /\ BssInv'
  BY <1>1, <1>3, <1>6 DEF BootInv, SysInv, SetUpInv, BssInv, KernelThere, BssDone, RingDone,
         MapsDone, MmuDone, IrqDone, TimerDone, DriverDone, RomfsDone
<1>. QED
  BY <1>2, <1>5, <1>7, KernelStep DEF BootInv, SysInv, RomfsInit, Does

LEMMA AllocatorsInv ==
  ASSUME BootInv, InitPageMap \/ KmallocInit
  PROVE  BootInv'
<1>1. \/ at = "init_page_map" /\ at' = "kmalloc_init"
      \/ at = "kmalloc_init" /\ at' = "talk"
  BY ComesNext DEF InitPageMap, KmallocInit, Does
<1>2. at \in KernelThere /\ at' \in KernelThere /\ UNCHANGED sys /\ UNCHANGED pend
  BY <1>1 DEF InitPageMap, KmallocInit, Does, KernelThere, BssDone, RingDone,
         MapsDone, MmuDone, IrqDone, TimerDone, DriverDone, RomfsDone
<1>3. SysType'
  BY <1>2 DEF BootInv, SysInv, SysType, Steps
<1>4. SetUpInv' /\ BssInv'
  BY <1>1, <1>2 DEF BootInv, SysInv, SetUpInv, BssInv, KernelThere, BssDone, RingDone,
         MapsDone, MmuDone, IrqDone, TimerDone, DriverDone, RomfsDone
<1>. QED
  BY <1>2, <1>3, <1>4, KernelStep DEF BootInv, SysInv, InitPageMap, KmallocInit, Does

LEMMA CreateCacheInv ==
  ASSUME BootInv, CreateCache
  PROVE  BootInv'
<1>1. at \in KernelThere /\ UNCHANGED <<at, sys, pend>>
  BY DEF CreateCache, KernelThere, BssDone, RingDone,
         MapsDone, MmuDone, IrqDone, TimerDone, DriverDone, RomfsDone
<1>2. SysType' /\ SetUpInv' /\ BssInv'
  BY <1>1 DEF BootInv, SysInv, SysType, SetUpInv, BssInv
<1>. QED
  BY <1>1, <1>2, KernelStep DEF BootInv, SysInv, CreateCache

LEMMA TalkStepInv ==
  ASSUME BootInv, TalkStep
  PROVE  BootInv'
<1>1. at = "talk" /\ at' = "run" /\ UNCHANGED sys /\ UNCHANGED pend
  BY DEF TalkStep
<1>2. at \in KernelThere /\ at' \in KernelThere
  BY <1>1 DEF KernelThere, BssDone, RingDone,
         MapsDone, MmuDone, IrqDone, TimerDone, DriverDone, RomfsDone
<1>3. SysType'
  BY <1>1, <1>2 DEF BootInv, SysInv, SysType, Steps
<1>4. SetUpInv' /\ BssInv'
  BY <1>1 DEF BootInv, SysInv, SetUpInv, BssInv, KernelThere, BssDone, RingDone,
         MapsDone, MmuDone, IrqDone, TimerDone, DriverDone, RomfsDone
<1>. QED
  BY <1>2, <1>3, <1>4, KernelStep DEF BootInv, SysInv, TalkStep

-----------------------------------------------------------------------------
(* Steps of the timer, of a read and of the console, and the theorems. *)

LEMMA SysStutter ==
  ASSUME SysInv, UNCHANGED <<at, sys>>, pend' \subseteq {Timer4}
  PROVE  SysInv'
BY DEF SysInv, SysType, SetUpInv, BssInv

LEMMA CopyStutter ==
  ASSUME CopyInv, UNCHANGED <<at, nandVars>>
  PROVE  CopyInv'
BY DEF CopyInv, nandVars

LEMMA BootInvInductive ==
  ASSUME BootInv, [Next]_vars
  PROVE  BootInv'
<1>1. CASE Boot
  BY <1>1, ResetInv, OnSdramInv, VectorResetInv, ClearBssInv, TaskInitInv, Uart0InitInv,
     DisableIrqInv, InitSysMmuInv, StartMmuInv, IrqInitInv, TimerInitInv, DriverInitInv,
     RomfsInitInv, AllocatorsInv, CreateCacheInv, TalkStepInv
     DEF Boot, KernelNext
<1>2. CASE Tick
  <2>1. pend' \subseteq {Timer4} /\ UNCHANGED <<at, sys, nandVars>>
    BY <1>2 DEF Tick, BootInv, SysInv, SysType
  <2>. QED
    BY <2>1, SysStutter, CopyStutter, NandStutterInv DEF BootInv
<1>3. CASE TakeIrq
  <2>1. pend' \subseteq {Timer4} /\ UNCHANGED <<at, sys, nandVars>>
    BY <1>3 DEF TakeIrq
  <2>. QED
    BY <2>1, SysStutter, CopyStutter, NandStutterInv DEF BootInv
<1>4. CASE NandNext /\ UNCHANGED <<sysVars, consoleVars>>
  <2>1. pend' \subseteq {Timer4} /\ UNCHANGED <<at, sys>>
    BY <1>4 DEF sysVars, BootInv, SysInv, SysType
  <2>. QED
    BY <1>4, <2>1, SysStutter, CopyNandNext, NandNextInv DEF BootInv
<1>5. CASE (ConsoleNext /\ UNCHANGED <<sysVars, nandVars>>) \/ UNCHANGED vars
  <2>1. pend' \subseteq {Timer4} /\ UNCHANGED <<at, sys, nandVars>>
    BY <1>5 DEF vars, sysVars, BootInv, SysInv, SysType
  <2>. QED
    BY <2>1, SysStutter, CopyStutter, NandStutterInv DEF BootInv
<1>. QED
  BY <1>1, <1>2, <1>3, <1>4, <1>5 DEF Next

LEMMA AlwaysBootInv == Spec => []BootInv
<1>1. Init => BootInv
  BY InitInv
<1>2. BootInv /\ [Next]_vars => BootInv'
  BY BootInvInductive
<1>. QED
  BY <1>1, <1>2, PTL DEF Spec

\* Every read of the flash is exact, whatever the sizes and wherever it begins.
THEOREM ReadsExact == Spec => []NandExact
<1>1. BootInv => NandExact
  BY NandInvExact DEF BootInv
<1>. QED
  BY <1>1, AlwaysBootInv, PTL

\* The loader that copies the kernel, and the kernel, run from whole images.
THEOREM WholeImages == Spec => []ImagesWhole
<1>1. BootInv => ImagesWhole
  BY DEF BootInv, CopyInv, SysInv, SysType, ImagesWhole, Steps
<1>. QED
  BY <1>1, AlwaysBootInv, PTL

\* No interrupt is taken before everything it uses is there.
THEOREM SafeInterrupts == Spec => []InterruptSafe
<1>1. BootInv => InterruptSafe
  <2>. SUFFICES ASSUME BootInv, sys.irqOn, pend \ masked # {}
                PROVE  /\ sys.mmu /\ Translate(0) = PlatMemStart
                       /\ sys.stacks
                       /\ \A s \in pend \ masked : sys.bss.handler[s] \notin {Junk, None}
                       /\ sys.ring = Swapper
    BY DEF InterruptSafe
  <2>1. at \in TimerDone /\ at \in IrqDone /\ at \in MmuDone /\ at \in MapsDone
        /\ at \in RingDone /\ at \in BssDone /\ at \in KernelThere
    BY DEF BootInv, SysInv, SetUpInv, KernelThere, BssDone, RingDone,
         MapsDone, MmuDone, IrqDone, TimerDone, DriverDone, RomfsDone
  <2>2. sys.mmu /\ sys.stacks /\ sys.ring = Swapper /\ sys.maps = Maps
    BY <2>1 DEF BootInv, SysInv, SetUpInv
  <2>3. Translate(0) = PlatMemStart
    BY <2>2, MapsZero
  <2>4. sys.bss.handler[Timer4] = "timer4_irq_handler"
    BY <2>1 DEF BootInv, SysInv, BssInv
  <2>5. \A s \in pend \ masked : s = Timer4
    BY DEF BootInv, SysInv, SysType
  <2>. QED
    BY <2>2, <2>3, <2>4, <2>5, StartupAssumption
<1>. QED
  BY <1>1, AlwaysBootInv, PTL

\* What the kernel touches is mapped to itself.
THEOREM MemoryMapped == Spec => []AllMapped
<1>1. BootInv => AllMapped
  <2>. SUFFICES ASSUME BootInv, sys.mmu, NEW s \in Touched
                PROVE  Translate(s) = s
    BY DEF AllMapped
  <2>1. sys.maps = Maps
    BY DEF BootInv, SysInv, SetUpInv, KernelThere, BssDone, RingDone,
         MapsDone, MmuDone, IrqDone, TimerDone, DriverDone, RomfsDone
  <2>2. s \in 768..831 \cup 1152..1535
    BY DEF Touched, PlatMemStart, KernelImgMaxSize, SvcStack, PlatMemSize, Uart, TimerRegs,
           IntCtl, HeapStart, HeapEnd, RamDiskStart, PageTableBase, SysStack, IrqStack,
           PageTableSize
  <2>. QED
    BY <2>1, <2>2, MapsItself
<1>. QED
  BY <1>1, AlwaysBootInv, PTL

\* The file system is left with the RAM disk, in the room the memory map has for it.
THEOREM DiskInPlace == Spec => []DiskThere
<1>1. BootInv => DiskThere
  BY DEF BootInv, SysInv, BssInv, DiskThere, RamDiskDevice, HeapEnd, RamDiskStart,
         PageTableBase, PageTableSize, SysStack, IrqStack, SvcStack, PlatMemStart, PlatMemSize,
         KernelThere, BssDone, RingDone,
         MapsDone, MmuDone, IrqDone, TimerDone, DriverDone, RomfsDone
<1>. QED
  BY <1>1, AlwaysBootInv, PTL

-----------------------------------------------------------------------------
(* The console: nothing is printed before start_kernel comes to its messages, *)
(* and the boot leaves the console alone until then.                          *)

TalkInv ==
  /\ ConsoleInv
  /\ at # "run" => Quiet
  /\ masked \subseteq Sources

\* A step of the boot before the messages.
LEMMA SilentStep ==
  ASSUME BootInv, Boot
  PROVE  \/ TalkStep
         \/ /\ at # "run" /\ at' # "run"
            /\ UNCHANGED consoleVars /\ masked' \subseteq masked
<1>1. ASSUME Reset \/ OnSdram \/ VectorReset \/ ClearBss \/ TaskInit
      PROVE  /\ at # "run" /\ at' # "run"
             /\ UNCHANGED consoleVars /\ masked' \subseteq masked
  BY <1>1 DEF Reset, OnSdram, VectorReset, ClearBss, TaskInit, Order
<1>2. ASSUME Uart0Init \/ DisableIrq \/ InitSysMmu \/ StartMmu \/ IrqInit \/ TimerInit
      PROVE  /\ at # "run" /\ at' # "run"
             /\ UNCHANGED consoleVars /\ masked' \subseteq masked
  BY <1>2, ComesNext
     DEF Uart0Init, DisableIrq, InitSysMmu, StartMmu, IrqInit, TimerInit, Does
<1>3. ASSUME DriverInit \/ RomfsInit \/ InitPageMap \/ KmallocInit \/ CreateCache
      PROVE  /\ at # "run" /\ at' # "run"
             /\ UNCHANGED consoleVars /\ masked' \subseteq masked
  BY <1>3, ComesNext
     DEF DriverInit, RomfsInit, InitPageMap, KmallocInit, CreateCache, Does
<1>. QED
  BY <1>1, <1>2, <1>3 DEF Boot, KernelNext

LEMMA TalkInvInductive ==
  ASSUME BootInv, TalkInv, [Next]_vars
  PROVE  TalkInv'
<1>1. CASE Boot
  <2>1. CASE TalkStep
    <3>1. Quiet /\ Talk /\ at' = "run" /\ masked' = masked
      BY <2>1 DEF TalkInv, TalkStep
    <3>. QED
      BY <3>1, TalkKeeps DEF TalkInv
  <2>2. CASE /\ at # "run" /\ at' # "run"
             /\ UNCHANGED consoleVars /\ masked' \subseteq masked
    BY <2>2, ConsoleStays DEF TalkInv
  <2>. QED
    BY <1>1, <2>1, <2>2, SilentStep
<1>2. CASE Tick \/ TakeIrq \/ (NandNext /\ UNCHANGED <<sysVars, consoleVars>>) \/ UNCHANGED vars
  <2>1. UNCHANGED <<at, masked, consoleVars>>
    BY <1>2 DEF Tick, TakeIrq, sysVars, vars
  <2>. QED
    BY <2>1, ConsoleStays DEF TalkInv
<1>3. CASE ConsoleNext /\ UNCHANGED <<sysVars, nandVars>>
  <2>1. UNCHANGED <<at, masked>> /\ at = "run"
    BY <1>3, QuietStays DEF TalkInv, sysVars
  <2>. QED
    BY <1>3, <2>1, ConsoleKeeps DEF TalkInv
<1>. QED
  BY <1>1, <1>2, <1>3 DEF Next

LEMMA AlwaysTalkInv == Spec => []TalkInv
<1>1. Init => TalkInv
  BY ConsoleStarts DEF Init, TalkInv
<1>2. BootInv /\ TalkInv /\ [Next]_vars => TalkInv'
  BY TalkInvInductive
<1>. QED
  BY <1>1, <1>2, AlwaysBootInv, PTL DEF Spec

\* The steps, the call of nand_read, the interrupts and the console are always in
\* states the code has; print_buf keeps its size, what is behind it included.
THEOREM TypesHold == Spec => []TypeOK
<1>1. BootInv /\ TalkInv => TypeOK
  <2>. SUFFICES ASSUME BootInv, TalkInv
                PROVE  TypeOK
    OBVIOUS
  <2>1. ConsoleTypeOK
    BY ConsoleTypes DEF TalkInv
  <2>2. rd.at \in {"none", "command", "ready", "data"} /\ rd.i \in 0..rd.len
        /\ Len(chip.cycles) \in {0, 5}
    BY DEF BootInv, NandInv, ReadType, Progress
  <2>3. at \in {"reset", "on_sdram", "vector_reset", "clear_bss", "task_init", "run"}
               \cup {Order[i] : i \in DOMAIN Order}
    <3>1. DOMAIN Order = 1..11
      BY DEF Order
    <3>2. /\ Order[1] = "uart0_init" /\ Order[2] = "disable_irq" /\ Order[3] = "init_sys_mmu"
          /\ Order[4] = "start_mmu" /\ Order[5] = "irq_init" /\ Order[6] = "timer_init"
          /\ Order[7] = "driver_init" /\ Order[8] = "romfs_init" /\ Order[9] = "init_page_map"
          /\ Order[10] = "kmalloc_init" /\ Order[11] = "talk"
      BY DEF Order
    <3>3. {"uart0_init", "disable_irq", "init_sys_mmu", "start_mmu", "irq_init", "timer_init",
           "driver_init", "romfs_init", "init_page_map", "kmalloc_init", "talk"}
             \subseteq {Order[i] : i \in DOMAIN Order}
      BY <3>1, <3>2
    <3>4. at \in Steps
      BY DEF BootInv, SysInv, SysType
    <3>. QED
      BY <3>3, <3>4 DEF Steps, KernelThere, BssDone, RingDone, MapsDone, MmuDone, IrqDone,
                        TimerDone, DriverDone, RomfsDone
  <2>4. pend \subseteq Sources /\ masked \subseteq Sources
    BY DEF BootInv, SysInv, SysType, TalkInv, Sources
  <2>. QED
    BY <2>1, <2>2, <2>3, <2>4 DEF TypeOK
<1>. QED
  BY <1>1, AlwaysBootInv, AlwaysTalkInv, PTL

\* What number() writes reads as the number it was given, in every base and for ints
\* of every width, the most negative one included, and fits where vsnprintf has room.
THEOREM NumbersRight == Spec => []NumberRight
<1>1. TalkInv => NumberRight
  BY NumbersRead
<1>. QED
  BY <1>1, AlwaysTalkInv, PTL

\* vsnprintf puts the text of every call into print_buf, whatever its size.
THEOREM TextsPrinted == Spec => []PrintedRight
<1>1. TalkInv => PrintedRight
  BY PrintsRight DEF TalkInv
<1>. QED
  BY <1>1, AlwaysTalkInv, PTL

\* Every task's text goes over the line, in order and whole, for any number of
\* programs and any texts, as long as no two are in putc at the same time.
THEOREM AllOnScreen == Spec => []ScreenRight
<1>1. TalkInv => ScreenRight
  BY ScreenIsRight DEF TalkInv
<1>. QED
  BY <1>1, AlwaysTalkInv, PTL

-----------------------------------------------------------------------------
(* The heap: its pages, the slabs cut out of it, and that they suffice. *)

\* 2^o.
PowerOf2(o) == IF o = 0 THEN 1 ELSE IF o = 1 THEN 2 ELSE IF o = 2 THEN 4
            ELSE IF o = 3 THEN 8 ELSE IF o = 4 THEN 16 ELSE IF o = 5 THEN 32
            ELSE IF o = 6 THEN 64 ELSE IF o = 7 THEN 128 ELSE 256

LEMMA PowersOfTwo == \A o \in Orders : 2^o = PowerOf2(o)
<1>1. SUFFICES ASSUME NEW o \in Orders PROVE 2^o = PowerOf2(o)
  OBVIOUS
<1>2. o \in 0..8
  BY DEF Orders, BuddyMaxOrder
<1>3. CASE o = 0 BY <1>3 DEF PowerOf2
<1>4. CASE o = 1 BY <1>4 DEF PowerOf2
<1>5. CASE o = 2 BY <1>5 DEF PowerOf2
<1>6. CASE o = 3 BY <1>6 DEF PowerOf2
<1>7. CASE o = 4 BY <1>7 DEF PowerOf2
<1>8. CASE o = 5 BY <1>8 DEF PowerOf2
<1>9. CASE o = 6 BY <1>9 DEF PowerOf2
<1>10. CASE o = 7 BY <1>10 DEF PowerOf2
<1>11. CASE o = 8 BY <1>11 DEF PowerOf2
<1>. QED
  BY <1>2, <1>3, <1>4, <1>5, <1>6, <1>7, <1>8, <1>9, <1>10, <1>11

Total(b) == b[0] + 2 * b[1] + 4 * b[2] + 8 * b[3] + 16 * b[4] + 32 * b[5] + 64 * b[6]
              + 128 * b[7] + 256 * b[8]

\* The recursion of PagesIn, unfolded.
LEMMA PagesAre ==
  ASSUME NEW b \in [Orders -> Nat]
  PROVE  PagesIn(b) = Total(b)
<1>. DEFINE g == [o \in Orders |->
                   b[0] + (IF o >= 1 THEN 2 * b[1] ELSE 0) + (IF o >= 2 THEN 4 * b[2] ELSE 0)
                        + (IF o >= 3 THEN 8 * b[3] ELSE 0) + (IF o >= 4 THEN 16 * b[4] ELSE 0)
                        + (IF o >= 5 THEN 32 * b[5] ELSE 0) + (IF o >= 6 THEN 64 * b[6] ELSE 0)
                        + (IF o >= 7 THEN 128 * b[7] ELSE 0) + (IF o >= 8 THEN 256 * b[8] ELSE 0)]
            F(s) == [o \in Orders |-> b[o] * 2^o + (IF o = 0 THEN 0 ELSE s[o - 1])]
            sum == CHOOSE s : s = F(s)
<1>0. Orders = 0..8 /\ 0 \in Orders
  BY DEF Orders, BuddyMaxOrder
<1>b. b[0] \in Nat /\ b[1] \in Nat /\ b[2] \in Nat /\ b[3] \in Nat /\ b[4] \in Nat
      /\ b[5] \in Nat /\ b[6] \in Nat /\ b[7] \in Nat /\ b[8] \in Nat
  BY <1>0
<1>1. ASSUME NEW o \in Orders
      PROVE  g[o] = b[o] * 2^o + (IF o = 0 THEN 0 ELSE g[o - 1])
  <2>1. 2^o = PowerOf2(o)
    BY PowersOfTwo
  <2>2. g[o] = b[o] * PowerOf2(o) + (IF o = 0 THEN 0 ELSE g[o - 1])
    <3>1. CASE o = 0 BY <1>0, <1>b, <3>1 DEF PowerOf2
    <3>2. CASE o = 1 BY <1>0, <1>b, <3>2 DEF PowerOf2
    <3>3. CASE o = 2 BY <1>0, <1>b, <3>3 DEF PowerOf2
    <3>4. CASE o = 3 BY <1>0, <1>b, <3>4 DEF PowerOf2
    <3>5. CASE o = 4 BY <1>0, <1>b, <3>5 DEF PowerOf2
    <3>6. CASE o = 5 BY <1>0, <1>b, <3>6 DEF PowerOf2
    <3>7. CASE o = 6 BY <1>0, <1>b, <3>7 DEF PowerOf2
    <3>8. CASE o = 7 BY <1>0, <1>b, <3>8 DEF PowerOf2
    <3>9. CASE o = 8 BY <1>0, <1>b, <3>9 DEF PowerOf2
    <3>. QED
      BY <1>0, <3>1, <3>2, <3>3, <3>4, <3>5, <3>6, <3>7, <3>8, <3>9
  <2>. HIDE DEF g
  <2>. QED
    BY <2>1, <2>2
<1>2. g = F(g)
  <2>1. g = [o \in Orders |-> g[o]]
    OBVIOUS
  <2>. HIDE DEF g
  <2>. QED
    BY <1>1, <2>1, Zenon
<1>3. sum = F(sum)
  BY <1>2, Zenon
<1>. HIDE DEF g, sum
<1>4. \A o \in Orders : sum[o] = b[o] * 2^o + (IF o = 0 THEN 0 ELSE sum[o - 1])
  <2>1. SUFFICES ASSUME NEW o \in Orders
                 PROVE  sum[o] = b[o] * 2^o + (IF o = 0 THEN 0 ELSE sum[o - 1])
    OBVIOUS
  <2>2. sum[o] = F(sum)[o]
    BY <1>3
  <2>. QED
    BY <2>2
<1>5. \A o \in Orders : sum[o] = b[o] * PowerOf2(o) + (IF o = 0 THEN 0 ELSE sum[o - 1])
  BY <1>4, PowersOfTwo, Zenon
<1>6. /\ sum[0] = b[0] * PowerOf2(0) + 0
      /\ sum[1] = b[1] * PowerOf2(1) + sum[0] /\ sum[2] = b[2] * PowerOf2(2) + sum[1]
      /\ sum[3] = b[3] * PowerOf2(3) + sum[2] /\ sum[4] = b[4] * PowerOf2(4) + sum[3]
      /\ sum[5] = b[5] * PowerOf2(5) + sum[4] /\ sum[6] = b[6] * PowerOf2(6) + sum[5]
      /\ sum[7] = b[7] * PowerOf2(7) + sum[6] /\ sum[8] = b[8] * PowerOf2(8) + sum[7]
  BY <1>0, <1>5
<1>7. sum[8] = Total(b)
  BY <1>6, <1>b DEF Total, PowerOf2
<1>8. PagesIn(b) = sum[8]
  BY DEF PagesIn, sum, BuddyMaxOrder
<1>. QED
  BY <1>7, <1>8

\* The order find_right_order gives the slabs of kmalloc's i-th cache.
OrderFor(i) == IF i <= 12 THEN 0 ELSE IF i <= 25 THEN 1 ELSE IF i <= 51 THEN 2
               ELSE IF i <= 102 THEN 3 ELSE IF i <= 205 THEN 4 ELSE 5

LEMMA SlabOrders == \A i \in 1..256 : SlabOrder(i) = OrderFor(i)
<1>1. SUFFICES ASSUME NEW i \in 1..256 PROVE SlabOrder(i) = OrderFor(i)
  OBVIOUS
<1>. DEFINE fits == {o \in 0..5 : i * 32 <= 410 * 2^o}
<1>2. KmemCacheMaxWast = 410
  BY DEF KmemCacheMaxWast, PageSize
<1>3. \A o \in 0..5 : (i * 32 <= 410 * 2^o) <=> (o >= OrderFor(i))
  <2>1. SUFFICES ASSUME NEW o \in 0..5
                 PROVE  (i * 32 <= 410 * PowerOf2(o)) <=> (o >= OrderFor(i))
    <3>1. ASSUME NEW o \in 0..5 PROVE 2^o = PowerOf2(o)
      <4>1. o \in Orders
        BY DEF Orders, BuddyMaxOrder
      <4>. QED
        BY <4>1, PowersOfTwo, Zenon
    <3>. QED
      BY <3>1, <2>1, Zenon
  <2>. QED
    BY DEF PowerOf2, OrderFor
<1>4. OrderFor(i) \in 0..5
  BY DEF OrderFor
<1>5. fits = OrderFor(i)..5
  <2>1. fits = {o \in 0..5 : o >= OrderFor(i)}
    BY <1>3, Zenon
  <2>. HIDE DEF fits
  <2>. QED
    BY <1>4, <2>1
<1>. HIDE DEF fits
<1>6. OrderFor(i) \in fits /\ \A p \in fits : OrderFor(i) <= p
  BY <1>4, <1>5
<1>7. \A o \in fits : (\A p \in fits : o <= p) => o = OrderFor(i)
  BY <1>4, <1>5
<1>8. (CHOOSE o \in fits : \A p \in fits : o <= p) = OrderFor(i)
  BY <1>6, <1>7
<1>9. SlabOrder(i) = IF fits # {} THEN CHOOSE o \in fits : \A p \in fits : o <= p
                     ELSE IF i * 32 > 2^(5 + 1) THEN NoOrder ELSE 5 + 1
  BY <1>2 DEF fits, SlabOrder, FindRightOrder, KmallocBias, KmemCacheMaxOrder
<1>. QED
  BY <1>6, <1>8, <1>9

\* The slabs of the first n caches, by order.
Slabs(n) == [o \in Orders |-> Cardinality({i \in 1..n : SlabOrder(i) = o})]

LEMMA SlabsAre ==
  ASSUME NEW n \in Nat
  PROVE  Slabs(n) \in [Orders -> Nat]
<1>1. ASSUME NEW o \in Orders
      PROVE  Cardinality({i \in 1..n : SlabOrder(i) = o}) \in Nat
  <2>1. IsFiniteSet(1..n)
    BY FS_Interval
  <2>2. IsFiniteSet({i \in 1..n : SlabOrder(i) = o})
    BY <2>1, FS_Subset
  <2>. QED
    BY <2>2, FS_CardinalityType
<1>. QED
  BY <1>1 DEF Slabs

\* One cache more is one slab of its order more.
LEMMA OneSlabMore ==
  ASSUME NEW n \in 0..255
  PROVE  /\ SlabOrder(n + 1) \in Orders
         /\ \A o \in Orders :
              Slabs(n + 1)[o] = Slabs(n)[o] + (IF o = OrderFor(n + 1) THEN 1 ELSE 0)
<1>. DEFINE C(m, o) == {i \in 1..m : SlabOrder(i) = o}
<1>1. n + 1 \in 1..256
  OBVIOUS
<1>2. SlabOrder(n + 1) = OrderFor(n + 1)
  BY <1>1, SlabOrders, Zenon
<1>3. SlabOrder(n + 1) \in Orders
  BY <1>2 DEF OrderFor, Orders, BuddyMaxOrder
<1>4. ASSUME NEW o \in Orders
      PROVE  Slabs(n + 1)[o] = Slabs(n)[o] + (IF o = OrderFor(n + 1) THEN 1 ELSE 0)
  <2>1. IsFiniteSet(C(n, o))
    <3>1. IsFiniteSet(1..n)
      BY FS_Interval
    <3>. QED
      BY <3>1, FS_Subset
  <2>2. 1..(n + 1) = (1..n) \cup {n + 1} /\ n + 1 \notin 1..n
    OBVIOUS
  <2>3. CASE o = OrderFor(n + 1)
    <3>1. C(n + 1, o) = C(n, o) \cup {n + 1} /\ n + 1 \notin C(n, o)
      BY <1>2, <2>2, <2>3
    <3>2. Cardinality(C(n + 1, o)) = Cardinality(C(n, o)) + 1
      <4>. HIDE DEF C
      <4>. QED
        BY <2>1, <3>1, FS_AddElement
    <3>. QED
      BY <2>3, <3>2 DEF Slabs
  <2>4. CASE o # OrderFor(n + 1)
    <3>1. C(n + 1, o) = C(n, o)
      BY <1>2, <2>2, <2>4
    <3>2. Slabs(n)[o] \in Nat
      BY SlabsAre
    <3>. QED
      BY <2>4, <3>1, <3>2 DEF Slabs
  <2>. QED
    BY <2>3, <2>4
<1>. QED
  BY <1>3, <1>4

LEMMA SlabPagesGrow ==
  ASSUME NEW n \in 0..255
  PROVE  /\ SlabPages(n) \in Nat
         /\ SlabPages(n + 1) = SlabPages(n) + PowerOf2(OrderFor(n + 1))
<1>1. Slabs(n) \in [Orders -> Nat] /\ Slabs(n + 1) \in [Orders -> Nat]
  BY SlabsAre
<1>2. SlabPages(n) = Total(Slabs(n)) /\ SlabPages(n + 1) = Total(Slabs(n + 1))
  BY <1>1, PagesAre DEF SlabPages, Slabs
<1>. DEFINE b == Slabs(n)
            c == Slabs(n + 1)
            k == OrderFor(n + 1)
<1>3. \A o \in Orders : c[o] = b[o] + (IF o = k THEN 1 ELSE 0)
  BY OneSlabMore
<1>4. k \in 0..5
  BY DEF OrderFor
<1>5. Orders = 0..8
  BY DEF Orders, BuddyMaxOrder
<1>. HIDE DEF b, c, k
<1>6. b \in [0..8 -> Nat]
  BY <1>1, <1>5 DEF b
<1>7. Total(b) \in Nat
  BY <1>6 DEF Total
<1>8. /\ c[0] = b[0] + (IF 0 = k THEN 1 ELSE 0) /\ c[1] = b[1] + (IF 1 = k THEN 1 ELSE 0)
      /\ c[2] = b[2] + (IF 2 = k THEN 1 ELSE 0) /\ c[3] = b[3] + (IF 3 = k THEN 1 ELSE 0)
      /\ c[4] = b[4] + (IF 4 = k THEN 1 ELSE 0) /\ c[5] = b[5] + (IF 5 = k THEN 1 ELSE 0)
      /\ c[6] = b[6] + (IF 6 = k THEN 1 ELSE 0) /\ c[7] = b[7] + (IF 7 = k THEN 1 ELSE 0)
      /\ c[8] = b[8] + (IF 8 = k THEN 1 ELSE 0)
  BY <1>3, <1>5
<1>9. /\ b[0] \in Nat /\ b[1] \in Nat /\ b[2] \in Nat /\ b[3] \in Nat /\ b[4] \in Nat
      /\ b[5] \in Nat /\ b[6] \in Nat /\ b[7] \in Nat /\ b[8] \in Nat
  BY <1>6
<1>10. Total(c) = Total(b) + PowerOf2(k)
  BY <1>4, <1>8, <1>9 DEF Total, PowerOf2
<1>. QED
  BY <1>2, <1>7, <1>10 DEF b, c, k

\* What the first n caches take.
Taken(n) == IF n <= 12 THEN n ELSE IF n <= 25 THEN 2 * n - 12
            ELSE IF n <= 51 THEN 4 * n - 62 ELSE IF n <= 102 THEN 8 * n - 266
            ELSE IF n <= 205 THEN 16 * n - 1082 ELSE 32 * n - 4362

LEMMA SlabPagesAre == \A n \in 0..256 : SlabPages(n) = Taken(n)
<1>. DEFINE T == {n \in 0..256 : SlabPages(n) = Taken(n)}
<1>1. 0 \in T
  <2>1. Slabs(0) = [o \in Orders |-> 0]
    <3>1. \A o \in Orders : {i \in 1..0 : SlabOrder(i) = o} = {}
      OBVIOUS
    <3>. QED
      BY <3>1, FS_EmptySet DEF Slabs
  <2>2. SlabPages(0) = Total(Slabs(0))
    BY PagesAre, SlabsAre DEF SlabPages, Slabs
  <2>3. Orders = 0..8
    BY DEF Orders, BuddyMaxOrder
  <2>4. Total(Slabs(0)) = 0
    BY <2>1, <2>3 DEF Total
  <2>. QED
    BY <2>2, <2>4 DEF Taken
<1>2. ASSUME NEW n \in 0..256, \A m \in 0..(n - 1) : m \in T
      PROVE  n \in T
  <2>1. CASE n = 0
    BY <1>1, <2>1
  <2>2. CASE n # 0
    <3>. DEFINE m == n - 1
    <3>1. m \in 0..255 /\ m + 1 = n /\ m \in T
      BY <1>2, <2>2
    <3>2. SlabPages(m + 1) = SlabPages(m) + PowerOf2(OrderFor(m + 1)) /\ SlabPages(m) = Taken(m)
      BY <3>1, SlabPagesGrow, Zenon
    <3>3. Taken(m + 1) = Taken(m) + PowerOf2(OrderFor(m + 1))
      <4>. HIDE DEF m
      <4>. QED
        BY <3>1 DEF Taken, OrderFor, PowerOf2
    <3>. QED
      BY <3>1, <3>2, <3>3
  <2>. QED
    BY <2>1, <2>2
<1>. HIDE DEF T
<1>3. 256 \in Nat
  OBVIOUS
<1>4. 0..256 \subseteq T
  BY <1>2, <1>3, UpTo
<1>. QED
  BY <1>4 DEF T

LEMMA SumMoves ==
  ASSUME NEW b \in [0..8 -> Int], NEW c \in [0..8 -> Int], NEW d \in [0..8 -> Int],
         \A o \in 0..8 : c[o] = b[o] + d[o]
  PROVE  Total(c) = Total(b) + Total(d) /\ Total(b) \in Int /\ Total(d) \in Int
<1>1. /\ b[0] \in Int /\ b[1] \in Int /\ b[2] \in Int /\ b[3] \in Int /\ b[4] \in Int
      /\ b[5] \in Int /\ b[6] \in Int /\ b[7] \in Int /\ b[8] \in Int
  OBVIOUS
<1>2. /\ d[0] \in Int /\ d[1] \in Int /\ d[2] \in Int /\ d[3] \in Int /\ d[4] \in Int
      /\ d[5] \in Int /\ d[6] \in Int /\ d[7] \in Int /\ d[8] \in Int
  OBVIOUS
<1>3. /\ c[0] = b[0] + d[0] /\ c[1] = b[1] + d[1] /\ c[2] = b[2] + d[2]
      /\ c[3] = b[3] + d[3] /\ c[4] = b[4] + d[4] /\ c[5] = b[5] + d[5]
      /\ c[6] = b[6] + d[6] /\ c[7] = b[7] + d[7] /\ c[8] = b[8] + d[8]
  OBVIOUS
<1>4. Total(b) \in Int
  BY <1>1 DEF Total
<1>5. Total(d) \in Int
  BY <1>2 DEF Total
<1>6. Total(c) = Total(b) + Total(d)
  <2>. DEFINE p0 == b[0]
              p1 == b[1]
              p2 == b[2]
              p3 == b[3]
              p4 == b[4]
              p5 == b[5]
              p6 == b[6]
              p7 == b[7]
              p8 == b[8]
              q0 == d[0]
              q1 == d[1]
              q2 == d[2]
              q3 == d[3]
              q4 == d[4]
              q5 == d[5]
              q6 == d[6]
              q7 == d[7]
              q8 == d[8]
  <2>1. Total(c) = (p0 + q0) + 2 * (p1 + q1) + 4 * (p2 + q2) + 8 * (p3 + q3) + 16 * (p4 + q4)
                     + 32 * (p5 + q5) + 64 * (p6 + q6) + 128 * (p7 + q7) + 256 * (p8 + q8)
    BY <1>3, Zenon DEF Total
  <2>2. Total(b) = p0 + 2 * p1 + 4 * p2 + 8 * p3 + 16 * p4 + 32 * p5 + 64 * p6 + 128 * p7
                     + 256 * p8
    BY Zenon DEF Total
  <2>3. Total(d) = q0 + 2 * q1 + 4 * q2 + 8 * q3 + 16 * q4 + 32 * q5 + 64 * q6 + 128 * q7
                     + 256 * q8
    BY Zenon DEF Total
  <2>4. /\ p0 \in Int /\ p1 \in Int /\ p2 \in Int /\ p3 \in Int /\ p4 \in Int
        /\ p5 \in Int /\ p6 \in Int /\ p7 \in Int /\ p8 \in Int
    BY <1>1
  <2>5. /\ q0 \in Int /\ q1 \in Int /\ q2 \in Int /\ q3 \in Int /\ q4 \in Int
        /\ q5 \in Int /\ q6 \in Int /\ q7 \in Int /\ q8 \in Int
    BY <1>2
  <2>. HIDE DEF p0, q0, p1, q1, p2, q2, p3, q3, p4, q4, p5, q5, p6, q6, p7, q7, p8, q8
  <2>6. (p0 + q0) + 2 * (p1 + q1) + 4 * (p2 + q2) + 8 * (p3 + q3) + 16 * (p4 + q4)
          + 32 * (p5 + q5) + 64 * (p6 + q6) + 128 * (p7 + q7) + 256 * (p8 + q8)
        = (p0 + 2 * p1 + 4 * p2 + 8 * p3 + 16 * p4 + 32 * p5 + 64 * p6 + 128 * p7 + 256 * p8)
          + (q0 + 2 * q1 + 4 * q2 + 8 * q3 + 16 * q4 + 32 * q5 + 64 * q6 + 128 * q7 + 256 * q8)
    BY <2>4, <2>5
  <2>. QED
    BY <2>1, <2>2, <2>3, <2>6, Zenon
<1>. QED
  BY <1>4, <1>5, <1>6

\* One slab more is cut out of the heap: it loses the slab's pages, and every order
\* below that of the blocks cut has at most a block more, where there was none.
LEMMA CutOne ==
  ASSUME NEW b \in [Orders -> Nat], NEW k \in 0..5, b[8] > 0
  PROVE  /\ GetPages(b, k) \in [Orders -> Nat]
         /\ Total(GetPages(b, k)) + PowerOf2(k) = Total(b)
         /\ Serving(b, k) # {}
         /\ \A o \in Orders : GetPages(b, k)[o] <= b[o] \/ (b[o] = 0 /\ GetPages(b, k)[o] = 1)
<1>0. Orders = 0..8 /\ BuddyMaxOrder = 8
  BY DEF Orders, BuddyMaxOrder
<1>1. 8 \in Serving(b, k)
  BY <1>0 DEF Serving
<1>. DEFINE from == CHOOSE o \in Serving(b, k) : \A p \in Serving(b, k) : o <= p
            c == GetPages(b, k)
<1>2. from \in Serving(b, k) /\ \A p \in Serving(b, k) : from <= p
  <2>1. \E o \in Serving(b, k) : \A p \in Serving(b, k) : o <= p
    <3>1. Serving(b, k) \subseteq Int /\ (\A p \in Serving(b, k) : p >= k)
      BY DEF Serving
    <3>2. Serving(b, k) \subseteq Nat
      BY <3>1
    <3>. QED
      BY <1>1, <3>2, LeastElement
  <2>. QED
    BY <2>1, Zenon
<1>3. from \in k..8 /\ b[from] > 0
  BY <1>0, <1>2 DEF Serving
<1>4. c = [o \in Orders |-> IF o = from THEN b[o] - 1
                            ELSE IF o \in k..(from - 1) THEN b[o] + 1
                            ELSE b[o]]
  BY DEF GetPages
<1>5. ASSUME NEW o \in k..(from - 1)
      PROVE  b[o] = 0
  <2>1. o \notin Serving(b, k)
    BY <1>2, <1>3
  <2>2. o \in k..8 /\ b[o] \in Nat
    BY <1>0, <1>3
  <2>. QED
    BY <1>0, <2>1, <2>2 DEF Serving
<1>. HIDE DEF from, c
<1>6. c \in [Orders -> Nat]
  <2>1. ASSUME NEW o \in Orders
        PROVE  (IF o = from THEN b[o] - 1
                ELSE IF o \in k..(from - 1) THEN b[o] + 1 ELSE b[o]) \in Nat
    <3>1. b[o] \in Nat
      OBVIOUS
    <3>. QED
      BY <1>3, <3>1
  <2>. QED
    BY <1>4, <2>1
<1>7. ASSUME NEW o \in Orders
      PROVE  c[o] <= b[o] \/ (b[o] = 0 /\ c[o] = 1)
  <2>1. b[o] \in Nat
    OBVIOUS
  <2>. QED
    BY <1>4, <1>5, <2>1
<1>8. Total(c) + PowerOf2(k) = Total(b)
  <2>. DEFINE d == [o \in 0..8 |-> IF o = from THEN -1 ELSE IF k <= o /\ o < from THEN 1 ELSE 0]
  <2>1. ASSUME NEW o \in 0..8
        PROVE  c[o] = b[o] + d[o]
    <3>1. o \in Orders /\ b[o] \in Nat
      BY <1>0
    <3>2. (o \in k..(from - 1)) <=> (k <= o /\ o < from)
      BY <1>3
    <3>. QED
      BY <1>4, <3>1, <3>2
  <2>2. d \in [0..8 -> Int]
    OBVIOUS
  <2>3. b \in [0..8 -> Int] /\ c \in [0..8 -> Int]
    BY <1>0, <1>6
  <2>4. Total(d) + PowerOf2(k) = 0
    BY <1>3 DEF Total, PowerOf2
  <2>. HIDE DEF d
  <2>5. Total(c) = Total(b) + Total(d) /\ Total(b) \in Int /\ Total(d) \in Int
    BY <2>1, <2>2, <2>3, SumMoves
  <2>6. PowerOf2(k) \in Int
    BY DEF PowerOf2
  <2>. QED
    BY <2>4, <2>5, <2>6
<1>9. Serving(b, k) # {}
  BY <1>1
<1>. QED
  BY <1>6, <1>7, <1>8, <1>9 DEF c

-----------------------------------------------------------------------------
(* Every cache gets its slab. *)

\* The free blocks when n caches have theirs: nothing is lost, and few pages lie in
\* blocks that are not of the largest order.
CutOK(b, n) ==
  /\ b \in [Orders -> Nat] /\ n \in 0..256
  /\ Total(b) + Taken(n) = 11707
  /\ b[0] <= 187 /\ \A o \in 1..7 : b[o] <= 1

LEMMA HeapSize == PageNum(HeapEnd - HeapStart) = 11707
<1>1. HeapEnd - HeapStart = 46
  BY DEF HeapEnd, HeapStart, RamDiskStart, PageTableBase, PageTableSize, SysStack, IrqStack,
         SvcStack, PlatMemStart, PlatMemSize, KernelImgMaxSize
<1>2. PageNum(46) = 11707
  BY DEF PageNum, MB, PageSize, StructPage
<1>. QED
  BY <1>1, <1>2

LEMMA WholeHeap == CutOK(InitialBlocks(HeapEnd - HeapStart), 0)
<1>1. 2^8 = 256 /\ BuddyMaxOrder = 8 /\ Orders = 0..8
  <2>1. 8 \in Orders /\ BuddyMaxOrder = 8 /\ Orders = 0..8
    BY DEF Orders, BuddyMaxOrder
  <2>. QED
    BY <2>1, PowersOfTwo DEF PowerOf2
<1>2. 11707 \div 256 = 45 /\ 11707 % 256 = 187
  OBVIOUS
<1>3. InitialBlocks(HeapEnd - HeapStart) =
        [o \in Orders |-> CASE o = 8 -> 45 [] o = 0 -> 187 [] OTHER -> 0]
  BY <1>1, <1>2, HeapSize DEF InitialBlocks
<1>. DEFINE b == InitialBlocks(HeapEnd - HeapStart)
<1>4. /\ b[0] = 187 /\ b[8] = 45 /\ b[1] = 0 /\ b[2] = 0 /\ b[3] = 0 /\ b[4] = 0
      /\ b[5] = 0 /\ b[6] = 0 /\ b[7] = 0
  BY <1>1, <1>3
<1>5. \A o \in Orders : b[o] \in Nat
  BY <1>1, <1>3
<1>6. b \in [Orders -> Nat]
  BY <1>3, <1>5
<1>7. \A o \in 1..7 : b[o] <= 1
  BY <1>1, <1>3
<1>. HIDE DEF b
<1>8. Total(b) + Taken(0) = 11707
  BY <1>4 DEF Total, Taken
<1>9. CutOK(b, 0)
  BY <1>4, <1>6, <1>7, <1>8 DEF CutOK
<1>. QED
  BY <1>9 DEF b

LEMMA FewSmall ==
  ASSUME NEW b \in [0..8 -> Nat], b[0] <= 187, \A o \in 1..7 : b[o] <= 1
  PROVE  Total(b) \in Int /\ Total(b) <= 441 + 256 * b[8]
<1>1. /\ b[0] \in Nat /\ b[1] \in Nat /\ b[2] \in Nat /\ b[3] \in Nat /\ b[4] \in Nat
      /\ b[5] \in Nat /\ b[6] \in Nat /\ b[7] \in Nat /\ b[8] \in Nat
  OBVIOUS
<1>2. /\ b[0] <= 187 /\ b[1] <= 1 /\ b[2] <= 1 /\ b[3] <= 1 /\ b[4] <= 1 /\ b[5] <= 1
      /\ b[6] <= 1 /\ b[7] <= 1
  OBVIOUS
<1>. QED
  BY <1>1, <1>2 DEF Total

LEMMA LargestLeft ==
  ASSUME NEW b, NEW n, CutOK(b, n)
  PROVE  b[8] > 0
<1>1. Orders = 0..8
  BY DEF Orders, BuddyMaxOrder
<1>2. /\ b[0] \in Nat /\ b[1] \in Nat /\ b[2] \in Nat /\ b[3] \in Nat /\ b[4] \in Nat
      /\ b[5] \in Nat /\ b[6] \in Nat /\ b[7] \in Nat /\ b[8] \in Nat
  BY <1>1 DEF CutOK
<1>3. /\ b[0] <= 187 /\ b[1] <= 1 /\ b[2] <= 1 /\ b[3] <= 1 /\ b[4] <= 1 /\ b[5] <= 1
      /\ b[6] <= 1 /\ b[7] <= 1
  BY DEF CutOK
<1>4. Taken(n) \in Int /\ Taken(n) <= 3830 /\ Total(b) + Taken(n) = 11707
  BY DEF CutOK, Taken
<1>5. b \in [0..8 -> Nat] /\ b[0] <= 187 /\ \A o \in 1..7 : b[o] <= 1
  BY <1>1 DEF CutOK
<1>6. Total(b) \in Int /\ Total(b) <= 441 + 256 * b[8]
  BY <1>5, FewSmall
<1>. QED
  BY <1>2, <1>4, <1>6

LEMMA CutNext ==
  ASSUME NEW b, NEW n, CutOK(b, n), n < 256
  PROVE  /\ CanCreate(b, n + 1)
         /\ CutOK(GetPages(b, SlabOrder(n + 1)), n + 1)
<1>. DEFINE k == SlabOrder(n + 1)
<1>1. n \in 0..255 /\ n + 1 \in 1..256 /\ n + 1 \in 0..256 /\ b \in [Orders -> Nat] /\ b[8] > 0
  BY LargestLeft DEF CutOK
<1>2. k = OrderFor(n + 1)
  BY <1>1, SlabOrders, Zenon
<1>3. k \in 0..5
  BY <1>2 DEF OrderFor
<1>4. Taken(n + 1) = Taken(n) + PowerOf2(k) /\ Taken(n) \in Int
  BY <1>1, <1>2 DEF Taken, OrderFor, PowerOf2
<1>. HIDE DEF k
<1>. DEFINE c == GetPages(b, k)
<1>5. /\ c \in [Orders -> Nat] /\ Total(c) + PowerOf2(k) = Total(b) /\ Serving(b, k) # {}
      /\ \A o \in Orders : c[o] <= b[o] \/ (b[o] = 0 /\ c[o] = 1)
  BY <1>1, <1>3, CutOne
<1>. HIDE DEF c
<1>6. CanCreate(b, n + 1)
  BY <1>3, <1>5 DEF CanCreate, k, NoOrder
<1>7. Orders = 0..8
  BY DEF Orders, BuddyMaxOrder
<1>8. c[0] <= 187 /\ \A o \in 1..7 : c[o] <= 1
  <2>1. ASSUME NEW o \in Orders, NEW m \in Nat, m >= 1, b[o] <= m
        PROVE  c[o] <= m
    <3>1. c[o] \in Nat /\ b[o] \in Nat
      BY <1>1, <1>5
    <3>. QED
      BY <1>5, <2>1, <3>1
  <2>2. b[0] <= 187 /\ \A o \in 1..7 : b[o] <= 1
    BY DEF CutOK
  <2>. QED
    BY <1>7, <2>1, <2>2
<1>9. Total(c) + Taken(n + 1) = 11707
  <2>1. Total(b) + Taken(n) = 11707
    BY DEF CutOK
  <2>2. Total(c) \in Int /\ PowerOf2(k) \in Int
    <3>1. \A o \in 0..8 : c[o] \in Nat
      BY <1>5, <1>7
    <3>. QED
      BY <3>1 DEF Total, PowerOf2
  <2>. QED
    BY <1>4, <1>5, <2>1, <2>2
<1>10. CutOK(c, n + 1)
  BY <1>1, <1>5, <1>8, <1>9 DEF CutOK
<1>. QED
  BY <1>6, <1>10 DEF c, k

\* No slab is smaller than its objects, and none has more than a tenth over.
LEMMA LittleWaste ==
  ASSUME NEW i \in 1..256
  PROVE  LET slab == PageSize * 2^SlabOrder(i)
             size == i * KmallocBias
         IN  size <= slab /\ 10 * (slab % size) <= slab
<1>. DEFINE slab == PageSize * 2^SlabOrder(i)
            size == i * KmallocBias
<1>1. slab = 4096 * PowerOf2(OrderFor(i))
  <2>1. SlabOrder(i) = OrderFor(i)
    BY SlabOrders, Zenon
  <2>2. OrderFor(i) \in Orders
    BY DEF OrderFor, Orders, BuddyMaxOrder
  <2>. QED
    BY <2>1, <2>2, PowersOfTwo DEF PageSize
<1>2. size = i * 32
  BY DEF KmallocBias
<1>. HIDE DEF slab, size
<1>3. slab \in Nat /\ size \in Nat /\ size > 0 /\ size <= slab
  BY <1>1, <1>2 DEF PowerOf2, OrderFor
<1>4. slab % size \in Nat /\ slab % size < size
  BY <1>3, Mod
<1>5. CASE i # 205
  <2>1. 10 * size <= slab + 10
    BY <1>1, <1>2, <1>5 DEF PowerOf2, OrderFor
  <2>. QED
    BY <1>3, <1>4, <2>1 DEF slab, size
<1>6. CASE i = 205
  <2>1. slab = 65536 /\ size = 6560
    BY <1>1, <1>2, <1>6 DEF PowerOf2, OrderFor
  <2>2. 65536 % 6560 = 6496
    OBVIOUS
  <2>. QED
    BY <1>3, <2>1, <2>2 DEF slab, size
<1>. QED
  BY <1>5, <1>6

-----------------------------------------------------------------------------
(* The heap at each step: untouched before init_page_map, then cut up without a   *)
(* loss, and when kmalloc_init is over every cache has its slab.                  *)

HeapDone == {"kmalloc_init", "talk", "run"}

HeapInv ==
  /\ heap = [blocks |-> heap.blocks, caches |-> heap.caches]
  /\ at \notin HeapDone => heap.caches = 0
  /\ at \in HeapDone => CutOK(heap.blocks, heap.caches)
  /\ at \in {"talk", "run"} => heap.caches = 256

LEMMA KmallocHas == KmallocCacheSize = 256
BY DEF KmallocCacheSize, KmallocMaxSize, KmallocBias

LEMMA HeapNext ==
  ASSUME HeapInv, [Next]_vars
  PROVE  HeapInv'
<1>1. CASE InitPageMap
  <2>1. at = "init_page_map" /\ at' = "kmalloc_init" /\ heap.caches = 0
    BY <1>1, ComesNext DEF InitPageMap, Does, HeapInv, HeapDone
  <2>2. heap' = [blocks |-> InitialBlocks(HeapEnd - HeapStart), caches |-> 0]
    <3>1. heap' = [heap EXCEPT !.blocks = InitialBlocks(HeapEnd - HeapStart)]
      BY <1>1 DEF InitPageMap
    <3>2. heap = [blocks |-> heap.blocks, caches |-> heap.caches]
      BY DEF HeapInv
    <3>. QED
      BY <2>1, <3>1, <3>2
  <2>3. heap'.blocks = InitialBlocks(HeapEnd - HeapStart) /\ heap'.caches = 0
    BY <2>2
  <2>4. CutOK(heap'.blocks, heap'.caches)
    BY <2>3, WholeHeap, Zenon
  <2>5. heap' = [blocks |-> heap'.blocks, caches |-> heap'.caches]
    BY <2>2, <2>3
  <2>. QED
    BY <2>1, <2>4, <2>5 DEF HeapInv, HeapDone
<1>2. CASE CreateCache
  <2>. DEFINE b == heap.blocks
              n == heap.caches
  <2>1. at = "kmalloc_init" /\ at' = at /\ n < KmallocCacheSize
    BY <1>2 DEF CreateCache, MoreCaches
  <2>2. heap' = [caches |-> n + 1, blocks |-> GetPages(b, SlabOrder(n + 1))]
    BY <1>2 DEF CreateCache
  <2>3. CutOK(b, n) /\ n < 256
    BY <2>1, KmallocHas DEF HeapInv, HeapDone
  <2>. HIDE DEF b, n
  <2>4. CutOK(GetPages(b, SlabOrder(n + 1)), n + 1)
    BY <2>3, CutNext
  <2>5. /\ heap'.blocks = GetPages(b, SlabOrder(n + 1)) /\ heap'.caches = n + 1
        /\ heap' = [blocks |-> heap'.blocks, caches |-> heap'.caches]
    BY <2>2
  <2>6. CutOK(heap'.blocks, heap'.caches)
    BY <2>4, <2>5, Zenon
  <2>. QED
    BY <2>1, <2>5, <2>6 DEF HeapInv, HeapDone
<1>3. CASE KmallocInit
  <2>1. at = "kmalloc_init" /\ at' = "talk" /\ heap' = heap /\ ~MoreCaches
    BY <1>3, ComesNext DEF KmallocInit, Does
  <2>2. CutOK(heap.blocks, heap.caches)
    BY <2>1 DEF HeapInv, HeapDone
  <2>3. heap.caches = 256
    <3>1. heap.caches \in 0..256
      BY <2>2 DEF CutOK
    <3>2. heap.caches < 256 => CanCreate(heap.blocks, heap.caches + 1)
      BY <2>2, CutNext
    <3>. QED
      BY <2>1, <3>1, <3>2, KmallocHas DEF MoreCaches
  <2>. QED
    BY <2>1, <2>2, <2>3 DEF HeapInv, HeapDone
<1>4. CASE TalkStep
  BY <1>4 DEF TalkStep, HeapInv, HeapDone
<1>5. CASE UNCHANGED <<heap, at>>
  BY <1>5 DEF HeapInv, HeapDone
<1>6. CASE heap' = heap /\ at \notin HeapDone /\ at' \notin HeapDone
  BY <1>6 DEF HeapInv, HeapDone
<1>7. ASSUME Reset \/ OnSdram \/ VectorReset \/ ClearBss \/ TaskInit
      PROVE  heap' = heap /\ at \notin HeapDone /\ at' \notin HeapDone
  BY <1>7 DEF Reset, OnSdram, VectorReset, ClearBss, TaskInit, Order, HeapDone
<1>8. ASSUME Uart0Init \/ DisableIrq \/ InitSysMmu \/ StartMmu \/ IrqInit \/ TimerInit
             \/ DriverInit \/ RomfsInit
      PROVE  heap' = heap /\ at \notin HeapDone /\ at' \notin HeapDone
  BY <1>8, ComesNext
     DEF Uart0Init, DisableIrq, InitSysMmu, StartMmu, IrqInit, TimerInit, DriverInit, RomfsInit,
         Does, HeapDone
<1>9. ASSUME \/ Tick \/ TakeIrq \/ (NandNext /\ UNCHANGED <<sysVars, consoleVars>>)
             \/ (ConsoleNext /\ UNCHANGED <<sysVars, nandVars>>) \/ UNCHANGED vars
      PROVE  UNCHANGED <<heap, at>>
  BY <1>9 DEF Tick, TakeIrq, sysVars, vars
<1>. QED
  BY <1>1, <1>2, <1>3, <1>4, <1>5, <1>6, <1>7, <1>8, <1>9 DEF Next, Boot, KernelNext

\* kmalloc_init gives every cache its slab, of an order that wastes little, and the
\* pages it leaves and the pages of the slabs are all the heap had.
THEOREM CachesMade == Spec => []CachesReady
<1>1. Init => HeapInv
  BY DEF Init, HeapInv, HeapDone
<1>2. HeapInv /\ [Next]_vars => HeapInv'
  BY HeapNext
<1>3. HeapInv => CachesReady
  <2>. SUFFICES ASSUME HeapInv, at = "talk"
                PROVE  /\ heap.caches = KmallocCacheSize
                       /\ \A i \in 1..KmallocCacheSize :
                            LET slab == PageSize * 2^SlabOrder(i)
                                size == i * KmallocBias
                            IN  size <= slab /\ 10 * (slab % size) <= slab
                       /\ PagesIn(heap.blocks) + SlabPages(KmallocCacheSize)
                            = PageNum(HeapEnd - HeapStart)
                       /\ heap.blocks[BuddyMaxOrder] > 0
    BY Zenon DEF CachesReady
  <2>1. heap.caches = 256 /\ CutOK(heap.blocks, 256)
    BY DEF HeapInv, HeapDone
  <2>2. PagesIn(heap.blocks) = Total(heap.blocks) /\ Total(heap.blocks) + Taken(256) = 11707
    BY <2>1, PagesAre DEF CutOK
  <2>3. SlabPages(256) = Taken(256)
    BY SlabPagesAre
  <2>4. heap.blocks[8] > 0
    BY <2>1, LargestLeft
  <2>5. \A i \in 1..KmallocCacheSize :
          LET slab == PageSize * 2^SlabOrder(i)
              size == i * KmallocBias
          IN  size <= slab /\ 10 * (slab % size) <= slab
    BY LittleWaste, KmallocHas, Zenon
  <2>6. BuddyMaxOrder = 8
    BY DEF BuddyMaxOrder
  <2>7. PagesIn(heap.blocks) + SlabPages(KmallocCacheSize) = PageNum(HeapEnd - HeapStart)
    <3>1. SlabPages(KmallocCacheSize) = Taken(256)
      BY <2>3, KmallocHas
    <3>2. PagesIn(heap.blocks) + SlabPages(KmallocCacheSize) = 11707
      BY <2>2, <3>1
    <3>. QED
      BY <3>2, HeapSize
  <2>. QED
    BY <2>1, <2>4, <2>5, <2>6, <2>7, KmallocHas, Zenon
<1>. QED
  BY <1>1, <1>2, <1>3, PTL DEF Spec
=============================================================================
